------------------------------ MODULE ChatTurn ------------------------------
(***************************************************************************)
(* One conversation between the chatbot page and the streaming endpoints:  *)
(* POST /models-streaming (a chat turn) and POST /models-streaming/resume  *)
(* (the answer to an interrupt).  The handler turns the agent's events     *)
(* into two things that must agree: NDJSON chunks for the page and an      *)
(* assistant message in the chat history.  The page folds the chunks into  *)
(* what it shows, may abort, and may be reloaded from the history.         *)
(*                                                                         *)
(* The handler is single-threaded: an action is what it does between two   *)
(* awaits.  The agent (the compiled LangGraph graph and its checkpointer)  *)
(* is external and modelled by the events and states the handler meets.    *)
(***************************************************************************)
EXTENDS Naturals, Sequences, FiniteSets

CONSTANTS
  Tools,        \* tool calls (their run ids)
  Workloads     \* bounds of the instances, one of which a behaviour is in:
                \* chat and resume requests; events of the agent, over all
                \* turns; history writes that throw (disk full, permissions)

ASSUME TurnAssumption ==
  /\ Workloads \subseteq [turns : Nat, events : Nat, failures : Nat]
  /\ Tools \cap {"reasoning", "plan", "answer", "interrupt"} = {}

VARIABLES
  pc,        \* where the handler of the current turn is
  kind,      \* "chat" or "resume"
  seen,      \* hasReasoning, reasoningCompleted, hasAnswer
  tool,      \* tool[t]: what became of the call
  pending,   \* the graph's checkpoint holds an unanswered interrupt
  agentOpen, \* createAgent returned and close was not called
  msg,       \* the turn's assistant message in the chat history
  wire,      \* chunks written and not yet read by the page
  ended,     \* res.end() was called
  endings,   \* how many chunks with isEnd were written (history variable)
  ui,        \* the page's copy of the message
  conn,      \* the page's side of the response
  turns, events, failures, \* how many more there may be
  failed     \* a history write has thrown

server  == <<pc, kind, seen, tool, pending, agentOpen, msg, ended, endings>>
client  == <<ui, conn>>
writes  == <<failures, failed>>
counted == <<turns, events, writes>>
vars    == <<server, wire, client, counted>>

StepKeys   == Tools \cup {"reasoning", "plan", "answer", "interrupt"}
StepStatus == {"none", "loading", "success", "error", "waiting"}
MsgStatus  == {"absent", "updating", "done", "error", "waiting"}
Stages == {"idle", "record", "prepare", "create", "compose", "stream", "closing",
           "lookup", "finWaiting", "finDone", "catch", "close", "over", "down"}
ToolStates == {"idle", "running", "ended", "failed", "misread", "interrupted"}

NoSteps == [k \in StepKeys |-> "none"]
Absent  == [status |-> "absent", steps |-> NoSteps]
Fresh   == [status |-> "updating", steps |-> NoSteps]
Unseen  == [reasoning |-> FALSE, reasoned |-> FALSE, answer |-> FALSE]

Thinking  == [type |-> "thinking_delta"]
Content   == [type |-> "content_delta"]
Interrupt == [type |-> "interrupt"]
Done      == [type |-> "done"]
Error     == [type |-> "error"]
StepChunk(key, status) == [type |-> "thought_step", key |-> key, status |-> status]
Chunks == {Thinking, Content, Interrupt, Done, Error}
          \cup {StepChunk(k, s) : k \in StepKeys, s \in StepStatus}
Terminal == {Interrupt, Done, Error}

Init ==
  /\ pc = "idle" /\ kind = "chat" /\ seen = Unseen
  /\ tool = [t \in Tools |-> "idle"]
  /\ pending = FALSE /\ agentOpen = FALSE
  /\ msg = Absent
  /\ wire = <<>> /\ ended = FALSE /\ endings = 0
  /\ ui = [status |-> "absent", form |-> FALSE, requesting |-> FALSE]
  /\ conn = "none"
  /\ \E w \in Workloads : turns = w.turns /\ events = w.events
                                /\ failures = w.failures
  /\ failed = FALSE

-----------------------------------------------------------------------------
(* Chat history: each operation reads the conversation, changes one message *)
(* (recreating it if it is gone) and writes the conversation back, without  *)
(* an await.  Reading also consults the checkpoint, whose steps replace     *)
(* those of a message that has fewer.  That is left out: the graph awaits   *)
(* the delivery of its events, so of the running turn the checkpoint never  *)
(* knows more steps than the history.                                       *)

\* The last of some positions in a sequence.
Latest(positions) == CHOOSE i \in positions : \A j \in positions : j <= i
StepsFor(k, chunks) ==
  {i \in DOMAIN chunks : chunks[i].type = "thought_step" /\ chunks[i].key = k}

\* (Operators marked "Defect" are not the program: each is a plausible bug in
\* the definition that follows it, which the properties must detect.)
\* Defect: the message takes the status of its latest step.
StepSetsStatus(m, chunks) ==
  LET steps == UNION {StepsFor(k, chunks) : k \in StepKeys}
  IN  [m EXCEPT !.status = IF steps = {} THEN @ ELSE chunks[Latest(steps)].status]

\* upsertAssistantThoughtStep, appendAssistantThinking and
\* appendAssistantContent, once per chunk in its order: what is written last
\* stays.  A step that fails sets the message to error, thinking and content
\* set it to updating; the other chunks are not recorded.
Recorded(m, chunks) ==
  LET fails(c) == c.type = "thought_step" /\ c.status = "error"
      marks == {i \in DOMAIN chunks : \/ fails(chunks[i])
                                      \/ chunks[i].type \in {"thinking_delta", "content_delta"}}
      steps == UNION {StepsFor(k, chunks) : k \in StepKeys}
  IN  [status |-> IF marks # {}
                  THEN IF fails(chunks[Latest(marks)]) THEN "error" ELSE "updating"
                  ELSE IF m.status = "absent" /\ steps # {} THEN "updating" ELSE m.status,
       steps  |-> [k \in StepKeys |-> IF StepsFor(k, chunks) = {} THEN m.steps[k]
                                      ELSE chunks[Latest(StepsFor(k, chunks))].status]]

\* Defect: loading steps are left as they are.
StatusOnly(m, status) ==
  [status |-> status, steps |-> m.steps]

\* finalizeAssistantMessage.
Finalized(m, status) ==
  [status |-> status,
   steps  |-> [k \in StepKeys |->
                 IF status # "error" /\ m.steps[k] = "loading" THEN "success"
                 ELSE m.steps[k]]]

-----------------------------------------------------------------------------
(* Writing to the response.  A page that went away reads nothing, but the   *)
(* handler does not notice and goes on.                                     *)

Send(chunks) ==
  /\ wire' = IF conn = "open" THEN wire \o chunks ELSE wire
  /\ endings' = endings + Cardinality({i \in DOMAIN chunks : chunks[i] \in Terminal})

WriteThrows == failures > 0 /\ failures' = failures - 1 /\ failed' = TRUE

\* Write the chunks and record each of them right after it; a history write
\* that throws ends the stream between the two.
Emit(chunks, next) ==
  \/ /\ Send(chunks)
     /\ msg' = Recorded(msg, chunks)
     /\ pc' = next
     /\ UNCHANGED writes
  \/ \E i \in DOMAIN chunks :
       /\ WriteThrows
       /\ chunks[i] \notin Terminal
       /\ Send(SubSeq(chunks, 1, i))
       /\ msg' = Recorded(msg, SubSeq(chunks, 1, i - 1))
       /\ pc' = "catch"

CloseReasoning ==
  IF seen.reasoning /\ ~seen.reasoned THEN <<StepChunk("reasoning", "success")>> ELSE <<>>

-----------------------------------------------------------------------------
(* The page starts a turn.                                                  *)

StartTurn(k) ==
  /\ pc \in {"idle", "over", "down"}
  /\ turns > 0
  /\ ~ui.requesting
  /\ turns' = turns - 1
  /\ pc' = "record" /\ kind' = k
  /\ seen' = Unseen /\ tool' = [t \in Tools |-> "idle"]
  /\ msg' = Absent
  /\ wire' = <<>> /\ ended' = FALSE /\ endings' = 0
  /\ conn' = "open"
  /\ UNCHANGED <<pending, agentOpen, events, writes>>

\* sendMessage: a new assistant message, shown as updating.
SendMessage ==
  /\ StartTurn("chat")
  /\ ui' = [status |-> "updating", form |-> FALSE, requesting |-> TRUE]

\* resumePendingInterrupt: the answer continues the message that shows the form.
SubmitForm ==
  /\ ui.status = "waiting" /\ ui.form
  /\ StartTurn("resume")
  /\ ui' = [ui EXCEPT !.requesting = TRUE]

-----------------------------------------------------------------------------
(* The handler up to the stream.                                            *)

\* The message is in the history before anything else happens.
Record(next) ==
  /\ pc = "record"
  /\ \/ msg' = Fresh /\ pc' \in next /\ UNCHANGED writes
     \/ /\ WriteThrows
        /\ pc' = "catch"
        /\ UNCHANGED msg
  /\ UNCHANGED <<kind, seen, tool, pending, agentOpen, wire, ended, endings,
                 client, turns, events>>

\* streamChat: appendUserMessage, ensureAssistantMessage and the check that the
\* agent and its model are configured.
RecordChat == kind = "chat" /\ Record({"prepare", "catch"})

\* resume: ensureAssistantMessage, after the answer was validated.
RecordResume == kind = "resume" /\ Record({"create"})

\* resolveBailianFileReferences, then createAgent, then buildModelMessages:
\* each may throw, and only a createAgent that returned leaves something to
\* close.
Prepare ==
  /\ \/ /\ pc = "prepare" /\ pc' \in {"create", "catch"}
        /\ UNCHANGED <<agentOpen, pending>>
     \/ /\ pc = "create"
        /\ \/ /\ agentOpen' = TRUE
              /\ pc' = IF kind = "chat" THEN "compose" ELSE "stream"
              /\ pending' = (pending /\ kind = "chat")
           \/ /\ pc' = "catch"
              /\ UNCHANGED <<agentOpen, pending>>
     \/ /\ pc = "compose"
        /\ \/ pc' = "stream" /\ pending' = FALSE
           \/ pc' = "catch" /\ UNCHANGED pending
        /\ UNCHANGED agentOpen
  /\ UNCHANGED <<kind, seen, tool, msg, wire, ended, endings, client, counted>>

-----------------------------------------------------------------------------
(* consumeAgentStream: one action per kind of event.                        *)

Event ==
  /\ pc = "stream"
  /\ events > 0
  /\ events' = events - 1
  /\ UNCHANGED <<kind, agentOpen, ended, client, turns>>

\* on_chat_model_stream; one chunk may think, call tools and answer.
ModelStream(thinks, plans, says) ==
  /\ Event
  /\ LET closes == (plans \/ says) /\ ~seen.reasoned /\ (seen.reasoning \/ thinks)
     IN  /\ Emit((IF thinks /\ ~seen.reasoning
                  THEN <<StepChunk("reasoning", "loading")>> ELSE <<>>)
                 \o (IF thinks THEN <<Thinking>> ELSE <<>>)
                 \o (IF closes THEN <<StepChunk("reasoning", "success")>> ELSE <<>>)
                 \o (IF plans THEN <<StepChunk("plan", "success")>> ELSE <<>>)
                 \o (IF says /\ ~seen.answer
                     THEN <<StepChunk("answer", "loading")>> ELSE <<>>)
                 \o (IF says THEN <<Content>> ELSE <<>>),
                 "stream")
         /\ seen' = [reasoning |-> seen.reasoning \/ thinks,
                     reasoned  |-> seen.reasoned \/ closes,
                     answer    |-> seen.answer \/ says]
  /\ UNCHANGED <<tool, pending>>

ToolStart(t) ==
  /\ tool[t] = "idle"
  /\ Event
  /\ Emit(CloseReasoning \o <<StepChunk(t, "loading")>>, "stream")
  /\ seen' = [seen EXCEPT !.reasoned = seen.reasoned \/ seen.reasoning]
  /\ tool' = [tool EXCEPT ![t] = "running"]
  /\ UNCHANGED pending

ToolEnd(t) ==
  /\ tool[t] = "running"
  /\ Event
  /\ Emit(<<StepChunk(t, "success")>>, "stream")
  /\ tool' = [tool EXCEPT ![t] = "ended"]
  /\ UNCHANGED <<seen, pending>>

\* Defect: every tool error is taken for an interrupt without payload.
ToolErrorSkipped(t) ==
  /\ tool[t] = "running"
  /\ Event
  /\ Emit(<<>>, "stream")
  /\ tool' = [tool EXCEPT ![t] = "failed"]
  /\ UNCHANGED <<seen, pending>>

\* Defect: every tool error asks the user.
ToolErrorAsks(t) ==
  /\ tool[t] = "running"
  /\ Event
  /\ Emit(<<StepChunk("interrupt", "waiting"), Interrupt>>, "finWaiting")
  /\ tool' = [tool EXCEPT ![t] = "failed"]
  /\ UNCHANGED <<seen, pending>>

\* on_tool_error whose text names neither GraphInterrupt nor ask_human.
ToolFails(t) ==
  /\ tool[t] = "running"
  /\ Event
  /\ Emit(<<StepChunk(t, "error")>>, "stream")
  /\ tool' = [tool EXCEPT ![t] = "failed"]
  /\ UNCHANGED <<seen, pending>>

\* Defect: the loop goes on after it has announced an interrupt.
ToolInterruptsGoesOn(t, real, payload) ==
  /\ tool[t] = "running"
  /\ Event
  /\ IF payload
     THEN Emit(<<StepChunk("interrupt", "waiting"), Interrupt>>, "stream")
     ELSE Emit(<<>>, "stream")
  /\ tool' = [tool EXCEPT ![t] = IF real THEN "interrupted" ELSE "misread"]
  /\ pending' = (pending \/ real)
  /\ UNCHANGED seen

\* on_tool_error whose text names one of them: a GraphInterrupt, which pauses
\* the graph, or a failure that is mistaken for one.  If the text holds a
\* payload the stream is abandoned at once, if not the event is skipped.
ToolInterrupts(t, real, payload) ==
  /\ tool[t] = "running"
  /\ Event
  /\ IF payload
     THEN Emit(<<StepChunk("interrupt", "waiting"), Interrupt>>, "finWaiting")
     ELSE Emit(<<>>, "stream")
  /\ tool' = [tool EXCEPT ![t] = IF real THEN "interrupted" ELSE "misread"]
  /\ pending' = (pending \/ real)
  /\ UNCHANGED seen

\* The iterator throws a GraphInterrupt, with or without its value.
StreamInterrupts(payload) ==
  /\ pc = "stream"
  /\ IF payload
     THEN Emit(<<StepChunk("interrupt", "waiting"), Interrupt>>, "finWaiting")
     ELSE Emit(<<>>, "closing")
  /\ pending' = TRUE
  /\ UNCHANGED <<kind, seen, tool, agentOpen, ended, client, turns, events>>

\* It throws anything else (model provider, tool binding, recursion limit); the
\* checkpoint may or may not have got past an interrupt by then.
StreamThrows ==
  /\ pc = "stream"
  /\ pc' = "catch"
  /\ pending' \in BOOLEAN
  /\ UNCHANGED <<kind, seen, tool, agentOpen, msg, wire, ended, endings,
                 client, counted>>

\* The stream is exhausted: the graph finished, or it paused at a tool that
\* needs approval.
StreamEnds ==
  /\ pc = "stream"
  /\ \A t \in Tools : tool[t] # "running"
  /\ pc' = "closing"
  /\ pending' \in {pending, TRUE}
  /\ UNCHANGED <<kind, seen, tool, agentOpen, msg, wire, ended, endings, client,
                 counted>>

-----------------------------------------------------------------------------
(* The end of the stream and of the handler.                                *)

CloseSteps ==
  /\ pc = "closing"
  /\ Emit(CloseReasoning
          \o (IF seen.answer THEN <<StepChunk("answer", "success")>> ELSE <<>>),
          "lookup")
  /\ UNCHANGED <<kind, seen, tool, pending, agentOpen, ended, client, turns, events>>

\* Defect: the checkpoint is not asked.
LookupSkipped ==
  /\ pc = "lookup"
  /\ Emit(<<>>, "finDone")
  /\ UNCHANGED <<kind, seen, tool, pending, agentOpen, ended, client, turns, events>>

\* getPendingInterrupts: an interrupt no event showed is found here.
LookupInterrupts ==
  /\ pc = "lookup"
  /\ IF pending
     THEN Emit(<<StepChunk("interrupt", "waiting"), Interrupt>>, "finWaiting")
     ELSE Emit(<<>>, "finDone")
  /\ UNCHANGED <<kind, seen, tool, pending, agentOpen, ended, client, turns, events>>

LookupThrows ==
  /\ pc = "lookup"
  /\ pc' = "catch"
  /\ UNCHANGED <<kind, seen, tool, pending, agentOpen, msg, wire, ended, endings,
                 client, counted>>

\* finalizeAssistantMessage throws before anything else of its stage happens.
FinalizeFails ==
  /\ pc \in {"finWaiting", "finDone"}
  /\ WriteThrows
  /\ pc' = "catch"
  /\ UNCHANGED <<kind, seen, tool, pending, agentOpen, msg, wire, ended, endings,
                 client, turns, events>>

\* Defect: the response stays open until the form is answered.
FinishWaitingOpen ==
  /\ pc = "finWaiting"
  /\ msg' = Finalized(msg, "waiting")
  /\ pc' = "close"
  /\ UNCHANGED <<kind, seen, tool, pending, agentOpen, wire, ended, endings,
                 client, counted>>

FinishWaiting ==
  /\ pc = "finWaiting"
  /\ msg' = Finalized(msg, "waiting")
  /\ ended' = TRUE
  /\ pc' = "close"
  /\ UNCHANGED <<kind, seen, tool, pending, agentOpen, wire, endings, client, counted>>

FinishDone ==
  /\ pc = "finDone"
  /\ msg' = Finalized(msg, "done")
  /\ Send(<<Done>>)
  /\ ended' = TRUE
  /\ pc' = "close"
  /\ UNCHANGED <<kind, seen, tool, pending, agentOpen, client, counted>>

\* Defect: the agent is closed only where the turn succeeds.
CatchWithoutFinally ==
  /\ pc = "catch"
  /\ Send(<<Error>>)
  /\ ended' = TRUE
  /\ pc' = "over"
  /\ msg' = Finalized(msg, "error")
  /\ UNCHANGED <<kind, seen, tool, pending, agentOpen, client, counted>>

\* The catch clause: tell the page, then the history.
CatchError ==
  /\ pc = "catch"
  /\ Send(<<Error>>)
  /\ ended' = TRUE
  /\ pc' = "close"
  /\ \/ msg' = Finalized(msg, "error") /\ UNCHANGED writes
     \/ /\ WriteThrows
        /\ UNCHANGED msg
  /\ UNCHANGED <<kind, seen, tool, pending, agentOpen, client, turns, events>>

\* The finally clause; a close that throws is logged and ignored.
CloseAgent ==
  /\ pc = "close"
  /\ agentOpen' = FALSE
  /\ pc' = "over"
  /\ UNCHANGED <<kind, seen, tool, pending, msg, wire, ended, endings, client, counted>>

\* The API process dies in the middle of a turn and is started again.
Crash ==
  /\ pc \notin {"idle", "over", "down"}
  /\ pc' = "down"
  /\ agentOpen' = FALSE
  /\ wire' = <<>>
  /\ IF conn = "open"
     THEN /\ conn' = "lost"
          /\ ui' = [ui EXCEPT !.status = "error", !.requesting = FALSE]
     ELSE UNCHANGED client
  /\ UNCHANGED <<kind, seen, tool, pending, msg, ended, endings, counted>>

-----------------------------------------------------------------------------
(* The page.                                                                *)

\* onChunk.  Only the callback of a resume takes the form away again.
Shown(view, c) ==
  CASE c.type = "thinking_delta" -> [view EXCEPT !.status = "updating"]
    [] c.type = "content_delta" ->
         [view EXCEPT !.status = "updating", !.form = @ /\ kind = "chat"]
    [] c.type = "thought_step" -> view
    [] c.type = "interrupt" -> [view EXCEPT !.status = "waiting", !.form = TRUE]
    [] c.type \in {"done", "error"} ->
         [view EXCEPT !.status = c.type, !.form = @ /\ kind = "chat"]

ReadChunk ==
  /\ conn = "open" /\ wire # <<>>
  /\ ui' = Shown(ui, Head(wire))
  /\ wire' = Tail(wire)
  /\ UNCHANGED <<server, conn, counted>>

\* Defect: whatever is not an error is done.
FinishAllDone ==
  /\ conn = "open" /\ wire = <<>> /\ ended
  /\ conn' = "finished"
  /\ ui' = [ui EXCEPT !.status = IF @ = "error" THEN "error" ELSE "done",
                      !.requesting = FALSE]
  /\ UNCHANGED <<server, wire, counted>>

\* The reader is done: what the promise's continuation makes of the message.
FinishReading ==
  /\ conn = "open" /\ wire = <<>> /\ ended
  /\ conn' = "finished"
  /\ ui' = IF kind = "chat"
           THEN [ui EXCEPT !.status = IF @ \in {"error", "waiting"} THEN @ ELSE "done",
                           !.requesting = FALSE]
           ELSE IF ui.status = "updating"
           THEN [status |-> "done", form |-> FALSE, requesting |-> FALSE]
           ELSE [ui EXCEPT !.requesting = FALSE]
  /\ UNCHANGED <<server, wire, counted>>

\* The stop button; a resume has no AbortController.
Abort ==
  /\ conn = "open" /\ ui.requesting /\ kind = "chat"
  /\ conn' = "aborted"
  /\ wire' = <<>>
  /\ ui' = [ui EXCEPT !.status = "done", !.requesting = FALSE]
  /\ UNCHANGED <<server, counted>>

\* toRestoredChatMessage.  The step of an interrupt holds its value as
\* serializeToolPayload wrote it, inside a Markdown code fence, which
\* JSON.parse does not accept: the form is never restored.
ParsesBack(serialized) == serialized # "fenced"
Restored(m) ==
  [status |-> m.status,
   form   |-> m.status = "waiting" /\ ParsesBack("fenced"),
   requesting |-> FALSE]

Reload ==
  /\ msg # Absent
  /\ conn' = "restored"
  /\ wire' = <<>>
  /\ ui' = Restored(msg)
  /\ UNCHANGED <<server, counted>>

-----------------------------------------------------------------------------
AgentEvents ==
  \/ \E thinks, plans, says \in BOOLEAN :
       (thinks \/ plans \/ says) /\ ModelStream(thinks, plans, says)
  \/ \E t \in Tools :
       \/ ToolStart(t) \/ ToolEnd(t) \/ ToolFails(t)
       \/ \E real, payload \in BOOLEAN : ToolInterrupts(t, real, payload)
  \/ \E payload \in BOOLEAN : StreamInterrupts(payload)
  \/ StreamThrows \/ StreamEnds

Ending == \/ CloseSteps \/ LookupInterrupts \/ LookupThrows
          \/ FinishWaiting \/ FinishDone \/ FinalizeFails \/ CatchError \/ CloseAgent

Reading == ReadChunk \/ FinishReading

Next ==
  \/ SendMessage \/ SubmitForm
  \/ RecordChat \/ RecordResume \/ Prepare
  \/ AgentEvents
  \/ Ending
  \/ Crash
  \/ Reading \/ Abort \/ Reload

Spec == Init /\ [][Next]_vars

\* Once the stream is over the handler only waits for the local checkpointer
\* and for docker; the page reads what arrives.  Nothing is assumed of the
\* agent, of the user or of the calls before the stream.
FairSpec == Spec /\ WF_vars(Ending) /\ WF_vars(Reading)

-----------------------------------------------------------------------------
(* The handler, the history and the page range over the values the code     *)
(* can produce.                                                             *)
TypeOK ==
  /\ pc \in Stages /\ kind \in {"chat", "resume"}
  /\ seen \in [reasoning : BOOLEAN, reasoned : BOOLEAN, answer : BOOLEAN]
  /\ tool \in [Tools -> ToolStates]
  /\ pending \in BOOLEAN /\ agentOpen \in BOOLEAN
  /\ msg \in [status : MsgStatus, steps : [StepKeys -> StepStatus]]
  /\ wire \in Seq(Chunks) /\ ended \in BOOLEAN /\ endings \in Nat
  /\ ui \in [status : MsgStatus, form : BOOLEAN, requesting : BOOLEAN]
  /\ conn \in {"none", "open", "finished", "aborted", "lost", "restored"}
  /\ turns \in Nat /\ events \in Nat /\ failures \in Nat /\ failed \in BOOLEAN

(* A response carries one chunk with isEnd, as its last chunk.  A second    *)
(* one follows only an interrupt that could not be recorded as waiting.     *)
EndsOnce ==
  /\ ended => endings >= 1
  /\ endings > 1 => failed
  /\ \A i \in 1..(Len(wire) - 1) : wire[i] \in Terminal => failed

(* When the page has read a whole response and the history could be         *)
(* written, both say the same about how the turn ended.                     *)
PageAgreesWithHistory ==
  conn = "finished" /\ ~failed => ui.status = msg.status

(* A message that is done or waits for the user shows no step that is still *)
(* loading, whichever way its turn ended.                                   *)
SettledSteps ==
  msg.status \in {"done", "waiting"} /\ pc \in {"close", "over"} =>
    \A k \in StepKeys : msg.steps[k] # "loading"

(* An interrupt is never overlooked (models.langchain.controller.ts:743):   *)
(* a turn is closed as done only when the graph waits for nobody.           *)
InterruptsSurface ==
  msg.status = "done" /\ pc \in {"close", "over"} => ~pending

(* A page that shows the form after a complete response asks about an       *)
(* interrupt that the graph really waits for, unless the error of a tool    *)
(* was mistaken for one.                                                    *)
FormsAreAnswerable ==
  conn = "finished" /\ pc \in {"close", "over"} /\ ui.status = "waiting" =>
    ui.form /\ (pending \/ \E t \in Tools : tool[t] = "misread")

(* A tool that failed is never shown as successful in a finished message,   *)
(* unless its error was mistaken for an interrupt.                          *)
NoFalseSuccess ==
  \A t \in Tools : tool[t] = "failed" => msg.steps[t] = "error" \/ failed

(* Every agent that was opened is closed, and not before its stream is      *)
(* over.                                                                    *)
AgentReleased ==
  /\ pc \in {"idle", "over", "down"} => ~agentOpen
  /\ pc \in {"stream", "closing", "lookup", "finWaiting", "finDone"} => agentOpen

(* Once the agent's stream is exhausted, a page that still listens gets to  *)
(* the end of the response.                                                 *)
EndReachesPage ==
  (pc = "closing" /\ conn = "open") ~> (conn # "open")

(* README.md:24 promises that a conversation can be resumed after an        *)
(* interrupt; toRestoredChatMessage (index.tsx:549) reads the interrupt     *)
(* back from the history for that.                                          *)
InterruptsSurviveReload ==
  conn = "restored" /\ ui.status = "waiting" => ui.form
=============================================================================
