----------------------------- MODULE ChatThread -----------------------------
(***************************************************************************)
(* One conversation on disk, and the requests that work on it at the same  *)
(* time: its LangGraph checkpoint (memory/<id>.json), which every request  *)
(* loads into a FileSaver of its own and saves as a whole, and its history *)
(* (chat_history/<id>.json), which every update reads and writes back in   *)
(* one synchronous stretch.  A page may start a request while the one it   *)
(* aborted still runs, two pages may show the same conversation, it may be *)
(* deleted under a running request, and the process may die.               *)
(*                                                                         *)
(* ChatTurn models what happens inside one request; here a request is      *)
(* reduced to its effects on the two files.                                *)
(***************************************************************************)
EXTENDS Naturals, FiniteSets

CONSTANTS
  Requests,    \* chat and resume requests for the conversation
  Workloads,   \* bounds of the instances, one of which a behaviour is in:
               \* requests, how many are at work at once, crashes, deletions,
               \* failing saves
  None, Missing, Torn

VARIABLES
  checkpoint, \* memory/<id>.json
  history,    \* chat_history/<id>.json
  pc, kind,   \* stage and kind of each request
  mem,        \* the checkpoint each request's FileSaver holds
  ran,        \* how often the tool call a turn paused at was executed
  last,       \* the request that started last
  settled,    \* turns answered since the conversation was last destroyed
  overlapped, \* two requests, or a request and a deletion, were at work at once
  crashes, deletes, failures, workload

vars == <<checkpoint, history, pc, kind, mem, ran, last, settled, overlapped,
          crashes, deletes, failures, workload>>

limits == <<overlapped, crashes, deletes, failures, workload>>

Memory == [answers : SUBSET Requests, paused : Requests \cup {None}]
EmptyMemory == [answers |-> {}, paused |-> None]

Statuses == {"none", "updating", "done", "waiting", "error"}
Messages == [Requests -> Statuses]

ASSUME ThreadAssumption ==
  /\ Workloads \subseteq [requests : Nat, atOnce : Nat, crashes : Nat, deletes : Nat,
                     failures : Nat]
  /\ None \notin Requests
  /\ Missing \notin Memory \cup Messages \cup {Torn} /\ Torn \notin Memory \cup Messages

Stages == {"new", "recorded", "running", "executed", "unsaved", "answered", "paused", "failing",
           "over"}
Active == {r \in Requests : pc[r] \notin {"new", "over"}}
Started == {r \in Requests : pc[r] # "new"}

Init ==
  /\ checkpoint = Missing /\ history = Missing
  /\ pc = [r \in Requests |-> "new"]
  /\ kind = [r \in Requests |-> "chat"]
  /\ mem = [r \in Requests |-> EmptyMemory]
  /\ ran = [r \in Requests |-> 0]
  /\ last = None
  /\ settled = {}
  /\ overlapped = FALSE
  /\ crashes = 0 /\ deletes = 0 /\ failures = 0
  /\ workload \in Workloads

-----------------------------------------------------------------------------
(* ModelsChatHistoryService.                                                *)

\* (Operators marked "Defect" are not the program: each is a plausible bug in
\* the definition that follows it, which the properties must detect.)
\* Defect: a checkpoint that does not parse counts as none.
ReadableAlways == TRUE
\* readConversationFromCheckpoint: JSON.parse is not guarded.
Readable == checkpoint # Torn

\* readPersistedConversation: a history that does not parse counts as none.
Persisted == history \notin {Missing, Torn}

\* What the checkpoint's messages look like as a history: whatever the graph
\* has said is done, a turn that waits for the user included.
Remembered ==
  [r \in Requests |->
     IF checkpoint \notin {Missing, Torn} /\ r \in checkpoint.answers \cup {checkpoint.paused}
     THEN "done" ELSE "none"]

\* readConversationById; where both exist the merge keeps the statuses of the
\* history.
Conversation == IF Persisted THEN history ELSE Remembered

\* Defect: the update starts from the file alone and an empty list.
ForgetfulUpdate(r, status) ==
  history' = [q \in Requests |-> IF q = r THEN status ELSE "none"]

\* ensureAssistantMessage and updateAssistantMessage; both recreate what is gone.
Update(r, status) == history' = [Conversation EXCEPT ![r] = status]

-----------------------------------------------------------------------------
(* The life of a request.                                                   *)

Goto(r, stage) == pc' = [pc EXCEPT ![r] = stage]

\* A request or a deletion comes in, perhaps while others are at work.
Arrives ==
  /\ Cardinality(Active) < workload.atOnce
  /\ overlapped' = (overlapped \/ Active # {})

\* The request is recorded in the history before anything else; if the
\* checkpoint cannot be read it ends here.
Record(r, k) ==
  /\ pc[r] = "new"
  /\ Cardinality(Started) < workload.requests
  /\ Arrives
  /\ kind' = [kind EXCEPT ![r] = k]
  /\ last' = r
  /\ IF Readable THEN Goto(r, "recorded") /\ Update(r, "updating")
                 ELSE Goto(r, "over") /\ UNCHANGED history
  /\ UNCHANGED <<checkpoint, mem, ran, settled, crashes, deletes, failures, workload>>

\* Defect: load() does not expect a file that is missing or torn.
OpenUnguarded(r) ==
  /\ pc[r] = "recorded"
  /\ mem' = [mem EXCEPT ![r] = checkpoint]
  /\ Goto(r, "running")
  /\ UNCHANGED <<checkpoint, history, kind, ran, last, settled, limits>>

\* createAgent: new FileSaver(path) loads the checkpoint; a file that is
\* missing or does not parse leaves the memory empty.
Open(r) ==
  /\ pc[r] = "recorded"
  /\ mem' = [mem EXCEPT ![r] = IF checkpoint \in {Missing, Torn} THEN EmptyMemory
                               ELSE checkpoint]
  /\ Goto(r, "running")
  /\ UNCHANGED <<checkpoint, history, kind, ran, last, settled, limits>>

\* Defect: what the graph did stays in the memory of the request.
SaveNothing(r, memory) ==
  /\ mem' = [mem EXCEPT ![r] = memory]
  /\ UNCHANGED checkpoint

\* FileSaver.put and putWrites: change the request's own memory and write all
\* of it.
Save(r, memory) ==
  /\ mem' = [mem EXCEPT ![r] = memory]
  /\ checkpoint' = memory

\* A chunk of the stream: the input of a chat turn supersedes an interrupt.
Progress(r) ==
  /\ pc[r] = "running" /\ kind[r] = "chat" /\ Readable
  /\ Save(r, [mem[r] EXCEPT !.paused = None])
  /\ Update(r, "updating")
  /\ UNCHANGED <<pc, kind, ran, last, settled, limits>>

\* Defect: the interrupt is not written through.
PauseUnsaved(r) ==
  /\ pc[r] = "running"
  /\ kind[r] = "resume" => mem[r].paused = None
  /\ mem' = [mem EXCEPT ![r].paused = r]
  /\ Goto(r, "paused")
  /\ UNCHANGED <<checkpoint, history, kind, ran, last, settled, limits>>

\* The graph pauses at a tool call that needs approval or at AskHuman.
Pause(r) ==
  /\ pc[r] = "running"
  /\ kind[r] = "resume" => mem[r].paused = None
  /\ Save(r, [mem[r] EXCEPT !.paused = r])
  /\ Goto(r, "paused")
  /\ UNCHANGED <<history, kind, ran, last, settled, limits>>

\* A resume runs the tool call the thread is paused at; what it did is saved
\* when the call has returned.
Execute(r) ==
  /\ pc[r] = "running" /\ kind[r] = "resume" /\ mem[r].paused # None
  /\ ran' = [ran EXCEPT ![mem[r].paused] = @ + 1]
  /\ Goto(r, "executed")
  /\ UNCHANGED <<checkpoint, history, kind, mem, last, settled, limits>>

\* Defect: the interrupt stays in the saved checkpoint.
SaveResultKeepsPause(r) ==
  /\ pc[r] = "executed"
  /\ Save(r, mem[r])
  /\ Goto(r, "running")
  /\ UNCHANGED <<history, kind, ran, last, settled, limits>>

SaveResult(r) ==
  /\ pc[r] = "executed"
  /\ Save(r, [mem[r] EXCEPT !.paused = None])
  /\ Goto(r, "running")
  /\ UNCHANGED <<history, kind, ran, last, settled, limits>>

\* The final answer; a resume without anything to resume only ends.
AnswerTurn(r) ==
  /\ pc[r] = "running"
  /\ kind[r] = "resume" => mem[r].paused = None
  /\ Save(r, [answers |-> mem[r].answers \cup {r}, paused |-> None])
  /\ Goto(r, "answered")
  /\ UNCHANGED <<history, kind, ran, last, settled, limits>>

\* The memories that the graph may save next.
Saved(r) ==
  LET ends == kind[r] = "resume" => mem[r].paused = None IN
  {[mem[r] EXCEPT !.paused = p] : p \in {None} \cup (IF pc[r] = "running" /\ ends THEN {r} ELSE {})}
    \cup (IF pc[r] = "running" /\ ends THEN {[answers |-> mem[r].answers \cup {r}, paused |-> None]}
          ELSE {})

\* A save throws, before the file is opened or after it was truncated.
SaveFails(r) ==
  /\ pc[r] \in {"running", "executed"} /\ failures < workload.failures
  /\ failures' = failures + 1
  /\ \E m \in Saved(r) : mem' = [mem EXCEPT ![r] = m]
  /\ UNCHANGED checkpoint \/ checkpoint' = Torn
  /\ Goto(r, "unsaved")
  /\ UNCHANGED <<history, kind, ran, last, settled, overlapped, crashes, deletes, workload>>

\* The graph had other things to save when it failed.
SaveAgain(r) ==
  /\ pc[r] = "unsaved"
  /\ Save(r, mem[r])
  /\ UNCHANGED <<history, pc, kind, ran, last, settled, limits>>

StreamFails(r) ==
  /\ pc[r] \in {"recorded", "running"}
  /\ Goto(r, "failing")
  /\ UNCHANGED <<checkpoint, history, kind, mem, ran, last, settled, limits>>

\* finalizeAssistantMessage, which throws if the checkpoint cannot be read.
Finalize(r) ==
  /\ pc[r] \in {"answered", "paused", "failing", "unsaved"}
  /\ IF Readable
       THEN /\ Update(r, CASE pc[r] = "answered" -> "done"
                           [] pc[r] = "paused"   -> "waiting"
                           [] pc[r] \in {"failing", "unsaved"} -> "error")
            /\ settled' = IF pc[r] = "answered" THEN settled \cup {r} ELSE settled
       ELSE UNCHANGED <<history, settled>>
  /\ Goto(r, "over")
  /\ UNCHANGED <<checkpoint, kind, mem, ran, last, limits>>

-----------------------------------------------------------------------------
(* removeConversation: both files, without a look at who uses them.         *)
Delete ==
  /\ deletes < workload.deletes
  /\ Arrives
  /\ checkpoint # Missing \/ history # Missing
  /\ deletes' = deletes + 1
  /\ checkpoint' = Missing /\ history' = Missing
  /\ settled' = {} /\ last' = None
  /\ UNCHANGED <<pc, kind, mem, ran, crashes, failures, workload>>

\* The process dies, possibly in the middle of a writeFileSync of one file.
Crash ==
  /\ crashes < workload.crashes
  /\ Active # {}
  /\ crashes' = crashes + 1
  /\ pc' = [r \in Requests |-> IF r \in Active THEN "over" ELSE pc[r]]
  /\ \/ UNCHANGED <<checkpoint, history, settled>>
     \/ checkpoint' = Torn /\ UNCHANGED <<history, settled>>
     \/ history' = Torn /\ settled' = {} /\ UNCHANGED checkpoint
  /\ UNCHANGED <<kind, mem, ran, last, overlapped, deletes, failures, workload>>

Next ==
  \/ \E r \in Requests :
       \/ \E k \in {"chat", "resume"} : Record(r, k)
       \/ Open(r) \/ Progress(r) \/ Pause(r) \/ Execute(r) \/ SaveResult(r)
       \/ AnswerTurn(r) \/ SaveFails(r) \/ SaveAgain(r) \/ StreamFails(r) \/ Finalize(r)
  \/ Delete
  \/ Crash

Spec == Init /\ [][Next]_vars

-----------------------------------------------------------------------------
(* The files hold what the services write, or part of it after a crash.     *)
TypeOK ==
  /\ checkpoint \in Memory \cup {Missing, Torn}
  /\ history \in Messages \cup {Missing, Torn}
  /\ pc \in [Requests -> Stages]
  /\ kind \in [Requests -> {"chat", "resume"}]
  /\ mem \in [Requests -> Memory]
  /\ ran \in [Requests -> Nat]
  /\ last \in Requests \cup {None}
  /\ settled \subseteq Requests
  /\ overlapped \in BOOLEAN /\ workload \in Workloads
  /\ crashes \in 0..workload.crashes /\ deletes \in 0..workload.deletes
  /\ failures \in 0..workload.failures

(* FileSaver takes a checkpoint that does not parse for an empty one, and   *)
(* its next save would replace the conversation's memory.  It does not come *)
(* to that: every way to a FileSaver first reads the history, which does    *)
(* not accept such a checkpoint, so it stays until it is deleted, or until  *)
(* the request whose save tore it saves the memory it has.  Overlapping     *)
(* requests are covered as long as only crashes tear the file: one may have *)
(* read the history when the save of another tears it.                      *)
TornCheckpointKept ==
  [][(~overlapped' \/ failures = 0) /\ checkpoint = Torn =>
       checkpoint' \in {Torn, Missing} \cup {mem[r] : r \in {q \in Requests : pc[q] = "unsaved"}}]_vars

(* Updates of the history do not lose each other: however many requests     *)
(* work on a conversation, a message that was finished stays finished until *)
(* the conversation is deleted or a crash destroys the file.                *)
HistoryKeepsAnswers ==
  \A r \in settled : history \notin {Missing, Torn} /\ history[r] = "done"

(* README.md:152, "LangGraph checkpointer persists the memory of many       *)
(* turns": a turn that was answered is in the memory of the next one.       *)
AnswersRemembered ==
  checkpoint # Torn =>
    settled \subseteq (IF checkpoint = Missing THEN {} ELSE checkpoint.answers)

(* It is, crashes included, until two requests overlap: each then saves the *)
(* checkpoint it loaded.                                                    *)
RememberedWhenAlone == ~overlapped => AnswersRemembered

(* A tool call that was approved is executed once, unless two requests      *)
(* overlap and both resume it.  A crash after the call and before its       *)
(* result is saved lets the user approve it again, as does a save that      *)
(* fails.                                                                   *)
ApprovedRunsOnce ==
  ~overlapped => \A r \in Requests : ran[r] <= 1 + crashes + failures

(* A conversation that waits for the user can be resumed: its interrupt is  *)
(* on disk as long as no other request was started or overlapped.           *)
WaitingIsPending ==
  ~overlapped =>
    \A r \in Requests :
      (last = r /\ history \in Messages /\ history[r] = "waiting" /\ checkpoint # Torn) =>
        checkpoint # Missing /\ checkpoint.paused = r
=============================================================================
