---------------------------- MODULE ChatTurnProofs ----------------------------
(***************************************************************************)
(* Proofs about ChatTurn for every number of turns, events, tools and      *)
(* failing writes.                                                         *)
(***************************************************************************)
EXTENDS ChatTurn, FiniteSetTheorems, SequenceTheorems, WellFoundedInduction, TLAPS

\* Where the handler is decides whether an agent is open; only the catch and
\* the finally clause are reached both with and without one.
OpenInv ==
  /\ pc \in {"idle", "over", "down", "record", "prepare", "create"} => ~agentOpen
  /\ pc \in {"compose", "stream", "closing", "lookup", "finWaiting", "finDone"} => agentOpen

\* Writing goes on to the next stage or to the catch clause.
LEMMA EmitGoesOn ==
  ASSUME NEW chunks, NEW next, Emit(chunks, next)
  PROVE  pc' \in {next, "catch"}
BY DEF Emit

LEMMA EventsKeepOpen == OpenInv /\ AgentEvents => OpenInv'
<1> USE EmitGoesOn DEF OpenInv
<1> SUFFICES ASSUME OpenInv, AgentEvents PROVE OpenInv'
  OBVIOUS
<1>1. ASSUME NEW thinks, NEW plans, NEW says, ModelStream(thinks, plans, says) PROVE OpenInv'
  BY <1>1 DEF ModelStream, Event
<1>2. ASSUME NEW t, ToolStart(t) \/ ToolEnd(t) \/ ToolFails(t) PROVE OpenInv'
  BY <1>2 DEF ToolStart, ToolEnd, ToolFails, Event
<1>3. ASSUME NEW t, NEW real, NEW payload, ToolInterrupts(t, real, payload) PROVE OpenInv'
  BY <1>3 DEF ToolInterrupts, Event
<1>4. ASSUME NEW payload, StreamInterrupts(payload) PROVE OpenInv'
  BY <1>4 DEF StreamInterrupts
<1>5. CASE StreamThrows \/ StreamEnds
  BY <1>5 DEF StreamThrows, StreamEnds
<1>6. QED
  BY <1>1, <1>2, <1>3, <1>4, <1>5 DEF AgentEvents

LEMMA EndingKeepsOpen == OpenInv /\ Ending => OpenInv'
<1> USE EmitGoesOn DEF OpenInv
<1> SUFFICES ASSUME OpenInv, Ending PROVE OpenInv'
  OBVIOUS
<1>1. CASE CloseSteps \/ LookupInterrupts \/ LookupThrows
  BY <1>1 DEF CloseSteps, LookupInterrupts, LookupThrows
<1>2. CASE FinishWaiting \/ FinishDone \/ FinalizeFails
  BY <1>2 DEF FinishWaiting, FinishDone, FinalizeFails
<1>3. CASE CatchError \/ CloseAgent
  BY <1>3 DEF CatchError, CloseAgent
<1>4. QED
  BY <1>1, <1>2, <1>3 DEF Ending

(* Whatever the agent's stream does, whichever write fails and wherever the *)
(* process dies, an agent that was opened is closed by the end of its turn  *)
(* and never while its events are still being consumed.                     *)
THEOREM AgentIsReleased == Spec => []AgentReleased
<1>1. Init => OpenInv
  BY DEF Init, OpenInv
<1>2. OpenInv /\ [Next]_vars => OpenInv'
  <2> SUFFICES ASSUME OpenInv, [Next]_vars PROVE OpenInv'
    OBVIOUS
  <2>1. CASE SendMessage \/ SubmitForm
    BY <2>1 DEF SendMessage, SubmitForm, StartTurn, OpenInv
  <2>2. CASE RecordChat \/ RecordResume
    BY <2>2 DEF RecordChat, RecordResume, Record, OpenInv
  <2>3. CASE Prepare
    BY <2>3 DEF Prepare, OpenInv
  <2>4. CASE AgentEvents \/ Ending
    BY <2>4, EventsKeepOpen, EndingKeepsOpen
  <2>5. CASE Crash
    BY <2>5 DEF Crash, OpenInv
  <2>6. CASE Reading \/ Abort \/ Reload \/ UNCHANGED vars
    BY <2>6 DEF Reading, ReadChunk, FinishReading, Abort, Reload, vars, server, OpenInv
  <2>7. QED
    BY <2>1, <2>2, <2>3, <2>4, <2>5, <2>6 DEF Next
<1>3. OpenInv => AgentReleased
  BY DEF OpenInv, AgentReleased
<1>4. QED
  BY <1>1, <1>2, <1>3, PTL DEF Spec
-----------------------------------------------------------------------------
(* What the operators on chunks return.                                     *)

Message == [status : MsgStatus, steps : [StepKeys -> StepStatus]]
Silent(chunks) == \A i \in DOMAIN chunks : chunks[i] \notin Terminal
InProgress == {"absent", "updating", "error"}

LEMMA LatestIsLast ==
  ASSUME NEW n \in Nat, NEW I \in SUBSET (1..n), I # {}
  PROVE  Latest(I) \in I /\ \A j \in I : j <= Latest(I)
<1> DEFINE R == OpToRel(<, Nat)
           T == {m \in Nat : n - m \in I}
<1>1. \A x, y \in Nat : y < x => <<y, x>> \in R
  BY DEF OpToRel
<1>2. IsWellFoundedOn(R, Nat)
  BY NatLessThanWellFounded
<1>3. PICK i \in I : TRUE
  OBVIOUS
<1>4. n - i \in T
  BY <1>3
<1> HIDE DEF R
<1>5. PICK x \in T : \A y \in T : ~(<<y, x>> \in R)
  BY <1>2, <1>4, WFMin
<1>6. \A j \in I : j <= n - x
  <2> TAKE j \in I
  <2>1. n - j \in T /\ n - j \in Nat /\ x \in Nat
    OBVIOUS
  <2>2. ~(n - j < x)
    BY <1>1, <1>5, <2>1
  <2>3. QED
    BY <2>1, <2>2
<1>7. QED
  BY <1>5, <1>6 DEF Latest

LEMMA ChunkTypes ==
  /\ \A c \in Chunks : c.type = "thought_step" => c.key \in StepKeys /\ c.status \in StepStatus
  /\ \A k, s : StepChunk(k, s) \notin Terminal
  /\ Terminal \subseteq Chunks
BY DEF Chunks, StepChunk, Thinking, Content, Interrupt, Done, Error, Terminal

(* Whatever is recorded, the message keeps its shape and is in progress if  *)
(* it was; a step for which there is no chunk stays as it was.              *)
LEMMA RecordedMessage ==
  ASSUME NEW m \in Message, NEW chunks \in Seq(Chunks)
  PROVE  /\ Recorded(m, chunks) \in Message
         /\ m.status \in InProgress => Recorded(m, chunks).status \in InProgress
         /\ \A k \in StepKeys : StepsFor(k, chunks) = {} =>
              Recorded(m, chunks).steps[k] = m.steps[k]
<1> DEFINE r == Recorded(m, chunks)
<1>1. Len(chunks) \in Nat /\ DOMAIN chunks = 1..Len(chunks)
  BY LenProperties
<1>2. \A i \in DOMAIN chunks : chunks[i] \in Chunks
  BY <1>1, ElementOfSeq
<1>3. ASSUME NEW k \in StepKeys, StepsFor(k, chunks) # {}
      PROVE  chunks[Latest(StepsFor(k, chunks))].status \in StepStatus
  <2>1. StepsFor(k, chunks) \in SUBSET (1..Len(chunks))
    BY <1>1 DEF StepsFor
  <2>2. Latest(StepsFor(k, chunks)) \in StepsFor(k, chunks)
    BY <1>1, <1>3, <2>1, LatestIsLast
  <2>3. QED
    BY <1>2, <2>2, ChunkTypes DEF StepsFor
<1>4. \A k \in StepKeys : m.steps[k] \in StepStatus
  BY DEF Message
<1>5. r.steps \in [StepKeys -> StepStatus]
  BY <1>3, <1>4 DEF Recorded
<1>6. r.status \in {"error", "updating", m.status}
  BY DEF Recorded
<1>7. r \in Message
  BY <1>5, <1>6 DEF Recorded, Message, MsgStatus
<1>8. \A k \in StepKeys : StepsFor(k, chunks) = {} => r.steps[k] = m.steps[k]
  BY DEF Recorded
<1>9. QED
  BY <1>6, <1>7, <1>8 DEF InProgress

LEMMA SendType ==
  ASSUME TypeOK, NEW chunks \in Seq(Chunks), Send(chunks)
  PROVE  /\ wire' \in Seq(Chunks)
         /\ endings' \in Nat
         /\ Silent(chunks) => endings' = endings
<1> DEFINE T == {i \in DOMAIN chunks : chunks[i] \in Terminal}
<1>1. IsFiniteSet(T)
  BY LenProperties, FS_Interval, FS_Subset
<1>2. Cardinality(T) \in Nat
  BY <1>1, FS_CardinalityType
<1>3. Silent(chunks) => Cardinality(T) = 0
  BY FS_EmptySet DEF Silent
<1>4. endings' = endings + Cardinality(T) /\ endings \in Nat /\ wire \in Seq(Chunks)
  BY DEF Send, TypeOK
<1> HIDE DEF T
<1>5. wire \o chunks \in Seq(Chunks)
  BY <1>4, ConcatProperties
<1>6. QED
  BY <1>2, <1>3, <1>4, <1>5 DEF Send

(* Emitting chunks keeps the message in shape and in progress, whether or   *)
(* not a write fails between two of them.                                   *)
LEMMA EmitMessage ==
  ASSUME TypeOK, NEW chunks \in Seq(Chunks), NEW next, Emit(chunks, next)
  PROVE  /\ msg' \in Message
         /\ msg.status \in InProgress => msg'.status \in InProgress
         /\ \A k \in StepKeys : StepsFor(k, chunks) = {} => msg'.steps[k] = msg.steps[k]
         /\ failures' \in Nat /\ failed' \in BOOLEAN /\ (failed => failed')
         /\ \/ Send(chunks) /\ pc' = next /\ UNCHANGED writes /\ msg' = Recorded(msg, chunks)
            \/ \E i \in DOMAIN chunks : /\ chunks[i] \notin Terminal
                                        /\ Send(SubSeq(chunks, 1, i))
                                        /\ pc' = "catch" /\ failed'
<1>0. msg \in Message /\ failures \in Nat /\ failed \in BOOLEAN
  BY DEF TypeOK, Message
<1>1. CASE Send(chunks) /\ msg' = Recorded(msg, chunks) /\ pc' = next /\ UNCHANGED writes
  BY <1>0, <1>1, RecordedMessage DEF writes
<1>2. ASSUME NEW i \in DOMAIN chunks, WriteThrows, chunks[i] \notin Terminal,
             Send(SubSeq(chunks, 1, i)), pc' = "catch",
             msg' = Recorded(msg, SubSeq(chunks, 1, i - 1))
      PROVE  /\ msg' \in Message
             /\ msg.status \in InProgress => msg'.status \in InProgress
             /\ \A k \in StepKeys : StepsFor(k, chunks) = {} => msg'.steps[k] = msg.steps[k]
             /\ failures' \in Nat /\ failed'
  <2> DEFINE some == SubSeq(chunks, 1, i - 1)
  <2>1. i \in 1..Len(chunks) /\ Len(chunks) \in Nat /\ \A j \in 1..Len(chunks) : chunks[j] \in Chunks
    BY LenProperties, ElementOfSeq
  <2>2. /\ some \in Seq(Chunks) /\ Len(some) = i - 1
        /\ \A j \in 1..(i - 1) : some[j] = chunks[j]
    <3>1. \A j \in 1..(i - 1) : chunks[j] \in Chunks
      BY <2>1
    <3>2. 1 \in Int /\ i - 1 \in Int
      BY <2>1
    <3>3. /\ some \in Seq(Chunks) /\ Len(some) = IF 1 <= i - 1 THEN i - 1 - 1 + 1 ELSE 0
          /\ \A j \in 1..(i - 1 - 1 + 1) : some[j] = chunks[1 + j - 1]
      BY <3>1, <3>2, SubSeqProperties
    <3>4. QED
      BY <3>3, <2>1
  <2>3. DOMAIN some = 1..(i - 1) /\ DOMAIN chunks = 1..Len(chunks)
    BY <2>2, LenProperties
  <2> HIDE DEF some
  <2>4. \A k : StepsFor(k, chunks) = {} => StepsFor(k, some) = {}
    BY <2>1, <2>2, <2>3 DEF StepsFor
  <2>5. msg' = Recorded(msg, some)
    BY <1>2 DEF some
  <2>6. failures' \in Nat /\ failed'
    BY <1>0, <1>2 DEF WriteThrows
  <2>7. QED
    BY <1>0, <2>2, <2>4, <2>5, <2>6, RecordedMessage
<1>3. QED
  BY <1>1, <1>2 DEF Emit

LEMMA SilentWire ==
  ASSUME TypeOK, NEW chunks \in Seq(Chunks), Silent(chunks), Send(chunks), Silent(wire)
  PROVE  Silent(wire')
<1>1. wire \in Seq(Chunks) /\ Len(wire) \in Nat /\ Len(chunks) \in Nat
  BY LenProperties DEF TypeOK
<1>2. /\ Len(wire \o chunks) = Len(wire) + Len(chunks) /\ wire \o chunks \in Seq(Chunks)
      /\ \A i \in 1..(Len(wire) + Len(chunks)) :
           (wire \o chunks)[i] = IF i <= Len(wire) THEN wire[i] ELSE chunks[i - Len(wire)]
  BY <1>1, ConcatProperties
<1>3. /\ DOMAIN wire = 1..Len(wire) /\ DOMAIN chunks = 1..Len(chunks)
      /\ DOMAIN (wire \o chunks) = 1..(Len(wire) + Len(chunks))
  BY <1>1, <1>2, LenProperties
<1>4. Silent(wire \o chunks)
  BY <1>1, <1>2, <1>3 DEF Silent
<1>5. QED
  BY <1>4 DEF Send

LEMMA SilentPrefix ==
  ASSUME NEW chunks \in Seq(Chunks), NEW i \in DOMAIN chunks,
         \A j \in 1..i : chunks[j] \notin Terminal
  PROVE  SubSeq(chunks, 1, i) \in Seq(Chunks) /\ Silent(SubSeq(chunks, 1, i))
<1> DEFINE some == SubSeq(chunks, 1, i)
<1>1. i \in 1..Len(chunks) /\ Len(chunks) \in Nat /\ \A j \in 1..i : chunks[j] \in Chunks
  BY LenProperties, ElementOfSeq
<1>2. 1 \in Int /\ i \in Int /\ 1 <= i
  BY <1>1
<1>3. /\ some \in Seq(Chunks) /\ Len(some) = i - 1 + 1
      /\ \A j \in 1..(i - 1 + 1) : some[j] = chunks[1 + j - 1]
  BY <1>1, <1>2, SubSeqProperties
<1>4. DOMAIN some = 1..i
  BY <1>2, <1>3, LenProperties
<1> HIDE DEF some
<1>5. Silent(some)
  BY <1>2, <1>3, <1>4 DEF Silent
<1>6. QED
  BY <1>3, <1>5 DEF some

(* A handler that goes on writes nothing that ends the response.            *)
Quietly(next) == \E chunks \in Seq(Chunks) : Silent(chunks) /\ Emit(chunks, next)
Question == <<StepChunk("interrupt", "waiting"), Interrupt>>

LEMMA EmitQuietly ==
  ASSUME TypeOK, NEW next, Quietly(next)
  PROVE  /\ msg' \in Message /\ wire' \in Seq(Chunks)
         /\ msg.status \in InProgress => msg'.status \in InProgress
         /\ endings' = endings
         /\ Silent(wire) => Silent(wire')
         /\ failures' \in Nat /\ failed' \in BOOLEAN /\ (failed => failed')
         /\ (pc' = next /\ UNCHANGED writes) \/ (pc' = "catch" /\ failed')
<1>1. PICK chunks \in Seq(Chunks) : Silent(chunks) /\ Emit(chunks, next)
  BY DEF Quietly
<1>2. ASSUME NEW some \in Seq(Chunks), Silent(some), Send(some)
      PROVE  wire' \in Seq(Chunks) /\ endings' = endings /\ (Silent(wire) => Silent(wire'))
  BY <1>2, SendType, SilentWire
<1>3. ASSUME NEW i \in DOMAIN chunks, Send(SubSeq(chunks, 1, i))
      PROVE  wire' \in Seq(Chunks) /\ endings' = endings /\ (Silent(wire) => Silent(wire'))
  <2>1. \A j \in 1..i : chunks[j] \notin Terminal
    BY <1>1, LenProperties DEF Silent
  <2>2. SubSeq(chunks, 1, i) \in Seq(Chunks) /\ Silent(SubSeq(chunks, 1, i))
    BY <2>1, SilentPrefix
  <2>3. QED
    BY <1>2, <1>3, <2>2
<1>4. QED
  BY <1>1, <1>2, <1>3, EmitMessage

LEMMA QuestionType ==
  /\ Question \in Seq(Chunks) /\ DOMAIN Question = {1, 2} /\ Len(Question) = 2
  /\ Question[1] = StepChunk("interrupt", "waiting") /\ Question[2] = Interrupt
  /\ Question[1] \in Chunks /\ Question[2] \in Chunks
  /\ Question[1] \notin Terminal /\ Question[2] \in Terminal
<1>1. StepChunk("interrupt", "waiting") \in Chunks
  BY DEF Chunks, StepKeys, StepStatus
<1>2. Interrupt \in Chunks /\ Interrupt \in Terminal
  BY DEF Chunks, Terminal
<1>3. StepChunk("interrupt", "waiting") \notin Terminal
  BY ChunkTypes
<1>4. QED
  BY <1>1, <1>2, <1>3 DEF Question

LEMMA EmitQuestion ==
  ASSUME TypeOK, NEW next, Emit(Question, next)
  PROVE  /\ msg' \in Message /\ wire' \in Seq(Chunks) /\ endings' \in Nat
         /\ msg.status \in InProgress => msg'.status \in InProgress
         /\ failures' \in Nat /\ failed' \in BOOLEAN /\ (failed => failed')
         /\ \/ /\ pc' = next /\ UNCHANGED writes /\ endings' = endings + 1
               /\ wire' = IF conn = "open" THEN wire \o Question ELSE wire
            \/ /\ pc' = "catch" /\ failed' /\ endings' = endings
               /\ Silent(wire) => Silent(wire')
<1>1. ASSUME Send(Question)
      PROVE  /\ wire' \in Seq(Chunks) /\ endings' \in Nat /\ endings' = endings + 1
             /\ wire' = IF conn = "open" THEN wire \o Question ELSE wire
  <2>1. {i \in DOMAIN Question : Question[i] \in Terminal} = {2}
    BY QuestionType
  <2>2. endings' = endings + Cardinality({2})
    BY <1>1, <2>1 DEF Send
  <2>3. Cardinality({2}) = 1
    BY FS_Singleton
  <2>4. QED
    BY <1>1, <2>2, <2>3, QuestionType, SendType DEF Send
<1>2. ASSUME NEW i \in DOMAIN Question, Question[i] \notin Terminal, Send(SubSeq(Question, 1, i))
      PROVE  /\ wire' \in Seq(Chunks) /\ endings' \in Nat /\ endings' = endings
             /\ Silent(wire) => Silent(wire')
  <2>1. i = 1 /\ \A j \in 1..i : Question[j] \notin Terminal
    BY <1>2, QuestionType
  <2>2. SubSeq(Question, 1, i) \in Seq(Chunks) /\ Silent(SubSeq(Question, 1, i))
    BY <2>1, QuestionType, SilentPrefix
  <2>3. QED
    BY <1>2, <2>2, SendType, SilentWire
<1>3. QED
  BY <1>1, <1>2, QuestionType, EmitMessage

(* The actions of the agent's stream up to the lookup of its interrupts,    *)
(* by what they write.                                                      *)
Streaming == \/ AgentEvents \/ CloseSteps \/ LookupInterrupts \/ LookupThrows
Asked == pending \/ \E t \in Tools : tool[t] = "misread"

LEMMA NoChunks == <<>> \in Seq(Chunks) /\ Silent(<<>>)
BY DEF Silent

LEMMA SilentChunks ==
  /\ Thinking \in Chunks \ Terminal /\ Content \in Chunks \ Terminal
  /\ \A k \in StepKeys, s \in StepStatus : StepChunk(k, s) \in Chunks \ Terminal
<1>1. \A k \in StepKeys, s \in StepStatus : StepChunk(k, s) \in Chunks
  <2> DEFINE steps == {StepChunk(k, s) : k \in StepKeys, s \in StepStatus}
  <2>1. Chunks = {Thinking, Content, Interrupt, Done, Error} \cup steps
    BY DEF Chunks
  <2>2. \A k \in StepKeys, s \in StepStatus : StepChunk(k, s) \in steps
    OBVIOUS
  <2> HIDE DEF steps
  <2>3. QED
    BY <2>1, <2>2
<1>2. Thinking \in Chunks \ Terminal /\ Content \in Chunks \ Terminal
  BY DEF Chunks, Terminal, Thinking, Content, Interrupt, Done, Error
<1>3. QED
  BY <1>1, <1>2, ChunkTypes

(* The chunks that no tool call is about.                                   *)
Plain == {Thinking, Content}
         \cup {StepChunk(k, s) : k \in {"reasoning", "plan", "answer"}, s \in StepStatus}

LEMMA PlainChunks ==
  /\ Plain \subseteq Chunks \ Terminal
  /\ \A c \in Plain : c.type = "thought_step" => c.key \in {"reasoning", "plan", "answer"}
  /\ \A k \in {"reasoning", "plan", "answer"}, s \in StepStatus : StepChunk(k, s) \in Plain
  /\ Thinking \in Plain /\ Content \in Plain
<1> DEFINE steps == {StepChunk(k, s) : k \in {"reasoning", "plan", "answer"}, s \in StepStatus}
<1>1. /\ steps \subseteq Chunks \ Terminal
      /\ \A c \in steps : c.key \in {"reasoning", "plan", "answer"}
      /\ \A k \in {"reasoning", "plan", "answer"}, s \in StepStatus : StepChunk(k, s) \in steps
  <2>1. \A k \in {"reasoning", "plan", "answer"}, s \in StepStatus :
          StepChunk(k, s) \in Chunks \ Terminal /\ StepChunk(k, s).key = k
    BY SilentChunks DEF StepKeys, StepChunk
  <2>2. QED
    BY <2>1
<1>2. Thinking.type # "thought_step" /\ Content.type # "thought_step"
  BY DEF Thinking, Content
<1>3. Plain = {Thinking, Content} \cup steps
  BY DEF Plain
<1> HIDE DEF steps
<1>4. QED
  BY <1>1, <1>2, <1>3, SilentChunks

LEMMA SeqOfPlain ==
  ASSUME NEW c \in Chunks \ Terminal, NEW chunks \in Seq(Plain \cup {c})
  PROVE  chunks \in Seq(Chunks) /\ Silent(chunks)
<1>1. chunks \in Seq(Chunks)
  BY PlainChunks, SeqMonotonic
<1>2. \A i \in DOMAIN chunks : chunks[i] \in Plain \cup {c}
  BY LenProperties, ElementOfSeq
<1>3. QED
  BY <1>1, <1>2, PlainChunks DEF Silent

LEMMA PlainOnly == \A chunks \in Seq(Plain) : chunks \in Seq(Chunks) /\ Silent(chunks)
<1>1. Thinking \in Chunks \ Terminal /\ Plain \cup {Thinking} = Plain
  BY PlainChunks
<1>2. QED
  BY <1>1, SeqOfPlain

LEMMA CloseReasoningType == CloseReasoning \in Seq(Plain)
<1>1. StepChunk("reasoning", "success") \in Plain
  BY PlainChunks DEF StepStatus
<1>2. QED
  BY <1>1 DEF CloseReasoning

LEMMA ModelStreamChunks ==
  ASSUME NEW thinks, NEW plans, NEW says, ModelStream(thinks, plans, says)
  PROVE  /\ \E chunks \in Seq(Plain) : Emit(chunks, "stream")
         /\ pc = "stream" /\ UNCHANGED <<kind, agentOpen, ended, client, turns, tool, pending>>
<1> DEFINE closes == (plans \/ says) /\ ~seen.reasoned /\ (seen.reasoning \/ thinks)
           a == IF thinks /\ ~seen.reasoning THEN <<StepChunk("reasoning", "loading")>> ELSE <<>>
           b == IF thinks THEN <<Thinking>> ELSE <<>>
           c == IF closes THEN <<StepChunk("reasoning", "success")>> ELSE <<>>
           d == IF plans THEN <<StepChunk("plan", "success")>> ELSE <<>>
           e == IF says /\ ~seen.answer THEN <<StepChunk("answer", "loading")>> ELSE <<>>
           f == IF says THEN <<Content>> ELSE <<>>
<1>1. /\ StepChunk("reasoning", "loading") \in Plain
      /\ StepChunk("reasoning", "success") \in Plain
      /\ StepChunk("plan", "success") \in Plain
      /\ StepChunk("answer", "loading") \in Plain
  BY PlainChunks DEF StepStatus
<1>2. a \in Seq(Plain) /\ c \in Seq(Plain)
  BY <1>1
<1>3. d \in Seq(Plain) /\ e \in Seq(Plain)
  BY <1>1
<1>4. b \in Seq(Plain) /\ f \in Seq(Plain)
  BY PlainChunks
<1>5. Emit(a \o b \o c \o d \o e \o f, "stream")
  BY DEF ModelStream
<1> HIDE DEF a, b, c, d, e, f
<1>6. a \o b \o c \o d \o e \o f \in Seq(Plain)
  BY <1>2, <1>3, <1>4
<1>7. pc = "stream" /\ UNCHANGED <<kind, agentOpen, ended, client, turns, tool, pending>>
  BY DEF ModelStream, Event, client
<1>8. QED
  BY <1>5, <1>6, <1>7

LEMMA ToolStartChunks ==
  ASSUME NEW t \in Tools, ToolStart(t)
  PROVE  \E chunks \in Seq(Plain \cup {StepChunk(t, "loading")}) : Emit(chunks, "stream")
<1> DEFINE S == Plain \cup {StepChunk(t, "loading")}
<1>1. CloseReasoning \in Seq(S) /\ <<StepChunk(t, "loading")>> \in Seq(S)
  BY CloseReasoningType, SeqMonotonic
<1>2. CloseReasoning \o <<StepChunk(t, "loading")>> \in Seq(S)
  BY <1>1, ConcatProperties
<1>3. QED
  BY <1>2 DEF ToolStart

LEMMA CloseStepsChunks ==
  ASSUME CloseSteps
  PROVE  \E chunks \in Seq(Plain) : Emit(chunks, "lookup")
<1> DEFINE last == IF seen.answer THEN <<StepChunk("answer", "success")>> ELSE <<>>
<1>1. last \in Seq(Plain)
  BY PlainChunks DEF StepStatus
<1>2. Emit(CloseReasoning \o last, "lookup")
  BY DEF CloseSteps
<1> HIDE DEF last
<1>3. CloseReasoning \o last \in Seq(Plain)
  BY <1>1, CloseReasoningType, ConcatProperties
<1>4. QED
  BY <1>2, <1>3

LEMMA StreamingSteps ==
  ASSUME TypeOK, Streaming
  PROVE  /\ pc \in {"stream", "closing", "lookup"}
         /\ UNCHANGED <<kind, agentOpen, ended, client, turns>>
         /\ \/ \E next \in {"stream", "closing", "lookup", "finDone"} :
                 Quietly(next) /\ (next = "finDone" => ~pending')
            \/ Emit(Question, "finWaiting") /\ Asked'
            \/ pc' \in {"catch", "closing"} /\ UNCHANGED <<wire, endings, msg, writes>>
<1> DEFINE Kept == UNCHANGED <<kind, agentOpen, ended, client, turns>>
           Effect == \/ \E next \in {"stream", "closing", "lookup", "finDone"} :
                           Quietly(next) /\ (next = "finDone" => ~pending')
                     \/ Emit(Question, "finWaiting") /\ Asked'
                     \/ pc' \in {"catch", "closing"} /\ UNCHANGED <<wire, endings, msg, writes>>
           Goal == pc \in {"stream", "closing", "lookup"} /\ Kept /\ Effect
<1>0. \A next : \A chunks \in Seq(Chunks) : Silent(chunks) /\ Emit(chunks, next) => Quietly(next)
  BY DEF Quietly
<1> HIDE DEF Effect
<1>1. \A next \in {"stream", "closing", "lookup", "finDone"} :
        Quietly(next) /\ (next = "finDone" => ~pending') => Effect
  BY DEF Effect
<1>2. Emit(Question, "finWaiting") /\ Asked' => Effect
  BY DEF Effect
<1>3. ASSUME NEW thinks \in BOOLEAN, NEW plans \in BOOLEAN, NEW says \in BOOLEAN,
             ModelStream(thinks, plans, says)
      PROVE  Goal
  <2>1. PICK chunks \in Seq(Plain) : Emit(chunks, "stream")
    BY <1>3, ModelStreamChunks
  <2>2. chunks \in Seq(Chunks) /\ Silent(chunks)
    BY PlainOnly
  <2>3. QED
    BY <1>0, <1>1, <1>3, <2>1, <2>2, ModelStreamChunks
<1>4. ASSUME NEW t \in Tools, ToolStart(t) \/ ToolEnd(t) \/ ToolFails(t) PROVE Goal
  <2>1. \A s \in StepStatus : StepChunk(t, s) \in Chunks \ Terminal
    BY SilentChunks DEF StepKeys
  <2>2. PICK s \in {"loading", "success", "error"} :
          \E chunks \in Seq(Plain \cup {StepChunk(t, s)}) : Emit(chunks, "stream")
    <3>1. CASE ToolStart(t)
      BY <3>1, ToolStartChunks
    <3>2. CASE ToolEnd(t) \/ ToolFails(t)
      <4>1. PICK s \in {"success", "error"} : Emit(<<StepChunk(t, s)>>, "stream")
        BY <3>2 DEF ToolEnd, ToolFails
      <4>2. <<StepChunk(t, s)>> \in Seq(Plain \cup {StepChunk(t, s)})
        OBVIOUS
      <4>3. QED
        BY <4>1, <4>2
    <3>3. QED
      BY <1>4, <3>1, <3>2
  <2>3. PICK chunks \in Seq(Plain \cup {StepChunk(t, s)}) : Emit(chunks, "stream")
    BY <2>2
  <2>4. chunks \in Seq(Chunks) /\ Silent(chunks)
    BY <2>1, SeqOfPlain DEF StepStatus
  <2>5. pc = "stream" /\ Kept
    BY <1>4 DEF ToolStart, ToolEnd, ToolFails, Event, client
  <2>6. QED
    BY <1>0, <1>1, <2>3, <2>4, <2>5
<1>5. ASSUME NEW t \in Tools, NEW real \in BOOLEAN, NEW payload \in BOOLEAN,
             ToolInterrupts(t, real, payload)
      PROVE  Goal
  <2>1. pc = "stream" /\ Kept
    BY <1>5 DEF ToolInterrupts, Event, client
  <2>2. Asked'
    BY <1>5 DEF ToolInterrupts, Asked, TypeOK
  <2>3. Emit(Question, "finWaiting") \/ Emit(<<>>, "stream")
    BY <1>5 DEF ToolInterrupts, Question
  <2>4. QED
    BY <1>0, <1>1, <1>2, <2>1, <2>2, <2>3, NoChunks
<1>6. ASSUME NEW payload \in BOOLEAN, StreamInterrupts(payload) PROVE Goal
  <2>1. pc = "stream" /\ Kept /\ Asked'
    BY <1>6 DEF StreamInterrupts, Asked, client
  <2>2. Emit(Question, "finWaiting") \/ Emit(<<>>, "closing")
    BY <1>6 DEF StreamInterrupts, Question
  <2>3. QED
    BY <1>0, <1>1, <1>2, <2>1, <2>2, NoChunks
<1>7. ASSUME StreamThrows \/ StreamEnds \/ LookupThrows PROVE Goal
  <2>1. pc \in {"stream", "lookup"} /\ Kept
    BY <1>7 DEF StreamThrows, StreamEnds, LookupThrows, client, counted
  <2>2. pc' \in {"catch", "closing"} /\ UNCHANGED <<wire, endings, msg, writes>>
    BY <1>7 DEF StreamThrows, StreamEnds, LookupThrows, counted
  <2>3. QED
    BY <2>1, <2>2 DEF Effect
<1>8. ASSUME CloseSteps PROVE Goal
  <2>1. PICK chunks \in Seq(Plain) : Emit(chunks, "lookup")
    BY <1>8, CloseStepsChunks
  <2>2. chunks \in Seq(Chunks) /\ Silent(chunks)
    BY PlainOnly
  <2>3. pc = "closing" /\ Kept
    BY <1>8 DEF CloseSteps, client
  <2>4. QED
    BY <1>0, <1>1, <2>1, <2>2, <2>3
<1>9. ASSUME LookupInterrupts PROVE Goal
  <2>1. pc = "lookup" /\ Kept /\ pending' = pending
    BY <1>9 DEF LookupInterrupts, client
  <2>2. CASE pending
    <3>1. Emit(Question, "finWaiting") /\ Asked'
      BY <1>9, <2>1, <2>2 DEF LookupInterrupts, Question, Asked
    <3>2. QED
      BY <1>2, <2>1, <3>1
  <2>3. CASE ~pending
    <3>1. Emit(<<>>, "finDone")
      BY <1>9, <2>3 DEF LookupInterrupts
    <3>2. QED
      BY <1>0, <1>1, <2>1, <2>3, <3>1, NoChunks
  <2>4. QED
    BY <2>2, <2>3
<1> HIDE DEF Goal
<1>10. Goal
  <2>1. CASE \E thinks, plans, says \in BOOLEAN :
               (thinks \/ plans \/ says) /\ ModelStream(thinks, plans, says)
    BY <1>3, <2>1
  <2>2. CASE \E t \in Tools : ToolStart(t) \/ ToolEnd(t) \/ ToolFails(t)
    BY <1>4, <2>2
  <2>3. CASE \E t \in Tools : \E real, payload \in BOOLEAN : ToolInterrupts(t, real, payload)
    BY <1>5, <2>3
  <2>4. CASE \E payload \in BOOLEAN : StreamInterrupts(payload)
    BY <1>6, <2>4
  <2>5. CASE AgentEvents
    BY <2>1, <2>2, <2>3, <2>4, <2>5, <1>7 DEF AgentEvents
  <2>6. QED
    BY <1>7, <1>8, <1>9, <2>5 DEF Streaming
<1>11. QED
  BY <1>10 DEF Goal, Effect

-----------------------------------------------------------------------------
(* What the handler, the history and the page hold.                         *)

LEMMA StreamingWrites ==
  ASSUME TypeOK, Streaming
  PROVE  /\ msg' \in Message /\ wire' \in Seq(Chunks) /\ endings' \in Nat
         /\ failures' \in Nat /\ failed' \in BOOLEAN /\ (failed => failed')
         /\ msg.status \in InProgress => msg'.status \in InProgress
         /\ UNCHANGED <<kind, agentOpen, ended, ui, conn, turns>>
         /\ \/ /\ endings' = endings /\ (Silent(wire) => Silent(wire'))
               /\ \/ pc' \in {"stream", "closing", "lookup"}
                  \/ pc' = "catch"
                  \/ pc' = "finDone" /\ ~pending'
            \/ /\ pc' = "finWaiting" /\ Asked' /\ failed' = failed
               /\ endings' = endings + 1
               /\ wire' = IF conn = "open" THEN wire \o Question ELSE wire
<1>0. /\ UNCHANGED <<kind, agentOpen, ended, ui, conn, turns>>
      /\ msg \in Message /\ wire \in Seq(Chunks) /\ endings \in Nat
      /\ failures \in Nat /\ failed \in BOOLEAN
  BY StreamingSteps DEF client, TypeOK, Message
<1>1. CASE \E next \in {"stream", "closing", "lookup", "finDone"} :
             Quietly(next) /\ (next = "finDone" => ~pending')
  BY <1>0, <1>1, EmitQuietly
<1>2. CASE Emit(Question, "finWaiting") /\ Asked'
  BY <1>0, <1>2, EmitQuestion DEF writes
<1>3. CASE pc' \in {"catch", "closing"} /\ UNCHANGED <<wire, endings, msg, writes>>
  BY <1>0, <1>3 DEF writes
<1>4. QED
  BY <1>1, <1>2, <1>3, StreamingSteps

LEMMA StreamingType == TypeOK /\ Streaming => TypeOK'
<1> SUFFICES ASSUME TypeOK, Streaming PROVE TypeOK'
  OBVIOUS
<1> DEFINE Rest == /\ seen' \in [reasoning : BOOLEAN, reasoned : BOOLEAN, answer : BOOLEAN]
                   /\ tool' \in [Tools -> ToolStates]
                   /\ pending' \in BOOLEAN /\ events' \in Nat
<1>1. ASSUME NEW thinks \in BOOLEAN, NEW plans \in BOOLEAN, NEW says \in BOOLEAN,
             ModelStream(thinks, plans, says)
      PROVE  Rest
  BY <1>1 DEF ModelStream, Event, TypeOK
<1>2. ASSUME NEW t \in Tools, ToolStart(t) \/ ToolEnd(t) \/ ToolFails(t) PROVE Rest
  BY <1>2 DEF ToolStart, ToolEnd, ToolFails, Event, TypeOK, ToolStates
<1>3. ASSUME NEW t \in Tools, NEW real \in BOOLEAN, NEW payload \in BOOLEAN,
             ToolInterrupts(t, real, payload)
      PROVE  Rest
  BY <1>3 DEF ToolInterrupts, Event, TypeOK, ToolStates
<1>4. ASSUME NEW payload \in BOOLEAN, StreamInterrupts(payload) PROVE Rest
  BY <1>4 DEF StreamInterrupts, TypeOK
<1>5. ASSUME StreamThrows \/ StreamEnds \/ CloseSteps \/ LookupInterrupts \/ LookupThrows PROVE Rest
  BY <1>5 DEF StreamThrows, StreamEnds, CloseSteps, LookupInterrupts, LookupThrows, counted, TypeOK
<1> HIDE DEF Rest
<1>6. Rest
  <2>1. CASE \E thinks, plans, says \in BOOLEAN :
               (thinks \/ plans \/ says) /\ ModelStream(thinks, plans, says)
    BY <1>1, <2>1
  <2>2. CASE \E t \in Tools : ToolStart(t) \/ ToolEnd(t) \/ ToolFails(t)
    BY <1>2, <2>2
  <2>3. CASE \E t \in Tools : \E real, payload \in BOOLEAN : ToolInterrupts(t, real, payload)
    BY <1>3, <2>3
  <2>4. CASE \E payload \in BOOLEAN : StreamInterrupts(payload)
    BY <1>4, <2>4
  <2>5. QED
    BY <1>5, <2>1, <2>2, <2>3, <2>4 DEF Streaming, AgentEvents
<1>7. pc' \in Stages
  BY StreamingWrites DEF Stages
<1>8. QED
  BY <1>6, <1>7, StreamingWrites DEF Rest, TypeOK, Message

LEMMA FinalizedMessage ==
  ASSUME NEW m \in Message, NEW status \in MsgStatus
  PROVE  /\ Finalized(m, status) \in Message
         /\ Finalized(m, status).status = status
         /\ \A k \in StepKeys : /\ m.steps[k] = "error" => Finalized(m, status).steps[k] = "error"
                                /\ status # "error" => Finalized(m, status).steps[k] # "loading"
BY DEF Finalized, Message, StepStatus

LEMMA EndChunk ==
  ASSUME TypeOK, NEW c \in {Done, Error}, Send(<<c>>)
  PROVE  /\ <<c>> \in Seq(Chunks) /\ c \in Terminal /\ c # Interrupt
         /\ wire' \in Seq(Chunks) /\ endings' = endings + 1
         /\ wire' = IF conn = "open" THEN wire \o <<c>> ELSE wire
<1>1. <<c>> \in Seq(Chunks) /\ c \in Terminal /\ c # Interrupt
  BY DEF Chunks, Terminal, Done, Error, Interrupt
<1>2. {i \in DOMAIN <<c>> : <<c>>[i] \in Terminal} = {1}
  BY <1>1
<1>3. endings' = endings + Cardinality({1})
  BY <1>2 DEF Send
<1>4. Cardinality({1}) = 1
  BY FS_Singleton
<1>5. QED
  BY <1>1, <1>3, <1>4, SendType DEF Send

View == [status : MsgStatus, form : BOOLEAN, requesting : BOOLEAN]

LEMMA ShownView ==
  ASSUME NEW view \in View, NEW c \in Chunks, kind \in {"chat", "resume"}
  PROVE  /\ Shown(view, c) \in View
         /\ c = Interrupt => Shown(view, c).status = "waiting" /\ Shown(view, c).form
         /\ c \in {Done, Error} => Shown(view, c).status = c.type
<1>1. c.type \in {"thinking_delta", "content_delta", "thought_step", "interrupt", "done", "error"}
  BY DEF Chunks, Thinking, Content, Interrupt, Done, Error, StepChunk
<1> DEFINE kept == view.form /\ kind = "chat"
<1>2. kept \in BOOLEAN
  OBVIOUS
<1> DEFINE set(s, f) == [view EXCEPT !.status = s, !.form = f]
           mark(s) == [view EXCEPT !.status = s]
<1>3. \A s \in MsgStatus, f \in BOOLEAN :
        set(s, f) \in View /\ set(s, f).status = s /\ set(s, f).form = f
  BY DEF View
<1>4. \A s \in MsgStatus : mark(s) \in View
  BY DEF View
<1>5. /\ c.type = "thinking_delta" => Shown(view, c) = mark("updating")
      /\ c.type = "content_delta" =>
           Shown(view, c) = set("updating", kept)
      /\ c.type = "thought_step" => Shown(view, c) = view
      /\ c.type = "interrupt" => Shown(view, c) = set("waiting", TRUE)
      /\ c.type \in {"done", "error"} =>
           Shown(view, c) = set(c.type, kept)
  BY DEF Shown
<1>6. {"updating", "waiting", "done", "error"} \subseteq MsgStatus
  BY DEF MsgStatus
<1>7. /\ c = Interrupt => c.type = "interrupt"
      /\ c \in {Done, Error} => c.type \in {"done", "error"}
  BY DEF Interrupt, Done, Error
<1> HIDE DEF kept, set, mark
<1>8. CASE c.type = "interrupt"
  BY <1>3, <1>5, <1>6, <1>7, <1>8 DEF Done, Error
<1>9. CASE c.type \in {"done", "error"}
  BY <1>2, <1>3, <1>5, <1>6, <1>7, <1>9
<1>10. CASE c.type \in {"thinking_delta", "content_delta", "thought_step"}
  BY <1>2, <1>3, <1>4, <1>5, <1>6, <1>7, <1>10
<1>11. QED
  BY <1>1, <1>8, <1>9, <1>10

(* TypeOK with its record sets named.                                       *)
Seen == [reasoning : BOOLEAN, reasoned : BOOLEAN, answer : BOOLEAN]
Conns == {"none", "open", "finished", "aborted", "lost", "restored"}
Typed ==
  /\ pc \in Stages /\ kind \in {"chat", "resume"}
  /\ seen \in Seen /\ tool \in [Tools -> ToolStates]
  /\ pending \in BOOLEAN /\ agentOpen \in BOOLEAN
  /\ msg \in Message /\ wire \in Seq(Chunks) /\ ended \in BOOLEAN /\ endings \in Nat
  /\ ui \in View /\ conn \in Conns
  /\ turns \in Nat /\ events \in Nat /\ failures \in Nat /\ failed \in BOOLEAN

LEMMA TypedIsTypeOK == (Typed <=> TypeOK) /\ (Typed' <=> TypeOK')
BY DEF Typed, TypeOK, Seen, Message, View, Conns

LEMMA Constants ==
  /\ Unseen \in Seen /\ Fresh \in Message /\ Absent \in Message
  /\ [t \in Tools |-> "idle"] \in [Tools -> ToolStates]
  /\ \A m \in Message : Restored(m) \in View
  /\ \A s \in MsgStatus, r \in BOOLEAN :
       /\ [status |-> s, form |-> FALSE, requesting |-> r] \in View
       /\ \A v \in View : [v EXCEPT !.requesting = r] \in View
                          /\ [v EXCEPT !.status = s, !.requesting = r] \in View
<1>1. NoSteps \in [StepKeys -> StepStatus]
  BY DEF NoSteps, StepStatus
<1>2. Fresh \in Message /\ Absent \in Message
  BY <1>1 DEF Fresh, Absent, Message, MsgStatus
<1>3. Unseen \in Seen /\ [t \in Tools |-> "idle"] \in [Tools -> ToolStates]
  BY DEF Unseen, Seen, ToolStates
<1>4. \A m \in Message : Restored(m) \in View
  <2> TAKE m \in Message
  <2>1. m.status \in MsgStatus /\ (m.status = "waiting" /\ ParsesBack("fenced")) \in BOOLEAN
    BY DEF Message
  <2>2. QED
    BY <2>1 DEF Restored, View
<1>5. \A s \in MsgStatus, r \in BOOLEAN :
        /\ [status |-> s, form |-> FALSE, requesting |-> r] \in View
        /\ \A v \in View : [v EXCEPT !.requesting = r] \in View
                           /\ [v EXCEPT !.status = s, !.requesting = r] \in View
  BY DEF View
<1>6. QED
  BY <1>2, <1>3, <1>4, <1>5

LEMMA WritesType ==
  ASSUME Typed, WriteThrows \/ UNCHANGED writes
  PROVE  failures' \in Nat /\ failed' \in BOOLEAN
<1>1. failures' \in Nat
  BY DEF Typed, WriteThrows, writes
<1>2. failed' \in BOOLEAN
  BY Zenon DEF Typed, WriteThrows, writes
<1>3. QED
  BY <1>1, <1>2

LEMMA NextType == TypeOK /\ [Next]_vars => TypeOK'
<1> SUFFICES ASSUME Typed, TypeOK, [Next]_vars PROVE Typed'
  BY TypedIsTypeOK
<1> USE DEF Typed
<1>1. CASE SendMessage \/ SubmitForm
  <2>1. ui' \in View
    BY <1>1, Constants DEF SendMessage, SubmitForm, MsgStatus
  <2>2. /\ turns' \in Nat /\ pc' = "record" /\ kind' \in {"chat", "resume"}
        /\ wire' = <<>> /\ conn' = "open" /\ endings' = 0
    BY <1>1 DEF SendMessage, SubmitForm, StartTurn
  <2>3. /\ seen' = Unseen /\ tool' = [t \in Tools |-> "idle"] /\ msg' = Absent /\ ended' = FALSE
        /\ UNCHANGED <<pending, agentOpen, events, failures, failed>>
    BY <1>1 DEF SendMessage, SubmitForm, StartTurn, writes
  <2>4. /\ seen' \in Seen /\ tool' \in [Tools -> ToolStates] /\ msg' \in Message
        /\ wire' \in Seq(Chunks)
    BY <2>2, <2>3, Constants, NoChunks
  <2>5. QED
    BY <2>1, <2>2, <2>3, <2>4 DEF Stages, Conns
<1>2. CASE RecordChat \/ RecordResume
  <2>1. /\ WriteThrows \/ UNCHANGED writes
        /\ pc' \in Stages /\ msg' \in {Fresh, msg}
        /\ UNCHANGED <<kind, seen, tool, pending, agentOpen, wire, ended, endings, ui, conn,
                       turns, events>>
    BY <1>2 DEF RecordChat, RecordResume, Record, Stages, client
  <2>2. QED
    BY <2>1, Constants, WritesType
<1>3. CASE Prepare
  <2>1. pc' \in Stages /\ agentOpen' \in BOOLEAN /\ pending' \in BOOLEAN
    BY <1>3 DEF Prepare, Stages
  <2>2. QED
    BY <1>3, <2>1 DEF Prepare, client, counted, writes
<1>4. CASE Streaming
  BY <1>4, StreamingType, TypedIsTypeOK
<1>5. CASE FinishWaiting \/ FinishDone \/ FinalizeFails \/ CatchError \/ CloseAgent
  <2>1. \A s \in {"waiting", "done", "error"} : Finalized(msg, s) \in Message
    BY FinalizedMessage DEF MsgStatus
  <2>2. CASE FinishWaiting
    BY <2>1, <2>2 DEF FinishWaiting, Stages, client, counted, writes
  <2>3. CASE FinalizeFails \/ CloseAgent
    <3>1. /\ WriteThrows \/ UNCHANGED writes
          /\ pc' \in Stages /\ agentOpen' \in {agentOpen, FALSE}
          /\ UNCHANGED <<kind, seen, tool, pending, msg, wire, ended, endings, ui, conn,
                         turns, events>>
      BY <2>3 DEF FinalizeFails, CloseAgent, Stages, client, counted
    <3>2. QED
      BY <3>1, WritesType
  <2>4. CASE FinishDone
    BY <2>1, <2>4, EndChunk DEF FinishDone, Stages, client, counted, writes
  <2>5. CASE CatchError
    <3>1. wire' \in Seq(Chunks) /\ endings' \in Nat
      BY <2>5, EndChunk DEF CatchError
    <3>2. (WriteThrows \/ UNCHANGED writes) /\ msg' \in Message
      BY <2>1, <2>5 DEF CatchError
    <3>3. QED
      BY <2>5, <3>1, <3>2, WritesType DEF CatchError, Stages, client
  <2>6. QED
    BY <1>5, <2>2, <2>3, <2>4, <2>5
<1>6. CASE Crash
  <2>1. ui' \in View /\ conn' \in Conns
    BY <1>6, Constants DEF Crash, client, MsgStatus, Conns
  <2>2. <<>> \in Seq(Chunks)
    OBVIOUS
  <2>3. QED
    BY <1>6, <2>1, <2>2 DEF Crash, Stages, counted, writes
<1>7. CASE ReadChunk
  <2>1. Head(wire) \in Chunks /\ Tail(wire) \in Seq(Chunks)
    BY <1>7, HeadTailProperties DEF ReadChunk
  <2>2. QED
    BY <1>7, <2>1, ShownView DEF ReadChunk, server, counted, writes
<1>8. CASE FinishReading
  <2>1. ui.status \in MsgStatus
    BY DEF View
  <2>2. ui' \in View
    BY <1>8, <2>1, Constants DEF FinishReading, MsgStatus
  <2>3. QED
    BY <1>8, <2>2 DEF FinishReading, server, counted, writes, Conns
<1>9. CASE Abort \/ Reload
  <2>1. ui' \in View
    BY <1>9, Constants DEF Abort, Reload, MsgStatus
  <2>2. wire' = <<>> /\ conn' \in Conns
    BY <1>9 DEF Abort, Reload, Conns
  <2>3. QED
    BY <1>9, <2>1, <2>2 DEF Abort, Reload, server, counted, writes
<1>10. CASE UNCHANGED vars
  BY <1>10 DEF vars, server, client, counted, writes
<1>11. QED
  BY <1>1, <1>2, <1>3, <1>4, <1>5, <1>6, <1>7, <1>8, <1>9, <1>10
  DEF Next, Ending, Reading, Streaming

(* For every set of tools, number of turns, events and failing writes, the  *)
(* handler, the history and the page range over the values the code can     *)
(* produce.                                                                 *)
THEOREM TypeCorrect == Spec => []TypeOK
<1>1. Init => TypeOK
  <2> SUFFICES ASSUME Init PROVE Typed
    BY TypedIsTypeOK
  <2>1. turns \in Nat /\ events \in Nat /\ failures \in Nat
    BY TurnAssumption DEF Init
  <2>2. ui \in View
    BY DEF Init, View, MsgStatus
  <2>3. /\ pc = "idle" /\ kind = "chat" /\ seen = Unseen /\ tool = [t \in Tools |-> "idle"]
        /\ pending = FALSE /\ agentOpen = FALSE /\ msg = Absent
        /\ wire = <<>> /\ ended = FALSE /\ endings = 0 /\ conn = "none" /\ failed = FALSE
    BY DEF Init
  <2>4. /\ seen \in Seen /\ tool \in [Tools -> ToolStates] /\ msg \in Message
        /\ wire \in Seq(Chunks)
    BY <2>3, Constants, NoChunks
  <2>5. QED
    BY <2>1, <2>2, <2>3, <2>4 DEF Typed, Stages, Conns
<1>2. QED
  BY <1>1, NextType, PTL DEF Spec

-----------------------------------------------------------------------------
(* How often and where a response ends.                                     *)

Early == {"idle", "record", "prepare", "create", "compose", "stream", "closing", "lookup", "finDone"}
LastOnly(chunks) == \A i \in DOMAIN chunks : chunks[i] \in Terminal => i = Len(chunks)

(* Before the handler comes to an end nothing has ended the response; only  *)
(* a write that fails between the chunk and the record of it leads on to    *)
(* the catch clause and a second end.                                       *)
EndingInv ==
  /\ pc \in Early \/ (pc = "catch" /\ ~failed) => endings = 0 /\ Silent(wire)
  /\ pc = "finWaiting" => endings = 1
  /\ pc \in Early \cup {"catch", "finWaiting"} => ~ended
  /\ pc \in {"close", "over"} => ended
  /\ ended => endings >= 1
  /\ endings > 1 => failed
  /\ failed \/ LastOnly(wire)

LEMMA SilentIsLastOnly == \A chunks : Silent(chunks) => LastOnly(chunks)
BY DEF Silent, LastOnly

LEMMA AddLast ==
  ASSUME NEW w \in Seq(Chunks), NEW s \in Seq(Chunks), s # <<>>
  PROVE  /\ w \o s # <<>> /\ (w \o s)[Len(w \o s)] = s[Len(s)]
         /\ Silent(w) /\ LastOnly(s) => LastOnly(w \o s)
         /\ \A i \in DOMAIN (w \o s) : \/ \E j \in DOMAIN w : (w \o s)[i] = w[j]
                                       \/ \E j \in DOMAIN s : (w \o s)[i] = s[j]
<1>1. /\ Len(w) \in Nat /\ DOMAIN w = 1..Len(w)
      /\ Len(s) \in Nat \ {0} /\ DOMAIN s = 1..Len(s)
  BY LenProperties, EmptySeq
<1>2. /\ w \o s \in Seq(Chunks) /\ Len(w \o s) = Len(w) + Len(s)
      /\ \A i \in 1..(Len(w) + Len(s)) :
           (w \o s)[i] = IF i <= Len(w) THEN w[i] ELSE s[i - Len(w)]
  BY ConcatProperties
<1>3. DOMAIN (w \o s) = 1..(Len(w) + Len(s))
  BY <1>2, LenProperties
<1>4. w \o s # <<>> /\ (w \o s)[Len(w \o s)] = s[Len(s)]
  BY <1>1, <1>2, EmptySeq
<1>5. Silent(w) /\ LastOnly(s) => LastOnly(w \o s)
  BY <1>1, <1>2, <1>3 DEF Silent, LastOnly
<1>6. ASSUME NEW i \in DOMAIN (w \o s)
      PROVE  \/ \E j \in DOMAIN w : (w \o s)[i] = w[j]
             \/ \E j \in DOMAIN s : (w \o s)[i] = s[j]
  <2>1. CASE i <= Len(w)
    BY <1>1, <1>2, <1>3, <2>1
  <2>2. CASE ~(i <= Len(w))
    <3>1. i - Len(w) \in DOMAIN s
      BY <1>1, <1>3, <2>2
    <3>2. QED
      BY <1>1, <1>2, <1>3, <2>2, <3>1
  <2>3. QED
    BY <2>1, <2>2
<1>7. QED
  BY <1>4, <1>5, <1>6

LEMMA RemoveFirst ==
  ASSUME NEW w \in Seq(Chunks), w # <<>>
  PROVE  /\ Silent(w) => Silent(Tail(w))
         /\ LastOnly(w) => LastOnly(Tail(w))
         /\ IF Tail(w) = <<>> THEN Head(w) = w[Len(w)]
            ELSE Tail(w)[Len(Tail(w))] = w[Len(w)]
         /\ \A i \in DOMAIN Tail(w) : \E j \in DOMAIN w : Tail(w)[i] = w[j]
<1>1. Len(w) \in Nat \ {0} /\ DOMAIN w = 1..Len(w)
  BY LenProperties, EmptySeq
<1>2. Tail(w) \in Seq(Chunks) /\ Len(Tail(w)) = Len(w) - 1
  BY HeadTailProperties
<1>3. \A i \in 1..Len(Tail(w)) : Tail(w)[i] = w[i + 1]
  BY <1>1, <1>2
<1>4. DOMAIN Tail(w) = 1..(Len(w) - 1)
  BY <1>1, <1>2, LenProperties
<1>5. Tail(w) = <<>> <=> Len(w) = 1
  <2>1. Tail(w) = <<>> => Len(Tail(w)) = 0
    BY EmptySeq
  <2>2. Tail(w) # <<>> => Len(Tail(w)) # 0
    BY <1>2, EmptySeq
  <2>3. QED
    BY <1>1, <1>2, <2>1, <2>2
<1>6. \A i \in DOMAIN Tail(w) : i + 1 \in DOMAIN w /\ Tail(w)[i] = w[i + 1]
  BY <1>1, <1>2, <1>3, <1>4
<1>7. Silent(w) => Silent(Tail(w))
  BY <1>6 DEF Silent
<1>8. LastOnly(w) => LastOnly(Tail(w))
  BY <1>1, <1>2, <1>4, <1>6 DEF LastOnly
<1>9. Head(w) = w[1]
  OBVIOUS
<1>10. QED
  BY <1>1, <1>2, <1>4, <1>5, <1>6, <1>7, <1>8, <1>9

LEMMA LastOnlyEnds ==
  LastOnly(Question) /\ Question # <<>> /\ \A c : LastOnly(<<c>>) /\ <<c>> # <<>>
BY QuestionType DEF LastOnly

LEMMA NextEnding == TypeOK /\ EndingInv /\ [Next]_vars => EndingInv'
<1> SUFFICES ASSUME TypeOK, EndingInv, [Next]_vars PROVE EndingInv'
  OBVIOUS
<1>0. /\ wire \in Seq(Chunks) /\ endings \in Nat /\ failed \in BOOLEAN
      /\ Silent(<<>>) /\ LastOnly(<<>>)
  BY NoChunks, SilentIsLastOnly DEF TypeOK
<1>1. CASE SendMessage \/ SubmitForm
  BY <1>0, <1>1 DEF SendMessage, SubmitForm, StartTurn, EndingInv, Early
<1>2. CASE RecordChat \/ RecordResume \/ Prepare
  <2>1. /\ pc \in {"record", "prepare", "create", "compose"}
        /\ pc' \in {"prepare", "create", "compose", "stream", "catch"}
        /\ UNCHANGED <<wire, endings, ended>> /\ (failed => failed')
    BY <1>2 DEF RecordChat, RecordResume, Record, WriteThrows, Prepare, counted, writes
  <2>2. QED
    BY <1>0, <2>1, SilentIsLastOnly DEF EndingInv, Early
<1>3. CASE Streaming
  <2>1. Silent(wire) /\ endings = 0 /\ ~ended /\ ended' = ended
    BY <1>3, StreamingSteps, StreamingWrites DEF EndingInv, Early
  <2>2. CASE /\ endings' = endings /\ Silent(wire')
             /\ pc' \in {"stream", "closing", "lookup", "catch", "finDone"}
    BY <2>1, <2>2, SilentIsLastOnly DEF EndingInv, Early
  <2>3. CASE /\ pc' = "finWaiting" /\ endings' = endings + 1
             /\ wire' = IF conn = "open" THEN wire \o Question ELSE wire
    <3>1. LastOnly(wire')
      BY <1>0, <2>1, <2>3, QuestionType, LastOnlyEnds, AddLast, SilentIsLastOnly
    <3>2. QED
      BY <2>1, <2>3, <3>1 DEF EndingInv, Early
  <2>4. QED
    BY <1>3, <2>1, <2>2, <2>3, StreamingWrites
<1>4. CASE FinishWaiting
  BY <1>0, <1>4 DEF FinishWaiting, EndingInv, Early, counted, writes
<1>5. CASE FinishDone
  <2>1. Silent(wire) /\ endings = 0 /\ pc' = "close" /\ ended'
    BY <1>5 DEF FinishDone, EndingInv, Early
  <2>2. /\ endings' = endings + 1
        /\ wire' = IF conn = "open" THEN wire \o <<Done>> ELSE wire
        /\ <<Done>> \in Seq(Chunks)
    BY <1>5, EndChunk DEF FinishDone
  <2>3. LastOnly(wire')
    BY <1>0, <2>1, <2>2, LastOnlyEnds, AddLast, SilentIsLastOnly
  <2>4. QED
    BY <2>1, <2>2, <2>3 DEF EndingInv, Early
<1>6. CASE FinalizeFails
  BY <1>0, <1>6 DEF FinalizeFails, WriteThrows, EndingInv, Early
<1>7. CASE CatchError
  <2>1. /\ pc = "catch" /\ pc' = "close" /\ ended' /\ (failed => failed')
        /\ endings' = endings + 1 /\ <<Error>> \in Seq(Chunks)
        /\ wire' = IF conn = "open" THEN wire \o <<Error>> ELSE wire
    BY <1>7, EndChunk DEF CatchError, WriteThrows, writes
  <2>2. ~failed => endings = 0 /\ Silent(wire)
    BY <2>1 DEF EndingInv
  <2>3. ~failed => LastOnly(wire')
    BY <1>0, <2>1, <2>2, LastOnlyEnds, AddLast, SilentIsLastOnly
  <2>4. QED
    BY <1>0, <2>1, <2>2, <2>3 DEF EndingInv, Early
<1>8. CASE CloseAgent
  BY <1>0, <1>8 DEF CloseAgent, EndingInv, Early, counted, writes
<1>9. CASE Crash
  BY <1>0, <1>9 DEF Crash, EndingInv, Early, counted, writes
<1>10. CASE ReadChunk
  <2>1. wire # <<>> /\ wire' = Tail(wire) /\ UNCHANGED <<pc, endings, ended, failed>>
    BY <1>10 DEF ReadChunk, server, counted, writes
  <2>2. (Silent(wire) => Silent(wire')) /\ (LastOnly(wire) => LastOnly(wire'))
    BY <1>0, <2>1, RemoveFirst
  <2>3. QED
    BY <2>1, <2>2 DEF EndingInv
<1>11. CASE FinishReading \/ Abort \/ Reload \/ UNCHANGED vars
  <2>1. (wire' = <<>> \/ wire' = wire) /\ UNCHANGED <<pc, endings, ended, failed>>
    BY <1>11 DEF FinishReading, Abort, Reload, vars, server, counted, writes
  <2>2. (Silent(wire) => Silent(wire')) /\ (LastOnly(wire) => LastOnly(wire'))
    BY <1>0, <2>1
  <2>3. QED
    BY <2>1, <2>2 DEF EndingInv
<1>12. QED
  BY <1>1, <1>2, <1>3, <1>4, <1>5, <1>6, <1>7, <1>8, <1>9, <1>10, <1>11
  DEF Next, Ending, Reading, Streaming

LEMMA AlwaysEnding == Spec => []EndingInv
<1>1. Init => EndingInv
  BY NoChunks, SilentIsLastOnly DEF Init, EndingInv, Early
<1>2. QED
  BY <1>1, NextEnding, TypeCorrect, PTL DEF Spec

(* However the stream, the writes and the process fail, a response carries  *)
(* one chunk with isEnd, as its last chunk; a second one follows only an    *)
(* interrupt that could not be recorded as waiting.                         *)
THEOREM ResponsesEndOnce == Spec => []EndsOnce
<1>1. TypeOK /\ EndingInv => EndsOnce
  <2> SUFFICES ASSUME TypeOK, EndingInv PROVE EndsOnce
    OBVIOUS
  <2>1. Len(wire) \in Nat /\ DOMAIN wire = 1..Len(wire)
    BY LenProperties DEF TypeOK
  <2>2. \A i \in 1..(Len(wire) - 1) : wire[i] \in Terminal => failed
    BY <2>1 DEF EndingInv, LastOnly
  <2>3. QED
    BY <2>2 DEF EndingInv, EndsOnce
<1>2. QED
  BY <1>1, TypeCorrect, AlwaysEnding, PTL

-----------------------------------------------------------------------------
(* What the history says of the turn.                                       *)

MessageInv ==
  /\ pc \in (Early \ {"idle", "record"}) \cup {"catch", "finWaiting"} => msg.status \in InProgress
  /\ pc = "record" => msg = Absent /\ \A t \in Tools : tool[t] = "idle"
  /\ pc = "finDone" => ~pending
  /\ pc \in {"close", "over"} /\ msg.status = "done" => ~pending
  /\ pc \in {"close", "over"} /\ msg.status \in {"done", "waiting"} =>
       \A k \in StepKeys : msg.steps[k] # "loading"
  /\ \A t \in Tools : tool[t] = "failed" => msg.steps[t] = "error" \/ failed

LEMMA PlainSteps ==
  ASSUME NEW t \in Tools, NEW u \in Tools \ {t}, NEW s,
         NEW chunks \in Seq(Plain \cup {StepChunk(t, s)})
  PROVE  StepsFor(u, chunks) = {}
<1>1. \A i \in DOMAIN chunks : chunks[i] \in Plain \cup {StepChunk(t, s)}
  BY LenProperties, ElementOfSeq
<1>2. \A c \in Plain \cup {StepChunk(t, s)} : c.type = "thought_step" => c.key # u
  BY PlainChunks, TurnAssumption DEF StepChunk
<1>3. QED
  BY <1>1, <1>2 DEF StepsFor

LEMMA NoToolSteps ==
  ASSUME NEW u \in Tools
  PROVE  /\ \A chunks \in Seq(Plain) : StepsFor(u, chunks) = {}
         /\ StepsFor(u, Question) = {} /\ StepsFor(u, <<>>) = {}
<1>1. ASSUME NEW chunks \in Seq(Plain) PROVE StepsFor(u, chunks) = {}
  <2>1. \A i \in DOMAIN chunks : chunks[i] \in Plain
    BY LenProperties, ElementOfSeq
  <2>2. QED
    BY <2>1, PlainChunks, TurnAssumption DEF StepsFor
<1>2. StepsFor(u, Question) = {}
  BY QuestionType, TurnAssumption DEF StepsFor, StepChunk, Interrupt
<1>3. QED
  BY <1>1, <1>2 DEF StepsFor

(* The step of a call that has failed is not written again.                 *)
LEMMA FailedStepsStay ==
  ASSUME TypeOK, Streaming, NEW u \in Tools, tool'[u] = "failed"
  PROVE  \/ failed' \/ msg'.steps[u] = "error"
         \/ tool[u] = "failed" /\ msg'.steps[u] = msg.steps[u]
<1> DEFINE Goal == \/ failed' \/ msg'.steps[u] = "error"
                   \/ tool[u] = "failed" /\ msg'.steps[u] = msg.steps[u]
<1>0. u \in StepKeys /\ msg \in Message /\ tool \in [Tools -> ToolStates]
  BY DEF StepKeys, TypeOK, Message
<1>1. ASSUME NEW chunks \in Seq(Chunks), NEW next, Emit(chunks, next),
             StepsFor(u, chunks) = {}, tool[u] = "failed"
      PROVE  Goal
  BY <1>0, <1>1, EmitMessage
<1>2. ASSUME NEW thinks, NEW plans, NEW says, ModelStream(thinks, plans, says) PROVE Goal
  <2>1. PICK chunks \in Seq(Plain) : Emit(chunks, "stream")
    BY <1>2, ModelStreamChunks
  <2>2. tool[u] = "failed"
    BY <1>2, ModelStreamChunks
  <2>3. QED
    BY <1>1, <2>1, <2>2, PlainOnly, NoToolSteps
<1>3. ASSUME NEW t \in Tools, ToolStart(t) PROVE Goal
  <2>1. PICK chunks \in Seq(Plain \cup {StepChunk(t, "loading")}) : Emit(chunks, "stream")
    BY <1>3, ToolStartChunks
  <2>2. t # u /\ tool[u] = "failed"
    BY <1>0, <1>3 DEF ToolStart
  <2>3. StepChunk(t, "loading") \in Chunks \ Terminal
    BY SilentChunks DEF StepKeys, StepStatus
  <2>4. QED
    BY <1>1, <2>1, <2>2, <2>3, SeqOfPlain, PlainSteps
<1>4. ASSUME NEW t \in Tools, t # u, NEW s \in {"success", "error"},
             Emit(<<StepChunk(t, s)>>, "stream"), tool[u] = "failed"
      PROVE  Goal
  <2>1. StepChunk(t, s) \in Chunks \ Terminal
    BY SilentChunks DEF StepKeys, StepStatus
  <2>2. <<StepChunk(t, s)>> \in Seq(Plain \cup {StepChunk(t, s)})
    OBVIOUS
  <2>3. <<StepChunk(t, s)>> \in Seq(Chunks) /\ StepsFor(u, <<StepChunk(t, s)>>) = {}
    BY <1>4, <2>1, <2>2, SeqOfPlain, PlainSteps
  <2>4. QED
    BY <1>1, <1>4, <2>3
<1>5. ASSUME NEW t \in Tools, ToolEnd(t) PROVE Goal
  <2>1. t # u /\ tool[u] = "failed" /\ Emit(<<StepChunk(t, "success")>>, "stream")
    BY <1>0, <1>5 DEF ToolEnd
  <2>2. QED
    BY <1>4, <2>1
<1>6. ASSUME NEW t \in Tools, ToolFails(t) PROVE Goal
  <2>1. Emit(<<StepChunk(t, "error")>>, "stream")
    BY <1>6 DEF ToolFails
  <2>2. CASE t # u
    <3>1. tool[u] = "failed"
      BY <1>0, <1>6, <2>2 DEF ToolFails
    <3>2. QED
      BY <1>4, <2>1, <2>2, <3>1
  <2>3. CASE t = u
    <3> DEFINE chunks == <<StepChunk(u, "error")>>
    <3>1. StepChunk(u, "error") \in Chunks
      BY <1>0, SilentChunks DEF StepStatus
    <3>2. chunks \in Seq(Chunks) /\ chunks[1] = StepChunk(u, "error") /\ DOMAIN chunks = {1}
      BY <3>1
    <3>3. StepChunk(u, "error").type = "thought_step" /\ StepChunk(u, "error").key = u
          /\ StepChunk(u, "error").status = "error"
      BY DEF StepChunk
    <3> HIDE DEF chunks
    <3>4. StepsFor(u, chunks) = {1}
      BY <3>2, <3>3 DEF StepsFor
    <3>5. Latest({1}) = 1
      BY DEF Latest
    <3>6. Recorded(msg, chunks).steps[u] = "error"
      BY <1>0, <3>2, <3>3, <3>4, <3>5 DEF Recorded
    <3>7. QED
      BY <2>1, <2>3, <3>2, <3>6, EmitMessage DEF chunks
  <2>4. QED
    BY <2>2, <2>3
<1>7. ASSUME NEW t \in Tools, NEW real \in BOOLEAN, NEW payload \in BOOLEAN,
             ToolInterrupts(t, real, payload)
      PROVE  Goal
  <2>1. t # u /\ tool[u] = "failed"
    BY <1>0, <1>7 DEF ToolInterrupts
  <2>2. Emit(Question, "finWaiting") \/ Emit(<<>>, "stream")
    BY <1>7 DEF ToolInterrupts, Question
  <2>3. QED
    BY <1>1, <2>1, <2>2, NoChunks, QuestionType, NoToolSteps
<1>8. ASSUME NEW payload \in BOOLEAN, StreamInterrupts(payload) PROVE Goal
  <2>1. tool[u] = "failed"
    BY <1>8 DEF StreamInterrupts
  <2>2. Emit(Question, "finWaiting") \/ Emit(<<>>, "closing")
    BY <1>8 DEF StreamInterrupts, Question
  <2>3. QED
    BY <1>1, <2>1, <2>2, NoChunks, QuestionType, NoToolSteps
<1>9. ASSUME StreamThrows \/ StreamEnds \/ LookupThrows PROVE Goal
  BY <1>9 DEF StreamThrows, StreamEnds, LookupThrows
<1>10. ASSUME CloseSteps PROVE Goal
  <2>1. PICK chunks \in Seq(Plain) : Emit(chunks, "lookup")
    BY <1>10, CloseStepsChunks
  <2>2. tool[u] = "failed"
    BY <1>10 DEF CloseSteps
  <2>3. QED
    BY <1>1, <2>1, <2>2, PlainOnly, NoToolSteps
<1>11. ASSUME LookupInterrupts PROVE Goal
  <2>1. tool[u] = "failed" /\ (Emit(Question, "finWaiting") \/ Emit(<<>>, "finDone"))
    BY <1>11 DEF LookupInterrupts, Question
  <2>2. QED
    BY <1>1, <2>1, NoChunks, QuestionType, NoToolSteps
<1> HIDE DEF Goal
<1>12. ASSUME AgentEvents PROVE Goal
  <2>1. ASSUME \E thinks, plans, says \in BOOLEAN :
                 (thinks \/ plans \/ says) /\ ModelStream(thinks, plans, says)
        PROVE  Goal
    BY <1>2, <2>1
  <2>2. ASSUME \E t \in Tools : ToolStart(t) \/ ToolEnd(t) \/ ToolFails(t) PROVE Goal
    BY <1>3, <1>5, <1>6, <2>2
  <2>3. ASSUME \E t \in Tools : \E real, payload \in BOOLEAN : ToolInterrupts(t, real, payload)
        PROVE  Goal
    BY <1>7, <2>3
  <2>4. ASSUME \E payload \in BOOLEAN : StreamInterrupts(payload) PROVE Goal
    BY <1>8, <2>4
  <2>5. QED
    BY <1>9, <1>12, <2>1, <2>2, <2>3, <2>4 DEF AgentEvents
<1>13. Goal
  BY <1>9, <1>10, <1>11, <1>12 DEF Streaming
<1>14. QED
  BY <1>13 DEF Goal

LEMMA NextMessage == TypeOK /\ EndingInv /\ MessageInv /\ [Next]_vars => MessageInv'
<1> SUFFICES ASSUME TypeOK, EndingInv, MessageInv, [Next]_vars PROVE MessageInv'
  OBVIOUS
<1>0. msg \in Message /\ failed \in BOOLEAN /\ Tools \subseteq StepKeys
  BY DEF TypeOK, Message, StepKeys
<1>1. CASE SendMessage \/ SubmitForm
  <2>1. pc' = "record" /\ msg' = Absent /\ tool' = [t \in Tools |-> "idle"]
    BY <1>1 DEF SendMessage, SubmitForm, StartTurn
  <2>2. QED
    BY <2>1 DEF MessageInv, Early
<1>2. CASE RecordChat \/ RecordResume
  <2>1. /\ pc = "record" /\ pc' \in {"prepare", "create", "catch"} /\ msg' \in {Fresh, msg}
        /\ tool' = tool
    BY <1>2 DEF RecordChat, RecordResume, Record
  <2>2. msg'.status \in InProgress
    BY <2>1 DEF MessageInv, Absent, Fresh, InProgress
  <2>3. \A t \in Tools : tool'[t] = "idle"
    BY <2>1 DEF MessageInv
  <2>4. QED
    BY <2>1, <2>2, <2>3 DEF MessageInv, Early
<1>3. CASE Prepare
  <2>1. /\ pc \in {"prepare", "create", "compose"}
        /\ pc' \in {"create", "compose", "stream", "catch"}
        /\ UNCHANGED <<msg, tool, failed>>
    BY <1>3 DEF Prepare, counted, writes
  <2>2. QED
    BY <2>1 DEF MessageInv, Early
<1>4. CASE Streaming
  <2>1. msg.status \in InProgress
    BY <1>4, StreamingSteps DEF MessageInv, Early
  <2>2. /\ msg'.status \in InProgress /\ (failed => failed')
        /\ pc' \in {"stream", "closing", "lookup", "catch", "finDone", "finWaiting"}
        /\ pc' = "finDone" => ~pending'
    BY <1>4, <2>1, StreamingWrites
  <2>3. \A t \in Tools : tool'[t] = "failed" => msg'.steps[t] = "error" \/ failed'
    BY <1>0, <1>4, <2>2, FailedStepsStay DEF MessageInv
  <2>4. QED
    BY <2>2, <2>3 DEF MessageInv, Early
<1>5. ASSUME NEW s \in {"waiting", "done", "error"}, msg' = Finalized(msg, s),
             pc' = "close", tool' = tool, failed => failed', s = "done" => ~pending'
      PROVE  MessageInv'
  <2>1. /\ msg'.status = s
        /\ \A k \in StepKeys : /\ msg.steps[k] = "error" => msg'.steps[k] = "error"
                               /\ s # "error" => msg'.steps[k] # "loading"
    BY <1>0, <1>5, FinalizedMessage DEF MsgStatus
  <2>2. \A t \in Tools : tool'[t] = "failed" => msg'.steps[t] = "error" \/ failed'
    BY <1>0, <1>5, <2>1 DEF MessageInv
  <2>3. QED
    BY <1>5, <2>1, <2>2 DEF MessageInv, Early
<1>6. CASE FinishWaiting \/ FinishDone
  BY <1>5, <1>6 DEF FinishWaiting, FinishDone, MessageInv, counted, writes
<1>7. CASE FinalizeFails
  BY <1>7 DEF FinalizeFails, WriteThrows, MessageInv, Early
<1>8. CASE CatchError
  <2>1. pc = "catch" /\ pc' = "close" /\ tool' = tool /\ (failed => failed')
    BY <1>8 DEF CatchError, WriteThrows, writes
  <2>2. CASE msg' = Finalized(msg, "error")
    BY <1>5, <2>1, <2>2
  <2>3. CASE msg' = msg
    <3>1. msg'.status \notin {"done", "waiting"}
      BY <2>1, <2>3 DEF MessageInv, InProgress
    <3>2. \A t \in Tools : tool'[t] = "failed" => msg'.steps[t] = "error" \/ failed'
      BY <2>1, <2>3 DEF MessageInv
    <3>3. QED
      BY <2>1, <3>1, <3>2 DEF MessageInv, Early
  <2>4. QED
    BY <1>8, <2>2, <2>3 DEF CatchError
<1>9. CASE CloseAgent
  BY <1>9 DEF CloseAgent, MessageInv, Early, counted, writes
<1>10. CASE Crash
  BY <1>10 DEF Crash, MessageInv, Early, counted, writes
<1>11. CASE Reading \/ Abort \/ Reload \/ UNCHANGED vars
  <2>1. UNCHANGED <<pc, msg, tool, pending, failed>>
    BY <1>11 DEF Reading, ReadChunk, FinishReading, Abort, Reload, vars, server, counted, writes
  <2>2. QED
    BY <2>1 DEF MessageInv
<1>12. QED
  BY <1>1, <1>2, <1>3, <1>4, <1>6, <1>7, <1>8, <1>9, <1>10, <1>11 DEF Next, Ending, Streaming

LEMMA AlwaysMessage == Spec => []MessageInv
<1>1. Init => MessageInv
  BY DEF Init, MessageInv, Early
<1>2. QED
  BY <1>1, NextMessage, TypeCorrect, AlwaysEnding, PTL DEF Spec

(* No way to end a turn leaves a message done or waiting with a step that   *)
(* still loads.                                                             *)
THEOREM FinishedStepsSettle == Spec => []SettledSteps
BY AlwaysMessage, PTL DEF MessageInv, SettledSteps

(* Whatever the stream showed of its interrupts, a turn is closed as done   *)
(* only when the graph waits for nobody.                                    *)
THEOREM NoInterruptOverlooked == Spec => []InterruptsSurface
BY AlwaysMessage, PTL DEF MessageInv, InterruptsSurface

(* Among any number of calls, in any order of their events, the step of a   *)
(* call that failed stays failed, unless a history write threw.             *)
THEOREM FailuresShow == Spec => []NoFalseSuccess
BY AlwaysMessage, PTL DEF MessageInv, NoFalseSuccess

-----------------------------------------------------------------------------
(* What the page makes of the response.                                     *)

Verdict(c) == IF c = Interrupt THEN "waiting" ELSE c.type
Ended == wire[Len(wire)]

(* The last chunk, or the view once it was read, is what the message in the *)
(* history became; whoever is asked, the graph or a mistaken error asks.    *)
PageInv ==
  /\ \A i \in DOMAIN wire : wire[i] = Interrupt => Asked
  /\ conn = "open" /\ pc = "finWaiting" =>
       IF wire = <<>> THEN ui.status = "waiting" /\ ui.form /\ Asked ELSE Ended = Interrupt
  /\ conn = "open" /\ ended =>
       IF wire = <<>>
       THEN /\ ui.status \in {"done", "error"} \/ (ui.status = "waiting" /\ ui.form /\ Asked)
            /\ failed \/ ui.status = msg.status
       ELSE Ended \in Terminal /\ (failed \/ msg.status = Verdict(Ended))
  /\ conn = "finished" =>
       /\ ended
       /\ failed \/ ui.status = msg.status
       /\ ui.status = "waiting" => ui.form /\ Asked

LEMMA SilentAsksNothing ==
  ASSUME Silent(wire)
  PROVE  \A i \in DOMAIN wire : wire[i] # Interrupt
BY DEF Silent, Terminal

(* The handler at work: it has not ended the response, and leaves the page  *)
(* alone.                                                                   *)
LEMMA WorkKeepsPage ==
  ASSUME TypeOK, EndingInv, PageInv, ~ended, ~ended', UNCHANGED <<ui, conn>>,
         pc' # "finWaiting", Silent(wire')
  PROVE  PageInv'
<1>1. \A i \in DOMAIN wire' : wire'[i] # Interrupt
  BY DEF Silent, Terminal
<1>2. conn' # "finished"
  BY DEF PageInv
<1>3. QED
  BY <1>1, <1>2 DEF PageInv

(* What the page made of it stays when only the place of the handler or its *)
(* agent changes.                                                           *)
LEMMA EndKeepsPage ==
  ASSUME PageInv, UNCHANGED <<pending, tool, msg, wire, ended, ui, conn>>, failed => failed',
         pc' = "finWaiting" => pc = "finWaiting"
  PROVE  PageInv'
BY DEF PageInv, Asked, Ended, Verdict

LEMMA NextPage == TypeOK /\ EndingInv /\ MessageInv /\ PageInv /\ [Next]_vars => PageInv'
<1> SUFFICES ASSUME TypeOK, EndingInv, MessageInv, PageInv, [Next]_vars PROVE PageInv'
  OBVIOUS
<1>0. /\ wire \in Seq(Chunks) /\ failed \in BOOLEAN /\ msg \in Message /\ ui \in View
      /\ kind \in {"chat", "resume"} /\ Silent(<<>>)
  BY NoChunks DEF TypeOK, Message, View
<1>1. CASE SendMessage \/ SubmitForm
  <2>1. wire' = <<>> /\ ~ended' /\ conn' = "open" /\ pc' = "record"
    BY <1>1 DEF SendMessage, SubmitForm, StartTurn
  <2>2. QED
    BY <2>1 DEF PageInv
<1>2. CASE RecordChat \/ RecordResume \/ Prepare
  <2>1. /\ pc \in {"record", "prepare", "create", "compose"} /\ pc' # "finWaiting"
        /\ UNCHANGED <<wire, ended, ui, conn>>
    BY <1>2 DEF RecordChat, RecordResume, Record, Prepare, client
  <2>2. ~ended /\ Silent(wire)
    BY <2>1 DEF EndingInv, Early
  <2>3. QED
    BY <2>1, <2>2, WorkKeepsPage
<1>3. CASE Streaming
  <2>1. Silent(wire) /\ ~ended /\ UNCHANGED <<ended, ui, conn>>
    BY <1>3, StreamingSteps, StreamingWrites DEF EndingInv, Early
  <2>2. CASE Silent(wire') /\ pc' # "finWaiting"
    BY <2>1, <2>2, WorkKeepsPage
  <2>3. CASE /\ pc' = "finWaiting" /\ Asked'
             /\ wire' = IF conn = "open" THEN wire \o Question ELSE wire
    <3>1. conn = "open" => wire' # <<>> /\ Ended' = Interrupt
      BY <1>0, <2>3, QuestionType, LastOnlyEnds, AddLast DEF Ended
    <3>2. conn' # "finished"
      BY <2>1 DEF PageInv
    <3>3. QED
      BY <2>1, <2>3, <3>1, <3>2 DEF PageInv
  <2>4. QED
    BY <1>3, <2>1, <2>2, <2>3, StreamingWrites
<1>4. CASE FinishWaiting
  <2>1. /\ pc = "finWaiting" /\ pc' = "close" /\ ended' /\ ~ended
        /\ UNCHANGED <<pending, tool, wire, ui, conn, failed>>
    BY <1>4 DEF FinishWaiting, client, counted, writes, EndingInv
  <2>2. msg'.status = "waiting"
    BY <1>0, <1>4, FinalizedMessage DEF FinishWaiting, MsgStatus
  <2>3. conn' # "finished"
    BY <2>1 DEF PageInv
  <2>4. QED
    BY <2>1, <2>2, <2>3 DEF PageInv, Asked, Ended, Verdict, Terminal
<1>5. ASSUME NEW c \in {Done, Error}, Send(<<c>>), ~ended, ended', pc' = "close",
             UNCHANGED <<pending, tool, ui, conn>>, failed' \/ msg'.status = c.type
      PROVE  PageInv'
  <2>1. /\ <<c>> \in Seq(Chunks) /\ c \in Terminal /\ c # Interrupt
        /\ wire' = IF conn = "open" THEN wire \o <<c>> ELSE wire
    BY <1>5, EndChunk
  <2>2. conn = "open" => wire' # <<>> /\ Ended' = c
    BY <1>0, <2>1, LastOnlyEnds, AddLast DEF Ended
  <2>3. \A i \in DOMAIN wire' : wire'[i] = Interrupt => Asked'
    <3>1. \A i \in DOMAIN wire' : wire'[i] = Interrupt => \E j \in DOMAIN wire : wire[j] = Interrupt
      <4>1. CASE conn = "open"
        BY <1>0, <2>1, <4>1, LastOnlyEnds, AddLast
      <4>2. CASE conn # "open"
        BY <2>1, <4>2
      <4>3. QED
        BY <4>1, <4>2
    <3>2. QED
      BY <1>5, <3>1 DEF PageInv, Asked
  <2>4. conn' # "finished"
    BY <1>5 DEF PageInv
  <2>5. QED
    BY <1>5, <2>1, <2>2, <2>3, <2>4 DEF PageInv, Verdict
<1>6. CASE FinishDone
  <2>1. ~ended
    BY <1>6 DEF FinishDone, EndingInv, Early
  <2>2. msg'.status = Done.type
    BY <1>0, <1>6, FinalizedMessage DEF FinishDone, MsgStatus, Done
  <2>3. QED
    BY <1>5, <1>6, <2>1, <2>2 DEF FinishDone, client
<1>7. CASE CatchError
  <2>1. ~ended
    BY <1>7 DEF CatchError, EndingInv
  <2>2. failed' \/ msg'.status = Error.type
    BY <1>0, <1>7, FinalizedMessage DEF CatchError, WriteThrows, MsgStatus, Error
  <2>3. QED
    BY <1>5, <1>7, <2>1, <2>2 DEF CatchError, client
<1>8. CASE FinalizeFails \/ CloseAgent
  <2>1. /\ UNCHANGED <<pending, tool, msg, wire, ended, ui, conn>> /\ (failed => failed')
        /\ pc' # "finWaiting"
    BY <1>8 DEF FinalizeFails, WriteThrows, CloseAgent, client, counted, writes
  <2>2. QED
    BY <2>1, EndKeepsPage
<1>9. CASE Crash
  <2>1. /\ wire' = <<>> /\ conn' # "open" /\ pc' = "down"
        /\ UNCHANGED <<pending, tool, msg, ended, failed>>
        /\ conn' = "finished" => conn = "finished" /\ ui' = ui
    BY <1>9 DEF Crash, client, counted, writes
  <2>2. QED
    BY <2>1 DEF PageInv, Asked
<1>10. CASE ReadChunk
  <2>1. /\ conn = "open" /\ wire # <<>> /\ wire' = Tail(wire) /\ ui' = Shown(ui, Head(wire))
        /\ UNCHANGED <<pc, pending, tool, msg, ended, conn, failed>>
    BY <1>10 DEF ReadChunk, server, counted, writes
  <2>2. Head(wire) \in Chunks
    BY <1>0, <2>1, HeadTailProperties
  <2>3. IF wire' = <<>> THEN Head(wire) = Ended ELSE Ended' = Ended
    BY <1>0, <2>1, RemoveFirst DEF Ended
  <2>4. \A i \in DOMAIN wire' : wire'[i] = Interrupt => Asked'
    BY <1>0, <2>1, RemoveFirst DEF PageInv, Asked
  <2>5. Ended = Interrupt => Asked
    <3>1. Len(wire) \in DOMAIN wire
      BY <1>0, <2>1, LenProperties, EmptySeq
    <3>2. QED
      BY <3>1 DEF PageInv, Ended
  <2>6. CASE wire' # <<>>
    BY <2>1, <2>3, <2>4, <2>6 DEF PageInv, Asked, Verdict
  <2>7. CASE wire' = <<>> /\ Ended = Interrupt
    <3>1. ui'.status = "waiting" /\ ui'.form /\ Asked'
      BY <1>0, <2>1, <2>2, <2>3, <2>5, <2>7, ShownView DEF Asked
    <3>2. QED
      BY <2>1, <2>4, <2>7, <3>1 DEF PageInv, Verdict
  <2>8. CASE wire' = <<>> /\ Ended \in {Done, Error}
    <3>1. ui'.status = Ended.type /\ Ended.type \in {"done", "error"} /\ Ended # Interrupt
      BY <1>0, <2>1, <2>2, <2>3, <2>8, ShownView DEF Done, Error, Interrupt
    <3>2. QED
      BY <2>1, <2>4, <2>8, <3>1 DEF PageInv, Verdict
  <2>9. CASE wire' = <<>> /\ Ended \notin Terminal
    BY <2>1, <2>4, <2>9 DEF PageInv, Terminal
  <2>10. QED
    BY <2>6, <2>7, <2>8, <2>9 DEF Terminal
<1>11. CASE FinishReading
  <2>1. /\ conn = "open" /\ wire = <<>> /\ ended /\ wire' = wire /\ conn' = "finished"
        /\ UNCHANGED <<pc, pending, tool, msg, ended, failed>>
    BY <1>11 DEF FinishReading, server, counted, writes
  <2>2. /\ ui.status \in {"done", "error"} \/ (ui.status = "waiting" /\ ui.form /\ Asked)
        /\ failed \/ ui.status = msg.status
    BY <2>1 DEF PageInv
  <2>3. ui'.status = ui.status /\ ui'.form = ui.form
    BY <1>0, <1>11, <2>2 DEF FinishReading, View
  <2>4. QED
    BY <2>1, <2>2, <2>3 DEF PageInv, Asked
<1>12. CASE Abort \/ Reload
  <2>1. wire' = <<>> /\ conn' \in {"aborted", "restored"}
    BY <1>12 DEF Abort, Reload
  <2>2. QED
    BY <2>1 DEF PageInv
<1>13. CASE UNCHANGED vars
  BY <1>13, EndKeepsPage DEF vars, server, client, counted, writes
<1>14. QED
  BY <1>1, <1>2, <1>3, <1>4, <1>6, <1>7, <1>8, <1>9, <1>10, <1>11, <1>12, <1>13
  DEF Next, Ending, Reading, Streaming

LEMMA AlwaysPage == Spec => []PageInv
<1>1. Init => PageInv
  BY DEF Init, PageInv
<1>2. QED
  BY <1>1, NextPage, TypeCorrect, AlwaysEnding, AlwaysMessage, PTL DEF Spec

(* A page that has read a whole response agrees with the history about how  *)
(* the turn ended, unless a history write threw.                            *)
THEOREM PageAndHistoryAgree == Spec => []PageAgreesWithHistory
<1>1. PageInv => PageAgreesWithHistory
  BY DEF PageInv, PageAgreesWithHistory
<1>2. QED
  BY <1>1, AlwaysPage, PTL

(* A page that shows the form after a whole response asks about an          *)
(* interrupt that the graph waits for, or about a tool's error that was     *)
(* mistaken for one.                                                        *)
THEOREM FormsCanBeAnswered == Spec => []FormsAreAnswerable
<1>1. PageInv => FormsAreAnswerable
  BY DEF PageInv, FormsAreAnswerable, Asked
<1>2. QED
  BY <1>1, AlwaysPage, PTL
=============================================================================
