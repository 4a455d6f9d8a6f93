--------------------------- MODULE ChatThreadProofs ---------------------------
(***************************************************************************)
(* Proofs about ChatThread for every number of requests, crashes,          *)
(* deletions and failing saves.  What holds of overlapping requests        *)
(* follows from two facts: while no save has failed nobody is at work when *)
(* the checkpoint is torn, and a finished message has no request left that *)
(* could write it.  The rest is about requests that follow one another:    *)
(* the one at work is the last that was started, and its copy of the       *)
(* checkpoint is no older than the file.                                   *)
(***************************************************************************)
EXTENDS ChatThread, TLAPS

LEMMA Distinct ==
  /\ Missing # Torn /\ None \notin Requests
  /\ \A m \in Memory : m # Missing /\ m # Torn
  /\ \A h \in Messages : h # Missing /\ h # Torn
BY ThreadAssumption

LEMMA ConversationType == history \in Messages \cup {Missing, Torn} => Conversation \in Messages
BY DEF Conversation, Persisted, Remembered, Messages, Statuses

LEMMA UpdateType ==
  ASSUME history \in Messages \cup {Missing, Torn}, NEW r \in Requests, NEW status \in Statuses,
         Update(r, status)
  PROVE  /\ history' \in Messages /\ history'[r] = status
         /\ \A q \in Requests \ {r} : history'[q] = Conversation[q]
BY ConversationType DEF Update, Messages

\* A save writes a memory.
LEMMA SaveType ==
  ASSUME mem \in [Requests -> Memory], NEW r \in Requests, NEW m \in Memory, Save(r, m)
  PROVE  /\ checkpoint' = m /\ mem' \in [Requests -> Memory] /\ mem'[r] = m
         /\ \A q \in Requests \ {r} : mem'[q] = mem[q]
BY DEF Save

\* So does one that is tried: it keeps the answers and drops the pause or sets
\* the request's own.
LEMMA SavedType ==
  ASSUME mem \in [Requests -> Memory], NEW r \in Requests, NEW m \in Saved(r)
  PROVE  /\ m \in Memory /\ mem[r].answers \subseteq m.answers
         /\ m.paused \in {None, r} /\ (m.paused = r => pc[r] = "running")
<1>1. \A p \in Requests \cup {None} :
        /\ [mem[r] EXCEPT !.paused = p] \in Memory
        /\ [mem[r] EXCEPT !.paused = p].answers = mem[r].answers
        /\ [mem[r] EXCEPT !.paused = p].paused = p
  BY DEF Memory
<1>2. CASE m = [answers |-> mem[r].answers \cup {r}, paused |-> None]
  BY <1>2, Distinct DEF Memory
<1>3. CASE \E p \in {None} \cup {r} : m = [mem[r] EXCEPT !.paused = p] /\ (p = None \/ pc[r] = "running")
  BY <1>1, <1>3, Distinct
<1>4. QED
  BY <1>2, <1>3 DEF Saved

LEMMA InitType == Init => TypeOK
<1> SUFFICES ASSUME Init PROVE TypeOK
  OBVIOUS
<1>1. workload.crashes \in Nat /\ workload.deletes \in Nat /\ workload.failures \in Nat
  BY ThreadAssumption DEF Init
<1>2. 0 \in 0..workload.crashes /\ 0 \in 0..workload.deletes /\ 0 \in 0..workload.failures
  BY <1>1
<1>3. EmptyMemory \in Memory
  BY DEF EmptyMemory, Memory
<1>4. QED
  BY <1>2, <1>3 DEF Init, TypeOK, Stages

LEMMA NextType == TypeOK /\ [Next]_vars => TypeOK'
<1> SUFFICES ASSUME TypeOK, [Next]_vars PROVE TypeOK'
  OBVIOUS
<1>0. workload.crashes \in Nat /\ workload.deletes \in Nat /\ workload.failures \in Nat
  BY ThreadAssumption DEF TypeOK
<1> USE DEF TypeOK, Stages, Goto, Arrives, limits
<1>1. ASSUME NEW r \in Requests, NEW k \in {"chat", "resume"}, Record(r, k) PROVE TypeOK'
  <2>1. history' \in Messages \cup {Missing, Torn}
    BY <1>1, UpdateType DEF Record, Statuses
  <2>2. QED
    BY <1>0, <1>1, <2>1 DEF Record
<1>2. ASSUME NEW r \in Requests, Open(r) PROVE TypeOK'
  <2>1. mem' \in [Requests -> Memory]
    BY <1>2 DEF Open, Memory, EmptyMemory
  <2>2. QED
    BY <1>0, <1>2, <2>1 DEF Open
<1>3. ASSUME NEW r \in Requests, Progress(r) PROVE TypeOK'
  <2>1. [mem[r] EXCEPT !.paused = None] \in Memory
    BY DEF Memory
  <2>2. checkpoint' \in Memory /\ mem' \in [Requests -> Memory]
    BY <1>3, <2>1, SaveType DEF Progress
  <2>3. history' \in Messages
    BY <1>3, UpdateType DEF Progress, Statuses
  <2>4. QED
    BY <1>0, <1>3, <2>2, <2>3 DEF Progress
<1>4. ASSUME NEW r \in Requests, Pause(r) PROVE TypeOK'
  <2>1. [mem[r] EXCEPT !.paused = r] \in Memory
    BY DEF Memory
  <2>2. checkpoint' \in Memory /\ mem' \in [Requests -> Memory]
    BY <1>4, <2>1, SaveType DEF Pause
  <2>3. QED
    BY <1>0, <1>4, <2>2 DEF Pause
<1>5. ASSUME NEW r \in Requests, Execute(r) PROVE TypeOK'
  BY <1>0, <1>5 DEF Execute, Memory
<1>6. ASSUME NEW r \in Requests, SaveResult(r) PROVE TypeOK'
  <2>1. [mem[r] EXCEPT !.paused = None] \in Memory
    BY DEF Memory
  <2>2. checkpoint' \in Memory /\ mem' \in [Requests -> Memory]
    BY <1>6, <2>1, SaveType DEF SaveResult
  <2>3. QED
    BY <1>0, <1>6, <2>2 DEF SaveResult
<1>7. ASSUME NEW r \in Requests, AnswerTurn(r) PROVE TypeOK'
  <2>1. [answers |-> mem[r].answers \cup {r}, paused |-> None] \in Memory
    BY DEF Memory
  <2>2. checkpoint' \in Memory /\ mem' \in [Requests -> Memory]
    BY <1>7, <2>1, SaveType DEF AnswerTurn
  <2>3. QED
    BY <1>0, <1>7, <2>2 DEF AnswerTurn
<1>8. ASSUME NEW r \in Requests, StreamFails(r) PROVE TypeOK'
  BY <1>0, <1>8 DEF StreamFails
<1>9. ASSUME NEW r \in Requests, Finalize(r) PROVE TypeOK'
  <2>1. history' \in Messages \cup {Missing, Torn}
    BY <1>9, UpdateType DEF Finalize, Statuses
  <2>2. QED
    BY <1>0, <1>9, <2>1 DEF Finalize
<1>10. CASE Delete
  BY <1>0, <1>10 DEF Delete
<1>11. CASE Crash
  <2>1. pc' \in [Requests -> Stages]
    BY <1>11 DEF Crash
  <2>2. QED
    BY <1>0, <1>11, <2>1 DEF Crash
<1>12. CASE UNCHANGED vars
  BY <1>12 DEF vars
<1>13. ASSUME NEW r \in Requests, SaveFails(r) PROVE TypeOK'
  <2>1. PICK m \in Saved(r) : mem' = [mem EXCEPT ![r] = m]
    BY <1>13 DEF SaveFails
  <2>2. m \in Memory
    BY <2>1, SavedType
  <2>3. QED
    BY <1>0, <1>13, <2>1, <2>2 DEF SaveFails
<1>14. ASSUME NEW r \in Requests, SaveAgain(r) PROVE TypeOK'
  <2>1. checkpoint' \in Memory /\ mem' \in [Requests -> Memory]
    BY <1>14, SaveType DEF SaveAgain
  <2>2. QED
    BY <1>0, <1>14, <2>1 DEF SaveAgain
<1>15. QED
  BY <1>1, <1>2, <1>3, <1>4, <1>5, <1>6, <1>7, <1>8, <1>9, <1>10, <1>11, <1>12, <1>13, <1>14 DEF Next

-----------------------------------------------------------------------------
(* What every step of a request has in common: it is at work, and what it   *)
(* writes to the checkpoint is the memory it then has.                      *)
Works(r) ==
  Open(r) \/ Progress(r) \/ Pause(r) \/ Execute(r) \/ SaveResult(r) \/ AnswerTurn(r)
    \/ SaveFails(r) \/ SaveAgain(r) \/ StreamFails(r) \/ Finalize(r)

LEMMA WorkFacts ==
  ASSUME TypeOK, NEW r \in Requests, Works(r)
  PROVE  /\ r \in Active /\ pc[r] \notin {"new", "over"}
         /\ pc'[r] # "new" /\ \A q \in Requests \ {r} : pc'[q] = pc[q] /\ mem'[q] = mem[q]
         /\ Active' \subseteq Active
         /\ UNCHANGED <<last, overlapped, crashes, deletes, workload>>
         /\ failures \in Nat /\ failures' \in Nat /\ failures <= failures'
<1>0. failures \in Nat
  BY ThreadAssumption DEF TypeOK
<1>1. CASE SaveFails(r)
  BY <1>0, <1>1 DEF SaveFails, Active, Goto, TypeOK
<1>2. CASE ~SaveFails(r)
  BY <1>0, <1>2 DEF Works, Open, Progress, Pause, Execute, SaveResult, AnswerTurn, SaveAgain,
     StreamFails, Finalize, Save, Active, Goto, limits, TypeOK
<1>3. QED
  BY <1>1, <1>2

LEMMA NextCases ==
  ASSUME [Next]_vars
  PROVE  \/ \E r \in Requests, k \in {"chat", "resume"} : Record(r, k)
         \/ \E r \in Requests : Works(r)
         \/ Delete \/ Crash \/ UNCHANGED vars
BY DEF Next, Works

-----------------------------------------------------------------------------
(* A message that was finished belongs to a request that is over.           *)
FinishedInv == \A r \in settled : pc[r] = "over" /\ history \in Messages /\ history[r] = "done"

LEMMA NextFinished == TypeOK /\ FinishedInv /\ [Next]_vars => FinishedInv'
<1> SUFFICES ASSUME TypeOK, FinishedInv, [Next]_vars PROVE FinishedInv'
  OBVIOUS
<1>0. history \in Messages => Conversation = history
  BY Distinct DEF Conversation, Persisted
<1>1. ASSUME NEW r \in Requests, NEW k \in {"chat", "resume"}, Record(r, k) PROVE FinishedInv'
  <2>1. pc[r] = "new" /\ \A q \in Requests \ {r} : pc'[q] = pc[q]
    BY <1>1 DEF Record, Goto, TypeOK
  <2>2. CASE UNCHANGED history
    BY <1>1, <2>1, <2>2 DEF Record, FinishedInv, TypeOK
  <2>3. CASE Update(r, "updating")
    BY <1>0, <1>1, <2>1, <2>3, UpdateType DEF Record, FinishedInv, TypeOK, Statuses
  <2>4. QED
    BY <1>1, <2>2, <2>3 DEF Record
<1>2. ASSUME NEW r \in Requests, Works(r) PROVE FinishedInv'
  <2>1. pc[r] # "over" /\ \A q \in Requests \ {r} : pc'[q] = pc[q]
    BY <1>2, WorkFacts
  <2>2. CASE UNCHANGED <<history, settled>>
    BY <2>1, <2>2 DEF FinishedInv, TypeOK
  <2>3. CASE Progress(r)
    BY <1>0, <2>1, <2>3, UpdateType DEF Progress, FinishedInv, TypeOK, Statuses, limits
  <2>4. CASE Finalize(r) /\ Readable
    <3>1. PICK status \in Statuses : /\ Update(r, status)
                                     /\ pc[r] = "answered" => status = "done"
      BY <2>4 DEF Finalize, Statuses
    <3>2. pc'[r] = "over" /\ (r \in settled' => r \in settled \/ pc[r] = "answered")
          /\ settled' \subseteq settled \cup {r}
      BY <2>4 DEF Finalize, Goto, TypeOK
    <3>3. QED
      BY <1>0, <2>1, <3>1, <3>2, UpdateType DEF FinishedInv, TypeOK
  <2>5. QED
    BY <1>2, <2>2, <2>3, <2>4
    DEF Works, Open, Pause, Execute, SaveResult, AnswerTurn, SaveFails, SaveAgain, StreamFails, Finalize
<1>3. CASE Delete
  BY <1>3 DEF Delete, FinishedInv
<1>4. CASE Crash
  BY <1>4 DEF Crash, FinishedInv, Active, TypeOK
<1>5. CASE UNCHANGED vars
  BY <1>5 DEF vars, FinishedInv
<1>6. QED
  BY <1>1, <1>2, <1>3, <1>4, <1>5, NextCases

-----------------------------------------------------------------------------
(* Without an overlap, the request at work is the last one that started.    *)
OneAtWork == ~overlapped => \A r \in Active : r = last

LEMMA NextOne == TypeOK /\ OneAtWork /\ [Next]_vars => OneAtWork'
<1> SUFFICES ASSUME TypeOK, OneAtWork, [Next]_vars PROVE OneAtWork'
  OBVIOUS
<1>1. ASSUME NEW r \in Requests, NEW k \in {"chat", "resume"}, Record(r, k) PROVE OneAtWork'
  BY <1>1 DEF Record, Arrives, Goto, OneAtWork, Active, TypeOK
<1>2. ASSUME NEW r \in Requests, Works(r) PROVE OneAtWork'
  BY <1>2, WorkFacts DEF OneAtWork
<1>3. CASE Delete
  BY <1>3 DEF Delete, Arrives, OneAtWork, Active
<1>4. CASE Crash
  BY <1>4 DEF Crash, OneAtWork, Active
<1>5. CASE UNCHANGED vars
  BY <1>5 DEF vars, OneAtWork, Active
<1>6. QED
  BY <1>1, <1>2, <1>3, <1>4, <1>5, NextCases

-----------------------------------------------------------------------------
(* While no save has failed, and until requests overlap, whoever is at work *)
(* has a checkpoint that is not torn, unless the torn one is its own.       *)
WorkersRead ==
  /\ failures = 0 => \A r \in Requests : pc[r] # "unsaved"
  /\ failures = 0 \/ ~overlapped => \A r \in Active : pc[r] # "unsaved" => checkpoint # Torn

LEMMA InitWorkers == Init => WorkersRead
BY DEF Init, WorkersRead, Active

LEMMA NextWorkers == TypeOK /\ OneAtWork /\ WorkersRead /\ [Next]_vars => WorkersRead'
<1> SUFFICES ASSUME TypeOK, OneAtWork, WorkersRead, [Next]_vars PROVE WorkersRead'
  OBVIOUS
<1>1. ASSUME NEW r \in Requests, NEW k \in {"chat", "resume"}, Record(r, k) PROVE WorkersRead'
  BY <1>1 DEF Record, Arrives, Goto, Readable, Active, WorkersRead, TypeOK
<1>2. ASSUME NEW r \in Requests, SaveFails(r) PROVE WorkersRead'
  <2>1. /\ failures \in Nat /\ failures' = failures + 1 /\ UNCHANGED <<overlapped, last>>
        /\ r \in Active /\ Active' \subseteq Active /\ pc'[r] = "unsaved"
    BY <1>2, WorkFacts DEF SaveFails, Goto, Works, TypeOK
  <2>2. QED
    BY <2>1 DEF WorkersRead, OneAtWork
<1>3. ASSUME NEW r \in Requests, Works(r), ~SaveFails(r) PROVE WorkersRead'
  <2>1. /\ r \in Active /\ Active' \subseteq Active /\ pc'[r] \in {pc[r]} \cup (Stages \ {"unsaved"})
        /\ UNCHANGED <<failures, overlapped>> /\ \A q \in Requests \ {r} : pc'[q] = pc[q]
    BY <1>3, WorkFacts DEF Works, Open, Progress, Pause, Execute, SaveResult, AnswerTurn, SaveAgain,
       StreamFails, Finalize, Goto, Stages, limits, TypeOK
  <2>2. checkpoint' = checkpoint \/ checkpoint' # Torn
    <3>1. mem' \in [Requests -> Memory]
      BY NextType DEF TypeOK
    <3>2. checkpoint' = checkpoint \/ checkpoint' = mem'[r]
      BY <1>3 DEF Works, Open, Progress, Pause, Execute, SaveResult, AnswerTurn, SaveAgain,
         StreamFails, Finalize, Save, TypeOK
    <3>3. QED
      BY <3>1, <3>2, Distinct
  <2>3. pc'[r] = "unsaved" => pc[r] = "unsaved"
    BY <2>1
  <2>4. CASE pc'[r] = "unsaved" \/ pc[r] # "unsaved" \/ r \notin Active'
    BY <2>1, <2>2, <2>3, <2>4 DEF WorkersRead, Active
  <2>5. CASE pc[r] = "unsaved" /\ pc'[r] # "unsaved" /\ r \in Active'
    BY <1>3, <2>5 DEF Works, Open, Progress, Pause, Execute, SaveResult, AnswerTurn, SaveAgain,
       StreamFails, Finalize, Goto, Active, TypeOK
  <2>6. QED
    BY <2>4, <2>5
<1>4. CASE Delete
  BY <1>4, Distinct DEF Delete, Arrives, WorkersRead, Active
<1>5. CASE Crash
  BY <1>5 DEF Crash, Active, WorkersRead, TypeOK
<1>6. CASE UNCHANGED vars
  BY <1>6 DEF vars, WorkersRead, Active
<1>7. QED
  BY <1>1, <1>2, <1>3, <1>4, <1>5, <1>6, NextCases

-----------------------------------------------------------------------------
(* Without an overlap, whoever saves next has every answered turn in its    *)
(* memory.                                                                  *)
MemoryInv ==
  ~overlapped =>
    /\ AnswersRemembered
    /\ \A r \in Requests :
         /\ pc[r] \in {"running", "executed", "unsaved"} => settled \subseteq mem[r].answers
         /\ pc[r] = "answered" =>
              checkpoint \in Memory /\ settled \cup {r} \subseteq checkpoint.answers

LEMMA NextMemory == TypeOK /\ WorkersRead /\ OneAtWork /\ MemoryInv /\ [Next]_vars => MemoryInv'
<1> SUFFICES ASSUME TypeOK, WorkersRead, OneAtWork, MemoryInv, [Next]_vars, ~overlapped'
             PROVE  MemoryInv'
  BY DEF MemoryInv
<1>1. ASSUME NEW r \in Requests, NEW k \in {"chat", "resume"}, Record(r, k) PROVE MemoryInv'
  BY <1>1 DEF Record, Arrives, Goto, MemoryInv, AnswersRemembered, TypeOK
<1>2. ASSUME NEW r \in Requests, Works(r) PROVE MemoryInv'
  <2>1. /\ r \in Active /\ \A q \in Requests \ {r} : pc'[q] = pc[q] /\ pc[q] \in {"new", "over"}
        /\ ~overlapped /\ (pc[r] # "unsaved" => checkpoint # Torn)
    BY <1>2, WorkFacts DEF OneAtWork, Active, WorkersRead
  <2>2. checkpoint \in Memory => checkpoint # Missing
    BY Distinct
  <2>3. CASE Open(r)
    BY <2>1, <2>2, <2>3 DEF Open, Goto, MemoryInv, AnswersRemembered, EmptyMemory, TypeOK, Memory, limits
  <2>4. ASSUME NEW m \in Memory, Save(r, m), UNCHANGED settled, settled \subseteq m.answers,
               pc'[r] = "answered" => r \in m.answers
        PROVE  MemoryInv'
    <3>1. checkpoint' = m /\ mem'[r] = m /\ m # Missing
      BY <2>4, SaveType, Distinct DEF TypeOK
    <3>2. QED
      BY <2>1, <2>4, <3>1 DEF MemoryInv, AnswersRemembered, TypeOK
  <2>5. CASE Progress(r) \/ Pause(r) \/ SaveResult(r)
    <3>1. \A p \in Requests \cup {None} :
            [mem[r] EXCEPT !.paused = p] \in Memory
            /\ [mem[r] EXCEPT !.paused = p].answers = mem[r].answers
      BY DEF TypeOK, Memory
    <3>2. settled \subseteq mem[r].answers /\ UNCHANGED settled /\ pc'[r] # "answered"
      BY <2>1, <2>5 DEF Progress, Pause, SaveResult, Goto, MemoryInv, limits, TypeOK
    <3>3. \E p \in Requests \cup {None} : Save(r, [mem[r] EXCEPT !.paused = p])
          \/ Save(r, [mem[r] EXCEPT !.paused = None])
      BY <2>5 DEF Progress, Pause, SaveResult
    <3>4. QED
      BY <2>4, <3>1, <3>2, <3>3
  <2>6. CASE Execute(r)
    BY <2>1, <2>6 DEF Execute, Goto, MemoryInv, AnswersRemembered, TypeOK, limits
  <2>7. CASE AnswerTurn(r)
    <3> DEFINE m == [answers |-> mem[r].answers \cup {r}, paused |-> None]
    <3>1. m \in Memory /\ r \in m.answers /\ settled \subseteq m.answers
      BY <2>1, <2>7 DEF AnswerTurn, MemoryInv, TypeOK, Memory
    <3>2. Save(r, m) /\ UNCHANGED settled
      BY <2>7 DEF AnswerTurn
    <3>3. QED
      BY <2>4, <3>1, <3>2
  <2>8. CASE StreamFails(r)
    BY <2>1, <2>8 DEF StreamFails, Goto, MemoryInv, AnswersRemembered, TypeOK, limits
  <2>9. CASE Finalize(r)
    BY <2>1, <2>2, <2>9 DEF Finalize, Goto, MemoryInv, AnswersRemembered, TypeOK, limits
  <2>10. CASE SaveFails(r)
    <3>1. PICK m \in Saved(r) : mem' = [mem EXCEPT ![r] = m]
      BY <2>10 DEF SaveFails
    <3>2. mem'[r] = m /\ mem[r].answers \subseteq m.answers
      BY <3>1, SavedType DEF TypeOK
    <3>3. settled \subseteq mem[r].answers /\ UNCHANGED settled /\ pc'[r] = "unsaved"
          /\ (checkpoint' = checkpoint \/ checkpoint' = Torn)
      BY <2>1, <2>10 DEF SaveFails, Goto, MemoryInv, TypeOK
    <3>4. QED
      BY <2>1, <3>2, <3>3 DEF MemoryInv, AnswersRemembered
  <2>11. CASE SaveAgain(r)
    <3>1. mem[r] \in Memory /\ Save(r, mem[r]) /\ UNCHANGED <<settled, pc>> /\ pc[r] = "unsaved"
      BY <2>11 DEF SaveAgain, TypeOK
    <3>2. settled \subseteq mem[r].answers
      BY <2>1, <3>1 DEF MemoryInv
    <3>3. QED
      BY <2>4, <3>1, <3>2
  <2>12. QED
    BY <1>2, <2>3, <2>5, <2>6, <2>7, <2>8, <2>9, <2>10, <2>11 DEF Works
<1>3. CASE Delete
  BY <1>3, Distinct DEF Delete, Arrives, MemoryInv, AnswersRemembered, Active
<1>4. CASE Crash
  BY <1>4 DEF Crash, MemoryInv, AnswersRemembered, Active, TypeOK
<1>5. CASE UNCHANGED vars
  BY <1>5 DEF vars, MemoryInv, AnswersRemembered
<1>6. QED
  BY <1>1, <1>2, <1>3, <1>4, <1>5, NextCases

-----------------------------------------------------------------------------
(* A request that has not paused yet is not waited for, and its call has    *)
(* not run.  Without an overlap the call that a request is about to resume  *)
(* has run at most once per crash and failing save.                         *)
UnpausedInv ==
  \A r \in Requests : pc[r] \in {"new", "recorded", "running", "executed"} =>
    /\ ran[r] = 0
    /\ checkpoint \in Memory => checkpoint.paused # r
    /\ \A q \in Requests : mem[q].paused # r

LEMMA InitUnpaused == Init => UnpausedInv
BY Distinct DEF Init, UnpausedInv, EmptyMemory

LEMMA NextUnpaused == TypeOK /\ UnpausedInv /\ [Next]_vars => UnpausedInv'
<1> SUFFICES ASSUME TypeOK, UnpausedInv, [Next]_vars PROVE UnpausedInv'
  OBVIOUS
<1>1. ASSUME NEW r \in Requests, NEW k \in {"chat", "resume"}, Record(r, k) PROVE UnpausedInv'
  BY <1>1 DEF Record, Goto, UnpausedInv, TypeOK
<1>2. ASSUME NEW r \in Requests, Works(r) PROVE UnpausedInv'
  <2>1. /\ pc[r] \notin {"new", "over"} /\ pc'[r] # "new"
        /\ \A q \in Requests \ {r} : pc'[q] = pc[q] /\ mem'[q] = mem[q]
    BY <1>2, WorkFacts
  <2>2. CASE Open(r)
    <3>1. mem'[r].paused = None \/ (checkpoint \in Memory /\ mem'[r] = checkpoint)
      BY <2>2 DEF Open, EmptyMemory, TypeOK
    <3>2. UNCHANGED <<checkpoint, ran>> /\ pc[r] = "recorded"
      BY <2>2 DEF Open
    <3>3. QED
      BY <2>1, <3>1, <3>2, Distinct DEF UnpausedInv, TypeOK
  <2>3. ASSUME NEW m \in Memory, Save(r, m), UNCHANGED ran,
               m.paused \in {None, r, mem[r].paused}, m.paused = r => pc'[r] = "paused",
               pc[r] \in {"running", "executed"}
        PROVE  UnpausedInv'
    <3>1. checkpoint' = m /\ mem'[r] = m
      BY <2>3, SaveType DEF TypeOK
    <3>2. QED
      BY <2>1, <2>3, <3>1, Distinct DEF UnpausedInv, TypeOK
  <2>4. CASE Progress(r) \/ SaveResult(r)
    <3>1. [mem[r] EXCEPT !.paused = None] \in Memory /\ [mem[r] EXCEPT !.paused = None].paused = None
      BY DEF TypeOK, Memory
    <3>2. QED
      BY <2>3, <2>4, <3>1, Distinct DEF Progress, SaveResult, limits
  <2>5. CASE Pause(r)
    <3>1. [mem[r] EXCEPT !.paused = r] \in Memory /\ [mem[r] EXCEPT !.paused = r].paused = r
      BY DEF TypeOK, Memory
    <3>2. pc'[r] = "paused"
      BY <2>5 DEF Pause, Goto, TypeOK
    <3>3. QED
      BY <2>3, <2>5, <3>1, <3>2 DEF Pause
  <2>6. CASE AnswerTurn(r)
    <3> DEFINE m == [answers |-> mem[r].answers \cup {r}, paused |-> None]
    <3>1. m \in Memory /\ m.paused = None
      BY DEF TypeOK, Memory
    <3>2. Save(r, m) /\ pc[r] = "running" /\ UNCHANGED ran
      BY <2>6 DEF AnswerTurn
    <3> HIDE DEF m
    <3>3. QED
      BY <2>3, <3>1, <3>2, Distinct
  <2>7. CASE Execute(r)
    <3>1. mem[r].paused \in Requests /\ ran' = [ran EXCEPT ![mem[r].paused] = @ + 1]
          /\ UNCHANGED <<checkpoint, mem>> /\ pc[r] = "running"
      BY <2>7 DEF Execute, TypeOK, Memory
    <3>2. pc[mem[r].paused] \notin {"new", "recorded", "running", "executed"}
      BY <3>1 DEF UnpausedInv
    <3>3. mem[r].paused # r
      BY <3>1, <3>2
    <3>4. QED
      BY <2>1, <3>1, <3>2, <3>3 DEF UnpausedInv, TypeOK
  <2>8. CASE StreamFails(r) \/ Finalize(r)
    BY <2>1, <2>8 DEF StreamFails, Finalize, Goto, UnpausedInv, TypeOK, limits
  <2>9. CASE SaveFails(r)
    <3>1. PICK m \in Saved(r) : mem' = [mem EXCEPT ![r] = m]
      BY <2>9 DEF SaveFails
    <3>2. mem'[r] = m /\ m.paused \in {None, r}
      BY <3>1, SavedType DEF TypeOK
    <3>3. pc'[r] = "unsaved" /\ UNCHANGED ran /\ (checkpoint' = checkpoint \/ checkpoint' = Torn)
      BY <2>9 DEF SaveFails, Goto, TypeOK
    <3>4. QED
      BY <2>1, <3>2, <3>3, Distinct DEF UnpausedInv
  <2>10. CASE SaveAgain(r)
    <3>1. checkpoint' = mem[r] /\ mem' = mem /\ UNCHANGED <<ran, pc>>
      BY <2>10 DEF SaveAgain, Save, TypeOK
    <3>2. QED
      BY <3>1 DEF UnpausedInv
  <2>11. QED
    BY <1>2, <2>2, <2>4, <2>5, <2>6, <2>7, <2>8, <2>9, <2>10 DEF Works
<1>3. CASE Delete
  BY <1>3, Distinct DEF Delete, UnpausedInv
<1>4. CASE Crash
  BY <1>4, Distinct DEF Crash, UnpausedInv, TypeOK
<1>5. CASE UNCHANGED vars
  BY <1>5 DEF vars, UnpausedInv
<1>6. QED
  BY <1>1, <1>2, <1>3, <1>4, <1>5, NextCases

Executed == \E r \in Requests : pc[r] = "executed"
OnceInv ==
  ~overlapped =>
    /\ \A r \in Requests : ran[r] <= 1 + crashes + failures
    /\ \A r \in Requests : pc[r] \in {"running", "unsaved"} /\ mem[r].paused # None =>
         ran[mem[r].paused] <= crashes + failures
    /\ checkpoint \in Memory /\ checkpoint.paused # None /\ ~Executed =>
         ran[checkpoint.paused] <= crashes + failures

LEMMA InitOnce == Init => OnceInv
BY Distinct DEF Init, OnceInv, EmptyMemory

LEMMA NextOnce == TypeOK /\ OneAtWork /\ UnpausedInv /\ OnceInv /\ [Next]_vars => OnceInv'
<1> SUFFICES ASSUME TypeOK, OneAtWork, UnpausedInv, OnceInv, [Next]_vars, ~overlapped'
             PROVE  OnceInv'
  BY DEF OnceInv
<1>0. crashes \in Nat /\ failures \in Nat /\ \A r \in Requests : ran[r] \in Nat
  BY ThreadAssumption DEF TypeOK
<1>1. ASSUME NEW r \in Requests, NEW k \in {"chat", "resume"}, Record(r, k) PROVE OnceInv'
  BY <1>1 DEF Record, Arrives, Goto, OnceInv, Executed, TypeOK
<1>2. ASSUME NEW r \in Requests, Works(r) PROVE OnceInv'
  <2>1. /\ ~overlapped /\ UNCHANGED crashes
        /\ \A q \in Requests \ {r} : pc'[q] = pc[q] /\ mem'[q] = mem[q] /\ pc[q] \in {"new", "over"}
    BY <1>2, WorkFacts DEF OneAtWork, Active
  <2>2. Executed <=> pc[r] = "executed"
    BY <2>1 DEF Executed
  <2>3. Executed' <=> pc'[r] = "executed"
    BY <2>1 DEF Executed
  <2>4. CASE Open(r)
    <3>1. mem'[r].paused = None \/ (checkpoint \in Memory /\ mem'[r] = checkpoint)
      BY <2>4 DEF Open, EmptyMemory, TypeOK
    <3>2. UNCHANGED <<checkpoint, ran, failures>> /\ pc[r] = "recorded" /\ pc'[r] = "running"
      BY <2>4 DEF Open, Goto, TypeOK, limits
    <3>3. QED
      BY <2>1, <2>2, <2>3, <3>1, <3>2 DEF OnceInv
  <2>5. ASSUME NEW m \in Memory, Save(r, m), UNCHANGED <<ran, failures>>, pc[r] # "unsaved", m.paused \in {None, r},
               m.paused = r => pc[r] = "running"
        PROVE  OnceInv'
    <3>1. checkpoint' = m /\ mem'[r] = m
      BY <2>5, SaveType DEF TypeOK
    <3>2. m.paused = r => ran[r] <= crashes + failures
      BY <1>0, <2>5 DEF UnpausedInv
    <3>3. QED
      BY <2>1, <2>5, <3>1, <3>2 DEF OnceInv
  <2>6. CASE Progress(r) \/ SaveResult(r)
    <3>1. [mem[r] EXCEPT !.paused = None] \in Memory /\ [mem[r] EXCEPT !.paused = None].paused = None
      BY DEF TypeOK, Memory
    <3>2. QED
      BY <2>5, <2>6, <3>1, Distinct DEF Progress, SaveResult, limits
  <2>7. CASE Pause(r)
    <3>1. [mem[r] EXCEPT !.paused = r] \in Memory /\ [mem[r] EXCEPT !.paused = r].paused = r
      BY DEF TypeOK, Memory
    <3>2. QED
      BY <2>5, <2>7, <3>1 DEF Pause, limits
  <2>8. CASE AnswerTurn(r)
    <3> DEFINE m == [answers |-> mem[r].answers \cup {r}, paused |-> None]
    <3>1. m \in Memory /\ m.paused = None
      BY DEF TypeOK, Memory
    <3>2. Save(r, m) /\ UNCHANGED <<ran, failures>> /\ pc[r] # "unsaved"
      BY <2>8 DEF AnswerTurn, limits
    <3> HIDE DEF m
    <3>3. QED
      BY <2>5, <3>1, <3>2, Distinct
  <2>9. CASE Execute(r)
    <3>1. /\ mem[r].paused \in Requests /\ ran' = [ran EXCEPT ![mem[r].paused] = @ + 1]
          /\ pc[r] = "running" /\ pc'[r] = "executed" /\ UNCHANGED failures
      BY <2>9 DEF Execute, TypeOK, Memory, Goto, limits
    <3>2. ran[mem[r].paused] <= crashes + failures
      BY <2>1, <3>1, Distinct DEF OnceInv
    <3>3. \A q \in Requests : ran'[q] <= 1 + crashes + failures
      BY <1>0, <2>1, <3>1, <3>2 DEF OnceInv, TypeOK
    <3>4. QED
      BY <2>1, <2>3, <3>1, <3>3 DEF OnceInv
  <2>10. CASE StreamFails(r) \/ Finalize(r)
    <3>1. UNCHANGED <<checkpoint, mem, ran, failures>> /\ pc[r] # "executed"
          /\ pc'[r] \notin {"running", "unsaved"}
      BY <2>10 DEF StreamFails, Finalize, Goto, TypeOK, limits
    <3>2. QED
      BY <2>1, <2>2, <3>1 DEF OnceInv
  <2>11. CASE SaveFails(r)
    <3>1. PICK m \in Saved(r) : mem' = [mem EXCEPT ![r] = m]
      BY <2>11 DEF SaveFails
    <3>2. mem'[r] = m /\ m.paused \in {None, r} /\ (m.paused = r => pc[r] = "running")
      BY <3>1, SavedType DEF TypeOK
    <3>3. pc'[r] = "unsaved" /\ UNCHANGED ran /\ checkpoint' \in {checkpoint, Torn}
          /\ failures' = failures + 1
      BY <2>11 DEF SaveFails, Goto, TypeOK
    <3>4. m.paused = r /\ m.paused # None => ran[r] = 0
      BY <3>2 DEF UnpausedInv
    <3>5. /\ \A q \in Requests : ran'[q] <= crashes' + failures'
          /\ \A q \in Requests : ran'[q] <= 1 + crashes' + failures'
      BY <1>0, <2>1, <3>3 DEF OnceInv
    <3>6. \A c \in Memory : c.paused \in Requests \cup {None}
      BY DEF Memory
    <3>7. \A q \in Requests \ {r} : pc'[q] \notin {"running", "unsaved"}
      BY <2>1
    <3>8. QED
      BY <3>2, <3>3, <3>5, <3>6, <3>7, Distinct DEF OnceInv
  <2>12. CASE SaveAgain(r)
    <3>1. checkpoint' = mem[r] /\ mem' = mem /\ UNCHANGED <<ran, pc, failures>> /\ pc[r] = "unsaved"
      BY <2>12 DEF SaveAgain, Save, TypeOK, limits
    <3>2. QED
      BY <2>1, <3>1 DEF OnceInv
  <2>13. QED
    BY <1>2, <2>4, <2>6, <2>7, <2>8, <2>9, <2>10, <2>11, <2>12 DEF Works
<1>3. CASE Delete
  BY <1>3, Distinct DEF Delete, Arrives, OnceInv, Active
<1>4. CASE Crash
  <2>1. /\ ~overlapped /\ crashes' = crashes + 1 /\ UNCHANGED <<ran, mem, failures>>
        /\ checkpoint' \in {checkpoint, Torn}
        /\ \A r \in Requests : pc'[r] \notin {"running", "unsaved"}
    BY <1>4 DEF Crash, Active, TypeOK
  <2>2. \A r \in Requests : ran[r] <= crashes' + failures'
    BY <1>0, <2>1 DEF OnceInv
  <2>3. checkpoint' \in Memory => checkpoint'.paused \in Requests \cup {None}
    BY DEF Memory
  <2>4. \A r \in Requests : ran'[r] <= 1 + crashes' + failures'
    BY <1>0, <2>1, <2>2
  <2>5. QED
    BY <2>1, <2>2, <2>3, <2>4 DEF OnceInv
<1>5. CASE UNCHANGED vars
  BY <1>5 DEF vars, OnceInv, Executed
<1>6. QED
  BY <1>1, <1>2, <1>3, <1>4, <1>5, NextCases

-----------------------------------------------------------------------------
(* A message that waits belongs to a request that is over; without an       *)
(* overlap nobody has been at work since, so its interrupt is still saved.  *)
WaitersInv == \A r \in Requests : history \in Messages /\ history[r] = "waiting" => pc[r] = "over"
PendingInv ==
  ~overlapped =>
    /\ WaitingIsPending
    /\ \A r \in Requests : pc[r] = "paused" => checkpoint \in Memory /\ checkpoint.paused = r

LEMMA InitWaiters == Init => WaitersInv /\ PendingInv
BY Distinct DEF Init, WaitersInv, PendingInv, WaitingIsPending

LEMMA NextWaiters == TypeOK /\ WaitersInv /\ [Next]_vars => WaitersInv'
<1> SUFFICES ASSUME TypeOK, WaitersInv, [Next]_vars PROVE WaitersInv'
  OBVIOUS
<1>0. Conversation \in Messages
      /\ \A r \in Requests : Conversation[r] = "waiting" => pc[r] = "over"
  BY Distinct, ConversationType DEF Conversation, Persisted, Remembered, TypeOK, WaitersInv
<1>1. ASSUME NEW r \in Requests, NEW k \in {"chat", "resume"}, Record(r, k) PROVE WaitersInv'
  <2>1. \A q \in Requests : pc[q] = "over" => pc'[q] = "over"
    BY <1>1 DEF Record, Goto, TypeOK
  <2>2. CASE UNCHANGED history
    BY <2>1, <2>2 DEF WaitersInv
  <2>3. CASE Update(r, "updating")
    BY <1>0, <2>1, <2>3, UpdateType DEF WaitersInv, TypeOK, Statuses
  <2>4. QED
    BY <1>1, <2>2, <2>3 DEF Record
<1>2. ASSUME NEW r \in Requests, Works(r) PROVE WaitersInv'
  <2>1. \A q \in Requests : pc[q] = "over" => pc'[q] = "over"
    BY <1>2, WorkFacts
  <2>2. CASE UNCHANGED history
    BY <2>1, <2>2 DEF WaitersInv
  <2>3. CASE Update(r, "updating")
    BY <1>0, <2>1, <2>3, UpdateType DEF WaitersInv, TypeOK, Statuses
  <2>4. CASE Finalize(r) /\ Readable
    <3>1. pc'[r] = "over" /\ \E status \in Statuses : Update(r, status)
      BY <2>4 DEF Finalize, Goto, Statuses, TypeOK
    <3>2. QED
      BY <1>0, <2>1, <3>1, UpdateType DEF WaitersInv, TypeOK
  <2>5. QED
    BY <1>2, <2>2, <2>3, <2>4
    DEF Works, Open, Progress, Pause, Execute, SaveResult, AnswerTurn, SaveFails, SaveAgain,
        StreamFails, Finalize
<1>3. CASE Delete
  BY <1>3, Distinct DEF Delete, WaitersInv
<1>4. CASE Crash
  BY <1>4, Distinct DEF Crash, WaitersInv, Active, TypeOK
<1>5. CASE UNCHANGED vars
  BY <1>5 DEF vars, WaitersInv
<1>6. QED
  BY <1>1, <1>2, <1>3, <1>4, <1>5, NextCases

LEMMA NextPending == TypeOK /\ OneAtWork /\ WaitersInv /\ PendingInv /\ [Next]_vars => PendingInv'
<1> SUFFICES ASSUME TypeOK, OneAtWork, WaitersInv, PendingInv, [Next]_vars, ~overlapped'
             PROVE  PendingInv'
  BY DEF PendingInv
<1>1. ASSUME NEW r \in Requests, NEW k \in {"chat", "resume"}, Record(r, k) PROVE PendingInv'
  <2>1. /\ pc[r] = "new" /\ pc'[r] # "paused" /\ last' = r /\ UNCHANGED checkpoint
        /\ ~overlapped /\ \A q \in Requests \ {r} : pc'[q] = pc[q]
    BY <1>1 DEF Record, Arrives, Goto, TypeOK
  <2>2. history' \in Messages => history'[r] # "waiting"
    BY <1>1, <2>1, UpdateType DEF Record, WaitersInv, TypeOK, Statuses
  <2>3. QED
    BY <2>1, <2>2 DEF PendingInv, WaitingIsPending
<1>2. ASSUME NEW r \in Requests, Works(r) PROVE PendingInv'
  <2>1. /\ ~overlapped /\ UNCHANGED last /\ last = r /\ pc[r] # "over"
        /\ \A q \in Requests \ {r} : pc'[q] = pc[q] /\ pc[q] # "paused"
    BY <1>2, WorkFacts DEF OneAtWork, Active
  <2>2. CASE Finalize(r) /\ Readable
    <3>1. pc'[r] = "over" /\ UNCHANGED checkpoint
      BY <2>2 DEF Finalize, Goto, TypeOK
    <3>2. PICK status \in Statuses : Update(r, status) /\ (status = "waiting" => pc[r] = "paused")
      BY <2>2 DEF Finalize, Statuses
    <3>3. history'[r] = status
      BY <3>2, UpdateType DEF TypeOK
    <3>4. QED
      BY <2>1, <3>1, <3>2, <3>3, Distinct DEF PendingInv, WaitingIsPending
  <2>3. CASE ~(Finalize(r) /\ Readable)
    <3>1. history' \in Messages => history'[r] # "waiting"
      <4>1. CASE UNCHANGED history
        BY <2>1, <4>1 DEF WaitersInv
      <4>2. CASE Update(r, "updating")
        BY <4>2, UpdateType DEF TypeOK, Statuses
      <4>3. QED
        BY <1>2, <2>3, <4>1, <4>2
        DEF Works, Open, Progress, Pause, Execute, SaveResult, AnswerTurn, SaveFails, SaveAgain,
            StreamFails, Finalize
    <3>2. pc'[r] = "paused" => Pause(r)
      BY <1>2, <2>1, <2>3 DEF Works, Open, Progress, Pause, Execute, SaveResult, AnswerTurn, SaveFails,
         SaveAgain, StreamFails, Finalize, Goto, limits, TypeOK
    <3>3. Pause(r) => checkpoint' \in Memory /\ checkpoint'.paused = r
      BY DEF Pause, Save, TypeOK, Memory
    <3>4. QED
      BY <2>1, <3>1, <3>2, <3>3 DEF PendingInv, WaitingIsPending
  <2>4. QED
    BY <2>2, <2>3
<1>3. CASE Delete
  BY <1>3, Distinct DEF Delete, Arrives, PendingInv, WaitingIsPending, Active
<1>4. CASE Crash
  <2>1. /\ ~overlapped /\ UNCHANGED last /\ checkpoint' \in {checkpoint, Torn}
        /\ history' \in {history, Torn} /\ \A r \in Requests : pc'[r] # "paused"
    BY <1>4 DEF Crash, Active, TypeOK
  <2>2. QED
    BY <2>1, Distinct DEF PendingInv, WaitingIsPending
<1>5. CASE UNCHANGED vars
  BY <1>5 DEF vars, PendingInv, WaitingIsPending
<1>6. QED
  BY <1>1, <1>2, <1>3, <1>4, <1>5, NextCases

-----------------------------------------------------------------------------
(* The files and the memories of requests have the shapes that the services *)
(* write, or are missing or torn.                                           *)
THEOREM TypeCorrect == Spec => []TypeOK
<1>1. Init => TypeOK
  BY InitType
<1>2. TypeOK /\ [Next]_vars => TypeOK'
  BY NextType
<1>3. QED
  BY <1>1, <1>2, PTL DEF Spec

(* Requests that do not overlap follow one another.                         *)
LEMMA OneAtATime == Spec => []OneAtWork
<1>1. Init => OneAtWork
  BY DEF Init, OneAtWork, Active
<1>2. TypeOK /\ OneAtWork /\ [Next]_vars => OneAtWork'
  BY NextOne
<1>3. QED
  BY <1>1, <1>2, TypeCorrect, PTL DEF Spec

\* Nobody else is at work on a torn checkpoint.
LEMMA WorkersAlwaysRead == Spec => []WorkersRead
<1>1. Init => WorkersRead
  BY InitWorkers
<1>2. TypeOK /\ OneAtWork /\ WorkersRead /\ [Next]_vars => WorkersRead'
  BY NextWorkers
<1>3. QED
  BY <1>1, <1>2, TypeCorrect, OneAtATime, PTL DEF Spec

(* A torn checkpoint is replaced by nobody but the request whose save tore  *)
(* it, which saves the memory it has: reading the history keeps all others  *)
(* out, however many work on the conversation while only crashes tear it.   *)
THEOREM TornIsKept == Spec => TornCheckpointKept
<1>1. TypeOK /\ WorkersRead /\ [Next]_vars =>
        [(~overlapped' \/ failures = 0) /\ checkpoint = Torn =>
           checkpoint' \in {Torn, Missing} \cup {mem[r] : r \in {q \in Requests : pc[q] = "unsaved"}}]_vars
  <2>1. SUFFICES ASSUME TypeOK, WorkersRead, [Next]_vars, checkpoint = Torn, ~overlapped' \/ failures = 0,
                        checkpoint' \notin {Torn, Missing}
                 PROVE  \E r \in Requests : pc[r] = "unsaved" /\ checkpoint' = mem[r]
    OBVIOUS
  <2>2. PICK r \in Requests : Works(r)
    BY <2>1, NextCases DEF Record, Delete, Crash, vars
  <2>3. pc[r] = "unsaved"
    BY <2>1, <2>2, WorkFacts DEF WorkersRead
  <2>4. SaveAgain(r)
    BY <2>1, <2>2, <2>3
    DEF Works, Open, Progress, Pause, Execute, SaveResult, AnswerTurn, SaveFails, StreamFails, Finalize
  <2>5. QED
    BY <2>3, <2>4 DEF SaveAgain, Save
<1>2. QED
  BY <1>1, TypeCorrect, WorkersAlwaysRead, PTL DEF Spec, TornCheckpointKept

(* Finished messages stay finished, whatever overlaps.                      *)
THEOREM FinishedStay == Spec => []HistoryKeepsAnswers
<1>1. Init => FinishedInv
  BY DEF Init, FinishedInv
<1>2. TypeOK /\ FinishedInv /\ [Next]_vars => FinishedInv'
  BY NextFinished
<1>3. FinishedInv => HistoryKeepsAnswers
  BY Distinct DEF FinishedInv, HistoryKeepsAnswers
<1>4. QED
  BY <1>1, <1>2, <1>3, TypeCorrect, PTL DEF Spec

(* Until two requests overlap, every answered turn is in the checkpoint.    *)
THEOREM AnswersStay == Spec => []RememberedWhenAlone
<1>1. Init => MemoryInv
  BY Distinct DEF Init, MemoryInv, AnswersRemembered
<1>2. TypeOK /\ WorkersRead /\ OneAtWork /\ MemoryInv /\ [Next]_vars => MemoryInv'
  BY NextMemory
<1>3. MemoryInv => RememberedWhenAlone
  BY DEF MemoryInv, RememberedWhenAlone
<1>4. QED
  BY <1>1, <1>2, <1>3, TypeCorrect, WorkersAlwaysRead, OneAtATime, PTL DEF Spec

(* Until two requests overlap, an approved call runs once, and once more    *)
(* for each crash and each save that fails.                                 *)
THEOREM ApprovedOnce == Spec => []ApprovedRunsOnce
<1>1. Init => UnpausedInv /\ OnceInv
  BY InitUnpaused, InitOnce
<1>2. TypeOK /\ OneAtWork /\ UnpausedInv /\ OnceInv /\ [Next]_vars => UnpausedInv' /\ OnceInv'
  BY NextUnpaused, NextOnce
<1>3. OnceInv => ApprovedRunsOnce
  BY DEF OnceInv, ApprovedRunsOnce
<1>4. QED
  BY <1>1, <1>2, <1>3, TypeCorrect, OneAtATime, PTL DEF Spec

(* Until two requests overlap, a conversation that waits can be resumed.    *)
THEOREM WaitingCanResume == Spec => []WaitingIsPending
<1>1. Init => WaitersInv /\ PendingInv
  BY InitWaiters
<1>2. TypeOK /\ OneAtWork /\ WaitersInv /\ PendingInv /\ [Next]_vars => WaitersInv' /\ PendingInv'
  BY NextWaiters, NextPending
<1>3. PendingInv => WaitingIsPending
  BY DEF PendingInv, WaitingIsPending
<1>4. QED
  BY <1>1, <1>2, <1>3, TypeCorrect, OneAtATime, PTL DEF Spec
=============================================================================
