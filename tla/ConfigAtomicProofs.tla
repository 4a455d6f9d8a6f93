--------------------------- MODULE ConfigAtomicProofs ---------------------------
(***************************************************************************)
(* ConfigStore implements AtomicConfig when one request is served at a     *)
(* time.  Then nothing happens between the reading of the root and its     *)
(* replacement, so a snapshot is never stale: the rename is the step in    *)
(* which the operation takes effect, and every other step of the file, of  *)
(* temporary files and of the initialisation is invisible.                 *)
(***************************************************************************)
EXTENDS ConfigStoreProofs, FiniteSetTheorems

\* The configuration a client sees: a missing file reads as the default one.
Current == IF file = Missing THEN DefaultConfig ELSE file
Outcome == [r \in Requests |-> IF pc[r] = "respond" THEN "applied" ELSE reply[r]]

Alone == \A r, q \in InFlight : r = q
FreshInv ==
  \A r \in Requests :
    /\ pc[r] \in {"initWrite", "initRename"} => file = Missing
    /\ pc[r] \in {"check", "probe", "write", "rename"} => snap[r] = Current
    /\ pc[r] = "probe" => NeedsProbe(op[r])
    /\ pc[r] = "rename" =>
         \E k \in Targets(snap[r], op[r]) : tmp[r] = Rewrite(snap[r], op[r], k)

\* The abstract module sees the same rules.
LEMMA SameRules ==
  /\ \A c, o : Atomic!Verdict(c, o) = Verdict(c, o)
  /\ \A c, o : Atomic!Targets(c, o) = Targets(c, o)
  /\ \A c, o, k : Atomic!Rewrite(c, o, k) = Rewrite(c, o, k)
  /\ \A o : Atomic!ReadOnly(o) = ReadOnly(o) /\ Atomic!NeedsProbe(o) = NeedsProbe(o)
<1>1. \A c, section, name : Atomic!KeysOf(c, section, name) = KeysOf(c, section, name)
  BY DEF Atomic!KeysOf, KeysOf
<1>2. \A o, entry : Atomic!StoredEntry(o, entry) = StoredEntry(o, entry)
  BY DEF Atomic!StoredEntry, StoredEntry, Atomic!StoredAgent, StoredAgent, Atomic!StoredModel,
     StoredModel, Atomic!StoredTool, StoredTool
<1>3. \A c, o : Atomic!Verdict(c, o) = Verdict(c, o)
  BY <1>1 DEF Atomic!Verdict, Verdict, Atomic!Found, Found, Atomic!Taken, Taken
<1>4. \A c, o : Atomic!Targets(c, o) = Targets(c, o)
  BY <1>1 DEF Atomic!Targets, Targets
<1>5. \A c, o, k : Atomic!Rewrite(c, o, k) = Rewrite(c, o, k)
  BY <1>2 DEF Atomic!Rewrite, Rewrite
<1>6. \A o : Atomic!ReadOnly(o) = ReadOnly(o) /\ Atomic!NeedsProbe(o) = NeedsProbe(o)
  BY DEF Atomic!ReadOnly, ReadOnly, Atomic!NeedsProbe, NeedsProbe
<1>7. QED
  BY <1>3, <1>4, <1>5, <1>6

\* A request begins only when nobody is at work.
LEMMA BeginsAlone ==
  ASSUME IsFiniteSet(Requests), MaxActive = 1, NEW r \in Requests, NEW o \in Operations, Begin(r, o)
  PROVE  InFlight = {}
<1>1. IsFiniteSet(InFlight)
  BY FS_Subset DEF InFlight
<1>2. Cardinality(InFlight) \in Nat /\ Cardinality(InFlight) < 1
  BY <1>1, FS_CardinalityType DEF Begin
<1>3. Cardinality(InFlight) = 0
  BY <1>2
<1>4. QED
  BY <1>1, <1>3, FS_EmptySet

\* What a step of a request in flight leaves alone.
Works(r) ==
  \/ Step(r) \/ ProbeAnswers(r) \/ ProbeRefused(r) \/ WriteFails(r)

LEMMA WorkFacts ==
  ASSUME TypeOK, NEW r \in Requests, Works(r)
  PROVE  /\ r \in InFlight /\ pc'[r] # "new" /\ op' = op
         /\ \A q \in Requests \ {r} : /\ pc'[q] = pc[q] /\ snap'[q] = snap[q]
                                      /\ tmp'[q] = tmp[q] /\ reply'[q] = reply[q]
BY DEF Works, Step, ReadRoot, OpenTemp, FillInitTemp, FillTemp, RenameInit, Rename, Replace, Respond,
   Check, ProbeAnswers, ProbeRefused, ProbeTimesOut, WriteFails, Goto, Answer, TypeOK, InFlight

LEMMA NextAlone ==
  ASSUME IsFiniteSet(Requests), MaxActive = 1, TypeOK, Alone, [Next]_vars
  PROVE  Alone'
<1>1. ASSUME NEW r \in Requests, NEW o \in Operations, Begin(r, o) PROVE Alone'
  <2>1. InFlight = {}
    BY <1>1, BeginsAlone
  <2>2. QED
    BY <1>1, <2>1 DEF Begin, Goto, Alone, InFlight, TypeOK
<1>2. ASSUME NEW r \in Requests, Works(r) PROVE Alone'
  BY <1>2, WorkFacts DEF Alone, InFlight
<1>3. CASE Crash
  BY <1>3 DEF Crash, Alone, InFlight
<1>4. CASE UNCHANGED vars
  BY <1>4 DEF vars, Alone, InFlight
<1>5. QED
  BY <1>1, <1>2, <1>3, <1>4 DEF Next, Works

\* No snapshot is stale.
LEMMA NextFresh ==
  ASSUME IsFiniteSet(Requests), MaxActive = 1, IInv, Alone, FreshInv, [Next]_vars
  PROVE  FreshInv'
<1> USE DEF Current, Goto, Answer
<1>0. TypeOK /\ StageInv /\ file # Torn
  BY DEF IInv, FileNeverTorn
<1>1. ASSUME NEW r \in Requests, NEW o \in Operations, Begin(r, o) PROVE FreshInv'
  <2>1. InFlight = {}
    BY <1>1, BeginsAlone
  <2>2. QED
    BY <1>0, <1>1, <2>1 DEF Begin, FreshInv, InFlight, TypeOK
<1>2. ASSUME NEW r \in Requests, Works(r) PROVE FreshInv'
  <2>1. /\ op' = op
        /\ \A q \in Requests \ {r} : pc'[q] = pc[q] /\ pc[q] \in {"new", "done"}
    BY <1>0, <1>2, WorkFacts DEF Alone, InFlight
  <2>2. FreshInv' <=>
          /\ pc'[r] \in {"initWrite", "initRename"} => file' = Missing
          /\ pc'[r] \in {"check", "probe", "write", "rename"} => snap'[r] = Current'
          /\ pc'[r] = "probe" => NeedsProbe(op[r])
          /\ pc'[r] = "rename" =>
               \E k \in Targets(snap'[r], op[r]) : tmp'[r] = Rewrite(snap'[r], op[r], k)
    BY <2>1 DEF FreshInv
  <2>3. CASE ReadRoot(r)
    BY <1>0, <2>2, <2>3 DEF ReadRoot, TypeOK
  <2>4. CASE OpenTemp(r) \/ FillInitTemp(r)
    BY <1>0, <2>2, <2>4 DEF OpenTemp, FillInitTemp, TypeOK, FreshInv
  <2>5. CASE FillTemp(r)
    BY <1>0, <2>2, <2>5 DEF FillTemp, TypeOK, FreshInv
  <2>6. CASE RenameInit(r)
    <3>1. file' = DefaultConfig /\ pc'[r] = "check" /\ snap'[r] = DefaultConfig
      BY <1>0, <2>6 DEF RenameInit, Replace, StageInv, TypeOK
    <3>2. QED
      BY <2>2, <3>1
  <2>7. CASE Rename(r) \/ Respond(r) \/ ProbeRefused(r) \/ ProbeTimesOut(r) \/ WriteFails(r)
    <3>1. pc'[r] \in {"respond", "done"}
      BY <1>0, <2>7 DEF Rename, Respond, ProbeRefused, ProbeTimesOut, WriteFails, TypeOK
    <3>2. QED
      BY <2>2, <3>1
  <2>8. CASE Check(r) \/ ProbeAnswers(r)
    BY <1>0, <2>2, <2>8 DEF Check, ProbeAnswers, TypeOK, FreshInv
  <2>9. QED
    BY <1>2, <2>3, <2>4, <2>5, <2>6, <2>7, <2>8 DEF Works, Step
<1>3. CASE Crash
  <2>1. \A r \in Requests : pc'[r] \in {"new", "done"}
    BY <1>0, <1>3 DEF Crash, InFlight, TypeOK
  <2>2. QED
    BY <2>1 DEF FreshInv
<1>4. CASE UNCHANGED vars
  BY <1>4 DEF vars, FreshInv
<1>5. QED
  BY <1>1, <1>2, <1>3, <1>4 DEF Next, Works

-----------------------------------------------------------------------------
(* Each step is a step of AtomicConfig or none.                             *)
Abstract == <<Current, Outcome>>

\* One request moves on: its outcome changes as the abstract action says.
LEMMA Moves ==
  ASSUME NEW r \in Requests, \A q \in Requests \ {r} : Outcome'[q] = Outcome[q]
  PROVE  Outcome' = [Outcome EXCEPT ![r] = Outcome'[r]]
BY DEF Outcome

LEMMA StepRefines ==
  ASSUME IInv, Alone, FreshInv, [Next]_vars
  PROVE  [Atomic!Next]_Abstract
<1>0. TypeOK /\ StageInv /\ file # Torn
  BY DEF IInv, FileNeverTorn
<1>1. ASSUME NEW r \in Requests, NEW o \in Operations, Begin(r, o) PROVE UNCHANGED Abstract
  BY <1>0, <1>1 DEF Begin, Goto, Abstract, Current, Outcome, TypeOK
<1>2. ASSUME NEW r \in Requests, Works(r) PROVE [Atomic!Next]_Abstract
  <2>1. /\ r \in InFlight /\ op' = op /\ \A q \in Requests \ {r} : Outcome'[q] = Outcome[q]
        /\ op[r] \in Operations
    BY <1>0, <1>2, WorkFacts DEF Outcome, StageInv, InFlight
  <2>0. Outcome' = [Outcome EXCEPT ![r] = Outcome'[r]]
    BY <2>1, Moves
  <2>2. pc[r] # "respond" => Outcome[r] = "none"
    BY <1>0, <2>1 DEF Outcome, StageInv, InFlight
  <2>3. ASSUME Current' = Current, Outcome'[r] = Outcome[r] PROVE UNCHANGED Abstract
    BY <2>1, <2>3 DEF Abstract, Outcome
  <2>4. CASE \/ OpenTemp(r) \/ FillInitTemp(r) \/ FillTemp(r) \/ ProbeAnswers(r)
             \/ (Check(r) /\ pc'[r] # "done") \/ (ReadRoot(r) /\ pc'[r] # "done")
    <3>1. UNCHANGED <<file, reply>> /\ pc[r] # "respond" /\ pc'[r] # "respond"
      BY <1>0, <2>4 DEF OpenTemp, FillInitTemp, FillTemp, ProbeAnswers, Check, ReadRoot, Goto, Answer,
         TypeOK
    <3>2. QED
      BY <2>3, <3>1 DEF Current, Outcome
  <2>5. CASE RenameInit(r)
    <3>1. file = Missing /\ file' = DefaultConfig /\ pc[r] # "respond" /\ pc'[r] # "respond"
          /\ UNCHANGED reply
      BY <1>0, <2>5 DEF RenameInit, Replace, Goto, StageInv, FreshInv, TypeOK
    <3>2. QED
      BY <2>3, <3>1 DEF Current, Outcome
  <2>6. CASE Rename(r)
    <3>1. /\ Verdict(Current, op[r]) = "ok" /\ ~ReadOnly(op[r])
          /\ \E k \in Targets(Current, op[r]) : file' = Rewrite(Current, op[r], k)
      BY <2>6 DEF Rename, Replace, FreshInv, IInv, StageInv
    <3>2. file' \in Config /\ pc[r] = "rename" /\ pc'[r] = "respond"
      BY <1>0, <2>6 DEF Rename, Replace, Goto, StageInv, TypeOK
    <3>3. Current' = file' /\ Outcome'[r] = "applied" /\ Outcome[r] = "none"
      BY <2>2, <3>2, StoreAssumption DEF Current, Outcome
    <3>4. Atomic!Settle(r, {"none"}, "applied")
      BY <2>0, <3>3 DEF Atomic!Settle, Outcome
    <3>5. Atomic!Apply(r, op[r])
      BY <3>1, <3>3, <3>4, SameRules DEF Atomic!Apply, Current
    <3>6. QED
      BY <2>1, <3>5 DEF Atomic!Next
  <2>7. CASE Respond(r)
    <3>1. Outcome[r] = "applied" /\ Outcome'[r] = "ok" /\ UNCHANGED file
      BY <1>0, <2>7 DEF Respond, Answer, Goto, Outcome, TypeOK
    <3>2. Atomic!Acknowledge(r)
      BY <2>0, <3>1 DEF Atomic!Settle, Outcome, Atomic!Acknowledge
    <3>3. QED
      BY <3>2 DEF Atomic!Next
  <2>8. CASE Check(r) /\ pc'[r] = "done"
    <3>1. /\ Outcome'[r] = Verdict(Current, op[r]) /\ Outcome[r] = "none" /\ UNCHANGED file
          /\ Verdict(Current, op[r]) # "ok" \/ ReadOnly(op[r])
      BY <1>0, <2>2, <2>8 DEF Check, Answer, Goto, Outcome, TypeOK, FreshInv
    <3>2. /\ Atomic!Verdict(Current, op[r]) = Verdict(Current, op[r])
          /\ Atomic!ReadOnly(op[r]) = ReadOnly(op[r])
      BY SameRules
    <3>3. Outcome' = [Outcome EXCEPT ![r] = Atomic!Verdict(Current, op[r])]
      BY <2>0, <3>1, <3>2
    <3>4. Atomic!Read(r, op[r]) \/ Atomic!Reject(r, op[r])
      BY <3>1, <3>2, <3>3 DEF Atomic!Read, Atomic!Reject, Atomic!Settle, Current, Outcome
    <3>5. QED
      BY <2>1, <3>4 DEF Atomic!Next
  <2>9. CASE ProbeRefused(r) \/ ProbeTimesOut(r)
    <3>1. /\ Outcome[r] = "none" /\ Outcome'[r] = "unreachable" /\ UNCHANGED file
          /\ Verdict(Current, op[r]) = "ok" /\ NeedsProbe(op[r])
      BY <1>0, <2>2, <2>9 DEF ProbeRefused, ProbeTimesOut, Answer, Goto, Outcome, TypeOK, FreshInv, StageInv
    <3>2. Atomic!Settle(r, {"none"}, "unreachable")
      BY <2>0, <3>1 DEF Atomic!Settle, Outcome
    <3>3. Atomic!Unreachable(r, op[r])
      BY <3>1, <3>2, SameRules DEF Atomic!Unreachable, Current
    <3>4. QED
      BY <2>1, <3>3 DEF Atomic!Next
  <2>10. CASE WriteFails(r)
    <3>1. Outcome[r] = "none" /\ Outcome'[r] = "failed" /\ UNCHANGED file
      BY <1>0, <2>2, <2>10 DEF WriteFails, Answer, Goto, Outcome, TypeOK
    <3>2. Atomic!Fail(r)
      BY <2>0, <3>1 DEF Atomic!Settle, Outcome, Atomic!Fail
    <3>3. QED
      BY <3>2 DEF Atomic!Next
  <2>11. QED
    BY <1>0, <1>2, <2>4, <2>5, <2>6, <2>7, <2>8, <2>9, <2>10 DEF Works, Step, ReadRoot, Goto, TypeOK
<1>3. CASE Crash
  <2>1. PICK r \in Requests : r \in InFlight
    BY <1>3 DEF Crash, InFlight
  <2>2. \A q \in Requests \ {r} : q \notin InFlight
    BY <2>1 DEF Alone
  <2>3. \A q \in Requests \ {r} : Outcome'[q] = Outcome[q]
    BY <1>0, <1>3, <2>2 DEF Crash, Outcome, TypeOK
  <2>4. Outcome'[r] = "lost" /\ Outcome[r] \in {"none", "applied"} /\ UNCHANGED file
    BY <1>0, <1>3, <2>1 DEF Crash, Outcome, InFlight, StageInv, TypeOK
  <2>5. Atomic!Lose(r)
    BY <2>3, <2>4, Moves DEF Atomic!Settle, Outcome, Atomic!Lose
  <2>6. QED
    BY <2>5 DEF Atomic!Next
<1>4. CASE UNCHANGED vars
  BY <1>4 DEF vars, Abstract, Current, Outcome
<1>5. QED
  BY <1>1, <1>2, <1>3, <1>4 DEF Next, Works

LEMMA InitRefines == Init => Atomic!Init
BY DEF Init, Atomic!Init, Atomic!DefaultConfig, DefaultConfig

(* With one request at a time the services behave as single-step            *)
(* operations on one configuration: a refused or failed request changes     *)
(* nothing, and one that lost its answer in a crash has taken effect        *)
(* entirely or not at all.                                                  *)
THEOREM SerialIsAtomic ==
  ASSUME IsFiniteSet(Requests), MaxActive = 1
  PROVE  Spec => ImplementsAtomic
<1>1. Init => Alone /\ FreshInv
  BY DEF Init, Alone, InFlight, FreshInv
<1>2. IInv /\ Alone /\ FreshInv /\ [Next]_vars => Alone' /\ FreshInv'
  BY NextAlone, NextFresh DEF IInv
<1>3. IInv /\ Alone /\ FreshInv /\ [Next]_vars => [Atomic!Next]_Abstract
  BY StepRefines
<1>4. [Atomic!Next]_Abstract <=>
        [Atomic!Next]_<<IF file = Missing THEN DefaultConfig ELSE file,
                        [r \in Requests |-> IF pc[r] = "respond" THEN "applied" ELSE reply[r]]>>
  BY DEF Abstract, Current, Outcome
<1>5. QED
  BY <1>1, <1>2, <1>3, <1>4, InitRefines, Invariant, PTL DEF Spec, ImplementsAtomic, Atomic!Spec
=============================================================================
