--------------------------- MODULE SkillsStoreProofs ---------------------------
(***************************************************************************)
(* Proofs about SkillsStore for every number of requests, packages,        *)
(* failing file operations, crashes and turns.                             *)
(*                                                                         *)
(* A request that nobody works beside has read the entries as they still   *)
(* are, what it is about to write differs from them only in what its       *)
(* operation asks for, and the directories of the skills it has done hold  *)
(* what it has done to them.  A turn that read a skill whose directory     *)
(* nobody touched since has read one version of it.                        *)
(***************************************************************************)
EXTENDS SkillsStore, FiniteSetTheorems, WellFoundedInduction, TLAPS

Locals == [op : Operations, snap : Skills, next : Skills, pos : Nat, copied : SUBSET Files]

\* Where a request is fixes what its locals are.
StageInv(r) ==
  pc[r] \notin {"new", "over"} =>
    /\ job[r] \in Locals
    /\ pc[r] \in {"cli", "read"} => job[r].pos = 1
    /\ pc[r] \in {"cli", "sync", "copy", "cleanup"} => Installs(r)
    /\ Installs(r) /\ pc[r] # "cli" /\ pc[r] # "cleanup" => job[r].pos \in DOMAIN Package(r)
    /\ pc[r] = "rm" => job[r].op.verb = "remove"

Shape ==
  /\ entries \in Skills
  /\ pc \in [Requests -> Stages]
  /\ DOMAIN job = Requests
  /\ overlapped \subseteq Requests
  /\ \A r \in Requests : StageInv(r)

\* The steps of a request after its arrival.
Works(r) ==
  \/ Unpack(r) \/ ReadConfig(r) \/ Sync(r)
  \/ \E f \in Files : Copy(r, f)
  \/ Note(r) \/ RemoveDir(r) \/ WriteConfig(r) \/ Fails(r)
  \/ Cleanup(r) \/ CleanupFails(r)

LEMMA NextCases ==
  ASSUME [Next]_vars
  PROVE  \/ \E r \in Requests, o \in Operations : Arrive(r, o)
         \/ \E r \in Requests : Works(r)
         \/ Crash
         \/ UNCHANGED <<entries, service, stuck, crashes>>
BY DEF Next, Works, BuildIndex, LoadSkill, vars, bounds

LEMMA OperationFacts ==
  ASSUME NEW o \in Operations
  PROVE  /\ o.verb \in {"install", "update", "remove"} /\ o.flag \in Flags /\ o.name \in Names
         /\ o.package \in Seq([name : Names, version : Versions])
BY SkillsAssumption DEF Operation

\* A request at work has a job of these fields.
LEMMA JobFacts ==
  ASSUME Shape, NEW r \in Requests, pc[r] \notin {"new", "over"}
  PROVE  /\ job[r] \in Locals /\ job[r].op \in Operations
         /\ job[r].op.verb \in {"install", "update", "remove"} /\ Target(r) \in Names
         /\ Package(r) \in Seq([name : Names, version : Versions])
BY OperationFacts DEF Shape, StageInv, Locals, Package, Target

\* A step moves its own request, which was at work.
LEMMA WorkFacts ==
  ASSUME Shape, NEW r \in Requests, Works(r)
  PROVE  /\ pc[r] \notin {"new", "over"} /\ pc'[r] # "new" /\ UNCHANGED crashes
         /\ pc' \in [Requests -> Stages] /\ DOMAIN job' = Requests
         /\ overlapped' = overlapped \/ (overlapped' = overlapped \ {r} /\ pc'[r] = "over")
         /\ \A q \in Requests \ {r} : pc'[q] = pc[q] /\ job'[q] = job[q]
<1> USE DEF Shape, Goto, Quit, Answer, Stages, bounds
<1>1. CASE Unpack(r)
  BY <1>1 DEF Unpack
<1>2. CASE ReadConfig(r)
  BY <1>2, JobFacts DEF ReadConfig, Installs
<1>3. CASE Sync(r) \/ \E f \in Files : Copy(r, f)
  BY <1>3 DEF Sync, Copy
<1>4. CASE Note(r) \/ RemoveDir(r) \/ WriteConfig(r)
  BY <1>4 DEF Note, RemoveDir, WriteConfig
<1>5. CASE Fails(r) \/ Cleanup(r) \/ CleanupFails(r)
  BY <1>5 DEF Fails, Cleanup, CleanupFails, Answer
<1>6. QED
  BY <1>1, <1>2, <1>3, <1>4, <1>5 DEF Works

LEMMA FlagIsFlag == \A old \in Entry \cup {None} : FlagOf(old) \in Flags
BY DEF FlagOf, Flags, Entry

LEMMA StepStage ==
  ASSUME Shape, NEW r \in Requests, Works(r)
  PROVE  StageInv(r)'
<1> USE DEF Goto, Stages
<1>0. /\ pc \in [Requests -> Stages] /\ DOMAIN job = Requests /\ entries \in Skills
      /\ pc[r] \notin {"new", "over"} /\ StageInv(r)
  BY WorkFacts DEF Shape
<1>1. /\ job[r] \in Locals /\ job[r].op.verb \in {"install", "update", "remove"}
      /\ Target(r) \in Names /\ job[r].op.flag \in Flags
      /\ Package(r) \in Seq([name : Names, version : Versions])
  BY <1>0, JobFacts, OperationFacts DEF Locals
<1>q. ASSUME Quit(r) PROVE StageInv(r)'
  BY <1>0, <1>q DEF Quit, Answer, StageInv, Installs, Package
<1>2. CASE Unpack(r)
  BY <1>0, <1>1, <1>2 DEF Unpack, StageInv, Installs, Package
<1>3. CASE ReadConfig(r)
  <2>1. CASE ~Quit(r)
    <3>1. /\ job' = [job EXCEPT ![r].snap = entries,
                                ![r].next = CASE Installs(r) -> entries
                                              [] job[r].op.verb = "update" -> Updated(r)
                                              [] job[r].op.verb = "remove" -> Removed(r)]
          /\ Installs(r) \/ ~Refused(r)
          /\ pc'[r] = CASE Installs(r) -> "sync"
                       [] job[r].op.verb = "update" -> "write"
                       [] job[r].op.verb = "remove" -> "rm"
      BY <1>0, <1>3, <2>1 DEF ReadConfig
    <3>2. Removed(r) \in Skills
      BY <1>0 DEF Removed, Skills
    <3>3. job[r].op.verb = "update" /\ ~Refused(r) => Updated(r) \in Skills
      BY <1>0, <1>1 DEF Refused, Updated, Skills, Entry
    <3>4. job'[r] \in Locals /\ job'[r].op = job[r].op /\ job'[r].pos = job[r].pos
      BY <1>0, <1>1, <3>1, <3>2, <3>3 DEF Locals, Installs
    <3>5. QED
      BY <1>0, <1>1, <1>3, <3>1, <3>4 DEF ReadConfig, StageInv, Installs, Package
  <2>2. QED
    BY <1>q, <2>1
<1>4. CASE Sync(r)
  <2>1. CASE ~Quit(r)
    BY <1>0, <1>1, <1>4, <2>1 DEF Sync, StageInv, Installs, Package, Locals
  <2>2. QED
    BY <1>q, <2>1
<1>5. ASSUME NEW f \in Files, Copy(r, f) PROVE StageInv(r)'
  BY <1>0, <1>1, <1>5 DEF Copy, StageInv, Installs, Package, Locals
<1>6. CASE Note(r)
  <2> DEFINE new == [flag |-> FlagOf(job[r].snap[Document(r).name]), version |-> Document(r).version]
  <2>0. pc[r] = "copy" /\ job[r].pos \in DOMAIN Package(r)
    BY <1>0, <1>6 DEF Note, StageInv
  <2>1. Document(r) \in [name : Names, version : Versions]
    <3>1. \A S : \A s \in Seq(S) : \A i \in DOMAIN s : s[i] \in S
      OBVIOUS
    <3>2. QED
      BY <1>1, <2>0, <3>1, Zenon DEF Document
  <2>2. new \in Entry
    BY <1>1, <2>1, FlagIsFlag DEF Locals, Skills, Entry
  <2>3. [job[r].next EXCEPT ![Document(r).name] = new] \in Skills
    BY <1>1, <2>2 DEF Locals, Skills
  <2>8. job' = [job EXCEPT ![r].next[Document(r).name] = new,
                            ![r].pos = IF job[r].pos = Len(Package(r)) THEN @ ELSE @ + 1]
    BY <1>6 DEF Note
  <2>4. /\ pc'[r] \in {"write", "sync"} /\ job'[r].op = job[r].op
        /\ job'[r].pos = IF job[r].pos = Len(Package(r)) THEN job[r].pos ELSE job[r].pos + 1
        /\ job'[r] \in Locals
    <3>1. pc'[r] \in {"write", "sync"}
      BY <1>0, <1>6 DEF Note
    <3> DEFINE p == IF job[r].pos = Len(Package(r)) THEN job[r].pos ELSE job[r].pos + 1
               next == [job[r].next EXCEPT ![Document(r).name] = new]
    <3>2. p \in Nat /\ next \in Skills
      BY <1>1, <2>3 DEF Locals
    <3>3. job'[r] = [job[r] EXCEPT !.next = next, !.pos = p]
      BY <1>0, <1>1, <2>8 DEF Locals
    <3> HIDE DEF new, p, next
    <3>4. job'[r].op = job[r].op /\ job'[r].pos = p /\ job'[r] \in Locals
      BY <1>1, <3>2, <3>3 DEF Locals
    <3>5. QED
      BY <3>1, <3>4 DEF p
  <2>5. Len(Package(r)) \in Nat /\ job[r].pos \in 1..Len(Package(r))
    BY <1>1, <2>0
  <2>6. job'[r].pos \in DOMAIN Package(r)
    BY <1>1, <2>4, <2>5
  <2>7. QED
    BY <1>0, <2>0, <2>4, <2>6 DEF StageInv, Installs, Package
<1>7. CASE RemoveDir(r)
  BY <1>0, <1>1, <1>7 DEF RemoveDir, StageInv, Installs, Package
<1>8. CASE WriteConfig(r) \/ Fails(r)
  BY <1>q, <1>8 DEF WriteConfig, Fails
<1>9. CASE Cleanup(r) \/ CleanupFails(r)
  BY <1>0, <1>9 DEF Cleanup, CleanupFails, Answer, StageInv
<1>10. QED
  BY <1>2, <1>3, <1>4, <1>5, <1>6, <1>7, <1>8, <1>9 DEF Works

LEMMA NextShape == Shape /\ [Next]_vars => Shape'
<1> SUFFICES ASSUME Shape, [Next]_vars PROVE Shape'
  OBVIOUS
<1>1. ASSUME NEW r \in Requests, NEW o \in Operations, Arrive(r, o) PROVE Shape'
  <2>1. /\ \A q \in Requests \ {r} : pc'[q] = pc[q] /\ job'[q] = job[q]
        /\ DOMAIN job' = Requests /\ overlapped' \subseteq Requests /\ entries' = entries
    BY <1>1 DEF Arrive, Shape, Goto, Active
  <2>2. job'[r] \in Locals /\ job'[r].op = o /\ job'[r].pos = 1
    BY <1>1 DEF Arrive, Shape, Locals
  <2>3. pc' \in [Requests -> Stages] /\ pc'[r] = IF o.verb = "install" THEN "cli" ELSE "read"
    BY <1>1 DEF Arrive, Shape, Goto, Stages
  <2>4. StageInv(r)'
    BY <2>2, <2>3 DEF StageInv, Installs
  <2>5. \A q \in Requests \ {r} : StageInv(q)'
    BY <2>1 DEF Shape, StageInv, Installs, Package
  <2>6. QED
    BY <2>1, <2>3, <2>4, <2>5 DEF Shape
<1>2. ASSUME NEW r \in Requests, Works(r) PROVE Shape'
  <2>1. \A q \in Requests \ {r} : StageInv(q)'
    BY <1>2, WorkFacts DEF Shape, StageInv, Installs, Package
  <2>2. entries' \in Skills
    <3>1. CASE WriteConfig(r)
      BY <1>2, <3>1, JobFacts, WorkFacts DEF WriteConfig, Locals
    <3>2. CASE ~WriteConfig(r)
      BY <1>2, <3>2 DEF Works, Unpack, ReadConfig, Sync, Copy, Note, RemoveDir, Fails, Cleanup, CleanupFails, Answer, Shape
    <3>3. QED
      BY <3>1, <3>2
  <2>3. QED
    BY <1>2, <2>1, <2>2, StepStage, WorkFacts DEF Shape
<1>3. CASE Crash
  <2>1. \A r \in Requests : pc'[r] \in {"new", "over"}
    BY <1>3 DEF Crash, Active, Shape
  <2>2. QED
    BY <1>3, <2>1 DEF Crash, Shape, StageInv, Active, Stages
<1>4. CASE UNCHANGED <<entries, service, stuck, crashes>>
  BY <1>4 DEF Shape, StageInv, Installs, Package, service
<1>5. QED
  BY <1>1, <1>2, <1>3, <1>4, NextCases

LEMMA AlwaysShape == Spec => []Shape
<1>1. Init => Shape
  BY SkillsAssumption DEF Init, Shape, StageInv, Stages
<1>2. QED
  BY <1>1, NextShape, PTL DEF Spec

\* Nobody forgets what was asked before the end.
LEMMA KeepsOperation ==
  ASSUME Shape, NEW r \in Requests, Works(r)
  PROVE  /\ pc'[r] # "over" => job'[r].op = job[r].op
         /\ Installs(r) /\ ~Cleanup(r) /\ ~CleanupFails(r) => pc'[r] # "over"
         /\ Cleanup(r) \/ CleanupFails(r) => pc'[r] = "over"
<1> USE DEF Goto
<1>0. /\ pc \in [Requests -> Stages] /\ DOMAIN job = Requests /\ job[r] \in Locals
      /\ job[r].op.verb \in {"install", "update", "remove"}
  BY WorkFacts, JobFacts DEF Shape
<1>c. Cleanup(r) \/ CleanupFails(r) => pc[r] = "cleanup" /\ pc'[r] = "over"
  BY <1>0 DEF Cleanup, CleanupFails, Answer
<1>q. ASSUME Quit(r), pc[r] # "cleanup"
      PROVE  /\ pc'[r] # "over" => job'[r].op = job[r].op
             /\ Installs(r) => pc'[r] # "over"
  BY <1>0, <1>q DEF Quit, Answer
<1>1. CASE Unpack(r)
  BY <1>0, <1>1, <1>c DEF Unpack
<1>2. CASE ReadConfig(r) /\ ~Quit(r)
  <2> DEFINE next == CASE Installs(r) -> entries
                       [] job[r].op.verb = "update" -> Updated(r)
                       [] job[r].op.verb = "remove" -> Removed(r)
  <2>0. job' = [job EXCEPT ![r].snap = entries, ![r].next = next]
    BY <1>2 DEF ReadConfig
  <2> HIDE DEF next
  <2>1. job'[r].op = job[r].op
    BY <1>0, <2>0 DEF Locals
  <2>2. pc[r] = "read" /\ pc'[r] \in {"sync", "write", "rm"}
    <3>1. pc'[r] = CASE Installs(r) -> "sync"
                     [] job[r].op.verb = "update" -> "write"
                     [] job[r].op.verb = "remove" -> "rm"
      BY <1>0, <1>2 DEF ReadConfig
    <3>2. QED
      BY <1>0, <1>2, <3>1 DEF ReadConfig, Installs
  <2>3. QED
    BY <1>0, <1>c, <2>1, <2>2 DEF Locals
<1>3. CASE Sync(r) /\ ~Quit(r)
  <2>1. /\ job'[r] = [job[r] EXCEPT !.copied = {}]
        /\ pc[r] = "sync" /\ pc'[r] # "over"
    BY <1>0, <1>3 DEF Sync
  <2>2. QED
    BY <1>0, <1>c, <2>1 DEF Locals
<1>4. ASSUME NEW f \in Files, Copy(r, f)
      PROVE  /\ pc'[r] # "over" => job'[r].op = job[r].op
             /\ Installs(r) /\ ~Cleanup(r) /\ ~CleanupFails(r) => pc'[r] # "over"
             /\ Cleanup(r) \/ CleanupFails(r) => pc'[r] = "over"
  BY <1>0, <1>c, <1>4 DEF Copy, Locals
<1>5. CASE Note(r)
  <2>1. /\ job' = [job EXCEPT ![r].next[Document(r).name] =
                                [flag |-> FlagOf(job[r].snap[Document(r).name]),
                                 version |-> Document(r).version],
                              ![r].pos = IF job[r].pos = Len(Package(r)) THEN @ ELSE @ + 1]
        /\ pc[r] = "copy" /\ pc'[r] # "over"
    BY <1>0, <1>5 DEF Note
  <2>2. job'[r].op = job[r].op
    BY <1>0, <2>1 DEF Locals
  <2>3. QED
    BY <1>c, <2>1, <2>2
<1>6. CASE RemoveDir(r) \/ WriteConfig(r) \/ Fails(r) \/ Cleanup(r) \/ CleanupFails(r)
  <2>1. CASE RemoveDir(r)
    BY <1>0, <1>c, <2>1 DEF RemoveDir
  <2>2. CASE WriteConfig(r) \/ Fails(r)
    BY <1>c, <1>q, <2>2 DEF WriteConfig, Fails
  <2>3. CASE Cleanup(r) \/ CleanupFails(r)
    BY <1>c, <2>3
  <2>4. QED
    BY <1>6, <2>1, <2>2, <2>3
<1>7. Quit(r) /\ (ReadConfig(r) \/ Sync(r)) => pc[r] \in {"read", "sync"}
  BY DEF ReadConfig, Sync
<1>8. QED
  BY <1>1, <1>2, <1>3, <1>4, <1>5, <1>6, <1>7, <1>q, <1>c DEF Works

-----------------------------------------------------------------------------
(* Who has a temporary directory is an installation that is still under     *)
(* way, or one that could not remove it.                                    *)
TempInv ==
  /\ crashes \in Nat /\ temp \subseteq Requests
  /\ crashes = 0 => \A r \in temp :
                      (pc[r] \notin {"new", "over"} /\ Installs(r)) \/ r \in stuck

LEMMA NextTemp == Shape /\ TempInv /\ [Next]_vars => TempInv'
<1> SUFFICES ASSUME Shape, TempInv, [Next]_vars PROVE TempInv'
  OBVIOUS
<1>1. ASSUME NEW r \in Requests, NEW o \in Operations, Arrive(r, o) PROVE TempInv'
  BY <1>1 DEF Arrive, TempInv, Shape, Goto, Installs, bounds
<1>2. ASSUME NEW r \in Requests, Works(r) PROVE TempInv'
  <2>1. CASE Cleanup(r)
    <3>1. temp' = temp \ {r} /\ UNCHANGED stuck
      BY <2>1 DEF Cleanup, bounds
    <3>2. QED
      BY <1>2, <3>1, WorkFacts DEF TempInv, Installs
  <2>2. CASE CleanupFails(r)
    <3>1. UNCHANGED temp /\ stuck' = stuck \cup {r}
      BY <2>2 DEF CleanupFails
    <3>2. QED
      BY <1>2, <3>1, WorkFacts DEF TempInv, Installs
  <2>3. CASE ~Cleanup(r) /\ ~CleanupFails(r)
    <3>1. UNCHANGED <<temp, stuck>>
      BY <1>2, <2>3
      DEF Works, Unpack, ReadConfig, Sync, Copy, Note, RemoveDir, WriteConfig, Fails, bounds
    <3>2. QED
      BY <1>2, <2>3, <3>1, WorkFacts, KeepsOperation DEF TempInv, Installs
  <2>4. QED
    BY <2>1, <2>2, <2>3
<1>3. CASE Crash
  BY <1>3 DEF Crash, TempInv
<1>4. CASE UNCHANGED <<entries, service, stuck, crashes>>
  BY <1>4 DEF TempInv, Installs, service
<1>5. QED
  BY <1>1, <1>2, <1>3, <1>4, NextCases

(* Without a crash no installation leaves its temporary directory, at       *)
(* whatever file or entry it ended, unless removing it is what failed.      *)
THEOREM InstallationsTidyUp == Spec => []TempDirsGo
<1>1. Init => TempInv
  BY DEF Init, TempInv
<1>2. TempInv => TempDirsGo
  BY DEF TempInv, TempDirsGo
<1>3. QED
  BY <1>1, <1>2, NextTemp, AlwaysShape, PTL DEF Spec

-----------------------------------------------------------------------------
(* A request that nobody works beside is alone, and what it may write       *)
(* switches on what it was asked to.                                        *)
AloneInv == \A r, q \in Active : r \notin overlapped => q = r
Allowed(r, n) ==
  LET next == job[r].next IN
  entries[n] # None /\ next[n] # None /\ entries[n].flag = "off" /\ next[n].flag # "off" =>
    job[r].op.verb = "update" /\ Target(r) = n /\ job[r].op.flag = "on"
FreshInv ==
  \A r \in Requests : pc[r] \in {"sync", "copy", "rm", "write"} /\ r \notin overlapped =>
    job[r].snap = entries /\ \A n \in Names : Allowed(r, n)

LEMMA NextAloneInv == Shape /\ AloneInv /\ [Next]_vars => AloneInv'
<1> SUFFICES ASSUME Shape, AloneInv, [Next]_vars PROVE AloneInv'
  OBVIOUS
<1>1. ASSUME NEW r \in Requests, NEW o \in Operations, Arrive(r, o) PROVE AloneInv'
  <2>1. Active' = Active \cup {r}
    BY <1>1 DEF Arrive, Active, Goto, Shape
  <2>2. QED
    BY <1>1, <2>1 DEF Arrive, AloneInv
<1>2. ASSUME NEW r \in Requests, Works(r) PROVE AloneInv'
  BY <1>2, WorkFacts DEF AloneInv, Active
<1>3. CASE Crash
  BY <1>3 DEF Crash, AloneInv, Active, Shape
<1>4. CASE UNCHANGED <<entries, service, stuck, crashes>>
  BY <1>4 DEF AloneInv, Active, service
<1>5. QED
  BY <1>1, <1>2, <1>3, <1>4, NextCases

LEMMA NextFresh == Shape /\ AloneInv /\ FreshInv /\ [Next]_vars => FreshInv'
<1> SUFFICES ASSUME Shape, AloneInv, FreshInv, [Next]_vars PROVE FreshInv'
  OBVIOUS
<1>1. ASSUME NEW r \in Requests, NEW o \in Operations, Arrive(r, o) PROVE FreshInv'
  BY <1>1 DEF Arrive, FreshInv, Allowed, Target, Goto, Active, Shape
<1>2. ASSUME NEW r \in Requests, Works(r) PROVE FreshInv'
  <2> DEFINE Mine == pc'[r] \in {"sync", "copy", "rm", "write"} /\ r \notin overlapped =>
                       job'[r].snap = entries' /\ \A n \in Names : Allowed(r, n)'
  <2>0. /\ pc \in [Requests -> Stages] /\ DOMAIN job = Requests /\ entries \in Skills
        /\ job[r] \in Locals /\ job[r].op.verb \in {"install", "update", "remove"}
        /\ Target(r) \in Names /\ job[r].op.flag \in Flags
    BY <1>2, WorkFacts, JobFacts, OperationFacts DEF Shape
  <2>1. Mine => FreshInv'
    <3>1. \A q \in Requests \ {r} : q \notin overlapped' => pc'[q] \in {"new", "over"}
      BY <1>2, WorkFacts DEF AloneInv, Active
    <3>2. pc'[r] # "over" => overlapped' = overlapped
      BY <1>2, WorkFacts
    <3>3. QED
      BY <3>1, <3>2 DEF FreshInv
  <2>q. ASSUME Quit(r) PROVE Mine
    BY <2>0, <2>q DEF Quit, Answer, Goto
  <2>2. CASE Unpack(r) \/ Cleanup(r) \/ CleanupFails(r)
    BY <2>0, <2>1, <2>2 DEF Unpack, Cleanup, CleanupFails, Answer, Goto
  <2>3. CASE ReadConfig(r) /\ ~Quit(r)
    <3>1. /\ job'[r] = [job[r] EXCEPT !.snap = entries, !.next = job'[r].next]
          /\ \/ Installs(r) /\ job'[r].next = entries
             \/ job[r].op.verb = "update" /\ job'[r].next = Updated(r) /\ ~Refused(r)
             \/ job[r].op.verb = "remove" /\ job'[r].next = Removed(r)
          /\ UNCHANGED entries
      BY <2>0, <2>3 DEF ReadConfig, Installs, Locals
    <3>2. job'[r].snap = entries' /\ job'[r].op = job[r].op
      BY <2>0, <3>1 DEF Locals
    <3>3. \A n \in Names : Allowed(r, n)'
      BY <2>0, <3>1, <3>2 DEF Allowed, Target, Updated, Removed, Refused, Skills, Entry, Flags
    <3>4. QED
      BY <2>1, <3>2, <3>3
  <2>4. CASE (Sync(r) /\ ~Quit(r)) \/ (\E f \in Files : Copy(r, f)) \/ RemoveDir(r)
    <3>1. /\ UNCHANGED entries /\ pc[r] \in {"sync", "copy", "rm"}
          /\ job'[r].snap = job[r].snap /\ job'[r].next = job[r].next /\ job'[r].op = job[r].op
      BY <2>0, <2>4 DEF Sync, Copy, RemoveDir, Locals
    <3>2. QED
      BY <2>1, <3>1 DEF FreshInv, Allowed, Target
  <2>5. CASE Note(r)
    <3> DEFINE new == [flag |-> FlagOf(job[r].snap[Document(r).name]),
                       version |-> Document(r).version]
    <3>1. job' = [job EXCEPT ![r].next[Document(r).name] = new,
                             ![r].pos = IF job[r].pos = Len(Package(r)) THEN @ ELSE @ + 1]
      BY <2>5 DEF Note
    <3>2. /\ UNCHANGED entries /\ pc[r] = "copy"
          /\ job'[r].snap = job[r].snap /\ job'[r].op = job[r].op
          /\ job'[r].next = [job[r].next EXCEPT ![Document(r).name] = new]
      BY <2>0, <2>5, <3>1 DEF Note, Locals
    <3>3. r \notin overlapped => new.flag = FlagOf(entries[Document(r).name])
      BY <3>2 DEF FreshInv
    <3>4. job[r].next \in Skills
      BY <2>0 DEF Locals
    <3> HIDE DEF new
    <3>5. QED
      BY <2>1, <3>2, <3>3, <3>4 DEF FreshInv, Allowed, Target, FlagOf, Skills
  <2>6. QED
    BY <1>2, <2>1, <2>q, <2>2, <2>3, <2>4, <2>5 DEF Works, WriteConfig, Fails
<1>3. CASE Crash
  BY <1>3 DEF Crash, FreshInv, Active, Shape
<1>4. CASE UNCHANGED <<entries, service, stuck, crashes>>
  BY <1>4 DEF FreshInv, Allowed, Target, service
<1>5. QED
  BY <1>1, <1>2, <1>3, <1>4, NextCases

(* A skill that is switched off is never switched on by an installation, a  *)
(* removal or another skill's update, unless requests overlap.              *)
THEOREM OffStaysOff == Spec => SwitchedOffStaysOff
<1>1. Init => AloneInv /\ FreshInv
  BY DEF Init, AloneInv, FreshInv, Active
<1>2. Shape /\ AloneInv /\ FreshInv /\ [Next]_vars => AloneInv' /\ FreshInv'
  BY NextAloneInv, NextFresh
<1>3. Shape /\ FreshInv /\ [Next]_vars =>
        [\A n \in Names :
           (entries[n] # None /\ entries'[n] # None /\ entries[n].flag = "off"
              /\ entries'[n].flag # "off")
             => \E r \in Requests :
                  /\ pc[r] = "write" /\ pc'[r] # "write"
                  /\ r \in overlapped \/ (job[r].op.verb = "update" /\ Target(r) = n
                                           /\ job[r].op.flag = "on")]_vars
  <2> SUFFICES ASSUME Shape, FreshInv, [Next]_vars, NEW n \in Names,
                      entries[n] # None, entries'[n] # None, entries[n].flag = "off",
                      entries'[n].flag # "off"
               PROVE  \E r \in Requests :
                        /\ pc[r] = "write" /\ pc'[r] # "write"
                        /\ r \in overlapped \/ (job[r].op.verb = "update" /\ Target(r) = n
                                                 /\ job[r].op.flag = "on")
    OBVIOUS
  <2>1. PICK r \in Requests : WriteConfig(r)
    BY NextCases
    DEF Arrive, Works, Unpack, ReadConfig, Sync, Copy, Note, RemoveDir, Fails, Cleanup, CleanupFails, Answer, Crash
  <2>2. pc[r] = "write" /\ pc'[r] # "write" /\ entries' = job[r].next
    BY <2>1 DEF WriteConfig, Quit, Answer, Goto, Shape
  <2>3. r \notin overlapped => Allowed(r, n)
    BY <2>2 DEF FreshInv
  <2>4. QED
    BY <2>2, <2>3 DEF Allowed
<1>4. QED
  BY <1>1, <1>2, <1>3, AlwaysShape, PTL DEF Spec, SwitchedOffStaysOff

-----------------------------------------------------------------------------
(* Each value is of its type; a request that is not at work has no locals.  *)
TypeInv ==
  /\ dir \in [Names -> Dir] /\ temp \subseteq Requests /\ stuck \subseteq Requests
  /\ job = [r \in Requests |-> job[r]]
  /\ \A r \in Requests : pc[r] \in {"new", "over"} => job[r] = None
  /\ clean \in [Names -> BOOLEAN]
  /\ agent \in [index : SUBSET Names, got : [Names -> SUBSET Versions], touched : SUBSET Names]
  /\ faults \in 0..MaxFaults /\ crashes \in 0..MaxCrashes /\ turns \in 0..MaxTurns

\* No skill is in the package twice.
Distinct(r) == Cardinality(Installed(r)) = Len(Package(r))

LEMMA PlacesCount ==
  ASSUME NEW S, NEW s \in Seq(S)
  PROVE  IsFiniteSet(DOMAIN s) /\ Cardinality(DOMAIN s) = Len(s)
<1>1. DOMAIN s = 1..Len(s) /\ Len(s) \in Nat
  OBVIOUS
<1>2. /\ IsFiniteSet(1..Len(s))
      /\ Cardinality(1..Len(s)) = IF 1 > Len(s) THEN 0 ELSE Len(s) - 1 + 1
  BY <1>1, FS_Interval
<1>3. QED
  BY <1>1, <1>2

LEMMA DistinctNames ==
  ASSUME NEW s \in Seq([name : Names, version : Versions]),
         Cardinality({s[i].name : i \in DOMAIN s}) = Len(s),
         NEW i \in DOMAIN s, NEW j \in DOMAIN s, s[i].name = s[j].name
  PROVE  i = j
<1> DEFINE T == {s[k].name : k \in DOMAIN s}
           f == [k \in DOMAIN s |-> s[k].name]
<1>2. IsFiniteSet(DOMAIN s) /\ Cardinality(DOMAIN s) = Len(s)
  BY PlacesCount
<1>3. f \in Surjection(DOMAIN s, T)
  BY DEF Surjection
<1>4. Cardinality(T) = Cardinality(DOMAIN s)
  BY <1>2
<1>5. f[i] = f[j]
  OBVIOUS
<1> HIDE DEF T, f
<1>6. f \in Injection(DOMAIN s, T)
  BY <1>2, <1>3, <1>4, FS_Surjection
<1>7. QED
  BY <1>5, <1>6 DEF Injection, IsInjective

LEMMA FirstOfSome ==
  ASSUME NEW T \in SUBSET Nat, T # {}
  PROVE  (CHOOSE i \in T : \A j \in T : i <= j) \in T
<1> DEFINE R == OpToRel(<, Nat)
<1>1. \A x, y \in Nat : y < x => <<y, x>> \in R
  BY DEF OpToRel
<1>2. IsWellFoundedOn(R, Nat)
  BY NatLessThanWellFounded
<1> HIDE DEF R
<1>3. PICK x \in T : \A y \in T : ~(<<y, x>> \in R)
  BY <1>2, WFMin
<1>4. \A y \in T : x <= y
  <2> TAKE y \in T
  <2>1. x \in Nat /\ y \in Nat
    OBVIOUS
  <2>2. ~(y < x)
    BY <1>1, <1>3, <2>1
  <2>3. QED
    BY <2>1, <2>2
<1>5. QED
  BY <1>3, <1>4

(* What is copied are the files of the first document of that name, which   *)
(* is the document at hand unless the package holds the skill twice.        *)
LEMMA SourceFacts ==
  ASSUME Shape, NEW r \in Requests, pc[r] \in {"sync", "copy"}
  PROVE  /\ job[r].pos \in DOMAIN Package(r)
         /\ Document(r).name \in Names /\ Document(r).version \in Versions
         /\ SourceVersion(r) \in Versions
         /\ Distinct(r) => SourceVersion(r) = Document(r).version
<1>1. /\ Installs(r) /\ job[r].pos \in DOMAIN Package(r)
      /\ Package(r) \in Seq([name : Names, version : Versions])
  BY JobFacts DEF Shape, StageInv
<1>2. \A i \in DOMAIN Package(r) : Package(r)[i] \in [name : Names, version : Versions]
  <2>1. \A S : \A s \in Seq(S) : \A i \in DOMAIN s : s[i] \in S
    OBVIOUS
  <2>2. QED
    BY <1>1, <2>1, Zenon
<1>3. Document(r).name \in Names /\ Document(r).version \in Versions
  BY <1>1, <1>2 DEF Document
<1> DEFINE Named == {i \in DOMAIN Package(r) : Package(r)[i].name = Document(r).name}
           first == CHOOSE i \in Named : \A j \in Named : i <= j
<1>4. first \in Named
  <2>1. job[r].pos \in Named
    BY <1>1 DEF Document
  <2>2. Named \in SUBSET Nat
    BY <1>1
  <2> HIDE DEF Named
  <2>3. QED
    BY <2>1, <2>2, FirstOfSome
<1>5. SourceVersion(r) = Package(r)[first].version
  BY DEF SourceVersion
<1>6. first \in DOMAIN Package(r) /\ Package(r)[first].name = Package(r)[job[r].pos].name
  BY <1>4 DEF Document
<1> HIDE DEF first, Named
<1>7. ASSUME Distinct(r) PROVE first = job[r].pos
  BY <1>1, <1>6, <1>7, DistinctNames DEF Distinct, Installed
<1>8. SourceVersion(r) \in Versions
  BY <1>2, <1>5, <1>6
<1>9. Distinct(r) => SourceVersion(r) = Document(r).version
  BY <1>5, <1>7 DEF Document
<1>10. QED
  BY <1>1, <1>3, <1>8, <1>9

(* A step changes one directory at most, and then counts it as touched.     *)
Touches(n, d) == dir' = [dir EXCEPT ![n] = d] /\ Touch(n)

LEMMA DirectorySteps ==
  ASSUME Shape, TypeInv, NEW r \in Requests, Works(r)
  PROVE  \/ UNCHANGED <<dir, clean, agent>>
         \/ WriteConfig(r)
         \/ \E n \in Names, d \in Dir : Touches(n, d)
<1>1. Gone \in Dir
  BY DEF Gone, Dir
<1>2. CASE Sync(r)
  <2>1. CASE UNCHANGED <<dir, clean, agent>>
    BY <2>1
  <2>2. CASE ~UNCHANGED <<dir, clean, agent>>
    <3>1. Clear(Document(r).name) /\ Touch(Document(r).name) /\ pc[r] = "sync"
      BY <1>2, <2>2 DEF Sync
    <3>2. QED
      BY <1>1, <3>1, SourceFacts DEF Clear, Touches
  <2>3. QED
    BY <2>1, <2>2
<1>3. ASSUME NEW f \in Files, Copy(r, f) PROVE \E n \in Names, d \in Dir : Touches(n, d)
  <2> DEFINE n == Document(r).name
             d == [dir[n] EXCEPT ![f] = SourceVersion(r)]
  <2>1. n \in Names /\ SourceVersion(r) \in Versions
    BY <1>3, SourceFacts DEF Copy
  <2>2. d \in Dir
    BY <2>1 DEF TypeInv, Dir
  <2>3. Touches(n, d)
    BY <1>3 DEF Copy, Touches
  <2>4. QED
    BY <2>1, <2>2, <2>3
<1>4. CASE RemoveDir(r)
  <2>1. Target(r) \in Names
    BY <1>4, JobFacts DEF RemoveDir
  <2>2. QED
    BY <1>1, <1>4, <2>1 DEF RemoveDir, Clear, Touches
<1>5. CASE Fails(r)
  <2>1. CASE UNCHANGED <<dir, clean, agent>>
    BY <2>1
  <2>2. CASE ~UNCHANGED <<dir, clean, agent>>
    <3>1. PICK n \in Names : ClearPartly(n)
      BY <1>5, <2>2, JobFacts, SourceFacts DEF Fails
    <3>2. PICK kept \in SUBSET Files :
            dir' = [dir EXCEPT ![n] = [f \in Files |-> IF f \in kept THEN dir[n][f] ELSE None]]
      BY <3>1 DEF ClearPartly
    <3>3. [f \in Files |-> IF f \in kept THEN dir[n][f] ELSE None] \in Dir
      BY <3>1 DEF TypeInv, Dir
    <3>4. QED
      BY <3>1, <3>2, <3>3 DEF ClearPartly, Touches
  <2>3. QED
    BY <2>1, <2>2
<1>6. CASE Unpack(r) \/ ReadConfig(r) \/ Note(r) \/ Cleanup(r) \/ CleanupFails(r)
  BY <1>6 DEF Unpack, ReadConfig, Note, Cleanup, CleanupFails, Answer
<1>7. QED
  BY <1>2, <1>3, <1>4, <1>5, <1>6 DEF Works

LEMMA TouchFacts ==
  ASSUME TypeInv, NEW n \in Names, NEW d \in Dir, Touches(n, d)
  PROVE  /\ dir' \in [Names -> Dir] /\ dir'[n] = d /\ \A m \in Names \ {n} : dir'[m] = dir[m]
         /\ clean' \in [Names -> BOOLEAN] /\ ~clean'[n]
         /\ \A m \in Names \ {n} : clean'[m] = clean[m]
         /\ agent' = [agent EXCEPT !.touched = @ \cup {n}]
         /\ agent' \in [index : SUBSET Names, got : [Names -> SUBSET Versions], touched : SUBSET Names]
BY DEF Touches, Touch, TypeInv

LEMMA NextType == Shape /\ TypeInv /\ [Next]_vars => TypeInv'
<1> SUFFICES ASSUME Shape, TypeInv, [Next]_vars PROVE TypeInv'
  OBVIOUS
<1> DEFINE AgentType == [index : SUBSET Names, got : [Names -> SUBSET Versions], touched : SUBSET Names]
<1>1. ASSUME NEW r \in Requests, NEW o \in Operations, Arrive(r, o) PROVE TypeInv'
  BY <1>1 DEF Arrive, TypeInv, Goto, Shape, bounds
<1>2. ASSUME NEW r \in Requests, Works(r) PROVE TypeInv'
  <2>1. dir' \in [Names -> Dir] /\ clean' \in [Names -> BOOLEAN] /\ agent' \in AgentType
    <3>1. CASE UNCHANGED <<dir, clean, agent>>
      BY <3>1 DEF TypeInv
    <3>2. CASE WriteConfig(r)
      BY <3>2 DEF WriteConfig, TypeInv
    <3>3. CASE \E n \in Names, d \in Dir : Touches(n, d)
      BY <3>3, TouchFacts
    <3>4. QED
      BY <1>2, <3>1, <3>2, <3>3, DirectorySteps
  <2>2. temp' \subseteq Requests /\ stuck' \subseteq Requests
    BY <1>2 DEF bounds, Works, Unpack, ReadConfig, Sync, Copy, Note, RemoveDir, WriteConfig, Fails, Cleanup, CleanupFails, Answer, TypeInv
  <2>3. \A q \in Requests \ {r} : pc'[q] \in {"new", "over"} => job'[q] = None
    BY <1>2, WorkFacts DEF TypeInv
  <2>4. pc'[r] \in {"new", "over"} => job'[r] = None
    <3>1. pc'[r] \in {"new", "over"} => Quit(r) \/ Answer(r)
      <4>1. pc[r] \notin {"new", "over"} /\ pc \in [Requests -> Stages] /\ pc'[r] # "new"
            /\ job[r].op.verb \in {"install", "update", "remove"}
        BY <1>2, WorkFacts, JobFacts DEF Shape
      <4>2. CASE Unpack(r) \/ Sync(r) \/ (\E f \in Files : Copy(r, f)) \/ Note(r) \/ RemoveDir(r)
        BY <4>1, <4>2 DEF Unpack, Sync, Copy, Note, RemoveDir, Goto
      <4>3. CASE ReadConfig(r)
        BY <4>1, <4>3 DEF ReadConfig, Goto, Installs
      <4>4. CASE WriteConfig(r) \/ Fails(r) \/ Cleanup(r) \/ CleanupFails(r)
        BY <4>4 DEF WriteConfig, Fails, Cleanup, CleanupFails, Answer
      <4>5. QED
        BY <1>2, <4>2, <4>3, <4>4 DEF Works
    <3>2. QED
      BY <3>1 DEF Quit, Cleanup, CleanupFails, Answer, Goto, Shape
  <2>5. faults' \in 0..MaxFaults /\ crashes' = crashes /\ turns' = turns
    <3>1. CASE Fails(r) \/ CleanupFails(r)
      BY <3>1, SkillsAssumption DEF Fails, CleanupFails, TypeInv
    <3>2. CASE ~Fails(r) /\ ~CleanupFails(r)
      BY <1>2, <3>2 DEF Works, Unpack, ReadConfig, Sync, Copy, Note, RemoveDir, WriteConfig, Cleanup, TypeInv,
         bounds
    <3>3. QED
      BY <3>1, <3>2
  <2>6. job' = [q \in Requests |-> job'[q]]
    BY <1>2 DEF Works, Unpack, ReadConfig, Sync, Copy, Note, RemoveDir, WriteConfig, Fails, Cleanup, CleanupFails, Quit, Answer,
       TypeInv
  <2>7. QED
    BY <2>1, <2>2, <2>3, <2>4, <2>5, <2>6 DEF TypeInv
<1>3. CASE Crash
  BY <1>3, SkillsAssumption DEF Crash, TypeInv, NoTurn
<1>4. CASE BuildIndex
  BY <1>4, SkillsAssumption DEF BuildIndex, TypeInv, service
<1>5. ASSUME NEW n \in Names, NEW f \in Files, LoadSkill(n, f) PROVE TypeInv'
  <2>1. dir[n][f] \in Versions
    BY <1>5 DEF LoadSkill, Readable, TypeInv, Dir
  <2>2. agent' \in AgentType
    BY <1>5, <2>1 DEF LoadSkill, TypeInv
  <2>3. QED
    BY <1>5, <2>2 DEF LoadSkill, TypeInv, service, bounds
<1>6. CASE UNCHANGED vars
  BY <1>6 DEF vars, TypeInv, service, bounds
<1>7. QED
  BY <1>1, <1>2, <1>3, <1>4, <1>5, <1>6 DEF Next, Works

LEMMA AlwaysType == Spec => []TypeInv
<1>1. Init => TypeInv
  <2> SUFFICES ASSUME Init PROVE TypeInv
    OBVIOUS
  <2>1. \A v \in Versions : Whole(v) \in Dir
    BY DEF Whole, Dir
  <2>2. \A n \in Names : entries[n] # None => entries[n].version \in Versions
    BY SkillsAssumption DEF Init, Skills, Entry
  <2>3. dir \in [Names -> Dir]
    BY <2>1, <2>2 DEF Init, Gone, Dir
  <2>4. QED
    BY <2>3, SkillsAssumption DEF Init, TypeInv, NoTurn
<1>2. QED
  BY <1>1, NextType, AlwaysShape, PTL DEF Spec

(* Entries, directories and requests range over what the service writes,    *)
(* whatever overlaps, fails or is cut short.                                *)
THEOREM TypeCorrect == Spec => []TypeOK
<1>1. Shape /\ TypeInv => TypeOK
  <2>1. Shape /\ TypeInv => job \in [Requests -> Job \cup {None}]
    <3> SUFFICES ASSUME Shape, TypeInv, NEW r \in Requests PROVE job[r] \in Job \cup {None}
      BY DEF TypeInv
    <3>1. QED
      BY DEF Shape, StageInv, TypeInv, Locals, Job
  <2>2. QED
    BY <2>1 DEF Shape, TypeInv, TypeOK
<1>2. QED
  BY <1>1, AlwaysShape, AlwaysType, PTL

-----------------------------------------------------------------------------
(* While a request is alone, what it will write fits every directory that   *)
(* is in order, and the directories it has made itself.                     *)
Alike(e, f) == (e = None <=> f = None) /\ (e # None => e.version = f.version)
Made(r, i) ==
  LET n == Package(r)[i].name
      v == Package(r)[i].version
  IN  dir[n] = Whole(v) /\ job[r].next[n] # None /\ job[r].next[n].version = v
Partly(r) ==
  dir[Document(r).name] = [f \in Files |-> IF f \in job[r].copied THEN Document(r).version ELSE None]
Fits(r) ==
  /\ \A n \in Names : clean[n] /\ ~(pc[r] = "rm" /\ n = Target(r)) => Alike(job[r].next[n], entries[n])
  /\ job[r].op.verb = "remove" =>
       job[r].next[Target(r)] = None /\ (pc[r] = "write" => dir[Target(r)] = Gone)
  /\ pc[r] = "copy" => ~clean[Document(r).name]
  /\ Installs(r) /\ Distinct(r) =>
       /\ \A i \in DOMAIN Package(r) : i < job[r].pos \/ pc[r] = "write" => Made(r, i)
       /\ pc[r] = "copy" => Partly(r) /\ job[r].copied \subseteq FilesOf(Document(r).version)
OrderInv ==
  /\ SettledSkillsAgree
  /\ \A r \in Requests :
       pc[r] \in {"sync", "copy", "rm", "write"} /\ r \notin overlapped => Fits(r)


(* Nothing but a step of its own reaches a request that is alone.           *)
LEMMA AloneSteps ==
  ASSUME Shape, AloneInv, NEW r \in Requests, Works(r)
  PROVE  /\ \A q \in Requests \ {r} : q \notin overlapped' => pc'[q] \in {"new", "over"}
         /\ pc'[r] # "over" => overlapped' = overlapped
BY WorkFacts DEF AloneInv, Active

(* What the documents before the one at hand made is left alone.            *)
LEMMA MadeKept ==
  ASSUME Shape, NEW r \in Requests, pc[r] \in {"sync", "copy"}, Distinct(r),
         NEW i \in DOMAIN Package(r), i # job[r].pos, Made(r, i),
         job'[r].op = job[r].op,
         \A n \in Names \ {Document(r).name} : dir'[n] = dir[n] /\ job'[r].next[n] = job[r].next[n]
  PROVE  Made(r, i)'
<1>1. Package(r) \in Seq([name : Names, version : Versions]) /\ Package(r)' = Package(r)
  BY JobFacts DEF Package
<1>2. job[r].pos \in DOMAIN Package(r)
  BY SourceFacts
<1>3. Package(r)[i].name # Document(r).name
  BY <1>1, <1>2, DistinctNames DEF Distinct, Installed, Document
<1>4. Package(r)[i].name \in Names
  <2>1. \A S : \A s \in Seq(S) : \A k \in DOMAIN s : s[k] \in S
    OBVIOUS
  <2>2. Package(r)[i] \in [name : Names, version : Versions]
    BY <1>1, <2>1, Zenon
  <2>3. QED
    BY <2>2
<1>5. QED
  BY <1>1, <1>3, <1>4 DEF Made

LEMMA ReadFits ==
  ASSUME Shape, OrderInv, NEW r \in Requests, ReadConfig(r), ~Quit(r)
  PROVE  Fits(r)'
<1>0. /\ pc \in [Requests -> Stages] /\ DOMAIN job = Requests /\ entries \in Skills
      /\ pc[r] = "read" /\ job[r] \in Locals /\ Target(r) \in Names
      /\ job[r].op.verb \in {"install", "update", "remove"}
      /\ job[r].pos = 1
  BY JobFacts DEF ReadConfig, Shape, StageInv
<1>1. /\ UNCHANGED <<entries, dir, clean>>
      /\ job'[r] = [job[r] EXCEPT !.snap = entries, !.next = job'[r].next]
      /\ \/ Installs(r) /\ job'[r].next = entries /\ pc'[r] = "sync"
         \/ job[r].op.verb = "update" /\ job'[r].next = Updated(r) /\ ~Refused(r) /\ pc'[r] = "write"
         \/ job[r].op.verb = "remove" /\ job'[r].next = Removed(r) /\ pc'[r] = "rm"
  <2> DEFINE next == CASE Installs(r) -> entries
                       [] job[r].op.verb = "update" -> Updated(r)
                       [] job[r].op.verb = "remove" -> Removed(r)
  <2>1. /\ job' = [job EXCEPT ![r].snap = entries, ![r].next = next]
        /\ UNCHANGED <<entries, dir, clean>>
        /\ Installs(r) \/ ~Refused(r)
        /\ pc'[r] = CASE Installs(r) -> "sync"
                     [] job[r].op.verb = "update" -> "write"
                     [] job[r].op.verb = "remove" -> "rm"
    BY <1>0 DEF ReadConfig, Goto
  <2>2. \/ Installs(r) /\ next = entries /\ pc'[r] = "sync"
        \/ job[r].op.verb = "update" /\ next = Updated(r) /\ ~Refused(r) /\ pc'[r] = "write"
        \/ job[r].op.verb = "remove" /\ next = Removed(r) /\ pc'[r] = "rm"
    BY <1>0, <2>1 DEF Installs
  <2> HIDE DEF next
  <2>3. job'[r] = [job[r] EXCEPT !.snap = entries, !.next = next]
    BY <1>0, <2>1 DEF Locals
  <2>4. job'[r].next = next
    BY <1>0, <2>3 DEF Locals
  <2>5. job'[r] = [job[r] EXCEPT !.snap = entries, !.next = job'[r].next]
    BY <2>3, <2>4
  <2>6. QED
    BY <2>1, <2>2, <2>4, <2>5
<1>2. job'[r].op = job[r].op /\ job'[r].pos = 1
  BY <1>0, <1>1 DEF Locals
<1>3. CASE Installs(r)
  <2>1. \A i \in DOMAIN Package(r) : ~(i < 1)
    BY JobFacts, <1>0
  <2>2. QED
    BY <1>0, <1>1, <1>2, <1>3, <2>1 DEF Fits, Alike, Installs, Package
<1>4. CASE job[r].op.verb = "update"
  <2>1. \A n \in Names : Alike(Updated(r)[n], entries[n])
    <3>1. entries[Target(r)] # None /\ entries[Target(r)] \in Entry
      BY <1>0, <1>1, <1>4 DEF Refused, Installs, Skills
    <3> DEFINE e == [entries[Target(r)] EXCEPT !.flag = job[r].op.flag]
    <3>2. job[r].op.flag \in Flags
      BY <1>0, JobFacts, OperationFacts
    <3>3. e \in Entry /\ e.version = entries[Target(r)].version
      BY <3>1, <3>2 DEF Entry
    <3>4. e # None
      BY <3>3, SkillsAssumption
    <3>5. Updated(r) = [entries EXCEPT ![Target(r)] = e]
      BY DEF Updated
    <3> HIDE DEF e
    <3>6. QED
      BY <1>0, <3>1, <3>3, <3>4, <3>5 DEF Alike, Skills
  <2>2. QED
    BY <1>0, <1>1, <1>2, <1>4, <2>1 DEF Fits, Installs
<1>5. CASE job[r].op.verb = "remove"
  <2>1. Removed(r)[Target(r)] = None /\ \A n \in Names \ {Target(r)} : Alike(Removed(r)[n], entries[n])
    BY <1>0 DEF Removed, Alike, Skills
  <2>2. QED
    BY <1>0, <1>1, <1>2, <1>5, <2>1 DEF Fits, Installs, Target
<1>6. QED
  BY <1>0, <1>3, <1>4, <1>5 DEF Installs

LEMMA SyncFits ==
  ASSUME Shape, TypeInv, OrderInv, NEW r \in Requests, Sync(r), r \notin overlapped, ~Quit(r)
  PROVE  Fits(r)'
<1>0. /\ pc \in [Requests -> Stages] /\ DOMAIN job = Requests
      /\ pc[r] = "sync" /\ job[r] \in Locals /\ Installs(r) /\ Fits(r)
      /\ Document(r).name \in Names /\ Gone \in Dir
  BY JobFacts, SourceFacts DEF Sync, Shape, StageInv, OrderInv, Gone, Dir
<1> DEFINE d == Document(r).name
<1>1. /\ Touches(d, Gone) /\ pc'[r] = "copy" /\ UNCHANGED entries
      /\ job'[r] = [job[r] EXCEPT !.copied = {}]
  BY <1>0 DEF Sync, Goto, Clear, Touches
<1>2. /\ job'[r].op = job[r].op /\ job'[r].pos = job[r].pos /\ job'[r].next = job[r].next
      /\ job'[r].copied = {}
  BY <1>0, <1>1 DEF Locals
<1>3. /\ dir'[d] = Gone /\ ~clean'[d]
      /\ \A m \in Names \ {d} : dir'[m] = dir[m] /\ clean'[m] = clean[m]
  BY <1>0, <1>1, TouchFacts
<1>4. Document(r)' = Document(r) /\ Package(r)' = Package(r) /\ Installs(r)' /\ Distinct(r)' = Distinct(r)
  BY <1>0, <1>2 DEF Document, Package, Installs, Distinct, Installed
<1>5. Partly(r)'
  BY <1>2, <1>3, <1>4 DEF Partly, Gone
<1>6. ASSUME Distinct(r), NEW i \in DOMAIN Package(r), i < job[r].pos PROVE Made(r, i)'
  <2>1. Made(r, i) /\ i # job[r].pos
    BY <1>0, <1>6 DEF Fits, Locals
  <2>2. QED
    BY <1>0, <1>2, <1>3, <1>6, <2>1, MadeKept
<1>7. job[r].op.verb = "install"
  BY <1>0 DEF Installs
<1>8. \A n \in Names : clean'[n] => Alike(job'[r].next[n], entries'[n])
  BY <1>0, <1>1, <1>2, <1>3 DEF Fits
<1> HIDE DEF d
<1>9. QED
  BY <1>1, <1>2, <1>3, <1>4, <1>5, <1>6, <1>7, <1>8 DEF Fits, d

LEMMA CopyFits ==
  ASSUME Shape, TypeInv, OrderInv, NEW r \in Requests, NEW f \in Files, Copy(r, f), r \notin overlapped
  PROVE  Fits(r)'
<1>0. /\ DOMAIN job = Requests
      /\ pc[r] = "copy" /\ job[r] \in Locals /\ Installs(r) /\ Fits(r)
      /\ Document(r).name \in Names /\ SourceVersion(r) \in Versions
      /\ Distinct(r) => SourceVersion(r) = Document(r).version
  BY JobFacts, SourceFacts DEF Copy, Shape, StageInv, OrderInv
<1> DEFINE d == Document(r).name
           new == [dir[d] EXCEPT ![f] = SourceVersion(r)]
<1>1. /\ Touches(d, new) /\ UNCHANGED <<entries, pc>>
      /\ f \in FilesOf(SourceVersion(r))
      /\ job'[r] = [job[r] EXCEPT !.copied = @ \cup {f}]
  BY <1>0 DEF Copy, Touches
<1>2. /\ job'[r].op = job[r].op /\ job'[r].pos = job[r].pos /\ job'[r].next = job[r].next
      /\ job'[r].copied = job[r].copied \cup {f}
  BY <1>0, <1>1 DEF Locals
<1>3. dir[d] \in Dir /\ new \in Dir
  BY <1>0 DEF TypeInv, Dir
<1>4. /\ dir'[d] = new /\ ~clean'[d]
      /\ \A m \in Names \ {d} : dir'[m] = dir[m] /\ clean'[m] = clean[m]
  <2> HIDE DEF new
  <2>1. QED
    BY <1>0, <1>1, <1>3, TouchFacts
<1>5. Document(r)' = Document(r) /\ Package(r)' = Package(r) /\ Installs(r)' /\ Distinct(r)' = Distinct(r)
  BY <1>0, <1>2 DEF Document, Package, Installs, Distinct, Installed
<1>6. ASSUME Distinct(r) PROVE Partly(r)' /\ job'[r].copied \subseteq FilesOf(Document(r).version)
  <2>1. dir[d] = [g \in Files |-> IF g \in job[r].copied THEN Document(r).version ELSE None]
    BY <1>0, <1>6 DEF Fits, Partly
  <2>2. new = [g \in Files |-> IF g \in job[r].copied \cup {f} THEN Document(r).version ELSE None]
    BY <1>0, <1>3, <1>6, <2>1 DEF Dir
  <2>3. Partly(r)'
    BY <1>2, <1>4, <1>5, <2>2 DEF Partly
  <2>4. QED
    BY <1>0, <1>1, <1>2, <1>6, <2>3 DEF Fits
<1>7. ASSUME Distinct(r), NEW i \in DOMAIN Package(r), i < job[r].pos PROVE Made(r, i)'
  <2>1. Made(r, i) /\ i # job[r].pos
    BY <1>0, <1>7 DEF Fits, Locals
  <2>2. QED
    BY <1>0, <1>2, <1>4, <1>7, <2>1, MadeKept
<1>8. job[r].op.verb = "install"
  BY <1>0 DEF Installs
<1>9. \A n \in Names : clean'[n] => Alike(job'[r].next[n], entries'[n])
  BY <1>0, <1>1, <1>2, <1>4 DEF Fits
<1>10. pc'[r] = "copy"
  BY <1>0, <1>1
<1> HIDE DEF d, new
<1>11. QED
  BY <1>2, <1>4, <1>5, <1>6, <1>7, <1>8, <1>9, <1>10 DEF Fits, d

LEMMA NoteFits ==
  ASSUME Shape, TypeInv, OrderInv, NEW r \in Requests, Note(r), r \notin overlapped
  PROVE  Fits(r)'
<1>0. /\ pc \in [Requests -> Stages] /\ DOMAIN job = Requests
      /\ pc[r] = "copy" /\ job[r] \in Locals /\ Installs(r) /\ Fits(r)
      /\ job[r].pos \in DOMAIN Package(r) /\ Package(r) \in Seq([name : Names, version : Versions])
      /\ Document(r).name \in Names
      /\ Distinct(r) => SourceVersion(r) = Document(r).version
  BY JobFacts, SourceFacts DEF Note, Shape, StageInv, OrderInv
<1> DEFINE d == Document(r).name
           new == [flag |-> FlagOf(job[r].snap[d]), version |-> Document(r).version]
           pos == IF job[r].pos = Len(Package(r)) THEN job[r].pos ELSE job[r].pos + 1
           next == [job[r].next EXCEPT ![d] = new]
<1>1. /\ UNCHANGED <<entries, dir, clean>> /\ job[r].copied = FilesOf(SourceVersion(r))
      /\ job' = [job EXCEPT ![r].next[d] = new, ![r].pos = IF job[r].pos = Len(Package(r)) THEN @ ELSE @ + 1]
      /\ pc'[r] = IF job[r].pos = Len(Package(r)) THEN "write" ELSE "sync"
  BY <1>0 DEF Note, Goto
<1>2. job'[r] = [job[r] EXCEPT !.next = next, !.pos = pos]
  BY <1>0, <1>1 DEF Locals
<1> HIDE DEF new, pos, next
<1>3. job'[r].op = job[r].op /\ job'[r].next = next /\ job'[r].pos = pos
  BY <1>0, <1>2 DEF Locals
<1>4. next[d] = new /\ \A m \in Names \ {d} : next[m] = job[r].next[m]
  BY <1>0 DEF Locals, Skills, next
<1>5. Package(r)' = Package(r) /\ Installs(r)' /\ Distinct(r)' = Distinct(r)
  BY <1>0, <1>3 DEF Package, Installs, Distinct, Installed
<1>6. \A n \in Names : clean'[n] => Alike(job'[r].next[n], entries'[n])
  BY <1>0, <1>1, <1>3, <1>4 DEF Fits
<1>7. ASSUME Distinct(r), NEW i \in DOMAIN Package(r), i < pos \/ pc'[r] = "write" PROVE Made(r, i)'
  <2>1. i = job[r].pos \/ i < job[r].pos
    BY <1>0, <1>1, <1>7 DEF pos
  <2>2. CASE i < job[r].pos
    <3>1. Made(r, i) /\ i # job[r].pos
      BY <1>0, <1>7, <2>2 DEF Fits, Locals
    <3>2. QED
      BY <1>0, <1>1, <1>3, <1>4, <1>7, <3>1, MadeKept
  <2>3. CASE i = job[r].pos
    <3>1. dir[d] = Whole(Document(r).version)
      BY <1>0, <1>1, <1>7 DEF Fits, Partly, Whole
    <3>2. new # None
      <4>1. FlagOf(job[r].snap[d]) \in Flags /\ Document(r).version \in Versions
        BY <1>0, FlagIsFlag, SourceFacts DEF Locals, Skills
      <4>2. new \in Entry
        BY <4>1 DEF new, Entry
      <4>3. QED
        BY <4>2, SkillsAssumption
    <3>3. new.version = Document(r).version
      BY DEF new
    <3>4. QED
      BY <1>1, <1>3, <1>4, <1>5, <2>3, <3>1, <3>2, <3>3 DEF Made, Document
  <2>4. QED
    BY <2>1, <2>2, <2>3
<1>8. job[r].op.verb = "install" /\ pc'[r] # "copy" /\ pc'[r] # "rm"
  BY <1>0, <1>1 DEF Installs
<1>9. QED
  BY <1>3, <1>5, <1>6, <1>7, <1>8 DEF Fits

LEMMA FitsKept ==
  ASSUME NEW r \in Requests, Fits(r), UNCHANGED <<entries, dir, clean>>, job'[r] = job[r], pc'[r] = pc[r]
  PROVE  Fits(r)'
BY DEF Fits, Alike, Made, Partly, Target, Installs, Distinct, Installed, Package, Document

LEMMA NextOrder == Shape /\ TypeInv /\ AloneInv /\ OrderInv /\ [Next]_vars => OrderInv'
<1> SUFFICES ASSUME Shape, TypeInv, AloneInv, OrderInv, [Next]_vars PROVE OrderInv'
  OBVIOUS
<1> DEFINE Middle == {"sync", "copy", "rm", "write"}
<1>1. ASSUME NEW r \in Requests, NEW o \in Operations, Arrive(r, o) PROVE OrderInv'
  <2>1. /\ UNCHANGED <<entries, dir, clean>>
        /\ \A q \in Requests : pc'[q] \in Middle /\ q \notin overlapped' =>
             q \notin overlapped /\ pc'[q] = pc[q] /\ job'[q] = job[q]
    BY <1>1 DEF Arrive, Goto, Shape, Active
  <2>2. QED
    BY <2>1, FitsKept DEF OrderInv, SettledSkillsAgree
<1>2. ASSUME NEW r \in Requests, Works(r) PROVE OrderInv'
  <2>1. ASSUME pc'[r] \in Middle, r \notin overlapped' PROVE Fits(r)'
    <3>1. r \notin overlapped /\ ~Quit(r) /\ ~Cleanup(r) /\ ~CleanupFails(r) /\ pc'[r] \notin {"cleanup", "over"}
      BY <1>2, <2>1, AloneSteps, WorkFacts DEF Quit, Cleanup, CleanupFails, Answer, Goto, Shape
    <3>2. CASE Unpack(r)
      BY <2>1, <3>2, WorkFacts DEF Unpack, Goto, Shape
    <3>3. CASE RemoveDir(r)
      <4>1. /\ pc[r] = "rm" /\ pc'[r] = "write" /\ Touches(Target(r), Gone) /\ UNCHANGED <<job, entries>>
            /\ Target(r) \in Names /\ Gone \in Dir /\ Fits(r) /\ job[r].op.verb = "remove"
        BY <3>1, <3>3, JobFacts DEF RemoveDir, Goto, Clear, Touches, Shape, StageInv, OrderInv, Gone, Dir
      <4>2. /\ dir'[Target(r)] = Gone /\ ~clean'[Target(r)]
            /\ \A m \in Names \ {Target(r)} : clean'[m] = clean[m]
        BY <4>1, TouchFacts
      <4>3. \A n \in Names : clean'[n] => Alike(job'[r].next[n], entries'[n])
        BY <4>1, <4>2 DEF Fits
      <4>4. QED
        BY <4>1, <4>2, <4>3 DEF Fits, Target, Installs
    <3>4. QED
      BY <1>2, <3>1, <3>2, <3>3, ReadFits, SyncFits, CopyFits, NoteFits DEF Works, WriteConfig, Fails
  <2>2. \A q \in Requests : pc'[q] \in Middle /\ q \notin overlapped' => Fits(q)'
    BY <1>2, <2>1, AloneSteps
  <2>3. CASE WriteConfig(r)
    <3>1. pc[r] = "write" /\ entries' = job[r].next /\ UNCHANGED dir
          /\ clean' = [n \in Names |-> n \in InOrder(r)] /\ job[r] \in Locals
          /\ job[r].op.verb \in {"install", "update", "remove"}
      BY <2>3, JobFacts DEF WriteConfig
    <3>2. ASSUME NEW n \in Names, clean'[n]
          PROVE  dir'[n] = IF entries'[n] = None THEN Gone ELSE Whole(entries'[n].version)
      <4>1. n \in InOrder(r)
        BY <3>1, <3>2
      <4>2. r \notin overlapped
        BY <4>1 DEF InOrder
      <4>3. Fits(r)
        BY <3>1, <4>2 DEF OrderInv
      <4>4. \/ clean[n]
            \/ job[r].op.verb = "remove" /\ n = Target(r)
            \/ Installs(r) /\ Distinct(r) /\ n \in Installed(r)
        BY <4>1, <4>2 DEF InOrder, Distinct, Installs
      <4>5. CASE clean[n]
        <5>1. Alike(job[r].next[n], entries[n])
          BY <3>1, <4>3, <4>5 DEF Fits
        <5>2. dir[n] = IF entries[n] = None THEN Gone ELSE Whole(entries[n].version)
          BY <4>5 DEF OrderInv, SettledSkillsAgree
        <5>3. QED
          BY <3>1, <5>1, <5>2 DEF Alike
      <4>6. CASE job[r].op.verb = "remove" /\ n = Target(r)
        BY <3>1, <4>3, <4>6 DEF Fits
      <4>7. CASE Installs(r) /\ Distinct(r) /\ n \in Installed(r)
        <5>1. PICK i \in DOMAIN Package(r) : n = Package(r)[i].name
          BY <4>7 DEF Installed
        <5>2. Made(r, i)
          BY <3>1, <4>3, <4>7 DEF Fits
        <5>3. QED
          BY <3>1, <5>1, <5>2 DEF Made
      <4>8. QED
        BY <4>4, <4>5, <4>6, <4>7
    <3>3. SettledSkillsAgree'
      BY <3>2 DEF SettledSkillsAgree
    <3>4. QED
      BY <2>2, <3>3 DEF OrderInv
  <2>4. CASE ~WriteConfig(r)
    <3>1. UNCHANGED entries
      BY <1>2, <2>4 DEF Works, Unpack, ReadConfig, Sync, Copy, Note, RemoveDir, Fails, Cleanup, CleanupFails, Answer
    <3>2. \A n \in Names : clean'[n] => clean[n] /\ dir'[n] = dir[n]
      <4>1. CASE UNCHANGED <<dir, clean, agent>>
        BY <4>1
      <4>2. ASSUME NEW m \in Names, NEW d \in Dir, Touches(m, d) PROVE <3>2
        BY <4>2, TouchFacts
      <4>3. QED
        BY <1>2, <2>4, <4>1, <4>2, DirectorySteps
    <3>3. QED
      BY <2>2, <3>1, <3>2 DEF OrderInv, SettledSkillsAgree
  <2>5. QED
    BY <2>3, <2>4
<1>3. CASE Crash
  <2>1. /\ UNCHANGED <<entries, dir, clean>> /\ \A r \in Requests : pc'[r] \in {"new", "over"}
    BY <1>3 DEF Crash, Active, Shape
  <2>2. QED
    BY <2>1 DEF OrderInv, SettledSkillsAgree
<1>4. CASE UNCHANGED <<entries, dir, clean, service>>
  BY <1>4, FitsKept DEF OrderInv, SettledSkillsAgree, service
<1>5. QED
  BY <1>1, <1>2, <1>3, <1>4 DEF Next, Works, BuildIndex, LoadSkill, vars

LEMMA AlwaysAlone == Spec => []AloneInv
<1>1. Init => AloneInv
  BY DEF Init, AloneInv, Active
<1>2. QED
  BY <1>1, NextAloneInv, AlwaysShape, PTL DEF Spec

LEMMA AlwaysOrder == Spec => []OrderInv
<1>1. Init => OrderInv
  BY DEF Init, OrderInv, SettledSkillsAgree
<1>2. QED
  BY <1>1, NextOrder, AlwaysShape, AlwaysType, AlwaysAlone, PTL DEF Spec

(* Whatever crashes, failing copies and overlapping requests left behind, a *)
(* skill whose last operation succeeded alone has an entry and a directory  *)
(* that agree, for packages of any number of skills.                        *)
THEOREM OperationsRepair == Spec => []SettledSkillsAgree
BY AlwaysOrder, PTL DEF OrderInv

-----------------------------------------------------------------------------
(* A skill that was in order when the turn began and was not touched since  *)
(* still has the one version that the turn has read.                        *)
ReadInv ==
  \A n \in Names \ agent.touched :
    \/ dir[n] = Gone /\ agent.got[n] = {}
    \/ \E v \in Versions : dir[n] = Whole(v) /\ agent.got[n] \subseteq {v}

LEMMA NextRead == Shape /\ TypeInv /\ OrderInv /\ ReadInv /\ [Next]_vars => ReadInv'
<1> SUFFICES ASSUME Shape, TypeInv, OrderInv, ReadInv, [Next]_vars PROVE ReadInv'
  OBVIOUS
<1>0. /\ agent \in [index : SUBSET Names, got : [Names -> SUBSET Versions], touched : SUBSET Names]
      /\ dir \in [Names -> Dir]
  BY DEF TypeInv
<1>1. ASSUME NEW r \in Requests, Works(r) PROVE ReadInv'
  <2>1. CASE UNCHANGED <<dir, agent>>
    BY <2>1 DEF ReadInv
  <2>2. ASSUME NEW n \in Names, NEW d \in Dir, Touches(n, d) PROVE ReadInv'
    <3>1. \A m \in Names \ {n} : dir'[m] = dir[m]
      BY <2>2, TouchFacts
    <3>2. agent'.got = agent.got /\ agent'.touched = agent.touched \cup {n}
      BY <1>0, <2>2 DEF Touches, Touch
    <3>3. QED
      BY <3>1, <3>2 DEF ReadInv
  <2>3. QED
    BY <1>1, <2>1, <2>2, DirectorySteps DEF WriteConfig
<1>2. CASE BuildIndex
  <2>1. /\ agent'.touched = {n \in Names : ~clean[n]} /\ agent'.got = [n \in Names |-> {}]
        /\ UNCHANGED dir
    BY <1>2 DEF BuildIndex
  <2>2. \A n \in Names : entries[n] # None => entries[n].version \in Versions
    BY DEF Shape, Skills, Entry
  <2>3. ASSUME NEW n \in Names, clean[n]
        PROVE  dir[n] = Gone \/ \E v \in Versions : dir[n] = Whole(v)
    BY <2>2, <2>3 DEF OrderInv, SettledSkillsAgree
  <2>4. QED
    BY <2>1, <2>3 DEF ReadInv
<1>3. ASSUME NEW n \in Names, NEW f \in Files, LoadSkill(n, f) PROVE ReadInv'
  <2>1. /\ dir[n][f] # None /\ UNCHANGED dir
        /\ agent' = [agent EXCEPT !.got[n] = @ \cup {dir[n][f]}]
    BY <1>3 DEF LoadSkill, Readable
  <2>2. /\ agent'.touched = agent.touched
        /\ agent'.got[n] = agent.got[n] \cup {dir[n][f]}
        /\ \A m \in Names \ {n} : agent'.got[m] = agent.got[m]
    BY <1>0, <2>1
  <2>3. dir[n] # Gone
    BY <2>1 DEF Gone
  <2>4. \A v \in Versions : dir[n] = Whole(v) => dir[n][f] = v
    BY <2>1 DEF Whole
  <2>5. QED
    BY <2>1, <2>2, <2>3, <2>4 DEF ReadInv
<1>4. CASE Crash
  <2>1. agent'.touched = Names
    BY <1>4 DEF Crash, NoTurn
  <2>2. QED
    BY <2>1 DEF ReadInv
<1>5. CASE UNCHANGED vars \/ \E r \in Requests, o \in Operations : Arrive(r, o)
  BY <1>5 DEF vars, Arrive, ReadInv
<1>6. QED
  BY <1>1, <1>2, <1>3, <1>4, <1>5 DEF Next, Works

(* Whatever is installed, removed or fails beside it, an agent's turn reads *)
(* files of one version of a skill that was in order when the turn began    *)
(* and whose directory nobody touched since.                                *)
THEOREM OneVersionPerTurn == Spec => []TurnSeesOneVersion
<1>1. Init => ReadInv
  BY DEF Init, ReadInv, NoTurn
<1>2. Spec => []ReadInv
  BY <1>1, NextRead, AlwaysShape, AlwaysType, AlwaysOrder, PTL DEF Spec
<1>3. ReadInv => TurnSeesOneVersion
  <2> SUFFICES ASSUME ReadInv, NEW n \in Names \ agent.touched
               PROVE  Cardinality(agent.got[n]) <= 1
    BY DEF TurnSeesOneVersion
  <2>1. agent.got[n] = {} \/ \E v \in Versions : agent.got[n] = {v}
    BY DEF ReadInv
  <2>2. CASE agent.got[n] = {}
    <3>1. Cardinality(agent.got[n]) = 0
      BY <2>2, FS_EmptySet
    <3>2. QED
      BY <3>1
  <2>3. ASSUME NEW v \in Versions, agent.got[n] = {v} PROVE Cardinality(agent.got[n]) <= 1
    <3>1. Cardinality(agent.got[n]) = 1
      BY <2>3, FS_Singleton
    <3>2. QED
      BY <3>1
  <2>4. QED
    BY <2>1, <2>2, <2>3
<1>4. QED
  BY <1>2, <1>3, PTL
=============================================================================
