------------------------------ MODULE AgentMemory ------------------------------
(***************************************************************************)
(* LongTermMemoryStore: the facts that agents remember across              *)
(* conversations, in JSON files.  createMemoryTools reads the file when a  *)
(* turn is prepared; the turn's remember and recall work on that copy, and *)
(* every remember rewrites the whole file from it.                         *)
(*                                                                         *)
(* A file is named after what safeSegment leaves of its agent's name, so   *)
(* that agents whose names differ in characters it replaces share a file.  *)
(*                                                                         *)
(* The vector layer is left out: it chooses among the records of the copy, *)
(* and only for queries that are not a key.                                *)
(***************************************************************************)
CONSTANTS
  Turns, FactKeys, Texts, Missing, Torn, NoFact,
  Agents,  \* the names that agents may have
  FileOf   \* FileOf[a]: the name of a's file, from safeSegment

VARIABLES
  memory,  \* memory[p]: the file of this name
  copy,    \* copy[t]: file and records of turn t's store; NoFact when it has none
  told,    \* history, told[p][k]: what agents were told is saved and is owed since
  tried,   \* history, tried[p][k]: what they failed to save after that
  stale    \* history: turns whose copy is older than its file

memories == <<memory, copy, told, tried, stale>>

Paths == {FileOf[a] : a \in Agents}
Facts == [FactKeys -> Texts \cup {NoFact}]
NoFacts == [k \in FactKeys |-> NoFact]
Copies == [path : Paths, records : Facts]

ASSUME MemoryAssumption ==
  NoFact \notin Texts \cup Copies /\ Missing \notin Facts \cup {Torn} /\ Torn \notin Facts

MemoryInit ==
  /\ memory = [p \in Paths |-> Missing]
  /\ copy = [t \in Turns |-> NoFact]
  /\ told = [p \in Paths |-> NoFacts]
  /\ tried = [p \in Paths |-> [k \in FactKeys |-> {}]]
  /\ stale = {}

\* Defect: the file is not read.
LoadNothing(p) == NoFacts
\* load: a file that does not parse is as good as none.
Load(p) == IF memory[p] \in {Missing, Torn} THEN NoFacts ELSE memory[p]

\* readable: whether the disk lets load read the file; if not, there is none.
OpenMemory(t, a, readable) ==
  /\ copy' = [copy EXCEPT ![t] = [path |-> FileOf[a],
                                  records |-> IF readable THEN Load(FileOf[a]) ELSE NoFacts]]
  /\ stale' = IF copy'[t].records = Load(FileOf[a]) THEN stale ELSE stale \cup {t}
  /\ UNCHANGED <<memory, told, tried>>

DropMemory(t) ==
  /\ copy' = [copy EXCEPT ![t] = NoFact]
  /\ stale' = stale \ {t}
  /\ UNCHANGED <<memory, told, tried>>

Sharing(t) == {u \in Turns : copy[u] # NoFact /\ copy[u].path = copy[t].path}

\* What a copy that is older than the file does not have is lost with the save.
Remember(t, k, x) ==
  LET p == copy[t].path IN
  /\ copy' = [copy EXCEPT ![t].records[k] = x]
  /\ memory' = [memory EXCEPT ![p] = copy'[t].records]
  /\ told' = [told EXCEPT ![p] = [(IF t \in stale THEN NoFacts ELSE @) EXCEPT ![k] = x]]
  /\ tried' = [tried EXCEPT ![p][k] = {}]
  /\ stale' = (stale \cup Sharing(t)) \ {t}

\* The tool throws and the copy has the record: the directory or the file could
\* not be opened, or the write failed after the file was truncated.
RememberFails(t, k, x) ==
  LET p == copy[t].path IN
  /\ copy' = [copy EXCEPT ![t].records[k] = x]
  /\ tried' = [tried EXCEPT ![p][k] = @ \cup {x}]
  /\ \/ UNCHANGED <<memory, told>>
     \/ memory' = [memory EXCEPT ![p] = Torn] /\ told' = [told EXCEPT ![p] = NoFacts]
  /\ UNCHANGED stale

\* recall of a key.
Recall(records, k) == records[k]

\* The process dies, perhaps while one of these turns saves.
MemoryCrash(savers) ==
  /\ copy' = [t \in Turns |-> NoFact] /\ stale' = {}
  /\ \/ UNCHANGED <<memory, told>>
     \/ \E t \in savers :
          /\ memory' = [memory EXCEPT ![copy[t].path] = Torn]
          /\ told' = [told EXCEPT ![copy[t].path] = NoFacts]
  /\ UNCHANGED tried

MemoryTypeOK ==
  /\ memory \in [Paths -> Facts \cup {Missing, Torn}]
  /\ copy \in [Turns -> Copies \cup {NoFact}]
  /\ told \in [Paths -> Facts]
  /\ tried \in [Paths -> [FactKeys -> SUBSET Texts]]
  /\ stale \subseteq Turns

(* What an agent was told is saved is what the next turn recalls under that *)
(* key, or a value that failed to be saved since and got into the file with *)
(* a later fact.  This ends when a write of the file is cut short, and when *)
(* a turn saves whose copy is older than the fact: one that began before it *)
(* was saved, of this agent or one with the same file, or that could not    *)
(* read the file.                                                           *)
RememberedFactsStay ==
  \A p \in Paths, k \in FactKeys :
    told[p][k] # NoFact => Recall(Load(p), k) \in {told[p][k]} \cup tried[p][k]
=============================================================================
