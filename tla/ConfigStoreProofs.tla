------------------------- MODULE ConfigStoreProofs -------------------------
(***************************************************************************)
(* Proofs about ConfigStore for every set of requests, names, operations   *)
(* and initial files.  Writes are computed from snapshots that may be      *)
(* stale, so the invariant speaks of every root a request holds: what is   *)
(* true of the file must already be true of each snapshot and of each      *)
(* temporary file that is about to replace it.                             *)
(***************************************************************************)
EXTENDS ConfigStore, TLAPS

USE DEF Sections

-----------------------------------------------------------------------------
(* Lemmas about the rules.                                                  *)

LEMMA ConfigFields ==
  ASSUME NEW c \in Config
  PROVE  /\ c.agents \in [Names -> AgentEntry \cup {None}]
         /\ c.models \in [Names -> ModelEntry \cup {None}]
         /\ c.tools \in [Names -> ToolEntry \cup {None}]
         /\ c["agents"] = c.agents /\ c["models"] = c.models /\ c["tools"] = c.tools
BY DEF Config

LEMMA DefaultIsConfig == DefaultConfig \in Config
BY DEF DefaultConfig, Config

\* A write stores a whole root again.
LEMMA RewriteIsConfig ==
  ASSUME NEW c \in Config, NEW o \in Operation, NEW k \in Names,
         None \notin AgentEntry
  PROVE  Rewrite(c, o, k) \in Config
<1> DEFINE new == [n \in Names |->
             IF o.verb # "remove" /\ n = o.next THEN StoredEntry(o, c[o.section][k])
             ELSE IF n = k THEN None
             ELSE c[o.section][n]]
<1>1. Rewrite(c, o, k) = [c EXCEPT ![o.section] = new]
  BY DEF Rewrite
<1>2. /\ o.section \in Sections /\ o.next \in Names
      /\ o.hitl \in HitlPolicy /\ o.tool \in ToolEntry
  BY DEF Operation
<1>3. CASE o.section = "agents"
  <2>1. c.agents \in [Names -> AgentEntry \cup {None}]
    BY ConfigFields
  <2>2. StoredEntry(o, c["agents"][k]) = StoredAgent(o, c.agents[k])
    BY <1>3, ConfigFields DEF StoredEntry
  <2>3. StoredAgent(o, c.agents[k]) \in AgentEntry
    BY <1>2, <2>1 DEF StoredAgent, AgentEntry
  <2>4. new \in [Names -> AgentEntry \cup {None}]
    BY <1>3, <2>1, <2>2, <2>3, ConfigFields
  <2>5. QED
    BY <1>1, <1>3, <2>4 DEF Config
<1>4. CASE o.section = "models"
  <2>1. c.models \in [Names -> ModelEntry \cup {None}]
    BY ConfigFields
  <2>2. StoredEntry(o, c["models"][k]) \in ModelEntry
    BY <1>2, <1>4 DEF StoredEntry, StoredModel, ModelEntry
  <2>3. new \in [Names -> ModelEntry \cup {None}]
    BY <1>4, <2>1, <2>2, ConfigFields
  <2>4. QED
    BY <1>1, <1>4, <2>3 DEF Config
<1>5. CASE o.section = "tools"
  <2>1. c.tools \in [Names -> ToolEntry \cup {None}]
    BY ConfigFields
  <2>2. StoredEntry(o, c["tools"][k]) \in ToolEntry
    BY <1>2, <1>5 DEF StoredEntry, StoredTool, ToolEntry
  <2>3. new \in [Names -> ToolEntry \cup {None}]
    BY <1>5, <2>1, <2>2, ConfigFields
  <2>4. QED
    BY <1>1, <1>5, <2>3 DEF Config
<1>6. QED
  BY <1>2, <1>3, <1>4, <1>5

LEMMA RulesFacts ==
  ASSUME NEW o \in Operations
  PROVE  /\ o \in Operation
         /\ o.section \in Sections /\ o.verb \in Verbs
         /\ o.name \in Names /\ o.next \in Names
         /\ o.verb = "create" => o.name = o.next
         /\ None \notin AgentEntry /\ None \notin ModelEntry /\ None \notin ToolEntry
BY RulesAssumption DEF Operation

\* The entries an accepted write may replace.
LEMMA TargetsAreNames ==
  ASSUME NEW c, NEW o \in Operations, NEW k \in Targets(c, o)
  PROVE  k \in Names
BY RulesFacts DEF Targets, KeysOf

\* A write that passed its check keeps every model name unambiguous.
LEMMA RewriteUnambiguous ==
  ASSUME NEW c \in Config, NEW o \in Operations, NEW k \in Targets(c, o),
         Unambiguous(c), Verdict(c, o) = "ok", ~ReadOnly(o)
  PROVE  Unambiguous(Rewrite(c, o, k))
<1> DEFINE d == Rewrite(c, o, k)
<1>1. k \in Names /\ o.next \in Names /\ o.section \in Sections
  BY RulesFacts, TargetsAreNames
<1>2. CASE o.section # "models"
  <2>1. d.models = c.models
    BY <1>2, <1>1 DEF Rewrite, Config
  <2>2. \A n \in Names : KeysOf(d, "models", n) = KeysOf(c, "models", n)
    BY <2>1, ConfigFields, RewriteIsConfig, RulesFacts, <1>1 DEF KeysOf, Config
  <2>3. QED
    BY <2>2 DEF Unambiguous
<1>3. CASE o.section = "models"
  <2>1. \A n \in Names :
          d.models[n] = IF o.verb # "remove" /\ n = o.next THEN [name |-> o.next]
                        ELSE IF n = k THEN None ELSE c.models[n]
    <3>1. StoredEntry(o, c["models"][k]) = [name |-> o.next]
      BY <1>3 DEF StoredEntry, StoredModel
    <3>2. QED
      BY <1>3, <3>1, ConfigFields DEF Rewrite, Config
  <2>2. \A n, x \in Names :
          x \in KeysOf(d, "models", n) <=>
            d.models[x] # None /\ (x = n \/ d.models[x].name = n)
    BY RewriteIsConfig, RulesFacts, <1>1, ConfigFields DEF KeysOf
  <2>3. \A n, x \in Names :
          x \in KeysOf(c, "models", n) <=>
            c.models[x] # None /\ (x = n \/ c.models[x].name = n)
    BY ConfigFields DEF KeysOf
  <2>4. SUFFICES ASSUME NEW n \in Names, NEW x \in Names, NEW y \in Names,
                        x \in KeysOf(d, "models", n), y \in KeysOf(d, "models", n),
                        x # y
                 PROVE  FALSE
    BY DEF Unambiguous, KeysOf
  <2>5. \A z \in Names : z \in KeysOf(d, "models", n) =>
          \/ o.verb # "remove" /\ z = o.next /\ n = o.next
          \/ z # k /\ z \in KeysOf(c, "models", n)
    BY <2>1, <2>2, <2>3
  <2>6. \A z \in Names : z \in KeysOf(c, "models", n) =>
          \A w \in Names : w \in KeysOf(c, "models", n) => w = z
    BY DEF Unambiguous
  <2>7. /\ o.verb # "remove" /\ n = o.next
        /\ \E z \in Names : z # k /\ z \in KeysOf(c, "models", o.next)
    BY <2>4, <2>5, <2>6
  <2>8. o.verb = "update" /\ o.name = o.next
    BY <2>7, <1>3, RulesFacts DEF Verdict, Taken, ReadOnly, Verbs
  <2>9. k \in KeysOf(c, "models", o.next)
    BY <2>8, <1>3 DEF Targets
  <2>10. QED
    BY <2>6, <2>7, <2>9, <1>1
<1>4. QED
  BY <1>2, <1>3

-----------------------------------------------------------------------------
(* The inductive invariant.                                                 *)

\* Where a request is fixes what it holds.
StageInv ==
  \A r \in Requests :
    /\ pc[r] # "new" => op[r] \in Operations
    /\ pc[r] = "done" <=> reply[r] # "none"
    /\ pc[r] \in {"check", "probe", "write", "rename"} => snap[r] \in Config
    /\ pc[r] \in {"probe", "write", "rename"} =>
         Verdict(snap[r], op[r]) = "ok" /\ ~ReadOnly(op[r])
    /\ pc[r] = "initRename" => tmp[r] = DefaultConfig
    /\ pc[r] = "rename" => tmp[r] \in Config
    /\ tmp[r] # Missing =>
         pc[r] \in {"initWrite", "initRename", "write", "rename", "done"}

\* No root in flight is ambiguous either.
NamesInv ==
  /\ ModelNamesUnambiguous
  /\ \A r \in Requests :
       /\ snap[r] \in Config => Unambiguous(snap[r])
       /\ pc[r] = "rename" => Unambiguous(tmp[r])

\* Nor does one hold an entry nobody stored, except the entry that the
\* request about to rename is itself storing.
OwnEntry(r, section, n) ==
  /\ op[r].section = section
  /\ op[r].verb \in {"create", "update"}
  /\ op[r].next = n
OriginsInv ==
  /\ NoPhantomEntries
  /\ \A r \in Requests, s \in Sections, n \in Names :
       /\ snap[r] \in Config /\ snap[r][s][n] # None => Explained(s, n, snap[r][s][n])
       /\ pc[r] = "rename" /\ tmp[r][s][n] # None =>
            OwnEntry(r, s, n) \/ Explained(s, n, tmp[r][s][n])

IInv == TypeOK /\ FileNeverTorn /\ StageInv /\ NamesInv /\ OriginsInv /\ NoStrayTemp

LEMMA InitInvariant == Init => IInv
<1> SUFFICES ASSUME Init PROVE IInv
  OBVIOUS
<1>1. file \in Config => file \in InitialFiles /\ file # Missing /\ Unambiguous(file)
  BY StoreAssumption DEF Init
<1>2. TypeOK /\ FileNeverTorn
  BY StoreAssumption, RulesAssumption
  DEF Init, TypeOK, FileNeverTorn, Stages, Replies
<1>3. StageInv /\ NoStrayTemp
  BY DEF Init, StageInv, NoStrayTemp
<1>4. NamesInv
  BY <1>1, RulesAssumption DEF Init, NamesInv, ModelNamesUnambiguous
<1>5. OriginsInv
  BY <1>1, RulesAssumption DEF Init, OriginsInv, NoPhantomEntries, Explained
<1>6. QED
  BY <1>2, <1>3, <1>4, <1>5 DEF IInv

\* What a request computes from its snapshot is a whole, unambiguous root.
LEMMA RewriteInFlight ==
  ASSUME TypeOK, StageInv, NamesInv, NEW r \in Requests, pc[r] = "write",
         NEW k \in Targets(snap[r], op[r])
  PROVE  /\ Rewrite(snap[r], op[r], k) \in Config
         /\ Unambiguous(Rewrite(snap[r], op[r], k))
<1>1. /\ op[r] \in Operations /\ snap[r] \in Config
      /\ Verdict(snap[r], op[r]) = "ok" /\ ~ReadOnly(op[r])
      /\ Unambiguous(snap[r])
  BY DEF StageInv, NamesInv
<1>2. k \in Names
  BY <1>1, TargetsAreNames
<1>3. QED
  BY <1>1, <1>2, RulesFacts, RewriteIsConfig, RewriteUnambiguous

LEMMA TypeStep ==
  ASSUME TypeOK, StageInv, NamesInv, Next
  PROVE  TypeOK'
<1> USE DEF TypeOK, Stages, Replies, Goto, Answer, Replace
<1>1. ASSUME NEW r \in Requests, NEW o \in Operations, Begin(r, o)
      PROVE  TypeOK'
  BY <1>1 DEF Begin
<1>2. ASSUME NEW r \in Requests, ReadRoot(r)
      PROVE  TypeOK'
  BY <1>2 DEF ReadRoot
<1>3. ASSUME NEW r \in Requests, OpenTemp(r)
      PROVE  TypeOK'
  BY <1>3 DEF OpenTemp
<1>4. ASSUME NEW r \in Requests, FillInitTemp(r)
      PROVE  TypeOK'
  BY <1>4, DefaultIsConfig DEF FillInitTemp
<1>5. ASSUME NEW r \in Requests, FillTemp(r)
      PROVE  TypeOK'
  BY <1>5, RewriteInFlight DEF FillTemp
<1>6. ASSUME NEW r \in Requests, RenameInit(r)
      PROVE  TypeOK'
  BY <1>6, DefaultIsConfig DEF RenameInit
<1>7. ASSUME NEW r \in Requests, Rename(r)
      PROVE  TypeOK'
  BY <1>7 DEF Rename
<1>8. ASSUME NEW r \in Requests, Respond(r)
      PROVE  TypeOK'
  BY <1>8 DEF Respond
<1>9. ASSUME NEW r \in Requests, Check(r)
      PROVE  TypeOK'
  BY <1>9 DEF Check, Verdict
<1>10. ASSUME NEW r \in Requests,
              ProbeAnswers(r) \/ ProbeRefused(r) \/ ProbeTimesOut(r) \/ WriteFails(r)
       PROVE  TypeOK'
  BY <1>10 DEF ProbeAnswers, ProbeRefused, ProbeTimesOut, WriteFails
<1>11. CASE Crash
  BY <1>11 DEF Crash
<1>12. QED
  BY <1>1, <1>2, <1>3, <1>4, <1>5, <1>6, <1>7, <1>8, <1>9, <1>10, <1>11
  DEF Next, Step

LEMMA StageStep ==
  ASSUME TypeOK, StageInv, NamesInv, Next
  PROVE  StageInv'
<1> USE DEF TypeOK, StageInv, Goto, Answer, Replace
<1>1. ASSUME NEW r \in Requests, NEW o \in Operations, Begin(r, o)
      PROVE  StageInv'
  BY <1>1 DEF Begin
<1>2. ASSUME NEW r \in Requests, ReadRoot(r)
      PROVE  StageInv'
  BY <1>2 DEF ReadRoot
<1>3. ASSUME NEW r \in Requests, OpenTemp(r)
      PROVE  StageInv'
  BY <1>3 DEF OpenTemp
<1>4. ASSUME NEW r \in Requests, FillInitTemp(r)
      PROVE  StageInv'
  BY <1>4, DefaultIsConfig DEF FillInitTemp
<1>5. ASSUME NEW r \in Requests, FillTemp(r)
      PROVE  StageInv'
  BY <1>5, RewriteInFlight DEF FillTemp
<1>6. ASSUME NEW r \in Requests, RenameInit(r)
      PROVE  StageInv'
  BY <1>6, DefaultIsConfig DEF RenameInit
<1>7. ASSUME NEW r \in Requests, Rename(r)
      PROVE  StageInv'
  BY <1>7 DEF Rename
<1>8. ASSUME NEW r \in Requests, Respond(r)
      PROVE  StageInv'
  BY <1>8 DEF Respond
<1>9. ASSUME NEW r \in Requests, Check(r)
      PROVE  StageInv'
  BY <1>9 DEF Check, Verdict
<1>10. ASSUME NEW r \in Requests,
              ProbeAnswers(r) \/ ProbeRefused(r) \/ ProbeTimesOut(r) \/ WriteFails(r)
       PROVE  StageInv'
  BY <1>10 DEF ProbeAnswers, ProbeRefused, ProbeTimesOut, WriteFails
<1>11. CASE Crash
  BY <1>11 DEF Crash, InFlight
<1>12. QED
  BY <1>1, <1>2, <1>3, <1>4, <1>5, <1>6, <1>7, <1>8, <1>9, <1>10, <1>11
  DEF Next, Step

LEMMA NamesStep ==
  ASSUME TypeOK, FileNeverTorn, StageInv, NamesInv, Next
  PROVE  NamesInv' /\ FileNeverTorn'
<1> USE DEF TypeOK, NamesInv, ModelNamesUnambiguous, FileNeverTorn, Goto, Answer
<1> DEFINE Goal == NamesInv' /\ FileNeverTorn'
<1>1. Unambiguous(DefaultConfig) /\ DefaultConfig # Torn
  BY DefaultIsConfig, StoreAssumption DEF Unambiguous, KeysOf, DefaultConfig
<1>2. ASSUME NEW r \in Requests, NEW o \in Operations, Begin(r, o)
      PROVE  Goal
  BY <1>2 DEF Begin
<1>3. ASSUME NEW r \in Requests, ReadRoot(r)
      PROVE  Goal
  BY <1>3 DEF ReadRoot
<1>4. ASSUME NEW r \in Requests, OpenTemp(r) \/ FillInitTemp(r)
      PROVE  Goal
  BY <1>4 DEF OpenTemp, FillInitTemp
<1>5. ASSUME NEW r \in Requests, FillTemp(r)
      PROVE  Goal
  BY <1>5, RewriteInFlight DEF FillTemp
<1>6. ASSUME NEW r \in Requests, RenameInit(r)
      PROVE  Goal
  <2>1. file' = DefaultConfig
    BY <1>6 DEF RenameInit, Replace, StageInv
  <2>2. QED
    BY <1>1, <1>6, <2>1 DEF RenameInit, Replace
<1>7. ASSUME NEW r \in Requests, Rename(r)
      PROVE  Goal
  <2>1. file' = tmp[r] /\ tmp[r] \in Config /\ Unambiguous(tmp[r])
    BY <1>7 DEF Rename, Replace, StageInv
  <2>2. QED
    BY <1>7, <2>1, StoreAssumption DEF Rename, Replace
<1>8. ASSUME NEW r \in Requests,
             \/ Respond(r) \/ Check(r) \/ ProbeAnswers(r) \/ ProbeRefused(r)
             \/ ProbeTimesOut(r) \/ WriteFails(r)
      PROVE  Goal
  BY <1>8
  DEF Respond, Check, ProbeAnswers, ProbeRefused, ProbeTimesOut, WriteFails
<1>9. CASE Crash
  BY <1>9 DEF Crash
<1>10. QED
  BY <1>2, <1>3, <1>4, <1>5, <1>6, <1>7, <1>8, <1>9 DEF Next, Step

\* A request that stored something keeps having stored it.
LEMMA CommittedStays ==
  ASSUME TypeOK, StageInv, Next, NEW r \in Requests, Committed(r)
  PROVE  Committed(r)' /\ op'[r] = op[r]
<1> USE DEF TypeOK, StageInv, Committed, Goto, Answer
<1> DEFINE Goal == Committed(r)' /\ op'[r] = op[r]
<1>1. ASSUME NEW q \in Requests, NEW o \in Operations, Begin(q, o)
      PROVE  Goal
  BY <1>1 DEF Begin
<1>2. ASSUME NEW q \in Requests,
             \/ ReadRoot(q) \/ OpenTemp(q) \/ FillInitTemp(q) \/ FillTemp(q)
             \/ RenameInit(q) \/ Rename(q)
      PROVE  Goal
  BY <1>2 DEF ReadRoot, OpenTemp, FillInitTemp, FillTemp, RenameInit, Rename
<1>3. ASSUME NEW q \in Requests,
             \/ Respond(q) \/ Check(q) \/ ProbeAnswers(q) \/ ProbeRefused(q)
             \/ ProbeTimesOut(q) \/ WriteFails(q)
      PROVE  Goal
  BY <1>3
  DEF Respond, Check, ProbeAnswers, ProbeRefused, ProbeTimesOut, WriteFails
<1>4. CASE Crash
  BY <1>4 DEF Crash, InFlight
<1>5. QED
  BY <1>1, <1>2, <1>3, <1>4 DEF Next, Step

LEMMA ExplainedStays ==
  ASSUME TypeOK, StageInv, Next, NEW s, NEW n, NEW entry, Explained(s, n, entry)
  PROVE  Explained(s, n, entry)'
BY CommittedStays DEF Explained

\* The only entry a rewrite adds to its snapshot is the request's own.
LEMMA RewriteOrigins ==
  ASSUME NEW c \in Config, NEW o \in Operations, NEW k \in Names, ~ReadOnly(o),
         NEW s \in Sections, NEW n \in Names, Rewrite(c, o, k)[s][n] # None
  PROVE  \/ o.section = s /\ o.verb \in {"create", "update"} /\ o.next = n
         \/ Rewrite(c, o, k)[s][n] = c[s][n]
<1>1. CASE s # o.section
  BY <1>1, RulesFacts DEF Rewrite, Config
<1>2. CASE s = o.section
  <2>1. Rewrite(c, o, k)[s] =
          [m \in Names |->
             IF o.verb # "remove" /\ m = o.next THEN StoredEntry(o, c[o.section][k])
             ELSE IF m = k THEN None
             ELSE c[o.section][m]]
    BY <1>2, RulesFacts DEF Rewrite, Config
  <2>2. QED
    BY <1>2, <2>1, RulesFacts DEF ReadOnly, Verbs
<1>3. QED
  BY <1>1, <1>2

LEMMA OriginsStep ==
  ASSUME TypeOK, FileNeverTorn, StageInv, NamesInv, OriginsInv, Next
  PROVE  OriginsInv'
<1> USE DEF TypeOK, OriginsInv, NoPhantomEntries, Goto, Answer
<1>1. \A s, n, entry : Explained(s, n, entry) => Explained(s, n, entry)'
  BY ExplainedStays
<1>2. \A s \in Sections, n \in Names : DefaultConfig[s][n] = None
  <2>1. \A n \in Names : /\ DefaultConfig.agents[n] = None
                         /\ DefaultConfig.models[n] = None
                         /\ DefaultConfig.tools[n] = None
    BY DEF DefaultConfig
  <2>2. QED
    BY <2>1, DefaultIsConfig, ConfigFields
<1>3. ASSUME NEW r \in Requests, NEW o \in Operations, Begin(r, o)
      PROVE  OriginsInv'
  BY <1>1, <1>3 DEF Begin, OwnEntry
<1>4. ASSUME NEW r \in Requests, ReadRoot(r)
      PROVE  OriginsInv'
  BY <1>1, <1>4 DEF ReadRoot, OwnEntry
<1>5. ASSUME NEW r \in Requests, OpenTemp(r) \/ FillInitTemp(r)
      PROVE  OriginsInv'
  BY <1>1, <1>5 DEF OpenTemp, FillInitTemp, OwnEntry
<1>6. ASSUME NEW r \in Requests, FillTemp(r)
      PROVE  OriginsInv'
  <2>1. PICK k \in Targets(snap[r], op[r]) :
          tmp' = [tmp EXCEPT ![r] = Rewrite(snap[r], op[r], k)]
    BY <1>6 DEF FillTemp
  <2>2. /\ op[r] \in Operations /\ snap[r] \in Config /\ ~ReadOnly(op[r])
        /\ k \in Names
    BY <1>6, <2>1, TargetsAreNames DEF FillTemp, StageInv
  <2>3. \A s \in Sections, n \in Names :
          tmp'[r][s][n] # None =>
            OwnEntry(r, s, n) \/ tmp'[r][s][n] = snap[r][s][n]
    BY <2>1, <2>2, RewriteOrigins DEF OwnEntry
  <2>4. QED
    BY <1>1, <1>6, <2>1, <2>2, <2>3 DEF FillTemp, OwnEntry
<1>7. ASSUME NEW r \in Requests, RenameInit(r)
      PROVE  OriginsInv'
  <2>1. file' = DefaultConfig
    BY <1>7 DEF RenameInit, Replace, StageInv
  <2>2. QED
    BY <1>1, <1>2, <1>7, <2>1 DEF RenameInit, Replace, OwnEntry
<1>8. ASSUME NEW r \in Requests, Rename(r)
      PROVE  OriginsInv'
  <2>1. file' = tmp[r] /\ Committed(r)' /\ op' = op
    BY <1>8 DEF Rename, Replace, Committed
  <2>2. \A s, n, entry : OwnEntry(r, s, n) => Explained(s, n, entry)'
    BY <2>1 DEF OwnEntry, Explained
  <2>3. QED
    BY <1>1, <1>8, <2>1, <2>2 DEF Rename, Replace, OwnEntry
<1>9. ASSUME NEW r \in Requests,
             \/ Respond(r) \/ Check(r) \/ ProbeAnswers(r) \/ ProbeRefused(r)
             \/ ProbeTimesOut(r) \/ WriteFails(r)
      PROVE  OriginsInv'
  BY <1>1, <1>9
  DEF Respond, Check, ProbeAnswers, ProbeRefused, ProbeTimesOut, WriteFails, OwnEntry
<1>10. CASE Crash
  BY <1>1, <1>10 DEF Crash, OwnEntry
<1>11. QED
  BY <1>3, <1>4, <1>5, <1>6, <1>7, <1>8, <1>9, <1>10 DEF Next, Step

LEMMA StrayStep ==
  ASSUME TypeOK, StageInv, NoStrayTemp, Next
  PROVE  NoStrayTemp'
<1> USE DEF TypeOK, NoStrayTemp, Goto, Answer, StageInv
<1>1. ASSUME NEW r \in Requests, NEW o \in Operations, Begin(r, o)
      PROVE  NoStrayTemp'
  BY <1>1 DEF Begin
<1>2. ASSUME NEW r \in Requests,
             \/ ReadRoot(r) \/ OpenTemp(r) \/ FillInitTemp(r) \/ FillTemp(r)
             \/ RenameInit(r) \/ Rename(r)
      PROVE  NoStrayTemp'
  BY <1>2
  DEF ReadRoot, OpenTemp, FillInitTemp, FillTemp, RenameInit, Rename, Replace
<1>3. ASSUME NEW r \in Requests,
             \/ Respond(r) \/ Check(r) \/ ProbeAnswers(r) \/ ProbeRefused(r)
             \/ ProbeTimesOut(r) \/ WriteFails(r)
      PROVE  NoStrayTemp'
  BY <1>3
  DEF Respond, Check, ProbeAnswers, ProbeRefused, ProbeTimesOut, WriteFails
<1>4. CASE Crash
  BY <1>4 DEF Crash, InFlight
<1>5. QED
  BY <1>1, <1>2, <1>3, <1>4 DEF Next, Step

LEMMA InvariantStep == IInv /\ [Next]_vars => IInv'
<1> SUFFICES ASSUME IInv, [Next]_vars PROVE IInv'
  OBVIOUS
<1>1. CASE Next
  BY <1>1, TypeStep, StageStep, NamesStep, OriginsStep, StrayStep DEF IInv
<1>2. CASE UNCHANGED vars
  BY <1>2
  DEF vars, IInv, TypeOK, FileNeverTorn, StageInv, NamesInv, ModelNamesUnambiguous,
      OriginsInv, NoPhantomEntries, NoStrayTemp, OwnEntry, Explained, Committed
<1>3. QED
  BY <1>1, <1>2

LEMMA Invariant == Spec => []IInv
BY InitInvariant, InvariantStep, PTL DEF Spec

-----------------------------------------------------------------------------
(* The program's variables keep their types for every number of requests    *)
(* in flight: in particular, what FillTemp writes is always a whole root,   *)
(* because the accepted operation was checked on the very snapshot it       *)
(* rewrites (create, update and remove of the three services).              *)
THEOREM TypeCorrect == Spec => []TypeOK
BY Invariant, PTL DEF IInv

(* writeConfig and readConfig's initialisation keep their promise: nobody   *)
(* ever reads a partial file, and none is left after a crash.               *)
THEOREM NeverTorn == Spec => []FileNeverTorn
BY Invariant, PTL DEF IInv

(* The conflict checks of ModelsService suffice although each looks at a    *)
(* snapshot: whole-root replacement loses updates, but cannot combine two   *)
(* of them into an ambiguous root.                                          *)
THEOREM NamesStayUnambiguous == Spec => []ModelNamesUnambiguous
BY Invariant, PTL DEF IInv, NamesInv

(* No snapshot carries an entry of a refused or failed request back into    *)
(* the file.                                                                *)
THEOREM EntriesHaveOrigins == Spec => []NoPhantomEntries
BY Invariant, PTL DEF IInv, OriginsInv

(* writeConfig leaves a temporary file behind only when it failed or the    *)
(* process died.                                                            *)
THEOREM TempsAreRemoved == Spec => []NoStrayTemp
BY Invariant, PTL DEF IInv
=============================================================================
