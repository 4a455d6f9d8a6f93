---------------------------- MODULE ConfigStore ----------------------------
(***************************************************************************)
(* The configuration file of one user (~/.blooms_claw/.../blooms_claw.json) *)
(* and the REST operations of AgentsService, ModelsService and             *)
(* ToolsService that read, check, rewrite and replace it as a whole.       *)
(*                                                                         *)
(* Every operation is an async function: other requests run at each of its *)
(* awaits.  One action of this module is one stretch between two awaits    *)
(* that touches the file system or the request's outcome.                  *)
(***************************************************************************)
EXTENDS ConfigRules, Naturals, FiniteSets

CONSTANTS
  Requests,      \* HTTP requests; each is issued at most once
  InitialFiles,  \* what the file may hold when the server starts
  MaxActive,     \* bound: requests in flight at once
  Missing,       \* no file on disk
  Torn           \* a file only part of which has been written

ASSUME StoreAssumption ==
  /\ MaxActive \in Nat \ {0}
  /\ InitialFiles \subseteq Config \cup {Missing}
  /\ Missing \notin Config \cup {Torn}
  /\ Torn \notin Config
  /\ \A c \in InitialFiles : c # Missing => Unambiguous(c)

VARIABLES
  file,    \* the configuration file
  tmp,     \* tmp[r]: the <path>.<uuid>.tmp that request r is writing
  pc,      \* pc[r]: where request r is
  op,      \* op[r]: its operation
  snap,    \* snap[r]: the root it read
  reply    \* reply[r]: "none", or how it was answered

vars == <<file, tmp, pc, op, snap, reply>>

Stages == {"new", "read", "initWrite", "initRename", "check", "probe",
           "write", "rename", "respond", "done"}
Replies == {"none", "ok", "notFound", "conflict", "unreachable", "failed", "lost"}

InFlight == {r \in Requests : pc[r] \notin {"new", "done"}}

Init ==
  /\ file \in InitialFiles
  /\ tmp   = [r \in Requests |-> Missing]
  /\ pc    = [r \in Requests |-> "new"]
  /\ op    = [r \in Requests |-> None]
  /\ snap  = [r \in Requests |-> None]
  /\ reply = [r \in Requests |-> "none"]

-----------------------------------------------------------------------------
Goto(r, stage) == pc' = [pc EXCEPT ![r] = stage]

Answer(r, how) == /\ Goto(r, "done")
                  /\ reply' = [reply EXCEPT ![r] = how]

\* A request arrives and its payload passes validation.
Begin(r, o) ==
  /\ pc[r] = "new"
  /\ Cardinality(InFlight) < MaxActive
  /\ op' = [op EXCEPT ![r] = o]
  /\ Goto(r, "read")
  /\ UNCHANGED <<file, tmp, snap, reply>>

\* readConfig: readFile and JSON.parse; a torn file does not parse.
ReadRoot(r) ==
  /\ pc[r] = "read"
  /\ \/ /\ file = Missing
        /\ Goto(r, "initWrite")
        /\ UNCHANGED <<snap, reply>>
     \/ /\ file = Torn
        /\ Answer(r, "failed")
        /\ UNCHANGED snap
     \/ /\ file \notin {Missing, Torn}
        /\ snap' = [snap EXCEPT ![r] = file]
        /\ Goto(r, "check")
        /\ UNCHANGED reply
  /\ UNCHANGED <<file, tmp, op>>

\* Operators marked "Defect" are not the program: each is a plausible bug in
\* the definition that follows it, which the properties must detect.

\* Defect: writeFile goes straight to the target.
OpenInPlace(r) ==
  /\ pc[r] \in {"initWrite", "write"}
  /\ tmp[r] = Missing
  /\ tmp' = [tmp EXCEPT ![r] = Torn]
  /\ file' = Torn
  /\ UNCHANGED <<pc, op, snap, reply>>

\* writeConfig, up to its rename: the temporary file grows, then is whole.
OpenTemp(r) ==
  /\ pc[r] \in {"initWrite", "write"}
  /\ tmp[r] = Missing
  /\ tmp' = [tmp EXCEPT ![r] = Torn]
  /\ UNCHANGED <<file, pc, op, snap, reply>>

FillInitTemp(r) ==
  /\ pc[r] = "initWrite"
  /\ tmp[r] = Torn
  /\ tmp' = [tmp EXCEPT ![r] = DefaultConfig]
  /\ Goto(r, "initRename")
  /\ UNCHANGED <<file, op, snap, reply>>

\* Defect: the new root holds nothing but the request's own entry.
FillTempFromDefaults(r) ==
  /\ pc[r] = "write"
  /\ tmp[r] = Torn
  /\ \E k \in Targets(snap[r], op[r]) :
       tmp' = [tmp EXCEPT ![r] = Rewrite(DefaultConfig, op[r], k)]
  /\ Goto(r, "rename")
  /\ UNCHANGED <<file, op, snap, reply>>

FillTemp(r) ==
  /\ pc[r] = "write"
  /\ tmp[r] = Torn
  /\ \E k \in Targets(snap[r], op[r]) :
       tmp' = [tmp EXCEPT ![r] = Rewrite(snap[r], op[r], k)]
  /\ Goto(r, "rename")
  /\ UNCHANGED <<file, op, snap, reply>>

\* Defect: the temporary file is copied over the target.
CopyOver(r) == file' = tmp[r] /\ UNCHANGED tmp

\* rename() replaces the target and removes the temporary name in one step.
Replace(r) ==
  /\ file' = tmp[r]
  /\ tmp' = [tmp EXCEPT ![r] = Missing]

\* Defect: the read's own failure is what the initialisation hands on.
RenameInitKeepsRead(r) ==
  /\ pc[r] = "initRename"
  /\ Replace(r)
  /\ snap' = [snap EXCEPT ![r] = file]
  /\ Goto(r, "check")
  /\ UNCHANGED <<op, reply>>

\* readConfig returns DEFAULT_ROOT_CONFIG, not what is on disk by then.
RenameInit(r) ==
  /\ pc[r] = "initRename"
  /\ Replace(r)
  /\ snap' = [snap EXCEPT ![r] = DefaultConfig]
  /\ Goto(r, "check")
  /\ UNCHANGED <<op, reply>>

Rename(r) ==
  /\ pc[r] = "rename"
  /\ Replace(r)
  /\ Goto(r, "respond")
  /\ UNCHANGED <<op, snap, reply>>

Respond(r) ==
  /\ pc[r] = "respond"
  /\ Answer(r, "ok")
  /\ UNCHANGED <<file, tmp, op, snap>>

\* The synchronous stretch after readRootConfig.
Check(r) ==
  /\ pc[r] = "check"
  /\ LET verdict == Verdict(snap[r], op[r]) IN
       \/ /\ verdict # "ok" \/ ReadOnly(op[r])
          /\ Answer(r, verdict)
       \/ /\ verdict = "ok" /\ ~ReadOnly(op[r])
          /\ Goto(r, IF NeedsProbe(op[r]) THEN "probe" ELSE "write")
          /\ UNCHANGED reply
  /\ UNCHANGED <<file, tmp, op, snap>>

\* fetchRemoteTools: the MCP server answers, refuses, or the timer fires.
ProbeAnswers(r) ==
  /\ pc[r] = "probe"
  /\ Goto(r, "write")
  /\ UNCHANGED <<file, tmp, op, snap, reply>>

ProbeRefused(r) ==
  /\ pc[r] = "probe"
  /\ Answer(r, "unreachable")
  /\ UNCHANGED <<file, tmp, op, snap>>

\* Defect: the race with the timer is gone.
ProbeHangs(r) == pc[r] = "probe" /\ UNCHANGED vars

ProbeTimesOut(r) ==
  /\ pc[r] = "probe"
  /\ Answer(r, "unreachable")
  /\ UNCHANGED <<file, tmp, op, snap>>

\* Defect: the file is replaced before the step that fails.
WriteFailsLate(r) ==
  /\ pc[r] = "rename"
  /\ Replace(r)
  /\ Answer(r, "failed")
  /\ UNCHANGED <<op, snap>>

\* writeFile or rename rejects (disk full, permissions): the request answers
\* 500 and the temporary file, whole or not, stays behind.
WriteFails(r) ==
  /\ pc[r] \in {"initWrite", "initRename", "write", "rename"}
  /\ Answer(r, "failed")
  /\ UNCHANGED <<file, tmp, op, snap>>

\* The process dies and is restarted: requests in flight get no answer, what
\* is on disk stays.
Crash ==
  /\ InFlight # {}
  /\ pc' = [r \in Requests |-> IF r \in InFlight THEN "done" ELSE pc[r]]
  /\ reply' = [r \in Requests |-> IF r \in InFlight THEN "lost" ELSE reply[r]]
  /\ UNCHANGED <<file, tmp, op, snap>>

Step(r) ==
  \/ ReadRoot(r) \/ OpenTemp(r) \/ FillInitTemp(r) \/ FillTemp(r)
  \/ RenameInit(r) \/ Rename(r) \/ Respond(r) \/ Check(r) \/ ProbeTimesOut(r)

Next ==
  \/ \E r \in Requests :
       \/ \E o \in Operations : Begin(r, o)
       \/ Step(r)
       \/ ProbeAnswers(r) \/ ProbeRefused(r)
       \/ WriteFails(r)
  \/ Crash

Spec == Init /\ [][Next]_vars

\* The event loop runs every continuation, the file system completes every
\* call and the timer of withTimeout fires; an MCP server owes nothing.
FairSpec == Spec /\ \A r \in Requests : WF_vars(Step(r))

-----------------------------------------------------------------------------
(* Every variable ranges over the values the services can produce: file     *)
(* contents are missing, partial or a whole root, and a request past        *)
(* readConfig holds a whole root.                                           *)
TypeOK ==
  /\ file \in Config \cup {Missing, Torn}
  /\ tmp \in [Requests -> Config \cup {Missing, Torn}]
  /\ pc \in [Requests -> Stages]
  /\ op \in [Requests -> Operations \cup {None}]
  /\ snap \in [Requests -> Config \cup {None}]
  /\ reply \in [Requests -> Replies]

(* writeConfig promises atomic replacement: whoever reads the file, and     *)
(* whenever the process died, the file is absent or a complete root.        *)
FileNeverTorn == file # Torn

(* findModelStorageKeyByName looks models up by key and by stored name, so  *)
(* a name must never reach two entries.  The 409 checks keep that true of   *)
(* the file even though each of them looks at a snapshot that other         *)
(* requests may have overtaken.                                             *)
ModelNamesUnambiguous == file \in Config => Unambiguous(file)

(* An entry appears in the file only through a request that stored it under *)
(* that name and was not refused: a request answered 404, 409, 400          *)
(* (unreachable MCP server) or 500 leaves no trace, not even through the    *)
(* snapshot of another request.                                             *)
Committed(r) == pc[r] = "respond" \/ reply[r] \in {"ok", "lost"}
Explained(section, n, entry) ==
  \/ \E c \in InitialFiles : c # Missing /\ c[section][n] = entry
  \/ \E r \in Requests : /\ Committed(r)
                         /\ op[r].section = section
                         /\ op[r].verb \in {"create", "update"}
                         /\ op[r].next = n
NoPhantomEntries ==
  file \in Config =>
    \A s \in Sections, n \in Names :
      file[s][n] # None => Explained(s, n, file[s][n])

(* A temporary file outlives its request only if the write failed or the    *)
(* process died before the rename.                                          *)
NoStrayTemp ==
  \A r \in Requests :
    tmp[r] # Missing => pc[r] # "done" \/ reply[r] \in {"failed", "lost"}

(* With one request at a time the file, its temporary files and the         *)
(* creation of a missing file implement single-step operations on one       *)
(* configuration, whatever fails and whenever the process dies.             *)
Atomic == INSTANCE AtomicConfig WITH
  InitialConfigs <- {IF c = Missing THEN DefaultConfig ELSE c : c \in InitialFiles},
  config  <- IF file = Missing THEN DefaultConfig ELSE file,
  outcome <- [r \in Requests |-> IF pc[r] = "respond" THEN "applied" ELSE reply[r]]
ImplementsAtomic == Atomic!Spec

(* Every request is answered although an MCP server may never reply: the    *)
(* timer of withTimeout ends the probe.                                     *)
EveryRequestAnswered ==
  \A r \in Requests : (r \in InFlight) ~> (reply[r] # "none")

(* apps/api/docs/plans/2026-05-02-agents-crud-design.md:17 "This feature    *)
(* only manages the `agents` key": the step that stores one section's       *)
(* change leaves the other sections of the file as they are.                *)
OnlyOwnSection ==
  [][\A r \in Requests :
       pc[r] = "rename" /\ pc'[r] = "respond" /\ file \in Config =>
         \A s \in Sections \ {op[r].section} : file'[s] = file[s]]_vars

(* tools.service.ts:430, "builtin tools are forced on, a PUT cannot switch  *)
(* them off": no builtin name is shown as inactive.                         *)
BuiltinToolsStayOn ==
  file \in Config => \A n \in BuiltinNames : BuiltinActive(file, n)
=============================================================================
