----------------------------- MODULE SkillsStore -----------------------------
(***************************************************************************)
(* The skills of one user: the entries under "skills" of the configuration *)
(* file, one directory per skill with its SKILL.md and resources, and the  *)
(* temporary directories of installations.  The service keeps entry and    *)
(* directory in step by hand, across many awaits, and agents read both     *)
(* while it works.                                                         *)
(*                                                                         *)
(* The file itself is ConfigStore's business: reading it and replacing it  *)
(* are atomic here.  `npx skills add` and what it downloads are external:  *)
(* a package is a sequence of documents, each with a name and a version,   *)
(* and some versions come with a resource file.                            *)
(***************************************************************************)
EXTENDS Naturals, Sequences, FiniteSets

CONSTANTS
  Requests,      \* requests to SkillsService
  Names,         \* skill names
  Versions,      \* versions of their documents
  Bare,          \* the versions without a resource file
  Operations,    \* what requests may ask for
  InitialSkills, \* entries of the configuration at the start
  MaxActive,     \* bound: requests at work at once
  MaxFaults,     \* bound: file operations that throw
  MaxCrashes,    \* bound: crashes of the API process
  MaxTurns,      \* bound: agent turns
  None

VARIABLES
  entries,    \* configuration: entries[n] is an entry or None
  dir,        \* dir[n][f]: the version of file f, or None
  temp,       \* requests whose temporary directory exists
  pc,         \* stage of each request
  job,        \* and its locals: operation, entries read, nextSkills, the
              \* document it is at and the files copied of it
  overlapped, \* requests that ran beside another one
  clean,      \* the last operation on n succeeded, alone (history variable)
  agent,      \* the running turn: its index and the versions it read
  stuck,      \* requests whose temporary directory could not be removed (history)
  faults, crashes, turns

service == <<temp, pc, job, overlapped>>
bounds  == <<faults, crashes, turns, stuck>>
vars    == <<entries, dir, service, clean, agent, bounds>>

Files  == {"doc", "res"}
Flags  == {"on", "off", "unset"}
Entry  == [flag : Flags, version : Versions]
Skills == [Names -> Entry \cup {None}]
Dir    == [Files -> Versions \cup {None}]

Gone == [f \in Files |-> None]
FilesOf(v) == IF v \in Bare THEN {"doc"} ELSE Files
Whole(v) == [f \in Files |-> IF f \in FilesOf(v) THEN v ELSE None]

Operation == [verb : {"install", "update", "remove"}, name : Names, flag : Flags,
              package : Seq([name : Names, version : Versions])]
Job == [op : Operations, snap : Skills, next : Skills, pos : Nat, copied : SUBSET Files]

ASSUME SkillsAssumption ==
  /\ Bare \subseteq Versions /\ None \notin Versions \cup Entry
  /\ Operations \subseteq Operation
  /\ InitialSkills \subseteq Skills
  /\ MaxActive \in Nat /\ MaxFaults \in Nat /\ MaxCrashes \in Nat /\ MaxTurns \in Nat

Stages == {"new", "cli", "read", "sync", "copy", "rm", "write", "cleanup", "over"}
Active == {r \in Requests : pc[r] \notin {"new", "over"}}
NoTurn == [index |-> {}, got |-> [n \in Names |-> {}], touched |-> Names]

Init ==
  /\ entries \in InitialSkills
  /\ dir = [n \in Names |-> IF entries[n] = None THEN Gone ELSE Whole(entries[n].version)]
  /\ temp = {}
  /\ pc = [r \in Requests |-> "new"]
  /\ job = [r \in Requests |-> None]
  /\ overlapped = {}
  /\ clean = [n \in Names |-> TRUE]
  /\ agent = NoTurn
  /\ stuck = {} /\ faults = 0 /\ crashes = 0 /\ turns = 0

-----------------------------------------------------------------------------
Package(r) == job[r].op.package
Document(r) == Package(r)[job[r].pos]
Target(r) == job[r].op.name
Installs(r) == job[r].op.verb = "install"
Installed(r) == {Package(r)[i].name : i \in DOMAIN Package(r)}

\* findInstalledSkillDirectory takes the first document of that name.
SourceVersion(r) ==
  LET Named == {i \in DOMAIN Package(r) : Package(r)[i].name = Document(r).name}
  IN  Package(r)[CHOOSE i \in Named : \A j \in Named : i <= j].version

Goto(r, stage) == pc' = [pc EXCEPT ![r] = stage]

Answer(r) ==
  Goto(r, "over") /\ job' = [job EXCEPT ![r] = None] /\ overlapped' = overlapped \ {r}

\* The request ends; an installation has its finally clause to go through.
Quit(r) ==
  IF Installs(r) THEN Goto(r, "cleanup") /\ UNCHANGED <<job, overlapped>> ELSE Answer(r)

Touch(n) ==
  /\ clean' = [clean EXCEPT ![n] = FALSE]
  /\ agent' = [agent EXCEPT !.touched = @ \cup {n}]

\* An installation first makes its temporary directory and runs the CLI in it.
Arrive(r, o) ==
  /\ pc[r] = "new" /\ Cardinality(Active) < MaxActive
  /\ job' = [job EXCEPT ![r] = [op |-> o, snap |-> entries, next |-> entries,
                                pos |-> 1, copied |-> {}]]
  /\ overlapped' = IF Active = {} THEN overlapped ELSE overlapped \cup Active \cup {r}
  /\ \/ o.verb = "install" /\ Goto(r, "cli") /\ temp' = temp \cup {r}
     \/ o.verb # "install" /\ Goto(r, "read") /\ UNCHANGED temp
  /\ UNCHANGED <<entries, dir, clean, agent, bounds>>

\* The command is refused, npx fails, or no SKILL.md is found; or the package
\* is there.
Unpack(r) ==
  /\ pc[r] = "cli"
  /\ Goto(r, IF Package(r) = <<>> THEN "cleanup" ELSE "read")
  /\ UNCHANGED <<entries, dir, temp, job, overlapped, clean, agent, bounds>>

\* toSkillDto merged with the payload: an unknown name is answered 404, an entry
\* without a flag 500 and a payload whose flag is not one 400.
Refused(r) ==
  \/ entries[Target(r)] = None
  \/ job[r].op.verb = "update"
     /\ (job[r].op.flag = "unset" \/ entries[Target(r)].flag = "unset")

Removed(r) == [entries EXCEPT ![Target(r)] = None]
Updated(r) == [entries EXCEPT ![Target(r)].flag = job[r].op.flag]

\* readConfig, and for an update or a removal everything up to the next await.
ReadConfig(r) ==
  /\ pc[r] = "read"
  /\ IF ~Installs(r) /\ Refused(r) THEN Quit(r)
     ELSE /\ job' = [job EXCEPT ![r].snap = entries,
                                ![r].next = CASE Installs(r) -> entries
                                              [] job[r].op.verb = "update" -> Updated(r)
                                              [] job[r].op.verb = "remove" -> Removed(r)]
          /\ Goto(r, CASE Installs(r) -> "sync"
                       [] job[r].op.verb = "update" -> "write"
                       [] job[r].op.verb = "remove" -> "rm")
          /\ UNCHANGED overlapped
  /\ UNCHANGED <<entries, dir, temp, clean, agent, bounds>>

\* (Operators marked "Defect" are not the program: each is a plausible bug in
\* a definition that follows it, which the properties must detect.)
\* Defect: the new files are laid over the old ones.
ClearNothing(n) == UNCHANGED dir
Clear(n) == dir' = [dir EXCEPT ![n] = Gone]

\* toSkillDto of an entry that is stored already.
Unreadable(r) ==
  LET old == job[r].snap[Document(r).name] IN old # None /\ old.flag = "unset"

\* The next document: an entry that cannot be read ends the installation,
\* whatever has been copied by then; otherwise the old directory goes first.
Sync(r) ==
  /\ pc[r] = "sync"
  /\ IF Unreadable(r)
       THEN Quit(r) /\ UNCHANGED <<dir, clean, agent>>
       ELSE /\ Clear(Document(r).name) /\ Touch(Document(r).name)
            /\ Goto(r, "copy")
            /\ job' = [job EXCEPT ![r].copied = {}]
            /\ UNCHANGED overlapped
  /\ UNCHANGED <<entries, temp, bounds>>

\* Defect: a skill that is installed is switched on.
FlagOn(old) == "on"
\* Defect: without a default a new skill is stored with a flag of null.
FlagNull(old) == IF old = None THEN None ELSE old.flag
\* existing?.active ?? 1.
FlagOf(old) == IF old = None THEN "on" ELSE old.flag

\* cp -r, file by file.
Copy(r, f) ==
  /\ pc[r] = "copy"
  /\ f \in FilesOf(SourceVersion(r)) \ job[r].copied
  /\ dir' = [dir EXCEPT ![Document(r).name][f] = SourceVersion(r)]
  /\ Touch(Document(r).name)
  /\ job' = [job EXCEPT ![r].copied = @ \cup {f}]
  /\ UNCHANGED <<entries, temp, pc, overlapped, bounds>>

\* The entry takes the description of the document at hand.
Note(r) ==
  /\ pc[r] = "copy" /\ job[r].copied = FilesOf(SourceVersion(r))
  /\ LET n == Document(r).name
         last == job[r].pos = Len(Package(r))
     IN  /\ job' = [job EXCEPT ![r].next[n] = [flag |-> FlagOf(job[r].snap[n]),
                                               version |-> Document(r).version],
                               ![r].pos = IF last THEN @ ELSE @ + 1]
         /\ Goto(r, IF last THEN "write" ELSE "sync")
  /\ UNCHANGED <<entries, dir, temp, overlapped, clean, agent, bounds>>

\* remove: the directory, then the entry.
RemoveDir(r) ==
  /\ pc[r] = "rm"
  /\ Clear(Target(r)) /\ Touch(Target(r))
  /\ Goto(r, "write")
  /\ UNCHANGED <<entries, temp, job, overlapped, bounds>>

\* What a request leaves in order: nothing, if another one ran beside it; a
\* package that holds a skill twice describes one copy and stores the other.
InOrder(r) ==
  IF r \in overlapped THEN {}
  ELSE {n \in Names : clean[n]}
       \cup CASE job[r].op.verb = "remove" -> {Target(r)}
              [] Installs(r) /\ Cardinality(Installed(r)) = Len(Package(r)) -> Installed(r)
              [] OTHER -> {}

\* writeConfig replaces the whole root.
WriteConfig(r) ==
  /\ pc[r] = "write"
  /\ entries' = job[r].next
  /\ clean' = [n \in Names |-> n \in InOrder(r)]
  /\ Quit(r)
  /\ UNCHANGED <<dir, temp, agent, bounds>>

\* Defect: a request that fails has no finally clause.
FailsForGood(r) ==
  /\ pc[r] \in {"read", "sync", "copy", "rm", "write"}
  /\ faults < MaxFaults
  /\ faults' = faults + 1
  /\ Answer(r)
  /\ UNCHANGED <<entries, dir, temp, clean, agent, crashes, turns, stuck>>

\* rm -r throws after it has removed some of the files, perhaps none.
ClearPartly(n) ==
  /\ \E kept \in SUBSET Files :
       dir' = [dir EXCEPT ![n] = [f \in Files |-> IF f \in kept THEN dir[n][f] ELSE None]]
  /\ Touch(n)

\* A read, copy, removal or write throws.
Fails(r) ==
  /\ pc[r] \in {"read", "sync", "copy", "rm", "write"}
  /\ faults < MaxFaults
  /\ faults' = faults + 1
  /\ \/ UNCHANGED <<dir, clean, agent>>
     \/ pc[r] = "rm" /\ ClearPartly(Target(r))
     \/ pc[r] = "sync" /\ ~Unreadable(r) /\ ClearPartly(Document(r).name)
  /\ Quit(r)
  /\ UNCHANGED <<entries, temp, crashes, turns, stuck>>

\* The finally clause of an installation.
Cleanup(r) ==
  /\ pc[r] = "cleanup"
  /\ temp' = temp \ {r}
  /\ Answer(r)
  /\ UNCHANGED <<entries, dir, clean, agent, bounds>>

\* Its rm throws: the directory stays, and what the installation did is
\* answered as an error, also when all of it is done.
CleanupFails(r) ==
  /\ pc[r] = "cleanup" /\ faults < MaxFaults
  /\ faults' = faults + 1
  /\ stuck' = stuck \cup {r}
  /\ Answer(r)
  /\ UNCHANGED <<entries, dir, temp, clean, agent, crashes, turns>>

Crash ==
  /\ crashes < MaxCrashes /\ Active # {}
  /\ crashes' = crashes + 1
  /\ pc' = [r \in Requests |-> IF r \in Active THEN "over" ELSE pc[r]]
  /\ job' = [r \in Requests |-> None] /\ overlapped' = {}
  /\ agent' = NoTurn
  /\ UNCHANGED <<entries, dir, temp, clean, stuck, faults, turns>>

-----------------------------------------------------------------------------
(* An agent's turn: the index of active skills goes into the system prompt, *)
(* later calls of load_skill and read_skill_resource look at the            *)
(* configuration again.                                                     *)

Enabled(e) == e # None /\ e.flag # "off"

BuildIndex ==
  /\ turns < MaxTurns
  /\ turns' = turns + 1
  /\ agent' = [index   |-> {n \in Names : Enabled(entries[n])},
               got     |-> [n \in Names |-> {}],
               touched |-> {n \in Names : ~clean[n]}]
  /\ UNCHANGED <<entries, dir, service, clean, stuck, faults, crashes>>

\* A skill that is not enabled by now, or a file that is not there, is answered
\* with a message.
Readable(n, f) == Enabled(entries[n]) /\ dir[n][f] # None

\* load_skill reads "doc", read_skill_resource "res".
LoadSkill(n, f) ==
  /\ turns > 0
  /\ Readable(n, f)
  /\ agent' = [agent EXCEPT !.got[n] = @ \cup {dir[n][f]}]
  /\ UNCHANGED <<entries, dir, service, clean, bounds>>

Next ==
  \/ \E r \in Requests :
       \/ \E o \in Operations : Arrive(r, o)
       \/ Unpack(r) \/ ReadConfig(r) \/ Sync(r)
       \/ \E f \in Files : Copy(r, f)
       \/ Note(r) \/ RemoveDir(r) \/ WriteConfig(r) \/ Fails(r)
       \/ Cleanup(r) \/ CleanupFails(r)
  \/ Crash
  \/ BuildIndex
  \/ \E n \in Names, f \in Files : LoadSkill(n, f)

Spec == Init /\ [][Next]_vars

-----------------------------------------------------------------------------
(* Entries, directories and requests range over what the service writes.    *)
TypeOK ==
  /\ entries \in Skills /\ dir \in [Names -> Dir]
  /\ temp \subseteq Requests /\ overlapped \subseteq Requests /\ stuck \subseteq Requests
  /\ pc \in [Requests -> Stages] /\ job \in [Requests -> Job \cup {None}]
  /\ clean \in [Names -> BOOLEAN]
  /\ agent \in [index : SUBSET Names, got : [Names -> SUBSET Versions],
                touched : SUBSET Names]
  /\ faults \in 0..MaxFaults /\ crashes \in 0..MaxCrashes /\ turns \in 0..MaxTurns

(* Entry and directory of a skill agree whenever the last operation on it   *)
(* succeeded without another one beside it: an entry has a whole directory  *)
(* of the version it describes, and what has no entry has no directory.     *)
(* Whatever crashes, failures and races left behind, one more installation  *)
(* or removal repairs.                                                      *)
SettledSkillsAgree ==
  \A n \in Names : clean[n] =>
    dir[n] = IF entries[n] = None THEN Gone ELSE Whole(entries[n].version)

(* A skill that was switched off stays off, also when it is installed       *)
(* again: only an update that says so switches it on, unless requests       *)
(* overlap and one writes back the entries it read earlier.                 *)
SwitchedOffStaysOff ==
  [][\A n \in Names :
       (entries[n] # None /\ entries'[n] # None /\ entries[n].flag = "off" /\ entries'[n].flag # "off")
         => \E r \in Requests :
              /\ pc[r] = "write" /\ pc'[r] # "write"
              /\ r \in overlapped \/ (job[r].op.verb = "update" /\ Target(r) = n
                                       /\ job[r].op.flag = "on")]_vars

(* An agent that loads a skill and later its resources reads one version of *)
(* it, unless the skill was not in order or was installed again in the      *)
(* meantime.                                                                *)
TurnSeesOneVersion ==
  \A n \in Names \ agent.touched : Cardinality(agent.got[n]) <= 1

(* The temporary directory of an installation is gone once the installation *)
(* has ended, at whatever file or entry it ended; only a crash, or the      *)
(* removal of that very directory throwing, leaves one behind.              *)
TempDirsGo ==
  crashes = 0 => \A r \in temp : pc[r] \notin {"new", "over"} \/ r \in stuck
=============================================================================
