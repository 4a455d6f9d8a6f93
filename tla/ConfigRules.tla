---------------------------- MODULE ConfigRules ----------------------------
(***************************************************************************)
(* The contents of one user's configuration file and the rules by which    *)
(* AgentsService, ModelsService and ToolsService accept an operation and   *)
(* compute the root they write back: pure functions of the root that was   *)
(* read.                                                                   *)
(***************************************************************************)
CONSTANTS
  Names,         \* entry names (after trim(), non-empty)
  BuiltinNames,  \* the keys of BUILTIN_TOOLS
  Operations,    \* the operations clients may issue (a subset of Operation)
  None           \* no entry, no operation

Sections == {"agents", "models", "tools"}
HitlPolicy == {"unset", "on", "off"}

AgentEntry == [hitl : HitlPolicy]
ModelEntry == [name : Names]
ToolEntry  == [builtin : {0, 1}, active : {0, 1}]

Config == [agents : [Names -> AgentEntry \cup {None}],
           models : [Names -> ModelEntry \cup {None}],
           tools  : [Names -> ToolEntry \cup {None}]]

DefaultConfig == [agents |-> [n \in Names |-> None],
                  models |-> [n \in Names |-> None],
                  tools  |-> [n \in Names |-> None]]

(***************************************************************************)
(* A request after payload validation: section, verb, the name in the path *)
(* and the name in the body (the same when there is only one), and the     *)
(* part of the body the rules look at.  hitl is the agent's approval       *)
(* policy ("unset": humanInTheLoop is omitted); tool is what               *)
(* validateToolPayload returns, whose builtin branch fixes active to 1.    *)
(***************************************************************************)
Verbs == {"list", "get", "create", "update", "remove"}
Operation == [section : Sections, verb : Verbs, name : Names, next : Names,
              hitl : HitlPolicy, tool : ToolEntry]

ASSUME RulesAssumption ==
  /\ BuiltinNames \subseteq Names
  /\ Operations \subseteq Operation
  /\ \A o \in Operations :
       /\ o.tool.builtin = 1 => o.tool.active = 1
       /\ o.verb = "create" => o.name = o.next
  /\ None \notin AgentEntry \cup ModelEntry \cup ToolEntry \cup Operation \cup Config

-----------------------------------------------------------------------------
ReadOnly(o) == o.verb \in {"list", "get"}

\* The entries that answer to a name: its key and, for models, the entry that
\* was stored with that name under another key.
KeysOf(c, section, name) ==
  {k \in Names : /\ c[section][k] # None
                 /\ \/ k = name
                    \/ section = "models" /\ c.models[k].name = name}

\* The entry an accepted write replaces.
Targets(c, o) == IF o.verb = "create" THEN {o.next}
                 ELSE KeysOf(c, o.section, o.name)

StoredAgent(o, previous) ==
  [hitl |-> IF o.hitl # "unset" \/ previous = None THEN o.hitl ELSE previous.hitl]

StoredModel(o) == [name |-> o.next]

StoredTool(o) ==
  [builtin |-> o.tool.builtin,
   active  |-> IF o.tool.builtin = 1 THEN 1 ELSE o.tool.active]

StoredEntry(o, previous) ==
  CASE o.section = "agents" -> StoredAgent(o, previous)
    [] o.section = "models" -> StoredModel(o)
    [] o.section = "tools"  -> StoredTool(o)

\* Does a read or a write of this name find an entry?  GET /tools/:name also
\* finds the builtin tools, PUT and DELETE do not.
Found(c, o) ==
  \/ KeysOf(c, o.section, o.name) # {}
  \/ o.verb = "get" /\ o.section = "tools" /\ o.name \in BuiltinNames

\* (A defect the runs must detect: a conflict check by key alone.)
TakenByKey(c, o) ==
  /\ c[o.section][o.next] # None
  /\ o.verb = "create" \/ (o.verb = "update" /\ o.name # o.next)

Taken(c, o) ==
  /\ KeysOf(c, o.section, o.next) # {}
  /\ o.verb = "create" \/ (o.verb = "update" /\ o.name # o.next)

\* The check each operation makes on the root it read.
Verdict(c, o) ==
  IF o.verb \in {"get", "update", "remove"} /\ ~Found(c, o) THEN "notFound"
  ELSE IF Taken(c, o) THEN "conflict"
  ELSE "ok"

\* The root an accepted write stores; k \in Targets(c, o).
Rewrite(c, o, k) ==
  [c EXCEPT ![o.section] =
     [n \in Names |->
        IF o.verb # "remove" /\ n = o.next THEN StoredEntry(o, c[o.section][k])
        ELSE IF n = k THEN None
        ELSE c[o.section][n]]]

\* A custom tool is saved only after its MCP server has listed its tools.
NeedsProbe(o) == /\ o.section = "tools"
                 /\ o.verb \in {"create", "update"}
                 /\ o.tool.builtin = 0

\* What GET /tools shows for a builtin name: the stored entry shadows it.
BuiltinActive(c, n) ==
  c.tools[n] = None \/ c.tools[n].builtin = 1 \/ c.tools[n].active = 1

\* findModelStorageKeyByName can return one entry only.
Unambiguous(c) ==
  \A n \in Names : \A k, l \in KeysOf(c, "models", n) : k = l
=============================================================================
