--------------------------- MODULE MCConfigStore ---------------------------
(* Instances of ConfigStore for TLC: two names, "a" and the builtin "b".    *)
EXTENDS ConfigStore, TLC

CONSTANTS r1, r2, r3

TwoNames == {"a", "b"}
Builtins == {"b"}

BuiltinTool == [builtin |-> 1, active |-> 1]
CustomTool(active) == [builtin |-> 0, active |-> active]

Op(section, verb, name, next) ==
  [section |-> section, verb |-> verb, name |-> name, next |-> next,
   hitl |-> "unset", tool |-> CustomTool(0)]

\* Every verb of every section, with the names and payloads that take
\* different paths through the rules.
AllOperations ==
  {o \in [section : Sections, verb : Verbs, name : TwoNames, next : TwoNames,
          hitl : {"unset"}, tool : {BuiltinTool, CustomTool(0)}] :
     /\ o.verb # "update" => o.name = o.next
     /\ o.verb = "list" => o.section = "agents" /\ o.name = "a"
     /\ o.verb = "get" => o.name = "b"
     /\ (o.section # "tools" \/ o.verb \notin {"create", "update"}) => o.tool = BuiltinTool}
  \cup {[Op("agents", "update", "a", "a") EXCEPT !.hitl = "off"]}

\* The operations that can disturb each other.
RacingOperations ==
  {Op("models", "create", "b", "b"), Op("models", "update", "b", "a"),
   Op("models", "remove", "b", "b"), Op("tools", "create", "a", "a"),
   [Op("agents", "update", "a", "b") EXCEPT !.hitl = "on"],
   Op("agents", "list", "a", "a")}

ModelAndAgentWrites ==
  {Op("models", "create", "a", "a"), Op("models", "remove", "a", "a"), Op("agents", "remove", "a", "a"),
   Op("agents", "create", "b", "b")}

BuiltinOverrides ==
  {[Op("tools", verb, "b", "b") EXCEPT !.tool = t] :
     verb \in {"create", "update"}, t \in {BuiltinTool, CustomTool(0)}}

\* A file with an agent that has an approval policy, a stored builtin tool,
\* and a hand-written model whose key is not its name.
UsedFile ==
  [DefaultConfig EXCEPT !.agents["a"] = [hitl |-> "on"],
                        !.models["a"] = [name |-> "b"],
                        !.tools["b"]  = BuiltinTool]

FreshOrUsed == {Missing, UsedFile}
OnlyUsed    == {UsedFile}

Symmetry == Permutations(Requests)
=============================================================================
