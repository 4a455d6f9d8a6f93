----------------------------- MODULE MCSkillsStore -----------------------------
(* Instances of SkillsStore for TLC: two skills; version "v2" has no        *)
(* resource file.                                                           *)
EXTENDS SkillsStore, TLC

CONSTANTS r1, r2, r3

Skill(n, v) == [name |-> n, version |-> v]
Op(verb, n, flag, package) ==
  [verb |-> verb, name |-> n, flag |-> flag, package |-> package]

\* Packages: of one skill, of both, with one skill twice, empty.
SkillOperations ==
  {Op("install", "a", "on", p) :
     p \in {<<Skill("a", "v1")>>, <<Skill("a", "v2")>>,
            <<Skill("b", "v1"), Skill("a", "v2")>>,
            <<Skill("a", "v1"), Skill("a", "v2")>>, <<>>}}
  \cup {Op("update", "a", flag, <<>>) : flag \in Flags}
  \cup {Op("remove", "a", "on", <<>>)}

\* Nothing installed; one skill switched off; one written by hand, without a flag.
SkillConfigs ==
  {[a |-> None, b |-> None],
   [a |-> [flag |-> "off", version |-> "v1"], b |-> None],
   [a |-> [flag |-> "unset", version |-> "v1"], b |-> [flag |-> "on", version |-> "v1"]]}

Symmetry == Permutations(Requests)
=============================================================================
