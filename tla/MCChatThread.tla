---------------------------- MODULE MCChatThread ----------------------------
(* Instances of ChatThread for TLC. *)
EXTENDS ChatThread, TLC

CONSTANTS r1, r2, r3, r4

Load(requests, atOnce, crashesMax, deletesMax, failuresMax) ==
  [requests |-> requests, atOnce |-> atOnce, crashes |-> crashesMax, deletes |-> deletesMax,
   failures |-> failuresMax]

\* Four requests one after the other, with two crashes or a crash and a failing
\* save; three of which two overlap.
SerialAndRacing == {Load(4, 1, 2, 1, 0), Load(4, 1, 1, 0, 1), Load(3, 2, 1, 1, 0), Load(3, 2, 0, 0, 1)}

Symmetry == Permutations(Requests)
=============================================================================
