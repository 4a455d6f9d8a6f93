-------------------------- MODULE MCSandboxContainer --------------------------
(* Instances of SandboxContainer for TLC. *)
EXTENDS SandboxContainer, TLC

CONSTANTS b1, b2, w1, w2, c1, c2, p1, p2

Load(backends, callsMax, faultsMax, deathsMax, dropsMax) ==
  [backends |-> backends, calls |-> callsMax, faults |-> faultsMax,
   deaths |-> deathsMax, drops |-> dropsMax]

\* One turn after the other, with parallel tool calls; two turns and the panel;
\* a turn next to two requests that open the panel.
AloneAndShared == {Load({b1}, 5, 1, 2, 1), Load({b1, b2, w1}, 4, 1, 1, 1),
                   Load({b1, w1, w2}, 4, 1, 1, 0)}

SandboxSymmetry == Permutations(Ports) \cup Permutations(Calls)
=============================================================================
