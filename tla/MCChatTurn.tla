----------------------------- MODULE MCChatTurn -----------------------------
(* Instances of ChatTurn for TLC. *)
EXTENDS ChatTurn, TLC

CONSTANTS t1, t2

Load(turnsMax, eventsMax, failuresMax) ==
  [turns |-> turnsMax, events |-> eventsMax, failures |-> failuresMax]

\* One long turn; a turn and the next one, with a history write that fails.
LongOrTwo == {Load(1, 4, 0), Load(2, 3, 1)}
OneShort  == {Load(1, 2, 0)}
=============================================================================
