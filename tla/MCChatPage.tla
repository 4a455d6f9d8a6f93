------------------------------ MODULE MCChatPage ------------------------------
(* Instances of ChatPage for TLC: two users, of whom one has conversations. *)
EXTENDS ChatPage

Stores ==
  {[u \in Users |-> [c \in Conversations |-> IF u = "u1" /\ c \in {"c1", "c2"} THEN {} ELSE Nil]]}

\* Sends past forms and double answers; conversations changed and removed
\* under requests; sessions changed under requests and removals; calls that
\* fail and errors that are misread.
W(s, m, r, l, x) == [sends |-> s, moves |-> m, removals |-> r, logins |-> l, mishaps |-> x]
PageWorkloads ==
  {W(4, 0, 0, 0, 0), W(2, 1, 1, 0, 0), W(0, 1, 2, 0, 0), W(1, 0, 0, 2, 0), W(1, 0, 1, 1, 0), W(0, 0, 1, 2, 0),
   W(2, 1, 0, 0, 1), W(1, 1, 0, 1, 1), W(1, 0, 1, 0, 1), W(0, 2, 0, 0, 1)}
=============================================================================
