------------------------------ MODULE MCAgentTurn ------------------------------
(* Instances of AgentTurn for TLC: two turns, three agents of which two     *)
(* share a memory file, one server, one image and two documents.            *)
EXTENDS AgentTurn

SharedFile == [a \in Agents |-> IF a = "solo" THEN "solo.json" ELSE "__.json"]

Chat(attached) == [name |-> "twin1", resume |-> FALSE, text |-> TRUE, attached |-> attached]
Blank == [Chat(<<>>) EXCEPT !.text = FALSE]
Resume == [Chat(<<>>) EXCEPT !.resume = TRUE]

\* Words alone, attachments in different orders, a resume, and blank input.
SomeAsks == {Chat(<<>>), Chat(<<"image", "doc1">>), Chat(<<"doc1", "doc2">>), Chat(<<"image">>),
             Resume, Blank} \cup {[Chat(<<>>) EXCEPT !.name = a] : a \in Agents}
SomeFiles == {{"image", "doc1"}, {"doc2"}}

Hitl(enabled, tools) == [enabled |-> enabled, interruptOn |-> Nil, tools |-> tools]
AgentOf(hitl) == [files |-> TRUE, tools |-> {"server"}, hitl |-> hitl]
\* One file without and one with a list of tools that need approval.
SomeConfigs ==
  {[agents |-> [a \in Agents |->
       CASE a = "solo" -> Nil
         [] a = "twin1" -> AgentOf(Hitl(TRUE, Nil))
         [] a = "twin2" -> [AgentOf([Hitl(TRUE, Nil) EXCEPT !.interruptOn = {"SendEmail"}]) EXCEPT !.tools = Nil]],
    active |-> {}],
   [agents |-> [a \in Agents |->
       AgentOf(IF a = "twin1" THEN Hitl(TRUE, {"server", "sandbox_shell"}) ELSE Nil)],
    active |-> {"server"}]}

Payload(reads, tools, hitl) == [files |-> reads, tools |-> tools, hitl |-> hitl]
SomeSaves ==
  {Nil, Payload(FALSE, {"server"}, Nil), Payload(TRUE, {"server"}, [enabled |-> TRUE, tools |-> {"server"}]),
   Payload(TRUE, {}, [enabled |-> TRUE, tools |-> {}])}

W(t, u, s, k, x) == [turns |-> t, uploads |-> u, saves |-> s, facts |-> k, faults |-> x]
\* Attachments of two turns; saves and failures during a turn; two turns that
\* remember, one after the other or at once.
TurnWorkloads ==
  {W(2, 1, 0, 0, 1), W(1, 2, 0, 0, 1), W(2, 0, 1, 0, 0), W(1, 1, 1, 0, 1), W(1, 0, 2, 0, 0), W(2, 0, 0, 2, 0),
   W(2, 0, 0, 1, 1), W(1, 0, 0, 2, 1)}
=============================================================================
