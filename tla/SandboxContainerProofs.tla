------------------------ MODULE SandboxContainerProofs ------------------------
(***************************************************************************)
(* Proofs about SandboxContainer for every number of turns, panel requests *)
(* and parallel calls, and for every bound on calls, failures and deaths.  *)
(*                                                                         *)
(* Each invariant is about the moment between two docker commands: what a  *)
(* call has learned by the stage it is in, and who answers for a container *)
(* that runs.                                                              *)
(***************************************************************************)
EXTENDS SandboxContainer, FiniteSetTheorems, TLAPS

LEMMA PortsAreNot ==
  None \notin Ports /\ Removing \notin Ports /\ None # Removing /\ None \notin Backends
BY SandboxAssumption

LEMMA BoundsAreNumbers ==
  ASSUME NEW w \in Workloads
  PROVE  /\ w.calls \in Nat /\ w.faults \in Nat /\ w.deaths \in Nat /\ w.drops \in Nat
         /\ w.backends \subseteq Backends
BY SandboxAssumption

LEMMA InitType == Init => TypeOK
<1> SUFFICES ASSUME Init PROVE TypeOK
  OBVIOUS
<1>1. workload \in Workloads
  BY DEF Init
<1>2. 0 \in 0..workload.calls /\ 0 \in 0..workload.faults /\ 0 \in 0..workload.deaths
      /\ 0 \in 0..workload.drops
  BY <1>1, BoundsAreNumbers
<1>3. QED
  BY <1>1, <1>2 DEF Init, TypeOK, Stages, Lives

\* The counters stay within the bounds of the instance.
Counted ==
  /\ workload \in Workloads /\ drops \in 0..workload.drops
  /\ calls \in 0..workload.calls /\ faults \in 0..workload.faults /\ deaths \in 0..workload.deaths

LEMMA NextCounted == Counted /\ [Next]_vars => Counted'
<1> SUFFICES ASSUME Counted, [Next]_vars PROVE Counted'
  OBVIOUS
<1> USE DEF Counted
<1>0. /\ workload.calls \in Nat /\ workload.faults \in Nat
      /\ workload.deaths \in Nat /\ workload.drops \in Nat
  BY BoundsAreNumbers
<1>f. Fault \/ UNCHANGED faults => faults' \in 0..workload.faults
  BY <1>0 DEF Fault
<1>s. Sees(TRUE) \/ Sees(FALSE) => faults' \in 0..workload.faults
  BY <1>f DEF Sees
<1>1. ASSUME NEW b \in Backends, NEW c \in Calls, CreateInTurn(b, c) \/ CreateInPanel(b, c) PROVE Counted'
  BY <1>0, <1>f, <1>s, <1>1 DEF CreateInTurn, CreateInPanel, Create, Call, objects, locals, bounds, history
<1>2. ASSUME NEW b \in Backends, NEW c \in Calls, UseInTurn(b, c) \/ UseInPanel(b, c) PROVE Counted'
  BY <1>0, <1>f, <1>s, <1>2 DEF UseInTurn, UseInPanel, Call, objects, locals, bounds, history
<1>3. ASSUME NEW c \in Calls, Inspect(c) PROVE Counted'
  BY <1>0, <1>f, <1>s, <1>3 DEF Inspect, objects, locals, bounds, history
<1>4. ASSUME NEW c \in Calls, InspectAgain(c) PROVE Counted'
  BY <1>0, <1>f, <1>s, <1>4 DEF InspectAgain, objects, locals, bounds, history
<1>5. ASSUME NEW c \in Calls, FindPort(c) PROVE Counted'
  BY <1>0, <1>f, <1>s, <1>5 DEF FindPort, objects, locals, bounds, history
<1>6. ASSUME NEW c \in Calls, Run(c) PROVE Counted'
  BY <1>0, <1>f, <1>s, <1>6 DEF Run, objects, locals, bounds, history
<1>7. ASSUME NEW c \in Calls, RunPort(c) PROVE Counted'
  BY <1>0, <1>f, <1>s, <1>7 DEF RunPort, objects, locals, bounds, history
<1>8. ASSUME NEW c \in Calls, LearnAddress(c) PROVE Counted'
  BY <1>0, <1>f, <1>s, <1>8 DEF LearnAddress, objects, locals, bounds, history
<1>9. ASSUME NEW c \in Calls, Healthy(c) PROVE Counted'
  BY <1>0, <1>f, <1>s, <1>9 DEF Healthy, objects, locals, bounds, history
<1>10. ASSUME NEW c \in Calls, HealthTimesOut(c) PROVE Counted'
  BY <1>0, <1>f, <1>s, <1>10 DEF HealthTimesOut, objects, locals, bounds, history
<1>11. ASSUME NEW c \in Calls, Send(c) PROVE Counted'
  BY <1>0, <1>f, <1>s, <1>11 DEF Send, objects, locals, bounds, history
<1>12. ASSUME NEW b \in Backends, Close(b) PROVE Counted'
  BY <1>0, <1>f, <1>s, <1>12 DEF Close, objects, locals, bounds, history
<1>13. ASSUME NEW b \in Backends, Closed(b) PROVE Counted'
  BY <1>0, <1>f, <1>s, <1>13 DEF Closed, objects, locals, bounds, history
<1>14. ASSUME NEW b \in Backends, DropBackend(b) PROVE Counted'
  BY <1>0, <1>f, <1>s, <1>14 DEF DropBackend, objects, locals, bounds, history
<1>15. CASE Removed
  BY <1>0, <1>f, <1>s, <1>15 DEF Removed, objects, locals, bounds, history
<1>16. CASE Dies
  BY <1>0, <1>f, <1>s, <1>16 DEF Dies, objects, locals, bounds, history
<1>17. CASE Crash
  BY <1>0, <1>f, <1>s, <1>17 DEF Crash, objects, locals, bounds, history
<1>18. CASE UNCHANGED vars
  BY <1>0, <1>f, <1>s, <1>18 DEF vars, objects, locals, bounds, history
<1>19. QED
  BY <1>1, <1>2, <1>3, <1>4, <1>5, <1>6, <1>7, <1>8, <1>9, <1>10, <1>11, <1>12, <1>13, <1>14, <1>15, <1>16, <1>17, <1>18 DEF Next

LEMMA NextType == TypeOK /\ [Next]_vars => TypeOK'
<1> SUFFICES ASSUME TypeOK, [Next]_vars PROVE TypeOK'
  OBVIOUS
<1>0. Counted'
  BY NextCounted DEF TypeOK, Counted
<1> DEFINE Shapes ==
      /\ container \in Ports \cup {None, Removing}
      /\ life \in [Backends -> Lives] /\ loose \subseteq Turns
      /\ ensured \in [Backends -> BOOLEAN]
      /\ address \in [Backends -> Ports \cup {None}]
      /\ on \in [Calls -> Backends \cup {None}]
      /\ stage \in [Calls -> Stages]
      /\ \A c \in Calls : on[c] = None <=> stage[c] = "idle"
      /\ port \in [Calls -> Ports \cup {None}]
      /\ starter \in Backends \cup {None} /\ left \in BOOLEAN
<1>a. Shapes
  BY DEF TypeOK
<1>b. SUFFICES Shapes'
  BY <1>0, <1>b DEF TypeOK, Counted
<1>c. \A c \in Calls : stage[c] # "idle" => on[c] \in Backends
  BY <1>a
<1> USE DEF Stages, Lives, Goto, Running
<1>1. ASSUME NEW b \in Backends, NEW c \in Calls, CreateInTurn(b, c) \/ CreateInPanel(b, c) PROVE Shapes'
  <2>1. Create(b, c)
    BY <1>1 DEF CreateInTurn, CreateInPanel
  <2>2. QED
    BY <1>a, <1>c, PortsAreNot, <2>1 DEF Create, Call, objects, locals, bounds, history
<1>2. ASSUME NEW b \in Backends, NEW c \in Calls, UseInTurn(b, c) \/ UseInPanel(b, c) PROVE Shapes'
  BY <1>a, <1>c, PortsAreNot, <1>2 DEF UseInTurn, UseInPanel, Call, objects, locals, bounds, history
<1>3. ASSUME NEW c \in Calls, Inspect(c) PROVE Shapes'
  <2>1. CASE life[on[c]] = "creating" /\ ensured[on[c]] /\ Sees(TRUE) /\ Ensured(c)
    BY <1>a, <1>c, PortsAreNot, <1>3, <2>1 DEF Inspect, Ensured, Over, Sees, objects, locals, bounds, history
  <2>2. CASE life[on[c]] # "creating" /\ ensured[on[c]] /\ Sees(TRUE) /\ Ensured(c)
    BY <1>a, <1>c, PortsAreNot, <1>3, <2>2 DEF Inspect, Ensured, Sees, objects, locals, bounds, history
  <2>3. CASE (ensured[on[c]] => Sees(FALSE)) /\ Goto(c, "inspectAgain") /\ UNCHANGED <<life, on, port>>
    BY <1>a, <1>c, PortsAreNot, <1>3, <2>3 DEF Inspect, Sees, objects, locals, bounds, history
  <2>4. QED
    BY <1>3, <2>1, <2>2, <2>3 DEF Inspect
<1>4. ASSUME NEW c \in Calls, InspectAgain(c) PROVE Shapes'
  BY <1>a, <1>c, PortsAreNot, <1>4 DEF InspectAgain, objects, locals, bounds, history
<1>5. ASSUME NEW c \in Calls, FindPort(c) PROVE Shapes'
  BY <1>a, <1>c, PortsAreNot, <1>5 DEF FindPort, objects, locals, bounds, history
<1>6. ASSUME NEW c \in Calls, Run(c) PROVE Shapes'
  BY <1>a, <1>c, PortsAreNot, <1>6 DEF Run, Fail, Over, objects, locals, bounds, history
<1>7. ASSUME NEW c \in Calls, RunPort(c) PROVE Shapes'
  BY <1>a, <1>c, PortsAreNot, <1>7 DEF RunPort, Fail, Over, Leaves, objects, locals, bounds, history
<1>8. ASSUME NEW c \in Calls, LearnAddress(c) PROVE Shapes'
  BY <1>a, <1>c, PortsAreNot, <1>8 DEF LearnAddress, objects, locals, bounds, history
<1>9. ASSUME NEW c \in Calls, Healthy(c) PROVE Shapes'
  BY <1>a, <1>c, PortsAreNot, <1>9 DEF Healthy, Ensured, Over, objects, locals, bounds, history
<1>10. ASSUME NEW c \in Calls, HealthTimesOut(c) PROVE Shapes'
  BY <1>a, <1>c, PortsAreNot, <1>10 DEF HealthTimesOut, Fail, Over, Leaves, objects, locals, bounds, history
<1>11. ASSUME NEW c \in Calls, Send(c) PROVE Shapes'
  BY <1>a, <1>c, PortsAreNot, <1>11 DEF Send, Over, objects, locals, bounds, history
<1>12. ASSUME NEW b \in Backends, Close(b) PROVE Shapes'
  BY <1>a, <1>c, PortsAreNot, <1>12 DEF Close, objects, locals, bounds, history
<1>13. ASSUME NEW b \in Backends, Closed(b) PROVE Shapes'
  BY <1>a, <1>c, PortsAreNot, <1>13 DEF Closed, objects, locals, bounds, history
<1>14. ASSUME NEW b \in Backends, DropBackend(b) PROVE Shapes'
  BY <1>a, <1>c, PortsAreNot, <1>14 DEF DropBackend, objects, locals, bounds, history
<1>15. CASE Removed
  BY <1>a, <1>c, PortsAreNot, <1>15 DEF Removed, objects, locals, bounds, history
<1>16. CASE Dies
  BY <1>a, <1>c, PortsAreNot, <1>16 DEF Dies, objects, locals, bounds, history
<1>17. CASE Crash
  BY <1>a, <1>c, PortsAreNot, <1>17 DEF Crash, objects, locals, bounds, history
<1>18. CASE UNCHANGED vars
  BY <1>a, <1>c, PortsAreNot, <1>18 DEF vars, objects, locals, bounds, history
<1>19. QED
  BY <1>1, <1>2, <1>3, <1>4, <1>5, <1>6, <1>7, <1>8, <1>9, <1>10, <1>11, <1>12, <1>13, <1>14, <1>15, <1>16, <1>17, <1>18 DEF Next

-----------------------------------------------------------------------------
(* While create() works on an object, its call is the only one on it; the    *)
(* turns whose tools outlive them are closed.                               *)
Single ==
  /\ \A b \in Backends : life[b] = "new" => Quiet(b)
  /\ \A c, d \in Calls : on[c] # None /\ on[c] = on[d] /\ life[on[c]] = "creating" => c = d
  /\ \A b \in loose : life[b] \in {"closing", "closed"}

LEMMA InitSingle == Init => Single
BY PortsAreNot DEF Init, Single, Quiet

LEMMA NextSingle == TypeOK /\ Single /\ [Next]_vars => Single'
<1> SUFFICES ASSUME TypeOK, Single, [Next]_vars PROVE Single'
  OBVIOUS
<1>c. \A c \in Calls : stage[c] # "idle" => on[c] \in Backends
  BY DEF TypeOK
<1> USE DEF TypeOK, Single, Quiet, Goto, Ready
\* Steps that do not make a call: the only one on an object that is being
\* created ends, another one ends, none ends.
<1>o. ASSUME NEW c \in Calls, NEW x \in {"ready", "new"}, stage[c] # "idle", life[on[c]] = "creating",
             life' = [life EXCEPT ![on[c]] = x], on' = [on EXCEPT ![c] = None], loose' = loose
      PROVE  Single'
  <2>1. on[c] \in Backends /\ \A d \in Calls : on[d] = on[c] => d = c
    BY <1>o, <1>c, PortsAreNot
  <2>2. ASSUME NEW a \in Backends, life'[a] = "new" PROVE Quiet(a)'
    <3>1. CASE a = on[c]
      BY <1>o, <2>1, <3>1, PortsAreNot
    <3>2. CASE a # on[c]
      BY <1>o, <2>1, <2>2, <3>2, PortsAreNot
    <3>3. QED
      BY <3>1, <3>2
  <2>3. ASSUME NEW d \in Calls, NEW e \in Calls, on'[d] # None, on'[d] = on'[e], life'[on'[d]] = "creating"
        PROVE  d = e
    BY <1>o, <2>1, <2>3, PortsAreNot
  <2>4. \A a \in loose' : life'[a] \in {"closing", "closed"}
    BY <1>o, <2>1
  <2>5. QED
    BY <2>2, <2>3, <2>4
<1>p. ASSUME NEW c \in Calls, UNCHANGED <<life, loose>>, on' = on \/ on' = [on EXCEPT ![c] = None]
      PROVE  Single'
  BY <1>p, PortsAreNot
<1>1. ASSUME NEW b \in Backends, NEW c \in Calls, CreateInTurn(b, c) \/ CreateInPanel(b, c) PROVE Single'
  <2>1. /\ Quiet(b) /\ on[c] = None /\ life[b] \in {"new", "closed"}
        /\ life' = [life EXCEPT ![b] = "creating"] /\ loose' = loose \ {b}
        /\ on' = [on EXCEPT ![c] = b]
    BY <1>1 DEF CreateInTurn, CreateInPanel, Create, Call
  <2>2. ASSUME NEW a \in Backends, life'[a] = "new" PROVE Quiet(a)'
    BY <2>1, <2>2
  <2>3. ASSUME NEW d \in Calls, NEW e \in Calls, on'[d] # None, on'[d] = on'[e], life'[on'[d]] = "creating"
        PROVE  d = e
    <3>1. CASE on'[d] = b
      BY <2>1, <2>3, <3>1
    <3>2. CASE on'[d] # b
      BY <2>1, <2>3, <3>2
    <3>3. QED
      BY <3>1, <3>2
  <2>4. \A a \in loose' : life'[a] \in {"closing", "closed"}
    BY <2>1
  <2>5. QED
    BY <2>2, <2>3, <2>4
<1>2. ASSUME NEW b \in Backends, NEW c \in Calls, UseInTurn(b, c) \/ UseInPanel(b, c) PROVE Single'
  <2>1. CASE Ready(b) /\ life' = [life EXCEPT ![b] = "used"] /\ UNCHANGED <<loose, ensured, address>>
    BY <1>c, PortsAreNot, <1>2, <2>1 DEF UseInTurn, UseInPanel, Call, objects, locals, bounds, history
  <2>2. CASE (Ready(b) \/ b \in loose) /\ UNCHANGED objects
    BY <1>c, PortsAreNot, <1>2, <2>2 DEF UseInTurn, UseInPanel, Call, objects, locals, bounds, history
  <2>3. QED
    BY <1>2, <2>1, <2>2 DEF UseInTurn, UseInPanel, objects
<1>3. ASSUME NEW c \in Calls, Inspect(c) PROVE Single'
  BY <1>3, <1>o, <1>p DEF Inspect, Ensured, Over
<1>4. ASSUME NEW c \in Calls, InspectAgain(c) PROVE Single'
  BY <1>c, PortsAreNot, <1>4 DEF InspectAgain, objects, locals, bounds, history
<1>5. ASSUME NEW c \in Calls, FindPort(c) PROVE Single'
  BY <1>c, PortsAreNot, <1>5 DEF FindPort, objects, locals, bounds, history
<1>6. ASSUME NEW c \in Calls, Run(c) PROVE Single'
  BY <1>6, <1>o, <1>p DEF Run, Fail, Over
<1>7. ASSUME NEW c \in Calls, RunPort(c) PROVE Single'
  BY <1>7, <1>o, <1>p DEF RunPort, Fail, Over
<1>8. ASSUME NEW c \in Calls, LearnAddress(c) PROVE Single'
  BY <1>c, PortsAreNot, <1>8 DEF LearnAddress, objects, locals, bounds, history
<1>9. ASSUME NEW c \in Calls, Healthy(c) PROVE Single'
  BY <1>9, <1>o, <1>p DEF Healthy, Ensured, Over
<1>10. ASSUME NEW c \in Calls, HealthTimesOut(c) PROVE Single'
  BY <1>10, <1>o, <1>p DEF HealthTimesOut, Fail, Over
<1>11. ASSUME NEW c \in Calls, Send(c) PROVE Single'
  BY <1>c, PortsAreNot, <1>11 DEF Send, Over, objects, locals, bounds, history
<1>12. ASSUME NEW b \in Backends, Close(b) PROVE Single'
  BY <1>c, PortsAreNot, <1>12 DEF Close, objects, locals, bounds, history
<1>13. ASSUME NEW b \in Backends, Closed(b) PROVE Single'
  BY <1>c, PortsAreNot, <1>13 DEF Closed, objects, locals, bounds, history
<1>14. ASSUME NEW b \in Backends, DropBackend(b) PROVE Single'
  BY <1>c, PortsAreNot, <1>14 DEF DropBackend, objects, locals, bounds, history
<1>15. CASE Removed
  BY <1>c, PortsAreNot, <1>15 DEF Removed, objects, locals, bounds, history
<1>16. CASE Dies
  BY <1>c, PortsAreNot, <1>16 DEF Dies, objects, locals, bounds, history
<1>17. CASE Crash
  BY <1>c, PortsAreNot, <1>17 DEF Crash, objects, locals, bounds, history
<1>18. CASE UNCHANGED vars
  BY <1>c, PortsAreNot, <1>18 DEF vars, objects, locals, bounds, history
<1>19. QED
  BY <1>1, <1>2, <1>3, <1>4, <1>5, <1>6, <1>7, <1>8, <1>9, <1>10, <1>11, <1>12, <1>13, <1>14, <1>15, <1>16, <1>17, <1>18 DEF Next

-----------------------------------------------------------------------------
(* What a call and its backend know at each stage.  The flag alone says     *)
(* nothing: it is set before the address is known, but never while the call *)
(* that sets it could still leave a new backend without one.                *)
AddressInv ==
  /\ \A b \in Backends : life[b] \in {"ready", "used", "closing", "closed"} => address[b] \in Ports
  /\ \A c \in Calls :
       /\ stage[c] \in {"gotPort", "gotRunPort"} => port[c] \in Ports
       /\ stage[c] \in {"wait", "waitRun"} => address[on[c]] \in Ports
       /\ stage[c] = "inspect" /\ life[on[c]] = "creating" => ~ensured[on[c]]

LEMMA InitAddress == Init => AddressInv
BY DEF Init, AddressInv

LEMMA NextAddress == TypeOK /\ Single /\ AddressInv /\ [Next]_vars => AddressInv'
<1> SUFFICES ASSUME TypeOK, Single, AddressInv, [Next]_vars PROVE AddressInv'
  OBVIOUS
<1>c. \A c \in Calls : stage[c] # "idle" => on[c] \in Backends
  BY DEF TypeOK
<1> USE DEF TypeOK, Single, Quiet, AddressInv, Goto, Running, Ready, Lives
<1>1. ASSUME NEW b \in Backends, NEW c \in Calls, CreateInTurn(b, c) \/ CreateInPanel(b, c) PROVE AddressInv'
  BY <1>c, PortsAreNot, <1>1 DEF CreateInTurn, CreateInPanel, Create, Call, objects, locals, bounds, history
<1>2. ASSUME NEW b \in Backends, NEW c \in Calls, UseInTurn(b, c) \/ UseInPanel(b, c) PROVE AddressInv'
  <2>1. CASE Ready(b) /\ life' = [life EXCEPT ![b] = "used"] /\ UNCHANGED <<loose, ensured, address>>
    BY <1>c, PortsAreNot, <1>2, <2>1 DEF UseInTurn, UseInPanel, Call, objects, locals, bounds, history
  <2>2. CASE (Ready(b) \/ b \in loose) /\ UNCHANGED objects
    BY <1>c, PortsAreNot, <1>2, <2>2 DEF UseInTurn, UseInPanel, Call, objects, locals, bounds, history
  <2>3. QED
    BY <1>2, <2>1, <2>2 DEF UseInTurn, UseInPanel, objects
<1>3. ASSUME NEW c \in Calls, Inspect(c) PROVE AddressInv'
  <2>1. CASE life[on[c]] = "creating" /\ ensured[on[c]] /\ Sees(TRUE) /\ Ensured(c)
    BY <1>c, PortsAreNot, <1>3, <2>1 DEF Inspect, Ensured, Over, Sees, objects, locals, bounds, history
  <2>2. CASE life[on[c]] # "creating" /\ ensured[on[c]] /\ Sees(TRUE) /\ Ensured(c)
    BY <1>c, PortsAreNot, <1>3, <2>2 DEF Inspect, Ensured, Sees, objects, locals, bounds, history
  <2>3. CASE (ensured[on[c]] => Sees(FALSE)) /\ Goto(c, "inspectAgain") /\ UNCHANGED <<life, on, port>>
    BY <1>c, PortsAreNot, <1>3, <2>3 DEF Inspect, Sees, objects, locals, bounds, history
  <2>4. QED
    BY <1>3, <2>1, <2>2, <2>3 DEF Inspect
<1>4. ASSUME NEW c \in Calls, InspectAgain(c) PROVE AddressInv'
  <2>1. CASE Sees(TRUE) /\ ensured' = [ensured EXCEPT ![on[c]] = TRUE] /\ Goto(c, "port")
    <3>1. CASE life[on[c]] = "creating"
      BY <1>c, PortsAreNot, <1>4, <2>1, <3>1 DEF InspectAgain, Sees, objects, locals, bounds, history
    <3>2. CASE life[on[c]] # "creating"
      BY <1>c, PortsAreNot, <1>4, <2>1, <3>2 DEF InspectAgain, Sees, objects, locals, bounds, history
    <3>3. QED
      BY <3>1, <3>2
  <2>2. CASE Sees(FALSE) /\ Goto(c, "run") /\ UNCHANGED ensured
    BY <1>c, PortsAreNot, <1>4, <2>2 DEF InspectAgain, Sees, objects, locals, bounds, history
  <2>3. QED
    BY <1>4, <2>1, <2>2 DEF InspectAgain
<1>5. ASSUME NEW c \in Calls, FindPort(c) PROVE AddressInv'
  BY <1>c, PortsAreNot, <1>5 DEF FindPort, objects, locals, bounds, history
<1>6. ASSUME NEW c \in Calls, Run(c) PROVE AddressInv'
  BY <1>c, PortsAreNot, <1>6 DEF Run, Fail, Over, objects, locals, bounds, history
<1>7. ASSUME NEW c \in Calls, RunPort(c) PROVE AddressInv'
  BY <1>c, PortsAreNot, <1>7 DEF RunPort, Fail, Over, Leaves, objects, locals, bounds, history
<1>8. ASSUME NEW c \in Calls, LearnAddress(c) PROVE AddressInv'
  BY <1>c, PortsAreNot, <1>8 DEF LearnAddress, objects, locals, bounds, history
<1>9. ASSUME NEW c \in Calls, Healthy(c) PROVE AddressInv'
  BY <1>c, PortsAreNot, <1>9 DEF Healthy, Ensured, Over, objects, locals, bounds, history
<1>10. ASSUME NEW c \in Calls, HealthTimesOut(c) PROVE AddressInv'
  BY <1>c, PortsAreNot, <1>10 DEF HealthTimesOut, Fail, Over, Leaves, objects, locals, bounds, history
<1>11. ASSUME NEW c \in Calls, Send(c) PROVE AddressInv'
  BY <1>c, PortsAreNot, <1>11 DEF Send, Over, objects, locals, bounds, history
<1>12. ASSUME NEW b \in Backends, Close(b) PROVE AddressInv'
  BY <1>c, PortsAreNot, <1>12 DEF Close, objects, locals, bounds, history
<1>13. ASSUME NEW b \in Backends, Closed(b) PROVE AddressInv'
  BY <1>c, PortsAreNot, <1>13 DEF Closed, objects, locals, bounds, history
<1>14. ASSUME NEW b \in Backends, DropBackend(b) PROVE AddressInv'
  BY <1>c, PortsAreNot, <1>14 DEF DropBackend, objects, locals, bounds, history
<1>15. CASE Removed
  BY <1>c, PortsAreNot, <1>15 DEF Removed, objects, locals, bounds, history
<1>16. CASE Dies
  BY <1>c, PortsAreNot, <1>16 DEF Dies, objects, locals, bounds, history
<1>17. CASE Crash
  BY <1>c, PortsAreNot, <1>17 DEF Crash, objects, locals, bounds, history
<1>18. CASE UNCHANGED vars
  BY <1>c, PortsAreNot, <1>18 DEF vars, objects, locals, bounds, history
<1>19. QED
  BY <1>1, <1>2, <1>3, <1>4, <1>5, <1>6, <1>7, <1>8, <1>9, <1>10, <1>11, <1>12, <1>13, <1>14, <1>15, <1>16, <1>17, <1>18 DEF Next

-----------------------------------------------------------------------------
(* Who answers for a running container: the backend that started it, which  *)
(* is open, or is being created and has not lost sight of it.               *)
Follows(c) ==
  \/ stage[c] = "runPort"
  \/ stage[c] = "gotRunPort" /\ port[c] = container
  \/ stage[c] = "waitRun" /\ address[on[c]] = container
KeeperInv ==
  Running /\ ~left =>
    /\ starter \in Backends /\ Holds(starter)
    /\ life[starter] = "creating" => \A c \in Calls : on[c] = starter => Follows(c)

LEMMA InitKeeper == Init => KeeperInv
BY PortsAreNot DEF Init, KeeperInv, Running

LEMMA NextKeeper == TypeOK /\ Single /\ KeeperInv /\ [Next]_vars => KeeperInv'
<1> SUFFICES ASSUME TypeOK, Single, KeeperInv, [Next]_vars PROVE KeeperInv'
  OBVIOUS
<1>c. \A c \in Calls : stage[c] # "idle" => on[c] \in Backends
  BY DEF TypeOK
<1> USE DEF TypeOK, Single, Quiet, KeeperInv, Follows, Holds, Goto, Running, Ready
<1>1. ASSUME NEW b \in Backends, NEW c \in Calls, CreateInTurn(b, c) \/ CreateInPanel(b, c) PROVE KeeperInv'
  BY <1>c, PortsAreNot, <1>1 DEF CreateInTurn, CreateInPanel, Create, Call, objects, locals, bounds, history
<1>2. ASSUME NEW b \in Backends, NEW c \in Calls, UseInTurn(b, c) \/ UseInPanel(b, c) PROVE KeeperInv'
  <2>1. CASE Ready(b) /\ life' = [life EXCEPT ![b] = "used"] /\ UNCHANGED <<loose, ensured, address>>
    BY <1>c, PortsAreNot, <1>2, <2>1 DEF UseInTurn, UseInPanel, Call, objects, locals, bounds, history
  <2>2. CASE (Ready(b) \/ b \in loose) /\ UNCHANGED objects
    BY <1>c, PortsAreNot, <1>2, <2>2 DEF UseInTurn, UseInPanel, Call, objects, locals, bounds, history
  <2>3. QED
    BY <1>2, <2>1, <2>2 DEF UseInTurn, UseInPanel, objects
<1>3. ASSUME NEW c \in Calls, Inspect(c) PROVE KeeperInv'
  <2>1. CASE life[on[c]] = "creating" /\ ensured[on[c]] /\ Sees(TRUE) /\ Ensured(c)
    BY <1>c, PortsAreNot, <1>3, <2>1 DEF Inspect, Ensured, Over, Sees, objects, locals, bounds, history
  <2>2. CASE life[on[c]] # "creating" /\ ensured[on[c]] /\ Sees(TRUE) /\ Ensured(c)
    BY <1>c, PortsAreNot, <1>3, <2>2 DEF Inspect, Ensured, Sees, objects, locals, bounds, history
  <2>3. CASE (ensured[on[c]] => Sees(FALSE)) /\ Goto(c, "inspectAgain") /\ UNCHANGED <<life, on, port>>
    BY <1>c, PortsAreNot, <1>3, <2>3 DEF Inspect, Sees, objects, locals, bounds, history
  <2>4. QED
    BY <1>3, <2>1, <2>2, <2>3 DEF Inspect
<1>4. ASSUME NEW c \in Calls, InspectAgain(c) PROVE KeeperInv'
  BY <1>c, PortsAreNot, <1>4 DEF InspectAgain, objects, locals, bounds, history
<1>5. ASSUME NEW c \in Calls, FindPort(c) PROVE KeeperInv'
  BY <1>c, PortsAreNot, <1>5 DEF FindPort, objects, locals, bounds, history
<1>6. ASSUME NEW c \in Calls, Run(c) PROVE KeeperInv'
  <2>0. stage[c] = "run" /\ on[c] \in Backends
    BY <1>6, <1>c DEF Run
  <2>1. CASE /\ container = None /\ container' \in Ports /\ Goto(c, "runPort") /\ UNCHANGED <<life, on>>
             /\ starter' = on[c] /\ left' = ~Holds(on[c])
    <3>1. life[on[c]] = "creating" => \A d \in Calls : on[d] = on[c] => d = c
      BY <2>0, PortsAreNot
    <3>2. stage'[c] = "runPort"
      BY <2>1
    <3>3. QED
      BY <2>0, <2>1, <3>1, <3>2
  <2>2. CASE Fail(c) /\ life[on[c]] = "creating" /\ UNCHANGED <<container, history>>
    <3>1. Running /\ ~left => starter # on[c]
      BY <2>0, <2>2
    <3>2. SUFFICES ASSUME Running', ~left' PROVE KeeperInv'
      OBVIOUS
    <3>3. starter \in Backends /\ starter # on[c] /\ starter' = starter /\ container' = container /\ ~left
      BY <2>2, <3>1, <3>2 DEF history
    <3>4. life'[starter] = life[starter] /\ address'[starter] = address[starter]
      BY <2>2, <3>3 DEF Fail
    <3>5. ASSUME NEW d \in Calls, on'[d] = starter
          PROVE  on[d] = starter /\ stage'[d] = stage[d] /\ port'[d] = port[d]
      BY <2>2, <3>3, <3>5, PortsAreNot DEF Fail, Over
    <3>6. QED
      BY <3>2, <3>3, <3>4, <3>5
  <2>3. CASE Fail(c) /\ life[on[c]] # "creating" /\ UNCHANGED <<container, history>>
    BY <2>0, <2>3, PortsAreNot DEF Fail, Over, history
  <2>4. CASE Fail(c) /\ starter' = on[c] /\ left' = ~Ready(on[c])
    BY <2>0, <2>4 DEF Fail, Over
  <2>5. QED
    BY <1>6, <2>1, <2>2, <2>3, <2>4 DEF Run
<1>7. ASSUME NEW c \in Calls, RunPort(c) PROVE KeeperInv'
  <2>1. CASE Goto(c, "gotRunPort")
    BY <1>c, PortsAreNot, <1>7, <2>1 DEF RunPort, Fail, Over, Leaves, objects, locals, bounds, history
  <2>2. CASE Fail(c) /\ life[on[c]] = "creating"
    BY <1>c, PortsAreNot, <1>7, <2>2 DEF RunPort, Fail, Over, Leaves, objects, locals, bounds, history
  <2>3. CASE Fail(c) /\ life[on[c]] # "creating"
    BY <1>c, PortsAreNot, <1>7, <2>3 DEF RunPort, Fail, Over, Leaves, objects, locals, bounds, history
  <2>4. QED
    BY <1>7, <2>1, <2>2, <2>3 DEF RunPort
<1>8. ASSUME NEW c \in Calls, LearnAddress(c) PROVE KeeperInv'
  BY <1>c, PortsAreNot, <1>8 DEF LearnAddress, objects, locals, bounds, history
<1>9. ASSUME NEW c \in Calls, Healthy(c) PROVE KeeperInv'
  BY <1>c, PortsAreNot, <1>9 DEF Healthy, Ensured, Over, objects, locals, bounds, history
<1>10. ASSUME NEW c \in Calls, HealthTimesOut(c) PROVE KeeperInv'
  BY <1>c, PortsAreNot, <1>10 DEF HealthTimesOut, Fail, Over, Leaves, objects, locals, bounds, history
<1>11. ASSUME NEW c \in Calls, Send(c) PROVE KeeperInv'
  BY <1>c, PortsAreNot, <1>11 DEF Send, Over, objects, locals, bounds, history
<1>12. ASSUME NEW b \in Backends, Close(b) PROVE KeeperInv'
  BY <1>c, PortsAreNot, <1>12 DEF Close, objects, locals, bounds, history
<1>13. ASSUME NEW b \in Backends, Closed(b) PROVE KeeperInv'
  BY <1>c, PortsAreNot, <1>13 DEF Closed, objects, locals, bounds, history
<1>14. ASSUME NEW b \in Backends, DropBackend(b) PROVE KeeperInv'
  BY <1>c, PortsAreNot, <1>14 DEF DropBackend, objects, locals, bounds, history
<1>15. CASE Removed
  BY <1>c, PortsAreNot, <1>15 DEF Removed, objects, locals, bounds, history
<1>16. CASE Dies
  BY <1>c, PortsAreNot, <1>16 DEF Dies, objects, locals, bounds, history
<1>17. CASE Crash
  BY <1>c, PortsAreNot, <1>17 DEF Crash, objects, locals, bounds, history
<1>18. CASE UNCHANGED vars
  BY <1>c, PortsAreNot, <1>18 DEF vars, objects, locals, bounds, history
<1>19. QED
  BY <1>1, <1>2, <1>3, <1>4, <1>5, <1>6, <1>7, <1>8, <1>9, <1>10, <1>11, <1>12, <1>13, <1>14, <1>15, <1>16, <1>17, <1>18 DEF Next

-----------------------------------------------------------------------------
(* A single backend without failures of docker.  While it is created, its   *)
(* only call knows the container that runs.  Later, until the container has *)
(* died, calls find it running and change nothing; once it has died, calls  *)
(* between a docker command and the address are about the one that runs,    *)
(* since it does not die again.                                             *)
AtDocker == {"port", "gotPort", "runPort", "gotRunPort"}
Creates(c) ==
  LET b == on[c] IN
  /\ stage[c] \in {"port", "gotPort", "wait"} => ensured[b]
  /\ stage[c] \in {"wait", "waitRun"} /\ Running => address[b] = container
  /\ stage[c] \in {"gotPort", "gotRunPort"} /\ Running => port[c] = container
  /\ deaths = 0 /\ stage[c] \in AtDocker \cup {"wait", "waitRun"} => Running
Serves(c) ==
  /\ deaths = 0 => stage[c] \in {"inspect", "send"}
  /\ stage[c] \in AtDocker => Running
  /\ stage[c] \in {"gotPort", "gotRunPort"} => port[c] = container
Current(b) ==
  /\ life[b] = "creating" => \A c \in Calls : on[c] = b => Creates(c)
  /\ Ready(b) => /\ \A c \in Calls : on[c] = b => Serves(c)
                 /\ deaths = 0 => Running /\ ensured[b] /\ address[b] = container
                 /\ Running => address[b] = container \/ \E c \in Calls : on[c] = b /\ Restarts(c)
\* Backends that the workload does not have are never used.
UnusedInv == \A b \in Backends \ workload.backends : life[b] = "new"
CurrentInv == faults = 0 /\ deaths <= 1 => \A b \in Backends : workload.backends = {b} => Current(b)

LEMMA InitCurrent == Init => UnusedInv /\ CurrentInv
BY DEF Init, UnusedInv, CurrentInv, Current, Ready

LEMMA NextUnused == TypeOK /\ Single /\ UnusedInv /\ [Next]_vars => UnusedInv'
<1> SUFFICES ASSUME TypeOK, Single, UnusedInv, [Next]_vars PROVE UnusedInv'
  OBVIOUS
<1>c. \A c \in Calls : stage[c] # "idle" => on[c] \in Backends
  BY DEF TypeOK
<1> USE DEF TypeOK, UnusedInv, Goto, Ready
<1>1. ASSUME NEW b \in Backends, NEW c \in Calls, CreateInTurn(b, c) \/ CreateInPanel(b, c) PROVE UnusedInv'
  BY <1>c, PortsAreNot, <1>1 DEF CreateInTurn, CreateInPanel, Create, Call, objects, locals, bounds, history
<1>2. ASSUME NEW b \in Backends, NEW c \in Calls, UseInTurn(b, c) \/ UseInPanel(b, c) PROVE UnusedInv'
  BY <1>c, PortsAreNot, <1>2 DEF UseInTurn, UseInPanel, Call, objects, locals, bounds, history
<1>3. ASSUME NEW c \in Calls, Inspect(c) PROVE UnusedInv'
  BY <1>c, PortsAreNot, <1>3 DEF Inspect, Ensured, Over, objects, locals, bounds, history
<1>4. ASSUME NEW c \in Calls, InspectAgain(c) PROVE UnusedInv'
  BY <1>c, PortsAreNot, <1>4 DEF InspectAgain, objects, locals, bounds, history
<1>5. ASSUME NEW c \in Calls, FindPort(c) PROVE UnusedInv'
  BY <1>c, PortsAreNot, <1>5 DEF FindPort, objects, locals, bounds, history
<1>6. ASSUME NEW c \in Calls, Run(c) PROVE UnusedInv'
  BY <1>c, PortsAreNot, <1>6 DEF Run, Fail, Over, objects, locals, bounds, history
<1>7. ASSUME NEW c \in Calls, RunPort(c) PROVE UnusedInv'
  BY <1>c, PortsAreNot, <1>7 DEF RunPort, Fail, Over, Leaves, objects, locals, bounds, history
<1>8. ASSUME NEW c \in Calls, LearnAddress(c) PROVE UnusedInv'
  BY <1>c, PortsAreNot, <1>8 DEF LearnAddress, objects, locals, bounds, history
<1>9. ASSUME NEW c \in Calls, Healthy(c) PROVE UnusedInv'
  BY <1>c, PortsAreNot, <1>9 DEF Healthy, Ensured, Over, objects, locals, bounds, history
<1>10. ASSUME NEW c \in Calls, HealthTimesOut(c) PROVE UnusedInv'
  BY <1>c, PortsAreNot, <1>10 DEF HealthTimesOut, Fail, Over, Leaves, objects, locals, bounds, history
<1>11. ASSUME NEW c \in Calls, Send(c) PROVE UnusedInv'
  BY <1>c, PortsAreNot, <1>11 DEF Send, Over, objects, locals, bounds, history
<1>12. ASSUME NEW b \in Backends, Close(b) PROVE UnusedInv'
  BY <1>c, PortsAreNot, <1>12 DEF Close, objects, locals, bounds, history
<1>13. ASSUME NEW b \in Backends, Closed(b) PROVE UnusedInv'
  BY <1>c, PortsAreNot, <1>13 DEF Closed, objects, locals, bounds, history
<1>14. ASSUME NEW b \in Backends, DropBackend(b) PROVE UnusedInv'
  BY <1>c, PortsAreNot, <1>14 DEF DropBackend, objects, locals, bounds, history
<1>15. CASE Removed
  BY <1>c, PortsAreNot, <1>15 DEF Removed, objects, locals, bounds, history
<1>16. CASE Dies
  BY <1>c, PortsAreNot, <1>16 DEF Dies, objects, locals, bounds, history
<1>17. CASE Crash
  BY <1>c, PortsAreNot, <1>17 DEF Crash, objects, locals, bounds, history
<1>18. CASE UNCHANGED vars
  BY <1>c, PortsAreNot, <1>18 DEF vars, objects, locals, bounds, history
<1>19. QED
  BY <1>1, <1>2, <1>3, <1>4, <1>5, <1>6, <1>7, <1>8, <1>9, <1>10, <1>11, <1>12, <1>13, <1>14, <1>15, <1>16, <1>17, <1>18 DEF Next

LEMMA CountersGrow ==
  ASSUME TypeOK, [Next]_vars
  PROVE  /\ faults' = faults \/ (faults' = faults + 1 /\ Fault)
         /\ deaths' = deaths \/ deaths' = deaths + 1
         /\ workload' = workload
BY DEF Next, CreateInTurn, UseInTurn, CreateInPanel, UseInPanel, Create, Call, Inspect, Sees,
   InspectAgain, FindPort, Run, RunPort, LearnAddress, Healthy, HealthTimesOut, Send, Close, Closed,
   DropBackend, Removed, Dies, Crash, Fault, vars, bounds

LEMMA NextCurrent ==
  TypeOK /\ Single /\ AddressInv /\ UnusedInv /\ CurrentInv /\ [Next]_vars => CurrentInv'
<1>1. SUFFICES ASSUME TypeOK, Single, AddressInv, UnusedInv, CurrentInv, [Next]_vars,
                      faults' = 0, deaths' <= 1, NEW a \in Backends, workload'.backends = {a}
               PROVE  Current(a)'
  BY DEF CurrentInv
<1>2. faults \in Nat /\ deaths \in Nat
  BY <1>1, BoundsAreNumbers DEF TypeOK
<1>3. faults = 0 /\ faults' # faults + 1 /\ deaths <= 1 /\ workload' = workload
  BY <1>1, <1>2, CountersGrow
<1>4. Current(a)
  BY <1>1, <1>3 DEF CurrentInv
<1>5. ~Fault
  BY <1>3 DEF Fault
<1>6. \A b \in Backends : life[b] # "new" => b = a
  BY <1>1, <1>3 DEF UnusedInv
<1>7. \A c \in Calls : stage[c] # "idle" => on[c] = a /\ life[a] # "new"
  BY <1>1, <1>6 DEF TypeOK, Single, Quiet
<1> HIDE DEF CurrentInv
<1> USE <1>1, <1>2, <1>3, <1>4, <1>5, <1>6, <1>7, PortsAreNot
        DEF TypeOK, Current, Creates, Serves, Restarts, AtDocker, Goto, Running, Ready
<1>11. ASSUME NEW b \in Backends, NEW c \in Calls, CreateInTurn(b, c) \/ CreateInPanel(b, c) PROVE Current(a)'
  <2>1. Create(b, c) /\ b \in workload.backends
    BY <1>11 DEF CreateInTurn, CreateInPanel
  <2>2. b = a /\ life'[a] = "creating" /\ stage'[c] = "inspect"
    BY <2>1 DEF Create, Call
  <2>3. \A d \in Calls : on'[d] = a => d = c
    BY <2>1, <2>2 DEF Create, Call, Quiet
  <2>4. QED
    BY <2>2, <2>3
<1>12. ASSUME NEW b \in Backends, NEW c \in Calls, UseInTurn(b, c) \/ UseInPanel(b, c) PROVE Current(a)'
  BY <1>12 DEF UseInTurn, UseInPanel, Call, objects, locals, bounds, history
<1>13. ASSUME NEW c \in Calls, Inspect(c) PROVE Current(a)'
  <2>1. CASE life[on[c]] = "creating" /\ ensured[on[c]] /\ Sees(TRUE) /\ Ensured(c)
    BY <1>13, <2>1 DEF Inspect, AddressInv
  <2>2. CASE life[on[c]] # "creating" /\ ensured[on[c]] /\ Sees(TRUE) /\ Ensured(c)
    BY <1>13, <2>2 DEF Inspect, Ensured, Sees, objects, locals, bounds, history
  <2>3. CASE (ensured[on[c]] => Sees(FALSE)) /\ Goto(c, "inspectAgain") /\ UNCHANGED <<life, on, port>>
    BY <1>13, <2>3 DEF Inspect, Sees, objects, locals, bounds, history
  <2>4. QED
    BY <1>13, <2>1, <2>2, <2>3 DEF Inspect
<1>14. ASSUME NEW c \in Calls, InspectAgain(c) PROVE Current(a)'
  <2>1. CASE Sees(TRUE) /\ ensured' = [ensured EXCEPT ![on[c]] = TRUE] /\ Goto(c, "port")
    <3>1. CASE life[on[c]] = "creating"
      BY <1>14, <2>1, <3>1 DEF InspectAgain, Sees, objects, locals, bounds, history
    <3>2. CASE life[on[c]] # "creating"
      BY <1>14, <2>1, <3>2 DEF InspectAgain, Sees, objects, locals, bounds, history
    <3>3. QED
      BY <3>1, <3>2
  <2>2. CASE Sees(FALSE) /\ Goto(c, "run") /\ UNCHANGED ensured
    BY <1>14, <2>2 DEF InspectAgain, Sees, objects, locals, bounds, history
  <2>3. QED
    BY <1>14, <2>1, <2>2 DEF InspectAgain
<1>15. ASSUME NEW c \in Calls, FindPort(c) PROVE Current(a)'
  BY <1>15 DEF FindPort, objects, locals, bounds, history
<1>16. ASSUME NEW c \in Calls, Run(c) PROVE Current(a)'
  <2>1. CASE container = None /\ container' \in Ports /\ Goto(c, "runPort") /\ UNCHANGED <<life, ensured, address, on, port>>
    <3>0. stage[c] = "run" /\ on[c] = a /\ stage'[c] = "runPort" /\ deaths' = deaths
      BY <1>16, <2>1 DEF Run
    <3>1. CASE life[a] = "creating"
      <4>1. \A d \in Calls : on[d] = a => d = c
        BY <3>0, <3>1 DEF Single
      <4>2. QED
        BY <2>1, <3>0, <3>1, <4>1
    <3>2. CASE Ready(a)
      <4>1. \A d \in Calls : on[d] = a => stage[d] \notin AtDocker
        BY <2>1, <3>2
      <4>2. \A d \in Calls \ {c} : stage'[d] = stage[d]
        BY <2>1
      <4>3. deaths # 0
        BY <3>0, <3>2
      <4>4. \A d \in Calls : on'[d] = a => Serves(d)'
        BY <2>1, <3>0, <4>1, <4>2, <4>3
      <4>5. on'[c] = a /\ Restarts(c)'
        BY <2>1, <3>0
      <4>6. QED
        BY <2>1, <3>0, <3>2, <4>3, <4>4, <4>5
    <3>3. CASE ~Ready(a) /\ life[a] # "creating"
      BY <2>1, <3>3
    <3>4. QED
      BY <3>1, <3>2, <3>3
  <2>2. CASE Fail(c) /\ life[on[c]] = "creating"
    BY <1>16, <2>2 DEF Run, Fail, Over, objects, locals, bounds, history
  <2>3. CASE Fail(c) /\ life[on[c]] # "creating"
    BY <1>16, <2>3 DEF Run, Fail, Over, objects, locals, bounds, history
  <2>4. QED
    BY <1>16, <2>1, <2>2, <2>3 DEF Run
<1>17. ASSUME NEW c \in Calls, RunPort(c) PROVE Current(a)'
  BY <1>17 DEF RunPort, Fail, Over, Leaves, objects, locals, bounds, history
<1>18. ASSUME NEW c \in Calls, LearnAddress(c) PROVE Current(a)'
  BY <1>18 DEF LearnAddress, objects, locals, bounds, history
<1>19. ASSUME NEW c \in Calls, Healthy(c) PROVE Current(a)'
  <2>1. CASE life[on[c]] = "creating"
    <3>0. on[c] = a /\ stage[c] \in {"wait", "waitRun"} /\ Creates(c)
      BY <1>19, <2>1 DEF Healthy
    <3>1. \A d \in Calls : on[d] = a => d = c
      BY <2>1, <3>0 DEF Single
    <3>2. /\ life'[a] = "ready" /\ on' = [on EXCEPT ![c] = None] /\ UNCHANGED <<container, address, deaths>>
          /\ ensured'[a] = (ensured[a] \/ stage[c] = "waitRun")
      BY <1>19, <2>1, <3>0 DEF Healthy, Ensured, Over
    <3>3. \A d \in Calls : on'[d] # a
      BY <3>1, <3>2
    <3>4. deaths = 0 => Running /\ ensured'[a]
      BY <3>0, <3>2
    <3>5. Running => address[a] = container
      BY <3>0
    <3>6. QED
      BY <3>2, <3>3, <3>4, <3>5
  <2>2. CASE life[on[c]] # "creating"
    BY <1>19, <2>2 DEF Healthy, Ensured, Over, objects, locals, bounds, history
  <2>3. QED
    BY <2>1, <2>2
<1>20. ASSUME NEW c \in Calls, HealthTimesOut(c) PROVE Current(a)'
  BY <1>20 DEF HealthTimesOut, Fail, Over, Leaves, objects, locals, bounds, history
<1>21. ASSUME NEW c \in Calls, Send(c) PROVE Current(a)'
  BY <1>21 DEF Send, Over, objects, locals, bounds, history
<1>22. ASSUME NEW b \in Backends, Close(b) PROVE Current(a)'
  BY <1>22 DEF Close, objects, locals, bounds, history
<1>23. ASSUME NEW b \in Backends, Closed(b) PROVE Current(a)'
  BY <1>23 DEF Closed, objects, locals, bounds, history
<1>24. ASSUME NEW b \in Backends, DropBackend(b) PROVE Current(a)'
  BY <1>24 DEF DropBackend, objects, locals, bounds, history
<1>25. CASE Removed
  BY <1>25 DEF Removed, objects, locals, bounds, history
<1>26. CASE Dies
  BY <1>26 DEF Dies, objects, locals, bounds, history
<1>27. CASE Crash
  BY <1>27 DEF Crash, objects, locals, bounds, history
<1>28. CASE UNCHANGED vars
  BY <1>28 DEF vars, objects, locals, bounds, history
<1>29. QED
  BY <1>11, <1>12, <1>13, <1>14, <1>15, <1>16, <1>17, <1>18, <1>19, <1>20, <1>21, <1>22, <1>23, <1>24, <1>25, <1>26, <1>27, <1>28 DEF Next

-----------------------------------------------------------------------------
(* The backends, their calls and the container always range over the values *)
(* that ensure() and docker produce.                                        *)
THEOREM TypeCorrect == Spec => []TypeOK
<1>1. Init => TypeOK
  BY InitType
<1>2. TypeOK /\ [Next]_vars => TypeOK'
  BY NextType
<1>3. QED
  BY <1>1, <1>2, PTL DEF Spec

LEMMA OneCreates == Spec => []Single
<1>1. Init => Single
  BY InitSingle
<1>2. TypeOK /\ Single /\ [Next]_vars => Single'
  BY NextSingle
<1>3. QED
  BY <1>1, <1>2, TypeCorrect, PTL DEF Spec

LEMMA CallsKnow == Spec => []AddressInv
<1>1. Init => AddressInv
  BY InitAddress
<1>2. TypeOK /\ Single /\ AddressInv /\ [Next]_vars => AddressInv'
  BY NextAddress
<1>3. QED
  BY <1>1, <1>2, TypeCorrect, OneCreates, PTL DEF Spec

(* A backend that create() returned knows an address, whatever docker, the  *)
(* container, other backends, parallel calls and the process do, also for   *)
(* calls that go on after it was closed.                                    *)
THEOREM AddressKnown == Spec => []ReadyHasAddress
<1>1. AddressInv => ReadyHasAddress
  BY DEF AddressInv, ReadyHasAddress
<1>2. QED
  BY <1>1, CallsKnow, PTL

(* The backend that started the running container is there to stop it, or   *)
(* has left it in one of the ways the property names, however many turns,   *)
(* panel requests and parallel calls share the container.                   *)
THEOREM ContainersAreInUse == Spec => []ContainersAreTemporary
<1>1. Init => KeeperInv
  BY InitKeeper
<1>2. TypeOK /\ Single /\ KeeperInv /\ [Next]_vars => KeeperInv'
  BY NextKeeper
<1>3. KeeperInv => ContainersAreTemporary
  BY DEF KeeperInv, ContainersAreTemporary
<1>4. QED
  BY <1>1, <1>2, <1>3, TypeCorrect, OneCreates, PTL DEF Spec

(* While a conversation has one backend and docker does what it is told, a  *)
(* death of the container under any number of parallel calls leaves a wrong *)
(* address only until the call that restarted the container stores the new. *)
THEOREM AddressStaysCurrent == Spec => []AddressIsCurrent
<1>1. Init => UnusedInv /\ CurrentInv
  BY InitCurrent
<1>2. TypeOK /\ Single /\ UnusedInv /\ [Next]_vars => UnusedInv'
  BY NextUnused
<1>3. TypeOK /\ Single /\ AddressInv /\ UnusedInv /\ CurrentInv /\ [Next]_vars => CurrentInv'
  BY NextCurrent
<1>4. TypeOK /\ UnusedInv /\ CurrentInv => AddressIsCurrent
  <2>1. SUFFICES ASSUME TypeOK, UnusedInv, CurrentInv, faults = 0, deaths <= 1,
                        Cardinality(workload.backends) = 1,
                        NEW b \in Backends, Ready(b), Running
                 PROVE  address[b] = container \/ \E c \in Calls : on[c] = b /\ Restarts(c)
    BY DEF AddressIsCurrent
  <2>2. workload.backends \subseteq Backends
    BY <2>1, BoundsAreNumbers DEF TypeOK
  <2>3. IsFiniteSet(workload.backends)
    BY <2>2, SandboxAssumption, FS_Subset
  <2>4. PICK a : workload.backends = {a}
    BY <2>1, <2>3, FS_Singleton
  <2>5. b = a
    BY <2>1, <2>4 DEF UnusedInv, Ready
  <2>6. QED
    BY <2>1, <2>4, <2>5 DEF CurrentInv, Current
<1>5. QED
  BY <1>1, <1>2, <1>3, <1>4, TypeCorrect, OneCreates, CallsKnow, PTL DEF Spec
=============================================================================
