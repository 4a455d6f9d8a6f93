--------------------------- MODULE SandboxContainer ---------------------------
(***************************************************************************)
(* The Docker container of one conversation and the DockerSandboxBackend   *)
(* objects that share it by name: one per turn, made by createAgent and    *)
(* closed when the turn ends, and those that ModelsWorkspaceService makes  *)
(* for the workspace panel.  Each object remembers whether it has seen the *)
(* container running and at which address its API answers.                 *)
(*                                                                         *)
(* The tool calls of a turn run in parallel on its backend and ensure()    *)
(* has no lock: calls interleave at every await, also with the close() of  *)
(* a turn that ended before its tools did.                                 *)
(*                                                                         *)
(* docker is external: `run --rm --name` fails while the name is taken, a  *)
(* stopped container keeps its name until it is removed, and every         *)
(* container gets a host port of docker's choice.                          *)
(***************************************************************************)
EXTENDS Naturals, FiniteSets

CONSTANTS
  Turns,        \* backends of turns; turns overlap if there are several
  Panel,        \* backends of the workspace panel
  Calls,        \* calls of ensure() that may be under way at once
  Ports,        \* host ports
  Workloads,    \* bounds of the instances, one of which a behaviour is in:
                \* its backends; turns, tool calls and panel requests; docker
                \* commands that fail; deaths of the container or the process;
                \* turns whose agent cannot be built
  None, Removing

Backends == Turns \cup Panel

ASSUME SandboxAssumption ==
  /\ Turns \cap Panel = {} /\ IsFiniteSet(Backends)
  /\ Workloads \subseteq [backends : SUBSET Backends, calls : Nat, faults : Nat,
                           deaths : Nat, drops : Nat]
  /\ None # Removing /\ {None, Removing} \cap Ports = {} /\ None \notin Backends

VARIABLES
  container, \* None, Removing, or the port of the running container
  life,      \* life[b]: how far the backend is
  loose,     \* turns that were closed while their tools went on
  ensured,   \* the backend's `ensured`
  address,   \* its `apiBaseUrl`
  on,        \* on[c]: the backend the call is on, or None
  stage,     \* stage[c]: where the call is
  port,      \* port[c]: what `docker port` answered it
  calls, faults, deaths, drops, workload,
  \* History, for the invariants:
  starter,   \* the backend that started the last container
  left       \* whether that backend has left it behind (see below)

objects == <<life, loose, ensured, address>>
locals == <<on, stage, port>>
bounds == <<drops, workload>>
history == <<starter, left>>
vars == <<container, objects, locals, calls, faults, deaths, bounds, history>>

\* new: not there.  creating: in DockerSandboxBackend.create.  ready: create()
\* returned it.  used: its agent was built.  closing: in close().
Lives == {"new", "creating", "ready", "used", "closing", "closed"}
Stages == {"idle", "inspect", "inspectAgain", "port", "gotPort", "run", "runPort",
           "gotRunPort", "wait", "waitRun", "send"}

Running == container \in Ports
Ready(b) == life[b] \in {"ready", "used"}
Holds(b) == Ready(b) \/ life[b] = "creating"
Quiet(b) == \A c \in Calls : on[c] # b

Init ==
  /\ container = None
  /\ life = [b \in Backends |-> "new"]
  /\ loose = {}
  /\ ensured = [b \in Backends |-> FALSE]
  /\ address = [b \in Backends |-> None]
  /\ on = [c \in Calls |-> None]
  /\ stage = [c \in Calls |-> "idle"]
  /\ port = [c \in Calls |-> None]
  /\ calls = 0 /\ faults = 0 /\ deaths = 0 /\ drops = 0
  /\ workload \in Workloads
  /\ starter = None /\ left = FALSE

-----------------------------------------------------------------------------
Goto(c, s) == stage' = [stage EXCEPT ![c] = s]

Fault == faults < workload.faults /\ faults' = faults + 1

\* The call is over, for the backend and for who made it.
Over(c) ==
  /\ on' = [on EXCEPT ![c] = None]
  /\ stage' = [stage EXCEPT ![c] = "idle"]
  /\ port' = [port EXCEPT ![c] = None]

\* Whatever a backend is asked to do begins with ensure().
Call(b, c) ==
  /\ on[c] = None
  /\ calls < workload.calls
  /\ calls' = calls + 1
  /\ on' = [on EXCEPT ![c] = b]
  /\ Goto(c, "inspect")
  /\ UNCHANGED <<container, port, faults, deaths, bounds, history>>

\* DockerSandboxBackend.create: a new object, whose only call this is.
Create(b, c) ==
  /\ life[b] \in {"new", "closed"} /\ Quiet(b)
  /\ life' = [life EXCEPT ![b] = "creating"]
  /\ loose' = loose \ {b}
  /\ ensured' = [ensured EXCEPT ![b] = FALSE]
  /\ address' = [address EXCEPT ![b] = None]
  /\ Call(b, c)

\* createRuntimeBackend at the start of a turn.
CreateInTurn(b, c) == b \in Turns \cap workload.backends /\ Create(b, c)

\* A tool call of the turn, next to others; also of tools that go on after the
\* handler left the stream at an interrupt and closed the agent.
UseInTurn(b, c) ==
  /\ b \in Turns
  /\ \/ Ready(b) /\ life' = [life EXCEPT ![b] = "used"]
     \/ b \in loose /\ UNCHANGED life
  /\ Call(b, c)
  /\ UNCHANGED <<loose, ensured, address>>

\* getSandbox: a request that finds no backend in the map creates one, and so
\* do others before the first is there; later ones use what the map holds.
CreateInPanel(b, c) ==
  /\ b \in Panel \cap workload.backends
  /\ \A p \in Panel : ~Ready(p)
  /\ Create(b, c)

UseInPanel(b, c) ==
  /\ b \in Panel /\ Ready(b)
  /\ Call(b, c)
  /\ UNCHANGED objects

\* ensure() is over: create() returns the backend, request() goes on to fetch.
Ensured(c) ==
  IF life[on[c]] = "creating"
    THEN life' = [life EXCEPT ![on[c]] = "ready"] /\ Over(c)
    ELSE Goto(c, "send") /\ UNCHANGED <<life, on, port>>

\* ensure() throws.  A backend that was still being created is dropped, and
\* with it the container it may have started.
Fail(c) ==
  /\ Over(c)
  /\ IF life[on[c]] = "creating"
       THEN /\ life' = [life EXCEPT ![on[c]] = "new"]
            /\ ensured' = [ensured EXCEPT ![on[c]] = FALSE]
            /\ address' = [address EXCEPT ![on[c]] = None]
       ELSE UNCHANGED <<life, ensured, address>>

\* The failure of a command leaves the container behind if it was started by
\* the backend and the backend is not there to stop it.
Leaves(b) == left' = (left \/ (starter = b /\ ~Ready(b)))

\* containerRunning answers false also when `docker inspect` fails.
Sees(running) ==
  \/ running = Running /\ UNCHANGED faults
  \/ running = FALSE /\ Running /\ Fault

\* this.ensured && (await containerRunning(...)): the address is taken as is.
Inspect(c) ==
  /\ stage[c] = "inspect"
  /\ \/ /\ ensured[on[c]] /\ Sees(TRUE)
        /\ Ensured(c)
     \/ /\ ensured[on[c]] => Sees(FALSE)
        /\ ~ensured[on[c]] => UNCHANGED faults
        /\ Goto(c, "inspectAgain") /\ UNCHANGED <<life, on, port>>
  /\ UNCHANGED <<container, loose, ensured, address, calls, deaths, bounds, history>>

\* The second containerRunning; the flag is set before the address is known.
InspectAgain(c) ==
  /\ stage[c] = "inspectAgain"
  /\ \/ /\ Sees(TRUE)
        /\ ensured' = [ensured EXCEPT ![on[c]] = TRUE]
        /\ Goto(c, "port")
     \/ /\ Sees(FALSE)
        /\ Goto(c, "run") /\ UNCHANGED ensured
  /\ UNCHANGED <<container, life, loose, address, on, port, calls, deaths, bounds, history>>

\* (Operators marked "Defect" are not the program: each is a plausible bug in
\* a definition that follows it, which the properties must detect.)

\* Defect: the port is not tested.
FindPortUnchecked(c) ==
  /\ stage[c] = "port"
  /\ port' = [port EXCEPT ![c] = container] /\ Goto(c, "gotPort")
  /\ UNCHANGED <<container, objects, on, calls, faults, deaths, bounds, history>>

\* Defect: without a port, ensure() returns.
FindPortOrGiveUp(c) ==
  /\ stage[c] = "port"
  /\ \/ /\ Running
        /\ port' = [port EXCEPT ![c] = container] /\ Goto(c, "gotPort")
        /\ UNCHANGED <<life, on>>
     \/ ~Running /\ Ensured(c)
  /\ UNCHANGED <<container, loose, ensured, address, calls, faults, deaths, bounds, history>>

\* containerPort of a container that was seen running; without a port the
\* container is started after all.
FindPort(c) ==
  /\ stage[c] = "port"
  /\ \/ /\ Running
        /\ port' = [port EXCEPT ![c] = container]
        /\ Goto(c, "gotPort") /\ UNCHANGED faults
     \/ ~Running /\ Goto(c, "run") /\ UNCHANGED <<port, faults>>
     \/ Running /\ Fault /\ Goto(c, "run") /\ UNCHANGED port
  /\ UNCHANGED <<container, objects, on, calls, deaths, bounds, history>>

\* docker run -d --rm --name.  It fails while the name is taken, for reasons
\* of its own, or by its time limit although the container comes up.
Run(c) ==
  /\ stage[c] = "run"
  /\ \/ /\ container = None
        /\ container' \in Ports
        /\ starter' = on[c] /\ left' = ~Holds(on[c])
        /\ Goto(c, "runPort")
        /\ UNCHANGED <<life, ensured, address, on, port, faults>>
     \/ /\ container # None
        /\ Fail(c)
        /\ UNCHANGED <<container, faults, history>>
     \/ /\ container = None /\ Fault
        /\ Fail(c)
        /\ UNCHANGED <<container, history>>
     \/ /\ container = None /\ Fault
        /\ container' \in Ports
        /\ starter' = on[c] /\ left' = ~Ready(on[c])
        /\ Fail(c)
  /\ UNCHANGED <<loose, calls, deaths, bounds>>

RunPort(c) ==
  /\ stage[c] = "runPort"
  /\ \/ /\ Running
        /\ port' = [port EXCEPT ![c] = container]
        /\ Goto(c, "gotRunPort")
        /\ UNCHANGED <<life, ensured, address, on, faults, left>>
     \/ ~Running /\ Fail(c) /\ UNCHANGED <<faults, left>>
     \/ Running /\ Fault /\ Fail(c) /\ Leaves(on[c])
  /\ UNCHANGED <<container, loose, calls, deaths, bounds, starter>>

\* Defect: an address that is known is not replaced.
LearnAddressOnce(c) ==
  /\ stage[c] \in {"gotPort", "gotRunPort"}
  /\ address' = [address EXCEPT ![on[c]] = IF @ = None THEN port[c] ELSE @]
  /\ Goto(c, IF stage[c] = "gotPort" THEN "wait" ELSE "waitRun")
  /\ UNCHANGED <<container, life, loose, ensured, on, port, calls, faults, deaths, bounds, history>>

\* The answer of `docker port` becomes the backend's address, whatever has
\* happened to the container or to the address since docker gave it.
LearnAddress(c) ==
  /\ stage[c] \in {"gotPort", "gotRunPort"}
  /\ address' = [address EXCEPT ![on[c]] = port[c]]
  /\ Goto(c, IF stage[c] = "gotPort" THEN "wait" ELSE "waitRun")
  /\ UNCHANGED <<container, life, loose, ensured, on, port, calls, faults, deaths, bounds, history>>

\* waitForApi: the address answers in one of thirty attempts, or it does not.
\* An address that is no longer the container's may belong to another one.
Healthy(c) ==
  /\ stage[c] \in {"wait", "waitRun"}
  /\ ensured' = [ensured EXCEPT ![on[c]] = @ \/ stage[c] = "waitRun"]
  /\ Ensured(c)
  /\ UNCHANGED <<container, loose, address, calls, faults, deaths, bounds, history>>

HealthTimesOut(c) ==
  /\ stage[c] \in {"wait", "waitRun"}
  /\ IF container = address[on[c]] THEN Fault /\ Leaves(on[c]) ELSE UNCHANGED <<faults, left>>
  /\ Fail(c)
  /\ UNCHANGED <<container, loose, calls, deaths, bounds, starter>>

\* fetch(`${this.apiBaseUrl}${route}`) to the address the backend has by now:
\* served, refused or answered by whoever listens there.
Send(c) ==
  /\ stage[c] = "send"
  /\ Over(c)
  /\ UNCHANGED <<container, objects, calls, faults, deaths, bounds, history>>

\* Defect: the backend is forgotten, its container is not stopped.
CloseKeepsContainer(b) ==
  /\ b \in Turns /\ Ready(b) /\ Quiet(b)
  /\ life' = [life EXCEPT ![b] = "closing"]
  /\ UNCHANGED <<container, loose, ensured, address, locals, calls, faults, deaths, bounds, history>>

\* The end of a turn: `docker stop`, whose failure is ignored.  The stream may
\* have been left at an interrupt while tools were at work, which then go on.
\* Nothing closes the panel's backends: closeWorkspace has no caller.
Close(b) ==
  /\ b \in Turns /\ Ready(b)
  /\ life' = [life EXCEPT ![b] = "closing"]
  /\ \/ Quiet(b) /\ UNCHANGED loose
     \/ life[b] = "used" /\ loose' = loose \cup {b}
  /\ \/ /\ container' = IF Running THEN Removing ELSE container
        /\ UNCHANGED <<faults, left>>
     \/ Fault /\ left' = (left \/ starter = b) /\ UNCHANGED container
  /\ UNCHANGED <<ensured, address, locals, calls, deaths, bounds, starter>>

\* The finally clause of close(); the address stays.
Closed(b) ==
  /\ life[b] = "closing"
  /\ life' = [life EXCEPT ![b] = "closed"]
  /\ ensured' = [ensured EXCEPT ![b] = FALSE]
  /\ UNCHANGED <<container, loose, address, locals, calls, faults, deaths, bounds, history>>

\* createAgent throws after its backend was created (memory directory, MCP
\* configuration, createDeepAgent): its close function is never returned, so
\* the backend is garbage and the container goes on.
DropBackend(b) ==
  /\ b \in Turns /\ life[b] = "ready"
  /\ drops < workload.drops
  /\ drops' = drops + 1
  /\ life' = [life EXCEPT ![b] = "closed"]
  /\ left' = (left \/ starter = b)
  /\ UNCHANGED <<container, loose, ensured, address, locals, calls, faults, deaths, workload, starter>>

-----------------------------------------------------------------------------
(* docker and the API process.                                              *)

Removed == /\ container = Removing
           /\ container' = None
           /\ UNCHANGED <<objects, locals, calls, faults, deaths, bounds, history>>

\* The container exits by itself (out of memory, docker restarted).
Dies == /\ Running
        /\ deaths < workload.deaths
        /\ deaths' = deaths + 1
        /\ container' = Removing
        /\ UNCHANGED <<objects, locals, calls, faults, bounds, history>>

\* The API process restarts: its backends are gone, the container is not.
Crash ==
  /\ deaths < workload.deaths
  /\ deaths' = deaths + 1
  /\ life' = [b \in Backends |-> "new"]
  /\ loose' = {}
  /\ ensured' = [b \in Backends |-> FALSE]
  /\ address' = [b \in Backends |-> None]
  /\ on' = [c \in Calls |-> None]
  /\ stage' = [c \in Calls |-> "idle"]
  /\ port' = [c \in Calls |-> None]
  /\ left' = TRUE
  /\ UNCHANGED <<container, calls, faults, bounds, starter>>

Next ==
  \/ \E c \in Calls :
       \/ \E b \in Backends : CreateInTurn(b, c) \/ UseInTurn(b, c)
                              \/ CreateInPanel(b, c) \/ UseInPanel(b, c)
       \/ Inspect(c) \/ InspectAgain(c) \/ FindPort(c) \/ Run(c) \/ RunPort(c)
       \/ LearnAddress(c) \/ Healthy(c) \/ HealthTimesOut(c) \/ Send(c)
  \/ \E b \in Backends : Close(b) \/ Closed(b) \/ DropBackend(b)
  \/ Removed \/ Dies \/ Crash

Spec == Init /\ [][Next]_vars

-----------------------------------------------------------------------------
(* The objects, their calls and the container range over the values that    *)
(* ensure() and docker produce.                                             *)
TypeOK ==
  /\ container \in Ports \cup {None, Removing}
  /\ life \in [Backends -> Lives] /\ loose \subseteq Turns
  /\ ensured \in [Backends -> BOOLEAN]
  /\ address \in [Backends -> Ports \cup {None}]
  /\ on \in [Calls -> Backends \cup {None}]
  /\ stage \in [Calls -> Stages]
  /\ \A c \in Calls : on[c] = None <=> stage[c] = "idle"
  /\ port \in [Calls -> Ports \cup {None}]
  /\ starter \in Backends \cup {None} /\ left \in BOOLEAN
  /\ workload \in Workloads /\ drops \in 0..workload.drops
  /\ calls \in 0..workload.calls /\ faults \in 0..workload.faults /\ deaths \in 0..workload.deaths

(* request() never meets the "address not initialised" error of sandbox.ts  *)
(* :401: a backend that create() returned knows an address, although the    *)
(* flag that makes ensure() return early is set before the address.  This   *)
(* includes calls that go on after the backend was closed.                  *)
ReadyHasAddress ==
  \A b \in Backends : life[b] \in {"ready", "used", "closing", "closed"} => address[b] \in Ports

\* The call has started the container and has yet to store its address.
Restarts(c) == stage[c] \in {"runPort", "gotRunPort"}

(* A backend that has the container to itself trusts its address as long as *)
(* a container of that name runs.  When docker does what it is told, the    *)
(* address is that of the running container, also after the container died  *)
(* under parallel tool calls: it is wrong only while the call that          *)
(* restarted the container has yet to store the new address.  (After a      *)
(* second death it may stay wrong: a call stores what docker said before.)  *)
AddressIsCurrent ==
  faults = 0 /\ deaths <= 1 /\ Cardinality(workload.backends) = 1 =>
    \A b \in Backends : Ready(b) /\ Running =>
      address[b] = container \/ \E c \in Calls : on[c] = b /\ Restarts(c)

(* README.md:41 calls the containers temporary.  The backend that started   *)
(* the running container is still there to stop it (the panel's until the   *)
(* process ends), or has left it: docker failed it while it was created or  *)
(* in its stop, its agent could not be built, the process restarted, or it  *)
(* was closed before the tool call that started the container.              *)
ContainersAreTemporary ==
  Running => left \/ Holds(starter)
=============================================================================
