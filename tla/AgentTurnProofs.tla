---------------------------- MODULE AgentTurnProofs ----------------------------
(***************************************************************************)
(* Proofs about AgentTurn for every set of turns, attachments, servers,    *)
(* facts and payloads, and for every bound on what happens.                *)
(*                                                                         *)
(* Both invariants follow a value through the awaits of a turn: the        *)
(* configuration from the handler to the agent, and a fact from the tool   *)
(* that stored it to the copies that are read later.                       *)
(***************************************************************************)
EXTENDS AgentTurn, TLAPS

(* What the invariants need of the types: the functions range over turns.   *)
Shape ==
  /\ stage \in [Turns -> Stages]
  /\ DOMAIN seen = Turns /\ DOMAIN conf = Turns
  /\ DOMAIN bound = Turns /\ DOMAIN agent = Turns /\ DOMAIN saved = Turns
  /\ DOMAIN ask = Turns /\ DOMAIN up = Turns /\ DOMAIN refs = Turns /\ DOMAIN urls = Turns
  /\ \A t \in Turns : stage[t] # "new" => ask[t] \in Asks

LEMMA InitShape == Init => Shape
BY DEF Init, Shape, Stages

(* The step of a turn moves that turn and no other.                         *)
Steps(t) ==
  \/ \E q \in Asks : ReceiveChat(t, q) \/ ReceiveResume(t, q)
  \/ \E i \in DOMAIN up[t] : Posted(t, i) \/ Polled(t, i) \/ FileFails(t, i)
  \/ FilesReady(t) \/ ModelReady(t) \/ BackendReady(t) \/ SetupFails(t) \/ McpLoaded(t)
  \/ \E a \in Images : ImagePut(t, a) \/ ImageFails(t, a)
  \/ MessagesFail(t) \/ MessagesReady(t)
  \/ \E k \in FactKeys, x \in Texts : RememberTool(t, k, x) \/ RememberToolFails(t, k, x)
  \/ Finish(t) \/ ToolsEnd(t)

LEMMA NextCases ==
  ASSUME [Next]_vars
  PROVE  \/ \E t \in Turns : Steps(t)
         \/ \E c : Saved(c)
         \/ \E new \in FirstFiles : UploadRequest(new)
         \/ Crash \/ UNCHANGED vars
BY DEF Next, Steps, SaveAgent, SaveServer

LEMMA NextShape == Shape /\ [Next]_vars => Shape'
<1> SUFFICES ASSUME Shape, [Next]_vars PROVE Shape'
  OBVIOUS
<1>1. ASSUME NEW t \in Turns, Steps(t) PROVE Shape'
  <2>1. ASSUME NEW q \in Asks, ReceiveChat(t, q) \/ ReceiveResume(t, q) PROVE Shape'
    BY <2>1 DEF ReceiveChat, ReceiveResume, Arrives, Goto, Shape, Stages
  <2>2. ASSUME NEW i \in DOMAIN up[t], Posted(t, i) \/ Polled(t, i) \/ FileFails(t, i) PROVE Shape'
    <3>1. /\ AwaitsFiles(t) /\ UNCHANGED <<ask, seen, conf, bound, refs, agent, urls, saved>>
          /\ DOMAIN up' = Turns /\ (UNCHANGED stage \/ Goto(t, "over"))
      BY <2>2 DEF Posted, Polled, FileFails, Upd, Shape, preparing
    <3>2. QED
      BY <3>1 DEF AwaitsFiles, Goto, Shape, Stages
  <2>3. CASE FilesReady(t) \/ ModelReady(t) \/ BackendReady(t) \/ SetupFails(t) \/ McpLoaded(t)
    BY <2>3 DEF FilesReady, ModelReady, BackendReady, SetupFails, McpLoaded, Over, Goto, Shape, Stages,
       preparing
  <2>4. ASSUME NEW a \in Images, ImagePut(t, a) \/ ImageFails(t, a) PROVE Shape'
    <3>1. /\ AwaitsImage(t, a) /\ UNCHANGED <<ask, seen, conf, bound, refs, agent, up, saved>>
          /\ DOMAIN urls' = Turns /\ (UNCHANGED stage \/ Goto(t, "over"))
      BY <2>4 DEF ImagePut, ImageFails, HasUrl, Over, Shape, preparing
    <3>2. QED
      BY <3>1 DEF AwaitsImage, Goto, Shape, Stages
  <2>5. CASE MessagesFail(t) \/ MessagesReady(t) \/ Finish(t) \/ ToolsEnd(t)
    BY <2>5 DEF MessagesFail, MessagesReady, Finish, ToolsEnd, Over, Goto, Shape, Stages, preparing
  <2>6. ASSUME NEW k \in FactKeys, NEW x \in Texts, RememberTool(t, k, x) \/ RememberToolFails(t, k, x)
        PROVE  Shape'
    BY <2>6 DEF RememberTool, RememberToolFails, Shape, preparing
  <2>7. QED
    BY <1>1, <2>1, <2>2, <2>3, <2>4, <2>5, <2>6 DEF Steps
<1>2. ASSUME NEW c, Saved(c) PROVE Shape'
  BY <1>2 DEF Saved, Shape, preparing
<1>3. ASSUME NEW new \in FirstFiles, UploadRequest(new) PROVE Shape'
  BY <1>3 DEF UploadRequest, Shape, preparing
<1>4. CASE Crash
  BY <1>4 DEF Crash, Shape, Stages, preparing
<1>5. CASE UNCHANGED vars
  BY <1>5 DEF vars, Shape, preparing
<1>6. QED
  BY <1>1, <1>2, <1>3, <1>4, <1>5, NextCases

LEMMA AlwaysShape == Spec => []Shape
BY InitShape, NextShape, PTL DEF Spec

-----------------------------------------------------------------------------
(* Until a save, what each stage has taken from the configuration is what   *)
(* the handler has seen.                                                    *)
Granted(t) ==
  /\ agent[t].tools \subseteq ToolsEnabled(seen[t].agent) \cup McpBindings(seen[t])
  /\ agent[t].asks = ResolveHumanInLoop(seen[t].agent)
PreparedInv ==
  \A t \in Turns : ~saved[t] =>
    /\ stage[t] \in {"files", "model", "backend"} => seen[t] = ReadConfig(config, ask[t].name)
    /\ stage[t] \in {"model", "backend", "mcp"} => conf[t] = seen[t]
    /\ stage[t] = "mcp" => bound[t] = McpBindings(seen[t])
    /\ stage[t] \in {"messages", "running"} => Granted(t)

LEMMA NextPrepared == Shape /\ PreparedInv /\ [Next]_vars => PreparedInv'
<1> SUFFICES ASSUME Shape, PreparedInv, [Next]_vars PROVE PreparedInv'
  OBVIOUS
<1>1. ASSUME NEW t \in Turns, Steps(t) PROVE PreparedInv'
  <2> DEFINE Others == /\ UNCHANGED <<config, saved>>
                       /\ \A u \in Turns \ {t} : /\ stage'[u] = stage[u] /\ seen'[u] = seen[u]
                                                 /\ conf'[u] = conf[u] /\ bound'[u] = bound[u]
                                                 /\ agent'[u] = agent[u] /\ ask'[u] = ask[u]
             Mine == ~saved[t] =>
                       /\ stage'[t] \in {"files", "model", "backend"} =>
                            seen'[t] = ReadConfig(config, ask'[t].name)
                       /\ stage'[t] \in {"model", "backend", "mcp"} => conf'[t] = seen'[t]
                       /\ stage'[t] = "mcp" => bound'[t] = McpBindings(seen'[t])
                       /\ stage'[t] \in {"messages", "running"} =>
                            /\ agent'[t].tools \subseteq
                                 ToolsEnabled(seen'[t].agent) \cup McpBindings(seen'[t])
                            /\ agent'[t].asks = ResolveHumanInLoop(seen'[t].agent)
  <2>0. Others /\ Mine => PreparedInv'
    BY DEF PreparedInv, Granted
  <2>1. ASSUME NEW q \in Asks, ReceiveChat(t, q) \/ ReceiveResume(t, q) PROVE Others /\ Mine
    BY <2>1 DEF ReceiveChat, ReceiveResume, Arrives, Goto, Shape
  <2>2. ASSUME UNCHANGED preparing, UNCHANGED <<config, saved>>,
               UNCHANGED stage \/ \E where \in {"over", "running"} :
                                    Goto(t, where) /\ (where = "running" => stage[t] = "messages")
        PROVE  Others /\ Mine
    BY <2>2 DEF Goto, Shape, PreparedInv, Granted, preparing
  <2>3. ASSUME NEW i \in DOMAIN up[t], Posted(t, i) \/ Polled(t, i) \/ FileFails(t, i)
        PROVE  Others /\ Mine
    BY <2>2, <2>3 DEF Posted, Polled, FileFails
  <2>4. ASSUME FilesReady(t) PROVE Others /\ Mine
    BY <2>4 DEF FilesReady, Goto, Shape, PreparedInv
  <2>5. ASSUME ModelReady(t) PROVE Others /\ Mine
    BY <2>5 DEF ModelReady, Goto, Shape, PreparedInv, preparing
  <2>6. ASSUME BackendReady(t) PROVE Others /\ Mine
    BY <2>6 DEF BackendReady, Goto, Shape, PreparedInv
  <2>7. ASSUME McpLoaded(t) PROVE Others /\ Mine
    BY <2>7 DEF McpLoaded, Goto, Shape, PreparedInv
  <2>8. ASSUME NEW a \in Images, ImagePut(t, a) \/ ImageFails(t, a) PROVE Others /\ Mine
    BY <2>2, <2>8 DEF ImagePut, ImageFails, Over
  <2>9. ASSUME SetupFails(t) \/ MessagesFail(t) \/ MessagesReady(t) \/ Finish(t) \/ ToolsEnd(t)
        PROVE  Others /\ Mine
    BY <2>2, <2>9 DEF SetupFails, MessagesFail, MessagesReady, Finish, ToolsEnd, Over
  <2>10. ASSUME NEW k \in FactKeys, NEW x \in Texts,
                RememberTool(t, k, x) \/ RememberToolFails(t, k, x)
         PROVE  Others /\ Mine
    BY <2>2, <2>10 DEF RememberTool, RememberToolFails
  <2> HIDE DEF Others, Mine
  <2>11. QED
    BY <1>1, <2>0, <2>1, <2>3, <2>4, <2>5, <2>6, <2>7, <2>8, <2>9, <2>10 DEF Steps
<1>2. ASSUME NEW c, Saved(c) PROVE PreparedInv'
  BY <1>2 DEF Saved, Shape, PreparedInv, Granted, preparing
<1>3. ASSUME NEW new \in FirstFiles, UploadRequest(new) PROVE PreparedInv'
  BY <1>3 DEF UploadRequest, PreparedInv, Granted, preparing
<1>4. CASE Crash
  <2>1. \A t \in Turns : stage'[t] \in {"new", "refused", "over", "lost"} /\ saved'[t] = saved[t]
    BY <1>4 DEF Crash, Shape
  <2>2. QED
    BY <2>1 DEF PreparedInv
<1>5. CASE UNCHANGED vars
  BY <1>5 DEF vars, PreparedInv, Granted, preparing
<1>6. QED
  BY <1>1, <1>2, <1>3, <1>4, <1>5, NextCases

(* The configuration is read three times and each reading is used for       *)
(* another part of the agent; unless it was saved in between, the parts fit *)
(* the request.                                                             *)
THEOREM AgentFitsRequest == Spec => []ApprovalsHold
<1>1. Init => PreparedInv
  BY DEF Init, PreparedInv
<1>2. Shape /\ PreparedInv /\ [Next]_vars => PreparedInv'
  BY NextPrepared
<1>3. PreparedInv => ApprovalsHold
  <2>1. \A c : McpBindings(c) \subseteq c.active
    BY DEF McpBindings
  <2>2. \A a : ToolsEnabled(a) \cap Servers = {}
    BY RulesAssumption DEF ToolsEnabled
  <2>3. QED
    BY <2>1, <2>2 DEF PreparedInv, Granted, ApprovalsHold, Running, ResolveHumanInLoop
<1>4. QED
  BY <1>1, <1>2, <1>3, AlwaysShape, PTL DEF Spec

-----------------------------------------------------------------------------
(* Files, copies and histories keep their types.                            *)
LEMMA LoadType == ASSUME MemoryTypeOK, NEW p \in Paths PROVE Load(p) \in Facts
BY DEF MemoryTypeOK, Load, NoFacts, Facts

LEMMA OpenType ==
  ASSUME MemoryTypeOK, NEW t \in Turns, NEW a \in Agents, NEW readable \in BOOLEAN,
         OpenMemory(t, a, readable)
  PROVE  /\ MemoryTypeOK'
         /\ copy'[t] = [path |-> FileOf[a], records |-> IF readable THEN Load(FileOf[a]) ELSE NoFacts]
         /\ \A u \in Turns \ {t} : copy'[u] = copy[u]
<1> DEFINE c == [path |-> FileOf[a], records |-> IF readable THEN Load(FileOf[a]) ELSE NoFacts]
<1>1. c \in Copies
  BY LoadType DEF Copies, Paths, NoFacts, Facts
<1>2. copy' = [copy EXCEPT ![t] = c] /\ UNCHANGED <<memory, told, tried>>
  BY DEF OpenMemory
<1>3. stale' \subseteq Turns
  BY DEF OpenMemory, MemoryTypeOK
<1> HIDE DEF c
<1>4. MemoryTypeOK' /\ copy'[t] = c /\ \A u \in Turns \ {t} : copy'[u] = copy[u]
  BY <1>1, <1>2, <1>3 DEF MemoryTypeOK
<1>5. QED
  BY <1>4 DEF c

LEMMA DropType ==
  ASSUME MemoryTypeOK, NEW t \in Turns, DropMemory(t)
  PROVE  /\ MemoryTypeOK' /\ copy'[t] = NoFact
         /\ \A u \in Turns \ {t} : copy'[u] = copy[u]
BY DEF DropMemory, MemoryTypeOK

(* The record is in the copy of the turn, whose file stays the same.        *)
Recorded(t, k, x) == copy' = [copy EXCEPT ![t].records[k] = x]

LEMMA RecordType ==
  ASSUME MemoryTypeOK, NEW t \in Turns, copy[t] # NoFact, NEW k \in FactKeys, NEW x \in Texts,
         Recorded(t, k, x)
  PROVE  /\ copy[t] \in Copies /\ copy[t].path \in Paths /\ copy[t].records \in Facts
         /\ copy' \in [Turns -> Copies \cup {NoFact}]
         /\ copy'[t] \in Copies /\ copy'[t] # NoFact
         /\ copy'[t].path = copy[t].path
         /\ copy'[t].records = [copy[t].records EXCEPT ![k] = x] /\ copy'[t].records \in Facts
         /\ \A u \in Turns \ {t} : copy'[u] = copy[u]
<1>1. copy[t] \in Copies /\ copy[t].path \in Paths /\ copy[t].records \in Facts
  BY DEF MemoryTypeOK, Copies
<1> DEFINE f == [copy[t].records EXCEPT ![k] = x]
           c == [copy[t] EXCEPT !.records = f]
<1>2. f \in Facts
  BY <1>1 DEF Facts
<1>3. copy' = [copy EXCEPT ![t] = c]
  BY DEF Recorded
<1> HIDE DEF f
<1>4. c \in Copies /\ c.path = copy[t].path /\ c.records = f
  BY <1>1, <1>2 DEF Copies
<1> HIDE DEF c
<1>5. c # NoFact
  BY <1>4, MemoryAssumption
<1>6. copy' \in [Turns -> Copies \cup {NoFact}] /\ copy'[t] = c /\ \A u \in Turns \ {t} : copy'[u] = copy[u]
  BY <1>3, <1>4 DEF MemoryTypeOK
<1>7. QED
  BY <1>1, <1>2, <1>4, <1>5, <1>6 DEF f

LEMMA RememberType ==
  ASSUME MemoryTypeOK, NEW t \in Turns, copy[t] # NoFact, NEW k \in FactKeys, NEW x \in Texts,
         Remember(t, k, x) \/ RememberFails(t, k, x)
  PROVE  MemoryTypeOK'
<1> DEFINE p == copy[t].path
<1>1. Recorded(t, k, x)
  BY DEF Remember, RememberFails, Recorded
<1>2. p \in Paths /\ copy' \in [Turns -> Copies \cup {NoFact}] /\ copy'[t].records \in Facts
  BY <1>1, RecordType
<1>3. memory' \in [Paths -> Facts \cup {Missing, Torn}]
  BY <1>2 DEF Remember, RememberFails, MemoryTypeOK
<1>4. told' \in [Paths -> Facts]
  <2>1. told[p] \in Facts /\ NoFacts \in Facts
    BY <1>2 DEF MemoryTypeOK, NoFacts, Facts
  <2>2. \A f \in Facts : [f EXCEPT ![k] = x] \in Facts
    BY DEF Facts
  <2>3. [(IF t \in stale THEN NoFacts ELSE told[p]) EXCEPT ![k] = x] \in Facts
    BY <2>1, <2>2
  <2>4. QED
    BY <1>2, <2>1, <2>3 DEF Remember, RememberFails, MemoryTypeOK
<1>5. tried' \in [Paths -> [FactKeys -> SUBSET Texts]]
  <2>1. \A e \in SUBSET Texts : [tried EXCEPT ![p][k] = e] \in [Paths -> [FactKeys -> SUBSET Texts]]
    BY <1>2 DEF MemoryTypeOK
  <2>2. tried[p][k] \cup {x} \in SUBSET Texts
    BY <1>2 DEF MemoryTypeOK
  <2>3. tried' = [tried EXCEPT ![p][k] = {}] \/ tried' = [tried EXCEPT ![p][k] = tried[p][k] \cup {x}]
    BY DEF Remember, RememberFails
  <2>4. PICK e \in SUBSET Texts : tried' = [tried EXCEPT ![p][k] = e]
    <3>1. {} \in SUBSET Texts
      OBVIOUS
    <3>2. QED
      BY <2>2, <2>3, <3>1
  <2>5. QED
    BY <2>1, <2>4
<1>6. stale' \subseteq Turns
  BY DEF Remember, RememberFails, Sharing, MemoryTypeOK
<1>7. QED
  BY <1>2, <1>3, <1>4, <1>5, <1>6 DEF MemoryTypeOK

LEMMA CrashType ==
  ASSUME MemoryTypeOK, NEW savers, MemoryCrash(savers), \A t \in savers : t \in Turns /\ copy[t] # NoFact
  PROVE  MemoryTypeOK'
<1>1. \A t \in savers : copy[t].path \in Paths
  BY DEF MemoryTypeOK, Copies
<1>2. NoFacts \in Facts
  BY DEF NoFacts, Facts
<1>3. memory' \in [Paths -> Facts \cup {Missing, Torn}] /\ told' \in [Paths -> Facts]
  BY <1>1, <1>2 DEF MemoryCrash, MemoryTypeOK
<1>4. QED
  BY <1>3 DEF MemoryCrash, MemoryTypeOK

(* A step as the memory files see it.                                       *)
LEMMA MemorySteps ==
  ASSUME Shape, [Next]_vars
  PROVE  \/ UNCHANGED memories
         \/ \E t \in Turns, a \in Agents, readable \in BOOLEAN : OpenMemory(t, a, readable)
         \/ \E t \in Turns : DropMemory(t)
         \/ \E t \in Turns, k \in FactKeys, x \in Texts :
              copy[t] # NoFact /\ (Remember(t, k, x) \/ RememberFails(t, k, x))
         \/ \E savers : MemoryCrash(savers) /\ \A t \in savers : t \in Turns /\ copy[t] # NoFact
<1>1. ASSUME NEW t \in Turns, Steps(t)
      PROVE  \/ UNCHANGED memories
             \/ \E a \in Agents, readable \in BOOLEAN : OpenMemory(t, a, readable)
             \/ DropMemory(t)
             \/ \E k \in FactKeys, x \in Texts :
                  copy[t] # NoFact /\ (Remember(t, k, x) \/ RememberFails(t, k, x))
  <2>1. ASSUME McpLoaded(t)
        PROVE  \E a \in Agents, readable \in BOOLEAN : OpenMemory(t, a, readable)
    <3>1. ask[t].name \in Agents
      BY <2>1, TurnAssumption DEF McpLoaded, Shape, Ask
    <3>2. QED
      BY <2>1, <3>1 DEF McpLoaded
  <2>2. QED
    BY <1>1, <2>1 DEF Steps, ReceiveChat, ReceiveResume, Posted, Polled, FileFails, FilesReady,
       ModelReady, BackendReady, SetupFails, ImagePut, ImageFails, MessagesFail, MessagesReady,
       RememberTool, RememberToolFails, HasTools, Finish, ToolsEnd, Over
<1>2. Crash => \E savers : MemoryCrash(savers) /\ \A t \in savers : t \in Turns /\ copy[t] # NoFact
  BY DEF Crash, HasTools
<1>3. QED
  BY <1>1, <1>2, NextCases DEF Saved, UploadRequest, vars

LEMMA NextMemoryType == Shape /\ MemoryTypeOK /\ [Next]_vars => MemoryTypeOK'
<1> SUFFICES ASSUME Shape, MemoryTypeOK, [Next]_vars PROVE MemoryTypeOK'
  OBVIOUS
<1>1. CASE UNCHANGED memories
  BY <1>1 DEF memories, MemoryTypeOK
<1>2. QED
  BY <1>1, MemorySteps, OpenType, DropType, RememberType, CrashType

-----------------------------------------------------------------------------
(* What is owed is in the file and in every copy that is not older.         *)
Keeps(p, facts) ==
  \A k \in FactKeys : told[p][k] # NoFact => facts[k] \in {told[p][k]} \cup tried[p][k]
ToldInv ==
  /\ \A p \in Paths : Keeps(p, Load(p))
  /\ \A t \in Turns \ stale : copy[t] # NoFact => Keeps(copy[t].path, copy[t].records)

LEMMA RememberTold ==
  ASSUME MemoryTypeOK, ToldInv, NEW t \in Turns, copy[t] # NoFact, NEW k \in FactKeys, NEW x \in Texts,
         Remember(t, k, x)
  PROVE  ToldInv'
<1>0. Recorded(t, k, x)
  BY DEF Remember, Recorded
<1> PICK p, f : p = copy[t].path /\ f = [copy[t].records EXCEPT ![k] = x]
  OBVIOUS
<1>1. /\ p \in Paths /\ copy[t].records \in Facts /\ f \in Facts
      /\ copy'[t].path = p /\ copy'[t].records = f
      /\ \A u \in Turns \ {t} : copy'[u] = copy[u]
  <2>1. /\ copy[t].path \in Paths /\ copy[t].records \in Facts
        /\ copy'[t].path = copy[t].path
        /\ copy'[t].records = [copy[t].records EXCEPT ![k] = x] /\ copy'[t].records \in Facts
        /\ \A u \in Turns \ {t} : copy'[u] = copy[u]
    BY <1>0, RecordType
  <2>2. QED
    BY <2>1
<1>2. /\ memory' = [memory EXCEPT ![p] = f] /\ stale' = (stale \cup Sharing(t)) \ {t}
      /\ told' = [told EXCEPT ![p] = [(IF t \in stale THEN NoFacts ELSE told[p]) EXCEPT ![k] = x]]
      /\ tried' = [tried EXCEPT ![p][k] = {}]
  BY <1>1 DEF Remember
<1>3. told[p] \in Facts /\ NoFacts \in Facts
  BY <1>1 DEF MemoryTypeOK, NoFacts, Facts
<1>4. told'[p][k] = x /\ f[k] = x
  BY <1>1, <1>2, <1>3 DEF MemoryTypeOK, Facts
<1>5. \A j \in FactKeys \ {k} :
        /\ f[j] = copy[t].records[j] /\ tried'[p][j] = tried[p][j]
        /\ told'[p][j] = IF t \in stale THEN NoFact ELSE told[p][j]
  BY <1>1, <1>2, <1>3 DEF MemoryTypeOK, Facts, NoFacts
<1>6. t \notin stale => Keeps(p, copy[t].records)
  BY DEF ToldInv
<1>7. Keeps(p, f)'
  BY <1>4, <1>5, <1>6 DEF Keeps
<1>8. Load(p)' = f
  BY <1>1, <1>2, MemoryAssumption DEF Load, MemoryTypeOK
<1>9. \A q \in Paths \ {p} : told'[q] = told[q] /\ tried'[q] = tried[q] /\ Load(q)' = Load(q)
  BY <1>2 DEF Load, MemoryTypeOK
<1>10. ASSUME NEW q \in Paths \ {p}, NEW g, Keeps(q, g) PROVE Keeps(q, g)'
  BY <1>9, <1>10 DEF Keeps
<1>11. \A q \in Paths : Keeps(q, Load(q))'
  <2>1. \A q \in Paths \ {p} : Keeps(q, Load(q))'
    BY <1>9 DEF ToldInv, Keeps
  <2>2. QED
    BY <1>7, <1>8, <2>1 DEF Keeps
<1>12. ASSUME NEW u \in Turns \ stale', copy'[u] # NoFact
       PROVE  Keeps(copy[u].path, copy[u].records)'
  <2>1. CASE u = t
    BY <1>1, <1>7, <2>1 DEF Keeps
  <2>2. CASE u # t
    <3>1. copy'[u] = copy[u] /\ u \notin stale /\ copy[u].path # p
      BY <1>1, <1>2, <1>12, <2>2 DEF Sharing
    <3>2. copy[u].path \in Paths
      BY <1>12, <3>1 DEF MemoryTypeOK, Copies
    <3>3. Keeps(copy[u].path, copy[u].records)
      BY <1>12, <3>1 DEF ToldInv
    <3>4. QED
      BY <1>9, <3>1, <3>2, <3>3 DEF Keeps
  <2>3. QED
    BY <2>1, <2>2
<1>13. QED
  BY <1>11, <1>12 DEF ToldInv

LEMMA FailTold ==
  ASSUME MemoryTypeOK, ToldInv, NEW t \in Turns, copy[t] # NoFact, NEW k \in FactKeys, NEW x \in Texts,
         RememberFails(t, k, x)
  PROVE  ToldInv'
<1>0. Recorded(t, k, x)
  BY DEF RememberFails, Recorded
<1> PICK p, f : p = copy[t].path /\ f = [copy[t].records EXCEPT ![k] = x]
  OBVIOUS
<1>1. /\ p \in Paths /\ copy[t].records \in Facts /\ f \in Facts
      /\ copy'[t].path = p /\ copy'[t].records = f
      /\ \A u \in Turns \ {t} : copy'[u] = copy[u]
  <2>1. /\ copy[t].path \in Paths /\ copy[t].records \in Facts
        /\ copy'[t].path = copy[t].path
        /\ copy'[t].records = [copy[t].records EXCEPT ![k] = x] /\ copy'[t].records \in Facts
        /\ \A u \in Turns \ {t} : copy'[u] = copy[u]
    BY <1>0, RecordType
  <2>2. QED
    BY <2>1
<1>2. /\ tried' = [tried EXCEPT ![p][k] = @ \cup {x}] /\ stale' = stale
      /\ \/ UNCHANGED <<memory, told>>
         \/ memory' = [memory EXCEPT ![p] = Torn] /\ told' = [told EXCEPT ![p] = NoFacts]
  BY DEF RememberFails
<1>3. /\ x \in tried'[p][k] /\ \A q \in Paths, j \in FactKeys : tried[q][j] \subseteq tried'[q][j]
      /\ \A q \in Paths, j \in FactKeys : told'[q][j] # NoFact => told'[q][j] = told[q][j]
  <2>1. x \in tried'[p][k]
    BY <1>1, <1>2 DEF MemoryTypeOK
  <2>2. \A j \in FactKeys : tried[p][j] \subseteq tried'[p][j]
    BY <1>1, <1>2 DEF MemoryTypeOK
  <2>3. \A q \in Paths \ {p} : tried'[q] = tried[q]
    BY <1>2 DEF MemoryTypeOK
  <2>4. told' = told \/ \A j \in FactKeys : told'[p][j] = NoFact
    BY <1>1, <1>2 DEF MemoryTypeOK, NoFacts
  <2>5. \A q \in Paths \ {p} : told'[q] = told[q]
    BY <1>2 DEF MemoryTypeOK
  <2>6. QED
    BY <2>1, <2>2, <2>3, <2>4, <2>5
<1>4. ASSUME NEW q \in Paths, NEW g, Keeps(q, g) PROVE Keeps(q, g)'
  BY <1>3, <1>4 DEF Keeps
<1>5. \A q \in Paths : Keeps(q, Load(q))'
  <2>1. CASE UNCHANGED <<memory, told>>
    BY <1>3, <2>1 DEF ToldInv, Keeps, Load
  <2>2. CASE memory' = [memory EXCEPT ![p] = Torn] /\ told' = [told EXCEPT ![p] = NoFacts]
    <3>1. \A j \in FactKeys : told'[p][j] = NoFact
      BY <1>1, <2>2 DEF MemoryTypeOK, NoFacts
    <3>2. \A q \in Paths \ {p} : memory'[q] = memory[q]
      BY <2>2 DEF MemoryTypeOK
    <3>3. QED
      BY <1>3, <3>1, <3>2 DEF ToldInv, Keeps, Load
  <2>3. QED
    BY <1>2, <2>1, <2>2
<1>6. t \notin stale => Keeps(p, f)'
  <2>1. \A j \in FactKeys \ {k} : f[j] = copy[t].records[j]
    BY <1>1 DEF Facts
  <2>2. f[k] = x
    BY <1>1 DEF Facts
  <2>3. t \notin stale => Keeps(p, copy[t].records)
    BY DEF ToldInv
  <2>4. QED
    BY <1>1, <1>3, <2>1, <2>2, <2>3 DEF Keeps
<1>7. \A u \in Turns \ (stale \cup {t}) :
        copy'[u] # NoFact => Keeps(copy[u].path, copy[u].records)'
  <2> SUFFICES ASSUME NEW u \in Turns \ (stale \cup {t}), copy'[u] # NoFact
               PROVE  Keeps(copy[u].path, copy[u].records)'
    OBVIOUS
  <2>1. copy'[u] = copy[u] /\ copy[u].path \in Paths
    BY <1>1 DEF MemoryTypeOK, Copies
  <2>2. Keeps(copy[u].path, copy[u].records)
    BY <2>1 DEF ToldInv
  <2> PICK q, g : q = copy[u].path /\ g = copy[u].records
    OBVIOUS
  <2>3. Keeps(q, g)'
    BY <1>4, <2>1, <2>2
  <2>4. QED
    BY <2>1, <2>3 DEF Keeps
<1>8. t \notin stale => Keeps(copy[t].path, copy[t].records)'
  BY <1>1, <1>6 DEF Keeps
<1>9. QED
  BY <1>2, <1>5, <1>7, <1>8 DEF ToldInv

LEMMA NextTold == Shape /\ MemoryTypeOK /\ ToldInv /\ [Next]_vars => ToldInv'
<1> SUFFICES ASSUME Shape, MemoryTypeOK, ToldInv, [Next]_vars PROVE ToldInv'
  OBVIOUS
<1>1. CASE UNCHANGED memories
  BY <1>1 DEF memories, ToldInv, Keeps, Load
<1>2. ASSUME NEW t \in Turns, NEW a \in Agents, NEW readable \in BOOLEAN, OpenMemory(t, a, readable)
      PROVE  ToldInv'
  <2>1. /\ UNCHANGED <<memory, told, tried>> /\ stale \subseteq stale'
        /\ t \notin stale' => copy'[t].records = Load(FileOf[a])
    BY <1>2 DEF OpenMemory
  <2>2. FileOf[a] \in Paths
    BY DEF Paths
  <2>3. copy'[t].path = FileOf[a] /\ \A u \in Turns \ {t} : copy'[u] = copy[u]
    <3>1. copy'[t] = [path |-> FileOf[a], records |-> IF readable THEN Load(FileOf[a]) ELSE NoFacts]
      BY <1>2 DEF OpenMemory, MemoryTypeOK
    <3>2. \A u \in Turns \ {t} : copy'[u] = copy[u]
      BY <1>2 DEF OpenMemory, MemoryTypeOK
    <3>3. QED
      BY <3>1, <3>2
  <2>4. t \notin stale' => Keeps(copy'[t].path, copy'[t].records)
    BY <2>1, <2>2, <2>3 DEF ToldInv
  <2>5. QED
    BY <2>1, <2>3, <2>4 DEF ToldInv, Keeps, Load
<1>3. ASSUME NEW t \in Turns, DropMemory(t) PROVE ToldInv'
  <2>1. UNCHANGED <<memory, told, tried>> /\ \A u \in Turns \ {t} : u \in stale' <=> u \in stale
    BY <1>3 DEF DropMemory
  <2>2. copy'[t] = NoFact /\ \A u \in Turns \ {t} : copy'[u] = copy[u]
    BY <1>3, DropType
  <2>3. QED
    BY <2>1, <2>2 DEF ToldInv, Keeps, Load
<1>4. ASSUME NEW savers, MemoryCrash(savers), \A t \in savers : t \in Turns /\ copy[t] # NoFact
      PROVE  ToldInv'
  <2>1. (\A t \in Turns : copy'[t] = NoFact) /\ tried' = tried
    BY <1>4 DEF MemoryCrash
  <2>2. CASE UNCHANGED <<memory, told>>
    BY <2>1, <2>2 DEF ToldInv, Keeps, Load
  <2>3. ASSUME NEW t \in savers, memory' = [memory EXCEPT ![copy[t].path] = Torn],
               told' = [told EXCEPT ![copy[t].path] = NoFacts]
        PROVE  ToldInv'
    <3>1. \A j \in FactKeys : copy[t].path \in Paths => told'[copy[t].path][j] = NoFact
      BY <2>3 DEF MemoryTypeOK, NoFacts
    <3>2. \A q \in Paths \ {copy[t].path} : memory'[q] = memory[q] /\ told'[q] = told[q]
      BY <2>3 DEF MemoryTypeOK
    <3>3. QED
      BY <2>1, <3>1, <3>2 DEF ToldInv, Keeps, Load
  <2>4. QED
    BY <1>4, <2>2, <2>3 DEF MemoryCrash
<1>5. QED
  BY <1>1, <1>2, <1>3, <1>4, MemorySteps, RememberTold, FailTold

LEMMA InitMemory == Init => MemoryTypeOK /\ ToldInv
BY DEF Init, MemoryInit, MemoryTypeOK, ToldInv, Keeps, NoFacts, Facts

LEMMA AlwaysMemory == Spec => [](MemoryTypeOK /\ ToldInv)
BY InitMemory, NextMemoryType, NextTold, AlwaysShape, PTL DEF Spec

(* A fact that was told is in the file, although each remember rewrites all *)
(* of it from the copy of its turn, and turns of several agents may have    *)
(* copies of one file: what is lost is lost to a copy older than the fact,  *)
(* or to a write that was cut short.                                        *)
THEOREM FactsStay == Spec => []RememberedFactsStay
<1>1. ToldInv => RememberedFactsStay
  BY DEF ToldInv, Keeps, RememberedFactsStay, Recall
<1>2. QED
  BY <1>1, AlwaysMemory, PTL

-----------------------------------------------------------------------------
(* Each payload makes a configuration of the right shape, and an agent is   *)
(* created from a configuration that has it.                                *)
Making == {"model", "backend", "mcp"}
AgentTools == [tools : SUBSET Tools, asks : SUBSET Tools]
ConfigShape ==
  /\ config \in File /\ budget \in Budget
  /\ saved \in [Turns -> BOOLEAN] /\ agent \in [Turns -> AgentTools]
  /\ \A t \in Turns :
       /\ seen[t] \in {Nil} \cup Config /\ conf[t] \in {Nil} \cup Config
       /\ bound[t] \subseteq Servers
       /\ stage[t] \in Making => conf[t] \in Config /\ conf[t].agent \in Agent

LEMMA ReadType ==
  ASSUME config \in File, NEW a \in Agents
  PROVE  ReadConfig(config, a) \in Config
BY DEF ReadConfig, File, Config

LEMMA PayType ==
  ASSUME budget \in Budget, NEW what \in {"turns", "uploads", "saves", "facts", "faults"}, Pay(what)
  PROVE  budget' \in Budget
BY DEF Pay, Budget

LEMMA EntryType ==
  ASSUME NEW p \in Saves, NEW previous \in {Nil} \cup Agent
  PROVE  Entry(p, previous) \in {Nil} \cup Agent
<1> DEFINE stored == StoredApprovals(p.hitl, IF previous = Nil THEN [hitl |-> Nil] ELSE previous)
<1>1. ASSUME p # Nil PROVE [files |-> p.files, tools |-> p.tools, hitl |-> stored] \in Agent
  <2>1. /\ p.files \in BOOLEAN /\ p.tools \in SUBSET ({Optional} \cup Servers)
        /\ p.hitl \in {Nil} \cup [enabled : BOOLEAN, tools : SUBSET Tools]
    BY <1>1, TurnAssumption
  <2>2. stored \in {Nil} \cup Approvals
    <3>1. CASE p.hitl = Nil
      BY <3>1 DEF StoredApprovals, Agent
    <3>2. CASE p.hitl # Nil
      BY <2>1, <3>2 DEF StoredApprovals, Approvals
    <3>3. QED
      BY <3>1, <3>2
  <2> HIDE DEF stored
  <2>3. QED
    BY <2>1, <2>2 DEF Agent
<1>2. QED
  BY <1>1 DEF Entry

LEMMA SavedAgentType ==
  ASSUME config \in File, NEW a \in Agents, NEW b \in Agents, NEW p \in Saves
  PROVE  [config EXCEPT !.agents = [@ EXCEPT ![a] = Nil, ![b] = Entry(p, config.agents[a])]] \in File
<1>1. config.agents \in [Agents -> {Nil} \cup Agent]
  BY DEF File
<1>2. Entry(p, config.agents[a]) \in {Nil} \cup Agent
  BY <1>1, EntryType
<1>3. \A e \in {Nil} \cup Agent :
        [config.agents EXCEPT ![a] = Nil, ![b] = e] \in [Agents -> {Nil} \cup Agent]
  BY <1>1
<1>4. \A f \in [Agents -> {Nil} \cup Agent] : [config EXCEPT !.agents = f] \in File
  BY DEF File
<1>5. QED
  BY <1>2, <1>3, <1>4

LEMMA SavedServerType ==
  ASSUME config \in File, NEW s \in Servers
  PROVE  [config EXCEPT !.active = IF s \in @ THEN @ \ {s} ELSE @ \cup {s}] \in File
BY DEF File

LEMMA SavedType == Shape /\ ConfigShape /\ (\E c \in File : Saved(c)) => ConfigShape'
<1> SUFFICES ASSUME Shape, ConfigShape, NEW c \in File, Saved(c) PROVE ConfigShape'
  OBVIOUS
<1>1. budget' \in Budget
  BY PayType DEF ConfigShape, Saved
<1>2. UNCHANGED <<preparing, stage>> /\ config' = c
  BY DEF Saved
<1>3. saved' \in [Turns -> BOOLEAN]
  BY DEF Saved, ConfigShape
<1>4. QED
  BY <1>1, <1>2, <1>3 DEF ConfigShape, preparing

LEMMA GrantedType ==
  ASSUME NEW c \in Config, c.agent \in Agent
  PROVE  ToolsEnabled(c.agent) \subseteq Tools /\ ResolveHumanInLoop(c.agent) \subseteq Tools
<1>1. ToolsEnabled(c.agent) \subseteq Tools
  BY DEF ToolsEnabled, Tools
<1>2. c.agent.hitl \in {Nil} \cup Approvals
  BY DEF Agent
<1>3. \A h \in Approvals : h.interruptOn \in {Nil} \cup SUBSET Tools /\ h.tools \in {Nil} \cup SUBSET Tools
  BY DEF Approvals
<1>4. ResolveHumanInLoop(c.agent) \subseteq Tools
  BY <1>2, <1>3 DEF ResolveHumanInLoop, DefaultInterruptOn, Tools, AlwaysLoaded
<1>5. QED
  BY <1>1, <1>4

LEMMA NextConfigShape == Shape /\ ConfigShape /\ [Next]_vars => ConfigShape'
<1> SUFFICES ASSUME Shape, ConfigShape, [Next]_vars PROVE ConfigShape'
  OBVIOUS
<1>1. ASSUME NEW t \in Turns, Steps(t) PROVE ConfigShape'
  <2>0. ASSUME UNCHANGED <<config, saved, seen, conf, bound, agent>>,
               \/ UNCHANGED budget
               \/ \E what \in {"turns", "uploads", "saves", "facts", "faults"} : Pay(what),
               \A u \in Turns : stage'[u] \in Making => stage[u] \in Making
        PROVE  ConfigShape'
    <3>1. budget' \in Budget
      BY <2>0, PayType DEF ConfigShape
    <3>2. QED
      BY <2>0, <3>1 DEF ConfigShape
  <2>1. ASSUME NEW q \in Asks, ReceiveChat(t, q) \/ ReceiveResume(t, q) PROVE ConfigShape'
    <3>1. /\ budget' \in Budget /\ UNCHANGED <<config, saved, bound, agent>>
          /\ seen' = [seen EXCEPT ![t] = ReadConfig(config, q.name)]
          /\ \A u \in Turns \ {t} : stage'[u] = stage[u]
      BY <2>1, PayType DEF ReceiveChat, ReceiveResume, Arrives, Goto, ConfigShape, Shape
    <3> DEFINE c == ReadConfig(config, q.name)
    <3>2. UNCHANGED conf \/ conf' = [conf EXCEPT ![t] = c]
      BY <2>1, <3>1 DEF ReceiveChat, ReceiveResume, Shape
    <3>3. stage'[t] \in Making => conf'[t] = c /\ c.agent # Nil
      BY <2>1, <3>1 DEF ReceiveChat, ReceiveResume, Goto, Making, Shape
    <3>4. c \in Config /\ (c.agent # Nil => c.agent \in Agent)
      BY ReadType, TurnAssumption DEF ConfigShape, Config, Ask
    <3> HIDE DEF c
    <3>5. seen' = [seen EXCEPT ![t] = c]
      BY <3>1 DEF c
    <3>6. QED
      BY <3>1, <3>2, <3>3, <3>4, <3>5 DEF ConfigShape, Shape
  <2>2. ASSUME NEW i \in DOMAIN up[t], Posted(t, i) \/ Polled(t, i) \/ FileFails(t, i)
        PROVE  ConfigShape'
    BY <2>0, <2>2 DEF Posted, Polled, FileFails, Goto, preparing, Making, Shape
  <2>3. ASSUME FilesReady(t) PROVE ConfigShape'
    <3> DEFINE c == ReadConfig(config, ask[t].name)
    <3>1. c \in Config /\ (c.agent # Nil => c.agent \in Agent)
      BY <2>3, ReadType, TurnAssumption DEF FilesReady, ConfigShape, Shape, Config, Ask
    <3>2. conf' = [conf EXCEPT ![t] = c]
      BY <2>3 DEF FilesReady
    <3> HIDE DEF c
    <3>3. QED
      BY <2>3, <3>1, <3>2 DEF FilesReady, Goto, ConfigShape, Shape, Making
  <2>4. ASSUME ModelReady(t) PROVE ConfigShape'
    BY <2>0, <2>4 DEF ModelReady, Goto, preparing, Making, Shape
  <2>5. ASSUME BackendReady(t) PROVE ConfigShape'
    <3>1. McpBindings(ReadConfig(config, ask[t].name)) \subseteq Servers
      BY DEF McpBindings
    <3>2. QED
      BY <2>5, <3>1 DEF BackendReady, Goto, ConfigShape, Shape, Making
  <2>6. ASSUME McpLoaded(t) PROVE ConfigShape'
    <3>1. PICK answering \in SUBSET bound[t] : agent' = [agent EXCEPT ![t] =
            [tools |-> ToolsEnabled(conf[t].agent) \cup answering,
             asks |-> ResolveHumanInLoop(conf[t].agent)]]
      BY <2>6 DEF McpLoaded
    <3>2. conf[t] \in Config /\ conf[t].agent \in Agent /\ bound[t] \subseteq Servers
      BY <2>6 DEF McpLoaded, ConfigShape, Making
    <3>3. agent'[t] \in AgentTools
      BY <3>1, <3>2, GrantedType DEF AgentTools, Tools, ConfigShape
    <3>4. agent' \in [Turns -> AgentTools]
      BY <3>1, <3>3 DEF ConfigShape
    <3>5. QED
      BY <2>6, <3>4 DEF McpLoaded, Goto, ConfigShape, Shape, Making
  <2>7. ASSUME NEW a \in Images, ImagePut(t, a) \/ ImageFails(t, a) PROVE ConfigShape'
    BY <2>0, <2>7 DEF ImagePut, ImageFails, Over, Goto, preparing, Making, Shape
  <2>8. ASSUME SetupFails(t) \/ MessagesFail(t) \/ MessagesReady(t) \/ Finish(t) \/ ToolsEnd(t)
        PROVE  ConfigShape'
    BY <2>0, <2>8 DEF SetupFails, MessagesFail, MessagesReady, Finish, ToolsEnd, Over, Goto, preparing, Making,
       Shape
  <2>9. ASSUME NEW k \in FactKeys, NEW x \in Texts, RememberTool(t, k, x) \/ RememberToolFails(t, k, x)
        PROVE  ConfigShape'
    BY <2>0, <2>9 DEF RememberTool, RememberToolFails, preparing
  <2>10. QED
    BY <1>1, <2>1, <2>2, <2>3, <2>4, <2>5, <2>6, <2>7, <2>8, <2>9 DEF Steps
<1>2. ASSUME NEW a \in Agents, NEW b \in Agents, NEW p \in Saves, SaveAgent(a, b, p) PROVE ConfigShape'
  BY <1>2, SavedAgentType, SavedType DEF SaveAgent, ConfigShape
<1>3. ASSUME NEW s \in Servers, SaveServer(s) PROVE ConfigShape'
  BY <1>3, SavedServerType, SavedType DEF SaveServer, ConfigShape
<1>4. ASSUME NEW new \in FirstFiles, UploadRequest(new) PROVE ConfigShape'
  <2>1. budget' \in Budget
    BY <1>4, PayType DEF UploadRequest, ConfigShape
  <2>2. QED
    BY <1>4, <2>1 DEF UploadRequest, ConfigShape, preparing
<1>5. CASE Crash
  <2>1. budget' \in Budget
    BY <1>5, PayType DEF Crash, ConfigShape
  <2>2. \A t \in Turns : stage'[t] \notin Making
    BY <1>5 DEF Crash, Shape, Making
  <2>3. QED
    BY <1>5, <2>1, <2>2 DEF Crash, ConfigShape, preparing
<1>6. CASE UNCHANGED vars
  BY <1>6 DEF vars, ConfigShape, preparing
<1>7. QED
  BY <1>1, <1>2, <1>3, <1>4, <1>5, <1>6 DEF Next, Steps

-----------------------------------------------------------------------------
(* An upload belongs to a document that its turn has attached.  Once it has *)
(* an id, that is the id of this document, and the ids that a prepared turn *)
(* works with are those of its documents.                                   *)
Prepared == Making \cup {"messages", "running"}
Uploads(ids) == [stage : {"posted", "polled", "ready", "failed"}, id : 0..ids, polls : 0..MaxPolls]
Behind(id, a) == id \in DOMAIN remote /\ remote[id] = a
UploadsFit(t) ==
  \A i \in DOMAIN up[t] :
    /\ up[t][i] \in Uploads(Len(remote))
    /\ ask[t] \in Ask /\ i \in DocPlaces(ask[t])
    /\ up[t][i].stage \in {"polled", "ready"} => Behind(up[t][i].id, ask[t].attached[i])
    /\ up[t][i].stage \in {"posted", "polled"} => up[t][i].polls < MaxPolls
RefsFit(t) == \A a \in DOMAIN refs[t] : a \in Documents /\ Behind(refs[t][a], a)
FilesInv ==
  /\ remote \in Seq(Documents)
  /\ \A t \in Turns :
       /\ ask[t] \in {Nil} \cup Ask
       /\ UploadsFit(t) /\ RefsFit(t)
       /\ stage[t] = "new" => DOMAIN up[t] = {}
       /\ stage[t] \in {"new", "files"} => DOMAIN refs[t] = {}
       /\ stage[t] = "files" => ask[t] \in Ask /\ DOMAIN up[t] = DocPlaces(ask[t])
       /\ stage[t] \in Prepared => ask[t] \in Ask /\ DOMAIN refs[t] = Docs(t)

(* Every id goes on meaning the document it was given for.                  *)
IdsKeep ==
  /\ remote' \in Seq(Documents) /\ Len(remote) <= Len(remote')
  /\ \A id, a : Behind(id, a) => id \in DOMAIN remote' /\ remote'[id] = a

LEMMA IdsStay == remote \in Seq(Documents) /\ UNCHANGED remote => IdsKeep
BY DEF IdsKeep, Behind

LEMMA PostKeeps ==
  ASSUME remote \in Seq(Documents), NEW a \in Documents, PostDocument(a)
  PROVE  /\ IdsKeep
         /\ Len(remote') = Len(remote) + 1 /\ Len(remote') \in DOMAIN remote' /\ remote'[Len(remote')] = a
BY DEF PostDocument, IdsKeep, Behind

LEMMA UploadsKeep ==
  ASSUME remote \in Seq(Documents), IdsKeep, NEW u \in Uploads(Len(remote))
  PROVE  u \in Uploads(Len(remote'))
<1>1. Len(remote) \in Nat /\ Len(remote') \in Nat
  BY DEF IdsKeep
<1>2. u.id \in 0..Len(remote')
  BY <1>1 DEF Uploads, IdsKeep
<1>3. QED
  BY <1>2 DEF Uploads

LEMMA FitsKeep ==
  ASSUME FilesInv, IdsKeep, NEW t \in Turns
  PROVE  /\ ask'[t] = ask[t] /\ up'[t] = up[t] => UploadsFit(t)'
         /\ refs'[t] = refs[t] => RefsFit(t)'
<1>1. ASSUME ask'[t] = ask[t], up'[t] = up[t] PROVE UploadsFit(t)'
  BY <1>1, UploadsKeep DEF FilesInv, UploadsFit, IdsKeep, Behind, DocPlaces
<1>2. ASSUME refs'[t] = refs[t] PROVE RefsFit(t)'
  BY <1>2 DEF FilesInv, RefsFit, IdsKeep, Behind
<1>3. QED
  BY <1>1, <1>2

LEMMA StageChanges ==
  ASSUME NEW ids \in Nat, NEW v \in Uploads(ids), NEW s \in {"posted", "polled", "ready", "failed"},
         NEW u, u = [v EXCEPT !.stage = s]
  PROVE  u \in Uploads(ids) /\ u.stage = s /\ u.id = v.id /\ u.polls = v.polls
BY DEF Uploads

LEMMA IdChanges ==
  ASSUME NEW ids \in Nat, NEW v \in Uploads(ids), NEW n \in 0..ids, NEW u, u = [v EXCEPT !.id = n]
  PROVE  u \in Uploads(ids) /\ u.stage = v.stage /\ u.id = n /\ u.polls = v.polls
BY DEF Uploads

LEMMA PollsChange ==
  ASSUME NEW ids \in Nat, NEW v \in Uploads(ids), NEW n \in 0..MaxPolls, NEW u, u = [v EXCEPT !.polls = n]
  PROVE  u \in Uploads(ids) /\ u.stage = v.stage /\ u.id = v.id /\ u.polls = n
BY DEF Uploads

(* A step that leaves requests and ids alone and prepares no turn.          *)
LEMMA FilesKept ==
  ASSUME FilesInv, Shape, UNCHANGED <<ask, up, refs, remote>>,
         \A u \in Turns : /\ stage'[u] \in {"new", "files"} => stage'[u] = stage[u]
                          /\ stage'[u] \in Prepared => stage[u] \in Prepared
  PROVE  FilesInv'
<1>1. IdsKeep
  BY IdsStay DEF FilesInv
<1>2. \A u \in Turns : UploadsFit(u)' /\ RefsFit(u)'
  BY <1>1, FitsKeep
<1>3. QED
  BY <1>2 DEF FilesInv, Docs

(* The state of one upload changes; its turn goes on waiting or is over.    *)
LEMMA UploadMoves ==
  ASSUME FilesInv, Shape, IdsKeep, UNCHANGED <<ask, refs>>,
         NEW t \in Turns, NEW i \in DOMAIN up[t], NEW u \in Uploads(Len(remote')),
         Upd(t, i, u), AwaitsFiles(t), UNCHANGED stage \/ Goto(t, "over"),
         u.stage \in {"polled", "ready"} =>
           u.id \in DOMAIN remote' /\ remote'[u.id] = ask[t].attached[i],
         u.stage \in {"posted", "polled"} => u.polls < MaxPolls
  PROVE  FilesInv'
<1>1. /\ DOMAIN up'[t] = DOMAIN up[t] /\ up'[t][i] = u
      /\ \A j \in DOMAIN up[t] \ {i} : up'[t][j] = up[t][j]
      /\ \A v \in Turns \ {t} : up'[v] = up[v]
  BY DEF Upd, Shape
<1>2. \A v \in Turns \ {t} : UploadsFit(v)'
  BY <1>1, FitsKeep
<1>3. \A v \in Turns : RefsFit(v)'
  BY FitsKeep
<1>4. UploadsFit(t)'
  <2>1. \A j \in DOMAIN up[t] : ask[t] \in Ask /\ j \in DocPlaces(ask[t])
    BY DEF FilesInv, UploadsFit
  <2>2. \A j \in DOMAIN up[t] \ {i} :
          /\ up[t][j] \in Uploads(Len(remote'))
          /\ up[t][j].stage \in {"polled", "ready"} =>
               up[t][j].id \in DOMAIN remote' /\ remote'[up[t][j].id] = ask[t].attached[j]
          /\ up[t][j].stage \in {"posted", "polled"} => up[t][j].polls < MaxPolls
    BY UploadsKeep DEF FilesInv, UploadsFit, IdsKeep, Behind
  <2>3. QED
    BY <1>1, <2>1, <2>2 DEF UploadsFit, Behind, DocPlaces
<1>5. stage[t] \in {"files", "over"} /\ stage'[t] \in {stage[t], "over"}
  BY DEF AwaitsFiles, Goto, Shape
<1>6. \A v \in Turns \ {t} : stage'[v] = stage[v]
  BY DEF Goto, Shape
<1>7. remote' \in Seq(Documents)
  BY DEF IdsKeep
<1>8. QED
  BY <1>1, <1>2, <1>3, <1>4, <1>5, <1>6, <1>7 DEF FilesInv, Docs, Prepared, Making

LEMMA NextFiles == Shape /\ FilesInv /\ [Next]_vars => FilesInv'
<1> SUFFICES ASSUME Shape, FilesInv, [Next]_vars PROVE FilesInv'
  OBVIOUS
<1>0. UNCHANGED remote => IdsKeep
  BY IdsStay DEF FilesInv
<1>1. ASSUME NEW t \in Turns, Steps(t) PROVE FilesInv'
  <2>1. ASSUME NEW q \in Asks, ReceiveChat(t, q) \/ ReceiveResume(t, q) PROVE FilesInv'
    <3>1. /\ stage[t] = "new" /\ ask' = [ask EXCEPT ![t] = q] /\ q \in Ask
          /\ UNCHANGED <<refs, remote>>
          /\ \A u \in Turns \ {t} : ask'[u] = ask[u] /\ stage'[u] = stage[u] /\ up'[u] = up[u]
      BY <2>1, TurnAssumption DEF ReceiveChat, ReceiveResume, Arrives, Goto, Shape, attachments
    <3>2. \/ /\ UNCHANGED up
             /\ stage'[t] \in {"refused", "hung", "over", "model"}
             /\ stage'[t] = "model" => q.attached = <<>>
          \/ /\ stage'[t] = "files"
             /\ up'[t] = [i \in DocPlaces(q) |-> [stage |-> "posted", id |-> 0, polls |-> 0]]
      BY <2>1 DEF ReceiveChat, ReceiveResume, Arrives, Goto, Shape
    <3>3. DOMAIN up[t] = {} /\ DOMAIN refs[t] = {} /\ ask'[t] = q
      BY <3>1 DEF FilesInv, Shape
    <3>4. \A u \in Turns : RefsFit(u)'
      BY <1>0, <3>1, FitsKeep
    <3>5. \A u \in Turns \ {t} : UploadsFit(u)'
      BY <1>0, <3>1, FitsKeep
    <3>6. UploadsFit(t)'
      <4>1. [stage |-> "posted", id |-> 0, polls |-> 0] \in Uploads(Len(remote'))
        <5>1. Len(remote') \in Nat /\ MaxPolls \in Nat
          BY <3>1, TurnAssumption DEF FilesInv
        <5>2. QED
          BY <5>1 DEF Uploads
      <4>2. 0 < MaxPolls
        BY TurnAssumption
      <4>3. QED
        BY <3>1, <3>2, <3>3, <4>1, <4>2 DEF UploadsFit
    <3>7. q.attached = <<>> => Elements(q.attached) = {}
      BY DEF Elements
    <3>8. QED
      BY <3>1, <3>2, <3>3, <3>4, <3>5, <3>6, <3>7 DEF FilesInv, Docs, Prepared, Making
  <2>2. ASSUME NEW i \in DOMAIN up[t], Posted(t, i) PROVE FilesInv'
    <3>1. ask[t].attached[i] \in Documents /\ up[t][i] \in Uploads(Len(remote)) /\ up[t][i].polls < MaxPolls
      BY <2>2 DEF Posted, FilesInv, UploadsFit, DocPlaces
    <3>2. /\ IdsKeep /\ Len(remote') = Len(remote) + 1
          /\ Len(remote') \in DOMAIN remote' /\ remote'[Len(remote')] = ask[t].attached[i]
      BY <2>2, <3>1, PostKeeps DEF Posted, FilesInv
    <3> DEFINE u == [[up[t][i] EXCEPT !.stage = "polled"] EXCEPT !.id = Len(remote')]
    <3>3. u \in Uploads(Len(remote')) /\ u.id = Len(remote') /\ u.stage = "polled" /\ u.polls = up[t][i].polls
      <4>1. Len(remote') \in Nat /\ Len(remote') \in 0..Len(remote')
        BY <3>2 DEF IdsKeep
      <4>2. up[t][i] \in Uploads(Len(remote'))
        BY <3>1, <3>2, UploadsKeep DEF FilesInv
      <4> DEFINE w == [up[t][i] EXCEPT !.stage = "polled"]
      <4>3. w \in Uploads(Len(remote')) /\ w.stage = "polled" /\ w.polls = up[t][i].polls
        BY <4>1, <4>2, StageChanges
      <4>4. u = [w EXCEPT !.id = Len(remote')]
        OBVIOUS
      <4> HIDE DEF u, w
      <4>5. QED
        BY <4>1, <4>3, <4>4, IdChanges
    <3>4. Upd(t, i, u) /\ AwaitsFiles(t) /\ UNCHANGED <<ask, refs, stage>>
      BY <2>2 DEF Posted, preparing
    <3> HIDE DEF u
    <3>5. QED
      BY <3>1, <3>2, <3>3, <3>4, UploadMoves
  <2>3. ASSUME NEW i \in DOMAIN up[t], Polled(t, i) PROVE FilesInv'
    <3>1. /\ up[t][i] \in Uploads(Len(remote)) /\ up[t][i].polls < MaxPolls
          /\ up[t][i].id \in DOMAIN remote /\ remote[up[t][i].id] = ask[t].attached[i]
      BY <2>3 DEF Polled, FilesInv, UploadsFit, Behind
    <3>2. PICK u : /\ Upd(t, i, u)
                   /\ \/ u = [up[t][i] EXCEPT !.stage = "ready"]
                      \/ u = [[up[t][i] EXCEPT !.polls = @ + 1] EXCEPT
                               !.stage = IF GivesUp(up[t][i].polls + 1) THEN "ready" ELSE "polled"]
      BY <2>3 DEF Polled
    <3>3. up[t][i].polls + 1 \in 0..MaxPolls
      BY <3>1, TurnAssumption DEF Uploads
    <3>4. /\ u \in Uploads(Len(remote)) /\ u.id = up[t][i].id
          /\ u.stage \in {"posted", "polled"} => u.polls < MaxPolls
      <4>1. Len(remote) \in Nat
        BY DEF FilesInv
      <4>2. CASE u = [up[t][i] EXCEPT !.stage = "ready"]
        BY <3>1, <4>1, <4>2, StageChanges
      <4> DEFINE w == [up[t][i] EXCEPT !.polls = @ + 1]
                 s == IF GivesUp(up[t][i].polls + 1) THEN "ready" ELSE "polled"
      <4>3. ASSUME u = [w EXCEPT !.stage = s] PROVE <3>4
        <5>1. w \in Uploads(Len(remote)) /\ w.id = up[t][i].id /\ w.polls = up[t][i].polls + 1
          BY <3>1, <3>3, <4>1, PollsChange
        <5>2. s \in {"ready", "polled"} /\ (s = "polled" => up[t][i].polls + 1 < MaxPolls)
          BY <3>3, TurnAssumption DEF GivesUp
        <5> HIDE DEF w, s
        <5>3. QED
          BY <4>1, <4>3, <5>1, <5>2, StageChanges
      <4>4. QED
        BY <3>2, <4>2, <4>3
    <3>5. UNCHANGED <<ask, refs, stage, remote>> /\ AwaitsFiles(t)
      BY <2>3 DEF Polled, preparing, attachments
    <3>6. QED
      BY <1>0, <3>1, <3>2, <3>4, <3>5, UploadMoves
  <2>4. ASSUME NEW i \in DOMAIN up[t], FileFails(t, i) PROVE FilesInv'
    <3> DEFINE u == [up[t][i] EXCEPT !.stage = "failed"]
    <3>1. up[t][i] \in Uploads(Len(remote))
      BY DEF FilesInv, UploadsFit
    <3>2. u \in Uploads(Len(remote)) /\ u.stage = "failed"
      BY <3>1 DEF Uploads
    <3>3. UNCHANGED <<ask, refs, remote>> /\ AwaitsFiles(t) /\ Upd(t, i, u) /\ Goto(t, "over")
      BY <2>4 DEF FileFails, preparing, attachments
    <3> HIDE DEF u
    <3>4. QED
      BY <1>0, <3>2, <3>3, UploadMoves
  <2>5. ASSUME FilesReady(t) PROVE FilesInv'
    <3>1. /\ stage[t] = "files" /\ \A i \in DOMAIN up[t] : up[t][i].stage = "ready"
          /\ refs' = [refs EXCEPT ![t] = FileIds(t)]
          /\ UNCHANGED <<ask, up, remote>>
          /\ stage'[t] \in {"over", "model"} /\ \A v \in Turns \ {t} : stage'[v] = stage[v]
      BY <2>5 DEF FilesReady, Goto, Shape, attachments
    <3>2. ask[t] \in Ask /\ DOMAIN up[t] = DocPlaces(ask[t]) /\ UploadsFit(t)
      BY <3>1 DEF FilesInv
    <3>3. \A a \in Docs(t) : Behind(FileIds(t)[a], a)
      <4> SUFFICES ASSUME NEW a \in Docs(t) PROVE Behind(FileIds(t)[a], a)
        OBVIOUS
      <4>1. \E i \in DOMAIN up[t] : ask[t].attached[i] = a
        BY <3>2 DEF Docs, Elements, DocPlaces
      <4> DEFINE i == CHOOSE j \in DOMAIN up[t] : ask[t].attached[j] = a
      <4>2. i \in DOMAIN up[t] /\ ask[t].attached[i] = a
        BY <4>1
      <4>3. FileIds(t)[a] = up[t][i].id
        BY DEF FileIds
      <4> HIDE DEF i
      <4>4. QED
        BY <3>1, <3>2, <4>2, <4>3 DEF UploadsFit
    <3>4. DOMAIN refs'[t] = Docs(t) /\ \A a \in Docs(t) : refs'[t][a] = FileIds(t)[a]
      BY <3>1 DEF Shape, FileIds
    <3>5. RefsFit(t)'
      BY <3>1, <3>3, <3>4 DEF RefsFit, Behind, Docs
    <3>6. \A v \in Turns \ {t} : RefsFit(v)'
      BY <1>0, <3>1, FitsKeep DEF Shape
    <3>7. \A v \in Turns : UploadsFit(v)'
      BY <1>0, <3>1, FitsKeep
    <3>8. \A v \in Turns \ {t} : refs'[v] = refs[v]
      BY <3>1 DEF Shape
    <3>9. QED
      BY <3>1, <3>2, <3>4, <3>5, <3>6, <3>7, <3>8 DEF FilesInv, Docs
  <2>6. ASSUME ModelReady(t) \/ BackendReady(t) \/ SetupFails(t) \/ McpLoaded(t) PROVE FilesInv'
    BY <2>6, FilesKept DEF ModelReady, BackendReady, SetupFails, McpLoaded, Over, Goto, Shape, Prepared,
       Making, preparing, attachments
  <2>7. ASSUME NEW a \in Images, ImagePut(t, a) \/ ImageFails(t, a) PROVE FilesInv'
    BY <2>7, FilesKept DEF ImagePut, ImageFails, PutImage, PutImageTears, Over, Goto, Shape, Prepared, Making,
       preparing, attachments
  <2>8. ASSUME MessagesFail(t) \/ MessagesReady(t) \/ Finish(t) \/ ToolsEnd(t) PROVE FilesInv'
    BY <2>8, FilesKept DEF MessagesFail, MessagesReady, Finish, ToolsEnd, Over, Goto, Shape, Prepared, Making,
       preparing, attachments
  <2>9. ASSUME NEW k \in FactKeys, NEW x \in Texts, RememberTool(t, k, x) \/ RememberToolFails(t, k, x)
        PROVE  FilesInv'
    BY <2>9, FilesKept DEF RememberTool, RememberToolFails, preparing, attachments
  <2>10. QED
    BY <1>1, <2>1, <2>2, <2>3, <2>4, <2>5, <2>6, <2>7, <2>8, <2>9 DEF Steps
<1>2. ASSUME NEW c, Saved(c) PROVE FilesInv'
  BY <1>2, FilesKept DEF Saved, preparing, attachments
<1>3. ASSUME NEW new \in FirstFiles, UploadRequest(new) PROVE FilesInv'
  BY <1>3, FilesKept DEF UploadRequest, Upload, UploadFails, preparing
<1>4. CASE Crash
  <2>1. /\ UNCHANGED <<ask, refs, remote>>
        /\ \A u \in Turns : /\ stage'[u] \in {"new", "refused", "over", "lost"}
                            /\ stage'[u] = "new" => stage[u] = "new"
                            /\ up'[u] = <<>>
    BY <1>4 DEF Crash, Shape, preparing, attachments
  <2>2. \A u \in Turns : RefsFit(u)'
    BY <1>0, <2>1, FitsKeep
  <2>3. \A u \in Turns : DOMAIN up'[u] = {}
    BY <2>1
  <2>4. QED
    BY <2>1, <2>2, <2>3 DEF FilesInv, UploadsFit, Prepared, Making
<1>5. CASE UNCHANGED vars
  BY <1>5, FilesKept DEF vars, preparing, attachments
<1>6. QED
  BY <1>1, <1>2, <1>3, <1>4, <1>5, NextCases

-----------------------------------------------------------------------------
(* Metadata has an address only after the object is stored, and a turn      *)
(* takes addresses from there or from its own upload.                       *)
UrlsFit(t) ==
  \A a \in DOMAIN urls[t] :
    /\ a \in Images /\ urls[t][a] \in {"none", "local", "oss", "failed"}
    /\ urls[t][a] = "oss" => a \in objects
ImagesInv ==
  /\ files \subseteq Tokens /\ handed \subseteq files /\ objects \subseteq Images
  /\ meta \in [Tokens -> {"none", "torn", "plain", "oss"}] /\ env \in Env
  /\ \A a \in Images : meta[a] = "oss" => a \in objects
  /\ \A t \in Turns :
       UrlsFit(t) /\ (stage[t] \in {"messages", "running"} => DOMAIN urls[t] = Pictures(t))

FilesTyped ==
  /\ files \subseteq Tokens /\ handed \subseteq files /\ objects \subseteq Images
  /\ meta \in [Tokens -> {"none", "torn", "plain", "oss"}] /\ env \in Env
  /\ \A a \in Images : meta[a] = "oss" => a \in objects

(* Objects are never deleted, so that an address stays good.                *)
LEMMA UrlsKept ==
  ASSUME ImagesInv, FilesTyped', objects \subseteq objects', UNCHANGED <<urls, ask>>,
         \A u \in Turns : stage'[u] \in {"messages", "running"} => stage[u] \in {"messages", "running"}
  PROVE  ImagesInv'
BY DEF ImagesInv, FilesTyped, UrlsFit, Pictures

(* The address of one image is known, or will not be.                       *)
LEMMA UrlMoves ==
  ASSUME ImagesInv, Shape, FilesTyped', objects \subseteq objects', UNCHANGED ask,
         NEW t \in Turns, NEW a \in DOMAIN urls[t], NEW where \in {"oss", "failed"},
         urls' = [urls EXCEPT ![t][a] = where], where = "oss" => a \in objects',
         \A u \in Turns : stage'[u] \in {"messages", "running"} => stage[u] \in {"messages", "running"}
  PROVE  ImagesInv'
<1>1. /\ DOMAIN urls'[t] = DOMAIN urls[t] /\ urls'[t][a] = where
      /\ \A b \in DOMAIN urls[t] \ {a} : urls'[t][b] = urls[t][b]
      /\ \A u \in Turns \ {t} : urls'[u] = urls[u]
  BY DEF Shape
<1>2. UrlsFit(t)'
  BY <1>1 DEF ImagesInv, UrlsFit
<1>3. \A u \in Turns \ {t} : UrlsFit(u)'
  BY <1>1 DEF ImagesInv, UrlsFit
<1>4. \A u \in Turns : DOMAIN urls'[u] = DOMAIN urls[u]
  BY <1>1
<1>5. QED
  BY <1>2, <1>3, <1>4 DEF ImagesInv, FilesTyped, Pictures

LEMMA PutTyped ==
  ASSUME FilesTyped, NEW a \in Images, PutImage(a) \/ PutImageTears(a)
  PROVE  FilesTyped' /\ objects \subseteq objects' /\ a \in objects'
<1>1. /\ objects' = objects \cup {a} /\ UNCHANGED <<files, handed, env>>
      /\ \E m \in {"oss", "torn"} : meta' = [meta EXCEPT ![a] = m]
  BY DEF PutImage, PutImageTears
<1>2. QED
  BY <1>1 DEF FilesTyped, Tokens

LEMMA UploadTyped ==
  ASSUME FilesTyped, NEW new \in FirstFiles, Upload(new) \/ UploadFails(new)
  PROVE  FilesTyped' /\ UNCHANGED objects
<1>1. new \subseteq Tokens
  BY TurnAssumption
<1>2. CASE Upload(new)
  <2>1. /\ meta' = [a \in Tokens |-> IF a \in new THEN "plain" ELSE meta[a]]
        /\ files' = files \cup new /\ handed' = handed \cup new
        /\ UNCHANGED <<objects, env>>
    BY <1>2 DEF Upload
  <2>2. meta' \in [Tokens -> {"none", "torn", "plain", "oss"}]
    BY <2>1 DEF FilesTyped
  <2>3. \A a \in Images : meta'[a] = "oss" => meta[a] = "oss"
    BY <2>1 DEF Tokens
  <2>4. files' \subseteq Tokens /\ handed' \subseteq files'
    BY <1>1, <2>1 DEF FilesTyped
  <2>5. QED
    BY <2>1, <2>2, <2>3, <2>4 DEF FilesTyped
<1>3. CASE UploadFails(new)
  <2>1. PICK whole \in SUBSET new, a \in new, left \in {"none", "torn"} :
          /\ meta' = [b \in Tokens |-> IF b \in whole THEN "plain" ELSE IF b = a THEN left ELSE meta[b]]
          /\ files' = files \cup whole \cup {a}
    BY <1>3 DEF UploadFails
  <2>2. QED
    BY <1>1, <1>3, <2>1 DEF UploadFails, FilesTyped, Tokens
<1>4. QED
  BY <1>2, <1>3

LEMMA NextImages == Shape /\ ImagesInv /\ [Next]_vars => ImagesInv'
<1> SUFFICES ASSUME Shape, ImagesInv, [Next]_vars PROVE ImagesInv'
  OBVIOUS
<1>0. FilesTyped
  BY DEF ImagesInv, FilesTyped
<1>1. ASSUME NEW t \in Turns, Steps(t) PROVE ImagesInv'
  <2>0. ASSUME UNCHANGED attachments \/ \E a : PostDocument(a), UNCHANGED <<urls, ask>>,
               \A u \in Turns : stage'[u] \in {"messages", "running"} => stage[u] \in {"messages", "running"}
        PROVE  ImagesInv'
    <3>1. FilesTyped' /\ objects' = objects
      BY <1>0, <2>0 DEF FilesTyped, attachments, PostDocument
    <3>2. QED
      BY <2>0, <3>1, UrlsKept
  <2>1. ASSUME NEW q \in Asks, ReceiveChat(t, q) \/ ReceiveResume(t, q) PROVE ImagesInv'
    <3>1. /\ UNCHANGED <<attachments, urls>> /\ \A u \in Turns \ {t} : ask'[u] = ask[u] /\ stage'[u] = stage[u]
          /\ stage'[t] \notin {"messages", "running"}
      BY <2>1 DEF ReceiveChat, ReceiveResume, Arrives, Goto, Shape
    <3>2. FilesTyped' /\ objects' = objects
      BY <1>0, <3>1 DEF FilesTyped, attachments
    <3>3. QED
      BY <3>1, <3>2 DEF ImagesInv, FilesTyped, UrlsFit, Pictures
  <2>2. ASSUME NEW i \in DOMAIN up[t], Posted(t, i) \/ Polled(t, i) \/ FileFails(t, i)
        PROVE  ImagesInv'
    BY <2>0, <2>2 DEF Posted, Polled, FileFails, Goto, Shape, preparing
  <2>3. ASSUME FilesReady(t) \/ ModelReady(t) \/ BackendReady(t) \/ SetupFails(t) PROVE ImagesInv'
    BY <2>0, <2>3 DEF FilesReady, ModelReady, BackendReady, SetupFails, Over, Goto, Shape, preparing
  <2>4. ASSUME McpLoaded(t) PROVE ImagesInv'
    <3>1. /\ urls' = [urls EXCEPT ![t] = [a \in Pictures(t) |-> FirstUrl(t, a)]]
          /\ UNCHANGED <<attachments, ask>> /\ \A u \in Turns \ {t} : stage'[u] = stage[u]
      BY <2>4 DEF McpLoaded, Goto, Shape
    <3>2. FilesTyped' /\ objects' = objects
      BY <1>0, <3>1 DEF FilesTyped, attachments
    <3>3. \A a \in Pictures(t) :
            /\ FirstUrl(t, a) \in {"none", "local", "oss", "failed"}
            /\ FirstUrl(t, a) = "oss" => meta[a] = "oss"
      BY DEF FirstUrl
    <3>4. DOMAIN urls'[t] = Pictures(t) /\ UrlsFit(t)'
      BY <1>0, <3>1, <3>2, <3>3 DEF Shape, UrlsFit, Pictures, FilesTyped
    <3>5. \A u \in Turns \ {t} : urls'[u] = urls[u] /\ UrlsFit(u)'
      BY <3>1, <3>2 DEF ImagesInv, Shape, UrlsFit
    <3>6. QED
      BY <3>1, <3>2, <3>4, <3>5 DEF ImagesInv, FilesTyped, Pictures
  <2>5. ASSUME NEW a \in Images, ImagePut(t, a) PROVE ImagesInv'
    BY <1>0, <2>5, PutTyped, UrlMoves DEF ImagePut, AwaitsImage, HasUrl, preparing
  <2>6. ASSUME NEW a \in Images, ImageFails(t, a) PROVE ImagesInv'
    <3>1. FilesTyped' /\ objects \subseteq objects'
      <4>1. CASE UNCHANGED attachments
        BY <1>0, <4>1 DEF FilesTyped, attachments
      <4>2. CASE PutImageTears(a)
        BY <1>0, <4>2, PutTyped
      <4>3. QED
        BY <2>6, <4>1, <4>2 DEF ImageFails
    <3>2. QED
      BY <2>6, <3>1, UrlMoves DEF ImageFails, AwaitsImage, Over, Goto, Shape, preparing
  <2>7. ASSUME MessagesFail(t) \/ MessagesReady(t) \/ Finish(t) \/ ToolsEnd(t) PROVE ImagesInv'
    BY <2>0, <2>7 DEF MessagesFail, MessagesReady, Finish, ToolsEnd, Over, Goto, Shape, preparing
  <2>8. ASSUME NEW k \in FactKeys, NEW x \in Texts, RememberTool(t, k, x) \/ RememberToolFails(t, k, x)
        PROVE  ImagesInv'
    BY <2>0, <2>8 DEF RememberTool, RememberToolFails, preparing
  <2>9. QED
    BY <1>1, <2>1, <2>2, <2>3, <2>4, <2>5, <2>6, <2>7, <2>8 DEF Steps
<1>2. ASSUME NEW c, Saved(c) PROVE ImagesInv'
  <2>1. FilesTyped' /\ objects' = objects
    BY <1>0, <1>2 DEF FilesTyped, Saved, attachments
  <2>2. QED
    BY <1>2, <2>1, UrlsKept DEF Saved, preparing
<1>3. ASSUME NEW new \in FirstFiles, UploadRequest(new) PROVE ImagesInv'
  <2>1. FilesTyped' /\ objects' = objects
    BY <1>0, <1>3, UploadTyped DEF UploadRequest
  <2>2. QED
    BY <1>3, <2>1, UrlsKept DEF UploadRequest, preparing
<1>4. CASE Crash
  <2>1. /\ \A u \in Turns : urls'[u] = <<>> /\ stage'[u] \notin {"messages", "running"}
        /\ FilesTyped' /\ objects' = objects
    BY <1>0, <1>4 DEF Crash, Shape, FilesTyped, attachments
  <2>2. \A u \in Turns : DOMAIN urls'[u] = {}
    BY <2>1
  <2>3. QED
    BY <2>1, <2>2 DEF ImagesInv, FilesTyped, UrlsFit
<1>5. CASE UNCHANGED vars
  <2>1. FilesTyped' /\ objects' = objects
    BY <1>0, <1>5 DEF FilesTyped, vars, attachments
  <2>2. QED
    BY <1>5, <2>1, UrlsKept DEF vars, preparing
<1>6. QED
  BY <1>1, <1>2, <1>3, <1>4, <1>5, NextCases

-----------------------------------------------------------------------------
LEMMA InitAttachments == Init => FilesInv /\ ImagesInv
<1> SUFFICES ASSUME Init PROVE FilesInv /\ ImagesInv
  OBVIOUS
<1>1. /\ remote = <<>> /\ files = {} /\ handed = {} /\ objects = {} /\ meta = [a \in Tokens |-> "none"]
      /\ env \in Env
      /\ \A t \in Turns : /\ stage[t] = "new" /\ ask[t] = Nil
                          /\ up[t] = <<>> /\ refs[t] = <<>> /\ urls[t] = <<>>
  BY DEF Init, AttachmentsInit
<1>2. \A t \in Turns : DOMAIN up[t] = {} /\ DOMAIN refs[t] = {} /\ DOMAIN urls[t] = {}
  BY <1>1
<1>3. remote \in Seq(Documents)
  BY <1>1
<1>4. FilesInv
  BY <1>1, <1>2, <1>3 DEF FilesInv, UploadsFit, RefsFit, Prepared, Making
<1>5. ImagesInv
  BY <1>1, <1>2 DEF ImagesInv, UrlsFit, Tokens
<1>6. QED
  BY <1>4, <1>5

LEMMA AlwaysFiles == Spec => []FilesInv
BY InitAttachments, NextFiles, AlwaysShape, PTL DEF Spec

LEMMA AlwaysImages == Spec => []ImagesInv
BY InitAttachments, NextImages, AlwaysShape, PTL DEF Spec

(* The model is given the documents of its own request: uploads of all      *)
(* turns are answered in any order, but an id goes on meaning the document  *)
(* it was given for, and a turn pairs each with the place it was posted     *)
(* from.  An image's address is in its metadata or known to its turn only   *)
(* after the object is stored.                                              *)
THEOREM OwnAttachmentsReachTheModel == Spec => []ModelGetsAttachments
<1>1. FilesInv /\ ImagesInv => ModelGetsAttachments
  <2> SUFFICES ASSUME FilesInv, ImagesInv, NEW t \in Turns, stage[t] = "running"
               PROVE  /\ {remote[refs[t][a]] : a \in DOMAIN refs[t] \cap Documents} = Docs(t)
                      /\ \A a \in Pictures(t) : urls[t][a] = "oss" => a \in objects
    BY DEF ModelGetsAttachments, Running
  <2>1. DOMAIN refs[t] = Docs(t) /\ RefsFit(t)
    BY DEF FilesInv, Prepared
  <2>2. \A a \in Docs(t) : remote[refs[t][a]] = a
    BY <2>1 DEF RefsFit, Behind
  <2>3. DOMAIN refs[t] \cap Documents = Docs(t)
    BY <2>1 DEF Docs
  <2>4. \A a \in Pictures(t) : urls[t][a] = "oss" => a \in objects
    BY DEF ImagesInv, UrlsFit
  <2>5. QED
    BY <2>2, <2>3, <2>4
<1>2. QED
  BY <1>1, AlwaysFiles, AlwaysImages, PTL

(* Turns, files and memory hold values of the expected shapes; the polls of *)
(* an upload stay within their bound, and no reference is to a file that    *)
(* was not uploaded.                                                        *)
THEOREM TypeCorrect == Spec => []TypeOK
<1>1. ASSUME Init PROVE ConfigShape
  <2>1. config \in File /\ budget \in Budget
    BY <1>1, TurnAssumption DEF Init
  <2>2. NoAgent \in AgentTools
    BY DEF NoAgent, AgentTools
  <2>3. QED
    BY <1>1, <2>1, <2>2 DEF Init, ConfigShape, Making
<1>2. Shape /\ ConfigShape /\ [Next]_vars => ConfigShape'
  BY NextConfigShape
<1>3. Shape /\ MemoryTypeOK /\ ConfigShape /\ FilesInv /\ ImagesInv => TypeOK
  <2> SUFFICES ASSUME Shape, MemoryTypeOK, ConfigShape, FilesInv, ImagesInv PROVE TypeOK
    OBVIOUS
  <2>1. MemoryTypeOK /\ AttachmentsTypeOK
    BY DEF AttachmentsTypeOK, FilesInv, ImagesInv
  <2>2. config \in File /\ stage \in [Turns -> Stages] /\ saved \in [Turns -> BOOLEAN] /\ budget \in Budget
    BY DEF Shape, ConfigShape
  <2>3. agent \in [Turns -> [tools : SUBSET Tools, asks : SUBSET Tools]]
    BY DEF ConfigShape, AgentTools
  <2>4. ASSUME NEW t \in Turns
        PROVE  /\ ask[t] \in {Nil} \cup Ask
               /\ seen[t] \in {Nil} \cup Config /\ conf[t] \in {Nil} \cup Config
               /\ bound[t] \subseteq Servers
    BY DEF ConfigShape, FilesInv
  <2>5. ASSUME NEW t \in Turns, NEW i \in DOMAIN up[t]
        PROVE  up[t][i] \in [stage : {"posted", "polled", "ready", "failed"},
                             id : 0..Len(remote), polls : 0..MaxPolls]
    BY DEF FilesInv, UploadsFit, Uploads
  <2>6. ASSUME NEW t \in Turns, NEW a \in DOMAIN refs[t] PROVE a \in Tokens /\ refs[t][a] \in DOMAIN remote
    BY DEF FilesInv, RefsFit, Behind, Tokens
  <2>7. ASSUME NEW t \in Turns, NEW a \in DOMAIN urls[t]
        PROVE  a \in Images /\ urls[t][a] \in {"none", "local", "oss", "failed"}
    BY DEF ImagesInv, UrlsFit
  <2>8. QED
    BY <2>1, <2>2, <2>3, <2>4, <2>5, <2>6, <2>7 DEF TypeOK
<1>4. QED
  BY <1>1, <1>2, <1>3, AlwaysShape, AlwaysMemory, AlwaysFiles, AlwaysImages, PTL DEF Spec
=============================================================================
