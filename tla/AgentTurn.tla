------------------------------- MODULE AgentTurn -------------------------------
(***************************************************************************)
(* From a request to a running agent: streamChat and resume up to the      *)
(* stream, createAgent, and what the running agent remembers.  Between the *)
(* awaits other turns of the same agent run, files are uploaded and the    *)
(* configuration is saved; the configuration is read three times.          *)
(*                                                                         *)
(* The stream is ChatTurn's, the checkpoint ChatThread's, the container    *)
(* SandboxContainer's, the skills SkillsStore's business.                  *)
(***************************************************************************)
EXTENDS AgentRules, AgentMemory, Attachments

CONSTANTS
  Asks,       \* requests that clients make
  Saves,      \* payloads of the configuration pages for an agent; Nil removes it
  FirstConfig, FirstFiles,  \* what is there at the start
  MaxPolls,   \* polls of waitForBailianFileReady (10 in the code)
  Workloads   \* bounds, one of which a behaviour is in

VARIABLES
  config,  \* the configuration file
  stage,   \* stage[t]: where turn t is
  ask,     \* ask[t]: its request
  seen,    \* seen[t]: the configuration that the handler has read
  conf,    \* conf[t]: the one that createAgent has read
  bound,   \* bound[t]: the MCP servers that loadMcpToolsForAgent goes through
  up,      \* up[t][i]: the upload of the document attached at place i
  refs,    \* refs[t]: file-id by token
  urls,    \* urls[t]: address by image; "none" while it is uploaded
  agent,   \* agent[t]: tools it can call, and those that wait for a decision
  saved,   \* history: the configuration changed while turn t was prepared
  budget   \* what is left of the workload

preparing == <<ask, seen, conf, bound, refs, agent>>
vars == <<memories, attachments, preparing, config, stage, up, urls, saved, budget>>

Stages == {"new", "refused", "hung", "files", "model", "backend", "mcp", "messages",
           "running", "over", "lost"}
Ask == [name : Agents, resume : BOOLEAN, text : BOOLEAN, attached : Seq(Tokens)]
\* The configuration file, and what a turn of an agent makes of it.
File == [agents : [Agents -> {Nil} \cup Agent], active : SUBSET Servers]
ReadConfig(file, name) == [agent |-> file.agents[name], active |-> file.active]
Budget == [turns : Nat, uploads : Nat, saves : Nat, facts : Nat, faults : Nat]
NoAgent == [tools |-> {}, asks |-> {}]

ASSUME TurnAssumption ==
  /\ Turns \subseteq Nat /\ MaxPolls \in Nat \ {0}
  /\ Asks \subseteq Ask /\ Workloads \subseteq Budget
  /\ FirstConfig \subseteq File /\ FirstFiles \subseteq SUBSET Tokens
  /\ Saves \subseteq {Nil} \cup [files : BOOLEAN, tools : SUBSET ({Optional} \cup Servers),
                      hitl : {Nil} \cup [enabled : BOOLEAN, tools : SUBSET Tools]]

Elements(s) == {s[i] : i \in DOMAIN s}
DocPlaces(q) == {i \in DOMAIN q.attached : q.attached[i] \in Documents}
Docs(t) == Elements(ask[t].attached) \cap Documents
Pictures(t) == Elements(ask[t].attached) \cap Images

Init ==
  /\ MemoryInit
  /\ AttachmentsInit
  /\ config \in FirstConfig
  /\ stage = [t \in Turns |-> "new"]
  /\ ask = [t \in Turns |-> Nil] /\ seen = ask /\ conf = ask
  /\ bound = [t \in Turns |-> {}]
  /\ up = [t \in Turns |-> <<>>] /\ refs = up /\ urls = up
  /\ agent = [t \in Turns |-> NoAgent]
  /\ saved = [t \in Turns |-> FALSE]
  /\ budget \in Workloads

Pay(what) == budget[what] > 0 /\ budget' = [budget EXCEPT ![what] = @ - 1]
Goto(t, where) == stage' = [stage EXCEPT ![t] = where]
Over(t) == Goto(t, "over") /\ DropMemory(t)

-----------------------------------------------------------------------------
(* Requests.  Turns are numbered as their requests arrive.                  *)

Arrives(t, q) ==
  /\ stage[t] = "new" /\ \A u \in Turns : u < t => stage[u] # "new"
  /\ Pay("turns")
  /\ ask' = [ask EXCEPT ![t] = q]
  /\ seen' = [seen EXCEPT ![t] = ReadConfig(config, q.name)]

\* streamChat up to its first await.  An attachment that does not resolve is
\* refused before anything is recorded; blank input is never answered.
ReceiveChat(t, q) ==
  /\ ~q.resume
  /\ \A a \in Elements(q.attached) : a \in handed \/ a \notin files
  /\ Arrives(t, q)
  /\ IF \E a \in Elements(q.attached) : ~Resolves(a)
       THEN Goto(t, "refused") /\ UNCHANGED up
       ELSE IF ~q.text /\ q.attached = <<>>
       THEN Goto(t, "hung") /\ UNCHANGED up
       ELSE IF seen'[t].agent = Nil \/ (DocPlaces(q) # {} /\ ~seen'[t].agent.files)
       THEN Goto(t, "over") /\ UNCHANGED up
       ELSE /\ Goto(t, "files")
            /\ up' = [up EXCEPT ![t] = [i \in DocPlaces(q) |->
                                          [stage |-> "posted", id |-> 0, polls |-> 0]]]
  /\ UNCHANGED <<memories, attachments, config, conf, bound, refs, urls, agent, saved>>

\* resume goes straight to createAgent, without attachments.
ReceiveResume(t, q) ==
  /\ q.resume /\ q.attached = <<>>
  /\ Arrives(t, q)
  /\ conf' = [conf EXCEPT ![t] = seen'[t]]
  /\ Goto(t, IF conf'[t].agent = Nil THEN "over" ELSE "model")
  /\ UNCHANGED <<memories, attachments, config, bound, refs, up, urls, agent, saved>>

-----------------------------------------------------------------------------
(* resolveBailianFileReferences: all documents at once.  When one fails the *)
(* turn is over, but the other uploads go on.                               *)

AwaitsFiles(t) == stage[t] \in {"files", "over"}
Upd(t, i, u) == up' = [up EXCEPT ![t][i] = u]

Posted(t, i) ==
  /\ AwaitsFiles(t) /\ up[t][i].stage = "posted"
  /\ PostDocument(ask[t].attached[i])
  /\ Upd(t, i, [up[t][i] EXCEPT !.stage = "polled", !.id = Len(remote')])
  /\ UNCHANGED <<memories, preparing, config, stage, urls, saved, budget>>

\* Defect: one poll too many.
GivesUpLate(polls) == polls > MaxPolls
\* The wait ends without an answer, as if the file were ready.
GivesUp(polls) == polls = MaxPolls

\* The file is processed, or its state is not told, or the last poll is over.
Polled(t, i) ==
  /\ AwaitsFiles(t) /\ up[t][i].stage = "polled"
  /\ \/ Upd(t, i, [up[t][i] EXCEPT !.stage = "ready"])
     \/ Upd(t, i, [up[t][i] EXCEPT !.polls = @ + 1,
                                   !.stage = IF GivesUp(up[t][i].polls + 1) THEN "ready"
                                              ELSE "polled"])
  /\ UNCHANGED <<memories, attachments, preparing, config, stage, urls, saved, budget>>

FileFails(t, i) ==
  /\ AwaitsFiles(t) /\ up[t][i].stage \in {"posted", "polled"}
  /\ Pay("faults")
  /\ Upd(t, i, [up[t][i] EXCEPT !.stage = "failed"])
  /\ Goto(t, "over")
  /\ UNCHANGED <<memories, attachments, preparing, config, urls, saved>>

\* Defect: the uploads share a variable, which has the id of the latest.
FileIdsLatest(t) == [a \in Docs(t) |-> Len(remote)]
FileIds(t) ==
  [a \in Docs(t) |-> up[t][CHOOSE i \in DOMAIN up[t] : ask[t].attached[i] = a].id]

\* All documents are ready: createAgent reads the configuration again.
FilesReady(t) ==
  /\ stage[t] = "files" /\ \A i \in DOMAIN up[t] : up[t][i].stage = "ready"
  /\ refs' = [refs EXCEPT ![t] = FileIds(t)]
  /\ conf' = [conf EXCEPT ![t] = ReadConfig(config, ask[t].name)]
  /\ Goto(t, IF conf'[t].agent = Nil THEN "over" ELSE "model")
  /\ UNCHANGED <<memories, attachments, config, ask, seen, bound, up, urls, agent, saved,
                 budget>>

-----------------------------------------------------------------------------
(* createAgent.                                                             *)

ModelReady(t) ==
  /\ stage[t] = "model"
  /\ Goto(t, "backend")
  /\ UNCHANGED <<memories, attachments, preparing, config, up, urls, saved, budget>>

\* The container is up: the servers are read from the configuration of now.
BackendReady(t) ==
  /\ stage[t] = "backend"
  /\ bound' = [bound EXCEPT ![t] = McpBindings(ReadConfig(config, ask[t].name))]
  /\ Goto(t, "mcp")
  /\ UNCHANGED <<memories, attachments, ask, seen, conf, refs, agent, config, up, urls, saved,
                 budget>>

\* initStreamModel or DockerSandboxBackend.create throws.
SetupFails(t) ==
  /\ stage[t] \in {"model", "backend"}
  /\ Pay("faults")
  /\ Over(t)
  /\ UNCHANGED <<attachments, preparing, config, up, urls, saved>>

\* All attachments are resolved again before the first image is looked at.
FirstUrl(t, a) ==
  IF \E b \in Elements(ask[t].attached) : ~Resolves(b) THEN "failed"
  ELSE IF env = "local" THEN "local"
  ELSE IF meta[a] = "oss" THEN "oss"
  ELSE IF env = "nokey" THEN "failed" ELSE "none"

\* loadMcpToolsForAgent skips servers that do not answer, and a memory file that
\* cannot be read is taken for an empty one.  The rest of createAgent and
\* buildModelMessages up to its await follow at once.
McpLoaded(t) ==
  /\ stage[t] = "mcp"
  /\ \E answering \in SUBSET bound[t] :
       /\ answering # bound[t] => budget.faults > 0
       /\ agent' = [agent EXCEPT ![t] =
            [tools |-> ToolsEnabled(conf[t].agent) \cup answering,
             asks |-> ResolveHumanInLoop(conf[t].agent)]]
  /\ \E readable \in BOOLEAN :
       (readable \/ budget.faults > 0) /\ OpenMemory(t, ask[t].name, readable)
  /\ urls' = [urls EXCEPT ![t] = [a \in Pictures(t) |-> FirstUrl(t, a)]]
  /\ Goto(t, "messages")
  /\ UNCHANGED <<attachments, ask, seen, conf, bound, refs, config, up, saved, budget>>

-----------------------------------------------------------------------------
(* buildModelMessages: all images at once; like documents they go on when   *)
(* the turn is over.                                                        *)

AwaitsImage(t, a) ==
  /\ stage[t] \in {"messages", "over"}
  /\ a \in DOMAIN urls[t] /\ urls[t][a] = "none"
HasUrl(t, a) == urls' = [urls EXCEPT ![t][a] = "oss"]

ImagePut(t, a) ==
  /\ AwaitsImage(t, a)
  /\ PutImage(a) /\ HasUrl(t, a)
  /\ UNCHANGED <<memories, preparing, config, stage, up, saved, budget>>

\* The request fails, or the disk does after it.
ImageFails(t, a) ==
  /\ AwaitsImage(t, a)
  /\ Pay("faults")
  /\ UNCHANGED attachments \/ PutImageTears(a)
  /\ urls' = [urls EXCEPT ![t][a] = "failed"]
  /\ Over(t)
  /\ UNCHANGED <<preparing, config, up, saved>>

HasUrls(t) == \A a \in Pictures(t) : urls[t][a] \in {"local", "oss"}

\* No credentials, metadata torn meanwhile, or, when the images are there, a
\* model that no longer reads file-ids: the agent is closed.
MessagesFail(t) ==
  /\ stage[t] = "messages"
  /\ \/ \E a \in Pictures(t) : urls[t][a] = "failed"
     \/ HasUrls(t) /\ Docs(t) # {} /\ ~conf[t].agent.files
  /\ Over(t)
  /\ UNCHANGED <<attachments, preparing, config, up, urls, saved, budget>>

MessagesReady(t) ==
  /\ stage[t] = "messages"
  /\ HasUrls(t)
  /\ Docs(t) # {} => conf[t].agent.files
  /\ Goto(t, "running")
  /\ UNCHANGED <<memories, attachments, preparing, config, up, urls, saved, budget>>

-----------------------------------------------------------------------------
(* The running agent, the configuration pages, uploads, and crashes.        *)

\* Tools of a turn that was closed early are still at work.
HasTools(t) == stage[t] \in {"running", "over"} /\ copy[t] # NoFact

RememberTool(t, k, x) ==
  /\ HasTools(t)
  /\ Pay("facts")
  /\ Remember(t, k, x)
  /\ UNCHANGED <<attachments, preparing, config, stage, up, urls, saved>>

RememberToolFails(t, k, x) ==
  /\ HasTools(t)
  /\ Pay("faults")
  /\ RememberFails(t, k, x)
  /\ UNCHANGED <<attachments, preparing, config, stage, up, urls, saved>>

\* The stream is over, or the handler leaves it at a failed tool while other
\* tools are at work.
Finish(t) ==
  /\ stage[t] = "running"
  /\ Goto(t, "over")
  /\ DropMemory(t) \/ UNCHANGED memories
  /\ UNCHANGED <<attachments, preparing, config, up, urls, saved, budget>>

ToolsEnd(t) ==
  /\ stage[t] = "over" /\ copy[t] # NoFact
  /\ DropMemory(t)
  /\ UNCHANGED <<attachments, preparing, config, stage, up, urls, saved, budget>>

Saved(c) ==
  /\ c # config
  /\ Pay("saves")
  /\ config' = c
  /\ saved' = [t \in Turns |->
       \/ saved[t]
       \/ /\ stage[t] \in {"files", "model", "backend"}
          /\ ReadConfig(c, ask[t].name) # ReadConfig(config, ask[t].name)]
  /\ UNCHANGED <<memories, attachments, preparing, stage, up, urls>>

Entry(p, previous) ==
  IF p = Nil THEN Nil
  ELSE [files |-> p.files, tools |-> p.tools,
        hitl |-> StoredApprovals(p.hitl, IF previous = Nil THEN [hitl |-> Nil] ELSE previous)]

\* a is created, updated, removed, or renamed to a free name b.
SaveAgent(a, b, p) ==
  /\ a # b => p # Nil /\ config.agents[a] # Nil /\ config.agents[b] = Nil
  /\ Saved([config EXCEPT !.agents =
               [@ EXCEPT ![a] = Nil, ![b] = Entry(p, config.agents[a])]])

SaveServer(s) ==
  Saved([config EXCEPT !.active = IF s \in @ THEN @ \ {s} ELSE @ \cup {s}])

UploadRequest(new) ==
  /\ Pay("uploads")
  /\ Upload(new) \/ (budget.faults > 0 /\ UploadFails(new))
  /\ UNCHANGED <<memories, preparing, config, stage, up, urls, saved>>

\* The process dies; turns and background uploads are gone.
Crash ==
  /\ Pay("faults")
  /\ stage' = [t \in Turns |-> IF stage[t] \in {"new", "refused", "over"} THEN stage[t] ELSE "lost"]
  /\ up' = [t \in Turns |-> <<>>] /\ urls' = up'
  /\ MemoryCrash({t \in Turns : HasTools(t)})
  /\ UNCHANGED <<attachments, preparing, config, saved>>

Next ==
  \/ \E t \in Turns, q \in Asks : ReceiveChat(t, q) \/ ReceiveResume(t, q)
  \/ \E t \in Turns : \E i \in DOMAIN up[t] : Posted(t, i) \/ Polled(t, i) \/ FileFails(t, i)
  \/ \E t \in Turns :
       \/ FilesReady(t) \/ ModelReady(t) \/ BackendReady(t) \/ SetupFails(t) \/ McpLoaded(t)
       \/ \E a \in Images : ImagePut(t, a) \/ ImageFails(t, a)
       \/ MessagesFail(t) \/ MessagesReady(t)
       \/ \E k \in FactKeys, x \in Texts : RememberTool(t, k, x) \/ RememberToolFails(t, k, x)
       \/ Finish(t) \/ ToolsEnd(t)
  \/ \E a, b \in Agents, p \in Saves : SaveAgent(a, b, p)
  \/ \E s \in Servers : SaveServer(s)
  \/ \E new \in FirstFiles : UploadRequest(new)
  \/ Crash

Spec == Init /\ [][Next]_vars

-----------------------------------------------------------------------------
(* Turns, files and memory hold values of the expected shapes.              *)
TypeOK ==
  /\ MemoryTypeOK /\ AttachmentsTypeOK
  /\ config \in File
  /\ stage \in [Turns -> Stages]
  /\ \A t \in Turns :
       /\ ask[t] \in {Nil} \cup Ask
       /\ seen[t] \in {Nil} \cup Config /\ conf[t] \in {Nil} \cup Config
       /\ bound[t] \subseteq Servers
       /\ \A i \in DOMAIN up[t] :
            up[t][i] \in [stage : {"posted", "polled", "ready", "failed"},
                         id : 0..Len(remote), polls : 0..MaxPolls]
       /\ \A a \in DOMAIN refs[t] : a \in Tokens /\ refs[t][a] \in DOMAIN remote
       /\ \A a \in DOMAIN urls[t] : a \in Images /\ urls[t][a] \in {"none", "local", "oss", "failed"}
  /\ agent \in [Turns -> [tools : SUBSET Tools, asks : SUBSET Tools]]
  /\ saved \in [Turns -> BOOLEAN]
  /\ budget \in Budget

Running(t) == stage[t] = "running"

(* The model is given what the user attached: the file-ids in the system    *)
(* block of a running turn are those of its documents and of no other file, *)
(* although uploads of all turns get their ids in any order, and the images *)
(* are where their addresses say.                                           *)
ModelGetsAttachments ==
  \A t \in Turns : Running(t) =>
    /\ {remote[refs[t][a]] : a \in DOMAIN refs[t] \cap Documents} = Docs(t)
    /\ \A a \in Pictures(t) : urls[t][a] = "oss" => a \in objects

(* What a running agent may do is what the configuration of its request     *)
(* says, unless that was saved while the turn was prepared: it has no tools *)
(* of a server that is switched off, and each tool that is listed for       *)
(* approval waits for a decision.                                           *)
ApprovalsHold ==
  \A t \in Turns : Running(t) /\ ~saved[t] =>
    LET a == seen[t].agent IN
    /\ agent[t].tools \cap Servers \subseteq seen[t].active
    /\ a.hitl # Nil /\ a.hitl.enabled /\ a.hitl.interruptOn = Nil /\ a.hitl.tools # Nil =>
         agent[t].tools \cap a.hitl.tools \subseteq agent[t].asks

(* apps/webui/src/pages/agents-config/agents/index.tsx:347, of the list of  *)
(* tools that need approval: if it is empty the runtime's default tools are *)
(* used.                                                                    *)
EmptyListMeansDefaults ==
  \A t \in Turns : Running(t) /\ ~saved[t] =>
    LET a == seen[t].agent IN
    a.hitl # Nil /\ a.hitl.enabled /\ a.hitl.interruptOn = Nil /\ a.hitl.tools = {} =>
      agent[t].tools \cap DefaultInterruptOn \subseteq agent[t].asks
=============================================================================
