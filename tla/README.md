# BloomsClaw in TLA+

BloomsClaw is a multi-agent chat system: a NestJS API (`apps/api`), a React
page (`apps/webui`), an agent library over DeepAgents and LangGraph
(`packages/agent-core`), and one Docker container per conversation in which the
agent's file and shell tools run (`sandbox`). All of its state is in files under
`~/.blooms_claw`, in docker, in the browser, and in the memory of one Node
process.

What is hard about it is not computation. It is a single-threaded process whose
handlers are interleaved at every `await`, that keeps whole files in memory
across those awaits, shares containers by name, keeps directories in step with
entries of a file by hand, turns an event stream into two records that must
agree, and may die at any moment; and a page for which every answer of the API
comes later than the next click. That is what these modules are about.

## The system

| Component | State | Operations | Works with |
|---|---|---|---|
| `ConfigFileService` (shared) | one JSON file per user: agents, models, tools, skills | read (creating a missing file), write by temporary file and rename | used by the services below and, read-only, by agent-core |
| `AgentsService`, `ModelsService`, `ToolsService` | none | list, get, create, update, remove: read the root, check, write the whole root; a custom tool is probed at its MCP server first | configuration file, MCP servers |
| `SkillsService` | a directory per skill, temporary directories | install (npx in a temporary directory, copy, entry), update, remove | configuration file, npx |
| `ModelsLangchainController` | none between requests | chat turn, resume after an interrupt, history, attachments, workspace | everything below |
| `ModelsAttachmentsService` | uploaded files, their metadata files | upload, copies for the model in an object store and a file service | controller, two remote services |
| `ModelsChatHistoryService` | one JSON file per conversation | record, append, finalise, list, delete; merges what the checkpoint remembers | controller, checkpoint files (read) |
| `FileSaver` | LangGraph checkpoint of one conversation, in memory and in a file | load at construction, save whole on every put | one per request, made by `createAgent` |
| `createAgent` (agent-core) | sandbox backend, checkpointer, tools, approvals and memory of a turn | create, stream, close, pending interrupts, resume command | controller, configuration file, docker, MCP servers |
| `LongTermMemoryStore` | one JSON file per agent, or per several whose names make the same file name, and a copy in each turn | load, remember, recall | the tools of a turn |
| skill tools | index of a turn | index in the prompt, `load_skill`, `read_skill_resource` | configuration file, skill directories |
| `DockerSandboxBackend` | `ensured`, `apiBaseUrl` | ensure, request, close | docker; the container is shared by name |
| `ModelsWorkspaceService` | one cached backend per conversation | tree, file | docker |
| chatbot page | session, conversations, drafts, messages, pending form, one request at a time, panel | send, resume, abort, restore, switch, create and remove conversations | streaming endpoints, history, workspace |
| accounts, e-mail tool, sandbox service, demo MCP server, configuration pages | files of their own, or none | see "Not modelled" | |

What makes each of them correct, in one line:

- configuration: the file is always whole, what a refused request wanted is not
  in it, lookups by name are unambiguous, and without competition every
  operation is atomic;
- skills: entry and directory of a skill agree after every operation that
  succeeds alone, what was switched off stays off, an agent reads one version;
- a request becoming a turn: the model is given the files of its own request,
  the agent has the tools and approvals of its configuration, and what it was
  told to remember is remembered;
- a turn: one end per response, history and page agree on it, no interrupt is
  overlooked, no failed tool looks successful, the agent is always released;
- a conversation on disk: answered turns are remembered, an approved call runs
  once, a waiting conversation can be resumed, a damaged checkpoint is not
  silently replaced;
- the container: a request goes to the current container, and one that is left
  behind was left by a failure with a name;
- the page: it shows conversations that exist and belong to the user, the files
  of the one on show, and forms that somebody waits for.

## Modules

| Module | Models | Source |
|---|---|---|
| `ConfigRules` | contents of the configuration and the rules of the services, as pure operators | `agents.service.ts`, `models.service.ts`, `tools.service.ts` |
| `ConfigStore` (extends it) | the file, temporary files and requests | `config-file.service.ts` and the same services |
| `AtomicConfig` | abstract specification: atomic operations on one configuration | |
| `SkillsStore` | entries, directories, installations and an agent's skill tools | `skills.service.ts`, `readConfig.ts`, `tools/skills.ts` |
| `AgentRules` | tools and approvals of an agent, as pure operators | `agent-core/src/index.ts`, `readConfig.ts`, `tools/mcp.ts` |
| `Attachments` | uploaded files, their metadata and remote copies | `models.attachments.service.ts` |
| `AgentMemory` | the memory file and the copies of turns | `tools/memory.ts` |
| `AgentTurn` (composes these three) | a request up to the running agent, and what it remembers | `models.langchain.controller.ts`, `agent-core/src/index.ts` |
| `ChatTurn` | one turn: handler, agent events, history message, response, page | `models.langchain.controller.ts`, `models.chat-history.service.ts`, `pages/chatbot` |
| `ChatThread` | the two files of one conversation under several requests | `FileSaver.ts`, `models.chat-history.service.ts`, `agent-core/src/index.ts` |
| `ChatPage` | the page with several conversations and sessions, and the API it asks | `pages/chatbot`, `userSession.ts`, controller and history |
| `SandboxContainer` | the container of one conversation and the backends that share it | `sandbox.ts`, `models.workspace.service.ts` |
| `MCConfigStore`, `MCSkillsStore`, `MCAgentTurn`, `MCChatTurn`, `MCChatThread`, `MCChatPage`, `MCSandboxContainer` | the constants of the instances for TLC | |
| `ConfigStoreProofs`, `ConfigAtomicProofs`, `SkillsStoreProofs`, `AgentTurnProofs`, `ChatTurnProofs`, `ChatThreadProofs`, `ChatPageProofs`, `SandboxContainerProofs` | theorems about the module they are named after | |

Some modules hold operators marked *Defect*, each before the definition it
varies. They are no part of the specification; each is a plausible bug that one
of the properties detects when it takes the definition's place.

A turn is looked at from five sides, each with the interleavings that matter to
it: `AgentTurn` has a request until its agent runs, `ChatTurn` the events of one
turn, `ChatThread` the files of a conversation under several requests and no
events, `SandboxContainer` their container, `ChatPage` the browser. What one of
them has in detail is one step or one choice in the others.

### ConfigStore and ConfigRules

An operation is `readConfig`, a synchronous stretch of checks, perhaps a probe,
and `writeConfig`. `pc[r]` says between which two awaits a request is, `snap[r]`
is the root it read, `tmp[r]` its `<path>.<uuid>.tmp`. `ReadRoot` is `readFile`
and `JSON.parse`; a missing file sends the request through `OpenTemp`,
`FillInitTemp` and `RenameInit`, after which it goes on with the defaults and
not with what is on disk. `Check` is the 404/409 logic (`Verdict`), `Probe...`
is `fetchRemoteTools` with its timer, `FillTemp` computes the new root from the
snapshot (`Rewrite`), `Rename` replaces the file. `WriteFails` is a rejected
`writeFile` or `rename`, `Crash` the death of the process.

A configuration maps names to entries. Entries keep what the rules look at: an
agent's approval policy (kept by an update that omits it), a model's stored
name (which may differ from its key in a file written by hand), a tool's
`builtin` and `active` flags. `Targets` is a set because an ambiguous name
would let either entry be replaced. The `skills` section has its own module.

### SkillsStore

`entries` is the section `skills` of the file, `dir[n]` the directory of skill
`n` (which version its `SKILL.md` and its resource file are of), `temp` the
temporary directories. An installation goes through `cli` (npx, `Unpack`),
`read` (`ReadConfig`), and for each document of the package `sync` (the old
directory goes, `Clear`, or an entry without a usable flag ends the installation
there, `Unreadable`) and `copy` (file by file, then the entry in `nextSkills`, `Note`); then `write`
and the `finally` clause (`Cleanup`). A removal takes the directory (`rm`) and
then the entry, an update only the entry. `Fails` is any of these calls
throwing, the removal of a directory perhaps half way (`ClearPartly`), and
`CleanupFails` the `rm` of the `finally` clause: the directory stays (`stuck`)
and the installation is answered as an error, also when all of it was done.
`Crash` loses requests and turns and keeps the disk. Reading and replacing the file are atomic here, which
`ConfigStore` justifies.

`agent` is one turn: the index built from the enabled entries
(`BuildIndex`), and the versions that `load_skill` and `read_skill_resource`
gave it (`LoadSkill`). `clean[n]` is a history variable: the last operation on
`n` succeeded, with no other request beside it.

### AgentTurn, AgentRules, Attachments, AgentMemory

`ReceiveChat` is `streamChat` up to its first await: resolve the tokens, refuse
or hang on bad input, read the configuration (`seen`), start all document
uploads. `Posted`, `Polled`, `FileFails` are `uploadAttachmentToBailian` and its
polls, which go on although the turn may be over, as `Promise.all` does not
cancel. `FilesReady` is the entry of `createAgent`, which reads the configuration
again (`conf`); `ModelReady`, `BackendReady` (the servers are read from the
configuration a third time: `bound`), `McpLoaded` (servers that do not answer
are skipped) and `SetupFails` are its awaits. `ImagePut` and `ImageFails` are
the image uploads of `buildModelMessages`, `MessagesFail` and `MessagesReady` its
end. `SaveAgent` and `SaveServer` are the configuration pages at any moment: they
create, change, rename and remove agents, and a turn reads the agent its request
names (`ReadConfig`).

`AgentRules` keeps of the tools one for each way they are loaded; approvals are
`resolveHumanInLoop`. In `Attachments` the metadata of a file are none, torn,
plain, or with an object-store address. `AgentMemory` has the JSON
files and the copy each turn loads when its tools are made. A file belongs to a
name after `safeSegment` (`FileOf`), which makes one of all names of the same
length outside ASCII. `remember` changes the copy and rewrites the whole file from
it; a write that fails leaves the file as it was or torn, and the copy with the
record in both cases. A turn that was closed while its tools were at work may still
remember (`HasTools`, `ToolsEnd`). `told`, `tried` and `stale` are history
variables: what was reported as saved, what failed to be saved since, and the
turns whose copy is older than the file.

### ChatTurn

The handler's stages are `record` (history), `prepare`, `create`, `compose`
(the calls before the stream), `stream`, `closing`, `lookup`
(`getPendingInterrupts`), `finWaiting`/`finDone`, `catch`, `close` (`finally`).
One action per event kind of `consumeAgentStream`; `Emit` writes each chunk and
records it, and may fail between the two. `pending` is the graph's own view: it
waits for an answer. Tool errors come as real failures (`ToolFails`), real
interrupts or failures whose text is mistaken for one (`ToolInterrupts`).
`ui` is the page's copy of the message: status, whether the form is shown,
whether a request is running. `Reload` is `toRestoredChatMessage`.

Step keys stand for classes of steps: one for each tool call, one each for
reasoning, plan, answer and interrupt. Message texts are not modelled.
`RecordChat` and `RecordResume` write a request into the history before the
agent exists.

### ChatThread

A request is reduced to what it does to the two files: `Record`, `Open` (load
the checkpoint), `Progress`, `Pause`, `Execute` and `SaveResult`,
`AnswerTurn`, `Finalize`. The checkpoint is the set of answered turns and the
turn it is paused at; the history maps requests to message states. Both may be
torn by a crash, the checkpoint also by a save that throws (`SaveFails`), after
which the request has what it meant to save in its memory and may save again
(`SaveAgain`) or end. Requests overlap when a page aborts a turn (the API goes on)
and sends the next, or when two pages show the conversation.

### ChatPage

`stored` and `asks` are what the API holds of each conversation: its messages,
and the message whose interrupt the graph waits on. `req` are the chat and
resume requests with the place on the page where their chunks go (`key`,
`msg`). The rest is the page's: `list` (sidebar), `drafts`, `view`
(`messageMap`), `active`, `resolved`, the answers being read (`reading`),
`isRequesting` (`requesting`) and what the rendered form believes of it (`ready`:
the memo of the messages is not renewed when `isRequesting` changes), the one
request that the stop button reaches (`stop`), the history request of the session (`load`), deletions under way (`removals`, each
with the `activeKey` that its closure saw), and the workspace panel (`tree`,
`fetches`).

`SendMessage`, `SubmitForm`, `ChunkArrives`, `FinishReading`, `Abort`,
`ConnectionLost` are the page's side of a request, `RequestStarts`, `RequestEnds`
and `ErrorMisread` (a tool error answered as an interrupt that nobody asked) the
API's: it goes on whatever the page does. `RemoveConversation`, `RemovalServed` and
`RemovalDone` are the deletion with its two delays, `RemovalLost` its catch clause,
after which the deletion may be done or not, `TakeOff` the rest of
`removeConversation`; `SetSession` is `subscribeUserChange`, `LoadServed`,
`LoadArrives` and `LoadFails` the history of a session; `TreeArrives` and
`TreeFails` end a refresh of the panel. `crossed`, `midway`, `skipped`, `phantoms`
and `missed` are history variables that record the causes after which the code
promises less (see the properties' comments).

### SandboxContainer

One container name, the backends of turns and those of the panel. Each call of a
backend is a process of its own (`on`, `stage`, `port`), as the tool calls of a turn run
in parallel and `ensure()` has no lock: two inspections, port lookup, `docker run`,
port lookup, health check, with an await between what docker answers and what the
backend stores of it. `life` is the backend's: being created, ready, used, closing
(`docker stop` is under way), closed. An agent may be closed while its tools are at
work (`loose`), and their next call then starts a container again. A stopped
container keeps its name until docker has removed it, so `docker run` can fail in
between. Ports stand for addresses and may be given out again. `starter` and `left`
are history variables: the backend that started the container, and whether it
can no longer stop it.

## Runs

| Run | Instance | Shows |
|---|---|---|
| `ConfigRaces` | 3 overlapping requests, 6 operations that disturb each other, fresh or used file | `FileNeverTorn`, `ModelNamesUnambiguous`, `NoPhantomEntries`, `NoStrayTemp` |
| `ConfigSerial` | 2 requests one at a time, every operation and payload class, with fairness | `ImplementsAtomic` (refinement of `AtomicConfig`), `EveryRequestAnswered` |
| `SkillInstalls` | 3 requests, 2 at once, 2 skills, 1 failing file operation or clean-up, 1 crash, 1 turn | `SettledSkillsAgree`, `TurnSeesOneVersion`, `TempDirsGo`, `SwitchedOffStaysOff` |
| `AgentTurns` | 2 turns, 3 agents of which 2 share a memory file, an image and two documents, one server, and one of 8 mixes of uploads, saves, facts and faults | `ModelGetsAttachments`, `ApprovalsHold`, `RememberedFactsStay` |
| `ChatTurns` | 1 turn with 4 events, or 2 turns with 3 events and a failing write; 2 tools; with fairness | `EndsOnce`, `PageAgreesWithHistory`, `SettledSteps`, `InterruptsSurface`, `FormsAreAnswerable`, `NoFalseSuccess`, `AgentReleased`, `EndReachesPage` |
| `Threads` | 4 requests one at a time with 2 crashes and a deletion, or with a crash and a failing save; 3 of which 2 at once with a crash and a deletion, or with a failing save | `HistoryKeepsAnswers`, `RememberedWhenAlone`, `ApprovedRunsOnce`, `WaitingIsPending`, `TornCheckpointKept` |
| `Page` | 2 users, 5 ids, up to 4 requests, and one of 10 mixes of sends, moves, removals, logins and mishaps (an answer lost, a tree that fails, an error misread) | `ActiveIsListed`, `ListedAreStored`, `TreeOfActive`, `OpenFormsAreAsked` |
| `Sandboxes` | 2 calls at once: 1 backend with 5 calls, 2 deaths, 1 docker failure, 1 dropped agent; 2 turns and the panel, or 1 turn and two panel backends, with 4 calls, 1 failure, 1 death | `AddressIsCurrent`, `ReadyHasAddress`, `ContainersAreTemporary` |

Each also checks the `TypeOK` of its module, `ConfigSerial` excepted, whose
actions are those of `ConfigRaces`. Four runs end in a counterexample, each of
a statement the repository makes:

| Run | Statement | What happens |
|---|---|---|
| `ConfigOtherSections` | `OnlyOwnSection`, from the agents design document | two requests read the same root; the one that stores last takes back the other's change in another section |
| `ConfigBuiltins` | `BuiltinToolsStayOn`, from the comment at `tools.service.ts:430` | a custom tool stored under a builtin name with `active` 0 shadows the builtin tool |
| `ChatReload` | `InterruptsSurviveReload`, from `README.md:24` | the form is stored inside a code fence and does not parse back |
| `ApprovalDefaults` | `EmptyListMeansDefaults`, from the form at `agents-config/agents/index.tsx:347` | approvals that are on with an empty list of tools ask about no tool at all |

Several properties name causes after which the code promises nothing, and the
runs reach the states beyond them:

- The creation of a missing configuration file loses updates in the same way as
  `ConfigOtherSections`: the request that decided that there is no file
  replaces, with the defaults, whatever others have stored by then.
- Two `FileSaver`s of one conversation: the one that saves last drops the
  other's answer (`RememberedWhenAlone`, `ApprovedRunsOnce` and
  `WaitingIsPending` are stated until requests overlap).
- The save of one of two overlapping requests fails half way, after the other has
  read the history: that one loads the torn checkpoint as an empty memory and
  replaces it (`TornCheckpointKept` is stated for requests in a row, and for
  overlapping ones while no save has failed).
- Two turns hold copies of the same memory file, of one agent or of two that share
  it, and each rewrites all of it: a turn with the older copy takes back what was
  saved since (`RememberedFactsStay`, until such a turn saves).
- When the panel's backend has seen a container and a turn's end has stopped it,
  the next turn starts a new one at another port; the panel then trusts its old
  address, because a container of that name runs. `AddressIsCurrent` is stated
  for a backend that has the container to itself. Even that one may keep a wrong
  address after a second death, when a parallel call stores what docker said before.
  A turn that begins while the last one's container is being removed fails at
  `docker run`.
- A container outlives its turn when docker failed it, when its agent could not be
  built, when the process restarted, and when the agent was closed, at an interrupt
  of one tool, before another tool's call started the container. The
  panel's containers stay until the process ends. `ContainersAreTemporary` says
  that there is no other cause.
- A temporary directory stays when removing it fails (`TempDirsGo`).
- A removal goes on with the active conversation of the render that started it,
  so it may leave the page at a conversation that is gone (`crossed`), and the
  tree that arrives last is shown, whichever was asked for last (`midway`). A
  tree that cannot be read leaves the old one (`missed`), and a removal that
  was done and answered by an error leaves its conversation in the sidebar until the
  next session (`phantoms`).
- A resume is folded into the first waiting message of the conversation, a
  message sent past a form makes the graph give the form's interrupt up, an answer
  can be sent twice from a form that was rendered before the first was, and a tool
  error taken for an interrupt shows a form that nobody waits for (`skipped`).

### Bounds and why they are enough

Each module with several scarce resources takes its bounds from a set of
`Workloads`: a behaviour is in one of them, so that a run has, say, long turns
without crashes and short ones with them, and not the product of all.

- *Configuration.* Two names suffice for every rule: a name and its rename
  target, a key and a different stored name, a builtin and a custom tool. Three
  requests let one overtake the snapshots of two others; the serial run takes
  every operation. The theorems below hold without any bound.
- *Skills.* Two skills, a version with and one without a resource file, packages
  of one, of both, of the same twice, and an empty one. Two requests at once
  overlap at every await, the third meets what they left.
- *Turn preparation.* Two turns upload at once; two documents come in either
  order and one may be missing; `MaxPolls` is 2 where the code has 10, so that
  the last poll and the ones before it differ. A save may come between any two
  of the three reads. Three agents are one with a file of its own and two that
  share one; two facts let one be told before and one after a failing write.
- *Turns.* Two turns are needed for interrupt and answer; four events allow two
  tools to start and fail or interrupt in either order, with reasoning or
  answer text in between. One failing history write reaches each place a write can
  fail.
- *Threads.* Overlap needs two requests and a third that meets the result.
  Two crashes tear both files; after a deletion the remaining requests start anew.
  One failing save meets every stage at which there is something to save.
- *Page.* Every property needs at most three of the page's own actions between a call
  and its answer; a mix for each combination of sends, moves, removals, logins and losses
  that can meet at one of the late answers.
- *Container.* Two ports distinguish an old from a current address; two calls at
  once meet in every pair of stages of `ensure()`, and five cover the creation and
  two rounds of parallel tool calls, or a turn and the next one.

Symmetry is used only in runs without liveness properties; the action
properties among them (`TornCheckpointKept`, `SwitchedOffStaysOff`) look at one
step and are symmetric in the requests. Deadlock is not checked: requests,
events and calls are bounded, so every instance ends.

### Fairness

`ConfigStore!FairSpec`: weak fairness of each request's own steps, because the
event loop runs every continuation and the file system completes every call,
and of `ProbeTimesOut`, because the timer of `withTimeout` fires. Nothing is
assumed of an MCP server. `ChatTurn!FairSpec`: weak fairness of the handler
after the stream and of the page's reader. Nothing is assumed of the agent,
the model provider or the user; hence `EndReachesPage` starts when the stream is over.

## Proofs

Every theorem holds for all values of the constants that satisfy the modules'
assumptions: any number of requests, conversations, crashes, failures.

| Module | Theorem | Property |
|---|---|---|
| `ConfigStoreProofs` | `TypeCorrect` | `TypeOK` |
| | `NeverTorn` | `FileNeverTorn` |
| | `NamesStayUnambiguous` | `ModelNamesUnambiguous` |
| | `EntriesHaveOrigins` | `NoPhantomEntries` |
| | `TempsAreRemoved` | `NoStrayTemp` |
| `ConfigAtomicProofs` | `SerialIsAtomic` | `ImplementsAtomic`, for `MaxActive = 1` and finitely many requests |
| `SkillsStoreProofs` | `TypeCorrect` | `TypeOK` |
| | `OperationsRepair` | `SettledSkillsAgree` |
| | `OneVersionPerTurn` | `TurnSeesOneVersion` |
| | `InstallationsTidyUp` | `TempDirsGo` |
| | `OffStaysOff` | `SwitchedOffStaysOff` |
| `AgentTurnProofs` | `TypeCorrect` | `TypeOK` |
| | `OwnAttachmentsReachTheModel` | `ModelGetsAttachments` |
| | `AgentFitsRequest` | `ApprovalsHold` |
| | `FactsStay` | `RememberedFactsStay` |
| `ChatTurnProofs` | `TypeCorrect` | `TypeOK` |
| | `ResponsesEndOnce` | `EndsOnce` |
| | `PageAndHistoryAgree` | `PageAgreesWithHistory` |
| | `FinishedStepsSettle` | `SettledSteps` |
| | `NoInterruptOverlooked` | `InterruptsSurface` |
| | `FormsCanBeAnswered` | `FormsAreAnswerable` |
| | `FailuresShow` | `NoFalseSuccess` |
| | `AgentIsReleased` | `AgentReleased` |
| `ChatThreadProofs` | `TypeCorrect` | `TypeOK` |
| | `TornIsKept` | `TornCheckpointKept` |
| | `FinishedStay` | `HistoryKeepsAnswers` |
| | `AnswersStay` | `RememberedWhenAlone` |
| | `ApprovedOnce` | `ApprovedRunsOnce` |
| | `WaitingCanResume` | `WaitingIsPending` |
| `ChatPageProofs` | `TypeCorrect` | `TypeOK` |
| | `ActiveStaysListed` | `ActiveIsListed` |
| | `PanelFollowsActive` | `TreeOfActive` |
| | `ListedStayStored` | `ListedAreStored` |
| | `FormsStayAsked` | `OpenFormsAreAsked` |
| `SandboxContainerProofs` | `TypeCorrect` | `TypeOK` |
| | `AddressKnown` | `ReadyHasAddress` |
| | `ContainersAreInUse` | `ContainersAreTemporary` |
| | `AddressStaysCurrent` | `AddressIsCurrent` |

The assumptions are named in the module that declares the constants: builtin
names are names, operations are well formed as the validators leave them,
markers such as "no file" are neither values of what they mark nor identifiers, a configuration that
exists at the start is unambiguous (one written by the services is; one written
by hand must be), the sets of backends are finite, a conversation id is
left to be made up.

Hardly any of the properties is inductive. The arguments:

- *Configuration.* A write is computed from a snapshot that may be stale, so what
  is true of the file must already be true of every root a request holds. `IInv`
  says so: `StageInv` ties the temporary file to the stage (whole before its
  rename, absent elsewhere unless the request failed or was lost) and says that
  a request past `Check` was accepted; `NamesInv` has every snapshot and every
  whole temporary file unambiguous; `OriginsInv` has each of their entries
  explained, with one exception: a temporary file may hold the entry of its own
  request, which the rename commits (`OwnEntry`, `RewriteOrigins`). Why a
  conflict check on a stale snapshot is enough for names is in the lemmas on
  `Rewrite`: the new root is the snapshot with one entry, so its names can only
  clash within the snapshot, and `Verdict` has excluded that.
- *Refinement.* On top of `IInv`, `Alone` (at most one request is active) and
  `FreshInv` (what that request read is what the file holds) make the rename of
  a temporary file the atomic step; every other step is a stutter, or the moment
  an outcome is settled.
- *Skills.* `StageInv` fixes a request's locals by its stage. `TempInv`: whoever has
  a temporary directory is an installation under way, or could not remove it. `AloneInv` and
  `FreshInv`: a request nobody works beside has read the entries as they are, and
  what it will write switches on only what it was asked to. `OrderInv` follows
  such a request document by document (`Fits`): what it will write agrees with
  the entry of every skill that is in order, the documents before the one at hand
  are copied and noted (`Made`), that one as far as its copy has come (`Partly`);
  the rename of the file then puts all of them in order at once. That needs
  the package to name each skill once (`Distinct`), which is where `clean`, the
  history variable, says a skill is in order. `ReadInv`: a directory untouched
  since the turn began is gone and unread, or whole and read in one version.
- *Turn preparation.* `PreparedInv` says at each stage which configuration the
  turn's parts come from, and that they are one configuration as long as
  nothing was saved; `ToldInv` that what was told is in the memory file and in every copy of it
  that is not older, or has a value there that failed to be saved since: whichever
  turn saves next, the file keeps it. `FilesInv` gives every remote id one document for good
  (`IdsKeep`), an upload the id of the document at its place among the attachments
  (`UploadsFit`), and a prepared turn the ids of its own documents (`RefsFit`),
  although uploads of both turns go on in any order; `ImagesInv` does so for the
  addresses of images, which also come from metadata written by an earlier turn.
- *Conversation.* `WorkersRead`: who works on a conversation has found a whole
  checkpoint, unless its own save tore it, and the history's read is what refuses a
  torn one; that holds of requests in a row, and of overlapping ones until a save
  fails. `FinishedInv`
  follows settled messages through rewrites; `OneAtWork` and `MemoryInv`
  (`UnpausedInv`, `OnceInv`, `WaitersInv`, `PendingInv`) say what the one request
  at work has in memory beside what is on disk.
- *Page.* `ListedInv`: a removal under way was asked for at the conversation on
  show, is the only one, and no history can come under it. `PanelInv`: every tree
  still to come is of the conversation on show, and if none is, the panel has it or the
  last one failed. `BackedInv`: what is listed is
  held, about to be, or its removal has been served (with an answer or without), and the API still holds what
  a history on its way has. `FormsInv` follows a form from the response that
  opens it to the answer that closes it (`Kept`): at most one request may still
  change the conversation (`BusyIn`) and at most one form is open in it; a busy request
  beside an open form is the followed answer to it; an open form that is not being
  answered, and one the page is about to open, has its interrupt in the graph,
  unless the conversation is being removed. It breaks exactly where `skipped` is set.
- *Turn.* `OpenInv`: the stage of the handler tells whether an agent is open.
  `EndingInv`: up to a stage nothing has ended the response, and the only way to a
  second end is a history write that fails after the first was sent.
  `MessageInv`: at each stage, what the message in the history can be, and that the
  error of a failed tool is in it unless a write failed. `PageInv` relates the
  page to chunks it has yet to read: the last chunk on the wire, or else the page's
  own status, is what the message became, and a form is shown only if the graph or a
  mistaken error asks. A read of the page moves the last chunk from one side of
  that relation to the other.
- *Container.* `Single`: a backend that is being created has one call.
  `AddressInv` ties address, answer of docker and stage of every call; `KeeperInv` gives
  every running container its keeper or its cause (of a backend that is being
  created, only while its call still `Follows` that container); `CurrentInv` follows
  the address of the only backend and what its parallel calls are about to store:
  before the death they all take the early return, after it those that look up a
  port look at the one new container.

Some definitions have the form they have because a proof has to reason about
them. `ChatTurn!Recorded`, what the history's fold over a list of chunks leaves
of a message, is given by the last chunk for each step (`StepsFor`, `Latest`) and
not by a recursion; `AgentTurn` indexes uploads by the place of the document
among the attachments (`DocPlaces`) and not by a filtered list. The lemmas that
proofs keep citing are `AddLast`, `PlainSteps` and `NoToolSteps` (what appending to
the wire and folding chunks changes), `IdsStay` and `PostKeeps` (ids), `MadeKept`
(documents), `TakeOffForms`, `ResponseFolded` and `RequestServed` (the page),
`RewriteOrigins` (configuration).

Every invariant and action property that a passing run checks is a theorem.
Model-checked only is liveness (`EveryRequestAnswered`, `EndReachesPage`):
fairness is outside what the prover handles. The inductive invariants above were
checked on the instances of the runs before they were proved.

## Not modelled

- *Merge of checkpoint steps into the history* (`models.chat-history.service.ts`,
  by position): the graph awaits the delivery of its events, so the checkpoint
  never knows more steps of the running turn than the history does. After a
  resume, messages of earlier turns may be touched; that takes the messages and steps
  of a whole conversation.
- *The history of all conversations beside a torn checkpoint*:
  `GET /models-streaming/history` reads all of them and fails if one is torn. In
  `ChatPage` the answer may fail for any reason, in `ChatThread` there is one
  conversation.
- *MCP connection of a call* (`tools/mcp.ts`): opened and closed within the call.
- *Vector layer of the long-term memory*: it ranks records of the same copy.
- *Agent selection, composer and layout of the chatbot page*; the tree that
  the workspace service builds, its fallback to the host's directory and the download
  of files: reads without state.
- *Signature and names in the object store, and the header that a masked key would
  send*: in the model a request to a remote service succeeds or fails.
- *Accounts, sandbox service, e-mail tool, demo MCP server*: each a single
  exchange, or synchronous stretches on a file of its own, with nothing that
  interleaves.
- *WebUI configuration pages and shell, design system, skills data, deployment*: forms over
  the REST API, the Ant Design Pro template with its mocks and demo pages, third-party
  data and scripts. They are most of the repository's lines and keep no state
  that a property could be about.

## Plan

Done, in this order: the configuration services with their proofs; the chat
turn; the conversation on disk; the container; skills; the page with several
conversations; a request becoming a turn, with attachments, approvals and
memory; the refinement proof and the proofs of every safety property that the
runs check.

Left: the messages and steps of a whole conversation with the merge from the
checkpoint, and several conversations beside a torn one; what two resumes of one
interrupt do beside each other; properties of `AtomicConfig` itself, which the
refinement would carry over to the services.
