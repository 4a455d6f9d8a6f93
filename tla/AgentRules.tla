------------------------------ MODULE AgentRules ------------------------------
(***************************************************************************)
(* What createAgent makes of an agent's entry in the configuration file:   *)
(* the tools it loads and those it asks a human about.                     *)
(*                                                                         *)
(* An MCP server stands for the tools it offers; of the builtin tools one  *)
(* stands for each way they are loaded.                                    *)
(***************************************************************************)
EXTENDS FiniteSets

CONSTANTS
  Servers,  \* MCP servers that an agent may be bound to
  Nil

Optional == "Calculator"
\* Loaded for every agent; the two sandbox tools are dangerous.
AlwaysLoaded == {"sandbox_shell", "sandbox_file", "SendEmail"}
\* DEFAULT_INTERRUPT_ON_TOOLS, without the tools that DeepAgents brings.
DefaultInterruptOn == {"sandbox_shell", "sandbox_file"}
Tools == {Optional} \cup AlwaysLoaded \cup Servers

ASSUME RulesAssumption == Servers \cap ({Optional} \cup AlwaysLoaded) = {}

\* humanInTheLoop of an entry.  The services store a list of tools and never
\* interruptOn; a file written by hand may have either or neither.
Approvals == [enabled : BOOLEAN, interruptOn : {Nil} \cup SUBSET Tools,
              tools : {Nil} \cup SUBSET Tools]
Agent == [files : BOOLEAN,  \* supportsBailianFileId of the agent's model
          tools : {Nil} \cup SUBSET ({Optional} \cup Servers),
          hitl : {Nil} \cup Approvals]
\* agent is Nil if readConfigByAgentName finds no agent or no model of its.
Config == [agent : {Nil} \cup Agent, active : SUBSET Servers]

\* resolveToolsEnable; the handlers pass no flags of their own.
ToolsEnabled(a) ==
  AlwaysLoaded \cup (IF a.tools = Nil \/ Optional \in a.tools THEN {Optional} ELSE {})

\* Defect: servers that are switched off are not skipped.
BindingsOfAll(c) ==
  IF c.agent = Nil \/ c.agent.tools = Nil THEN {} ELSE c.agent.tools \cap Servers
\* listMcpBindingsForAgent.
McpBindings(c) ==
  IF c.agent = Nil \/ c.agent.tools = Nil THEN {}
  ELSE c.agent.tools \cap Servers \cap c.active

\* Defect: a list of tools is not looked at.
ResolveDefaultsOnly(a) ==
  IF a.hitl = Nil \/ ~a.hitl.enabled THEN {}
  ELSE IF a.hitl.interruptOn # Nil THEN a.hitl.interruptOn ELSE DefaultInterruptOn
\* resolveHumanInLoop: the tools whose calls wait for a decision.
ResolveHumanInLoop(a) ==
  IF a.hitl = Nil \/ ~a.hitl.enabled THEN {}
  ELSE IF a.hitl.interruptOn # Nil THEN a.hitl.interruptOn
  ELSE IF a.hitl.tools # Nil THEN a.hitl.tools
  ELSE DefaultInterruptOn

\* AgentsService.update as far as approvals go: a payload has a list, or has no
\* humanInTheLoop and keeps what is stored.
StoredApprovals(payload, previous) ==
  IF payload = Nil THEN previous.hitl
  ELSE [enabled |-> payload.enabled, interruptOn |-> Nil, tools |-> payload.tools]
=============================================================================
