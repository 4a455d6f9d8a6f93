SPECIFICATION Spec
CONSTANTS
  Nil = Nil
  NoFact = NoFact
  Missing = Missing
  Torn = Torn
  Turns = {1, 2}
  Agents = {"solo", "twin1", "twin2"}
  FileOf <- SharedFile
  FactKeys = {"k1", "k2"}
  Texts = {"x", "y"}
  Servers = {"server"}
  Images = {"image"}
  Documents = {"doc1", "doc2"}
  Env = {"local", "oss", "nokey"}
  MaxPolls = 2
  Asks <- SomeAsks
  Saves <- SomeSaves
  FirstConfig <- SomeConfigs
  FirstFiles <- SomeFiles
  Workloads <- TurnWorkloads
INVARIANTS TypeOK ModelGetsAttachments ApprovalsHold RememberedFactsStay
CHECK_DEADLOCK FALSE
