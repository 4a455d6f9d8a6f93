SPECIFICATION Spec
CONSTANTS
  Nil = Nil
  Users = {"u1", "u2"}
  Conversations = {"c1", "c2", "c3", "c4", "c5"}
  Requests = {1, 2, 3, 4}
  InitialStores <- Stores
  Workloads <- PageWorkloads
INVARIANTS TypeOK ActiveIsListed ListedAreStored TreeOfActive OpenFormsAreAsked
CHECK_DEADLOCK FALSE
