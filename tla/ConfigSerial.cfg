SPECIFICATION FairSpec
CONSTANTS
  r1 = r1
  r2 = r2
  r3 = r3
  None = None
  Missing = Missing
  Torn = Torn
  Names <- TwoNames
  BuiltinNames <- Builtins
  MaxActive = 1
  Requests = {r1, r2}
  Operations <- AllOperations
  InitialFiles <- FreshOrUsed
PROPERTIES ImplementsAtomic EveryRequestAnswered
CHECK_DEADLOCK FALSE
