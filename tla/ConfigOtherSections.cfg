SPECIFICATION Spec
CONSTANTS
  r1 = r1
  r2 = r2
  r3 = r3
  None = None
  Missing = Missing
  Torn = Torn
  Names <- TwoNames
  BuiltinNames <- Builtins
  MaxActive = 2
  Requests = {r1, r2}
  Operations <- ModelAndAgentWrites
  InitialFiles <- OnlyUsed
PROPERTY OnlyOwnSection
CHECK_DEADLOCK FALSE
