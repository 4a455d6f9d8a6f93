SPECIFICATION Spec
CONSTANTS
  r1 = r1
  r2 = r2
  r3 = r3
  None = None
  Missing = Missing
  Torn = Torn
  Names <- TwoNames
  BuiltinNames <- Builtins
  MaxActive = 3
  Requests = {r1, r2, r3}
  Operations <- RacingOperations
  InitialFiles <- FreshOrUsed
SYMMETRY Symmetry
INVARIANTS TypeOK FileNeverTorn ModelNamesUnambiguous NoPhantomEntries NoStrayTemp
CHECK_DEADLOCK FALSE
