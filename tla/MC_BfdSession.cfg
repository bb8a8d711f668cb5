CONSTANTS
  a = a
  b = b
  Node <- MC_Node
  NoId = NoId
  Interval = {2, 3}
  Configs <- MC_Configs
  InitCf <- MC_InitCf
  Reconfigurable = {a}
  MaxInFlight = 1
  Duplicates = FALSE
SPECIFICATION Spec
INVARIANT TypeOK IntervalOrder PassiveSilent
PROPERTY PostponedUntilFinal ImplementsRFC
