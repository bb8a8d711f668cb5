CONSTANTS
  l = l
  a = a
  b = b
  NULL = NULL
  Sock <- MC_Sock
  Passive = {l}
  FastRx = {a}
  InitSocks <- MC_InitSocks
  MAX_STEPS = 2
  MAX_RX_STEPS = 1
  SHORT_LOOP_MAX = 2
  MAX_CHURN = 2
  AsyncOrder <- MC_AsyncOrder
  MAX_SIGNALS = 2
SPECIFICATION FairSpec
INVARIANT TypeOK WalkCursorsLive
PROPERTY ReadEventually AsyncHandled
