CONSTANTS
  p1 = p1
  p2 = p2
  r1 = r1
  r2 = r2
  r3 = r3
  x = x
  y = y
  i1 = i1
  o1 = o1
  o2 = o2
  c1 = c1
  c2 = c2
  None = None
  IdBits = 2
  Proto <- MC_Proto
  Req <- MC_Req2
  Addr <- MC_Addr
  ReqAddr <- MC_ReqAddr2
  Accepts <- MC_Accepts2
  IfaceOf <- MC_IfaceOf
  Opts <- MC_Opts
  Cfg <- MC_Cfg
SPECIFICATION FairSpec
INVARIANT TypeOK IfaceRefCount RequestPlacement NoAcceptedParked NoEmptySession LocIdsUnique GetFreeIdCorrect
PROPERTY WalksFinish
