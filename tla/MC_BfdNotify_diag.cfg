CONSTANTS
  x = x
  r1 = r1
  r2 = r2
  None = None
  Addr <- MC_Addr
  Req <- MC_Req
  ReqAddr <- MC_ReqAddr
SPECIFICATION Spec
INVARIANT DeliveredWithDiag
