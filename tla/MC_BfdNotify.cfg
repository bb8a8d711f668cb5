CONSTANTS
  x = x
  r1 = r1
  r2 = r2
  None = None
  Addr <- MC_Addr
  Req <- MC_Req1
  ReqAddr <- MC_ReqAddr1
SPECIFICATION FairSpec
INVARIANT TypeOK NotifierSessionLive DeliveredWhenQuiet
PROPERTY DeliveryEventually
