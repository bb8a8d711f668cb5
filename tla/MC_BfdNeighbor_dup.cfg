CONSTANTS
  k1 = k1
  k2 = k2
  k3 = k3
  m = m
  a1 = a1
  a2 = a2
  b1 = b1
  b2 = b2
  c1 = c1
  c2 = c2
  d1 = d1
  d2 = d2
  e1 = e1
  e2 = e2
  q1 = q1
  q2 = q2
  q3 = q3
  q4 = q4
  NULL = NULL
  Key <- MC_Key
  Multihop = {m}
  Invalid = {k3}
  Obj <- MC_Obj
  ObjKey <- MC_ObjKey
  Configs <- MC_ConfigsDup
  InitCfg <- MC_InitCfg
  ReqId <- MC_ReqId
SPECIFICATION Spec
INVARIANT NeighLinks
