\* Two bridge_in_signature requests and one cancel_transfer on one network,
\* a pool of two connections and one restart.
CONSTANTS
  r1 = r1  r2 = r2  r3 = r3  n1 = n1
  Net <- MC_Net
  Req <- MC_Req
  Kind <- MC_Kind
  NetOf <- MC_NetOf
  PoolSize = 2
  MaxCrashes = 1
  NoReq = NoReq
SPECIFICATION Spec
INVARIANT TypeOK NonceUnique
PROPERTY RequestsComplete
CHECK_DEADLOCK FALSE
