CONSTANTS
  Server = {s1, s2}
  ScanKey = {k1}
  NoServer = NoServer
  Policy <- Policies
  MaxReq = 3
SPECIFICATION FairSpec
INVARIANTS TypeOK AtMostOneDispatch AcloseNeverAwaitsDispatch
PROPERTIES TrailingCarriesLatest ImplementsTrailingDebounce EveryRequestSettles AcloseTerminates
CHECK_DEADLOCK FALSE
