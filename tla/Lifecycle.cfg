SPECIFICATION FairSpec
CONSTANTS
  RestConn = {h1, h2}
  Rpc = {p1, p2}
INVARIANTS
  TypeOK
  NoServerDiesAlone
  StoresOutliveHandlers
  SignalsWait
PROPERTY
  ShutdownEnds
\* The process ends.
CHECK_DEADLOCK FALSE
