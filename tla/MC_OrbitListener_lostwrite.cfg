\* Expected violation: main's write is emitted before the listener subscribes.
CONSTANTS
  c1 = c1
  c2 = c2
  c3 = c3
  Cids <- MC_Cids
  RemoteVals <- MC_RemoteVals
  Faults = FALSE
  MaxRemote = 0
SPECIFICATION Spec
CHECK_DEADLOCK FALSE
PROPERTY
  PutFetched
