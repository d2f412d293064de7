\* Expected violation: another peer's write lands between Put and the listener's Get.
CONSTANTS
  c1 = c1
  c2 = c2
  c3 = c3
  Cids <- MC_Cids
  RemoteVals <- MC_RemoteVals
  Faults = FALSE
  MaxRemote = 1
SPECIFICATION Spec
CHECK_DEADLOCK FALSE
INVARIANT
  FetchesWrittenValue
