\* Faulty IPFS and store calls and one replicated write by another peer.
CONSTANTS
  c1 = c1
  c2 = c2
  c3 = c3
  Cids <- MC_Cids
  RemoteVals <- MC_RemoteVals
  Faults = TRUE
  MaxRemote = 1
SPECIFICATION Spec
\* The process may stop: a signal or a log.Fatalf ends it, and then nothing runs.
CHECK_DEADLOCK FALSE
INVARIANTS
  TypeOK
PROPERTIES
  EventsHandled
  DeliveredWriteFetched
