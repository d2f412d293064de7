\* A client request while main is still registering the hooks.
CONSTANTS
  Hooks <- MC_Hooks
  MaxReq = 1
SPECIFICATION Spec
CHECK_DEADLOCK FALSE
INVARIANT HooksSeePrintStatus
