\* Start-up of the serve command when Start fails to listen: does the
\* command return Start's error?
CONSTANTS
  Hooks <- MC_Hooks
  MaxReq = 2
SPECIFICATION Spec
\* Main returns, a handler panics, or both goroutines block for good.
CHECK_DEADLOCK FALSE
PROPERTY StartErrorReturned
