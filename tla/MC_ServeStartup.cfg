\* Start-up of the serve command: both goroutines, every error path, and up
\* to six client requests while the hooks are being registered.
CONSTANTS
  Hooks <- MC_Hooks
  MaxReq = 6
SPECIFICATION Spec
\* The process may stop: main returns, or a handler panics.
CHECK_DEADLOCK FALSE
PROPERTIES ServeErrorReturned ImplementsServeCommand
