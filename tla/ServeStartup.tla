---------------------------- MODULE ServeStartup ----------------------------
(***************************************************************************)
(* Start-up of the cRelay "serve" command, src/p2p/cRelay/serve.go lines   *)
(* 55-135.  Main opens the OrbitDB store, builds a khatru relay, starts    *)
(* rl.Start in a goroutine (line 93) and only then appends the three      *)
(* logging hooks (lines 101-115) and assigns printStatus (line 118), which *)
(* every hook calls.  It then waits for Start to close `started` (line     *)
(* 131) and returns what the goroutine sends on the unbuffered `exited`    *)
(* (line 134).                                                             *)
(*                                                                         *)
(* khatru's Start (not in this repository) listens, closes `started` and   *)
(* serves; it returns the listen error without closing `started`.  Once   *)
(* listening, the relay runs a handler for each client request, and a     *)
(* handler calls the hooks registered for its kind.  A handler that calls  *)
(* printStatus while it is still nil panics and ends the process.  Reads   *)
(* of the hook slices and of printStatus race with main's writes (no lock); *)
(* a read sees the value before or after a write, which the interleaving   *)
(* of the two goroutines covers.                                           *)
(***************************************************************************)
EXTENDS Naturals, Sequences

CONSTANTS
  Hooks,    \* the hook kinds: filter, count and event requests
  MaxReq    \* bound on the client requests served

ASSUME ServeAssumption == MaxReq \in Nat

VARIABLES
  mpc,       \* main goroutine
  rpc,       \* relay goroutine: "none", "listen", "serving", "send", "done", "dead"
  hooks,     \* the hook kinds appended so far
  pending,   \* the hook kinds main has still to append, in order
  status,    \* whether printStatus has been assigned
  started,   \* whether Start has closed `started`
  rerr,      \* what Start returned: "nil" or "err" ("none" before)
  result,    \* what the Action returned ("none" before)
  reqs       \* client requests served so far

vars == <<mpc, rpc, hooks, pending, status, started, rerr, result, reqs>>

Init ==
  /\ mpc = "init" /\ rpc = "none"
  /\ hooks = {} /\ pending = <<"filter", "count", "event">>
  /\ status = FALSE /\ started = FALSE
  /\ rerr = "none" /\ result = "none" /\ reqs = 0

\* A panic in any goroutine ends the process.
Crash ==
  /\ mpc' = "dead" /\ rpc' = "dead"
  /\ UNCHANGED <<hooks, pending, status, started, rerr, result, reqs>>

-----------------------------------------------------------------------------
(* The main goroutine.                                                     *)

\* orbitdb.Init(), lines 61-63.
DbInit ==
  /\ mpc = "init"
  /\ \/ mpc' = "setup" /\ UNCHANGED result
     \/ mpc' = "returned" /\ result' = "err"
  /\ UNCHANGED <<rpc, hooks, pending, status, started, rerr, reqs>>

\* orbitdb.GetStore() (lines 67-70), the adapter and relay (73-85), and
\* `go rl.Start(...)` (93-96).
Setup ==
  /\ mpc = "setup"
  /\ \/ mpc' = "hook" /\ rpc' = "listen" /\ UNCHANGED result
     \/ mpc' = "returned" /\ result' = "err" /\ UNCHANGED rpc
  /\ UNCHANGED <<hooks, pending, status, started, rerr, reqs>>

\* rl.RejectFilter, rl.RejectCountFilter, rl.RejectEvent = append(...),
\* lines 101-115, one statement per step.
AddHook ==
  /\ mpc = "hook"
  /\ hooks' = hooks \cup {Head(pending)}
  /\ pending' = Tail(pending)
  /\ mpc' = IF Tail(pending) = <<>> THEN "status" ELSE "hook"
  /\ UNCHANGED <<rpc, status, started, rerr, result, reqs>>

\* printStatus = func() {...}, lines 117-129.
SetPrintStatus ==
  /\ mpc = "status"
  /\ status' = TRUE /\ mpc' = "started"
  /\ UNCHANGED <<rpc, hooks, pending, started, rerr, result, reqs>>

\* <-started, then the "relay running" log, lines 131-132.
WaitStarted ==
  /\ mpc = "started" /\ started
  /\ mpc' = "exited"
  /\ UNCHANGED <<rpc, hooks, pending, status, started, rerr, result, reqs>>

\* Mutant of Exit: main drains `exited` but returns nil.
ExitReturnNil ==
  /\ mpc = "exited" /\ rpc = "send"
  /\ mpc' = "returned" /\ rpc' = "done" /\ result' = "nil"
  /\ UNCHANGED <<hooks, pending, status, started, rerr, reqs>>

\* `exited <- err` meets `return <-exited` (lines 95 and 134): the
\* unbuffered channel hands Start's result to main, which returns it.
Exit ==
  /\ mpc = "exited" /\ rpc = "send"
  /\ mpc' = "returned" /\ rpc' = "done" /\ result' = rerr
  /\ UNCHANGED <<hooks, pending, status, started, rerr, reqs>>

-----------------------------------------------------------------------------
(* The relay goroutine: khatru's Start.                                    *)

\* net.Listen: on success `started` is closed and the relay serves; on
\* failure Start returns the error at once.
Listen ==
  /\ rpc = "listen"
  /\ \/ rpc' = "serving" /\ started' = TRUE /\ UNCHANGED rerr
     \/ rpc' = "send" /\ rerr' = "err" /\ UNCHANGED started
  /\ UNCHANGED <<mpc, hooks, pending, status, result, reqs>>

\* httpServer.Serve returns (an accept error); nothing in serve.go stops it.
ServeEnds ==
  /\ rpc = "serving"
  /\ rpc' = "send" /\ rerr' = "err"
  /\ UNCHANGED <<mpc, hooks, pending, status, started, result, reqs>>

\* A client's REQ, COUNT or EVENT: khatru runs the hooks of that kind,
\* and each calls printStatus (lines 103, 108, 113).
Request ==
  /\ rpc = "serving" /\ reqs < MaxReq
  /\ \E k \in Hooks :
       IF k \in hooks /\ ~status
       THEN Crash                      \* call of a nil func value
       ELSE /\ reqs' = reqs + 1
            /\ UNCHANGED <<mpc, rpc, hooks, pending, status, started, rerr, result>>

Next ==
  \/ DbInit \/ Setup \/ AddHook \/ SetPrintStatus \/ WaitStarted \/ Exit
  \/ Listen \/ ServeEnds \/ Request

\* The Go scheduler runs each runnable goroutine eventually.  Client
\* requests and the end of Serve come from outside and are not assumed.
Fairness ==
  /\ WF_vars(DbInit) /\ WF_vars(Setup) /\ WF_vars(AddHook)
  /\ WF_vars(SetPrintStatus) /\ WF_vars(WaitStarted) /\ WF_vars(Exit)
  /\ WF_vars(Listen)

Spec == Init /\ [][Next]_vars /\ Fairness

-----------------------------------------------------------------------------
(* Properties.                                                             *)

(* When Serve ends after the relay was up, the serve command returns its  *)
(* error: the goroutine's send on `exited` (line 95) meets main's receive *)
(* (line 134), which returns it.                                          *)
ServeErrorReturned ==
  (rpc = "send" /\ started) ~> (mpc = "returned" /\ result = rerr)

(* Whenever Start returns, the serve command returns its error, as `return *)
(* <-exited` (line 134) means it to.  It fails for a listen error: Start   *)
(* returns without closing `started`, main waits at `<-started` (line 131) *)
(* forever and the goroutine's send on `exited` (line 95) never completes. *)
StartErrorReturned ==
  (rpc = "send") ~> (mpc = "returned" /\ result = rerr)

(* The refinement mapping: main's labels before line 131 are the command  *)
(* booting; Start's goroutine is down until it listens, up while it       *)
(* serves, and stopped or failed once it has returned, depending on       *)
(* whether it had closed `started`.                                       *)
CmdOf ==
  CASE mpc \in {"init", "setup", "hook", "status", "started"} -> "booting"
    [] mpc = "exited" -> "announced"
    [] mpc = "returned" -> "returned"
    [] mpc = "dead" -> "dead"

RelayOf ==
  CASE rpc \in {"none", "listen"} -> "down"
    [] rpc = "serving" -> "up"
    [] rpc \in {"send", "done"} -> IF started THEN "stopped" ELSE "failed"
    [] rpc = "dead" -> "dead"

Abs == INSTANCE ServeCommand WITH cmd <- CmdOf, relay <- RelayOf, ret <- result

(* The serve command implements ServeCommand: it announces the relay only *)
(* after Start has listened (line 131), returns only after announcing and *)
(* after Start has returned, and returns Start's error (line 134); a      *)
(* handler can kill the process only while the relay serves.              *)
ImplementsServeCommand == Abs!Spec

(* No hook runs before printStatus is assigned: a request handled between *)
(* the append of a hook (lines 101-115) and line 118 calls a nil func.    *)
HooksSeePrintStatus == mpc # "dead"

=============================================================================
