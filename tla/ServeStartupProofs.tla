------------------------- MODULE ServeStartupProofs -------------------------
(***************************************************************************)
(* Proofs about the start-up of the serve command: the command implements *)
(* ServeCommand.                                                           *)
(***************************************************************************)
EXTENDS ServeStartup, TLAPS

MainLabels == {"init", "setup", "hook", "status", "started", "exited", "returned", "dead"}
RelayLabels == {"none", "listen", "serving", "send", "done", "dead"}

\* How the two goroutines' positions and the channel `started` go together.
\* Main starts the relay goroutine at Setup, so before it nothing runs; the
\* goroutine closes `started` exactly when it starts serving; the exited
\* rendezvous ends both; a panic ends both; main passes `<-started` only
\* once the goroutine has closed it.
Coupled ==
  /\ mpc \in {"init", "setup"} => rpc = "none"
  /\ rpc = "none" => mpc \in {"init", "setup", "returned"}
  /\ rpc \in {"listen", "serving", "send"} => mpc \in {"hook", "status", "started", "exited"}
  /\ rpc = "done" => mpc = "returned"
  /\ (mpc = "dead") = (rpc = "dead")
  /\ rpc \in {"none", "listen"} => ~started
  /\ rpc = "serving" => started
  /\ rpc \in {"send", "done"} => rerr = "err"
  /\ mpc = "exited" => started

IInv ==
  /\ mpc \in MainLabels /\ rpc \in RelayLabels
  /\ started \in BOOLEAN /\ rerr \in {"none", "err"}
  /\ Coupled

-----------------------------------------------------------------------------
(* IInv is inductive.                                                      *)

LEMMA IInvInit == Init => IInv
  BY DEF Init, IInv, MainLabels, RelayLabels, Coupled

\* A request either is served, leaving every mapped variable alone, or
\* panics while the relay serves.
LEMMA RequestCases ==
  ASSUME Request
  PROVE  \/ UNCHANGED <<mpc, rpc, started, rerr, result>>
         \/ rpc = "serving" /\ Crash
  BY DEF Request

LEMMA IInvNext == IInv /\ [Next]_vars => IInv'
  <1> SUFFICES ASSUME IInv, [Next]_vars PROVE IInv'
    OBVIOUS
  <1>1. CASE DbInit
    BY <1>1 DEF DbInit, IInv, MainLabels, Coupled
  <1>2. CASE Setup
    BY <1>2 DEF Setup, IInv, MainLabels, RelayLabels, Coupled
  <1>3. CASE AddHook
    BY <1>3 DEF AddHook, IInv, MainLabels, Coupled
  <1>4. CASE SetPrintStatus
    BY <1>4 DEF SetPrintStatus, IInv, MainLabels, Coupled
  <1>5. CASE WaitStarted
    BY <1>5 DEF WaitStarted, IInv, MainLabels, Coupled
  <1>6. CASE Exit
    BY <1>6 DEF Exit, IInv, MainLabels, RelayLabels, Coupled
  <1>7. CASE Listen
    BY <1>7 DEF Listen, IInv, RelayLabels, Coupled
  <1>8. CASE ServeEnds
    BY <1>8 DEF ServeEnds, IInv, RelayLabels, Coupled
  <1>9. CASE Request
    <2>1. CASE UNCHANGED <<mpc, rpc, started, rerr, result>>
      BY <2>1 DEF IInv, Coupled
    <2>2. CASE rpc = "serving" /\ Crash
      BY <2>2 DEF Crash, IInv, MainLabels, RelayLabels, Coupled
    <2>3. QED
      BY <1>9, <2>1, <2>2, RequestCases
  <1>10. CASE UNCHANGED vars
    BY <1>10 DEF vars, IInv, Coupled
  <1>11. QED
    BY <1>1, <1>2, <1>3, <1>4, <1>5, <1>6, <1>7, <1>8, <1>9, <1>10 DEF Next

-----------------------------------------------------------------------------
(* Refinement: every step of the two goroutines is a step of ServeCommand *)
(* or leaves the mapped state alone.                                       *)

LEMMA RefineInit == Init => Abs!Init
  BY DEF Init, Abs!Init, CmdOf, RelayOf

\* A step that leaves main's label, the relay goroutine's label, `started`
\* and the result alone is a stutter of ServeCommand.
LEMMA MappedStutter ==
  ASSUME CmdOf' = CmdOf, RelayOf' = RelayOf, result' = result
  PROVE  [Abs!Next]_Abs!avars
  BY DEF Abs!avars

LEMMA RefineNext == IInv /\ [Next]_vars => [Abs!Next]_Abs!avars
  <1> SUFFICES ASSUME IInv, [Next]_vars PROVE [Abs!Next]_Abs!avars
    OBVIOUS
  <1> USE DEF IInv, MainLabels, RelayLabels, Coupled
  <1>1. CASE DbInit
    <2>1. CASE mpc' = "setup" /\ UNCHANGED result
      BY <1>1, <2>1, MappedStutter DEF DbInit, CmdOf, RelayOf
    <2>2. CASE mpc' = "returned" /\ result' = "err"
      <3>1. Abs!Abort
        BY <1>1, <2>2 DEF DbInit, Abs!Abort, CmdOf, RelayOf
      <3>2. QED
        BY <3>1 DEF Abs!Next
    <2>3. QED
      BY <1>1, <2>1, <2>2 DEF DbInit
  <1>2. CASE Setup
    <2>1. CASE mpc' = "hook" /\ rpc' = "listen" /\ UNCHANGED result
      BY <1>2, <2>1, MappedStutter DEF Setup, CmdOf, RelayOf
    <2>2. CASE mpc' = "returned" /\ result' = "err" /\ UNCHANGED rpc
      <3>1. Abs!Abort
        BY <1>2, <2>2 DEF Setup, Abs!Abort, CmdOf, RelayOf
      <3>2. QED
        BY <3>1 DEF Abs!Next
    <2>3. QED
      BY <1>2, <2>1, <2>2 DEF Setup
  <1>3. CASE AddHook
    BY <1>3, MappedStutter DEF AddHook, CmdOf, RelayOf
  <1>4. CASE SetPrintStatus
    BY <1>4, MappedStutter DEF SetPrintStatus, CmdOf, RelayOf
  <1>5. CASE WaitStarted
    <2>1. rpc \in {"serving", "send"}
      BY <1>5 DEF WaitStarted
    <2>2. Abs!Announce
      BY <1>5, <2>1 DEF WaitStarted, Abs!Announce, CmdOf, RelayOf
    <2>3. QED
      BY <2>2 DEF Abs!Next
  <1>6. CASE Exit
    <2>1. Abs!Return
      BY <1>6 DEF Exit, Abs!Return, CmdOf, RelayOf
    <2>2. QED
      BY <2>1 DEF Abs!Next
  <1>7. CASE Listen
    <2>1. mpc \in {"hook", "status", "started"}
      BY <1>7 DEF Listen
    <2>2. CASE rpc' = "serving" /\ started' = TRUE /\ UNCHANGED rerr
      <3>1. Abs!Up
        BY <1>7, <2>1, <2>2 DEF Listen, Abs!Up, CmdOf, RelayOf
      <3>2. QED
        BY <3>1 DEF Abs!Next
    <2>3. CASE rpc' = "send" /\ rerr' = "err" /\ UNCHANGED started
      <3>1. Abs!Fail
        BY <1>7, <2>1, <2>3 DEF Listen, Abs!Fail, CmdOf, RelayOf
      <3>2. QED
        BY <3>1 DEF Abs!Next
    <2>4. QED
      BY <1>7, <2>2, <2>3 DEF Listen
  <1>8. CASE ServeEnds
    <2>1. Abs!Stop
      BY <1>8 DEF ServeEnds, Abs!Stop, CmdOf, RelayOf
    <2>2. QED
      BY <2>1 DEF Abs!Next
  <1>9. CASE Request
    <2>1. CASE UNCHANGED <<mpc, rpc, started, rerr, result>>
      BY <2>1, MappedStutter DEF CmdOf, RelayOf
    <2>2. CASE rpc = "serving" /\ Crash
      <3>1. mpc \in {"hook", "status", "started", "exited"}
        BY <2>2
      <3>2. Abs!Die
        BY <2>2, <3>1 DEF Crash, Abs!Die, CmdOf, RelayOf
      <3>3. QED
        BY <3>2 DEF Abs!Next
    <2>3. QED
      BY <1>9, <2>1, <2>2, RequestCases
  <1>10. CASE UNCHANGED vars
    BY <1>10, MappedStutter DEF vars, CmdOf, RelayOf
  <1>11. QED
    BY <1>1, <1>2, <1>3, <1>4, <1>5, <1>6, <1>7, <1>8, <1>9, <1>10 DEF Next

(* The serve command (serve.go lines 55-135) implements ServeCommand for  *)
(* every set of hook kinds and every bound on requests: it announces the  *)
(* relay only after Start has listened, returns only after announcing and *)
(* after Start has returned, returns Start's error, and dies only while   *)
(* the relay serves.                                                       *)
THEOREM Refinement == Spec => ImplementsServeCommand
  <1>1. Init => IInv
    BY IInvInit
  <1>2. IInv /\ [Next]_vars => IInv'
    BY IInvNext
  <1>3. Init => Abs!Init
    BY RefineInit
  <1>4. IInv /\ [Next]_vars => [Abs!Next]_Abs!avars
    BY RefineNext
  <1>5. QED
    BY <1>1, <1>2, <1>3, <1>4, PTL DEF Spec, ImplementsServeCommand, Abs!Spec

=============================================================================
