------------------------- MODULE OrbitListenerProofs -------------------------
(***************************************************************************)
(* Type correctness of the OrbitDB write listener, for every set of cids,  *)
(* of values other peers may write, and every bound on their writes.       *)
(***************************************************************************)
EXTENDS OrbitListener, TLAPS

\* The listener fetches only a cid it found in the store: the "cid"
\* assertion of main.go lines 149-153 passed before it reaches sh.Cat.
FetchesCid == lpc = "fetch" => got \in Cids

IInv == TypeOK /\ FetchesCid

LEMMA IInvInit == ListenerAssumption /\ Init => IInv
  <1> SUFFICES ASSUME ListenerAssumption, Init PROVE IInv
    OBVIOUS
  <1>1. store \in Value
    <2>1. NoValue \in Value
      BY DEF Value, NoValue
    <2>2. RemoteVals \subseteq Value
      BY DEF ListenerAssumption
    <2>3. QED
      BY <2>1, <2>2 DEF Init
  <1>2. chan \in Seq(Value)
    BY DEF Init
  <1>3. ev \in Value
    BY DEF Init, Value, NoValue
  <1>4. remote \in 0 .. MaxRemote
    BY DEF ListenerAssumption, Init
  <1>5. QED
    BY <1>1, <1>2, <1>3, <1>4 DEF Init, IInv, TypeOK, FetchesCid

\* Every way the process can end keeps the state well-typed.
LEMMA ExitType == IInv /\ Exit => IInv'
  BY DEF Exit, IInv, TypeOK, FetchesCid

LEMMA IInvNext == ListenerAssumption /\ IInv /\ [Next]_vars => IInv'
  <1> SUFFICES ASSUME ListenerAssumption, IInv, [Next]_vars PROVE IInv'
    OBVIOUS
  <1>1. CASE Add
    BY <1>1, ExitType DEF Add, IInv, TypeOK, FetchesCid
  <1>2. CASE Put
    <2>1. CASE Faults /\ Exit
      BY <2>1, ExitType
    <2>2. CASE ~(Faults /\ Exit)
      <3> DEFINE v == [map |-> TRUE, cid |-> cid]
      <3>1. v \in Value
        BY DEF IInv, TypeOK, Value
      <3>2. /\ store' = v
            /\ chan' = IF sub THEN Append(chan, v) ELSE chan
            /\ delivered' = sub
            /\ mpc' = "wait"
            /\ UNCHANGED <<lpc, sub, cid, ev, got, fetched, failed, remote>>
        BY <1>2, <2>2 DEF Put
      <3>3. chan' \in Seq(Value)
        BY <3>1, <3>2 DEF IInv, TypeOK
      <3>4. QED
        BY <3>1, <3>2, <3>3 DEF IInv, TypeOK, FetchesCid
    <2>3. QED
      BY <2>1, <2>2
  <1>3. CASE Shutdown
    BY <1>3, ExitType DEF Shutdown
  <1>4. CASE Subscribe
    BY <1>4 DEF Subscribe, IInv, TypeOK, FetchesCid
  <1>5. CASE Recv
    BY <1>5 DEF Recv, IInv, TypeOK, FetchesCid
  <1>6. CASE Get
    BY <1>6 DEF Get, IInv, TypeOK, FetchesCid, Value
  <1>7. CASE Fetch
    BY <1>7 DEF Fetch, IInv, TypeOK, FetchesCid
  <1>8. CASE RemoteWrite
    BY <1>8 DEF RemoteWrite, ListenerAssumption, IInv, TypeOK, FetchesCid
  <1>9. CASE UNCHANGED vars
    BY <1>9 DEF vars, IInv, TypeOK, FetchesCid
  <1>10. QED
    BY <1>1, <1>2, <1>3, <1>4, <1>5, <1>6, <1>7, <1>8, <1>9 DEF Next

(* Every reachable state of the listener and main is well-typed: events   *)
(* on the subscription are values of the store, and every file the        *)
(* listener fetches (sh.Cat, main.go line 157) is named by a cid that      *)
(* sh.Add or another peer produced, never by a value without one.          *)
THEOREM TypeCorrect == Spec => []TypeOK
  <1>1. Init => IInv
    BY IInvInit, ListenerAssumption
  <1>2. IInv /\ [Next]_vars => IInv'
    BY IInvNext, ListenerAssumption
  <1>3. IInv => TypeOK
    BY DEF IInv
  <1>4. QED
    BY <1>1, <1>2, <1>3, PTL DEF Spec

=============================================================================
