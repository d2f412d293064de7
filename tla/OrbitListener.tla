--------------------------- MODULE OrbitListener ---------------------------
(***************************************************************************)
(* The write listener of src/p2p/crdt-db/cmd/orbitdb/main.go, lines        *)
(* 123-198: main spawns a goroutine that subscribes to the store's         *)
(* EventWrite events and, for each event, re-reads the key with Get,       *)
(* takes the "cid" field of the value and fetches that file from IPFS.     *)
(* Meanwhile main adds a text file to IPFS, Puts {peer, text, cid} under   *)
(* its own peer ID and waits for a signal.                                 *)
(*                                                                         *)
(* The store's event bus delivers an event to the subscriptions that exist *)
(* when Put emits it; the subscription is a channel the goroutine ranges   *)
(* over.  Every write of this program is under its own key (host.ID()), so *)
(* the store is one value.  The database grants write access to "*"        *)
(* (line 106): any peer may write that key too, and a replicated write     *)
(* changes the value without an EventWrite.  A value is a record: whether  *)
(* it is a map[string]interface{}, and its "cid" entry if that is a        *)
(* string ("none" otherwise).                                              *)
(***************************************************************************)
EXTENDS Naturals, Sequences

CONSTANTS
  Cids,        \* content IDs that sh.Add may return
  RemoteVals,  \* values other peers may write under this peer's key
  Faults,      \* whether IPFS and store calls may fail
  MaxRemote    \* bound on replicated writes by other peers

Value == [map : BOOLEAN, cid : Cids \cup {"none"}]
NoValue == [map |-> FALSE, cid |-> "none"]

ASSUME ListenerAssumption ==
  /\ RemoteVals \subseteq Value
  /\ Faults \in BOOLEAN
  /\ MaxRemote \in Nat

VARIABLES
  mpc,        \* main goroutine: "add", "put", "wait" or "exited"
  lpc,        \* listener goroutine: "spawned", "recv", "get", "fetch", "exited"
  sub,        \* whether the listener's subscription exists
  chan,       \* events buffered in the subscription: the values written
  store,      \* the value stored under this peer's key
  cid,        \* the cid main got from sh.Add ("none" before)
  ev,         \* the event the listener is handling
  got,        \* the cid the listener read back with Get
  fetched,    \* history: the cids whose files the listener has read
  delivered,  \* history: main's write was delivered to the subscription
  failed,     \* history: a Get, Cat or ReadAll call of the listener failed
  remote      \* number of replicated writes so far

vars == <<mpc, lpc, sub, chan, store, cid, ev, got, fetched, delivered, failed, remote>>

TypeOK ==
  /\ mpc \in {"add", "put", "wait", "exited"}
  /\ lpc \in {"spawned", "recv", "get", "fetch", "exited"}
  /\ sub \in BOOLEAN
  /\ chan \in Seq(Value)
  /\ store \in Value
  /\ cid \in Cids \cup {"none"}
  /\ ev \in Value
  /\ got \in Cids \cup {"none"}
  /\ fetched \subseteq Cids
  /\ delivered \in BOOLEAN
  /\ failed \in BOOLEAN
  /\ remote \in 0 .. MaxRemote

\* The database may be new (line 110) or an existing one opened by address
\* (line 90), which may already hold a value under this key.
Init ==
  /\ mpc = "add" /\ lpc = "spawned"
  /\ sub = FALSE /\ chan = <<>>
  /\ store \in {NoValue} \cup RemoteVals
  /\ cid = "none" /\ ev = NoValue /\ got = "none"
  /\ fetched = {} /\ delivered = FALSE /\ failed = FALSE /\ remote = 0

\* A log.Fatalf or the end of main ends the process, the listener with it.
Exit ==
  /\ mpc' = "exited" /\ lpc' = "exited"
  /\ UNCHANGED <<sub, chan, store, cid, ev, got, fetched, delivered, failed, remote>>

-----------------------------------------------------------------------------
(* The main goroutine.                                                     *)

\* sh.Add: a new cid, or log.Fatalf.
Add ==
  /\ mpc = "add"
  /\ \/ \E c \in Cids :
          /\ cid' = c /\ mpc' = "put"
          /\ UNCHANGED <<lpc, sub, chan, store, ev, got, fetched, delivered, failed, remote>>
     \/ Faults /\ Exit

\* db.Put stores the value and emits EventWrite to the current
\* subscriptions; a failed Put is fatal.
Put ==
  /\ mpc = "put"
  /\ \/ LET v == [map |-> TRUE, cid |-> cid]
        IN  /\ store' = v
            /\ chan' = IF sub THEN Append(chan, v) ELSE chan
            /\ delivered' = sub
            /\ mpc' = "wait"
            /\ UNCHANGED <<lpc, sub, cid, ev, got, fetched, failed, remote>>
     \/ Faults /\ Exit

\* SIGINT or SIGTERM, before signal.Notify (default action) or after it
\* (main prints db.All and returns).
Shutdown == mpc # "exited" /\ Exit

-----------------------------------------------------------------------------
(* The listener goroutine.                                                 *)

Subscribe ==
  /\ lpc = "spawned"
  /\ sub' = TRUE /\ lpc' = "recv"
  /\ UNCHANGED <<mpc, chan, store, cid, ev, got, fetched, delivered, failed, remote>>

\* for evt := range events
Recv ==
  /\ lpc = "recv" /\ chan # <<>>
  /\ ev' = Head(chan) /\ chan' = Tail(chan) /\ lpc' = "get"
  /\ UNCHANGED <<mpc, sub, store, cid, got, fetched, delivered, failed, remote>>

\* Mutant of Get: a failed db.Get returns from the goroutine instead of
\* continuing with the next event.
GetReturn ==
  /\ lpc = "get"
  /\ \/ /\ store.map /\ store.cid # "none"
        /\ got' = store.cid /\ lpc' = "fetch"
        /\ UNCHANGED failed
     \/ /\ ~store.map \/ store.cid = "none"
        /\ lpc' = "recv"
        /\ UNCHANGED <<got, failed>>
     \/ /\ Faults
        /\ lpc' = "exited" /\ failed' = TRUE
        /\ UNCHANGED got
  /\ UNCHANGED <<mpc, sub, chan, store, cid, ev, fetched, delivered, remote>>

\* Mutant of Get: the ok of the "cid" assertion (lines 149-153) ignored,
\* so a value without a string cid is fetched as "".
GetNoCidCheck ==
  /\ lpc = "get"
  /\ \/ /\ store.map
        /\ got' = store.cid /\ lpc' = "fetch"
        /\ UNCHANGED failed
     \/ /\ ~store.map
        /\ lpc' = "recv"
        /\ UNCHANGED <<got, failed>>
     \/ /\ Faults
        /\ lpc' = "recv" /\ failed' = TRUE
        /\ UNCHANGED got
  /\ UNCHANGED <<mpc, sub, chan, store, cid, ev, fetched, delivered, remote>>

\* Mutant of Get: the lookup uses the wrong field name ("CID"), so no
\* value ever yields a cid.
GetWrongKey ==
  /\ lpc = "get"
  /\ lpc' = "recv"
  /\ UNCHANGED <<got, failed>>
  /\ UNCHANGED <<mpc, sub, chan, store, cid, ev, fetched, delivered, remote>>

\* db.Get(ctx, event.Key), the assertion to a map and the "cid" lookup;
\* each failure logs and continues with the next event.
Get ==
  /\ lpc = "get"
  /\ \/ /\ store.map /\ store.cid # "none"
        /\ got' = store.cid /\ lpc' = "fetch"
        /\ UNCHANGED failed
     \/ /\ ~store.map \/ store.cid = "none"
        /\ lpc' = "recv"
        /\ UNCHANGED <<got, failed>>
     \/ /\ Faults
        /\ lpc' = "recv" /\ failed' = TRUE
        /\ UNCHANGED got
  /\ UNCHANGED <<mpc, sub, chan, store, cid, ev, fetched, delivered, remote>>

\* sh.Cat and ioutil.ReadAll; a failure logs and continues.
Fetch ==
  /\ lpc = "fetch"
  /\ \/ fetched' = fetched \cup {got} /\ UNCHANGED failed
     \/ Faults /\ failed' = TRUE /\ UNCHANGED fetched
  /\ lpc' = "recv"
  /\ UNCHANGED <<mpc, sub, chan, store, cid, ev, got, delivered, remote>>

-----------------------------------------------------------------------------
(* Other peers: a replicated write under this peer's key.                  *)

RemoteWrite ==
  /\ mpc # "exited" /\ remote < MaxRemote
  /\ \E v \in RemoteVals : store' = v
  /\ remote' = remote + 1
  /\ UNCHANGED <<mpc, lpc, sub, chan, cid, ev, got, fetched, delivered, failed>>

Next ==
  \/ Add \/ Put \/ Shutdown
  \/ Subscribe \/ Recv \/ Get \/ Fetch
  \/ RemoteWrite

\* The Go scheduler runs a runnable goroutine eventually, so the steps of
\* main and of the listener are weakly fair.  Signals and other peers'
\* writes come from outside and are not.
Fairness ==
  /\ WF_vars(Add) /\ WF_vars(Put)
  /\ WF_vars(Subscribe) /\ WF_vars(Recv) /\ WF_vars(Get) /\ WF_vars(Fetch)

Spec == Init /\ [][Next]_vars /\ Fairness

-----------------------------------------------------------------------------
(* Properties.                                                             *)

(* Every event that reaches the subscription is taken off the channel and *)
(* handled to the end, failures included: each error path of the range   *)
(* loop (main.go lines 128-169) continues with the next event, so the     *)
(* listener is back at the loop with nothing left, unless the process     *)
(* ends.                                                                   *)
EventsHandled == chan # <<>> ~> ((chan = <<>> /\ lpc = "recv") \/ mpc = "exited")

(* A write event that reaches the subscription is fetched: unless a call   *)
(* of the listener fails or another peer writes the key, the listener      *)
(* reads the file main added (Get, the cid lookup and Cat, lines 135-169). *)
DeliveredWriteFetched ==
  delivered ~> (cid \in fetched \/ failed \/ remote > 0 \/ mpc = "exited")

(* The listener started before the Put sees it (the "Setup DB event        *)
(* listener" goroutine of line 124 is started to observe main's write):    *)
(* once main has put its value, the listener eventually fetches that file. *)
PutFetched == (mpc = "wait") ~> (cid \in fetched \/ mpc = "exited")

(* The listener fetches the file of the write it was notified of: the cid  *)
(* it reads back with Get (line 136) is the cid of the event's value.      *)
FetchesWrittenValue == lpc = "fetch" => got = ev.cid

=============================================================================
