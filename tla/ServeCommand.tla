---------------------------- MODULE ServeCommand ----------------------------
(***************************************************************************)
(* What the cRelay "serve" command promises, without its goroutines,       *)
(* channels or hooks.  The command boots, may announce the relay only once *)
(* the relay has come up, and returns only after announcing it and after   *)
(* the relay has stopped, with the relay's error; before the relay starts  *)
(* it may give up with an error of its own.  The relay comes up or fails   *)
(* to, and once up it stops or the process dies while it serves.           *)
(***************************************************************************)

VARIABLES
  cmd,    \* "booting", "announced", "returned" or "dead"
  relay,  \* "down", "up", "stopped", "failed" or "dead"
  ret     \* what the command returned: "none", "err"

avars == <<cmd, relay, ret>>

Init == cmd = "booting" /\ relay = "down" /\ ret = "none"

\* The command fails before the relay is started.
Abort ==
  /\ cmd = "booting" /\ relay = "down"
  /\ cmd' = "returned" /\ ret' = "err"
  /\ UNCHANGED relay

Up ==
  /\ relay = "down" /\ cmd = "booting"
  /\ relay' = "up"
  /\ UNCHANGED <<cmd, ret>>

Fail ==
  /\ relay = "down" /\ cmd = "booting"
  /\ relay' = "failed"
  /\ UNCHANGED <<cmd, ret>>

Stop ==
  /\ relay = "up"
  /\ relay' = "stopped"
  /\ UNCHANGED <<cmd, ret>>

\* The relay has been up, so it listens or has listened.
Announce ==
  /\ cmd = "booting" /\ relay \in {"up", "stopped"}
  /\ cmd' = "announced"
  /\ UNCHANGED <<relay, ret>>

\* The command returns the error the relay stopped with.
Return ==
  /\ cmd = "announced" /\ relay = "stopped"
  /\ cmd' = "returned" /\ ret' = "err"
  /\ UNCHANGED relay

\* The process dies while the relay serves.
Die ==
  /\ relay = "up" /\ cmd \in {"booting", "announced"}
  /\ cmd' = "dead" /\ relay' = "dead"
  /\ UNCHANGED ret

Next == Abort \/ Up \/ Fail \/ Stop \/ Announce \/ Return \/ Die

Spec == Init /\ [][Next]_avars

=============================================================================
