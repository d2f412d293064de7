------------------------- MODULE MC_OrbitListener --------------------------
(* Small instances of OrbitListener for TLC.                               *)
EXTENDS OrbitListener

CONSTANTS c1, c2, c3

MC_Cids == {c1, c2, c3}

\* Values other peers may write: one with a file of its own, a map without
\* a string "cid", and a value that is not a map (written by a peer that
\* runs another program).
MC_RemoteVals ==
  {[map |-> TRUE, cid |-> c3], [map |-> TRUE, cid |-> "none"], [map |-> FALSE, cid |-> "none"]}
============================================================================
