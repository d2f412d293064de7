----------------------------- MODULE Signature -----------------------------
(***************************************************************************)
(* Event signing of src/p2p/go-nostr-sdk/signature.go and its callers in   *)
(* the examples.  Sign sets the envelope's PubKey to the Ethereum address  *)
(* of the secret key, signs Keccak256 of the prefixed serialisation with   *)
(* crypto.Sign and stores the hex ID and signature.  CheckSignature        *)
(* hex-decodes the signature, indexes its 65th byte, recovers the signer's *)
(* public key from the serialisation and compares its address with "0x" + *)
(* PubKey.  It never looks at the ID field.                                *)
(*                                                                         *)
(* Data abstraction.  The serialisation of an envelope is the record of    *)
(* the fields it covers: PubKey and the body (created_at, kind, tags and   *)
(* content, which setters and assignments change).  Keccak256 and ECDSA    *)
(* are ideal: a signature made by key k over message m recovers k exactly  *)
(* when it is checked against m with its own recovery id, and otherwise    *)
(* recovers a key nobody holds (Stranger) or fails.  A secret key is its   *)
(* own address.  A signature is a record: whether its text is hex, its     *)
(* decoded length, its last byte v, and, if crypto.Sign made it, the       *)
(* signer, the message and the recovery id.                                *)
(***************************************************************************)
EXTENDS Naturals, FiniteSets

CONSTANTS
  Keys,       \* secret keys (valid hex); a key is its own address
  Pubs,       \* PubKey values set by callers (nostr.GetPublicKey, line 59)
  Bodies,     \* the other serialised fields of an envelope
  SigLens,    \* decoded lengths of forged signatures
  Vs,         \* values of a forged signature's last byte
  None,       \* no signer / no message / no check yet
  Stranger,   \* the key recovered from a signature that does not match
  MaxRelay    \* bound on the envelopes on the relay

\* The zero value "" of the PubKey string.
NoPubKey == "nopubkey"

ASSUME SignatureAssumption ==
  /\ Keys # {} /\ Bodies # {}
  /\ Stranger \notin Keys \cup Pubs \cup {NoPubKey}
  /\ None \notin Keys \cup Pubs \cup {Stranger}
  /\ SigLens \subseteq Nat /\ Vs \subseteq 0 .. 255
  /\ MaxRelay \in Nat

PubKeys == Keys \cup Pubs

\* evt.Serialize(): the fields the signature covers.
Serialize(e) == [pub |-> e.pub, body |-> e.body]
Messages == [pub : PubKeys, body : Bodies]

Sigs ==
  [hexok : BOOLEAN, len : Nat, v : 0 .. 255,
   signer : Keys \cup {None}, msg : Messages \cup {None}, rid : {0, 1}]

\* A signature crypto.Sign did not make: its hex validity, decoded length
\* and last byte.
Junk(ok, n, v) == [hexok |-> ok, len |-> n, v |-> v, signer |-> None, msg |-> None, rid |-> 0]

\* The zero Sig of a new Event: the empty string, which is valid hex.
NoSig == Junk(TRUE, 0, 0)

Envelopes == [pub : PubKeys \cup {NoPubKey}, body : Bodies, id : Messages \cup {None}, sig : Sigs]

-----------------------------------------------------------------------------
(* CheckSignature, lines 17-44.                                            *)

\* Mutant of NormV: the offset is taken off only above 27.
NormVAbove(s) == IF s.v > 27 THEN s.v - 27 ELSE s.v

\* Lines 27-29: a last byte of 27 or more is an Ethereum wallet's v.
NormV(s) == IF s.v >= 27 THEN s.v - 27 ELSE s.v

\* crypto.SigToPub (line 36): the keys it may return; None is an error.
\* It rejects a length other than 65 and a recovery id other than 0 or 1
\* (ids 2 and 3 need r >= n and do not occur).  A signature crypto.Sign
\* made always yields a point; random bytes may not.
SigToPub(s, m) ==
  IF s.len # 65 \/ NormV(s) > 1 THEN {None}
  ELSE IF s.signer \in Keys /\ s.msg = m /\ NormV(s) = s.rid THEN {s.signer}
  ELSE IF s.signer \in Keys THEN {Stranger}
  ELSE {Stranger, None}

\* Mutant of CheckSignature: any recoverable signature is accepted, the
\* address comparison of line 43 dropped.
CheckRecoverOnly(e) ==
  IF ~e.sig.hexok THEN {"error"}
  ELSE IF e.sig.len < 65 THEN {"panic"}
  ELSE {IF k = None THEN "error" ELSE "true" : k \in SigToPub(e.sig, Serialize(e))}

\* The outcomes CheckSignature may have on envelope e: "true" and "false"
\* with a nil error, "error", or "panic" (index out of range at line 27).
CheckSignature(e) ==
  IF ~e.sig.hexok THEN {"error"}
  ELSE IF e.sig.len < 65 THEN {"panic"}
  ELSE {IF k = None THEN "error" ELSE IF k = e.pub THEN "true" ELSE "false" :
          k \in SigToPub(e.sig, Serialize(e))}

-----------------------------------------------------------------------------

VARIABLES
  evt,     \* the Event struct the producer holds
  relay,   \* the envelopes published to the relay
  signed,  \* history: the (key, message) pairs crypto.Sign has signed
  issued,  \* history: the envelopes as Sign left them
  last     \* the verifier's latest CheckSignature call and its outcome

vars == <<evt, relay, signed, issued, last>>

TypeOK ==
  /\ evt \in Envelopes
  /\ relay \subseteq Envelopes
  /\ signed \subseteq [key : Keys, msg : Messages]
  /\ issued \subseteq Envelopes
  /\ last \in [env : Envelopes, out : {"true", "false", "error", "panic"}] \cup {None}

\* A new Event literal: no PubKey, ID or signature yet.
Init ==
  /\ evt \in [pub : {NoPubKey}, body : Bodies, id : {None}, sig : {NoSig}]
  /\ relay = {} /\ signed = {} /\ issued = {} /\ last = None

-----------------------------------------------------------------------------
(* The producer (example/subspace/subspace.go, example/publish).           *)

\* createEvent.PubKey = pub (example line 59).
SetPubKey ==
  /\ \E p \in Pubs : evt' = [evt EXCEPT !.pub = p]
  /\ UNCHANGED <<relay, signed, issued, last>>

\* A setter or an assignment to Content changes the serialised body.
SetBody ==
  /\ \E b \in Bodies \ {evt.body} : evt' = [evt EXCEPT !.body = b]
  /\ UNCHANGED <<relay, signed, issued, last>>

\* Mutant of Sign: the message is serialised before PubKey is set (lines
\* 59-60 moved after line 63).
SignSerializeFirst ==
  \E sk \in Keys, rid \in {0, 1} :
    LET m == Serialize(evt)
        e == [pub |-> sk, body |-> evt.body, id |-> m,
              sig |-> [hexok |-> TRUE, len |-> 65, v |-> rid,
                       signer |-> sk, msg |-> m, rid |-> rid]]
    IN  /\ evt' = e
        /\ signed' = signed \cup {[key |-> sk, msg |-> m]}
        /\ issued' = issued \cup {e}
        /\ UNCHANGED <<relay, last>>

\* Mutant of Sign: line 60 dropped, PubKey keeps the "0x" of Hex().
SignKeepPrefix ==
  \E sk \in Keys, rid \in {0, 1} :
    LET m == [pub |-> <<"0x", sk>>, body |-> evt.body]
        e == [pub |-> <<"0x", sk>>, body |-> evt.body, id |-> m,
              sig |-> [hexok |-> TRUE, len |-> 65, v |-> rid,
                       signer |-> sk, msg |-> m, rid |-> rid]]
    IN  /\ evt' = e
        /\ signed' = signed \cup {[key |-> sk, msg |-> m]}
        /\ issued' = issued \cup {e}
        /\ UNCHANGED <<relay, last>>

\* evt.Sign(sk), lines 49-77: PubKey becomes the key's address (lines
\* 59-60), then the message is serialised with it, hashed and signed, and
\* ID and Sig are set.  An invalid key (line 51) returns an error and
\* changes nothing, a stuttering step; crypto.Sign fails only on a hash
\* that is not 32 bytes.
Sign ==
  \E sk \in Keys, rid \in {0, 1} :
    LET m == Serialize([evt EXCEPT !.pub = sk])
        e == [pub |-> sk, body |-> evt.body, id |-> m,
              sig |-> [hexok |-> TRUE, len |-> 65, v |-> rid,
                       signer |-> sk, msg |-> m, rid |-> rid]]
    IN  /\ evt' = e
        /\ signed' = signed \cup {[key |-> sk, msg |-> m]}
        /\ issued' = issued \cup {e}
        /\ UNCHANGED <<relay, last>>

\* relay.Publish(ctx, ev): the relay stores a copy of the struct's Event.
Publish ==
  /\ Cardinality(relay) < MaxRelay /\ evt \notin relay
  /\ relay' = relay \cup {evt}
  /\ UNCHANGED <<evt, signed, issued, last>>

-----------------------------------------------------------------------------
(* Untrusted peers publish edited copies of stored envelopes.              *)

Forge(e) ==
  /\ Cardinality(relay) < MaxRelay /\ e \notin relay
  /\ relay' = relay \cup {e}
  /\ UNCHANGED <<evt, signed, issued, last>>

\* Replace the signature with arbitrary text, or the last byte only.
ForgeSig ==
  \E e \in relay :
    \/ Forge([e EXCEPT !.sig = Junk(FALSE, 0, 0)])
    \/ \E n \in SigLens, v \in Vs : Forge([e EXCEPT !.sig = Junk(TRUE, n, v)])
    \/ \E v \in Vs : Forge([e EXCEPT !.sig.v = v])

\* Claim another identity, or change the body, keeping the signature (the
\* same as attaching a stored envelope's signature to other fields).
ForgeFields ==
  \E e \in relay :
    \/ \E p \in PubKeys : Forge([e EXCEPT !.pub = p])
    \/ \E b \in Bodies : Forge([e EXCEPT !.body = b])

-----------------------------------------------------------------------------
(* A consumer checks a stored envelope.                                    *)

Check ==
  /\ \E e \in relay, o \in {"true", "false", "error", "panic"} :
       /\ o \in CheckSignature(e)
       /\ last' = [env |-> e, out |-> o]
  /\ UNCHANGED <<evt, relay, signed, issued>>

Next ==
  \/ SetPubKey \/ SetBody \/ Sign \/ Publish
  \/ ForgeSig \/ ForgeFields
  \/ Check

Spec == Init /\ [][Next]_vars

-----------------------------------------------------------------------------
(* Properties.                                                             *)

(* Authenticity: CheckSignature accepts an envelope only if the key whose *)
(* address is its PubKey signed exactly its serialisation.  Edits after   *)
(* Sign (by the producer or a forger), copied signatures and wallet-style *)
(* last bytes never make a stale or foreign signature verify.             *)
Sound ==
  last # None /\ last.out = "true" =>
    [key |-> last.env.pub, msg |-> Serialize(last.env)] \in signed

\* The envelope e with its signature's last byte in the form an Ethereum
\* wallet gives it, recovery id + 27.
WalletForm(e) == [e EXCEPT !.sig.v = e.sig.rid + 27]

(* Completeness: an envelope exactly as Sign produced it verifies, so the *)
(* order of Sign's steps (address into PubKey, then serialise, then sign) *)
(* agrees with CheckSignature's; and so does the same envelope with the   *)
(* wallet form of the recovery id, which lines 27-29 normalise.           *)
Complete ==
  last # None /\ (last.env \in issued \/ \E i \in issued : last.env = WalletForm(i))
    => last.out = "true"

(* CheckSignature returns false and an error on an invalid signature (its *)
(* doc comment, lines 14-16); it never panics.                            *)
CheckNoPanic == last # None => last.out # "panic"

=============================================================================
