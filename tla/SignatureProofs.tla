--------------------------- MODULE SignatureProofs ---------------------------
(***************************************************************************)
(* Proofs about Signature for every value of the constants: every         *)
(* signature CheckSignature accepts was made by the PubKey's key over the  *)
(* envelope's serialisation, and every envelope as Sign left it verifies.  *)
(***************************************************************************)
EXTENDS Signature, TLAPS

-----------------------------------------------------------------------------
(* The inductive invariant.                                                *)

\* Every signature that claims a signer, wherever it is copied to, was made
\* by that signer over the message it claims.
SigsSigned ==
  \A e \in relay \cup {evt} :
    e.sig.signer \in Keys => [key |-> e.sig.signer, msg |-> e.sig.msg] \in signed

\* The envelopes Sign produced carry their own signature, untouched.
IssuedGenuine ==
  \A e \in issued :
    /\ e.pub \in Keys
    /\ e.sig = [hexok |-> TRUE, len |-> 65, v |-> e.sig.rid,
                signer |-> e.pub, msg |-> Serialize(e), rid |-> e.sig.rid]

\* The verifier's outcome is one CheckSignature may return on the envelope.
LastConsistent ==
  last # None => last.env \in relay /\ last.out \in CheckSignature(last.env)

IInv == TypeOK /\ SigsSigned /\ IssuedGenuine /\ LastConsistent

-----------------------------------------------------------------------------
(* Type correctness.                                                       *)

LEMMA InitType == Init => TypeOK
<1>1. NoSig \in Sigs
  BY DEF NoSig, Junk, Sigs
<1>2. QED
  BY <1>1 DEF Init, TypeOK, Envelopes

\* Sign serialises the struct with its new PubKey.
LEMMA SerializeSigned ==
  ASSUME NEW e \in Envelopes, NEW sk \in Keys
  PROVE  Serialize([e EXCEPT !.pub = sk]) = [pub |-> sk, body |-> e.body]
BY DEF Serialize, Envelopes

LEMMA SignEnvelope ==
  ASSUME NEW e \in Envelopes, NEW sk \in Keys, NEW rid \in {0, 1}
  PROVE  LET m == Serialize([e EXCEPT !.pub = sk])
         IN  /\ m \in Messages
             /\ [pub |-> sk, body |-> e.body, id |-> m,
                 sig |-> [hexok |-> TRUE, len |-> 65, v |-> rid,
                          signer |-> sk, msg |-> m, rid |-> rid]] \in Envelopes
<1> DEFINE m == Serialize([e EXCEPT !.pub = sk])
<1>1. m \in Messages
  <2>1. m = [pub |-> sk, body |-> e.body]
    BY SerializeSigned
  <2>2. [pub |-> sk, body |-> e.body] \in Messages
    BY DEF Envelopes, Messages, PubKeys
  <2>3. QED
    BY <2>1, <2>2
<1>2. [hexok |-> TRUE, len |-> 65, v |-> rid, signer |-> sk, msg |-> m, rid |-> rid] \in Sigs
  BY <1>1 DEF Sigs
<1>3. QED
  BY <1>1, <1>2 DEF Envelopes, PubKeys

LEMMA ForgedEnvelopes ==
  ASSUME SignatureAssumption, NEW e \in Envelopes
  PROVE  /\ [e EXCEPT !.sig = Junk(FALSE, 0, 0)] \in Envelopes
         /\ \A n \in SigLens, v \in Vs : [e EXCEPT !.sig = Junk(TRUE, n, v)] \in Envelopes
         /\ \A v \in Vs : [e EXCEPT !.sig.v = v] \in Envelopes
         /\ \A p \in PubKeys : [e EXCEPT !.pub = p] \in Envelopes
         /\ \A b \in Bodies : [e EXCEPT !.body = b] \in Envelopes
<1>1. Junk(FALSE, 0, 0) \in Sigs
  BY DEF Junk, Sigs
<1>2. \A n \in SigLens, x \in Vs : Junk(TRUE, n, x) \in Sigs
  BY DEF Junk, Sigs
<1>3. \A v \in Vs : [e.sig EXCEPT !.v = v] \in Sigs
  BY DEF Envelopes, Sigs
<1>4. \A x \in Sigs : [e EXCEPT !.sig = x] \in Envelopes
  BY DEF Envelopes
<1>5. \A v \in Vs : [e EXCEPT !.sig.v = v] = [e EXCEPT !.sig = [e.sig EXCEPT !.v = v]]
  BY DEF Envelopes
<1>6. \A p \in PubKeys : [e EXCEPT !.pub = p] \in Envelopes
  BY DEF Envelopes
<1>7. \A b \in Bodies : [e EXCEPT !.body = b] \in Envelopes
  BY DEF Envelopes
<1>8. QED
  BY <1>1, <1>2, <1>3, <1>4, <1>5, <1>6, <1>7

LEMMA NextType ==
  ASSUME TypeOK, [Next]_vars
  PROVE  TypeOK'
<1> USE SignatureAssumption
<1>1. CASE SetPubKey
  BY <1>1 DEF SetPubKey, TypeOK, Envelopes, PubKeys
<1>2. CASE SetBody
  BY <1>2 DEF SetBody, TypeOK, Envelopes
<1>3. CASE Sign
  <2> PICK sk \in Keys, rid \in {0, 1} :
        LET m == Serialize([evt EXCEPT !.pub = sk])
            e == [pub |-> sk, body |-> evt.body, id |-> m,
                  sig |-> [hexok |-> TRUE, len |-> 65, v |-> rid,
                           signer |-> sk, msg |-> m, rid |-> rid]]
        IN  /\ evt' = e
            /\ signed' = signed \cup {[key |-> sk, msg |-> m]}
            /\ issued' = issued \cup {e}
            /\ UNCHANGED <<relay, last>>
    BY <1>3 DEF Sign
  <2> DEFINE m == Serialize([evt EXCEPT !.pub = sk])
             e == [pub |-> sk, body |-> evt.body, id |-> m,
                   sig |-> [hexok |-> TRUE, len |-> 65, v |-> rid,
                            signer |-> sk, msg |-> m, rid |-> rid]]
  <2>1. evt \in Envelopes
    BY DEF TypeOK
  <2>2. m \in Messages /\ e \in Envelopes
    BY <2>1, SignEnvelope
  <2>3. [key |-> sk, msg |-> m] \in [key : Keys, msg : Messages]
    BY <2>2
  <2>4. QED
    BY <2>2, <2>3 DEF TypeOK
<1>4. CASE Publish
  BY <1>4 DEF Publish, TypeOK
<1>5. CASE ForgeSig \/ ForgeFields
  <2> PICK e \in relay : \E f \in Envelopes :
        relay' = relay \cup {f} /\ UNCHANGED <<evt, signed, issued, last>>
    BY <1>5, ForgedEnvelopes DEF ForgeSig, ForgeFields, Forge, TypeOK
  <2>1. QED
    BY DEF TypeOK
<1>6. CASE Check
  <2> PICK e \in relay, o \in {"true", "false", "error", "panic"} :
        last' = [env |-> e, out |-> o]
    BY <1>6 DEF Check
  <2>1. QED
    BY <1>6 DEF Check, TypeOK
<1>7. CASE UNCHANGED vars
  BY <1>7 DEF vars, TypeOK
<1>8. QED
  BY <1>1, <1>2, <1>3, <1>4, <1>5, <1>6, <1>7 DEF Next

(* Type correctness (TypeOK, checked by the signature run): the producer's *)
(* struct, the relay's envelopes and the verifier's outcome keep their     *)
(* shapes through any sequence of setters, Sign calls and forgeries.       *)
THEOREM TypeCorrect == Spec => []TypeOK
BY InitType, NextType, PTL DEF Spec

-----------------------------------------------------------------------------
(* What CheckSignature accepts.                                            *)

\* A nil-error true comes only from a signature crypto.Sign made by the
\* PubKey's key over the envelope's serialisation: every other branch of
\* SigToPub yields an error or Stranger, which is no PubKey.
LEMMA CheckAccepts ==
  ASSUME SignatureAssumption, NEW e \in Envelopes, "true" \in CheckSignature(e)
  PROVE  /\ e.sig.signer \in Keys
         /\ e.sig.signer = e.pub
         /\ e.sig.msg = Serialize(e)
<1> DEFINE s == e.sig
           m == Serialize(e)
<1>1. PICK k \in SigToPub(s, m) : k # None /\ k = e.pub
  <2>1. e.sig.hexok /\ ~(e.sig.len < 65)
    BY DEF CheckSignature
  <2>2. QED
    BY <2>1 DEF CheckSignature
<1>2. e.pub \in Keys \cup Pubs \cup {NoPubKey}
  BY DEF Envelopes, PubKeys
<1>3. ~(s.len # 65 \/ NormV(s) > 1)
  BY <1>1 DEF SigToPub
<1>4. s.signer \in Keys /\ s.msg = m /\ NormV(s) = s.rid
  BY <1>1, <1>2, <1>3 DEF SigToPub
<1>5. QED
  BY <1>1, <1>3, <1>4 DEF SigToPub

\* The envelope Sign produced verifies, with no error and no panic, and so
\* does the envelope with the wallet form of its recovery id.
LEMMA GenuineAccepted ==
  ASSUME SignatureAssumption, NEW e \in Envelopes, e.pub \in Keys, NEW r \in {0, 1},
         NEW v \in {r, r + 27},
         e.sig.hexok = TRUE, e.sig.len = 65, e.sig.v = v,
         e.sig.signer = e.pub, e.sig.msg = Serialize(e), e.sig.rid = r
  PROVE  CheckSignature(e) = {"true"}
<1>1. NormV(e.sig) = r
  BY DEF NormV
<1>2. SigToPub(e.sig, Serialize(e)) = {e.pub}
  BY <1>1 DEF SigToPub
<1>3. e.pub # None
  OBVIOUS
<1>4. e.sig.hexok /\ ~(e.sig.len < 65)
  OBVIOUS
<1>5. CheckSignature(e) =
        {IF k = None THEN "error" ELSE IF k = e.pub THEN "true" ELSE "false" : k \in {e.pub}}
  BY <1>2, <1>4 DEF CheckSignature
<1>6. QED
  BY <1>3, <1>5

-----------------------------------------------------------------------------
(* The invariant is inductive.                                             *)

LEMMA IInvInit == SignatureAssumption /\ Init => IInv
<1> SUFFICES ASSUME SignatureAssumption, Init PROVE IInv
  OBVIOUS
<1>1. TypeOK
  BY InitType
<1>2. evt.sig.signer = None /\ None \notin Keys
  BY DEF Init, NoSig, Junk
<1>3. SigsSigned
  BY <1>2 DEF Init, SigsSigned
<1>4. IssuedGenuine /\ LastConsistent
  BY DEF Init, IssuedGenuine, LastConsistent
<1>5. QED
  BY <1>1, <1>3, <1>4 DEF IInv

\* The signer and message fields survive every edit a forger makes.
LEMMA ForgedSigners ==
  ASSUME NEW e \in Envelopes
  PROVE  /\ \A b, n, x : Junk(b, n, x).signer = None
         /\ \A x : [e EXCEPT !.sig = x].sig = x
         /\ \A x : [e EXCEPT !.sig.v = x].sig.signer = e.sig.signer
                  /\ [e EXCEPT !.sig.v = x].sig.msg = e.sig.msg
         /\ \A x : [e EXCEPT !.pub = x].sig = e.sig
         /\ \A x : [e EXCEPT !.body = x].sig = e.sig
<1>1. \A b, n, x : Junk(b, n, x).signer = None
  BY DEF Junk
<1>2. \A x : [e EXCEPT !.sig = x].sig = x
  BY DEF Envelopes
<1>3. \A x : [e EXCEPT !.sig.v = x].sig.signer = e.sig.signer
                /\ [e EXCEPT !.sig.v = x].sig.msg = e.sig.msg
  BY DEF Envelopes, Sigs
<1>4. \A x : [e EXCEPT !.pub = x].sig = e.sig
  BY DEF Envelopes
<1>5. \A x : [e EXCEPT !.body = x].sig = e.sig
  BY DEF Envelopes
<1>6. QED
  BY <1>1, <1>2, <1>3, <1>4, <1>5

\* A forged copy f of e claims a signer only if e's signature did.
Keeps(e, f) ==
  f.sig.signer \in Keys => f.sig.signer = e.sig.signer /\ f.sig.msg = e.sig.msg

LEMMA IInvNext ==
  ASSUME SignatureAssumption, IInv, [Next]_vars
  PROVE  IInv'
<1>1. TypeOK'
  BY NextType DEF IInv
<1>2. CASE SetPubKey \/ SetBody
  <2>1. evt'.sig = evt.sig /\ UNCHANGED <<relay, signed, issued, last>>
    BY <1>2 DEF SetPubKey, SetBody, IInv, TypeOK, Envelopes
  <2>2. QED
    BY <1>1, <2>1 DEF IInv, SigsSigned, IssuedGenuine, LastConsistent
<1>3. CASE Sign
  <2> PICK sk \in Keys, rid \in {0, 1} :
        LET m == Serialize([evt EXCEPT !.pub = sk])
            e == [pub |-> sk, body |-> evt.body, id |-> m,
                  sig |-> [hexok |-> TRUE, len |-> 65, v |-> rid,
                           signer |-> sk, msg |-> m, rid |-> rid]]
        IN  /\ evt' = e
            /\ signed' = signed \cup {[key |-> sk, msg |-> m]}
            /\ issued' = issued \cup {e}
            /\ UNCHANGED <<relay, last>>
    BY <1>3 DEF Sign
  <2> DEFINE m == Serialize([evt EXCEPT !.pub = sk])
  <2>1. m = [pub |-> sk, body |-> evt.body]
    BY SerializeSigned DEF IInv, TypeOK
  <2>2. Serialize(evt') = m
    BY <2>1 DEF Serialize
  <2>3. SigsSigned'
    BY DEF IInv, SigsSigned
  <2>4. IssuedGenuine'
    <3>1. /\ evt'.pub \in Keys
          /\ evt'.sig = [hexok |-> TRUE, len |-> 65, v |-> evt'.sig.rid,
                         signer |-> evt'.pub, msg |-> Serialize(evt'), rid |-> evt'.sig.rid]
      BY <2>2
    <3>2. issued' = issued \cup {evt'}
      OBVIOUS
    <3>3. QED
      BY <3>1, <3>2 DEF IInv, IssuedGenuine
  <2>5. QED
    BY <1>1, <2>3, <2>4 DEF IInv, LastConsistent
<1>4. CASE Publish
  BY <1>1, <1>4 DEF Publish, IInv, SigsSigned, IssuedGenuine, LastConsistent
<1>5. CASE ForgeSig \/ ForgeFields
  <2>1. ASSUME NEW e \in relay
        PROVE  /\ Keeps(e, [e EXCEPT !.sig = Junk(FALSE, 0, 0)])
               /\ \A n \in SigLens, x \in Vs : Keeps(e, [e EXCEPT !.sig = Junk(TRUE, n, x)])
               /\ \A x \in Vs : Keeps(e, [e EXCEPT !.sig.v = x])
               /\ \A p \in PubKeys : Keeps(e, [e EXCEPT !.pub = p])
               /\ \A b \in Bodies : Keeps(e, [e EXCEPT !.body = b])
    <3>1. e \in Envelopes
      BY DEF IInv, TypeOK
    <3>2. None \notin Keys
      OBVIOUS
    <3>3. \A x : [e EXCEPT !.sig = x].sig = x
      BY <3>1, ForgedSigners
    <3>4. Keeps(e, [e EXCEPT !.sig = Junk(FALSE, 0, 0)])
      BY <3>2, <3>3 DEF Keeps, Junk
    <3>5. \A n \in SigLens, x \in Vs : Keeps(e, [e EXCEPT !.sig = Junk(TRUE, n, x)])
      BY <3>2, <3>3 DEF Keeps, Junk
    <3>6. \A x \in Vs : Keeps(e, [e EXCEPT !.sig.v = x])
      BY <3>1, ForgedSigners DEF Keeps
    <3>7. \A p \in PubKeys : Keeps(e, [e EXCEPT !.pub = p])
      BY <3>1, ForgedSigners DEF Keeps
    <3>8. \A b \in Bodies : Keeps(e, [e EXCEPT !.body = b])
      BY <3>1, ForgedSigners DEF Keeps
    <3>9. QED
      BY <3>4, <3>5, <3>6, <3>7, <3>8
  <2>2. PICK e \in relay : \E f : /\ Keeps(e, f)
                                  /\ relay' = relay \cup {f}
                                  /\ UNCHANGED <<evt, signed, issued, last>>
    BY <1>5, <2>1 DEF ForgeSig, ForgeFields, Forge
  <2>3. PICK f : /\ Keeps(e, f)
                 /\ relay' = relay \cup {f}
                 /\ UNCHANGED <<evt, signed, issued, last>>
    BY <2>2
  <2>4. SigsSigned'
    BY <2>2, <2>3 DEF IInv, SigsSigned, Keeps
  <2>5. QED
    BY <1>1, <2>3, <2>4 DEF IInv, IssuedGenuine, LastConsistent
<1>6. CASE Check
  BY <1>1, <1>6 DEF Check, IInv, SigsSigned, IssuedGenuine, LastConsistent
<1>7. CASE UNCHANGED vars
  BY <1>1, <1>7 DEF vars, IInv, SigsSigned, IssuedGenuine, LastConsistent
<1>8. QED
  BY <1>2, <1>3, <1>4, <1>5, <1>6, <1>7 DEF Next

-----------------------------------------------------------------------------
(* The two properties.                                                     *)

LEMMA IInvSound == SignatureAssumption /\ IInv => Sound
<1> SUFFICES ASSUME SignatureAssumption, IInv, last # None, last.out = "true"
             PROVE  [key |-> last.env.pub, msg |-> Serialize(last.env)] \in signed
  BY DEF Sound
<1>1. last.env \in relay /\ "true" \in CheckSignature(last.env)
  BY DEF IInv, LastConsistent
<1>2. last.env \in Envelopes
  BY <1>1 DEF IInv, TypeOK
<1>3. /\ last.env.sig.signer \in Keys
      /\ last.env.sig.signer = last.env.pub
      /\ last.env.sig.msg = Serialize(last.env)
  BY <1>1, <1>2, CheckAccepts
<1>4. QED
  BY <1>1, <1>3 DEF IInv, SigsSigned

\* The wallet form of an issued envelope keeps its PubKey and body, hence
\* its serialisation, and its signature but for the last byte.
LEMMA WalletFormGenuine ==
  ASSUME SignatureAssumption, IInv, NEW i \in issued, WalletForm(i) \in Envelopes
  PROVE  /\ WalletForm(i).pub \in Keys
         /\ i.sig.rid \in {0, 1}
         /\ WalletForm(i).sig.hexok = TRUE /\ WalletForm(i).sig.len = 65
         /\ WalletForm(i).sig.v = i.sig.rid + 27
         /\ WalletForm(i).sig.signer = WalletForm(i).pub
         /\ WalletForm(i).sig.msg = Serialize(WalletForm(i))
         /\ WalletForm(i).sig.rid = i.sig.rid
<1>1. i \in Envelopes /\ i.pub \in Keys
      /\ i.sig = [hexok |-> TRUE, len |-> 65, v |-> i.sig.rid,
                  signer |-> i.pub, msg |-> Serialize(i), rid |-> i.sig.rid]
  BY DEF IInv, IssuedGenuine, TypeOK
<1>2. i.sig \in Sigs /\ i.sig.rid \in {0, 1}
  BY <1>1 DEF Envelopes, Sigs
<1>3. WalletForm(i).pub = i.pub /\ Serialize(WalletForm(i)) = Serialize(i)
  BY <1>1 DEF WalletForm, Serialize, Envelopes
<1>4. WalletForm(i).sig = [i.sig EXCEPT !.v = i.sig.rid + 27]
  BY <1>1 DEF WalletForm, Envelopes
<1>5. /\ WalletForm(i).sig.hexok = i.sig.hexok /\ WalletForm(i).sig.len = i.sig.len
      /\ WalletForm(i).sig.v = i.sig.rid + 27
      /\ WalletForm(i).sig.signer = i.sig.signer /\ WalletForm(i).sig.msg = i.sig.msg
      /\ WalletForm(i).sig.rid = i.sig.rid
  BY <1>2, <1>4 DEF Sigs
<1>6. QED
  BY <1>1, <1>2, <1>3, <1>5

LEMMA IInvComplete == SignatureAssumption /\ IInv => Complete
<1> SUFFICES ASSUME SignatureAssumption, IInv, last # None,
                    last.env \in issued \/ \E i \in issued : last.env = WalletForm(i)
             PROVE  last.out = "true"
  BY DEF Complete
<1>1. last.env \in Envelopes
  BY DEF IInv, LastConsistent, TypeOK
<1>2. CheckSignature(last.env) = {"true"}
  <2>1. CASE last.env \in issued
    <3>1. last.env.pub \in Keys
          /\ last.env.sig = [hexok |-> TRUE, len |-> 65, v |-> last.env.sig.rid,
                             signer |-> last.env.pub, msg |-> Serialize(last.env),
                             rid |-> last.env.sig.rid]
      BY <2>1 DEF IInv, IssuedGenuine
    <3>2. last.env.sig.rid \in {0, 1}
      BY <1>1, <3>1 DEF Sigs, Envelopes
    <3>3. /\ last.env.sig.hexok = TRUE /\ last.env.sig.len = 65
          /\ last.env.sig.v = last.env.sig.rid
          /\ last.env.sig.signer = last.env.pub
          /\ last.env.sig.msg = Serialize(last.env)
      BY <3>1
    <3>4. last.env.sig.rid \in {last.env.sig.rid, last.env.sig.rid + 27}
      OBVIOUS
    <3>5. QED
      BY <1>1, <3>1, <3>2, <3>3, <3>4, GenuineAccepted
  <2>2. CASE \E i \in issued : last.env = WalletForm(i)
    <3>1. PICK i \in issued : last.env = WalletForm(i)
      BY <2>2
    <3>2. WalletForm(i) \in Envelopes
      BY <1>1, <3>1
    <3>3. /\ WalletForm(i).pub \in Keys
          /\ i.sig.rid \in {0, 1}
          /\ WalletForm(i).sig.hexok = TRUE /\ WalletForm(i).sig.len = 65
          /\ WalletForm(i).sig.v = i.sig.rid + 27
          /\ WalletForm(i).sig.signer = WalletForm(i).pub
          /\ WalletForm(i).sig.msg = Serialize(WalletForm(i))
          /\ WalletForm(i).sig.rid = i.sig.rid
      BY <3>2, WalletFormGenuine
    <3>4. /\ last.env.pub \in Keys
          /\ i.sig.rid \in {0, 1}
          /\ last.env.sig.hexok = TRUE /\ last.env.sig.len = 65
          /\ last.env.sig.v = i.sig.rid + 27
          /\ last.env.sig.signer = last.env.pub
          /\ last.env.sig.msg = Serialize(last.env)
          /\ last.env.sig.rid = i.sig.rid
      BY <3>1, <3>3, Zenon
    <3>5. i.sig.rid + 27 \in {i.sig.rid, i.sig.rid + 27}
      OBVIOUS
    <3>6. QED
      BY <1>1, <3>4, <3>5, GenuineAccepted
  <2>3. QED
    BY <2>1, <2>2
<1>3. QED
  BY <1>2 DEF IInv, LastConsistent

(* Authenticity (Sound, checked by the signature run): whatever envelopes *)
(* producers sign and edit and forgers publish, CheckSignature returns    *)
(* true only for an envelope whose PubKey's key signed exactly its        *)
(* serialisation, for every set of keys, bodies and forged signatures.    *)
THEOREM SoundCorrect == Spec => []Sound
<1>1. SignatureAssumption /\ Init => IInv
  BY IInvInit
<1>2. SignatureAssumption /\ IInv /\ [Next]_vars => IInv'
  BY IInvNext
<1>3. SignatureAssumption /\ IInv => Sound
  BY IInvSound
<1>4. QED
  BY <1>1, <1>2, <1>3, SignatureAssumption, PTL DEF Spec

(* Completeness (Complete, checked by the signature run): every envelope  *)
(* exactly as Sign left it verifies, so Sign's order (address into        *)
(* PubKey, serialise, sign) matches what CheckSignature recomputes, and   *)
(* so does it with the wallet form rid + 27 of its last byte.             *)
THEOREM CompleteCorrect == Spec => []Complete
<1>1. SignatureAssumption /\ Init => IInv
  BY IInvInit
<1>2. SignatureAssumption /\ IInv /\ [Next]_vars => IInv'
  BY IInvNext
<1>3. SignatureAssumption /\ IInv => Complete
  BY IInvComplete
<1>4. QED
  BY <1>1, <1>2, <1>3, SignatureAssumption, PTL DEF Spec

=============================================================================
