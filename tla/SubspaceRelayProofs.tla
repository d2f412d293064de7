------------------------- MODULE SubspaceRelayProofs -------------------------
(***************************************************************************)
(* Proofs about SubspaceRelay for every value of the constants.            *)
(***************************************************************************)
EXTENDS SubspaceRelay, WellFoundedInduction, TLAPS

-----------------------------------------------------------------------------
(* The decoders' "last tag wins" is well defined: a nonempty set of tag    *)
(* positions has a greatest element.                                       *)

LEMMA MaxExists ==
  ASSUME NEW n \in Nat, NEW P \in SUBSET (0 .. n), P # {}
  PROVE  \E i \in P : \A j \in P : j <= i
<1> DEFINE T == {d \in Nat : n - d \in P}
<1>1. T \subseteq Nat /\ T # {}
  <2>1. PICK i \in P : TRUE
    OBVIOUS
  <2>2. n - i \in T
    OBVIOUS
  <2>3. QED
    BY <2>2
<1>2. PICK x \in T : \A y \in T : ~(<<y, x>> \in OpToRel(<, Nat))
  BY <1>1, NatLessThanWellFounded, WFMin
<1>3. \A y \in T : ~(y < x)
  BY <1>2 DEF OpToRel
<1>4. n - x \in P /\ \A j \in P : n - j \in T
  OBVIOUS
<1>5. QED
  BY <1>3, <1>4

LEMMA LastPosition ==
  ASSUME NEW tags \in Seq(Tag), NEW k, KeyPositions(tags, k) # {}
  PROVE  LET i == CHOOSE i \in KeyPositions(tags, k) :
                    \A j \in KeyPositions(tags, k) : j <= i
         IN  /\ i \in 1 .. Len(tags)
             /\ HasKey(tags[i], k)
             /\ \A j \in KeyPositions(tags, k) : j <= i
<1>0. Len(tags) \in Nat
  OBVIOUS
<1>1. KeyPositions(tags, k) \in SUBSET (0 .. Len(tags))
  BY <1>0 DEF KeyPositions
<1>2. \E i \in KeyPositions(tags, k) : \A j \in KeyPositions(tags, k) : j <= i
  BY <1>0, <1>1, MaxExists, Zenon
<1>3. QED
  BY <1>2 DEF KeyPositions

-----------------------------------------------------------------------------
(* Typing of the tag codec.                                                *)

\* A tag with a string key carries a string value, a tag with key "sid" an ID.
LEMMA TagValueType ==
  ASSUME NEW t \in Tag, NEW k, HasKey(t, k)
  PROVE  /\ k \in StrKeys => t[2] \in TagValues
         /\ k = SidKey => t[2] \in Sid
BY DEF Tag, HasKey, StrKeys, SidKey

LEMMA LastValueType ==
  ASSUME NEW tags \in Seq(Tag), NEW k, NEW zero
  PROVE  /\ k \in StrKeys /\ zero \in TagValues => LastValue(tags, k, zero) \in TagValues
         /\ k = SidKey /\ zero \in Sid => LastValue(tags, k, zero) \in Sid
<1>1. CASE KeyPositions(tags, k) = {}
  BY <1>1 DEF LastValue
<1>2. CASE KeyPositions(tags, k) # {}
  <2> DEFINE i == CHOOSE i \in KeyPositions(tags, k) :
                    \A j \in KeyPositions(tags, k) : j <= i
  <2>1. i \in 1 .. Len(tags) /\ HasKey(tags[i], k)
    BY <1>2, LastPosition
  <2>2. tags[i] \in Tag
    BY <2>1
  <2>3. LastValue(tags, k, zero) = tags[i][2]
    BY <1>2 DEF LastValue
  <2>4. QED
    BY <2>1, <2>2, <2>3, TagValueType
<1>3. QED
  BY <1>1, <1>2

-----------------------------------------------------------------------------
(* Typing of the typed events.                                             *)

LEMMA ZeroValuesType ==
  /\ "" \in TagValues
  /\ EmptySid \in Sid
  /\ NotJson \in Content
  /\ Kinds \subseteq Nat
<1>1. "" \in TagValues
  BY SpellAssumption DEF TagValues, SpecStrs
<1>2. EmptySid \in Sid
  BY DEF EmptySid, Sid
<1>3. NotJson \in Content
  BY DEF NotJson, Content
<1>4. Kinds \subseteq Nat
  BY DEF Kinds, KindSubspaceCreate, KindSubspaceJoin, KindSubspaceOp
<1>5. QED
  BY <1>1, <1>2, <1>3, <1>4

LEMMA ZeroType ==
  ASSUME NEW e \in Envelope
  PROVE  Zero(e) \in TypedEvent
BY ZeroValuesType DEF Zero, TypedEvent, Envelope

LEMMA NoEventType == NoEvent \in TypedEvent
<1>1. 1 \in Kinds
  BY DEF Kinds
<1>2. <<>> \in Seq(Tag)
  OBVIOUS
<1>3. [kind |-> 1, tags |-> <<>>, content |-> NotJson] \in Envelope
  BY <1>1, <1>2, ZeroValuesType DEF Envelope
<1>4. QED
  BY <1>3, ZeroType DEF NoEvent

LEMMA SidType ==
  ASSUME NEW n \in SpecStrs, NEW o \in SpecStrs, NEW r \in SpecStrs
  PROVE  calculateSubspaceID(n, o, r) \in Sid
<1>1. Spell[n] \in Seq(STRING) /\ Spell[o] \in Seq(STRING) /\ Spell[r] \in Seq(STRING)
  BY SpellAssumption
<1>2. Spell[n] \o Spell[o] \o Spell[r] \in Seq(STRING)
  BY <1>1
<1>3. QED
  BY <1>2 DEF calculateSubspaceID, SidOf, Sid

LEMMA TagType ==
  /\ \A k \in StrKeys, v \in TagValues : <<k, v>> \in Tag
  /\ \A sid \in Sid : <<SidKey, sid>> \in Tag
BY DEF Tag

LEMMA AppendTagType ==
  ASSUME NEW tags \in Seq(Tag), NEW k \in StrKeys, NEW v \in TagValues
  PROVE  Append(tags, <<k, v>>) \in Seq(Tag)
BY TagType

\* The struct a constructor starts from, before its fields are set.
LEMMA BlankType ==
  ASSUME NEW k \in Kinds
  PROVE  Zero([kind |-> k, tags |-> <<>>, content |-> NotJson]) \in TypedEvent
<1>1. <<>> \in Seq(Tag)
  OBVIOUS
<1>2. [kind |-> k, tags |-> <<>>, content |-> NotJson] \in Envelope
  BY <1>1, ZeroValuesType DEF Envelope
<1>3. QED
  BY <1>2, ZeroType

LEMMA KindsMembers ==
  {KindSubspaceCreate, KindSubspaceJoin, KindSubspaceOp} \subseteq Kinds
BY DEF Kinds

LEMMA NewSubspaceCreateEventType ==
  ASSUME NEW n \in SpecStrs, NEW o \in SpecStrs, NEW r \in SpecStrs,
         NEW d \in Vals, NEW i \in Vals
  PROVE  NewSubspaceCreateEvent(n, o, r, d, i) \in TypedEvent
<1> DEFINE sid == calculateSubspaceID(n, o, r)
           base == <<<<"d", "subspace_create">>, <<SidKey, sid>>,
                     <<"subspace_name", n>>, <<"ops", o>>>>
<1>1. sid \in Sid
  BY SidType
<1>2. base \in Seq(Tag)
  BY <1>1, TagType DEF StrKeys, TagValues, DValues
<1>3. (IF r # "" THEN Append(base, <<"rules", r>>) ELSE base) \in Seq(Tag)
  BY <1>2, AppendTagType DEF StrKeys, TagValues
<1>4. Zero([kind |-> KindSubspaceCreate, tags |-> <<>>, content |-> NotJson]) \in TypedEvent
  BY KindsMembers, BlankType
<1>5. JsonContent(d, i) \in Content
  BY DEF JsonContent, Content
<1>6. {n, o, r} \subseteq TagValues /\ {d, i} \subseteq Vals \cup {""}
  BY DEF TagValues
<1>7. QED
  BY <1>1, <1>3, <1>4, <1>5, <1>6 DEF NewSubspaceCreateEvent, TypedEvent

LEMMA NewSubspaceJoinEventType ==
  ASSUME NEW sid \in Sid
  PROVE  NewSubspaceJoinEvent(sid) \in TypedEvent
<1>1. <<<<"d", "subspace_join">>, <<SidKey, sid>>>> \in Seq(Tag)
  BY TagType DEF StrKeys, TagValues, DValues
<1>2. Zero([kind |-> KindSubspaceJoin, tags |-> <<>>, content |-> NotJson]) \in TypedEvent
  BY KindsMembers, BlankType
<1>3. QED
  BY <1>1, <1>2 DEF NewSubspaceJoinEvent, TypedEvent

LEMMA NewSubspaceOpEventType ==
  ASSUME NEW sid \in Sid, NEW op \in SpecStrs
  PROVE  NewSubspaceOpEvent(sid, op) \in TypedEvent
<1>1. <<<<"d", "subspace_op">>, <<SidKey, sid>>, <<"ops", op>>>> \in Seq(Tag)
  BY TagType DEF StrKeys, TagValues, DValues
<1>2. Zero([kind |-> KindSubspaceOp, tags |-> <<>>, content |-> NotJson]) \in TypedEvent
  BY KindsMembers, BlankType
<1>3. op \in TagValues
  BY DEF TagValues
<1>4. QED
  BY <1>1, <1>2, <1>3 DEF NewSubspaceOpEvent, TypedEvent

LEMMA PairSeq ==
  ASSUME NEW S, NEW a \in S, NEW b \in S
  PROVE  <<a, b>> \in Seq(S)
OBVIOUS

LEMMA ConcatTagType ==
  ASSUME NEW s \in Seq(Tag), NEW t \in Seq(Tag)
  PROVE  s \o t \in Seq(Tag)
OBVIOUS

\* The setters of *SubspaceOpEvent keep a typed event typed.
LEMMA RulesTagType ==
  ASSUME NEW r \in TagValues
  PROVE  RulesTag(r) \in Seq(Tag)
<1>1. <<"rules", r>> \in Tag
  BY DEF Tag, StrKeys
<1>2. <<<<"rules", r>>>> \in Seq(Tag) /\ <<>> \in Seq(Tag)
  BY <1>1
<1>3. QED
  BY <1>2 DEF RulesTag

\* One lemma per set of arguments, so that each is usable on its own.
LEMMA SetterTagsType ==
  ASSUME NEW e \in TypedEvent, NEW v \in TagValues
  PROVE  \A k \in StrKeys : Append(e.tags, <<k, v>>) \in Seq(Tag)
BY AppendTagType DEF TypedEvent

LEMMA SettersOneType ==
  ASSUME NEW e \in TypedEvent, NEW v \in Vals
  PROVE  /\ SetContentType(e, v) \in TypedEvent
         /\ SetParent(e, v) \in TypedEvent
         /\ SetContributions(e, v) \in TypedEvent
<1>1. v \in TagValues
  BY DEF TagValues
<1>2. /\ Append(e.tags, <<"content_type", v>>) \in Seq(Tag)
      /\ Append(e.tags, <<"parent", v>>) \in Seq(Tag)
      /\ Append(e.tags, <<"contrib", v>>) \in Seq(Tag)
  BY <1>1, SetterTagsType DEF StrKeys
<1>3. QED
  BY <1>1, <1>2 DEF SetContentType, SetParent, SetContributions, TypedEvent

LEMMA SettersRulesType ==
  ASSUME NEW e \in TypedEvent, NEW v \in Vals, NEW r \in RulesStrs
  PROVE  /\ SetProposal(e, v, r) \in TypedEvent
         /\ SetInvite(e, v, r) \in TypedEvent
<1>1. v \in TagValues /\ r \in TagValues
  BY InputsAssumption DEF TagValues
<1>2. RulesTag(r) \in Seq(Tag)
  BY <1>1, RulesTagType
<1>3. /\ Append(e.tags, <<"proposal_id", v>>) \in Seq(Tag)
      /\ Append(e.tags, <<"invitee_pubkey", v>>) \in Seq(Tag)
  BY <1>1, SetterTagsType DEF StrKeys
<1>4. /\ Append(e.tags, <<"proposal_id", v>>) \o RulesTag(r) \in Seq(Tag)
      /\ Append(e.tags, <<"invitee_pubkey", v>>) \o RulesTag(r) \in Seq(Tag)
  BY <1>2, <1>3, ConcatTagType
<1>5. QED
  BY <1>1, <1>4 DEF SetProposal, SetInvite, TypedEvent

LEMMA SetVoteType ==
  ASSUME NEW e \in TypedEvent, NEW v \in Vals, NEW w \in VoteVals
  PROVE  SetVote(e, v, w) \in TypedEvent
<1>1. v \in TagValues /\ w \in TagValues
  BY DEF TagValues
<1>2. <<"proposal_id", v>> \in Tag /\ <<"vote", w>> \in Tag
  BY <1>1 DEF Tag, StrKeys
<1>3. <<<<"proposal_id", v>>, <<"vote", w>>>> \in Seq(Tag)
  BY <1>2, PairSeq
<1>4. e.tags \in Seq(Tag)
  BY DEF TypedEvent
<1>5. e.tags \o <<<<"proposal_id", v>>, <<"vote", w>>>> \in Seq(Tag)
  BY <1>3, <1>4, ConcatTagType
<1>6. QED
  BY <1>1, <1>5 DEF SetVote, TypedEvent

LEMMA RemoveAtType ==
  ASSUME NEW s \in Seq(Tag), NEW i \in 1 .. Len(s)
  PROVE  RemoveAt(s, i) \in Seq(Tag)
BY DEF RemoveAt

-----------------------------------------------------------------------------
(* Typing of the decoders, validators and parsers.                         *)

LEMMA DecodeType ==
  ASSUME NEW e \in Envelope
  PROVE  /\ DecodeCreate(e) \in TypedEvent
         /\ DecodeJoin(e) \in TypedEvent
         /\ DecodeOp(e) \in TypedEvent
<1>1. Zero(e) \in TypedEvent
  BY ZeroType
<1>2. e.tags \in Seq(Tag) /\ e.content \in Content
  BY DEF Envelope
<1>3. LastValue(e.tags, SidKey, EmptySid) \in Sid
  BY <1>2, ZeroValuesType, LastValueType
<1>4. \A k \in StrKeys : LastValue(e.tags, k, "") \in TagValues
  BY <1>2, ZeroValuesType, LastValueType
<1>5. e.content.desc \in Vals \cup {""} /\ e.content.img \in Vals \cup {""}
  BY <1>2 DEF Content
<1>6. QED
  BY <1>1, <1>3, <1>4, <1>5 DEF DecodeCreate, DecodeJoin, DecodeOp, TypedEvent, StrKeys

LEMMA ValidateType ==
  ASSUME NEW evt \in TypedEvent
  PROVE  /\ ValidateSubspaceCreateEvent(evt) \subseteq Verdict
         /\ ValidateSubspaceJoinEvent(evt) \subseteq Verdict
         /\ ValidateSubspaceOpEvent(evt) \subseteq Verdict
<1>1. \A req \in SUBSET TagKeys : MissingTag(evt.tags, req) \subseteq Verdict
  <2> SUFFICES ASSUME NEW req \in SUBSET TagKeys, NEW k \in req \ PresentKeys(evt.tags)
               PROVE  [err |-> "MissingRequiredField", tag |-> k] \in Verdict
    BY DEF MissingTag
  <2>1. "MissingRequiredField" \in Errors \cup {"none"} /\ k \in TagKeys \cup {""}
    BY DEF Errors
  <2>2. QED
    BY <2>1 DEF Verdict
<1>2. {CreateRequired, JoinRequired, OpRequired} \subseteq SUBSET TagKeys
  BY DEF CreateRequired, JoinRequired, OpRequired, TagKeys, StrKeys
<1>3. \A x \in Errors : Fail(x) \in Verdict
  BY DEF Fail, Verdict
<1>4. Ok \in Verdict
  BY DEF Ok, Verdict
<1>5. OperationVerdict(evt) \in Verdict
  BY <1>3, <1>4 DEF OperationVerdict, Errors
<1>6. QED
  BY <1>1, <1>2, <1>3, <1>4, <1>5
     DEF ValidateSubspaceCreateEvent, ValidateSubspaceJoinEvent,
         ValidateSubspaceOpEvent, Errors

LEMMA ResultsType ==
  ASSUME NEW V \in SUBSET Verdict, NEW evt \in TypedEvent
  PROVE  Results(V, evt) \subseteq Outcome
<1> SUFFICES ASSUME NEW v \in V PROVE Result(v, evt) \in Outcome
  BY DEF Results
<1>1. v.err \in Errors \cup {"none"} /\ v.tag \in TagKeys \cup {""}
  BY DEF Verdict
<1>2. (IF v.err = "none" THEN evt ELSE NoEvent) \in TypedEvent
  BY NoEventType
<1>3. QED
  BY <1>1, <1>2 DEF Result, Outcome

LEMMA ParseType ==
  ASSUME NEW p \in Parsers, NEW e \in Envelope
  PROVE  Parse(p, e) \subseteq Outcome
<1>1. /\ ParseSubspaceCreateEvent(e) \subseteq Outcome
      /\ ParseSubspaceJoinEvent(e) \subseteq Outcome
      /\ ParseSubspaceOpEvent(e) \subseteq Outcome
  <2>1. Result(Fail("InvalidContent"), NoEvent) \in Outcome
    BY NoEventType DEF Result, Fail, Outcome, Errors
  <2>2. QED
    BY <2>1, DecodeType, ValidateType, ResultsType
       DEF ParseSubspaceCreateEvent, ParseSubspaceJoinEvent, ParseSubspaceOpEvent
<1>2. QED
  BY <1>1 DEF Parse, Parsers

-----------------------------------------------------------------------------
(* Type correctness of the relay system.                                   *)

LEMMA EnvelopeOfType ==
  ASSUME NEW evt \in TypedEvent
  PROVE  EnvelopeOf(evt) \in Envelope
BY DEF EnvelopeOf, TypedEvent, Envelope

LEMMA SidInputsType ==
  ASSUME TypeOK
  PROVE  SidInputs \subseteq Sid
<1>1. KnownSids \subseteq Sid
  BY DEF TypeOK, KnownSids, TypedEvent
<1>2. ForeignSids \subseteq Sid
  BY DEF ForeignSids, Sid
<1>3. QED
  BY <1>1, <1>2 DEF SidInputs

LEMMA InitType == Init => TypeOK
<1> SUFFICES ASSUME Init PROVE TypeOK
  OBVIOUS
<1>1. bld \in [Builders -> TypedEvent]
  BY NoEventType DEF Init
<1>2. NoEntry \in LogEntry \cup {NoEntry}
  OBVIOUS
<1>3. QED
  BY <1>1, <1>2 DEF Init, TypeOK

\* A producer step replaces one builder's struct by a typed struct.
LEMMA BuildType ==
  ASSUME TypeOK, NEW b \in Builders, NEW evt \in TypedEvent, Build(b, evt)
  PROVE  TypeOK'
BY DEF Build, TypeOK

LEMMA BuildNextType ==
  ASSUME TypeOK, BuildNext
  PROVE  TypeOK'
<1> PICK b \in Builders :
      \/ CreateSubspace(b) \/ JoinSubspace(b) \/ NewOp(b)
      \/ DoSetContentType(b) \/ DoSetParent(b) \/ DoSetProposal(b)
      \/ DoSetVote(b) \/ DoSetInvite(b) \/ DoSetContributions(b)
  BY DEF BuildNext
<1>0. bld[b] \in TypedEvent
  BY DEF TypeOK
<1>1. CASE CreateSubspace(b)
  <2> PICK n \in Names, o \in OpsSpecs, r \in RulesStrs, d \in Vals, i \in Vals :
        Build(b, NewSubspaceCreateEvent(n, o, r, d, i))
    BY <1>1 DEF CreateSubspace
  <2>1. n \in SpecStrs /\ o \in SpecStrs /\ r \in SpecStrs
    BY InputsAssumption
  <2>2. QED
    BY <2>1, NewSubspaceCreateEventType, BuildType
<1>2. CASE JoinSubspace(b)
  <2> PICK sid \in SidInputs : Build(b, NewSubspaceJoinEvent(sid))
    BY <1>2 DEF JoinSubspace
  <2>1. sid \in Sid
    BY SidInputsType
  <2>2. QED
    BY <2>1, NewSubspaceJoinEventType, BuildType
<1>3. CASE NewOp(b)
  <2> PICK sid \in SidInputs, op \in OpNames : Build(b, NewSubspaceOpEvent(sid, op))
    BY <1>3 DEF NewOp
  <2>1. sid \in Sid /\ op \in SpecStrs
    BY SidInputsType, InputsAssumption
  <2>2. QED
    BY <2>1, NewSubspaceOpEventType, BuildType
<1>4. CASE DoSetContentType(b) \/ DoSetParent(b) \/ DoSetContributions(b)
  <2> PICK v \in Vals : \/ Build(b, SetContentType(bld[b], v))
                        \/ Build(b, SetParent(bld[b], v))
                        \/ Build(b, SetContributions(bld[b], v))
    BY <1>4 DEF DoSetContentType, DoSetParent, DoSetContributions
  <2>1. QED
    BY <1>0, SettersOneType, BuildType
<1>5. CASE DoSetProposal(b) \/ DoSetInvite(b)
  <2> PICK v \in Vals, r \in RulesStrs : \/ Build(b, SetProposal(bld[b], v, r))
                                         \/ Build(b, SetInvite(bld[b], v, r))
    BY <1>5 DEF DoSetProposal, DoSetInvite
  <2>1. QED
    BY <1>0, SettersRulesType, BuildType
<1>6. CASE DoSetVote(b)
  <2> PICK v \in Vals, w \in VoteVals : Build(b, SetVote(bld[b], v, w))
    BY <1>6 DEF DoSetVote
  <2>1. QED
    BY <1>0, SetVoteType, BuildType
<1>7. QED
  BY <1>1, <1>2, <1>3, <1>4, <1>5, <1>6

LEMMA NextType ==
  ASSUME TypeOK, [Next]_vars
  PROVE  TypeOK'
<1>1. CASE BuildNext
  BY <1>1, BuildNextType
<1>2. CASE \E b \in Builders : Publish(b)
  <2> PICK b \in Builders : Publish(b)
    BY <1>2
  <2>1. EnvelopeOf(bld[b]) \in Envelope
    BY EnvelopeOfType DEF TypeOK
  <2>2. QED
    BY <2>1 DEF Publish, TypeOK
<1>3. CASE DropTag
  <2> PICK e \in relay : \E i \in 1 .. Len(e.tags) :
        Forge([e EXCEPT !.tags = RemoveAt(@, i)])
    BY <1>3 DEF DropTag
  <2> PICK i \in 1 .. Len(e.tags) : Forge([e EXCEPT !.tags = RemoveAt(@, i)])
    OBVIOUS
  <2>1. e \in Envelope
    BY DEF TypeOK
  <2>2. RemoveAt(e.tags, i) \in Seq(Tag)
    BY <2>1, RemoveAtType DEF Envelope
  <2>3. [e EXCEPT !.tags = RemoveAt(@, i)] \in Envelope
    BY <2>1, <2>2 DEF Envelope
  <2>4. QED
    BY <2>3 DEF Forge, TypeOK
<1>4. CASE Rekind
  <2> PICK e \in relay, k \in Kinds : Forge([e EXCEPT !.kind = k])
    BY <1>4 DEF Rekind
  <2>1. [e EXCEPT !.kind = k] \in Envelope
    BY DEF TypeOK, Envelope
  <2>2. QED
    BY <2>1 DEF Forge, TypeOK
<1>5. CASE Receive
  <2> PICK e \in relay, p \in Parsers : \E o \in Parse(p, e) :
        /\ last' = [env |-> e, parser |-> p, out |-> o]
        /\ UNCHANGED <<bld, relay>>
    BY <1>5 DEF Receive
  <2> PICK o \in Parse(p, e) :
        /\ last' = [env |-> e, parser |-> p, out |-> o]
        /\ UNCHANGED <<bld, relay>>
    OBVIOUS
  <2>1. e \in Envelope
    BY DEF TypeOK
  <2>2. o \in Outcome
    BY <2>1, ParseType
  <2>3. QED
    BY <2>1, <2>2 DEF TypeOK, LogEntry
<1>6. CASE UNCHANGED vars
  BY <1>6 DEF vars, TypeOK
<1>7. QED
  BY <1>1, <1>2, <1>3, <1>4, <1>5, <1>6 DEF Next

(* Type correctness: in every reachable state every builder's struct, every *)
(* envelope on the relay and the consumer's last Parse result are          *)
(* well-typed; in particular each Parse function, on any envelope a        *)
(* producer may forge, returns an error from the code's list and a typed   *)
(* event.                                                                  *)
THEOREM TypeCorrect == Spec => []TypeOK
<1>1. Init => TypeOK
  BY InitType
<1>2. TypeOK /\ [Next]_vars => TypeOK'
  BY NextType
<1>3. QED
  BY <1>1, <1>2, PTL DEF Spec

-----------------------------------------------------------------------------
(* Fail-closed parsing.                                                    *)

\* The consumer's record holds what its Parse call returned.
ParseConsistent ==
  \/ last = NoEntry
  \/ last.parser \in Parsers /\ last.out \in Parse(last.parser, last.env)

IInv == TypeOK /\ ParseConsistent

\* The decoders copy the envelope and decode the ID from the last "sid" tag.
LEMMA DecodeFields ==
  ASSUME NEW e \in Envelope
  PROVE  /\ DecodeCreate(e).kind = e.kind /\ DecodeCreate(e).tags = e.tags
         /\ DecodeCreate(e).sid = LastValue(e.tags, SidKey, EmptySid)
         /\ DecodeCreate(e).name = LastValue(e.tags, "subspace_name", "")
         /\ DecodeCreate(e).ops = LastValue(e.tags, "ops", "")
         /\ DecodeCreate(e).rules = LastValue(e.tags, "rules", "")
         /\ DecodeJoin(e).kind = e.kind /\ DecodeJoin(e).tags = e.tags
         /\ DecodeJoin(e).sid = LastValue(e.tags, SidKey, EmptySid)
         /\ DecodeOp(e).kind = e.kind /\ DecodeOp(e).tags = e.tags
         /\ DecodeOp(e).sid = LastValue(e.tags, SidKey, EmptySid)
BY DEF DecodeCreate, DecodeJoin, DecodeOp, Zero

\* No error verdict is a nil error.
LEMMA FailNotOk ==
  /\ \A x \in Errors : Fail(x).err # "none"
  /\ \A tags, req : \A v \in MissingTag(tags, req) : v.err # "none"
BY DEF Fail, Errors, MissingTag

\* What each validator has checked when it returns a nil error.
LEMMA ValidateCreateOk ==
  ASSUME NEW evt, NEW v \in ValidateSubspaceCreateEvent(evt), v.err = "none"
  PROVE  /\ evt.kind = KindSubspaceCreate
         /\ CreateRequired \subseteq PresentKeys(evt.tags)
         /\ evt.sid = calculateSubspaceID(evt.name, evt.ops, evt.rules)
         /\ OpsFormatOK(evt.ops)
BY FailNotOk DEF ValidateSubspaceCreateEvent, Errors

LEMMA ValidateJoinOk ==
  ASSUME NEW evt, NEW v \in ValidateSubspaceJoinEvent(evt), v.err = "none"
  PROVE  /\ evt.kind = KindSubspaceJoin
         /\ JoinRequired \subseteq PresentKeys(evt.tags)
         /\ SidFormatOK(evt.sid)
BY FailNotOk DEF ValidateSubspaceJoinEvent, Errors

LEMMA ValidateOpOk ==
  ASSUME NEW evt, NEW v \in ValidateSubspaceOpEvent(evt), v.err = "none"
  PROVE  /\ evt.kind = KindSubspaceOp
         /\ OpRequired \subseteq PresentKeys(evt.tags)
         /\ SidFormatOK(evt.sid)
BY FailNotOk DEF ValidateSubspaceOpEvent, Errors

\* A nil-error result carries the decoded event and came from a nil verdict.
LEMMA ResultsOk ==
  ASSUME NEW V, NEW evt, NEW o \in Results(V, evt), o.err = "none"
  PROVE  \E v \in V : v.err = "none" /\ o.evt = evt
BY DEF Results, Result

LEMMA CalculatedSidFormat ==
  ASSUME NEW n, NEW o, NEW r
  PROVE  SidFormatOK(calculateSubspaceID(n, o, r))
BY DEF SidFormatOK, calculateSubspaceID, SidOf

\* PartsHaveEquals and OpsElementsHaveEquals with the separator and the
\* mark as parameters, so that the arithmetic is done over abstract values.
GapsHaveMark(s, C, Q) ==
  LET Cuts == {0, Len(s) + 1} \cup {i \in 1 .. Len(s) : s[i] = C}
  IN  \A c \in Cuts \ {Len(s) + 1} :
        \E j \in c + 1 .. Len(s) : s[j] = Q /\ \A m \in c + 1 .. j : s[m] # C

ElementsHaveMark(s, C, Q) ==
  LET IsSep(k) == k = 0 \/ k = Len(s) + 1 \/ s[k] = C
  IN  \A i, j \in 0 .. Len(s) + 1 :
        (/\ i < j /\ IsSep(i) /\ IsSep(j)
         /\ \A m \in i + 1 .. j - 1 : s[m] # C)
          => \E m \in i + 1 .. j - 1 : s[m] = Q

\* The gap argument: the first Q after a separator comes before the next C,
\* and the next separator after it is a C or the end, so the Q lies between
\* the two separators.
LEMMA MarkGrammar ==
  ASSUME NEW s \in Seq(STRING), NEW C, NEW Q, GapsHaveMark(s, C, Q)
  PROVE  ElementsHaveMark(s, C, Q)
<1> DEFINE L == Len(s)
<1> SUFFICES ASSUME NEW i \in 0 .. L + 1, NEW j \in 0 .. L + 1, i < j,
                    i = 0 \/ i = L + 1 \/ s[i] = C,
                    j = 0 \/ j = L + 1 \/ s[j] = C
             PROVE  \E m \in i + 1 .. j - 1 : s[m] = Q
  BY DEF ElementsHaveMark
<1>1. L \in Nat
  OBVIOUS
<1>2. i \in ({0, L + 1} \cup {k \in 1 .. L : s[k] = C}) \ {L + 1}
  BY <1>1
<1>3. PICK m \in i + 1 .. L : s[m] = Q /\ \A n \in i + 1 .. m : s[n] # C
  BY <1>2 DEF GapsHaveMark
<1>4. m < j
  BY <1>1, <1>3
<1>5. QED
  BY <1>1, <1>3, <1>4

\* The split check implies the grammar.
LEMMA SplitCheckGrammar ==
  ASSUME NEW s \in Seq(STRING), PartsHaveEquals(s)
  PROVE  OpsElementsHaveEquals(s)
<1>1. GapsHaveMark(s, ",", "=")
  BY Zenon DEF PartsHaveEquals, GapsHaveMark
<1>2. ElementsHaveMark(s, ",", "=")
  BY <1>1, MarkGrammar, Zenon
<1>3. QED
  BY <1>2, Zenon DEF OpsElementsHaveEquals, ElementsHaveMark

\* What a Parse call that returns a typed event has established about its
\* envelope: the conclusion of FailClosed for one call.
AcceptedBy(p, e, o) ==
  LET sid == LastValue(e.tags, SidKey, EmptySid)
  IN  /\ e.kind = ParserKind[p]
      /\ RequiredOf[p] \subseteq PresentKeys(e.tags)
      /\ SidFormatOK(sid)
      /\ o.evt.sid = sid
      /\ p = "create" =>
           sid = calculateSubspaceID(LastValue(e.tags, "subspace_name", ""),
                                     LastValue(e.tags, "ops", ""),
                                     LastValue(e.tags, "rules", ""))
      /\ p = "create" /\ LastValue(e.tags, "ops", "") \in SpecStrs =>
           OpsElementsHaveEquals(Spell[LastValue(e.tags, "ops", "")])

LEMMA ParserTables ==
  /\ ParserKind["create"] = KindSubspaceCreate /\ RequiredOf["create"] = CreateRequired
  /\ ParserKind["join"] = KindSubspaceJoin /\ RequiredOf["join"] = JoinRequired
  /\ ParserKind["op"] = KindSubspaceOp /\ RequiredOf["op"] = OpRequired
BY DEF ParserKind, RequiredOf, Parsers

LEMMA AcceptedCreate ==
  ASSUME NEW e \in Envelope, NEW o \in ParseSubspaceCreateEvent(e), o.err = "none"
  PROVE  AcceptedBy("create", e, o)
<1> DEFINE evt == DecodeCreate(e)
<1>1. e.content.json
  <2>1. Result(Fail("InvalidContent"), NoEvent).err # "none"
    BY DEF Result, Fail
  <2>2. QED
    BY <2>1 DEF ParseSubspaceCreateEvent
<1>2. o \in Results(ValidateSubspaceCreateEvent(evt), evt)
  BY <1>1 DEF ParseSubspaceCreateEvent
<1>3. PICK v \in ValidateSubspaceCreateEvent(evt) : v.err = "none" /\ o.evt = evt
  BY <1>2, ResultsOk
<1>4. /\ evt.kind = KindSubspaceCreate
      /\ CreateRequired \subseteq PresentKeys(evt.tags)
      /\ evt.sid = calculateSubspaceID(evt.name, evt.ops, evt.rules)
      /\ OpsFormatOK(evt.ops)
  BY <1>3, ValidateCreateOk
<1>5. /\ e.kind = KindSubspaceCreate
      /\ CreateRequired \subseteq PresentKeys(e.tags)
      /\ evt.sid = LastValue(e.tags, SidKey, EmptySid)
      /\ evt.sid = calculateSubspaceID(LastValue(e.tags, "subspace_name", ""),
                                       LastValue(e.tags, "ops", ""),
                                       LastValue(e.tags, "rules", ""))
  BY <1>4, DecodeFields
<1>6. SidFormatOK(evt.sid)
  BY <1>4, CalculatedSidFormat
<1>7. LastValue(e.tags, "ops", "") \in SpecStrs =>
        OpsElementsHaveEquals(Spell[LastValue(e.tags, "ops", "")])
  <2>1. PartsHaveEquals(Spell[LastValue(e.tags, "ops", "")])
    BY <1>4, DecodeFields DEF OpsFormatOK
  <2>2. QED
    BY <2>1, SpellAssumption, SplitCheckGrammar
<1>8. QED
  BY <1>3, <1>5, <1>6, <1>7, ParserTables DEF AcceptedBy

LEMMA AcceptedJoin ==
  ASSUME NEW e \in Envelope, NEW o \in ParseSubspaceJoinEvent(e), o.err = "none"
  PROVE  AcceptedBy("join", e, o)
<1> DEFINE evt == DecodeJoin(e)
<1>1. PICK v \in ValidateSubspaceJoinEvent(evt) : v.err = "none" /\ o.evt = evt
  BY ResultsOk DEF ParseSubspaceJoinEvent
<1>2. /\ evt.kind = KindSubspaceJoin
      /\ JoinRequired \subseteq PresentKeys(evt.tags)
      /\ SidFormatOK(evt.sid)
  BY <1>1, ValidateJoinOk
<1>3. QED
  BY <1>1, <1>2, DecodeFields, ParserTables DEF AcceptedBy

LEMMA AcceptedOp ==
  ASSUME NEW e \in Envelope, NEW o \in ParseSubspaceOpEvent(e), o.err = "none"
  PROVE  AcceptedBy("op", e, o)
<1> DEFINE evt == DecodeOp(e)
<1>1. PICK v \in ValidateSubspaceOpEvent(evt) : v.err = "none" /\ o.evt = evt
  BY ResultsOk DEF ParseSubspaceOpEvent
<1>2. /\ evt.kind = KindSubspaceOp
      /\ OpRequired \subseteq PresentKeys(evt.tags)
      /\ SidFormatOK(evt.sid)
  BY <1>1, ValidateOpOk
<1>3. QED
  BY <1>1, <1>2, DecodeFields, ParserTables DEF AcceptedBy

LEMMA Accepted ==
  ASSUME NEW p \in Parsers, NEW e \in Envelope, NEW o \in Parse(p, e), o.err = "none"
  PROVE  AcceptedBy(p, e, o)
<1>1. CASE p = "create"
  BY <1>1, AcceptedCreate DEF Parse
<1>2. CASE p = "join"
  BY <1>2, AcceptedJoin DEF Parse
<1>3. CASE p = "op"
  BY <1>3, AcceptedOp DEF Parse
<1>4. QED
  BY <1>1, <1>2, <1>3 DEF Parsers

LEMMA IInvInit == Init => IInv
BY InitType DEF Init, IInv, ParseConsistent

\* Only Receive writes last, and it writes a result of the Parse call it makes.
LEMMA IInvNext ==
  ASSUME IInv, [Next]_vars
  PROVE  IInv'
<1>1. TypeOK'
  BY NextType DEF IInv
<1>2. CASE Receive
  <2> PICK e \in relay, p \in Parsers : \E o \in Parse(p, e) :
        last' = [env |-> e, parser |-> p, out |-> o]
    BY <1>2 DEF Receive
  <2> PICK o \in Parse(p, e) : last' = [env |-> e, parser |-> p, out |-> o]
    OBVIOUS
  <2>1. QED
    BY <1>1 DEF IInv, ParseConsistent
<1>3. CASE ~Receive
  <2>1. last' = last
    BY <1>3 DEF Next, BuildNext, CreateSubspace, JoinSubspace, NewOp,
       DoSetContentType, DoSetParent, DoSetProposal, DoSetVote, DoSetInvite,
       DoSetContributions, Build, Publish, DropTag, Rekind, Forge, vars
  <2>2. QED
    BY <1>1, <2>1 DEF IInv, ParseConsistent
<1>4. QED
  BY <1>2, <1>3

LEMMA IInvFailClosed == IInv => FailClosed
<1> SUFFICES ASSUME IInv, last.parser # "none", last.out.err = "none"
             PROVE  AcceptedBy(last.parser, last.env, last.out)
  BY DEF FailClosed, AcceptedBy
<1>1. last # NoEntry
  BY DEF NoEntry
<1>2. last.parser \in Parsers /\ last.out \in Parse(last.parser, last.env)
  BY <1>1 DEF IInv, ParseConsistent
<1>3. last.env \in Envelope
  <2>1. last \in LogEntry
    BY <1>1 DEF IInv, TypeOK
  <2>2. QED
    BY <2>1 DEF LogEntry
<1>4. QED
  BY <1>2, <1>3, Accepted

(* Fail-closed parsing (FailClosed, checked by the parse run): in every     *)
(* reachable state, whatever envelopes producers forge, a Parse call that   *)
(* returned a typed event was given an envelope of its kind with every     *)
(* required tag and a well-formed ID, the ID of a Create event being the   *)
(* hash of its decoded name, ops and rules, and the typed event carries    *)
(* the ID of the envelope's last "sid" tag.                                *)
THEOREM FailClosedCorrect == Spec => []FailClosed
<1>1. Init => IInv
  BY IInvInit
<1>2. IInv /\ [Next]_vars => IInv'
  BY IInvNext
<1>3. IInv => FailClosed
  BY IInvFailClosed
<1>4. QED
  BY <1>1, <1>2, <1>3, PTL DEF Spec

=============================================================================
