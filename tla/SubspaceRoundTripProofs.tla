----------------------- MODULE SubspaceRoundTripProofs -----------------------
(***************************************************************************)
(* The round trip of the subspace events (spec section 8) for every value  *)
(* of the constants: whatever constructor and setter calls built a struct, *)
(* the Parse function of its kind returns that struct.                     *)
(*                                                                         *)
(* RoundTrip is not inductive: it speaks of what the parser returns, not   *)
(* of how the struct and its tags go together.  The strengthening says   *)
(* that every typed field of a built struct is the value the decoding loop *)
(* reads back from its tags, the last tag of the field's key, or the zero  *)
(* value when the struct's kind has no such field.  Each constructor and  *)
(* setter keeps this, because it sets a field and appends a tag of that    *)
(* field's key (subspace.go lines 52-89, 202-217, 297-357).               *)
(***************************************************************************)
EXTENDS SubspaceRelayProofs

\* The fields of SubspaceOpEvent decoded from a string tag, with their keys
\* (ParseSubspaceOpEvent, subspace.go lines 425-452).
OpTagKey ==
  [operation |-> "ops", contentType |-> "content_type", parent |-> "parent",
   proposalID |-> "proposal_id", vote |-> "vote", invitee |-> "invitee_pubkey",
   contrib |-> "contrib"]

\* The same for SubspaceCreateEvent (ParseSubspaceCreateEvent, lines 160-174).
CreateTagKey == [name |-> "subspace_name", ops |-> "ops", rules |-> "rules"]

\* The string fields that a struct of each kind does not have.
NotOfOp == {"name", "ops", "rules", "desc", "img"}
NotOfCreate == DOMAIN OpTagKey
NotOfJoin == NotOfOp \cup NotOfCreate

\* A struct whose fields are what the decoder of its kind reads back.
SidFaithful(s) == s.sid = LastValue(s.tags, SidKey, EmptySid)

OpFaithful(s) ==
  /\ s.kind = KindSubspaceOp
  /\ SidFaithful(s)
  /\ \A f \in DOMAIN OpTagKey : s[f] = LastValue(s.tags, OpTagKey[f], "")
  /\ \A f \in NotOfOp : s[f] = ""

CreateFaithful(s) ==
  /\ s.kind = KindSubspaceCreate
  /\ s.content.json
  /\ SidFaithful(s)
  /\ \A f \in DOMAIN CreateTagKey : s[f] = LastValue(s.tags, CreateTagKey[f], "")
  /\ s.desc = s.content.desc /\ s.img = s.content.img
  /\ \A f \in NotOfCreate : s[f] = ""

JoinFaithful(s) ==
  /\ s.kind = KindSubspaceJoin
  /\ SidFaithful(s)
  /\ \A f \in NotOfJoin : s[f] = ""

Faithful(s) == OpFaithful(s) \/ CreateFaithful(s) \/ JoinFaithful(s)

DecodesBack == \A b \in Builders : bld[b] = NoEvent \/ Faithful(bld[b])

RTInv == TypeOK /\ DecodesBack

-----------------------------------------------------------------------------
(* The decoding loop over an appended tag.                                 *)

LEMMA LastValueEmpty ==
  ASSUME NEW k, NEW zero
  PROVE  LastValue(<<>>, k, zero) = zero
BY DEF LastValue, KeyPositions

\* Appending a tag of another key leaves a field's tag positions alone.
LEMMA KeyPositionsAppendOther ==
  ASSUME NEW tags \in Seq(Tag), NEW t \in Tag, NEW k, ~HasKey(t, k)
  PROVE  KeyPositions(Append(tags, t), k) = KeyPositions(tags, k)
BY DEF KeyPositions

LEMMA KeyPositionsAppendSame ==
  ASSUME NEW tags \in Seq(Tag), NEW t \in Tag, NEW k, HasKey(t, k)
  PROVE  KeyPositions(Append(tags, t), k) = KeyPositions(tags, k) \cup {Len(tags) + 1}
BY DEF KeyPositions

\* The loop assigns the field at the appended tag if it has the field's
\* key, after every earlier tag; otherwise the field keeps what it had.
LEMMA LastValueAppend ==
  ASSUME NEW tags \in Seq(Tag), NEW t \in Tag, NEW k, NEW zero
  PROVE  LastValue(Append(tags, t), k, zero) =
           IF HasKey(t, k) THEN t[2] ELSE LastValue(tags, k, zero)
<1> DEFINE T == Append(tags, t)
<1>0. T \in Seq(Tag) /\ Len(T) = Len(tags) + 1 /\ T[Len(tags) + 1] = t
  OBVIOUS
<1>1. CASE HasKey(t, k)
  <2> DEFINE i == CHOOSE i \in KeyPositions(T, k) : \A j \in KeyPositions(T, k) : j <= i
  <2>1. Len(tags) + 1 \in KeyPositions(T, k)
    BY <1>1, KeyPositionsAppendSame
  <2>2. i \in 1 .. Len(T) /\ Len(tags) + 1 <= i
    BY <1>0, <2>1, LastPosition
  <2>3. i = Len(tags) + 1
    BY <1>0, <2>2
  <2>4. LastValue(T, k, zero) = T[i][2]
    BY <2>1 DEF LastValue
  <2>5. QED
    BY <1>0, <1>1, <2>3, <2>4
<1>2. CASE ~HasKey(t, k)
  <2>1. KeyPositions(T, k) = KeyPositions(tags, k)
    BY <1>2, KeyPositionsAppendOther
  <2>2. CASE KeyPositions(tags, k) = {}
    BY <2>1, <2>2, <1>2 DEF LastValue
  <2>3. CASE KeyPositions(tags, k) # {}
    <3> DEFINE i == CHOOSE i \in KeyPositions(tags, k) :
                      \A j \in KeyPositions(tags, k) : j <= i
    <3>1. i \in 1 .. Len(tags)
      BY <2>3, LastPosition
    <3>2. LastValue(T, k, zero) = T[i][2]
      BY <2>1, <2>3, Zenon DEF LastValue
    <3>3. LastValue(tags, k, zero) = tags[i][2]
      BY <2>3 DEF LastValue
    <3>4. T[i] = tags[i]
      BY <3>1
    <3>5. QED
      BY <1>2, <3>2, <3>3, <3>4
  <2>4. QED
    BY <2>2, <2>3
<1>3. QED
  BY <1>1, <1>2

\* A key-value pair as a tag has its key.
LEMMA PairHasKey ==
  ASSUME NEW k, NEW v, NEW j
  PROVE  HasKey(<<k, v>>, j) <=> k = j
BY DEF HasKey

-----------------------------------------------------------------------------
(* The setters of *SubspaceOpEvent keep an Op struct faithful.             *)

LEMMA OpTagKeyFacts ==
  /\ \A f \in DOMAIN OpTagKey : OpTagKey[f] \in StrKeys /\ OpTagKey[f] # SidKey
  /\ \A f, g \in DOMAIN OpTagKey : f # g => OpTagKey[f] # OpTagKey[g]
  /\ \A f \in DOMAIN OpTagKey : OpTagKey[f] # "rules"
  /\ NotOfOp \cap DOMAIN OpTagKey = {}
BY DEF OpTagKey, StrKeys, SidKey, NotOfOp

\* A setter assigns a field and appends a tag with the field's key and
\* value; a struct that differs from a faithful one only so is faithful.
LEMMA OpSetField ==
  ASSUME NEW s \in TypedEvent, OpFaithful(s),
         NEW f \in DOMAIN OpTagKey, NEW v \in TagValues, NEW t \in TypedEvent,
         t.kind = s.kind, t.sid = s.sid, t[f] = v,
         t.tags = Append(s.tags, <<OpTagKey[f], v>>),
         \A g \in (DOMAIN OpTagKey \cup NotOfOp) \ {f} : t[g] = s[g]
  PROVE  OpFaithful(t)
<1> DEFINE tag == <<OpTagKey[f], v>>
<1>1. tag \in Tag /\ s.tags \in Seq(Tag)
  BY OpTagKeyFacts DEF Tag, TypedEvent
<1>2. \A k, z : LastValue(t.tags, k, z) =
                  IF HasKey(tag, k) THEN v ELSE LastValue(s.tags, k, z)
  BY <1>1, LastValueAppend
<1>3. ASSUME NEW g \in DOMAIN OpTagKey
      PROVE  t[g] = LastValue(t.tags, OpTagKey[g], "")
  <2>1. CASE g = f
    <3>1. HasKey(tag, OpTagKey[g])
      BY <2>1, PairHasKey
    <3>2. QED
      BY <2>1, <3>1, <1>2
  <2>2. CASE g # f
    <3>1. t[g] = s[g] /\ ~HasKey(tag, OpTagKey[g])
      BY <2>2, OpTagKeyFacts, PairHasKey
    <3>2. s[g] = LastValue(s.tags, OpTagKey[g], "")
      BY DEF OpFaithful
    <3>3. QED
      BY <3>1, <3>2, <1>2
  <2>3. QED
    BY <2>1, <2>2
<1>6. SidFaithful(t)
  <2>1. ~HasKey(tag, SidKey)
    BY OpTagKeyFacts, PairHasKey
  <2>2. QED
    BY <1>2, <2>1 DEF OpFaithful, SidFaithful
<1>4. ASSUME NEW g \in NotOfOp PROVE t[g] = ""
  BY OpTagKeyFacts DEF OpFaithful
<1>5. QED
  BY <1>3, <1>4, <1>6 DEF OpFaithful

\* The "rules" tag of SetProposal and SetInvite: no field of an Op struct
\* is decoded from it.
LEMMA OpAppendRules ==
  ASSUME NEW s \in TypedEvent, OpFaithful(s), NEW r \in TagValues, NEW t \in TypedEvent,
         t.tags = Append(s.tags, <<"rules", r>>),
         \A g \in DOMAIN OpTagKey \cup NotOfOp \cup {"kind", "sid"} : t[g] = s[g]
  PROVE  OpFaithful(t)
<1> DEFINE tag == <<"rules", r>>
<1>1. tag \in Tag /\ s.tags \in Seq(Tag)
  BY DEF Tag, StrKeys, TypedEvent
<1>2. ~HasKey(tag, SidKey) /\ \A g \in DOMAIN OpTagKey : ~HasKey(tag, OpTagKey[g])
  BY OpTagKeyFacts, PairHasKey DEF SidKey
<1>3. \A k, z : LastValue(t.tags, k, z) =
                  IF HasKey(tag, k) THEN r ELSE LastValue(s.tags, k, z)
  BY <1>1, LastValueAppend
<1>4. QED
  BY <1>2, <1>3 DEF OpFaithful, SidFaithful

\* The concatenations of SetProposal, SetInvite and SetVote as appends.
LEMMA ConcatAsAppend ==
  ASSUME NEW tags \in Seq(Tag), NEW a, NEW b
  PROVE  /\ tags \o <<>> = tags
         /\ tags \o <<a>> = Append(tags, a)
         /\ tags \o <<a, b>> = Append(Append(tags, a), b)
OBVIOUS

\* SetContentType, SetParent and SetContributions (subspace.go lines
\* 317-326, 354-357).
LEMMA SettersOneFaithful ==
  ASSUME NEW s \in TypedEvent, OpFaithful(s), NEW v \in Vals
  PROVE  /\ OpFaithful(SetContentType(s, v))
         /\ OpFaithful(SetParent(s, v))
         /\ OpFaithful(SetContributions(s, v))
<1>0. v \in TagValues
  BY DEF TagValues
<1>1. OpFaithful(SetContentType(s, v))
  <2> DEFINE t == SetContentType(s, v)
  <2>1. t \in TypedEvent
    BY SettersOneType
  <2>2. /\ t.kind = s.kind /\ t.sid = s.sid /\ t["contentType"] = v
        /\ t.tags = Append(s.tags, <<OpTagKey["contentType"], v>>)
        /\ \A g \in (DOMAIN OpTagKey \cup NotOfOp) \ {"contentType"} : t[g] = s[g]
    BY DEF SetContentType, OpTagKey, NotOfOp, TypedEvent
  <2>3. QED
    BY <1>0, <2>1, <2>2, OpSetField DEF OpTagKey
<1>2. OpFaithful(SetParent(s, v))
  <2> DEFINE t == SetParent(s, v)
  <2>1. t \in TypedEvent
    BY SettersOneType
  <2>2. /\ t.kind = s.kind /\ t.sid = s.sid /\ t["parent"] = v
        /\ t.tags = Append(s.tags, <<OpTagKey["parent"], v>>)
        /\ \A g \in (DOMAIN OpTagKey \cup NotOfOp) \ {"parent"} : t[g] = s[g]
    BY DEF SetParent, OpTagKey, NotOfOp, TypedEvent
  <2>3. QED
    BY <1>0, <2>1, <2>2, OpSetField DEF OpTagKey
<1>3. OpFaithful(SetContributions(s, v))
  <2> DEFINE t == SetContributions(s, v)
  <2>1. t \in TypedEvent
    BY SettersOneType
  <2>2. /\ t.kind = s.kind /\ t.sid = s.sid /\ t["contrib"] = v
        /\ t.tags = Append(s.tags, <<OpTagKey["contrib"], v>>)
        /\ \A g \in (DOMAIN OpTagKey \cup NotOfOp) \ {"contrib"} : t[g] = s[g]
    BY DEF SetContributions, OpTagKey, NotOfOp, TypedEvent
  <2>3. QED
    BY <1>0, <2>1, <2>2, OpSetField DEF OpTagKey
<1>4. QED
  BY <1>1, <1>2, <1>3

\* SetProposal and SetInvite (lines 329-335, 345-351): the field's tag and,
\* for non-empty rules, a "rules" tag.
LEMMA SettersRulesFaithful ==
  ASSUME NEW s \in TypedEvent, OpFaithful(s), NEW v \in Vals, NEW r \in RulesStrs
  PROVE  /\ OpFaithful(SetProposal(s, v, r))
         /\ OpFaithful(SetInvite(s, v, r))
<1>0. v \in TagValues /\ r \in TagValues /\ s.tags \in Seq(Tag)
  BY InputsAssumption DEF TagValues, TypedEvent
<1>1. OpFaithful(SetProposal(s, v, r))
  <2> DEFINE u == [s EXCEPT !.proposalID = v,
                            !.tags = Append(@, <<"proposal_id", v>>)]
             t == SetProposal(s, v, r)
  <2>1. u \in TypedEvent
    <3>1. Append(s.tags, <<"proposal_id", v>>) \in Seq(Tag)
      BY <1>0, SetterTagsType DEF StrKeys
    <3>2. QED
      BY <1>0, <3>1 DEF TypedEvent
  <2>2. OpFaithful(u)
    <3>1. /\ u.kind = s.kind /\ u.sid = s.sid /\ u["proposalID"] = v
          /\ u.tags = Append(s.tags, <<OpTagKey["proposalID"], v>>)
          /\ \A g \in (DOMAIN OpTagKey \cup NotOfOp) \ {"proposalID"} : u[g] = s[g]
      BY DEF OpTagKey, NotOfOp, TypedEvent
    <3>2. QED
      BY <1>0, <2>1, <3>1, OpSetField DEF OpTagKey
  <2>3. t \in TypedEvent /\ u.tags \in Seq(Tag)
    BY <2>1, SettersRulesType DEF TypedEvent
  <2>4. CASE r = ""
    <3>1. t = u
      BY <2>3, <2>4, ConcatAsAppend DEF SetProposal, RulesTag
    <3>2. QED
      BY <2>2, <3>1
  <2>5. CASE r # ""
    <3>1. /\ t.tags = Append(u.tags, <<"rules", r>>)
          /\ \A g \in DOMAIN OpTagKey \cup NotOfOp \cup {"kind", "sid"} : t[g] = u[g]
      BY <2>3, <2>5, ConcatAsAppend DEF SetProposal, RulesTag, OpTagKey, NotOfOp, TypedEvent
    <3>2. QED
      BY <1>0, <2>1, <2>2, <2>3, <3>1, OpAppendRules
  <2>6. QED
    BY <2>4, <2>5
<1>2. OpFaithful(SetInvite(s, v, r))
  <2> DEFINE u == [s EXCEPT !.invitee = v,
                            !.tags = Append(@, <<"invitee_pubkey", v>>)]
             t == SetInvite(s, v, r)
  <2>1. u \in TypedEvent
    <3>1. Append(s.tags, <<"invitee_pubkey", v>>) \in Seq(Tag)
      BY <1>0, SetterTagsType DEF StrKeys
    <3>2. QED
      BY <1>0, <3>1 DEF TypedEvent
  <2>2. OpFaithful(u)
    <3>1. /\ u.kind = s.kind /\ u.sid = s.sid /\ u["invitee"] = v
          /\ u.tags = Append(s.tags, <<OpTagKey["invitee"], v>>)
          /\ \A g \in (DOMAIN OpTagKey \cup NotOfOp) \ {"invitee"} : u[g] = s[g]
      BY DEF OpTagKey, NotOfOp, TypedEvent
    <3>2. QED
      BY <1>0, <2>1, <3>1, OpSetField DEF OpTagKey
  <2>3. t \in TypedEvent /\ u.tags \in Seq(Tag)
    BY <2>1, SettersRulesType DEF TypedEvent
  <2>4. CASE r = ""
    <3>1. t = u
      BY <2>3, <2>4, ConcatAsAppend DEF SetInvite, RulesTag
    <3>2. QED
      BY <2>2, <3>1
  <2>5. CASE r # ""
    <3>1. /\ t.tags = Append(u.tags, <<"rules", r>>)
          /\ \A g \in DOMAIN OpTagKey \cup NotOfOp \cup {"kind", "sid"} : t[g] = u[g]
      BY <2>3, <2>5, ConcatAsAppend DEF SetInvite, RulesTag, OpTagKey, NotOfOp, TypedEvent
    <3>2. QED
      BY <1>0, <2>1, <2>2, <2>3, <3>1, OpAppendRules
  <2>6. QED
    BY <2>4, <2>5
<1>3. QED
  BY <1>1, <1>2

\* SetVote (lines 338-342): the proposal's tag, then the vote's.
LEMMA SetVoteFaithful ==
  ASSUME NEW s \in TypedEvent, OpFaithful(s), NEW v \in Vals, NEW w \in VoteVals
  PROVE  OpFaithful(SetVote(s, v, w))
<1> DEFINE u == [s EXCEPT !.proposalID = v,
                          !.tags = Append(@, <<"proposal_id", v>>)]
           t == SetVote(s, v, w)
<1>0. v \in TagValues /\ w \in TagValues /\ s.tags \in Seq(Tag)
  BY DEF TagValues, TypedEvent
<1>1. u \in TypedEvent
  <2>1. Append(s.tags, <<"proposal_id", v>>) \in Seq(Tag)
    BY <1>0, SetterTagsType DEF StrKeys
  <2>2. QED
    BY <1>0, <2>1 DEF TypedEvent
<1>2. OpFaithful(u)
  <2>1. /\ u.kind = s.kind /\ u.sid = s.sid /\ u["proposalID"] = v
        /\ u.tags = Append(s.tags, <<OpTagKey["proposalID"], v>>)
        /\ \A g \in (DOMAIN OpTagKey \cup NotOfOp) \ {"proposalID"} : u[g] = s[g]
    BY DEF OpTagKey, NotOfOp, TypedEvent
  <2>2. QED
    BY <1>0, <1>1, <2>1, OpSetField DEF OpTagKey
<1>3. t \in TypedEvent
  BY SetVoteType
<1>4. /\ t.kind = u.kind /\ t.sid = u.sid /\ t["vote"] = w
      /\ \A g \in (DOMAIN OpTagKey \cup NotOfOp) \ {"vote"} : t[g] = u[g]
  BY DEF SetVote, OpTagKey, NotOfOp, TypedEvent
<1>6. t.tags = Append(u.tags, <<OpTagKey["vote"], w>>)
  <2>1. t.tags = s.tags \o <<<<"proposal_id", v>>, <<"vote", w>>>>
    BY DEF SetVote, TypedEvent
  <2>2. u.tags = Append(s.tags, <<"proposal_id", v>>)
    BY DEF TypedEvent
  <2>3. s.tags \o <<<<"proposal_id", v>>, <<"vote", w>>>>
          = Append(Append(s.tags, <<"proposal_id", v>>), <<"vote", w>>)
    BY <1>0, ConcatAsAppend
  <2>4. OpTagKey["vote"] = "vote"
    BY DEF OpTagKey
  <2>5. QED
    BY <2>1, <2>2, <2>3, <2>4
<1>5. QED
  BY <1>0, <1>1, <1>2, <1>3, <1>4, <1>6, OpSetField DEF OpTagKey

-----------------------------------------------------------------------------
(* The constructors build faithful structs.                                *)

\* The decoding loop over a tag list read position by position: the field
\* gets the value of the last tag with its key, or keeps its zero value.
LEMMA LastValueAt ==
  ASSUME NEW tags \in Seq(Tag), NEW k, NEW z, NEW m \in 1 .. Len(tags),
         HasKey(tags[m], k),
         \A i \in 1 .. Len(tags) : HasKey(tags[i], k) => i <= m
  PROVE  LastValue(tags, k, z) = tags[m][2]
<1> DEFINE i == CHOOSE i \in KeyPositions(tags, k) : \A j \in KeyPositions(tags, k) : j <= i
<1>1. m \in KeyPositions(tags, k)
  BY DEF KeyPositions
<1>2. i \in 1 .. Len(tags) /\ HasKey(tags[i], k) /\ m <= i
  BY <1>1, LastPosition
<1>3. i = m
  BY <1>2
<1>4. QED
  BY <1>1, <1>3 DEF LastValue

LEMMA LastValueNone ==
  ASSUME NEW tags \in Seq(Tag), NEW k, NEW z,
         \A i \in 1 .. Len(tags) : ~HasKey(tags[i], k)
  PROVE  LastValue(tags, k, z) = z
BY DEF LastValue, KeyPositions

\* NewSubspaceOpEvent (lines 297-314): "d", "sid" and "ops" tags.
LEMMA NewOpFaithful ==
  ASSUME NEW sid \in Sid, NEW op \in SpecStrs
  PROVE  OpFaithful(NewSubspaceOpEvent(sid, op))
<1> DEFINE e == NewSubspaceOpEvent(sid, op)
<1>1. e.tags = <<<<"d", "subspace_op">>, <<SidKey, sid>>, <<"ops", op>>>>
  BY DEF NewSubspaceOpEvent, Zero
<1>2. e.tags \in Seq(Tag) /\ Len(e.tags) = 3
  <2>1. <<"d", "subspace_op">> \in Tag /\ <<SidKey, sid>> \in Tag /\ <<"ops", op>> \in Tag
    BY DEF Tag, StrKeys, TagValues, DValues, SidKey, TagKeys
  <2>2. QED
    BY <1>1, <2>1
<1>3. e.kind = KindSubspaceOp /\ e.sid = sid /\ e.operation = op
  BY DEF NewSubspaceOpEvent, Zero
<1>4. /\ e.name = "" /\ e.ops = "" /\ e.rules = "" /\ e.desc = "" /\ e.img = ""
      /\ e.contentType = "" /\ e.parent = "" /\ e.proposalID = ""
      /\ e.vote = "" /\ e.invitee = "" /\ e.contrib = ""
  BY DEF NewSubspaceOpEvent, Zero
<1>5. LastValue(e.tags, SidKey, EmptySid) = sid
  <2>1. HasKey(e.tags[2], SidKey) /\ e.tags[2][2] = sid
    BY <1>1 DEF HasKey
  <2>2. \A i \in 1 .. 3 : HasKey(e.tags[i], SidKey) => i <= 2
    BY <1>1 DEF HasKey, SidKey
  <2>3. QED
    BY <1>2, <2>1, <2>2, LastValueAt
<1>6. LastValue(e.tags, "ops", "") = op
  <2>1. HasKey(e.tags[3], "ops") /\ e.tags[3][2] = op
    BY <1>1 DEF HasKey
  <2>2. \A i \in 1 .. Len(e.tags) : HasKey(e.tags[i], "ops") => i <= 3
    BY <1>2
  <2>3. 3 \in 1 .. Len(e.tags) /\ e.tags \in Seq(Tag)
    BY <1>2
  <2>4. QED
    BY <2>1, <2>2, <2>3, LastValueAt, Zenon
<1>7. ASSUME NEW k \in {"content_type", "parent", "proposal_id", "vote",
                        "invitee_pubkey", "contrib"}
      PROVE  LastValue(e.tags, k, "") = ""
  <2>1. \A i \in 1 .. 3 : ~HasKey(e.tags[i], k)
    BY <1>1 DEF HasKey, SidKey
  <2>2. QED
    BY <1>2, <2>1, LastValueNone
<1>8. \A f \in DOMAIN OpTagKey : e[f] = LastValue(e.tags, OpTagKey[f], "")
  <2>1. DOMAIN OpTagKey = {"operation", "contentType", "parent", "proposalID",
                           "vote", "invitee", "contrib"}
    BY DEF OpTagKey
  <2>2. e.operation = LastValue(e.tags, "ops", "")
    BY <1>3, <1>6
  <2>3. /\ e.contentType = LastValue(e.tags, "content_type", "")
        /\ e.parent = LastValue(e.tags, "parent", "")
        /\ e.proposalID = LastValue(e.tags, "proposal_id", "")
        /\ e.vote = LastValue(e.tags, "vote", "")
        /\ e.invitee = LastValue(e.tags, "invitee_pubkey", "")
        /\ e.contrib = LastValue(e.tags, "contrib", "")
    BY <1>4, <1>7
  <2>4. /\ OpTagKey["operation"] = "ops" /\ OpTagKey["contentType"] = "content_type"
        /\ OpTagKey["parent"] = "parent" /\ OpTagKey["proposalID"] = "proposal_id"
        /\ OpTagKey["vote"] = "vote" /\ OpTagKey["invitee"] = "invitee_pubkey"
        /\ OpTagKey["contrib"] = "contrib"
    BY DEF OpTagKey
  <2>5. QED
    BY <2>1, <2>2, <2>3, <2>4, Zenon
<1>9. QED
  BY <1>3, <1>4, <1>5, <1>8 DEF OpFaithful, SidFaithful, NotOfOp

\* NewSubspaceJoinEvent (lines 202-217): "d" and "sid" tags.
LEMMA NewJoinFaithful ==
  ASSUME NEW sid \in Sid
  PROVE  JoinFaithful(NewSubspaceJoinEvent(sid))
<1> DEFINE e == NewSubspaceJoinEvent(sid)
<1>1. e.tags = <<<<"d", "subspace_join">>, <<SidKey, sid>>>>
  BY DEF NewSubspaceJoinEvent, Zero
<1>2. e.tags \in Seq(Tag) /\ Len(e.tags) = 2
  <2>1. <<"d", "subspace_join">> \in Tag /\ <<SidKey, sid>> \in Tag
    BY DEF Tag, StrKeys, TagValues, DValues, SidKey, TagKeys
  <2>2. QED
    BY <1>1, <2>1
<1>3. e.kind = KindSubspaceJoin /\ e.sid = sid
  BY DEF NewSubspaceJoinEvent, Zero
<1>4. /\ e.name = "" /\ e.ops = "" /\ e.rules = "" /\ e.desc = "" /\ e.img = ""
      /\ e.operation = "" /\ e.contentType = "" /\ e.parent = ""
      /\ e.proposalID = "" /\ e.vote = "" /\ e.invitee = "" /\ e.contrib = ""
  BY DEF NewSubspaceJoinEvent, Zero
<1>5. LastValue(e.tags, SidKey, EmptySid) = sid
  <2>1. HasKey(e.tags[2], SidKey) /\ e.tags[2][2] = sid
    BY <1>1 DEF HasKey
  <2>2. \A i \in 1 .. 2 : HasKey(e.tags[i], SidKey) => i <= 2
    OBVIOUS
  <2>3. QED
    BY <1>2, <2>1, <2>2, LastValueAt
<1>6. QED
  BY <1>3, <1>4, <1>5 DEF JoinFaithful, SidFaithful, NotOfJoin, NotOfOp,
                          NotOfCreate, OpTagKey

\* The decoding loop over the tags of a Create struct.
LEMMA CreateTagsDecode ==
  ASSUME NEW ts \in Seq(Tag), Len(ts) \in {4, 5},
         \A j \in 1 .. Len(ts) : Len(ts[j]) = 2,
         ts[1][1] = "d", ts[2][1] = SidKey, ts[3][1] = "subspace_name",
         ts[4][1] = "ops", Len(ts) = 5 => ts[5][1] = "rules"
  PROVE  /\ LastValue(ts, SidKey, EmptySid) = ts[2][2]
         /\ LastValue(ts, "subspace_name", "") = ts[3][2]
         /\ LastValue(ts, "ops", "") = ts[4][2]
         /\ LastValue(ts, "rules", "") = IF Len(ts) = 5 THEN ts[5][2] ELSE ""
<1>0. 2 \in 1 .. Len(ts) /\ 3 \in 1 .. Len(ts) /\ 4 \in 1 .. Len(ts)
  OBVIOUS
<1>1. HasKey(ts[2], SidKey) /\ HasKey(ts[3], "subspace_name") /\ HasKey(ts[4], "ops")
  <2>1. Len(ts[2]) = 2 /\ Len(ts[3]) = 2 /\ Len(ts[4]) = 2
    BY <1>0
  <2>2. QED
    BY <2>1 DEF HasKey
<1>2. LastValue(ts, SidKey, EmptySid) = ts[2][2]
  <2>1. \A j \in 1 .. Len(ts) : HasKey(ts[j], SidKey) => j <= 2
    BY DEF HasKey, SidKey
  <2>2. QED
    BY <1>0, <1>1, <2>1, LastValueAt
<1>3. LastValue(ts, "subspace_name", "") = ts[3][2]
  <2>1. \A j \in 1 .. Len(ts) : HasKey(ts[j], "subspace_name") => j <= 3
    BY DEF HasKey, SidKey
  <2>2. QED
    BY <1>0, <1>1, <2>1, LastValueAt
<1>4. LastValue(ts, "ops", "") = ts[4][2]
  <2>1. \A j \in 1 .. Len(ts) : HasKey(ts[j], "ops") => j <= 4
    BY DEF HasKey, SidKey
  <2>2. QED
    BY <1>0, <1>1, <2>1, LastValueAt
<1>5. LastValue(ts, "rules", "") = IF Len(ts) = 5 THEN ts[5][2] ELSE ""
  <2>1. CASE Len(ts) = 5
    <3>1. 5 \in 1 .. Len(ts) /\ HasKey(ts[5], "rules")
      BY <2>1 DEF HasKey
    <3>2. \A j \in 1 .. Len(ts) : HasKey(ts[j], "rules") => j <= 5
      BY <2>1
    <3>3. LastValue(ts, "rules", "") = ts[5][2]
      BY <3>1, <3>2, LastValueAt
    <3>4. QED
      BY <2>1, <3>3
  <2>2. CASE Len(ts) = 4
    <3>1. \A j \in 1 .. Len(ts) : ~HasKey(ts[j], "rules")
      BY <2>2 DEF HasKey, SidKey
    <3>2. LastValue(ts, "rules", "") = ""
      BY <3>1, LastValueNone, Zenon
    <3>3. Len(ts) # 5
      BY <2>2
    <3>4. QED
      BY <3>2, <3>3, Zenon
  <2>3. QED
    BY <2>1, <2>2
<1>6. QED
  BY <1>2, <1>3, <1>4, <1>5

\* NewSubspaceCreateEvent (lines 52-89): "d", "sid", "subspace_name" and
\* "ops" tags, a "rules" tag for non-empty rules, and the JSON content.
LEMMA NewCreateFaithful ==
  ASSUME NEW n \in SpecStrs, NEW o \in SpecStrs, NEW r \in SpecStrs,
         NEW d \in Vals, NEW i \in Vals
  PROVE  CreateFaithful(NewSubspaceCreateEvent(n, o, r, d, i))
<1> DEFINE e == NewSubspaceCreateEvent(n, o, r, d, i)
           sid == calculateSubspaceID(n, o, r)
           base == <<<<"d", "subspace_create">>, <<SidKey, sid>>,
                     <<"subspace_name", n>>, <<"ops", o>>>>
<1>1. /\ e.kind = KindSubspaceCreate /\ e.content = JsonContent(d, i)
      /\ e.sid = sid /\ e.name = n /\ e.ops = o /\ e.rules = r
      /\ e.desc = d /\ e.img = i
  BY DEF NewSubspaceCreateEvent, Zero
<1>2. /\ e.operation = "" /\ e.contentType = "" /\ e.parent = ""
      /\ e.proposalID = "" /\ e.vote = "" /\ e.invitee = "" /\ e.contrib = ""
  BY DEF NewSubspaceCreateEvent, Zero
<1>3. /\ <<"d", "subspace_create">> \in Tag /\ <<SidKey, sid>> \in Tag
      /\ <<"subspace_name", n>> \in Tag /\ <<"ops", o>> \in Tag
      /\ <<"rules", r>> \in Tag
  <2>1. sid \in Sid
    BY SidType
  <2>2. QED
    BY <2>1 DEF Tag, StrKeys, TagValues, DValues, SidKey, TagKeys
<1>4. e.tags = IF r # "" THEN Append(base, <<"rules", r>>) ELSE base
  BY DEF NewSubspaceCreateEvent, Zero
<1>5. /\ LastValue(e.tags, SidKey, EmptySid) = sid
      /\ LastValue(e.tags, "subspace_name", "") = n
      /\ LastValue(e.tags, "ops", "") = o
      /\ LastValue(e.tags, "rules", "") = r
  <2>1. CASE r # ""
    <3>1. e.tags = Append(base, <<"rules", r>>)
      BY <1>4, <2>1, Zenon
    <3>2. e.tags \in Seq(Tag)
      BY <1>3, <3>1
    <3>3. Len(e.tags) = 5
      BY <3>1
    <3>4. \A j \in 1 .. Len(e.tags) : Len(e.tags[j]) = 2
      BY <3>1
    <3>5. /\ e.tags[1][1] = "d" /\ e.tags[2][1] = SidKey
          /\ e.tags[3][1] = "subspace_name" /\ e.tags[4][1] = "ops" /\ e.tags[5][1] = "rules"
      BY <3>1
    <3>6. e.tags[2][2] = sid /\ e.tags[3][2] = n /\ e.tags[4][2] = o /\ e.tags[5][2] = r
      BY <3>1
    <3>7. /\ LastValue(e.tags, SidKey, EmptySid) = e.tags[2][2]
          /\ LastValue(e.tags, "subspace_name", "") = e.tags[3][2]
          /\ LastValue(e.tags, "ops", "") = e.tags[4][2]
          /\ LastValue(e.tags, "rules", "") = IF Len(e.tags) = 5 THEN e.tags[5][2] ELSE ""
      BY <3>2, <3>3, <3>4, <3>5, CreateTagsDecode
    <3>9. QED
      BY <3>3, <3>6, <3>7
  <2>2. CASE r = ""
    <3>1. e.tags = <<<<"d", "subspace_create">>, <<SidKey, sid>>,
                     <<"subspace_name", n>>, <<"ops", o>>>>
      BY <1>4, <2>2
    <3>2. e.tags \in Seq(Tag)
      BY <1>3, <3>1
    <3>3. Len(e.tags) = 4
      BY <3>1
    <3>4. \A j \in 1 .. Len(e.tags) : Len(e.tags[j]) = 2
      BY <3>1
    <3>5. /\ e.tags[1][1] = "d" /\ e.tags[2][1] = SidKey
          /\ e.tags[3][1] = "subspace_name" /\ e.tags[4][1] = "ops"
      BY <3>1
    <3>6. e.tags[2][2] = sid /\ e.tags[3][2] = n /\ e.tags[4][2] = o
      BY <3>1
    <3>10. Len(e.tags) = 5 => e.tags[5][1] = "rules"
      BY <3>3
    <3>7. /\ LastValue(e.tags, SidKey, EmptySid) = e.tags[2][2]
          /\ LastValue(e.tags, "subspace_name", "") = e.tags[3][2]
          /\ LastValue(e.tags, "ops", "") = e.tags[4][2]
          /\ LastValue(e.tags, "rules", "") = IF Len(e.tags) = 5 THEN e.tags[5][2] ELSE ""
      BY <3>2, <3>3, <3>4, <3>5, <3>10, CreateTagsDecode
    <3>8. Len(e.tags) # 5
      BY <3>3
    <3>9. QED
      BY <2>2, <3>6, <3>7, <3>8, Zenon
  <2>3. QED
    BY <2>1, <2>2
<1>6. \A f \in DOMAIN CreateTagKey : e[f] = LastValue(e.tags, CreateTagKey[f], "")
  <2>1. DOMAIN CreateTagKey = {"name", "ops", "rules"}
    BY DEF CreateTagKey
  <2>2. /\ CreateTagKey["name"] = "subspace_name" /\ CreateTagKey["ops"] = "ops"
        /\ CreateTagKey["rules"] = "rules"
    BY DEF CreateTagKey
  <2>3. QED
    BY <1>1, <1>5, <2>1, <2>2, Zenon
<1>7. \A f \in NotOfCreate : e[f] = ""
  <2>1. NotOfCreate = {"operation", "contentType", "parent", "proposalID",
                       "vote", "invitee", "contrib"}
    BY DEF NotOfCreate, OpTagKey
  <2>2. QED
    BY <1>2, <2>1, Zenon
<1>8. e.content.json /\ e.desc = e.content.desc /\ e.img = e.content.img
  BY <1>1 DEF JsonContent
<1>9. SidFaithful(e)
  BY <1>1, <1>5 DEF SidFaithful
<1>10. QED
  BY <1>1, <1>6, <1>7, <1>8, <1>9 DEF CreateFaithful

-----------------------------------------------------------------------------
(* A faithful struct is what its parser decodes from its envelope.         *)

\* A struct is the record of its sixteen fields.
LEMMA TypedEventRecord ==
  ASSUME NEW s \in TypedEvent
  PROVE  s =
    [kind |-> s.kind, tags |-> s.tags, content |-> s.content,
     sid |-> s.sid, name |-> s.name, ops |-> s.ops, rules |-> s.rules,
     desc |-> s.desc, img |-> s.img, operation |-> s.operation,
     contentType |-> s.contentType, parent |-> s.parent,
     proposalID |-> s.proposalID, vote |-> s.vote, invitee |-> s.invitee,
     contrib |-> s.contrib]
BY DEF TypedEvent

\* Two structs with the same sixteen fields are equal.
LEMMA TypedEventEq ==
  ASSUME NEW a \in TypedEvent, NEW s \in TypedEvent,
         a.kind = s.kind, a.tags = s.tags, a.content = s.content, a.sid = s.sid,
         a.name = s.name, a.ops = s.ops, a.rules = s.rules, a.desc = s.desc,
         a.img = s.img, a.operation = s.operation, a.contentType = s.contentType, a.parent = s.parent,
         a.proposalID = s.proposalID, a.vote = s.vote, a.invitee = s.invitee, a.contrib = s.contrib
  PROVE  a = s
<1>1. a = [kind |-> a.kind, tags |-> a.tags, content |-> a.content,
           sid |-> a.sid, name |-> a.name, ops |-> a.ops, rules |-> a.rules,
           desc |-> a.desc, img |-> a.img, operation |-> a.operation,
           contentType |-> a.contentType, parent |-> a.parent,
           proposalID |-> a.proposalID, vote |-> a.vote, invitee |-> a.invitee,
           contrib |-> a.contrib]
  BY TypedEventRecord
<1>2. s = [kind |-> s.kind, tags |-> s.tags, content |-> s.content,
           sid |-> s.sid, name |-> s.name, ops |-> s.ops, rules |-> s.rules,
           desc |-> s.desc, img |-> s.img, operation |-> s.operation,
           contentType |-> s.contentType, parent |-> s.parent,
           proposalID |-> s.proposalID, vote |-> s.vote, invitee |-> s.invitee,
           contrib |-> s.contrib]
  BY TypedEventRecord
<1>3. QED
  BY <1>1, <1>2

\* DecodeOp (ParseSubspaceOpEvent, lines 425-452) rebuilds every field of
\* a faithful Op struct from its tags.
LEMMA OpDecodes ==
  ASSUME NEW s \in TypedEvent, OpFaithful(s)
  PROVE  DecodeOp(EnvelopeOf(s)) = s
<1>1. /\ s.kind = KindSubspaceOp
      /\ s.sid = LastValue(s.tags, SidKey, EmptySid)
  BY DEF OpFaithful, SidFaithful
<1>2. /\ DOMAIN OpTagKey = {"operation", "contentType", "parent", "proposalID",
                             "vote", "invitee", "contrib"}
      /\ OpTagKey["operation"] = "ops" /\ OpTagKey["contentType"] = "content_type"
      /\ OpTagKey["parent"] = "parent" /\ OpTagKey["proposalID"] = "proposal_id"
      /\ OpTagKey["vote"] = "vote" /\ OpTagKey["invitee"] = "invitee_pubkey"
      /\ OpTagKey["contrib"] = "contrib"
  BY DEF OpTagKey
<1>3. /\ s.operation = LastValue(s.tags, "ops", "")
      /\ s.contentType = LastValue(s.tags, "content_type", "")
      /\ s.parent = LastValue(s.tags, "parent", "")
      /\ s.proposalID = LastValue(s.tags, "proposal_id", "")
      /\ s.vote = LastValue(s.tags, "vote", "")
      /\ s.invitee = LastValue(s.tags, "invitee_pubkey", "")
      /\ s.contrib = LastValue(s.tags, "contrib", "")
  <2>1. \A f \in DOMAIN OpTagKey : s[f] = LastValue(s.tags, OpTagKey[f], "")
    BY DEF OpFaithful
  <2>2. QED
    BY <1>2, <2>1, Zenon
<1>4. /\ s.name = "" /\ s.ops = "" /\ s.rules = "" /\ s.desc = "" /\ s.img = ""
  <2>1. \A f \in NotOfOp : s[f] = ""
    BY DEF OpFaithful
  <2>2. QED
    BY <2>1, Zenon DEF NotOfOp
<1>5. /\ s.kind \in Kinds /\ s.tags \in Seq(Tag) /\ s.content \in Content
      /\ EnvelopeOf(s) \in Envelope
  BY EnvelopeOfType DEF TypedEvent
<1>6. DecodeOp(EnvelopeOf(s)) \in TypedEvent
  BY <1>5, DecodeType
<1>7. LET d == DecodeOp(EnvelopeOf(s)) IN
      /\ d.kind = s.kind
      /\ d.tags = s.tags
      /\ d.content = s.content
      /\ d.sid = LastValue(s.tags, SidKey, EmptySid)
      /\ d.name = ""
      /\ d.ops = ""
      /\ d.rules = ""
      /\ d.desc = ""
      /\ d.img = ""
      /\ d.operation = LastValue(s.tags, "ops", "")
      /\ d.contentType = LastValue(s.tags, "content_type", "")
      /\ d.parent = LastValue(s.tags, "parent", "")
      /\ d.proposalID = LastValue(s.tags, "proposal_id", "")
      /\ d.vote = LastValue(s.tags, "vote", "")
      /\ d.invitee = LastValue(s.tags, "invitee_pubkey", "")
      /\ d.contrib = LastValue(s.tags, "contrib", "")
  BY <1>5 DEF DecodeOp, EnvelopeOf, Zero
<1>8. QED
  BY <1>1, <1>3, <1>4, <1>6, <1>7, TypedEventEq

\* DecodeJoin (ParseSubspaceJoinEvent, lines 261-273) rebuilds a faithful
\* Join struct.
LEMMA JoinDecodes ==
  ASSUME NEW s \in TypedEvent, JoinFaithful(s)
  PROVE  DecodeJoin(EnvelopeOf(s)) = s
<1>1. /\ s.kind = KindSubspaceJoin
      /\ s.sid = LastValue(s.tags, SidKey, EmptySid)
  BY DEF JoinFaithful, SidFaithful
<1>2. /\ s.name = "" /\ s.ops = "" /\ s.rules = "" /\ s.desc = "" /\ s.img = ""
      /\ s.operation = "" /\ s.contentType = "" /\ s.parent = ""
      /\ s.proposalID = "" /\ s.vote = "" /\ s.invitee = "" /\ s.contrib = ""
  <2>1. \A f \in NotOfJoin : s[f] = ""
    BY DEF JoinFaithful
  <2>2. NotOfJoin = {"name", "ops", "rules", "desc", "img", "operation",
                     "contentType", "parent", "proposalID", "vote", "invitee",
                     "contrib"}
    BY DEF NotOfJoin, NotOfOp, NotOfCreate, OpTagKey
  <2>3. QED
    BY <2>1, <2>2, Zenon
<1>3. /\ s.kind \in Kinds /\ s.tags \in Seq(Tag) /\ s.content \in Content
      /\ EnvelopeOf(s) \in Envelope
  BY EnvelopeOfType DEF TypedEvent
<1>4. DecodeJoin(EnvelopeOf(s)) \in TypedEvent
  BY <1>3, DecodeType
<1>5. LET d == DecodeJoin(EnvelopeOf(s)) IN
      /\ d.kind = s.kind
      /\ d.tags = s.tags
      /\ d.content = s.content
      /\ d.sid = LastValue(s.tags, SidKey, EmptySid)
      /\ d.name = ""
      /\ d.ops = ""
      /\ d.rules = ""
      /\ d.desc = ""
      /\ d.img = ""
      /\ d.operation = ""
      /\ d.contentType = ""
      /\ d.parent = ""
      /\ d.proposalID = ""
      /\ d.vote = ""
      /\ d.invitee = ""
      /\ d.contrib = ""
  BY <1>3 DEF DecodeJoin, EnvelopeOf, Zero
<1>6. QED
  BY <1>1, <1>2, <1>4, <1>5, TypedEventEq

\* DecodeCreate (ParseSubspaceCreateEvent, lines 153-185) rebuilds a
\* faithful Create struct, its description and image from the content.
LEMMA CreateDecodes ==
  ASSUME NEW s \in TypedEvent, CreateFaithful(s)
  PROVE  DecodeCreate(EnvelopeOf(s)) = s
<1>1. /\ s.kind = KindSubspaceCreate
      /\ s.sid = LastValue(s.tags, SidKey, EmptySid)
      /\ s.desc = s.content.desc /\ s.img = s.content.img
  BY DEF CreateFaithful, SidFaithful
<1>2. /\ s.name = LastValue(s.tags, "subspace_name", "")
      /\ s.ops = LastValue(s.tags, "ops", "")
      /\ s.rules = LastValue(s.tags, "rules", "")
  <2>1. \A f \in DOMAIN CreateTagKey : s[f] = LastValue(s.tags, CreateTagKey[f], "")
    BY DEF CreateFaithful
  <2>2. /\ DOMAIN CreateTagKey = {"name", "ops", "rules"}
        /\ CreateTagKey["name"] = "subspace_name" /\ CreateTagKey["ops"] = "ops"
        /\ CreateTagKey["rules"] = "rules"
    BY DEF CreateTagKey
  <2>3. QED
    BY <2>1, <2>2, Zenon
<1>3. /\ s.operation = "" /\ s.contentType = "" /\ s.parent = ""
      /\ s.proposalID = "" /\ s.vote = "" /\ s.invitee = "" /\ s.contrib = ""
  <2>1. \A f \in NotOfCreate : s[f] = ""
    BY DEF CreateFaithful
  <2>2. NotOfCreate = {"operation", "contentType", "parent", "proposalID",
                       "vote", "invitee", "contrib"}
    BY DEF NotOfCreate, OpTagKey
  <2>3. QED
    BY <2>1, <2>2, Zenon
<1>4. /\ s.kind \in Kinds /\ s.tags \in Seq(Tag) /\ s.content \in Content
      /\ EnvelopeOf(s) \in Envelope
  BY EnvelopeOfType DEF TypedEvent
<1>5. DecodeCreate(EnvelopeOf(s)) \in TypedEvent
  BY <1>4, DecodeType
<1>6. LET d == DecodeCreate(EnvelopeOf(s)) IN
      /\ d.kind = s.kind
      /\ d.tags = s.tags
      /\ d.content = s.content
      /\ d.sid = LastValue(s.tags, SidKey, EmptySid)
      /\ d.name = LastValue(s.tags, "subspace_name", "")
      /\ d.ops = LastValue(s.tags, "ops", "")
      /\ d.rules = LastValue(s.tags, "rules", "")
      /\ d.desc = s.content.desc
      /\ d.img = s.content.img
      /\ d.operation = ""
      /\ d.contentType = ""
      /\ d.parent = ""
      /\ d.proposalID = ""
      /\ d.vote = ""
      /\ d.invitee = ""
      /\ d.contrib = ""
  BY <1>4 DEF DecodeCreate, EnvelopeOf, Zero
<1>7. QED
  BY <1>1, <1>2, <1>3, <1>5, <1>6, TypedEventEq

\* The parser RoundTrip picks for a struct is the one of its kind.
LEMMA ParserOfKind ==
  /\ (CHOOSE p \in Parsers : ParserKind[p] = KindSubspaceCreate) = "create"
  /\ (CHOOSE p \in Parsers : ParserKind[p] = KindSubspaceJoin) = "join"
  /\ (CHOOSE p \in Parsers : ParserKind[p] = KindSubspaceOp) = "op"
<1>1. \A p \in Parsers : ParserKind[p] = KindSubspaceCreate <=> p = "create"
  BY ParserTables DEF Parsers, KindSubspaceCreate, KindSubspaceJoin, KindSubspaceOp
<1>2. \A p \in Parsers : ParserKind[p] = KindSubspaceJoin <=> p = "join"
  BY ParserTables DEF Parsers, KindSubspaceCreate, KindSubspaceJoin, KindSubspaceOp
<1>3. \A p \in Parsers : ParserKind[p] = KindSubspaceOp <=> p = "op"
  BY ParserTables DEF Parsers, KindSubspaceCreate, KindSubspaceJoin, KindSubspaceOp
<1>4. "create" \in Parsers /\ "join" \in Parsers /\ "op" \in Parsers
  BY DEF Parsers
<1>5. QED
  BY <1>1, <1>2, <1>3, <1>4

\* Parsing the envelope of a faithful struct with the parser of its kind
\* gives the validator's verdicts on the struct, with the struct itself.
LEMMA FaithfulRoundTrip ==
  ASSUME NEW s \in TypedEvent, Faithful(s)
  PROVE  Parse(CHOOSE p \in Parsers : ParserKind[p] = s.kind, EnvelopeOf(s))
           = Results(Validate(s), s)
<1>1. CASE OpFaithful(s)
  <2>1. s.kind = KindSubspaceOp
    BY <1>1 DEF OpFaithful
  <2>2. Parse("op", EnvelopeOf(s)) = Results(ValidateSubspaceOpEvent(s), s)
    BY <1>1, OpDecodes DEF Parse, ParseSubspaceOpEvent
  <2>3. Validate(s) = ValidateSubspaceOpEvent(s)
    BY <2>1 DEF Validate, KindSubspaceCreate, KindSubspaceJoin, KindSubspaceOp
  <2>4. QED
    BY <2>1, <2>2, <2>3, ParserOfKind
<1>2. CASE JoinFaithful(s)
  <2>1. s.kind = KindSubspaceJoin
    BY <1>2 DEF JoinFaithful
  <2>2. Parse("join", EnvelopeOf(s)) = Results(ValidateSubspaceJoinEvent(s), s)
    BY <1>2, JoinDecodes DEF Parse, ParseSubspaceJoinEvent
  <2>3. Validate(s) = ValidateSubspaceJoinEvent(s)
    BY <2>1 DEF Validate, KindSubspaceCreate, KindSubspaceJoin, KindSubspaceOp
  <2>4. QED
    BY <2>1, <2>2, <2>3, ParserOfKind
<1>3. CASE CreateFaithful(s)
  <2>1. s.kind = KindSubspaceCreate /\ EnvelopeOf(s).content.json
    BY <1>3 DEF CreateFaithful, EnvelopeOf
  <2>2. Parse("create", EnvelopeOf(s)) = Results(ValidateSubspaceCreateEvent(s), s)
    BY <1>3, <2>1, CreateDecodes DEF Parse, ParseSubspaceCreateEvent
  <2>3. Validate(s) = ValidateSubspaceCreateEvent(s)
    BY <2>1 DEF Validate, KindSubspaceCreate, KindSubspaceJoin, KindSubspaceOp
  <2>4. QED
    BY <2>1, <2>2, <2>3, ParserOfKind
<1>4. QED
  BY <1>1, <1>2, <1>3 DEF Faithful

-----------------------------------------------------------------------------
(* DecodesBack is inductive: every producer step leaves faithful structs.  *)

LEMMA RTInvInit == Init => RTInv
<1> SUFFICES ASSUME Init PROVE RTInv
  OBVIOUS
<1>1. TypeOK
  BY InitType
<1>2. DecodesBack
  BY DEF Init, DecodesBack
<1>3. QED
  BY <1>1, <1>2 DEF RTInv

\* Build replaces one builder's struct: a faithful struct keeps every
\* builder faithful.
LEMMA BuildFaithful ==
  ASSUME TypeOK, DecodesBack, NEW b \in Builders, NEW evt, Faithful(evt),
         Build(b, evt)
  PROVE  DecodesBack'
BY DEF TypeOK, DecodesBack, Build

\* The setters are called on an Op struct (IsOpBuilder), which is faithful
\* as an Op struct: the nil struct and the other kinds are not of kind Op.
LEMMA OpBuilderFaithful ==
  ASSUME TypeOK, DecodesBack, NEW b \in Builders, NEW n, IsOpBuilder(b, n)
  PROVE  bld[b] \in TypedEvent /\ OpFaithful(bld[b])
<1>1. bld[b].kind = KindSubspaceOp /\ bld[b] \in TypedEvent
  BY DEF IsOpBuilder, TypeOK
<1>2. bld[b] # NoEvent
  <2>1. NoEvent.kind = 1
    BY DEF NoEvent, Zero
  <2>2. QED
    BY <1>1, <2>1 DEF KindSubspaceOp
<1>3. ~CreateFaithful(bld[b]) /\ ~JoinFaithful(bld[b])
  BY <1>1 DEF CreateFaithful, JoinFaithful, KindSubspaceOp, KindSubspaceCreate,
              KindSubspaceJoin
<1>4. QED
  BY <1>1, <1>2, <1>3 DEF DecodesBack, Faithful

LEMMA BuildNextFaithful ==
  ASSUME TypeOK, DecodesBack, BuildNext
  PROVE  DecodesBack'
<1> PICK b \in Builders :
      \/ CreateSubspace(b) \/ JoinSubspace(b) \/ NewOp(b)
      \/ DoSetContentType(b) \/ DoSetParent(b) \/ DoSetProposal(b)
      \/ DoSetVote(b) \/ DoSetInvite(b) \/ DoSetContributions(b)
  BY DEF BuildNext
<1>1. CASE CreateSubspace(b)
  <2> PICK n \in Names, o \in OpsSpecs, r \in RulesStrs, d \in Vals, i \in Vals :
        Build(b, NewSubspaceCreateEvent(n, o, r, d, i))
    BY <1>1 DEF CreateSubspace
  <2>1. n \in SpecStrs /\ o \in SpecStrs /\ r \in SpecStrs
    BY InputsAssumption
  <2>2. Faithful(NewSubspaceCreateEvent(n, o, r, d, i))
    BY <2>1, NewCreateFaithful DEF Faithful
  <2>3. QED
    BY <2>2, BuildFaithful
<1>2. CASE JoinSubspace(b)
  <2> PICK sid \in SidInputs : Build(b, NewSubspaceJoinEvent(sid))
    BY <1>2 DEF JoinSubspace
  <2>1. sid \in Sid
    BY SidInputsType
  <2>2. Faithful(NewSubspaceJoinEvent(sid))
    BY <2>1, NewJoinFaithful DEF Faithful
  <2>3. QED
    BY <2>2, BuildFaithful
<1>3. CASE NewOp(b)
  <2> PICK sid \in SidInputs, op \in OpNames : Build(b, NewSubspaceOpEvent(sid, op))
    BY <1>3 DEF NewOp
  <2>1. sid \in Sid /\ op \in SpecStrs
    BY SidInputsType, InputsAssumption
  <2>2. Faithful(NewSubspaceOpEvent(sid, op))
    BY <2>1, NewOpFaithful DEF Faithful
  <2>3. QED
    BY <2>2, BuildFaithful
<1>4. CASE DoSetContentType(b) \/ DoSetParent(b) \/ DoSetContributions(b)
  <2>1. bld[b] \in TypedEvent /\ OpFaithful(bld[b])
    BY <1>4, OpBuilderFaithful DEF DoSetContentType, DoSetParent, DoSetContributions
  <2> PICK v \in Vals : \/ Build(b, SetContentType(bld[b], v))
                        \/ Build(b, SetParent(bld[b], v))
                        \/ Build(b, SetContributions(bld[b], v))
    BY <1>4 DEF DoSetContentType, DoSetParent, DoSetContributions
  <2>2. /\ Faithful(SetContentType(bld[b], v))
        /\ Faithful(SetParent(bld[b], v))
        /\ Faithful(SetContributions(bld[b], v))
    BY <2>1, SettersOneFaithful DEF Faithful
  <2>3. QED
    BY <2>2, BuildFaithful
<1>5. CASE DoSetProposal(b) \/ DoSetInvite(b)
  <2> PICK v \in Vals, r \in RulesStrs :
        /\ IsOpBuilder(b, IF r # "" THEN 2 ELSE 1)
        /\ \/ Build(b, SetProposal(bld[b], v, r))
           \/ Build(b, SetInvite(bld[b], v, r))
    BY <1>5 DEF DoSetProposal, DoSetInvite
  <2>1. bld[b] \in TypedEvent /\ OpFaithful(bld[b])
    BY OpBuilderFaithful
  <2>2. Faithful(SetProposal(bld[b], v, r)) /\ Faithful(SetInvite(bld[b], v, r))
    BY <2>1, SettersRulesFaithful DEF Faithful
  <2>3. QED
    BY <2>2, BuildFaithful
<1>6. CASE DoSetVote(b)
  <2>1. bld[b] \in TypedEvent /\ OpFaithful(bld[b])
    BY <1>6, OpBuilderFaithful DEF DoSetVote
  <2> PICK v \in Vals, w \in VoteVals : Build(b, SetVote(bld[b], v, w))
    BY <1>6 DEF DoSetVote
  <2>2. Faithful(SetVote(bld[b], v, w))
    BY <2>1, SetVoteFaithful DEF Faithful
  <2>3. QED
    BY <2>2, BuildFaithful
<1>7. QED
  BY <1>1, <1>2, <1>3, <1>4, <1>5, <1>6

LEMMA RTInvNext == RTInv /\ [Next]_vars => RTInv'
<1> SUFFICES ASSUME RTInv, [Next]_vars PROVE RTInv'
  OBVIOUS
<1>1. TypeOK /\ DecodesBack
  BY DEF RTInv
<1>2. TypeOK'
  BY <1>1, NextType
<1>3. CASE BuildNext
  BY <1>1, <1>2, <1>3, BuildNextFaithful DEF RTInv
<1>4. CASE ~BuildNext
  <2>1. UNCHANGED bld
    BY <1>4 DEF Next, Publish, DropTag, Rekind, Forge, Receive, vars
  <2>2. QED
    BY <1>1, <1>2, <2>1 DEF RTInv, DecodesBack
<1>5. QED
  BY <1>3, <1>4

\* The round trip holds of every builder once every struct is faithful.
LEMMA RTInvRoundTrip == RTInv => RoundTrip
<1> SUFFICES ASSUME RTInv,
                    NEW s \in {bld[b] : b \in Builders} \ {NoEvent}
             PROVE  Parse(CHOOSE p \in Parsers : ParserKind[p] = s.kind, EnvelopeOf(s))
                      = Results(Validate(s), s)
  BY DEF RoundTrip
<1>1. PICK b \in Builders : s = bld[b]
  OBVIOUS
<1>2. s \in TypedEvent /\ Faithful(s)
  BY <1>1 DEF RTInv, TypeOK, DecodesBack
<1>3. QED
  BY <1>2, FaithfulRoundTrip

(* Round trip (RoundTrip, spec section 8) for every set of builders and of *)
(* constructor inputs and every tag bound: whatever constructor and setter *)
(* calls of subspace.go built a struct, repeated setters included, parsing *)
(* its envelope with the Parse function of its kind returns the            *)
(* validator's verdicts on the struct and, on success, the struct itself.  *)
(* Publishing, forging and fetching leave the structs alone, so it holds   *)
(* of the whole system.                                                    *)
THEOREM RoundTripCorrect == Spec => []RoundTrip
<1>1. Init => RTInv
  BY RTInvInit
<1>2. RTInv /\ [Next]_vars => RTInv'
  BY RTInvNext
<1>3. RTInv => RoundTrip
  BY RTInvRoundTrip
<1>4. QED
  BY <1>1, <1>2, <1>3, PTL DEF Spec

=============================================================================
