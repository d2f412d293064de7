--------------------------- MODULE SubspaceEvents ---------------------------
(***************************************************************************)
(* The subspace event layer of src/p2p/go-sdk/subspace.go as pure          *)
(* operators: subspace-ID derivation, the typed events and their           *)
(* constructors and setters, the tag decoders of the Parse functions, the  *)
(* three validators and the three parsers.                                 *)
(*                                                                         *)
(* Data abstraction.  A Go string that the code only copies or compares is *)
(* a TLA+ string.  The strings that the code looks inside (subspace name,  *)
(* ops-spec, rules: concatenated by calculateSubspaceID and split by the   *)
(* ops-format check) are spelled out by the constant Spell as sequences of *)
(* characters.  A subspace ID is a record of what the validators test     *)
(* (the "0x" prefix and the length) and, for the output of                 *)
(* calculateSubspaceID, the string that was hashed: SHA-256 is taken to be *)
(* collision-free, so two IDs are equal iff their inputs are.  An event    *)
(* content is either a JSON object with "desc" and "img_url" or a string   *)
(* that is not JSON ("" or free text).                                     *)
(*                                                                         *)
(* A validator returns the SET of verdicts the Go code can return: the     *)
(* missing-tag loop ranges over a Go map, whose iteration order is chosen  *)
(* at random on every run, so any one missing tag can be the one reported. *)
(***************************************************************************)
EXTENDS Integers, Sequences, FiniteSets

CONSTANTS
  Spell,     \* characters of each name / ops-spec / rules / operation string
  Vals,      \* values passed for the opaque string fields
  VoteVals   \* vote values passed to SetVote

SpecStrs == DOMAIN Spell

ASSUME SpellAssumption ==
  /\ "" \in SpecStrs
  /\ Spell[""] = <<>>
  /\ \A s \in SpecStrs : Spell[s] \in Seq(STRING)

ASSUME ValsAssumption ==
  /\ Vals \subseteq STRING
  /\ VoteVals \subseteq STRING

\* Event kinds (subspace.go lines 13-17); 1 is the ordinary text note.
KindSubspaceCreate == 30100
KindSubspaceJoin   == 30200
KindSubspaceOp     == 30300
Kinds == {1, KindSubspaceCreate, KindSubspaceJoin, KindSubspaceOp}

\* Basic operation names (lines 20-25).
OpPost    == "post"
OpPropose == "propose"
OpVote    == "vote"
OpInvite  == "invite"

-----------------------------------------------------------------------------
(* Subspace IDs.                                                           *)

Sid == [prefix : BOOLEAN, len : Nat, hashed : BOOLEAN, input : Seq(STRING)]

\* "0x" + hex(sha256(input)).
SidOf(input) == [prefix |-> TRUE, len |-> 66, hashed |-> TRUE, input |-> input]

\* The Go zero string, the value of SubspaceID when no "sid" tag is decoded.
EmptySid == [prefix |-> FALSE, len |-> 0, hashed |-> FALSE, input |-> <<>>]

\* IDs that no call of calculateSubspaceID returns but that a producer may
\* put into a "sid" tag: too short, no "0x", and 66 characters of non-hex.
ForeignSids ==
  { [prefix |-> TRUE,  len |-> 10, hashed |-> FALSE, input |-> <<>>],
    [prefix |-> FALSE, len |-> 66, hashed |-> FALSE, input |-> <<>>],
    [prefix |-> TRUE,  len |-> 66, hashed |-> FALSE, input |-> <<>>] }

calculateSubspaceID(subspaceName, ops, rules) ==
  SidOf(Spell[subspaceName] \o Spell[ops] \o Spell[rules])

-----------------------------------------------------------------------------
(* Contents, tags and the typed events.                                    *)

Content == [json : BOOLEAN, desc : Vals \cup {""}, img : Vals \cup {""}]
NotJson == [json |-> FALSE, desc |-> "", img |-> ""]
JsonContent(desc, img) == [json |-> TRUE, desc |-> desc, img |-> img]

SidKey == "sid"
StrKeys == {"d", "subspace_name", "ops", "rules", "content_type", "parent",
            "proposal_id", "vote", "invitee_pubkey", "contrib"}
TagKeys == StrKeys \cup {SidKey}
\* The values of the "d" tags written by the constructors.
DValues == {"subspace_create", "subspace_join", "subspace_op"}
TagValues == SpecStrs \cup Vals \cup VoteVals \cup DValues

\* A tag is a key and a value; a tag with fewer than two elements is kept
\* by the envelope and skipped by every decoder.
Tag == (StrKeys \X TagValues) \cup ({SidKey} \X Sid) \cup {<<k>> : k \in TagKeys}

Envelope == [kind : Kinds, tags : Seq(Tag), content : Content]

\* SubspaceCreateEvent, SubspaceJoinEvent and SubspaceOpEvent (lines 31-39,
\* 196-199, 284-294) as one record: the embedded Event and the union of the
\* typed fields, a field a kind does not have staying "".
TypedEvent ==
  [kind : Kinds, tags : Seq(Tag), content : Content, sid : Sid,
   name : TagValues, ops : TagValues, rules : TagValues,
   desc : Vals \cup {""}, img : Vals \cup {""}, operation : TagValues, contentType : TagValues,
   parent : TagValues, proposalID : TagValues, vote : TagValues,
   invitee : TagValues, contrib : TagValues]

\* The struct literal {Event: evt} of the Parse functions.
Zero(e) ==
  [kind |-> e.kind, tags |-> e.tags, content |-> e.content, sid |-> EmptySid,
   name |-> "", ops |-> "", rules |-> "", desc |-> "", img |-> "",
   operation |-> "", contentType |-> "", parent |-> "", proposalID |-> "",
   vote |-> "", invitee |-> "", contrib |-> ""]

\* The nil event a Parse function returns with an error.
NoEvent == Zero([kind |-> 1, tags |-> <<>>, content |-> NotJson])

EnvelopeOf(evt) == [kind |-> evt.kind, tags |-> evt.tags, content |-> evt.content]

-----------------------------------------------------------------------------
(* The tag codec.                                                          *)

HasKey(tag, k) == Len(tag) >= 2 /\ tag[1] = k

KeyPositions(tags, k) == {i \in 1 .. Len(tags) : HasKey(tags[i], k)}

\* Mutant of LastValue: a decoder that keeps the first tag of a key.
FirstValue(tags, k, zero) ==
  LET P == KeyPositions(tags, k)
  IN  IF P = {} THEN zero
      ELSE tags[CHOOSE i \in P : \A j \in P : i <= j][2]

\* The value the decoding loop leaves in a field: the loop assigns the field
\* at every tag with key k, so the last such tag wins; with none, the field
\* keeps its zero value.
LastValue(tags, k, zero) ==
  LET P == KeyPositions(tags, k)
  IN  IF P = {} THEN zero
      ELSE tags[CHOOSE i \in P : \A j \in P : j <= i][2]

PresentKeys(tags) == {k \in TagKeys : KeyPositions(tags, k) # {}}

DecodeCreate(e) ==
  [Zero(e) EXCEPT !.sid   = LastValue(e.tags, SidKey, EmptySid),
                  !.name  = LastValue(e.tags, "subspace_name", ""),
                  !.ops   = LastValue(e.tags, "ops", ""),
                  !.rules = LastValue(e.tags, "rules", ""),
                  !.desc  = e.content.desc,
                  !.img   = e.content.img]

DecodeJoin(e) == [Zero(e) EXCEPT !.sid = LastValue(e.tags, SidKey, EmptySid)]

DecodeOp(e) ==
  [Zero(e) EXCEPT !.sid         = LastValue(e.tags, SidKey, EmptySid),
                  !.operation   = LastValue(e.tags, "ops", ""),
                  !.contentType = LastValue(e.tags, "content_type", ""),
                  !.parent      = LastValue(e.tags, "parent", ""),
                  !.proposalID  = LastValue(e.tags, "proposal_id", ""),
                  !.vote        = LastValue(e.tags, "vote", ""),
                  !.invitee     = LastValue(e.tags, "invitee_pubkey", ""),
                  !.contrib     = LastValue(e.tags, "contrib", "")]

-----------------------------------------------------------------------------
(* Verdicts and the validators.                                            *)

Errors == {"InvalidKind", "MissingRequiredField", "MalformedSubspaceID",
           "IDMismatch", "InvalidContent", "InvalidOpsFormat",
           "InvalidVoteValue", "MissingOperationField"}

\* err = "none" is a nil error; tag names the missing tag of a
\* MissingRequiredField error.
Verdict == [err : Errors \cup {"none"}, tag : TagKeys \cup {""}]
Ok == [err |-> "none", tag |-> ""]
Fail(err) == [err |-> err, tag |-> ""]

CreateRequired == {"d", SidKey, "subspace_name", "ops"}
JoinRequired   == {"d", SidKey}
OpRequired     == {"d", SidKey, "ops"}

\* The first missing tag met by the range over the requiredTags map.
MissingTag(tags, required) ==
  {[err |-> "MissingRequiredField", tag |-> k] : k \in required \ PresentKeys(tags)}

SidFormatOK(sid) == sid.prefix /\ sid.len = 66

\* strings.Split(ops, ",") and the test that every part contains "=":
\* the parts are the runs between consecutive commas, and between the ends
\* of the string and the first and last comma.
\* Mutant of PartsHaveEquals: strings.Contains(ops, "=") without the split.
AnyEquals(s) == \E j \in 1 .. Len(s) : s[j] = "="

PartsHaveEquals(s) ==
  LET Cuts == {0, Len(s) + 1} \cup {i \in 1 .. Len(s) : s[i] = ","}
  IN  \A c \in Cuts \ {Len(s) + 1} :
        \E j \in c + 1 .. Len(s) :
          /\ s[j] = "="
          /\ \A m \in c + 1 .. j : s[m] # ","

OpsFormatOK(ops) == PartsHaveEquals(Spell[ops])

ValidateSubspaceCreateEvent(evt) ==
  IF evt.kind # KindSubspaceCreate THEN {Fail("InvalidKind")}
  ELSE IF ~(CreateRequired \subseteq PresentKeys(evt.tags))
    THEN MissingTag(evt.tags, CreateRequired)
  ELSE IF evt.sid # calculateSubspaceID(evt.name, evt.ops, evt.rules)
    THEN {Fail("IDMismatch")}
  ELSE IF ~evt.content.json \/ evt.content.desc = "" THEN {Fail("InvalidContent")}
  ELSE IF ~OpsFormatOK(evt.ops) THEN {Fail("InvalidOpsFormat")}
  ELSE {Ok}

\* Mutant of ValidateSubspaceJoinEvent: the length check dropped.
ValidateJoinNoLength(evt) ==
  IF evt.kind # KindSubspaceJoin THEN {Fail("InvalidKind")}
  ELSE IF ~(JoinRequired \subseteq PresentKeys(evt.tags))
    THEN MissingTag(evt.tags, JoinRequired)
  ELSE IF ~evt.sid.prefix THEN {Fail("MalformedSubspaceID")}
  ELSE {Ok}

ValidateSubspaceJoinEvent(evt) ==
  IF evt.kind # KindSubspaceJoin THEN {Fail("InvalidKind")}
  ELSE IF ~(JoinRequired \subseteq PresentKeys(evt.tags))
    THEN MissingTag(evt.tags, JoinRequired)
  ELSE IF ~SidFormatOK(evt.sid) THEN {Fail("MalformedSubspaceID")}
  ELSE {Ok}

\* The switch on the operation name; other names pass unchecked.
OperationVerdict(evt) ==
  CASE evt.operation = OpPost ->
         IF evt.contentType = "" THEN Fail("MissingOperationField") ELSE Ok
    [] evt.operation = OpPropose ->
         IF evt.proposalID = "" THEN Fail("MissingOperationField") ELSE Ok
    [] evt.operation = OpVote ->
         IF evt.proposalID = "" \/ evt.vote = "" THEN Fail("MissingOperationField")
         ELSE IF evt.vote \notin {"yes", "no"} THEN Fail("InvalidVoteValue")
         ELSE Ok
    [] evt.operation = OpInvite ->
         IF evt.invitee = "" THEN Fail("MissingOperationField") ELSE Ok
    [] OTHER -> Ok

ValidateSubspaceOpEvent(evt) ==
  IF evt.kind # KindSubspaceOp THEN {Fail("InvalidKind")}
  ELSE IF ~(OpRequired \subseteq PresentKeys(evt.tags))
    THEN MissingTag(evt.tags, OpRequired)
  ELSE IF ~SidFormatOK(evt.sid) THEN {Fail("MalformedSubspaceID")}
  ELSE {OperationVerdict(evt)}

-----------------------------------------------------------------------------
(* The parsers: decode, then validate; the typed event only on success.    *)

Outcome == [err : Errors \cup {"none"}, tag : TagKeys \cup {""}, evt : TypedEvent]

Result(v, evt) ==
  [err |-> v.err, tag |-> v.tag, evt |-> IF v.err = "none" THEN evt ELSE NoEvent]

Results(verdicts, evt) == {Result(v, evt) : v \in verdicts}

\* The content is unmarshalled before the validator runs.
ParseSubspaceCreateEvent(e) ==
  IF ~e.content.json THEN {Result(Fail("InvalidContent"), NoEvent)}
  ELSE Results(ValidateSubspaceCreateEvent(DecodeCreate(e)), DecodeCreate(e))

ParseSubspaceJoinEvent(e) ==
  Results(ValidateSubspaceJoinEvent(DecodeJoin(e)), DecodeJoin(e))

ParseSubspaceOpEvent(e) ==
  Results(ValidateSubspaceOpEvent(DecodeOp(e)), DecodeOp(e))

Parsers == {"create", "join", "op"}
ParserKind == [p \in Parsers |-> CASE p = "create" -> KindSubspaceCreate
                                   [] p = "join"   -> KindSubspaceJoin
                                   [] p = "op"     -> KindSubspaceOp]

RequiredOf == [p \in Parsers |-> CASE p = "create" -> CreateRequired
                                   [] p = "join"   -> JoinRequired
                                   [] p = "op"     -> OpRequired]

Parse(p, e) ==
  CASE p = "create" -> ParseSubspaceCreateEvent(e)
    [] p = "join"   -> ParseSubspaceJoinEvent(e)
    [] p = "op"     -> ParseSubspaceOpEvent(e)

Validate(evt) ==
  CASE evt.kind = KindSubspaceCreate -> ValidateSubspaceCreateEvent(evt)
    [] evt.kind = KindSubspaceJoin   -> ValidateSubspaceJoinEvent(evt)
    [] evt.kind = KindSubspaceOp     -> ValidateSubspaceOpEvent(evt)

-----------------------------------------------------------------------------
(* Constructors and setters.                                               *)

\* Mutant of NewSubspaceCreateEvent: the content map built from the
\* subspace name in place of the description.
NewCreateSwapped(subspaceName, ops, rules, description, imageURL) ==
  LET sid == calculateSubspaceID(subspaceName, ops, rules)
      base == <<<<"d", "subspace_create">>, <<SidKey, sid>>,
                <<"subspace_name", subspaceName>>, <<"ops", ops>>>>
  IN  [Zero([kind |-> KindSubspaceCreate, tags |-> <<>>, content |-> NotJson])
         EXCEPT !.sid = sid, !.name = subspaceName, !.ops = ops,
                !.rules = rules, !.desc = subspaceName, !.img = imageURL,
                !.tags = IF rules # "" THEN Append(base, <<"rules", rules>>)
                         ELSE base,
                !.content = JsonContent(subspaceName, imageURL)]

NewSubspaceCreateEvent(subspaceName, ops, rules, description, imageURL) ==
  LET sid == calculateSubspaceID(subspaceName, ops, rules)
      base == <<<<"d", "subspace_create">>, <<SidKey, sid>>,
                <<"subspace_name", subspaceName>>, <<"ops", ops>>>>
  IN  [Zero([kind |-> KindSubspaceCreate, tags |-> <<>>, content |-> NotJson])
         EXCEPT !.sid = sid, !.name = subspaceName, !.ops = ops,
                !.rules = rules, !.desc = description, !.img = imageURL,
                !.tags = IF rules # "" THEN Append(base, <<"rules", rules>>)
                         ELSE base,
                !.content = JsonContent(description, imageURL)]

NewSubspaceJoinEvent(subspaceID) ==
  [Zero([kind |-> KindSubspaceJoin, tags |-> <<>>, content |-> NotJson])
     EXCEPT !.sid = subspaceID,
            !.tags = <<<<"d", "subspace_join">>, <<SidKey, subspaceID>>>>]

NewSubspaceOpEvent(subspaceID, operation) ==
  [Zero([kind |-> KindSubspaceOp, tags |-> <<>>, content |-> NotJson])
     EXCEPT !.sid = subspaceID, !.operation = operation,
            !.tags = <<<<"d", "subspace_op">>, <<SidKey, subspaceID>>,
                       <<"ops", operation>>>>]

\* Tags appended by SetProposal and SetInvite for a non-empty rules string.
RulesTag(rules) == IF rules # "" THEN <<<<"rules", rules>>>> ELSE <<>>

SetContentType(e, contentType) ==
  [e EXCEPT !.contentType = contentType,
            !.tags = Append(@, <<"content_type", contentType>>)]

SetParent(e, parentHash) ==
  [e EXCEPT !.parent = parentHash, !.tags = Append(@, <<"parent", parentHash>>)]

SetProposal(e, proposalID, rules) ==
  [e EXCEPT !.proposalID = proposalID,
            !.tags = Append(@, <<"proposal_id", proposalID>>) \o RulesTag(rules)]

SetVote(e, proposalID, vote) ==
  [e EXCEPT !.proposalID = proposalID, !.vote = vote,
            !.tags = @ \o <<<<"proposal_id", proposalID>>, <<"vote", vote>>>>]

SetInvite(e, inviteePubkey, rules) ==
  [e EXCEPT !.invitee = inviteePubkey,
            !.tags = Append(@, <<"invitee_pubkey", inviteePubkey>>) \o RulesTag(rules)]

SetContributions(e, contributions) ==
  [e EXCEPT !.contrib = contributions,
            !.tags = Append(@, <<"contrib", contributions>>)]

=============================================================================
