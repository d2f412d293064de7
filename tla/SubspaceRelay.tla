---------------------------- MODULE SubspaceRelay ----------------------------
(***************************************************************************)
(* Producers building subspace events with the constructors and setters of *)
(* src/p2p/go-sdk/subspace.go, publishing them to the relay, untrusted     *)
(* producers publishing envelopes of their own, and a consumer that        *)
(* fetches envelopes from the relay (in any order, any number of times)    *)
(* and runs one of the three Parse functions on each.                      *)
(*                                                                         *)
(* Signing, the relay's storage and its query filters are external to      *)
(* subspace.go: publishing puts the envelope into the set relay, and       *)
(* fetching reads any member of that set.                                  *)
(***************************************************************************)
EXTENDS SubspaceEvents

CONSTANTS
  Builders,   \* the event structs the producers are building
  Names,      \* subspace names passed to NewSubspaceCreateEvent
  OpsSpecs,   \* ops-spec strings passed to NewSubspaceCreateEvent
  RulesStrs,  \* rules strings passed to the constructors and setters
  OpNames,    \* operation names passed to NewSubspaceOpEvent
  MaxTags,    \* bound on the tags of a builder
  MaxRelay    \* bound on the envelopes the relay holds

ASSUME InputsAssumption ==
  /\ Names \cup OpsSpecs \cup RulesStrs \cup OpNames \subseteq SpecStrs
  /\ "" \in RulesStrs
  /\ MaxTags \in Nat /\ MaxRelay \in Nat

VARIABLES
  bld,        \* bld[b]: the struct builder b holds, NoEvent before creation
  relay,      \* the envelopes the relay stores
  last        \* the consumer's latest Parse call and its result

vars == <<bld, relay, last>>

LogEntry == [env : Envelope, parser : Parsers, out : Outcome]

\* Before the first Parse call.
NoEntry == [env |-> EnvelopeOf(NoEvent), parser |-> "none",
            out |-> Result(Ok, NoEvent)]

TypeOK ==
  /\ bld \in [Builders -> TypedEvent]
  /\ relay \subseteq Envelope
  /\ last \in LogEntry \cup {NoEntry}

Init ==
  /\ bld = [b \in Builders |-> NoEvent]
  /\ relay = {}
  /\ last = NoEntry

\* The IDs a caller holds: those of the structs built so far (the example
\* passes createEvent.SubspaceID to the Join and Op constructors), and the
\* malformed ones an application may pass.
KnownSids == {bld[b].sid : b \in Builders}
SidInputs == (KnownSids \ {EmptySid}) \cup ForeignSids

-----------------------------------------------------------------------------
(* Producer steps: one per constructor and setter.                        *)

Build(b, evt) ==
  /\ bld' = [bld EXCEPT ![b] = evt]
  /\ UNCHANGED <<relay, last>>

CreateSubspace(b) ==
  \E n \in Names, o \in OpsSpecs, r \in RulesStrs, d \in Vals, i \in Vals :
    Build(b, NewSubspaceCreateEvent(n, o, r, d, i))

JoinSubspace(b) ==
  \E sid \in SidInputs : Build(b, NewSubspaceJoinEvent(sid))

NewOp(b) ==
  \E sid \in SidInputs, op \in OpNames : Build(b, NewSubspaceOpEvent(sid, op))

\* The setters are methods of *SubspaceOpEvent; each appends one or two tags.
IsOpBuilder(b, added) ==
  /\ bld[b].kind = KindSubspaceOp
  /\ Len(bld[b].tags) + added <= MaxTags

DoSetContentType(b) ==
  IsOpBuilder(b, 1) /\ \E v \in Vals : Build(b, SetContentType(bld[b], v))

DoSetParent(b) ==
  IsOpBuilder(b, 1) /\ \E v \in Vals : Build(b, SetParent(bld[b], v))

DoSetProposal(b) ==
  \E p \in Vals, r \in RulesStrs :
    IsOpBuilder(b, IF r # "" THEN 2 ELSE 1) /\ Build(b, SetProposal(bld[b], p, r))

DoSetVote(b) ==
  IsOpBuilder(b, 2) /\ \E p \in Vals, v \in VoteVals : Build(b, SetVote(bld[b], p, v))

DoSetInvite(b) ==
  \E v \in Vals, r \in RulesStrs :
    IsOpBuilder(b, IF r # "" THEN 2 ELSE 1) /\ Build(b, SetInvite(bld[b], v, r))

DoSetContributions(b) ==
  IsOpBuilder(b, 1) /\ \E v \in Vals : Build(b, SetContributions(bld[b], v))

\* Sign and publish the struct's embedded Event; the struct stays with the
\* producer, who may go on calling setters on it.
Publish(b) ==
  /\ bld[b] # NoEvent
  /\ Cardinality(relay) < MaxRelay \/ EnvelopeOf(bld[b]) \in relay
  /\ relay' = relay \cup {EnvelopeOf(bld[b])}
  /\ UNCHANGED <<bld, last>>

-----------------------------------------------------------------------------
(* Untrusted producers: any identity may sign and publish any envelope.    *)
(* They are modelled as edits of envelopes already on the relay.           *)

RemoveAt(s, i) == [j \in 1 .. Len(s) - 1 |-> IF j < i THEN s[j] ELSE s[j + 1]]

Forge(e) ==
  /\ Cardinality(relay) < MaxRelay \/ e \in relay
  /\ relay' = relay \cup {e}
  /\ UNCHANGED <<bld, last>>

DropTag ==
  \E e \in relay : \E i \in 1 .. Len(e.tags) : Forge([e EXCEPT !.tags = RemoveAt(@, i)])

Rekind ==
  \E e \in relay : \E k \in Kinds : Forge([e EXCEPT !.kind = k])

-----------------------------------------------------------------------------
(* The consumer fetches any stored envelope, again and again if the relay  *)
(* delivers it again, and calls one of the Parse functions on it.          *)

Receive ==
  \E e \in relay, p \in Parsers :
    \E o \in Parse(p, e) :
      /\ last' = [env |-> e, parser |-> p, out |-> o]
      /\ UNCHANGED <<bld, relay>>

\* The calls of producers on their structs.
BuildNext ==
  \E b \in Builders :
    \/ CreateSubspace(b) \/ JoinSubspace(b) \/ NewOp(b)
    \/ DoSetContentType(b) \/ DoSetParent(b) \/ DoSetProposal(b)
    \/ DoSetVote(b) \/ DoSetInvite(b) \/ DoSetContributions(b)

Next ==
  \/ BuildNext
  \/ \E b \in Builders : Publish(b)
  \/ DropTag
  \/ Rekind
  \/ Receive

Spec == Init /\ [][Next]_vars

\* The producers alone, with the relay and the consumer idle.
BuildSpec == Init /\ [][BuildNext]_vars

-----------------------------------------------------------------------------
(* Properties.                                                             *)

(* Round trip (spec section 8): whatever sequence of constructor and setter *)
(* calls built a published struct, repeated setters included, parsing its  *)
(* envelope gives the verdict the validator gives on the struct itself and, *)
(* on success, a typed event equal to the struct: the setters' field       *)
(* updates and the decoders' last-tag-wins scan agree.                     *)
RoundTrip ==
  \A s \in {bld[b] : b \in Builders} \ {NoEvent} :
    Parse(CHOOSE p \in Parsers : ParserKind[p] = s.kind, EnvelopeOf(s))
      = Results(Validate(s), s)

(* The ops-spec grammar of spec section 4: a comma-separated list whose   *)
(* every element contains "=". An element is the text strictly between two *)
(* neighbouring separators, a separator being a "," or either end.         *)
OpsElementsHaveEquals(s) ==
  LET IsSep(k) == k = 0 \/ k = Len(s) + 1 \/ s[k] = ","
  IN  \A i, j \in 0 .. Len(s) + 1 :
        (/\ i < j /\ IsSep(i) /\ IsSep(j)
         /\ \A m \in i + 1 .. j - 1 : s[m] # ",")
          => \E m \in i + 1 .. j - 1 : s[m] = "="

(* Fail-closed (spec sections 4.5, 8): a Parse call that returns a typed   *)
(* event was given an envelope of its kind that carries every required tag *)
(* and a well-formed subspace ID, the ID of a Create event is the hash of   *)
(* its name, ops and rules tags and its ops tag follows the ops-spec       *)
(* grammar (the split check of ValidateSubspaceCreateEvent), and the typed *)
(* event carries the ID that the envelope's last "sid" tag holds.          *)
FailClosed ==
  LET x == last IN
  x.parser # "none" /\ x.out.err = "none" =>
    LET tags == x.env.tags
        sid  == LastValue(tags, SidKey, EmptySid)
    IN  /\ x.env.kind = ParserKind[x.parser]
        /\ RequiredOf[x.parser] \subseteq PresentKeys(tags)
        /\ SidFormatOK(sid)
        /\ x.out.evt.sid = sid
        /\ x.parser = "create" =>
             sid = calculateSubspaceID(LastValue(tags, "subspace_name", ""),
                                       LastValue(tags, "ops", ""),
                                       LastValue(tags, "rules", ""))
        /\ x.parser = "create" /\ LastValue(tags, "ops", "") \in SpecStrs =>
             OpsElementsHaveEquals(Spell[LastValue(tags, "ops", "")])

(* Idempotent parsing (spec section 5): a consumer that parses the same    *)
(* envelope again, as the relay may redeliver it, gets the same result,    *)
(* the same error included.  The Validate functions report the first      *)
(* missing tag met while ranging over a Go map, in an order Go randomises. *)
ParseDeterministic ==
  [][ last.parser # "none" /\ last'.env = last.env /\ last'.parser = last.parser
        => last'.out = last.out ]_vars

(* Subspace IDs identify subspaces (spec section 3): two Create envelopes   *)
(* that ParseSubspaceCreateEvent accepts with the same ID have the same    *)
(* name, ops-spec and rules.  calculateSubspaceID hashes the three strings *)
(* concatenated without a separator.                                       *)
SubspaceIDInjective ==
  \A e1, e2 \in relay :
    \A o1 \in ParseSubspaceCreateEvent(e1), o2 \in ParseSubspaceCreateEvent(e2) :
      o1.err = "none" /\ o2.err = "none" /\ o1.evt.sid = o2.evt.sid
        => <<o1.evt.name, o1.evt.ops, o1.evt.rules>>
             = <<o2.evt.name, o2.evt.ops, o2.evt.rules>>

=============================================================================
