# Formal models of the causality-graph subspace layer, signing, relay start-up and OrbitDB listener

This directory holds TLA+ models of the subspace event layer of
`src/p2p/go-sdk/subspace.go`, the TLC configurations that check them, and
TLAPS proofs about them.

## The system

The repository builds "subspaces" on top of Nostr-style signed events.

- **Subspace event layer** (`src/p2p/go-sdk/subspace.go`). There are three event kinds:
  - Create (30100) carries a name, an ops-spec, rules, a description and an image.
  - Join (30200) carries a subspace ID.
  - Op (30300) carries an ID, an operation name, and optional content type, parent,
    proposal, vote, invitee and contributions.

  The layer's operations:
  - `calculateSubspaceID` computes `"0x" + hex(sha256(name+ops+rules))`.
  - The constructors `New*Event` fill the typed struct and its tag list.
  - The setters `Set*` on `*SubspaceOpEvent` set a field and append a tag.
  - Each `Validate*` checks the kind, then the required tags (by ranging over a Go
    map), then the ID. Create also recomputes the hash, then checks the JSON
    content with a non-empty `desc`, then the `k=v,...` ops format. Op also checks
    the per-operation fields.
  - Each `Parse*` decodes the tags with one linear scan, in which the last tag of a
    key wins, and then validates.
- **Example producer** (`go-sdk/example/subspace/subspace.go`). It builds one Create
  event, then a Join and Op events that use the Create event's ID. It signs them,
  publishes them to a relay and queries them back.
- **Signing** (`go-nostr-sdk/signature.go`): Ethereum-style Keccak/ECDSA `Sign` and
  `CheckSignature`.
- **Relay** (`cRelay/serve.go`): a khatru relay whose store is an external OrbitDB
  adapter.
- **OrbitDB demo** (`crdt-db/cmd/orbitdb/main.go`): a listener goroutine on
  write events, and a `Put`.

These parts interact as follows. Producers build events and sign and publish them to
the relay. Any identity may publish any envelope. Consumers fetch envelopes, possibly
again and in any order, and call `Parse*`. The spec (§4.5) names that pipeline the
only gate between untrusted envelopes and typed business logic.

## Modules

| Module | Models |
|---|---|
| `SubspaceEvents` | All of `subspace.go`, as pure operators. There are no variables. |
| `SubspaceRelay` | Producers, the relay, untrusted producers and a consumer, as a state machine over `SubspaceEvents`. |
| `SubspaceRelayProofs` | The TLAPS proofs of type correctness and fail-closed parsing. |
| `SubspaceRoundTripProofs` | The TLAPS proof of the round trip, on top of `SubspaceRelayProofs`. |
| `MC_SubspaceRelay` | The TLC instances. |
| `OrbitListener` | The OrbitDB demo's listener goroutine, main's `Add`/`Put`, and replicated writes. |
| `Signature`, `SignatureProofs` | `Sign`, `CheckSignature`, producers and forgers. The proofs are in the second module. |
| `ServeStartup` | The start-up of the `serve` command: main and the khatru relay goroutine. |
| `ServeCommand` | The abstract specification of what the `serve` command promises, which `ServeStartup` refines. |
| `ServeStartupProofs`, `OrbitListenerProofs` | The TLAPS proofs for those two modules. |
| `MC_OrbitListener`, `MC_Signature`, `MC_ServeStartup` | The TLC instances for these. |

### Data abstraction

- **Spelled strings.** The code looks inside three kinds of strings: the name,
  ops-spec and rules are concatenated, and the ops-spec is split on commas. These
  strings are spelled through the constant `Spell`, which maps each one to a sequence
  of characters. Every other string is an opaque TLA+ string.
- **Subspace IDs.** An ID is a record `[prefix, len, hashed, input]`: exactly what the
  validators test, plus the input that was hashed. SHA-256 is taken as collision-free.
  The model values `ForeignSids` are IDs a forger may write: too short, without `0x`,
  and 66 characters of non-hex.
- **Content.** Content is either a JSON object with `desc` and `img_url` or non-JSON
  text.
- **Verdicts are sets.** A validator returns the set of errors Go may return. The
  missing-tag loop ranges over a map, and Go randomises map order, so any missing tag
  can be the one reported.

### State and actions of `SubspaceRelay`

| TLA+ | Code |
|---|---|
| `bld[b]` | The struct a producer holds. |
| `relay` | The set of stored envelopes. |
| `last` | The consumer's latest `Parse*` call and its result. |
| `CreateSubspace`, `JoinSubspace`, `NewOp` | The constructor calls of the example. Join and Op take IDs already built, or foreign ones. |
| `DoSet*` | The six setters, each guarded by the receiver being an Op struct and by `MaxTags`. |
| `Publish` | `Sign` + `relay.Publish` of the struct's embedded `Event`. |
| `DropTag`, `Rekind` | Untrusted producers publishing edited copies of stored envelopes. |
| `Receive` | Fetch any stored envelope and call any of the three `Parse*` functions on it. |

Every action models the whole call. A setter, for example, sets the field and appends
its tags in one step.

## Runs

Passing runs:

| Run | cfg | Properties | What it shows |
|---|---|---|---|
| roundtrip | `MC_SubspaceRelay.cfg` | RoundTrip | Every struct reachable through constructor and setter calls, with up to 6 tags, repeated and overriding setters included, parses back to itself, and with the validator's own verdict. |
| parse | `MC_SubspaceRelay_parse.cfg` | TypeOK, FailClosed | For all built, forged and re-kinded envelopes (two at a time on the relay), every accepting `Parse*` saw its kind, its required tags and a well-formed ID. For Create, the ID is also the recomputed hash, and the ops-spec follows the grammar of spec §4: every comma-separated element contains `=`. That grammar is stated as `OpsElementsHaveEquals`, independently of the split loop's model `PartsHaveEquals`. |

Violation runs, each of which is a finding in `PROJECT.json`:

| Run | Property | What TLC finds |
|---|---|---|
| idempotent | ParseDeterministic | After two `DropTag`s, one envelope is reported missing `sid` on one parse and missing another tag on the next (`subspace.go:116`). Spec §5 requires identical errors on redelivery. |
| sid | SubspaceIDInjective | `("g","p=")` and `("gp","=")` concatenate to the same input, so two different Create events share an ID (line 44). |

### Bounds, and why they suffice

- **roundtrip.** One builder with `MaxTags = 6` allows a constructor followed by two or
  three setters, overrides included. The ops-specs `p=` and `p=,` exercise a valid and
  a trailing-comma spec. The votes `yes` and `maybe` exercise both vote outcomes. The
  operation names `post`, `vote` and `model` exercise the switch, including its
  default branch.
- **parse.** This run uses smaller inputs, but `MaxRelay = 2` and `MaxTags = 4`. That
  is enough for a forged envelope to lose any one required tag or change its kind,
  and for several forgeries to pile up. The ops-specs `p=` and `p=,` give a Create
  that passes and one that fails only the split check, whose trailing comma leaves
  an empty element. The one operation `vote`, with the votes `yes` and `maybe`, gives
  an Op that passes, one missing a field and one with an illegal vote.

No fairness is assumed: every property is a safety property. The layer has no
liveness obligation, since every call returns.

## Proofs (`SubspaceRelayProofs`)

tlapm checks every proof in this module.

- **`TypeCorrect`** proves `Spec => []TypeOK` for all constants satisfying
  `SpellAssumption`, `ValsAssumption` and `InputsAssumption`. The proof has one lemma
  for each of:
  - the constructors and setter groups;
  - `RemoveAt`;
  - the decoders, validators and parsers. `ParseType` shows that `Parse` returns an
    `Outcome` on any envelope.

  `TypeOK` is inductive by itself.
- **`FailClosedCorrect`** proves `Spec => []FailClosed`. `FailClosed` speaks of `last`
  only, so it is not inductive by itself. The strengthening is
  `IInv == TypeOK /\ ParseConsistent`, where `ParseConsistent` says that `last.out` is
  one of the results of `Parse(last.parser, last.env)`. TLC checked `IInv` on the parse
  instance before it was proved. The argument is the lemma `Accepted`: for any
  envelope, a nil-error result of each `Parse*` implies the conclusion of
  `FailClosed`. It rests on:
  - `ValidateCreateOk`, `ValidateJoinOk` and `ValidateOpOk`, which say what a validator
    returning nil has checked;
  - `SplitCheckGrammar`: a string that passes the split check follows the grammar.
    The first `=` after a separator comes before the next comma, hence before the
    next separator. The argument (`MarkGrammar`) is made over an abstract separator
    and mark, because Z3 cannot encode the string literals `","` and `"="`;
  - `DecodeFields`;
  - `ResultsOk`.
- **Helper lemmas.** `MaxExists` is proved by well-founded induction through `WFMin`.
  `LastPosition` then shows that "last tag wins" picks a well-defined position.

## Proof of the round trip (`SubspaceRoundTripProofs`)

tlapm checks every proof in this module. **`RoundTripCorrect`** proves
`Spec => []RoundTrip` under the same assumptions as `TypeCorrect`, for every set of
builders, of constructor inputs and every `MaxTags`. Whatever constructor and setter
calls built a struct, its envelope, parsed with the `Parse*` function of its kind,
yields the validator's verdicts on the struct and the struct itself.

`RoundTrip` speaks of what the parser returns, so it is not inductive. The
strengthening is `RTInv == TypeOK /\ DecodesBack`. `DecodesBack` says that every built
struct is *faithful*:

- its `SubspaceID` is the value of the last `"sid"` tag;
- every field of its kind that a tag carries is the value of the last tag of that key
  (`OpTagKey`, `CreateTagKey`), or `""` when there is no such tag;
- every field its kind does not have is `""`;
- a Create struct also holds JSON content, and its description and image are that
  content's.

TLC checked `RTInv` as an invariant of the roundtrip instance before the proof
(26 883 states). The argument has three parts.

1. The constructors build faithful structs. `NewCreateFaithful`, `NewJoinFaithful`
   and `NewOpFaithful` read the literal tag lists position by position, through
   `LastValueAt` and `LastValueNone`. `CreateTagsDecode` covers the Create tags, with
   and without a `"rules"` tag.
2. The setters keep a struct faithful. `OpSetField` says that setting one field and
   appending a tag of its key keeps an Op struct faithful, and `OpAppendRules` does
   the same for a trailing `"rules"` tag. Both rest on `LastValueAppend`: after an
   append, the last value of a key is the new tag's if the key matches, and
   otherwise unchanged. `SettersOneFaithful`, `SettersRulesFaithful` and
   `SetVoteFaithful` apply them to each setter, and `OpBuilderFaithful` shows that a
   setter's guard `IsOpBuilder` selects an Op struct.
3. A faithful struct round-trips. `OpDecodes`, `JoinDecodes` and `CreateDecodes`
   show that the decoder returns the struct itself. `FaithfulRoundTrip` adds the
   parser choice (`ParserOfKind`) and, for a Create struct, the JSON check that
   precedes decoding.

Publishing, forging and fetching leave the structs alone. `RTInvNext` therefore
covers all of `Next`. No induction over tag lists is needed: `LastValue` is the value
at the greatest matching position, so an append is handled by reasoning about
positions.

### Only model-checked

- The violations.

## OrbitDB write listener (`OrbitListener`)

`src/p2p/crdt-db/cmd/orbitdb/main.go`, from the database open (line 88) to the end of
`main`. Two goroutines share the store:

- **The listener** (lines 124-171): `Subscribe`, then `Recv` (the range loop). `Get`
  covers the re-read with `db.Get`, the map assertion and the `cid` lookup, and
  `Fetch` covers `sh.Cat` and `ReadAll`. Each error path `continue`s, as in the code.
- **Main**: `Add` (`sh.Add`), `Put` (`db.Put` stores the value and emits `EventWrite`
  to the subscriptions that exist at that moment) and `Shutdown` (a signal).
  `log.Fatalf` on a failed call is `Exit`, which ends the whole process.
- **Other peers**: `RemoteWrite`. The database grants write access to `"*"` (line 106),
  so a replicated write can change the value under this peer's key without an event.

A value is a record: whether it is a map, and its `cid` entry if that is a string.
The constant `Faults` switches failing IPFS and store calls on. `MaxRemote` bounds
replicated writes.

**Fairness.** Go's scheduler eventually runs every runnable goroutine, so every step
of main and of the listener is weakly fair. Signals and other peers come from outside
the program, so they get no fairness.

## Event signing (`Signature`, `SignatureProofs`)

`src/p2p/go-nostr-sdk/signature.go`, with the producer steps of the subspace example.

- **`Sign`** (lines 49-77). It sets `PubKey` to the key's address without `0x`, then
  serialises, hashes and signs, and stores the ID and the signature. An invalid key
  returns before any change, which is a stutter.
- **`CheckSignature`** (lines 17-44) is the set of outcomes it may have:
  - `"error"` for bad hex;
  - `"panic"` for fewer than 65 bytes, because `sig[64]` is indexed at line 27;
  - otherwise, `v >= 27` is reduced by 27 (`NormV`), and `SigToPub` recovers a key
    that is compared with `PubKey`.

  The ID field is never read.
- **Ideal cryptography.** Recovery yields the signer only for its own message and
  recovery id. Otherwise it yields a key nobody holds (`Stranger`) or an error.
- **`Serialize`** is outside the repository. It is the record of the fields it covers.
- **Other actions.** The producer's `SetPubKey` and `SetBody` are the example's
  assignments, which may come after `Sign`. `Publish` is the relay upload. Untrusted
  peers `ForgeSig` (arbitrary text, a length, a last byte) and `ForgeFields` (another
  `PubKey` or body under a stored signature). `Check` is a consumer's call.
- **History variables.** `signed` holds the (key, message) pairs `crypto.Sign` signed.
  `issued` holds the envelopes as `Sign` left them.

No fairness is assumed, because every property is a safety property.

## cRelay start-up (`ServeStartup`)

The `serve` command of `src/p2p/cRelay/serve.go`, lines 55-135.

- **Main**:
  - `DbInit` and `Setup` cover the store, the adapter and `go rl.Start` (line 93), each
    with its error return.
  - `AddHook` is one of the three `append`s of lines 101-115.
  - `SetPrintStatus` is line 118.
  - `WaitStarted` is `<-started`, followed by the "relay running" log.
  - `Exit` is `return <-exited`. It meets the goroutine's send on the unbuffered
    channel.
- **Relay goroutine** (khatru's `Start`, outside the repository):
  - `Listen` either closes `started` and serves, or returns the listen error without
    closing `started`.
  - `ServeEnds` is Serve returning.
  - `Request` is a client request whose handler runs the hooks of its kind. Calling
    the still-nil `printStatus` panics the process (`Crash`).

**Fairness.** Weak fairness applies to the goroutine steps only. Requests and the end
of Serve come from outside, so they get none.

## Runs added for these modules

| Run | cfg | Expect | Properties | What it shows |
|---|---|---|---|---|
| listener | `MC_OrbitListener.cfg` | pass | TypeOK, EventsHandled, DeliveredWriteFetched | With faults and one replicated write, every delivered event is handled to the end. Main's delivered write is fetched unless a call fails or a peer overwrites it. |
| lostwrite | `MC_OrbitListener_lostwrite.cfg` | violation | PutFetched | `Put` runs before the goroutine subscribes (line 125), so main's file is never fetched. |
| staleget | `MC_OrbitListener_staleget.cfg` | violation | FetchesWrittenValue | A replicated write between the event and `Get` (line 136) makes the listener fetch another cid. |
| signature | `MC_Signature.cfg` | pass | TypeOK, Sound, Complete | Edits after `Sign`, forged and wallet-style signatures and copied signatures never verify unless signed. Genuine envelopes always verify, with the recovery id as `Sign` writes it or in the wallet form `rid + 27` that lines 27-29 normalise (`WalletForm`). The mutant `NormVAbove` (threshold `> 27`) rejects the wallet form of id 0. |
| panic | `MC_Signature_panic.cfg` | violation | CheckNoPanic | An envelope published without a successful `Sign` has the empty Sig, and `CheckSignature` panics at line 27. |
| serve | `MC_ServeStartup.cfg` | pass | ServeErrorReturned, ImplementsServeCommand | A Serve error after start-up is returned by the command. The two goroutines together implement `ServeCommand`. The listen-error path is taken too: there both goroutines stop, which is why deadlock is not checked. |
| listenhang | `MC_ServeStartup_listenhang.cfg` | violation | StartErrorReturned | When `Start` fails to listen, it returns without closing `started`. Main then waits at `<-started` (line 131) forever, and the goroutine's send on `exited` never completes, so the command hangs instead of returning the listen error. This rests on khatru's `Start` (outside the repository) returning a listen error before it closes `started`. |
| nilstatus | `MC_ServeStartup_nilstatus.cfg` | violation | HooksSeePrintStatus | A request between the first hook `append` and line 118 calls a nil `printStatus`. |

**Bounds.**
- **listener.** Three cids and one replicated write, which may be a valid value, a map
  without a cid, or not a map. That is enough to put a foreign write between an event
  and its `Get`.
- **signature.**
  - One key, one foreign `PubKey` and two bodies.
  - Signature lengths 0 and 65.
  - Last bytes 1, 27, 28 and 200: a bad id, the wallet forms of ids 0 and 1 (27 is
    the threshold itself), and an out-of-range id.
  - Two envelopes on the relay, so that a forgery of a forgery occurs.

  A second key doubles the state space without a new case, because a foreign key
  already recovers as `Stranger`.
- **serve.** Up to six requests while the three hooks are being registered.
- **listenhang.** Two requests; the counterexample needs none.

## Proofs for `Signature` (`SignatureProofs`)

tlapm checks every proof in this module. The proofs hold for all constants satisfying
`SignatureAssumption`.

- **`TypeCorrect`** proves `Spec => []TypeOK`.
- **`SoundCorrect`** and **`CompleteCorrect`** prove `Spec => []Sound` and
  `Spec => []Complete`.

Neither `Sound` nor `Complete` is inductive, since each speaks only of `last`. The
strengthening is `IInv == TypeOK /\ SigsSigned /\ IssuedGenuine /\ LastConsistent`:

- `SigsSigned`: every genuine signature in the relay and in `evt` was signed over its
  recorded message.
- `IssuedGenuine`: every issued envelope carries its own signature over its own
  serialisation.
- `LastConsistent`: `last.out` is an outcome of `CheckSignature(last.env)`.

TLC checked `IInv` on the signature instance before it was proved. The argument rests
on two lemmas:
- `CheckAccepts`: a `"true"` outcome means the signature's signer is `PubKey` and its
  message is the serialisation.
- `GenuineAccepted`: every outcome of a genuine envelope is `"true"`, with last byte
  `rid` or `rid + 27`.
- `WalletFormGenuine`: the wallet form of an issued envelope keeps its `PubKey`, its
  serialisation and its signature's fields but for the last byte.

## The serve command refines `ServeCommand` (`ServeStartupProofs`)

`ServeCommand` states what the command promises, with no goroutines, channels or
hooks. It has three variables:
- `cmd`: booting, announced, returned or dead;
- `relay`: down, up, stopped, failed or dead;
- `ret`.

It has these actions:
- `Abort`: an error before the relay starts.
- `Up` and `Fail`: the relay listens, or fails to.
- `Stop`: the relay stops serving.
- `Announce`: only once the relay has been up.
- `Return`: only after announcing and once the relay has stopped, returning its
  error.
- `Die`: only while the relay serves.

`ServeStartup` defines the refinement mapping:
- `CmdOf`: main's labels up to line 131 are "booting".
- `RelayOf`: the goroutine is down until it listens and up while it serves. Once it has
  returned, it is "stopped" or "failed", depending on whether it had closed `started`.
- `result` maps to `ret`.

TLC checks `ImplementsServeCommand == Abs!Spec` on the serve run. TLAPS proves it for
every set of hook kinds and every request bound:

- **`Refinement`** proves `Spec => ImplementsServeCommand`. It has two parts:
  - `RefineInit`: `Init` maps to the abstract initial state.
  - `RefineNext`: each concrete step maps to an abstract step or a stutter.
    - Hook appends, the `printStatus` assignment, served requests and
      `orbitdb.Init` success are stutters.
    - Each error return is `Abort`.
    - `WaitStarted` is `Announce`.
    - The `exited` rendezvous is `Return`.
    - The two outcomes of listening are `Up` and `Fail`.
    - The end of Serve is `Stop`.
    - A panicking request is `Die`.

The proof rests on the inductive invariant `IInv`. TLC checked it on the serve
instance first. Besides the label types, it holds `Coupled`, which says how the two
goroutines' labels, `started` and `rerr` go together:
- nothing runs before `Setup` starts the goroutine;
- `started` is closed exactly from the moment the relay serves;
- main passes `<-started` only once it is closed;
- the `exited` rendezvous ends both goroutines;
- a panic ends both.

`Announce` needs the relay up or stopped, and `Return` needs it stopped; `Coupled`
supplies those facts.

## Type correctness of the listener (`OrbitListenerProofs`)

**`TypeCorrect`** proves `Spec => []TypeOK` for all cids, all values other peers may
write, and every bound satisfying `ListenerAssumption`. `TypeOK` says that
`fetched \subseteq Cids`, which is not inductive by itself. `Fetch` adds `got`, so the
proof strengthens `TypeOK` with `FetchesCid`: the listener reaches `sh.Cat` only with a
cid it found in the store. That is the `ok` check at lines 149-153, and the mutant
`GetNoCidCheck` removes it.

## Only model-checked

- **Liveness.** `EventsHandled`, `DeliveredWriteFetched` and `ServeErrorReturned` need
  fairness and `ENABLED`, which are out of the prover's reach.
- **The violations.**

## Not modelled

| Part | Why |
|---|---|
| `example/publish/publish.go` | A one-shot program: it signs one note and publishes it. Its `Sign` call is the `Sign` action of `Signature`; the rest is I/O. Like the subspace example, it imports `github.com/nbd-wtf/go-nostr`. The repository has no `go.mod` that redirects that path, and the model takes both examples' calls to be those of `signature.go` (package `nostr`). |
| OrbitDB demo, lines 1-87, and `getOrCreatePeerID` | IPFS shell, libp2p host and key-file set-up. Each failure is a `log.Fatalf` before any concurrency. |
| The `printStatus` debounce body, and `serve.go`'s flags | Only query and log, or configuration. |
| The ID field of a signed event | `CheckSignature` never reads it (line 15). Nothing in the repository uses it after `Sign`, so the model records it without a property. |
| `ValidateBusinessOp` in the example | Not modelled. |
| Timestamps and JSON encoding details | Abstracted away. |

## Plan for later work

1. An abstract "accepted-event" specification that `SubspaceRelay`'s consumer refines.
2. Combine `Signature` with `SubspaceRelay`, so that `Parse*` runs only on envelopes
   whose signature verifies.
