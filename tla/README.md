# Verification of the did:julia resolver

A `did:julia` DID is a singleton on the Chia blockchain: the identifier encodes
the id of its launcher coin, and the puzzle hash of its one unspent coin commits
to an eight-slot state (puzzle version, launcher id, recovery delay,
authentication, custodians, recovery configuration, document pointer, parked
recovery). The repository holds the method specification (`spec/`), a TypeScript
resolver (`ts/src/`) that asks a full node a handful of questions and derives
the state without running CLVM, and the Python reference resolver
(`src/did_julia/`). This directory models both in TLA+, the TypeScript
resolver in full depth and the Python driver as a second implementation of the
same promise, checks them with TLC, and proves what matters most with TLAPS.

## The system

| part | state it keeps | operations | what makes it correct |
|---|---|---|---|
| front of the driver, `ts/src/resolver.ts` | none | `producesRepresentation`, the refusal of other versions, `parseDid` | a call is refused for the first thing that stands against it, and for nothing else |
| resolution driver, `ts/src/resolver.ts` | what one call carries across its awaits | `resolve`, `getResolver` (one client for all calls) | a result describes one moment of the call; every failure maps to the error that is true |
| lineage traversal, `ts/src/chain.ts` `traceSingleton` | launcher, prelauncher, record, parent, generation count | launcher and prelauncher lookups, fast path, walk | the coin returned was the tip; the walk ends; a fallback loses nothing |
| RPC client, `ts/src/chain.ts` | `singletonInfoEnabled`, shared; one timer and one abort listener per request | `post`, four RPCs, `httpTransport`, `readBoundedText` | an outage is never an absence; only a missing method turns the fast path off |
| state derivation, `ts/src/state.ts`, `ts/src/transitions.ts` | none (pure); the search keeps a stack and counters | `candidateStates`, `deriveVerifiedState`, `parseState`, `revealedKeysFromSpend`, `genesisPublicKey` | no state is served that the coin does not commit to; a spend the driver knows is derived |
| DID document, `ts/src/diddoc.ts` | none | `buildDocument`, `resolutionResult`, `errorResult` | the keys the chain proves are listed; deactivation is true and permanent |
| CLVM codec, `ts/src/clvm.ts` | none; two stack machines while they run | `deserialize`, `sha256tree`, `serialize`, `curriedPuzzleHash`, `uncurry`, `toList`, `asInt`, `intToAtom` | what is accepted is what was encoded; what is parsed can be hashed; hashes of parts are hashes of wholes |
| identifier codec, `ts/src/identifier.ts` | none | `parseDid`, `formatDid`, base58 | identifiers and launcher ids correspond one to one |
| Python resolver, `src/did_julia/` | none between calls | `resolve`, `trace_singleton`, executing the last spend on a CLVM, `verify_state` | it keeps the promise of the TypeScript driver, or says of a result that it does not |
| the chain and the node (not in the repository) | the singleton's coins | RPC answers, spends, reorganizations | assumptions, listed below |

The driver calls the client, which calls the node over HTTP; the traversal hands
four coin records to the derivation, the derivation hands a state and candidate
keys to the document. All parts but the client are stateless between calls; all
calls of one registry share one client. The Python driver asks the same node the
same questions, synchronously, and reads the state from the last spend before it
holds it against the coin. What is hard here:

* a resolution is a chain of up to thousands of awaited RPCs about a chain that
  moves: spends and reorganizations fall between any two of them, timers race
  answers, an abort may come at any time, and a gateway answers from replicas
  of different ages;
* concurrent calls share the fast-path switch;
* the derived state is a prediction that only a hash comparison makes true, and
  the verdicts of the document (deactivated, listed keys, pending) must be
  right after every sequence of operations that custodians, recovery agents,
  pre-rotated keys and the owner can interleave;
* the search for candidates is cut off by three bounds that count different
  things, and so are parsing, hashing and writing of one CLVM tree;
* everything a stranger writes (a header, an identifier, a blob) is read by
  small loops over positions, signs and sizes, where one off is a wrong hash,
  and a wrong hash is a DID that does not resolve;
* two implementations of one method treat an outage, a refusal and a mismatch
  differently.

The list of hazards, each at its line, is in `PROJECT.json`.

## Modules

| module | models |
|---|---|
| `Singleton` | the environment: one singleton's coins, creation, spends, reorganizations, the views a late replica answers from |
| `Resolution` | the abstract specification: a call runs while the chain moves and returns, in one step, an outcome that some moment of its run justifies |
| `Resolver` | the driver: `resolve`, `traceSingleton`, the RPC client, one action per continuation between two awaits; any number of calls over one client |
| `MCResolver` | small instances of it |
| `ResolverProofs` | its theorems |
| `DidState` | the eight slots, `parseState`'s verdicts, the six transitions, the candidates, the document: pure operators |
| `DidLifecycle` | the life of one DID: who may spend it, and what the driver says after every spend |
| `MCLifecycle` | a small instance of it |
| `LifecycleProofs` | its theorems |
| `CandidateSearch` | the bounded search for the state behind a spend: `candidateStates` as `deriveVerifiedState` consumes it |
| `MCCandidateSearch` | small solutions for it |
| `CandidateSearchProofs` | its theorems |
| `Request` | the abstract request: settled once, in one step, with a whole text or a fault |
| `HttpTransport` | one HTTP request: `httpTransport` and `readBoundedText`, with timer, abort signal and stream |
| `MCHttpTransport` | small bodies for it |
| `TransportProofs` | its theorems |
| `AcceptHeader` | `producesRepresentation`: one step per media range and per parameter |
| `Numerals` | the loops that read and write a number by its digits, shared by `Identifier` and `ClvmValues` |
| `Identifier` | base58 and `parseDid`/`formatDid`: pure operators |
| `FrontDoor` | what `resolve` does before its first request: the three refusals in their order |
| `InputProofs` | theorems of `AcceptHeader`, `Identifier` and `FrontDoor`; the induction and recursion that `ClvmCodecProofs` needs as well |
| `ClvmCodec` | the stack machines of `clvm.ts`: parser, hasher, writer, one step per turn of their loops |
| `ClvmValues` | currying, lists and integers, and the reference definitions the codec is held against |
| `ClvmCodecProofs` | theorems of both |
| `MCInputs` | headers, identifiers and blobs for `FrontDoor` and `ClvmValues` |
| `PyResolver` | the Python driver, as an implementation of `Resolution` under a mapping that names where it differs |
| `MCPyResolver` | a small instance of it |
| `PyResolverProofs` | its theorems |
| `SingletonProofs` | lemmas on chains, views and coins for the proofs of both drivers |

`Resolver` and `PyResolver` extend `Singleton` and instantiate `Resolution`
(`Promise`) under a refinement mapping each; `HttpTransport` instantiates
`Request`, which is what `Resolver` takes a request for (`Answer`, `Fail`,
`Timeout`, `Abort`); `FrontDoor` ends where `Resolver` begins (its three
refusals are the `RequestErrors` of `Refuse`); `DidLifecycle` extends `DidState`. `Resolver` sees the
derivation as a set of candidate states held against the coin (`Candidates`,
`Verified`), `DidLifecycle` opens the candidates and sees the chain as
quiet. Operators named as mutants in their comment are no part of the model:
each is a plausible bug, kept next to the definition it would replace, and
shows that a property notices it.

### Resolver

`pc[c]` names the RPC that call `c` has in flight (`launcher`, `prelauncher`,
`fast`, `fastParent`, `children`, `spend`, `genesis`). The node computes its
answer in `Answer` and the driver continues in a `Receive...` action, so that
everything else can happen in between. `Fail`, `Timeout` and `Abort` are the
ways a request ends without the answer: the errors are told apart as far as
some handler of the code does. `rec`, `cur`, `pre`, `gens`, `derived` are the
local variables that live across awaits; `enabled` is `singletonInfoEnabled`.

A coin id hashes the whole ancestry of a coin, so in the model an id *is* the
path from the prelauncher to the coin, and a coin's puzzle hash is the state at
the end of the path. That makes a reorganized chain with different spends have
different ids, and one that confirms the same spends again have the same ids in
other blocks, as on the real chain. `seen`, `faulted` and `shrunk` are history
variables; no action reads them.

`deriveVerifiedState` holds every candidate against the coin remembered as the
current one, not against the child of the spend it fetched. After a
reorganization that spend may have made another coin, and the state is served all
the same if a candidate has the right hash: the state revealed before the spend
(the identity), or what a transition makes of some other pair of the solution.
`Candidates` therefore holds the revealed state, the state of the spend's child
unless the operation is one no transition names (`Unknown`), and any other
states at all (`others`); those parseState refuses (`Opaque`) are no candidates.

### DidState and DidLifecycle

A Merkle tree is the set of its leaves; a puzzle hash commits to a state, so a
coin is the state it commits to. Slot 2 never changes and is left out. One
action of `DidLifecycle` is one confirmed spend with its operation; the new
state is the one `transitions.ts` computes, which the repository pins to the
compiled puzzles with recorded vectors (`tests/fixtures/transitions.json`). Who
may spend is decided by puzzles outside the repository; the guards ask for no
more than the control path `parseState` weighs, so they allow at least what
the puzzles do. `spend` is what `get_puzzle_and_solution` would reveal.

A slot parseState throws on (no list of four for slot 4, a root, class or
custodian of the wrong shape, a bad pre-rotation, a delay or a pointer that is no
atom) is `Malformed`, and `Parses` refuses a state that holds one, or that is
not eight slots wide. How much of that the puzzles would let through is not known
here, so every operation may install such a value: the owner through `Config`,
the agents and a predecessor through `Install`, a document pointer through
`Pointers`. `RevealedKeys` are, as in the code, the 48-octet atoms of the
operation solution of any spend that left slot 4 alone: the signers' keys, and
whatever else of that length (`Extra`, the all-zero key included) a custodian's or
an agent's solution holds.

### CandidateSearch

`DidState` takes the candidates as a set: every transition with every pair of
the solution. The code offers them one by one and stops at three bounds that
count different things: nodes popped by the scan for known puzzles
(`MaxVisited`, 16384), pairs collected for the exhaustive search and different
candidates offered (both `MaxCandidates`, 4096). Here a solution is a binary
tree, given by the positions of its pairs; `stack`, `visited`, `pairs`,
`seen` and `produced` are the local variables of `revealedPuzzles`, `allPairs`
and `candidateStates`, `todo` the transitions they still have to offer.
`recognized` is what the puzzle-hash table makes of the solution: any pairs may
be named, and a stale table names fewer. Candidates are told apart by the
operation and the pair they read, so equal subtrees count as different; in the
code the hash removes them, which only leaves more room under the bound. `want`
is the candidate the coin commits to; none, if the spend used an operation the
driver does not know.

### HttpTransport

What `Resolver` takes for one answer or one outage is here a sequence of steps:
the head of the response, its chunks, the end of the stream, and between them
the timer, the caller's signal and the network. `armed` and `listening` are the
timer and the abort listener, `aborted` the controller, `held` the octets the
streaming `TextDecoder` keeps back when a chunk ends within a character.
`Responds` offers every head: not ok, a declared length that is missing, within
or above the limit and need not be true, a body with or without a stream. A
`Start` under a signal that fired before is allowed, as in the code; the listener
then never runs. A response refused by its head is not cancelled by the driver
and is left to the runtime.

`ImplementsRequest` maps all of it to `Request`: a request in flight is open
until its controller aborts and given up from then on, and only an open request
is ever answered.

### AcceptHeader, Identifier and FrontDoor

A header is the sequence of its media ranges as `split` leaves them; of a range
its type, of a parameter its name and what the code tells apart of its value. The
variables of `AcceptHeader` are those of the two loops of
`producesRepresentation`. `Acceptable` is the reference: a quantified statement
of RFC 9110's precedence, without an order of evaluation. `FrontDoor` puts
negotiation, the refusal of `versionId` and `versionTime` and `parseDid` in the
code's order. A character is its index in the alphabet, an octet a number; the
alphabet, the octet and the length of an id are constants.

### ClvmCodec and ClvmValues

`deserialize` keeps a stack of pending operations (`ops`) and of nodes read
(`values`); `sha256tree` a stack of frames and one of hashes; `serialize` a stack
of nodes. Each action is one turn of a loop. The wire format is that of the code
for octets of any width (8 in the code, 4 in the runs), so that every header
length, every size on both sides of a header's capacity and every depth on both
sides of a bound occur in blobs of a few octets. Sizes are computed modulo
2^`SizeBits`, as JavaScript's shifts do. Hashing is an injective constructor.
`ClvmValues` adds the functions on trees and the references: the recursive
grammar of the encoding (`NodeAt`), the recursive tree hash, two's complement
(`Denotes`). `Starts` are the places of a blob at which a node begins, going by
the octets that headers declare; octets inside an atom are none of them.
`SizesFit`, the one hypothesis of `ReadsTheEncodedTree`, is about headers at
those places only: an atom may hold any octets.

### PyResolver

The Python driver is synchronous, so one action is the answer to a request and
the code up to the next one. `ShownAs` names what has to be rewritten for its
results to be outcomes of `Resolution`:

1. a request that raises (status, timer, no JSON) escapes `resolve`, and a refusal
   (`success: false`) of `get_coin_record_by_name` is reported as an absence;
   both stand for `internalError`;
2. a document is served whether `verify_state` said yes or no; one that says
   that it was not verified stands for `unverifiableState`;
3. `genesis_public_key` does not ask whether the key is bound to the launcher id;
   for a legacy DID it may show one that the TypeScript driver would not.

`disturbed` is history: a reorganization or a late replica during the call.

## Assumptions about what is outside

* The node is trusted about the current chain, as `ts/README.md` says: answers
  are computed from a view of the real chain (possibly late by `Lag` coins, the
  index by `IndexLag`), or fail. A record that does not hash to the requested
  id is the fault `integrity`.
* 404, 405 and 501 on `get_singleton_info` come only from an endpoint without
  it. (A proxy that answers 404 in an outage would turn the fast path off; that
  costs calls, not correctness, and `UndisturbedCallsAreServed` checks it.)
* Launcher, eve coin and its child are confirmed together (spec 7.1).
* SHA-256 has no collisions.
* An authentication configuration never asks for more signers than it has
  leaves; the driver does not look at the number.
* The owner may operate on an armed DID: the recorded vectors
  `rekey_while_armed` and `set_while_armed` do.

## Runs

| run | instance | question | result |
|---|---|---|---|
| `R_growth` | 2 calls over one client, all kinds of coin but legacy, 4 coins, 1 known and 1 opaque state and an unknown operation, index late by 1, bound of 2 generations | what does a call say of a DID that goes on being spent? what do calls do to each other over the shared switch? | holds, 2.2M states |
| `R_reorg` | 1 call, current and legacy DID, 4 coins, 2 known states and a spend between them by an unknown operation, 1 reorganization, replicas and index late by 1, fairness | is the coin of a document a tip, and the spend it is built from its own? can the genesis key go missing? does the driver implement `Resolution`, and return? | holds, 472k |
| `P_python` | 1 call of the Python driver, all kinds, 4 coins, 2 known and 1 opaque state, 1 reorganization, replicas late by 1 | does it implement `Resolution` but for the three differences? is an undisturbed document verified? | holds, 237k |
| `L_life` | 2 keys, 1 custodian/agent, 1 pointer, 6 configurations, 6 recovery set-ups, 12 triples a recovery may install, 4 spends; malformed values in every slot that has them, one owner's key and the all-zero key as stray atoms | are the document's verdicts right after every history? | holds, 319k |
| `S_search` | all solutions of up to 3 pairs, lists of 4 and 6; 7 nodes scanned, 6 candidates | does the search end, and find what it should? | holds, 260k |
| `H_race` | 2 requests, 1 signal, 6 bodies of up to 4 octets, limit 3 | whole answers, bounded streams, nothing left behind? does a request settle in one step, as `Resolver` takes it to? | holds, 140k |
| `I_inputs` | headers of up to 2 ranges with 2 parameters and of 3 ranges with 1; callers with every combination of a header, version options and a bad identifier; identifiers of up to 4 characters over an alphabet of 3; blobs of 4-bit octets about every bound | negotiation, refusals, base58, and the CLVM codec against their references | holds, 55k |
| `V_keys`, `V_zero`, `V_pending`, `V_width` | as `L_life`; `V_keys` with agents only and no stray atoms | statements of the spec and of ADR 0001, see Findings | violated |
| `V_stale` | as `S_search` | the backstop of ADR 0001 | violated |

Why the bounds are enough. The driver looks at most two generations of the
lineage at a time (record and child, coin and parent). A created DID is three
coins long, so four coins leave one spend that lands between any two requests;
the walk is then one to two generations behind the tip, and a bound of 2 lies
between the two, so that it refuses some calls and not others. The fast path is
exercised ahead of and behind the tip by an index that is late by one. One
reorganization that removes any number of spends and lets the same or other
spends return already gives every mixture of an old and a new branch a call can
hold, since a call keeps records of two coins only. Two calls are enough for
the one shared flag: it only ever goes from true to false. Four spends are
initiate, an operation while armed, completion, and one more; every pair of
operations in sequence occurs within them, and the document depends on the last
spend and its result alone. What a recovery installs are both ways to brick the
DID, each single way to leave it alive, and a malformed value in each slot.
`EveryCallReturns` is a property of bounded instances: `MaxLength` ends the
growth of the chain in the run, so what it shows is that no fallback, late
answer or failure sends a call round again; that the walk itself ends on a chain
that grows for ever is `WalkIsBounded`. In `S_search` the two bounds lie inside the
range of the solutions, so that each of them cuts some searches off and not
others, and a list of six pairs is beyond the scan as well; in `H_race` the
bodies lie below, at and above the limit, with a character at every place a
chunk can end. In `I_inputs` a range has two matching parameters at most, which
makes every order of the two dimensions of specificity occur between two
ranges; calls meet any two, and all three, of the objections `resolve` may raise,
so that their order shows; identifiers go one character past the longest id; blobs are all short
ones over the octets that start something, both sides of the depth bound by
every mixture of left and right nesting, every atom length to either side of
the written headers' capacities, and sizes that overflow. The theorems below
have no such bounds.
`CHECK_DEADLOCK FALSE` is set where the system may stop: a finished call, a chain
at its bound, a bricked DID.

`FairSpec` assumes weak fairness of "the RPC is answered, fails or times out"
and of the continuation of an answered RPC, per call. The first is the timer of
`httpTransport`, which always fires; the second is the event loop, which runs a
settled promise's continuation. Nothing is assumed of the chain, and no
fairness of individual outcomes: RPCs may time out for ever. `HttpTransport`
opens that first assumption: its `FairSpec` has timers that fire, the rejection
of an aborted await that is delivered and a stream that settles its cancel, and
nothing of the endpoint, and `EveryRequestSettles` follows. `CandidateSearch` is
synchronous code; its fairness is that it runs. Of the Python driver no liveness
is claimed: the timeout it gives `requests` (`chain.py:102-104`) is one per read
and not for the request, and its walk (`chain.py:170`) has no bound.

## What is proved

By TLAPS, for every value of the constants under the assumptions the modules
name (any number of calls, states, reorganizations, spends, lags and bounds).

`ResolverProofs`. `Inv` is inductive. `NotFoundIsTrue` and `CurrentDuringCall`
are not: they speak of results, and a result is computed from records a call has
carried over many steps. `Inv` says what those records
still mean: an answer on the wire was computed from a view of the call's run
(`ReplyOK`), past the launcher the DID names a singleton (`WalkOK`), the coin
taken for the current one was the tip of a view (`CurOK`), a state derived
before the genesis key is fetched is the one that coin commits to
(`DerivedOK`), and so a result is one of `Resolution`'s outcomes (`ResultOK`).
The proof has one lemma per answer of the node (what it is, given its view) and
one per action. From it: `Invariance`, `Currency`, `AbsenceIsTrue`,
`BoundedWalk`, `HonestDowngrade`, `SwitchStaysOff`, and `Implementation`: every
step of the driver is a step of `Resolution` or a stutter. `Resolution` allows a
document with the genesis key and one without; that no failure makes the key go
missing is `GenesisKept`, from `GenesisInv`: the prelauncher's record, read once
and carried to the end of the call, is spent unless some view of the call had no
DID.

Three more theorems are about growth alone, and `Inv` is too weak for them: it
knows of each record that it was true of some view, not that all are true of one
chain. `TruthInv` adds that. While no reorganization took coins away, every view
of a call is a prefix of the chain (`GrownOK`), and the coin taken for the
current one is always one longer than the record whose spend is fetched
(`NextOK`): so what that spend reveals is the current coin (`OwnSpend`), and
`unverifiableState` is a statement about a real tip (`RefusalIsTrue`). Under a
call nothing disturbed, moreover, every record it carries is true of the chain as
it stands and of the view its next answer comes from (`CalmOK`, `Carried`), and
growth keeps such a record true (`HoldsLonger`); so no branch that ends in an
error is open, and the call is served (`UndisturbedServed`), whatever number of
spends lands between its requests and however late the index is.

`LifecycleProofs`. `LifecycleInv` adds to the types what makes the document's
verdicts right: a recovery can be parked only while the agents that armed it are
still in slot 6 (hence `deactivated`, which never looks at slot 8, cannot miss
a recovery that would revive the DID), and the last spend of a DID its owner
operates shows all the keys there are. From it: `LifecycleInvariance`,
`Permanence`, `Bricking`, `Enumeration`. That a spend is derived at all is not
claimed there: new states and candidates are made by the same operators. What
can be wrong is whether the search reaches the pair, and that is
`CandidateSearch`.

`CandidateSearchProofs`. `SearchInv` says where the pair that matters is: while
a tree is traversed the nodes on the stack lie apart from each other, what is
below them and what was popped are disjoint (so each pop uses up one node of
the tree and the count of pops bounds the tree), and the pair is below the
stack or already in `todo`; afterwards the candidate is in `todo` and not yet
in `seen`, and while it is not in `seen` fewer than all candidates were
offered. `PopStep` is the lemma about one pop, for any finite tree. From it:
`SearchInvariance`, `Boundedness`, `Completeness`, `PinnedCompleteness`.

`TransportProofs`. `TransportInv` says that text and decoder hold exactly what
the octets read so far decode to. The lemma behind it, `StreamDecodes`, is that
decoding a prefix with its last octet held back, and then the rest with that
octet in front, decodes the whole. From it: `TransportInvariance`,
`WholeAnswers`, `BoundedStreams`, `ClearedUp`, `AbortDelivery`, and
`Implementation`: a request, with all that races in it, settles in one step of
`Request`.

`InputProofs`. `AcceptInv` says what the loops know so far: of the range at
hand how many of its parameters before the first `q` are satisfied and what
quality it has, and of the ranges before it that the best is one of the most
specific that match. From it `NegotiationInvariant`, and `NegotiationIsCorrect`:
the verdict is that of the reference for headers of any length, whatever the
order of ranges and parameters. `FrontInv` carries it through the gates: at each
of them all that stood against the call before is settled. From it
`FrontInvariance`, `RefusalsAreInOrder`, and `NamesAreExact`: identifiers and
launcher ids correspond one to one for any alphabet and any length of an id.
That rests on three lemmas. A number has one numeral without a leading zero
(`NumeralsAreUnique`, from `UniqueDivision`); base58 is the padding, zero by
zero, in front of the numeral (`ConversionSplits`, `ConversionReturns`); and
fewer octets never need more characters (`FewerOctetsFewerChars`), so every
launcher id has a name that is short enough to be parsed.

`ClvmCodecProofs`. `Reading(b)` gives for each place of a blob the node that is
encoded there and the place after it; it exists, and each place has at most one
(`ReadingEncodes`, `OneNodeEach`). What a stack machine still has to do is a
*run*: a sequence of intermediate results, one per thing left on its stack
(`Runs`). With these, `CodecInv` is the conjunction of

* `ParserInv`: what the blob encodes is exactly what the values read so far and
  the operations left will complete to (`ReadsOn`); and the operations account
  for how deep each of the values was nested (`DepthsAre`);
* `Decided`: a blob is refused only if it is too long or what it encodes is too
  deep, or nothing is encoded; it is returned only if nothing is left to read
  or to do;
* `HasherInv`: the frames left take the hashes made so far to the hash of the
  root, and no frame stands deeper than the bound leaves room for
  (`FramesFit`), so that `unhashable` is never reached;
* `WriterInv`: the octets written, followed by those of the nodes left, are the
  serialization of the root, and no more nodes were popped than octets written,
  so that `unwritable` is never reached.

Blobs are of any length here, so `CodecInv` quantifies over all sequences and TLC
cannot evaluate it; the properties that follow from it are those of `I_inputs`.
From it `CodecInvariance`; `CastsAreSafe`: no pop that the code casts to a node or
a hash is undefined; `WhatIsReadIsHashed`: the two bounds of the parser on octets
and on pending operations imply those of the hasher and of the writer;
`ParserIsExact`: of a blob none of whose headers declares a size of more than 32
bits the parser returns the tree that the grammar derives, and refuses only what
is too long, too deep or no encoding (whatever either of the two reads begins at
one of the `Starts`, `StartsGoOn`, where under the hypothesis both read the same
atoms, hence the same trees, `EncodingsAgree`); `WritingIsInverse`: what is written is read back as the
same tree (`TreeStands`); `ListsAreExact`: a list is its items and its terminator
(`ListRebuilt`); `HashesAreExact`: hashing distinguishes trees
(`HashIsInjective`), and what `curriedPuzzleHash` computes is the hash of the tree
that `uncurry` takes apart, layer by layer (`LayerHashed`, `UncurriedAre`,
`AreUncurried`); `IntegersAreExact`: an atom is read as the integer its two's
complement denotes, an integer is written in the shortest atom that denotes it
(`PlainIsWritten`, `SignedIsWritten`, from `NegativeDigits`), so each is the
other's inverse.

These are inductions over data, which the library's theorems cannot be used
for here. They are made with sets instead of predicates: `SetInduction` says
that a set of numbers with 0 and all successors is `Nat` (from the library's
well-foundedness of `<`), `Recursion` that a function with a recursive
definition exists, and `TreeInduction`, `TreeRecursion` and `PlaceInduction` are
the same for trees and for the places of a blob. Each recursive function of the
model is unrolled once by a lemma of its own (`HornerUnrolls`,
`StackNeededUnrolls`, `SerialUnrolls` and so on), and the proofs use these.

`PyResolverProofs`. `PyInv` relates the records of a call to its views (the coin
walked to is the tip of one of them when the spend is fetched; the state read is
that of the coin, or provably not). From it `PyInvariance` and
`PyImplementation`: the Python driver refines `Resolution` under `outcomeBar`.
`PyUndisturbed` needs, as `UndisturbedServed` does, that the records a call
carries are true of the chain as it stands.

The proofs about both drivers rest on `SingletonProofs` (tips, prefixes, records
and children of a view, the chain's steps).

The assumptions on constants these proofs add are facts about the code's
numbers. `IdentifierAssumption`: 44 characters, within the 64 of
`identifier.ts:19`, hold 32 octets. `CodecAssumption`: the sizes in headers of up
to four octets fit the 32 bits of JavaScript's shifts, and a fifth octet's need
not. `BoundsAssumption`: `MAX_BLOB_BYTES` (2^19) is less than the 10^6 nodes
`serialize` writes (`clvm.ts:139`) and than the 2^20 octets of the largest atom it
can write, and `2 * MAX_DEPTH` (4096) is less than `MAX_BLOB_BYTES`, so that the
bound on depth and not the one on octets is what limits a tree's height.

Only model-checked: `EveryCallReturns`, `SearchEnds` and `EveryRequestSettles`,
the liveness properties under fairness. Every invariant and every action property
of a passing run is a theorem.

## Findings

Disagreements between the code and what the repository says of it; each is a
`V_` run whose counterexample shows it.

* `V_keys`: spec 8.2 lists keys revealed in *a* spend whose path ends in the
  current root; the driver looks at the most recent spend only. In the run the
  owner rekeys to a second key, which signs the next spend and is listed; the
  agents' spend after it leaves slot 4 alone, and hides the key. (The keys that
  sign a pre-rotated takeover prove their membership in the root that becomes the
  current one, and are not listed either, as that spend changes slot 4; the
  property leaves such spends out.)
* `V_zero`: spec 8.2 lists exactly the keys the chain proves, and by 7.3 the
  all-zero value is no key. The driver takes any 48-octet atom of the last
  operation solution for a key that may be listed, and the one-leaf tree of the
  all-zero atom is the sentinel: with an inert slot 4 and live agents (or
  custodians) a solution that holds the atom gets it listed. Under a root of one
  real key no other key is ever listed, as the tree commits to its one leaf.
* `V_pending`: spec 8.3 defines pending by slot 3, the driver by slot 8; an
  operation on an armed DID separates them. By spec 7.3
  (`did-julia.md:215`) normal operations are blocked during the delay; the
  recorded vectors `rekey_while_armed` and `set_while_armed`
  (`tests/fixtures/transitions.json`) are of such operations.
* `V_width`: ADR 0001 promises that an unchanged predecessor DID resolves; one
  with seven slots does not.
* `V_stale`: ADR 0001 says that a stale puzzle-hash table costs performance and
  never correctness; the backstop is cut off earlier than the scan the table
  guides, so an operation between the two bounds is derived with a current
  table and refused with a stale one.

More places say a little more than the code does, and have no run.

* Spec 7.2 (`did-julia.md:204`) wants `notFound` for a launcher that is no
  did:julia creation. The driver traces any singleton and answers
  `unverifiableState` (`state.ts:444`) or `internalError` for one of another
  kind; `UnverifiableIsTrue` names the case.
* `deserialize` reads "the standard CLVM wire format" (`clvm.ts:45`); `readSize`
  computes in 32 bits (`clvm.ts:129`), so the 34-bit size in a header of five
  octets is read modulo 2^32, and a blob that ends long before such an atom does is
  read as a shorter atom. `SizesFit` excludes these headers from
  `ReadsTheEncodedTree`, and nothing else.
* By `ts/README.md:104` `notFound` means the node reported the coin absent; it is
  also returned for a coin that is present and no launcher, or a launcher never
  spent (`chain.ts:441-446`).
* By `ts/README.md:114` bodies are bounded while streaming; a response object
  with neither a stream nor a declared length is read whole (`chain.ts:178`),
  and `StreamsAreBounded` speaks of streams only.
* The request's `signal` is offered as a cancellation signal (`resolver.ts:163`);
  it is listened to only while a request is in flight (`chain.ts:268`), and
  `getSingletonInfo` swallows the abort, so a call cancelled before it began,
  between two requests or during that one goes on. `Resolver.Abort` models it.
* On failure the Python `resolve` sets `didResolutionMetadata.error`, says its
  docstring (`__init__.py:35-39`); errors of transport and a body that is no JSON
  are raised instead (`PyResolver.Raises`). By `state.py:7-11` an inconsistent
  state cannot slip past the resolver; it is served, marked as not verified.
  `get_coin_record_by_name` reports every refusal as an absence
  (`chain.py:108-112`).

## Not modelled

What the JSON of an answer says beyond its kind, hexadecimal and byte
comparisons (`nodeEquals`, `toHex`, `fromHex`), the properties of the document that
copy one slot, timestamps, the Python resolver's own identifier codec, CLVM
helpers, revealed keys and document (they repeat those of the TypeScript
package, which are modelled), the package entry point, the build script and the
static files. `PROJECT.json` lists them with reasons. The kind "legacy" is in
`R_reorg` and `P_python` and not in `R_growth`: it differs from "julia" after the
last spend only.

## Plan

Done, in this order: the driver (`Singleton`, `Resolution`, `Resolver`), the life
of a DID (`DidState`, `DidLifecycle`), the search (`CandidateSearch`), the
request (`HttpTransport`, `Request`), what is read from strangers (`FrontDoor`,
`ClvmValues`), the Python driver (`PyResolver`), each with its proofs.

What is left, most useful first:

1. The Python driver's `revealed_keys_from_spend`, which executes the spend, as a
   second implementation of the keys of `DidState`.
2. Several DIDs over one client: the calls of `Resolver` resolve one.
