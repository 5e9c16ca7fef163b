------------------------------- MODULE Resolver -------------------------------
(***************************************************************************)
(* The TypeScript driver: resolve() of ts/src/resolver.ts with the         *)
(* traversal of ts/src/chain.ts, the derivation of ts/src/state.ts seen as *)
(* one test, and one FullNodeClient shared by every resolution in progress *)
(* (getResolver builds a single client).                                   *)
(*                                                                         *)
(* A resolution is a chain of awaited RPCs.  pc[c] names the RPC call c    *)
(* has in flight.  The node computes its answer at one moment (Answer) and *)
(* the resolver continues at a later one (the Receive actions), so the     *)
(* chain, the other calls, the timer and the caller's AbortSignal all move *)
(* between any two steps of a call.                                        *)
(***************************************************************************)
EXTENDS Singleton, FiniteSets

CONSTANTS
  Call,            \* the resolutions that may run
  Unknown,         \* <<s, t>>: the spends of s into t by an operation no transition names
  MaxGenerations,  \* MAX_GENERATIONS of ts/src/chain.ts
  IndexLag         \* generations by which get_singleton_info may be late

ASSUME ResolverAssumption ==
  Unknown \subseteq State \X State /\ MaxGenerations \in Nat \ {0} /\ IndexLag \in Nat

VARIABLES
  serves,     \* does the endpoint implement get_singleton_info?
  enabled,    \* singletonInfoEnabled of the shared client
  pc,         \* the RPC in flight, or "idle", "done"
  reply,      \* the answer on its way to the call
  rec,        \* launcher, then the record walked from, then the parent
  cur,        \* the coin taken for the current one
  pre,        \* the prelauncher's record
  gens,       \* generations walked
  derived,    \* the state deriveVerifiedState returned
  result,     \* what the call returned
  aborted,    \* has the caller's AbortSignal fired?
  seen,       \* history: the views in force while the call ran
  faulted,    \* history: did an RPC of the call fail?
  shrunk      \* history: did a reorganization remove coins under the call?

clientVars == <<enabled, pc, rec, cur, pre, gens, derived, result>>
historyVars == <<seen, faulted, shrunk>>
vars == <<chainVars, serves, clientVars, reply, aborted, historyVars>>

-----------------------------------------------------------------------------
(* RPC answers.  The error classes of ts/src/chain.ts, told apart only as  *)
(* far as a handler does: "absent" is a node's own "no such coin";         *)
(* "refused" any other success:false; "unimplemented" a 404, 405 or 501;   *)
(* "outage" every other transport failure, the timeout and the abort       *)
(* included; "integrity" an answer to a question that was not asked.       *)
Faults == {"refused", "outage", "integrity"}
ReplyKinds == Faults \cup {"none", "data", "absent", "unimplemented"}
Reply == [kind : ReplyKinds, body : SUBSET CoinRecord]

NoReply == [kind |-> "none", body |-> {}]
Data(records) == [kind |-> "data", body |-> records]
Failure(k) == [kind |-> k, body |-> {}]
NoRecord == [id |-> << >>, spent |-> FALSE, at |-> 0]

(* Mutants: a refusal, or an outage, taken for absence.                    *)
TakesRefusalForAbsence(r) == r.kind \in {"absent", "refused"}
TakesOutageForAbsence(r) == r.kind \in {"absent", "outage"}

ReportsCoinAbsent(r) == r.kind = "absent"

(* The record a reply carries.                                             *)
Only(r) == CHOOSE x \in r.body : TRUE

InFlight == {"launcher", "prelauncher", "fast", "fastParent",
             "children", "spend", "genesis"}
PCs == InFlight \cup {"idle", "done"}

RequestErrors == {"representationNotSupported", "unsupportedResolutionOption", "invalidDid"}
ErrorOutcomes == RequestErrors \cup {"notFound", "unverifiableState", "internalError"}
Error(e) == [out |-> e, coin |-> << >>, st |-> Launcher, genesis |-> FALSE]
Document(coin, st, g) == [out |-> "document", coin |-> coin, st |-> st, genesis |-> g]
NoResult == Error("none")
Result == [out : ErrorOutcomes \cup {"document", "none"}, coin : Path,
           st : State \cup {Launcher}, genesis : BOOLEAN]

Front(id) == SubSeq(id, 1, Len(id) - 1)

-----------------------------------------------------------------------------
(* What a node whose view is v may answer to the RPC call c has in flight. *)
RecordAnswer(v, id) ==
  IF OnChain(v, id) THEN Data({RecordOf(v, id)}) ELSE Failure("absent")

PrelauncherAnswers(v) ==
  {RecordAnswer(v, << >>)} \cup (IF v = << >> THEN {Failure("absent")} ELSE {})

SingletonInfoAnswers(v) ==
  IF ~serves THEN {Failure("unimplemented")}
  ELSE IF ~Established(v) THEN {Data({})}
  ELSE {Data({RecordOf(v, SubSeq(Tip(v), 1, n))}) :
          n \in {m \in 2..Len(v) : m + IndexLag >= Len(v)}}

(* get_puzzle_and_solution answers for a spend in the block it names; what *)
(* the spend reveals determines the child it created.                      *)
SpendAnswer(v, id, at) ==
  IF ChildrenOf(v, id) # {} /\ RecordOf(v, id).at = at
    THEN Data(ChildrenOf(v, id)) ELSE Failure("refused")

Answers(v, c) ==
  CASE pc[c] = "launcher"    -> {RecordAnswer(v, <<Launcher>>)}
    [] pc[c] = "prelauncher" -> PrelauncherAnswers(v)
    [] pc[c] = "fast"        -> SingletonInfoAnswers(v)
    [] pc[c] = "fastParent"  -> {RecordAnswer(v, Front(cur[c].id))}
    [] pc[c] = "children"    -> {Data(ChildrenOf(v, rec[c].id))}
    [] pc[c] = "spend"       -> {SpendAnswer(v, rec[c].id, rec[c].at)}
    [] pc[c] = "genesis"     -> {SpendAnswer(v, << >>, pre[c].at)}

Answer(c) ==
  /\ pc[c] \in InFlight
  /\ reply[c] = NoReply
  /\ \E v \in Views(chain) : \E r \in Answers(v, c) : reply' = [reply EXCEPT ![c] = r]
  /\ UNCHANGED <<chainVars, serves, clientVars, aborted, historyVars>>

Lose(c, k) ==
  /\ reply' = [reply EXCEPT ![c] = Failure(k)]
  /\ faulted' = [faulted EXCEPT ![c] = TRUE]

(* The request or its answer goes wrong on the way.                        *)
Fail(c) ==
  /\ pc[c] \in InFlight
  /\ reply[c] = NoReply
  /\ \E k \in Faults : Lose(c, k)
  /\ UNCHANGED <<chainVars, serves, clientVars, aborted, seen, shrunk>>

(* The timer of httpTransport: it aborts the fetch even when the answer is *)
(* already on its way, and a late answer is dropped.                       *)
Timeout(c) ==
  /\ pc[c] \in InFlight
  /\ Lose(c, "outage")
  /\ UNCHANGED <<chainVars, serves, clientVars, aborted, seen, shrunk>>

(* The caller's signal fires.  httpTransport listens for the event during  *)
(* one request and never looks at signal.aborted, so an abort fails the    *)
(* RPC in flight, and one that came before the call began does nothing.    *)
Abort(c) ==
  /\ ~aborted[c]
  /\ aborted' = [aborted EXCEPT ![c] = TRUE]
  /\ IF pc[c] \in InFlight
       THEN Lose(c, "outage")
       ELSE UNCHANGED <<reply, faulted>>
  /\ UNCHANGED <<chainVars, serves, clientVars, seen, shrunk>>

-----------------------------------------------------------------------------
(* The resolver.  Each Receive action is the code between two awaits.      *)
Goto(c, p) ==
  /\ pc' = [pc EXCEPT ![c] = p]
  /\ UNCHANGED result

Finish(c, r) ==
  /\ pc' = [pc EXCEPT ![c] = "done"]
  /\ result' = [result EXCEPT ![c] = r]

(* Options and DID string are refused before any RPC.                      *)
Refuse(c) ==
  /\ pc[c] = "idle"
  /\ \E e \in RequestErrors : Finish(c, Error(e))
  /\ UNCHANGED <<chainVars, serves, enabled, reply, rec, cur, pre, gens, derived, aborted, historyVars>>

Begin(c) ==
  /\ pc[c] = "idle"
  /\ Goto(c, "launcher")
  /\ seen' = [seen EXCEPT ![c] = Views(chain)]
  /\ UNCHANGED <<chainVars, serves, enabled, reply, rec, cur, pre, gens, derived, aborted, faulted, shrunk>>

(* The parts every Receive shares: it takes the reply off the wire.        *)
Take(c, p) ==
  /\ pc[c] = p
  /\ reply[c] # NoReply
  /\ reply' = [reply EXCEPT ![c] = NoReply]
  /\ UNCHANGED <<chainVars, serves, aborted, historyVars>>

(* A failed get_coin_record_by_name, or one that found nothing.            *)
NoCoin(c, whenAbsent) ==
  /\ reply[c].kind # "data"
  /\ Finish(c, IF ReportsCoinAbsent(reply[c]) THEN Error(whenAbsent) ELSE Error("internalError"))

ReceiveLauncher(c) ==
  /\ Take(c, "launcher")
  /\ UNCHANGED <<enabled, cur, pre, gens, derived>>
  /\ \/ NoCoin(c, "notFound") /\ UNCHANGED rec
     \/ /\ reply[c].kind = "data"
        /\ LET r == Only(reply[c]) IN
           IF kind # "ordinary" /\ r.spent
             THEN rec' = [rec EXCEPT ![c] = r] /\ Goto(c, "prelauncher")
             ELSE Finish(c, Error("notFound")) /\ UNCHANGED rec

(* Mutants: the bound off by one to either side; no bound, and a retry of  *)
(* the fast path.                                                          *)
WalksTooFar(c, r, g) ==
  /\ rec' = [rec EXCEPT ![c] = r]
  /\ gens' = [gens EXCEPT ![c] = g]
  /\ IF g > MaxGenerations THEN Finish(c, Error("internalError")) ELSE Goto(c, "children")

WalksTooShort(c, r, g) ==
  /\ rec' = [rec EXCEPT ![c] = r]
  /\ gens' = [gens EXCEPT ![c] = g]
  /\ IF g >= MaxGenerations - 1 THEN Finish(c, Error("internalError")) ELSE Goto(c, "children")

RetriesFastPath(c, r, g) ==
  /\ rec' = [rec EXCEPT ![c] = r]
  /\ gens' = [gens EXCEPT ![c] = g]
  /\ Goto(c, IF g = 0 /\ enabled THEN "fast" ELSE "children")

(* The loop of traceSingleton from a spent record r, g generations down.   *)
WalkFrom(c, r, g) ==
  /\ rec' = [rec EXCEPT ![c] = r]
  /\ gens' = [gens EXCEPT ![c] = g]
  /\ IF g >= MaxGenerations THEN Finish(c, Error("internalError")) ELSE Goto(c, "children")

(* Mutant: the switch not looked at.                                       *)
IgnoresSwitch(c) == Goto(c, "fast") /\ UNCHANGED <<rec, gens>>

TryFastPath(c) ==
  IF enabled THEN Goto(c, "fast") /\ UNCHANGED <<rec, gens>> ELSE WalkFrom(c, rec[c], 0)

ReceivePrelauncher(c) ==
  /\ Take(c, "prelauncher")
  /\ UNCHANGED <<enabled, cur, derived>>
  /\ \/ NoCoin(c, "notFound") /\ UNCHANGED <<pre, rec, gens>>
     \/ /\ reply[c].kind = "data"
        /\ pre' = [pre EXCEPT ![c] = Only(reply[c])]
        /\ TryFastPath(c)

(* Mutant: every failure turns the extension off.                          *)
DisablesOnAnyFailure(r) == r.kind # "data"

(* Only a status that says "no such method" turns the extension off, for   *)
(* every call of the client.                                               *)
DisablesFastPath(r) == r.kind = "unimplemented"

(* Mutant: a coin that is spent already taken for the current one.         *)
UsesSpentInfo(r) == r.kind = "data" /\ r.body # {}

(* getSingletonInfo returns null for every failure and for a spent coin.   *)
UsableInfo(r) == r.kind = "data" /\ r.body # {} /\ ~Only(r).spent

ReceiveFast(c) ==
  /\ Take(c, "fast")
  /\ enabled' = (enabled /\ ~DisablesFastPath(reply[c]))
  /\ UNCHANGED <<pre, derived>>
  /\ IF UsableInfo(reply[c])
       THEN /\ cur' = [cur EXCEPT ![c] = Only(reply[c])]
            /\ Goto(c, "fastParent")
            /\ UNCHANGED <<rec, gens>>
       ELSE WalkFrom(c, rec[c], 0) /\ UNCHANGED cur

(* Mutant: the spend of the launcher still at hand fetched instead.        *)
KeepsLauncher(c) ==
  /\ Take(c, "fastParent")
  /\ UNCHANGED <<enabled, pre, cur, derived, rec, gens>>
  /\ IF reply[c].kind = "data" THEN Goto(c, "spend") ELSE Finish(c, Error("internalError"))

(* The parent must be there and be spent, else the walk decides.           *)
ReceiveFastParent(c) ==
  /\ Take(c, "fastParent")
  /\ UNCHANGED <<enabled, pre, cur, derived>>
  /\ \/ /\ reply[c].kind = "data" /\ Only(reply[c]).spent
        /\ rec' = [rec EXCEPT ![c] = Only(reply[c])]
        /\ Goto(c, "spend")
        /\ UNCHANGED gens
     \/ /\ ReportsCoinAbsent(reply[c]) \/ (reply[c].kind = "data" /\ ~Only(reply[c]).spent)
        /\ WalkFrom(c, rec[c], 0)
     \/ /\ reply[c].kind # "data" /\ ~ReportsCoinAbsent(reply[c])
        /\ Finish(c, Error("internalError"))
        /\ UNCHANGED <<rec, gens>>

ReceiveChildren(c) ==
  /\ Take(c, "children")
  /\ UNCHANGED <<enabled, pre, derived>>
  /\ IF reply[c].kind # "data" \/ Cardinality(reply[c].body) # 1
       THEN Finish(c, Error("internalError")) /\ UNCHANGED <<rec, cur, gens>>
       ELSE LET child == Only(reply[c]) IN
            IF child.spent
              THEN WalkFrom(c, child, gens[c] + 1) /\ UNCHANGED cur
              ELSE /\ cur' = [cur EXCEPT ![c] = child]
                   /\ gens' = [gens EXCEPT ![c] = @ + 1]
                   /\ Goto(c, "spend")
                   /\ UNCHANGED rec

(* The states candidateStates offers that parseState accepts: the state    *)
(* revealed (identity), what the operation made of it when a transition    *)
(* names it, and what transitions make of the solution's other pairs,      *)
(* which may be any states at all.                                         *)
Candidates(c, child, others) ==
  ({StateOf(rec[c].id)}
     \cup {t \in {StateOf(child.id)} : <<StateOf(rec[c].id), t>> \notin Unknown}
     \cup others) \ Opaque

(* Mutants: the recomputed hash not compared with the current coin; the    *)
(* coin required to be unspent still.                                      *)
SkipsCommitment(c, child, others) == Candidates(c, child, others)

WantsUnspent(c, child, others) ==
  {s \in Candidates(c, child, others) : s = StateOf(cur[c].id) /\ ~child.spent}

(* deriveVerifiedState: the candidates that recompute to the puzzle hash   *)
(* of the coin remembered as the current one.                              *)
Verified(c, child, others) ==
  {s \in Candidates(c, child, others) : s = StateOf(cur[c].id)}

ReceiveSpend(c) ==
  /\ Take(c, "spend")
  /\ UNCHANGED <<enabled, rec, cur, pre, gens>>
  /\ \/ /\ reply[c].kind # "data"
        /\ Finish(c, Error("internalError"))
        /\ UNCHANGED derived
     \/ /\ reply[c].kind = "data" /\ kind = "foreign"
        /\ \E e \in {"unverifiableState", "internalError"} : Finish(c, Error(e))
        /\ UNCHANGED derived
     \/ /\ reply[c].kind = "data" /\ kind # "foreign"
        /\ \E others \in SUBSET State :
             LET verified == Verified(c, Only(reply[c]), others) IN
             \/ /\ verified = {}
                /\ Finish(c, Error("unverifiableState"))
                /\ UNCHANGED derived
             \/ \E s \in verified :
                  /\ derived' = [derived EXCEPT ![c] = s]
                  /\ IF kind = "julia" /\ pre[c].spent
                       THEN Goto(c, "genesis")
                       ELSE Finish(c, Document(cur[c].id, s, FALSE))

(* Mutant: the document served without the key when its fetch failed.      *)
ServesWithoutGenesis(c) ==
  /\ Take(c, "genesis")
  /\ UNCHANGED <<enabled, rec, cur, pre, gens, derived>>
  /\ Finish(c, Document(cur[c].id, derived[c], reply[c].kind = "data"))

(* genesisPublicKey: its failure fails the call, verified state or not.    *)
ReceiveGenesis(c) ==
  /\ Take(c, "genesis")
  /\ UNCHANGED <<enabled, rec, cur, pre, gens, derived>>
  /\ Finish(c, IF reply[c].kind = "data"
                 THEN Document(cur[c].id, derived[c], TRUE)
                 ELSE Error("internalError"))

Receive(c) ==
  \/ ReceiveLauncher(c) \/ ReceivePrelauncher(c) \/ ReceiveFast(c)
  \/ ReceiveFastParent(c) \/ ReceiveChildren(c) \/ ReceiveSpend(c) \/ ReceiveGenesis(c)

-----------------------------------------------------------------------------
Running(c) == pc[c] \in InFlight

(* The chain moves under the running calls; their history remembers it.    *)
Environment ==
  /\ ChainNext
  /\ seen' = [c \in Call |-> IF Running(c) THEN seen[c] \cup Views(chain') ELSE seen[c]]
  /\ shrunk' = [c \in Call |-> shrunk[c] \/ (Running(c) /\ Len(chain') < Len(chain))]
  /\ UNCHANGED <<serves, clientVars, reply, aborted, faulted>>

Init ==
  /\ ChainInit
  /\ serves \in BOOLEAN
  /\ enabled \in BOOLEAN
  /\ pc = [c \in Call |-> "idle"]
  /\ reply = [c \in Call |-> NoReply]
  /\ rec = [c \in Call |-> NoRecord]
  /\ cur = [c \in Call |-> NoRecord]
  /\ pre = [c \in Call |-> NoRecord]
  /\ gens = [c \in Call |-> 0]
  /\ derived = [c \in Call |-> Launcher]
  /\ result = [c \in Call |-> NoResult]
  /\ aborted = [c \in Call |-> FALSE]
  /\ seen = [c \in Call |-> {}]
  /\ faulted = [c \in Call |-> FALSE]
  /\ shrunk = [c \in Call |-> FALSE]

Next ==
  \/ Environment
  \/ \E c \in Call :
       \/ Begin(c) \/ Refuse(c) \/ Receive(c)
       \/ Answer(c) \/ Fail(c) \/ Timeout(c) \/ Abort(c)

(* Fairness: an RPC is answered or its timer fires, and the event loop     *)
(* runs the continuation of an answered RPC.                               *)
Fairness ==
  \A c \in Call : WF_vars(Answer(c) \/ Fail(c) \/ Timeout(c)) /\ WF_vars(Receive(c))

Spec == Init /\ [][Next]_vars
FairSpec == Spec /\ Fairness

-----------------------------------------------------------------------------
Served(c) == pc[c] = "done" /\ result[c].out = "document"

(* The state of v's tip is one parseState refuses, or an operation no      *)
(* transition names made it.                                               *)
Unexplained(v) ==
  /\ Established(v)
  /\ \/ StateOf(Tip(v)) \in Opaque
     \/ <<StateOf(Front(Tip(v))), StateOf(Tip(v))>> \in Unknown

(* Nothing failed under the call, no reorganization took coins away, the   *)
(* DID existed all along, and no replica behind the endpoint is late (its  *)
(* index may be).                                                          *)
Undisturbed(c) ==
  /\ pc[c] = "done" /\ seen[c] # {}
  /\ Lag = 0
  /\ ~faulted[c] /\ ~shrunk[c]
  /\ \A v \in seen[c] : Established(v)

(***************************************************************************)
(* The driver implements Resolution: its running calls are the calls with  *)
(* an RPC in flight, and the views a call saw are its history.             *)
(***************************************************************************)
statusBar ==
  [c \in Call |-> CASE pc[c] = "idle" -> "idle"
                    [] pc[c] = "done" -> "done"
                    [] OTHER -> "running"]

Promise == INSTANCE Resolution WITH status <- statusBar, outcome <- result

(* The shapes of the variables.                                            *)
TypeOK ==
  /\ ChainTypeOK
  /\ serves \in BOOLEAN /\ enabled \in BOOLEAN
  /\ pc \in [Call -> PCs]
  /\ reply \in [Call -> Reply]
  /\ rec \in [Call -> CoinRecord]
  /\ cur \in [Call -> CoinRecord]
  /\ pre \in [Call -> CoinRecord]
  /\ gens \in [Call -> Nat]
  /\ derived \in [Call -> State \cup {Launcher}]
  /\ result \in [Call -> Result]
  /\ aborted \in [Call -> BOOLEAN]
  /\ seen \in [Call -> SUBSET Seq(Link)]
  /\ faulted \in [Call -> BOOLEAN]
  /\ shrunk \in [Call -> BOOLEAN]

-----------------------------------------------------------------------------
(* The inductive invariant.  Its parts say what each await of a call c     *)
(* leaves true of the data the call carries across it.                     *)

(* Every view of c is a chain of this DID, the current ones among them.    *)
SeenOK(c) ==
  /\ Running(c) => Views(chain) \subseteq seen[c]
  /\ \A v \in seen[c] :
       /\ v # << >> => v[1].st = Launcher
       /\ kind \notin Singletons => Len(v) <= 1

(* An answer on the wire was computed from a view of the call's run.       *)
ReplyOK(c) ==
  \/ reply[c] = NoReply
  \/ /\ Running(c)
     /\ \/ \E k \in Faults : reply[c] = Failure(k)
        \/ \E v \in seen[c] : reply[c] \in Answers(v, c)

(* Past the launcher the DID names a singleton, and the record walked from *)
(* is its launcher or a later coin.                                        *)
WalkOK(c) ==
  /\ pc[c] \in InFlight \ {"launcher"} => kind \in Singletons
  /\ pc[c] \in {"prelauncher", "fast", "fastParent", "children"} => rec[c].id # << >>
  /\ pc[c] = "children" => gens[c] < MaxGenerations
  /\ gens[c] <= MaxGenerations

(* The coin taken for the current one was the tip of a view.               *)
CurOK(c) ==
  pc[c] \in {"fastParent", "spend", "genesis"} =>
    \E v \in seen[c] : Established(v) /\ cur[c].id = Tip(v)

(* While the genesis key is fetched the state is already verified.         *)
DerivedOK(c) ==
  pc[c] = "genesis" =>
    /\ kind = "julia"
    /\ derived[c] = StateOf(cur[c].id)
    /\ derived[c] \notin Opaque

(* What is returned is justified by a view, unless the request was refused *)
(* before there was one.                                                   *)
ResultOK(c) ==
  /\ pc[c] # "done" => result[c] = NoResult
  /\ pc[c] = "idle" => seen[c] = {}
  /\ pc[c] = "done" =>
       \/ seen[c] = {} /\ \E e \in RequestErrors : result[c] = Error(e)
       \/ result[c] \in Promise!Outcomes(c)

CallOK(c) ==
  SeenOK(c) /\ ReplyOK(c) /\ WalkOK(c) /\ CurOK(c) /\ DerivedOK(c) /\ ResultOK(c)

Inv ==
  /\ TypeOK
  /\ kind \notin Singletons => Len(chain) = 1
  /\ \A c \in Call : CallOK(c)

-----------------------------------------------------------------------------
(* The coin a document describes (versionId) was the unspent coin of the   *)
(* DID at some moment between the start of the call and its end, whatever  *)
(* spends and reorganizations its RPCs were interleaved with.              *)
CurrentDuringCall ==
  \A c \in Call : Served(c) => \E v \in seen[c] : result[c].coin = Tip(v)

(* "An outage is never an answer": notFound is returned only when the DID  *)
(* did not exist on chain at some moment of the call.                      *)
NotFoundIsTrue ==
  \A c \in Call : result[c].out = "notFound" =>
    kind \in {"idle", "ordinary"} \/ \E v \in seen[c] : ~Established(v)

(* A call under which no RPC failed, and whose DID merely went on being    *)
(* spent, is answered by a document with the genesis key it can prove, and *)
(* by the same document on the fast path and on the walk.  Only a DID past *)
(* the generation bound, the known puzzles or the known operations is      *)
(* refused.                                                                *)
UndisturbedCallsAreServed ==
  \A c \in Call : Undisturbed(c) /\ kind \in {"julia", "legacy"} =>
    \/ Served(c) /\ result[c].genesis = (kind = "julia")
    \/ /\ result[c].out = "unverifiableState"
       /\ \E v \in seen[c] : Unexplained(v)
    \/ /\ result[c].out = "internalError"
       /\ \E v \in seen[c] : Len(v) - 1 > MaxGenerations

(* unverifiableState speaks of the puzzle version: outside a               *)
(* reorganization it means that the DID really was in a state, or made a   *)
(* spend, this resolver does not understand, never that an RPC failed.     *)
(* Another singleton's launcher is one it does not understand either.      *)
UnverifiableIsTrue ==
  \A c \in Call : result[c].out = "unverifiableState" =>
    \/ kind = "foreign"
    \/ shrunk[c]
    \/ \E v \in seen[c] : Unexplained(v)

(* The coin, its parent and the parent's spend are asked for one after the *)
(* other, on a chain that moves.  Outside a reorganization the spend a     *)
(* document is built from, and whose keys it lists, is nevertheless the    *)
(* one that created the very coin the document describes.                  *)
DerivesFromItsOwnSpend ==
  [][\A c \in Call :
       /\ pc[c] = "spend" /\ ~shrunk[c]
       /\ pc'[c] = "genesis" \/ Served(c)'
       => Only(reply[c]).id = cur[c].id]_vars

(* A verification method never goes missing because an RPC failed: however *)
(* its requests fared and whatever replica answered each, a document of a  *)
(* did:julia DID leaves the genesis key out only if the DID did not exist  *)
(* yet in some view of the call.                                           *)
GenesisIsKept ==
  \A c \in Call : Served(c) /\ kind = "julia" /\ ~result[c].genesis => << >> \in seen[c]

(* The walk stops at the bound however the chain grows ahead of it.        *)
WalkIsBounded == \A c \in Call : gens[c] <= MaxGenerations

(* A call of the shared client turns the fast path off for the others only *)
(* when the endpoint does not implement it: no timeout, outage or abort    *)
(* downgrades a healthy client.                                            *)
OnlyUnimplementedDisables == [][enabled /\ ~enabled' => ~serves]_vars

(* Once off, no call asks again, and the asks already in flight run out.   *)
DisabledStaysOff ==
  [][~enabled =>
       /\ ~enabled'
       /\ \A c \in Call : pc'[c] = "fast" => pc[c] = "fast"]_vars

(* Whatever the RPCs answer and however they interleave, a call returns    *)
(* only an outcome that one moment of its run justifies.                   *)
ImplementsResolution == Promise!ResolutionSpec

(* Every call that began returns.                                          *)
EveryCallReturns == \A c \in Call : (pc[c] = "launcher") ~> (pc[c] = "done")

=============================================================================
