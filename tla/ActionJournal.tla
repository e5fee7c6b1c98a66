--------------------------- MODULE ActionJournal ---------------------------
(***************************************************************************)
(* The durable Action journal of one session (packages/actions), the run   *)
(* authority it is bound to, and the game host that executes what the      *)
(* journal dispatches.                                                     *)
(*                                                                         *)
(* Every journal operation runs under one mutex (or one SQLite write       *)
(* transaction), so it is one action here.  What interleaves is everything *)
(* around it: workers of several actor streams polling for deliveries, the *)
(* game committing or refusing an attempt, leases lapsing, receipts and    *)
(* reconciliation answers that are late, duplicated or lost, and runs      *)
(* whose authority is closed while their Actions are in flight.            *)
(*                                                                         *)
(* Abstractions.  An intent is its operation ID; stream, run, replay       *)
(* policy, conflict keys and goal binding are functions of it (the ID is a *)
(* digest of the coordinate, the content is fingerprinted against it).     *)
(* Time is kept only as the set of claim tokens whose expiresAt has        *)
(* passed, so leases may lapse in any order.  Calls that throw, and reads, *)
(* change nothing and are not actions.                                     *)
(***************************************************************************)
EXTENDS Integers, FiniteSets

CONSTANTS
  Operations,      \* operation IDs of the session
  Streams,         \* actor streams
  Runs,            \* run IDs
  Keys,            \* conflict keys
  StreamOf,        \* [Operations -> Streams]
  RunOf,           \* [Operations -> Runs]
  PolicyOf,        \* [Operations -> ReplayPolicies]
  ConflictKeysOf,  \* [Operations -> SUBSET Keys]
  GoalBound,       \* operations submitted with a goalProjection binding
  MaxPendingGoals, \* goalProjection.maxPendingPerStream
  CandidateLimit,  \* candidateLimit of every delivery request
  MaxTokens,       \* bound on the number of claims ever granted
  MaxAdmissions,   \* bound on the number of records ever admitted
  NoOwner, AnyRun

ReplayPolicies == {"never", "safe", "recoverable"}

ASSUME JournalAssumption ==
  /\ StreamOf \in [Operations -> Streams]
  /\ RunOf \in [Operations -> Runs]
  /\ PolicyOf \in [Operations -> ReplayPolicies]
  /\ ConflictKeysOf \in [Operations -> SUBSET Keys]
  /\ GoalBound \subseteq Operations
  /\ CandidateLimit \in Nat \ {0}
  /\ MaxPendingGoals \in Nat \ {0}
  /\ MaxTokens \in Nat /\ MaxAdmissions \in Nat
  /\ NoOwner \notin Operations
  /\ AnyRun \notin Runs

VARIABLES
  records,      \* [Operations -> Record], "absent" when the map has no entry
  conflicts,    \* conflict key -> owning operation
  admissions,   \* nextSequence
  tokens,       \* claim tokens granted so far
  closed,       \* runs whose authority is closed (event store)
  lapsed,       \* tokens whose claim has expired by the coordinator's clock
  issued,       \* dispatch deliveries handed to workers
  recovering,   \* tokens handed to workers in reconcile deliveries
  effects,      \* tokens under which the game committed a world change
  fenced        \* tokens the game refused, and will never commit

journalVars == <<records, conflicts, admissions, tokens>>
workerVars == <<issued, recovering>>
gameVars == <<effects, fenced>>
vars == <<records, conflicts, admissions, tokens, closed, lapsed, issued,
          recovering, effects, fenced>>

-----------------------------------------------------------------------------
(* Records *)

Statuses == {"absent", "pending", "claimed", "uncertain", "succeeded", "failed"}
Outcomes == {"succeeded", "rejected", "unknown"}
Resolutions == {"applied", "not-applied", "unknown"}

Claim == [token : Nat, attempt : Nat]
Receipt == [token : Nat, attempt : Nat, outcome : Outcomes \cup {"none"}]
Record == [status : Statuses, attempt : Nat, sequence : Nat, claim : Claim,
           receipt : Receipt, goal : {"none", "advanced", "source_failed"}]

NoClaim == [token |-> 0, attempt |-> 0]
NoReceipt == [token |-> 0, attempt |-> 0, outcome |-> "none"]
Unclaimed(status, sequence) ==
  [status |-> status, attempt |-> 0, sequence |-> sequence,
   claim |-> NoClaim, receipt |-> NoReceipt, goal |-> "none"]
NoRecord == Unclaimed("absent", 0)

Delivery == [op : Operations, token : Nat, attempt : Nat, sequence : Nat]

Held(r) == r.status \in {"claimed", "uncertain"}
Terminal(r) == r.status \in {"succeeded", "failed"}
Open(op) == RunOf[op] \notin closed

(* An earlier attempt's rejection says nothing about a later attempt. *)
hasKnownUnappliedActionOutcome(r) ==
  IF r.attempt = 0 THEN r.receipt = NoReceipt
  ELSE r.receipt.outcome = "rejected" /\ r.receipt.attempt = r.attempt

isActionSourceFailed(r) == r.status = "failed" /\ hasKnownUnappliedActionOutcome(r)

-----------------------------------------------------------------------------
(* Conflict barriers: session-wide, one owner per key *)

(* Mutant: the barrier is not consulted.                                   *)
canAcquireUnchecked(c, op) == op \in Operations

canAcquire(c, op) == \A k \in ConflictKeysOf[op] : c[k] \in {NoOwner, op}

acquire(c, op) == [k \in Keys |-> IF k \in ConflictKeysOf[op] THEN op ELSE c[k]]

release(c, ops) ==
  [k \in Keys |-> IF \E op \in ops : c[k] = op /\ k \in ConflictKeysOf[op]
                  THEN NoOwner ELSE c[k]]

-----------------------------------------------------------------------------
(* Record transitions *)

claimActionRecord(r, token) ==
  [r EXCEPT !.status = "claimed",
            !.attempt = r.attempt + 1,
            !.claim = [token |-> token, attempt |-> r.attempt + 1]]

expireActionRecord(r) == [r EXCEPT !.status = "uncertain"]

retirePendingActionRecord(r) == [r EXCEPT !.status = "failed"]

prepareReceipt(claim, outcome) ==
  [token |-> claim.token, attempt |-> claim.attempt, outcome |-> outcome]

Answers(receipt, claim) ==
  receipt.token = claim.token /\ receipt.attempt = claim.attempt

(* Settles the claim, or keeps it when the outcome is still unknown. *)
Resolve(r, status, receipt) ==
  [r EXCEPT !.status = status,
            !.receipt = receipt,
            !.claim = IF status = "uncertain" THEN r.claim ELSE NoClaim]

(* Mutant: the receipt's outcome is stored as the status.                  *)
receiptStatusRaw(outcome) == IF outcome = "unknown" THEN "uncertain" ELSE outcome

receiptStatus(outcome) ==
  CASE outcome = "succeeded" -> "succeeded"
    [] outcome = "rejected" -> "failed"
    [] OTHER -> "uncertain"

(* A receipt that repeats the stored one is a replay and changes nothing;  *)
(* only the exact live claim, not yet answered, is settled by a receipt.   *)
receiptActionRecord(r, claim, outcome) ==
  Resolve(r, receiptStatus(outcome), prepareReceipt(claim, outcome))

CanRecordReceipt(r, claim) ==
  Held(r) /\ r.claim = claim /\ ~Answers(r.receipt, claim)

outcomeOf(resolution) ==
  CASE resolution = "applied" -> "succeeded"
    [] resolution = "not-applied" -> "rejected"
    [] OTHER -> "unknown"

reconcileStatus(op, resolution) ==
  CASE resolution = "unknown" -> "uncertain"
    [] resolution = "applied" -> "succeeded"
    [] OTHER -> IF PolicyOf[op] # "never" THEN "pending" ELSE "failed"

IsReplay(r, receipt) == r.receipt = receipt /\ r.claim \in {NoClaim, [token |-> receipt.token, attempt |-> receipt.attempt]}

(* Mutant: the claim token and attempt are not compared.                   *)
CanReconcileAnyClaim(r, claim, resolution) == Held(r)

CanReconcile(r, claim, resolution) ==
  \/ IsReplay(r, prepareReceipt(claim, outcomeOf(resolution)))
  \/ /\ Held(r) /\ r.claim = claim
     /\ Answers(r.receipt, claim) =>
          resolution # "unknown" /\ r.receipt.outcome = "unknown"

reconcileActionRecord(op, claim, resolution) ==
  LET r == records[op]
      receipt == prepareReceipt(claim, outcomeOf(resolution))
  IN  IF IsReplay(r, receipt) THEN r
      ELSE Resolve(r, reconcileStatus(op, resolution), receipt)

-----------------------------------------------------------------------------
(* Scans in admission order (Map insertion order, the sequence column) *)

Earlier(S, op) == {o \in S : records[o].sequence < records[op].sequence}
Oldest(S) == {op \in S : Earlier(S, op) = {}}
FirstOf(S, n) == {op \in S : Cardinality(Earlier(S, op)) < n}

InScope(op, stream, run) == StreamOf[op] = stream /\ run \in {AnyRun, RunOf[op]}

-----------------------------------------------------------------------------
(* What the game tells the journal *)

ClaimOf(d) == [token |-> d.token, attempt |-> d.attempt]

(* What the game knows about an attempt.  Only a safe operation is         *)
(* deduplicated by its ID; for the others the journal alone prevents a     *)
(* second change.                                                          *)
Applied(d) ==
  IF PolicyOf[d.op] = "safe"
  THEN \E e \in issued : e.op = d.op /\ e.token \in effects
  ELSE d.token \in effects

(* An honest answer about the attempt that delivery d granted: success     *)
(* only of a committed change, refusal only of an attempt that did not and *)
(* will never commit, unknown at any time.  What is honest once stays      *)
(* honest, so an answer that is delayed or sent twice is one that is given *)
(* later or again, and a lost one is never given.                          *)
Honest(d, outcome) ==
  /\ outcome = "succeeded" => Applied(d)
  /\ outcome = "rejected" => d.token \in fenced

-----------------------------------------------------------------------------
(* Journal operations *)

PendingGoals(stream) ==
  {o \in GoalBound : /\ StreamOf[o] = stream
                     /\ records[o].status # "absent"
                     /\ records[o].goal = "none"}

(* Mutant: an Action that failed is admitted again under its ID.           *)
ensureReopensFailed(op) ==
  /\ records[op].status \in {"absent", "failed"}
  /\ Open(op)
  /\ admissions < MaxAdmissions
  /\ admissions' = admissions + 1
  /\ records' = [records EXCEPT ![op] = Unclaimed("pending", admissions + 1)]
  /\ UNCHANGED <<conflicts, tokens, closed, lapsed, workerVars, gameVars>>

ensure(op) ==
  /\ records[op].status = "absent"
  /\ op \in GoalBound => Cardinality(PendingGoals(StreamOf[op])) < MaxPendingGoals
  /\ Open(op)
  /\ admissions < MaxAdmissions
  /\ admissions' = admissions + 1
  /\ records' = [records EXCEPT ![op] = Unclaimed("pending", admissions + 1)]
  /\ UNCHANGED <<conflicts, tokens, closed, lapsed, workerVars, gameVars>>

recoverDelivery(stream) ==
  \E op \in Oldest({o \in Operations : StreamOf[o] = stream /\ Held(records[o])}) :
    /\ recovering' = recovering \cup {records[op].claim.token}
    /\ UNCHANGED <<journalVars, closed, lapsed, issued, gameVars>>

(* The closed pending records that one request retires. *)
retireClosedPending(stream) ==
  FirstOf({op \in Operations : /\ StreamOf[op] = stream
                               /\ records[op].status = "pending"
                               /\ ~Open(op)}, CandidateLimit)

(* The expired claims that one request inspects: the CandidateLimit ones   *)
(* that lapsed first, which without a clock is any such subset.            *)
dueClaims(stream, run) ==
  LET expired == {op \in Operations : /\ InScope(op, stream, run)
                                      /\ records[op].status = "claimed"
                                      /\ records[op].claim.token \in lapsed}
  IN  {due \in SUBSET expired :
         Cardinality(due) = IF Cardinality(expired) < CandidateLimit
                            THEN Cardinality(expired) ELSE CandidateLimit}

(* Mutant: every lapsed claim of an open run is replayed.                  *)
ReplayableAnyPolicy(due) == {op \in due : Open(op)}

Replayable(due) == {op \in due : PolicyOf[op] = "safe" /\ Open(op)}

(* The journal after closed pending Actions were retired and due claims    *)
(* that may not be replayed were made uncertain.                           *)
afterMaintenance(retired, expired) ==
  [op \in Operations |->
     IF op \in retired THEN retirePendingActionRecord(records[op])
     ELSE IF op \in expired THEN expireActionRecord(records[op])
     ELSE records[op]]

(* Mutant: an uncertain Action does not count as unsettled.                *)
oldestUnsettledClaimed(recs, stream, run, except) ==
  Oldest({op \in Operations : /\ InScope(op, stream, run)
                              /\ op \notin except
                              /\ recs[op].status = "claimed"})

oldestUnsettled(recs, stream, run, except) ==
  Oldest({op \in Operations : /\ InScope(op, stream, run)
                              /\ op \notin except
                              /\ Held(recs[op])})

claimCandidates(recs, c, stream, run, replayable) ==
  LET scanned == FirstOf({op \in Operations : /\ InScope(op, stream, run)
                                              /\ \/ recs[op].status = "pending"
                                                 \/ op \in replayable},
                         CandidateLimit)
  IN  Oldest({op \in scanned : Open(op) /\ canAcquire(c, op)})

DeliverReconcile(recs, c, op) ==
  /\ records' = recs
  /\ conflicts' = c
  /\ recovering' = recovering \cup {recs[op].claim.token}
  /\ UNCHANGED <<tokens, issued>>

(* A replay releases its own keys first; either way the keys end up owned. *)
claimPendingRecord(recs, c, op) ==
  /\ tokens < MaxTokens
  /\ tokens' = tokens + 1
  /\ records' = [recs EXCEPT ![op] = claimActionRecord(recs[op], tokens + 1)]
  /\ conflicts' = acquire(release(c, {op}), op)
  /\ issued' = issued \cup {[op |-> op, token |-> tokens + 1,
                             attempt |-> recs[op].attempt + 1,
                             sequence |-> recs[op].sequence]}
  /\ UNCHANGED recovering

(* Unsettled work is reconciled before anything new is claimed.            *)
selectDelivery(recs, c, stream, run, replayable) ==
  LET unsettled == oldestUnsettled(recs, stream, run, replayable)
      claimable == claimCandidates(recs, c, stream, run, replayable)
      waitingReplay == oldestUnsettled(recs, stream, run, {})
  IN  \/ \E op \in unsettled : DeliverReconcile(recs, c, op)
      \/ /\ unsettled = {}
         /\ \E op \in claimable : claimPendingRecord(recs, c, op)
      \/ /\ unsettled = {} /\ claimable = {}
         /\ \E op \in waitingReplay : DeliverReconcile(recs, c, op)
      \/ /\ unsettled = {} /\ claimable = {} /\ waitingReplay = {}
         /\ records' = recs /\ conflicts' = c
         /\ UNCHANGED <<tokens, issued, recovering>>

nextDelivery(stream, run) ==
  /\ \E due \in dueClaims(stream, run) :
       LET retired == retireClosedPending(stream)
           replayable == Replayable(due)
       IN  selectDelivery(afterMaintenance(retired, due \ replayable),
                          release(conflicts, retired), stream, run, replayable)
  /\ UNCHANGED <<admissions, closed, lapsed, gameVars>>

(* A receipt for the claim that delivery d granted.                       *)
recordReceipt(d, outcome) ==
  LET r == receiptActionRecord(records[d.op], ClaimOf(d), outcome)
  IN  /\ Honest(d, outcome)
      /\ CanRecordReceipt(records[d.op], ClaimOf(d))
      /\ records' = [records EXCEPT ![d.op] = r]
      /\ conflicts' = IF Held(r) THEN conflicts ELSE release(conflicts, {d.op})
      /\ UNCHANGED <<admissions, tokens, closed, lapsed, workerVars, gameVars>>

(* The answer to a reconcile delivery.  A not-applied answer for a closed  *)
(* run, even a replayed one, retires the Action instead of requeueing it.  *)
reconcile(d, resolution) ==
  LET r == reconcileActionRecord(d.op, ClaimOf(d), resolution)
      closedRetry == r.status = "pending" /\ ~Open(d.op)
      settled == ~IsReplay(records[d.op], r.receipt) /\ ~Held(r)
  IN  /\ d.token \in recovering
      /\ Honest(d, outcomeOf(resolution))
      /\ CanReconcile(records[d.op], ClaimOf(d), resolution)
      /\ records' = [records EXCEPT ![d.op] =
                       IF closedRetry THEN retirePendingActionRecord(r) ELSE r]
      /\ conflicts' = IF settled THEN release(conflicts, {d.op}) ELSE conflicts
      /\ UNCHANGED <<admissions, tokens, closed, lapsed, workerVars, gameVars>>

settleGoalProjection(op, outcome) ==
  LET r == records[op]
  IN  /\ op \in GoalBound /\ r.goal = "none"
      /\ \/ outcome = "advanced" /\ r.status = "succeeded" /\ r.receipt.outcome = "succeeded"
         \/ outcome = "source_failed" /\ isActionSourceFailed(r)
      /\ records' = [records EXCEPT ![op].goal = outcome]
      /\ UNCHANGED <<conflicts, admissions, tokens, closed, lapsed, workerVars,
                     gameVars>>

(* The cutoff, the batch limit and the retained IDs select any batch of    *)
(* purgeable records.                                                      *)
Purgeable(op) ==
  /\ Terminal(records[op])
  /\ op \in GoalBound => records[op].goal # "none"

purgeTerminal(stream, batch) ==
  /\ batch # {}
  /\ \A op \in batch : StreamOf[op] = stream /\ Purgeable(op)
  /\ records' = [op \in Operations |-> IF op \in batch THEN NoRecord ELSE records[op]]
  /\ conflicts' = release(conflicts, batch)
  /\ UNCHANGED <<admissions, tokens, closed, lapsed, workerVars, gameVars>>

-----------------------------------------------------------------------------
(* Surroundings: run authority, clock, game *)

closeAuthority(run) ==
  /\ run \notin closed
  /\ closed' = closed \cup {run}
  /\ UNCHANGED <<journalVars, lapsed, workerVars, gameVars>>

Lapse(d) ==
  /\ d.token \notin lapsed
  /\ lapsed' = lapsed \cup {d.token}
  /\ UNCHANGED <<journalVars, closed, workerVars, gameVars>>

(* The engines' Action pumps stop executing at the claim's deadline.  The  *)
(* model relies on it for safe operations only: an attempt of any other    *)
(* may commit even after its claim lapsed, unless the game refused it.     *)
GameCommit(d) ==
  /\ ~Applied(d)
  /\ d.token \notin fenced
  /\ PolicyOf[d.op] = "safe" => d.token \notin lapsed
  /\ effects' = effects \cup {d.token}
  /\ UNCHANGED <<journalVars, closed, lapsed, workerVars, fenced>>

(* The game refuses an attempt, or finds on inspection that it was not     *)
(* applied; the refusal is final.                                          *)
GameRefuse(d) ==
  /\ ~Applied(d)
  /\ d.token \notin fenced
  /\ fenced' = fenced \cup {d.token}
  /\ UNCHANGED <<journalVars, closed, lapsed, workerVars, effects>>

-----------------------------------------------------------------------------
Init ==
  /\ records = [op \in Operations |-> NoRecord]
  /\ conflicts = [k \in Keys |-> NoOwner]
  /\ admissions = 0
  /\ tokens = 0
  /\ closed = {}
  /\ lapsed = {}
  /\ issued = {}
  /\ recovering = {}
  /\ effects = {}
  /\ fenced = {}

Next ==
  \/ \E op \in Operations : ensure(op)
  \/ \E stream \in Streams : recoverDelivery(stream)
  \/ \E stream \in Streams, run \in Runs \cup {AnyRun} : nextDelivery(stream, run)
  \/ \E d \in issued, outcome \in Outcomes : recordReceipt(d, outcome)
  \/ \E d \in issued, resolution \in Resolutions : reconcile(d, resolution)
  \/ \E op \in Operations, outcome \in {"advanced", "source_failed"} :
       settleGoalProjection(op, outcome)
  \/ \E stream \in Streams, batch \in SUBSET Operations : purgeTerminal(stream, batch)
  \/ \E run \in Runs : closeAuthority(run)
  \/ \E d \in issued : Lapse(d)
  \/ \E d \in issued : GameCommit(d)
  \/ \E d \in issued : GameRefuse(d)

Spec == Init /\ [][Next]_vars

(* Workers keep polling, the game does not leave an inspected attempt      *)
(* undecided for ever, and its definite answer reaches the journal.        *)
Fairness ==
  /\ \A stream \in Streams : WF_vars(nextDelivery(stream, AnyRun))
  /\ WF_vars(\E d \in issued : d.token \in recovering \ effects /\ GameRefuse(d))
  /\ WF_vars(\E d \in issued, resolution \in {"applied", "not-applied"} :
               reconcile(d, resolution))

FairSpec == Spec /\ Fairness

-----------------------------------------------------------------------------
(* Properties *)

TypeOK ==
  /\ records \in [Operations -> Record]
  /\ conflicts \in [Keys -> Operations \cup {NoOwner}]
  /\ admissions \in Nat
  /\ tokens \in Nat
  /\ closed \subseteq Runs
  /\ lapsed \subseteq Nat
  /\ issued \subseteq Delivery
  /\ recovering \subseteq Nat
  /\ effects \subseteq Nat
  /\ fenced \subseteq Nat

(* The conflict table names exactly the claimed and uncertain Actions: no  *)
(* key leaks when an Action settles, is retired or purged, and none is     *)
(* dropped while an effect may still be in flight (expiry, closed runs,    *)
(* unknown receipts).                                                      *)
ConflictOwnership ==
  \A k \in Keys, op \in Operations :
    conflicts[k] = op <=> Held(records[op]) /\ k \in ConflictKeysOf[op]

(* No two Actions of the session, whatever their actors, are in flight on  *)
(* the same conflict key.                                                  *)
ConflictExclusion ==
  \A op1, op2 \in Operations :
    op1 # op2 /\ Held(records[op1]) /\ Held(records[op2])
      => ConflictKeysOf[op1] \cap ConflictKeysOf[op2] = {}

(* What assertActionRecord demands of every record it loads holds of every *)
(* record any sequence of calls writes: a claim exactly while the Action   *)
(* is in flight, for its current attempt, and a pending or failed Action   *)
(* known to be unapplied at its current attempt.                           *)
RecordsLoadable ==
  \A op \in Operations :
    LET r == records[op]
    IN  /\ Held(r) <=> r.claim # NoClaim
        /\ Held(r) => r.claim.attempt = r.attempt /\ r.attempt > 0
        /\ r.status \in {"pending", "failed"} => hasKnownUnappliedActionOutcome(r)
        /\ r.goal = "advanced" => r.status = "succeeded"
        /\ r.goal = "source_failed" => isActionSourceFailed(r)

Attempts(op) == {d \in issued : d.op = op /\ d.sequence = records[op].sequence}

(* However receipts are lost or delayed, claims lapse and Actions are      *)
(* retried, one admitted Action changes the world at most once.            *)
AtMostOneEffect ==
  \A d1, d2 \in issued :
    /\ d1.op = d2.op /\ d1.sequence = d2.sequence
    /\ d1.token \in effects /\ d2.token \in effects
    => d1 = d2

(* The journal never reports what did not happen: a succeeded Action was   *)
(* committed by the game, and no attempt of an Action that is pending or   *)
(* failed was, or will be.                                                 *)
OutcomeTruthful ==
  \A op \in Operations :
    /\ records[op].status = "succeeded" =>
         \E d \in issued : /\ d.op = op /\ d.token \in effects
                           /\ PolicyOf[op] # "safe" => d.token = records[op].receipt.token
    /\ records[op].status \in {"pending", "failed"} =>
         \A d \in Attempts(op) : d.token \notin effects /\ d.token \in fenced \cup lapsed

(* A run's Actions are dispatched one at a time: two of them in flight     *)
(* means that one is a lapsed safe claim waiting for its replay.           *)
SerialDispatch ==
  \A op1, op2 \in Operations :
    /\ op1 # op2 /\ StreamOf[op1] = StreamOf[op2] /\ RunOf[op1] = RunOf[op2]
    /\ Held(records[op1]) /\ Held(records[op2])
    => \E op \in {op1, op2} : PolicyOf[op] = "safe" /\ records[op].claim.token \in lapsed

(* A settled Action keeps its status and its receipt until it is purged:   *)
(* late, duplicated or stale receipts and answers never reopen it.         *)
SettledIsFinal ==
  [][\A op \in Operations :
       Terminal(records[op]) =>
         \/ records'[op] = NoRecord
         \/ /\ records'[op].status = records[op].status
            /\ records'[op].receipt = records[op].receipt
            /\ records'[op].attempt = records[op].attempt]_vars

(* Once a run's authority is closed none of its Actions is claimed again,  *)
(* retried, or admitted.                                                   *)
ClosedRunNeverRetried ==
  [][\A op \in Operations :
       RunOf[op] \in closed /\ records'[op] # records[op] =>
         /\ records'[op].status \notin {"pending", "claimed"}
         /\ records'[op].attempt \in {0, records[op].attempt}]_vars

(* No claim blocks its actor and its conflict keys for ever: every claim   *)
(* is settled or replaced (a safe replay needs a claim token, of which the *)
(* model has MaxTokens).                                                   *)
ClaimsResolve ==
  \A op \in Operations : \A t \in 1 .. MaxTokens :
    records[op].claim.token = t
      ~> \/ records[op].claim.token # t
         \/ PolicyOf[op] = "safe" /\ tokens = MaxTokens
=============================================================================
