--------------------------- MODULE DelegationStore ---------------------------
(***************************************************************************)
(* Delegated tasks of one timeline generation: InMemoryDelegationStore     *)
(* behind DelegationService.  A task is claimed under a lease, bound to    *)
(* the run of the child agent, and settled, given back or cancelled.       *)
(*                                                                         *)
(* Each claim returns a fresh token and increments the attempt, so a token *)
(* is known by the attempt it was issued for: a caller may hold the token  *)
(* of any attempt so far.  Operational times are the caller's, any of      *)
(* Times.  A request the store refuses, or answers from what it holds,     *)
(* changes nothing and is not a step, but for one: settle, abandon and     *)
(* cancel delete the lease before they count the revision, so at the       *)
(* largest revision they throw with the lease gone and the record as it    *)
(* was.                                                                    *)
(***************************************************************************)
EXTENDS Integers, FiniteSets, Functions

CONSTANTS
  Ids, Owners, ChildRuns, Results, Codes,   \* delegation ids, workers, child runs, results and failure codes
  None,              \* an absent run, result, code or time
  MaxTime,
  MaxKey,            \* bound on records ever created
  MaxCounter,        \* largest revision of maxCounterDigits digits
  MaxPending,        \* maxPendingPerGeneration
  MaxBatch           \* maxPurgeBatchSize

ASSUME DelegationAssumption == MaxTime \in Nat /\ MaxCounter \in Nat \ {0}

VARIABLES
  records,
  leases,            \* record key -> [attempt, owner, expiresAt]
  settledTokens,     \* record key -> attempt whose token settled it
  nextKey

delegationVars == <<records, leases, settledTokens, nextKey>>

Times == 0 .. MaxTime
Statuses == {"pending", "running", "completed", "failed", "cancelled"}

-----------------------------------------------------------------------------
terminal(r) == r.status \in {"completed", "failed", "cancelled"}
increment(r) == r.revision < MaxCounter
Without(f, k) == Restrict(f, DOMAIN f \ {k})
With(f, k, v) == [x \in DOMAIN f \cup {k} |-> IF x = k THEN v ELSE f[x]]
Put(r, new) == records' = (records \ {r}) \cup {new}

\* Every change but a claim: the fields, and one more revision.
update(r, now) == [r EXCEPT !.revision = @ + 1, !.updatedAt = now]

DelegationInit == records = {} /\ leases = << >> /\ settledTokens = << >> /\ nextKey = 1

create(id, at) ==
  /\ ~ \E r \in records : r.id = id
  /\ Cardinality({r \in records : ~terminal(r)}) < MaxPending
  /\ nextKey <= MaxKey
  /\ records' = records \cup
       {[key |-> nextKey, id |-> id, status |-> "pending", revision |-> 1, attempt |-> 0, run |-> None,
         result |-> None, code |-> None, createdAt |-> at, startedAt |-> None, updatedAt |-> at]}
  /\ nextKey' = nextKey + 1
  /\ UNCHANGED <<leases, settledTokens>>

\* A lease that has lapsed may be taken over; the record says running still.
claimable(r, now) ==
  /\ ~terminal(r)
  /\ now >= r.updatedAt
  /\ r.key \in DOMAIN leases => leases[r.key].expiresAt <= now

claim(r, owner, now, expires) ==
  /\ expires > now
  /\ claimable(r, now)
  /\ increment(r)
  /\ Put(r, [r EXCEPT !.status = "running", !.revision = @ + 1, !.attempt = @ + 1, !.updatedAt = now,
                      !.startedAt = IF @ = None THEN now ELSE @])
  /\ leases' = With(leases, r.key, [attempt |-> r.attempt + 1, owner |-> owner, expiresAt |-> expires])
  /\ UNCHANGED <<settledTokens, nextKey>>

activeLeaseUntimed(r, token, now) ==
  /\ r.status = "running"
  /\ r.key \in DOMAIN leases
  /\ now >= r.updatedAt
  /\ leases[r.key].expiresAt > now

\* assertLease answers exactly when this holds.
activeLease(r, token, now) ==
  /\ r.status = "running"
  /\ r.key \in DOMAIN leases /\ leases[r.key].attempt = token
  /\ now >= r.updatedAt
  /\ leases[r.key].expiresAt > now

renew(r, token, now, expires) ==
  /\ activeLease(r, token, now)
  /\ expires > leases[r.key].expiresAt /\ expires > now
  /\ increment(r)
  /\ Put(r, update(r, now))
  /\ leases' = [leases EXCEPT ![r.key].expiresAt = expires]
  /\ UNCHANGED <<settledTokens, nextKey>>

bindRun(r, token, run, now) ==
  /\ activeLease(r, token, now)
  /\ r.run = None
  /\ increment(r)
  /\ Put(r, [update(r, now) EXCEPT !.run = run])
  /\ UNCHANGED <<leases, settledTokens, nextKey>>

\* bindRun with the run already bound.
bindRunAgain(r, token, run, now) == activeLease(r, token, now) /\ r.run = run /\ UNCHANGED delegationVars

\* The lease goes first; the record only if the revision can be counted.
releaseAndPut(r, new) ==
  /\ leases' = Without(leases, r.key)
  /\ IF increment(r) THEN Put(r, new) ELSE UNCHANGED records
  /\ UNCHANGED nextKey

settleTask(r, token, new) ==
  /\ releaseAndPut(r, new)
  /\ settledTokens' = IF increment(r) THEN With(settledTokens, r.key, token) ELSE settledTokens

complete(r, token, result, now) ==
  /\ activeLease(r, token, now)
  /\ settleTask(r, token, [update(r, now) EXCEPT !.status = "completed", !.result = result])

fail(r, token, code, now) ==
  /\ activeLease(r, token, now)
  /\ settleTask(r, token, [update(r, now) EXCEPT !.status = "failed", !.code = code])

abandon(r, token, now) ==
  /\ activeLease(r, token, now)
  /\ releaseAndPut(r, [update(r, now) EXCEPT !.status = "pending"])
  /\ UNCHANGED settledTokens

\* The game cancels by revision, whoever holds the lease.
cancel(r, expectedRevision, now) ==
  /\ r.revision = expectedRevision
  /\ ~terminal(r) /\ now >= r.updatedAt
  /\ releaseAndPut(r, [update(r, now) EXCEPT !.status = "cancelled"])
  /\ UNCHANGED settledTokens

oldest(r, q) == r.updatedAt < q.updatedAt \/ (r.updatedAt = q.updatedAt /\ r.key < q.key)

purgeTerminal(before, limit) ==
  LET done == {r \in records : terminal(r) /\ r.updatedAt < before}
      selected == {r \in done : Cardinality({q \in done : oldest(q, r)}) < limit}
      keys == {r.key : r \in selected}
  IN  /\ selected # {}
      /\ records' = records \ selected
      /\ leases' = Restrict(leases, DOMAIN leases \ keys)
      /\ settledTokens' = Restrict(settledTokens, DOMAIN settledTokens \ keys)
      /\ UNCHANGED nextKey

DelegationNext ==
  \/ \E id \in Ids, at \in Times : create(id, at)
  \/ \E r \in records, o \in Owners, now, exp \in Times : claim(r, o, now, exp)
  \/ \E r \in records, now \in Times : \E token \in 1 .. r.attempt :
       \/ \E exp \in Times : renew(r, token, now, exp)
       \/ \E run \in ChildRuns : bindRun(r, token, run, now)
       \/ \E x \in Results : complete(r, token, x, now)
       \/ \E x \in Codes : fail(r, token, x, now)
       \/ abandon(r, token, now)
  \/ \E r \in records, rev \in 1 .. MaxCounter, now \in Times : cancel(r, rev, now)
  \/ \E before \in Times, n \in 1 .. MaxBatch : purgeTerminal(before, n)

DelegationSpec == DelegationInit /\ [][DelegationNext]_delegationVars

-----------------------------------------------------------------------------
(* The records, leases and settled tokens agree: only a running record has *)
(* a lease, whose token is its last attempt's; a running record without    *)
(* one has used up its revisions; and a settled token belongs to a record  *)
(* that a worker settled.                                                  *)
MapsAgree ==
  /\ \A r \in records : r.key \in DOMAIN leases => r.status = "running"
  /\ \A r \in records : r.status = "running" /\ r.key \notin DOMAIN leases => r.revision = MaxCounter
  /\ \A r \in records : r.key \in DOMAIN leases => leases[r.key].attempt = r.attempt
  /\ \A k \in DOMAIN leases \cup DOMAIN settledTokens : \E r \in records : r.key = k
  /\ \A r \in records : (r.key \in DOMAIN settledTokens) = (r.status \in {"completed", "failed"})

(* Only the last worker to have claimed a task settles it: the token that  *)
(* settled it is the last one issued, however leases lapsed and were       *)
(* renewed before.                                                         *)
LastClaimSettles == \A r \in records : r.key \in DOMAIN settledTokens => settledTokens[r.key] = r.attempt

(* Who settles a task is the last worker to have claimed it, and records,  *)
(* leases and tokens tell of the same tasks.                               *)
LastHolderSettles == LastClaimSettles /\ MapsAgree

(* The run a task is bound to never changes, through every later claim,    *)
(* and a settled task is changed by nothing but its purge.                 *)
OutcomeKept ==
  \A r \in records : \A q \in records' : q.key = r.key =>
    /\ r.run # None => q.run = r.run
    /\ terminal(r) => q = r

BindingAndOutcomeFinal == [][OutcomeKept]_delegationVars
=============================================================================
