------------------------ MODULE SqliteDelegationStore ------------------------
(***************************************************************************)
(* The durable delegation store of storage-sqlite.  Every operation is one *)
(* immediate transaction: it loads and validates the row, computes the     *)
(* next record and writes record_json with its mirrored columns and the    *)
(* lease columns.  A row that fails validation refuses the operation, so   *)
(* the model's guard for every operation includes hydrate.  Shown to       *)
(* implement DelegationStore.                                              *)
(***************************************************************************)
EXTENDS Integers, FiniteSets

CONSTANTS Ids, Owners, ChildRuns, Results, Codes, None, MaxTime, MaxKey, MaxCounter, MaxPending, MaxBatch

VARIABLES rows, sequence     \* oga_delegations and its AUTOINCREMENT value

vars == <<rows, sequence>>

Times == 0 .. MaxTime
NoLease == [lease_token |-> None, lease_owner_id |-> None, lease_expires_at |-> None]

-----------------------------------------------------------------------------
terminalRow(w) == w.status \in {"completed", "failed", "cancelled"}

\* hydrateChecked: what a row must satisfy to be loaded.
hydrateChecked(w) ==
  LET r == w.record
      leased == w.lease.lease_token # None
  IN  /\ r.status = w.status /\ r.revision = w.revision /\ r.updatedAt = w.updated_at
      /\ r.revision > r.attempt
      /\ r.updatedAt >= r.createdAt
      /\ r.run # None => r.startedAt # None
      /\ r.startedAt # None => r.startedAt \in r.createdAt .. r.updatedAt
      /\ (r.status = "running") = leased
      /\ leased => r.attempt # 0 /\ w.lease.lease_expires_at > r.updatedAt
      /\ (r.status \in {"completed", "failed", "cancelled"}) = (r.settledAt # None)
      /\ r.settledAt # None => r.settledAt = r.updatedAt
      /\ (r.status = "completed") = (r.result # None)
      /\ (r.status = "failed") = (r.code # None)
      /\ (r.status \in {"completed", "failed"}) = (w.settled_lease_hash # None)
      /\ r.status \in {"running", "completed", "failed"} => r.startedAt # None
      /\ r.status = "pending" =>
           IF r.attempt = 0 THEN r.revision = 1 /\ r.startedAt = None /\ r.run = None
           ELSE r.startedAt # None

\* UPDATE oga_delegations: the record, its mirrored columns and its lease.
written(w, r, lease, settled) ==
  [w EXCEPT !.record = r, !.status = r.status, !.revision = r.revision, !.updated_at = r.updatedAt,
            !.lease = lease, !.settled_lease_hash = settled]

writeRow(w, r, lease, settled) ==
  /\ rows' = (rows \ {w}) \cup {written(w, r, lease, settled)}
  /\ UNCHANGED sequence

Next1(r, now) == [r EXCEPT !.revision = @ + 1, !.updatedAt = now]
room(w) == w.revision < MaxCounter

Init == rows = {} /\ sequence = 0

createRow(id, at) ==
  LET r == [id |-> id, status |-> "pending", revision |-> 1, attempt |-> 0, run |-> None, result |-> None,
            code |-> None, createdAt |-> at, startedAt |-> None, settledAt |-> None, updatedAt |-> at]
  IN  /\ ~ \E w \in rows : w.delegation_id = id
      /\ Cardinality({w \in rows : w.status \in {"pending", "running"}}) < MaxPending
      /\ sequence < MaxKey
      /\ rows' = rows \cup {[delegation_key |-> sequence + 1, delegation_id |-> id, record |-> r,
                             status |-> "pending", revision |-> 1, updated_at |-> at, lease |-> NoLease,
                             settled_lease_hash |-> None]}
      /\ sequence' = sequence + 1

claimRow(w, owner, now, expires) ==
  LET r == w.record
  IN  /\ hydrateChecked(w)
      /\ expires > now /\ ~terminalRow(w) /\ now >= r.updatedAt
      /\ w.lease.lease_token # None => w.lease.lease_expires_at <= now
      /\ room(w)
      /\ writeRow(w, [Next1(r, now) EXCEPT !.status = "running", !.attempt = @ + 1,
                                           !.startedAt = IF @ = None THEN now ELSE @],
                  [lease_token |-> r.attempt + 1, lease_owner_id |-> owner, lease_expires_at |-> expires], None)

active(w, token, now) ==
  /\ hydrateChecked(w)
  /\ w.status = "running"
  /\ w.lease.lease_token = token
  /\ now >= w.record.updatedAt
  /\ w.lease.lease_expires_at > now

renewRow(w, token, now, expires) ==
  /\ active(w, token, now) /\ room(w)
  /\ expires > w.lease.lease_expires_at /\ expires > now
  /\ writeRow(w, Next1(w.record, now), [w.lease EXCEPT !.lease_expires_at = expires], None)

bindRunRow(w, token, run, now) ==
  /\ active(w, token, now) /\ room(w)
  /\ w.record.run = None
  /\ writeRow(w, [Next1(w.record, now) EXCEPT !.run = run], w.lease, None)

\* The digest of a token is known by the token.
settleRow(w, token, now, r) ==
  /\ active(w, token, now) /\ room(w)
  /\ writeRow(w, [r EXCEPT !.settledAt = now], NoLease, token)

completeRow(w, token, result, now) ==
  settleRow(w, token, now, [Next1(w.record, now) EXCEPT !.status = "completed", !.result = result])

failRow(w, token, code, now) ==
  settleRow(w, token, now, [Next1(w.record, now) EXCEPT !.status = "failed", !.code = code])

abandonRow(w, token, now) ==
  /\ active(w, token, now) /\ room(w)
  /\ writeRow(w, [Next1(w.record, now) EXCEPT !.status = "pending"], NoLease, None)

cancelRowAnyRevision(w, expected, now) ==
  /\ hydrateChecked(w)
  /\ w.revision >= expected /\ ~terminalRow(w) /\ now >= w.record.updatedAt /\ room(w)
  /\ writeRow(w, [w.record EXCEPT !.status = "cancelled", !.revision = expected + 1, !.settledAt = now, !.updatedAt = now],
              NoLease, None)

cancelRow(w, expected, now) ==
  /\ hydrateChecked(w)
  /\ w.revision = expected /\ ~terminalRow(w) /\ now >= w.record.updatedAt /\ room(w)
  /\ writeRow(w, [Next1(w.record, now) EXCEPT !.status = "cancelled", !.settledAt = now], NoLease, None)

older(w, v) == w.updated_at < v.updated_at \/ (w.updated_at = v.updated_at /\ w.delegation_key < v.delegation_key)

\* Validates every row it deletes.
purgeRows(before, limit) ==
  LET done == {w \in rows : terminalRow(w) /\ w.updated_at < before}
      selected == {w \in done : Cardinality({v \in done : older(v, w)}) < limit}
  IN  /\ selected # {} /\ \A w \in selected : hydrateChecked(w)
      /\ rows' = rows \ selected
      /\ UNCHANGED sequence

Next ==
  \/ \E id \in Ids, at \in Times : createRow(id, at)
  \/ \E w \in rows, o \in Owners, now, exp \in Times : claimRow(w, o, now, exp)
  \/ \E w \in rows, now \in Times : \E token \in 1 .. w.record.attempt :
       \/ \E exp \in Times : renewRow(w, token, now, exp)
       \/ \E run \in ChildRuns : bindRunRow(w, token, run, now)
       \/ \E x \in Results : completeRow(w, token, x, now)
       \/ \E x \in Codes : failRow(w, token, x, now)
       \/ abandonRow(w, token, now)
  \/ \E w \in rows, rev \in 1 .. MaxCounter, now \in Times : cancelRow(w, rev, now)
  \/ \E before \in Times, n \in 1 .. MaxBatch : purgeRows(before, n)

Spec == Init /\ [][Next]_vars

-----------------------------------------------------------------------------
(* Whatever sequence of transactions wrote it, every row passes the        *)
(* validation of the next one; a row that does not can never be claimed,   *)
(* cancelled or purged again and keeps its place in the pending bound.     *)
RowsLoadable == \A w \in rows : hydrateChecked(w)

keyed(w, x) == w.delegation_key = x
rowOf(k) == CHOOSE w \in rows : keyed(w, k)

Store == INSTANCE DelegationStore WITH
  records <- {[key |-> w.delegation_key, id |-> w.delegation_id, status |-> w.status, revision |-> w.revision,
               attempt |-> w.record.attempt, run |-> w.record.run, result |-> w.record.result,
               code |-> w.record.code, createdAt |-> w.record.createdAt, startedAt |-> w.record.startedAt,
               updatedAt |-> w.updated_at] : w \in rows},
  leases <- [k \in {w.delegation_key : w \in {v \in rows : v.lease.lease_token # None}} |->
               [attempt |-> rowOf(k).lease.lease_token, owner |-> rowOf(k).lease.lease_owner_id,
                expiresAt |-> rowOf(k).lease.lease_expires_at]],
  settledTokens <- [k \in {w.delegation_key : w \in {v \in rows : v.settled_lease_hash # None}} |->
                      rowOf(k).settled_lease_hash],
  nextKey <- sequence + 1

(* Every transaction of the durable store is a step of the in-memory store:*)
(* the lease columns are its lease map and the hash its settled token.     *)
ImplementsDelegationStore == Store!DelegationSpec
=============================================================================
