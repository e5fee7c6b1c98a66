------------------------- MODULE SqliteMailboxStore -------------------------
(***************************************************************************)
(* The durable mailbox of storage-sqlite on one database shared by several *)
(* connections (processes).  Every write is an immediate transaction, one  *)
(* step; claim is the exception: it selects the rows in a plain read,      *)
(* prepares tokens and revisions, and applies them in a later transaction  *)
(* whose UPDATE repeats the conditions.  A process may stop in between.    *)
(*                                                                         *)
(* Shown to implement MailboxStore, the store the rest of the system is    *)
(* written against.                                                        *)
(***************************************************************************)
EXTENDS Integers, FiniteSets, FiniteSetsExt, Functions

CONSTANTS
  Recipients, Ids, Owners, Tokens, RetirementIds,
  MaxTime, MaxKey, MaxCounter, MaxClaim, MaxPerRecipient, MaxPerGeneration,
  Connections,       \* processes that opened the database
  NULL

VARIABLES
  rows,              \* oga_mailbox_messages
  retirementRows,    \* oga_mailbox_authority_retirements by recipient
  sequence,          \* the AUTOINCREMENT value of message_key
  plan,              \* connection -> the claim it has prepared, or NULL
  receipts,          \* deliveries handed out
  acks               \* settlements confirmed

vars == <<rows, retirementRows, sequence, plan, receipts, acks>>

Times == 0 .. MaxTime

-----------------------------------------------------------------------------
rowsOf(r) == {w \in rows : w.recipient = r}
pendingRows(S) == {w \in S : w.status = "pending"}
keys(S) == {w.message_key : w \in S}

open(r) == r \notin DOMAIN retirementRows

leaseProofDigest(rc) == [token |-> rc.token, owner |-> rc.owner]

\* The lease columns are null together (a CHECK of the table).
noLease == [token |-> NULL, owner |-> NULL, expiresAt |-> NULL]

\* A live lease at the time of the request.
leasedAt(w, now) == w.lease # noLease /\ w.lease.expiresAt > now

activeLease(w, rc, now) ==
  /\ w.status = "pending"
  /\ w.lease.token = rc.token /\ w.lease.owner = rc.owner
  /\ w.lease.expiresAt # NULL /\ w.lease.expiresAt > now
  /\ now >= w.updated_at

earlierPending(w) == \E e \in pendingRows(rowsOf(w.recipient)) : e.message_key < w.message_key

\* UPDATE of the rows of a set, one transaction.
Update(old, new) == rows' = (rows \ old) \cup new
bump(w) == [w EXCEPT !.revision = @ + 1]
incrementable(w) == w.revision < MaxCounter

Init ==
  /\ rows = {} /\ retirementRows = << >> /\ sequence = 0
  /\ plan = [c \in Connections |-> NULL]
  /\ receipts = {} /\ acks = {}

enqueueRow(r, i, t) ==
  /\ open(r)
  /\ ~ \E w \in rowsOf(r) : w.message_id = i
  /\ Cardinality(pendingRows(rows)) < MaxPerGeneration
  /\ Cardinality(pendingRows(rowsOf(r))) < MaxPerRecipient
  /\ sequence < MaxKey
  /\ rows' = rows \cup {[message_key |-> sequence + 1, message_id |-> i, recipient |-> r,
                         status |-> "pending", revision |-> 1, attempt |-> 0, lease |-> noLease,
                         completed_at |-> NULL, cancelled_at |-> NULL,
                         settled_lease_hash |-> NULL, released_lease_hash |-> NULL,
                         created_at |-> t, updated_at |-> t]}
  /\ sequence' = sequence + 1
  /\ UNCHANGED <<retirementRows, plan, receipts, acks>>

-----------------------------------------------------------------------------
\* The rows of a plain SELECT that the claim's loop keeps.
selectable(r, now, limit) ==
  LET pending == pendingRows(rowsOf(r))
  IN  {w \in pending :
         /\ Cardinality({e \in pending : e.message_key <= w.message_key}) <= limit
         /\ \A e \in pending : e.message_key <= w.message_key => ~leasedAt(e, now)}

visited(r, now, limit) ==
  LET pending == pendingRows(rowsOf(r))
  IN  {w \in pending :
         /\ Cardinality({e \in pending : e.message_key <= w.message_key}) <= limit
         /\ \A e \in pending : e.message_key < w.message_key => ~leasedAt(e, now)}

usedTokens == {rc.token : rc \in receipts}
              \cup UNION {Range(plan[c].token) : c \in {d \in Connections : plan[d] # NULL}}

claimReads(c, r, o, now, expiresAt, limit) ==
  LET selected == selectable(r, now, limit)
  IN  /\ plan[c] = NULL
      /\ open(r)
      /\ expiresAt > now
      /\ selected # {}
      /\ \A w \in visited(r, now, limit) : now >= w.updated_at
      /\ \A w \in selected : incrementable(w)
      /\ \E token \in [keys(selected) -> Tokens \ usedTokens] :
           /\ IsInjective(token)
           /\ plan' = [plan EXCEPT ![c] = [recipient |-> r, owner |-> o, now |-> now, expiresAt |-> expiresAt,
                                           revision |-> [k \in keys(selected) |->
                                              (CHOOSE w \in selected : w.message_key = k).revision],
                                           token |-> token]]
  /\ UNCHANGED <<rows, retirementRows, sequence, receipts, acks>>

\* The UPDATE of a prepared claim finds the row it was prepared from.
stillClaimable(w, p) ==
  /\ w.status = "pending"
  /\ w.revision = p.revision[w.message_key]
  /\ w.updated_at <= p.now
  /\ ~leasedAt(w, p.now)

claimTarget(p) == {w \in rows : w.message_key \in DOMAIN p.token /\ stillClaimable(w, p)}

claimCommitsUnfenced(p) == keys(claimTarget(p)) = DOMAIN p.token

\* The transaction goes through only if it finds the authority open and every
\* row as it was read.
claimCommits(p) == open(p.recipient) /\ keys(claimTarget(p)) = DOMAIN p.token

claimWrites(c) ==
  LET p == plan[c]
      target == claimTarget(p)
  IN  /\ p # NULL
      /\ plan' = [plan EXCEPT ![c] = NULL]
      /\ IF claimCommits(p)
         THEN /\ Update(target,
                   {[w EXCEPT !.revision = p.revision[w.message_key] + 1, !.attempt = @ + 1,
                              !.lease = [token |-> p.token[w.message_key], owner |-> p.owner,
                                         expiresAt |-> p.expiresAt],
                              !.released_lease_hash = NULL, !.updated_at = p.now] : w \in target})
              /\ receipts' = receipts \cup
                   {[key |-> k, token |-> p.token[k], owner |-> p.owner] : k \in DOMAIN p.token}
         ELSE UNCHANGED <<rows, receipts>>       \* the transaction is rolled back
      /\ UNCHANGED <<retirementRows, sequence, acks>>

\* The process stops with a claim prepared; nothing of it was written.
Crash(c) ==
  /\ plan[c] # NULL
  /\ plan' = [plan EXCEPT ![c] = NULL]
  /\ UNCHANGED <<rows, retirementRows, sequence, receipts, acks>>

-----------------------------------------------------------------------------
renewRow(rc, w, now, expiresAt) ==
  /\ w.message_key = rc.key
  /\ open(w.recipient)
  /\ expiresAt > now
  /\ activeLease(w, rc, now)
  /\ expiresAt > w.lease.expiresAt
  /\ incrementable(w)
  /\ Update({w}, {[bump(w) EXCEPT !.lease.expiresAt = expiresAt, !.updated_at = now]})
  /\ UNCHANGED <<retirementRows, sequence, plan, receipts, acks>>

ackRow(rc, outcome) == acks' = acks \cup {[receipt |-> rc, outcome |-> outcome]}

completedUnproved(w, rc, now) ==
  [bump(w) EXCEPT !.status = "completed", !.lease = noLease, !.completed_at = now,
                  !.updated_at = now]

completed(w, rc, now) ==
  [bump(w) EXCEPT !.status = "completed", !.lease = noLease, !.completed_at = now,
                  !.settled_lease_hash = leaseProofDigest(rc), !.released_lease_hash = NULL,
                  !.updated_at = now]

completeRow(rc, w, now) ==
  /\ w.message_key = rc.key
  /\ open(w.recipient)
  /\ activeLease(w, rc, now)
  /\ ~earlierPending(w)
  /\ incrementable(w)
  /\ Update({w}, {completed(w, rc, now)})
  /\ ackRow(rc, "completed")
  /\ UNCHANGED <<retirementRows, sequence, plan, receipts>>

completeRowAgain(rc, w) ==
  /\ w.message_key = rc.key
  /\ w.status = "completed"
  /\ w.settled_lease_hash = leaseProofDigest(rc)
  /\ ackRow(rc, "completed")
  /\ UNCHANGED <<rows, retirementRows, sequence, plan, receipts>>

abandonRow(rc, w, now) ==
  /\ w.message_key = rc.key
  /\ open(w.recipient)
  /\ activeLease(w, rc, now)
  /\ incrementable(w)
  /\ Update({w}, {[bump(w) EXCEPT !.lease = noLease, !.released_lease_hash = leaseProofDigest(rc),
                                  !.updated_at = now]})
  /\ ackRow(rc, "abandoned")
  /\ UNCHANGED <<retirementRows, sequence, plan, receipts>>

abandonRowAgain(rc, w) ==
  /\ w.message_key = rc.key
  /\ open(w.recipient)
  /\ w.status = "pending" /\ w.lease = noLease
  /\ w.released_lease_hash = leaseProofDigest(rc)
  /\ ackRow(rc, "abandoned")
  /\ UNCHANGED <<rows, retirementRows, sequence, plan, receipts>>

cancelledAt(w, t) ==
  [bump(w) EXCEPT !.status = "cancelled", !.lease = noLease, !.cancelled_at = t,
                  !.released_lease_hash = NULL, !.updated_at = t]

cancelRow(w, expectedRevision, now) ==
  /\ open(w.recipient)
  /\ w.revision = expectedRevision
  /\ w.status = "pending"
  /\ now >= w.updated_at
  /\ ~leasedAt(w, now)
  /\ incrementable(w)
  /\ Update({w}, {cancelledAt(w, now)})
  /\ UNCHANGED <<retirementRows, sequence, plan, receipts, acks>>

purgeRows(r, before, limit) ==
  LET old == {w \in rowsOf(r) : w.status \in {"completed", "cancelled"} /\ w.updated_at < before}
      selected == {w \in old : Cardinality({e \in old : e.message_key <= w.message_key}) <= limit}
  IN  /\ selected # {}
      /\ rows' = rows \ selected
      /\ UNCHANGED <<retirementRows, sequence, plan, receipts, acks>>

-----------------------------------------------------------------------------
retireRows(r, id, at, phase) ==
  LET selected == {w \in pendingRows(rowsOf(r)) : phase = "finalized" \/ w.lease = noLease}
      later(w) == IF w.updated_at < at THEN at ELSE w.updated_at
  IN  /\ Cardinality(selected) <= Min({MaxPerRecipient, MaxPerGeneration})
      /\ \A w \in selected : incrementable(w)
      /\ retirementRows' = [x \in DOMAIN retirementRows \cup {r} |->
                              IF x = r THEN [id |-> id, at |-> at, phase |-> phase] ELSE retirementRows[x]]
      /\ Update(selected, {cancelledAt(w, later(w)) : w \in selected})
      /\ UNCHANGED <<sequence, plan, receipts, acks>>

beginRetirement(r, id, at) ==
  /\ r \notin DOMAIN retirementRows
  /\ \A x \in DOMAIN retirementRows : retirementRows[x].id # id
  /\ retireRows(r, id, at, "fenced")

finalizeRetirement(r, id, at) ==
  /\ r \in DOMAIN retirementRows
  /\ retirementRows[r] = [id |-> id, at |-> at, phase |-> "fenced"]
  /\ retireRows(r, id, at, "finalized")

Next ==
  \/ \E r \in Recipients, i \in Ids, t \in Times : enqueueRow(r, i, t)
  \/ \E c \in Connections, r \in Recipients, o \in Owners, now, exp \in Times, n \in 1 .. MaxClaim :
       claimReads(c, r, o, now, exp, n)
  \/ \E c \in Connections : claimWrites(c) \/ Crash(c)
  \/ \E rc \in receipts, w \in rows, now, exp \in Times : renewRow(rc, w, now, exp)
  \/ \E rc \in receipts, w \in rows, now \in Times : completeRow(rc, w, now) \/ abandonRow(rc, w, now)
  \/ \E rc \in receipts, w \in rows : completeRowAgain(rc, w) \/ abandonRowAgain(rc, w)
  \/ \E w \in rows, rev \in 0 .. MaxCounter, now \in Times : cancelRow(w, rev, now)
  \/ \E r \in Recipients, t \in Times, n \in 1 .. MaxKey : purgeRows(r, t, n)
  \/ \E r \in Recipients, id \in RetirementIds, t \in Times :
       beginRetirement(r, id, t) \/ finalizeRetirement(r, id, t)

Spec == Init /\ [][Next]_vars

-----------------------------------------------------------------------------
\* hydrate: what a stored row must satisfy to be loaded, the table's CHECK
\* constraints included.
hydrates(w) ==
  /\ w.revision > w.attempt
  /\ w.updated_at >= w.created_at
  /\ w.lease # noLease => w.attempt > 0 /\ w.lease.expiresAt > w.updated_at
  /\ CASE w.status = "completed" ->
            /\ w.completed_at = w.updated_at /\ w.cancelled_at = NULL
            /\ w.settled_lease_hash # NULL /\ w.released_lease_hash = NULL
            /\ w.lease = noLease /\ w.attempt > 0
       [] w.status = "cancelled" ->
            /\ w.cancelled_at = w.updated_at /\ w.completed_at = NULL
            /\ w.settled_lease_hash = NULL /\ w.released_lease_hash = NULL
            /\ w.lease = noLease
       [] OTHER ->
            /\ w.completed_at = NULL /\ w.cancelled_at = NULL /\ w.settled_lease_hash = NULL
            /\ w.released_lease_hash # NULL => w.lease = noLease /\ w.attempt > 0

(* Every row a transaction leaves behind can be loaded again.  A row that  *)
(* hydrate refuses would block its recipient for ever, since every         *)
(* operation loads it first.                                               *)
RowsHydrate == \A w \in rows : hydrates(w)

\* The lease, the settled and the released proof of a set of rows, as maps.
columnOf(S, col(_)) == [k \in keys(S) |-> col(CHOOSE w \in S : w.message_key = k)]

Mailbox == INSTANCE MailboxStore WITH
  messages <- {[recipient |-> w.recipient, id |-> w.message_id, recordedAt |-> w.created_at,
                key |-> w.message_key, status |-> w.status, revision |-> w.revision,
                attempt |-> w.attempt, updatedAt |-> w.updated_at] : w \in rows},
  leases <- columnOf({w \in rows : w.lease # noLease}, LAMBDA w : w.lease),
  settled <- columnOf({w \in rows : w.settled_lease_hash # NULL}, LAMBDA w : w.settled_lease_hash),
  released <- columnOf({w \in rows : w.released_lease_hash # NULL}, LAMBDA w : w.released_lease_hash),
  retirements <- retirementRows,
  nextMessageKey <- sequence + 1,
  MaxInstant <- MaxTime

(* The durable store does nothing that the in-memory store could not do in *)
(* one atomic operation, for any interleaving of its connections.          *)
ImplementsMailboxStore == Mailbox!MailboxSpec
=============================================================================
