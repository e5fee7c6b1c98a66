---------------------------- MODULE MailboxStore ----------------------------
(***************************************************************************)
(* The mailbox of the extensions package: InMemoryMailboxStore behind      *)
(* MailboxService.  Messages of a recipient (a lane of one timeline        *)
(* generation) are delivered in key order under leases; a lease that       *)
(* lapsed may be taken over; a settlement may be retried by its owner; an  *)
(* authority may be retired in two phases.                                 *)
(*                                                                         *)
(* Every operation is one synchronous section of the store.  A request     *)
(* that the store refuses changes nothing and is not a step.  The          *)
(* operational time is given by the caller: every request carries any time *)
(* of Instants, so that clocks may be late, early or run backwards.        *)
(***************************************************************************)
EXTENDS Integers, FiniteSets, FiniteSetsExt, Functions

CONSTANTS
  Recipients,        \* lanes of one timeline generation
  Ids,               \* message ids a sender may use
  Owners,            \* lease owners (workers)
  Tokens,            \* lease tokens newLeaseToken can return
  RetirementIds,
  MaxInstant,        \* operational times are 0 .. MaxInstant
  MaxKey,            \* bound on messages ever enqueued
  MaxCounter,        \* largest revision or attempt of maxCounterDigits digits
  MaxClaim,          \* maxClaimBatchSize
  MaxPerRecipient,   \* maxPendingMessagesPerRecipient
  MaxPerGeneration   \* maxPendingMessagesPerTimelineGeneration

VARIABLES
  messages,          \* the stored messages
  leases,            \* message key -> [token, owner, expiresAt]
  settled,           \* settledLeaseProofs: message key -> [token, owner]
  released,          \* releasedLeaseProofs: message key -> [token, owner]
  retirements,       \* recipient -> [id, at, phase]
  nextMessageKey,
  receipts,          \* deliveries the store has handed out
  acks               \* settlements the store has confirmed: [receipt, outcome]

mailboxStore == <<messages, leases, settled, released, retirements, nextMessageKey>>
mailboxVars == <<messages, leases, settled, released, retirements, nextMessageKey, receipts, acks>>

Instants == 0 .. MaxInstant
Keys == 1 .. MaxKey
Counters == 0 .. MaxCounter
Proof == [token: Tokens, owner: Owners]
Lease == [token: Tokens, owner: Owners, expiresAt: Instants]
Message == [recipient: Recipients, id: Ids, recordedAt: Instants, key: Keys,
            status: {"pending", "completed", "cancelled"},
            revision: Counters, attempt: Counters, updatedAt: Instants]
Receipt == [key: Keys, token: Tokens, owner: Owners]

ASSUME MailboxAssumption ==
  /\ {MaxInstant, MaxKey, MaxPerRecipient, MaxPerGeneration} \subseteq Nat
  /\ {MaxCounter, MaxClaim} \subseteq Nat \ {0}

-----------------------------------------------------------------------------
recipientMessages(r) == {m \in messages : m.recipient = r}
Pending(M) == {m \in M : m.status = "pending"}
laterMailboxTimestamp(s, t) == IF s < t THEN t ELSE s

\* incrementMailboxDecimal: a revision that would need more digits is refused.
CanIncrement(m) == m.revision < MaxCounter

Replace(old, new) == (messages \ old) \cup new
Without(f, K) == Restrict(f, DOMAIN f \ K)
keysOf(M) == {m.key : m \in M}

assertAuthorityOpen(r) == r \notin DOMAIN retirements

\* The lease of m is live for this request's time.
Leased(m, now) == m.key \in DOMAIN leases /\ leases[m.key].expiresAt > now

assertActiveLeaseByOwner(m, rc, now) ==
  /\ m.status = "pending"
  /\ m.key \in DOMAIN leases
  /\ leases[m.key].owner = rc.owner
  /\ now >= m.updatedAt

assertActiveLease(m, rc, now) ==
  /\ m.status = "pending"
  /\ m.key \in DOMAIN leases
  /\ leases[m.key].token = rc.token
  /\ leases[m.key].owner = rc.owner
  /\ now >= m.updatedAt
  /\ leases[m.key].expiresAt > now

hasEarlierPendingLeased(m) ==
  \E e \in Pending(recipientMessages(m.recipient)) : e.key < m.key /\ e.key \notin DOMAIN leases

hasEarlierPending(m) == \E e \in Pending(recipientMessages(m.recipient)) : e.key < m.key

-----------------------------------------------------------------------------
MailboxInit ==
  /\ messages = {}
  /\ leases = << >> /\ settled = << >> /\ released = << >>
  /\ retirements = << >>
  /\ nextMessageKey = 1
  /\ receipts = {}
  /\ acks = {}

\* A repeated draft answers with the stored message; another draft under the
\* same id is a conflict.  Neither changes the store.
enqueue(r, i, t) ==
  /\ assertAuthorityOpen(r)
  /\ ~ \E m \in recipientMessages(r) : m.id = i
  /\ Cardinality(Pending(messages)) < MaxPerGeneration
  /\ Cardinality(Pending(recipientMessages(r))) < MaxPerRecipient
  /\ nextMessageKey <= MaxKey
  /\ messages' = messages \cup {[recipient |-> r, id |-> i, recordedAt |-> t, key |-> nextMessageKey,
                                 status |-> "pending", revision |-> 1, attempt |-> 0, updatedAt |-> t]}
  /\ nextMessageKey' = nextMessageKey + 1
  /\ UNCHANGED <<leases, settled, released, retirements, receipts, acks>>

\* The messages a claim takes: the oldest pending ones, up to the first that
\* is still leased and up to the limit.
claimable(r, now, limit) ==
  LET pending == Pending(recipientMessages(r))
      Before(m) == {e \in pending : e.key <= m.key}
  IN  {m \in pending : /\ Cardinality(Before(m)) <= limit
                       /\ \A e \in Before(m) : ~Leased(e, now)}

\* The message whose live lease ends the claim, and those before it: the ones
\* whose updatedAt the claim has compared with its own time.
claimVisits(r, now, limit) ==
  LET pending == Pending(recipientMessages(r))
  IN  {m \in pending : /\ Cardinality({e \in pending : e.key <= m.key}) <= limit
                       /\ \A e \in pending : e.key < m.key => ~Leased(e, now)}

\* claim, under the tokens that newLeaseToken returned for each message.
claim(r, o, now, expiresAt, limit) ==
  LET selected == claimable(r, now, limit)
  IN  /\ assertAuthorityOpen(r)
      /\ expiresAt > now
      /\ selected # {}
      /\ \A m \in claimVisits(r, now, limit) : now >= m.updatedAt
      /\ \A m \in selected : CanIncrement(m)
      /\ \E token \in [keysOf(selected) -> Tokens \ {rc.token : rc \in receipts}] :
           /\ IsInjective(token)
           /\ messages' = Replace(selected, {[m EXCEPT !.revision = @ + 1, !.attempt = @ + 1, !.updatedAt = now] :
                                              m \in selected})
           /\ leases' = [k \in DOMAIN leases \cup DOMAIN token |->
                           IF k \in DOMAIN token
                           THEN [token |-> token[k], owner |-> o, expiresAt |-> expiresAt]
                           ELSE leases[k]]
           /\ released' = Without(released, DOMAIN token)
           /\ receipts' = receipts \cup {[key |-> k, token |-> token[k], owner |-> o] : k \in DOMAIN token}
  /\ UNCHANGED <<settled, retirements, nextMessageKey, acks>>

\* renew with a later end of the lease; the same end answers without a change.
renew(rc, m, now, expiresAt) ==
  /\ m.key = rc.key
  /\ assertAuthorityOpen(m.recipient)
  /\ expiresAt > now
  /\ assertActiveLease(m, rc, now)
  /\ expiresAt > leases[m.key].expiresAt
  /\ CanIncrement(m)
  /\ messages' = Replace({m}, {[m EXCEPT !.revision = @ + 1, !.updatedAt = now]})
  /\ leases' = [leases EXCEPT ![m.key].expiresAt = expiresAt]
  /\ UNCHANGED <<settled, released, retirements, nextMessageKey, receipts, acks>>

proofOf(rc) == [token |-> rc.token, owner |-> rc.owner]
Ack(rc, outcome) == acks' = acks \cup {[receipt |-> rc, outcome |-> outcome]}

complete(rc, m, now) ==
  /\ m.key = rc.key
  /\ assertAuthorityOpen(m.recipient)
  /\ assertActiveLease(m, rc, now)
  /\ ~hasEarlierPending(m)
  /\ CanIncrement(m)
  /\ messages' = Replace({m}, {[m EXCEPT !.status = "completed", !.revision = @ + 1,
                                         !.updatedAt = laterMailboxTimestamp(m.updatedAt, now)]})
  /\ leases' = Without(leases, {m.key})
  /\ released' = Without(released, {m.key})
  /\ settled' = [k \in DOMAIN settled \cup {m.key} |-> IF k = m.key THEN proofOf(rc) ELSE settled[k]]
  /\ Ack(rc, "completed")
  /\ UNCHANGED <<retirements, nextMessageKey, receipts>>

\* A completion repeated by the owner of the settled lease is confirmed again,
\* even after the authority was retired.
completeAgainUnproved(rc, m) ==
  /\ m.key = rc.key
  /\ m.status = "completed"
  /\ Ack(rc, "completed")
  /\ UNCHANGED <<messages, leases, settled, released, retirements, nextMessageKey, receipts>>

completeAgain(rc, m) ==
  /\ m.key = rc.key
  /\ m.status = "completed"
  /\ settled[m.key] = proofOf(rc)
  /\ Ack(rc, "completed")
  /\ UNCHANGED <<messages, leases, settled, released, retirements, nextMessageKey, receipts>>

abandon(rc, m, now) ==
  /\ m.key = rc.key
  /\ assertAuthorityOpen(m.recipient)
  /\ assertActiveLease(m, rc, now)
  /\ CanIncrement(m)
  /\ messages' = Replace({m}, {[m EXCEPT !.revision = @ + 1,
                                         !.updatedAt = laterMailboxTimestamp(m.updatedAt, now)]})
  /\ leases' = Without(leases, {m.key})
  /\ released' = [k \in DOMAIN released \cup {m.key} |-> IF k = m.key THEN proofOf(rc) ELSE released[k]]
  /\ Ack(rc, "abandoned")
  /\ UNCHANGED <<settled, retirements, nextMessageKey, receipts>>

abandonAgain(rc, m) ==
  /\ m.key = rc.key
  /\ assertAuthorityOpen(m.recipient)
  /\ m.status = "pending" /\ m.key \notin DOMAIN leases
  /\ m.key \in DOMAIN released /\ released[m.key] = proofOf(rc)
  /\ Ack(rc, "abandoned")
  /\ UNCHANGED <<messages, leases, settled, released, retirements, nextMessageKey, receipts>>

\* A message whose lease is live cannot be cancelled by its sender.
cancel(m, expectedRevision, now) ==
  /\ assertAuthorityOpen(m.recipient)
  /\ m.revision = expectedRevision
  /\ m.status = "pending"
  /\ now >= m.updatedAt
  /\ ~Leased(m, now)
  /\ CanIncrement(m)
  /\ messages' = Replace({m}, {[m EXCEPT !.status = "cancelled", !.revision = @ + 1,
                                         !.updatedAt = laterMailboxTimestamp(m.updatedAt, now)]})
  /\ leases' = Without(leases, {m.key})
  /\ released' = Without(released, {m.key})
  /\ UNCHANGED <<settled, retirements, nextMessageKey, receipts, acks>>

purgeable(r, before, limit) ==
  LET old == {m \in recipientMessages(r) : m.status # "pending" /\ m.updatedAt < before}
  IN  {m \in old : Cardinality({e \in old : e.key <= m.key}) <= limit}

purgeTerminal(r, before, limit) ==
  LET selected == purgeable(r, before, limit)
  IN  /\ selected # {}
      /\ messages' = messages \ selected
      /\ leases' = Without(leases, keysOf(selected))
      /\ settled' = Without(settled, keysOf(selected))
      /\ released' = Without(released, keysOf(selected))
      /\ UNCHANGED <<retirements, nextMessageKey, receipts, acks>>

-----------------------------------------------------------------------------
(* Retirement of a recipient's authority: fenced, then finalized.          *)

\* The messages a phase cancels: the fence leaves the leased ones alone.
retired(r, phase) ==
  {m \in Pending(recipientMessages(r)) : phase = "finalized" \/ m.key \notin DOMAIN leases}

commitRetirement(r, id, at, phase) ==
  LET selected == retired(r, phase)
  IN  /\ Cardinality(selected) <= MaxPerRecipient
      /\ Cardinality(selected) <= MaxPerGeneration
      /\ \A m \in selected : CanIncrement(m)
      /\ retirements' = [x \in DOMAIN retirements \cup {r} |->
                           IF x = r THEN [id |-> id, at |-> at, phase |-> phase] ELSE retirements[x]]
      /\ messages' = Replace(selected,
                       {[m EXCEPT !.status = "cancelled", !.revision = @ + 1,
                                  !.updatedAt = laterMailboxTimestamp(m.updatedAt, at)] : m \in selected})
      /\ leases' = Without(leases, keysOf(selected))
      /\ released' = Without(released, keysOf(selected))
      /\ UNCHANGED <<settled, nextMessageKey, receipts, acks>>

\* findRetirement: an id belongs to one partition for ever.
retirementIdFree(r, id) == \A x \in DOMAIN retirements : retirements[x].id = id => x = r

beginAuthorityRetirement(r, id, at) ==
  /\ retirementIdFree(r, id)
  /\ r \notin DOMAIN retirements
  /\ commitRetirement(r, id, at, "fenced")

finalizeAuthorityRetirement(r, id, at) ==
  /\ retirementIdFree(r, id)
  /\ r \in DOMAIN retirements
  /\ retirements[r].id = id /\ retirements[r].at = at
  /\ retirements[r].phase = "fenced"
  /\ commitRetirement(r, id, at, "finalized")

-----------------------------------------------------------------------------
MailboxNext ==
  \/ \E r \in Recipients, i \in Ids, t \in Instants : enqueue(r, i, t)
  \/ \E r \in Recipients, o \in Owners, now, exp \in Instants, n \in 1 .. MaxClaim : claim(r, o, now, exp, n)
  \/ \E rc \in receipts, m \in messages, now, exp \in Instants : renew(rc, m, now, exp)
  \/ \E rc \in receipts, m \in messages, now \in Instants : complete(rc, m, now) \/ abandon(rc, m, now)
  \/ \E rc \in receipts, m \in messages : completeAgain(rc, m) \/ abandonAgain(rc, m)
  \/ \E m \in messages, rev \in Counters, now \in Instants : cancel(m, rev, now)
  \/ \E r \in Recipients, t \in Instants, n \in 1 .. MaxKey : purgeTerminal(r, t, n)
  \/ \E r \in Recipients, id \in RetirementIds, t \in Instants :
       beginAuthorityRetirement(r, id, t) \/ finalizeAuthorityRetirement(r, id, t)

MailboxSpec == MailboxInit /\ [][MailboxNext]_mailboxVars

-----------------------------------------------------------------------------
\* Type correctness of the store's maps.
MailboxTypeOK ==
  /\ messages \subseteq Message
  /\ leases \in [DOMAIN leases -> Lease] /\ DOMAIN leases \subseteq Keys
  /\ settled \in [DOMAIN settled -> Proof] /\ DOMAIN settled \subseteq Keys
  /\ released \in [DOMAIN released -> Proof] /\ DOMAIN released \subseteq Keys
  /\ retirements \in [DOMAIN retirements -> [id: RetirementIds, at: Instants, phase: {"fenced", "finalized"}]]
  /\ nextMessageKey \in 1 .. MaxKey + 1
  /\ receipts \subseteq Receipt
  /\ acks \subseteq [receipt: Receipt, outcome: {"completed", "abandoned"}]

(* The four maps of the store describe the same messages: only a pending   *)
(* message is leased, exactly the completed ones carry a settled proof, a  *)
(* released proof belongs to a pending message that nobody holds.          *)
MapsAgree ==
  /\ DOMAIN leases \subseteq keysOf(Pending(messages))
  /\ DOMAIN settled = keysOf({m \in messages : m.status = "completed"})
  /\ DOMAIN released \subseteq keysOf(Pending(messages)) \ DOMAIN leases

(* Delivery is in order: once a message is completed no earlier message of *)
(* its recipient is still pending, whatever lapsed, was released or taken  *)
(* over in between.                                                        *)
FifoSettlement ==
  \A m, e \in messages :
    /\ m.status = "completed"
    /\ e.recipient = m.recipient /\ e.key < m.key
    => e.status # "pending"

(* At most one delivery of a message is ever confirmed as completed, and a *)
(* delivery confirmed as abandoned is never confirmed as completed: a      *)
(* worker whose lease lapsed cannot settle over the one that took over.    *)
OneSettlement ==
  \A a, b \in acks :
    /\ a.receipt.key = b.receipt.key
    /\ a.outcome = "completed"
    => /\ b.outcome = "completed" => a.receipt = b.receipt
       /\ b.outcome = "abandoned" => a.receipt # b.receipt

(* A fenced authority keeps only the work that was in flight, and a        *)
(* finalized one keeps none: nothing is pending there any more.            *)
RetirementDrains ==
  \A r \in DOMAIN retirements :
    \A m \in Pending(recipientMessages(r)) :
      retirements[r].phase = "fenced" /\ m.key \in DOMAIN leases

(* A settled message is never pending again and its proof is never         *)
(* replaced; only purging removes it.                                      *)
SettledForEver ==
  [][\A m \in messages : m.status # "pending" =>
       \/ m \in messages' /\ (m.key \in DOMAIN settled => settled'[m.key] = settled[m.key])
       \/ m.key \notin keysOf(messages')]_mailboxVars
=============================================================================
