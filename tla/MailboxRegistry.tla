--------------------------- MODULE MailboxRegistry --------------------------
(***************************************************************************)
(* MailboxRunLeaseRegistry composed with the mailbox store: deliveries     *)
(* that became inputs of agent runs, the check that precedes each tool     *)
(* execution of such a run, and the settlement of the delivery when the    *)
(* run ends.                                                               *)
(*                                                                         *)
(* Operations of the registry run one at a time under its mutex but call   *)
(* the store in several awaited steps, between which senders, other        *)
(* workers and retirements use the store.  The tool check releases the     *)
(* mutex between looking its delivery up and using the answer.             *)
(*                                                                         *)
(* The second half proves the promises of the store and of the registry    *)
(* for every value of the constants.                                       *)
(***************************************************************************)
EXTENDS MailboxStore, TLAPS

CONSTANTS
  MaxActive,         \* maxActiveDeliveries
  MaxRegistrations   \* bound on entries ever made

VARIABLES
  active,            \* input -> [receipt, serial], the registered deliveries
  serial,            \* identity of the next entry
  section,           \* the operation that holds the mutex, with its progress
  checks,            \* tool checks under way: [input, entry, phase]
  granted            \* the receipts a tool execution was last authorized under

registry == <<active, serial, section, checks, granted>>
allVars == <<mailboxVars, registry>>

Idle == [op |-> "idle"]
\* The input of an agent run: its id is derived from the message and attempt.
inputOf(m) == <<m.key, m.attempt>>
Inputs == Keys \X Counters

asserted(rc, now) ==
  \E m \in messages : m.key = rc.key /\ assertAuthorityOpen(m.recipient)
                      /\ assertActiveLease(m, rc, now) /\ ~hasEarlierPending(m)

messageOf(rc) == CHOOSE m \in messages : m.key = rc.key

RegistryInit ==
  /\ MailboxInit
  /\ active = << >> /\ serial = 0 /\ section = Idle /\ checks = {} /\ granted = {}

\* activate and restore: the lease is asserted, then the entry is registered.
activateAsserts(rc, now) ==
  /\ section = Idle
  /\ asserted(rc, now)
  /\ section' = [op |-> "activate", receipt |-> rc, input |-> inputOf(messageOf(rc))]
  /\ UNCHANGED <<mailboxVars, active, serial, checks, granted>>

register ==
  LET i == section.input
  IN  /\ section.op = "activate"
      /\ section' = Idle
      /\ IF i \notin DOMAIN active /\ Cardinality(DOMAIN active) < MaxActive
         THEN /\ serial < MaxRegistrations
              /\ active' = [x \in DOMAIN active \cup {i} |->
                              IF x = i THEN [receipt |-> section.receipt, serial |-> serial] ELSE active[x]]
              /\ serial' = serial + 1
         ELSE UNCHANGED <<active, serial>>
      /\ UNCHANGED <<mailboxVars, checks, granted>>

\* authorizeToolExecution: look up, assert outside the mutex, look up again.
authorizeLooksUp(i) ==
  /\ section = Idle
  /\ i \in DOMAIN active
  /\ checks' = checks \cup {[input |-> i, entry |-> active[i], phase |-> "found"]}
  /\ UNCHANGED <<mailboxVars, active, serial, section, granted>>

authorizeAsserts(c, now) ==
  /\ c.phase = "found"
  /\ checks' = (checks \ {c}) \cup (IF asserted(c.entry.receipt, now) THEN {[c EXCEPT !.phase = "asserted"]} ELSE {})
  /\ UNCHANGED <<mailboxVars, active, serial, section, granted>>

stillRegisteredUnchecked(c) == TRUE
stillRegistered(c) == c.input \in DOMAIN active /\ active[c.input] = c.entry

authorizeGrants(c) ==
  /\ section = Idle
  /\ c.phase = "asserted"
  /\ checks' = checks \ {c}
  /\ granted' = IF stillRegistered(c) THEN {c.entry.receipt} ELSE granted
  /\ UNCHANGED <<mailboxVars, active, serial, section>>

\* The delivery of the registered entry, if there is one, is the caller's.
ownsEntry(i, rc) == i \in DOMAIN active => active[i].receipt = rc

\* renew: assert, then renew in the store.
renewAsserts(rc, now, expiresAt) ==
  /\ section = Idle
  /\ expiresAt > now
  /\ asserted(rc, now)
  /\ ownsEntry(inputOf(messageOf(rc)), rc)
  /\ section' = [op |-> "renew", receipt |-> rc, now |-> now, expiresAt |-> expiresAt]
  /\ UNCHANGED <<mailboxVars, active, serial, checks, granted>>

renewWrites ==
  /\ section.op = "renew"
  /\ section' = Idle
  /\ \/ \E m \in messages : renew(section.receipt, m, section.now, section.expiresAt)
     \/ /\ ~ \E m \in messages : ENABLED renew(section.receipt, m, section.now, section.expiresAt)
        /\ UNCHANGED mailboxVars
  /\ UNCHANGED <<active, serial, checks, granted>>

\* settle reads the message; an input that is no longer this delivery's attempt
\* is refused here, before anything is removed from the registry.
settleReads(rc, i, outcome, now) ==
  /\ section = Idle
  /\ \E m \in messages :
       /\ m.key = rc.key
       /\ m.status # "completed" => assertAuthorityOpen(m.recipient)
       /\ inputOf(m) = i
       /\ ownsEntry(i, rc)
       /\ section' = [op |-> IF m.status = "pending" THEN "settle"
                             ELSE IF m.status = "completed" /\ outcome = "completed" THEN "confirm"
                             ELSE "refused",
                      receipt |-> rc, input |-> i, outcome |-> outcome, now |-> now]
  /\ UNCHANGED <<mailboxVars, active, serial, checks, granted>>

\* The store's part of the settlement: a completion needs the asserted lease, any
\* other outcome may also repeat an abandonment.
settleWrites ==
  LET rc == section.receipt
  IN  \E m \in messages :
        \/ /\ section.op = "settle" /\ section.outcome = "completed"
           /\ complete(rc, m, section.now)
        \/ /\ section.op = "settle" /\ section.outcome = "abandoned"
           /\ \/ ~hasEarlierPending(m) /\ abandon(rc, m, section.now)
              \/ abandonAgain(rc, m)
        \/ section.op = "confirm" /\ completeAgain(rc, m)

\* The finally block removes the entry whatever the store answered.
removeEntry(i) == active' = Without(active, {i})

settleEnds ==
  /\ section.op \in {"settle", "confirm", "refused"}
  /\ \/ settleWrites
     \/ ~ENABLED settleWrites /\ UNCHANGED mailboxVars
  /\ removeEntry(section.input)
  /\ section' = Idle
  /\ UNCHANGED <<serial, checks, granted>>

release(i) ==
  /\ section = Idle
  /\ i \in DOMAIN active
  /\ active' = Without(active, {i})
  /\ UNCHANGED <<mailboxVars, serial, section, checks, granted>>

\* What the rest of the system does with the store meanwhile.
Others ==
  /\ \/ \E r \in Recipients, i \in Ids, t \in Instants : enqueue(r, i, t)
     \/ \E r \in Recipients, o \in Owners, now, exp \in Instants : claim(r, o, now, exp, 1)
     \/ \E m \in messages, now \in Instants : cancel(m, m.revision, now)
     \/ \E r \in Recipients, id \in RetirementIds, t \in Instants :
          beginAuthorityRetirement(r, id, t) \/ finalizeAuthorityRetirement(r, id, t)
  /\ UNCHANGED registry

RegistryNext ==
  \/ Others
  \/ \E rc \in receipts, now \in Instants : activateAsserts(rc, now)
  \/ register
  \/ \E i \in DOMAIN active : authorizeLooksUp(i) \/ release(i)
  \/ \E c \in checks : authorizeGrants(c) \/ \E now \in Instants : authorizeAsserts(c, now)
  \/ \E rc \in receipts, now, exp \in Instants : renewAsserts(rc, now, exp)
  \/ renewWrites
  \/ \E rc \in receipts, i \in Inputs, outcome \in {"completed", "abandoned"}, now \in Instants :
       i[1] = rc.key /\ settleReads(rc, i, outcome, now)
  \/ settleEnds

RegistrySpec == RegistryInit /\ [][RegistryNext]_allVars

-----------------------------------------------------------------------------
(* No tool of a run is authorized after the settlement of its delivery was *)
(* confirmed, although the check asserts the lease outside the mutex.      *)
NoToolAfterSettlement ==
  [][granted' # granted => \A rc \in granted' : \A a \in acks : a.receipt # rc]_allVars

(* An entry that outlives its settlement is gone from the registry: every  *)
(* confirmed settlement freed its slot of maxActiveDeliveries.             *)
SettledEntriesFreed ==
  section = Idle => \A i \in DOMAIN active : \A a \in acks : a.receipt # active[i].receipt

-----------------------------------------------------------------------------
(* The inductive invariant of the store.                                   *)

\* Keys name messages and grow; an attempt is counted in the revision.
MessagesOK ==
  /\ messages \subseteq Message
  /\ nextMessageKey \in 1 .. MaxKey + 1
  /\ \A m \in messages : m.key < nextMessageKey /\ m.attempt < m.revision
  /\ \A m, e \in messages : m.key = e.key => m = e

PendingKey(k) == \E m \in messages : m.status = "pending" /\ m.key = k
CompletedKey(k) == \E m \in messages : m.status = "completed" /\ m.key = k

\* MapsAgree, key by key.
MapsBook ==
  /\ \A k \in DOMAIN leases : PendingKey(k)
  /\ \A k \in Keys : k \in DOMAIN settled <=> CompletedKey(k)
  /\ \A k \in DOMAIN released : PendingKey(k) /\ k \notin DOMAIN leases

\* A token was handed out once, and every proof on record with a receipt.
receiptOf(k, proof) == [key |-> k, token |-> proof.token, owner |-> proof.owner]
TokensBook ==
  /\ \A rc \in receipts : rc.key < nextMessageKey
  /\ \A rc, q \in receipts : rc.token = q.token => rc = q
  /\ \A k \in DOMAIN leases : receiptOf(k, leases[k]) \in receipts
  /\ \A k \in DOMAIN settled : receiptOf(k, settled[k]) \in receipts
  /\ \A k \in DOMAIN released : receiptOf(k, released[k]) \in receipts

\* A confirmed completion is the proof its message was settled with, for as
\* long as the message is stored; a confirmed abandonment is no proof any more.
AcksBook ==
  /\ \A a \in acks : a.receipt \in receipts
  /\ \A a \in acks, m \in messages :
       a.outcome = "completed" /\ m.key = a.receipt.key =>
         m.status = "completed" /\ settled[m.key] = proofOf(a.receipt)
  /\ \A a \in acks : a.outcome = "abandoned" =>
       /\ \A k \in DOMAIN leases : leases[k].token # a.receipt.token
       /\ \A k \in DOMAIN settled : settled[k].token # a.receipt.token

MailboxInv ==
  /\ MailboxTypeOK /\ MessagesOK /\ MapsBook /\ TokensBook /\ AcksBook
  /\ FifoSettlement /\ OneSettlement /\ RetirementDrains

\* The receipt whose proof is on record for its message.
CurrentProof(rc) ==
  \/ rc.key \in DOMAIN leases /\ leases[rc.key].token = rc.token
  \/ rc.key \in DOMAIN settled /\ settled[rc.key].token = rc.token
  \/ rc.key \in DOMAIN released /\ released[rc.key].token = rc.token

\* i is the input of the attempt under which rc was handed out, as long as the
\* proof of rc is on record, and no later attempt.
InputOf(rc, i) ==
  /\ i \in Inputs /\ i[1] = rc.key
  /\ \A m \in messages : m.key = rc.key => i[2] <= m.attempt /\ (CurrentProof(rc) => i[2] = m.attempt)

NotAcked(rc) == \A a \in acks : a.receipt # rc

\* The operation that holds the mutex.
SectionOK ==
  \/ section = Idle
  \/ /\ section.op = "activate" /\ section.receipt \in receipts
     /\ InputOf(section.receipt, section.input) /\ NotAcked(section.receipt)
  \/ /\ section.op = "renew" /\ section.receipt \in receipts
     /\ section.now \in Instants /\ section.expiresAt \in Instants
  \/ /\ section.op \in {"settle", "confirm", "refused"} /\ section.receipt \in receipts
     /\ section.now \in Instants /\ InputOf(section.receipt, section.input)

ActiveOK ==
  \A i \in DOMAIN active :
    active[i].receipt \in receipts /\ InputOf(active[i].receipt, i) /\ NotAcked(active[i].receipt)

RegistryInv == MailboxInv /\ SectionOK /\ ActiveOK

-----------------------------------------------------------------------------
LEMMA Numbers ==
  /\ MaxInstant \in Nat /\ MaxKey \in Nat /\ MaxCounter \in Nat /\ MaxCounter > 0 /\ MaxClaim \in Nat /\ MaxClaim > 0
  /\ \A t, u \in Instants : laterMailboxTimestamp(t, u) \in Instants
  /\ \A k \in Keys : k \in Nat
  /\ \A c \in Counters : c \in Nat /\ c <= MaxCounter
BY MailboxAssumption DEF Instants, Keys, Counters, laterMailboxTimestamp

LEMMA WithoutFields ==
  ASSUME NEW f, NEW K
  PROVE  /\ DOMAIN Without(f, K) = DOMAIN f \ K
         /\ \A k \in DOMAIN f \ K : Without(f, K)[k] = f[k]
BY DEF Without, Restrict

LEMMA WithoutTyped ==
  ASSUME NEW f, NEW K, NEW S, NEW D, f \in [DOMAIN f -> S], DOMAIN f \subseteq D
  PROVE  /\ Without(f, K) \in [DOMAIN Without(f, K) -> S]
         /\ DOMAIN Without(f, K) \subseteq D
<1>1. PICK W : W = Without(f, K)
  OBVIOUS
<1>2. DOMAIN W = DOMAIN f \ K /\ W = [k \in DOMAIN f \ K |-> f[k]]
  BY <1>1 DEF Without, Restrict
<1>3. W \in [DOMAIN W -> S]
  BY <1>2
<1>4. QED BY <1>1, <1>2, <1>3

LEMMA MapsBookAgrees == ASSUME MailboxTypeOK, MapsBook PROVE MapsAgree
<1>1. \A k : PendingKey(k) <=> k \in keysOf(Pending(messages))
  BY DEF PendingKey, keysOf, Pending
<1>2. \A k : CompletedKey(k) <=> k \in keysOf({m \in messages : m.status = "completed"})
  BY DEF CompletedKey, keysOf
<1>3. \A k : CompletedKey(k) => k \in Keys
  BY DEF CompletedKey, MailboxTypeOK, Message
<1>4. DOMAIN settled \subseteq Keys
  BY DEF MailboxTypeOK
<1>5. \A k : k \in DOMAIN settled <=> CompletedKey(k)
  BY <1>3, <1>4 DEF MapsBook
<1>6. QED BY <1>1, <1>2, <1>5 DEF MapsBook, MapsAgree

\* What the maps of the store hold.
LEMMA MapFields ==
  ASSUME MailboxTypeOK
  PROVE  /\ \A k \in DOMAIN leases : k \in Keys /\ leases[k] \in Lease /\ leases[k].token \in Tokens /\ leases[k].owner \in Owners
         /\ \A k \in DOMAIN settled : k \in Keys /\ settled[k] \in Proof
         /\ \A k \in DOMAIN released : k \in Keys /\ released[k] \in Proof
         /\ \A rc \in receipts : rc.key \in Keys /\ rc.token \in Tokens /\ rc.owner \in Owners /\ proofOf(rc) \in Proof
         /\ \A m \in messages : m \in Message /\ m.key \in Keys /\ m.key \in Nat /\ m.recipient \in Recipients
                                /\ m.revision \in Counters /\ m.attempt \in Counters /\ m.updatedAt \in Instants
                                /\ m.attempt \in Nat /\ m.revision \in Nat
                                /\ m.status \in {"pending", "completed", "cancelled"}
BY Numbers DEF MailboxTypeOK, Lease, Proof, Receipt, Message, proofOf, Keys, Counters

(* Some messages are replaced, each by one with its key and recipient.     *)
LEMMA Replacing ==
  ASSUME MailboxTypeOK, MessagesOK, NEW S \in SUBSET messages, NEW g,
         \A m \in S : /\ g[m] \in Message /\ g[m].key = m.key /\ g[m].recipient = m.recipient
                      /\ g[m].attempt < g[m].revision,
         \A n : n \in messages' <=> (n \in messages /\ n \notin S) \/ \E m \in S : n = g[m],
         nextMessageKey' = nextMessageKey
  PROVE  MessagesOK'
<1>1. messages' \subseteq Message
  BY DEF MessagesOK
<1>2. \A n \in messages' : n.key < nextMessageKey' /\ n.attempt < n.revision
  BY DEF MessagesOK
<1>3. \A n \in messages' : \E m \in messages : n.key = m.key /\ n = (IF m \in S THEN g[m] ELSE m)
  OBVIOUS
<1>4. \A n, e \in messages' : n.key = e.key => n = e
  BY <1>3 DEF MessagesOK
<1>5. nextMessageKey' \in 1 .. MaxKey + 1
  BY DEF MessagesOK
<1>6. QED BY <1>1, <1>2, <1>4, <1>5 DEF MessagesOK, Message, Keys, Counters, Instants

(* Messages are completed only behind no pending one.                      *)
LEMMA FifoKept ==
  ASSUME MailboxTypeOK, MessagesOK, FifoSettlement, NEW S \in SUBSET messages, NEW g,
         \A m \in S : /\ m.status = "pending" /\ g[m].key = m.key /\ g[m].recipient = m.recipient
                      /\ g[m].status = "completed" => ~hasEarlierPending(m),
         \A n : n \in messages' <=> (n \in messages /\ n \notin S) \/ \E m \in S : n = g[m]
  PROVE  FifoSettlement'
<1>1. \A n \in messages' : \E m \in messages :
        /\ n.key = m.key /\ n.recipient = m.recipient /\ (n.status = "pending" => m.status = "pending")
        /\ n.status = "completed" => m.status = "completed" \/ ~hasEarlierPending(m)
  OBVIOUS
<1>2. ASSUME NEW m \in messages', NEW e \in messages', m.status = "completed", e.recipient = m.recipient, e.key < m.key
      PROVE  e.status # "pending"
  <2>1. PICK x \in messages : /\ m.key = x.key /\ m.recipient = x.recipient
                              /\ x.status = "completed" \/ ~hasEarlierPending(x)
    BY <1>1, <1>2
  <2>2. PICK y \in messages : e.key = y.key /\ e.recipient = y.recipient /\ (e.status = "pending" => y.status = "pending")
    BY <1>1
  <2>3. x.status = "completed" => y.status # "pending"
    BY <1>2, <2>1, <2>2 DEF FifoSettlement
  <2>4. ~hasEarlierPending(x) => y.status # "pending"
    BY <1>2, <2>1, <2>2 DEF hasEarlierPending, Pending, recipientMessages
  <2>5. QED BY <2>1, <2>2, <2>3, <2>4
<1>3. QED BY <1>2 DEF FifoSettlement

\* One step of SettledForEver, and what a step means for the receipts handed out.
SettledKept ==
  \A m \in messages : m.status # "pending" =>
    \/ m \in messages' /\ (m.key \in DOMAIN settled => settled'[m.key] = settled[m.key])
    \/ m.key \notin keysOf(messages')

AttemptsKept ==
  \A rc \in receipts, n \in messages' : n.key = rc.key =>
    \E m \in messages : /\ m.key = n.key /\ m.attempt <= n.attempt
                        /\ CurrentProof(rc)' => CurrentProof(rc) /\ n.attempt = m.attempt

(* Pending messages are cancelled, with their leases.                      *)
LEMMA Cancelling ==
  ASSUME MailboxInv, NEW S \in SUBSET messages, NEW g,
         \A m \in S : /\ g[m] \in Message /\ g[m].key = m.key /\ g[m].recipient = m.recipient
                      /\ g[m].attempt = m.attempt /\ g[m].attempt < g[m].revision
                      /\ g[m].status = "cancelled" /\ m.status = "pending",
         \A n : n \in messages' <=> (n \in messages /\ n \notin S) \/ \E m \in S : n = g[m],
         leases' = Without(leases, keysOf(S)), released' = Without(released, keysOf(S)),
         UNCHANGED <<settled, nextMessageKey, receipts, acks>>,
         retirements' \in [DOMAIN retirements' -> [id: RetirementIds, at: Instants, phase: {"fenced", "finalized"}]]
  PROVE  /\ (MailboxTypeOK /\ MessagesOK /\ MapsBook /\ TokensBook /\ AcksBook)'
         /\ (FifoSettlement /\ OneSettlement)' /\ SettledKept /\ AttemptsKept
<1>1. MailboxTypeOK /\ MessagesOK /\ MapsBook /\ TokensBook /\ AcksBook /\ FifoSettlement /\ OneSettlement
  BY DEF MailboxInv
<1>2. MessagesOK' /\ \A n : n \in messages' <=> (n \in messages /\ n \notin S) \/ \E m \in S : n = g[m]
  <2>1. \A m \in S : /\ g[m] \in Message /\ g[m].key = m.key /\ g[m].recipient = m.recipient
                     /\ g[m].attempt < g[m].revision
    OBVIOUS
  <2>2. nextMessageKey' = nextMessageKey
    OBVIOUS
  <2>3. QED BY <1>1, <2>1, <2>2, Replacing
<1>3. FifoSettlement'
  BY <1>1, <1>2, FifoKept
<1>4. \A k : k \in keysOf(S) <=> \E m \in S : m.key = k
  BY DEF keysOf
<1>5. /\ DOMAIN leases' = DOMAIN leases \ keysOf(S) /\ \A k \in DOMAIN leases' : leases'[k] = leases[k]
      /\ DOMAIN released' = DOMAIN released \ keysOf(S) /\ \A k \in DOMAIN released' : released'[k] = released[k]
  <2>1. PICK K, L, R : K = keysOf(S) /\ L = leases' /\ R = released'
    OBVIOUS
  <2>2. L = Without(leases, K) /\ R = Without(released, K)
    BY <2>1
  <2>3. DOMAIN L = DOMAIN leases \ K /\ \A k \in DOMAIN leases \ K : L[k] = leases[k]
    BY <2>2 DEF Without, Restrict
  <2>4. DOMAIN R = DOMAIN released \ K /\ \A k \in DOMAIN released \ K : R[k] = released[k]
    BY <2>2 DEF Without, Restrict
  <2>5. QED BY <2>1, <2>3, <2>4
<1>6. MailboxTypeOK'
  <2>1. /\ leases' \in [DOMAIN leases' -> Lease] /\ DOMAIN leases' \subseteq Keys
        /\ released' \in [DOMAIN released' -> Proof] /\ DOMAIN released' \subseteq Keys
    BY <1>1, WithoutTyped DEF MailboxTypeOK
  <2>2. messages' \subseteq Message /\ nextMessageKey' \in 1 .. MaxKey + 1
    BY <1>1, <1>2 DEF MessagesOK, MailboxTypeOK
  <2>3. QED BY <1>1, <2>1, <2>2 DEF MailboxTypeOK, Keys, Counters, Instants, Lease, Proof, Message, Receipt
<1>7. \A k : PendingKey(k) /\ k \notin keysOf(S) => PendingKey(k)'
  BY <1>2, <1>4 DEF PendingKey
<1>8. \A k : CompletedKey(k)' <=> CompletedKey(k)
  <2>1. \A n : n \in messages' /\ n.status = "completed" <=> n \in messages /\ n.status = "completed"
    BY <1>2
  <2>2. QED BY <2>1 DEF CompletedKey
<1>9. MapsBook'
  <2>1. \A k \in Keys : k \in DOMAIN settled' <=> CompletedKey(k)'
    BY <1>1, <1>8 DEF MapsBook
  <2>2. \A k \in DOMAIN leases' : PendingKey(k)'
    BY <1>1, <1>5, <1>7 DEF MapsBook
  <2>3. \A k \in DOMAIN released' : PendingKey(k)' /\ k \notin DOMAIN leases'
    BY <1>1, <1>5, <1>7 DEF MapsBook
  <2>4. QED BY <2>1, <2>2, <2>3 DEF MapsBook, Keys
<1>10. TokensBook'
  BY <1>1, <1>5 DEF TokensBook, receiptOf
<1>11. AcksBook'
  <2>1. \A a \in acks, n \in messages' : a.outcome = "completed" /\ n.key = a.receipt.key =>
          n.status = "completed" /\ settled[n.key] = proofOf(a.receipt)
    BY <1>1, <1>2 DEF AcksBook
  <2>2. QED BY <1>1, <1>5, <2>1 DEF AcksBook, proofOf
<1>12. OneSettlement'
  BY <1>1 DEF OneSettlement
<1>13. SettledKept
  BY <1>2 DEF SettledKept
<1>14. AttemptsKept
  <2>1. \A rc \in receipts : CurrentProof(rc)' => CurrentProof(rc)
    BY <1>5 DEF CurrentProof
  <2>2. \A n \in messages' : \E m \in messages : m.key = n.key /\ m.attempt = n.attempt /\ m.attempt \in Nat
    BY <1>1, <1>2, MapFields
  <2>3. QED BY <2>1, <2>2 DEF AttemptsKept
<1>15. QED BY <1>3, <1>6, <1>2, <1>9, <1>10, <1>11, <1>12, <1>13, <1>14

\* What every step of the store keeps.
StepOK == MailboxInv' /\ SettledKept /\ AttemptsKept /\ receipts \subseteq receipts'

LEMMA CancelKeeps ==
  ASSUME MailboxInv, NEW m \in messages, NEW rev, NEW now \in Instants, cancel(m, rev, now)
  PROVE  StepOK
<1>1. /\ m.recipient \notin DOMAIN retirements /\ m.status = "pending" /\ m.revision < MaxCounter
      /\ leases' = Without(leases, {m.key}) /\ released' = Without(released, {m.key})
      /\ UNCHANGED <<settled, retirements, nextMessageKey, receipts, acks>>
  BY DEF cancel, assertAuthorityOpen, CanIncrement
<1>2. PICK c : c = [m EXCEPT !.status = "cancelled", !.revision = @ + 1,
                             !.updatedAt = laterMailboxTimestamp(m.updatedAt, now)]
  OBVIOUS
<1>3. messages' = (messages \ {m}) \cup {c}
  BY <1>2 DEF cancel, Replace
<1>4. /\ m \in Message /\ m.revision \in Counters /\ m.revision \in Nat /\ m.attempt \in Nat
      /\ m.updatedAt \in Instants /\ m.attempt < m.revision
  BY MapFields DEF MailboxInv, MessagesOK
<1>5. m.revision + 1 \in Counters /\ laterMailboxTimestamp(m.updatedAt, now) \in Instants
  BY <1>1, <1>4, Numbers DEF Counters
<1>6. /\ c \in Message /\ c.key = m.key /\ c.recipient = m.recipient /\ c.attempt = m.attempt
      /\ c.revision = m.revision + 1 /\ c.status = "cancelled"
  BY <1>2, <1>4, <1>5 DEF Message
<1>7. c.attempt < c.revision
  BY <1>4, <1>6
<1>8. PICK S, g : S = {m} /\ g = [x \in S |-> c]
  OBVIOUS
<1>9. S \in SUBSET messages /\ keysOf(S) = {m.key}
  BY <1>8 DEF keysOf
<1>10. \A x \in S : /\ g[x] \in Message /\ g[x].key = x.key /\ g[x].recipient = x.recipient
                    /\ g[x].attempt = x.attempt /\ g[x].attempt < g[x].revision
                    /\ g[x].status = "cancelled" /\ x.status = "pending"
  BY <1>1, <1>6, <1>7, <1>8
<1>11. \A n : n \in messages' <=> (n \in messages /\ n \notin S) \/ \E x \in S : n = g[x]
  BY <1>3, <1>8
<1>12. leases' = Without(leases, keysOf(S)) /\ released' = Without(released, keysOf(S))
  BY <1>1, <1>9
<1>13. retirements' \in [DOMAIN retirements' -> [id: RetirementIds, at: Instants, phase: {"fenced", "finalized"}]]
  BY <1>1 DEF MailboxInv, MailboxTypeOK
<1>14. UNCHANGED <<settled, nextMessageKey, receipts, acks>>
  BY <1>1
<1>15. /\ (MailboxTypeOK /\ MessagesOK /\ MapsBook /\ TokensBook /\ AcksBook)'
       /\ (FifoSettlement /\ OneSettlement)' /\ SettledKept /\ AttemptsKept
  BY <1>9, <1>10, <1>11, <1>12, <1>13, <1>14, Cancelling
<1>16. RetirementDrains'
  <2>1. ASSUME NEW r \in DOMAIN retirements, NEW n \in messages', n.status = "pending", n.recipient = r
        PROVE  retirements[r].phase = "fenced" /\ n.key \in DOMAIN leases'
    <3>1. n \in messages /\ n # m
      BY <1>3, <1>6, <2>1
    <3>2. retirements[r].phase = "fenced" /\ n.key \in DOMAIN leases
      BY <2>1, <3>1 DEF MailboxInv, RetirementDrains, Pending, recipientMessages
    <3>3. n.key # m.key
      BY <3>1 DEF MailboxInv, MessagesOK
    <3>4. DOMAIN leases' = DOMAIN leases \ {m.key}
      BY <1>1 DEF Without, Restrict
    <3>5. QED BY <3>2, <3>3, <3>4
  <2>2. QED BY <1>1, <2>1 DEF RetirementDrains, Pending, recipientMessages
<1>17. QED BY <1>1, <1>15, <1>16 DEF StepOK, MailboxInv

LEMMA RetireKeeps ==
  ASSUME MailboxInv, NEW r \in Recipients, NEW id \in RetirementIds, NEW at \in Instants,
         NEW phase \in {"fenced", "finalized"}, commitRetirement(r, id, at, phase),
         phase = "fenced" => r \notin DOMAIN retirements
  PROVE  StepOK
<1>1. PICK S : S = retired(r, phase)
  OBVIOUS
<1>2. /\ S \in SUBSET messages
      /\ \A m \in messages : m \in S <=> /\ m.status = "pending" /\ m.recipient = r
                                         /\ phase = "finalized" \/ m.key \notin DOMAIN leases
  BY <1>1 DEF retired, Pending, recipientMessages
<1>3. PICK g : g = [m \in S |-> [m EXCEPT !.status = "cancelled", !.revision = @ + 1,
                                         !.updatedAt = laterMailboxTimestamp(m.updatedAt, at)]]
  OBVIOUS
<1>4. PICK rec : rec = [id |-> id, at |-> at, phase |-> phase]
  OBVIOUS
<1>5. /\ \A m \in S : m.revision < MaxCounter
      /\ retirements' = [x \in DOMAIN retirements \cup {r} |-> IF x = r THEN rec ELSE retirements[x]]
      /\ messages' = Replace(S, {[m EXCEPT !.status = "cancelled", !.revision = @ + 1,
                                          !.updatedAt = laterMailboxTimestamp(m.updatedAt, at)] : m \in S})
      /\ leases' = Without(leases, keysOf(S)) /\ released' = Without(released, keysOf(S))
      /\ UNCHANGED <<settled, nextMessageKey, receipts, acks>>
  BY <1>1, <1>4 DEF commitRetirement, CanIncrement
<1>6. \A m \in S : /\ g[m] \in Message /\ g[m].key = m.key /\ g[m].recipient = m.recipient
                   /\ g[m].attempt = m.attempt /\ g[m].attempt < g[m].revision
                   /\ g[m].status = "cancelled" /\ m.status = "pending"
  <2>1. ASSUME NEW m \in S
        PROVE  /\ g[m] \in Message /\ g[m].key = m.key /\ g[m].recipient = m.recipient
               /\ g[m].attempt = m.attempt /\ g[m].attempt < g[m].revision
               /\ g[m].status = "cancelled" /\ m.status = "pending"
    <3>1. /\ m \in messages /\ m \in Message /\ m.revision \in Counters /\ m.revision \in Nat /\ m.attempt \in Nat
          /\ m.updatedAt \in Instants /\ m.attempt < m.revision
      BY <1>2, MapFields DEF MailboxInv, MessagesOK
    <3>2. m.revision + 1 \in Counters /\ laterMailboxTimestamp(m.updatedAt, at) \in Instants
      <4>1. m.revision < MaxCounter
        BY <1>5
      <4>2. m.revision + 1 \in Counters
        BY <3>1, <4>1, Numbers DEF Counters
      <4>3. QED BY <3>1, <4>2, Numbers
    <3>3. PICK c : c = [m EXCEPT !.status = "cancelled", !.revision = @ + 1,
                                 !.updatedAt = laterMailboxTimestamp(m.updatedAt, at)]
      OBVIOUS
    <3>4. g[m] = c
      BY <1>3, <3>3
    <3>5. /\ c \in Message /\ c.key = m.key /\ c.recipient = m.recipient /\ c.attempt = m.attempt
          /\ c.revision = m.revision + 1 /\ c.status = "cancelled"
      BY <3>1, <3>2, <3>3 DEF Message
    <3>6. c.attempt < c.revision
      BY <3>1, <3>5
    <3>7. QED BY <1>2, <3>1, <3>4, <3>5, <3>6
  <2>2. QED BY <2>1
<1>7. \A n : n \in messages' <=> (n \in messages /\ n \notin S) \/ \E x \in S : n = g[x]
  BY <1>3, <1>5 DEF Replace
<1>8. retirements' \in [DOMAIN retirements' -> [id: RetirementIds, at: Instants, phase: {"fenced", "finalized"}]]
  <2>1. retirements \in [DOMAIN retirements -> [id: RetirementIds, at: Instants, phase: {"fenced", "finalized"}]]
    BY DEF MailboxInv, MailboxTypeOK
  <2>2. rec \in [id: RetirementIds, at: Instants, phase: {"fenced", "finalized"}]
    BY <1>4
  <2>3. QED BY <1>5, <2>1, <2>2
<1>9. UNCHANGED <<settled, nextMessageKey, receipts, acks>> /\ leases' = Without(leases, keysOf(S))
      /\ released' = Without(released, keysOf(S))
  BY <1>5
<1>10. /\ (MailboxTypeOK /\ MessagesOK /\ MapsBook /\ TokensBook /\ AcksBook)'
       /\ (FifoSettlement /\ OneSettlement)' /\ SettledKept /\ AttemptsKept
  BY <1>2, <1>6, <1>7, <1>8, <1>9, Cancelling
<1>11. RetirementDrains'
  <2>1. ASSUME NEW x \in DOMAIN retirements', NEW n \in messages', n.status = "pending", n.recipient = x
        PROVE  retirements'[x].phase = "fenced" /\ n.key \in DOMAIN leases'
    <3>1. n \in messages /\ n \notin S
      BY <1>6, <1>7, <2>1
    <3>2. n.key \notin keysOf(S)
      BY <1>2, <3>1 DEF keysOf, MailboxInv, MessagesOK
    <3>3. DOMAIN leases' = DOMAIN leases \ keysOf(S)
      BY <1>5 DEF Without, Restrict
    <3>4. CASE x = r
      <4>1. phase = "fenced" /\ n.key \in DOMAIN leases
        BY <1>2, <2>1, <3>1, <3>4
      <4>2. retirements'[x].phase = phase
        BY <1>4, <1>5, <3>4
      <4>3. QED BY <3>2, <3>3, <4>1, <4>2
    <3>5. CASE x # r
      <4>1. x \in DOMAIN retirements /\ retirements'[x] = retirements[x]
        BY <1>5, <3>5
      <4>2. retirements[x].phase = "fenced" /\ n.key \in DOMAIN leases
        BY <2>1, <3>1, <4>1 DEF MailboxInv, RetirementDrains, Pending, recipientMessages
      <4>3. QED BY <3>2, <3>3, <4>1, <4>2
    <3>6. QED BY <3>4, <3>5
  <2>2. QED BY <2>1 DEF RetirementDrains, Pending, recipientMessages
<1>12. QED BY <1>5, <1>10, <1>11 DEF StepOK, MailboxInv

(* One pending message is replaced.                                        *)
LEMMA OneReplaced ==
  ASSUME MailboxInv, NEW m \in messages, NEW c \in Message, m.status = "pending",
         c.key = m.key, c.recipient = m.recipient, c.attempt < c.revision,
         c.status = "completed" => ~hasEarlierPending(m),
         messages' = (messages \ {m}) \cup {c}, nextMessageKey' = nextMessageKey
  PROVE  /\ MessagesOK' /\ FifoSettlement'
         /\ \A n \in messages' : n = c \/ n \in messages
         /\ \A n \in messages : n # m => n \in messages' /\ n.key # m.key
         /\ \A k : PendingKey(k)' <=> (PendingKey(k) /\ k # m.key) \/ (k = m.key /\ c.status = "pending")
         /\ \A k : CompletedKey(k)' <=> CompletedKey(k) \/ (k = m.key /\ c.status = "completed")
         /\ ~CompletedKey(m.key) /\ m.key \notin DOMAIN settled
         /\ \A a \in acks : a.outcome = "completed" => a.receipt.key # m.key
<1>1. MailboxTypeOK /\ MessagesOK /\ MapsBook /\ AcksBook /\ FifoSettlement
  BY DEF MailboxInv
<1>2. PICK S, g : S = {m} /\ g = [x \in S |-> c]
  OBVIOUS
<1>3. /\ S \in SUBSET messages /\ \A x \in S : x = m /\ g[x] = c
      /\ \A n : n \in messages' <=> (n \in messages /\ n \notin S) \/ \E x \in S : n = g[x]
  BY <1>2
<1>4. MessagesOK'
  BY <1>1, <1>3, Replacing
<1>5. FifoSettlement'
  <2>1. \A x \in S : /\ x.status = "pending" /\ g[x].key = x.key /\ g[x].recipient = x.recipient
                     /\ (g[x].status = "completed" => ~hasEarlierPending(x))
    BY <1>3
  <2>2. QED BY <1>1, <1>3, <2>1, FifoKept
<1>6. \A n \in messages : n # m => n.key # m.key
  BY <1>1 DEF MessagesOK
<1>7. \A k : PendingKey(k)' <=> (PendingKey(k) /\ k # m.key) \/ (k = m.key /\ c.status = "pending")
  BY <1>6 DEF PendingKey
<1>8. ~CompletedKey(m.key)
  BY <1>1 DEF CompletedKey, MessagesOK
<1>9. \A k : CompletedKey(k)' <=> CompletedKey(k) \/ (k = m.key /\ c.status = "completed")
  BY <1>8 DEF CompletedKey
<1>10. m.key \notin DOMAIN settled
  BY <1>1, <1>8, MapFields DEF MapsBook
<1>11. \A a \in acks : a.outcome = "completed" => a.receipt.key # m.key
  BY <1>1 DEF AcksBook
<1>12. QED BY <1>4, <1>5, <1>6, <1>7, <1>8, <1>9, <1>10, <1>11

(* Steps under the open authority r do not disturb the retired ones.       *)
LEMMA OpenAuthority ==
  ASSUME MailboxInv, retirements' = retirements, NEW r, r \notin DOMAIN retirements,
         \A n \in messages' : n \in messages \/ n.recipient = r,
         \A n \in messages : n.recipient # r /\ n.key \in DOMAIN leases => n.key \in DOMAIN leases'
  PROVE  RetirementDrains'
<1>1. ASSUME NEW x \in DOMAIN retirements, NEW n \in messages', n.status = "pending", n.recipient = x
      PROVE  retirements[x].phase = "fenced" /\ n.key \in DOMAIN leases'
  <2>1. n \in messages /\ n.recipient # r
    BY <1>1
  <2>2. retirements[x].phase = "fenced" /\ n.key \in DOMAIN leases
    BY <1>1, <2>1 DEF MailboxInv, RetirementDrains, Pending, recipientMessages
  <2>3. QED BY <2>1, <2>2
<1>2. QED BY <1>1 DEF RetirementDrains, Pending, recipientMessages

(* The proof of a receipt on record determines the receipt.                *)
LEMMA ProofsIdentify ==
  ASSUME MailboxInv
  PROVE  /\ \A rc \in receipts : \A k \in DOMAIN leases : leases[k].token = rc.token => k = rc.key /\ leases[k].owner = rc.owner
         /\ \A rc \in receipts : \A k \in DOMAIN settled : settled[k].token = rc.token => k = rc.key
         /\ \A rc \in receipts : \A k \in DOMAIN released : released[k].token = rc.token => k = rc.key
         /\ \A rc, q \in receipts : rc.token = q.token => rc = q
<1>1. TokensBook
  BY DEF MailboxInv
<1>2. ASSUME NEW k, NEW proof, NEW rc \in receipts, receiptOf(k, proof) \in receipts, proof.token = rc.token
      PROVE  k = rc.key /\ proof.owner = rc.owner
  <2>1. PICK q : q = receiptOf(k, proof)
    OBVIOUS
  <2>2. q.key = k /\ q.token = proof.token /\ q.owner = proof.owner
    BY <2>1 DEF receiptOf
  <2>3. q = rc
    BY <1>1, <1>2, <2>1, <2>2 DEF TokensBook
  <2>4. QED BY <2>2, <2>3
<1>3. /\ \A k \in DOMAIN leases : receiptOf(k, leases[k]) \in receipts
      /\ \A k \in DOMAIN settled : receiptOf(k, settled[k]) \in receipts
      /\ \A k \in DOMAIN released : receiptOf(k, released[k]) \in receipts
      /\ \A rc, q \in receipts : rc.token = q.token => rc = q
  BY <1>1 DEF TokensBook
<1>4. QED BY <1>2, <1>3

\* The next form of a message that keeps its attempt.
nextForm(m, st, t) == [m EXCEPT !.status = st, !.revision = @ + 1, !.updatedAt = t]

LEMMA NextForm ==
  ASSUME MailboxInv, NEW m \in messages, CanIncrement(m), NEW st \in {"pending", "completed", "cancelled"},
         NEW t \in Instants, NEW c,
         c = nextForm(m, st, t)
  PROVE  /\ c \in Message /\ c.key = m.key /\ c.recipient = m.recipient /\ c.attempt = m.attempt
         /\ c.status = st /\ c.attempt < c.revision
<1>1. /\ m \in Message /\ m.revision \in Counters /\ m.revision \in Nat /\ m.attempt \in Nat
      /\ m.attempt < m.revision
  BY MapFields DEF MailboxInv, MessagesOK
<1>2. m.revision + 1 \in Counters
  BY <1>1, Numbers DEF Counters, CanIncrement
<1>3. /\ c \in Message /\ c.key = m.key /\ c.recipient = m.recipient /\ c.attempt = m.attempt
      /\ c.revision = m.revision + 1 /\ c.status = st
  BY <1>1, <1>2 DEF Message, nextForm
<1>4. QED BY <1>1, <1>3

LEMMA RenewKeeps ==
  ASSUME MailboxInv, NEW rc \in receipts, NEW m \in messages, NEW now \in Instants, NEW exp \in Instants,
         renew(rc, m, now, exp)
  PROVE  StepOK
<1>1. PICK t : t = m.updatedAt
  OBVIOUS
<1>2. PICK c : c = [m EXCEPT !.revision = @ + 1, !.updatedAt = now]
  OBVIOUS
<1>3. PICK l : l = [leases[m.key] EXCEPT !.expiresAt = exp]
  OBVIOUS
<1>4. /\ m.recipient \notin DOMAIN retirements /\ m.status = "pending" /\ CanIncrement(m)
      /\ m.key \in DOMAIN leases
      /\ messages' = (messages \ {m}) \cup {c}
      /\ leases' = [leases EXCEPT ![m.key].expiresAt = exp]
      /\ UNCHANGED <<settled, released, retirements, nextMessageKey, receipts, acks>>
  BY <1>2 DEF renew, assertAuthorityOpen, assertActiveLease, Replace
<1>5. MailboxTypeOK /\ MessagesOK /\ MapsBook /\ TokensBook /\ AcksBook /\ OneSettlement
  BY DEF MailboxInv
<1>6. /\ c \in Message /\ c.key = m.key /\ c.recipient = m.recipient /\ c.attempt = m.attempt
      /\ c.status = "pending" /\ c.attempt < c.revision
  <2>1. PICK st \in {"pending", "completed", "cancelled"} : st = "pending"
    OBVIOUS
  <2>2. m \in Message
    BY <1>5, MapFields
  <2>3. c = nextForm(m, st, now)
    BY <1>2, <1>4, <2>1, <2>2 DEF Message, nextForm
  <2>4. /\ c \in Message /\ c.key = m.key /\ c.recipient = m.recipient /\ c.attempt = m.attempt
        /\ c.status = st /\ c.attempt < c.revision
    BY <1>4, <2>3, NextForm
  <2>5. QED BY <2>1, <2>4
<1>7. leases[m.key] \in Lease /\ l \in Lease /\ l.token = leases[m.key].token /\ l.owner = leases[m.key].owner
  <2>1. leases[m.key] \in Lease
    BY <1>4, <1>5, MapFields
  <2>2. QED BY <1>3, <2>1 DEF Lease
<1>8. /\ DOMAIN leases' = DOMAIN leases /\ leases'[m.key] = l
      /\ \A k \in DOMAIN leases : k # m.key => leases'[k] = leases[k]
      /\ leases' = [k \in DOMAIN leases |-> IF k = m.key THEN l ELSE leases[k]]
  <2>1. leases \in [DOMAIN leases -> Lease]
    BY <1>5 DEF MailboxTypeOK
  <2>2. QED BY <1>3, <1>4, <2>1
<1>9. \A k \in DOMAIN leases : leases'[k].token = leases[k].token /\ leases'[k].owner = leases[k].owner
  BY <1>7, <1>8
<1>10. /\ MessagesOK' /\ FifoSettlement'
       /\ \A n \in messages' : n = c \/ n \in messages
       /\ \A n \in messages : n # m => n \in messages' /\ n.key # m.key
       /\ \A k : PendingKey(k)' <=> (PendingKey(k) /\ k # m.key) \/ (k = m.key /\ c.status = "pending")
       /\ \A k : CompletedKey(k)' <=> CompletedKey(k) \/ (k = m.key /\ c.status = "completed")
       /\ \A a \in acks : a.outcome = "completed" => a.receipt.key # m.key
  BY <1>4, <1>6, OneReplaced
<1>11. MailboxTypeOK'
  <2>1. leases' \in [DOMAIN leases' -> Lease] /\ DOMAIN leases' \subseteq Keys
    BY <1>5, <1>7, <1>8 DEF MailboxTypeOK
  <2>2. messages' \subseteq Message /\ nextMessageKey' \in 1 .. MaxKey + 1
    BY <1>4, <1>5, <1>6 DEF MailboxTypeOK
  <2>3. QED BY <1>4, <1>5, <2>1, <2>2 DEF MailboxTypeOK, Keys, Counters, Instants, Lease, Proof, Message, Receipt
<1>12. MapsBook'
  <2>1. \A k : PendingKey(k) => PendingKey(k)'
    BY <1>6, <1>10
  <2>2. \A k : CompletedKey(k)' <=> CompletedKey(k)
    BY <1>6, <1>10
  <2>3. \A k \in Keys : k \in DOMAIN settled' <=> CompletedKey(k)'
    BY <1>4, <1>5, <2>2 DEF MapsBook
  <2>4. QED BY <1>4, <1>5, <1>8, <2>1, <2>3 DEF MapsBook, Keys
<1>13. TokensBook'
  BY <1>4, <1>5, <1>8, <1>9 DEF TokensBook, receiptOf
<1>14. AcksBook'
  <2>1. \A a \in acks, n \in messages' : a.outcome = "completed" /\ n.key = a.receipt.key =>
          n.status = "completed" /\ settled[n.key] = proofOf(a.receipt)
    BY <1>5, <1>6, <1>10 DEF AcksBook
  <2>2. QED BY <1>4, <1>5, <1>8, <1>9, <2>1 DEF AcksBook, proofOf
<1>15. OneSettlement'
  BY <1>4, <1>5 DEF OneSettlement
<1>16. RetirementDrains'
  BY <1>4, <1>6, <1>8, <1>10, OpenAuthority
<1>17. SettledKept
  BY <1>4, <1>10 DEF SettledKept
<1>18. AttemptsKept
  <2>1. \A q \in receipts : CurrentProof(q)' => CurrentProof(q)
    BY <1>4, <1>8, <1>9 DEF CurrentProof
  <2>2. \A n \in messages' : \E x \in messages : x.key = n.key /\ x.attempt = n.attempt /\ x.attempt \in Nat
    BY <1>5, <1>6, <1>10, MapFields
  <2>3. QED BY <2>1, <2>2 DEF AttemptsKept
<1>19. QED BY <1>4, <1>10, <1>11, <1>12, <1>13, <1>14, <1>15, <1>16, <1>17, <1>18 DEF StepOK, MailboxInv

LEMMA CompleteKeeps ==
  ASSUME MailboxInv, NEW rc \in receipts, NEW m \in messages, NEW now \in Instants, complete(rc, m, now)
  PROVE  StepOK
<1>1. PICK c, st, t : /\ t = laterMailboxTimestamp(m.updatedAt, now) /\ st = "completed"
                      /\ c = nextForm(m, st, t)
  OBVIOUS
<1>2. PICK proof, ack : proof = proofOf(rc) /\ ack = [receipt |-> rc, outcome |-> "completed"]
  OBVIOUS
<1>3. /\ m.key = rc.key /\ m.recipient \notin DOMAIN retirements /\ m.status = "pending" /\ CanIncrement(m)
      /\ m.key \in DOMAIN leases /\ leases[m.key].token = rc.token /\ ~hasEarlierPending(m)
      /\ messages' = (messages \ {m}) \cup {c}
      /\ leases' = Without(leases, {m.key}) /\ released' = Without(released, {m.key})
      /\ settled' = [k \in DOMAIN settled \cup {m.key} |-> IF k = m.key THEN proof ELSE settled[k]]
      /\ acks' = acks \cup {ack}
      /\ UNCHANGED <<retirements, nextMessageKey, receipts>>
  BY <1>1, <1>2 DEF complete, assertAuthorityOpen, assertActiveLease, Replace, Ack, nextForm
<1>4. MailboxTypeOK /\ MessagesOK /\ MapsBook /\ TokensBook /\ AcksBook /\ OneSettlement
  BY DEF MailboxInv
<1>5. /\ c \in Message /\ c.key = m.key /\ c.recipient = m.recipient /\ c.attempt = m.attempt
      /\ c.status = "completed" /\ c.attempt < c.revision
  <2>1. t \in Instants
    BY <1>1, <1>4, MapFields, Numbers
  <2>2. st \in {"pending", "completed", "cancelled"}
    BY <1>1
  <2>3. /\ c \in Message /\ c.key = m.key /\ c.recipient = m.recipient /\ c.attempt = m.attempt
        /\ c.status = st /\ c.attempt < c.revision
    BY <1>1, <1>3, <2>1, <2>2, NextForm
  <2>4. QED BY <1>1, <2>3
<1>6. proof \in Proof /\ proof.token = rc.token /\ proof.owner = rc.owner /\ ack.receipt = rc /\ ack.outcome = "completed"
  BY <1>2, <1>4, MapFields DEF proofOf
<1>7. /\ DOMAIN leases' = DOMAIN leases \ {m.key} /\ \A k \in DOMAIN leases' : leases'[k] = leases[k]
      /\ DOMAIN released' = DOMAIN released \ {m.key} /\ \A k \in DOMAIN released' : released'[k] = released[k]
      /\ DOMAIN settled' = DOMAIN settled \cup {m.key} /\ settled'[m.key] = proof
      /\ \A k \in DOMAIN settled : k # m.key => settled'[k] = settled[k]
  BY <1>3 DEF Without, Restrict
<1>8. /\ MessagesOK' /\ FifoSettlement'
      /\ \A n \in messages' : n = c \/ n \in messages
      /\ \A n \in messages : n # m => n \in messages' /\ n.key # m.key
      /\ \A k : PendingKey(k)' <=> (PendingKey(k) /\ k # m.key) \/ (k = m.key /\ c.status = "pending")
      /\ \A k : CompletedKey(k)' <=> CompletedKey(k) \/ (k = m.key /\ c.status = "completed")
      /\ m.key \notin DOMAIN settled
      /\ \A a \in acks : a.outcome = "completed" => a.receipt.key # m.key
  BY <1>3, <1>5, OneReplaced
<1>9. MailboxTypeOK'
  <2>1. /\ leases' \in [DOMAIN leases' -> Lease] /\ DOMAIN leases' \subseteq Keys
        /\ released' \in [DOMAIN released' -> Proof] /\ DOMAIN released' \subseteq Keys
    BY <1>3, <1>4, WithoutTyped DEF MailboxTypeOK
  <2>2. settled' \in [DOMAIN settled' -> Proof] /\ DOMAIN settled' \subseteq Keys
    BY <1>3, <1>4, <1>6, MapFields DEF MailboxTypeOK
  <2>3. messages' \subseteq Message /\ nextMessageKey' \in 1 .. MaxKey + 1
    BY <1>3, <1>4, <1>5 DEF MailboxTypeOK
  <2>4. acks' \subseteq [receipt: Receipt, outcome: {"completed", "abandoned"}]
    BY <1>2, <1>3, <1>4 DEF MailboxTypeOK
  <2>5. QED BY <1>3, <1>4, <2>1, <2>2, <2>3, <2>4 DEF MailboxTypeOK, Keys, Counters, Instants, Lease, Proof, Message, Receipt
<1>10. MapsBook'
  <2>1. \A k : k # m.key /\ PendingKey(k) => PendingKey(k)'
    BY <1>8
  <2>2. \A k \in Keys : k \in DOMAIN settled' <=> CompletedKey(k)'
    BY <1>4, <1>5, <1>7, <1>8 DEF MapsBook
  <2>3. \A k \in DOMAIN leases' : PendingKey(k)'
    BY <1>4, <1>7, <2>1 DEF MapsBook
  <2>4. \A k \in DOMAIN released' : PendingKey(k)' /\ k \notin DOMAIN leases'
    BY <1>4, <1>7, <2>1 DEF MapsBook
  <2>5. QED BY <2>2, <2>3, <2>4 DEF MapsBook, Keys
<1>11. receiptOf(m.key, proof) = rc
  BY <1>3, <1>4, <1>6, MapFields DEF receiptOf, MailboxTypeOK, Receipt
<1>12. TokensBook'
  <2>1. \A k \in DOMAIN settled' : receiptOf(k, settled'[k]) \in receipts
    BY <1>4, <1>7, <1>11 DEF TokensBook
  <2>2. \A k \in DOMAIN leases' : receiptOf(k, leases'[k]) \in receipts
    BY <1>4, <1>7 DEF TokensBook
  <2>3. \A k \in DOMAIN released' : receiptOf(k, released'[k]) \in receipts
    BY <1>4, <1>7 DEF TokensBook
  <2>4. QED BY <1>3, <1>4, <2>1, <2>2, <2>3 DEF TokensBook, receiptOf
<1>13. \A a \in acks : a.outcome = "abandoned" => a.receipt.token # rc.token
  BY <1>3, <1>4 DEF AcksBook
<1>14. AcksBook'
  <2>1. \A a \in acks, n \in messages' : a.outcome = "completed" /\ n.key = a.receipt.key =>
          n.status = "completed" /\ settled'[n.key] = proofOf(a.receipt)
    <3>1. ASSUME NEW a \in acks, NEW n \in messages', a.outcome = "completed", n.key = a.receipt.key
          PROVE  n.status = "completed" /\ settled'[n.key] = proofOf(a.receipt)
      <4>1. n \in messages /\ n.key # m.key
        BY <1>5, <1>8, <3>1
      <4>2. n.status = "completed" /\ settled[n.key] = proofOf(a.receipt)
        BY <1>4, <3>1, <4>1 DEF AcksBook
      <4>3. n.key \in DOMAIN settled
        BY <1>4, <4>1, <4>2, MapFields DEF MapsBook, CompletedKey
      <4>4. QED BY <1>7, <4>1, <4>2, <4>3
    <3>2. QED BY <3>1
  <2>2. \A n \in messages' : n.key = ack.receipt.key => n.status = "completed" /\ settled'[n.key] = proof
    BY <1>3, <1>5, <1>6, <1>7, <1>8 DEF MessagesOK
  <2>3. \A a \in acks' : a.outcome = "abandoned" => a \in acks
    BY <1>3, <1>6
  <2>4. \A a \in acks : a.outcome = "abandoned" =>
          /\ \A k \in DOMAIN leases' : leases'[k].token # a.receipt.token
          /\ \A k \in DOMAIN settled' : settled'[k].token # a.receipt.token
    BY <1>4, <1>6, <1>7, <1>13 DEF AcksBook
  <2>5. \A a \in acks' : a.receipt \in receipts'
    BY <1>3, <1>4, <1>6 DEF AcksBook
  <2>6. proof = proofOf(ack.receipt)
    BY <1>2, <1>6
  <2>7. \A a \in acks', n \in messages' : a.outcome = "completed" /\ n.key = a.receipt.key =>
          n.status = "completed" /\ settled'[n.key] = proofOf(a.receipt)
    BY <1>3, <2>1, <2>2, <2>6
  <2>8. QED BY <2>3, <2>4, <2>5, <2>7 DEF AcksBook, proofOf
<1>15. OneSettlement'
  <2>1. ASSUME NEW a \in acks', NEW b \in acks', a.receipt.key = b.receipt.key, a.outcome = "completed"
        PROVE  /\ b.outcome = "completed" => a.receipt = b.receipt
               /\ b.outcome = "abandoned" => a.receipt # b.receipt
    <3>1. a \in acks => a.receipt.key # m.key
      BY <1>8, <2>1
    <3>2. CASE a = ack
      BY <1>3, <1>6, <1>8, <1>13, <2>1, <3>2
    <3>3. CASE a # ack
      BY <1>3, <1>4, <1>6, <2>1, <3>1, <3>3 DEF OneSettlement
    <3>4. QED BY <3>2, <3>3
  <2>2. QED BY <2>1 DEF OneSettlement
<1>16. RetirementDrains'
  <2>1. \A n \in messages' : n \in messages \/ n.recipient = m.recipient
    BY <1>5, <1>8
  <2>2. \A n \in messages : n.recipient # m.recipient /\ n.key \in DOMAIN leases => n.key \in DOMAIN leases'
    BY <1>7, <1>8
  <2>3. QED BY <1>3, <2>1, <2>2, OpenAuthority
<1>17. SettledKept
  BY <1>3, <1>7, <1>8 DEF SettledKept
<1>18. AttemptsKept
  <2>1. \A q \in receipts : CurrentProof(q)' => CurrentProof(q)
    BY <1>3, <1>6, <1>7 DEF CurrentProof
  <2>2. \A n \in messages' : \E x \in messages : x.key = n.key /\ x.attempt = n.attempt /\ x.attempt \in Nat
    BY <1>4, <1>5, <1>8, MapFields
  <2>3. QED BY <2>1, <2>2 DEF AttemptsKept
<1>19. QED BY <1>3, <1>8, <1>9, <1>10, <1>12, <1>14, <1>15, <1>16, <1>17, <1>18 DEF StepOK, MailboxInv

LEMMA CompleteAgainKeeps ==
  ASSUME MailboxInv, NEW rc \in receipts, NEW m \in messages, completeAgain(rc, m)
  PROVE  StepOK
<1>1. PICK ack : ack = [receipt |-> rc, outcome |-> "completed"]
  OBVIOUS
<1>2. /\ m.key = rc.key /\ m.status = "completed" /\ settled[m.key] = proofOf(rc)
      /\ acks' = acks \cup {ack}
      /\ UNCHANGED <<messages, leases, settled, released, retirements, nextMessageKey, receipts>>
  BY <1>1 DEF completeAgain, Ack
<1>3. MailboxTypeOK /\ MessagesOK /\ MapsBook /\ TokensBook /\ AcksBook /\ OneSettlement /\ FifoSettlement /\ RetirementDrains
  BY DEF MailboxInv
<1>4. ack.receipt = rc /\ ack.outcome = "completed" /\ ack \in [receipt: Receipt, outcome: {"completed", "abandoned"}]
  BY <1>1, <1>3 DEF MailboxTypeOK
<1>5. m.key \in DOMAIN settled /\ settled[m.key].token = rc.token
  <2>1. m.key \in DOMAIN settled
    BY <1>2, <1>3, MapFields DEF MapsBook, CompletedKey
  <2>2. QED BY <1>2, <2>1 DEF proofOf
<1>6. AcksBook'
  <2>1. \A n \in messages : n.key = rc.key => n = m
    BY <1>2, <1>3 DEF MessagesOK
  <2>2. \A a \in acks', n \in messages : a.outcome = "completed" /\ n.key = a.receipt.key =>
          n.status = "completed" /\ settled[n.key] = proofOf(a.receipt)
    BY <1>2, <1>3, <1>4, <2>1 DEF AcksBook
  <2>3. \A a \in acks' : a.outcome = "abandoned" => a \in acks
    BY <1>2, <1>4
  <2>4. QED BY <1>2, <1>3, <1>4, <2>2, <2>3 DEF AcksBook, proofOf
<1>7. OneSettlement'
  <2>1. ASSUME NEW b \in acks, b.receipt.key = rc.key
        PROVE  /\ b.outcome = "completed" => b.receipt = rc
               /\ b.outcome = "abandoned" => b.receipt # rc
    <3>1. b.outcome = "completed" => proofOf(b.receipt) = proofOf(rc)
      BY <1>2, <1>3, <2>1 DEF AcksBook
    <3>2. b.outcome = "completed" => b.receipt.token = rc.token
      BY <3>1 DEF proofOf
    <3>3. b.outcome = "completed" => b.receipt = rc
      BY <1>3, <3>2 DEF TokensBook, AcksBook
    <3>4. b.outcome = "abandoned" => b.receipt.token # rc.token
      BY <1>3, <1>5 DEF AcksBook
    <3>5. QED BY <3>3, <3>4
  <2>2. QED BY <1>2, <1>3, <1>4, <2>1 DEF OneSettlement
<1>8. MailboxTypeOK'
  BY <1>2, <1>3, <1>4 DEF MailboxTypeOK, Keys, Counters, Instants, Lease, Proof, Message, Receipt
<1>9. MessagesOK' /\ MapsBook' /\ TokensBook' /\ FifoSettlement'
  BY <1>2, <1>3 DEF MessagesOK, MapsBook, PendingKey, CompletedKey, TokensBook, receiptOf, FifoSettlement,
     Message, Keys, Counters, Instants
<1>10. RetirementDrains'
  BY <1>2, <1>3 DEF RetirementDrains, Pending, recipientMessages
<1>11. SettledKept
  BY <1>2 DEF SettledKept
<1>12. AttemptsKept
  <2>1. \A q \in receipts : CurrentProof(q)' => CurrentProof(q)
    BY <1>2 DEF CurrentProof
  <2>2. \A n \in messages : n.attempt \in Nat
    BY <1>3, MapFields
  <2>3. QED BY <1>2, <2>1, <2>2 DEF AttemptsKept
<1>13. QED BY <1>2, <1>6, <1>7, <1>8, <1>9, <1>10, <1>11, <1>12 DEF StepOK, MailboxInv

LEMMA AbandonAgainKeeps ==
  ASSUME MailboxInv, NEW rc \in receipts, NEW m \in messages, abandonAgain(rc, m)
  PROVE  StepOK
<1>1. PICK ack : ack = [receipt |-> rc, outcome |-> "abandoned"]
  OBVIOUS
<1>2. /\ m.key = rc.key /\ m.status = "pending" /\ m.key \notin DOMAIN leases
      /\ acks' = acks \cup {ack}
      /\ UNCHANGED <<messages, leases, settled, released, retirements, nextMessageKey, receipts>>
  BY <1>1 DEF abandonAgain, Ack
<1>3. MailboxTypeOK /\ MessagesOK /\ MapsBook /\ TokensBook /\ AcksBook /\ OneSettlement /\ FifoSettlement /\ RetirementDrains
  BY DEF MailboxInv
<1>4. ack.receipt = rc /\ ack.outcome = "abandoned" /\ ack \in [receipt: Receipt, outcome: {"completed", "abandoned"}]
  BY <1>1, <1>3 DEF MailboxTypeOK
<1>5. m.key \notin DOMAIN settled
  <2>1. ~CompletedKey(m.key)
    BY <1>2, <1>3 DEF MessagesOK, CompletedKey
  <2>2. QED BY <1>3, <2>1, MapFields DEF MapsBook
<1>6. AcksBook'
  <2>1. /\ \A k \in DOMAIN leases : leases[k].token # rc.token
        /\ \A k \in DOMAIN settled : settled[k].token # rc.token
    BY <1>2, <1>5, ProofsIdentify
  <2>2. \A a \in acks', n \in messages : a.outcome = "completed" /\ n.key = a.receipt.key =>
          n.status = "completed" /\ settled[n.key] = proofOf(a.receipt)
    BY <1>2, <1>3, <1>4 DEF AcksBook
  <2>3. QED BY <1>2, <1>3, <1>4, <2>1, <2>2 DEF AcksBook, proofOf
<1>7. OneSettlement'
  <2>1. \A a \in acks : a.outcome = "completed" => a.receipt.key # rc.key
    BY <1>2, <1>3 DEF AcksBook
  <2>2. QED BY <1>2, <1>3, <1>4, <2>1 DEF OneSettlement
<1>8. MailboxTypeOK'
  BY <1>2, <1>3, <1>4 DEF MailboxTypeOK, Keys, Counters, Instants, Lease, Proof, Message, Receipt
<1>9. MessagesOK' /\ MapsBook' /\ TokensBook' /\ FifoSettlement'
  BY <1>2, <1>3 DEF MessagesOK, MapsBook, PendingKey, CompletedKey, TokensBook, receiptOf, FifoSettlement,
     Message, Keys, Counters, Instants
<1>10. RetirementDrains'
  BY <1>2, <1>3 DEF RetirementDrains, Pending, recipientMessages
<1>11. SettledKept
  BY <1>2 DEF SettledKept
<1>12. AttemptsKept
  <2>1. \A q \in receipts : CurrentProof(q)' => CurrentProof(q)
    BY <1>2 DEF CurrentProof
  <2>2. \A n \in messages : n.attempt \in Nat
    BY <1>3, MapFields
  <2>3. QED BY <1>2, <2>1, <2>2 DEF AttemptsKept
<1>13. QED BY <1>2, <1>6, <1>7, <1>8, <1>9, <1>10, <1>11, <1>12 DEF StepOK, MailboxInv

LEMMA AbandonKeeps ==
  ASSUME MailboxInv, NEW rc \in receipts, NEW m \in messages, NEW now \in Instants, abandon(rc, m, now)
  PROVE  StepOK
<1>1. PICK c, st, t : /\ t = laterMailboxTimestamp(m.updatedAt, now) /\ st = "pending"
                      /\ c = nextForm(m, st, t)
  OBVIOUS
<1>2. PICK proof, ack : proof = proofOf(rc) /\ ack = [receipt |-> rc, outcome |-> "abandoned"]
  OBVIOUS
<1>3. /\ m.key = rc.key /\ m.recipient \notin DOMAIN retirements /\ m.status = "pending" /\ CanIncrement(m)
      /\ m.key \in DOMAIN leases /\ leases[m.key].token = rc.token
      /\ messages' = (messages \ {m}) \cup {c}
      /\ leases' = Without(leases, {m.key}) /\ UNCHANGED settled
      /\ released' = [k \in DOMAIN released \cup {m.key} |-> IF k = m.key THEN proof ELSE released[k]]
      /\ acks' = acks \cup {ack}
      /\ UNCHANGED <<retirements, nextMessageKey, receipts>>
  BY <1>1, <1>2 DEF abandon, assertAuthorityOpen, assertActiveLease, Replace, Ack, nextForm
<1>4. MailboxTypeOK /\ MessagesOK /\ MapsBook /\ TokensBook /\ AcksBook /\ OneSettlement
  BY DEF MailboxInv
<1>5. /\ c \in Message /\ c.key = m.key /\ c.recipient = m.recipient /\ c.attempt = m.attempt
      /\ c.status = "pending" /\ c.attempt < c.revision
  <2>1. t \in Instants
    BY <1>1, <1>4, MapFields, Numbers
  <2>2. st \in {"pending", "completed", "cancelled"}
    BY <1>1
  <2>3. /\ c \in Message /\ c.key = m.key /\ c.recipient = m.recipient /\ c.attempt = m.attempt
        /\ c.status = st /\ c.attempt < c.revision
    BY <1>1, <1>3, <2>1, <2>2, NextForm
  <2>4. QED BY <1>1, <2>3
<1>6. proof \in Proof /\ proof.token = rc.token /\ proof.owner = rc.owner /\ ack.receipt = rc /\ ack.outcome = "abandoned"
  BY <1>2, <1>4, MapFields DEF proofOf
<1>7. /\ DOMAIN leases' = DOMAIN leases \ {m.key} /\ \A k \in DOMAIN leases' : leases'[k] = leases[k]
      /\ DOMAIN released' = DOMAIN released \cup {m.key} /\ released'[m.key] = proof
      /\ \A k \in DOMAIN released : k # m.key => released'[k] = released[k]
      /\ settled' = settled
  BY <1>3 DEF Without, Restrict
<1>8. /\ MessagesOK' /\ FifoSettlement'
      /\ \A n \in messages' : n = c \/ n \in messages
      /\ \A n \in messages : n # m => n \in messages' /\ n.key # m.key
      /\ \A k : PendingKey(k)' <=> (PendingKey(k) /\ k # m.key) \/ (k = m.key /\ c.status = "pending")
      /\ \A k : CompletedKey(k)' <=> CompletedKey(k) \/ (k = m.key /\ c.status = "completed")
      /\ m.key \notin DOMAIN settled
      /\ \A a \in acks : a.outcome = "completed" => a.receipt.key # m.key
  BY <1>3, <1>5, OneReplaced
<1>9. MailboxTypeOK'
  <2>1. leases' \in [DOMAIN leases' -> Lease] /\ DOMAIN leases' \subseteq Keys
    BY <1>3, <1>4, WithoutTyped DEF MailboxTypeOK
  <2>2. released' \in [DOMAIN released' -> Proof] /\ DOMAIN released' \subseteq Keys
    BY <1>3, <1>4, <1>6, MapFields DEF MailboxTypeOK
  <2>3. messages' \subseteq Message /\ nextMessageKey' \in 1 .. MaxKey + 1
    BY <1>3, <1>4, <1>5 DEF MailboxTypeOK
  <2>4. acks' \subseteq [receipt: Receipt, outcome: {"completed", "abandoned"}]
    BY <1>2, <1>3, <1>4 DEF MailboxTypeOK
  <2>5. QED BY <1>3, <1>4, <2>1, <2>2, <2>3, <2>4 DEF MailboxTypeOK, Keys, Counters, Instants, Lease, Proof, Message, Receipt
<1>10. MapsBook'
  <2>1. \A k : PendingKey(k) => PendingKey(k)'
    BY <1>5, <1>8
  <2>2. PendingKey(m.key)
    BY <1>3 DEF PendingKey
  <2>3. \A k \in Keys : k \in DOMAIN settled' <=> CompletedKey(k)'
    BY <1>4, <1>5, <1>7, <1>8 DEF MapsBook
  <2>4. \A k \in DOMAIN leases' : PendingKey(k)'
    BY <1>4, <1>7, <2>1 DEF MapsBook
  <2>5. \A k \in DOMAIN released' : PendingKey(k)' /\ k \notin DOMAIN leases'
    BY <1>4, <1>7, <2>1, <2>2 DEF MapsBook
  <2>6. QED BY <2>3, <2>4, <2>5 DEF MapsBook, Keys
<1>11. receiptOf(m.key, proof) = rc
  BY <1>3, <1>4, <1>6, MapFields DEF receiptOf, MailboxTypeOK, Receipt
<1>12. TokensBook'
  <2>1. \A k \in DOMAIN settled' : receiptOf(k, settled'[k]) \in receipts
    BY <1>4, <1>7, <1>11 DEF TokensBook
  <2>2. \A k \in DOMAIN leases' : receiptOf(k, leases'[k]) \in receipts
    BY <1>4, <1>7 DEF TokensBook
  <2>3. \A k \in DOMAIN released' : receiptOf(k, released'[k]) \in receipts
    BY <1>4, <1>7, <1>11 DEF TokensBook
  <2>4. QED BY <1>3, <1>4, <2>1, <2>2, <2>3 DEF TokensBook, receiptOf
<1>13. /\ \A k \in DOMAIN leases' : leases'[k].token # rc.token
       /\ \A k \in DOMAIN settled : settled[k].token # rc.token
  <2>1. /\ \A k \in DOMAIN leases : leases[k].token = rc.token => k = m.key
        /\ \A k \in DOMAIN settled : settled[k].token = rc.token => k = m.key
    BY <1>3, ProofsIdentify
  <2>2. \A k \in DOMAIN leases' : k \in DOMAIN leases /\ k # m.key /\ leases'[k] = leases[k]
    BY <1>7
  <2>3. m.key \notin DOMAIN settled
    BY <1>8
  <2>4. QED BY <2>1, <2>2, <2>3
<1>14. AcksBook'
  <2>1. \A a \in acks', n \in messages' : a.outcome = "completed" /\ n.key = a.receipt.key =>
          n.status = "completed" /\ settled'[n.key] = proofOf(a.receipt)
    BY <1>3, <1>4, <1>5, <1>6, <1>7, <1>8 DEF AcksBook
  <2>2. \A a \in acks' : a.outcome = "completed" => a \in acks
    BY <1>3, <1>6
  <2>3. \A a \in acks : a.outcome = "abandoned" =>
          /\ \A k \in DOMAIN leases' : leases'[k].token # a.receipt.token
          /\ \A k \in DOMAIN settled' : settled'[k].token # a.receipt.token
    BY <1>4, <1>7 DEF AcksBook
  <2>4. \A a \in acks' : a.outcome = "abandoned" =>
          /\ \A k \in DOMAIN leases' : leases'[k].token # a.receipt.token
          /\ \A k \in DOMAIN settled' : settled'[k].token # a.receipt.token
    <3> SUFFICES ASSUME NEW a \in acks', a.outcome = "abandoned"
                 PROVE  /\ \A k \in DOMAIN leases' : leases'[k].token # a.receipt.token
                        /\ \A k \in DOMAIN settled' : settled'[k].token # a.receipt.token
      OBVIOUS
    <3>1. CASE a \in acks
      BY <2>3, <3>1
    <3>2. CASE a = ack
      BY <1>6, <1>7, <1>13, <3>2
    <3>3. QED BY <1>3, <3>1, <3>2
  <2>5. \A a \in acks' : a.receipt \in receipts'
    BY <1>3, <1>4, <1>6 DEF AcksBook
  <2>6. QED BY <2>1, <2>2, <2>4, <2>5 DEF AcksBook, proofOf
<1>15. OneSettlement'
  BY <1>3, <1>4, <1>6, <1>8 DEF OneSettlement
<1>16. RetirementDrains'
  <2>1. \A n \in messages' : n \in messages \/ n.recipient = m.recipient
    BY <1>5, <1>8
  <2>2. \A n \in messages : n.recipient # m.recipient /\ n.key \in DOMAIN leases => n.key \in DOMAIN leases'
    BY <1>7, <1>8
  <2>3. QED BY <1>3, <2>1, <2>2, OpenAuthority
<1>17. SettledKept
  BY <1>3, <1>7, <1>8 DEF SettledKept
<1>18. AttemptsKept
  <2>1. \A q \in receipts : CurrentProof(q)' => CurrentProof(q)
    BY <1>3, <1>6, <1>7 DEF CurrentProof
  <2>2. \A n \in messages' : \E x \in messages : x.key = n.key /\ x.attempt = n.attempt /\ x.attempt \in Nat
    BY <1>4, <1>5, <1>8, MapFields
  <2>3. QED BY <2>1, <2>2 DEF AttemptsKept
<1>19. QED BY <1>3, <1>8, <1>9, <1>10, <1>12, <1>14, <1>15, <1>16, <1>17, <1>18 DEF StepOK, MailboxInv

LEMMA EnqueueKeeps ==
  ASSUME MailboxInv, NEW r \in Recipients, NEW i \in Ids, NEW t \in Instants, enqueue(r, i, t)
  PROVE  StepOK
<1>1. PICK m : m = [recipient |-> r, id |-> i, recordedAt |-> t, key |-> nextMessageKey,
                    status |-> "pending", revision |-> 1, attempt |-> 0, updatedAt |-> t]
  OBVIOUS
<1>2. /\ r \notin DOMAIN retirements /\ nextMessageKey <= MaxKey
      /\ messages' = messages \cup {m} /\ nextMessageKey' = nextMessageKey + 1
      /\ UNCHANGED <<leases, settled, released, retirements, receipts, acks>>
  BY <1>1 DEF enqueue, assertAuthorityOpen
<1>3. MailboxTypeOK /\ MessagesOK /\ MapsBook /\ TokensBook /\ AcksBook /\ OneSettlement /\ FifoSettlement
  BY DEF MailboxInv
<1>4. nextMessageKey \in Nat /\ nextMessageKey \in Keys /\ nextMessageKey' \in 1 .. MaxKey + 1 /\ 1 \in Counters /\ 0 \in Counters
  BY <1>2, <1>3, Numbers DEF MessagesOK, Keys, Counters
<1>5. /\ m \in Message /\ m.key = nextMessageKey /\ m.status = "pending" /\ m.recipient = r
      /\ m.attempt = 0 /\ m.revision = 1
  BY <1>1, <1>4 DEF Message
<1>6. /\ \A n \in messages : n.key < m.key /\ n.key # m.key /\ n.key \in Nat
      /\ \A n \in messages' : n = m \/ n \in messages
  BY <1>2, <1>3, <1>4, <1>5, MapFields DEF MessagesOK
<1>7. MessagesOK'
  <2>1. \A n \in messages' : n.key < nextMessageKey' /\ n.attempt < n.revision
    BY <1>2, <1>3, <1>4, <1>5, <1>6 DEF MessagesOK
  <2>2. \A n, e \in messages' : n.key = e.key => n = e
    BY <1>2, <1>3, <1>6 DEF MessagesOK
  <2>3. messages' \subseteq Message
    BY <1>2, <1>3, <1>5 DEF MailboxTypeOK
  <2>4. QED BY <1>4, <2>1, <2>2, <2>3 DEF MessagesOK, Message, Keys, Counters, Instants
<1>8. MailboxTypeOK'
  BY <1>2, <1>3, <1>4, <1>5 DEF MailboxTypeOK, Keys, Counters, Instants, Lease, Proof, Message, Receipt
<1>9. MapsBook'
  <2>1. \A k : PendingKey(k) => PendingKey(k)'
    BY <1>2 DEF PendingKey
  <2>2. \A k : CompletedKey(k)' <=> CompletedKey(k)
    BY <1>2, <1>5 DEF CompletedKey
  <2>3. \A k \in Keys : k \in DOMAIN settled' <=> CompletedKey(k)'
    BY <1>2, <1>3, <2>2 DEF MapsBook
  <2>4. QED BY <1>2, <1>3, <2>1, <2>3 DEF MapsBook, Keys
<1>10. \A rc \in receipts : rc.key < nextMessageKey /\ rc.key \in Nat /\ rc.key # m.key
  <2>1. \A rc \in receipts : rc.key < nextMessageKey
    BY <1>3 DEF TokensBook
  <2>2. \A rc \in receipts : rc.key \in Nat
    BY <1>3, MapFields, Numbers
  <2>3. QED BY <1>4, <1>5, <2>1, <2>2
<1>11. TokensBook'
  <2>1. \A rc \in receipts : rc.key < nextMessageKey'
    BY <1>2, <1>4, <1>10
  <2>2. QED BY <1>2, <1>3, <2>1 DEF TokensBook, receiptOf
<1>12. AcksBook'
  <2>1. \A a \in acks : a.receipt.key # m.key
    BY <1>3, <1>10 DEF AcksBook
  <2>2. QED BY <1>2, <1>3, <1>6, <2>1 DEF AcksBook, proofOf
<1>13. FifoSettlement'
  <2>1. ASSUME NEW n \in messages', NEW e \in messages', n.status = "completed", e.recipient = n.recipient, e.key < n.key
        PROVE  e.status # "pending"
    <3>1. n \in messages
      BY <1>5, <1>6, <2>1
    <3>2. e # m
      BY <1>4, <1>5, <1>6, <2>1, <3>1
    <3>3. QED BY <1>3, <1>6, <2>1, <3>1, <3>2 DEF FifoSettlement
  <2>2. QED BY <2>1 DEF FifoSettlement
<1>14. OneSettlement'
  BY <1>2, <1>3 DEF OneSettlement
<1>15. RetirementDrains'
  BY <1>2, <1>5, <1>6, OpenAuthority
<1>16. SettledKept
  BY <1>2 DEF SettledKept
<1>17. AttemptsKept
  <2>1. \A q \in receipts : CurrentProof(q)' => CurrentProof(q)
    BY <1>2 DEF CurrentProof
  <2>2. \A n \in messages : n.attempt \in Nat
    BY <1>3, MapFields
  <2>3. QED BY <1>5, <1>6, <1>10, <2>1, <2>2 DEF AttemptsKept
<1>18. QED BY <1>2, <1>7, <1>8, <1>9, <1>11, <1>12, <1>13, <1>14, <1>15, <1>16, <1>17 DEF StepOK, MailboxInv

LEMMA PurgeKeeps ==
  ASSUME MailboxInv, NEW r \in Recipients, NEW t \in Instants, NEW n \in 1 .. MaxKey, purgeTerminal(r, t, n)
  PROVE  StepOK
<1>1. PICK S : S = purgeable(r, t, n)
  OBVIOUS
<1>2. S \subseteq messages /\ \A m \in S : m.status # "pending"
  BY <1>1 DEF purgeable, recipientMessages
<1>3. PICK K : K = keysOf(S)
  OBVIOUS
<1>4. /\ messages' = messages \ S
      /\ leases' = Without(leases, K) /\ settled' = Without(settled, K) /\ released' = Without(released, K)
      /\ UNCHANGED <<retirements, nextMessageKey, receipts, acks>>
  BY <1>1, <1>3 DEF purgeTerminal
<1>5. /\ DOMAIN leases' = DOMAIN leases \ K /\ \A k \in DOMAIN leases' : leases'[k] = leases[k]
      /\ DOMAIN settled' = DOMAIN settled \ K /\ \A k \in DOMAIN settled' : settled'[k] = settled[k]
      /\ DOMAIN released' = DOMAIN released \ K /\ \A k \in DOMAIN released' : released'[k] = released[k]
  BY <1>4 DEF Without, Restrict
<1>6. MailboxTypeOK /\ MessagesOK /\ MapsBook /\ TokensBook /\ AcksBook /\ OneSettlement /\ FifoSettlement
  BY DEF MailboxInv
<1>7. \A k : k \in K <=> \E m \in S : m.key = k
  BY <1>3 DEF keysOf
<1>8. \A m \in messages : m.key \in K <=> m \in S
  BY <1>2, <1>6, <1>7 DEF MessagesOK
<1>9. MailboxTypeOK'
  <2>1. /\ leases' \in [DOMAIN leases' -> Lease] /\ DOMAIN leases' \subseteq Keys
        /\ released' \in [DOMAIN released' -> Proof] /\ DOMAIN released' \subseteq Keys
        /\ settled' \in [DOMAIN settled' -> Proof] /\ DOMAIN settled' \subseteq Keys
    BY <1>4, <1>6, WithoutTyped DEF MailboxTypeOK
  <2>2. QED BY <1>4, <1>6, <2>1 DEF MailboxTypeOK, Keys, Counters, Instants, Lease, Proof, Message, Receipt
<1>10. MessagesOK'
  BY <1>4, <1>6 DEF MessagesOK, Message, Keys, Counters, Instants
<1>11. MapsBook'
  <2>1. \A k : PendingKey(k) => PendingKey(k)' /\ k \notin K
    BY <1>4, <1>6, <1>7, <1>2 DEF PendingKey, MessagesOK
  <2>2. \A k : CompletedKey(k)' <=> CompletedKey(k) /\ k \notin K
    BY <1>4, <1>8 DEF CompletedKey
  <2>3. \A k \in Keys : k \in DOMAIN settled' <=> CompletedKey(k)'
    BY <1>5, <1>6, <2>2 DEF MapsBook
  <2>4. QED BY <1>5, <1>6, <2>1, <2>3 DEF MapsBook, Keys
<1>12. TokensBook'
  BY <1>4, <1>5, <1>6 DEF TokensBook, receiptOf
<1>13. AcksBook'
  <2>1. ASSUME NEW a \in acks, NEW m \in messages', a.outcome = "completed", m.key = a.receipt.key
        PROVE  m.status = "completed" /\ settled'[m.key] = proofOf(a.receipt)
    <3>1. m \in messages /\ m.key \notin K
      BY <1>4, <1>8, <2>1
    <3>2. m.status = "completed" /\ settled[m.key] = proofOf(a.receipt)
      BY <1>6, <2>1, <3>1 DEF AcksBook
    <3>3. m.key \in DOMAIN settled
      BY <1>6, <3>1, <3>2, MapFields DEF MapsBook, CompletedKey
    <3>4. QED BY <1>5, <3>1, <3>2, <3>3
  <2>2. QED BY <1>4, <1>5, <1>6, <2>1 DEF AcksBook, proofOf
<1>14. FifoSettlement'
  BY <1>4, <1>6 DEF FifoSettlement
<1>15. OneSettlement'
  BY <1>4, <1>6 DEF OneSettlement
<1>16. RetirementDrains'
  <2>1. ASSUME NEW x \in DOMAIN retirements, NEW m \in messages', m.status = "pending", m.recipient = x
        PROVE  retirements[x].phase = "fenced" /\ m.key \in DOMAIN leases'
    <3>1. m \in messages /\ m.key \notin K
      BY <1>4, <1>8, <2>1
    <3>2. retirements[x].phase = "fenced" /\ m.key \in DOMAIN leases
      BY <2>1, <3>1 DEF MailboxInv, RetirementDrains, Pending, recipientMessages
    <3>3. QED BY <1>5, <3>1, <3>2
  <2>2. QED BY <1>4, <2>1 DEF RetirementDrains, Pending, recipientMessages
<1>17. SettledKept
  <2>1. \A m \in messages : m \in S => m.key \notin keysOf(messages')
    BY <1>4, <1>8, <1>7 DEF keysOf
  <2>2. \A m \in messages : m \notin S => m.key \notin K
    BY <1>8
  <2>3. QED BY <1>4, <1>5, <2>1, <2>2 DEF SettledKept
<1>18. AttemptsKept
  <2>1. \A q \in receipts : CurrentProof(q)' => CurrentProof(q)
    BY <1>5 DEF CurrentProof
  <2>2. \A m \in messages : m.attempt \in Nat
    BY <1>6, MapFields
  <2>3. QED BY <1>4, <2>1, <2>2 DEF AttemptsKept
<1>19. QED BY <1>4, <1>9, <1>10, <1>11, <1>12, <1>13, <1>14, <1>15, <1>16, <1>17, <1>18 DEF StepOK, MailboxInv

\* The form in which a claim leaves a message it takes.
claimedForm(m, now) == [m EXCEPT !.revision = @ + 1, !.attempt = @ + 1, !.updatedAt = now]

LEMMA ClaimedForm ==
  ASSUME MailboxInv, NEW m \in messages, CanIncrement(m), NEW now \in Instants
  PROVE  /\ claimedForm(m, now) \in Message /\ claimedForm(m, now).key = m.key
         /\ claimedForm(m, now).recipient = m.recipient /\ claimedForm(m, now).attempt = m.attempt + 1
         /\ claimedForm(m, now).status = m.status /\ claimedForm(m, now).attempt < claimedForm(m, now).revision
<1>1. /\ m \in Message /\ m.revision \in Counters /\ m.revision \in Nat /\ m.attempt \in Nat
      /\ m.attempt < m.revision
  BY MapFields DEF MailboxInv, MessagesOK
<1>2. m.revision + 1 \in Counters /\ m.attempt + 1 \in Counters
  BY <1>1, Numbers DEF Counters, CanIncrement
<1>3. PICK c : c = claimedForm(m, now)
  OBVIOUS
<1>4. /\ c \in Message /\ c.key = m.key /\ c.recipient = m.recipient /\ c.attempt = m.attempt + 1
      /\ c.revision = m.revision + 1 /\ c.status = m.status
  BY <1>1, <1>2, <1>3 DEF Message, claimedForm
<1>5. c.attempt < c.revision
  BY <1>1, <1>4
<1>6. QED BY <1>3, <1>4, <1>5

LEMMA ClaimKeeps ==
  ASSUME MailboxInv, NEW r \in Recipients, NEW o \in Owners, NEW now \in Instants, NEW exp \in Instants,
         NEW limit \in Int, claim(r, o, now, exp, limit)
  PROVE  StepOK
<1>1. PICK S : S = claimable(r, now, limit)
  OBVIOUS
<1>2. S \in SUBSET messages /\ \A m \in S : m.status = "pending" /\ m.recipient = r
  BY <1>1 DEF claimable, Pending, recipientMessages
<1>3. PICK K : K = keysOf(S)
  OBVIOUS
<1>4. PICK token \in [K -> Tokens \ {rc.token : rc \in receipts}] :
        /\ IsInjective(token)
        /\ messages' = Replace(S, {claimedForm(m, now) : m \in S})
        /\ leases' = [k \in DOMAIN leases \cup DOMAIN token |->
                        IF k \in DOMAIN token
                        THEN [token |-> token[k], owner |-> o, expiresAt |-> exp]
                        ELSE leases[k]]
        /\ released' = Without(released, DOMAIN token)
        /\ receipts' = receipts \cup {[key |-> k, token |-> token[k], owner |-> o] : k \in DOMAIN token}
  BY <1>1, <1>3 DEF claim, claimedForm
<1>5. /\ r \notin DOMAIN retirements /\ \A m \in S : CanIncrement(m)
      /\ UNCHANGED <<settled, retirements, nextMessageKey, acks>>
  BY <1>1 DEF claim, assertAuthorityOpen
<1>6. PICK g : g = [m \in S |-> claimedForm(m, now)]
  OBVIOUS
<1>7. PICK l : l = [k \in K |-> [token |-> token[k], owner |-> o, expiresAt |-> exp]]
  OBVIOUS
<1>8. PICK h : h = [k \in K |-> [key |-> k, token |-> token[k], owner |-> o]]
  OBVIOUS
<1>9. MailboxTypeOK /\ MessagesOK /\ MapsBook /\ TokensBook /\ AcksBook /\ OneSettlement /\ FifoSettlement
  BY DEF MailboxInv
<1>10. /\ \A k : k \in K <=> \E m \in S : m.key = k
       /\ \A m \in messages : m.key \in K <=> m \in S
       /\ \A k \in K : k \in Keys /\ PendingKey(k) /\ k \notin DOMAIN settled
  <2>1. \A k : k \in K <=> \E m \in S : m.key = k
    BY <1>3 DEF keysOf
  <2>2. \A m \in messages : m.key \in K <=> m \in S
    BY <1>2, <1>9, <2>1 DEF MessagesOK
  <2>3. \A k \in K : k \in Keys /\ PendingKey(k) /\ ~CompletedKey(k)
    BY <1>2, <1>9, <2>1, MapFields DEF PendingKey, CompletedKey, MessagesOK
  <2>4. QED BY <1>9, <2>1, <2>2, <2>3 DEF MapsBook
<1>11. /\ \A k \in K : token[k] \in Tokens /\ \A rc \in receipts : rc.token # token[k]
       /\ \A j, k \in K : token[j] = token[k] => j = k
  <2>1. \A k \in K : token[k] \in Tokens /\ token[k] \notin {rc.token : rc \in receipts}
    BY <1>4
  <2>2. \A j, k \in K : token[j] = token[k] => j = k
    BY <1>4 DEF IsInjective
  <2>3. QED BY <2>1, <2>2
<1>12. /\ \A m \in S : /\ g[m] \in Message /\ g[m].key = m.key /\ g[m].recipient = m.recipient
                       /\ g[m].attempt = m.attempt + 1 /\ g[m].status = "pending"
                       /\ g[m].attempt < g[m].revision
       /\ \A n : n \in messages' <=> (n \in messages /\ n \notin S) \/ \E m \in S : n = g[m]
  <2>1. \A m \in S : /\ g[m] \in Message /\ g[m].key = m.key /\ g[m].recipient = m.recipient
                     /\ g[m].attempt = m.attempt + 1 /\ g[m].status = "pending"
                     /\ g[m].attempt < g[m].revision
    BY <1>2, <1>5, <1>6, ClaimedForm
  <2>2. messages' = (messages \ S) \cup {claimedForm(m, now) : m \in S}
    BY <1>4 DEF Replace
  <2>3. \A n : n \in messages' <=> (n \in messages /\ n \notin S) \/ \E m \in S : n = claimedForm(m, now)
    BY <2>2
  <2>4. QED BY <1>6, <2>1, <2>3
<1>13. /\ DOMAIN leases' = DOMAIN leases \cup K
       /\ \A k \in K : leases'[k] = l[k]
       /\ \A k \in DOMAIN leases : k \notin K => leases'[k] = leases[k]
       /\ \A k \in K : l[k] \in Lease /\ l[k].token = token[k] /\ l[k].owner = o
  BY <1>4, <1>7, <1>11 DEF Lease
<1>14. /\ DOMAIN released' = DOMAIN released \ K
       /\ \A k \in DOMAIN released' : released'[k] = released[k]
  BY <1>4 DEF Without, Restrict
<1>15. /\ \A k \in K : h[k] \in Receipt /\ h[k].key = k /\ h[k].token = token[k] /\ h[k].owner = o
       /\ \A q : q \in receipts' <=> q \in receipts \/ \E k \in K : q = h[k]
  <2>1. \A k \in K : h[k] \in Receipt /\ h[k].key = k /\ h[k].token = token[k] /\ h[k].owner = o
    BY <1>8, <1>10, <1>11 DEF Receipt
  <2>2. receipts' = receipts \cup {[key |-> k, token |-> token[k], owner |-> o] : k \in K}
    BY <1>4
  <2>3. QED BY <1>8, <2>1, <2>2
<1>16. MessagesOK'
  <2>1. \A m \in S : /\ g[m] \in Message /\ g[m].key = m.key /\ g[m].recipient = m.recipient
                     /\ g[m].attempt < g[m].revision
    BY <1>12
  <2>2. QED BY <1>2, <1>5, <1>9, <1>12, <2>1, Replacing
<1>17. FifoSettlement'
  <2>1. \A m \in S : /\ m.status = "pending" /\ g[m].key = m.key /\ g[m].recipient = m.recipient
                     /\ (g[m].status = "completed" => ~hasEarlierPending(m))
    BY <1>2, <1>12
  <2>2. QED BY <1>2, <1>9, <1>12, <2>1, FifoKept
<1>18. MailboxTypeOK'
  <2>1. leases' \in [DOMAIN leases' -> Lease] /\ DOMAIN leases' \subseteq Keys
    <3>1. \A k \in DOMAIN leases' : leases'[k] \in Lease /\ k \in Keys
      BY <1>9, <1>10, <1>13, MapFields
    <3>2. leases' = [k \in DOMAIN leases' |-> leases'[k]]
      BY <1>4
    <3>3. QED BY <3>1, <3>2
  <2>2. released' \in [DOMAIN released' -> Proof] /\ DOMAIN released' \subseteq Keys
    BY <1>4, <1>9, WithoutTyped DEF MailboxTypeOK
  <2>3. receipts' \subseteq Receipt
    BY <1>9, <1>15 DEF MailboxTypeOK
  <2>4. messages' \subseteq Message /\ nextMessageKey' \in 1 .. MaxKey + 1
    BY <1>5, <1>9, <1>12 DEF MailboxTypeOK
  <2>5. QED BY <1>5, <1>9, <2>1, <2>2, <2>3, <2>4 DEF MailboxTypeOK, Keys, Counters, Instants, Lease, Proof, Message, Receipt
<1>19. MapsBook'
  <2>1. \A k : PendingKey(k) => PendingKey(k)'
    <3>1. ASSUME NEW k, NEW m \in messages, m.status = "pending", m.key = k
          PROVE  \E n \in messages' : n.status = "pending" /\ n.key = k
      <4>1. CASE m \in S
        BY <1>12, <3>1, <4>1
      <4>2. CASE m \notin S
        BY <1>12, <3>1, <4>2
      <4>3. QED BY <4>1, <4>2
    <3>2. QED BY <3>1 DEF PendingKey
  <2>2. \A n : n \in messages' /\ n.status = "completed" <=> n \in messages /\ n.status = "completed"
    BY <1>2, <1>12
  <2>3. \A k : CompletedKey(k)' <=> CompletedKey(k)
    BY <2>2 DEF CompletedKey
  <2>4. \A k \in Keys : k \in DOMAIN settled' <=> CompletedKey(k)'
    BY <1>5, <1>9, <2>3 DEF MapsBook
  <2>5. \A k \in DOMAIN leases' : PendingKey(k)'
    BY <1>9, <1>10, <1>13, <2>1 DEF MapsBook
  <2>6. \A k \in DOMAIN released' : PendingKey(k)' /\ k \notin DOMAIN leases'
    BY <1>9, <1>13, <1>14, <2>1 DEF MapsBook
  <2>7. QED BY <2>4, <2>5, <2>6 DEF MapsBook, Keys
<1>20. TokensBook'
  <2>1. \A q \in receipts' : q.key < nextMessageKey'
    <3>1. \A k \in K : k < nextMessageKey
      BY <1>2, <1>9, <1>10 DEF MessagesOK
    <3>2. QED BY <1>5, <1>9, <1>15, <3>1 DEF TokensBook
  <2>2. \A q, p \in receipts' : q.token = p.token => q = p
    <3>1. \A q, p \in receipts : q.token = p.token => q = p
      BY <1>9 DEF TokensBook
    <3>2. \A k \in K, q \in receipts : q.token # h[k].token
      BY <1>11, <1>15
    <3>3. \A j, k \in K : h[j].token = h[k].token => h[j] = h[k]
      BY <1>11, <1>15
    <3>4. QED BY <1>15, <3>1, <3>2, <3>3
  <2>3. \A k \in K : receiptOf(k, l[k]) = h[k]
    BY <1>8, <1>13 DEF receiptOf
  <2>4. \A k \in DOMAIN leases' : receiptOf(k, leases'[k]) \in receipts'
    BY <1>9, <1>13, <1>15, <2>3 DEF TokensBook
  <2>5. \A k \in DOMAIN settled' : receiptOf(k, settled'[k]) \in receipts'
    BY <1>5, <1>9, <1>15 DEF TokensBook
  <2>6. \A k \in DOMAIN released' : receiptOf(k, released'[k]) \in receipts'
    BY <1>9, <1>14, <1>15 DEF TokensBook
  <2>7. QED BY <2>1, <2>2, <2>4, <2>5, <2>6 DEF TokensBook, receiptOf
<1>21. AcksBook'
  <2>1. \A a \in acks : a.receipt \in receipts
    BY <1>9 DEF AcksBook
  <2>2. ASSUME NEW a \in acks, NEW n \in messages', a.outcome = "completed", n.key = a.receipt.key
        PROVE  n.status = "completed" /\ settled[n.key] = proofOf(a.receipt)
    <3>1. ASSUME NEW m \in S, n = g[m]
          PROVE  FALSE
      <4>1. m \in messages /\ m.key = a.receipt.key /\ m.status = "pending"
        BY <1>2, <1>12, <2>2, <3>1
      <4>2. QED BY <1>9, <2>2, <4>1 DEF AcksBook
    <3>2. n \in messages
      BY <1>12, <3>1
    <3>3. QED BY <1>9, <2>2, <3>2 DEF AcksBook
  <2>3. \A a \in acks : a.outcome = "abandoned" =>
          /\ \A k \in DOMAIN leases' : leases'[k].token # a.receipt.token
          /\ \A k \in DOMAIN settled' : settled'[k].token # a.receipt.token
    BY <1>5, <1>9, <1>11, <1>13, <2>1 DEF AcksBook
  <2>4. \A a \in acks' : a.receipt \in receipts'
    BY <1>5, <1>15, <2>1
  <2>5. QED BY <1>5, <2>2, <2>3, <2>4 DEF AcksBook, proofOf
<1>22. OneSettlement'
  BY <1>5, <1>9 DEF OneSettlement
<1>23. RetirementDrains'
  <2>1. \A n \in messages' : n \in messages \/ n.recipient = r
    BY <1>2, <1>12
  <2>2. QED BY <1>5, <1>13, <2>1, OpenAuthority
<1>24. SettledKept
  BY <1>2, <1>5, <1>12 DEF SettledKept
<1>25. AttemptsKept
  <2>1. ASSUME NEW q \in receipts, NEW n \in messages', n.key = q.key
        PROVE  \E m \in messages : /\ m.key = n.key /\ m.attempt <= n.attempt
                                   /\ (CurrentProof(q)' => CurrentProof(q) /\ n.attempt = m.attempt)
    <3>1. CASE n \in messages /\ n \notin S
      <4>1. n.key \notin K /\ n.attempt \in Nat
        BY <1>9, <1>10, <3>1, MapFields
      <4>2. CurrentProof(q)' => CurrentProof(q)
        BY <1>5, <1>13, <1>14, <2>1, <4>1 DEF CurrentProof
      <4>3. QED BY <3>1, <4>1, <4>2
    <3>2. ASSUME NEW m \in S, n = g[m]
          PROVE  \E x \in messages : /\ x.key = n.key /\ x.attempt <= n.attempt
                                     /\ (CurrentProof(q)' => CurrentProof(q) /\ n.attempt = x.attempt)
      <4>1. /\ m \in messages /\ m.key = n.key /\ n.attempt = m.attempt + 1 /\ m.attempt \in Nat
            /\ q.key \in K
        BY <1>2, <1>9, <1>10, <1>12, <2>1, <3>2, MapFields
      <4>2. ~CurrentProof(q)'
        BY <1>5, <1>10, <1>11, <1>13, <1>14, <4>1 DEF CurrentProof
      <4>3. QED BY <4>1, <4>2
    <3>3. QED BY <1>12, <3>1, <3>2
  <2>2. QED BY <2>1 DEF AttemptsKept
<1>26. receipts \subseteq receipts'
  BY <1>15
<1>27. QED BY <1>16, <1>17, <1>18, <1>19, <1>20, <1>21, <1>22, <1>23, <1>24, <1>25, <1>26 DEF StepOK, MailboxInv

LEMMA InitHolds == MailboxInit => MailboxInv
<1>1. SUFFICES ASSUME MailboxInit PROVE MailboxInv
  OBVIOUS
<1>2. /\ messages = {} /\ receipts = {} /\ acks = {} /\ nextMessageKey = 1
      /\ DOMAIN leases = {} /\ DOMAIN settled = {} /\ DOMAIN released = {} /\ DOMAIN retirements = {}
      /\ leases \in [{} -> Lease] /\ settled \in [{} -> Proof] /\ released \in [{} -> Proof]
      /\ retirements \in [{} -> [id: RetirementIds, at: Instants, phase: {"fenced", "finalized"}]]
  BY <1>1 DEF MailboxInit
<1>3. 1 \in 1 .. MaxKey + 1
  BY Numbers
<1>4. MailboxTypeOK
  BY <1>2, <1>3 DEF MailboxTypeOK
<1>5. MessagesOK /\ FifoSettlement
  BY <1>2, <1>3 DEF MessagesOK, FifoSettlement
<1>6. MapsBook
  BY <1>2 DEF MapsBook, CompletedKey
<1>7. TokensBook /\ AcksBook /\ OneSettlement /\ RetirementDrains
  BY <1>2 DEF TokensBook, AcksBook, OneSettlement, RetirementDrains
<1>8. QED BY <1>4, <1>5, <1>6, <1>7 DEF MailboxInv

LEMMA NextKeeps == MailboxInv /\ MailboxNext => StepOK
<1>1. SUFFICES ASSUME MailboxInv, MailboxNext PROVE StepOK
  OBVIOUS
<1>2. ASSUME NEW r \in Recipients, NEW i \in Ids, NEW t \in Instants, enqueue(r, i, t) PROVE StepOK
  BY <1>1, <1>2, EnqueueKeeps
<1>3. ASSUME NEW r \in Recipients, NEW o \in Owners, NEW now \in Instants, NEW exp \in Instants, NEW n \in 1 .. MaxClaim,
             claim(r, o, now, exp, n)
      PROVE  StepOK
  <2>1. n \in Int
    BY Numbers
  <2>2. QED BY <1>1, <1>3, <2>1, ClaimKeeps
<1>4. ASSUME NEW rc \in receipts, NEW m \in messages, NEW now \in Instants, NEW exp \in Instants, renew(rc, m, now, exp)
      PROVE  StepOK
  BY <1>1, <1>4, RenewKeeps
<1>5. ASSUME NEW rc \in receipts, NEW m \in messages, NEW now \in Instants, complete(rc, m, now) PROVE StepOK
  BY <1>1, <1>5, CompleteKeeps
<1>6. ASSUME NEW rc \in receipts, NEW m \in messages, NEW now \in Instants, abandon(rc, m, now) PROVE StepOK
  BY <1>1, <1>6, AbandonKeeps
<1>7. ASSUME NEW rc \in receipts, NEW m \in messages, completeAgain(rc, m) PROVE StepOK
  BY <1>1, <1>7, CompleteAgainKeeps
<1>8. ASSUME NEW rc \in receipts, NEW m \in messages, abandonAgain(rc, m) PROVE StepOK
  BY <1>1, <1>8, AbandonAgainKeeps
<1>9. ASSUME NEW m \in messages, NEW rev \in Counters, NEW now \in Instants, cancel(m, rev, now) PROVE StepOK
  BY <1>1, <1>9, CancelKeeps
<1>10. ASSUME NEW r \in Recipients, NEW t \in Instants, NEW n \in 1 .. MaxKey, purgeTerminal(r, t, n) PROVE StepOK
  BY <1>1, <1>10, PurgeKeeps
<1>11. ASSUME NEW r \in Recipients, NEW id \in RetirementIds, NEW t \in Instants, beginAuthorityRetirement(r, id, t)
       PROVE  StepOK
  <2>1. r \notin DOMAIN retirements /\ commitRetirement(r, id, t, "fenced")
    BY <1>11 DEF beginAuthorityRetirement
  <2>2. PICK phase \in {"fenced", "finalized"} : phase = "fenced"
    OBVIOUS
  <2>3. QED BY <1>1, <2>1, <2>2, RetireKeeps
<1>12. ASSUME NEW r \in Recipients, NEW id \in RetirementIds, NEW t \in Instants, finalizeAuthorityRetirement(r, id, t)
       PROVE  StepOK
  <2>1. commitRetirement(r, id, t, "finalized")
    BY <1>12 DEF finalizeAuthorityRetirement
  <2>2. PICK phase \in {"fenced", "finalized"} : phase = "finalized"
    OBVIOUS
  <2>3. QED BY <1>1, <2>1, <2>2, RetireKeeps
<1>13. QED BY <1>1, <1>2, <1>3, <1>4, <1>5, <1>6, <1>7, <1>8, <1>9, <1>10, <1>11, <1>12 DEF MailboxNext

LEMMA StutterKeeps == MailboxInv /\ UNCHANGED mailboxVars => StepOK
<1>1. SUFFICES ASSUME MailboxInv, UNCHANGED mailboxVars PROVE StepOK
  OBVIOUS
<1>2. UNCHANGED <<messages, leases, settled, released, retirements, nextMessageKey, receipts, acks>>
  BY <1>1 DEF mailboxVars
<1>3. MailboxTypeOK /\ MessagesOK /\ MapsBook /\ TokensBook /\ AcksBook /\ FifoSettlement /\ OneSettlement /\ RetirementDrains
  BY <1>1 DEF MailboxInv
<1>4. MailboxTypeOK' /\ MessagesOK'
  BY <1>2, <1>3 DEF MailboxTypeOK, MessagesOK, Keys, Counters, Instants, Lease, Proof, Message, Receipt
<1>5. MapsBook' /\ TokensBook' /\ AcksBook'
  BY <1>2, <1>3 DEF MapsBook, PendingKey, CompletedKey, TokensBook, receiptOf, AcksBook, proofOf, Keys
<1>6. FifoSettlement' /\ OneSettlement' /\ RetirementDrains'
  BY <1>2, <1>3 DEF FifoSettlement, OneSettlement, RetirementDrains, Pending, recipientMessages
<1>7. SettledKept
  BY <1>2 DEF SettledKept
<1>8. AttemptsKept
  <2>1. \A q \in receipts : CurrentProof(q)' => CurrentProof(q)
    BY <1>2 DEF CurrentProof
  <2>2. \A n \in messages : n.attempt \in Nat
    BY <1>3, MapFields
  <2>3. QED BY <1>2, <2>1, <2>2 DEF AttemptsKept
<1>9. QED BY <1>2, <1>4, <1>5, <1>6, <1>7, <1>8 DEF StepOK, MailboxInv

(* Every behaviour of the store satisfies its invariant.                   *)
THEOREM MailboxInvariant == MailboxSpec => []MailboxInv
<1>1. MailboxInv /\ [MailboxNext]_mailboxVars => MailboxInv'
  BY NextKeeps, StutterKeeps DEF StepOK
<1>2. QED BY <1>1, InitHolds, PTL DEF MailboxSpec

(* Deliveries of a recipient are completed in key order, whatever leases   *)
(* lapse, are taken over, renewed, released or drained in between.         *)
THEOREM SettledInOrder == MailboxSpec => []FifoSettlement
<1>1. MailboxInv => FifoSettlement
  BY DEF MailboxInv
<1>2. QED BY <1>1, MailboxInvariant, PTL

(* Of all the deliveries of a message at most one is ever confirmed as     *)
(* completed, and none that was confirmed as abandoned; the four maps of   *)
(* the store agree; a retired authority drains.                            *)
THEOREM SettledOnce == MailboxSpec => [](OneSettlement /\ MapsAgree /\ RetirementDrains)
<1>1. MailboxInv => OneSettlement /\ MapsAgree /\ RetirementDrains
  BY MapsBookAgrees DEF MailboxInv
<1>2. QED BY <1>1, MailboxInvariant, PTL

(* A settled message is never pending again and its proof never replaced.  *)
THEOREM SettledStays == MailboxSpec => SettledForEver
<1>1. MailboxInv /\ [MailboxNext]_mailboxVars => SettledKept
  BY NextKeeps, StutterKeeps DEF StepOK
<1>2. MailboxInv /\ [MailboxNext]_mailboxVars =>
        [\A m \in messages : m.status # "pending" =>
           \/ m \in messages' /\ (m.key \in DOMAIN settled => settled'[m.key] = settled[m.key])
           \/ m.key \notin keysOf(messages')]_mailboxVars
  BY <1>1 DEF SettledKept
<1>3. QED BY <1>2, MailboxInvariant, PTL DEF MailboxSpec, SettledForEver

-----------------------------------------------------------------------------
(* The registry over the store: every step of it is a step of the store or *)
(* leaves the store alone.                                                 *)

\* What an operation does when the store's answer arrives.
LEMMA RenewOutcome == renewWrites =>
        /\ section.op = "renew" /\ section' = Idle /\ UNCHANGED <<active, serial, checks, granted>>
        /\ \/ \E m \in messages : renew(section.receipt, m, section.now, section.expiresAt)
           \/ UNCHANGED mailboxVars
BY DEF renewWrites

LEMMA SettleOutcome == settleEnds =>
        /\ section.op \in {"settle", "confirm", "refused"} /\ section' = Idle
        /\ active' = Without(active, {section.input})
        /\ UNCHANGED <<serial, checks, granted>>
        /\ settleWrites \/ UNCHANGED mailboxVars
BY DEF settleEnds, removeEntry

\* The settlement acts on the lease, the settled or the released proof on record.
LEMMA SettleCases ==
  ASSUME RegistryInv, settleWrites, section.op \in {"settle", "confirm", "refused"}
  PROVE  \E m \in messages :
           /\ m.key = section.receipt.key /\ CurrentProof(section.receipt)
           /\ \/ complete(section.receipt, m, section.now) \/ abandon(section.receipt, m, section.now)
              \/ completeAgain(section.receipt, m) \/ abandonAgain(section.receipt, m)
           /\ \A a \in acks' : a \in acks \/ a.receipt = section.receipt
<1>1. PICK rc : rc = section.receipt
  OBVIOUS
<1>2. PICK m \in messages : \/ complete(rc, m, section.now) \/ abandon(rc, m, section.now)
                            \/ completeAgain(rc, m) \/ abandonAgain(rc, m)
  BY <1>1 DEF settleWrites
<1>3. MailboxTypeOK /\ MessagesOK /\ MapsBook
  BY DEF RegistryInv, MailboxInv
<1>4. m.key = rc.key /\ \A a \in acks' : a \in acks \/ a.receipt = rc
  BY <1>2 DEF complete, abandon, completeAgain, abandonAgain, Ack
<1>5. CurrentProof(rc)
  <2>1. CASE complete(rc, m, section.now) \/ abandon(rc, m, section.now)
    BY <2>1, <1>4 DEF complete, abandon, assertActiveLease, CurrentProof
  <2>2. CASE completeAgain(rc, m)
    <3>1. m.key \in DOMAIN settled /\ settled[m.key] = proofOf(rc)
      BY <1>3, <2>2, MapFields DEF completeAgain, MapsBook, CompletedKey
    <3>2. settled[m.key].token = rc.token
      BY <3>1 DEF proofOf
    <3>3. QED BY <1>4, <3>1, <3>2 DEF CurrentProof
  <2>3. CASE abandonAgain(rc, m)
    <3>1. m.key \in DOMAIN released /\ released[m.key] = proofOf(rc)
      BY <2>3 DEF abandonAgain
    <3>2. released[m.key].token = rc.token
      BY <3>1 DEF proofOf
    <3>3. QED BY <1>4, <3>1, <3>2 DEF CurrentProof
  <2>4. QED BY <1>2, <2>1, <2>2, <2>3
<1>6. QED BY <1>1, <1>2, <1>4, <1>5

LEMMA StoreSteps == RegistryInv /\ RegistryNext => MailboxNext \/ UNCHANGED mailboxVars
<1>1. SUFFICES ASSUME RegistryInv, RegistryNext PROVE MailboxNext \/ UNCHANGED mailboxVars
  OBVIOUS
<1>2. ASSUME Others PROVE MailboxNext
  <2>1. ASSUME NEW m \in messages, NEW now \in Instants, cancel(m, m.revision, now)
        PROVE  MailboxNext
    <3>1. m.revision \in Counters
      BY <1>1, MapFields DEF RegistryInv, MailboxInv
    <3>2. QED BY <2>1, <3>1 DEF MailboxNext
  <2>2. ASSUME NEW r \in Recipients, NEW o \in Owners, NEW now \in Instants, NEW exp \in Instants, claim(r, o, now, exp, 1)
        PROVE  MailboxNext
    <3>1. 1 \in 1 .. MaxClaim
      BY Numbers
    <3>2. QED BY <2>2, <3>1 DEF MailboxNext
  <2>3. ASSUME NEW r \in Recipients, NEW id \in RetirementIds, NEW t \in Instants,
               beginAuthorityRetirement(r, id, t) \/ finalizeAuthorityRetirement(r, id, t)
        PROVE  MailboxNext
    BY <2>3 DEF MailboxNext
  <2>4. ASSUME NEW r \in Recipients, NEW i \in Ids, NEW t \in Instants, enqueue(r, i, t)
        PROVE  MailboxNext
    BY <2>4 DEF MailboxNext
  <2>5. QED BY <1>2, <2>1, <2>2, <2>3, <2>4 DEF Others
<1>3. ASSUME renewWrites PROVE MailboxNext \/ UNCHANGED mailboxVars
  <2>1. /\ section.op = "renew"
        /\ \/ \E m \in messages : renew(section.receipt, m, section.now, section.expiresAt)
           \/ UNCHANGED mailboxVars
    BY <1>3, RenewOutcome
  <2>2. section.receipt \in receipts /\ section.now \in Instants /\ section.expiresAt \in Instants
    BY <1>1, <2>1 DEF RegistryInv, SectionOK, Idle
  <2>3. PICK rc \in receipts, now \in Instants, exp \in Instants :
          rc = section.receipt /\ now = section.now /\ exp = section.expiresAt
    BY <2>2
  <2>4. ASSUME NEW m \in messages, renew(rc, m, now, exp) PROVE MailboxNext
    BY <2>4 DEF MailboxNext
  <2>5. QED BY <2>1, <2>3, <2>4
<1>4. ASSUME settleEnds PROVE MailboxNext \/ UNCHANGED mailboxVars
  <2>1. section.op \in {"settle", "confirm", "refused"} /\ (settleWrites \/ UNCHANGED mailboxVars)
    BY <1>4, SettleOutcome
  <2>2. section.receipt \in receipts /\ section.now \in Instants
    BY <1>1, <2>1 DEF RegistryInv, SectionOK, Idle
  <2>3. PICK rc \in receipts, now \in Instants : rc = section.receipt /\ now = section.now
    BY <2>2
  <2>4. ASSUME settleWrites
        PROVE  \E m \in messages : complete(rc, m, now) \/ abandon(rc, m, now) \/ completeAgain(rc, m) \/ abandonAgain(rc, m)
    BY <1>1, <2>1, <2>3, <2>4, SettleCases
  <2>5. ASSUME NEW m \in messages, complete(rc, m, now) \/ abandon(rc, m, now) \/ completeAgain(rc, m) \/ abandonAgain(rc, m)
        PROVE  MailboxNext
    BY <2>5 DEF MailboxNext
  <2>6. QED BY <2>1, <2>4, <2>5
<1>5. \/ Others \/ renewWrites \/ settleEnds \/ UNCHANGED mailboxVars
  BY <1>1 DEF RegistryNext, activateAsserts, register, authorizeLooksUp, release, authorizeGrants, authorizeAsserts,
     renewAsserts, settleReads
<1>6. QED BY <1>2, <1>3, <1>4, <1>5

\* A receipt keeps its input: its attempt, while its proof is on record.
LEMMA InputKept ==
  ASSUME AttemptsKept, MailboxInv, MailboxInv', NEW rc \in receipts, NEW i, InputOf(rc, i)
  PROVE  InputOf(rc, i)'
<1>1. i \in Inputs /\ i[1] = rc.key /\ i[2] \in Nat
  BY Numbers DEF InputOf, Inputs
<1>2. ASSUME NEW n \in messages', n.key = rc.key
      PROVE  i[2] <= n.attempt /\ (CurrentProof(rc)' => i[2] = n.attempt)
  <2>1. PICK m \in messages : /\ m.key = n.key /\ m.attempt <= n.attempt
                              /\ (CurrentProof(rc)' => CurrentProof(rc) /\ n.attempt = m.attempt)
    BY <1>2 DEF AttemptsKept
  <2>2. i[2] <= m.attempt /\ (CurrentProof(rc) => i[2] = m.attempt)
    BY <1>2, <2>1 DEF InputOf
  <2>3. m.attempt \in Nat
    BY MapFields DEF MailboxInv
  <2>4. n.attempt \in Nat
    BY <1>2, Numbers DEF MailboxInv, MailboxTypeOK, Message, Counters
  <2>5. QED BY <1>1, <2>1, <2>2, <2>3, <2>4
<1>3. QED BY <1>1, <1>2 DEF InputOf, Inputs, Keys, Counters

\* The input of a stored message's attempt is that of its delivery.
LEMMA InputFits ==
  ASSUME MailboxInv, NEW rc \in receipts, NEW m \in messages, m.key = rc.key
  PROVE  InputOf(rc, inputOf(m))
<1>1. \A n \in messages : n.key = rc.key => n = m
  BY DEF MailboxInv, MessagesOK
<1>2. m.key \in Keys /\ m.attempt \in Counters /\ m.attempt \in Nat
  BY MapFields DEF MailboxInv
<1>3. PICK i : i = inputOf(m)
  OBVIOUS
<1>4. i \in Inputs /\ i[1] = m.key /\ i[2] = m.attempt
  BY <1>2, <1>3 DEF inputOf, Inputs
<1>5. InputOf(rc, i)
  BY <1>1, <1>2, <1>4 DEF InputOf
<1>6. QED BY <1>3, <1>5

\* Who holds a live lease has not settled.
LEMMA HolderNotAcked ==
  ASSUME MailboxInv, NEW rc \in receipts, NEW m \in messages, m.key = rc.key, m.status = "pending",
         m.key \in DOMAIN leases, leases[m.key].token = rc.token
  PROVE  NotAcked(rc)
<1>1. ASSUME NEW a \in acks, a.receipt = rc PROVE FALSE
  <2>1. a.outcome \in {"completed", "abandoned"}
    BY DEF MailboxInv, MailboxTypeOK
  <2>2. a.outcome # "completed"
    BY <1>1 DEF MailboxInv, AcksBook
  <2>3. a.outcome # "abandoned"
    BY <1>1 DEF MailboxInv, AcksBook
  <2>4. QED BY <2>1, <2>2, <2>3
<1>2. QED BY <1>1 DEF NotAcked

\* The registry does not look at more than this of a step of the store.
LEMMA EntriesKept ==
  ASSUME RegistryInv, StepOK, NEW i, NEW rc \in receipts, InputOf(rc, i)
  PROVE  InputOf(rc, i)' /\ rc \in receipts'
BY InputKept DEF StepOK, RegistryInv

LEMMA RegistryKeeps ==
  ASSUME RegistryInv, StepOK, RegistryNext
  PROVE  (SectionOK /\ ActiveOK)'
<1>1. MailboxInv /\ MailboxInv' /\ ActiveOK /\ SectionOK /\ receipts \subseteq receipts'
  BY DEF RegistryInv, StepOK
<1>2. ASSUME UNCHANGED <<active, acks>> PROVE ActiveOK'
  <2>1. ASSUME NEW i \in DOMAIN active
        PROVE  active[i].receipt \in receipts' /\ InputOf(active[i].receipt, i)' /\ NotAcked(active[i].receipt)
    <3>1. PICK rc \in receipts : rc = active[i].receipt /\ InputOf(rc, i) /\ NotAcked(rc)
      BY <1>1, <2>1 DEF ActiveOK
    <3>2. rc \in receipts' /\ InputOf(rc, i)'
      BY <3>1, EntriesKept
    <3>3. InputOf(active[i].receipt, i)'
      BY <1>2, <3>1, <3>2 DEF InputOf
    <3>4. QED BY <3>1, <3>2, <3>3
  <2>2. QED BY <1>2, <2>1 DEF ActiveOK, NotAcked, InputOf
<1>3. ASSUME UNCHANGED <<section, acks>> PROVE SectionOK'
  <2>1. CASE section = Idle
    BY <1>3, <2>1 DEF SectionOK, Idle
  <2>2. CASE section.op = "activate"
    <3>1. PICK rc, i : /\ rc \in receipts /\ rc = section.receipt /\ i = section.input
                                    /\ InputOf(rc, i) /\ NotAcked(rc)
      BY <1>1, <2>2 DEF SectionOK, Idle
    <3>2. rc \in receipts' /\ InputOf(rc, i)'
      BY <3>1, EntriesKept
    <3>3. InputOf(section.receipt, section.input)' /\ NotAcked(section.receipt)'
      BY <1>3, <3>1, <3>2 DEF InputOf, NotAcked, CurrentProof
    <3>4. QED BY <1>3, <2>2, <3>1, <3>2, <3>3 DEF SectionOK
  <2>3. CASE section.op = "renew"
    <3>1. section.receipt \in receipts /\ section.now \in Instants /\ section.expiresAt \in Instants
      BY <1>1, <2>3 DEF SectionOK, Idle
    <3>2. QED BY <1>1, <1>3, <2>3, <3>1 DEF SectionOK, Instants
  <2>4. CASE section.op \in {"settle", "confirm", "refused"}
    <3>1. PICK rc, i : /\ rc \in receipts /\ rc = section.receipt /\ i = section.input
                                    /\ InputOf(rc, i) /\ section.now \in Instants
      BY <1>1, <2>4 DEF SectionOK, Idle
    <3>2. rc \in receipts' /\ InputOf(rc, i)'
      BY <3>1, EntriesKept
    <3>3. InputOf(section.receipt, section.input)'
      BY <1>3, <3>1, <3>2 DEF InputOf, CurrentProof
    <3>4. QED BY <1>3, <2>4, <3>1, <3>2, <3>3 DEF SectionOK, Instants
  <2>5. QED BY <1>1, <2>1, <2>2, <2>3, <2>4 DEF SectionOK
<1>4. section' = Idle => SectionOK'
  BY DEF SectionOK, Idle
<1>5. CASE Others
  <2>1. UNCHANGED <<active, section>>
    BY <1>5 DEF Others, registry
  <2>2. acks' = acks
    <3>1. CASE \E r \in Recipients, i \in Ids, t \in Instants : enqueue(r, i, t)
      BY <3>1 DEF enqueue
    <3>2. CASE \E r \in Recipients, o \in Owners, now, exp \in Instants : claim(r, o, now, exp, 1)
      BY <3>2 DEF claim
    <3>3. CASE \E m \in messages, now \in Instants : cancel(m, m.revision, now)
      BY <3>3 DEF cancel
    <3>4. CASE \E r \in Recipients, id \in RetirementIds, t \in Instants :
                 beginAuthorityRetirement(r, id, t) \/ finalizeAuthorityRetirement(r, id, t)
      <4>1. PICK r \in Recipients, id \in RetirementIds, t \in Instants, phase \in {"fenced", "finalized"} :
              commitRetirement(r, id, t, phase)
        BY <3>4 DEF beginAuthorityRetirement, finalizeAuthorityRetirement
      <4>2. QED BY <4>1 DEF commitRetirement
    <3>5. QED BY <1>5, <3>1, <3>2, <3>3, <3>4 DEF Others
  <2>3. QED BY <1>2, <1>3, <2>1, <2>2
<1>6. ASSUME NEW rc \in receipts, NEW now \in Instants, activateAsserts(rc, now)
      PROVE  (SectionOK /\ ActiveOK)'
  <2>1. UNCHANGED <<mailboxVars, active>> /\ asserted(rc, now)
    BY <1>6 DEF activateAsserts
  <2>2. UNCHANGED <<messages, leases, settled, released, retirements, nextMessageKey, receipts, acks>>
    BY <2>1 DEF mailboxVars
  <2>3. PICK m \in messages : m.key = rc.key /\ assertActiveLease(m, rc, now)
    BY <2>1 DEF asserted
  <2>4. \A n \in messages : n.key = rc.key => n = m
    BY <1>1, <2>3 DEF MailboxInv, MessagesOK
  <2>5. messageOf(rc) = m
    BY <2>3, <2>4 DEF messageOf
  <2>6. NotAcked(rc)
    BY <1>1, <2>3, HolderNotAcked DEF assertActiveLease
  <2>7. PICK i : i = inputOf(m)
    OBVIOUS
  <2>8. InputOf(rc, i)' /\ rc \in receipts'
    BY <1>1, <2>3, <2>7, InputFits, EntriesKept
  <2>9. section'.op = "activate" /\ section'.receipt = rc /\ section'.input = i
    BY <1>6, <2>5, <2>7 DEF activateAsserts
  <2>10. InputOf(section.receipt, section.input)' /\ NotAcked(section.receipt)'
    BY <2>2, <2>6, <2>8, <2>9 DEF InputOf, NotAcked, CurrentProof
  <2>11. SectionOK'
    BY <2>8, <2>9, <2>10 DEF SectionOK
  <2>12. QED BY <1>2, <2>1, <2>2, <2>11
<1>7. CASE register
  <2>1. section.op = "activate" /\ section' = Idle /\ UNCHANGED mailboxVars
    BY <1>7 DEF register
  <2>2. UNCHANGED <<messages, leases, settled, released, retirements, nextMessageKey, receipts, acks>>
    BY <2>1 DEF mailboxVars
  <2>3. PICK rc, i : /\ rc \in receipts /\ rc = section.receipt /\ i = section.input
                                  /\ InputOf(rc, i) /\ NotAcked(rc)
    BY <1>1, <2>1 DEF SectionOK, Idle
  <2>4. CASE UNCHANGED active
    BY <1>2, <1>4, <2>1, <2>2, <2>4
  <2>5. CASE ~UNCHANGED active
    <3>1. PICK e : e = [receipt |-> rc, serial |-> serial]
      OBVIOUS
    <3>2. active' = [x \in DOMAIN active \cup {i} |-> IF x = i THEN e ELSE active[x]]
      BY <1>7, <2>3, <2>5, <3>1 DEF register
    <3>3. ASSUME NEW x \in DOMAIN active'
          PROVE  active'[x].receipt \in receipts /\ InputOf(active'[x].receipt, x) /\ NotAcked(active'[x].receipt)
      <4>1. CASE x = i
        BY <2>3, <3>1, <3>2, <4>1
      <4>2. CASE x # i
        BY <1>1, <3>2, <3>3, <4>2 DEF ActiveOK
      <4>3. QED BY <4>1, <4>2
    <3>4. ActiveOK'
      BY <2>2, <3>3 DEF ActiveOK, InputOf, NotAcked, CurrentProof
    <3>5. QED BY <1>4, <2>1, <3>4
  <2>6. QED BY <2>4, <2>5
<1>8. ASSUME NEW i \in DOMAIN active, authorizeLooksUp(i)
      PROVE  (SectionOK /\ ActiveOK)'
  BY <1>2, <1>3, <1>8 DEF authorizeLooksUp, mailboxVars
<1>9. ASSUME NEW i \in DOMAIN active, release(i)
      PROVE  (SectionOK /\ ActiveOK)'
  <2>1. active' = Without(active, {i}) /\ UNCHANGED <<mailboxVars, section>>
    BY <1>9 DEF release
  <2>2. UNCHANGED <<messages, leases, settled, released, retirements, nextMessageKey, receipts, acks>>
    BY <2>1 DEF mailboxVars
  <2>3. DOMAIN active' \subseteq DOMAIN active /\ \A x \in DOMAIN active' : active'[x] = active[x]
    BY <2>1 DEF Without, Restrict
  <2>4. ActiveOK'
    BY <1>1, <2>2, <2>3 DEF ActiveOK, InputOf, NotAcked, CurrentProof
  <2>5. QED BY <1>3, <2>1, <2>2, <2>4
<1>10. ASSUME NEW c \in checks, authorizeGrants(c) \/ \E now \in Instants : authorizeAsserts(c, now)
       PROVE  (SectionOK /\ ActiveOK)'
  <2>1. UNCHANGED <<active, section, mailboxVars>>
    BY <1>10 DEF authorizeGrants, authorizeAsserts
  <2>2. QED BY <1>2, <1>3, <2>1 DEF mailboxVars
<1>11. ASSUME NEW rc \in receipts, NEW now \in Instants, NEW exp \in Instants, renewAsserts(rc, now, exp)
       PROVE  (SectionOK /\ ActiveOK)'
  <2>1. /\ UNCHANGED <<active, mailboxVars>>
        /\ section'.op = "renew" /\ section'.receipt = rc /\ section'.now = now /\ section'.expiresAt = exp
    BY <1>11 DEF renewAsserts
  <2>2. SectionOK'
    BY <1>1, <2>1 DEF SectionOK, Instants
  <2>3. QED BY <1>2, <2>1, <2>2 DEF mailboxVars
<1>12. CASE renewWrites
  <2>1. /\ section' = Idle /\ UNCHANGED active
        /\ \/ \E m \in messages : renew(section.receipt, m, section.now, section.expiresAt)
           \/ UNCHANGED mailboxVars
    BY <1>12, RenewOutcome
  <2>2. acks' = acks
    BY <2>1 DEF renew, mailboxVars
  <2>3. QED BY <1>2, <1>4, <2>1, <2>2
<1>13. ASSUME NEW rc \in receipts, NEW i \in Inputs, NEW outcome \in {"completed", "abandoned"}, NEW now \in Instants,
              settleReads(rc, i, outcome, now)
       PROVE  (SectionOK /\ ActiveOK)'
  <2>1. UNCHANGED <<active, mailboxVars>>
    BY <1>13 DEF settleReads
  <2>2. PICK m \in messages :
          /\ m.key = rc.key /\ inputOf(m) = i
          /\ section'.op \in {"settle", "confirm", "refused"} /\ section'.receipt = rc /\ section'.input = i
          /\ section'.now = now
    BY <1>13 DEF settleReads
  <2>3. InputOf(rc, i)' /\ rc \in receipts'
    BY <1>1, <2>2, InputFits, EntriesKept
  <2>4. InputOf(section.receipt, section.input)'
    BY <2>1, <2>2, <2>3 DEF InputOf, CurrentProof, mailboxVars
  <2>5. SectionOK'
    BY <2>2, <2>3, <2>4 DEF SectionOK, Instants
  <2>6. QED BY <1>2, <2>1, <2>5 DEF mailboxVars
<1>14. CASE settleEnds
  <2>1. /\ section.op \in {"settle", "confirm", "refused"} /\ section' = Idle
        /\ active' = Without(active, {section.input})
        /\ settleWrites \/ UNCHANGED mailboxVars
    BY <1>14, SettleOutcome
  <2>2. PICK rc, i : rc \in receipts /\ rc = section.receipt /\ i = section.input /\ InputOf(rc, i)
    BY <1>1, <2>1 DEF SectionOK, Idle
  <2>3. DOMAIN active' = DOMAIN active \ {i} /\ \A x \in DOMAIN active' : active'[x] = active[x]
    BY <2>1, <2>2 DEF Without, Restrict
  <2>4. ASSUME NEW x \in DOMAIN active'
        PROVE  active[x].receipt \in receipts' /\ InputOf(active[x].receipt, x)' /\ NotAcked(active[x].receipt)'
    <3>1. PICK q \in receipts : q = active[x].receipt /\ InputOf(q, x) /\ NotAcked(q)
      BY <1>1, <2>3 DEF ActiveOK
    <3>2. q \in receipts' /\ InputOf(q, x)'
      BY <3>1, EntriesKept
    <3>3. \A a \in acks' : a.receipt # q
      <4>1. CASE UNCHANGED mailboxVars
        BY <3>1, <4>1 DEF NotAcked, mailboxVars
      <4>2. CASE settleWrites
        <5>1. PICK m \in messages : m.key = rc.key /\ CurrentProof(rc)
          BY <2>1, <2>2, <4>2, SettleCases
        <5>2. \A a \in acks' : a \in acks \/ a.receipt = rc
          BY <2>1, <2>2, <4>2, SettleCases
        <5>3. ASSUME q = rc PROVE FALSE
          <6>1. i[2] = m.attempt /\ x[2] = m.attempt /\ i[1] = rc.key /\ x[1] = rc.key /\ i \in Inputs /\ x \in Inputs
            BY <2>2, <3>1, <5>1, <5>3 DEF InputOf
          <6>2. x = i
            BY <6>1 DEF Inputs
          <6>3. QED BY <2>3, <6>2
        <5>4. QED BY <3>1, <5>2, <5>3 DEF NotAcked
      <4>3. QED BY <2>1, <4>1, <4>2
    <3>4. InputOf(active[x].receipt, x)'
      BY <2>3, <3>1, <3>2 DEF InputOf, CurrentProof
    <3>5. QED BY <2>3, <3>1, <3>2, <3>3, <3>4 DEF NotAcked
  <2>5. ActiveOK'
    BY <2>3, <2>4 DEF ActiveOK, InputOf, NotAcked, CurrentProof
  <2>6. QED BY <1>4, <2>1, <2>5
<1>15. QED BY <1>5, <1>6, <1>7, <1>8, <1>9, <1>10, <1>11, <1>12, <1>13, <1>14 DEF RegistryNext

LEMMA RegistryInvKept == RegistryInv /\ [RegistryNext]_allVars => RegistryInv' /\ StepOK
<1>1. SUFFICES ASSUME RegistryInv, [RegistryNext]_allVars PROVE RegistryInv' /\ StepOK
  OBVIOUS
<1>2. MailboxInv
  BY <1>1 DEF RegistryInv
<1>3. CASE RegistryNext
  <2>1. StepOK
    BY <1>1, <1>2, <1>3, StoreSteps, NextKeeps, StutterKeeps
  <2>2. (SectionOK /\ ActiveOK)'
    BY <1>1, <1>3, <2>1, RegistryKeeps
  <2>3. QED BY <2>1, <2>2 DEF RegistryInv, StepOK
<1>4. CASE UNCHANGED allVars
  <2>1. UNCHANGED mailboxVars /\ UNCHANGED <<active, section>>
    BY <1>4 DEF allVars, registry
  <2>2. UNCHANGED <<messages, leases, settled, released, receipts, acks>>
    BY <2>1 DEF mailboxVars
  <2>3. StepOK
    BY <1>2, <2>1, StutterKeeps
  <2>4. SectionOK' /\ ActiveOK'
    BY <1>1, <2>1, <2>2 DEF RegistryInv, SectionOK, ActiveOK, InputOf, NotAcked, CurrentProof, Idle, Instants, Inputs, Keys, Counters
  <2>5. QED BY <2>3, <2>4 DEF RegistryInv, StepOK
<1>5. QED BY <1>1, <1>3, <1>4

LEMMA RegistryInitHolds == RegistryInit => RegistryInv
<1>1. SUFFICES ASSUME RegistryInit PROVE RegistryInv
  OBVIOUS
<1>2. MailboxInv
  BY <1>1, InitHolds DEF RegistryInit
<1>3. DOMAIN active = {} /\ section = Idle
  BY <1>1 DEF RegistryInit
<1>4. QED BY <1>2, <1>3 DEF RegistryInv, SectionOK, ActiveOK

(* Every behaviour of the registry over the store satisfies its invariant: *)
(* an entry and the operation that holds the mutex belong to the attempt   *)
(* of their delivery, and nothing in the map of entries has been settled.  *)
THEOREM RegistryInvariant == RegistrySpec => []RegistryInv
BY RegistryInitHolds, RegistryInvKept, PTL DEF RegistrySpec

(* Whatever the registry and its concurrent users do is a behaviour of the *)
(* store: the store's theorems hold with the registry over it.             *)
THEOREM RegistryUsesStore == RegistrySpec => MailboxSpec
<1>1. RegistryInit => MailboxInit
  BY DEF RegistryInit
<1>2. RegistryInv /\ [RegistryNext]_allVars => [MailboxNext]_mailboxVars
  BY StoreSteps DEF allVars
<1>3. QED BY <1>1, <1>2, RegistryInvariant, PTL DEF RegistrySpec, MailboxSpec

(* Every confirmed settlement freed its slot of maxActiveDeliveries: no    *)
(* delivery in the registry's map has been settled.                        *)
THEOREM NoSettledEntry == RegistrySpec => []SettledEntriesFreed
<1>1. RegistryInv => SettledEntriesFreed
  BY DEF RegistryInv, ActiveOK, NotAcked, SettledEntriesFreed
<1>2. QED BY <1>1, RegistryInvariant, PTL

(* No tool of a run is authorized after the settlement of its delivery was *)
(* confirmed, whatever happened between the check's two looks.             *)
THEOREM NoLateTool == RegistrySpec => NoToolAfterSettlement
<1>1. ASSUME RegistryInv, RegistryNext, granted' # granted
      PROVE  \A rc \in granted' : \A a \in acks : a.receipt # rc
  <2>1. PICK c \in checks : authorizeGrants(c)
    <3>1. \/ \E c \in checks : authorizeGrants(c)
          \/ granted' = granted
      BY <1>1, RenewOutcome, SettleOutcome DEF RegistryNext, Others, registry, activateAsserts, register,
         authorizeLooksUp, release, authorizeAsserts, renewAsserts, settleReads
    <3>2. QED BY <1>1, <3>1
  <2>2. stillRegistered(c) /\ granted' = {c.entry.receipt}
    BY <1>1, <2>1 DEF authorizeGrants
  <2>3. c.input \in DOMAIN active /\ active[c.input] = c.entry
    BY <2>2 DEF stillRegistered
  <2>4. NotAcked(c.entry.receipt)
    BY <1>1, <2>3 DEF RegistryInv, ActiveOK
  <2>5. QED BY <2>2, <2>4 DEF NotAcked
<1>2. RegistryInv /\ [RegistryNext]_allVars =>
        [granted' # granted => \A rc \in granted' : \A a \in acks : a.receipt # rc]_allVars
  BY <1>1
<1>3. QED BY <1>2, RegistryInvariant, PTL DEF RegistrySpec, NoToolAfterSettlement
=============================================================================
