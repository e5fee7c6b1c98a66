---------------------------- MODULE ServiceProofs -----------------------------
(***************************************************************************)
(* Theorems about services that share something scarce: the journal of     *)
(* Actions and its conflict keys, for every set of operations, streams,    *)
(* runs and keys; the jobs of the media service and the places with its    *)
(* provider, for every set of jobs, callers and outputs and all the        *)
(* limits; the places of the game runtime that nested delegations hold,    *)
(* for every set of actors and runs and every depth; and the store of      *)
(* schedules, for every plan, lane, clock and lease.                       *)
(***************************************************************************)
EXTENDS ActionJournal, MediaJobs, DelegationNesting, ScheduleStore, FiniteSetTheorems, WellFoundedInduction,
        TLAPS

-----------------------------------------------------------------------------
(* What the record transitions return *)

(* Every transition of transitions.ts returns a well-formed record. *)
LEMMA TransitionTypes ==
  ASSUME NEW r \in Record
  PROVE  /\ \A t \in Nat : claimActionRecord(r, t) \in Record
         /\ expireActionRecord(r) \in Record
         /\ retirePendingActionRecord(r) \in Record
         /\ \A status \in Statuses, receipt \in Receipt :
              Resolve(r, status, receipt) \in Record
<1>1. NoClaim \in Claim /\ r.claim \in Claim
  BY DEF NoClaim, Claim, Record
<1>2. \A t \in Nat : claimActionRecord(r, t) \in Record
  <2> TAKE t \in Nat
  <2>2. r.attempt + 1 \in Nat /\ [token |-> t, attempt |-> r.attempt + 1] \in Claim
    BY DEF Record, Claim
  <2>3. QED BY <2>2 DEF claimActionRecord, Record, Statuses
<1>3. expireActionRecord(r) \in Record /\ retirePendingActionRecord(r) \in Record
  BY DEF expireActionRecord, retirePendingActionRecord, Record, Statuses
<1>4. \A status \in Statuses, receipt \in Receipt :
        Resolve(r, status, receipt) \in Record
  BY <1>1 DEF Resolve, Record
<1>5. QED BY <1>2, <1>3, <1>4

(* A receipt prepared for a claim of natural token and attempt is well     *)
(* formed, and so are the statuses that receipts and answers lead to.      *)
LEMMA AnswerTypes ==
  /\ \A it \in Claim, outcome \in Outcomes :
       prepareReceipt(it, outcome) \in Receipt
  /\ \A outcome \in Outcomes : receiptStatus(outcome) \in Statuses
  /\ \A op \in Operations, resolution \in Resolutions :
       /\ outcomeOf(resolution) \in Outcomes
       /\ reconcileStatus(op, resolution) \in Statuses
<1>1. \A it \in Claim, outcome \in Outcomes :
        prepareReceipt(it, outcome) \in Receipt
  BY DEF prepareReceipt, Receipt, Claim
<1>2. \A outcome \in Outcomes : receiptStatus(outcome) \in Statuses
  BY DEF receiptStatus, Statuses, Outcomes
<1>3. \A op \in Operations, resolution \in Resolutions :
        /\ outcomeOf(resolution) \in Outcomes
        /\ reconcileStatus(op, resolution) \in Statuses
  BY DEF outcomeOf, reconcileStatus, Statuses, Outcomes, Resolutions
<1>4. QED BY <1>1, <1>2, <1>3

Owners == [Keys -> Operations \cup {NoOwner}]

(* Acquiring and releasing keep the conflict table well formed. *)
LEMMA OwnerTypes ==
  ASSUME NEW c \in Owners
  PROVE  /\ \A S : release(c, S) \in Owners
         /\ \A op \in Operations : acquire(c, op) \in Owners
  BY DEF release, acquire, Owners

(* The maintenance that opens every delivery request keeps the records     *)
(* well formed.                                                            *)
LEMMA MaintenanceTypes ==
  ASSUME TypeOK
  PROVE  \A retired, expired : afterMaintenance(retired, expired) \in [Operations -> Record]
<1>1. \A op \in Operations : records[op] \in Record
  BY DEF TypeOK
<1>2. \A op \in Operations : /\ retirePendingActionRecord(records[op]) \in Record
                             /\ expireActionRecord(records[op]) \in Record
  BY <1>1, TransitionTypes
<1>3. QED BY <1>1, <1>2 DEF afterMaintenance

(* The empty entry and a freshly admitted record are well formed. *)
LEMMA UnclaimedTypes ==
  /\ NoRecord \in Record
  /\ \A n \in Nat : Unclaimed("pending", n) \in Record
<1>1. NoClaim \in Claim /\ NoReceipt \in Receipt
  BY DEF NoClaim, NoReceipt, Claim, Receipt
<1>2. QED BY <1>1 DEF NoRecord, Unclaimed, Record, Statuses

-----------------------------------------------------------------------------
(* Type correctness *)

(* The empty journal is well formed. *)
LEMMA InitTypes == Init => TypeOK
  BY UnclaimedTypes DEF Init, TypeOK

(* A delivery request, the longest operation of the journal, keeps         *)
(* everything well formed whichever of its four outcomes it has.           *)
LEMMA NextDeliveryTypes ==
  ASSUME TypeOK,
         NEW stream \in Streams, NEW run \in Runs \cup {AnyRun},
         nextDelivery(stream, run)
  PROVE  TypeOK'
<1>0. PICK due \in dueClaims(stream, run) :
        selectDelivery(afterMaintenance(retireClosedPending(stream), due \ Replayable(due)),
                       release(conflicts, retireClosedPending(stream)),
                       stream, run, Replayable(due))
  BY DEF nextDelivery
<1> DEFINE recs == afterMaintenance(retireClosedPending(stream), due \ Replayable(due))
           c == release(conflicts, retireClosedPending(stream))
           replayable == Replayable(due)
<1>1. recs \in [Operations -> Record]
  BY MaintenanceTypes
<1>2. c \in Owners
  BY OwnerTypes DEF TypeOK, Owners
<1>3. UNCHANGED <<admissions, closed, lapsed, gameVars>>
  BY DEF nextDelivery
<1>a. selectDelivery(recs, c, stream, run, replayable)
  BY <1>0
<1> HIDE DEF recs, c, replayable
<1>4. CASE \E op \in Operations : DeliverReconcile(recs, c, op)
  <2>1. PICK op \in Operations : DeliverReconcile(recs, c, op)
    BY <1>4
  <2>2. recs[op].claim.token \in Nat
    BY <1>1 DEF Record, Claim
  <2>3. QED BY <1>1, <1>2, <1>3, <2>1, <2>2 DEF DeliverReconcile, TypeOK, Owners, gameVars
<1>5. CASE \E op \in Operations : claimPendingRecord(recs, c, op)
  <2>1. PICK op \in Operations : claimPendingRecord(recs, c, op)
    BY <1>5
  <2>2a. tokens + 1 \in Nat
    BY DEF TypeOK
  <2>2b. recs[op] \in Record
    BY <1>1
  <2>2. tokens + 1 \in Nat /\ recs[op] \in Record
    BY <2>2a, <2>2b
  <2>3. claimActionRecord(recs[op], tokens + 1) \in Record
    BY <2>2, TransitionTypes
  <2>4. acquire(release(c, {op}), op) \in Owners
    BY <1>2, OwnerTypes
  <2>5. [op |-> op, token |-> tokens + 1, attempt |-> recs[op].attempt + 1,
         sequence |-> recs[op].sequence] \in Delivery
    BY <2>2 DEF Delivery, Record
  <2>6. QED BY <1>1, <1>3, <2>1, <2>2, <2>3, <2>4, <2>5
            DEF claimPendingRecord, TypeOK, Owners, gameVars
<1>6. CASE /\ records' = recs /\ conflicts' = c
           /\ UNCHANGED <<tokens, issued, recovering>>
  BY <1>1, <1>2, <1>3, <1>6 DEF TypeOK, Owners, gameVars
<1>7. /\ \A S : oldestUnsettled(recs, stream, run, S) \subseteq Operations
      /\ \A S : claimCandidates(recs, c, stream, run, S) \subseteq Operations
  BY DEF oldestUnsettled, claimCandidates, FirstOf, Oldest
<1>8. QED
  BY <1>a, <1>4, <1>5, <1>6, <1>7 DEF selectDelivery

(* TypeOK is inductive: every step of the journal, its workers and the     *)
(* game keeps it.                                                          *)
LEMMA NextTypes == TypeOK /\ [Next]_vars => TypeOK'
<1> SUFFICES ASSUME TypeOK, [Next]_vars PROVE TypeOK'
  OBVIOUS
<1> USE DEF journalVars, workerVars, gameVars
<1>1. CASE \E op \in Operations : ensure(op)
  <2>1. PICK op \in Operations : ensure(op) BY <1>1
  <2>2. Unclaimed("pending", admissions + 1) \in Record
    <3>1. admissions + 1 \in Nat BY DEF TypeOK
    <3>2. QED BY <3>1, UnclaimedTypes
  <2>3. QED BY <2>1, <2>2 DEF ensure, TypeOK
<1>2. CASE \E stream \in Streams : recoverDelivery(stream)
  <2>1. PICK stream \in Streams : recoverDelivery(stream) BY <1>2
  <2>2. PICK op \in Operations :
          /\ recovering' = recovering \cup {records[op].claim.token}
          /\ UNCHANGED <<journalVars, closed, lapsed, issued, gameVars>>
    BY <2>1 DEF recoverDelivery, Oldest
  <2>3. records[op].claim.token \in Nat BY DEF TypeOK, Record, Claim
  <2>4. QED BY <2>2, <2>3 DEF TypeOK
<1>3. CASE \E stream \in Streams, run \in Runs \cup {AnyRun} : nextDelivery(stream, run)
  BY <1>3, NextDeliveryTypes
<1>4. CASE \E d \in issued, outcome \in Outcomes : recordReceipt(d, outcome)
  <2>1. PICK d \in issued, outcome \in Outcomes : recordReceipt(d, outcome) BY <1>4
  <2>2. d.op \in Operations /\ ClaimOf(d) \in Claim
    BY DEF TypeOK, Delivery, ClaimOf, Claim
  <2>3. receiptActionRecord(records[d.op], ClaimOf(d), outcome) \in Record
    BY <2>2, AnswerTypes, TransitionTypes DEF receiptActionRecord, TypeOK
  <2>4. release(conflicts, {d.op}) \in Owners
    BY OwnerTypes DEF TypeOK, Owners
  <2>5. QED BY <2>1, <2>2, <2>3, <2>4 DEF recordReceipt, TypeOK, Owners
<1>5. CASE \E d \in issued, resolution \in Resolutions : reconcile(d, resolution)
  <2>1. PICK d \in issued, resolution \in Resolutions : reconcile(d, resolution) BY <1>5
  <2>2. d.op \in Operations /\ ClaimOf(d) \in Claim /\ records[d.op] \in Record
    BY DEF TypeOK, Delivery, ClaimOf, Claim
  <2> DEFINE r == reconcileActionRecord(d.op, ClaimOf(d), resolution)
  <2>3. r \in Record
    BY <2>2, AnswerTypes, TransitionTypes DEF reconcileActionRecord
  <2>4. retirePendingActionRecord(r) \in Record
    BY <2>3, TransitionTypes
  <2>5. release(conflicts, {d.op}) \in Owners
    BY OwnerTypes DEF TypeOK, Owners
  <2>6. QED BY <2>1, <2>2, <2>3, <2>4, <2>5 DEF reconcile, TypeOK, Owners
<1>6. CASE \E op \in Operations, outcome \in {"advanced", "source_failed"} :
             settleGoalProjection(op, outcome)
  <2>1. PICK op \in Operations, outcome \in {"advanced", "source_failed"} :
          settleGoalProjection(op, outcome)
    BY <1>6
  <2>2. records' = [records EXCEPT ![op].goal = outcome]
    BY <2>1 DEF settleGoalProjection
  <2>3. [records[op] EXCEPT !.goal = outcome] \in Record
    BY DEF TypeOK, Record
  <2>4. records' \in [Operations -> Record]
    BY <2>2, <2>3 DEF TypeOK
  <2>5. QED BY <2>1, <2>4 DEF settleGoalProjection, TypeOK
<1>7. CASE \E stream \in Streams, batch \in SUBSET Operations :
             purgeTerminal(stream, batch)
  <2>1. PICK stream \in Streams, batch \in SUBSET Operations :
          purgeTerminal(stream, batch)
    BY <1>7
  <2>2. release(conflicts, batch) \in Owners
    BY OwnerTypes DEF TypeOK, Owners
  <2>3. QED BY <2>1, <2>2, UnclaimedTypes DEF purgeTerminal, TypeOK, Owners
<1>8. CASE \E run \in Runs : closeAuthority(run)
  BY <1>8 DEF closeAuthority, TypeOK
<1>9. CASE \E d \in issued : Lapse(d) \/ GameCommit(d) \/ GameRefuse(d)
  <2>1. PICK d \in issued : Lapse(d) \/ GameCommit(d) \/ GameRefuse(d) BY <1>9
  <2>2. d.token \in Nat BY DEF TypeOK, Delivery
  <2>3. QED BY <2>1, <2>2 DEF Lapse, GameCommit, GameRefuse, TypeOK
<1>10. CASE UNCHANGED vars
  BY <1>10 DEF vars, TypeOK
<1>11. QED
  BY <1>1, <1>2, <1>3, <1>4, <1>5, <1>6, <1>7, <1>8, <1>9, <1>10 DEF Next

(* Every reachable state is well formed: the record map, the conflict      *)
(* table and the game's view of the attempts.                              *)
THEOREM TypeCorrect == Spec => []TypeOK
  BY InitTypes, NextTypes, PTL DEF Spec

-----------------------------------------------------------------------------
(* Conflict barriers *)

(* ConflictOwnership of any record map and conflict table. *)
Owns(recs, c) ==
  \A k \in Keys, op \in Operations :
    c[k] = op <=> Held(recs[op]) /\ k \in ConflictKeysOf[op]

(* Taking the keys of an Action that could acquire them leaves every other *)
(* Action in flight with its own.                                          *)
LEMMA AcquireOwnership ==
  ASSUME NEW recs \in [Operations -> Record], NEW c \in Owners, Owns(recs, c),
         NEW op \in Operations, canAcquire(c, op),
         NEW r, Held(r)
  PROVE  Owns([recs EXCEPT ![op] = r], acquire(release(c, {op}), op))
<1> SUFFICES ASSUME NEW k \in Keys, NEW o \in Operations
             PROVE  acquire(release(c, {op}), op)[k] = o
                      <=> Held([recs EXCEPT ![op] = r][o]) /\ k \in ConflictKeysOf[o]
  BY DEF Owns
<1>1. CASE o = op
  BY <1>1, JournalAssumption DEF acquire, release, Owns, Owners
<1>2. CASE o # op
  BY <1>2, JournalAssumption DEF acquire, release, canAcquire, Owns, Owners
<1>3. QED BY <1>1, <1>2

(* Releasing the keys of an Action that settles leaves the others alone.   *)
LEMMA ReleaseOwnership ==
  ASSUME NEW recs \in [Operations -> Record], NEW c \in Owners, Owns(recs, c),
         NEW op \in Operations, NEW r, ~Held(r)
  PROVE  Owns([recs EXCEPT ![op] = r], release(c, {op}))
<1> SUFFICES ASSUME NEW k \in Keys, NEW o \in Operations
             PROVE  release(c, {op})[k] = o
                      <=> Held([recs EXCEPT ![op] = r][o]) /\ k \in ConflictKeysOf[o]
  BY DEF Owns
<1>1. CASE o = op
  BY <1>1, JournalAssumption DEF release, Owns, Owners
<1>2. CASE o # op
  BY <1>2, JournalAssumption DEF release, Owns, Owners
<1>3. QED BY <1>1, <1>2

(* Releasing the keys of Actions that are not in flight changes nothing.   *)
LEMMA ReleaseIdle ==
  ASSUME NEW recs \in [Operations -> Record], NEW c \in Owners, Owns(recs, c),
         NEW S \in SUBSET Operations, \A op \in S : ~Held(recs[op])
  PROVE  release(c, S) = c
  BY DEF release, Owns, Owners

(* Retiring closed pending Actions and making due claims uncertain changes *)
(* neither who is in flight nor who owns a key.                            *)
LEMMA MaintenanceOwnership ==
  ASSUME TypeOK, Owns(records, conflicts),
         NEW stream, NEW run, NEW due \in dueClaims(stream, run)
  PROVE  Owns(afterMaintenance(retireClosedPending(stream), due \ Replayable(due)),
              release(conflicts, retireClosedPending(stream)))
<1> DEFINE retired == retireClosedPending(stream)
           expired == due \ Replayable(due)
           recs == afterMaintenance(retired, expired)
<1>1. retired \subseteq Operations /\ \A op \in retired : records[op].status = "pending"
  BY DEF retireClosedPending, FirstOf
<1>2. \A op \in expired : op \in Operations /\ records[op].status = "claimed"
  BY DEF dueClaims
<1>3. release(conflicts, retired) = conflicts
  BY <1>1, ReleaseIdle DEF TypeOK, Owners, Held
<1>4. \A op \in Operations : records[op] \in Record
  BY DEF TypeOK
<1> HIDE DEF retired, expired
<1>5. ASSUME NEW op \in Operations PROVE Held(recs[op]) <=> Held(records[op])
  <2>1. CASE op \in retired
    BY <1>1, <1>4, <2>1 DEF afterMaintenance, retirePendingActionRecord, Held, Record
  <2>2. CASE op \notin retired /\ op \in expired
    BY <1>2, <1>4, <2>2 DEF afterMaintenance, expireActionRecord, Held, Record
  <2>3. CASE op \notin retired /\ op \notin expired
    BY <2>3 DEF afterMaintenance
  <2>4. QED BY <2>1, <2>2, <2>3
<1>6. Owns(recs, conflicts)
  BY <1>5 DEF Owns
<1>7. QED BY <1>3, <1>6 DEF retired, expired

(* The statuses that a settled claim and a kept claim have. *)
LEMMA TransitionHeld ==
  ASSUME NEW r \in Record
  PROVE  /\ \A t \in Nat : Held(claimActionRecord(r, t))
         /\ \A status \in Statuses, receipt \in Receipt :
              Resolve(r, status, receipt).status = status
         /\ retirePendingActionRecord(r).status = "failed"
  BY DEF claimActionRecord, Resolve, retirePendingActionRecord, Held, Record

(* A delivery request keeps the conflict table exact: it claims only what  *)
(* it can acquire, and a replay takes over its own keys.                   *)
LEMMA NextDeliveryOwnership ==
  ASSUME TypeOK, Owns(records, conflicts),
         NEW stream \in Streams, NEW run \in Runs \cup {AnyRun},
         nextDelivery(stream, run)
  PROVE  Owns(records', conflicts')
<1>0. PICK due \in dueClaims(stream, run) :
        selectDelivery(afterMaintenance(retireClosedPending(stream), due \ Replayable(due)),
                       release(conflicts, retireClosedPending(stream)),
                       stream, run, Replayable(due))
  BY DEF nextDelivery
<1> DEFINE recs == afterMaintenance(retireClosedPending(stream), due \ Replayable(due))
           c == release(conflicts, retireClosedPending(stream))
           replayable == Replayable(due)
<1>1. recs \in [Operations -> Record]
  BY MaintenanceTypes
<1>2. c \in Owners
  BY OwnerTypes DEF TypeOK, Owners
<1>3. Owns(recs, c)
  BY MaintenanceOwnership
<1>4. selectDelivery(recs, c, stream, run, replayable)
  BY <1>0
<1> HIDE DEF recs, c, replayable
<1>5. CASE records' = recs /\ conflicts' = c
  BY <1>3, <1>5
<1>6. CASE \E op \in claimCandidates(recs, c, stream, run, replayable) :
             claimPendingRecord(recs, c, op)
  <2>1. PICK op \in claimCandidates(recs, c, stream, run, replayable) :
          claimPendingRecord(recs, c, op)
    BY <1>6
  <2>2. op \in Operations /\ canAcquire(c, op)
    BY DEF claimCandidates, FirstOf, Oldest
  <2>3. recs[op] \in Record
    BY <1>1, <2>2
  <2>4. tokens + 1 \in Nat
    BY DEF TypeOK
  <2>5. Held(claimActionRecord(recs[op], tokens + 1))
    BY <2>3, <2>4, TransitionHeld
  <2>6. Owns([recs EXCEPT ![op] = claimActionRecord(recs[op], tokens + 1)],
             acquire(release(c, {op}), op))
    BY <1>1, <1>2, <1>3, <2>2, <2>5, AcquireOwnership
  <2>7. QED BY <2>1, <2>6 DEF claimPendingRecord
<1>7. QED
  BY <1>4, <1>5, <1>6 DEF selectDelivery, DeliverReconcile

(* With TypeOK, ConflictOwnership is inductive: no step leaks a key or     *)
(* drops one that is still needed.                                         *)
LEMMA NextOwnership ==
  TypeOK /\ Owns(records, conflicts) /\ [Next]_vars => Owns(records', conflicts')
<1> SUFFICES ASSUME TypeOK, Owns(records, conflicts), [Next]_vars
             PROVE  Owns(records', conflicts')
  OBVIOUS
<1>0. records \in [Operations -> Record] /\ conflicts \in Owners
  BY DEF TypeOK, Owners
<1>1. CASE \E op \in Operations : ensure(op)
  <2>1. PICK op \in Operations : ensure(op) BY <1>1
  <2>2. /\ records' = [records EXCEPT ![op] = Unclaimed("pending", admissions + 1)]
        /\ conflicts' = conflicts
        /\ ~Held(records[op])
    BY <2>1 DEF ensure, Held
  <2>3. ~Held(Unclaimed("pending", admissions + 1))
    BY DEF Held, NoRecord, Unclaimed
  <2>4. QED BY <1>0, <2>2, <2>3 DEF Owns
<1>2. CASE \E stream \in Streams, run \in Runs \cup {AnyRun} : nextDelivery(stream, run)
  BY <1>2, NextDeliveryOwnership
<1>3. CASE \E d \in issued, outcome \in Outcomes : recordReceipt(d, outcome)
  <2>1. PICK d \in issued, outcome \in Outcomes : recordReceipt(d, outcome) BY <1>3
  <2>2. d.op \in Operations BY DEF TypeOK, Delivery
  <2> DEFINE r == receiptActionRecord(records[d.op], ClaimOf(d), outcome)
  <2>3. /\ Held(records[d.op])
        /\ records' = [records EXCEPT ![d.op] = r]
        /\ conflicts' = IF Held(r) THEN conflicts ELSE release(conflicts, {d.op})
    BY <2>1 DEF recordReceipt, CanRecordReceipt
  <2> HIDE DEF r
  <2>4. CASE Held(r)
    BY <1>0, <2>2, <2>3, <2>4 DEF Owns
  <2>5. CASE ~Held(r)
    BY <1>0, <2>2, <2>3, <2>5, ReleaseOwnership
  <2>6. QED BY <2>4, <2>5
<1>4. CASE \E d \in issued, resolution \in Resolutions : reconcile(d, resolution)
  <2>1. PICK d \in issued, resolution \in Resolutions : reconcile(d, resolution) BY <1>4
  <2>2. d.op \in Operations /\ ClaimOf(d) \in Claim /\ records[d.op] \in Record
    BY DEF TypeOK, Delivery, ClaimOf, Claim
  <2> DEFINE r == reconcileActionRecord(d.op, ClaimOf(d), resolution)
             new == IF r.status = "pending" /\ ~Open(d.op)
                    THEN retirePendingActionRecord(r) ELSE r
             settled == ~IsReplay(records[d.op], r.receipt) /\ ~Held(r)
             receipt == prepareReceipt(ClaimOf(d), outcomeOf(resolution))
  <2>3. /\ records' = [records EXCEPT ![d.op] = new]
        /\ conflicts' = IF settled THEN release(conflicts, {d.op}) ELSE conflicts
        /\ CanReconcile(records[d.op], ClaimOf(d), resolution)
    BY <2>1 DEF reconcile
  <2>4. r \in Record
    BY <2>2, AnswerTypes, TransitionTypes DEF reconcileActionRecord
  <2>5. retirePendingActionRecord(r).status = "failed"
    BY <2>4, TransitionHeld
  <2>6. Held(new) <=> Held(r)
    BY <2>5 DEF Held
  <2>7. CASE IsReplay(records[d.op], receipt)
    <3>1. r = records[d.op] /\ r.receipt = receipt
      BY <2>7 DEF reconcileActionRecord, IsReplay
    <3>2. ~settled
      BY <2>7, <3>1
    <3>3. QED BY <1>0, <2>2, <2>3, <2>6, <3>1, <3>2 DEF Owns
  <2>8. CASE ~IsReplay(records[d.op], receipt)
    <3>1. Held(records[d.op])
      BY <2>3, <2>8 DEF CanReconcile
    <3>2. r.receipt = receipt
      BY <2>2, <2>8 DEF reconcileActionRecord, Resolve, Record
    <3>3. CASE Held(r)
      BY <1>0, <2>2, <2>3, <2>6, <3>1, <3>3 DEF Owns
    <3>4. CASE ~Held(r)
      <4>1. settled BY <2>8, <3>2, <3>4
      <4>2. QED BY <1>0, <2>2, <2>3, <2>6, <3>4, <4>1, ReleaseOwnership
    <3>5. QED BY <3>3, <3>4
  <2>9. QED BY <2>7, <2>8
<1>5. CASE \E op \in Operations, outcome \in {"advanced", "source_failed"} :
             settleGoalProjection(op, outcome)
  <2>1. PICK op \in Operations, outcome \in {"advanced", "source_failed"} :
          settleGoalProjection(op, outcome)
    BY <1>5
  <2>2. records' = [records EXCEPT ![op].goal = outcome] /\ conflicts' = conflicts
    BY <2>1 DEF settleGoalProjection
  <2>3. \A o \in Operations : records'[o].status = records[o].status
    BY <1>0, <2>2 DEF Record
  <2>4. QED BY <2>2, <2>3 DEF Owns, Held
<1>6. CASE \E stream \in Streams, batch \in SUBSET Operations :
             purgeTerminal(stream, batch)
  <2>1. PICK stream \in Streams, batch \in SUBSET Operations :
          purgeTerminal(stream, batch)
    BY <1>6
  <2>2. /\ records' = [op \in Operations |-> IF op \in batch THEN NoRecord ELSE records[op]]
        /\ conflicts' = release(conflicts, batch)
        /\ \A op \in batch : ~Held(records[op])
    BY <2>1 DEF purgeTerminal, Purgeable, Terminal, Held
  <2>3. conflicts' = conflicts
    BY <1>0, <2>2, ReleaseIdle
  <2>4. ~Held(NoRecord)
    BY DEF Held, NoRecord, Unclaimed
  <2>5. QED BY <2>2, <2>3, <2>4 DEF Owns
<1>7. CASE UNCHANGED <<records, conflicts>>
  BY <1>7
<1>8. QED
  BY <1>1, <1>2, <1>3, <1>4, <1>5, <1>6, <1>7
  DEF Next, vars, journalVars, recoverDelivery, closeAuthority, Lapse, GameCommit, GameRefuse

(* The conflict table names exactly the Actions in flight, in every        *)
(* reachable state of every session.                                       *)
THEOREM ConflictTableExact == Spec => []ConflictOwnership
<1>1. Init => Owns(records, conflicts)
  BY JournalAssumption DEF Init, Owns, Held, NoRecord, Unclaimed
<1>2. Owns(records, conflicts) <=> ConflictOwnership
  BY DEF Owns, ConflictOwnership
<1>3. Owns(records, conflicts)' <=> Owns(records', conflicts')
  BY DEF Owns, Held
<1>4. TypeOK /\ Owns(records, conflicts) /\ [Next]_vars => Owns(records, conflicts)'
  BY <1>3, NextOwnership
<1>5. Spec => []Owns(records, conflicts)
  BY <1>1, <1>4, TypeCorrect, PTL DEF Spec
<1>6. QED BY <1>2, <1>5, PTL

(* No two Actions of a session are ever in flight on a common conflict     *)
(* key, whatever their actors, runs and replay policies.                   *)
THEOREM ConflictsExclude == Spec => []ConflictExclusion
<1>1. TypeOK /\ ConflictOwnership => ConflictExclusion
  BY JournalAssumption DEF TypeOK, ConflictOwnership, ConflictExclusion
<1>2. QED BY <1>1, TypeCorrect, ConflictTableExact, PTL

-----------------------------------------------------------------------------
(* The inductive invariant *)

(* Claim tokens and admission numbers are never used twice, and only       *)
(* granted tokens lapse, are refused, or change the world.                 *)
Numbered ==
  /\ \A d \in issued : d.token \in 1 .. tokens /\ d.sequence \in 1 .. admissions
  /\ \A d, e \in issued : d.token = e.token => d = e
  /\ lapsed \cup effects \cup fenced \subseteq 1 .. tokens
  /\ effects \cap fenced = {}
  /\ \A op \in Operations :
       /\ records[op].sequence \in 0 .. admissions
       /\ records[op].status # "absent" => records[op].sequence # 0

(* Delivery d granted the claim that r, the record of its Action, holds.   *)
Grants(d, op, r) ==
  /\ d.op = op /\ d.sequence = r.sequence
  /\ d.token = r.claim.token /\ d.attempt = r.claim.attempt

Holds(d, r) == Held(r) /\ d.token = r.claim.token

(* The game will not change the world under d any more. *)
Spent(d) ==
  Applied(d) \/ d.token \in fenced \/ (PolicyOf[d.op] = "safe" /\ d.token \in lapsed)

AttemptsAt(op, r) == {d \in issued : d.op = op /\ d.sequence = r.sequence}

ClaimGranted(op, r) == Held(r) => \E d \in issued : Grants(d, op, r)

OthersSpent(op, r) == \A d \in issued : d.op = op => Holds(d, r) \/ Spent(d)

OneEffect(op) ==
  \A d, e \in issued :
    /\ d.op = op /\ e.op = op /\ d.sequence = e.sequence
    /\ d.token \in effects /\ e.token \in effects
    => d = e

(* Where the change of an Action that the game does not deduplicate is.    *)
EffectKnown(op, r) ==
  PolicyOf[op] # "safe" =>
    \A d \in AttemptsAt(op, r) : d.token \in effects =>
      Holds(d, r) \/ (r.status = "succeeded" /\ r.receipt.token = d.token)

(* What was refused was refused before any attempt changed the world.      *)
RefusedUnapplied(op, r) ==
  Held(r) /\ r.claim.token \in fenced =>
    \A d \in AttemptsAt(op, r) : d.token \notin effects

Superseded(op, r) ==
  Held(r) => \A d \in AttemptsAt(op, r) : Holds(d, r) \/ d.token \in fenced \cup lapsed

Committed(op, r) ==
  r.status = "succeeded" =>
    \E d \in issued : /\ d.op = op /\ d.token \in effects
                      /\ PolicyOf[op] # "safe" => d.token = r.receipt.token

Unapplied(op, r) ==
  r.status \in {"pending", "failed"} =>
    \A d \in AttemptsAt(op, r) : d.token \notin effects /\ d.token \in fenced \cup lapsed

Accounted(op, r) ==
  /\ ClaimGranted(op, r)
  /\ OthersSpent(op, r)
  /\ OneEffect(op)
  /\ EffectKnown(op, r)
  /\ RefusedUnapplied(op, r)
  /\ Superseded(op, r)
  /\ Committed(op, r)
  /\ Unapplied(op, r)

Accountable == Numbered /\ \A op \in Operations : Accounted(op, records[op])

-----------------------------------------------------------------------------
(* What the steps do to the account of one Action *)

(* The account of an Action is the same as long as its claim, its          *)
(* admission and what its status says of the world are.                    *)
LEMMA KeptAccount ==
  ASSUME NEW op, NEW r, NEW s, Accounted(op, r),
         s.sequence = r.sequence, s.claim = r.claim, Held(s) <=> Held(r),
         s.status = "succeeded" <=> r.status = "succeeded",
         s.status = "succeeded" => s.receipt = r.receipt,
         s.status \in {"pending", "failed"} => r.status \in {"pending", "failed"}
  PROVE  Accounted(op, s)
<1>1. AttemptsAt(op, s) = AttemptsAt(op, r) /\ \A d : Holds(d, s) <=> Holds(d, r)
  BY DEF AttemptsAt, Holds
<1>2. ClaimGranted(op, s)
  BY DEF Accounted, ClaimGranted, Grants
<1>3. OthersSpent(op, s) /\ Superseded(op, s) /\ RefusedUnapplied(op, s)
  BY <1>1 DEF Accounted, OthersSpent, Superseded, RefusedUnapplied
<1>4. EffectKnown(op, s)
  BY <1>1 DEF Accounted, EffectKnown
<1>5. Committed(op, s) /\ Unapplied(op, s)
  BY <1>1 DEF Accounted, Committed, Unapplied
<1>6. QED BY <1>2, <1>3, <1>4, <1>5 DEF Accounted

(* A claim is settled by an honest answer of the game about it.            *)
LEMMA SettledAccount ==
  ASSUME Numbered, NEW d \in issued, NEW r, NEW s, Accounted(d.op, r),
         Held(r), r.claim = ClaimOf(d), s.sequence = r.sequence, ~Held(s),
         \/ s.status = "succeeded" /\ Applied(d) /\ s.receipt.token = d.token
         \/ s.status \in {"pending", "failed"} /\ d.token \in fenced
  PROVE  Accounted(d.op, s)
<1> DEFINE op == d.op
<1>1. AttemptsAt(op, s) = AttemptsAt(op, r)
  BY DEF AttemptsAt
<1>2. \A e \in issued : Holds(e, r) <=> e = d
  BY DEF Holds, ClaimOf, Numbered
<1>3. Spent(d)
  BY DEF Spent, Held
<1>4. ClaimGranted(op, s) /\ RefusedUnapplied(op, s) /\ Superseded(op, s)
  BY DEF ClaimGranted, RefusedUnapplied, Superseded
<1>5. OthersSpent(op, s)
  BY <1>2, <1>3 DEF Accounted, OthersSpent
<1>6. EffectKnown(op, s)
  <2>1. SUFFICES ASSUME PolicyOf[op] # "safe", NEW e \in AttemptsAt(op, r), e.token \in effects
                 PROVE  s.status = "succeeded" /\ s.receipt.token = e.token
    BY <1>1 DEF EffectKnown
  <2>2. e = d
    BY <1>2, <2>1 DEF Accounted, EffectKnown, Held, AttemptsAt
  <2>3. d.token \notin fenced
    BY <2>1, <2>2 DEF Numbered
  <2>4. QED BY <2>2, <2>3
<1>7. Committed(op, s)
  BY DEF Committed, Applied
<1>8. Unapplied(op, s)
  <2>1. SUFFICES ASSUME s.status \in {"pending", "failed"}, NEW e \in AttemptsAt(op, r)
                 PROVE  e.token \notin effects /\ e.token \in fenced \cup lapsed
    BY <1>1 DEF Unapplied
  <2>2. d.token \in fenced /\ r.claim.token = d.token
    BY <2>1 DEF ClaimOf
  <2>3. e.token \notin effects
    BY <2>2 DEF Accounted, RefusedUnapplied
  <2>4. e.token \in fenced \cup lapsed
    BY <1>2, <2>2 DEF Accounted, Superseded, AttemptsAt
  <2>5. QED BY <2>3, <2>4
<1>9. QED BY <1>4, <1>5, <1>6, <1>7, <1>8 DEF Accounted

(* A record that is admitted, or purged after it was settled, has no       *)
(* attempts, and those of the Action's earlier records stay spent.         *)
LEMMA FreshAccount ==
  ASSUME NEW op, NEW r, NEW s, Accounted(op, r), ~Held(r),
         s.status \in {"absent", "pending"}, AttemptsAt(op, s) = {}
  PROVE  Accounted(op, s)
<1>1. ~Held(s)
  BY DEF Held
<1>2. OthersSpent(op, s)
  BY DEF Accounted, OthersSpent, Holds
<1>3. QED
  BY <1>1, <1>2 DEF Accounted, ClaimGranted, EffectKnown, RefusedUnapplied, Superseded,
                    Committed, Unapplied

(* An account is about the deliveries of its own Action only.              *)
LEMMA OwnAccount ==
  ASSUME NEW op, NEW r, Accounted(op, r), r = records'[op],
         \A d \in issued' : d.op = op => d \in issued, issued \subseteq issued',
         UNCHANGED <<lapsed, effects, fenced>>
  PROVE  Accounted(op, records[op])'
<1>1. AttemptsAt(op, records[op])' = AttemptsAt(op, r)
  BY DEF AttemptsAt
<1>2. \A d \in issued : d.op = op => (Spent(d)' <=> Spent(d))
  BY DEF Spent, Applied
<1>3. ClaimGranted(op, records[op])'
  BY DEF Accounted, ClaimGranted, Grants, Held
<1>4. OthersSpent(op, records[op])'
  BY <1>2 DEF Accounted, OthersSpent, Holds, Held
<1>5. OneEffect(op)'
  BY DEF Accounted, OneEffect
<1>6. (EffectKnown(op, records[op]) /\ RefusedUnapplied(op, records[op])
       /\ Superseded(op, records[op]) /\ Unapplied(op, records[op]))'
  BY <1>1 DEF Accounted, EffectKnown, RefusedUnapplied, Superseded, Unapplied, Holds, Held
<1>7. Committed(op, records[op])'
  BY DEF Accounted, Committed
<1>8. QED BY <1>3, <1>4, <1>5, <1>6, <1>7 DEF Accounted

(* A new claim is granted for a pending Action, or for a safe one whose    *)
(* claim has lapsed.                                                       *)
LEMMA ClaimedAccount ==
  ASSUME TypeOK, Numbered, NEW op \in Operations, NEW r \in Record, Accounted(op, r),
         \/ r.status = "pending"
         \/ Held(r) /\ PolicyOf[op] = "safe" /\ r.claim.token \in lapsed,
         NEW d \in Delivery, d.op = op, d.token = tokens + 1, d.attempt = r.attempt + 1,
         d.sequence = r.sequence,
         issued' = issued \cup {d}, UNCHANGED <<lapsed, effects, fenced>>,
         records'[op] = claimActionRecord(r, tokens + 1)
  PROVE  Accounted(op, records[op])'
<1> DEFINE s == records'[op]
<1>1. /\ Held(s) /\ s.status = "claimed" /\ s.sequence = r.sequence
      /\ s.claim = [token |-> d.token, attempt |-> d.attempt]
  BY DEF claimActionRecord, Held, Record
<1>2. /\ tokens \in Nat /\ tokens + 1 \notin lapsed \cup effects \cup fenced
      /\ \A e \in issued : e.token # tokens + 1
  BY DEF Numbered, TypeOK
<1>3. \A e \in issued' : Holds(e, s) <=> e = d
  BY <1>1, <1>2 DEF Holds
<1>4. \A e \in issued : Spent(e) => Spent(e)'
  BY DEF Spent, Applied
<1>5. \A e \in issued : e.op = op => Spent(e)
  <2>1. CASE r.status = "pending"
    BY <2>1 DEF Accounted, OthersSpent, Holds, Held
  <2>2. CASE Held(r) /\ PolicyOf[op] = "safe" /\ r.claim.token \in lapsed
    BY <2>2 DEF Accounted, OthersSpent, Holds, Spent
  <2>3. QED BY <2>1, <2>2
<1>6. \A e \in AttemptsAt(op, r) : e.token \in fenced \cup lapsed
  <2>1. CASE r.status = "pending"
    BY <2>1 DEF Accounted, Unapplied
  <2>2. CASE Held(r) /\ PolicyOf[op] = "safe" /\ r.claim.token \in lapsed
    BY <2>2 DEF Accounted, Superseded, Holds
  <2>3. QED BY <2>1, <2>2
<1>7. PolicyOf[op] # "safe" => \A e \in AttemptsAt(op, r) : e.token \notin effects
  BY DEF Accounted, Unapplied
<1>8. AttemptsAt(op, records[op])' = AttemptsAt(op, r) \cup {d}
  BY <1>1 DEF AttemptsAt
<1> HIDE DEF s
<1>9. ClaimGranted(op, records[op])'
  BY <1>1 DEF ClaimGranted, Grants, s, Held
<1>10. OthersSpent(op, records[op])'
  BY <1>3, <1>4, <1>5 DEF OthersSpent, s, Holds, Held
<1>11. OneEffect(op)'
  BY <1>2 DEF Accounted, OneEffect
<1>12. EffectKnown(op, records[op])'
  BY <1>2, <1>7, <1>8 DEF EffectKnown
<1>13. RefusedUnapplied(op, records[op])'
  BY <1>1, <1>2 DEF RefusedUnapplied, s
<1>14. Superseded(op, records[op])'
  BY <1>1, <1>3, <1>6, <1>8 DEF Superseded, s, Holds, Held
<1>15. Committed(op, records[op])' /\ Unapplied(op, records[op])'
  BY <1>1 DEF Committed, Unapplied, s
<1>16. QED BY <1>9, <1>10, <1>11, <1>12, <1>13, <1>14, <1>15 DEF Accounted

(* The game changes the world only under the claim that a record holds:    *)
(* all other deliveries are spent.                                         *)
LEMMA CommitAccount ==
  ASSUME TypeOK, Numbered, NEW d \in issued, GameCommit(d),
         NEW op \in Operations, Accounted(op, records[op])
  PROVE  Accounted(op, records[op])'
<1> DEFINE r == records[op]
<1>1. /\ effects' = effects \cup {d.token}
      /\ UNCHANGED <<records, issued, lapsed, fenced>>
      /\ ~Spent(d)
  BY DEF GameCommit, Spent, journalVars, workerVars
<1>2. \A e \in issued : Spent(e) => Spent(e)'
  BY <1>1 DEF Spent, Applied
<1>3. \A e \in issued : e # d => (e.token \in effects' <=> e.token \in effects)
  BY <1>1 DEF Numbered
<1>4. AttemptsAt(op, records[op])' = AttemptsAt(op, r)
  BY <1>1 DEF AttemptsAt
<1>5. ClaimGranted(op, records[op])'
  BY <1>1 DEF Accounted, ClaimGranted, Grants, Held
<1>6. OthersSpent(op, records[op])'
  BY <1>1, <1>2 DEF Accounted, OthersSpent, Holds, Held
<1>7. Superseded(op, records[op])'
  BY <1>1, <1>4 DEF Accounted, Superseded, Holds, Held
<1>8. Committed(op, records[op])'
  BY <1>1 DEF Accounted, Committed
<1>9. CASE op # d.op
  <2>1. \A e \in issued : e.op = op => (e.token \in effects' <=> e.token \in effects)
    BY <1>3, <1>9
  <2>2. OneEffect(op)'
    BY <1>1, <2>1 DEF Accounted, OneEffect
  <2>3. EffectKnown(op, records[op])'
    BY <1>1, <1>4, <2>1 DEF Accounted, EffectKnown, AttemptsAt, Holds, Held
  <2>4. RefusedUnapplied(op, records[op])'
    BY <1>1, <1>4, <2>1 DEF Accounted, RefusedUnapplied, AttemptsAt, Held
  <2>5. Unapplied(op, records[op])'
    BY <1>1, <1>4, <2>1 DEF Accounted, Unapplied, AttemptsAt
  <2>6. QED BY <1>5, <1>6, <1>7, <1>8, <2>2, <2>3, <2>4, <2>5 DEF Accounted
<1>10. CASE op = d.op
  <2>1. Holds(d, r) /\ Held(r) /\ r.claim.token = d.token
    BY <1>1, <1>10 DEF Accounted, OthersSpent, Holds
  <2>2. d.sequence = r.sequence
    BY <2>1 DEF Accounted, ClaimGranted, Grants, Numbered
  <2>3. \A e \in AttemptsAt(op, r) : e.token \notin effects
    <3>1. CASE PolicyOf[op] = "safe"
      BY <1>1, <1>10, <3>1 DEF Spent, Applied, AttemptsAt
    <3>2. CASE PolicyOf[op] # "safe"
      <4>1. SUFFICES ASSUME NEW e \in AttemptsAt(op, r), e.token \in effects PROVE FALSE
        OBVIOUS
      <4>2. e.token = d.token
        BY <2>1, <3>2, <4>1 DEF Accounted, EffectKnown, Holds, Held
      <4>3. QED BY <1>1, <1>10, <3>2, <4>1, <4>2 DEF Spent, Applied
    <3>3. QED BY <3>1, <3>2
  <2>4. OneEffect(op)'
    <3>1. SUFFICES ASSUME NEW e \in issued, NEW f \in issued, e.op = op, f.op = op,
                          e.sequence = f.sequence, e.token \in effects', f.token \in effects'
                   PROVE  e = f
      BY <1>1 DEF OneEffect
    <3>2. CASE e.sequence = r.sequence
      BY <1>3, <2>3, <3>1, <3>2 DEF AttemptsAt
    <3>3. CASE e.sequence # r.sequence
      BY <1>3, <2>2, <3>1, <3>3 DEF Accounted, OneEffect
    <3>4. QED BY <3>2, <3>3
  <2>5. EffectKnown(op, records[op])'
    BY <1>1, <1>3, <1>4, <2>1, <2>3 DEF EffectKnown, AttemptsAt, Holds, Held
  <2>6. RefusedUnapplied(op, records[op])' /\ Unapplied(op, records[op])'
    BY <1>1, <2>1 DEF RefusedUnapplied, Unapplied, Spent, Held
  <2>7. QED BY <1>5, <1>6, <1>7, <1>8, <2>4, <2>5, <2>6 DEF Accounted
<1>11. QED BY <1>9, <1>10

(* A refusal, or a lapse, only rules changes out.                          *)
LEMMA RefuseAccount ==
  ASSUME TypeOK, Numbered, NEW d \in issued, GameRefuse(d) \/ Lapse(d),
         NEW op \in Operations, Accounted(op, records[op])
  PROVE  Accounted(op, records[op])'
<1> DEFINE r == records[op]
<1>1. /\ UNCHANGED <<records, issued, effects>>
      /\ lapsed \subseteq lapsed' /\ fenced \subseteq fenced'
      /\ fenced' # fenced => fenced' = fenced \cup {d.token} /\ ~Applied(d)
  BY DEF GameRefuse, Lapse, journalVars, workerVars, gameVars
<1>2. \A e \in issued : Spent(e) => Spent(e)'
  BY <1>1 DEF Spent, Applied
<1>3. AttemptsAt(op, records[op])' = AttemptsAt(op, r)
  BY <1>1 DEF AttemptsAt
<1>4. ClaimGranted(op, records[op])' /\ OneEffect(op)' /\ Committed(op, records[op])'
  BY <1>1 DEF Accounted, ClaimGranted, Grants, Held, OneEffect, Committed
<1>5. OthersSpent(op, records[op])'
  BY <1>1, <1>2 DEF Accounted, OthersSpent, Holds, Held
<1>6. EffectKnown(op, records[op])' /\ Superseded(op, records[op])' /\ Unapplied(op, records[op])'
  BY <1>1, <1>3 DEF Accounted, EffectKnown, Superseded, Unapplied, Holds, Held
<1>7. RefusedUnapplied(op, records[op])'
  <2>1. SUFFICES ASSUME Held(r), r.claim.token \in fenced', NEW e \in AttemptsAt(op, r)
                 PROVE  e.token \notin effects
    BY <1>1, <1>3 DEF RefusedUnapplied, Held
  <2>2. CASE r.claim.token \in fenced
    BY <2>1, <2>2 DEF Accounted, RefusedUnapplied
  <2>3. CASE r.claim.token \notin fenced
    <3>1. r.claim.token = d.token /\ ~Applied(d)
      BY <1>1, <2>1, <2>3
    <3>2. d.op = op
      BY <2>1, <3>1 DEF Accounted, ClaimGranted, Grants, Numbered
    <3>3. CASE PolicyOf[op] = "safe"
      BY <3>1, <3>2, <3>3 DEF Applied, AttemptsAt
    <3>4. CASE PolicyOf[op] # "safe"
      BY <2>1, <3>1, <3>2, <3>4 DEF Accounted, EffectKnown, Applied, Holds, Held
    <3>5. QED BY <3>3, <3>4
  <2>4. QED BY <2>2, <2>3
<1>8. QED BY <1>4, <1>5, <1>6, <1>7 DEF Accounted

-----------------------------------------------------------------------------
(* One lemma per operation of the journal *)

(* Where the records keep their admission numbers and nothing is issued,   *)
(* numbering is kept too.                                                  *)
LEMMA KeptNumbers ==
  ASSUME TypeOK, Numbered, UNCHANGED <<issued, tokens, admissions, lapsed, effects, fenced>>,
         \A op \in Operations :
           \/ /\ records'[op].sequence = records[op].sequence
              /\ records[op].status = "absent" => records'[op].status = "absent"
           \/ records'[op] = NoRecord
  PROVE  Numbered'
  BY DEF Numbered, TypeOK, NoRecord, Unclaimed

(* Admission: the record's number is new, so it has no attempts yet.       *)
LEMMA EnsureAccounts ==
  ASSUME TypeOK, Accountable, NEW o \in Operations, ensure(o)
  PROVE  Accountable'
<1> DEFINE s == Unclaimed("pending", admissions + 1)
<1>1. /\ records' = [records EXCEPT ![o] = s]
      /\ admissions' = admissions + 1 /\ records[o].status = "absent"
      /\ UNCHANGED <<tokens, issued, lapsed, effects, fenced>>
  BY DEF ensure, workerVars, gameVars
<1>2. s.status = "pending" /\ s.sequence = admissions + 1
  BY DEF Unclaimed
<1> HIDE DEF s
<1>3. admissions \in Nat /\ records \in [Operations -> Record]
  BY DEF TypeOK
<1>4. ASSUME NEW op \in Operations
      PROVE  /\ records'[op].sequence \in 0 .. admissions'
             /\ records'[op].status # "absent" => records'[op].sequence # 0
  <2>1. /\ records[op].sequence \in 0 .. admissions
        /\ records[op].status # "absent" => records[op].sequence # 0
    BY DEF Accountable, Numbered
  <2>2. QED BY <1>1, <1>2, <1>3, <2>1
<1>5. Numbered'
  <2>1. ASSUME NEW d \in issued PROVE d.token \in 1 .. tokens /\ d.sequence \in 1 .. admissions'
    <3>1. d.token \in 1 .. tokens /\ d.sequence \in 1 .. admissions
      BY DEF Accountable, Numbered
    <3>2. QED BY <1>1, <1>3, <3>1
  <2>2. QED BY <1>1, <1>4, <2>1 DEF Accountable, Numbered
<1>6. AttemptsAt(o, s) = {}
  BY <1>2, <1>3 DEF Accountable, Numbered, AttemptsAt
<1>7. ASSUME NEW op \in Operations PROVE Accounted(op, records[op])'
  <2>1. CASE op = o
    <3>1. Accounted(o, s)
      BY <1>1, <1>2, <1>6, FreshAccount DEF Accountable, Held
    <3>2. QED BY <1>1, <1>3, <2>1, <3>1, OwnAccount
  <2>2. CASE op # o
    BY <1>1, <1>3, <2>2, OwnAccount DEF Accountable
  <2>3. QED BY <2>1, <2>2
<1>8. QED BY <1>5, <1>7 DEF Accountable

(* Purging drops settled records only.                                     *)
LEMMA PurgeAccounts ==
  ASSUME TypeOK, Accountable, NEW stream \in Streams, NEW batch \in SUBSET Operations,
         purgeTerminal(stream, batch)
  PROVE  Accountable'
<1>1. /\ records' = [op \in Operations |-> IF op \in batch THEN NoRecord ELSE records[op]]
      /\ \A op \in batch : ~Held(records[op])
      /\ UNCHANGED <<tokens, admissions, issued, lapsed, effects, fenced>>
  BY DEF purgeTerminal, Purgeable, Terminal, Held, workerVars, gameVars
<1>2. NoRecord.status = "absent" /\ NoRecord.sequence = 0
  BY DEF NoRecord, Unclaimed
<1>3. \A op : AttemptsAt(op, NoRecord) = {}
  BY <1>2 DEF Accountable, Numbered, AttemptsAt
<1>4. ASSUME NEW op \in Operations PROVE Accounted(op, records[op])'
  <2>1. CASE op \in batch
    BY <1>1, <1>2, <1>3, <2>1, FreshAccount, OwnAccount DEF Accountable
  <2>2. CASE op \notin batch
    BY <1>1, <2>2, OwnAccount DEF Accountable
  <2>3. QED BY <2>1, <2>2
<1>5. QED BY <1>1, <1>2, <1>4, KeptNumbers DEF Accountable

(* A step that rewrites one record and whose new record accounts for the   *)
(* same deliveries keeps every account.                                    *)
LEMMA OneRecordAccounts ==
  ASSUME TypeOK, Accountable, NEW o \in Operations, NEW s, Accounted(o, s),
         records' = [records EXCEPT ![o] = s], s.sequence = records[o].sequence,
         records[o].status = "absent" => s.status = "absent",
         UNCHANGED <<tokens, admissions, issued, lapsed, effects, fenced>>
  PROVE  Accountable'
<1>1. ASSUME NEW op \in Operations PROVE Accounted(op, records[op])'
  BY OwnAccount DEF Accountable, TypeOK
<1>2. QED BY <1>1, KeptNumbers DEF Accountable, TypeOK

(* A receipt for the live claim settles it, or leaves it uncertain.        *)
LEMMA ReceiptAccounts ==
  ASSUME TypeOK, Accountable, NEW d \in issued, NEW outcome \in Outcomes,
         recordReceipt(d, outcome)
  PROVE  Accountable'
<1> DEFINE r == records[d.op]
           s == receiptActionRecord(r, ClaimOf(d), outcome)
<1>1. /\ Honest(d, outcome) /\ Held(r) /\ r.claim = ClaimOf(d)
      /\ records' = [records EXCEPT ![d.op] = s]
      /\ UNCHANGED <<tokens, admissions, issued, lapsed, effects, fenced>>
  BY DEF recordReceipt, CanRecordReceipt, workerVars, gameVars
<1>2. d.op \in Operations /\ r \in Record
  BY DEF TypeOK, Delivery
<1>3. /\ s.status = receiptStatus(outcome) /\ s.sequence = r.sequence
      /\ s.receipt.token = d.token
      /\ s.status = "uncertain" => s.claim = r.claim
  BY <1>2 DEF receiptActionRecord, Resolve, prepareReceipt, ClaimOf, Record
<1>4. Accounted(d.op, r)
  BY <1>2 DEF Accountable
<1> HIDE DEF s
<1>5. Accounted(d.op, s)
  <2>1. CASE outcome = "succeeded"
    <3>1. s.status = "succeeded" /\ Applied(d) /\ ~Held(s)
      BY <1>1, <1>3, <2>1 DEF receiptStatus, Honest, Held
    <3>2. QED BY <1>1, <1>3, <1>4, <3>1, SettledAccount DEF Accountable
  <2>2. CASE outcome = "rejected"
    <3>1. s.status = "failed" /\ d.token \in fenced /\ ~Held(s)
      BY <1>1, <1>3, <2>2 DEF receiptStatus, Honest, Held
    <3>2. QED BY <1>1, <1>3, <1>4, <3>1, SettledAccount DEF Accountable
  <2>3. CASE outcome = "unknown"
    <3>1. s.status = "uncertain" /\ Held(s)
      BY <1>3, <2>3 DEF receiptStatus, Held
    <3>2. r.status # "succeeded"
      BY <1>1 DEF Held
    <3>3. QED BY <1>1, <1>3, <1>4, <3>1, <3>2, KeptAccount
  <2>4. QED BY <2>1, <2>2, <2>3 DEF Outcomes
<1>6. r.status # "absent"
  BY <1>1 DEF Held
<1>7. QED BY <1>1, <1>2, <1>3, <1>5, <1>6, OneRecordAccounts

(* So does an answer to a reconcile delivery; one that is repeated changes *)
(* nothing, except that it retires an Action whose run was closed.         *)
LEMMA ReconcileAccounts ==
  ASSUME TypeOK, Accountable, NEW d \in issued, NEW resolution \in Resolutions,
         reconcile(d, resolution)
  PROVE  Accountable'
<1> DEFINE r == records[d.op]
           receipt == prepareReceipt(ClaimOf(d), outcomeOf(resolution))
           s == reconcileActionRecord(d.op, ClaimOf(d), resolution)
           new == IF s.status = "pending" /\ ~Open(d.op) THEN retirePendingActionRecord(s) ELSE s
<1>1. /\ Honest(d, outcomeOf(resolution)) /\ CanReconcile(r, ClaimOf(d), resolution)
      /\ records' = [records EXCEPT ![d.op] = new]
      /\ UNCHANGED <<tokens, admissions, issued, lapsed, effects, fenced>>
  BY DEF reconcile, workerVars, gameVars
<1>2. d.op \in Operations /\ r \in Record /\ ClaimOf(d) \in Claim
  BY DEF TypeOK, Delivery, ClaimOf, Claim
<1>3. Accounted(d.op, r)
  BY <1>2 DEF Accountable
<1>4. s \in Record
  BY <1>2, AnswerTypes, TransitionTypes DEF reconcileActionRecord
<1>5. /\ Accounted(d.op, s) /\ s.sequence = r.sequence
      /\ r.status = "absent" => s.status = "absent"
  <2>1. CASE IsReplay(r, receipt)
    BY <1>3, <2>1 DEF reconcileActionRecord
  <2>2. CASE ~IsReplay(r, receipt)
    <3>1. Held(r) /\ r.claim = ClaimOf(d)
      BY <1>1, <2>2 DEF CanReconcile
    <3>2. /\ s.status = reconcileStatus(d.op, resolution) /\ s.sequence = r.sequence
          /\ s.receipt.token = d.token
          /\ s.status = "uncertain" => s.claim = r.claim
      BY <1>2, <2>2 DEF reconcileActionRecord, Resolve, prepareReceipt, ClaimOf, Record
    <3>0. r.status # "absent"
      BY <3>1 DEF Held
    <3> HIDE DEF s
    <3>3. CASE resolution = "applied"
      <4>1. s.status = "succeeded" /\ Applied(d) /\ ~Held(s)
        BY <1>1, <3>2, <3>3 DEF reconcileStatus, outcomeOf, Honest, Held
      <4>2. QED BY <1>3, <3>1, <3>2, <4>1, <3>0, SettledAccount DEF Accountable
    <3>4. CASE resolution = "not-applied"
      <4>1. s.status \in {"pending", "failed"} /\ d.token \in fenced /\ ~Held(s)
        BY <1>1, <3>2, <3>4 DEF reconcileStatus, outcomeOf, Honest, Held
      <4>2. QED BY <1>3, <3>1, <3>2, <4>1, <3>0, SettledAccount DEF Accountable
    <3>5. CASE resolution = "unknown"
      <4>1. s.status = "uncertain" /\ Held(s)
        BY <3>2, <3>5 DEF reconcileStatus, Held
      <4>2. r.status # "succeeded"
        BY <3>1 DEF Held
      <4>3. QED BY <1>3, <3>1, <3>2, <3>0, <4>1, <4>2, KeptAccount
    <3>6. QED BY <3>3, <3>4, <3>5 DEF Resolutions
  <2>3. QED BY <2>1, <2>2
<1> HIDE DEF s
<1>6. /\ Accounted(d.op, new) /\ new.sequence = s.sequence
      /\ s.status = "absent" => new.status = "absent"
  <2>1. CASE s.status = "pending" /\ ~Open(d.op)
    <3>1. /\ new.status = "failed" /\ new.sequence = s.sequence /\ new.claim = s.claim
          /\ new.receipt = s.receipt
      BY <1>4, <2>1 DEF retirePendingActionRecord, Record
    <3>2. QED BY <1>5, <2>1, <3>1, KeptAccount DEF Held
  <2>2. CASE ~(s.status = "pending" /\ ~Open(d.op))
    BY <1>5, <2>2
  <2>3. QED BY <2>1, <2>2
<1>7. QED BY <1>1, <1>2, <1>5, <1>6, OneRecordAccounts

(* The projection of an Action to its Goal leaves the Action as it is.     *)
LEMMA ProjectionAccounts ==
  ASSUME TypeOK, Accountable, NEW op \in Operations, NEW outcome,
         settleGoalProjection(op, outcome)
  PROVE  Accountable'
<1> DEFINE s == [records[op] EXCEPT !.goal = outcome]
<1>1. records' = [records EXCEPT ![op] = s]
  BY DEF settleGoalProjection
<1>2. UNCHANGED <<tokens, admissions, issued, lapsed, effects, fenced>>
  BY DEF settleGoalProjection, workerVars, gameVars
<1>3. /\ s.status = records[op].status /\ s.sequence = records[op].sequence
      /\ s.claim = records[op].claim /\ s.receipt = records[op].receipt
  BY DEF TypeOK, Record
<1> HIDE DEF s
<1>4. Accounted(op, s)
  BY <1>3, KeptAccount DEF Accountable, Held
<1>5. QED BY <1>1, <1>2, <1>3, <1>4, OneRecordAccounts

(* What opens a delivery request changes no account, and leaves what it    *)
(* may replay as it is.                                                    *)
LEMMA MaintenanceAccounts ==
  ASSUME TypeOK, Accountable, NEW stream, NEW run, NEW due \in dueClaims(stream, run),
         NEW op \in Operations, NEW r,
         r = afterMaintenance(retireClosedPending(stream), due \ Replayable(due))[op]
  PROVE  /\ Accounted(op, r) /\ r.sequence = records[op].sequence
         /\ r.status = "absent" <=> records[op].status = "absent"
         /\ op \in Replayable(due) =>
              /\ r = records[op] /\ r.status = "claimed" /\ Open(op)
              /\ PolicyOf[op] = "safe" /\ r.claim.token \in lapsed
<1> DEFINE retired == retireClosedPending(stream)
           expired == due \ Replayable(due)
<1>1. /\ \A o \in retired : records[o].status = "pending"
      /\ \A o \in due : records[o].status = "claimed" /\ records[o].claim.token \in lapsed
      /\ \A o \in Replayable(due) : o \in due /\ PolicyOf[o] = "safe" /\ Open(o)
  BY DEF retireClosedPending, FirstOf, dueClaims, Replayable
<1>2. records[op] \in Record /\ Accounted(op, records[op])
  BY DEF TypeOK, Accountable
<1>3. r = IF op \in retired THEN retirePendingActionRecord(records[op])
          ELSE IF op \in expired THEN expireActionRecord(records[op])
          ELSE records[op]
  BY DEF afterMaintenance
<1> HIDE DEF retired
<1>4. CASE op \in retired
  <2>1. /\ r.status = "failed" /\ r.sequence = records[op].sequence
        /\ r.claim = records[op].claim /\ records[op].status = "pending"
    BY <1>1, <1>2, <1>3, <1>4 DEF retirePendingActionRecord, Record
  <2>2. Accounted(op, r)
    BY <1>2, <2>1, KeptAccount DEF Held
  <2>3. QED BY <1>1, <2>1, <2>2
<1>5. CASE op \notin retired /\ op \in expired
  <2>1. /\ r.status = "uncertain" /\ r.sequence = records[op].sequence
        /\ r.claim = records[op].claim /\ records[op].status = "claimed"
    BY <1>1, <1>2, <1>3, <1>5 DEF expireActionRecord, Record
  <2>2. Accounted(op, r)
    BY <1>2, <2>1, KeptAccount DEF Held
  <2>3. QED BY <1>5, <2>1, <2>2
<1>6. CASE op \notin retired /\ op \notin expired
  BY <1>1, <1>2, <1>3, <1>6
<1>7. QED BY <1>4, <1>5, <1>6

(* A delivery request claims a pending Action, or a safe one whose claim   *)
(* has lapsed, under a token that was never used before.                   *)
LEMMA NextDeliveryAccounts ==
  ASSUME TypeOK, Accountable,
         NEW stream \in Streams, NEW run \in Runs \cup {AnyRun}, nextDelivery(stream, run)
  PROVE  Accountable'
<1>0. PICK due \in dueClaims(stream, run) :
        selectDelivery(afterMaintenance(retireClosedPending(stream), due \ Replayable(due)),
                       release(conflicts, retireClosedPending(stream)),
                       stream, run, Replayable(due))
  BY DEF nextDelivery
<1> DEFINE recs == afterMaintenance(retireClosedPending(stream), due \ Replayable(due))
           c == release(conflicts, retireClosedPending(stream))
           replayable == Replayable(due)
<1>1. recs \in [Operations -> Record]
  BY MaintenanceTypes
<1>2. \A op \in Operations :
        /\ Accounted(op, recs[op]) /\ recs[op].sequence = records[op].sequence
        /\ recs[op].status = "absent" <=> records[op].status = "absent"
        /\ op \in replayable =>
             /\ recs[op].status = "claimed" /\ PolicyOf[op] = "safe"
             /\ recs[op].claim.token \in lapsed
  BY MaintenanceAccounts
<1>3. UNCHANGED <<admissions, lapsed, effects, fenced>>
  BY DEF nextDelivery, gameVars
<1>4. selectDelivery(recs, c, stream, run, replayable)
  BY <1>0
<1> HIDE DEF recs, c, replayable
<1>5. CASE records' = recs /\ UNCHANGED <<tokens, issued>>
  <2>1. \A op \in Operations : Accounted(op, records[op])'
    BY <1>1, <1>2, <1>3, <1>5, OwnAccount
  <2>2. Numbered'
    BY <1>2, <1>3, <1>5, KeptNumbers DEF Accountable
  <2>3. QED BY <2>1, <2>2 DEF Accountable
<1>6. CASE \E op \in claimCandidates(recs, c, stream, run, replayable) :
             claimPendingRecord(recs, c, op)
  <2>1. PICK op \in claimCandidates(recs, c, stream, run, replayable) :
          claimPendingRecord(recs, c, op)
    BY <1>6
  <2>2. op \in Operations /\ (recs[op].status = "pending" \/ op \in replayable)
    BY DEF claimCandidates, FirstOf, Oldest
  <2> DEFINE d == [op |-> op, token |-> tokens + 1, attempt |-> recs[op].attempt + 1,
                   sequence |-> recs[op].sequence]
             s == claimActionRecord(recs[op], tokens + 1)
  <2>3. /\ tokens' = tokens + 1 /\ issued' = issued \cup {d}
        /\ records' = [recs EXCEPT ![op] = s]
    BY <2>1 DEF claimPendingRecord
  <2>4. /\ recs[op] \in Record /\ tokens \in Nat /\ admissions \in Nat
        /\ recs[op].sequence \in 0 .. admissions
    BY <1>1, <1>2, <2>2 DEF TypeOK, Accountable, Numbered
  <2>5. d \in Delivery /\ d.op = op /\ d.token = tokens + 1 /\ d.attempt = recs[op].attempt + 1
        /\ d.sequence = recs[op].sequence
    BY <2>2, <2>4 DEF Delivery, Record
  <2>6. s.sequence = recs[op].sequence
    BY <2>4 DEF claimActionRecord, Record
  <2> HIDE DEF d, s
  <2>7. d.sequence \in 1 .. admissions
    BY <1>2, <2>2, <2>4, <2>5 DEF Accountable, Numbered
  <2>8. Accounted(op, records[op])'
    <3>1. records'[op] = s
      BY <1>1, <2>2, <2>3
    <3>2. \/ recs[op].status = "pending"
          \/ Held(recs[op]) /\ PolicyOf[op] = "safe" /\ recs[op].claim.token \in lapsed
      BY <1>2, <2>2 DEF Held
    <3>3. Accounted(op, recs[op])
      BY <1>2, <2>2
    <3>4. QED BY <1>3, <2>2, <2>3, <2>4, <2>5, <3>1, <3>2, <3>3, ClaimedAccount DEF Accountable, s
  <2>9. ASSUME NEW o \in Operations, o # op PROVE Accounted(o, records[o])'
    <3>1. records'[o] = recs[o] /\ Accounted(o, recs[o])
      BY <1>1, <1>2, <2>3, <2>9
    <3>2. \A e \in issued' : e.op = o => e \in issued
      BY <2>3, <2>5, <2>9
    <3>3. QED BY <1>3, <2>3, <3>1, <3>2, OwnAccount
  <2>10. Numbered'
    <3>1. ASSUME NEW o \in Operations
          PROVE  /\ records'[o].sequence \in 0 .. admissions
                 /\ records'[o].status # "absent" => records'[o].sequence # 0
      <4>1. CASE o = op
        BY <1>1, <2>2, <2>3, <2>4, <2>5, <2>6, <2>7, <4>1
      <4>2. CASE o # op
        BY <1>1, <1>2, <2>3, <4>2 DEF Accountable, Numbered
      <4>3. QED BY <4>1, <4>2
    <3>2. ASSUME NEW e \in issued'
          PROVE  e.token \in 1 .. tokens' /\ e.sequence \in 1 .. admissions
      BY <2>3, <2>4, <2>5, <2>7 DEF Accountable, Numbered
    <3>3. \A e, g \in issued' : e.token = g.token => e = g
      BY <2>3, <2>4, <2>5 DEF Accountable, Numbered
    <3>4. lapsed \cup effects \cup fenced \subseteq 1 .. tokens'
      BY <2>3, <2>4 DEF Accountable, Numbered
    <3>5. QED BY <1>3, <3>1, <3>2, <3>3, <3>4 DEF Accountable, Numbered
  <2>11. QED BY <2>8, <2>9, <2>10 DEF Accountable
<1>7. QED BY <1>4, <1>5, <1>6 DEF selectDelivery, DeliverReconcile

(* What the game and the clock do touches deliveries only.                 *)
LEMMA GameAccounts ==
  ASSUME TypeOK, Accountable, NEW d \in issued, GameCommit(d) \/ GameRefuse(d) \/ Lapse(d)
  PROVE  Accountable'
<1>1. /\ UNCHANGED <<records, tokens, admissions, issued>>
      /\ lapsed' \cup effects' \cup fenced' \subseteq lapsed \cup effects \cup fenced \cup {d.token}
      /\ d.token \in 1 .. tokens
  BY DEF GameCommit, GameRefuse, Lapse, journalVars, workerVars, gameVars, Accountable, Numbered
<1>2. effects' \cap fenced' = {}
  BY DEF GameCommit, GameRefuse, Lapse, Applied, workerVars, gameVars, Accountable, Numbered
<1>3. Numbered'
  BY <1>1, <1>2 DEF Accountable, Numbered
<1>4. \A op \in Operations : Accounted(op, records[op])'
  BY CommitAccount, RefuseAccount DEF Accountable
<1>5. QED BY <1>3, <1>4 DEF Accountable

(* With TypeOK the invariant is inductive.                                 *)
LEMMA NextAccounts == TypeOK /\ Accountable /\ [Next]_vars => Accountable'
<1> SUFFICES ASSUME TypeOK, Accountable, [Next]_vars PROVE Accountable'
  OBVIOUS
<1>1. CASE \E op \in Operations : ensure(op)
  BY <1>1, EnsureAccounts
<1>2. CASE \E stream \in Streams, run \in Runs \cup {AnyRun} : nextDelivery(stream, run)
  BY <1>2, NextDeliveryAccounts
<1>3. CASE \E d \in issued, outcome \in Outcomes : recordReceipt(d, outcome)
  BY <1>3, ReceiptAccounts
<1>4. CASE \E d \in issued, resolution \in Resolutions : reconcile(d, resolution)
  BY <1>4, ReconcileAccounts
<1>5. CASE \E op \in Operations, outcome \in {"advanced", "source_failed"} :
             settleGoalProjection(op, outcome)
  BY <1>5, ProjectionAccounts
<1>6. CASE \E stream \in Streams, batch \in SUBSET Operations : purgeTerminal(stream, batch)
  BY <1>6, PurgeAccounts
<1>7. CASE \E d \in issued : GameCommit(d) \/ GameRefuse(d) \/ Lapse(d)
  BY <1>7, GameAccounts
<1>8. CASE UNCHANGED <<records, tokens, admissions, issued, lapsed, effects, fenced>>
  BY <1>8, OwnAccount, KeptNumbers DEF Accountable
<1>9. QED
  BY <1>1, <1>2, <1>3, <1>4, <1>5, <1>6, <1>7, <1>8
  DEF Next, vars, journalVars, workerVars, gameVars, recoverDelivery, closeAuthority

(* In every reachable state every delivery ever handed out is accounted    *)
(* for by the record of its Action.                                        *)
THEOREM AllAccounted == Spec => []Accountable
<1>1. Init => Accountable
  BY DEF Init, Accountable, Numbered, Accounted, ClaimGranted, OthersSpent, OneEffect, EffectKnown,
         RefusedUnapplied, Superseded, Committed, Unapplied, AttemptsAt, Held, NoRecord, Unclaimed
<1>2. QED BY <1>1, NextAccounts, TypeCorrect, PTL DEF Spec

(* However receipts are lost or delayed, claims lapse and Actions are      *)
(* retried, one admitted Action changes the world at most once.            *)
THEOREM EffectsAtMostOnce == Spec => []AtMostOneEffect
<1>1. TypeOK /\ Accountable => AtMostOneEffect
  BY DEF TypeOK, Delivery, Accountable, Accounted, OneEffect, AtMostOneEffect
<1>2. QED BY <1>1, AllAccounted, TypeCorrect, PTL

(* The journal never reports what did not happen, and never retries or     *)
(* gives up an Action whose change may still come.                         *)
THEOREM OutcomesTruthful == Spec => []OutcomeTruthful
<1>1. Accountable => OutcomeTruthful
  BY DEF Accountable, Accounted, Committed, Unapplied, AttemptsAt, Attempts, OutcomeTruthful
<1>2. QED BY <1>1, AllAccounted, PTL

-----------------------------------------------------------------------------
(* What one step may do to one record *)

Admitted(op) ==
  Open(op) /\ records[op].status = "absent" /\ records'[op].status = "pending"

Dispatched(op) ==
  /\ Open(op) /\ records[op].status \in {"pending", "claimed"}
  /\ \E t \in Nat : records'[op] = claimActionRecord(records[op], t)
  /\ tokens' = tokens + 1

Maintained(op) ==
  \/ records[op].status = "claimed" /\ records'[op] = expireActionRecord(records[op])
  \/ records[op].status = "pending" /\ records'[op] = retirePendingActionRecord(records[op])

Answered(op) ==
  /\ Held(records[op])
  /\ \E status \in {"pending", "succeeded", "failed", "uncertain"}, receipt \in Receipt :
       /\ receipt.attempt = records[op].claim.attempt
       /\ status \in {"pending", "failed"} => receipt.outcome = "rejected"
       /\ status = "pending" => Open(op)
       /\ records'[op] = Resolve(records[op], status, receipt)

Projected(op) ==
  /\ records[op].goal = "none"
  /\ \/ /\ records[op].status = "succeeded"
        /\ records'[op] = [records[op] EXCEPT !.goal = "advanced"]
     \/ /\ isActionSourceFailed(records[op])
        /\ records'[op] = [records[op] EXCEPT !.goal = "source_failed"]

Purged(op) == Terminal(records[op]) /\ records'[op] = NoRecord

RecordStep(op) ==
  \/ records'[op] = records[op]
  \/ Admitted(op) /\ records'[op] = Unclaimed("pending", admissions + 1)
  \/ Dispatched(op) \/ Maintained(op) \/ Answered(op) \/ Projected(op) \/ Purged(op)

(* A delivery request touches only the records it retires or expires, and  *)
(* the one it claims.                                                      *)
LEMMA NextDeliveryRecords ==
  ASSUME TypeOK, NEW stream \in Streams, NEW run \in Runs \cup {AnyRun},
         nextDelivery(stream, run), NEW op \in Operations
  PROVE  RecordStep(op)
<1>0. PICK due \in dueClaims(stream, run) :
        selectDelivery(afterMaintenance(retireClosedPending(stream), due \ Replayable(due)),
                       release(conflicts, retireClosedPending(stream)),
                       stream, run, Replayable(due))
  BY DEF nextDelivery
<1> DEFINE recs == afterMaintenance(retireClosedPending(stream), due \ Replayable(due))
           c == release(conflicts, retireClosedPending(stream))
           replayable == Replayable(due)
<1>1. recs \in [Operations -> Record] /\ tokens + 1 \in Nat
  BY MaintenanceTypes DEF TypeOK
<1>2. ASSUME NEW o \in Operations
      PROVE  \/ recs[o] = records[o]
             \/ records[o].status = "claimed" /\ recs[o] = expireActionRecord(records[o])
             \/ records[o].status = "pending" /\ recs[o] = retirePendingActionRecord(records[o])
  BY DEF afterMaintenance, retireClosedPending, FirstOf, dueClaims
<1>3. ASSUME NEW o \in Operations, o \in replayable
      PROVE  records[o].status = "claimed" /\ recs[o] = records[o]
  BY <1>3 DEF afterMaintenance, retireClosedPending, FirstOf, dueClaims, Replayable
<1>4. selectDelivery(recs, c, stream, run, replayable)
  BY <1>0
<1> HIDE DEF recs, c, replayable
<1>5. CASE records' = recs
  BY <1>2, <1>5 DEF RecordStep, Maintained
<1>6. CASE \E o \in claimCandidates(recs, c, stream, run, replayable) :
             claimPendingRecord(recs, c, o)
  <2>1. PICK o \in claimCandidates(recs, c, stream, run, replayable) :
          claimPendingRecord(recs, c, o)
    BY <1>6
  <2>2. /\ o \in Operations /\ (recs[o].status = "pending" \/ o \in replayable) /\ Open(o)
        /\ records' = [recs EXCEPT ![o] = claimActionRecord(recs[o], tokens + 1)]
        /\ tokens' = tokens + 1
    BY <2>1 DEF claimCandidates, FirstOf, Oldest, claimPendingRecord
  <2>3. CASE op # o
    BY <1>1, <1>2, <2>2, <2>3 DEF RecordStep, Maintained
  <2>4. CASE op = o
    <3>1. recs[o] = records[o] /\ records[o].status \in {"pending", "claimed"}
      <4>1. CASE o \in replayable
        BY <1>3, <2>2, <4>1
      <4>2. CASE recs[o].status = "pending"
        <5>1. records[o] \in Record
          BY <2>2 DEF TypeOK
        <5>2. expireActionRecord(records[o]).status = "uncertain"
          BY <5>1 DEF expireActionRecord, Record
        <5>3. retirePendingActionRecord(records[o]).status = "failed"
          BY <5>1, TransitionHeld
        <5>4. QED BY <1>2, <2>2, <4>2, <5>2, <5>3
      <4>3. QED BY <2>2, <4>1, <4>2
    <3>2. records'[op] = claimActionRecord(records[op], tokens + 1)
      BY <1>1, <2>2, <2>4, <3>1
    <3>3. Dispatched(op)
      BY <1>1, <2>2, <2>4, <3>1, <3>2 DEF Dispatched
    <3>4. QED BY <3>3 DEF RecordStep
  <2>5. QED BY <2>3, <2>4
<1>7. QED BY <1>4, <1>5, <1>6 DEF selectDelivery, DeliverReconcile

(* An answer to a reconcile delivery settles the live claim, or is one     *)
(* that the record already holds.                                          *)
LEMMA ReconcileRecords ==
  ASSUME TypeOK, NEW d \in issued, NEW resolution \in Resolutions, reconcile(d, resolution)
  PROVE  RecordStep(d.op)
<1> DEFINE r == records[d.op]
           receipt == prepareReceipt(ClaimOf(d), outcomeOf(resolution))
           status == reconcileStatus(d.op, resolution)
           s == reconcileActionRecord(d.op, ClaimOf(d), resolution)
           new == IF s.status = "pending" /\ ~Open(d.op) THEN retirePendingActionRecord(s) ELSE s
<1>1. CanReconcile(r, ClaimOf(d), resolution) /\ records' = [records EXCEPT ![d.op] = new]
  BY DEF reconcile
<1>2. d.op \in Operations /\ r \in Record /\ ClaimOf(d) \in Claim
  BY DEF TypeOK, Delivery, ClaimOf, Claim
<1>3. records'[d.op] = new
  BY <1>1, <1>2 DEF TypeOK
<1>4. CASE IsReplay(r, receipt)
  <2>1. s = r
    BY <1>4 DEF reconcileActionRecord
  <2>2. QED BY <1>3, <2>1 DEF RecordStep, Maintained
<1>5. CASE ~IsReplay(r, receipt)
  <2>1. Held(r) /\ r.claim = ClaimOf(d)
    BY <1>1, <1>5 DEF CanReconcile
  <2>2. s = Resolve(r, status, receipt) /\ s.status = status
    BY <1>2, <1>5 DEF reconcileActionRecord, Resolve, Record
  <2>3. receipt \in Receipt /\ receipt.attempt = r.claim.attempt
    BY <1>2, <2>1, AnswerTypes DEF prepareReceipt
  <2>4. status \in {"pending", "failed"} => receipt.outcome = "rejected"
    BY DEF reconcileStatus, outcomeOf, prepareReceipt, Resolutions
  <2>5. status \in {"pending", "succeeded", "failed", "uncertain"}
    BY DEF reconcileStatus
  <2> HIDE DEF status, receipt
  <2>6. CASE status = "pending" /\ ~Open(d.op)
    <3>1. retirePendingActionRecord(Resolve(r, status, receipt)) = Resolve(r, "failed", receipt)
      BY <1>2, <2>6 DEF retirePendingActionRecord, Resolve, Record
    <3>2. QED BY <1>3, <2>1, <2>2, <2>3, <2>4, <2>6, <3>1 DEF RecordStep, Answered
  <2>7. CASE ~(status = "pending" /\ ~Open(d.op))
    BY <1>3, <2>1, <2>2, <2>3, <2>4, <2>5, <2>7 DEF RecordStep, Answered
  <2>8. QED BY <2>6, <2>7
<1>6. QED BY <1>4, <1>5

(* Every step of the model changes a record in one of these ways only.     *)
LEMMA NextRecords ==
  ASSUME TypeOK, [Next]_vars, NEW op \in Operations
  PROVE  RecordStep(op)
<1>0. records \in [Operations -> Record]
  BY DEF TypeOK
<1>1. CASE \E o \in Operations : ensure(o)
  BY <1>0, <1>1 DEF ensure, RecordStep, Admitted, Unclaimed
<1>2. CASE \E stream \in Streams, run \in Runs \cup {AnyRun} : nextDelivery(stream, run)
  BY <1>2, NextDeliveryRecords
<1>3. CASE \E d \in issued, outcome \in Outcomes : recordReceipt(d, outcome)
  <2>1. PICK d \in issued, outcome \in Outcomes : recordReceipt(d, outcome)
    BY <1>3
  <2> DEFINE receipt == prepareReceipt(ClaimOf(d), outcome)
  <2>2. d.op \in Operations /\ ClaimOf(d) \in Claim
    BY DEF TypeOK, Delivery, ClaimOf, Claim
  <2>3. /\ records' = [records EXCEPT ![d.op] = Resolve(@, receiptStatus(outcome), receipt)]
        /\ Held(records[d.op]) /\ records[d.op].claim = ClaimOf(d)
    BY <2>1 DEF recordReceipt, CanRecordReceipt, receiptActionRecord
  <2>4. receipt \in Receipt /\ receipt.attempt = records[d.op].claim.attempt
    BY <2>2, <2>3, AnswerTypes DEF prepareReceipt
  <2>5. /\ receiptStatus(outcome) \in {"succeeded", "failed", "uncertain"}
        /\ receiptStatus(outcome) = "failed" => receipt.outcome = "rejected"
    BY DEF receiptStatus, prepareReceipt
  <2> HIDE DEF receipt
  <2>6. CASE op = d.op
    BY <1>0, <2>2, <2>3, <2>4, <2>5, <2>6 DEF RecordStep, Answered
  <2>7. CASE op # d.op
    BY <1>0, <2>3, <2>7 DEF RecordStep
  <2>8. QED BY <2>6, <2>7
<1>4. CASE \E d \in issued, resolution \in Resolutions : reconcile(d, resolution)
  <2>1. PICK d \in issued, resolution \in Resolutions : reconcile(d, resolution)
    BY <1>4
  <2>2. CASE op = d.op
    BY <2>1, <2>2, ReconcileRecords
  <2>3. CASE op # d.op
    BY <1>0, <2>1, <2>3 DEF reconcile, RecordStep
  <2>4. QED BY <2>2, <2>3
<1>5. CASE \E o \in Operations, outcome \in {"advanced", "source_failed"} :
             settleGoalProjection(o, outcome)
  BY <1>0, <1>5 DEF settleGoalProjection, RecordStep, Projected
<1>6. CASE \E stream \in Streams, batch \in SUBSET Operations : purgeTerminal(stream, batch)
  BY <1>6 DEF purgeTerminal, Purgeable, RecordStep, Purged
<1>7. CASE UNCHANGED records
  BY <1>7 DEF RecordStep
<1>8. QED
  BY <1>1, <1>2, <1>3, <1>4, <1>5, <1>6, <1>7
  DEF Next, vars, journalVars, recoverDelivery, closeAuthority, Lapse, GameCommit, GameRefuse

(* A settled Action keeps its status, receipt and attempt until it is      *)
(* purged: no late, duplicated or stale call reopens it.                   *)
THEOREM SettledStaysSettled == Spec => SettledIsFinal
<1>1. ASSUME TypeOK, [Next]_vars, NEW op \in Operations, Terminal(records[op])
      PROVE  \/ records'[op] = NoRecord
             \/ /\ records'[op].status = records[op].status
                /\ records'[op].receipt = records[op].receipt
                /\ records'[op].attempt = records[op].attempt
  <2>1. RecordStep(op) /\ records[op] \in Record
    BY <1>1, NextRecords DEF TypeOK
  <2>2. QED
    BY <1>1, <2>1 DEF RecordStep, Admitted, Dispatched, Maintained, Answered, Projected, Purged,
                      Terminal, Held, Record
<1>2. TypeOK /\ [Next]_vars =>
        [\A op \in Operations :
           Terminal(records[op]) =>
             \/ records'[op] = NoRecord
             \/ /\ records'[op].status = records[op].status
                /\ records'[op].receipt = records[op].receipt
                /\ records'[op].attempt = records[op].attempt]_vars
  BY <1>1
<1>3. QED BY <1>2, TypeCorrect, PTL DEF Spec, SettledIsFinal

(* Once a run's authority is closed none of its Actions is claimed,        *)
(* retried or admitted any more.                                           *)
THEOREM ClosedRunsStayClosed == Spec => ClosedRunNeverRetried
<1>1. ASSUME TypeOK, [Next]_vars, NEW op \in Operations,
             RunOf[op] \in closed, records'[op] # records[op]
      PROVE  /\ records'[op].status \notin {"pending", "claimed"}
             /\ records'[op].attempt \in {0, records[op].attempt}
  <2>1. RecordStep(op) /\ records[op] \in Record /\ ~Open(op)
    BY <1>1, NextRecords DEF TypeOK, Open
  <2>2. CASE Maintained(op)
    BY <2>1, <2>2 DEF Maintained, expireActionRecord, retirePendingActionRecord, Record
  <2>3. CASE Answered(op)
    BY <2>1, <2>3 DEF Answered, Resolve, Record
  <2>4. CASE Projected(op)
    BY <2>1, <2>4 DEF Projected, isActionSourceFailed, Record
  <2>5. CASE Purged(op)
    BY <2>5 DEF Purged, NoRecord, Unclaimed
  <2>6. QED BY <1>1, <2>1, <2>2, <2>3, <2>4, <2>5 DEF RecordStep, Admitted, Dispatched
<1>2. TypeOK /\ [Next]_vars =>
        [\A op \in Operations :
           RunOf[op] \in closed /\ records'[op] # records[op] =>
             /\ records'[op].status \notin {"pending", "claimed"}
             /\ records'[op].attempt \in {0, records[op].attempt}]_vars
  BY <1>1
<1>3. QED BY <1>2, TypeCorrect, PTL DEF Spec, ClosedRunNeverRetried

-----------------------------------------------------------------------------
(* Records that pass a load *)

Loadable(r) ==
  /\ Held(r) <=> r.claim # NoClaim
  /\ Held(r) => r.claim.attempt = r.attempt /\ r.attempt > 0
  /\ r.status \in {"pending", "failed"} => hasKnownUnappliedActionOutcome(r)
  /\ r.goal = "advanced" => r.status = "succeeded"
  /\ r.goal = "source_failed" => isActionSourceFailed(r)

(* Every transition of a record that passes assertActionRecord returns one *)
(* that passes it.                                                         *)
LEMMA StepsLoadable ==
  ASSUME TypeOK, NEW op \in Operations, Loadable(records[op]), RecordStep(op)
  PROVE  Loadable(records'[op])
<1> DEFINE r == records[op]
           s == records'[op]
<1>0. r \in Record
  BY DEF TypeOK
<1>1. CASE s = r
  BY <1>1
<1>2. CASE s = Unclaimed("pending", admissions + 1) \/ s = NoRecord
  BY <1>2 DEF Loadable, Unclaimed, NoRecord, Held, hasKnownUnappliedActionOutcome
<1>3. CASE Dispatched(op)
  <2>1. PICK t \in Nat : s = claimActionRecord(r, t)
    BY <1>3 DEF Dispatched
  <2>2. r.goal = "none" /\ r.status \in {"pending", "claimed"}
    BY <1>0, <1>3 DEF Dispatched, Loadable, isActionSourceFailed, Record
  <2>3. /\ s.status = "claimed" /\ s.attempt = r.attempt + 1 /\ s.goal = "none"
        /\ s.claim = [token |-> t, attempt |-> r.attempt + 1]
    BY <1>0, <2>1, <2>2 DEF claimActionRecord, Record
  <2>4. r.attempt \in Nat /\ s.claim.attempt # 0
    BY <1>0, <2>3 DEF Record
  <2>5. QED BY <2>3, <2>4 DEF Loadable, Held, NoClaim
<1>4. CASE Maintained(op)
  BY <1>0, <1>4 DEF Maintained, Loadable, Held, expireActionRecord, retirePendingActionRecord,
                    isActionSourceFailed, hasKnownUnappliedActionOutcome, Record
<1>5. CASE Answered(op)
  <2>1. PICK status \in {"pending", "succeeded", "failed", "uncertain"}, receipt \in Receipt :
          /\ receipt.attempt = r.claim.attempt
          /\ status \in {"pending", "failed"} => receipt.outcome = "rejected"
          /\ s = Resolve(r, status, receipt)
    BY <1>5 DEF Answered
  <2>2. Held(r) /\ r.goal = "none" /\ r.claim # NoClaim /\ r.claim.attempt = r.attempt /\ r.attempt > 0
    BY <1>0, <1>5 DEF Answered, Loadable, isActionSourceFailed, Held, Record
  <2>3. /\ s.status = status /\ s.receipt = receipt /\ s.attempt = r.attempt /\ s.goal = "none"
        /\ s.claim = IF status = "uncertain" THEN r.claim ELSE NoClaim
    BY <1>0, <2>1, <2>2 DEF Resolve, Record
  <2>4. QED BY <1>0, <2>1, <2>2, <2>3 DEF Loadable, Held, hasKnownUnappliedActionOutcome
<1>6. CASE Projected(op)
  BY <1>0, <1>6 DEF Projected, Loadable, Held, isActionSourceFailed,
                    hasKnownUnappliedActionOutcome, Record
<1>7. QED BY <1>1, <1>2, <1>3, <1>4, <1>5, <1>6 DEF RecordStep, Purged

(* Every record that any sequence of calls writes passes the checks that   *)
(* assertActionRecord makes when it is loaded again.                       *)
THEOREM RecordsPassLoad == Spec => []RecordsLoadable
<1>1. Init => RecordsLoadable
  BY DEF Init, RecordsLoadable, NoRecord, Unclaimed, Held, hasKnownUnappliedActionOutcome
<1>2. TypeOK /\ RecordsLoadable /\ [Next]_vars => RecordsLoadable'
  <2>1. SUFFICES ASSUME TypeOK, RecordsLoadable, [Next]_vars, NEW op \in Operations
                 PROVE  Loadable(records'[op])
    BY DEF RecordsLoadable, Loadable, Held, hasKnownUnappliedActionOutcome, isActionSourceFailed
  <2>2. Loadable(records[op])
    BY <2>1 DEF RecordsLoadable, Loadable
  <2>3. QED BY <2>1, <2>2, NextRecords, StepsLoadable
<1>3. QED BY <1>1, <1>2, TypeCorrect, PTL DEF Spec

-----------------------------------------------------------------------------
(* One Action of a run at a time *)

(* A scan in admission order of records that are there finds one.          *)
LEMMA OldestExists ==
  ASSUME TypeOK, NEW S \in SUBSET Operations, Oldest(S) = {}
  PROVE  S = {}
<1>1. SUFFICES ASSUME S # {} PROVE FALSE
  OBVIOUS
<1> DEFINE numbers == {records[op].sequence : op \in S}
<1>2. numbers \subseteq Nat /\ numbers # {}
  BY <1>1 DEF TypeOK, Record
<1>3. PICK n \in numbers : \A m \in numbers : ~(<<m, n>> \in OpToRel(<, Nat))
  BY <1>2, NatLessThanWellFounded, WFMin
<1>4. PICK op \in S : records[op].sequence = n
  BY <1>3
<1>5. \A o \in S : ~(records[o].sequence < n)
  BY <1>2, <1>3 DEF OpToRel
<1>6. op \in Oldest(S)
  BY <1>4, <1>5 DEF Oldest, Earlier
<1>7. QED BY <1>6

(* When a request claims an Action, every other Action of its run that is  *)
(* in flight is a safe one whose claim has lapsed.                         *)
LEMMA ClaimIsSerial ==
  ASSUME TypeOK, NEW stream \in Streams, NEW run \in Runs \cup {AnyRun},
         nextDelivery(stream, run), tokens' = tokens + 1
  PROVE  \E op \in Operations : \A o \in Operations :
           o # op =>
             /\ records'[o].claim = records[o].claim
             /\ Held(records'[o]) => Held(records[o])
             /\ StreamOf[o] = StreamOf[op] /\ RunOf[o] = RunOf[op] /\ Held(records'[o]) =>
                  PolicyOf[o] = "safe" /\ records[o].claim.token \in lapsed
<1>0. PICK due \in dueClaims(stream, run) :
        selectDelivery(afterMaintenance(retireClosedPending(stream), due \ Replayable(due)),
                       release(conflicts, retireClosedPending(stream)),
                       stream, run, Replayable(due))
  BY DEF nextDelivery
<1> DEFINE recs == afterMaintenance(retireClosedPending(stream), due \ Replayable(due))
           c == release(conflicts, retireClosedPending(stream))
           replayable == Replayable(due)
           others == {op \in Operations : /\ InScope(op, stream, run)
                                          /\ op \notin replayable
                                          /\ Held(recs[op])}
<1>1. recs \in [Operations -> Record] /\ tokens \in Nat
  BY MaintenanceTypes DEF TypeOK
<1>2. \A o \in Operations :
        /\ recs[o].claim = records[o].claim
        /\ Held(recs[o]) => Held(records[o])
  BY DEF afterMaintenance, retireClosedPending, FirstOf, dueClaims, TypeOK, Record, Held,
         expireActionRecord, retirePendingActionRecord
<1>3. \A o \in replayable : PolicyOf[o] = "safe" /\ records[o].claim.token \in lapsed
  BY DEF dueClaims, Replayable
<1>4. selectDelivery(recs, c, stream, run, replayable)
  BY <1>0
<1> HIDE DEF recs, c, replayable
<1>5. oldestUnsettled(recs, stream, run, replayable) = {}
  BY <1>1, <1>4 DEF selectDelivery, DeliverReconcile
<1>6. others = {}
  BY <1>5, OldestExists DEF oldestUnsettled
<1>7. PICK op \in claimCandidates(recs, c, stream, run, replayable) :
        claimPendingRecord(recs, c, op)
  BY <1>1, <1>4 DEF selectDelivery, DeliverReconcile
<1>8. /\ op \in Operations /\ InScope(op, stream, run)
      /\ records' = [recs EXCEPT ![op] = claimActionRecord(recs[op], tokens + 1)]
  BY <1>7 DEF claimCandidates, FirstOf, Oldest, claimPendingRecord
<1>9. ASSUME NEW o \in Operations, o # op
      PROVE  /\ records'[o].claim = records[o].claim
             /\ Held(records'[o]) => Held(records[o])
             /\ StreamOf[o] = StreamOf[op] /\ RunOf[o] = RunOf[op] /\ Held(records'[o]) =>
                  PolicyOf[o] = "safe" /\ records[o].claim.token \in lapsed
  <2>1. records'[o] = recs[o]
    BY <1>1, <1>8, <1>9
  <2>2. StreamOf[o] = StreamOf[op] /\ RunOf[o] = RunOf[op] => InScope(o, stream, run)
    BY <1>8 DEF InScope
  <2>3. QED BY <1>2, <1>3, <1>6, <1>9, <2>1, <2>2
<1>10. QED BY <1>8, <1>9

(* Only a delivery request grants a token, one, and no claim stops being   *)
(* lapsed.                                                                 *)
LEMMA TokenSteps ==
  ASSUME [Next]_vars
  PROVE  /\ lapsed \subseteq lapsed'
         /\ \/ tokens' = tokens
            \/ /\ tokens' = tokens + 1
               /\ \E stream \in Streams, run \in Runs \cup {AnyRun} : nextDelivery(stream, run)
<1>1. CASE \E stream \in Streams, run \in Runs \cup {AnyRun} : nextDelivery(stream, run)
  <2>1. PICK stream \in Streams, run \in Runs \cup {AnyRun} : nextDelivery(stream, run)
    BY <1>1
  <2>2. PICK due \in dueClaims(stream, run) :
          selectDelivery(afterMaintenance(retireClosedPending(stream), due \ Replayable(due)),
                         release(conflicts, retireClosedPending(stream)),
                         stream, run, Replayable(due))
    BY <2>1 DEF nextDelivery
  <2>3. ASSUME NEW recs, NEW c, NEW S, selectDelivery(recs, c, stream, run, S)
        PROVE  tokens' \in {tokens, tokens + 1}
    BY <2>3 DEF selectDelivery, DeliverReconcile, claimPendingRecord
  <2>4. lapsed' = lapsed
    BY <2>1 DEF nextDelivery
  <2>5. QED BY <1>1, <2>2, <2>3, <2>4
<1>2. CASE tokens' = tokens /\ lapsed \subseteq lapsed'
  BY <1>2
<1>3. QED
  BY <1>1, <1>2 DEF Next, vars, ensure, recoverDelivery, recordReceipt, reconcile,
     settleGoalProjection, purgeTerminal, closeAuthority, Lapse, GameCommit, GameRefuse,
     journalVars

(* A run's Actions are dispatched one at a time: of two in flight one is a *)
(* safe claim that lapsed and waits for its replay.                        *)
THEOREM RunsDispatchSerially == Spec => []SerialDispatch
<1>1. Init => SerialDispatch
  BY DEF Init, SerialDispatch, Held, NoRecord, Unclaimed
<1>2. TypeOK /\ SerialDispatch /\ [Next]_vars => SerialDispatch'
  <2>1. SUFFICES ASSUME TypeOK, SerialDispatch, [Next]_vars,
                        NEW op1 \in Operations, NEW op2 \in Operations,
                        op1 # op2, StreamOf[op1] = StreamOf[op2], RunOf[op1] = RunOf[op2],
                        Held(records'[op1]), Held(records'[op2])
                 PROVE  \E op \in {op1, op2} :
                          PolicyOf[op] = "safe" /\ records'[op].claim.token \in lapsed'
    BY DEF SerialDispatch, Held
  <2>2. \/ tokens' = tokens
        \/ /\ tokens' = tokens + 1
           /\ \E stream \in Streams, run \in Runs \cup {AnyRun} : nextDelivery(stream, run)
    BY <2>1, TokenSteps
  <2>a. lapsed \subseteq lapsed' /\ tokens \in Nat
    BY <2>1, TokenSteps DEF TypeOK
  <2>3. CASE tokens' = tokens
    <3>1. ASSUME NEW op \in Operations, Held(records'[op])
          PROVE  Held(records[op]) /\ records'[op].claim = records[op].claim
      <4>1. RecordStep(op) /\ records[op] \in Record /\ ~Dispatched(op)
        BY <2>1, <2>a, <2>3, NextRecords DEF Dispatched, TypeOK
      <4>2. ~Admitted(op) /\ ~Purged(op)
        BY <3>1 DEF Admitted, Purged, Held, NoRecord, Unclaimed
      <4>3. CASE Maintained(op)
        BY <3>1, <4>1, <4>3 DEF Maintained, Held, expireActionRecord, retirePendingActionRecord, Record
      <4>4. CASE Answered(op)
        <5>1. PICK status \in {"pending", "succeeded", "failed", "uncertain"}, receipt \in Receipt :
                records'[op] = Resolve(records[op], status, receipt)
          BY <4>4 DEF Answered
        <5>2. /\ records'[op].status = status
              /\ records'[op].claim = IF status = "uncertain" THEN records[op].claim ELSE NoClaim
          BY <4>1, <5>1 DEF Resolve, Record
        <5>3. QED BY <3>1, <4>4, <5>2 DEF Answered, Held
      <4>5. CASE Projected(op)
        BY <3>1, <4>1, <4>5 DEF Projected, Held, isActionSourceFailed, Record
      <4>6. QED BY <3>1, <4>1, <4>2, <4>3, <4>4, <4>5 DEF RecordStep
    <3>2. \E op \in {op1, op2} : PolicyOf[op] = "safe" /\ records[op].claim.token \in lapsed
      BY <2>1, <3>1 DEF SerialDispatch
    <3>3. QED BY <2>a, <2>1, <3>1, <3>2
  <2>4. CASE tokens' = tokens + 1
    <3>1. PICK stream \in Streams, run \in Runs \cup {AnyRun} : nextDelivery(stream, run)
      BY <2>a, <2>2, <2>4
    <3>2. PICK op \in Operations : \A o \in Operations :
            o # op =>
              /\ records'[o].claim = records[o].claim
              /\ Held(records'[o]) => Held(records[o])
              /\ StreamOf[o] = StreamOf[op] /\ RunOf[o] = RunOf[op] /\ Held(records'[o]) =>
                   PolicyOf[o] = "safe" /\ records[o].claim.token \in lapsed
      BY <2>1, <2>4, <3>1, ClaimIsSerial
    <3>3. CASE op \in {op1, op2}
      BY <2>1, <2>a, <3>2, <3>3
    <3>4. CASE op \notin {op1, op2}
      BY <2>1, <2>a, <3>2, <3>4 DEF SerialDispatch
    <3>5. QED BY <3>3, <3>4
  <2>5. QED BY <2>2, <2>3, <2>4
<1>3. QED BY <1>1, <1>2, TypeCorrect, PTL DEF Spec

-----------------------------------------------------------------------------
(***************************************************************************)
(* Media jobs: one submission per attempt, settled attempts stay.          *)
(***************************************************************************)

AttemptStatuses ==
  {"queued", "submitting", "pending", "cancel_requested", "settling", "outcome_unknown"}
  \cup TERMINAL
Cancellations == {"requested", "confirmed", "unsupported", "rejected", "unknown"}
BundleRecord ==
  [disposition : {"none", "late", "complete", "partial"},
   resources : SUBSET Outputs, failures : SUBSET Outputs]
AttemptRecord ==
  [id : Ids, status : AttemptStatuses, disposition : {"active", "abandoned"},
   cancellation : Cancellations \cup {"not_requested"}, handle : BOOLEAN,
   settling : {"none", "succeeded", "partially_succeeded"},
   settled : [Outputs -> {"none", "published", "failed"}], bundle : BundleRecord,
   failure : {"none", "unknown", "other"}]

(* An attempt as its store accepts it; a cancellation is confirmed only of *)
(* one that is settled or settling.                                        *)
Accepted(a) ==
  /\ a \in AttemptRecord /\ captureAttempt(a)
  /\ Unsettled(a) => a.cancellation # "confirmed"

(* What any change makes of an attempt: one the store accepts, which is    *)
(* not queued again, keeps its handle, stays given up and stays settled.   *)
Kept(a, b) ==
  /\ Accepted(b) /\ b.id = a.id
  /\ b.status = "queued" => a.status = "queued"
  /\ a.handle => b.handle
  /\ a.disposition = "abandoned" => b.disposition = "abandoned"
  /\ a.status \in TERMINAL => b = [a EXCEPT !.cancellation = b.cancellation]

(* An attempt without outputs has no bundle to check. *)
LEMMA NothingYet ==
  /\ NoOutputs \in [Outputs -> {"none", "published", "failed"}]
  /\ Of(NoOutputs, "published") = {} /\ Of(NoOutputs, "failed") = {}
  /\ NoBundle \in BundleRecord /\ captureBundle(NoBundle)
<1>1. NoOutputs \in [Outputs -> {"none", "published", "failed"}]
  BY DEF NoOutputs
<1>2. Of(NoOutputs, "published") = {} /\ Of(NoOutputs, "failed") = {}
  BY DEF NoOutputs, Of
<1>3. NoBundle \in BundleRecord
  BY DEF NoBundle, BundleRecord
<1>4. Cardinality({}) <= MaxBundleBytes
  BY FS_EmptySet, MediaAssumption
<1>5. captureBundle(NoBundle)
  BY <1>4 DEF captureBundle, NoBundle
<1> QED
  BY <1>1, <1>2, <1>3, <1>5

(* What is left unchanged is kept. *)
LEMMA KeptSame ==
  ASSUME NEW a, Accepted(a)
  PROVE  Kept(a, a)
<1>1. PICK p \in AttemptRecord : p = a
  BY DEF Accepted
<1>2. p = [p EXCEPT !.cancellation = p.cancellation]
  BY DEF AttemptRecord
<1> QED
  BY <1>1, <1>2 DEF Kept

(* A new attempt is accepted. *)
LEMMA NewAccepted ==
  ASSUME NEW id \in Ids
  PROVE  Accepted(newAttempt(id)) /\ newAttempt(id).id = id /\ newAttempt(id).status = "queued"
<1>1. newAttempt(id) \in AttemptRecord
  BY NothingYet DEF newAttempt, AttemptRecord, AttemptStatuses
<1>2. assertAttemptState(newAttempt(id))
  BY NothingYet DEF newAttempt, assertAttemptState, TERMINAL
<1>3. captureBundle(newAttempt(id).bundle) /\ assertBundleLinks(newAttempt(id))
  BY NothingYet DEF newAttempt, assertBundleLinks
<1> QED
  BY <1>1, <1>2, <1>3 DEF Accepted, captureAttempt, newAttempt, Unsettled

(* Before an attempt settles it has no outputs and no bundle. *)
LEMMA UnsettledBare ==
  ASSUME NEW a, Accepted(a), a.status \notin TERMINAL
  PROVE  /\ a.bundle = NoBundle
         /\ a.status # "settling" => a.settled = NoOutputs
         /\ a.disposition = "active" => a.cancellation = "not_requested"
         /\ a.disposition = "abandoned" => a.cancellation \in Cancellations
<1>1. PICK p \in AttemptRecord : p = a
  BY DEF Accepted
<1>2. p.status \notin TERMINAL /\ assertAttemptState(p) /\ assertBundleLinks(p)
  BY <1>1 DEF Accepted, captureAttempt
<1>3. p.bundle = NoBundle
  BY <1>2 DEF assertBundleLinks, TERMINAL
<1>4. /\ p.status # "settling" => p.settled = NoOutputs
      /\ p.disposition = "active" => p.cancellation = "not_requested"
      /\ p.disposition = "abandoned" => p.cancellation # "not_requested"
  BY <1>2 DEF assertAttemptState, TERMINAL
<1>5. p.cancellation \in Cancellations \cup {"not_requested"}
  BY DEF AttemptRecord
<1> QED
  BY <1>1, <1>3, <1>4, <1>5

(* An attempt that has no outputs, as a change makes it of attempt a. *)
Bare(a, status, disposition, cancellation, handle, failure) ==
  [a EXCEPT !.status = status, !.disposition = disposition, !.cancellation = cancellation,
            !.handle = handle, !.settling = "none", !.settled = NoOutputs,
            !.bundle = NoBundle, !.failure = failure]

BareTypes(status, disposition, cancellation, handle, failure) ==
  /\ status \in AttemptStatuses \ {"queued", "settling", "succeeded", "partially_succeeded"}
  /\ disposition \in {"active", "abandoned"} /\ handle \in BOOLEAN
  /\ cancellation \in Cancellations \cup {"not_requested"}
  /\ failure \in {"none", "unknown", "other"}

BareSound(status, disposition, cancellation, handle, failure) ==
  /\ failure # "none" <=> status \in {"failed", "outcome_unknown"}
  /\ disposition = "active" =>
       \/ cancellation = "not_requested"
       \/ status = "cancelled" /\ cancellation = "confirmed"
  /\ disposition = "abandoned" => cancellation # "not_requested"
  /\ status = "pending" => disposition = "active"
  /\ status = "cancel_requested" => disposition = "abandoned"
  /\ status = "submitting" =>
       ~handle /\ (disposition = "abandoned" => cancellation = "requested")
  /\ status \in {"pending", "cancel_requested"} => handle
  /\ status \notin TERMINAL => cancellation # "confirmed"

(* An attempt that is not settled becomes something without outputs. *)
LEMMA BareKept ==
  ASSUME NEW a, Accepted(a), Unsettled(a),
         NEW status, NEW disposition, NEW cancellation, NEW handle, NEW failure,
         BareTypes(status, disposition, cancellation, handle, failure),
         BareSound(status, disposition, cancellation, handle, failure),
         a.handle => handle,
         a.disposition = "abandoned" => disposition = "abandoned"
  PROVE  Kept(a, Bare(a, status, disposition, cancellation, handle, failure))
<1>1. PICK p \in AttemptRecord : p = a
  BY DEF Accepted
<1> DEFINE q == Bare(p, status, disposition, cancellation, handle, failure)
<1>2. q \in AttemptRecord
  BY NothingYet DEF AttemptRecord, Bare, BareTypes
<1>3. /\ q.id = p.id /\ q.status = status /\ q.disposition = disposition
      /\ q.cancellation = cancellation /\ q.handle = handle /\ q.settling = "none"
      /\ q.settled = NoOutputs /\ q.bundle = NoBundle /\ q.failure = failure
  BY DEF AttemptRecord, Bare
<1>4. p.status \notin TERMINAL
  BY <1>1 DEF Unsettled
<1> HIDE DEF q
<1>5. assertAttemptState(q)
  BY <1>3, NothingYet DEF assertAttemptState, BareTypes, BareSound, TERMINAL
<1>6. captureBundle(q.bundle) /\ assertBundleLinks(q)
  BY <1>3, NothingYet DEF assertBundleLinks, BareTypes
<1>7. Unsettled(q) => q.cancellation # "confirmed"
  BY <1>3 DEF Unsettled, BareSound
<1>8. Accepted(q)
  BY <1>2, <1>5, <1>6, <1>7 DEF Accepted, captureAttempt
<1>9. Kept(p, q)
  BY <1>1, <1>3, <1>4, <1>8 DEF Kept, BareTypes
<1> QED
  BY <1>1, <1>9 DEF q

(* What is known of an attempt before it settles. *)
LEMMA UnsettledFacts ==
  ASSUME NEW a, Accepted(a), Unsettled(a)
  PROVE  /\ a.disposition \in {"active", "abandoned"} /\ a.handle \in BOOLEAN
         /\ a.cancellation \in Cancellations \cup {"not_requested"}
         /\ a.cancellation # "confirmed"
         /\ a.disposition = "active" => a.cancellation = "not_requested"
         /\ a.disposition = "abandoned" => a.cancellation # "not_requested"
         /\ a.settling = "none" /\ a.settled = NoOutputs /\ a.bundle = NoBundle
         /\ a.status = "queued" => a.disposition = "active" /\ ~a.handle
         /\ a.status \notin {"failed", "outcome_unknown"} => a.failure = "none"
<1>1. PICK p \in AttemptRecord : p = a
  BY DEF Accepted
<1>2. /\ p.disposition \in {"active", "abandoned"} /\ p.handle \in BOOLEAN
      /\ p.cancellation \in Cancellations \cup {"not_requested"}
  BY DEF AttemptRecord
<1>3. assertAttemptState(p) /\ Unsettled(p) /\ p.cancellation # "confirmed"
  BY <1>1 DEF Accepted, captureAttempt
<1>4. p.bundle = NoBundle /\ p.settled = NoOutputs
  BY <1>1, <1>3, UnsettledBare DEF Unsettled
<1> QED
  BY <1>1, <1>2, <1>3, <1>4 DEF assertAttemptState, Unsettled, TERMINAL

(* What an answer other than outputs makes of an attempt. *)
LEMMA MarksKept ==
  ASSUME NEW a, Accepted(a)
  PROVE  /\ Kept(a, markUnknown(a)) /\ Kept(a, recoverInterruptedSubmission(a))
         /\ Kept(a, markFailed(a, FALSE)) /\ Kept(a, markPending(a)) /\ Kept(a, markCancelled(a))
<1>1. PICK p \in AttemptRecord : p = a
  BY DEF Accepted
<1>2. Kept(p, p)
  BY <1>1, KeptSame
<1>3. CASE ~Unsettled(p)
  BY <1>1, <1>2, <1>3
     DEF markUnknown, recoverInterruptedSubmission, markFailed, markPending, markCancelled
<1>4. CASE Unsettled(p)
  <2> DEFINE d == p.disposition
             k == p.cancellation
             h == p.handle
             pending == IF d = "abandoned" THEN "cancel_requested" ELSE "pending"
  <2>1. Accepted(p)
    BY <1>1
  <2>2. /\ d \in {"active", "abandoned"} /\ h \in BOOLEAN
        /\ k \in Cancellations \cup {"not_requested"} /\ k # "confirmed"
        /\ d = "active" => k = "not_requested"
        /\ d = "abandoned" => k # "not_requested"
    BY <1>4, <2>1, UnsettledFacts
  <2>3. Kept(p, Bare(p, "outcome_unknown", d, k, h, "unknown"))
    <3>1. /\ BareTypes("outcome_unknown", d, k, h, "unknown")
          /\ BareSound("outcome_unknown", d, k, h, "unknown")
      BY <2>2 DEF BareTypes, BareSound, AttemptStatuses, TERMINAL
    <3> QED
      BY <1>4, <2>1, <3>1, BareKept
  <2>4. Kept(p, Bare(p, "failed", d, k, h, "other"))
    <3>1. BareTypes("failed", d, k, h, "other") /\ BareSound("failed", d, k, h, "other")
      BY <2>2 DEF BareTypes, BareSound, AttemptStatuses, TERMINAL
    <3> QED
      BY <1>4, <2>1, <3>1, BareKept
  <2>5. Kept(p, Bare(p, "cancelled", d, "confirmed", h, "none"))
    <3>1. /\ BareTypes("cancelled", d, "confirmed", h, "none")
          /\ BareSound("cancelled", d, "confirmed", h, "none")
      BY <2>2 DEF BareTypes, BareSound, AttemptStatuses, TERMINAL, Cancellations
    <3> QED
      BY <1>4, <2>1, <3>1, BareKept
  <2>6. Kept(p, Bare(p, pending, d, k, TRUE, "none"))
    <3>1. BareTypes(pending, d, k, TRUE, "none") /\ BareSound(pending, d, k, TRUE, "none")
      BY <2>2 DEF BareTypes, BareSound, AttemptStatuses, TERMINAL
    <3> QED
      BY <1>4, <2>1, <3>1, BareKept
  <2>7. Kept(p, markUnknown(p)) /\ Kept(p, recoverInterruptedSubmission(p))
    BY <1>2, <1>4, <2>3
       DEF markUnknown, recoverInterruptedSubmission, clearAttemptOutcome, Bare, AttemptRecord
  <2>8. Kept(p, markFailed(p, FALSE))
    BY <1>4, <2>2, <2>4 DEF markFailed, clearAttemptOutcome, Bare, AttemptRecord
  <2>9. Kept(p, markPending(p))
    BY <1>4, <2>6 DEF markPending, clearAttemptOutcome, Bare, AttemptRecord
  <2>10. Kept(p, markCancelled(p))
    BY <1>4, <2>5 DEF markCancelled, clearAttemptOutcome, Bare, AttemptRecord
  <2> QED
    BY <1>1, <2>7, <2>8, <2>9, <2>10
<1> QED
  BY <1>3, <1>4

(* The claim of a queued attempt, and its withdrawal. *)
LEMMA ClaimKept ==
  ASSUME NEW a, Accepted(a), a.status = "queued"
  PROVE  /\ Kept(a, [a EXCEPT !.status = "submitting"])
         /\ [a EXCEPT !.status = "submitting"].status = "submitting"
<1>1. PICK p \in AttemptRecord : p = a
  BY DEF Accepted
<1>2. Unsettled(p) /\ Accepted(p)
  BY <1>1 DEF Unsettled, TERMINAL
<1>3. /\ p.disposition = "active" /\ ~p.handle /\ p.cancellation = "not_requested"
      /\ p.settling = "none" /\ p.settled = NoOutputs /\ p.bundle = NoBundle
      /\ p.failure = "none"
  BY <1>1, <1>2, UnsettledFacts
<1>4. BareTypes("submitting", "active", "not_requested", FALSE, "none")
      /\ BareSound("submitting", "active", "not_requested", FALSE, "none")
  BY DEF BareTypes, BareSound, AttemptStatuses, TERMINAL
<1>5. Kept(p, Bare(p, "submitting", "active", "not_requested", FALSE, "none"))
  BY <1>2, <1>3, <1>4, BareKept
<1>6. [p EXCEPT !.status = "submitting"]
        = Bare(p, "submitting", "active", "not_requested", FALSE, "none")
  BY <1>3 DEF Bare, AttemptRecord
<1> QED
  BY <1>1, <1>5, <1>6 DEF Bare, AttemptRecord

LEMMA WithdrawnKept ==
  ASSUME NEW a, Accepted(a), a.status \in {"queued", "submitting"}, ~a.handle
  PROVE  Kept(a, Withdrawn(a)) /\ Withdrawn(a).status = "cancelled"
<1>1. PICK p \in AttemptRecord : p = a
  BY DEF Accepted
<1>2. Unsettled(p) /\ Accepted(p)
  BY <1>1 DEF Unsettled, TERMINAL
<1>3. /\ ~p.handle /\ p.handle \in BOOLEAN
      /\ p.settling = "none" /\ p.settled = NoOutputs /\ p.bundle = NoBundle
      /\ p.failure = "none"
  BY <1>1, <1>2, UnsettledFacts
<1>4. BareTypes("cancelled", "abandoned", "requested", FALSE, "none")
      /\ BareSound("cancelled", "abandoned", "requested", FALSE, "none")
  BY DEF BareTypes, BareSound, AttemptStatuses, TERMINAL, Cancellations
<1>5. Kept(p, Bare(p, "cancelled", "abandoned", "requested", FALSE, "none"))
  BY <1>2, <1>3, <1>4, BareKept
<1>6. Withdrawn(p) = Bare(p, "cancelled", "abandoned", "requested", FALSE, "none")
  BY <1>3 DEF Bare, AttemptRecord, Withdrawn, Abandoned
<1> QED
  BY <1>1, <1>5, <1>6 DEF Bare, AttemptRecord

(* An attempt that is given up, as cancel leaves it. *)
Marked(a) ==
  [Abandoned(a) EXCEPT
     !.status = CASE a.status = "queued" -> "cancelled"
                  [] a.status = "pending" -> "cancel_requested"
                  [] OTHER -> a.status]

LEMMA MarkedKept ==
  ASSUME NEW a, Accepted(a), a.status \notin TERMINAL
  PROVE  /\ Kept(a, Marked(a)) /\ Marked(a).disposition = "abandoned"
         /\ Marked(a).handle = a.handle
<1>1. PICK p \in AttemptRecord : p = a
  BY DEF Accepted
<1> DEFINE status == CASE p.status = "queued" -> "cancelled"
                       [] p.status = "pending" -> "cancel_requested"
                       [] OTHER -> p.status
           q == Marked(p)
<1>2. /\ q \in AttemptRecord /\ q.id = p.id /\ q.status = status
      /\ q.disposition = "abandoned" /\ q.cancellation = "requested" /\ q.handle = p.handle
      /\ q.settling = p.settling /\ q.settled = p.settled /\ q.bundle = p.bundle
      /\ q.failure = p.failure
  <2>1. status \in AttemptStatuses
    BY DEF AttemptRecord, AttemptStatuses, TERMINAL
  <2> HIDE DEF status
  <2>2. q = [p EXCEPT !.disposition = "abandoned", !.cancellation = "requested",
                      !.status = status]
    BY DEF Marked, Abandoned, AttemptRecord, status
  <2> QED
    BY <2>1, <2>2 DEF AttemptRecord, Cancellations
<1>3. assertAttemptState(p) /\ p.bundle = NoBundle
  BY <1>1, UnsettledBare DEF Accepted, captureAttempt
<1>4. /\ q.status \in TERMINAL => q.status = "cancelled" /\ p.status = "queued"
      /\ q.status # "queued" /\ q.status # "pending"
      /\ q.status = "cancel_requested" => p.status \in {"pending", "cancel_requested"}
      /\ q.status \notin {"cancelled", "cancel_requested"} => q.status = p.status
      /\ p.status \notin TERMINAL
  BY <1>1, <1>2 DEF TERMINAL
<1> HIDE DEF q
<1>5. assertAttemptState(q)
  BY <1>2, <1>3, <1>4 DEF assertAttemptState, TERMINAL
<1>6. captureBundle(q.bundle) /\ assertBundleLinks(q)
  BY <1>2, <1>3, <1>4, NothingYet DEF assertBundleLinks, TERMINAL
<1>7. Kept(p, q)
  BY <1>2, <1>4, <1>5, <1>6 DEF Kept, Accepted, captureAttempt, TERMINAL
<1> QED
  BY <1>1, <1>2, <1>7 DEF q

(* What becomes of a request to cancel an attempt that was given up. *)
LEMMA CancellationKept ==
  ASSUME NEW a, Accepted(a), a.disposition = "abandoned", a.handle, NEW k \in Cancellations
  PROVE  Kept(a, recordCancellation(a, k))
<1>1. PICK p \in AttemptRecord : p = a
  BY DEF Accepted
<1>2. assertAttemptState(p) /\ captureBundle(p.bundle) /\ assertBundleLinks(p)
  BY <1>1 DEF Accepted, captureAttempt
<1>3. CASE k = "confirmed" /\ Unsettled(p)
  <2>1. Kept(p, markCancelled(p))
    BY <1>1, MarksKept
  <2> QED
    BY <1>1, <1>3, <2>1 DEF recordCancellation, markCancelled
<1>4. CASE ~(k = "confirmed" /\ Unsettled(p))
  <2> DEFINE q == [p EXCEPT !.cancellation = k]
  <2>1. /\ q \in AttemptRecord /\ q.id = p.id /\ q.status = p.status
        /\ q.disposition = p.disposition /\ q.cancellation = k /\ q.handle = p.handle
        /\ q.settling = p.settling /\ q.settled = p.settled /\ q.bundle = p.bundle
        /\ q.failure = p.failure
    BY DEF AttemptRecord
  <2>2. p.status = "cancel_requested" => k # "confirmed"
    BY <1>4 DEF Unsettled, TERMINAL
  <2>3. p.handle /\ p.disposition = "abandoned"
    BY <1>1
  <2>4. q = [p EXCEPT !.cancellation = q.cancellation]
    BY <2>1
  <2> HIDE DEF q
  <2>5. assertAttemptState(q)
    BY <1>2, <2>1, <2>2, <2>3 DEF assertAttemptState, Cancellations
  <2>6. captureBundle(q.bundle) /\ assertBundleLinks(q)
    BY <1>2, <2>1 DEF assertBundleLinks
  <2>7. Unsettled(q) => q.cancellation # "confirmed"
    BY <1>4, <2>1 DEF Unsettled
  <2>8. Kept(p, q)
    BY <2>1, <2>4, <2>5, <2>6, <2>7 DEF Kept, Accepted, captureAttempt
  <2> QED
    BY <1>1, <1>4, <2>8 DEF recordCancellation, q
<1> QED
  BY <1>3, <1>4

(* What the provider yielded, merged into what was settled before. *)
Yields(status, published, failed) ==
  /\ status \in {"succeeded", "partially_succeeded"}
  /\ published \in SUBSET Outputs
  /\ status = "succeeded" => failed = {}
  /\ status = "partially_succeeded" => \E o \in Outputs : o \in failed /\ o \notin published

(* Whether attempt a takes them. *)
Merges(a, status, published, failed) ==
  /\ a.status \notin TERMINAL
  /\ a.status = "settling" => a.settling = status
  /\ Consistent(a.settled, Settlements(published, failed))

MergedSound(status, published, failed, merged) ==
  /\ merged \in [Outputs -> {"none", "published", "failed"}]
  /\ Of(merged, "published") \cap Of(merged, "failed") = {}
  /\ Of(merged, "published") \in SUBSET Outputs /\ Of(merged, "failed") \in SUBSET Outputs
  /\ ~exceedsBundleBytes(merged) => Cardinality(Of(merged, "published")) <= MaxBundleBytes
  /\ status = "succeeded" /\ failed = {} => Of(merged, "failed") = {}
  /\ (\E o \in Outputs : o \in failed /\ o \notin published) => Of(merged, "failed") # {}
  /\ published # {} => Of(merged, "published") # {}

LEMMA MergedOutputs ==
  ASSUME NEW a, Accepted(a), NEW status, NEW published \in SUBSET Outputs, NEW failed,
         Merges(a, status, published, failed)
  PROVE  MergedSound(status, published, failed,
                     mergeOutputSettlements(a.settled, Settlements(published, failed)))
<1>1. PICK p \in AttemptRecord : p = a
  BY DEF Accepted
<1> DEFINE old == p.settled
           new == Settlements(published, failed)
           merged == mergeOutputSettlements(old, new)
<1>2. old \in [Outputs -> {"none", "published", "failed"}]
  BY DEF AttemptRecord
<1>3. /\ new \in [Outputs -> {"none", "published", "failed"}]
      /\ \A o \in Outputs : /\ new[o] = "published" <=> o \in published
                            /\ new[o] = "failed" <=> o \notin published /\ o \in failed
  BY DEF Settlements
<1>4. \A o \in Outputs : old[o] = "none" \/ new[o] = "none" \/ old[o] = new[o]
  BY <1>1 DEF Consistent, Merges
<1>5. merged = [o \in Outputs |-> IF old[o] = "none" THEN new[o] ELSE old[o]]
  BY DEF mergeOutputSettlements
<1>6. p.status # "settling" => \A o \in Outputs : old[o] = "none"
  BY <1>1, UnsettledBare DEF NoOutputs, Merges
<1>7. p.status = "settling" => p.settling = status /\ (status = "succeeded" => Of(old, "failed") = {})
  BY <1>1 DEF Accepted, captureAttempt, assertAttemptState, Merges
<1> HIDE DEF merged
<1>8. merged \in [Outputs -> {"none", "published", "failed"}]
  <2> HIDE DEF old, new
  <2> QED
    BY <1>2, <1>3, <1>5
<1>9. /\ Of(merged, "published") \cap Of(merged, "failed") = {}
      /\ Of(merged, "published") \in SUBSET Outputs /\ Of(merged, "failed") \in SUBSET Outputs
  BY DEF Of
<1>10. ~exceedsBundleBytes(merged) => Cardinality(Of(merged, "published")) <= MaxBundleBytes
  <2>1. Cardinality(Of(merged, "published")) \in Nat
    BY <1>9, FS_Subset, FS_CardinalityType, MediaAssumption
  <2> QED
    BY <2>1, MediaAssumption DEF exceedsBundleBytes
<1>11. status = "succeeded" /\ failed = {} => Of(merged, "failed") = {}
  <2> HIDE DEF old, new
  <2> QED
    BY <1>3, <1>5, <1>6, <1>7 DEF Of
<1>12. (\E o \in Outputs : o \in failed /\ o \notin published) => Of(merged, "failed") # {}
  <2> HIDE DEF old, new
  <2> QED
    BY <1>2, <1>3, <1>4, <1>5 DEF Of
<1>13. published # {} => Of(merged, "published") # {}
  <2> HIDE DEF old, new
  <2> QED
    BY <1>2, <1>3, <1>4, <1>5 DEF Of
<1>14. MergedSound(status, published, failed, merged)
  BY <1>8, <1>9, <1>10, <1>11, <1>12, <1>13 DEF MergedSound
<1> QED
  BY <1>1, <1>14 DEF merged

(* An attempt with outputs, as a change makes it of attempt a. *)
WithOutputs(a, status, settling, outputs, bundle, failure) ==
  [a EXCEPT !.status = status, !.settling = settling, !.settled = outputs,
            !.bundle = bundle, !.failure = failure]

OutputsSound(a, status, settling, outputs, bundle, failure) ==
  /\ status \in {"settling", "succeeded", "partially_succeeded", "failed"}
  /\ settling \in {"none", "succeeded", "partially_succeeded"}
  /\ outputs \in [Outputs -> {"none", "published", "failed"}]
  /\ bundle \in BundleRecord /\ captureBundle(bundle)
  /\ failure \in {"none", "other"}
  /\ failure # "none" <=> status = "failed"
  /\ settling # "none" <=> status = "settling"
  /\ settling = "succeeded" => Of(outputs, "failed") = {}
  /\ settling = "partially_succeeded" => Of(outputs, "failed") # {}
  /\ status = "succeeded" => Of(outputs, "published") # {} /\ Of(outputs, "failed") = {}
  /\ status = "partially_succeeded" =>
       Of(outputs, "published") # {} /\ Of(outputs, "failed") # {}
  /\ IF status \in {"succeeded", "partially_succeeded"}
     THEN bundle = [disposition |-> bundleDisposition(a, status),
                    resources |-> Of(outputs, "published"),
                    failures |-> Of(outputs, "failed")]
     ELSE bundle = NoBundle

LEMMA WithOutputsKept ==
  ASSUME NEW a, Accepted(a), a.status \notin TERMINAL,
         NEW status, NEW settling, NEW outputs, NEW bundle, NEW failure,
         OutputsSound(a, status, settling, outputs, bundle, failure)
  PROVE  Kept(a, WithOutputs(a, status, settling, outputs, bundle, failure))
<1>1. PICK p \in AttemptRecord : p = a
  BY DEF Accepted
<1> DEFINE q == WithOutputs(p, status, settling, outputs, bundle, failure)
<1>2. /\ q \in AttemptRecord /\ q.id = p.id /\ q.status = status
      /\ q.disposition = p.disposition /\ q.cancellation = p.cancellation
      /\ q.handle = p.handle /\ q.settling = settling /\ q.settled = outputs
      /\ q.bundle = bundle /\ q.failure = failure
  BY DEF AttemptRecord, AttemptStatuses, WithOutputs, TERMINAL, OutputsSound
<1>3. /\ p.disposition = "active" => p.cancellation = "not_requested"
      /\ p.disposition = "abandoned" => p.cancellation # "not_requested"
      /\ p.status \notin TERMINAL
  BY <1>1, UnsettledBare DEF Cancellations
<1> HIDE DEF q
<1>4. assertAttemptState(q)
  BY <1>2, <1>3 DEF assertAttemptState, OutputsSound, TERMINAL
<1>5. captureBundle(q.bundle)
  BY <1>2 DEF OutputsSound
<1>6. assertBundleLinks(q)
  <2>1. CASE status \in {"succeeded", "partially_succeeded"}
    BY <1>1, <1>2, <2>1 DEF assertBundleLinks, bundleDisposition, OutputsSound
  <2>2. CASE status \notin {"succeeded", "partially_succeeded"}
    BY <1>2, <2>2 DEF assertBundleLinks, OutputsSound
  <2> QED
    BY <2>1, <2>2
<1>7. Unsettled(q) => FALSE
  BY <1>2 DEF Unsettled, TERMINAL, OutputsSound
<1>8. Kept(p, q)
  BY <1>2, <1>3, <1>4, <1>5, <1>6, <1>7 DEF Kept, Accepted, captureAttempt, OutputsSound
<1> QED
  BY <1>1, <1>8 DEF q

(* The three changes that bring outputs. *)
LEMMA OutputsKept ==
  ASSUME NEW a, Accepted(a), NEW status, NEW published, NEW failed
  PROVE  /\ Yields(status, published, failed) =>
              Kept(a, recordSettling(a, status, published, failed))
         /\ Yields(status, published, failed) /\ published # {} =>
              Kept(a, publishBundle(a, status, published, failed))
         /\ published \in SUBSET Outputs =>
              Kept(a, recordOutputFailure(a, status, published, failed))
<1>1. PICK p \in AttemptRecord : p = a
  BY DEF Accepted
<1> DEFINE new == Settlements(published, failed)
           merged == mergeOutputSettlements(p.settled, new)
           cleared == [clearAttemptOutcome(p) EXCEPT !.settled = merged]
           failing == WithOutputs(p, "failed", "none", merged, NoBundle, "other")
           settling == WithOutputs(p, "settling", status, merged, NoBundle, "none")
           bundle == [disposition |-> bundleDisposition(p, status),
                      resources |-> Of(merged, "published"), failures |-> Of(merged, "failed")]
           publishing == WithOutputs(p, status, "none", merged, bundle, "none")
<1>2. Kept(p, p)
  BY <1>1, KeptSame
<1>3. CASE ~Merges(p, status, published, failed)
  BY <1>1, <1>2, <1>3 DEF Merges, recordSettling, publishBundle, recordOutputFailure, Merge
<1>4. CASE Merges(p, status, published, failed)
  <2>1. /\ recordSettling(p, status, published, failed) \in {failing, settling}
        /\ exceedsBundleBytes(merged) =>
             recordSettling(p, status, published, failed) = failing
    BY <1>4 DEF Merges, recordSettling, Merge, clearAttemptOutcome, WithOutputs, AttemptRecord
  <2>2. /\ publishBundle(p, status, published, failed) \in {failing, publishing}
        /\ exceedsBundleBytes(merged) =>
             publishBundle(p, status, published, failed) = failing
    BY <1>4 DEF Merges, publishBundle, Merge, clearAttemptOutcome, WithOutputs, AttemptRecord
  <2>3. recordOutputFailure(p, status, published, failed) = failing
    BY <1>4 DEF Merges, recordOutputFailure, Merge, clearAttemptOutcome, WithOutputs, AttemptRecord
  <2> SUFFICES ASSUME published \in SUBSET Outputs
               PROVE  /\ Yields(status, published, failed) =>
                           Kept(p, recordSettling(p, status, published, failed))
                      /\ Yields(status, published, failed) /\ published # {} =>
                           Kept(p, publishBundle(p, status, published, failed))
                      /\ Kept(p, failing)
    BY <1>1, <2>3 DEF Yields
  <2>4. /\ merged \in [Outputs -> {"none", "published", "failed"}]
        /\ Of(merged, "published") \cap Of(merged, "failed") = {}
        /\ Of(merged, "published") \in SUBSET Outputs /\ Of(merged, "failed") \in SUBSET Outputs
        /\ ~exceedsBundleBytes(merged) => Cardinality(Of(merged, "published")) <= MaxBundleBytes
        /\ status = "succeeded" /\ failed = {} => Of(merged, "failed") = {}
        /\ (\E o \in Outputs : o \in failed /\ o \notin published) => Of(merged, "failed") # {}
        /\ published # {} => Of(merged, "published") # {}
    <3>1. MergedSound(status, published, failed, merged)
      BY <1>1, <1>4, MergedOutputs
    <3> QED
      BY <3>1 DEF MergedSound
  <2>5. Accepted(p) /\ p.status \notin TERMINAL
    BY <1>1, <1>4 DEF Merges
  <2> HIDE DEF merged
  <2>6. Kept(p, failing)
    <3>1. OutputsSound(p, "failed", "none", merged, NoBundle, "other")
      BY <2>4, NothingYet DEF OutputsSound
    <3> QED
      BY <2>5, <3>1, WithOutputsKept
  <2>7. ASSUME Yields(status, published, failed)
        PROVE  Kept(p, settling)
    <3>1. OutputsSound(p, "settling", status, merged, NoBundle, "none")
      BY <2>4, <2>7, NothingYet DEF OutputsSound, Yields
    <3> QED
      BY <2>5, <3>1, WithOutputsKept
  <2>8. ASSUME Yields(status, published, failed), published # {}, ~exceedsBundleBytes(merged)
        PROVE  Kept(p, publishing)
    <3>1. bundle \in BundleRecord /\ captureBundle(bundle)
      BY <2>4, <2>8 DEF BundleRecord, captureBundle, bundleDisposition
    <3> HIDE DEF bundle
    <3>2. bundle = [disposition |-> bundleDisposition(p, status),
                    resources |-> Of(merged, "published"),
                    failures |-> Of(merged, "failed")]
      BY DEF bundle
    <3>3. OutputsSound(p, status, "none", merged, bundle, "none")
      BY <2>4, <2>8, <3>1, <3>2 DEF OutputsSound, Yields
    <3> QED
      BY <2>5, <3>3, WithOutputsKept
  <2> QED
    BY <2>1, <2>2, <2>6, <2>7, <2>8
<1> QED
  BY <1>3, <1>4

-----------------------------------------------------------------------------
(* The stored jobs *)

JobAccepted(attempts) ==
  /\ attempts \in Seq(AttemptRecord) /\ captureStoredMediaJob(attempts)
  /\ \A k \in DOMAIN attempts : Accepted(attempts[k])

(* Every stored job is one its store accepts, no two share an attempt, and *)
(* no change was ever refused.                                             *)
StoreSound ==
  /\ mediaJobs \in [Jobs -> Seq(AttemptRecord)] /\ mediaRefused = FALSE
  /\ \A j \in Jobs : JobAccepted(mediaJobs[j])
  /\ \A i \in Jobs, j \in Jobs : \A a \in AttemptsOf(i) :
       (\E b \in AttemptsOf(j) : a.id = b.id) => i = j

AllAttempts == UNION {AttemptsOf(j) : j \in Jobs}

(* What a step makes of the stored jobs: each attempt is kept, new or gone. *)
Evolves ==
  \A j \in Jobs : \A b \in {mediaJobs'[j][k] : k \in DOMAIN mediaJobs'[j]} :
    \/ \E a \in AttemptsOf(j) : Kept(a, b)
    \/ \A a \in AttemptsOf(j) : a.id # b.id

(* No attempt is new. *)
Descends == \A b \in AllAttempts' : \E a \in AllAttempts : Kept(a, b)

LEMMA AttemptsAccepted ==
  ASSUME StoreSound, NEW j \in Jobs, NEW a \in AttemptsOf(j)
  PROVE  /\ Accepted(a) /\ a \in AttemptRecord /\ a \in AllAttempts
         /\ \A b \in AttemptsOf(j) : a.id = b.id => a = b
<1>1. PICK k \in DOMAIN mediaJobs[j] : a = mediaJobs[j][k]
  BY DEF AttemptsOf
<1>2. Accepted(a) /\ a \in AttemptRecord
  BY <1>1 DEF StoreSound, JobAccepted, Accepted
<1>3. \A b \in AttemptsOf(j) : a.id = b.id => a = b
  BY <1>1 DEF StoreSound, JobAccepted, captureStoredMediaJob, AttemptsOf
<1> QED
  BY <1>2, <1>3 DEF AllAttempts

LEMMA StoreUnchanged ==
  ASSUME StoreSound, UNCHANGED stored
  PROVE  StoreSound' /\ Evolves /\ Descends /\ AllAttempts' = AllAttempts
<1>1. mediaJobs' = mediaJobs /\ mediaRefused' = mediaRefused
  BY DEF stored
<1>2. StoreSound' /\ AllAttempts' = AllAttempts
  BY <1>1 DEF StoreSound, AttemptsOf, AllAttempts
<1>3. \A j \in Jobs : \A b \in AttemptsOf(j) : Kept(b, b)
  BY AttemptsAccepted, KeptSame
<1>4. Evolves
  BY <1>1, <1>3 DEF Evolves, AttemptsOf
<1>5. Descends
  BY <1>2, <1>3 DEF Descends, AllAttempts
<1> QED
  BY <1>2, <1>4, <1>5

(* One job becomes another that its store accepts. *)
LEMMA JobReplaced ==
  ASSUME StoreSound, NEW j \in Jobs, NEW attempts, JobAccepted(attempts),
         \A k \in DOMAIN attempts : \A i \in Jobs :
           (\E b \in AttemptsOf(i) : attempts[k].id = b.id) => i = j,
         Store(j, attempts)
  PROVE  /\ StoreSound' /\ mediaJobs' = [mediaJobs EXCEPT ![j] = attempts]
         /\ UNCHANGED mediaRefused
<1>1. mediaJobs' = [mediaJobs EXCEPT ![j] = attempts] /\ UNCHANGED mediaRefused
  BY DEF Store, JobAccepted
<1>2. /\ mediaJobs' \in [Jobs -> Seq(AttemptRecord)]
      /\ \A i \in Jobs : JobAccepted(mediaJobs'[i])
  BY <1>1 DEF StoreSound, JobAccepted
<1> DEFINE now(i) == {mediaJobs'[i][k] : k \in DOMAIN mediaJobs'[i]}
<1>3. \A i \in Jobs : i # j => now(i) = AttemptsOf(i)
  BY <1>1 DEF StoreSound, AttemptsOf
<1>4. now(j) = {attempts[k] : k \in DOMAIN attempts}
  BY <1>1 DEF StoreSound
<1> HIDE DEF now
<1>5. ASSUME NEW h \in Jobs, NEW i \in Jobs, NEW a \in now(h), NEW b \in now(i), a.id = b.id
      PROVE  h = i
  <2>1. CASE h # j /\ i # j
    BY <1>3, <1>5, <2>1 DEF StoreSound
  <2>2. CASE h = j \/ i = j
    BY <1>3, <1>4, <1>5, <2>2
  <2> QED
    BY <2>1, <2>2
<1> QED
  BY <1>1, <1>2, <1>5 DEF StoreSound, AttemptsOf, now

(* One attempt of a job is changed. *)
LEMMA StoreKept ==
  ASSUME StoreSound, NEW j \in Jobs, NEW a \in AttemptsOf(j), NEW b, Kept(a, b),
         Store(j, replaceAttempt(j, b))
  PROVE  /\ StoreSound' /\ Evolves /\ Descends
         /\ \A d \in AllAttempts' : d = b \/ (d \in AllAttempts /\ d.id # a.id)
<1> DEFINE old == mediaJobs[j]
           new == replaceAttempt(j, b)
<1>1. /\ old \in Seq(AttemptRecord) /\ captureStoredMediaJob(old)
      /\ \A k \in DOMAIN old : Accepted(old[k])
  BY DEF StoreSound, JobAccepted
<1>2. /\ Accepted(a) /\ Accepted(b) /\ b.id = a.id /\ b \in AttemptRecord
      /\ a.status \in TERMINAL \/ a.disposition = "abandoned" =>
           b.status \in TERMINAL \/ b.disposition = "abandoned"
  <2>1. Accepted(a) /\ Accepted(b) /\ b.id = a.id /\ b \in AttemptRecord /\ a \in AttemptRecord
    BY AttemptsAccepted DEF Kept, Accepted
  <2>2. a.status \in TERMINAL => b.status = a.status
    BY <2>1 DEF Kept, AttemptRecord
  <2> QED
    BY <2>1, <2>2 DEF Kept
<1>3. new = [k \in DOMAIN old |-> IF old[k].id = a.id THEN b ELSE old[k]]
  BY <1>2 DEF replaceAttempt
<1> HIDE DEF new
<1>4. /\ new \in Seq(AttemptRecord) /\ Len(new) = Len(old) /\ DOMAIN new = DOMAIN old
      /\ DOMAIN old = 1..Len(old) /\ Len(old) \in Nat
  BY <1>1, <1>2, <1>3
<1>5. \A k \in DOMAIN old : /\ new[k].id = old[k].id
                            /\ new[k] = old[k] \/ (new[k] = b /\ old[k] = a)
  <2>1. \A k \in DOMAIN old : old[k] \in AttemptsOf(j)
    BY DEF AttemptsOf
  <2>2. \A k \in DOMAIN old : old[k].id = a.id => old[k] = a
    BY <2>1, AttemptsAccepted
  <2> QED
    BY <1>2, <1>3, <2>2
<1>16. \A k \in DOMAIN old : old[k] \in AttemptsOf(j)
  BY DEF AttemptsOf
<1>6. JobAccepted(new)
  <2>1. \A k \in DOMAIN new : Accepted(new[k])
    BY <1>1, <1>2, <1>4, <1>5
  <2>2. \A k, l \in DOMAIN new : new[k].id = new[l].id => k = l
    BY <1>1, <1>4, <1>5 DEF captureStoredMediaJob
  <2>3. \A k \in 1..Len(new) - 1 : new[k].status \in TERMINAL \/ new[k].disposition = "abandoned"
    BY <1>1, <1>2, <1>4, <1>5 DEF captureStoredMediaJob
  <2> QED
    BY <1>1, <1>4, <2>1, <2>2, <2>3 DEF JobAccepted, captureStoredMediaJob, Accepted
<1>7. \A k \in DOMAIN new : \A i \in Jobs :
        (\E d \in AttemptsOf(i) : new[k].id = d.id) => i = j
  <2>1. \A i \in Jobs, l \in Jobs : \A d \in AttemptsOf(l) :
          (\E e \in AttemptsOf(i) : d.id = e.id) => l = i
    BY DEF StoreSound
  <2>2. \A k \in DOMAIN new : old[k] \in AttemptsOf(j) /\ new[k].id = old[k].id
    BY <1>4, <1>5, <1>16
  <2> QED
    BY <2>1, <2>2
<1>8. StoreSound' /\ mediaJobs' = [mediaJobs EXCEPT ![j] = new]
  BY <1>6, <1>7, JobReplaced DEF new
<1> DEFINE now(i) == {mediaJobs'[i][k] : k \in DOMAIN mediaJobs'[i]}
<1>9. /\ \A i \in Jobs : i # j => now(i) = AttemptsOf(i)
      /\ now(j) = {new[k] : k \in DOMAIN new}
  BY <1>8 DEF StoreSound, AttemptsOf
<1>10. AllAttempts' = UNION {now(i) : i \in Jobs}
  BY DEF AllAttempts, AttemptsOf
<1>11. \A i \in Jobs : \A d \in AttemptsOf(i) : Kept(d, d)
  BY AttemptsAccepted, KeptSame
<1> HIDE DEF now
<1>12. \A i \in Jobs : \A d \in now(i) : \E e \in AttemptsOf(i) : Kept(e, d)
  <2>1. \A d \in now(j) : \E e \in AttemptsOf(j) : Kept(e, d)
    <3>1. \A k \in DOMAIN old : Kept(old[k], old[k])
      BY <1>16, <1>11
    <3>2. \A k \in DOMAIN new : Kept(old[k], new[k]) /\ old[k] \in AttemptsOf(j)
      BY <1>4, <1>5, <1>16, <3>1
    <3> QED
      BY <1>4, <1>9, <3>2
  <2> QED
    BY <1>9, <1>11, <2>1
<1>13. Evolves
  BY <1>12 DEF Evolves, now
<1>14. Descends
  BY <1>10, <1>12 DEF Descends, AllAttempts
<1>15. \A i \in Jobs : \A d \in now(i) : d = b \/ (d \in AllAttempts /\ d.id # a.id)
  <2>1. \A d \in now(j) : d = b \/ (d \in AllAttempts /\ d.id # a.id)
    <3>1. \A k \in DOMAIN old : old[k] \in AttemptsOf(j)
      BY DEF AttemptsOf
    <3>2. \A k \in DOMAIN old : new[k] = b \/ (new[k] = old[k] /\ old[k].id # a.id)
      BY <1>3
    <3> QED
      BY <1>4, <1>9, <3>1, <3>2 DEF AllAttempts
  <2>2. ASSUME NEW i \in Jobs, i # j, NEW d \in AttemptsOf(i)
        PROVE  d \in AllAttempts /\ d.id # a.id
    BY <2>2 DEF StoreSound, AllAttempts
  <2> QED
    BY <1>9, <2>1, <2>2
<1> QED
  BY <1>8, <1>10, <1>13, <1>14, <1>15

(* A job gets a new attempt. *)
LEMMA StoreNew ==
  ASSUME StoreSound, NEW j \in Jobs, NEW id \in Ids, \A a \in AllAttempts : a.id # id,
         Len(mediaJobs[j]) < MaxAttemptsPerJob,
         mediaJobs[j] # <<>> =>
           currentAttempt(j).status \in TERMINAL \/ currentAttempt(j).disposition = "abandoned",
         Store(j, Append(mediaJobs[j], newAttempt(id)))
  PROVE  /\ StoreSound' /\ Evolves
         /\ \A d \in AllAttempts' : d = newAttempt(id) \/ d \in AllAttempts
<1> DEFINE old == mediaJobs[j]
           b == newAttempt(id)
           new == Append(old, b)
<1>1. /\ old \in Seq(AttemptRecord) /\ captureStoredMediaJob(old)
      /\ \A k \in DOMAIN old : Accepted(old[k])
  BY DEF StoreSound, JobAccepted
<1>2. Accepted(b) /\ b.id = id /\ b \in AttemptRecord
  BY NewAccepted DEF Accepted
<1>3. \A k \in DOMAIN old : old[k] \in AttemptsOf(j) /\ old[k].id # id
  BY DEF AttemptsOf, AllAttempts
<1>4. old # <<>> => /\ Len(old) \in DOMAIN old
                    /\ old[Len(old)].status \in TERMINAL \/ old[Len(old)].disposition = "abandoned"
  BY <1>1 DEF currentAttempt
<1> HIDE DEF b
<1>5. /\ new \in Seq(AttemptRecord) /\ Len(new) = Len(old) + 1 /\ DOMAIN new = 1..(Len(old) + 1)
      /\ DOMAIN old = 1..Len(old) /\ Len(old) \in Nat
      /\ \A k \in DOMAIN old : new[k] = old[k]
      /\ new[Len(old) + 1] = b
  BY <1>1, <1>2
<1> HIDE DEF new
<1>6. JobAccepted(new)
  <2>1. \A k \in DOMAIN new : Accepted(new[k])
    BY <1>1, <1>2, <1>5
  <2>2. \A k, l \in DOMAIN new : new[k].id = new[l].id => k = l
    BY <1>1, <1>2, <1>3, <1>5 DEF captureStoredMediaJob
  <2>3. \A k \in 1..Len(new) - 1 : new[k].status \in TERMINAL \/ new[k].disposition = "abandoned"
    <3>1. \A k \in 1..Len(old) - 1 : old[k].status \in TERMINAL \/ old[k].disposition = "abandoned"
      BY <1>1 DEF captureStoredMediaJob
    <3>2. SUFFICES ASSUME NEW k \in 1..Len(old)
                   PROVE  old[k].status \in TERMINAL \/ old[k].disposition = "abandoned"
      BY <1>5
    <3>3. CASE k = Len(old)
      BY <1>4, <1>5, <3>3
    <3>4. CASE k # Len(old)
      BY <1>5, <3>1, <3>4
    <3> QED
      BY <3>3, <3>4
  <2>4. Len(new) <= MaxAttemptsPerJob
    BY <1>5, MediaAssumption
  <2> QED
    BY <1>5, <2>1, <2>2, <2>3, <2>4 DEF JobAccepted, captureStoredMediaJob, Accepted
<1>7. \A k \in DOMAIN new : \A i \in Jobs :
        (\E d \in AttemptsOf(i) : new[k].id = d.id) => i = j
  <2>1. \A i \in Jobs, l \in Jobs : \A d \in AttemptsOf(l) :
          (\E e \in AttemptsOf(i) : d.id = e.id) => l = i
    BY DEF StoreSound
  <2>2. \A i \in Jobs : \A e \in AttemptsOf(i) : e.id # id
    BY DEF AllAttempts
  <2> QED
    BY <1>2, <1>3, <1>5, <2>1, <2>2
<1>8. StoreSound' /\ mediaJobs' = [mediaJobs EXCEPT ![j] = new]
  BY <1>6, <1>7, JobReplaced DEF new, b
<1> DEFINE now(i) == {mediaJobs'[i][k] : k \in DOMAIN mediaJobs'[i]}
<1>9. /\ \A i \in Jobs : i # j => now(i) = AttemptsOf(i)
      /\ now(j) = {new[k] : k \in DOMAIN new}
  BY <1>8 DEF StoreSound, AttemptsOf
<1>10. AllAttempts' = UNION {now(i) : i \in Jobs}
  BY DEF AllAttempts, AttemptsOf
<1>11. \A i \in Jobs : \A d \in AttemptsOf(i) : Kept(d, d) /\ d.id # id /\ d \in AllAttempts
  BY AttemptsAccepted, KeptSame DEF AllAttempts
<1> HIDE DEF now
<1>12. \A d \in now(j) : d \in AttemptsOf(j) \/ d = b
  BY <1>3, <1>5, <1>9
<1>13. \A i \in Jobs : \A d \in now(i) :
         (\E e \in AttemptsOf(i) : Kept(e, d)) \/ (\A e \in AttemptsOf(i) : e.id # d.id)
  BY <1>2, <1>9, <1>11, <1>12
<1>14. Evolves
  BY <1>13 DEF Evolves, now
<1>15. \A i \in Jobs : \A d \in now(i) : d = b \/ d \in AllAttempts
  BY <1>9, <1>11, <1>12
<1> QED
  BY <1>8, <1>10, <1>14, <1>15 DEF b

(* A job is purged. *)
LEMMA StorePurged ==
  ASSUME StoreSound, NEW j \in Jobs, mediaJobs' = [mediaJobs EXCEPT ![j] = <<>>],
         UNCHANGED mediaRefused
  PROVE  StoreSound' /\ Evolves /\ Descends
<1> DEFINE now(i) == {mediaJobs'[i][k] : k \in DOMAIN mediaJobs'[i]}
<1>1. /\ \A i \in Jobs : i # j => now(i) = AttemptsOf(i)
      /\ now(j) = {}
      /\ mediaJobs' \in [Jobs -> Seq(AttemptRecord)]
  BY DEF StoreSound, AttemptsOf
<1>2. JobAccepted(<<>>)
  BY MediaAssumption DEF JobAccepted, captureStoredMediaJob
<1>3. \A i \in Jobs : JobAccepted(mediaJobs'[i])
  BY <1>2 DEF StoreSound
<1>4. AllAttempts' = UNION {now(i) : i \in Jobs}
  BY DEF AllAttempts, AttemptsOf
<1>5. \A i \in Jobs : \A d \in AttemptsOf(i) : Kept(d, d) /\ d \in AllAttempts
  BY AttemptsAccepted, KeptSame DEF AllAttempts
<1> HIDE DEF now
<1>6. \A h \in Jobs, i \in Jobs : \A a \in now(h) : (\E b \in now(i) : a.id = b.id) => h = i
  <2>1. \A i \in Jobs, l \in Jobs : \A d \in AttemptsOf(l) :
          (\E e \in AttemptsOf(i) : d.id = e.id) => l = i
    BY DEF StoreSound
  <2> QED
    BY <1>1, <2>1
<1>7. StoreSound'
  BY <1>1, <1>3, <1>6 DEF StoreSound, AttemptsOf, now
<1>8. \A i \in Jobs : \A d \in now(i) : (\E e \in AttemptsOf(i) : Kept(e, d)) /\ d \in AllAttempts
  BY <1>1, <1>5
<1>9. Evolves
  BY <1>8 DEF Evolves, now
<1>10. Descends
  BY <1>4, <1>5, <1>8 DEF Descends, AllAttempts
<1> QED
  BY <1>7, <1>9, <1>10

(* The attempt a call is about. *)
LEMMA SelectedAttempt ==
  ASSUME NEW j, NEW id, Exists(j, id)
  PROVE  selectAttempt(j, id) \in AttemptsOf(j) /\ selectAttempt(j, id).id = id
BY DEF Exists, selectAttempt

-----------------------------------------------------------------------------
(* Places with the provider *)

(* Those who wait do so in an order: whoever is ahead of one that is ahead  *)
(* of a caller is ahead of that caller, and nobody is ahead of itself.      *)
Lined(waiting) ==
  /\ DOMAIN waiting \subseteq Callers
  /\ waiting = [c \in DOMAIN waiting |-> waiting[c]]
  /\ \A c \in DOMAIN waiting :
       /\ waiting[c] \subseteq DOMAIN waiting /\ c \notin waiting[c]
       /\ \A d \in waiting[c] : waiting[d] \subseteq waiting[c]

AdmissionSound(adm) ==
  /\ adm = [active |-> adm.active, waiting |-> adm.waiting]
  /\ adm.active \subseteq Callers /\ Lined(adm.waiting)
  /\ adm.active \cap DOMAIN adm.waiting = {}
  /\ Cardinality(adm.active) <= MaxConcurrentCalls
  /\ DOMAIN adm.waiting # {} => Cardinality(adm.active) = MaxConcurrentCalls

Members(adm) == adm.active \cup DOMAIN adm.waiting

LEMMA CallersCounted ==
  ASSUME NEW S, S \subseteq Callers
  PROVE  IsFiniteSet(S) /\ Cardinality(S) \in Nat
BY FS_Subset, FS_CardinalityType, MediaAssumption

(* Somebody is first in line. *)
LEMMA FirstExists ==
  ASSUME NEW waiting, Lined(waiting), DOMAIN waiting # {}
  PROVE  \E c \in DOMAIN waiting : waiting[c] = {}
<1> DEFINE counts == {Cardinality(waiting[c]) : c \in DOMAIN waiting}
<1>1. \A c \in DOMAIN waiting : waiting[c] \subseteq Callers
  BY DEF Lined
<1>2. counts \in SUBSET Nat /\ counts # {}
  BY <1>1, CallersCounted
<1>3. PICK n \in counts : \A m \in counts : ~(<<m, n>> \in OpToRel(<, Nat))
  BY <1>2, NatLessThanWellFounded, WFMin
<1>4. \A m \in counts : ~(m < n)
  BY <1>2, <1>3 DEF OpToRel
<1>5. PICK c \in DOMAIN waiting : n = Cardinality(waiting[c])
  OBVIOUS
<1>6. ASSUME NEW d \in waiting[c]
      PROVE  FALSE
  <2>1. d \in DOMAIN waiting /\ waiting[d] \subseteq waiting[c] /\ d \notin waiting[d]
    BY DEF Lined
  <2>2. IsFiniteSet(waiting[c])
    BY <1>1, CallersCounted
  <2>3. Cardinality(waiting[d]) < Cardinality(waiting[c])
    <3>1. Cardinality(waiting[d]) \in Nat /\ Cardinality(waiting[c]) \in Nat
      BY <1>1, <2>1, CallersCounted
    <3>2. Cardinality(waiting[d]) <= Cardinality(waiting[c])
      BY <2>1, <2>2, FS_Subset
    <3>3. waiting[d] # waiting[c]
      BY <2>1
    <3>4. Cardinality(waiting[d]) # Cardinality(waiting[c])
      BY <2>1, <2>2, <3>3, FS_Subset
    <3> QED
      BY <3>1, <3>2, <3>4
  <2> QED
    BY <1>4, <1>5, <2>1, <2>3
<1> QED
  BY <1>6

LEMMA LinedLeft ==
  ASSUME NEW waiting, Lined(waiting), NEW cs
  PROVE  /\ Lined([d \in DOMAIN waiting \ cs |-> waiting[d] \ cs])
         /\ DOMAIN [d \in DOMAIN waiting \ cs |-> waiting[d] \ cs] = DOMAIN waiting \ cs
<1> DEFINE rest == [d \in DOMAIN waiting \ cs |-> waiting[d] \ cs]
<1>1. DOMAIN rest = DOMAIN waiting \ cs /\ \A d \in DOMAIN waiting \ cs : rest[d] = waiting[d] \ cs
  OBVIOUS
<1>2. rest = [c \in DOMAIN rest |-> rest[c]]
  OBVIOUS
<1> HIDE DEF rest
<1>3. Lined(rest)
  BY <1>1, <1>2 DEF Lined
<1> QED
  BY <1>1, <1>3 DEF rest

(* A caller takes a place, or a place in line. *)
LEMMA ReservedSound ==
  ASSUME NEW adm, AdmissionSound(adm), NEW c \in Callers, c \notin Members(adm)
  PROVE  /\ HasRoom(adm) => /\ AdmissionSound(Enters(adm, c))
                            /\ Members(Enters(adm, c)) = Members(adm) \cup {c}
         /\ ~HasRoom(adm) => /\ AdmissionSound(LinesUp(adm, c))
                             /\ Members(LinesUp(adm, c)) = Members(adm) \cup {c}
<1>1. /\ IsFiniteSet(adm.active) /\ Cardinality(adm.active) \in Nat
      /\ c \notin adm.active /\ c \notin DOMAIN adm.waiting
  BY CallersCounted DEF AdmissionSound, Members
<1>2. ASSUME HasRoom(adm)
      PROVE  AdmissionSound(Enters(adm, c)) /\ Members(Enters(adm, c)) = Members(adm) \cup {c}
  <2>1. DOMAIN adm.waiting = {}
    BY <1>1, <1>2, MediaAssumption DEF AdmissionSound, HasRoom
  <2>2. Enters(adm, c) = [active |-> adm.active \cup {c}, waiting |-> adm.waiting]
    BY DEF Enters, AdmissionSound
  <2>3. Cardinality(adm.active \cup {c}) = Cardinality(adm.active) + 1
    BY <1>1, FS_AddElement
  <2>4. Cardinality(adm.active \cup {c}) <= MaxConcurrentCalls
    BY <1>1, <1>2, <2>3, MediaAssumption DEF HasRoom
  <2> QED
    BY <2>1, <2>2, <2>4 DEF AdmissionSound, Members
<1>3. ASSUME ~HasRoom(adm)
      PROVE  AdmissionSound(LinesUp(adm, c)) /\ Members(LinesUp(adm, c)) = Members(adm) \cup {c}
  <2> DEFINE w == adm.waiting
             line == [d \in DOMAIN w \cup {c} |-> IF d = c THEN DOMAIN w ELSE w[d]]
  <2>1. Cardinality(adm.active) = MaxConcurrentCalls
    BY <1>1, <1>3, MediaAssumption DEF AdmissionSound, HasRoom
  <2>2. LinesUp(adm, c) = [active |-> adm.active, waiting |-> line]
    BY DEF LinesUp, AdmissionSound
  <2>3. /\ DOMAIN line = DOMAIN w \cup {c} /\ line[c] = DOMAIN w
        /\ \A d \in DOMAIN w : line[d] = w[d]
        /\ line = [d \in DOMAIN line |-> line[d]]
    BY <1>1
  <2> HIDE DEF line
  <2>4. Lined(line)
    BY <1>1, <2>3 DEF AdmissionSound, Lined
  <2> QED
    BY <1>1, <2>1, <2>2, <2>3, <2>4 DEF AdmissionSound, Members
<1> QED
  BY <1>2, <1>3

(* Callers leave: one of them, or several that only wait. *)
LEMMA ReleasedSound ==
  ASSUME NEW adm, AdmissionSound(adm), NEW cs,
         cs \cap adm.active = {} \/ \E c : cs = {c}
  PROVE  AdmissionSound(Released(adm, cs)) /\ Members(Released(adm, cs)) \subseteq Members(adm) \ cs
<1> DEFINE left == Left(adm, cs)
<1>1. /\ left = [active |-> left.active, waiting |-> left.waiting]
      /\ left.active = adm.active \ cs /\ DOMAIN left.waiting = DOMAIN adm.waiting \ cs
      /\ Lined(left.waiting)
  BY LinedLeft DEF Left, AdmissionSound
<1>2. /\ IsFiniteSet(adm.active) /\ Cardinality(adm.active) \in Nat
      /\ IsFiniteSet(left.active) /\ Cardinality(left.active) \in Nat
      /\ Cardinality(left.active) <= Cardinality(adm.active)
  <2>1. adm.active \subseteq Callers /\ left.active \subseteq adm.active
    BY <1>1 DEF AdmissionSound
  <2> QED
    BY <2>1, CallersCounted, FS_Subset
<1>3. Members(left) = Members(adm) \ cs /\ left.active \subseteq Callers
      /\ left.active \cap DOMAIN left.waiting = {}
      /\ Cardinality(left.active) <= MaxConcurrentCalls
  BY <1>1, <1>2, MediaAssumption DEF Members, AdmissionSound
<1> HIDE DEF left
<1>4. CASE DOMAIN left.waiting = {} \/ ~HasRoom(left)
  <2>1. DOMAIN left.waiting # {} => Cardinality(left.active) = MaxConcurrentCalls
    BY <1>2, <1>3, <1>4, MediaAssumption DEF HasRoom
  <2>2. Released(adm, cs) = left
    BY <1>4 DEF Released, left
  <2> QED
    BY <1>1, <1>3, <2>1, <2>2 DEF AdmissionSound
<1>5. CASE DOMAIN left.waiting # {} /\ HasRoom(left)
  <2> DEFINE first == FirstWaiting(left)
             rest == Left(left, {first})
  <2>1. first \in DOMAIN left.waiting
    BY <1>1, <1>5, FirstExists DEF FirstWaiting
  <2>2. first \in Callers /\ first \notin left.active
    BY <1>1, <1>3, <2>1 DEF Lined
  <2> HIDE DEF first
  <2>3. /\ rest = [active |-> rest.active, waiting |-> rest.waiting]
        /\ rest.active = left.active /\ DOMAIN rest.waiting = DOMAIN left.waiting \ {first}
        /\ Lined(rest.waiting)
    BY <1>1, <2>2, LinedLeft DEF Left
  <2>4. Released(adm, cs) = [active |-> left.active \cup {first}, waiting |-> rest.waiting]
    <3>1. Released(adm, cs) = Enters(rest, first)
      BY <1>5 DEF Released, left, first
    <3> QED
      BY <2>3, <3>1 DEF Enters
  <2> HIDE DEF rest
  <2>5. Cardinality(adm.active) = MaxConcurrentCalls
    BY <1>1, <1>5 DEF AdmissionSound
  <2>6. Cardinality(left.active \cup {first}) = MaxConcurrentCalls
    <3>1. Cardinality(left.active \cup {first}) = Cardinality(left.active) + 1
      BY <1>2, <2>2, FS_AddElement
    <3>2. left.active # adm.active
      BY <1>2, <1>5, <2>5, MediaAssumption DEF HasRoom
    <3>3. PICK c \in adm.active : cs = {c}
      BY <1>1, <3>2
    <3>4. Cardinality(left.active) = Cardinality(adm.active) - 1
      BY <1>1, <1>2, <3>3, FS_RemoveElement
    <3> QED
      BY <1>2, <2>5, <3>1, <3>4, MediaAssumption
  <2>7. /\ AdmissionSound([active |-> left.active \cup {first}, waiting |-> rest.waiting])
        /\ Members([active |-> left.active \cup {first}, waiting |-> rest.waiting]) = Members(left)
    BY <1>3, <2>1, <2>2, <2>3, <2>6, MediaAssumption DEF AdmissionSound, Members
  <2> QED
    BY <1>3, <2>4, <2>7
<1> QED
  BY <1>4, <1>5

-----------------------------------------------------------------------------
(* Calls of the service *)

Stages ==
  AdmittedStages \cup {"idle", "interrupted", "publish"}
CancellationAnswers ==
  {[status |-> "cancellation", as |-> k] : k \in {"confirmed", "unsupported", "rejected", "unknown"}}
AnswerRecord == ProviderAnswers \cup CancellationAnswers \cup {[status |-> "none"]}
CallRecord ==
  [stage : Stages, job : Jobs \cup {"none"}, id : Ids \cup {0}, aborted : BOOLEAN,
   answer : AnswerRecord, published : SUBSET Outputs]

CallSound(call) ==
  /\ call \in CallRecord
  /\ call.stage # "idle" => call.job \in Jobs /\ call.id \in Ids
  /\ call.stage = "apply" => call.answer \in captureObservation \cup CancellationAnswers
  /\ call.stage # "publish" => call.published = {}
  /\ call.stage = "publish" =>
       /\ call.answer \in captureObservation
       /\ call.answer.status \in {"succeeded", "partially_succeeded"}
       /\ call.published \subseteq call.answer.resources

(* Whether a call is about to record what became of a request to cancel.   *)
Cancelling(call) ==
  \/ call.stage = "cancel"
  \/ call.stage = "apply" /\ call.answer.status = "cancellation"

CallsSound ==
  /\ mediaCalls \in [Callers -> CallRecord] /\ submitted \in [Ids -> Nat]
  /\ \A c \in Callers : CallSound(mediaCalls[c])

(* Nobody else knows of an attempt that is about to be created.            *)
Reserved(c) ==
  mediaCalls[c].stage \in {"create", "restart"} =>
    /\ submitted[mediaCalls[c].id] = 0
    /\ \A a \in AllAttempts : a.id # mediaCalls[c].id
    /\ \A d \in Callers : d # c => mediaCalls[d].id # mediaCalls[c].id

(* One call at most holds the claim of an attempt nobody asked to start.   *)
Claimed(c) ==
  mediaCalls[c].stage = "claimed" =>
    /\ submitted[mediaCalls[c].id] = 0
    /\ \A a \in AllAttempts : a.id = mediaCalls[c].id => a.status # "queued"
    /\ \A d \in Callers : mediaCalls[d].stage = "claimed" /\ d # c =>
                            mediaCalls[d].id # mediaCalls[c].id

(* A request to cancel is about an attempt that was given up, with the     *)
(* provider.                                                               *)
Requested(c) ==
  Cancelling(mediaCalls[c]) =>
    \A a \in AllAttempts : a.id = mediaCalls[c].id => a.disposition = "abandoned" /\ a.handle

Exclusive == \A c \in Callers : Reserved(c) /\ Claimed(c) /\ Requested(c)

QueuedUnasked == \A a \in AllAttempts : a.status = "queued" => submitted[a.id] = 0
AskedAtMostOnce == \A id \in Ids : submitted[id] <= 1

PlacesSound ==
  /\ AdmissionSound(admission)
  /\ \A c \in Members(admission) : mediaCalls[c].stage \in AdmittedStages

MediaSound ==
  /\ StoreSound /\ CallsSound /\ Exclusive /\ QueuedUnasked /\ AskedAtMostOnce /\ PlacesSound

LEMMA AnswersTyped ==
  /\ captureObservation \subseteq ProviderAnswers
  /\ \A x \in captureObservation :
       \/ x.status \in {"unknown", "pending", "failed", "cancelled"}
       \/ /\ x.resources \in SUBSET Outputs /\ x.resources # {}
          /\ Yields(x.status, x.resources, x.failures)
  /\ \A x \in CancellationAnswers : x.status = "cancellation" /\ x.as \in Cancellations
<1>1. captureObservation \subseteq ProviderAnswers
  BY DEF captureObservation
<1>2. ASSUME NEW x \in captureObservation
      PROVE  \/ x.status \in {"unknown", "pending", "failed", "cancelled"}
             \/ /\ x.resources \in SUBSET Outputs /\ x.resources # {}
                /\ Yields(x.status, x.resources, x.failures)
  <2>1. CASE x \in {[status |-> s] : s \in {"unknown", "pending", "failed", "cancelled"}}
    BY <2>1
  <2>2. CASE x \in {[status |-> "succeeded", resources |-> rs, failures |-> {}] :
                      rs \in (SUBSET Outputs) \ {{}}}
    <3>1. PICK rs \in (SUBSET Outputs) \ {{}} :
            x = [status |-> "succeeded", resources |-> rs, failures |-> {}]
      BY <2>2
    <3>2. x.status = "succeeded" /\ x.resources = rs /\ x.failures = {}
      BY <3>1
    <3>3. Yields(x.status, x.resources, x.failures)
      BY <3>2 DEF Yields
    <3>4. rs \subseteq Outputs /\ rs # {}
      OBVIOUS
    <3> QED
      BY <3>2, <3>3, <3>4
  <2>3. CASE x \in {[status |-> "partially_succeeded", resources |-> rs, failures |-> fs] :
                      rs \in (SUBSET Outputs) \ {{}}, fs \in (SUBSET Outputs) \ {{}}}
    <3>1. PICK rs \in (SUBSET Outputs) \ {{}}, fs \in (SUBSET Outputs) \ {{}} :
            x = [status |-> "partially_succeeded", resources |-> rs, failures |-> fs]
      BY <2>3
    <3>2. x.status = "partially_succeeded" /\ x.resources = rs /\ x.failures = fs
      BY <3>1
    <3>3. rs \cap fs = {}
      BY <3>2 DEF captureObservation
    <3>6. /\ rs \subseteq Outputs /\ rs # {}
          /\ fs \subseteq Outputs /\ fs # {}
      OBVIOUS
    <3>4. PICK o \in Outputs : o \in fs
      BY <3>6
    <3>5. Yields(x.status, x.resources, x.failures)
      BY <3>2, <3>3, <3>4 DEF Yields
    <3> QED
      BY <3>2, <3>5, <3>6
  <2> QED
    BY <2>1, <2>2, <2>3 DEF captureObservation, ProviderAnswers
<1>3. \A x \in CancellationAnswers : x.status = "cancellation" /\ x.as \in Cancellations
  BY DEF CancellationAnswers, Cancellations
<1> QED
  BY <1>1, <1>2, <1>3

-----------------------------------------------------------------------------
(* Steps of a call *)

(* What may become of a call that asks for no new attempt and makes no     *)
(* claim: it goes on with the attempt it had, takes up one that is stored, *)
(* or is over.                                                             *)
GoesOn(old, new) ==
  /\ new.id \in {0, old.id} \cup {a.id : a \in AllAttempts}
  /\ new.stage \in {"create", "restart", "claimed"} => new.stage = old.stage /\ new.id = old.id
  /\ Cancelling(new) =>
       \/ Cancelling(old) /\ new.id = old.id
       \/ \A a \in AllAttempts' : a.id = new.id => a.disposition = "abandoned" /\ a.handle

LEMMA ExclusiveKept ==
  ASSUME MediaSound, Descends, UNCHANGED submitted, NEW c,
         \A d \in Callers : d # c => mediaCalls'[d] = mediaCalls[d],
         c \in Callers => GoesOn(mediaCalls[c], mediaCalls'[c])
  PROVE  Exclusive' /\ QueuedUnasked' /\ AskedAtMostOnce'
<1>1. \A b \in AllAttempts' : \E a \in AllAttempts :
        /\ b.id = a.id /\ (b.status = "queued" => a.status = "queued")
        /\ (a.handle => b.handle)
        /\ (a.disposition = "abandoned" => b.disposition = "abandoned")
  BY DEF Descends, Kept
<1>2. AskedAtMostOnce' /\ QueuedUnasked'
  BY <1>1 DEF MediaSound, AskedAtMostOnce, QueuedUnasked
<1>3. ASSUME NEW e \in Callers
      PROVE  Reserved(e)' /\ Claimed(e)' /\ Requested(e)'
  <2>1. Reserved(e) /\ Claimed(e) /\ Requested(e)
    BY DEF MediaSound, Exclusive
  <2>2. mediaCalls[e].stage # "idle" => mediaCalls[e].id \in Ids /\ mediaCalls[e].id # 0
    BY DEF MediaSound, CallsSound, CallSound, Ids
  <2>3. mediaCalls'[e].stage \in {"create", "restart", "claimed"} =>
          mediaCalls'[e].stage = mediaCalls[e].stage /\ mediaCalls'[e].id = mediaCalls[e].id
    BY DEF GoesOn
  <2>4. Reserved(e)'
    <3>1. SUFFICES ASSUME mediaCalls'[e].stage \in {"create", "restart"}
                   PROVE  /\ submitted'[mediaCalls'[e].id] = 0
                          /\ \A a \in AllAttempts' : a.id # mediaCalls'[e].id
                          /\ \A d \in Callers : d # e => mediaCalls'[d].id # mediaCalls'[e].id
      BY DEF Reserved
    <3>2. /\ mediaCalls'[e].id = mediaCalls[e].id /\ mediaCalls[e].id # 0
          /\ submitted[mediaCalls[e].id] = 0
          /\ \A a \in AllAttempts : a.id # mediaCalls[e].id
          /\ \A d \in Callers : d # e => mediaCalls[d].id # mediaCalls[e].id
      BY <2>1, <2>2, <2>3, <3>1 DEF Reserved
    <3>3. \A d \in Callers : d # e => mediaCalls'[d].id # mediaCalls'[e].id
      BY <3>2 DEF GoesOn
    <3> QED
      BY <1>1, <3>2, <3>3
  <2>5. Claimed(e)'
    <3>1. SUFFICES ASSUME mediaCalls'[e].stage = "claimed"
                   PROVE  /\ submitted'[mediaCalls'[e].id] = 0
                          /\ \A a \in AllAttempts' : a.id = mediaCalls'[e].id => a.status # "queued"
                          /\ \A d \in Callers : mediaCalls'[d].stage = "claimed" /\ d # e =>
                                                  mediaCalls'[d].id # mediaCalls'[e].id
      BY DEF Claimed
    <3>2. \A d \in Callers : mediaCalls'[d].stage = "claimed" =>
            mediaCalls[d].stage = "claimed" /\ mediaCalls'[d].id = mediaCalls[d].id
      BY DEF GoesOn
    <3> QED
      BY <1>1, <2>1, <3>1, <3>2 DEF Claimed
  <2>6. Requested(e)'
    <3>1. SUFFICES ASSUME Cancelling(mediaCalls'[e])
                   PROVE  \A a \in AllAttempts' : a.id = mediaCalls'[e].id =>
                            a.disposition = "abandoned" /\ a.handle
      BY DEF Requested, Cancelling
    <3>2. \/ Cancelling(mediaCalls[e]) /\ mediaCalls'[e].id = mediaCalls[e].id
          \/ \A a \in AllAttempts' : a.id = mediaCalls'[e].id =>
               a.disposition = "abandoned" /\ a.handle
      BY <3>1 DEF GoesOn
    <3> QED
      BY <1>1, <2>1, <3>2 DEF Requested
  <2> QED
    BY <2>4, <2>5, <2>6
<1> QED
  BY <1>2, <1>3 DEF Exclusive

(* What may become of the place of a call. *)
PlaceStep(c, old, new) ==
  \/ /\ UNCHANGED admission
     /\ new.stage \in AdmittedStages \/ old.stage \notin AdmittedStages
  \/ admission' = Released(admission, {c})
  \/ reserve(c) /\ old.stage \notin AdmittedStages /\ new.stage \in AdmittedStages

LEMMA PlacesKept ==
  ASSUME PlacesSound, NEW c \in Callers,
         \A d \in Callers : d # c => mediaCalls'[d] = mediaCalls[d],
         PlaceStep(c, mediaCalls[c], mediaCalls'[c])
  PROVE  PlacesSound'
<1>1. /\ AdmissionSound(admission) /\ Members(admission) \subseteq Callers
      /\ \A d \in Members(admission) : mediaCalls[d].stage \in AdmittedStages
  BY DEF PlacesSound, AdmissionSound, Members, Lined
<1> DEFINE adm == admission'
<1>2. CASE UNCHANGED admission /\ (mediaCalls'[c].stage \in AdmittedStages \/ mediaCalls[c].stage \notin AdmittedStages)
  BY <1>1, <1>2 DEF PlacesSound
<1>3. CASE admission' = Released(admission, {c})
  <2>1. AdmissionSound(adm) /\ Members(adm) \subseteq Members(admission) \ {c}
    BY <1>1, <1>3, ReleasedSound
  <2>2. \A d \in Members(adm) : mediaCalls'[d].stage \in AdmittedStages
    BY <1>1, <2>1
  <2> QED
    BY <2>1, <2>2 DEF PlacesSound
<1>4. CASE reserve(c) /\ mediaCalls[c].stage \notin AdmittedStages /\ mediaCalls'[c].stage \in AdmittedStages
  <2>1. c \notin Members(admission)
    BY <1>1, <1>4
  <2>2. AdmissionSound(adm) /\ Members(adm) = Members(admission) \cup {c}
    BY <1>1, <1>4, <2>1, ReservedSound DEF reserve
  <2>3. \A d \in Members(adm) : mediaCalls'[d].stage \in AdmittedStages
    BY <1>1, <1>4, <2>2
  <2> QED
    BY <2>2, <2>3 DEF PlacesSound
<1> QED
  BY <1>2, <1>3, <1>4 DEF PlaceStep

LEMMA CallsKept ==
  ASSUME CallsSound, NEW c \in Callers, NEW new, mediaCalls' = [mediaCalls EXCEPT ![c] = new],
         CallSound(new), submitted' \in [Ids -> Nat]
  PROVE  CallsSound' /\ mediaCalls'[c] = new /\ \A d \in Callers : d # c => mediaCalls'[d] = mediaCalls[d]
<1>1. /\ mediaCalls' \in [Callers -> CallRecord] /\ mediaCalls'[c] = new
      /\ \A d \in Callers : d # c => mediaCalls'[d] = mediaCalls[d]
  BY DEF CallsSound, CallSound
<1>2. \A d \in Callers : CallSound(mediaCalls'[d])
  BY <1>1 DEF CallsSound
<1> QED
  BY <1>1, <1>2 DEF CallsSound

(* A step of one call that neither asks for a new attempt, nor makes a     *)
(* claim, nor has the provider start an attempt.                           *)
LEMMA CallStep ==
  ASSUME MediaSound, NEW c \in Callers, NEW new, mediaCalls' = [mediaCalls EXCEPT ![c] = new],
         CallSound(new), StoreSound', Descends, UNCHANGED submitted,
         GoesOn(mediaCalls[c], new), PlaceStep(c, mediaCalls[c], new)
  PROVE  MediaSound'
<1>1. /\ CallsSound' /\ mediaCalls'[c] = new
      /\ \A d \in Callers : d # c => mediaCalls'[d] = mediaCalls[d]
  BY CallsKept DEF MediaSound, CallsSound
<1>2. Exclusive' /\ QueuedUnasked' /\ AskedAtMostOnce'
  BY <1>1, ExclusiveKept
<1>3. PlacesSound'
  BY <1>1, PlacesKept DEF MediaSound
<1> QED
  BY <1>1, <1>2, <1>3 DEF MediaSound

(* A change of the attempt a call is about, if it is still there. *)
LEMMA ModifyStep ==
  ASSUME StoreSound, NEW j \in Jobs, NEW id, NEW b,
         Exists(j, id) => Kept(selectAttempt(j, id), b),
         IF Exists(j, id) THEN Store(j, replaceAttempt(j, b)) ELSE UNCHANGED stored
  PROVE  StoreSound' /\ Evolves /\ Descends
<1>1. CASE Exists(j, id)
  BY <1>1, SelectedAttempt, StoreKept
<1>2. CASE ~Exists(j, id)
  BY <1>2, StoreUnchanged
<1> QED
  BY <1>1, <1>2

LEMMA SelectedAccepted ==
  ASSUME StoreSound, NEW j \in Jobs, NEW id, Exists(j, id)
  PROVE  Accepted(selectAttempt(j, id)) /\ selectAttempt(j, id) \in AllAttempts
BY SelectedAttempt, AttemptsAccepted

(* A call that is over. *)
LEMMA OverSound ==
  ASSUME NEW old
  PROVE  CallSound(NoCall) /\ GoesOn(old, NoCall) /\ NoCall.stage = "idle"
<1>1. NoCall \in CallRecord
  BY DEF NoCall, CallRecord, Stages, AnswerRecord
<1> QED
  BY <1>1 DEF CallSound, GoesOn, Cancelling, NoCall

(* A call that goes on with the attempt it has. *)
Moved(old, stage, x, got, aborted) ==
  [old EXCEPT !.stage = stage, !.answer = x, !.published = got, !.aborted = aborted]

MaySoundlyMove(old, stage, x, got, aborted) ==
  /\ old.stage # "idle" /\ stage \in Stages /\ stage # "idle"
  /\ x \in AnswerRecord /\ got \in SUBSET Outputs /\ aborted \in BOOLEAN
  /\ stage \in {"create", "restart", "claimed"} => stage = old.stage
  /\ stage = "cancel" => old.stage = "cancel"
  /\ stage = "apply" /\ x.status = "cancellation" => Cancelling(old)
  /\ stage = "apply" => x \in captureObservation \cup CancellationAnswers
  /\ stage # "publish" => got = {}
  /\ stage = "publish" =>
       /\ x \in captureObservation /\ x.status \in {"succeeded", "partially_succeeded"}
       /\ got \subseteq x.resources

LEMMA MovedSound ==
  ASSUME NEW old, CallSound(old), NEW stage, NEW x, NEW got, NEW aborted,
         MaySoundlyMove(old, stage, x, got, aborted)
  PROVE  LET new == Moved(old, stage, x, got, aborted)
         IN CallSound(new) /\ GoesOn(old, new) /\ new.stage = stage
<1>1. PICK call \in CallRecord : call = old
  BY DEF CallSound
<1> DEFINE new == Moved(call, stage, x, got, aborted)
<1>2. /\ new \in CallRecord /\ new.stage = stage /\ new.answer = x /\ new.published = got
      /\ new.id = call.id /\ new.job = call.job
  BY DEF CallRecord, Moved, MaySoundlyMove
<1>3. call.job \in Jobs /\ call.id \in Ids
  BY <1>1 DEF CallSound, MaySoundlyMove
<1> HIDE DEF new
<1>4. CallSound(new)
  BY <1>2, <1>3 DEF CallSound, MaySoundlyMove
<1>5. Cancelling(new) => Cancelling(old)
  BY <1>2 DEF Cancelling, MaySoundlyMove
<1>6. GoesOn(old, new)
  BY <1>1, <1>2, <1>5 DEF GoesOn, MaySoundlyMove
<1> QED
  BY <1>1, <1>2, <1>4, <1>6 DEF new

(* What is known of a call that is under way. *)
LEMMA CallFacts ==
  ASSUME MediaSound, NEW c \in Callers
  PROVE  /\ CallSound(mediaCalls[c]) /\ mediaCalls[c] \in CallRecord
         /\ mediaCalls[c].answer \in AnswerRecord /\ mediaCalls[c].published \in SUBSET Outputs
         /\ mediaCalls[c].aborted \in BOOLEAN /\ mediaCalls[c].stage \in Stages
         /\ mediaCalls[c].stage # "idle" => job(c) \in Jobs /\ attempt(c) \in Ids
         /\ mediaCalls \in [Callers -> CallRecord]
<1>1. CallSound(mediaCalls[c]) /\ mediaCalls[c] \in CallRecord /\ mediaCalls \in [Callers -> CallRecord]
  BY DEF MediaSound, CallsSound, CallSound
<1>2. PICK call \in CallRecord : call = mediaCalls[c]
  BY <1>1
<1>3. /\ call.answer \in AnswerRecord /\ call.published \in SUBSET Outputs
      /\ call.aborted \in BOOLEAN /\ call.stage \in Stages
  BY DEF CallRecord
<1> QED
  BY <1>1, <1>2, <1>3 DEF CallSound, job, attempt

LEMMA RecoverStep ==
  ASSUME MediaSound, NEW c \in Callers, recover(c)
  PROVE  MediaSound' /\ Evolves
<1> DEFINE a == selectAttempt(job(c), attempt(c))
<1>1. mediaCalls[c].stage = "interrupted" /\ job(c) \in Jobs
  BY CallFacts DEF recover, At
<1>2. StoreSound' /\ Evolves /\ Descends
  <2>1. IF Exists(job(c), attempt(c))
        THEN Store(job(c), replaceAttempt(job(c), recoverInterruptedSubmission(a)))
        ELSE UNCHANGED stored
    BY DEF recover, Modify, modify
  <2>2. Exists(job(c), attempt(c)) => Kept(a, recoverInterruptedSubmission(a))
    BY <1>1, SelectedAccepted, MarksKept DEF MediaSound
  <2> QED
    BY <1>1, <2>1, <2>2, ModifyStep DEF MediaSound
<1>3. MediaSound'
  <2>1. mediaCalls' = [mediaCalls EXCEPT ![c] = NoCall] /\ UNCHANGED <<submitted, admission>>
    BY DEF recover, Done
  <2>2. PlaceStep(c, mediaCalls[c], NoCall)
    BY <1>1, <2>1 DEF PlaceStep, AdmittedStages
  <2> QED
    BY <1>2, <2>1, <2>2, OverSound, CallStep
<1> QED
  BY <1>2, <1>3

(* An answer that is applied without outputs. *)
LEMMA ApplyStep ==
  ASSUME MediaSound, NEW c \in Callers, applyObservation(c)
  PROVE  MediaSound' /\ Evolves
<1> DEFINE a == selectAttempt(job(c), attempt(c))
           old == mediaCalls[c]
           x == old.answer
<1>1. /\ old.stage = "apply" /\ job(c) \in Jobs /\ CallSound(old) /\ x \in AnswerRecord
      /\ x \in captureObservation \cup CancellationAnswers
      /\ old.published \in SUBSET Outputs /\ old.aborted \in BOOLEAN
      /\ old \in CallRecord
  BY CallFacts DEF applyObservation, At, CallSound
<1>2. admission' = Released(admission, {c}) /\ UNCHANGED submitted
  BY DEF applyObservation
<1>3. CASE x.status \in {"succeeded", "partially_succeeded"}
  <2> DEFINE new == [old EXCEPT !.stage = "publish"]
  <2>1. mediaCalls' = [mediaCalls EXCEPT ![c] = new] /\ UNCHANGED stored
    BY <1>3 DEF applyObservation, Goes
  <2>2. x \in captureObservation /\ old.published = {}
    BY <1>1, <1>3, AnswersTyped DEF CallSound
  <2>3. new = Moved(old, "publish", x, {}, old.aborted)
    BY <1>1, <2>2 DEF Moved, CallRecord
  <2>4. MaySoundlyMove(old, "publish", x, {}, old.aborted)
    BY <1>1, <1>3, <2>2 DEF MaySoundlyMove, Stages
  <2>5. CallSound(new) /\ GoesOn(old, new)
    BY <1>1, <2>3, <2>4, MovedSound
  <2>6. StoreSound' /\ Evolves /\ Descends
    BY <2>1, StoreUnchanged DEF MediaSound
  <2>7. PlaceStep(c, old, new)
    BY <1>2 DEF PlaceStep
  <2> HIDE DEF new
  <2> QED
    BY <1>2, <2>1, <2>5, <2>6, <2>7, CallStep
<1>4. CASE x.status \notin {"succeeded", "partially_succeeded"}
  <2> DEFINE b == CASE x.status = "unknown" -> markUnknown(a)
                    [] x.status = "pending" -> markPending(a)
                    [] x.status = "failed" -> markFailed(a, FALSE)
                    [] x.status = "cancelled" -> markCancelled(a)
                    [] x.status = "cancellation" -> recordCancellation(a, x.as)
  <2>1. /\ IF Exists(job(c), attempt(c)) THEN Store(job(c), replaceAttempt(job(c), b))
           ELSE UNCHANGED stored
        /\ mediaCalls' = [mediaCalls EXCEPT ![c] = NoCall]
    BY <1>4 DEF applyObservation, Modify, modify, Done
  <2>2. ASSUME Exists(job(c), attempt(c))
        PROVE  Kept(a, b)
    <3>1. Accepted(a) /\ a \in AllAttempts /\ a.id = attempt(c)
      BY <1>1, <2>2, SelectedAccepted, SelectedAttempt DEF MediaSound
    <3>2. CASE x.status = "cancellation"
      <4>1. x \in CancellationAnswers
        BY <1>1, <1>4, <3>2, AnswersTyped DEF Yields
      <4>2. a.disposition = "abandoned" /\ a.handle
        BY <1>1, <3>1, <3>2 DEF MediaSound, Exclusive, Requested, Cancelling, attempt
      <4>3. Kept(a, recordCancellation(a, x.as))
        BY <3>1, <4>1, <4>2, AnswersTyped, CancellationKept
      <4> QED
        BY <3>2, <4>3
    <3>3. CASE x.status # "cancellation"
      <4>1. x.status \in {"unknown", "pending", "failed", "cancelled"}
        BY <1>1, <1>4, <3>3, AnswersTyped DEF Yields
      <4>2. /\ Kept(a, markUnknown(a)) /\ Kept(a, markFailed(a, FALSE))
            /\ Kept(a, markPending(a)) /\ Kept(a, markCancelled(a))
        BY <3>1, MarksKept
      <4> QED
        BY <4>1, <4>2
    <3> QED
      BY <3>2, <3>3
  <2> HIDE DEF b
  <2>3. StoreSound' /\ Evolves /\ Descends
    BY <1>1, <2>1, <2>2, ModifyStep DEF MediaSound
  <2>4. PlaceStep(c, old, NoCall)
    BY <1>2 DEF PlaceStep
  <2>5. MediaSound'
    BY <1>2, <2>1, <2>3, <2>4, OverSound, CallStep
  <2> QED
    BY <2>3, <2>5
<1> QED
  BY <1>3, <1>4

(* The next output to publish is one of those that are left. *)
LEMMA LowestOutput ==
  ASSUME NEW S, S \subseteq Outputs, S # {}
  PROVE  Min(S) \in S
<1>1. S \subseteq Nat
  BY MediaAssumption
<1>2. PICK n \in S : \A m \in S : ~(<<m, n>> \in OpToRel(<, Nat))
  BY <1>1, NatLessThanWellFounded, WFMin
<1>3. \A m \in S : n <= m
  <2>1. \A m \in S : ~(m < n)
    BY <1>1, <1>2 DEF OpToRel
  <2> QED
    BY <1>1, <2>1
<1> QED
  BY <1>3 DEF Min

(* What is known of a call that publishes. *)
LEMMA PublishFacts ==
  ASSUME MediaSound, NEW c \in Callers, mediaCalls[c].stage = "publish"
  PROVE  LET x == mediaCalls[c].answer got == mediaCalls[c].published IN
         /\ job(c) \in Jobs /\ x \in captureObservation /\ x \in AnswerRecord
         /\ x.status \in {"succeeded", "partially_succeeded"}
         /\ x.resources \in SUBSET Outputs /\ x.resources # {}
         /\ got \subseteq x.resources /\ got \in SUBSET Outputs
         /\ Yields(x.status, x.resources, x.failures) /\ Yields(x.status, got, x.failures)
<1> DEFINE x == mediaCalls[c].answer
           got == mediaCalls[c].published
<1>1. /\ job(c) \in Jobs /\ x \in captureObservation /\ x \in AnswerRecord
      /\ x.status \in {"succeeded", "partially_succeeded"}
      /\ got \subseteq x.resources
  BY CallFacts DEF CallSound
<1>2. /\ x.resources \in SUBSET Outputs /\ x.resources # {}
      /\ Yields(x.status, x.resources, x.failures)
  BY <1>1, AnswersTyped
<1>3. Yields(x.status, got, x.failures)
  BY <1>1, <1>2 DEF Yields
<1> QED
  BY <1>1, <1>2, <1>3

LEMMA PublishStep ==
  ASSUME MediaSound, NEW c \in Callers, publishNext(c)
  PROVE  MediaSound' /\ Evolves
<1> DEFINE old == mediaCalls[c]
           x == old.answer
           got == old.published
           next == Min(x.resources \ got)
           a == selectAttempt(job(c), attempt(c))
           fails == recordOutputFailure(a, x.status, got, x.failures \cup {next})
           settles == recordSettling(a, x.status, got, x.failures)
<1>1. /\ old.stage = "publish" /\ got # x.resources /\ CallSound(old) /\ old \in CallRecord
      /\ old.aborted \in BOOLEAN
      /\ UNCHANGED <<admission, submitted>>
  BY CallFacts DEF publishNext, At
<1>2. /\ job(c) \in Jobs /\ x \in captureObservation /\ x \in AnswerRecord
      /\ x.status \in {"succeeded", "partially_succeeded"}
      /\ x.resources \in SUBSET Outputs
      /\ got \subseteq x.resources /\ got \in SUBSET Outputs
      /\ Yields(x.status, got, x.failures)
  BY <1>1, PublishFacts
<1>3. CASE mediaCalls' = [mediaCalls EXCEPT ![c].published = @ \cup {next}] /\ UNCHANGED stored
  <2> DEFINE new == [old EXCEPT !.published = @ \cup {next}]
  <2>1. mediaCalls' = [mediaCalls EXCEPT ![c] = new]
    BY <1>3
  <2>2. next \in x.resources
    <3>1. x.resources \ got \subseteq Outputs /\ x.resources \ got # {}
      BY <1>1, <1>2
    <3> QED
      BY <3>1, LowestOutput
  <2> HIDE DEF next
  <2>3. new = Moved(old, "publish", x, got \cup {next}, old.aborted)
    BY <1>1 DEF Moved, CallRecord
  <2>4. MaySoundlyMove(old, "publish", x, got \cup {next}, old.aborted)
    BY <1>1, <1>2, <2>2 DEF MaySoundlyMove, Stages
  <2>5. CallSound(new) /\ GoesOn(old, new)
    BY <1>1, <2>3, <2>4, MovedSound
  <2>6. StoreSound' /\ Evolves /\ Descends
    BY <1>3, StoreUnchanged DEF MediaSound
  <2>7. PlaceStep(c, old, new)
    BY <1>1 DEF PlaceStep, AdmittedStages
  <2> HIDE DEF new
  <2> QED
    BY <1>1, <2>1, <2>5, <2>6, <2>7, CallStep
<1>4. ASSUME NEW b, Exists(job(c), attempt(c)) => Kept(a, b),
             IF Exists(job(c), attempt(c)) THEN Store(job(c), replaceAttempt(job(c), b))
             ELSE UNCHANGED stored,
             mediaCalls' = [mediaCalls EXCEPT ![c] = NoCall]
      PROVE  MediaSound' /\ Evolves
  <2>1. StoreSound' /\ Evolves /\ Descends
    BY <1>2, <1>4, ModifyStep DEF MediaSound
  <2>2. PlaceStep(c, old, NoCall)
    BY <1>1 DEF PlaceStep, AdmittedStages
  <2> QED
    BY <1>1, <1>4, <2>1, <2>2, OverSound, CallStep
<1>5. Exists(job(c), attempt(c)) => Kept(a, fails) /\ Kept(a, settles)
  BY <1>2, SelectedAccepted, OutputsKept DEF MediaSound
<1>6. \/ mediaCalls' = [mediaCalls EXCEPT ![c].published = @ \cup {next}] /\ UNCHANGED stored
      \/ /\ mediaCalls' = [mediaCalls EXCEPT ![c] = NoCall]
         /\ IF Exists(job(c), attempt(c)) THEN Store(job(c), replaceAttempt(job(c), fails))
            ELSE UNCHANGED stored
      \/ /\ mediaCalls' = [mediaCalls EXCEPT ![c] = NoCall]
         /\ IF Exists(job(c), attempt(c)) THEN Store(job(c), replaceAttempt(job(c), settles))
            ELSE UNCHANGED stored
  BY DEF publishNext, Modify, modify, Done
<1> HIDE DEF fails, settles, next
<1> QED
  BY <1>3, <1>4, <1>5, <1>6

LEMMA SettleStep ==
  ASSUME MediaSound, NEW c \in Callers, settle(c)
  PROVE  MediaSound' /\ Evolves
<1> DEFINE old == mediaCalls[c]
           x == old.answer
           a == selectAttempt(job(c), attempt(c))
           b == publishBundle(a, x.status, old.published, x.failures)
<1>1. /\ old.stage = "publish" /\ old.published = x.resources
      /\ UNCHANGED <<admission, submitted>> /\ mediaCalls' = [mediaCalls EXCEPT ![c] = NoCall]
      /\ IF Exists(job(c), attempt(c)) THEN Store(job(c), replaceAttempt(job(c), b))
         ELSE UNCHANGED stored
  BY DEF settle, At, Modify, modify, Done
<1>2. /\ job(c) \in Jobs /\ old.published # {}
      /\ Yields(x.status, old.published, x.failures)
  BY <1>1, PublishFacts
<1>3. Exists(job(c), attempt(c)) => Kept(a, b)
  BY <1>2, SelectedAccepted, OutputsKept DEF MediaSound
<1>4. StoreSound' /\ Evolves /\ Descends
  BY <1>1, <1>2, <1>3, ModifyStep DEF MediaSound
<1>5. PlaceStep(c, old, NoCall)
  BY <1>1 DEF PlaceStep, AdmittedStages
<1> QED
  BY <1>1, <1>4, <1>5, OverSound, CallStep

(* The provider has answered. *)
Answering(c, x) ==
  /\ mediaCalls[c].stage \in {"started", "read", "cancel"}
  /\ x \in captureObservation \cup CancellationAnswers
  /\ x.status = "cancellation" => mediaCalls[c].stage = "cancel"
  /\ mediaCalls' = [mediaCalls EXCEPT ![c].stage = "apply", ![c].answer = x]
  /\ admission' \in {admission, Released(admission, {c})}
  /\ UNCHANGED <<stored, submitted>>

LEMMA AnswerStep ==
  ASSUME MediaSound, NEW c \in Callers, NEW x, Answering(c, x)
  PROVE  MediaSound' /\ Evolves
<1> DEFINE old == mediaCalls[c]
           new == [old EXCEPT !.stage = "apply", !.answer = x]
<1>1. /\ CallSound(old) /\ old \in CallRecord /\ old.aborted \in BOOLEAN
      /\ mediaCalls \in [Callers -> CallRecord] /\ old.published = {}
  BY CallFacts DEF CallSound, Answering
<1>2. mediaCalls' = [mediaCalls EXCEPT ![c] = new]
  BY <1>1 DEF Answering
<1>3. x \in AnswerRecord
  BY AnswersTyped DEF AnswerRecord, Answering
<1>4. new = Moved(old, "apply", x, {}, old.aborted)
  BY <1>1 DEF Moved, CallRecord
<1>5. MaySoundlyMove(old, "apply", x, {}, old.aborted)
  BY <1>1, <1>3 DEF MaySoundlyMove, Stages, AdmittedStages, Cancelling, Answering
<1>6. CallSound(new) /\ GoesOn(old, new) /\ new.stage = "apply"
  BY <1>1, <1>4, <1>5, MovedSound
<1>7. StoreSound' /\ Evolves /\ Descends
  BY StoreUnchanged DEF MediaSound, Answering
<1>8. PlaceStep(c, old, new)
  BY <1>6 DEF PlaceStep, AdmittedStages, Answering
<1> HIDE DEF new
<1>9. UNCHANGED submitted
  BY DEF Answering
<1> QED
  BY <1>9, <1>2, <1>6, <1>7, <1>8, CallStep

LEMMA UnknownAnswer ==
  /\ [status |-> "unknown"] \in captureObservation
  /\ \A x \in captureObservation : x.status # "cancellation"
<1>1. [status |-> "unknown"] \in ProviderAnswers
  BY DEF ProviderAnswers
<1>2. [status |-> "unknown"].status # "partially_succeeded"
  OBVIOUS
<1>3. \A x \in captureObservation : x.status # "cancellation"
  BY AnswersTyped DEF Yields
<1> QED
  BY <1>1, <1>2, <1>3 DEF captureObservation

LEMMA AnsweredStep ==
  ASSUME MediaSound, NEW c \in Callers, answered(c)
  PROVE  MediaSound' /\ Evolves
<1>1. PICK x \in captureObservation :
        /\ mediaCalls' = [mediaCalls EXCEPT ![c].stage = "apply", ![c].answer = x]
        /\ admission' \in {admission, Released(admission, {c})}
        /\ UNCHANGED <<stored, submitted>>
  BY UnknownAnswer DEF answered, AnsweredWith
<1>2. Answering(c, x)
  BY <1>1, UnknownAnswer DEF Answering, answered, At
<1> QED
  BY <1>2, AnswerStep

(* A call that is given up with the place it has. *)
LEMMA GiveUpStep ==
  ASSUME MediaSound, NEW c \in Callers, mediaCalls' = [mediaCalls EXCEPT ![c] = NoCall],
         admission' = Released(admission, {c}), UNCHANGED <<stored, submitted>>
  PROVE  MediaSound' /\ Evolves
<1>1. StoreSound' /\ Evolves /\ Descends
  BY StoreUnchanged DEF MediaSound
<1>2. PlaceStep(c, mediaCalls[c], NoCall)
  BY DEF PlaceStep
<1> QED
  BY <1>1, <1>2, OverSound, CallStep

LEMMA ReadStep ==
  ASSUME MediaSound, NEW c \in Callers, readOperation(c)
  PROVE  MediaSound' /\ Evolves
<1>1. CASE mediaCalls[c].aborted
  BY <1>1, GiveUpStep DEF readOperation, Done
<1>2. CASE ~mediaCalls[c].aborted
  <2>1. PICK x \in captureObservation : AnsweredWith(c, x)
    BY <1>2 DEF readOperation
  <2>2. Answering(c, x)
    BY <2>1, UnknownAnswer DEF Answering, AnsweredWith, readOperation, At
  <2> QED
    BY <2>2, AnswerStep
<1> QED
  BY <1>1, <1>2

LEMMA CancelOperationStep ==
  ASSUME MediaSound, NEW c \in Callers, cancelOperation(c)
  PROVE  MediaSound' /\ Evolves
<1>1. CASE mediaCalls[c].aborted
  BY <1>1, GiveUpStep DEF cancelOperation, Done
<1>2. CASE ~mediaCalls[c].aborted
  <2>1. mediaCalls[c].stage = "cancel"
    BY DEF cancelOperation, At
  <2>2. PICK x \in captureObservation \cup CancellationAnswers : AnsweredWith(c, x)
    BY <1>2 DEF cancelOperation, CancellationAnswers
  <2>3. Answering(c, x)
    BY <2>1, <2>2 DEF Answering, AnsweredWith
  <2> QED
    BY <2>3, AnswerStep
<1> QED
  BY <1>1, <1>2

LEMMA AbortStep ==
  ASSUME MediaSound, NEW c \in Callers, abort(c)
  PROVE  MediaSound' /\ Evolves
<1> DEFINE old == mediaCalls[c]
           new == [old EXCEPT !.aborted = TRUE]
<1>1. /\ CallSound(old) /\ old \in CallRecord /\ old.stage \in Stages /\ old.stage # "idle"
      /\ old.answer \in AnswerRecord /\ old.published \in SUBSET Outputs
  BY CallFacts DEF abort, At
<1>2. /\ mediaCalls' = [mediaCalls EXCEPT ![c] = new]
      /\ admission' \in {admission, Released(admission, {c})}
      /\ UNCHANGED <<stored, submitted>>
  BY DEF abort
<1>3. new = Moved(old, old.stage, old.answer, old.published, TRUE)
  BY <1>1 DEF Moved, CallRecord
<1>4. MaySoundlyMove(old, old.stage, old.answer, old.published, TRUE)
  BY <1>1 DEF MaySoundlyMove, CallSound, Cancelling
<1> HIDE DEF new
<1>5. CallSound(new) /\ GoesOn(old, new) /\ new.stage = old.stage
  <2>1. PICK yes \in BOOLEAN : yes = TRUE
    OBVIOUS
  <2>2. /\ MaySoundlyMove(old, old.stage, old.answer, old.published, yes)
        /\ new = Moved(old, old.stage, old.answer, old.published, yes)
    BY <1>3, <1>4, <2>1
  <2> QED
    BY <1>1, <2>2, MovedSound
<1>6. StoreSound' /\ Evolves /\ Descends
  BY <1>2, StoreUnchanged DEF MediaSound
<1>7. PlaceStep(c, old, new)
  BY <1>2, <1>5 DEF PlaceStep
<1>8. mediaCalls' = [mediaCalls EXCEPT ![c] = new]
  BY <1>2 DEF new
<1>9. MediaSound'
  BY <1>2, <1>5, <1>6, <1>7, <1>8, CallStep
<1> QED
  BY <1>6, <1>9

(* A call as it begins. *)
Begun(stage, j, id) == [NoCall EXCEPT !.stage = stage, !.job = j, !.id = id]

LEMMA BegunSound ==
  ASSUME NEW stage \in Stages \ {"idle", "apply", "publish"}, NEW j \in Jobs, NEW id \in Ids
  PROVE  /\ CallSound(Begun(stage, j, id))
         /\ Begun(stage, j, id).stage = stage /\ Begun(stage, j, id).id = id
         /\ Cancelling(Begun(stage, j, id)) => stage = "cancel"
<1> DEFINE call == Begun(stage, j, id)
<1>1. PICK idle \in CallRecord : idle = NoCall /\ idle.published = {}
  BY OverSound DEF CallSound
<1>2. call = [idle EXCEPT !.stage = stage, !.job = j, !.id = id]
  BY <1>1 DEF Begun
<1>3. /\ call \in CallRecord /\ call.stage = stage /\ call.job = j /\ call.id = id
      /\ call.published = {}
  BY <1>1, <1>2 DEF CallRecord
<1> HIDE DEF call
<1>4. CallSound(call) /\ (Cancelling(call) => stage = "cancel")
  BY <1>3 DEF CallSound, Cancelling
<1> QED
  BY <1>3, <1>4 DEF call

LEMMA ReconcileStep ==
  ASSUME MediaSound, NEW c \in Callers, NEW j \in Jobs, NEW a \in AttemptsOf(j),
         reconcileMedia(c, j, a)
  PROVE  MediaSound' /\ Evolves
<1>1. a \in AllAttempts /\ a.id \in Ids
  BY AttemptsAccepted DEF MediaSound, AttemptRecord
<1>2. PICK stage \in {"queued", "interrupted", "read"} :
        /\ mediaCalls' = [mediaCalls EXCEPT ![c] = Begun(stage, j, a.id)]
        /\ IF stage = "interrupted" THEN UNCHANGED admission ELSE reserve(c)
  BY DEF reconcileMedia, Begins, Begun
<1>3. mediaCalls[c].stage = "idle" /\ UNCHANGED <<stored, submitted>>
  BY DEF reconcileMedia, At
<1> DEFINE new == Begun(stage, j, a.id)
<1>4. CallSound(new) /\ new.stage = stage /\ new.id = a.id /\ ~Cancelling(new)
  BY <1>1, BegunSound DEF Stages, AdmittedStages
<1> HIDE DEF new
<1>5. GoesOn(mediaCalls[c], new)
  BY <1>1, <1>4 DEF GoesOn
<1>6. PlaceStep(c, mediaCalls[c], new)
  BY <1>2, <1>3, <1>4 DEF PlaceStep, AdmittedStages
<1>7. StoreSound' /\ Evolves /\ Descends
  BY <1>3, StoreUnchanged DEF MediaSound
<1>8. MediaSound'
  BY <1>2, <1>3, <1>4, <1>5, <1>6, <1>7, CallStep DEF new
<1> QED
  BY <1>7, <1>8

(* Calls that only wait for a place are refused one. *)
LEMMA WaitersLeave ==
  ASSUME MediaSound, NEW cs, cs \subseteq DOMAIN admission.waiting, UNCHANGED mediaCalls,
         admission' \in {admission, Released(admission, cs)}
  PROVE  PlacesSound'
<1> DEFINE adm == admission'
<1>1. cs \cap admission.active = {} /\ AdmissionSound(admission)
  BY DEF MediaSound, PlacesSound, AdmissionSound
<1>2. AdmissionSound(adm) /\ Members(adm) \subseteq Members(admission)
  BY <1>1, ReleasedSound
<1> QED
  BY <1>2 DEF MediaSound, PlacesSound

LEMMA CancelStep ==
  ASSUME MediaSound, NEW c \in Callers, NEW j \in Jobs, NEW a \in AttemptsOf(j), cancel(c, j, a)
  PROVE  MediaSound' /\ Evolves
<1> DEFINE b == Marked(a)
           starters == {d \in Callers : At(d, "queued") /\ attempt(d) = a.id /\ Waiting(d)}
           left == IF a.status = "queued" THEN Released(admission, starters) ELSE admission
<1>1. a \in AllAttempts /\ a.id \in Ids /\ Accepted(a)
  BY AttemptsAccepted DEF MediaSound, AttemptRecord
<1>2. /\ mediaCalls[c].stage = "idle" /\ a.status \notin TERMINAL /\ UNCHANGED submitted
      /\ Store(j, replaceAttempt(j, b))
      /\ \/ b.handle /\ reserve(c) /\ mediaCalls' = [mediaCalls EXCEPT ![c] = Begun("cancel", j, a.id)]
         \/ admission' = left /\ UNCHANGED mediaCalls
  BY DEF cancel, Marked, At, Begins, Begun
<1>3. Kept(a, b) /\ b.disposition = "abandoned"
  BY <1>1, <1>2, MarkedKept
<1> HIDE DEF b
<1>4. /\ StoreSound' /\ Evolves /\ Descends
      /\ \A d \in AllAttempts' : d = b \/ (d \in AllAttempts /\ d.id # a.id)
  BY <1>2, <1>3, StoreKept DEF MediaSound
<1>5. CASE b.handle /\ reserve(c) /\ mediaCalls' = [mediaCalls EXCEPT ![c] = Begun("cancel", j, a.id)]
  <2> DEFINE new == Begun("cancel", j, a.id)
  <2>1. CallSound(new) /\ new.stage = "cancel" /\ new.id = a.id
    BY <1>1, BegunSound DEF Stages, AdmittedStages
  <2> HIDE DEF new
  <2>2. \A d \in AllAttempts' : d.id = new.id => d.disposition = "abandoned" /\ d.handle
    BY <1>3, <1>4, <1>5, <2>1
  <2>3. GoesOn(mediaCalls[c], new)
    BY <1>1, <2>1, <2>2 DEF GoesOn
  <2>4. PlaceStep(c, mediaCalls[c], new)
    BY <1>2, <1>5, <2>1 DEF PlaceStep, AdmittedStages
  <2>5. mediaCalls' = [mediaCalls EXCEPT ![c] = new]
    BY <1>5 DEF new
  <2>6. MediaSound'
    BY <1>2, <1>4, <2>1, <2>3, <2>4, <2>5, CallStep
  <2> QED
    BY <1>4, <2>6
<1>6. CASE admission' = left /\ UNCHANGED mediaCalls
  <2>1. starters \subseteq DOMAIN admission.waiting
    BY DEF Waiting
  <2> HIDE DEF starters
  <2>2. PlacesSound'
    BY <1>6, <2>1, WaitersLeave
  <2>3. Exclusive' /\ QueuedUnasked' /\ AskedAtMostOnce'
    <3>1. PICK none : none \notin Callers
      BY NoSetContainsEverything
    <3> QED
      BY <1>2, <1>4, <1>6, <3>1, ExclusiveKept
  <2>4. CallsSound'
    BY <1>2, <1>6 DEF MediaSound, CallsSound
  <2> QED
    BY <1>4, <2>2, <2>3, <2>4 DEF MediaSound
<1> QED
  BY <1>2, <1>5, <1>6

LEMMA PurgeStep ==
  ASSUME MediaSound, NEW j \in Jobs, purge(j)
  PROVE  MediaSound' /\ Evolves
<1>1. StoreSound' /\ Evolves /\ Descends
  BY StorePurged DEF purge, MediaSound
<1>2. UNCHANGED <<mediaCalls, admission, submitted>>
  BY DEF purge
<1>3. Exclusive' /\ QueuedUnasked' /\ AskedAtMostOnce'
  <2>1. PICK none : none \notin Callers
    BY NoSetContainsEverything
  <2> QED
    BY <1>1, <1>2, <2>1, ExclusiveKept
<1>4. CallsSound' /\ PlacesSound'
  BY <1>2 DEF MediaSound, CallsSound, PlacesSound
<1> QED
  BY <1>1, <1>3, <1>4 DEF MediaSound

(* A step of a call that reserves, creates, claims or starts an attempt, as *)
(* the other calls see it.                                                 *)
Apart(c) ==
  /\ \A d \in Callers : d # c => mediaCalls'[d] = mediaCalls[d]
  /\ \A b \in AllAttempts' :
       \/ \E a \in AllAttempts : Kept(a, b)
       \/ mediaCalls[c].stage \in {"create", "restart"} /\ b.id = mediaCalls[c].id
  /\ \/ mediaCalls'[c].id = mediaCalls[c].id
     \/ \A d \in Callers : d # c => mediaCalls[d].id # mediaCalls'[c].id
  /\ mediaCalls'[c].stage = "claimed" =>
       \A d \in Callers : d # c /\ mediaCalls[d].stage = "claimed" =>
                            mediaCalls[d].id # mediaCalls'[c].id
  /\ \/ UNCHANGED submitted
     \/ /\ mediaCalls[c].stage = "claimed"
        /\ \A id \in Ids : id # mediaCalls[c].id => submitted'[id] = submitted[id]

LEMMA OthersKept ==
  ASSUME MediaSound, NEW c \in Callers, NEW e \in Callers, e # c, Apart(c)
  PROVE  Reserved(e)' /\ Claimed(e)' /\ Requested(e)'
<1>1. /\ Reserved(e) /\ Claimed(e) /\ Requested(e)
      /\ Reserved(c) /\ Claimed(c)
  BY DEF MediaSound, Exclusive
<1>2. mediaCalls'[e] = mediaCalls[e] /\ \A d \in Callers : d # c => mediaCalls'[d] = mediaCalls[d]
  BY DEF Apart
<1>3. mediaCalls[e].stage # "idle" => mediaCalls[e].id \in Ids
  BY CallFacts DEF attempt
<1>4. \A b \in AllAttempts' :
        \/ \E a \in AllAttempts :
             /\ b.id = a.id /\ (b.status = "queued" => a.status = "queued")
             /\ (a.handle => b.handle)
             /\ (a.disposition = "abandoned" => b.disposition = "abandoned")
        \/ b.id # mediaCalls[e].id
  BY <1>1 DEF Apart, Kept, Reserved
<1>5. ASSUME mediaCalls[e].stage \in {"create", "restart", "claimed"}
      PROVE  submitted'[mediaCalls[e].id] = submitted[mediaCalls[e].id]
  <2>1. mediaCalls[c].stage = "claimed" => mediaCalls[e].id # mediaCalls[c].id
    BY <1>1, <1>5 DEF Reserved, Claimed
  <2> QED
    BY <1>3, <1>5, <2>1 DEF Apart
<1>6. ASSUME mediaCalls[e].stage \in {"create", "restart"}
      PROVE  \A d \in Callers : d # e => mediaCalls'[d].id # mediaCalls[e].id
  BY <1>1, <1>2, <1>6 DEF Reserved, Apart
<1>7. Reserved(e)'
  BY <1>1, <1>2, <1>4, <1>5, <1>6 DEF Reserved
<1>8. Claimed(e)'
  <2>1. SUFFICES ASSUME mediaCalls[e].stage = "claimed"
                 PROVE  /\ submitted'[mediaCalls[e].id] = 0
                        /\ \A a \in AllAttempts' : a.id = mediaCalls[e].id => a.status # "queued"
                        /\ \A d \in Callers : mediaCalls'[d].stage = "claimed" /\ d # e =>
                                                mediaCalls'[d].id # mediaCalls[e].id
    BY <1>2 DEF Claimed
  <2>2. \A d \in Callers : mediaCalls'[d].stage = "claimed" /\ d # e =>
                             mediaCalls'[d].id # mediaCalls[e].id
    BY <1>1, <1>2, <2>1 DEF Claimed, Apart
  <2> QED
    BY <1>1, <1>4, <1>5, <2>1, <2>2 DEF Claimed
<1>9. Requested(e)'
  BY <1>1, <1>2, <1>4 DEF Requested, Cancelling
<1> QED
  BY <1>7, <1>8, <1>9

(* A call begins for an attempt that does not exist yet. *)
LEMMA EnterStep ==
  ASSUME MediaSound, NEW c \in Callers, NEW j \in Jobs, NEW stage \in {"create", "restart"},
         NEW id \in FreshId, At(c, "idle"), reserve(c), Begins(c, stage, j, id),
         UNCHANGED <<stored, submitted>>
  PROVE  MediaSound' /\ Evolves
<1> DEFINE new == Begun(stage, j, id)
<1>1. /\ id \in Ids /\ submitted[id] = 0
      /\ \A i \in Jobs : ~Exists(i, id)
      /\ \A d \in Callers : mediaCalls[d].id # id
  BY DEF FreshId, NewIds
<1>2. mediaCalls' = [mediaCalls EXCEPT ![c] = new]
  BY DEF Begins, Begun
<1>3. CallSound(new) /\ new.stage = stage /\ new.id = id /\ ~Cancelling(new)
  BY <1>1, BegunSound DEF Stages, AdmittedStages
<1> HIDE DEF new
<1>4. /\ CallsSound' /\ mediaCalls'[c] = new
      /\ \A d \in Callers : d # c => mediaCalls'[d] = mediaCalls[d]
  BY <1>2, <1>3, CallsKept DEF MediaSound, CallsSound
<1>5. StoreSound' /\ Evolves /\ Descends /\ AllAttempts' = AllAttempts
  BY StoreUnchanged DEF MediaSound
<1>6. \A a \in AllAttempts : a.id # id
  BY <1>1 DEF AllAttempts, Exists
<1>7. PlacesSound'
  <2>1. PlaceStep(c, mediaCalls[c], mediaCalls'[c])
    BY <1>3, <1>4 DEF PlaceStep, At, AdmittedStages
  <2> QED
    BY <1>4, <2>1, PlacesKept DEF MediaSound
<1>8. Exclusive'
  <2>1. Apart(c)
    BY <1>1, <1>3, <1>4, <1>5 DEF Apart, Descends
  <2>2. Reserved(c)' /\ Claimed(c)' /\ Requested(c)'
    BY <1>1, <1>3, <1>4, <1>5, <1>6 DEF Reserved, Claimed, Requested
  <2> QED
    BY <2>1, <2>2, OthersKept DEF Exclusive
<1>9. QueuedUnasked' /\ AskedAtMostOnce'
  BY <1>5 DEF MediaSound, QueuedUnasked, AskedAtMostOnce
<1> QED
  BY <1>4, <1>5, <1>7, <1>8, <1>9 DEF MediaSound

LEMMA SubmitStep ==
  ASSUME MediaSound, NEW c \in Callers, NEW j \in Jobs, submit(c, j) \/ restart(c, j)
  PROVE  MediaSound' /\ Evolves
BY EnterStep DEF submit, restart

(* An attempt is created, with the call that goes on to submit it. *)
LEMMA CreatedStep ==
  ASSUME MediaSound, NEW c \in Callers, mediaCalls[c].stage \in {"create", "restart"},
         Len(mediaJobs[job(c)]) < MaxAttemptsPerJob,
         mediaJobs[job(c)] # <<>> =>
           \/ currentAttempt(job(c)).status \in TERMINAL
           \/ currentAttempt(job(c)).disposition = "abandoned",
         Store(job(c), Append(mediaJobs[job(c)], newAttempt(attempt(c)))),
         Goes(c, "queued"), UNCHANGED <<admission, submitted>>
  PROVE  MediaSound' /\ Evolves
<1> DEFINE old == mediaCalls[c]
           new == [old EXCEPT !.stage = "queued"]
           id == old.id
<1>1. /\ CallSound(old) /\ old \in CallRecord /\ job(c) \in Jobs /\ id \in Ids
      /\ Reserved(c)
  BY CallFacts DEF attempt, MediaSound, Exclusive
<1>2. CallSound(new) /\ new.stage = "queued" /\ new.id = id
  BY <1>1 DEF CallSound, CallRecord, Stages, AdmittedStages
<1>3. mediaCalls' = [mediaCalls EXCEPT ![c] = new]
  BY DEF Goes
<1> HIDE DEF new
<1>4. /\ CallsSound' /\ mediaCalls'[c] = new
      /\ \A d \in Callers : d # c => mediaCalls'[d] = mediaCalls[d]
  BY <1>2, <1>3, CallsKept DEF MediaSound, CallsSound
<1>5. /\ submitted[id] = 0 /\ \A a \in AllAttempts : a.id # id
  BY <1>1 DEF Reserved
<1>6. /\ StoreSound' /\ Evolves
      /\ \A b \in AllAttempts' : b = newAttempt(id) \/ b \in AllAttempts
  BY <1>1, <1>5, StoreNew DEF MediaSound, attempt
<1>7. /\ newAttempt(id).id = id
      /\ \A a \in AllAttempts : Kept(a, a)
  BY <1>1, NewAccepted, AttemptsAccepted, KeptSame DEF MediaSound, AllAttempts
<1>8. PlacesSound'
  <2>1. PlaceStep(c, mediaCalls[c], mediaCalls'[c])
    BY <1>2, <1>4 DEF PlaceStep, AdmittedStages
  <2> QED
    BY <1>4, <2>1, PlacesKept DEF MediaSound
<1>9. Exclusive'
  <2>1. Apart(c)
    BY <1>2, <1>4, <1>6, <1>7 DEF Apart
  <2>2. Reserved(c)' /\ Claimed(c)' /\ Requested(c)'
    BY <1>2, <1>4 DEF Reserved, Claimed, Requested, Cancelling
  <2> QED
    BY <2>1, <2>2, OthersKept DEF Exclusive
<1>10. QueuedUnasked' /\ AskedAtMostOnce'
  BY <1>5, <1>6, <1>7 DEF MediaSound, QueuedUnasked, AskedAtMostOnce
<1> QED
  BY <1>4, <1>6, <1>8, <1>9, <1>10 DEF MediaSound

LEMMA CreateStep ==
  ASSUME MediaSound, NEW c \in Callers, create(c)
  PROVE  MediaSound' /\ Evolves
<1>1. CASE mediaJobs[job(c)] = <<>>
  <2>1. <<newAttempt(attempt(c))>> = Append(mediaJobs[job(c)], newAttempt(attempt(c)))
    BY <1>1
  <2>2. Len(mediaJobs[job(c)]) < MaxAttemptsPerJob
    BY <1>1, MediaAssumption
  <2> QED
    BY <1>1, <2>1, <2>2, CreatedStep DEF create, At
<1>2. CASE mediaJobs[job(c)] # <<>>
  BY <1>2, GiveUpStep DEF create, Done
<1> QED
  BY <1>1, <1>2

LEMMA RestartAttemptStep ==
  ASSUME MediaSound, NEW c \in Callers, restartAttempt(c)
  PROVE  MediaSound' /\ Evolves
<1>1. CASE assertRestartable(job(c))
  BY <1>1, CreatedStep DEF restartAttempt, At, assertRestartable
<1>2. CASE ~assertRestartable(job(c))
  BY <1>2, GiveUpStep DEF restartAttempt, Done
<1> QED
  BY <1>1, <1>2

LEMMA ClaimStep ==
  ASSUME MediaSound, NEW c \in Callers, claim(c)
  PROVE  MediaSound' /\ Evolves
<1> DEFINE old == mediaCalls[c]
           a == selectAttempt(job(c), attempt(c))
           queued == Exists(job(c), attempt(c)) /\ a.status = "queued"
           claimed == IF a.status # "queued" THEN a
                      ELSE IF old.aborted THEN Withdrawn(a)
                      ELSE [a EXCEPT !.status = "submitting"]
<1>1. /\ old.stage = "queued" /\ job(c) \in Jobs /\ CallSound(old) /\ old \in CallRecord
      /\ attempt(c) = old.id
      /\ UNCHANGED submitted
      /\ IF Exists(job(c), attempt(c)) THEN Store(job(c), replaceAttempt(job(c), claimed))
         ELSE UNCHANGED stored
  BY CallFacts DEF claim, At, Modify, modify, attempt
<1>2. ASSUME Exists(job(c), attempt(c))
      PROVE  /\ Accepted(a) /\ a \in AttemptsOf(job(c)) /\ a \in AllAttempts /\ a.id = old.id
             /\ a.status = "queued" => ~a.handle
  <2>1. Accepted(a) /\ a \in AttemptsOf(job(c)) /\ a \in AllAttempts /\ a.id = old.id
    BY <1>1, <1>2, SelectedAccepted, SelectedAttempt DEF MediaSound
  <2> QED
    BY <2>1 DEF Accepted, captureAttempt, assertAttemptState
<1>3. Exists(job(c), attempt(c)) => Kept(a, claimed)
  BY <1>2, KeptSame, WithdrawnKept, ClaimKept
<1> HIDE DEF claimed
<1>4. StoreSound' /\ Evolves /\ Descends
  BY <1>1, <1>3, ModifyStep DEF MediaSound
<1>5. CASE ~(queued /\ ~old.aborted)
  <2>1. mediaCalls' = [mediaCalls EXCEPT ![c] = NoCall] /\ admission' = Released(admission, {c})
    BY <1>5 DEF claim, Done
  <2>2. PlaceStep(c, old, NoCall)
    BY <2>1 DEF PlaceStep
  <2>3. MediaSound'
    BY <1>1, <1>4, <2>1, <2>2, OverSound, CallStep
  <2> QED
    BY <1>4, <2>3
<1>6. CASE queued /\ ~old.aborted
  <2> DEFINE new == [old EXCEPT !.stage = "claimed"]
  <2>1. mediaCalls' = [mediaCalls EXCEPT ![c] = new] /\ UNCHANGED admission
    BY <1>6 DEF claim, Goes
  <2>2. CallSound(new) /\ new.stage = "claimed" /\ new.id = old.id
    BY <1>1 DEF CallSound, CallRecord, Stages, AdmittedStages
  <2> HIDE DEF new
  <2>3. /\ CallsSound' /\ mediaCalls'[c] = new
        /\ \A d \in Callers : d # c => mediaCalls'[d] = mediaCalls[d]
    BY <1>1, <2>1, <2>2, CallsKept DEF MediaSound, CallsSound
  <2>4. PlacesSound'
    <3>1. PlaceStep(c, mediaCalls[c], mediaCalls'[c])
      BY <2>1, <2>2, <2>3 DEF PlaceStep, AdmittedStages
    <3> QED
      BY <2>3, <3>1, PlacesKept DEF MediaSound
  <2>5. claimed.status = "submitting"
    BY <1>2, <1>6, ClaimKept DEF claimed
  <2>6. \A d \in AllAttempts' : d = claimed \/ (d \in AllAttempts /\ d.id # old.id)
    BY <1>1, <1>2, <1>3, <1>6, StoreKept DEF MediaSound
  <2>7. /\ submitted[old.id] = 0
        /\ \A d \in Callers : mediaCalls[d].stage = "claimed" => mediaCalls[d].id # old.id
    BY <1>2, <1>6 DEF MediaSound, QueuedUnasked, Exclusive, Claimed
  <2>8. Exclusive'
    <3>1. Apart(c)
      BY <1>1, <1>4, <2>2, <2>3, <2>7 DEF Apart, Descends
    <3>2. Reserved(c)' /\ Requested(c)'
      BY <2>2, <2>3 DEF Reserved, Requested, Cancelling
    <3>3. Claimed(c)'
      BY <1>1, <2>2, <2>3, <2>5, <2>6, <2>7 DEF Claimed
    <3> QED
      BY <3>1, <3>2, <3>3, OthersKept DEF Exclusive
  <2>9. QueuedUnasked' /\ AskedAtMostOnce'
    BY <1>1, <2>5, <2>6 DEF MediaSound, QueuedUnasked, AskedAtMostOnce
  <2> QED
    BY <1>4, <2>3, <2>4, <2>8, <2>9 DEF MediaSound
<1> QED
  BY <1>5, <1>6

LEMMA StartStep ==
  ASSUME MediaSound, NEW c \in Callers, start(c)
  PROVE  MediaSound' /\ Evolves
<1> DEFINE old == mediaCalls[c]
           a == selectAttempt(job(c), attempt(c))
           withdrawn == IF a.status = "submitting" /\ ~a.handle THEN Withdrawn(a) ELSE a
<1>1. /\ old.stage = "claimed" /\ job(c) \in Jobs /\ CallSound(old) /\ old \in CallRecord
      /\ attempt(c) = old.id /\ old.id \in Ids
  BY CallFacts DEF start, At, attempt
<1>2. CASE old.aborted
  <2>1. /\ IF Exists(job(c), attempt(c)) THEN Store(job(c), replaceAttempt(job(c), withdrawn))
           ELSE UNCHANGED stored
        /\ mediaCalls' = [mediaCalls EXCEPT ![c] = NoCall]
        /\ admission' = Released(admission, {c}) /\ UNCHANGED submitted
    BY <1>2 DEF start, Modify, modify, Done
  <2>2. Exists(job(c), attempt(c)) => Kept(a, withdrawn)
    BY <1>1, SelectedAccepted, KeptSame, WithdrawnKept DEF MediaSound
  <2> HIDE DEF withdrawn
  <2>3. StoreSound' /\ Evolves /\ Descends
    BY <1>1, <2>1, <2>2, ModifyStep DEF MediaSound
  <2>4. PlaceStep(c, old, NoCall)
    BY <2>1 DEF PlaceStep
  <2>5. MediaSound'
    BY <2>1, <2>3, <2>4, OverSound, CallStep
  <2> QED
    BY <2>3, <2>5
<1>3. CASE ~old.aborted
  <2> DEFINE new == [old EXCEPT !.stage = "started"]
  <2>1. /\ mediaCalls' = [mediaCalls EXCEPT ![c] = new] /\ UNCHANGED <<stored, admission>>
        /\ submitted' = [submitted EXCEPT ![old.id] = @ + 1]
    BY <1>1, <1>3 DEF start, Goes
  <2>2. /\ submitted \in [Ids -> Nat] /\ submitted[old.id] = 0
        /\ \A b \in AllAttempts : b.id = old.id => b.status # "queued"
    BY <1>1 DEF MediaSound, CallsSound, Exclusive, Claimed
  <2>3. /\ submitted' \in [Ids -> Nat] /\ submitted'[old.id] = 1
        /\ \A id \in Ids : id # old.id => submitted'[id] = submitted[id]
    BY <1>1, <2>1, <2>2
  <2>4. CallSound(new) /\ new.stage = "started" /\ new.id = old.id
    BY <1>1 DEF CallSound, CallRecord, Stages, AdmittedStages
  <2> HIDE DEF new
  <2>5. /\ CallsSound' /\ mediaCalls'[c] = new
        /\ \A d \in Callers : d # c => mediaCalls'[d] = mediaCalls[d]
    BY <2>1, <2>3, <2>4, CallsKept DEF MediaSound
  <2>6. StoreSound' /\ Evolves /\ Descends /\ AllAttempts' = AllAttempts
    BY <2>1, StoreUnchanged DEF MediaSound
  <2>7. PlacesSound'
    <3>1. PlaceStep(c, mediaCalls[c], mediaCalls'[c])
      BY <2>1, <2>4, <2>5 DEF PlaceStep, AdmittedStages
    <3> QED
      BY <2>5, <3>1, PlacesKept DEF MediaSound
  <2>8. Exclusive'
    <3>1. Apart(c)
      BY <1>1, <2>3, <2>4, <2>5, <2>6 DEF Apart, Descends
    <3>2. Reserved(c)' /\ Claimed(c)' /\ Requested(c)'
      BY <2>4, <2>5 DEF Reserved, Claimed, Requested, Cancelling
    <3> QED
      BY <3>1, <3>2, OthersKept DEF Exclusive
  <2>9. QueuedUnasked' /\ AskedAtMostOnce'
    <3>1. \A b \in AllAttempts : b.id \in Ids
      BY AttemptsAccepted DEF MediaSound, AllAttempts, AttemptRecord
    <3>2. QueuedUnasked'
      BY <2>2, <2>3, <2>6, <3>1 DEF MediaSound, QueuedUnasked
    <3>3. AskedAtMostOnce'
      BY <2>3 DEF MediaSound, AskedAtMostOnce
    <3> QED
      BY <3>2, <3>3
  <2> QED
    BY <2>5, <2>6, <2>7, <2>8, <2>9 DEF MediaSound
<1> QED
  BY <1>2, <1>3

(* Without calls nothing is held, claimed or asked for. *)
NobodyCalls ==
  /\ mediaCalls = [c \in Callers |-> NoCall]
  /\ admission = [active |-> {}, waiting |-> Nobody]

CallsEachSound == \A c \in Callers : CallSound(mediaCalls[c])

LEMMA QuietSound == NobodyCalls => Exclusive /\ PlacesSound /\ CallsEachSound
<1> SUFFICES ASSUME NobodyCalls
             PROVE  Exclusive /\ PlacesSound /\ CallsEachSound
  OBVIOUS
<1>1. \A c \in Callers : mediaCalls[c] = NoCall
  BY DEF NobodyCalls
<1>2. \A c \in Callers : CallSound(mediaCalls[c]) /\ mediaCalls[c].stage = "idle"
  BY <1>1, OverSound
<1>3. Exclusive
  BY <1>2 DEF Exclusive, Reserved, Claimed, Requested, Cancelling
<1>4. PlacesSound
  <2>1. admission.active = {} /\ admission.waiting = Nobody /\ DOMAIN Nobody = {}
    BY DEF NobodyCalls, Nobody
  <2>2. Lined(Nobody)
    BY DEF Lined, Nobody
  <2>3. Cardinality({}) = 0
    BY FS_EmptySet
  <2>4. admission = [active |-> admission.active, waiting |-> admission.waiting]
    BY DEF NobodyCalls
  <2>5. AdmissionSound(admission)
    BY <2>1, <2>2, <2>3, <2>4, MediaAssumption DEF AdmissionSound
  <2> QED
    BY <2>1, <2>5 DEF PlacesSound, Members
<1> QED
  BY <1>2, <1>3, <1>4 DEF CallsEachSound

LEMMA CrashStep ==
  ASSUME MediaSound, crash
  PROVE  MediaSound' /\ Evolves
<1>1. StoreSound' /\ Evolves /\ Descends /\ AllAttempts' = AllAttempts
  BY StoreUnchanged DEF MediaSound, crash
<1>2. Exclusive' /\ PlacesSound' /\ \A c \in Callers : CallSound(mediaCalls'[c])
  <2>1. NobodyCalls'
    BY DEF crash, NobodyCalls
  <2>2. (Exclusive /\ PlacesSound /\ CallsEachSound)'
    BY <2>1, QuietSound, PTL
  <2> QED
    BY <2>2 DEF CallsEachSound
<1>3. CallsSound'
  BY <1>2 DEF MediaSound, CallsSound, CallSound, crash
<1>4. QueuedUnasked' /\ AskedAtMostOnce'
  BY <1>1 DEF MediaSound, QueuedUnasked, AskedAtMostOnce, crash
<1> QED
  BY <1>1, <1>2, <1>3, <1>4 DEF MediaSound

LEMMA MediaStarts == MediaInit => MediaSound
<1> SUFFICES ASSUME MediaInit
             PROVE  MediaSound
  OBVIOUS
<1>1. /\ mediaJobs = [j \in Jobs |-> <<>>] /\ mediaRefused = FALSE
      /\ submitted = [id \in Ids |-> 0]
  BY DEF MediaInit
<1>2. StoreSound
  <2>1. JobAccepted(<<>>)
    BY MediaAssumption DEF JobAccepted, captureStoredMediaJob
  <2>2. \A j \in Jobs : mediaJobs[j] = <<>> /\ AttemptsOf(j) = {}
    BY <1>1 DEF AttemptsOf
  <2> QED
    BY <1>1, <2>1, <2>2 DEF StoreSound
<1>3. Exclusive /\ PlacesSound /\ CallsEachSound
  BY QuietSound DEF MediaInit, NobodyCalls
<1>4. CallsSound
  <2>1. NoCall \in CallRecord
    BY OverSound DEF CallSound
  <2> QED
    BY <1>1, <1>3, <2>1 DEF CallsSound, CallsEachSound, MediaInit
<1>5. QueuedUnasked /\ AskedAtMostOnce
  BY <1>1 DEF QueuedUnasked, AskedAtMostOnce, AllAttempts, AttemptsOf
<1> QED
  BY <1>2, <1>3, <1>4, <1>5 DEF MediaSound

LEMMA MediaStep == MediaSound /\ [MediaNext]_mediaVars => MediaSound' /\ Evolves
<1> SUFFICES ASSUME MediaSound, [MediaNext]_mediaVars
             PROVE  MediaSound' /\ Evolves
  OBVIOUS
<1>1. CASE \E c \in Callers, j \in Jobs :
             \/ submit(c, j) \/ restart(c, j)
             \/ \E a \in AttemptsOf(j) : reconcileMedia(c, j, a) \/ cancel(c, j, a)
  BY <1>1, SubmitStep, ReconcileStep, CancelStep
<1>2. CASE \E c \in Callers :
             create(c) \/ restartAttempt(c) \/ claim(c) \/ start(c) \/ answered(c) \/ recover(c)
  BY <1>2, CreateStep, RestartAttemptStep, ClaimStep, StartStep, AnsweredStep, RecoverStep
<1>3. CASE \E c \in Callers :
             \/ readOperation(c) \/ cancelOperation(c) \/ applyObservation(c) \/ publishNext(c)
             \/ settle(c) \/ abort(c)
  BY <1>3, ReadStep, CancelOperationStep, ApplyStep, PublishStep, SettleStep, AbortStep
<1>4. CASE \E j \in Jobs : purge(j)
  BY <1>4, PurgeStep
<1>5. CASE crash
  BY <1>5, CrashStep
<1>6. CASE UNCHANGED mediaVars
  <2>1. StoreSound' /\ Evolves /\ Descends /\ AllAttempts' = AllAttempts
    BY <1>6, StoreUnchanged DEF MediaSound, mediaVars
  <2>2. UNCHANGED <<mediaCalls, admission, submitted>>
    BY <1>6 DEF mediaVars
  <2>3. /\ CallsSound' /\ QueuedUnasked' /\ AskedAtMostOnce' /\ PlacesSound' /\ Exclusive'
    BY <2>1, <2>2 DEF MediaSound, CallsSound, QueuedUnasked, AskedAtMostOnce, PlacesSound,
       Exclusive, Reserved, Claimed, Requested
  <2> QED
    BY <2>1, <2>3 DEF MediaSound
<1> QED
  BY <1>1, <1>2, <1>3, <1>4, <1>5, <1>6 DEF MediaNext

(* Every reachable state of the media service is sound: its store accepts  *)
(* each job, one call at most holds the claim of an attempt, and places    *)
(* are held by calls that need them.                                       *)
THEOREM MediaInvariant == MediaSpec => []MediaSound
<1>1. MediaInit => MediaSound
  BY MediaStarts
<1>2. MediaSound /\ [MediaNext]_mediaVars => MediaSound'
  BY MediaStep
<1> QED
  BY <1>1, <1>2, PTL DEF MediaSpec

LEMMA SubmittedSound == MediaSound => SubmittedOnce
<1> SUFFICES ASSUME MediaSound
             PROVE  SubmittedOnce
  OBVIOUS
<1>1. AskedOnce
  <2>1. DOMAIN submitted = Ids
    BY DEF MediaSound, CallsSound
  <2> QED
    BY <2>1 DEF MediaSound, AskedAtMostOnce, QueuedUnasked, AskedOnce, AllAttempts
<1>2. NoChangeRefused
  BY DEF MediaSound, StoreSound, NoChangeRefused
<1>3. AdmissionExact
  BY DEF MediaSound, PlacesSound, AdmissionSound, Members, AdmissionExact, Waiting
<1> QED
  BY <1>1, <1>2, <1>3 DEF SubmittedOnce

(* The provider is asked at most once to start an attempt, the store never *)
(* refuses a change of the service, and no place is free while a call      *)
(* waits.                                                                  *)
THEOREM SubmissionsOnce == MediaSpec => []SubmittedOnce
<1>1. MediaSpec => []MediaSound
  BY MediaInvariant
<1>2. MediaSound => SubmittedOnce
  BY SubmittedSound
<1> QED
  BY <1>1, <1>2, PTL

(* A settled attempt stays, save for what becomes of a request to cancel   *)
(* it, and one that was given up is not taken back.                        *)
THEOREM SettledAttemptsFinal == MediaSpec => AttemptsFinal
<1> DEFINE final ==
      \A j \in Jobs : \A a \in AttemptsOf(j) : \A b \in {mediaJobs'[j][k] : k \in DOMAIN mediaJobs'[j]} :
        a.id = b.id =>
          /\ a.status \in TERMINAL => b = [a EXCEPT !.cancellation = b.cancellation]
          /\ a.disposition = "abandoned" => b.disposition = "abandoned"
<1>1. MediaSpec => []MediaSound
  BY MediaInvariant
<1>2. MediaSound /\ [MediaNext]_mediaVars => final
  <2> SUFFICES ASSUME MediaSound, [MediaNext]_mediaVars,
                      NEW j \in Jobs, NEW a \in AttemptsOf(j),
                      NEW b \in {mediaJobs'[j][k] : k \in DOMAIN mediaJobs'[j]}, a.id = b.id
               PROVE  /\ a.status \in TERMINAL => b = [a EXCEPT !.cancellation = b.cancellation]
                      /\ a.disposition = "abandoned" => b.disposition = "abandoned"
    OBVIOUS
  <2>1. PICK d \in AttemptsOf(j) : Kept(d, b)
    BY MediaStep DEF Evolves
  <2>2. d.id = a.id
    BY <2>1 DEF Kept
  <2>3. d = a
    BY <2>2, AttemptsAccepted DEF MediaSound
  <2> QED
    BY <2>1, <2>3 DEF Kept
<1>3. [][final]_mediaVars => AttemptsFinal
  BY DEF AttemptsFinal
<1> HIDE DEF final
<1> QED
  BY <1>1, <1>2, <1>3, PTL DEF MediaSpec

-----------------------------------------------------------------------------
(***************************************************************************)
(* Foreground delegation: one nest always drains.                          *)
(***************************************************************************)

(* No chain of authorizations leads back to an actor. *)
Downward(rank) ==
  /\ rank \in [NestActors -> Nat]
  /\ \A a, t \in NestActors : <<a, t>> \in Authorized => rank[a] < rank[t]

On(r, a) == busyWith[a] = r \/ \E i \in DOMAIN behind[a] : behind[a][i] = r

NestTypes ==
  /\ capacity \in Nat /\ capacity > MaxDepth
  /\ behind \in [NestActors -> Seq(NestRuns)]
  /\ busyWith \in [NestActors -> NestRuns \cup {NoOne}]
  /\ known \subseteq NestRuns /\ DOMAIN waitsFor = known
  /\ \A r \in known : depth[r] \in 0 .. MaxDepth /\ waitsFor[r] \in known \cup {NoOne}
  /\ \A r \in NestRuns : live(r) => r \in known

(* The runs that have not ended are one chain: each but the last waits for *)
(* the next, on an actor below it.                                         *)
Chained(rank) ==
  /\ \A r \in NestRuns, a, b \in NestActors : On(r, a) /\ On(r, b) => a = b
  /\ \A r \in known : waitsFor[r] # NoOne => depth[waitsFor[r]] = depth[r] + 1
  /\ \A r, s \in known : live(r) /\ live(s) /\ depth[r] = depth[s] => r = s
  /\ \A r, s \in known : live(r) /\ live(s) /\ depth[r] < depth[s] =>
       /\ r \in running /\ isWaiting(r)
       /\ \A a, b \in NestActors : On(r, a) /\ On(s, b) => rank[a] < rank[b]
  /\ \A r \in known : live(r) => \E s \in Roots \cap known : live(s) /\ depth[s] = 0

NestSound(rank) == NestTypes /\ Chained(rank)

LEMMA LiveOn ==
  ASSUME NEW r \in NestRuns
  PROVE  live(r) <=> \E a \in NestActors : On(r, a)
BY NestingAssumption DEF live, isQueued, running, On

(* The next run of a lane is taken from it. *)
LEMMA LaneHead ==
  ASSUME NEW s \in Seq(NestRuns), s # << >>
  PROVE  /\ Head(s) \in NestRuns /\ Tail(s) \in Seq(NestRuns)
         /\ \A r : (\E i \in DOMAIN s : s[i] = r) <=> r = Head(s) \/ \E i \in DOMAIN Tail(s) : Tail(s)[i] = r
<1>1. Head(s) \in NestRuns /\ Tail(s) \in Seq(NestRuns) /\ Head(s) = s[1] /\ 1 \in DOMAIN s
  OBVIOUS
<1>2. /\ DOMAIN s = 1 .. Len(s) /\ Len(s) \in Nat /\ Len(s) > 0
      /\ DOMAIN Tail(s) = 1 .. Len(s) - 1
      /\ \A i \in DOMAIN Tail(s) : i + 1 \in DOMAIN s /\ Tail(s)[i] = s[i + 1]
  OBVIOUS
<1>3. \A i \in DOMAIN s : i = 1 \/ (i - 1 \in DOMAIN Tail(s) /\ (i - 1) + 1 = i)
  BY <1>2
<1>4. ASSUME NEW r, NEW i \in DOMAIN s, s[i] = r
      PROVE  r = Head(s) \/ \E k \in DOMAIN Tail(s) : Tail(s)[k] = r
  <2>1. CASE i = 1
    BY <1>1, <1>4, <2>1
  <2>2. CASE i # 1
    BY <1>2, <1>3, <1>4, <2>2
  <2> QED
    BY <2>1, <2>2
<1> QED
  BY <1>1, <1>2, <1>4

LEMMA LaneTail ==
  ASSUME NEW s \in Seq(NestRuns), NEW x \in NestRuns
  PROVE  /\ Append(s, x) \in Seq(NestRuns)
         /\ \A r : (\E i \in DOMAIN Append(s, x) : Append(s, x)[i] = r) <=>
                     r = x \/ \E i \in DOMAIN s : s[i] = r
<1> DEFINE t == Append(s, x)
<1>1. /\ t \in Seq(NestRuns) /\ DOMAIN s = 1 .. Len(s) /\ Len(s) \in Nat
      /\ DOMAIN t = 1 .. Len(s) + 1 /\ t[Len(s) + 1] = x
      /\ \A i \in DOMAIN s : t[i] = s[i]
  OBVIOUS
<1> HIDE DEF t
<1>2. \A i \in DOMAIN t : i \in DOMAIN s \/ i = Len(s) + 1
  BY <1>1
<1>3. \A r : (\E i \in DOMAIN t : t[i] = r) <=> r = x \/ \E i \in DOMAIN s : s[i] = r
  BY <1>1, <1>2
<1> QED
  BY <1>1, <1>3 DEF t

LEMMA NestStarts ==
  ASSUME NEW rank, NestingInit
  PROVE  NestSound(rank)
<1>1. \A r \in NestRuns : ~live(r)
  BY NestingAssumption DEF NestingInit, live, isQueued, running
<1>2. known = {} /\ DOMAIN waitsFor = {}
  BY DEF NestingInit, known
<1>3. NestTypes
  BY <1>1, <1>2 DEF NestingInit, NestTypes, capacityAccepted
<1>4. Chained(rank)
  BY <1>1, <1>2, LiveOn DEF Chained
<1> QED
  BY <1>3, <1>4 DEF NestSound

(* A run ends. *)
LEMMA FinishStep ==
  ASSUME NEW rank, NestSound(rank), NEW a \in NestActors, finish(a)
  PROVE  NestSound(rank)'
<1> DEFINE r == busyWith[a]
<1>1. /\ r \in NestRuns /\ r \in running /\ live(r) /\ r \in known /\ ~isWaiting(r) /\ On(r, a)
      /\ busyWith' \in [NestActors -> NestRuns \cup {NoOne}]
      /\ busyWith' = [busyWith EXCEPT ![a] = NoOne]
      /\ UNCHANGED <<capacity, behind, depth, waitsFor>> /\ known' = known
  BY DEF NestSound, NestTypes, finish, running, live, On, known
<1>2. \A x \in NestRuns, b \in NestActors :
        /\ On(x, b)' => On(x, b)
        /\ On(x, b) /\ x # r => On(x, b)'
  BY <1>1, NestingAssumption DEF On, NestSound, NestTypes
<1>3. \A x \in NestRuns : live(x)' <=> \E b \in NestActors : On(x, b)'
  BY <1>1, NestingAssumption DEF live, isQueued, running, On
<1>4. \A x \in NestRuns : (live(x)' => live(x)) /\ (live(x) /\ x # r => live(x)')
  BY <1>2, <1>3, LiveOn
<1>5. \A x \in running : x # r => x \in running'
  BY <1>1 DEF running, NestSound, NestTypes
<1> HIDE DEF r
<1>6. NestTypes'
  BY <1>1, <1>4 DEF NestSound, NestTypes
<1>7. \A y \in known : live(y) => ~(depth[r] < depth[y])
  BY <1>1 DEF NestSound, Chained
<1>8. known \subseteq NestRuns /\ \A x \in known : depth[x] \in Nat
  BY NestingAssumption DEF NestSound, NestTypes
<1>9. ASSUME NEW x \in known, NEW y \in known, live(x)', live(y)', depth[x] < depth[y]
      PROVE  x \in running' /\ isWaiting(x)'
  <2>1. live(x) /\ live(y) /\ x \in running /\ isWaiting(x)
    BY <1>4, <1>8, <1>9 DEF NestSound, Chained
  <2>2. x # r /\ x \in running'
    BY <1>1, <1>5, <2>1
  <2>3. waitsFor[x] # NoOne /\ live(waitsFor[x]) /\ waitsFor[x] \in known
        /\ depth[waitsFor[x]] = depth[x] + 1
    BY <2>1 DEF isWaiting, NestSound, NestTypes, Chained
  <2>4. waitsFor[x] = r => y = r
    <3>1. SUFFICES ASSUME waitsFor[x] = r
                   PROVE  depth[y] = depth[r]
      BY <1>1, <2>1 DEF NestSound, Chained
    <3> QED
      BY <1>1, <1>7, <1>8, <1>9, <2>1, <2>3, <3>1
  <2>5. live(waitsFor[x])'
    BY <1>1, <1>4, <1>8, <1>9, <2>3, <2>4
  <2> QED
    BY <1>1, <2>2, <2>3, <2>5 DEF isWaiting
<1>10. ASSUME NEW x \in known, live(x)'
       PROVE  \E s \in Roots \cap known : live(s)' /\ depth[s] = 0
  <2>1. live(x)
    BY <1>4, <1>8, <1>10
  <2>2. PICK s \in Roots \cap known : live(s) /\ depth[s] = 0
    BY <2>1 DEF NestSound, Chained
  <2>3. CASE s # r
    BY <1>4, <1>8, <2>2, <2>3
  <2>4. CASE s = r
    <3>1. depth[x] = depth[s]
      BY <1>7, <1>8, <2>1, <2>2, <2>4
    <3>2. x = s
      BY <2>1, <2>2, <3>1 DEF NestSound, Chained
    <3> QED
      BY <1>10, <2>2, <3>2
  <2> QED
    BY <2>3, <2>4
<1>11. Chained(rank)'
  <2>1. \A x \in NestRuns, b, d \in NestActors : On(x, b)' /\ On(x, d)' => b = d
    BY <1>2 DEF NestSound, Chained
  <2>2. \A x, y \in known : live(x)' /\ live(y)' /\ depth[x] = depth[y] => x = y
    BY <1>4, <1>8 DEF NestSound, Chained
  <2>3. \A x, y \in known : live(x)' /\ live(y)' /\ depth[x] < depth[y] =>
          \A b, d \in NestActors : On(x, b)' /\ On(y, d)' => rank[b] < rank[d]
    BY <1>2, <1>4, <1>8 DEF NestSound, Chained
  <2>4. \A x \in known : waitsFor[x] # NoOne => depth[waitsFor[x]] = depth[x] + 1
    BY DEF NestSound, Chained
  <2> QED
    BY <1>1, <1>9, <1>10, <2>1, <2>2, <2>3, <2>4 DEF Chained
<1> QED
  BY <1>6, <1>11 DEF NestSound

(* A queued run starts. *)
LEMMA TurnStep ==
  ASSUME NEW rank, NestSound(rank), NEW a \in NestActors, takeTurn(a)
  PROVE  NestSound(rank)'
<1> DEFINE r == Head(behind[a])
<1>1. /\ behind[a] \in Seq(NestRuns) /\ behind[a] # << >> /\ busyWith[a] = NoOne
      /\ r \in NestRuns /\ Tail(behind[a]) \in Seq(NestRuns)
      /\ \A x : (\E i \in DOMAIN behind[a] : behind[a][i] = x) <=>
                  x = r \/ \E i \in DOMAIN Tail(behind[a]) : Tail(behind[a])[i] = x
  BY LaneHead DEF takeTurn, NestSound, NestTypes
<1> HIDE DEF r
<1>2. /\ busyWith' = [busyWith EXCEPT ![a] = r] /\ behind' = [behind EXCEPT ![a] = Tail(behind[a])]
      /\ UNCHANGED <<capacity, depth, waitsFor>> /\ known' = known
      /\ busyWith' \in [NestActors -> NestRuns \cup {NoOne}] /\ behind' \in [NestActors -> Seq(NestRuns)]
  BY <1>1 DEF takeTurn, known, NestSound, NestTypes, r
<1>3. \A x \in NestRuns, b \in NestActors : On(x, b)' <=> On(x, b)
  <2>1. ASSUME NEW x \in NestRuns, NEW b \in NestActors
        PROVE  On(x, b)' <=> On(x, b)
    <3>1. CASE b # a
      BY <1>2, <3>1 DEF On, NestSound, NestTypes
    <3>2. CASE b = a
      <4>1. busyWith'[a] = r /\ behind'[a] = Tail(behind[a])
        BY <1>2 DEF NestSound, NestTypes
      <4>2. On(x, b)' <=> x = r \/ \E i \in DOMAIN Tail(behind[a]) : Tail(behind[a])[i] = x
        BY <3>2, <4>1 DEF On
      <4>3. On(x, b) <=> \E i \in DOMAIN behind[a] : behind[a][i] = x
        BY <1>1, <3>2, NestingAssumption DEF On
      <4>4. (\E i \in DOMAIN behind[a] : behind[a][i] = x) <=>
              x = r \/ \E i \in DOMAIN Tail(behind[a]) : Tail(behind[a])[i] = x
        BY <1>1
      <4> QED
        BY <4>2, <4>3, <4>4
    <3> QED
      BY <3>1, <3>2
  <2> QED
    BY <2>1
<1>4. \A x \in NestRuns : live(x)' <=> \E b \in NestActors : On(x, b)'
  BY <1>2, NestingAssumption DEF live, isQueued, running, On
<1>5. \A x \in NestRuns : live(x)' <=> live(x)
  BY <1>3, <1>4, LiveOn
<1>6. \A x \in running : x \in running'
  BY <1>1, <1>2 DEF running, NestSound, NestTypes
<1>7. NestTypes'
  BY <1>2, <1>5 DEF NestSound, NestTypes
<1>8. known \subseteq NestRuns /\ \A x \in known : isWaiting(x) => isWaiting(x)'
  BY <1>2, <1>5 DEF isWaiting, NestSound, NestTypes
<1>9. Chained(rank)'
  <2>1. \A x \in NestRuns, b, d \in NestActors : On(x, b)' /\ On(x, d)' => b = d
    BY <1>3 DEF NestSound, Chained
  <2>2. \A x, y \in known : live(x)' /\ live(y)' /\ depth[x] = depth[y] => x = y
    BY <1>5, <1>8 DEF NestSound, Chained
  <2>3. ASSUME NEW x \in known, NEW y \in known, live(x)', live(y)', depth[x] < depth[y]
        PROVE  /\ x \in running' /\ isWaiting(x)'
               /\ \A b, d \in NestActors : On(x, b)' /\ On(y, d)' => rank[b] < rank[d]
    <3>1. /\ x \in running /\ isWaiting(x)
          /\ \A b, d \in NestActors : On(x, b) /\ On(y, d) => rank[b] < rank[d]
      BY <1>5, <1>8, <2>3 DEF NestSound, Chained
    <3> QED
      BY <1>3, <1>6, <1>8, <3>1
  <2>4. \A x \in known : waitsFor[x] # NoOne => depth[waitsFor[x]] = depth[x] + 1
    BY DEF NestSound, Chained
  <2>5. \A x \in known : live(x)' => \E s \in Roots \cap known : live(s)' /\ depth[s] = 0
    BY <1>5, <1>8 DEF NestSound, Chained
  <2> QED
    BY <1>2, <2>1, <2>2, <2>3, <2>4, <2>5 DEF Chained
<1> QED
  BY <1>7, <1>9 DEF NestSound

(* A new run joins the lane of an actor, and nothing else moves. *)
LEMMA Enlisted ==
  ASSUME NestTypes, NEW r \in NestRuns, NEW t \in NestActors, NEW d \in 0 .. MaxDepth,
         Enlist(r, t, d), UNCHANGED busyWith
  PROVE  /\ behind' \in [NestActors -> Seq(NestRuns)] /\ known' = known \cup {r} /\ r \notin known
         /\ depth'[r] = d /\ \A x \in known : depth'[x] = depth[x]
         /\ \A x \in NestRuns, b \in NestActors : On(x, b)' <=> On(x, b) \/ (x = r /\ b = t)
         /\ \A x \in NestRuns : live(x)' <=> live(x) \/ x = r
         /\ running' = running
<1>1. /\ behind' = [behind EXCEPT ![t] = Append(behind[t], r)] /\ r \notin known /\ behind[t] \in Seq(NestRuns)
      /\ depth' = [x \in known \cup {r} |-> IF x = r THEN d ELSE depth[x]]
  BY DEF Enlist, NestTypes
<1>2. /\ Append(behind[t], r) \in Seq(NestRuns)
      /\ \A x : (\E i \in DOMAIN Append(behind[t], r) : Append(behind[t], r)[i] = x) <=>
                  x = r \/ \E i \in DOMAIN behind[t] : behind[t][i] = x
  BY <1>1, LaneTail
<1>3. behind' \in [NestActors -> Seq(NestRuns)]
  BY <1>1, <1>2 DEF NestTypes
<1>4. /\ known' = known \cup {r} /\ depth'[r] = d /\ \A x \in known : depth'[x] = depth[x]
  BY <1>1 DEF known
<1>5. ASSUME NEW x \in NestRuns, NEW b \in NestActors
      PROVE  On(x, b)' <=> On(x, b) \/ (x = r /\ b = t)
  <2>1. CASE b # t
    BY <1>1, <2>1 DEF On, NestTypes
  <2>2. CASE b = t
    <3>1. behind'[b] = Append(behind[t], r)
      BY <1>1, <2>2 DEF NestTypes
    <3> QED
      BY <1>2, <2>2, <3>1 DEF On
  <2> QED
    BY <2>1, <2>2
<1>6. running' = running
  BY DEF running
<1>7. \A x \in NestRuns : live(x)' <=> \E b \in NestActors : On(x, b)'
  BY NestingAssumption DEF live, isQueued, running, On, NestTypes
<1>8. \A x \in NestRuns : live(x)' <=> live(x) \/ x = r
  BY <1>5, <1>7, LiveOn
<1> QED
  BY <1>1, <1>3, <1>4, <1>5, <1>6, <1>8

(* The host submits a run when no nest is under way. *)
LEMMA RootStep ==
  ASSUME NEW rank, NestSound(rank), OneNest', NEW r \in NestRuns, NEW t \in NestActors,
         submitRoot(r, t)
  PROVE  NestSound(rank)'
<1>1. /\ r \in Roots /\ UNCHANGED <<capacity, busyWith>> /\ Enlist(r, t, 0) /\ 0 \in 0 .. MaxDepth
      /\ waitsFor' = [x \in known \cup {r} |-> IF x = r THEN NoOne ELSE waitsFor[x]]
  BY NestingAssumption DEF submitRoot
<1>2. /\ behind' \in [NestActors -> Seq(NestRuns)] /\ known' = known \cup {r} /\ r \notin known
      /\ depth'[r] = 0 /\ \A x \in known : depth'[x] = depth[x]
      /\ \A x \in NestRuns, b \in NestActors : On(x, b)' <=> On(x, b) \/ (x = r /\ b = t)
      /\ \A x \in NestRuns : live(x)' <=> live(x) \/ x = r
  BY <1>1, Enlisted DEF NestSound
<1>3. known \subseteq NestRuns /\ \A x \in NestRuns : live(x) => x \in known
  BY DEF NestSound, NestTypes
<1>4. \A x \in NestRuns : ~live(x)
  <2>1. SUFFICES ASSUME NEW x \in NestRuns, live(x)
                 PROVE  FALSE
    OBVIOUS
  <2>2. PICK s \in Roots \cap known : live(s)
    BY <1>3, <2>1 DEF NestSound, Chained
  <2>3. live(s)' /\ live(r)'
    BY <1>2, <1>3, <2>2
  <2> QED
    BY <1>1, <1>2, <2>2, <2>3 DEF OneNest
<1>5. \A x \in NestRuns : live(x)' <=> x = r
  BY <1>2, <1>4
<1>6. NestTypes'
  <2>1. /\ DOMAIN waitsFor' = known'
        /\ \A x \in known : waitsFor'[x] = waitsFor[x]
        /\ waitsFor'[r] = NoOne
    BY <1>1, <1>2
  <2>2. \A x \in known' : depth'[x] \in 0 .. MaxDepth /\ waitsFor'[x] \in known' \cup {NoOne}
    BY <1>1, <1>2, <2>1 DEF NestSound, NestTypes
  <2> QED
    BY <1>1, <1>2, <1>3, <1>5, <2>1, <2>2 DEF NestSound, NestTypes
<1>7. Chained(rank)'
  <2>1. \A x \in NestRuns, b \in NestActors : On(x, b)' <=> x = r /\ b = t
    BY <1>2, <1>4, LiveOn
  <2>2. \A x \in known' : waitsFor'[x] # NoOne => depth'[waitsFor'[x]] = depth'[x] + 1
    BY <1>1, <1>2 DEF NestSound, NestTypes, Chained
  <2>3. /\ known' \subseteq NestRuns
        /\ \A x, y \in known' : live(x)' /\ live(y)' => x = r /\ y = r
        /\ depth'[r] \in Int /\ r \in Roots \cap known'
    BY <1>1, <1>2, <1>3, <1>5
  <2>4. \A x \in NestRuns, b, d \in NestActors : On(x, b)' /\ On(x, d)' => b = d
    BY <2>1
  <2>5. \A x, y \in known' : live(x)' /\ live(y)' => ~(depth'[x] < depth'[y])
    BY <2>3
  <2>6. \A x \in known' : live(x)' => \E s \in Roots \cap known' : live(s)' /\ depth'[s] = 0
    BY <1>2, <1>5, <2>3
  <2> QED
    BY <2>2, <2>3, <2>4, <2>5, <2>6 DEF Chained
<1> QED
  BY <1>6, <1>7 DEF NestSound

(* The last run of the chain delegates, and waits. *)
LEMMA DelegateStep ==
  ASSUME NEW rank, Downward(rank), NestSound(rank), NEW a \in NestActors, NEW t \in NestActors,
         NEW r \in NestRuns, delegateTool(a, t, "foreground", r)
  PROVE  NestSound(rank)'
<1>0. PICK p \in NestRuns \cup {NoOne} : p = busyWith[a]
  BY DEF NestSound, NestTypes
<1> DEFINE d == depth[p] + 1
<1>1. /\ p \in NestRuns /\ p \in running /\ p \in known /\ live(p) /\ On(p, a) /\ ~isWaiting(p)
      /\ depth[p] \in Nat /\ d \in 0 .. MaxDepth /\ rank[a] < rank[t]
      /\ rank[a] \in Int /\ rank[t] \in Int /\ p # NoOne
  BY <1>0, NestingAssumption
     DEF NestSound, NestTypes, delegateTool, running, live, On, Downward
<1>2. /\ UNCHANGED <<capacity, busyWith>> /\ Enlist(r, t, d) /\ r \notin Roots
      /\ waitsFor' = [x \in known \cup {r} |->
           CASE x = r -> NoOne [] x = p -> r [] OTHER -> waitsFor[x]]
  BY <1>0 DEF delegateTool
<1> HIDE DEF d
<1>3. /\ behind' \in [NestActors -> Seq(NestRuns)] /\ known' = known \cup {r} /\ r \notin known
      /\ depth'[r] = d /\ \A x \in known : depth'[x] = depth[x]
      /\ \A x \in NestRuns, b \in NestActors : On(x, b)' <=> On(x, b) \/ (x = r /\ b = t)
      /\ \A x \in NestRuns : live(x)' <=> live(x) \/ x = r
      /\ running' = running
  BY <1>1, <1>2, Enlisted DEF NestSound
<1>4. /\ known \subseteq NestRuns /\ \A x \in NestRuns : live(x) => x \in known
      /\ \A x \in known : depth[x] \in Nat
      /\ \A x \in known : live(x) => ~(depth[p] < depth[x])
  BY <1>1, NestingAssumption DEF NestSound, NestTypes, Chained
<1>5. /\ DOMAIN waitsFor' = known' /\ waitsFor'[r] = NoOne /\ waitsFor'[p] = r
      /\ \A x \in known : x # p => waitsFor'[x] = waitsFor[x]
      /\ p # r /\ d = depth[p] + 1 /\ r # NoOne
  BY <1>1, <1>2, <1>3, NestingAssumption DEF d
<1>6. NestTypes'
  <2>1. \A x \in known' : depth'[x] \in 0 .. MaxDepth /\ waitsFor'[x] \in known' \cup {NoOne}
    BY <1>1, <1>3, <1>5 DEF NestSound, NestTypes
  <2>2. \A x \in NestRuns : live(x)' => x \in known'
    BY <1>3, <1>4
  <2> QED
    BY <1>2, <1>3, <1>4, <1>5, <2>1, <2>2 DEF NestSound, NestTypes
<1>7. \A x \in known : live(x) /\ x # p => depth[x] < depth[p]
  BY <1>1, <1>4 DEF NestSound, Chained
<1>8. \A x, y \in known : live(x) /\ live(y) /\ depth[x] < depth[y] =>
        /\ x \in running /\ waitsFor[x] # NoOne /\ waitsFor[x] \in known /\ live(waitsFor[x])
        /\ \A b, e \in NestActors : On(x, b) /\ On(y, e) => rank[b] < rank[e]
  BY DEF NestSound, NestTypes, Chained, isWaiting
<1>9. ASSUME NEW x \in known, live(x), x # p
      PROVE  /\ x \in running' /\ isWaiting(x)'
             /\ \A b \in NestActors : On(x, b) => rank[b] < rank[t]
  <2>1. /\ x \in running /\ waitsFor[x] # NoOne /\ waitsFor[x] \in known /\ live(waitsFor[x])
        /\ \A b \in NestActors : On(x, b) => rank[b] < rank[a]
    BY <1>1, <1>7, <1>8, <1>9
  <2>2. isWaiting(x)'
    BY <1>3, <1>4, <1>5, <1>9, <2>1 DEF isWaiting
  <2>3. \A b \in NestActors : rank[b] \in Int
    BY DEF Downward
  <2> QED
    BY <1>1, <1>3, <2>1, <2>2, <2>3
<1>10. p \in running' /\ isWaiting(p)' /\ \A b \in NestActors : On(p, b) => rank[b] < rank[t]
  <2>1. \A b \in NestActors : On(p, b) => b = a
    BY <1>1 DEF NestSound, Chained
  <2>2. live(r)'
    BY <1>3
  <2>3. isWaiting(p)'
    BY <1>5, <2>2 DEF isWaiting
  <2>4. \A b \in NestActors : On(p, b) => rank[b] < rank[t]
    BY <1>1, <2>1
  <2> QED
    BY <1>1, <1>3, <2>3, <2>4
<1>11. \A x \in known' : live(x)' /\ x # r =>
         /\ x \in known /\ live(x) /\ depth'[x] = depth[x] /\ depth[x] < d
         /\ \A b \in NestActors : On(x, b)' <=> On(x, b)
  BY <1>1, <1>3, <1>4, <1>5, <1>7
<1>12. Chained(rank)'
  <2>1. \A x \in NestRuns, b, e \in NestActors : On(x, b)' /\ On(x, e)' => b = e
    <3>1. \A b \in NestActors : ~On(r, b)
      BY <1>3, <1>4, LiveOn
    <3> QED
      BY <1>3, <3>1 DEF NestSound, Chained
  <2>2. \A x \in known' : waitsFor'[x] # NoOne => depth'[waitsFor'[x]] = depth'[x] + 1
    <3>1. SUFFICES ASSUME NEW x \in known, waitsFor'[x] # NoOne
                   PROVE  depth'[waitsFor'[x]] = depth'[x] + 1
      BY <1>3, <1>5
    <3>2. CASE x = p
      BY <1>1, <1>3, <1>5, <3>2
    <3>3. CASE x # p
      <4>1. waitsFor'[x] = waitsFor[x] /\ depth'[x] = depth[x]
        BY <1>3, <1>5, <3>3
      <4>2. waitsFor[x] \in known /\ depth[waitsFor[x]] = depth[x] + 1
        BY <3>1, <4>1 DEF NestSound, NestTypes, Chained
      <4>3. depth'[waitsFor[x]] = depth[waitsFor[x]]
        BY <1>3, <4>2
      <4> QED
        BY <4>1, <4>2, <4>3
    <3> QED
      BY <3>2, <3>3
  <2>3. \A x, y \in known' : live(x)' /\ live(y)' /\ depth'[x] = depth'[y] => x = y
    <3>1. \A x, y \in known : live(x) /\ live(y) /\ depth[x] = depth[y] => x = y
      BY DEF NestSound, Chained
    <3> QED
      BY <1>3, <1>4, <1>11, <3>1
  <2>4. ASSUME NEW x \in known', NEW y \in known', live(x)', live(y)', depth'[x] < depth'[y]
        PROVE  /\ x \in running' /\ isWaiting(x)'
               /\ \A b, e \in NestActors : On(x, b)' /\ On(y, e)' => rank[b] < rank[e]
    <3>1. x # r
      <4>1. SUFFICES ASSUME x = r
                     PROVE  FALSE
        OBVIOUS
      <4>2. depth'[x] = d /\ d \in Int
        BY <1>1, <1>3, <4>1
      <4>3. y # r => depth'[y] = depth[y] /\ depth[y] < d /\ depth[y] \in Int
        BY <1>4, <1>11, <2>4
      <4>4. y = r => depth'[y] = d
        BY <1>3
      <4> QED
        BY <2>4, <4>2, <4>3, <4>4
    <3>2. x \in known /\ live(x) /\ depth'[x] = depth[x]
      BY <1>11, <2>4, <3>1
    <3>3. x \in running' /\ isWaiting(x)' /\ \A b \in NestActors : On(x, b) => rank[b] < rank[t]
      <4>1. CASE x = p
        BY <1>10, <4>1
      <4>2. CASE x # p
        BY <1>9, <3>2, <4>2
      <4> QED
        BY <4>1, <4>2
    <3>4. CASE y = r
      <4>1. \A e \in NestActors : On(r, e)' => e = t
        BY <1>3, <1>4, LiveOn
      <4>2. \A b \in NestActors : On(x, b)' => rank[b] < rank[t]
        BY <1>11, <2>4, <3>1, <3>3
      <4> QED
        BY <3>3, <3>4, <4>1, <4>2
    <3>5. CASE y # r
      BY <1>8, <1>11, <2>4, <3>1, <3>3, <3>5
    <3> QED
      BY <3>4, <3>5
  <2>5. ASSUME NEW x \in known', live(x)'
        PROVE  \E s \in Roots \cap known' : live(s)' /\ depth'[s] = 0
    <3>1. PICK s \in Roots \cap known : live(s) /\ depth[s] = 0
      BY <1>1 DEF NestSound, Chained
    <3> QED
      BY <1>3, <1>4, <3>1
  <2> QED
    BY <2>1, <2>2, <2>3, <2>4, <2>5 DEF Chained
<1> QED
  BY <1>6, <1>12 DEF NestSound

LEMMA NestStep ==
  ASSUME NEW rank, Downward(rank), NestSound(rank), OneNest', [NestingNext]_nestingVars
  PROVE  NestSound(rank)'
<1>1. ASSUME NEW r \in NestRuns, NEW a \in NestActors, submitRoot(r, a)
      PROVE  NestSound(rank)'
  BY <1>1, RootStep
<1>2. ASSUME NEW a \in NestActors, NEW t \in NestActors, NEW mode \in Modes, NEW r \in NestRuns,
             delegateTool(a, t, mode, r)
      PROVE  NestSound(rank)'
  <2>1. mode = "foreground"
    BY DEF OneNest
  <2> QED
    BY <1>2, <2>1, DelegateStep
<1>3. ASSUME NEW a \in NestActors, takeTurn(a) \/ finish(a)
      PROVE  NestSound(rank)'
  BY <1>3, TurnStep, FinishStep
<1>4. CASE UNCHANGED nestingVars
  BY <1>4 DEF nestingVars, NestSound, NestTypes, Chained, On, live, isQueued, running, known, isWaiting
<1> QED
  BY <1>1, <1>2, <1>3, <1>4 DEF NestingNext

(* The last run of a chain is the one with nothing below it. *)
LEMMA DeepestRun ==
  ASSUME NEW rank, NestSound(rank), NEW r \in known, live(r)
  PROVE  \E m \in known : live(m) /\ \A x \in known : live(x) => ~(depth[m] < depth[x])
<1> DEFINE heights == {MaxDepth - depth[x] : x \in {y \in known : live(y)}}
<1>1. MaxDepth \in Nat /\ \A x \in known : depth[x] \in 0 .. MaxDepth
  BY NestingAssumption DEF NestSound, NestTypes
<1>2. \A x \in known : MaxDepth - depth[x] \in Nat
  BY <1>1
<1>3. heights \subseteq Nat /\ MaxDepth - depth[r] \in heights
  BY <1>2
<1>4. \E n \in heights : \A k \in heights : ~(<<k, n>> \in OpToRel(<, Nat))
  <2> HIDE DEF heights
  <2> QED
    BY <1>3, NatLessThanWellFounded, WFMin
<1>5. PICK n \in heights : \A k \in heights : ~(<<k, n>> \in OpToRel(<, Nat))
  BY <1>4
<1>6. PICK m \in known : live(m) /\ n = MaxDepth - depth[m]
  BY <1>5
<1>7. ASSUME NEW x \in known, live(x)
      PROVE  ~(depth[m] < depth[x])
  <2>1. MaxDepth - depth[x] \in heights /\ MaxDepth - depth[x] \in Nat /\ MaxDepth - depth[m] \in Nat
    BY <1>2, <1>7
  <2>2. ~(MaxDepth - depth[x] < MaxDepth - depth[m])
    BY <1>5, <1>6, <2>1 DEF OpToRel
  <2> QED
    BY <1>1, <2>2
<1> QED
  BY <1>6, <1>7

LEMMA ChainDrains ==
  ASSUME NEW rank, Downward(rank), NestSound(rank)
  PROVE  NestingDrains
<1>1. SUFFICES ASSUME NEW r \in known, live(r), \A x \in running : isWaiting(x)
               PROVE  /\ Cardinality(running) < capacity
                      /\ \E a \in NestActors : busyWith[a] = NoOne /\ behind[a] # << >>
  BY DEF NestingDrains
<1>2. PICK m \in known : live(m) /\ \A x \in known : live(x) => ~(depth[m] < depth[x])
  BY <1>1, DeepestRun
<1>3. /\ known \subseteq NestRuns /\ \A x \in NestRuns : live(x) => x \in known
      /\ MaxDepth \in Nat /\ \A x \in known : depth[x] \in 0 .. MaxDepth
      /\ capacity \in Nat /\ capacity > MaxDepth
  BY NestingAssumption DEF NestSound, NestTypes
<1>4. \A x \in running : x \in known /\ live(x)
  BY <1>3 DEF running, live, NestSound, NestTypes
<1>5. m \notin running
  <2>1. SUFFICES ASSUME m \in running
                 PROVE  FALSE
    OBVIOUS
  <2>2. waitsFor[m] # NoOne /\ live(waitsFor[m]) /\ waitsFor[m] \in known
    BY <1>1, <2>1 DEF isWaiting, NestSound, NestTypes
  <2>3. depth[waitsFor[m]] = depth[m] + 1
    BY <2>2 DEF NestSound, Chained
  <2>4. depth[m] < depth[waitsFor[m]]
    BY <1>3, <2>3
  <2> QED
    BY <1>2, <2>2, <2>4
<1>6. \A x \in running : depth[x] < depth[m]
  <2>1. ASSUME NEW x \in running
        PROVE  depth[x] < depth[m]
    <3>1. x \in known /\ live(x) /\ x # m
      BY <1>4, <1>5
    <3>2. depth[x] # depth[m]
      BY <1>2, <3>1 DEF NestSound, Chained
    <3> QED
      BY <1>2, <1>3, <3>1, <3>2
  <2> QED
    BY <2>1
<1>7. PICK a \in NestActors : \E i \in DOMAIN behind[a] : behind[a][i] = m
  BY <1>2, <1>5 DEF live, isQueued
<1>8. behind[a] # << >> /\ On(m, a)
  BY <1>7 DEF On
<1>9. busyWith[a] = NoOne
  <2>1. SUFFICES ASSUME busyWith[a] # NoOne
                 PROVE  FALSE
    OBVIOUS
  <2>2. busyWith[a] \in running /\ On(busyWith[a], a)
    BY <2>1 DEF running, On
  <2>3. rank[a] < rank[a]
    BY <1>2, <1>4, <1>6, <1>8, <2>2 DEF NestSound, Chained
  <2> QED
    BY <2>3 DEF Downward
<1>10. Cardinality(running) < capacity
  <2> DEFINE f == [x \in running |-> depth[x]]
             below == 0 .. (depth[m] - 1)
  <2>1. depth[m] \in Nat /\ depth[m] <= MaxDepth
    BY <1>3
  <2>2. \A x \in running : depth[x] \in below
    BY <1>3, <1>4, <1>6, <2>1
  <2>3. \A x, y \in running : f[x] = f[y] => x = y
    BY <1>4 DEF NestSound, Chained
  <2>4. f \in Injection(running, below)
    BY <2>2, <2>3 DEF Injection, IsInjective
  <2>5. IsFiniteSet(below) /\ Cardinality(below) = depth[m]
    <3>1. PICK n \in Int : n = depth[m] - 1
      BY <2>1
    <3>2. IsFiniteSet(0 .. n) /\ Cardinality(0 .. n) = IF 0 > n THEN 0 ELSE n - 0 + 1
      BY FS_Interval
    <3> QED
      BY <2>1, <3>1, <3>2
  <2>6. Cardinality(running) <= Cardinality(below) /\ IsFiniteSet(running)
    BY <2>4, <2>5, FS_Injection
  <2>7. Cardinality(running) \in Nat
    BY <2>6, FS_CardinalityType
  <2> QED
    BY <1>3, <2>1, <2>5, <2>6, <2>7
<1> QED
  BY <1>8, <1>9, <1>10

(* When no chain of authorizations leads back to an actor, one nest of     *)
(* foreground delegations never waits on itself: while a run of it is not  *)
(* ended, an active one is not waiting or a queued one can take its place. *)
(* The capacity that DelegationManager.create demands is thus sufficient,  *)
(* whatever the depth, the actors and the runs.                            *)
THEOREM OneNestDrains ==
  ASSUME NEW rank, Downward(rank)
  PROVE  NestingSpec /\ []OneNest => []NestingDrains
<1>1. NestingInit => NestSound(rank)
  BY NestStarts
<1>2. NestSound(rank) /\ [NestingNext]_nestingVars /\ OneNest' => NestSound(rank)'
  BY NestStep
<1>3. NestSound(rank) => NestingDrains
  BY ChainDrains
<1> QED
  BY <1>1, <1>2, <1>3, PTL DEF NestingSpec
-----------------------------------------------------------------------------
(* The store of schedules *)

(* The tick of the n-th occurrence of s. *)
TickOf(s, n) == s.due + (n - 1) * s.interval

LEMMA ProductGrows ==
  ASSUME NEW a \in Int, NEW b \in Int, NEW i \in Nat, a <= b
  PROVE  /\ a * i \in Int /\ b * i \in Int /\ a * i <= b * i
         /\ i >= 1 /\ a < b => a * i < b * i
         /\ i >= 1 /\ a >= 0 => a * i >= a
<1>1. /\ a * i \in Int /\ b * i \in Int
      /\ a * i <= b * i
  OBVIOUS
<1>2. i >= 1 /\ a < b => a * i < b * i
  OBVIOUS
<1>3. i >= 1 /\ a >= 0 => a * i >= a
  OBVIOUS
<1>. QED  BY <1>1, <1>2, <1>3

LEMMA TickFacts ==
  ASSUME NEW s, s.due \in Nat \ {0}, s.interval \in Nat, NEW n \in Nat \ {0}, NEW m \in Nat \ {0}
  PROVE  /\ TickOf(s, n) \in Nat \ {0}
         /\ TickOf(s, 1) = s.due
         /\ n <= m => TickOf(s, n) <= TickOf(s, m)
         /\ s.interval >= 1 /\ n < m => TickOf(s, n) < TickOf(s, m)
         /\ s.interval >= 1 => TickOf(s, n) >= n
         /\ TickOf(s, n + m) = TickOf(s, n) + m * s.interval
<1>. DEFINE i == s.interval
            a == n - 1
            b == m - 1
<1>1. i \in Nat /\ a \in Nat /\ b \in Nat /\ s.due \in Nat \ {0}
  OBVIOUS
<1>. HIDE DEF i, a, b
<1>2. a * i \in Nat /\ b * i \in Nat /\ 0 * i = 0 /\ (i >= 1 => a * i >= a)
  BY <1>1, ProductGrows
<1>3. a <= b => a * i <= b * i
  BY <1>1, ProductGrows
<1>4. i >= 1 /\ a < b => a * i < b * i
  BY <1>1, ProductGrows
<1>5. (a + m) * i = a * i + m * i
  BY <1>1
<1>6. /\ TickOf(s, n) = s.due + a * i
      /\ TickOf(s, m) = s.due + b * i
      /\ TickOf(s, 1) = s.due + 0 * i
      /\ TickOf(s, n + m) = s.due + (a + m) * i
  <2>1. (n + m) - 1 = a + m /\ 1 - 1 = 0
    BY DEF a
  <2>. QED  BY <2>1 DEF TickOf, a, b, i
<1>7. m * i \in Int
  BY <1>1
<1>8. (n <= m <=> a <= b) /\ (n < m <=> a < b) /\ a = n - 1
  BY DEF a, b
<1>9. /\ TickOf(s, n) \in Nat \ {0} /\ TickOf(s, 1) = s.due
      /\ n <= m => TickOf(s, n) <= TickOf(s, m)
      /\ i >= 1 /\ n < m => TickOf(s, n) < TickOf(s, m)
      /\ i >= 1 => TickOf(s, n) >= n
  <2>. DEFINE x == a * i  y == b * i  t == TickOf(s, n)  u == TickOf(s, m)  d == s.due
  <2>1. /\ t = d + x /\ u = d + y /\ TickOf(s, 1) = d + 0 /\ d \in Nat \ {0} /\ x \in Nat /\ y \in Nat
        /\ a <= b => x <= y
        /\ i >= 1 /\ a < b => x < y
        /\ i >= 1 => x >= a
    BY <1>1, <1>2, <1>3, <1>4, <1>6
  <2>. HIDE DEF x, y, t, u, d
  <2>2. t \in Nat \ {0} /\ d + 0 = d
    BY <2>1
  <2>3. n <= m => t <= u
    BY <1>8, <2>1
  <2>4. i >= 1 /\ n < m => t < u
    BY <1>8, <2>1
  <2>5. i >= 1 => t >= n
    BY <1>1, <1>8, <2>1
  <2>. QED  BY <2>1, <2>2, <2>3, <2>4, <2>5 DEF t, u, d
<1>10. TickOf(s, n + m) = TickOf(s, n) + m * i
  BY <1>1, <1>2, <1>5, <1>6, <1>7
<1>. QED  BY <1>9, <1>10 DEF i

(* A set of counts that has every smaller one is a run from 1. *)
LEMMA RunFromOne ==
  ASSUME NEW N \in Nat, NEW D \in SUBSET (1 .. N),
         \A k \in D, j \in 1 .. N : j <= k => j \in D
  PROVE  \E m \in 0 .. N : D = 1 .. m
<1>. DEFINE T == {k \in Nat : k >= 1 /\ k \notin D}
<1>1. N + 1 \in T
  OBVIOUS
<1>. DEFINE R == OpToRel(<, Nat)
<1>2. PICK x \in T : \A y \in T : ~(<<y, x>> \in R)
  <2>1. T \subseteq Nat /\ T # {}
    BY <1>1
  <2>2. IsWellFoundedOn(R, Nat)
    BY NatLessThanWellFounded
  <2>. HIDE DEF T, R
  <2>. QED  BY <2>1, <2>2, WFMin
<1>3. \A y \in T : ~(y < x)
  BY <1>2 DEF OpToRel
<1>4. x \in Nat /\ x >= 1 /\ x \notin D /\ x <= N + 1
  BY <1>1, <1>3
<1>5. \A k \in Nat : k >= 1 /\ k < x => k \in D
  BY <1>3
<1>6. \A k \in D : k < x
  <2>. SUFFICES ASSUME NEW k \in D, k >= x  PROVE FALSE
    BY <1>4
  <2>. QED  BY <1>4
<1>7. D = 1 .. (x - 1)
  <2>1. ASSUME NEW k \in D  PROVE k \in 1 .. (x - 1)
    BY <1>4, <1>6
  <2>2. ASSUME NEW k \in 1 .. (x - 1)  PROVE k \in D
    BY <1>4, <1>5
  <2>. QED  BY <2>1, <2>2
<1>. QED  BY <1>4, <1>7

(* The n-th occurrence of s, as the queue of an advance visits it. *)
CursorOf(s, n) == [schedule |-> s.key, ordinal |-> n, due |-> TickOf(s, n)]

CursorsOf(s, m) == {CursorOf(s, n) : n \in s.occurrences + 1 .. s.occurrences + m}

(* An active schedule whose next tick is that of its next ordinal. *)
CursorAhead(s) ==
  /\ s.nextDue \in Ticks
  /\ s.nextDue = TickOf(s, s.occurrences + 1)
  /\ s.maximum # Nil => s.occurrences < s.maximum
  /\ s.interval = Nil => s.maximum = 1

(* What an advance to `to` generates of a schedule is a run of ordinals    *)
(* from its next one on, as long as the ticks and the maximum allow.       *)
IsRun(s, to, m) ==
  /\ m \in Nat
  /\ dueUntil(s, to) = CursorsOf(s, m)
  /\ m > 0 => TickOf(s, s.occurrences + m) <= to
  /\ s.maximum # Nil => s.occurrences + m <= s.maximum
  /\ s.maximum # Nil => s.occurrences + m = s.maximum \/ TickOf(s, s.occurrences + m + 1) > to
  /\ s.maximum = Nil => TickOf(s, s.occurrences + m + 1) > to

LEMMA DueIsRun ==
  ASSUME ScheduleAssumption, NEW s \in Schedule, CursorAhead(s), NEW to \in Ticks
  PROVE  \E m \in Nat : IsRun(s, to, m)
<1>. DEFINE L == IF s.interval = Nil THEN 1 ELSE MaxTick
            base == s.occurrences
            ok(k) == TickOf(s, base + k) <= to /\ (s.maximum # Nil => base + k <= s.maximum)
            D == {k \in 1 .. L : ok(k)}
<1>1. /\ base \in Nat /\ MaxTick \in Nat /\ to \in Nat /\ to <= MaxTick /\ L \in Nat
      /\ s.maximum \in Nat /\ s.interval \in Nat /\ s.due \in Nat \ {0} /\ Nil = 0
  BY DEF ScheduleAssumption, Schedule, Counters, Ticks, Nil
<1>2. \A n \in Nat \ {0}, m \in Nat \ {0} :
        /\ TickOf(s, n) \in Nat \ {0}
        /\ n <= m => TickOf(s, n) <= TickOf(s, m)
        /\ s.interval >= 1 => TickOf(s, n) >= n
        /\ TickOf(s, n + m) = TickOf(s, n) + m * s.interval
  BY <1>1, TickFacts
<1>3. \A k \in Nat \ {0} : s.nextDue + (k - 1) * s.interval = TickOf(s, base + k)
  <2>. TAKE k \in Nat \ {0}
  <2>. base + 1 \in Nat \ {0} /\ s.nextDue = TickOf(s, base + 1)
    BY <1>1 DEF CursorAhead
  <2>1. CASE k = 1
    <3>1. (k - 1) * s.interval = 0
      BY <1>1, <2>1
    <3>2. s.nextDue \in Nat
      BY <1>1 DEF CursorAhead, Ticks
    <3>3. s.nextDue + (k - 1) * s.interval = s.nextDue
      BY <3>1, <3>2
    <3>. QED  BY <2>1, <3>3
  <2>2. CASE k # 1
    <3>1. k - 1 \in Nat \ {0} /\ (base + 1) + (k - 1) = base + k
      BY <1>1, <2>2
    <3>. HIDE DEF base
    <3>. QED  BY <1>2, <3>1
  <2>. QED  BY <2>1, <2>2
<1>4. \A k \in D, j \in 1 .. L : j <= k => j \in D
  <2>. TAKE k \in D, j \in 1 .. L
  <2>. HAVE j <= k
  <2>1. /\ k \in Nat \ {0} /\ j \in Nat \ {0}
        /\ base + j \in Nat \ {0} /\ base + k \in Nat \ {0} /\ base + j <= base + k
    BY <1>1
  <2>2. /\ TickOf(s, base + j) <= TickOf(s, base + k)
        /\ TickOf(s, base + j) \in Nat /\ TickOf(s, base + k) \in Nat
    BY <1>2, <2>1
  <2>3. TickOf(s, base + k) <= to /\ (s.maximum # Nil => base + k <= s.maximum)
    OBVIOUS
  <2>. HIDE DEF base, L
  <2>. QED  BY <1>1, <2>1, <2>2, <2>3
<1>5. PICK m \in 0 .. L : D = 1 .. m
  <2>. D \in SUBSET (1 .. L) /\ L \in Nat
    BY <1>1
  <2>. HIDE DEF D, L
  <2>. QED  BY <1>4, RunFromOne
<1>6. m \in Nat /\ m <= L /\ base + m \in Nat /\ base + m + 1 \in Nat \ {0}
  <2>. HIDE DEF L, base
  <2>. QED  BY <1>1, <1>5
<1>7. dueUntil(s, to) = CursorsOf(s, m)
  <2>1. dueUntil(s, to) = {c \in {CursorOf(s, base + k) : k \in 1 .. L} :
                             c.due <= to /\ (s.maximum # Nil => c.ordinal <= s.maximum)}
    <3>1. \A k \in 1 .. L :
            [schedule |-> s.key, ordinal |-> base + k, due |-> s.nextDue + (k - 1) * s.interval]
            = CursorOf(s, base + k)
      <4>. L \in Nat
        BY <1>1
      <4>. HIDE DEF L, base
      <4>. QED  BY <1>3 DEF CursorOf
    <3>. QED  BY <3>1 DEF dueUntil
  <2>2. \A k : k \in 1 .. L /\ ok(k) <=> k \in 1 .. m
    BY <1>5
  <2>3. dueUntil(s, to) = {CursorOf(s, base + k) : k \in 1 .. m}
    BY <2>1, <2>2 DEF CursorOf
  <2>4. {CursorOf(s, base + k) : k \in 1 .. m} = {CursorOf(s, n) : n \in base + 1 .. base + m}
    <3>1. \A k \in 1 .. m : base + k \in base + 1 .. base + m
      BY <1>1, <1>6
    <3>2. \A n \in base + 1 .. base + m : n - base \in 1 .. m /\ base + (n - base) = n
      BY <1>1, <1>6
    <3>. HIDE DEF base
    <3>. QED  BY <3>1, <3>2
  <2>. QED  BY <2>3, <2>4 DEF CursorsOf
<1>8. m > 0 => m \in D
  BY <1>5
<1>9. m + 1 \notin D
  <2>. m + 1 \notin 1 .. m
    BY <1>6
  <2>. HIDE DEF D
  <2>. QED  BY <1>5
<1>10. CASE s.interval = Nil
  <2>1. base = 0 /\ s.maximum = 1 /\ L = 1 /\ m \in {0, 1}
    BY <1>1, <1>6, <1>10 DEF CursorAhead
  <2>2. TickOf(s, 1) \in Nat /\ TickOf(s, 2) \in Nat
    BY <1>2
  <2>3. CASE m = 0
    <3>1. ~ok(1) /\ base + 1 = 1 /\ base + m + 1 = 1
      BY <1>9, <2>1, <2>3
    <3>. HIDE DEF base, D, L
    <3>2. TickOf(s, base + m + 1) > to
      BY <1>1, <2>1, <2>2, <3>1
    <3>3. s.maximum # Nil => base + m <= s.maximum
      BY <2>1, <2>3
    <3>. QED  BY <1>6, <1>7, <2>3, <3>2, <3>3 DEF IsRun, base
  <2>4. CASE m = 1
    <3>1. ok(1) /\ base + m = 1 /\ s.maximum = 1 /\ s.maximum # Nil
      BY <1>1, <1>8, <2>1, <2>4
    <3>. QED  BY <1>6, <1>7, <2>4, <3>1 DEF IsRun
  <2>. QED  BY <2>1, <2>3, <2>4
<1>11. CASE s.interval # Nil
  <2>1. TickOf(s, base + m + 1) >= base + m + 1 /\ TickOf(s, base + m + 1) \in Nat /\ L = MaxTick
      <3>1. s.interval >= 1 /\ L = MaxTick /\ base + m + 1 \in Nat \ {0}
      BY <1>1, <1>6, <1>11
    <3>. HIDE DEF L, base
    <3>. QED  BY <1>2, <3>1
  <2>2. base + m + 1 = base + (m + 1)
    BY <1>1, <1>6
  <2>3. ~ok(m + 1) \/ m + 1 > MaxTick
    <3>1. m + 1 <= L => m + 1 \in 1 .. L
      BY <1>1, <1>6
    <3>2. m + 1 \in 1 .. L => ~ok(m + 1)
      BY <1>9
    <3>3. ok(m + 1) => m + 1 > MaxTick
      <4>. HIDE DEF L, ok
      <4>. QED  BY <1>1, <1>6, <2>1, <3>1, <3>2
    <3>. QED  BY <3>3
  <2>4. m > 0 => ok(m)
    BY <1>8
  <2>5. s.maximum # Nil => base + m <= s.maximum
    BY <1>1, <1>6, <2>4 DEF CursorAhead
  <2>6. (s.maximum # Nil /\ base + m = s.maximum) \/ TickOf(s, base + m + 1) > to
    <3>. HIDE DEF base, L, D
    <3>. QED  BY <1>1, <1>6, <2>1, <2>2, <2>3, <2>5
  <2>. QED  BY <1>6, <1>7, <2>4, <2>5, <2>6 DEF IsRun
<1>. QED  BY <1>10, <1>11

-----------------------------------------------------------------------------
(* What an advance generates. *)

LEMMA CursorsCounted ==
  ASSUME NEW s, s.occurrences \in Nat, NEW m \in Nat
  PROVE  IsFiniteSet(CursorsOf(s, m)) /\ Cardinality(CursorsOf(s, m)) = m
<1>. DEFINE T == CursorsOf(s, m)
            b == s.occurrences
            f == [k \in 1 .. m |-> CursorOf(s, b + k)]
<1>1. \A k \in 1 .. m : b + k \in b + 1 .. b + m
  OBVIOUS
<1>2. \A n \in b + 1 .. b + m : n - b \in 1 .. m /\ b + (n - b) = n
  OBVIOUS
<1>3. \A k \in 1 .. m : f[k] \in T
  <2>. HIDE DEF b
  <2>. QED  BY <1>1 DEF CursorsOf, b
<1>4. \A c \in T : \E k \in 1 .. m : f[k] = c
  <2>. TAKE c \in T
  <2>1. PICK n \in b + 1 .. b + m : c = CursorOf(s, n)
    BY DEF CursorsOf
  <2>2. n - b \in 1 .. m /\ f[n - b] = c
    BY <1>2, <2>1
  <2>. QED  BY <2>2
<1>5. \A j, k \in 1 .. m : f[j] = f[k] => j = k
  <2>. TAKE j, k \in 1 .. m
  <2>. HAVE f[j] = f[k]
  <2>1. f[j].ordinal = b + j /\ f[k].ordinal = b + k
    BY DEF CursorOf
  <2>. QED  BY <2>1
<1>6. f \in Bijection(1 .. m, T)
  <2>. f \in [1 .. m -> T]
    BY <1>3
  <2>. DEFINE S == 1 .. m
  <2>. HIDE DEF f, T, S
  <2>1. f \in [S -> T] /\ \A c \in T : \E k \in S : f[k] = c
    BY <1>3, <1>4 DEF S
  <2>2. \A j, k \in S : f[j] = f[k] => j = k
    BY <1>5 DEF S
  <2>3. f \in Bijection(S, T)
    BY <2>1, <2>2 DEF Bijection, Injection, Surjection, IsInjective
  <2>. QED  BY <2>3 DEF S
<1>7. IsFiniteSet(1 .. m) /\ Cardinality(1 .. m) = m
  BY FS_Interval
<1>. QED  BY <1>6, <1>7, FS_Bijection DEF ExistsBijection

(* The place of a cursor among those generated, in the queue's order. *)
RankOf(G, c) == Cardinality({d \in G : compareAdvanceCursors(d, c)})

LEMMA RanksDiffer ==
  ASSUME NEW G, IsFiniteSet(G),
         \A c \in G : c.due \in Nat /\ c.schedule \in Nat,
         \A c, d \in G : c.due = d.due /\ c.schedule = d.schedule => c = d
  PROVE  /\ Cardinality(G) \in Nat
         /\ \A c \in G : RankOf(G, c) \in Nat /\ RankOf(G, c) < Cardinality(G)
         /\ \A c, d \in G : RankOf(G, c) = RankOf(G, d) => c = d
<1>. DEFINE Before(c) == {d \in G : compareAdvanceCursors(d, c)}
<1>1. \A c, d \in G : c # d => compareAdvanceCursors(c, d) \/ compareAdvanceCursors(d, c)
  BY DEF compareAdvanceCursors
<1>2. \A c \in G : ~compareAdvanceCursors(c, c)
  BY DEF compareAdvanceCursors
<1>3. \A b, c, d \in G : compareAdvanceCursors(b, c) /\ compareAdvanceCursors(c, d) => compareAdvanceCursors(b, d)
  BY DEF compareAdvanceCursors
<1>4. \A c \in G : Before(c) \subseteq G /\ c \notin Before(c)
  BY <1>2
<1>5. \A c, d \in G : compareAdvanceCursors(c, d) => Before(c) \subseteq Before(d) /\ c \in Before(d)
  BY <1>3
<1>. HIDE DEF Before
<1>6. Cardinality(G) \in Nat
  BY FS_CardinalityType
<1>7. \A c \in G : /\ IsFiniteSet(Before(c)) /\ Cardinality(Before(c)) \in Nat
                   /\ Cardinality(Before(c)) < Cardinality(G)
  <2>. TAKE c \in G
  <2>1. IsFiniteSet(Before(c)) /\ Cardinality(Before(c)) <= Cardinality(G)
        /\ (Cardinality(G) = Cardinality(Before(c)) => G = Before(c))
    BY <1>4, FS_Subset
  <2>2. Cardinality(Before(c)) \in Nat
    BY <2>1, FS_CardinalityType
  <2>. QED  BY <1>4, <1>6, <2>1, <2>2
<1>8. \A c, d \in G : compareAdvanceCursors(c, d) => Cardinality(Before(c)) < Cardinality(Before(d))
  <2>. TAKE c, d \in G
  <2>. HAVE compareAdvanceCursors(c, d)
  <2>1. Before(c) \subseteq Before(d) /\ c \in Before(d) /\ c \notin Before(c)
    BY <1>4, <1>5
  <2>2. Cardinality(Before(c)) <= Cardinality(Before(d))
        /\ (Cardinality(Before(d)) = Cardinality(Before(c)) => Before(d) = Before(c))
    BY <1>7, <2>1, FS_Subset
  <2>. QED  BY <1>7, <2>1, <2>2
<1>9. \A c, d \in G : Cardinality(Before(c)) = Cardinality(Before(d)) => c = d
  <2>. TAKE c, d \in G
  <2>. HAVE Cardinality(Before(c)) = Cardinality(Before(d))
  <2>1. ~compareAdvanceCursors(c, d) /\ ~compareAdvanceCursors(d, c)
    BY <1>7, <1>8
  <2>. QED  BY <1>1, <2>1
<1>10. \A c \in G : RankOf(G, c) = Cardinality(Before(c))
  BY DEF RankOf, Before
<1>. QED  BY <1>6, <1>7, <1>9, <1>10

-----------------------------------------------------------------------------
(* The schedules, the advances and the history of occurrences. *)

AdvanceRecord == [id: AdvanceIds, from: 0 .. MaxTick, to: Ticks, recordedAt: ScheduleTimes]
HistoryRecord == [key: Nat, schedule: Nat, ordinal: Nat, due: Nat]

ScheduleRows ==
  /\ schedules \subseteq Schedule /\ IsFiniteSet(schedules)
  /\ nextScheduleKey \in Nat \ {0}
  /\ \A s \in schedules : s.key < nextScheduleKey
  /\ \A s, t \in schedules : s.key = t.key => s = t
  /\ clock \in Ticks \cup {Nil}

CursorsAhead ==
  \A s \in ActiveSchedules : CursorAhead(s) /\ (clock # Nil => s.nextDue > clock)

AdvancesOrdered ==
  /\ advances \subseteq AdvanceRecord
  /\ clock = Nil => advances = {}
  /\ \A a \in advances : a.from < a.to /\ a.to <= clock
  /\ \A a, b \in advances : a # b => a.to <= b.from \/ b.to <= a.from

HistoryExplains ==
  /\ history \subseteq HistoryRecord
  /\ \A h \in history : h.schedule < nextScheduleKey
  /\ \A g, h \in history : g.schedule = h.schedule /\ g.ordinal = h.ordinal => g = h
  /\ \A s \in schedules, h \in history : h.schedule = s.key =>
       h.ordinal \in 1 .. s.occurrences /\ h.due = TickOf(s, h.ordinal)
  /\ \A s \in schedules : \A n \in 1 .. s.occurrences :
       \E h \in history : h.schedule = s.key /\ h.ordinal = n

ClockInv == ScheduleRows /\ CursorsAhead /\ AdvancesOrdered /\ HistoryExplains

LEMMA ClockInit == ASSUME ScheduleAssumption, ScheduleInit  PROVE ClockInv
  BY FS_EmptySet DEF ScheduleInit, ClockInv, ScheduleRows, CursorsAhead, AdvancesOrdered,
     HistoryExplains, ActiveSchedules, Nil

(* Schedules that are cancelled keep what the history is about. *)
KeptRow(p, q) ==
  /\ p.key = q.key /\ p.due = q.due /\ p.interval = q.interval /\ p.maximum = q.maximum
  /\ p.occurrences = q.occurrences
  /\ p = q \/ p.status # "active"

LEMMA TickOfKept ==
  ASSUME NEW p, NEW q, p.due = q.due, p.interval = q.interval
  PROVE  \A n : TickOf(p, n) = TickOf(q, n)
  BY DEF TickOf

LEMMA SchedulesReplaced ==
  ASSUME ScheduleAssumption, ClockInv, NEW f \in [schedules -> Schedule],
         schedules' = {f[q] : q \in schedules}, \A q \in schedules : KeptRow(f[q], q),
         UNCHANGED <<advances, clock, nextScheduleKey, history>>
  PROVE  ClockInv'
<1>. USE DEF ClockInv
<1>1. \A p \in schedules' : \E q \in schedules : p = f[q] /\ KeptRow(p, q) /\ p \in Schedule
  OBVIOUS
<1>2. \A p, q \in schedules' : p.key = q.key => p = q
  BY <1>1 DEF ScheduleRows, KeptRow
<1>3. IsFiniteSet(schedules')
  <2>. f \in Surjection(schedules, schedules')
    BY DEF Surjection
  <2>. QED  BY FS_Surjection DEF ScheduleRows
<1>4. ScheduleRows'
  BY <1>1, <1>2, <1>3 DEF ScheduleRows, KeptRow, Ticks
<1>5. ActiveSchedules' \subseteq ActiveSchedules
  BY <1>1 DEF ActiveSchedules, KeptRow
<1>6. CursorsAhead'
  BY <1>5 DEF CursorsAhead, CursorAhead, TickOf, Ticks
<1>7. AdvancesOrdered'
  BY DEF AdvancesOrdered, AdvanceRecord, Ticks, ScheduleTimes
<1>8. \A p \in schedules' : \E q \in schedules :
        p.key = q.key /\ p.occurrences = q.occurrences /\ \A n : TickOf(p, n) = TickOf(q, n)
  BY <1>1, TickOfKept DEF KeptRow
<1>9. HistoryExplains'
  <2>1. \A s \in schedules', h \in history : h.schedule = s.key =>
          h.ordinal \in 1 .. s.occurrences /\ h.due = TickOf(s, h.ordinal)
    BY <1>8 DEF HistoryExplains
  <2>2. \A s \in schedules' : \A n \in 1 .. s.occurrences :
          \E h \in history : h.schedule = s.key /\ h.ordinal = n
    BY <1>8 DEF HistoryExplains
  <2>. QED  BY <2>1, <2>2 DEF HistoryExplains, TickOf, HistoryRecord
<1>. QED  BY <1>4, <1>6, <1>7, <1>9

LEMMA LaterTime == ASSUME NEW s \in ScheduleTimes, NEW t \in ScheduleTimes  PROVE later(s, t) \in ScheduleTimes
  BY DEF later

CancelledRow(s, at) ==
  [s EXCEPT !.status = "cancelled", !.revision = @ + 1, !.nextDue = Nil, !.updatedAt = later(@, at)]

LEMMA CancelledFacts ==
  ASSUME ScheduleAssumption, NEW s \in Schedule, s.revision < MaxScheduleCounter, NEW at \in ScheduleTimes
  PROVE  CancelledRow(s, at) \in Schedule /\ KeptRow(CancelledRow(s, at), s)
<1>1. /\ s.revision + 1 \in Counters /\ later(s.updatedAt, at) \in ScheduleTimes
      /\ "cancelled" \in {"active", "completed", "cancelled"} /\ Nil \in Ticks \cup {Nil}
  BY LaterTime DEF Schedule, Counters, ScheduleAssumption
<1>. DEFINE p == CancelledRow(s, at)
<1>2. p \in Schedule
  BY <1>1 DEF Schedule, CancelledRow
<1>3. /\ p.key = s.key /\ p.due = s.due /\ p.interval = s.interval /\ p.maximum = s.maximum
      /\ p.occurrences = s.occurrences /\ p.status = "cancelled"
  BY DEF Schedule, CancelledRow
<1>. QED  BY <1>2, <1>3 DEF KeptRow

(* Cancelling schedules, one or those of a lane. *)
LEMMA SchedulesCancelled ==
  ASSUME ScheduleAssumption, ClockInv, NEW gone \in SUBSET schedules, NEW at \in ScheduleTimes,
         \A s \in gone : s.revision < MaxScheduleCounter,
         schedules' = (schedules \ gone) \cup {CancelledRow(s, at) : s \in gone},
         UNCHANGED <<advances, clock, nextScheduleKey, history>>
  PROVE  ClockInv'
<1>. DEFINE f == [q \in schedules |-> IF q \in gone THEN CancelledRow(q, at) ELSE q]
<1>1. schedules \subseteq Schedule
  BY DEF ClockInv, ScheduleRows
<1>2. \A q \in schedules : f[q] \in Schedule /\ KeptRow(f[q], q)
  <2>. TAKE q \in schedules
  <2>1. CASE q \in gone
    BY <1>1, <2>1, CancelledFacts
  <2>2. CASE q \notin gone
    BY <1>1, <2>2 DEF KeptRow
  <2>. QED  BY <2>1, <2>2
<1>3. schedules' = {f[q] : q \in schedules}
  OBVIOUS
<1>4. f \in [schedules -> Schedule]
  BY <1>2
<1>. HIDE DEF f
<1>. QED  BY <1>2, <1>3, <1>4, SchedulesReplaced

LEMMA ClockCancel ==
  ASSUME ScheduleAssumption, ClockInv, NEW s \in schedules, NEW rev, NEW at \in RecordTimes, cancelSchedule(s, rev, at)
  PROVE  ClockInv'
<1>1. /\ {s} \in SUBSET schedules /\ at \in ScheduleTimes
      /\ \A t \in {s} : t.revision < MaxScheduleCounter
      /\ schedules' = (schedules \ {s}) \cup {CancelledRow(t, at) : t \in {s}}
      /\ UNCHANGED <<advances, clock, nextScheduleKey, history>>
  BY DEF cancelSchedule, CanIncrement, CancelledRow, ScheduleAssumption, ScheduleTimes
<1>. QED  BY <1>1, SchedulesCancelled

LEMMA ClockRetire ==
  ASSUME ScheduleAssumption, ClockInv, NEW lane, NEW id, NEW at \in RecordTimes, NEW phase,
         retireAuthority(lane, id, at, phase)
  PROVE  ClockInv'
<1>. DEFINE gone == {s \in ActiveSchedules : s.lane = lane}
<1>1. /\ gone \in SUBSET schedules /\ at \in ScheduleTimes
      /\ \A t \in gone : t.revision < MaxScheduleCounter
      /\ schedules' = (schedules \ gone) \cup {CancelledRow(t, at) : t \in gone}
      /\ UNCHANGED <<advances, clock, nextScheduleKey, history>>
  BY DEF retireAuthority, CanIncrement, CancelledRow, ScheduleAssumption, ScheduleTimes, ActiveSchedules
<1>. HIDE DEF gone
<1>. QED  BY <1>1, SchedulesCancelled

LEMMA ClockPurgeSchedules ==
  ASSUME ScheduleAssumption, ClockInv, schedules' \subseteq schedules,
         UNCHANGED <<advances, clock, nextScheduleKey, history>>
  PROVE  ClockInv'
<1>1. ScheduleRows'
  <2>. IsFiniteSet(schedules')
    BY FS_Subset DEF ClockInv, ScheduleRows
  <2>. QED  BY DEF ClockInv, ScheduleRows, Ticks
<1>2. CursorsAhead'
  BY DEF ClockInv, CursorsAhead, CursorAhead, ActiveSchedules, Ticks, TickOf
<1>3. AdvancesOrdered'
  BY DEF ClockInv, AdvancesOrdered, AdvanceRecord, Ticks, ScheduleTimes
<1>4. HistoryExplains'
  <2>1. HistoryExplains
    BY DEF ClockInv
  <2>2. \A s \in schedules', h \in history : h.schedule = s.key =>
          h.ordinal \in 1 .. s.occurrences /\ h.due = TickOf(s, h.ordinal)
    BY <2>1 DEF HistoryExplains
  <2>3. \A s \in schedules' : \A n \in 1 .. s.occurrences :
          \E h \in history : h.schedule = s.key /\ h.ordinal = n
    BY <2>1 DEF HistoryExplains
  <2>. QED  BY <2>1, <2>2, <2>3 DEF HistoryExplains, TickOf, HistoryRecord
<1>. QED  BY <1>1, <1>2, <1>3, <1>4 DEF ClockInv

LEMMA ClockPurgeAdvances ==
  ASSUME ClockInv, advances' \subseteq advances, UNCHANGED <<schedules, clock, nextScheduleKey, history>>
  PROVE  ClockInv'
<1>1. AdvancesOrdered'
  BY DEF ClockInv, AdvancesOrdered, AdvanceRecord, Ticks, ScheduleTimes
<1>2. ScheduleRows' /\ CursorsAhead'
  BY DEF ClockInv, ScheduleRows, CursorsAhead, CursorAhead, ActiveSchedules, Ticks, TickOf, Schedule
<1>3. HistoryExplains'
  BY DEF ClockInv, HistoryExplains, TickOf, HistoryRecord
<1>. QED  BY <1>1, <1>2, <1>3 DEF ClockInv

LEMMA ClockUntouched ==
  ASSUME ClockInv, UNCHANGED <<schedules, advances, clock, nextScheduleKey, history>>
  PROVE  ClockInv'
  BY ClockPurgeAdvances

LEMMA ClockCreate ==
  ASSUME ScheduleAssumption, ClockInv, NEW id \in ScheduleIds, NEW lane \in Lanes \cup {NoLane}, NEW plan \in Plans,
         NEW due \in Ticks, NEW at \in RecordTimes, createSchedule(id, lane, plan, due, at)
  PROVE  ClockInv'
<1>. DEFINE new == [key |-> nextScheduleKey, id |-> id, lane |-> lane, due |-> due, interval |-> plan.interval,
                    maximum |-> plan.maximum, status |-> "active", revision |-> 1, occurrences |-> 0,
                    nextDue |-> due, recordedAt |-> at, updatedAt |-> at]
<1>0. ScheduleRows /\ CursorsAhead /\ AdvancesOrdered /\ HistoryExplains
  BY DEF ClockInv
<1>1. /\ schedules' = schedules \cup {new} /\ nextScheduleKey' = nextScheduleKey + 1
      /\ UNCHANGED <<advances, clock, history>> /\ nextScheduleKey <= MaxScheduleKey
      /\ (clock # Nil => due > clock)
  BY DEF createSchedule, notMissed
<1>2. new \in Schedule
  <2>1. /\ plan.interval \in Nat /\ plan.maximum \in Nat /\ at \in ScheduleTimes
        /\ nextScheduleKey \in 1 .. MaxScheduleKey
    <3>1. plan \in [interval : Nat, maximum : Nat] /\ at \in ScheduleTimes
      BY DEF ScheduleAssumption, ScheduleTimes
    <3>2. nextScheduleKey \in Nat \ {0} /\ MaxScheduleKey \in Nat
      BY <1>0 DEF ScheduleAssumption, ScheduleRows
    <3>. QED  BY <1>1, <3>1, <3>2
  <2>2. 1 \in Counters /\ 0 \in Counters
    BY DEF ScheduleAssumption, Counters
  <2>. QED  BY <2>1, <2>2 DEF Schedule
<1>3. /\ new.key = nextScheduleKey /\ new.due = due /\ new.nextDue = due /\ new.occurrences = 0
      /\ new.interval = plan.interval /\ new.maximum = plan.maximum
  OBVIOUS
<1>. HIDE DEF new
<1>4. CursorAhead(new) /\ (clock # Nil => new.nextDue > clock)
  <2>1. new.due \in Nat \ {0} /\ new.interval \in Nat
    BY <1>2 DEF Schedule, Ticks, ScheduleAssumption
  <2>2. TickOf(new, 0 + 1) = new.due
    BY <2>1, TickFacts
  <2>3. plan.interval = Nil => plan.maximum = 1
    BY DEF ScheduleAssumption
  <2>4. plan.maximum \in Nat
    BY DEF ScheduleAssumption
  <2>. QED  BY <1>1, <1>3, <2>2, <2>3, <2>4 DEF CursorAhead, Nil
<1>5. ScheduleRows'
  <2>1. IsFiniteSet(schedules')
    BY <1>0, <1>1, FS_AddElement DEF ScheduleRows
  <2>2. \A s \in schedules : s.key \in Nat
    BY <1>0 DEF ScheduleRows, Schedule, ScheduleAssumption
  <2>. QED  BY <1>0, <1>1, <1>2, <1>3, <2>1, <2>2 DEF ScheduleRows, Ticks
<1>6. CursorsAhead'
  BY <1>0, <1>1, <1>4 DEF CursorsAhead, ActiveSchedules, CursorAhead, TickOf, Ticks
<1>7. AdvancesOrdered'
  BY <1>0, <1>1 DEF AdvancesOrdered, AdvanceRecord, Ticks, ScheduleTimes
<1>8. HistoryExplains'
  <2>1. \A h \in history : h.schedule < nextScheduleKey /\ h.schedule \in Nat
    BY <1>0 DEF HistoryExplains, HistoryRecord
  <2>2. nextScheduleKey \in Nat
    BY <1>0 DEF ScheduleRows
  <2>3. \A h \in history : h.schedule < nextScheduleKey' /\ h.schedule # new.key
    BY <1>1, <1>3, <2>1, <2>2
  <2>4. \A s \in schedules', h \in history : h.schedule = s.key =>
          h.ordinal \in 1 .. s.occurrences /\ h.due = TickOf(s, h.ordinal)
    BY <1>0, <1>1, <2>3 DEF HistoryExplains
  <2>5. \A s \in schedules' : \A n \in 1 .. s.occurrences :
          \E h \in history : h.schedule = s.key /\ h.ordinal = n
    <3>. SUFFICES ASSUME NEW s \in schedules', NEW n \in 1 .. s.occurrences
                  PROVE \E h \in history : h.schedule = s.key /\ h.ordinal = n
      OBVIOUS
    <3>1. s \in schedules
      BY <1>1, <1>3
    <3>. QED  BY <1>0, <3>1 DEF HistoryExplains
  <2>. QED  BY <1>0, <1>1, <2>3, <2>4, <2>5 DEF HistoryExplains, TickOf, HistoryRecord
<1>. QED  BY <1>5, <1>6, <1>7, <1>8 DEF ClockInv

-----------------------------------------------------------------------------
(* Advancing. *)

Generated(to) == UNION {dueUntil(s, to) : s \in ActiveSchedules}

LEMMA CursorsGenerated ==
  ASSUME ScheduleAssumption, ClockInv, NEW to \in Ticks,
         NEW len \in [ActiveSchedules -> Nat], \A s \in ActiveSchedules : IsRun(s, to, len[s])
  PROVE  /\ IsFiniteSet(Generated(to))
         /\ \A c : c \in Generated(to) <=>
              \E s \in ActiveSchedules : \E n \in s.occurrences + 1 .. s.occurrences + len[s] : c = CursorOf(s, n)
         /\ \A s \in ActiveSchedules : {c \in Generated(to) : c.schedule = s.key} = CursorsOf(s, len[s])
         /\ \A c \in Generated(to) : c.due \in Nat /\ c.schedule \in Nat /\ c.ordinal \in Nat \ {0}
         /\ \A c, d \in Generated(to) : c.schedule = d.schedule /\ c.ordinal = d.ordinal => c = d
         /\ \A c, d \in Generated(to) : c.due = d.due /\ c.schedule = d.schedule => c = d
<1>. DEFINE G == Generated(to)
            A == ActiveSchedules
<1>1. /\ A \subseteq schedules /\ A \subseteq Schedule /\ IsFiniteSet(A)
      /\ \A s, t \in A : s.key = t.key => s = t
      /\ \A s \in A : CursorAhead(s)
  <2>1. A \subseteq schedules /\ IsFiniteSet(schedules)
    BY DEF ActiveSchedules, ClockInv, ScheduleRows
  <2>2. IsFiniteSet(A)
    BY <2>1, FS_Subset
  <2>. QED  BY <2>1, <2>2 DEF ClockInv, ScheduleRows, CursorsAhead
<1>2. \A s \in A : /\ s.occurrences \in Nat /\ s.key \in Nat /\ s.due \in Nat \ {0} /\ s.interval \in Nat
                   /\ len[s] \in Nat /\ dueUntil(s, to) = CursorsOf(s, len[s])
  BY <1>1 DEF Schedule, Counters, Ticks, ScheduleAssumption, IsRun
<1>3. IsFiniteSet(G)
  <2>. DEFINE f == [s \in A |-> dueUntil(s, to)]
              T == {dueUntil(s, to) : s \in A}
  <2>1. f \in Surjection(A, T)
    BY DEF Surjection
  <2>2. IsFiniteSet(T)
    <3>. HIDE DEF f, T, A
    <3>. QED  BY <1>1, <2>1, FS_Surjection
  <2>3. \A D \in T : IsFiniteSet(D)
    BY <1>2, CursorsCounted
  <2>4. IsFiniteSet(UNION T)
    <3>. HIDE DEF T
    <3>. QED  BY <2>2, <2>3, FS_UNION
  <2>. QED  BY <2>4 DEF Generated
<1>4. \A c : c \in G <=> \E s \in A : c \in CursorsOf(s, len[s])
  BY <1>2 DEF Generated
<1>5. \A c : c \in G <=> \E s \in A : \E n \in s.occurrences + 1 .. s.occurrences + len[s] : c = CursorOf(s, n)
  <2>. HIDE DEF G, A
  <2>. QED  BY <1>4 DEF CursorsOf
<1>. HIDE DEF G, A
<1>6. \A s \in A : {c \in G : c.schedule = s.key} = CursorsOf(s, len[s])
  <2>. TAKE s \in A
  <2>1. ASSUME NEW c \in G, c.schedule = s.key  PROVE c \in CursorsOf(s, len[s])
    <3>1. PICK t \in A : \E n \in t.occurrences + 1 .. t.occurrences + len[t] : c = CursorOf(t, n)
      BY <1>5
    <3>2. c.schedule = t.key
      BY <3>1 DEF CursorOf
    <3>3. t = s
      BY <1>1, <2>1, <3>2
    <3>. QED  BY <3>1, <3>3 DEF CursorsOf
  <2>2. ASSUME NEW c \in CursorsOf(s, len[s])  PROVE c \in G /\ c.schedule = s.key
    BY <1>4 DEF CursorsOf, CursorOf
  <2>. QED  BY <2>1, <2>2
<1>7. \A c \in G : \E s \in A : \E n \in Nat \ {0} : c = CursorOf(s, n) /\ n > s.occurrences /\ n <= s.occurrences + len[s]
  BY <1>2, <1>5
<1>8. \A s \in A, n \in Nat \ {0} :
        /\ CursorOf(s, n).schedule = s.key /\ CursorOf(s, n).ordinal = n /\ CursorOf(s, n).due = TickOf(s, n)
        /\ TickOf(s, n) \in Nat
  BY <1>2, TickFacts DEF CursorOf
<1>9. \A c \in G : c.due \in Nat /\ c.schedule \in Nat /\ c.ordinal \in Nat \ {0}
  BY <1>2, <1>7, <1>8
<1>10. \A c, d \in G : c.schedule = d.schedule => \E s \in A, n, k \in Nat \ {0} :
         /\ c = CursorOf(s, n) /\ d = CursorOf(s, k)
         /\ n > s.occurrences /\ n <= s.occurrences + len[s]
         /\ k > s.occurrences /\ k <= s.occurrences + len[s]
  <2>. TAKE c, d \in G
  <2>. HAVE c.schedule = d.schedule
  <2>1. PICK s \in A, n \in Nat \ {0} : c = CursorOf(s, n) /\ n > s.occurrences /\ n <= s.occurrences + len[s]
    BY <1>7
  <2>2. PICK t \in A, k \in Nat \ {0} : d = CursorOf(t, k) /\ k > t.occurrences /\ k <= t.occurrences + len[t]
    BY <1>7
  <2>3. s = t
    BY <1>1, <1>8, <2>1, <2>2
  <2>. QED  BY <2>1, <2>2, <2>3
<1>11. \A c, d \in G : c.schedule = d.schedule /\ c.ordinal = d.ordinal => c = d
  <2>. TAKE c, d \in G
  <2>. HAVE c.schedule = d.schedule /\ c.ordinal = d.ordinal
  <2>1. PICK s \in A, n, k \in Nat \ {0} : c = CursorOf(s, n) /\ d = CursorOf(s, k)
    BY <1>10
  <2>. QED  BY <1>8, <2>1
<1>12. \A c, d \in G : c.due = d.due /\ c.schedule = d.schedule => c = d
  <2>. TAKE c, d \in G
  <2>. HAVE c.due = d.due /\ c.schedule = d.schedule
  <2>1. PICK s \in A, n, k \in Nat \ {0} :
         /\ c = CursorOf(s, n) /\ d = CursorOf(s, k)
         /\ n > s.occurrences /\ n <= s.occurrences + len[s]
         /\ k > s.occurrences /\ k <= s.occurrences + len[s]
    BY <1>10
  <2>2. TickOf(s, n) = TickOf(s, k)
    BY <1>8, <2>1
  <2>3. CASE s.interval = Nil
    <3>1. s.maximum = 1 /\ s.occurrences + len[s] <= 1
      BY <1>1, <2>3 DEF CursorAhead, IsRun, Nil, A
    <3>2. n = k
      BY <1>2, <2>1, <3>1
    <3>. QED  BY <2>1, <3>2
  <2>4. CASE s.interval # Nil
    <3>1. s.interval >= 1
      BY <1>2, <2>4 DEF Nil
    <3>2. (n < k => TickOf(s, n) < TickOf(s, k)) /\ (k < n => TickOf(s, k) < TickOf(s, n))
      BY <1>2, <3>1, TickFacts
    <3>3. ~(n < k) /\ ~(k < n)
      BY <1>8, <2>2, <3>2
    <3>4. n = k
      BY <3>3
    <3>. QED  BY <2>1, <3>4
  <2>. QED  BY <2>3, <2>4
<1>. QED  BY <1>3, <1>5, <1>6, <1>9, <1>11, <1>12 DEF G, A

LEMMA RunsExist ==
  ASSUME ScheduleAssumption, ClockInv, NEW to \in Ticks
  PROVE  \E len \in [ActiveSchedules -> Nat] : \A s \in ActiveSchedules : IsRun(s, to, len[s])
<1>1. \A s \in ActiveSchedules : \E m \in Nat : IsRun(s, to, m)
  BY DueIsRun DEF ClockInv, ScheduleRows, CursorsAhead, ActiveSchedules
<1>. DEFINE len == [s \in ActiveSchedules |-> CHOOSE m \in Nat : IsRun(s, to, m)]
<1>2. \A s \in ActiveSchedules : len[s] \in Nat /\ IsRun(s, to, len[s])
  BY <1>1
<1>3. len \in [ActiveSchedules -> Nat]
  BY <1>2
<1>. HIDE DEF len
<1>. QED  BY <1>2, <1>3

MineOf(G, s) == {c \in G : c.schedule = s.key}

(* The row of a schedule before and after an advance. *)
Advancing(s, to, at, m, G) ==
  /\ s \in Schedule /\ s.status = "active" /\ CursorAhead(s)
  /\ to \in Ticks /\ at \in ScheduleTimes
  /\ m \in Nat /\ IsRun(s, to, m) /\ MineOf(G, s) = CursorsOf(s, m)
  /\ LET p == advanced(s, G, at)
     IN  p.revision <= MaxScheduleCounter /\ p.occurrences <= MaxScheduleCounter /\ p.nextDue <= MaxTick

Advanced(s, p, to, m) ==
  /\ p \in Schedule
  /\ p.key = s.key /\ p.due = s.due /\ p.interval = s.interval /\ p.maximum = s.maximum
  /\ p.occurrences = s.occurrences + m
  /\ p.status = "active" => CursorAhead(p) /\ p.nextDue > to

LEMMA AdvancedFacts ==
  ASSUME ScheduleAssumption, NEW s, NEW to, NEW at, NEW m, NEW G, Advancing(s, to, at, m, G)
  PROVE  Advanced(s, advanced(s, G, at), to, m)
<1>. DEFINE p == advanced(s, G, at)
<1>0. /\ s \in Schedule /\ s.status = "active" /\ CursorAhead(s)
      /\ to \in Ticks /\ at \in ScheduleTimes
      /\ m \in Nat /\ IsRun(s, to, m) /\ MineOf(G, s) = CursorsOf(s, m)
      /\ p.revision <= MaxScheduleCounter /\ p.occurrences <= MaxScheduleCounter /\ p.nextDue <= MaxTick
  BY DEF Advancing
<1>1. /\ s.occurrences \in Nat /\ s.maximum \in Nat /\ s.interval \in Nat /\ s.due \in Nat \ {0}
      /\ s.revision \in Nat /\ s.nextDue \in Nat /\ MaxTick \in Nat /\ to \in Nat /\ to <= MaxTick /\ Nil = 0
      /\ MaxScheduleCounter \in Nat /\ s.updatedAt \in ScheduleTimes /\ s.nextDue >= 1
      /\ s.nextDue = TickOf(s, s.occurrences + 1)
  BY <1>0 DEF ScheduleAssumption, Schedule, Counters, Ticks, Nil, CursorAhead
<1>2. Cardinality(CursorsOf(s, m)) = m /\ (CursorsOf(s, m) = {} <=> m = 0)
  BY <1>0, <1>1, CursorsCounted, FS_EmptySet
<1>3. CASE m = 0
  <2>1. p = s
    BY <1>0, <1>2, <1>3 DEF advanced, MineOf
  <2>2. s.nextDue > to
    <3>1. s.maximum # Nil => s.occurrences + 0 # s.maximum
      BY <1>0, <1>1 DEF CursorAhead
    <3>2. TickOf(s, s.occurrences + m + 1) > to
      BY <1>0, <1>1, <1>3, <3>1 DEF IsRun
    <3>3. s.occurrences + m + 1 = s.occurrences + 1
      BY <1>1, <1>3
    <3>. QED  BY <1>1, <3>2, <3>3
  <2>. QED  BY <1>0, <1>1, <1>3, <2>1, <2>2 DEF Advanced
<1>4. CASE m # 0
  <2>. DEFINE last == s.occurrences + m
              completed == s.maximum # Nil /\ last >= s.maximum
              next == IF completed THEN Nil ELSE s.nextDue + m * s.interval
              new == [s EXCEPT !.status = IF completed THEN "completed" ELSE "active", !.revision = @ + 1,
                               !.occurrences = last, !.nextDue = next, !.updatedAt = later(@, at)]
  <2>1. p = new
    BY <1>0, <1>2, <1>4 DEF advanced, MineOf
  <2>2. /\ new.key = s.key /\ new.due = s.due /\ new.interval = s.interval /\ new.maximum = s.maximum
        /\ new.occurrences = last /\ new.nextDue = next /\ new.revision = s.revision + 1
        /\ new.status = IF completed THEN "completed" ELSE "active"
    BY <1>0 DEF Schedule
  <2>. DEFINE ahead == TickOf(s, s.occurrences + m + 1)
  <2>3. s.nextDue + m * s.interval = ahead /\ ahead \in Nat \ {0}
    <3>1. s.occurrences + 1 \in Nat \ {0} /\ m \in Nat \ {0} /\ (s.occurrences + 1) + m = s.occurrences + m + 1
      BY <1>0, <1>1, <1>4
    <3>2. TickOf(s, (s.occurrences + 1) + m) = TickOf(s, s.occurrences + 1) + m * s.interval
      BY <1>1, <3>1, TickFacts
    <3>3. TickOf(s, (s.occurrences + 1) + m) \in Nat \ {0}
      <4>. DEFINE k == (s.occurrences + 1) + m
      <4>1. k \in Nat \ {0}
        BY <3>1
      <4>. HIDE DEF k
      <4>2. TickOf(s, k) \in Nat \ {0}
        BY <1>1, <4>1, TickFacts
      <4>. QED  BY <4>2 DEF k
    <3>. QED  BY <1>1, <3>1, <3>2, <3>3
  <2>4. ~completed => ahead > to
    <3>1. s.maximum # Nil => s.occurrences + m = s.maximum \/ ahead > to
      BY <1>0 DEF IsRun
    <3>2. s.maximum = Nil => ahead > to
      BY <1>0 DEF IsRun
    <3>. HIDE DEF ahead
    <3>. QED  BY <1>1, <3>1, <3>2
  <2>. HIDE DEF ahead
  <2>5. next \in Ticks \cup {Nil} /\ (~completed => next \in Ticks /\ next = ahead)
    <3>1. next <= MaxTick
      BY <1>0, <2>1, <2>2
    <3>2. ~completed => next = ahead
      BY <2>3
    <3>. HIDE DEF next
    <3>3. ~completed => next \in Ticks
      BY <1>1, <2>3, <3>1, <3>2 DEF Ticks
    <3>4. completed => next = Nil
      BY DEF next
    <3>. QED  BY <3>2, <3>3, <3>4
  <2>6. s.revision + 1 \in Counters /\ last \in Counters /\ later(s.updatedAt, at) \in ScheduleTimes
    <3>1. s.revision + 1 <= MaxScheduleCounter /\ last <= MaxScheduleCounter
      BY <1>0, <2>1, <2>2
    <3>. QED  BY <1>0, <1>1, <3>1, LaterTime DEF Counters
  <2>. HIDE DEF completed, next
  <2>7. new \in Schedule
    <3>. (IF completed THEN "completed" ELSE "active") \in {"active", "completed", "cancelled"}
      OBVIOUS
    <3>. QED  BY <1>0, <2>5, <2>6 DEF Schedule
  <2>8. new.status = "active" => ~completed
    BY <2>2
  <2>. HIDE DEF new
  <2>9. ~completed => CursorAhead(new) /\ new.nextDue > to
    <3>. HAVE ~completed
    <3>1. next \in Ticks /\ next = ahead /\ ahead > to
      BY <2>4, <2>5
    <3>2. TickOf(new, new.occurrences + 1) = ahead
      <4>1. new.occurrences + 1 = s.occurrences + m + 1
        BY <1>1, <2>2
      <4>. QED  BY <2>2, <4>1, TickOfKept DEF ahead
    <3>3. s.maximum # Nil => last < s.maximum
      BY <1>0, <1>1 DEF completed
    <3>4. s.interval = Nil => s.maximum = 1
      BY <1>0 DEF CursorAhead
    <3>. QED  BY <2>2, <3>1, <3>2, <3>3, <3>4 DEF CursorAhead
  <2>. QED  BY <2>1, <2>2, <2>7, <2>8, <2>9 DEF Advanced
<1>. QED  BY <1>3, <1>4

(* The update of an advance, with the runs it generates. *)
Advances(id, from, to, at, len) ==
  /\ len \in [ActiveSchedules -> Nat]
  /\ \A s \in ActiveSchedules : /\ IsRun(s, to, len[s])
                                 /\ {c \in Generated(to) : c.schedule = s.key} = CursorsOf(s, len[s])
  /\ from < to /\ (clock # Nil => clock = from)
  /\ \A s \in ActiveSchedules :
       LET p == advanced(s, Generated(to), at)
       IN  p.revision <= MaxScheduleCounter /\ p.occurrences <= MaxScheduleCounter /\ p.nextDue <= MaxTick
  /\ schedules' = (schedules \ ActiveSchedules) \cup {advanced(s, Generated(to), at) : s \in ActiveSchedules}
  /\ history' = history \cup
       {[key |-> nextOccurrenceKey + RankOf(Generated(to), c), schedule |-> c.schedule, ordinal |-> c.ordinal,
         due |-> c.due] : c \in Generated(to)}
  /\ advances' = advances \cup {[id |-> id, from |-> from, to |-> to, recordedAt |-> at]}
  /\ clock' = to
  /\ UNCHANGED nextScheduleKey

LEMMA ClockAdvance ==
  ASSUME ScheduleAssumption, ClockInv, nextOccurrenceKey \in Nat,
         NEW id \in AdvanceIds, NEW from \in 0 .. MaxTick, NEW to \in Ticks, NEW at \in RecordTimes,
         NEW len, Advances(id, from, to, at, len)
  PROVE  ClockInv'
<1>. DEFINE G == Generated(to)
            A == ActiveSchedules
            f == [q \in schedules |-> IF q \in A THEN advanced(q, G, at) ELSE q]
<1>0. ScheduleRows /\ CursorsAhead /\ AdvancesOrdered /\ HistoryExplains
  BY DEF ClockInv
<1>1. /\ len \in [A -> Nat]
      /\ \A s \in A : IsRun(s, to, len[s]) /\ {c \in G : c.schedule = s.key} = CursorsOf(s, len[s])
      /\ from < to /\ (clock # Nil => clock = from)
      /\ \A s \in A : LET p == advanced(s, G, at)
                      IN  p.revision <= MaxScheduleCounter /\ p.occurrences <= MaxScheduleCounter /\ p.nextDue <= MaxTick
      /\ schedules' = (schedules \ A) \cup {advanced(s, G, at) : s \in A}
      /\ history' = history \cup
           {[key |-> nextOccurrenceKey + RankOf(G, c), schedule |-> c.schedule, ordinal |-> c.ordinal,
             due |-> c.due] : c \in G}
      /\ advances' = advances \cup {[id |-> id, from |-> from, to |-> to, recordedAt |-> at]}
      /\ clock' = to
      /\ UNCHANGED nextScheduleKey
  BY DEF Advances
<1>2. /\ IsFiniteSet(G)
      /\ \A c : c \in G <=>
              \E s \in A : \E n \in s.occurrences + 1 .. s.occurrences + len[s] : c = CursorOf(s, n)
      /\ \A c \in G : c.due \in Nat /\ c.schedule \in Nat /\ c.ordinal \in Nat \ {0}
      /\ \A c, d \in G : c.schedule = d.schedule /\ c.ordinal = d.ordinal => c = d
      /\ \A c, d \in G : c.due = d.due /\ c.schedule = d.schedule => c = d
  BY <1>1, CursorsGenerated
<1>3. \A c \in G : RankOf(G, c) \in Nat
  <2>. HIDE DEF G
  <2>. QED  BY <1>2, RanksDiffer
<1>4. /\ schedules \subseteq Schedule /\ A \subseteq schedules /\ at \in ScheduleTimes
      /\ \A s \in schedules : s \notin A => s.status # "active"
      /\ \A s \in A : s.status = "active" /\ CursorAhead(s)
  BY <1>0 DEF ActiveSchedules, ScheduleRows, CursorsAhead, ScheduleAssumption, ScheduleTimes
<1>. HIDE DEF G, A
<1>5. \A s \in A :
        LET p == advanced(s, G, at)
        IN  /\ p \in Schedule
            /\ p.key = s.key /\ p.due = s.due /\ p.interval = s.interval /\ p.maximum = s.maximum
            /\ p.occurrences = s.occurrences + len[s]
            /\ p.status = "active" => CursorAhead(p) /\ p.nextDue > to
  <2>. TAKE s \in A
  <2>1. s \in Schedule /\ s.status = "active" /\ CursorAhead(s) /\ at \in ScheduleTimes
    BY <1>4
  <2>2. len[s] \in Nat /\ IsRun(s, to, len[s]) /\ MineOf(G, s) = CursorsOf(s, len[s])
    BY <1>1 DEF MineOf
  <2>3. Advancing(s, to, at, len[s], G)
    BY <1>1, <2>1, <2>2 DEF Advancing
  <2>4. Advanced(s, advanced(s, G, at), to, len[s])
    BY <2>3, AdvancedFacts
  <2>. QED  BY <2>4 DEF Advanced
<1>6. schedules' = {f[q] : q \in schedules}
  BY <1>1, <1>4
<1>7. \A q \in schedules :
        /\ f[q] \in Schedule
        /\ f[q].key = q.key /\ f[q].due = q.due /\ f[q].interval = q.interval
        /\ f[q].occurrences = IF q \in A THEN q.occurrences + len[q] ELSE q.occurrences
        /\ f[q].status = "active" => CursorAhead(f[q]) /\ f[q].nextDue > to
  BY <1>4, <1>5
<1>8. f \in [schedules -> Schedule]
  BY <1>7
<1>. HIDE DEF f
<1>9. \A p \in schedules' : \E q \in schedules : p = f[q]
  BY <1>6
<1>10. ScheduleRows'
  <2>1. IsFiniteSet(schedules')
    <3>. f \in Surjection(schedules, schedules')
      BY <1>6, <1>8 DEF Surjection
    <3>. QED  BY <1>0, FS_Surjection DEF ScheduleRows
  <2>2. \A p, q \in schedules' : p.key = q.key => p = q
    BY <1>0, <1>7, <1>9 DEF ScheduleRows
  <2>3. \A p \in schedules' : p \in Schedule /\ p.key < nextScheduleKey
    BY <1>0, <1>7, <1>9 DEF ScheduleRows
  <2>. QED  BY <1>0, <1>1, <2>1, <2>2, <2>3 DEF ScheduleRows, Ticks
<1>11. CursorsAhead'
  <2>1. \A p \in ActiveSchedules' : CursorAhead(p) /\ p.nextDue > to
    BY <1>7, <1>9 DEF ActiveSchedules
  <2>. QED  BY <1>1, <2>1 DEF CursorsAhead, CursorAhead, Ticks, TickOf
<1>12. AdvancesOrdered'
  <2>. DEFINE new == [id |-> id, from |-> from, to |-> to, recordedAt |-> at]
  <2>1. new \in AdvanceRecord /\ new.from = from /\ new.to = to
    BY <1>4 DEF AdvanceRecord
  <2>2. advances' = advances \cup {new}
    BY <1>1
  <2>. HIDE DEF new
  <2>3. to \in Nat \ {0} /\ from \in Nat /\ MaxTick \in Nat
    BY DEF Ticks, ScheduleAssumption
  <2>4. \A a \in advances : a \in AdvanceRecord /\ a.from \in Nat /\ a.to \in Nat /\ a.from < a.to
    BY <1>0 DEF AdvancesOrdered, AdvanceRecord, Ticks, ScheduleAssumption
  <2>5. \A a \in advances : a.to <= from
    BY <1>0, <1>1 DEF AdvancesOrdered
  <2>6. \A a \in advances' : a \in AdvanceRecord /\ a.from < a.to /\ a.to <= to
    BY <1>1, <2>1, <2>2, <2>3, <2>4, <2>5
  <2>7. \A a, b \in advances' : a # b => a.to <= b.from \/ b.to <= a.from
    BY <1>0, <2>1, <2>2, <2>5 DEF AdvancesOrdered
  <2>8. clock' # Nil
    BY <1>1, <2>3 DEF Nil
  <2>. QED  BY <1>1, <2>6, <2>7, <2>8 DEF AdvancesOrdered, AdvanceRecord, Ticks, ScheduleTimes
<1>13. HistoryExplains'
  <2>. DEFINE new(c) == [key |-> nextOccurrenceKey + RankOf(G, c), schedule |-> c.schedule, ordinal |-> c.ordinal,
                         due |-> c.due]
  <2>1. history' = history \cup {new(c) : c \in G}
    BY <1>1
  <2>2. \A c \in G : /\ new(c) \in HistoryRecord
                     /\ new(c).schedule = c.schedule /\ new(c).ordinal = c.ordinal /\ new(c).due = c.due
    BY <1>2, <1>3 DEF HistoryRecord
  <2>. HIDE DEF new
  <2>3. \A c \in G : \E s \in A : /\ c.schedule = s.key /\ c.due = TickOf(s, c.ordinal)
                                  /\ c.ordinal > s.occurrences /\ c.ordinal <= s.occurrences + len[s]
    <3>. TAKE c \in G
    <3>1. PICK s \in A : \E n \in s.occurrences + 1 .. s.occurrences + len[s] : c = CursorOf(s, n)
      BY <1>2
    <3>2. PICK n \in s.occurrences + 1 .. s.occurrences + len[s] : c = CursorOf(s, n)
      BY <3>1
    <3>3. s.occurrences \in Nat /\ len[s] \in Nat
      BY <1>1, <1>4 DEF Schedule, Counters
    <3>4. c.schedule = s.key /\ c.ordinal = n /\ c.due = TickOf(s, n)
      BY <3>2 DEF CursorOf
    <3>. QED  BY <3>3, <3>4
  <2>4. \A q \in schedules : q.occurrences \in Nat /\ q.key < nextScheduleKey /\ (q \in A => len[q] \in Nat)
    BY <1>0, <1>1, <1>4 DEF Schedule, Counters, ScheduleRows
  <2>5. \A h \in history : \A s \in schedules : h.schedule = s.key =>
          h.ordinal \in Nat \ {0} /\ h.ordinal <= s.occurrences /\ h.due = TickOf(s, h.ordinal)
    BY <1>0, <2>4 DEF HistoryExplains
  <2>6. history' \subseteq HistoryRecord /\ \A h \in history' : h.schedule < nextScheduleKey
    BY <1>0, <1>4, <2>1, <2>2, <2>3, <2>4 DEF HistoryExplains
  <2>7. \A g, h \in history' : g.schedule = h.schedule /\ g.ordinal = h.ordinal => g = h
    <3>1. \A h \in history, c \in G : ~(h.schedule = c.schedule /\ h.ordinal = c.ordinal)
      BY <1>4, <2>3, <2>4, <2>5
    <3>2. \A g, h \in history : g.schedule = h.schedule /\ g.ordinal = h.ordinal => g = h
      BY <1>0 DEF HistoryExplains
    <3>. QED  BY <1>2, <2>1, <2>2, <3>1, <3>2
  <2>8. \A q \in schedules, h \in history' : h.schedule = q.key =>
          h.ordinal \in Nat \ {0} /\ h.ordinal <= f[q].occurrences /\ h.due = TickOf(q, h.ordinal)
    <3>. TAKE q \in schedules, h \in history'
    <3>. HAVE h.schedule = q.key
    <3>1. CASE h \in history
      BY <1>7, <2>4, <2>5, <3>1
    <3>2. CASE h \notin history
      <4>1. PICK c \in G : h = new(c)
        BY <2>1, <3>2
      <4>2. PICK s \in A : /\ c.schedule = s.key /\ c.due = TickOf(s, c.ordinal)
                           /\ c.ordinal > s.occurrences /\ c.ordinal <= s.occurrences + len[s]
        BY <2>3
      <4>3. h.schedule = c.schedule /\ h.ordinal = c.ordinal /\ h.due = c.due /\ c.ordinal \in Nat \ {0}
        BY <1>2, <2>2, <4>1
      <4>4. s = q
        BY <1>0, <1>4, <4>2, <4>3 DEF ScheduleRows
      <4>. QED  BY <1>7, <4>2, <4>3, <4>4
    <3>. QED  BY <3>1, <3>2
  <2>9. \A q \in schedules : \A n \in 1 .. f[q].occurrences :
          \E h \in history' : h.schedule = q.key /\ h.ordinal = n
    <3>. TAKE q \in schedules
    <3>. TAKE n \in 1 .. f[q].occurrences
    <3>1. CASE n <= q.occurrences
      <4>1. n \in 1 .. q.occurrences
        BY <1>7, <2>4, <3>1
      <4>2. \E h \in history : h.schedule = q.key /\ h.ordinal = n
        BY <1>0, <4>1 DEF HistoryExplains
      <4>. QED  BY <2>1, <4>2
    <3>2. CASE n > q.occurrences
      <4>1. q \in A /\ n \in q.occurrences + 1 .. q.occurrences + len[q]
        BY <1>7, <2>4, <3>2
      <4>2. CursorOf(q, n) \in G
        BY <1>2, <4>1
      <4>3. CursorOf(q, n).schedule = q.key /\ CursorOf(q, n).ordinal = n
        BY DEF CursorOf
      <4>4. new(CursorOf(q, n)) \in history'
        BY <2>1, <4>2
      <4>. QED  BY <2>2, <4>2, <4>3, <4>4
    <3>3. q.occurrences \in Nat /\ n \in Int
      BY <2>4
    <3>. QED  BY <3>1, <3>2, <3>3
  <2>10. \A q \in schedules, n \in Nat : TickOf(f[q], n) = TickOf(q, n)
    BY <1>7, TickOfKept
  <2>11. \A p \in schedules', h \in history' : h.schedule = p.key =>
           h.ordinal \in 1 .. p.occurrences /\ h.due = TickOf(p, h.ordinal)
    <3>. TAKE p \in schedules', h \in history'
    <3>. HAVE h.schedule = p.key
    <3>1. PICK q \in schedules : p = f[q]
      BY <1>9
    <3>2. /\ h.ordinal \in Nat \ {0} /\ h.ordinal <= p.occurrences /\ h.due = TickOf(q, h.ordinal)
          /\ TickOf(p, h.ordinal) = TickOf(q, h.ordinal)
      BY <1>7, <2>8, <2>10, <3>1
    <3>3. p.occurrences \in Nat
      BY <1>7, <3>1 DEF Schedule, Counters
    <3>. QED  BY <3>2, <3>3
  <2>12. \A p \in schedules' : \A n \in 1 .. p.occurrences :
           \E h \in history' : h.schedule = p.key /\ h.ordinal = n
    BY <1>7, <1>9, <2>9
  <2>. QED  BY <1>1, <2>6, <2>7, <2>11, <2>12 DEF HistoryExplains, TickOf, HistoryRecord
<1>. QED  BY <1>10, <1>11, <1>12, <1>13 DEF ClockInv

LEMMA AdvanceShape ==
  ASSUME ScheduleAssumption, ClockInv, NEW id \in AdvanceIds, NEW from \in 0 .. MaxTick, NEW to \in Ticks,
         NEW limit, NEW at \in RecordTimes, advance(id, from, to, limit, at)
  PROVE  \E len : Advances(id, from, to, at, len)
<1>1. PICK len \in [ActiveSchedules -> Nat] : \A s \in ActiveSchedules : IsRun(s, to, len[s])
  BY RunsExist
<1>2. \A s \in ActiveSchedules : {c \in Generated(to) : c.schedule = s.key} = CursorsOf(s, len[s])
  BY <1>1, CursorsGenerated
<1>3. /\ from < to /\ (clock # Nil => clock = from)
      /\ \A s \in {advanced(q, Generated(to), at) : q \in ActiveSchedules} :
           s.revision <= MaxScheduleCounter /\ s.occurrences <= MaxScheduleCounter /\ s.nextDue <= MaxTick
      /\ schedules' = (schedules \ ActiveSchedules) \cup {advanced(s, Generated(to), at) : s \in ActiveSchedules}
      /\ history' = history \cup
           {[key |-> nextOccurrenceKey + RankOf(Generated(to), c), schedule |-> c.schedule, ordinal |-> c.ordinal,
             due |-> c.due] : c \in Generated(to)}
      /\ advances' = advances \cup {[id |-> id, from |-> from, to |-> to, recordedAt |-> at]}
      /\ clock' = to
      /\ UNCHANGED nextScheduleKey
  BY DEF advance, Generated, RankOf, clockAt
<1>. QED  BY <1>1, <1>2, <1>3 DEF Advances

-----------------------------------------------------------------------------
(* The occurrences and their deliveries. *)

ReceiptRecord == [key: Nat, token: Tokens, attempt: Nat, revision: Nat]

OccurrenceRows ==
  /\ occurrences \subseteq Occurrence
  /\ nextOccurrenceKey \in Nat \ {0}
  /\ \A o \in occurrences : o.key < nextOccurrenceKey /\ o.attempt < o.revision
  /\ \A o, p \in occurrences : o.key = p.key => o = p

DeliveryRows ==
  /\ deliveries \in [DOMAIN deliveries -> [token: Tokens, expiresAt: ScheduleTimes]]
  /\ completedTokens \in [DOMAIN completedTokens -> Tokens]
  /\ DOMAIN retirements \subseteq Lanes
  /\ receipts \subseteq ReceiptRecord /\ acks \subseteq receipts
  /\ \A rc \in receipts : rc.key < nextOccurrenceKey

(* Of R, nothing of occurrence k was delivered after the delivery of that token. *)
LastIn(R, k, token) ==
  \A rc \in R : rc.key = k /\ rc.token = token => \A r \in R : r.key = k => r.attempt <= rc.attempt

KeysAgree ==
  /\ \A x \in DOMAIN deliveries : \E o \in occurrences : o.status = "pending" /\ o.key = x
  /\ \A x \in DOMAIN completedTokens : \E o \in occurrences : o.status = "completed" /\ o.key = x
  /\ \A o \in occurrences : o.status = "completed" => o.key \in DOMAIN completedTokens
AttemptsCounted == \A o \in occurrences, rc \in receipts : rc.key = o.key => rc.attempt <= o.attempt
HoldersLast == \A k \in DOMAIN deliveries : LastIn(receipts, k, deliveries[k].token)
SettlersLast == \A k \in DOMAIN completedTokens : LastIn(receipts, k, completedTokens[k])
AcksFinal == \A a \in acks, o \in occurrences : a.key = o.key => o.status # "pending"

DeliveryInv ==
  /\ OccurrenceRows /\ DeliveryRows /\ KeysAgree /\ AttemptsCounted
  /\ HoldersLast /\ SettlersLast /\ AcksFinal /\ LastDeliverySettles

LEMMA DeliveryInit == ASSUME ScheduleAssumption, ScheduleInit  PROVE DeliveryInv
<1>1. deliveries = << >> /\ completedTokens = << >> /\ DOMAIN << >> = {}
  BY DEF ScheduleInit
<1>2. \A S : << >> \in [{} -> S]
  OBVIOUS
<1>3. DeliveryRows
  BY <1>1, <1>2 DEF ScheduleInit, DeliveryRows
<1>4. KeysAgree
  BY <1>1 DEF ScheduleInit, KeysAgree
<1>5. OccurrenceRows /\ AttemptsCounted /\ AcksFinal /\ LastDeliverySettles
  BY DEF ScheduleInit, OccurrenceRows, AttemptsCounted, AcksFinal, LastDeliverySettles
<1>6. HoldersLast /\ SettlersLast
  BY <1>1 DEF HoldersLast, SettlersLast
<1>. QED  BY <1>3, <1>4, <1>5, <1>6 DEF DeliveryInv

LEMMA DeliveryUntouched ==
  ASSUME DeliveryInv, UNCHANGED <<occurrences, deliveries, completedTokens, nextOccurrenceKey, receipts, acks>>,
         DOMAIN retirements' \subseteq Lanes
  PROVE  DeliveryInv'
<1>1. OccurrenceRows' /\ KeysAgree' /\ AttemptsCounted'
  BY DEF DeliveryInv, OccurrenceRows, Occurrence, KeysAgree, AttemptsCounted
<1>2. HoldersLast' /\ SettlersLast' /\ AcksFinal' /\ LastDeliverySettles'
  BY DEF DeliveryInv, HoldersLast, SettlersLast, LastIn, AcksFinal, LastDeliverySettles
<1>3. DeliveryRows'
  BY DEF DeliveryInv, DeliveryRows, ReceiptRecord, ScheduleTimes
<1>. QED  BY <1>1, <1>2, <1>3 DEF DeliveryInv

(* Rows that are replaced keep their key and never become pending again. *)
Replaces(p, o) ==
  /\ p \in Occurrence /\ p.key = o.key /\ p.attempt < p.revision /\ p.attempt >= o.attempt
  /\ p = o \/ o.status = "pending"

LEMMA OccurrencesReplaced ==
  ASSUME ScheduleAssumption, OccurrenceRows, AttemptsCounted, AcksFinal, receipts \subseteq ReceiptRecord,
         NEW f, DOMAIN f = occurrences, occurrences' = {f[o] : o \in occurrences},
         \A o \in occurrences : Replaces(f[o], o), UNCHANGED nextOccurrenceKey
  PROVE  /\ OccurrenceRows'
         /\ \A p \in occurrences', rc \in receipts : rc.key = p.key => rc.attempt <= p.attempt
         /\ \A a \in acks, p \in occurrences' : a.key = p.key => p.status # "pending"
<1>1. \A p \in occurrences' : \E o \in occurrences : p = f[o] /\ Replaces(p, o)
  OBVIOUS
<1>2. \A p, q \in occurrences' : p.key = q.key => p = q
  BY <1>1 DEF OccurrenceRows, Replaces
<1>3. \A p \in occurrences' : p \in Occurrence /\ p.key < nextOccurrenceKey /\ p.attempt < p.revision
  BY <1>1 DEF OccurrenceRows, Replaces
<1>4. \A p \in occurrences', rc \in receipts : rc.key = p.key => rc.attempt <= p.attempt
  <2>. TAKE p \in occurrences', rc \in receipts
  <2>. HAVE rc.key = p.key
  <2>1. PICK o \in occurrences : Replaces(p, o)
    BY <1>1
  <2>2. rc.attempt <= o.attempt /\ o.attempt <= p.attempt
    BY <2>1 DEF AttemptsCounted, Replaces
  <2>3. rc.attempt \in Nat /\ o.attempt \in Nat /\ p.attempt \in Nat
    BY <1>3, <2>1 DEF OccurrenceRows, Occurrence, Counters, ReceiptRecord, ScheduleAssumption
  <2>. QED  BY <2>2, <2>3
<1>5. \A a \in acks, p \in occurrences' : a.key = p.key => p.status # "pending"
  BY <1>1 DEF AcksFinal, Replaces
<1>6. OccurrenceRows'
  BY <1>2, <1>3 DEF OccurrenceRows, Occurrence, Counters, Ticks, ScheduleTimes
<1>. QED  BY <1>4, <1>5, <1>6

ClosedRow(o, status, at) == [o EXCEPT !.status = status, !.revision = @ + 1, !.updatedAt = later(@, at)]
FreedRow(o, at) == [o EXCEPT !.revision = @ + 1, !.updatedAt = later(@, at)]
ClaimedRow(o, at) == [o EXCEPT !.revision = @ + 1, !.attempt = @ + 1, !.updatedAt = later(@, at)]

LEMMA RowsUpdated ==
  ASSUME ScheduleAssumption, NEW o \in Occurrence, o.status = "pending", o.attempt < o.revision,
         o.revision < MaxScheduleCounter, NEW at \in ScheduleTimes
  PROVE  /\ Replaces(FreedRow(o, at), o) /\ FreedRow(o, at).status = "pending"
         /\ Replaces(ClaimedRow(o, at), o) /\ ClaimedRow(o, at).status = "pending"
         /\ ClaimedRow(o, at).attempt = o.attempt + 1
         /\ \A status \in {"completed", "cancelled"} :
              Replaces(ClosedRow(o, status, at), o) /\ ClosedRow(o, status, at).status = status
<1>1. /\ later(o.updatedAt, at) \in ScheduleTimes /\ o.revision \in Nat /\ o.attempt \in Nat
      /\ o.revision + 1 \in Counters /\ o.attempt + 1 \in Counters /\ o.attempt + 1 < o.revision + 1
      /\ o.attempt < o.revision + 1 /\ o.attempt <= o.attempt + 1 /\ o.attempt <= o.attempt
  BY LaterTime DEF Occurrence, Counters, ScheduleAssumption
<1>2. /\ FreedRow(o, at) \in Occurrence /\ FreedRow(o, at).key = o.key /\ FreedRow(o, at).status = o.status
      /\ FreedRow(o, at).attempt = o.attempt /\ FreedRow(o, at).revision = o.revision + 1
  BY <1>1 DEF Occurrence, FreedRow
<1>3. /\ ClaimedRow(o, at) \in Occurrence /\ ClaimedRow(o, at).key = o.key /\ ClaimedRow(o, at).status = o.status
      /\ ClaimedRow(o, at).attempt = o.attempt + 1 /\ ClaimedRow(o, at).revision = o.revision + 1
  BY <1>1 DEF Occurrence, ClaimedRow
<1>4. \A status \in {"completed", "cancelled"} :
        /\ ClosedRow(o, status, at) \in Occurrence /\ ClosedRow(o, status, at).key = o.key
        /\ ClosedRow(o, status, at).status = status
        /\ ClosedRow(o, status, at).attempt = o.attempt /\ ClosedRow(o, status, at).revision = o.revision + 1
  BY <1>1 DEF Occurrence, ClosedRow
<1>. QED  BY <1>1, <1>2, <1>3, <1>4 DEF Replaces

LEMMA DeliveryComplete ==
  ASSUME ScheduleAssumption, DeliveryInv, NEW rc \in receipts, NEW o \in occurrences, NEW at \in ScheduleTimes,
         completeOccurrence(rc, o, at)
  PROVE  DeliveryInv'
<1>0. /\ OccurrenceRows /\ DeliveryRows /\ KeysAgree /\ AttemptsCounted
      /\ HoldersLast /\ SettlersLast /\ AcksFinal /\ LastDeliverySettles
  BY DEF DeliveryInv
<1>. DEFINE new == ClosedRow(o, "completed", at)
            f == [q \in occurrences |-> IF q = o THEN new ELSE q]
            k == o.key
<1>1. /\ k = rc.key /\ o.status = "pending" /\ o.revision < MaxScheduleCounter
      /\ k \in DOMAIN deliveries /\ deliveries[k].token = rc.token
      /\ occurrences' = (occurrences \ {o}) \cup {new}
      /\ deliveries' = Unbind(deliveries, {k}) /\ completedTokens' = Bind(completedTokens, k, rc.token)
      /\ acks' = acks \cup {rc}
      /\ UNCHANGED <<retirements, nextOccurrenceKey, receipts>>
  BY DEF completeOccurrence, holdsLease, CanIncrement, ClosedRow
<1>2. Replaces(new, o) /\ new.status = "completed"
  BY <1>0, <1>1, RowsUpdated DEF OccurrenceRows
<1>3. \A q \in occurrences : Replaces(f[q], q)
  <2>. TAKE q \in occurrences
  <2>1. CASE q = o
    BY <1>2, <2>1
  <2>2. CASE q # o
    <3>. q \in Occurrence /\ q.attempt < q.revision /\ q.attempt \in Nat
      BY <1>0 DEF OccurrenceRows, Occurrence, Counters, ScheduleAssumption
    <3>. QED  BY <2>2 DEF Replaces
  <2>. QED  BY <2>1, <2>2
<1>4. DOMAIN f = occurrences /\ occurrences' = {f[q] : q \in occurrences}
  BY <1>1
<1>. HIDE DEF f
<1>5. /\ OccurrenceRows'
      /\ \A p \in occurrences', r \in receipts : r.key = p.key => r.attempt <= p.attempt
      /\ \A a \in acks, p \in occurrences' : a.key = p.key => p.status # "pending"
  BY <1>0, <1>1, <1>3, <1>4, OccurrencesReplaced DEF DeliveryRows
<1>. HIDE DEF new
<1>6. new.key = k /\ \A q \in occurrences : q.key = k <=> q = o
  BY <1>0, <1>2 DEF Replaces, OccurrenceRows
<1>. HIDE DEF k
<1>7. /\ DOMAIN deliveries' = DOMAIN deliveries \ {k}
      /\ \A x \in DOMAIN deliveries' : deliveries'[x] = deliveries[x]
      /\ DOMAIN completedTokens' = DOMAIN completedTokens \cup {k}
      /\ \A x \in DOMAIN completedTokens' : completedTokens'[x] = IF x = k THEN rc.token ELSE completedTokens[x]
  BY <1>1 DEF Unbind, Bind, Restrict
<1>8. DeliveryRows'
  <2>1. rc.token \in Tokens
    BY <1>0 DEF DeliveryRows, ReceiptRecord
  <2>2. deliveries' \in [DOMAIN deliveries' -> [token: Tokens, expiresAt: ScheduleTimes]]
    BY <1>0, <1>1, <1>7 DEF DeliveryRows, Unbind, Restrict
  <2>3. completedTokens' \in [DOMAIN completedTokens' -> Tokens]
    BY <1>0, <1>1, <1>7, <2>1 DEF DeliveryRows, Bind
  <2>. QED  BY <1>0, <1>1, <2>2, <2>3 DEF DeliveryRows, ReceiptRecord, ScheduleTimes
<1>9. KeysAgree'
  <2>1. \A x \in DOMAIN deliveries' : \E p \in occurrences' : p.status = "pending" /\ p.key = x
    BY <1>0, <1>1, <1>6, <1>7 DEF KeysAgree
  <2>2. \A x \in DOMAIN completedTokens' : \E p \in occurrences' : p.status = "completed" /\ p.key = x
    BY <1>0, <1>1, <1>2, <1>6, <1>7 DEF KeysAgree
  <2>3. \A p \in occurrences' : p.status = "completed" => p.key \in DOMAIN completedTokens'
    BY <1>0, <1>1, <1>6, <1>7 DEF KeysAgree
  <2>. QED  BY <2>1, <2>2, <2>3 DEF KeysAgree
<1>10. LastIn(receipts, k, rc.token)
  BY <1>0, <1>1 DEF HoldersLast
<1>11. HoldersLast' /\ SettlersLast'
  BY <1>0, <1>1, <1>7, <1>10 DEF HoldersLast, SettlersLast
<1>12. AttemptsCounted'
  BY <1>1, <1>5 DEF AttemptsCounted
<1>13. AcksFinal'
  <2>1. \A p \in occurrences' : p.key = k => p.status = "completed"
    BY <1>1, <1>2, <1>6
  <2>. QED  BY <1>1, <1>5, <2>1 DEF AcksFinal, k
<1>14. LastDeliverySettles'
  BY <1>0, <1>1, <1>10 DEF LastDeliverySettles, LastIn, k
<1>. QED  BY <1>5, <1>8, <1>9, <1>11, <1>12, <1>13, <1>14 DEF DeliveryInv

LEMMA DeliveryAbandon ==
  ASSUME ScheduleAssumption, DeliveryInv, NEW rc \in receipts, NEW o \in occurrences, NEW at \in ScheduleTimes,
         abandonOccurrence(rc, o, at)
  PROVE  DeliveryInv'
<1>0. /\ OccurrenceRows /\ DeliveryRows /\ KeysAgree /\ AttemptsCounted
      /\ HoldersLast /\ SettlersLast /\ AcksFinal /\ LastDeliverySettles
  BY DEF DeliveryInv
<1>. DEFINE new == FreedRow(o, at)
            f == [q \in occurrences |-> IF q = o THEN new ELSE q]
            k == o.key
<1>1. /\ o.status = "pending" /\ o.revision < MaxScheduleCounter
      /\ occurrences' = (occurrences \ {o}) \cup {new}
      /\ deliveries' = Unbind(deliveries, {k})
      /\ UNCHANGED <<completedTokens, retirements, nextOccurrenceKey, receipts, acks>>
  BY DEF abandonOccurrence, holdsLease, CanIncrement, FreedRow
<1>2. Replaces(new, o) /\ new.status = "pending"
  BY <1>0, <1>1, RowsUpdated DEF OccurrenceRows
<1>3. \A q \in occurrences : Replaces(f[q], q)
  <2>. TAKE q \in occurrences
  <2>1. CASE q = o
    BY <1>2, <2>1
  <2>2. CASE q # o
    <3>. q \in Occurrence /\ q.attempt < q.revision /\ q.attempt \in Nat
      BY <1>0 DEF OccurrenceRows, Occurrence, Counters, ScheduleAssumption
    <3>. QED  BY <2>2 DEF Replaces
  <2>. QED  BY <2>1, <2>2
<1>4. DOMAIN f = occurrences /\ occurrences' = {f[q] : q \in occurrences}
  BY <1>1
<1>. HIDE DEF f
<1>5. /\ OccurrenceRows'
      /\ \A p \in occurrences', r \in receipts : r.key = p.key => r.attempt <= p.attempt
      /\ \A a \in acks, p \in occurrences' : a.key = p.key => p.status # "pending"
  BY <1>0, <1>1, <1>3, <1>4, OccurrencesReplaced DEF DeliveryRows
<1>. HIDE DEF new
<1>6. new.key = k /\ \A q \in occurrences : q.key = k <=> q = o
  BY <1>0, <1>2 DEF Replaces, OccurrenceRows
<1>. HIDE DEF k
<1>7. /\ DOMAIN deliveries' = DOMAIN deliveries \ {k}
      /\ \A x \in DOMAIN deliveries' : deliveries'[x] = deliveries[x]
  BY <1>1 DEF Unbind, Restrict
<1>8. DeliveryRows'
  <2>1. deliveries' \in [DOMAIN deliveries' -> [token: Tokens, expiresAt: ScheduleTimes]]
    BY <1>0, <1>1, <1>7 DEF DeliveryRows, Unbind, Restrict
  <2>. QED  BY <1>0, <1>1, <2>1 DEF DeliveryRows, ReceiptRecord, ScheduleTimes
<1>9. KeysAgree'
  <2>1. \A x \in DOMAIN deliveries' : \E p \in occurrences' : p.status = "pending" /\ p.key = x
    BY <1>0, <1>1, <1>6, <1>7 DEF KeysAgree
  <2>2. \A x \in DOMAIN completedTokens : \E p \in occurrences' : p.status = "completed" /\ p.key = x
    BY <1>0, <1>1, <1>6 DEF KeysAgree
  <2>3. \A p \in occurrences' : p.status = "completed" => p.key \in DOMAIN completedTokens
    BY <1>0, <1>1, <1>2, <1>6 DEF KeysAgree
  <2>. QED  BY <1>1, <2>1, <2>2, <2>3 DEF KeysAgree
<1>10. HoldersLast' /\ SettlersLast' /\ LastDeliverySettles'
  BY <1>0, <1>1, <1>7 DEF HoldersLast, SettlersLast, LastDeliverySettles
<1>11. AttemptsCounted' /\ AcksFinal'
  BY <1>1, <1>5 DEF AttemptsCounted, AcksFinal
<1>. QED  BY <1>5, <1>8, <1>9, <1>10, <1>11 DEF DeliveryInv

LEMMA DeliveryCompleteAgain ==
  ASSUME DeliveryInv, NEW rc \in receipts, NEW o \in occurrences, completeOccurrenceAgain(rc, o)
  PROVE  DeliveryInv'
<1>0. /\ OccurrenceRows /\ DeliveryRows /\ KeysAgree /\ AttemptsCounted
      /\ HoldersLast /\ SettlersLast /\ AcksFinal /\ LastDeliverySettles
  BY DEF DeliveryInv
<1>1. /\ o.key = rc.key /\ o.status = "completed" /\ completedTokens[o.key] = rc.token
      /\ acks' = acks \cup {rc}
      /\ UNCHANGED <<occurrences, deliveries, completedTokens, retirements, nextOccurrenceKey, receipts>>
  BY DEF completeOccurrenceAgain
<1>2. o.key \in DOMAIN completedTokens
  BY <1>0, <1>1 DEF KeysAgree
<1>3. LastIn(receipts, o.key, rc.token)
  BY <1>0, <1>1, <1>2 DEF SettlersLast
<1>4. OccurrenceRows' /\ KeysAgree' /\ AttemptsCounted' /\ HoldersLast' /\ SettlersLast'
  BY <1>0, <1>1 DEF OccurrenceRows, Occurrence, KeysAgree, AttemptsCounted,
     HoldersLast, SettlersLast, LastIn
<1>5. DeliveryRows'
  BY <1>0, <1>1 DEF DeliveryRows, ReceiptRecord, ScheduleTimes
<1>6. \A q \in occurrences : q.key = rc.key => q = o
  BY <1>0, <1>1 DEF OccurrenceRows
<1>7. AcksFinal'
  BY <1>0, <1>1, <1>6 DEF AcksFinal
<1>8. LastDeliverySettles'
  BY <1>0, <1>1, <1>3 DEF LastDeliverySettles, LastIn
<1>. QED  BY <1>4, <1>5, <1>7, <1>8 DEF DeliveryInv

LEMMA DeliveryPurge ==
  ASSUME ScheduleAssumption, DeliveryInv, NEW before, NEW limit, purgeTerminalOccurrences(before, limit)
  PROVE  DeliveryInv'
<1>0. /\ OccurrenceRows /\ DeliveryRows /\ KeysAgree /\ AttemptsCounted
      /\ HoldersLast /\ SettlersLast /\ AcksFinal /\ LastDeliverySettles
  BY DEF DeliveryInv
<1>. DEFINE chosen == Smallest({o \in occurrences : o.status # "pending" /\ o.updatedAt < before}, byKey, limit)
            K == keysOf(chosen)
<1>1. /\ occurrences' = occurrences \ chosen
      /\ deliveries' = Unbind(deliveries, K) /\ completedTokens' = Unbind(completedTokens, K)
      /\ UNCHANGED <<retirements, nextOccurrenceKey, receipts, acks>>
  BY DEF purgeTerminalOccurrences
<1>2. \A o \in chosen : o \in occurrences /\ o.status # "pending"
  BY DEF Smallest
<1>3. \A x : x \in K <=> \E o \in chosen : o.key = x
  BY DEF keysOf
<1>. HIDE DEF chosen, K
<1>4. /\ DOMAIN deliveries' = DOMAIN deliveries \ K
      /\ \A x \in DOMAIN deliveries' : deliveries'[x] = deliveries[x]
      /\ DOMAIN completedTokens' = DOMAIN completedTokens \ K
      /\ \A x \in DOMAIN completedTokens' : completedTokens'[x] = completedTokens[x]
  BY <1>1 DEF Unbind, Restrict
<1>5. OccurrenceRows' /\ AttemptsCounted' /\ AcksFinal' /\ LastDeliverySettles'
  BY <1>0, <1>1 DEF OccurrenceRows, Occurrence, Counters, Ticks, ScheduleTimes, AttemptsCounted, AcksFinal, LastDeliverySettles
<1>6. DeliveryRows'
  <2>1. deliveries' \in [DOMAIN deliveries' -> [token: Tokens, expiresAt: ScheduleTimes]]
    BY <1>0, <1>1, <1>4 DEF DeliveryRows, Unbind, Restrict
  <2>2. completedTokens' \in [DOMAIN completedTokens' -> Tokens]
    BY <1>0, <1>1, <1>4 DEF DeliveryRows, Unbind, Restrict
  <2>. QED  BY <1>0, <1>1, <2>1, <2>2 DEF DeliveryRows, ReceiptRecord, ScheduleTimes
<1>7. HoldersLast' /\ SettlersLast'
  BY <1>0, <1>1, <1>4 DEF HoldersLast, SettlersLast
<1>8. KeysAgree'
  <2>1. \A o \in occurrences : o.key \in K => o \in chosen
    BY <1>0, <1>2, <1>3 DEF OccurrenceRows
  <2>2. \A o \in chosen : o.key \in K
    BY <1>3
  <2>. QED  BY <1>0, <1>1, <1>4, <2>1, <2>2 DEF KeysAgree
<1>. QED  BY <1>5, <1>6, <1>7, <1>8 DEF DeliveryInv

LEMMA DeliveryRetire ==
  ASSUME ScheduleAssumption, DeliveryInv, NEW lane \in Lanes, NEW id, NEW at \in RecordTimes, NEW phase,
         retireAuthority(lane, id, at, phase)
  PROVE  DeliveryInv'
<1>0. /\ OccurrenceRows /\ DeliveryRows /\ KeysAgree /\ AttemptsCounted
      /\ HoldersLast /\ SettlersLast /\ AcksFinal /\ LastDeliverySettles
  BY DEF DeliveryInv
<1>. DEFINE dropped == retiredOccurrences(lane, phase)
            K == keysOf(dropped)
            f == [q \in occurrences |-> IF q \in dropped THEN ClosedRow(q, "cancelled", at) ELSE q]
<1>1. /\ occurrences' = (occurrences \ dropped) \cup {ClosedRow(o, "cancelled", at) : o \in dropped}
      /\ deliveries' = Unbind(deliveries, K)
      /\ retirements' = Bind(retirements, lane, [id |-> id, at |-> at, phase |-> phase])
      /\ \A o \in dropped : o.revision < MaxScheduleCounter
      /\ UNCHANGED <<completedTokens, nextOccurrenceKey, receipts, acks>>
  BY DEF retireAuthority, ClosedRow, CanIncrement
<1>2. \A o \in dropped : o \in occurrences /\ o.status = "pending"
  BY DEF retiredOccurrences, PendingOccurrences
<1>3. \A x : x \in K <=> \E o \in dropped : o.key = x
  BY DEF keysOf
<1>. HIDE DEF dropped, K
<1>4. at \in ScheduleTimes
  BY DEF ScheduleAssumption, ScheduleTimes
<1>5. \A o \in dropped : Replaces(ClosedRow(o, "cancelled", at), o) /\ ClosedRow(o, "cancelled", at).status = "cancelled"
  BY <1>0, <1>1, <1>2, <1>4, RowsUpdated DEF OccurrenceRows
<1>6. \A q \in occurrences : Replaces(f[q], q)
  <2>. TAKE q \in occurrences
  <2>1. CASE q \in dropped
    BY <1>5, <2>1
  <2>2. CASE q \notin dropped
    <3>. q \in Occurrence /\ q.attempt < q.revision /\ q.attempt \in Nat
      BY <1>0 DEF OccurrenceRows, Occurrence, Counters, ScheduleAssumption
    <3>. QED  BY <2>2 DEF Replaces
  <2>. QED  BY <2>1, <2>2
<1>7. DOMAIN f = occurrences /\ occurrences' = {f[q] : q \in occurrences}
  BY <1>1, <1>2
<1>8. \A q \in occurrences : f[q].status = IF q \in dropped THEN "cancelled" ELSE q.status
  BY <1>5
<1>. HIDE DEF f
<1>9. /\ OccurrenceRows'
      /\ \A p \in occurrences', r \in receipts : r.key = p.key => r.attempt <= p.attempt
      /\ \A a \in acks, p \in occurrences' : a.key = p.key => p.status # "pending"
  BY <1>0, <1>1, <1>6, <1>7, OccurrencesReplaced DEF DeliveryRows
<1>10. /\ DOMAIN deliveries' = DOMAIN deliveries \ K
       /\ \A x \in DOMAIN deliveries' : deliveries'[x] = deliveries[x]
  BY <1>1 DEF Unbind, Restrict
<1>11. DeliveryRows'
  <2>1. deliveries' \in [DOMAIN deliveries' -> [token: Tokens, expiresAt: ScheduleTimes]]
    BY <1>0, <1>1, <1>10 DEF DeliveryRows, Unbind, Restrict
  <2>2. DOMAIN retirements' \subseteq Lanes
    BY <1>0, <1>1 DEF DeliveryRows, Bind
  <2>. QED  BY <1>0, <1>1, <2>1, <2>2 DEF DeliveryRows, ReceiptRecord, ScheduleTimes
<1>12. KeysAgree'
  <2>1. \A q \in occurrences : f[q].key = q.key
    BY <1>6 DEF Replaces
  <2>2. \A x \in DOMAIN deliveries' : \E p \in occurrences' : p.status = "pending" /\ p.key = x
    <3>. TAKE x \in DOMAIN deliveries'
    <3>1. PICK q \in occurrences : q.status = "pending" /\ q.key = x
      BY <1>0, <1>10 DEF KeysAgree
    <3>2. q \notin dropped
      BY <1>3, <1>10, <3>1
    <3>3. f[q] \in occurrences' /\ f[q].status = "pending" /\ f[q].key = x
      BY <1>7, <1>8, <2>1, <3>1, <3>2
    <3>. QED  BY <3>3
  <2>3. \A x \in DOMAIN completedTokens : \E p \in occurrences' : p.status = "completed" /\ p.key = x
    <3>. TAKE x \in DOMAIN completedTokens
    <3>1. PICK q \in occurrences : q.status = "completed" /\ q.key = x
      BY <1>0 DEF KeysAgree
    <3>2. f[q] \in occurrences' /\ f[q].status = "completed" /\ f[q].key = x
      BY <1>2, <1>7, <1>8, <2>1, <3>1
    <3>. QED  BY <3>2
  <2>4. \A p \in occurrences' : p.status = "completed" => p.key \in DOMAIN completedTokens
    <3>. TAKE p \in occurrences'
    <3>. HAVE p.status = "completed"
    <3>1. PICK q \in occurrences : p = f[q]
      BY <1>7
    <3>2. q.status = "completed" /\ p.key = q.key
      BY <1>8, <2>1, <3>1
    <3>. QED  BY <1>0, <3>2 DEF KeysAgree
  <2>. QED  BY <1>1, <2>2, <2>3, <2>4 DEF KeysAgree
<1>13. HoldersLast' /\ SettlersLast' /\ LastDeliverySettles'
  BY <1>0, <1>1, <1>10 DEF HoldersLast, SettlersLast, LastDeliverySettles
<1>14. AttemptsCounted' /\ AcksFinal'
  BY <1>1, <1>9 DEF AttemptsCounted, AcksFinal
<1>. QED  BY <1>9, <1>11, <1>12, <1>13, <1>14 DEF DeliveryInv

LEMMA DeliveryClaim ==
  ASSUME ScheduleAssumption, DeliveryInv, NEW lane, NEW now \in ScheduleTimes, NEW expiresAt \in ScheduleTimes, NEW limit,
         claimOccurrences(lane, now, expiresAt, limit)
  PROVE  DeliveryInv'
<1>0. /\ OccurrenceRows /\ DeliveryRows /\ KeysAgree /\ AttemptsCounted
      /\ HoldersLast /\ SettlersLast /\ AcksFinal /\ LastDeliverySettles
  BY DEF DeliveryInv
<1>. DEFINE chosen == claimableOccurrences(lane, now, limit)
            K == keysOf(chosen)
            f == [q \in occurrences |-> IF q \in chosen THEN ClaimedRow(q, now) ELSE q]
<1>1. PICK token \in [K -> Tokens \ {rc.token : rc \in receipts}] :
        /\ IsInjective(token)
        /\ deliveries' = [k \in DOMAIN deliveries \cup DOMAIN token |->
                           IF k \in DOMAIN token THEN [token |-> token[k], expiresAt |-> expiresAt]
                           ELSE deliveries[k]]
        /\ receipts' = receipts \cup {[key |-> o.key, token |-> token[o.key], attempt |-> o.attempt + 1,
                                         revision |-> o.revision + 1] : o \in chosen}
  BY DEF claimOccurrences
<1>2. /\ \A o \in chosen : o.revision < MaxScheduleCounter
      /\ occurrences' = (occurrences \ chosen) \cup {ClaimedRow(o, now) : o \in chosen}
      /\ UNCHANGED <<completedTokens, retirements, nextOccurrenceKey, acks>>
  BY DEF claimOccurrences, ClaimedRow, CanIncrement
<1>3. \A o \in chosen : o \in occurrences /\ o.status = "pending"
  BY DEF claimableOccurrences, Smallest, PendingOccurrences
<1>4. \A x : x \in K <=> \E o \in chosen : o.key = x
  BY DEF keysOf
<1>. HIDE DEF chosen, K
<1>. DEFINE receipt(o) == [key |-> o.key, token |-> token[o.key], attempt |-> o.attempt + 1, revision |-> o.revision + 1]
<1>5. \A o \in chosen : /\ Replaces(ClaimedRow(o, now), o) /\ ClaimedRow(o, now).status = "pending"
                        /\ ClaimedRow(o, now).attempt = o.attempt + 1
  BY <1>0, <1>2, <1>3, RowsUpdated DEF OccurrenceRows
<1>6. \A q \in occurrences : Replaces(f[q], q)
  <2>. TAKE q \in occurrences
  <2>1. CASE q \in chosen
    BY <1>5, <2>1
  <2>2. CASE q \notin chosen
    <3>. q \in Occurrence /\ q.attempt < q.revision /\ q.attempt \in Nat
      BY <1>0 DEF OccurrenceRows, Occurrence, Counters, ScheduleAssumption
    <3>. QED  BY <2>2 DEF Replaces
  <2>. QED  BY <2>1, <2>2
<1>7. DOMAIN f = occurrences /\ occurrences' = {f[q] : q \in occurrences}
  BY <1>2, <1>3
<1>8. \A q \in occurrences : /\ f[q].status = q.status /\ f[q].key = q.key
                             /\ f[q].attempt = IF q \in chosen THEN q.attempt + 1 ELSE q.attempt
  BY <1>3, <1>5, <1>6 DEF Replaces
<1>. HIDE DEF f
<1>9. /\ OccurrenceRows'
      /\ \A p \in occurrences', r \in receipts : r.key = p.key => r.attempt <= p.attempt
      /\ \A a \in acks, p \in occurrences' : a.key = p.key => p.status # "pending"
  BY <1>0, <1>2, <1>6, <1>7, OccurrencesReplaced DEF DeliveryRows
<1>10. /\ DOMAIN deliveries' = DOMAIN deliveries \cup K
       /\ \A x \in DOMAIN deliveries' :
            deliveries'[x] = IF x \in K THEN [token |-> token[x], expiresAt |-> expiresAt] ELSE deliveries[x]
       /\ \A x \in K : token[x] \in Tokens /\ \A rc \in receipts : rc.token # token[x]
  BY <1>1
<1>11. \A x, y \in K : token[x] = token[y] => x = y
  BY <1>1 DEF IsInjective
<1>12. receipts' = receipts \cup {receipt(o) : o \in chosen}
  BY <1>1
<1>13. \A o \in chosen : /\ receipt(o) \in ReceiptRecord /\ receipt(o).key = o.key /\ o.key \in K
                         /\ receipt(o).token = token[o.key] /\ receipt(o).attempt = o.attempt + 1
                         /\ o.key < nextOccurrenceKey /\ o.attempt \in Nat
  <2>. TAKE o \in chosen
  <2>1. o.key \in K /\ token[o.key] \in Tokens
    BY <1>4, <1>10
  <2>2. o.key \in Nat /\ o.attempt + 1 \in Nat /\ o.revision + 1 \in Nat /\ o.key < nextOccurrenceKey /\ o.attempt \in Nat
    BY <1>0, <1>3 DEF OccurrenceRows, Occurrence, Counters, ScheduleAssumption
  <2>. QED  BY <2>1, <2>2 DEF ReceiptRecord
<1>. HIDE DEF receipt
<1>14. DeliveryRows'
  <2>1. deliveries' \in [DOMAIN deliveries' -> [token: Tokens, expiresAt: ScheduleTimes]]
    <3>1. \A x \in DOMAIN deliveries' : deliveries'[x] \in [token: Tokens, expiresAt: ScheduleTimes]
      <4>. TAKE x \in DOMAIN deliveries'
      <4>1. CASE x \in K
        <5>1. token[x] \in Tokens /\ deliveries'[x] = [token |-> token[x], expiresAt |-> expiresAt]
          BY <1>10, <4>1
        <5>. QED  BY <5>1
      <4>2. CASE x \notin K
        <5>1. x \in DOMAIN deliveries /\ deliveries'[x] = deliveries[x]
          BY <1>10, <4>2
        <5>. QED  BY <1>0, <5>1 DEF DeliveryRows
      <4>. QED  BY <4>1, <4>2
    <3>2. deliveries' = [x \in DOMAIN deliveries' |-> deliveries'[x]]
      BY <1>1
    <3>. QED  BY <3>1, <3>2
  <2>2. receipts' \subseteq ReceiptRecord /\ \A rc \in receipts' : rc.key < nextOccurrenceKey
    BY <1>0, <1>12, <1>13 DEF DeliveryRows
  <2>3. acks \subseteq receipts'
    BY <1>0, <1>12 DEF DeliveryRows
  <2>. QED  BY <1>0, <1>2, <2>1, <2>2, <2>3 DEF DeliveryRows, ReceiptRecord, ScheduleTimes
<1>15. KeysAgree'
  <2>1. \A x \in DOMAIN deliveries' : \E p \in occurrences' : p.status = "pending" /\ p.key = x
    <3>. TAKE x \in DOMAIN deliveries'
    <3>1. PICK q \in occurrences : q.status = "pending" /\ q.key = x
      BY <1>0, <1>3, <1>4, <1>10 DEF KeysAgree
    <3>2. f[q] \in occurrences' /\ f[q].status = "pending" /\ f[q].key = x
      BY <1>7, <1>8, <3>1
    <3>. QED  BY <3>2
  <2>2. \A x \in DOMAIN completedTokens : \E p \in occurrences' : p.status = "completed" /\ p.key = x
    <3>. TAKE x \in DOMAIN completedTokens
    <3>1. PICK q \in occurrences : q.status = "completed" /\ q.key = x
      BY <1>0 DEF KeysAgree
    <3>2. f[q] \in occurrences' /\ f[q].status = "completed" /\ f[q].key = x
      BY <1>7, <1>8, <3>1
    <3>. QED  BY <3>2
  <2>3. \A p \in occurrences' : p.status = "completed" => p.key \in DOMAIN completedTokens
    <3>. TAKE p \in occurrences'
    <3>. HAVE p.status = "completed"
    <3>1. PICK q \in occurrences : p = f[q]
      BY <1>7
    <3>2. q.status = "completed" /\ p.key = q.key
      BY <1>8, <3>1
    <3>. QED  BY <1>0, <3>2 DEF KeysAgree
  <2>. QED  BY <1>2, <2>1, <2>2, <2>3 DEF KeysAgree
<1>16. \A o, p \in chosen : o.key = p.key => o = p
  BY <1>0, <1>3 DEF OccurrenceRows
<1>17. AttemptsCounted'
  <2>1. \A p \in occurrences', o \in chosen : receipt(o).key = p.key => receipt(o).attempt <= p.attempt
    <3>. TAKE p \in occurrences', o \in chosen
    <3>. HAVE receipt(o).key = p.key
    <3>1. PICK q \in occurrences : p = f[q]
      BY <1>7
    <3>2. q.key = o.key
      BY <1>8, <1>13, <3>1
    <3>3. q = o
      BY <1>0, <1>3, <3>2 DEF OccurrenceRows
    <3>. QED  BY <1>8, <1>13, <3>1, <3>3
  <2>. QED  BY <1>9, <1>12, <2>1 DEF AttemptsCounted
<1>18. \A o \in chosen, r \in receipts' : r.key = o.key => r.attempt <= o.attempt + 1
  <2>. TAKE o \in chosen, r \in receipts'
  <2>. HAVE r.key = o.key
  <2>1. CASE r \in receipts
    <3>1. r.attempt <= o.attempt
      BY <1>0, <1>3, <2>1 DEF AttemptsCounted
    <3>2. r.attempt \in Nat
      BY <1>0, <2>1 DEF DeliveryRows, ReceiptRecord
    <3>. QED  BY <1>13, <3>1, <3>2
  <2>2. CASE r \notin receipts
    <3>1. PICK p \in chosen : r = receipt(p)
      BY <1>12, <2>2
    <3>2. p = o
      BY <1>13, <1>16, <3>1
    <3>. QED  BY <1>13, <3>1, <3>2
  <2>. QED  BY <2>1, <2>2
<1>19. \A x \in K : LastIn(receipts', x, token[x])
  <2>. TAKE x \in K
  <2>1. PICK o \in chosen : o.key = x
    BY <1>4
  <2>2. ASSUME NEW rc \in receipts', rc.key = x, rc.token = token[x]  PROVE rc.attempt = o.attempt + 1
    <3>1. rc \notin receipts
      BY <1>10, <2>2
    <3>2. PICK p \in chosen : rc = receipt(p)
      BY <1>12, <3>1
    <3>3. p = o
      BY <1>13, <1>16, <2>1, <2>2, <3>2
    <3>. QED  BY <1>13, <3>2, <3>3
  <2>. QED  BY <1>18, <2>1, <2>2 DEF LastIn
<1>20. \A x, t : x \notin K /\ LastIn(receipts, x, t) => LastIn(receipts', x, t)
  <2>1. \A r \in receipts' : r.key \notin K => r \in receipts
    BY <1>12, <1>13
  <2>. QED  BY <2>1 DEF LastIn
<1>21. HoldersLast'
  <2>1. \A x \in DOMAIN deliveries' : x \notin K => x \in DOMAIN deliveries
    BY <1>10
  <2>2. \A x \in DOMAIN deliveries' : LastIn(receipts', x, deliveries'[x].token)
    <3>. TAKE x \in DOMAIN deliveries'
    <3>1. CASE x \in K
      <4>1. deliveries'[x] = [token |-> token[x], expiresAt |-> expiresAt]
        BY <1>10, <3>1
      <4>2. deliveries'[x].token = token[x]
        BY <4>1
      <4>. QED  BY <1>19, <3>1, <4>2
    <3>2. CASE x \notin K
      BY <1>0, <1>10, <1>20, <2>1, <3>2 DEF HoldersLast
    <3>. QED  BY <3>1, <3>2
  <2>. QED  BY <2>2 DEF HoldersLast
<1>22. SettlersLast'
  <2>1. \A x \in DOMAIN completedTokens : x \notin K
    BY <1>0, <1>3, <1>4 DEF KeysAgree, OccurrenceRows
  <2>. QED  BY <1>0, <1>2, <1>20, <2>1 DEF SettlersLast
<1>23. AcksFinal'
  BY <1>2, <1>9 DEF AcksFinal
<1>24. LastDeliverySettles'
  <2>1. \A a \in acks, o \in chosen : a.key # o.key
    BY <1>0, <1>3 DEF AcksFinal
  <2>2. \A a \in acks, rc \in receipts' : a.key = rc.key => rc \in receipts
    BY <1>12, <1>13, <2>1
  <2>. QED  BY <1>0, <1>2, <2>2 DEF LastDeliverySettles
<1>. QED  BY <1>9, <1>14, <1>15, <1>17, <1>21, <1>22, <1>23, <1>24 DEF DeliveryInv

(* The rows an advance adds. *)
OccurrenceOf(id, at, c, s, key) ==
  [key |-> key, schedule |-> c.schedule, lane |-> s.lane, ordinal |-> c.ordinal,
   advance |-> id, due |-> c.due, status |-> "pending", revision |-> 1, attempt |-> 0,
   createdAt |-> at, updatedAt |-> at]

LEMMA DeliveryAdvance ==
  ASSUME ScheduleAssumption, ClockInv, DeliveryInv, NEW id \in AdvanceIds, NEW from \in 0 .. MaxTick, NEW to \in Ticks,
         NEW limit, NEW at \in RecordTimes, advance(id, from, to, limit, at)
  PROVE  DeliveryInv'
<1>0. /\ OccurrenceRows /\ DeliveryRows /\ KeysAgree /\ AttemptsCounted
      /\ HoldersLast /\ SettlersLast /\ AcksFinal /\ LastDeliverySettles
  BY DEF DeliveryInv
<1>. DEFINE G == Generated(to)
            A == ActiveSchedules
            keyOf(c) == nextOccurrenceKey + RankOf(G, c)
<1>1. PICK len \in [A -> Nat] : \A s \in A : IsRun(s, to, len[s])
  BY RunsExist
<1>2. /\ IsFiniteSet(G)
      /\ \A c \in G : c.due \in Nat /\ c.schedule \in Nat /\ c.ordinal \in Nat \ {0}
      /\ \A c, d \in G : c.due = d.due /\ c.schedule = d.schedule => c = d
      /\ \A s \in A : MineOf(G, s) = CursorsOf(s, len[s])
  BY <1>1, CursorsGenerated DEF MineOf
<1>3. /\ Cardinality(G) \in Nat
      /\ \A c \in G : RankOf(G, c) \in Nat /\ RankOf(G, c) < Cardinality(G)
      /\ \A c, d \in G : RankOf(G, c) = RankOf(G, d) => c = d
  <2>. HIDE DEF G
  <2>. QED  BY <1>2, RanksDiffer
<1>4. /\ nextOccurrenceKey + Cardinality(G) <= MaxOccurrenceKey + 1
      /\ \A p \in {advanced(q, G, at) : q \in A} :
           p.revision <= MaxScheduleCounter /\ p.occurrences <= MaxScheduleCounter /\ p.nextDue <= MaxTick
      /\ occurrences' = occurrences \cup
           UNION {{OccurrenceOf(id, at, c, s, keyOf(c)) : c \in dueUntil(s, to)} : s \in A}
      /\ nextOccurrenceKey' = nextOccurrenceKey + Cardinality(G)
      /\ UNCHANGED <<deliveries, completedTokens, retirements, receipts, acks>>
  BY DEF advance, Generated, RankOf, OccurrenceOf
<1>5. \A p \in {advanced(q, G, at) : q \in A} : p.occurrences <= MaxScheduleCounter
  BY <1>4
<1>6. \A s \in A : /\ s \in Schedule /\ s \in schedules /\ s.status = "active" /\ CursorAhead(s)
                   /\ s.occurrences \in Nat /\ len[s] \in Nat
  BY <1>1 DEF ActiveSchedules, ClockInv, ScheduleRows, CursorsAhead, Schedule, Counters
<1>7. at \in ScheduleTimes /\ MaxOccurrenceKey \in Nat /\ MaxScheduleCounter \in Nat \ {0} /\ MaxTick \in Nat
  BY DEF ScheduleAssumption, ScheduleTimes
<1>8. \A s \in A : s.occurrences + len[s] <= MaxScheduleCounter
  <2>. TAKE s \in A
  <2>1. Advancing(s, to, at, len[s], G)
    BY <1>1, <1>2, <1>4, <1>6, <1>7 DEF Advancing
  <2>2. advanced(s, G, at).occurrences = s.occurrences + len[s]
    BY <2>1, AdvancedFacts DEF Advanced
  <2>. QED  BY <1>5, <2>2
<1>9. \A s \in A : \A c \in dueUntil(s, to) :
        /\ c \in G /\ c.schedule = s.key /\ c.ordinal \in Counters /\ c.due \in Ticks
  <2>. TAKE s \in A
  <2>. TAKE c \in dueUntil(s, to)
  <2>1. c \in G /\ c.due <= to
    BY DEF Generated, dueUntil
  <2>2. PICK n \in s.occurrences + 1 .. s.occurrences + len[s] : c = CursorOf(s, n)
    BY <1>1 DEF IsRun, CursorsOf
  <2>3. c.schedule = s.key /\ c.ordinal = n /\ c.due = TickOf(s, n)
    BY <2>2 DEF CursorOf
  <2>4. n \in Nat \ {0} /\ n <= s.occurrences + len[s]
    BY <1>6
  <2>5. c.ordinal \in Counters
    BY <1>6, <1>7, <1>8, <2>3, <2>4 DEF Counters
  <2>6. c.due \in Nat \ {0}
    <3>1. s.due \in Nat \ {0} /\ s.interval \in Nat
      BY <1>6 DEF Schedule, Ticks
    <3>. QED  BY <2>3, <2>4, <3>1, TickFacts
  <2>7. c.due \in Ticks
    BY <1>7, <2>1, <2>6 DEF Ticks
  <2>. QED  BY <2>1, <2>3, <2>5, <2>7
<1>. HIDE DEF G, A
<1>10. \A c \in G : /\ keyOf(c) \in 1 .. MaxOccurrenceKey /\ keyOf(c) \in Nat /\ keyOf(c) >= nextOccurrenceKey
                    /\ keyOf(c) < nextOccurrenceKey'
  BY <1>0, <1>3, <1>4, <1>7 DEF OccurrenceRows
<1>11. \A c, d \in G : keyOf(c) = keyOf(d) => c = d
  BY <1>0, <1>3 DEF OccurrenceRows
<1>. HIDE DEF keyOf
<1>12. \A o \in occurrences' : o \in occurrences \/
         \E s \in A : \E c \in dueUntil(s, to) : o = OccurrenceOf(id, at, c, s, keyOf(c))
  BY <1>4
<1>13. \A s \in A : \A c \in dueUntil(s, to) :
         LET o == OccurrenceOf(id, at, c, s, keyOf(c))
         IN  /\ o \in Occurrence /\ o.key = keyOf(c) /\ o.attempt < o.revision /\ o.status = "pending"
  <2>. TAKE s \in A
  <2>. TAKE c \in dueUntil(s, to)
  <2>1. keyOf(c) \in 1 .. MaxOccurrenceKey /\ c.schedule \in 1 .. MaxScheduleKey /\ s.lane \in Lanes \cup {NoLane}
        /\ c.ordinal \in Counters /\ c.due \in Ticks /\ 1 \in Counters /\ 0 \in Counters
    BY <1>6, <1>7, <1>9, <1>10 DEF Schedule, Counters
  <2>2. OccurrenceOf(id, at, c, s, keyOf(c)) \in Occurrence
    BY <1>7, <2>1 DEF OccurrenceOf, Occurrence
  <2>. QED  BY <2>2 DEF OccurrenceOf
<1>14. \A o \in occurrences' : \/ o \in occurrences
                              \/ /\ o \in Occurrence /\ o.attempt < o.revision /\ o.status = "pending"
                                 /\ o.key >= nextOccurrenceKey /\ o.key < nextOccurrenceKey'
  BY <1>9, <1>10, <1>12, <1>13
<1>15. OccurrenceRows'
  <2>1. nextOccurrenceKey \in Nat \ {0} /\ nextOccurrenceKey' \in Nat \ {0} /\ nextOccurrenceKey <= nextOccurrenceKey'
    BY <1>0, <1>3, <1>4 DEF OccurrenceRows
  <2>2. \A o \in occurrences : o \in Occurrence /\ o.key \in Nat /\ o.key < nextOccurrenceKey /\ o.attempt < o.revision
    BY <1>0 DEF OccurrenceRows, Occurrence, ScheduleAssumption
  <2>3. \A o \in occurrences' : o \in Occurrence /\ o.key < nextOccurrenceKey' /\ o.attempt < o.revision
    BY <1>14, <2>1, <2>2
  <2>4. \A o, p \in occurrences' : o.key = p.key => o = p
    <3>. TAKE o, p \in occurrences'
    <3>. HAVE o.key = p.key
    <3>1. CASE o \in occurrences /\ p \in occurrences
      BY <1>0, <3>1 DEF OccurrenceRows
    <3>2. CASE o \notin occurrences /\ p \notin occurrences
      <4>1. PICK s \in A : \E c \in dueUntil(s, to) : o = OccurrenceOf(id, at, c, s, keyOf(c))
        BY <1>12, <3>2
      <4>2. PICK c \in dueUntil(s, to) : o = OccurrenceOf(id, at, c, s, keyOf(c))
        BY <4>1
      <4>3. PICK t \in A : \E d \in dueUntil(t, to) : p = OccurrenceOf(id, at, d, t, keyOf(d))
        BY <1>12, <3>2
      <4>4. PICK d \in dueUntil(t, to) : p = OccurrenceOf(id, at, d, t, keyOf(d))
        BY <4>3
      <4>5. o.key = keyOf(c) /\ p.key = keyOf(d)
        BY <1>13, <4>2, <4>4
      <4>6. c = d
        BY <1>9, <1>11, <4>5
      <4>7. s.key = t.key
        BY <1>9, <4>6
      <4>8. s = t
        BY <1>6, <4>7 DEF ClockInv, ScheduleRows
      <4>. QED  BY <4>2, <4>4, <4>6, <4>8
    <3>3. CASE o \in occurrences /\ p \notin occurrences
      <4>. p.key \in Nat
        BY <1>14, <3>3 DEF Occurrence, ScheduleAssumption
      <4>. QED  BY <1>14, <2>1, <2>2, <3>3
    <3>4. CASE o \notin occurrences /\ p \in occurrences
      <4>. o.key \in Nat
        BY <1>14, <3>4 DEF Occurrence, ScheduleAssumption
      <4>. QED  BY <1>14, <2>1, <2>2, <3>4
    <3>. QED  BY <3>1, <3>2, <3>3, <3>4
  <2>. QED  BY <2>1, <2>3, <2>4 DEF OccurrenceRows, Occurrence, Counters, Ticks, ScheduleTimes
<1>16. \A rc \in receipts : rc.key \in Nat /\ rc.key < nextOccurrenceKey /\ rc.key < nextOccurrenceKey'
  BY <1>0, <1>3, <1>4 DEF DeliveryRows, ReceiptRecord, OccurrenceRows
<1>17. \A o \in occurrences', rc \in receipts : rc.key = o.key => o \in occurrences
  BY <1>0, <1>14, <1>16 DEF OccurrenceRows
<1>18. DeliveryRows'
  BY <1>0, <1>4, <1>16 DEF DeliveryRows, ReceiptRecord, ScheduleTimes
<1>19. KeysAgree'
  <2>1. occurrences \subseteq occurrences'
    BY <1>4
  <2>2. \A o \in occurrences' : o.status = "completed" => o \in occurrences
    BY <1>14
  <2>. QED  BY <1>0, <1>4, <2>1, <2>2 DEF KeysAgree
<1>20. AttemptsCounted' /\ AcksFinal'
  <2>1. acks \subseteq receipts
    BY <1>0 DEF DeliveryRows
  <2>. QED  BY <1>0, <1>4, <1>17, <2>1 DEF AttemptsCounted, AcksFinal
<1>21. HoldersLast' /\ SettlersLast' /\ LastDeliverySettles'
  BY <1>0, <1>4 DEF HoldersLast, SettlersLast, LastDeliverySettles
<1>. QED  BY <1>15, <1>18, <1>19, <1>20, <1>21 DEF DeliveryInv

-----------------------------------------------------------------------------
ScheduleInv == ClockInv /\ DeliveryInv

LEMMA ScheduleStep ==
  ASSUME ScheduleAssumption, ScheduleInv, [ScheduleNext]_scheduleVars
  PROVE  ScheduleInv'
<1>0. ClockInv /\ DeliveryInv /\ DOMAIN retirements \subseteq Lanes
  BY DEF ScheduleInv, DeliveryInv, DeliveryRows
<1>1. ASSUME NEW id \in ScheduleIds, NEW lane \in Lanes \cup {NoLane}, NEW p \in Plans, NEW due \in Ticks,
             NEW at \in RecordTimes, createSchedule(id, lane, p, due, at)
      PROVE  ScheduleInv'
  <2>1. ClockInv'
    BY <1>0, <1>1, ClockCreate
  <2>2. UNCHANGED <<occurrences, deliveries, completedTokens, nextOccurrenceKey, receipts, acks, retirements>>
    BY <1>1 DEF createSchedule
  <2>. QED  BY <1>0, <2>1, <2>2, DeliveryUntouched DEF ScheduleInv
<1>2. ASSUME NEW s \in schedules, NEW rev \in Counters, NEW at \in RecordTimes, cancelSchedule(s, rev, at)
      PROVE  ScheduleInv'
  <2>1. ClockInv'
    BY <1>0, <1>2, ClockCancel
  <2>2. UNCHANGED <<occurrences, deliveries, completedTokens, nextOccurrenceKey, receipts, acks, retirements>>
    BY <1>2 DEF cancelSchedule
  <2>. QED  BY <1>0, <2>1, <2>2, DeliveryUntouched DEF ScheduleInv
<1>3. ASSUME NEW id \in AdvanceIds, NEW from \in 0 .. MaxTick, NEW to \in Ticks, NEW at \in RecordTimes,
             advance(id, from, to, MaxGenerated, at)
      PROVE  ScheduleInv'
  <2>1. PICK len : Advances(id, from, to, at, len)
    BY <1>0, <1>3, AdvanceShape
  <2>2. nextOccurrenceKey \in Nat
    BY <1>0 DEF DeliveryInv, OccurrenceRows
  <2>3. ClockInv'
    BY <1>0, <2>1, <2>2, ClockAdvance
  <2>4. DeliveryInv'
    BY <1>0, <1>3, DeliveryAdvance
  <2>. QED  BY <2>3, <2>4 DEF ScheduleInv
<1>4. ASSUME NEW lane \in Lanes \cup {NoLane}, NEW now \in ScheduleTimes, NEW exp \in ScheduleTimes, NEW n \in 1 .. MaxClaim,
             claimOccurrences(lane, now, exp, n)
      PROVE  ScheduleInv'
  <2>1. DeliveryInv'
    BY <1>0, <1>4, DeliveryClaim
  <2>2. UNCHANGED <<schedules, advances, clock, nextScheduleKey, history>>
    BY <1>4 DEF claimOccurrences
  <2>. QED  BY <1>0, <2>1, <2>2, ClockUntouched DEF ScheduleInv
<1>5. ASSUME NEW rc \in receipts, NEW o \in occurrences, NEW at \in ScheduleTimes, completeOccurrence(rc, o, at)
      PROVE  ScheduleInv'
  <2>1. DeliveryInv'
    BY <1>0, <1>5, DeliveryComplete
  <2>2. UNCHANGED <<schedules, advances, clock, nextScheduleKey, history>>
    BY <1>5 DEF completeOccurrence
  <2>. QED  BY <1>0, <2>1, <2>2, ClockUntouched DEF ScheduleInv
<1>6. ASSUME NEW rc \in receipts, NEW o \in occurrences, NEW at \in ScheduleTimes, abandonOccurrence(rc, o, at)
      PROVE  ScheduleInv'
  <2>1. DeliveryInv'
    BY <1>0, <1>6, DeliveryAbandon
  <2>2. UNCHANGED <<schedules, advances, clock, nextScheduleKey, history>>
    BY <1>6 DEF abandonOccurrence
  <2>. QED  BY <1>0, <2>1, <2>2, ClockUntouched DEF ScheduleInv
<1>7. ASSUME NEW rc \in receipts, NEW o \in occurrences, completeOccurrenceAgain(rc, o)
      PROVE  ScheduleInv'
  <2>1. DeliveryInv'
    BY <1>0, <1>7, DeliveryCompleteAgain
  <2>2. UNCHANGED <<schedules, advances, clock, nextScheduleKey, history>>
    BY <1>7 DEF completeOccurrenceAgain
  <2>. QED  BY <1>0, <2>1, <2>2, ClockUntouched DEF ScheduleInv
<1>8. ASSUME NEW t \in RecordTimes, NEW n \in 1 .. MaxOccurrenceKey, purgeTerminalOccurrences(t, n)
      PROVE  ScheduleInv'
  <2>1. DeliveryInv'
    BY <1>0, <1>8, DeliveryPurge
  <2>2. UNCHANGED <<schedules, advances, clock, nextScheduleKey, history>>
    BY <1>8 DEF purgeTerminalOccurrences
  <2>. QED  BY <1>0, <2>1, <2>2, ClockUntouched DEF ScheduleInv
<1>9. ASSUME NEW t \in RecordTimes, NEW n \in 1 .. MaxOccurrenceKey, purgeTerminalSchedules(t, n)
      PROVE  ScheduleInv'
  <2>1. schedules' \subseteq schedules /\ UNCHANGED <<advances, clock, nextScheduleKey, history>>
    BY <1>9 DEF purgeTerminalSchedules
  <2>2. UNCHANGED <<occurrences, deliveries, completedTokens, nextOccurrenceKey, receipts, acks, retirements>>
    BY <1>9 DEF purgeTerminalSchedules
  <2>. QED  BY <1>0, <2>1, <2>2, ClockPurgeSchedules, DeliveryUntouched DEF ScheduleInv
<1>10. ASSUME NEW t \in RecordTimes, NEW n \in 1 .. MaxOccurrenceKey, purgeAdvances(t, n)
       PROVE  ScheduleInv'
  <2>1. advances' \subseteq advances /\ UNCHANGED <<schedules, clock, nextScheduleKey, history>>
    BY <1>10 DEF purgeAdvances
  <2>2. UNCHANGED <<occurrences, deliveries, completedTokens, nextOccurrenceKey, receipts, acks, retirements>>
    BY <1>10 DEF purgeAdvances
  <2>. QED  BY <1>0, <2>1, <2>2, ClockPurgeAdvances, DeliveryUntouched DEF ScheduleInv
<1>11. ASSUME NEW lane \in Lanes, NEW id \in RetirementIds, NEW at \in RecordTimes,
              beginAuthorityRetirement(lane, id, at) \/ finalizeAuthorityRetirement(lane, id, at)
       PROVE  ScheduleInv'
  <2>1. retireAuthority(lane, id, at, "fenced") \/ retireAuthority(lane, id, at, "finalized")
    BY <1>11 DEF beginAuthorityRetirement, finalizeAuthorityRetirement
  <2>. QED  BY <1>0, <2>1, ClockRetire, DeliveryRetire DEF ScheduleInv
<1>12. ASSUME UNCHANGED scheduleVars  PROVE ScheduleInv'
  BY <1>0, <1>12, ClockUntouched, DeliveryUntouched DEF scheduleVars, ScheduleInv
<1>. QED  BY <1>1, <1>2, <1>3, <1>4, <1>5, <1>6, <1>7, <1>8, <1>9, <1>10, <1>11, <1>12 DEF ScheduleNext

(* Rows keep their types, no key is used twice, an active schedule's next  *)
(* tick is that of its next ordinal and lies ahead of the clock, and the   *)
(* maps of leases and of settling tokens describe the rows, through every  *)
(* create, advance, claim, settlement, purge and retirement.               *)
THEOREM ScheduleInvariant == ScheduleSpec => []ScheduleInv
<1>1. ScheduleInit => ScheduleInv
  BY ScheduleAssumption, ClockInit, DeliveryInit DEF ScheduleInv
<1>2. ScheduleInv /\ [ScheduleNext]_scheduleVars => ScheduleInv'
  BY ScheduleAssumption, ScheduleStep
<1>. QED  BY <1>1, <1>2, PTL DEF ScheduleSpec

LEMMA HistoryIsRun ==
  ASSUME ScheduleInv
  PROVE  EachOrdinalOnce
<1>1. HistoryExplains /\ ScheduleRows
  BY DEF ScheduleInv, ClockInv
<1>2. ASSUME NEW s \in schedules
      PROVE  {[ordinal |-> g.ordinal, due |-> g.due] : g \in {h \in history : h.schedule = s.key}}
             = {[ordinal |-> n, due |-> s.due + (n - 1) * s.interval] : n \in 1 .. s.occurrences}
  <2>. DEFINE L == {[ordinal |-> g.ordinal, due |-> g.due] : g \in {h \in history : h.schedule = s.key}}
              R == {[ordinal |-> n, due |-> TickOf(s, n)] : n \in 1 .. s.occurrences}
  <2>1. \A h \in history : h.schedule = s.key => h.ordinal \in 1 .. s.occurrences /\ h.due = TickOf(s, h.ordinal)
    BY <1>1 DEF HistoryExplains
  <2>2. L \subseteq R
    BY <2>1
  <2>3. \A n \in 1 .. s.occurrences : \E h \in history : h.schedule = s.key /\ h.ordinal = n
    BY <1>1 DEF HistoryExplains
  <2>4. R \subseteq L
    BY <2>1, <2>3
  <2>5. L = R
    BY <2>2, <2>4
  <2>. QED  BY <2>5 DEF TickOf
<1>3. \A g, h \in history : g.schedule = h.schedule /\ g.ordinal = h.ordinal => g = h
  BY <1>1 DEF HistoryExplains
<1>. QED  BY <1>2, <1>3 DEF EachOrdinalOnce

(* Every ordinal of a schedule becomes exactly one occurrence, at its tick,*)
(* however the clock is advanced and whatever is purged; no tick is missed,*)
(* recorded advances neither overlap nor reach past the clock, and only    *)
(* the last delivery of an occurrence settles it.                          *)
THEOREM OrdinalsOnce == ScheduleSpec => []ScheduledOnce
<1>1. ScheduleInv => ScheduledOnce
  <2>. SUFFICES ASSUME ScheduleInv  PROVE ScheduledOnce
    OBVIOUS
  <2>1. EachOrdinalOnce
    BY HistoryIsRun
  <2>2. NoMissedTick
    BY DEF ScheduleInv, ClockInv, CursorsAhead, NoMissedTick
  <2>3. AdvancesDisjoint
    BY DEF ScheduleInv, ClockInv, AdvancesOrdered, AdvancesDisjoint
  <2>4. LastDeliverySettles
    BY DEF ScheduleInv, DeliveryInv
  <2>. QED  BY <2>1, <2>2, <2>3, <2>4 DEF ScheduledOnce
<1>. QED  BY <1>1, ScheduleInvariant, PTL

(* Rows, leases and tokens have their types, and the maps by occurrence    *)
(* key describe the rows: only pending occurrences are leased, exactly the *)
(* completed ones remember the token that settled them.                    *)
THEOREM ScheduleTypes == ScheduleSpec => [](ScheduleTypeOK /\ DeliveriesAgree)
<1>1. ScheduleInv => ScheduleTypeOK
  BY DEF ScheduleInv, ClockInv, ScheduleRows, AdvancesOrdered, AdvanceRecord, DeliveryInv, OccurrenceRows,
     DeliveryRows, ScheduleTypeOK
<1>2. ScheduleInv => DeliveriesAgree
  <2>. SUFFICES ASSUME ScheduleInv  PROVE DeliveriesAgree
    OBVIOUS
  <2>1. KeysAgree
    BY DEF ScheduleInv, DeliveryInv
  <2>2. DOMAIN deliveries \subseteq keysOf(PendingOccurrences)
    BY <2>1 DEF KeysAgree, keysOf, PendingOccurrences
  <2>3. DOMAIN completedTokens = keysOf({o \in occurrences : o.status = "completed"})
    <3>. DEFINE C == {o \in occurrences : o.status = "completed"}
    <3>1. \A x : x \in keysOf(C) <=> \E o \in C : o.key = x
      BY DEF keysOf
    <3>2. DOMAIN completedTokens \subseteq keysOf(C)
      BY <2>1, <3>1 DEF KeysAgree
    <3>3. keysOf(C) \subseteq DOMAIN completedTokens
      BY <2>1, <3>1 DEF KeysAgree
    <3>. QED  BY <3>2, <3>3
  <2>. QED  BY <2>2, <2>3 DEF DeliveriesAgree
<1>. QED  BY <1>1, <1>2, ScheduleInvariant, PTL
=============================================================================
