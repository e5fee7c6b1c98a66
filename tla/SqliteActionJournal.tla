------------------------- MODULE SqliteActionJournal -------------------------
(***************************************************************************)
(* The Action journal of the SQLite authority.  A row keeps the canonical  *)
(* record beside the columns it is selected by; the conflict table has one *)
(* row per owned key, and inserting a key that is owned fails the whole    *)
(* transaction.  Every operation is one immediate transaction.             *)
(***************************************************************************)
EXTENDS Integers, FiniteSets

CONSTANTS Operations, Streams, Runs, Keys, StreamOf, RunOf, PolicyOf, ConflictKeysOf,
          GoalBound, MaxPendingGoals, CandidateLimit, MaxTokens, MaxAdmissions, NoOwner, AnyRun

VARIABLES
  journalRows,    \* table action_records
  conflictRows,   \* table action_conflicts: the pairs of a key and its owner
  actionSequence, \* AUTOINCREMENT of action_records
  tokens, closed, lapsed, issued, recovering, effects, fenced

journalTables == <<journalRows, conflictRows, actionSequence>>
surroundings == <<tokens, closed, lapsed, issued, recovering, effects, fenced>>
sqliteVars == <<journalTables, surroundings>>

rowsOf(op) == {r \in journalRows : r.op = op}

Journal == INSTANCE ActionJournal WITH
  records <- [op \in Operations |->
    IF rowsOf(op) = {} THEN [status |-> "absent", attempt |-> 0, sequence |-> 0,
                             claim |-> [token |-> 0, attempt |-> 0],
                             receipt |-> [token |-> 0, attempt |-> 0, outcome |-> "none"],
                             goal |-> "none"]
    ELSE (CHOOSE r \in rowsOf(op) : TRUE).record],
  conflicts <- [k \in Keys |-> IF \E c \in conflictRows : c.key = k
                               THEN (CHOOSE c \in conflictRows : c.key = k).op ELSE NoOwner],
  admissions <- actionSequence

-----------------------------------------------------------------------------
(* Rows *)

rowOf(op, record) ==
  [op |-> op, sequence |-> record.sequence, status |-> record.status, attempt |-> record.attempt,
   claim |-> record.claim.token, settled |-> record.goal # "none", record |-> record]

updateRecord(rows, op, record) == {r \in rows : r.op # op} \cup {rowOf(op, record)}

selectRows(rows, stream, run) == {r \in rows : Journal!InScope(r.op, stream, run)}
firstRows(S, n) == {r \in S : Cardinality({s \in S : s.sequence < r.sequence}) < n}
firstRow(S) == firstRows(S, 1)

isRunOpen(r) == RunOf[r.op] \notin closed

keysOf(op) == [key : ConflictKeysOf[op], op : {op}]
canAcquire(c, op) == \A o \in c : o.key \in ConflictKeysOf[op] => o.op = op
insertable(c, op) == \A o \in c : o.key \notin ConflictKeysOf[op]

-----------------------------------------------------------------------------
(* Operations *)

pendingGoalRows(stream) == {r \in selectRows(journalRows, stream, AnyRun) : r.op \in GoalBound /\ ~r.settled}

ensure(op) ==
  /\ rowsOf(op) = {}
  /\ op \in GoalBound => Cardinality(pendingGoalRows(StreamOf[op])) < MaxPendingGoals
  /\ RunOf[op] \notin closed
  /\ actionSequence < MaxAdmissions
  /\ actionSequence' = actionSequence + 1
  /\ journalRows' = journalRows \cup {rowOf(op, Journal!Unclaimed("pending", actionSequence + 1))}
  /\ UNCHANGED <<conflictRows, surroundings>>

selectOldestUnsettled(rows, stream, run, except) ==
  firstRow({r \in selectRows(rows, stream, run) :
              r.status \in {"claimed", "uncertain"} /\ r.op \notin except})

recoverDelivery(stream) ==
  /\ \E r \in selectOldestUnsettled(journalRows, stream, AnyRun, {}) :
       recovering' = recovering \cup {r.claim}
  /\ UNCHANGED <<journalTables, tokens, closed, lapsed, issued, effects, fenced>>

(* Pending rows whose run's scope has a closure, by the authority's index. *)
retireClosedPending(stream) ==
  firstRows({r \in selectRows(journalRows, stream, AnyRun) :
               r.status = "pending" /\ ~isRunOpen(r)}, CandidateLimit)

(* ORDER BY claim_expires_at: any CandidateLimit of the lapsed claims.     *)
dueRows(rows, stream, run) ==
  LET expired == {r \in selectRows(rows, stream, run) : r.status = "claimed" /\ r.claim \in lapsed}
  IN  {due \in SUBSET expired :
         Cardinality(due) = IF Cardinality(expired) < CandidateLimit
                            THEN Cardinality(expired) ELSE CandidateLimit}

claimPendingRecord(rows, c, stream, run, replayable) ==
  firstRow({r \in firstRows({s \in selectRows(rows, stream, run) :
                               s.status = "pending" \/ s.op \in replayable}, CandidateLimit) :
              isRunOpen(r) /\ canAcquire(c, r.op)})

deliver(rows, c, S) ==
  \E r \in S : /\ journalRows' = rows /\ conflictRows' = c
               /\ recovering' = recovering \cup {r.claim}
               /\ UNCHANGED <<tokens, issued>>

claimRow(rows, c, r) ==
  LET freed == IF r.status = "claimed" THEN c \ keysOf(r.op) ELSE c
      record == Journal!claimActionRecord(r.record, tokens + 1)
  IN  /\ tokens < MaxTokens /\ insertable(freed, r.op)
      /\ tokens' = tokens + 1
      /\ journalRows' = updateRecord(rows, r.op, record)
      /\ conflictRows' = freed \cup keysOf(r.op)
      /\ issued' = issued \cup {[op |-> r.op, token |-> tokens + 1, attempt |-> record.attempt,
                                 sequence |-> r.sequence]}
      /\ UNCHANGED recovering

nextDelivery(stream, run) ==
  LET retired == retireClosedPending(stream)
      afterRetire == (journalRows \ retired) \cup
        {rowOf(r.op, Journal!retirePendingActionRecord(r.record)) : r \in retired}
      conflictsLeft == conflictRows \ UNION {keysOf(r.op) : r \in retired}
  IN  /\ \E due \in dueRows(afterRetire, stream, run) :
           LET replayable == {r.op : r \in {x \in due : PolicyOf[x.op] = "safe" /\ isRunOpen(x)}}
               expired == {r \in due : r.op \notin replayable}
               rows == (afterRetire \ expired) \cup
                 {rowOf(r.op, Journal!expireActionRecord(r.record)) : r \in expired}
               unsettled == selectOldestUnsettled(rows, stream, run, replayable)
               claimable == claimPendingRecord(rows, conflictsLeft, stream, run, replayable)
               waiting == selectOldestUnsettled(rows, stream, run, {})
           IN  IF unsettled # {} THEN deliver(rows, conflictsLeft, unsettled)
               ELSE IF claimable # {} THEN \E r \in claimable : claimRow(rows, conflictsLeft, r)
               ELSE IF waiting # {} THEN deliver(rows, conflictsLeft, waiting)
               ELSE /\ journalRows' = rows /\ conflictRows' = conflictsLeft
                    /\ UNCHANGED <<tokens, issued, recovering>>
      /\ UNCHANGED <<actionSequence, closed, lapsed, effects, fenced>>

settleRow(r, record, released) ==
  /\ journalRows' = updateRecord(journalRows, r.op, record)
  /\ conflictRows' = IF released THEN conflictRows \ keysOf(r.op) ELSE conflictRows
  /\ UNCHANGED <<actionSequence, surroundings>>

recordReceipt(d, outcome) ==
  \E r \in rowsOf(d.op) :
    LET record == Journal!receiptActionRecord(r.record, Journal!ClaimOf(d), outcome)
    IN  /\ Journal!Honest(d, outcome)
        /\ Journal!CanRecordReceipt(r.record, Journal!ClaimOf(d))
        /\ settleRow(r, record, ~Journal!Held(record))

reconcile(d, resolution) ==
  \E r \in rowsOf(d.op) :
    LET answer == Journal!reconcileActionRecord(d.op, Journal!ClaimOf(d), resolution)
        released == ~Journal!IsReplay(r.record, answer.receipt) /\ ~Journal!Held(answer)
    IN  /\ d.token \in recovering
        /\ Journal!Honest(d, Journal!outcomeOf(resolution))
        /\ Journal!CanReconcile(r.record, Journal!ClaimOf(d), resolution)
        /\ settleRow(r, IF answer.status = "pending" /\ ~isRunOpen(r)
                        THEN Journal!retirePendingActionRecord(answer) ELSE answer, released)

settleGoalProjection(op, outcome) ==
  \E r \in rowsOf(op) :
    /\ op \in GoalBound /\ ~r.settled
    /\ \/ outcome = "advanced" /\ r.record.status = "succeeded" /\ r.record.receipt.outcome = "succeeded"
       \/ outcome = "source_failed" /\ Journal!isActionSourceFailed(r.record)
    /\ settleRow(r, [r.record EXCEPT !.goal = outcome], FALSE)

purgeTerminal(stream, batch) ==
  LET rows == {r \in selectRows(journalRows, stream, AnyRun) : r.op \in batch} IN
  /\ batch # {} /\ {r.op : r \in rows} = batch
  /\ \A r \in rows : r.status \in {"succeeded", "failed"} /\ (r.op \in GoalBound => r.settled)
  /\ journalRows' = journalRows \ rows
  /\ UNCHANGED <<conflictRows, actionSequence, surroundings>>

-----------------------------------------------------------------------------
RowsInit ==
  /\ journalRows = {} /\ conflictRows = {} /\ actionSequence = 0 /\ tokens = 0
  /\ closed = {} /\ lapsed = {} /\ issued = {} /\ recovering = {} /\ effects = {} /\ fenced = {}

Around(A) == UNCHANGED journalTables /\ A

RowsNext ==
  \/ \E op \in Operations : \/ ensure(op)
                             \/ \E outcome \in {"advanced", "source_failed"} : settleGoalProjection(op, outcome)
  \/ \E stream \in Streams :
       \/ recoverDelivery(stream)
       \/ \E run \in Runs \cup {AnyRun} : nextDelivery(stream, run)
       \/ \E batch \in SUBSET Operations : purgeTerminal(stream, batch)
  \/ \E d \in issued :
       \/ \E outcome \in Journal!Outcomes : recordReceipt(d, outcome)
       \/ \E resolution \in Journal!Resolutions : reconcile(d, resolution)
       \/ Around(Journal!Lapse(d)) \/ Around(Journal!GameCommit(d)) \/ Around(Journal!GameRefuse(d))
  \/ \E run \in Runs : Around(Journal!closeAuthority(run))

(* The columns a row is selected by are those of its record, the record is *)
(* one that assertActionRecord accepts, and no key has two owners.         *)
JournalRowsLoadable ==
  /\ \A r \in journalRows : r = rowOf(r.op, r.record)
  /\ Journal!RecordsLoadable
  /\ \A x, y \in conflictRows : x.key = y.key => x = y
=============================================================================
