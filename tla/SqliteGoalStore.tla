--------------------------- MODULE SqliteGoalStore ---------------------------
(***************************************************************************)
(* The Goal store of the SQLite authority: a table of rows numbered by an  *)
(* AUTOINCREMENT key with a unique Goal ID, and a table of retirements.    *)
(* Rows are selected by Goal ID and partition, so a Goal ID taken by       *)
(* another partition is found out by the constraint only.                  *)
(***************************************************************************)
EXTENDS GoalRecords

VARIABLES goalRows, goalRetirementRows, goalSequence

goalTables == <<goalRows, goalRetirementRows, goalSequence>>

findGoalRow(id, partition) == {r \in goalRows : r.id = id /\ r.goal.partition = partition}
findRetirementRow(partition) == {r \in goalRetirementRows : r.partition = partition}
openRows == {r \in goalRows : isOpen(r.goal)}

goalOf(id) ==
  IF \E r \in goalRows : r.id = id THEN (CHOOSE r \in goalRows : r.id = id).goal ELSE NoGoal
retirementOf(partition) ==
  IF findRetirementRow(partition) = {} THEN NoRetirement
  ELSE (CHOOSE r \in findRetirementRow(partition) : TRUE).record

Store == INSTANCE GoalStore WITH
  goals <- [id \in GoalIds |-> goalOf(id)],
  goalRetirements <- [p \in Partitions |-> retirementOf(p)],
  nextGoalKey <- goalSequence + 1

(* Mutant: the retirement of the partition is not consulted.               *)
createRowOfRetired(id, partition, plan, tick) ==
  LET row == [id |-> id, goal |-> created(partition, goalSequence + 1, plan, tick)] IN
  /\ Cardinality(openRows) < MaxOpenGoals
  /\ \A r \in goalRows : r.id # id
  /\ goalSequence < MaxGoalKey
  /\ goalRows' = goalRows \cup {row}
  /\ goalSequence' = goalSequence + 1
  /\ UNCHANGED goalRetirementRows

createRow(id, partition, plan, tick) ==
  LET row == [id |-> id, goal |-> created(partition, goalSequence + 1, plan, tick)] IN
  /\ findRetirementRow(partition) = {}
  /\ findGoalRow(id, partition) = {}
  /\ Cardinality(openRows) < MaxOpenGoals
  /\ \A r \in goalRows : r.id # id      \* UNIQUE(owner, timeline, generation, goal_id)
  /\ goalSequence < MaxGoalKey
  /\ goalRows' = goalRows \cup {row}
  /\ goalSequence' = goalSequence + 1
  /\ UNCHANGED goalRetirementRows

retireRows(partition, retirement, tick) ==
  LET rows == {r \in openRows : r.goal.partition = partition} IN
  /\ findRetirementRow(partition) = {}
  /\ Cardinality(rows) <= MaxOpenGoals
  /\ \A r \in rows : r.goal.tick <= tick
  /\ goalRetirementRows' = goalRetirementRows \cup
       {[partition |-> partition,
         record |-> [id |-> retirement, tick |-> tick, cancelled |-> Cardinality(rows)]]}
  /\ goalRows' = (goalRows \ rows) \cup
       {[r EXCEPT !.goal = cancelledBy(r.goal, tick)] : r \in rows}
  /\ UNCHANGED goalSequence

replaceRow(id, partition, revision, plan, status, tick, fingerprint) ==
  /\ findRetirementRow(partition) = {}
  /\ \E r \in findGoalRow(id, partition) :
       /\ r.goal.revision = revision
       /\ goalRows' = (goalRows \ {r}) \cup
            {[r EXCEPT !.goal = replaced(r.goal, plan, status, tick, fingerprint)]}
  /\ UNCHANGED <<goalRetirementRows, goalSequence>>

(* The oldest terminal rows by key, of those that are old enough.          *)
purgeGoalRows(old, limit) ==
  LET candidates == {r \in goalRows : isTerminal(r.goal) /\ r.id \in old}
      batch == {r \in candidates : Cardinality({s \in candidates : s.goal.key < r.goal.key}) < limit}
  IN  /\ batch # {}
      /\ goalRows' = goalRows \ batch
      /\ UNCHANGED <<goalRetirementRows, goalSequence>>

RowsInit == goalRows = {} /\ goalRetirementRows = {} /\ goalSequence = 0

RowsNext ==
  \/ \E id \in GoalIds, partition \in Partitions, plan \in Plan, tick \in Ticks :
       \/ plan.done = <<>> /\ createRow(id, partition, plan, tick)
       \/ \E revision \in 1..(MaxRevision - 1), status \in GoalStatuses :
          \E fingerprint \in {NULL} \cup (StepEvidence \X {revision}) :
            replaceRow(id, partition, revision, plan, status, tick, fingerprint)
  \/ \E partition \in Partitions, retirement \in RetirementIds, tick \in Ticks :
       retireRows(partition, retirement, tick)
  \/ \E old \in SUBSET GoalIds, limit \in {1, 2} : purgeGoalRows(old, limit)
=============================================================================
