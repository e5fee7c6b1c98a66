------------------------------ MODULE GoalStore ------------------------------
(***************************************************************************)
(* The Goal store in memory: a map of records and a map of retirements,    *)
(* each operation one step.                                                *)
(***************************************************************************)
EXTENDS GoalRecords

VARIABLES goals, goalRetirements, nextGoalKey

goalVars == <<goals, goalRetirements, nextGoalKey>>

OpenGoals == {id \in GoalIds : isOpen(goals[id])}
OpenIn(partition) == {id \in OpenGoals : goals[id].partition = partition}

createGoal(id, partition, plan, tick) ==
  /\ goalRetirements[partition] = NoRetirement
  /\ goals[id] = NoGoal
  /\ Cardinality(OpenGoals) < MaxOpenGoals
  /\ nextGoalKey <= MaxGoalKey
  /\ goals' = [goals EXCEPT ![id] = created(partition, nextGoalKey, plan, tick)]
  /\ nextGoalKey' = nextGoalKey + 1
  /\ UNCHANGED goalRetirements

(* All open Goals of the partition are cancelled with its retirement, or   *)
(* nothing is, when the time of one of them is later.                      *)
retireGoals(partition, retirement, tick) ==
  /\ goalRetirements[partition] = NoRetirement
  /\ \A id \in OpenIn(partition) : goals[id].tick <= tick
  /\ goals' = [id \in GoalIds |-> IF id \in OpenIn(partition) THEN cancelledBy(goals[id], tick)
                                  ELSE goals[id]]
  /\ goalRetirements' = [goalRetirements EXCEPT ![partition] =
       [id |-> retirement, tick |-> tick, cancelled |-> Cardinality(OpenIn(partition))]]
  /\ UNCHANGED nextGoalKey

replaceReady(id, partition, revision) ==
  /\ goalRetirements[partition] = NoRetirement
  /\ goals[id] # NoGoal /\ goals[id].partition = partition
  /\ goals[id].revision = revision

replaceGoal(id, partition, revision, plan, status, tick, fingerprint) ==
  /\ replaceReady(id, partition, revision)
  /\ goals' = [goals EXCEPT ![id] = replaced(@, plan, status, tick, fingerprint)]
  /\ UNCHANGED <<goalRetirements, nextGoalKey>>

(* A batch of terminal Goals selected by age.                              *)
purgeGoals(batch) ==
  /\ batch # {} /\ \A id \in batch : isTerminal(goals[id])
  /\ goals' = [id \in GoalIds |-> IF id \in batch THEN NoGoal ELSE goals[id]]
  /\ UNCHANGED <<goalRetirements, nextGoalKey>>

GoalInit ==
  /\ goals = [id \in GoalIds |-> NoGoal]
  /\ goalRetirements = [p \in Partitions |-> NoRetirement]
  /\ nextGoalKey = 1

Fingerprints == {NULL} \cup (StepEvidence \X (1..MaxRevision))

GoalNext ==
  \/ \E id \in GoalIds, partition \in Partitions, plan \in Plan, tick \in Ticks :
       \/ createGoal(id, partition, plan, tick)
       \/ \E status \in GoalStatuses, fingerprint \in Fingerprints :
            /\ goals[id] # NoGoal /\ goals[id].revision < MaxRevision
            /\ replaceGoal(id, partition, goals[id].revision, plan, status, tick, fingerprint)
  \/ \E partition \in Partitions, retirement \in RetirementIds, tick \in Ticks :
       retireGoals(partition, retirement, tick)
  \/ \E batch \in SUBSET GoalIds : purgeGoals(batch)

GoalSpec == GoalInit /\ [][GoalNext]_goalVars
=============================================================================
