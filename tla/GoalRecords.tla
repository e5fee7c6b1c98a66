----------------------------- MODULE GoalRecords -----------------------------
(***************************************************************************)
(* Goals of one owner generation: the record, its plan, and what a create, *)
(* a replacement and a retirement make of it.  A plan is its completed     *)
(* steps (each by the evidence that completed it), whether the next one is *)
(* in progress, and its length; wall-clock times, texts and byte budgets   *)
(* are left out.                                                           *)
(***************************************************************************)
EXTENDS Integers, Sequences, FiniteSets

CONSTANTS
  GoalIds, Partitions, RetirementIds,
  MaxSteps, MaxTick, MaxOpenGoals,
  MaxGoalKey,   \* bounds the goals ever created
  MaxRevision,  \* bounds the revisions of one goal
  StepEvidence, NULL

Ticks == 0..MaxTick
Plan == {p \in [done : UNION {[1..n -> StepEvidence] : n \in 0..MaxSteps},
                current : BOOLEAN, length : 0..MaxSteps] :
           Len(p.done) + (IF p.current THEN 1 ELSE 0) <= p.length}
GoalStatuses == {"active", "paused", "achieved", "failed", "cancelled"}
NoGoal == [status |-> "absent", partition |-> NULL, key |-> 0]
NoRetirement == [id |-> NULL, tick |-> 0, cancelled |-> 0]

isOpen(g) == g.status \in {"active", "paused"}
isTerminal(g) == g.status \in {"achieved", "failed", "cancelled"}

created(partition, key, plan, tick) ==
  [status |-> "active", partition |-> partition, key |-> key, revision |-> 1,
   plan |-> plan, tick |-> tick, fingerprint |-> NULL]

replaced(g, plan, status, tick, fingerprint) ==
  [g EXCEPT !.plan = plan, !.status = status, !.tick = tick,
            !.revision = g.revision + 1, !.fingerprint = fingerprint]

cancelledBy(g, tick) == replaced(g, g.plan, "cancelled", tick, NULL)

(* What a load demands of a record: the shape of its plan and its status.  *)
goalLoadable(g) ==
  /\ g.plan \in Plan /\ g.status \in GoalStatuses /\ g.tick \in Ticks /\ g.revision > 0
  /\ g.status = "achieved" => Len(g.plan.done) = g.plan.length
=============================================================================
