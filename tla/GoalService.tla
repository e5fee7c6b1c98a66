----------------------------- MODULE GoalService -----------------------------
(***************************************************************************)
(* Goals advanced by the host from settled Actions.  A worker of the       *)
(* projector takes an Action bound to a step of a Goal, has it verified,   *)
(* advances the Goal and settles the projection in the journal, while      *)
(* players and models update the Goal, authorities are retired, and the    *)
(* process stops anywhere.  Every await of advanceFromHost and update is a *)
(* point where the others may act.                                         *)
(***************************************************************************)
EXTENDS GoalStore

CONSTANTS Workers, Actions

(* A step is completed by an Action or by the model; the fingerprint of an *)
(* advance is never mistaken for none.                                     *)
ASSUME GoalAssumption ==
  /\ IsFiniteSet(GoalIds)
  /\ MaxSteps \in Nat /\ MaxTick \in Nat /\ MaxOpenGoals \in Nat
  /\ MaxGoalKey \in Nat /\ MaxRevision \in Nat
  /\ Actions \subseteq StepEvidence
  /\ NULL \notin Actions \X Nat

VARIABLES
  goalNames,    \* the Goal IDs ever given out
  goalActions,  \* journal: the Action's status, its binding and projection
  workers,      \* what each worker of the projector or caller of update does
  advanced      \* history: the advances in their order, each by an Action, at a revision

serviceVars == <<goals, goalRetirements, nextGoalKey, goalNames, goalActions, workers, advanced>>

Idle == [pc |-> "idle"]
NoBinding == [goal |-> NULL, partition |-> NULL, step |-> 0, revision |-> 0]

(* An Action is admitted with a binding to the step its Goal works on.     *)
admitBound(a, id) ==
  /\ goalActions[a].status = "absent"
  /\ isOpen(goals[id]) /\ goals[id].plan.current
  /\ goalActions' = [goalActions EXCEPT ![a] =
       [status |-> "pending", projection |-> "none",
        binding |-> [goal |-> id, partition |-> goals[id].partition,
                     step |-> Len(goals[id].plan.done) + 1, revision |-> goals[id].revision]]]
  /\ UNCHANGED <<goalVars, goalNames, workers, advanced>>

settleBound(a, status) ==
  /\ goalActions[a].status = "pending"
  /\ goalActions' = [goalActions EXCEPT ![a].status = status]
  /\ UNCHANGED <<goalVars, goalNames, workers, advanced>>

to(w, job) == workers' = [workers EXCEPT ![w] = job]

(* projectPending lists the unsettled projections; the worker keeps a copy *)
(* of the Action for the rest of the pass.                                 *)
projectPending(w, a) ==
  /\ workers[w] = Idle
  /\ goalActions[a].status # "absent" /\ goalActions[a].projection = "none"
  /\ to(w, CASE goalActions[a].status = "failed" -> [pc |-> "dismiss", action |-> a]
             [] goalActions[a].status = "succeeded" -> [pc |-> "advance", action |-> a]
             [] OTHER -> Idle)
  /\ UNCHANGED <<goalVars, goalNames, goalActions, advanced>>

hostFingerprint(a) == <<a, goalActions[a].binding.revision>>
bindingOf(w) == goalActions[workers[w].action].binding

(* Mutant: a replay is recognised by its revision only.                    *)
isReplayByRevision(g, a) == g.revision = goalActions[a].binding.revision + 1

isExactHostAdvanceReplay(g, a) ==
  /\ g.fingerprint = hostFingerprint(a)
  /\ g.revision = goalActions[a].binding.revision + 1
  /\ Len(g.plan.done) >= goalActions[a].binding.step

foundFor(b) == goals[b.goal] # NoGoal /\ goals[b.goal].partition = b.partition

(* advanceFromHost, up to its first read: replayed, refused or verifying.  *)
readForAdvance(w, tick) ==
  LET a == workers[w].action
      b == bindingOf(w)
      g == goals[b.goal]
      current == /\ tick >= g.tick /\ g.revision = b.revision /\ g.status = "active"
                 /\ Len(g.plan.done) + 1 = b.step /\ g.plan.current
  IN  /\ workers[w].pc = "advance"
      /\ to(w, IF ~foundFor(b) THEN Idle
               ELSE IF isExactHostAdvanceReplay(g, a) THEN [pc |-> "settle", action |-> a]
               ELSE IF current THEN [pc |-> "verify", action |-> a, goal |-> g, tick |-> tick]
               ELSE Idle)
      /\ UNCHANGED <<goalVars, goalNames, goalActions, advanced>>

(* The committed input and the evidence are verified, or refused.          *)
verifyAdvance(w) ==
  /\ workers[w].pc = "verify"
  /\ \E accepted \in BOOLEAN : to(w, IF accepted THEN [workers[w] EXCEPT !.pc = "replace"] ELSE Idle)
  /\ UNCHANGED <<goalVars, goalNames, goalActions, advanced>>

completedStep(plan, evidence) ==
  [done |-> Append(plan.done, evidence), current |-> Len(plan.done) + 1 < plan.length,
   length |-> plan.length]

(* The plan as it was read is replaced at the bound revision; over a       *)
(* conflict the Goal is read again, and only an exact replay counts.       *)
replaceAdvanced(w) ==
  LET a == workers[w].action
      b == bindingOf(w)
      plan == completedStep(workers[w].goal.plan, a)
      status == IF Len(plan.done) = plan.length THEN "achieved" ELSE "active"
  IN  /\ workers[w].pc = "replace"
      /\ IF replaceReady(b.goal, b.partition, b.revision)
         THEN /\ b.revision < MaxRevision
              /\ replaceGoal(b.goal, b.partition, b.revision, plan, status,
                             workers[w].tick, hostFingerprint(a))
              /\ advanced' = advanced \cup {[action |-> a, revision |-> goals[b.goal].revision,
                                             order |-> Cardinality(advanced)]}
              /\ to(w, [pc |-> "settle", action |-> a])
         ELSE /\ to(w, IF /\ goalRetirements[b.partition] = NoRetirement /\ foundFor(b)
                          /\ isExactHostAdvanceReplay(goals[b.goal], a)
                       THEN [pc |-> "settle", action |-> a] ELSE Idle)
              /\ UNCHANGED <<goalVars, advanced>>
      /\ UNCHANGED <<goalNames, goalActions>>

(* The journal settles a projection once; a repeated settlement with the   *)
(* same outcome returns the record.                                        *)
settleProjection(w) ==
  /\ workers[w].pc \in {"settle", "dismiss"}
  /\ LET a == workers[w].action IN
     goalActions' = [goalActions EXCEPT ![a].projection =
       IF @ # "none" THEN @
       ELSE IF workers[w].pc = "settle" THEN "advanced" ELSE "source_failed"]
  /\ to(w, Idle)
  /\ UNCHANGED <<goalVars, goalNames, advanced>>

(* update: the Goal is read at the caller's revision, the transition is    *)
(* validated (evidence by the host), and the replacement comes later.      *)
validStatusTransition(from, next, plan) ==
  \/ from = "active" /\ next \in {"active", "paused", "failed", "cancelled"}
  \/ from = "paused" /\ next \in {"paused", "active", "cancelled"}
  \/ from = "active" /\ next = "achieved" /\ plan.length > 0 /\ Len(plan.done) = plan.length

validPlanTransition(g, status, plan) ==
  /\ Len(plan.done) \in {Len(g.plan.done), Len(g.plan.done) + (IF g.plan.current THEN 1 ELSE 0)}
  /\ \A i \in DOMAIN g.plan.done : plan.done[i] = g.plan.done[i]
  /\ \A i \in DOMAIN plan.done \ DOMAIN g.plan.done : plan.done[i] = "model"
  /\ g.status = "paused" /\ status # "active" => plan = g.plan

readForUpdate(w, id, plan, status, tick) ==
  /\ workers[w] = Idle
  /\ isOpen(goals[id]) /\ tick >= goals[id].tick
  /\ validStatusTransition(goals[id].status, status, plan)
  /\ validPlanTransition(goals[id], status, plan)
  /\ to(w, [pc |-> "update", id |-> id, goal |-> goals[id], plan |-> plan,
            status |-> status, tick |-> tick])
  /\ UNCHANGED <<goalVars, goalNames, goalActions, advanced>>

replaceUpdated(w) ==
  LET j == workers[w] IN
  /\ j.pc = "update"
  /\ IF replaceReady(j.id, j.goal.partition, j.goal.revision)
     THEN /\ j.goal.revision < MaxRevision
          /\ replaceGoal(j.id, j.goal.partition, j.goal.revision, j.plan, j.status, j.tick, NULL)
     ELSE UNCHANGED goalVars
  /\ to(w, Idle)
  /\ UNCHANGED <<goalNames, goalActions, advanced>>

(* The process stops, or a signal aborts the call: the worker forgets.     *)
forget(w) ==
  /\ workers[w] # Idle /\ to(w, Idle)
  /\ UNCHANGED <<goalVars, goalNames, goalActions, advanced>>

ServiceInit ==
  /\ GoalInit
  /\ goalNames = {}
  /\ goalActions = [a \in Actions |-> [status |-> "absent", projection |-> "none",
                                       binding |-> NoBinding]]
  /\ workers = [w \in Workers |-> Idle]
  /\ advanced = {}

(* Callers draft plans of full length.                                     *)
Drafts == {p \in Plan : p.length = MaxSteps}

StoreStep(A) == A /\ UNCHANGED <<goalActions, workers, advanced>>

(* create admits no completed step.  Hosts name each Goal after the tool   *)
(* call that makes it: a Goal ID is never given twice, even after a purge. *)
nameGoal(id, partition, plan, tick) ==
  /\ id \notin goalNames /\ goalNames' = goalNames \cup {id}
  /\ plan.done = <<>> /\ createGoal(id, partition, plan, tick)

ServiceNext ==
  \/ \E id \in GoalIds, partition \in Partitions, plan \in Drafts, tick \in Ticks :
       StoreStep(nameGoal(id, partition, plan, tick))
  \/ /\ UNCHANGED goalNames
     /\ \/ \E partition \in Partitions, retirement \in RetirementIds, tick \in Ticks :
            StoreStep(retireGoals(partition, retirement, tick))
        \/ \E batch \in SUBSET GoalIds : StoreStep(purgeGoals(batch))
  \/ \E a \in Actions : \/ \E id \in GoalIds : admitBound(a, id)
                        \/ \E status \in {"succeeded", "failed"} : settleBound(a, status)
  \/ \E w \in Workers :
       \/ \E a \in Actions : projectPending(w, a)
       \/ \E tick \in Ticks : readForAdvance(w, tick)
       \/ verifyAdvance(w) \/ replaceAdvanced(w) \/ settleProjection(w)
       \/ \E id \in GoalIds, plan \in Drafts, status \in GoalStatuses, tick \in Ticks :
            readForUpdate(w, id, plan, status, tick)
       \/ replaceUpdated(w) \/ forget(w)

ServiceSpec == ServiceInit /\ [][ServiceNext]_serviceVars

-----------------------------------------------------------------------------
(* Properties *)

(* However often its projection is retried, after a crash between the      *)
(* advance and the settlement or beside another worker, an Action advances *)
(* its Goal at most once, and only from the revision it was bound to.      *)
AdvancedOnce ==
  /\ \A x, y \in advanced : x.action = y.action => x = y
  /\ \A x \in advanced : x.revision = goalActions[x.action].binding.revision

(* A projection is settled as advanced only if the Action succeeded and    *)
(* did advance its Goal, and as failed only if it never did.               *)
ProjectionTruthful ==
  \A a \in Actions :
    /\ goalActions[a].projection = "advanced" =>
         goalActions[a].status = "succeeded" /\ \E x \in advanced : x.action = a
    /\ goalActions[a].projection = "source_failed" =>
         goalActions[a].status = "failed" /\ \A x \in advanced : x.action # a

(* A retired partition keeps no open Goal, and a call that read the Goal   *)
(* before the retirement cannot bring one back; the open Goals of the      *)
(* owner stay within the bound, and every record passes a load.            *)
RetiredGoalsClosed ==
  /\ \A id \in OpenGoals : goalRetirements[goals[id].partition] = NoRetirement
  /\ Cardinality(OpenGoals) <= MaxOpenGoals
  /\ \A id \in GoalIds : goals[id] # NoGoal => goalLoadable(goals[id])

(* However the projector's workers and the callers of update interleave,   *)
(* stop and retry, all three hold.                                         *)
ActionAdvancesOnce == AdvancedOnce /\ ProjectionTruthful /\ RetiredGoalsClosed
=============================================================================
