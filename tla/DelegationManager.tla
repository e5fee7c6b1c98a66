-------------------------- MODULE DelegationManager --------------------------
(***************************************************************************)
(* DelegationManager of one process over the delegation store: run() calls *)
(* of tools and of recover(), cancellations and renewals.  Every await of  *)
(* run() is a step boundary, and whatever it awaits (the store, the        *)
(* runtime, the game's clock and outcome callbacks) may reject.  The child *)
(* agent is run by the game runtime, which accepts an input once:          *)
(* submitting it again answers with the same run.  A worker of another     *)
(* process is a claim under another owner.                                 *)
(***************************************************************************)
EXTENDS DelegationStore

CONSTANTS
  Calls,             \* run() invocations that may be in progress at once
  NoCall,
  Here,              \* this process's worker id
  MaxActiveRuns,
  TargetOf,          \* delegation -> the actor that runs it
  ChildRun,          \* delegation -> id of the run its input gets
  Changed            \* delegations whose recorded target may differ from the registered one

failureCodes ==
  {"target_configuration_changed", "child_aborted", "child_failed", "result_unavailable", "executor_failed"}

ASSUME ManagerAssumption ==
  /\ failureCodes \subseteq Codes /\ None \notin failureCodes
  /\ IsFiniteSet(Calls) /\ IsFiniteSet(Ids)
  /\ Here \in Owners
  /\ ChildRun \in [Ids -> ChildRuns]

VARIABLES
  call,              \* per call: where it is, its delegation, token and flags
  activeTasks,       \* delegation -> call registered as its active run, or NoCall
  starting,          \* reservations
  child,             \* delegation -> state of its run in the runtime
  cancelling         \* delegations cancelled in the store whose run is not yet looked up

managerVars == <<call, activeTasks, starting, child, cancelling>>
allVars == <<delegationVars, managerVars>>

Idle == [pc |-> "idle", id |-> NoCall, token |-> 0, reserved |-> FALSE, handle |-> FALSE, aborted |-> FALSE,
         revision |-> 0, result |-> "none"]
recordOf(id) == {r \in records : r.id = id}
To(c, pc) == call' = [call EXCEPT ![c].pc = pc]
At(c, pc) == call[c].pc = pc

\* Inside the catch block, whose own errors are swallowed.
catching(c) == call[c].pc \in {"aborted", "cancel", "lookup", "giveBack", "failing"}

\* A DelegationLeaseError: the caller's own abort turns it into a
\* cancellation of the task.
leaseRefused(c) == IF call[c].aborted /\ ~catching(c) THEN "aborted" ELSE "finally"

\* Any other error: with a claim and no handle the task is given back, with
\* a handle it is settled failed.
otherError(c) ==
  IF catching(c) \/ call[c].aborted \/ At(c, "claim") THEN leaseRefused(c)
  ELSE IF call[c].pc \in {"bind", "wait", "settle"} THEN "failing" ELSE "giveBack"

-----------------------------------------------------------------------------
activeSize == Cardinality({id \in Ids : activeTasks[id] # NoCall})

\* run(), and recover() for a record its listing held.
run(c, id) ==
  /\ At(c, "idle")
  /\ recordOf(id) # {}
  /\ activeSize + starting < MaxActiveRuns
  /\ starting' = starting + 1
  /\ call' = [call EXCEPT ![c] = [Idle EXCEPT !.pc = "claim", !.id = id, !.reserved = TRUE]]
  /\ UNCHANGED delegationVars /\ UNCHANGED <<activeTasks, child, cancelling>>

\* Of the claim, refused when the lease of another is live.
runClaims(c, now, expires) ==
  LET id == call[c].id
  IN  /\ At(c, "claim")
      /\ \/ \E r \in recordOf(id) :
              /\ claim(r, Here, now, expires)
              /\ \E pc \in {"activate"} \cup {"changed" : d \in Changed \cap {id}} :
                   call' = [call EXCEPT ![c].pc = pc, ![c].token = r.attempt + 1]
         \/ /\ \A r \in recordOf(id) : ~claimable(r, now)
            /\ To(c, leaseRefused(c)) /\ UNCHANGED delegationVars
      /\ UNCHANGED <<activeTasks, starting, child, cancelling>>

\* Whatever the call awaits rejects, for any reason but its lease.
runThrows(c) ==
  /\ call[c].pc \notin {"idle", "activate", "handle", "finally"}
  /\ To(c, otherError(c))
  /\ UNCHANGED delegationVars /\ UNCHANGED <<activeTasks, starting, child, cancelling>>

\* A last step on the store under the call's lease, which throws once no revision can be counted.
afterStep(c, r) == To(c, IF increment(r) THEN "finally" ELSE otherError(c))

\* The store refuses it, as the lease is lost.
stepRefused(c, now) ==
  /\ \A r \in recordOf(call[c].id) : ~activeLease(r, call[c].token, now)
  /\ To(c, leaseRefused(c))
  /\ UNCHANGED delegationVars

failTask(c, now, code) ==
  \/ stepRefused(c, now)
  \/ \E r \in recordOf(call[c].id) : fail(r, call[c].token, code, now) /\ afterStep(c, r)
completeTask(c, now, res) ==
  \/ stepRefused(c, now)
  \/ \E r \in recordOf(call[c].id) : complete(r, call[c].token, res, now) /\ afterStep(c, r)
abandonTask(c, now) ==
  \/ stepRefused(c, now)
  \/ \E r \in recordOf(call[c].id) : abandon(r, call[c].token, now) /\ afterStep(c, r)

failChanged(c, now) ==
  /\ At(c, "changed")
  /\ failTask(c, now, "target_configuration_changed")
  /\ UNCHANGED <<activeTasks, starting, child, cancelling>>

\* The catch block, for an error that neither the lease nor an abort explains.
catchOther(c, now) ==
  /\ \/ At(c, "giveBack") /\ abandonTask(c, now)
     \/ At(c, "failing") /\ failTask(c, now, "executor_failed")
  /\ UNCHANGED <<activeTasks, starting, child, cancelling>>

runActivates(c) ==
  /\ At(c, "activate")
  /\ starting' = starting - 1
  /\ activeTasks' = [activeTasks EXCEPT ![call[c].id] = c]
  /\ call' = [call EXCEPT ![c].pc = "lease", ![c].reserved = FALSE]
  /\ UNCHANGED delegationVars /\ UNCHANGED <<child, cancelling>>

runAssertsLease(c, now) ==
  /\ At(c, "lease")
  /\ To(c, IF \E r \in recordOf(call[c].id) : activeLease(r, call[c].token, now) THEN "submit" ELSE leaseRefused(c))
  /\ UNCHANGED delegationVars /\ UNCHANGED <<activeTasks, starting, child, cancelling>>

\* Another input of the same actor is deferred.
otherDeferred(id) == \E d \in Ids \ {id} : TargetOf[d] = TargetOf[id] /\ child[d] = "deferred"

\* submit or resumeDeferred; either may be refused (a full queue: runThrows).
runSubmits(c, now) ==
  LET id == call[c].id
  IN  /\ At(c, "submit")
      /\ \/ /\ ~otherDeferred(id)
            /\ child' = [child EXCEPT ![id] = IF @ \in {"none", "deferred"} THEN "queued" ELSE @]
            /\ To(c, "handle") /\ UNCHANGED delegationVars
         \/ otherDeferred(id) /\ abandonTask(c, now) /\ UNCHANGED child
      /\ UNCHANGED <<activeTasks, starting, cancelling>>

\* The handle is kept only while this call is the registered one.
runTakesHandle(c) ==
  /\ At(c, "handle")
  /\ call' = [call EXCEPT ![c].pc = IF activeTasks[call[c].id] = c THEN "bind" ELSE leaseRefused(c),
                          ![c].handle = (activeTasks[call[c].id] = c)]
  /\ UNCHANGED delegationVars /\ UNCHANGED <<activeTasks, starting, child, cancelling>>

runBinds(c, now) ==
  LET id == call[c].id
  IN  /\ At(c, "bind")
      /\ \/ \E r \in recordOf(id) : /\ \/ bindRun(r, call[c].token, ChildRun[id], now)
                                       \/ bindRunAgain(r, call[c].token, ChildRun[id], now)
                                    /\ To(c, "wait")
         \/ /\ \A r \in recordOf(id) : ~activeLease(r, call[c].token, now)
            /\ To(c, leaseRefused(c)) /\ UNCHANGED delegationVars
      /\ UNCHANGED <<activeTasks, starting, child, cancelling>>

\* waitForAbort answers with the child's result; an abort after it comes too
\* late for all but the outcome callback.
runSeesResult(c) ==
  LET id == call[c].id
  IN  /\ At(c, "wait") /\ ~call[c].aborted
      /\ child[id] \in {"deferred", "completed", "failed", "aborted"}
      /\ call' = [call EXCEPT ![c].pc = "settle", ![c].result = child[id]]
      /\ UNCHANGED delegationVars /\ UNCHANGED <<activeTasks, starting, child, cancelling>>

\* The projection of a completed child may still fail.
runSettles(c, now) ==
  LET seen == call[c].result
  IN  /\ At(c, "settle")
      /\ \/ seen = "deferred" /\ abandonTask(c, now)
         \/ seen = "aborted" /\ failTask(c, now, "child_aborted")
         \/ seen = "failed" /\ failTask(c, now, "child_failed")
         \/ seen = "completed" /\ failTask(c, now, "result_unavailable")
         \/ seen = "completed" /\ \E res \in Results : completeTask(c, now, res)
      /\ UNCHANGED <<activeTasks, starting, child, cancelling>>

\* The caller's signal fires.
callerAborts(c) ==
  /\ ~At(c, "idle") /\ ~call[c].aborted
  /\ call' = [call EXCEPT ![c].aborted = TRUE]
  /\ UNCHANGED delegationVars /\ UNCHANGED <<activeTasks, starting, child, cancelling>>

waitForAbort(c) ==
  /\ At(c, "wait") /\ call[c].aborted
  /\ To(c, "aborted")
  /\ UNCHANGED delegationVars /\ UNCHANGED <<activeTasks, starting, child, cancelling>>

\* The task is read and, at the revision read, cancelled; a change in between
\* is a conflict that is swallowed.
runReads(c) ==
  /\ At(c, "aborted")
  /\ \/ \E r \in recordOf(call[c].id) : /\ ~terminal(r)
                                        /\ call' = [call EXCEPT ![c].pc = "cancel", ![c].revision = r.revision]
     \/ (\A r \in recordOf(call[c].id) : terminal(r)) /\ To(c, "finally")
  /\ UNCHANGED delegationVars /\ UNCHANGED <<activeTasks, starting, child, cancelling>>

runCancels(c, now) ==
  /\ At(c, "cancel")
  /\ \/ \E r \in recordOf(call[c].id) :
          cancel(r, call[c].revision, now) /\ To(c, IF increment(r) THEN "lookup" ELSE "finally")
     \/ /\ \A r \in recordOf(call[c].id) : r.revision # call[c].revision \/ terminal(r) \/ now < r.updatedAt
        /\ To(c, "finally") /\ UNCHANGED delegationVars
  /\ UNCHANGED <<activeTasks, starting, child, cancelling>>

onActor(id, states) == {d \in Ids : TargetOf[d] = TargetOf[id] /\ child[d] \in states}

\* cancel()'s abort: the coordinate active on the actor, else the one the
\* handle began with.
abortChild(id) ==
  child' = IF activeTasks[id] = NoCall \/ ~call[activeTasks[id]].handle THEN child
           ELSE IF onActor(id, {"running"}) # {}
                THEN [d \in Ids |-> IF d \in onActor(id, {"running"}) THEN "aborted" ELSE child[d]]
                ELSE [child EXCEPT ![id] = IF @ = "queued" THEN "aborted" ELSE @]

runLooksUp(c) ==
  /\ At(c, "lookup")
  /\ abortChild(call[c].id)
  /\ To(c, "finally")
  /\ UNCHANGED delegationVars /\ UNCHANGED <<activeTasks, starting, cancelling>>

releaseReservedLeaks(c) == starting

\* The reservation of a call that never became active.
releaseReserved(c) == IF call[c].reserved THEN starting - 1 ELSE starting

\* The entry under the delegation is deleted, whichever call it is of.
runFinally(c) ==
  /\ At(c, "finally")
  /\ starting' = releaseReserved(c)
  /\ activeTasks' = [activeTasks EXCEPT ![call[c].id] = NoCall]
  /\ call' = [call EXCEPT ![c] = Idle]
  /\ UNCHANGED delegationVars /\ UNCHANGED <<child, cancelling>>

\* cancel(): the store first, then the run it finds.
cancelTask(r, now) ==
  /\ cancel(r, r.revision, now)
  /\ cancelling' = IF increment(r) THEN cancelling \cup {r.id} ELSE cancelling
  /\ UNCHANGED <<call, activeTasks, starting, child>>

cancelAborts(id) ==
  /\ id \in cancelling
  /\ cancelling' = cancelling \ {id}
  /\ abortChild(id)
  /\ UNCHANGED delegationVars /\ UNCHANGED <<call, activeTasks, starting>>

renewActive(id, now, expires) ==
  /\ activeTasks[id] # NoCall
  /\ \E r \in recordOf(id) : renew(r, call[activeTasks[id]].token, now, expires)
  /\ UNCHANGED managerVars

\* The runtime's part: one run of an actor at a time, until it ends or defers.
childStarts(id) ==
  /\ child[id] = "queued" /\ onActor(id, {"running"}) = {}
  /\ child' = [child EXCEPT ![id] = "running"]
  /\ UNCHANGED delegationVars /\ UNCHANGED <<call, activeTasks, starting, cancelling>>

childEnds(id, end) ==
  /\ child[id] = "running"
  /\ child' = [child EXCEPT ![id] = end]
  /\ UNCHANGED delegationVars /\ UNCHANGED <<call, activeTasks, starting, cancelling>>

\* Another process's worker, which gives the task back or lets its lease lapse.
Elsewhere ==
  /\ \E r \in records, now \in Times :
       \/ \E o \in Owners \ {Here}, exp \in Times : claim(r, o, now, exp)
       \/ r.key \in DOMAIN leases /\ leases[r.key].owner # Here /\ abandon(r, leases[r.key].attempt, now)
  /\ UNCHANGED managerVars

\* Every task has been delegated.
ManagerInit ==
  /\ \E key \in Bijection(Ids, 1 .. Cardinality(Ids)) :
       records = {[key |-> key[id], id |-> id, status |-> "pending", revision |-> 1, attempt |-> 0, run |-> None,
                   result |-> None, code |-> None, createdAt |-> 0, startedAt |-> None, updatedAt |-> 0] : id \in Ids}
  /\ leases = << >> /\ settledTokens = << >> /\ nextKey = Cardinality(Ids) + 1
  /\ call = [c \in Calls |-> Idle] /\ activeTasks = [id \in Ids |-> NoCall] /\ starting = 0
  /\ child = [id \in Ids |-> "none"] /\ cancelling = {}

ManagerNext ==
  \/ \E c \in Calls, id \in Ids : run(c, id)
  \/ \E c \in Calls : \/ runActivates(c) \/ runTakesHandle(c) \/ callerAborts(c) \/ waitForAbort(c)
                      \/ runReads(c) \/ runLooksUp(c) \/ runFinally(c) \/ runSeesResult(c) \/ runThrows(c)
  \/ \E c \in Calls, now \in Times :
       \/ \E exp \in Times : runClaims(c, now, exp)
       \/ failChanged(c, now) \/ catchOther(c, now) \/ runAssertsLease(c, now) \/ runSubmits(c, now) \/ runBinds(c, now)
       \/ runSettles(c, now) \/ runCancels(c, now)
  \/ \E r \in records, now \in Times : cancelTask(r, now)
  \/ \E id \in Ids : cancelAborts(id) \/ childStarts(id)
  \/ \E id \in Ids, end \in {"completed", "failed", "deferred"} : childEnds(id, end)
  \/ \E id \in Ids, now, exp \in Times : renewActive(id, now, exp)
  \/ Elsewhere

ManagerSpec == ManagerInit /\ [][ManagerNext]_allVars

-----------------------------------------------------------------------------
(* No capacity is lost: the reservations are those of calls still in       *)
(* their claim, and an active entry never outlives its call, on every path *)
(* of refusals, aborts and lapsed leases.                                  *)
CapacityReturned ==
  /\ starting = Cardinality({c \in DOMAIN call : call[c].reserved})
  /\ \A id \in DOMAIN activeTasks : activeTasks[id] # NoCall =>
       call[activeTasks[id]].id = id /\ call[activeTasks[id]].pc \notin {"idle", "claim", "changed", "activate"}

(* What the task says is what its child did: completed only if the child   *)
(* completed, failed under the code of what the child came to or of the    *)
(* changed target.  executor_failed tells nothing of the child but that it *)
(* was handed to the runtime: it may be queued, running or deferred still. *)
ResultFromChild ==
  \A r \in records : LET childRun == child[r.id] IN
    /\ r.status = "completed" => childRun = "completed"
    /\ r.code = "result_unavailable" => childRun = "completed"
    /\ r.code = "child_aborted" => childRun = "aborted"
    /\ r.code = "child_failed" => childRun = "failed"
    /\ r.code = "executor_failed" => childRun # "none"
    /\ r.code = "target_configuration_changed" => r.id \in Changed

(* Every reservation and every active entry of run() is given back,        *)
(* whichever await fails or is aborted, and a settled task says what       *)
(* became of its own child run.                                            *)
RunsSettle == CapacityReturned /\ ResultFromChild
=============================================================================
