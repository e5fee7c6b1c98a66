---------------------------- MODULE GameRuntime ----------------------------
(***************************************************************************)
(* The run scheduler of packages/runtime: admission, per-actor FIFO lanes, *)
(* the round-robin ready list, bounded concurrency, abort, deferred runs,  *)
(* actor retirement and the drain to idle.                                 *)
(*                                                                         *)
(* JavaScript runs one segment between awaits at a time, so a segment is   *)
(* one action.  Most segments run inside this.scheduler, a FIFO mutex:     *)
(* `mutex' is its queue of sections and only the head makes steps.  What   *)
(* interleaves with a section that awaits the event store are the          *)
(* synchronous entry points (start, retireActor, stopAdmission, abortAll)  *)
(* and the agents.  pump() has no await: its loop is a sequence of Pump    *)
(* steps during which nothing else runs.                                   *)
(*                                                                         *)
(* Abstractions.  An input is its run; the ID of a deferred provider       *)
(* operation is the run that opened it.  The event store keeps for each    *)
(* run whether it is unknown, open, deferred or ended.  Of the agent only  *)
(* its protocol with the scheduler is kept: it is idle, running, asked to  *)
(* abort, or it refused to start.  Its transcript always commits, and only *)
(* an answer or an abandonment ends a pending operation.  Calls that are   *)
(* refused change nothing and are not actions.  Authority closure and      *)
(* replaceActor are left out.                                              *)
(***************************************************************************)
EXTENDS Integers, SequencesExt

CONSTANTS
  Actors, Runs,
  ActorOf,          \* [Runs -> Actors]
  MaxQueuedRuns,    \* options.maxQueuedRuns
  MaxActiveActors,  \* options.maxActiveActors
  Hosts,            \* what a host of a session may do with the runtime
  NoRun, NoActor

(* Runs may be started, or submitted as durable inputs, and aborted; the   *)
(* provider of some may defer.  Actors may be retired, registered again,   *)
(* or have their deferred run abandoned.  The host may call abortAll,      *)
(* appends to the event store may fail, or those to the sink of provider   *)
(* evidence, and every model call may be known to end.                     *)
HostRecord ==
  [name : STRING, started : SUBSET Runs, submitted : SUBSET Runs, abortable : SUBSET Runs,
   deferrable : SUBSET Runs, abandonable : SUBSET Actors, retirable : SUBSET Actors,
   reregistered : SUBSET Actors, abortsAll : BOOLEAN, storeFails : BOOLEAN,
   evidenceFails : BOOLEAN, modelsAnswer : BOOLEAN]

ASSUME RuntimeAssumption ==
  /\ IsFiniteSet(Actors) /\ IsFiniteSet(Runs)
  /\ ActorOf \in [Runs -> Actors]
  /\ MaxQueuedRuns \in Nat /\ MaxActiveActors \in Nat
  /\ NoRun \notin Runs /\ NoActor \notin Actors
  /\ Hosts \subseteq HostRecord
  /\ \A h \in Hosts : h.started \cap h.submitted = {}

VARIABLES
  host,          \* the host of this session
  accepting,     \* acceptingAdmission
  aborting,      \* abortingAllRuns
  idle,          \* the promise of waitForIdle: none, waiting or resolved
  actors,        \* the keys of the actors map
  registering,   \* batches being registered
  retirement,    \* progress of each retireActor call; "none" when not retiring
  awaited,       \* the completions a retirement waits for
  state, kind,   \* of the ScheduledRun of each run
  queue,         \* each actor's queue
  active,        \* each actor's active run
  readyKeys, readySet,
  queuedRuns, activeActors,
  pumping,       \* whether the pump loop is running
  mutex,         \* sections waiting for, or holding, the scheduler mutex
  agent,         \* each actor's agent
  deferred,      \* the run whose deferred operation the agent has pending
  abandoning,    \* progress of abandonDeferred
  canon,         \* what the canonical event stream says of each run
  starts         \* how often each run was started from its input (history)

admission == <<host, accepting, aborting>>
registry == <<actors, registering, retirement, awaited>>
lanes == <<state, kind, queue, active>>
ready == <<readyKeys, readySet>>
counters == <<queuedRuns, activeActors>>
agents == <<agent, deferred, abandoning>>
stored == <<canon, starts>>
vars == <<host, accepting, aborting, idle, actors, registering, retirement, awaited,
          state, kind, queue, active, readyKeys, readySet, queuedRuns,
          activeActors, pumping, mutex, agent, deferred, abandoning, canon,
          starts>>

-----------------------------------------------------------------------------
Unstarted == {"admitting", "ready", "cancelling"}
Live(r) == state[r] \in Unstarted \cup {"active"}
RunsOf(a) == {r \in Runs : ActorOf[r] = a /\ Live(r)}
Retiring(a) == retirement[a] # "none"
Registering(a) == \E batch \in registering : a \in batch

NotAbandoning == [stage |-> "none", run |-> NoRun]

Section(sort, a, r) == [sort |-> sort, actor |-> a, run |-> r, todo |-> {}, cancel |-> NoRun]
Holds(sort) == ~pumping /\ mutex # <<>> /\ Head(mutex).sort = sort
Queued(sort, a, r) ==
  \E i \in 1 .. Len(mutex) :
    mutex[i].sort = sort /\ mutex[i].actor = a /\ mutex[i].run = r

(* pendingAdmissions > 0: a submit or resume that has not returned. *)
pendingAdmissions ==
  \E i \in 1 .. Len(mutex) :
    mutex[i].sort \in {"submit", "submitting", "admitDurable", "resume", "resuming"}

isIdle ==
  /\ registering = {}
  /\ \A a \in Actors : ~Retiring(a)
  /\ ~pendingAdmissions
  /\ \A a \in actors : RunsOf(a) = {}

isActorIdle(a) ==
  /\ RunsOf(a) = {} /\ queue[a] = <<>> /\ active[a] = NoRun
  /\ abandoning[a] = NotAbandoning /\ agent[a] = "idle" /\ deferred[a] = NoRun

notifyIdle == idle' = IF idle = "waiting" /\ isIdle' THEN "resolved" ELSE idle

(* Events of one actor are appended one at a time, in the order requested. *)
(* While an abandonment appends its terminal event, only an append that    *)
(* was requested before it can still complete.                             *)
emitting(a) == abandoning[a].stage = "emitting"

(* An append to the canonical stream: it succeeds, or throws and leaves    *)
(* the stream alone.                                                       *)
appendEvent(r, status) ==
  \/ canon' = [canon EXCEPT ![r] = status]
  \/ host.storeFails /\ UNCHANGED canon

-----------------------------------------------------------------------------
(* Lanes *)

Enqueue(keys, set, a, skip) ==
  /\ readyKeys' = IF skip THEN keys ELSE Append(keys, a)
  /\ readySet' = IF skip THEN set ELSE set \cup {a}

(* Mutant: a lane is readied only while an execution slot is free. *)
markReadyWithSlot(keys, set, a) ==
  Enqueue(keys, set, a,
    \/ retirement'[a] # "none" \/ active'[a] # NoRun \/ queue'[a] = <<>> \/ a \in set
    \/ deferred'[a] # NoRun /\ Head(queue'[a]) # deferred'[a]
    \/ activeActors' >= MaxActiveActors)

(* Mutant: a deferred operation does not pause the lane. *)
markReadyAlways(keys, set, a) ==
  Enqueue(keys, set, a,
    retirement'[a] # "none" \/ active'[a] # NoRun \/ queue'[a] = <<>> \/ a \in set)

markReady(keys, set, a) ==
  Enqueue(keys, set, a,
    \/ retirement'[a] # "none" \/ active'[a] # NoRun \/ queue'[a] = <<>> \/ a \in set
    \/ deferred'[a] # NoRun /\ Head(queue'[a]) # deferred'[a])

(* Mutant: a cancelled run keeps its queue place. *)
settleKeepsCancelled(r) ==
  /\ state' = [state EXCEPT ![r] = "settled"]
  /\ queuedRuns' = IF kind[r] = "prompt" /\ state[r] \in {"admitting", "ready"}
                   THEN queuedRuns - 1 ELSE queuedRuns

settle(r) ==
  /\ state' = [state EXCEPT ![r] = "settled"]
  /\ queuedRuns' = IF kind[r] = "prompt" /\ state[r] \in Unstarted
                   THEN queuedRuns - 1 ELSE queuedRuns

removeQueuedRun(a, r) == queue' = [queue EXCEPT ![a] = RemoveFirst(@, r)]

(* Whether GameAgent.start or resumeDeferred accepts the run. *)
agentAccepts(a, r) ==
  /\ agent[a] = "idle"
  /\ ~emitting(a)
  /\ deferred[a] = IF kind[r] = "resume" THEN r ELSE NoRun

(* Whether the lane's first run can be activated. *)
frontReady(a) == queue[a] # <<>> /\ state[Head(queue[a])] = "ready"

pumpStops == aborting \/ activeActors >= MaxActiveActors \/ readyKeys = <<>>

PumpReturns ==
  /\ pumping /\ pumpStops
  /\ pumping' = FALSE
  /\ UNCHANGED <<admission, idle, registry, lanes, ready, counters, mutex, agents, stored>>

(* The key of a retired, retiring or busy actor is dropped. *)
PumpSkips ==
  LET a == Head(readyKeys)
  IN  /\ pumping /\ ~pumpStops
      /\ a \notin actors \/ active[a] # NoRun \/ Retiring(a)
      /\ readyKeys' = Tail(readyKeys)
      /\ readySet' = readySet \ {a}
      /\ UNCHANGED <<admission, idle, registry, lanes, counters, pumping, mutex, agents, stored>>

PumpEmptyLane ==
  LET a == Head(readyKeys)
  IN  /\ pumping /\ ~pumpStops
      /\ a \in actors /\ active[a] = NoRun /\ ~Retiring(a)
      /\ ~frontReady(a)
      /\ queue' = [queue EXCEPT ![a] = IF @ = <<>> THEN @ ELSE Tail(@)]
      /\ UNCHANGED <<admission, idle, registry, state, kind, active, counters,
                     pumping, mutex, agents, stored>>
      /\ markReady(Tail(readyKeys), readySet \ {a}, a)

PumpActivates ==
  LET a == Head(readyKeys)
      r == Head(queue[a])
  IN  /\ pumping /\ ~pumpStops
      /\ a \in actors /\ active[a] = NoRun /\ ~Retiring(a)
      /\ frontReady(a)
      /\ readyKeys' = Tail(readyKeys)
      /\ readySet' = readySet \ {a}
      /\ queue' = [queue EXCEPT ![a] = Tail(@)]
      /\ queuedRuns' = IF kind[r] = "prompt" THEN queuedRuns - 1 ELSE queuedRuns
      /\ state' = [state EXCEPT ![r] = "active"]
      /\ active' = [active EXCEPT ![a] = r]
      /\ activeActors' = activeActors + 1
      /\ agent' = [agent EXCEPT ![a] = IF agentAccepts(a, r) THEN "running" ELSE "refused"]
      /\ starts' = [starts EXCEPT ![r] =
                      IF kind[r] = "prompt" /\ agentAccepts(a, r) THEN @ + 1 ELSE @]
      /\ UNCHANGED <<admission, idle, registry, kind, pumping, mutex, deferred,
                     abandoning, canon>>

pump == PumpReturns \/ PumpSkips \/ PumpEmptyLane \/ PumpActivates

-----------------------------------------------------------------------------
(* Admission *)

start(r) ==
  LET a == ActorOf[r]
  IN  /\ ~pumping /\ accepting
      /\ r \in host.started /\ state[r] = "new"
      /\ a \in actors /\ ~Retiring(a)
      /\ deferred[a] = NoRun
      /\ queuedRuns < MaxQueuedRuns
      /\ state' = [state EXCEPT ![r] = "admitting"]
      /\ queuedRuns' = queuedRuns + 1
      /\ mutex' = Append(mutex, Section("admit", a, r))
      /\ UNCHANGED <<admission, idle, registry, kind, queue, active, ready,
                     activeActors, pumping, agents, stored>>

(* A client may submit the same input again at any time. *)
submit(r) ==
  /\ ~pumping /\ accepting
  /\ r \in host.submitted
  /\ \A sort \in {"submit", "submitting", "admitDurable"} : ~Queued(sort, ActorOf[r], r)
  /\ mutex' = Append(mutex, Section("submit", ActorOf[r], r))
  /\ UNCHANGED <<admission, idle, registry, lanes, ready, counters, pumping, agents, stored>>

(* runDurableAdmission: whether admission is open and the actor registered *)
(* is asked once, before the section's first await.                        *)
AdmissionEnters ==
  LET entered == accepting /\ Head(mutex).actor \in actors /\ ~Retiring(Head(mutex).actor)
  IN  /\ Holds("submit") \/ Holds("resume")
      /\ mutex' = IF entered
                  THEN [mutex EXCEPT ![1].sort = IF @ = "submit" THEN "submitting" ELSE "resuming"]
                  ELSE Tail(mutex)
      /\ UNCHANGED <<admission, registry, lanes, ready, counters, pumping, agents, stored>>
      /\ notifyIdle

(* Mutant: the event store is not asked about the input. *)
submitAdmitsUnread(a, r) ==
  ~Live(r) /\ deferred[a] = NoRun /\ queuedRuns < MaxQueuedRuns

(* The admission of a new input reserves its place in the queue before the *)
(* append; everything else is answered from the live runs, the pending     *)
(* operation or the event store, or refused.                               *)
submitAdmits(a, r) ==
  /\ ~Live(r) /\ deferred[a] = NoRun
  /\ canon[r] = "none"
  /\ queuedRuns < MaxQueuedRuns

(* A stored run that nobody executes any more is ended as failed.  An      *)
(* actor with other work must first become quiet.                          *)
submitRepairs(a, r) ==
  /\ ~Live(r) /\ deferred[a] = NoRun
  /\ canon[r] \in {"open", "deferred"}
  /\ RunsOf(a) = {} /\ abandoning[a] = NotAbandoning

SubmitSection ==
  LET a == Head(mutex).actor
      r == Head(mutex).run
  IN  /\ Holds("submitting")
      /\ UNCHANGED <<admission, registry, kind, queue, active, ready,
                     activeActors, pumping, agents, starts>>
      /\ \/ /\ submitAdmits(a, r)
            /\ state' = [state EXCEPT ![r] = "admitting"]
            /\ queuedRuns' = queuedRuns + 1
            /\ mutex' = [mutex EXCEPT ![1].sort = "admitDurable"]
            /\ UNCHANGED <<idle, canon>>
         \/ /\ submitRepairs(a, r)
            /\ appendEvent(r, "ended")
            /\ mutex' = Tail(mutex)
            /\ UNCHANGED <<state, queuedRuns>>
            /\ notifyIdle
         \/ /\ ~submitAdmits(a, r) /\ ~submitRepairs(a, r)
            /\ mutex' = Tail(mutex)
            /\ UNCHANGED <<state, queuedRuns, canon>>
            /\ notifyIdle

(* admit: the run is queued once its run.queued event is durable.          *)
AdmitSection ==
  LET a == Head(mutex).actor
      r == Head(mutex).run
  IN  /\ Holds("admit") \/ Holds("admitDurable")
      /\ state[r] = "admitting" /\ ~emitting(a)
      /\ mutex' = Tail(mutex)
      /\ UNCHANGED <<admission, registry, kind, active, activeActors, agents, starts>>
      /\ \/ /\ canon' = [canon EXCEPT ![r] = "open"]
            /\ state' = [state EXCEPT ![r] = "ready"]
            /\ queue' = [queue EXCEPT ![a] = Append(@, r)]
            /\ UNCHANGED queuedRuns
            /\ markReady(readyKeys, readySet, a)
            /\ pumping' = TRUE
         \/ /\ host.storeFails
            /\ settle(r)
            /\ UNCHANGED <<queue, ready, pumping, canon>>
      /\ notifyIdle

stopAdmission ==
  /\ ~pumping /\ accepting
  /\ accepting' = FALSE
  /\ idle' = IF isIdle THEN "resolved" ELSE "waiting"
  /\ UNCHANGED <<host, aborting, registry, lanes, ready, counters, pumping, mutex, agents, stored>>

-----------------------------------------------------------------------------
(* The agent of an active run *)

(* The provider defers: the transcript records the pending operation.  An  *)
(* abort requested while that commit is under way does not undo it.        *)
AgentDefers(a) ==
  /\ ~pumping /\ agent[a] \in {"running", "aborting"}
  /\ active[a] \in host.deferrable /\ deferred[a] = NoRun
  /\ deferred' = [deferred EXCEPT ![a] = active[a]]
  /\ UNCHANGED <<admission, idle, registry, lanes, ready, counters, pumping,
                 mutex, agent, abandoning, stored>>

(* A resumed run fetches the provider's answer. *)
AgentFetches(a) ==
  /\ ~pumping /\ agent[a] \in {"running", "aborting"}
  /\ kind[active[a]] = "resume" /\ deferred[a] = active[a]
  /\ deferred' = [deferred EXCEPT ![a] = NoRun]
  /\ UNCHANGED <<admission, idle, registry, lanes, ready, counters, pumping,
                 mutex, agent, abandoning, stored>>

(* How a run ends: suspended while its operation is pending, but failed    *)
(* when the evidence of the provider's answer could not be recorded.       *)
EndOf(a) ==
  IF deferred[a] # active[a] THEN {"ended"}
  ELSE {"deferred"} \cup (IF host.evidenceFails THEN {"ended"} ELSE {})

(* When the last event cannot be stored the run stays open.                *)
AgentEnds(a) ==
  LET r == active[a]
      unsaved == IF ~host.storeFails THEN {}
                 ELSE {"open"} \cup (IF deferred[a] = r THEN {canon[r]} ELSE {})
  IN  /\ ~pumping /\ agent[a] \in {"running", "aborting"}
      /\ \E s \in EndOf(a) \cup unsaved : canon' = [canon EXCEPT ![r] = s]
      /\ agent' = [agent EXCEPT ![a] = "idle"]
      /\ mutex' = Append(mutex, Section("finish", a, r))
      /\ UNCHANGED <<admission, idle, registry, lanes, ready, counters, pumping,
                     deferred, abandoning, starts>>

(* The agent threw: the run is recorded as failed, unless it is a resumed  *)
(* run whose operation is still pending.                                   *)
finishStartFailure(a) ==
  LET r == active[a]
  IN  /\ ~pumping /\ agent[a] = "refused" /\ ~emitting(a)
      /\ IF kind[r] = "resume" /\ deferred[a] = r
         THEN UNCHANGED canon ELSE appendEvent(r, "ended")
      /\ agent' = [agent EXCEPT ![a] = "idle"]
      /\ mutex' = Append(mutex, Section("finish", a, r))
      /\ UNCHANGED <<admission, idle, registry, lanes, ready, counters, pumping,
                     deferred, abandoning, starts>>

FinishSection ==
  LET a == Head(mutex).actor
      r == Head(mutex).run
  IN  /\ Holds("finish")
      /\ active[a] = r /\ state[r] = "active"
      /\ mutex' = Tail(mutex)
      /\ active' = [active EXCEPT ![a] = NoRun]
      /\ activeActors' = activeActors - 1
      /\ settle(r)
      /\ UNCHANGED <<admission, registry, kind, queue, agents, stored>>
      /\ markReady(readyKeys, readySet, a)
      /\ pumping' = TRUE
      /\ notifyIdle

-----------------------------------------------------------------------------
(* Abort.  The sections abort, retire and abortAll work through a set of   *)
(* runs (todo) in turn; cancel is the queued run whose abort event has     *)
(* been accepted and whose terminal event is being appended.               *)

abortRun(r) ==
  /\ ~pumping /\ r \in host.abortable /\ Live(r)
  /\ ~Queued("abort", ActorOf[r], r)
  /\ mutex' = Append(mutex, [Section("abort", ActorOf[r], r) EXCEPT !.todo = {r}])
  /\ UNCHANGED <<admission, idle, registry, lanes, ready, counters, pumping, agents, stored>>

Aborting == Holds("abort") \/ Holds("retiring") \/ Holds("abortingAll")
AbortTurn(r) == Aborting /\ r \in Head(mutex).todo /\ Head(mutex).cancel = NoRun

(* The head section is done with run r, whose completion a retirement      *)
(* awaits unless the abort failed and left it unsettled.                   *)
AbortedNext(r, await) ==
  /\ mutex' = [mutex EXCEPT ![1].todo = @ \ {r}, ![1].cancel = NoRun]
  /\ awaited' = IF Head(mutex).sort = "retiring" /\ await
                THEN [awaited EXCEPT ![ActorOf[r]] = @ \cup {r}] ELSE awaited

(* GameAgent.abortRun; an agent that is about to end takes no control. *)
AbortActive(r) ==
  /\ AbortTurn(r) /\ state[r] = "active"
  /\ \/ /\ agent' = [agent EXCEPT ![ActorOf[r]] =
                       IF @ = "running" THEN "aborting" ELSE @]
        /\ AbortedNext(r, TRUE)
     \/ /\ host.storeFails /\ agent[ActorOf[r]] = "running"
        /\ UNCHANGED agent
        /\ AbortedNext(r, FALSE)
  /\ UNCHANGED <<admission, idle, actors, registering, retirement, lanes, ready,
                 counters, pumping, deferred, abandoning, stored>>

(* abortQueuedRun up to its second append. *)
AbortQueued(r) ==
  /\ AbortTurn(r) /\ state[r] \in Unstarted
  /\ ~emitting(ActorOf[r])
  /\ \/ /\ removeQueuedRun(ActorOf[r], r)
        /\ state' = [state EXCEPT ![r] = "cancelling"]
        /\ mutex' = [mutex EXCEPT ![1].cancel = r]
        /\ UNCHANGED awaited
     \/ /\ host.storeFails
        /\ UNCHANGED <<queue, state>>
        /\ AbortedNext(r, FALSE)
  /\ UNCHANGED <<admission, idle, actors, registering, retirement, kind, active,
                 ready, counters, pumping, agents, stored>>

(* The rest of abortQueuedRun: the run settles whether or not its terminal *)
(* event could be stored.                                                  *)
AbortSettles ==
  LET r == Head(mutex).cancel
  IN  /\ Aborting /\ r # NoRun
      /\ appendEvent(r, "ended")
      /\ settle(r)
      /\ AbortedNext(r, TRUE)
      /\ UNCHANGED <<admission, actors, registering, retirement, kind, queue,
                     active, activeActors, agents, starts>>
      /\ markReady(readyKeys, readySet, ActorOf[r])
      /\ pumping' = TRUE
      /\ notifyIdle

AbortSkips(r) ==
  /\ AbortTurn(r) /\ ~Live(r)
  /\ AbortedNext(r, TRUE)
  /\ UNCHANGED <<admission, idle, actors, registering, retirement, lanes, ready,
                 counters, pumping, agents, stored>>

AbortsDone ==
  /\ Aborting /\ Head(mutex).todo = {}
  /\ mutex' = Tail(mutex)
  /\ retirement' = IF Head(mutex).sort = "retiring"
                   THEN [retirement EXCEPT ![Head(mutex).actor] = "awaiting"]
                   ELSE retirement
  /\ UNCHANGED <<admission, idle, actors, registering, awaited, lanes, ready,
                 counters, pumping, agents, stored>>

(* abortAll also stops admission. *)
abortAll ==
  /\ ~pumping /\ host.abortsAll /\ ~aborting
  /\ accepting' = FALSE
  /\ idle' = IF ~accepting THEN idle ELSE IF isIdle THEN "resolved" ELSE "waiting"
  /\ aborting' = TRUE
  /\ mutex' = Append(mutex, Section("abortAll", NoActor, NoRun))
  /\ UNCHANGED <<host, registry, lanes, ready, counters, pumping, agents, stored>>

(* Mutant: only the runs that execute are aborted. *)
everyActiveRun == {r \in Runs : state[r] = "active"}

everyRun == UNION {RunsOf(a) : a \in actors}

abortEveryRun ==
  /\ Holds("abortAll")
  /\ mutex' = [mutex EXCEPT ![1].sort = "abortingAll", ![1].todo = everyRun]
  /\ UNCHANGED <<admission, idle, registry, lanes, ready, counters, pumping, agents, stored>>

-----------------------------------------------------------------------------
(* Deferred runs *)

resumeDeferred(a) ==
  /\ ~pumping /\ accepting
  /\ deferred[a] # NoRun
  /\ ~Queued("resume", a, deferred[a]) /\ ~Queued("resuming", a, deferred[a])
  /\ mutex' = Append(mutex, Section("resume", a, deferred[a]))
  /\ UNCHANGED <<admission, idle, registry, lanes, ready, counters, pumping, agents, stored>>

canResume(a, r) ==
  /\ deferred[a] = r /\ abandoning[a] = NotAbandoning
  /\ ~Live(r)
  /\ canon[r] \in {"open", "deferred"}

(* reconcilePendingDeferredProjection may first have to append the         *)
(* missing run.suspended event, during which an abandonment may be         *)
(* requested; the resume is then refused.                                  *)
ResumeSection ==
  LET a == Head(mutex).actor
      r == Head(mutex).run
  IN  /\ Holds("resuming")
      /\ mutex' = Tail(mutex)
      /\ UNCHANGED <<admission, registry, active, counters, agents, starts>>
      /\ \/ /\ canResume(a, r)
            /\ canon' = [canon EXCEPT ![r] = "deferred"]
            /\ state' = [state EXCEPT ![r] = "ready"]
            /\ kind' = [kind EXCEPT ![r] = "resume"]
            /\ queue' = [queue EXCEPT ![a] = <<r>> \o @]
            /\ markReady(readyKeys, readySet, a)
            /\ pumping' = TRUE
         \/ /\ ~canResume(a, r) \/ (host.storeFails /\ canon[r] = "open")
            /\ UNCHANGED <<state, kind, queue, ready, pumping, canon>>
         \/ /\ deferred[a] = r /\ ~Live(r) /\ canon[r] = "open"
            /\ abandoning[a].stage = "queued"
            /\ canon' = [canon EXCEPT ![r] = "deferred"]
            /\ UNCHANGED <<state, kind, queue, ready, pumping>>
      /\ notifyIdle

abandonDeferred(a) ==
  /\ ~pumping /\ a \in host.abandonable \cap actors
  /\ deferred[a] # NoRun /\ abandoning[a] = NotAbandoning
  /\ abandoning' = [abandoning EXCEPT ![a] = [stage |-> "queued", run |-> deferred[a]]]
  /\ mutex' = Append(mutex, Section("abandon", a, deferred[a]))
  /\ UNCHANGED <<admission, idle, registry, lanes, ready, counters, pumping,
                 agent, deferred, stored>>

(* A queued resume of the operation is taken out of its lane; an active    *)
(* one, or an operation that is gone, ends the call.                       *)
AbandonSection ==
  LET a == Head(mutex).actor
      r == Head(mutex).run
  IN  /\ Holds("abandon")
      /\ \/ /\ deferred[a] = r /\ state[r] # "active"
            /\ abandoning' = [abandoning EXCEPT ![a].stage = "agent"]
            /\ removeQueuedRun(a, r)
            /\ state' = [state EXCEPT ![r] = IF Live(r) THEN "cancelling" ELSE @]
            /\ mutex' = Tail(mutex)
         \/ /\ deferred[a] # r \/ state[r] = "active"
            /\ abandoning' = [abandoning EXCEPT ![a] = NotAbandoning]
            /\ mutex' = IF deferred[a] # NoRun THEN Tail(mutex)
                        ELSE Append(Tail(mutex), Section("ready", a, NoRun))
            /\ UNCHANGED <<queue, state>>
      /\ UNCHANGED <<admission, idle, registry, kind, active, ready, counters,
                     pumping, agent, deferred, stored>>

(* GameAgent.abandonDeferred first commits the transcript ...              *)
AgentAbandons(a) ==
  /\ ~pumping /\ abandoning[a].stage = "agent"
  /\ deferred' = [deferred EXCEPT ![a] = NoRun]
  /\ abandoning' = [abandoning EXCEPT ![a].stage = "emitting"]
  /\ UNCHANGED <<admission, idle, registry, lanes, ready, counters, pumping,
                 mutex, agent, stored>>

(* ... then appends the terminal event, and only then calls back.          *)
AgentAbandoned(a) ==
  LET r == abandoning[a].run
  IN  /\ ~pumping /\ abandoning[a].stage = "emitting"
      /\ appendEvent(r, "ended")
      /\ abandoning' = [abandoning EXCEPT ![a].stage = "local"]
      /\ mutex' = Append(mutex, Section("abandoned", a, r))
      /\ UNCHANGED <<admission, idle, registry, lanes, ready, counters, pumping,
                     agent, deferred, starts>>

(* The callback, and the section that follows the call.  When the append   *)
(* failed the lane is only served by the latter; nothing runs in between   *)
(* that the former would have served.                                      *)
AbandonedSection ==
  LET a == Head(mutex).actor
      r == Head(mutex).run
  IN  /\ Holds("abandoned")
      /\ IF Live(r) THEN settle(r) ELSE UNCHANGED <<state, queuedRuns>>
      /\ abandoning' = [abandoning EXCEPT ![a] = NotAbandoning]
      /\ mutex' = Append(Tail(mutex), Section("ready", a, NoRun))
      /\ UNCHANGED <<admission, registry, kind, queue, active, activeActors,
                     agent, deferred, stored>>
      /\ markReady(readyKeys, readySet, a)
      /\ pumping' = TRUE
      /\ notifyIdle

ReadySection ==
  LET a == Head(mutex).actor
  IN  /\ Holds("ready")
      /\ mutex' = Tail(mutex)
      /\ UNCHANGED <<admission, idle, registry, lanes, counters, agents, stored>>
      /\ markReady(readyKeys, readySet, a)
      /\ pumping' = TRUE

-----------------------------------------------------------------------------
(* Registration and retirement *)

registerActors(batch) ==
  /\ ~pumping /\ accepting
  /\ batch # {} /\ batch \cap actors = {}
  /\ \A a \in batch : ~Registering(a) /\ ~Retiring(a)
  /\ registering' = registering \cup {batch}
  /\ UNCHANGED <<admission, idle, actors, retirement, awaited, lanes, ready,
                 counters, pumping, mutex, agents, stored>>

(* The batch has been staged, or staging one of its actors has failed:     *)
(* all of it is registered, or none.                                       *)
RegistrationEnds(batch) ==
  /\ ~pumping
  /\ registering' = registering \ {batch}
  /\ \/ accepting /\ actors' = actors \cup batch
     \/ (host.storeFails \/ ~accepting) /\ UNCHANGED actors
  /\ UNCHANGED <<admission, retirement, awaited, lanes, ready, counters,
                 pumping, mutex, agents, stored>>
  /\ notifyIdle

retireActor(a) ==
  /\ ~pumping
  /\ ~Retiring(a) /\ ~Registering(a) /\ a \in actors
  /\ retirement' = [retirement EXCEPT ![a] = "queued"]
  /\ mutex' = Append(mutex, Section("retire", a, NoRun))
  /\ UNCHANGED <<admission, idle, actors, registering, awaited, lanes, ready,
                 counters, pumping, agents, stored>>

(* retireRegisteredActor aborts every run of the actor, queued or active,  *)
(* but refuses an actor that has a deferred operation.                     *)
RetireSection ==
  LET a == Head(mutex).actor
  IN  /\ Holds("retire")
      /\ IF abandoning[a] # NotAbandoning \/ deferred[a] # NoRun
         THEN /\ retirement' = [retirement EXCEPT ![a] = "finishing"]
              /\ mutex' = Append(Tail(mutex), Section("unretire", a, NoRun))
         ELSE /\ mutex' = [mutex EXCEPT ![1].sort = "retiring", ![1].todo = RunsOf(a)]
              /\ UNCHANGED retirement
      /\ UNCHANGED <<admission, idle, actors, registering, awaited, lanes, ready,
                     counters, pumping, agents, stored>>

(* Promise.all(completions) has resolved. *)
RetireContinues(a) ==
  /\ ~pumping /\ retirement[a] = "awaiting"
  /\ \A r \in awaited[a] : state[r] = "settled"
  /\ retirement' = [retirement EXCEPT ![a] = "releasing"]
  /\ awaited' = [awaited EXCEPT ![a] = {}]
  /\ mutex' = Append(mutex, Section("release", a, NoRun))
  /\ UNCHANGED <<admission, idle, actors, registering, lanes, ready, counters,
                 pumping, agents, stored>>

(* Only an idle actor is released. *)
ReleaseSection ==
  LET a == Head(mutex).actor
  IN  /\ Holds("release")
      /\ mutex' = Append(Tail(mutex), Section("unretire", a, NoRun))
      /\ retirement' = [retirement EXCEPT ![a] = "finishing"]
      /\ IF isActorIdle(a)
         THEN /\ actors' = actors \ {a}
              /\ readySet' = readySet \ {a}
              /\ pumping' = TRUE
         ELSE UNCHANGED <<actors, readySet, pumping>>
      /\ UNCHANGED <<admission, idle, registering, awaited, lanes, readyKeys,
                     counters, agents, stored>>

UnretireSection ==
  LET a == Head(mutex).actor
  IN  /\ Holds("unretire")
      /\ mutex' = Tail(mutex)
      /\ retirement' = [retirement EXCEPT ![a] = "none"]
      /\ UNCHANGED <<admission, actors, registering, awaited, lanes, counters, agents, stored>>
      /\ IF a \in actors THEN markReady(readyKeys, readySet, a) ELSE UNCHANGED ready
      /\ pumping' = TRUE
      /\ notifyIdle

-----------------------------------------------------------------------------
(* The session's actors have been registered in one batch. *)
Init ==
  /\ host \in Hosts
  /\ accepting = TRUE /\ aborting = FALSE /\ idle = "none"
  /\ actors = Actors /\ registering = {}
  /\ retirement = [a \in Actors |-> "none"]
  /\ awaited = [a \in Actors |-> {}]
  /\ state = [r \in Runs |-> "new"]
  /\ kind = [r \in Runs |-> "prompt"]
  /\ queue = [a \in Actors |-> <<>>]
  /\ active = [a \in Actors |-> NoRun]
  /\ readyKeys = <<>> /\ readySet = {}
  /\ queuedRuns = 0 /\ activeActors = 0
  /\ pumping = FALSE
  /\ mutex = <<>>
  /\ agent = [a \in Actors |-> "idle"]
  /\ deferred = [a \in Actors |-> NoRun]
  /\ abandoning = [a \in Actors |-> NotAbandoning]
  /\ canon = [r \in Runs |-> "none"]
  /\ starts = [r \in Runs |-> 0]

Host ==
  \/ \E r \in Runs : start(r) \/ submit(r) \/ abortRun(r)
  \/ stopAdmission
  \/ abortAll
  \/ \E a \in Actors : resumeDeferred(a) \/ abandonDeferred(a)
  \/ \E a \in host.retirable : retireActor(a)
  \/ \E batch \in SUBSET host.reregistered : registerActors(batch)

Sections ==
  \/ AdmissionEnters \/ SubmitSection \/ AdmitSection \/ FinishSection
  \/ \E r \in Runs : AbortActive(r) \/ AbortQueued(r) \/ AbortSkips(r)
  \/ AbortSettles \/ AbortsDone \/ abortEveryRun
  \/ ResumeSection \/ AbandonSection \/ AbandonedSection \/ ReadySection
  \/ RetireSection \/ ReleaseSection \/ UnretireSection

Next ==
  \/ Host
  \/ pump
  \/ Sections
  \/ \E a \in Actors :
       \/ AgentDefers(a) \/ AgentFetches(a) \/ AgentEnds(a) \/ finishStartFailure(a)
       \/ AgentAbandons(a) \/ AgentAbandoned(a)
  \/ \E a \in Actors : RetireContinues(a)
  \/ \E batch \in registering : RegistrationEnds(batch)

Spec == Init /\ [][Next]_vars

(* The event loop keeps running what has been scheduled, an agent that was *)
(* asked to abort ends its run, and no model call takes for ever where the *)
(* host knows that it does not.                                            *)
Fairness ==
  /\ WF_vars(pump)
  /\ WF_vars(Sections)
  /\ \A a \in Actors :
       /\ SF_vars((agent[a] = "aborting" \/ host.modelsAnswer) /\ AgentEnds(a))
       /\ SF_vars(finishStartFailure(a) \/ AgentAbandons(a) \/ AgentAbandoned(a))
       /\ SF_vars(RetireContinues(a))
  /\ SF_vars(\E batch \in registering : RegistrationEnds(batch))

FairSpec == Spec /\ Fairness

-----------------------------------------------------------------------------
(* Properties *)

Sorts == {"submit", "submitting", "admit", "admitDurable", "finish", "abort", "retire",
          "retiring", "abortAll", "abortingAll", "resume", "resuming", "abandon", "abandoned", "ready",
          "release", "unretire"}

TypeOK ==
  /\ host \in Hosts
  /\ accepting \in BOOLEAN /\ aborting \in BOOLEAN /\ pumping \in BOOLEAN
  /\ idle \in {"none", "waiting", "resolved"}
  /\ actors \subseteq Actors /\ registering \subseteq SUBSET Actors
  /\ retirement \in [Actors -> {"none", "queued", "awaiting", "releasing", "finishing"}]
  /\ awaited \in [Actors -> SUBSET Runs]
  /\ state \in [Runs -> {"new", "settled", "active"} \cup Unstarted]
  /\ kind \in [Runs -> {"prompt", "resume"}]
  /\ queue \in [Actors -> Seq(Runs)]
  /\ active \in [Actors -> Runs \cup {NoRun}]
  /\ readyKeys \in Seq(Actors) /\ readySet \subseteq Actors
  /\ queuedRuns \in Nat /\ activeActors \in Nat
  /\ mutex \in Seq([sort : Sorts, actor : Actors \cup {NoActor},
                    run : Runs \cup {NoRun}, todo : SUBSET Runs,
                    cancel : Runs \cup {NoRun}])
  /\ agent \in [Actors -> {"idle", "running", "aborting", "refused"}]
  /\ deferred \in [Actors -> Runs \cup {NoRun}]
  /\ abandoning \in [Actors -> [stage : {"none", "queued", "agent", "emitting", "local"},
                                run : Runs \cup {NoRun}]]
  /\ canon \in [Runs -> {"none", "open", "deferred", "ended"}]
  /\ starts \in [Runs -> Nat]

(* The two admission counters count what they stand for, and neither bound *)
(* is ever exceeded: maxQueuedRuns prompts that have not started,          *)
(* maxActiveActors actors with an active run.  No path settles a run twice *)
(* or forgets one.                                                         *)
CapacityExact ==
  /\ queuedRuns = Cardinality({r \in Runs : kind[r] = "prompt" /\ state[r] \in Unstarted})
  /\ activeActors = Cardinality({a \in Actors : active[a] # NoRun})
  /\ queuedRuns <= MaxQueuedRuns /\ activeActors <= MaxActiveActors

(* Lanes and run states agree: exactly the ready runs are queued, once, at *)
(* their own actor; an active run is its actor's only one.  Every live run *)
(* belongs to a registered actor, so nothing is executing, or waiting, for *)
(* an actor that retirement has released.                                  *)
QueuesExact ==
  /\ \A r \in Runs :
       LET places == {i \in 1 .. Len(queue[ActorOf[r]]) : queue[ActorOf[r]][i] = r}
       IN  Cardinality(places) = IF state[r] = "ready" THEN 1 ELSE 0
  /\ \A a \in Actors, r \in Runs : active[a] = r <=> state[r] = "active" /\ ActorOf[r] = a
  /\ \A r \in Runs : Live(r) => ActorOf[r] \in actors

(* The drain promise is neither missed nor early: while waitForIdle waits  *)
(* there is something left to wait for, and once it has resolved no run is *)
(* live and no agent runs, ever again.                                     *)
IdleExact ==
  /\ ~pumping /\ idle = "waiting" => ~isIdle
  /\ idle = "resolved" => \A r \in Runs : ~Live(r)
  /\ idle = "resolved" => \A a \in Actors : agent[a] = "idle"
  /\ idle # "none" <=> ~accepting

(* The scheduler's books agree with one another. *)
LanesExact == QueuesExact /\ CapacityExact /\ IdleExact

(* Whether actor a has work that may start. *)
Startable(a) ==
  /\ a \in actors /\ ~Retiring(a) /\ active[a] = NoRun /\ queue[a] # <<>>
  /\ deferred[a] \in {NoRun, Head(queue[a])}
  /\ abandoning[a] = NotAbandoning

(* No lost wakeup: between segments every actor that has work it may start *)
(* is in the ready list, and while an execution slot is free the ready     *)
(* list is empty.                                                          *)
WorkConserving ==
  ~pumping =>
    /\ \A a \in Actors :
         Startable(a) /\ ~(\E i \in 1 .. Len(mutex) : mutex[i].sort = "ready" /\ mutex[i].actor = a) =>
           \E i \in 1 .. Len(readyKeys) : readyKeys[i] = a
    /\ ~aborting /\ activeActors < MaxActiveActors => readyKeys = <<>>

(* However often an input is submitted, and whatever the event store loses *)
(* of its run, the input is given to the agent at most once.               *)
StartedAtMostOnce == \A r \in Runs : starts[r] <= 1

(* The scheduler starts a run only when the agent will take it: work       *)
(* admitted behind a deferred run is paused, not failed.                   *)
DispatchAccepted == \A a \in Actors : agent[a] # "refused"

(* The run of a pending deferred operation has not ended canonically.      *)
PendingRunOpen ==
  \A a \in Actors : deferred[a] # NoRun => canon[deferred[a]] # "ended"

(* A host that neither aborts nor abandons a deferred run, nor registers a *)
(* retired actor again, and whose evidence is always recorded.             *)
LetsDeferredRunsBe ==
  /\ host.abandonable = {} /\ host.reregistered = {} /\ ~host.evidenceFails
  /\ host.abortable \cap host.deferrable = {} /\ ~host.abortsAll

(* With such a host, work admitted behind a deferred run is paused, never  *)
(* given to an agent that refuses it, and the deferred run has not ended   *)
(* canonically.                                                            *)
PausedBehindDeferral == LetsDeferredRunsBe => DispatchAccepted /\ PendingRunOpen

(* abortAll reaches idle, even when no model call ever answers, unless a   *)
(* write fails: no abort is lost between a queue and its agent, and no     *)
(* retirement, registration or submission is left waiting.                 *)
AbortAllDrains == aborting /\ ~host.storeFails ~> idle = "resolved"

(* Where model calls end, every admitted run gets its turn and settles,    *)
(* unless it is behind a deferred operation, which only the host resumes   *)
(* or abandons, or abortAll has stopped the scheduler.                     *)
AdmittedRunsSettle ==
  \A r \in Runs :
    Live(r) /\ host.modelsAnswer ~> ~Live(r) \/ aborting \/ deferred[ActorOf[r]] # NoRun
=============================================================================
