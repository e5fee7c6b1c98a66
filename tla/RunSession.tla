----------------------------- MODULE RunSession -----------------------------
(* A client's session with one accepted run                               *)
(* (packages/client/src/runtime-run-session.ts): three observers of the   *)
(* run, of its canonical events, of the Actions delivered to it and of    *)
(* the approvals it waits for, race for the session's outcome.  The       *)
(* runtime's side is what the session's requests can meet in              *)
(* packages/server/src/runtime-server.ts.  An await of the code separates *)
(* two steps; a callback of the host starts in one step and ends in       *)
(* another.  EventDelivery shows that the event stream yields the actor's *)
(* visible events in order, so here the observer reads `stream` itself.   *)
EXTENDS Integers, FiniteSets, Sequences

CONSTANTS
  Questions,    \* the approvals the run may ask for; none: no approval observer
  PageSize,     \* approvals.pageSize
  Turns,        \* turns the run may take
  Deliveries,   \* Action deliveries of the run; none: no Action observer
  Failing       \* whether callbacks and streams may fail

ASSUME SessionAssumption == "none" \notin Questions /\ PageSize \in Nat /\ Turns \in Nat

VARIABLES
  stream,            \* the actor's canonical events after eventCursor
  run,               \* the run: [state, turn]
  asked, open,       \* the approvals it asked for, in order; those pending
  delivering,        \* Action deliveries left
  lifetime,          \* "open", or why the session's signal was aborted
  events, actions, approvals,      \* the observers
  coordinate,        \* latestCoordinate's turn
  activation,        \* whether run.started was seen
  pendingApprovals, approvalMutation,
  wait,              \* the approval wait: [state, after, page]
  decision,          \* the decision under way: [state, of]
  control,           \* the abort under way: [state, turn]
  winner,            \* the first observer's outcome
  completion,        \* what the session's completion settled with
  history            \* callbacks begun: [announced, decided, late, again]

runtimeVars == <<stream, run, asked, open, delivering>>
sessionVars == <<lifetime, events, actions, approvals, coordinate, activation,
                 pendingApprovals, approvalMutation, wait, decision, control,
                 winner, completion, history>>
clientVars == <<runtimeVars, sessionVars>>

Unsettled == "unsettled"
NoCursor == {"none"}
Quiet == [state |-> "idle"]
Observers == <<events, actions, approvals>>

(* A page of the approvals that are pending now, the first in the order    *)
(* they were asked for, which tells the order of any page; the cursor of a *)
(* page is a digest of it.                                                 *)
WasAsked(q) == \E i \in DOMAIN asked : asked[i] = q
Before(p, q) == \E i, j \in DOMAIN asked : i < j /\ asked[i] = p /\ asked[j] = q
listPending == {q \in open : Cardinality({p \in open : Before(p, q)}) < PageSize}

SessionInit ==
  /\ stream = <<[own |-> TRUE, type |-> "queued", turn |-> 0]>>
  /\ run = [state |-> "queued", turn |-> 0]
  /\ asked = <<>> /\ open = {} /\ delivering = Deliveries
  /\ lifetime = "open"
  /\ events = [at |-> "reading", next |-> 1]
  /\ actions = [at |-> IF Deliveries = 0 THEN "settled" ELSE "inactive"]
  /\ approvals = [at |-> IF Questions = {} THEN "settled" ELSE "inactive"]
  /\ coordinate = 0 /\ activation = FALSE
  /\ pendingApprovals = {} /\ approvalMutation = 0
  /\ wait = Quiet /\ decision = Quiet /\ control = Quiet
  /\ winner = Unsettled /\ completion = Unsettled
  /\ history = [announced |-> {}, decided |-> {}, late |-> FALSE,
                again |-> FALSE]

-----------------------------------------------------------------------------
(* The runtime. *)
Emit(type, turn) ==
  stream' = Append(stream, [own |-> TRUE, type |-> type, turn |-> turn])

runStarts ==
  /\ run.state = "queued"
  /\ run' = [state |-> "running", turn |-> 0]
  /\ Emit("started", 0)
  /\ UNCHANGED <<asked, open, delivering>>

turnStarts ==
  /\ run.state = "running" /\ run.turn < Turns /\ open = {}
  /\ run' = [run EXCEPT !.turn = @ + 1]
  /\ Emit("turn", run.turn + 1)
  /\ UNCHANGED <<asked, open, delivering>>

runEnds ==
  /\ run.state \in {"queued", "running"}
  /\ run' = [run EXCEPT !.state = "ended"]
  /\ Emit("completed", run.turn)
  /\ open' = {}
  /\ UNCHANGED <<asked, delivering>>

(* Another run of the same actor is admitted behind this one. *)
otherRun ==
  /\ run.state # "ended" /\ \A i \in DOMAIN stream : stream[i].own
  /\ stream' = Append(stream, [own |-> FALSE, type |-> "queued", turn |-> 0])
  /\ UNCHANGED <<run, asked, open, delivering>>

askApproval(q) ==
  /\ run.state = "running" /\ ~WasAsked(q)
  /\ asked' = Append(asked, q) /\ open' = open \cup {q}
  /\ UNCHANGED <<stream, run, delivering>>

(* Another reviewer decides, or the request expires. *)
closedElsewhere(q) ==
  /\ q \in open
  /\ open' = open \ {q}
  /\ UNCHANGED <<stream, run, asked, delivering>>

runtimeStep ==
  /\ \/ runStarts \/ turnStarts \/ runEnds \/ otherRun
     \/ \E q \in Questions : askApproval(q) \/ closedElsewhere(q)
  /\ UNCHANGED sessionVars

-----------------------------------------------------------------------------
(* An observer that settles offers its outcome to Promise.race. *)
Race(outcome) == winner' = IF winner = Unsettled THEN outcome ELSE winner

(* A callback of the host begins; `late` records one begun after the     *)
(* session had settled.                                                  *)
CallbackBegins(change) ==
  history' = [change EXCEPT !.late = @ \/ completion # Unsettled]

(* observeEvents: the next event of the stream. *)
receiveEvent ==
  LET event == stream[events.next]
      started == event.type = "started"
  IN  /\ events.at = "reading" /\ lifetime = "open"
      /\ events.next <= Len(stream)
      /\ IF event.own
         THEN /\ coordinate' = event.turn
              /\ activation' = (activation \/ started)
              /\ events' = [events EXCEPT !.at = "handling"]
              /\ CallbackBegins(history)
         ELSE /\ events' = [events EXCEPT !.next = @ + 1]
              /\ UNCHANGED <<coordinate, activation, history>>
      /\ UNCHANGED <<runtimeVars, lifetime, actions, approvals, pendingApprovals,
                     approvalMutation, wait, decision, control, winner, completion>>

(* onEvent returned within its deadline. *)
eventHandled ==
  /\ events.at = "handling" /\ lifetime = "open"
  /\ IF stream[events.next].type = "completed"
     THEN events' = [events EXCEPT !.at = "settled"] /\ Race("completed")
     ELSE /\ events' = [at |-> "reading", next |-> events.next + 1]
          /\ UNCHANGED winner
  /\ UNCHANGED <<runtimeVars, lifetime, actions, approvals, coordinate, activation,
                 pendingApprovals, approvalMutation, wait, decision, control,
                 completion, history>>

(* A gap, a stream that ended early, or onEvent failing or overdue. *)
eventsFail ==
  /\ Failing /\ lifetime = "open"
  /\ \/ events.at = "reading" /\ \E reason \in {"gap", "ended"} : Race(reason)
     \/ events.at = "handling" /\ Race("handler")
  /\ events' = [events EXCEPT !.at = "settled"]
  /\ UNCHANGED <<runtimeVars, lifetime, actions, approvals, coordinate, activation,
                 pendingApprovals, approvalMutation, wait, decision, control,
                 completion, history>>

(* observeActions: an Action is delivered to the host, and handled. *)
receiveAction ==
  /\ activation /\ lifetime = "open" /\ actions.at \in {"inactive", "reading"}
  /\ delivering > 0 /\ run.state = "running"
  /\ delivering' = delivering - 1
  /\ actions' = [at |-> "handling"]
  /\ CallbackBegins(history)
  /\ UNCHANGED <<stream, run, asked, open, lifetime, events, approvals, coordinate,
                 activation, pendingApprovals, approvalMutation, wait, decision,
                 control, winner, completion>>

actionHandled ==
  /\ actions.at = "handling" /\ lifetime = "open"
  /\ actions' = [at |-> "reading"]
  /\ UNCHANGED <<runtimeVars, lifetime, events, approvals, coordinate, activation,
                 pendingApprovals, approvalMutation, wait, decision, control,
                 winner, completion, history>>

actionsFail ==
  /\ Failing /\ activation /\ lifetime = "open" /\ actions.at # "settled"
  /\ actions' = [at |-> "settled"]
  /\ Race(IF actions.at = "handling" THEN "handler" ELSE "ended")
  /\ UNCHANGED <<runtimeVars, lifetime, events, approvals, coordinate, activation,
                 pendingApprovals, approvalMutation, wait, decision, control,
                 completion, history>>

-----------------------------------------------------------------------------
(* observeApprovals: the head of the poll loop. *)
Poll(cursor) ==
  /\ approvals' = [at |-> "waiting", cursor |-> cursor, mutation |-> approvalMutation]
  /\ wait' = [state |-> "asked", after |-> cursor]

(* The announcements left of a page: the next begins at once, or the loop *)
(* goes around.                                                           *)
Announce(left, cursor) ==
  \/ left = {} /\ Poll(cursor) /\ UNCHANGED history
  \/ \E q \in left :
       /\ \A p \in left : ~Before(p, q)
       /\ approvals' = [at |-> "handling", cursor |-> cursor,
                        mutation |-> approvalMutation, left |-> left \ {q}]
       /\ wait' = Quiet
       /\ CallbackBegins([history EXCEPT !.announced = @ \cup {q},
                                         !.again = @ \/ q \in history.decided])

beginApprovals ==
  /\ approvals.at = "inactive" /\ activation /\ lifetime = "open"
  /\ Poll(NoCursor)
  /\ UNCHANGED <<runtimeVars, lifetime, events, actions, coordinate, activation,
                 pendingApprovals, approvalMutation, decision, control, winner,
                 completion, history>>

(* The server's /approvals/wait: it answers with a page that differs from *)
(* the caller's cursor, or with any page once the wait is over.           *)
answerWait ==
  /\ wait.state = "asked"
  /\ \/ listPending # wait.after
     \/ run.state = "running"            \* the wait's duration is over
  /\ wait' = [state |-> "answered", page |-> listPending]
  /\ UNCHANGED <<runtimeVars, lifetime, events, actions, approvals, coordinate,
                 activation, pendingApprovals, approvalMutation, decision, control,
                 winner, completion, history>>

(* A local decision cancels the wait that was under way. *)
waitSuperseded ==
  /\ approvals.at = "waiting" /\ lifetime = "open"
  /\ approvals.mutation # approvalMutation
  /\ Poll(approvals.cursor)
  /\ UNCHANGED <<runtimeVars, lifetime, events, actions, coordinate, activation,
                 pendingApprovals, approvalMutation, decision, control, winner,
                 completion, history>>

(* An answer is adopted: what was not pending before is announced. *)
Adopt(page) ==
  /\ pendingApprovals' = page
  /\ Announce(page \ pendingApprovals, page)
  /\ UNCHANGED <<runtimeVars, lifetime, events, actions, coordinate, activation,
                 approvalMutation, decision, control, winner, completion>>

(* Mutant: a page that a local decision has overtaken is adopted too. *)
receiveOvertakenPage ==
  /\ approvals.at = "waiting" /\ lifetime = "open" /\ wait.state = "answered"
  /\ Adopt(wait.page)

receivePage ==
  /\ approvals.at = "waiting" /\ lifetime = "open" /\ wait.state = "answered"
  /\ approvals.mutation = approvalMutation
  /\ Adopt(wait.page)

(* onPending returned: a decision made meanwhile restarts the loop. *)
pendingHandled ==
  /\ approvals.at = "handling" /\ lifetime = "open"
  /\ IF approvals.mutation = approvalMutation
     THEN Announce(approvals.left, approvals.cursor)
     ELSE Poll(approvals.cursor) /\ UNCHANGED history
  /\ UNCHANGED <<runtimeVars, lifetime, events, actions, coordinate, activation,
                 pendingApprovals, approvalMutation, decision, control, winner,
                 completion>>

(* The wait request or onPending fails, or onPending is overdue. *)
approvalsFail ==
  /\ Failing /\ lifetime = "open" /\ approvals.at \in {"waiting", "handling"}
  /\ approvals' = [at |-> "settled"] /\ wait' = Quiet
  /\ Race(IF approvals.at = "handling" THEN "handler" ELSE "ended")
  /\ UNCHANGED <<runtimeVars, lifetime, events, actions, coordinate, activation,
                 pendingApprovals, approvalMutation, decision, control, completion,
                 history>>

-----------------------------------------------------------------------------
(* decideApproval, of an approval the session holds as pending. *)
decideApproval(q) ==
  /\ decision = Quiet /\ q \in pendingApprovals
  /\ decision' = [state |-> "asked", of |-> q]
  /\ UNCHANGED <<runtimeVars, lifetime, events, actions, approvals, coordinate,
                 activation, pendingApprovals, approvalMutation, wait, control,
                 winner, completion, history>>

(* The server decides it, unless it was decided already. *)
serveDecision ==
  /\ decision.state = "asked"
  /\ IF decision.of \in open
     THEN /\ open' = open \ {decision.of}
          /\ decision' = [decision EXCEPT !.state = "accepted"]
     ELSE /\ UNCHANGED open
          /\ decision' = Quiet
  /\ UNCHANGED <<stream, run, asked, delivering, lifetime, events, actions,
                 approvals, coordinate, activation, pendingApprovals,
                 approvalMutation, wait, control, winner, completion, history>>

(* The answer is checked and the approval is forgotten. *)
decided ==
  /\ decision.state = "accepted"
  /\ decision' = Quiet
  /\ pendingApprovals' = pendingApprovals \ {decision.of}
  /\ approvalMutation' = approvalMutation + 1
  /\ history' = [history EXCEPT !.decided = @ \cup {decision.of}]
  /\ UNCHANGED <<runtimeVars, lifetime, events, actions, approvals, coordinate,
                 activation, wait, control, winner, completion>>

(* The answer is lost: decideApproval throws and changes nothing. *)
decisionLost ==
  /\ Failing /\ decision.state = "accepted"
  /\ decision' = Quiet
  /\ UNCHANGED <<runtimeVars, lifetime, events, actions, approvals, coordinate,
                 activation, pendingApprovals, approvalMutation, wait, control,
                 winner, completion, history>>

(* abort, with the coordinate of the latest event the session has seen. *)
requestAbort ==
  /\ control = Quiet
  /\ control' = [state |-> "asked", turn |-> coordinate]
  /\ UNCHANGED <<runtimeVars, lifetime, events, actions, approvals, coordinate,
                 activation, pendingApprovals, approvalMutation, wait, decision,
                 winner, completion, history>>

(* The runtime's control: only at the coordinate the run is at. *)

serveControl ==
  /\ control.state = "asked"
  /\ IF run.state # "ended" /\ run.turn = control.turn
     THEN /\ run' = [run EXCEPT !.state = "ended"]
          /\ Emit("completed", run.turn)
          /\ open' = {}
          /\ control' = [state |-> "accepted", turn |-> control.turn]
     ELSE /\ control' = [state |-> "refused"]
          /\ UNCHANGED <<run, stream, open>>
  /\ UNCHANGED <<asked, delivering, lifetime, events, actions, approvals,
                 coordinate, activation, pendingApprovals, approvalMutation, wait,
                 decision, winner, completion, history>>

-----------------------------------------------------------------------------
(* close, or the caller's signal. *)
close ==
  /\ lifetime = "open"
  /\ lifetime' = "closed"
  /\ UNCHANGED <<runtimeVars, events, actions, approvals, coordinate, activation,
                 pendingApprovals, approvalMutation, wait, decision, control,
                 winner, completion, history>>

(* The race is over: the other observers are told to stop. *)
siblingsStopped ==
  /\ winner # Unsettled /\ lifetime = "open"
  /\ lifetime' = "settled"
  /\ UNCHANGED <<runtimeVars, events, actions, approvals, coordinate, activation,
                 pendingApprovals, approvalMutation, wait, decision, control,
                 winner, completion, history>>

(* An observer meets the aborted signal at its await. *)
observerStops ==
  /\ lifetime # "open"
  /\ \/ /\ events.at # "settled" /\ events' = [events EXCEPT !.at = "settled"]
        /\ UNCHANGED <<actions, approvals, wait>>
     \/ /\ actions.at # "settled" /\ actions' = [at |-> "settled"]
        /\ UNCHANGED <<events, approvals, wait>>
     \/ /\ approvals.at # "settled" /\ approvals' = [at |-> "settled"] /\ wait' = Quiet
        /\ UNCHANGED <<events, actions>>
  /\ Race(lifetime)
  /\ UNCHANGED <<runtimeVars, lifetime, coordinate, activation, pendingApprovals,
                 approvalMutation, decision, control, completion, history>>

(* observe's finally: all observers have settled. *)

settle ==
  /\ completion = Unsettled /\ \A i \in DOMAIN Observers : Observers[i].at = "settled"
  /\ completion' = winner
  /\ UNCHANGED <<runtimeVars, lifetime, events, actions, approvals, coordinate,
                 activation, pendingApprovals, approvalMutation, wait, decision,
                 control, winner, history>>

Observe ==
  \/ receiveEvent \/ eventHandled \/ receiveAction \/ actionHandled
  \/ beginApprovals \/ answerWait \/ waitSuperseded \/ receivePage
  \/ pendingHandled
  \/ siblingsStopped \/ observerStops \/ settle

SessionNext ==
  \/ runtimeStep \/ Observe \/ eventsFail \/ actionsFail \/ approvalsFail
  \/ \E q \in Questions : decideApproval(q)
  \/ serveDecision \/ decided \/ decisionLost \/ requestAbort \/ serveControl \/ close

SessionSpec == SessionInit /\ [][SessionNext]_clientVars

(* The host's deadlines and the promises of an event loop: each observer, *)
(* the race and the session's end go on while they can.                   *)
SessionFairness ==
  /\ WF_clientVars(receiveEvent) /\ WF_clientVars(eventHandled)
  /\ WF_clientVars(siblingsStopped) /\ WF_clientVars(observerStops) /\ WF_clientVars(settle)

-----------------------------------------------------------------------------
(* No callback of the host begins once the session's completion has settled, *)
(* and one that completed has handed over every event of its run before.     *)
CallbacksWithinSession ==
  /\ ~history.late
  /\ completion = "completed" =>
       /\ run.state = "ended"
       /\ \A i \in DOMAIN stream : stream[i].own => i <= events.next

(* An approval the player has decided here is never announced as pending   *)
(* again, however late the page it was still on arrives.                   *)
NotAskedAgain == ~history.again

(* An observer whose wait can only time out holds exactly what is pending. *)
PendingAgrees ==
  (/\ approvals.at = "waiting" /\ wait.state = "asked" /\ decision = Quiet
   /\ approvals.cursor = listPending)
    => pendingApprovals = listPending

(* An abort ends the run only in a turn whose events the player had seen. *)
AbortedWhereSeen ==
  control.state = "accepted" => control.turn = run.turn

(* What the player decided here stays decided: the approval is not         *)
(* announced again, the pending approvals are the runtime's, and an abort  *)
(* ends the run only in a turn whose events the player had seen.  No       *)
(* callback of the host begins outside its session, and a session that     *)
(* completed has handed over every event of its run.                       *)
DecidedStaysDecided ==
  NotAskedAgain /\ PendingAgrees /\ AbortedWhereSeen /\ CallbacksWithinSession

(* A pending approval is announced: an observer whose wait can only time *)
(* out has announced every approval on the current page.                 *)
PendingAnnounced ==
  (approvals.at = "waiting" /\ wait.state = "asked" /\ approvals.cursor = listPending)
    => listPending \subseteq history.announced

(* Once the run has ended or the session is closed, completion settles. *)
SessionSettles ==
  (run.state = "ended" \/ lifetime # "open") ~> completion # Unsettled
=============================================================================
