------------------------------ MODULE MCProgress ------------------------------
(***************************************************************************)
(* Small instances for TLC whose properties include that work goes on; a   *)
(* behaviour is about one of them.                                         *)
(*   journal    two actors' Actions that contend for one conflict key: an  *)
(*              Action that must never be replayed, and a safe one         *)
(*   pump       the Unity Action pump with a recoverable Action            *)
(*   delivery   the event stream of one client that reconnects once        *)
(*   run        a client's run session with turns, Actions and failures    *)
(***************************************************************************)
EXTENDS ActionJournal

VARIABLES
  session,
  action, pumpLapsed, pump, overdue, permits, requests, world, late, restarts,
  latest, purged, handler, wire, reader, received,
  stream, run, asked, open, delivering, lifetime, events, actions, approvals,
  coordinate, activation, pendingApprovals, approvalMutation, wait, decision, control,
  winner, completion, history

engine == <<action, pumpLapsed, pump, overdue, permits, requests, world, late, restarts>>
delivery == <<latest, purged, handler, wire, reader, received>>
runSession == <<stream, run, asked, open, delivering, lifetime, events, actions, approvals,
                coordinate, activation, pendingApprovals, approvalMutation, wait, decision,
                control, winner, completion, history>>
all == <<session, vars, engine, delivery, runSession>>

MCStreamOf == [op \in Operations |-> IF op = "heal" THEN "npc2" ELSE "npc1"]
MCRunOf == [op \in Operations |-> IF op = "heal" THEN "r2" ELSE "r1"]
MCPolicyOf == [op \in Operations |-> IF op = "give" THEN "never" ELSE "safe"]
MCConflictKeysOf == [op \in Operations |-> {"chest"}]

Pump == INSTANCE EngineActionPump WITH
  lapsed <- pumpLapsed, MaxTokens <- 2, Retries <- 0, Policies <- {"recoverable"}, MaxRestarts <- 1

Stream == INSTANCE EventDelivery WITH
  LastRevision <- 4, Hidden <- {2}, Oversized <- {4}, PageLimit <- 1, Backlog <- 1,
  MaxAttempts <- 2, PurgeAnywhere <- FALSE

Run == INSTANCE RunSession WITH
  Questions <- {}, PageSize <- 1, Turns <- 1, Deliveries <- 1, Failing <- TRUE

SessionsInit ==
  /\ session \in {"journal", "pump", "delivery", "run"}
  /\ Init /\ Pump!PumpInit /\ Stream!DeliveryInit /\ Run!SessionInit

SessionsNext ==
  /\ UNCHANGED session
  /\ \/ session = "journal" /\ Next /\ UNCHANGED <<engine, delivery, runSession>>
     \/ session = "pump" /\ Pump!PumpNext /\ UNCHANGED <<vars, delivery, runSession>>
     \/ session = "delivery" /\ Stream!DeliveryNext /\ UNCHANGED <<vars, engine, runSession>>
     \/ session = "run" /\ Run!SessionNext /\ UNCHANGED <<vars, engine, delivery>>

(* The journal's workers keep polling and its game answers; the frames of  *)
(* the engine go on and a server that can be reached answers; the event    *)
(* loops of the server and of the client go on.                            *)
SessionsSpec ==
  /\ SessionsInit /\ [][SessionsNext]_all
  /\ Fairness
  /\ WF_engine(session = "pump" /\ Pump!Work)
  /\ SF_engine(session = "pump" /\ Pump!delivered)
  /\ WF_delivery(session = "delivery" /\ Stream!Deliver)
  /\ WF_runSession(session = "run" /\ Run!receiveEvent)
  /\ WF_runSession(session = "run" /\ Run!eventHandled)
  /\ WF_runSession(session = "run" /\ Run!siblingsStopped)
  /\ WF_runSession(session = "run" /\ Run!observerStops)
  /\ WF_runSession(session = "run" /\ Run!settle)

Unsettled ==
  \/ session = "pump" /\ Pump!Held /\ ~Pump!Stopped
  \/ session = "delivery" /\ ~Stream!CaughtUpNow
  \/ session = "run" /\ (run.state = "ended" \/ lifetime # "open") /\ completion = "unsettled"

(* A claimed Action is settled or its pump stops and says so; a client     *)
(* that stays connected catches up with its actor's events; a run session  *)
(* whose run has ended, or that was closed, settles.                       *)
Settles == Unsettled ~> ~Unsettled
=============================================================================
