--------------------------- MODULE EngineActionPump ---------------------------
(* The Unity engine's Action pump (AuthoritativeActionPump.cs) and the    *)
(* permits it hands to the game's adapter (AuthoritativeActionAdapter.cs),*)
(* with one Action of the journal.  A step ends where the coroutine yields*)
(* or a callback of the game begins.  The journal's side is its settlement*)
(* of that one Action, which ActionJournal models in full; there the      *)
(* game's answers are assumed to be honest, and a safe Action's attempt   *)
(* not to commit after its claim has lapsed: here the pump shows both.    *)
(* Time is two flags: whether the pump's deadline for the adapter is over *)
(* and whether the claim has lapsed.  The pump takes what remains of a    *)
(* claim from the engine's own clock and the server's expiry, so that the *)
(* deadline comes first is an assumption: the engine's clock is not behind*)
(* the one by which the journal lets a claim lapse.                       *)
EXTENDS Naturals, FiniteSets

CONSTANTS
  MaxTokens,   \* bound on the claims of the Action
  Retries,     \* length of deliveryRetryDelaysSeconds
  Policies,    \* of {"recoverable", "safe"}: a lapsed claim of a safe Action is replayed
  MaxRestarts  \* bound on disabling, and on crashes, of the pump

VARIABLES
  action,      \* the journal's record: [status, token, answered, policy]
  lapsed,      \* the claims whose expiry has passed
  pump,        \* [state, recovering, epoch, token, evidence, attempt, read]
  overdue,     \* whether the adapter's deadline has passed
  permits,     \* per claim, the execution context: [epoch, cancelled, completion, outcome]
  requests,    \* evidence requests that may still reach the server
  world,       \* the claims under which the game changed its world
  late,        \* whether a change was made under a claim that was not current
  restarts
pumpVars == <<action, lapsed, pump, overdue, permits, requests, world, late, restarts>>

Tokens == 1 .. MaxTokens
Held == action.status \in {"claimed", "uncertain"}
Current(token) == Held /\ action.token = token
Replayed == action.policy = "safe"
NoPermit == [epoch |-> 0, cancelled |-> TRUE, completion |-> 2, outcome |-> "none"]
Stopped == pump.state \in {"Stopped", "Halted"}

PumpInit ==
  /\ action \in [status : {"pending"}, token : {0}, answered : {"none"}, policy : Policies]
  /\ lapsed = {} /\ overdue = FALSE
  /\ pump = [state |-> "Idle", recovering |-> TRUE, epoch |-> 0, token |-> 0,
             evidence |-> "none", attempt |-> 0, read |-> 0]
  /\ permits = [t \in Tokens |-> NoPermit]
  /\ requests = {} /\ world = {} /\ late = FALSE /\ restarts = 0

-----------------------------------------------------------------------------
(* The journal: a receipt or a reconciliation of the claim `token`. *)
StatusAfter(evidence) ==
  CASE evidence \in {"succeeded", "applied"} -> "succeeded"
    [] evidence = "rejected" -> "failed"
    [] evidence = "not-applied" -> "pending"
    [] OTHER -> "uncertain"

Meaning(evidence) ==
  CASE evidence = "applied" -> "succeeded"
    [] evidence = "not-applied" -> "rejected"
    [] OTHER -> evidence

Accepts(request) ==
  IF request.call = "receipt"
  THEN Current(request.token) /\ action.answered = "none"
  ELSE /\ Current(request.token)
       /\ action.answered # "none" => request.evidence # "unknown"

Repeats(request) ==
  action.token = request.token /\ action.answered = Meaning(request.evidence)

record(request) ==
  IF Accepts(request)
  THEN action' = [action EXCEPT !.status = StatusAfter(request.evidence),
                                !.answered = Meaning(request.evidence)]
  ELSE UNCHANGED action

(* The claim's expiry passes; the deadline of an execution under it is no *)
(* later (TrySetExecutionDeadline) where the two clocks agree.            *)
lapse ==
  /\ action.status = "claimed" /\ action.token \notin lapsed
  /\ (pump.state = "Executing" /\ pump.token = action.token) => overdue
  /\ lapsed' = lapsed \cup {action.token}
  /\ UNCHANGED <<action, pump, overdue, permits, requests, world, late, restarts>>

deadlinePasses ==
  /\ pump.state \in {"Executing", "Inspecting"} /\ ~overdue
  /\ overdue' = TRUE
  /\ UNCHANGED <<action, lapsed, pump, permits, requests, world, late, restarts>>

-----------------------------------------------------------------------------
(* Pump: the request at the head of the loop and what it delivers. *)
Inspecting(token) ==
  /\ pump' = [pump EXCEPT !.state = "Inspecting", !.token = token,
                          !.evidence = "none"]
  /\ overdue' = FALSE

Halt ==
  /\ pump' = [pump EXCEPT !.state = "Halted"]
  /\ permits' = [t \in Tokens |-> [permits[t] EXCEPT !.cancelled = TRUE]]

recoverAction ==
  /\ pump.state = "Idle" /\ pump.recovering
  /\ IF Held
     THEN /\ pump' = [pump EXCEPT !.state = "Inspecting", !.token = action.token,
                        !.evidence = "none", !.epoch = @ + 1, !.read = 0]
          /\ overdue' = FALSE
     ELSE /\ pump' = [pump EXCEPT !.recovering = FALSE]
          /\ UNCHANGED overdue
  /\ UNCHANGED <<action, lapsed, permits, requests, world, late, restarts>>

Replayable == Replayed /\ action.status = "claimed" /\ action.token \in lapsed
Claimable == (action.status = "pending" \/ Replayable) /\ action.token < MaxTokens

(* The next delivery: unsettled work first, a fresh or replayed claim      *)
(* otherwise.  A claim that has lapsed by the time it is read is inspected. *)

nextAction ==
  /\ pump.state = "Idle" /\ ~pump.recovering
  /\ \/ /\ Claimable
        /\ LET token == action.token + 1
           IN  /\ action' = [action EXCEPT !.status = "claimed", !.token = token, !.answered = "none"]
               /\ pump' = [pump EXCEPT !.state = "Executing", !.token = token,
                             !.evidence = "none", !.epoch = @ + 1, !.read = 0]
               /\ permits' = [permits EXCEPT ![token] =
                    [epoch |-> pump.epoch + 1, cancelled |-> FALSE, completion |-> 0,
                     outcome |-> "none"]]
     \/ /\ Held /\ ~Replayable
        /\ pump' = [pump EXCEPT !.state = "Inspecting", !.token = action.token,
                      !.evidence = "none", !.epoch = @ + 1, !.read = 0]
        /\ UNCHANGED <<action, permits>>
  /\ overdue' = FALSE
  /\ UNCHANGED <<lapsed, requests, world, late, restarts>>

(* A dispatched claim's answer is lost, even one asked for before a      *)
(* restart; or the claim has lapsed before the pump reads it.             *)
dispatchLost ==
  /\ pump.state = "Idle" /\ Claimable
  /\ action' = [action EXCEPT !.status = "claimed", !.token = @ + 1, !.answered = "none"]
  /\ \/ /\ ~pump.recovering \/ restarts > 0
        /\ UNCHANGED <<lapsed, pump, overdue>>
     \/ /\ ~pump.recovering
        /\ lapsed' = lapsed \cup {action.token + 1}
        /\ pump' = [pump EXCEPT !.state = "Inspecting", !.token = action.token + 1,
                      !.evidence = "none", !.epoch = @ + 1, !.read = 0]
        /\ overdue' = FALSE
  /\ UNCHANGED <<permits, requests, world, late, restarts>>

-----------------------------------------------------------------------------
(* Mutant: a context kept by the game stays good. *)
neverCancelled(t) == FALSE

(* AuthoritativeActionExecutionContext.TryCommit, called by the game from   *)
(* wherever it kept the context: the permit is taken once, and holds only   *)
(* while the pump executes this delivery and the deadline has not passed.   *)
IsCancellationRequested(t) ==
  \/ permits[t].cancelled
  \/ pump.state # "Executing" \/ permits[t].epoch # pump.epoch \/ overdue

(* The game's transaction answers succeeded; a receipt that says rejected *)
(* or unknown is that of one that changed nothing.                        *)
TryCommit(t) ==
  /\ permits[t].completion = 0
  /\ IF IsCancellationRequested(t)
     THEN /\ permits' = [permits EXCEPT ![t].completion = 1]
          /\ UNCHANGED <<world, late>>
     ELSE \/ /\ permits' = [permits EXCEPT ![t].completion = 1]   \* authority has changed
             /\ UNCHANGED <<world, late>>
          \/ \E throws \in BOOLEAN :     \* the transaction may throw behind its effect
               /\ permits' = [permits EXCEPT ![t] = IF throws THEN [@ EXCEPT !.completion = 1]
                                ELSE [@ EXCEPT !.completion = 2, !.outcome = "succeeded"]]
               /\ world' = IF Replayed /\ world # {} THEN world ELSE world \cup {t}
               /\ late' = (late \/ ~Current(t) \/ t \in lapsed)
  /\ UNCHANGED <<action, lapsed, pump, overdue, requests, restarts>>

TryCompleteWithoutWrite(t) ==
  /\ permits[t].completion = 0
  /\ IF IsCancellationRequested(t)
     THEN permits' = [permits EXCEPT ![t].completion = 1]
     ELSE \E outcome \in {"unknown"} \cup (IF world = {} THEN {"rejected"} ELSE {}) :
            permits' = [permits EXCEPT ![t].completion = 2, ![t].outcome = outcome]
  /\ UNCHANGED <<action, lapsed, pump, overdue, requests, world, late, restarts>>

(* Execute goes on once the context is complete, the adapter has finished  *)
(* or failed, or the deadline has passed: the context is cancelled and its *)
(* receipt delivered, or the game inspected.                               *)
executed ==
  LET permit == permits[pump.token]
  IN  /\ pump.state = "Executing"
      /\ permits' = [permits EXCEPT ![pump.token].cancelled = TRUE]
      /\ IF permit.completion = 2
         THEN /\ pump' = [pump EXCEPT !.state = "DeliveringReceipt",
                            !.evidence = permit.outcome, !.attempt = 0]
              /\ UNCHANGED overdue
         ELSE Inspecting(pump.token)
      /\ UNCHANGED <<action, lapsed, requests, world, late, restarts>>

(* Inspect: the game tells what became of the Action. *)
(* Mutant: an inspection is waited for beyond its deadline. *)
inspectedForever ==
  /\ pump.state = "Inspecting" /\ ~overdue
  /\ \E resolution \in {"applied", "not-applied", "unknown"} :
       /\ resolution = "applied" => world # {}
       /\ resolution = "not-applied" => world = {}
       /\ pump' = [pump EXCEPT !.state = "Reconciling", !.evidence = resolution,
                               !.attempt = 0]
  /\ UNCHANGED <<action, lapsed, overdue, permits, requests, world, late, restarts>>

inspected ==
  /\ pump.state = "Inspecting"
  /\ \/ /\ ~overdue
        /\ \E resolution \in {"applied", "not-applied", "unknown"} :
             /\ resolution = "applied" => world # {}
             /\ resolution = "not-applied" => world = {}
             /\ pump' = [pump EXCEPT !.state = "Reconciling", !.evidence = resolution,
                                     !.attempt = 0]
        /\ UNCHANGED permits
     \/ Halt                      \* the adapter failed or gave no answer in time
  /\ UNCHANGED <<action, lapsed, overdue, requests, world, late, restarts>>

-----------------------------------------------------------------------------
(* DeliverRecord: the evidence is sent, and sent again after an ambiguous *)
(* failure; a request whose answer is lost may still be served.           *)
Delivering == pump.state \in {"DeliveringReceipt", "Reconciling"}
Evidence == [call |-> IF pump.state = "Reconciling" THEN "reconcile" ELSE "receipt",
             token |-> pump.token, evidence |-> pump.evidence]

(* The server answers, and the pump goes on, or reads why it conflicts. *)
delivered ==
  /\ Delivering
  /\ record(Evidence)
  /\ pump' = [pump EXCEPT !.attempt = 0, !.state =
                IF ~(Accepts(Evidence) \/ Repeats(Evidence)) THEN "Reading"
                ELSE IF pump.evidence = "unknown" THEN "Halted" ELSE "Idle"]
  /\ UNCHANGED <<lapsed, overdue, permits, requests, world, late, restarts>>

deliveryLost ==
  /\ Delivering
  /\ requests' = requests \cup {Evidence}
  /\ pump' = IF pump.attempt >= Retries THEN [pump EXCEPT !.state = "Halted"]
             ELSE [pump EXCEPT !.attempt = @ + 1]
  /\ UNCHANGED <<action, lapsed, overdue, permits, world, late, restarts>>

(* The server refuses a request of the pump. *)
rejected ==
  /\ Delivering \/ pump.state \in {"Reading", "Idle"}
  /\ Halt
  /\ UNCHANGED <<action, lapsed, overdue, requests, world, late, restarts>>

(* A request thought lost reaches the server after all. *)
servedLate(request) ==
  /\ record(request)
  /\ requests' = requests \ {request}
  /\ UNCHANGED <<lapsed, pump, overdue, permits, world, late, restarts>>

(* ResolveConflict: the pump reads the record that its evidence conflicts  *)
(* with, and inspects it if it is unsettled under another claim.           *)
resolveConflict ==
  /\ pump.state = "Reading"
  /\ IF ~Held THEN /\ pump' = [pump EXCEPT !.state = "Idle"]
                   /\ UNCHANGED overdue
     ELSE IF pump.read = action.token
       THEN pump' = [pump EXCEPT !.state = "Halted"] /\ UNCHANGED overdue
     ELSE /\ pump' = [pump EXCEPT !.state = "Inspecting", !.token = action.token,
                        !.evidence = "none", !.epoch = @ + 1, !.read = action.token]
          /\ overdue' = FALSE
  /\ UNCHANGED <<action, lapsed, permits, requests, world, late, restarts>>

-----------------------------------------------------------------------------
(* OnDisable, and a crash of the engine; the world the game keeps. *)
OnDisable ==
  /\ pump.state # "Stopped" /\ restarts < MaxRestarts
  /\ restarts' = restarts + 1
  /\ \E crashed \in BOOLEAN :
       permits' = [t \in Tokens |-> IF crashed THEN NoPermit
                                    ELSE [permits[t] EXCEPT !.cancelled = TRUE]]
  /\ requests' = IF Delivering THEN requests \cup {Evidence} ELSE requests
  /\ pump' = [pump EXCEPT !.state = "Stopped"]
  /\ UNCHANGED <<action, lapsed, overdue, world, late>>

OnEnable ==
  /\ pump.state = "Stopped"
  /\ pump' = [pump EXCEPT !.state = "Idle", !.recovering = TRUE]
  /\ UNCHANGED <<action, lapsed, overdue, permits, requests, world, late, restarts>>

Work ==
  \/ recoverAction \/ nextAction \/ executed \/ inspected
  \/ delivered \/ resolveConflict \/ OnEnable

PumpNext ==
  \/ Work \/ dispatchLost \/ deadlinePasses \/ lapse
  \/ deliveryLost \/ rejected \/ OnDisable
  \/ \E t \in Tokens : TryCommit(t) \/ TryCompleteWithoutWrite(t)
  \/ \E request \in requests : servedLate(request)

PumpSpec == PumpInit /\ [][PumpNext]_pumpVars

(* The engine's frames go on, and a server that can be reached answers. *)
PumpFairness == WF_pumpVars(Work) /\ SF_pumpVars(delivered)

-----------------------------------------------------------------------------
(* What the journal records of the Action is what became of the world, at  *)
(* once and for good: an answer on its way cannot be overtaken by a change. *)
JournalTruthful ==
  /\ action.status = "succeeded" => world # {}
  /\ action.status = "failed" => world = {}
  /\ (action.status = "pending" /\ ~Replayed) => world = {}
  /\ ~Replayed => Cardinality(world) <= 1

(* The world changes only under a claim that the journal holds and that has *)
(* not lapsed, however long the game keeps a context.                       *)
ChangedUnderClaim == ~late

(* The world changes only under a live claim, and the journal records it:  *)
(* no context that the game keeps, no report that arrives late or twice    *)
(* and no restart of the pump makes the two disagree.                      *)
ChangesRecorded == JournalTruthful /\ ChangedUnderClaim

(* A claimed Action is settled, or its pump stopped and says so. *)
ClaimSettles == Held ~> (~Held \/ Stopped)
=============================================================================
