------------------------------ MODULE MCActions ------------------------------
(***************************************************************************)
(* Small instances, for TLC, of Actions from the tool that asks for them to *)
(* the engine that carries them out, of the stores they are kept in, and of *)
(* the client's session they belong to; a behaviour is about one of the    *)
(* Sessions.                                                               *)
(*   tool       two calls of the reliable Action tool for one Action,      *)
(*              while the game's authority over it changes                 *)
(*   goals      an Action bound to a Goal, two workers of the projector    *)
(*   goalTable  the SQLite Goal store                                      *)
(*   journal    the SQLite Action journal                                  *)
(*   pump       the Unity Action pump with an Action whose lapsed claim is *)
(*              inspected or, if it is safe, replayed                      *)
(*   delivery   the event stream of one client that reconnects once        *)
(*   run        a client's run session with turns, Actions and failures    *)
(*   approvals  a run session with two approvals, in pages of PageSize     *)
(*   failures   a run session with one approval and failures               *)
(***************************************************************************)
EXTENDS EventDelivery, ReliableAction, GoalService, RunSession, EngineActionPump, TLC

CONSTANTS c1, c2, w1, w2, g1, g2, p1, p2, r1, act, move, wave, npc, quest, door,
          NoOwner, AnyRun, Sessions

VARIABLES
  session,
  goalRows, goalRetirementRows, goalSequence,
  journalRows, conflictRows, actionSequence,
  tokens, closed, actionLapsed, issued, recovering, effects, fenced

goalTables == <<goalRows, goalRetirementRows, goalSequence>>
journal == <<journalRows, conflictRows, actionSequence,
             tokens, closed, actionLapsed, issued, recovering, effects, fenced>>
game == <<pumpVars, deliveryVars, clientVars>>
vars == <<session, toolVars, serviceVars, goalTables, journal, game>>

OneAction == [c \in {c1, c2} |-> act]

GoalTable == INSTANCE SqliteGoalStore WITH
  GoalIds <- {g1, g2}, Partitions <- {p1, p2}, RetirementIds <- {r1}, MaxSteps <- 0, MaxTick <- 1,
  MaxOpenGoals <- 1, MaxGoalKey <- 2, MaxRevision <- 2, StepEvidence <- {act}

(* TLC evaluates the constant definitions of a module that is extended, and *)
(* nowhere instantiated, for the constants of the cfg only.                *)
GoalBounds == INSTANCE GoalRecords WITH
  GoalIds <- {g1, g2}, Partitions <- {p1, p2}, RetirementIds <- {r1}, MaxSteps <- 0, MaxTick <- 1,
  MaxOpenGoals <- 1, MaxGoalKey <- 2, MaxRevision <- 2, StepEvidence <- {act}

Rows == INSTANCE SqliteActionJournal WITH
  Operations <- {move, wave}, Streams <- {npc}, Runs <- {quest}, Keys <- {door},
  StreamOf <- [op \in {move, wave} |-> npc], RunOf <- [op \in {move, wave} |-> quest],
  PolicyOf <- [op \in {move, wave} |-> IF op = move THEN "recoverable" ELSE "safe"],
  ConflictKeysOf <- [op \in {move, wave} |-> {door}], GoalBound <- {move},
  MaxPendingGoals <- 1, CandidateLimit <- 2, MaxTokens <- 2, MaxAdmissions <- 2,
  lapsed <- actionLapsed

Run == INSTANCE RunSession WITH
  Questions <- {}, PageSize <- 1, Turns <- 1, Deliveries <- 1, Failing <- TRUE

Failures == INSTANCE RunSession WITH
  Questions <- {"trade"}, PageSize <- 1, Turns <- 1, Deliveries <- 0, Failing <- TRUE

Init ==
  /\ session \in Sessions
  /\ ToolInit
  /\ ServiceInit /\ GoalTable!RowsInit /\ Rows!RowsInit
  /\ PumpInit /\ (session # "pump" => action.policy = "recoverable") /\ DeliveryInit
  /\ \/ session = "approvals" /\ SessionInit
     \/ session = "failures" /\ Failures!SessionInit
     \/ session \notin {"approvals", "failures"} /\ Run!SessionInit

AtRest == UNCHANGED <<toolVars, serviceVars, goalTables, journal>>

Next ==
  /\ UNCHANGED session
  /\ \/ session = "tool" /\ ToolNext /\ UNCHANGED <<serviceVars, goalTables, journal, game>>
     \/ session = "goals" /\ ServiceNext /\ UNCHANGED <<toolVars, goalTables, journal, game>>
     \/ session = "goalTable" /\ GoalTable!RowsNext /\ UNCHANGED <<toolVars, serviceVars, journal, game>>
     \/ session = "journal" /\ Rows!RowsNext /\ UNCHANGED <<toolVars, serviceVars, goalTables, game>>
     \/ /\ AtRest /\ UNCHANGED <<deliveryVars, clientVars>>
        /\ session = "pump" /\ PumpNext
     \/ /\ AtRest /\ UNCHANGED <<pumpVars, clientVars>>
        /\ session = "delivery" /\ DeliveryNext
     \/ /\ AtRest /\ UNCHANGED <<pumpVars, deliveryVars>>
        /\ \/ session = "run" /\ Run!SessionNext
           \/ session = "approvals" /\ SessionNext
           \/ session = "failures" /\ Failures!SessionNext

Spec == Init /\ [][Next]_vars

Symmetry == Permutations({c1, c2}) \cup Permutations({w1, w2})

(* Every transaction of the SQLite stores of approvals, Goals and Actions  *)
(* is a step of the store in memory, and leaves rows that pass a load.     *)
ImplementsStores ==
  /\ Approvals!Init /\ GoalTable!Store!GoalInit /\ Rows!Journal!Init
  /\ [][session = "tool" => [Approvals!Next]_approvalRows]_vars
  /\ [][session = "goalTable" => [GoalTable!Store!GoalNext]_(GoalTable!Store!goalVars)]_vars
  /\ [][session = "journal" => [Rows!Journal!Next]_(Rows!Journal!vars)]_vars
  /\ [](session = "tool" => ApprovalRowsLoadable)
  /\ [](session = "journal" => Rows!JournalRowsLoadable)
=============================================================================
