--------------------------- MODULE ReliableAction ---------------------------
(***************************************************************************)
(* The reliable Action tool over the SQLite authority: tool calls that ask *)
(* for an approval, wait for a player's decision, spend the approval and   *)
(* admit the Action in one transaction, wait for the game to settle it,    *)
(* and report to the model.  Calls are aborted, the process stops, and the *)
(* transcript recovery then answers from the Action journal alone.         *)
(***************************************************************************)
EXTENDS ActionApprovalRecords, FiniteSets

CONSTANTS Calls, OperationOf

VARIABLES
  approvalRows,   \* table action_approvals
  actionRows,     \* table action_records, of the Operations
  runAuthority,   \* "open", "closed"
  gameAuthority,  \* the revision readAuthority returns
  toolCalls,      \* the execution of each tool call
  unseen,         \* calls whose snapshot of the coordinator's ChangeNotifier is old
  owed,           \* decisions written whose notify has not run yet
  spent           \* history: approvals consumed, with the Action's admission

toolVars == <<approvalRows, actionRows, runAuthority, gameAuthority, toolCalls,
              unseen, owed, spent>>

Approvals == INSTANCE ActionApprovals WITH approvals <- approvalRows

Modes == {"disabled", "explicit-only", "allowed-in-task", "confirm-once"}
NoAction == [status |-> "absent", authority |-> 0]
NoCall == [pc |-> "idle", expected |-> 0, current |-> 0, revision |-> 0,
           requestedAt |-> Never, consent |-> FALSE]

at(c) == toolCalls[c].pc
id(c) == <<OperationOf[c], toolCalls[c].expected>>
Outcomes == {"denied", "error", "unresolved", "aborted", "succeeded", "failed", "uncertain",
             "not_started", "outcome_unknown", "completed"}
step(c, pc) ==
  toolCalls' = [toolCalls EXCEPT ![c] = IF pc \in Outcomes THEN [NoCall EXCEPT !.pc = pc]
                                         ELSE [@ EXCEPT !.pc = pc]]
notify == unseen' = Calls

authorities == <<runAuthority, gameAuthority>>
tables == <<approvalRows, actionRows, spent>>

-----------------------------------------------------------------------------
(* Before the approval *)

evaluateActionPolicy(mode, requested) ==
  IF mode = "confirm-once" THEN "approval-required"
  ELSE IF mode # "disabled" /\ requested THEN "authorized" ELSE "denied"

resolveScope(c) ==
  /\ at(c) = "idle"
  /\ \E mode \in Modes, requested \in BOOLEAN :
       LET policy == evaluateActionPolicy(mode, requested)
       IN  toolCalls' = [toolCalls EXCEPT ![c] =
             [NoCall EXCEPT !.pc = IF policy = "denied" THEN "denied" ELSE "readAuthority",
                            !.consent = (policy = "approval-required")]]
  /\ UNCHANGED <<tables, authorities, unseen, owed>>

readAuthority(c) ==
  /\ at(c) = "readAuthority"
  /\ toolCalls' = [toolCalls EXCEPT
       ![c].pc = IF toolCalls[c].consent THEN "request" ELSE "submit",
       ![c].expected = gameAuthority]
  /\ UNCHANGED <<tables, authorities, unseen, owed>>

ensureRow(i, now) ==
  IF approvalRows[i] = NoApproval THEN [approvalRows EXCEPT ![i] = Requested(now)]
  ELSE approvalRows

request(c, now) ==
  /\ at(c) = "request"
  /\ approvalRows' = ensureRow(id(c), now)
  /\ notify
  /\ toolCalls' = [toolCalls EXCEPT ![c].pc = "snapshot",
                                    ![c].requestedAt = approvalRows'[id(c)].requestedAt]
  /\ UNCHANGED <<actionRows, spent, authorities, owed>>

-----------------------------------------------------------------------------
(* waitForDecision *)

snapshot(c) ==
  /\ at(c) = "snapshot" /\ step(c, "read")
  /\ unseen' = unseen \ {c}
  /\ UNCHANGED <<tables, authorities, owed>>

SameRequest(c, row) == row.requestedAt = toolCalls[c].requestedAt

readDecision(c) ==
  LET row == approvalRows[id(c)]
  IN  /\ at(c) = "read"
      /\ toolCalls' = [toolCalls EXCEPT
           ![c].pc = IF row = NoApproval \/ ~SameRequest(c, row) THEN "error"
                     ELSE IF row.status = "pending" THEN "undecided"
                     ELSE IF row.status \in {"approved", "consumed"} THEN "confirmAuthority"
                     ELSE "denied",
           ![c].revision = IF row = NoApproval THEN 0
                           ELSE IF row.status = "consumed" THEN row.revision - 1 ELSE row.revision]
      /\ UNCHANGED <<tables, authorities, unseen, owed>>

(* The deadline of the request has passed: expire it, or read again.       *)
expireUndecided(c, now) ==
  LET row == approvalRows[id(c)]
  IN  /\ at(c) = "undecided"
      /\ row # NoApproval => now >= row.expiresAt
      /\ IF row = NoApproval THEN step(c, "error") /\ UNCHANGED <<approvalRows, unseen>>
         ELSE IF CanExpire(row, toolCalls[c].revision, now)
         THEN /\ approvalRows' = [approvalRows EXCEPT ![id(c)] = expireActionApprovalRecord(row)]
              /\ notify /\ step(c, "denied")
         ELSE step(c, "snapshot") /\ UNCHANGED <<approvalRows, unseen>>
      /\ UNCHANGED <<actionRows, spent, authorities, owed>>

(* Mutant: the waiter compares with the revision at which it goes to sleep. *)
waitFromNow(c) ==
  /\ at(c) = "undecided" /\ step(c, "asleep")
  /\ unseen' = unseen \ {c}
  /\ UNCHANGED <<tables, authorities, owed>>

(* ChangeNotifier.wait: returns at once when something changed since the   *)
(* snapshot, otherwise at the next notify or at its timeout.               *)
waitForChange(c) ==
  /\ at(c) = "undecided"
  /\ step(c, IF c \in unseen THEN "snapshot" ELSE "asleep")
  /\ UNCHANGED <<tables, authorities, unseen, owed>>

wake(c) ==
  /\ at(c) = "asleep"
  /\ step(c, "snapshot")
  /\ UNCHANGED <<tables, authorities, unseen, owed>>

confirmAuthority(c) ==
  /\ at(c) = "confirmAuthority"
  /\ toolCalls' = [toolCalls EXCEPT ![c].pc = "admit", ![c].current = gameAuthority]
  /\ UNCHANGED <<tables, authorities, unseen, owed>>

-----------------------------------------------------------------------------
(* Admission *)

(* Mutant: the Action on file is not compared with the intent.             *)
IntentAdmissibleUnchecked(op, expected) == TRUE

(* The Action may be absent or on file with the same intent.               *)
IntentAdmissible(op, expected) ==
  actionRows[op] = NoAction \/ actionRows[op].authority = expected

admittedAction(op, expected) ==
  IF actionRows[op] = NoAction THEN [status |-> "pending", authority |-> expected]
  ELSE actionRows[op]

(* A consumed approval is an answer only to the admission that spent it.   *)
assertIdempotentAdmission(c) ==
  LET row == approvalRows[id(c)] IN
  /\ row.revision = toolCalls[c].revision + 1
  /\ toolCalls[c].current = toolCalls[c].expected
  /\ actionRows[OperationOf[c]].status # "absent"
  /\ actionRows[OperationOf[c]].authority = toolCalls[c].expected
  /\ row.decision = "approved"

(* One transaction spends the approval and admits the Action.              *)
admit(c, now) ==
  LET row == approvalRows[id(c)]
      op == OperationOf[c]
      mayConsume == /\ runAuthority = "open"
                    /\ CanConsume(row, id(c), toolCalls[c].revision, op, toolCalls[c].current)
      consumed == consumeActionApprovalRecord(row, now)
      refused == step(c, "unresolved") /\ UNCHANGED tables
  IN  /\ at(c) = "admit"
      /\ IF row = NoApproval THEN refused
         ELSE IF row.status = "consumed"
         THEN step(c, IF assertIdempotentAdmission(c) THEN "settling" ELSE "unresolved")
              /\ UNCHANGED tables
         ELSE IF ~mayConsume THEN refused
         ELSE IF consumed.status = "expired"
         THEN /\ approvalRows' = [approvalRows EXCEPT ![id(c)] = consumed]
              /\ step(c, "denied") /\ UNCHANGED <<actionRows, spent>>
         ELSE IF ~IntentAdmissible(op, toolCalls[c].expected)
                 \/ ~assertActionApprovalRecord(consumed) THEN refused
         ELSE /\ approvalRows' = [approvalRows EXCEPT ![id(c)] = consumed]
              /\ actionRows' = [actionRows EXCEPT ![op] = admittedAction(op, toolCalls[c].expected)]
              /\ spent' = spent \cup {[id |-> id(c), fresh |-> actionRows[op] = NoAction]}
              /\ step(c, "settling")
      /\ UNCHANGED <<authorities, unseen, owed>>

(* An authorized Action is admitted without an approval.                   *)
submitPrepared(c) ==
  LET op == OperationOf[c] IN
  /\ at(c) = "submit"
  /\ IF IntentAdmissible(op, toolCalls[c].expected)
        /\ (actionRows[op] = NoAction => runAuthority = "open")
     THEN /\ actionRows' = [actionRows EXCEPT ![op] = admittedAction(op, toolCalls[c].expected)]
          /\ step(c, "settling")
     ELSE step(c, "unresolved") /\ UNCHANGED actionRows
  /\ UNCHANGED <<approvalRows, spent, authorities, unseen, owed>>

(* waitForSettlement returns a status that is neither pending nor claimed. *)
Settled(op) == actionRows[op].status \in {"succeeded", "failed", "uncertain"}

waitForSettlement(c) ==
  /\ at(c) = "settling" /\ Settled(OperationOf[c])
  /\ step(c, actionRows[OperationOf[c]].status)
  /\ UNCHANGED <<tables, authorities, unseen, owed>>

(* The signal is observed at the next throwIfAborted.                      *)
Running(c) == at(c) \notin Outcomes \cup {"idle"}

abort(c) ==
  /\ Running(c) /\ step(c, "aborted")
  /\ UNCHANGED <<tables, authorities, unseen, owed>>

recoveryOutcome(op) ==
  CASE actionRows[op].status = "absent" -> "not_started"
    [] actionRows[op].status \in {"succeeded", "failed"} -> "completed"
    [] OTHER -> "outcome_unknown"

(* Transcript recovery of a call that was started and has no result.       *)
recover(c) ==
  /\ at(c) \in {"unresolved", "aborted"}
  /\ step(c, recoveryOutcome(OperationOf[c]))
  /\ UNCHANGED <<tables, authorities, unseen, owed>>

-----------------------------------------------------------------------------
(* Players, game, process *)

(* ActionApprovalCoordinator.decide: the store is written, then notified.  *)
decideRow(i, revision, decision, now) ==
  /\ approvalRows[i] # NoApproval
  /\ CanDecide(approvalRows[i], revision, now)
  /\ approvalRows' = [approvalRows EXCEPT ![i] = decideActionApprovalRecord(@, decision, now)]
  /\ owed' = owed + 1
  /\ UNCHANGED <<actionRows, spent, authorities, toolCalls, unseen>>

decideNotifies ==
  /\ owed > 0 /\ owed' = owed - 1 /\ notify
  /\ UNCHANGED <<tables, authorities, toolCalls>>

purgeRows(batch) ==
  /\ Approvals!purgeTerminal(batch)
  /\ UNCHANGED <<actionRows, spent, authorities, toolCalls, unseen, owed>>

(* What the journal makes of an admitted Action (ActionJournal): a claimed *)
(* Action is like a pending one to everybody who waits for it.             *)
settleAction(op, status) ==
  /\ actionRows[op].status \in {"pending", "uncertain"} \ {status}
  /\ actionRows' = [actionRows EXCEPT ![op].status = status]
  /\ UNCHANGED <<approvalRows, spent, authorities, toolCalls, unseen, owed>>

closeRun ==
  /\ runAuthority = "open" /\ runAuthority' = "closed"
  /\ UNCHANGED <<tables, gameAuthority, toolCalls, unseen, owed>>

changeAuthority ==
  /\ gameAuthority < MaxAuthority /\ gameAuthority' = gameAuthority + 1
  /\ UNCHANGED <<tables, runAuthority, toolCalls, unseen, owed>>

(* The process stops: the rows stay, the notifier and the calls are gone.  *)
crash ==
  /\ \E c \in Calls : Running(c)
  /\ toolCalls' = [c \in Calls |-> IF Running(c) THEN [NoCall EXCEPT !.pc = "aborted"]
                                   ELSE toolCalls[c]]
  /\ unseen' = Calls /\ owed' = 0
  /\ UNCHANGED <<tables, authorities>>

-----------------------------------------------------------------------------
ToolInit ==
  /\ approvalRows = [i \in ApprovalIds |-> NoApproval]
  /\ actionRows = [op \in Operations |-> NoAction]
  /\ runAuthority = "open" /\ gameAuthority = 1
  /\ toolCalls = [c \in Calls |-> NoCall]
  /\ unseen = Calls /\ owed = 0 /\ spent = {}

ToolNext ==
  \/ \E c \in Calls :
       \/ resolveScope(c) \/ readAuthority(c) \/ snapshot(c) \/ readDecision(c)
       \/ waitForChange(c) \/ wake(c) \/ confirmAuthority(c) \/ submitPrepared(c)
       \/ waitForSettlement(c) \/ abort(c) \/ recover(c)
       \/ \E now \in Times : request(c, now) \/ expireUndecided(c, now) \/ admit(c, now)
  \/ \E i \in ApprovalIds, revision \in {1}, decision \in {"approved", "rejected"}, now \in Times :
       decideRow(i, revision, decision, now)
  \/ decideNotifies
  \/ \E batch \in SUBSET ApprovalIds : Cardinality(batch) <= 1 /\ purgeRows(batch)
  \/ \E op \in Operations, status \in {"succeeded", "failed", "uncertain"} :
       settleAction(op, status)
  \/ closeRun \/ changeAuthority \/ crash

-----------------------------------------------------------------------------
(* Properties *)

(* Every row any sequence of calls writes is one that a load accepts,      *)
(* although clocks of several processes disagree.                          *)
ApprovalRowsLoadable ==
  \A i \in ApprovalIds :
    approvalRows[i] = NoApproval \/ assertActionApprovalRecord(approvalRows[i])

(* The transcript tells the truth: a call reported as denied or as not     *)
(* started has no Action, and never will have one, unless another call of  *)
(* the same Operation admits it; a consumed approval always finds its      *)
(* Action, so no admission ends over an inconsistent pair.                 *)
Alone(c) == \A d \in Calls \ {c} : OperationOf[d] # OperationOf[c]
TranscriptTruthful ==
  \A c \in Calls :
    /\ Alone(c) /\ at(c) \in {"denied", "error", "not_started"} =>
         actionRows[OperationOf[c]] = NoAction
    /\ at(c) = "completed" => actionRows[OperationOf[c]].status \in {"succeeded", "failed"}

(* An approval is spent at most once, and no Operation ever spends two of  *)
(* its approvals; an Action that no policy authorized outright exists only *)
(* together with the approval spent on it; and the transcript tells the    *)
(* truth about it.                                                         *)
ApprovalSpentOnce ==
  /\ \A x, y \in spent : x.id[1] = y.id[1] => x.id = y.id
  /\ \A i \in ApprovalIds :
       approvalRows[i].status = "consumed" =>
         actionRows[i[1]].authority = i[2] /\ actionRows[i[1]].status # "absent"
  /\ \A c \in Calls : at(c) = "settling" /\ toolCalls[c].consent =>
       \E x \in spent : x.id = id(c)
  /\ TranscriptTruthful

(* No player's decision is slept through: a call that waits with the       *)
(* notifier at the revision it saw has nothing to read, unless the notify  *)
(* of a decision is still to come.                                         *)
NoDecisionOverlooked ==
  \A c \in Calls :
    /\ at(c) = "asleep" /\ c \notin unseen
    => approvalRows[id(c)].status = "pending" \/ owed > 0
=============================================================================
