-------------------------- MODULE ActionPathProofs --------------------------
(***************************************************************************)
(* What lies around the journal on an Action's way: the tool that has it   *)
(* approved and admitted, the engine's pump that carries it out, the       *)
(* projector that advances its Goal, and the client's session with the run *)
(* that asked for it.  Proofs for every set of Actions, calls and clocks,  *)
(* every number of claims, retries and restarts, of workers and Goals, of  *)
(* approvals, turns and deliveries.                                        *)
(***************************************************************************)
EXTENDS ReliableAction, EngineActionPump, GoalService, EventDelivery, RunSession,
        FiniteSetTheorems, SequenceTheorems, TLAPS

-----------------------------------------------------------------------------
(* The pump: its inductive invariant *)

Statuses == {"pending", "claimed", "uncertain", "succeeded", "failed"}
Answers == {"none", "succeeded", "rejected", "unknown"}
Evidences == Answers \cup {"applied", "not-applied"}
PumpStates == {"Idle", "Executing", "Inspecting", "DeliveringReceipt", "Reconciling", "Reading",
               "Halted", "Stopped"}
Permit == [epoch : Nat, cancelled : BOOLEAN, completion : 0..2, outcome : Answers]
Request == [call : {"receipt", "reconcile"}, token : 0..MaxTokens, evidence : Evidences]

Record == [status : Statuses, token : 0..MaxTokens, answered : Answers, policy : Policies]
Pump == [state : PumpStates, recovering : BOOLEAN, epoch : Nat, token : 0..MaxTokens,
         evidence : Evidences, attempt : Nat, read : 0..MaxTokens]

PumpTypeOK ==
  /\ action \in Record
  /\ lapsed \subseteq Tokens
  /\ pump \in Pump
  /\ overdue \in BOOLEAN
  /\ permits \in [Tokens -> Permit]
  /\ requests \subseteq Request
  /\ world \subseteq Tokens
  /\ late \in BOOLEAN
  /\ restarts \in Nat

(* The journal's token is the newest: nothing names a later one.           *)
NewestToken ==
  /\ Held => action.token \in Tokens
  /\ \A t \in lapsed : t <= action.token
  /\ pump.token <= action.token
  /\ \A r \in requests : r.token <= action.token

(* A context belongs to the execution whose epoch it was handed out in.    *)
PermitsOK ==
  \A t \in Tokens :
    /\ permits[t].epoch <= pump.epoch
    /\ permits[t].outcome # "none" => permits[t].completion = 2 /\ t <= action.token

(* While the pump executes a claim, it is the journal's: unanswered, not   *)
(* lapsed before the deadline, and alone in the pump's current epoch.      *)
Executing == pump.state = "Executing"
ExecutingOK ==
  Executing =>
    /\ pump.token \in Tokens /\ action.token = pump.token
    /\ action.status = "claimed" /\ action.answered = "none"
    /\ ~overdue => pump.token \notin lapsed
    /\ \A t \in Tokens \ {pump.token} : permits[t].epoch < pump.epoch
    /\ \A r \in requests : r.token < pump.token

(* What is told of a claim is what became of the world, and stays so while *)
(* the claim is the journal's.                                             *)
Truthful(token, evidence) ==
  /\ evidence \in {"succeeded", "applied"} => world # {}
  /\ (evidence \in {"rejected", "not-applied"} /\ token = action.token) => world = {}

EvidenceOK ==
  /\ Delivering => Truthful(pump.token, pump.evidence)
  /\ \A r \in requests : Truthful(r.token, r.evidence)
  /\ \A t \in Tokens : Truthful(t, permits[t].outcome)

RecordOK ==
  /\ action.status = "succeeded" => world # {}
  /\ action.status = "failed" => world = {}
  /\ ~Replayed => /\ action.status = "pending" => world = {}
                  /\ world \subseteq {action.token}

PumpInv ==
  PumpTypeOK /\ NewestToken /\ PermitsOK /\ ExecutingOK /\ EvidenceOK /\ RecordOK /\ ChangedUnderClaim

PumpParameters == MaxTokens \in Nat

LEMMA Words ==
  /\ {"Idle", "Executing", "Inspecting", "DeliveringReceipt", "Reconciling", "Reading", "Halted",
      "Stopped"} \subseteq PumpStates
  /\ Answers \subseteq Evidences /\ "none" \in Answers
  /\ \A e \in Evidences : Meaning(e) \in Answers /\ StatusAfter(e) \in Statuses
  BY DEF PumpStates, Evidences, Answers, Statuses, Meaning, StatusAfter

(* Whoever starts no execution and changes neither the journal nor the     *)
(* world may at most tell the truth about a claim handed out before.       *)
Milder(t) ==
  /\ permits'[t].epoch <= permits[t].epoch
  /\ \/ permits'[t].outcome = "none"
     \/ permits'[t].outcome = permits[t].outcome /\ permits'[t].completion = permits[t].completion

LEMMA PumpMoves ==
  ASSUME PumpInv, pump' \in Pump, pump'.state # "Executing",
         pump'.token <= action.token, pump.epoch <= pump'.epoch,
         Delivering' => Truthful(pump'.token, pump'.evidence),
         overdue' \in BOOLEAN, restarts' \in Nat,
         permits' \in [Tokens -> Permit], \A t \in Tokens : Milder(t),
         requests' \subseteq Request,
         \A r \in requests' : r \in requests \/ (r.token <= action.token /\ Truthful(r.token, r.evidence)),
         UNCHANGED <<action, lapsed, world, late>>
  PROVE  PumpInv'
  <1>1. PumpTypeOK'
    BY DEF PumpInv, PumpTypeOK
  <1>2. NewestToken'
    BY DEF PumpInv, NewestToken, Held
  <1>3. PermitsOK'
    <2> SUFFICES ASSUME NEW t \in Tokens
                 PROVE  /\ permits'[t].epoch <= pump'.epoch
                        /\ permits'[t].outcome # "none" => permits'[t].completion = 2 /\ t <= action'.token
      BY DEF PermitsOK
    <2>1. permits[t] \in Permit /\ permits'[t] \in Permit /\ pump \in Pump
      BY DEF PumpInv, PumpTypeOK
    <2>2. permits[t].epoch \in Nat /\ permits'[t].epoch \in Nat /\ pump.epoch \in Nat /\ pump'.epoch \in Nat
      BY <2>1 DEF Permit, Pump
    <2> QED BY <2>2 DEF PumpInv, PermitsOK, Milder
  <1>4. ExecutingOK' /\ ChangedUnderClaim' /\ RecordOK'
    BY DEF PumpInv, ExecutingOK, Executing, ChangedUnderClaim, RecordOK, Replayed
  <1>5. EvidenceOK'
    BY DEF PumpInv, EvidenceOK, Truthful, Milder
  <1> QED BY <1>1, <1>2, <1>3, <1>4, <1>5 DEF PumpInv

LEMMA PermitsKept ==
  ASSUME PumpInv, UNCHANGED permits
  PROVE  permits' \in [Tokens -> Permit] /\ \A t \in Tokens : Milder(t)
  <1>1. permits \in [Tokens -> Permit]
    BY DEF PumpInv, PumpTypeOK
  <1>2. \A t \in Tokens : permits[t].epoch \in Nat
    BY <1>1 DEF Permit
  <1> QED BY <1>1, <1>2 DEF Milder

LEMMA PermitsCancelled ==
  ASSUME PumpInv, NEW T, permits' = [t \in Tokens |-> IF t \in T THEN [permits[t] EXCEPT !.cancelled = TRUE] ELSE permits[t]]
  PROVE  permits' \in [Tokens -> Permit] /\ \A t \in Tokens : Milder(t)
  <1>1. permits \in [Tokens -> Permit]
    BY DEF PumpInv, PumpTypeOK
  <1>2. ASSUME NEW t \in Tokens PROVE permits'[t] \in Permit /\ Milder(t)
    <2>1. PICK p \in Permit : p = permits[t]
      BY <1>1
    <2>2. CASE t \in T
      <3>1. permits'[t] = [p EXCEPT !.cancelled = TRUE]
        BY <2>1, <2>2
      <3>2. p.epoch <= p.epoch
        BY <2>1 DEF Permit
      <3>3. permits'[t] \in Permit
        BY <2>1, <3>1 DEF Permit
      <3> QED BY <2>1, <3>1, <3>2, <3>3 DEF Permit, Milder
    <2>3. CASE t \notin T
      BY <2>1, <2>3 DEF Permit, Milder
    <2> QED BY <2>2, <2>3
  <1> QED BY <1>2

LEMMA TypesOfPump ==
  ASSUME PumpParameters, PumpInv
  PROVE  /\ pump \in Pump /\ action \in Record /\ overdue \in BOOLEAN /\ restarts \in Nat
         /\ pump.epoch \in Nat /\ pump.attempt \in Nat /\ pump.token \in Int /\ action.token \in Int
         /\ pump.token <= action.token /\ action.token \in 0..MaxTokens /\ pump.evidence \in Evidences
         /\ requests \subseteq Request
  BY DEF PumpParameters, PumpInv, PumpTypeOK, NewestToken, Pump, Record

(* The pump looks at the journal, takes the game's word, or is cut off.     *)
LEMMA recoverActionKeeps ==
  ASSUME PumpParameters, PumpInv, recoverAction PROVE PumpInv'
  <1>0. PICK p \in Pump, a \in Record : p = pump /\ a = action
    BY TypesOfPump
  <1>1. p.epoch \in Nat /\ p.epoch + 1 \in Nat /\ p.epoch <= p.epoch + 1 /\ p.epoch <= p.epoch
        /\ a.token <= a.token /\ p.token <= a.token /\ a.token \in 0..MaxTokens /\ 0 \in 0..MaxTokens
    BY <1>0, TypesOfPump DEF PumpParameters
  <1>2. UNCHANGED <<action, lapsed, permits, requests, world, late, restarts>>
    BY DEF recoverAction
  <1>3. pump' \in Pump /\ pump'.state \in {"Idle", "Inspecting"} /\ pump'.token <= a.token /\ p.epoch <= pump'.epoch
        /\ overdue' \in BOOLEAN
    <2>1. CASE Held
      <3>1. pump' = [p EXCEPT !.state = "Inspecting", !.token = a.token, !.evidence = "none",
                              !.epoch = p.epoch + 1, !.read = 0] /\ overdue' = FALSE
        BY <1>0, <2>1 DEF recoverAction
      <3> QED BY <1>1, <3>1, Words DEF Pump
    <2>2. CASE ~Held
      <3>1. pump' = [p EXCEPT !.recovering = FALSE] /\ UNCHANGED overdue /\ p.state = "Idle"
        BY <1>0, <2>2 DEF recoverAction
      <3> QED BY <1>0, <1>1, <3>1, TypesOfPump DEF Pump
    <2> QED BY <2>1, <2>2
  <1> QED BY <1>0, <1>2, <1>3, TypesOfPump, PermitsKept, PumpMoves DEF Delivering

LEMMA resolveConflictKeeps ==
  ASSUME PumpParameters, PumpInv, resolveConflict PROVE PumpInv'
  <1>0. PICK p \in Pump, a \in Record : p = pump /\ a = action
    BY TypesOfPump
  <1>1. p.epoch \in Nat /\ p.epoch + 1 \in Nat /\ p.epoch <= p.epoch + 1 /\ p.epoch <= p.epoch
        /\ a.token <= a.token /\ p.token <= a.token /\ a.token \in 0..MaxTokens
    BY <1>0, TypesOfPump
  <1>2. UNCHANGED <<action, lapsed, permits, requests, world, late, restarts>>
    BY DEF resolveConflict
  <1>3. pump' \in Pump /\ pump'.state \in {"Idle", "Halted", "Inspecting"} /\ pump'.token <= a.token
        /\ p.epoch <= pump'.epoch /\ overdue' \in BOOLEAN
    <2>1. CASE ~Held
      <3>1. pump' = [p EXCEPT !.state = "Idle"] /\ UNCHANGED overdue
        BY <1>0, <2>1 DEF resolveConflict
      <3> QED BY <1>0, <1>1, <3>1, Words, TypesOfPump DEF Pump
    <2>2. CASE Held /\ p.read = a.token
      <3>1. pump' = [p EXCEPT !.state = "Halted"] /\ UNCHANGED overdue
        BY <1>0, <2>2 DEF resolveConflict
      <3> QED BY <1>0, <1>1, <3>1, Words, TypesOfPump DEF Pump
    <2>3. CASE Held /\ p.read # a.token
      <3>1. pump' = [p EXCEPT !.state = "Inspecting", !.token = a.token, !.evidence = "none",
                              !.epoch = p.epoch + 1, !.read = a.token] /\ overdue' = FALSE
        BY <1>0, <2>3 DEF resolveConflict
      <3> QED BY <1>1, <3>1, Words DEF Pump
    <2> QED BY <2>1, <2>2, <2>3
  <1> QED BY <1>0, <1>2, <1>3, TypesOfPump, PermitsKept, PumpMoves DEF Delivering

LEMMA OnEnableKeeps ==
  ASSUME PumpParameters, PumpInv, OnEnable PROVE PumpInv'
  <1>0. PICK p \in Pump : p = pump
    BY TypesOfPump
  <1>1. p.epoch <= p.epoch /\ p.token <= action.token
    BY <1>0, TypesOfPump
  <1>2. pump' = [p EXCEPT !.state = "Idle", !.recovering = TRUE]
    BY <1>0 DEF OnEnable
  <1>3. pump' \in Pump /\ pump'.state = "Idle" /\ pump'.token = p.token /\ pump'.epoch = p.epoch
    BY <1>2, Words DEF Pump
  <1> QED BY <1>0, <1>1, <1>3, TypesOfPump, PermitsKept, PumpMoves DEF OnEnable, Delivering

(* Halting and disabling cancel every context.                             *)
LEMMA HaltKeeps ==
  ASSUME PumpParameters, PumpInv, Halt,
         UNCHANGED <<action, lapsed, overdue, requests, world, late, restarts>>
  PROVE  PumpInv'
  <1>0. PICK p \in Pump : p = pump
    BY TypesOfPump
  <1>1. p.epoch <= p.epoch /\ p.token <= action.token
    BY <1>0, TypesOfPump
  <1>2. pump' = [p EXCEPT !.state = "Halted"]
    BY <1>0 DEF Halt
  <1>3. pump' \in Pump /\ pump'.state = "Halted" /\ pump'.token = p.token /\ pump'.epoch = p.epoch
    BY <1>2, Words DEF Pump
  <1>4. permits' = [t \in Tokens |-> IF t \in Tokens THEN [permits[t] EXCEPT !.cancelled = TRUE] ELSE permits[t]]
    BY DEF Halt
  <1>5. permits' \in [Tokens -> Permit] /\ \A t \in Tokens : Milder(t)
    BY <1>4, PermitsCancelled
  <1> QED BY <1>0, <1>1, <1>3, <1>5, TypesOfPump, PumpMoves DEF Delivering

LEMMA rejectedKeeps == ASSUME PumpParameters, PumpInv, rejected PROVE PumpInv'
  BY HaltKeeps DEF rejected

LEMMA inspectedKeeps ==
  ASSUME PumpParameters, PumpInv, inspected PROVE PumpInv'
  <1>1. CASE Halt
    BY <1>1, HaltKeeps DEF inspected
  <1>2. CASE ~Halt
    <2>0. PICK p \in Pump : p = pump
      BY TypesOfPump
    <2>1. p.epoch <= p.epoch /\ p.token <= action.token /\ 0 \in Nat
      BY <2>0, TypesOfPump
    <2>2. PICK resolution \in {"applied", "not-applied", "unknown"} :
            /\ resolution = "applied" => world # {}
            /\ resolution = "not-applied" => world = {}
            /\ pump' = [p EXCEPT !.state = "Reconciling", !.evidence = resolution, !.attempt = 0]
      BY <1>2, <2>0 DEF inspected
    <2>3. UNCHANGED <<permits, action, lapsed, overdue, requests, world, late, restarts>>
      BY <1>2 DEF inspected
    <2>4. resolution \in Evidences
      BY DEF Evidences, Answers
    <2>5. pump' \in Pump /\ pump'.state = "Reconciling" /\ pump'.token = p.token /\ pump'.epoch = p.epoch
          /\ pump'.evidence = resolution
      BY <2>1, <2>2, <2>4, Words DEF Pump
    <2>6. Truthful(pump'.token, pump'.evidence)
      BY <2>2, <2>5 DEF Truthful
    <2> QED BY <2>0, <2>1, <2>3, <2>5, <2>6, TypesOfPump, PermitsKept, PumpMoves
  <1> QED BY <1>1, <1>2

(* Execution ends: a complete context tells its outcome, any other is      *)
(* cancelled and the game inspected.                                       *)
LEMMA executedKeeps ==
  ASSUME PumpParameters, PumpInv, executed PROVE PumpInv'
  <1>0. PICK p \in Pump : p = pump
    BY TypesOfPump
  <1>1. p.epoch <= p.epoch /\ p.token <= action.token /\ 0 \in Nat
    BY <1>0, TypesOfPump
  <1>2. permits \in [Tokens -> Permit] /\ p.token \in Tokens
    BY <1>0 DEF PumpInv, PumpTypeOK, ExecutingOK, Executing, executed
  <1>3. PICK permit \in Permit : permit = permits[p.token]
    BY <1>2
  <1>4. permits' = [permits EXCEPT ![p.token] = [permit EXCEPT !.cancelled = TRUE]]
    BY <1>0, <1>3 DEF executed
  <1>5. permits' = [t \in Tokens |-> IF t \in {p.token} THEN [permits[t] EXCEPT !.cancelled = TRUE] ELSE permits[t]]
    BY <1>2, <1>3, <1>4
  <1>6. permits' \in [Tokens -> Permit] /\ \A t \in Tokens : Milder(t)
    BY <1>5, PermitsCancelled
  <1>7. permit.outcome \in Evidences /\ Truthful(p.token, permit.outcome)
    <2>1. permit.outcome \in Answers
      BY DEF Permit
    <2> QED BY <1>2, <1>3, <2>1, Words DEF PumpInv, EvidenceOK
  <1>8. /\ pump' \in Pump /\ pump'.state \in {"DeliveringReceipt", "Inspecting"}
        /\ pump'.token = p.token /\ pump'.epoch = p.epoch /\ overdue' \in BOOLEAN
        /\ pump'.state = "DeliveringReceipt" => pump'.evidence = permit.outcome
    <2>1. CASE permit.completion = 2
      <3>1. pump' = [p EXCEPT !.state = "DeliveringReceipt", !.evidence = permit.outcome, !.attempt = 0]
            /\ UNCHANGED overdue
        BY <1>0, <1>3, <2>1 DEF executed
      <3> QED BY <1>1, <1>7, <3>1, Words, TypesOfPump DEF Pump
    <2>2. CASE permit.completion # 2
      <3>1. pump' = [p EXCEPT !.state = "Inspecting", !.token = p.token, !.evidence = "none"]
            /\ overdue' = FALSE
        BY <1>0, <1>3, <2>2 DEF executed, Inspecting
      <3> QED BY <1>1, <3>1, Words DEF Pump
    <2> QED BY <2>1, <2>2
  <1>9. UNCHANGED <<action, lapsed, requests, world, late, restarts>>
    BY DEF executed
  <1>10. Truthful(p.token, permit.outcome)'
    BY <1>7, <1>9 DEF Truthful
  <1>11. Delivering' => Truthful(pump'.token, pump'.evidence)
    BY <1>7, <1>8 DEF Delivering
  <1> QED BY <1>0, <1>1, <1>6, <1>8, <1>9, <1>11, TypesOfPump, PumpMoves

(* What the pump sends is a request that tells the truth.                  *)
LEMMA EvidenceTrue ==
  ASSUME PumpParameters, PumpInv, Delivering
  PROVE  /\ Evidence \in Request /\ Evidence.token = pump.token /\ Evidence.token <= action.token
         /\ Truthful(Evidence.token, Evidence.evidence)
  <1>1. pump.token \in 0..MaxTokens /\ pump.evidence \in Evidences
    BY TypesOfPump DEF Pump
  <1>2. Evidence \in Request /\ Evidence.token = pump.token /\ Evidence.evidence = pump.evidence
    BY <1>1 DEF Evidence, Request
  <1> QED BY <1>2, TypesOfPump DEF PumpInv, EvidenceOK

LEMMA deliveryLostKeeps ==
  ASSUME PumpParameters, PumpInv, deliveryLost PROVE PumpInv'
  <1>0. PICK p \in Pump : p = pump
    BY TypesOfPump
  <1>1. p.epoch <= p.epoch /\ p.token <= action.token /\ p.attempt + 1 \in Nat
    BY <1>0, TypesOfPump
  <1>2. Delivering /\ requests' = requests \cup {Evidence}
        /\ UNCHANGED <<action, lapsed, overdue, permits, world, late, restarts>>
    BY DEF deliveryLost
  <1>3. pump' \in Pump /\ pump'.token = p.token /\ pump'.epoch = p.epoch /\ pump'.evidence = p.evidence
        /\ pump'.state \in {"Halted", p.state}
    <2>1. CASE pump.attempt >= Retries
      <3>1. pump' = [p EXCEPT !.state = "Halted"]
        BY <1>0, <2>1 DEF deliveryLost
      <3> QED BY <3>1, Words DEF Pump
    <2>2. CASE ~(pump.attempt >= Retries)
      <3>1. pump' = [p EXCEPT !.attempt = p.attempt + 1]
        BY <1>0, <2>2 DEF deliveryLost
      <3> QED BY <1>1, <3>1 DEF Pump
    <2> QED BY <2>1, <2>2
  <1>4. pump'.state # "Executing"
    BY <1>0, <1>2, <1>3 DEF Delivering
  <1>5. Truthful(pump'.token, pump'.evidence)
    BY <1>0, <1>2, <1>3 DEF PumpInv, EvidenceOK
  <1>6. requests' \subseteq Request
        /\ \A r \in requests' : r \in requests \/ (r.token <= action.token /\ Truthful(r.token, r.evidence))
    BY <1>2, EvidenceTrue, TypesOfPump
  <1> QED BY <1>0, <1>1, <1>2, <1>3, <1>4, <1>5, <1>6, TypesOfPump, PermitsKept, PumpMoves

LEMMA OnDisableKeeps ==
  ASSUME PumpParameters, PumpInv, OnDisable PROVE PumpInv'
  <1>0. PICK p \in Pump : p = pump
    BY TypesOfPump
  <1>1. p.epoch <= p.epoch /\ p.token <= action.token /\ restarts + 1 \in Nat
    BY <1>0, TypesOfPump
  <1>2. pump' = [p EXCEPT !.state = "Stopped"] /\ restarts' = restarts + 1
        /\ UNCHANGED <<action, lapsed, overdue, world, late>>
    BY <1>0 DEF OnDisable
  <1>3. pump' \in Pump /\ pump'.state = "Stopped" /\ pump'.token = p.token /\ pump'.epoch = p.epoch
    BY <1>2, Words DEF Pump
  <1>4. requests' \subseteq Request
        /\ \A r \in requests' : r \in requests \/ (r.token <= action.token /\ Truthful(r.token, r.evidence))
    BY EvidenceTrue, TypesOfPump DEF OnDisable
  <1>5. permits' \in [Tokens -> Permit] /\ \A t \in Tokens : Milder(t)
    <2>1. CASE permits' = [t \in Tokens |-> [permits[t] EXCEPT !.cancelled = TRUE]]
      <3>1. permits' = [t \in Tokens |-> IF t \in Tokens THEN [permits[t] EXCEPT !.cancelled = TRUE] ELSE permits[t]]
        BY <2>1
      <3> QED BY <3>1, PermitsCancelled
    <2>2. CASE permits' = [t \in Tokens |-> NoPermit]
      <3>1. NoPermit \in Permit /\ NoPermit.epoch = 0 /\ NoPermit.outcome = "none"
        BY Words DEF NoPermit, Permit
      <3>2. \A t \in Tokens : permits[t].epoch \in Nat
        BY DEF PumpInv, PumpTypeOK, Permit
      <3> QED BY <2>2, <3>1, <3>2 DEF Milder
    <2> QED BY <2>1, <2>2 DEF OnDisable
  <1> QED BY <1>0, <1>1, <1>2, <1>3, <1>4, <1>5, TypesOfPump, PumpMoves DEF Delivering

(* The journal takes a true answer for the claim it still holds.           *)
LEMMA RecordTells ==
  ASSUME PumpParameters, PumpInv, NEW sent \in Request, Truthful(sent.token, sent.evidence),
         record(sent), UNCHANGED <<world, lapsed>>
  PROVE  /\ action' \in Record /\ action'.token = action.token
         /\ RecordOK'
         /\ action' = action \/ sent.token = action.token
         /\ Held' => Held
  <1>0. PICK a \in Record : a = action
    BY TypesOfPump
  <1>1. sent.evidence \in Evidences
    BY DEF Request
  <1>2. CASE ~Accepts(sent)
    <2>1. action' = action
      BY <1>2 DEF record
    <2> QED BY <2>1, TypesOfPump DEF PumpInv, RecordOK, Replayed, Held
  <1>3. CASE Accepts(sent)
    <2>1. action' = [a EXCEPT !.status = StatusAfter(sent.evidence), !.answered = Meaning(sent.evidence)]
      BY <1>0, <1>3 DEF record
    <2>2. /\ action' \in Record /\ action'.token = a.token /\ action'.status = StatusAfter(sent.evidence)
          /\ action'.policy = a.policy
      BY <1>1, <2>1, Words DEF Record
    <2>3. sent.token = action.token /\ Held
      BY <1>3 DEF Accepts, Current
    <2>4. RecordOK'
      <3>1. /\ action'.status = "succeeded" => sent.evidence \in {"succeeded", "applied"}
            /\ action'.status = "failed" => sent.evidence = "rejected"
            /\ action'.status = "pending" => sent.evidence = "not-applied"
        BY <2>2 DEF StatusAfter
      <3>2. ~Replayed => world \subseteq {action.token}
        BY DEF PumpInv, RecordOK, Replayed
      <3> QED BY <1>0, <2>2, <2>3, <3>1, <3>2 DEF RecordOK, Replayed, Truthful
    <2> QED BY <1>0, <2>2, <2>3, <2>4
  <1> QED BY <1>2, <1>3

LEMMA deliveredKeeps ==
  ASSUME PumpParameters, PumpInv, delivered PROVE PumpInv'
  <1>0. PICK p \in Pump : p = pump
    BY TypesOfPump
  <1>1. p.epoch <= p.epoch /\ p.token <= action.token /\ 0 \in Nat
    BY <1>0, TypesOfPump
  <1>2. record(Evidence) /\ UNCHANGED <<lapsed, overdue, permits, requests, world, late, restarts>>
    BY DEF delivered
  <1>3. action' \in Record /\ action'.token = action.token /\ RecordOK' /\ (Held' => Held)
    BY <1>2, EvidenceTrue, RecordTells DEF delivered
  <1>4. PICK state \in {"Reading", "Halted", "Idle"} : pump' = [p EXCEPT !.attempt = 0, !.state = state]
    BY <1>0 DEF delivered
  <1>5. pump' \in Pump /\ pump'.state = state /\ pump'.token = p.token /\ pump'.epoch = p.epoch
    BY <1>1, <1>4, Words DEF Pump
  <1>6. PumpTypeOK'
    BY <1>2, <1>3, <1>5 DEF PumpInv, PumpTypeOK
  <1>7. NewestToken'
    BY <1>0, <1>1, <1>2, <1>3, <1>5 DEF PumpInv, NewestToken
  <1>8. PermitsOK'
    BY <1>0, <1>2, <1>3, <1>5 DEF PumpInv, PermitsOK
  <1>9. ExecutingOK' /\ ChangedUnderClaim'
    BY <1>2, <1>5 DEF PumpInv, ExecutingOK, Executing, ChangedUnderClaim
  <1>10. EvidenceOK'
    BY <1>2, <1>3, <1>5 DEF PumpInv, EvidenceOK, Truthful, Delivering
  <1> QED BY <1>3, <1>6, <1>7, <1>8, <1>9, <1>10 DEF PumpInv

LEMMA servedLateKeeps ==
  ASSUME PumpParameters, PumpInv, NEW sent \in requests, servedLate(sent) PROVE PumpInv'
  <1>1. sent \in Request /\ Truthful(sent.token, sent.evidence)
    BY TypesOfPump DEF PumpInv, EvidenceOK
  <1>2. record(sent) /\ requests' = requests \ {sent}
        /\ UNCHANGED <<lapsed, pump, overdue, permits, world, late, restarts>>
    BY DEF servedLate
  <1>3. action' \in Record /\ action'.token = action.token /\ RecordOK'
        /\ (action' = action \/ sent.token = action.token) /\ (Held' => Held)
    BY <1>1, <1>2, RecordTells
  <1>4. Executing => action' = action
    <2>1. Executing => sent.token < pump.token /\ pump.token = action.token
      BY DEF PumpInv, ExecutingOK
    <2> QED BY <1>3, <2>1, TypesOfPump
  <1>5. PumpTypeOK'
    BY <1>2, <1>3 DEF PumpInv, PumpTypeOK
  <1>6. NewestToken' /\ PermitsOK'
    BY <1>2, <1>3 DEF PumpInv, NewestToken, PermitsOK
  <1>7. ExecutingOK' /\ ChangedUnderClaim'
    BY <1>2, <1>4 DEF PumpInv, ExecutingOK, Executing, ChangedUnderClaim
  <1>8. EvidenceOK'
    BY <1>2, <1>3 DEF PumpInv, EvidenceOK, Truthful, Delivering
  <1> QED BY <1>3, <1>5, <1>6, <1>7, <1>8 DEF PumpInv

(* A new claim: nothing has been said of it, and the world has no change   *)
(* that the claim could repeat unless the game recognises the Action.      *)
LEMMA ClaimTaken ==
  ASSUME PumpParameters, PumpInv, Claimable, NEW token, token = action.token + 1,
         action' = [action EXCEPT !.status = "claimed", !.token = token, !.answered = "none"],
         UNCHANGED world
  PROVE  /\ action' \in Record /\ token \in Tokens /\ action'.token = token /\ token > action.token
         /\ RecordOK'
  <1>1. token \in Tokens /\ token \in 0..MaxTokens /\ token > action.token
    BY TypesOfPump DEF Claimable, Tokens, PumpParameters
  <1>2. PICK a \in Record : a = action
    BY TypesOfPump
  <1>3. action' = [a EXCEPT !.status = "claimed", !.token = token, !.answered = "none"]
    BY <1>2
  <1>4. action' \in Record /\ action'.token = token /\ action'.status = "claimed" /\ action'.policy = a.policy
    BY <1>1, <1>3, Words DEF Record, Statuses
  <1>5. ~Replayed => world = {}
    BY DEF Claimable, Replayable, PumpInv, RecordOK
  <1> QED BY <1>1, <1>2, <1>4, <1>5 DEF RecordOK, Replayed

LEMMA nextActionKeeps ==
  ASSUME PumpParameters, PumpInv, nextAction PROVE PumpInv'
  <1>0. PICK p \in Pump : p = pump
    BY TypesOfPump
  <1>1. p.epoch \in Nat /\ p.epoch + 1 \in Nat /\ p.epoch <= p.epoch + 1 /\ 0 \in 0..MaxTokens
        /\ action.token \in 0..MaxTokens /\ action.token <= action.token
    BY <1>0, TypesOfPump DEF PumpParameters
  <1>2. overdue' = FALSE /\ UNCHANGED <<lapsed, requests, world, late, restarts>>
    BY DEF nextAction
  <1>3. CASE UNCHANGED <<action, permits>>
             /\ pump' = [pump EXCEPT !.state = "Inspecting", !.token = action.token,
                                     !.evidence = "none", !.epoch = @ + 1, !.read = 0]
    <2>1. pump' = [p EXCEPT !.state = "Inspecting", !.token = action.token, !.evidence = "none",
                            !.epoch = p.epoch + 1, !.read = 0]
      BY <1>0, <1>3
    <2>2. pump' \in Pump /\ pump'.state = "Inspecting" /\ pump'.token = action.token /\ pump'.epoch = p.epoch + 1
      BY <1>1, <2>1, Words DEF Pump
    <2> QED BY <1>0, <1>1, <1>2, <1>3, <2>2, TypesOfPump, PermitsKept, PumpMoves DEF Delivering
  <1>4. CASE ~(UNCHANGED <<action, permits>>
               /\ pump' = [pump EXCEPT !.state = "Inspecting", !.token = action.token,
                                       !.evidence = "none", !.epoch = @ + 1, !.read = 0])
    <2>0. PICK token : token = action.token + 1
      OBVIOUS
    <2>1. /\ Claimable
          /\ action' = [action EXCEPT !.status = "claimed", !.token = token, !.answered = "none"]
          /\ pump' = [p EXCEPT !.state = "Executing", !.token = token, !.evidence = "none",
                               !.epoch = p.epoch + 1, !.read = 0]
          /\ permits' = [permits EXCEPT ![token] =
               [epoch |-> p.epoch + 1, cancelled |-> FALSE, completion |-> 0, outcome |-> "none"]]
      BY <1>0, <1>4, <2>0 DEF nextAction
    <2>2. /\ action' \in Record /\ token \in Tokens /\ action'.token = token /\ token > action.token
          /\ RecordOK'
      BY <1>2, <2>0, <2>1, ClaimTaken
    <2>3. token \in 0..MaxTokens /\ action.token <= token /\ action.token \in Int /\ token \in Int
      BY <2>0, <2>2, TypesOfPump DEF Tokens
    <2>4. pump' \in Pump /\ pump'.state = "Executing" /\ pump'.token = token /\ pump'.epoch = p.epoch + 1
      BY <1>1, <2>1, <2>3, Words DEF Pump
    <2>5. permits \in [Tokens -> Permit]
      BY DEF PumpInv, PumpTypeOK
    <2>6. /\ permits' \in [Tokens -> Permit]
          /\ permits'[token].epoch = p.epoch + 1 /\ permits'[token].outcome = "none"
          /\ \A t \in Tokens \ {token} : permits'[t] = permits[t]
      <3>1. 0 \in 0..2
        OBVIOUS
      <3>2. [epoch |-> p.epoch + 1, cancelled |-> FALSE, completion |-> 0, outcome |-> "none"] \in Permit
        BY <1>1, <3>1, Words DEF Permit
      <3> QED BY <2>1, <2>2, <2>5, <3>2
    <2>7. PumpTypeOK'
      BY <1>2, <2>2, <2>4, <2>6 DEF PumpInv, PumpTypeOK
    <2>8. NewestToken'
      <3>1. \A t \in lapsed : t \in Int /\ t <= action.token
        BY DEF PumpInv, NewestToken, PumpTypeOK, Tokens
      <3>2. \A r \in requests : r.token \in Int /\ r.token <= action.token
        BY DEF PumpInv, NewestToken, PumpTypeOK, Request
      <3> QED BY <1>2, <2>2, <2>3, <2>4, <3>1, <3>2 DEF NewestToken
    <2>9. \A t \in Tokens \ {token} : permits[t].epoch \in Nat /\ permits[t].epoch < p.epoch + 1 /\ t \in Int
      BY <1>0, <1>1, <2>5 DEF PumpInv, PermitsOK, Permit, Tokens
    <2>10. PermitsOK'
      <3> SUFFICES ASSUME NEW t \in Tokens
                   PROVE  /\ permits'[t].epoch <= pump'.epoch
                          /\ permits'[t].outcome # "none" => permits'[t].completion = 2 /\ t <= action'.token
        BY DEF PermitsOK
      <3>1. CASE t = token
        BY <1>1, <2>4, <2>6, <3>1
      <3>2. CASE t # token
        <4>1. permits'[t] = permits[t]
          BY <2>6, <3>2
        <4>2. permits[t].outcome # "none" => permits[t].completion = 2 /\ t <= action.token
          BY DEF PumpInv, PermitsOK
        <4>3. permits[t].epoch <= p.epoch + 1 /\ (t <= action.token => t <= token)
          BY <1>1, <2>3, <2>9, <3>2
        <4> QED BY <2>2, <2>4, <4>1, <4>2, <4>3
      <3> QED BY <3>1, <3>2
    <2>11. ExecutingOK'
      <3>1. token \notin lapsed /\ \A r \in requests : r.token < token
        BY <2>2, <2>3 DEF PumpInv, NewestToken, PumpTypeOK, Request, Tokens
      <3>2. action'.status = "claimed" /\ action'.answered = "none"
        BY <2>1
      <3> QED BY <1>2, <2>2, <2>4, <2>6, <2>9, <3>1, <3>2 DEF ExecutingOK, Executing
    <2>12. EvidenceOK'
      <3>1. \A r \in requests : r.token # token
        BY <2>2, <2>3 DEF PumpInv, NewestToken, PumpTypeOK, Request
      <3>2. \A t \in Tokens : Truthful(t, permits[t].outcome)'
        BY <1>2, <2>2, <2>6 DEF PumpInv, EvidenceOK, Truthful
      <3>3. \A r \in requests : Truthful(r.token, r.evidence)'
        BY <1>2, <2>2, <3>1 DEF PumpInv, EvidenceOK, Truthful
      <3> QED BY <1>2, <2>4, <3>2, <3>3 DEF EvidenceOK, Delivering, Truthful
    <2>13. ChangedUnderClaim'
      BY <1>2 DEF PumpInv, ChangedUnderClaim
    <2>14. RecordOK'
      BY <2>2
    <2> QED BY <2>7, <2>8, <2>10, <2>11, <2>12, <2>13, <2>14 DEF PumpInv
  <1> QED BY <1>3, <1>4 DEF nextAction

LEMMA dispatchLostKeeps ==
  ASSUME PumpParameters, PumpInv, dispatchLost PROVE PumpInv'
  <1>0. PICK p \in Pump : p = pump
    BY TypesOfPump
  <1>1. p.epoch \in Nat /\ p.epoch + 1 \in Nat /\ p.epoch <= p.epoch + 1 /\ p.epoch <= p.epoch
        /\ 0 \in 0..MaxTokens
    BY <1>0, TypesOfPump DEF PumpParameters
  <1>2. PICK token : token = action.token + 1
    OBVIOUS
  <1>3. /\ Claimable /\ pump.state = "Idle"
        /\ action' = [action EXCEPT !.status = "claimed", !.token = token, !.answered = "none"]
        /\ UNCHANGED <<permits, requests, world, late, restarts>>
    BY <1>2 DEF dispatchLost
  <1>4. /\ action' \in Record /\ token \in Tokens /\ action'.token = token /\ token > action.token
        /\ RecordOK'
    BY <1>2, <1>3, ClaimTaken
  <1>5. token \in 0..MaxTokens /\ action.token <= token /\ action.token \in Int /\ token \in Int
        /\ pump.token \in Int /\ pump.token <= token /\ token <= token
    BY <1>4, TypesOfPump DEF Tokens
  <1>6. /\ pump' \in Pump /\ pump'.state \in {"Idle", "Inspecting"} /\ pump'.token <= token
        /\ p.epoch <= pump'.epoch /\ overdue' \in BOOLEAN /\ lapsed' \subseteq lapsed \cup {token}
    <2>1. CASE UNCHANGED <<lapsed, pump, overdue>>
      BY <1>0, <1>1, <1>3, <1>5, <2>1, TypesOfPump
    <2>2. CASE /\ lapsed' = lapsed \cup {token} /\ overdue' = FALSE
               /\ pump' = [p EXCEPT !.state = "Inspecting", !.token = token, !.evidence = "none",
                                    !.epoch = p.epoch + 1, !.read = 0]
      <3>1. pump' \in Pump /\ pump'.state = "Inspecting" /\ pump'.token = token /\ pump'.epoch = p.epoch + 1
        BY <1>1, <1>5, <2>2, Words DEF Pump
      <3> QED BY <1>1, <1>5, <2>2, <3>1
    <2> QED BY <1>0, <1>2, <2>1, <2>2 DEF dispatchLost
  <1>7. PumpTypeOK'
    BY <1>3, <1>4, <1>6 DEF PumpInv, PumpTypeOK
  <1>8. NewestToken'
    <2>1. \A t \in lapsed : t \in Int /\ t <= action.token
      BY DEF PumpInv, NewestToken, PumpTypeOK, Tokens
    <2>2. \A r \in requests : r.token \in Int /\ r.token <= action.token
      BY DEF PumpInv, NewestToken, PumpTypeOK, Request
    <2> QED BY <1>3, <1>4, <1>5, <1>6, <2>1, <2>2 DEF NewestToken
  <1>9. PermitsOK'
    <2> SUFFICES ASSUME NEW t \in Tokens
                 PROVE  /\ permits[t].epoch <= pump'.epoch
                        /\ permits[t].outcome # "none" => permits[t].completion = 2 /\ t <= token
      BY <1>3, <1>4 DEF PermitsOK
    <2>1. t \in Int /\ permits[t].epoch \in Nat /\ pump'.epoch \in Nat
      <3>1. t \in Int
        BY DEF Tokens, PumpParameters
      <3>2. permits[t].epoch \in Nat
        BY DEF PumpInv, PumpTypeOK, Permit
      <3>3. pump'.epoch \in Nat
        BY <1>6 DEF Pump
      <3> QED BY <3>1, <3>2, <3>3
    <2>2. /\ permits[t].epoch <= p.epoch
          /\ permits[t].outcome # "none" => permits[t].completion = 2 /\ t <= action.token
      BY <1>0 DEF PumpInv, PermitsOK
    <2> QED BY <1>1, <1>5, <1>6, <2>1, <2>2
  <1>10. ExecutingOK' /\ ChangedUnderClaim'
    BY <1>3, <1>6 DEF PumpInv, ExecutingOK, Executing, ChangedUnderClaim
  <1>11. EvidenceOK'
    <2>1. \A r \in requests : r.token # token
      BY <1>4, <1>5 DEF PumpInv, NewestToken, PumpTypeOK, Request
    <2>2. \A t \in Tokens : Truthful(t, permits[t].outcome)'
      <3> SUFFICES ASSUME NEW t \in Tokens PROVE Truthful(t, permits[t].outcome)'
        OBVIOUS
      <3>1. Truthful(t, permits[t].outcome) /\ (permits[t].outcome # "none" => t <= action.token)
        BY DEF PumpInv, EvidenceOK, PermitsOK
      <3>2. permits[t].outcome # "none" => t # token
        BY <1>4, <1>5, <3>1 DEF Tokens
      <3> QED BY <1>3, <1>4, <3>1, <3>2 DEF Truthful
    <2>3. \A r \in requests : Truthful(r.token, r.evidence)'
      BY <1>3, <1>4, <2>1 DEF PumpInv, EvidenceOK, Truthful
    <2> QED BY <1>3, <1>6, <2>2, <2>3 DEF EvidenceOK, Delivering, Truthful
  <1> QED BY <1>4, <1>7, <1>8, <1>9, <1>10, <1>11 DEF PumpInv

LEMMA lapseKeeps ==
  ASSUME PumpParameters, PumpInv, lapse PROVE PumpInv'
  <1>1. /\ lapsed' = lapsed \cup {action.token} /\ action.status = "claimed"
        /\ (pump.state = "Executing" /\ pump.token = action.token) => overdue
        /\ UNCHANGED <<action, pump, overdue, permits, requests, world, late, restarts>>
    BY DEF lapse
  <1>2. action.token \in Tokens /\ action.token <= action.token
    BY <1>1, TypesOfPump DEF PumpInv, NewestToken, Held
  <1>3. PumpTypeOK' /\ NewestToken' /\ PermitsOK'
    BY <1>1, <1>2 DEF PumpInv, PumpTypeOK, NewestToken, PermitsOK, Held
  <1>4. ExecutingOK' /\ EvidenceOK' /\ RecordOK' /\ ChangedUnderClaim'
    BY <1>1 DEF PumpInv, ExecutingOK, Executing, EvidenceOK, Truthful, Delivering, RecordOK, Replayed, ChangedUnderClaim
  <1> QED BY <1>3, <1>4 DEF PumpInv

LEMMA deadlinePassesKeeps ==
  ASSUME PumpParameters, PumpInv, deadlinePasses PROVE PumpInv'
  <1>1. overdue' = TRUE /\ UNCHANGED <<action, lapsed, pump, permits, requests, world, late, restarts>>
    BY DEF deadlinePasses
  <1> QED
    BY <1>1 DEF PumpInv, PumpTypeOK, NewestToken, PermitsOK, Held, ExecutingOK, Executing, EvidenceOK,
                Truthful, Delivering, RecordOK, Replayed, ChangedUnderClaim

(* A context that is not cancelled is the one of the claim that executes,  *)
(* and the journal still holds that claim.                                 *)
LEMMA OnlyCurrent ==
  ASSUME PumpParameters, PumpInv, NEW t \in Tokens, ~IsCancellationRequested(t)
  PROVE  Executing /\ t = pump.token /\ t = action.token /\ Current(t) /\ t \notin lapsed
  <1>1. Executing /\ permits[t].epoch = pump.epoch /\ ~overdue
    BY DEF IsCancellationRequested, Executing
  <1>2. t = pump.token
    <2>1. \A u \in Tokens \ {pump.token} : permits[u].epoch < pump.epoch
      BY <1>1 DEF PumpInv, ExecutingOK
    <2> QED BY <1>1, <2>1, TypesOfPump
  <1> QED BY <1>1, <1>2 DEF PumpInv, ExecutingOK, Current, Held

(* The game completes a context: only its own permit changes, and with it  *)
(* the world at most under the executing claim.                            *)
LEMMA PermitCompletes ==
  ASSUME PumpParameters, PumpInv, NEW t \in Tokens, NEW outcome \in Answers, NEW count \in 1..2,
         NEW permit \in Permit, permit = permits[t], permit.completion = 0,
         permits' = [permits EXCEPT ![t] = [permit EXCEPT !.completion = count, !.outcome = outcome]],
         outcome # "none" => count = 2 /\ ~IsCancellationRequested(t),
         world' \in {world, world \cup {t}},
         world' # world => ~IsCancellationRequested(t) /\ outcome # "rejected",
         outcome = "succeeded" => world' # {},
         outcome = "rejected" => world' = {},
         late' = late,
         UNCHANGED <<action, lapsed, pump, overdue, requests, restarts>>
  PROVE  PumpInv'
  <1>1. permits \in [Tokens -> Permit]
    BY DEF PumpInv, PumpTypeOK
  <1>2. count \in 0..2
    OBVIOUS
  <1>3. PICK q \in Permit : q = [permit EXCEPT !.completion = count, !.outcome = outcome]
    BY <1>2 DEF Permit
  <1>4. q.epoch = permit.epoch /\ q.completion = count /\ q.outcome = outcome
    BY <1>3 DEF Permit
  <1>5. permits' \in [Tokens -> Permit] /\ permits'[t] = q /\ \A u \in Tokens \ {t} : permits'[u] = permits[u]
    BY <1>1, <1>3
  <1>6. outcome \in {"none", "succeeded", "rejected", "unknown"}
    BY DEF Answers
  <1>7. ~IsCancellationRequested(t) => Executing /\ t = pump.token /\ t = action.token
    BY OnlyCurrent
  <1>8. Executing => /\ pump.token \in Tokens /\ action.token = pump.token /\ action.status = "claimed"
                     /\ \A r \in requests : r.token # action.token
    BY TypesOfPump DEF PumpInv, ExecutingOK, Request
  <1>9. PumpTypeOK'
    BY <1>5 DEF PumpInv, PumpTypeOK
  <1>10. NewestToken'
    BY DEF PumpInv, NewestToken, Held
  <1>11. PermitsOK'
    <2>1. q.epoch <= pump.epoch /\ (q.outcome # "none" => q.completion = 2 /\ t <= action.token)
      BY <1>4, <1>7, TypesOfPump DEF PumpInv, PermitsOK
    <2> QED BY <1>5, <2>1 DEF PumpInv, PermitsOK
  <1>12. ExecutingOK'
    BY <1>4, <1>5 DEF PumpInv, ExecutingOK, Executing
  <1>13. EvidenceOK'
    <2>1. ASSUME NEW r \in requests PROVE Truthful(r.token, r.evidence)'
      BY <1>7, <1>8 DEF PumpInv, EvidenceOK, Truthful
    <2>2. ASSUME NEW u \in Tokens PROVE Truthful(u, permits[u].outcome)'
      <3>1. CASE u = t
        <4>1. permits'[u].outcome = outcome
          BY <1>4, <1>5, <3>1
        <4> QED BY <1>6, <4>1 DEF Truthful
      <3>2. CASE u # t
        <4>1. permits'[u] = permits[u] /\ Truthful(u, permits[u].outcome)
          BY <1>5, <3>2 DEF PumpInv, EvidenceOK
        <4> QED BY <1>7, <3>2, <4>1 DEF Truthful
      <3> QED BY <3>1, <3>2
    <2>3. Delivering => world' = world
      BY <1>7 DEF Delivering, Executing
    <2> QED BY <2>1, <2>2, <2>3 DEF PumpInv, EvidenceOK, Truthful, Delivering
  <1>14. RecordOK'
    BY <1>7, <1>8 DEF PumpInv, RecordOK, Replayed
  <1> QED BY <1>9, <1>10, <1>11, <1>12, <1>13, <1>14 DEF PumpInv, ChangedUnderClaim

LEMMA OpenContext ==
  ASSUME PumpInv, NEW t \in Tokens, permits[t].completion = 0
  PROVE  /\ permits[t] \in Permit /\ permits[t].outcome = "none"
         /\ [permits[t] EXCEPT !.completion = 1] = [permits[t] EXCEPT !.completion = 1, !.outcome = "none"]
  <1>1. permits[t] \in Permit
    BY DEF PumpInv, PumpTypeOK
  <1>2. permits[t].outcome = "none"
    BY DEF PumpInv, PermitsOK
  <1> QED BY <1>1, <1>2 DEF Permit

LEMMA TryCommitKeeps ==
  ASSUME PumpParameters, PumpInv, NEW t \in Tokens, TryCommit(t) PROVE PumpInv'
  <1>1. PICK permit \in Permit : permit = permits[t]
    BY OpenContext DEF TryCommit
  <1>2. permit.completion = 0 /\ UNCHANGED <<action, lapsed, pump, overdue, requests, restarts>>
    BY <1>1 DEF TryCommit
  <1>3. CASE permits' = [permits EXCEPT ![t].completion = 1] /\ UNCHANGED <<world, late>>
    <2>1. permits' = [permits EXCEPT ![t] = [permit EXCEPT !.completion = 1]]
      BY <1>1, <1>3
    <2>2. permits' = [permits EXCEPT ![t] = [permit EXCEPT !.completion = 1, !.outcome = "none"]]
      BY <1>1, <1>2, <2>1, OpenContext
    <2>3. 1 \in 1..2 /\ world' = world /\ late' = late
      BY <1>3
    <2> QED BY <1>1, <1>2, <2>2, <2>3, PermitCompletes, Words
  <1>4. CASE ~(permits' = [permits EXCEPT ![t].completion = 1] /\ UNCHANGED <<world, late>>)
    <2>1. ~IsCancellationRequested(t)
      BY <1>4 DEF TryCommit
    <2>2. PICK throws \in BOOLEAN :
            /\ permits' = [permits EXCEPT ![t] = IF throws THEN [@ EXCEPT !.completion = 1]
                             ELSE [@ EXCEPT !.completion = 2, !.outcome = "succeeded"]]
            /\ world' = IF Replayed /\ world # {} THEN world ELSE world \cup {t}
            /\ late' = (late \/ ~Current(t) \/ t \in lapsed)
      BY <1>4, <2>1 DEF TryCommit
    <2>3. late' = late
      <3>1. ~(~Current(t) \/ t \in lapsed)
        BY <2>1, OnlyCurrent
      <3>2. late = FALSE
        BY DEF PumpInv, PumpTypeOK, ChangedUnderClaim
      <3> QED BY <2>2, <3>1, <3>2
    <2>4. world' \in {world, world \cup {t}} /\ world' # {}
      BY <2>2
    <2>5. CASE throws
      <3>1. permits' = [permits EXCEPT ![t] = [permit EXCEPT !.completion = 1]]
        BY <1>1, <2>2, <2>5
      <3>2. permits' = [permits EXCEPT ![t] = [permit EXCEPT !.completion = 1, !.outcome = "none"]]
        BY <1>1, <1>2, <3>1, OpenContext
      <3>3. 1 \in 1..2
        OBVIOUS
      <3> QED BY <1>1, <1>2, <2>1, <2>3, <2>4, <3>2, <3>3, PermitCompletes, Words
    <2>6. CASE ~throws
      <3>1. permits' = [permits EXCEPT ![t] = [permit EXCEPT !.completion = 2, !.outcome = "succeeded"]]
        BY <1>1, <2>2, <2>6
      <3>2. 2 \in 1..2 /\ "succeeded" \in Answers
        BY DEF Answers
      <3> QED BY <1>1, <1>2, <2>1, <2>3, <2>4, <3>1, <3>2, PermitCompletes
    <2> QED BY <2>5, <2>6
  <1> QED BY <1>3, <1>4

LEMMA TryCompleteWithoutWriteKeeps ==
  ASSUME PumpParameters, PumpInv, NEW t \in Tokens, TryCompleteWithoutWrite(t) PROVE PumpInv'
  <1>1. PICK permit \in Permit : permit = permits[t]
    BY OpenContext DEF TryCompleteWithoutWrite
  <1>2. permit.completion = 0 /\ UNCHANGED <<action, lapsed, pump, overdue, requests, world, late, restarts>>
    BY <1>1 DEF TryCompleteWithoutWrite
  <1>3. CASE IsCancellationRequested(t)
    <2>1. permits' = [permits EXCEPT ![t] = [permit EXCEPT !.completion = 1]]
      BY <1>1, <1>3 DEF TryCompleteWithoutWrite
    <2>2. permits' = [permits EXCEPT ![t] = [permit EXCEPT !.completion = 1, !.outcome = "none"]]
      BY <1>1, <1>2, <2>1, OpenContext
    <2>3. 1 \in 1..2
      OBVIOUS
    <2> QED BY <1>1, <1>2, <2>2, <2>3, PermitCompletes, Words
  <1>4. CASE ~IsCancellationRequested(t)
    <2>1. PICK outcome \in {"unknown"} \cup (IF world = {} THEN {"rejected"} ELSE {}) :
            permits' = [permits EXCEPT ![t].completion = 2, ![t].outcome = outcome]
      BY <1>4 DEF TryCompleteWithoutWrite
    <2>2. permits' = [permits EXCEPT ![t] = [permit EXCEPT !.completion = 2, !.outcome = outcome]]
      BY <1>1, <2>1
    <2>3. 2 \in 1..2 /\ outcome \in Answers /\ outcome \in {"unknown", "rejected"} /\ (outcome = "rejected" => world = {})
      BY <2>1 DEF Answers
    <2> QED BY <1>1, <1>2, <1>4, <2>2, <2>3, PermitCompletes
  <1> QED BY <1>3, <1>4

(* The inductive invariant of AuthoritativeActionPump with the execution   *)
(* contexts it hands out: a context is valid only under the claim it was   *)
(* opened for, and what the pump reports is what it did or saw.            *)
THEOREM PumpInvariant == ASSUME PumpParameters PROVE PumpSpec => []PumpInv
  <1>1. PumpInit => PumpInv
    <2> SUFFICES ASSUME PumpInit PROVE PumpInv
      OBVIOUS
    <2>1. 0 \in 0..MaxTokens /\ 2 \in 0..2
      BY DEF PumpParameters
    <2>2. NoPermit \in Permit /\ NoPermit.outcome = "none" /\ NoPermit.epoch = 0
      BY <2>1, Words DEF NoPermit, Permit
    <2>3. action \in Record /\ action.status = "pending" /\ action.token = 0
      BY <2>1, Words DEF PumpInit, Record, Statuses
    <2>4. pump \in Pump /\ pump.state = "Idle" /\ pump.token = 0 /\ pump.epoch = 0
      BY <2>1, Words DEF PumpInit, Pump
    <2>5. PumpTypeOK
      BY <2>2, <2>3, <2>4 DEF PumpInit, PumpTypeOK
    <2>6. NewestToken /\ PermitsOK /\ ExecutingOK /\ EvidenceOK /\ RecordOK /\ ChangedUnderClaim
      BY <2>2, <2>3, <2>4 DEF PumpInit, NewestToken, Held, PermitsOK, ExecutingOK, Executing, EvidenceOK,
                              Truthful, Delivering, RecordOK, Replayed, ChangedUnderClaim
    <2> QED BY <2>5, <2>6 DEF PumpInv
  <1>2. ASSUME PumpInv, [PumpNext]_pumpVars PROVE PumpInv'
    <2>1. CASE UNCHANGED pumpVars
      <3> USE <1>2, <2>1 DEF pumpVars
      <3>1. PumpTypeOK' /\ NewestToken' /\ PermitsOK'
        BY DEF PumpInv, PumpTypeOK, NewestToken, Held, PermitsOK
      <3>2. ExecutingOK' /\ EvidenceOK' /\ RecordOK' /\ ChangedUnderClaim'
        BY DEF PumpInv, ExecutingOK, Executing, EvidenceOK, Truthful, Delivering, RecordOK, Replayed, ChangedUnderClaim
      <3> QED BY <3>1, <3>2 DEF PumpInv
    <2>2. CASE Work
      BY <1>2, <2>2, recoverActionKeeps, nextActionKeeps, executedKeeps, inspectedKeeps, deliveredKeeps,
         resolveConflictKeeps, OnEnableKeeps DEF Work
    <2>3. CASE dispatchLost \/ deadlinePasses \/ lapse \/ deliveryLost \/ rejected \/ OnDisable
      BY <1>2, <2>3, dispatchLostKeeps, deadlinePassesKeeps, lapseKeeps, deliveryLostKeeps, rejectedKeeps,
         OnDisableKeeps
    <2>4. CASE \E t \in Tokens : TryCommit(t) \/ TryCompleteWithoutWrite(t)
      BY <1>2, <2>4, TryCommitKeeps, TryCompleteWithoutWriteKeeps
    <2>5. CASE \E sent \in requests : servedLate(sent)
      BY <1>2, <2>5, servedLateKeeps
    <2> QED BY <1>2, <2>1, <2>2, <2>3, <2>4, <2>5 DEF PumpNext
  <1> QED BY <1>1, <1>2, PTL DEF PumpSpec

(* The world changes only under a claim that the journal holds and that    *)
(* has not lapsed: however long the game keeps an execution context of     *)
(* AuthoritativeActionExecutionContext, TryCommit refuses it.  And what    *)
(* the journal records of an Action is what became of the world.           *)
THEOREM PumpRecordsChanges == ASSUME PumpParameters PROVE PumpSpec => []ChangesRecorded
  <1>1. ASSUME PumpInv PROVE ChangesRecorded
    <2>1. ~Replayed => Cardinality(world) <= 1
      <3> SUFFICES ASSUME ~Replayed PROVE Cardinality(world) <= 1
        OBVIOUS
      <3>1. world \subseteq {action.token}
        BY <1>1 DEF PumpInv, RecordOK
      <3>2. IsFiniteSet({action.token}) /\ Cardinality({action.token}) = 1
        BY FS_Singleton
      <3> QED BY <3>1, <3>2, FS_Subset
    <2>2. JournalTruthful
      BY <1>1, <2>1 DEF PumpInv, RecordOK, JournalTruthful
    <2> QED BY <1>1, <2>2 DEF PumpInv, ChangesRecorded
  <1> QED BY <1>1, PumpInvariant, PTL

-----------------------------------------------------------------------------
(* The tool: its inductive invariant *)

ToolParameters ==
  /\ MaxAuthority \in Nat \ {0} /\ Duration \in Nat \ {0} /\ MaxTime \in Nat
  /\ OperationOf \in [Calls -> Operations]

ToolSpec == ToolInit /\ [][ToolNext]_toolVars

Steps == {"idle", "readAuthority", "request", "snapshot", "read", "undecided", "asleep",
          "confirmAuthority", "admit", "submit", "settling"} \cup Outcomes
Call == [pc : Steps, expected : 0..MaxAuthority, current : 0..MaxAuthority, revision : Nat,
         requestedAt : Times \cup {Never}, consent : BOOLEAN]
ActionRow == [status : {"pending", "uncertain", "succeeded", "failed"}, authority : Authorities]
Spending == [id : ApprovalIds, fresh : BOOLEAN]

(* A call past its first read of the game's authority has an approval ID.  *)
Identified(pc) == pc \notin {"idle", "readAuthority"} \cup Outcomes
CallOK(c, q) ==
  /\ Identified(q.pc) => q.expected \in Authorities
  /\ q.pc = "submit" => ~q.consent
  /\ (q.pc = "settling" /\ q.consent) => \E x \in spent : x.id = <<OperationOf[c], q.expected>>

CallsOK ==
  /\ toolCalls \in [Calls -> Call]
  /\ \A c \in Calls : CallOK(c, toolCalls[c])

(* A row passes a load, its revision tells how often it has changed, and   *)
(* if it is consumed, an admission spent it.                               *)
RowOK(i, r) ==
  \/ r = NoApproval
  \/ /\ assertActionApprovalRecord(r)
     /\ r.status = "pending" => r.revision = 1
     /\ r.status = "approved" => r.revision = 2
     /\ r.status = "consumed" => \E x \in spent : x.id = i

RowsOK ==
  /\ approvalRows \in [ApprovalIds -> {NoApproval} \cup ActionApprovalRecord]
  /\ \A i \in ApprovalIds : RowOK(i, approvalRows[i])

(* Whatever was spent has its Action, under the same authority.            *)
ActionsOK ==
  /\ actionRows \in [Operations -> {NoAction} \cup ActionRow]
  /\ spent \subseteq Spending
  /\ \A x \in spent : actionRows[x.id[1]] \in ActionRow /\ actionRows[x.id[1]].authority = x.id[2]

AuthoritiesOK == runAuthority \in {"open", "closed"} /\ gameAuthority \in Authorities

(* The only call of an Operation whose Action is on file has admitted it.  *)
Admitted == {"settling", "aborted", "succeeded", "failed", "uncertain", "completed", "outcome_unknown"}
TranscriptOK ==
  \A c \in Calls :
    /\ (Alone(c) /\ actionRows[OperationOf[c]] # NoAction) => at(c) \in Admitted
    /\ at(c) = "completed" => actionRows[OperationOf[c]].status \in {"succeeded", "failed"}

(* A call that read an undecided request and was not notified since has    *)
(* still nothing to read, or will be notified.                             *)
WaitersOK ==
  /\ unseen \subseteq Calls /\ owed \in Nat
  /\ \A c \in Calls :
       (at(c) \in {"undecided", "asleep"} /\ c \notin unseen) =>
         approvalRows[id(c)].status = "pending" \/ owed > 0

ToolInv == CallsOK /\ RowsOK /\ ActionsOK /\ AuthoritiesOK /\ TranscriptOK /\ WaitersOK

-----------------------------------------------------------------------------
(* Lemmas about one call *)

LEMMA NamedApproval ==
  ASSUME ToolParameters, CallsOK, NEW c \in Calls
  PROVE  /\ toolCalls[c] \in Call /\ OperationOf[c] \in Operations /\ CallOK(c, toolCalls[c])
         /\ Identified(at(c)) => id(c) \in ApprovalIds
  BY DEF ToolParameters, CallsOK, CallOK, id, at, ApprovalIds

LEMMA FirstCall == ToolParameters => NoCall \in Call /\ \A c : CallOK(c, NoCall)
  BY DEF ToolParameters, NoCall, Call, CallOK, Identified, Steps, Times

(* A call that comes to an outcome forgets everything else.                *)
LEMMA StepOf ==
  ASSUME ToolParameters, CallsOK, NEW c \in Calls, NEW pc \in Steps, step(c, pc)
  PROVE  \E q \in Call :
           /\ toolCalls' = [toolCalls EXCEPT ![c] = q] /\ q.pc = pc
           /\ pc \notin Outcomes => q = [toolCalls[c] EXCEPT !.pc = pc]
           /\ pc \in Outcomes => q = [NoCall EXCEPT !.pc = pc]
  <1>1. PICK old \in Call : old = toolCalls[c]
    BY NamedApproval
  <1>2. CASE pc \in Outcomes
    <2>1. [NoCall EXCEPT !.pc = pc] \in Call /\ [NoCall EXCEPT !.pc = pc].pc = pc
      BY FirstCall DEF Call, NoCall
    <2>2. toolCalls' = [toolCalls EXCEPT ![c] = [NoCall EXCEPT !.pc = pc]]
      BY <1>2 DEF step
    <2> QED BY <1>2, <2>1, <2>2
  <1>3. CASE pc \notin Outcomes
    <2>1. [old EXCEPT !.pc = pc] \in Call /\ [old EXCEPT !.pc = pc].pc = pc
      BY DEF Call
    <2>2. toolCalls' = [toolCalls EXCEPT ![c] = [old EXCEPT !.pc = pc]]
      BY <1>1, <1>3 DEF step
    <2> QED BY <1>1, <1>3, <2>1, <2>2
  <1> QED BY <1>2, <1>3

LEMMA CallsKeep ==
  ASSUME ToolParameters, CallsOK, NEW c \in Calls, NEW q \in Call, toolCalls' = [toolCalls EXCEPT ![c] = q],
         spent \subseteq spent', CallOK(c, q)'
  PROVE  CallsOK'
  <1>1. toolCalls' \in [Calls -> Call]
    BY DEF CallsOK
  <1>2. ASSUME NEW d \in Calls PROVE CallOK(d, toolCalls[d])'
    <2>1. CASE d = c
      <3>1. toolCalls'[d] = q
        BY <2>1 DEF CallsOK
      <3> QED BY <2>1, <3>1 DEF CallOK
    <2>2. CASE d # c
      <3>1. toolCalls'[d] = toolCalls[d] /\ CallOK(d, toolCalls[d])
        BY <2>2 DEF CallsOK
      <3> QED BY <3>1 DEF CallOK
    <2> QED BY <2>1, <2>2
  <1> QED BY <1>1, <1>2 DEF CallsOK

LEMMA OtherCallsKeep ==
  ASSUME CallsOK, toolCalls' = toolCalls, spent' = spent PROVE CallsOK'
  BY DEF CallsOK, CallOK

LEMMA RowsKeep ==
  ASSUME RowsOK, NEW i \in ApprovalIds, NEW r \in {NoApproval} \cup ActionApprovalRecord,
         approvalRows' = [approvalRows EXCEPT ![i] = r], spent \subseteq spent', RowOK(i, r)'
  PROVE  RowsOK'
  <1>1. approvalRows' \in [ApprovalIds -> {NoApproval} \cup ActionApprovalRecord]
    BY DEF RowsOK
  <1>2. ASSUME NEW j \in ApprovalIds PROVE RowOK(j, approvalRows[j])'
    <2>1. CASE j = i
      <3>1. approvalRows'[j] = r
        BY <2>1 DEF RowsOK
      <3> QED BY <2>1, <3>1 DEF RowOK
    <2>2. CASE j # i
      <3>1. approvalRows'[j] = approvalRows[j] /\ RowOK(j, approvalRows[j])
        BY <2>2 DEF RowsOK
      <3> QED BY <3>1 DEF RowOK
    <2> QED BY <2>1, <2>2
  <1> QED BY <1>1, <1>2 DEF RowsOK

LEMMA OtherRowsKeep ==
  ASSUME RowsOK, approvalRows' = approvalRows, spent \subseteq spent' PROVE RowsOK'
  BY DEF RowsOK, RowOK

LEMMA OtherActionsKeep ==
  ASSUME ActionsOK, UNCHANGED <<actionRows, spent>> PROVE ActionsOK'
  BY DEF ActionsOK

LEMMA OtherAuthoritiesKeep ==
  ASSUME AuthoritiesOK, UNCHANGED authorities PROVE AuthoritiesOK'
  BY DEF AuthoritiesOK, authorities

LEMMA TranscriptKeeps ==
  ASSUME ToolParameters, CallsOK, TranscriptOK, NEW c \in Calls, NEW q \in Call,
         toolCalls' = [toolCalls EXCEPT ![c] = q],
         \A op \in Operations \ {OperationOf[c]} : actionRows'[op] = actionRows[op],
         \A op \in Operations : actionRows[op].status \in {"succeeded", "failed"} => actionRows'[op] = actionRows[op],
         (Alone(c) /\ actionRows'[OperationOf[c]] # NoAction) => q.pc \in Admitted,
         q.pc = "completed" => actionRows'[OperationOf[c]].status \in {"succeeded", "failed"}
  PROVE  TranscriptOK'
  <1> SUFFICES ASSUME NEW d \in Calls
               PROVE  /\ (Alone(d) /\ actionRows'[OperationOf[d]] # NoAction) => toolCalls'[d].pc \in Admitted
                      /\ toolCalls'[d].pc = "completed" => actionRows'[OperationOf[d]].status \in {"succeeded", "failed"}
    BY DEF TranscriptOK, at, Alone
  <1>1. OperationOf[d] \in Operations
    BY DEF ToolParameters
  <1>2. CASE d = c
    <2>1. toolCalls'[d] = q
      BY <1>2 DEF CallsOK
    <2> QED BY <1>2, <2>1
  <1>3. CASE d # c
    <2>1. toolCalls'[d] = toolCalls[d]
      BY <1>3 DEF CallsOK
    <2>2. /\ (Alone(d) /\ actionRows[OperationOf[d]] # NoAction) => toolCalls[d].pc \in Admitted
          /\ toolCalls[d].pc = "completed" => actionRows[OperationOf[d]].status \in {"succeeded", "failed"}
      BY DEF TranscriptOK, at
    <2>3. Alone(d) => actionRows'[OperationOf[d]] = actionRows[OperationOf[d]]
      BY <1>1, <1>3 DEF Alone
    <2> QED BY <1>1, <2>1, <2>2, <2>3
  <1> QED BY <1>2, <1>3

LEMMA OtherTranscriptKeeps ==
  ASSUME TranscriptOK, UNCHANGED <<toolCalls, actionRows>> PROVE TranscriptOK'
  BY DEF TranscriptOK, at, Alone

LEMMA WaitersKeep ==
  ASSUME ToolParameters, CallsOK, WaitersOK, NEW c \in Calls, NEW q \in Call,
         toolCalls' = [toolCalls EXCEPT ![c] = q],
         unseen' \in {unseen, unseen \ {c}}, owed' = owed,
         \A i \in ApprovalIds : approvalRows[i].status = "pending" => approvalRows'[i].status = "pending",
         (q.pc \in {"undecided", "asleep"} /\ c \notin unseen') =>
           (approvalRows'[<<OperationOf[c], q.expected>>].status = "pending" \/ owed > 0)
  PROVE  WaitersOK'
  <1>1. unseen' \subseteq Calls /\ owed' \in Nat
    BY DEF WaitersOK
  <1>2. ASSUME NEW d \in Calls, toolCalls'[d].pc \in {"undecided", "asleep"}, d \notin unseen'
        PROVE  approvalRows'[<<OperationOf[d], toolCalls'[d].expected>>].status = "pending" \/ owed' > 0
    <2>1. CASE d = c
      <3>1. toolCalls'[d] = q
        BY <2>1 DEF CallsOK
      <3> QED BY <1>2, <2>1, <3>1
    <2>2. CASE d # c
      <3>1. toolCalls'[d] = toolCalls[d] /\ d \notin unseen
        BY <1>2, <2>2 DEF CallsOK
      <3>2. approvalRows[id(d)].status = "pending" \/ owed > 0
        BY <1>2, <3>1 DEF WaitersOK, at
      <3>3. Identified(at(d))
        BY <1>2, <3>1 DEF Identified, at, Outcomes
      <3>4. id(d) \in ApprovalIds
        BY <3>3, NamedApproval
      <3> QED BY <3>1, <3>2, <3>4 DEF id
    <2> QED BY <2>1, <2>2
  <1> QED BY <1>1, <1>2 DEF WaitersOK, at, id

LEMMA Notified == ASSUME notify, owed' \in Nat PROVE WaitersOK'
  BY DEF notify, WaitersOK

-----------------------------------------------------------------------------
(* The steps of a call that write no row *)

LEMMA PlainCallKeeps ==
  ASSUME ToolParameters, ToolInv, NEW c \in Calls, NEW q \in Call, toolCalls' = [toolCalls EXCEPT ![c] = q],
         UNCHANGED <<tables, authorities>>, CallOK(c, q),
         q.pc \in Admitted \/ at(c) \notin Admitted,
         q.pc = "completed" => actionRows[OperationOf[c]].status \in {"succeeded", "failed"},
         unseen' \in {unseen, unseen \ {c}}, owed' = owed,
         (q.pc \in {"undecided", "asleep"} /\ c \notin unseen') =>
           (approvalRows[<<OperationOf[c], q.expected>>].status = "pending" \/ owed > 0)
  PROVE  ToolInv'
  <1>1. approvalRows' = approvalRows /\ actionRows' = actionRows /\ spent' = spent
    BY DEF tables
  <1>2. CallsOK /\ RowsOK /\ ActionsOK /\ AuthoritiesOK /\ TranscriptOK /\ WaitersOK
    BY DEF ToolInv
  <1>3. CallOK(c, q)'
    BY <1>1 DEF CallOK
  <1>4. (Alone(c) /\ actionRows[OperationOf[c]] # NoAction) => q.pc \in Admitted
    BY <1>2 DEF TranscriptOK
  <1>5. CallsOK' /\ WaitersOK'
    BY <1>1, <1>2, <1>3, CallsKeep, WaitersKeep
  <1>6. TranscriptOK'
    BY <1>1, <1>2, <1>4, TranscriptKeeps
  <1>7. RowsOK' /\ ActionsOK' /\ AuthoritiesOK'
    BY <1>1, <1>2, OtherRowsKeep, OtherActionsKeep, OtherAuthoritiesKeep
  <1> QED BY <1>5, <1>6, <1>7 DEF ToolInv

LEMMA resolveScopeKeeps ==
  ASSUME ToolParameters, ToolInv, NEW c \in Calls, resolveScope(c) PROVE ToolInv'
  <1>1. PICK mode \in Modes, requested \in BOOLEAN :
          toolCalls' = [toolCalls EXCEPT ![c] =
             [NoCall EXCEPT !.pc = IF evaluateActionPolicy(mode, requested) = "denied" THEN "denied" ELSE "readAuthority",
                            !.consent = (evaluateActionPolicy(mode, requested) = "approval-required")]]
    BY DEF resolveScope
  <1>2. PICK pc \in {"denied", "readAuthority"}, consent \in BOOLEAN :
          toolCalls' = [toolCalls EXCEPT ![c] = [NoCall EXCEPT !.pc = pc, !.consent = consent]]
    BY <1>1
  <1>3. DEFINE q == [NoCall EXCEPT !.pc = pc, !.consent = consent]
  <1>4. q \in Call /\ q.pc = pc
    BY <1>2, FirstCall DEF Call, NoCall, Steps, Outcomes
  <1>5. CallOK(c, q)
    BY <1>2, <1>4 DEF CallOK, Identified, Outcomes
  <1>6. at(c) \notin Admitted /\ UNCHANGED <<tables, authorities, unseen, owed>>
    BY DEF resolveScope, Admitted
  <1> HIDE DEF q
  <1>7. toolCalls' = [toolCalls EXCEPT ![c] = q]
    BY <1>2 DEF q
  <1>8. q.pc \notin {"undecided", "asleep", "completed"}
    BY <1>2, <1>4
  <1> QED BY <1>4, <1>5, <1>6, <1>7, <1>8, PlainCallKeeps

LEMMA readAuthorityKeeps ==
  ASSUME ToolParameters, ToolInv, NEW c \in Calls, readAuthority(c) PROVE ToolInv'
  <1>1. PICK old \in Call : old = toolCalls[c]
    BY NamedApproval DEF ToolInv
  <1>2. DEFINE q == [old EXCEPT !.pc = IF old.consent THEN "request" ELSE "submit", !.expected = gameAuthority]
  <1>3. gameAuthority \in Authorities /\ gameAuthority \in 0..MaxAuthority
    BY DEF ToolInv, AuthoritiesOK, Authorities, ToolParameters
  <1>4. q.pc \in {"request", "submit"} /\ q.expected = gameAuthority /\ (q.pc = "submit" => ~q.consent)
    BY DEF Call
  <1>5. q \in Call
    BY <1>3 DEF Call, Steps
  <1>6. CallOK(c, q)
    BY <1>3, <1>4 DEF CallOK
  <1>7. toolCalls' = [toolCalls EXCEPT ![c] = q]
    BY <1>1 DEF readAuthority
  <1>8. at(c) \notin Admitted /\ UNCHANGED <<tables, authorities, unseen, owed>>
    BY DEF readAuthority, Admitted
  <1>9. q.pc \notin {"undecided", "asleep", "completed"}
    BY <1>4
  <1> HIDE DEF q
  <1> QED BY <1>5, <1>6, <1>7, <1>8, <1>9, PlainCallKeeps

(* Going on without an outcome keeps all that the call knows.              *)
LEMMA GoesOn ==
  ASSUME ToolParameters, ToolInv, NEW c \in Calls, NEW pc \in Steps \ Outcomes, step(c, pc),
         Identified(at(c)), pc \notin {"submit", "settling"}, at(c) \notin Admitted,
         UNCHANGED <<tables, authorities>>, unseen' \in {unseen, unseen \ {c}}, owed' = owed,
         (pc \in {"undecided", "asleep"} /\ c \notin unseen') => (approvalRows[id(c)].status = "pending" \/ owed > 0)
  PROVE  ToolInv'
  <1>1. PICK q \in Call : /\ toolCalls' = [toolCalls EXCEPT ![c] = q] /\ q.pc = pc
                          /\ q = [toolCalls[c] EXCEPT !.pc = pc]
    BY StepOf DEF ToolInv
  <1>2. q.expected = toolCalls[c].expected
    BY <1>1, NamedApproval DEF ToolInv, Call
  <1>3. toolCalls[c].expected \in Authorities
    BY NamedApproval DEF ToolInv, CallOK, at
  <1>4. CallOK(c, q)
    BY <1>1, <1>2, <1>3 DEF CallOK
  <1>5. q.pc # "completed"
    BY <1>1 DEF Outcomes
  <1>6. <<OperationOf[c], q.expected>> = id(c)
    BY <1>2 DEF id
  <1> QED BY <1>1, <1>4, <1>5, <1>6, PlainCallKeeps

(* An outcome needs no more than that a completed call has its result.     *)
LEMMA Ends ==
  ASSUME ToolParameters, ToolInv, NEW c \in Calls, NEW pc \in Outcomes, step(c, pc),
         pc \in Admitted \/ at(c) \notin Admitted,
         pc = "completed" => actionRows[OperationOf[c]].status \in {"succeeded", "failed"},
         UNCHANGED <<tables, authorities, unseen, owed>>
  PROVE  ToolInv'
  <1>1. pc \in Steps
    BY DEF Steps
  <1>2. PICK q \in Call : /\ toolCalls' = [toolCalls EXCEPT ![c] = q] /\ q.pc = pc
    BY <1>1, StepOf DEF ToolInv
  <1>3. CallOK(c, q)
    BY <1>2 DEF CallOK, Identified, Outcomes
  <1>4. q.pc \notin {"undecided", "asleep"}
    BY <1>2 DEF Outcomes
  <1> QED BY <1>2, <1>3, <1>4, PlainCallKeeps

LEMMA snapshotKeeps ==
  ASSUME ToolParameters, ToolInv, NEW c \in Calls, snapshot(c) PROVE ToolInv'
  <1>1. Identified(at(c)) /\ at(c) \notin Admitted /\ "read" \in Steps \ Outcomes
    BY DEF snapshot, Identified, Outcomes, Admitted, Steps
  <1> QED BY <1>1, GoesOn DEF snapshot

LEMMA waitForChangeKeeps ==
  ASSUME ToolParameters, ToolInv, NEW c \in Calls, waitForChange(c) PROVE ToolInv'
  <1>1. Identified(at(c)) /\ at(c) \notin Admitted /\ {"snapshot", "asleep"} \subseteq Steps \ Outcomes
    BY DEF waitForChange, Identified, Outcomes, Admitted, Steps
  <1>2. UNCHANGED <<tables, authorities, unseen, owed>>
    BY DEF waitForChange
  <1>3. c \notin unseen => approvalRows[id(c)].status = "pending" \/ owed > 0
    BY DEF ToolInv, WaitersOK, waitForChange
  <1>4. CASE c \in unseen
    <2>1. step(c, "snapshot")
      BY <1>4 DEF waitForChange
    <2> QED BY <1>1, <1>2, <2>1, GoesOn
  <1>5. CASE ~(c \in unseen)
    <2>1. step(c, "asleep")
      BY <1>5 DEF waitForChange
    <2> QED BY <1>1, <1>2, <1>3, <2>1, GoesOn
  <1> QED BY <1>4, <1>5

LEMMA wakeKeeps ==
  ASSUME ToolParameters, ToolInv, NEW c \in Calls, wake(c) PROVE ToolInv'
  <1>1. Identified(at(c)) /\ at(c) \notin Admitted /\ "snapshot" \in Steps \ Outcomes
    BY DEF wake, Identified, Outcomes, Admitted, Steps
  <1> QED BY <1>1, GoesOn DEF wake

LEMMA readDecisionKeeps ==
  ASSUME ToolParameters, ToolInv, NEW c \in Calls, readDecision(c) PROVE ToolInv'
  <1>1. PICK old \in Call : old = toolCalls[c]
    BY NamedApproval DEF ToolInv
  <1>2. Identified(at(c)) /\ at(c) \notin Admitted /\ at(c) = "read"
    BY DEF readDecision, Identified, Outcomes, Admitted
  <1>3. id(c) \in ApprovalIds /\ old.expected \in Authorities
    BY <1>1, <1>2, NamedApproval DEF ToolInv, CallOK, at
  <1>4. PICK row \in {NoApproval} \cup ActionApprovalRecord : row = approvalRows[id(c)]
    BY <1>3 DEF ToolInv, RowsOK
  <1>5. PICK pc \in {"error", "undecided", "confirmAuthority", "denied"} :
          /\ toolCalls' = [toolCalls EXCEPT ![c] = [old EXCEPT !.pc = pc,
                             !.revision = IF row = NoApproval THEN 0
                                          ELSE IF row.status = "consumed" THEN row.revision - 1 ELSE row.revision]]
          /\ pc = "undecided" => row.status = "pending"
    BY <1>1, <1>4 DEF readDecision
  <1>6. row # NoApproval => row.revision \in Nat /\ row.revision - 1 \in Nat
    BY DEF ActionApprovalRecord
  <1>7. PICK revision \in Nat : toolCalls' = [toolCalls EXCEPT ![c] = [old EXCEPT !.pc = pc, !.revision = revision]]
    BY <1>5, <1>6
  <1>8. DEFINE q == [old EXCEPT !.pc = pc, !.revision = revision]
  <1>9. q \in Call /\ q.pc = pc /\ q.expected = old.expected
    BY <1>5 DEF Call, Steps, Outcomes
  <1>10. CallOK(c, q)
    BY <1>3, <1>5, <1>9 DEF CallOK
  <1>11. toolCalls' = [toolCalls EXCEPT ![c] = q] /\ UNCHANGED <<tables, authorities, unseen, owed>>
    BY <1>7 DEF readDecision
  <1>12. <<OperationOf[c], q.expected>> = id(c) /\ q.pc \notin {"asleep", "completed"}
    BY <1>1, <1>5, <1>9 DEF id
  <1>13. q.pc = "undecided" => approvalRows[<<OperationOf[c], q.expected>>].status = "pending"
    BY <1>4, <1>5, <1>9, <1>12
  <1> HIDE DEF q
  <1> QED BY <1>2, <1>9, <1>10, <1>11, <1>12, <1>13, PlainCallKeeps

LEMMA confirmAuthorityKeeps ==
  ASSUME ToolParameters, ToolInv, NEW c \in Calls, confirmAuthority(c) PROVE ToolInv'
  <1>1. PICK old \in Call : old = toolCalls[c]
    BY NamedApproval DEF ToolInv
  <1>2. Identified(at(c)) /\ at(c) \notin Admitted
    BY DEF confirmAuthority, Identified, Outcomes, Admitted
  <1>3. old.expected \in Authorities /\ gameAuthority \in 0..MaxAuthority
    BY <1>1, <1>2, NamedApproval DEF ToolInv, CallOK, at, AuthoritiesOK, Authorities, ToolParameters
  <1>4. DEFINE q == [old EXCEPT !.pc = "admit", !.current = gameAuthority]
  <1>5. q \in Call /\ q.pc = "admit" /\ q.expected = old.expected
    BY <1>3 DEF Call, Steps
  <1>6. CallOK(c, q)
    BY <1>3, <1>5 DEF CallOK
  <1>7. toolCalls' = [toolCalls EXCEPT ![c] = q] /\ UNCHANGED <<tables, authorities, unseen, owed>>
    BY <1>1 DEF confirmAuthority
  <1> HIDE DEF q
  <1> QED BY <1>2, <1>5, <1>6, <1>7, PlainCallKeeps

LEMMA waitForSettlementKeeps ==
  ASSUME ToolParameters, ToolInv, NEW c \in Calls, waitForSettlement(c) PROVE ToolInv'
  <1>1. PICK pc \in {"succeeded", "failed", "uncertain"} : step(c, pc)
    BY DEF waitForSettlement, Settled
  <1>2. pc \in Outcomes /\ pc \in Admitted /\ pc # "completed"
    BY <1>1 DEF Outcomes, Admitted
  <1> QED BY <1>1, <1>2, Ends DEF waitForSettlement

LEMMA abortKeeps ==
  ASSUME ToolParameters, ToolInv, NEW c \in Calls, abort(c) PROVE ToolInv'
  <1>1. "aborted" \in Outcomes /\ "aborted" \in Admitted
    BY DEF Outcomes, Admitted
  <1> QED BY <1>1, Ends DEF abort

LEMMA recoverKeeps ==
  ASSUME ToolParameters, ToolInv, NEW c \in Calls, recover(c) PROVE ToolInv'
  <1>1. OperationOf[c] \in Operations /\ actionRows[OperationOf[c]] \in {NoAction} \cup ActionRow
    BY DEF ToolParameters, ToolInv, ActionsOK
  <1>2. PICK pc \in {"not_started", "completed", "outcome_unknown"} : pc = recoveryOutcome(OperationOf[c])
    BY DEF recoveryOutcome
  <1>3. pc \in Outcomes /\ (pc \in {"completed", "outcome_unknown"} => pc \in Admitted)
    BY <1>2 DEF Outcomes, Admitted
  <1>4. pc = "completed" => actionRows[OperationOf[c]].status \in {"succeeded", "failed"}
    BY <1>2 DEF recoveryOutcome
  <1>5. pc = "not_started" => actionRows[OperationOf[c]] = NoAction
    BY <1>1, <1>2 DEF recoveryOutcome, ActionRow
  <1>6. PICK q \in Call : /\ toolCalls' = [toolCalls EXCEPT ![c] = q] /\ q.pc = pc
    <2>1. pc \in Steps /\ step(c, pc)
      BY <1>2, <1>3 DEF recover, Steps
    <2> QED BY <2>1, StepOf DEF ToolInv
  <1>7. CallOK(c, q) /\ q.pc \notin {"undecided", "asleep"}
    BY <1>3, <1>6 DEF CallOK, Identified, Outcomes
  <1>8. CASE pc \in Admitted
    BY <1>4, <1>6, <1>7, <1>8, PlainCallKeeps DEF recover
  <1>9. CASE pc = "not_started"
    <2>1. UNCHANGED <<approvalRows, actionRows, spent, runAuthority, gameAuthority, unseen, owed>>
      BY DEF recover, tables, authorities
    <2>2. CallsOK /\ RowsOK /\ ActionsOK /\ AuthoritiesOK /\ TranscriptOK /\ WaitersOK
      BY DEF ToolInv
    <2>3. CallOK(c, q)'
      BY <1>7, <2>1 DEF CallOK
    <2>4. CallsOK' /\ WaitersOK'
      BY <1>6, <1>7, <2>1, <2>2, <2>3, CallsKeep, WaitersKeep
    <2>5. TranscriptOK'
      BY <1>5, <1>6, <1>9, <2>1, <2>2, TranscriptKeeps
    <2>6. RowsOK' /\ ActionsOK' /\ AuthoritiesOK'
      BY <2>1, <2>2, OtherRowsKeep, OtherActionsKeep, OtherAuthoritiesKeep DEF authorities
    <2> QED BY <2>4, <2>5, <2>6 DEF ToolInv
  <1> QED BY <1>3, <1>8, <1>9

-----------------------------------------------------------------------------
(* Lemmas about approval records *)

Loads(r) == r \in ActionApprovalRecord /\ assertActionApprovalRecord(r)

LEMMA RequestedLoads ==
  ASSUME ToolParameters, NEW now \in Times
  PROVE  Loads(Requested(now)) /\ Requested(now).status = "pending" /\ Requested(now).revision = 1
  <1>1. now \in Nat /\ now + Duration \in Nat /\ now + Duration > now /\ 1 \in 1..3
    BY DEF ToolParameters, Times
  <1>2. Requested(now) \in ActionApprovalRecord
    BY <1>1 DEF Requested, ActionApprovalRecord
  <1> QED BY <1>1, <1>2 DEF Requested, assertActionApprovalRecord, Loads

LEMMA ExpiredLoads ==
  ASSUME ToolParameters, NEW r, Loads(r), r.status \in {"pending", "approved"}, r.revision \in 1..2
  PROVE  Loads(expired(r)) /\ expired(r).status = "expired"
  <1>1. PICK p \in ActionApprovalRecord : p = r
    BY DEF Loads
  <1>2. p.revision + 1 \in 1..3 /\ p.expiresAt \in Nat
    BY <1>1 DEF ActionApprovalRecord
  <1>3. expired(r) = [p EXCEPT !.status = "expired", !.revision = p.revision + 1, !.updatedAt = p.expiresAt]
    BY <1>1 DEF expired, advanceApproval
  <1>4. expired(r) \in ActionApprovalRecord
    BY <1>2, <1>3 DEF ActionApprovalRecord
  <1>5. /\ expired(r).status = "expired" /\ expired(r).updatedAt = p.expiresAt /\ expired(r).expiresAt = p.expiresAt
        /\ expired(r).requestedAt = p.requestedAt /\ expired(r).decision = p.decision
        /\ expired(r).decidedAt = p.decidedAt /\ expired(r).consumedAt = p.consumedAt
    BY <1>3 DEF ActionApprovalRecord
  <1>6. assertActionApprovalRecord(p)
    BY <1>1 DEF Loads
  <1> QED BY <1>1, <1>4, <1>5, <1>6 DEF assertActionApprovalRecord, Loads

LEMMA DecidedLoads ==
  ASSUME ToolParameters, NEW r, Loads(r), NEW now \in Times, CanDecide(r, 1, now), NEW verdict \in {"approved", "rejected"}
  PROVE  /\ Loads(decideActionApprovalRecord(r, verdict, now))
         /\ decideActionApprovalRecord(r, verdict, now).status \in {"expired", verdict}
         /\ decideActionApprovalRecord(r, verdict, now).revision = 2
  <1>1. PICK p \in ActionApprovalRecord : p = r
    BY DEF Loads
  <1>2. p.status = "pending" /\ p.revision = 1 /\ p.revision + 1 = 2 /\ 2 \in 1..3 /\ now >= p.requestedAt
    BY <1>1 DEF CanDecide
  <1>3. CASE p.expiresAt <= now
    <2>1. decideActionApprovalRecord(r, verdict, now) = expired(r)
      BY <1>1, <1>3 DEF decideActionApprovalRecord
    <2>2. expired(r).revision = 2
      BY <1>1, <1>2 DEF expired, advanceApproval, ActionApprovalRecord
    <2> QED BY <1>1, <1>2, <2>1, <2>2, ExpiredLoads
  <1>4. CASE ~(p.expiresAt <= now)
    <2>1. DEFINE d == [p EXCEPT !.status = verdict, !.revision = 2, !.updatedAt = now, !.decision = verdict, !.decidedAt = now]
    <2>2. decideActionApprovalRecord(r, verdict, now) = d
      BY <1>1, <1>2, <1>4 DEF decideActionApprovalRecord, advanceApproval, ActionApprovalRecord
    <2>3. now \in Nat /\ now \in Times /\ now # Never
      BY DEF Times, Never, ToolParameters
    <2>4. d \in ActionApprovalRecord
      BY <1>2, <2>3 DEF ActionApprovalRecord
    <2>5. /\ d.status = verdict /\ d.revision = 2 /\ d.updatedAt = now /\ d.decision = verdict /\ d.decidedAt = now
          /\ d.requestedAt = p.requestedAt /\ d.expiresAt = p.expiresAt /\ d.consumedAt = p.consumedAt
      BY DEF ActionApprovalRecord
    <2> HIDE DEF d
    <2>6. p.expiresAt > now
      BY <1>4, <2>3 DEF ActionApprovalRecord
    <2>7. assertActionApprovalRecord(d)
      BY <1>1, <1>2, <2>4, <2>5, <2>6 DEF assertActionApprovalRecord, Loads
    <2> QED BY <2>2, <2>4, <2>5, <2>7 DEF Loads
  <1> QED BY <1>3, <1>4

LEMMA ConsumedIs ==
  ASSUME ToolParameters, NEW r, Loads(r), r.status = "approved", r.revision = 2, NEW now \in Times
  PROVE  \/ consumeActionApprovalRecord(r, now) = expired(r)
         \/ consumeActionApprovalRecord(r, now).status = "consumed"
  <1>1. PICK p \in ActionApprovalRecord : p = r
    BY DEF Loads
  <1> QED BY <1>1 DEF consumeActionApprovalRecord, advanceApproval, ActionApprovalRecord

LEMMA RowOfId ==
  ASSUME ToolParameters, RowsOK, NEW i \in ApprovalIds
  PROVE  /\ approvalRows[i] \in {NoApproval} \cup ActionApprovalRecord
         /\ approvalRows[i] # NoApproval =>
              /\ Loads(approvalRows[i])
              /\ approvalRows[i].status = "pending" => approvalRows[i].revision = 1
              /\ approvalRows[i].status = "approved" => approvalRows[i].revision = 2
              /\ approvalRows[i].status = "consumed" => \E x \in spent : x.id = i
  BY DEF RowsOK, RowOK, Loads, assertActionApprovalRecord

-----------------------------------------------------------------------------
(* The steps that write an approval *)

LEMMA RowCallKeeps ==
  ASSUME ToolParameters, ToolInv, NEW c \in Calls, NEW q \in Call, toolCalls' = [toolCalls EXCEPT ![c] = q],
         NEW i \in ApprovalIds, NEW r \in {NoApproval} \cup ActionApprovalRecord,
         approvalRows' = [approvalRows EXCEPT ![i] = r], RowOK(i, r),
         UNCHANGED <<actionRows, spent, authorities>>, CallOK(c, q),
         at(c) \notin Admitted, q.pc # "completed", WaitersOK'
  PROVE  ToolInv'
  <1>1. actionRows' = actionRows /\ spent' = spent
    OBVIOUS
  <1>2. CallsOK /\ RowsOK /\ ActionsOK /\ AuthoritiesOK /\ TranscriptOK
    BY DEF ToolInv
  <1>3. CallOK(c, q)' /\ RowOK(i, r)'
    BY <1>1 DEF CallOK, RowOK
  <1>4. Alone(c) => actionRows[OperationOf[c]] = NoAction
    BY <1>2 DEF TranscriptOK
  <1>5. CallsOK' /\ RowsOK'
    BY <1>1, <1>2, <1>3, CallsKeep, RowsKeep
  <1>6. TranscriptOK'
    BY <1>1, <1>2, <1>4, TranscriptKeeps
  <1>7. ActionsOK' /\ AuthoritiesOK'
    BY <1>2, OtherActionsKeep, OtherAuthoritiesKeep
  <1> QED BY <1>5, <1>6, <1>7 DEF ToolInv

LEMMA requestKeeps ==
  ASSUME ToolParameters, ToolInv, NEW c \in Calls, NEW now \in Times, request(c, now) PROVE ToolInv'
  <1>1. PICK old \in Call : old = toolCalls[c]
    BY NamedApproval DEF ToolInv
  <1>2. Identified(at(c)) /\ at(c) \notin Admitted
    BY DEF request, Identified, Outcomes, Admitted
  <1>3. id(c) \in ApprovalIds /\ old.expected \in Authorities /\ RowsOK
    BY <1>1, <1>2, NamedApproval DEF ToolInv, CallOK, at
  <1>4. PICK r \in ActionApprovalRecord :
          approvalRows' = [approvalRows EXCEPT ![id(c)] = r] /\ RowOK(id(c), r)
    <2>1. CASE approvalRows[id(c)] = NoApproval
      <3>1. approvalRows' = [approvalRows EXCEPT ![id(c)] = Requested(now)]
        BY <2>1 DEF request, ensureRow
      <3>2. Requested(now) \in ActionApprovalRecord /\ RowOK(id(c), Requested(now))
        BY RequestedLoads DEF Loads, RowOK
      <3> QED BY <3>1, <3>2
    <2>2. CASE ~(approvalRows[id(c)] = NoApproval)
      <3>1. approvalRows' = approvalRows
        BY <2>2 DEF request, ensureRow
      <3>2. approvalRows' = [approvalRows EXCEPT ![id(c)] = approvalRows[id(c)]]
        BY <1>3, <3>1 DEF RowsOK
      <3>3. approvalRows[id(c)] \in ActionApprovalRecord /\ RowOK(id(c), approvalRows[id(c)])
        BY <1>3, <2>2 DEF RowsOK
      <3> QED BY <3>2, <3>3
    <2> QED BY <2>1, <2>2
  <1>5. approvalRows'[id(c)] = r
    BY <1>3, <1>4 DEF RowsOK
  <1>6. DEFINE q == [old EXCEPT !.pc = "snapshot", !.requestedAt = r.requestedAt]
  <1>7. r.requestedAt \in Times
    BY DEF ActionApprovalRecord
  <1>8. q \in Call /\ q.pc = "snapshot" /\ q.expected = old.expected
    BY <1>7 DEF Call, Steps
  <1>9. CallOK(c, q)
    BY <1>3, <1>8 DEF CallOK
  <1>10. toolCalls' = [toolCalls EXCEPT ![c] = q]
    BY <1>1, <1>5 DEF request
  <1>11. WaitersOK' /\ UNCHANGED <<actionRows, spent, authorities>>
    <2>1. owed' \in Nat /\ notify
      BY DEF request, ToolInv, WaitersOK
    <2> QED BY <2>1, Notified DEF request
  <1> HIDE DEF q
  <1> QED BY <1>2, <1>3, <1>4, <1>8, <1>9, <1>10, <1>11, RowCallKeeps

LEMMA expireUndecidedKeeps ==
  ASSUME ToolParameters, ToolInv, NEW c \in Calls, NEW now \in Times, expireUndecided(c, now) PROVE ToolInv'
  <1>1. Identified(at(c)) /\ at(c) \notin Admitted
    BY DEF expireUndecided, Identified, Outcomes, Admitted
  <1>2. id(c) \in ApprovalIds /\ CallsOK /\ RowsOK /\ owed \in Nat
    BY <1>1, NamedApproval DEF ToolInv, WaitersOK
  <1>3. /\ {"error", "denied"} \subseteq Outcomes /\ {"error", "denied"} \subseteq Steps
        /\ "snapshot" \in Steps \ Outcomes
    BY DEF Outcomes, Steps
  <1>4. UNCHANGED <<actionRows, spent, authorities, owed>>
    BY DEF expireUndecided
  <1>5. CASE approvalRows[id(c)] = NoApproval
    <2>1. step(c, "error") /\ UNCHANGED <<approvalRows, unseen>>
      BY <1>5 DEF expireUndecided
    <2>2. UNCHANGED <<tables, authorities, unseen, owed>>
      BY <1>4, <2>1 DEF tables
    <2> QED BY <1>1, <1>3, <2>1, <2>2, Ends
  <1>6. CASE approvalRows[id(c)] # NoApproval /\ CanExpire(approvalRows[id(c)], toolCalls[c].revision, now)
    <2>1. PICK row \in ActionApprovalRecord : row = approvalRows[id(c)]
      BY <1>2, <1>6, RowOfId
    <2>2. Loads(row) /\ row.status = "pending" /\ row.revision \in 1..2
      BY <1>2, <1>6, <2>1, RowOfId DEF CanExpire
    <2>3. /\ approvalRows' = [approvalRows EXCEPT ![id(c)] = expired(row)]
          /\ notify /\ step(c, "denied")
      BY <1>6, <2>1 DEF expireUndecided, expireActionApprovalRecord
    <2>4. expired(row) \in ActionApprovalRecord /\ RowOK(id(c), expired(row))
      BY <2>2, ExpiredLoads DEF Loads, RowOK
    <2>5. PICK q \in Call : toolCalls' = [toolCalls EXCEPT ![c] = q] /\ q.pc = "denied"
      BY <1>2, <1>3, <2>3, StepOf
    <2>6. CallOK(c, q)
      BY <2>5 DEF CallOK, Identified, Outcomes
    <2>7. WaitersOK'
      BY <1>2, <1>4, <2>3, Notified
    <2> QED BY <1>1, <1>2, <1>4, <2>3, <2>4, <2>5, <2>6, <2>7, RowCallKeeps
  <1>7. CASE approvalRows[id(c)] # NoApproval /\ ~CanExpire(approvalRows[id(c)], toolCalls[c].revision, now)
    <2>1. step(c, "snapshot") /\ UNCHANGED <<approvalRows, unseen>>
      BY <1>7 DEF expireUndecided
    <2>2. UNCHANGED <<tables, authorities>> /\ unseen' = unseen /\ owed' = owed
      BY <1>4, <2>1 DEF tables
    <2> QED BY <1>1, <1>3, <2>1, <2>2, GoesOn
  <1> QED BY <1>5, <1>6, <1>7

LEMMA decideRowKeeps ==
  ASSUME ToolParameters, ToolInv, NEW i \in ApprovalIds, NEW verdict \in {"approved", "rejected"}, NEW now \in Times,
         decideRow(i, 1, verdict, now)
  PROVE  ToolInv'
  <1>1. CallsOK /\ RowsOK /\ ActionsOK /\ AuthoritiesOK /\ TranscriptOK /\ WaitersOK
    BY DEF ToolInv
  <1>2. PICK row \in ActionApprovalRecord : row = approvalRows[i]
    BY <1>1, RowOfId DEF decideRow
  <1>3. Loads(row) /\ CanDecide(row, 1, now)
    BY <1>1, <1>2, RowOfId DEF decideRow
  <1>4. PICK r : r = decideActionApprovalRecord(row, verdict, now)
    OBVIOUS
  <1>5. Loads(r) /\ r.status \in {"expired", verdict} /\ r.revision = 2
    BY <1>3, <1>4, DecidedLoads
  <1>6. approvalRows' = [approvalRows EXCEPT ![i] = r]
    BY <1>2, <1>4 DEF decideRow
  <1>7. r \in ActionApprovalRecord /\ RowOK(i, r)'
    BY <1>5 DEF Loads, RowOK
  <1>8. UNCHANGED <<actionRows, spent, authorities, toolCalls, unseen>> /\ owed' = owed + 1
    BY DEF decideRow
  <1>9. owed' \in Nat /\ owed' > 0 /\ unseen' \subseteq Calls
    BY <1>1, <1>8 DEF WaitersOK
  <1>10. RowsOK' /\ WaitersOK'
    <2>1. RowsOK'
      BY <1>1, <1>6, <1>7, <1>8, RowsKeep
    <2> QED BY <1>9, <2>1 DEF WaitersOK
  <1>11. CallsOK' /\ ActionsOK' /\ AuthoritiesOK' /\ TranscriptOK'
    BY <1>1, <1>8, OtherCallsKeep, OtherActionsKeep, OtherAuthoritiesKeep, OtherTranscriptKeeps
  <1> QED BY <1>10, <1>11 DEF ToolInv

LEMMA decideNotifiesKeeps ==
  ASSUME ToolParameters, ToolInv, decideNotifies PROVE ToolInv'
  <1>1. CallsOK /\ RowsOK /\ ActionsOK /\ AuthoritiesOK /\ TranscriptOK /\ WaitersOK
    BY DEF ToolInv
  <1>2. UNCHANGED <<approvalRows, actionRows, spent, authorities, toolCalls>> /\ notify
    BY DEF decideNotifies, tables
  <1>3. owed' \in Nat
    BY <1>1 DEF decideNotifies, WaitersOK
  <1>4. WaitersOK'
    BY <1>2, <1>3, Notified
  <1>5. CallsOK' /\ RowsOK' /\ ActionsOK' /\ AuthoritiesOK' /\ TranscriptOK'
    BY <1>1, <1>2, OtherCallsKeep, OtherRowsKeep, OtherActionsKeep, OtherAuthoritiesKeep, OtherTranscriptKeeps
  <1> QED BY <1>4, <1>5 DEF ToolInv

LEMMA purgeRowsKeeps ==
  ASSUME ToolParameters, ToolInv, NEW batch \in SUBSET ApprovalIds, purgeRows(batch) PROVE ToolInv'
  <1>1. CallsOK /\ RowsOK /\ ActionsOK /\ AuthoritiesOK /\ TranscriptOK /\ WaitersOK
    BY DEF ToolInv
  <1>2. /\ \A i \in batch : approvalRows[i].status \in {"rejected", "consumed", "expired"}
        /\ approvalRows' = [i \in ApprovalIds |-> IF i \in batch THEN NoApproval ELSE approvalRows[i]]
    BY DEF purgeRows, Approvals!purgeTerminal, Approvals!TerminalApproval, Approvals!ApprovalIds, ApprovalIds,
              Approvals!Authorities, Authorities, Approvals!NoApproval, NoApproval
  <1>3. UNCHANGED <<actionRows, spent, authorities, toolCalls, unseen, owed>>
    BY DEF purgeRows
  <1>4. RowsOK'
    <2>1. approvalRows' \in [ApprovalIds -> {NoApproval} \cup ActionApprovalRecord]
      BY <1>1, <1>2 DEF RowsOK
    <2>2. ASSUME NEW i \in ApprovalIds PROVE RowOK(i, approvalRows[i])'
      <3>1. approvalRows'[i] = NoApproval \/ (approvalRows'[i] = approvalRows[i] /\ RowOK(i, approvalRows[i]))
        BY <1>1, <1>2 DEF RowsOK
      <3> QED BY <1>3, <3>1 DEF RowOK
    <2> QED BY <2>1, <2>2 DEF RowsOK
  <1>5. WaitersOK'
    <2>1. ASSUME NEW d \in Calls, at(d) \in {"undecided", "asleep"}, d \notin unseen
          PROVE  approvalRows'[id(d)].status = "pending" \/ owed > 0
      <3>1. Identified(at(d))
        BY <2>1 DEF Identified, Outcomes
      <3>2. id(d) \in ApprovalIds
        BY <1>1, <3>1, NamedApproval
      <3>3. approvalRows[id(d)].status = "pending" \/ owed > 0
        BY <1>1, <2>1 DEF WaitersOK
      <3> QED BY <1>2, <3>2, <3>3
    <2> QED BY <1>1, <1>3, <2>1 DEF WaitersOK, at, id
  <1>6. CallsOK' /\ ActionsOK' /\ AuthoritiesOK' /\ TranscriptOK'
    BY <1>1, <1>3, OtherCallsKeep, OtherActionsKeep, OtherAuthoritiesKeep, OtherTranscriptKeeps
  <1> QED BY <1>4, <1>5, <1>6 DEF ToolInv

-----------------------------------------------------------------------------
(* The steps that write an Action *)

(* What an admission leaves of the Action on file.                         *)
LEMMA AdmittedAction ==
  ASSUME ToolParameters, ToolInv, NEW op \in Operations, NEW expected \in Authorities, IntentAdmissible(op, expected)
  PROVE  /\ admittedAction(op, expected) \in ActionRow /\ admittedAction(op, expected).authority = expected
         /\ actionRows[op] \in ActionRow => admittedAction(op, expected) = actionRows[op]
  <1>1. actionRows[op] \in {NoAction} \cup ActionRow /\ NoAction \notin ActionRow
    BY DEF ToolInv, ActionsOK, ActionRow, NoAction
  <1> QED BY <1>1 DEF IntentAdmissible, admittedAction, ActionRow

(* The Action rows after an admission, and what was spent on it if any.    *)
LEMMA AdmissionKeeps ==
  ASSUME ToolParameters, ToolInv, NEW op \in Operations, NEW expected \in Authorities, IntentAdmissible(op, expected),
         actionRows' = [actionRows EXCEPT ![op] = admittedAction(op, expected)],
         spent \subseteq spent', spent' \subseteq Spending, \A x \in spent' \ spent : x.id = <<op, expected>>
  PROVE  /\ ActionsOK'
         /\ \A other \in Operations \ {op} : actionRows'[other] = actionRows[other]
         /\ \A other \in Operations : actionRows[other].status \in {"succeeded", "failed"} => actionRows'[other] = actionRows[other]
  <1>1. actionRows \in [Operations -> {NoAction} \cup ActionRow]
    BY DEF ToolInv, ActionsOK
  <1>2. actionRows' \in [Operations -> {NoAction} \cup ActionRow] /\ actionRows'[op] = admittedAction(op, expected)
    BY <1>1, AdmittedAction
  <1>3. \A other \in Operations \ {op} : actionRows'[other] = actionRows[other]
    BY <1>1
  <1>4. actionRows[op] \in ActionRow => actionRows'[op] = actionRows[op]
    BY <1>2, AdmittedAction
  <1>5. ASSUME NEW x \in spent' PROVE actionRows'[x.id[1]] \in ActionRow /\ actionRows'[x.id[1]].authority = x.id[2]
    <2>1. CASE x \in spent
      <3>1. x.id[1] \in Operations
        BY <2>1 DEF ToolInv, ActionsOK, Spending, ApprovalIds
      <3>2. actionRows[x.id[1]] \in ActionRow /\ actionRows[x.id[1]].authority = x.id[2]
        BY <2>1 DEF ToolInv, ActionsOK
      <3> QED BY <1>3, <1>4, <3>1, <3>2
    <2>2. CASE x \notin spent
      <3>1. x.id[1] = op /\ x.id[2] = expected
        BY <1>5, <2>2
      <3> QED BY <1>2, <3>1, AdmittedAction
    <2> QED BY <2>1, <2>2
  <1>6. ActionsOK'
    BY <1>2, <1>5 DEF ActionsOK
  <1>7. \A other \in Operations : actionRows[other].status \in {"succeeded", "failed"} => actionRows'[other] = actionRows[other]
    <2>1. actionRows[op].status \in {"succeeded", "failed"} => actionRows[op] \in ActionRow
      BY <1>1 DEF NoAction
    <2> QED BY <1>3, <1>4, <2>1
  <1> QED BY <1>3, <1>6, <1>7

(* Every branch of an admission that leaves the Action rows alone.         *)
LEMMA admitRefuses ==
  ASSUME ToolParameters, ToolInv, NEW c \in Calls, NEW pc \in {"unresolved", "settling"}, at(c) = "admit",
         step(c, pc), UNCHANGED <<tables, authorities, unseen, owed>>,
         pc = "settling" => \E x \in spent : x.id = id(c)
  PROVE  ToolInv'
  <1>1. pc \in Steps /\ {"unresolved"} \subseteq Outcomes /\ "settling" \notin Outcomes /\ at(c) \notin Admitted
        /\ "settling" \in Admitted
    BY DEF Steps, Outcomes, Admitted
  <1>2. CASE pc = "unresolved"
    BY <1>1, <1>2, Ends
  <1>3. CASE pc = "settling"
    <2>1. PICK q \in Call : toolCalls' = [toolCalls EXCEPT ![c] = q] /\ q.pc = pc /\ q = [toolCalls[c] EXCEPT !.pc = pc]
      BY <1>1, <1>3, StepOf DEF ToolInv
    <2>2. q.expected = toolCalls[c].expected /\ toolCalls[c].expected \in Authorities
      BY <2>1, NamedApproval DEF ToolInv, Call, CallOK, at, Identified, Outcomes
    <2>3. CallOK(c, q)
      BY <1>3, <2>1, <2>2 DEF CallOK, id
    <2> QED BY <1>1, <1>3, <2>1, <2>3, PlainCallKeeps
  <1> QED BY <1>2, <1>3

LEMMA admitKeeps ==
  ASSUME ToolParameters, ToolInv, NEW c \in Calls, NEW now \in Times, admit(c, now) PROVE ToolInv'
  <1> DEFINE row == approvalRows[id(c)]
             op == OperationOf[c]
             expected == toolCalls[c].expected
             consumed == consumeActionApprovalRecord(row, now)
             mayConsume == /\ runAuthority = "open"
                           /\ CanConsume(row, id(c), toolCalls[c].revision, op, toolCalls[c].current)
  <1>1. at(c) = "admit" /\ at(c) \notin Admitted /\ Identified(at(c))
    BY DEF admit, Admitted, Identified, Outcomes
  <1>2. CallsOK /\ RowsOK /\ ActionsOK /\ AuthoritiesOK /\ TranscriptOK /\ WaitersOK
    BY DEF ToolInv
  <1>3. id(c) \in ApprovalIds /\ op \in Operations /\ expected \in Authorities /\ id(c) = <<op, expected>>
    BY <1>1, <1>2, NamedApproval DEF CallOK, at, id
  <1>4. UNCHANGED <<authorities, unseen, owed>>
    BY DEF admit
  <1>5. CASE step(c, "unresolved") /\ UNCHANGED tables
    BY <1>1, <1>4, <1>5, admitRefuses
  <1>6. CASE row # NoApproval /\ row.status = "consumed"
    <2>1. \E x \in spent : x.id = id(c)
      BY <1>2, <1>3, <1>6, RowOfId
    <2>2. PICK pc \in {"unresolved", "settling"} : step(c, pc) /\ UNCHANGED tables
      BY <1>6 DEF admit
    <2> QED BY <1>1, <1>4, <2>1, <2>2, admitRefuses
  <1>7. CASE row # NoApproval /\ row.status # "consumed" /\ mayConsume /\ consumed.status = "expired"
    <2>1. /\ approvalRows' = [approvalRows EXCEPT ![id(c)] = consumed]
          /\ step(c, "denied") /\ UNCHANGED <<actionRows, spent>>
      BY <1>7 DEF admit
    <2>2. Loads(row) /\ row.status = "approved" /\ row.revision = 2 /\ 2 \in 1..2
      BY <1>2, <1>3, <1>7, RowOfId DEF CanConsume
    <2>3. consumed = expired(row)
      BY <1>7, <2>2, ConsumedIs
    <2>4. consumed \in ActionApprovalRecord /\ RowOK(id(c), consumed)
      BY <2>2, <2>3, ExpiredLoads DEF Loads, RowOK
    <2>5. "denied" \in Steps /\ "denied" \in Outcomes
      BY DEF Steps, Outcomes
    <2>6. PICK q \in Call : toolCalls' = [toolCalls EXCEPT ![c] = q] /\ q.pc = "denied"
      BY <1>2, <2>1, <2>5, StepOf
    <2>7. CallOK(c, q)
      BY <2>6 DEF CallOK, Identified, Outcomes
    <2>8. \A i \in ApprovalIds : approvalRows[i].status = "pending" => approvalRows'[i].status = "pending"
      BY <1>2, <2>1, <2>2 DEF RowsOK
    <2>9. WaitersOK'
      BY <1>2, <1>4, <2>6, <2>8, WaitersKeep
    <2> HIDE DEF consumed
    <2> QED BY <1>1, <1>3, <1>4, <2>1, <2>4, <2>6, <2>7, <2>9, RowCallKeeps
  <1>8. CASE /\ row # NoApproval /\ row.status # "consumed" /\ mayConsume /\ consumed.status # "expired"
             /\ IntentAdmissible(op, expected) /\ assertActionApprovalRecord(consumed)
    <2>1. /\ approvalRows' = [approvalRows EXCEPT ![id(c)] = consumed]
          /\ actionRows' = [actionRows EXCEPT ![op] = admittedAction(op, expected)]
          /\ spent' = spent \cup {[id |-> id(c), fresh |-> actionRows[op] = NoAction]}
          /\ step(c, "settling")
      BY <1>8 DEF admit
    <2>2. Loads(row) /\ row.status = "approved" /\ row.revision = 2
      BY <1>2, <1>3, <1>8, RowOfId DEF CanConsume
    <2>3. consumed.status = "consumed"
      BY <1>8, <2>2, ConsumedIs, ExpiredLoads
    <2>4. consumed \in ActionApprovalRecord
      BY <1>8 DEF assertActionApprovalRecord
    <2>5. DEFINE spending == [id |-> id(c), fresh |-> actionRows[op] = NoAction]
    <2>6. spending \in Spending /\ spending.id = id(c)
      BY <1>3 DEF Spending
    <2>7. spending \in spent' /\ spent \subseteq spent' /\ spent' \subseteq Spending
          /\ \A x \in spent' \ spent : x.id = <<op, expected>>
      BY <1>2, <1>3, <2>1, <2>6 DEF ActionsOK
    <2>8. PICK i \in ApprovalIds : i = id(c)
      BY <1>3
    <2>9. RowsOK'
      <3>1. PICK r \in ActionApprovalRecord : r = consumed
        BY <2>4
      <3>2. \E x \in spent' : x.id = i
        BY <2>6, <2>7, <2>8
      <3>3. RowOK(i, r)'
        BY <1>8, <2>3, <3>1, <3>2 DEF RowOK
      <3>4. approvalRows' = [approvalRows EXCEPT ![i] = r]
        BY <2>1, <2>8, <3>1
      <3> QED BY <1>2, <2>7, <3>3, <3>4, RowsKeep
    <2>10. "settling" \in Steps /\ "settling" \notin Outcomes /\ "settling" \in Admitted
      BY DEF Steps, Outcomes, Admitted
    <2>11. PICK q \in Call : toolCalls' = [toolCalls EXCEPT ![c] = q] /\ q.pc = "settling" /\ q = [toolCalls[c] EXCEPT !.pc = "settling"]
      BY <1>2, <2>1, <2>10, StepOf
    <2>12. CallOK(c, q)'
      <3>1. q.expected = expected
        BY <1>2, <2>11, NamedApproval DEF Call
      <3> QED BY <1>3, <2>6, <2>7, <2>11, <3>1 DEF CallOK
    <2>13. CallsOK'
      BY <1>2, <2>7, <2>11, <2>12, CallsKeep
    <2>14. /\ ActionsOK'
           /\ \A other \in Operations \ {op} : actionRows'[other] = actionRows[other]
           /\ \A other \in Operations : actionRows[other].status \in {"succeeded", "failed"} => actionRows'[other] = actionRows[other]
      BY <1>3, <1>8, <2>1, <2>7, AdmissionKeeps
    <2>15. TranscriptOK'
      BY <1>2, <2>10, <2>11, <2>14, TranscriptKeeps
    <2>16. \A j \in ApprovalIds : approvalRows[j].status = "pending" => approvalRows'[j].status = "pending"
      BY <1>2, <2>1, <2>2 DEF RowsOK
    <2>17. WaitersOK'
      BY <1>2, <1>4, <2>11, <2>16, WaitersKeep
    <2>18. AuthoritiesOK'
      BY <1>2, <1>4, OtherAuthoritiesKeep
    <2> QED BY <2>9, <2>13, <2>14, <2>15, <2>17, <2>18 DEF ToolInv
  <1>9. \/ step(c, "unresolved") /\ UNCHANGED tables
        \/ row # NoApproval /\ row.status = "consumed"
        \/ row # NoApproval /\ row.status # "consumed" /\ mayConsume /\ consumed.status = "expired"
        \/ /\ row # NoApproval /\ row.status # "consumed" /\ mayConsume /\ consumed.status # "expired"
           /\ IntentAdmissible(op, expected) /\ assertActionApprovalRecord(consumed)
    BY DEF admit
  <1> QED BY <1>5, <1>6, <1>7, <1>8, <1>9

LEMMA submitPreparedKeeps ==
  ASSUME ToolParameters, ToolInv, NEW c \in Calls, submitPrepared(c) PROVE ToolInv'
  <1> DEFINE op == OperationOf[c]
             expected == toolCalls[c].expected
  <1>1. at(c) = "submit" /\ at(c) \notin Admitted /\ Identified(at(c))
    BY DEF submitPrepared, Admitted, Identified, Outcomes
  <1>2. CallsOK /\ RowsOK /\ ActionsOK /\ AuthoritiesOK /\ TranscriptOK /\ WaitersOK
    BY DEF ToolInv
  <1>3. op \in Operations /\ expected \in Authorities /\ toolCalls[c].consent = FALSE
    BY <1>1, <1>2, NamedApproval DEF CallOK, at, Call
  <1>4. UNCHANGED <<approvalRows, spent, authorities, unseen, owed>>
    BY DEF submitPrepared
  <1>5. CASE step(c, "unresolved") /\ UNCHANGED actionRows
    <2>1. "unresolved" \in Outcomes /\ UNCHANGED <<tables, authorities, unseen, owed>>
      BY <1>4, <1>5 DEF Outcomes, tables
    <2> QED BY <1>1, <1>5, <2>1, Ends
  <1>6. CASE /\ IntentAdmissible(op, expected)
             /\ actionRows' = [actionRows EXCEPT ![op] = admittedAction(op, expected)]
             /\ step(c, "settling")
    <2>1. "settling" \in Steps /\ "settling" \notin Outcomes /\ "settling" \in Admitted
      BY DEF Steps, Outcomes, Admitted
    <2>2. PICK q \in Call : toolCalls' = [toolCalls EXCEPT ![c] = q] /\ q.pc = "settling" /\ q = [toolCalls[c] EXCEPT !.pc = "settling"]
      BY <1>2, <1>6, <2>1, StepOf
    <2>3. q.expected = expected /\ ~q.consent
      BY <1>2, <1>3, <2>2, NamedApproval DEF Call
    <2>4. CallOK(c, q)'
      BY <1>3, <2>2, <2>3 DEF CallOK
    <2>5. spent \subseteq spent' /\ spent' \subseteq Spending /\ spent' \ spent = {}
      BY <1>2, <1>4 DEF ActionsOK
    <2>6. CallsOK'
      BY <1>2, <2>2, <2>4, <2>5, CallsKeep
    <2>7. /\ ActionsOK'
          /\ \A other \in Operations \ {op} : actionRows'[other] = actionRows[other]
          /\ \A other \in Operations : actionRows[other].status \in {"succeeded", "failed"} => actionRows'[other] = actionRows[other]
      BY <1>3, <1>6, <2>5, AdmissionKeeps
    <2>8. TranscriptOK'
      BY <1>2, <2>1, <2>2, <2>7, TranscriptKeeps
    <2>9. WaitersOK'
      BY <1>2, <1>4, <2>2, WaitersKeep
    <2>10. RowsOK' /\ AuthoritiesOK'
      BY <1>2, <1>4, <2>5, OtherRowsKeep, OtherAuthoritiesKeep
    <2> QED BY <2>6, <2>7, <2>8, <2>9, <2>10 DEF ToolInv
  <1>7. \/ step(c, "unresolved") /\ UNCHANGED actionRows
        \/ /\ IntentAdmissible(op, expected)
           /\ actionRows' = [actionRows EXCEPT ![op] = admittedAction(op, expected)]
           /\ step(c, "settling")
    BY DEF submitPrepared
  <1> QED BY <1>5, <1>6, <1>7

LEMMA settleActionKeeps ==
  ASSUME ToolParameters, ToolInv, NEW op \in Operations, NEW status \in {"succeeded", "failed", "uncertain"},
         settleAction(op, status)
  PROVE  ToolInv'
  <1>1. CallsOK /\ RowsOK /\ ActionsOK /\ AuthoritiesOK /\ TranscriptOK /\ WaitersOK
    BY DEF ToolInv
  <1>2. UNCHANGED <<approvalRows, spent, authorities, toolCalls, unseen, owed>>
    BY DEF settleAction
  <1>3. PICK old \in ActionRow : old = actionRows[op] /\ old.status \in {"pending", "uncertain"}
    BY <1>1 DEF ActionsOK, settleAction, NoAction
  <1>4. DEFINE new == [old EXCEPT !.status = status]
  <1>5. new \in ActionRow /\ new.authority = old.authority /\ actionRows' = [actionRows EXCEPT ![op] = new]
    BY <1>3 DEF settleAction, ActionRow
  <1> HIDE DEF new
  <1>6. actionRows'[op] = new /\ \A other \in Operations \ {op} : actionRows'[other] = actionRows[other]
    BY <1>1, <1>5 DEF ActionsOK
  <1>7. ActionsOK'
    <2>1. actionRows' \in [Operations -> {NoAction} \cup ActionRow]
      BY <1>1, <1>5 DEF ActionsOK
    <2>2. ASSUME NEW x \in spent PROVE actionRows'[x.id[1]] \in ActionRow /\ actionRows'[x.id[1]].authority = x.id[2]
      <3>1. x.id[1] \in Operations
        BY <1>1 DEF ActionsOK, Spending, ApprovalIds
      <3> QED BY <1>1, <1>3, <1>5, <1>6, <3>1 DEF ActionsOK
    <2> QED BY <1>1, <1>2, <2>1, <2>2 DEF ActionsOK
  <1>8. TranscriptOK'
    <2>1. \A other \in Operations : actionRows'[other] # NoAction => actionRows[other] # NoAction
      <3>1. NoAction \notin ActionRow
        BY DEF NoAction, ActionRow
      <3> QED BY <1>3, <1>6, <3>1
    <2>2. \A other \in Operations : actionRows[other].status \in {"succeeded", "failed"} => actionRows'[other] = actionRows[other]
      BY <1>3, <1>6
    <2>3. ASSUME NEW d \in Calls
          PROVE  /\ (Alone(d) /\ actionRows'[OperationOf[d]] # NoAction) => toolCalls[d].pc \in Admitted
                 /\ toolCalls[d].pc = "completed" => actionRows'[OperationOf[d]].status \in {"succeeded", "failed"}
      <3>1. OperationOf[d] \in Operations
        BY DEF ToolParameters
      <3>2. /\ (Alone(d) /\ actionRows[OperationOf[d]] # NoAction) => toolCalls[d].pc \in Admitted
            /\ toolCalls[d].pc = "completed" => actionRows[OperationOf[d]].status \in {"succeeded", "failed"}
        BY <1>1 DEF TranscriptOK, at
      <3> QED BY <2>1, <2>2, <3>1, <3>2
    <2> QED BY <1>2, <2>3 DEF TranscriptOK, at, Alone
  <1>9. CallsOK' /\ RowsOK' /\ AuthoritiesOK' /\ WaitersOK'
    <2>1. CallsOK' /\ RowsOK' /\ AuthoritiesOK'
      BY <1>1, <1>2, OtherCallsKeep, OtherRowsKeep, OtherAuthoritiesKeep
    <2>2. WaitersOK'
      BY <1>1, <1>2 DEF WaitersOK, at, id
    <2> QED BY <2>1, <2>2
  <1> QED BY <1>7, <1>8, <1>9 DEF ToolInv

(* closeRun and changeAuthority touch nothing a call has read.             *)
LEMMA authorityKeeps ==
  ASSUME ToolParameters, ToolInv, closeRun \/ changeAuthority PROVE ToolInv'
  <1>1. CallsOK /\ RowsOK /\ ActionsOK /\ AuthoritiesOK /\ TranscriptOK /\ WaitersOK
    BY DEF ToolInv
  <1>2. UNCHANGED <<approvalRows, actionRows, spent, toolCalls, unseen, owed>>
    BY DEF closeRun, changeAuthority, tables
  <1>3. AuthoritiesOK'
    BY <1>1 DEF AuthoritiesOK, closeRun, changeAuthority, Authorities, ToolParameters
  <1>4. CallsOK' /\ RowsOK' /\ ActionsOK' /\ TranscriptOK'
    BY <1>1, <1>2, OtherCallsKeep, OtherRowsKeep, OtherActionsKeep, OtherTranscriptKeeps
  <1>5. WaitersOK'
    BY <1>1, <1>2 DEF WaitersOK, at, id
  <1> QED BY <1>3, <1>4, <1>5 DEF ToolInv

LEMMA crashKeeps ==
  ASSUME ToolParameters, ToolInv, crash PROVE ToolInv'
  <1>1. CallsOK /\ RowsOK /\ ActionsOK /\ AuthoritiesOK /\ TranscriptOK /\ WaitersOK
    BY DEF ToolInv
  <1>2. /\ UNCHANGED <<approvalRows, actionRows, spent, authorities>> /\ unseen' = Calls /\ owed' = 0
        /\ toolCalls' = [c \in Calls |-> IF Running(c) THEN [NoCall EXCEPT !.pc = "aborted"] ELSE toolCalls[c]]
    BY DEF crash, tables
  <1>3. PICK q \in Call : q = [NoCall EXCEPT !.pc = "aborted"] /\ q.pc = "aborted"
    <2>1. [NoCall EXCEPT !.pc = "aborted"] \in Call /\ [NoCall EXCEPT !.pc = "aborted"].pc = "aborted"
      BY FirstCall DEF Call, NoCall, Steps, Outcomes
    <2> QED BY <2>1
  <1>4. \A c \in Calls : toolCalls'[c] \in {q, toolCalls[c]}
    BY <1>2, <1>3
  <1>5. CallsOK'
    <2>1. toolCalls' \in [Calls -> Call]
      BY <1>1, <1>2, <1>3 DEF CallsOK
    <2>2. ASSUME NEW c \in Calls PROVE CallOK(c, toolCalls[c])'
      <3>1. CallOK(c, toolCalls[c]) /\ CallOK(c, q)
        BY <1>1, <1>3 DEF CallsOK, CallOK, Identified, Outcomes
      <3> QED BY <1>2, <1>4, <3>1 DEF CallOK
    <2> QED BY <2>1, <2>2 DEF CallsOK
  <1>6. TranscriptOK'
    <2>1. "aborted" \in Admitted
      BY DEF Admitted
    <2> QED BY <1>1, <1>2, <1>3, <1>4, <2>1 DEF TranscriptOK, at, Alone
  <1>7. WaitersOK'
    BY <1>2 DEF WaitersOK
  <1>8. RowsOK' /\ ActionsOK' /\ AuthoritiesOK'
    BY <1>1, <1>2, OtherRowsKeep, OtherActionsKeep, OtherAuthoritiesKeep
  <1> QED BY <1>5, <1>6, <1>7, <1>8 DEF ToolInv

-----------------------------------------------------------------------------
(* Theorems about the tool *)

(* The inductive invariant of runReliableAction: the calls know what they  *)
(* have read, each row loads, and whatever was spent has its Action.       *)
THEOREM ToolInvariant == ASSUME ToolParameters PROVE ToolSpec => []ToolInv
  <1>1. ToolInit => ToolInv
    <2> SUFFICES ASSUME ToolInit PROVE ToolInv
      OBVIOUS
    <2>1. CallsOK
      BY FirstCall DEF ToolInit, CallsOK
    <2>2. RowsOK /\ ActionsOK
      BY DEF ToolInit, RowsOK, RowOK, ActionsOK
    <2>3. AuthoritiesOK
      BY DEF ToolInit, AuthoritiesOK, Authorities, ToolParameters
    <2>4. TranscriptOK
      BY DEF ToolInit, TranscriptOK, ToolParameters, at, NoCall
    <2>5. WaitersOK
      BY DEF ToolInit, WaitersOK, at, NoCall
    <2> QED BY <2>1, <2>2, <2>3, <2>4, <2>5 DEF ToolInv
  <1>2. ASSUME ToolInv, [ToolNext]_toolVars PROVE ToolInv'
    <2>1. CASE UNCHANGED toolVars
      <3>1. UNCHANGED <<approvalRows, actionRows, authorities, toolCalls, unseen, owed, spent>>
        BY <2>1 DEF toolVars, authorities
      <3>2. CallsOK /\ RowsOK /\ ActionsOK /\ AuthoritiesOK /\ TranscriptOK /\ WaitersOK
        BY <1>2 DEF ToolInv
      <3>3. CallsOK' /\ RowsOK' /\ ActionsOK' /\ AuthoritiesOK' /\ TranscriptOK'
        BY <3>1, <3>2, OtherCallsKeep, OtherRowsKeep, OtherActionsKeep, OtherAuthoritiesKeep, OtherTranscriptKeeps
      <3>4. WaitersOK'
        BY <3>1, <3>2 DEF WaitersOK, at, id
      <3> QED BY <3>3, <3>4 DEF ToolInv
    <2>2. ASSUME NEW c \in Calls,
                 \/ resolveScope(c) \/ readAuthority(c) \/ snapshot(c) \/ readDecision(c)
                 \/ waitForChange(c) \/ wake(c) \/ confirmAuthority(c) \/ submitPrepared(c)
                 \/ waitForSettlement(c) \/ abort(c) \/ recover(c)
          PROVE  ToolInv'
      BY <1>2, <2>2, resolveScopeKeeps, readAuthorityKeeps, snapshotKeeps, readDecisionKeeps, waitForChangeKeeps, wakeKeeps,
         confirmAuthorityKeeps, submitPreparedKeeps, waitForSettlementKeeps, abortKeeps, recoverKeeps
    <2>3. ASSUME NEW c \in Calls, NEW now \in Times, request(c, now) \/ expireUndecided(c, now) \/ admit(c, now)
          PROVE  ToolInv'
      BY <1>2, <2>3, requestKeeps, expireUndecidedKeeps, admitKeeps
    <2>4. ASSUME NEW i \in ApprovalIds, NEW verdict \in {"approved", "rejected"}, NEW now \in Times,
                 decideRow(i, 1, verdict, now)
          PROVE  ToolInv'
      BY <1>2, <2>4, decideRowKeeps
    <2>5. ASSUME NEW batch \in SUBSET ApprovalIds, purgeRows(batch) PROVE ToolInv'
      BY <1>2, <2>5, purgeRowsKeeps
    <2>6. ASSUME NEW op \in Operations, NEW status \in {"succeeded", "failed", "uncertain"}, settleAction(op, status)
          PROVE  ToolInv'
      BY <1>2, <2>6, settleActionKeeps
    <2>7. CASE decideNotifies \/ closeRun \/ changeAuthority \/ crash
      BY <1>2, <2>7, decideNotifiesKeeps, authorityKeeps, crashKeeps
    <2> QED BY <1>2, <2>1, <2>2, <2>3, <2>4, <2>5, <2>6, <2>7 DEF ToolNext
  <1> QED BY <1>1, <1>2, PTL DEF ToolSpec

(* What recover answers the model from the journal, and what a denied call *)
(* was told, is true of the Action and stays true.                         *)
THEOREM TruthfulTranscripts == ASSUME ToolParameters PROVE ToolSpec => []TranscriptTruthful
  <1>1. ASSUME ToolInv PROVE TranscriptTruthful
    BY <1>1 DEF ToolInv, TranscriptOK, TranscriptTruthful, Admitted
  <1> QED BY <1>1, ToolInvariant, PTL

(* Whatever the stores are asked in whatever order, an approval is spent   *)
(* once, on one Action (consumeApproval and the admission are one          *)
(* transaction), and the transcript tells the truth about it.              *)
THEOREM SpentOnce == ASSUME ToolParameters PROVE ToolSpec => []ApprovalSpentOnce
  <1>1. ASSUME ToolInv PROVE ApprovalSpentOnce
    <2>1. ASSUME NEW x \in spent, NEW y \in spent, x.id[1] = y.id[1] PROVE x.id = y.id
      <3>1. x.id[2] = y.id[2]
        BY <1>1, <2>1 DEF ToolInv, ActionsOK
      <3>2. x.id \in Operations \X Authorities /\ y.id \in Operations \X Authorities
        BY <1>1 DEF ToolInv, ActionsOK, Spending, ApprovalIds
      <3> QED BY <2>1, <3>1, <3>2
    <2>2. ASSUME NEW i \in ApprovalIds, approvalRows[i].status = "consumed"
          PROVE  actionRows[i[1]].authority = i[2] /\ actionRows[i[1]].status # "absent"
      <3>1. approvalRows[i] # NoApproval
        BY <2>2 DEF NoApproval
      <3>2. PICK x \in spent : x.id = i
        BY <1>1, <2>2, <3>1, RowOfId DEF ToolInv
      <3> QED BY <1>1, <3>2 DEF ToolInv, ActionsOK, ActionRow
    <2>3. \A c \in Calls : at(c) = "settling" /\ toolCalls[c].consent => \E x \in spent : x.id = id(c)
      BY <1>1 DEF ToolInv, CallsOK, CallOK, at, id
    <2>4. TranscriptTruthful
      BY <1>1 DEF ToolInv, TranscriptOK, TranscriptTruthful, Admitted
    <2> QED BY <2>1, <2>2, <2>3, <2>4 DEF ApprovalSpentOnce
  <1> QED BY <1>1, ToolInvariant, PTL

(* The snapshot of ChangeNotifier is taken before the request is read, so  *)
(* waitForDecision never sleeps through a decision.                        *)
THEOREM DecisionsSeen == ASSUME ToolParameters PROVE ToolSpec => []NoDecisionOverlooked
  <1>1. ASSUME ToolInv PROVE NoDecisionOverlooked
    BY <1>1 DEF ToolInv, WaitersOK, NoDecisionOverlooked
  <1> QED BY <1>1, ToolInvariant, PTL

(* assertActionApprovalRecord accepts every row any sequence of            *)
(* transitions writes, whatever the clocks of the callers.                 *)
THEOREM ApprovalRowsAlwaysLoad == ASSUME ToolParameters PROVE ToolSpec => []ApprovalRowsLoadable
  <1>1. ASSUME ToolInv PROVE ApprovalRowsLoadable
    BY <1>1 DEF ToolInv, RowsOK, RowOK, ApprovalRowsLoadable
  <1> QED BY <1>1, ToolInvariant, PTL

-----------------------------------------------------------------------------
(* The table is a store of approvals *)

LEMMA SameRecords ==
  /\ Approvals!NoApproval = NoApproval /\ Approvals!ApprovalIds = ApprovalIds
  /\ Approvals!Times = Times /\ Approvals!Authorities = Authorities
  /\ \A t : Approvals!Requested(t) = Requested(t)
  /\ \A r, k, t : Approvals!CanDecide(r, k, t) <=> CanDecide(r, k, t)
  /\ \A r, d, t : Approvals!decideActionApprovalRecord(r, d, t) = decideActionApprovalRecord(r, d, t)
  /\ \A r, i, k, op, a : Approvals!CanConsume(r, i, k, op, a) <=> CanConsume(r, i, k, op, a)
  /\ \A r, t : Approvals!consumeActionApprovalRecord(r, t) = consumeActionApprovalRecord(r, t)
  /\ \A r, k, t : Approvals!CanExpire(r, k, t) <=> CanExpire(r, k, t)
  /\ \A r : Approvals!expireActionApprovalRecord(r) = expireActionApprovalRecord(r)
  <1>1. /\ Approvals!NoApproval = NoApproval /\ Approvals!Times = Times /\ Approvals!Authorities = Authorities
        /\ \A t : Approvals!Requested(t) = Requested(t)
    BY DEF Approvals!NoApproval, NoApproval, Approvals!Times, Times, Approvals!Authorities, Authorities,
           Approvals!Requested, Requested, Approvals!Never, Never
  <1>2. Approvals!ApprovalIds = ApprovalIds
    BY <1>1 DEF Approvals!ApprovalIds, ApprovalIds
  <1>3. \A r : Approvals!expired(r) = expired(r)
    BY DEF Approvals!expired, expired, Approvals!advanceApproval, advanceApproval
  <1>4. \A r, s, t : Approvals!advanceApproval(r, s, t) = advanceApproval(r, s, t)
    BY DEF Approvals!advanceApproval, advanceApproval
  <1>5. /\ \A r, d, t : Approvals!decideActionApprovalRecord(r, d, t) = decideActionApprovalRecord(r, d, t)
        /\ \A r, t : Approvals!consumeActionApprovalRecord(r, t) = consumeActionApprovalRecord(r, t)
        /\ \A r : Approvals!expireActionApprovalRecord(r) = expireActionApprovalRecord(r)
    BY <1>3, <1>4 DEF Approvals!decideActionApprovalRecord, decideActionApprovalRecord,
       Approvals!consumeActionApprovalRecord, consumeActionApprovalRecord,
       Approvals!expireActionApprovalRecord, expireActionApprovalRecord
  <1>6. /\ \A r, k, t : Approvals!CanDecide(r, k, t) <=> CanDecide(r, k, t)
        /\ \A r, i, k, op, a : Approvals!CanConsume(r, i, k, op, a) <=> CanConsume(r, i, k, op, a)
        /\ \A r, k, t : Approvals!CanExpire(r, k, t) <=> CanExpire(r, k, t)
    BY DEF Approvals!CanDecide, CanDecide, Approvals!CanConsume, CanConsume, Approvals!CanExpire, CanExpire
  <1> QED BY <1>1, <1>2, <1>5, <1>6

(* Each of the four ways to write a row is a step of the store.            *)
LEMMA StoreSteps ==
  ASSUME NEW i \in ApprovalIds, NEW k \in 1..3, NEW now \in Times
  PROVE  /\ (approvalRows[i] = NoApproval /\ approvalRows' = [approvalRows EXCEPT ![i] = Requested(now)]) => Approvals!Next
         /\ \A verdict \in {"approved", "rejected"} :
              /\ approvalRows[i] # NoApproval /\ CanDecide(approvalRows[i], k, now)
              /\ approvalRows' = [approvalRows EXCEPT ![i] = decideActionApprovalRecord(@, verdict, now)]
              => Approvals!Next
         /\ \A current \in Authorities :
              /\ approvalRows[i] # NoApproval /\ CanConsume(approvalRows[i], i, k, i[1], current)
              /\ approvalRows' = [approvalRows EXCEPT ![i] = consumeActionApprovalRecord(@, now)]
              => Approvals!Next
         /\ (/\ approvalRows[i] # NoApproval /\ CanExpire(approvalRows[i], k, now)
             /\ approvalRows' = [approvalRows EXCEPT ![i] = expireActionApprovalRecord(@)]) => Approvals!Next
  <1>1. k \in Approvals!Revisions
    BY DEF Approvals!Revisions
  <1> QED BY <1>1, SameRecords
          DEF Approvals!Next, Approvals!ensureApproval, Approvals!decide, Approvals!consume, Approvals!expire

(* The table action_approvals, as the tool, the players and the purge use  *)
(* it, is the store of approvals that ActionApprovals describes.           *)
THEOREM TableImplementsApprovals == ASSUME ToolParameters PROVE ToolSpec => Approvals!Spec
  <1>1. ToolInit => Approvals!Init
    BY SameRecords DEF ToolInit, Approvals!Init
  <1>2. ASSUME ToolInv, [ToolNext]_toolVars PROVE [Approvals!Next]_approvalRows
    <2>1. CallsOK /\ RowsOK
      BY <1>2 DEF ToolInv
    <2>2. ASSUME NEW c \in Calls, NEW now \in Times, request(c, now) PROVE [Approvals!Next]_approvalRows
      <3>1. id(c) \in ApprovalIds /\ 1 \in 1..3
        BY <2>1, <2>2, NamedApproval DEF request, Identified, Outcomes
      <3>2. CASE approvalRows[id(c)] = NoApproval
        <4>1. approvalRows' = [approvalRows EXCEPT ![id(c)] = Requested(now)]
          BY <2>2, <3>2 DEF request, ensureRow
        <4> QED BY <3>1, <3>2, <4>1, StoreSteps
      <3>3. CASE ~(approvalRows[id(c)] = NoApproval)
        BY <2>2, <3>3 DEF request, ensureRow
      <3> QED BY <3>2, <3>3
    <2>3. ASSUME NEW c \in Calls, NEW now \in Times, expireUndecided(c, now) PROVE [Approvals!Next]_approvalRows
      <3>1. id(c) \in ApprovalIds
        BY <2>1, <2>3, NamedApproval DEF expireUndecided, Identified, Outcomes
      <3>2. CASE approvalRows[id(c)] # NoApproval /\ CanExpire(approvalRows[id(c)], toolCalls[c].revision, now)
        <4>1. approvalRows' = [approvalRows EXCEPT ![id(c)] = expireActionApprovalRecord(@)]
          BY <2>3, <3>2 DEF expireUndecided
        <4>2. approvalRows[id(c)] \in ActionApprovalRecord
          BY <2>1, <3>1, <3>2, RowOfId
        <4>3. toolCalls[c].revision \in 1..3
          BY <3>2, <4>2 DEF CanExpire, ActionApprovalRecord
        <4> QED BY <3>1, <3>2, <4>1, <4>3, StoreSteps
      <3>3. CASE ~(approvalRows[id(c)] # NoApproval /\ CanExpire(approvalRows[id(c)], toolCalls[c].revision, now))
        BY <2>3, <3>3 DEF expireUndecided
      <3> QED BY <3>2, <3>3
    <2>4. ASSUME NEW c \in Calls, NEW now \in Times, admit(c, now) PROVE [Approvals!Next]_approvalRows
      <3>1. /\ id(c) \in ApprovalIds /\ id(c) = <<OperationOf[c], toolCalls[c].expected>>
            /\ id(c)[1] = OperationOf[c] /\ toolCalls[c].expected \in Authorities
        BY <2>1, <2>4, NamedApproval DEF admit, Identified, Outcomes, CallOK, at, id
      <3>2. CASE /\ approvalRows[id(c)] # NoApproval
                 /\ CanConsume(approvalRows[id(c)], id(c), toolCalls[c].revision, OperationOf[c], toolCalls[c].current)
                 /\ approvalRows' = [approvalRows EXCEPT ![id(c)] = consumeActionApprovalRecord(approvalRows[id(c)], now)]
        <4>1. approvalRows[id(c)] \in ActionApprovalRecord
          BY <2>1, <3>1, <3>2, RowOfId
        <4>2. toolCalls[c].revision \in 1..3 /\ toolCalls[c].current \in Authorities
          BY <3>1, <3>2, <4>1 DEF CanConsume, ActionApprovalRecord
        <4> QED BY <3>1, <3>2, <4>2, StoreSteps
      <3>3. \/ approvalRows' = approvalRows
            \/ /\ approvalRows[id(c)] # NoApproval
               /\ CanConsume(approvalRows[id(c)], id(c), toolCalls[c].revision, OperationOf[c], toolCalls[c].current)
               /\ approvalRows' = [approvalRows EXCEPT ![id(c)] = consumeActionApprovalRecord(approvalRows[id(c)], now)]
        BY <2>4 DEF admit, tables
      <3> QED BY <3>2, <3>3
    <2>5. ASSUME NEW i \in ApprovalIds, NEW verdict \in {"approved", "rejected"}, NEW now \in Times,
                 decideRow(i, 1, verdict, now)
          PROVE  [Approvals!Next]_approvalRows
      <3>1. 1 \in 1..3
        OBVIOUS
      <3> QED BY <2>5, <3>1, StoreSteps DEF decideRow
    <2>6. ASSUME NEW batch \in SUBSET ApprovalIds, purgeRows(batch) PROVE [Approvals!Next]_approvalRows
      BY <2>6, SameRecords DEF purgeRows, Approvals!Next
    <2>7. ASSUME NEW c \in Calls,
                 \/ resolveScope(c) \/ readAuthority(c) \/ snapshot(c) \/ readDecision(c)
                 \/ waitForChange(c) \/ wake(c) \/ confirmAuthority(c) \/ submitPrepared(c)
                 \/ waitForSettlement(c) \/ abort(c) \/ recover(c)
          PROVE  approvalRows' = approvalRows
      BY <2>7 DEF resolveScope, readAuthority, snapshot, readDecision, waitForChange, wake, confirmAuthority, submitPrepared,
                  waitForSettlement, abort, recover, tables
    <2>8. ASSUME \/ decideNotifies \/ closeRun \/ changeAuthority \/ crash \/ UNCHANGED toolVars
                 \/ \E op \in Operations, status \in {"succeeded", "failed", "uncertain"} : settleAction(op, status)
          PROVE  approvalRows' = approvalRows
      BY <2>8 DEF decideNotifies, closeRun, changeAuthority, crash, settleAction, toolVars, tables
    <2> QED BY <1>2, <2>2, <2>3, <2>4, <2>5, <2>6, <2>7, <2>8 DEF ToolNext
  <1> QED BY <1>1, <1>2, ToolInvariant, PTL DEF ToolSpec, Approvals!Spec

-----------------------------------------------------------------------------
(* The Goal at the end of the way: its inductive invariant *)

Prints == {NULL} \cup (Actions \X Nat)
GoalType ==
  [status : GoalStatuses, partition : Partitions, key : Nat \ {0}, revision : Nat \ {0},
   plan : Plan, tick : Ticks, fingerprint : Prints]
Retirement == [id : RetirementIds, tick : Ticks, cancelled : Nat]
Binding == [goal : GoalIds, partition : Partitions, step : Nat, revision : Nat \ {0}]
BoundAction ==
  [status : {"absent", "pending", "succeeded", "failed"},
   projection : {"none", "advanced", "source_failed"}, binding : Binding \cup {NoBinding}]
ProjectorJob == [pc : {"advance", "settle", "dismiss"}, action : Actions]
AdvanceJob == [pc : {"verify", "replace"}, action : Actions, goal : GoalType, tick : Ticks]
UpdateJob == [pc : {"update"}, id : GoalIds, goal : GoalType, plan : Plan,
              status : GoalStatuses, tick : Ticks]
Jobs == {Idle} \cup ProjectorJob \cup AdvanceJob \cup UpdateJob
Advance == [action : Actions, revision : Nat, order : Nat]

GoalTypeOK ==
  /\ goals \in [GoalIds -> GoalType \cup {NoGoal}]
  /\ goalRetirements \in [Partitions -> Retirement \cup {NoRetirement}]
  /\ nextGoalKey \in Nat \ {0}
  /\ goalNames \subseteq GoalIds
  /\ goalActions \in [Actions -> BoundAction]
  /\ workers \in [Workers -> Jobs]
  /\ IsFiniteSet(advanced) /\ advanced \subseteq Advance

NamesOK == \A gid \in GoalIds : goals[gid] # NoGoal => gid \in goalNames

BindingsOK ==
  \A a \in Actions : goalActions[a].status # "absent" =>
    goalActions[a].binding \in Binding /\ goalActions[a].binding.goal \in goalNames

(* A Goal that an Action advanced has left the revision it was bound to.   *)
AdvancedOK ==
  \A x \in advanced :
    /\ goalActions[x.action].status = "succeeded"
    /\ LET b == goalActions[x.action].binding IN
       goals[b.goal] # NoGoal => goals[b.goal].revision > b.revision

FingerprintsOK ==
  \A gid \in GoalIds : goals[gid] # NoGoal /\ goals[gid].fingerprint # NULL =>
    \E x \in advanced : x.action = goals[gid].fingerprint[1]

(* The Goal a call once read: still so at its revision, and never replaced *)
(* by another of its name.                                                 *)
Kept(gid, g) ==
  /\ gid \in goalNames
  /\ goals[gid] # NoGoal => /\ goals[gid].revision >= g.revision
                           /\ (goals[gid].revision = g.revision => goals[gid] = g)

ProjectorOK(j) ==
  /\ j.pc \in {"advance", "verify", "replace", "settle"} =>
       goalActions[j.action].status = "succeeded"
  /\ j.pc = "settle" => \E x \in advanced : x.action = j.action
  /\ j.pc = "dismiss" => goalActions[j.action].status = "failed"
AdvanceOK(j) ==
  j.pc \in {"verify", "replace"} =>
    /\ Kept(goalActions[j.action].binding.goal, j.goal)
    /\ j.goal.revision = goalActions[j.action].binding.revision
    /\ j.goal.status = "active" /\ j.goal.plan.current
UpdateOK(j) ==
  j.pc = "update" =>
    Kept(j.id, j.goal) /\ isOpen(j.goal) /\ validStatusTransition(j.goal.status, j.status, j.plan)
JobOK(j) == ProjectorOK(j) /\ AdvanceOK(j) /\ UpdateOK(j)
WorkersOK == \A w \in Workers, j \in Jobs : workers[w] = j => JobOK(j)

GoalInv ==
  /\ GoalTypeOK /\ NamesOK /\ BindingsOK /\ AdvancedOK /\ FingerprintsOK /\ WorkersOK
  /\ ActionAdvancesOnce

(* What every step does: a Goal stays, goes, or moves one revision on; an  *)
(* ID once given stays given, an Action keeps its binding and its outcome. *)
GoalMoves(gid) ==
  \/ goals'[gid] \in {goals[gid], NoGoal}
  \/ /\ goals[gid] # NoGoal
     /\ goals'[gid] \in GoalType /\ goals'[gid].revision = goals[gid].revision + 1
  \/ gid \notin goalNames
ActionKeeps(a) ==
  goalActions[a].status # "absent" =>
    /\ goalActions'[a].binding = goalActions[a].binding
    /\ goalActions'[a].status # "absent"
    /\ goalActions[a].status # "pending" => goalActions'[a].status = goalActions[a].status
Onward ==
  /\ \A gid \in GoalIds : GoalMoves(gid)
  /\ goalNames \subseteq goalNames'
  /\ advanced \subseteq advanced'
  /\ \A a \in Actions : ActionKeeps(a)

(* What was read of a Goal stays the record of its revision.               *)
LEMMA KeptStays ==
  ASSUME GoalTypeOK, GoalTypeOK', Onward, NEW gid \in GoalIds, NEW g \in GoalType, Kept(gid, g)
  PROVE  Kept(gid, g)'
<1>1. goals[gid] \in GoalType \cup {NoGoal} /\ goals'[gid] \in GoalType \cup {NoGoal}
  BY DEF GoalTypeOK
<1>2. gid \in goalNames'
  BY DEF Kept, Onward
<1>3. SUFFICES ASSUME goals'[gid] # NoGoal
               PROVE  /\ goals'[gid].revision >= g.revision
                      /\ (goals'[gid].revision = g.revision => goals'[gid] = g)
  BY <1>2 DEF Kept
<1>4. GoalMoves(gid) /\ gid \in goalNames
  BY DEF Onward, Kept
<1>5. CASE goals'[gid] = goals[gid]
  BY <1>3, <1>5 DEF Kept
<1>6. CASE goals'[gid] # goals[gid]
  <2>1. goals[gid] # NoGoal /\ goals'[gid].revision = goals[gid].revision + 1
    BY <1>3, <1>4, <1>6 DEF GoalMoves
  <2>2. goals[gid].revision >= g.revision
    BY <2>1 DEF Kept
  <2>3. goals[gid].revision \in Nat /\ g.revision \in Nat
    BY <1>1, <2>1 DEF GoalType
  <2>4. goals'[gid].revision > g.revision
    BY <2>1, <2>2, <2>3
  <2>5. QED BY <2>1, <2>3, <2>4
<1>7. QED BY <1>5, <1>6

(* A job that was in order stays so, whatever the others do.               *)
LEMMA JobStays ==
  ASSUME GoalTypeOK, GoalTypeOK', Onward, BindingsOK, NEW j \in Jobs, JobOK(j)
  PROVE  JobOK(j)'
<1>1. ProjectorOK(j)'
  <2>1. CASE j.pc \in {"advance", "settle", "dismiss", "verify", "replace"}
    <3>1. j.action \in Actions
      BY <2>1 DEF Jobs, Idle, ProjectorJob, AdvanceJob, UpdateJob
    <3>2. ActionKeeps(j.action) /\ advanced \subseteq advanced'
      BY <3>1 DEF Onward
    <3>3. ProjectorOK(j)
      BY DEF JobOK
    <3>4. QED BY <3>2, <3>3 DEF ProjectorOK, ActionKeeps
  <2>2. CASE ~(j.pc \in {"advance", "settle", "dismiss", "verify", "replace"})
    BY <2>2 DEF ProjectorOK
  <2>3. QED BY <2>1, <2>2
<1>2. AdvanceOK(j)'
  <2>1. SUFFICES ASSUME j.pc \in {"verify", "replace"}
                 PROVE  AdvanceOK(j)'
    BY DEF AdvanceOK
  <2>2. j.action \in Actions /\ j.goal \in GoalType
    BY <2>1 DEF Jobs, Idle, ProjectorJob, AdvanceJob, UpdateJob
  <2>3. goalActions[j.action].status = "succeeded" /\ AdvanceOK(j)
    BY <2>1 DEF JobOK, ProjectorOK
  <2>4. goalActions'[j.action].binding = goalActions[j.action].binding
    BY <2>2, <2>3 DEF Onward, ActionKeeps
  <2>5. PICK gid : gid = goalActions[j.action].binding.goal
    OBVIOUS
  <2>6. gid \in GoalIds
    BY <2>2, <2>3, <2>5 DEF BindingsOK, Binding
  <2>7. Kept(gid, j.goal)
    BY <2>1, <2>3, <2>5 DEF AdvanceOK
  <2>8. Kept(gid, j.goal)'
    BY <2>2, <2>6, <2>7, KeptStays
  <2>9. QED BY <2>1, <2>3, <2>4, <2>5, <2>8 DEF AdvanceOK
<1>3. UpdateOK(j)'
  <2>1. SUFFICES ASSUME j.pc = "update"
                 PROVE  UpdateOK(j)'
    BY DEF UpdateOK
  <2>2. j.id \in GoalIds /\ j.goal \in GoalType
    BY <2>1 DEF Jobs, Idle, ProjectorJob, AdvanceJob, UpdateJob
  <2>3. UpdateOK(j)
    BY DEF JobOK
  <2>4. Kept(j.id, j.goal)
    BY <2>1, <2>3 DEF UpdateOK
  <2>5. Kept(j.id, j.goal)'
    BY <2>2, <2>4, KeptStays
  <2>6. QED BY <2>1, <2>3, <2>5 DEF UpdateOK, isOpen, validStatusTransition
<1>4. QED BY <1>1, <1>2, <1>3 DEF JobOK

(* Only the worker that steps has to be looked at.                         *)
LEMMA WorkerSteps ==
  ASSUME GoalTypeOK, GoalTypeOK', Onward, BindingsOK, WorkersOK, NEW w \in Workers,
         \A v \in Workers \ {w} : workers'[v] = workers[v],
         \A j \in Jobs : workers'[w] = j => JobOK(j)'
  PROVE  WorkersOK'
<1>1. SUFFICES ASSUME NEW v \in Workers, NEW j \in Jobs, workers'[v] = j, v # w
               PROVE  JobOK(j)'
  BY DEF WorkersOK
<1>2. JobOK(j)
  BY <1>1 DEF WorkersOK
<1>3. QED BY <1>2, JobStays

LEMMA WorkersRest ==
  ASSUME GoalTypeOK, GoalTypeOK', Onward, BindingsOK, WorkersOK, UNCHANGED workers
  PROVE  WorkersOK'
<1>1. SUFFICES ASSUME NEW v \in Workers, NEW j \in Jobs, workers[v] = j
               PROVE  JobOK(j)'
  BY DEF WorkersOK
<1>2. JobOK(j)
  BY <1>1 DEF WorkersOK
<1>3. QED BY <1>2, JobStays

LEMMA IdleOK ==
  ASSUME NEW j, j = Idle
  PROVE  JobOK(j)'
BY DEF Idle, JobOK, ProjectorOK, AdvanceOK, UpdateOK

(* Bindings and past advances stand while the Actions and the history do.  *)
LEMMA AdvancedStays ==
  ASSUME GoalInv, GoalTypeOK', Onward, advanced' = advanced
  PROVE  AdvancedOK' /\ AdvancedOnce'
<1>1. SUFFICES ASSUME NEW x \in advanced
               PROVE  /\ goalActions'[x.action].status = "succeeded"
                      /\ goalActions'[x.action].binding = goalActions[x.action].binding
                      /\ LET b == goalActions[x.action].binding IN
                         goals'[b.goal] # NoGoal => goals'[b.goal].revision > b.revision
  BY DEF AdvancedOK, AdvancedOnce, GoalInv, ActionAdvancesOnce
<1>2. x.action \in Actions /\ goalActions[x.action].status = "succeeded"
  BY DEF GoalInv, GoalTypeOK, Advance, AdvancedOK
<1>3. /\ goalActions'[x.action].status = "succeeded"
      /\ goalActions'[x.action].binding = goalActions[x.action].binding
  BY <1>2 DEF Onward, ActionKeeps
<1>4. PICK b \in Binding : b = goalActions[x.action].binding
  BY <1>2 DEF GoalInv, BindingsOK
<1>5. b.goal \in GoalIds /\ b.goal \in goalNames /\ b.revision \in Nat
  BY <1>2, <1>4 DEF GoalInv, BindingsOK, Binding
<1>6. GoalMoves(b.goal)
  BY <1>5 DEF Onward
<1>7. goals[b.goal] # NoGoal => goals[b.goal].revision > b.revision /\ goals[b.goal].revision \in Nat
  BY <1>4, <1>5 DEF GoalInv, AdvancedOK, GoalTypeOK, GoalType
<1>8. ASSUME goals'[b.goal] # NoGoal PROVE goals'[b.goal].revision > b.revision
  BY <1>5, <1>6, <1>7, <1>8 DEF GoalMoves
<1>9. QED BY <1>3, <1>4, <1>8

(* The bound on open Goals: no step but a create adds one.                 *)
LEMMA FewerOpen ==
  ASSUME GoalInv, \A gid \in GoalIds : isOpen(goals'[gid]) => isOpen(goals[gid])
  PROVE  Cardinality(OpenGoals)' <= MaxOpenGoals
<1>1. OpenGoals' \subseteq OpenGoals /\ OpenGoals \subseteq GoalIds
  BY DEF OpenGoals
<1>2. IsFiniteSet(OpenGoals)
  BY <1>1, GoalAssumption, FS_Subset
<1>3. Cardinality(OpenGoals') <= Cardinality(OpenGoals)
  BY <1>1, <1>2, FS_Subset
<1>4. IsFiniteSet(OpenGoals')
  BY <1>1, <1>2, FS_Subset
<1>5. Cardinality(OpenGoals') \in Nat /\ Cardinality(OpenGoals) \in Nat
  BY <1>2, <1>4, FS_CardinalityType
<1>6. Cardinality(OpenGoals) <= MaxOpenGoals
  BY DEF GoalInv, ActionAdvancesOnce, RetiredGoalsClosed
<1>7. QED BY <1>3, <1>5, <1>6, GoalAssumption

(* Steps that leave the Goals, or the Actions, alone.                      *)
LEMMA GoalsRest ==
  ASSUME GoalInv, UNCHANGED <<goals, goalRetirements, goalNames>>, advanced \subseteq advanced'
  PROVE  /\ \A gid \in GoalIds : GoalMoves(gid)
         /\ NamesOK' /\ FingerprintsOK' /\ RetiredGoalsClosed'
<1>1. NamesOK' /\ \A gid \in GoalIds : GoalMoves(gid)
  BY DEF GoalInv, NamesOK, GoalMoves
<1>2. FingerprintsOK'
  BY DEF GoalInv, FingerprintsOK
<1>3. RetiredGoalsClosed'
  BY DEF GoalInv, ActionAdvancesOnce, RetiredGoalsClosed, OpenGoals
<1>4. QED BY <1>1, <1>2, <1>3

LEMMA ActionsRest ==
  ASSUME GoalInv, UNCHANGED goalActions, goalNames \subseteq goalNames'
  PROVE  /\ \A a \in Actions : ActionKeeps(a)
         /\ BindingsOK'
         /\ advanced' = advanced => ProjectionTruthful'
BY DEF GoalInv, ActionKeeps, BindingsOK, ActionAdvancesOnce, ProjectionTruthful

LEMMA Together ==
  ASSUME GoalInv, GoalTypeOK', Onward, advanced' = advanced, NamesOK', BindingsOK',
         FingerprintsOK', WorkersOK', ProjectionTruthful', RetiredGoalsClosed'
  PROVE  GoalInv'
<1>1. AdvancedOK' /\ AdvancedOnce'
  BY AdvancedStays
<1>2. QED BY <1>1 DEF GoalInv, ActionAdvancesOnce

(* A step of one worker that reads only.                                   *)
LEMMA ReadKeeps ==
  ASSUME GoalInv, NEW w \in Workers, NEW job \in Jobs, workers' = [workers EXCEPT ![w] = job],
         UNCHANGED <<goalVars, goalNames, goalActions, advanced>>,
         \A j \in Jobs : j = job => JobOK(j)'
  PROVE  GoalInv'
<1>1. GoalTypeOK'
  BY DEF GoalInv, GoalTypeOK, goalVars
<1>2. Onward /\ NamesOK' /\ BindingsOK' /\ FingerprintsOK' /\ RetiredGoalsClosed' /\ ProjectionTruthful'
  BY GoalsRest, ActionsRest DEF goalVars, Onward
<1>3. /\ \A v \in Workers \ {w} : workers'[v] = workers[v]
      /\ workers'[w] = job
  BY DEF GoalInv, GoalTypeOK
<1>4. \A j \in Jobs : workers'[w] = j => JobOK(j)'
  BY <1>3
<1>5. WorkersOK'
  BY <1>1, <1>2, <1>3, <1>4, WorkerSteps DEF GoalInv
<1>6. QED BY <1>1, <1>2, <1>5, Together

(* A replacement leaves the fingerprint it was given, one revision on.     *)
LEMMA ReplaceMarks ==
  ASSUME GoalInv, NEW gid \in GoalIds, NEW partition, NEW revision, NEW plan, NEW status,
         NEW tick, NEW mark, replaceGoal(gid, partition, revision, plan, status, tick, mark)
  PROVE  /\ goals'[gid].fingerprint = mark
         /\ goals'[gid].revision = goals[gid].revision + 1 /\ goals[gid].revision = revision
<1>1. PICK g \in GoalType : g = goals[gid]
  BY DEF GoalInv, GoalTypeOK, replaceGoal, replaceReady
<1>2. PICK h : h = [g EXCEPT !.plan = plan, !.status = status, !.tick = tick,
                             !.revision = g.revision + 1, !.fingerprint = mark]
  OBVIOUS
<1>3. h.fingerprint = mark /\ h.revision = g.revision + 1
  BY <1>2 DEF GoalType
<1>4. goals' = [goals EXCEPT ![gid] = h]
  BY <1>1, <1>2 DEF replaceGoal, replaced
<1>5. goals'[gid] = h
  BY <1>4 DEF GoalInv, GoalTypeOK
<1>6. g.revision = revision
  BY <1>1 DEF replaceGoal, replaceReady
<1>7. QED BY <1>1, <1>3, <1>5, <1>6

(* A replacement of a Goal at its revision.                                *)
LEMMA ReplaceKeeps ==
  ASSUME GoalInv, NEW gid \in GoalIds, NEW partition, NEW revision, NEW plan \in Plan,
         NEW status \in GoalStatuses, NEW tick \in Ticks,
         NEW mark \in Prints,
         replaceGoal(gid, partition, revision, plan, status, tick, mark),
         isOpen(goals[gid]),
         status = "achieved" => Len(plan.done) = plan.length, UNCHANGED goalNames
  PROVE  /\ goals' \in [GoalIds -> GoalType \cup {NoGoal}]
         /\ \A i \in GoalIds : GoalMoves(i)
         /\ NamesOK' /\ RetiredGoalsClosed'
         /\ \A i \in GoalIds \ {gid} : goals'[i] = goals[i]
         /\ goals'[gid] \in GoalType
<1>1. PICK g \in GoalType : g = goals[gid]
  BY DEF GoalInv, GoalTypeOK, replaceGoal, replaceReady
<1>2. g.revision = revision /\ g.partition = partition /\ goalRetirements[partition] = NoRetirement
  BY <1>1 DEF replaceGoal, replaceReady
<1>3. PICK h : h = [g EXCEPT !.plan = plan, !.status = status, !.tick = tick,
                             !.revision = g.revision + 1, !.fingerprint = mark]
  OBVIOUS
<1>4. g.revision + 1 \in Nat \ {0}
  BY DEF GoalType
<1>5. h \in GoalType
  BY <1>3, <1>4 DEF GoalType
<1>6. /\ h.revision = g.revision + 1 /\ h.fingerprint = mark /\ h.plan = plan
      /\ h.status = status /\ h.tick = tick /\ h.partition = g.partition
  BY <1>3 DEF GoalType
<1>7. goals' = [goals EXCEPT ![gid] = h]
  BY <1>1, <1>3 DEF replaceGoal, replaced
<1>8. goals \in [GoalIds -> GoalType \cup {NoGoal}]
  BY DEF GoalInv, GoalTypeOK
<1>9. /\ goals' \in [GoalIds -> GoalType \cup {NoGoal}]
      /\ goals'[gid] = h
      /\ \A i \in GoalIds \ {gid} : goals'[i] = goals[i]
  BY <1>5, <1>7, <1>8
<1>10. h # NoGoal /\ g # NoGoal
  BY <1>1, <1>5 DEF GoalType, NoGoal, GoalStatuses
<1>11. \A i \in GoalIds : GoalMoves(i)
  BY <1>1, <1>5, <1>6, <1>9, <1>10 DEF GoalMoves
<1>12. NamesOK'
  BY <1>1, <1>9, <1>10 DEF GoalInv, NamesOK
<1>13. RetiredGoalsClosed'
  <2>1. goalRetirements' = goalRetirements
    BY DEF replaceGoal
  <2>2. Cardinality(OpenGoals)' <= MaxOpenGoals
    <3>1. \A i \in GoalIds : isOpen(goals'[i]) => isOpen(goals[i])
      BY <1>9
    <3>2. QED BY <3>1, FewerOpen
  <2>3. \A i \in OpenGoals' : goalRetirements'[goals'[i].partition] = NoRetirement
    <3>1. SUFFICES ASSUME NEW i \in GoalIds, isOpen(goals'[i])
                   PROVE  goalRetirements[goals'[i].partition] = NoRetirement
      BY <2>1 DEF OpenGoals
    <3>2. CASE i = gid
      BY <1>2, <1>6, <1>9, <3>2
    <3>3. CASE i # gid
      BY <1>9, <3>1, <3>3 DEF GoalInv, ActionAdvancesOnce, RetiredGoalsClosed, OpenGoals
    <3>4. QED BY <3>2, <3>3
  <2>4. goalLoadable(h)
    BY <1>4, <1>6 DEF goalLoadable
  <2>5. \A i \in GoalIds : goals'[i] # NoGoal => goalLoadable(goals'[i])
    BY <1>9, <2>4 DEF GoalInv, ActionAdvancesOnce, RetiredGoalsClosed
  <2>6. QED BY <2>2, <2>3, <2>5 DEF RetiredGoalsClosed
<1>14. QED BY <1>1, <1>2, <1>5, <1>6, <1>9, <1>11, <1>12, <1>13

(* The store's own steps: the projector, the Actions and the history rest. *)
LEMMA StoreKeeps ==
  ASSUME GoalInv, GoalTypeOK', \A gid \in GoalIds : GoalMoves(gid), goalNames \subseteq goalNames',
         UNCHANGED <<goalActions, workers, advanced>>, NamesOK', RetiredGoalsClosed',
         \A gid \in GoalIds : goals'[gid] # NoGoal =>
           goals'[gid].fingerprint = NULL
           \/ (goals[gid] # NoGoal /\ goals'[gid].fingerprint = goals[gid].fingerprint)
  PROVE  GoalInv'
<1>1. BindingsOK' /\ ProjectionTruthful' /\ Onward
  BY ActionsRest DEF Onward
<1>2. WorkersOK'
  BY <1>1, WorkersRest DEF GoalInv
<1>3. FingerprintsOK'
  BY DEF GoalInv, FingerprintsOK
<1>4. QED BY <1>1, <1>2, <1>3, Together

LEMMA NameKeeps ==
  ASSUME GoalInv, NEW gid \in GoalIds, NEW partition \in Partitions, NEW plan \in Drafts,
         NEW tick \in Ticks, StoreStep(nameGoal(gid, partition, plan, tick))
  PROVE  GoalInv'
<1>1. /\ gid \notin goalNames /\ goalNames' = goalNames \cup {gid}
      /\ goalRetirements[partition] = NoRetirement /\ goals[gid] = NoGoal
      /\ Cardinality(OpenGoals) < MaxOpenGoals
      /\ goals' = [goals EXCEPT ![gid] = created(partition, nextGoalKey, plan, tick)]
      /\ nextGoalKey' = nextGoalKey + 1 /\ goalRetirements' = goalRetirements
      /\ UNCHANGED <<goalActions, workers, advanced>>
  BY DEF StoreStep, nameGoal, createGoal
<1>2. PICK h : h = created(partition, nextGoalKey, plan, tick)
  OBVIOUS
<1>3. nextGoalKey \in Nat \ {0} /\ plan \in Plan
  BY DEF GoalInv, GoalTypeOK, Drafts
<1>4. h \in GoalType
  BY <1>2, <1>3 DEF created, GoalType, GoalStatuses, Prints
<1>5. h.status = "active" /\ h.partition = partition /\ h.fingerprint = NULL /\ h.revision = 1
      /\ h.plan = plan /\ h.tick = tick
  BY <1>2 DEF created
<1>6. goals \in [GoalIds -> GoalType \cup {NoGoal}]
  BY DEF GoalInv, GoalTypeOK
<1>7. /\ goals' \in [GoalIds -> GoalType \cup {NoGoal}]
      /\ goals'[gid] = h /\ \A i \in GoalIds \ {gid} : goals'[i] = goals[i]
  BY <1>1, <1>2, <1>4, <1>6
<1>8. GoalTypeOK'
  BY <1>1, <1>3, <1>7 DEF GoalInv, GoalTypeOK
<1>9. (\A i \in GoalIds : GoalMoves(i)) /\ NamesOK'
  BY <1>1, <1>7 DEF GoalMoves, GoalInv, NamesOK
<1>10. RetiredGoalsClosed'
  <2>1. OpenGoals' = OpenGoals \cup {gid} /\ gid \notin OpenGoals /\ OpenGoals \subseteq GoalIds
    BY <1>1, <1>5, <1>7 DEF OpenGoals, isOpen, NoGoal
  <2>2. IsFiniteSet(OpenGoals)
    BY <2>1, GoalAssumption, FS_Subset
  <2>3. Cardinality(OpenGoals') = Cardinality(OpenGoals) + 1
    BY <2>1, <2>2, FS_AddElement
  <2>4. Cardinality(OpenGoals') <= MaxOpenGoals
    BY <1>1, <2>2, <2>3, FS_CardinalityType, GoalAssumption
  <2>5. \A i \in OpenGoals' : goalRetirements'[goals'[i].partition] = NoRetirement
    BY <1>1, <1>5, <1>7, <2>1 DEF GoalInv, ActionAdvancesOnce, RetiredGoalsClosed
  <2>6. goalLoadable(h)
    BY <1>3, <1>5 DEF goalLoadable, GoalStatuses
  <2>7. \A i \in GoalIds : goals'[i] # NoGoal => goalLoadable(goals'[i])
    BY <1>7, <2>6 DEF GoalInv, ActionAdvancesOnce, RetiredGoalsClosed
  <2>8. QED BY <2>4, <2>5, <2>7 DEF RetiredGoalsClosed
<1>11. \A i \in GoalIds : goals'[i] # NoGoal =>
         goals'[i].fingerprint = NULL
         \/ (goals[i] # NoGoal /\ goals'[i].fingerprint = goals[i].fingerprint)
  BY <1>5, <1>7
<1>12. QED BY <1>1, <1>8, <1>9, <1>10, <1>11, StoreKeeps

LEMMA RetireKeeps ==
  ASSUME GoalInv, NEW partition \in Partitions, NEW retirement \in RetirementIds,
         NEW tick \in Ticks, StoreStep(retireGoals(partition, retirement, tick)),
         UNCHANGED goalNames
  PROVE  GoalInv'
<1>1. /\ goals' = [gid \in GoalIds |-> IF gid \in OpenIn(partition)
                                      THEN cancelledBy(goals[gid], tick) ELSE goals[gid]]
      /\ goalRetirements' = [goalRetirements EXCEPT ![partition] =
           [id |-> retirement, tick |-> tick, cancelled |-> Cardinality(OpenIn(partition))]]
      /\ UNCHANGED <<nextGoalKey, goalActions, workers, advanced>>
  BY DEF StoreStep, retireGoals
<1>2. Cardinality(OpenIn(partition)) \in Nat
  <2>1. OpenIn(partition) \subseteq GoalIds
    BY DEF OpenIn, OpenGoals
  <2>2. QED BY <2>1, GoalAssumption, FS_Subset, FS_CardinalityType
<1>3. goals \in [GoalIds -> GoalType \cup {NoGoal}]
  BY DEF GoalInv, GoalTypeOK
<1>4. ASSUME NEW gid \in GoalIds, gid \in OpenIn(partition)
      PROVE  /\ goals[gid] \in GoalType /\ goals'[gid] \in GoalType
             /\ goals'[gid].revision = goals[gid].revision + 1
             /\ goals'[gid].fingerprint = NULL /\ ~isOpen(goals'[gid])
             /\ goalLoadable(goals'[gid])
  <2>1. PICK g \in GoalType : g = goals[gid]
    BY <1>3, <1>4 DEF OpenIn, OpenGoals, isOpen, NoGoal
  <2>2. goals'[gid] = [g EXCEPT !.plan = g.plan, !.status = "cancelled", !.tick = tick,
                               !.revision = g.revision + 1, !.fingerprint = NULL]
    BY <1>1, <1>4, <2>1 DEF cancelledBy, replaced
  <2>3. g.revision + 1 \in Nat \ {0} /\ g.plan \in Plan
    BY DEF GoalType
  <2>4. PICK h : h = goals'[gid]
    OBVIOUS
  <2>5. h \in GoalType
    BY <2>2, <2>3, <2>4 DEF GoalType, GoalStatuses, Prints
  <2>6. /\ h.revision = g.revision + 1 /\ h.fingerprint = NULL /\ h.status = "cancelled"
        /\ h.plan = g.plan /\ h.tick = tick
    BY <2>2, <2>4 DEF GoalType
  <2>7. ~isOpen(h) /\ goalLoadable(h)
    BY <2>3, <2>6 DEF isOpen, goalLoadable, GoalStatuses
  <2>8. QED BY <2>1, <2>4, <2>5, <2>6, <2>7
<1>5. \A gid \in GoalIds : gid \notin OpenIn(partition) => goals'[gid] = goals[gid]
  BY <1>1
<1>6. goals' \in [GoalIds -> GoalType \cup {NoGoal}]
  <2>1. \A gid \in GoalIds : goals'[gid] \in GoalType \cup {NoGoal}
    BY <1>3, <1>4, <1>5
  <2>2. goals' = [gid \in GoalIds |-> goals'[gid]]
    BY <1>1
  <2>3. QED BY <2>1, <2>2
<1>7. goalRetirements' \in [Partitions -> Retirement \cup {NoRetirement}]
  BY <1>1, <1>2 DEF GoalInv, GoalTypeOK, Retirement
<1>8. GoalTypeOK'
  BY <1>1, <1>6, <1>7 DEF GoalInv, GoalTypeOK
<1>9. \A gid \in GoalIds : gid \in OpenIn(partition) => goals[gid] # NoGoal
  BY DEF OpenIn, OpenGoals, isOpen, NoGoal
<1>10. (\A gid \in GoalIds : GoalMoves(gid)) /\ NamesOK'
  BY <1>4, <1>5, <1>9 DEF GoalMoves, GoalInv, NamesOK
<1>11. RetiredGoalsClosed'
  <2>1. \A gid \in GoalIds : isOpen(goals'[gid]) => goals'[gid] = goals[gid] /\ gid \notin OpenIn(partition)
    BY <1>4, <1>5
  <2>2. Cardinality(OpenGoals)' <= MaxOpenGoals
    BY <2>1, FewerOpen
  <2>3. ASSUME NEW gid \in GoalIds, isOpen(goals'[gid])
        PROVE  goalRetirements'[goals'[gid].partition] = NoRetirement
    <3>1. isOpen(goals[gid]) /\ goals'[gid] = goals[gid] /\ goals[gid].partition # partition
      BY <2>1, <2>3 DEF OpenIn, OpenGoals
    <3>2. goals[gid].partition \in Partitions
      BY <1>3, <3>1 DEF isOpen, NoGoal, GoalType
    <3>3. goalRetirements[goals[gid].partition] = NoRetirement
      BY <3>1 DEF GoalInv, ActionAdvancesOnce, RetiredGoalsClosed, OpenGoals
    <3>4. QED BY <1>1, <3>1, <3>2, <3>3 DEF GoalInv, GoalTypeOK
  <2>4. \A gid \in GoalIds : goals'[gid] # NoGoal => goalLoadable(goals'[gid])
    BY <1>4, <1>5 DEF GoalInv, ActionAdvancesOnce, RetiredGoalsClosed
  <2>5. QED BY <2>2, <2>3, <2>4 DEF RetiredGoalsClosed, OpenGoals
<1>12. \A gid \in GoalIds : goals'[gid] # NoGoal =>
         goals'[gid].fingerprint = NULL
         \/ (goals[gid] # NoGoal /\ goals'[gid].fingerprint = goals[gid].fingerprint)
  BY <1>4, <1>5
<1>13. QED BY <1>1, <1>8, <1>10, <1>11, <1>12, StoreKeeps

LEMMA PurgeKeeps ==
  ASSUME GoalInv, NEW batch \in SUBSET GoalIds, StoreStep(purgeGoals(batch)), UNCHANGED goalNames
  PROVE  GoalInv'
<1>1. /\ goals' = [gid \in GoalIds |-> IF gid \in batch THEN NoGoal ELSE goals[gid]]
      /\ UNCHANGED <<goalRetirements, nextGoalKey, goalActions, workers, advanced>>
  BY DEF StoreStep, purgeGoals
<1>2. \A gid \in GoalIds : goals'[gid] \in {goals[gid], NoGoal}
  BY <1>1
<1>3. GoalTypeOK'
  BY <1>1 DEF GoalInv, GoalTypeOK
<1>4. (\A gid \in GoalIds : GoalMoves(gid)) /\ NamesOK'
  BY <1>2 DEF GoalMoves, GoalInv, NamesOK
<1>5. ~isOpen(NoGoal)
  BY DEF isOpen, NoGoal
<1>6. RetiredGoalsClosed'
  <2>1. \A gid \in GoalIds : isOpen(goals'[gid]) => goals'[gid] = goals[gid]
    BY <1>2, <1>5
  <2>2. Cardinality(OpenGoals)' <= MaxOpenGoals
    BY <2>1, FewerOpen
  <2>3. \A gid \in OpenGoals' : goalRetirements'[goals'[gid].partition] = NoRetirement
    BY <1>1, <2>1 DEF GoalInv, ActionAdvancesOnce, RetiredGoalsClosed, OpenGoals
  <2>4. \A gid \in GoalIds : goals'[gid] # NoGoal => goalLoadable(goals'[gid])
    BY <1>2 DEF GoalInv, ActionAdvancesOnce, RetiredGoalsClosed
  <2>5. QED BY <2>2, <2>3, <2>4 DEF RetiredGoalsClosed
<1>7. \A gid \in GoalIds : goals'[gid] # NoGoal =>
         goals'[gid].fingerprint = NULL
         \/ (goals[gid] # NoGoal /\ goals'[gid].fingerprint = goals[gid].fingerprint)
  BY <1>2
<1>8. QED BY <1>1, <1>3, <1>4, <1>6, <1>7, StoreKeeps

(* The steps of an Action: bound to an open Goal, then settled once.       *)
LEMMA ActionStepKeeps ==
  ASSUME GoalInv, NEW a \in Actions, NEW r \in BoundAction,
         goalActions' = [goalActions EXCEPT ![a] = r],
         UNCHANGED <<goalVars, goalNames, workers, advanced>>,
         r.projection = goalActions[a].projection \/ r.projection = "none", ActionKeeps(a),
         r.projection # "none" => r.status = goalActions[a].status,
         r.status # "absent" => r.binding \in Binding /\ r.binding.goal \in goalNames
  PROVE  GoalInv'
<1>1. /\ goalActions \in [Actions -> BoundAction] /\ goalActions'[a] = r
      /\ \A o \in Actions \ {a} : goalActions'[o] = goalActions[o]
  BY DEF GoalInv, GoalTypeOK
<1>2. GoalTypeOK'
  BY <1>1 DEF GoalInv, GoalTypeOK, goalVars
<1>3. \A o \in Actions : ActionKeeps(o)
  BY <1>1 DEF ActionKeeps
<1>4. Onward /\ NamesOK' /\ FingerprintsOK' /\ RetiredGoalsClosed'
  BY <1>3, GoalsRest DEF Onward, goalVars
<1>5. BindingsOK'
  BY <1>1 DEF GoalInv, BindingsOK, goalVars
<1>6. ProjectionTruthful'
  BY <1>1 DEF GoalInv, ActionAdvancesOnce, ProjectionTruthful
<1>7. WorkersOK'
  BY <1>2, <1>4, WorkersRest DEF GoalInv
<1>8. QED BY <1>2, <1>4, <1>5, <1>6, <1>7, Together

LEMMA AdmitBoundKeeps ==
  ASSUME GoalInv, NEW a \in Actions, NEW gid \in GoalIds, admitBound(a, gid)
  PROVE  GoalInv'
<1>1. PICK g \in GoalType : g = goals[gid]
  BY DEF GoalInv, GoalTypeOK, admitBound, isOpen, NoGoal
<1>2. PICK b : b = [goal |-> gid, partition |-> g.partition, step |-> Len(g.plan.done) + 1,
                    revision |-> g.revision]
  OBVIOUS
<1>3. Len(g.plan.done) \in Nat
  <2>1. PICK n \in 0..MaxSteps : g.plan.done \in [1..n -> StepEvidence]
    BY DEF GoalType, Plan
  <2>2. QED BY <2>1, GoalAssumption
<1>4. b \in Binding
  BY <1>2, <1>3 DEF Binding, GoalType
<1>5. gid \in goalNames
  BY <1>1 DEF GoalInv, NamesOK, GoalType, NoGoal, GoalStatuses
<1>6. PICK r : r = [status |-> "pending", projection |-> "none", binding |-> b]
  OBVIOUS
<1>7. r \in BoundAction /\ r.binding = b /\ r.projection = "none"
  BY <1>4, <1>6 DEF BoundAction
<1>8. goalActions' = [goalActions EXCEPT ![a] = r] /\ ActionKeeps(a)
  BY <1>1, <1>2, <1>6 DEF admitBound, ActionKeeps
<1>9. b.goal = gid
  BY <1>2
<1>10. UNCHANGED <<goalVars, goalNames, workers, advanced>>
  BY DEF admitBound
<1>11. QED BY <1>4, <1>5, <1>7, <1>8, <1>9, <1>10, ActionStepKeeps

LEMMA SettleBoundKeeps ==
  ASSUME GoalInv, NEW a \in Actions, NEW status \in {"succeeded", "failed"}, settleBound(a, status)
  PROVE  GoalInv'
<1>1. PICK q \in BoundAction : q = goalActions[a]
  BY DEF GoalInv, GoalTypeOK
<1>2. PICK r : r = [q EXCEPT !.status = status]
  OBVIOUS
<1>3. r \in BoundAction /\ r.binding = q.binding /\ r.projection = q.projection /\ r.status = status
  BY <1>2 DEF BoundAction
<1>4. q.status = "pending" /\ goalActions' = [goalActions EXCEPT ![a] = r]
      /\ UNCHANGED <<goalVars, goalNames, workers, advanced>>
  BY <1>1, <1>2 DEF settleBound
<1>5. ActionKeeps(a)
  BY <1>1, <1>3, <1>4 DEF ActionKeeps, GoalInv, GoalTypeOK
<1>6. q.projection = "none"
  BY <1>1, <1>4 DEF GoalInv, ActionAdvancesOnce, ProjectionTruthful, BoundAction
<1>7. q.binding \in Binding /\ q.binding.goal \in goalNames
  BY <1>1, <1>4 DEF GoalInv, BindingsOK
<1>8. QED BY <1>1, <1>3, <1>4, <1>5, <1>6, <1>7, ActionStepKeeps

(* The worker's reads: what it goes on with is in order.                   *)
LEMMA ProjectPendingKeeps ==
  ASSUME GoalInv, NEW w \in Workers, NEW a \in Actions, projectPending(w, a)
  PROVE  GoalInv'
<1>1. PICK job \in {Idle, [pc |-> "dismiss", action |-> a], [pc |-> "advance", action |-> a]} :
        /\ workers' = [workers EXCEPT ![w] = job]
        /\ job = [pc |-> "dismiss", action |-> a] => goalActions[a].status = "failed"
        /\ job = [pc |-> "advance", action |-> a] => goalActions[a].status = "succeeded"
  <2>1. goalActions[a].status \in {"pending", "succeeded", "failed"}
    BY DEF projectPending, GoalInv, GoalTypeOK, BoundAction
  <2>2. CASE goalActions[a].status = "pending"
    <3>1. workers' = [workers EXCEPT ![w] = Idle]
      BY <2>2 DEF projectPending, to
    <3>2. Idle # [pc |-> "dismiss", action |-> a] /\ Idle # [pc |-> "advance", action |-> a]
      BY DEF Idle
    <3>3. QED BY <3>1, <3>2
  <2>3. CASE goalActions[a].status = "succeeded"
    <3>1. workers' = [workers EXCEPT ![w] = [pc |-> "advance", action |-> a]]
      BY <2>3 DEF projectPending, to
    <3>2. [pc |-> "dismiss", action |-> a] # [pc |-> "advance", action |-> a]
      OBVIOUS
    <3>3. QED BY <2>3, <3>1, <3>2
  <2>4. CASE goalActions[a].status = "failed"
    <3>1. workers' = [workers EXCEPT ![w] = [pc |-> "dismiss", action |-> a]]
      BY <2>4 DEF projectPending, to
    <3>2. [pc |-> "dismiss", action |-> a] # [pc |-> "advance", action |-> a]
      OBVIOUS
    <3>3. QED BY <2>4, <3>1, <3>2
  <2>5. QED BY <2>1, <2>2, <2>3, <2>4
<1>2. job \in Jobs
  BY DEF Jobs, ProjectorJob
<1>3. UNCHANGED <<goalVars, goalNames, goalActions, advanced>>
  BY DEF projectPending
<1>4. ASSUME NEW j \in Jobs, j = job PROVE JobOK(j)'
  <2>1. CASE job = Idle
    BY <1>4, <2>1, IdleOK
  <2>2. CASE job = [pc |-> "dismiss", action |-> a]
    BY <1>1, <1>3, <1>4, <2>2 DEF JobOK, ProjectorOK, AdvanceOK, UpdateOK
  <2>3. CASE job = [pc |-> "advance", action |-> a]
    BY <1>1, <1>3, <1>4, <2>3 DEF JobOK, ProjectorOK, AdvanceOK, UpdateOK
  <2>4. QED BY <2>1, <2>2, <2>3
<1>5. QED BY <1>1, <1>2, <1>3, <1>4, ReadKeeps

(* A Goal just read is kept.                                               *)
LEMMA ReadKept ==
  ASSUME GoalInv, NEW gid \in GoalIds, NEW g \in GoalType, g = goals[gid],
         UNCHANGED <<goals, goalNames>>
  PROVE  Kept(gid, g)'
<1>1. gid \in goalNames
  BY DEF GoalInv, NamesOK, GoalType, NoGoal, GoalStatuses
<1>2. g.revision >= g.revision
  BY DEF GoalType
<1>3. QED BY <1>1, <1>2 DEF Kept

LEMMA AdvancingJob ==
  ASSUME GoalInv, NEW w \in Workers
  PROVE  /\ workers[w].pc \in {"advance", "settle", "dismiss"} =>
              workers[w] \in ProjectorJob /\ JobOK(workers[w])
         /\ workers[w].pc \in {"verify", "replace"} =>
              workers[w] \in AdvanceJob /\ JobOK(workers[w])
         /\ workers[w].pc = "update" => workers[w] \in UpdateJob /\ JobOK(workers[w])
<1>1. PICK j \in Jobs : j = workers[w]
  BY DEF GoalInv, GoalTypeOK
<1>2. JobOK(j)
  BY <1>1 DEF GoalInv, WorkersOK
<1>3. /\ j.pc \in {"advance", "settle", "dismiss"} => j \in ProjectorJob
      /\ j.pc \in {"verify", "replace"} => j \in AdvanceJob
      /\ j.pc = "update" => j \in UpdateJob
  BY DEF Jobs, Idle, ProjectorJob, AdvanceJob, UpdateJob
<1>4. QED BY <1>1, <1>2, <1>3

LEMMA ReadForAdvanceKeeps ==
  ASSUME GoalInv, NEW w \in Workers, NEW tick \in Ticks, readForAdvance(w, tick)
  PROVE  GoalInv'
<1>1. PICK a \in Actions : a = workers[w].action
  BY AdvancingJob DEF readForAdvance, ProjectorJob
<1>2. goalActions[a].status = "succeeded"
  BY <1>1, AdvancingJob DEF readForAdvance, JobOK, ProjectorOK
<1>3. PICK b \in Binding : b = goalActions[a].binding
  BY <1>2 DEF GoalInv, BindingsOK
<1>4. b.goal \in GoalIds
  BY DEF Binding
<1>5. UNCHANGED <<goalVars, goalNames, goalActions, advanced>>
  BY DEF readForAdvance
<1>6. /\ bindingOf(w) = b
      /\ hostFingerprint(a) = <<a, b.revision>>
  BY <1>1, <1>3 DEF bindingOf, hostFingerprint
<1>7. PICK job : job = workers'[w]
  OBVIOUS
<1>8. workers' = [workers EXCEPT ![w] = job]
  BY <1>7 DEF readForAdvance, to, GoalInv, GoalTypeOK
<1>9. \/ job = Idle
      \/ /\ job = [pc |-> "settle", action |-> a]
         /\ foundFor(b) /\ isExactHostAdvanceReplay(goals[b.goal], a)
      \/ /\ job = [pc |-> "verify", action |-> a, goal |-> goals[b.goal], tick |-> tick]
         /\ foundFor(b) /\ goals[b.goal].revision = b.revision
         /\ goals[b.goal].status = "active" /\ goals[b.goal].plan.current
  BY <1>1, <1>6, <1>7 DEF readForAdvance, to, GoalInv, GoalTypeOK
<1>10. CASE job = Idle
  <2>1. job \in Jobs /\ \A j \in Jobs : j = job => JobOK(j)'
    BY <1>10, IdleOK DEF Jobs
  <2>2. QED BY <1>5, <1>8, <2>1, ReadKeeps
<1>11. CASE /\ job = [pc |-> "settle", action |-> a]
            /\ foundFor(b) /\ isExactHostAdvanceReplay(goals[b.goal], a)
  <2>1. PICK g \in GoalType : g = goals[b.goal]
    BY <1>4, <1>11 DEF foundFor, GoalInv, GoalTypeOK
  <2>2. g.fingerprint = <<a, b.revision>> /\ g.revision = b.revision + 1 /\ goals[b.goal] # NoGoal
    BY <1>3, <1>6, <1>11, <2>1 DEF isExactHostAdvanceReplay, foundFor
  <2>3. \E x \in advanced : x.action = a
    <3>1. g.fingerprint[1] = a /\ g.fingerprint \in Actions \X Nat
      BY <2>2 DEF Binding
    <3>2. g.fingerprint # NULL
      BY <3>1, GoalAssumption
    <3>3. QED BY <1>4, <2>1, <2>2, <3>1, <3>2 DEF GoalInv, FingerprintsOK
  <2>4. job \in Jobs
    BY <1>11 DEF Jobs, ProjectorJob
  <2>5. ASSUME NEW j \in Jobs, j = job PROVE JobOK(j)'
    BY <1>2, <1>5, <1>11, <2>3, <2>5 DEF JobOK, ProjectorOK, AdvanceOK, UpdateOK
  <2>6. QED BY <1>5, <1>8, <2>4, <2>5, ReadKeeps
<1>12. CASE /\ job = [pc |-> "verify", action |-> a, goal |-> goals[b.goal], tick |-> tick]
            /\ foundFor(b) /\ goals[b.goal].revision = b.revision
            /\ goals[b.goal].status = "active" /\ goals[b.goal].plan.current
  <2>1. PICK g \in GoalType : g = goals[b.goal]
    BY <1>4, <1>12 DEF foundFor, GoalInv, GoalTypeOK
  <2>2. job = [pc |-> "verify", action |-> a, goal |-> g, tick |-> tick]
        /\ g.revision = b.revision /\ g.status = "active" /\ g.plan.current
    BY <1>12, <2>1
  <2>3. job \in Jobs
    BY <2>2 DEF Jobs, AdvanceJob
  <2>4. Kept(b.goal, g)'
    BY <1>4, <1>5, <2>1, ReadKept DEF goalVars
  <2>5. ASSUME NEW j \in Jobs, j = job PROVE JobOK(j)'
    <3>1. j.pc = "verify" /\ j.action = a /\ j.goal = g
      BY <2>2, <2>5
    <3>2. goalActions'[a].binding = b /\ goalActions'[a].status = "succeeded"
      BY <1>2, <1>3, <1>5
    <3>3. ProjectorOK(j)' /\ UpdateOK(j)'
      BY <3>1, <3>2 DEF ProjectorOK, UpdateOK
    <3>4. AdvanceOK(j)'
      BY <2>2, <2>4, <3>1, <3>2 DEF AdvanceOK, Kept
    <3>5. QED BY <3>3, <3>4 DEF JobOK
  <2>6. QED BY <1>5, <1>8, <2>3, <2>5, ReadKeeps
<1>13. QED BY <1>9, <1>10, <1>11, <1>12

LEMMA VerifyAdvanceKeeps ==
  ASSUME GoalInv, NEW w \in Workers, verifyAdvance(w)
  PROVE  GoalInv'
<1>1. PICK k \in AdvanceJob : k = workers[w]
  BY AdvancingJob DEF verifyAdvance
<1>2. JobOK(k)
  BY <1>1, AdvancingJob DEF verifyAdvance, GoalInv, WorkersOK, Jobs
<1>3. PICK job \in {Idle, [k EXCEPT !.pc = "replace"]} : workers' = [workers EXCEPT ![w] = job]
  BY <1>1 DEF verifyAdvance, to
<1>4. UNCHANGED <<goalVars, goalNames, goalActions, advanced>>
  BY DEF verifyAdvance
<1>5. CASE job = Idle
  <2>1. job \in Jobs /\ \A j \in Jobs : j = job => JobOK(j)'
    BY <1>5, IdleOK DEF Jobs
  <2>2. QED BY <1>3, <1>4, <2>1, ReadKeeps
<1>6. CASE job = [k EXCEPT !.pc = "replace"]
  <2>1. job \in AdvanceJob /\ job.pc = "replace" /\ job.action = k.action /\ job.goal = k.goal
    BY <1>6 DEF AdvanceJob
  <2>2. k.pc = "verify"
    BY <1>1 DEF verifyAdvance
  <2>3. ASSUME NEW j \in Jobs, j = job PROVE JobOK(j)'
    BY <1>2, <1>4, <2>1, <2>2, <2>3 DEF JobOK, ProjectorOK, AdvanceOK, UpdateOK, Kept, goalVars
  <2>4. QED BY <1>3, <1>4, <2>1, <2>3, ReadKeeps DEF Jobs
<1>7. QED BY <1>3, <1>5, <1>6

LEMMA ReadForUpdateKeeps ==
  ASSUME GoalInv, NEW w \in Workers, NEW gid \in GoalIds, NEW plan \in Drafts,
         NEW status \in GoalStatuses, NEW tick \in Ticks,
         readForUpdate(w, gid, plan, status, tick)
  PROVE  GoalInv'
<1>1. PICK g \in GoalType : g = goals[gid]
  BY DEF GoalInv, GoalTypeOK, readForUpdate, isOpen, NoGoal
<1>2. PICK job : job = [pc |-> "update", id |-> gid, goal |-> g, plan |-> plan,
                        status |-> status, tick |-> tick]
  OBVIOUS
<1>3. job \in Jobs
  BY <1>2 DEF Jobs, UpdateJob, Drafts
<1>4. /\ workers' = [workers EXCEPT ![w] = job]
      /\ isOpen(g) /\ validStatusTransition(g.status, status, plan)
      /\ UNCHANGED <<goalVars, goalNames, goalActions, advanced>>
  BY <1>1, <1>2 DEF readForUpdate, to
<1>5. Kept(gid, g)'
  BY <1>1, <1>4, ReadKept DEF goalVars
<1>6. ASSUME NEW j \in Jobs, j = job PROVE JobOK(j)'
  <2>1. j.pc = "update" /\ j.id = gid /\ j.goal = g /\ j.plan = plan /\ j.status = status
    BY <1>2, <1>6
  <2>2. ProjectorOK(j)' /\ AdvanceOK(j)'
    BY <2>1 DEF ProjectorOK, AdvanceOK
  <2>3. UpdateOK(j)'
    BY <1>4, <1>5, <2>1 DEF UpdateOK, Kept, isOpen, validStatusTransition
  <2>4. QED BY <2>2, <2>3 DEF JobOK
<1>7. QED BY <1>3, <1>4, <1>6, ReadKeeps

LEMMA ForgetKeeps ==
  ASSUME GoalInv, NEW w \in Workers, forget(w)
  PROVE  GoalInv'
<1>1. \A j \in Jobs : j = Idle => JobOK(j)'
  BY IdleOK
<1>2. QED BY <1>1, ReadKeeps DEF forget, to, Jobs

LEMMA SettleProjectionKeeps ==
  ASSUME GoalInv, NEW w \in Workers, settleProjection(w)
  PROVE  GoalInv'
<1>1. PICK k \in ProjectorJob : k = workers[w]
  BY AdvancingJob DEF settleProjection
<1>2. PICK a \in Actions : a = k.action
  BY DEF ProjectorJob
<1>3. PICK q \in BoundAction : q = goalActions[a]
  BY DEF GoalInv, GoalTypeOK
<1>4. PICK r : r = [q EXCEPT !.projection = IF @ # "none" THEN @
                                            ELSE IF k.pc = "settle" THEN "advanced"
                                            ELSE "source_failed"]
  OBVIOUS
<1>5. /\ r \in BoundAction /\ r.binding = q.binding /\ r.status = q.status
      /\ r.projection = IF q.projection # "none" THEN q.projection
                        ELSE IF k.pc = "settle" THEN "advanced" ELSE "source_failed"
  BY <1>4 DEF BoundAction
<1>6. /\ goalActions' = [goalActions EXCEPT ![a] = r]
      /\ workers' = [workers EXCEPT ![w] = Idle]
      /\ UNCHANGED <<goalVars, goalNames, advanced>>
      /\ k.pc \in {"settle", "dismiss"}
  BY <1>1, <1>2, <1>3, <1>4 DEF settleProjection, to
<1>7. JobOK(k)
  BY <1>1, <1>6, AdvancingJob DEF GoalInv, WorkersOK, Jobs
<1>8. /\ k.pc = "settle" => q.status = "succeeded" /\ \E x \in advanced : x.action = a
      /\ k.pc = "dismiss" => q.status = "failed"
  BY <1>2, <1>3, <1>7 DEF JobOK, ProjectorOK
<1>9. /\ goalActions \in [Actions -> BoundAction] /\ goalActions'[a] = r
      /\ \A o \in Actions \ {a} : goalActions'[o] = goalActions[o]
  BY <1>6 DEF GoalInv, GoalTypeOK
<1>10. GoalTypeOK'
  <2>1. workers' \in [Workers -> Jobs]
    BY <1>6 DEF GoalInv, GoalTypeOK, Jobs
  <2>2. goalActions' \in [Actions -> BoundAction]
    BY <1>5, <1>6, <1>9
  <2>3. QED BY <1>6, <2>1, <2>2 DEF GoalInv, GoalTypeOK, goalVars
<1>11. \A o \in Actions : ActionKeeps(o)
  BY <1>3, <1>5, <1>9 DEF ActionKeeps
<1>12. Onward /\ NamesOK' /\ FingerprintsOK' /\ RetiredGoalsClosed'
  BY <1>6, <1>11, GoalsRest DEF Onward, goalVars
<1>13. BindingsOK'
  BY <1>3, <1>5, <1>6, <1>9 DEF GoalInv, BindingsOK
<1>14. ProjectionTruthful'
  <2>1. SUFFICES ASSUME NEW o \in Actions
                 PROVE  /\ goalActions'[o].projection = "advanced" =>
                             /\ goalActions'[o].status = "succeeded"
                             /\ \E x \in advanced : x.action = o
                        /\ goalActions'[o].projection = "source_failed" =>
                             goalActions'[o].status = "failed" /\ \A x \in advanced : x.action # o
    BY <1>6 DEF ProjectionTruthful
  <2>2. q.status = "failed" => \A x \in advanced : x.action # a
    BY <1>3 DEF GoalInv, AdvancedOK
  <2>3. CASE o = a
    <3>1. q.projection = "none" \/ r.projection = q.projection
      BY <1>5
    <3>2. CASE q.projection = "none"
      BY <1>5, <1>6, <1>8, <1>9, <2>2, <2>3, <3>2
    <3>3. CASE r.projection = q.projection
      BY <1>3, <1>5, <1>9, <2>3, <3>3 DEF GoalInv, ActionAdvancesOnce, ProjectionTruthful
    <3>4. QED BY <3>1, <3>2, <3>3
  <2>4. CASE o # a
    BY <1>9, <2>4 DEF GoalInv, ActionAdvancesOnce, ProjectionTruthful
  <2>5. QED BY <2>3, <2>4
<1>15. WorkersOK'
  <2>1. /\ \A v \in Workers \ {w} : workers'[v] = workers[v]
        /\ workers'[w] = Idle
    BY <1>6 DEF GoalInv, GoalTypeOK
  <2>2. \A j \in Jobs : workers'[w] = j => JobOK(j)'
    BY <2>1, IdleOK
  <2>3. QED BY <1>10, <1>12, <2>1, <2>2, WorkerSteps DEF GoalInv
<1>16. QED BY <1>6, <1>10, <1>12, <1>13, <1>14, <1>15, Together

(* The replacement of an update: the Goal is the one that was read.        *)
LEMMA ReplaceUpdatedKeeps ==
  ASSUME GoalInv, NEW w \in Workers, replaceUpdated(w)
  PROVE  GoalInv'
<1>1. PICK j \in UpdateJob : j = workers[w]
  BY AdvancingJob DEF replaceUpdated
<1>2. JobOK(j) /\ j.pc = "update"
  BY <1>1, AdvancingJob DEF replaceUpdated, GoalInv, WorkersOK, Jobs
<1>3. /\ workers' = [workers EXCEPT ![w] = Idle]
      /\ UNCHANGED <<goalNames, goalActions, advanced>>
  BY DEF replaceUpdated, to
<1>4. /\ j.id \in GoalIds /\ j.goal \in GoalType /\ j.plan \in Plan /\ j.status \in GoalStatuses
      /\ j.tick \in Ticks
  BY DEF UpdateJob
<1>5. CASE UNCHANGED goalVars
  <2>1. \A k \in Jobs : k = Idle => JobOK(k)'
    BY IdleOK
  <2>2. QED BY <1>3, <1>5, <2>1, ReadKeeps DEF Jobs
<1>6. CASE replaceGoal(j.id, j.goal.partition, j.goal.revision, j.plan, j.status, j.tick, NULL)
  <2>1. goals[j.id] = j.goal
    BY <1>2, <1>6 DEF replaceGoal, replaceReady, JobOK, UpdateOK, Kept
  <2>2. isOpen(goals[j.id]) /\ (j.status = "achieved" => Len(j.plan.done) = j.plan.length)
    BY <1>2, <2>1 DEF JobOK, UpdateOK, validStatusTransition
  <2>3. /\ goals' \in [GoalIds -> GoalType \cup {NoGoal}]
        /\ \A i \in GoalIds : GoalMoves(i)
        /\ NamesOK' /\ RetiredGoalsClosed'
        /\ \A i \in GoalIds \ {j.id} : goals'[i] = goals[i]
        /\ goals'[j.id].fingerprint = NULL
    <3>1. NULL \in Prints
      BY DEF Prints
    <3>2. goals'[j.id].fingerprint = NULL
      BY <1>4, <1>6, ReplaceMarks
    <3>3. QED BY <1>3, <1>4, <1>6, <2>2, <3>1, <3>2, ReplaceKeeps
  <2>4. GoalTypeOK'
    <3>1. workers' \in [Workers -> Jobs]
      BY <1>3 DEF GoalInv, GoalTypeOK, Jobs
    <3>2. UNCHANGED <<goalRetirements, nextGoalKey>>
      BY <1>6 DEF replaceGoal
    <3>3. QED BY <1>3, <2>3, <3>1, <3>2 DEF GoalInv, GoalTypeOK
  <2>5. BindingsOK' /\ ProjectionTruthful' /\ Onward
    BY <1>3, <2>3, ActionsRest DEF Onward
  <2>6. FingerprintsOK'
    BY <1>3, <2>3 DEF GoalInv, FingerprintsOK
  <2>7. WorkersOK'
    <3>1. /\ \A v \in Workers \ {w} : workers'[v] = workers[v]
          /\ workers'[w] = Idle
      BY <1>3 DEF GoalInv, GoalTypeOK
    <3>2. \A k \in Jobs : workers'[w] = k => JobOK(k)'
      BY <3>1, IdleOK
    <3>3. QED BY <2>4, <2>5, <3>1, <3>2, WorkerSteps DEF GoalInv
  <2>8. QED BY <1>3, <2>3, <2>4, <2>5, <2>6, <2>7, Together
<1>7. QED BY <1>1, <1>5, <1>6 DEF replaceUpdated

(* A step completed makes a plan of the same length with one step more.    *)
LEMMA StepCompleted ==
  ASSUME NEW plan \in Plan, plan.current, NEW a \in Actions
  PROVE  completedStep(plan, a) \in Plan
<1>1. PICK n \in 0..MaxSteps : plan.done \in [1..n -> StepEvidence]
  BY DEF Plan
<1>2. n \in Nat /\ Len(plan.done) = n /\ plan.done \in Seq(StepEvidence) /\ a \in StepEvidence
  BY <1>1, GoalAssumption
<1>3. plan.length \in 0..MaxSteps /\ n + 1 <= plan.length
  BY <1>2 DEF Plan
<1>4. Append(plan.done, a) \in [1..(n + 1) -> StepEvidence] /\ Len(Append(plan.done, a)) = n + 1
  <2>1. Append(plan.done, a) \in Seq(StepEvidence) /\ Len(Append(plan.done, a)) = n + 1
    BY <1>2, AppendProperties
  <2>2. QED BY <2>1, LenProperties
<1>5. n + 1 \in 0..MaxSteps
  BY <1>2, <1>3, GoalAssumption
<1>6. Append(plan.done, a) \in UNION {[1..i -> StepEvidence] : i \in 0..MaxSteps}
  BY <1>4, <1>5
<1>7. PICK q : q = completedStep(plan, a)
  OBVIOUS
<1>8. q = [done |-> Append(plan.done, a), current |-> n + 1 < plan.length, length |-> plan.length]
  BY <1>2, <1>7 DEF completedStep
<1>9. Len(q.done) + (IF q.current THEN 1 ELSE 0) <= q.length
  <2>1. Len(q.done) = n + 1 /\ q.current = (n + 1 < plan.length) /\ q.length = plan.length
    BY <1>4, <1>8
  <2>2. plan.length \in Nat
    BY <1>3, GoalAssumption
  <2>3. CASE n + 1 < plan.length
    BY <1>2, <2>1, <2>2, <2>3
  <2>4. CASE ~(n + 1 < plan.length)
    <3>1. ~q.current
      BY <2>1, <2>4
    <3>2. Len(q.done) <= q.length
      BY <1>3, <2>1
    <3>3. Len(q.done) \in Nat
      BY <1>2, <2>1
    <3>4. QED BY <3>1, <3>2, <3>3
  <2>5. QED BY <2>3, <2>4
<1>10. QED BY <1>3, <1>6, <1>7, <1>8, <1>9 DEF Plan

(* The advance itself: only at the bound revision, or found done already.  *)
LEMMA ReplaceAdvancedKeeps ==
  ASSUME GoalInv, NEW w \in Workers, replaceAdvanced(w)
  PROVE  GoalInv'
<1>1. PICK k \in AdvanceJob : k = workers[w] /\ k.pc = "replace"
  BY AdvancingJob DEF replaceAdvanced
<1>2. PICK a \in Actions : a = k.action
  BY DEF AdvanceJob
<1>3. JobOK(k)
  BY <1>1, AdvancingJob DEF GoalInv, WorkersOK, Jobs
<1>4. goalActions[a].status = "succeeded"
  BY <1>1, <1>2, <1>3 DEF JobOK, ProjectorOK
<1>5. PICK b \in Binding : b = goalActions[a].binding
  BY <1>4 DEF GoalInv, BindingsOK
<1>6. b.goal \in GoalIds /\ b.revision \in Nat \ {0}
  BY DEF Binding
<1>7. /\ Kept(b.goal, k.goal) /\ k.goal.revision = b.revision /\ k.goal.status = "active"
      /\ k.goal.plan.current
  BY <1>1, <1>2, <1>3, <1>5 DEF JobOK, AdvanceOK
<1>8. k.goal \in GoalType /\ k.tick \in Ticks /\ k.goal.plan \in Plan
  BY DEF AdvanceJob, GoalType
<1>9. bindingOf(w) = b /\ hostFingerprint(a) = <<a, b.revision>> /\ workers[w].action = a
  BY <1>1, <1>2, <1>5 DEF bindingOf, hostFingerprint
<1>10. UNCHANGED <<goalNames, goalActions>>
  BY DEF replaceAdvanced
<1>11. [pc |-> "settle", action |-> a] \in Jobs /\ Idle \in Jobs
  BY DEF Jobs, ProjectorJob
<1>12. CASE ~replaceReady(b.goal, b.partition, b.revision)
  <2>1. UNCHANGED <<goalVars, goalNames, goalActions, advanced>>
    BY <1>9, <1>10, <1>12 DEF replaceAdvanced
  <2>2. PICK job \in {Idle, [pc |-> "settle", action |-> a]} :
          /\ workers' = [workers EXCEPT ![w] = job]
          /\ job = Idle \/ (foundFor(b) /\ isExactHostAdvanceReplay(goals[b.goal], a))
    BY <1>9, <1>12 DEF replaceAdvanced, to
  <2>3. CASE job = Idle
    <3>1. \A j \in Jobs : j = job => JobOK(j)'
      BY <2>3, IdleOK
    <3>2. QED BY <1>11, <2>1, <2>2, <3>1, ReadKeeps
  <2>4. CASE /\ job = [pc |-> "settle", action |-> a]
             /\ foundFor(b) /\ isExactHostAdvanceReplay(goals[b.goal], a)
    <3>1. PICK g \in GoalType : g = goals[b.goal]
      BY <1>6, <2>4 DEF foundFor, GoalInv, GoalTypeOK
    <3>2. g.fingerprint = <<a, b.revision>> /\ goals[b.goal] # NoGoal
      BY <1>9, <2>4, <3>1 DEF isExactHostAdvanceReplay, foundFor
    <3>3. g.fingerprint[1] = a /\ g.fingerprint # NULL
      BY <1>6, <3>2, GoalAssumption
    <3>4. \E x \in advanced : x.action = a
      BY <1>6, <3>1, <3>2, <3>3 DEF GoalInv, FingerprintsOK
    <3>5. ASSUME NEW j \in Jobs, j = job PROVE JobOK(j)'
      BY <1>4, <2>1, <2>4, <3>4, <3>5 DEF JobOK, ProjectorOK, AdvanceOK, UpdateOK
    <3>6. QED BY <1>11, <2>1, <2>2, <3>5, ReadKeeps
  <2>5. QED BY <2>2, <2>3, <2>4
<1>13. CASE replaceReady(b.goal, b.partition, b.revision)
  <2>. DEFINE fp == <<a, b.revision>>
  <2>1. PICK plan : plan = completedStep(k.goal.plan, a)
    OBVIOUS
  <2>2. PICK status : status = IF Len(plan.done) = plan.length THEN "achieved" ELSE "active"
    OBVIOUS
  <2>3. PICK x : x = [action |-> a, revision |-> goals[b.goal].revision,
                      order |-> Cardinality(advanced)]
    OBVIOUS
  <2>4. /\ replaceGoal(b.goal, b.partition, b.revision, plan, status, k.tick, fp)
        /\ advanced' = advanced \cup {x}
        /\ workers' = [workers EXCEPT ![w] = [pc |-> "settle", action |-> a]]
    BY <1>1, <1>9, <1>13, <2>1, <2>2, <2>3 DEF replaceAdvanced, to
  <2>5. plan \in Plan
    BY <1>7, <1>8, <2>1, StepCompleted
  <2>6. status \in GoalStatuses /\ (status = "achieved" => Len(plan.done) = plan.length)
    BY <2>2 DEF GoalStatuses
  <2>7. goals[b.goal] = k.goal
    BY <1>7, <1>13 DEF replaceReady, Kept
  <2>8. isOpen(goals[b.goal])
    BY <1>7, <2>7 DEF isOpen
  <2>9. fp \in Prints
    BY <1>6 DEF Prints
  <2>10. /\ goals' \in [GoalIds -> GoalType \cup {NoGoal}]
         /\ \A i \in GoalIds : GoalMoves(i)
         /\ NamesOK' /\ RetiredGoalsClosed'
         /\ \A i \in GoalIds \ {b.goal} : goals'[i] = goals[i]
         /\ goals'[b.goal].fingerprint = fp
         /\ goals'[b.goal].revision = goals[b.goal].revision + 1
         /\ goals[b.goal].revision = b.revision
    <3>. HIDE DEF fp
    <3>1. replaceGoal(b.goal, b.partition, b.revision, plan, status, k.tick, fp)
      BY <2>4
    <3>2. UNCHANGED goalNames
      BY <1>10
    <3>3. /\ goals' \in [GoalIds -> GoalType \cup {NoGoal}]
          /\ \A i \in GoalIds : GoalMoves(i)
          /\ NamesOK' /\ RetiredGoalsClosed'
          /\ \A i \in GoalIds \ {b.goal} : goals'[i] = goals[i]
      BY <1>6, <1>8, <2>5, <2>6, <2>8, <2>9, <3>1, <3>2, ReplaceKeeps
    <3>4. /\ goals'[b.goal].fingerprint = fp
          /\ goals'[b.goal].revision = goals[b.goal].revision + 1
          /\ goals[b.goal].revision = b.revision
      BY <1>6, <3>1, ReplaceMarks
    <3>5. QED BY <3>3, <3>4
  <2>11. x \in Advance /\ x.action = a /\ x.revision = b.revision
    <3>1. Cardinality(advanced) \in Nat
      BY FS_CardinalityType DEF GoalInv, GoalTypeOK
    <3>2. QED BY <1>6, <2>3, <2>10, <3>1 DEF Advance
  <2>12. IsFiniteSet(advanced') /\ advanced' \subseteq Advance
    BY <2>4, <2>11, FS_AddElement DEF GoalInv, GoalTypeOK
  <2>13. GoalTypeOK'
    <3>1. workers' \in [Workers -> Jobs]
      BY <1>11, <2>4 DEF GoalInv, GoalTypeOK
    <3>2. UNCHANGED <<goalRetirements, nextGoalKey>>
      BY <2>4 DEF replaceGoal
    <3>3. QED BY <1>10, <2>10, <2>12, <3>1, <3>2 DEF GoalInv, GoalTypeOK
  <2>14. BindingsOK' /\ Onward
    BY <1>10, <2>4, <2>10, ActionsRest DEF Onward
  (* Had the Action advanced it before, the Goal had left this revision.   *)
  <2>15. \A y \in advanced : y.action # a
    <3>1. SUFFICES ASSUME NEW y \in advanced, y.action = a PROVE FALSE
      OBVIOUS
    <3>2. goals[b.goal] # NoGoal /\ goals[b.goal].revision = b.revision
      BY <1>13 DEF replaceReady
    <3>3. goals[b.goal].revision > b.revision
      BY <1>5, <3>1, <3>2 DEF GoalInv, AdvancedOK
    <3>4. QED BY <1>6, <3>2, <3>3
  <2>16. AdvancedOnce'
    BY <1>5, <1>10, <2>4, <2>11, <2>15 DEF AdvancedOnce, GoalInv, ActionAdvancesOnce
  <2>17. AdvancedOK'
    <3>1. SUFFICES ASSUME NEW y \in advanced'
                   PROVE  /\ goalActions[y.action].status = "succeeded"
                          /\ LET c == goalActions[y.action].binding IN
                             goals'[c.goal] # NoGoal => goals'[c.goal].revision > c.revision
      BY <1>10 DEF AdvancedOK
    <3>2. CASE y = x
      BY <1>4, <1>5, <1>6, <2>10, <2>11, <3>2
    <3>3. CASE y \in advanced
      <4>1. y.action \in Actions /\ goalActions[y.action].status = "succeeded"
        BY <3>3 DEF GoalInv, AdvancedOK, GoalTypeOK, Advance
      <4>2. PICK c \in Binding : c = goalActions[y.action].binding
        BY <4>1 DEF GoalInv, BindingsOK
      <4>3. c.goal \in GoalIds /\ c.goal \in goalNames /\ c.revision \in Nat
        BY <4>1, <4>2 DEF Binding, GoalInv, BindingsOK
      <4>4. goals[c.goal] # NoGoal =>
              goals[c.goal].revision > c.revision /\ goals[c.goal].revision \in Nat
        BY <3>3, <4>2, <4>3 DEF GoalInv, AdvancedOK, GoalTypeOK, GoalType
      <4>5. GoalMoves(c.goal)
        BY <4>3, <2>10
      <4>6. goals'[c.goal] # NoGoal => goals'[c.goal].revision > c.revision
        BY <4>3, <4>4, <4>5 DEF GoalMoves
      <4>7. QED BY <4>1, <4>2, <4>6
    <3>4. QED BY <2>4, <3>1, <3>2, <3>3
  <2>18. FingerprintsOK'
    <3>1. SUFFICES ASSUME NEW i \in GoalIds, goals'[i] # NoGoal, goals'[i].fingerprint # NULL
                   PROVE  \E y \in advanced' : y.action = goals'[i].fingerprint[1]
      BY DEF FingerprintsOK
    <3>2. CASE i = b.goal
      BY <2>4, <2>10, <2>11, <3>2
    <3>3. CASE i # b.goal
      BY <2>4, <2>10, <3>1, <3>3 DEF GoalInv, FingerprintsOK
    <3>4. QED BY <3>2, <3>3
  <2>19. ProjectionTruthful'
    BY <1>4, <1>10, <2>4, <2>11 DEF GoalInv, ActionAdvancesOnce, ProjectionTruthful
  <2>20. WorkersOK'
    <3>1. /\ \A v \in Workers \ {w} : workers'[v] = workers[v]
          /\ workers'[w] = [pc |-> "settle", action |-> a]
      BY <2>4 DEF GoalInv, GoalTypeOK
    <3>2. ASSUME NEW j \in Jobs, j = [pc |-> "settle", action |-> a] PROVE JobOK(j)'
      BY <1>4, <1>10, <2>4, <2>11, <3>2 DEF JobOK, ProjectorOK, AdvanceOK, UpdateOK
    <3>3. QED BY <2>13, <2>14, <3>1, <3>2, WorkerSteps DEF GoalInv
  <2>21. QED BY <2>10, <2>13, <2>14, <2>16, <2>17, <2>18, <2>19, <2>20 DEF GoalInv, ActionAdvancesOnce
<1>14. QED BY <1>12, <1>13

LEMMA GoalInitKeeps == ServiceInit => GoalInv
<1>1. SUFFICES ASSUME ServiceInit PROVE GoalInv
  OBVIOUS
<1>2. GoalTypeOK
  <2>1. goalActions \in [Actions -> BoundAction]
    BY <1>1 DEF ServiceInit, BoundAction
  <2>2. IsFiniteSet(advanced)
    BY <1>1, FS_EmptySet DEF ServiceInit
  <2>3. QED BY <1>1, <2>1, <2>2 DEF ServiceInit, GoalInit, GoalTypeOK, Jobs
<1>3. NamesOK /\ BindingsOK /\ AdvancedOK /\ FingerprintsOK
  BY <1>1 DEF ServiceInit, GoalInit, NamesOK, BindingsOK, AdvancedOK, FingerprintsOK
<1>4. WorkersOK
  <2>1. \A j \in Jobs : j = Idle => JobOK(j)
    BY DEF Idle, JobOK, ProjectorOK, AdvanceOK, UpdateOK
  <2>2. QED BY <1>1, <2>1 DEF ServiceInit, WorkersOK
<1>5. AdvancedOnce /\ ProjectionTruthful
  BY <1>1 DEF ServiceInit, AdvancedOnce, ProjectionTruthful
<1>6. RetiredGoalsClosed
  <2>1. OpenGoals = {}
    BY <1>1 DEF ServiceInit, GoalInit, OpenGoals, isOpen, NoGoal
  <2>2. Cardinality(OpenGoals) <= MaxOpenGoals
    BY <2>1, FS_EmptySet, GoalAssumption
  <2>3. \A gid \in GoalIds : goals[gid] = NoGoal
    BY <1>1 DEF ServiceInit, GoalInit
  <2>4. QED BY <2>1, <2>2, <2>3 DEF RetiredGoalsClosed
<1>7. QED BY <1>2, <1>3, <1>4, <1>5, <1>6 DEF GoalInv, ActionAdvancesOnce

LEMMA GoalRestKeeps == ASSUME GoalInv, UNCHANGED serviceVars PROVE GoalInv'
<1>1. GoalTypeOK'
  BY DEF GoalInv, GoalTypeOK, serviceVars
<1>2. Onward /\ NamesOK' /\ BindingsOK' /\ FingerprintsOK' /\ RetiredGoalsClosed' /\ ProjectionTruthful'
  BY GoalsRest, ActionsRest DEF serviceVars, Onward
<1>3. WorkersOK'
  BY <1>1, <1>2, WorkersRest DEF GoalInv, serviceVars
<1>4. QED BY <1>1, <1>2, <1>3, Together DEF serviceVars

LEMMA GoalNextKeeps == GoalInv /\ [ServiceNext]_serviceVars => GoalInv'
<1>1. SUFFICES ASSUME GoalInv, [ServiceNext]_serviceVars PROVE GoalInv'
  OBVIOUS
<1>2. CASE UNCHANGED serviceVars
  BY <1>1, <1>2, GoalRestKeeps
<1>3. CASE \E gid \in GoalIds, partition \in Partitions, plan \in Drafts, tick \in Ticks :
             StoreStep(nameGoal(gid, partition, plan, tick))
  BY <1>1, <1>3, NameKeeps
<1>4. CASE /\ UNCHANGED goalNames
           /\ \E partition \in Partitions, retirement \in RetirementIds, tick \in Ticks :
                StoreStep(retireGoals(partition, retirement, tick))
  BY <1>1, <1>4, RetireKeeps
<1>5. CASE UNCHANGED goalNames /\ \E batch \in SUBSET GoalIds : StoreStep(purgeGoals(batch))
  BY <1>1, <1>5, PurgeKeeps
<1>6. CASE \E a \in Actions : \/ \E gid \in GoalIds : admitBound(a, gid)
                              \/ \E status \in {"succeeded", "failed"} : settleBound(a, status)
  BY <1>1, <1>6, AdmitBoundKeeps, SettleBoundKeeps
<1>7. ASSUME NEW w \in Workers,
             \/ \E a \in Actions : projectPending(w, a)
             \/ \E tick \in Ticks : readForAdvance(w, tick)
             \/ verifyAdvance(w) \/ replaceAdvanced(w) \/ settleProjection(w)
             \/ \E gid \in GoalIds, plan \in Drafts, status \in GoalStatuses, tick \in Ticks :
                  readForUpdate(w, gid, plan, status, tick)
             \/ replaceUpdated(w) \/ forget(w)
      PROVE  GoalInv'
  <2>1. CASE \E a \in Actions : projectPending(w, a)
    BY <1>1, <2>1, ProjectPendingKeeps
  <2>2. CASE \E tick \in Ticks : readForAdvance(w, tick)
    BY <1>1, <2>2, ReadForAdvanceKeeps
  <2>3. CASE \E gid \in GoalIds, plan \in Drafts, status \in GoalStatuses, tick \in Ticks :
               readForUpdate(w, gid, plan, status, tick)
    BY <1>1, <2>3, ReadForUpdateKeeps
  <2>4. CASE verifyAdvance(w) \/ replaceAdvanced(w) \/ settleProjection(w)
    BY <1>1, <2>4, VerifyAdvanceKeeps, ReplaceAdvancedKeeps, SettleProjectionKeeps
  <2>5. CASE replaceUpdated(w) \/ forget(w)
    BY <1>1, <2>5, ReplaceUpdatedKeeps, ForgetKeeps
  <2>6. QED BY <1>7, <2>1, <2>2, <2>3, <2>4, <2>5
<1>8. QED BY <1>1, <1>2, <1>3, <1>4, <1>5, <1>6, <1>7 DEF ServiceNext

(* However the projector's workers, the callers of update, the retirement  *)
(* of authorities and purges interleave, stop and retry: an Action         *)
(* advances its Goal at most once and from the revision it was bound to,   *)
(* its projection tells whether it did, and a retired authority keeps and  *)
(* regains no open Goal (advanceFromHost, update, retireAuthority).        *)
THEOREM ActionAdvancesItsGoalOnce == ServiceSpec => []ActionAdvancesOnce
<1>1. ServiceInit => GoalInv
  BY GoalInitKeeps
<1>2. GoalInv /\ [ServiceNext]_serviceVars => GoalInv'
  BY GoalNextKeeps
<1>3. GoalInv => ActionAdvancesOnce
  BY DEF GoalInv
<1>4. QED BY <1>1, <1>2, <1>3, PTL DEF ServiceSpec

-----------------------------------------------------------------------------
(* The client's event stream: the inductive invariant of NothingSkipped. *)

FrameRecord == [type : {"event", "cursor", "gap"}, revision : Nat]
HandlerRecord ==
  [at : {"gone", "checking", "reading", "live", "waiting", "taken"}, cursor : Nat, queue : Seq(Nat),
   admits : BOOLEAN, next : Nat, item : Nat]

DeliveryTypeOK ==
  /\ latest \in Nat /\ purged \in Nat
  /\ handler \in HandlerRecord
  /\ wire \in Seq(FrameRecord)
  /\ reader \in [state : {"connecting", "reading", "gap", "disconnected"}, attempt : Nat, lastEventId : Nat]
  /\ received \in Seq(Nat)

(* A frame tells all that its reader may see of the events it moves past.  *)
Follows(p, f) ==
  /\ p <= f.revision
  /\ f.type = "event" => p < f.revision /\ f.revision \notin Hidden
  /\ \A r \in p + 1 .. f.revision : r \in Hidden \/ (f.type = "event" /\ r = f.revision)

(* Frames that lead on from event p without a gap, and where they end.     *)
Chain(p, frames) ==
  \A i \in 1 .. Len(frames) :
    frames[i].type # "gap" => Follows(IF i = 1 THEN p ELSE frames[i - 1].revision, frames[i])
End(p, frames) == IF frames = <<>> THEN p ELSE frames[Len(frames)].revision

WireOK ==
  /\ Chain(reader.lastEventId, wire)
  /\ \A i \in 1 .. Len(wire) : /\ wire[i].revision <= latest
                               /\ wire[i].type = "gap" => i = Len(wire) /\ handler = Gone

(* The queue is a run of consecutive events, up to the last one offered    *)
(* while it admits; once the replay is over it starts with an event that   *)
(* has been written, or the next one.                                      *)
QueueOK(h) ==
  /\ \A i \in 1 .. Len(h.queue) : h.queue[i] = h.queue[1] + i - 1 /\ h.queue[i] < h.next
  /\ h.admits /\ h.queue # <<>> => h.queue[1] + Len(h.queue) = h.next
  /\ h.at = "waiting" => h.queue = <<>>
  /\ h.at \in {"live", "waiting", "taken"} =>
       LET offered == IF h.at = "taken" THEN h.item ELSE h.cursor
       IN  IF h.queue # <<>> THEN h.queue[1] <= offered + 1 ELSE h.admits => h.next <= offered + 1
  /\ h.at = "taken" => h.item <= h.cursor + 1 /\ h.item < h.next

HandlerOK ==
  handler # Gone =>
    /\ handler.at # "gone" /\ reader.state = "reading"
    /\ End(reader.lastEventId, wire) = handler.cursor /\ handler.cursor <= latest /\ handler.next <= latest + 1
    /\ handler.at = "reading" => purged <= handler.cursor
    /\ QueueOK(handler)

ReaderOK ==
  /\ reader.lastEventId <= latest
  /\ reader.state = "connecting" => wire = <<>> /\ handler = Gone

DeliveryInv == DeliveryTypeOK /\ WireOK /\ HandlerOK /\ ReaderOK /\ NothingSkipped

(* Frames that lead on to frames that lead on.                             *)
LEMMA ChainConcat ==
  ASSUME NEW p, NEW w \in Seq(FrameRecord), NEW g \in Seq(FrameRecord), Chain(p, w), Chain(End(p, w), g)
  PROVE  Chain(p, w \o g) /\ End(p, w \o g) = End(End(p, w), g)
<1>1. /\ w \o g \in Seq(FrameRecord) /\ Len(w) \in Nat /\ Len(g) \in Nat /\ Len(w \o g) = Len(w) + Len(g)
      /\ \A i \in 1 .. Len(w) + Len(g) : (w \o g)[i] = IF i <= Len(w) THEN w[i] ELSE g[i - Len(w)]
  BY ConcatProperties, LenProperties
<1>2. (w = <<>> <=> Len(w) = 0) /\ (g = <<>> <=> Len(g) = 0) /\ (w \o g = <<>> <=> Len(w) + Len(g) = 0)
  BY <1>1, EmptySeq
<1>3. End(p, w) = (IF Len(w) = 0 THEN p ELSE w[Len(w)].revision)
  BY <1>2 DEF End
<1>4. ASSUME NEW i \in 1 .. Len(w) + Len(g), (w \o g)[i].type # "gap"
      PROVE  Follows(IF i = 1 THEN p ELSE (w \o g)[i - 1].revision, (w \o g)[i])
  <2>1. CASE i <= Len(w)
    <3>1. i \in 1 .. Len(w) /\ (w \o g)[i] = w[i] /\ (i # 1 => (w \o g)[i - 1] = w[i - 1])
      BY <1>1, <2>1
    <3>2. QED BY <1>4, <3>1 DEF Chain
  <2>2. CASE i > Len(w)
    <3>1. i - Len(w) \in 1 .. Len(g) /\ (w \o g)[i] = g[i - Len(w)]
      BY <1>1, <2>2
    <3>2. CASE i = Len(w) + 1
      <4>1. (IF i = 1 THEN p ELSE (w \o g)[i - 1].revision) = End(p, w)
        BY <1>1, <1>3, <3>2
      <4>2. i - Len(w) = 1
        BY <1>1, <3>2
      <4>3. QED BY <1>4, <3>1, <4>1, <4>2 DEF Chain
    <3>3. CASE i # Len(w) + 1
      <4>1. i # 1 /\ i - Len(w) # 1 /\ (w \o g)[i - 1] = g[(i - Len(w)) - 1]
        BY <1>1, <2>2, <3>3
      <4>2. QED BY <1>4, <3>1, <4>1 DEF Chain
    <3>4. QED BY <3>2, <3>3
  <2>3. QED BY <1>1, <2>1, <2>2
<1>5. Chain(p, w \o g)
  BY <1>1, <1>4 DEF Chain
<1>6. End(p, w \o g) = End(End(p, w), g)
  BY <1>1, <1>2, <1>3 DEF End
<1>7. QED BY <1>5, <1>6

(* The frames of a page: its visible events in order, and its cursor.      *)
LEMMA PageChain ==
  ASSUME NEW p \in Nat, NEW upto \in Nat, p <= upto, NEW shown \in InOrder({r \in p + 1 .. upto : r \notin Hidden}),
         NEW frames, frames = [i \in DOMAIN shown |-> Frame("event", shown[i])]
  PROVE  /\ frames \in Seq(FrameRecord) /\ Chain(p, frames)
         /\ \A i \in 1 .. Len(frames) : frames[i].type # "gap" /\ frames[i].revision <= upto
         /\ Follows(End(p, frames), Frame("cursor", upto))
<1> DEFINE S == {r \in p + 1 .. upto : r \notin Hidden}
           n == Cardinality(S)
<1>1. n \in Nat
  <2>1. IsFiniteSet(p + 1 .. upto) /\ S \subseteq p + 1 .. upto
    BY FS_Interval
  <2>2. QED BY <2>1, FS_Subset, FS_CardinalityType
<1>2. /\ shown \in [1 .. n -> S] /\ \A i, j \in 1 .. n : i < j => shown[i] < shown[j]
      /\ \A r \in S : \E i \in 1 .. n : shown[i] = r
  BY DEF InOrder
<1> HIDE DEF n
<1>3. \A i \in 1 .. n : /\ shown[i] \in S /\ shown[i] \in p + 1 .. upto /\ shown[i] \notin Hidden /\ shown[i] \in Nat
                        /\ frames[i] = Frame("event", shown[i])
  <2>1. \A i \in 1 .. n : shown[i] \in S /\ frames[i] = Frame("event", shown[i])
    BY <1>2
  <2>2. QED BY <2>1
<1>4. frames \in Seq(FrameRecord) /\ Len(frames) = n
  <2>1. frames \in [1 .. n -> FrameRecord]
    BY <1>2, <1>3 DEF Frame, FrameRecord
  <2>2. QED BY <1>1, <2>1, LenProperties
<1>5. ASSUME NEW i \in 1 .. n PROVE frames[i].type = "event" /\ frames[i].revision = shown[i]
  <2>1. frames[i] = Frame("event", shown[i])
    BY <1>3
  <2>2. \A t, r : Frame(t, r).type = t /\ Frame(t, r).revision = r
    BY DEF Frame
  <2>3. QED BY <2>1, <2>2
<1>6. ASSUME NEW i \in 1 .. n PROVE Follows(IF i = 1 THEN p ELSE frames[i - 1].revision, frames[i])
  <2> DEFINE q == IF i = 1 THEN p ELSE shown[i - 1]
  <2>1. i # 1 => i - 1 \in 1 .. n /\ i - 1 < i
    BY <1>1
  <2>2. q \in Nat /\ q < shown[i] /\ q >= p
    BY <1>2, <1>3, <2>1
  <2>3. ASSUME NEW r \in q + 1 .. shown[i], r \notin Hidden PROVE r = shown[i]
    <3>1. r \in S
      BY <1>3, <2>2, <2>3
    <3>2. PICK j \in 1 .. n : shown[j] = r
      BY <1>2, <3>1
    <3>3. ~(j > i)
      BY <1>2, <1>3, <2>3, <3>2
    <3>4. j < i => i # 1 /\ (j = i - 1 \/ j < i - 1)
      BY <1>1
    <3>5. ~(j < i)
      BY <1>2, <1>3, <2>1, <2>3, <3>2, <3>4
    <3>6. QED BY <1>1, <3>2, <3>3, <3>5
  <2>4. (IF i = 1 THEN p ELSE frames[i - 1].revision) = q
    BY <1>5, <2>1
  <2> HIDE DEF q
  <2>5. Follows(q, frames[i])
    BY <1>3, <1>5, <2>2, <2>3 DEF Follows
  <2>6. QED BY <2>4, <2>5
<1>7. Chain(p, frames) /\ \A i \in 1 .. Len(frames) : frames[i].type # "gap" /\ frames[i].revision <= upto
  BY <1>3, <1>4, <1>5, <1>6 DEF Chain
<1>8. Follows(End(p, frames), Frame("cursor", upto))
  <2> DEFINE e == IF n = 0 THEN p ELSE shown[n]
  <2>1. End(p, frames) = e
    BY <1>1, <1>4, <1>5, EmptySeq DEF End
  <2>2. e \in Nat /\ p <= e /\ e <= upto
    BY <1>1, <1>3
  <2>3. ASSUME NEW r \in e + 1 .. upto, r \notin Hidden PROVE FALSE
    <3>1. r \in S
      BY <2>2, <2>3
    <3>2. PICK j \in 1 .. n : shown[j] = r
      BY <1>2, <3>1
    <3>3. n # 0 /\ (j = n \/ j < n)
      BY <1>1
    <3>4. r <= shown[n]
      BY <1>1, <1>2, <1>3, <3>2, <3>3
    <3>5. QED BY <1>1, <1>3, <2>3, <3>3, <3>4
  <2> HIDE DEF e
  <2>4. Follows(e, Frame("cursor", upto))
    BY <2>2, <2>3 DEF Follows, Frame
  <2>5. QED BY <2>1, <2>4
<1>9. QED BY <1>4, <1>7, <1>8

(* A subsequence from the front is the sequence, cut off.                  *)
LEMMA Prefix ==
  ASSUME NEW T, NEW s \in Seq(T), NEW k \in 0 .. Len(s)
  PROVE  SubSeq(s, 1, k) \in Seq(T) /\ Len(SubSeq(s, 1, k)) = k /\ \A i \in 1 .. k : SubSeq(s, 1, k)[i] = s[i]
<1>1. Len(s) \in Nat /\ \A i \in 1 .. Len(s) : s[i] \in T
  BY LenProperties, ElementOfSeq
<1>2. k \in Nat /\ \A i \in 1 .. k : s[i] \in T
  BY <1>1
<1>3. /\ SubSeq(s, 1, k) \in Seq(T) /\ Len(SubSeq(s, 1, k)) = (IF 1 <= k THEN k - 1 + 1 ELSE 0)
      /\ \A i \in 1 .. k - 1 + 1 : SubSeq(s, 1, k)[i] = s[1 + i - 1]
  BY <1>2, SubSeqProperties
<1>4. k - 1 + 1 = k /\ (IF 1 <= k THEN k - 1 + 1 ELSE 0) = k /\ \A i \in 1 .. k : 1 + i - 1 = i
  BY <1>2
<1>5. QED BY <1>3, <1>4

(* The first frames of a chain are one.                                    *)
LEMMA ChainPrefix ==
  ASSUME NEW p, NEW w \in Seq(FrameRecord), NEW k \in 0 .. Len(w), Chain(p, w)
  PROVE  Chain(p, SubSeq(w, 1, k))
<1>1. Len(SubSeq(w, 1, k)) = k /\ \A i \in 1 .. k : SubSeq(w, 1, k)[i] = w[i]
  BY Prefix
<1>2. Len(w) \in Nat /\ k \in Nat /\ k <= Len(w)
  BY LenProperties
<1>3. \A i \in 1 .. k : i \in 1 .. Len(w) /\ (i # 1 => i - 1 \in 1 .. k)
  BY <1>2
<1>4. QED BY <1>1, <1>3 DEF Chain

(* The handler writes frames that lead on from its cursor.                 *)
LEMMA WireExtended ==
  ASSUME DeliveryInv, handler # Gone, NEW g \in Seq(FrameRecord), Chain(handler.cursor, g),
         \A i \in 1 .. Len(g) : g[i].revision <= latest /\ (g[i].type = "gap" => i = Len(g) /\ handler' = Gone),
         wire' = wire \o g, UNCHANGED <<latest, reader>>
  PROVE  wire' \in Seq(FrameRecord) /\ WireOK' /\ End(reader.lastEventId, wire)' = End(handler.cursor, g)
<1> DEFINE p == reader.lastEventId
<1>1. wire \in Seq(FrameRecord) /\ Len(wire) \in Nat /\ Len(g) \in Nat
  BY LenProperties DEF DeliveryInv, DeliveryTypeOK
<1>2. Chain(p, wire) /\ End(p, wire) = handler.cursor
  BY DEF DeliveryInv, WireOK, HandlerOK
<1>3. Chain(p, wire \o g) /\ End(p, wire \o g) = End(handler.cursor, g)
  BY <1>1, <1>2, ChainConcat
<1>4. /\ wire \o g \in Seq(FrameRecord) /\ Len(wire \o g) = Len(wire) + Len(g)
      /\ \A i \in 1 .. Len(wire) + Len(g) : (wire \o g)[i] = IF i <= Len(wire) THEN wire[i] ELSE g[i - Len(wire)]
  BY <1>1, ConcatProperties
<1>5. \A i \in 1 .. Len(wire) : wire[i].revision <= latest /\ wire[i].type # "gap"
  BY DEF DeliveryInv, WireOK
<1>6. ASSUME NEW i \in 1 .. Len(wire) + Len(g)
      PROVE  /\ (wire \o g)[i].revision <= latest
             /\ (wire \o g)[i].type = "gap" => i = Len(wire) + Len(g) /\ handler' = Gone
  <2>1. CASE i <= Len(wire)
    <3>1. i \in 1 .. Len(wire) /\ (wire \o g)[i] = wire[i]
      BY <1>1, <1>4, <2>1
    <3>2. QED BY <3>1, <1>5
  <2>2. CASE i > Len(wire)
    <3>1. i - Len(wire) \in 1 .. Len(g) /\ (wire \o g)[i] = g[i - Len(wire)]
      BY <1>1, <1>4, <2>2
    <3>2. QED BY <1>1, <3>1
  <2>3. QED BY <1>1, <2>1, <2>2
<1>7. reader'.lastEventId = p /\ latest' = latest
  OBVIOUS
<1>8. WireOK'
  BY <1>3, <1>4, <1>6, <1>7 DEF WireOK
<1>9. QED BY <1>3, <1>4, <1>7, <1>8

(* One more frame.                                                         *)
LEMMA FrameWritten ==
  ASSUME DeliveryInv, handler # Gone, NEW f \in FrameRecord, f.type # "gap" => Follows(handler.cursor, f),
         f.revision <= latest, f.type = "gap" => handler' = Gone,
         wire' = Append(wire, f), UNCHANGED <<latest, reader>>
  PROVE  wire' \in Seq(FrameRecord) /\ WireOK' /\ End(reader.lastEventId, wire)' = f.revision
<1> DEFINE g == <<f>>
<1>1. g \in Seq(FrameRecord) /\ Len(g) = 1 /\ g[1] = f /\ g # <<>>
  OBVIOUS
<1>2. wire' = wire \o g
  BY AppendIsConcat DEF DeliveryInv, DeliveryTypeOK
<1>3. End(handler.cursor, g) = f.revision
  BY <1>1 DEF End
<1> HIDE DEF g
<1>4. Chain(handler.cursor, g)
  BY <1>1 DEF Chain
<1>5. \A i \in 1 .. Len(g) : g[i].revision <= latest /\ (g[i].type = "gap" => i = Len(g) /\ handler' = Gone)
  BY <1>1
<1>6. QED BY <1>1, <1>2, <1>3, <1>4, <1>5, WireExtended

(* A step of the handler leaves the events and the client alone.           *)
LEMMA HandlerStep ==
  ASSUME DeliveryInv, handler # Gone, handler' \in HandlerRecord, wire' \in Seq(FrameRecord),
         WireOK', HandlerOK', UNCHANGED <<latest, purged, reader, received>>
  PROVE  DeliveryInv'
<1>1. reader.state = "reading"
  BY DEF DeliveryInv, HandlerOK
<1>2. DeliveryTypeOK'
  BY DEF DeliveryInv, DeliveryTypeOK
<1>3. ReaderOK' /\ NothingSkipped'
  BY <1>1 DEF DeliveryInv, ReaderOK, NothingSkipped
<1>4. QED BY <1>2, <1>3 DEF DeliveryInv

(* No handler is a value of the handler variable.                          *)
LEMMA GoneRecord == Gone \in HandlerRecord
<1>1. <<>> \in Seq(Nat)
  BY EmptySeq
<1>2. QED BY <1>1 DEF Gone, HandlerRecord

(* A frame is a record of its type and its revision.                       *)
LEMMA FrameFields ==
  ASSUME NEW t \in {"event", "cursor", "gap"}, NEW r \in Nat
  PROVE  Frame(t, r) \in FrameRecord /\ Frame(t, r).type = t /\ Frame(t, r).revision = r
BY DEF Frame, FrameRecord

(* The handler ends, and what it wrote remains.                            *)
LEMMA HandlerEnds ==
  ASSUME DeliveryInv, handler # Gone, handler' = Gone, wire' \in Seq(FrameRecord), WireOK',
         UNCHANGED <<latest, purged, reader, received>>
  PROVE  DeliveryInv'
<1>1. HandlerOK'
  BY DEF HandlerOK
<1>2. QED BY <1>1, GoneRecord, HandlerStep

(* The wire is left alone.                                                 *)
LEMMA WireKept ==
  ASSUME DeliveryInv, handler # Gone, UNCHANGED <<latest, wire, reader>>
  PROVE  wire' \in Seq(FrameRecord) /\ WireOK' /\ End(reader.lastEventId, wire)' = handler.cursor
BY DEF DeliveryInv, DeliveryTypeOK, WireOK, HandlerOK

(* A handler at some step of its work is there.                            *)
LEMMA AtCases == handler.at # "gone" => handler # Gone
BY DEF Gone

(* The actor commits one more event.                                       *)
LEMMA EventsSafe == ASSUME DeliveryInv, appendCanonicalEvent PROVE DeliveryInv'
<1>1. latest \in Nat /\ latest' = latest + 1
  BY DEF DeliveryInv, DeliveryTypeOK, appendCanonicalEvent
<1>2. purged' = purged /\ handler' = handler /\ wire' = wire /\ reader' = reader /\ received' = received
  BY DEF appendCanonicalEvent
<1>3. DeliveryTypeOK'
  BY <1>1, <1>2 DEF DeliveryInv, DeliveryTypeOK
<1>4. \A i \in 1 .. Len(wire) : wire[i].revision \in Nat
  <2>1. \A i \in 1 .. Len(wire) : wire[i] \in FrameRecord
    BY ElementOfSeq DEF DeliveryInv, DeliveryTypeOK
  <2>2. QED BY <2>1 DEF FrameRecord
<1>5. \A i \in 1 .. Len(wire) : wire[i].revision <= latest'
  BY <1>1, <1>4 DEF DeliveryInv, WireOK
<1>6. WireOK'
  BY <1>2, <1>5 DEF DeliveryInv, WireOK
<1>7. handler.cursor \in Nat /\ handler.next \in Nat /\ reader.lastEventId \in Nat
  BY DEF DeliveryInv, DeliveryTypeOK, HandlerRecord
<1>8. HandlerOK'
  <2>1. handler # Gone => handler.cursor <= latest' /\ handler.next <= latest' + 1
    BY <1>1, <1>7 DEF DeliveryInv, HandlerOK
  <2>2. QED BY <1>2, <2>1 DEF DeliveryInv, HandlerOK
<1>9. ReaderOK' /\ NothingSkipped'
  BY <1>1, <1>2, <1>7 DEF DeliveryInv, ReaderOK, NothingSkipped
<1>10. QED BY <1>3, <1>6, <1>8, <1>9 DEF DeliveryInv

(* A purge outside replayEvents' two reads.                                *)
LEMMA PurgesSafe == ASSUME DeliveryInv, ~PurgeAnywhere, purge PROVE DeliveryInv'
<1>1. handler.at # "reading" /\ purged' \in Nat
  BY DEF DeliveryInv, DeliveryTypeOK, purge
<1>2. latest' = latest /\ handler' = handler /\ wire' = wire /\ reader' = reader /\ received' = received
  BY DEF purge
<1>3. DeliveryTypeOK'
  BY <1>1, <1>2 DEF DeliveryInv, DeliveryTypeOK
<1>4. WireOK' /\ ReaderOK' /\ NothingSkipped'
  BY <1>2 DEF DeliveryInv, WireOK, ReaderOK, NothingSkipped
<1>5. HandlerOK'
  BY <1>1, <1>2 DEF DeliveryInv, HandlerOK
<1>6. QED BY <1>3, <1>4, <1>5 DEF DeliveryInv

(* A new subscription misses nothing that the replay will not read.        *)
LEMMA ConnectsSafe == ASSUME DeliveryInv, connect PROVE DeliveryInv'
<1>1. /\ reader.state = "connecting" /\ wire = <<>> /\ wire' = wire /\ latest' = latest
      /\ purged' = purged /\ received' = received
  BY DEF DeliveryInv, ReaderOK, connect
<1>2. PICK h \in HandlerRecord :
        /\ handler' = h /\ h.at = "checking" /\ h.cursor = reader.lastEventId /\ h.queue = <<>>
        /\ h.admits = TRUE /\ h.next = latest + 1 /\ h.item = 0
  <2>1. <<>> \in Seq(Nat) /\ latest + 1 \in Nat /\ reader.lastEventId \in Nat
    BY EmptySeq DEF DeliveryInv, DeliveryTypeOK
  <2>2. [at |-> "checking", cursor |-> reader.lastEventId, queue |-> <<>>, admits |-> TRUE,
         next |-> latest + 1, item |-> 0] \in HandlerRecord
    BY <2>1 DEF HandlerRecord
  <2>3. QED BY <2>2 DEF connect
<1>3. reader'.lastEventId = reader.lastEventId /\ reader'.state = "reading"
      /\ reader' \in [state : {"connecting", "reading", "gap", "disconnected"}, attempt : Nat, lastEventId : Nat]
  BY DEF DeliveryInv, DeliveryTypeOK, connect
<1>4. DeliveryTypeOK'
  BY <1>1, <1>2, <1>3 DEF DeliveryInv, DeliveryTypeOK
<1>5. Len(<<>>) = 0
  BY EmptySeq
<1>6. WireOK'
  BY <1>1, <1>5 DEF WireOK, Chain
<1>7. QueueOK(h)
  BY <1>2, <1>5 DEF QueueOK
<1>8. HandlerOK'
  <2>1. End(reader.lastEventId, wire) = reader.lastEventId
    BY <1>1 DEF End
  <2>2. h.cursor <= latest /\ h.next <= latest + 1
    BY <1>2 DEF DeliveryInv, DeliveryTypeOK, ReaderOK
  <2>3. QED BY <1>1, <1>2, <1>3, <1>7, <2>1, <2>2 DEF HandlerOK
<1>9. ReaderOK' /\ NothingSkipped'
  BY <1>1, <1>3 DEF DeliveryInv, ReaderOK, NothingSkipped
<1>10. QED BY <1>4, <1>6, <1>8, <1>9 DEF DeliveryInv

(* An event is taken or queued behind its predecessor, or the queue closes. *)
LEMMA PushesSafe == ASSUME DeliveryInv, push PROVE DeliveryInv'
<1> DEFINE event == handler.next
<1>1. handler \in HandlerRecord /\ latest \in Nat /\ handler # Gone /\ handler.admits /\ event <= latest
  BY DEF DeliveryInv, DeliveryTypeOK, push
<1>2. PICK h \in HandlerRecord : h = handler
  BY <1>1
<1>3. /\ h.queue \in Seq(Nat) /\ Len(h.queue) \in Nat /\ h.next \in Nat /\ h.cursor \in Nat /\ h.item \in Nat
      /\ h.at # "gone" /\ h.admits /\ h.next <= latest
  BY <1>1, <1>2, LenProperties DEF HandlerRecord, DeliveryInv, HandlerOK
<1>4. QueueOK(h) /\ h.cursor <= latest /\ (h.at = "reading" => purged <= h.cursor)
  BY <1>1, <1>2 DEF DeliveryInv, HandlerOK
<1>5. UNCHANGED <<latest, purged, wire, reader, received>>
  BY DEF push
<1>6. PICK k \in HandlerRecord :
        /\ handler' = k /\ k.next = h.next + 1 /\ k.cursor = h.cursor
        /\ \/ /\ k.admits = FALSE /\ k.at = h.at /\ k.queue = h.queue /\ k.item = h.item
           \/ /\ h.at = "waiting" /\ k.admits = h.admits /\ k.at = "taken" /\ k.item = h.next /\ k.queue = h.queue
           \/ /\ h.at # "waiting" /\ k.admits = h.admits /\ k.at = h.at /\ k.item = h.item
              /\ k.queue = Append(h.queue, h.next)
  <2>1. Append(h.queue, h.next) \in Seq(Nat) /\ h.next + 1 \in Nat
    BY <1>3, AppendProperties
  <2>2. [[h EXCEPT !.next = @ + 1] EXCEPT !.admits = FALSE] \in HandlerRecord
    BY <2>1 DEF HandlerRecord
  <2>3. [[h EXCEPT !.next = @ + 1] EXCEPT !.at = "taken", !.item = h.next] \in HandlerRecord
    BY <2>1, <1>3 DEF HandlerRecord
  <2>4. [[h EXCEPT !.next = @ + 1] EXCEPT !.queue = Append(@, h.next)] \in HandlerRecord
    BY <2>1 DEF HandlerRecord
  <2>5. \/ handler' = [[h EXCEPT !.next = @ + 1] EXCEPT !.admits = FALSE]
        \/ h.at = "waiting" /\ handler' = [[h EXCEPT !.next = @ + 1] EXCEPT !.at = "taken", !.item = h.next]
        \/ h.at # "waiting" /\ handler' = [[h EXCEPT !.next = @ + 1] EXCEPT !.queue = Append(@, h.next)]
    BY <1>2 DEF push
  <2>6. CASE handler' = [[h EXCEPT !.next = @ + 1] EXCEPT !.admits = FALSE]
    BY <2>2, <2>6 DEF HandlerRecord
  <2>7. CASE h.at = "waiting" /\ handler' = [[h EXCEPT !.next = @ + 1] EXCEPT !.at = "taken", !.item = h.next]
    BY <2>3, <2>7 DEF HandlerRecord
  <2>8. CASE h.at # "waiting" /\ handler' = [[h EXCEPT !.next = @ + 1] EXCEPT !.queue = Append(@, h.next)]
    BY <2>4, <2>8 DEF HandlerRecord
  <2>9. QED BY <2>5, <2>6, <2>7, <2>8
<1>7. QueueOK(k)
  <2>1. /\ \A i \in 1 .. Len(h.queue) : h.queue[i] = h.queue[1] + i - 1 /\ h.queue[i] < h.next
        /\ h.queue # <<>> => h.queue[1] + Len(h.queue) = h.next
        /\ h.at = "waiting" => h.queue = <<>>
        /\ h.at \in {"live", "waiting"} =>
             IF h.queue # <<>> THEN h.queue[1] <= h.cursor + 1 ELSE h.next <= h.cursor + 1
        /\ h.at = "taken" =>
             IF h.queue # <<>> THEN h.queue[1] <= h.item + 1 ELSE h.next <= h.item + 1
        /\ h.at = "taken" => h.item <= h.cursor + 1 /\ h.item < h.next
    BY <1>3, <1>4 DEF QueueOK
  <2>2. \A i \in 1 .. Len(h.queue) : h.queue[i] \in Nat
    BY <1>3, ElementOfSeq
  <2>3. h.queue = <<>> <=> Len(h.queue) = 0
    BY <1>3, EmptySeq
  <2>4. CASE k.admits = FALSE /\ k.at = h.at /\ k.queue = h.queue /\ k.item = h.item
    <3>1. /\ k.queue = h.queue /\ k.cursor = h.cursor /\ k.next = h.next + 1 /\ k.at = h.at /\ k.item = h.item
          /\ ~k.admits
      BY <1>6, <2>4
    <3>2. ASSUME NEW i \in 1 .. Len(h.queue) PROVE h.queue[i] = h.queue[1] + i - 1 /\ h.queue[i] < h.next + 1
      <4>1. h.queue[i] \in Nat /\ h.queue[i] < h.next /\ h.queue[i] = h.queue[1] + i - 1
        BY <2>1, <2>2
      <4>2. QED BY <1>3, <4>1
    <3>3. h.at = "taken" => h.item <= h.cursor + 1 /\ h.item < h.next + 1
      BY <1>3, <2>1
    <3>4. /\ k.at \in {"live", "waiting"} /\ k.queue # <<>> => k.queue[1] <= k.cursor + 1
          /\ k.at = "taken" /\ k.queue # <<>> => k.queue[1] <= k.item + 1
          /\ k.at = "waiting" => k.queue = <<>>
      BY <2>1, <3>1
    <3>5. QED BY <3>1, <3>2, <3>3, <3>4 DEF QueueOK
  <2>5. CASE h.at = "waiting" /\ k.admits = h.admits /\ k.at = "taken" /\ k.item = h.next /\ k.queue = h.queue
    <3>1. k.queue = <<>> /\ Len(k.queue) = 0 /\ k.item <= k.cursor + 1 /\ k.next = k.item + 1
      BY <1>6, <2>1, <2>3, <2>5
    <3>2. QED BY <1>3, <2>5, <3>1 DEF QueueOK
  <2>6. CASE /\ h.at # "waiting" /\ k.admits = h.admits /\ k.at = h.at /\ k.item = h.item
             /\ k.queue = Append(h.queue, h.next)
    <3>1. /\ Len(k.queue) = Len(h.queue) + 1 /\ k.queue # <<>>
          /\ \A i \in 1 .. Len(h.queue) : k.queue[i] = h.queue[i]
          /\ k.queue[Len(h.queue) + 1] = h.next
      BY <1>3, <2>6, AppendProperties
    <3>2. Len(h.queue) # 0 => k.queue[1] = h.queue[1] /\ h.next = h.queue[1] + Len(h.queue) /\ h.queue[1] \in Nat
      BY <1>3, <2>1, <2>2, <2>3, <3>1
    <3>3. Len(h.queue) = 0 => k.queue[1] = h.next
      BY <3>1
    <3>4. ASSUME NEW i \in 1 .. Len(k.queue) PROVE k.queue[i] = k.queue[1] + i - 1 /\ k.queue[i] < k.next
      <4>1. CASE i \in 1 .. Len(h.queue)
        <5>1. h.queue[i] \in Nat /\ k.queue[i] = h.queue[i]
              /\ h.queue[i] = h.queue[1] + i - 1 /\ h.queue[i] < h.next /\ Len(h.queue) # 0
          BY <1>3, <2>1, <2>2, <3>1, <4>1
        <5>2. QED BY <1>3, <1>6, <3>2, <5>1
      <4>2. CASE i = Len(h.queue) + 1
        BY <1>3, <1>6, <3>1, <3>2, <3>3, <4>2
      <4>3. QED BY <1>3, <3>1, <4>1, <4>2
    <3>5. k.queue[1] + Len(k.queue) = k.next
      <4>1. k.next = h.next + 1 /\ Len(k.queue) = Len(h.queue) + 1
        BY <1>6, <3>1
      <4>2. CASE Len(h.queue) = 0
        BY <1>3, <3>3, <4>1, <4>2
      <4>3. CASE Len(h.queue) # 0
        <5>1. PICK first \in Nat : first = h.queue[1]
          BY <3>2, <4>3
        <5>2. PICK length \in Nat : length = Len(h.queue)
          BY <1>3
        <5>3. k.queue[1] = first /\ h.next = first + length
          BY <3>2, <4>3, <5>1, <5>2
        <5>4. Len(k.queue) = length + 1 /\ k.next = first + length + 1
          BY <4>1, <5>2, <5>3
        <5>5. first + (length + 1) = first + length + 1
          BY <5>1, <5>2
        <5>6. QED BY <5>3, <5>4, <5>5
      <4>4. QED BY <4>2, <4>3
    <3>6. /\ k.at = "live" => k.queue[1] <= k.cursor + 1
          /\ k.at = "taken" => k.queue[1] <= k.item + 1 /\ k.item <= k.cursor + 1 /\ k.item < k.next
          /\ k.at # "waiting"
      <4>1. k.cursor = h.cursor /\ k.next = h.next + 1 /\ k.at = h.at /\ k.item = h.item /\ h.at # "waiting"
        BY <1>6, <2>6
      <4>2. k.queue[1] = IF h.queue # <<>> THEN h.queue[1] ELSE h.next
        BY <2>3, <3>2, <3>3
      <4>3. k.at = "taken" => k.item <= k.cursor + 1 /\ k.item < h.next
        BY <2>1, <4>1
      <4>4. k.at = "taken" => k.item < k.next
        BY <1>3, <4>1, <4>3
      <4>5. QED BY <2>1, <4>1, <4>2, <4>3, <4>4
    <3>7. QED BY <3>1, <3>4, <3>5, <3>6 DEF QueueOK
  <2>7. QED BY <1>6, <2>4, <2>5, <2>6
<1>8. HandlerOK'
  <2>1. k.at # "gone" /\ k.cursor <= latest /\ k.next <= latest + 1 /\ (k.at = "reading" => purged <= k.cursor)
    <3>1. k.cursor = h.cursor /\ k.next = h.next + 1 /\ (k.at = h.at \/ k.at = "taken")
      BY <1>6
    <3>2. k.at # "gone" /\ k.cursor <= latest /\ (k.at = "reading" => purged <= k.cursor)
      BY <1>3, <1>4, <3>1
    <3>3. k.next <= latest + 1
      BY <1>1, <1>3, <3>1
    <3>4. QED BY <3>2, <3>3
  <2>2. reader.state = "reading" /\ End(reader.lastEventId, wire) = k.cursor
    BY <1>1, <1>2, <1>6 DEF DeliveryInv, HandlerOK
  <2>3. QED BY <1>5, <1>6, <1>7, <2>1, <2>2 DEF HandlerOK
<1>9. wire' \in Seq(FrameRecord) /\ WireOK'
  BY <1>1, <1>5, WireKept
<1>10. QED BY <1>1, <1>5, <1>6, <1>8, <1>9, HandlerStep

(* A cursor behind the purged events is answered with a gap as the last frame. *)
LEMMA BoundsSafe == ASSUME DeliveryInv, checkBounds PROVE DeliveryInv'
<1>1. handler.at = "checking" /\ handler # Gone /\ UNCHANGED <<latest, purged, reader, received>>
  BY AtCases DEF checkBounds
<1>2. CASE handler.cursor < purged
  <2>1. handler' = Gone /\ wire' = Append(wire, Frame("gap", latest)) /\ latest \in Nat
    BY <1>2 DEF checkBounds, DeliveryInv, DeliveryTypeOK
  <2>2. Frame("gap", latest) \in FrameRecord /\ Frame("gap", latest).type = "gap" /\ Frame("gap", latest).revision = latest
    BY <2>1, FrameFields
  <2>3. wire' \in Seq(FrameRecord) /\ WireOK'
    BY <1>1, <2>1, <2>2, FrameWritten
  <2>4. QED BY <1>1, <2>1, <2>3, HandlerEnds
<1>3. CASE ~(handler.cursor < purged)
  <2>1. PICK h \in HandlerRecord : h = handler
    BY DEF DeliveryInv, DeliveryTypeOK
  <2>2. handler' = [h EXCEPT !.at = "reading"] /\ wire' = wire
    BY <1>3, <2>1 DEF checkBounds
  <2>3. PICK k \in HandlerRecord : /\ handler' = k /\ k.at = "reading" /\ k.cursor = h.cursor /\ k.queue = h.queue
                                   /\ k.admits = h.admits /\ k.next = h.next /\ k.item = h.item
    BY <2>2 DEF HandlerRecord
  <2>4. QueueOK(h) /\ h.cursor <= latest /\ h.next <= latest + 1 /\ reader.state = "reading"
    BY <1>1, <2>1 DEF DeliveryInv, HandlerOK
  <2>5. QueueOK(k)
    BY <2>3, <2>4 DEF QueueOK
  <2>6. h.cursor \in Nat /\ purged \in Nat /\ ~(h.cursor < purged)
    BY <1>3, <2>1 DEF DeliveryInv, DeliveryTypeOK, HandlerRecord
  <2>7. wire' \in Seq(FrameRecord) /\ WireOK' /\ End(reader.lastEventId, wire)' = h.cursor
    BY <1>1, <2>1, <2>2, WireKept
  <2>8. HandlerOK'
    BY <1>1, <2>3, <2>4, <2>5, <2>6, <2>7 DEF HandlerOK
  <2>9. QED BY <1>1, <2>3, <2>7, <2>8, HandlerStep
<1>4. QED BY <1>2, <1>3

(* A page leads the client from its cursor to the end of the page.         *)
LEMMA PagesSafe == ASSUME DeliveryInv, readPage PROVE DeliveryInv'
<1>1. handler.at = "reading" /\ handler # Gone /\ UNCHANGED <<latest, purged, reader, received>>
  BY AtCases DEF readPage
<1>2. PICK h \in HandlerRecord : h = handler
  BY DEF DeliveryInv, DeliveryTypeOK
<1>3. /\ latest \in Nat /\ purged \in Nat /\ h.cursor \in Nat /\ h.next \in Nat
      /\ h.cursor <= latest /\ purged <= h.cursor /\ PageLimit \in Nat /\ PageLimit > 0
  BY <1>1, <1>2, DeliveryAssumption DEF DeliveryInv, DeliveryTypeOK, HandlerOK, HandlerRecord
<1> DEFINE from == IF handler.cursor < purged THEN purged ELSE handler.cursor
           upto == IF from + PageLimit < latest THEN from + PageLimit ELSE latest
           last == IF upto > from THEN upto ELSE handler.cursor
<1>4. from = h.cursor
  BY <1>2, <1>3
<1>5. upto \in Nat /\ h.cursor <= upto /\ upto <= latest /\ last = upto
  BY <1>2, <1>3, <1>4
<1>6. PICK shown \in InOrder({r \in from + 1 .. upto : r \notin Hidden}) :
        LET large == {i \in DOMAIN shown : shown[i] \in Oversized}
            frames == [i \in DOMAIN shown |-> Frame("event", shown[i])]
        IN  IF large # {}
            THEN /\ \E first \in large : /\ \A i \in large : first <= i
                                         /\ wire' = wire \o SubSeq(frames, 1, first - 1)
                 /\ handler' = Gone
            ELSE /\ wire' = wire \o frames \o <<Frame("cursor", last)>>
                 /\ handler' = [handler EXCEPT !.cursor = last,
                                               !.at = IF upto < latest THEN "checking" ELSE "live"]
  BY DEF readPage
<1> DEFINE large == {i \in DOMAIN shown : shown[i] \in Oversized}
           frames == [i \in DOMAIN shown |-> Frame("event", shown[i])]
<1>7. shown \in InOrder({r \in h.cursor + 1 .. upto : r \notin Hidden})
  BY <1>4, <1>6
<1>8. \/ /\ \E first \in DOMAIN shown : wire' = wire \o SubSeq(frames, 1, first - 1)
         /\ handler' = Gone
      \/ /\ wire' = wire \o frames \o <<Frame("cursor", upto)>>
         /\ handler' = [h EXCEPT !.cursor = upto, !.at = IF upto < latest THEN "checking" ELSE "live"]
  BY <1>2, <1>5, <1>6
<1> HIDE DEF upto
<1>9. frames = [i \in DOMAIN shown |-> Frame("event", shown[i])]
  OBVIOUS
<1> HIDE DEF frames
<1>10. /\ frames \in Seq(FrameRecord) /\ Chain(h.cursor, frames) /\ Len(frames) \in Nat
       /\ \A i \in 1 .. Len(frames) : frames[i].type # "gap" /\ frames[i].revision <= upto
       /\ Follows(End(h.cursor, frames), Frame("cursor", upto))
  <2>1. /\ frames \in Seq(FrameRecord) /\ Chain(h.cursor, frames)
        /\ \A i \in 1 .. Len(frames) : frames[i].type # "gap" /\ frames[i].revision <= upto
        /\ Follows(End(h.cursor, frames), Frame("cursor", upto))
    BY <1>3, <1>5, <1>7, <1>9, PageChain
  <2>2. QED BY <2>1, LenProperties
<1>11. DOMAIN shown = 1 .. Len(frames)
  BY <1>10, <1>9, LenProperties
<1>12. \A i \in 1 .. Len(frames) : frames[i].revision <= latest
  <2>1. \A i \in 1 .. Len(frames) : frames[i] \in FrameRecord
    BY <1>10, ElementOfSeq
  <2>2. \A i \in 1 .. Len(frames) : frames[i].revision \in Nat
    BY <2>1 DEF FrameRecord
  <2>3. QED BY <1>3, <1>5, <1>10, <2>2
<1>13. CASE handler' = Gone /\ \E first \in DOMAIN shown : wire' = wire \o SubSeq(frames, 1, first - 1)
  <2>1. PICK n \in 0 .. Len(frames) : wire' = wire \o SubSeq(frames, 1, n)
    <3>1. PICK first \in 1 .. Len(frames) : wire' = wire \o SubSeq(frames, 1, first - 1)
      BY <1>11, <1>13
    <3>2. first - 1 \in 0 .. Len(frames)
      BY <1>10
    <3>3. QED BY <3>1, <3>2
  <2> DEFINE g == SubSeq(frames, 1, n)
  <2>2. g \in Seq(FrameRecord) /\ Len(g) = n /\ \A i \in 1 .. n : g[i] = frames[i]
    BY <1>10, Prefix
  <2>3. Chain(handler.cursor, g)
    BY <1>2, <1>10, ChainPrefix
  <2>4. \A i \in 1 .. Len(g) : g[i].revision <= latest /\ g[i].type # "gap"
    <3>1. \A i \in 1 .. n : i \in 1 .. Len(frames)
      BY <1>10
    <3>2. QED BY <1>10, <1>12, <2>2, <3>1
  <2> HIDE DEF g
  <2>5. wire' = wire \o g
    BY <2>1 DEF g
  <2>6. wire' \in Seq(FrameRecord) /\ WireOK'
    BY <1>1, <2>2, <2>3, <2>4, <2>5, WireExtended
  <2>7. QED BY <1>1, <1>13, <2>6, HandlerEnds
<1>14. CASE /\ wire' = wire \o frames \o <<Frame("cursor", upto)>>
            /\ handler' = [h EXCEPT !.cursor = upto, !.at = IF upto < latest THEN "checking" ELSE "live"]
  <2> DEFINE f == Frame("cursor", upto)
             g == frames \o <<f>>
  <2>1. f \in FrameRecord /\ f.type = "cursor" /\ f.revision = upto
    BY <1>5, FrameFields
  <2>3. Follows(End(h.cursor, frames), f)
    BY <1>10
  <2> HIDE DEF f
  <2>2. <<f>> \in Seq(FrameRecord) /\ Len(<<f>>) = 1 /\ <<f>>[1] = f /\ <<f>> # <<>>
    BY <2>1
  <2>4. Chain(End(h.cursor, frames), <<f>>)
    BY <2>2, <2>3 DEF Chain
  <2>5. End(End(h.cursor, frames), <<f>>) = upto
    BY <2>1, <2>2 DEF End
  <2>6. Chain(h.cursor, g) /\ End(h.cursor, g) = upto
    BY <1>10, <2>2, <2>4, <2>5, ChainConcat
  <2>7. /\ g \in Seq(FrameRecord) /\ Len(g) = Len(frames) + 1
        /\ \A i \in 1 .. Len(frames) + 1 : g[i] = IF i <= Len(frames) THEN frames[i] ELSE <<f>>[i - Len(frames)]
    BY <1>10, <2>2, ConcatProperties
  <2>8. \A i \in 1 .. Len(g) : g[i].revision <= latest /\ g[i].type # "gap"
    <3>1. ASSUME NEW i \in 1 .. Len(frames) + 1 PROVE g[i].revision <= latest /\ g[i].type # "gap"
      <4>1. CASE i \in 1 .. Len(frames)
        BY <1>10, <1>12, <2>7, <4>1
      <4>2. CASE i = Len(frames) + 1
        <5>1. g[i] = f
          BY <1>10, <2>2, <2>7, <4>2
        <5>2. QED BY <1>5, <2>1, <5>1
      <4>3. QED BY <1>10, <4>1, <4>2
    <3>2. QED BY <2>7, <3>1
  <2>9. wire' = wire \o g
    <3>1. wire \in Seq(FrameRecord)
      BY DEF DeliveryInv, DeliveryTypeOK
    <3>2. (wire \o frames) \o <<f>> = wire \o (frames \o <<f>>)
      BY <1>10, <2>2, <3>1, ConcatAssociative
    <3>3. QED BY <1>14, <3>2 DEF f
  <2> HIDE DEF g
  <2>10. wire' \in Seq(FrameRecord) /\ WireOK' /\ End(reader.lastEventId, wire)' = upto
    BY <1>1, <1>2, <2>6, <2>7, <2>8, <2>9, WireExtended
  <2>11. PICK k \in HandlerRecord :
           /\ handler' = k /\ k.cursor = upto /\ k.queue = h.queue /\ k.admits = h.admits /\ k.next = h.next
           /\ \/ k.at = "checking"
              \/ k.at = "live" /\ upto = latest
    <3>1. upto < latest => [h EXCEPT !.cursor = upto, !.at = "checking"] \in HandlerRecord
      BY <1>5 DEF HandlerRecord
    <3>2. [h EXCEPT !.cursor = upto, !.at = "live"] \in HandlerRecord
      BY <1>5 DEF HandlerRecord
    <3>3. CASE upto < latest
      BY <1>14, <3>1, <3>3 DEF HandlerRecord
    <3>4. CASE ~(upto < latest)
      <4>1. upto = latest
        BY <1>3, <1>5, <3>4
      <4>2. handler' = [h EXCEPT !.cursor = upto, !.at = "live"]
        BY <1>14, <3>4
      <4>3. QED BY <3>2, <4>1, <4>2 DEF HandlerRecord
    <3>5. QED BY <3>3, <3>4
  <2>12. QueueOK(h) /\ h.next <= latest + 1 /\ reader.state = "reading"
    BY <1>1, <1>2 DEF DeliveryInv, HandlerOK
  <2>13. QueueOK(k)
    <3>1. h.queue # <<>> => h.queue[1] \in Nat /\ h.queue[1] < h.next
      <4>1. h.queue \in Seq(Nat)
        BY DEF HandlerRecord
      <4>2. h.queue # <<>> => 1 \in 1 .. Len(h.queue) /\ h.queue[1] \in Nat
        BY <4>1, EmptySeq, ElementOfSeq
      <4>3. QED BY <2>12, <4>2 DEF QueueOK
    <3>2. k.at = "live" => IF h.queue # <<>> THEN h.queue[1] <= k.cursor + 1 ELSE h.next <= k.cursor + 1
      BY <1>3, <2>11, <2>12, <3>1
    <3>3. QED BY <2>11, <2>12, <3>2 DEF QueueOK
  <2>14. HandlerOK'
    BY <1>1, <1>5, <2>10, <2>11, <2>12, <2>13 DEF HandlerOK
  <2>15. QED BY <1>1, <2>10, <2>11, <2>14, HandlerStep
<1>15. QED BY <1>8, <1>13, <1>14

(* A closed queue ends a waiting handler.                                  *)
LEMMA ClosesSafe == ASSUME DeliveryInv, queueClosed PROVE DeliveryInv'
<1>1. handler # Gone /\ handler' = Gone /\ UNCHANGED <<latest, purged, wire, reader, received>>
  BY AtCases DEF queueClosed
<1>2. wire' \in Seq(FrameRecord) /\ WireOK'
  BY <1>1, WireKept
<1>3. QED BY <1>1, <1>2, HandlerEnds

(* A lost tail leaves what came before it in order.                        *)
LEMMA BreaksSafe == ASSUME DeliveryInv, disconnect PROVE DeliveryInv'
<1>1. handler # Gone /\ handler' = Gone /\ UNCHANGED <<latest, purged, reader, received>>
  BY DEF disconnect
<1>2. wire \in Seq(FrameRecord) /\ Len(wire) \in Nat
  BY LenProperties DEF DeliveryInv, DeliveryTypeOK
<1>3. PICK n \in 0 .. Len(wire) : wire' = SubSeq(wire, 1, n)
  BY DEF disconnect
<1> DEFINE g == SubSeq(wire, 1, n)
<1>4. g \in Seq(FrameRecord) /\ Len(g) = n /\ \A i \in 1 .. n : g[i] = wire[i]
  BY <1>2, Prefix
<1>5. Chain(reader.lastEventId, g)
  BY <1>2, ChainPrefix DEF DeliveryInv, WireOK
<1>6. \A i \in 1 .. Len(g) : g[i].revision <= latest /\ g[i].type # "gap"
  <2>1. \A i \in 1 .. n : i \in 1 .. Len(wire)
    BY <1>2
  <2>2. QED BY <1>1, <1>4, <2>1 DEF DeliveryInv, WireOK
<1> HIDE DEF g
<1>7. wire' = g /\ latest' = latest /\ reader' = reader
  BY <1>1, <1>3 DEF g
<1>8. wire' \in Seq(FrameRecord) /\ WireOK'
  BY <1>4, <1>5, <1>6, <1>7 DEF WireOK
<1>9. QED BY <1>1, <1>8, HandlerEnds

(* The handler's next frame, for the next event or one already written.    *)
LEMMA EventWritten ==
  ASSUME DeliveryInv, handler # Gone, NEW event \in Nat, event <= handler.cursor + 1, event <= latest,
         Write(event), UNCHANGED <<latest, reader>>
  PROVE  /\ wire' \in Seq(FrameRecord) /\ WireOK'
         /\ End(reader.lastEventId, wire)' = IF event > handler.cursor THEN event ELSE handler.cursor
<1>1. handler.cursor \in Nat
  BY DEF DeliveryInv, DeliveryTypeOK, HandlerRecord
<1>2. CASE event > handler.cursor
  <2> DEFINE type == IF event \in Hidden THEN "cursor" ELSE "event"
             f == Frame(type, event)
  <2>1. f \in FrameRecord /\ f.type = type /\ f.revision = event
    BY FrameFields
  <2>2. wire' = Append(wire, f)
    BY <1>2 DEF Write
  <2> HIDE DEF f
  <2>3. f.type # "gap" /\ (f.type = "event" <=> event \notin Hidden)
    BY <2>1
  <2>4. handler.cursor < event /\ handler.cursor <= event /\ \A r \in handler.cursor + 1 .. event : r = event
    BY <1>1, <1>2
  <2>5. Follows(handler.cursor, f)
    BY <2>1, <2>3, <2>4 DEF Follows
  <2>6. QED BY <1>2, <2>1, <2>2, <2>3, <2>5, FrameWritten
<1>3. CASE ~(event > handler.cursor)
  <2>1. wire' = wire
    BY <1>3 DEF Write
  <2>2. QED BY <1>3, <2>1, WireKept
<1>4. QED BY <1>2, <1>3

(* A queued event is the next one, or one the replay has written.          *)
LEMMA QueuedSafe == ASSUME DeliveryInv, nextQueued PROVE DeliveryInv'
<1>1. handler.at = "live" /\ handler # Gone /\ UNCHANGED <<latest, purged, reader, received>>
  BY AtCases DEF nextQueued
<1>2. PICK h \in HandlerRecord : h = handler
  BY DEF DeliveryInv, DeliveryTypeOK
<1>3. /\ latest \in Nat /\ h.cursor \in Nat /\ h.next \in Nat /\ h.queue \in Seq(Nat) /\ h.admits \in BOOLEAN
      /\ h.cursor <= latest /\ h.next <= latest + 1 /\ h.at = "live" /\ QueueOK(h) /\ reader.state = "reading"
  BY <1>1, <1>2 DEF DeliveryInv, DeliveryTypeOK, HandlerOK, HandlerRecord
<1>4. CASE h.queue # <<>>
  <2> DEFINE event == Head(h.queue)
             q == Tail(h.queue)
             cursor == IF event > h.cursor THEN event ELSE h.cursor
  <2>1. /\ event \in Nat /\ event = h.queue[1] /\ q \in Seq(Nat) /\ Len(q) = Len(h.queue) - 1
        /\ \A i \in 1 .. Len(q) : q[i] = h.queue[i + 1]
        /\ Len(h.queue) \in Nat /\ Len(h.queue) > 0 /\ (q = <<>> <=> Len(q) = 0)
    <3>1. Len(h.queue) \in Nat /\ Len(h.queue) > 0
      BY <1>3, <1>4, EmptySeq
    <3>2. 1 \in 1 .. Len(h.queue) /\ event = h.queue[1]
      BY <1>3, <1>4, <3>1
    <3>3. event \in Nat /\ q \in Seq(Nat) /\ Len(q) = Len(h.queue) - 1 /\ \A i \in 1 .. Len(q) : q[i] = h.queue[i + 1]
      BY <1>3, <1>4, HeadTailProperties
    <3>4. q = <<>> <=> Len(q) = 0
      BY <3>3, EmptySeq
    <3>5. QED BY <3>1, <3>2, <3>3, <3>4
  <2>2. /\ \A i \in 1 .. Len(h.queue) : h.queue[i] = h.queue[1] + i - 1 /\ h.queue[i] < h.next
        /\ h.admits => h.queue[1] + Len(h.queue) = h.next
        /\ h.queue[1] <= h.cursor + 1
    BY <1>3, <1>4 DEF QueueOK
  <2>3. Write(event) /\ handler' = [h EXCEPT !.queue = Tail(@), !.cursor = IF event > @ THEN event ELSE @]
    BY <1>2, <1>4 DEF nextQueued
  <2> HIDE DEF event, q
  <2>4. event < h.next /\ event <= latest /\ event <= h.cursor + 1
    <3>1. 1 \in 1 .. Len(h.queue)
      BY <2>1
    <3>2. QED BY <1>3, <2>1, <2>2, <3>1
  <2>5. cursor \in Nat /\ event <= cursor /\ cursor <= latest
    <3>1. latest \in Nat /\ event \in Nat /\ h.cursor \in Nat /\ h.cursor <= latest /\ event <= latest
      BY <1>3, <2>1, <2>4
    <3>2. QED BY <3>1
  <2>6. wire' \in Seq(FrameRecord) /\ WireOK' /\ End(reader.lastEventId, wire)' = cursor
    BY <1>1, <1>2, <2>1, <2>3, <2>4, EventWritten
  <2> HIDE DEF cursor
  <2>7. PICK k \in HandlerRecord : /\ handler' = k /\ k.at = "live" /\ k.cursor = cursor /\ k.queue = q
                                   /\ k.admits = h.admits /\ k.next = h.next
    <3>1. handler' = [h EXCEPT !.queue = q, !.cursor = cursor]
      BY <2>3 DEF q, cursor
    <3>2. [h EXCEPT !.queue = q, !.cursor = cursor] \in HandlerRecord
      BY <2>1, <2>5 DEF HandlerRecord
    <3>3. QED BY <1>3, <3>1, <3>2 DEF HandlerRecord
  <2>8. ASSUME NEW i \in 1 .. Len(q) PROVE q[i] = event + i /\ q[i] < h.next
    <3>1. i + 1 \in 1 .. Len(h.queue) /\ q[i] = h.queue[i + 1]
      <4>1. Len(h.queue) \in Nat /\ Len(q) = Len(h.queue) - 1
        BY <2>1
      <4>2. i \in Int /\ 1 <= i /\ i <= Len(h.queue) - 1
        BY <4>1
      <4>3. i + 1 \in 1 .. Len(h.queue)
        BY <4>1, <4>2
      <4>4. q[i] = h.queue[i + 1]
        BY <2>1
      <4>5. QED BY <4>3, <4>4
    <3>2. h.queue[i + 1] = h.queue[1] + (i + 1) - 1 /\ h.queue[i + 1] < h.next
      BY <2>2, <3>1
    <3>3. QED BY <2>1, <3>1, <3>2
  <2>9. QueueOK(k)
    <3>1. \A i \in 1 .. Len(q) : q[i] = q[1] + i - 1 /\ q[i] < h.next
      <4>1. ASSUME NEW i \in 1 .. Len(q) PROVE q[i] = q[1] + i - 1 /\ q[i] < h.next
        <5>1. 1 \in 1 .. Len(q) /\ q[1] = event + 1 /\ q[i] = event + i /\ q[i] < h.next
          BY <2>1, <2>8
        <5>2. QED BY <2>1, <5>1
      <4>2. QED BY <4>1
    <3>2. CASE q = <<>>
      <4>1. h.admits => h.next = event + 1
        BY <2>1, <2>2, <3>2
      <4>2. h.admits => h.next <= cursor + 1
        BY <2>1, <2>5, <4>1
      <4>3. QED BY <2>7, <3>1, <3>2, <4>2 DEF QueueOK
    <3>3. CASE q # <<>>
      <4>1. 1 \in 1 .. Len(q) /\ q[1] = event + 1
        BY <2>1, <2>8, <3>3
      <4>2. q[1] <= cursor + 1
        BY <2>1, <2>5, <4>1
      <4>3. h.admits => q[1] + Len(q) = h.next
        <5>1. PICK first \in Nat : first = event
          BY <2>1
        <5>2. PICK length \in Nat : length = Len(h.queue)
          BY <2>1
        <5>3. q[1] = first + 1 /\ Len(q) = length - 1 /\ (h.admits => first + length = h.next)
          BY <2>1, <2>2, <4>1, <5>1, <5>2
        <5>4. first + 1 + (length - 1) = first + length
          BY ONLY first \in Nat, length \in Nat
        <5>5. QED BY <5>3, <5>4
      <4>4. QED BY <2>7, <3>1, <3>3, <4>2, <4>3 DEF QueueOK
    <3>4. QED BY <3>2, <3>3
  <2>10. HandlerOK'
    BY <1>1, <1>3, <2>5, <2>6, <2>7, <2>9 DEF HandlerOK
  <2>11. QED BY <1>1, <2>6, <2>7, <2>10, HandlerStep
<1>5. CASE h.queue = <<>>
  <2>1. wire' = wire /\ handler' = IF h.admits THEN [h EXCEPT !.at = "waiting"] ELSE Gone
    BY <1>2, <1>5 DEF nextQueued
  <2>2. wire' \in Seq(FrameRecord) /\ WireOK' /\ End(reader.lastEventId, wire)' = h.cursor
    BY <1>1, <1>2, <2>1, WireKept
  <2>3. CASE ~h.admits
    BY <1>1, <2>1, <2>2, <2>3, HandlerEnds
  <2>4. CASE h.admits
    <3>1. PICK k \in HandlerRecord : /\ handler' = k /\ k.at = "waiting" /\ k.cursor = h.cursor /\ k.queue = h.queue
                                     /\ k.admits = h.admits /\ k.next = h.next
      <4>1. handler' = [h EXCEPT !.at = "waiting"]
        BY <2>1, <2>4
      <4>2. [h EXCEPT !.at = "waiting"] \in HandlerRecord
        BY DEF HandlerRecord
      <4>3. QED BY <4>1, <4>2 DEF HandlerRecord
    <3>2. QueueOK(k)
      BY <1>3, <1>5, <3>1 DEF QueueOK
    <3>3. HandlerOK'
      BY <1>1, <1>3, <2>2, <3>1, <3>2 DEF HandlerOK
    <3>4. QED BY <1>1, <2>2, <3>1, <3>3, HandlerStep
  <2>5. QED BY <2>3, <2>4
<1>6. QED BY <1>4, <1>5

(* So is an event handed to the waiting handler.                           *)
LEMMA TakenSafe == ASSUME DeliveryInv, writeTaken PROVE DeliveryInv'
<1>1. handler.at = "taken" /\ handler # Gone /\ UNCHANGED <<latest, purged, reader, received>>
  BY AtCases DEF writeTaken
<1>2. PICK h \in HandlerRecord : h = handler
  BY DEF DeliveryInv, DeliveryTypeOK
<1>3. /\ latest \in Nat /\ h.cursor \in Nat /\ h.next \in Nat /\ h.queue \in Seq(Nat) /\ h.item \in Nat
      /\ h.cursor <= latest /\ h.next <= latest + 1 /\ h.at = "taken" /\ QueueOK(h) /\ reader.state = "reading"
  BY <1>1, <1>2 DEF DeliveryInv, DeliveryTypeOK, HandlerOK, HandlerRecord
<1>4. /\ h.item <= h.cursor + 1 /\ h.item < h.next
      /\ IF h.queue # <<>> THEN h.queue[1] <= h.item + 1 ELSE h.admits => h.next <= h.item + 1
  BY <1>3 DEF QueueOK
<1> DEFINE cursor == IF h.item > h.cursor THEN h.item ELSE h.cursor
<1>5. cursor \in Nat /\ h.item <= cursor /\ cursor <= latest /\ h.item <= latest
  BY <1>3, <1>4
<1>6. wire' \in Seq(FrameRecord) /\ WireOK' /\ End(reader.lastEventId, wire)' = cursor
  <2>1. Write(h.item)
    BY <1>2 DEF writeTaken
  <2>2. QED BY <1>1, <1>2, <1>3, <1>4, <1>5, <2>1, EventWritten
<1>7. handler' = [h EXCEPT !.at = "live", !.item = 0, !.cursor = cursor]
  BY <1>2 DEF writeTaken
<1> HIDE DEF cursor
<1>8. PICK k \in HandlerRecord : /\ handler' = k /\ k.at = "live" /\ k.cursor = cursor /\ k.queue = h.queue
                                 /\ k.admits = h.admits /\ k.next = h.next
  <2>1. [h EXCEPT !.at = "live", !.item = 0, !.cursor = cursor] \in HandlerRecord
    BY <1>5 DEF HandlerRecord
  <2>2. QED BY <1>7, <2>1 DEF HandlerRecord
<1>9. QueueOK(k)
  <2>1. h.queue # <<>> => h.queue[1] \in Nat
    BY <1>3, EmptySeq, ElementOfSeq
  <2>2. h.queue # <<>> => h.queue[1] <= cursor + 1
    BY <1>3, <1>4, <1>5, <2>1
  <2>3. h.queue = <<>> /\ h.admits => h.next <= cursor + 1
    BY <1>3, <1>4, <1>5
  <2>4. IF h.queue # <<>> THEN h.queue[1] <= cursor + 1 ELSE h.admits => h.next <= cursor + 1
    BY <2>2, <2>3
  <2>5. QED BY <1>3, <1>8, <2>4 DEF QueueOK
<1>10. HandlerOK'
  BY <1>1, <1>3, <1>5, <1>6, <1>8, <1>9 DEF HandlerOK
<1>11. QED BY <1>1, <1>6, <1>8, <1>10, HandlerStep

(* The client yields what it reads, and its cursor moves past the rest.    *)
LEMMA ReadsSafe == ASSUME DeliveryInv, readFrame PROVE DeliveryInv'
<1> DEFINE p == reader.lastEventId
           f == Head(wire)
           w == Tail(wire)
<1>1. /\ wire \in Seq(FrameRecord) /\ wire # <<>> /\ wire' = w /\ reader.state = "reading"
      /\ latest' = latest /\ purged' = purged /\ handler' = handler
  BY DEF DeliveryInv, DeliveryTypeOK, readFrame
<1>2. /\ latest \in Nat /\ purged \in Nat /\ handler \in HandlerRecord /\ received \in Seq(Nat) /\ p \in Nat
      /\ reader \in [state : {"connecting", "reading", "gap", "disconnected"}, attempt : Nat, lastEventId : Nat]
  BY DEF DeliveryInv, DeliveryTypeOK
<1>3. Len(wire) \in Nat /\ Len(wire) > 0 /\ 1 \in 1 .. Len(wire)
  BY <1>1, EmptySeq
<1>4. /\ f \in FrameRecord /\ f = wire[1] /\ w \in Seq(FrameRecord) /\ Len(w) = Len(wire) - 1
      /\ \A i \in 1 .. Len(w) : w[i] = wire[i + 1] /\ i + 1 \in 1 .. Len(wire)
  <2>1. f \in FrameRecord /\ w \in Seq(FrameRecord) /\ Len(w) = Len(wire) - 1 /\ \A i \in 1 .. Len(w) : w[i] = wire[i + 1]
    BY <1>1, HeadTailProperties
  <2>2. f = wire[1]
    BY <1>1
  <2>3. \A i \in 1 .. Len(w) : i + 1 \in 1 .. Len(wire)
    BY <1>3, <2>1
  <2>4. QED BY <2>1, <2>2, <2>3
<1>5. f.revision \in Nat /\ f.type \in {"event", "cursor", "gap"}
  BY <1>4 DEF FrameRecord
<1>6. /\ Chain(p, wire) /\ f.revision <= latest
      /\ \A i \in 1 .. Len(wire) : /\ wire[i].revision <= latest
                                   /\ wire[i].type = "gap" => i = Len(wire) /\ handler = Gone
  BY <1>3, <1>4 DEF DeliveryInv, WireOK
<1>7. \A i \in 1 .. Len(w) : /\ w[i].revision <= latest
                             /\ w[i].type = "gap" => i = Len(w) /\ handler = Gone
  <2>1. ASSUME NEW i \in 1 .. Len(w)
        PROVE  w[i].revision <= latest /\ (w[i].type = "gap" => i = Len(w) /\ handler = Gone)
    <3>1. w[i] = wire[i + 1] /\ i + 1 \in 1 .. Len(wire)
      BY <1>4
    <3>2. i + 1 = Len(wire) => i = Len(w)
      <4>1. PICK n \in Nat : n = Len(wire)
        BY <1>3
      <4>2. i \in Nat /\ Len(w) = n - 1
        BY <1>3, <1>4, <4>1
      <4>3. i + 1 = n => i = n - 1
        BY <4>1, <4>2
      <4>4. QED BY <4>1, <4>2, <4>3
    <3>3. QED BY <1>6, <3>1, <3>2
  <2>2. QED BY <2>1
<1>8. reader' = (IF f.type = "gap" THEN [reader EXCEPT !.state = "gap"] ELSE [reader EXCEPT !.lastEventId = f.revision])
      /\ received' = IF f.type = "event" THEN Append(received, f.revision) ELSE received
  BY DEF readFrame
<1> HIDE DEF f, w
<1>9. CASE f.type = "gap"
  <2>1. /\ reader'.state = "gap" /\ reader'.lastEventId = p /\ received' = received
        /\ reader' \in [state : {"connecting", "reading", "gap", "disconnected"}, attempt : Nat, lastEventId : Nat]
    BY <1>2, <1>8, <1>9
  <2>2. Len(w) = 0 /\ handler = Gone
    BY <1>3, <1>4, <1>6, <1>9
  <2>3. DeliveryTypeOK'
    BY <1>1, <1>2, <1>4, <2>1 DEF DeliveryTypeOK
  <2>4. WireOK' /\ HandlerOK'
    <3>1. \A i : i \notin 1 .. Len(w)
      BY <2>2
    <3>2. QED BY <1>1, <2>2, <3>1 DEF WireOK, Chain, HandlerOK
  <2>5. ReaderOK'
    BY <1>1, <2>1 DEF DeliveryInv, ReaderOK
  <2>6. NothingSkipped'
    BY <2>1 DEF DeliveryInv, NothingSkipped
  <2>7. QED BY <2>3, <2>4, <2>5, <2>6 DEF DeliveryInv
<1>10. CASE f.type # "gap"
  <2>1. /\ reader'.state = "reading" /\ reader'.lastEventId = f.revision
        /\ reader' \in [state : {"connecting", "reading", "gap", "disconnected"}, attempt : Nat, lastEventId : Nat]
    BY <1>1, <1>2, <1>5, <1>8, <1>10
  <2>2. Follows(p, f)
    BY <1>3, <1>4, <1>6, <1>10 DEF Chain
  <2>3. received' \in Seq(Nat)
    BY <1>2, <1>5, <1>8, AppendProperties
  <2>4. DeliveryTypeOK'
    BY <1>1, <1>2, <1>4, <2>1, <2>3 DEF DeliveryTypeOK
  <2>5. Chain(f.revision, w)
    <3>1. ASSUME NEW i \in 1 .. Len(w), w[i].type # "gap"
          PROVE  Follows(IF i = 1 THEN f.revision ELSE w[i - 1].revision, w[i])
      <4>1. w[i] = wire[i + 1] /\ i + 1 \in 1 .. Len(wire) /\ i + 1 # 1 /\ (i + 1) - 1 = i
        BY <1>3, <1>4
      <4>2. Follows(wire[i].revision, w[i])
        BY <1>6, <3>1, <4>1 DEF Chain
      <4>3. i # 1 => i - 1 \in 1 .. Len(w) /\ w[i - 1] = wire[i]
        <5>1. i # 1 => i - 1 \in 1 .. Len(w) /\ (i - 1) + 1 = i
          BY <1>3, <1>4
        <5>2. QED BY <1>4, <5>1
      <4>4. QED BY <1>4, <4>2, <4>3
    <3>2. QED BY <3>1 DEF Chain
  <2>6. WireOK'
    BY <1>1, <1>7, <2>1, <2>5 DEF WireOK
  <2>7. End(f.revision, w) = End(p, wire)
    <3>1. w = <<>> <=> Len(w) = 0
      BY <1>4, EmptySeq
    <3>2. CASE Len(w) = 0
      <4>1. Len(wire) = 1
        BY <1>3, <1>4, <3>2
      <4>2. QED BY <1>1, <1>4, <3>1, <3>2, <4>1 DEF End
    <3>3. CASE Len(w) # 0
      <4>1. Len(w) \in 1 .. Len(w) /\ Len(w) + 1 = Len(wire)
        BY <1>3, <1>4, <3>3
      <4>2. w[Len(w)] = wire[Len(wire)]
        BY <1>4, <4>1
      <4>3. QED BY <1>1, <3>1, <3>3, <4>2 DEF End
    <3>4. QED BY <3>2, <3>3
  <2>8. HandlerOK'
    BY <1>1, <2>1, <2>7 DEF DeliveryInv, HandlerOK
  <2>9. ReaderOK'
    BY <1>1, <1>6, <2>1 DEF ReaderOK
  <2>10. NothingSkipped'
    <3>1. /\ \A i, j \in DOMAIN received : i < j => received[i] < received[j]
          /\ ToSet(received) = {r \in 1 .. p : r \notin Hidden}
      BY DEF DeliveryInv, NothingSkipped
    <3>2. p <= f.revision
      BY <2>2 DEF Follows
    <3>3. CASE f.type = "event"
      <4>1. p < f.revision /\ f.revision \notin Hidden /\ \A r \in p + 1 .. f.revision : r \in Hidden \/ r = f.revision
        BY <2>2, <3>3 DEF Follows
      <4>2. PICK n \in Nat : n = Len(received)
        BY <1>2, LenProperties
      <4>3. /\ DOMAIN received = 1 .. n /\ DOMAIN received' = 1 .. n + 1
            /\ \A i \in 1 .. n : received'[i] = received[i]
            /\ received'[n + 1] = f.revision
        <5>1. received' = Append(received, f.revision)
          BY <1>8, <3>3
        <5>2. DOMAIN received = 1 .. n /\ received' \in Seq(Nat) /\ Len(received') = n + 1
              /\ (\A i \in 1 .. n : received'[i] = received[i]) /\ received'[n + 1] = f.revision
          BY <1>2, <1>5, <4>2, <5>1, AppendProperties, LenProperties
        <5>3. QED BY <5>2, LenProperties
      <4>4. \A i \in 1 .. n : received[i] \in 1 .. p /\ received[i] \notin Hidden
        BY <3>1, <4>3 DEF ToSet
      <4>5. ASSUME NEW i \in 1 .. n + 1, NEW j \in 1 .. n + 1, i < j PROVE received'[i] < received'[j]
        <5>1. i \in 1 .. n
          BY <4>2, <4>5
        <5>2. CASE j \in 1 .. n
          BY <3>1, <4>3, <4>5, <5>1, <5>2
        <5>3. CASE j = n + 1
          <6>1. received'[i] \in 1 .. p
            BY <4>3, <4>4, <5>1
          <6>2. QED BY <1>2, <1>5, <4>1, <4>3, <5>3, <6>1
        <5>4. QED BY <4>2, <5>2, <5>3
      <4>6. ToSet(received') = {r \in 1 .. f.revision : r \notin Hidden}
        <5>1. ASSUME NEW r \in ToSet(received') PROVE r \in 1 .. f.revision /\ r \notin Hidden
          <6>1. PICK i \in 1 .. n + 1 : r = received'[i]
            BY <4>3, <5>1 DEF ToSet
          <6>2. CASE i \in 1 .. n
            BY <1>2, <1>5, <3>2, <4>3, <4>4, <6>1, <6>2
          <6>3. CASE i = n + 1
            BY <1>2, <1>5, <4>1, <4>3, <6>1, <6>3
          <6>4. QED BY <4>2, <6>2, <6>3
        <5>2. ASSUME NEW r \in 1 .. f.revision, r \notin Hidden PROVE r \in ToSet(received')
          <6>1. CASE r \in 1 .. p
            <7>1. r \in ToSet(received)
              BY <3>1, <5>2, <6>1
            <7>2. PICK i \in 1 .. n : r = received[i]
              BY <4>3, <7>1 DEF ToSet
            <7>3. i \in 1 .. n + 1 /\ r = received'[i]
              BY <4>2, <4>3, <7>2
            <7>4. QED BY <4>3, <7>3 DEF ToSet
          <6>2. CASE r \notin 1 .. p
            <7>1. r \in p + 1 .. f.revision
              BY <1>2, <1>5, <6>2
            <7>2. r = received'[n + 1] /\ n + 1 \in 1 .. n + 1
              BY <4>1, <4>2, <4>3, <5>2, <7>1
            <7>3. QED BY <4>3, <7>2 DEF ToSet
          <6>3. QED BY <6>1, <6>2
        <5>3. QED BY <5>1, <5>2
      <4>7. QED BY <2>1, <4>3, <4>5, <4>6 DEF NothingSkipped
    <3>4. CASE f.type # "event"
      <4>1. received' = received
        BY <1>8, <3>4
      <4>2. \A r \in p + 1 .. f.revision : r \in Hidden
        BY <2>2, <3>4 DEF Follows
      <4>3. ASSUME NEW r \in 1 .. f.revision, r \notin Hidden PROVE r \in 1 .. p
        <5>1. r \notin p + 1 .. f.revision
          BY <4>2, <4>3
        <5>2. QED BY <1>2, <1>5, <5>1
      <4>4. \A r \in 1 .. p : r \in 1 .. f.revision
        BY <1>2, <1>5, <3>2
      <4>5. {r \in 1 .. f.revision : r \notin Hidden} = {r \in 1 .. p : r \notin Hidden}
        BY <4>3, <4>4
      <4>6. QED BY <2>1, <3>1, <4>1, <4>5 DEF NothingSkipped
    <3>5. QED BY <3>3, <3>4
  <2>11. QED BY <2>4, <2>6, <2>8, <2>9, <2>10 DEF DeliveryInv
<1>11. QED BY <1>9, <1>10

(* Between connections the client keeps its place.                         *)
LEMMA RetriesSafe == ASSUME DeliveryInv, retry \/ refused PROVE DeliveryInv'
<1>1. /\ wire = <<>> /\ handler = Gone
      /\ latest' = latest /\ purged' = purged /\ handler' = handler /\ wire' = wire /\ received' = received
  BY DEF DeliveryInv, ReaderOK, retry, refused
<1>2. /\ reader'.lastEventId = reader.lastEventId
      /\ reader' \in [state : {"connecting", "reading", "gap", "disconnected"}, attempt : Nat, lastEventId : Nat]
  <2>1. /\ reader \in [state : {"connecting", "reading", "gap", "disconnected"}, attempt : Nat, lastEventId : Nat]
        /\ MaxAttempts \in Nat
    BY DeliveryAssumption DEF DeliveryInv, DeliveryTypeOK
  <2>2. \/ reader' = [reader EXCEPT !.state = "connecting", !.attempt = @ + 1]
        \/ reader' = [reader EXCEPT !.state = "disconnected"]
        \/ reader' = [reader EXCEPT !.attempt = @ + 1]
    BY DEF retry, refused
  <2>3. PICK r : r = reader /\ r \in [state : {"connecting", "reading", "gap", "disconnected"}, attempt : Nat, lastEventId : Nat]
    BY <2>1
  <2>4. CASE reader' = [r EXCEPT !.state = "connecting", !.attempt = @ + 1]
    <3>1. r.attempt + 1 \in Nat
      BY <2>3
    <3>2. /\ [r EXCEPT !.state = "connecting", !.attempt = r.attempt + 1].lastEventId = r.lastEventId
          /\ [r EXCEPT !.state = "connecting", !.attempt = r.attempt + 1]
                \in [state : {"connecting", "reading", "gap", "disconnected"}, attempt : Nat, lastEventId : Nat]
      BY <2>3, <3>1
    <3>3. QED BY <2>3, <2>4, <3>2
  <2>5. CASE reader' = [r EXCEPT !.state = "disconnected"]
    BY <2>3, <2>5
  <2>6. CASE reader' = [r EXCEPT !.attempt = @ + 1]
    BY <2>3, <2>6
  <2>7. QED BY <2>2, <2>3, <2>4, <2>5, <2>6
<1>3. DeliveryTypeOK'
  BY <1>1, <1>2 DEF DeliveryInv, DeliveryTypeOK
<1>4. WireOK' /\ HandlerOK' /\ ReaderOK' /\ NothingSkipped'
  BY <1>1, <1>2 DEF DeliveryInv, WireOK, HandlerOK, ReaderOK, NothingSkipped
<1>5. QED BY <1>3, <1>4 DEF DeliveryInv

(* Whatever the limits, and however the connection breaks, the client      *)
(* yields what it may see in order, each event once, and skips none, as    *)
(* long as no purge falls between replayEvents' reading of the bounds and  *)
(* its reading of the page (runtime.ts's replayEvents; the store's host    *)
(* purges between replays).                                                *)
THEOREM DeliveredInOrder == ASSUME ~PurgeAnywhere PROVE DeliverySpec => []NothingSkipped
<1>1. DeliveryInit => DeliveryInv
  <2> SUFFICES ASSUME DeliveryInit PROVE DeliveryInv
    OBVIOUS
  <2>1. <<>> \in Seq(FrameRecord) /\ <<>> \in Seq(Nat) /\ Len(<<>>) = 0 /\ DOMAIN <<>> = {}
    BY EmptySeq
  <2>2. DeliveryTypeOK
    BY <2>1, GoneRecord DEF DeliveryInit, DeliveryTypeOK
  <2>3. WireOK /\ HandlerOK /\ ReaderOK
    BY <2>1 DEF DeliveryInit, WireOK, Chain, HandlerOK, ReaderOK
  <2>4. NothingSkipped
    BY <2>1 DEF DeliveryInit, NothingSkipped, ToSet
  <2>5. QED BY <2>2, <2>3, <2>4 DEF DeliveryInv
<1>2. DeliveryInv /\ [DeliveryNext]_deliveryVars => DeliveryInv'
  <2> SUFFICES ASSUME DeliveryInv, [DeliveryNext]_deliveryVars PROVE DeliveryInv'
    OBVIOUS
  <2>1. CASE UNCHANGED deliveryVars
    BY <2>1 DEF deliveryVars, DeliveryInv, DeliveryTypeOK, WireOK, HandlerOK, ReaderOK, NothingSkipped
  <2>2. CASE Deliver
    BY <2>2, ConnectsSafe, PushesSafe, BoundsSafe, PagesSafe, QueuedSafe, TakenSafe, ClosesSafe, ReadsSafe, RetriesSafe DEF Deliver
  <2>3. CASE appendCanonicalEvent \/ purge \/ disconnect \/ refused
    BY <2>3, EventsSafe, PurgesSafe, BreaksSafe, RetriesSafe
  <2>4. QED BY <2>1, <2>2, <2>3 DEF DeliveryNext
<1>3. DeliveryInv => NothingSkipped
  BY DEF DeliveryInv
<1>4. QED BY <1>1, <1>2, <1>3, PTL DEF DeliverySpec

-----------------------------------------------------------------------------
(* The client's run session: four invariants, of what was decided, of what *)
(* is pending, of the abort, and of the callbacks and the outcome. *)

(* What the session's variables range over. *)
RunEvent == [own : BOOLEAN, type : {"queued", "started", "turn", "completed"}, turn : Nat]
Cursors == {NoCursor} \cup SUBSET Questions
Listening == [at : {"waiting"}, cursor : Cursors, mutation : Nat]
Announcing == [at : {"handling"}, cursor : Cursors, mutation : Nat, left : SUBSET Questions]
ApprovalObserver == [at : {"inactive", "settled"}] \cup Listening \cup Announcing
ApprovalWait ==
  {Quiet} \cup [state : {"asked"}, after : Cursors] \cup [state : {"answered"}, page : SUBSET Questions]
Decision == {Quiet} \cup [state : {"asked", "accepted"}, of : Questions]
Control == {Quiet} \cup [state : {"refused"}] \cup [state : {"asked", "accepted"}, turn : Nat]
History == [announced : SUBSET Questions, decided : SUBSET Questions, late : BOOLEAN, again : BOOLEAN]

RuntimeTypeOK ==
  /\ stream \in Seq(RunEvent)
  /\ run \in [state : {"queued", "running", "ended"}, turn : Nat]
  /\ asked \in Seq(Questions) /\ open \in SUBSET Questions
ObserverTypeOK ==
  /\ events \in [at : {"reading", "handling", "settled"}, next : Nat \ {0}]
  /\ approvals \in ApprovalObserver
  /\ wait \in ApprovalWait
  /\ pendingApprovals \in SUBSET Questions /\ approvalMutation \in Nat
  /\ history \in History
RequestTypeOK ==
  /\ coordinate \in Nat
  /\ decision \in Decision
  /\ control \in Control
  /\ lifetime \in {"open", "closed", "settled"}
SessionTypeOK == RuntimeTypeOK /\ ObserverTypeOK /\ RequestTypeOK

-----------------------------------------------------------------------------
(* What was asked stays asked; what is open and what the player decided    *)
(* was asked, and what the player decided is not open.  A decision the     *)
(* server accepted is out of its list before the session hears of it, and  *)
(* an answer whose wait no decision has overtaken, or the announcements    *)
(* left of one, show nothing that was decided.                             *)
Answered == approvals.at = "waiting" /\ wait.state = "answered" /\ approvals.mutation = approvalMutation
DecidedInv ==
  /\ \A q \in open \cup history.decided : WasAsked(q)
  /\ open \cap history.decided = {}
  /\ decision.state = "accepted" => decision.of \notin open /\ WasAsked(decision.of)
  /\ approvals.at \in {"waiting", "handling"} => approvals.mutation <= approvalMutation
  /\ Answered => wait.page \cap history.decided = {}
  /\ (approvals.at = "handling" /\ approvals.mutation = approvalMutation) =>
       approvals.left \cap history.decided = {}
  /\ NotAskedAgain

(* Once a page was adopted, what the session holds as pending is that page *)
(* less what the player has decided since.                                 *)
PendingInv ==
  (approvals.at \in {"waiting", "handling"} /\ approvals.cursor # NoCursor) =>
    pendingApprovals = approvals.cursor \ history.decided

AbortInv == control.state = "accepted" => run.state = "ended" /\ control.turn = run.turn

(* The run's last event closes it, and the observer of the events wins the *)
(* race as completed only by having handed that event over.                *)
Closing(i) == stream[i].own /\ stream[i].type = "completed"
StreamInv ==
  /\ \A i \in DOMAIN stream : Closing(i) =>
       run.state = "ended" /\ \A j \in DOMAIN stream : stream[j].own => j <= i
  /\ events.at = "handling" => events.next \in DOMAIN stream /\ stream[events.next].own
  /\ winner = "completed" =>
       events.at = "settled" /\ events.next \in DOMAIN stream /\ Closing(events.next)
  /\ completion = "completed" => winner = "completed"
WithinInv ==
  /\ completion # Unsettled =>
       events.at = "settled" /\ actions.at = "settled" /\ approvals.at = "settled"
  /\ ~history.late

SessionInv == SessionTypeOK /\ DecidedInv /\ PendingInv /\ AbortInv /\ StreamInv /\ WithinInv

LEMMA CursorKinds == NoCursor \notin SUBSET Questions
BY SessionAssumption DEF NoCursor

LEMMA PageOpen == listPending \subseteq open
BY DEF listPending

LEMMA EmitType ==
  ASSUME RuntimeTypeOK, NEW type \in {"queued", "started", "turn", "completed"}, NEW turn \in Nat,
         Emit(type, turn)
  PROVE  stream' \in Seq(RunEvent)
<1>1. [own |-> TRUE, type |-> type, turn |-> turn] \in RunEvent
  BY DEF RunEvent
<1> QED
  BY <1>1 DEF RuntimeTypeOK, Emit

LEMMA PollType ==
  ASSUME ObserverTypeOK, NEW cursor \in Cursors, Poll(cursor)
  PROVE  approvals' \in ApprovalObserver /\ wait' \in ApprovalWait
<1>1. approvals' \in Listening
  BY DEF Poll, Listening, ObserverTypeOK
<1> QED
  BY <1>1 DEF Poll, ApprovalObserver, ApprovalWait

LEMMA CallbackType ==
  ASSUME ObserverTypeOK, NEW change \in History, CallbackBegins(change)
  PROVE  history' \in History
BY DEF CallbackBegins, History

LEMMA AnnounceType ==
  ASSUME ObserverTypeOK, NEW cursor \in Cursors, NEW left \in SUBSET Questions,
         Announce(left, cursor)
  PROVE  approvals' \in ApprovalObserver /\ wait' \in ApprovalWait /\ history' \in History
<1>1. CASE left = {} /\ Poll(cursor) /\ UNCHANGED history
  BY <1>1, PollType DEF ObserverTypeOK
<1>2. ASSUME NEW q \in left,
             approvals' = [at |-> "handling", cursor |-> cursor,
                           mutation |-> approvalMutation, left |-> left \ {q}],
             wait' = Quiet,
             CallbackBegins([history EXCEPT !.announced = @ \cup {q},
                                            !.again = @ \/ q \in history.decided])
      PROVE  approvals' \in ApprovalObserver /\ wait' \in ApprovalWait /\ history' \in History
  <2>1. approvals' \in Announcing
    BY <1>2 DEF Announcing, ObserverTypeOK
  <2>2. [history EXCEPT !.announced = @ \cup {q}, !.again = @ \/ q \in history.decided] \in History
    BY DEF ObserverTypeOK, History
  <2>3. history' \in History
    BY <1>2, <2>2, CallbackType
  <2> QED
    BY <1>2, <2>1, <2>3 DEF ApprovalObserver, ApprovalWait
<1> QED
  BY <1>1, <1>2 DEF Announce

THEOREM SessionTypeStep == SessionTypeOK /\ [SessionNext]_clientVars => SessionTypeOK'
<1> SUFFICES ASSUME SessionTypeOK, [SessionNext]_clientVars PROVE SessionTypeOK'
  OBVIOUS
<1> USE DEF SessionTypeOK
<1>1. CASE runtimeStep
  <2>1. CASE runStarts
    <3>1. stream' \in Seq(RunEvent)
      BY <2>1, EmitType DEF runStarts
    <3> QED
      BY <1>1, <2>1, <3>1 DEF runtimeStep, runStarts, sessionVars, RuntimeTypeOK, ObserverTypeOK, RequestTypeOK
  <2>2. CASE turnStarts
    <3>1. run.turn + 1 \in Nat /\ run' \in [state : {"queued", "running", "ended"}, turn : Nat]
      BY <2>2 DEF turnStarts, RuntimeTypeOK
    <3>2. stream' \in Seq(RunEvent)
      BY <2>2, <3>1, EmitType DEF turnStarts
    <3> QED
      BY <1>1, <2>2, <3>1, <3>2 DEF runtimeStep, turnStarts, sessionVars, RuntimeTypeOK, ObserverTypeOK, RequestTypeOK
  <2>3. CASE runEnds
    <3>1. run.turn \in Nat /\ run' \in [state : {"queued", "running", "ended"}, turn : Nat]
      BY <2>3 DEF runEnds, RuntimeTypeOK
    <3>2. stream' \in Seq(RunEvent)
      BY <2>3, <3>1, EmitType DEF runEnds
    <3> QED
      BY <1>1, <2>3, <3>1, <3>2 DEF runtimeStep, runEnds, sessionVars, RuntimeTypeOK, ObserverTypeOK, RequestTypeOK
  <2>4. CASE otherRun
    <3>1. [own |-> FALSE, type |-> "queued", turn |-> 0] \in RunEvent
      BY DEF RunEvent
    <3>2. stream' \in Seq(RunEvent)
      BY <2>4, <3>1 DEF otherRun, RuntimeTypeOK
    <3> QED
      BY <1>1, <2>4, <3>2 DEF runtimeStep, otherRun, sessionVars, RuntimeTypeOK, ObserverTypeOK, RequestTypeOK
  <2>5. ASSUME NEW q \in Questions, askApproval(q) \/ closedElsewhere(q) PROVE SessionTypeOK'
    <3>1. asked' \in Seq(Questions) /\ open' \in SUBSET Questions
      BY <2>5 DEF askApproval, closedElsewhere, RuntimeTypeOK
    <3> QED
      BY <1>1, <2>5, <3>1 DEF runtimeStep, askApproval, closedElsewhere, sessionVars, RuntimeTypeOK, ObserverTypeOK, RequestTypeOK
  <2> QED
    BY <1>1, <2>1, <2>2, <2>3, <2>4, <2>5 DEF runtimeStep
<1>2. CASE receiveEvent
  <2>1. stream[events.next].own => stream[events.next].turn \in Nat
    <3>1. stream[events.next] \in RunEvent
      BY <1>2 DEF receiveEvent, RuntimeTypeOK, ObserverTypeOK
    <3> QED
      BY <3>1 DEF RunEvent
  <2>2. events' \in [at : {"reading", "handling", "settled"}, next : Nat \ {0}]
    BY <1>2 DEF receiveEvent, ObserverTypeOK
  <2>3. coordinate' \in Nat
    BY <1>2, <2>1 DEF receiveEvent, RequestTypeOK
  <2>4. history' \in History
    BY <1>2, CallbackType DEF receiveEvent, ObserverTypeOK
  <2> QED
    BY <1>2, <2>2, <2>3, <2>4 DEF receiveEvent, runtimeVars, RuntimeTypeOK, ObserverTypeOK, RequestTypeOK
<1>3. CASE receiveAction
  <2>1. history' \in History
    BY <1>3, CallbackType DEF receiveAction, ObserverTypeOK
  <2> QED
    BY <1>3, <2>1 DEF receiveAction, RuntimeTypeOK, ObserverTypeOK, RequestTypeOK
<1>4. CASE beginApprovals
  <2>1. approvals' \in ApprovalObserver /\ wait' \in ApprovalWait
    BY <1>4, PollType DEF beginApprovals, Cursors
  <2> QED
    BY <1>4, <2>1 DEF beginApprovals, runtimeVars, RuntimeTypeOK, ObserverTypeOK, RequestTypeOK
<1>5. CASE answerWait
  <2>1. wait' \in ApprovalWait
    BY <1>5, PageOpen DEF answerWait, ApprovalWait, RuntimeTypeOK
  <2> QED
    BY <1>5, <2>1 DEF answerWait, runtimeVars, RuntimeTypeOK, ObserverTypeOK, RequestTypeOK
<1>6. CASE waitSuperseded
  <2>1. approvals.cursor \in Cursors
    BY <1>6 DEF waitSuperseded, ObserverTypeOK, ApprovalObserver, Listening, Announcing
  <2>2. approvals' \in ApprovalObserver /\ wait' \in ApprovalWait
    BY <1>6, <2>1, PollType DEF waitSuperseded
  <2> QED
    BY <1>6, <2>2 DEF waitSuperseded, runtimeVars, RuntimeTypeOK, ObserverTypeOK, RequestTypeOK
<1>7. CASE receivePage
  <2>1. wait.page \in SUBSET Questions
    BY <1>7 DEF receivePage, ObserverTypeOK, ApprovalWait, Quiet
  <2>2. Announce(wait.page \ pendingApprovals, wait.page) /\ pendingApprovals' = wait.page
    BY <1>7 DEF receivePage, Adopt
  <2>3. approvals' \in ApprovalObserver /\ wait' \in ApprovalWait /\ history' \in History
    BY <2>1, <2>2, AnnounceType DEF Cursors
  <2> QED
    BY <1>7, <2>1, <2>2, <2>3 DEF receivePage, Adopt, runtimeVars, RuntimeTypeOK, ObserverTypeOK, RequestTypeOK
<1>8. CASE pendingHandled
  <2>1. approvals.cursor \in Cursors /\ approvals.left \in SUBSET Questions
    BY <1>8 DEF pendingHandled, ObserverTypeOK, ApprovalObserver, Listening, Announcing
  <2>2. CASE Announce(approvals.left, approvals.cursor)
    <3>1. approvals' \in ApprovalObserver /\ wait' \in ApprovalWait /\ history' \in History
      BY <2>1, <2>2, AnnounceType
    <3> QED
      BY <1>8, <3>1 DEF pendingHandled, runtimeVars, RuntimeTypeOK, ObserverTypeOK, RequestTypeOK
  <2>3. CASE Poll(approvals.cursor) /\ UNCHANGED history
    <3>1. approvals' \in ApprovalObserver /\ wait' \in ApprovalWait
      BY <2>1, <2>3, PollType
    <3> QED
      BY <1>8, <2>3, <3>1 DEF pendingHandled, runtimeVars, RuntimeTypeOK, ObserverTypeOK, RequestTypeOK
  <2> QED
    BY <1>8, <2>2, <2>3 DEF pendingHandled
<1>9. CASE eventHandled \/ eventsFail
  <2>1. events' \in [at : {"reading", "handling", "settled"}, next : Nat \ {0}]
    BY <1>9 DEF eventHandled, eventsFail, ObserverTypeOK
  <2> QED
    BY <1>9, <2>1 DEF eventHandled, eventsFail, runtimeVars, RuntimeTypeOK, ObserverTypeOK, RequestTypeOK
<1>10. CASE actionHandled \/ actionsFail \/ settle
  BY <1>10 DEF actionHandled, actionsFail, settle, runtimeVars, RuntimeTypeOK, ObserverTypeOK, RequestTypeOK
<1>11. CASE approvalsFail
  BY <1>11 DEF approvalsFail, runtimeVars, RuntimeTypeOK, ObserverTypeOK, RequestTypeOK, ApprovalObserver, ApprovalWait
<1>12. ASSUME NEW q \in Questions, decideApproval(q) PROVE SessionTypeOK'
  <2>1. decision' \in Decision
    BY <1>12 DEF decideApproval, Decision
  <2> QED
    BY <1>12, <2>1 DEF decideApproval, runtimeVars, RuntimeTypeOK, ObserverTypeOK, RequestTypeOK
<1>13. CASE serveDecision
  <2>1. decision.of \in Questions
    BY <1>13 DEF serveDecision, RequestTypeOK, Decision, Quiet
  <2>2. decision' \in Decision
    BY <1>13, <2>1 DEF serveDecision, RequestTypeOK, Decision, Quiet
  <2> QED
    BY <1>13, <2>2 DEF serveDecision, RuntimeTypeOK, ObserverTypeOK, RequestTypeOK
<1>14. CASE decided
  <2>1. decision.of \in Questions
    BY <1>14 DEF decided, RequestTypeOK, Decision, Quiet
  <2>2. history' \in History /\ decision' \in Decision
    BY <1>14, <2>1 DEF decided, ObserverTypeOK, History, Decision
  <2> QED
    BY <1>14, <2>2 DEF decided, runtimeVars, RuntimeTypeOK, ObserverTypeOK, RequestTypeOK
<1>15. CASE decisionLost
  BY <1>15 DEF decisionLost, runtimeVars, RuntimeTypeOK, ObserverTypeOK, RequestTypeOK, Decision
<1>16. CASE requestAbort
  <2>1. control' \in Control
    BY <1>16 DEF requestAbort, RequestTypeOK, Control
  <2> QED
    BY <1>16, <2>1 DEF requestAbort, runtimeVars, RuntimeTypeOK, ObserverTypeOK, RequestTypeOK
<1>17. CASE serveControl
  <2>1. control.turn \in Nat /\ run.turn \in Nat
    BY <1>17 DEF serveControl, RequestTypeOK, RuntimeTypeOK, Control, Quiet
  <2>2. control' \in Control
    BY <1>17, <2>1 DEF serveControl, Control
  <2>3. CASE run.state # "ended" /\ run.turn = control.turn
    <3>1. stream' \in Seq(RunEvent)
      BY <1>17, <2>1, <2>3, EmitType DEF serveControl
    <3>2. run' \in [state : {"queued", "running", "ended"}, turn : Nat]
      BY <1>17, <2>3 DEF serveControl, RuntimeTypeOK
    <3> QED
      BY <1>17, <2>2, <2>3, <3>1, <3>2 DEF serveControl, RuntimeTypeOK, ObserverTypeOK, RequestTypeOK
  <2>4. CASE ~(run.state # "ended" /\ run.turn = control.turn)
    BY <1>17, <2>2, <2>4 DEF serveControl, RuntimeTypeOK, ObserverTypeOK, RequestTypeOK
  <2> QED
    BY <2>3, <2>4
<1>18. CASE close \/ siblingsStopped
  BY <1>18 DEF close, siblingsStopped, runtimeVars, RuntimeTypeOK, ObserverTypeOK, RequestTypeOK
<1>19. CASE observerStops
  <2>1. events' \in [at : {"reading", "handling", "settled"}, next : Nat \ {0}]
    BY <1>19 DEF observerStops, ObserverTypeOK
  <2>2. approvals' \in ApprovalObserver /\ wait' \in ApprovalWait
    BY <1>19 DEF observerStops, ObserverTypeOK, ApprovalObserver, ApprovalWait
  <2> QED
    BY <1>19, <2>1, <2>2 DEF observerStops, runtimeVars, RuntimeTypeOK, ObserverTypeOK, RequestTypeOK
<1>20. CASE UNCHANGED clientVars
  BY <1>20 DEF clientVars, runtimeVars, sessionVars, RuntimeTypeOK, ObserverTypeOK, RequestTypeOK
<1> QED
  BY <1>1, <1>2, <1>3, <1>4, <1>5, <1>6, <1>7, <1>8, <1>9, <1>10, <1>11, <1>12, <1>13, <1>14,
     <1>15, <1>16, <1>17, <1>18, <1>19, <1>20 DEF SessionNext, Observe

-----------------------------------------------------------------------------
LEMMA AskedStays ==
  ASSUME asked \in Seq(Questions), NEW p \in Questions, asked' = Append(asked, p)
  PROVE  WasAsked(p)' /\ \A q \in Questions : WasAsked(q) => WasAsked(q)'
<1>1. /\ Len(asked') = Len(asked) + 1 /\ asked'[Len(asked) + 1] = p
      /\ \A i \in 1..Len(asked) : asked'[i] = asked[i]
      /\ Len(asked) \in Nat /\ DOMAIN asked = 1..Len(asked) /\ DOMAIN asked' = 1..(Len(asked) + 1)
  OBVIOUS
<1>2. WasAsked(p)'
  BY <1>1 DEF WasAsked
<1>3. ASSUME NEW q \in Questions, WasAsked(q) PROVE WasAsked(q)'
  <2>1. PICK i \in DOMAIN asked : asked[i] = q
    BY <1>3 DEF WasAsked
  <2>2. i \in DOMAIN asked' /\ asked'[i] = q
    BY <1>1, <2>1
  <2> QED
    BY <2>2 DEF WasAsked
<1> QED
  BY <1>2, <1>3

(* The history but for what the player decided and what was asked again. *)
LEMMA DecidedUntouched ==
  ASSUME DecidedInv, UNCHANGED <<asked, decision, approvals, approvalMutation, wait>>,
         open' \subseteq open, history'.decided = history.decided, history'.again = history.again
  PROVE  DecidedInv'
BY DEF DecidedInv, WasAsked, Answered, NotAskedAgain

LEMMA CallbackKeeps ==
  ASSUME ObserverTypeOK, CallbackBegins(history)
  PROVE  history'.decided = history.decided /\ history'.again = history.again
BY DEF CallbackBegins, ObserverTypeOK, History

(* The observer goes round its loop, or ends. *)
LEMMA DecidedPoll ==
  ASSUME DecidedInv, approvalMutation \in Nat, NEW cursor, Poll(cursor),
         UNCHANGED <<asked, open, decision, approvalMutation, history>>
  PROVE  DecidedInv'
<1>1. /\ approvals'.at = "waiting" /\ approvals'.mutation = approvalMutation
      /\ wait'.state = "asked"
  BY DEF Poll
<1> QED
  BY <1>1 DEF DecidedInv, WasAsked, Answered, NotAskedAgain

LEMMA DecidedEnds ==
  ASSUME DecidedInv, approvals'.at = "settled",
         UNCHANGED <<asked, open, decision, approvalMutation, history>>
  PROVE  DecidedInv'
BY DEF DecidedInv, WasAsked, Answered, NotAskedAgain

LEMMA DecidedAnnounce ==
  ASSUME DecidedInv, ObserverTypeOK, NEW cursor, NEW left, left \cap history.decided = {},
         Announce(left, cursor), UNCHANGED <<asked, open, decision, approvalMutation>>
  PROVE  DecidedInv' /\ history'.decided = history.decided
<1>1. CASE left = {} /\ Poll(cursor) /\ UNCHANGED history
  BY <1>1, DecidedPoll DEF ObserverTypeOK
<1>2. ASSUME NEW q \in left,
             approvals' = [at |-> "handling", cursor |-> cursor,
                           mutation |-> approvalMutation, left |-> left \ {q}],
             CallbackBegins([history EXCEPT !.announced = @ \cup {q},
                                            !.again = @ \/ q \in history.decided])
      PROVE  DecidedInv' /\ history'.decided = history.decided
  <2>1. history'.decided = history.decided /\ (history'.again <=> history.again \/ q \in history.decided)
    BY <1>2 DEF CallbackBegins, ObserverTypeOK, History
  <2>2. q \notin history.decided /\ (left \ {q}) \cap history.decided = {}
    OBVIOUS
  <2>3. /\ approvals'.at = "handling" /\ approvals'.mutation = approvalMutation
        /\ approvals'.left = left \ {q}
    BY <1>2
  <2>4. approvals'.mutation <= approvalMutation
    BY <2>3 DEF ObserverTypeOK
  <2> QED
    BY <2>1, <2>2, <2>3, <2>4 DEF DecidedInv, WasAsked, Answered, NotAskedAgain
<1> QED
  BY <1>1, <1>2 DEF Announce

(* The player's decision, from the request to its answer. *)
LEMMA DecidedRequest ==
  ASSUME DecidedInv, SessionTypeOK,
         (\E q \in Questions : decideApproval(q)) \/ serveDecision \/ decided \/ decisionLost
  PROVE  DecidedInv'
<1> USE DEF SessionTypeOK
<1>1. CASE (\E q \in Questions : decideApproval(q)) \/ decisionLost
  <2>1. decision'.state # "accepted"
    BY <1>1 DEF decideApproval, decisionLost, Quiet
  <2> QED
    BY <1>1, <2>1 DEF decideApproval, decisionLost, runtimeVars, DecidedInv, WasAsked, Answered, NotAskedAgain
<1>2. CASE serveDecision
  <2>1. CASE decision.of \in open
    <3>1. decision'.state = "accepted" /\ decision'.of = decision.of
      BY <1>2, <2>1 DEF serveDecision, RequestTypeOK, Decision, Quiet
    <3>2. WasAsked(decision.of)
      BY <2>1 DEF DecidedInv
    <3> QED
      BY <1>2, <2>1, <3>1, <3>2 DEF serveDecision, DecidedInv, WasAsked, Answered, NotAskedAgain
  <2>2. CASE decision.of \notin open
    <3>1. decision'.state # "accepted"
      BY <1>2, <2>2 DEF serveDecision, Quiet
    <3> QED
      BY <1>2, <2>2, <3>1 DEF serveDecision, DecidedInv, WasAsked, Answered, NotAskedAgain
  <2> QED
    BY <2>1, <2>2
<1>3. CASE decided
  <2>1. history'.decided = history.decided \cup {decision.of} /\ history'.again = history.again
    BY <1>3 DEF decided, ObserverTypeOK, History
  <2>2. decision.of \notin open /\ WasAsked(decision.of) /\ decision'.state # "accepted"
    BY <1>3 DEF decided, DecidedInv, Quiet
  <2>3. approvals.at \in {"waiting", "handling"} => approvals.mutation \in Nat
    BY DEF ObserverTypeOK, ApprovalObserver, Listening, Announcing
  <2>4. approvals.at \in {"waiting", "handling"} =>
          approvals.mutation <= approvalMutation' /\ approvals.mutation # approvalMutation'
    BY <1>3, <2>3 DEF decided, DecidedInv, ObserverTypeOK
  <2> QED
    BY <1>3, <2>1, <2>2, <2>4 DEF decided, runtimeVars, DecidedInv, WasAsked, Answered, NotAskedAgain
<1> QED
  BY <1>1, <1>2, <1>3

(* What the runtime does, and what reaches the session's observer. *)
LEMMA DecidedRuntime ==
  ASSUME DecidedInv, SessionTypeOK, runtimeStep \/ serveControl
  PROVE  DecidedInv'
<1>1. ASSUME NEW p \in Questions, askApproval(p), UNCHANGED sessionVars PROVE DecidedInv'
  <2>1. WasAsked(p)' /\ \A q \in Questions : WasAsked(q) => WasAsked(q)'
    BY <1>1, AskedStays DEF askApproval, SessionTypeOK, RuntimeTypeOK
  <2>2. open \subseteq Questions /\ history.decided \subseteq Questions
    BY DEF SessionTypeOK, RuntimeTypeOK, ObserverTypeOK, History
  <2>3. decision.state = "accepted" => decision.of \in Questions
    BY DEF SessionTypeOK, RequestTypeOK, Decision, Quiet
  <2>4. ~WasAsked(p) /\ open' = open \cup {p}
    BY <1>1 DEF askApproval
  <2>5. p \notin history.decided /\ (decision.state = "accepted" => decision.of # p)
    BY <2>4 DEF DecidedInv
  <2>6. \A q \in open' \cup history.decided : WasAsked(q)'
    BY <2>1, <2>2, <2>4 DEF DecidedInv
  <2>8. UNCHANGED <<decision, approvals, approvalMutation, wait, history>>
    BY <1>1 DEF sessionVars
  <2>9. ASSUME decision.state = "accepted" PROVE WasAsked(decision.of)'
    <3>1. PICK q \in Questions : decision.of = q
      BY <2>3, <2>9
    <3>2. WasAsked(q)'
      BY <2>1, <2>9, <3>1 DEF DecidedInv
    <3> QED
      BY <2>8, <3>1, <3>2 DEF WasAsked
  <2> QED
    BY <2>4, <2>5, <2>6, <2>8, <2>9 DEF DecidedInv, Answered, NotAskedAgain
<1>2. ASSUME NEW p \in Questions, closedElsewhere(p), UNCHANGED sessionVars PROVE DecidedInv'
  BY <1>2, DecidedUntouched DEF closedElsewhere, sessionVars
<1>3. CASE (runStarts \/ turnStarts \/ runEnds \/ otherRun) /\ UNCHANGED sessionVars
  BY <1>3, DecidedUntouched DEF runStarts, turnStarts, runEnds, otherRun, sessionVars
<1>4. CASE serveControl
  BY <1>4, DecidedUntouched DEF serveControl
<1> QED
  BY <1>1, <1>2, <1>3, <1>4 DEF runtimeStep

LEMMA DecidedObserver ==
  ASSUME DecidedInv, SessionTypeOK,
         beginApprovals \/ answerWait \/ waitSuperseded \/ receivePage \/ pendingHandled
         \/ approvalsFail \/ observerStops
  PROVE  DecidedInv'
<1> USE DEF SessionTypeOK
<1>1. CASE beginApprovals \/ waitSuperseded
  BY <1>1, DecidedPoll DEF beginApprovals, waitSuperseded, runtimeVars, ObserverTypeOK
<1>2. CASE answerWait
  <2>1. wait'.page \subseteq open /\ wait' = [state |-> "answered", page |-> listPending]
    BY <1>2, PageOpen DEF answerWait
  <2> QED
    BY <1>2, <2>1 DEF answerWait, runtimeVars, DecidedInv, WasAsked, Answered, NotAskedAgain
<1>3. CASE receivePage
  <2>1. (wait.page \ pendingApprovals) \cap history.decided = {}
    BY <1>3 DEF receivePage, DecidedInv, Answered
  <2> QED
    BY <1>3, <2>1, DecidedAnnounce DEF receivePage, Adopt, runtimeVars
<1>4. CASE pendingHandled
  <2>1. CASE approvals.mutation = approvalMutation
    <3>1. approvals.left \cap history.decided = {}
      BY <1>4, <2>1 DEF pendingHandled, DecidedInv
    <3> QED
      BY <1>4, <2>1, <3>1, DecidedAnnounce DEF pendingHandled, runtimeVars
  <2>2. CASE approvals.mutation # approvalMutation
    BY <1>4, <2>2, DecidedPoll DEF pendingHandled, runtimeVars, ObserverTypeOK
  <2> QED
    BY <2>1, <2>2
<1>5. CASE approvalsFail
  BY <1>5, DecidedEnds DEF approvalsFail, runtimeVars
<1>6. CASE observerStops
  <2>1. CASE approvals'.at = "settled"
    BY <1>6, <2>1, DecidedEnds DEF observerStops, runtimeVars
  <2>2. CASE UNCHANGED <<approvals, wait>>
    BY <1>6, <2>2, DecidedUntouched DEF observerStops, runtimeVars
  <2> QED
    BY <1>6, <2>1, <2>2 DEF observerStops
<1> QED
  BY <1>1, <1>2, <1>3, <1>4, <1>5, <1>6

THEOREM DecidedStep == SessionTypeOK /\ DecidedInv /\ [SessionNext]_clientVars => DecidedInv'
<1> SUFFICES ASSUME SessionTypeOK, DecidedInv, [SessionNext]_clientVars PROVE DecidedInv'
  OBVIOUS
<1>1. CASE receiveEvent \/ receiveAction
  <2>1. CallbackBegins(history) \/ UNCHANGED history
    BY <1>1 DEF receiveEvent, receiveAction
  <2>2. history'.decided = history.decided /\ history'.again = history.again
    BY <2>1, CallbackKeeps DEF SessionTypeOK
  <2> QED
    BY <1>1, <2>2, DecidedUntouched DEF receiveEvent, receiveAction, runtimeVars
<1>2. CASE eventHandled \/ eventsFail \/ actionHandled \/ actionsFail \/ siblingsStopped \/ settle
           \/ requestAbort \/ close \/ UNCHANGED clientVars
  BY <1>2, DecidedUntouched DEF eventHandled, eventsFail, actionHandled, actionsFail, siblingsStopped,
     settle, requestAbort, close, clientVars, runtimeVars, sessionVars
<1> QED
  BY <1>1, <1>2, DecidedRequest, DecidedRuntime, DecidedObserver DEF SessionNext, Observe

-----------------------------------------------------------------------------
LEMMA PendingUntouched ==
  ASSUME PendingInv, UNCHANGED <<pendingApprovals, approvals>>, history'.decided = history.decided
  PROVE  PendingInv'
BY DEF PendingInv

LEMMA PendingPoll ==
  ASSUME NEW cursor, Poll(cursor),
         cursor # NoCursor => pendingApprovals = cursor \ history.decided,
         UNCHANGED <<pendingApprovals, history>>
  PROVE  PendingInv'
BY DEF Poll, PendingInv, NoCursor

LEMMA PendingAnnounce ==
  ASSUME NEW cursor, NEW left, Announce(left, cursor), history'.decided = history.decided,
         cursor # NoCursor => pendingApprovals' = cursor \ history.decided
  PROVE  PendingInv'
<1>1. approvals'.cursor = cursor
  <2>1. CASE Poll(cursor)
    BY <2>1 DEF Poll
  <2>2. ASSUME NEW q \in left,
               approvals' = [at |-> "handling", cursor |-> cursor,
                             mutation |-> approvalMutation, left |-> left \ {q}]
        PROVE  approvals'.cursor = cursor
    BY <2>2
  <2> QED
    BY <2>1, <2>2 DEF Announce
<1> QED
  BY <1>1 DEF PendingInv, NoCursor

THEOREM PendingStep ==
  SessionTypeOK /\ DecidedInv /\ PendingInv /\ [SessionNext]_clientVars => PendingInv'
<1> SUFFICES ASSUME SessionTypeOK, DecidedInv, PendingInv, [SessionNext]_clientVars PROVE PendingInv'
  OBVIOUS
<1> USE DEF SessionTypeOK
<1>1. CASE receiveEvent \/ receiveAction
  <2>1. CallbackBegins(history) \/ UNCHANGED history
    BY <1>1 DEF receiveEvent, receiveAction
  <2>2. history'.decided = history.decided
    BY <2>1, CallbackKeeps
  <2> QED
    BY <1>1, <2>2, PendingUntouched DEF receiveEvent, receiveAction
<1>2. CASE beginApprovals
  BY <1>2, PendingPoll DEF beginApprovals
<1>3. CASE waitSuperseded
  BY <1>3, PendingPoll DEF waitSuperseded, PendingInv
<1>4. CASE receivePage
  <2>1. wait.page \cap history.decided = {} /\ wait.page \ history.decided = wait.page
    BY <1>4 DEF receivePage, DecidedInv, Answered
  <2>2. (wait.page \ pendingApprovals) \cap history.decided = {}
    BY <2>1
  <2>3. /\ Announce(wait.page \ pendingApprovals, wait.page) /\ pendingApprovals' = wait.page
        /\ UNCHANGED <<asked, open, decision, approvalMutation>>
    BY <1>4 DEF receivePage, Adopt, runtimeVars
  <2>4. history'.decided = history.decided
    BY <2>2, <2>3, DecidedAnnounce
  <2> QED
    BY <2>1, <2>3, <2>4, PendingAnnounce
<1>5. CASE pendingHandled
  <2>1. approvals.cursor # NoCursor => pendingApprovals' = approvals.cursor \ history.decided
    BY <1>5 DEF pendingHandled, PendingInv
  <2>2. CASE approvals.mutation = approvalMutation
    <3>1. approvals.left \cap history.decided = {}
      BY <1>5, <2>2 DEF pendingHandled, DecidedInv
    <3>2. Announce(approvals.left, approvals.cursor) /\ UNCHANGED <<asked, open, decision, approvalMutation>>
      BY <1>5, <2>2 DEF pendingHandled, runtimeVars
    <3>3. history'.decided = history.decided
      BY <3>1, <3>2, DecidedAnnounce
    <3> QED
      BY <2>1, <3>2, <3>3, PendingAnnounce
  <2>3. CASE approvals.mutation # approvalMutation
    BY <1>5, <2>3, PendingPoll DEF pendingHandled, PendingInv
  <2> QED
    BY <2>2, <2>3
<1>6. CASE approvalsFail \/ observerStops
  <2>1. CASE approvals'.at = "settled"
    BY <2>1 DEF PendingInv
  <2>2. CASE UNCHANGED approvals
    BY <1>6, <2>2, PendingUntouched DEF approvalsFail, observerStops
  <2> QED
    BY <1>6, <2>1, <2>2 DEF approvalsFail, observerStops
<1>7. CASE decided
  <2>1. history'.decided = history.decided \cup {decision.of}
    BY <1>7 DEF decided, ObserverTypeOK, History
  <2> QED
    BY <1>7, <2>1 DEF decided, PendingInv
<1>8. CASE runtimeStep
  BY <1>8, PendingUntouched DEF runtimeStep, sessionVars
<1>9. CASE eventHandled \/ eventsFail \/ actionHandled \/ actionsFail \/ siblingsStopped \/ settle
           \/ answerWait \/ serveDecision \/ decisionLost \/ requestAbort \/ serveControl \/ close
           \/ (\E q \in Questions : decideApproval(q)) \/ UNCHANGED clientVars
  BY <1>9, PendingUntouched DEF eventHandled, eventsFail, actionHandled, actionsFail, siblingsStopped,
     settle, answerWait, serveDecision, decisionLost, requestAbort, serveControl, close, decideApproval,
     clientVars, sessionVars
<1> QED
  BY <1>1, <1>2, <1>3, <1>4, <1>5, <1>6, <1>7, <1>8, <1>9 DEF SessionNext, Observe

THEOREM AbortStep == AbortInv /\ SessionTypeOK /\ [SessionNext]_clientVars => AbortInv'
<1> SUFFICES ASSUME AbortInv, SessionTypeOK, [SessionNext]_clientVars PROVE AbortInv'
  OBVIOUS
<1>1. CASE runtimeStep
  <2>1. control' = control /\ (run.state = "ended" => run' = run)
    BY <1>1 DEF runtimeStep, sessionVars, runStarts, turnStarts, runEnds, otherRun, askApproval, closedElsewhere
  <2> QED
    BY <2>1 DEF AbortInv
<1>2. CASE serveControl
  <2>1. CASE run.state # "ended" /\ run.turn = control.turn
    <3>1. run'.state = "ended" /\ run'.turn = run.turn /\ control'.turn = control.turn
      BY <1>2, <2>1 DEF serveControl, SessionTypeOK, RuntimeTypeOK
    <3> QED
      BY <2>1, <3>1 DEF AbortInv
  <2>2. CASE ~(run.state # "ended" /\ run.turn = control.turn)
    BY <1>2, <2>2 DEF serveControl, AbortInv
  <2> QED
    BY <2>1, <2>2
<1>3. CASE requestAbort
  BY <1>3 DEF requestAbort, AbortInv
<1>4. CASE UNCHANGED <<run, control>>
  BY <1>4 DEF AbortInv
<1> QED
  BY <1>1, <1>2, <1>3, <1>4 DEF SessionNext, Observe, clientVars, runtimeVars, sessionVars,
     receiveEvent, eventHandled, receiveAction, actionHandled, beginApprovals, answerWait, waitSuperseded,
     receivePage, Adopt, pendingHandled, siblingsStopped, observerStops, settle, eventsFail, actionsFail,
     approvalsFail, decideApproval, serveDecision, decided, decisionLost, close

-----------------------------------------------------------------------------
(* The run's own events after its last one are none. *)
LEMMA StreamAppended ==
  ASSUME StreamInv, SessionTypeOK, NEW event \in RunEvent, stream' = Append(stream, event),
         event.own => run.state # "ended",
         (event.own /\ event.type = "completed") \/ run.state = "ended" => run'.state = "ended",
         UNCHANGED <<events, winner, completion>>
  PROVE  StreamInv'
<1>1. /\ Len(stream) \in Nat /\ DOMAIN stream = 1..Len(stream)
      /\ DOMAIN stream' = 1..(Len(stream) + 1)
      /\ \A i \in 1..Len(stream) : stream'[i] = stream[i]
      /\ stream'[Len(stream) + 1] = event
  BY DEF SessionTypeOK, RuntimeTypeOK
<1>2. ASSUME NEW i \in DOMAIN stream', Closing(i)'
      PROVE  run'.state = "ended" /\ \A j \in DOMAIN stream' : stream'[j].own => j <= i
  <2>1. CASE i = Len(stream) + 1
    BY <1>1, <1>2, <2>1 DEF Closing
  <2>2. CASE i # Len(stream) + 1
    <3>1. i \in 1..Len(stream) /\ Closing(i)
      BY <1>1, <1>2, <2>2 DEF Closing
    <3>2. run.state = "ended" /\ \A j \in DOMAIN stream : stream[j].own => j <= i
      BY <1>1, <3>1 DEF StreamInv
    <3>3. ~event.own
      BY <3>2
    <3> QED
      BY <1>1, <3>1, <3>2, <3>3
  <2> QED
    BY <2>1, <2>2
<1>3. events.at = "handling" => events.next \in DOMAIN stream' /\ stream'[events.next].own
  BY <1>1 DEF StreamInv
<1>4. winner = "completed" =>
        events.at = "settled" /\ events.next \in DOMAIN stream' /\ Closing(events.next)'
  BY <1>1 DEF StreamInv, Closing
<1> QED
  BY <1>2, <1>3, <1>4 DEF StreamInv, Closing

LEMMA StreamUntouched ==
  ASSUME StreamInv, UNCHANGED <<stream, run, events, completion>>,
         winner' = winner \/ (winner' # "completed" /\ winner = Unsettled)
  PROVE  StreamInv'
BY DEF StreamInv, Closing, Unsettled

THEOREM StreamStep == StreamInv /\ SessionTypeOK /\ [SessionNext]_clientVars => StreamInv'
<1> SUFFICES ASSUME StreamInv, SessionTypeOK, [SessionNext]_clientVars PROVE StreamInv'
  OBVIOUS
<1> USE DEF SessionTypeOK
<1>1. CASE runtimeStep
  <2>1. CASE runStarts \/ turnStarts
    <3>1. PICK type \in {"started", "turn"}, turn \in Nat :
            stream' = Append(stream, [own |-> TRUE, type |-> type, turn |-> turn])
      <4>1. run.turn + 1 \in Nat
        BY DEF RuntimeTypeOK
      <4> QED
        BY <2>1, <4>1 DEF runStarts, turnStarts, Emit
    <3>2. [own |-> TRUE, type |-> type, turn |-> turn] \in RunEvent
      BY DEF RunEvent
    <3>3. run.state # "ended"
      BY <2>1 DEF runStarts, turnStarts
    <3> QED
      BY <1>1, <3>1, <3>2, <3>3, StreamAppended DEF runtimeStep, sessionVars
  <2>2. CASE runEnds
    <3>1. [own |-> TRUE, type |-> "completed", turn |-> run.turn] \in RunEvent
      BY DEF RunEvent, RuntimeTypeOK
    <3>2. run.state # "ended" /\ run'.state = "ended"
      BY <2>2 DEF runEnds, RuntimeTypeOK
    <3>3. stream' = Append(stream, [own |-> TRUE, type |-> "completed", turn |-> run.turn])
      BY <2>2 DEF runEnds, Emit
    <3> QED
      BY <1>1, <3>1, <3>2, <3>3, StreamAppended DEF runtimeStep, sessionVars
  <2>3. CASE otherRun
    <3>1. [own |-> FALSE, type |-> "queued", turn |-> 0] \in RunEvent
      BY DEF RunEvent
    <3> QED
      BY <1>1, <2>3, <3>1, StreamAppended DEF runtimeStep, otherRun, sessionVars
  <2>4. CASE UNCHANGED <<stream, run>>
    BY <1>1, <2>4, StreamUntouched DEF runtimeStep, sessionVars
  <2> QED
    BY <1>1, <2>1, <2>2, <2>3, <2>4 DEF runtimeStep, askApproval, closedElsewhere
<1>2. CASE serveControl
  <2>1. CASE run.state # "ended" /\ run.turn = control.turn
    <3>1. [own |-> TRUE, type |-> "completed", turn |-> run.turn] \in RunEvent
      BY DEF RunEvent, RuntimeTypeOK
    <3>2. run'.state = "ended"
      BY <1>2, <2>1 DEF serveControl, RuntimeTypeOK
    <3>3. stream' = Append(stream, [own |-> TRUE, type |-> "completed", turn |-> run.turn])
      BY <1>2, <2>1 DEF serveControl, Emit
    <3> QED
      BY <1>2, <2>1, <3>1, <3>2, <3>3, StreamAppended DEF serveControl
  <2>2. CASE ~(run.state # "ended" /\ run.turn = control.turn)
    BY <1>2, <2>2, StreamUntouched DEF serveControl
  <2> QED
    BY <2>1, <2>2
<1>3. CASE receiveEvent
  <2>1. events.next \in DOMAIN stream
    BY <1>3 DEF receiveEvent, RuntimeTypeOK, ObserverTypeOK
  <2>2. winner # "completed" /\ winner' = winner /\ completion' = completion /\ completion # "completed"
    BY <1>3 DEF receiveEvent, StreamInv
  <2>3. events'.at = "handling" => events'.next = events.next /\ stream[events.next].own
    BY <1>3 DEF receiveEvent, ObserverTypeOK
  <2> QED
    BY <1>3, <2>1, <2>2, <2>3 DEF receiveEvent, runtimeVars, StreamInv, Closing
<1>4. CASE eventHandled
  <2>1. events.next \in DOMAIN stream /\ stream[events.next].own
    BY <1>4 DEF eventHandled, StreamInv
  <2>2. winner # "completed" /\ completion # "completed" /\ UNCHANGED <<stream, run, completion>>
    BY <1>4 DEF eventHandled, StreamInv, runtimeVars
  <2>3. CASE stream[events.next].type = "completed"
    <3>1. events'.at = "settled" /\ events'.next = events.next
      BY <1>4, <2>3 DEF eventHandled, ObserverTypeOK
    <3> QED
      BY <2>1, <2>2, <2>3, <3>1 DEF StreamInv, Closing
  <2>4. CASE stream[events.next].type # "completed"
    <3>1. events'.at = "reading" /\ winner' = winner
      BY <1>4, <2>4 DEF eventHandled
    <3> QED
      BY <2>2, <3>1 DEF StreamInv, Closing
  <2> QED
    BY <2>3, <2>4
<1>5. CASE eventsFail
  <2>1. winner # "completed" /\ completion # "completed" /\ UNCHANGED <<stream, run, completion>>
    BY <1>5 DEF eventsFail, StreamInv, runtimeVars
  <2>2. winner' # "completed" /\ events'.at = "settled"
    BY <1>5, <2>1 DEF eventsFail, Race, ObserverTypeOK
  <2> QED
    BY <2>1, <2>2 DEF StreamInv, Closing
<1>6. CASE actionsFail \/ approvalsFail
  <2>1. winner' = winner \/ (winner' # "completed" /\ winner = Unsettled)
    BY <1>6 DEF actionsFail, approvalsFail, Race
  <2> QED
    BY <1>6, <2>1, StreamUntouched DEF actionsFail, approvalsFail, runtimeVars
<1>7. CASE observerStops
  <2>1. winner' = winner \/ (winner' # "completed" /\ winner = Unsettled)
    BY <1>7 DEF observerStops, Race, RequestTypeOK
  <2>2. CASE UNCHANGED events
    BY <1>7, <2>1, <2>2, StreamUntouched DEF observerStops, runtimeVars
  <2>3. CASE events.at # "settled" /\ events' = [events EXCEPT !.at = "settled"]
    <3>1. winner # "completed" /\ winner' # "completed"
      BY <2>1, <2>3 DEF StreamInv
    <3>2. events'.at = "settled" /\ UNCHANGED <<stream, run, completion>> /\ completion # "completed"
      BY <1>7, <2>3, <3>1 DEF observerStops, runtimeVars, StreamInv, ObserverTypeOK
    <3> QED
      BY <3>1, <3>2 DEF StreamInv, Closing
  <2> QED
    BY <1>7, <2>2, <2>3 DEF observerStops
<1>8. CASE settle
  BY <1>8 DEF settle, runtimeVars, StreamInv, Closing
<1>9. CASE UNCHANGED <<stream, run, events, winner, completion>>
  BY <1>9, StreamUntouched
<1> QED
  BY <1>1, <1>2, <1>3, <1>4, <1>5, <1>6, <1>7, <1>8, <1>9 DEF SessionNext, Observe, clientVars, runtimeVars,
     sessionVars, receiveAction, actionHandled, beginApprovals, answerWait, waitSuperseded, receivePage, Adopt,
     pendingHandled, siblingsStopped, decideApproval, serveDecision, decided, decisionLost, requestAbort, close

-----------------------------------------------------------------------------
(* An observer that settled does nothing more, so no callback begins late. *)
LEMMA WithinKept ==
  ASSUME WithinInv, UNCHANGED completion,
         events.at = "settled" => events'.at = "settled",
         actions.at = "settled" => actions'.at = "settled",
         approvals.at = "settled" => approvals'.at = "settled",
         history'.late => history.late
  PROVE  WithinInv'
BY DEF WithinInv

LEMMA BegunInTime ==
  ASSUME WithinInv, NEW change \in History, CallbackBegins(change), change.late = history.late,
         completion = Unsettled
  PROVE  ~history'.late
BY DEF WithinInv, CallbackBegins, History

LEMMA WithinAnnounce ==
  ASSUME WithinInv, ObserverTypeOK, NEW cursor, NEW left \in SUBSET Questions, Announce(left, cursor),
         completion = Unsettled, UNCHANGED completion
  PROVE  WithinInv'
<1>1. ~history'.late
  <2>1. CASE UNCHANGED history
    BY <2>1 DEF WithinInv
  <2>2. ASSUME NEW q \in left,
               CallbackBegins([history EXCEPT !.announced = @ \cup {q},
                                              !.again = @ \/ q \in history.decided])
        PROVE  ~history'.late
    <3>1. [history EXCEPT !.announced = @ \cup {q}, !.again = @ \/ q \in history.decided] \in History
      BY DEF ObserverTypeOK, History
    <3>2. [history EXCEPT !.announced = @ \cup {q}, !.again = @ \/ q \in history.decided].late = history.late
      BY DEF ObserverTypeOK, History
    <3> QED
      BY <2>2, <3>1, <3>2, BegunInTime
  <2> QED
    BY <2>1, <2>2 DEF Announce
<1> QED
  BY <1>1 DEF WithinInv

THEOREM WithinStep == WithinInv /\ SessionTypeOK /\ [SessionNext]_clientVars => WithinInv'
<1> SUFFICES ASSUME WithinInv, SessionTypeOK, [SessionNext]_clientVars PROVE WithinInv'
  OBVIOUS
<1> USE DEF SessionTypeOK
<1>1. CASE receiveEvent
  <2>1. completion = Unsettled /\ completion' = completion
    BY <1>1 DEF receiveEvent, WithinInv
  <2>2. ~history'.late
    BY <1>1, <2>1, BegunInTime DEF receiveEvent, WithinInv, ObserverTypeOK
  <2> QED
    BY <2>1, <2>2 DEF WithinInv
<1>2. CASE receiveAction
  <2>1. completion = Unsettled /\ completion' = completion
    BY <1>2 DEF receiveAction, WithinInv
  <2>2. ~history'.late
    BY <1>2, <2>1, BegunInTime DEF receiveAction, ObserverTypeOK
  <2> QED
    BY <2>1, <2>2 DEF WithinInv
<1>3. CASE receivePage
  <2>1. completion = Unsettled /\ completion' = completion
    BY <1>3 DEF receivePage, Adopt, WithinInv
  <2>2. wait.page \in SUBSET Questions
    BY <1>3 DEF receivePage, ObserverTypeOK, ApprovalWait, Quiet
  <2> QED
    BY <1>3, <2>1, <2>2, WithinAnnounce DEF receivePage, Adopt
<1>4. CASE pendingHandled
  <2>1. completion = Unsettled /\ completion' = completion
    BY <1>4 DEF pendingHandled, WithinInv
  <2>2. approvals.left \in SUBSET Questions
    BY <1>4 DEF pendingHandled, ObserverTypeOK, ApprovalObserver, Listening, Announcing
  <2>3. CASE UNCHANGED history
    BY <2>1, <2>3 DEF WithinInv
  <2>4. CASE Announce(approvals.left, approvals.cursor)
    BY <2>1, <2>2, <2>4, WithinAnnounce
  <2> QED
    BY <1>4, <2>3, <2>4 DEF pendingHandled
<1>5. CASE beginApprovals \/ waitSuperseded
  BY <1>5 DEF beginApprovals, waitSuperseded, WithinInv
<1>6. CASE settle
  BY <1>6 DEF settle, WithinInv, Observers
<1>7. CASE decided
  <2>1. history'.late = history.late
    BY <1>7 DEF decided, ObserverTypeOK, History
  <2> QED
    BY <1>7, <2>1, WithinKept DEF decided
<1>8. CASE eventHandled \/ eventsFail \/ actionHandled \/ actionsFail \/ approvalsFail \/ observerStops
  BY <1>8, WithinKept DEF eventHandled, eventsFail, actionHandled, actionsFail, approvalsFail, observerStops,
     ObserverTypeOK
<1>9. CASE UNCHANGED <<events, actions, approvals, history, completion>>
  BY <1>9, WithinKept
<1> QED
  BY <1>1, <1>2, <1>3, <1>4, <1>5, <1>6, <1>7, <1>8, <1>9 DEF SessionNext, Observe, clientVars, sessionVars,
     runtimeStep, answerWait, siblingsStopped, decideApproval, serveDecision, decisionLost, requestAbort,
     serveControl, close

-----------------------------------------------------------------------------
LEMMA SessionStarts == SessionInit => SessionInv
<1> SUFFICES ASSUME SessionInit PROVE SessionInv
  OBVIOUS
<1>1. [own |-> TRUE, type |-> "queued", turn |-> 0] \in RunEvent
  BY DEF RunEvent
<1>2. stream \in Seq(RunEvent) /\ DOMAIN stream = {1} /\ ~Closing(1)
  BY <1>1 DEF SessionInit, Closing
<1>3. SessionTypeOK
  BY <1>2 DEF SessionInit, SessionTypeOK, RuntimeTypeOK, ObserverTypeOK, RequestTypeOK, ApprovalObserver,
     ApprovalWait, Decision, Control, History, Quiet
<1> QED
  BY <1>2, <1>3 DEF SessionInit, SessionInv, DecidedInv, Answered, NotAskedAgain, PendingInv, AbortInv,
     StreamInv, WithinInv, Quiet, Unsettled, WasAsked

(* The inductive invariant of a run session. *)
THEOREM RunSessionInvariant == SessionSpec => []SessionInv
<1>1. SessionInv /\ [SessionNext]_clientVars => SessionInv'
  BY SessionTypeStep, DecidedStep, PendingStep, AbortStep, StreamStep, WithinStep DEF SessionInv
<1> QED
  BY <1>1, SessionStarts, PTL DEF SessionSpec

LEMMA CompletedHandedOver ==
  ASSUME SessionInv PROVE CallbacksWithinSession
<1>1. CASE completion = "completed"
  <2>1. events.next \in DOMAIN stream /\ Closing(events.next)
    BY <1>1 DEF SessionInv, StreamInv
  <2> QED
    BY <2>1 DEF SessionInv, StreamInv, WithinInv, CallbacksWithinSession
<1>2. CASE completion # "completed"
  BY <1>2 DEF SessionInv, WithinInv, CallbacksWithinSession
<1> QED
  BY <1>1, <1>2

LEMMA HeldIsPending ==
  ASSUME SessionInv PROVE PendingAgrees
<1> SUFFICES ASSUME approvals.at = "waiting", approvals.cursor = listPending
             PROVE  pendingApprovals = listPending
  BY DEF PendingAgrees
<1>1. listPending \subseteq open /\ open \subseteq Questions
  BY PageOpen DEF SessionInv, SessionTypeOK, RuntimeTypeOK
<1>2. approvals.cursor # NoCursor
  BY <1>1, CursorKinds
<1>3. open \cap history.decided = {}
  BY DEF SessionInv, DecidedInv
<1> QED
  BY <1>1, <1>2, <1>3 DEF SessionInv, PendingInv

(* For any number of approvals, page sizes, turns and deliveries: what the *)
(* player decided is not asked again, what the session holds is what the   *)
(* runtime waits for, an abort meets the turn the player saw, and no       *)
(* callback begins outside the session.                                    *)
THEOREM DecisionsStay == SessionSpec => []DecidedStaysDecided
<1>1. SessionInv => DecidedStaysDecided
  BY HeldIsPending, CompletedHandedOver DEF SessionInv, DecidedInv, AbortInv, AbortedWhereSeen, DecidedStaysDecided
<1> QED
  BY <1>1, RunSessionInvariant, PTL
=============================================================================
