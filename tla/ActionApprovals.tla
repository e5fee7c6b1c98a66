--------------------------- MODULE ActionApprovals ---------------------------
(***************************************************************************)
(* The approval store that keeps its records in memory: what any store of  *)
(* approvals promises.                                                     *)
(***************************************************************************)
EXTENDS ActionApprovalRecords

VARIABLE approvals

Revisions == 1..3

ensureApproval(id, at) ==
  /\ approvals[id] = NoApproval
  /\ approvals' = [approvals EXCEPT ![id] = Requested(at)]

decide(id, revision, decision, at) ==
  /\ approvals[id] # NoApproval
  /\ CanDecide(approvals[id], revision, at)
  /\ approvals' = [approvals EXCEPT ![id] = decideActionApprovalRecord(@, decision, at)]

consume(id, revision, op, current, at) ==
  /\ approvals[id] # NoApproval
  /\ CanConsume(approvals[id], id, revision, op, current)
  /\ approvals' = [approvals EXCEPT ![id] = consumeActionApprovalRecord(@, at)]

expire(id, revision, at) ==
  /\ approvals[id] # NoApproval
  /\ CanExpire(approvals[id], revision, at)
  /\ approvals' = [approvals EXCEPT ![id] = expireActionApprovalRecord(@)]

TerminalApproval(r) == r.status \in {"rejected", "consumed", "expired"}

(* A batch of terminal records selected by age and retained IDs.           *)
purgeTerminal(batch) ==
  /\ batch # {} /\ \A id \in batch : TerminalApproval(approvals[id])
  /\ approvals' = [id \in ApprovalIds |-> IF id \in batch THEN NoApproval ELSE approvals[id]]

Init == approvals = [id \in ApprovalIds |-> NoApproval]

Next ==
  \/ \E id \in ApprovalIds, at \in Times : ensureApproval(id, at)
  \/ \E id \in ApprovalIds, revision \in Revisions, at \in Times :
       \/ \E decision \in {"approved", "rejected"} : decide(id, revision, decision, at)
       \/ \E current \in Authorities : consume(id, revision, id[1], current, at)
       \/ expire(id, revision, at)
  \/ \E batch \in SUBSET ApprovalIds : purgeTerminal(batch)

Spec == Init /\ [][Next]_approvals
=============================================================================
