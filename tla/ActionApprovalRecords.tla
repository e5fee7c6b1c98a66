------------------------ MODULE ActionApprovalRecords ------------------------
(***************************************************************************)
(* The approval records of dangerous Actions.  An approval is              *)
(* named by its content, so the one of an Operation under another game     *)
(* authority is another approval; asking again for the same one returns    *)
(* the record on file, with its old deadline.                              *)
(***************************************************************************)
EXTENDS Integers

CONSTANTS
  Operations,   \* Actions of one actor that need a player's consent
  MaxAuthority, \* revisions of the game's authority, from 1
  Duration,     \* how long a request may be decided and spent
  MaxTime       \* the wall clock takes the values 0..MaxTime in any order

Times == 0..MaxTime
Authorities == 1..MaxAuthority
ApprovalIds == Operations \X Authorities
Never == -1

NoApproval == [status |-> "absent"]

ActionApprovalRecord ==
  [status : {"pending", "approved", "rejected", "consumed", "expired"},
   revision : 1..3, requestedAt : Times, expiresAt : Nat,
   decision : {"none", "approved", "rejected"},
   decidedAt : Times \cup {Never}, consumedAt : Times \cup {Never},
   updatedAt : Nat]

(* What a load demands of a record beyond the types of its fields.         *)
assertActionApprovalRecord(r) ==
  /\ r \in ActionApprovalRecord
  /\ r.expiresAt > r.requestedAt
  /\ r.decision # "none" => r.requestedAt <= r.decidedAt /\ r.decidedAt < r.expiresAt
  /\ r.status = "pending" => r.decision = "none"
  /\ r.status \in {"approved", "rejected"} => r.decision = r.status /\ r.updatedAt = r.decidedAt
  /\ r.status = "consumed" => r.decision = "approved"
  /\ r.status = "expired" => r.updatedAt = r.expiresAt
  /\ r.status = "consumed" <=> r.consumedAt # Never
  /\ r.consumedAt # Never => /\ r.decidedAt <= r.consumedAt
                             /\ r.consumedAt < r.expiresAt
                             /\ r.updatedAt = r.consumedAt

-----------------------------------------------------------------------------
(* Transitions *)

Requested(at) ==
  [status |-> "pending", revision |-> 1, requestedAt |-> at,
   expiresAt |-> at + Duration, decision |-> "none", decidedAt |-> Never,
   consumedAt |-> Never, updatedAt |-> at]

advanceApproval(r, status, at) ==
  [r EXCEPT !.status = status, !.revision = r.revision + 1, !.updatedAt = at]

expired(r) == advanceApproval(r, "expired", r.expiresAt)

CanDecide(r, revision, at) ==
  r.status = "pending" /\ r.revision = revision /\ at >= r.requestedAt

(* Deciding at the deadline or later expires the request instead.          *)
decideActionApprovalRecord(r, decision, at) ==
  IF r.expiresAt <= at THEN expired(r)
  ELSE [advanceApproval(r, decision, at) EXCEPT !.decision = decision, !.decidedAt = at]

CanConsume(r, id, revision, op, current) ==
  /\ r.status = "approved" /\ r.revision = revision
  /\ id = <<op, current>>

consumeActionApprovalRecord(r, at) ==
  IF r.expiresAt <= at THEN expired(r)
  ELSE [advanceApproval(r, "consumed", at) EXCEPT !.consumedAt = at]

CanExpire(r, revision, at) ==
  r.status = "pending" /\ r.revision = revision /\ at >= r.expiresAt

expireActionApprovalRecord(r) == expired(r)
=============================================================================
