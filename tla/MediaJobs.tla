----------------------------- MODULE MediaJobs -----------------------------
(***************************************************************************)
(* The service that has media generated by a provider: a job is stored     *)
(* before the provider is asked, and each attempt of it is submitted once. *)
(* Calls of the service interleave at every access to the store and to the *)
(* provider; the store changes a job in one step, and only then does a     *)
(* caller learn what the job has become.  Calls share a number of places   *)
(* with the provider; the others wait.                                     *)
(*                                                                         *)
(* The provider is external: it answers anything, throws, or answers late. *)
(* An attempt's outputs are bytes of size one.  A caller's optional        *)
(* expected revision only refuses more calls and is left out.              *)
(***************************************************************************)
EXTENDS Integers, Sequences, FiniteSets, FiniteSetsExt

CONSTANTS
  Jobs, Callers,
  Outputs,            \* ordinals of what an attempt may yield
  MaxAttemptsPerJob,
  MaxBundleBytes,
  MaxConcurrentCalls, MaxQueuedCalls,
  Aborting,           \* the callers that may give up a call
  MaxIds,             \* bound: attempts ever created
  MaxStops            \* bound: crashes of the process

ASSUME MediaAssumption ==
  /\ IsFiniteSet(Callers) /\ IsFiniteSet(Outputs) /\ Outputs \subseteq Nat
  /\ MaxAttemptsPerJob \in Nat \ {0} /\ MaxBundleBytes \in Nat
  /\ MaxConcurrentCalls \in Nat \ {0} /\ MaxQueuedCalls \in Nat
  /\ MaxIds \in Nat /\ MaxStops \in Nat

VARIABLES
  mediaJobs,  \* job -> its attempts, oldest first; none before it is created
  mediaRefused, \* whether the store ever refused a change
  mediaCalls, \* caller -> what its call has come to
  admission,  \* the callers with a place, and those waiting for one:
              \* each with the callers that came before it
  submitted,  \* attempt -> how often the provider was asked to start it
  stops

stored == <<mediaJobs, mediaRefused>>
mediaVars == <<stored, mediaCalls, admission, submitted, stops>>

Ids == 1..MaxIds
TERMINAL == {"succeeded", "partially_succeeded", "failed", "cancelled"}
NoOutputs == [o \in Outputs |-> "none"]
NoBundle == [disposition |-> "none", resources |-> {}, failures |-> {}]

newAttempt(id) ==
  [id |-> id, status |-> "queued", disposition |-> "active", cancellation |-> "not_requested",
   handle |-> FALSE, settling |-> "none", settled |-> NoOutputs, bundle |-> NoBundle,
   failure |-> "none"]

Nobody == [c \in {} |-> {}]
NoCall == [stage |-> "idle", job |-> "none", id |-> 0, aborted |-> FALSE,
           answer |-> [status |-> "none"], published |-> {}]

MediaInit ==
  /\ mediaJobs = [j \in Jobs |-> <<>>] /\ mediaRefused = FALSE
  /\ mediaCalls = [c \in Callers |-> NoCall]
  /\ admission = [active |-> {}, waiting |-> Nobody]
  /\ submitted = [id \in Ids |-> 0] /\ stops = 0

-----------------------------------------------------------------------------
(* Places with the provider *)

HasRoom(adm) == Cardinality(adm.active) < MaxConcurrentCalls
CanReserve == HasRoom(admission) \/ Cardinality(DOMAIN admission.waiting) < MaxQueuedCalls

Enters(adm, c) == [adm EXCEPT !.active = @ \cup {c}]
LinesUp(adm, c) ==
  [adm EXCEPT !.waiting = [d \in DOMAIN @ \cup {c} |-> IF d = c THEN DOMAIN @ ELSE @[d]]]

reserve(c) ==
  /\ CanReserve
  /\ admission' = IF HasRoom(admission) THEN Enters(admission, c) ELSE LinesUp(admission, c)

Left(adm, cs) ==
  [active |-> adm.active \ cs,
   waiting |-> [d \in DOMAIN adm.waiting \ cs |-> adm.waiting[d] \ cs]]
FirstWaiting(adm) == CHOOSE c \in DOMAIN adm.waiting : adm.waiting[c] = {}

(* A place that is given back goes to the first that waits.                *)
Released(adm, cs) ==
  LET left == Left(adm, cs) IN
  IF DOMAIN left.waiting # {} /\ HasRoom(left)
  THEN Enters(Left(left, {FirstWaiting(left)}), FirstWaiting(left)) ELSE left

(* Where a call may be that holds a place or waits for one.                *)
AdmittedStages == {"create", "restart", "queued", "claimed", "started", "read", "cancel", "apply"}

Waiting(c) == c \in DOMAIN admission.waiting

-----------------------------------------------------------------------------
(* The records a store accepts *)

Of(settled, what) == {o \in Outputs : settled[o] = what}

captureBundle(b) == Cardinality(b.resources) <= MaxBundleBytes /\ b.resources \cap b.failures = {}

assertBundleLinks(a) ==
  IF a.status \in {"succeeded", "partially_succeeded"}
  THEN a.bundle = [disposition |-> IF a.disposition = "abandoned" THEN "late"
                                   ELSE IF a.status = "succeeded" THEN "complete" ELSE "partial",
                   resources |-> Of(a.settled, "published"), failures |-> Of(a.settled, "failed")]
  ELSE a.bundle = NoBundle

assertAttemptState(a) ==
  LET published == Of(a.settled, "published") failed == Of(a.settled, "failed") IN
  /\ a.disposition = "abandoned" => a.cancellation # "not_requested"
  /\ a.disposition = "active" /\ a.cancellation # "not_requested" =>
       a.status = "cancelled" /\ a.cancellation = "confirmed"
  /\ a.status = "pending" => a.disposition = "active"
  /\ a.status = "queued" => a.disposition = "active" /\ ~a.handle
  /\ a.status = "cancel_requested" => a.disposition = "abandoned" /\ a.cancellation # "confirmed"
  /\ a.status = "submitting" =>
       ~a.handle /\ (a.disposition = "abandoned" => a.cancellation = "requested")
  /\ a.status \in {"pending", "cancel_requested"} => a.handle
  /\ (a.settling # "none") = (a.status = "settling")
  /\ a.settling = "succeeded" => failed = {}
  /\ a.settling = "partially_succeeded" => failed # {}
  /\ a.status = "succeeded" => published # {} /\ failed = {}
  /\ a.status = "partially_succeeded" => published # {} /\ failed # {}
  /\ (a.failure # "none") = (a.status \in {"failed", "outcome_unknown"})
  /\ a.status \notin {"settling", "succeeded", "partially_succeeded", "failed"} =>
       a.settled = NoOutputs

captureAttempt(a) == assertAttemptState(a) /\ captureBundle(a.bundle) /\ assertBundleLinks(a)

captureStoredMediaJob(attempts) ==
  /\ Len(attempts) <= MaxAttemptsPerJob
  /\ \A k \in DOMAIN attempts : captureAttempt(attempts[k])
  /\ \A k, l \in DOMAIN attempts : attempts[k].id = attempts[l].id => k = l
  /\ \A k \in 1..Len(attempts) - 1 :
       attempts[k].status \in TERMINAL \/ attempts[k].disposition = "abandoned"

Store(j, attempts) ==
  IF captureStoredMediaJob(attempts)
  THEN mediaJobs' = [mediaJobs EXCEPT ![j] = attempts] /\ UNCHANGED mediaRefused
  ELSE mediaRefused' = TRUE /\ UNCHANGED mediaJobs

-----------------------------------------------------------------------------
(* Changes of a stored job *)

AttemptsOf(j) == {mediaJobs[j][k] : k \in DOMAIN mediaJobs[j]}
selectAttempt(j, id) == CHOOSE a \in AttemptsOf(j) : a.id = id
Exists(j, id) == \E a \in AttemptsOf(j) : a.id = id
currentAttempt(j) == mediaJobs[j][Len(mediaJobs[j])]

replaceAttempt(j, a) ==
  [k \in DOMAIN mediaJobs[j] |-> IF mediaJobs[j][k].id = a.id THEN a ELSE mediaJobs[j][k]]

(* The job as change leaves it; one that was purged refuses the change.    *)
modify(j, id, change(_)) ==
  IF Exists(j, id) THEN Store(j, replaceAttempt(j, change(selectAttempt(j, id)))) ELSE UNCHANGED stored

clearAttemptOutcome(a) ==
  [a EXCEPT !.settling = "none", !.settled = NoOutputs, !.bundle = NoBundle, !.failure = "none"]

Unsettled(a) == a.status \notin TERMINAL \cup {"settling"}

Abandoned(a) == [a EXCEPT !.disposition = "abandoned", !.cancellation = "requested"]
Withdrawn(a) == [Abandoned(a) EXCEPT !.status = "cancelled"]

markUnknown(a) ==
  IF Unsettled(a)
  THEN [clearAttemptOutcome(a) EXCEPT !.status = "outcome_unknown", !.failure = "unknown"]
  ELSE a

recoverInterruptedSubmission(a) == IF a.status = "submitting" THEN markUnknown(a) ELSE a

markFailed(a, handle) ==
  IF Unsettled(a)
  THEN [clearAttemptOutcome(a) EXCEPT !.status = "failed", !.failure = "other",
                                      !.handle = @ \/ handle]
  ELSE a

markPending(a) ==
  IF Unsettled(a)
  THEN [clearAttemptOutcome(a) EXCEPT
          !.status = IF a.disposition = "abandoned" THEN "cancel_requested" ELSE "pending",
          !.handle = TRUE]
  ELSE a

(* Mutant: a cancellation is recorded whatever has been settled meanwhile. *)
markCancelledAnyStatus(a) ==
  [clearAttemptOutcome(a) EXCEPT !.status = "cancelled", !.cancellation = "confirmed"]

markCancelled(a) ==
  IF Unsettled(a)
  THEN [clearAttemptOutcome(a) EXCEPT !.status = "cancelled", !.cancellation = "confirmed"]
  ELSE a

recordCancellation(a, cancellation) ==
  IF cancellation = "confirmed" /\ Unsettled(a)
  THEN [clearAttemptOutcome(a) EXCEPT !.status = "cancelled", !.cancellation = cancellation]
  ELSE [a EXCEPT !.cancellation = cancellation]

(* Outputs settled before stay as they are; a contradiction is refused.    *)
Consistent(old, new) == \A o \in Outputs : "none" \in {old[o], new[o]} \/ old[o] = new[o]
mergeOutputSettlements(old, new) == [o \in Outputs |-> IF old[o] = "none" THEN new[o] ELSE old[o]]
Settlements(published, failed) ==
  [o \in Outputs |-> IF o \in published THEN "published"
                     ELSE IF o \in failed THEN "failed" ELSE "none"]
exceedsBundleBytes(settled) == Cardinality(Of(settled, "published")) > MaxBundleBytes

bundleDisposition(a, status) ==
  IF a.disposition = "abandoned" THEN "late"
  ELSE IF status = "partially_succeeded" THEN "partial" ELSE "complete"

(* What the provider yielded is merged into the attempt, unless it is      *)
(* settled or is settling as something else.                               *)
Merge(a, status, published, failed, settle(_, _)) ==
  LET new == Settlements(published, failed)
      merged == mergeOutputSettlements(a.settled, new)
      cleared == [clearAttemptOutcome(a) EXCEPT !.settled = merged]
  IN IF \/ a.status \in TERMINAL
        \/ a.status = "settling" /\ a.settling # status
        \/ ~Consistent(a.settled, new)
     THEN a
     ELSE IF exceedsBundleBytes(merged)
     THEN [cleared EXCEPT !.status = "failed", !.failure = "other"]
     ELSE settle(cleared, merged)

recordSettling(a, status, published, failed) ==
  LET settle(b, merged) == [b EXCEPT !.status = "settling", !.settling = status]
  IN Merge(a, status, published, failed, settle)

recordOutputFailure(a, status, published, failed) ==
  LET settle(b, merged) == [b EXCEPT !.status = "failed", !.failure = "other"]
  IN Merge(a, status, published, failed, settle)

publishBundle(a, status, published, failed) ==
  LET settle(b, merged) ==
        [b EXCEPT !.status = status,
                  !.bundle = [disposition |-> bundleDisposition(a, status),
                              resources |-> Of(merged, "published"),
                              failures |-> Of(merged, "failed")]]
  IN Merge(a, status, published, failed, settle)

-----------------------------------------------------------------------------
(* Calls of the service *)

At(c, stage) == mediaCalls[c].stage = stage
Goes(c, stage) == mediaCalls' = [mediaCalls EXCEPT ![c].stage = stage]
Begins(c, stage, j, id) ==
  mediaCalls' = [mediaCalls EXCEPT ![c] = [NoCall EXCEPT !.stage = stage, !.job = j, !.id = id]]
Done(c) == mediaCalls' = [mediaCalls EXCEPT ![c] = NoCall]
job(c) == mediaCalls[c].job
attempt(c) == mediaCalls[c].id
Modify(c, change(_)) == modify(job(c), attempt(c), change)

NewIds == {id \in Ids : \A j \in Jobs : ~Exists(j, id)} \cap {id \in Ids : submitted[id] = 0}
FreshId ==
  LET taken == {mediaCalls[c].id : c \in Callers} IN
  {id \in NewIds \ taken : \A other \in Ids : other < id => other \notin NewIds \ taken}

submit(c, j) ==
  /\ At(c, "idle") /\ reserve(c)
  /\ \E id \in FreshId : Begins(c, "create", j, id)
  /\ UNCHANGED <<stored, submitted, stops>>

create(c) ==
  /\ At(c, "create")
  /\ IF mediaJobs[job(c)] = <<>>
     THEN /\ Store(job(c), <<newAttempt(attempt(c))>>)
          /\ Goes(c, "queued") /\ UNCHANGED admission
     ELSE Done(c) /\ admission' = Released(admission, {c}) /\ UNCHANGED stored
  /\ UNCHANGED <<submitted, stops>>

assertRestartable(j) ==
  /\ mediaJobs[j] # <<>> /\ Len(mediaJobs[j]) < MaxAttemptsPerJob
  /\ currentAttempt(j).status \in TERMINAL \/ currentAttempt(j).disposition = "abandoned"

restart(c, j) ==
  /\ At(c, "idle") /\ assertRestartable(j) /\ reserve(c)
  /\ \E id \in FreshId : Begins(c, "restart", j, id)
  /\ UNCHANGED <<stored, submitted, stops>>

restartAttempt(c) ==
  /\ At(c, "restart")
  /\ IF assertRestartable(job(c))
     THEN /\ Store(job(c), Append(mediaJobs[job(c)], newAttempt(attempt(c))))
          /\ Goes(c, "queued") /\ UNCHANGED admission
     ELSE Done(c) /\ admission' = Released(admission, {c}) /\ UNCHANGED stored
  /\ UNCHANGED <<submitted, stops>>

(* Mutant: an attempt whose submission was interrupted is claimed again. *)
claimAgain(c) ==
  LET queued == Exists(job(c), attempt(c)) /\ selectAttempt(job(c), attempt(c)).status \in {"queued", "submitting"}
      claimed(a) ==
        IF a.status \notin {"queued", "submitting"} THEN a
        ELSE IF mediaCalls[c].aborted THEN Withdrawn(a) ELSE [a EXCEPT !.status = "submitting"]
  IN
  /\ At(c, "queued") /\ ~Waiting(c)
  /\ Modify(c, claimed)
  /\ IF queued /\ ~mediaCalls[c].aborted
     THEN Goes(c, "claimed") /\ UNCHANGED admission
     ELSE Done(c) /\ admission' = Released(admission, {c})
  /\ UNCHANGED <<submitted, stops>>

(* With a place, or once it stops waiting for one, the call claims the     *)
(* queued attempt; a call that is aborted withdraws it.                    *)
claim(c) ==
  LET queued == Exists(job(c), attempt(c)) /\ selectAttempt(job(c), attempt(c)).status = "queued"
      claimed(a) ==
        IF a.status # "queued" THEN a
        ELSE IF mediaCalls[c].aborted THEN Withdrawn(a) ELSE [a EXCEPT !.status = "submitting"]
  IN
  /\ At(c, "queued") /\ ~Waiting(c)
  /\ Modify(c, claimed)
  /\ IF queued /\ ~mediaCalls[c].aborted
     THEN Goes(c, "claimed") /\ UNCHANGED admission
     ELSE Done(c) /\ admission' = Released(admission, {c})
  /\ UNCHANGED <<submitted, stops>>

(* Aborted between the claim and the provider's call: the claim is undone. *)
start(c) ==
  LET withdrawn(a) == IF a.status = "submitting" /\ ~a.handle THEN Withdrawn(a) ELSE a IN
  /\ At(c, "claimed")
  /\ IF mediaCalls[c].aborted
     THEN /\ Modify(c, withdrawn) /\ Done(c) /\ admission' = Released(admission, {c})
          /\ UNCHANGED submitted
     ELSE /\ submitted' = [submitted EXCEPT ![attempt(c)] = @ + 1]
          /\ Goes(c, "started") /\ UNCHANGED <<stored, admission>>
  /\ UNCHANGED stops

(* What the provider may say of an operation; a malformed answer counts as *)
(* a failure without a handle.                                             *)
ProviderAnswers ==
  {[status |-> s] : s \in {"unknown", "pending", "failed", "cancelled"}}
  \cup {[status |-> "succeeded", resources |-> rs, failures |-> {}] :
          rs \in (SUBSET Outputs) \ {{}}}
  \cup {[status |-> "partially_succeeded", resources |-> rs, failures |-> fs] :
          rs \in (SUBSET Outputs) \ {{}}, fs \in (SUBSET Outputs) \ {{}}}
captureObservation ==
  {x \in ProviderAnswers : x.status = "partially_succeeded" => x.resources \cap x.failures = {}}

AnsweredWith(c, x) ==
  /\ mediaCalls' = [mediaCalls EXCEPT ![c].stage = "apply", ![c].answer = x]
  /\ admission' = Released(admission, {c})
  /\ UNCHANGED <<stored, submitted, stops>>

(* The place is kept while a start that threw is recorded.                 *)
answered(c) ==
  /\ At(c, "started")
  /\ \/ \E x \in captureObservation : x.status # "unknown" /\ AnsweredWith(c, x)
     \/ /\ mediaCalls' = [mediaCalls EXCEPT ![c].stage = "apply", ![c].answer = [status |-> "unknown"]]
        /\ UNCHANGED <<stored, admission, submitted, stops>>

(* A reconciliation goes on from the attempt as it was read.               *)
reconcileMedia(c, j, a) ==
  /\ At(c, "idle") /\ a.status \notin TERMINAL
  /\ \/ a.status = "queued" /\ reserve(c) /\ Begins(c, "queued", j, a.id)
     \/ a.status = "submitting" /\ ~a.handle /\ Begins(c, "interrupted", j, a.id)
        /\ UNCHANGED admission
     \/ a.handle /\ a.status \notin {"queued", "submitting"}
        /\ reserve(c) /\ Begins(c, "read", j, a.id)
  /\ UNCHANGED <<stored, submitted, stops>>

recover(c) ==
  /\ At(c, "interrupted") /\ Modify(c, recoverInterruptedSubmission) /\ Done(c)
  /\ UNCHANGED <<admission, submitted, stops>>

(* A call that waits only to ask gives up when it is aborted.              *)
readOperation(c) ==
  /\ At(c, "read") /\ ~Waiting(c)
  /\ IF mediaCalls[c].aborted
     THEN Done(c) /\ admission' = Released(admission, {c}) /\ UNCHANGED <<stored, submitted, stops>>
     ELSE \E x \in captureObservation : AnsweredWith(c, x)

(* The attempt is given up first; a call that waits for a place to submit  *)
(* it stops waiting, and the provider is told if it knows of it.           *)
cancel(c, j, a) ==
  LET marked == [Abandoned(a) EXCEPT
        !.status = CASE a.status = "queued" -> "cancelled"
                     [] a.status = "pending" -> "cancel_requested"
                     [] OTHER -> a.status]
      starters == {d \in Callers : At(d, "queued") /\ attempt(d) = a.id /\ Waiting(d)}
      asks == marked.handle /\ marked.status \notin TERMINAL \cup {"settling"}
      left == IF a.status = "queued" THEN Released(admission, starters) ELSE admission
  IN
  /\ At(c, "idle") /\ a.status \notin TERMINAL
  /\ Store(j, replaceAttempt(j, marked))
  /\ IF asks /\ CanReserve
     THEN reserve(c) /\ Begins(c, "cancel", j, a.id)
     ELSE admission' = left /\ UNCHANGED mediaCalls
  /\ UNCHANGED <<submitted, stops>>

cancelOperation(c) ==
  /\ At(c, "cancel") /\ ~Waiting(c)
  /\ IF mediaCalls[c].aborted
     THEN Done(c) /\ admission' = Released(admission, {c}) /\ UNCHANGED <<stored, submitted, stops>>
     ELSE \/ \E x \in captureObservation : x.status # "unknown" /\ AnsweredWith(c, x)
          \/ \E s \in {"confirmed", "unsupported", "rejected", "unknown"} :
               AnsweredWith(c, [status |-> "cancellation", as |-> s])

-----------------------------------------------------------------------------
(* An answer is applied to the attempt as it is by then *)

applyObservation(c) ==
  LET x == mediaCalls[c].answer
      change(a) ==
        CASE x.status = "unknown" -> markUnknown(a)
          [] x.status = "pending" -> markPending(a)
          [] x.status = "failed" -> markFailed(a, FALSE)
          [] x.status = "cancelled" -> markCancelled(a)
          [] x.status = "cancellation" -> recordCancellation(a, x.as)
  IN
  /\ At(c, "apply")
  /\ IF x.status \in {"succeeded", "partially_succeeded"}
     THEN Goes(c, "publish") /\ UNCHANGED stored
     ELSE Modify(c, change) /\ Done(c)
  /\ admission' = Released(admission, {c})
  /\ UNCHANGED <<submitted, stops>>

(* Resources are stored one after the other, in their order.  A failure,   *)
(* or the want of bytes, fails the attempt, even of an aborted call when it *)
(* is not the write that fails; an aborted write leaves it settling.       *)
publishNext(c) ==
  LET call == mediaCalls[c]
      x == call.answer
      next == Min(x.resources \ call.published)
      failed(a) == recordOutputFailure(a, x.status, call.published, x.failures \cup {next})
      settling(a) == recordSettling(a, x.status, call.published, x.failures)
  IN
  /\ At(c, "publish") /\ call.published # x.resources
  /\ \/ /\ Cardinality(call.published) < MaxBundleBytes
        /\ mediaCalls' = [mediaCalls EXCEPT ![c].published = @ \cup {next}]
        /\ UNCHANGED stored
     \/ Modify(c, failed) /\ Done(c)
     \/ call.aborted /\ Modify(c, settling) /\ Done(c)
  /\ UNCHANGED <<admission, submitted, stops>>

settle(c) ==
  LET call == mediaCalls[c]
      x == call.answer
      bundled(a) == publishBundle(a, x.status, call.published, x.failures)
  IN
  /\ At(c, "publish") /\ call.published = x.resources
  /\ Modify(c, bundled) /\ Done(c)
  /\ UNCHANGED <<admission, submitted, stops>>

-----------------------------------------------------------------------------
(* The surroundings *)

(* A caller gives up: a place it waits for is no longer waited for.        *)
abort(c) ==
  /\ c \in Aborting /\ ~At(c, "idle") /\ ~mediaCalls[c].aborted
  /\ mediaCalls' = [mediaCalls EXCEPT ![c].aborted = TRUE]
  /\ admission' = IF Waiting(c) THEN Released(admission, {c}) ELSE admission
  /\ UNCHANGED <<stored, submitted, stops>>

isMediaJobPurgeable(j) ==
  /\ mediaJobs[j] # <<>>
  /\ currentAttempt(j).disposition = "abandoned" \/ currentAttempt(j).status \in TERMINAL

purge(j) ==
  /\ isMediaJobPurgeable(j)
  /\ mediaJobs' = [mediaJobs EXCEPT ![j] = <<>>]
  /\ UNCHANGED <<mediaRefused, mediaCalls, admission, submitted, stops>>

crash ==
  /\ stops < MaxStops /\ stops' = stops + 1
  /\ mediaCalls' = [c \in Callers |-> NoCall] /\ admission' = [active |-> {}, waiting |-> Nobody]
  /\ UNCHANGED <<stored, submitted>>

MediaNext ==
  \/ \E c \in Callers, j \in Jobs :
       submit(c, j) \/ restart(c, j)
       \/ \E a \in AttemptsOf(j) : reconcileMedia(c, j, a) \/ cancel(c, j, a)
  \/ \E c \in Callers :
       create(c) \/ restartAttempt(c) \/ claim(c) \/ start(c) \/ answered(c) \/ recover(c)
       \/ readOperation(c) \/ cancelOperation(c) \/ applyObservation(c) \/ publishNext(c)
       \/ settle(c) \/ abort(c)
  \/ \E j \in Jobs : purge(j)
  \/ crash

MediaSpec == MediaInit /\ [][MediaNext]_mediaVars

-----------------------------------------------------------------------------
(* Properties *)

(* The provider is asked to start an attempt at most once, whatever is     *)
(* retried or restarted, and never for one that is queued or withdrawn.    *)
AskedOnce ==
  /\ \A id \in DOMAIN submitted : submitted[id] <= 1
  /\ \A j \in Jobs : \A a \in AttemptsOf(j) : a.status = "queued" => submitted[a.id] = 0

(* Whatever another call did to an attempt meanwhile, no change of the     *)
(* service makes a job its store refuses.                                  *)
NoChangeRefused == ~mediaRefused

(* A place is held, or waited for, only by a call that needs it, and none  *)
(* is free while a call waits.                                             *)
AdmissionExact ==
  /\ Cardinality(admission.active) <= MaxConcurrentCalls
  /\ DOMAIN admission.waiting # {} => Cardinality(admission.active) = MaxConcurrentCalls
  /\ \A c \in Callers : c \in admission.active \/ Waiting(c) => mediaCalls[c].stage \in AdmittedStages

(* The provider is asked at most once to start a media attempt, whatever   *)
(* calls are repeated, given up or cut off; a change of an attempt is      *)
(* never refused for what another call made of it; places with the         *)
(* provider are neither lost nor held for nothing.                         *)
SubmittedOnce == AskedOnce /\ NoChangeRefused /\ AdmissionExact

(* A settled attempt stays as it is, save for what becomes of a request to *)
(* cancel it, and an attempt given up is never taken back.                 *)
AttemptsFinal ==
  [][\A j \in Jobs : \A a \in AttemptsOf(j) : \A b \in {mediaJobs'[j][k] : k \in DOMAIN mediaJobs'[j]} :
       a.id = b.id =>
         /\ a.status \in TERMINAL => b = [a EXCEPT !.cancellation = b.cancellation]
         /\ a.disposition = "abandoned" => b.disposition = "abandoned"]_mediaVars
=============================================================================
