---------------------- MODULE ScheduledSignalDispatcher ----------------------
(***************************************************************************)
(* ScheduledSignalDispatcher.dispatch: workers that hold deliveries of the *)
(* schedule store turn them into game signals and then complete them.      *)
(* Every await of dispatch is a step boundary, at which leases lapse, the      *)
(* occurrence is delivered again, the lane retires or the worker stops.    *)
(*                                                                         *)
(* Of the signal store only record and purgeSignals matter here: a signal  *)
(* is known by its occurrence's key and by the rest of its draft, and a    *)
(* second record under the same id is answered when the drafts agree and   *)
(* is a conflict when they do not.                                         *)
(***************************************************************************)
EXTENDS ScheduleStore

CONSTANTS
  Workers,
  Free               \* a worker without a delivery

VARIABLES
  job,               \* worker -> the dispatch it is running
  signals,           \* occurrence key -> draft of the signal on record
  recorded           \* every occurrence whose signal was ever recorded

dispatchVars == <<job, signals, recorded>>
allVars == <<scheduleVars, dispatchVars>>

DispatchInit == ScheduleInit /\ job = [w \in Workers |-> Free] /\ signals = << >> /\ recorded = {}

storeUnchanged == UNCHANGED scheduleVars
At(w, pc) == job[w] # Free /\ job[w].pc = pc

\* The signal an occurrence stands for: fields that no later step changes.
draftOf(o) == [lane |-> o.lane, tick |-> o.due, recordedAt |-> o.createdAt]

\* getOccurrence, under the delivery the worker was handed.
dispatchLoads(w, rc, o, completedAt) ==
  /\ job[w] = Free
  /\ o.key = rc.key
  /\ job' = [job EXCEPT ![w] = [pc |-> "authority", receipt |-> rc, at |-> completedAt, persisted |-> o]]
  /\ storeUnchanged /\ UNCHANGED <<signals, recorded>>

\* The delivery is the persisted one, or was completed already.
deliveryCurrent(rc, o) ==
  /\ o.status # "cancelled"
  /\ o.status = "pending" => o.revision = rc.revision /\ o.attempt = rc.attempt

\* readAuthorityRetirement.
authorityOpenNow(lane) == lane \notin DOMAIN retirements

\* A completed occurrence goes on only with the token that completed it.
dispatchChecks(w) ==
  LET j == job[w]
  IN  /\ At(w, "authority")
      /\ job' = [job EXCEPT ![w] =
           IF ~authorityOpenNow(j.persisted.lane) \/ ~deliveryCurrent(j.receipt, j.persisted) THEN Free
           ELSE [j EXCEPT !.pc = IF j.persisted.status = "completed" THEN "replay" ELSE "record"]]
      /\ storeUnchanged /\ UNCHANGED <<signals, recorded>>

\* The replay's own completeOccurrence.
dispatchReplays(w) ==
  /\ At(w, "replay")
  /\ \E o \in occurrences :
       /\ completeOccurrenceAgain(job[w].receipt, o)
       /\ job' = [job EXCEPT ![w].pc = "record"]
  /\ UNCHANGED <<signals, recorded>>

\* signals.record: new, answered from what is on record, or a conflict that
\* ends the dispatch.
dispatchRecords(w) ==
  LET j == job[w]
      k == j.receipt.key
      draft == draftOf(j.persisted)
  IN  /\ At(w, "record")
      /\ IF k \in DOMAIN signals /\ signals[k] # draft
         THEN /\ job' = [job EXCEPT ![w] = Free]
              /\ UNCHANGED <<signals, recorded>>
         ELSE /\ job' = [job EXCEPT ![w].pc = "complete"]
              /\ signals' = Bind(signals, k, draft)
              /\ recorded' = recorded \cup {k}
      /\ storeUnchanged

completeReadyEarly(w) == At(w, "record") \/ At(w, "complete")

completeReady(w) == At(w, "complete")

dispatchCompletes(w) ==
  /\ completeReady(w)
  /\ \E o \in occurrences : \/ completeOccurrence(job[w].receipt, o, job[w].at)
                            \/ completeOccurrenceAgain(job[w].receipt, o)
  /\ job' = [job EXCEPT ![w] = Free]
  /\ UNCHANGED <<signals, recorded>>

\* The worker's process stops, the caller aborts, or the store refuses: the
\* delivery stays as it is.
dispatchStops(w) ==
  /\ job[w] # Free
  /\ job' = [job EXCEPT ![w] = Free]
  /\ storeUnchanged /\ UNCHANGED <<signals, recorded>>

purgeSignal(k) ==
  /\ signals' = Unbind(signals, {k})
  /\ storeUnchanged /\ UNCHANGED <<job, recorded>>

\* The package's README demands that dispatchers of the lane have stopped.
finalizeWhenStopped(lane, id, at) ==
  /\ \A w \in Workers : job[w] # Free => job[w].persisted.lane # lane
  /\ finalizeAuthorityRetirement(lane, id, at)

DispatchNext ==
  \/ \E w \in Workers, rc \in receipts, o \in occurrences, at \in ScheduleTimes : dispatchLoads(w, rc, o, at)
  \/ \E w \in Workers : \/ dispatchChecks(w) \/ dispatchReplays(w) \/ dispatchRecords(w)
                        \/ dispatchCompletes(w) \/ dispatchStops(w)
  \/ \E k \in DOMAIN signals : purgeSignal(k)
  \/ /\ \/ \E id \in ScheduleIds, lane \in Lanes, p \in Plans, due \in Ticks, at \in RecordTimes :
             createSchedule(id, lane, p, due, at)
        \/ \E id \in AdvanceIds, from \in 0 .. MaxTick, to \in Ticks, at \in RecordTimes :
             advance(id, from, to, MaxGenerated, at)
        \/ \E now, exp \in ScheduleTimes, n \in 1 .. MaxClaim : claimOccurrences(NoLane, now, exp, n)
        \/ \E rc \in receipts, o \in occurrences, at \in ScheduleTimes : abandonOccurrence(rc, o, at)
        \/ \E lane \in Lanes, id \in RetirementIds, at \in RecordTimes :
             beginAuthorityRetirement(lane, id, at) \/ finalizeWhenStopped(lane, id, at)
     /\ UNCHANGED dispatchVars

DispatchSpec == DispatchInit /\ [][DispatchNext]_allVars

-----------------------------------------------------------------------------
(* An occurrence is completed only after its signal was recorded, whichever*)
(* worker recorded it and whichever completed it.                          *)
SignalBeforeCompletion == \A o \in occurrences : o.status = "completed" => o.key \in recorded

(* A retry is never refused as a conflict: whenever a dispatch is about to *)
(* record, a signal already on record for the occurrence agrees with what  *)
(* the dispatch loaded, however often it was claimed and settled between.  *)
RetrySameSignal ==
  \A w \in Workers : At(w, "record") /\ job[w].receipt.key \in DOMAIN signals =>
    LET o == job[w].persisted
    IN  signals[o.key] = [lane |-> o.lane, tick |-> o.due, recordedAt |-> o.createdAt]

(* Once a lane is finalized, none of its occurrences becomes a signal.     *)
NoSignalAfterFinalize ==
  [][\A o \in occurrences :
       /\ o.lane \in DOMAIN retirements /\ retirements[o.lane].phase = "finalized"
       /\ o.key \in recorded'
       => o.key \in recorded]_allVars
=============================================================================
