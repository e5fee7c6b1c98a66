---------------------------- MODULE ScheduleStore ----------------------------
(***************************************************************************)
(* Schedules of the extensions package: InMemoryScheduleStore behind       *)
(* ScheduleService, for one timeline generation.  The game advances its    *)
(* clock over an interval of ticks; the store generates the occurrences    *)
(* due in it and workers settle them under leases.                         *)
(*                                                                         *)
(* A request the store refuses changes nothing and is not a step, and so   *)
(* is one it answers from what it already holds (a repeated create or      *)
(* advance).  The operational times of requests are any of ScheduleTimes.  *)
(* An occurrence's signal id is drawn once and is identified with its key. *)
(***************************************************************************)
EXTENDS Integers, FiniteSets, FiniteSetsExt, Functions

CONSTANTS
  Lanes,             \* (session, actor) pairs that may be retired
  NoLane,            \* a partition without a session or an actor
  ScheduleIds, AdvanceIds, RetirementIds,
  Plans,             \* [interval, maximum] of a draft, after normalization
  Tokens,            \* lease tokens newLeaseToken can return
  MaxTick,           \* largest tick of maxTickDigits digits
  MaxScheduleTime,           \* operational times are 0 .. MaxScheduleTime
  RecordTimes,       \* times at which schedules and advances are recorded and purged
  MaxScheduleKey, MaxOccurrenceKey,   \* bounds on rows ever created
  MaxScheduleCounter,        \* largest revision, attempt or ordinal of maxCounterDigits digits
  MaxActive,         \* maxActiveSchedulesPerTimelineGeneration
  MaxPendingOccurrences,        \* maxPendingOccurrencesPerTimelineGeneration
  MaxGenerated,      \* limit of one advance
  MaxClaim           \* limit of one claim

Nil == 0            \* an absent interval, maximum, next tick or clock

(* A plan without an interval is one occurrence: so it is normalized.      *)
ASSUME ScheduleAssumption ==
  /\ {MaxTick, MaxScheduleTime, MaxScheduleKey, MaxOccurrenceKey} \subseteq Nat
  /\ MaxScheduleCounter \in Nat \ {0}
  /\ RecordTimes \subseteq 0 .. MaxScheduleTime
  /\ Plans \subseteq [interval : Nat, maximum : Nat]
  /\ \A p \in Plans : p.interval = Nil => p.maximum = 1

VARIABLES
  schedules, occurrences, advances,
  clock,             \* the tick the generation was advanced to
  deliveries,        \* leases: occurrence key -> [token, expiresAt]
  completedTokens,   \* completedLeaseTokens: occurrence key -> token
  retirements,       \* lane -> [id, at, phase]
  nextScheduleKey, nextOccurrenceKey,
  receipts,          \* deliveries handed out: [key, token, attempt, revision]
  acks,              \* completions the store has confirmed: the receipts
  history            \* every occurrence ever generated: [key, schedule, ordinal, due]

tables == <<schedules, occurrences, advances, clock, retirements>>
scheduleVars == <<schedules, occurrences, advances, clock, deliveries, completedTokens, retirements,
          nextScheduleKey, nextOccurrenceKey, receipts, acks, history>>

ScheduleTimes == 0 .. MaxScheduleTime
Ticks == 1 .. MaxTick
Counters == 0 .. MaxScheduleCounter
Schedule == [key: 1 .. MaxScheduleKey, id: ScheduleIds, lane: Lanes \cup {NoLane},
             due: Ticks, interval: Nat, maximum: Nat,
             status: {"active", "completed", "cancelled"}, revision: Counters, occurrences: Counters,
             nextDue: Ticks \cup {Nil}, recordedAt: ScheduleTimes, updatedAt: ScheduleTimes]
Occurrence == [key: 1 .. MaxOccurrenceKey, schedule: 1 .. MaxScheduleKey, lane: Lanes \cup {NoLane},
               ordinal: Counters, advance: AdvanceIds, due: Ticks,
               status: {"pending", "completed", "cancelled"}, revision: Counters, attempt: Counters,
               createdAt: ScheduleTimes, updatedAt: ScheduleTimes]

-----------------------------------------------------------------------------
later(s, t) == IF s < t THEN t ELSE s
Unbind(f, K) == Restrict(f, DOMAIN f \ K)
Bind(f, k, v) == [x \in DOMAIN f \cup {k} |-> IF x = k THEN v ELSE f[x]]
keysOf(R) == {r.key : r \in R}
ActiveSchedules == {s \in schedules : s.status = "active"}
PendingOccurrences == {o \in occurrences : o.status = "pending"}

\* incrementScheduleDecimal: a revision that would need more digits is refused.
CanIncrement(r) == r.revision < MaxScheduleCounter

isRetired(lane) == lane \in DOMAIN retirements
assertAuthorityOpen(lane) == ~isRetired(lane)

\* The first n of R in the order of rank.
Smallest(R, rank(_, _), n) == {r \in R : Cardinality({e \in R : rank(e, r)}) < n}

-----------------------------------------------------------------------------
ScheduleInit ==
  /\ schedules = {} /\ occurrences = {} /\ advances = {}
  /\ clock = Nil
  /\ deliveries = << >> /\ completedTokens = << >> /\ retirements = << >>
  /\ nextScheduleKey = 1 /\ nextOccurrenceKey = 1
  /\ receipts = {} /\ acks = {} /\ history = {}

\* A schedule whose first tick has already passed would never fire.
notMissed(due) == clock # Nil => due > clock

createSchedule(id, lane, plan, due, at) ==
  /\ assertAuthorityOpen(lane)
  /\ ~ \E s \in schedules : s.id = id
  /\ notMissed(due)
  /\ Cardinality(ActiveSchedules) < MaxActive
  /\ nextScheduleKey <= MaxScheduleKey
  /\ schedules' = schedules \cup
       {[key |-> nextScheduleKey, id |-> id, lane |-> lane, due |-> due, interval |-> plan.interval,
         maximum |-> plan.maximum, status |-> "active", revision |-> 1, occurrences |-> 0,
         nextDue |-> due, recordedAt |-> at, updatedAt |-> at]}
  /\ nextScheduleKey' = nextScheduleKey + 1
  /\ UNCHANGED <<occurrences, advances, clock, deliveries, completedTokens, retirements,
                 nextOccurrenceKey, receipts, acks, history>>

cancelSchedule(s, expectedRevision, at) ==
  /\ assertAuthorityOpen(s.lane)
  /\ s.revision = expectedRevision
  /\ s.status = "active"
  /\ CanIncrement(s)
  /\ schedules' = (schedules \ {s}) \cup
       {[s EXCEPT !.status = "cancelled", !.revision = @ + 1, !.nextDue = Nil, !.updatedAt = later(@, at)]}
  /\ UNCHANGED <<occurrences, advances, clock, deliveries, completedTokens, retirements,
                 nextScheduleKey, nextOccurrenceKey, receipts, acks, history>>

-----------------------------------------------------------------------------
(* Advancing the clock.  The queue of cursors visits the due occurrences   *)
(* of all active schedules by tick and, at the same tick, by schedule key. *)

dueUntilAfterStep(s, to) ==
  {c \in {[schedule |-> s.key, ordinal |-> s.occurrences + k, due |-> s.nextDue + k * s.interval] :
            k \in 1 .. IF s.interval = Nil THEN 1 ELSE MaxTick} :
     c.due <= to /\ (s.maximum # Nil => c.ordinal <= s.maximum)}

\* The occurrences of s that fall due up to tick `to`: its next ones, until
\* the maximum, one interval apart.
dueUntil(s, to) ==
  {c \in {[schedule |-> s.key, ordinal |-> s.occurrences + k, due |-> s.nextDue + (k - 1) * s.interval] :
            k \in 1 .. IF s.interval = Nil THEN 1 ELSE MaxTick} :
     c.due <= to /\ (s.maximum # Nil => c.ordinal <= s.maximum)}

compareAdvanceCursors(c, d) == c.due < d.due \/ (c.due = d.due /\ c.schedule < d.schedule)

\* The schedule after its cursor left the queue.
advanced(s, generated, at) ==
  LET mine == {c \in generated : c.schedule = s.key}
      last == s.occurrences + Cardinality(mine)
      completed == s.maximum # Nil /\ last >= s.maximum
  IN  IF mine = {} THEN s
      ELSE [s EXCEPT !.status = IF completed THEN "completed" ELSE "active",
                     !.revision = @ + 1,
                     !.occurrences = last,
                     !.nextDue = IF completed THEN Nil ELSE @ + Cardinality(mine) * s.interval,
                     !.updatedAt = later(@, at)]

\* An advance starts where the last one ended.
clockAt(from) == clock # Nil => clock = from

\* advance(from, to]: all of it or nothing.  A tick an active schedule was to
\* fire at and that lies before `from` refuses the advance, and so do the
\* limits, a counter that overflows and a next tick that needs more digits.
advance(id, from, to, limit, at) ==
  LET generated == UNION {dueUntil(s, to) : s \in ActiveSchedules}
      keyOf(c) == nextOccurrenceKey + Cardinality({d \in generated : compareAdvanceCursors(d, c)})
      updated == {advanced(s, generated, at) : s \in ActiveSchedules}
  IN  /\ from < to
      /\ ~ \E a \in advances : a.id = id
      /\ clockAt(from)
      /\ \A s \in ActiveSchedules : s.nextDue > from
      /\ Cardinality(generated) <= limit
      /\ Cardinality(PendingOccurrences) + Cardinality(generated) <= MaxPendingOccurrences
      /\ nextOccurrenceKey + Cardinality(generated) <= MaxOccurrenceKey + 1
      /\ \A s \in updated :
           s.revision <= MaxScheduleCounter /\ s.occurrences <= MaxScheduleCounter /\ s.nextDue <= MaxTick
      /\ schedules' = (schedules \ ActiveSchedules) \cup updated
      /\ occurrences' = occurrences \cup
           UNION {{[key |-> keyOf(c), schedule |-> c.schedule, lane |-> s.lane, ordinal |-> c.ordinal,
                    advance |-> id, due |-> c.due, status |-> "pending", revision |-> 1, attempt |-> 0,
                    createdAt |-> at, updatedAt |-> at] : c \in dueUntil(s, to)} : s \in ActiveSchedules}
      /\ history' = history \cup
           {[key |-> keyOf(c), schedule |-> c.schedule, ordinal |-> c.ordinal, due |-> c.due] : c \in generated}
      /\ nextOccurrenceKey' = nextOccurrenceKey + Cardinality(generated)
      /\ advances' = advances \cup {[id |-> id, from |-> from, to |-> to, recordedAt |-> at]}
      /\ clock' = to
      /\ UNCHANGED <<deliveries, completedTokens, retirements, nextScheduleKey, receipts, acks>>

-----------------------------------------------------------------------------
(* Delivery of occurrences under leases.                                   *)

compareOccurrenceOrder(o, p) == o.due < p.due \/ (o.due = p.due /\ o.key < p.key)

\* Free, or held under a lease that has lapsed for this request's time.
leaseLapsed(o, now) == o.key \in DOMAIN deliveries => deliveries[o.key].expiresAt <= now

\* A claim is for one lane or, with NoLane, for the whole generation.
claimableOccurrences(lane, now, limit) ==
  Smallest({o \in PendingOccurrences : /\ ~isRetired(o.lane)
                            /\ lane \in {NoLane, o.lane}
                            /\ leaseLapsed(o, now)},
           compareOccurrenceOrder, limit)

claimOccurrences(lane, now, expiresAt, limit) ==
  LET chosen == claimableOccurrences(lane, now, limit)
  IN  /\ assertAuthorityOpen(lane)
      /\ expiresAt > now
      /\ chosen # {}
      /\ \A o \in chosen : CanIncrement(o)
      /\ \E token \in [keysOf(chosen) -> Tokens \ {rc.token : rc \in receipts}] :
           /\ IsInjective(token)
           /\ deliveries' = [k \in DOMAIN deliveries \cup DOMAIN token |->
                           IF k \in DOMAIN token THEN [token |-> token[k], expiresAt |-> expiresAt]
                           ELSE deliveries[k]]
           /\ receipts' = receipts \cup {[key |-> o.key, token |-> token[o.key], attempt |-> o.attempt + 1,
                                             revision |-> o.revision + 1] :
                                            o \in chosen}
      /\ occurrences' = (occurrences \ chosen) \cup
           {[o EXCEPT !.revision = @ + 1, !.attempt = @ + 1, !.updatedAt = later(@, now)] : o \in chosen}
      /\ UNCHANGED <<schedules, advances, clock, completedTokens, retirements,
                     nextScheduleKey, nextOccurrenceKey, acks, history>>

\* The token is the one of the current lease and the lease has not lapsed.
holdsLease(o, rc, at) ==
  /\ o.status = "pending"
  /\ assertAuthorityOpen(o.lane)
  /\ o.key \in DOMAIN deliveries
  /\ deliveries[o.key].token = rc.token
  /\ deliveries[o.key].expiresAt > at

completeOccurrence(rc, o, at) ==
  /\ o.key = rc.key
  /\ holdsLease(o, rc, at)
  /\ CanIncrement(o)
  /\ occurrences' = (occurrences \ {o}) \cup
       {[o EXCEPT !.status = "completed", !.revision = @ + 1, !.updatedAt = later(@, at)]}
  /\ deliveries' = Unbind(deliveries, {o.key})
  /\ completedTokens' = Bind(completedTokens, o.key, rc.token)
  /\ acks' = acks \cup {rc}
  /\ UNCHANGED <<schedules, advances, clock, retirements, nextScheduleKey, nextOccurrenceKey, receipts, history>>

\* A completion repeated under the token that completed is confirmed again.
completeOccurrenceAgain(rc, o) ==
  /\ o.key = rc.key
  /\ o.status = "completed"
  /\ completedTokens[o.key] = rc.token
  /\ acks' = acks \cup {rc}
  /\ UNCHANGED <<schedules, occurrences, advances, clock, deliveries, completedTokens, retirements,
                 nextScheduleKey, nextOccurrenceKey, receipts, history>>

abandonOccurrence(rc, o, at) ==
  /\ o.key = rc.key
  /\ holdsLease(o, rc, at)
  /\ CanIncrement(o)
  /\ occurrences' = (occurrences \ {o}) \cup {[o EXCEPT !.revision = @ + 1, !.updatedAt = later(@, at)]}
  /\ deliveries' = Unbind(deliveries, {o.key})
  /\ UNCHANGED <<schedules, advances, clock, completedTokens, retirements,
                 nextScheduleKey, nextOccurrenceKey, receipts, acks, history>>

-----------------------------------------------------------------------------
(* Purging.                                                                *)

byKey(r, q) == r.key < q.key

purgeTerminalOccurrences(before, limit) ==
  LET chosen == Smallest({o \in occurrences : o.status # "pending" /\ o.updatedAt < before}, byKey, limit)
  IN  /\ chosen # {}
      /\ occurrences' = occurrences \ chosen
      /\ deliveries' = Unbind(deliveries, keysOf(chosen))
      /\ completedTokens' = Unbind(completedTokens, keysOf(chosen))
      /\ UNCHANGED <<schedules, advances, clock, retirements, nextScheduleKey, nextOccurrenceKey,
                     receipts, acks, history>>

scheduleReferenced(s) == \E o \in occurrences : o.schedule = s.key

purgeTerminalSchedules(before, limit) ==
  LET chosen == Smallest({s \in schedules : /\ s.status # "active" /\ s.updatedAt < before
                                              /\ ~scheduleReferenced(s)}, byKey, limit)
  IN  /\ chosen # {}
      /\ schedules' = schedules \ chosen
      /\ UNCHANGED <<occurrences, advances, clock, deliveries, completedTokens, retirements,
                     nextScheduleKey, nextOccurrenceKey, receipts, acks, history>>

advanceReferenced(a) == \E o \in occurrences : o.advance = a.id

\* Advances are removed in the order they were made, which is their ticks'.
purgeAdvances(before, limit) ==
  LET earlier(a, b) == a.to < b.to
      chosen == Smallest({a \in advances : a.recordedAt < before /\ ~advanceReferenced(a)}, earlier, limit)
  IN  /\ chosen # {}
      /\ advances' = advances \ chosen
      /\ UNCHANGED <<schedules, occurrences, clock, deliveries, completedTokens, retirements,
                     nextScheduleKey, nextOccurrenceKey, receipts, acks, history>>

-----------------------------------------------------------------------------
(* Retirement of a lane: fenced, then finalized.                           *)

\* The fence leaves the occurrences a worker holds, or held, alone.
retiredOccurrences(lane, phase) ==
  {o \in PendingOccurrences : o.lane = lane /\ (phase = "finalized" \/ o.key \notin DOMAIN deliveries)}

retireAuthority(lane, id, at, phase) ==
  LET gone == {s \in ActiveSchedules : s.lane = lane}
      dropped == retiredOccurrences(lane, phase)
  IN  /\ \A r \in gone \cup dropped : CanIncrement(r)
      /\ schedules' = (schedules \ gone) \cup
           {[s EXCEPT !.status = "cancelled", !.revision = @ + 1, !.nextDue = Nil, !.updatedAt = later(@, at)] :
              s \in gone}
      /\ occurrences' = (occurrences \ dropped) \cup
           {[o EXCEPT !.status = "cancelled", !.revision = @ + 1, !.updatedAt = later(@, at)] : o \in dropped}
      /\ deliveries' = Unbind(deliveries, keysOf(dropped))
      /\ retirements' = Bind(retirements, lane, [id |-> id, at |-> at, phase |-> phase])
      /\ UNCHANGED <<advances, clock, completedTokens, nextScheduleKey, nextOccurrenceKey,
                     receipts, acks, history>>

\* An operation id belongs to one lane for ever.
retirementIdFree(lane, id) == \A x \in DOMAIN retirements : retirements[x].id = id => x = lane

beginAuthorityRetirement(lane, id, at) ==
  /\ retirementIdFree(lane, id)
  /\ lane \notin DOMAIN retirements
  /\ retireAuthority(lane, id, at, "fenced")

finalizeAuthorityRetirement(lane, id, at) ==
  /\ lane \in DOMAIN retirements
  /\ retirements[lane] = [id |-> id, at |-> at, phase |-> "fenced"]
  /\ retireAuthority(lane, id, at, "finalized")

-----------------------------------------------------------------------------
ScheduleNext ==
  \/ \E id \in ScheduleIds, lane \in Lanes \cup {NoLane}, p \in Plans, due \in Ticks, at \in RecordTimes :
       createSchedule(id, lane, p, due, at)
  \/ \E s \in schedules, rev \in Counters, at \in RecordTimes : cancelSchedule(s, rev, at)
  \/ \E id \in AdvanceIds, from \in 0 .. MaxTick, to \in Ticks, at \in RecordTimes :
       advance(id, from, to, MaxGenerated, at)
  \/ \E lane \in Lanes \cup {NoLane}, now, exp \in ScheduleTimes, n \in 1 .. MaxClaim :
       claimOccurrences(lane, now, exp, n)
  \/ \E rc \in receipts, o \in occurrences, at \in ScheduleTimes :
       completeOccurrence(rc, o, at) \/ abandonOccurrence(rc, o, at)
  \/ \E rc \in receipts, o \in occurrences : completeOccurrenceAgain(rc, o)
  \/ \E t \in RecordTimes, n \in 1 .. MaxOccurrenceKey :
       purgeTerminalOccurrences(t, n) \/ purgeTerminalSchedules(t, n) \/ purgeAdvances(t, n)
  \/ \E lane \in Lanes, id \in RetirementIds, at \in RecordTimes :
       beginAuthorityRetirement(lane, id, at) \/ finalizeAuthorityRetirement(lane, id, at)

ScheduleSpec == ScheduleInit /\ [][ScheduleNext]_scheduleVars

-----------------------------------------------------------------------------
\* Type correctness of the store's maps and of the rows in them.
ScheduleTypeOK ==
  /\ schedules \subseteq Schedule
  /\ occurrences \subseteq Occurrence
  /\ advances \subseteq [id: AdvanceIds, from: 0 .. MaxTick, to: Ticks, recordedAt: ScheduleTimes]
  /\ clock \in Ticks \cup {Nil}
  /\ deliveries \in [DOMAIN deliveries -> [token: Tokens, expiresAt: ScheduleTimes]]
  /\ completedTokens \in [DOMAIN completedTokens -> Tokens]
  /\ DOMAIN retirements \subseteq Lanes
  /\ nextScheduleKey \in Nat /\ nextOccurrenceKey \in Nat
  /\ acks \subseteq receipts

(* No tick is lost: an active schedule always has its next tick ahead of   *)
(* the clock, through creations, advances of any length, cancellations and *)
(* purges.  Were it not so, every further advance would be refused.        *)
NoMissedTick == clock # Nil => \A s \in ActiveSchedules : s.nextDue > clock

(* Each occurrence of a schedule is generated exactly once, at its tick,   *)
(* up to the schedule's count, although advances are retried and their     *)
(* records and occurrences are purged.                                     *)
EachOrdinalOnce ==
  /\ \A g, h \in history : g.schedule = h.schedule /\ g.ordinal = h.ordinal => g = h
  /\ \A s \in schedules :
       {[ordinal |-> g.ordinal, due |-> g.due] : g \in {h \in history : h.schedule = s.key}}
       = {[ordinal |-> n, due |-> s.due + (n - 1) * s.interval] : n \in 1 .. s.occurrences}

(* The advances still on record never overlap and none reaches past the    *)
(* clock, whatever is retried under an old or a new id.                    *)
AdvancesDisjoint ==
  /\ \A a, b \in advances : a # b => a.to <= b.from \/ b.to <= a.from
  /\ \A a \in advances : a.to <= clock

(* A completion is confirmed only to the last delivery of an occurrence:   *)
(* a worker whose lease lapsed cannot settle over the one that took over,  *)
(* and nothing is delivered again after it was settled.                    *)
LastDeliverySettles == \A a \in acks, rc \in receipts : a.key = rc.key => rc.attempt <= a.attempt

(* Every ordinal of a schedule becomes one occurrence, however often and   *)
(* in whatever slices the clock is advanced; no tick is missed, and the    *)
(* advances on record neither overlap nor reach past the clock; only the   *)
(* last delivery of an occurrence settles it.                              *)
ScheduledOnce == EachOrdinalOnce /\ NoMissedTick /\ AdvancesDisjoint /\ LastDeliverySettles

(* What an occurrence refers to is there as long as it is: its schedule,   *)
(* and the advance that generated it, over whose ticks it fell due.        *)
OccurrencesResolve ==
  \A o \in occurrences :
    /\ \E s \in schedules : s.key = o.schedule /\ s.lane = o.lane /\ o.ordinal <= s.occurrences
    /\ \E a \in advances : a.id = o.advance /\ a.from < o.due /\ o.due <= a.to /\ a.recordedAt = o.createdAt

(* A retired lane has no active schedule; once fenced it keeps only        *)
(* occurrences that were claimed, and once finalized nothing pending.      *)
RetirementDrains ==
  \A lane \in DOMAIN retirements :
    /\ \A s \in ActiveSchedules : s.lane # lane
    /\ \A o \in PendingOccurrences : o.lane = lane =>
         retirements[lane].phase = "fenced" /\ o.key \in DOMAIN deliveries

(* The maps by occurrence key agree with the rows: only pending ones are   *)
(* leased and exactly the completed ones remember the token that settled   *)
(* them.                                                                   *)
DeliveriesAgree ==
  /\ DOMAIN deliveries \subseteq keysOf(PendingOccurrences)
  /\ DOMAIN completedTokens = keysOf({o \in occurrences : o.status = "completed"})
=============================================================================
