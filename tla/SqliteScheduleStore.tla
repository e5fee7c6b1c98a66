------------------------- MODULE SqliteScheduleStore -------------------------
(***************************************************************************)
(* The durable schedule store of storage-sqlite on one database shared by  *)
(* several connections (processes).  Writes are immediate transactions,    *)
(* one step each.  advance and claimOccurrences first read without a       *)
(* transaction: advance plans in order to draw one signal id for every     *)
(* occurrence, claim selects in order to draw one token for every row.     *)
(* The transaction plans or selects again and gives up when the result     *)
(* changed.  A process may stop in between.                                *)
(*                                                                         *)
(* Shown to implement ScheduleStore.                                       *)
(***************************************************************************)
EXTENDS Integers, FiniteSets, FiniteSetsExt, Functions

CONSTANTS
  Lanes, NoLane, ScheduleIds, AdvanceIds, RetirementIds, Plans, Tokens,
  MaxTick, MaxScheduleTime, RecordTimes, MaxScheduleKey, MaxOccurrenceKey, MaxScheduleCounter,
  MaxActive, MaxPendingOccurrences, MaxGenerated, MaxClaim,
  Connections,       \* processes that opened the database
  NULL

VARIABLES
  scheduleRows,      \* oga_game_schedules
  occurrenceRows,    \* oga_scheduled_occurrences
  advanceRows,       \* oga_schedule_advances
  clockRow,          \* oga_schedule_clocks: [tick, revision], or NULL
  retirementRows,    \* oga_schedule_authority_retirements by lane
  scheduleSequence, occurrenceSequence,   \* AUTOINCREMENT values
  plan,              \* connection -> the advance or claim it has prepared, or NULL
  receipts, acks, history                 \* as in ScheduleStore

vars == <<scheduleRows, occurrenceRows, advanceRows, clockRow, retirementRows,
          scheduleSequence, occurrenceSequence, plan, receipts, acks, history>>
ghosts == <<receipts, acks, history>>
sequences == <<scheduleSequence, occurrenceSequence>>

Times == 0 .. MaxScheduleTime
Ticks == 1 .. MaxTick

-----------------------------------------------------------------------------
activeRows == {s \in scheduleRows : s.status = "active"}
pendingRows == {w \in occurrenceRows : w.status = "pending"}
scheduleOf(w) == CHOOSE s \in scheduleRows : s.schedule_key = w.schedule_key
laneOf(w) == scheduleOf(w).lane
keys(S) == {w.occurrence_key : w \in S}
latest(s, t) == IF s < t THEN t ELSE s
incrementable(w) == w.revision < MaxScheduleCounter

open(lane) == lane \notin DOMAIN retirementRows

\* The lease columns are null together.
noLease == [token |-> NULL, expiresAt |-> NULL]
leasedAt(w, now) == w.lease # noLease /\ w.lease.expiresAt > now

\* The rows of an ORDER BY ... LIMIT.
FirstOf(R, before(_, _), n) == {r \in R : Cardinality({e \in R : before(e, r)}) < n}

Init ==
  /\ scheduleRows = {} /\ occurrenceRows = {} /\ advanceRows = {}
  /\ clockRow = NULL /\ retirementRows = << >>
  /\ scheduleSequence = 0 /\ occurrenceSequence = 0
  /\ plan = [c \in Connections |-> NULL]
  /\ receipts = {} /\ acks = {} /\ history = {}

createRow(id, lane, p, due, at) ==
  /\ open(lane)
  /\ ~ \E s \in scheduleRows : s.schedule_id = id
  /\ clockRow # NULL => due > clockRow.tick
  /\ Cardinality(activeRows) < MaxActive
  /\ scheduleSequence < MaxScheduleKey
  /\ scheduleRows' = scheduleRows \cup
       {[schedule_key |-> scheduleSequence + 1, schedule_id |-> id, lane |-> lane, due_tick |-> due,
         interval_ticks |-> p.interval, maximum_occurrences |-> p.maximum, status |-> "active",
         revision |-> 1, occurrences |-> 0, next_due_tick |-> due, created_at |-> at, updated_at |-> at]}
  /\ scheduleSequence' = scheduleSequence + 1
  /\ UNCHANGED <<occurrenceRows, advanceRows, clockRow, retirementRows, occurrenceSequence, plan, ghosts>>

cancelledRow(s, at) ==
  [s EXCEPT !.status = "cancelled", !.revision = @ + 1, !.next_due_tick = NULL, !.updated_at = latest(@, at)]

cancelScheduleRow(s, expectedRevision, at) ==
  /\ open(s.lane)
  /\ s.revision = expectedRevision /\ s.status = "active"
  /\ incrementable(s)
  /\ scheduleRows' = (scheduleRows \ {s}) \cup {cancelledRow(s, at)}
  /\ UNCHANGED <<occurrenceRows, advanceRows, clockRow, retirementRows, sequences, plan, ghosts>>

-----------------------------------------------------------------------------
(* advance: planAdvance in a read, then again in the transaction.          *)

\* The cursor of s, run up to the tick.
cursorRuns(s, to) ==
  {c \in {[schedule_key |-> s.schedule_key, ordinal |-> s.occurrences + k,
           due_tick |-> s.next_due_tick + (k - 1) * s.interval_ticks] :
            k \in 1 .. IF s.interval_ticks = 0 THEN 1 ELSE MaxTick} :
     c.due_tick <= to /\ (s.maximum_occurrences # 0 => c.ordinal <= s.maximum_occurrences)}

compareCursors(c, d) ==
  c.due_tick < d.due_tick \/ (c.due_tick = d.due_tick /\ c.schedule_key < d.schedule_key)

planned(to) == UNION {cursorRuns(s, to) : s \in activeRows}

\* The row UPDATE writes for a schedule that fired.
firedRow(s, to, at) ==
  LET n == Cardinality(cursorRuns(s, to))
      last == s.occurrences + n
      completed == s.maximum_occurrences # 0 /\ last >= s.maximum_occurrences
  IN  IF n = 0 THEN s
      ELSE [s EXCEPT !.status = IF completed THEN "completed" ELSE "active",
                     !.revision = @ + 1, !.occurrences = last,
                     !.next_due_tick = IF completed THEN NULL ELSE @ + n * s.interval_ticks,
                     !.updated_at = latest(@, at)]

\* planAdvance succeeds: the clock stands at `from`, nothing was missed, and
\* no limit or counter is exceeded.
planAdvance(from, to) ==
  /\ clockRow # NULL => clockRow.tick = from
  /\ \A s \in activeRows : s.next_due_tick > from
  /\ Cardinality(planned(to)) <= MaxGenerated
  /\ Cardinality(pendingRows) + Cardinality(planned(to)) <= MaxPendingOccurrences
  /\ \A s \in {firedRow(r, to, 0) : r \in activeRows} :
       s.occurrences <= MaxScheduleCounter /\ (s.next_due_tick # NULL => s.next_due_tick <= MaxTick)

\* The id is not on record yet: the plan fixes how many signal ids are drawn,
\* and the lanes that must still be open when it is applied.
advanceReads(c, id, from, to, at) ==
  /\ plan[c] = NULL
  /\ from < to
  /\ ~ \E a \in advanceRows : a.advance_id = id
  /\ planAdvance(from, to)
  /\ plan' = [plan EXCEPT ![c] =
       [op |-> "advance", id |-> id, from |-> from, to |-> to, at |-> at,
        signalIds |-> Cardinality(planned(to)),
        lanes |-> {s.lane : s \in {r \in activeRows : cursorRuns(r, to) # {}}}]]
  /\ UNCHANGED <<scheduleRows, occurrenceRows, advanceRows, clockRow, retirementRows, sequences, ghosts>>

advanceCommitsAsPlanned(p) ==
  /\ ~ \E a \in advanceRows : a.advance_id = p.id
  /\ \A lane \in p.lanes : open(lane)
  /\ Cardinality(planned(p.to)) = p.signalIds
  /\ \A s \in activeRows : cursorRuns(s, p.to) # {} => incrementable(s)
  /\ occurrenceSequence + p.signalIds <= MaxOccurrenceKey
  /\ clockRow # NULL => incrementable(clockRow)

\* The transaction goes through: the id is still new, planning again succeeds
\* and needs as many signal ids as were drawn.  The occurrences are loaded
\* before the commit, each with its schedule: one that is active still must be
\* able to count a next occurrence, or all is rolled back.
advanceCommits(p) ==
  /\ ~ \E a \in advanceRows : a.advance_id = p.id
  /\ \A lane \in p.lanes : open(lane)
  /\ planAdvance(p.from, p.to)
  /\ Cardinality(planned(p.to)) = p.signalIds
  /\ \A s \in activeRows : cursorRuns(s, p.to) # {} => incrementable(s)
  /\ \A s \in activeRows : LET fired == firedRow(s, p.to, p.at)
                           IN  fired.status = "active" => fired.occurrences < MaxScheduleCounter
  /\ occurrenceSequence + p.signalIds <= MaxOccurrenceKey
  /\ clockRow # NULL => incrementable(clockRow)

occurrenceFromPlan(item, key, id, at) ==
  [occurrence_key |-> key, schedule_key |-> item.schedule_key, advance_id |-> id,
   ordinal |-> item.ordinal, due_tick |-> item.due_tick, status |-> "pending", revision |-> 1, attempt |-> 0,
   lease |-> noLease, completed_at |-> NULL, cancelled_at |-> NULL, settled_lease_hash |-> NULL,
   created_at |-> at, updated_at |-> at]

advanceWrites(c) ==
  LET p == plan[c]
      items == planned(p.to)
      keyOf(i) == occurrenceSequence + 1 + Cardinality({j \in items : compareCursors(j, i)})
  IN  /\ p # NULL /\ p.op = "advance"
      /\ plan' = [plan EXCEPT ![c] = NULL]
      /\ IF advanceCommits(p)
         THEN /\ scheduleRows' = (scheduleRows \ activeRows) \cup {firedRow(s, p.to, p.at) : s \in activeRows}
              /\ occurrenceRows' = occurrenceRows \cup {occurrenceFromPlan(i, keyOf(i), p.id, p.at) : i \in items}
              /\ occurrenceSequence' = occurrenceSequence + Cardinality(items)
              /\ advanceRows' = advanceRows \cup
                   {[advance_id |-> p.id, from_tick |-> p.from, to_tick |-> p.to, recorded_at |-> p.at]}
              /\ clockRow' = [tick |-> p.to, revision |-> IF clockRow = NULL THEN 1 ELSE clockRow.revision + 1]
              /\ history' = history \cup {[key |-> keyOf(i), schedule |-> i.schedule_key,
                                           ordinal |-> i.ordinal, due |-> i.due_tick] : i \in items}
         ELSE UNCHANGED <<scheduleRows, occurrenceRows, occurrenceSequence, advanceRows, clockRow, history>>
      /\ UNCHANGED <<retirementRows, scheduleSequence, receipts, acks>>

-----------------------------------------------------------------------------
(* claimOccurrences: selectClaimRows in a read, then again when writing.   *)

selectClaimRows(lane, now, limit) ==
  LET before(v, w) == v.due_tick < w.due_tick
                      \/ (v.due_tick = w.due_tick /\ v.occurrence_key < w.occurrence_key)
  IN  FirstOf({w \in pendingRows : /\ lane \in {NoLane, laneOf(w)}
                                   /\ open(laneOf(w))
                                   /\ ~leasedAt(w, now)}, before, limit)

revisions(S) == {<<w.occurrence_key, w.revision>> : w \in S}

usedTokens == {rc.token : rc \in receipts}
              \cup UNION {Range(plan[c].token) : c \in {d \in Connections : plan[d] # NULL /\ plan[d].op = "claim"}}

claimReads(c, lane, now, expiresAt, limit) ==
  LET selected == selectClaimRows(lane, now, limit)
  IN  /\ plan[c] = NULL
      /\ open(lane)
      /\ expiresAt > now
      /\ selected # {}
      /\ \E token \in [keys(selected) -> Tokens \ usedTokens] :
           /\ IsInjective(token)
           /\ plan' = [plan EXCEPT ![c] =
                [op |-> "claim", lane |-> lane, now |-> now, expiresAt |-> expiresAt, limit |-> limit,
                 selected |-> revisions(selected), token |-> token]]
      /\ UNCHANGED <<scheduleRows, occurrenceRows, advanceRows, clockRow, retirementRows, sequences, ghosts>>

claimCommitsSameRows(p) ==
  /\ open(p.lane)
  /\ keys(pendingRows) \cap DOMAIN p.token = DOMAIN p.token
  /\ \A w \in pendingRows : w.occurrence_key \in DOMAIN p.token => incrementable(w)

\* The same rows in the same revisions are selected again.
claimCommits(p) ==
  /\ open(p.lane)
  /\ revisions(selectClaimRows(p.lane, p.now, p.limit)) = p.selected
  /\ \A w \in selectClaimRows(p.lane, p.now, p.limit) : incrementable(w)

claimWrites(c) ==
  LET p == plan[c]
      target == {w \in occurrenceRows : w.occurrence_key \in DOMAIN p.token}
  IN  /\ p # NULL /\ p.op = "claim"
      /\ plan' = [plan EXCEPT ![c] = NULL]
      /\ IF claimCommits(p)
         THEN /\ occurrenceRows' = (occurrenceRows \ target) \cup
                   {[w EXCEPT !.revision = @ + 1, !.attempt = @ + 1,
                              !.lease = [token |-> p.token[w.occurrence_key], expiresAt |-> p.expiresAt],
                              !.updated_at = latest(@, p.now)] : w \in target}
              /\ receipts' = receipts \cup
                   {[key |-> w.occurrence_key, token |-> p.token[w.occurrence_key], attempt |-> w.attempt + 1,
                    revision |-> w.revision + 1] :
                      w \in target}
         ELSE UNCHANGED <<occurrenceRows, receipts>>
      /\ UNCHANGED <<scheduleRows, advanceRows, clockRow, retirementRows, sequences, acks, history>>

\* The process stops, or a plan is given up, before its transaction.
Crash(c) ==
  /\ plan[c] # NULL
  /\ plan' = [plan EXCEPT ![c] = NULL]
  /\ UNCHANGED <<scheduleRows, occurrenceRows, advanceRows, clockRow, retirementRows, sequences, ghosts>>

-----------------------------------------------------------------------------
holds(w, rc, at) ==
  /\ w.status = "pending"
  /\ open(laneOf(w))
  /\ w.lease.token = rc.token
  /\ w.lease.expiresAt > at

completedRowKeepsLease(w, rc, at) ==
  [w EXCEPT !.status = "completed", !.revision = @ + 1, !.completed_at = latest(w.updated_at, at),
            !.settled_lease_hash = rc.token, !.updated_at = latest(@, at)]

completedRow(w, rc, at) ==
  [w EXCEPT !.status = "completed", !.revision = @ + 1, !.lease = noLease,
            !.completed_at = latest(w.updated_at, at), !.settled_lease_hash = rc.token,
            !.updated_at = latest(@, at)]

completeRow(rc, w, at) ==
  /\ w.occurrence_key = rc.key
  /\ holds(w, rc, at)
  /\ incrementable(w)
  /\ occurrenceRows' = (occurrenceRows \ {w}) \cup {completedRow(w, rc, at)}
  /\ acks' = acks \cup {rc}
  /\ UNCHANGED <<scheduleRows, advanceRows, clockRow, retirementRows, sequences, plan, receipts, history>>

completeRowAgain(rc, w) ==
  /\ w.occurrence_key = rc.key
  /\ w.status = "completed" /\ w.settled_lease_hash = rc.token
  /\ acks' = acks \cup {rc}
  /\ UNCHANGED <<scheduleRows, occurrenceRows, advanceRows, clockRow, retirementRows, sequences, plan,
                 receipts, history>>

abandonRow(rc, w, at) ==
  /\ w.occurrence_key = rc.key
  /\ holds(w, rc, at)
  /\ incrementable(w)
  /\ occurrenceRows' = (occurrenceRows \ {w}) \cup
       {[w EXCEPT !.revision = @ + 1, !.lease = noLease, !.updated_at = latest(@, at)]}
  /\ UNCHANGED <<scheduleRows, advanceRows, clockRow, retirementRows, sequences, plan, ghosts>>

purgeOccurrenceRows(before, limit) ==
  LET byKey(v, w) == v.occurrence_key < w.occurrence_key
      selected == FirstOf({w \in occurrenceRows : w.status # "pending" /\ w.updated_at < before}, byKey, limit)
  IN  /\ selected # {}
      /\ occurrenceRows' = occurrenceRows \ selected
      /\ UNCHANGED <<scheduleRows, advanceRows, clockRow, retirementRows, sequences, plan, ghosts>>

purgeScheduleRows(before, limit) ==
  LET byKey(s, t) == s.schedule_key < t.schedule_key
      selected == FirstOf({s \in scheduleRows :
                             /\ s.status # "active" /\ s.updated_at < before
                             /\ ~ \E w \in occurrenceRows : w.schedule_key = s.schedule_key}, byKey, limit)
  IN  /\ selected # {}
      /\ scheduleRows' = scheduleRows \ selected
      /\ UNCHANGED <<occurrenceRows, advanceRows, clockRow, retirementRows, sequences, plan, ghosts>>

purgeAdvanceRows(before, limit) ==
  LET byKey(a, b) == a.to_tick < b.to_tick
      selected == FirstOf({a \in advanceRows :
                             /\ a.recorded_at < before
                             /\ ~ \E w \in occurrenceRows : w.advance_id = a.advance_id}, byKey, limit)
  IN  /\ selected # {}
      /\ advanceRows' = advanceRows \ selected
      /\ UNCHANGED <<scheduleRows, occurrenceRows, clockRow, retirementRows, sequences, plan, ghosts>>

\* retireAuthorityInTransaction.
retireRows(lane, id, at, phase) ==
  LET gone == {s \in activeRows : s.lane = lane}
      dropped == {w \in pendingRows : laneOf(w) = lane /\ (phase = "finalized" \/ w.lease = noLease)}
  IN  /\ \A r \in gone \cup dropped : incrementable(r)
      /\ scheduleRows' = (scheduleRows \ gone) \cup {cancelledRow(s, at) : s \in gone}
      /\ occurrenceRows' = (occurrenceRows \ dropped) \cup
           {[w EXCEPT !.status = "cancelled", !.revision = @ + 1, !.lease = noLease,
                      !.cancelled_at = latest(w.updated_at, at), !.updated_at = latest(@, at)] : w \in dropped}
      /\ retirementRows' = [x \in DOMAIN retirementRows \cup {lane} |->
                              IF x = lane THEN [id |-> id, at |-> at, phase |-> phase] ELSE retirementRows[x]]
      /\ UNCHANGED <<advanceRows, clockRow, sequences, plan, ghosts>>

beginRetirement(lane, id, at) ==
  /\ lane \notin DOMAIN retirementRows
  /\ \A x \in DOMAIN retirementRows : retirementRows[x].id # id
  /\ retireRows(lane, id, at, "fenced")

finalizeRetirement(lane, id, at) ==
  /\ lane \in DOMAIN retirementRows
  /\ retirementRows[lane] = [id |-> id, at |-> at, phase |-> "fenced"]
  /\ retireRows(lane, id, at, "finalized")

Next ==
  \/ \E id \in ScheduleIds, lane \in Lanes \cup {NoLane}, p \in Plans, due \in Ticks, at \in RecordTimes :
       createRow(id, lane, p, due, at)
  \/ \E s \in scheduleRows, rev \in 0 .. MaxScheduleCounter, at \in RecordTimes : cancelScheduleRow(s, rev, at)
  \/ \E c \in Connections, id \in AdvanceIds, from \in 0 .. MaxTick, to \in Ticks, at \in RecordTimes :
       advanceReads(c, id, from, to, at)
  \/ \E c \in Connections, lane \in Lanes \cup {NoLane}, now, exp \in Times, n \in 1 .. MaxClaim :
       claimReads(c, lane, now, exp, n)
  \/ \E c \in Connections : advanceWrites(c) \/ claimWrites(c) \/ Crash(c)
  \/ \E rc \in receipts, w \in occurrenceRows, at \in Times : completeRow(rc, w, at) \/ abandonRow(rc, w, at)
  \/ \E rc \in receipts, w \in occurrenceRows : completeRowAgain(rc, w)
  \/ \E t \in RecordTimes, n \in 1 .. MaxOccurrenceKey :
       purgeOccurrenceRows(t, n) \/ purgeScheduleRows(t, n) \/ purgeAdvanceRows(t, n)
  \/ \E lane \in Lanes, id \in RetirementIds, at \in RecordTimes :
       beginRetirement(lane, id, at) \/ finalizeRetirement(lane, id, at)

Spec == Init /\ [][Next]_vars

-----------------------------------------------------------------------------
\* The tick an ordinal of a schedule falls due at.
scheduleDueAtOrdinal(s, n) == s.due_tick + (n - 1) * s.interval_ticks

\* What hydrateSchedule demands of a stored row.
hydrateSchedule(s) ==
  /\ s.updated_at >= s.created_at
  /\ (s.status = "active") = (s.next_due_tick # NULL)
  /\ s.maximum_occurrences # 0 => s.occurrences <= s.maximum_occurrences
  /\ s.status = "active" => /\ s.maximum_occurrences # 0 => s.occurrences < s.maximum_occurrences
                            /\ s.occurrences < MaxScheduleCounter
                            /\ s.next_due_tick = scheduleDueAtOrdinal(s, s.occurrences + 1)
  /\ s.status = "completed" => s.occurrences = s.maximum_occurrences

\* What hydrateOccurrence demands of a row, its schedule and its advance.
hydrateOccurrence(w) ==
  /\ \E s \in scheduleRows : /\ s.schedule_key = w.schedule_key
                             /\ w.ordinal \in 1 .. s.occurrences
                             /\ w.due_tick = scheduleDueAtOrdinal(s, w.ordinal)
  /\ \E a \in advanceRows : /\ a.advance_id = w.advance_id
                            /\ a.from_tick < w.due_tick /\ w.due_tick <= a.to_tick
                            /\ a.recorded_at = w.created_at
  /\ w.updated_at >= w.created_at
  /\ w.revision > w.attempt
  /\ w.lease # noLease => w.attempt > 0
  /\ CASE w.status = "completed" -> /\ w.completed_at = w.updated_at /\ w.cancelled_at = NULL
                                    /\ w.settled_lease_hash # NULL /\ w.lease = noLease /\ w.attempt > 0
       [] w.status = "cancelled" -> /\ w.cancelled_at = w.updated_at /\ w.completed_at = NULL
                                    /\ w.settled_lease_hash = NULL /\ w.lease = noLease
       [] OTHER -> w.completed_at = NULL /\ w.cancelled_at = NULL /\ w.settled_lease_hash = NULL

(* Every row a transaction leaves behind can be loaded again, together     *)
(* with the rows it refers to.  Every operation loads the rows it touches  *)
(* first, so one bad row would stop its schedule or its generation.        *)
RowsHydrate ==
  /\ \A s \in scheduleRows : hydrateSchedule(s)
  /\ \A w \in occurrenceRows : hydrateOccurrence(w)

columnOf(S, col(_)) == [k \in keys(S) |-> col(CHOOSE w \in S : w.occurrence_key = k)]
OrZero(v) == IF v = NULL THEN 0 ELSE v

Store == INSTANCE ScheduleStore WITH
  schedules <- {[key |-> s.schedule_key, id |-> s.schedule_id, lane |-> s.lane, due |-> s.due_tick,
                 interval |-> s.interval_ticks, maximum |-> s.maximum_occurrences, status |-> s.status,
                 revision |-> s.revision, occurrences |-> s.occurrences, nextDue |-> OrZero(s.next_due_tick),
                 recordedAt |-> s.created_at, updatedAt |-> s.updated_at] : s \in scheduleRows},
  occurrences <- {[key |-> w.occurrence_key, schedule |-> w.schedule_key, lane |-> laneOf(w),
                   ordinal |-> w.ordinal, advance |-> w.advance_id, due |-> w.due_tick, status |-> w.status,
                   revision |-> w.revision, attempt |-> w.attempt,
                   createdAt |-> w.created_at, updatedAt |-> w.updated_at] : w \in occurrenceRows},
  advances <- {[id |-> a.advance_id, from |-> a.from_tick, to |-> a.to_tick, recordedAt |-> a.recorded_at] :
                 a \in advanceRows},
  clock <- IF clockRow = NULL THEN 0 ELSE clockRow.tick,
  deliveries <- columnOf({w \in occurrenceRows : w.lease # noLease}, LAMBDA w : w.lease),
  completedTokens <- columnOf({w \in occurrenceRows : w.settled_lease_hash # NULL},
                              LAMBDA w : w.settled_lease_hash),
  retirements <- retirementRows,
  nextScheduleKey <- scheduleSequence + 1,
  nextOccurrenceKey <- occurrenceSequence + 1

(* The durable store does nothing that the in-memory store could not do in *)
(* one atomic operation, for any interleaving of its connections.          *)
ImplementsScheduleStore == Store!ScheduleSpec
=============================================================================
