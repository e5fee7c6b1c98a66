----------------------------- MODULE RunStores ------------------------------
(***************************************************************************)
(* The stores in memory that a run needs: the canonical events of one      *)
(* stream, the transcripts of actors and the media jobs.  The stores are   *)
(* independent; each has its initial state and its next-state relation.    *)
(***************************************************************************)
EXTENDS Integers, Sequences, FiniteSets, FiniteSetsExt, SequencesExt

CONSTANTS
  Runs, Inputs, Authorities, Operations, NONE,
  MaxRevision,     \* bound: events ever appended
  SharedAuthority, \* whether Goals, schedules and messages live in the same store
  Streams, RecordIds,
  MaxSequence,     \* bound: no stream of records grows past this revision
  StoredJobs, Adapters,
  MaxJobRevision,  \* bound: changes of a job; SQLite's signed 64-bit limit
  MaxTime, MaxJobTime  \* bounds on times

-----------------------------------------------------------------------------
(* Canonical events of one stream, what a reader concludes from them about *)
(* an input's run, and which prefix of them may be purged.  Only the       *)
(* events that matter to a run's life are told apart.                      *)

Times == 0..MaxTime

Queued(run, input, authority, at) ==
  [type |-> "run.queued", run |-> run, input |-> input, authority |-> authority, at |-> at]
Lifecycle(type, run, at) == [type |-> type, run |-> run, at |-> at]

(* What may be appended: an admission, or any later event of a run.        *)
EventData ==
  {Queued(run, input, authority, at) :
     run \in Runs, input \in Inputs, authority \in Authorities \cup {NONE}, at \in Times}
  \cup {Lifecycle(type, run, at) : type \in {"run.started", "run.suspended", "run.resumed",
                                              "run.completed"}, run \in Runs, at \in Times}

OfRun(events, run) == SelectSeq(events, LAMBDA e : e.run = run)
LastOf(events, types) ==
  LET at == {i \in DOMAIN events : events[i].type \in types}
  IN IF at = {} THEN NONE ELSE events[Max(at)].type

(* The state of the run that was first admitted for an input.              *)
readRun(events, input) ==
  LET admissions == {i \in DOMAIN events :
                       events[i].type = "run.queued" /\ events[i].input = input}
      run == events[Min(admissions)].run
      lifecycle == LastOf(OfRun(events, run), {"run.suspended", "run.resumed"})
  IN IF admissions = {} THEN [run |-> NONE, status |-> NONE]
     ELSE [run |-> run,
           status |-> IF LastOf(OfRun(events, run), {"run.completed"}) # NONE THEN "completed"
                      ELSE IF lifecycle = "run.suspended" THEN "deferred" ELSE NONE]

(* The longest prefix, within the batch and before the first event of a    *)
(* retained run or a recent completion, all of whose runs are completed.   *)
terminalPrefix(events, limit, before, retained) ==
  LET Stops(e) == e.run \in retained \/ (e.type = "run.completed" /\ e.at >= before)
      stop == {i \in DOMAIN events : Stops(events[i])} \cup {limit + 1, Len(events) + 1}
      RunsTo(n) == {events[i].run : i \in 1..n}
      CompletedTo(n) == {events[i].run : i \in {j \in 1..n : events[j].type = "run.completed"}}
  IN Max({n \in 0..Min(stop) - 1 : RunsTo(n) = CompletedTo(n)})

(* A prefix is purged only if none of its runs goes on after it.           *)
Purgeable(events, n) ==
  \A i \in 1..n, j \in n + 1..Len(events) : events[i].run # events[j].run

(* A request to close an authority; it may retire Goals, and schedules and *)
(* messages, of the game along with it.                                    *)
CloseRequest == [operation : Operations, authority : Authorities,
                 goals : BOOLEAN, work : BOOLEAN]

-----------------------------------------------------------------------------
(* The canonical event store of one stream in memory, with the authority   *)
(* of its runs: closing an authority is durable, and from then on no run   *)
(* under it is admitted, started or resumed.                               *)

VARIABLES
  events,           \* the events that are retained
  head,             \* the number of events ever appended
  runAuthorities,   \* run -> authority it was admitted under; kept for ever
  authorityClosures,\* authority -> the request that closed it and its phase
  retiredWith       \* authorities whose Goals, or whose work, are retired

eventVars == <<events, head, runAuthorities, authorityClosures, retiredWith>>

Open == [request |-> NONE, phase |-> "open"]

EventInit ==
  /\ events = <<>> /\ head = 0
  /\ runAuthorities = [run \in Runs |-> NONE]
  /\ authorityClosures = [authority \in Authorities |-> Open]
  /\ retiredWith = [goals |-> {}, fenced |-> {}, finalized |-> {}]

assertAuthorityOpen(authority) == authority = NONE \/ authorityClosures[authority] = Open
assertRunAuthorityOpen(run) == assertAuthorityOpen(runAuthorities[run])

append(expected, e) ==
  /\ expected = head /\ head < MaxRevision
  /\ e.type = "run.queued" =>
       runAuthorities[e.run] \in {NONE, e.authority} /\ assertAuthorityOpen(e.authority)
  /\ e.type \in {"run.started", "run.resumed"} => assertRunAuthorityOpen(e.run)
  /\ events' = Append(events, e) /\ head' = head + 1
  /\ runAuthorities' = IF e.type = "run.queued" THEN [runAuthorities EXCEPT ![e.run] = e.authority]
                       ELSE runAuthorities
  /\ UNCHANGED <<authorityClosures, retiredWith>>

purgeTerminalRuns(limit, before, retained) ==
  LET n == terminalPrefix(events, limit, before, retained) IN
  /\ n > 0 /\ Purgeable(events, n)
  /\ events' = SubSeq(events, n + 1, Len(events))
  /\ UNCHANGED <<head, runAuthorities, authorityClosures, retiredWith>>

(* The first request for an authority closes it and retires with it what   *)
(* it names; an operation closes one authority.                            *)
closeAuthority(request) ==
  LET a == request.authority IN
  /\ request.work => SharedAuthority
  /\ authorityClosures[a] = Open
  /\ \A other \in Authorities : authorityClosures[other] # Open =>
       authorityClosures[other].request.operation # request.operation
  /\ authorityClosures' = [authorityClosures EXCEPT
       ![a] = [request |-> request, phase |-> IF request.work THEN "fenced" ELSE "closed"]]
  /\ retiredWith' = [retiredWith EXCEPT
       !.goals = IF request.goals THEN @ \cup {a} ELSE @,
       !.fenced = IF request.work THEN @ \cup {a} ELSE @]
  /\ UNCHANGED <<events, head, runAuthorities>>

(* Work is retired for good once the host has drained it.                  *)
finalizeAuthorityClosure(request) ==
  LET a == request.authority IN
  /\ authorityClosures[a] = [request |-> request, phase |-> "fenced"]
  /\ authorityClosures' = [authorityClosures EXCEPT ![a].phase = "finalized"]
  /\ retiredWith' = [retiredWith EXCEPT !.finalized = @ \cup {a}]
  /\ UNCHANGED <<events, head, runAuthorities>>

EventNext ==
  \/ \E expected \in 0..MaxRevision, e \in EventData : append(expected, e)
  \/ \E limit \in 1..MaxRevision, before \in Times \cup {MaxTime + 1}, retained \in SUBSET Runs :
       purgeTerminalRuns(limit, before, retained)
  \/ \E request \in CloseRequest : closeAuthority(request) \/ finalizeAuthorityClosure(request)

-----------------------------------------------------------------------------
(* Properties *)

(* Once an authority is closed, no run admitted under it before or named   *)
(* under it since is admitted, started or resumed.                         *)
ClosedAuthorityAdmitsNothing ==
  [][\A run \in Runs : head' > head /\ runAuthorities'[run] # NONE
       /\ authorityClosures[runAuthorities'[run]] # Open =>
       ~ \E k \in {Len(events')} : events'[k].run = run
            /\ events'[k].type \in {"run.queued", "run.started", "run.resumed"}]_eventVars

-----------------------------------------------------------------------------
(* The in-memory store of transcripts: per stream a run of records, from   *)
(* the first that is still retained.                                       *)

VARIABLE storedStreams

EmptyStream == [from |-> 1, records |-> <<>>]
Revision(t) == t.from + Len(t.records) - 1

(* Records as the store sees them; a checkpoint names the record before it. *)
Kinds == {"turn.closed", "context.checkpoint", "message"}
Record(id, type, source) == [id |-> id, type |-> type, source |-> source]

(* What a caller may appendRecords after a stream's last record.                  *)
Appendable(t) ==
  LET last == t.records[Len(t.records)] IN
  {<<Record(id, type, "none")>> : id \in RecordIds, type \in {"turn.closed", "message"}}
  \cup {<<Record(id, "message", "none"), Record(other, "turn.closed", "none")>> :
          id, other \in RecordIds}
  \cup (IF t.records # <<>> /\ last.type = "turn.closed"
        THEN {<<Record(id, "context.checkpoint", last.id)>> : id \in RecordIds} ELSE {})

Ids(records) == {records[i].id : i \in DOMAIN records}
Distinct(records) == Cardinality(Ids(records)) = Len(records)

(* A checkpoint directly after the turn it names.                          *)
ExactBoundary(cp, source) ==
  cp.type = "context.checkpoint" /\ source.type = "turn.closed" /\ cp.source = source.id

TranscriptInit == storedStreams = [s \in Streams |-> EmptyStream]

(* At the revision the caller read, with identities new to the stream.     *)
appendRecords(s, expected, records) ==
  LET t == storedStreams[s] IN
  /\ expected = Revision(t) /\ expected + Len(records) <= MaxSequence
  /\ Distinct(t.records \o records)
  /\ storedStreams' = [storedStreams EXCEPT ![s].records = @ \o records]

(* Everything before a checkpoint's source, if it fits in the batch and no *)
(* retained revision needs it.                                             *)
purgeBeforeCheckpoint(s, sequence, limit, pinned) ==
  LET t == storedStreams[s]
      at == sequence - t.from + 1
  IN
  /\ at \in 2..Len(t.records)
  /\ ExactBoundary(t.records[at], t.records[at - 1])
  /\ at - 2 \in 1..limit /\ pinned > sequence - 1
  /\ storedStreams' = [storedStreams EXCEPT
       ![s] = [from |-> sequence - 1, records |-> SubSeq(t.records, at - 1, Len(t.records))]]

TranscriptNext == \E s \in Streams :
  \/ \E expected \in 0..MaxSequence : \E records \in Appendable(storedStreams[s]) :
       appendRecords(s, expected, records)
  \/ \E sequence, limit, pinned \in 1..MaxSequence :
       purgeBeforeCheckpoint(s, sequence, limit, pinned)

-----------------------------------------------------------------------------
(* The store of media jobs in memory.  Of a job's content only what the    *)
(* store itself looks at matters: where its last attempt stands and when   *)
(* it was last changed.                                                    *)

VARIABLE jobs  \* job -> its snapshot, or NoJob

NoJob == [revision |-> 0]
Standings == {"queued", "pending", "abandoned", "succeeded"}

JobTimes == 0..MaxJobTime

isMediaJobPurgeable(job) == job.standing \in {"abandoned", "succeeded"}

Created(adapter, time) ==
  [adapter |-> adapter, revision |-> 1, standing |-> "queued", updated |-> time]
Changed(job, standing, time) ==
  [job EXCEPT !.revision = @ + 1, !.standing = standing, !.updated = time]

JobsInit == jobs = [j \in StoredJobs |-> NoJob]

create(j, adapter, time) ==
  /\ jobs[j] = NoJob
  /\ jobs' = [jobs EXCEPT ![j] = Created(adapter, time)]

modify(j, standing, time) ==
  /\ jobs[j] # NoJob /\ jobs[j].revision < MaxJobRevision
  /\ jobs' = [jobs EXCEPT ![j] = Changed(@, standing, time)]

(* As many of the jobs that are over, were last changed before and are not *)
(* retained as the limit allows.                                           *)
purge(before, retained, limit) ==
  LET candidates == {j \in StoredJobs \ retained :
        jobs[j] # NoJob /\ jobs[j].updated < before /\ isMediaJobPurgeable(jobs[j])}
  IN \E batch \in SUBSET candidates :
       /\ Cardinality(batch) = IF Cardinality(candidates) < limit THEN Cardinality(candidates)
                                                                 ELSE limit
       /\ jobs' = [j \in StoredJobs |-> IF j \in batch THEN NoJob ELSE jobs[j]]

listQueued(adapter, after, limit) ==
  LET queued == {j \in StoredJobs : jobs[j] # NoJob /\ jobs[j].adapter = adapter
                                      /\ jobs[j].standing = "queued" /\ j > after}
  IN {j \in queued : Cardinality({k \in queued : k < j}) < limit}

JobsNext ==
  \/ \E j \in StoredJobs, time \in JobTimes :
       \/ \E adapter \in Adapters : create(j, adapter, time)
       \/ \E standing \in Standings : modify(j, standing, time)
  \/ \E before \in JobTimes, retained \in SUBSET StoredJobs, limit \in {1, 2} :
       purge(before, retained, limit)
=============================================================================
