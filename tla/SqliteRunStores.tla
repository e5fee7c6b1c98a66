-------------------------- MODULE SqliteRunStores ---------------------------
(***************************************************************************)
(* The SQLite stores that a run needs: canonical events of one stream,     *)
(* transcripts and media jobs.  Every action is one transaction; the       *)
(* closing of an authority, the retirement of its Goals and the fencing of *)
(* its schedules and messages are the same one.  A transcript has a head   *)
(* row with its revision, the number of records ever appended, the bytes   *)
(* of the records kept and the first sequence kept, and a row per record.  *)
(* A media job is one row, its snapshot as text beside the columns that    *)
(* are checked against it at every read.                                   *)
(***************************************************************************)
EXTENDS Integers, Sequences, FiniteSets, FiniteSetsExt, SequencesExt

CONSTANTS
  Runs, Inputs, Authorities, Operations, NONE, MaxRevision,
  Streams, RecordIds, MaxSequence,
  StoredJobs, Adapters, MaxJobRevision, MaxTime, MaxJobTime

VARIABLES
  eventRows,     \* rows of canonical_events
  streamHead,    \* the row of canonical_event_streams; 0 if there is none
  admissionRows, \* rows of oga_run_authority_admissions
  closureRows,   \* rows of oga_run_authority_closures
  retiredRows    \* what the Goal, Schedule and Mailbox stores were told to retire

eventTables == <<eventRows, streamHead, admissionRows, closureRows, retiredRows>>

rowToEvent(r) == r.event
InOrder(rows) == SetToSortSeq(rows, LAMBDA a, b : a.revision < b.revision)
eventsOf(rows) == LET sorted == InOrder(rows)
                  IN [i \in DOMAIN sorted |-> rowToEvent(sorted[i])]

readSqliteRunAdmissionAuthority(run) ==
  IF \E row \in admissionRows : row.run = run
  THEN (CHOOSE row \in admissionRows : row.run = run).authority ELSE NONE

readClosureRow(a) == {row \in closureRows : row.request.authority = a}
assertSqliteAuthorityKeyOpen(a) == a = NONE \/ readClosureRow(a) = {}
assertSqliteRunAuthorityOpen(run) ==
  assertSqliteAuthorityKeyOpen(readSqliteRunAdmissionAuthority(run))

hydrateClosure(a) ==
  IF readClosureRow(a) = {} THEN [request |-> NONE, phase |-> "open"]
  ELSE LET row == CHOOSE r \in readClosureRow(a) : TRUE
       IN [request |-> row.request, phase |-> IF row.result = NONE THEN "closed" ELSE row.result]

VARIABLES streamRows, recordRows
transcriptTables == <<streamRows, recordRows>>

NoHead == [revision |-> 0, count |-> 0, bytes |-> 0, from |-> 1]

RowsIn(s) == {row \in recordRows : row.stream = s}
RowAt(s, sequence) == CHOOSE row \in RowsIn(s) : row.sequence = sequence
BytesOf(type) == IF type = "message" THEN 2 ELSE 1
StoredBytes(rows) == MapThenSumSet(LAMBDA row : row.bytes, rows)

(* The stream of the store in memory that the rows stand for.              *)
streamOf(s) ==
  [from |-> streamRows[s].from,
   records |-> [i \in 1..Cardinality(RowsIn(s)) |->
                  RowAt(s, streamRows[s].from + i - 1).record]]

VARIABLE mediaRows  \* rows of oga_media_jobs: columns, and the snapshot

NoJob == [revision |-> 0]

readHeader(j) == {r \in mediaRows : r.id = j}

hydrate(row) == row.job
jobOf(j) == IF readHeader(j) = {} THEN NoJob ELSE hydrate(CHOOSE r \in readHeader(j) : TRUE)

Memory == INSTANCE RunStores WITH
  SharedAuthority <- TRUE, events <- eventsOf(eventRows), head <- streamHead,
  runAuthorities <- [run \in Runs |-> readSqliteRunAdmissionAuthority(run)],
  authorityClosures <- [a \in Authorities |-> hydrateClosure(a)],
  retiredWith <- retiredRows,
  storedStreams <- [s \in Streams |-> streamOf(s)],
  jobs <- [j \in StoredJobs |-> jobOf(j)]

-----------------------------------------------------------------------------
(* Canonical events *)

EventTablesInit ==
  /\ eventRows = {} /\ streamHead = 0 /\ admissionRows = {} /\ closureRows = {}
  /\ retiredRows = [goals |-> {}, fenced |-> {}, finalized |-> {}]

(* The admission of a run stays with its authority, which must be open.    *)
recordSqliteRunAdmissionAuthority(run, authority) ==
  /\ readSqliteRunAdmissionAuthority(run) \in {NONE, authority}
  /\ assertSqliteAuthorityKeyOpen(authority)
  /\ admissionRows' = IF authority = NONE THEN admissionRows
                      ELSE admissionRows \cup {[run |-> run, authority |-> authority]}

(* An index lets the retained events admit an input only once.             *)
appendRow(expected, e) ==
  /\ expected = streamHead /\ streamHead < MaxRevision
  /\ IF e.type = "run.queued"
     THEN /\ recordSqliteRunAdmissionAuthority(e.run, e.authority)
          /\ \A row \in eventRows : row.event.type = "run.queued" => row.event.input # e.input
     ELSE /\ e.type \in {"run.started", "run.resumed"} => assertSqliteRunAuthorityOpen(e.run)
          /\ UNCHANGED admissionRows
  /\ eventRows' = eventRows \cup {[revision |-> streamHead + 1, event |-> e]}
  /\ streamHead' = streamHead + 1
  /\ UNCHANGED <<closureRows, retiredRows>>

purgeTerminalRows(limit, before, retained) ==
  LET sorted == InOrder(eventRows)
      n == Memory!terminalPrefix(eventsOf(eventRows), limit, before, retained)
      last == sorted[n].revision
      gone == {row \in eventRows : row.revision <= last}
  IN
  /\ n > 0
  /\ \A row \in gone, later \in eventRows \ gone : row.event.run # later.event.run
  /\ eventRows' = eventRows \ gone
  /\ UNCHANGED <<streamHead, admissionRows, closureRows, retiredRows>>

retireWork(request, phase) ==
  IF ~request.work THEN retiredRows
  ELSE IF phase = "fenced" THEN [retiredRows EXCEPT !.fenced = @ \cup {request.authority}]
  ELSE [retiredRows EXCEPT !.finalized = @ \cup {request.authority}]

(* A request on file, by its operation or else by its authority, is        *)
(* answered with the closure it made, or refused if it differs.            *)
closeRow(request) ==
  /\ \A row \in closureRows : row.request.operation # request.operation
  /\ readClosureRow(request.authority) = {}
  /\ closureRows' = closureRows \cup
       {[request |-> request, result |-> IF request.work THEN "fenced" ELSE NONE]}
  /\ retiredRows' =
       LET r == retireWork(request, "fenced")
       IN IF request.goals THEN [r EXCEPT !.goals = @ \cup {request.authority}] ELSE r
  /\ UNCHANGED <<eventRows, streamHead, admissionRows>>

finalizeRow(request) ==
  /\ request.work /\ [request |-> request, result |-> "fenced"] \in closureRows
  /\ closureRows' = (closureRows \ {[request |-> request, result |-> "fenced"]})
                    \cup {[request |-> request, result |-> "finalized"]}
  /\ retiredRows' = retireWork(request, "finalized")
  /\ UNCHANGED <<eventRows, streamHead, admissionRows>>

EventTablesNext ==
  \/ \E expected \in 0..MaxRevision, e \in Memory!EventData : appendRow(expected, e)
  \/ \E limit \in 1..MaxRevision, before \in Memory!Times \cup {MaxTime + 1}, retained \in SUBSET Runs :
       purgeTerminalRows(limit, before, retained)
  \/ \E request \in Memory!CloseRequest : closeRow(request) \/ finalizeRow(request)

-----------------------------------------------------------------------------
(* Properties *)

(* A purge leaves no run cut in two, an input that is still on file leads  *)
(* to the run it admitted, and the head is never behind the rows.          *)
RowsReadable ==
  /\ \A row \in eventRows : row.revision \in 1..streamHead
  /\ \A row \in eventRows : row.event.type = "run.queued" =>
       Memory!readRun(eventsOf(eventRows), row.event.input).run = row.event.run

(* Only whole runs, ended before the cutoff, ever leave the store.         *)
PurgesWholeRuns ==
  [][\A row \in eventRows \ eventRows' :
       /\ \A other \in eventRows' : other.event.run # row.event.run
       /\ \E end \in eventRows \ eventRows' :
            end.event.run = row.event.run /\ end.event.type = "run.completed"]_eventTables

-----------------------------------------------------------------------------
(* Transcripts *)

TranscriptTablesInit == streamRows = [s \in Streams |-> NoHead] /\ recordRows = {}

assertValidHead(head) ==
  head = NoHead \/ /\ head.revision > 0 /\ head.count = head.revision /\ head.bytes > 0
                   /\ head.from \in 1..head.revision

rowsFor(s, first, records) ==
  {[stream |-> s, sequence |-> first + i - 1, record |-> records[i],
    bytes |-> BytesOf(records[i].type)] : i \in DOMAIN records}

(* The unique index on record identities lets no row of a stream share one. *)
appendRows(s, expected, records) ==
  LET head == streamRows[s]
      rows == rowsFor(s, expected + 1, records)
      last == expected + Len(records)
  IN
  /\ assertValidHead(head) /\ head.revision = expected /\ last <= MaxSequence
  /\ Memory!Distinct(records)
  /\ \A row \in RowsIn(s), new \in rows : row.record.id # new.record.id
  /\ recordRows' = recordRows \cup rows
  /\ streamRows' = [streamRows EXCEPT ![s] =
       [@ EXCEPT !.revision = last, !.count = @ + Len(records),
                 !.bytes = @ + StoredBytes(rows)]]

(* Mutant: the purged bytes stay in the head. *)
purgeRowsUncounted(s, sequence, limit, pinned) ==
  LET head == streamRows[s]
      source == sequence - 1
      dropped == {row \in RowsIn(s) : row.sequence < source}
  IN
  /\ assertValidHead(head) /\ {sequence, source} \subseteq {row.sequence : row \in RowsIn(s)}
  /\ Memory!ExactBoundary(RowAt(s, sequence).record, RowAt(s, source).record)
  /\ source - head.from \in 1..limit /\ pinned > source
  /\ Cardinality(dropped) = source - head.from
  /\ recordRows' = recordRows \ dropped
  /\ streamRows' = [streamRows EXCEPT ![s].from = source]

(* The rows before the checkpoint's source go, and the head counts only    *)
(* the bytes that are left; its record count goes on counting all.         *)
purgeRows(s, sequence, limit, pinned) ==
  LET head == streamRows[s]
      source == sequence - 1
      dropped == {row \in RowsIn(s) : row.sequence < source}
  IN
  /\ assertValidHead(head) /\ {sequence, source} \subseteq {row.sequence : row \in RowsIn(s)}
  /\ Memory!ExactBoundary(RowAt(s, sequence).record, RowAt(s, source).record)
  /\ source - head.from \in 1..limit /\ pinned > source
  /\ Cardinality(dropped) = source - head.from
  /\ recordRows' = recordRows \ dropped
  /\ streamRows' = [streamRows EXCEPT ![s].from = source,
                                      ![s].bytes = @ - StoredBytes(dropped)]

TranscriptTablesNext == \E s \in Streams :
  \/ \E expected \in 0..MaxSequence :
     \E records \in Memory!Appendable(streamOf(s)) : appendRows(s, expected, records)
  \/ \E sequence, limit, pinned \in 1..MaxSequence : purgeRows(s, sequence, limit, pinned)

-----------------------------------------------------------------------------
(* Properties *)

(* A stream loads whatever was appended and purged: its head agrees with   *)
(* the rows in number, range and bytes.                                    *)
TranscriptLoadable == \A s \in Streams :
  LET head == streamRows[s] kept == {row.sequence : row \in RowsIn(s)} IN
  /\ assertValidHead(head)
  /\ kept = (IF head = NoHead THEN {} ELSE head.from..head.revision)
  /\ Cardinality(RowsIn(s)) = Cardinality(kept)
  /\ StoredBytes(RowsIn(s)) = head.bytes

-----------------------------------------------------------------------------
(* Media jobs *)

(* A snapshot with the columns that go with it.                            *)
prepare(j, job) ==
  [id |-> j, adapter |-> job.adapter, revision |-> job.revision, fingerprint |-> job, job |-> job]

createRow(j, adapter, time) ==
  /\ readHeader(j) = {}
  /\ mediaRows' = mediaRows \cup {prepare(j, Memory!Created(adapter, time))}

(* Replaced only at the revision that was read.                            *)
modifyRow(j, standing, time) ==
  \E r \in readHeader(j) :
    /\ r.revision < MaxJobRevision
    /\ mediaRows' = (mediaRows \ {r}) \cup {prepare(j, Memory!Changed(hydrate(r), standing, time))}

(* The oldest first.                                                       *)
purgeJobRows(before, retained, limit) ==
  LET candidates == {r \in mediaRows : Memory!isMediaJobPurgeable(r.job)
                                         /\ r.job.updated < before /\ r.id \notin retained}
      Before(r, s) == r.job.updated < s.job.updated \/ (r.job.updated = s.job.updated /\ r.id < s.id)
      batch == {r \in candidates : Cardinality({s \in candidates : Before(s, r)}) < limit}
  IN mediaRows' = mediaRows \ batch

JobTablesInit == mediaRows = {}

JobTablesNext ==
  \/ \E j \in StoredJobs, time \in Memory!JobTimes :
       \/ \E adapter \in Adapters : createRow(j, adapter, time)
       \/ \E standing \in Memory!Standings : modifyRow(j, standing, time)
  \/ \E before \in Memory!JobTimes, retained \in SUBSET StoredJobs, limit \in {1, 2} :
       purgeJobRows(before, retained, limit)

-----------------------------------------------------------------------------
(* Properties *)

(* One row a job, and every row reads back: its columns say what its       *)
(* snapshot says.                                                          *)
assertHeaders ==
  /\ \A r, s \in mediaRows : r.id = s.id => r = s
  /\ \A r \in mediaRows :
       r.fingerprint = r.job /\ r.adapter = r.job.adapter /\ r.revision = r.job.revision
=============================================================================
