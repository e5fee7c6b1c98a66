------------------------------ MODULE MCAgent ------------------------------
(***************************************************************************)
(* Small instances of the Agent's durable state for TLC; a behaviour is    *)
(* about one of them.                                                      *)
(*   tools            runs with two parallel Tool calls, and aborts        *)
(*   compaction       the same with compaction and purges instead          *)
(*   deferral         runs the provider may defer, with at most one call   *)
(*   resumed          one such run, of up to two turns                     *)
(*   transcriptTable  the SQLite store of transcripts                      *)
(*   eventTable       the SQLite store of canonical events                 *)
(*   media            one media attempt of two outputs, and a crash        *)
(*   restarts         media attempts of one output, given up and restarted *)
(*   mediaTable       the SQLite store of media jobs                       *)
(***************************************************************************)
EXTENDS MediaJobs, TLC

CONSTANTS stream, r1, r2, input, player, close, image, c1, c2, adapter1, adapter2, NONE

VARIABLES
  session,
  transcript, canon, actor, agent, performed, lapses, contradicted,
  streamRows, recordRows,
  eventRows, streamHead, admissionRows, closureRows, retiredRows,
  mediaRows

live == <<transcript, canon, actor, agent, performed, lapses, contradicted>>
transcriptTables == <<streamRows, recordRows>>
eventTables == <<eventRows, streamHead, admissionRows, closureRows, retiredRows>>
vars == <<session, live, transcriptTables, eventTables, mediaVars, mediaRows>>

AnyLapse == {"crash", "lost", "stored", "event", "evidence"}

Tools == INSTANCE DurableTranscript WITH
  Runs <- {1, 2}, Calls <- {2}, MaxTurns <- 1, Parallel <- TRUE, Defers <- FALSE,
  Compacts <- FALSE, Lapses <- {"crash", "lost", "event"}, MaxLapses <- 2,
  Aborts <- {"run"}, ResumedFails <- {}

Compaction == INSTANCE DurableTranscript WITH
  Runs <- {1, 2}, Calls <- {2}, MaxTurns <- 1, Parallel <- TRUE, Defers <- FALSE,
  Compacts <- TRUE, Lapses <- {"crash", "lost", "stored", "event"}, MaxLapses <- 2,
  Aborts <- {}, ResumedFails <- {}

Deferral == INSTANCE DurableTranscript WITH
  Runs <- {1, 2}, Calls <- {0, 1}, MaxTurns <- 1, Parallel <- FALSE, Defers <- TRUE,
  Compacts <- FALSE, Lapses <- AnyLapse, MaxLapses <- 3,
  Aborts <- {"run", "queued"}, ResumedFails <- {"abort", "answer", "tool"}

Resumed == INSTANCE DurableTranscript WITH
  Runs <- {1}, Calls <- {0, 1}, MaxTurns <- 2, Parallel <- FALSE, Defers <- TRUE,
  Compacts <- FALSE, Lapses <- AnyLapse, MaxLapses <- 3,
  Aborts <- {"run", "queued"}, ResumedFails <- {"abort", "answer", "tool"}

Tables == INSTANCE SqliteRunStores WITH
  Runs <- {r1, r2}, Inputs <- {input}, Authorities <- {player}, Operations <- {close},
  MaxRevision <- 3, Streams <- {stream}, RecordIds <- {1, 2, 3, 4}, MaxSequence <- 5,
  StoredJobs <- {1, 2}, Adapters <- {adapter1, adapter2}, MaxJobRevision <- 2,
  MaxTime <- 0, MaxJobTime <- 1

Media == INSTANCE MediaJobs WITH
  Outputs <- {0, 1}, MaxQueuedCalls <- 1, Aborting <- Callers, MaxIds <- 1, MaxStops <- 1

CallersAlike == Permutations(Callers)

Init ==
  /\ session \in {"tools", "compaction", "deferral", "resumed", "transcriptTable", "eventTable", "media",
                 "restarts", "mediaTable"}
  /\ Tools!Init /\ Tables!TranscriptTablesInit /\ Tables!EventTablesInit
  /\ IF session = "media" THEN Media!MediaInit ELSE MediaInit
  /\ Tables!JobTablesInit

Next ==
  /\ UNCHANGED session
  /\ \/ /\ UNCHANGED <<transcriptTables, eventTables, mediaVars, mediaRows>>
        /\ \/ session = "tools" /\ Tools!Next
           \/ session = "compaction" /\ Compaction!Next
           \/ session = "deferral" /\ Deferral!Next
           \/ session = "resumed" /\ Resumed!Next
     \/ /\ UNCHANGED <<live, transcriptTables, eventTables, mediaRows>>
        /\ \/ session = "media" /\ Media!MediaNext
           \/ session = "restarts" /\ MediaNext
     \/ session = "transcriptTable" /\ Tables!TranscriptTablesNext
        /\ UNCHANGED <<live, eventTables, mediaVars, mediaRows>>
     \/ session = "eventTable" /\ Tables!EventTablesNext
        /\ UNCHANGED <<live, transcriptTables, mediaVars, mediaRows>>
     \/ session = "mediaTable" /\ Tables!JobTablesNext
        /\ UNCHANGED <<live, transcriptTables, eventTables, mediaVars>>

Spec == Init /\ [][Next]_vars

(* Wherever the process stops, whichever writes fail and whatever a player *)
(* aborts, a restore is refused for three reasons only: a run had ended    *)
(* otherwise than its transcript had it, a deferred run was closed out of  *)
(* turn, or a run was started within another's turn.  The first two need a *)
(* deferred run.                                                           *)
RestoreAccepted == Tools!RefusalsExplained

(* No Tool takes effect before its start is on record, and no call that    *)
(* took effect is ever answered as not started.                            *)
ToolOutcomesTruthful == Tools!ToolOutcomesTruthful

(* The canonical events end every run at most once, and those of an actor  *)
(* that registers say of every deferred run what its transcript says.      *)
RegistersInAgreement == Tools!RegistersInAgreement /\ []Tools!EndedOnce

(* Every transaction of the SQLite stores of transcripts, events and media *)
(* jobs is a step of the store in memory and leaves rows that pass a load; *)
(* a purge takes whole ended runs, and a closed authority admits nothing.  *)
ImplementsStores ==
  /\ Tables!Memory!TranscriptInit /\ Tables!Memory!EventInit /\ Tables!Memory!JobsInit
  /\ [][session = "transcriptTable" =>
          [Tables!Memory!TranscriptNext]_transcriptTables]_vars
  /\ [][session = "eventTable" => [Tables!Memory!EventNext]_eventTables]_vars
  /\ [][session = "mediaTable" => [Tables!Memory!JobsNext]_mediaRows]_vars
  /\ [](session = "transcriptTable" => Tables!TranscriptLoadable)
  /\ [](session = "eventTable" => Tables!RowsReadable)
  /\ [](session = "mediaTable" => Tables!assertHeaders)
  /\ Tables!PurgesWholeRuns
  /\ Tables!Memory!ClosedAuthorityAdmitsNothing
=============================================================================
