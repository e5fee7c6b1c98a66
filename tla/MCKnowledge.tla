----------------------------- MODULE MCKnowledge -----------------------------
(***************************************************************************)
(* Small instances of what a character knows, for TLC; a behaviour is      *)
(* about one of them.                                                      *)
(*   memory       one memory changed, recalled and indexed in the          *)
(*                background by two callers, with crashes and closings     *)
(*   partitions   two partitions, room to track one of them                *)
(*   foreground   explicit rebuilds only                                   *)
(*   memoryTable  the SQLite authority of memories                         *)
(*   evolution    two callers propose, review, activate, roll back and     *)
(*                purge the versions of a behaviour skill                  *)
(*   behaviorTable  the SQLite store of skills, one skill                  *)
(*   scopes       the same, a skill in two scopes                          *)
(*   resources    the files of two resources, published and collected      *)
(*   images       the files of image attachments                           *)
(***************************************************************************)
EXTENDS ImmutableFiles, BehaviorEvolution, Sequences, TLC

CONSTANTS c1, c2, m1, m2, b1, b2, garden, palace, ann, bob, Unset

VARIABLES
  session,
  indexes, snapshots, mutations, records, embeddings, heads, tracker, overflowMutations,
  overflowed, background, queue, aborted, work, memoryStops,
  memoryRows, tagRows, recipientRows, embeddingRows, documentRows, fullText, headRows, laneRows, sequences,
  proposalRows, registryRows, versionRows, changeRows, behaviorKeys

service == <<indexes, snapshots, mutations, records, embeddings, heads, tracker, overflowMutations,
             overflowed, background, queue, aborted, work, memoryStops>>
memoryTables == <<memoryRows, tagRows, recipientRows, embeddingRows, documentRows, fullText,
                  headRows, laneRows, sequences>>
behaviorTables == <<proposalRows, registryRows, versionRows, changeRows, behaviorKeys>>
known == <<service, memoryTables, evolution, behaviorTables>>
vars == <<session, known, fileVars>>

Recalled == INSTANCE GameMemory WITH
  Callers <- {c1, c2}, Memories <- {m1}, Partitions <- {garden}, Background <- TRUE,
  RetryFailure <- "next-recall", MaxPartitions <- 1, MaxConcurrentPartitions <- 1,
  MaxPendingPartitions <- 1, MaxHead <- 2, MaxStops <- 1

Tracked == INSTANCE GameMemory WITH
  Callers <- {c1, c2}, Memories <- {m1}, Partitions <- {garden, palace}, Background <- TRUE,
  RetryFailure <- "never", MaxPartitions <- 1, MaxConcurrentPartitions <- 1,
  MaxPendingPartitions <- 2, MaxHead <- 1, MaxStops <- 0

Foreground == INSTANCE GameMemory WITH
  Callers <- {c1, c2}, Memories <- {m1}, Partitions <- {garden}, Background <- FALSE,
  RetryFailure <- "never", MaxPartitions <- 1, MaxConcurrentPartitions <- 1,
  MaxPendingPartitions <- 1, MaxHead <- 2, MaxStops <- 1

AudienceOf(visibility, people) == [visibility |-> visibility, recipients |-> people]
LaneOf(world, scope) == [owner |-> ann, world |-> world, scope |-> scope]
MemoryTable == INSTANCE SqliteMemoryAuthority WITH
  MemoryIds <- {m1, m2}, Lanes <- {LaneOf(1, 1), LaneOf(1, 2), LaneOf(2, 1)},
  Writes <- {[text |-> 1, tags |-> {}, audience |-> AudienceOf("owner", {})],
             [text |-> 2, tags |-> {"tag"}, audience |-> AudienceOf("recipient", {bob})]},
  MaxDraws <- 3, MaxTime <- 1, People <- {ann, bob}, NoOne <- Unset

KeyIn(kind) == [partition |-> 1, scope |-> [kind |-> kind, id |-> 1], skill |-> 1]
ActorKeys == {KeyIn("actor")}

BehaviorTable == INSTANCE SqliteBehaviorStore

Scopes == INSTANCE SqliteBehaviorStore WITH
  ProposalIds <- {b1, b2}, RegistryKeys <- {KeyIn("actor"), KeyIn("shared")}, Contents <- {1},
  MaxProposals <- 2, MaxRevision <- 2, MaxTime <- 1

ImageFiles == INSTANCE ImmutableFiles WITH
  Images <- TRUE, Batches <- {{1}, {1, 2}}, MaxCrashes <- 0

Init ==
  /\ session \in {"memory", "partitions", "foreground", "memoryTable", "evolution", "behaviorTable",
                 "scopes", "resources", "images"}
  /\ IF session = "partitions" THEN Tracked!MemoryInit
     ELSE IF session = "foreground" THEN Foreground!MemoryInit ELSE Recalled!MemoryInit
  /\ MemoryTable!TablesInit
  /\ EvolutionInit /\ BehaviorTable!TablesInit /\ FilesInit

Knows ==
  \/ /\ UNCHANGED <<memoryTables, evolution, behaviorTables>>
     /\ \/ session = "memory" /\ Recalled!MemoryNext
        \/ session = "partitions" /\ Tracked!MemoryNext
        \/ session = "foreground" /\ Foreground!MemoryNext
  \/ session = "memoryTable" /\ MemoryTable!TablesNext /\ UNCHANGED <<service, evolution, behaviorTables>>
  \/ session = "evolution" /\ EvolutionNext /\ UNCHANGED <<service, memoryTables, behaviorTables>>
  \/ /\ UNCHANGED <<service, memoryTables, evolution>>
     /\ \/ session = "behaviorTable" /\ BehaviorTable!TablesNext
        \/ session = "scopes" /\ Scopes!TablesNext

Next ==
  /\ UNCHANGED session
  /\ \/ Knows /\ UNCHANGED fileVars
     \/ /\ UNCHANGED known
        /\ \/ session = "resources" /\ FilesNext
           \/ session = "images" /\ ImageFiles!FilesNext

Spec == Init /\ [][Next]_vars

Symmetry == Permutations({c1, c2}) \cup Permutations({b1, b2})

(* A recall that used the vector index was offered every memory that was   *)
(* active when it began and has not changed since; a partition ready at    *)
(* its durable revision has exactly the vectors of its active memories;    *)
(* changes are counted as long as they run, and no partition is left       *)
(* preparing without a job.                                                *)
RecallComplete ==
  /\ session = "memory" => Recalled!RecallComplete /\ Recalled!ReadyExact /\ Recalled!TrackerExact
  /\ session = "partitions" => Tracked!RecallComplete /\ Tracked!ReadyExact /\ Tracked!TrackerExact
  /\ session = "foreground" => Foreground!TrackerExact

(* Every transaction of a SQLite store is a step of what its service is    *)
(* promised; its rows load, but for activated proposals whose version was  *)
(* purged; a full-text search finds exactly what its viewer may read, a    *)
(* view of several scopes the skills it should.                            *)
ImplementsStores ==
  /\ MemoryTable!Authority!AuthorityInit
  /\ [][session = "memoryTable" => [MemoryTable!Authority!AuthorityNext]_memoryTables]_vars
  /\ [](session = "memoryTable" => MemoryTable!TablesAgree)
  /\ BehaviorTable!Behavior!StoreInit
  /\ [][session = "behaviorTable" => [BehaviorTable!Behavior!StoreNext]_behaviorTables]_vars
  /\ [](session = "behaviorTable" => BehaviorTable!TablesAgree)
  /\ [][session = "scopes" => [Scopes!Behavior!StoreNext]_behaviorTables]_vars
  /\ [](session = "scopes" => Scopes!TablesAgree)
=============================================================================
