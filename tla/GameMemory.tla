----------------------------- MODULE GameMemory -----------------------------
(***************************************************************************)
(* The memory service of packages/memory over the SQLite authority and a   *)
(* vector index: calls that change memories and then the index, recalls,   *)
(* and rebuilds of a partition's index, explicit ones and background jobs. *)
(* The calls interleave at the awaits of the embedding provider and of the *)
(* index; a call of the SQLite authority ends in the segment that makes    *)
(* it.  A text is named by the revision that wrote it.                     *)
(***************************************************************************)
EXTENDS Integers, Sequences, FiniteSets, Functions, TLC

CONSTANTS
  Partitions, Unset,
  Callers, Memories,
  Background,        \* whether index preparation runs in the background
  RetryFailure,      \* "never" or "next-recall"
  MaxPartitions, MaxConcurrentPartitions, MaxPendingPartitions,
  MaxHead,           \* bound on the changes of a partition
  MaxStops           \* bound on crashes and on closings of the preparation

VARIABLES
  indexes,     \* partition -> the index in memory
  snapshots,   \* partition -> the files of its snapshot
  mutations,   \* partition -> who waits for its mutex, its holder first
  records,      \* the authority's memories: Unset or their row
  embeddings,   \* memory -> the revision its stored embedding is of, 0 for none
  heads,        \* partition -> its durable revision
  tracker,      \* the states of the tracked partitions, the oldest first
  overflowMutations,
  overflowed,   \* the rebuilds whose overflow epoch is over
  background,   \* "open", "drain" or "abort" while it closes, "none"
  queue,        \* the background jobs not started yet
  aborted,      \* the rebuilds whose signal is aborted
  work,         \* caller or partition (its job) -> what it is doing
  memoryStops

(* ---- The vector index of packages/memory-usearch ----                   *)
(* Per partition an index in memory behind a mutex, and a snapshot of it   *)
(* on disk, a file of vectors and a file that names the revision and the   *)
(* digest of the vectors.  A vector is named by the revision of the text   *)
(* it was computed from; the digest of a file is its content.              *)

indexTables == <<indexes, snapshots, mutations>>

NoVectors == [m \in {} |-> 0]
PartitionState == [vectors |-> NoVectors, revision |-> Unset, readyRevision |-> Unset]

IndexInit ==
  /\ indexes = [p \in Partitions |-> PartitionState]
  /\ snapshots = [p \in Partitions |-> [file |-> Unset, revision |-> Unset, digest |-> Unset]]
  /\ mutations = [p \in Partitions |-> << >>]

(* A mutex of the package serves its waiters in the order they came. *)
waitFor(who, p) == mutations' = [mutations EXCEPT ![p] = Append(@, who)]
Holds(who, p) == mutations[p] # << >> /\ Head(mutations[p]) = who
release(p) == mutations' = [mutations EXCEPT ![p] = Tail(@)]
waitAgain(who, p) == mutations' = [mutations EXCEPT ![p] = Append(Tail(@), who)]

upsert(p, key, vector) ==
  indexes' = [indexes EXCEPT ![p] =
    [vectors |-> (key :> vector) @@ @.vectors, revision |-> Unset, readyRevision |-> Unset]]

remove(p, key) ==
  indexes' = [indexes EXCEPT ![p] =
    [vectors |-> Restrict(@.vectors, DOMAIN @.vectors \ {key}), revision |-> Unset, readyRevision |-> Unset]]

search(p) == indexes[p].vectors

replace(p, entries, revision) ==
  indexes' = [indexes EXCEPT ![p] =
    [vectors |-> entries, revision |-> revision, readyRevision |-> Unset]]

(* The snapshot is of the revision and its vectors are those its digest    *)
(* names.                                                                  *)
SnapshotMatches(p, revision) ==
  LET disk == snapshots[p] IN disk.revision = revision /\ disk.file # Unset /\ disk.digest = disk.file

CanRestore(p, revision) == indexes[p].readyRevision = revision \/ SnapshotMatches(p, revision)

restore(p, revision) ==
  IF indexes[p].readyRevision # revision /\ SnapshotMatches(p, revision)
  THEN indexes' = [indexes EXCEPT ![p] =
         [vectors |-> snapshots[p].file, revision |-> revision, readyRevision |-> revision]]
  ELSE UNCHANGED indexes

CanCheckpoint(p, revision) == indexes[p].revision = revision

(* The two renames of a checkpoint; the process may stop between them.     *)
renameVectors(p) == snapshots' = [snapshots EXCEPT ![p].file = indexes[p].vectors]
renameMetadata(p, revision) ==
  /\ snapshots' = [snapshots EXCEPT ![p].revision = revision, ![p].digest = indexes[p].vectors]
  /\ indexes' = [indexes EXCEPT ![p].readyRevision = revision]

(* The process stops: the files stay. *)
indexCrash ==
  /\ indexes' = [p \in Partitions |-> PartitionState]
  /\ mutations' = [p \in Partitions |-> << >>]
  /\ UNCHANGED snapshots

memoryVars == <<indexTables, records, embeddings, heads, tracker, overflowMutations, overflowed,
                background, queue, aborted, work, memoryStops>>
authorityVars == <<records, embeddings, heads>>
preparationVars == <<overflowMutations, overflowed, background, queue, aborted>>

Idle == [at |-> "idle"]
Processes == Callers \cup Partitions

MemoryInit ==
  /\ IndexInit
  /\ records = [m \in Memories |-> Unset]
  /\ embeddings = [m \in Memories |-> 0]
  /\ heads = [p \in Partitions |-> 0]
  /\ tracker = << >> /\ overflowMutations = 0 /\ overflowed = {}
  /\ background = IF Background THEN "open" ELSE "none"
  /\ queue = << >> /\ aborted = {}
  /\ work = [x \in Processes |-> Idle]
  /\ memoryStops = 0

(* ---- The authority ---- *)

Active(p) == {m \in Memories : records[m] # Unset /\ records[m].p = p /\ records[m].active}
Key(m) == records[m].key
NewKey == 1 + Cardinality({m \in Memories : records[m] # Unset})
Current(m, revision) == records[m] # Unset /\ records[m].active /\ records[m].revision = revision
CurrentRecords(p) == [m \in Active(p) |-> records[m].revision]

Changed(m, row) ==
  /\ heads[row.p] < MaxHead
  /\ records' = [records EXCEPT ![m] = row]
  /\ heads' = [heads EXCEPT ![row.p] = @ + 1]

(* ---- What is tracked of the partitions ---- *)

Has(t, p) == \E i \in DOMAIN t : t[i].key = p
StateOf(t, p) == t[CHOOSE i \in DOMAIN t : t[i].key = p]
Put(t, s) == [i \in DOMAIN t |-> IF t[i].key = s.key THEN s ELSE t[i]]
Without(t, p) == SelectSeq(t, LAMBDA s : s.key # p)
Unknown(p) == [key |-> p, mutations |-> 0, preparation |-> Unset, revision |-> Unset, status |-> "unknown"]

Evictable(s) ==
  /\ s.mutations = 0 /\ s.status # "preparing"
  /\ s.status # "failed" \/ background = "none" \/ RetryFailure # "never"

acquire(t, p) ==
  LET evictable == {i \in DOMAIN t : Evictable(t[i])}
  IN CASE Has(t, p) -> t
       [] ~Has(t, p) /\ Len(t) < MaxPartitions -> Append(t, Unknown(p))
       [] ~Has(t, p) /\ Len(t) >= MaxPartitions /\ evictable = {} -> t
       [] OTHER -> LET i == CHOOSE i \in evictable : \A j \in evictable : i <= j
                   IN Append(Without(t, t[i].key), Unknown(p))

invalidate(t, p) ==
  IF ~Has(t, p) THEN t
  ELSE IF StateOf(t, p).mutations = 0 THEN Without(t, p)
  ELSE Put(t, [Unknown(p) EXCEPT !.mutations = StateOf(t, p).mutations])

(* A mutation is counted on its partition's state, or, when there is no    *)
(* room to track the partition or the partition is not known, as overflow. *)
entryOf(p) == IF Has(acquire(tracker, p), p) THEN "state" ELSE "overflow"
began(p) ==
  LET t == acquire(tracker, p)
  IN IF Has(t, p)
     THEN Put(t, [StateOf(t, p) EXCEPT !.mutations = @ + 1, !.preparation = Unset, !.status = "unknown"])
     ELSE t

beginIndexMutation(p, entry) ==
  /\ tracker' = IF entry = "unkeyed" THEN tracker ELSE began(p)
  /\ IF entry = "state" THEN UNCHANGED <<overflowMutations, overflowed>>
     ELSE overflowMutations' = overflowMutations + 1 /\ overflowed' = Processes

ended(t, p, entry) ==
  invalidate(IF entry = "state" THEN Put(t, [StateOf(t, p) EXCEPT !.mutations = @ - 1]) ELSE t, p)

endIndexMutation(p, entry) ==
  /\ tracker' = ended(tracker, p, entry)
  /\ IF entry = "state" THEN UNCHANGED <<overflowMutations, overflowed>>
     ELSE overflowMutations' = overflowMutations - 1 /\ overflowed' = Processes

(* ---- Calls that change memories ---- *)

(* A refused change has begun and ended within one segment. *)
refusedMutation(p) ==
  /\ tracker' = invalidate(acquire(tracker, p), p)
  /\ overflowed' = IF entryOf(p) = "state" THEN overflowed ELSE Processes
  /\ UNCHANGED <<indexTables, authorityVars, overflowMutations, background, queue, aborted, work, memoryStops>>

Proceed(x, to) == work' = [work EXCEPT ![x] = to]

Accepted(m, p) == records[m] # Unset => (records[m].text = 1 /\ records[m].p = p)

(* A repeated remember of an unrevised memory returns what is stored, and  *)
(* is synchronized again.                                                  *)
remember(c, m, p) ==
  /\ work[c] = Idle
  /\ \/ ~Accepted(m, p) /\ refusedMutation(p)
     \/ /\ Accepted(m, p)
        /\ IF records[m] = Unset
           THEN Changed(m, [key |-> NewKey, p |-> p, revision |-> 1, text |-> 1, active |-> TRUE])
           ELSE UNCHANGED <<records, heads>>
        /\ Proceed(c, [at |-> "embed", m |-> m, p |-> p, entry |-> entryOf(p),
                       revision |-> records'[m].revision, text |-> 1])
        /\ beginIndexMutation(p, entryOf(p))
        /\ UNCHANGED <<indexTables, embeddings, background, queue, aborted, memoryStops>>

(* The row the call found is the one the caller expects to change, or      *)
(* another call changed it first.                                          *)
revise(c, m) ==
  /\ work[c] = Idle /\ records[m] # Unset
  /\ \/ refusedMutation(records[m].p)
     \/ /\ records[m].active
        /\ LET row == [records[m] EXCEPT !.revision = @ + 1, !.text = records[m].revision + 1]
           IN Changed(m, row)
              /\ Proceed(c, [at |-> "remove", m |-> m, p |-> row.p, entry |-> entryOf(row.p),
                             revision |-> row.revision, text |-> row.text])
        /\ embeddings' = [embeddings EXCEPT ![m] = 0]
        /\ waitFor(c, records[m].p)
        /\ beginIndexMutation(records[m].p, entryOf(records[m].p))
        /\ UNCHANGED <<indexes, snapshots, background, queue, aborted, memoryStops>>

forget(c, m) ==
  /\ work[c] = Idle /\ records[m] # Unset
  /\ \/ refusedMutation(records[m].p)
     \/ /\ records[m].active
        /\ LET row == [records[m] EXCEPT !.revision = @ + 1, !.active = FALSE]
           IN Changed(m, row)
              /\ Proceed(c, [at |-> "removeForgotten", m |-> m, p |-> row.p, entry |-> entryOf(row.p),
                             revision |-> row.revision, text |-> row.text])
        /\ embeddings' = [embeddings EXCEPT ![m] = 0]
        /\ waitFor(c, records[m].p)
        /\ beginIndexMutation(records[m].p, entryOf(records[m].p))
        /\ UNCHANGED <<indexes, snapshots, background, queue, aborted, memoryStops>>

(* The memory was not there when the call looked for its partition, and is *)
(* when it changes it: the change is counted on no partition.              *)
reviseUnseen(c, m) ==
  /\ work[c] = Idle /\ records[m] = Unset
  /\ Proceed(c, [at |-> "unseen", m |-> m])
  /\ UNCHANGED <<indexTables, authorityVars, tracker, preparationVars, memoryStops>>

changeUnseen(c) ==
  /\ work[c].at = "unseen"
  /\ LET m == work[c].m IN
     IF records[m] # Unset /\ records[m].active
     THEN LET row == [records[m] EXCEPT !.revision = @ + 1, !.text = records[m].revision + 1]
          IN /\ Changed(m, row)
             /\ embeddings' = [embeddings EXCEPT ![m] = 0]
             /\ Proceed(c, [at |-> "remove", m |-> m, p |-> row.p, entry |-> "unkeyed",
                            revision |-> row.revision, text |-> row.text])
             /\ waitFor(c, row.p)
             /\ beginIndexMutation(row.p, "unkeyed")
             /\ UNCHANGED <<indexes, snapshots, background, queue, aborted, memoryStops>>
     ELSE /\ Proceed(c, Idle) /\ overflowed' = Processes
          /\ UNCHANGED <<indexTables, authorityVars, tracker, overflowMutations, background, queue,
                         aborted, memoryStops>>

removed(c) ==
  LET w == work[c] IN
  /\ w.at \in {"remove", "removeForgotten"} /\ Holds(c, w.p)
  /\ remove(w.p, w.m) /\ release(w.p)
  /\ Proceed(c, [w EXCEPT !.at = IF @ = "remove" THEN "embed" ELSE "end"])
  /\ UNCHANGED <<snapshots, authorityVars, tracker, preparationVars, memoryStops>>

(* The provider answers, or fails; an embedding of a text that is no       *)
(* longer current is not kept.                                             *)
synchronize(c) ==
  LET w == work[c] IN
  /\ w.at = "embed" /\ "m" \in DOMAIN w
  /\ \/ /\ Current(w.m, w.revision)
        /\ embeddings' = [embeddings EXCEPT ![w.m] = w.revision]
        /\ waitFor(c, w.p) /\ Proceed(c, [w EXCEPT !.at = "upsert"])
     \/ UNCHANGED <<embeddings, mutations>> /\ Proceed(c, [w EXCEPT !.at = "end"])
  /\ UNCHANGED <<indexes, snapshots, records, heads, tracker, preparationVars, memoryStops>>

upserted(c) ==
  LET w == work[c] IN
  /\ w.at = "upsert" /\ Holds(c, w.p)
  /\ upsert(w.p, w.m, w.text) /\ release(w.p)
  /\ Proceed(c, [w EXCEPT !.at = "end"])
  /\ UNCHANGED <<snapshots, authorityVars, tracker, preparationVars, memoryStops>>

mutationEnds(c) ==
  /\ work[c].at = "end"
  /\ endIndexMutation(work[c].p, work[c].entry)
  /\ Proceed(c, Idle)
  /\ UNCHANGED <<indexTables, authorityVars, background, queue, aborted, memoryStops>>

(* A host writes to the authority itself, or another process does.         *)
writtenElsewhere(m, p) ==
  /\ \/ /\ records[m] = Unset
        /\ Changed(m, [key |-> NewKey, p |-> p, revision |-> 1, text |-> 1, active |-> TRUE])
     \/ /\ records[m] # Unset /\ records[m].active /\ records[m].p = p
        /\ Changed(m, [records[m] EXCEPT !.revision = @ + 1, !.text = records[m].revision + 1])
  /\ embeddings' = [embeddings EXCEPT ![m] = 0]
  /\ UNCHANGED <<indexTables, tracker, preparationVars, work, memoryStops>>

(* ---- Background jobs ---- *)

Jobs == {p \in Partitions : work[p] # Idle}
Started == {p \in Jobs : work[p].at # "queued"}

(* What scheduling the partition's preparation makes of the tracker t.     *)
Schedules(t, p) ==
  /\ background = "open" /\ Has(t, p)
  /\ LET s == StateOf(t, p)
     IN s.status # "ready" /\ s.preparation = Unset /\ (s.status # "failed" \/ RetryFailure # "never")
  /\ work[p] = Idle /\ Cardinality(Jobs) < MaxPendingPartitions

scheduleIndexPreparation(c, t0, p) ==
  LET t == IF background = "open" THEN acquire(t0, p) ELSE t0
      immediately == Cardinality(Started) < MaxConcurrentPartitions
  IN IF Schedules(t, p)
     THEN /\ tracker' = Put(t, [StateOf(t, p) EXCEPT !.status = "preparing"])
          /\ work' = [work EXCEPT ![c] = Idle, ![p] = [at |-> IF immediately THEN "begin" ELSE "queued"]]
          /\ queue' = IF immediately THEN queue ELSE Append(queue, p)
     ELSE /\ tracker' = t
          /\ Proceed(c, Idle)
          /\ UNCHANGED queue

(* The process x ends; after a job the next queued one starts.             *)
Finished(x) ==
  IF x \in Partitions /\ queue # << >>
  THEN /\ work' = [work EXCEPT ![x] = Idle, ![Head(queue)] = [at |-> "begin"]]
       /\ queue' = Tail(queue)
  ELSE Proceed(x, Idle) /\ UNCHANGED queue

(* ---- Recalls ---- *)

Recall(at, p) == [at |-> at, p |-> p, head |-> heads[p], due |-> CurrentRecords(p)]

(* Mutant: what was ready once is taken to be ready. *)
StaleNever(p) == FALSE

(* The partition was ready at another durable revision.                    *)
Stale(p) == Has(tracker, p) /\ StateOf(tracker, p).revision \notin {Unset, heads[p]}

(* Up to the first await on the provider or the index.  A recall that      *)
(* finds nothing active, or does not use the index, ends here.             *)
recall(c, p) ==
  /\ work[c] = Idle /\ Active(p) # {}
  /\ LET stale == Stale(p)
         t == IF stale THEN invalidate(tracker, p) ELSE tracker
     IN \/ /\ stale \/ ~Has(tracker, p)
           /\ tracker' = t /\ waitFor(c, p) /\ Proceed(c, Recall("restore", p))
           /\ UNCHANGED queue
        \/ /\ ~stale /\ Has(tracker, p)
           /\ UNCHANGED mutations
           /\ IF ~Background \/ StateOf(t, p).status = "ready"
              THEN Proceed(c, Recall("embed", p)) /\ UNCHANGED <<tracker, queue>>
              ELSE scheduleIndexPreparation(c, t, p)
  /\ UNCHANGED <<indexes, snapshots, authorityVars, overflowMutations, overflowed, background, aborted, memoryStops>>

(* A restored partition is ready unless a mutation or a rebuild of it runs. *)
restoredTracker(p, head) ==
  LET t == acquire(tracker, p)
  IN IF CanRestore(p, head) /\ Has(t, p)
        /\ StateOf(t, p).mutations = 0 /\ StateOf(t, p).preparation = Unset
     THEN Put(t, [StateOf(t, p) EXCEPT !.status = "ready", !.revision = head])
     ELSE IF CanRestore(p, head) THEN t ELSE tracker

recallRestored(c) ==
  LET w == work[c]
      t == restoredTracker(w.p, w.head)
  IN /\ w.at = "restore" /\ "due" \in DOMAIN w /\ Holds(c, w.p)
     /\ restore(w.p, w.head) /\ release(w.p)
     /\ IF ~Background \/ (CanRestore(w.p, w.head) /\ Has(t, w.p) /\ StateOf(t, w.p).status = "ready")
        THEN tracker' = t /\ Proceed(c, [w EXCEPT !.at = "embed"]) /\ UNCHANGED queue
        ELSE scheduleIndexPreparation(c, t, w.p)
     /\ UNCHANGED <<snapshots, authorityVars, overflowMutations, overflowed, background, aborted, memoryStops>>

(* The provider embeds the query and the index is searched, or the recall  *)
(* goes on without it.                                                     *)
recallSearched(c) ==
  LET w == work[c]
  IN /\ w.at = "embed" /\ "due" \in DOMAIN w
     /\ \/ Proceed(c, Idle)
        \/ Proceed(c, [at |-> "recalled", p |-> w.p, due |-> w.due, found |-> search(w.p)])
     /\ UNCHANGED <<indexTables, authorityVars, tracker, preparationVars, memoryStops>>

recallReturns(c) ==
  /\ work[c].at = "recalled" /\ Proceed(c, Idle)
  /\ UNCHANGED <<indexTables, authorityVars, tracker, preparationVars, memoryStops>>

(* ---- Rebuilds ---- *)

Explicit == {c \in Callers : "scanned" \in DOMAIN work[c]}

PartitionOf(x) == IF x \in Partitions THEN x ELSE work[x].p
IsBackground(x) == x \in Partitions
isCurrentIndexPreparation(t, x) ==
  Has(t, PartitionOf(x)) /\ StateOf(t, PartitionOf(x)).preparation = x

(* What is tracked when the rebuild x throws. *)
rebuildFailed(t, x) ==
  CASE ~isCurrentIndexPreparation(t, x) -> t
    [] isCurrentIndexPreparation(t, x) /\ IsBackground(x) ->
         Put(t, [StateOf(t, PartitionOf(x)) EXCEPT !.preparation = Unset, !.status = "failed"])
    [] OTHER -> invalidate(t, PartitionOf(x))

rebuildThrows(x) ==
  /\ tracker' = rebuildFailed(tracker, x) /\ Finished(x)
  /\ aborted' = aborted \ {x}

beginIndexTransition(x, p) ==
  LET t == acquire(tracker, p)
  IN IF Has(t, p)
     THEN Put(t, [StateOf(t, p) EXCEPT !.preparation = x,
                    !.status = IF IsBackground(x) THEN "preparing" ELSE "unknown"])
     ELSE t

(* The rebuild of the partition starts: up to the wait for its index.      *)
rebuildStarts(x, p) ==
  /\ overflowed' = overflowed \ {x}
  /\ tracker' = beginIndexTransition(x, p) /\ waitFor(x, p)
  /\ Proceed(x, [at |-> "restore", p |-> p, head |-> heads[p], entries |-> NoVectors,
                 after |-> 0, scanned |-> Cardinality(Active(p)), restored |-> FALSE])
  /\ UNCHANGED <<indexes, snapshots, authorityVars, overflowMutations, background, queue, aborted, memoryStops>>

jobStarts(p) ==
  /\ work[p].at = "begin"
  /\ \/ p \notin aborted /\ rebuildStarts(p, p)
     \/ /\ p \in aborted
        /\ overflowed' = overflowed \ {p} /\ aborted' = aborted \ {p}
        /\ tracker' = rebuildFailed(beginIndexTransition(p, p), p) /\ Finished(p)
        /\ UNCHANGED <<indexTables, authorityVars, overflowMutations, background, memoryStops>>

(* An explicit rebuild waits for the partition's background job. *)
rebuild(c, p) ==
  /\ work[c] = Idle /\ Active(p) # {}
  /\ background = IF Background THEN "open" ELSE "none"
  /\ \/ work[p] = Idle /\ rebuildStarts(c, p)
     \/ /\ work[p] # Idle
        /\ Proceed(c, [at |-> "awaitJob", p |-> p])
        /\ UNCHANGED <<indexTables, authorityVars, tracker, preparationVars, memoryStops>>

jobAwaited(c) ==
  /\ work[c].at = "awaitJob" /\ work[work[c].p] = Idle
  /\ \/ background = "open" /\ rebuildStarts(c, work[c].p)
     \/ /\ background # "open" /\ Proceed(c, Idle)
        /\ UNCHANGED <<indexTables, authorityVars, tracker, preparationVars, memoryStops>>

rebuildRestored(x) ==
  LET w == work[x]
  IN /\ w.at = "restore" /\ "scanned" \in DOMAIN w /\ Holds(x, w.p)
     /\ restore(w.p, w.head)
     /\ IF CanRestore(w.p, w.head)
        THEN /\ release(w.p) /\ Proceed(x, [w EXCEPT !.at = "verify", !.restored = TRUE])
             /\ UNCHANGED <<tracker, queue, aborted>>
        ELSE IF x \in aborted THEN release(w.p) /\ rebuildThrows(x)
        ELSE /\ waitAgain(x, w.p) /\ Proceed(x, [w EXCEPT !.at = "scan", !.scanned = 0])
             /\ UNCHANGED <<tracker, queue, aborted>>
     /\ UNCHANGED <<snapshots, authorityVars, overflowMutations, overflowed, background, memoryStops>>

(* One batch of the scan, in the order of the keys: what has an embedding  *)
(* of its revision is resolved, the rest waits for the provider.  The scan *)
(* that finds nothing more completes the replacement of the index.         *)
scanActive(p, after) == {m \in Active(p) : Key(m) > after}
Missing(batch) == {m \in batch : embeddings[m] # records[m].revision}
Vectors(ms) == [m \in ms |-> records[m].text]

rebuildScans(x) ==
  LET w == work[x]
      batch == scanActive(w.p, w.after)
      last == CHOOSE k \in {Key(m) : m \in batch} : \A m \in batch : Key(m) <= k
  IN /\ w.at = "scan" /\ Holds(x, w.p) /\ x \notin aborted
     /\ \/ /\ batch = {}
           /\ replace(w.p, w.entries, w.head) /\ release(w.p)
           /\ Proceed(x, [w EXCEPT !.at = "verify", !.after = 0])
        \/ /\ batch # {} /\ UNCHANGED <<indexes, mutations>>
           /\ Proceed(x, [w EXCEPT !.after = last, !.scanned = @ + Cardinality(batch),
                !.entries = Vectors(batch \ Missing(batch)) @@ @,
                !.at = IF Missing(batch) = {} THEN "scan" ELSE "embedBatch"]
              @@ (IF Missing(batch) = {} THEN << >> ELSE [missing |-> [m \in Missing(batch) |-> records[m].revision]]))
     /\ UNCHANGED <<snapshots, authorityVars, tracker, preparationVars, memoryStops>>

(* The embeddings of the batch are kept, and indexed, of the memories that *)
(* have not changed meanwhile.                                             *)
rebuildEmbeds(x) ==
  LET w == work[x]
      written == {m \in DOMAIN w.missing : Current(m, w.missing[m])}
  IN /\ w.at = "embedBatch" /\ x \notin aborted
     /\ embeddings' = [m \in Memories |-> IF m \in written THEN w.missing[m] ELSE embeddings[m]]
     /\ Proceed(x, [f \in DOMAIN w \ {"missing"} |->
          CASE f = "at" -> "scan" [] f = "entries" -> Vectors(written) @@ w.entries [] OTHER -> w[f]])
     /\ UNCHANGED <<indexTables, records, heads, tracker, preparationVars, memoryStops>>

(* The provider fails or the signal is aborted while the replacement holds *)
(* the mutex: the index stays as it is.                                    *)
rebuildBroken(x) ==
  LET w == work[x]
  IN /\ w.at \in {"scan", "embedBatch"} /\ Holds(x, w.p)
     /\ w.at = "embedBatch" \/ x \in aborted
     /\ release(w.p) /\ rebuildThrows(x)
     /\ UNCHANGED <<indexes, snapshots, authorityVars, overflowMutations, overflowed, background, memoryStops>>

durableStable(w) ==
  /\ heads[w.p] = w.head
  /\ Cardinality(Active(w.p)) = w.scanned
  /\ w.restored \/ Cardinality(DOMAIN w.entries) = w.scanned

(* What is tracked when the rebuild x ends. *)
rebuilt(x, stableOnDisk) ==
  LET t == tracker
      p == work[x].p
      stable == StateOf(t, p).mutations = 0 /\ overflowMutations = 0 /\ x \notin overflowed
  IN CASE ~isCurrentIndexPreparation(t, x) -> t
       [] isCurrentIndexPreparation(t, x) /\ stable /\ stableOnDisk ->
            Put(t, [StateOf(t, p) EXCEPT !.preparation = Unset, !.status = "ready", !.revision = work[x].head])
       [] isCurrentIndexPreparation(t, x) /\ stable /\ ~stableOnDisk /\ IsBackground(x) ->
            Put(t, [StateOf(t, p) EXCEPT !.preparation = Unset, !.status = "failed"])
       [] OTHER -> invalidate(t, p)

rebuildPartition(x, stableOnDisk) ==
  tracker' = rebuilt(x, stableOnDisk) /\ Finished(x) /\ aborted' = aborted \ {x}

rebuildVerifies(x) ==
  LET w == work[x]
  IN /\ w.at = "verify"
     /\ CASE x \in aborted -> rebuildThrows(x) /\ UNCHANGED mutations
          [] x \notin aborted /\ durableStable(w) /\ ~w.restored ->
               /\ waitFor(x, w.p) /\ Proceed(x, [w EXCEPT !.at = "checkpoint"])
               /\ UNCHANGED <<tracker, queue, aborted>>
          [] OTHER -> rebuildPartition(x, durableStable(w)) /\ UNCHANGED mutations
     /\ UNCHANGED <<indexes, snapshots, authorityVars, overflowMutations, overflowed, background, memoryStops>>

(* The snapshot may be too large, which fails the rebuild.                 *)
rebuildCheckpoints(x) ==
  LET w == work[x]
  IN /\ w.at = "checkpoint" /\ Holds(x, w.p)
     /\ \/ /\ CanCheckpoint(w.p, w.head)
           /\ renameVectors(w.p) /\ Proceed(x, [w EXCEPT !.at = "renamed"])
           /\ UNCHANGED <<mutations, tracker, queue, aborted>>
        \/ /\ CanCheckpoint(w.p, w.head)
           /\ release(w.p) /\ rebuildThrows(x) /\ UNCHANGED snapshots
        \/ /\ ~CanCheckpoint(w.p, w.head)
           /\ release(w.p) /\ UNCHANGED snapshots
           /\ IF x \in aborted THEN rebuildThrows(x) ELSE rebuildPartition(x, TRUE)
     /\ UNCHANGED <<indexes, authorityVars, overflowMutations, overflowed, background, memoryStops>>

rebuildCheckpointed(x) ==
  LET w == work[x]
  IN /\ w.at = "renamed"
     /\ renameMetadata(w.p, w.head) /\ release(w.p)
     /\ IF x \in aborted THEN rebuildThrows(x) ELSE rebuildPartition(x, TRUE)
     /\ UNCHANGED <<authorityVars, overflowMutations, overflowed, background, memoryStops>>

(* ---- Closing the preparation, crashes ---- *)

closeIndexPreparation(mode) ==
  /\ background = "open" /\ memoryStops < MaxStops
  /\ memoryStops' = memoryStops + 1
  /\ background' = mode
  /\ aborted' = IF mode = "abort" THEN Jobs \cup Explicit ELSE aborted
  /\ UNCHANGED <<indexTables, authorityVars, tracker, overflowMutations, overflowed, queue, work>>

preparationClosed ==
  /\ background \in {"drain", "abort"} /\ Jobs = {} /\ Explicit = {}
  /\ LET closing(t) == t.status = "failed" \/ (background = "abort" /\ t.status = "preparing")
         kept == SelectSeq(tracker, LAMBDA t : ~(closing(t) /\ t.mutations = 0))
     IN tracker' = [i \in DOMAIN kept |->
          IF closing(kept[i]) THEN [Unknown(kept[i].key) EXCEPT !.mutations = kept[i].mutations] ELSE kept[i]]
  /\ background' = "none"
  /\ UNCHANGED <<indexTables, authorityVars, overflowMutations, overflowed, queue, aborted, work, memoryStops>>

(* A new GameMemory over the same index. *)
reopen ==
  /\ Background /\ background = "none"
  /\ background' = "open"
  /\ UNCHANGED <<indexTables, authorityVars, tracker, overflowMutations, overflowed, queue, aborted, work, memoryStops>>

crash ==
  /\ memoryStops < MaxStops
  /\ memoryStops' = memoryStops + 1
  /\ indexCrash
  /\ tracker' = << >> /\ overflowMutations' = 0 /\ overflowed' = {}
  /\ background' = IF Background THEN "open" ELSE "none"
  /\ queue' = << >> /\ aborted' = {}
  /\ work' = [x \in Processes |-> Idle]
  /\ UNCHANGED authorityVars

MemoryNext ==
  \/ \E m \in Memories, p \in Partitions : writtenElsewhere(m, p)
  \/ \E c \in Callers :
       \/ \E m \in Memories : (\E p \in Partitions : remember(c, m, p)) \/ revise(c, m) \/ forget(c, m) \/ reviseUnseen(c, m)
       \/ changeUnseen(c) \/ removed(c) \/ synchronize(c) \/ upserted(c) \/ mutationEnds(c)
       \/ \E p \in Partitions : recall(c, p) \/ rebuild(c, p)
       \/ recallRestored(c) \/ recallSearched(c) \/ recallReturns(c) \/ jobAwaited(c)
  \/ \E p \in Partitions : jobStarts(p)
  \/ \E x \in Processes :
       \/ rebuildRestored(x) \/ rebuildScans(x) \/ rebuildEmbeds(x)
       \/ rebuildBroken(x) \/ rebuildVerifies(x) \/ rebuildCheckpoints(x) \/ rebuildCheckpointed(x)
  \/ (\E mode \in {"drain", "abort"} : closeIndexPreparation(mode)) \/ preparationClosed \/ reopen \/ crash

(* A recall that searched the index was offered every memory that was      *)
(* active when the recall began and has not changed since.                 *)
RecallComplete ==
  \A c \in Callers : work[c].at = "recalled" =>
    \A m \in DOMAIN work[c].due : Current(m, work[c].due[m]) =>
      m \in DOMAIN work[c].found /\ work[c].found[m] = work[c].due[m]

(* A partition tracked as ready at its durable revision has exactly the    *)
(* vectors of its active memories, of their current texts.                 *)
ReadyExact ==
  \A i \in DOMAIN tracker : LET s == tracker[i] IN
    (s.status = "ready" /\ s.revision = heads[s.key]) => indexes[s.key].vectors = CurrentRecords(s.key)

(* Mutations are counted as long as they run; a partition is never left    *)
(* preparing without a job; the limits hold.                               *)
TrackerExact ==
  /\ \A i \in DOMAIN tracker : LET s == tracker[i] IN
       /\ s.mutations = Cardinality({c \in Callers : "entry" \in DOMAIN work[c]
                                       /\ work[c].entry = "state" /\ work[c].p = s.key})
       /\ s.status = "preparing" => work[s.key] # Idle
       /\ s.preparation # Unset => work[s.preparation] # Idle
  /\ overflowMutations = Cardinality({c \in Callers : "entry" \in DOMAIN work[c] /\ work[c].entry # "state"})
  /\ Len(tracker) <= MaxPartitions /\ Cardinality(Jobs) <= MaxPendingPartitions
  /\ Cardinality(Started) <= MaxConcurrentPartitions
  /\ (\E p \in Partitions : work[p].at = "queued") => Cardinality(Started) = MaxConcurrentPartitions
=============================================================================
