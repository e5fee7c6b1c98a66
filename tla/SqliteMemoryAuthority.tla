------------------------ MODULE SqliteMemoryAuthority ------------------------
(***************************************************************************)
(* The memory authority in SQLite: a row a memory, its tags, recipients    *)
(* and embedding in tables of their own, the documents of the full-text    *)
(* index and the index its triggers keep, the head of each partition and   *)
(* the number of active memories of each lane.  Each call is a transaction.*)
(***************************************************************************)
EXTENDS Integers, FiniteSets, Functions, TLC

CONSTANTS MemoryIds, Lanes, Writes, MaxDraws, MaxTime, People, NoOne

VARIABLES
  memoryRows,     \* oga_memories
  tagRows,        \* oga_memory_tags: key and tag
  recipientRows,  \* oga_memory_recipients: key and recipient
  embeddingRows,  \* oga_memory_embeddings: key -> the revision it is of
  documentRows,   \* oga_memory_search_documents: key -> text and tags
  fullText,       \* oga_memory_fts: key -> text and tags
  headRows,       \* oga_memory_partition_heads
  laneRows,       \* oga_memory_lane_counts
  sequences       \* the last key, and how many random revisions were drawn

memoryTables == <<memoryRows, tagRows, recipientRows, embeddingRows, documentRows, fullText,
                  headRows, laneRows, sequences>>

TablesInit ==
  /\ memoryRows = {} /\ tagRows = {} /\ recipientRows = {}
  /\ embeddingRows = << >> /\ documentRows = << >> /\ fullText = << >>
  /\ headRows = << >> /\ laneRows = << >>
  /\ sequences = [key |-> 0, drawn |-> 0]

NoMemory == [revision |-> 0]
Times == 0..MaxTime
memoryIndexPartition(lane) == [owner |-> lane.owner, world |-> lane.world]

findMemoryRow(m) == {r \in memoryRows : r.id = m}
TagsOf(key, rows) == {t[2] : t \in {t \in rows : t[1] = key}}
Delete(table, key) == Restrict(table, DOMAIN table \ {key})

(* A document written or removed, and what the triggers make of the index. *)
writeSearchDocument(key, write) ==
  LET document == [text |-> write.text, tags |-> write.tags]
  IN /\ documentRows' = (key :> document) @@ documentRows
     /\ fullText' = (key :> document) @@ fullText
deleteSearchDocument(key) ==
  documentRows' = Delete(documentRows, key) /\ fullText' = Delete(fullText, key)

writeTags(key, rows, tags) == {t \in rows : t[1] # key} \cup {<<key, t>> : t \in tags}

updatePartitionState(lane, delta) ==
  LET before == IF lane \in DOMAIN laneRows THEN laneRows[lane] ELSE 0
  IN /\ sequences.drawn < MaxDraws
     /\ headRows' = (memoryIndexPartition(lane) :> sequences.drawn + 1) @@ headRows
     /\ delta < 0 => before > 0
     /\ laneRows' = IF before + delta = 0 THEN Delete(laneRows, lane)
                    ELSE (lane :> before + delta) @@ laneRows

(* What a read makes of a row: its tags and recipients are read with it,   *)
(* and must be what its fingerprint was taken of.                          *)
readAudience(r) ==
  [visibility |-> r.visibility,
   recipients |-> IF r.visibility = "recipient" THEN TagsOf(r.key, recipientRows) ELSE {}]
WriteOf(r) == [text |-> r.text, tags |-> TagsOf(r.key, tagRows), audience |-> readAudience(r)]
memoryFingerprint(m, lane, write) == <<m, lane, write>>

hydrateRow(r) ==
  [key |-> r.key, lane |-> r.lane, write |-> WriteOf(r), revision |-> r.revision,
   active |-> r.lifecycle = "active", created |-> r.created, updated |-> r.updated]
MemoryOf(m) == IF findMemoryRow(m) = {} THEN NoMemory ELSE hydrateRow(CHOOSE r \in findMemoryRow(m) : TRUE)
EmbeddingOf(m) ==
  LET kept == {r \in findMemoryRow(m) : r.key \in DOMAIN embeddingRows}
  IN IF kept = {} THEN 0 ELSE embeddingRows[(CHOOSE r \in kept : TRUE).key]

Authority == INSTANCE MemoryAuthority WITH
  memories <- [m \in MemoryIds |-> MemoryOf(m)],
  embedded <- [m \in MemoryIds |-> EmbeddingOf(m)],
  revisions <- [p \in {memoryIndexPartition(lane) : lane \in Lanes} |->
                  IF p \in DOMAIN headRows THEN headRows[p] ELSE 0],
  drawn <- sequences.drawn,
  lastKey <- sequences.key

Row(m, key, lane, write, lifecycle, revision, created, updated, forgotten) ==
  [id |-> m, key |-> key, lane |-> lane, text |-> write.text, visibility |-> write.audience.visibility,
   lifecycle |-> lifecycle, revision |-> revision, fingerprint |-> memoryFingerprint(m, lane, write),
   created |-> created, updated |-> updated, forgotten |-> forgotten]

rememberRow(m, lane, write, time) ==
  LET key == sequences.key + 1
  IN /\ findMemoryRow(m) = {}
     /\ memoryRows' = memoryRows \cup {Row(m, key, lane, write, "active", 1, time, time, NoOne)}
     /\ tagRows' = writeTags(key, tagRows, write.tags)
     /\ recipientRows' = writeTags(key, recipientRows, write.audience.recipients)
     /\ writeSearchDocument(key, write)
     /\ updatePartitionState(lane, 1)
     /\ sequences' = [key |-> key, drawn |-> sequences.drawn + 1]
     /\ UNCHANGED embeddingRows

(* The world of a memory cannot change; a time before its creation is      *)
(* refused when the row is read back, and the transaction with it.         *)
reviseRow(m, revision, write, time) ==
  \E r \in findMemoryRow(m) :
    /\ r.revision = revision /\ r.lifecycle = "active" /\ r.created <= time
    /\ memoryRows' = (memoryRows \ {r}) \cup
         {Row(m, r.key, r.lane, write, "active", r.revision + 1, r.created, time, NoOne)}
    /\ tagRows' = writeTags(r.key, tagRows, write.tags)
    /\ recipientRows' = writeTags(r.key, recipientRows, write.audience.recipients)
    /\ embeddingRows' = Delete(embeddingRows, r.key)
    /\ writeSearchDocument(r.key, write)
    /\ updatePartitionState(r.lane, 0)
    /\ sequences' = [sequences EXCEPT !.drawn = @ + 1]

forgetRow(m, revision, time) ==
  \E r \in findMemoryRow(m) :
    /\ r.revision = revision /\ r.lifecycle = "active" /\ r.created <= time
    /\ memoryRows' = (memoryRows \ {r}) \cup
         {[r EXCEPT !.lifecycle = "forgotten", !.revision = @ + 1, !.updated = time, !.forgotten = time]}
    /\ deleteSearchDocument(r.key)
    /\ embeddingRows' = Delete(embeddingRows, r.key)
    /\ updatePartitionState(r.lane, -1)
    /\ sequences' = [sequences EXCEPT !.drawn = @ + 1]
    /\ UNCHANGED <<tagRows, recipientRows>>

writeEmbedding(m, revision) ==
  \E r \in findMemoryRow(m) :
    /\ r.lifecycle = "active" /\ r.revision = revision
    /\ embeddingRows' = (r.key :> revision) @@ embeddingRows
    /\ UNCHANGED <<memoryRows, tagRows, recipientRows, documentRows, fullText, headRows, laneRows, sequences>>

deleteEmbedding(m) ==
  \E r \in findMemoryRow(m) :
    /\ embeddingRows' = Delete(embeddingRows, r.key)
    /\ UNCHANGED <<memoryRows, tagRows, recipientRows, documentRows, fullText, headRows, laneRows, sequences>>

(* Deleting a row deletes what references it.                              *)
purgeForgotten(before, limit) ==
  LET forgotten == {r \in memoryRows : r.lifecycle = "forgotten" /\ r.forgotten < before}
      batch == {r \in forgotten : Cardinality({o \in forgotten : o.key < r.key}) < limit}
      kept == {r.key : r \in memoryRows \ batch}
  IN /\ memoryRows' = memoryRows \ batch
     /\ tagRows' = {t \in tagRows : t[1] \in kept}
     /\ recipientRows' = {t \in recipientRows : t[1] \in kept}
     /\ embeddingRows' = Restrict(embeddingRows, DOMAIN embeddingRows \cap kept)
     /\ documentRows' = Restrict(documentRows, DOMAIN documentRows \cap kept)
     /\ fullText' = Restrict(fullText, DOMAIN fullText \ (DOMAIN documentRows \ kept))
     /\ UNCHANGED <<headRows, laneRows, sequences>>

rebuildLexicalIndex ==
  /\ documentRows' = [key \in {r.key : r \in {r \in memoryRows : r.lifecycle = "active"}} |->
       LET r == CHOOSE r \in memoryRows : r.key = key IN [text |-> r.text, tags |-> TagsOf(key, tagRows)]]
  /\ fullText' = documentRows'
  /\ UNCHANGED <<memoryRows, tagRows, recipientRows, embeddingRows, headRows, laneRows, sequences>>

TablesNext ==
  \/ \E m \in MemoryIds :
       \/ \E lane \in Lanes, write \in Writes, time \in Times : rememberRow(m, lane, write, time)
       \/ \E revision \in 1..MaxDraws :
            \/ \E write \in Writes, time \in Times : reviseRow(m, revision, write, time)
            \/ \E time \in Times : forgetRow(m, revision, time)
            \/ writeEmbedding(m, revision)
       \/ deleteEmbedding(m)
  \/ \E before \in Times, limit \in {1, 2} : purgeForgotten(before, limit)
  \/ rebuildLexicalIndex

(* ---- Reads ---- *)

(* A viewer is internal, anyone, an owner or another person.               *)
canView(r, viewer) ==
  \/ viewer.kind = "internal" \/ r.visibility = "public"
  \/ viewer.kind = "owner" /\ r.visibility = "owner" /\ r.lane.owner = viewer.person
  \/ viewer.person # NoOne /\ r.visibility = "recipient" /\ <<r.key, viewer.person>> \in recipientRows

(* The clauses on the audience of the filter that searches and hydration   *)
(* add to the selector's.                                                  *)
buildMemoryFilter(selector, viewer) ==
  {r \in memoryRows :
     /\ memoryIndexPartition(r.lane) = memoryIndexPartition(selector) /\ r.lifecycle = "active"
     /\ CASE viewer.kind = "internal" -> TRUE
          [] viewer.kind = "public" -> r.visibility = "public"
          [] viewer.kind = "recipient" ->
               r.visibility = "public" \/ (r.visibility = "recipient" /\ <<r.key, viewer.person>> \in recipientRows)
          [] viewer.kind = "owner" ->
               \/ r.visibility = "public" \/ (r.visibility = "owner" /\ r.lane.owner = viewer.person)
               \/ r.visibility = "recipient" /\ <<r.key, viewer.person>> \in recipientRows}

searchLexical(selector, viewer, text) ==
  {key \in DOMAIN fullText : fullText[key].text = text
     /\ \E r \in buildMemoryFilter(selector, viewer) : r.key = key}

scanActive(p, after) ==
  {r \in memoryRows : memoryIndexPartition(r.lane) = p /\ r.lifecycle = "active" /\ r.key > after}

(* The count of a partition, the sum of its lanes'.                        *)
ActiveCount(p) ==
  FoldFunctionOnSet(LAMBDA a, b : a + b, 0, laneRows,
                    {lane \in DOMAIN laneRows : memoryIndexPartition(lane) = p})

Viewers ==
  {[kind |-> "internal", person |-> NoOne], [kind |-> "public", person |-> NoOne]}
    \cup [kind : {"owner", "recipient"}, person : People]

(* Every row reads back; a search in full text finds exactly the active    *)
(* memories of the text that a read of each one shows to the viewer; an    *)
(* embedding is of the current revision of an active memory; the count of  *)
(* a partition is that of its active memories.                             *)
TablesAgree ==
  /\ \A r \in memoryRows :
       /\ r.fingerprint = memoryFingerprint(r.id, r.lane, WriteOf(r))
       /\ r.visibility = "recipient" => TagsOf(r.key, recipientRows) # {}
       /\ r.created <= r.updated /\ (r.lifecycle = "forgotten") = (r.forgotten # NoOne)
  /\ fullText = documentRows
  /\ \A selector \in Lanes, viewer \in Viewers, write \in Writes :
       searchLexical(selector, viewer, write.text) =
         {r.key : r \in {r \in scanActive(memoryIndexPartition(selector), 0) :
                           r.text = write.text /\ canView(r, viewer)}}
  /\ \A key \in DOMAIN embeddingRows : \E r \in memoryRows :
       r.key = key /\ r.lifecycle = "active" /\ r.revision = embeddingRows[key]
  /\ \A lane \in Lanes : LET p == memoryIndexPartition(lane) IN
       /\ ActiveCount(p) = Cardinality(scanActive(p, 0))
       /\ ActiveCount(p) > 0 => p \in DOMAIN headRows
=============================================================================
