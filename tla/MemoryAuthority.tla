--------------------------- MODULE MemoryAuthority ---------------------------
(***************************************************************************)
(* What the memory service is promised by its authority: memories with     *)
(* revisions, the embeddings of their current revisions, and a revision of *)
(* each partition that changes with its memories and never comes back.     *)
(***************************************************************************)
EXTENDS Integers, FiniteSets

CONSTANTS
  MemoryIds, Lanes,   \* a lane: an owner, a world, and what the memory is of there
  Writes,             \* texts with their tags and their audience
  MaxDraws,           \* bound: changes of memories
  MaxTime

VARIABLES
  memories,   \* id -> the memory, or NoMemory
  embedded,   \* id -> the revision whose embedding is kept, 0 for none
  revisions,  \* partition -> its revision, 0 while it is empty
  drawn,      \* the revisions of partitions drawn so far
  lastKey

NoMemory == [revision |-> 0]
Times == 0..MaxTime
memoryIndexPartition(lane) == [owner |-> lane.owner, world |-> lane.world]
IndexPartitions == {memoryIndexPartition(lane) : lane \in Lanes}

AuthorityInit ==
  /\ memories = [m \in MemoryIds |-> NoMemory]
  /\ embedded = [m \in MemoryIds |-> 0]
  /\ revisions = [p \in IndexPartitions |-> 0]
  /\ drawn = 0 /\ lastKey = 0

Stored(m) == memories[m] # NoMemory
ActiveMemory(m) == Stored(m) /\ memories[m].active

Change(m, memory) ==
  /\ drawn < MaxDraws
  /\ drawn' = drawn + 1
  /\ memories' = [memories EXCEPT ![m] = memory]
  /\ revisions' = [revisions EXCEPT ![memoryIndexPartition(memory.lane)] = drawn + 1]

remember(m, lane, write, time) ==
  /\ ~Stored(m)
  /\ Change(m, [key |-> lastKey + 1, lane |-> lane, write |-> write, revision |-> 1,
                active |-> TRUE, created |-> time, updated |-> time])
  /\ lastKey' = lastKey + 1
  /\ UNCHANGED embedded

revise(m, write, time) ==
  /\ ActiveMemory(m) /\ memories[m].created <= time
  /\ Change(m, [memories[m] EXCEPT !.write = write, !.revision = @ + 1, !.updated = time])
  /\ embedded' = [embedded EXCEPT ![m] = 0]
  /\ UNCHANGED lastKey

forget(m, time) ==
  /\ ActiveMemory(m) /\ memories[m].created <= time
  /\ Change(m, [memories[m] EXCEPT !.active = FALSE, !.revision = @ + 1, !.updated = time])
  /\ embedded' = [embedded EXCEPT ![m] = 0]
  /\ UNCHANGED lastKey

writeEmbedding(m) ==
  /\ ActiveMemory(m)
  /\ embedded' = [embedded EXCEPT ![m] = memories[m].revision]
  /\ UNCHANGED <<memories, revisions, drawn, lastKey>>

deleteEmbedding(m) ==
  /\ embedded' = [embedded EXCEPT ![m] = 0]
  /\ UNCHANGED <<memories, revisions, drawn, lastKey>>

(* The oldest keys first. *)
purgeForgotten(before, limit) ==
  LET forgotten == {m \in MemoryIds : Stored(m) /\ ~memories[m].active /\ memories[m].updated < before}
      batch == {m \in forgotten : Cardinality({o \in forgotten : memories[o].key < memories[m].key}) < limit}
  IN /\ memories' = [m \in MemoryIds |-> IF m \in batch THEN NoMemory ELSE memories[m]]
     /\ UNCHANGED <<embedded, revisions, drawn, lastKey>>

AuthorityNext ==
  \/ \E m \in MemoryIds :
       \/ \E lane \in Lanes, write \in Writes, time \in Times : remember(m, lane, write, time)
       \/ \E write \in Writes, time \in Times : revise(m, write, time)
       \/ \E time \in Times : forget(m, time)
       \/ writeEmbedding(m) \/ deleteEmbedding(m)
  \/ \E before \in Times, limit \in {1, 2} : purgeForgotten(before, limit)
=============================================================================
