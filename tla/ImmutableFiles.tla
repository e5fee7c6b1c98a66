--------------------------- MODULE ImmutableFiles ---------------------------
(***************************************************************************)
(* The content-addressed files of packages/resources, used for generated   *)
(* media too, and of packages/attachments: publications by one process,    *)
(* garbage collection, and crashes.  An object is named by its digest.     *)
(* The two levels of shard directories above an object are taken as one.   *)
(*                                                                         *)
(* The file system is external: an entry of a directory survives a crash   *)
(* for certain only after the directory was synchronized, and the bytes of *)
(* a file only after the file was.  The host takes the references that it  *)
(* keeps along to a collection, and lets nothing else in meanwhile.        *)
(*                                                                         *)
(* Proved below: a reference that a publication returned stays readable    *)
(* while the host keeps it, for every set of objects and publishers,       *)
(* across any number of crashes where the store synchronizes what it found *)
(* in place, and without crashes where it does not (the store of images).  *)
(***************************************************************************)
EXTENDS Integers, FiniteSets, TLAPS

CONSTANTS
  Digests, Publishers,
  Images,       \* whether this is the store of image attachments, which collects nothing
  Batches,      \* the sets of objects one call may publish
  MaxCrashes, MaxModified \* bounds on crashes and on file times

ASSUME FilesAssumption ==
  /\ Batches \subseteq SUBSET Digests
  /\ MaxCrashes \in Nat /\ MaxModified \in Nat

VARIABLES
  shard,        \* the entry of the shard directory in its parent
  objects,      \* digest -> its entry in the shard, its bytes and its time
  temporaries,  \* publisher -> the temporary file of its publication
  litter,       \* times of the temporary files that crashes left
  publishing,   \* publisher -> the call it is in
  collecting,   \* the collection in progress
  kept,         \* digests of the references the host has and keeps
  fileTime, crashes

fileVars == <<shard, objects, temporaries, litter, publishing, collecting, kept, fileTime, crashes>>
disk == <<shard, objects, temporaries, litter>>

(* Entries and bytes. *)
Missing == "missing"
Cached == "cached"
Durable == "durable"
Torn == "torn"

NoObject == [entry |-> Missing, bytes |-> Missing, modified |-> 0]
NoFile == [bytes |-> Missing, modified |-> 0]
NoCall == [at |-> "none", digest |-> 0, left |-> {}, whole |-> {}]
NoCollection == [at |-> "none", cutoff |-> 0, candidates |-> {}, stale |-> {}]

FilesInit ==
  /\ shard = Missing
  /\ objects = [d \in Digests |-> NoObject]
  /\ temporaries = [p \in Publishers |-> NoFile]
  /\ litter = {}
  /\ publishing = [p \in Publishers |-> NoCall]
  /\ collecting = NoCollection
  /\ kept = {} /\ fileTime = 1 /\ crashes = 0

At(p, stage) == publishing[p].at = stage
Digest(p) == publishing[p].digest
activeOperations == {p \in Publishers : ~At(p, "none")}
Goes(p, stage) == publishing' = [publishing EXCEPT ![p].at = stage]
Present(d) == shard # Missing /\ objects[d].entry # Missing
Readable(d) == Present(d) /\ objects[d].bytes \in {Cached, Durable}

(* An object after its directory was synchronized. *)
Synced(object) == [object EXCEPT !.entry = IF @ = Cached THEN Durable ELSE @]

-----------------------------------------------------------------------------
(* Publication *)

(* A store that collects lets no operation in meanwhile.                   *)
enterOperation == collecting.at = "none"

publish(p, batch) ==
  /\ At(p, "none") /\ enterOperation
  /\ publishing' = [publishing EXCEPT ![p] =
       [NoCall EXCEPT !.at = IF Images THEN "admit" ELSE "next", !.left = batch, !.whole = batch]]
  /\ UNCHANGED <<disk, collecting, kept, fileTime, crashes>>

(* Every image of a batch is decoded and drawn anew before the first is    *)
(* published; one that is refused refuses the batch.                       *)
normalize(p) ==
  /\ At(p, "admit")
  /\ publishing' \in {[publishing EXCEPT ![p].at = "next"], [publishing EXCEPT ![p] = NoCall]}
  /\ UNCHANGED <<disk, collecting, kept, fileTime, crashes>>

nextObject(p) ==
  /\ At(p, "next")
  /\ \E d \in publishing[p].left :
       publishing' = [publishing EXCEPT ![p].at = "prepare", ![p].digest = d, ![p].left = @ \ {d}]
  /\ UNCHANGED <<disk, collecting, kept, fileTime, crashes>>

(* The shard exists and its parent is synchronized, whoever made it.  The  *)
(* image store prepares it before the bytes are written, the other after;  *)
(* nothing tells the difference.                                           *)
createPrivateDirectory(p) ==
  /\ At(p, "prepare")
  /\ shard' = Durable
  /\ Goes(p, "write")
  /\ UNCHANGED <<objects, temporaries, litter, collecting, kept, fileTime, crashes>>

(* mkdir may be over and the synchronization not when the process stops.   *)
makeDirectory(p) ==
  /\ At(p, "prepare") /\ shard = Missing
  /\ shard' = Cached
  /\ UNCHANGED <<objects, temporaries, litter, publishing, collecting, kept, fileTime, crashes>>

writeObject(p) ==
  /\ At(p, "write")
  /\ temporaries' = [temporaries EXCEPT ![p] = [bytes |-> Cached, modified |-> fileTime]]
  /\ Goes(p, "sync")
  /\ UNCHANGED <<shard, objects, litter, collecting, kept, fileTime, crashes>>

syncObject(p) ==
  /\ At(p, "sync")
  /\ temporaries' = [temporaries EXCEPT ![p].bytes = Durable]
  /\ Goes(p, "link")
  /\ UNCHANGED <<shard, objects, litter, collecting, kept, fileTime, crashes>>

(* The file appears under its name at once, or was there already and must  *)
(* then read back; a damaged object is refused and never overwritten.      *)
link(p) ==
  LET d == Digest(p) IN
  /\ At(p, "link") /\ temporaries[p] # NoFile
  /\ IF Present(d)
     THEN /\ Readable(d)
          /\ Goes(p, IF Images THEN "linked" ELSE "bucket")
          /\ UNCHANGED objects
     ELSE /\ objects' = [objects EXCEPT ![d] =
               [entry |-> Cached, bytes |-> temporaries[p].bytes, modified |-> temporaries[p].modified]]
          /\ Goes(p, "bucket")
  /\ UNCHANGED <<shard, temporaries, litter, collecting, kept, fileTime, crashes>>

(* Every entry of the shard becomes durable.                               *)
syncDirectory(p) ==
  /\ At(p, "bucket")
  /\ objects' = [d \in Digests |-> Synced(objects[d])]
  /\ Goes(p, "linked")
  /\ UNCHANGED <<shard, temporaries, litter, collecting, kept, fileTime, crashes>>

(* The temporary name goes; the call goes on with the next object or       *)
(* returns the references, which the host keeps from then on.              *)
publishEnds(p) ==
  /\ At(p, "linked")
  /\ temporaries' = [temporaries EXCEPT ![p] = NoFile]
  /\ IF publishing[p].left # {}
     THEN Goes(p, "next") /\ UNCHANGED kept
     ELSE /\ kept' = kept \cup publishing[p].whole
          /\ publishing' = [publishing EXCEPT ![p] = NoCall]
  /\ UNCHANGED <<shard, objects, litter, collecting, fileTime, crashes>>

(* Aborted, or failed, at any await: what is already linked stays.         *)
publishFails(p) ==
  /\ ~At(p, "none")
  /\ temporaries' = [temporaries EXCEPT ![p] = NoFile]
  /\ publishing' = [publishing EXCEPT ![p] = NoCall]
  /\ UNCHANGED <<shard, objects, litter, collecting, kept, fileTime, crashes>>

-----------------------------------------------------------------------------
(* Collection *)

Collects(cutoff, limit) ==
  LET old == {d \in Digests \ kept : Present(d) /\ objects[d].modified < cutoff} IN
  /\ \E candidates \in SUBSET old :
       /\ Cardinality(candidates) = IF Cardinality(old) < limit THEN Cardinality(old) ELSE limit
       /\ collecting' = [at |-> "deleting", cutoff |-> cutoff, candidates |-> candidates,
                         stale |-> {t \in litter : t < cutoff}]
  /\ UNCHANGED <<disk, publishing, kept, fileTime, crashes>>

(* Mutant: a collection begins while objects are being published.          *)
collectGarbageAmidst(cutoff, limit) ==
  ~Images /\ collecting.at = "none" /\ Collects(cutoff, limit)

(* The host hands over the references it keeps; what is not among them and *)
(* is older than the cutoff is a candidate.                                *)
collectGarbage(cutoff, limit) ==
  /\ ~Images /\ collecting.at = "none" /\ activeOperations = {}
  /\ Collects(cutoff, limit)

(* One object at a time, after a second look at it; then its directory is  *)
(* synchronized, which keeps whatever else it holds.                       *)
deleteObject(d) ==
  /\ d \in collecting.candidates
  /\ IF Present(d) /\ objects[d].modified < collecting.cutoff
     THEN /\ objects' = [o \in Digests |->
               IF o = d THEN NoObject ELSE Synced(objects[o])]
          /\ collecting' = [collecting EXCEPT !.candidates = @ \ {d}]
     ELSE collecting' = NoCollection /\ UNCHANGED objects
  /\ UNCHANGED <<shard, temporaries, litter, publishing, kept, fileTime, crashes>>

collectionEnds ==
  /\ collecting.at = "deleting"
  /\ \/ collecting.candidates = {} /\ litter' = litter \ collecting.stale
     \/ UNCHANGED litter  \* aborted, or the file system failed
  /\ collecting' = NoCollection
  /\ UNCHANGED <<shard, objects, temporaries, publishing, kept, fileTime, crashes>>

-----------------------------------------------------------------------------
(* The host and the process *)

hostForgets(d) ==
  /\ d \in kept /\ collecting.at = "none"
  /\ kept' = kept \ {d}
  /\ UNCHANGED <<disk, publishing, collecting, fileTime, crashes>>

timePasses ==
  /\ fileTime < MaxModified /\ fileTime' = fileTime + 1
  /\ UNCHANGED <<disk, publishing, collecting, kept, crashes>>

(* What was not synchronized may be lost or, if bytes, torn; a temporary   *)
(* file stays behind.                                                      *)
crash ==
  /\ crashes < MaxCrashes /\ crashes' = crashes + 1
  /\ shard' \in IF shard = Cached THEN {Missing, Durable} ELSE {shard}
  /\ \E lost \in SUBSET {d \in Digests : objects[d].entry = Cached},
        torn \in SUBSET {d \in Digests : objects[d].bytes = Cached} :
       objects' = [d \in Digests |->
         IF d \in lost \/ shard' = Missing THEN NoObject
         ELSE [Synced(objects[d]) EXCEPT !.bytes = IF @ # Cached THEN @ ELSE IF d \in torn THEN Torn ELSE Durable]]
  /\ litter' = litter \cup {temporaries[p].modified : p \in {q \in Publishers : temporaries[q] # NoFile}}
  /\ temporaries' = [p \in Publishers |-> NoFile]
  /\ publishing' = [p \in Publishers |-> NoCall]
  /\ collecting' = NoCollection
  /\ UNCHANGED <<kept, fileTime>>

FilesNext ==
  \/ \E p \in Publishers :
       \/ \E batch \in Batches : publish(p, batch)
       \/ normalize(p) \/ nextObject(p) \/ makeDirectory(p) \/ createPrivateDirectory(p) \/ writeObject(p) \/ syncObject(p)
       \/ link(p) \/ syncDirectory(p) \/ publishEnds(p) \/ publishFails(p)
  \/ \E cutoff \in 1..MaxModified + 1, limit \in 1..2 : collectGarbage(cutoff, limit)
  \/ \E d \in Digests : deleteObject(d) \/ hostForgets(d)
  \/ collectionEnds \/ timePasses \/ crash

FilesSpec == FilesInit /\ [][FilesNext]_fileVars

-----------------------------------------------------------------------------
(* Properties *)

(* A reference that a publication returned and that the host keeps can be  *)
(* read, also after crashes, whoever published the same bytes before or    *)
(* failed to, and whatever was collected.                                  *)
KeptReadable == \A d \in kept : Readable(d)

-----------------------------------------------------------------------------
(* The inductive invariant *)

Entries == {Missing, Cached, Durable}
ByteStates == {Missing, Cached, Durable, Torn}
Object == [entry : Entries, bytes : ByteStates, modified : Nat]
File == [bytes : ByteStates, modified : Nat]
Stages == {"none", "admit", "next", "prepare", "write", "sync", "link", "bucket", "linked"}
Call == [at : Stages, digest : Digests \cup {0}, left : SUBSET Digests, whole : SUBSET Digests]
Collection == [at : {"none", "deleting"}, cutoff : Nat, candidates : SUBSET Digests, stale : SUBSET Nat]

FilesTypeOK ==
  /\ shard \in Entries
  /\ objects \in [Digests -> Object]
  /\ temporaries \in [Publishers -> File]
  /\ litter \subseteq Nat
  /\ publishing \in [Publishers -> Call]
  /\ collecting \in Collection
  /\ kept \subseteq Digests
  /\ fileTime \in Nat /\ crashes \in Nat

(* What a reference needs: its file under its name with its bytes, and,    *)
(* where the store promises to survive a crash, an entry that is durable.  *)
Secured(d) ==
  /\ shard = Durable
  /\ objects[d].bytes = Durable
  /\ objects[d].entry \in IF Images THEN {Cached, Durable} ELSE {Durable}

Named == {"prepare", "write", "sync", "link", "bucket", "linked"}

(* The objects of a call that are published by now. *)
Published(p) ==
  publishing[p].whole \ (publishing[p].left \cup IF publishing[p].at \in Named \ {"linked"}
                                                  THEN {Digest(p)} ELSE {})

(* A file takes its name only when its bytes are durable, below a          *)
(* directory that is.                                                      *)
LinkedWhole ==
  \A d \in Digests :
    objects[d].entry # Missing => shard = Durable /\ objects[d].bytes = Durable

PublisherSecure(p) ==
  /\ At(p, "none") => publishing[p].whole = {}
  /\ publishing[p].at \in Named => Digest(p) \in Digests
  /\ publishing[p].at \in Named \ {"prepare"} => shard = Durable
  /\ At(p, "link") => temporaries[p].bytes = Durable
  /\ At(p, "bucket") => objects[Digest(p)].entry # Missing
  /\ \A d \in Published(p) : Secured(d)

CollectionSecure ==
  /\ collecting.at # "none" => activeOperations = {}
  /\ collecting.at = "none" => collecting.candidates = {}
  /\ collecting.candidates \cap kept = {}

FilesSecure ==
  /\ LinkedWhole
  /\ \A p \in Publishers : PublisherSecure(p)
  /\ CollectionSecure
  /\ Images => collecting.at = "none"
  /\ \A d \in kept : Secured(d)

(* What a crash leaves of the objects. *)
AfterCrash(shardLeft, lost, torn) ==
  [d \in Digests |->
     IF d \in lost \/ shardLeft = Missing THEN NoObject
     ELSE [Synced(objects[d]) EXCEPT !.bytes = IF @ # Cached THEN @ ELSE IF d \in torn THEN Torn ELSE Durable]]

(* The store that syncs what it finds in place, or no crash at all. *)
Survives == Images => MaxCrashes = 0

-----------------------------------------------------------------------------
(* Types *)

(* Synchronizing a directory changes the entry of an object and nothing else. *)
LEMMA SyncedObject ==
  ASSUME NEW object \in Object
  PROVE  /\ Synced(object) \in Object
         /\ Synced(object).entry = IF object.entry = Cached THEN Durable ELSE object.entry
         /\ Synced(object).bytes = object.bytes
  BY DEF Synced, Object, Entries

(* Every variable keeps to its type. *)
LEMMA FilesTypeStep == FilesTypeOK /\ [FilesNext]_fileVars => FilesTypeOK'
<1> SUFFICES ASSUME FilesTypeOK, [FilesNext]_fileVars PROVE FilesTypeOK'
  OBVIOUS
<1> USE FilesAssumption DEF FilesTypeOK
<1> DEFINE Fields == /\ NoFile \in File /\ NoObject \in Object /\ NoCall \in Call
                     /\ NoCollection \in Collection
<1>0. Fields
  BY DEF NoFile, NoObject, NoCall, NoCollection, File, Object, Call, Collection, ByteStates, Entries, Stages,
         Missing, Cached, Durable, Torn
<1>1. ASSUME NEW p \in Publishers, NEW batch \in Batches, publish(p, batch) PROVE FilesTypeOK'
  BY <1>0, <1>1 DEF publish, disk, Call, Stages
<1>2. ASSUME NEW p \in Publishers,
             normalize(p) \/ nextObject(p) \/ makeDirectory(p) \/ createPrivateDirectory(p)
      PROVE FilesTypeOK'
  <2>1. CASE normalize(p)
    BY <1>0, <2>1 DEF normalize, disk, Call, Stages
  <2>2. CASE nextObject(p)
    BY <2>2 DEF nextObject, disk, Call, Stages
  <2>3. CASE makeDirectory(p)
    BY <2>3 DEF makeDirectory, Entries
  <2>4. CASE createPrivateDirectory(p)
    BY <2>4 DEF createPrivateDirectory, Goes, Call, Stages, Entries
  <2>5. QED BY <1>2, <2>1, <2>2, <2>3, <2>4
<1>3. ASSUME NEW p \in Publishers, writeObject(p) \/ syncObject(p) PROVE FilesTypeOK'
  <2>1. CASE writeObject(p)
    <3>1. [bytes |-> Cached, modified |-> fileTime] \in File
      BY DEF File, ByteStates
    <3>2. publishing' \in [Publishers -> Call]
      BY <2>1 DEF writeObject, Goes, Call, Stages
    <3>3. QED BY <2>1, <3>1, <3>2 DEF writeObject
  <2>2. CASE syncObject(p)
    <3>1. publishing' \in [Publishers -> Call]
      BY <2>2 DEF syncObject, Goes, Call, Stages
    <3>2. temporaries' \in [Publishers -> File]
      BY <2>2 DEF syncObject, File, ByteStates
    <3>3. QED BY <2>2, <3>1, <3>2 DEF syncObject
  <2>3. QED BY <1>3, <2>1, <2>2
<1>4. ASSUME NEW p \in Publishers, link(p) PROVE FilesTypeOK'
  <2>1. publishing' \in [Publishers -> Call]
    BY <1>4 DEF link, Goes, Call, Stages
  <2>2. objects' \in [Digests -> Object]
    BY <1>4 DEF link, Object, Entries, File, ByteStates
  <2>3. QED BY <1>4, <2>1, <2>2 DEF link
<1>5. ASSUME NEW p \in Publishers, syncDirectory(p) PROVE FilesTypeOK'
  <2>1. publishing' \in [Publishers -> Call]
    <3>1. publishing' = [publishing EXCEPT ![p].at = "linked"] /\ "linked" \in Stages
      BY <1>5 DEF syncDirectory, Goes, Stages
    <3>2. QED BY <3>1 DEF Call
  <2>2. \A d \in Digests : Synced(objects[d]) \in Object
    BY SyncedObject
  <2>3. objects' \in [Digests -> Object]
    BY <1>5, <2>2 DEF syncDirectory
  <2>4. QED BY <1>5, <2>1, <2>3 DEF syncDirectory
<1>6. ASSUME NEW p \in Publishers, publishEnds(p) \/ publishFails(p) PROVE FilesTypeOK'
  BY <1>0, <1>6 DEF publishEnds, publishFails, Goes, Call, Stages
<1>7. ASSUME NEW cutoff \in 1..MaxModified + 1, NEW limit \in 1..2, collectGarbage(cutoff, limit)
      PROVE FilesTypeOK'
  <2>1. PICK candidates \in SUBSET {d \in Digests \ kept : Present(d) /\ objects[d].modified < cutoff} :
          collecting' = [at |-> "deleting", cutoff |-> cutoff, candidates |-> candidates,
                         stale |-> {t \in litter : t < cutoff}]
    BY <1>7 DEF collectGarbage, Collects
  <2>2. cutoff \in Nat
    BY FilesAssumption
  <2>3. {t \in litter : t < cutoff} \subseteq Nat
    OBVIOUS
  <2>4. collecting' \in Collection
    BY <2>1, <2>2, <2>3 DEF Collection
  <2>5. QED BY <1>7, <2>4 DEF collectGarbage, Collects, disk
<1>8. ASSUME NEW d \in Digests, deleteObject(d) PROVE FilesTypeOK'
  <2>1. objects' \in [Digests -> Object]
    BY <1>0, <1>8, SyncedObject DEF deleteObject
  <2>2. collecting' \in Collection
    BY <1>0, <1>8 DEF deleteObject, Collection
  <2>3. QED BY <1>8, <2>1, <2>2 DEF deleteObject
<1>9. ASSUME NEW d \in Digests, hostForgets(d) PROVE FilesTypeOK'
  BY <1>9 DEF hostForgets, disk
<1>10. CASE collectionEnds
  BY <1>0, <1>10 DEF collectionEnds
<1>11. CASE timePasses
  BY <1>11 DEF timePasses, disk
<1>12. CASE crash
  <2>1. shard' \in Entries
    BY <1>12 DEF crash, Entries
  <2>2. PICK lost \in SUBSET {d \in Digests : objects[d].entry = Cached},
             torn \in SUBSET {d \in Digests : objects[d].bytes = Cached} :
          objects' = AfterCrash(shard', lost, torn)
    BY <1>12 DEF crash, AfterCrash
  <2>3. objects' \in [Digests -> Object]
    <3>1. ASSUME NEW d \in Digests PROVE AfterCrash(shard', lost, torn)[d] \in Object
      <4>1. PICK bytes \in ByteStates :
              AfterCrash(shard', lost, torn)[d] \in {NoObject, [Synced(objects[d]) EXCEPT !.bytes = bytes]}
        BY SyncedObject DEF AfterCrash, Object, ByteStates
      <4>2. [Synced(objects[d]) EXCEPT !.bytes = bytes] \in Object
        BY SyncedObject DEF Object
      <4>3. QED BY <1>0, <4>1, <4>2
    <3>2. objects' = [d \in Digests |-> AfterCrash(shard', lost, torn)[d]]
      BY <2>2 DEF AfterCrash
    <3>3. QED BY <3>1, <3>2
  <2>4. litter' \subseteq Nat
    <3>1. \A p \in Publishers : temporaries[p].modified \in Nat
      BY DEF File
    <3>2. litter' = litter \cup {temporaries[p].modified : p \in {q \in Publishers : temporaries[q] # NoFile}}
      BY <1>12 DEF crash
    <3>3. QED BY <3>1, <3>2
  <2>5. temporaries' \in [Publishers -> File] /\ publishing' \in [Publishers -> Call] /\ collecting' \in Collection
    BY <1>0, <1>12 DEF crash
  <2>6. crashes' \in Nat /\ UNCHANGED <<kept, fileTime>>
    BY <1>12 DEF crash
  <2>7. QED BY <2>1, <2>3, <2>4, <2>5, <2>6
<1>13. CASE UNCHANGED fileVars
  BY <1>13 DEF fileVars
<1>14. QED
  BY <1>1, <1>2, <1>3, <1>4, <1>5, <1>6, <1>7, <1>8, <1>9, <1>10, <1>11, <1>12, <1>13 DEF FilesNext

LEMMA FilesTypeInit == FilesInit => FilesTypeOK
  BY DEF FilesInit, FilesTypeOK, NoFile, NoObject, NoCall, NoCollection, File, Object, Call, Collection,
         ByteStates, Entries, Stages, Missing

(* Every variable keeps to its type, whatever is published, collected or lost. *)
THEOREM FilesTypeCorrect == FilesSpec => []FilesTypeOK
  BY FilesTypeInit, FilesTypeStep, PTL DEF FilesSpec

-----------------------------------------------------------------------------
(* Steps of one publisher *)

(* Whoever does not move keeps what it had, if nothing published is lost. *)
LEMMA OthersSecure ==
  ASSUME FilesTypeOK, NEW q \in Publishers, PublisherSecure(q),
         publishing'[q] = publishing[q], temporaries'[q] = temporaries[q],
         shard = Durable => shard' = Durable,
         \A d \in Digests : objects[d].entry # Missing => objects'[d].entry # Missing,
         \A d \in Digests : Secured(d) => Secured(d)'
  PROVE  PublisherSecure(q)'
<1>1. Published(q)' = Published(q) /\ Published(q) \subseteq Digests
  BY DEF Published, Digest, FilesTypeOK, Call
<1>2. Digest(q)' = Digest(q)
  BY DEF Digest
<1>3. \A d \in Published(q)' : Secured(d)'
  BY <1>1 DEF PublisherSecure
<1>4. At(q, "bucket")' => objects[Digest(q)]'.entry # Missing
  BY <1>2 DEF PublisherSecure, At, Named
<1>5. QED
  BY <1>2, <1>3, <1>4 DEF PublisherSecure, At

(* A step of one publisher that leaves what is published in place.         *)
LEMMA PublisherMoves ==
  ASSUME FilesTypeOK, FilesSecure, NEW p \in Publishers,
         UNCHANGED <<shard, objects, collecting>>, collecting.at = "none",
         \A q \in Publishers \ {p} : publishing'[q] = publishing[q] /\ temporaries'[q] = temporaries[q],
         \A d \in kept' : Secured(d),
         PublisherSecure(p)'
  PROVE  FilesSecure'
<1>1. \A d \in Digests : Secured(d)' <=> Secured(d)
  BY DEF Secured
<1>2. ASSUME NEW q \in Publishers PROVE PublisherSecure(q)'
  <2>1. CASE q = p
    BY <2>1
  <2>2. CASE q # p
    BY <1>1, <2>2, OthersSecure DEF FilesSecure
  <2>3. QED BY <2>1, <2>2
<1>3. LinkedWhole' /\ CollectionSecure'
  BY DEF FilesSecure, LinkedWhole, CollectionSecure
<1>4. \A d \in kept' : Secured(d)'
  BY DEF Secured
<1>5. QED BY <1>2, <1>3, <1>4 DEF FilesSecure

(* While a publisher is at work nothing is collected. *)
LEMMA NoCollectionAmidst ==
  ASSUME FilesTypeOK, FilesSecure, NEW p \in Publishers, ~At(p, "none")
  PROVE  collecting.at = "none"
  BY DEF FilesSecure, CollectionSecure, activeOperations

(* Before its object has a name, and once its call is over.                *)
LEMMA QuietSteps ==
  ASSUME FilesTypeOK, FilesSecure, NEW p \in Publishers,
         \/ \E batch \in Batches : publish(p, batch)
         \/ normalize(p) \/ nextObject(p) \/ writeObject(p) \/ syncObject(p) \/ publishFails(p)
  PROVE  FilesSecure'
<1> USE FilesAssumption
<1>1. /\ PublisherSecure(p) /\ publishing[p] \in Call /\ publishing \in [Publishers -> Call]
      /\ temporaries \in [Publishers -> File]
  BY DEF FilesTypeOK, FilesSecure
<1>2. collecting.at = "none" /\ UNCHANGED <<shard, objects, collecting, kept>>
  BY NoCollectionAmidst DEF publish, enterOperation, normalize, nextObject, writeObject, syncObject,
                            publishFails, disk, At
<1>3. \A q \in Publishers \ {p} : publishing'[q] = publishing[q] /\ temporaries'[q] = temporaries[q]
  BY <1>1 DEF publish, normalize, nextObject, writeObject, syncObject, publishFails, disk, Goes
<1>4. \A d \in Digests : Secured(d)' <=> Secured(d)
  BY <1>2 DEF Secured
<1>5. PublisherSecure(p)'
  <2>1. ASSUME NEW batch \in Batches, publish(p, batch) PROVE PublisherSecure(p)'
    BY <1>1, <2>1 DEF publish, PublisherSecure, Published, At, Digest, Named, NoCall
  <2>2. CASE normalize(p)
    <3>1. CASE publishing' = [publishing EXCEPT ![p].at = "next"]
      BY <1>1, <1>4, <2>2, <3>1 DEF normalize, PublisherSecure, Published, At, Digest, Named, Call
    <3>2. CASE publishing' = [publishing EXCEPT ![p] = NoCall]
      BY <1>1, <3>2 DEF PublisherSecure, Published, At, Digest, Named, NoCall
    <3>3. QED BY <2>2, <3>1, <3>2 DEF normalize
  <2>3. CASE nextObject(p)
    <3>1. PICK d \in publishing[p].left :
            publishing' = [publishing EXCEPT ![p].at = "prepare", ![p].digest = d, ![p].left = @ \ {d}]
      BY <2>3 DEF nextObject
    <3>2. /\ publishing'[p] = [publishing[p] EXCEPT !.at = "prepare", !.digest = d, !.left = @ \ {d}]
          /\ publishing[p].left \subseteq Digests /\ publishing[p].whole \subseteq Digests
      BY <1>1, <3>1 DEF Call
    <3>3. /\ publishing'[p].at = "prepare" /\ publishing'[p].digest = d /\ d \in Digests
          /\ publishing'[p].left = publishing[p].left \ {d} /\ publishing'[p].whole = publishing[p].whole
      BY <1>1, <3>2 DEF Call
    <3>4. Published(p)' = Published(p) /\ Published(p) \subseteq Digests
      <4>1. publishing[p].at = "next"
        BY <2>3 DEF nextObject, At
      <4>2. Published(p) = publishing[p].whole \ publishing[p].left
        BY <4>1 DEF Published, At, Digest, Named
      <4>3. Published(p)' = publishing'[p].whole \ (publishing'[p].left \cup {d})
        BY <3>3 DEF Published, At, Digest, Named
      <4>4. QED BY <3>1, <3>2, <3>3, <4>2, <4>3
    <3>5. QED BY <1>1, <1>4, <3>3, <3>4 DEF PublisherSecure, At, Digest, Named
  <2>4. CASE writeObject(p)
    BY <1>1, <1>2, <1>4, <2>4 DEF writeObject, Goes, PublisherSecure, Published, At, Digest, Named, Call
  <2>5. CASE syncObject(p)
    BY <1>1, <1>2, <1>4, <2>5 DEF syncObject, Goes, PublisherSecure, Published, At, Digest, Named, Call, File
  <2>6. CASE publishFails(p)
    BY <1>1, <2>6 DEF publishFails, PublisherSecure, Published, At, Digest, Named, NoCall
  <2>7. QED BY <2>1, <2>2, <2>3, <2>4, <2>5, <2>6
<1>6. QED BY <1>2, <1>3, <1>5, PublisherMoves DEF FilesSecure

(* What the call returns has been published, one object after the other.   *)
LEMMA EndSecures ==
  ASSUME FilesTypeOK, FilesSecure, NEW p \in Publishers, publishEnds(p)
  PROVE  FilesSecure'
<1>1. /\ PublisherSecure(p) /\ publishing[p] \in Call /\ publishing \in [Publishers -> Call]
      /\ temporaries \in [Publishers -> File]
  BY DEF FilesTypeOK, FilesSecure
<1>2. collecting.at = "none" /\ UNCHANGED <<shard, objects, collecting>>
  BY NoCollectionAmidst DEF publishEnds, At
<1>3. \A q \in Publishers \ {p} : publishing'[q] = publishing[q] /\ temporaries'[q] = temporaries[q]
  BY <1>1 DEF publishEnds, Goes
<1>4. \A d \in Digests : Secured(d)' <=> Secured(d)
  BY <1>2 DEF Secured
<1>5. Published(p) = publishing[p].whole \ publishing[p].left
  BY DEF publishEnds, Published, At, Named
<1>6. CASE publishing[p].left # {}
  <2>1. PublisherSecure(p)'
    BY <1>1, <1>4, <1>5, <1>6 DEF publishEnds, Goes, PublisherSecure, Published, At, Digest, Named, Call
  <2>2. QED BY <1>2, <1>3, <1>6, <2>1, PublisherMoves DEF FilesSecure, publishEnds
<1>7. CASE publishing[p].left = {}
  <2>1. PublisherSecure(p)'
    BY <1>1, <1>7 DEF publishEnds, PublisherSecure, Published, At, Digest, Named, NoCall
  <2>2. \A d \in kept' : Secured(d)
    BY <1>1, <1>5, <1>7 DEF publishEnds, PublisherSecure, FilesSecure
  <2>3. QED BY <1>2, <1>3, <2>1, <2>2, PublisherMoves
<1>8. QED BY <1>6, <1>7

(* A shard that did not exist held nothing; one made durable stays so.     *)
LEMMA DirectorySecure ==
  ASSUME FilesTypeOK, FilesSecure, NEW p \in Publishers,
         makeDirectory(p) \/ createPrivateDirectory(p)
  PROVE  FilesSecure'
<1>1. /\ PublisherSecure(p) /\ publishing[p] \in Call /\ publishing \in [Publishers -> Call]
      /\ kept \subseteq Digests
  BY DEF FilesTypeOK, FilesSecure
<1>2. UNCHANGED <<objects, temporaries, collecting, kept>> /\ (shard = Durable => shard' = Durable)
  BY DEF makeDirectory, createPrivateDirectory, Missing, Durable
<1>3. \A d \in Digests : Secured(d) => Secured(d)'
  BY <1>2 DEF Secured
<1>4. \A q \in Publishers : q # p => publishing'[q] = publishing[q]
  BY <1>1 DEF makeDirectory, createPrivateDirectory, Goes
<1>5. PublisherSecure(p)'
  <2>1. CASE makeDirectory(p)
    <3>1. UNCHANGED publishing BY <2>1 DEF makeDirectory
    <3>2. QED BY <1>1, <1>2, <1>3, <3>1, OthersSecure
  <2>2. CASE createPrivateDirectory(p)
    BY <1>1, <1>3, <2>2 DEF createPrivateDirectory, Goes, PublisherSecure, Published, At, Digest, Named, Call
  <2>3. QED BY <2>1, <2>2
<1>6. \A q \in Publishers : PublisherSecure(q)'
  BY <1>2, <1>3, <1>4, <1>5, OthersSecure DEF FilesSecure
<1>7. LinkedWhole'
  BY <1>2 DEF FilesSecure, LinkedWhole
<1>8. CollectionSecure'
  BY <1>1, <1>2 DEF FilesSecure, CollectionSecure, activeOperations, makeDirectory, createPrivateDirectory,
                    Goes, At, Call
<1>9. QED BY <1>1, <1>2, <1>3, <1>6, <1>7, <1>8 DEF FilesSecure

(* A name is given to durable bytes, or had been. *)
LEMMA LinkSecures ==
  ASSUME FilesTypeOK, FilesSecure, NEW p \in Publishers, link(p)
  PROVE  FilesSecure'
<1>1. /\ PublisherSecure(p) /\ publishing[p] \in Call /\ publishing \in [Publishers -> Call]
      /\ Digest(p) \in Digests /\ shard = Durable /\ temporaries[p].bytes = Durable
      /\ objects \in [Digests -> Object] /\ kept \subseteq Digests
  BY DEF FilesTypeOK, FilesSecure, PublisherSecure, link, At, Named
<1>2. /\ UNCHANGED <<shard, temporaries, collecting, kept>> /\ collecting.at = "none"
      /\ Present(Digest(p)) <=> objects[Digest(p)].entry # Missing
  BY <1>1, NoCollectionAmidst DEF link, At, Present, Missing, Durable
<1>3. /\ \A d \in Digests : objects[d].entry # Missing => objects'[d] = objects[d]
      /\ objects'[Digest(p)].entry # Missing
      /\ \A d \in Digests : objects'[d] = objects[d] \/ objects'[d].bytes = Durable
  BY <1>1, <1>2 DEF link, Missing, Cached
<1>4. \A d \in Digests : Secured(d) => Secured(d)'
  BY <1>2, <1>3 DEF Secured, Missing, Cached, Durable
<1>5. \A q \in Publishers \ {p} : publishing'[q] = publishing[q]
  BY <1>1 DEF link, Goes
<1>6. PublisherSecure(p)'
  <2>1. publishing' = [publishing EXCEPT ![p].at = "bucket"] \/ publishing' = [publishing EXCEPT ![p].at = "linked"]
    BY DEF link, Goes
  <2>2. CASE publishing' = [publishing EXCEPT ![p].at = "bucket"]
    <3>1. Published(p)' = Published(p) /\ Published(p) \subseteq Digests
      BY <1>1, <2>2 DEF link, Published, At, Digest, Named, Call
    <3>2. QED
      BY <1>1, <1>2, <1>3, <1>4, <2>2, <3>1 DEF PublisherSecure, At, Digest, Named, Call
  <2>3. CASE publishing' = [publishing EXCEPT ![p].at = "linked"]
    <3>1. Images /\ objects[Digest(p)].entry # Missing
      BY <1>1, <1>2, <2>3 DEF link, Goes, Call
    <3>2. Secured(Digest(p))'
      <4>1. Digest(p)' = Digest(p)
        BY <1>1, <2>3 DEF Digest, Call
      <4>2. objects[Digest(p)].entry \in {Cached, Durable} /\ objects[Digest(p)].bytes = Durable
        BY <1>1, <3>1 DEF FilesSecure, LinkedWhole, Object, Entries
      <4>3. QED BY <1>1, <1>2, <1>3, <3>1, <4>1, <4>2 DEF Secured
    <3>3. Published(p)' \subseteq Published(p) \cup {Digest(p)} /\ Published(p) \subseteq Digests
      BY <1>1, <2>3 DEF link, Published, At, Digest, Named, Call
    <3>4. Digest(p)' = Digest(p)
      BY <1>1, <2>3 DEF Digest, Call
    <3>5. \A d \in Published(p)' : Secured(d)'
      BY <1>1, <1>4, <3>2, <3>3, <3>4 DEF PublisherSecure
    <3>6. QED
      BY <1>1, <1>2, <2>3, <3>4, <3>5 DEF PublisherSecure, At, Named, Call
  <2>4. QED BY <2>1, <2>2, <2>3
<1>7. \A q \in Publishers : PublisherSecure(q)'
  BY <1>2, <1>3, <1>4, <1>5, <1>6, OthersSecure DEF FilesSecure
<1>8. LinkedWhole' /\ CollectionSecure'
  BY <1>1, <1>2, <1>3 DEF FilesSecure, LinkedWhole, CollectionSecure
<1>9. QED BY <1>1, <1>2, <1>4, <1>7, <1>8 DEF FilesSecure

(* What synchronizes a directory synchronizes everybody's entries in it.   *)
LEMMA SyncSecures ==
  ASSUME FilesTypeOK, FilesSecure, NEW p \in Publishers, syncDirectory(p)
  PROVE  FilesSecure'
<1>1. /\ PublisherSecure(p) /\ publishing[p] \in Call /\ publishing \in [Publishers -> Call]
      /\ Digest(p) \in Digests /\ shard = Durable /\ objects[Digest(p)].entry # Missing
      /\ objects \in [Digests -> Object] /\ kept \subseteq Digests
  BY DEF FilesTypeOK, FilesSecure, PublisherSecure, syncDirectory, At, Named
<1>2. UNCHANGED <<shard, temporaries, collecting, kept>> /\ collecting.at = "none"
  BY NoCollectionAmidst DEF syncDirectory, At
<1>3. \A d \in Digests : /\ objects'[d].bytes = objects[d].bytes
                         /\ objects'[d].entry = IF objects[d].entry = Cached THEN Durable ELSE objects[d].entry
  BY <1>1, SyncedObject DEF syncDirectory
<1>4. \A d \in Digests : Secured(d) => Secured(d)'
  BY <1>2, <1>3 DEF Secured
<1>5. publishing' = [publishing EXCEPT ![p].at = "linked"]
  BY DEF syncDirectory, Goes
<1>6. Digest(p)' = Digest(p) /\ Secured(Digest(p))'
  <2>1. Digest(p)' = Digest(p)
    BY <1>1, <1>5 DEF Digest, Call
  <2>2. objects'[Digest(p)].bytes = Durable /\ objects'[Digest(p)].entry = Durable
    BY <1>1, <1>3 DEF FilesSecure, LinkedWhole, Object, Entries
  <2>3. QED BY <1>1, <1>2, <2>1, <2>2 DEF Secured
<1>7. \A d \in Published(p)' : Secured(d)'
  <2>1. Published(p)' \subseteq Published(p) \cup {Digest(p)} /\ Published(p) \subseteq Digests
    BY <1>1, <1>5 DEF syncDirectory, Published, At, Digest, Named, Call
  <2>2. QED BY <1>1, <1>4, <1>6, <2>1 DEF PublisherSecure
<1>8. PublisherSecure(p)'
  BY <1>1, <1>2, <1>5, <1>6, <1>7 DEF PublisherSecure, At, Named, Call
<1>9. \A q \in Publishers : PublisherSecure(q)'
  BY <1>1, <1>2, <1>3, <1>4, <1>5, <1>8, OthersSecure DEF FilesSecure, Missing, Durable
<1>10. LinkedWhole' /\ CollectionSecure'
  BY <1>1, <1>2, <1>3 DEF FilesSecure, LinkedWhole, CollectionSecure, Missing, Cached
<1>11. QED BY <1>1, <1>2, <1>4, <1>9, <1>10 DEF FilesSecure

-----------------------------------------------------------------------------
(* Collection, the host and crashes *)

(* A collection begins when nobody publishes and spares what is kept; what *)
(* it deletes is no one's.                                                 *)
LEMMA CollectionSteps ==
  ASSUME FilesTypeOK, FilesSecure,
         \/ \E cutoff \in 1..MaxModified + 1, limit \in 1..2 : collectGarbage(cutoff, limit)
         \/ \E d \in Digests : deleteObject(d) \/ hostForgets(d)
         \/ collectionEnds \/ timePasses
  PROVE  FilesSecure'
<1>1. ASSUME NEW cutoff \in 1..MaxModified + 1, NEW limit \in 1..2, collectGarbage(cutoff, limit)
      PROVE  FilesSecure'
  <2>1. UNCHANGED <<shard, objects, temporaries, publishing, kept>> /\ activeOperations = {} /\ ~Images
    BY <1>1 DEF collectGarbage, Collects, disk
  <2>2. collecting'.candidates \cap kept = {} /\ collecting'.at = "deleting"
    BY <1>1 DEF collectGarbage, Collects
  <2>3. QED
    BY <2>1, <2>2 DEF FilesSecure, CollectionSecure, LinkedWhole, PublisherSecure, Published, Secured,
                      activeOperations, At, Digest
<1>2. ASSUME NEW d \in Digests, deleteObject(d) PROVE FilesSecure'
  <2>1. /\ UNCHANGED <<shard, temporaries, publishing, kept>> /\ d \in collecting.candidates
        /\ activeOperations = {} /\ d \notin kept /\ kept \subseteq Digests
        /\ objects \in [Digests -> Object]
    BY <1>2 DEF deleteObject, FilesSecure, CollectionSecure, FilesTypeOK
  <2>2. \A o \in Digests \ {d} :
          /\ objects'[o].bytes = objects[o].bytes
          /\ objects'[o].entry = objects[o].entry \/ (objects[o].entry = Cached /\ objects'[o].entry = Durable)
    <3>1. \A o \in Digests \ {d} : objects'[o] = objects[o] \/ objects'[o] = Synced(objects[o])
      BY <1>2, <2>1 DEF deleteObject
    <3>2. ASSUME NEW o \in Digests \ {d}
          PROVE  /\ objects'[o].bytes = objects[o].bytes
                 /\ objects'[o].entry = objects[o].entry \/ (objects[o].entry = Cached /\ objects'[o].entry = Durable)
      <4>1. objects[o] \in Object
        BY <2>1
      <4>2. QED BY <3>1, <4>1, SyncedObject
    <3>3. QED BY <3>2
  <2>3. objects'[d] = objects[d] \/ objects'[d] = NoObject
    BY <1>2, <2>1 DEF deleteObject
  <2>4. \A o \in Digests \ {d} : Secured(o) => Secured(o)'
    BY <2>1, <2>2 DEF Secured, Cached, Durable
  <2>5. \A q \in Publishers : PublisherSecure(q)'
    <3>1. TAKE q \in Publishers
    <3>2. PublisherSecure(q) /\ publishing[q].at = "none" /\ UNCHANGED publishing
      BY <2>1 DEF FilesSecure, activeOperations, At
    <3>3. QED BY <3>2 DEF PublisherSecure, Published, At, Named
  <2>6. LinkedWhole'
    BY <2>1, <2>2, <2>3 DEF FilesSecure, LinkedWhole, NoObject, Missing, Cached
  <2>7. CollectionSecure' /\ (Images => collecting'.at = "none")
    BY <1>2, <2>1 DEF deleteObject, FilesTypeOK, FilesSecure, CollectionSecure, NoCollection, Collection,
                      activeOperations, At
  <2>8. QED BY <2>1, <2>4, <2>5, <2>6, <2>7 DEF FilesSecure
<1>3. ASSUME NEW d \in Digests, hostForgets(d) PROVE FilesSecure'
  BY <1>3 DEF hostForgets, disk, FilesSecure, CollectionSecure, LinkedWhole, PublisherSecure, Published,
              Secured, activeOperations, At, Digest
<1>4. CASE collectionEnds
  BY <1>4 DEF collectionEnds, NoCollection, FilesSecure, CollectionSecure, LinkedWhole, PublisherSecure,
              Published, Secured, activeOperations, At, Digest
<1>5. CASE timePasses
  BY <1>5 DEF timePasses, disk, FilesSecure, CollectionSecure, LinkedWhole, PublisherSecure, Published,
              Secured, activeOperations, At, Digest
<1>6. QED BY <1>1, <1>2, <1>3, <1>4, <1>5

(* A crash takes only what was not synchronized, and nothing kept is that. *)
LEMMA CrashSpares ==
  ASSUME FilesTypeOK, FilesSecure, Survives, crash
  PROVE  FilesSecure'
<1>1. ~Images
  <2>1. crashes \in Nat /\ crashes < MaxCrashes
    BY DEF crash, FilesTypeOK
  <2>2. MaxCrashes # 0
    BY <2>1, FilesAssumption
  <2>3. QED BY <2>2 DEF Survives
<1>2. PICK lost \in SUBSET {d \in Digests : objects[d].entry = Cached}, torn \in SUBSET {d \in Digests : objects[d].bytes = Cached} :
        objects' = AfterCrash(shard', lost, torn)
  BY DEF crash, AfterCrash
<1>3. /\ shard = Durable => shard' = Durable
      /\ objects \in [Digests -> Object]
  BY DEF crash, Cached, Durable, FilesTypeOK
<1>4. ASSUME NEW d \in Digests, Secured(d) PROVE Secured(d)'
  <2>1. d \notin lost /\ shard' # Missing /\ objects[d].entry = Durable /\ objects[d].bytes = Durable
    BY <1>1, <1>3, <1>4 DEF Secured, Cached, Durable, Missing
  <2>2. /\ objects'[d] = [Synced(objects[d]) EXCEPT
                           !.bytes = IF @ # Cached THEN @ ELSE IF d \in torn THEN Torn ELSE Durable]
        /\ Synced(objects[d]) \in Object
        /\ Synced(objects[d]).entry = Durable /\ Synced(objects[d]).bytes = Durable
    BY <1>2, <1>3, <2>1, SyncedObject DEF AfterCrash, Cached, Durable
  <2>3. objects'[d].entry = Durable /\ objects'[d].bytes = Durable
    BY <2>2 DEF Object, Cached, Durable
  <2>4. QED BY <1>1, <1>3, <1>4, <2>3 DEF Secured
<1>5. ASSUME NEW d \in Digests, objects'[d].entry # Missing PROVE shard' = Durable /\ objects'[d].bytes = Durable
  <2>1. /\ d \notin lost /\ shard' # Missing
        /\ objects'[d] = [Synced(objects[d]) EXCEPT
                            !.bytes = IF @ # Cached THEN @ ELSE IF d \in torn THEN Torn ELSE Durable]
        /\ Synced(objects[d]) \in Object /\ Synced(objects[d]).bytes = objects[d].bytes
        /\ Synced(objects[d]).entry = Missing => objects[d].entry = Missing
    BY <1>2, <1>3, <1>5, SyncedObject DEF AfterCrash, NoObject, Missing, Durable
  <2>2. objects[d].entry # Missing
    <3>1. objects'[d].entry = Synced(objects[d]).entry
      BY <2>1 DEF Object
    <3>2. CASE objects[d].entry = Missing
      BY <1>3, <1>5, <3>1, <3>2, SyncedObject DEF Missing, Cached
    <3>3. QED BY <3>2
  <2>3. objects[d].bytes = Durable /\ shard = Durable
    BY <2>2 DEF FilesSecure, LinkedWhole
  <2>4. objects'[d].bytes = Durable
    BY <1>3, <2>1, <2>3 DEF Object, Cached, Durable
  <2>5. QED BY <1>3, <2>3, <2>4
<1>6. LinkedWhole'
  BY <1>5 DEF LinkedWhole
<1>7. \A q \in Publishers : PublisherSecure(q)'
  BY DEF crash, PublisherSecure, Published, At, Named, NoCall
<1>8. CollectionSecure' /\ kept' = kept /\ kept \subseteq Digests
  BY DEF crash, CollectionSecure, NoCollection, FilesTypeOK
<1>9. QED BY <1>1, <1>4, <1>6, <1>7, <1>8 DEF FilesSecure

-----------------------------------------------------------------------------
(* The theorems *)

(* Every step keeps what is published and what is kept secure. *)
LEMMA SecureStep == FilesTypeOK /\ FilesSecure /\ Survives /\ [FilesNext]_fileVars => FilesSecure'
<1> SUFFICES ASSUME FilesTypeOK, FilesSecure, Survives, [FilesNext]_fileVars PROVE FilesSecure'
  OBVIOUS
<1>1. CASE UNCHANGED fileVars
  BY <1>1 DEF fileVars, FilesSecure, CollectionSecure, LinkedWhole, PublisherSecure, Published, Secured,
              activeOperations, At, Digest
<1>2. QED
  BY <1>1, QuietSteps, EndSecures, DirectorySecure, LinkSecures, SyncSecures, CollectionSteps, CrashSpares
  DEF FilesNext

LEMMA SecureInit == FilesInit => FilesSecure
  BY DEF FilesInit, FilesSecure, CollectionSecure, LinkedWhole, PublisherSecure, Published, Secured,
         activeOperations, At, Digest, Named, NoCall, NoCollection, NoObject, Missing, Durable

(* Every object of a publication under way, or of a reference that is      *)
(* kept, is where a crash or another publisher cannot take it.             *)
THEOREM AlwaysSecure ==
  ASSUME Survives
  PROVE  FilesSpec => []FilesSecure
<1>1. FilesTypeOK /\ FilesSecure /\ [FilesNext]_fileVars => FilesSecure'
  BY SecureStep
<1>2. QED BY <1>1, SecureInit, FilesTypeCorrect, PTL DEF FilesSpec

(* A reference that a publication returned and that the host keeps can be  *)
(* read, whoever published the same bytes or failed to, whatever was       *)
(* collected, and after any crash in a store that synchronizes what it     *)
(* finds already in place.                                                 *)
THEOREM KeptStayReadable ==
  ASSUME Survives
  PROVE  FilesSpec => []KeptReadable
<1>1. FilesSecure => KeptReadable
  BY DEF FilesSecure, Secured, KeptReadable, Readable, Present, Missing, Cached, Durable
<1>2. FilesSpec => []FilesSecure
  BY AlwaysSecure
<1>3. QED BY <1>1, <1>2, PTL
=============================================================================
