------------------------- MODULE GameRuntimeProofs -------------------------
(***************************************************************************)
(* The scheduler's books agree with one another, no admission bound is     *)
(* exceeded, no input is given to its agent twice, waitForIdle neither     *)
(* misses nor anticipates the drain, no wakeup is lost, and work behind a  *)
(* deferred run is paused, not refused: for every set of actors and runs,  *)
(* every bound and every host (the last: every host that lets deferred     *)
(* runs be), whichever writes of the event store fail.                     *)
(*                                                                         *)
(* Then the manager of delegations, which runs its children on the runtime:*)
(* it and its store, for every set of tasks, workers, calls and clocks.    *)
(***************************************************************************)
EXTENDS GameRuntime, DelegationManager, FiniteSetTheorems, SequenceTheorems, WellFoundedInduction, TLAPS

-----------------------------------------------------------------------------
(* The inductive invariant *)

SectionRecord ==
  [sort : Sorts, actor : Actors \cup {NoActor}, run : Runs \cup {NoRun}, todo : SUBSET Runs,
   cancel : Runs \cup {NoRun}]

Pending == {"submit", "submitting", "admitDurable", "resume", "resuming"}
OfRun == Pending \cup {"admit", "finish", "abort", "abandon", "abandoned"}
OfActor == {"retire", "retiring", "release", "unretire", "ready"}
(* A section that has begun and awaits something. *)
Begun == {"submitting", "admitDurable", "resuming"}
(* Sections that an actor has at most one of at a time. *)
Single == {"finish", "abandon", "abandoned"}

(* What a section relies on when its turn comes. *)
SectionOK(s) ==
  /\ s.sort \in OfRun => s.run \in Runs /\ s.actor = ActorOf[s.run]
  /\ s.sort \in OfActor => s.actor \in Actors
  /\ s.sort \in Begun => s.actor \in actors
  /\ s.cancel # NoRun => state[s.cancel] = "cancelling"
  /\ s.sort = "finish" => agent[s.actor] = "idle" /\ active[s.actor] = s.run
  /\ s.sort = "abandon" => abandoning[s.actor] = [stage |-> "queued", run |-> s.run]
  /\ s.sort = "abandoned" => abandoning[s.actor] = [stage |-> "local", run |-> s.run]

MutexBook ==
  /\ \A i \in 1 .. Len(mutex) : SectionOK(mutex[i])
  /\ \A i \in 2 .. Len(mutex) : mutex[i].sort \notin Begun /\ mutex[i].cancel = NoRun
  /\ \A i, j \in 1 .. Len(mutex) :
       i # j /\ mutex[i].sort = mutex[j].sort /\ mutex[i].sort \in Single => mutex[i].actor # mutex[j].actor

(* What the event store knows of a run, its state and whether its input    *)
(* was given to the agent.                                                 *)
RunOK(r) ==
  /\ state[r] = "new" => canon[r] = "none"
  /\ state[r] = "admitting" => canon[r] = "none"
  /\ state[r] \in {"ready", "active"} => canon[r] # "none"
  /\ kind[r] = "resume" => canon[r] # "none"
  /\ starts[r] <= 1
  /\ starts[r] # 0 => canon[r] # "none" /\ (kind[r] = "prompt" => state[r] # "ready")

RunBook == \A r \in Runs : RunOK(r)

(* An actor's pending operation, the abandonment of it and its agent.      *)
ActorOK(a) ==
  /\ deferred[a] # NoRun => ActorOf[deferred[a]] = a /\ canon[deferred[a]] # "none"
  /\ abandoning[a].stage = "none" => abandoning[a].run = NoRun
  /\ abandoning[a].stage # "none" =>
       /\ abandoning[a].run \in Runs /\ ActorOf[abandoning[a].run] = a
       /\ canon[abandoning[a].run] # "none"
  /\ abandoning[a].stage \notin {"none", "queued"} => state[abandoning[a].run] \notin {"ready", "active"}
  /\ agent[a] # "idle" => active[a] # NoRun

ActorBook == \A a \in Actors : ActorOK(a)

(* The queues hold the ready runs, each once. *)
LaneBook ==
  /\ \A a \in Actors : \A i \in 1 .. Len(queue[a]) :
       ActorOf[queue[a][i]] = a /\ state[queue[a][i]] = "ready"
  /\ \A a \in Actors : \A i, j \in 1 .. Len(queue[a]) : queue[a][i] = queue[a][j] => i = j
  /\ \A r \in Runs : state[r] = "ready" => \E i \in 1 .. Len(queue[ActorOf[r]]) : queue[ActorOf[r]][i] = r
  /\ \A a \in Actors, r \in Runs : active[a] = r <=> state[r] = "active" /\ ActorOf[r] = a
  /\ \A r \in Runs : Live(r) => ActorOf[r] \in actors

(* Once the drain is over nothing is live and nothing is being admitted.   *)
IdleBook ==
  /\ idle = "waiting" => ~isIdle
  /\ idle = "resolved" => ~pendingAdmissions /\ \A r \in Runs : ~Live(r)
  /\ idle # "none" <=> ~accepting

SchedulerInv == TypeOK /\ MutexBook /\ RunBook /\ ActorBook /\ LaneBook /\ CapacityExact /\ IdleBook
-----------------------------------------------------------------------------
(* Sequences *)

(* Taking out an element that occurs once leaves the others, each once.    *)
LEMMA RemoveFirstProperties ==
  ASSUME NEW S, NEW q \in Seq(S), NEW e,
         \A i, j \in 1 .. Len(q) : q[i] = q[j] => i = j
  PROVE  /\ RemoveFirst(q, e) \in Seq(S)
         /\ \A i \in 1 .. Len(RemoveFirst(q, e)) :
              RemoveFirst(q, e)[i] # e /\ \E j \in 1 .. Len(q) : q[j] = RemoveFirst(q, e)[i]
         /\ \A j \in 1 .. Len(q) :
              q[j] # e => \E i \in 1 .. Len(RemoveFirst(q, e)) : RemoveFirst(q, e)[i] = q[j]
         /\ \A i, j \in 1 .. Len(RemoveFirst(q, e)) :
              RemoveFirst(q, e)[i] = RemoveFirst(q, e)[j] => i = j
<1>1. CASE ~ \E i \in 1 .. Len(q) : q[i] = e
  BY <1>1 DEF RemoveFirst
<1>2. CASE \E i \in 1 .. Len(q) : q[i] = e
  <2>1. PICK k \in 1 .. Len(q) : q[k] = e /\ RemoveFirst(q, e) = RemoveAt(q, k)
    <3> DEFINE I == {i \in 1 .. Len(q) : q[i] = e}
    <3>1. PICK k \in 1 .. Len(q) : I = {k}
      BY <1>2
    <3>2. Min(I) = k
      BY <3>1 DEF Min
    <3>3. SelectInSeq(q, LAMBDA v : v = e) = Min(I)
      BY <3>1 DEF SelectInSeq
    <3>4. QED BY <1>2, <3>1, <3>2, <3>3 DEF RemoveFirst
  <2>2. /\ SubSeq(q, 1, k - 1) \in Seq(S) /\ Len(SubSeq(q, 1, k - 1)) = k - 1
        /\ \A i \in 1 .. k - 1 : SubSeq(q, 1, k - 1)[i] = q[i]
    BY SubSeqProperties
  <2>3. /\ SubSeq(q, k + 1, Len(q)) \in Seq(S) /\ Len(SubSeq(q, k + 1, Len(q))) = Len(q) - k
        /\ \A i \in 1 .. Len(q) - k : SubSeq(q, k + 1, Len(q))[i] = q[k + i]
    BY SubSeqProperties
  <2>4. /\ RemoveFirst(q, e) \in Seq(S) /\ Len(RemoveFirst(q, e)) = Len(q) - 1
        /\ \A i \in 1 .. Len(q) - 1 : RemoveFirst(q, e)[i] = IF i < k THEN q[i] ELSE q[i + 1]
    <3>1. RemoveFirst(q, e) = SubSeq(q, 1, k - 1) \o SubSeq(q, k + 1, Len(q))
      BY <2>1 DEF RemoveAt
    <3>2. /\ RemoveFirst(q, e) \in Seq(S) /\ Len(RemoveFirst(q, e)) = (k - 1) + (Len(q) - k)
          /\ \A i \in 1 .. (k - 1) + (Len(q) - k) : RemoveFirst(q, e)[i] =
               IF i <= k - 1 THEN SubSeq(q, 1, k - 1)[i] ELSE SubSeq(q, k + 1, Len(q))[i - (k - 1)]
      <4> DEFINE before == SubSeq(q, 1, k - 1)
                 after == SubSeq(q, k + 1, Len(q))
      <4>1. before \in Seq(S) /\ after \in Seq(S) /\ Len(before) = k - 1 /\ Len(after) = Len(q) - k
        BY <2>2, <2>3
      <4>2. RemoveFirst(q, e) = before \o after
        BY <3>1
      <4> HIDE DEF before, after
      <4>3. /\ before \o after \in Seq(S) /\ Len(before \o after) = Len(before) + Len(after)
            /\ \A i \in 1 .. Len(before) + Len(after) : (before \o after)[i] =
                 IF i <= Len(before) THEN before[i] ELSE after[i - Len(before)]
        BY <4>1, ConcatProperties
      <4>4. /\ RemoveFirst(q, e) \in Seq(S) /\ Len(RemoveFirst(q, e)) = (k - 1) + (Len(q) - k)
            /\ \A i \in 1 .. (k - 1) + (Len(q) - k) : RemoveFirst(q, e)[i] =
                 IF i <= k - 1 THEN before[i] ELSE after[i - (k - 1)]
        BY <4>1, <4>2, <4>3
      <4>5. QED BY <4>4 DEF before, after
    <3>3. ASSUME NEW i \in 1 .. Len(q) - 1 PROVE RemoveFirst(q, e)[i] = IF i < k THEN q[i] ELSE q[i + 1]
      <4>1. CASE i < k
        BY <4>1, <3>2, <2>2
      <4>2. CASE i >= k
        <5>1. i - (k - 1) \in 1 .. Len(q) - k /\ k + (i - (k - 1)) = i + 1
          BY <4>2
        <5>2. RemoveFirst(q, e)[i] = SubSeq(q, k + 1, Len(q))[i - (k - 1)]
          BY <4>2, <3>2
        <5>3. SubSeq(q, k + 1, Len(q))[i - (k - 1)] = q[k + (i - (k - 1))]
          BY <5>1, <2>3
        <5>4. QED BY <4>2, <5>1, <5>2, <5>3
      <4>3. QED BY <4>1, <4>2
    <3>4. QED BY <3>2, <3>3
  <2>5. ASSUME NEW j \in 1 .. Len(q), q[j] # e
        PROVE  \E i \in 1 .. Len(q) - 1 : RemoveFirst(q, e)[i] = q[j]
    <3>1. CASE j < k
      BY <2>4, <3>1
    <3>2. CASE j > k
      <4>1. j - 1 \in 1 .. Len(q) - 1 /\ ~(j - 1 < k) /\ (j - 1) + 1 = j
        BY <3>2
      <4>2. QED BY <2>4, <4>1
    <3>3. QED BY <2>1, <2>5, <3>1, <3>2
  <2>6. ASSUME NEW i \in 1 .. Len(q) - 1
        PROVE  \E j \in 1 .. Len(q) : j # k /\ q[j] = RemoveFirst(q, e)[i]
    <3>1. CASE i < k
      BY <2>4, <3>1
    <3>2. CASE ~(i < k)
      BY <2>4, <3>2
    <3>3. QED BY <3>1, <3>2
  <2>7. ASSUME NEW i \in 1 .. Len(q) - 1, NEW j \in 1 .. Len(q) - 1, RemoveFirst(q, e)[i] = RemoveFirst(q, e)[j]
        PROVE  i = j
    BY <2>4, <2>7
  <2>8. \A j \in 1 .. Len(q) : q[j] = e <=> j = k
    BY <2>1
  <2>9. Len(RemoveFirst(q, e)) = Len(q) - 1 /\ RemoveFirst(q, e) \in Seq(S)
    BY <2>4
  <2>10. \A i \in 1 .. Len(q) - 1 :
           RemoveFirst(q, e)[i] # e /\ \E j \in 1 .. Len(q) : q[j] = RemoveFirst(q, e)[i]
    BY <2>6, <2>8
  <2>11. QED BY <2>5, <2>7, <2>9, <2>10
<1>3. QED BY <1>1, <1>2

-----------------------------------------------------------------------------
(* The queue of sections *)

(* The sections from place n on have what they rely on after the step.     *)
KeepFrom(n) ==
  \A i \in n .. Len(mutex) : \A t \in SectionRecord : t = mutex[i] => SectionOK(t)'

(* A section is requested. *)
LEMMA MutexAppended ==
  ASSUME mutex \in Seq(SectionRecord), MutexBook, NEW s \in SectionRecord, mutex' = Append(mutex, s),
         s.sort \notin Begun, s.cancel = NoRun, SectionOK(s)', KeepFrom(1),
         s.sort \in Single => \A i \in 1 .. Len(mutex) : mutex[i].sort = s.sort => mutex[i].actor # s.actor
  PROVE  /\ MutexBook' /\ mutex' \in Seq(SectionRecord)
         /\ s.sort \notin Pending => (pendingAdmissions' <=> pendingAdmissions)
<1>1. /\ Len(mutex) \in Nat /\ mutex' \in Seq(SectionRecord) /\ Len(mutex') = Len(mutex) + 1
      /\ \A i \in 1 .. Len(mutex) : mutex'[i] = mutex[i] /\ mutex[i] \in SectionRecord
      /\ mutex'[Len(mutex) + 1] = s
  BY AppendProperties, ElementOfSeq, LenProperties
<1>2. \A i \in 1 .. Len(mutex') : \A t \in SectionRecord : t = mutex'[i] => SectionOK(t)'
  BY <1>1 DEF KeepFrom
<1>3. (\A i \in 1 .. Len(mutex) : SectionOK(mutex[i]))'
  BY <1>1, <1>2, ElementOfSeq DEF SectionOK
<1>4. MutexBook'
  BY <1>1, <1>3 DEF MutexBook
<1>5. s.sort \notin Pending => (pendingAdmissions' <=> pendingAdmissions)
  BY <1>1 DEF pendingAdmissions, Pending
<1>6. QED BY <1>1, <1>4, <1>5

(* The section at the head ends. *)
LEMMA MutexAdvanced ==
  ASSUME mutex \in Seq(SectionRecord), MutexBook, mutex # <<>>, mutex' = Tail(mutex), KeepFrom(2)
  PROVE  /\ MutexBook' /\ mutex' \in Seq(SectionRecord)
         /\ mutex[1].sort \notin Pending => (pendingAdmissions' <=> pendingAdmissions)
         /\ pendingAdmissions' => pendingAdmissions
<1>1. /\ Len(mutex) \in Nat /\ mutex' \in Seq(SectionRecord) /\ Len(mutex') = Len(mutex) - 1
      /\ \A i \in 1 .. Len(mutex) : mutex[i] \in SectionRecord
      /\ \A i \in 1 .. Len(mutex') : mutex'[i] = mutex[i + 1] /\ i + 1 \in 2 .. Len(mutex)
  BY HeadTailProperties, ElementOfSeq, LenProperties
<1>2. \A i \in 1 .. Len(mutex') : \A t \in SectionRecord : t = mutex'[i] => SectionOK(t)'
  BY <1>1 DEF KeepFrom
<1>3. (\A i \in 1 .. Len(mutex) : SectionOK(mutex[i]))'
  BY <1>1, <1>2, ElementOfSeq DEF SectionOK
<1>4. MutexBook'
  BY <1>1, <1>3 DEF MutexBook
<1>5. \A i \in 2 .. Len(mutex) : i - 1 \in 1 .. Len(mutex') /\ mutex'[i - 1] = mutex[i]
  BY <1>1
<1>6. (mutex[1].sort \notin Pending => (pendingAdmissions' <=> pendingAdmissions)) /\ (pendingAdmissions' => pendingAdmissions)
  BY <1>1, <1>5 DEF pendingAdmissions, Pending
<1>7. QED BY <1>1, <1>4, <1>6

(* The section at the head ends and another one is requested. *)
LEMMA MutexRotated ==
  ASSUME mutex \in Seq(SectionRecord), MutexBook, NEW s \in SectionRecord, Len(mutex) > 0,
         mutex' \in Seq(SectionRecord), Len(mutex') = Len(mutex), mutex'[Len(mutex)] = s,
         \A i \in 1 .. Len(mutex) - 1 : mutex'[i] = mutex[i + 1] /\ i + 1 \in 2 .. Len(mutex),
         s.sort \notin Begun \cup Single, s.cancel = NoRun, SectionOK(s)', KeepFrom(2)
  PROVE  /\ MutexBook'
         /\ mutex[1].sort \notin Pending /\ s.sort \notin Pending => (pendingAdmissions' <=> pendingAdmissions)
<1>1. Len(mutex) \in Nat /\ \A i \in 1 .. Len(mutex) : mutex[i] \in SectionRecord
  BY ElementOfSeq, LenProperties
<1>2. \A i \in 1 .. Len(mutex') : \A t \in SectionRecord : t = mutex'[i] => SectionOK(t)'
  BY <1>1 DEF KeepFrom
<1>3. (\A i \in 1 .. Len(mutex) : SectionOK(mutex[i]))'
  BY <1>1, <1>2, ElementOfSeq DEF SectionOK
<1>4. MutexBook'
  <2>1. \A i \in 1 .. Len(mutex) : i \in 1 .. Len(mutex) - 1 \/ i = Len(mutex)
    BY <1>1
  <2>2. \A i \in 2 .. Len(mutex) : mutex[i].sort \notin Begun /\ mutex[i].cancel = NoRun
    BY DEF MutexBook
  <2>3. \A i \in 1 .. Len(mutex) : mutex'[i].sort \notin Begun /\ mutex'[i].cancel = NoRun
    BY <2>1, <2>2
  <2>4. \A i, j \in 1 .. Len(mutex) :
          i # j /\ mutex[i].sort = mutex[j].sort /\ mutex[i].sort \in Single => mutex[i].actor # mutex[j].actor
    BY DEF MutexBook
  <2>5. \A i \in 1 .. Len(mutex) : mutex'[i].sort \in Single => i \in 1 .. Len(mutex) - 1
    BY <2>1
  <2>6. \A i, j \in 1 .. Len(mutex) :
          i # j /\ mutex'[i].sort = mutex'[j].sort /\ mutex'[i].sort \in Single => mutex'[i].actor # mutex'[j].actor
    <3>1. SUFFICES ASSUME NEW i \in 1 .. Len(mutex), NEW j \in 1 .. Len(mutex), i # j,
                          mutex'[i].sort = mutex'[j].sort, mutex'[i].sort \in Single
                   PROVE  mutex'[i].actor # mutex'[j].actor
      OBVIOUS
    <3>2. i \in 1 .. Len(mutex) - 1 /\ j \in 1 .. Len(mutex) - 1 /\ i + 1 # j + 1
      BY <2>5, <3>1
    <3>3. i + 1 \in 1 .. Len(mutex) /\ j + 1 \in 1 .. Len(mutex)
      BY <3>2
    <3>4. QED BY <2>4, <3>1, <3>2, <3>3
  <2>7. QED BY <1>1, <1>3, <2>3, <2>6 DEF MutexBook
<1>5. \A i \in 2 .. Len(mutex) : i - 1 \in 1 .. Len(mutex') /\ mutex'[i - 1] = mutex[i]
  BY <1>1
<1>6. mutex[1].sort \notin Pending /\ s.sort \notin Pending => (pendingAdmissions' <=> pendingAdmissions)
  <2>1. ASSUME mutex[1].sort \notin Pending, s.sort \notin Pending, NEW i \in 1 .. Len(mutex), mutex[i].sort \in Pending
        PROVE  \E j \in 1 .. Len(mutex') : mutex'[j].sort \in Pending
    <3>1. i \in 2 .. Len(mutex)
      BY <2>1
    <3>2. QED BY <1>5, <2>1, <3>1
  <2>2. ASSUME s.sort \notin Pending, NEW i \in 1 .. Len(mutex'), mutex'[i].sort \in Pending
        PROVE  \E j \in 1 .. Len(mutex) : mutex[j].sort \in Pending
    <3>1. i \in 1 .. Len(mutex) - 1 /\ i + 1 \in 1 .. Len(mutex)
      BY <1>1, <2>2
    <3>2. QED BY <2>2, <3>1
  <2>3. QED BY <2>1, <2>2 DEF pendingAdmissions, Pending
<1>7. QED BY <1>4, <1>6

LEMMA MutexRequeued ==
  ASSUME mutex \in Seq(SectionRecord), MutexBook, mutex # <<>>, NEW s \in SectionRecord,
         mutex' = Append(Tail(mutex), s),
         s.sort \notin Begun \cup Single, s.cancel = NoRun, SectionOK(s)', KeepFrom(2)
  PROVE  /\ MutexBook' /\ mutex' \in Seq(SectionRecord)
         /\ mutex[1].sort \notin Pending /\ s.sort \notin Pending => (pendingAdmissions' <=> pendingAdmissions)
<1>1. /\ Len(mutex) \in Nat /\ Tail(mutex) \in Seq(SectionRecord) /\ Len(Tail(mutex)) = Len(mutex) - 1
      /\ \A i \in 1 .. Len(mutex) : mutex[i] \in SectionRecord
      /\ \A i \in 1 .. Len(Tail(mutex)) : Tail(mutex)[i] = mutex[i + 1]
      /\ Len(mutex) > 0
  BY HeadTailProperties, ElementOfSeq, LenProperties, EmptySeq
<1>2. /\ mutex' \in Seq(SectionRecord) /\ Len(mutex') = Len(mutex)
      /\ \A i \in 1 .. Len(mutex) - 1 : mutex'[i] = mutex[i + 1] /\ i + 1 \in 2 .. Len(mutex)
      /\ mutex'[Len(mutex)] = s
  BY <1>1, AppendProperties
<1>3. QED BY <1>1, <1>2, MutexRotated

(* The section at the head goes on. *)
LEMMA MutexHeadChanged ==
  ASSUME mutex \in Seq(SectionRecord), MutexBook, mutex # <<>>, NEW h \in SectionRecord,
         mutex' = [mutex EXCEPT ![1] = h], h.sort \notin Single, SectionOK(h)', KeepFrom(2)
  PROVE  /\ MutexBook' /\ mutex' \in Seq(SectionRecord)
         /\ (mutex[1].sort \in Pending <=> h.sort \in Pending) => (pendingAdmissions' <=> pendingAdmissions)
<1>1. /\ Len(mutex) \in Nat /\ 1 \in 1 .. Len(mutex)
      /\ \A i \in 1 .. Len(mutex) : mutex[i] \in SectionRecord
  BY ElementOfSeq, LenProperties, EmptySeq
<1>2. /\ mutex' \in Seq(SectionRecord) /\ Len(mutex') = Len(mutex)
      /\ \A i \in 1 .. Len(mutex) : mutex'[i] = IF i = 1 THEN h ELSE mutex[i]
  BY <1>1, ExceptSeq
<1>3. \A i \in 1 .. Len(mutex') : \A t \in SectionRecord : t = mutex'[i] => SectionOK(t)'
  BY <1>1, <1>2 DEF KeepFrom
<1>4. (\A i \in 1 .. Len(mutex) : SectionOK(mutex[i]))'
  BY <1>2, <1>3, ElementOfSeq DEF SectionOK
<1>5. MutexBook'
  BY <1>1, <1>2, <1>4 DEF MutexBook
<1>6. (mutex[1].sort \in Pending <=> h.sort \in Pending) => (pendingAdmissions' <=> pendingAdmissions)
  BY <1>1, <1>2 DEF pendingAdmissions, Pending
<1>7. QED BY <1>2, <1>5, <1>6

(* No section moves. *)
LEMMA MutexStays ==
  ASSUME mutex \in Seq(SectionRecord), MutexBook, UNCHANGED mutex, KeepFrom(1)
  PROVE  MutexBook' /\ (pendingAdmissions' <=> pendingAdmissions)
<1>1. Len(mutex) \in Nat /\ \A i \in 1 .. Len(mutex) : mutex[i] \in SectionRecord
  BY ElementOfSeq, LenProperties
<1>2. \A i \in 1 .. Len(mutex') : \A t \in SectionRecord : t = mutex'[i] => SectionOK(t)'
  BY <1>1 DEF KeepFrom
<1>3. (\A i \in 1 .. Len(mutex) : SectionOK(mutex[i]))'
  BY <1>1, <1>2, ElementOfSeq DEF SectionOK
<1>4. QED BY <1>3 DEF MutexBook, pendingAdmissions

(* Nothing that a section relies on changes. *)
LEMMA SectionsKept ==
  ASSUME mutex \in Seq(SectionRecord), MutexBook, UNCHANGED <<actors, state, agent, active, abandoning>>
  PROVE  KeepFrom(1) /\ KeepFrom(2)
<1>1. Len(mutex) \in Nat /\ \A i \in 1 .. Len(mutex) : SectionOK(mutex[i])
  BY LenProperties DEF MutexBook
<1>2. \A t \in SectionRecord : SectionOK(t) => SectionOK(t)'
  BY DEF SectionOK
<1>3. QED BY <1>1, <1>2 DEF KeepFrom

-----------------------------------------------------------------------------
(* What a step keeps that leaves the variables of a part alone *)

LEMMA RunBookKept ==
  ASSUME RunBook, UNCHANGED <<state, kind, canon, starts>>
  PROVE  RunBook'
  BY DEF RunBook, RunOK

LEMMA ActorBookKept ==
  ASSUME ActorBook, UNCHANGED <<state, canon, active, agent, deferred, abandoning>>
  PROVE  ActorBook'
  BY DEF ActorBook, ActorOK

(* What a lane's queue holds.                                              *)
LEMMA QueueEntries ==
  ASSUME TypeOK, LaneBook, NEW b \in Actors
  PROVE  /\ queue[b] \in Seq(Runs)
         /\ \A i \in 1 .. Len(queue[b]) :
              queue[b][i] \in Runs /\ ActorOf[queue[b][i]] = b /\ state[queue[b][i]] = "ready"
         /\ \A i, j \in 1 .. Len(queue[b]) : queue[b][i] = queue[b][j] => i = j
<1>1. queue[b] \in Seq(Runs)
  BY DEF TypeOK
<1>2. \A i \in 1 .. Len(queue[b]) : queue[b][i] \in Runs
  BY <1>1, ElementOfSeq
<1>3. QED BY <1>1, <1>2 DEF LaneBook

LEMMA LaneBookKept ==
  ASSUME LaneBook, UNCHANGED <<state, queue, active, actors>>
  PROVE  LaneBook'
  BY DEF LaneBook, Live, Unstarted

LEMMA CapacityKept ==
  ASSUME CapacityExact, UNCHANGED <<state, kind, active, queuedRuns, activeActors>>
  PROVE  CapacityExact'
  BY DEF CapacityExact, Unstarted

LEMMA IdleBookKept ==
  ASSUME IdleBook, UNCHANGED <<accepting, idle, registering, retirement, actors, state>>,
         pendingAdmissions' <=> pendingAdmissions
  PROVE  IdleBook'
<1>1. isIdle' <=> isIdle
  BY DEF isIdle, Retiring, RunsOf, Live, Unstarted
<1>2. \A r \in Runs : Live(r)' <=> Live(r)
  BY DEF Live, Unstarted
<1>3. QED BY <1>1, <1>2 DEF IdleBook

(* A step that may make the drain complete asks whether it has. *)
LEMMA IdleNotified ==
  ASSUME IdleBook, UNCHANGED accepting, notifyIdle, LaneBook',
         idle = "resolved" => (~pendingAdmissions /\ \A r \in Runs : ~Live(r))'
  PROVE  IdleBook'
<1>1. isIdle' => (~pendingAdmissions /\ \A r \in Runs : ~Live(r))'
  BY DEF isIdle, LaneBook, RunsOf
<1>2. CASE idle = "waiting"
  BY <1>1, <1>2 DEF IdleBook, notifyIdle
<1>3. CASE idle # "waiting"
  BY <1>3 DEF IdleBook, notifyIdle
<1>4. QED BY <1>2, <1>3

(* Only the mutex and what it serves change, and idle is not concerned.    *)
LEMMA QuietKept ==
  ASSUME SchedulerInv, TypeOK', MutexBook', pendingAdmissions' <=> pendingAdmissions,
         UNCHANGED <<accepting, idle, actors, registering, retirement, state, kind, queue, active,
                     queuedRuns, activeActors, agent, deferred, abandoning, canon, starts>>
  PROVE  SchedulerInv'
  BY RunBookKept, ActorBookKept, LaneBookKept, CapacityKept, IdleBookKept DEF SchedulerInv

(* The section that holds the mutex. *)
LEMMA HeadSection ==
  ASSUME TypeOK, MutexBook, mutex # <<>>
  PROVE  /\ Head(mutex) = mutex[1] /\ mutex[1] \in SectionRecord /\ SectionOK(mutex[1])
         /\ mutex \in Seq(SectionRecord) /\ Len(mutex) \in Nat \ {0} /\ Tail(mutex) \in Seq(SectionRecord)
<1>1. mutex \in Seq(SectionRecord)
  BY DEF TypeOK, SectionRecord
<1>2. Len(mutex) \in Nat \ {0} /\ Tail(mutex) \in Seq(SectionRecord)
  BY <1>1, EmptySeq, HeadTailProperties
<1>3. Head(mutex) = mutex[1] /\ mutex[1] \in SectionRecord
  BY <1>1, <1>2, ElementOfSeq
<1>4. SectionOK(mutex[1])
  BY <1>2 DEF MutexBook
<1>5. QED BY <1>1, <1>2, <1>3, <1>4

LEMMA NewSection ==
  ASSUME NEW sort \in Sorts, NEW a \in Actors \cup {NoActor}, NEW r \in Runs \cup {NoRun}
  PROVE  /\ Section(sort, a, r) \in SectionRecord
         /\ Section(sort, a, r).sort = sort /\ Section(sort, a, r).actor = a /\ Section(sort, a, r).run = r
         /\ Section(sort, a, r).cancel = NoRun /\ Section(sort, a, r).todo = {}
  BY DEF Section, SectionRecord

LEMMA ReadyTypes ==
  ASSUME NEW keys \in Seq(Actors), NEW set \in SUBSET Actors, NEW a \in Actors, markReady(keys, set, a)
  PROVE  readyKeys' \in Seq(Actors) /\ readySet' \in SUBSET Actors
  BY AppendProperties DEF markReady, Enqueue

-----------------------------------------------------------------------------
(* The pump *)

LEMMA PumpQuiet ==
  ASSUME SchedulerInv, PumpReturns \/ PumpSkips \/ PumpEmptyLane
  PROVE  SchedulerInv'
<1>1. UNCHANGED <<host, accepting, aborting, idle, actors, registering, retirement, awaited, state, kind, active,
                  queuedRuns, activeActors, mutex, agent, deferred, abandoning, canon, starts>>
  BY DEF PumpReturns, PumpSkips, PumpEmptyLane, admission, registry, lanes, counters, agents, stored
<1>2. MutexBook' /\ (pendingAdmissions' <=> pendingAdmissions)
  BY <1>1, MutexStays, SectionsKept DEF SchedulerInv, TypeOK, SectionRecord
<1>3. readyKeys # <<>> => /\ Head(readyKeys) \in Actors /\ Tail(readyKeys) \in Seq(Actors)
                          /\ readySet \ {Head(readyKeys)} \in SUBSET Actors
  BY HeadTailProperties DEF SchedulerInv, TypeOK
<1>4. /\ UNCHANGED queue /\ readyKeys' \in Seq(Actors) /\ readySet' \in SUBSET Actors /\ pumping' \in BOOLEAN
  <2>1. CASE PumpReturns
    BY <2>1 DEF PumpReturns, lanes, ready, SchedulerInv, TypeOK
  <2>2. CASE PumpSkips
    BY <1>3, <2>2 DEF PumpSkips, pumpStops, lanes, SchedulerInv, TypeOK
  <2>3. CASE PumpEmptyLane
    <3> DEFINE a == Head(readyKeys)
    <3>1. readyKeys # <<>> /\ a \in Actors /\ ~frontReady(a)
          /\ queue' = [queue EXCEPT ![a] = IF @ = <<>> THEN @ ELSE Tail(@)]
          /\ markReady(Tail(readyKeys), readySet \ {a}, a) /\ pumping' = pumping
      BY <1>3, <2>3 DEF PumpEmptyLane, pumpStops
    <3>2. queue[a] = <<>>
      <4>1. SUFFICES ASSUME queue[a] # <<>> PROVE FALSE
        OBVIOUS
      <4>2. 1 \in 1 .. Len(queue[a]) /\ Head(queue[a]) = queue[a][1]
        BY <3>1, <4>1, EmptySeq DEF SchedulerInv, TypeOK
      <4>3. QED BY <3>1, <4>1, <4>2 DEF SchedulerInv, LaneBook, frontReady
    <3>3. queue' = queue
      BY <3>1, <3>2 DEF SchedulerInv, TypeOK
    <3>4. readyKeys' \in Seq(Actors) /\ readySet' \in SUBSET Actors
      BY <1>3, <3>1, ReadyTypes
    <3>5. QED BY <3>1, <3>3, <3>4 DEF SchedulerInv, TypeOK
  <2>4. QED BY <2>1, <2>2, <2>3
<1>5. TypeOK'
  BY <1>1, <1>4 DEF SchedulerInv, TypeOK
<1>6. QED BY <1>1, <1>2, <1>4, <1>5, QuietKept

-----------------------------------------------------------------------------
(* Steps that request a section or move the mutex and nothing else that a  *)
(* lane or an agent sees                                                   *)

LEMMA HostTypes ==
  ASSUME TypeOK
  PROVE  /\ host.started \subseteq Runs /\ host.submitted \subseteq Runs /\ host.abortable \subseteq Runs
         /\ host.deferrable \subseteq Runs /\ host.abandonable \subseteq Actors
         /\ host.retirable \subseteq Actors /\ host.reregistered \subseteq Actors
  BY RuntimeAssumption DEF TypeOK, HostRecord

(* While admission is open nobody waits for the drain. *)
LEMMA IdleBookOpen ==
  ASSUME IdleBook, accepting, UNCHANGED <<accepting, idle>>
  PROVE  IdleBook'
  BY DEF IdleBook

(* While an actor is being retired the drain is not complete. *)
LEMMA IdleBookRetiring ==
  ASSUME IdleBook, UNCHANGED <<accepting, idle, state>>, pendingAdmissions' <=> pendingAdmissions,
         NEW a \in Actors, retirement'[a] # "none"
  PROVE  IdleBook'
<1>1. ~isIdle'
  BY DEF isIdle, Retiring
<1>2. \A r \in Runs : Live(r)' <=> Live(r)
  BY DEF Live, Unstarted
<1>3. QED BY <1>1, <1>2 DEF IdleBook

(* A section is appended and nothing else changes. *)
LEMMA RequestKept ==
  ASSUME SchedulerInv, NEW s \in SectionRecord, mutex' = Append(mutex, s), SectionOK(s),
         s.sort \notin Begun \cup Single, s.cancel = NoRun, s.sort \in Pending => accepting,
         UNCHANGED <<host, accepting, aborting, idle, actors, registering, retirement, awaited, state, kind, queue,
                     active, readyKeys, readySet, queuedRuns, activeActors, pumping, agent, deferred, abandoning,
                     canon, starts>>
  PROVE  SchedulerInv'
<1>1. mutex \in Seq(SectionRecord) /\ MutexBook
  BY DEF SchedulerInv, TypeOK, SectionRecord
<1>2. SectionOK(s)'
  BY DEF SectionOK
<1>3. MutexBook' /\ mutex' \in Seq(SectionRecord) /\ (s.sort \notin Pending => (pendingAdmissions' <=> pendingAdmissions))
  BY <1>1, <1>2, MutexAppended, SectionsKept
<1>4. TypeOK'
  BY <1>3 DEF SchedulerInv, TypeOK, SectionRecord
<1>5. IdleBook'
  BY <1>3, IdleBookOpen, IdleBookKept DEF SchedulerInv
<1>6. QED BY <1>3, <1>4, <1>5, RunBookKept, ActorBookKept, LaneBookKept, CapacityKept DEF SchedulerInv

LEMMA HostRequests ==
  ASSUME SchedulerInv,
         \/ \E r \in Runs : submit(r) \/ abortRun(r)
         \/ \E a \in Actors : resumeDeferred(a)
  PROVE  SchedulerInv'
<1> USE RuntimeAssumption DEF admission, registry, lanes, ready, counters, agents, stored
<1>1. ASSUME NEW r \in Runs, submit(r) PROVE SchedulerInv'
  <2> DEFINE s == Section("submit", ActorOf[r], r)
  <2>1. /\ s \in SectionRecord /\ s.sort = "submit" /\ s.actor = ActorOf[r] /\ s.run = r /\ s.cancel = NoRun
        /\ mutex' = Append(mutex, s) /\ accepting
    BY <1>1, NewSection DEF submit, Sorts
  <2> HIDE DEF s
  <2>2. SectionOK(s)
    BY <2>1 DEF SectionOK, OfRun, OfActor, Begun, Pending
  <2>3. QED BY <1>1, <2>1, <2>2, RequestKept DEF submit, Begun, Single
<1>2. ASSUME NEW r \in Runs, abortRun(r) PROVE SchedulerInv'
  <2> DEFINE t == Section("abort", ActorOf[r], r)
             s == [t EXCEPT !.todo = {r}]
  <2>1. /\ t \in SectionRecord /\ t.sort = "abort" /\ t.actor = ActorOf[r] /\ t.run = r /\ t.cancel = NoRun
        /\ mutex' = Append(mutex, s)
    BY <1>2, NewSection DEF abortRun, Sorts
  <2>2. s \in SectionRecord /\ s.sort = "abort" /\ s.actor = ActorOf[r] /\ s.run = r /\ s.cancel = NoRun
    BY <2>1 DEF SectionRecord
  <2> HIDE DEF s
  <2>3. SectionOK(s)
    BY <2>2 DEF SectionOK, OfRun, OfActor, Begun, Pending
  <2>4. QED BY <1>2, <2>1, <2>2, <2>3, RequestKept DEF abortRun, Begun, Single, Pending
<1>3. ASSUME NEW a \in Actors, resumeDeferred(a) PROVE SchedulerInv'
  <2> DEFINE s == Section("resume", a, deferred[a])
  <2>1. deferred[a] \in Runs /\ ActorOf[deferred[a]] = a
    BY <1>3 DEF resumeDeferred, SchedulerInv, TypeOK, ActorBook, ActorOK
  <2>2. /\ s \in SectionRecord /\ s.sort = "resume" /\ s.actor = a /\ s.run = deferred[a] /\ s.cancel = NoRun
        /\ mutex' = Append(mutex, s) /\ accepting
    BY <1>3, <2>1, NewSection DEF resumeDeferred, Sorts
  <2> HIDE DEF s
  <2>3. SectionOK(s)
    BY <2>1, <2>2 DEF SectionOK, OfRun, OfActor, Begun, Pending
  <2>4. QED BY <1>3, <2>2, <2>3, RequestKept DEF resumeDeferred, Begun, Single
<1>4. QED BY <1>1, <1>2, <1>3

-----------------------------------------------------------------------------
(* Sections that serve no run *)

LEMMA LanesKept ==
  ASSUME SchedulerInv, TypeOK', MutexBook', IdleBook', LaneBook',
         UNCHANGED <<state, kind, active, queuedRuns, activeActors, agent, deferred, abandoning, canon, starts>>
  PROVE  SchedulerInv'
  BY RunBookKept, ActorBookKept, CapacityKept DEF SchedulerInv

LEMMA AdmissionEntersKeeps ==
  ASSUME SchedulerInv, AdmissionEnters
  PROVE  SchedulerInv'
<1>1. /\ mutex # <<>> /\ Head(mutex).sort \in {"submit", "resume"} /\ notifyIdle
      /\ UNCHANGED <<host, accepting, aborting, actors, registering, retirement, awaited, state, kind, queue, active,
                     readyKeys, readySet, queuedRuns, activeActors, pumping, agent, deferred, abandoning, canon, starts>>
  BY DEF AdmissionEnters, Holds, registry, lanes, ready, counters, agents, stored, admission
<1>2. UNCHANGED <<host, accepting, aborting>> /\ TypeOK /\ MutexBook
  BY <1>1 DEF AdmissionEnters, SchedulerInv
<1>3. Head(mutex) = mutex[1] /\ mutex[1] \in SectionRecord /\ SectionOK(mutex[1]) /\ mutex \in Seq(SectionRecord)
  BY <1>1, <1>2, HeadSection
<1>4. KeepFrom(2)
  BY <1>1, <1>2, <1>3, SectionsKept
<1>5. MutexBook' /\ mutex' \in Seq(SectionRecord)
  <2>1. CASE mutex' = Tail(mutex)
    BY <1>1, <1>2, <1>3, <1>4, <2>1, MutexAdvanced
  <2>2. CASE mutex' # Tail(mutex)
    <3>1. PICK h \in SectionRecord : h = [mutex[1] EXCEPT !.sort = IF @ = "submit" THEN "submitting" ELSE "resuming"]
      <4>1. "submitting" \in Sorts /\ "resuming" \in Sorts
        BY DEF Sorts
      <4>2. QED BY <1>3, <4>1 DEF SectionRecord
    <3>2. mutex' = [mutex EXCEPT ![1] = h] /\ mutex[1].actor \in actors
      BY <1>3, <2>2, <3>1 DEF AdmissionEnters
    <3>3. /\ h.sort \in {"submitting", "resuming"} /\ h.actor = mutex[1].actor
          /\ h.run = mutex[1].run /\ h.cancel = mutex[1].cancel
      BY <1>3, <3>1 DEF SectionRecord, Sorts
    <3>4. SectionOK(h)'
      BY <1>1, <1>3, <3>2, <3>3 DEF SectionOK, OfRun, OfActor, Begun, Pending
    <3>5. QED BY <1>1, <1>2, <1>3, <1>4, <3>2, <3>3, <3>4, MutexHeadChanged DEF Single
  <2>3. QED BY <2>1, <2>2
<1>6. pendingAdmissions
  BY <1>1, <1>2, <1>3, HeadSection DEF pendingAdmissions
<1>7. LaneBook'
  BY <1>1, LaneBookKept DEF SchedulerInv
<1>8. IdleBook'
  BY <1>1, <1>2, <1>6, <1>7, IdleNotified DEF SchedulerInv, IdleBook
<1>9. idle' \in {"none", "waiting", "resolved"}
  BY <1>1, <1>2 DEF notifyIdle, TypeOK
<1>10. TypeOK'
  BY <1>1, <1>2, <1>5, <1>9 DEF TypeOK, SectionRecord
<1>11. QED BY <1>1, <1>5, <1>7, <1>8, <1>10, LanesKept

(* What the end of the abort of one run does to the mutex. *)
LEMMA AbortedNextMutex ==
  ASSUME TypeOK, MutexBook, Aborting, NEW r \in Runs, NEW await, AbortedNext(r, await), KeepFrom(2)
  PROVE  /\ MutexBook' /\ mutex' \in Seq(SectionRecord) /\ (pendingAdmissions' <=> pendingAdmissions)
         /\ awaited' \in [Actors -> SUBSET Runs]
<1>1. /\ Head(mutex) = mutex[1] /\ mutex[1] \in SectionRecord /\ SectionOK(mutex[1]) /\ mutex \in Seq(SectionRecord)
      /\ mutex # <<>> /\ mutex[1].sort \in {"abort", "retiring", "abortingAll"} /\ Len(mutex) \in Nat \ {0}
  BY HeadSection DEF Aborting, Holds
<1>2. PICK h \in SectionRecord : h = [mutex[1] EXCEPT !.todo = @ \ {r}, !.cancel = NoRun]
  BY <1>1 DEF SectionRecord
<1>3. mutex' = [mutex EXCEPT ![1] = h]
  BY <1>1, <1>2 DEF AbortedNext
<1>4. /\ h.sort = mutex[1].sort /\ h.actor = mutex[1].actor /\ h.run = mutex[1].run
      /\ h.cancel = NoRun
  BY <1>1, <1>2 DEF SectionRecord
<1>5. SectionOK(h)'
  BY <1>1, <1>4 DEF SectionOK, OfRun, OfActor, Begun, Pending
<1>6. MutexBook' /\ mutex' \in Seq(SectionRecord) /\ (pendingAdmissions' <=> pendingAdmissions)
  BY <1>1, <1>3, <1>4, <1>5, MutexHeadChanged DEF Single, Pending
<1>7. awaited' \in [Actors -> SUBSET Runs]
  BY RuntimeAssumption DEF AbortedNext, TypeOK
<1>8. QED BY <1>6, <1>7

LEMMA AbortSkipsKeeps ==
  ASSUME SchedulerInv, NEW r \in Runs, AbortSkips(r)
  PROVE  SchedulerInv'
<1>1. /\ UNCHANGED <<host, accepting, aborting, idle, actors, registering, retirement, state, kind, queue, active, readyKeys,
                     readySet, queuedRuns, activeActors, pumping, agent, deferred, abandoning, canon, starts>>
      /\ Aborting /\ AbortedNext(r, TRUE) /\ TypeOK /\ MutexBook /\ mutex \in Seq(SectionRecord)
  BY DEF AbortSkips, AbortTurn, admission, lanes, ready, counters, agents, stored, SchedulerInv, TypeOK, SectionRecord
<1>2. MutexBook' /\ mutex' \in Seq(SectionRecord) /\ (pendingAdmissions' <=> pendingAdmissions)
      /\ awaited' \in [Actors -> SUBSET Runs]
  BY <1>1, AbortedNextMutex, SectionsKept
<1>3. TypeOK'
  BY <1>1, <1>2 DEF TypeOK, SectionRecord
<1>4. QED BY <1>1, <1>2, <1>3, QuietKept

LEMMA AbortEveryRunKeeps ==
  ASSUME SchedulerInv, abortEveryRun
  PROVE  SchedulerInv'
<1>1. /\ UNCHANGED <<host, accepting, aborting, idle, actors, registering, retirement, awaited, state, kind, queue, active,
                     readyKeys, readySet, queuedRuns, activeActors, pumping, agent, deferred, abandoning, canon, starts>>
      /\ mutex # <<>> /\ Head(mutex).sort = "abortAll" /\ TypeOK /\ MutexBook
      /\ mutex' = [mutex EXCEPT ![1].sort = "abortingAll", ![1].todo = everyRun]
  BY DEF abortEveryRun, Holds, admission, registry, lanes, ready, counters, agents, stored, SchedulerInv
<1>2. Head(mutex) = mutex[1] /\ mutex[1] \in SectionRecord /\ SectionOK(mutex[1]) /\ mutex \in Seq(SectionRecord)
  BY <1>1, HeadSection
<1>3. everyRun \subseteq Runs
  BY DEF everyRun, RunsOf
<1>4. PICK h \in SectionRecord : h = [mutex[1] EXCEPT !.sort = "abortingAll", !.todo = everyRun]
  BY <1>2, <1>3 DEF SectionRecord, Sorts
<1>5. mutex' = [mutex EXCEPT ![1] = h]
  BY <1>1, <1>2, <1>4
<1>6. /\ h.sort = "abortingAll" /\ h.actor = mutex[1].actor /\ h.run = mutex[1].run
      /\ h.cancel = mutex[1].cancel
  BY <1>2, <1>4 DEF SectionRecord, Sorts
<1>7. SectionOK(h)'
  BY <1>1, <1>2, <1>6 DEF SectionOK, OfRun, OfActor, Begun, Pending
<1>8. MutexBook' /\ mutex' \in Seq(SectionRecord) /\ (pendingAdmissions' <=> pendingAdmissions)
  BY <1>1, <1>2, <1>5, <1>6, <1>7, MutexHeadChanged, SectionsKept DEF Single, Pending
<1>9. TypeOK'
  BY <1>1, <1>8 DEF TypeOK, SectionRecord
<1>10. QED BY <1>1, <1>8, <1>9, QuietKept

LEMMA AbortsDoneKeeps ==
  ASSUME SchedulerInv, AbortsDone
  PROVE  SchedulerInv'
<1>1. /\ UNCHANGED <<host, accepting, aborting, idle, actors, registering, awaited, state, kind, queue, active,
                     readyKeys, readySet, queuedRuns, activeActors, pumping, agent, deferred, abandoning, canon, starts>>
      /\ mutex # <<>> /\ Head(mutex).sort \in {"abort", "retiring", "abortingAll"} /\ TypeOK /\ MutexBook
      /\ mutex' = Tail(mutex)
  BY DEF AbortsDone, Aborting, Holds, admission, lanes, ready, counters, agents, stored, SchedulerInv
<1>2. Head(mutex) = mutex[1] /\ mutex[1] \in SectionRecord /\ SectionOK(mutex[1]) /\ mutex \in Seq(SectionRecord)
  BY <1>1, HeadSection
<1>3. MutexBook' /\ mutex' \in Seq(SectionRecord) /\ (pendingAdmissions' <=> pendingAdmissions)
  BY <1>1, <1>2, MutexAdvanced, SectionsKept DEF Pending
<1>4. CASE Head(mutex).sort = "retiring"
  <2>1. mutex[1].actor \in Actors /\ retirement' = [retirement EXCEPT ![mutex[1].actor] = "awaiting"]
    BY <1>2, <1>4 DEF AbortsDone, SectionOK, OfActor
  <2>2. retirement' \in [Actors -> {"none", "queued", "awaiting", "releasing", "finishing"}]
    BY <1>1, <2>1 DEF TypeOK
  <2>3. retirement'[mutex[1].actor] # "none"
    BY <1>1, <2>1 DEF TypeOK
  <2>4. TypeOK'
    BY <1>1, <1>3, <2>2 DEF TypeOK, SectionRecord
  <2>5. IdleBook' /\ LaneBook'
    BY <1>1, <1>3, <2>1, <2>3, IdleBookRetiring, LaneBookKept DEF SchedulerInv
  <2>6. QED BY <1>1, <1>3, <2>4, <2>5, LanesKept
<1>5. CASE Head(mutex).sort # "retiring"
  <2>1. UNCHANGED retirement
    BY <1>5 DEF AbortsDone
  <2>2. TypeOK'
    BY <1>1, <1>3, <2>1 DEF TypeOK, SectionRecord
  <2>3. QED BY <1>1, <1>3, <2>1, <2>2, QuietKept
<1>6. QED BY <1>4, <1>5

LEMMA ReadySectionKeeps ==
  ASSUME SchedulerInv, ReadySection
  PROVE  SchedulerInv'
<1>1. /\ UNCHANGED <<host, accepting, aborting, idle, actors, registering, retirement, awaited, state, kind, queue, active,
                     queuedRuns, activeActors, agent, deferred, abandoning, canon, starts>>
      /\ mutex # <<>> /\ Head(mutex).sort = "ready" /\ TypeOK /\ MutexBook
      /\ mutex' = Tail(mutex) /\ pumping' = TRUE /\ markReady(readyKeys, readySet, Head(mutex).actor)
  BY DEF ReadySection, Holds, admission, registry, lanes, counters, agents, stored, SchedulerInv
<1>2. Head(mutex) = mutex[1] /\ mutex[1] \in SectionRecord /\ SectionOK(mutex[1]) /\ mutex \in Seq(SectionRecord)
  BY <1>1, HeadSection
<1>3. MutexBook' /\ mutex' \in Seq(SectionRecord) /\ (pendingAdmissions' <=> pendingAdmissions)
  BY <1>1, <1>2, MutexAdvanced, SectionsKept DEF Pending
<1>4. mutex[1].actor \in Actors
  BY <1>1, <1>2 DEF SectionOK, OfActor
<1>5. readyKeys' \in Seq(Actors) /\ readySet' \in SUBSET Actors
  <2>1. readyKeys \in Seq(Actors) /\ readySet \in SUBSET Actors
    BY <1>1 DEF TypeOK
  <2>2. markReady(readyKeys, readySet, mutex[1].actor)
    BY <1>1, <1>2
  <2>3. QED BY <1>4, <2>1, <2>2, ReadyTypes
<1>6. TypeOK'
  BY <1>1, <1>3, <1>5 DEF TypeOK, SectionRecord
<1>7. QED BY <1>1, <1>3, <1>6, QuietKept

(* Admission stops, or every run is to be aborted. *)
LEMMA AdmissionStops ==
  ASSUME SchedulerInv, stopAdmission \/ abortAll
  PROVE  SchedulerInv'
<1> DEFINE s == Section("abortAll", NoActor, NoRun)
<1>1. /\ UNCHANGED <<host, actors, registering, retirement, awaited, state, kind, queue, active, readyKeys, readySet,
                     queuedRuns, activeActors, pumping, agent, deferred, abandoning, canon, starts>>
      /\ accepting' = FALSE /\ aborting' \in BOOLEAN /\ mutex' \in {mutex, Append(mutex, s)}
      /\ idle' = IF ~accepting THEN idle ELSE IF isIdle THEN "resolved" ELSE "waiting"
      /\ TypeOK /\ MutexBook /\ mutex \in Seq(SectionRecord)
  BY DEF stopAdmission, abortAll, registry, lanes, ready, counters, agents, stored, SchedulerInv, TypeOK, SectionRecord
<1>2. /\ s \in SectionRecord /\ s.sort = "abortAll" /\ s.cancel = NoRun
  BY NewSection DEF Sorts
<1> HIDE DEF s
<1>3. SectionOK(s)'
  BY <1>2 DEF SectionOK, OfRun, OfActor, Begun, Pending
<1>4. MutexBook' /\ mutex' \in Seq(SectionRecord) /\ (pendingAdmissions' <=> pendingAdmissions)
  <2>1. CASE mutex' = mutex
    BY <1>1, <2>1, MutexStays, SectionsKept
  <2>2. CASE mutex' = Append(mutex, s)
    BY <1>1, <1>2, <1>3, <2>2, MutexAppended, SectionsKept DEF Begun, Single, Pending
  <2>3. QED BY <1>1, <2>1, <2>2
<1>5. LaneBook' /\ TypeOK'
  BY <1>1, <1>4, LaneBookKept DEF SchedulerInv, TypeOK, SectionRecord
<1>6. IdleBook'
  <2>1. isIdle' <=> isIdle
    BY <1>1, <1>4 DEF isIdle, Retiring, RunsOf, Live, Unstarted
  <2>2. \A r \in Runs : Live(r)' <=> Live(r)
    BY <1>1 DEF Live, Unstarted
  <2>3. isIdle => \A r \in Runs : ~Live(r)
    BY DEF isIdle, SchedulerInv, LaneBook, RunsOf
  <2>4. isIdle => ~pendingAdmissions
    BY DEF isIdle
  <2>5. QED BY <1>1, <1>4, <2>1, <2>2, <2>3, <2>4 DEF SchedulerInv, IdleBook
<1>7. QED BY <1>1, <1>4, <1>5, <1>6, LanesKept

LEMMA RegistrationKeeps ==
  ASSUME SchedulerInv,
         \/ \E batch \in SUBSET host.reregistered : registerActors(batch)
         \/ \E batch \in registering : RegistrationEnds(batch)
  PROVE  SchedulerInv'
<1>1. /\ UNCHANGED <<host, accepting, aborting, retirement, awaited, state, kind, queue, active, readyKeys, readySet,
                     queuedRuns, activeActors, pumping, mutex, agent, deferred, abandoning, canon, starts>>
      /\ TypeOK /\ MutexBook /\ mutex \in Seq(SectionRecord)
  BY DEF registerActors, RegistrationEnds, admission, lanes, ready, counters, agents, stored, SchedulerInv, TypeOK,
         SectionRecord
<1>2. /\ actors \subseteq actors' /\ actors' \subseteq Actors /\ registering' \subseteq SUBSET Actors
      /\ idle' \in {"none", "waiting", "resolved"}
  <2>1. ASSUME NEW batch \in SUBSET host.reregistered, registerActors(batch)
        PROVE  /\ UNCHANGED <<actors, idle>> /\ registering' \subseteq SUBSET Actors
    BY <1>1, <2>1, HostTypes DEF registerActors, TypeOK
  <2>2. ASSUME NEW batch \in registering, RegistrationEnds(batch)
        PROVE  /\ actors \subseteq actors' /\ actors' \subseteq Actors /\ registering' \subseteq SUBSET Actors
               /\ idle' \in {"none", "waiting", "resolved"}
    <3>1. registering' = registering \ {batch} /\ (actors' = actors \cup batch \/ UNCHANGED actors) /\ notifyIdle
      BY <2>2 DEF RegistrationEnds
    <3>2. idle' \in {"none", "waiting", "resolved"}
      BY <1>1, <3>1 DEF notifyIdle, TypeOK
    <3>3. QED BY <1>1, <3>1, <3>2 DEF TypeOK
  <2>3. QED BY <1>1, <2>1, <2>2 DEF TypeOK
<1>3. KeepFrom(1)
  <2>1. \A t \in SectionRecord : SectionOK(t) => SectionOK(t)'
    BY <1>1, <1>2 DEF SectionOK
  <2>2. QED BY <1>1, <2>1 DEF MutexBook, KeepFrom
<1>4. MutexBook' /\ (pendingAdmissions' <=> pendingAdmissions)
  BY <1>1, <1>3, MutexStays
<1>5. TypeOK'
  BY <1>1, <1>2 DEF TypeOK
<1>6. \A r \in Runs : Live(r)' <=> Live(r)
  BY <1>1 DEF Live, Unstarted
<1>7. LaneBook'
  BY <1>1, <1>2, <1>6 DEF SchedulerInv, LaneBook
<1>8. IdleBook'
  <2>1. CASE \E batch \in SUBSET host.reregistered : registerActors(batch)
    BY <1>1, <2>1, IdleBookOpen DEF registerActors, SchedulerInv
  <2>2. CASE \E batch \in registering : RegistrationEnds(batch)
    BY <1>1, <1>4, <1>6, <1>7, <2>2, IdleNotified DEF RegistrationEnds, SchedulerInv, IdleBook
  <2>3. QED BY <2>1, <2>2
<1>9. QED BY <1>1, <1>4, <1>5, <1>7, <1>8, LanesKept

LEMMA RetirementRequested ==
  ASSUME SchedulerInv,
         (\E a \in host.retirable : retireActor(a)) \/ (\E a \in Actors : RetireContinues(a))
  PROVE  SchedulerInv'
<1>1. PICK a \in Actors, sort \in {"retire", "release"}, stage \in {"queued", "releasing"} :
        /\ mutex' = Append(mutex, Section(sort, a, NoRun))
        /\ retirement' = [retirement EXCEPT ![a] = stage]
  BY HostTypes DEF retireActor, RetireContinues, SchedulerInv
<1>2. /\ UNCHANGED <<host, accepting, aborting, idle, actors, registering, state, kind, queue, active, readyKeys, readySet,
                     queuedRuns, activeActors, pumping, agent, deferred, abandoning, canon, starts>>
      /\ TypeOK /\ MutexBook /\ mutex \in Seq(SectionRecord)
  BY DEF retireActor, RetireContinues, admission, lanes, ready, counters, agents, stored, SchedulerInv, TypeOK,
         SectionRecord
<1>3. awaited' \in [Actors -> SUBSET Runs]
  BY <1>2 DEF retireActor, RetireContinues, TypeOK
<1>4. retirement' \in [Actors -> {"none", "queued", "awaiting", "releasing", "finishing"}] /\ retirement'[a] # "none"
  BY <1>1, <1>2 DEF TypeOK
<1>5. PICK s \in SectionRecord : s = Section(sort, a, NoRun) /\ s.sort = sort /\ s.actor = a /\ s.cancel = NoRun
  BY NewSection DEF Sorts
<1>6. SectionOK(s)'
  BY <1>5 DEF SectionOK, OfRun, OfActor, Begun, Pending
<1>7. MutexBook' /\ mutex' \in Seq(SectionRecord) /\ (pendingAdmissions' <=> pendingAdmissions)
  BY <1>1, <1>2, <1>5, <1>6, MutexAppended, SectionsKept DEF Begun, Single, Pending
<1>8. TypeOK'
  BY <1>2, <1>3, <1>4, <1>7 DEF TypeOK, SectionRecord
<1>9. IdleBook' /\ LaneBook'
  BY <1>2, <1>4, <1>7, IdleBookRetiring, LaneBookKept DEF SchedulerInv
<1>10. QED BY <1>2, <1>7, <1>8, <1>9, LanesKept

LEMMA RetireSectionKeeps ==
  ASSUME SchedulerInv, RetireSection
  PROVE  SchedulerInv'
<1>1. /\ UNCHANGED <<host, accepting, aborting, idle, actors, registering, awaited, state, kind, queue, active, readyKeys,
                     readySet, queuedRuns, activeActors, pumping, agent, deferred, abandoning, canon, starts>>
      /\ mutex # <<>> /\ Head(mutex).sort = "retire" /\ TypeOK /\ MutexBook
  BY DEF RetireSection, Holds, admission, lanes, ready, counters, agents, stored, SchedulerInv
<1>2. Head(mutex) = mutex[1] /\ mutex[1] \in SectionRecord /\ SectionOK(mutex[1]) /\ mutex \in Seq(SectionRecord)
  BY <1>1, HeadSection
<1>3. mutex[1].actor \in Actors
  BY <1>1, <1>2 DEF SectionOK, OfActor
<1>4. CASE /\ retirement' = [retirement EXCEPT ![mutex[1].actor] = "finishing"]
           /\ mutex' = Append(Tail(mutex), Section("unretire", mutex[1].actor, NoRun))
  <2>1. PICK s \in SectionRecord :
          /\ s = Section("unretire", mutex[1].actor, NoRun) /\ s.sort = "unretire" /\ s.actor = mutex[1].actor
          /\ s.cancel = NoRun
    BY <1>3, NewSection DEF Sorts
  <2>2. SectionOK(s)'
    BY <1>3, <2>1 DEF SectionOK, OfRun, OfActor, Begun, Pending
  <2>3. MutexBook' /\ mutex' \in Seq(SectionRecord) /\ (pendingAdmissions' <=> pendingAdmissions)
    BY <1>1, <1>2, <1>4, <2>1, <2>2, MutexRequeued, SectionsKept DEF Begun, Single, Pending
  <2>4. /\ retirement' \in [Actors -> {"none", "queued", "awaiting", "releasing", "finishing"}]
        /\ retirement'[mutex[1].actor] # "none"
    BY <1>1, <1>3, <1>4 DEF TypeOK
  <2>5. TypeOK'
    BY <1>1, <2>3, <2>4 DEF TypeOK, SectionRecord
  <2>6. IdleBook' /\ LaneBook'
    BY <1>1, <1>3, <2>3, <2>4, IdleBookRetiring, LaneBookKept DEF SchedulerInv
  <2>7. QED BY <1>1, <2>3, <2>5, <2>6, LanesKept
<1>5. CASE /\ mutex' = [mutex EXCEPT ![1].sort = "retiring", ![1].todo = RunsOf(mutex[1].actor)]
           /\ UNCHANGED retirement
  <2>1. RunsOf(mutex[1].actor) \subseteq Runs
    BY DEF RunsOf
  <2>2. PICK h \in SectionRecord : h = [mutex[1] EXCEPT !.sort = "retiring", !.todo = RunsOf(mutex[1].actor)]
    BY <1>2, <2>1 DEF SectionRecord, Sorts
  <2>3. /\ mutex' = [mutex EXCEPT ![1] = h] /\ h.sort = "retiring" /\ h.actor = mutex[1].actor
        /\ h.cancel = mutex[1].cancel
    BY <1>2, <1>5, <2>2 DEF SectionRecord
  <2>4. SectionOK(h)'
    BY <1>1, <1>2, <1>3, <2>3 DEF SectionOK, OfRun, OfActor, Begun, Pending
  <2>5. MutexBook' /\ mutex' \in Seq(SectionRecord) /\ (pendingAdmissions' <=> pendingAdmissions)
    BY <1>1, <1>2, <2>3, <2>4, MutexHeadChanged, SectionsKept DEF Single, Pending
  <2>6. TypeOK'
    BY <1>1, <1>5, <2>5 DEF TypeOK, SectionRecord
  <2>7. QED BY <1>1, <1>5, <2>5, <2>6, QuietKept
<1>6. QED BY <1>2, <1>4, <1>5 DEF RetireSection

(* Only an actor without live runs is released. *)
LEMMA ReleaseSectionKeeps ==
  ASSUME SchedulerInv, ReleaseSection
  PROVE  SchedulerInv'
<1>1. /\ UNCHANGED <<host, accepting, aborting, idle, registering, awaited, state, kind, queue, active, readyKeys,
                     queuedRuns, activeActors, agent, deferred, abandoning, canon, starts>>
      /\ mutex # <<>> /\ Head(mutex).sort = "release" /\ TypeOK /\ MutexBook
  BY DEF ReleaseSection, Holds, admission, lanes, counters, agents, stored, SchedulerInv
<1>2. Head(mutex) = mutex[1] /\ mutex[1] \in SectionRecord /\ SectionOK(mutex[1]) /\ mutex \in Seq(SectionRecord)
  BY <1>1, HeadSection
<1>3. mutex[1].actor \in Actors
  BY <1>1, <1>2 DEF SectionOK, OfActor
<1> DEFINE a == mutex[1].actor
<1>4. /\ mutex' = Append(Tail(mutex), Section("unretire", a, NoRun))
      /\ retirement' = [retirement EXCEPT ![a] = "finishing"]
      /\ actors' = actors \/ (actors' = actors \ {a} /\ RunsOf(a) = {})
      /\ readySet' \subseteq readySet /\ pumping' \in BOOLEAN
  BY <1>1, <1>2 DEF ReleaseSection, isActorIdle, TypeOK
<1>5. PICK s \in SectionRecord :
        /\ s = Section("unretire", a, NoRun) /\ s.sort = "unretire" /\ s.actor = a /\ s.cancel = NoRun
  BY <1>3, NewSection DEF Sorts
<1>6. SectionOK(s)'
  BY <1>3, <1>5 DEF SectionOK, OfRun, OfActor, Begun, Pending
<1>7. KeepFrom(2)
  <2>1. \A t \in SectionRecord : SectionOK(t) /\ t.sort \notin Begun => SectionOK(t)'
    BY <1>1 DEF SectionOK
  <2>2. Len(mutex) \in Nat
    BY <1>2, LenProperties
  <2>3. QED BY <1>1, <2>1, <2>2 DEF MutexBook, KeepFrom
<1>8. MutexBook' /\ mutex' \in Seq(SectionRecord) /\ (pendingAdmissions' <=> pendingAdmissions)
  BY <1>1, <1>2, <1>4, <1>5, <1>6, <1>7, MutexRequeued DEF Begun, Single, Pending
<1>9. /\ retirement' \in [Actors -> {"none", "queued", "awaiting", "releasing", "finishing"}]
      /\ retirement'[a] # "none"
  BY <1>1, <1>3, <1>4 DEF TypeOK
<1>10. TypeOK'
  BY <1>1, <1>4, <1>8, <1>9 DEF TypeOK, SectionRecord
<1>11. IdleBook'
  BY <1>1, <1>3, <1>8, <1>9, IdleBookRetiring DEF SchedulerInv
<1>12. LaneBook'
  <2>1. \A r \in Runs : Live(r)' <=> Live(r)
    BY <1>1 DEF Live, Unstarted
  <2>2. \A r \in Runs : Live(r) => ActorOf[r] \in actors'
    BY <1>4 DEF SchedulerInv, LaneBook, RunsOf
  <2>3. QED BY <1>1, <2>1, <2>2 DEF SchedulerInv, LaneBook
<1>13. QED BY <1>1, <1>8, <1>10, <1>11, <1>12, LanesKept

LEMMA UnretireSectionKeeps ==
  ASSUME SchedulerInv, UnretireSection
  PROVE  SchedulerInv'
<1>1. /\ UNCHANGED <<host, accepting, aborting, actors, registering, awaited, state, kind, queue, active,
                     queuedRuns, activeActors, agent, deferred, abandoning, canon, starts>>
      /\ mutex # <<>> /\ Head(mutex).sort = "unretire" /\ TypeOK /\ MutexBook /\ mutex' = Tail(mutex)
      /\ pumping' = TRUE /\ notifyIdle
  BY DEF UnretireSection, Holds, admission, lanes, counters, agents, stored, SchedulerInv
<1>2. Head(mutex) = mutex[1] /\ mutex[1] \in SectionRecord /\ SectionOK(mutex[1]) /\ mutex \in Seq(SectionRecord)
  BY <1>1, HeadSection
<1>3. mutex[1].actor \in Actors
  BY <1>1, <1>2 DEF SectionOK, OfActor
<1>4. MutexBook' /\ mutex' \in Seq(SectionRecord) /\ (pendingAdmissions' <=> pendingAdmissions)
  BY <1>1, <1>2, MutexAdvanced, SectionsKept DEF Pending
<1>5. readyKeys' \in Seq(Actors) /\ readySet' \in SUBSET Actors
  <2>1. CASE markReady(readyKeys, readySet, mutex[1].actor)
    BY <1>1, <1>3, <2>1, ReadyTypes DEF TypeOK
  <2>2. CASE UNCHANGED ready
    BY <1>1, <2>2 DEF TypeOK, ready
  <2>3. QED BY <1>2, <2>1, <2>2 DEF UnretireSection
<1>6. retirement' \in [Actors -> {"none", "queued", "awaiting", "releasing", "finishing"}]
  BY <1>1 DEF UnretireSection, TypeOK
<1>7. idle' \in {"none", "waiting", "resolved"}
  BY <1>1 DEF notifyIdle, TypeOK
<1>8. TypeOK'
  BY <1>1, <1>4, <1>5, <1>6, <1>7 DEF TypeOK, SectionRecord
<1>9. LaneBook'
  BY <1>1, LaneBookKept DEF SchedulerInv
<1>10. \A r \in Runs : Live(r)' <=> Live(r)
  BY <1>1 DEF Live, Unstarted
<1>11. IdleBook'
  BY <1>1, <1>4, <1>9, <1>10, IdleNotified DEF SchedulerInv, IdleBook
<1>12. QED BY <1>1, <1>4, <1>8, <1>9, <1>11, LanesKept

-----------------------------------------------------------------------------
(* The agents *)

(* The event store learns nothing of an unknown run and forgets none. *)
Recorded == \A r \in Runs : canon'[r] = "none" <=> canon[r] = "none"

LEMMA EventAppended ==
  ASSUME TypeOK, NEW r \in Runs, canon[r] # "none", NEW status \in {"open", "deferred", "ended"},
         appendEvent(r, status) \/ canon' = [canon EXCEPT ![r] = status]
  PROVE  canon' \in [Runs -> {"none", "open", "deferred", "ended"}] /\ Recorded
<1>1. CASE canon' = [canon EXCEPT ![r] = status]
  BY <1>1 DEF TypeOK, Recorded
<1>2. CASE UNCHANGED canon
  BY <1>2 DEF TypeOK, Recorded
<1>3. QED BY <1>1, <1>2 DEF appendEvent

(* Only agents, their pending operations and the event store change. *)
LEMMA AgentKept ==
  ASSUME SchedulerInv, TypeOK', MutexBook', ActorBook', Recorded, pendingAdmissions' <=> pendingAdmissions,
         UNCHANGED <<accepting, idle, actors, registering, retirement, state, kind, queue, active,
                     queuedRuns, activeActors, starts>>
  PROVE  SchedulerInv'
<1>1. RunBook'
  BY DEF SchedulerInv, RunBook, RunOK, Recorded
<1>2. QED BY <1>1, LaneBookKept, CapacityKept, IdleBookKept DEF SchedulerInv

(* The run of a working agent. *)
LEMMA WorkingAgent ==
  ASSUME SchedulerInv, NEW a \in Actors, agent[a] # "idle"
  PROVE  /\ active[a] \in Runs /\ ActorOf[active[a]] = a /\ state[active[a]] = "active"
         /\ canon[active[a]] # "none"
<1>1. active[a] \in Runs
  BY DEF SchedulerInv, TypeOK, ActorBook, ActorOK
<1>2. ActorOf[active[a]] = a /\ state[active[a]] = "active"
  BY <1>1 DEF SchedulerInv, LaneBook
<1>3. QED BY <1>1, <1>2 DEF SchedulerInv, RunBook, RunOK

LEMMA AgentPendsKeeps ==
  ASSUME SchedulerInv, NEW a \in Actors, AgentDefers(a) \/ AgentFetches(a)
  PROVE  SchedulerInv'
<1>1. /\ UNCHANGED <<host, accepting, aborting, idle, actors, registering, retirement, awaited, state, kind, queue, active,
                     readyKeys, readySet, queuedRuns, activeActors, pumping, mutex, agent, abandoning, canon, starts>>
      /\ agent[a] # "idle" /\ \E op \in {active[a], NoRun} : deferred' = [deferred EXCEPT ![a] = op]
      /\ TypeOK /\ MutexBook /\ mutex \in Seq(SectionRecord)
  BY DEF AgentDefers, AgentFetches, admission, registry, lanes, ready, counters, stored, SchedulerInv, TypeOK,
         SectionRecord
<1>2. /\ active[a] \in Runs /\ ActorOf[active[a]] = a /\ canon[active[a]] # "none"
  BY <1>1, WorkingAgent
<1>3. MutexBook' /\ (pendingAdmissions' <=> pendingAdmissions)
  BY <1>1, MutexStays, SectionsKept
<1>4. TypeOK'
  BY <1>1, <1>2 DEF TypeOK
<1>5. ActorBook'
  BY <1>1, <1>2 DEF SchedulerInv, TypeOK, ActorBook, ActorOK
<1>6. QED BY <1>1, <1>3, <1>4, <1>5, AgentKept DEF Recorded

(* The run of an agent ends, or the agent has refused it. *)
LEMMA AgentEndsKeeps ==
  ASSUME SchedulerInv, NEW a \in Actors, AgentEnds(a) \/ finishStartFailure(a)
  PROVE  SchedulerInv'
<1> DEFINE r == active[a]
<1>1. /\ UNCHANGED <<host, accepting, aborting, idle, actors, registering, retirement, awaited, state, kind, queue, active,
                     readyKeys, readySet, queuedRuns, activeActors, pumping, deferred, abandoning, starts>>
      /\ agent[a] # "idle" /\ agent' = [agent EXCEPT ![a] = "idle"]
      /\ mutex' = Append(mutex, Section("finish", a, r))
      /\ TypeOK /\ MutexBook /\ mutex \in Seq(SectionRecord)
  BY DEF AgentEnds, finishStartFailure, admission, registry, lanes, ready, counters, SchedulerInv, TypeOK,
         SectionRecord
<1>2. /\ r \in Runs /\ ActorOf[r] = a /\ canon[r] # "none"
  BY <1>1, WorkingAgent
<1>3. canon' \in [Runs -> {"none", "open", "deferred", "ended"}] /\ Recorded
  <2>1. CASE AgentEnds(a)
    <3>1. PICK status \in {"open", "deferred", "ended", canon[r]} : canon' = [canon EXCEPT ![r] = status]
      BY <2>1 DEF AgentEnds, EndOf
    <3>2. status \in {"open", "deferred", "ended"}
      BY <1>1, <1>2, <3>1 DEF TypeOK
    <3>3. QED BY <1>1, <1>2, <3>1, <3>2, EventAppended
  <2>2. CASE finishStartFailure(a)
    <3>1. UNCHANGED canon \/ appendEvent(r, "ended")
      BY <2>2 DEF finishStartFailure
    <3>2. QED BY <1>1, <1>2, <3>1, EventAppended DEF Recorded, TypeOK
  <2>3. QED BY <2>1, <2>2
<1>4. PICK s \in SectionRecord :
        s = Section("finish", a, r) /\ s.sort = "finish" /\ s.actor = a /\ s.run = r /\ s.cancel = NoRun
  BY <1>2, NewSection DEF Sorts
<1>5. agent' \in [Actors -> {"idle", "running", "aborting", "refused"}] /\ agent'[a] = "idle"
  BY <1>1 DEF TypeOK
<1>6. SectionOK(s)'
  BY <1>1, <1>2, <1>4, <1>5 DEF SectionOK, OfRun, OfActor, Begun, Pending
<1>7. KeepFrom(1)
  <2>1. \A t \in SectionRecord : SectionOK(t) => SectionOK(t)'
    BY <1>1, RuntimeAssumption DEF SectionOK, OfRun, TypeOK
  <2>2. QED BY <1>1, <2>1 DEF MutexBook, KeepFrom
<1>8. \A i \in 1 .. Len(mutex) : mutex[i].sort = "finish" => mutex[i].actor # a
  BY <1>1 DEF MutexBook, SectionOK
<1>9. MutexBook' /\ mutex' \in Seq(SectionRecord) /\ (pendingAdmissions' <=> pendingAdmissions)
  BY <1>1, <1>4, <1>6, <1>7, <1>8, MutexAppended DEF Begun, Pending
<1>10. TypeOK'
  BY <1>1, <1>3, <1>5, <1>9 DEF TypeOK, SectionRecord
<1>11. ActorBook'
  BY <1>1, <1>3 DEF SchedulerInv, TypeOK, ActorBook, ActorOK, Recorded
<1>12. QED BY <1>1, <1>3, <1>9, <1>10, <1>11, AgentKept

LEMMA AbortActiveKeeps ==
  ASSUME SchedulerInv, NEW r \in Runs, AbortActive(r)
  PROVE  SchedulerInv'
<1>1. /\ UNCHANGED <<host, accepting, aborting, idle, actors, registering, retirement, state, kind, queue, active, readyKeys,
                     readySet, queuedRuns, activeActors, pumping, deferred, abandoning, canon, starts>>
      /\ Aborting /\ (\E await \in BOOLEAN : AbortedNext(r, await)) /\ TypeOK /\ MutexBook /\ mutex \in Seq(SectionRecord)
  BY DEF AbortActive, AbortTurn, admission, lanes, ready, counters, stored, SchedulerInv, TypeOK, SectionRecord
<1>2. /\ agent' \in [Actors -> {"idle", "running", "aborting", "refused"}]
      /\ \A a \in Actors : agent'[a] = "idle" <=> agent[a] = "idle"
  <2>1. \/ UNCHANGED agent
        \/ agent' = [agent EXCEPT ![ActorOf[r]] = IF @ = "running" THEN "aborting" ELSE @]
    BY DEF AbortActive
  <2>2. agent \in [Actors -> {"idle", "running", "aborting", "refused"}]
    BY <1>1 DEF TypeOK
  <2>3. \A a \in Actors : agent'[a] \in {agent[a], "aborting"} /\ (agent[a] = "idle" => agent'[a] = "idle")
    BY <2>1, <2>2
  <2>4. DOMAIN agent' = Actors /\ agent' = [a \in Actors |-> agent'[a]]
    BY <2>1, <2>2
  <2>5. QED BY <2>2, <2>3, <2>4
<1>3. KeepFrom(2)
  <2>1. \A t \in SectionRecord : SectionOK(t) => SectionOK(t)'
    BY <1>1, <1>2, RuntimeAssumption DEF SectionOK, OfRun
  <2>2. QED BY <1>1, <2>1, LenProperties DEF MutexBook, KeepFrom
<1>4. MutexBook' /\ mutex' \in Seq(SectionRecord) /\ (pendingAdmissions' <=> pendingAdmissions)
      /\ awaited' \in [Actors -> SUBSET Runs]
  BY <1>1, <1>3, AbortedNextMutex
<1>5. TypeOK'
  BY <1>1, <1>2, <1>4 DEF TypeOK, SectionRecord
<1>6. ActorBook'
  BY <1>1, <1>2 DEF SchedulerInv, ActorBook, ActorOK
<1>7. QED BY <1>1, <1>4, <1>5, <1>6, AgentKept DEF Recorded

LEMMA AbandonRequested ==
  ASSUME SchedulerInv, NEW a \in Actors, abandonDeferred(a)
  PROVE  SchedulerInv'
<1> DEFINE r == deferred[a]
<1>1. /\ UNCHANGED <<host, accepting, aborting, idle, actors, registering, retirement, awaited, state, kind, queue, active,
                     readyKeys, readySet, queuedRuns, activeActors, pumping, agent, deferred, canon, starts>>
      /\ r # NoRun /\ abandoning[a] = NotAbandoning
      /\ abandoning' = [abandoning EXCEPT ![a] = [stage |-> "queued", run |-> r]]
      /\ mutex' = Append(mutex, Section("abandon", a, r))
      /\ TypeOK /\ MutexBook /\ mutex \in Seq(SectionRecord)
  BY DEF abandonDeferred, admission, registry, lanes, ready, counters, stored, SchedulerInv, TypeOK, SectionRecord
<1>2. r \in Runs /\ ActorOf[r] = a /\ canon[r] # "none"
  BY <1>1 DEF SchedulerInv, TypeOK, ActorBook, ActorOK
<1>3. PICK s \in SectionRecord :
        s = Section("abandon", a, r) /\ s.sort = "abandon" /\ s.actor = a /\ s.run = r /\ s.cancel = NoRun
  BY <1>2, NewSection DEF Sorts
<1>4. abandoning'[a] = [stage |-> "queued", run |-> r] /\ \A b \in Actors \ {a} : abandoning'[b] = abandoning[b]
  BY <1>1 DEF TypeOK
<1>5. SectionOK(s)'
  BY <1>1, <1>2, <1>3, <1>4 DEF SectionOK, OfRun, OfActor, Begun, Pending
<1>6. abandoning[a].stage = "none"
  BY <1>1 DEF NotAbandoning
<1>7. \A t \in SectionRecord : SectionOK(t) => SectionOK(t)' /\ (t.sort = "abandon" => t.actor # a)
  BY <1>1, <1>4, <1>6, RuntimeAssumption DEF SectionOK, OfRun
<1>8. KeepFrom(1) /\ \A i \in 1 .. Len(mutex) : mutex[i].sort = "abandon" => mutex[i].actor # a
  BY <1>1, <1>7, ElementOfSeq DEF MutexBook, KeepFrom
<1>9. MutexBook' /\ mutex' \in Seq(SectionRecord) /\ (pendingAdmissions' <=> pendingAdmissions)
  BY <1>1, <1>3, <1>5, <1>8, MutexAppended DEF Begun, Pending
<1>10. TypeOK'
  BY <1>1, <1>2, <1>9 DEF TypeOK, SectionRecord
<1>11. ActorBook'
  BY <1>1, <1>2, <1>4 DEF SchedulerInv, ActorBook, ActorOK
<1>12. QED BY <1>1, <1>9, <1>10, <1>11, AgentKept DEF Recorded

LEMMA AgentAbandonsKeeps ==
  ASSUME SchedulerInv, NEW a \in Actors, AgentAbandons(a)
  PROVE  SchedulerInv'
<1>1. /\ UNCHANGED <<host, accepting, aborting, idle, actors, registering, retirement, awaited, state, kind, queue, active,
                     readyKeys, readySet, queuedRuns, activeActors, pumping, mutex, agent, canon, starts>>
      /\ deferred' = [deferred EXCEPT ![a] = NoRun] /\ abandoning[a].stage = "agent"
      /\ abandoning' = [abandoning EXCEPT ![a].stage = "emitting"]
      /\ TypeOK /\ MutexBook /\ mutex \in Seq(SectionRecord)
  BY DEF AgentAbandons, admission, registry, lanes, ready, counters, stored, SchedulerInv, TypeOK, SectionRecord
<1>2. /\ abandoning' \in [Actors -> [stage : {"none", "queued", "agent", "emitting", "local"}, run : Runs \cup {NoRun}]]
      /\ abandoning'[a].stage = "emitting" /\ abandoning'[a].run = abandoning[a].run
      /\ \A b \in Actors \ {a} : abandoning'[b] = abandoning[b]
  BY <1>1 DEF TypeOK
<1>3. KeepFrom(1)
  <2>1. \A t \in SectionRecord : SectionOK(t) => SectionOK(t)'
    BY <1>1, <1>2, RuntimeAssumption DEF SectionOK, OfRun
  <2>2. QED BY <1>1, <2>1 DEF MutexBook, KeepFrom
<1>4. MutexBook' /\ (pendingAdmissions' <=> pendingAdmissions)
  BY <1>1, <1>3, MutexStays
<1>5. deferred' \in [Actors -> Runs \cup {NoRun}]
  BY <1>1 DEF TypeOK
<1>6. TypeOK'
  BY <1>1, <1>2, <1>5 DEF TypeOK
<1>7. ActorBook'
  BY <1>1, <1>2 DEF SchedulerInv, TypeOK, ActorBook, ActorOK
<1>8. QED BY <1>1, <1>4, <1>6, <1>7, AgentKept DEF Recorded

LEMMA AgentAbandonedKeeps ==
  ASSUME SchedulerInv, NEW a \in Actors, AgentAbandoned(a)
  PROVE  SchedulerInv'
<1> DEFINE r == abandoning[a].run
<1>1. /\ UNCHANGED <<host, accepting, aborting, idle, actors, registering, retirement, awaited, state, kind, queue, active,
                     readyKeys, readySet, queuedRuns, activeActors, pumping, agent, deferred, starts>>
      /\ appendEvent(r, "ended") /\ abandoning[a].stage = "emitting"
      /\ abandoning' = [abandoning EXCEPT ![a].stage = "local"]
      /\ mutex' = Append(mutex, Section("abandoned", a, r))
      /\ TypeOK /\ MutexBook /\ mutex \in Seq(SectionRecord)
  BY DEF AgentAbandoned, admission, registry, lanes, ready, counters, SchedulerInv, TypeOK, SectionRecord
<1>2. /\ abandoning' \in [Actors -> [stage : {"none", "queued", "agent", "emitting", "local"}, run : Runs \cup {NoRun}]]
      /\ abandoning'[a] = [stage |-> "local", run |-> r]
      /\ \A b \in Actors \ {a} : abandoning'[b] = abandoning[b]
  BY <1>1 DEF TypeOK
<1>3. r \in Runs /\ ActorOf[r] = a /\ canon[r] # "none"
  BY <1>1 DEF SchedulerInv, ActorBook, ActorOK
<1>4. canon' \in [Runs -> {"none", "open", "deferred", "ended"}] /\ Recorded
  BY <1>1, <1>3, EventAppended
<1>5. PICK s \in SectionRecord :
        s = Section("abandoned", a, r) /\ s.sort = "abandoned" /\ s.actor = a /\ s.run = r /\ s.cancel = NoRun
  BY <1>3, NewSection DEF Sorts
<1>6. SectionOK(s)'
  BY <1>1, <1>2, <1>3, <1>5 DEF SectionOK, OfRun, OfActor, Begun, Pending
<1>7. \A t \in SectionRecord : SectionOK(t) => SectionOK(t)' /\ (t.sort = "abandoned" => t.actor # a)
  BY <1>1, <1>2, RuntimeAssumption DEF SectionOK, OfRun
<1>8. KeepFrom(1) /\ \A i \in 1 .. Len(mutex) : mutex[i].sort = "abandoned" => mutex[i].actor # a
  BY <1>1, <1>7, ElementOfSeq DEF MutexBook, KeepFrom
<1>9. MutexBook' /\ mutex' \in Seq(SectionRecord) /\ (pendingAdmissions' <=> pendingAdmissions)
  BY <1>1, <1>5, <1>6, <1>8, MutexAppended DEF Begun, Pending
<1>10. TypeOK'
  BY <1>1, <1>2, <1>4, <1>9 DEF TypeOK, SectionRecord
<1>11. ActorBook'
  <2>1. ASSUME NEW b \in Actors \ {a} PROVE ActorOK(b)'
    BY <1>1, <1>2, <1>4 DEF SchedulerInv, TypeOK, ActorBook, ActorOK, Recorded
  <2>2. state[r] \notin {"ready", "active"}
    BY <1>1 DEF SchedulerInv, ActorBook, ActorOK
  <2>3. ActorOK(a)'
    BY <1>1, <1>2, <1>3, <1>4, <2>2 DEF SchedulerInv, TypeOK, ActorBook, ActorOK, Recorded
  <2>4. QED BY <2>1, <2>3 DEF ActorBook
<1>12. QED BY <1>1, <1>4, <1>9, <1>10, <1>11, AgentKept

-----------------------------------------------------------------------------
(* A run moves on *)

Prompts == {r \in Runs : kind[r] = "prompt" /\ state[r] \in Unstarted}
Busy == {a \in Actors : active[a] # NoRun}

(* A prompt takes a place in the queue, gives up its own, or neither. *)
LEMMA QueuedCounted ==
  ASSUME TypeOK, CapacityExact, NEW r \in Runs,
         \/ Prompts' = Prompts \cup {r} /\ r \notin Prompts /\ queuedRuns' = queuedRuns + 1
            /\ queuedRuns < MaxQueuedRuns
         \/ Prompts' = Prompts \ {r} /\ queuedRuns' = IF r \in Prompts THEN queuedRuns - 1 ELSE queuedRuns
         \/ Prompts' = Prompts /\ UNCHANGED queuedRuns
  PROVE  queuedRuns' = Cardinality(Prompts') /\ queuedRuns' <= MaxQueuedRuns /\ queuedRuns' \in Nat
<1>1. IsFiniteSet(Prompts) /\ Cardinality(Prompts) \in Nat
  <2>1. IsFiniteSet(Prompts)
    BY RuntimeAssumption, FS_Subset DEF Prompts
  <2>2. QED BY <2>1, FS_CardinalityType
<1>2. queuedRuns = Cardinality(Prompts) /\ queuedRuns <= MaxQueuedRuns /\ queuedRuns \in Nat /\ MaxQueuedRuns \in Nat
  BY RuntimeAssumption DEF CapacityExact, Prompts, TypeOK
<1>3. r \notin Prompts => Cardinality(Prompts \cup {r}) = Cardinality(Prompts) + 1
  BY <1>1, FS_AddElement
<1>4. Cardinality(Prompts \ {r}) = IF r \in Prompts THEN Cardinality(Prompts) - 1 ELSE Cardinality(Prompts)
  BY <1>1, FS_RemoveElement
<1>5. Cardinality(Prompts \ {r}) \in Nat
  BY <1>1, FS_RemoveElement, FS_CardinalityType
<1>6. QED BY <1>2, <1>3, <1>4, <1>5

LEMMA ActiveCounted ==
  ASSUME TypeOK, CapacityExact, NEW a \in Actors,
         \/ Busy' = Busy \cup {a} /\ a \notin Busy /\ activeActors' = activeActors + 1
            /\ activeActors < MaxActiveActors
         \/ Busy' = Busy \ {a} /\ a \in Busy /\ activeActors' = activeActors - 1
  PROVE  activeActors' = Cardinality(Busy') /\ activeActors' <= MaxActiveActors /\ activeActors' \in Nat
<1>1. IsFiniteSet(Busy) /\ Cardinality(Busy) \in Nat
  <2>1. IsFiniteSet(Busy)
    BY RuntimeAssumption, FS_Subset DEF Busy
  <2>2. QED BY <2>1, FS_CardinalityType
<1>2. /\ activeActors = Cardinality(Busy) /\ activeActors <= MaxActiveActors /\ activeActors \in Nat
      /\ MaxActiveActors \in Nat
  BY RuntimeAssumption DEF CapacityExact, Busy, TypeOK
<1>3. a \notin Busy => Cardinality(Busy \cup {a}) = Cardinality(Busy) + 1
  BY <1>1, FS_AddElement
<1>4. a \in Busy => Cardinality(Busy \ {a}) = Cardinality(Busy) - 1
  BY <1>1, FS_RemoveElement
<1>5. Cardinality(Busy \ {a}) \in Nat
  BY <1>1, FS_RemoveElement, FS_CardinalityType
<1>6. CASE Busy' = Busy \cup {a} /\ a \notin Busy /\ activeActors' = activeActors + 1 /\ activeActors < MaxActiveActors
  BY <1>2, <1>3, <1>6
<1>7. CASE Busy' = Busy \ {a} /\ a \in Busy /\ activeActors' = activeActors - 1
  <2>1. activeActors' = Cardinality(Busy')
    BY <1>2, <1>4, <1>7
  <2>2. QED BY <1>2, <1>5, <1>7, <2>1
<1>8. QED BY <1>6, <1>7

(* Runs change places in the queue while the active runs stay. *)
LEMMA CapacityQueued ==
  ASSUME CapacityExact, UNCHANGED <<active, activeActors>>,
         queuedRuns' = Cardinality(Prompts') /\ queuedRuns' <= MaxQueuedRuns
  PROVE  CapacityExact'
  BY DEF CapacityExact, Prompts, Unstarted

(* A run moves on outside the queues. *)
LEMMA LaneBookMoved ==
  ASSUME TypeOK, LaneBook, NEW r \in Runs, NEW status, state' = [state EXCEPT ![r] = status],
         state[r] \notin {"ready", "active"}, status \notin {"ready", "active"},
         Live(r) \/ ActorOf[r] \in actors, UNCHANGED <<queue, active, actors>>
  PROVE  LaneBook'
<1>1. /\ state'[r] = status /\ \A q \in Runs \ {r} : state'[q] = state[q]
      /\ \A q \in Runs : state'[q] \in {"ready", "active"} \/ state[q] \in {"ready", "active"} => state'[q] = state[q]
  BY DEF TypeOK
<1>2. \A q \in Runs : Live(q)' => ActorOf[q] \in actors
  BY <1>1 DEF LaneBook, Live, Unstarted
<1>3. \A a \in Actors : \A i \in 1 .. Len(queue[a]) : ActorOf[queue[a][i]] = a /\ state'[queue[a][i]] = "ready"
  BY <1>1, ElementOfSeq DEF LaneBook, TypeOK
<1>4. \A a \in Actors, q \in Runs : active[a] = q <=> state'[q] = "active" /\ ActorOf[q] = a
  BY <1>1 DEF LaneBook
<1>5. \A q \in Runs : state'[q] = "ready" => \E i \in 1 .. Len(queue[ActorOf[q]]) : queue[ActorOf[q]][i] = q
  BY <1>1 DEF LaneBook
<1>6. QED BY <1>2, <1>3, <1>4, <1>5 DEF LaneBook

(* A run is taken out of its queue, if it is there. *)
LEMMA LaneBookRemoved ==
  ASSUME TypeOK, LaneBook, NEW r \in Runs, NEW status, state' = [state EXCEPT ![r] = status],
         removeQueuedRun(ActorOf[r], r), state[r] # "active", status \notin {"ready", "active"},
         Live(r)' => Live(r), UNCHANGED <<active, actors>>
  PROVE  LaneBook' /\ queue' \in [Actors -> Seq(Runs)]
<1> DEFINE a == ActorOf[r]
           old == queue[a]
<1>1. /\ state'[r] = status /\ \A q \in Runs \ {r} : state'[q] = state[q]
  BY DEF TypeOK
<1>2. a \in Actors /\ old \in Seq(Runs) /\ \A i, j \in 1 .. Len(old) : old[i] = old[j] => i = j
  <2>1. a \in Actors
    BY RuntimeAssumption
  <2>2. old \in Seq(Runs)
    BY <2>1 DEF TypeOK
  <2>3. QED BY <2>1, <2>2 DEF LaneBook
<1>3. PICK new : new = RemoveFirst(old, r)
  OBVIOUS
<1>4. /\ new \in Seq(Runs)
      /\ \A i \in 1 .. Len(new) : new[i] # r /\ \E j \in 1 .. Len(old) : old[j] = new[i]
      /\ \A j \in 1 .. Len(old) : old[j] # r => \E i \in 1 .. Len(new) : new[i] = old[j]
      /\ \A i, j \in 1 .. Len(new) : new[i] = new[j] => i = j
  BY <1>2, <1>3, RemoveFirstProperties
<1>5. queue' = [queue EXCEPT ![a] = new]
  BY <1>3 DEF removeQueuedRun
<1>6. queue'[a] = new /\ (\A b \in Actors \ {a} : queue'[b] = queue[b]) /\ queue' \in [Actors -> Seq(Runs)]
  BY <1>2, <1>4, <1>5 DEF TypeOK
<1>7. ASSUME NEW b \in Actors
      PROVE  /\ \A i \in 1 .. Len(queue'[b]) : ActorOf[queue'[b][i]] = b /\ state'[queue'[b][i]] = "ready"
             /\ \A i, j \in 1 .. Len(queue'[b]) : queue'[b][i] = queue'[b][j] => i = j
  <2>1. CASE b = a
    <3>1. \A i \in 1 .. Len(new) : new[i] \in Runs \ {r}
      BY <1>4, ElementOfSeq
    <3>2. \A i \in 1 .. Len(new) : ActorOf[new[i]] = a /\ state[new[i]] = "ready"
      BY <1>2, <1>4 DEF LaneBook
    <3>3. QED BY <1>1, <1>4, <1>6, <2>1, <3>1, <3>2
  <2>2. CASE b # a
    <3>1. /\ \A i \in 1 .. Len(queue[b]) : ActorOf[queue[b][i]] = b /\ state[queue[b][i]] = "ready" /\ queue[b][i] \in Runs
          /\ \A i, j \in 1 .. Len(queue[b]) : queue[b][i] = queue[b][j] => i = j
      BY QueueEntries
    <3>2. \A i \in 1 .. Len(queue[b]) : queue[b][i] \in Runs \ {r}
      BY <2>2, <3>1
    <3>3. queue'[b] = queue[b]
      BY <1>6, <2>2
    <3>4. QED BY <1>1, <3>1, <3>2, <3>3
  <2>3. QED BY <2>1, <2>2
<1>8. ASSUME NEW q \in Runs, state'[q] = "ready"
      PROVE  \E i \in 1 .. Len(queue'[ActorOf[q]]) : queue'[ActorOf[q]][i] = q
  <2>1. q # r /\ ActorOf[q] \in Actors /\ \E i \in 1 .. Len(queue[ActorOf[q]]) : queue[ActorOf[q]][i] = q
    BY <1>1, <1>8, RuntimeAssumption DEF LaneBook
  <2>2. CASE ActorOf[q] = a
    <3>1. PICK j \in 1 .. Len(old) : old[j] = q
      BY <2>1, <2>2
    <3>2. PICK i \in 1 .. Len(new) : new[i] = q
      BY <1>4, <2>1, <3>1
    <3>3. queue'[ActorOf[q]] = new
      BY <1>6, <2>2
    <3>4. QED BY <3>2, <3>3
  <2>3. CASE ActorOf[q] # a
    <3>1. queue'[ActorOf[q]] = queue[ActorOf[q]]
      BY <1>6, <2>1, <2>3
    <3>2. QED BY <2>1, <3>1
  <2>4. QED BY <2>2, <2>3
<1>9. \A b \in Actors, q \in Runs : active'[b] = q <=> state'[q] = "active" /\ ActorOf[q] = b
  BY <1>1 DEF LaneBook
<1>10. \A q \in Runs : Live(q)' => ActorOf[q] \in actors'
  BY <1>1 DEF LaneBook, Live, Unstarted
<1>11. QED BY <1>6, <1>7, <1>8, <1>9, <1>10 DEF LaneBook

(* A run moves on from one status to another; no section relies on it. *)
LEMMA SectionsUnmoved ==
  ASSUME TypeOK, MutexBook, mutex \in Seq(SectionRecord), NEW r \in Runs, NEW status,
         state' = [state EXCEPT ![r] = status], state[r] # "cancelling" \/ status = "cancelling",
         UNCHANGED <<actors, agent, active, abandoning>>
  PROVE  \A t \in SectionRecord : SectionOK(t) => SectionOK(t)'
  BY RuntimeAssumption DEF SectionOK, SectionRecord, TypeOK

(* Only the head section cancels a run. *)
LEMMA SectionsBehind ==
  ASSUME TypeOK, MutexBook, mutex \in Seq(SectionRecord), UNCHANGED <<actors, agent, active, abandoning>>
  PROVE  KeepFrom(2)
<1>1. \A t \in SectionRecord : SectionOK(t) /\ t.cancel = NoRun => SectionOK(t)'
  BY DEF SectionOK
<1>2. Len(mutex) \in Nat
  BY LenProperties
<1>3. QED BY <1>1, <1>2 DEF MutexBook, KeepFrom

LEMMA StartKeeps ==
  ASSUME SchedulerInv, NEW r \in Runs, start(r)
  PROVE  SchedulerInv'
<1> DEFINE a == ActorOf[r]
<1>1. /\ UNCHANGED <<host, accepting, aborting, idle, actors, registering, retirement, awaited, kind, queue, active,
                     readyKeys, readySet, activeActors, pumping, agent, deferred, abandoning, canon, starts>>
      /\ accepting /\ state[r] = "new" /\ a \in actors /\ queuedRuns < MaxQueuedRuns
      /\ state' = [state EXCEPT ![r] = "admitting"] /\ queuedRuns' = queuedRuns + 1
      /\ mutex' = Append(mutex, Section("admit", a, r))
      /\ TypeOK /\ MutexBook /\ mutex \in Seq(SectionRecord)
  BY DEF start, admission, registry, ready, agents, stored, SchedulerInv, TypeOK, SectionRecord
<1>2. canon[r] = "none" /\ kind[r] = "prompt" /\ starts[r] = 0
  BY <1>1 DEF SchedulerInv, TypeOK, RunBook, RunOK
<1>3. state'[r] = "admitting" /\ \A q \in Runs \ {r} : state'[q] = state[q]
  BY <1>1 DEF TypeOK
<1>4. PICK s \in SectionRecord :
        s = Section("admit", a, r) /\ s.sort = "admit" /\ s.actor = a /\ s.run = r /\ s.cancel = NoRun
  BY <1>1, NewSection, RuntimeAssumption DEF Sorts
<1>5. SectionOK(s)'
  BY <1>4 DEF SectionOK, OfRun, OfActor, Begun, Pending
<1>6. KeepFrom(1)
  BY <1>1, SectionsUnmoved DEF MutexBook, KeepFrom
<1>7. MutexBook' /\ mutex' \in Seq(SectionRecord)
  BY <1>1, <1>4, <1>5, <1>6, MutexAppended DEF Begun, Single
<1>8. Prompts' = Prompts \cup {r} /\ r \notin Prompts
  BY <1>1, <1>2, <1>3 DEF Prompts, Unstarted
<1>9. queuedRuns' = Cardinality(Prompts') /\ queuedRuns' <= MaxQueuedRuns /\ queuedRuns' \in Nat
  BY <1>1, <1>8, QueuedCounted DEF SchedulerInv
<1>10. CapacityExact'
  BY <1>1, <1>9, CapacityQueued DEF SchedulerInv
<1>11. TypeOK'
  BY <1>1, <1>7, <1>9 DEF TypeOK, SectionRecord, Unstarted
<1>12. LaneBook'
  BY <1>1, LaneBookMoved DEF SchedulerInv
<1>13. RunBook'
  BY <1>1, <1>2, <1>3 DEF SchedulerInv, RunBook, RunOK
<1>14. ActorBook'
  BY <1>1, <1>3 DEF SchedulerInv, ActorBook, ActorOK
<1>15. IdleBook'
  BY <1>1, IdleBookOpen DEF SchedulerInv
<1>16. QED BY <1>7, <1>10, <1>11, <1>12, <1>13, <1>14, <1>15 DEF SchedulerInv

(* The admission of an input that the event store does not know. *)
LEMMA SubmitAdmitsKeeps ==
  ASSUME SchedulerInv, SubmitSection, submitAdmits(Head(mutex).actor, Head(mutex).run),
         state' = [state EXCEPT ![Head(mutex).run] = "admitting"], queuedRuns' = queuedRuns + 1,
         mutex' = [mutex EXCEPT ![1].sort = "admitDurable"], UNCHANGED <<idle, canon>>
  PROVE  SchedulerInv'
<1>1. /\ UNCHANGED <<host, accepting, aborting, idle, actors, registering, retirement, awaited, kind, queue, active,
                     readyKeys, readySet, activeActors, pumping, agent, deferred, abandoning, canon, starts>>
      /\ mutex # <<>> /\ Head(mutex).sort = "submitting" /\ TypeOK /\ MutexBook
  BY DEF SubmitSection, Holds, admission, registry, ready, agents, SchedulerInv
<1>2. Head(mutex) = mutex[1] /\ mutex[1] \in SectionRecord /\ SectionOK(mutex[1]) /\ mutex \in Seq(SectionRecord)
      /\ Len(mutex) \in Nat \ {0}
  BY <1>1, HeadSection
<1>3. PICK r \in Runs : r = mutex[1].run /\ mutex[1].actor = ActorOf[r] /\ ActorOf[r] \in actors
  BY <1>1, <1>2 DEF SectionOK, OfRun, Begun, Pending
<1>4. ~Live(r) /\ canon[r] = "none" /\ queuedRuns < MaxQueuedRuns /\ state' = [state EXCEPT ![r] = "admitting"]
  BY <1>2, <1>3 DEF submitAdmits
<1>5. kind[r] = "prompt" /\ starts[r] = 0 /\ state[r] \notin Unstarted \cup {"active"}
  BY <1>1, <1>4 DEF SchedulerInv, TypeOK, RunBook, RunOK, Live
<1>6. state'[r] = "admitting" /\ \A q \in Runs \ {r} : state'[q] = state[q]
  BY <1>1, <1>4 DEF TypeOK
<1>7. PICK h \in SectionRecord : h = [mutex[1] EXCEPT !.sort = "admitDurable"]
  BY <1>2 DEF SectionRecord, Sorts
<1>8. /\ mutex' = [mutex EXCEPT ![1] = h] /\ h.sort = "admitDurable" /\ h.actor = mutex[1].actor
      /\ h.run = mutex[1].run /\ h.cancel = mutex[1].cancel
  BY <1>2, <1>7 DEF SectionRecord
<1>9. \A t \in SectionRecord : SectionOK(t) => SectionOK(t)'
  BY <1>1, <1>2, <1>4, <1>5, SectionsUnmoved DEF Unstarted
<1>10. SectionOK(h)'
  <2>1. h.cancel # NoRun => state'[h.cancel] = "cancelling"
    BY <1>2, <1>8, <1>9 DEF SectionOK
  <2>2. QED BY <1>1, <1>3, <1>8, <2>1 DEF SectionOK, OfRun, OfActor, Begun, Pending
<1>11. KeepFrom(2)
  BY <1>2, <1>9 DEF KeepFrom, SchedulerInv, MutexBook
<1>12. MutexBook' /\ mutex' \in Seq(SectionRecord) /\ (pendingAdmissions' <=> pendingAdmissions)
  BY <1>1, <1>2, <1>8, <1>10, <1>11, MutexHeadChanged DEF Single, Pending
<1>13. Prompts' = Prompts \cup {r} /\ r \notin Prompts
  BY <1>1, <1>5, <1>6 DEF Prompts, Unstarted
<1>14. queuedRuns' = Cardinality(Prompts') /\ queuedRuns' <= MaxQueuedRuns /\ queuedRuns' \in Nat
  BY <1>1, <1>4, <1>13, QueuedCounted DEF SchedulerInv
<1>15. CapacityExact'
  BY <1>1, <1>14, CapacityQueued DEF SchedulerInv
<1>16. TypeOK'
  <2>1. state' \in [Runs -> {"new", "settled", "active"} \cup Unstarted]
    BY <1>1, <1>4 DEF TypeOK, Unstarted
  <2>2. QED BY <1>1, <1>12, <1>14, <2>1 DEF TypeOK, SectionRecord
<1>17. LaneBook'
  BY <1>1, <1>3, <1>4, <1>5, LaneBookMoved DEF SchedulerInv, Unstarted
<1>18. RunBook'
  BY <1>1, <1>4, <1>5, <1>6 DEF SchedulerInv, RunBook, RunOK
<1>19. ActorBook'
  BY <1>1, <1>6 DEF SchedulerInv, ActorBook, ActorOK
<1>20. IdleBook'
  <2>1. pendingAdmissions
    BY <1>1, <1>2 DEF pendingAdmissions
  <2>2. QED BY <1>1, <1>12, <2>1 DEF SchedulerInv, IdleBook, isIdle
<1>21. QED BY <1>12, <1>15, <1>16, <1>17, <1>18, <1>19, <1>20 DEF SchedulerInv

LEMMA SubmitSectionKeeps ==
  ASSUME SchedulerInv, SubmitSection
  PROVE  SchedulerInv'
<1>1. /\ UNCHANGED <<host, accepting, aborting, actors, registering, retirement, awaited, kind, queue, active,
                     readyKeys, readySet, activeActors, pumping, agent, deferred, abandoning, starts>>
      /\ mutex # <<>> /\ Head(mutex).sort = "submitting" /\ TypeOK /\ MutexBook
  BY DEF SubmitSection, Holds, admission, registry, ready, agents, SchedulerInv
<1>2. Head(mutex) = mutex[1] /\ mutex[1] \in SectionRecord /\ SectionOK(mutex[1]) /\ mutex \in Seq(SectionRecord)
      /\ Len(mutex) \in Nat \ {0}
  BY <1>1, HeadSection
<1>3. PICK r \in Runs : r = Head(mutex).run
  BY <1>1, <1>2 DEF SectionOK, OfRun, Pending
<1>4. \/ /\ submitAdmits(Head(mutex).actor, Head(mutex).run)
         /\ state' = [state EXCEPT ![Head(mutex).run] = "admitting"] /\ queuedRuns' = queuedRuns + 1
         /\ mutex' = [mutex EXCEPT ![1].sort = "admitDurable"] /\ UNCHANGED <<idle, canon>>
      \/ /\ UNCHANGED canon \/ (appendEvent(r, "ended") /\ canon[r] # "none")
         /\ mutex' = Tail(mutex) /\ UNCHANGED <<state, queuedRuns>> /\ notifyIdle
  BY <1>3 DEF SubmitSection, submitRepairs
<1>5. CASE /\ UNCHANGED canon \/ (appendEvent(r, "ended") /\ canon[r] # "none")
           /\ mutex' = Tail(mutex) /\ UNCHANGED <<state, queuedRuns>> /\ notifyIdle
  <2>1. canon' \in [Runs -> {"none", "open", "deferred", "ended"}] /\ Recorded
    BY <1>1, <1>5, EventAppended DEF Recorded, TypeOK
  <2>2. MutexBook' /\ mutex' \in Seq(SectionRecord)
    BY <1>1, <1>2, <1>5, MutexAdvanced, SectionsKept
  <2>3. idle' \in {"none", "waiting", "resolved"}
    BY <1>1, <1>5 DEF notifyIdle, TypeOK
  <2>4. TypeOK'
    BY <1>1, <1>5, <2>1, <2>2, <2>3 DEF TypeOK, SectionRecord
  <2>5. LaneBook' /\ CapacityExact'
    BY <1>1, <1>5, LaneBookKept, CapacityKept DEF SchedulerInv
  <2>6. RunBook'
    BY <1>1, <1>5, <2>1 DEF SchedulerInv, RunBook, RunOK, Recorded
  <2>7. ActorBook'
    BY <1>1, <1>5, <2>1 DEF SchedulerInv, TypeOK, ActorBook, ActorOK, Recorded
  <2>8. pendingAdmissions
    BY <1>1, <1>2 DEF pendingAdmissions
  <2>9. IdleBook'
    BY <1>1, <1>5, <2>5, <2>8, IdleNotified DEF SchedulerInv, IdleBook
  <2>10. QED BY <2>2, <2>4, <2>5, <2>6, <2>7, <2>9 DEF SchedulerInv
<1>6. QED BY <1>4, <1>5, SubmitAdmitsKeeps

(* A run that is in no queue settles without having started. *)
LEMMA UnstartedSettled ==
  ASSUME SchedulerInv, NEW r \in Runs, settle(r), state[r] \in {"admitting", "cancelling"},
         UNCHANGED <<kind, queue, active, actors, activeActors>>
  PROVE  /\ state' \in [Runs -> {"new", "settled", "active"} \cup Unstarted] /\ queuedRuns' \in Nat
         /\ state'[r] = "settled" /\ \A q \in Runs \ {r} : state'[q] = state[q]
         /\ CapacityExact' /\ LaneBook'
<1>1. TypeOK /\ state' = [state EXCEPT ![r] = "settled"] /\ Live(r)
      /\ queuedRuns' = IF kind[r] = "prompt" /\ state[r] \in Unstarted THEN queuedRuns - 1 ELSE queuedRuns
  BY DEF SchedulerInv, settle, Live, Unstarted
<1>2. /\ state' \in [Runs -> {"new", "settled", "active"} \cup Unstarted]
      /\ state'[r] = "settled" /\ \A q \in Runs \ {r} : state'[q] = state[q]
  BY <1>1 DEF TypeOK
<1>3. Prompts' = Prompts \ {r} /\ queuedRuns' = IF r \in Prompts THEN queuedRuns - 1 ELSE queuedRuns
  BY <1>1, <1>2 DEF Prompts, Unstarted
<1>4. queuedRuns' = Cardinality(Prompts') /\ queuedRuns' <= MaxQueuedRuns /\ queuedRuns' \in Nat
  BY <1>1, <1>3, QueuedCounted DEF SchedulerInv
<1>5. CapacityExact'
  BY <1>4, CapacityQueued DEF SchedulerInv
<1>6. LaneBook'
  BY <1>1, LaneBookMoved DEF SchedulerInv
<1>7. QED BY <1>2, <1>4, <1>5, <1>6

(* The run.queued event of an admitted run is durable, or its append has   *)
(* failed.                                                                 *)
LEMMA AdmitStoredKeeps ==
  ASSUME SchedulerInv, NEW r \in Runs, NEW a \in Actors, a = ActorOf[r], state[r] = "admitting",
         canon' = [canon EXCEPT ![r] = "open"], state' = [state EXCEPT ![r] = "ready"],
         queue' = [queue EXCEPT ![a] = Append(@, r)], UNCHANGED <<kind, active, actors, agent, deferred, abandoning,
           queuedRuns, activeActors, starts>>
  PROVE  /\ RunBook' /\ ActorBook' /\ LaneBook' /\ CapacityExact'
         /\ canon' \in [Runs -> {"none", "open", "deferred", "ended"}]
         /\ state' \in [Runs -> {"new", "settled", "active"} \cup Unstarted]
         /\ queue' \in [Actors -> Seq(Runs)]
<1> DEFINE old == queue[a]
           new == queue'[a]
<1>1. /\ TypeOK /\ state'[r] = "ready" /\ (\A q \in Runs \ {r} : state'[q] = state[q])
      /\ canon'[r] = "open" /\ (\A q \in Runs \ {r} : canon'[q] = canon[q])
      /\ canon' \in [Runs -> {"none", "open", "deferred", "ended"}]
      /\ state' \in [Runs -> {"new", "settled", "active"} \cup Unstarted]
  BY DEF SchedulerInv, TypeOK, Unstarted
<1>2. canon[r] = "none" /\ starts[r] = 0 /\ Live(r)
  BY DEF SchedulerInv, TypeOK, RunBook, RunOK, Live, Unstarted
<1>3. RunBook'
  BY <1>1, <1>2 DEF SchedulerInv, RunBook, RunOK
<1>4. ASSUME NEW b \in Actors PROVE ActorOK(b)'
  <2>1. ActorOK(b)
    BY DEF SchedulerInv, ActorBook
  <2>2. abandoning[b].stage # "none" => abandoning[b].run \in Runs \ {r}
    BY <1>2, <2>1 DEF ActorOK
  <2>3. deferred[b] # NoRun => deferred[b] \in Runs \ {r}
    BY <1>1, <1>2, <2>1 DEF ActorOK, TypeOK
  <2>4. abandoning[b].stage \in {"none", "queued", "agent", "emitting", "local"}
    BY <1>1 DEF TypeOK
  <2>5. QED BY <1>1, <2>1, <2>2, <2>3, <2>4 DEF ActorOK
<1>5. Prompts' = Prompts
  BY <1>1 DEF Prompts, Unstarted
<1>6. CapacityExact'
  BY <1>1, <1>5, QueuedCounted, CapacityQueued DEF SchedulerInv
<1>7. /\ old \in Seq(Runs) /\ new \in Seq(Runs) /\ Len(new) = Len(old) + 1 /\ new[Len(old) + 1] = r
      /\ Len(old) \in Nat /\ \A i \in 1 .. Len(old) : new[i] = old[i] /\ old[i] \in Runs
      /\ \A b \in Actors \ {a} : queue'[b] = queue[b]
  <2>1. old \in Seq(Runs) /\ new = Append(old, r) /\ \A b \in Actors \ {a} : queue'[b] = queue[b]
    BY <1>1 DEF TypeOK
  <2>2. QED BY <2>1, AppendProperties, ElementOfSeq, LenProperties
<1>8. queue' \in [Actors -> Seq(Runs)]
  BY <1>1, <1>7 DEF TypeOK
<1>9. \A b \in Actors : \A i \in 1 .. Len(queue[b]) :
        queue[b][i] \in Runs \ {r} /\ ActorOf[queue[b][i]] = b /\ state[queue[b][i]] = "ready"
  BY <1>1, QueueEntries DEF SchedulerInv
<1>10. ASSUME NEW b \in Actors
       PROVE  /\ \A i \in 1 .. Len(queue'[b]) : ActorOf[queue'[b][i]] = b /\ state'[queue'[b][i]] = "ready"
              /\ \A i, j \in 1 .. Len(queue'[b]) : queue'[b][i] = queue'[b][j] => i = j
  <2>1. CASE b = a
    <3>1. \A i \in 1 .. Len(new) : i \in 1 .. Len(old) \/ i = Len(old) + 1
      BY <1>7
    <3>2. \A i \in 1 .. Len(new) : ActorOf[new[i]] = b /\ state'[new[i]] = "ready"
      BY <1>1, <1>7, <1>9, <2>1, <3>1
    <3>3. \A i, j \in 1 .. Len(old) : old[i] = old[j] => i = j
      BY DEF SchedulerInv, LaneBook
    <3>4. \A i \in 1 .. Len(old) : new[i] # r
      <4>1. \A i \in 1 .. Len(old) : old[i] # r
        BY <1>9, <2>1
      <4>2. QED BY <1>7, <4>1
    <3>5. \A i, j \in 1 .. Len(new) : new[i] = new[j] => i = j
      BY <1>7, <3>1, <3>3, <3>4
    <3>6. QED BY <2>1, <3>2, <3>5
  <2>2. CASE b # a
    BY <1>1, <1>7, <1>9, <2>2 DEF SchedulerInv, LaneBook
  <2>3. QED BY <2>1, <2>2
<1>11. ASSUME NEW q \in Runs, state'[q] = "ready"
       PROVE  \E i \in 1 .. Len(queue'[ActorOf[q]]) : queue'[ActorOf[q]][i] = q
  <2>1. CASE q = r
    <3>1. Len(old) + 1 \in 1 .. Len(new)
      BY <1>7
    <3>2. QED BY <1>7, <2>1, <3>1
  <2>2. CASE q # r
    <3>1. PICK i \in 1 .. Len(queue[ActorOf[q]]) : queue[ActorOf[q]][i] = q
      BY <1>1, <1>11, <2>2 DEF SchedulerInv, LaneBook
    <3>2. CASE ActorOf[q] = a
      <4>1. i \in 1 .. Len(new) /\ new[i] = q
        BY <1>7, <3>1, <3>2
      <4>2. QED BY <3>2, <4>1
    <3>3. CASE ActorOf[q] # a
      BY <1>7, <3>1, <3>3, RuntimeAssumption
    <3>4. QED BY <3>2, <3>3
  <2>3. QED BY <2>1, <2>2
<1>12. \A b \in Actors, q \in Runs : active'[b] = q <=> state'[q] = "active" /\ ActorOf[q] = b
  BY <1>1 DEF SchedulerInv, LaneBook
<1>13. \A q \in Runs : Live(q)' => ActorOf[q] \in actors'
  BY <1>1, <1>2 DEF SchedulerInv, LaneBook, Live, Unstarted
<1>14. LaneBook'
  BY <1>8, <1>10, <1>11, <1>12, <1>13 DEF LaneBook
<1>15. QED BY <1>1, <1>3, <1>4, <1>6, <1>8, <1>14 DEF ActorBook

LEMMA AdmitSectionKeeps ==
  ASSUME SchedulerInv, AdmitSection
  PROVE  SchedulerInv'
<1>1. /\ UNCHANGED <<host, accepting, aborting, actors, registering, retirement, awaited, kind, active,
                     activeActors, agent, deferred, abandoning, starts>>
      /\ mutex # <<>> /\ Head(mutex).sort \in {"admit", "admitDurable"} /\ mutex' = Tail(mutex) /\ notifyIdle
      /\ TypeOK /\ MutexBook
  BY DEF AdmitSection, Holds, admission, registry, agents, SchedulerInv
<1>2. Head(mutex) = mutex[1] /\ mutex[1] \in SectionRecord /\ SectionOK(mutex[1]) /\ mutex \in Seq(SectionRecord)
      /\ Len(mutex) \in Nat \ {0}
  BY <1>1, HeadSection
<1>3. PICK r \in Runs : r = Head(mutex).run /\ Head(mutex).actor = ActorOf[r]
  BY <1>1, <1>2 DEF SectionOK, OfRun, Pending
<1> DEFINE a == ActorOf[r]
<1>4. a \in Actors /\ state[r] = "admitting" /\ Live(r)
  BY <1>3, RuntimeAssumption DEF AdmitSection, Live, Unstarted
<1>5. \/ /\ canon' = [canon EXCEPT ![r] = "open"] /\ state' = [state EXCEPT ![r] = "ready"]
         /\ queue' = [queue EXCEPT ![a] = Append(@, r)] /\ UNCHANGED queuedRuns
         /\ markReady(readyKeys, readySet, a) /\ pumping' = TRUE
      \/ settle(r) /\ UNCHANGED <<queue, readyKeys, readySet, pumping, canon>>
  BY <1>3 DEF AdmitSection, ready
<1>6. MutexBook' /\ mutex' \in Seq(SectionRecord)
  BY <1>1, <1>2, SectionsBehind, MutexAdvanced
<1>7. idle' \in {"none", "waiting", "resolved"}
  BY <1>1 DEF notifyIdle, TypeOK
<1>8. CASE /\ canon' = [canon EXCEPT ![r] = "open"] /\ state' = [state EXCEPT ![r] = "ready"]
           /\ queue' = [queue EXCEPT ![a] = Append(@, r)] /\ UNCHANGED queuedRuns
           /\ markReady(readyKeys, readySet, a) /\ pumping' = TRUE
  <2>1. /\ RunBook' /\ ActorBook' /\ LaneBook' /\ CapacityExact'
        /\ canon' \in [Runs -> {"none", "open", "deferred", "ended"}]
        /\ state' \in [Runs -> {"new", "settled", "active"} \cup Unstarted]
        /\ queue' \in [Actors -> Seq(Runs)]
    BY <1>1, <1>4, <1>8, AdmitStoredKeeps
  <2>2. readyKeys' \in Seq(Actors) /\ readySet' \in SUBSET Actors
    BY <1>1, <1>4, <1>8, ReadyTypes DEF TypeOK
  <2>3. TypeOK'
    BY <1>1, <1>6, <1>7, <1>8, <2>1, <2>2 DEF TypeOK, SectionRecord
  <2>4. IdleBook'
    BY <1>1, <1>4, <2>1, IdleNotified DEF SchedulerInv, IdleBook
  <2>5. QED BY <1>6, <2>1, <2>3, <2>4 DEF SchedulerInv
<1>9. CASE settle(r) /\ UNCHANGED <<queue, readyKeys, readySet, pumping, canon>>
  <2>1. /\ state' \in [Runs -> {"new", "settled", "active"} \cup Unstarted] /\ queuedRuns' \in Nat
        /\ state'[r] = "settled" /\ (\A q \in Runs \ {r} : state'[q] = state[q])
        /\ CapacityExact' /\ LaneBook'
    BY <1>1, <1>4, <1>9, UnstartedSettled
  <2>2. TypeOK'
    BY <1>1, <1>6, <1>7, <1>9, <2>1 DEF TypeOK, SectionRecord
  <2>3. RunBook'
    BY <1>1, <1>4, <1>9, <2>1 DEF SchedulerInv, RunBook, RunOK
  <2>4. ActorBook'
    BY <1>1, <1>9, <2>1 DEF SchedulerInv, ActorBook, ActorOK
  <2>5. IdleBook'
    BY <1>1, <1>4, <2>1, IdleNotified DEF SchedulerInv, IdleBook
  <2>6. QED BY <1>6, <2>1, <2>2, <2>3, <2>4, <2>5 DEF SchedulerInv
<1>10. QED BY <1>5, <1>8, <1>9

-----------------------------------------------------------------------------
(* Activation and completion *)

LEMMA FinishSectionKeeps ==
  ASSUME SchedulerInv, FinishSection
  PROVE  SchedulerInv'
<1>1. /\ UNCHANGED <<host, accepting, aborting, actors, registering, retirement, awaited, kind, queue,
                     agent, deferred, abandoning, canon, starts>>
      /\ mutex # <<>> /\ Head(mutex).sort = "finish" /\ mutex' = Tail(mutex) /\ notifyIdle /\ pumping' = TRUE
      /\ TypeOK /\ MutexBook
  BY DEF FinishSection, Holds, admission, registry, agents, stored, SchedulerInv
<1>2. Head(mutex) = mutex[1] /\ mutex[1] \in SectionRecord /\ SectionOK(mutex[1]) /\ mutex \in Seq(SectionRecord)
      /\ Len(mutex) \in Nat \ {0}
  BY <1>1, HeadSection
<1>3. PICK r \in Runs : r = Head(mutex).run /\ Head(mutex).actor = ActorOf[r]
  BY <1>1, <1>2 DEF SectionOK, OfRun, Pending
<1> DEFINE a == ActorOf[r]
<1>4. /\ a \in Actors /\ active[a] = r /\ state[r] = "active" /\ agent[a] = "idle"
      /\ active' = [active EXCEPT ![a] = NoRun] /\ activeActors' = activeActors - 1
      /\ settle(r) /\ markReady(readyKeys, readySet, a)
  BY <1>1, <1>2, <1>3, RuntimeAssumption DEF FinishSection, SectionOK
<1>5. /\ state' = [state EXCEPT ![r] = "settled"] /\ UNCHANGED queuedRuns
      /\ state' \in [Runs -> {"new", "settled", "active"} \cup Unstarted]
      /\ state'[r] = "settled" /\ \A q \in Runs \ {r} : state'[q] = state[q]
  BY <1>1, <1>4 DEF settle, TypeOK, Unstarted
<1>6. /\ active' \in [Actors -> Runs \cup {NoRun}] /\ active'[a] = NoRun
      /\ \A b \in Actors \ {a} : active'[b] = active[b]
  BY <1>1, <1>4 DEF TypeOK
<1>7. KeepFrom(2)
  <2>1. \A i \in 2 .. Len(mutex) : mutex[i].sort = "finish" => mutex[i].actor # a
    BY <1>1, <1>2, <1>3 DEF MutexBook, Single
  <2>2. \A t \in SectionRecord : SectionOK(t) /\ t.cancel = NoRun /\ (t.sort = "finish" => t.actor # a) => SectionOK(t)'
    BY <1>1, <1>6, RuntimeAssumption DEF SectionOK, OfRun
  <2>3. QED BY <1>1, <1>2, <2>1, <2>2 DEF MutexBook, KeepFrom
<1>8. MutexBook' /\ mutex' \in Seq(SectionRecord)
  BY <1>1, <1>2, <1>7, MutexAdvanced
<1>9. Busy' = Busy \ {a} /\ a \in Busy
  BY <1>4, <1>6, RuntimeAssumption DEF Busy
<1>10. activeActors' = Cardinality(Busy') /\ activeActors' <= MaxActiveActors /\ activeActors' \in Nat
  BY <1>1, <1>4, <1>9, ActiveCounted DEF SchedulerInv
<1>11. Prompts' = Prompts
  BY <1>1, <1>4, <1>5 DEF Prompts, Unstarted
<1>12. queuedRuns' = Cardinality(Prompts') /\ queuedRuns' <= MaxQueuedRuns
  BY <1>1, <1>5, <1>11, QueuedCounted DEF SchedulerInv
<1>13. CapacityExact'
  BY <1>10, <1>12 DEF CapacityExact, Prompts, Busy
<1>14. readyKeys' \in Seq(Actors) /\ readySet' \in SUBSET Actors
  <2>1. readyKeys \in Seq(Actors) /\ readySet \in SUBSET Actors
    BY <1>1 DEF TypeOK
  <2>2. QED BY <1>4, <2>1, ReadyTypes
<1>15. idle' \in {"none", "waiting", "resolved"}
  BY <1>1 DEF notifyIdle, TypeOK
<1>16. TypeOK'
  BY <1>1, <1>5, <1>6, <1>8, <1>10, <1>14, <1>15 DEF TypeOK, SectionRecord
<1>17. LaneBook'
  <2>1. \A b \in Actors : \A i \in 1 .. Len(queue[b]) : ActorOf[queue[b][i]] = b /\ state'[queue[b][i]] = "ready"
    <3>1. \A b \in Actors : \A i \in 1 .. Len(queue[b]) :
            queue[b][i] \in Runs /\ ActorOf[queue[b][i]] = b /\ state[queue[b][i]] = "ready"
      BY <1>1, QueueEntries DEF SchedulerInv
    <3>2. QED BY <1>4, <1>5, <3>1
  <2>2. \A b \in Actors, q \in Runs : active'[b] = q <=> state'[q] = "active" /\ ActorOf[q] = b
    BY <1>4, <1>5, <1>6, RuntimeAssumption DEF SchedulerInv, LaneBook
  <2>3. \A q \in Runs : Live(q)' => ActorOf[q] \in actors
    BY <1>5 DEF SchedulerInv, LaneBook, Live, Unstarted
  <2>4. \A q \in Runs : state'[q] = "ready" => \E i \in 1 .. Len(queue[ActorOf[q]]) : queue[ActorOf[q]][i] = q
    BY <1>5 DEF SchedulerInv, LaneBook
  <2>5. QED BY <1>1, <2>1, <2>2, <2>3, <2>4 DEF SchedulerInv, LaneBook
<1>18. RunBook'
  BY <1>1, <1>4, <1>5 DEF SchedulerInv, RunBook, RunOK
<1>19. ActorBook'
  BY <1>1, <1>4, <1>5, <1>6 DEF SchedulerInv, ActorBook, ActorOK
<1>20. IdleBook'
  BY <1>1, <1>4, <1>17, IdleNotified DEF SchedulerInv, IdleBook, Live
<1>21. QED BY <1>8, <1>13, <1>16, <1>17, <1>18, <1>19, <1>20 DEF SchedulerInv

(* The run at the front of a lane is started.                              *)
LEMMA PumpActivatesKeeps ==
  ASSUME SchedulerInv, PumpActivates
  PROVE  SchedulerInv'
<1>1. /\ UNCHANGED <<host, accepting, aborting, idle, actors, registering, retirement, awaited, kind, pumping, mutex,
                     deferred, abandoning, canon>>
      /\ readyKeys # <<>> /\ activeActors < MaxActiveActors /\ TypeOK /\ MutexBook /\ mutex \in Seq(SectionRecord)
  BY RuntimeAssumption DEF PumpActivates, pumpStops, admission, registry, SchedulerInv, TypeOK, SectionRecord
<1>2. PICK a \in Actors : a = Head(readyKeys)
  BY <1>1, HeadTailProperties DEF TypeOK
<1> DEFINE old == queue[a]
           new == queue'[a]
<1>3. old \in Seq(Runs) /\ old # <<>> /\ Len(old) \in Nat \ {0} /\ Head(old) = old[1] /\ old[1] \in Runs
  <2>1. old \in Seq(Runs) /\ old # <<>>
    BY <1>1, <1>2 DEF PumpActivates, frontReady, TypeOK
  <2>2. Len(old) \in Nat \ {0}
    BY <2>1, EmptySeq, LenProperties
  <2>3. QED BY <2>1, <2>2, ElementOfSeq
<1>4. PICK r \in Runs : r = old[1]
  BY <1>3
<1>5. /\ a \in actors /\ active[a] = NoRun /\ state[r] = "ready"
      /\ readyKeys' = Tail(readyKeys) /\ readySet' = readySet \ {a}
      /\ queue' = [queue EXCEPT ![a] = Tail(@)]
      /\ queuedRuns' = IF kind[r] = "prompt" THEN queuedRuns - 1 ELSE queuedRuns
      /\ state' = [state EXCEPT ![r] = "active"] /\ active' = [active EXCEPT ![a] = r]
      /\ activeActors' = activeActors + 1
      /\ \E status \in {"running", "refused"} : agent' = [agent EXCEPT ![a] = status]
      /\ \E n \in {starts[r], starts[r] + 1} :
           starts' = [starts EXCEPT ![r] = n] /\ (n # starts[r] => kind[r] = "prompt")
  BY <1>2, <1>3, <1>4 DEF PumpActivates, frontReady
<1>6. ActorOf[r] = a
  BY <1>3, <1>4 DEF SchedulerInv, LaneBook
<1>7. /\ new = Tail(old) /\ new \in Seq(Runs) /\ Len(new) = Len(old) - 1
      /\ \A i \in 1 .. Len(new) : new[i] = old[i + 1] /\ i + 1 \in 1 .. Len(old)
      /\ \A b \in Actors \ {a} : queue'[b] = queue[b]
  <2>1. new = Tail(old) /\ \A b \in Actors \ {a} : queue'[b] = queue[b]
    BY <1>1, <1>5 DEF TypeOK
  <2>2. QED BY <1>3, <2>1, HeadTailProperties
<1>8. /\ state' \in [Runs -> {"new", "settled", "active"} \cup Unstarted]
      /\ state'[r] = "active" /\ \A q \in Runs \ {r} : state'[q] = state[q]
  BY <1>1, <1>5 DEF TypeOK
<1>9. /\ active' \in [Actors -> Runs \cup {NoRun}] /\ active'[a] = r
      /\ \A b \in Actors \ {a} : active'[b] = active[b]
  BY <1>1, <1>5 DEF TypeOK
<1>10. /\ agent' \in [Actors -> {"idle", "running", "aborting", "refused"}]
       /\ \A b \in Actors \ {a} : agent'[b] = agent[b]
  BY <1>1, <1>5 DEF TypeOK
<1>11. KeepFrom(1)
  <2>1. \A t \in SectionRecord : SectionOK(t) => SectionOK(t)'
    <3>1. SUFFICES ASSUME NEW t \in SectionRecord, SectionOK(t) PROVE SectionOK(t)'
      OBVIOUS
    <3>2. t.cancel # NoRun => state'[t.cancel] = "cancelling"
      BY <1>5, <1>8, <3>1 DEF SectionOK, SectionRecord
    <3>3. t.sort = "finish" => t.run \in Runs /\ t.actor \in Actors \ {a}
      BY <1>5, <3>1, RuntimeAssumption DEF SectionOK, OfRun
    <3>4. QED BY <1>1, <1>9, <1>10, <3>1, <3>2, <3>3 DEF SectionOK
  <2>2. QED BY <1>1, <2>1 DEF MutexBook, KeepFrom
<1>12. MutexBook' /\ (pendingAdmissions' <=> pendingAdmissions)
  BY <1>1, <1>11, MutexStays
<1>13. Busy' = Busy \cup {a} /\ a \notin Busy
  BY <1>5, <1>9, RuntimeAssumption DEF Busy
<1>14. activeActors' = Cardinality(Busy') /\ activeActors' <= MaxActiveActors /\ activeActors' \in Nat
  BY <1>1, <1>5, <1>13, ActiveCounted DEF SchedulerInv
<1>15. Prompts' = Prompts \ {r} /\ queuedRuns' = IF r \in Prompts THEN queuedRuns - 1 ELSE queuedRuns
  BY <1>1, <1>5, <1>8 DEF Prompts, Unstarted
<1>16. queuedRuns' = Cardinality(Prompts') /\ queuedRuns' <= MaxQueuedRuns /\ queuedRuns' \in Nat
  BY <1>1, <1>15, QueuedCounted DEF SchedulerInv
<1>17. CapacityExact'
  BY <1>14, <1>16 DEF CapacityExact, Prompts, Busy
<1>18. canon[r] # "none" /\ (kind[r] = "prompt" => starts[r] = 0)
  BY <1>1, <1>5 DEF SchedulerInv, TypeOK, RunBook, RunOK
<1>19. /\ starts' \in [Runs -> Nat] /\ \A q \in Runs \ {r} : starts'[q] = starts[q]
       /\ starts'[r] <= 1
  <2>1. starts[r] \in Nat /\ starts[r] <= 1
    BY <1>1 DEF SchedulerInv, TypeOK, RunBook, RunOK
  <2>2. QED BY <1>1, <1>5, <1>18, <2>1 DEF TypeOK
<1>20. RunBook'
  BY <1>1, <1>8, <1>18, <1>19 DEF SchedulerInv, RunBook, RunOK
<1>21. ActorBook'
  <2>1. SUFFICES ASSUME NEW b \in Actors PROVE ActorOK(b)'
    BY DEF ActorBook
  <2>2. ActorOK(b)
    BY DEF SchedulerInv, ActorBook
  <2>3. agent'[b] # "idle" => active'[b] # NoRun
    BY <1>9, <1>10, <2>2, RuntimeAssumption DEF ActorOK
  <2>4. abandoning[b].stage \notin {"none", "queued"} => state'[abandoning[b].run] \notin {"ready", "active"}
    <3>1. abandoning[b].stage \notin {"none", "queued"} => abandoning[b].run \in Runs \ {r}
      BY <1>5, <2>2 DEF ActorOK
    <3>2. QED BY <1>8, <2>2, <3>1 DEF ActorOK
  <2>5. QED BY <1>1, <2>2, <2>3, <2>4 DEF ActorOK
<1>22. queue' \in [Actors -> Seq(Runs)]
  BY <1>1, <1>5, <1>7 DEF TypeOK
<1>23. LaneBook'
  <2>1. \A b \in Actors : \A i, j \in 1 .. Len(queue[b]) : queue[b][i] = queue[b][j] => i = j
    BY DEF SchedulerInv, LaneBook
  <2>2. \A b \in Actors : \A i \in 1 .. Len(queue[b]) :
          queue[b][i] \in Runs /\ ActorOf[queue[b][i]] = b /\ state[queue[b][i]] = "ready"
    BY <1>1, QueueEntries DEF SchedulerInv
  <2>3. \A i \in 1 .. Len(new) : new[i] \in Runs \ {r}
    <3>1. SUFFICES ASSUME NEW i \in 1 .. Len(new) PROVE new[i] \in Runs \ {r}
      OBVIOUS
    <3>2. i + 1 \in 1 .. Len(old) /\ i + 1 # 1 /\ 1 \in 1 .. Len(old) /\ new[i] = old[i + 1]
      BY <1>3, <1>7
    <3>3. QED BY <1>4, <2>1, <2>2, <3>2
  <2>4. ASSUME NEW b \in Actors
        PROVE  /\ \A i \in 1 .. Len(queue'[b]) : ActorOf[queue'[b][i]] = b /\ state'[queue'[b][i]] = "ready"
               /\ \A i, j \in 1 .. Len(queue'[b]) : queue'[b][i] = queue'[b][j] => i = j
    <3>1. CASE b = a
      <4>1. \A i \in 1 .. Len(new) : ActorOf[new[i]] = b /\ state'[new[i]] = "ready"
        BY <1>7, <1>8, <2>2, <2>3, <3>1
      <4>2. ASSUME NEW i \in 1 .. Len(new), NEW j \in 1 .. Len(new), new[i] = new[j] PROVE i = j
        <5>1. i + 1 \in 1 .. Len(old) /\ j + 1 \in 1 .. Len(old) /\ i \in Int /\ j \in Int
          BY <1>3, <1>7
        <5>2. new[i] = old[i + 1] /\ new[j] = old[j + 1]
          BY <1>7
        <5>3. i + 1 = j + 1
          BY <2>1, <4>2, <5>1, <5>2
        <5>4. QED BY <5>1, <5>3
      <4>3. QED BY <3>1, <4>1, <4>2
    <3>2. CASE b # a
      <4>1. \A i \in 1 .. Len(queue[b]) : queue[b][i] # r
        BY <1>6, <2>2, <3>2
      <4>2. QED BY <1>7, <1>8, <2>1, <2>2, <3>2, <4>1
    <3>3. QED BY <3>1, <3>2
  <2>5. ASSUME NEW q \in Runs, state'[q] = "ready"
        PROVE  \E i \in 1 .. Len(queue'[ActorOf[q]]) : queue'[ActorOf[q]][i] = q
    <3>1. PICK i \in 1 .. Len(queue[ActorOf[q]]) : queue[ActorOf[q]][i] = q
      BY <1>8, <2>5 DEF SchedulerInv, LaneBook
    <3>2. q # r
      BY <1>8, <2>5
    <3>3. CASE ActorOf[q] = a
      <4>1. i # 1 /\ old[i] = q
        BY <1>4, <3>1, <3>2, <3>3
      <4>2. i - 1 \in 1 .. Len(new) /\ new[i - 1] = old[i]
        BY <1>3, <1>7, <3>1, <3>3, <4>1
      <4>3. QED BY <3>3, <4>1, <4>2
    <3>4. CASE ActorOf[q] # a
      BY <1>7, <3>1, <3>4, RuntimeAssumption
    <3>5. QED BY <3>3, <3>4
  <2>6. \A b \in Actors, q \in Runs : active'[b] = q <=> state'[q] = "active" /\ ActorOf[q] = b
    BY <1>5, <1>6, <1>8, <1>9, RuntimeAssumption DEF SchedulerInv, LaneBook
  <2>7. \A q \in Runs : Live(q)' => ActorOf[q] \in actors'
    BY <1>1, <1>5, <1>6, <1>8 DEF SchedulerInv, LaneBook, Live, Unstarted
  <2>8. QED BY <2>4, <2>5, <2>6, <2>7 DEF LaneBook
<1>24. readyKeys' \in Seq(Actors) /\ readySet' \subseteq Actors
  BY <1>1, <1>5, HeadTailProperties DEF TypeOK
<1>25. TypeOK'
  BY <1>1, <1>8, <1>9, <1>10, <1>14, <1>16, <1>19, <1>22, <1>24 DEF TypeOK
<1>26. \A q \in Runs : Live(q)' <=> Live(q)
  BY <1>5, <1>8 DEF Live, Unstarted
<1>27. IdleBook'
  <2>1. isIdle' <=> isIdle
    BY <1>1, <1>12, <1>26 DEF isIdle, Retiring, RunsOf
  <2>2. QED BY <1>1, <1>12, <1>26, <2>1 DEF SchedulerInv, IdleBook
<1>28. QED BY <1>12, <1>17, <1>20, <1>21, <1>23, <1>25, <1>27 DEF SchedulerInv

-----------------------------------------------------------------------------
(* Cancellation *)

(* A queued run is taken out of its lane to be cancelled. *)
LEMMA CancelledKeeps ==
  ASSUME SchedulerInv, NEW r \in Runs, removeQueuedRun(ActorOf[r], r), state[r] \in Unstarted,
         state' = [state EXCEPT ![r] = "cancelling"],
         UNCHANGED <<kind, active, actors, queuedRuns, activeActors, canon, starts>>
  PROVE  /\ RunBook' /\ LaneBook' /\ CapacityExact' /\ queue' \in [Actors -> Seq(Runs)]
         /\ state' \in [Runs -> {"new", "settled", "active"} \cup Unstarted]
         /\ state'[r] = "cancelling" /\ (\A q \in Runs \ {r} : state'[q] = state[q])
         /\ \A q \in Runs : Live(q)' <=> Live(q)
<1>1. /\ TypeOK /\ state'[r] = "cancelling" /\ (\A q \in Runs \ {r} : state'[q] = state[q])
      /\ state' \in [Runs -> {"new", "settled", "active"} \cup Unstarted]
  BY DEF SchedulerInv, TypeOK, Unstarted
<1>2. RunBook'
  BY <1>1 DEF SchedulerInv, RunBook, RunOK, Unstarted
<1>3. Prompts' = Prompts
  BY <1>1 DEF Prompts, Unstarted
<1>4. CapacityExact'
  BY <1>1, <1>3, QueuedCounted, CapacityQueued DEF SchedulerInv
<1>5. \A q \in Runs : Live(q)' <=> Live(q)
  BY <1>1 DEF Live, Unstarted
<1>6. LaneBook' /\ queue' \in [Actors -> Seq(Runs)]
  BY <1>1, <1>5, LaneBookRemoved DEF SchedulerInv, Unstarted
<1>7. QED BY <1>1, <1>2, <1>4, <1>5, <1>6

LEMMA AbortQueuedKeeps ==
  ASSUME SchedulerInv, NEW r \in Runs, AbortQueued(r)
  PROVE  SchedulerInv'
<1>1. /\ UNCHANGED <<host, accepting, aborting, idle, actors, registering, retirement, kind, active, readyKeys, readySet,
                     queuedRuns, activeActors, pumping, agent, deferred, abandoning, canon, starts>>
      /\ Aborting /\ mutex # <<>> /\ Head(mutex).sort \in {"abort", "retiring", "abortingAll"}
      /\ Head(mutex).cancel = NoRun /\ state[r] \in Unstarted /\ TypeOK /\ MutexBook /\ mutex \in Seq(SectionRecord)
  BY DEF AbortQueued, AbortTurn, Aborting, Holds, admission, ready, counters, agents, stored, SchedulerInv, TypeOK,
         SectionRecord
<1>2. CASE UNCHANGED <<queue, state>> /\ AbortedNext(r, FALSE)
  <2>1. MutexBook' /\ mutex' \in Seq(SectionRecord) /\ (pendingAdmissions' <=> pendingAdmissions)
        /\ awaited' \in [Actors -> SUBSET Runs]
    BY <1>1, <1>2, AbortedNextMutex, SectionsKept
  <2>2. TypeOK'
    BY <1>1, <1>2, <2>1 DEF TypeOK, SectionRecord
  <2>3. QED BY <1>1, <1>2, <2>1, <2>2, QuietKept
<1>3. CASE /\ removeQueuedRun(ActorOf[r], r) /\ state' = [state EXCEPT ![r] = "cancelling"]
           /\ mutex' = [mutex EXCEPT ![1].cancel = r] /\ UNCHANGED awaited
  <2>1. /\ RunBook' /\ LaneBook' /\ CapacityExact' /\ queue' \in [Actors -> Seq(Runs)]
        /\ state' \in [Runs -> {"new", "settled", "active"} \cup Unstarted]
        /\ state'[r] = "cancelling" /\ (\A q \in Runs \ {r} : state'[q] = state[q])
        /\ \A q \in Runs : Live(q)' <=> Live(q)
    BY <1>1, <1>3, CancelledKeeps
  <2>2. Head(mutex) = mutex[1] /\ mutex[1] \in SectionRecord /\ SectionOK(mutex[1]) /\ Len(mutex) \in Nat \ {0}
    BY <1>1, HeadSection
  <2>3. PICK h \in SectionRecord : h = [mutex[1] EXCEPT !.cancel = r]
    BY <2>2 DEF SectionRecord
  <2>4. /\ mutex' = [mutex EXCEPT ![1] = h] /\ h.sort = mutex[1].sort /\ h.actor = mutex[1].actor
        /\ h.run = mutex[1].run /\ h.cancel = r
    BY <1>3, <2>2, <2>3 DEF SectionRecord
  <2>5. SectionOK(h)'
    BY <1>1, <2>1, <2>2, <2>4 DEF SectionOK, OfRun, OfActor, Begun, Pending
  <2>6. MutexBook' /\ mutex' \in Seq(SectionRecord) /\ (pendingAdmissions' <=> pendingAdmissions)
    BY <1>1, <2>2, <2>4, <2>5, SectionsBehind, MutexHeadChanged DEF Single, Pending
  <2>7. TypeOK'
    BY <1>1, <1>3, <2>1, <2>6 DEF TypeOK, SectionRecord
  <2>8. ActorBook'
    BY <1>1, <2>1 DEF SchedulerInv, ActorBook, ActorOK
  <2>9. IdleBook'
    <3>1. isIdle' <=> isIdle
      BY <1>1, <2>1, <2>6 DEF isIdle, Retiring, RunsOf
    <3>2. QED BY <1>1, <2>1, <2>6, <3>1 DEF SchedulerInv, IdleBook
  <2>10. QED BY <2>1, <2>6, <2>7, <2>8, <2>9 DEF SchedulerInv
<1>4. QED BY <1>2, <1>3 DEF AbortQueued

(* Whatever becomes of its terminal event, a cancelled run settles.        *)
LEMMA AbortSettlesKeeps ==
  ASSUME SchedulerInv, AbortSettles
  PROVE  SchedulerInv'
<1>1. /\ UNCHANGED <<host, accepting, aborting, actors, registering, retirement, kind, queue, active, activeActors,
                     agent, deferred, abandoning, starts>>
      /\ Aborting /\ mutex # <<>> /\ Head(mutex).cancel # NoRun /\ pumping' = TRUE /\ notifyIdle
      /\ TypeOK /\ MutexBook
  BY DEF AbortSettles, Aborting, Holds, admission, agents, SchedulerInv
<1>2. Head(mutex) = mutex[1] /\ mutex[1] \in SectionRecord /\ SectionOK(mutex[1]) /\ mutex \in Seq(SectionRecord)
  BY <1>1, HeadSection
<1>3. PICK r \in Runs : r = Head(mutex).cancel
  BY <1>1, <1>2 DEF SectionRecord
<1>4. /\ state[r] = "cancelling" /\ Live(r) /\ ActorOf[r] \in Actors
      /\ appendEvent(r, "ended") /\ settle(r) /\ AbortedNext(r, TRUE)
      /\ markReady(readyKeys, readySet, ActorOf[r])
  BY <1>1, <1>2, <1>3, RuntimeAssumption DEF AbortSettles, SectionOK, Live, Unstarted
<1>5. MutexBook' /\ mutex' \in Seq(SectionRecord) /\ awaited' \in [Actors -> SUBSET Runs]
  BY <1>1, <1>2, <1>4, SectionsBehind, AbortedNextMutex
<1>6. /\ state' \in [Runs -> {"new", "settled", "active"} \cup Unstarted] /\ queuedRuns' \in Nat
      /\ state'[r] = "settled" /\ (\A q \in Runs \ {r} : state'[q] = state[q])
      /\ CapacityExact' /\ LaneBook'
  BY <1>1, <1>4, UnstartedSettled
<1>7. /\ canon' \in [Runs -> {"none", "open", "deferred", "ended"}]
      /\ \A q \in Runs : canon[q] # "none" => canon'[q] # "none"
      /\ \A q \in Runs \ {r} : canon'[q] = canon[q]
  BY <1>1, <1>4 DEF appendEvent, TypeOK
<1>8. readyKeys' \in Seq(Actors) /\ readySet' \in SUBSET Actors
  <2>1. readyKeys \in Seq(Actors) /\ readySet \in SUBSET Actors
    BY <1>1 DEF TypeOK
  <2>2. QED BY <1>4, <2>1, ReadyTypes
<1>9. idle' \in {"none", "waiting", "resolved"}
  BY <1>1 DEF notifyIdle, TypeOK
<1>10. TypeOK'
  BY <1>1, <1>5, <1>6, <1>7, <1>8, <1>9 DEF TypeOK, SectionRecord
<1>11. RunBook'
  BY <1>1, <1>4, <1>6, <1>7 DEF SchedulerInv, RunBook, RunOK
<1>12. ActorBook'
  BY <1>1, <1>6, <1>7 DEF SchedulerInv, TypeOK, ActorBook, ActorOK
<1>13. IdleBook'
  BY <1>1, <1>4, <1>6, IdleNotified DEF SchedulerInv, IdleBook
<1>14. QED BY <1>5, <1>6, <1>10, <1>11, <1>12, <1>13 DEF SchedulerInv

-----------------------------------------------------------------------------
(* Deferred runs *)

(* The abandonment of a at the head of the mutex moves on: no other        *)
(* section relies on it.                                                   *)
LEMMA SectionsBehindAbandonment ==
  ASSUME TypeOK, MutexBook, mutex \in Seq(SectionRecord), mutex # <<>>, NEW a \in Actors,
         mutex[1].sort \in {"abandon", "abandoned"}, mutex[1].actor = a, SectionOK(mutex[1]),
         \A b \in Actors \ {a} : abandoning'[b] = abandoning[b],
         UNCHANGED <<actors, agent, active>>
  PROVE  KeepFrom(2)
<1>1. Len(mutex) \in Nat \ {0}
  BY EmptySeq, LenProperties
<1>2. abandoning[a].stage = IF mutex[1].sort = "abandon" THEN "queued" ELSE "local"
  BY DEF SectionOK
<1>3. ASSUME NEW i \in 2 .. Len(mutex), mutex[i].sort \in {"abandon", "abandoned"} PROVE mutex[i].actor # a
  <2>1. mutex[i].sort = mutex[1].sort => mutex[i].actor # a
    BY <1>1, <1>3 DEF MutexBook, Single
  <2>2. SectionOK(mutex[i])
    BY <1>1 DEF MutexBook
  <2>3. mutex[i].actor = a => abandoning[a].stage = IF mutex[i].sort = "abandon" THEN "queued" ELSE "local"
    BY <1>3, <2>2 DEF SectionOK
  <2>4. QED BY <1>2, <1>3, <2>1, <2>3
<1>4. \A t \in SectionRecord :
        SectionOK(t) /\ t.cancel = NoRun /\ (t.sort \in {"abandon", "abandoned"} => t.actor # a) => SectionOK(t)'
  BY RuntimeAssumption DEF SectionOK, OfRun
<1>5. QED BY <1>1, <1>3, <1>4 DEF MutexBook, KeepFrom

(* The section at the head ends, or ends and has the lane looked at.       *)
LEMMA MutexLeft ==
  ASSUME TypeOK, MutexBook, mutex \in Seq(SectionRecord), mutex # <<>>, KeepFrom(2), NEW a \in Actors,
         mutex' = Tail(mutex) \/ mutex' = Append(Tail(mutex), Section("ready", a, NoRun))
  PROVE  /\ MutexBook' /\ mutex' \in Seq(SectionRecord)
         /\ mutex[1].sort \notin Pending => (pendingAdmissions' <=> pendingAdmissions)
<1>1. PICK s \in SectionRecord : s = Section("ready", a, NoRun) /\ s.sort = "ready" /\ s.actor = a /\ s.cancel = NoRun
  BY NewSection DEF Sorts
<1>2. SectionOK(s)'
  BY <1>1 DEF SectionOK, OfRun, OfActor, Begun, Pending
<1>3. CASE mutex' = Tail(mutex)
  BY <1>3, MutexAdvanced
<1>4. CASE mutex' = Append(Tail(mutex), s)
  BY <1>1, <1>2, <1>4, MutexRequeued DEF Begun, Single, Pending
<1>5. QED BY <1>1, <1>3, <1>4

LEMMA AbandonSectionKeeps ==
  ASSUME SchedulerInv, AbandonSection
  PROVE  SchedulerInv'
<1>1. /\ UNCHANGED <<host, accepting, aborting, idle, actors, registering, retirement, awaited, kind, active, readyKeys,
                     readySet, queuedRuns, activeActors, pumping, agent, deferred, canon, starts>>
      /\ mutex # <<>> /\ Head(mutex).sort = "abandon" /\ TypeOK /\ MutexBook
  BY DEF AbandonSection, Holds, admission, registry, ready, counters, stored, SchedulerInv
<1>2. Head(mutex) = mutex[1] /\ mutex[1] \in SectionRecord /\ SectionOK(mutex[1]) /\ mutex \in Seq(SectionRecord)
  BY <1>1, HeadSection
<1>3. PICK r \in Runs : r = Head(mutex).run /\ Head(mutex).actor = ActorOf[r]
  BY <1>1, <1>2 DEF SectionOK, OfRun, Pending
<1> DEFINE a == ActorOf[r]
<1>4. a \in Actors /\ abandoning[a] = [stage |-> "queued", run |-> r]
  BY <1>1, <1>2, <1>3, RuntimeAssumption DEF SectionOK
<1>5. \/ /\ state[r] # "active" /\ abandoning' = [abandoning EXCEPT ![a].stage = "agent"]
         /\ removeQueuedRun(a, r) /\ state' = [state EXCEPT ![r] = IF Live(r) THEN "cancelling" ELSE @]
      \/ abandoning' = [abandoning EXCEPT ![a] = NotAbandoning] /\ UNCHANGED <<queue, state>>
  BY <1>3 DEF AbandonSection
<1>6. mutex' = Tail(mutex) \/ mutex' = Append(Tail(mutex), Section("ready", a, NoRun))
  BY <1>3 DEF AbandonSection
<1>7. /\ abandoning' \in [Actors -> [stage : {"none", "queued", "agent", "emitting", "local"}, run : Runs \cup {NoRun}]]
      /\ (\A b \in Actors \ {a} : abandoning'[b] = abandoning[b])
      /\ abandoning'[a] \in {[stage |-> "agent", run |-> r], NotAbandoning}
      /\ abandoning'[a] # NotAbandoning => state[r] # "active" /\ removeQueuedRun(a, r)
           /\ state' = [state EXCEPT ![r] = IF Live(r) THEN "cancelling" ELSE @]
  <2>1. CASE abandoning' = [abandoning EXCEPT ![a] = NotAbandoning]
    BY <1>1, <1>4, <2>1 DEF TypeOK, NotAbandoning
  <2>2. CASE abandoning' = [abandoning EXCEPT ![a].stage = "agent"]
    <3>1. abandoning'[a] = [stage |-> "agent", run |-> r] /\ \A b \in Actors \ {a} : abandoning'[b] = abandoning[b]
      BY <1>1, <1>4, <2>2 DEF TypeOK
    <3>2. abandoning' # [abandoning EXCEPT ![a] = NotAbandoning]
      BY <1>1, <1>4, <3>1 DEF TypeOK, NotAbandoning
    <3>3. QED BY <1>1, <1>4, <1>5, <2>2, <3>1, <3>2 DEF TypeOK
  <2>3. QED BY <1>5, <2>1, <2>2
<1>8. /\ RunBook' /\ LaneBook' /\ CapacityExact' /\ queue' \in [Actors -> Seq(Runs)]
      /\ state' \in [Runs -> {"new", "settled", "active"} \cup Unstarted]
      /\ \A q \in Runs : Live(q)' <=> Live(q)
      /\ \A q \in Runs : state[q] = "cancelling" => state'[q] = "cancelling"
      /\ \A q \in Runs : state'[q] \in {"ready", "active"} => state[q] \in {"ready", "active"}
      /\ abandoning'[a] # NotAbandoning => state'[r] \notin {"ready", "active"}
  <2>1. CASE UNCHANGED <<queue, state>> /\ abandoning'[a] = NotAbandoning
    BY <1>1, <2>1, RunBookKept, LaneBookKept, CapacityKept DEF SchedulerInv, TypeOK, Live, Unstarted
  <2>2. CASE /\ state[r] # "active" /\ removeQueuedRun(a, r)
             /\ state' = [state EXCEPT ![r] = IF Live(r) THEN "cancelling" ELSE @]
    <3>1. CASE Live(r)
      <4>1. state[r] \in Unstarted /\ state' = [state EXCEPT ![r] = "cancelling"]
        BY <2>2, <3>1 DEF Live
      <4>2. /\ RunBook' /\ LaneBook' /\ CapacityExact' /\ queue' \in [Actors -> Seq(Runs)]
            /\ state' \in [Runs -> {"new", "settled", "active"} \cup Unstarted]
            /\ state'[r] = "cancelling" /\ (\A q \in Runs \ {r} : state'[q] = state[q])
            /\ \A q \in Runs : Live(q)' <=> Live(q)
        BY <1>1, <2>2, <4>1, CancelledKeeps
      <4>3. QED BY <4>2
    <3>2. CASE ~Live(r)
      <4>1. UNCHANGED state /\ state[r] \notin {"ready", "active"} /\ state' = [state EXCEPT ![r] = state[r]]
        BY <1>1, <2>2, <3>2 DEF Live, Unstarted, TypeOK
      <4>2. \A q \in Runs : Live(q)' <=> Live(q)
        BY <4>1 DEF Live, Unstarted
      <4>3. LaneBook' /\ queue' \in [Actors -> Seq(Runs)]
        BY <1>1, <2>2, <4>1, <4>2, LaneBookRemoved DEF SchedulerInv
      <4>4. RunBook' /\ CapacityExact'
        BY <1>1, <4>1, RunBookKept, CapacityKept DEF SchedulerInv
      <4>5. QED BY <1>1, <4>1, <4>2, <4>3, <4>4 DEF TypeOK
    <3>3. QED BY <3>1, <3>2
  <2>3. QED BY <1>1, <1>4, <1>5, <1>7, <2>1, <2>2 DEF TypeOK, NotAbandoning
<1>9. KeepFrom(2)
  BY <1>1, <1>2, <1>3, <1>4, <1>7, SectionsBehindAbandonment
<1>10. MutexBook' /\ mutex' \in Seq(SectionRecord) /\ (pendingAdmissions' <=> pendingAdmissions)
  BY <1>1, <1>2, <1>4, <1>6, <1>9, MutexLeft DEF Pending
<1>11. TypeOK'
  BY <1>1, <1>7, <1>8, <1>10 DEF TypeOK, SectionRecord
<1>12. ActorBook'
  <2>1. canon[r] # "none"
    BY <1>4 DEF SchedulerInv, ActorBook, ActorOK
  <2>2. ASSUME NEW b \in Actors \ {a} PROVE ActorOK(b)'
    BY <1>1, <1>7, <1>8 DEF SchedulerInv, TypeOK, ActorBook, ActorOK
  <2>3. ActorOK(a)'
    <3>1. ActorOK(a)
      BY <1>4 DEF SchedulerInv, ActorBook
    <3>2. CASE abandoning'[a] = NotAbandoning
      BY <1>1, <3>1, <3>2 DEF ActorOK, NotAbandoning
    <3>3. CASE abandoning'[a] # NotAbandoning
      BY <1>1, <1>7, <1>8, <2>1, <3>1, <3>3 DEF ActorOK, NotAbandoning
    <3>4. QED BY <3>2, <3>3
  <2>4. QED BY <2>2, <2>3 DEF ActorBook
<1>13. IdleBook'
  <2>1. isIdle' <=> isIdle
    BY <1>1, <1>8, <1>10 DEF isIdle, Retiring, RunsOf
  <2>2. QED BY <1>1, <1>8, <1>10, <2>1 DEF SchedulerInv, IdleBook
<1>14. QED BY <1>8, <1>10, <1>11, <1>12, <1>13 DEF SchedulerInv

LEMMA AbandonedSectionKeeps ==
  ASSUME SchedulerInv, AbandonedSection
  PROVE  SchedulerInv'
<1>1. /\ UNCHANGED <<host, accepting, aborting, actors, registering, retirement, awaited, kind, queue, active,
                     activeActors, agent, deferred, canon, starts>>
      /\ mutex # <<>> /\ Head(mutex).sort = "abandoned" /\ pumping' = TRUE /\ notifyIdle /\ TypeOK /\ MutexBook
  BY DEF AbandonedSection, Holds, admission, registry, stored, SchedulerInv
<1>2. Head(mutex) = mutex[1] /\ mutex[1] \in SectionRecord /\ SectionOK(mutex[1]) /\ mutex \in Seq(SectionRecord)
  BY <1>1, HeadSection
<1>3. PICK r \in Runs : r = Head(mutex).run /\ Head(mutex).actor = ActorOf[r]
  BY <1>1, <1>2 DEF SectionOK, OfRun, Pending
<1> DEFINE a == ActorOf[r]
<1>4. a \in Actors /\ abandoning[a] = [stage |-> "local", run |-> r]
  BY <1>1, <1>2, <1>3, RuntimeAssumption DEF SectionOK
<1>5. /\ IF Live(r) THEN settle(r) ELSE UNCHANGED <<state, queuedRuns>>
      /\ abandoning' = [abandoning EXCEPT ![a] = NotAbandoning] /\ markReady(readyKeys, readySet, a)
      /\ mutex' = Append(Tail(mutex), Section("ready", a, NoRun))
  BY <1>3 DEF AbandonedSection
<1>6. /\ abandoning' \in [Actors -> [stage : {"none", "queued", "agent", "emitting", "local"}, run : Runs \cup {NoRun}]]
      /\ abandoning'[a] = NotAbandoning /\ \A b \in Actors \ {a} : abandoning'[b] = abandoning[b]
  BY <1>1, <1>4, <1>5 DEF TypeOK, NotAbandoning
<1>7. /\ state' \in [Runs -> {"new", "settled", "active"} \cup Unstarted] /\ queuedRuns' \in Nat
      /\ UNCHANGED state \/ (Live(r) /\ state'[r] = "settled" /\ \A q \in Runs \ {r} : state'[q] = state[q])
      /\ CapacityExact' /\ LaneBook'
  <2>1. CASE Live(r)
    <3>1. state[r] \in {"admitting", "cancelling"}
      BY <1>4, <2>1 DEF SchedulerInv, ActorBook, ActorOK, Live, Unstarted
    <3>2. QED BY <1>1, <1>5, <2>1, <3>1, UnstartedSettled
  <2>2. CASE ~Live(r)
    BY <1>1, <1>5, <2>2, CapacityKept, LaneBookKept DEF SchedulerInv, TypeOK
  <2>3. QED BY <2>1, <2>2
<1>8. KeepFrom(2)
  BY <1>1, <1>2, <1>3, <1>4, <1>6, SectionsBehindAbandonment
<1>9. MutexBook' /\ mutex' \in Seq(SectionRecord) /\ (pendingAdmissions' <=> pendingAdmissions)
  BY <1>1, <1>2, <1>4, <1>5, <1>8, MutexLeft DEF Pending
<1>10. readyKeys' \in Seq(Actors) /\ readySet' \in SUBSET Actors
  <2>1. readyKeys \in Seq(Actors) /\ readySet \in SUBSET Actors
    BY <1>1 DEF TypeOK
  <2>2. QED BY <1>4, <1>5, <2>1, ReadyTypes
<1>11. idle' \in {"none", "waiting", "resolved"}
  BY <1>1 DEF notifyIdle, TypeOK
<1>12. TypeOK'
  BY <1>1, <1>6, <1>7, <1>9, <1>10, <1>11 DEF TypeOK, SectionRecord
<1>13. RunBook'
  <2>1. \A q \in Runs : state'[q] # state[q] => state'[q] = "settled"
    BY <1>7
  <2>2. QED BY <1>1, <2>1 DEF SchedulerInv, RunBook, RunOK
<1>14. ActorBook'
  <2>1. \A q \in Runs : state'[q] \in {"ready", "active"} => state[q] \in {"ready", "active"}
    BY <1>7
  <2>2. ASSUME NEW b \in Actors \ {a} PROVE ActorOK(b)'
    BY <1>1, <1>6, <2>1 DEF SchedulerInv, TypeOK, ActorBook, ActorOK
  <2>3. ActorOK(a)'
    BY <1>1, <1>4, <1>6 DEF SchedulerInv, ActorBook, ActorOK, NotAbandoning
  <2>4. QED BY <2>2, <2>3 DEF ActorBook
<1>15. IdleBook'
  <2>1. \A q \in Runs : Live(q)' => Live(q)
    BY <1>7 DEF Live, Unstarted
  <2>2. QED BY <1>1, <1>7, <1>9, <2>1, IdleNotified DEF SchedulerInv, IdleBook
<1>16. QED BY <1>7, <1>9, <1>12, <1>13, <1>14, <1>15 DEF SchedulerInv

(* A deferred run is put at the front of its lane. *)
LEMMA ResumedKeeps ==
  ASSUME SchedulerInv, NEW r \in Runs, NEW a \in Actors, a = ActorOf[r], a \in actors, ~Live(r),
         abandoning[a] = NotAbandoning, canon[r] # "none",
         canon' = [canon EXCEPT ![r] = "deferred"], state' = [state EXCEPT ![r] = "ready"],
         kind' = [kind EXCEPT ![r] = "resume"], queue' = [queue EXCEPT ![a] = <<r>> \o @],
         UNCHANGED <<active, actors, agent, deferred, abandoning, queuedRuns, activeActors, starts>>
  PROVE  /\ RunBook' /\ ActorBook' /\ LaneBook' /\ CapacityExact'
         /\ canon' \in [Runs -> {"none", "open", "deferred", "ended"}]
         /\ state' \in [Runs -> {"new", "settled", "active"} \cup Unstarted]
         /\ kind' \in [Runs -> {"prompt", "resume"}]
         /\ queue' \in [Actors -> Seq(Runs)]
<1> DEFINE old == queue[a]
           new == queue'[a]
<1>1. /\ TypeOK /\ state'[r] = "ready" /\ (\A q \in Runs \ {r} : state'[q] = state[q])
      /\ canon'[r] = "deferred" /\ (\A q \in Runs \ {r} : canon'[q] = canon[q])
      /\ kind'[r] = "resume" /\ (\A q \in Runs \ {r} : kind'[q] = kind[q])
      /\ canon' \in [Runs -> {"none", "open", "deferred", "ended"}]
      /\ state' \in [Runs -> {"new", "settled", "active"} \cup Unstarted]
      /\ kind' \in [Runs -> {"prompt", "resume"}]
  BY DEF SchedulerInv, TypeOK, Unstarted
<1>2. state[r] \notin Unstarted \cup {"active"}
  BY DEF Live
<1>3. RunBook'
  BY <1>1 DEF SchedulerInv, RunBook, RunOK
<1>4. ASSUME NEW b \in Actors PROVE ActorOK(b)'
  <2>1. ActorOK(b)
    BY DEF SchedulerInv, ActorBook
  <2>2. abandoning[b].stage # "none" => abandoning[b].run \in Runs \ {r}
    BY <2>1 DEF ActorOK, NotAbandoning
  <2>3. deferred[b] # NoRun => deferred[b] \in Runs
    BY <1>1 DEF TypeOK
  <2>4. QED BY <1>1, <2>1, <2>2, <2>3 DEF ActorOK
<1>5. Prompts' = Prompts
  BY <1>1, <1>2 DEF Prompts
<1>6. CapacityExact'
  BY <1>1, <1>5, QueuedCounted, CapacityQueued DEF SchedulerInv
<1>7. /\ old \in Seq(Runs) /\ new \in Seq(Runs) /\ Len(new) = Len(old) + 1 /\ new[1] = r /\ Len(old) \in Nat
      /\ (\A i \in 2 .. Len(old) + 1 : new[i] = old[i - 1] /\ i - 1 \in 1 .. Len(old))
      /\ \A b \in Actors \ {a} : queue'[b] = queue[b]
  <2>1. old \in Seq(Runs) /\ new = <<r>> \o old /\ \A b \in Actors \ {a} : queue'[b] = queue[b]
    BY <1>1 DEF TypeOK
  <2>2. <<r>> \in Seq(Runs) /\ Len(<<r>>) = 1 /\ <<r>>[1] = r /\ Len(old) \in Nat
    BY <2>1, LenProperties
  <2>3. PICK one \in Seq(Runs) : one = <<r>>
    BY <2>2
  <2>4. /\ one \o old \in Seq(Runs) /\ Len(one \o old) = Len(one) + Len(old)
        /\ \A i \in 1 .. Len(one) + Len(old) : (one \o old)[i] =
             IF i <= Len(one) THEN one[i] ELSE old[i - Len(one)]
    BY <2>1, <2>3, ConcatProperties
  <2>5. QED BY <2>1, <2>2, <2>3, <2>4
<1>8. queue' \in [Actors -> Seq(Runs)]
  BY <1>1, <1>7 DEF TypeOK
<1>9. \A b \in Actors : \A i \in 1 .. Len(queue[b]) :
        queue[b][i] \in Runs \ {r} /\ ActorOf[queue[b][i]] = b /\ state[queue[b][i]] = "ready"
  <2>1. \A b \in Actors : \A i \in 1 .. Len(queue[b]) :
          queue[b][i] \in Runs /\ ActorOf[queue[b][i]] = b /\ state[queue[b][i]] = "ready"
    BY <1>1, QueueEntries DEF SchedulerInv
  <2>2. QED BY <1>2, <2>1 DEF Unstarted
<1>10. ASSUME NEW b \in Actors
       PROVE  /\ \A i \in 1 .. Len(queue'[b]) : ActorOf[queue'[b][i]] = b /\ state'[queue'[b][i]] = "ready"
              /\ \A i, j \in 1 .. Len(queue'[b]) : queue'[b][i] = queue'[b][j] => i = j
  <2>1. CASE b = a
    <3>1. \A i \in 1 .. Len(new) : i = 1 \/ i \in 2 .. Len(old) + 1
      BY <1>7
    <3>2. \A i \in 2 .. Len(old) + 1 : new[i] \in Runs \ {r} /\ ActorOf[new[i]] = a /\ state[new[i]] = "ready"
      BY <1>7, <1>9
    <3>3. \A i \in 1 .. Len(new) : ActorOf[new[i]] = b /\ state'[new[i]] = "ready"
      BY <1>1, <1>7, <2>1, <3>1, <3>2
    <3>4. \A i, j \in 1 .. Len(old) : old[i] = old[j] => i = j
      BY DEF SchedulerInv, LaneBook
    <3>5. \A i, j \in 2 .. Len(old) + 1 : new[i] = new[j] => i = j
      <4>1. SUFFICES ASSUME NEW i \in 2 .. Len(old) + 1, NEW j \in 2 .. Len(old) + 1, new[i] = new[j] PROVE i = j
        OBVIOUS
      <4>2. i - 1 \in 1 .. Len(old) /\ j - 1 \in 1 .. Len(old) /\ old[i - 1] = old[j - 1]
        BY <1>7, <4>1
      <4>3. i - 1 = j - 1
        BY <3>4, <4>2
      <4>4. QED BY <1>7, <4>3
    <3>6. \A i, j \in 1 .. Len(new) : new[i] = new[j] => i = j
      BY <1>7, <3>1, <3>2, <3>5
    <3>7. QED BY <2>1, <3>3, <3>6
  <2>2. CASE b # a
    <3>1. queue'[b] = queue[b] /\ \A i \in 1 .. Len(queue[b]) : state'[queue[b][i]] = "ready"
      BY <1>1, <1>7, <1>9, <2>2
    <3>2. \A i, j \in 1 .. Len(queue[b]) : queue[b][i] = queue[b][j] => i = j
      BY DEF SchedulerInv, LaneBook
    <3>3. \A i \in 1 .. Len(queue[b]) : ActorOf[queue[b][i]] = b
      BY <1>9
    <3>4. PICK lane : lane = queue[b]
      OBVIOUS
    <3>5. /\ \A i \in 1 .. Len(lane) : ActorOf[lane[i]] = b /\ state'[lane[i]] = "ready"
          /\ \A i, j \in 1 .. Len(lane) : lane[i] = lane[j] => i = j
      BY <3>1, <3>2, <3>3, <3>4
    <3>6. queue'[b] = lane
      BY <3>1, <3>4
    <3>7. QED BY <3>5, <3>6
  <2>3. QED BY <2>1, <2>2
<1>11. ASSUME NEW q \in Runs, state'[q] = "ready"
       PROVE  \E i \in 1 .. Len(queue'[ActorOf[q]]) : queue'[ActorOf[q]][i] = q
  <2>1. CASE q = r
    <3>1. 1 \in 1 .. Len(new)
      BY <1>7
    <3>2. QED BY <1>7, <2>1, <3>1
  <2>2. CASE q # r
    <3>1. PICK i \in 1 .. Len(queue[ActorOf[q]]) : queue[ActorOf[q]][i] = q
      BY <1>1, <1>11, <2>2 DEF SchedulerInv, LaneBook
    <3>2. CASE ActorOf[q] = a
      <4>1. i + 1 \in 2 .. Len(old) + 1 /\ (i + 1) - 1 = i
        BY <1>7, <3>1, <3>2
      <4>2. new[i + 1] = q /\ i + 1 \in 1 .. Len(new)
        BY <1>7, <3>1, <3>2, <4>1
      <4>3. QED BY <3>2, <4>2
    <3>3. CASE ActorOf[q] # a
      BY <1>7, <3>1, <3>3, RuntimeAssumption
    <3>4. QED BY <3>2, <3>3
  <2>3. QED BY <2>1, <2>2
<1>12. \A b \in Actors, q \in Runs : active'[b] = q <=> state'[q] = "active" /\ ActorOf[q] = b
  BY <1>1, <1>2 DEF SchedulerInv, LaneBook
<1>13. \A q \in Runs : Live(q)' => ActorOf[q] \in actors'
  BY <1>1 DEF SchedulerInv, LaneBook, Live, Unstarted
<1>14. LaneBook'
  BY <1>8, <1>10, <1>11, <1>12, <1>13 DEF LaneBook
<1>15. QED BY <1>1, <1>3, <1>4, <1>6, <1>8, <1>14 DEF ActorBook

LEMMA ResumeSectionKeeps ==
  ASSUME SchedulerInv, ResumeSection
  PROVE  SchedulerInv'
<1>1. /\ UNCHANGED <<host, accepting, aborting, actors, registering, retirement, awaited, active,
                     queuedRuns, activeActors, agent, deferred, abandoning, starts>>
      /\ mutex # <<>> /\ Head(mutex).sort = "resuming" /\ mutex' = Tail(mutex) /\ notifyIdle
      /\ TypeOK /\ MutexBook
  BY DEF ResumeSection, Holds, admission, registry, counters, agents, SchedulerInv
<1>2. Head(mutex) = mutex[1] /\ mutex[1] \in SectionRecord /\ SectionOK(mutex[1]) /\ mutex \in Seq(SectionRecord)
      /\ Len(mutex) \in Nat \ {0}
  BY <1>1, HeadSection
<1>3. PICK r \in Runs : r = Head(mutex).run /\ Head(mutex).actor = ActorOf[r]
  BY <1>1, <1>2 DEF SectionOK, OfRun, Pending
<1> DEFINE a == ActorOf[r]
<1>4. a \in Actors /\ a \in actors
  BY <1>1, <1>2, <1>3, RuntimeAssumption DEF SectionOK, Begun
<1>5. \/ /\ canResume(a, r) /\ canon' = [canon EXCEPT ![r] = "deferred"] /\ state' = [state EXCEPT ![r] = "ready"]
         /\ kind' = [kind EXCEPT ![r] = "resume"] /\ queue' = [queue EXCEPT ![a] = <<r>> \o @]
         /\ markReady(readyKeys, readySet, a) /\ pumping' = TRUE
      \/ /\ UNCHANGED <<state, kind, queue, readyKeys, readySet, pumping>>
         /\ UNCHANGED canon \/ (canon[r] # "none" /\ canon' = [canon EXCEPT ![r] = "deferred"])
  BY <1>3 DEF ResumeSection, ready
<1>6. MutexBook' /\ mutex' \in Seq(SectionRecord)
  BY <1>1, <1>2, SectionsBehind, MutexAdvanced
<1>7. idle' \in {"none", "waiting", "resolved"}
  BY <1>1 DEF notifyIdle, TypeOK
<1>8. pendingAdmissions
  BY <1>1, <1>2 DEF pendingAdmissions
<1>9. CASE /\ canResume(a, r) /\ canon' = [canon EXCEPT ![r] = "deferred"] /\ state' = [state EXCEPT ![r] = "ready"]
           /\ kind' = [kind EXCEPT ![r] = "resume"] /\ queue' = [queue EXCEPT ![a] = <<r>> \o @]
           /\ markReady(readyKeys, readySet, a) /\ pumping' = TRUE
  <2>1. ~Live(r) /\ abandoning[a] = NotAbandoning /\ canon[r] # "none"
    BY <1>9 DEF canResume
  <2>2. /\ RunBook' /\ ActorBook' /\ LaneBook' /\ CapacityExact'
        /\ canon' \in [Runs -> {"none", "open", "deferred", "ended"}]
        /\ state' \in [Runs -> {"new", "settled", "active"} \cup Unstarted]
        /\ kind' \in [Runs -> {"prompt", "resume"}]
        /\ queue' \in [Actors -> Seq(Runs)]
    BY <1>1, <1>4, <1>9, <2>1, ResumedKeeps
  <2>3. readyKeys' \in Seq(Actors) /\ readySet' \in SUBSET Actors
    BY <1>1, <1>4, <1>9, ReadyTypes DEF TypeOK
  <2>4. TypeOK'
    BY <1>1, <1>6, <1>7, <1>9, <2>2, <2>3 DEF TypeOK, SectionRecord
  <2>5. IdleBook'
    BY <1>1, <1>8, <2>2, IdleNotified DEF SchedulerInv, IdleBook
  <2>6. QED BY <1>6, <2>2, <2>4, <2>5 DEF SchedulerInv
<1>10. CASE /\ UNCHANGED <<state, kind, queue, readyKeys, readySet, pumping>>
            /\ UNCHANGED canon \/ (canon[r] # "none" /\ canon' = [canon EXCEPT ![r] = "deferred"])
  <2>1. canon' \in [Runs -> {"none", "open", "deferred", "ended"}] /\ Recorded
    BY <1>1, <1>10, EventAppended DEF Recorded, TypeOK
  <2>2. TypeOK'
    BY <1>1, <1>6, <1>7, <1>10, <2>1 DEF TypeOK, SectionRecord
  <2>3. LaneBook' /\ CapacityExact'
    BY <1>1, <1>10, LaneBookKept, CapacityKept DEF SchedulerInv
  <2>4. RunBook'
    BY <1>1, <1>10, <2>1 DEF SchedulerInv, RunBook, RunOK, Recorded
  <2>5. ActorBook'
    BY <1>1, <1>10, <2>1 DEF SchedulerInv, TypeOK, ActorBook, ActorOK, Recorded
  <2>6. IdleBook'
    BY <1>1, <1>8, <2>3, IdleNotified DEF SchedulerInv, IdleBook
  <2>7. QED BY <1>6, <2>2, <2>3, <2>4, <2>5, <2>6 DEF SchedulerInv
<1>11. QED BY <1>5, <1>9, <1>10

-----------------------------------------------------------------------------
(* The specification *)

LEMMA SchedulerStarts == Init => SchedulerInv
<1> SUFFICES ASSUME Init PROVE SchedulerInv
  OBVIOUS
<1>1. TypeOK
  <2>1. queue \in [Actors -> Seq(Runs)] /\ readyKeys \in Seq(Actors) /\ mutex \in Seq(SectionRecord)
    BY EmptySeq DEF Init
  <2>2. /\ retirement \in [Actors -> {"none", "queued", "awaiting", "releasing", "finishing"}]
        /\ awaited \in [Actors -> SUBSET Runs] /\ active \in [Actors -> Runs \cup {NoRun}]
        /\ agent \in [Actors -> {"idle", "running", "aborting", "refused"}]
        /\ deferred \in [Actors -> Runs \cup {NoRun}]
        /\ abandoning \in [Actors -> [stage : {"none", "queued", "agent", "emitting", "local"}, run : Runs \cup {NoRun}]]
    BY DEF Init, NotAbandoning
  <2>3. /\ state \in [Runs -> {"new", "settled", "active"} \cup Unstarted] /\ kind \in [Runs -> {"prompt", "resume"}]
        /\ canon \in [Runs -> {"none", "open", "deferred", "ended"}] /\ starts \in [Runs -> Nat]
    BY DEF Init, Unstarted
  <2>4. QED BY <2>1, <2>2, <2>3 DEF Init, TypeOK, SectionRecord
<1>2. MutexBook
  BY DEF Init, MutexBook
<1>3. RunBook
  BY DEF Init, RunBook, RunOK
<1>4. ActorBook
  BY DEF Init, ActorBook, ActorOK, NotAbandoning
<1>5. LaneBook
  BY RuntimeAssumption DEF Init, LaneBook, Live, Unstarted
<1>6. CapacityExact
  <2>1. {r \in Runs : kind[r] = "prompt" /\ state[r] \in Unstarted} = {} /\ {a \in Actors : active[a] # NoRun} = {}
    BY DEF Init, Unstarted
  <2>2. queuedRuns = 0 /\ activeActors = 0 /\ 0 <= MaxQueuedRuns /\ 0 <= MaxActiveActors
    BY RuntimeAssumption DEF Init
  <2>3. QED BY <2>1, <2>2, FS_EmptySet DEF CapacityExact
<1>7. IdleBook
  BY DEF Init, IdleBook
<1>8. QED BY <1>1, <1>2, <1>3, <1>4, <1>5, <1>6, <1>7 DEF SchedulerInv

LEMMA SchedulerStutters ==
  ASSUME SchedulerInv, UNCHANGED vars
  PROVE  SchedulerInv'
<1>1. UNCHANGED <<host, accepting, aborting, idle, actors, registering, retirement, awaited, state, kind, queue, active,
                  readyKeys, readySet, queuedRuns, activeActors, pumping, mutex, agent, deferred, abandoning, canon, starts>>
  BY DEF vars
<1>2. MutexBook' /\ (pendingAdmissions' <=> pendingAdmissions)
  BY <1>1, MutexStays, SectionsKept DEF SchedulerInv, TypeOK, SectionRecord
<1>3. TypeOK'
  BY <1>1 DEF SchedulerInv, TypeOK
<1>4. QED BY <1>1, <1>2, <1>3, QuietKept

LEMMA SchedulerSteps ==
  ASSUME SchedulerInv, Next
  PROVE  SchedulerInv'
<1>1. CASE Host
  BY <1>1, StartKeeps, HostRequests, AdmissionStops, AbandonRequested, RetirementRequested, RegistrationKeeps DEF Host
<1>2. CASE pump
  BY <1>2, PumpQuiet, PumpActivatesKeeps DEF pump
<1>3. CASE Sections
  BY <1>3, AdmissionEntersKeeps, SubmitSectionKeeps, AdmitSectionKeeps, FinishSectionKeeps, AbortActiveKeeps,
     AbortQueuedKeeps, AbortSkipsKeeps, AbortSettlesKeeps, AbortsDoneKeeps, AbortEveryRunKeeps, ResumeSectionKeeps,
     AbandonSectionKeeps, AbandonedSectionKeeps, ReadySectionKeeps, RetireSectionKeeps, ReleaseSectionKeeps,
     UnretireSectionKeeps DEF Sections
<1>4. ASSUME NEW a \in Actors,
             \/ AgentDefers(a) \/ AgentFetches(a) \/ AgentEnds(a) \/ finishStartFailure(a)
             \/ AgentAbandons(a) \/ AgentAbandoned(a)
      PROVE  SchedulerInv'
  BY <1>4, AgentPendsKeeps, AgentEndsKeeps, AgentAbandonsKeeps, AgentAbandonedKeeps
<1>5. CASE \E a \in Actors : RetireContinues(a)
  BY <1>5, RetirementRequested
<1>6. CASE \E batch \in registering : RegistrationEnds(batch)
  BY <1>6, RegistrationKeeps
<1>7. QED BY <1>1, <1>2, <1>3, <1>4, <1>5, <1>6 DEF Next

(* SchedulerInv is inductive. *)
THEOREM SchedulerInvariant == Spec => []SchedulerInv
<1>1. SchedulerInv /\ [Next]_vars => SchedulerInv'
  BY SchedulerSteps, SchedulerStutters
<1>2. QED BY <1>1, SchedulerStarts, PTL DEF Spec

(* Every variable of the scheduler keeps the type the runtime gives it. *)
THEOREM RuntimeTypeCorrect == Spec => []TypeOK
<1>1. SchedulerInv => TypeOK
  BY DEF SchedulerInv
<1>2. QED BY <1>1, SchedulerInvariant, PTL

(* However often an input is submitted, whatever the event store loses and *)
(* however its run is aborted, deferred, abandoned or resumed, the runtime *)
(* starts it at its agent at most once.                                    *)
THEOREM StartsOnce == Spec => []StartedAtMostOnce
<1>1. SchedulerInv => StartedAtMostOnce
  BY DEF SchedulerInv, RunBook, RunOK, StartedAtMostOnce
<1>2. QED BY <1>1, SchedulerInvariant, PTL

(* The queues hold exactly the ready runs, each once; an active run is its *)
(* actor's only one and no live run belongs to a released actor; the       *)
(* counters of maxQueuedRuns and maxActiveActors count what they stand for *)
(* and stay within their bounds; and the drain promise is neither missed   *)
(* nor early.                                                              *)
THEOREM BooksAgree == Spec => []LanesExact
<1>1. SchedulerInv => QueuesExact
  <2>1. SUFFICES ASSUME SchedulerInv PROVE QueuesExact
    OBVIOUS
  <2>2. ASSUME NEW r \in Runs
        PROVE  Cardinality({i \in 1 .. Len(queue[ActorOf[r]]) : queue[ActorOf[r]][i] = r})
                 = IF state[r] = "ready" THEN 1 ELSE 0
    <3> DEFINE places == {i \in 1 .. Len(queue[ActorOf[r]]) : queue[ActorOf[r]][i] = r}
    <3>1. ActorOf[r] \in Actors
      BY RuntimeAssumption
    <3>2. CASE state[r] = "ready"
      <4>1. PICK i \in 1 .. Len(queue[ActorOf[r]]) : queue[ActorOf[r]][i] = r
        BY <2>1, <3>2 DEF SchedulerInv, LaneBook
      <4>2. places = {i}
        BY <2>1, <3>1, <4>1 DEF SchedulerInv, LaneBook
      <4>3. QED BY <3>2, <4>2, FS_Singleton
    <3>3. CASE state[r] # "ready"
      <4>1. places = {}
        BY <2>1, <3>1, <3>3 DEF SchedulerInv, LaneBook
      <4>2. QED BY <3>3, <4>1, FS_EmptySet
    <3>4. QED BY <3>2, <3>3
  <2>3. QED BY <2>1, <2>2 DEF SchedulerInv, LaneBook, QueuesExact
<1>2. SchedulerInv => IdleExact
  <2>1. SUFFICES ASSUME SchedulerInv PROVE IdleExact
    OBVIOUS
  <2>2. ASSUME idle = "resolved", NEW a \in Actors PROVE agent[a] = "idle"
    BY <2>1, <2>2, WorkingAgent DEF SchedulerInv, IdleBook, Live
  <2>3. QED BY <2>1, <2>2 DEF SchedulerInv, IdleBook, IdleExact
<1>3. SchedulerInv => LanesExact
  BY <1>1, <1>2 DEF SchedulerInv, LanesExact
<1>4. QED BY <1>3, SchedulerInvariant, PTL
-----------------------------------------------------------------------------
(* No wakeup is lost *)

Listed(a) == \E i \in 1 .. Len(readyKeys) : readyKeys[i] = a

(* The section that will ready the lane once an abandonment is over.       *)
ReadyDue(a) == \E i \in 1 .. Len(mutex) : mutex[i].sort = "ready" /\ mutex[i].actor = a

(* A queued resume is the first of its lane, and while an operation is     *)
(* being abandoned no resume of a later one is queued.                     *)
ResumeFirst(a) ==
  /\ deferred[a] # NoRun /\ state[deferred[a]] = "ready" => queue[a] # <<>> /\ Head(queue[a]) = deferred[a]
  /\ abandoning[a] # NotAbandoning /\ deferred[a] \notin {NoRun, abandoning[a].run} => state[deferred[a]] # "ready"

(* An actor in the ready set is in the list, and an actor with work it may *)
(* start is in the set.                                                    *)
Awake(a) ==
  /\ a \in readySet => Listed(a)
  /\ Startable(a) /\ ~ReadyDue(a) => a \in readySet

SlotsUsed == ~pumping /\ ~aborting /\ activeActors < MaxActiveActors => readyKeys = <<>>

ReadyBook == (\A a \in Actors : ResumeFirst(a) /\ Awake(a)) /\ SlotsUsed

(* Taking out another element leaves the first.                            *)
LEMMA RemoveFirstHead ==
  ASSUME NEW S, NEW q \in Seq(S), NEW e, q # <<>>, Head(q) # e,
         \A i, j \in 1 .. Len(q) : q[i] = q[j] => i = j
  PROVE  RemoveFirst(q, e) # <<>> /\ Head(RemoveFirst(q, e)) = Head(q)
<1> DEFINE I == {i \in 1 .. Len(q) : q[i] = e}
<1>1. Len(q) \in Nat /\ Len(q) >= 1 /\ Head(q) = q[1] /\ q[1] # e
  BY EmptySeq
<1>2. CASE ~ \E i \in 1 .. Len(q) : q[i] = e
  BY <1>2 DEF RemoveFirst
<1>3. CASE \E i \in 1 .. Len(q) : q[i] = e
  <2> DEFINE k == SelectInSeq(q, LAMBDA v : v = e)
  <2>1. k \in I
    <3>1. PICK m \in 1 .. Len(q) : I = {m}
      BY <1>3
    <3>2. Min(I) = m
      BY <3>1 DEF Min
    <3>3. SelectInSeq(q, LAMBDA v : v = e) = Min(I)
      BY <3>1 DEF SelectInSeq
    <3>4. QED BY <3>1, <3>2, <3>3
  <2>2. k \in 2 .. Len(q)
    BY <1>1, <2>1
  <2> HIDE DEF k
  <2>3. RemoveFirst(q, e) = SubSeq(q, 1, k - 1) \o SubSeq(q, k + 1, Len(q))
    BY <1>3 DEF RemoveFirst, RemoveAt, k
  <2> DEFINE before == SubSeq(q, 1, k - 1)
             after == SubSeq(q, k + 1, Len(q))
  <2>4. before \in Seq(S) /\ Len(before) = k - 1 /\ before[1] = q[1] /\ after \in Seq(S) /\ Len(after) \in Nat
    BY <2>2, SubSeqProperties
  <2> HIDE DEF before, after
  <2>5. before \o after \in Seq(S) /\ Len(before \o after) >= 1 /\ (before \o after)[1] = q[1]
    BY <2>2, <2>4, ConcatProperties
  <2>6. RemoveFirst(q, e) = before \o after
    BY <2>3 DEF before, after
  <2>7. QED BY <1>1, <2>5, <2>6, EmptySeq
<1>4. QED BY <1>2, <1>3
-----------------------------------------------------------------------------

(* What a readied lane looks like afterwards.                              *)
LEMMA LaneReadied ==
  ASSUME NEW keys \in Seq(Actors), NEW set \in SUBSET Actors, NEW a \in Actors, markReady(keys, set, a)
  PROVE  /\ set \subseteq readySet' /\ readySet' \subseteq set \cup {a}
         /\ \A i \in 1 .. Len(keys) : Listed(keys[i])'
         /\ a \in readySet' => a \in set \/ Listed(a)'
         /\ Startable(a)' => a \in readySet'
<1>1. Len(keys) \in Nat /\ (readyKeys' = keys \/ readyKeys' = Append(keys, a))
  BY LenProperties DEF markReady, Enqueue
<1>2. \A i \in 1 .. Len(keys) : i \in 1 .. Len(readyKeys') /\ readyKeys'[i] = keys[i]
  BY <1>1, AppendProperties
<1>3. readyKeys' = Append(keys, a) => Listed(a)'
  BY <1>1, AppendProperties DEF Listed
<1>4. \A i \in 1 .. Len(keys) : Listed(keys[i])'
  BY <1>2 DEF Listed
<1>5. set \subseteq readySet' /\ readySet' \subseteq set \cup {a} /\ (a \in readySet' => a \in set \/ readyKeys' = Append(keys, a))
  BY DEF markReady, Enqueue
<1>6. Startable(a)' => a \in readySet'
  BY DEF markReady, Enqueue, Startable, Retiring
<1>7. QED BY <1>3, <1>4, <1>5, <1>6

(* A section is requested, or the one at the head moves on.                *)
LEMMA DueKept ==
  ASSUME TypeOK,
         \/ UNCHANGED mutex
         \/ \E s : mutex' = Append(mutex, s)
         \/ /\ mutex # <<>> /\ Head(mutex).sort # "ready"
            /\ \/ mutex' = Tail(mutex)
               \/ \E s : mutex' = Append(Tail(mutex), s) \/ mutex' = [mutex EXCEPT ![1] = s]
  PROVE  \A a \in Actors : ReadyDue(a) => ReadyDue(a)'
<1> SUFFICES ASSUME NEW a \in Actors, NEW i \in 1 .. Len(mutex), mutex[i].sort = "ready", mutex[i].actor = a
             PROVE  \E j \in 1 .. Len(mutex') : mutex'[j] = mutex[i]
  BY DEF ReadyDue
<1>1. mutex \in Seq(SectionRecord) /\ Len(mutex) \in Nat /\ \A j \in 1 .. Len(mutex) : mutex[j] \in SectionRecord
  BY LenProperties, ElementOfSeq DEF TypeOK, SectionRecord
<1>2. \A s : mutex \in Seq(SectionRecord \cup {s})
  <2>1. SUFFICES ASSUME NEW s PROVE mutex \in Seq(SectionRecord \cup {s})
    OBVIOUS
  <2>2. SectionRecord \subseteq SectionRecord \cup {s}
    OBVIOUS
  <2>3. QED BY <1>1, <2>2
<1>3. CASE UNCHANGED mutex
  BY <1>3
<1>4. ASSUME NEW s, mutex' = Append(mutex, s) PROVE \E j \in 1 .. Len(mutex') : mutex'[j] = mutex[i]
  <2>1. Len(mutex') = Len(mutex) + 1 /\ mutex'[i] = mutex[i]
    BY <1>1, <1>2, <1>4, AppendProperties
  <2>2. QED BY <1>1, <2>1
<1>5. ASSUME mutex # <<>>, Head(mutex).sort # "ready",
             \/ mutex' = Tail(mutex)
             \/ \E s : mutex' = Append(Tail(mutex), s) \/ mutex' = [mutex EXCEPT ![1] = s]
      PROVE  \E j \in 1 .. Len(mutex') : mutex'[j] = mutex[i]
  <2> DEFINE q == Tail(mutex)
  <2>1. /\ q \in Seq(SectionRecord) /\ Len(q) = Len(mutex) - 1
        /\ \A j \in 1 .. Len(q) : q[j] = mutex[j + 1]
        /\ Len(mutex) >= 1 /\ Head(mutex) = mutex[1]
    BY <1>1, <1>5, HeadTailProperties, EmptySeq
  <2>2. i \in 2 .. Len(mutex)
    BY <1>1, <1>5, <2>1
  <2>3. i - 1 \in 1 .. Len(q) /\ q[i - 1] = mutex[i] /\ Len(q) \in Nat
    BY <1>1, <2>1, <2>2
  <2>4. CASE mutex' = Tail(mutex)
    BY <2>3, <2>4
  <2>5. ASSUME NEW s, mutex' = Append(Tail(mutex), s) PROVE \E j \in 1 .. Len(mutex') : mutex'[j] = mutex[i]
    <3>1. q \in Seq(SectionRecord \cup {s}) /\ mutex' = Append(q, s)
      <4>1. mutex \in Seq(SectionRecord \cup {s}) /\ mutex # <<>>
        BY <1>2, <1>5
      <4>2. QED BY <2>5, <4>1, HeadTailProperties
    <3> HIDE DEF q
    <3>2. Len(mutex') = Len(q) + 1 /\ mutex'[i - 1] = q[i - 1]
      BY <2>3, <3>1, AppendProperties
    <3>3. QED BY <2>3, <3>2
  <2>6. ASSUME NEW s, mutex' = [mutex EXCEPT ![1] = s] PROVE \E j \in 1 .. Len(mutex') : mutex'[j] = mutex[i]
    <3>1. Len(mutex') = Len(mutex) /\ mutex'[i] = mutex[i]
      BY <1>1, <1>2, <2>2, <2>6, ExceptSeq
    <3>2. QED BY <3>1
  <2>7. QED BY <1>5, <2>4, <2>5, <2>6
<1>6. QED BY <1>3, <1>4, <1>5

(* The ready list stays, nothing becomes startable and no slot gets free.  *)
LEMMA AwakeKept ==
  ASSUME ReadyBook, UNCHANGED <<readyKeys, readySet, activeActors>>, pumping => pumping', aborting => aborting',
         \A a \in Actors : Startable(a)' /\ ~ReadyDue(a)' => Startable(a) /\ ~ReadyDue(a)
  PROVE  (\A a \in Actors : Awake(a)') /\ SlotsUsed'
<1>1. \A a \in Actors : Listed(a)' <=> Listed(a)
  BY DEF Listed
<1>2. \A a \in Actors : Awake(a)'
  BY <1>1 DEF ReadyBook, Awake
<1>3. QED BY <1>2 DEF ReadyBook, SlotsUsed

(* Lane a is readied and the pump will run; the other lanes stay.          *)
LEMMA AwakeReadied ==
  ASSUME TypeOK, ReadyBook, NEW a \in Actors, markReady(readyKeys, readySet, a), pumping' = TRUE,
         \A b \in Actors \ {a} : Startable(b)' /\ ~ReadyDue(b)' => Startable(b) /\ ~ReadyDue(b)
  PROVE  (\A b \in Actors : Awake(b)') /\ SlotsUsed'
<1>0. PICK keys \in Seq(Actors), set \in SUBSET Actors : keys = readyKeys /\ set = readySet
  BY DEF TypeOK
<1>1. /\ readySet \subseteq readySet' /\ readySet' \subseteq readySet \cup {a}
      /\ \A i \in 1 .. Len(keys) : Listed(keys[i])'
      /\ a \in readySet' => a \in readySet \/ Listed(a)'
      /\ Startable(a)' => a \in readySet'
  BY <1>0, LaneReadied
<1>2. \A b \in Actors : Listed(b) => Listed(b)'
  BY <1>0, <1>1 DEF Listed
<1>3. Awake(a)'
  BY <1>1, <1>2 DEF ReadyBook, Awake
<1>4. \A b \in Actors \ {a} : Awake(b)'
  BY <1>1, <1>2 DEF ReadyBook, Awake
<1>5. QED BY <1>3, <1>4 DEF SlotsUsed


(* No lane changes, except that an actor may be retired or released.       *)
LEMMA ReadyQuiet ==
  ASSUME TypeOK, ReadyBook,
         UNCHANGED <<queue, active, readyKeys, readySet, activeActors, deferred, abandoning>>,
         pumping => pumping', aborting => aborting',
         \A a \in Actors : (a \in actors' => a \in actors) /\ (retirement'[a] = retirement[a] \/ retirement'[a] # "none"),
         \A r \in Runs : state'[r] = "ready" => state[r] = "ready",
         \A a \in Actors : ReadyDue(a) => ReadyDue(a)'
  PROVE  ReadyBook'
<1>1. \A a \in Actors : Startable(a)' => Startable(a)
  BY DEF Startable, Retiring
<1>2. \A a \in Actors : ResumeFirst(a)'
  BY DEF ReadyBook, ResumeFirst, TypeOK
<1>3. (\A a \in Actors : Awake(a)') /\ SlotsUsed'
  BY <1>1, AwakeKept
<1>4. QED BY <1>2, <1>3 DEF ReadyBook

LEMMA RequestsKeepReady ==
  ASSUME SchedulerInv, ReadyBook,
         \/ \E r \in Runs : start(r) \/ submit(r) \/ abortRun(r)
         \/ stopAdmission \/ abortAll
         \/ \E a \in Actors : \/ resumeDeferred(a) \/ retireActor(a) \/ RetireContinues(a)
                              \/ AgentEnds(a) \/ finishStartFailure(a)
         \/ \E batch : registerActors(batch)
  PROVE  ReadyBook'
<1> USE DEF admission, registry, lanes, ready, counters, agents, stored
<1>1. TypeOK
  BY DEF SchedulerInv
<1>2. \A a \in Actors : ReadyDue(a) => ReadyDue(a)'
  <2>1. UNCHANGED mutex \/ \E s : mutex' = Append(mutex, s)
    BY DEF start, submit, abortRun, stopAdmission, abortAll, resumeDeferred, retireActor, RetireContinues,
           AgentEnds, finishStartFailure, registerActors
  <2>2. QED BY <1>1, <2>1, DueKept
<1>3. UNCHANGED <<queue, active, readyKeys, readySet, activeActors, deferred, abandoning, actors, pumping>>
  <2>1. UNCHANGED <<queue, active>> /\ UNCHANGED <<readyKeys, readySet, activeActors, pumping>>
    BY DEF start, submit, abortRun, stopAdmission, abortAll, resumeDeferred, retireActor, RetireContinues,
           AgentEnds, finishStartFailure, registerActors
  <2>2. UNCHANGED <<deferred, abandoning, actors>>
    BY DEF start, submit, abortRun, stopAdmission, abortAll, resumeDeferred, retireActor, RetireContinues,
           AgentEnds, finishStartFailure, registerActors
  <2>3. QED BY <2>1, <2>2
<1>. aborting => aborting'
  BY DEF start, submit, abortRun, stopAdmission, abortAll, resumeDeferred, retireActor, RetireContinues,
           AgentEnds, finishStartFailure, registerActors
<1>4. \A r \in Runs : state'[r] = "ready" => state[r] = "ready"
  <2>1. UNCHANGED state \/ \E r \in Runs : state' = [state EXCEPT ![r] = "admitting"]
    BY DEF start, submit, abortRun, stopAdmission, abortAll, resumeDeferred, retireActor, RetireContinues,
           AgentEnds, finishStartFailure, registerActors
  <2>2. QED BY <1>1, <2>1 DEF TypeOK
<1>5. \A a \in Actors : retirement'[a] = retirement[a] \/ retirement'[a] # "none"
  <2>1. \/ UNCHANGED retirement
        \/ \E a \in Actors, stage \in {"queued", "releasing"} : retirement' = [retirement EXCEPT ![a] = stage]
    BY DEF start, submit, abortRun, stopAdmission, abortAll, resumeDeferred, retireActor, RetireContinues,
           AgentEnds, finishStartFailure, registerActors
  <2>2. QED BY <1>1, <2>1 DEF TypeOK
<1>6. QED BY <1>1, <1>2, <1>3, <1>4, <1>5, ReadyQuiet


(* What the head section does to the queue of sections where it is not one *)
(* that readies a lane.                                                    *)
LEMMA HeadServed ==
  ASSUME SchedulerInv, mutex # <<>>, Head(mutex).sort # "ready",
         \/ mutex' = Tail(mutex) \/ \E s : mutex' = Append(Tail(mutex), s) \/ mutex' = [mutex EXCEPT ![1] = s]
  PROVE  \A a \in Actors : ReadyDue(a) => ReadyDue(a)'
  BY DueKept DEF SchedulerInv

LEMMA SectionsKeepReady ==
  ASSUME SchedulerInv, ReadyBook,
         \/ AdmissionEnters \/ SubmitSection \/ AbortsDone \/ abortEveryRun \/ RetireSection
         \/ \E r \in Runs : AbortActive(r) \/ AbortSkips(r)
  PROVE  ReadyBook'
<1> USE DEF admission, registry, lanes, ready, counters, agents, stored
<1>1. TypeOK
  BY DEF SchedulerInv
<1>2. \A a \in Actors : ReadyDue(a) => ReadyDue(a)'
  <2>1. mutex # <<>> /\ Head(mutex).sort # "ready"
    BY DEF AdmissionEnters, SubmitSection, AbortsDone, abortEveryRun, RetireSection, AbortActive, AbortSkips, AbortTurn,
           Aborting, Holds
  <2>2. \/ mutex' = Tail(mutex) \/ \E s : mutex' = Append(Tail(mutex), s) \/ mutex' = [mutex EXCEPT ![1] = s]
    <3>1. CASE AdmissionEnters
      BY <3>1 DEF AdmissionEnters
    <3>2. CASE SubmitSection
      BY <3>2 DEF SubmitSection
    <3>3. CASE AbortsDone
      BY <3>3 DEF AbortsDone
    <3>4. CASE abortEveryRun
      BY <3>4 DEF abortEveryRun
    <3>5. CASE RetireSection
      BY <3>5 DEF RetireSection
    <3>6. CASE \E r \in Runs : AbortActive(r) \/ AbortSkips(r)
      BY <3>6 DEF AbortActive, AbortSkips, AbortedNext
    <3>7. QED BY <3>1, <3>2, <3>3, <3>4, <3>5, <3>6
  <2>3. QED BY <2>1, <2>2, HeadServed
<1>3. UNCHANGED <<queue, active, readyKeys, readySet, activeActors, deferred, abandoning, actors, pumping, aborting>>
  <2>1. UNCHANGED <<queue, active, actors>> /\ UNCHANGED <<readyKeys, readySet, activeActors>>
    BY DEF AdmissionEnters, SubmitSection, AbortsDone, abortEveryRun, RetireSection, AbortActive, AbortSkips
  <2>2. UNCHANGED <<deferred, abandoning>> /\ UNCHANGED <<pumping, aborting>>
    BY DEF AdmissionEnters, SubmitSection, AbortsDone, abortEveryRun, RetireSection, AbortActive, AbortSkips
  <2>3. QED BY <2>1, <2>2
<1>4. \A r \in Runs : state'[r] = "ready" => state[r] = "ready"
  BY <1>1 DEF TypeOK, AdmissionEnters, SubmitSection, AbortsDone, abortEveryRun, RetireSection, AbortActive, AbortSkips
<1>5. \A a \in Actors : retirement'[a] = retirement[a] \/ retirement'[a] # "none"
  BY <1>1 DEF TypeOK, AdmissionEnters, SubmitSection, AbortsDone, abortEveryRun, RetireSection, AbortActive, AbortSkips
<1>6. QED BY <1>1, <1>2, <1>3, <1>4, <1>5, ReadyQuiet

(* The provider defers or has answered; an active lane is not startable.   *)
LEMMA AgentPendsKeepsReady ==
  ASSUME SchedulerInv, ReadyBook, NEW a \in Actors, AgentDefers(a) \/ AgentFetches(a)
  PROVE  ReadyBook'
<1>1. /\ UNCHANGED <<state, queue, active, readyKeys, readySet, activeActors, abandoning, actors, retirement, pumping, aborting, mutex>>
      /\ agent[a] # "idle" /\ deferred' = [deferred EXCEPT ![a] = deferred'[a]] /\ deferred'[a] \in {NoRun, active[a]}
      /\ TypeOK
  BY DEF AgentDefers, AgentFetches, admission, registry, lanes, ready, counters, agents, stored, SchedulerInv, TypeOK
<1>2. active[a] \in Runs /\ state[active[a]] = "active"
  BY <1>1, WorkingAgent DEF SchedulerInv
<1>3. \A b \in Actors : ResumeFirst(b)'
  <2>1. ResumeFirst(a)'
    BY <1>1, <1>2 DEF ResumeFirst, TypeOK
  <2>2. ASSUME NEW b \in Actors \ {a} PROVE deferred'[b] = deferred[b] /\ ResumeFirst(b)
    BY <1>1 DEF ReadyBook, TypeOK
  <2>3. ASSUME NEW b \in Actors \ {a} PROVE ResumeFirst(b)'
    BY <1>1, <2>2 DEF ResumeFirst
  <2>4. QED BY <2>1, <2>3
<1>4. \A b \in Actors : Startable(b)' => Startable(b)
  <2>1. ~Startable(a)'
    BY <1>1, <1>2, RuntimeAssumption DEF Startable
  <2>2. \A b \in Actors \ {a} : Startable(b)' => Startable(b)
    BY <1>1 DEF Startable, Retiring, TypeOK
  <2>3. QED BY <2>1, <2>2
<1>5. \A b \in Actors : ReadyDue(b)' <=> ReadyDue(b)
  BY <1>1 DEF ReadyDue
<1>6. (\A b \in Actors : Awake(b)') /\ SlotsUsed'
  BY <1>1, <1>4, <1>5, AwakeKept
<1>7. QED BY <1>3, <1>6 DEF ReadyBook

(* A lane whose operation is being abandoned is not startable.             *)
LEMMA AbandonmentsKeepReady ==
  ASSUME SchedulerInv, ReadyBook, NEW a \in Actors, abandonDeferred(a) \/ AgentAbandons(a) \/ AgentAbandoned(a)
  PROVE  ReadyBook'
<1>1. /\ UNCHANGED <<state, queue, active, readyKeys, readySet, activeActors, actors, retirement, pumping, aborting>>
      /\ TypeOK
      /\ UNCHANGED mutex \/ \E s : mutex' = Append(mutex, s)
  <2>1. UNCHANGED <<state, queue, active, readyKeys, readySet, activeActors>>
    BY DEF abandonDeferred, AgentAbandons, AgentAbandoned, lanes, ready, counters
  <2>2. UNCHANGED <<actors, retirement, pumping, aborting>> /\ (UNCHANGED mutex \/ \E s : mutex' = Append(mutex, s))
    BY DEF abandonDeferred, AgentAbandons, AgentAbandoned, admission, registry
  <2>3. QED BY <2>1, <2>2 DEF SchedulerInv
<1>2. /\ abandoning'[a] # NotAbandoning
      /\ (abandoning'[a].run = abandoning[a].run /\ abandoning[a] # NotAbandoning) \/ abandoning'[a].run = deferred[a]
      /\ deferred'[a] \in {NoRun, deferred[a]}
      /\ \A b \in Actors \ {a} : abandoning'[b] = abandoning[b] /\ deferred'[b] = deferred[b]
  BY <1>1 DEF abandonDeferred, AgentAbandons, AgentAbandoned, NotAbandoning, agents, TypeOK
<1>3. \A b \in Actors : ResumeFirst(b)'
  <2>1. ResumeFirst(a)'
    BY <1>1, <1>2 DEF ReadyBook, ResumeFirst
  <2>2. ASSUME NEW b \in Actors \ {a} PROVE ResumeFirst(b)'
    BY <1>1, <1>2 DEF ReadyBook, ResumeFirst
  <2>3. QED BY <2>1, <2>2
<1>4. \A b \in Actors : Startable(b)' => Startable(b)
  BY <1>1, <1>2 DEF Startable, Retiring
<1>5. \A b \in Actors : ReadyDue(b) => ReadyDue(b)'
  BY <1>1, DueKept
<1>6. (\A b \in Actors : Awake(b)') /\ SlotsUsed'
  BY <1>1, <1>4, <1>5, AwakeKept
<1>7. QED BY <1>3, <1>6 DEF ReadyBook


(* A run is taken out of its queue; a queued resume stays the first.       *)
LEMMA FrontRemoved ==
  ASSUME SchedulerInv, ReadyBook, NEW r \in Runs, removeQueuedRun(ActorOf[r], r), NEW b \in Actors
  PROVE  /\ deferred[b] \in Runs \ {r} /\ state[deferred[b]] = "ready" => queue'[b] # <<>> /\ Head(queue'[b]) = deferred[b]
         /\ queue'[b] # <<>> /\ deferred[b] \in {NoRun, Head(queue'[b])} =>
              queue[b] # <<>> /\ deferred[b] \in {NoRun, Head(queue[b])}
<1>1. /\ queue[b] \in Seq(Runs) /\ \A i, j \in 1 .. Len(queue[b]) : queue[b][i] = queue[b][j] => i = j
      /\ \A i \in 1 .. Len(queue[b]) : state[queue[b][i]] = "ready"
      /\ deferred[b] \in Runs \cup {NoRun}
  <2>1. queue[b] \in Seq(Runs) /\ deferred[b] \in Runs \cup {NoRun}
    BY DEF SchedulerInv, TypeOK
  <2>2. QED BY <2>1, QueueEntries DEF SchedulerInv
<1>2. deferred[b] # NoRun /\ state[deferred[b]] = "ready" => queue[b] # <<>> /\ Head(queue[b]) = deferred[b]
  BY DEF ReadyBook, ResumeFirst
<1>3. queue' = [queue EXCEPT ![ActorOf[r]] = RemoveFirst(@, r)] /\ queue \in [Actors -> Seq(Runs)]
  BY DEF removeQueuedRun, SchedulerInv, TypeOK
<1>4. CASE b # ActorOf[r]
  <2>1. queue'[b] = queue[b]
    BY <1>3, <1>4
  <2>2. QED BY <1>2, <2>1, RuntimeAssumption
<1>5. CASE b = ActorOf[r]
  <2> DEFINE q == queue[b]
             p == RemoveFirst(q, r)
  <2>1. queue'[b] = p
    BY <1>3, <1>5
  <2>2. p \in Seq(Runs) /\ \A i \in 1 .. Len(p) : \E j \in 1 .. Len(q) : q[j] = p[i]
    BY <1>1, RemoveFirstProperties
  <2>3. ASSUME deferred[b] \in Runs \ {r}, state[deferred[b]] = "ready" PROVE p # <<>> /\ Head(p) = deferred[b]
    <3>1. q # <<>> /\ Head(q) = deferred[b] /\ Head(q) # r
      BY <1>2, <2>3, RuntimeAssumption
    <3>2. QED BY <1>1, <3>1, RemoveFirstHead
  <2>4. ASSUME p # <<>>, deferred[b] \in {NoRun, Head(p)} PROVE q # <<>> /\ deferred[b] \in {NoRun, Head(q)}
    <3>1. 1 \in 1 .. Len(p) /\ Head(p) = p[1]
      BY <2>2, <2>4, EmptySeq
    <3>2. PICK j \in 1 .. Len(q) : q[j] = Head(p)
      BY <2>2, <3>1
    <3>3. q # <<>> /\ state[Head(p)] = "ready"
      BY <1>1, <3>2, EmptySeq
    <3>4. QED BY <1>2, <2>4, <3>3
  <2>5. QED BY <2>1, <2>3, <2>4
<1>6. QED BY <1>4, <1>5

LEMMA AbortQueuedKeepsReady ==
  ASSUME SchedulerInv, ReadyBook, NEW r \in Runs, AbortQueued(r)
  PROVE  ReadyBook'
<1>1. /\ UNCHANGED <<active, readyKeys, readySet, activeActors, deferred, abandoning, actors, retirement, pumping, aborting>>
      /\ mutex # <<>> /\ Head(mutex).sort # "ready" /\ TypeOK
      /\ \E s : mutex' = [mutex EXCEPT ![1] = s]
  <2>1. UNCHANGED <<active, readyKeys, readySet, activeActors>> /\ UNCHANGED <<deferred, abandoning, actors, retirement>>
    BY DEF AbortQueued, ready, counters, agents
  <2>2. UNCHANGED <<pumping, aborting>> /\ mutex # <<>> /\ Head(mutex).sort # "ready"
    BY DEF AbortQueued, admission, AbortTurn, Aborting, Holds
  <2>3. \E s : mutex' = [mutex EXCEPT ![1] = s]
    BY DEF AbortQueued, AbortedNext
  <2>4. QED BY <2>1, <2>2, <2>3 DEF SchedulerInv
<1>2. \A a \in Actors : ReadyDue(a) => ReadyDue(a)'
  BY <1>1, HeadServed
<1>3. CASE UNCHANGED <<queue, state>>
  BY <1>1, <1>2, <1>3, ReadyQuiet
<1>4. CASE removeQueuedRun(ActorOf[r], r) /\ state' = [state EXCEPT ![r] = "cancelling"]
  <2>1. state'[r] # "ready" /\ \A q \in Runs \ {r} : state'[q] = state[q]
    BY <1>1, <1>4 DEF TypeOK
  <2>2. ASSUME NEW b \in Actors PROVE ResumeFirst(b)'
    BY <1>1, <1>4, <2>1, FrontRemoved DEF ReadyBook, ResumeFirst, TypeOK
  <2>3. ASSUME NEW b \in Actors PROVE Startable(b)' => Startable(b)
    BY <1>1, <1>4, FrontRemoved DEF Startable, Retiring
  <2>4. (\A b \in Actors : Awake(b)') /\ SlotsUsed'
    BY <1>1, <1>2, <2>3, AwakeKept
  <2>5. QED BY <2>2, <2>4 DEF ReadyBook
<1>5. QED BY <1>3, <1>4 DEF AbortQueued

(* Once an abandonment has ended without its operation the lane is readied *)
(* by the section requested for it; otherwise the lane stays paused.       *)
LEMMA AbandonSectionKeepsReady ==
  ASSUME SchedulerInv, ReadyBook, AbandonSection
  PROVE  ReadyBook'
<1>1. /\ UNCHANGED <<active, readyKeys, readySet, activeActors, deferred, actors, retirement, pumping, aborting>>
      /\ mutex # <<>> /\ Head(mutex).sort = "abandon" /\ TypeOK /\ MutexBook
  BY DEF AbandonSection, Holds, admission, registry, ready, counters, agents, stored, SchedulerInv
<1>2. SectionOK(mutex[1]) /\ Head(mutex) = mutex[1] /\ Tail(mutex) \in Seq(SectionRecord)
  BY <1>1, HeadSection
<1>3. PICK r \in Runs, a \in Actors : r = Head(mutex).run /\ a = Head(mutex).actor /\ a = ActorOf[r]
  BY <1>1, <1>2, RuntimeAssumption DEF SectionOK, OfRun, Pending
<1>4. abandoning[a] = [stage |-> "queued", run |-> r]
  BY <1>1, <1>2, <1>3 DEF SectionOK
<1>5. \A b \in Actors : ReadyDue(b) => ReadyDue(b)'
  <2>1. mutex' = Tail(mutex) \/ \E s : mutex' = Append(Tail(mutex), s)
    BY DEF AbandonSection
  <2>2. QED BY <1>1, <2>1, HeadServed
<1>6. CASE /\ deferred[a] = r /\ state[r] # "active" /\ abandoning' = [abandoning EXCEPT ![a].stage = "agent"]
           /\ removeQueuedRun(a, r) /\ state' = [state EXCEPT ![r] = IF Live(r) THEN "cancelling" ELSE @]
  <2>1. /\ abandoning'[a] # NotAbandoning /\ abandoning'[a].run = r
        /\ \A b \in Actors \ {a} : abandoning'[b] = abandoning[b]
    BY <1>1, <1>4, <1>6 DEF TypeOK, NotAbandoning
  <2>2. state'[r] # "ready" /\ \A q \in Runs \ {r} : state'[q] = state[q]
    BY <1>1, <1>6 DEF TypeOK, Live, Unstarted
  <2>3. ASSUME NEW b \in Actors PROVE ResumeFirst(b)'
    <3>1. CASE b = a
      BY <1>1, <1>6, <2>1, <2>2, <3>1 DEF ResumeFirst
    <3>2. CASE b # a
      <4>1. ResumeFirst(b) /\ abandoning'[b] = abandoning[b] /\ deferred'[b] = deferred[b] /\ deferred[b] \in Runs \cup {NoRun}
        BY <1>1, <2>1, <3>2 DEF ReadyBook, TypeOK
      <4>2. deferred[b] \in Runs \ {r} /\ state[deferred[b]] = "ready" => queue'[b] # <<>> /\ Head(queue'[b]) = deferred[b]
        BY <1>3, <1>6, FrontRemoved
      <4>3. QED BY <2>2, <4>1, <4>2 DEF ResumeFirst
    <3>3. QED BY <3>1, <3>2
  <2>4. ASSUME NEW b \in Actors PROVE Startable(b)' => Startable(b)
    BY <1>1, <1>3, <1>6, <2>1, FrontRemoved DEF Startable, Retiring
  <2>5. (\A b \in Actors : Awake(b)') /\ SlotsUsed'
    BY <1>1, <1>5, <2>4, AwakeKept
  <2>6. QED BY <2>3, <2>5 DEF ReadyBook
<1>7. CASE /\ deferred[a] # r \/ state[r] = "active"
           /\ abandoning' = [abandoning EXCEPT ![a] = NotAbandoning]
           /\ mutex' = IF deferred[a] # NoRun THEN Tail(mutex) ELSE Append(Tail(mutex), Section("ready", a, NoRun))
           /\ UNCHANGED <<queue, state>>
  <2>1. abandoning'[a] = NotAbandoning /\ \A b \in Actors \ {a} : abandoning'[b] = abandoning[b]
    BY <1>1, <1>7 DEF TypeOK
  <2>2. ASSUME NEW b \in Actors PROVE ResumeFirst(b)'
    BY <1>1, <1>7, <2>1 DEF ReadyBook, ResumeFirst
  <2>3. CASE deferred[a] = NoRun
    <3>1. ReadyDue(a)'
      <4> DEFINE q == Tail(mutex)
                 s == Section("ready", a, NoRun)
      <4>1. q \in Seq(SectionRecord) /\ s \in SectionRecord /\ s.sort = "ready" /\ s.actor = a /\ mutex' = Append(q, s)
        BY <1>2, <1>7, <2>3, NewSection DEF Sorts
      <4> HIDE DEF q, s
      <4>2. Len(q) \in Nat /\ Len(mutex') = Len(q) + 1 /\ mutex'[Len(q) + 1] = s
        BY <4>1, AppendProperties, LenProperties
      <4>3. QED BY <4>1, <4>2 DEF ReadyDue
    <3>2. \A b \in Actors \ {a} : Startable(b)' => Startable(b)
      BY <1>1, <1>7, <2>1 DEF Startable, Retiring
    <3>3. (\A b \in Actors : Awake(b)') /\ SlotsUsed'
      BY <1>1, <1>5, <3>1, <3>2, AwakeKept
    <3>4. QED BY <2>2, <3>3 DEF ReadyBook
  <2>4. CASE deferred[a] # NoRun
    <3>1. ~Startable(a)'
      <4>1. SUFFICES ASSUME Startable(a)' PROVE FALSE
        OBVIOUS
      <4>2. active[a] = NoRun /\ queue[a] # <<>> /\ deferred[a] = Head(queue[a])
        BY <1>1, <1>7, <2>4, <4>1 DEF Startable
      <4>3. state[Head(queue[a])] = "ready"
        <5>1. 1 \in 1 .. Len(queue[a]) /\ Head(queue[a]) = queue[a][1]
          BY <1>1, <4>2, EmptySeq DEF TypeOK
        <5>2. QED BY <5>1 DEF SchedulerInv, LaneBook
      <4>4. deferred[a] = r
        BY <1>4, <2>4, <4>2, <4>3 DEF ReadyBook, ResumeFirst, NotAbandoning
      <4>5. active[a] = r
        BY <1>3, <1>7, <4>4 DEF SchedulerInv, LaneBook
      <4>6. QED BY <4>2, <4>5, RuntimeAssumption
    <3>2. \A b \in Actors \ {a} : Startable(b)' => Startable(b)
      BY <1>1, <1>7, <2>1 DEF Startable, Retiring
    <3>3. (\A b \in Actors : Awake(b)') /\ SlotsUsed'
      BY <1>1, <1>5, <3>1, <3>2, AwakeKept
    <3>4. QED BY <2>2, <3>3 DEF ReadyBook
  <2>5. QED BY <2>3, <2>4
<1>8. QED BY <1>3, <1>6, <1>7 DEF AbandonSection


(* An actor that was not registered has nothing queued.                    *)
LEMMA RegistrationKeepsReady ==
  ASSUME SchedulerInv, ReadyBook, NEW batch, RegistrationEnds(batch)
  PROVE  ReadyBook'
<1>1. /\ UNCHANGED <<state, queue, active, readyKeys, readySet, activeActors, deferred, abandoning, retirement, pumping,
                     aborting, mutex>>
      /\ TypeOK
  BY DEF RegistrationEnds, admission, lanes, ready, counters, agents, SchedulerInv
<1>2. ASSUME NEW a \in Actors, queue[a] # <<>> PROVE a \in actors
  <2>1. 1 \in 1 .. Len(queue[a]) /\ queue[a][1] \in Runs
    BY <1>1, <1>2, EmptySeq, ElementOfSeq DEF TypeOK
  <2>2. ActorOf[queue[a][1]] = a /\ state[queue[a][1]] = "ready"
    BY <2>1 DEF SchedulerInv, LaneBook
  <2>3. QED BY <2>1, <2>2 DEF SchedulerInv, LaneBook, Live, Unstarted
<1>3. \A a \in Actors : Startable(a)' => Startable(a)
  BY <1>1, <1>2 DEF Startable, Retiring
<1>4. \A a \in Actors : ReadyDue(a)' <=> ReadyDue(a)
  BY <1>1 DEF ReadyDue
<1>5. \A a \in Actors : ResumeFirst(a)'
  BY <1>1 DEF ReadyBook, ResumeFirst
<1>6. (\A a \in Actors : Awake(a)') /\ SlotsUsed'
  BY <1>1, <1>3, <1>4, AwakeKept
<1>7. QED BY <1>5, <1>6 DEF ReadyBook

LEMMA ReleaseKeepsReady ==
  ASSUME SchedulerInv, ReadyBook, ReleaseSection
  PROVE  ReadyBook'
<1> DEFINE a == Head(mutex).actor
<1>1. /\ UNCHANGED <<state, queue, active, readyKeys, activeActors, deferred, abandoning, aborting>>
      /\ mutex # <<>> /\ Head(mutex).sort = "release" /\ TypeOK /\ MutexBook
      /\ \E s : mutex' = Append(Tail(mutex), s)
      /\ retirement' = [retirement EXCEPT ![a] = "finishing"]
  BY DEF ReleaseSection, Holds, admission, lanes, counters, agents, SchedulerInv
<1>2. a \in Actors
  BY <1>1, HeadSection DEF SectionOK, OfActor
<1>3. \A b \in Actors : ReadyDue(b) => ReadyDue(b)'
  BY <1>1, HeadServed
<1>4. \A b \in Actors : retirement'[b] = retirement[b] \/ retirement'[b] # "none"
  BY <1>1 DEF TypeOK
<1>5. CASE UNCHANGED <<actors, readySet, pumping>>
  BY <1>1, <1>3, <1>4, <1>5, ReadyQuiet
<1>6. CASE actors' = actors \ {a} /\ readySet' = readySet \ {a} /\ pumping' = TRUE
  <2>1. \A b \in Actors : ResumeFirst(b)'
    BY <1>1 DEF ReadyBook, ResumeFirst
  <2>2. \A b \in Actors : Listed(b)' <=> Listed(b)
    BY <1>1 DEF Listed
  <2>3. \A b \in Actors : Startable(b)' => Startable(b) /\ b # a
    BY <1>1, <1>4, <1>6 DEF Startable, Retiring
  <2>4. \A b \in Actors : Awake(b)'
    BY <1>3, <1>6, <2>2, <2>3 DEF ReadyBook, Awake
  <2>5. QED BY <1>6, <2>1, <2>4 DEF ReadyBook, SlotsUsed
<1>7. QED BY <1>5, <1>6 DEF ReleaseSection

(* A lane is readied; its runs stay where they are.                        *)
LEMMA ReadySectionsKeepReady ==
  ASSUME SchedulerInv, ReadyBook, ReadySection \/ UnretireSection \/ AbandonedSection
  PROVE  ReadyBook'
<1>1. /\ UNCHANGED <<queue, active, activeActors, deferred, aborting, actors>> /\ pumping' = TRUE
      /\ mutex # <<>> /\ Head(mutex).sort \in {"ready", "unretire", "abandoned"} /\ TypeOK /\ MutexBook
  <2>1. UNCHANGED <<queue, active, activeActors, deferred>> /\ UNCHANGED <<aborting, actors>> /\ pumping' = TRUE
    BY DEF ReadySection, UnretireSection, AbandonedSection, admission, registry, lanes, counters, agents
  <2>2. mutex # <<>> /\ Head(mutex).sort \in {"ready", "unretire", "abandoned"}
    BY DEF ReadySection, UnretireSection, AbandonedSection, Holds
  <2>3. QED BY <2>1, <2>2 DEF SchedulerInv
<1>2. /\ SectionOK(mutex[1]) /\ Head(mutex) = mutex[1] /\ mutex[1] \in SectionRecord
      /\ Len(mutex) \in Nat \ {0} /\ mutex \in Seq(SectionRecord)
  BY <1>1, HeadSection
<1>3. PICK a \in Actors : a = Head(mutex).actor
  BY <1>1, <1>2, RuntimeAssumption DEF SectionOK, OfRun, OfActor, Pending
<1>4. \A b \in Actors \ {a} : ReadyDue(b) => ReadyDue(b)'
  <2>1. CASE Head(mutex).sort # "ready"
    <3>1. mutex' = Tail(mutex) \/ \E s : mutex' = Append(Tail(mutex), s)
      BY DEF ReadySection, UnretireSection, AbandonedSection
    <3>2. QED BY <1>1, <2>1, <3>1, HeadServed
  <2>2. CASE Head(mutex).sort = "ready"
    <3>1. mutex' = Tail(mutex)
      BY <2>2 DEF ReadySection, UnretireSection, AbandonedSection, Holds
    <3>2. \A i \in 2 .. Len(mutex) : i - 1 \in 1 .. Len(mutex') /\ mutex'[i - 1] = mutex[i]
      BY <1>1, <1>2, <3>1, HeadTailProperties
    <3>3. \A i \in 1 .. Len(mutex) : i = 1 \/ i \in 2 .. Len(mutex)
      BY <1>2
    <3>4. QED BY <1>2, <1>3, <3>2, <3>3 DEF ReadyDue
  <2>3. QED BY <2>1, <2>2
<1>5. \A r \in Runs : state'[r] = "ready" => state[r] = "ready"
  BY <1>1 DEF ReadySection, UnretireSection, AbandonedSection, settle, lanes, TypeOK
<1>6. /\ \A b \in Actors : abandoning'[b] = abandoning[b] \/ abandoning'[b] = NotAbandoning
      /\ \A b \in Actors \ {a} : abandoning'[b] = abandoning[b] /\ retirement'[b] = retirement[b]
  BY <1>1, <1>3 DEF ReadySection, UnretireSection, AbandonedSection, agents, registry, TypeOK
<1>7. \A b \in Actors : ResumeFirst(b)'
  BY <1>1, <1>5, <1>6 DEF ReadyBook, ResumeFirst, TypeOK
<1>8. \A b \in Actors \ {a} : Startable(b)' => Startable(b)
  BY <1>1, <1>6 DEF Startable, Retiring
<1>9. CASE markReady(readyKeys, readySet, a)
  BY <1>1, <1>4, <1>7, <1>8, <1>9, AwakeReadied DEF ReadyBook
<1>10. CASE a \notin actors /\ UNCHANGED <<readyKeys, readySet>>
  <2>1. ~Startable(a)'
    BY <1>1, <1>10 DEF Startable
  <2>2. \A b \in Actors : Startable(b)' /\ ~ReadyDue(b)' => Startable(b) /\ ~ReadyDue(b)
    BY <1>4, <1>8, <2>1
  <2>3. (\A b \in Actors : Awake(b)') /\ SlotsUsed'
    BY <1>1, <1>10, <2>2, AwakeKept
  <2>4. QED BY <1>7, <2>3 DEF ReadyBook
<1>11. markReady(readyKeys, readySet, a) \/ (a \notin actors /\ UNCHANGED <<readyKeys, readySet>>)
  BY <1>3 DEF ReadySection, UnretireSection, AbandonedSection, ready
<1>12. QED BY <1>9, <1>10, <1>11


LEMMA AdmitKeepsReady ==
  ASSUME SchedulerInv, ReadyBook, AdmitSection
  PROVE  ReadyBook'
<1>1. /\ UNCHANGED <<active, activeActors, deferred, abandoning, aborting, actors, retirement>>
      /\ mutex # <<>> /\ Head(mutex).sort \in {"admit", "admitDurable"} /\ mutex' = Tail(mutex) /\ ~pumping
      /\ TypeOK /\ MutexBook
  BY DEF AdmitSection, Holds, admission, registry, agents, SchedulerInv
<1>2. SectionOK(mutex[1]) /\ Head(mutex) = mutex[1]
  BY <1>1, HeadSection
<1>3. PICK r \in Runs, a \in Actors : r = Head(mutex).run /\ a = Head(mutex).actor /\ a = ActorOf[r]
  BY <1>1, <1>2, RuntimeAssumption DEF SectionOK, OfRun, Pending
<1>4. \A b \in Actors : ReadyDue(b) => ReadyDue(b)'
  BY <1>1, HeadServed
<1>5. CASE settle(r) /\ UNCHANGED <<queue, readyKeys, readySet, pumping>>
  <2>1. \A q \in Runs : state'[q] = "ready" => state[q] = "ready"
    BY <1>1, <1>5 DEF settle, TypeOK
  <2>2. QED BY <1>1, <1>4, <1>5, <2>1, ReadyQuiet
<1>6. CASE /\ state' = [state EXCEPT ![r] = "ready"] /\ queue' = [queue EXCEPT ![a] = Append(@, r)]
           /\ markReady(readyKeys, readySet, a) /\ pumping' = TRUE
  <2>1. /\ state'[r] = "ready" /\ \A q \in Runs \ {r} : state'[q] = state[q]
        /\ queue'[a] = Append(queue[a], r) /\ \A b \in Actors \ {a} : queue'[b] = queue[b]
    BY <1>1, <1>6 DEF TypeOK
  <2>2. state[r] = "admitting"
    BY <1>3 DEF AdmitSection
  <2>3. \A b \in Actors : deferred[b] # r
    <3>1. \A b \in Actors : deferred[b] # NoRun => canon[deferred[b]] # "none"
      BY DEF SchedulerInv, ActorBook, ActorOK
    <3>2. canon[r] = "none"
      BY <2>2 DEF SchedulerInv, RunBook, RunOK
    <3>3. QED BY <3>1, <3>2, RuntimeAssumption
  <2>4. queue[a] # <<>> => queue'[a] # <<>> /\ Head(queue'[a]) = Head(queue[a])
    <3> DEFINE q == queue[a]
               p == Append(q, r)
    <3>1. q \in Seq(Runs)
      BY <1>1 DEF TypeOK
    <3> HIDE DEF q
    <3>2. p \in Seq(Runs) /\ Len(p) = Len(q) + 1 /\ (\A i \in 1 .. Len(q) : p[i] = q[i]) /\ Len(q) \in Nat
      BY <3>1, AppendProperties, LenProperties
    <3>3. q # <<>> => Len(q) >= 1 /\ Head(q) = q[1]
      BY <3>1, EmptySeq
    <3> HIDE DEF p
    <3>4. q # <<>> => p # <<>> /\ Head(p) = p[1] /\ p[1] = q[1]
      BY <3>1, <3>2, <3>3, EmptySeq
    <3>5. QED BY <2>1, <3>3, <3>4 DEF q, p
  <2>5. ASSUME NEW b \in Actors PROVE ResumeFirst(b)'
    <3>1. ResumeFirst(b) /\ (deferred[b] # NoRun => state'[deferred[b]] = state[deferred[b]])
      BY <1>1, <2>1, <2>3 DEF ReadyBook, TypeOK
    <3>2. queue[b] # <<>> => queue'[b] # <<>> /\ Head(queue'[b]) = Head(queue[b])
      BY <2>1, <2>4
    <3>3. QED BY <1>1, <3>1, <3>2 DEF ResumeFirst
  <2>6. \A b \in Actors \ {a} : Startable(b)' => Startable(b)
    BY <1>1, <2>1 DEF Startable, Retiring
  <2>7. (\A b \in Actors : Awake(b)') /\ SlotsUsed'
    BY <1>1, <1>4, <1>6, <2>6, AwakeReadied
  <2>8. QED BY <2>5, <2>7 DEF ReadyBook
<1>7. QED BY <1>3, <1>5, <1>6 DEF AdmitSection, ready

LEMMA FinishKeepsReady ==
  ASSUME SchedulerInv, ReadyBook, FinishSection
  PROVE  ReadyBook'
<1>1. /\ UNCHANGED <<queue, deferred, abandoning, aborting, actors, retirement>> /\ pumping' = TRUE
      /\ mutex # <<>> /\ Head(mutex).sort = "finish" /\ mutex' = Tail(mutex) /\ TypeOK /\ MutexBook
  BY DEF FinishSection, Holds, admission, registry, agents, SchedulerInv
<1>2. SectionOK(mutex[1]) /\ Head(mutex) = mutex[1]
  BY <1>1, HeadSection
<1>3. PICK r \in Runs, a \in Actors : r = Head(mutex).run /\ a = Head(mutex).actor
  BY <1>1, <1>2, RuntimeAssumption DEF SectionOK, OfRun, Pending
<1>4. active' = [active EXCEPT ![a] = NoRun] /\ settle(r) /\ markReady(readyKeys, readySet, a)
  BY <1>3 DEF FinishSection
<1>5. \A q \in Runs : state'[q] = "ready" => state[q] = "ready"
  BY <1>1, <1>4 DEF settle, TypeOK
<1>6. \A b \in Actors : ResumeFirst(b)'
  BY <1>1, <1>5 DEF ReadyBook, ResumeFirst, TypeOK
<1>7. \A b \in Actors \ {a} : Startable(b)' => Startable(b)
  BY <1>1, <1>4 DEF Startable, Retiring, TypeOK
<1>8. \A b \in Actors : ReadyDue(b) => ReadyDue(b)'
  BY <1>1, HeadServed
<1>9. QED BY <1>1, <1>4, <1>6, <1>7, <1>8, AwakeReadied DEF ReadyBook

LEMMA AbortSettlesKeepsReady ==
  ASSUME SchedulerInv, ReadyBook, AbortSettles
  PROVE  ReadyBook'
<1>1. /\ UNCHANGED <<queue, active, activeActors, deferred, abandoning, aborting, actors, retirement>> /\ pumping' = TRUE
      /\ mutex # <<>> /\ Head(mutex).sort \in {"abort", "retiring", "abortingAll"} /\ TypeOK /\ MutexBook
      /\ \E s : mutex' = [mutex EXCEPT ![1] = s]
  <2>1. UNCHANGED <<queue, active, activeActors, deferred>> /\ UNCHANGED <<abandoning, aborting, actors, retirement>>
    BY DEF AbortSettles, admission, agents
  <2>2. pumping' = TRUE /\ mutex # <<>> /\ Head(mutex).sort \in {"abort", "retiring", "abortingAll"}
    BY DEF AbortSettles, Aborting, Holds
  <2>3. \E s : mutex' = [mutex EXCEPT ![1] = s]
    BY DEF AbortSettles, AbortedNext
  <2>4. QED BY <2>1, <2>2, <2>3 DEF SchedulerInv
<1>2. Head(mutex) = mutex[1] /\ mutex[1] \in SectionRecord
  BY <1>1, HeadSection
<1>3. PICK r \in Runs, a \in Actors : r = Head(mutex).cancel /\ a = ActorOf[r]
  BY <1>2, RuntimeAssumption DEF AbortSettles, SectionRecord
<1>4. settle(r) /\ markReady(readyKeys, readySet, a)
  BY <1>3 DEF AbortSettles
<1>5. \A q \in Runs : state'[q] = "ready" => state[q] = "ready"
  BY <1>1, <1>4 DEF settle, TypeOK
<1>6. \A b \in Actors : ResumeFirst(b)'
  BY <1>1, <1>5 DEF ReadyBook, ResumeFirst, TypeOK
<1>7. \A b \in Actors : Startable(b)' => Startable(b)
  BY <1>1 DEF Startable, Retiring
<1>8. \A b \in Actors : ReadyDue(b) => ReadyDue(b)'
  BY <1>1, HeadServed
<1>9. QED BY <1>1, <1>4, <1>6, <1>7, <1>8, AwakeReadied DEF ReadyBook

(* A resumed run is put at the front of its lane. *)
LEMMA ResumeKeepsReady ==
  ASSUME SchedulerInv, ReadyBook, ResumeSection
  PROVE  ReadyBook'
<1>1. /\ UNCHANGED <<active, activeActors, deferred, abandoning, aborting, actors, retirement>> /\ ~pumping
      /\ mutex # <<>> /\ Head(mutex).sort = "resuming" /\ mutex' = Tail(mutex) /\ TypeOK /\ MutexBook
  BY DEF ResumeSection, Holds, admission, registry, counters, agents, SchedulerInv
<1>2. SectionOK(mutex[1]) /\ Head(mutex) = mutex[1]
  BY <1>1, HeadSection
<1>3. PICK r \in Runs, a \in Actors : r = Head(mutex).run /\ a = Head(mutex).actor /\ a = ActorOf[r]
  BY <1>1, <1>2, RuntimeAssumption DEF SectionOK, OfRun, Pending
<1>4. \A b \in Actors : ReadyDue(b) => ReadyDue(b)'
  BY <1>1, HeadServed
<1>5. CASE UNCHANGED <<state, queue, readyKeys, readySet, pumping>>
  BY <1>1, <1>4, <1>5, ReadyQuiet
<1>6. CASE /\ canResume(a, r) /\ state' = [state EXCEPT ![r] = "ready"] /\ queue' = [queue EXCEPT ![a] = <<r>> \o @]
           /\ markReady(readyKeys, readySet, a) /\ pumping' = TRUE
  <2>1. /\ state'[r] = "ready" /\ \A q \in Runs \ {r} : state'[q] = state[q]
        /\ queue'[a] = <<r>> \o queue[a] /\ \A b \in Actors \ {a} : queue'[b] = queue[b]
        /\ deferred[a] = r /\ abandoning[a] = NotAbandoning
    BY <1>1, <1>6 DEF TypeOK, canResume
  <2>2. queue'[a] # <<>> /\ Head(queue'[a]) = r
    <3>1. queue[a] \in Seq(Runs) /\ <<r>> \in Seq(Runs) /\ Len(<<r>>) = 1 /\ <<r>>[1] = r
      BY <1>1 DEF TypeOK
    <3>2. <<r>> \o queue[a] \in Seq(Runs) /\ Len(<<r>> \o queue[a]) >= 1 /\ (<<r>> \o queue[a])[1] = r
      BY <3>1, ConcatProperties, LenProperties
    <3>3. QED BY <2>1, <3>2, EmptySeq
  <2>3. ResumeFirst(a)'
    BY <1>1, <2>1, <2>2 DEF ResumeFirst
  <2>4. ASSUME NEW b \in Actors \ {a} PROVE ResumeFirst(b)'
    <3>1. deferred[b] # r
      BY <1>3, RuntimeAssumption DEF SchedulerInv, ActorBook, ActorOK
    <3>2. QED BY <1>1, <2>1, <3>1 DEF ReadyBook, ResumeFirst, TypeOK
  <2>5. \A b \in Actors \ {a} : Startable(b)' => Startable(b)
    BY <1>1, <2>1 DEF Startable, Retiring
  <2>6. (\A b \in Actors : Awake(b)') /\ SlotsUsed'
    BY <1>1, <1>4, <1>6, <2>5, AwakeReadied
  <2>7. QED BY <2>3, <2>4, <2>6 DEF ReadyBook
<1>7. QED BY <1>3, <1>5, <1>6 DEF ResumeSection, ready


(* The pump takes the first key.                                           *)
LEMMA KeyTaken ==
  ASSUME TypeOK, readyKeys # <<>>, NEW a \in Actors, a = Head(readyKeys), NEW b \in Actors \ {a}, Listed(b)
  PROVE  \E i \in 1 .. Len(Tail(readyKeys)) : Tail(readyKeys)[i] = b
<1>1. PICK i \in 1 .. Len(readyKeys) : readyKeys[i] = b
  BY DEF Listed
<1>2. /\ Len(readyKeys) \in Nat /\ Len(Tail(readyKeys)) = Len(readyKeys) - 1 /\ Head(readyKeys) = readyKeys[1]
      /\ \A j \in 1 .. Len(Tail(readyKeys)) : Tail(readyKeys)[j] = readyKeys[j + 1]
  BY HeadTailProperties, LenProperties, EmptySeq DEF TypeOK
<1>3. i - 1 \in 1 .. Len(Tail(readyKeys)) /\ (i - 1) + 1 = i
  BY <1>1, <1>2
<1>4. QED BY <1>1, <1>2, <1>3

LEMMA PumpKeepsReady ==
  ASSUME SchedulerInv, ReadyBook, pump
  PROVE  ReadyBook'
<1>1. TypeOK /\ UNCHANGED <<actors, retirement, deferred, abandoning, mutex, aborting>> /\ pumping
  BY DEF pump, PumpReturns, PumpSkips, PumpEmptyLane, PumpActivates, admission, registry, agents, SchedulerInv
<1>2. \A b \in Actors : ReadyDue(b)' <=> ReadyDue(b)
  BY <1>1 DEF ReadyDue
<1>3. CASE PumpReturns
  <2>1. UNCHANGED <<state, queue, active, readyKeys, readySet, activeActors>> /\ pumpStops
    BY <1>3 DEF PumpReturns, lanes, ready, counters
  <2>2. \A b \in Actors : ResumeFirst(b)' /\ Awake(b)'
    BY <1>1, <1>2, <2>1 DEF ReadyBook, ResumeFirst, Awake, Listed, Startable, Retiring
  <2>3. SlotsUsed'
    BY <1>1, <2>1, RuntimeAssumption DEF SlotsUsed, pumpStops, TypeOK
  <2>4. QED BY <2>2, <2>3 DEF ReadyBook
<1>4. CASE ~PumpReturns
  <2>1. readyKeys # <<>> /\ pumping' = TRUE
    BY <1>1, <1>4 DEF pump, PumpSkips, PumpEmptyLane, PumpActivates, pumpStops
  <2>2. PICK a \in Actors : a = Head(readyKeys)
    BY <1>1, <2>1, HeadTailProperties DEF TypeOK
  <2>3. PICK keys \in Seq(Actors), set \in SUBSET Actors : keys = Tail(readyKeys) /\ set = readySet \ {a}
    BY <1>1, <2>1, HeadTailProperties DEF TypeOK
  <2>4. \A b \in Actors \ {a} : Listed(b) => \E i \in 1 .. Len(keys) : keys[i] = b
    BY <1>1, <2>1, <2>2, <2>3, KeyTaken
  <2>5. CASE PumpSkips \/ PumpActivates
    <3>1. readyKeys' = keys /\ readySet' = set
      BY <2>2, <2>3, <2>5 DEF PumpSkips, PumpActivates
    <3>2. \A b \in Actors \ {a} : Listed(b) => Listed(b)'
      BY <2>4, <3>1 DEF Listed
    <3>3. ~Startable(a)'
      <4>1. CASE PumpSkips
        BY <1>1, <2>2, <4>1 DEF PumpSkips, lanes, Startable, Retiring
      <4>2. CASE PumpActivates
        <5>1. active' = [active EXCEPT ![a] = Head(queue[a])] /\ queue[a] # <<>>
          BY <2>2, <4>2 DEF PumpActivates, frontReady
        <5>2. Head(queue[a]) \in Runs
          BY <1>1, <5>1, HeadTailProperties DEF TypeOK
        <5>3. QED BY <1>1, <5>1, <5>2, RuntimeAssumption DEF Startable, TypeOK
      <4>3. QED BY <2>5, <4>1, <4>2
    <3>4. \A b \in Actors \ {a} : active'[b] = active[b] /\ queue'[b] = queue[b]
      BY <1>1, <2>2, <2>5 DEF PumpSkips, PumpActivates, lanes, TypeOK
    <3>5. \A b \in Actors \ {a} : Startable(b)' => Startable(b)
      BY <1>1, <3>4 DEF Startable, Retiring
    <3>6. \A b \in Actors : Awake(b)'
      BY <1>2, <2>3, <3>1, <3>2, <3>3, <3>5 DEF ReadyBook, Awake
    <3>7. ASSUME NEW b \in Actors PROVE ResumeFirst(b)'
      <4>1. CASE PumpSkips
        BY <1>1, <4>1 DEF PumpSkips, lanes, ReadyBook, ResumeFirst
      <4>2. CASE PumpActivates
        <5>1. PICK r \in Runs : r = Head(queue[a])
          BY <1>1, <2>2, <4>2, HeadTailProperties DEF PumpActivates, frontReady, TypeOK
        <5>2. state'[r] = "active" /\ \A q \in Runs \ {r} : state'[q] = state[q]
          BY <1>1, <2>2, <4>2, <5>1 DEF PumpActivates, TypeOK
        <5>3. ResumeFirst(b) /\ deferred[b] \in Runs \cup {NoRun}
          BY <1>1 DEF ReadyBook, TypeOK
        <5>4. CASE b = a
          BY <1>1, <5>1, <5>2, <5>3, <5>4 DEF ResumeFirst
        <5>5. CASE b # a
          BY <1>1, <3>4, <5>2, <5>3, <5>5 DEF ResumeFirst
        <5>6. QED BY <5>4, <5>5
      <4>3. QED BY <2>5, <4>1, <4>2
    <3>8. QED BY <2>1, <3>6, <3>7 DEF ReadyBook, SlotsUsed
  <2>6. CASE PumpEmptyLane
    <3>1. /\ markReady(keys, set, a) /\ UNCHANGED <<state, active>> /\ ~frontReady(a)
          /\ queue' = [queue EXCEPT ![a] = IF @ = <<>> THEN @ ELSE Tail(@)]
      BY <2>2, <2>3, <2>6 DEF PumpEmptyLane
    <3>2. queue[a] = <<>>
      <4>1. SUFFICES ASSUME queue[a] # <<>> PROVE FALSE
        OBVIOUS
      <4>2. 1 \in 1 .. Len(queue[a]) /\ Head(queue[a]) = queue[a][1]
        BY <1>1, <4>1, EmptySeq DEF TypeOK
      <4>3. QED BY <3>1, <4>1, <4>2 DEF SchedulerInv, LaneBook, frontReady
    <3>3. queue' = queue
      BY <1>1, <3>1, <3>2 DEF TypeOK
    <3>4. /\ set \subseteq readySet' /\ readySet' \subseteq set \cup {a}
          /\ \A i \in 1 .. Len(keys) : Listed(keys[i])'
          /\ a \in readySet' => a \in set \/ Listed(a)'
          /\ Startable(a)' => a \in readySet'
      BY <3>1, LaneReadied
    <3>5. \A b \in Actors \ {a} : Listed(b) => Listed(b)'
      BY <2>4, <3>4
    <3>6. \A b \in Actors \ {a} : Startable(b)' => Startable(b)
      BY <1>1, <3>1, <3>3 DEF Startable, Retiring
    <3>7. \A b \in Actors : Awake(b)'
      BY <1>2, <2>3, <3>4, <3>5, <3>6 DEF ReadyBook, Awake
    <3>8. \A b \in Actors : ResumeFirst(b)'
      BY <1>1, <3>1, <3>3 DEF ReadyBook, ResumeFirst
    <3>9. QED BY <2>1, <3>7, <3>8 DEF ReadyBook, SlotsUsed
  <2>7. QED BY <1>4, <2>5, <2>6 DEF pump
<1>5. QED BY <1>3, <1>4

LEMMA ReadyStarts == Init => ReadyBook
<1> SUFFICES ASSUME Init PROVE ReadyBook
  OBVIOUS
<1>1. \A a \in Actors : ResumeFirst(a) /\ Awake(a)
  BY DEF Init, ResumeFirst, Awake, Startable, NotAbandoning
<1>2. QED BY <1>1 DEF Init, ReadyBook, SlotsUsed

LEMMA ReadyStutters ==
  ASSUME ReadyBook, UNCHANGED vars
  PROVE  ReadyBook'
<1>1. UNCHANGED <<actors, retirement, state, queue, active, readyKeys, readySet, activeActors, pumping, aborting>>
  BY DEF vars
<1>2. UNCHANGED <<deferred, abandoning, mutex>>
  BY DEF vars
<1>3. QED BY <1>1, <1>2 DEF ReadyBook, ResumeFirst, Awake, SlotsUsed, Listed, ReadyDue, Startable, Retiring

LEMMA ReadySteps ==
  ASSUME SchedulerInv, ReadyBook, Next
  PROVE  ReadyBook'
<1>1. CASE Host
  <2>1. host.retirable \subseteq Actors
    BY HostTypes DEF SchedulerInv
  <2>2. QED BY <1>1, <2>1, RequestsKeepReady, AbandonmentsKeepReady DEF Host
<1>2. CASE pump
  BY <1>2, PumpKeepsReady
<1>3. CASE Sections
  BY <1>3, SectionsKeepReady, AdmitKeepsReady, FinishKeepsReady, AbortQueuedKeepsReady, AbortSettlesKeepsReady,
     ResumeKeepsReady, AbandonSectionKeepsReady, ReadySectionsKeepReady, ReleaseKeepsReady DEF Sections
<1>4. ASSUME NEW a \in Actors,
             \/ AgentDefers(a) \/ AgentFetches(a) \/ AgentEnds(a) \/ finishStartFailure(a)
             \/ AgentAbandons(a) \/ AgentAbandoned(a) \/ RetireContinues(a)
      PROVE  ReadyBook'
  BY <1>4, AgentPendsKeepsReady, RequestsKeepReady, AbandonmentsKeepReady
<1>5. CASE \E batch \in registering : RegistrationEnds(batch)
  BY <1>5, RegistrationKeepsReady
<1>6. QED BY <1>1, <1>2, <1>3, <1>4, <1>5 DEF Next

(* No wakeup is lost, whatever interleaves: between segments every actor   *)
(* with work it may start is in the ready list, or a section is queued     *)
(* that puts it there, and no ready actor waits beside a free slot.        *)
THEOREM NoWakeupLost == Spec => []WorkConserving
<1>1. SchedulerInv /\ ReadyBook /\ [Next]_vars => ReadyBook'
  BY ReadySteps, ReadyStutters
<1>2. SchedulerInv /\ ReadyBook => WorkConserving
  BY DEF ReadyBook, Awake, SlotsUsed, Listed, ReadyDue, WorkConserving
<1>3. QED BY <1>1, <1>2, ReadyStarts, SchedulerInvariant, PTL DEF Spec

-----------------------------------------------------------------------------
(* Work behind a deferred run is paused *)

(* What such a host never asks of a section, and what it limits aborts to. *)
SectionPaused(s) ==
  /\ s.sort \notin {"abortAll", "abortingAll", "abandon", "abandoned", "ready"}
  /\ s.sort = "abort" => s.todo \subseteq host.abortable

MutexPaused ==
  /\ \A i \in 1 .. Len(mutex) : SectionPaused(mutex[i])
  /\ \A i \in 2 .. Len(mutex) : mutex[i].sort # "retiring"
  /\ \A i \in 1 .. Len(mutex) : mutex[i].sort = "retiring" =>
       \A r \in mutex[i].todo : deferred[ActorOf[r]] = r => state[r] \notin Unstarted

(* A registered actor in the list is in the set, and an actor in the set   *)
(* waits for no operation but one whose resume is queued.                  *)
LanePaused(a) ==
  /\ abandoning[a] = NotAbandoning /\ agent[a] # "refused"
  /\ a \in actors /\ Listed(a) => a \in readySet
  /\ a \in readySet => active[a] = NoRun /\ (deferred[a] # NoRun => state[deferred[a]] = "ready")
  /\ agent[a] # "idle" => canon[active[a]] # "ended"
  /\ deferred[a] # NoRun =>
       /\ deferred[a] \in host.deferrable /\ canon[deferred[a]] # "ended"
       /\ state[deferred[a]] \in {"ready", "active", "settled"}

(* A queued run is a resume exactly if its operation is pending.           *)
RunPaused(r) ==
  state[r] = "ready" => canon[r] # "ended" /\ (kind[r] = "resume" <=> deferred[ActorOf[r]] = r)

KeysOnce == \A i, j \in 1 .. Len(readyKeys) : readyKeys[i] = readyKeys[j] => i = j

PauseBook ==
  /\ registering = {} /\ KeysOnce /\ MutexPaused
  /\ \A a \in Actors : LanePaused(a)
  /\ \A r \in Runs : RunPaused(r)

(* No pending operation's run becomes unstarted. *)
NoneResumed == \A r \in Runs :
  deferred'[ActorOf[r]] = r /\ state'[r] \in Unstarted => deferred[ActorOf[r]] = r /\ state[r] \in Unstarted

(* The queue of sections stays, one is requested, or the one at the head   *)
(* ends.                                                                   *)
LEMMA MutexPausedKept ==
  ASSUME TypeOK, MutexPaused, UNCHANGED host,
         \/ UNCHANGED mutex /\ NoneResumed
         \/ \E s : mutex' = Append(mutex, s) /\ SectionPaused(s) /\ s.sort # "retiring" /\ NoneResumed
         \/ mutex # <<>> /\ mutex' = Tail(mutex)
         \/ \E s : mutex # <<>> /\ mutex' = Append(Tail(mutex), s) /\ SectionPaused(s) /\ s.sort # "retiring"
  PROVE  MutexPaused'
<1>1. mutex \in Seq(SectionRecord) /\ Len(mutex) \in Nat /\ \A j \in 1 .. Len(mutex) : mutex[j] \in SectionRecord
  <2>1. mutex \in Seq(SectionRecord)
    BY DEF TypeOK, SectionRecord
  <2>2. QED BY <2>1, LenProperties, ElementOfSeq
<1>2. \A s : mutex \in Seq(SectionRecord \cup {s})
  <2>1. SUFFICES ASSUME NEW s PROVE mutex \in Seq(SectionRecord \cup {s})
    OBVIOUS
  <2>2. SectionRecord \subseteq SectionRecord \cup {s}
    OBVIOUS
  <2>3. QED BY <1>1, <2>2
<1>3. ASSUME NEW s, SectionPaused(s) PROVE SectionPaused(s)'
  BY <1>3 DEF SectionPaused
<1>4. CASE UNCHANGED mutex /\ NoneResumed
  <2>1. \A i \in 1 .. Len(mutex) : SectionPaused(mutex[i])'
    BY <1>4 DEF MutexPaused, SectionPaused
  <2>2. \A i \in 1 .. Len(mutex) : mutex[i].sort = "retiring" =>
          \A r \in mutex[i].todo : deferred'[ActorOf[r]] = r => state'[r] \notin Unstarted
    BY <1>1, <1>4 DEF MutexPaused, NoneResumed, SectionRecord
  <2>3. QED BY <1>4, <2>1, <2>2 DEF MutexPaused, SectionPaused
<1>5. ASSUME NEW s, mutex' = Append(mutex, s), SectionPaused(s), s.sort # "retiring", NoneResumed PROVE MutexPaused'
  <2>1. /\ Len(mutex') = Len(mutex) + 1 /\ mutex'[Len(mutex) + 1] = s
        /\ \A i \in 1 .. Len(mutex) : mutex'[i] = mutex[i]
    BY <1>1, <1>2, <1>5, AppendProperties
  <2>2. \A i \in 1 .. Len(mutex') : i \in 1 .. Len(mutex) \/ i = Len(mutex) + 1
    BY <1>1, <2>1
  <2>3. (\A i \in 1 .. Len(mutex) : SectionPaused(mutex[i]))'
    BY <1>5, <2>1, <2>2 DEF MutexPaused, SectionPaused
  <2>4. \A i \in 2 .. Len(mutex') : mutex'[i].sort # "retiring"
    BY <1>1, <1>5, <2>1 DEF MutexPaused
  <2>5. \A i \in 1 .. Len(mutex') : mutex'[i].sort = "retiring" =>
          \A r \in mutex'[i].todo : deferred'[ActorOf[r]] = r => state'[r] \notin Unstarted
    <3>1. SUFFICES ASSUME NEW i \in 1 .. Len(mutex'), mutex'[i].sort = "retiring", NEW r \in mutex'[i].todo,
                          deferred'[ActorOf[r]] = r
                   PROVE  state'[r] \notin Unstarted
      OBVIOUS
    <3>2. i \in 1 .. Len(mutex) /\ mutex'[i] = mutex[i]
      BY <1>5, <2>1, <2>2, <3>1
    <3>3. r \in Runs
      BY <1>1, <3>1, <3>2 DEF SectionRecord
    <3>4. QED BY <1>5, <3>1, <3>2, <3>3 DEF MutexPaused, NoneResumed
  <2>6. QED BY <2>3, <2>4, <2>5 DEF MutexPaused
<1>6. mutex # <<>> => /\ Tail(mutex) \in Seq(SectionRecord) /\ Len(Tail(mutex)) = Len(mutex) - 1
                      /\ \A i \in 1 .. Len(Tail(mutex)) : Tail(mutex)[i] = mutex[i + 1] /\ i + 1 \in 2 .. Len(mutex)
  BY <1>1, HeadTailProperties
<1>7. CASE mutex # <<>> /\ mutex' = Tail(mutex)
  <2>1. \A i \in 1 .. Len(mutex') : mutex'[i].sort # "retiring"
    BY <1>6, <1>7 DEF MutexPaused
  <2>2. \A i \in 1 .. Len(mutex') : \E j \in 1 .. Len(mutex) : mutex'[i] = mutex[j]
    <3>1. \A j \in 2 .. Len(mutex) : j \in 1 .. Len(mutex)
      BY <1>1
    <3>2. QED BY <1>6, <1>7, <3>1
  <2>3. (\A i \in 1 .. Len(mutex) : SectionPaused(mutex[i]))'
    BY <2>2 DEF MutexPaused, SectionPaused
  <2>4. \A i \in 2 .. Len(mutex') : i \in 1 .. Len(mutex')
    BY <1>1, <1>6, <1>7
  <2>5. QED BY <2>1, <2>3, <2>4 DEF MutexPaused
<1>8. ASSUME NEW s, mutex # <<>>, mutex' = Append(Tail(mutex), s), SectionPaused(s), s.sort # "retiring" PROVE MutexPaused'
  <2> DEFINE q == Tail(mutex)
  <2>1. /\ q \in Seq(SectionRecord \cup {s}) /\ mutex' = Append(q, s) /\ Len(q) \in Nat
        /\ \A i \in 1 .. Len(q) : q[i] = mutex[i + 1] /\ i + 1 \in 2 .. Len(mutex)
    BY <1>1, <1>2, <1>6, <1>8, HeadTailProperties, LenProperties
  <2> HIDE DEF q
  <2>2. Len(mutex') = Len(q) + 1 /\ mutex'[Len(q) + 1] = s /\ \A i \in 1 .. Len(q) : mutex'[i] = q[i]
    BY <2>1, AppendProperties
  <2>3. \A i \in 1 .. Len(mutex') : i \in 1 .. Len(q) \/ mutex'[i] = s
    BY <2>1, <2>2
  <2>4. \A i \in 1 .. Len(mutex') : mutex'[i].sort # "retiring"
    BY <1>8, <2>1, <2>2, <2>3 DEF MutexPaused
  <2>5. \A i \in 1 .. Len(mutex') : mutex'[i] = s \/ \E j \in 1 .. Len(mutex) : mutex'[i] = mutex[j]
    <3>1. \A j \in 2 .. Len(mutex) : j \in 1 .. Len(mutex)
      BY <1>1
    <3>2. QED BY <2>1, <2>2, <2>3, <3>1
  <2>6. (\A i \in 1 .. Len(mutex) : SectionPaused(mutex[i]))'
    BY <1>8, <2>5 DEF MutexPaused, SectionPaused
  <2>7. \A i \in 2 .. Len(mutex') : i \in 1 .. Len(mutex')
    BY <2>1, <2>2
  <2>8. QED BY <2>4, <2>6, <2>7 DEF MutexPaused
<1>9. QED BY <1>4, <1>5, <1>7, <1>8

(* The section at the head goes on. *)
LEMMA MutexPausedServed ==
  ASSUME TypeOK, MutexPaused, UNCHANGED host, mutex # <<>>, NEW s, mutex' = [mutex EXCEPT ![1] = s], SectionPaused(s),
         s.sort = "retiring" => \A r \in s.todo : deferred'[ActorOf[r]] = r => state'[r] \notin Unstarted
  PROVE  MutexPaused'
<1>1. mutex \in Seq(SectionRecord \cup {s}) /\ Len(mutex) \in Nat /\ 1 \in 1 .. Len(mutex)
  <2>1. mutex \in Seq(SectionRecord)
    BY DEF TypeOK, SectionRecord
  <2>2. SectionRecord \subseteq SectionRecord \cup {s}
    OBVIOUS
  <2>3. QED BY <2>1, <2>2, LenProperties, EmptySeq
<1>2. Len(mutex') = Len(mutex) /\ \A i \in 1 .. Len(mutex) : mutex'[i] = IF i = 1 THEN s ELSE mutex[i]
  BY <1>1, ExceptSeq
<1>3. (\A i \in 1 .. Len(mutex) : SectionPaused(mutex[i]))'
  BY <1>2 DEF MutexPaused, SectionPaused
<1>4. \A i \in 2 .. Len(mutex) : mutex'[i].sort # "retiring"
  BY <1>1, <1>2 DEF MutexPaused
<1>5. \A i \in 1 .. Len(mutex) : i = 1 \/ i \in 2 .. Len(mutex)
  BY <1>1
<1>6. QED BY <1>2, <1>3, <1>4, <1>5 DEF MutexPaused

(* Who a pending operation and a run belong to.                            *)
LEMMA DeferredOwner ==
  ASSUME SchedulerInv, NEW a \in Actors, deferred[a] # NoRun
  PROVE  deferred[a] \in Runs /\ ActorOf[deferred[a]] = a
  BY DEF SchedulerInv, TypeOK, ActorBook, ActorOK

(* No lane is readied, no run queued and no operation pending or over.     *)
LEMMA PauseQuiet ==
  ASSUME SchedulerInv, PauseBook, MutexPaused',
         UNCHANGED <<host, registering, abandoning, deferred, active, kind, readyKeys, readySet>>, actors' \subseteq actors,
         \A a \in Actors : agent'[a] \in {agent[a], "idle"} \/ (agent[a] = "running" /\ agent'[a] = "aborting"),
         \A r \in Runs : state'[r] = "ready" => state[r] = "ready",
         \A r \in Runs : deferred[ActorOf[r]] = r => state'[r] = state[r],
         \A r \in Runs : canon'[r] = "ended" /\ canon[r] # "ended" =>
           /\ state[r] # "ready" /\ deferred[ActorOf[r]] # r
           /\ active[ActorOf[r]] = r => agent'[ActorOf[r]] = "idle"
  PROVE  PauseBook'
<1>1. TypeOK
  BY DEF SchedulerInv
<1>2. \A a \in Actors : Listed(a)' <=> Listed(a)
  BY DEF Listed
<1>3. KeysOnce' /\ registering' = {}
  BY DEF PauseBook, KeysOnce
<1>4. ASSUME NEW a \in Actors PROVE LanePaused(a)'
  <2>1. LanePaused(a)
    BY DEF PauseBook
  <2>2. abandoning'[a] = NotAbandoning /\ agent'[a] # "refused" /\ (a \in actors' /\ Listed(a)' => a \in readySet')
    BY <1>2, <2>1 DEF LanePaused
  <2>3. deferred[a] # NoRun => /\ deferred[a] \in Runs /\ ActorOf[deferred[a]] = a
                               /\ state'[deferred[a]] = state[deferred[a]] /\ canon'[deferred[a]] # "ended"
    BY <2>1, DeferredOwner DEF LanePaused
  <2>4. a \in readySet' => active'[a] = NoRun /\ (deferred'[a] # NoRun => state'[deferred'[a]] = "ready")
    BY <2>1, <2>3 DEF LanePaused
  <2>5. deferred'[a] # NoRun =>
          /\ deferred'[a] \in host'.deferrable /\ canon'[deferred'[a]] # "ended"
          /\ state'[deferred'[a]] \in {"ready", "active", "settled"}
    BY <2>1, <2>3 DEF LanePaused
  <2>6. ASSUME agent'[a] # "idle" PROVE canon'[active'[a]] # "ended"
    <3>1. agent[a] # "idle" /\ active'[a] = active[a]
      BY <2>6
    <3>2. active[a] \in Runs /\ ActorOf[active[a]] = a /\ canon[active[a]] # "ended"
      BY <2>1, <3>1, WorkingAgent DEF LanePaused
    <3>3. QED BY <2>6, <3>1, <3>2
  <2>7. QED BY <2>2, <2>4, <2>5, <2>6 DEF LanePaused
<1>5. ASSUME NEW r \in Runs PROVE RunPaused(r)'
  BY DEF PauseBook, RunPaused
<1>6. QED BY <1>3, <1>4, <1>5 DEF PauseBook

(* A registered actor's lane is readied.                                   *)
LEMMA PauseReadied ==
  ASSUME SchedulerInv, SchedulerInv', PauseBook, MutexPaused', NEW a \in Actors, a \in actors,
         markReady(readyKeys, readySet, a),
         UNCHANGED <<host, registering, abandoning, deferred, agent, actors>>,
         \A b \in Actors : active'[b] \in {active[b], NoRun} /\ (agent[b] # "idle" => active'[b] = active[b]),
         \A r \in Runs : deferred[ActorOf[r]] = r => /\ state[r] = "ready" => state'[r] = "ready"
                                                     /\ state'[r] \in {"ready", "active", "settled"},
         \A r \in Runs : canon'[r] = "ended" /\ canon[r] # "ended" =>
           deferred[ActorOf[r]] # r /\ active[ActorOf[r]] # r,
         \A r \in Runs : RunPaused(r)'
  PROVE  PauseBook'
<1>1. TypeOK /\ TypeOK'
  BY DEF SchedulerInv
<1>2. PICK keys \in Seq(Actors), set \in SUBSET Actors : keys = readyKeys /\ set = readySet
  BY <1>1 DEF TypeOK
<1>3. \/ readyKeys' = keys /\ readySet' = set
      \/ /\ readyKeys' = Append(keys, a) /\ readySet' = set \cup {a} /\ a \notin set
         /\ active'[a] = NoRun /\ queue'[a] # <<>> /\ deferred'[a] \in {NoRun, Head(queue'[a])}
  BY <1>2 DEF markReady, Enqueue
<1>4. KeysOnce' /\ \A b \in Actors : Listed(b)' => Listed(b) \/ b \in readySet'
  <2>1. CASE readyKeys' = keys
    BY <1>2, <2>1 DEF PauseBook, KeysOnce, Listed
  <2>2. CASE readyKeys' = Append(keys, a) /\ a \notin set /\ readySet' = set \cup {a}
    <3>1. /\ Len(keys) \in Nat /\ Len(readyKeys') = Len(keys) + 1 /\ readyKeys'[Len(keys) + 1] = a
          /\ \A i \in 1 .. Len(keys) : readyKeys'[i] = keys[i]
      BY <2>2, AppendProperties, LenProperties
    <3>2. \A i \in 1 .. Len(keys) : keys[i] # a
      BY <1>2, <2>2 DEF PauseBook, LanePaused, Listed
    <3>3. \A i \in 1 .. Len(readyKeys') : i \in 1 .. Len(keys) \/ i = Len(keys) + 1
      BY <3>1
    <3>4. \A i, j \in 1 .. Len(keys) : keys[i] = keys[j] => i = j
      BY <1>2 DEF PauseBook, KeysOnce
    <3>5. KeysOnce'
      BY <3>1, <3>2, <3>3, <3>4 DEF KeysOnce
    <3>6. \A b \in Actors : Listed(b)' => Listed(b) \/ b \in readySet'
      BY <1>2, <2>2, <3>1, <3>3 DEF Listed
    <3>7. QED BY <3>5, <3>6
  <2>3. QED BY <1>3, <2>1, <2>2
<1>5. ASSUME NEW b \in Actors PROVE LanePaused(b)'
  <2>1. LanePaused(b)
    BY DEF PauseBook
  <2>2. abandoning'[b] = NotAbandoning /\ agent'[b] # "refused"
    BY <2>1 DEF LanePaused
  <2>3. b \in actors' /\ Listed(b)' => b \in readySet'
    BY <1>2, <1>3, <1>4, <2>1 DEF LanePaused
  <2>4. deferred[b] # NoRun => /\ deferred[b] \in Runs /\ ActorOf[deferred[b]] = b
                               /\ state[deferred[b]] = "ready" => state'[deferred[b]] = "ready"
                               /\ state'[deferred[b]] \in {"ready", "active", "settled"} /\ canon'[deferred[b]] # "ended"
    BY <2>1, DeferredOwner DEF LanePaused
  <2>5. b \in readySet' => active'[b] = NoRun /\ (deferred'[b] # NoRun => state'[deferred'[b]] = "ready")
    <3>1. CASE b \in set
      BY <1>2, <2>1, <2>4, <3>1 DEF LanePaused
    <3>2. CASE b = a /\ queue'[a] # <<>> /\ deferred'[a] \in {NoRun, Head(queue'[a])} /\ active'[a] = NoRun
      <4>1. 1 \in 1 .. Len(queue'[a]) /\ Head(queue'[a]) = queue'[a][1]
        BY <1>1, <3>2, EmptySeq DEF TypeOK
      <4>2. state'[Head(queue'[a])] = "ready"
        BY <4>1 DEF SchedulerInv, LaneBook
      <4>3. QED BY <3>2, <4>2
    <3>3. QED BY <1>3, <3>1, <3>2
  <2>6. ASSUME agent'[b] # "idle" PROVE canon'[active'[b]] # "ended"
    <3>1. agent[b] # "idle" /\ active'[b] = active[b]
      BY <2>6
    <3>2. active[b] \in Runs /\ ActorOf[active[b]] = b /\ canon[active[b]] # "ended"
      BY <2>1, <3>1, WorkingAgent DEF LanePaused
    <3>3. QED BY <3>1, <3>2
  <2>7. deferred'[b] # NoRun =>
          /\ deferred'[b] \in host'.deferrable /\ canon'[deferred'[b]] # "ended"
          /\ state'[deferred'[b]] \in {"ready", "active", "settled"}
    BY <2>1, <2>4 DEF LanePaused
  <2>8. QED BY <2>2, <2>3, <2>5, <2>6, <2>7 DEF LanePaused
<1>6. registering' = {}
  BY DEF PauseBook
<1>7. QED BY <1>4, <1>5, <1>6 DEF PauseBook

LEMMA RequestsKeepPause ==
  ASSUME SchedulerInv, PauseBook, LetsDeferredRunsBe,
         \/ \E r \in Runs : start(r) \/ submit(r) \/ abortRun(r)
         \/ stopAdmission
         \/ \E a \in Actors : resumeDeferred(a) \/ retireActor(a) \/ RetireContinues(a) \/ AgentEnds(a)
  PROVE  PauseBook'
<1> USE DEF admission, registry, lanes, ready, counters, agents, stored
<1>1. TypeOK
  BY DEF SchedulerInv
<1>2. UNCHANGED <<host, registering, abandoning, deferred, active, kind, readyKeys, readySet>> /\ UNCHANGED actors
  <2>1. UNCHANGED <<host, registering, abandoning, deferred>>
    BY DEF start, submit, abortRun, stopAdmission, resumeDeferred, retireActor, RetireContinues, AgentEnds
  <2>2. UNCHANGED <<active, kind, readyKeys, readySet>> /\ UNCHANGED actors
    BY DEF start, submit, abortRun, stopAdmission, resumeDeferred, retireActor, RetireContinues, AgentEnds
  <2>3. QED BY <2>1, <2>2
<1>3. \A a \in Actors : agent'[a] \in {agent[a], "idle"}
  <2>1. UNCHANGED agent \/ \E a \in Actors : agent' = [agent EXCEPT ![a] = "idle"]
    BY DEF start, submit, abortRun, stopAdmission, resumeDeferred, retireActor, RetireContinues, AgentEnds
  <2>2. QED BY <1>1, <2>1 DEF TypeOK
<1>4. \A r \in Runs : state'[r] # state[r] => state[r] = "new" /\ state'[r] = "admitting"
  <2>1. UNCHANGED state \/ \E r \in Runs : state[r] = "new" /\ state' = [state EXCEPT ![r] = "admitting"]
    BY DEF start, submit, abortRun, stopAdmission, resumeDeferred, retireActor, RetireContinues, AgentEnds
  <2>2. QED BY <1>1, <2>1 DEF TypeOK
<1>5. \A r \in Runs : deferred[ActorOf[r]] = r => state[r] # "new"
  BY RuntimeAssumption DEF PauseBook, LanePaused
<1>6. ASSUME NEW r \in Runs, canon'[r] = "ended", canon[r] # "ended"
      PROVE  /\ state[r] # "ready" /\ deferred[ActorOf[r]] # r
             /\ active[ActorOf[r]] = r => agent'[ActorOf[r]] = "idle"
  <2>1. PICK a \in Actors : AgentEnds(a)
    BY <1>6 DEF start, submit, abortRun, stopAdmission, resumeDeferred, retireActor, RetireContinues
  <2>2. agent[a] # "idle" /\ agent'[a] = "idle"
    BY <1>1, <2>1 DEF AgentEnds, TypeOK
  <2>3. active[a] \in Runs /\ ActorOf[active[a]] = a /\ state[active[a]] = "active"
    BY <2>2, WorkingAgent
  <2>4. r = active[a]
    BY <1>1, <1>6, <2>1 DEF AgentEnds, TypeOK
  <2>5. deferred[a] # r
    BY <1>1, <1>6, <2>1, <2>4 DEF AgentEnds, EndOf, LetsDeferredRunsBe, TypeOK
  <2>6. QED BY <2>2, <2>3, <2>4, <2>5
<1>7. NoneResumed
  BY <1>2, <1>4, <1>5 DEF NoneResumed
<1>8. UNCHANGED mutex \/ \E s : mutex' = Append(mutex, s) /\ SectionPaused(s) /\ s.sort # "retiring"
  <2>1. ASSUME NEW sort \in {"admit", "submit", "resume", "retire", "release", "finish"}, NEW a, NEW r
        PROVE  SectionPaused(Section(sort, a, r)) /\ Section(sort, a, r).sort # "retiring"
    BY DEF Section, SectionPaused
  <2>2. ASSUME NEW r \in Runs, abortRun(r) PROVE \E s : mutex' = Append(mutex, s) /\ SectionPaused(s) /\ s.sort # "retiring"
    <3> DEFINE s == [Section("abort", ActorOf[r], r) EXCEPT !.todo = {r}]
    <3>1. mutex' = Append(mutex, s) /\ s.sort = "abort" /\ s.todo = {r} /\ r \in host.abortable
      BY <2>2 DEF abortRun, Section
    <3> HIDE DEF s
    <3>2. SectionPaused(s)
      BY <3>1 DEF SectionPaused
    <3>3. QED BY <3>1, <3>2
  <2>3. ASSUME NEW r \in Runs, start(r) \/ submit(r)
        PROVE  \E s : mutex' = Append(mutex, s) /\ SectionPaused(s) /\ s.sort # "retiring"
    BY <2>1, <2>3 DEF start, submit
  <2>4. CASE stopAdmission
    BY <2>4 DEF stopAdmission
  <2>5. ASSUME NEW a \in Actors, resumeDeferred(a) \/ retireActor(a) \/ RetireContinues(a) \/ AgentEnds(a)
        PROVE  \E s : mutex' = Append(mutex, s) /\ SectionPaused(s) /\ s.sort # "retiring"
    BY <2>1, <2>5 DEF resumeDeferred, retireActor, RetireContinues, AgentEnds
  <2>6. QED BY <2>2, <2>3, <2>4, <2>5
<1>9. MutexPaused'
  BY <1>1, <1>2, <1>7, <1>8, MutexPausedKept DEF PauseBook
<1>10. (\A r \in Runs : state'[r] = "ready" => state[r] = "ready") /\ \A r \in Runs : deferred[ActorOf[r]] = r => state'[r] = state[r]
  BY <1>4, <1>5
<1>11. \A r \in Runs : canon'[r] = "ended" /\ canon[r] # "ended" =>
         /\ state[r] # "ready" /\ deferred[ActorOf[r]] # r
         /\ active[ActorOf[r]] = r => agent'[ActorOf[r]] = "idle"
  BY <1>6
<1>12. /\ actors' \subseteq actors
       /\ \A a \in Actors : agent'[a] \in {agent[a], "idle"} \/ (agent[a] = "running" /\ agent'[a] = "aborting")
  BY <1>2, <1>3
<1>13. UNCHANGED <<host, registering, abandoning, deferred, active, kind, readyKeys, readySet>>
  BY <1>2
<1>14. QED BY ONLY SchedulerInv, PauseBook, <1>9, <1>10, <1>11, <1>12, <1>13, PauseQuiet

(* Such a host never asks for these. *)
LEMMA NeverAsked ==
  ASSUME SchedulerInv, PauseBook, LetsDeferredRunsBe
  PROVE  /\ ~abortAll /\ ~abortEveryRun /\ ~AbandonSection /\ ~AbandonedSection /\ ~ReadySection
         /\ \A a \in Actors : ~abandonDeferred(a) /\ ~AgentAbandons(a) /\ ~AgentAbandoned(a) /\ ~finishStartFailure(a)
         /\ ~ \E batch \in SUBSET host.reregistered : registerActors(batch)
         /\ ~ \E batch \in registering : RegistrationEnds(batch)
<1>1. mutex # <<>> => SectionPaused(Head(mutex))
  BY HeadSection DEF SchedulerInv, PauseBook, MutexPaused
<1>2. ~abortAll /\ ~abortEveryRun /\ ~AbandonSection /\ ~AbandonedSection /\ ~ReadySection
  BY <1>1 DEF SectionPaused, LetsDeferredRunsBe, abortAll, abortEveryRun, AbandonSection, AbandonedSection, ReadySection, Holds
<1>3. ASSUME NEW a \in Actors PROVE ~abandonDeferred(a) /\ ~AgentAbandons(a) /\ ~AgentAbandoned(a) /\ ~finishStartFailure(a)
  <2>1. abandoning[a].stage = "none" /\ agent[a] # "refused" /\ host.abandonable = {}
    BY DEF PauseBook, LanePaused, NotAbandoning, LetsDeferredRunsBe
  <2>2. QED BY <2>1 DEF abandonDeferred, AgentAbandons, AgentAbandoned, finishStartFailure
<1>4. ~ \E batch \in SUBSET host.reregistered : registerActors(batch)
  BY DEF LetsDeferredRunsBe, registerActors
<1>5. ~ \E batch \in registering : RegistrationEnds(batch)
  BY DEF PauseBook
<1>6. QED BY <1>2, <1>3, <1>4, <1>5

(* What a run in the todo of the head section may be. *)
LEMMA TurnPaused ==
  ASSUME SchedulerInv, PauseBook, LetsDeferredRunsBe, NEW r \in Runs, AbortTurn(r), deferred[ActorOf[r]] = r
  PROVE  state[r] \notin Unstarted
<1>1. mutex # <<>> /\ Head(mutex) = mutex[1] /\ mutex[1] \in SectionRecord /\ 1 \in 1 .. Len(mutex) /\ r \in mutex[1].todo
  BY HeadSection DEF SchedulerInv, AbortTurn, Aborting, Holds
<1>2. deferred[ActorOf[r]] # NoRun /\ r \in host.deferrable
  BY RuntimeAssumption DEF PauseBook, LanePaused
<1>3. SectionPaused(mutex[1])
  BY <1>1 DEF PauseBook, MutexPaused
<1>4. mutex[1].sort = "retiring"
  BY <1>1, <1>2, <1>3 DEF AbortTurn, Aborting, Holds, SectionPaused, LetsDeferredRunsBe
<1>5. QED BY <1>1, <1>4 DEF PauseBook, MutexPaused

(* The head section is done with a run. *)
LEMMA TurnTaken ==
  ASSUME SchedulerInv, PauseBook, UNCHANGED host, Aborting, NEW r, NEW await, AbortedNext(r, await), NoneResumed
  PROVE  MutexPaused'
<1>1. /\ mutex # <<>> /\ Head(mutex) = mutex[1] /\ mutex[1] \in SectionRecord /\ 1 \in 1 .. Len(mutex) /\ TypeOK /\ MutexPaused
  BY HeadSection DEF SchedulerInv, Aborting, Holds, PauseBook
<1>2. PICK s \in SectionRecord : s = [mutex[1] EXCEPT !.todo = @ \ {r}, !.cancel = NoRun]
  BY <1>1 DEF SectionRecord
<1>3. mutex' = [mutex EXCEPT ![1] = s] /\ s.sort = mutex[1].sort /\ s.todo = mutex[1].todo \ {r}
  BY <1>1, <1>2 DEF AbortedNext, SectionRecord
<1>4. SectionPaused(s)
  BY <1>1, <1>3 DEF MutexPaused, SectionPaused
<1>5. s.sort = "retiring" => \A q \in s.todo : deferred'[ActorOf[q]] = q => state'[q] \notin Unstarted
  BY <1>1, <1>2, <1>3 DEF MutexPaused, NoneResumed, SectionRecord
<1>6. QED BY <1>1, <1>3, <1>4, <1>5, MutexPausedServed

LEMMA AbortsKeepPause ==
  ASSUME SchedulerInv, PauseBook, LetsDeferredRunsBe, NEW r \in Runs, AbortActive(r) \/ AbortQueued(r) \/ AbortSkips(r)
  PROVE  PauseBook'
<1>1. /\ UNCHANGED <<host, registering, abandoning, deferred, active, kind, readyKeys, readySet>> /\ UNCHANGED actors
      /\ UNCHANGED canon /\ TypeOK /\ Aborting
  <2>1. UNCHANGED <<host, registering, abandoning, deferred>> /\ UNCHANGED canon
    BY DEF AbortActive, AbortQueued, AbortSkips, admission, agents, stored
  <2>2. UNCHANGED <<active, kind, readyKeys, readySet>> /\ UNCHANGED actors
    BY DEF AbortActive, AbortQueued, AbortSkips, lanes, ready
  <2>3. QED BY <2>1, <2>2 DEF SchedulerInv, AbortActive, AbortQueued, AbortSkips, AbortTurn
<1>2. \A a \in Actors : agent'[a] \in {agent[a], "idle"} \/ (agent[a] = "running" /\ agent'[a] = "aborting")
  BY <1>1 DEF AbortActive, AbortQueued, AbortSkips, agents, TypeOK
<1>3. state' = state \/ (state[r] \in Unstarted /\ state' = [state EXCEPT ![r] = "cancelling"])
  BY DEF AbortActive, AbortQueued, AbortSkips, lanes
<1>4. \A q \in Runs : deferred[ActorOf[q]] = q => state'[q] = state[q]
  <2>1. deferred[ActorOf[r]] = r => state[r] \notin Unstarted
    BY TurnPaused DEF AbortActive, AbortQueued, AbortSkips
  <2>2. QED BY <1>1, <1>3, <2>1 DEF TypeOK
<1>5. \A q \in Runs : state'[q] = "ready" => state[q] = "ready"
  BY <1>1, <1>3 DEF TypeOK
<1>6. NoneResumed
  BY <1>1, <1>4 DEF NoneResumed
<1>7. MutexPaused'
  <2>1. CASE \E await \in BOOLEAN : AbortedNext(r, await)
    BY <1>1, <1>6, <2>1, TurnTaken
  <2>2. CASE mutex' = [mutex EXCEPT ![1].cancel = r]
    <3>1. /\ mutex # <<>> /\ Head(mutex) = mutex[1] /\ mutex[1] \in SectionRecord /\ 1 \in 1 .. Len(mutex) /\ MutexPaused
      BY <1>1, HeadSection DEF SchedulerInv, Aborting, Holds, PauseBook
    <3>2. PICK s \in SectionRecord : s = [mutex[1] EXCEPT !.cancel = r]
      BY <3>1 DEF SectionRecord
    <3>3. mutex' = [mutex EXCEPT ![1] = s] /\ s.sort = mutex[1].sort /\ s.todo = mutex[1].todo
      BY <2>2, <3>1, <3>2 DEF SectionRecord
    <3>4. SectionPaused(s)
      BY <3>1, <3>3 DEF MutexPaused, SectionPaused
    <3>5. s.sort = "retiring" => \A q \in s.todo : deferred'[ActorOf[q]] = q => state'[q] \notin Unstarted
      BY <3>1, <3>2, <3>3, <1>6 DEF MutexPaused, NoneResumed, SectionRecord
    <3>6. QED BY <1>1, <3>1, <3>3, <3>4, <3>5, MutexPausedServed
  <2>3. QED BY <2>1, <2>2 DEF AbortActive, AbortQueued, AbortSkips
<1>8. QED BY <1>1, <1>2, <1>4, <1>5, <1>7, PauseQuiet

(* The other sections that ready no lane. *)
LEMMA SectionsKeepPause ==
  ASSUME SchedulerInv, PauseBook, LetsDeferredRunsBe, AdmissionEnters \/ SubmitSection \/ AbortsDone \/ RetireSection
  PROVE  PauseBook'
<1>1. /\ UNCHANGED <<host, registering, abandoning, deferred, active, kind, readyKeys, readySet>> /\ UNCHANGED actors
      /\ TypeOK /\ mutex # <<>>
  <2>1. UNCHANGED <<host, registering, abandoning, deferred>> /\ UNCHANGED actors
    BY DEF AdmissionEnters, SubmitSection, AbortsDone, RetireSection, admission, registry, agents
  <2>2. UNCHANGED <<active, kind, readyKeys, readySet>> /\ mutex # <<>>
    BY DEF AdmissionEnters, SubmitSection, AbortsDone, RetireSection, Aborting, Holds, lanes, ready
  <2>3. QED BY <2>1, <2>2 DEF SchedulerInv
<1>2. Head(mutex) = mutex[1] /\ mutex[1] \in SectionRecord /\ SectionOK(mutex[1]) /\ 1 \in 1 .. Len(mutex)
  BY <1>1, HeadSection DEF SchedulerInv
<1>3. UNCHANGED agent
  BY DEF AdmissionEnters, SubmitSection, AbortsDone, RetireSection, agents
<1>4. ASSUME NEW r \in Runs, state'[r] # state[r] PROVE state'[r] = "admitting" /\ deferred[ActorOf[r]] = NoRun
  BY <1>1, <1>2, <1>4 DEF AdmissionEnters, SubmitSection, AbortsDone, RetireSection, Holds, lanes, submitAdmits, SectionOK,
                         OfRun, Pending, TypeOK
<1>5. ASSUME NEW r \in Runs, canon'[r] # canon[r] PROVE ~Live(r) /\ deferred[ActorOf[r]] = NoRun
  BY <1>1, <1>2, <1>5 DEF AdmissionEnters, SubmitSection, AbortsDone, RetireSection, Holds, stored, submitRepairs, SectionOK,
                         OfRun, Pending, appendEvent, TypeOK
<1>6. /\ \A r \in Runs : state'[r] = "ready" => state[r] = "ready"
      /\ \A r \in Runs : deferred[ActorOf[r]] = r => state'[r] = state[r]
  BY <1>4, RuntimeAssumption
<1>7. \A r \in Runs : canon'[r] = "ended" /\ canon[r] # "ended" =>
           /\ state[r] # "ready" /\ deferred[ActorOf[r]] # r
           /\ active[ActorOf[r]] = r => agent'[ActorOf[r]] = "idle"
  BY <1>5, RuntimeAssumption DEF Live, Unstarted, SchedulerInv, LaneBook
<1>8. NoneResumed
  BY <1>1, <1>6 DEF NoneResumed
<1>9. MutexPaused'
  <2>1. CASE mutex' = Tail(mutex)
    BY <1>1, <2>1, MutexPausedKept DEF PauseBook
  <2>2. CASE RetireSection /\ mutex' # Tail(mutex)
    <3> DEFINE a == Head(mutex).actor
    <3>1. CASE mutex' = Append(Tail(mutex), Section("unretire", a, NoRun))
      <4>1. SectionPaused(Section("unretire", a, NoRun)) /\ Section("unretire", a, NoRun).sort # "retiring"
        BY DEF Section, SectionPaused
      <4>2. QED BY <1>1, <3>1, <4>1, MutexPausedKept DEF PauseBook
    <3>2. CASE deferred[a] = NoRun /\ mutex' = [mutex EXCEPT ![1].sort = "retiring", ![1].todo = RunsOf(a)]
      <4>1. PICK s \in SectionRecord : s = [mutex[1] EXCEPT !.sort = "retiring", !.todo = RunsOf(a)]
        BY <1>2 DEF SectionRecord, Sorts, RunsOf
      <4>2. mutex' = [mutex EXCEPT ![1] = s] /\ s.sort = "retiring" /\ s.todo = RunsOf(a)
        BY <1>2, <3>2, <4>1 DEF SectionRecord
      <4>3. SectionPaused(s)
        BY <4>2 DEF SectionPaused
      <4>4. \A q \in s.todo : deferred'[ActorOf[q]] = q => state'[q] \notin Unstarted
        BY <1>1, <3>2, <4>2, RuntimeAssumption DEF RunsOf
      <4>5. QED BY <1>1, <4>2, <4>3, <4>4, MutexPausedServed DEF PauseBook
    <3>3. QED BY <2>2, <3>1, <3>2 DEF RetireSection
  <2>3. CASE (AdmissionEnters \/ SubmitSection) /\ mutex' # Tail(mutex)
    <3>1. PICK sort \in Sorts : mutex' = [mutex EXCEPT ![1].sort = sort] /\ sort \in {"submitting", "resuming", "admitDurable"}
      BY <2>3 DEF AdmissionEnters, SubmitSection, Sorts
    <3>2. PICK s \in SectionRecord : s = [mutex[1] EXCEPT !.sort = sort]
      BY <1>2 DEF SectionRecord
    <3>3. mutex' = [mutex EXCEPT ![1] = s] /\ s.sort = sort
      BY <1>2, <3>1, <3>2 DEF SectionRecord
    <3>4. SectionPaused(s)
      BY <3>1, <3>3 DEF SectionPaused
    <3>5. QED BY <1>1, <3>1, <3>3, <3>4, MutexPausedServed DEF PauseBook
  <2>4. QED BY <2>1, <2>2, <2>3 DEF AbortsDone
<1>10. actors' \subseteq actors /\ \A a \in Actors : agent'[a] \in {agent[a], "idle"}
  BY <1>1, <1>3
<1>11. QED BY <1>1, <1>6, <1>7, <1>9, <1>10, PauseQuiet

(* The operation of an active run becomes pending, or is over.             *)
LEMMA AgentPendsKeepsPause ==
  ASSUME SchedulerInv, PauseBook, NEW a \in Actors, AgentDefers(a) \/ AgentFetches(a)
  PROVE  PauseBook'
<1>1. /\ UNCHANGED <<host, registering, actors, abandoning, active, agent, kind, readyKeys, readySet, state, canon, mutex>>
      /\ TypeOK /\ agent[a] # "idle" /\ deferred' = [deferred EXCEPT ![a] = deferred'[a]]
      /\ deferred'[a] = NoRun \/ (deferred'[a] = active[a] /\ deferred[a] = NoRun /\ active[a] \in host.deferrable)
      /\ deferred[a] \in {NoRun, active[a]}
  <2>1. UNCHANGED <<host, registering, actors, abandoning, active, agent>>
    BY DEF AgentDefers, AgentFetches, admission, registry, lanes, agents
  <2>2. UNCHANGED <<kind, readyKeys, readySet, state, canon, mutex>>
    BY DEF AgentDefers, AgentFetches, lanes, ready, stored
  <2>3. TypeOK
    BY DEF SchedulerInv
  <2>4. QED BY <2>1, <2>2, <2>3 DEF AgentDefers, AgentFetches, TypeOK
<1>2. active[a] \in Runs /\ ActorOf[active[a]] = a /\ state[active[a]] = "active"
  BY <1>1, WorkingAgent
<1>3. deferred'[a] \in {NoRun, active[a]} /\ \A b \in Actors \ {a} : deferred'[b] = deferred[b]
  BY <1>1 DEF TypeOK
<1>4. MutexPaused'
  <2>1. NoneResumed
    BY <1>1, <1>2, <1>3, RuntimeAssumption DEF NoneResumed, Unstarted
  <2>2. QED BY <1>1, <2>1, MutexPausedKept DEF PauseBook
<1>5. ASSUME NEW r \in Runs PROVE RunPaused(r)'
  <2>1. state[r] = "ready" => (deferred'[ActorOf[r]] = r <=> deferred[ActorOf[r]] = r)
    BY <1>1, <1>2, <1>3, RuntimeAssumption
  <2>2. QED BY <1>1, <2>1 DEF PauseBook, RunPaused
<1>6. ASSUME NEW b \in Actors PROVE LanePaused(b)'
  <2>1. LanePaused(b) /\ (Listed(b)' <=> Listed(b))
    BY <1>1 DEF PauseBook, Listed
  <2>2. CASE b # a
    BY <1>1, <1>3, <2>1, <2>2 DEF LanePaused
  <2>3. CASE b = a
    <3>1. a \notin readySet
      BY <1>1, <1>2, <2>1, <2>3, RuntimeAssumption DEF LanePaused
    <3>2. canon[active[a]] # "ended"
      BY <1>1, <2>1, <2>3 DEF LanePaused
    <3>3. deferred'[a] # NoRun => deferred'[a] \in host.deferrable /\ canon[deferred'[a]] # "ended" /\ state[deferred'[a]] = "active"
      BY <1>1, <1>2, <3>2
    <3>4. QED BY <1>1, <2>1, <2>3, <3>1, <3>2, <3>3 DEF LanePaused
  <2>4. QED BY <2>2, <2>3
<1>7. QED BY <1>1, <1>4, <1>5, <1>6 DEF PauseBook, KeysOnce

LEMMA AdmitKeepsPause ==
  ASSUME SchedulerInv, SchedulerInv', PauseBook, AdmitSection
  PROVE  PauseBook'
<1>1. /\ UNCHANGED <<host, registering, actors, abandoning, deferred, active, agent, kind>>
      /\ mutex # <<>> /\ Head(mutex).sort \in {"admit", "admitDurable"} /\ mutex' = Tail(mutex) /\ TypeOK
  BY DEF AdmitSection, Holds, admission, registry, agents, SchedulerInv
<1>2. SectionOK(mutex[1]) /\ Head(mutex) = mutex[1]
  BY <1>1, HeadSection DEF SchedulerInv
<1>3. PICK r \in Runs, a \in Actors : r = Head(mutex).run /\ a = Head(mutex).actor /\ a = ActorOf[r]
  BY <1>1, <1>2, RuntimeAssumption DEF SectionOK, OfRun, Pending
<1>4. state[r] = "admitting"
  BY <1>3 DEF AdmitSection
<1>5. canon[r] = "none" /\ kind[r] = "prompt" /\ deferred[a] # r /\ a \in actors
  <2>1. canon[r] = "none" /\ kind[r] = "prompt"
    BY <1>1, <1>4 DEF SchedulerInv, RunBook, RunOK, TypeOK
  <2>2. deferred[a] # r
    BY <2>1, RuntimeAssumption DEF SchedulerInv, ActorBook, ActorOK
  <2>3. a \in actors
    BY <1>3, <1>4 DEF SchedulerInv, LaneBook, Live, Unstarted
  <2>4. QED BY <2>1, <2>2, <2>3
<1>6. MutexPaused'
  BY <1>1, MutexPausedKept DEF PauseBook
<1>7. CASE settle(r) /\ UNCHANGED <<readyKeys, readySet, canon>>
  <2>1. state'[r] = "settled" /\ \A q \in Runs \ {r} : state'[q] = state[q]
    BY <1>1, <1>7 DEF settle, TypeOK
  <2>2. /\ \A q \in Runs : state'[q] = "ready" => state[q] = "ready"
        /\ \A q \in Runs : deferred[ActorOf[q]] = q => state'[q] = state[q]
    BY <1>3, <1>5, <2>1
  <2>3. actors' \subseteq actors /\ \A b \in Actors : agent'[b] \in {agent[b], "idle"}
    BY <1>1
  <2>4. QED BY <1>1, <1>6, <1>7, <2>2, <2>3, PauseQuiet
<1>8. CASE /\ canon' = [canon EXCEPT ![r] = "open"] /\ state' = [state EXCEPT ![r] = "ready"]
           /\ markReady(readyKeys, readySet, a)
  <2>1. /\ state'[r] = "ready" /\ canon'[r] = "open"
        /\ \A q \in Runs \ {r} : state'[q] = state[q] /\ canon'[q] = canon[q]
    BY <1>1, <1>8 DEF TypeOK
  <2>2. ASSUME NEW q \in Runs, deferred[ActorOf[q]] = q PROVE state'[q] = state[q] /\ state[q] \in {"ready", "active", "settled"}
    <3>1. q # r /\ deferred[ActorOf[q]] # NoRun
      BY <1>3, <1>5, <2>2, RuntimeAssumption
    <3>2. QED BY <2>1, <2>2, <3>1, RuntimeAssumption DEF PauseBook, LanePaused
  <2>3. ASSUME NEW q \in Runs PROVE RunPaused(q)'
    BY <1>1, <1>3, <1>5, <2>1 DEF PauseBook, RunPaused
  <2>4. \A b \in Actors : active'[b] \in {active[b], NoRun} /\ (agent[b] # "idle" => active'[b] = active[b])
    BY <1>1
  <2>5. \A q \in Runs : canon'[q] = "ended" /\ canon[q] # "ended" => deferred[ActorOf[q]] # q /\ active[ActorOf[q]] # q
    BY <2>1
  <2>6. \A q \in Runs : deferred[ActorOf[q]] = q => /\ state[q] = "ready" => state'[q] = "ready"
                                                    /\ state'[q] \in {"ready", "active", "settled"}
    BY <2>2
  <2>7. QED BY <1>1, <1>5, <1>6, <1>8, <2>3, <2>4, <2>5, <2>6, PauseReadied
<1>9. QED BY <1>3, <1>7, <1>8 DEF AdmitSection, ready

LEMMA FinishKeepsPause ==
  ASSUME SchedulerInv, SchedulerInv', PauseBook, FinishSection
  PROVE  PauseBook'
<1>1. /\ UNCHANGED <<host, registering, actors, abandoning, deferred, agent, kind, canon>>
      /\ mutex # <<>> /\ Head(mutex).sort = "finish" /\ mutex' = Tail(mutex) /\ TypeOK
  BY DEF FinishSection, Holds, admission, registry, agents, stored, SchedulerInv
<1>2. SectionOK(mutex[1]) /\ Head(mutex) = mutex[1]
  BY <1>1, HeadSection DEF SchedulerInv
<1>3. PICK r \in Runs, a \in Actors : r = Head(mutex).run /\ a = Head(mutex).actor /\ a = ActorOf[r]
  BY <1>1, <1>2, RuntimeAssumption DEF SectionOK, OfRun, Pending
<1>4. /\ state[r] = "active" /\ agent[a] = "idle" /\ settle(r) /\ markReady(readyKeys, readySet, a)
      /\ active' = [active EXCEPT ![a] = NoRun]
  BY <1>1, <1>2, <1>3 DEF FinishSection, SectionOK
<1>5. a \in actors
  BY <1>3, <1>4 DEF SchedulerInv, LaneBook, Live
<1>6. MutexPaused'
  BY <1>1, MutexPausedKept DEF PauseBook
<1>7. state'[r] = "settled" /\ \A q \in Runs \ {r} : state'[q] = state[q]
  BY <1>1, <1>4 DEF settle, TypeOK
<1>8. \A b \in Actors : active'[b] \in {active[b], NoRun} /\ (agent[b] # "idle" => active'[b] = active[b])
  BY <1>1, <1>4 DEF TypeOK
<1>9. ASSUME NEW q \in Runs, deferred[ActorOf[q]] = q
      PROVE  (state[q] = "ready" => state'[q] = "ready") /\ state'[q] \in {"ready", "active", "settled"}
  BY <1>4, <1>7, <1>9, RuntimeAssumption DEF PauseBook, LanePaused
<1>10. ASSUME NEW q \in Runs PROVE RunPaused(q)'
  BY <1>1, <1>7 DEF PauseBook, RunPaused
<1>11. \A q \in Runs : canon'[q] = "ended" /\ canon[q] # "ended" => deferred[ActorOf[q]] # q /\ active[ActorOf[q]] # q
  BY <1>1
<1>12. \A q \in Runs : deferred[ActorOf[q]] = q => /\ state[q] = "ready" => state'[q] = "ready"
                                                   /\ state'[q] \in {"ready", "active", "settled"}
  BY <1>9
<1>13. QED BY <1>1, <1>4, <1>5, <1>6, <1>8, <1>10, <1>11, <1>12, PauseReadied

LEMMA AbortSettlesKeepsPause ==
  ASSUME SchedulerInv, SchedulerInv', PauseBook, AbortSettles
  PROVE  PauseBook'
<1>1. /\ UNCHANGED <<host, registering, actors, abandoning, deferred, active, agent, kind>> /\ TypeOK /\ MutexBook
      /\ mutex # <<>> /\ Aborting
  <2>1. UNCHANGED <<host, registering, actors, abandoning, deferred, active, agent, kind>>
    BY DEF AbortSettles, admission, agents
  <2>2. QED BY <2>1 DEF AbortSettles, Aborting, Holds, SchedulerInv
<1>2. Head(mutex) = mutex[1] /\ mutex[1] \in SectionRecord /\ SectionOK(mutex[1])
  BY <1>1, HeadSection
<1>3. PICK r \in Runs, a \in Actors : r = Head(mutex).cancel /\ a = ActorOf[r]
  BY <1>2, RuntimeAssumption DEF AbortSettles, SectionRecord
<1>4. /\ state[r] = "cancelling" /\ settle(r) /\ markReady(readyKeys, readySet, a) /\ appendEvent(r, "ended")
      /\ AbortedNext(r, TRUE)
  BY <1>2, <1>3, RuntimeAssumption DEF AbortSettles, SectionOK
<1>5. a \in actors
  BY <1>3, <1>4 DEF SchedulerInv, LaneBook, Live, Unstarted
<1>6. state'[r] = "settled" /\ \A q \in Runs \ {r} : state'[q] = state[q]
  BY <1>1, <1>4 DEF settle, TypeOK
<1>7. \A q \in Runs \ {r} : canon'[q] = canon[q]
  BY <1>1, <1>4 DEF appendEvent, TypeOK
<1>8. deferred[a] # r /\ active[a] # r
  BY <1>3, <1>4, RuntimeAssumption DEF PauseBook, LanePaused, SchedulerInv, LaneBook
<1>9. ASSUME NEW q \in Runs, deferred[ActorOf[q]] = q
      PROVE  state'[q] = state[q] /\ state[q] \in {"ready", "active", "settled"}
  BY <1>3, <1>6, <1>8, <1>9, RuntimeAssumption DEF PauseBook, LanePaused
<1>10. NoneResumed
  BY <1>1, <1>9 DEF NoneResumed
<1>11. MutexPaused'
  BY <1>1, <1>4, <1>10, TurnTaken
<1>12. ASSUME NEW q \in Runs PROVE RunPaused(q)'
  BY <1>1, <1>6, <1>7 DEF PauseBook, RunPaused
<1>13. \A q \in Runs : canon'[q] = "ended" /\ canon[q] # "ended" => deferred[ActorOf[q]] # q /\ active[ActorOf[q]] # q
  BY <1>3, <1>7, <1>8
<1>14. \A q \in Runs : deferred[ActorOf[q]] = q => /\ state[q] = "ready" => state'[q] = "ready"
                                                   /\ state'[q] \in {"ready", "active", "settled"}
  BY <1>9
<1>15. \A b \in Actors : active'[b] \in {active[b], NoRun} /\ (agent[b] # "idle" => active'[b] = active[b])
  BY <1>1
<1>16. QED BY <1>1, <1>4, <1>5, <1>11, <1>12, <1>13, <1>14, <1>15, PauseReadied

LEMMA ResumeKeepsPause ==
  ASSUME SchedulerInv, SchedulerInv', PauseBook, ResumeSection
  PROVE  PauseBook'
<1>1. /\ UNCHANGED <<host, registering, actors, abandoning, deferred, active, agent>>
      /\ mutex # <<>> /\ Head(mutex).sort = "resuming" /\ mutex' = Tail(mutex) /\ TypeOK
  BY DEF ResumeSection, Holds, admission, registry, agents, SchedulerInv
<1>2. SectionOK(mutex[1]) /\ Head(mutex) = mutex[1]
  BY <1>1, HeadSection DEF SchedulerInv
<1>3. PICK r \in Runs, a \in Actors : r = Head(mutex).run /\ a = Head(mutex).actor /\ a = ActorOf[r] /\ a \in actors
  BY <1>1, <1>2, RuntimeAssumption DEF SectionOK, OfRun, Pending, Begun
<1>4. MutexPaused'
  BY <1>1, MutexPausedKept DEF PauseBook
<1>5. CASE UNCHANGED <<state, kind, readyKeys, readySet>> /\ (UNCHANGED canon \/ canon' = [canon EXCEPT ![r] = "deferred"])
  <2>1. /\ \A q \in Runs : state'[q] = "ready" => state[q] = "ready"
        /\ \A q \in Runs : deferred[ActorOf[q]] = q => state'[q] = state[q]
    BY <1>5
  <2>2. \A q \in Runs : ~(canon'[q] = "ended" /\ canon[q] # "ended")
    BY <1>1, <1>5 DEF TypeOK
  <2>3. actors' \subseteq actors /\ \A b \in Actors : agent'[b] \in {agent[b], "idle"}
    BY <1>1
  <2>4. QED BY <1>1, <1>4, <1>5, <2>1, <2>2, <2>3, PauseQuiet
<1>6. CASE /\ canResume(a, r) /\ canon' = [canon EXCEPT ![r] = "deferred"] /\ state' = [state EXCEPT ![r] = "ready"]
           /\ kind' = [kind EXCEPT ![r] = "resume"] /\ markReady(readyKeys, readySet, a)
  <2>1. /\ state'[r] = "ready" /\ canon'[r] = "deferred" /\ kind'[r] = "resume" /\ deferred[a] = r
        /\ \A q \in Runs \ {r} : state'[q] = state[q] /\ canon'[q] = canon[q] /\ kind'[q] = kind[q]
    BY <1>1, <1>6 DEF canResume, TypeOK
  <2>2. ASSUME NEW q \in Runs PROVE RunPaused(q)'
    BY <1>1, <1>3, <2>1 DEF PauseBook, RunPaused
  <2>3. ASSUME NEW q \in Runs, deferred[ActorOf[q]] = q
        PROVE  (state[q] = "ready" => state'[q] = "ready") /\ state'[q] \in {"ready", "active", "settled"}
    BY <2>1, <2>3, RuntimeAssumption DEF PauseBook, LanePaused
  <2>4. \A q \in Runs : canon'[q] = "ended" /\ canon[q] # "ended" => deferred[ActorOf[q]] # q /\ active[ActorOf[q]] # q
    BY <2>1
  <2>5. \A q \in Runs : deferred[ActorOf[q]] = q => /\ state[q] = "ready" => state'[q] = "ready"
                                                    /\ state'[q] \in {"ready", "active", "settled"}
    BY <2>3
  <2>6. \A b \in Actors : active'[b] \in {active[b], NoRun} /\ (agent[b] # "idle" => active'[b] = active[b])
    BY <1>1
  <2>7. QED BY <1>1, <1>3, <1>4, <1>6, <2>2, <2>4, <2>5, <2>6, PauseReadied
<1>7. QED BY <1>3, <1>5, <1>6 DEF ResumeSection, ready

LEMMA RetirementsKeepPause ==
  ASSUME SchedulerInv, SchedulerInv', PauseBook, ReleaseSection \/ UnretireSection
  PROVE  PauseBook'
<1> DEFINE a == Head(mutex).actor
           s == Section("unretire", a, NoRun)
<1>1. /\ UNCHANGED <<host, registering, abandoning, deferred, active, agent, kind, state, canon>> /\ actors' \subseteq actors
      /\ mutex # <<>> /\ TypeOK /\ Head(mutex).sort \in {"release", "unretire"}
      /\ mutex' = Tail(mutex) \/ mutex' = Append(Tail(mutex), s)
  <2>1. UNCHANGED <<host, registering, abandoning, deferred>> /\ UNCHANGED <<active, agent, kind, state, canon>>
    BY DEF ReleaseSection, UnretireSection, admission, lanes, agents, stored
  <2>2. actors' \subseteq actors /\ mutex # <<>> /\ Head(mutex).sort \in {"release", "unretire"}
    BY DEF ReleaseSection, UnretireSection, Holds
  <2>3. QED BY <2>1, <2>2 DEF ReleaseSection, UnretireSection, SchedulerInv
<1>2. SectionPaused(s) /\ s.sort # "retiring"
  BY DEF Section, SectionPaused
<1>3. MutexPaused'
  BY <1>1, <1>2, MutexPausedKept DEF PauseBook
<1>4. a \in Actors
  BY <1>1, HeadSection DEF SectionOK, OfActor, SchedulerInv
<1>5. \A q \in Runs : RunPaused(q)'
  BY <1>1 DEF PauseBook, RunPaused
<1>6. CASE UNCHANGED <<readyKeys, readySet>>
  <2>1. /\ \A q \in Runs : state'[q] = "ready" => state[q] = "ready"
        /\ \A q \in Runs : deferred[ActorOf[q]] = q => state'[q] = state[q]
        /\ \A b \in Actors : agent'[b] \in {agent[b], "idle"}
        /\ \A q \in Runs : ~(canon'[q] = "ended" /\ canon[q] # "ended")
    BY <1>1
  <2>2. QED BY <1>1, <1>3, <1>6, <2>1, PauseQuiet
<1>7. CASE UNCHANGED readyKeys /\ readySet' = readySet \ {a} /\ actors' = actors \ {a}
  <2>1. \A b \in Actors : Listed(b)' <=> Listed(b)
    BY <1>7 DEF Listed
  <2>2. ASSUME NEW b \in Actors PROVE LanePaused(b)'
    BY <1>1, <1>7, <2>1 DEF PauseBook, LanePaused
  <2>3. KeysOnce' /\ registering' = {}
    BY <1>1, <1>7 DEF PauseBook, KeysOnce
  <2>4. QED BY <1>3, <1>5, <2>2, <2>3 DEF PauseBook
<1>8. CASE a \in actors /\ markReady(readyKeys, readySet, a) /\ UNCHANGED actors
  <2>1. \A q \in Runs : deferred[ActorOf[q]] = q => /\ state[q] = "ready" => state'[q] = "ready"
                                                    /\ state'[q] \in {"ready", "active", "settled"}
    BY <1>1, RuntimeAssumption DEF PauseBook, LanePaused
  <2>2. /\ \A b \in Actors : active'[b] \in {active[b], NoRun} /\ (agent[b] # "idle" => active'[b] = active[b])
        /\ \A q \in Runs : canon'[q] = "ended" /\ canon[q] # "ended" => deferred[ActorOf[q]] # q /\ active[ActorOf[q]] # q
    BY <1>1
  <2>3. PICK b \in Actors : b = a
    BY <1>4
  <2>4. QED BY <1>1, <1>3, <1>5, <1>8, <2>1, <2>2, <2>3, PauseReadied
<1>9. QED BY <1>6, <1>7, <1>8 DEF ReleaseSection, UnretireSection, ready

(* The pump takes the first key, which was listed once.                    *)
LEMMA KeyTakenOnce ==
  ASSUME TypeOK, KeysOnce, readyKeys # <<>>, NEW a \in Actors, a = Head(readyKeys), readyKeys' = Tail(readyKeys)
  PROVE  KeysOnce' /\ Listed(a) /\ ~Listed(a)' /\ \A b \in Actors : Listed(b)' => Listed(b)
<1>1. /\ Len(readyKeys) \in Nat \ {0} /\ Len(readyKeys') = Len(readyKeys) - 1 /\ a = readyKeys[1]
      /\ \A i \in 1 .. Len(readyKeys') : readyKeys'[i] = readyKeys[i + 1]
  BY HeadTailProperties, LenProperties, EmptySeq DEF TypeOK
<1>2. \A i \in 1 .. Len(readyKeys') : i + 1 \in 1 .. Len(readyKeys) /\ i + 1 # 1 /\ i \in Nat
  BY <1>1
<1>3. 1 \in 1 .. Len(readyKeys)
  BY <1>1
<1>4. KeysOnce'
  <2>1. SUFFICES ASSUME NEW i \in 1 .. Len(readyKeys'), NEW j \in 1 .. Len(readyKeys'), readyKeys'[i] = readyKeys'[j]
                 PROVE  i = j
    BY DEF KeysOnce
  <2>2. i + 1 = j + 1
    BY <1>1, <1>2, <2>1 DEF KeysOnce
  <2>3. QED BY <1>2, <2>1, <2>2
<1>5. Listed(a) /\ ~Listed(a)' /\ \A b \in Actors : Listed(b)' => Listed(b)
  BY <1>1, <1>2, <1>3 DEF KeysOnce, Listed
<1>6. QED BY <1>4, <1>5

LEMMA PumpKeepsPause ==
  ASSUME SchedulerInv, SchedulerInv', ReadyBook, PauseBook, pump
  PROVE  PauseBook'
<1>1. TypeOK /\ UNCHANGED <<host, registering, actors, abandoning, deferred, kind, canon, mutex>>
  BY DEF pump, PumpReturns, PumpSkips, PumpEmptyLane, PumpActivates, admission, registry, lanes, agents, stored, SchedulerInv
<1>2. \A r \in Runs : state'[r] # state[r] => state[r] = "ready" /\ state'[r] = "active"
  <2>1. CASE PumpActivates
    <3>1. PICK r \in Runs : state' = [state EXCEPT ![r] = "active"] /\ state[r] = "ready"
      <4>1. Head(readyKeys) \in Actors /\ queue[Head(readyKeys)] # <<>>
        BY <1>1, <2>1, HeadTailProperties DEF PumpActivates, pumpStops, frontReady, TypeOK
      <4>2. Head(queue[Head(readyKeys)]) \in Runs
        BY <1>1, <4>1, HeadTailProperties DEF TypeOK
      <4>3. QED BY <2>1, <4>2 DEF PumpActivates, frontReady
    <3>2. QED BY <1>1, <3>1 DEF TypeOK
  <2>2. CASE ~PumpActivates
    BY <2>2 DEF pump, PumpReturns, PumpSkips, PumpEmptyLane, lanes
  <2>3. QED BY <2>1, <2>2
<1>3. MutexPaused'
  <2>1. NoneResumed
    BY <1>1, <1>2 DEF NoneResumed, Unstarted
  <2>2. QED BY <1>1, <2>1, MutexPausedKept DEF PauseBook
<1>4. \A r \in Runs : RunPaused(r)'
  BY <1>1, <1>2 DEF PauseBook, RunPaused
<1>5. CASE PumpReturns
  <2>1. UNCHANGED <<state, active, readyKeys, readySet, agent>>
    BY <1>5 DEF PumpReturns, lanes, ready, agents
  <2>2. \A b \in Actors : LanePaused(b)'
    BY <1>1, <2>1 DEF PauseBook, LanePaused, Listed
  <2>3. QED BY <1>1, <1>3, <1>4, <2>1, <2>2 DEF PauseBook, KeysOnce
<1>6. CASE ~PumpReturns
  <2>1. readyKeys # <<>>
    BY <1>6 DEF pump, PumpSkips, PumpEmptyLane, PumpActivates, pumpStops
  <2>2. PICK a \in Actors : a = Head(readyKeys)
    BY <1>1, <2>1, HeadTailProperties DEF TypeOK
  <2>3. PICK set \in SUBSET Actors : set = readySet \ {a}
    BY <1>1 DEF TypeOK
  <2>4. readyKeys' = Tail(readyKeys) /\ readySet' = set
    <3>1. CASE PumpSkips \/ PumpActivates
      BY <2>2, <2>3, <3>1 DEF PumpSkips, PumpActivates
    <3>2. CASE PumpEmptyLane
      <4>1. queue[a] = <<>>
        <5>1. SUFFICES ASSUME queue[a] # <<>> PROVE FALSE
          OBVIOUS
        <5>2. 1 \in 1 .. Len(queue[a]) /\ Head(queue[a]) = queue[a][1]
          BY <1>1, <5>1, EmptySeq DEF TypeOK
        <5>3. QED BY <2>2, <3>2, <5>1, <5>2 DEF SchedulerInv, LaneBook, PumpEmptyLane, frontReady
      <4>2. queue'[a] = <<>>
        BY <1>1, <2>2, <3>2, <4>1 DEF PumpEmptyLane, TypeOK
      <4>3. QED BY <2>2, <2>3, <3>2, <4>2 DEF PumpEmptyLane, markReady, Enqueue
    <3>3. QED BY <1>6, <3>1, <3>2 DEF pump
  <2>5. KeysOnce' /\ Listed(a) /\ ~Listed(a)' /\ \A b \in Actors : Listed(b)' => Listed(b)
    BY <1>1, <2>1, <2>2, <2>4, KeyTakenOnce DEF PauseBook
  <2>6. \A b \in Actors : LanePaused(b) /\ (b \in actors' /\ Listed(b)' => b \in readySet')
    BY <1>1, <2>3, <2>4, <2>5 DEF PauseBook, LanePaused
  <2>7. CASE ~PumpActivates
    <3>1. UNCHANGED <<state, active, agent>>
      BY <1>6, <2>7 DEF pump, PumpSkips, PumpEmptyLane, lanes, agents
    <3>2. \A b \in Actors : LanePaused(b)'
      BY <1>1, <2>3, <2>4, <2>6, <3>1 DEF LanePaused
    <3>3. QED BY <1>1, <1>3, <1>4, <2>5, <3>2 DEF PauseBook
  <2>8. CASE PumpActivates
    <3>1. a \in actors /\ active[a] = NoRun /\ queue[a] # <<>> /\ a \in readySet
      BY <2>2, <2>5, <2>8 DEF PumpActivates, frontReady, PauseBook, LanePaused
    <3>2. PICK r \in Runs : r = Head(queue[a]) /\ state[r] = "ready" /\ ActorOf[r] = a
      <4>1. 1 \in 1 .. Len(queue[a]) /\ Head(queue[a]) = queue[a][1] /\ queue[a][1] \in Runs
        BY <1>1, <3>1, EmptySeq, ElementOfSeq DEF TypeOK
      <4>2. QED BY <4>1 DEF SchedulerInv, LaneBook
    <3>3. /\ active'[a] = r /\ \A b \in Actors \ {a} : active'[b] = active[b]
          /\ state'[r] = "active" /\ \A q \in Runs \ {r} : state'[q] = state[q]
          /\ agent'[a] = (IF agentAccepts(a, r) THEN "running" ELSE "refused")
          /\ \A b \in Actors \ {a} : agent'[b] = agent[b]
      BY <1>1, <2>2, <2>8, <3>2 DEF PumpActivates, TypeOK
    <3>4. LanePaused(a) /\ RunPaused(r) /\ ResumeFirst(a)
      BY DEF PauseBook, ReadyBook
    <3>5. agentAccepts(a, r)
      <4>1. agent[a] = "idle" /\ ~emitting(a)
        BY <3>1, <3>4 DEF SchedulerInv, ActorBook, ActorOK, LanePaused, emitting, NotAbandoning
      <4>2. deferred[a] # NoRun => deferred[a] = r
        BY <3>1, <3>2, <3>4 DEF LanePaused, ResumeFirst
      <4>3. deferred[a] = IF kind[r] = "resume" THEN r ELSE NoRun
        BY <3>2, <3>4, <4>2, RuntimeAssumption DEF RunPaused
      <4>4. QED BY <4>1, <4>3 DEF agentAccepts
    <3>6. LanePaused(a)'
      <4>1. canon'[r] # "ended" /\ a \notin readySet'
        BY <1>1, <2>3, <2>4, <3>2, <3>4 DEF RunPaused
      <4>2. deferred[a] # NoRun => state'[deferred[a]] \in {"ready", "active", "settled"}
        BY <1>1, <3>3, <3>4, DeferredOwner DEF LanePaused
      <4>3. QED BY <1>1, <2>6, <3>3, <3>4, <3>5, <4>1, <4>2 DEF LanePaused
    <3>7. ASSUME NEW b \in Actors \ {a} PROVE LanePaused(b)'
      <4>1. deferred[b] # NoRun => state'[deferred[b]] = state[deferred[b]]
        BY <3>2, <3>3, DeferredOwner
      <4>2. LanePaused(b) /\ b \in Actors /\ active'[b] = active[b] /\ agent'[b] = agent[b]
        BY <2>6, <3>3
      <4>3. QED BY <1>1, <2>3, <2>4, <2>6, <4>1, <4>2 DEF LanePaused
    <3>8. \A b \in Actors : LanePaused(b)'
      BY <3>6, <3>7
    <3>9. QED BY <1>1, <1>3, <1>4, <2>5, <3>8 DEF PauseBook
  <2>9. QED BY <2>7, <2>8
<1>7. QED BY <1>5, <1>6

LEMMA PauseStarts == Init => PauseBook
<1> SUFFICES ASSUME Init PROVE PauseBook
  OBVIOUS
<1>1. mutex = <<>> /\ readyKeys = <<>> /\ Len(mutex) = 0 /\ Len(readyKeys) = 0
  BY DEF Init
<1>2. MutexPaused /\ KeysOnce /\ registering = {}
  BY <1>1 DEF Init, MutexPaused, KeysOnce
<1>3. \A a \in Actors : LanePaused(a)
  BY <1>1 DEF Init, LanePaused, Listed
<1>4. \A r \in Runs : RunPaused(r)
  BY DEF Init, RunPaused
<1>5. QED BY <1>2, <1>3, <1>4 DEF PauseBook

LEMMA PauseStutters ==
  ASSUME SchedulerInv, PauseBook, UNCHANGED vars
  PROVE  PauseBook'
<1>1. UNCHANGED <<host, registering, abandoning, deferred, active, kind, readyKeys, readySet>>
  BY DEF vars
<1>2. UNCHANGED actors /\ UNCHANGED agent /\ UNCHANGED state /\ UNCHANGED canon /\ UNCHANGED mutex
  BY DEF vars
<1>3. NoneResumed
  BY <1>1, <1>2 DEF NoneResumed
<1>4. MutexPaused'
  BY <1>1, <1>2, <1>3, MutexPausedKept DEF PauseBook, SchedulerInv
<1>5. actors' \subseteq actors /\ \A a \in Actors : agent'[a] \in {agent[a], "idle"}
  BY <1>2
<1>6. QED BY <1>1, <1>2, <1>4, <1>5, PauseQuiet

(* The host of a session stays the same. *)
LEMMA HostStays == Next => UNCHANGED host
<1> USE DEF admission
<1>1. Host => UNCHANGED host
  BY DEF Host, start, submit, abortRun, stopAdmission, abortAll, resumeDeferred, abandonDeferred, retireActor, registerActors
<1>2. pump => UNCHANGED host
  BY DEF pump, PumpReturns, PumpSkips, PumpEmptyLane, PumpActivates
<1>3. AdmissionEnters \/ SubmitSection \/ AdmitSection \/ FinishSection => UNCHANGED host
  BY DEF AdmissionEnters, SubmitSection, AdmitSection, FinishSection
<1>4. (\E r \in Runs : AbortActive(r) \/ AbortQueued(r) \/ AbortSkips(r)) \/ AbortSettles \/ AbortsDone \/ abortEveryRun
        => UNCHANGED host
  BY DEF AbortActive, AbortQueued, AbortSkips, AbortSettles, AbortsDone, abortEveryRun
<1>5. ResumeSection \/ AbandonSection \/ AbandonedSection \/ ReadySection => UNCHANGED host
  BY DEF ResumeSection, AbandonSection, AbandonedSection, ReadySection
<1>6. RetireSection \/ ReleaseSection \/ UnretireSection => UNCHANGED host
  BY DEF RetireSection, ReleaseSection, UnretireSection
<1>7. (\E a \in Actors : \/ AgentDefers(a) \/ AgentFetches(a) \/ AgentEnds(a) \/ finishStartFailure(a)
                         \/ AgentAbandons(a) \/ AgentAbandoned(a) \/ RetireContinues(a)) => UNCHANGED host
  BY DEF AgentDefers, AgentFetches, AgentEnds, finishStartFailure, AgentAbandons, AgentAbandoned, RetireContinues
<1>8. (\E batch \in registering : RegistrationEnds(batch)) => UNCHANGED host
  BY DEF RegistrationEnds
<1>9. QED BY <1>1, <1>2, <1>3, <1>4, <1>5, <1>6, <1>7, <1>8 DEF Next, Sections

LEMMA PauseSteps ==
  ASSUME SchedulerInv, SchedulerInv', ReadyBook, PauseBook, LetsDeferredRunsBe, Next
  PROVE  PauseBook'
<1>1. CASE Host
  <2>1. host.retirable \subseteq Actors
    BY HostTypes DEF SchedulerInv
  <2>2. QED BY <1>1, <2>1, NeverAsked, RequestsKeepPause DEF Host
<1>2. CASE pump
  BY <1>2, PumpKeepsPause
<1>3. CASE Sections
  BY <1>3, NeverAsked, SectionsKeepPause, AdmitKeepsPause, FinishKeepsPause, AbortsKeepPause, AbortSettlesKeepsPause,
     ResumeKeepsPause, RetirementsKeepPause DEF Sections
<1>4. ASSUME NEW a \in Actors,
             \/ AgentDefers(a) \/ AgentFetches(a) \/ AgentEnds(a) \/ finishStartFailure(a)
             \/ AgentAbandons(a) \/ AgentAbandoned(a) \/ RetireContinues(a)
      PROVE  PauseBook'
  BY <1>4, NeverAsked, AgentPendsKeepsPause, RequestsKeepPause
<1>5. CASE \E batch \in registering : RegistrationEnds(batch)
  BY <1>5, NeverAsked
<1>6. QED BY <1>1, <1>2, <1>3, <1>4, <1>5 DEF Next

(* While a deferred run is pending, whatever is admitted, retired or       *)
(* submitted again, the pump starts a run only when its agent takes it:    *)
(* the other work of the lane waits for the resume, which goes first.  And *)
(* the pending run has no terminal event.                                  *)
THEOREM PausedWhileDeferred == Spec => []PausedBehindDeferral
<1> DEFINE Book == LetsDeferredRunsBe => PauseBook
<1>1. Init => ReadyBook /\ Book
  BY ReadyStarts, PauseStarts
<1>2. SchedulerInv /\ SchedulerInv' /\ ReadyBook /\ Book /\ [Next]_vars => ReadyBook' /\ Book'
  <2>1. SUFFICES ASSUME SchedulerInv, SchedulerInv', ReadyBook, Book, [Next]_vars PROVE ReadyBook' /\ Book'
    OBVIOUS
  <2>2. ReadyBook'
    BY <2>1, ReadySteps, ReadyStutters
  <2>3. UNCHANGED host
    BY <2>1, HostStays DEF vars
  <2>4. LetsDeferredRunsBe' => LetsDeferredRunsBe
    BY <2>3 DEF LetsDeferredRunsBe
  <2>5. Book'
    BY <2>1, <2>4, PauseSteps, PauseStutters
  <2>6. QED BY <2>2, <2>5
<1>3. SchedulerInv /\ Book => PausedBehindDeferral
  <2>1. PauseBook => DispatchAccepted /\ PendingRunOpen
    BY DEF PauseBook, LanePaused, DispatchAccepted, PendingRunOpen
  <2>2. QED BY <2>1 DEF PausedBehindDeferral
<1> HIDE DEF Book
<1>4. QED BY <1>1, <1>2, <1>3, SchedulerInvariant, PTL DEF Spec

-----------------------------------------------------------------------------
(* The store: what its records, leases and settled tokens are. *)
TaskRecord == [key : Nat, id : Ids, status : Statuses, revision : Nat \ {0}, attempt : Nat,
               run : ChildRuns \cup {None}, result : Results \cup {None}, code : Codes \cup {None},
               createdAt : Times, startedAt : Times \cup {None}, updatedAt : Times]
Lease == [attempt : Nat, owner : Owners, expiresAt : Times]

(* A key names one record, a new record gets a new key, no revision is     *)
(* beyond the largest, who runs a task has claimed it, and only a failed   *)
(* task has a code.                                                        *)
StoreInv ==
  /\ records \subseteq TaskRecord
  /\ nextKey \in Nat
  /\ \A k \in DOMAIN leases : leases[k] \in Lease
  /\ \A r, q \in records : r.key = q.key => r = q
  /\ \A r \in records : r.key < nextKey
  /\ \A r \in records : r.status = "running" => r.attempt # 0
  /\ \A r \in records : r.revision <= MaxCounter /\ (r.code # None => r.status = "failed")
  /\ MapsAgree
  /\ LastClaimSettles

(* Record n takes the place of r, and the maps of r's key fit it.          *)
Replaced(r, n) ==
  /\ n.key = r.key /\ n.id = r.id
  /\ r.run # None => n.run = r.run
  /\ ~terminal(r)
  /\ n.status = "running" => n.attempt # 0
  /\ n.revision <= MaxCounter /\ (n.code # None => n.status = "failed")
  /\ Put(r, n)
  /\ nextKey' = nextKey
  /\ DOMAIN leases' \ {r.key} = DOMAIN leases \ {r.key}
  /\ \A k \in DOMAIN leases' \ {r.key} : leases'[k] = leases[k]
  /\ (n.status = "running") = (r.key \in DOMAIN leases')
  /\ r.key \in DOMAIN leases' => leases'[r.key] \in Lease /\ leases'[r.key].attempt = n.attempt
  /\ DOMAIN settledTokens' \ {r.key} = DOMAIN settledTokens \ {r.key}
  /\ \A k \in DOMAIN settledTokens' \ {r.key} : settledTokens'[k] = settledTokens[k]
  /\ (r.key \in DOMAIN settledTokens') = (n.status \in {"completed", "failed"})
  /\ r.key \in DOMAIN settledTokens' => settledTokens'[r.key] = n.attempt

(* What settle, abandon and cancel leave at the largest revision.          *)
LeaseLost(r) ==
  /\ r \in records /\ ~terminal(r) /\ r.revision = MaxCounter
  /\ leases' = Without(leases, r.key)
  /\ UNCHANGED <<records, settledTokens, nextKey>>

LEMMA LeaseLostKeeps ==
  ASSUME StoreInv, NEW r \in records, LeaseLost(r)
  PROVE  StoreInv' /\ OutcomeKept
<1>1. /\ DOMAIN leases' = DOMAIN leases \ {r.key}
      /\ \A k \in DOMAIN leases' : leases'[k] = leases[k]
      /\ UNCHANGED <<records, settledTokens, nextKey>>
  BY DEF LeaseLost, Without, Restrict
<1>2. MapsAgree'
  <2>1. \A q \in records' : q.status = "running" /\ q.key \notin DOMAIN leases' => q.revision = MaxCounter
    <3>1. SUFFICES ASSUME NEW q \in records', q.status = "running", q.key \notin DOMAIN leases'
                   PROVE  q.revision = MaxCounter
      OBVIOUS
    <3>2. CASE q.key = r.key
      BY <1>1, <3>2 DEF StoreInv, LeaseLost
    <3>3. CASE q.key # r.key
      BY <1>1, <3>1, <3>3 DEF StoreInv, MapsAgree
    <3>4. QED BY <3>2, <3>3
  <2>2. QED BY <1>1, <2>1 DEF StoreInv, MapsAgree
<1>3. LastClaimSettles'
  BY <1>1 DEF StoreInv, LastClaimSettles
<1>4. OutcomeKept
  BY <1>1 DEF StoreInv, OutcomeKept
<1>5. QED BY <1>1, <1>2, <1>3, <1>4 DEF StoreInv

(* Replacing a record keeps the store consistent, the bound run bound and  *)
(* the settled tasks as they are.                                          *)
LEMMA ReplacedKeeps ==
  ASSUME StoreInv, NEW r \in records, NEW n \in TaskRecord, Replaced(r, n)
  PROVE  StoreInv' /\ OutcomeKept
<1>1. \A q \in records : q # r => q.key # r.key
  BY DEF StoreInv
<1>2. \A q \in records' : q = n \/ (q \in records /\ q # r /\ q.key # r.key)
  BY <1>1 DEF Replaced, Put
<1>3. \A q \in records : q = r \/ q \in records'
  BY DEF Replaced, Put
<1>4. n \in records' /\ n.key = r.key
  BY DEF Replaced, Put
<1>5. OutcomeKept
  <2>1. SUFFICES ASSUME NEW p \in records, NEW q \in records', q.key = p.key
                 PROVE  (p.run # None => q.run = p.run) /\ (terminal(p) => q = p)
    BY DEF OutcomeKept
  <2>2. CASE q = n
    <3>1. p = r
      BY <1>1, <1>4, <2>1, <2>2
    <3>2. QED BY <2>2, <3>1 DEF Replaced
  <2>3. CASE q \in records
    BY <2>1, <2>3 DEF StoreInv
  <2>4. QED BY <1>2, <2>2, <2>3
<1>6. records' \subseteq TaskRecord /\ nextKey' \in Nat
  BY <1>2 DEF StoreInv, Replaced
<1>7. \A k \in DOMAIN leases' : leases'[k] \in Lease
  BY DEF StoreInv, Replaced
<1>8. /\ \A p, q \in records' : p.key = q.key => p = q
      /\ \A p \in records' : p.key < nextKey'
      /\ \A p \in records' : p.status = "running" => p.attempt # 0
      /\ \A p \in records' : p.revision <= MaxCounter /\ (p.code # None => p.status = "failed")
  BY <1>2, <1>4 DEF StoreInv, Replaced
<1>9. MapsAgree'
  <2>1. \A q \in records' : /\ q.key \in DOMAIN leases' => q.status = "running"
                            /\ q.status = "running" /\ q.key \notin DOMAIN leases' => q.revision = MaxCounter
    BY <1>2, <1>4 DEF StoreInv, MapsAgree, Replaced
  <2>2. \A q \in records' : q.key \in DOMAIN leases' => leases'[q.key].attempt = q.attempt
    <3>1. SUFFICES ASSUME NEW q \in records', q.key \in DOMAIN leases'
                   PROVE  leases'[q.key].attempt = q.attempt
      OBVIOUS
    <3>2. CASE q = n
      BY <1>4, <3>1, <3>2 DEF Replaced
    <3>3. CASE q \in records /\ q.key # r.key
      <4>1. q.key \in DOMAIN leases /\ leases'[q.key] = leases[q.key]
        BY <3>1, <3>3 DEF Replaced
      <4>2. QED BY <3>3, <4>1 DEF StoreInv, MapsAgree
    <3>4. QED BY <1>2, <3>2, <3>3
  <2>3. \A k \in DOMAIN leases' \cup DOMAIN settledTokens' : \E q \in records' : q.key = k
    <3>1. SUFFICES ASSUME NEW k \in DOMAIN leases' \cup DOMAIN settledTokens', k # r.key
                   PROVE  \E q \in records' : q.key = k
      BY <1>4
    <3>2. k \in DOMAIN leases \cup DOMAIN settledTokens
      BY <3>1 DEF Replaced
    <3>3. PICK q \in records : q.key = k
      BY <3>2 DEF StoreInv, MapsAgree
    <3>4. QED BY <1>3, <3>1, <3>3
  <2>4. \A q \in records' : (q.key \in DOMAIN settledTokens') = (q.status \in {"completed", "failed"})
    <3>1. SUFFICES ASSUME NEW q \in records', q # n
                   PROVE  (q.key \in DOMAIN settledTokens') = (q.status \in {"completed", "failed"})
      BY <1>4 DEF Replaced
    <3>2. q \in records /\ q.key # r.key
      BY <1>2, <3>1
    <3>3. (q.key \in DOMAIN settledTokens') = (q.key \in DOMAIN settledTokens)
      BY <3>2 DEF Replaced
    <3>4. QED BY <3>2, <3>3 DEF StoreInv, MapsAgree
  <2>5. QED BY <2>1, <2>2, <2>3, <2>4 DEF MapsAgree
<1>10. LastClaimSettles'
  <2>1. SUFFICES ASSUME NEW q \in records', q.key \in DOMAIN settledTokens'
                 PROVE  settledTokens'[q.key] = q.attempt
    BY DEF LastClaimSettles
  <2>2. CASE q = n
    BY <1>4, <2>1, <2>2 DEF Replaced
  <2>3. CASE q \in records /\ q.key # r.key
    <3>1. q.key \in DOMAIN settledTokens /\ settledTokens'[q.key] = settledTokens[q.key]
      BY <2>1, <2>3 DEF Replaced
    <3>2. QED BY <2>3, <3>1 DEF StoreInv, LastClaimSettles
  <2>4. QED BY <1>2, <2>2, <2>3
<1>11. QED BY <1>5, <1>6, <1>7, <1>8, <1>9, <1>10 DEF StoreInv

LEMMA UpdatedRecord ==
  ASSUME NEW r \in TaskRecord, NEW now \in Times, increment(r)
  PROVE  \E u \in TaskRecord : /\ u = update(r, now)
                               /\ u.key = r.key /\ u.id = r.id /\ u.run = r.run /\ u.status = r.status
                               /\ u.attempt = r.attempt /\ u.code = r.code /\ u.revision <= MaxCounter
<1>1. r.revision + 1 \in Nat \ {0} /\ r.revision + 1 <= MaxCounter
  BY DelegationAssumption DEF TaskRecord, increment
<1>2. update(r, now) \in TaskRecord
  BY <1>1 DEF TaskRecord, update
<1>3. /\ update(r, now).key = r.key /\ update(r, now).id = r.id /\ update(r, now).run = r.run
      /\ update(r, now).status = r.status /\ update(r, now).attempt = r.attempt
      /\ update(r, now).code = r.code /\ update(r, now).revision <= MaxCounter
  BY <1>1 DEF TaskRecord, update
<1>4. QED BY <1>2, <1>3

(* The changes under a lease and the cancellation replace one record; only *)
(* complete and fail make it say that its worker is through.               *)
LEMMA ClaimReplaces ==
  ASSUME StoreInv, NEW r \in records, NEW o \in Owners, NEW now \in Times, NEW exp \in Times,
         claim(r, o, now, exp)
  PROVE  \E n \in TaskRecord : Replaced(r, n) /\ n.status = "running"
<1>1. r \in TaskRecord /\ ~terminal(r) /\ r.code = None /\ increment(r)
  BY DEF StoreInv, claim, claimable, terminal
<1>2. /\ r.revision + 1 \in Nat \ {0} /\ r.attempt + 1 \in Nat /\ r.attempt + 1 # 0
      /\ r.revision + 1 <= MaxCounter
  BY <1>1, DelegationAssumption DEF TaskRecord, increment
<1>3. PICK n \in TaskRecord :
        /\ n = [r EXCEPT !.status = "running", !.revision = @ + 1, !.attempt = @ + 1, !.updatedAt = now,
                         !.startedAt = IF @ = None THEN now ELSE @]
        /\ n.key = r.key /\ n.id = r.id /\ n.run = r.run /\ n.status = "running" /\ n.attempt = r.attempt + 1
        /\ n.code = None /\ n.revision <= MaxCounter
  <2> DEFINE new == [r EXCEPT !.status = "running", !.revision = @ + 1, !.attempt = @ + 1, !.updatedAt = now,
                         !.startedAt = IF @ = None THEN now ELSE @]
  <2>1. new \in TaskRecord
    BY <1>1, <1>2 DEF TaskRecord, Statuses
  <2>2. new.key = r.key /\ new.id = r.id /\ new.run = r.run /\ new.status = "running"
        /\ new.attempt = r.attempt + 1 /\ new.code = None /\ new.revision <= MaxCounter
    BY <1>1, <1>2 DEF TaskRecord
  <2>3. QED BY <2>1, <2>2
<1>4. Put(r, n)
  BY <1>3 DEF claim
<1>5. /\ DOMAIN leases' = DOMAIN leases \cup {r.key}
      /\ \A k \in DOMAIN leases' \ {r.key} : leases'[k] = leases[k]
      /\ leases'[r.key] = [attempt |-> r.attempt + 1, owner |-> o, expiresAt |-> exp]
  BY DEF claim, With
<1>6. r.key \notin DOMAIN settledTokens /\ settledTokens' = settledTokens /\ nextKey' = nextKey
  BY <1>1 DEF StoreInv, MapsAgree, claim, terminal
<1>7. leases'[r.key] \in Lease /\ leases'[r.key].attempt = n.attempt
  BY <1>2, <1>3, <1>5 DEF Lease
<1>8. Replaced(r, n)
  BY <1>1, <1>2, <1>3, <1>4, <1>5, <1>6, <1>7 DEF Replaced
<1>9. QED BY <1>3, <1>8

(* The holder of a live lease holds the token of the last attempt.         *)
LEMMA HolderIsLast ==
  ASSUME StoreInv, NEW r \in records, NEW token, NEW now, activeLease(r, token, now)
  PROVE  /\ r \in TaskRecord /\ ~terminal(r) /\ r.status = "running" /\ r.key \in DOMAIN leases
         /\ r.key \notin DOMAIN settledTokens /\ r.code = None
         /\ leases[r.key] \in Lease
         /\ token = r.attempt /\ token \in 1 .. r.attempt
<1>1. r \in TaskRecord /\ r.status = "running" /\ r.key \in DOMAIN leases /\ leases[r.key].attempt = token
  BY DEF StoreInv, activeLease
<1>2. leases[r.key].attempt = r.attempt /\ r.attempt # 0 /\ r.attempt \in Nat
  BY <1>1 DEF StoreInv, MapsAgree, TaskRecord
<1>3. token \in 1 .. r.attempt
  BY <1>1, <1>2
<1>4. QED BY <1>1, <1>2, <1>3 DEF StoreInv, MapsAgree, terminal

LEMMA RenewReplaces ==
  ASSUME StoreInv, NEW r \in records, NEW token, NEW now \in Times, NEW exp \in Times,
         renew(r, token, now, exp)
  PROVE  \E n \in TaskRecord : Replaced(r, n) /\ n.status = "running"
<1>1. activeLease(r, token, now) /\ increment(r)
  BY DEF renew
<1>2. /\ r \in TaskRecord /\ ~terminal(r) /\ r.status = "running" /\ r.key \in DOMAIN leases
      /\ r.key \notin DOMAIN settledTokens /\ leases[r.key] \in Lease /\ r.code = None
  BY <1>1, HolderIsLast
<1>3. leases[r.key].attempt = r.attempt /\ r.attempt # 0
  BY <1>2 DEF StoreInv, MapsAgree
<1>5. PICK n \in TaskRecord :
        /\ n = update(r, now)
        /\ n.key = r.key /\ n.id = r.id /\ n.run = r.run /\ n.status = "running" /\ n.attempt = r.attempt
        /\ n.code = None /\ n.revision <= MaxCounter
  BY <1>1, <1>2, UpdatedRecord
<1>6. Put(r, n) /\ nextKey' = nextKey /\ settledTokens' = settledTokens
      /\ leases' = [leases EXCEPT ![r.key].expiresAt = exp]
  BY <1>5 DEF renew
<1>7. /\ DOMAIN leases' = DOMAIN leases
      /\ \A k \in DOMAIN leases' \ {r.key} : leases'[k] = leases[k]
      /\ leases'[r.key] = [leases[r.key] EXCEPT !.expiresAt = exp]
  BY <1>2, <1>6
<1>8. leases'[r.key] \in Lease /\ leases'[r.key].attempt = n.attempt
  BY <1>2, <1>3, <1>5, <1>7 DEF Lease
<1>9. Replaced(r, n)
  BY <1>2, <1>3, <1>5, <1>6, <1>7, <1>8 DEF Replaced
<1>10. QED BY <1>5, <1>9

LEMMA BindReplaces ==
  ASSUME StoreInv, NEW r \in records, NEW token, NEW run_ \in ChildRuns, NEW now \in Times,
         bindRun(r, token, run_, now)
  PROVE  \E n \in TaskRecord : Replaced(r, n) /\ n.status = "running"
<1>1. activeLease(r, token, now) /\ increment(r)
  BY DEF bindRun
<1>2. /\ r \in TaskRecord /\ ~terminal(r) /\ r.status = "running" /\ r.key \in DOMAIN leases
      /\ r.key \notin DOMAIN settledTokens /\ leases[r.key] \in Lease /\ r.code = None
  BY <1>1, HolderIsLast
<1>3. leases[r.key].attempt = r.attempt /\ r.attempt # 0
  BY <1>2 DEF StoreInv, MapsAgree
<1>5. PICK n \in TaskRecord :
        /\ n = [update(r, now) EXCEPT !.run = run_]
        /\ n.key = r.key /\ n.id = r.id /\ n.status = "running" /\ n.attempt = r.attempt
        /\ n.code = None /\ n.revision <= MaxCounter
  <2>1. PICK u \in TaskRecord : /\ u = update(r, now)
                               /\ u.key = r.key /\ u.id = r.id /\ u.run = r.run /\ u.status = r.status
                               /\ u.attempt = r.attempt /\ u.code = r.code /\ u.revision <= MaxCounter
    BY <1>1, <1>2, UpdatedRecord
  <2>2. [u EXCEPT !.run = run_] \in TaskRecord
    BY DEF TaskRecord
  <2>3. \A n : n = [u EXCEPT !.run = run_] =>
           /\ n.key = r.key /\ n.id = r.id /\ n.status = "running" /\ n.attempt = r.attempt
           /\ n.code = None /\ n.revision <= MaxCounter
    BY <1>2, <2>1 DEF TaskRecord
  <2>4. QED BY <2>1, <2>2, <2>3
<1>6. r.run = None /\ Put(r, n) /\ UNCHANGED <<leases, settledTokens, nextKey>>
  BY <1>5 DEF bindRun
<1>7. Replaced(r, n)
  BY <1>2, <1>3, <1>5, <1>6 DEF Replaced
<1>8. QED BY <1>5, <1>7

LEMMA SettleReplaces ==
  ASSUME StoreInv, NEW r \in records, NEW token, NEW now, activeLease(r, token, now),
         NEW n \in TaskRecord, n.key = r.key, n.id = r.id, n.run = r.run, n.attempt = r.attempt,
         n.status \in {"completed", "failed"}, n.code # None => n.status = "failed", n.revision <= MaxCounter,
         increment(r), settleTask(r, token, n)
  PROVE  Replaced(r, n)
<1>1. /\ ~terminal(r) /\ r.key \in DOMAIN leases /\ token = r.attempt
  BY HolderIsLast
<1>2. Put(r, n) /\ nextKey' = nextKey
  BY DEF settleTask, releaseAndPut
<1>3. /\ DOMAIN leases' = DOMAIN leases \ {r.key}
      /\ \A k \in DOMAIN leases' : leases'[k] = leases[k]
  BY DEF settleTask, releaseAndPut, Without, Restrict
<1>4. /\ DOMAIN settledTokens' = DOMAIN settledTokens \cup {r.key}
      /\ \A k \in DOMAIN settledTokens' \ {r.key} : settledTokens'[k] = settledTokens[k]
      /\ settledTokens'[r.key] = token
  BY DEF settleTask, With
<1>5. QED BY <1>1, <1>2, <1>3, <1>4 DEF Replaced

LEMMA LimitLosesLease ==
  ASSUME StoreInv, NEW r \in records, ~terminal(r), NEW n, releaseAndPut(r, n), UNCHANGED settledTokens,
         ~increment(r)
  PROVE  LeaseLost(r)
<1>1. r.revision = MaxCounter
  BY DelegationAssumption DEF StoreInv, TaskRecord, increment
<1>2. QED BY <1>1 DEF releaseAndPut, LeaseLost

LEMMA CompleteReplaces ==
  ASSUME StoreInv, NEW r \in records, NEW token, NEW x \in Results, NEW now \in Times,
         complete(r, token, x, now)
  PROVE  (\E n \in TaskRecord : Replaced(r, n) /\ n.status = "completed") \/ LeaseLost(r)
<1>1. activeLease(r, token, now) /\ r \in TaskRecord
  BY DEF complete, StoreInv
<1>2. ~terminal(r) /\ r.code = None
  BY <1>1, HolderIsLast
<1>3. CASE ~increment(r)
  BY <1>2, <1>3, LimitLosesLease DEF complete, settleTask
<1>4. CASE increment(r)
  <2>1. PICK n \in TaskRecord :
          /\ n = [update(r, now) EXCEPT !.status = "completed", !.result = x]
          /\ n.key = r.key /\ n.id = r.id /\ n.run = r.run /\ n.attempt = r.attempt /\ n.status = "completed"
          /\ n.code = None /\ n.revision <= MaxCounter
    <3>1. PICK u \in TaskRecord : /\ u = update(r, now)
                                 /\ u.key = r.key /\ u.id = r.id /\ u.run = r.run /\ u.status = r.status
                                 /\ u.attempt = r.attempt /\ u.code = r.code /\ u.revision <= MaxCounter
      BY <1>1, <1>4, UpdatedRecord
    <3>2. [u EXCEPT !.status = "completed", !.result = x] \in TaskRecord
      BY DEF TaskRecord, Statuses
    <3>3. \A n : n = [u EXCEPT !.status = "completed", !.result = x] =>
             /\ n.key = r.key /\ n.id = r.id /\ n.run = r.run /\ n.attempt = r.attempt /\ n.status = "completed"
             /\ n.code = None /\ n.revision <= MaxCounter
      BY <1>1, <1>2, <3>1 DEF TaskRecord
    <3>4. QED BY <3>1, <3>2, <3>3
  <2>2. settleTask(r, token, n)
    BY <2>1, <1>4 DEF complete
  <2>3. Replaced(r, n)
    BY <1>1, <1>4, <2>1, <2>2, SettleReplaces
  <2>4. QED BY <2>1, <2>3
<1>5. QED BY <1>3, <1>4

LEMMA FailReplaces ==
  ASSUME StoreInv, NEW r \in records, NEW token, NEW x \in Codes, NEW now \in Times,
         fail(r, token, x, now)
  PROVE  (\E n \in TaskRecord : Replaced(r, n) /\ n.status = "failed" /\ n.code = x) \/ LeaseLost(r)
<1>1. activeLease(r, token, now) /\ r \in TaskRecord
  BY DEF fail, StoreInv
<1>2. ~terminal(r) /\ r.code = None
  BY <1>1, HolderIsLast
<1>3. CASE ~increment(r)
  BY <1>2, <1>3, LimitLosesLease DEF fail, settleTask
<1>4. CASE increment(r)
  <2>1. PICK n \in TaskRecord :
          /\ n = [update(r, now) EXCEPT !.status = "failed", !.code = x]
          /\ n.key = r.key /\ n.id = r.id /\ n.run = r.run /\ n.attempt = r.attempt /\ n.status = "failed"
          /\ n.code = x /\ n.revision <= MaxCounter
    <3>1. PICK u \in TaskRecord : /\ u = update(r, now)
                                 /\ u.key = r.key /\ u.id = r.id /\ u.run = r.run /\ u.status = r.status
                                 /\ u.attempt = r.attempt /\ u.code = r.code /\ u.revision <= MaxCounter
      BY <1>1, <1>4, UpdatedRecord
    <3>2. [u EXCEPT !.status = "failed", !.code = x] \in TaskRecord
      BY DEF TaskRecord, Statuses
    <3>3. \A n : n = [u EXCEPT !.status = "failed", !.code = x] =>
             /\ n.key = r.key /\ n.id = r.id /\ n.run = r.run /\ n.attempt = r.attempt /\ n.status = "failed"
             /\ n.code = x /\ n.revision <= MaxCounter
      BY <1>1, <1>2, <3>1 DEF TaskRecord
    <3>4. QED BY <3>1, <3>2, <3>3
  <2>2. settleTask(r, token, n)
    BY <2>1, <1>4 DEF fail
  <2>3. Replaced(r, n)
    BY <1>1, <1>4, <2>1, <2>2, SettleReplaces
  <2>4. QED BY <2>1, <2>3
<1>5. QED BY <1>3, <1>4

LEMMA GivenUpReplaces ==
  ASSUME StoreInv, NEW r \in records, ~terminal(r), NEW n \in TaskRecord, n.key = r.key, n.id = r.id,
         n.run = r.run, n.status \in {"pending", "cancelled"}, n.code = None, n.revision <= MaxCounter, Put(r, n),
         leases' = Without(leases, r.key), UNCHANGED <<settledTokens, nextKey>>
  PROVE  Replaced(r, n)
<1>1. /\ DOMAIN leases' = DOMAIN leases \ {r.key}
      /\ \A k \in DOMAIN leases' : leases'[k] = leases[k]
  BY DEF Without, Restrict
<1>2. r.key \notin DOMAIN settledTokens
  BY DEF StoreInv, MapsAgree, terminal
<1>3. QED BY <1>1, <1>2 DEF Replaced

LEMMA AbandonReplaces ==
  ASSUME StoreInv, NEW r \in records, NEW token, NEW now \in Times, abandon(r, token, now)
  PROVE  (\E n \in TaskRecord : Replaced(r, n) /\ n.status = "pending") \/ LeaseLost(r)
<1>1. activeLease(r, token, now) /\ r \in TaskRecord
  BY DEF abandon, StoreInv
<1>2. ~terminal(r) /\ r.code = None
  BY <1>1, HolderIsLast
<1>3. CASE ~increment(r)
  BY <1>1, <1>2, <1>3, LimitLosesLease DEF abandon
<1>4. CASE increment(r)
  <2>1. PICK n \in TaskRecord :
          /\ n = [update(r, now) EXCEPT !.status = "pending"]
          /\ n.key = r.key /\ n.id = r.id /\ n.run = r.run /\ n.status = "pending"
          /\ n.code = None /\ n.revision <= MaxCounter
    <3>1. PICK u \in TaskRecord : /\ u = update(r, now)
                                 /\ u.key = r.key /\ u.id = r.id /\ u.run = r.run /\ u.status = r.status
                                 /\ u.attempt = r.attempt /\ u.code = r.code /\ u.revision <= MaxCounter
      BY <1>1, <1>4, UpdatedRecord
    <3>2. [u EXCEPT !.status = "pending"] \in TaskRecord
      BY DEF TaskRecord, Statuses
    <3>3. \A n : n = [u EXCEPT !.status = "pending"] =>
             /\ n.key = r.key /\ n.id = r.id /\ n.run = r.run /\ n.status = "pending"
             /\ n.code = None /\ n.revision <= MaxCounter
      BY <1>1, <1>2, <3>1 DEF TaskRecord
    <3>4. QED BY <3>1, <3>2, <3>3
  <2>2. Put(r, n) /\ leases' = Without(leases, r.key) /\ UNCHANGED <<settledTokens, nextKey>>
    BY <2>1, <1>4 DEF abandon, releaseAndPut
  <2>3. Replaced(r, n)
    BY <1>1, <1>2, <2>1, <2>2, GivenUpReplaces
  <2>4. QED BY <2>1, <2>3
<1>5. QED BY <1>3, <1>4

LEMMA CancelReplaces ==
  ASSUME StoreInv, NEW r \in records, NEW rev, NEW now \in Times, cancel(r, rev, now)
  PROVE  (\E n \in TaskRecord : Replaced(r, n) /\ n.status = "cancelled") \/ LeaseLost(r)
<1>1. ~terminal(r) /\ r \in TaskRecord
  BY DEF cancel, StoreInv
<1>2. r.code = None
  BY <1>1 DEF StoreInv, terminal
<1>3. CASE ~increment(r)
  BY <1>1, <1>2, <1>3, LimitLosesLease DEF cancel
<1>4. CASE increment(r)
  <2>1. PICK n \in TaskRecord :
          /\ n = [update(r, now) EXCEPT !.status = "cancelled"]
          /\ n.key = r.key /\ n.id = r.id /\ n.run = r.run /\ n.status = "cancelled"
          /\ n.code = None /\ n.revision <= MaxCounter
    <3>1. PICK u \in TaskRecord : /\ u = update(r, now)
                                 /\ u.key = r.key /\ u.id = r.id /\ u.run = r.run /\ u.status = r.status
                                 /\ u.attempt = r.attempt /\ u.code = r.code /\ u.revision <= MaxCounter
      BY <1>1, <1>4, UpdatedRecord
    <3>2. [u EXCEPT !.status = "cancelled"] \in TaskRecord
      BY DEF TaskRecord, Statuses
    <3>3. \A n : n = [u EXCEPT !.status = "cancelled"] =>
             /\ n.key = r.key /\ n.id = r.id /\ n.run = r.run /\ n.status = "cancelled"
             /\ n.code = None /\ n.revision <= MaxCounter
      BY <1>1, <1>2, <3>1 DEF TaskRecord
    <3>4. QED BY <3>1, <3>2, <3>3
  <2>2. Put(r, n) /\ leases' = Without(leases, r.key) /\ UNCHANGED <<settledTokens, nextKey>>
    BY <2>1, <1>4 DEF cancel, releaseAndPut
  <2>3. Replaced(r, n)
    BY <1>1, <1>2, <2>1, <2>2, GivenUpReplaces
  <2>4. QED BY <2>1, <2>3
<1>5. QED BY <1>3, <1>4

LEMMA CreateKeeps ==
  ASSUME StoreInv, NEW id \in Ids, NEW at \in Times, create(id, at)
  PROVE  StoreInv' /\ OutcomeKept
<1>1. PICK n \in TaskRecord :
        /\ n = [key |-> nextKey, id |-> id, status |-> "pending", revision |-> 1, attempt |-> 0, run |-> None,
                result |-> None, code |-> None, createdAt |-> at, startedAt |-> None, updatedAt |-> at]
        /\ n.key = nextKey /\ n.status = "pending" /\ n.revision = 1 /\ n.code = None
  <2> DEFINE new == [key |-> nextKey, id |-> id, status |-> "pending", revision |-> 1, attempt |-> 0,
                     run |-> None, result |-> None, code |-> None, createdAt |-> at, startedAt |-> None,
                     updatedAt |-> at]
  <2>1. new \in TaskRecord
    BY DEF StoreInv, TaskRecord, Statuses
  <2>2. QED BY <2>1
<1>2. records' = records \cup {n} /\ nextKey' = nextKey + 1 /\ UNCHANGED <<leases, settledTokens>>
  BY <1>1 DEF create
<1>3. \A r \in records : r \in TaskRecord /\ r.key \in Nat /\ r.key < nextKey /\ r.key # n.key
  BY <1>1 DEF StoreInv, TaskRecord
<1>4. n.key \notin DOMAIN leases /\ n.key \notin DOMAIN settledTokens
  BY <1>3 DEF StoreInv, MapsAgree
<1>5. /\ records' \subseteq TaskRecord /\ nextKey' \in Nat
      /\ \A p, q \in records' : p.key = q.key => p = q
      /\ \A p \in records' : p.key < nextKey'
  BY <1>1, <1>2, <1>3 DEF StoreInv
<1>6. /\ \A k \in DOMAIN leases' : leases'[k] \in Lease
      /\ \A p \in records' : p.status = "running" => p.attempt # 0
      /\ \A p \in records' : p.revision <= MaxCounter /\ (p.code # None => p.status = "failed")
  <2>1. n.revision <= MaxCounter
    BY <1>1, DelegationAssumption
  <2>2. QED BY <1>1, <1>2, <2>1 DEF StoreInv
<1>7. MapsAgree' /\ LastClaimSettles'
  BY <1>1, <1>2, <1>4 DEF StoreInv, MapsAgree, LastClaimSettles
<1>8. OutcomeKept
  BY <1>2, <1>3, <1>1 DEF OutcomeKept, StoreInv
<1>9. QED BY <1>5, <1>6, <1>7, <1>8 DEF StoreInv

LEMMA PurgeKeeps ==
  ASSUME StoreInv, NEW before, NEW limit, purgeTerminal(before, limit)
  PROVE  StoreInv' /\ OutcomeKept
<1>1. PICK gone \in SUBSET records :
        /\ records' = records \ gone
        /\ leases' = Restrict(leases, DOMAIN leases \ {r.key : r \in gone})
        /\ settledTokens' = Restrict(settledTokens, DOMAIN settledTokens \ {r.key : r \in gone})
        /\ nextKey' = nextKey
  <2> DEFINE done == {r \in records : terminal(r) /\ r.updatedAt < before}
             selected == {r \in done : Cardinality({q \in done : oldest(q, r)}) < limit}
  <2>1. selected \in SUBSET records
    OBVIOUS
  <2>2. QED BY <2>1 DEF purgeTerminal
<1>2. /\ DOMAIN leases' = DOMAIN leases \ {r.key : r \in gone}
      /\ \A k \in DOMAIN leases' : leases'[k] = leases[k]
      /\ DOMAIN settledTokens' = DOMAIN settledTokens \ {r.key : r \in gone}
      /\ \A k \in DOMAIN settledTokens' : settledTokens'[k] = settledTokens[k]
  BY <1>1 DEF Restrict
<1>3. \A r \in records' : r \in records /\ r.key \notin {q.key : q \in gone}
  BY <1>1 DEF StoreInv
<1>4. /\ records' \subseteq TaskRecord /\ nextKey' \in Nat
      /\ \A p, q \in records' : p.key = q.key => p = q
      /\ \A p \in records' : p.key < nextKey'
      /\ \A p \in records' : p.status = "running" => p.attempt # 0
      /\ \A p \in records' : p.revision <= MaxCounter /\ (p.code # None => p.status = "failed")
      /\ \A k \in DOMAIN leases' : leases'[k] \in Lease
  BY <1>1, <1>2, <1>3 DEF StoreInv
<1>5. MapsAgree'
  <2>1. \A k \in DOMAIN leases' \cup DOMAIN settledTokens' : \E r \in records' : r.key = k
    <3>1. SUFFICES ASSUME NEW k \in DOMAIN leases' \cup DOMAIN settledTokens'
                   PROVE  \E r \in records' : r.key = k
      OBVIOUS
    <3>2. k \in DOMAIN leases \cup DOMAIN settledTokens /\ k \notin {r.key : r \in gone}
      BY <1>2
    <3>3. PICK r \in records : r.key = k
      BY <3>2 DEF StoreInv, MapsAgree
    <3>4. QED BY <1>1, <3>2, <3>3
  <2>2. QED BY <1>2, <1>3, <2>1 DEF StoreInv, MapsAgree
<1>6. LastClaimSettles'
  BY <1>2, <1>3 DEF StoreInv, LastClaimSettles
<1>7. OutcomeKept
  BY <1>3 DEF OutcomeKept, StoreInv
<1>8. QED BY <1>4, <1>5, <1>6, <1>7 DEF StoreInv

LEMMA UnchangedKeeps ==
  ASSUME StoreInv, UNCHANGED delegationVars
  PROVE  StoreInv' /\ OutcomeKept
<1>1. StoreInv'
  BY DEF StoreInv, MapsAgree, LastClaimSettles, delegationVars
<1>2. OutcomeKept
  BY DEF OutcomeKept, StoreInv, delegationVars
<1>3. QED BY <1>1, <1>2

LEMMA StoreStep ==
  ASSUME StoreInv, DelegationNext
  PROVE  StoreInv' /\ OutcomeKept
<1>1. ASSUME NEW id \in Ids, NEW at \in Times, create(id, at)
      PROVE  StoreInv' /\ OutcomeKept
  BY <1>1, CreateKeeps
<1>2. ASSUME NEW r \in records, NEW o \in Owners, NEW now \in Times, NEW exp \in Times, claim(r, o, now, exp)
      PROVE  StoreInv' /\ OutcomeKept
  BY <1>2, ClaimReplaces, ReplacedKeeps
<1>3. ASSUME NEW r \in records, NEW now \in Times, NEW token \in 1 .. r.attempt, NEW exp \in Times,
             renew(r, token, now, exp)
      PROVE  StoreInv' /\ OutcomeKept
  BY <1>3, RenewReplaces, ReplacedKeeps
<1>4. ASSUME NEW r \in records, NEW now \in Times, NEW token \in 1 .. r.attempt, NEW to \in ChildRuns,
             bindRun(r, token, to, now)
      PROVE  StoreInv' /\ OutcomeKept
  BY <1>4, BindReplaces, ReplacedKeeps
<1>5. ASSUME NEW r \in records, NEW now \in Times, NEW token \in 1 .. r.attempt, NEW x \in Results,
             complete(r, token, x, now)
      PROVE  StoreInv' /\ OutcomeKept
  BY <1>5, CompleteReplaces, ReplacedKeeps, LeaseLostKeeps
<1>6. ASSUME NEW r \in records, NEW now \in Times, NEW token \in 1 .. r.attempt, NEW x \in Codes,
             fail(r, token, x, now)
      PROVE  StoreInv' /\ OutcomeKept
  BY <1>6, FailReplaces, ReplacedKeeps, LeaseLostKeeps
<1>7. ASSUME NEW r \in records, NEW now \in Times, NEW token \in 1 .. r.attempt, abandon(r, token, now)
      PROVE  StoreInv' /\ OutcomeKept
  BY <1>7, AbandonReplaces, ReplacedKeeps, LeaseLostKeeps
<1>8. ASSUME NEW r \in records, NEW rev \in 1 .. MaxCounter, NEW now \in Times, cancel(r, rev, now)
      PROVE  StoreInv' /\ OutcomeKept
  BY <1>8, CancelReplaces, ReplacedKeeps, LeaseLostKeeps
<1>9. ASSUME NEW before \in Times, NEW n \in 1 .. MaxBatch, purgeTerminal(before, n)
      PROVE  StoreInv' /\ OutcomeKept
  BY <1>9, PurgeKeeps
<1>10. QED BY <1>1, <1>2, <1>3, <1>4, <1>5, <1>6, <1>7, <1>8, <1>9 DEF DelegationNext

(* The store by itself, whoever calls it with whatever token and time: who *)
(* settles a task is the last worker to have claimed it.                   *)
THEOREM LastClaimWins == DelegationSpec => []LastHolderSettles
<1>1. DelegationInit => StoreInv
  BY DEF DelegationInit, StoreInv, MapsAgree, LastClaimSettles
<1>2. StoreInv /\ [DelegationNext]_delegationVars => StoreInv'
  BY StoreStep, UnchangedKeeps
<1>3. StoreInv => LastHolderSettles
  BY DEF StoreInv, LastHolderSettles
<1>4. QED BY <1>1, <1>2, <1>3, PTL DEF DelegationSpec

(* A bound run stays bound and a settled task stays as it was settled.     *)
THEOREM TaskOutcomesFinal == DelegationSpec => BindingAndOutcomeFinal
<1>1. DelegationInit => StoreInv
  BY DEF DelegationInit, StoreInv, MapsAgree, LastClaimSettles
<1>2. StoreInv /\ [DelegationNext]_delegationVars => StoreInv'
  BY StoreStep, UnchangedKeeps
<1>3. StoreInv /\ [DelegationNext]_delegationVars => [OutcomeKept]_delegationVars
  BY StoreStep
<1>4. QED BY <1>1, <1>2, <1>3, PTL DEF DelegationSpec, BindingAndOutcomeFinal

-----------------------------------------------------------------------------
(* The manager: each of its steps is one of the store's, or leaves the     *)
(* store alone.                                                            *)
Refused(c) == To(c, leaseRefused(c)) /\ UNCHANGED delegationVars

\* Where a refusal, an error or a last step on the store leads.
Onward(c) == {"finally", leaseRefused(c), otherError(c)}
Goes(c) == \E pc \in Onward(c) : To(c, pc)

LEMMA FailSettles ==
  ASSUME NEW c, NEW now, NEW code, failTask(c, now, code)
  PROVE  Goes(c) /\ (Refused(c) \/ \E r \in recordOf(call[c].id) : fail(r, call[c].token, code, now))
<1>1. ASSUME NEW r \in recordOf(call[c].id), fail(r, call[c].token, code, now),
             To(c, IF increment(r) THEN "finally" ELSE otherError(c))
      PROVE  Goes(c)
  BY <1>1 DEF Goes, Onward
<1>2. QED BY <1>1 DEF failTask, stepRefused, afterStep, Refused, Goes, Onward

LEMMA CompleteSettles ==
  ASSUME NEW c, NEW now, NEW res, completeTask(c, now, res)
  PROVE  Goes(c) /\ (Refused(c) \/ \E r \in recordOf(call[c].id) : complete(r, call[c].token, res, now))
<1>1. ASSUME NEW r \in recordOf(call[c].id), complete(r, call[c].token, res, now),
             To(c, IF increment(r) THEN "finally" ELSE otherError(c))
      PROVE  Goes(c)
  BY <1>1 DEF Goes, Onward
<1>2. QED BY <1>1 DEF completeTask, stepRefused, afterStep, Refused, Goes, Onward

LEMMA AbandonSettles ==
  ASSUME NEW c, NEW now, abandonTask(c, now)
  PROVE  Goes(c) /\ (Refused(c) \/ \E r \in recordOf(call[c].id) : abandon(r, call[c].token, now))
<1>1. ASSUME NEW r \in recordOf(call[c].id), abandon(r, call[c].token, now),
             To(c, IF increment(r) THEN "finally" ELSE otherError(c))
      PROVE  Goes(c)
  BY <1>1 DEF Goes, Onward
<1>2. QED BY <1>1 DEF abandonTask, stepRefused, afterStep, Refused, Goes, Onward

LEMMA ManagerUses ==
  ASSUME StoreInv, ManagerNext
  PROVE  [DelegationNext]_delegationVars
<1>1. \A r \in records : r.id \in Ids
  BY DEF StoreInv, TaskRecord
<1>2. ASSUME NEW r \in records, NEW now \in Times, NEW rev, cancel(r, rev, now)
      PROVE  DelegationNext
  <2>1. rev \in 1 .. MaxCounter
    <3>1. r.revision \in Nat \ {0} /\ rev = r.revision /\ r.revision <= MaxCounter
      BY <1>2 DEF StoreInv, TaskRecord, cancel
    <3>2. QED BY <3>1, DelegationAssumption
  <2>2. QED BY <1>2, <2>1 DEF DelegationNext
<1>3. ASSUME NEW r \in records, NEW token, NEW now \in Times, abandon(r, token, now)
      PROVE  DelegationNext
  BY <1>3, HolderIsLast DEF abandon, DelegationNext
<1>4. ASSUME NEW r \in records, NEW token, NEW now \in Times, NEW x \in Codes, fail(r, token, x, now)
      PROVE  DelegationNext
  BY <1>4, HolderIsLast DEF fail, DelegationNext
<1>5. ASSUME NEW r \in records, NEW token, NEW now \in Times, NEW x \in Results, complete(r, token, x, now)
      PROVE  DelegationNext
  BY <1>5, HolderIsLast DEF complete, DelegationNext
<1>6. ASSUME NEW r \in records, NEW token, NEW now \in Times, NEW to \in ChildRuns, bindRun(r, token, to, now)
      PROVE  DelegationNext
  BY <1>6, HolderIsLast DEF bindRun, DelegationNext
<1>7. ASSUME NEW r \in records, NEW token, NEW now \in Times, NEW exp \in Times, renew(r, token, now, exp)
      PROVE  DelegationNext
  BY <1>7, HolderIsLast DEF renew, DelegationNext
<1>8. ASSUME NEW r \in records, NEW o \in Owners, NEW now \in Times, NEW exp \in Times, claim(r, o, now, exp)
      PROVE  DelegationNext
  BY <1>8 DEF DelegationNext
<1>9. ASSUME NEW c \in Calls, NEW now \in Times, NEW exp \in Times, runClaims(c, now, exp)
      PROVE  [DelegationNext]_delegationVars
  BY <1>8, <1>9, ManagerAssumption DEF runClaims, recordOf
<1>10. ASSUME NEW c \in Calls, NEW now \in Times, failChanged(c, now)
       PROVE  [DelegationNext]_delegationVars
  BY <1>4, <1>10, ManagerAssumption, FailSettles DEF failChanged, recordOf, Refused, failureCodes
<1>11. ASSUME NEW c \in Calls, NEW now \in Times, runSubmits(c, now)
       PROVE  [DelegationNext]_delegationVars
  BY <1>3, <1>11, AbandonSettles DEF runSubmits, recordOf, Refused
<1>12. ASSUME NEW c \in Calls, NEW now \in Times, runBinds(c, now)
       PROVE  [DelegationNext]_delegationVars
  <2>1. SUFFICES ASSUME NEW r \in recordOf(call[c].id), bindRun(r, call[c].token, ChildRun[call[c].id], now)
                 PROVE  [DelegationNext]_delegationVars
    BY <1>12 DEF runBinds, bindRunAgain
  <2>2. r \in records /\ ChildRun[call[c].id] \in ChildRuns
    BY <1>1, ManagerAssumption DEF recordOf
  <2>3. QED BY <1>6, <2>1, <2>2
<1>13. ASSUME NEW c \in Calls, NEW now \in Times, runSettles(c, now)
       PROVE  [DelegationNext]_delegationVars
  <2>1. CASE abandonTask(c, now)
    BY <1>3, <2>1, AbandonSettles DEF recordOf, Refused
  <2>2. CASE \E code \in failureCodes : failTask(c, now, code)
    BY <1>4, <2>2, ManagerAssumption, FailSettles DEF recordOf, Refused
  <2>3. CASE \E res \in Results : completeTask(c, now, res)
    BY <1>5, <2>3, CompleteSettles DEF recordOf, Refused
  <2>4. QED BY <1>13, <2>1, <2>2, <2>3 DEF runSettles, failureCodes
<1>14. ASSUME NEW c \in Calls, NEW now \in Times, runCancels(c, now)
       PROVE  [DelegationNext]_delegationVars
  BY <1>2, <1>14 DEF runCancels, recordOf
<1>15. ASSUME NEW r \in records, NEW now \in Times, cancelTask(r, now)
       PROVE  [DelegationNext]_delegationVars
  BY <1>2, <1>15 DEF cancelTask
<1>16. ASSUME NEW id \in Ids, NEW now \in Times, NEW exp \in Times, renewActive(id, now, exp)
       PROVE  [DelegationNext]_delegationVars
  BY <1>7, <1>16 DEF renewActive, recordOf
<1>17. CASE Elsewhere
  BY <1>3, <1>8, <1>17 DEF Elsewhere
<1>18. ASSUME NEW c \in Calls, NEW id \in Ids, run(c, id)
       PROVE  [DelegationNext]_delegationVars
  BY <1>18 DEF run
<1>19. ASSUME NEW c \in Calls, \/ runActivates(c) \/ runTakesHandle(c) \/ callerAborts(c) \/ waitForAbort(c)
                               \/ runReads(c) \/ runLooksUp(c) \/ runFinally(c)
                               \/ runSeesResult(c) \/ runThrows(c)
       PROVE  [DelegationNext]_delegationVars
  BY <1>19 DEF runActivates, runTakesHandle, callerAborts, waitForAbort, runReads, runLooksUp, runFinally,
               runSeesResult, runThrows
<1>20. ASSUME NEW c \in Calls, NEW now \in Times, runAssertsLease(c, now)
       PROVE  [DelegationNext]_delegationVars
  BY <1>20 DEF runAssertsLease
<1>21. ASSUME NEW id \in Ids, cancelAborts(id) \/ childStarts(id)
       PROVE  [DelegationNext]_delegationVars
  BY <1>21 DEF cancelAborts, childStarts
<1>22. ASSUME NEW id \in Ids, NEW e, childEnds(id, e)
       PROVE  [DelegationNext]_delegationVars
  BY <1>22 DEF childEnds
<1>23. ASSUME NEW c \in Calls, NEW now \in Times, catchOther(c, now)
       PROVE  [DelegationNext]_delegationVars
  <2>1. CASE abandonTask(c, now)
    BY <1>3, <2>1, AbandonSettles DEF recordOf, Refused
  <2>2. CASE failTask(c, now, "executor_failed")
    BY <1>4, <2>2, ManagerAssumption, FailSettles DEF recordOf, Refused, failureCodes
  <2>3. QED BY <1>23, <2>1, <2>2 DEF catchOther
<1>24. QED
  BY <1>9, <1>10, <1>11, <1>12, <1>13, <1>14, <1>15, <1>16, <1>17, <1>18, <1>19, <1>20, <1>21, <1>22, <1>23
     DEF ManagerNext

LEMMA ManagerStarts == ManagerInit => StoreInv
<1>1. SUFFICES ASSUME ManagerInit PROVE StoreInv
  OBVIOUS
<1>2. PICK key \in Bijection(Ids, 1 .. Cardinality(Ids)) :
        records = {[key |-> key[id], id |-> id, status |-> "pending", revision |-> 1, attempt |-> 0, run |-> None,
                    result |-> None, code |-> None, createdAt |-> 0, startedAt |-> None, updatedAt |-> 0]
                   : id \in Ids}
  BY <1>1 DEF ManagerInit
<1>3. Cardinality(Ids) \in Nat
  BY ManagerAssumption, FS_CardinalityType
<1>4. /\ \A id \in Ids : key[id] \in Nat /\ key[id] < Cardinality(Ids) + 1
      /\ \A a, b \in Ids : key[a] = key[b] => a = b
  BY <1>3 DEF Bijection, Injection, IsInjective
<1>5. leases = << >> /\ settledTokens = << >> /\ nextKey = Cardinality(Ids) + 1
  BY <1>1 DEF ManagerInit
<1>6. \A r \in records : /\ r \in TaskRecord /\ r.status = "pending" /\ r.key = key[r.id] /\ r.id \in Ids
                         /\ r.revision <= MaxCounter /\ r.code = None
  <2>1. 1 <= MaxCounter
    BY DelegationAssumption
  <2>2. QED BY <1>2, <1>4, <2>1, DelegationAssumption DEF TaskRecord, Statuses, Times
<1>7. \A r, q \in records : r.key = q.key => r = q
  <2>1. \A r, q \in records : r.id = q.id => r = q
    BY <1>2
  <2>2. QED BY <1>4, <1>6, <2>1
<1>8. QED BY <1>3, <1>4, <1>5, <1>6, <1>7 DEF StoreInv, MapsAgree, LastClaimSettles

(* The manager, with whatever refusals, aborts and lapsed leases, calls    *)
(* the store only as the store allows.                                     *)
THEOREM ManagerUsesStore == ManagerSpec => [][DelegationNext]_delegationVars
<1>1. StoreInv /\ [ManagerNext]_allVars => [DelegationNext]_delegationVars
  BY ManagerUses DEF allVars, delegationVars
<1>2. StoreInv /\ [DelegationNext]_delegationVars => StoreInv'
  BY StoreStep, UnchangedKeeps
<1>3. QED BY <1>1, <1>2, ManagerStarts, PTL DEF ManagerSpec

(* Two run() calls of one task, a worker elsewhere, renewals and           *)
(* cancellations: the last to have claimed the task is who settles it.     *)
THEOREM ManagerLastClaimWins == ManagerSpec => []LastHolderSettles
<1>1. StoreInv /\ [ManagerNext]_allVars => [DelegationNext]_delegationVars
  BY ManagerUses DEF allVars, delegationVars
<1>2. StoreInv /\ [DelegationNext]_delegationVars => StoreInv'
  BY StoreStep, UnchangedKeeps
<1>3. StoreInv => LastHolderSettles
  BY DEF StoreInv, LastHolderSettles
<1>4. QED BY <1>1, <1>2, <1>3, ManagerStarts, PTL DEF ManagerSpec

-----------------------------------------------------------------------------
(* The calls: where each is, and what it holds of the capacity. *)
Early == {"idle", "claim", "changed", "activate"}
Late == {"lease", "submit", "handle", "bind", "wait", "settle", "giveBack", "failing", "aborted", "cancel",
         "lookup", "finally"}
ChildStates == {"none", "deferred", "queued", "running", "completed", "failed", "aborted"}
CallRecord == [pc : Early \cup Late, id : Ids \cup {NoCall}, token : Nat, reserved : BOOLEAN,
               handle : BOOLEAN, aborted : BOOLEAN, revision : Nat, result : ChildStates]

\* Where the child's input has been accepted, and the ends of a child.
Submitted == {"handle", "bind", "wait", "settle", "failing"}
Over == {"completed", "failed", "aborted"}

(* A call that claims holds a reservation, a call that is over holds none, *)
(* and a call is sent to report a changed target only if it was changed.   *)
CallOK(k) ==
  /\ k.pc # "idle" => k.id \in Ids
  /\ k.pc \in {"claim", "activate"} => k.reserved
  /\ k.pc = "idle" => ~k.reserved
  /\ k.pc = "changed" => k.id \in Changed

CallsInv ==
  /\ call \in [Calls -> CallRecord]
  /\ activeTasks \in [Ids -> Calls \cup {NoCall}]
  /\ \A c \in Calls : CallOK(call[c])
  /\ CapacityReturned

(* What a call knows of its child is so: it was handed to the runtime, and  *)
(* the end that was seen is its end.                                       *)
Heeds(k) ==
  /\ k.pc \in Submitted => child[k.id] # "none"
  /\ k.pc = "settle" /\ k.result \in Over => child[k.id] = k.result

ChildInv ==
  /\ child \in [Ids -> ChildStates]
  /\ cancelling \subseteq Ids
  /\ ResultFromChild
  /\ \A c \in Calls : Heeds(call[c])

(* A step of a call from j to k that learns of its child only what is so.  *)
Learns(j, k) ==
  /\ k.pc \in Submitted => k.id = j.id /\ (j.pc \in Submitted \/ child'[k.id] # "none")
  /\ k.pc = "settle" => \/ j.pc = "settle" /\ k.result = j.result
                        \/ k.result \in Over => child'[k.id] = k.result
CallsLearn == \A c \in Calls : Learns(call[c], call'[c])

(* A call goes on under its delegation and with its reservation. *)
LEMMA CallMoves ==
  ASSUME CallsInv, NEW c \in Calls, NEW k \in CallRecord, call' = [call EXCEPT ![c] = k],
         k.id = call[c].id, k.reserved = call[c].reserved, CallOK(k), call[c].pc # "idle", k.pc # "idle",
         call[c].pc \in Late => k.pc \in Late, Learns(call[c], k),
         UNCHANGED <<activeTasks, starting>>
  PROVE  CallsInv' /\ CallsLearn
<1>1. call' \in [Calls -> CallRecord] /\ DOMAIN call' = DOMAIN call /\ DOMAIN call = Calls
      /\ call'[c] = k /\ \A x \in Calls \ {c} : call'[x] = call[x]
  BY DEF CallsInv
<1>2. \A x \in Calls : call'[x].id = call[x].id /\ call'[x].reserved = call[x].reserved
                       /\ CallOK(call'[x]) /\ (call[x].pc \in Late => call'[x].pc \in Late)
  BY <1>1 DEF CallsInv
<1>3. {x \in DOMAIN call' : call'[x].reserved} = {x \in DOMAIN call : call[x].reserved}
  BY <1>1, <1>2
<1>4. \A id \in Ids : activeTasks[id] # NoCall => activeTasks[id] \in Calls /\ call[activeTasks[id]].id = id
                                              /\ call[activeTasks[id]].pc \in Late
  BY <1>1 DEF CallsInv, CapacityReturned, CallRecord, Early
<1>5. \A id \in Ids : activeTasks[id] # NoCall => call'[activeTasks[id]].id = id
        /\ call'[activeTasks[id]].pc \notin {"idle", "claim", "changed", "activate"}
  BY <1>2, <1>4 DEF Late
<1>6. CapacityReturned'
  <2>1. starting' = Cardinality({x \in DOMAIN call' : call'[x].reserved})
    BY <1>3 DEF CallsInv, CapacityReturned
  <2>2. DOMAIN activeTasks' = Ids /\ activeTasks' = activeTasks
    BY DEF CallsInv
  <2>3. QED BY <1>5, <2>1, <2>2 DEF CapacityReturned
<1>7. CallsLearn
  BY <1>1 DEF CallsLearn, Learns
<1>8. QED BY <1>1, <1>2, <1>6, <1>7 DEF CallsInv

LEMMA CallGoesTo ==
  ASSUME CallsInv, NEW c \in Calls, NEW pc \in Late, To(c, pc), call[c].pc # "idle", pc # "settle",
         pc \in Submitted => call[c].pc \in Submitted \/ child'[call[c].id] # "none",
         UNCHANGED <<activeTasks, starting>>
  PROVE  CallsInv' /\ CallsLearn
<1>1. call[c] \in CallRecord /\ CallOK(call[c])
  BY DEF CallsInv
<1>2. [call[c] EXCEPT !.pc = pc] \in CallRecord
  BY <1>1 DEF CallRecord
<1>3. PICK k \in CallRecord : k = [call[c] EXCEPT !.pc = pc]
  BY <1>2
<1>4. k.pc = pc /\ k.id = call[c].id /\ k.reserved = call[c].reserved
  BY <1>1, <1>3 DEF CallRecord
<1>5. call' = [call EXCEPT ![c] = k]
  BY <1>3 DEF To, CallsInv
<1>6. CallOK(k) /\ k.pc # "idle"
  BY <1>1, <1>4 DEF CallOK, Late
<1>7. Learns(call[c], k)
  BY <1>4 DEF Learns
<1>8. QED BY <1>4, <1>5, <1>6, <1>7, CallMoves

LEMMA CallsRest ==
  ASSUME CallsInv, UNCHANGED <<call, activeTasks, starting>>
  PROVE  CallsInv' /\ CallsLearn
BY DEF CallsInv, CapacityReturned, CallsLearn, Learns

LEMMA CallBegins ==
  ASSUME CallsInv, NEW c \in Calls, NEW id \in Ids, run(c, id)
  PROVE  CallsInv' /\ CallsLearn
<1>1. call[c] \in CallRecord /\ call[c].pc = "idle" /\ ~call[c].reserved /\ DOMAIN call = Calls
  BY DEF CallsInv, CallOK, run, At
<1>2. PICK k \in CallRecord : /\ call' = [call EXCEPT ![c] = k]
                              /\ k.pc = "claim" /\ k.id = id /\ k.reserved = TRUE
  <2> DEFINE new == [Idle EXCEPT !.pc = "claim", !.id = id, !.reserved = TRUE]
  <2>1. new \in CallRecord /\ new.pc = "claim" /\ new.id = id /\ new.reserved = TRUE
    BY DEF Idle, CallRecord, Early, ChildStates
  <2>2. call' = [call EXCEPT ![c] = new]
    BY DEF run
  <2>3. QED BY <2>1, <2>2
<1>3. /\ call' \in [Calls -> CallRecord] /\ DOMAIN call' = Calls
      /\ call'[c] = k /\ \A x \in Calls \ {c} : call'[x] = call[x]
  BY <1>1, <1>2 DEF CallsInv
<1>4. activeTasks' = activeTasks /\ starting' = starting + 1
  BY DEF run
<1>5. starting' = Cardinality({x \in DOMAIN call' : call'[x].reserved})
  <2> DEFINE Held == {x \in Calls : call[x].reserved}
  <2>1. IsFiniteSet(Held)
    BY ManagerAssumption, FS_Subset
  <2>2. {x \in DOMAIN call' : call'[x].reserved} = Held \cup {c}
    BY <1>2, <1>3
  <2>3. c \notin Held /\ starting = Cardinality(Held)
    BY <1>1 DEF CallsInv, CapacityReturned
  <2> HIDE DEF Held
  <2>4. QED BY <1>4, <2>1, <2>2, <2>3, FS_AddElement
<1>6. \A d \in Ids : activeTasks[d] # NoCall => activeTasks[d] \in Calls /\ activeTasks[d] # c
                                            /\ call[activeTasks[d]].id = d /\ call[activeTasks[d]].pc \notin Early
  BY <1>1 DEF CallsInv, CapacityReturned, Early
<1>7. CapacityReturned'
  BY <1>3, <1>4, <1>5, <1>6 DEF CapacityReturned, CallsInv, Early
<1>8. \A x \in Calls : CallOK(call'[x])
  BY <1>2, <1>3 DEF CallsInv, CallOK
<1>9. CallsLearn
  BY <1>2, <1>3 DEF CallsLearn, Learns, Submitted
<1>10. QED BY <1>3, <1>4, <1>7, <1>8, <1>9 DEF CallsInv

LEMMA CallActivates ==
  ASSUME CallsInv, NEW c \in Calls, runActivates(c)
  PROVE  CallsInv' /\ CallsLearn
<1>1. call[c] \in CallRecord /\ call[c].pc = "activate" /\ call[c].reserved /\ call[c].id \in Ids
      /\ DOMAIN call = Calls
  BY DEF CallsInv, CallOK, runActivates, At
<1>2. PICK k \in CallRecord : /\ call' = [call EXCEPT ![c] = k]
                              /\ k.pc = "lease" /\ k.id = call[c].id /\ k.reserved = FALSE
  <2> DEFINE new == [call[c] EXCEPT !.pc = "lease", !.reserved = FALSE]
  <2>1. new \in CallRecord /\ new.pc = "lease" /\ new.id = call[c].id /\ new.reserved = FALSE
    BY <1>1 DEF CallRecord, Late
  <2>2. call' = [call EXCEPT ![c] = new]
    BY <1>1 DEF runActivates, CallsInv
  <2>3. QED BY <2>1, <2>2
<1>3. /\ call' \in [Calls -> CallRecord] /\ DOMAIN call' = Calls
      /\ call'[c] = k /\ \A x \in Calls \ {c} : call'[x] = call[x]
  BY <1>1, <1>2 DEF CallsInv
<1>4. /\ starting' = starting - 1
      /\ activeTasks' \in [Ids -> Calls \cup {NoCall}] /\ DOMAIN activeTasks' = Ids
      /\ activeTasks'[call[c].id] = c /\ \A d \in Ids \ {call[c].id} : activeTasks'[d] = activeTasks[d]
  BY <1>1 DEF runActivates, CallsInv
<1>5. starting' = Cardinality({x \in DOMAIN call' : call'[x].reserved})
  <2> DEFINE Held == {x \in Calls : call[x].reserved}
  <2>1. IsFiniteSet(Held)
    BY ManagerAssumption, FS_Subset
  <2>2. {x \in DOMAIN call' : call'[x].reserved} = Held \ {c}
    BY <1>2, <1>3
  <2>3. c \in Held /\ starting = Cardinality(Held)
    BY <1>1 DEF CallsInv, CapacityReturned
  <2> HIDE DEF Held
  <2>4. QED BY <1>4, <2>1, <2>2, <2>3, FS_RemoveElement
<1>6. \A d \in Ids : activeTasks[d] # NoCall => activeTasks[d] \in Calls /\ activeTasks[d] # c
                                            /\ call[activeTasks[d]].id = d /\ call[activeTasks[d]].pc \notin Early
  BY <1>1 DEF CallsInv, CapacityReturned, Early
<1>7. CapacityReturned'
  <2>1. SUFFICES ASSUME NEW d \in Ids, activeTasks'[d] # NoCall
                 PROVE  call'[activeTasks'[d]].id = d
                        /\ call'[activeTasks'[d]].pc \notin {"idle", "claim", "changed", "activate"}
    BY <1>4, <1>5 DEF CapacityReturned
  <2>2. CASE d = call[c].id
    BY <1>2, <1>3, <1>4, <2>2
  <2>3. CASE d # call[c].id
    BY <1>3, <1>4, <1>6, <2>1, <2>3 DEF Early
  <2>4. QED BY <2>2, <2>3
<1>8. \A x \in Calls : CallOK(call'[x])
  BY <1>1, <1>2, <1>3 DEF CallsInv, CallOK
<1>9. CallsLearn
  BY <1>2, <1>3 DEF CallsLearn, Learns, Submitted
<1>10. QED BY <1>3, <1>4, <1>7, <1>8, <1>9 DEF CallsInv

LEMMA CallEnds ==
  ASSUME CallsInv, NEW c \in Calls, runFinally(c)
  PROVE  CallsInv' /\ CallsLearn
<1>1. call[c] \in CallRecord /\ call[c].pc = "finally" /\ call[c].id \in Ids /\ DOMAIN call = Calls
  BY DEF CallsInv, CallOK, runFinally, At
<1>2. PICK k \in CallRecord : call' = [call EXCEPT ![c] = k] /\ k.pc = "idle" /\ k.reserved = FALSE
  <2>1. Idle \in CallRecord /\ Idle.pc = "idle" /\ Idle.reserved = FALSE
    BY DEF Idle, CallRecord, Early, ChildStates
  <2>2. QED BY <2>1 DEF runFinally
<1>3. /\ call' \in [Calls -> CallRecord] /\ DOMAIN call' = Calls
      /\ call'[c] = k /\ \A x \in Calls \ {c} : call'[x] = call[x]
  BY <1>1, <1>2 DEF CallsInv
<1>4. /\ starting' = IF call[c].reserved THEN starting - 1 ELSE starting
      /\ activeTasks' \in [Ids -> Calls \cup {NoCall}] /\ DOMAIN activeTasks' = Ids
      /\ activeTasks'[call[c].id] = NoCall /\ \A d \in Ids \ {call[c].id} : activeTasks'[d] = activeTasks[d]
  BY <1>1 DEF runFinally, CallsInv, releaseReserved
<1>5. starting' = Cardinality({x \in DOMAIN call' : call'[x].reserved})
  <2> DEFINE Held == {x \in Calls : call[x].reserved}
  <2>1. IsFiniteSet(Held)
    BY ManagerAssumption, FS_Subset
  <2>2. {x \in DOMAIN call' : call'[x].reserved} = Held \ {c}
    BY <1>2, <1>3
  <2>3. (c \in Held <=> call[c].reserved) /\ starting = Cardinality(Held)
    BY <1>1 DEF CallsInv, CapacityReturned
  <2> HIDE DEF Held
  <2>4. QED BY <1>4, <2>1, <2>2, <2>3, FS_RemoveElement
<1>6. \A d \in Ids \ {call[c].id} : activeTasks[d] # NoCall =>
         activeTasks[d] \in Calls /\ activeTasks[d] # c /\ call[activeTasks[d]].id = d /\ call[activeTasks[d]].pc \notin Early
  BY <1>1 DEF CallsInv, CapacityReturned, Early
<1>7. CapacityReturned'
  <2>1. SUFFICES ASSUME NEW d \in Ids, activeTasks'[d] # NoCall
                 PROVE  call'[activeTasks'[d]].id = d
                        /\ call'[activeTasks'[d]].pc \notin {"idle", "claim", "changed", "activate"}
    BY <1>4, <1>5 DEF CapacityReturned
  <2>2. d # call[c].id
    BY <1>4, <2>1
  <2>3. QED BY <1>3, <1>4, <1>6, <2>1, <2>2 DEF Early
<1>8. \A x \in Calls : CallOK(call'[x])
  BY <1>2, <1>3 DEF CallsInv, CallOK
<1>9. CallsLearn
  BY <1>2, <1>3 DEF CallsLearn, Learns, Submitted
<1>10. QED BY <1>3, <1>4, <1>7, <1>8, <1>9 DEF CallsInv

\* Where a claim takes the call, and the handle, the abort and the reading.
LEMMA CallIsMarked ==
  ASSUME StoreInv, CallsInv, NEW c \in Calls,
         \/ \E now, exp \in Times : runClaims(c, now, exp)
         \/ runTakesHandle(c) \/ callerAborts(c) \/ runReads(c) \/ runSeesResult(c)
  PROVE  CallsInv' /\ CallsLearn
<1>1. call[c] \in CallRecord /\ CallOK(call[c]) /\ DOMAIN call = Calls
  BY DEF CallsInv
<1>2. leaseRefused(c) \in Late \ Submitted
  BY DEF leaseRefused, Late, Submitted
<1>3. ASSUME NEW now \in Times, NEW exp \in Times, runClaims(c, now, exp)
      PROVE  CallsInv' /\ CallsLearn
  <2>1. call[c].pc = "claim" /\ UNCHANGED <<activeTasks, starting>>
    BY <1>3 DEF runClaims, At
  <2>2. CASE To(c, leaseRefused(c))
    BY <1>2, <2>1, <2>2, CallGoesTo DEF Submitted
  <2>3. ASSUME NEW r \in recordOf(call[c].id), NEW pc \in {"activate"} \cup {"changed" : d \in Changed \cap {call[c].id}},
               call' = [call EXCEPT ![c].pc = pc, ![c].token = r.attempt + 1]
        PROVE  CallsInv' /\ CallsLearn
    <3>1. r.attempt + 1 \in Nat
      BY <2>3 DEF recordOf, StoreInv, TaskRecord
    <3>2. pc \in {"activate", "changed"} /\ (pc = "changed" => call[c].id \in Changed)
      BY <2>3
    <3>3. PICK k \in CallRecord : /\ call' = [call EXCEPT ![c] = k]
                                  /\ k.pc = pc /\ k.id = call[c].id /\ k.reserved = call[c].reserved
      <4> DEFINE new == [call[c] EXCEPT !.pc = pc, !.token = r.attempt + 1]
      <4>1. new \in CallRecord /\ new.pc = pc /\ new.id = call[c].id /\ new.reserved = call[c].reserved
        BY <1>1, <3>1, <3>2 DEF CallRecord, Early
      <4>2. call' = [call EXCEPT ![c] = new]
        BY <1>1, <2>3 DEF CallsInv, CallRecord
      <4>3. QED BY <4>1, <4>2
    <3>4. CallOK(k) /\ k.pc # "idle" /\ call[c].pc # "idle" /\ call[c].pc \notin Late
      BY <1>1, <2>1, <3>2, <3>3 DEF CallOK, Late
    <3>5. Learns(call[c], k)
      BY <3>2, <3>3 DEF Learns, Submitted
    <3>6. QED BY <2>1, <3>3, <3>4, <3>5, CallMoves
  <2>4. QED BY <1>3, <2>2, <2>3 DEF runClaims
<1>4. CASE runTakesHandle(c)
  <2> DEFINE taken == activeTasks[call[c].id] = c
             pc == IF taken THEN "bind" ELSE leaseRefused(c)
  <2>1. call[c].pc = "handle" /\ UNCHANGED <<activeTasks, starting>>
        /\ call' = [call EXCEPT ![c].pc = pc, ![c].handle = taken]
    BY <1>4 DEF runTakesHandle, At
  <2>2. pc \in Late /\ pc # "settle" /\ taken \in BOOLEAN
    BY <1>2 DEF Late, Submitted
  <2> HIDE DEF pc, taken
  <2>3. PICK k \in CallRecord : /\ call' = [call EXCEPT ![c] = k]
                                /\ k.pc = pc /\ k.id = call[c].id /\ k.reserved = call[c].reserved
    <3> DEFINE new == [call[c] EXCEPT !.pc = pc, !.handle = taken]
    <3>1. new \in CallRecord /\ new.pc = pc /\ new.id = call[c].id /\ new.reserved = call[c].reserved
      BY <1>1, <2>2 DEF CallRecord
    <3>2. call' = [call EXCEPT ![c] = new]
      BY <1>1, <2>1 DEF CallsInv, CallRecord
    <3>3. QED BY <3>1, <3>2
  <2>4. CallOK(k) /\ k.pc # "idle" /\ call[c].pc # "idle"
    BY <1>1, <2>1, <2>2, <2>3 DEF CallOK, Late
  <2>5. Learns(call[c], k)
    BY <2>1, <2>2, <2>3 DEF Learns, Submitted
  <2>6. QED BY <2>1, <2>2, <2>3, <2>4, <2>5, CallMoves
<1>5. CASE callerAborts(c)
  <2>1. call[c].pc # "idle" /\ UNCHANGED <<activeTasks, starting>>
        /\ call' = [call EXCEPT ![c].aborted = TRUE]
    BY <1>5 DEF callerAborts, At
  <2>2. PICK k \in CallRecord : /\ call' = [call EXCEPT ![c] = k]
                                /\ k.pc = call[c].pc /\ k.id = call[c].id /\ k.reserved = call[c].reserved
                                /\ k.result = call[c].result
    <3> DEFINE new == [call[c] EXCEPT !.aborted = TRUE]
    <3>1. new \in CallRecord /\ new.pc = call[c].pc /\ new.id = call[c].id /\ new.reserved = call[c].reserved
          /\ new.result = call[c].result
      BY <1>1 DEF CallRecord
    <3>2. call' = [call EXCEPT ![c] = new]
      BY <1>1, <2>1 DEF CallsInv, CallRecord
    <3>3. QED BY <3>1, <3>2
  <2>3. CallOK(k)
    BY <1>1, <2>2 DEF CallOK
  <2>4. Learns(call[c], k)
    BY <2>2 DEF Learns
  <2>5. QED BY <2>1, <2>2, <2>3, <2>4, CallMoves
<1>6. CASE runReads(c)
  <2>1. call[c].pc = "aborted" /\ UNCHANGED <<activeTasks, starting>>
    BY <1>6 DEF runReads, At
  <2>2. CASE To(c, "finally")
    BY <2>1, <2>2, CallGoesTo DEF Late, Submitted
  <2>3. ASSUME NEW r \in recordOf(call[c].id),
               call' = [call EXCEPT ![c].pc = "cancel", ![c].revision = r.revision]
        PROVE  CallsInv' /\ CallsLearn
    <3>1. r.revision \in Nat
      BY <2>3 DEF recordOf, StoreInv, TaskRecord
    <3>2. PICK k \in CallRecord : /\ call' = [call EXCEPT ![c] = k]
                                  /\ k.pc = "cancel" /\ k.id = call[c].id /\ k.reserved = call[c].reserved
      <4> DEFINE new == [call[c] EXCEPT !.pc = "cancel", !.revision = r.revision]
      <4>1. new \in CallRecord /\ new.pc = "cancel" /\ new.id = call[c].id /\ new.reserved = call[c].reserved
        BY <1>1, <3>1 DEF CallRecord, Late
      <4>2. call' = [call EXCEPT ![c] = new]
        BY <1>1, <2>3 DEF CallsInv, CallRecord
      <4>3. QED BY <4>1, <4>2
    <3>3. CallOK(k) /\ k.pc \in Late /\ k.pc # "idle"
      BY <1>1, <2>1, <3>2 DEF CallOK, Late
    <3>4. Learns(call[c], k)
      BY <3>2 DEF Learns, Submitted
    <3>5. QED BY <2>1, <3>2, <3>3, <3>4, CallMoves
  <2>4. QED BY <1>6, <2>2, <2>3 DEF runReads
<1>7. CASE runSeesResult(c)
  <2>1. /\ call[c].pc = "wait" /\ UNCHANGED <<activeTasks, starting, child>>
        /\ call' = [call EXCEPT ![c].pc = "settle", ![c].result = child[call[c].id]]
        /\ child[call[c].id] \in {"deferred"} \cup Over
    BY <1>7 DEF runSeesResult, At, Over
  <2>2. PICK k \in CallRecord : /\ call' = [call EXCEPT ![c] = k]
                                /\ k.pc = "settle" /\ k.id = call[c].id /\ k.reserved = call[c].reserved
                                /\ k.result = child[call[c].id]
    <3> DEFINE new == [call[c] EXCEPT !.pc = "settle", !.result = child[call[c].id]]
    <3>1. new \in CallRecord /\ new.pc = "settle" /\ new.id = call[c].id /\ new.reserved = call[c].reserved
          /\ new.result = child[call[c].id]
      BY <1>1, <2>1 DEF CallRecord, ChildStates, Over, Late
    <3>2. call' = [call EXCEPT ![c] = new]
      BY <1>1, <2>1 DEF CallsInv, CallRecord
    <3>3. QED BY <3>1, <3>2
  <2>3. CallOK(k) /\ k.pc \in Late /\ k.pc # "idle" /\ call[c].pc # "idle"
    BY <1>1, <2>1, <2>2 DEF CallOK, Late
  <2>4. Learns(call[c], k)
    BY <2>1, <2>2 DEF Learns, Submitted
  <2>5. QED BY <2>1, <2>2, <2>3, <2>4, CallMoves
<1>8. QED BY <1>3, <1>4, <1>5, <1>6, <1>7

LEMMA CallsStep ==
  ASSUME StoreInv, CallsInv, ChildInv, [ManagerNext]_allVars
  PROVE  CallsInv' /\ CallsLearn
<1>1. \A c \in Calls : /\ leaseRefused(c) \in Late \ Submitted
                       /\ otherError(c) \in {"aborted", "finally", "giveBack", "failing"}
                       /\ otherError(c) = "failing" => call[c].pc \in Submitted
  BY DEF leaseRefused, otherError, Late, Submitted
<1>2. ASSUME NEW c \in Calls, NEW pc \in Late \ Submitted, To(c, pc), call[c].pc # "idle",
             UNCHANGED <<activeTasks, starting>>
      PROVE  CallsInv' /\ CallsLearn
  BY <1>2, CallGoesTo DEF Submitted
<1>20. ASSUME NEW c \in Calls, Goes(c), call[c].pc # "idle", UNCHANGED <<activeTasks, starting>>
      PROVE  CallsInv' /\ CallsLearn
  <2>1. PICK pc \in Onward(c) : To(c, pc)
    BY <1>20 DEF Goes
  <2>2. pc \in Late /\ pc # "settle" /\ (pc \in Submitted => call[c].pc \in Submitted)
    BY <1>1 DEF Onward, Late, Submitted
  <2>3. QED BY <1>20, <2>1, <2>2, CallGoesTo
<1>3. ASSUME NEW c \in Calls, NEW id \in Ids, run(c, id)
      PROVE  CallsInv' /\ CallsLearn
  BY <1>3, CallBegins
<1>4. ASSUME NEW c \in Calls, \/ runActivates(c) \/ runTakesHandle(c) \/ callerAborts(c) \/ waitForAbort(c)
                              \/ runReads(c) \/ runLooksUp(c) \/ runFinally(c)
                              \/ runSeesResult(c) \/ runThrows(c)
      PROVE  CallsInv' /\ CallsLearn
  <2>1. CASE waitForAbort(c)
    BY <1>2, <2>1 DEF waitForAbort, At, Late, Submitted
  <2>2. CASE runLooksUp(c)
    BY <1>2, <2>2 DEF runLooksUp, At, Late, Submitted
  <2>3. CASE runThrows(c)
    BY <1>20, <2>3 DEF runThrows, Goes, Onward
  <2>4. QED BY <1>4, <2>1, <2>2, <2>3, CallActivates, CallEnds, CallIsMarked
<1>5. ASSUME NEW c \in Calls, NEW now \in Times, NEW exp \in Times, runClaims(c, now, exp)
      PROVE  CallsInv' /\ CallsLearn
  BY <1>5, CallIsMarked
<1>6. ASSUME NEW c \in Calls, NEW now \in Times, failChanged(c, now)
      PROVE  CallsInv' /\ CallsLearn
  BY <1>20, <1>6, FailSettles DEF failChanged, At
<1>7. ASSUME NEW c \in Calls, NEW now \in Times, runAssertsLease(c, now)
      PROVE  CallsInv' /\ CallsLearn
  <2>1. "submit" \in Late \ Submitted
    BY DEF Late, Submitted
  <2>2. QED BY <1>1, <1>2, <1>7, <2>1 DEF runAssertsLease, At
<1>8. ASSUME NEW c \in Calls, NEW now \in Times, runSubmits(c, now)
      PROVE  CallsInv' /\ CallsLearn
  <2>1. call[c].pc = "submit" /\ UNCHANGED <<activeTasks, starting>>
    BY <1>8 DEF runSubmits, At
  <2>2. CASE abandonTask(c, now)
    BY <1>20, <2>1, <2>2, AbandonSettles
  <2>3. CASE To(c, "handle") /\ child' = [child EXCEPT ![call[c].id] = IF @ \in {"none", "deferred"} THEN "queued" ELSE @]
    <3>1. call[c].id \in Ids
      BY <2>1 DEF CallsInv, CallOK
    <3>2. child'[call[c].id] # "none"
      BY <2>3, <3>1 DEF ChildInv
    <3>3. QED BY <2>1, <2>3, <3>2, CallGoesTo DEF Late
  <2>4. QED BY <1>8, <2>2, <2>3 DEF runSubmits
<1>9. ASSUME NEW c \in Calls, NEW now \in Times, runBinds(c, now)
      PROVE  CallsInv' /\ CallsLearn
  <2>1. call[c].pc = "bind" /\ UNCHANGED <<activeTasks, starting>>
    BY <1>9 DEF runBinds, At
  <2>2. CASE To(c, "wait")
    BY <2>1, <2>2, CallGoesTo DEF Late, Submitted
  <2>3. CASE To(c, leaseRefused(c))
    BY <1>1, <1>2, <2>1, <2>3
  <2>4. QED BY <1>9, <2>2, <2>3 DEF runBinds
<1>10. ASSUME NEW c \in Calls, NEW now \in Times, runSettles(c, now) \/ catchOther(c, now)
       PROVE  CallsInv' /\ CallsLearn
  <2>1. call[c].pc # "idle" /\ UNCHANGED <<activeTasks, starting>>
    BY <1>10 DEF runSettles, catchOther, At
  <2>2. Goes(c)
    BY <1>10, AbandonSettles, FailSettles, CompleteSettles DEF runSettles, catchOther
  <2>3. QED BY <1>20, <2>1, <2>2
<1>11. ASSUME NEW c \in Calls, NEW now \in Times, runCancels(c, now)
       PROVE  CallsInv' /\ CallsLearn
  <2>1. "lookup" \in Late \ Submitted /\ "finally" \in Late \ Submitted
    BY DEF Late, Submitted
  <2>2. QED BY <1>2, <1>11, <2>1 DEF runCancels, At
<1>12. ASSUME NEW r \in records, NEW now \in Times, cancelTask(r, now)
       PROVE  CallsInv' /\ CallsLearn
  BY <1>12, CallsRest DEF cancelTask
<1>13. ASSUME NEW id \in Ids, cancelAborts(id) \/ childStarts(id)
       PROVE  CallsInv' /\ CallsLearn
  BY <1>13, CallsRest DEF cancelAborts, childStarts
<1>14. ASSUME NEW id \in Ids, NEW e, childEnds(id, e)
       PROVE  CallsInv' /\ CallsLearn
  BY <1>14, CallsRest DEF childEnds
<1>15. ASSUME NEW id \in Ids, NEW now \in Times, NEW exp \in Times, renewActive(id, now, exp)
       PROVE  CallsInv' /\ CallsLearn
  BY <1>15, CallsRest DEF renewActive, managerVars
<1>16. CASE Elsewhere
  BY <1>16, CallsRest DEF Elsewhere, managerVars
<1>17. CASE UNCHANGED allVars
  BY <1>17, CallsRest DEF allVars, managerVars
<1>18. QED
  BY <1>3, <1>4, <1>5, <1>6, <1>7, <1>8, <1>9, <1>10, <1>11, <1>12, <1>13, <1>14, <1>15, <1>16, <1>17
     DEF ManagerNext

-----------------------------------------------------------------------------
(* The children: one that has ended stays as it ended, and what a task     *)
(* says of its child is so.                                                *)
ChildKept ==
  /\ child' \in [Ids -> ChildStates]
  /\ \A d \in Ids : /\ child[d] \in Over => child'[d] = child[d]
                    /\ child[d] # "none" => child'[d] # "none"

Explained(code, id) ==
  /\ code = "result_unavailable" => child[id] = "completed"
  /\ code = "child_aborted" => child[id] = "aborted"
  /\ code = "child_failed" => child[id] = "failed"
  /\ code = "executor_failed" => child[id] # "none"
  /\ code = "target_configuration_changed" => id \in Changed

SaysWhatItsChildDid(q) ==
  /\ q.status = "completed" => child[q.id] = "completed"
  /\ Explained(q.code, q.id)

OutcomeFromChild == \A q \in records' : q \in records \/ SaysWhatItsChildDid(q)

LEMMA ChildrenKeep ==
  ASSUME ChildInv, CallsInv', StoreInv', ChildKept, CallsLearn, OutcomeFromChild, cancelling' \subseteq Ids
  PROVE  ChildInv'
<1>1. \A q \in records' : q.id \in Ids
  BY DEF StoreInv, TaskRecord
<1>2. \A q \in records' : SaysWhatItsChildDid(q)
  BY DEF ChildInv, ResultFromChild, OutcomeFromChild, SaysWhatItsChildDid, Explained
<1>3. \A q \in records' : (q.status = "completed" => child'[q.id] = "completed") /\ Explained(q.code, q.id)'
  BY <1>1, <1>2 DEF SaysWhatItsChildDid, Explained, ChildKept, Over
<1>4. ResultFromChild'
  BY <1>3 DEF ResultFromChild, Explained
<1>5. ASSUME NEW c \in Calls PROVE Heeds(call[c])'
  <2>1. Learns(call[c], call'[c]) /\ Heeds(call[c]) /\ CallOK(call'[c])
    BY DEF CallsLearn, ChildInv, CallsInv
  <2>2. call'[c].pc \in Submitted => call'[c].id \in Ids /\ call'[c].id = call[c].id
    BY <2>1 DEF CallOK, Submitted, Learns
  <2>3. call'[c].pc \in Submitted => child'[call'[c].id] # "none"
    BY <2>1, <2>2 DEF Heeds, Learns, ChildKept
  <2>4. call'[c].pc = "settle" /\ call'[c].result \in Over => child'[call'[c].id] = call'[c].result
    BY <2>1, <2>2 DEF Heeds, Learns, ChildKept, Submitted
  <2>5. QED BY <2>3, <2>4 DEF Heeds
<1>6. QED BY <1>4, <1>5 DEF ChildInv, ChildKept

\* What a step that settles no task says of the children.
LEMMA QuietOutcome ==
  ASSUME StoreInv,
         \/ UNCHANGED records
         \/ \E r \in records, o \in Owners, now, exp \in Times : claim(r, o, now, exp)
         \/ \E r \in records, now, exp \in Times : \E token : renew(r, token, now, exp)
         \/ \E r \in records, to \in ChildRuns, now \in Times : \E token : bindRun(r, token, to, now)
         \/ \E r \in records, now \in Times : \E token : abandon(r, token, now)
         \/ \E r \in records, now \in Times : \E rev : cancel(r, rev, now)
  PROVE  OutcomeFromChild
<1>1. CASE UNCHANGED records
  BY <1>1 DEF OutcomeFromChild
<1>2. ASSUME NEW r \in records, NEW n \in TaskRecord, Replaced(r, n), n.status \notin {"completed", "failed"}
      PROVE  OutcomeFromChild
  <2>1. n.code = None
    BY <1>2 DEF Replaced
  <2>2. SaysWhatItsChildDid(n)
    BY <1>2, <2>1, ManagerAssumption DEF SaysWhatItsChildDid, Explained, failureCodes
  <2>3. QED BY <1>2, <2>2 DEF OutcomeFromChild, Replaced, Put
<1>3. ASSUME NEW r \in records, NEW o \in Owners, NEW now \in Times, NEW exp \in Times, claim(r, o, now, exp)
      PROVE  OutcomeFromChild
  BY <1>2, <1>3, ClaimReplaces
<1>4. ASSUME NEW r \in records, NEW now \in Times, NEW exp \in Times, NEW token, renew(r, token, now, exp)
      PROVE  OutcomeFromChild
  BY <1>2, <1>4, RenewReplaces
<1>5. ASSUME NEW r \in records, NEW to \in ChildRuns, NEW now \in Times, NEW token, bindRun(r, token, to, now)
      PROVE  OutcomeFromChild
  BY <1>2, <1>5, BindReplaces
<1>6. ASSUME NEW r \in records, NEW now \in Times, NEW token, abandon(r, token, now)
      PROVE  OutcomeFromChild
  BY <1>2, <1>6, AbandonReplaces DEF LeaseLost, OutcomeFromChild
<1>7. ASSUME NEW r \in records, NEW now \in Times, NEW rev, cancel(r, rev, now)
      PROVE  OutcomeFromChild
  BY <1>2, <1>7, CancelReplaces DEF LeaseLost, OutcomeFromChild
<1>8. QED BY <1>1, <1>3, <1>4, <1>5, <1>6, <1>7

LEMMA FailedOutcome ==
  ASSUME StoreInv, NEW r \in records, NEW token, NEW code \in Codes, NEW now \in Times, fail(r, token, code, now),
         Explained(code, r.id)
  PROVE  OutcomeFromChild
<1>1. ASSUME NEW n \in TaskRecord, Replaced(r, n), n.status = "failed", n.code = code
      PROVE  OutcomeFromChild
  <2>1. SaysWhatItsChildDid(n)
    BY <1>1 DEF SaysWhatItsChildDid, Replaced
  <2>2. QED BY <1>1, <2>1 DEF OutcomeFromChild, Replaced, Put
<1>2. QED BY <1>1, FailReplaces DEF LeaseLost, OutcomeFromChild

LEMMA CompletedOutcome ==
  ASSUME StoreInv, NEW r \in records, NEW token, NEW res \in Results, NEW now \in Times,
         complete(r, token, res, now), child[r.id] = "completed"
  PROVE  OutcomeFromChild
<1>1. ASSUME NEW n \in TaskRecord, Replaced(r, n), n.status = "completed"
      PROVE  OutcomeFromChild
  <2>1. SaysWhatItsChildDid(n)
    BY <1>1, ManagerAssumption DEF SaysWhatItsChildDid, Explained, Replaced, failureCodes
  <2>2. QED BY <1>1, <2>1 DEF OutcomeFromChild, Replaced, Put
<1>2. QED BY <1>1, CompleteReplaces DEF LeaseLost, OutcomeFromChild

\* A run that is over is not aborted any more.
LEMMA AbortKeeps ==
  ASSUME ChildInv, NEW id, abortChild(id)
  PROVE  ChildKept
<1>1. onActor(id, {"running"}) \subseteq {d \in Ids : child[d] = "running"}
  BY DEF onActor
<1>2. CASE child' = child
  BY <1>2 DEF ChildInv, ChildKept
<1>3. CASE child' = [d \in Ids |-> IF d \in onActor(id, {"running"}) THEN "aborted" ELSE child[d]]
  BY <1>1, <1>3 DEF ChildInv, ChildKept, ChildStates, Over
<1>4. CASE child' = [child EXCEPT ![id] = IF @ = "queued" THEN "aborted" ELSE @]
  BY <1>4 DEF ChildInv, ChildKept, ChildStates, Over
<1>5. QED BY <1>2, <1>3, <1>4 DEF abortChild

LEMMA ChildStep ==
  ASSUME StoreInv, CallsInv, ChildInv, StoreInv', CallsInv', CallsLearn, [ManagerNext]_allVars
  PROVE  ChildInv'
<1>1. \A id : \A r \in recordOf(id) : r \in records /\ r.id = id /\ id \in Ids
  BY DEF recordOf, StoreInv, TaskRecord
<1>2. UNCHANGED child => ChildKept
  BY DEF ChildInv, ChildKept
<1>3. UNCHANGED cancelling => cancelling' \subseteq Ids
  BY DEF ChildInv
<1>4. UNCHANGED delegationVars => OutcomeFromChild
  BY QuietOutcome DEF delegationVars
<1>23. ASSUME NEW c \in Calls, NEW now \in Times, NEW code \in failureCodes, failTask(c, now, code),
              Explained(code, call[c].id)
       PROVE  OutcomeFromChild
  <2>1. code \in Codes
    BY ManagerAssumption
  <2>2. ASSUME NEW r \in recordOf(call[c].id), fail(r, call[c].token, code, now)
        PROVE  OutcomeFromChild
    BY <1>1, <1>23, <2>1, <2>2, FailedOutcome
  <2>3. QED BY <1>4, <1>23, <2>2, FailSettles DEF Refused
<1>24. ASSUME NEW c \in Calls, NEW now \in Times, abandonTask(c, now)
       PROVE  OutcomeFromChild
  BY <1>1, <1>4, <1>24, AbandonSettles, QuietOutcome DEF Refused
<1>5. ASSUME NEW c \in Calls, NEW id \in Ids, run(c, id)
      PROVE  ChildInv'
  BY <1>2, <1>3, <1>4, <1>5, ChildrenKeep DEF run
<1>6. ASSUME NEW c \in Calls, \/ runActivates(c) \/ runTakesHandle(c) \/ callerAborts(c) \/ waitForAbort(c)
                              \/ runReads(c) \/ runFinally(c) \/ runSeesResult(c) \/ runThrows(c)
      PROVE  ChildInv'
  <2>1. UNCHANGED delegationVars /\ UNCHANGED <<child, cancelling>>
    BY <1>6 DEF runActivates, runTakesHandle, callerAborts, waitForAbort, runReads, runFinally, runSeesResult,
                runThrows
  <2>2. QED BY <1>2, <1>3, <1>4, <2>1, ChildrenKeep
<1>7. ASSUME NEW c \in Calls, runLooksUp(c)
      PROVE  ChildInv'
  BY <1>3, <1>4, <1>7, AbortKeeps, ChildrenKeep DEF runLooksUp
<1>8. ASSUME NEW c \in Calls, NEW now \in Times, NEW exp \in Times, runClaims(c, now, exp)
      PROVE  ChildInv'
  <2>1. OutcomeFromChild
    BY <1>1, <1>4, <1>8, ManagerAssumption, QuietOutcome DEF runClaims
  <2>2. QED BY <1>2, <1>3, <1>8, <2>1, ChildrenKeep DEF runClaims
<1>9. ASSUME NEW c \in Calls, NEW now \in Times, failChanged(c, now)
      PROVE  ChildInv'
  <2>1. call[c].id \in Changed
    BY <1>9 DEF failChanged, At, CallsInv, CallOK
  <2>2. Explained("target_configuration_changed", call[c].id)
    BY <2>1 DEF Explained
  <2>3. OutcomeFromChild
    BY <1>9, <1>23, <2>2 DEF failChanged, failureCodes
  <2>4. QED BY <1>2, <1>3, <1>9, <2>3, ChildrenKeep DEF failChanged
<1>10. ASSUME NEW c \in Calls, NEW now \in Times, runAssertsLease(c, now)
       PROVE  ChildInv'
  BY <1>2, <1>3, <1>4, <1>10, ChildrenKeep DEF runAssertsLease
<1>11. ASSUME NEW c \in Calls, NEW now \in Times, runSubmits(c, now)
       PROVE  ChildInv'
  <2>1. UNCHANGED cancelling
    BY <1>11 DEF runSubmits
  <2>2. CASE child' = [child EXCEPT ![call[c].id] = IF @ \in {"none", "deferred"} THEN "queued" ELSE @]
             /\ UNCHANGED delegationVars
    <3>1. ChildKept
      BY <2>2 DEF ChildInv, ChildKept, ChildStates, Over
    <3>2. QED BY <1>3, <1>4, <2>1, <2>2, <3>1, ChildrenKeep
  <2>3. CASE abandonTask(c, now) /\ UNCHANGED child
    <3>1. OutcomeFromChild
      BY <1>24, <2>3
    <3>2. QED BY <1>2, <1>3, <2>1, <2>3, <3>1, ChildrenKeep
  <2>4. CASE UNCHANGED delegationVars /\ UNCHANGED child
    BY <1>2, <1>3, <1>4, <2>1, <2>4, ChildrenKeep
  <2>5. QED BY <1>11, <2>2, <2>3, <2>4 DEF runSubmits
<1>12. ASSUME NEW c \in Calls, NEW now \in Times, runBinds(c, now)
       PROVE  ChildInv'
  <2>1. OutcomeFromChild
    <3>1. CASE UNCHANGED delegationVars
      BY <1>4, <3>1
    <3>2. ASSUME NEW r \in recordOf(call[c].id), bindRun(r, call[c].token, ChildRun[call[c].id], now)
          PROVE  OutcomeFromChild
      <4>1. r \in records /\ ChildRun[call[c].id] \in ChildRuns
        BY <1>1, ManagerAssumption
      <4>2. QED BY <3>2, <4>1, QuietOutcome
    <3>3. QED BY <1>12, <3>1, <3>2 DEF runBinds, bindRunAgain
  <2>2. QED BY <1>2, <1>3, <1>12, <2>1, ChildrenKeep DEF runBinds
<1>13. ASSUME NEW c \in Calls, NEW now \in Times, runSettles(c, now)
       PROVE  ChildInv'
  <2> DEFINE id == call[c].id
             seen == call[c].result
  <2>1. call[c].pc = "settle" /\ UNCHANGED <<child, cancelling>>
    BY <1>13 DEF runSettles, At
  <2>2. seen \in Over => child[id] = seen
    BY <2>1 DEF ChildInv, Heeds
  <2>3. CASE abandonTask(c, now)
    BY <1>2, <1>3, <1>24, <2>1, <2>3, ChildrenKeep
  <2>4. ASSUME NEW code \in failureCodes, failTask(c, now, code), Explained(code, id)
        PROVE  ChildInv'
    BY <1>2, <1>3, <1>23, <2>1, <2>4, ChildrenKeep
  <2>5. ASSUME NEW res \in Results, completeTask(c, now, res), child[id] = "completed"
        PROVE  ChildInv'
    <3>1. ASSUME NEW r \in recordOf(id), complete(r, call[c].token, res, now)
          PROVE  OutcomeFromChild
      BY <1>1, <2>5, <3>1, CompletedOutcome
    <3>2. OutcomeFromChild
      BY <1>4, <2>5, <3>1, CompleteSettles DEF Refused
    <3>3. QED BY <1>2, <1>3, <2>1, <3>2, ChildrenKeep
  <2>6. /\ seen = "aborted" => Explained("child_aborted", id)
        /\ seen = "failed" => Explained("child_failed", id)
        /\ seen = "completed" => Explained("result_unavailable", id) /\ child[id] = "completed"
    BY <2>2 DEF Explained, Over
  <2>7. {"child_aborted", "child_failed", "result_unavailable"} \subseteq failureCodes
    BY DEF failureCodes
  <2>8. QED BY <1>13, <2>3, <2>4, <2>5, <2>6, <2>7 DEF runSettles
<1>14. ASSUME NEW c \in Calls, NEW now \in Times, runCancels(c, now)
       PROVE  ChildInv'
  <2>1. OutcomeFromChild
    BY <1>1, <1>4, <1>14, QuietOutcome DEF runCancels
  <2>2. QED BY <1>2, <1>3, <1>14, <2>1, ChildrenKeep DEF runCancels
<1>15. ASSUME NEW r \in records, NEW now \in Times, cancelTask(r, now)
       PROVE  ChildInv'
  <2>1. OutcomeFromChild
    BY <1>15, QuietOutcome DEF cancelTask
  <2>2. cancelling' \subseteq Ids
    BY <1>15 DEF cancelTask, ChildInv, StoreInv, TaskRecord
  <2>3. QED BY <1>2, <1>15, <2>1, <2>2, ChildrenKeep DEF cancelTask
<1>16. ASSUME NEW id \in Ids, cancelAborts(id)
       PROVE  ChildInv'
  <2>1. cancelling' \subseteq Ids
    BY <1>16 DEF cancelAborts, ChildInv
  <2>2. QED BY <1>4, <1>16, <2>1, AbortKeeps, ChildrenKeep DEF cancelAborts
<1>17. ASSUME NEW id \in Ids, childStarts(id)
       PROVE  ChildInv'
  <2>1. ChildKept
    BY <1>17 DEF childStarts, ChildInv, ChildKept, ChildStates, Over
  <2>2. QED BY <1>3, <1>4, <1>17, <2>1, ChildrenKeep DEF childStarts
<1>18. ASSUME NEW id \in Ids, NEW e \in {"completed", "failed", "deferred"}, childEnds(id, e)
       PROVE  ChildInv'
  <2>1. ChildKept
    BY <1>18 DEF childEnds, ChildInv, ChildKept, ChildStates, Over
  <2>2. QED BY <1>3, <1>4, <1>18, <2>1, ChildrenKeep DEF childEnds
<1>19. ASSUME NEW id \in Ids, NEW now \in Times, NEW exp \in Times, renewActive(id, now, exp)
       PROVE  ChildInv'
  <2>1. OutcomeFromChild
    BY <1>1, <1>19, QuietOutcome DEF renewActive
  <2>2. QED BY <1>2, <1>3, <1>19, <2>1, ChildrenKeep DEF renewActive, managerVars
<1>20. CASE Elsewhere
  <2>1. OutcomeFromChild
    BY <1>20, QuietOutcome DEF Elsewhere
  <2>2. QED BY <1>2, <1>3, <1>20, <2>1, ChildrenKeep DEF Elsewhere, managerVars
<1>21. CASE UNCHANGED allVars
  BY <1>2, <1>3, <1>4, <1>21, ChildrenKeep DEF allVars, managerVars
<1>22. ASSUME NEW c \in Calls, NEW now \in Times, catchOther(c, now)
       PROVE  ChildInv'
  <2>1. UNCHANGED <<child, cancelling>>
    BY <1>22 DEF catchOther
  <2>2. CASE abandonTask(c, now)
    BY <1>2, <1>3, <1>24, <2>1, <2>2, ChildrenKeep
  <2>3. CASE At(c, "failing") /\ failTask(c, now, "executor_failed")
    <3>1. child[call[c].id] # "none"
      BY <2>3 DEF At, ChildInv, Heeds, Submitted
    <3>2. Explained("executor_failed", call[c].id) /\ "executor_failed" \in failureCodes
      BY <3>1 DEF Explained, failureCodes
    <3>3. QED BY <1>2, <1>3, <1>23, <2>1, <2>3, <3>2, ChildrenKeep
  <2>4. QED BY <1>22, <2>2, <2>3 DEF catchOther
<1>25. QED
  BY <1>5, <1>6, <1>7, <1>8, <1>9, <1>10, <1>11, <1>12, <1>13, <1>14, <1>15, <1>16, <1>17, <1>18, <1>19,
     <1>20, <1>21, <1>22
     DEF ManagerNext

LEMMA CallsStart == ManagerInit => CallsInv /\ ChildInv
<1>1. SUFFICES ASSUME ManagerInit PROVE CallsInv /\ ChildInv
  OBVIOUS
<1>2. /\ call = [c \in Calls |-> Idle] /\ activeTasks = [id \in Ids |-> NoCall] /\ starting = 0
      /\ child = [id \in Ids |-> "none"] /\ cancelling = {}
  BY <1>1 DEF ManagerInit
<1>3. Idle \in CallRecord /\ CallOK(Idle) /\ Idle.reserved = FALSE /\ Idle.pc = "idle"
  BY DEF Idle, CallRecord, CallOK, Early, ChildStates
<1>4. {c \in DOMAIN call : call[c].reserved} = {}
  BY <1>2, <1>3
<1>5. CapacityReturned
  BY <1>2, <1>4, FS_EmptySet DEF CapacityReturned
<1>6. CallsInv
  BY <1>2, <1>3, <1>5 DEF CallsInv
<1>7. \A r \in records : r.status = "pending" /\ r.code = None
  BY <1>1 DEF ManagerInit
<1>8. ChildInv
  <2>1. ResultFromChild
    BY <1>7, ManagerAssumption DEF ResultFromChild, failureCodes
  <2>2. \A c \in Calls : Heeds(call[c])
    BY <1>2, <1>3 DEF Heeds, Submitted
  <2>3. QED BY <1>2, <2>1, <2>2 DEF ChildInv, ChildStates
<1>9. QED BY <1>6, <1>8

(* Whichever await of run() fails, is aborted or finds its lease lapsed,   *)
(* the reservation and the activeTasks entry are given back; a task is     *)
(* completed only if its child completed, and failed under the code that   *)
(* tells what its child came to, but for executor_failed, whose child was  *)
(* handed to the runtime and may be running still.                         *)
THEOREM CapacityComesBack == ManagerSpec => []RunsSettle
<1> DEFINE Inv == StoreInv /\ CallsInv /\ ChildInv
<1>1. ManagerInit => Inv
  BY ManagerStarts, CallsStart
<1>2. Inv /\ [ManagerNext]_allVars => Inv'
  <2>1. SUFFICES ASSUME Inv, [ManagerNext]_allVars PROVE Inv'
    OBVIOUS
  <2>2. [DelegationNext]_delegationVars
    BY <2>1, ManagerUses DEF allVars, delegationVars
  <2>3. StoreInv'
    BY <2>1, <2>2, StoreStep, UnchangedKeeps
  <2>4. CallsInv' /\ CallsLearn
    BY <2>1, CallsStep
  <2>5. QED BY <2>1, <2>3, <2>4, ChildStep
<1>3. Inv => RunsSettle
  BY DEF CallsInv, ChildInv, RunsSettle
<1>4. QED BY <1>1, <1>2, <1>3, PTL DEF ManagerSpec
=============================================================================
