----------------------------- MODULE SignalStore -----------------------------
(***************************************************************************)
(* Game signals and the waits registered for them: InMemorySignalStore     *)
(* behind SignalService, for one timeline generation.  A wait is matched   *)
(* by the first signal its selector accepts, recorded before or after it.  *)
(*                                                                         *)
(* A request the store refuses, or answers from what it holds, changes     *)
(* nothing and is not a step.                                              *)
(***************************************************************************)
EXTENDS Integers, FiniteSets, FiniteSetTheorems, WellFoundedInduction, TLAPS

CONSTANTS
  Lanes, NoLane,     \* the (session, actor) part of a partition, or its absence
  SignalIds, WaitIds, Kinds,
  Selectors,         \* [kinds, afterKey, afterTick, throughTick], None where absent
  MaxTick, MaxTime,
  MaxSignalKey, MaxWaitKey,   \* bounds on rows ever created
  MaxMatches,        \* maxWaitMatchesPerSignal
  MaxBatch           \* bound of an expiry or a purge

None == 0

VARIABLES signals, waits, nextSignalKey, nextWaitKey

signalVars == <<signals, waits, nextSignalKey, nextWaitKey>>

Times == 0 .. MaxTime
Ticks == 1 .. MaxTick

ASSUME SignalAssumption ==
  /\ {MaxTick, MaxTime, MaxSignalKey, MaxWaitKey, MaxMatches, MaxBatch} \subseteq Nat
  /\ Selectors \subseteq [kinds : SUBSET Kinds, afterKey : Nat, afterTick : Nat, throughTick : Nat]

-----------------------------------------------------------------------------
laterSignalTimestamp(s, t) == IF s < t THEN t ELSE s
compareKeys(r, q) == r.key < q.key
FirstOf(R, n) == {r \in R : Cardinality({e \in R : compareKeys(e, r)}) < n}

\* What a wait's selector accepts.
signalWaitMatches(w, s) ==
  /\ w.lane \in {NoLane, s.lane}
  /\ s.kind \in w.selector.kinds
  /\ s.key > w.selector.afterKey
  /\ s.tick > w.selector.afterTick
  /\ w.selector.throughTick # None => s.tick <= w.selector.throughTick

matchedWaits(k) == {w \in waits : w.matched = k}

matchedBy(w, s) ==
  [w EXCEPT !.status = "matched", !.matched = s.key, !.revision = @ + 1,
            !.updatedAt = laterSignalTimestamp(@, s.recordedAt)]

SignalInit == signals = {} /\ waits = {} /\ nextSignalKey = 1 /\ nextWaitKey = 1

\* A signal wakes every wait it matches, or is refused when they are too many.
record(id, lane, kind, tick, at) ==
  LET s == [key |-> nextSignalKey, id |-> id, lane |-> lane, kind |-> kind, tick |-> tick, recordedAt |-> at]
      matches == {w \in waits : w.status = "waiting" /\ signalWaitMatches(w, s)}
  IN  /\ ~ \E r \in signals : r.id = id
      /\ nextSignalKey <= MaxSignalKey
      /\ Cardinality(matches) <= MaxMatches
      /\ signals' = signals \cup {s}
      /\ nextSignalKey' = nextSignalKey + 1
      /\ waits' = (waits \ matches) \cup {matchedBy(w, s) : w \in matches}
      /\ UNCHANGED nextWaitKey

matchingSignalsLater(w) == {s \in signals : signalWaitMatches(w, s) /\ s.recordedAt >= w.updatedAt}

\* The signals already recorded that a new wait accepts.
matchingSignals(w) == {s \in signals : signalWaitMatches(w, s)}

\* One more wait may be matched by s.
hasRoom(s) == Cardinality(matchedWaits(s.key)) < MaxMatches

registerWait(id, lane, selector, at) ==
  LET w == [key |-> nextWaitKey, id |-> id, lane |-> lane, selector |-> selector, status |-> "waiting",
            revision |-> 1, matched |-> None, updatedAt |-> at]
      first == FirstOf(matchingSignals(w), 1)
  IN  /\ ~ \E v \in waits : v.id = id
      /\ nextWaitKey <= MaxWaitKey
      /\ \A s \in first : hasRoom(s)
      /\ waits' = waits \cup
           IF first = {} THEN {w}
           ELSE {[matchedBy(w, s) EXCEPT !.revision = 1] : s \in first}
      /\ nextWaitKey' = nextWaitKey + 1
      /\ UNCHANGED <<signals, nextSignalKey>>

cancelWait(w, expectedRevision, at) ==
  /\ w.revision = expectedRevision
  /\ w.status = "waiting"
  /\ waits' = (waits \ {w}) \cup
       {[w EXCEPT !.status = "cancelled", !.revision = @ + 1, !.updatedAt = laterSignalTimestamp(@, at)]}
  /\ UNCHANGED <<signals, nextSignalKey, nextWaitKey>>

\* The game's clock has passed the last tick of a wait.
expireWaits(throughTick, at, limit) ==
  LET selected == FirstOf({w \in waits : /\ w.status = "waiting"
                                         /\ w.selector.throughTick # None
                                         /\ w.selector.throughTick <= throughTick}, limit)
  IN  /\ selected # {}
      /\ waits' = (waits \ selected) \cup
           {[w EXCEPT !.status = "expired", !.revision = @ + 1, !.updatedAt = laterSignalTimestamp(@, at)] :
              w \in selected}
      /\ UNCHANGED <<signals, nextSignalKey, nextWaitKey>>

purgeTerminalWaits(before, limit) ==
  LET selected == FirstOf({w \in waits : w.status # "waiting" /\ w.updatedAt < before}, limit)
  IN  /\ selected # {}
      /\ waits' = waits \ selected
      /\ UNCHANGED <<signals, nextSignalKey, nextWaitKey>>

\* A signal some wait was matched by is kept as that wait's evidence.
referenced(s) == matchedWaits(s.key) # {}

purgeSignals(before, limit) ==
  LET selected == FirstOf({s \in signals : s.recordedAt < before /\ ~referenced(s)}, limit)
  IN  /\ selected # {}
      /\ signals' = signals \ selected
      /\ UNCHANGED <<waits, nextSignalKey, nextWaitKey>>

SignalNext ==
  \/ \E id \in SignalIds, lane \in Lanes \cup {NoLane}, kind \in Kinds, tick \in Ticks, at \in Times :
       record(id, lane, kind, tick, at)
  \/ \E id \in WaitIds, lane \in Lanes \cup {NoLane}, sel \in Selectors, at \in Times :
       registerWait(id, lane, sel, at)
  \/ \E w \in waits, rev \in 1 .. 2, at \in Times : cancelWait(w, rev, at)
  \/ \E tick \in Ticks, at \in Times, n \in 1 .. MaxBatch : expireWaits(tick, at, n)
  \/ \E t \in Times, n \in 1 .. MaxBatch : purgeTerminalWaits(t, n) \/ purgeSignals(t, n)

SignalSpec == SignalInit /\ [][SignalNext]_signalVars

-----------------------------------------------------------------------------
(* No signal is overlooked: as long as a wait is waiting, no signal on     *)
(* record is one it accepts, whichever of the two came first.              *)
NoSignalOverlooked == \A w \in waits, s \in signals : w.status = "waiting" => ~signalWaitMatches(w, s)

(* A matched wait keeps its evidence: the signal is still on record, the   *)
(* wait accepts it, and no signal on record that it accepts came earlier.  *)
EvidenceKept ==
  \A w \in waits : w.status = "matched" =>
    \E s \in signals : /\ s.key = w.matched /\ signalWaitMatches(w, s)
                       /\ \A e \in signals : signalWaitMatches(w, e) => e.key >= s.key

(* However waits and signals arrive, one signal has woken at most          *)
(* MaxMatches of the waits on record, the bound of its answer.             *)
FanoutBounded == \A s \in signals : Cardinality({w \in waits : w.matched = s.key}) <= MaxMatches

(* The outcome of a wait is final: once matched, cancelled or expired, it  *)
(* is never changed, only purged.                                          *)
OutcomeFinal ==
  [][\A w \in waits : w.status # "waiting" => w \in waits' \/ \A v \in waits' : v.key # w.key]_signalVars

-----------------------------------------------------------------------------
(* The inductive invariant: keys name signals and waits, a wait has a      *)
(* match exactly when it is matched, and the three properties above, which *)
(* need each other: a wait that becomes matched has no earlier signal on   *)
(* record because none was overlooked, and a signal is purged only when no *)
(* wait has it as its match.                                               *)
SignalRecord ==
  [key : Nat, id : SignalIds, lane : Lanes \cup {NoLane}, kind : Kinds, tick : Ticks, recordedAt : Times]
WaitRecord ==
  [key : Nat, id : WaitIds, lane : Lanes \cup {NoLane}, selector : Selectors,
   status : {"waiting", "matched", "cancelled", "expired"}, revision : Nat, matched : Nat, updatedAt : Times]

SignalsOK ==
  /\ signals \subseteq SignalRecord /\ IsFiniteSet(signals) /\ nextSignalKey \in Nat \ {0}
  /\ \A s \in signals : 0 < s.key /\ s.key < nextSignalKey
  /\ \A s, t \in signals : s.key = t.key => s = t

WaitsOK ==
  /\ waits \subseteq WaitRecord /\ IsFiniteSet(waits) /\ nextWaitKey \in Nat \ {0}
  /\ \A w \in waits : /\ w.key < nextWaitKey /\ w.matched < nextSignalKey
                      /\ w.matched # None <=> w.status = "matched"
  /\ \A w, v \in waits : w.key = v.key => w = v

SignalInv == SignalsOK /\ WaitsOK /\ NoSignalOverlooked /\ EvidenceKept /\ FanoutBounded

(* One step of OutcomeFinal.                                               *)
OutcomeKept == \A w \in waits : w.status # "waiting" => w \in waits' \/ \A v \in waits' : v.key # w.key

(* A set of numbers that is not empty has a least one.                     *)
LEMMA Least == ASSUME NEW K \in SUBSET Nat, K # {} PROVE \E m \in K : \A k \in K : m <= k
<1> DEFINE R == {p \in Nat \X Nat : p[1] < p[2]}
<1>1. IsWellFoundedOn(R, Nat)
  BY NatLessThanWellFounded DEF OpToRel
<1>2. \A x, y \in Nat : x < y => <<x, y>> \in R
  OBVIOUS
<1> HIDE DEF R
<1>3. PICK x \in K : \A y \in K : ~ (<<y, x>> \in R)
  BY <1>1, WFMin
<1>4. \A y \in K : ~(y < x)
  BY <1>2, <1>3
<1>5. \A y \in K : y \in Nat /\ x \in Nat
  BY <1>3
<1>6. QED BY <1>3, <1>4, <1>5

(* The first of a finite set of records numbered by different keys.        *)
LEMMA FirstIsLeast ==
  ASSUME NEW R, IsFiniteSet(R), \A r \in R : r.key \in Nat, \A r, q \in R : r.key = q.key => r = q
  PROVE  /\ FirstOf(R, 1) \subseteq R
         /\ \A r \in FirstOf(R, 1), q \in R : r.key <= q.key
         /\ R # {} => \E r \in R : FirstOf(R, 1) = {r}
<1>1. \A r \in R : /\ Cardinality({e \in R : compareKeys(e, r)}) \in Nat
                   /\ Cardinality({e \in R : compareKeys(e, r)}) < 1 <=> {e \in R : compareKeys(e, r)} = {}
  <2>1. ASSUME NEW r \in R
        PROVE  /\ Cardinality({e \in R : compareKeys(e, r)}) \in Nat
               /\ Cardinality({e \in R : compareKeys(e, r)}) < 1 <=> {e \in R : compareKeys(e, r)} = {}
    <3> DEFINE T == {e \in R : compareKeys(e, r)}
    <3>1. T \in SUBSET R
      OBVIOUS
    <3> HIDE DEF T
    <3>2. IsFiniteSet(T)
      BY <3>1, FS_Subset
    <3>3. Cardinality(T) \in Nat /\ (Cardinality(T) = 0 <=> T = {})
      BY <3>2, FS_CardinalityType, FS_EmptySet
    <3>4. Cardinality(T) \in Nat /\ (Cardinality(T) < 1 <=> T = {})
      BY <3>3
    <3>5. QED BY <3>4 DEF T
  <2>2. QED BY <2>1
<1>2. \A r \in R : r \in FirstOf(R, 1) <=> \A e \in R : ~(e.key < r.key)
  BY <1>1 DEF FirstOf, compareKeys
<1>3. FirstOf(R, 1) \subseteq R
  BY DEF FirstOf
<1>4. \A r \in FirstOf(R, 1), q \in R : r.key <= q.key
  BY <1>2, <1>3
<1>5. ASSUME R # {} PROVE \E r \in R : FirstOf(R, 1) = {r}
  <2>1. {r.key : r \in R} \in SUBSET Nat /\ {r.key : r \in R} # {}
    BY <1>5
  <2>2. PICK m \in {r.key : r \in R} : \A k \in {r.key : r \in R} : m <= k
    BY <2>1, Least
  <2>3. PICK r \in R : m = r.key
    OBVIOUS
  <2>4. \A e \in R : r.key <= e.key /\ e.key \in Nat /\ r.key \in Nat
    BY <2>2, <2>3
  <2>5. r \in FirstOf(R, 1)
    BY <1>2, <2>4
  <2>6. \A q \in FirstOf(R, 1) : q = r
    BY <1>3, <1>4, <2>4, <2>5
  <2>7. QED BY <2>5, <2>6
<1>6. QED BY <1>3, <1>4, <1>5

(* As many images as elements, at most.                                    *)
LEMMA ImageBounded ==
  ASSUME NEW S, IsFiniteSet(S), NEW T, NEW g \in [S -> T], NEW X,
         \A y : y \in X <=> \E x \in S : y = g[x]
  PROVE  IsFiniteSet(X) /\ Cardinality(X) <= Cardinality(S)
<1>1. g \in Surjection(S, X)
  BY DEF Surjection
<1>2. QED BY <1>1, FS_Surjection

LEMMA Types ==
  /\ None \in Nat /\ MaxMatches \in Nat /\ MaxTime \in Nat
  /\ \A s, t \in Times : laterSignalTimestamp(s, t) \in Times
  /\ \A sel \in Selectors : sel \in [kinds : SUBSET Kinds, afterKey : Nat, afterTick : Nat, throughTick : Nat]
BY SignalAssumption DEF None, laterSignalTimestamp

(* Waiting waits are closed, each by its image under g, and the rest stays. *)
LEMMA WaitsClosed ==
  ASSUME SignalInv, NEW S \in SUBSET waits, \A w \in S : w.status = "waiting", NEW g \in [S -> WaitRecord],
         \A w \in S : /\ g[w].key = w.key /\ g[w].status # "waiting" /\ g[w].matched < nextSignalKey'
                      /\ g[w].matched # None <=> g[w].status = "matched",
         waits' = (waits \ S) \cup {g[w] : w \in S}, nextWaitKey' = nextWaitKey,
         nextSignalKey' \in Nat, nextSignalKey <= nextSignalKey'
  PROVE  WaitsOK' /\ OutcomeKept /\ \A w \in waits' : w.status = "waiting" => w \in waits /\ w \notin S
<1>1. waits \subseteq WaitRecord /\ IsFiniteSet(waits) /\ nextWaitKey \in Nat \ {0} /\ nextSignalKey \in Nat
  BY DEF SignalInv, SignalsOK, WaitsOK
<1>2. waits' \subseteq WaitRecord
  BY <1>1
<1>3. IsFiniteSet(waits')
  <2>1. IsFiniteSet(S) /\ IsFiniteSet(waits \ S)
    BY <1>1, FS_Subset
  <2>2. PICK X : X = {g[w] : w \in S}
    OBVIOUS
  <2>3. IsFiniteSet(X)
    <3>1. \A y : y \in X <=> \E w \in S : y = g[w]
      BY <2>2
    <3>2. QED BY <2>1, <3>1, ImageBounded
  <2>4. QED BY <2>1, <2>2, <2>3, FS_Union
<1>4. \A w \in waits' : (w \in waits /\ w \notin S) \/ \E v \in S : w = g[v]
  OBVIOUS
<1>5. \A w \in waits : /\ w.key \in Nat /\ w.matched \in Nat /\ w.key < nextWaitKey /\ w.matched < nextSignalKey
                       /\ w.matched # None <=> w.status = "matched"
  BY <1>1 DEF SignalInv, WaitsOK, WaitRecord
<1>6. \A w \in waits' : /\ w.key < nextWaitKey' /\ w.matched < nextSignalKey'
                        /\ w.matched # None <=> w.status = "matched"
  <2>1. ASSUME NEW w \in waits', w \in waits
        PROVE  /\ w.key < nextWaitKey' /\ w.matched < nextSignalKey'
               /\ w.matched # None <=> w.status = "matched"
    BY <1>1, <1>5, <2>1
  <2>2. ASSUME NEW w \in S
        PROVE  /\ g[w].key < nextWaitKey' /\ g[w].matched < nextSignalKey'
               /\ g[w].matched # None <=> g[w].status = "matched"
    BY <1>5
  <2>3. QED BY <1>4, <2>1, <2>2
<1>7. \A w, v \in waits : w.key = v.key => w = v
  BY DEF SignalInv, WaitsOK
<1>8. \A w \in waits' : \E v \in waits : v.key = w.key /\ w = (IF v \in S THEN g[v] ELSE v)
  BY <1>4
<1>9. \A w, v \in waits' : w.key = v.key => w = v
  BY <1>7, <1>8
<1>10. OutcomeKept
  BY <1>4 DEF OutcomeKept
<1>11. WaitsOK'
  BY <1>1, <1>2, <1>3, <1>6, <1>9 DEF WaitsOK
<1>12. QED BY <1>4, <1>10, <1>11

(* Waits are closed without a signal: by a cancellation or by the clock.   *)
LEMMA ClosedUnmatched ==
  ASSUME SignalInv, NEW S \in SUBSET waits, \A w \in S : w.status = "waiting", NEW g \in [S -> WaitRecord],
         \A w \in S : /\ g[w].key = w.key /\ g[w].status \in {"cancelled", "expired"} /\ g[w].matched = w.matched,
         waits' = (waits \ S) \cup {g[w] : w \in S}, UNCHANGED <<signals, nextSignalKey, nextWaitKey>>
  PROVE  SignalInv' /\ OutcomeKept
<1>1. signals' = signals /\ nextSignalKey' = nextSignalKey /\ nextWaitKey' = nextWaitKey /\ nextSignalKey \in Nat
  BY DEF SignalInv, SignalsOK
<1>2. \A w \in waits : w.matched < nextSignalKey /\ (w.matched # None <=> w.status = "matched")
  BY DEF SignalInv, WaitsOK
<1>3. \A w \in S : /\ g[w].key = w.key /\ g[w].status # "waiting" /\ g[w].matched < nextSignalKey'
                   /\ g[w].matched # None <=> g[w].status = "matched"
  BY <1>1, <1>2
<1>4. WaitsOK' /\ OutcomeKept /\ \A w \in waits' : w.status = "waiting" => w \in waits /\ w \notin S
  BY <1>1, <1>3, WaitsClosed
<1>5. SignalsOK'
  BY <1>1 DEF SignalInv, SignalsOK
<1>6. NoSignalOverlooked'
  BY <1>1, <1>4 DEF SignalInv, NoSignalOverlooked
<1>7. \A w \in waits' : w.status = "matched" \/ w.matched # None => w \in waits
  BY <1>2
<1>8. EvidenceKept'
  BY <1>1, <1>7 DEF SignalInv, EvidenceKept
<1>9. FanoutBounded'
  <2>1. ASSUME NEW s \in signals PROVE Cardinality({w \in waits' : w.matched = s.key}) <= MaxMatches
    <3> DEFINE A == {w \in waits : w.matched = s.key}
               B == {w \in waits' : w.matched = s.key}
    <3>1. s.key # None
      BY DEF SignalInv, SignalsOK, SignalRecord, None
    <3>2. B \in SUBSET A
      BY <1>7, <3>1
    <3>3. A \in SUBSET waits /\ Cardinality(A) <= MaxMatches
      BY DEF SignalInv, FanoutBounded
    <3> HIDE DEF A, B
    <3>4. IsFiniteSet(A)
      BY <3>3, FS_Subset DEF SignalInv, WaitsOK
    <3>5. Cardinality(B) <= Cardinality(A) /\ Cardinality(B) \in Nat /\ Cardinality(A) \in Nat
      BY <3>2, <3>4, FS_Subset, FS_CardinalityType
    <3>6. Cardinality(B) <= MaxMatches
      BY <3>3, <3>5, Types
    <3>7. QED BY <3>6 DEF B
  <2>2. QED BY <1>1, <2>1 DEF FanoutBounded
<1>10. QED BY <1>4, <1>5, <1>6, <1>8, <1>9 DEF SignalInv

LEMMA WaitFields ==
  ASSUME NEW w \in WaitRecord
  PROVE  /\ w.key \in Nat /\ w.lane \in Lanes \cup {NoLane} /\ w.selector \in Selectors /\ w.revision \in Nat
         /\ w.matched \in Nat /\ w.updatedAt \in Times /\ w.status \in {"waiting", "matched", "cancelled", "expired"}
BY DEF WaitRecord

(* A wait closed by its owner.                                             *)
LEMMA Cancels ==
  ASSUME SignalInv, NEW w \in waits, NEW rev, NEW at \in Times, cancelWait(w, rev, at)
  PROVE  SignalInv' /\ OutcomeKept
<1> DEFINE closed == [w EXCEPT !.status = "cancelled", !.revision = @ + 1, !.updatedAt = laterSignalTimestamp(@, at)]
           g == [v \in {w} |-> closed]
<1>1. w \in WaitRecord /\ w.status = "waiting"
  BY DEF SignalInv, WaitsOK, cancelWait
<1>2. laterSignalTimestamp(w.updatedAt, at) \in Times /\ w.revision + 1 \in Nat
  BY <1>1, WaitFields, Types
<1>3. closed \in WaitRecord /\ closed.key = w.key /\ closed.status = "cancelled" /\ closed.matched = w.matched
  BY <1>1, <1>2 DEF WaitRecord
<1>4. waits' = (waits \ {w}) \cup {closed} /\ UNCHANGED <<signals, nextSignalKey, nextWaitKey>>
  BY DEF cancelWait
<1> HIDE DEF closed
<1>5. g \in [{w} -> WaitRecord] /\ g[w] = closed
  BY <1>3
<1> HIDE DEF g
<1>6. waits' = (waits \ {w}) \cup {g[v] : v \in {w}}
  BY <1>4, <1>5
<1>7. \A v \in {w} : /\ g[v].key = v.key /\ g[v].status \in {"cancelled", "expired"} /\ g[v].matched = v.matched
  BY <1>3, <1>5
<1>8. {w} \in SUBSET waits /\ \A v \in {w} : v.status = "waiting"
  BY <1>1
<1>9. QED BY <1>4, <1>5, <1>6, <1>7, <1>8, ClosedUnmatched

(* Waits closed by the game's clock.                                       *)
LEMMA Expires ==
  ASSUME SignalInv, NEW throughTick, NEW at \in Times, NEW limit, expireWaits(throughTick, at, limit)
  PROVE  SignalInv' /\ OutcomeKept
<1> DEFINE due == {w \in waits : /\ w.status = "waiting" /\ w.selector.throughTick # None
                                 /\ w.selector.throughTick <= throughTick}
           S == FirstOf(due, limit)
           closed(w) == [w EXCEPT !.status = "expired", !.revision = @ + 1, !.updatedAt = laterSignalTimestamp(@, at)]
           g == [w \in S |-> closed(w)]
<1>1. S \in SUBSET waits /\ \A w \in S : w.status = "waiting"
  BY DEF FirstOf
<1>2. waits' = (waits \ S) \cup {closed(w) : w \in S} /\ UNCHANGED <<signals, nextSignalKey, nextWaitKey>>
  BY DEF expireWaits
<1> HIDE DEF S
<1>3. ASSUME NEW w \in S
      PROVE  closed(w) \in WaitRecord /\ closed(w).key = w.key /\ closed(w).status = "expired" /\ closed(w).matched = w.matched
  <2>1. w \in WaitRecord
    BY <1>1 DEF SignalInv, WaitsOK
  <2>2. laterSignalTimestamp(w.updatedAt, at) \in Times /\ w.revision + 1 \in Nat
    BY <2>1, WaitFields, Types
  <2>3. QED BY <2>1, <2>2 DEF WaitRecord
<1> HIDE DEF closed
<1>4. g \in [S -> WaitRecord] /\ \A w \in S : g[w] = closed(w)
  BY <1>3
<1> HIDE DEF g
<1>5. waits' = (waits \ S) \cup {g[w] : w \in S}
  BY <1>2, <1>4
<1>6. \A w \in S : /\ g[w].key = w.key /\ g[w].status \in {"cancelled", "expired"} /\ g[w].matched = w.matched
  BY <1>3, <1>4
<1>7. QED BY <1>1, <1>2, <1>4, <1>5, <1>6, ClosedUnmatched

(* Some waits are purged, once they are terminal.                          *)
LEMMA WaitsPurged ==
  ASSUME SignalInv, NEW before, NEW limit, purgeTerminalWaits(before, limit)
  PROVE  SignalInv' /\ OutcomeKept
<1>1. waits' \subseteq waits /\ signals' = signals /\ nextSignalKey' = nextSignalKey /\ nextWaitKey' = nextWaitKey
  BY DEF purgeTerminalWaits
<1>2. SignalsOK' /\ NoSignalOverlooked' /\ EvidenceKept'
  BY <1>1 DEF SignalInv, SignalsOK, NoSignalOverlooked, EvidenceKept
<1>3. WaitsOK'
  <2>1. IsFiniteSet(waits')
    BY <1>1, FS_Subset DEF SignalInv, WaitsOK
  <2>2. QED BY <1>1, <2>1 DEF SignalInv, WaitsOK
<1>4. OutcomeKept
  BY <1>1 DEF SignalInv, WaitsOK, OutcomeKept
<1>5. FanoutBounded'
  <2>1. ASSUME NEW s \in signals PROVE Cardinality({w \in waits' : w.matched = s.key}) <= MaxMatches
    <3> DEFINE A == {w \in waits : w.matched = s.key}
               B == {w \in waits' : w.matched = s.key}
    <3>1. B \in SUBSET A /\ A \in SUBSET waits /\ Cardinality(A) <= MaxMatches
      BY <1>1 DEF SignalInv, FanoutBounded
    <3> HIDE DEF A, B
    <3>2. IsFiniteSet(A)
      BY <3>1, FS_Subset DEF SignalInv, WaitsOK
    <3>3. Cardinality(B) <= Cardinality(A) /\ Cardinality(B) \in Nat /\ Cardinality(A) \in Nat
      BY <3>1, <3>2, FS_Subset, FS_CardinalityType
    <3>4. Cardinality(B) <= MaxMatches
      BY <3>1, <3>3, Types
    <3>5. QED BY <3>4 DEF B
  <2>2. QED BY <1>1, <2>1 DEF FanoutBounded
<1>6. QED BY <1>2, <1>3, <1>4, <1>5 DEF SignalInv

(* Some signals are purged, unless a wait has one as its match.            *)
LEMMA SignalsPurged ==
  ASSUME SignalInv, NEW before, NEW limit, purgeSignals(before, limit)
  PROVE  SignalInv' /\ OutcomeKept
<1>1. waits' = waits /\ nextSignalKey' = nextSignalKey /\ nextWaitKey' = nextWaitKey
      /\ signals' \subseteq signals /\ \A s \in signals : referenced(s) => s \in signals'
  BY DEF purgeSignals, FirstOf
<1>2. SignalsOK'
  <2>1. IsFiniteSet(signals')
    BY <1>1, FS_Subset DEF SignalInv, SignalsOK
  <2>2. QED BY <1>1, <2>1 DEF SignalInv, SignalsOK
<1>3. WaitsOK' /\ NoSignalOverlooked' /\ FanoutBounded' /\ OutcomeKept
  BY <1>1 DEF SignalInv, WaitsOK, NoSignalOverlooked, FanoutBounded, OutcomeKept
<1>4. EvidenceKept'
  <2>1. ASSUME NEW w \in waits, w.status = "matched"
        PROVE  \E s \in signals' : /\ s.key = w.matched /\ signalWaitMatches(w, s)
                                   /\ \A e \in signals' : signalWaitMatches(w, e) => e.key >= s.key
    <3>1. PICK s \in signals : /\ s.key = w.matched /\ signalWaitMatches(w, s)
                               /\ \A e \in signals : signalWaitMatches(w, e) => e.key >= s.key
      BY <2>1 DEF SignalInv, EvidenceKept
    <3>2. referenced(s)
      BY <3>1 DEF referenced, matchedWaits
    <3>3. QED BY <1>1, <3>1, <3>2
  <2>2. QED BY <1>1, <2>1 DEF EvidenceKept
<1>5. QED BY <1>2, <1>3, <1>4 DEF SignalInv

LEMMA MatchKeepsSelector ==
  ASSUME NEW w \in WaitRecord, NEW s \in SignalRecord, NEW v, v = matchedBy(w, s)
  PROVE  /\ v \in WaitRecord /\ v.key = w.key /\ v.lane = w.lane /\ v.selector = w.selector
         /\ v.status = "matched" /\ v.matched = s.key
<1>1. s.recordedAt \in Times /\ s.key \in Nat
  BY DEF SignalRecord
<1>2. laterSignalTimestamp(w.updatedAt, s.recordedAt) \in Times /\ w.revision + 1 \in Nat
  BY <1>1, WaitFields, Types
<1>3. QED BY <1>1, <1>2 DEF matchedBy, WaitRecord

(* A signal wakes the waits it matches.                                    *)
LEMMA Records ==
  ASSUME SignalInv, NEW id \in SignalIds, NEW lane \in Lanes \cup {NoLane}, NEW kind \in Kinds, NEW tick \in Ticks,
         NEW at \in Times, record(id, lane, kind, tick, at)
  PROVE  SignalInv' /\ OutcomeKept
<1> DEFINE s == [key |-> nextSignalKey, id |-> id, lane |-> lane, kind |-> kind, tick |-> tick, recordedAt |-> at]
<1>1. PICK new : new = s
  OBVIOUS
<1>2. new \in SignalRecord /\ new.key = nextSignalKey /\ nextSignalKey \in Nat /\ nextSignalKey > 0
  BY <1>1 DEF SignalInv, SignalsOK, SignalRecord
<1> DEFINE S == {w \in waits : w.status = "waiting" /\ signalWaitMatches(w, new)}
           g == [w \in S |-> matchedBy(w, new)]
<1>3. /\ Cardinality(S) <= MaxMatches /\ signals' = signals \cup {new} /\ nextSignalKey' = nextSignalKey + 1
      /\ waits' = (waits \ S) \cup {matchedBy(w, new) : w \in S} /\ nextWaitKey' = nextWaitKey
  BY <1>1 DEF record
<1>4. S \in SUBSET waits /\ \A w \in S : w.status = "waiting" /\ signalWaitMatches(w, new)
  OBVIOUS
<1>5. \A w \in waits : w.status = "waiting" /\ signalWaitMatches(w, new) => w \in S
  OBVIOUS
<1> HIDE DEF S, s
<1>6. ASSUME NEW w \in S
      PROVE  /\ matchedBy(w, new) \in WaitRecord /\ matchedBy(w, new).key = w.key /\ matchedBy(w, new).lane = w.lane
             /\ matchedBy(w, new).selector = w.selector
             /\ matchedBy(w, new).status = "matched" /\ matchedBy(w, new).matched = new.key
  <2>1. w \in WaitRecord
    BY <1>4 DEF SignalInv, WaitsOK
  <2>2. PICK m : m = matchedBy(w, new)
    OBVIOUS
  <2>3. QED BY <1>2, <2>1, <2>2, MatchKeepsSelector
<1>7. g \in [S -> WaitRecord] /\ \A w \in S : g[w] = matchedBy(w, new)
  BY <1>6
<1> HIDE DEF g
<1>8. waits' = (waits \ S) \cup {g[w] : w \in S}
  BY <1>3, <1>7
<1>9. \A w \in S : /\ g[w].key = w.key /\ g[w].status # "waiting" /\ g[w].matched < nextSignalKey'
                   /\ g[w].matched # None <=> g[w].status = "matched"
  BY <1>2, <1>3, <1>6, <1>7 DEF None
<1>10. WaitsOK' /\ OutcomeKept /\ \A w \in waits' : w.status = "waiting" => w \in waits /\ w \notin S
  BY <1>2, <1>3, <1>4, <1>7, <1>8, <1>9, WaitsClosed
<1>11. SignalsOK'
  <2>1. \A t \in signals : t.key \in Nat /\ t.key < nextSignalKey
    BY DEF SignalInv, SignalsOK, SignalRecord
  <2>2. IsFiniteSet(signals')
    BY <1>3, FS_AddElement DEF SignalInv, SignalsOK
  <2>3. \A t, u \in signals' : t.key = u.key => t = u
    BY <1>2, <1>3, <2>1 DEF SignalInv, SignalsOK
  <2>4. \A t \in signals' : 0 < t.key /\ t.key < nextSignalKey'
    BY <1>2, <1>3, <2>1 DEF SignalInv, SignalsOK
  <2>5. QED BY <1>2, <1>3, <2>2, <2>3, <2>4 DEF SignalInv, SignalsOK
<1>12. NoSignalOverlooked'
  BY <1>3, <1>5, <1>10 DEF SignalInv, NoSignalOverlooked
<1>13. \A w \in waits' : (w \in waits /\ w \notin S) \/ \E v \in S : w = g[v]
  BY <1>8
<1>14. EvidenceKept'
  <2>1. ASSUME NEW w \in waits, w.status = "matched"
        PROVE  \E t \in signals' : /\ t.key = w.matched /\ signalWaitMatches(w, t)
                                   /\ \A e \in signals' : signalWaitMatches(w, e) => e.key >= t.key
    <3>1. PICK t \in signals : /\ t.key = w.matched /\ signalWaitMatches(w, t)
                               /\ \A e \in signals : signalWaitMatches(w, e) => e.key >= t.key
      BY <2>1 DEF SignalInv, EvidenceKept
    <3>2. t.key \in Nat /\ new.key >= t.key
      BY <1>2 DEF SignalInv, SignalsOK, SignalRecord
    <3>3. QED BY <1>3, <3>1, <3>2
  <2>2. ASSUME NEW v \in S
        PROVE  \E t \in signals' : /\ t.key = g[v].matched /\ signalWaitMatches(g[v], t)
                                   /\ \A e \in signals' : signalWaitMatches(g[v], e) => e.key >= t.key
    <3>1. \A e : signalWaitMatches(g[v], e) <=> signalWaitMatches(v, e)
      BY <1>6, <1>7 DEF signalWaitMatches
    <3>2. \A e \in signals : ~signalWaitMatches(v, e)
      BY <1>4 DEF SignalInv, NoSignalOverlooked
    <3>3. new \in signals' /\ new.key = g[v].matched /\ new.key >= new.key
      BY <1>2, <1>3, <1>6, <1>7
    <3>4. \A e \in signals' : signalWaitMatches(g[v], e) => e = new
      BY <1>3, <3>1, <3>2
    <3>5. signalWaitMatches(g[v], new)
      BY <1>4, <3>1
    <3>6. QED BY <3>3, <3>4, <3>5
  <2>3. QED BY <1>13, <2>1, <2>2 DEF EvidenceKept
<1>15. FanoutBounded'
  <2>1. IsFiniteSet(waits) /\ IsFiniteSet(S) /\ Cardinality(S) \in Nat /\ MaxMatches \in Nat
    BY <1>4, Types, FS_Subset, FS_CardinalityType DEF SignalInv, WaitsOK
  <2>2. \A w \in waits : w.matched \in Nat /\ w.matched < nextSignalKey
    BY DEF SignalInv, WaitsOK, WaitRecord
  <2>3. ASSUME NEW t \in signals PROVE Cardinality({w \in waits' : w.matched = t.key}) <= MaxMatches
    <3> DEFINE A == {w \in waits : w.matched = t.key}
               B == {w \in waits' : w.matched = t.key}
    <3>1. t.key # new.key
      BY <1>2 DEF SignalInv, SignalsOK, SignalRecord
    <3>2. B \in SUBSET A
      BY <1>6, <1>7, <1>13, <3>1
    <3>3. A \in SUBSET waits /\ Cardinality(A) <= MaxMatches
      BY DEF SignalInv, FanoutBounded
    <3> HIDE DEF A, B
    <3>4. IsFiniteSet(A)
      BY <2>1, <3>3, FS_Subset
    <3>5. Cardinality(B) <= Cardinality(A) /\ Cardinality(B) \in Nat /\ Cardinality(A) \in Nat
      BY <3>2, <3>4, FS_Subset, FS_CardinalityType
    <3>6. Cardinality(B) <= MaxMatches
      BY <2>1, <3>3, <3>5
    <3>7. QED BY <3>6 DEF B
  <2>4. Cardinality({w \in waits' : w.matched = new.key}) <= MaxMatches
    <3> DEFINE B == {w \in waits' : w.matched = new.key}
    <3>1. \A w : w \in B <=> \E v \in S : w = g[v]
      <4>1. \A v \in S : g[v] \in waits' /\ g[v].matched = new.key
        BY <1>6, <1>7, <1>8
      <4>2. \A w \in waits : w.matched # new.key
        BY <1>2, <2>2
      <4>3. QED BY <1>13, <4>1, <4>2
    <3> HIDE DEF B
    <3>2. IsFiniteSet(B) /\ Cardinality(B) <= Cardinality(S)
      BY <1>7, <2>1, <3>1, ImageBounded
    <3>3. Cardinality(B) <= MaxMatches
      BY <1>3, <2>1, <3>2, FS_CardinalityType
    <3>4. QED BY <3>3 DEF B
  <2>5. QED BY <1>3, <2>3, <2>4 DEF FanoutBounded
<1>16. QED BY <1>10, <1>11, <1>12, <1>14, <1>15 DEF SignalInv

(* A wait is matched at once by the first signal on record that it accepts. *)
LEMMA Registers ==
  ASSUME SignalInv, NEW id \in WaitIds, NEW lane \in Lanes \cup {NoLane}, NEW selector \in Selectors,
         NEW at \in Times, registerWait(id, lane, selector, at)
  PROVE  SignalInv' /\ OutcomeKept
<1> DEFINE w0 == [key |-> nextWaitKey, id |-> id, lane |-> lane, selector |-> selector, status |-> "waiting",
                  revision |-> 1, matched |-> None, updatedAt |-> at]
<1>1. PICK w : w = w0
  OBVIOUS
<1>2. /\ w \in WaitRecord /\ w.key = nextWaitKey /\ w.status = "waiting" /\ w.matched = None
      /\ nextWaitKey \in Nat /\ nextWaitKey > 0 /\ nextSignalKey \in Nat /\ nextSignalKey > 0
  BY <1>1, Types DEF SignalInv, WaitsOK, SignalsOK, WaitRecord
<1> DEFINE M == matchingSignals(w)
           first == FirstOf(M, 1)
<1>3. /\ \A s \in first : hasRoom(s)
      /\ waits' = waits \cup (IF first = {} THEN {w} ELSE {[matchedBy(w, s) EXCEPT !.revision = 1] : s \in first})
      /\ nextWaitKey' = nextWaitKey + 1 /\ signals' = signals /\ nextSignalKey' = nextSignalKey
  BY <1>1 DEF registerWait
<1> HIDE DEF w0
<1>4. M \in SUBSET signals /\ \A s \in signals : s \in M <=> signalWaitMatches(w, s)
  BY DEF matchingSignals
<1> HIDE DEF M
<1>5. /\ IsFiniteSet(M) /\ \A s \in M : s.key \in Nat
      /\ \A s, t \in M : s.key = t.key => s = t
  BY <1>4, FS_Subset DEF SignalInv, SignalsOK, SignalRecord
<1>6. /\ first \subseteq M /\ \A s \in first, t \in M : s.key <= t.key
      /\ M # {} => \E s \in M : first = {s}
  BY <1>5, FirstIsLeast
<1> HIDE DEF first
(* What is added, and what it is matched by.                               *)
<1>7. PICK v \in WaitRecord :
        /\ waits' = waits \cup {v} /\ v.key = w.key
        /\ \/ v = w /\ M = {}
           \/ /\ v.status = "matched" /\ v.lane = w.lane /\ v.selector = w.selector
              /\ \E s \in M : v.matched = s.key /\ hasRoom(s) /\ \A t \in M : s.key <= t.key
  <2>1. CASE M = {}
    BY <1>2, <1>3, <1>6, <2>1
  <2>2. CASE M # {}
    <3>1. PICK s \in M : first = {s}
      BY <1>6, <2>2
    <3>2. PICK v : v = [matchedBy(w, s) EXCEPT !.revision = 1]
      OBVIOUS
    <3>3. s \in SignalRecord
      BY <1>4 DEF SignalInv, SignalsOK
    <3>4. /\ v \in WaitRecord /\ v.key = w.key /\ v.lane = w.lane /\ v.selector = w.selector
          /\ v.status = "matched" /\ v.matched = s.key
      <4>1. PICK m : m = matchedBy(w, s)
        OBVIOUS
      <4>2. /\ m \in WaitRecord /\ m.key = w.key /\ m.lane = w.lane /\ m.selector = w.selector
            /\ m.status = "matched" /\ m.matched = s.key
        BY <1>2, <3>3, <4>1, MatchKeepsSelector
      <4>3. v = [m EXCEPT !.revision = 1]
        BY <3>2, <4>1
      <4>4. QED BY <4>2, <4>3 DEF WaitRecord
    <3>5. waits' = waits \cup {v}
      <4>1. {[matchedBy(w, t) EXCEPT !.revision = 1] : t \in first} = {v}
        BY <3>1, <3>2
      <4>2. first # {}
        BY <3>1
      <4>3. QED BY <1>3, <4>1, <4>2
    <3>6. hasRoom(s) /\ \A t \in M : s.key <= t.key
      BY <1>3, <1>6, <3>1
    <3>7. QED BY <3>4, <3>5, <3>6
  <2>3. QED BY <2>1, <2>2
<1>8. \A x \in waits : x.key \in Nat /\ x.matched \in Nat /\ x.key < nextWaitKey /\ x.key # v.key
  BY <1>2, <1>7 DEF SignalInv, WaitsOK, WaitRecord
<1>9. v.matched < nextSignalKey /\ (v.matched # None <=> v.status = "matched")
  BY <1>2, <1>4, <1>7 DEF SignalInv, SignalsOK, None
<1>10. WaitsOK'
  <2>1. IsFiniteSet(waits')
    BY <1>7, FS_AddElement DEF SignalInv, WaitsOK
  <2>2. waits' \subseteq WaitRecord /\ nextWaitKey' \in Nat \ {0}
    BY <1>2, <1>3, <1>7 DEF SignalInv, WaitsOK
  <2>3. \A x, y \in waits' : x.key = y.key => x = y
    BY <1>7, <1>8 DEF SignalInv, WaitsOK
  <2>4. \A x \in waits' : /\ x.key < nextWaitKey' /\ x.matched < nextSignalKey'
                          /\ x.matched # None <=> x.status = "matched"
    <3>1. ASSUME NEW x \in waits
          PROVE  /\ x.key < nextWaitKey' /\ x.matched < nextSignalKey'
                 /\ x.matched # None <=> x.status = "matched"
      BY <1>2, <1>3, <1>8 DEF SignalInv, WaitsOK
    <3>2. v.key < nextWaitKey'
      BY <1>2, <1>3, <1>7
    <3>3. QED BY <1>3, <1>7, <1>9, <3>1, <3>2
  <2>5. QED BY <2>1, <2>2, <2>3, <2>4 DEF WaitsOK
<1>11. SignalsOK' /\ OutcomeKept
  BY <1>3, <1>7 DEF SignalInv, SignalsOK, OutcomeKept
<1>12. NoSignalOverlooked'
  <2>1. v.status = "waiting" => \A s \in signals : ~signalWaitMatches(v, s)
    BY <1>4, <1>7
  <2>2. QED BY <1>3, <1>7, <2>1 DEF SignalInv, NoSignalOverlooked
<1>13. EvidenceKept'
  <2>1. ASSUME v.status = "matched"
        PROVE  \E s \in signals : /\ s.key = v.matched /\ signalWaitMatches(v, s)
                                  /\ \A e \in signals : signalWaitMatches(v, e) => e.key >= s.key
    <3>1. PICK s \in M : v.matched = s.key /\ \A t \in M : s.key <= t.key
      BY <1>2, <1>7, <2>1
    <3>2. \A e : signalWaitMatches(v, e) <=> signalWaitMatches(w, e)
      BY <1>2, <1>7, <2>1 DEF signalWaitMatches
    <3>3. \A t \in M : t.key >= s.key
      BY <1>5, <3>1
    <3>4. QED BY <1>4, <3>1, <3>2, <3>3
  <2>2. QED BY <1>3, <1>7, <2>1 DEF SignalInv, EvidenceKept
<1>14. FanoutBounded'
  <2>1. ASSUME NEW s \in signals PROVE Cardinality({x \in waits' : x.matched = s.key}) <= MaxMatches
    <3> DEFINE A == {x \in waits : x.matched = s.key}
               B == {x \in waits' : x.matched = s.key}
    <3>1. A \in SUBSET waits /\ Cardinality(A) <= MaxMatches
      BY DEF SignalInv, FanoutBounded
    <3>2. s.key \in Nat /\ s.key # None
      BY DEF SignalInv, SignalsOK, SignalRecord, None
    <3>3. CASE v.matched = s.key
      <4>1. B = A \cup {v}
        BY <1>7, <3>3
      <4>2. Cardinality(A) < MaxMatches
        <5>1. PICK t \in M : v.matched = t.key /\ hasRoom(t)
          BY <1>2, <1>7, <3>2, <3>3
        <5>2. t = s
          BY <1>4, <3>3, <5>1 DEF SignalInv, SignalsOK
        <5>3. QED BY <5>1, <5>2 DEF hasRoom, matchedWaits
      <4> HIDE DEF A, B
      <4>3. IsFiniteSet(A)
        BY <3>1, FS_Subset DEF SignalInv, WaitsOK
      <4>4. Cardinality(A) \in Nat /\ Cardinality(B) <= Cardinality(A) + 1
        <5>1. Cardinality(A) \in Nat
          BY <4>3, FS_CardinalityType
        <5>2. Cardinality(B) = Cardinality(A) \/ Cardinality(B) = Cardinality(A) + 1
          BY <4>1, <4>3, FS_AddElement
        <5>3. QED BY <5>1, <5>2
      <4>5. IsFiniteSet(B) /\ Cardinality(B) \in Nat
        BY <4>1, <4>3, FS_AddElement, FS_CardinalityType
      <4>6. Cardinality(B) <= MaxMatches
        BY <4>2, <4>4, <4>5, Types
      <4>7. QED BY <4>6 DEF B
    <3>4. CASE v.matched # s.key
      <4>1. B = A
        BY <1>7, <3>4
      <4>2. QED BY <3>1, <4>1
    <3>5. QED BY <3>3, <3>4
  <2>2. QED BY <1>3, <2>1 DEF FanoutBounded
<1>15. QED BY <1>10, <1>11, <1>12, <1>13, <1>14 DEF SignalInv

LEMMA InvAtStart == SignalInit => SignalInv
<1>1. IsFiniteSet({})
  BY FS_EmptySet
<1>2. QED BY <1>1 DEF SignalInit, SignalInv, SignalsOK, WaitsOK, NoSignalOverlooked, EvidenceKept, FanoutBounded

LEMMA InvKept == SignalInv /\ [SignalNext]_signalVars => SignalInv' /\ [OutcomeKept]_signalVars
<1> SUFFICES ASSUME SignalInv, [SignalNext]_signalVars PROVE SignalInv' /\ [OutcomeKept]_signalVars
  OBVIOUS
<1>1. CASE UNCHANGED signalVars
  <2>1. signals' = signals /\ waits' = waits /\ nextSignalKey' = nextSignalKey /\ nextWaitKey' = nextWaitKey
    BY <1>1 DEF signalVars
  <2>2. SignalInv'
    BY <2>1 DEF SignalInv, SignalsOK, WaitsOK, NoSignalOverlooked, EvidenceKept, FanoutBounded
  <2>3. QED BY <1>1, <2>2
<1>2. ASSUME NEW id \in SignalIds, NEW lane \in Lanes \cup {NoLane}, NEW kind \in Kinds, NEW tick \in Ticks,
             NEW at \in Times, record(id, lane, kind, tick, at)
      PROVE  SignalInv' /\ OutcomeKept
  BY <1>2, Records
<1>3. ASSUME NEW id \in WaitIds, NEW lane \in Lanes \cup {NoLane}, NEW sel \in Selectors, NEW at \in Times,
             registerWait(id, lane, sel, at)
      PROVE  SignalInv' /\ OutcomeKept
  BY <1>3, Registers
<1>4. ASSUME NEW w \in waits, NEW rev \in 1 .. 2, NEW at \in Times, cancelWait(w, rev, at)
      PROVE  SignalInv' /\ OutcomeKept
  BY <1>4, Cancels
<1>5. ASSUME NEW tick \in Ticks, NEW at \in Times, NEW n \in 1 .. MaxBatch, expireWaits(tick, at, n)
      PROVE  SignalInv' /\ OutcomeKept
  BY <1>5, Expires
<1>6. ASSUME NEW t \in Times, NEW n \in 1 .. MaxBatch, purgeTerminalWaits(t, n) \/ purgeSignals(t, n)
      PROVE  SignalInv' /\ OutcomeKept
  BY <1>6, WaitsPurged, SignalsPurged
<1>7. QED BY <1>1, <1>2, <1>3, <1>4, <1>5, <1>6 DEF SignalNext

(* For any number of signals and waits, any selectors and any bounds: no   *)
(* signal on record is overlooked by a wait, whichever came first          *)
(* (InMemorySignalStore.record and registerWait), a matched wait keeps the *)
(* first signal it accepts as its evidence through every purge, and no     *)
(* signal wakes more waits than maxWaitMatchesPerSignal.                   *)
THEOREM NoneOverlooked == SignalSpec => [](NoSignalOverlooked /\ EvidenceKept /\ FanoutBounded)
<1>1. SignalInv => NoSignalOverlooked /\ EvidenceKept /\ FanoutBounded
  BY DEF SignalInv
<1>2. QED BY <1>1, InvAtStart, InvKept, PTL DEF SignalSpec

(* And the outcome of a wait is final: nothing but a purge changes a wait  *)
(* that was matched, cancelled or expired.                                 *)
THEOREM OutcomesFinal == SignalSpec => OutcomeFinal
<1>1. OutcomeKept <=> \A w \in waits : w.status # "waiting" => w \in waits' \/ \A v \in waits' : v.key # w.key
  BY DEF OutcomeKept
<1>2. QED BY <1>1, InvAtStart, InvKept, PTL DEF SignalSpec, OutcomeFinal
=============================================================================
