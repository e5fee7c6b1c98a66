-------------------------- MODULE SqliteSignalStore --------------------------
(***************************************************************************)
(* The durable signal store of storage-sqlite.  Every operation is one     *)
(* immediate transaction: a signal is inserted first and then looked for   *)
(* among the waits by a query, a wait is inserted waiting and then updated *)
(* by the first signal a second query finds.  Shown to implement           *)
(* SignalStore, whose one matching function both queries stand for.        *)
(***************************************************************************)
EXTENDS Integers, FiniteSets, FiniteSetTheorems, TLAPS

CONSTANTS
  Lanes, NoLane, SignalIds, WaitIds, Kinds, Selectors,
  MaxTick, MaxTime, MaxSignalKey, MaxWaitKey, MaxMatches, MaxBatch,
  NULL

VARIABLES
  signalRows,                    \* oga_game_signals
  waitRows,                      \* oga_signal_waits and its kinds
  signalSequence, waitSequence   \* AUTOINCREMENT values

vars == <<signalRows, waitRows, signalSequence, waitSequence>>

Times == 0 .. MaxTime
Ticks == 1 .. MaxTick

-----------------------------------------------------------------------------
OrNull(v) == IF v = 0 THEN NULL ELSE v
OrZero(v) == IF v = NULL THEN 0 ELSE v
latest(s, t) == IF s < t THEN t ELSE s
waitsByKey(R, n) == {w \in R : Cardinality({e \in R : e.wait_key < w.wait_key}) < n}
signalsByKey(R, n) == {s \in R : Cardinality({e \in R : e.signal_key < s.signal_key}) < n}

\* The waiting rows a signal row wakes.
findMatchingWaitRows(s) ==
  {w \in waitRows :
     /\ w.status = "waiting"
     /\ w.lane = NoLane \/ w.lane = s.lane
     /\ w.after_signal_key = NULL \/ w.after_signal_key < s.signal_key
     /\ w.after_tick = NULL \/ w.after_tick < s.signal_tick
     /\ w.through_tick = NULL \/ w.through_tick >= s.signal_tick
     /\ s.kind \in w.kinds}

\* The earliest signal row a new wait row accepts.
findFirstMatchingSignalRow(w) ==
  signalsByKey({s \in signalRows :
     /\ w.lane = NoLane \/ s.lane = w.lane
     /\ w.after_signal_key = NULL \/ s.signal_key > w.after_signal_key
     /\ w.after_tick = NULL \/ s.signal_tick > w.after_tick
     /\ w.through_tick = NULL \/ s.signal_tick <= w.through_tick
     /\ s.kind \in w.kinds}, 1)

countMatchedWaits(k) == Cardinality({w \in waitRows : w.matched_signal_key = k})

Init == signalRows = {} /\ waitRows = {} /\ signalSequence = 0 /\ waitSequence = 0

matchedRow(w, s) ==
  [w EXCEPT !.status = "matched", !.matched_signal_key = s.signal_key, !.revision = @ + 1,
            !.updated_at = latest(@, s.recorded_at)]

recordRow(id, lane, kind, tick, at) ==
  LET s == [signal_key |-> signalSequence + 1, signal_id |-> id, lane |-> lane, kind |-> kind,
            signal_tick |-> tick, recorded_at |-> at]
      matches == findMatchingWaitRows(s)
  IN  /\ ~ \E r \in signalRows : r.signal_id = id
      /\ signalSequence < MaxSignalKey
      /\ Cardinality(matches) <= MaxMatches
      /\ signalRows' = signalRows \cup {s}
      /\ signalSequence' = signalSequence + 1
      /\ waitRows' = (waitRows \ matches) \cup
           {matchedRow(w, s) : w \in matches}
      /\ UNCHANGED waitSequence

registerWaitRow(id, lane, sel, at) ==
  LET w == [wait_key |-> waitSequence + 1, wait_id |-> id, lane |-> lane, kinds |-> sel.kinds,
            after_signal_key |-> OrNull(sel.afterKey), after_tick |-> OrNull(sel.afterTick),
            through_tick |-> OrNull(sel.throughTick), status |-> "waiting", revision |-> 1,
            matched_signal_key |-> NULL, created_at |-> at, updated_at |-> at]
      first == findFirstMatchingSignalRow(w)
  IN  /\ ~ \E v \in waitRows : v.wait_id = id
      /\ waitSequence < MaxWaitKey
      /\ \A s \in first : countMatchedWaits(s.signal_key) < MaxMatches
      /\ waitRows' = waitRows \cup
           IF first = {} THEN {w}
           ELSE {[matchedRow(w, s) EXCEPT !.revision = 1] : s \in first}
      /\ waitSequence' = waitSequence + 1
      /\ UNCHANGED <<signalRows, signalSequence>>

closedRow(w, status, at) ==
  [w EXCEPT !.status = status, !.revision = @ + 1, !.updated_at = latest(@, at)]

cancelWaitRow(w, expectedRevision, at) ==
  /\ w.revision = expectedRevision /\ w.status = "waiting"
  /\ waitRows' = (waitRows \ {w}) \cup {closedRow(w, "cancelled", at)}
  /\ UNCHANGED <<signalRows, signalSequence, waitSequence>>

expireWaitRows(throughTick, at, limit) ==
  LET selected == waitsByKey({w \in waitRows : /\ w.status = "waiting" /\ w.through_tick # NULL
                                               /\ w.through_tick <= throughTick}, limit)
  IN  /\ selected # {}
      /\ waitRows' = (waitRows \ selected) \cup {closedRow(w, "expired", at) : w \in selected}
      /\ UNCHANGED <<signalRows, signalSequence, waitSequence>>

purgeWaitRows(before, limit) ==
  LET selected == waitsByKey({w \in waitRows : w.status # "waiting" /\ w.updated_at < before}, limit)
  IN  /\ selected # {}
      /\ waitRows' = waitRows \ selected
      /\ UNCHANGED <<signalRows, signalSequence, waitSequence>>

purgeSignalRows(before, limit) ==
  LET selected == signalsByKey({s \in signalRows : s.recorded_at < before /\ countMatchedWaits(s.signal_key) = 0}, limit)
  IN  /\ selected # {}
      /\ signalRows' = signalRows \ selected
      /\ UNCHANGED <<waitRows, signalSequence, waitSequence>>

Next ==
  \/ \E id \in SignalIds, lane \in Lanes \cup {NoLane}, kind \in Kinds, tick \in Ticks, at \in Times :
       recordRow(id, lane, kind, tick, at)
  \/ \E id \in WaitIds, lane \in Lanes \cup {NoLane}, sel \in Selectors, at \in Times :
       registerWaitRow(id, lane, sel, at)
  \/ \E w \in waitRows, rev \in 1 .. 2, at \in Times : cancelWaitRow(w, rev, at)
  \/ \E tick \in Ticks, at \in Times, n \in 1 .. MaxBatch : expireWaitRows(tick, at, n)
  \/ \E t \in Times, n \in 1 .. MaxBatch : purgeWaitRows(t, n) \/ purgeSignalRows(t, n)

Spec == Init /\ [][Next]_vars

-----------------------------------------------------------------------------
\* What hydrateWait demands of a row and of the signal it was matched by.
hydrateWait(w) ==
  /\ w.updated_at >= w.created_at
  /\ (w.status = "matched") = (w.matched_signal_key # NULL)
  /\ w.status = "matched" =>
       \E s \in signalRows : /\ s.signal_key = w.matched_signal_key
                             /\ w.lane \in {NoLane, s.lane}
                             /\ s.kind \in w.kinds
                             /\ s.signal_key > OrZero(w.after_signal_key)
                             /\ s.signal_tick > OrZero(w.after_tick)
                             /\ w.through_tick # NULL => s.signal_tick <= w.through_tick

(* Every wait row can be loaded again, with the signal it was matched by.  *)
(* record and expireWaits load every row they find, so one bad row would   *)
(* refuse every further signal of its kind.                                *)
WaitsHydrate == \A w \in waitRows : hydrateWait(w)

\* The signal and the wait a row stands for.
signalOf(s) ==
  [key |-> s.signal_key, id |-> s.signal_id, lane |-> s.lane, kind |-> s.kind,
   tick |-> s.signal_tick, recordedAt |-> s.recorded_at]
waitOf(w) ==
  [key |-> w.wait_key, id |-> w.wait_id, lane |-> w.lane,
   selector |-> [kinds |-> w.kinds, afterKey |-> OrZero(w.after_signal_key),
                 afterTick |-> OrZero(w.after_tick), throughTick |-> OrZero(w.through_tick)],
   status |-> w.status, revision |-> w.revision, matched |-> OrZero(w.matched_signal_key),
   updatedAt |-> w.updated_at]

StoredSignals == {signalOf(s) : s \in signalRows}
StoredWaits == {waitOf(w) : w \in waitRows}

Store == INSTANCE SignalStore WITH
  signals <- StoredSignals, waits <- StoredWaits,
  nextSignalKey <- signalSequence + 1, nextWaitKey <- waitSequence + 1

(* The durable store does nothing the in-memory store could not do: its    *)
(* two matching queries agree with the one matching function, and with     *)
(* each other, on every bound of a selector.                               *)
ImplementsSignalStore == Store!SignalSpec

-----------------------------------------------------------------------------
(* The rows: what the columns hold, NULL where a bound is absent, and keys *)
(* that name a row.                                                        *)
TableParameters ==
  /\ {MaxTick, MaxTime, MaxSignalKey, MaxWaitKey, MaxMatches, MaxBatch} \subseteq Nat
  /\ Selectors \subseteq [kinds : SUBSET Kinds, afterKey : Nat, afterTick : Nat, throughTick : Nat]
  /\ NULL \notin Nat

Positive == Nat \ {0}
SignalRow ==
  [signal_key : Positive, signal_id : SignalIds, lane : Lanes \cup {NoLane}, kind : Kinds,
   signal_tick : Ticks, recorded_at : Times]
WaitRow ==
  [wait_key : Positive, wait_id : WaitIds, lane : Lanes \cup {NoLane}, kinds : SUBSET Kinds,
   after_signal_key : Positive \cup {NULL}, after_tick : Positive \cup {NULL},
   through_tick : Positive \cup {NULL}, status : {"waiting", "matched", "cancelled", "expired"},
   revision : Nat, matched_signal_key : Positive \cup {NULL}, created_at : Times, updated_at : Times]

WaitRowOK(w) ==
  w \in WaitRow /\ w.created_at <= w.updated_at /\ (w.status = "matched" <=> w.matched_signal_key # NULL)

SignalRowsOK ==
  /\ signalRows \subseteq SignalRow /\ IsFiniteSet(signalRows) /\ signalSequence \in Nat
  /\ \A s \in signalRows : s.signal_key <= signalSequence
  /\ \A s, t \in signalRows : s.signal_key = t.signal_key => s = t

WaitRowsOK ==
  /\ IsFiniteSet(waitRows) /\ waitSequence \in Nat
  /\ \A w \in waitRows : WaitRowOK(w) /\ w.wait_key <= waitSequence
  /\ \A w, v \in waitRows : w.wait_key = v.wait_key => w = v

RowsInv == SignalRowsOK /\ WaitRowsOK

(* The two instances of the standard module agree.                         *)
LEMMA StoreCardinality == ASSUME NEW S PROVE Store!Cardinality(S) = Cardinality(S)
BY DEF Store!Cardinality, Cardinality

(* Images under an injective function: as many as the elements.            *)
LEMMA ImageCounted ==
  ASSUME NEW S, IsFiniteSet(S), NEW g, DOMAIN g = S, \A x, y \in S : g[x] = g[y] => x = y, NEW X,
         \A y : y \in X <=> \E x \in S : y = g[x], g = [x \in S |-> g[x]]
  PROVE  IsFiniteSet(X) /\ Cardinality(X) = Cardinality(S)
<1>1. g \in [S -> X]
  OBVIOUS
<1>2. g \in Bijection(S, X)
  BY <1>1 DEF Bijection, Injection, IsInjective, Surjection
<1>3. ExistsBijection(S, X)
  BY <1>2 DEF ExistsBijection
<1>4. QED BY <1>3, FS_Bijection

LEMMA SignalFields ==
  ASSUME NEW s \in SignalRow
  PROVE  /\ signalOf(s).key = s.signal_key /\ signalOf(s).id = s.signal_id /\ signalOf(s).lane = s.lane
         /\ signalOf(s).kind = s.kind /\ signalOf(s).tick = s.signal_tick
         /\ signalOf(s).recordedAt = s.recorded_at
         /\ s.signal_key \in Positive /\ s.signal_tick \in Ticks /\ s.recorded_at \in Times
BY DEF signalOf, SignalRow

LEMMA WaitFields ==
  ASSUME NEW w \in WaitRow
  PROVE  /\ waitOf(w).key = w.wait_key /\ waitOf(w).id = w.wait_id /\ waitOf(w).lane = w.lane
         /\ waitOf(w).selector.kinds = w.kinds /\ waitOf(w).selector.afterKey = OrZero(w.after_signal_key)
         /\ waitOf(w).selector.afterTick = OrZero(w.after_tick)
         /\ waitOf(w).selector.throughTick = OrZero(w.through_tick)
         /\ waitOf(w).status = w.status /\ waitOf(w).revision = w.revision
         /\ waitOf(w).matched = OrZero(w.matched_signal_key) /\ waitOf(w).updatedAt = w.updated_at
         /\ w.wait_key \in Positive /\ w.revision \in Nat /\ w.updated_at \in Times
         /\ w.after_signal_key \in Positive \cup {NULL} /\ w.after_tick \in Positive \cup {NULL}
         /\ w.through_tick \in Positive \cup {NULL} /\ w.matched_signal_key \in Positive \cup {NULL}
BY DEF waitOf, WaitRow

(* Both queries look for what signalWaitMatches accepts.                   *)
Accepted(w, s) ==
  /\ w.lane = NoLane \/ w.lane = s.lane
  /\ w.after_signal_key = NULL \/ w.after_signal_key < s.signal_key
  /\ w.after_tick = NULL \/ w.after_tick < s.signal_tick
  /\ w.through_tick = NULL \/ w.through_tick >= s.signal_tick
  /\ s.kind \in w.kinds

LEMMA MatchingAgrees ==
  ASSUME TableParameters, NEW w \in WaitRow, NEW s \in SignalRow
  PROVE  Accepted(w, s) <=> Store!signalWaitMatches(waitOf(w), signalOf(s))
<1>1. s.signal_key \in Nat /\ s.signal_key > 0 /\ s.signal_tick \in Nat /\ s.signal_tick > 0
  BY SignalFields DEF TableParameters, Positive, Ticks
<1>2. (w.after_signal_key = NULL \/ w.after_signal_key < s.signal_key) <=> s.signal_key > OrZero(w.after_signal_key)
  BY <1>1, WaitFields DEF OrZero, TableParameters, Positive
<1>3. (w.after_tick = NULL \/ w.after_tick < s.signal_tick) <=> s.signal_tick > OrZero(w.after_tick)
  BY <1>1, WaitFields DEF OrZero, TableParameters, Positive
<1>4. (w.through_tick = NULL \/ w.through_tick >= s.signal_tick)
        <=> (OrZero(w.through_tick) # 0 => s.signal_tick <= OrZero(w.through_tick))
  BY <1>1, WaitFields DEF OrZero, TableParameters, Positive
<1>5. Store!signalWaitMatches(waitOf(w), signalOf(s)) <=>
        /\ w.lane = NoLane \/ w.lane = s.lane
        /\ s.kind \in w.kinds
        /\ s.signal_key > OrZero(w.after_signal_key)
        /\ s.signal_tick > OrZero(w.after_tick)
        /\ OrZero(w.through_tick) # 0 => s.signal_tick <= OrZero(w.through_tick)
  <2>1. (waitOf(w).lane \in {NoLane, signalOf(s).lane}) <=> (w.lane = NoLane \/ w.lane = s.lane)
    BY WaitFields, SignalFields
  <2>2. QED BY <2>1, WaitFields, SignalFields DEF Store!signalWaitMatches, Store!None
<1>6. QED BY <1>2, <1>3, <1>4, <1>5 DEF Accepted

(* Rows are told apart by what they stand for.                             *)
LEMMA RowsApart ==
  ASSUME RowsInv
  PROVE  /\ \A s, t \in signalRows : signalOf(s) = signalOf(t) => s = t
         /\ \A w, v \in waitRows : waitOf(w) = waitOf(v) => w = v
<1>1. \A s, t \in signalRows : signalOf(s) = signalOf(t) => s.signal_key = t.signal_key
  BY SignalFields DEF RowsInv, SignalRowsOK, WaitRowsOK, WaitRowOK
<1>2. \A w, v \in waitRows : waitOf(w) = waitOf(v) => w.wait_key = v.wait_key
  BY WaitFields DEF RowsInv, SignalRowsOK, WaitRowsOK, WaitRowOK
<1>3. QED BY <1>1, <1>2 DEF RowsInv, SignalRowsOK, WaitRowsOK, WaitRowOK

(* The first rows of a selection stand for the first of what they stand for. *)
LEMMA FirstSignals ==
  ASSUME RowsInv, NEW R \in SUBSET signalRows, NEW n, NEW X, \A y : y \in X <=> \E s \in R : y = signalOf(s)
  PROVE  \A y : y \in Store!FirstOf(X, n) <=> \E s \in signalsByKey(R, n) : y = signalOf(s)
<1>1. ASSUME NEW s \in R
      PROVE  Cardinality({e \in X : Store!compareKeys(e, signalOf(s))}) = Cardinality({e \in R : e.signal_key < s.signal_key})
  <2> DEFINE A == {e \in R : e.signal_key < s.signal_key}
             B == {e \in X : Store!compareKeys(e, signalOf(s))}
             g == [e \in A |-> signalOf(e)]
  <2>1. A \in SUBSET signalRows
    OBVIOUS
  <2>2. IsFiniteSet(A)
    BY <2>1, FS_Subset DEF RowsInv, SignalRowsOK, WaitRowsOK, WaitRowOK
  <2>3. \A e \in R : Store!compareKeys(signalOf(e), signalOf(s)) <=> e.signal_key < s.signal_key
    BY SignalFields DEF Store!compareKeys, RowsInv, SignalRowsOK, WaitRowsOK, WaitRowOK
  <2>4. \A y : y \in B <=> \E e \in A : y = signalOf(e)
    BY <2>3
  <2> HIDE DEF A, B
  <2>5. DOMAIN g = A /\ g = [e \in A |-> g[e]] /\ \A e \in A : g[e] = signalOf(e)
    OBVIOUS
  <2> HIDE DEF g
  <2>6. \A x, y \in A : g[x] = g[y] => x = y
    BY <2>1, <2>5, RowsApart
  <2>7. \A y : y \in B <=> \E e \in A : y = g[e]
    BY <2>4, <2>5
  <2>8. Cardinality(B) = Cardinality(A)
    BY <2>2, <2>5, <2>6, <2>7, ImageCounted
  <2>9. QED BY <2>8 DEF A, B
<1>2. ASSUME NEW s \in R
      PROVE  signalOf(s) \in Store!FirstOf(X, n) <=> s \in signalsByKey(R, n)
  <2>1. signalOf(s) \in Store!FirstOf(X, n)
          <=> signalOf(s) \in X /\ Cardinality({e \in X : Store!compareKeys(e, signalOf(s))}) < n
    BY StoreCardinality DEF Store!FirstOf
  <2>2. s \in signalsByKey(R, n) <=> Cardinality({e \in R : e.signal_key < s.signal_key}) < n
    BY DEF signalsByKey
  <2>3. signalOf(s) \in X
    OBVIOUS
  <2>4. QED BY <2>1, <2>2, <2>3, <1>1
<1>3. \A y : y \in Store!FirstOf(X, n) => y \in X
  BY DEF Store!FirstOf
<1>4. signalsByKey(R, n) \subseteq R
  BY DEF signalsByKey
<1>5. QED BY <1>2, <1>3, <1>4

LEMMA FirstWaits ==
  ASSUME RowsInv, NEW R \in SUBSET waitRows, NEW n, NEW X, \A y : y \in X <=> \E w \in R : y = waitOf(w)
  PROVE  \A y : y \in Store!FirstOf(X, n) <=> \E w \in waitsByKey(R, n) : y = waitOf(w)
<1>1. ASSUME NEW w \in R
      PROVE  Cardinality({e \in X : Store!compareKeys(e, waitOf(w))}) = Cardinality({e \in R : e.wait_key < w.wait_key})
  <2> DEFINE A == {e \in R : e.wait_key < w.wait_key}
             B == {e \in X : Store!compareKeys(e, waitOf(w))}
             g == [e \in A |-> waitOf(e)]
  <2>1. A \in SUBSET waitRows
    OBVIOUS
  <2>2. IsFiniteSet(A)
    BY <2>1, FS_Subset DEF RowsInv, SignalRowsOK, WaitRowsOK, WaitRowOK
  <2>3. \A e \in R : Store!compareKeys(waitOf(e), waitOf(w)) <=> e.wait_key < w.wait_key
    BY WaitFields DEF Store!compareKeys, RowsInv, SignalRowsOK, WaitRowsOK, WaitRowOK
  <2>4. \A y : y \in B <=> \E e \in A : y = waitOf(e)
    BY <2>3
  <2> HIDE DEF A, B
  <2>5. DOMAIN g = A /\ g = [e \in A |-> g[e]] /\ \A e \in A : g[e] = waitOf(e)
    OBVIOUS
  <2> HIDE DEF g
  <2>6. \A x, y \in A : g[x] = g[y] => x = y
    BY <2>1, <2>5, RowsApart
  <2>7. \A y : y \in B <=> \E e \in A : y = g[e]
    BY <2>4, <2>5
  <2>8. Cardinality(B) = Cardinality(A)
    BY <2>2, <2>5, <2>6, <2>7, ImageCounted
  <2>9. QED BY <2>8 DEF A, B
<1>2. ASSUME NEW w \in R
      PROVE  waitOf(w) \in Store!FirstOf(X, n) <=> w \in waitsByKey(R, n)
  <2>1. waitOf(w) \in Store!FirstOf(X, n)
          <=> waitOf(w) \in X /\ Cardinality({e \in X : Store!compareKeys(e, waitOf(w))}) < n
    BY StoreCardinality DEF Store!FirstOf
  <2>2. w \in waitsByKey(R, n) <=> Cardinality({e \in R : e.wait_key < w.wait_key}) < n
    BY DEF waitsByKey
  <2>3. waitOf(w) \in X
    OBVIOUS
  <2>4. QED BY <2>1, <2>2, <2>3, <1>1
<1>3. \A y : y \in Store!FirstOf(X, n) => y \in X
  BY DEF Store!FirstOf
<1>4. waitsByKey(R, n) \subseteq R
  BY DEF waitsByKey
<1>5. QED BY <1>2, <1>3, <1>4

LEMMA RowTypes ==
  ASSUME TableParameters
  PROVE  /\ MaxTime \in Nat /\ MaxTick \in Nat /\ MaxMatches \in Nat
         /\ \A s, t \in Times : latest(s, t) \in Times /\ latest(s, t) = Store!laterSignalTimestamp(s, t)
         /\ \A s, t \in Times : s <= latest(s, t) /\ t <= latest(s, t)
         /\ \A s \in Times : s \in Nat
         /\ \A t \in Ticks : t \in Positive
BY DEF TableParameters, Times, Ticks, Positive, latest, Store!laterSignalTimestamp

(* What a wait row stands for is a wait.                                   *)
StoredWait ==
  [key : Positive, id : WaitIds, lane : Lanes \cup {NoLane},
   selector : [kinds : SUBSET Kinds, afterKey : Nat, afterTick : Nat, throughTick : Nat],
   status : {"waiting", "matched", "cancelled", "expired"}, revision : Nat, matched : Nat, updatedAt : Times]

LEMMA StoredWaitTyped == ASSUME TableParameters, NEW w \in WaitRow PROVE waitOf(w) \in StoredWait
<1>1. \A v \in Positive \cup {NULL} : OrZero(v) \in Nat
  BY DEF OrZero, Positive
<1>2. /\ OrZero(w.after_signal_key) \in Nat /\ OrZero(w.after_tick) \in Nat
      /\ OrZero(w.through_tick) \in Nat /\ OrZero(w.matched_signal_key) \in Nat
  BY <1>1, WaitFields
<1>3. QED BY <1>2 DEF waitOf, StoredWait, WaitRow

closedWait(y, status, at) ==
  [y EXCEPT !.status = status, !.revision = @ + 1, !.updatedAt = Store!laterSignalTimestamp(@, at)]

(* A wait row that is closed.                                              *)
LEMMA Closed ==
  ASSUME TableParameters, NEW w, WaitRowOK(w), w.status = "waiting", NEW at \in Times,
         NEW status \in {"cancelled", "expired"}
  PROVE  /\ WaitRowOK(closedRow(w, status, at)) /\ closedRow(w, status, at).wait_key = w.wait_key
         /\ waitOf(closedRow(w, status, at)) = closedWait(waitOf(w), status, at)
<1>1. /\ w \in WaitRow /\ w.created_at \in Times /\ w.updated_at \in Times /\ w.revision \in Nat
      /\ w.created_at <= w.updated_at /\ w.matched_signal_key = NULL
      /\ w.created_at \in Nat /\ w.updated_at \in Nat
  BY DEF WaitRowOK, WaitRow, Times
<1>2. PICK t \in Times : t = latest(w.updated_at, at)
  BY <1>1, RowTypes
<1>3. t = Store!laterSignalTimestamp(w.updated_at, at) /\ w.updated_at <= t
  BY <1>1, <1>2, RowTypes
<1>4. PICK n \in Nat : n = w.revision + 1
  BY <1>1
<1>5. PICK r : r = [w EXCEPT !.status = status, !.revision = n, !.updated_at = t]
  OBVIOUS
<1>6. closedRow(w, status, at) = r
  BY <1>2, <1>4, <1>5 DEF closedRow
<1>7. /\ r \in WaitRow /\ r.wait_key = w.wait_key /\ r.wait_id = w.wait_id /\ r.lane = w.lane /\ r.kinds = w.kinds
      /\ r.after_signal_key = w.after_signal_key /\ r.after_tick = w.after_tick
      /\ r.through_tick = w.through_tick /\ r.status = status /\ r.revision = n
      /\ r.matched_signal_key = w.matched_signal_key /\ r.created_at = w.created_at /\ r.updated_at = t
  BY <1>1, <1>5 DEF WaitRow
<1>8. w.created_at <= t
  <2>1. t \in Nat
    BY <1>2 DEF Times
  <2>2. QED BY <1>1, <1>3, <2>1
<1>9. WaitRowOK(r)
  BY <1>1, <1>7, <1>8 DEF WaitRowOK
<1>10. waitOf(r) = closedWait(waitOf(w), status, at)
  <2>1. waitOf(w).revision + 1 = n /\ Store!laterSignalTimestamp(waitOf(w).updatedAt, at) = t
    BY <1>1, <1>3, <1>4, WaitFields
  <2>2. waitOf(r) = [waitOf(w) EXCEPT !.status = status, !.revision = n, !.updatedAt = t]
    <3>1. PICK y, u, v : /\ y = waitOf(w) /\ u = waitOf(r)
                         /\ v = [y EXCEPT !.status = status, !.revision = n, !.updatedAt = t]
      OBVIOUS
    <3>2. y \in StoredWait /\ u \in StoredWait
      BY <1>1, <1>7, <3>1, StoredWaitTyped
    <3>3. u.selector = y.selector
      BY <1>7, <3>1 DEF waitOf
    <3>4. /\ u.key = y.key /\ u.id = y.id /\ u.lane = y.lane /\ u.status = status
          /\ u.revision = n /\ u.matched = y.matched /\ u.updatedAt = t
      BY <1>7, <1>1, <3>1, WaitFields
    <3>5. /\ v \in StoredWait /\ v.key = y.key /\ v.id = y.id /\ v.lane = y.lane /\ v.selector = y.selector
          /\ v.status = status /\ v.revision = n /\ v.matched = y.matched /\ v.updatedAt = t
      BY <1>2, <1>4, <3>1, <3>2 DEF StoredWait
    <3>6. u = v
      BY <3>2, <3>3, <3>4, <3>5 DEF StoredWait
    <3>7. QED BY <3>1, <3>6
  <2>3. QED BY <2>1, <2>2 DEF closedWait
<1>11. QED BY <1>6, <1>7, <1>9, <1>10

(* A wait row matched by a signal row.                                     *)
LEMMA Matched ==
  ASSUME TableParameters, NEW w, WaitRowOK(w), NEW s \in SignalRow
  PROVE  /\ WaitRowOK(matchedRow(w, s)) /\ matchedRow(w, s).wait_key = w.wait_key
         /\ waitOf(matchedRow(w, s)) = Store!matchedBy(waitOf(w), signalOf(s))
<1>1. /\ w \in WaitRow /\ w.created_at \in Times /\ w.updated_at \in Times /\ w.revision \in Nat
      /\ w.created_at <= w.updated_at /\ w.created_at \in Nat /\ w.updated_at \in Nat
  BY DEF WaitRowOK, WaitRow, Times
<1>2. PICK t \in Times : t = latest(w.updated_at, s.recorded_at)
  BY <1>1, RowTypes, SignalFields
<1>3. t = Store!laterSignalTimestamp(w.updated_at, s.recorded_at) /\ w.updated_at <= t
  BY <1>1, <1>2, RowTypes, SignalFields
<1>4. PICK n \in Nat : n = w.revision + 1
  BY <1>1
<1>5. PICK k \in Positive : k = s.signal_key
  BY SignalFields
<1>6. k # NULL /\ OrZero(k) = k
  BY <1>5 DEF OrZero, TableParameters, Positive
<1>7. PICK r : r = [w EXCEPT !.status = "matched", !.matched_signal_key = k, !.revision = n, !.updated_at = t]
  OBVIOUS
<1>8. matchedRow(w, s) = r
  BY <1>2, <1>4, <1>5, <1>7 DEF matchedRow
<1>9. /\ r \in WaitRow /\ r.wait_key = w.wait_key /\ r.wait_id = w.wait_id /\ r.lane = w.lane /\ r.kinds = w.kinds
      /\ r.after_signal_key = w.after_signal_key /\ r.after_tick = w.after_tick
      /\ r.through_tick = w.through_tick /\ r.status = "matched" /\ r.revision = n
      /\ r.matched_signal_key = k /\ r.created_at = w.created_at /\ r.updated_at = t
  BY <1>1, <1>7 DEF WaitRow
<1>10. w.created_at <= t
  <2>1. t \in Nat
    BY <1>2 DEF Times
  <2>2. QED BY <1>1, <1>3, <2>1
<1>11. WaitRowOK(r)
  BY <1>6, <1>9, <1>10 DEF WaitRowOK
<1>12. signalOf(s).key = k /\ signalOf(s).recordedAt = s.recorded_at
  BY <1>5, SignalFields
<1>13. waitOf(r) = Store!matchedBy(waitOf(w), signalOf(s))
  <2>1. waitOf(w).revision + 1 = n /\ Store!laterSignalTimestamp(waitOf(w).updatedAt, signalOf(s).recordedAt) = t
    BY <1>1, <1>3, <1>4, <1>12, WaitFields
  <2>2. waitOf(r) = [waitOf(w) EXCEPT !.status = "matched", !.matched = k, !.revision = n, !.updatedAt = t]
    <3>1. PICK y, u, v : /\ y = waitOf(w) /\ u = waitOf(r)
                         /\ v = [y EXCEPT !.status = "matched", !.matched = k, !.revision = n, !.updatedAt = t]
      OBVIOUS
    <3>2. y \in StoredWait /\ u \in StoredWait
      BY <1>1, <1>6, <1>9, <3>1, StoredWaitTyped
    <3>3. u.selector = y.selector
      BY <1>6, <1>9, <3>1 DEF waitOf
    <3>4. /\ u.key = y.key /\ u.id = y.id /\ u.lane = y.lane /\ u.status = "matched"
          /\ u.revision = n /\ u.matched = k /\ u.updatedAt = t
      BY <1>6, <1>9, <1>1, <3>1, WaitFields
    <3>5. /\ v \in StoredWait /\ v.key = y.key /\ v.id = y.id /\ v.lane = y.lane /\ v.selector = y.selector
          /\ v.status = "matched" /\ v.revision = n /\ v.matched = k /\ v.updatedAt = t
      BY <1>2, <1>4, <1>5, <3>1, <3>2 DEF StoredWait, Positive
    <3>6. u = v
      BY <3>2, <3>3, <3>4, <3>5 DEF StoredWait
    <3>7. QED BY <3>1, <3>6
  <2>3. QED BY <2>1, <2>2, <1>12 DEF Store!matchedBy
<1>14. QED BY <1>8, <1>9, <1>11, <1>13

(* Some rows are replaced, each by its image under f, and so is what they  *)
(* stand for.                                                              *)
LEMMA RowsReplaced ==
  ASSUME RowsInv, NEW M \in SUBSET waitRows, NEW f, f = [w \in M |-> f[w]],
         \A w \in M : WaitRowOK(f[w]) /\ f[w].wait_key = w.wait_key,
         waitRows' = (waitRows \ M) \cup {f[w] : w \in M}, waitSequence' = waitSequence
  PROVE  /\ WaitRowsOK'
         /\ \A y : y \in StoredWaits' <=>
                     \/ y \in StoredWaits /\ ~ \E w \in M : y = waitOf(w)
                     \/ \E w \in M : y = waitOf(f[w])
<1>1. /\ IsFiniteSet(waitRows) /\ waitSequence \in Nat
      /\ \A w \in waitRows : WaitRowOK(w) /\ w.wait_key <= waitSequence
      /\ \A w, v \in waitRows : w.wait_key = v.wait_key => w = v
  BY DEF RowsInv, WaitRowsOK
<1>2. IsFiniteSet(waitRows')
  <2>1. IsFiniteSet(M) /\ IsFiniteSet(waitRows \ M)
    BY <1>1, FS_Subset
  <2>2. PICK X : X = {f[w] : w \in M}
    OBVIOUS
  <2>3. \A y : y \in X <=> \E w \in M : y = f[w]
    BY <2>2
  <2>4. \A x, y \in M : f[x] = f[y] => x = y
    BY <1>1
  <2>5. DOMAIN f = M
    OBVIOUS
  <2>6. IsFiniteSet(X)
    BY <2>1, <2>3, <2>4, <2>5, ImageCounted
  <2>7. QED BY <2>1, <2>2, <2>6, FS_Union
<1>3. \A w \in waitRows' : (w \in waitRows /\ w \notin M) \/ \E v \in M : w = f[v]
  OBVIOUS
<1>4. \A w \in waitRows' : WaitRowOK(w) /\ w.wait_key <= waitSequence'
  BY <1>1, <1>3
<1>5. \A w \in waitRows' : \E v \in waitRows : v.wait_key = w.wait_key /\ w = (IF v \in M THEN f[v] ELSE v)
  BY <1>3
<1>6. \A w, v \in waitRows' : w.wait_key = v.wait_key => w = v
  BY <1>1, <1>5
<1>7. WaitRowsOK'
  BY <1>1, <1>2, <1>4, <1>6 DEF WaitRowsOK, WaitRowOK, WaitRow, Times
<1>8. ASSUME NEW y
      PROVE  y \in StoredWaits' <=>
               \/ y \in StoredWaits /\ ~ \E w \in M : y = waitOf(w)
               \/ \E w \in M : y = waitOf(f[w])
  <2>1. y \in StoredWaits' <=> \E w \in waitRows' : y = waitOf(w)
    BY DEF StoredWaits
  <2>2. y \in StoredWaits <=> \E w \in waitRows : y = waitOf(w)
    BY DEF StoredWaits
  <2>3. \A w \in waitRows, v \in M : waitOf(w) = waitOf(v) => w = v
    BY RowsApart
  <2>4. (\E w \in waitRows' : y = waitOf(w)) <=>
          (\E w \in waitRows : w \notin M /\ y = waitOf(w)) \/ \E w \in M : y = waitOf(f[w])
    OBVIOUS
  <2>5. QED BY <2>1, <2>2, <2>3, <2>4
<1>9. QED BY <1>7, <1>8

LEMMA SignalsStill ==
  ASSUME RowsInv, signalRows' = signalRows, signalSequence' = signalSequence
  PROVE  SignalRowsOK' /\ StoredSignals' = StoredSignals /\ (signalSequence + 1)' = signalSequence + 1
BY DEF RowsInv, SignalRowsOK, StoredSignals, SignalRow, Ticks, Times

LEMMA CancelSimulated ==
  ASSUME TableParameters, RowsInv, NEW w \in waitRows, NEW rev, NEW at \in Times, cancelWaitRow(w, rev, at)
  PROVE  RowsInv' /\ waitOf(w) \in StoredWaits /\ Store!cancelWait(waitOf(w), rev, at)
<1>1. /\ WaitRowOK(w) /\ w.revision = rev /\ w.status = "waiting" /\ signalRows' = signalRows
      /\ signalSequence' = signalSequence /\ waitSequence' = waitSequence
      /\ waitRows' = (waitRows \ {w}) \cup {closedRow(w, "cancelled", at)}
  BY DEF cancelWaitRow, RowsInv, WaitRowsOK
<1>2. PICK M, f : M = {w} /\ f = [v \in M |-> closedRow(v, "cancelled", at)]
  OBVIOUS
<1>3. /\ f = [v \in M |-> f[v]] /\ f[w] = closedRow(w, "cancelled", at) /\ \A v \in M : v = w
      /\ M \in SUBSET waitRows /\ waitRows' = (waitRows \ M) \cup {f[v] : v \in M}
  BY <1>1, <1>2
<1>4. /\ WaitRowOK(f[w]) /\ f[w].wait_key = w.wait_key
      /\ waitOf(f[w]) = closedWait(waitOf(w), "cancelled", at)
  BY <1>1, <1>3, Closed
<1>5. \A v \in M : WaitRowOK(f[v]) /\ f[v].wait_key = v.wait_key
  BY <1>3, <1>4
<1>6. /\ WaitRowsOK'
      /\ \A y : y \in StoredWaits' <=>
                  \/ y \in StoredWaits /\ ~ \E v \in M : y = waitOf(v)
                  \/ \E v \in M : y = waitOf(f[v])
  BY <1>1, <1>3, <1>5, RowsReplaced
<1>7. StoredWaits' = (StoredWaits \ {waitOf(w)}) \cup {waitOf(f[w])}
  BY <1>2, <1>6
<1>8. waitOf(w) \in StoredWaits /\ waitOf(w).revision = rev /\ waitOf(w).status = "waiting"
  BY <1>1, WaitFields DEF StoredWaits, WaitRowOK
<1>9. /\ SignalRowsOK' /\ StoredSignals' = StoredSignals /\ (signalSequence + 1)' = signalSequence + 1
      /\ (waitSequence + 1)' = waitSequence + 1
  BY <1>1, SignalsStill
<1>10. Store!cancelWait(waitOf(w), rev, at)
  BY <1>4, <1>7, <1>8, <1>9 DEF Store!cancelWait, closedWait
<1>11. QED BY <1>6, <1>8, <1>9, <1>10 DEF RowsInv

LEMMA ExpireSimulated ==
  ASSUME TableParameters, RowsInv, NEW tick \in Ticks, NEW at \in Times, NEW n, expireWaitRows(tick, at, n)
  PROVE  RowsInv' /\ Store!expireWaits(tick, at, n)
<1>1. PICK P : P = {w \in waitRows : /\ w.status = "waiting" /\ w.through_tick # NULL
                                     /\ w.through_tick <= tick}
  OBVIOUS
<1>2. PICK M : M = waitsByKey(P, n)
  OBVIOUS
<1>3. /\ M # {} /\ signalRows' = signalRows /\ signalSequence' = signalSequence /\ waitSequence' = waitSequence
      /\ waitRows' = (waitRows \ M) \cup {closedRow(w, "expired", at) : w \in M}
  BY <1>1, <1>2 DEF expireWaitRows
<1>4. /\ M \subseteq P /\ P \in SUBSET waitRows /\ M \in SUBSET waitRows
      /\ \A w \in M : WaitRowOK(w) /\ w.status = "waiting"
  BY <1>1, <1>2 DEF waitsByKey, RowsInv, WaitRowsOK
<1>5. PICK f : f = [w \in M |-> closedRow(w, "expired", at)]
  OBVIOUS
<1>6. f = [w \in M |-> f[w]] /\ \A w \in M : f[w] = closedRow(w, "expired", at)
  BY <1>5
<1>7. waitRows' = (waitRows \ M) \cup {f[w] : w \in M}
  BY <1>3, <1>6
<1>8. \A w \in M : /\ WaitRowOK(f[w]) /\ f[w].wait_key = w.wait_key
                   /\ waitOf(f[w]) = closedWait(waitOf(w), "expired", at)
  BY <1>4, <1>6, Closed
<1>9. /\ WaitRowsOK'
      /\ \A y : y \in StoredWaits' <=>
                  \/ y \in StoredWaits /\ ~ \E w \in M : y = waitOf(w)
                  \/ \E w \in M : y = waitOf(f[w])
  <2>1. \A w \in M : WaitRowOK(f[w]) /\ f[w].wait_key = w.wait_key
    BY <1>8
  <2>2. M \in SUBSET waitRows /\ f = [w \in M |-> f[w]] /\ waitSequence' = waitSequence
    BY <1>3, <1>4, <1>6
  <2>3. QED BY <2>1, <2>2, <1>7, RowsReplaced
<1>10. PICK X : X = {w \in StoredWaits : /\ w.status = "waiting"
                                         /\ w.selector.throughTick # Store!None
                                         /\ w.selector.throughTick <= tick}
  OBVIOUS
<1>11. \A w \in waitRows : waitOf(w) \in X <=> w \in P
  <2>1. ASSUME NEW w \in waitRows PROVE waitOf(w) \in X <=> w \in P
    <3>1. /\ waitOf(w) \in StoredWaits /\ waitOf(w).status = w.status
          /\ waitOf(w).selector.throughTick = OrZero(w.through_tick)
          /\ w.through_tick \in Positive \cup {NULL}
      BY WaitFields DEF StoredWaits, RowsInv, WaitRowsOK, WaitRowOK
    <3>2. (OrZero(w.through_tick) # 0) <=> (w.through_tick # NULL)
      BY <3>1 DEF OrZero, Positive
    <3>3. w.through_tick # NULL => OrZero(w.through_tick) = w.through_tick
      BY DEF OrZero
    <3>4. QED BY <3>1, <3>2, <3>3, <1>1, <1>10 DEF Store!None
  <2>2. QED BY <2>1
<1>12. \A y : y \in X <=> \E w \in P : y = waitOf(w)
  <2>1. X \subseteq StoredWaits /\ \A y \in StoredWaits : \E w \in waitRows : y = waitOf(w)
    BY <1>10 DEF StoredWaits
  <2>2. QED BY <2>1, <1>4, <1>11
<1>13. PICK F : F = Store!FirstOf(X, n)
  OBVIOUS
<1>14. \A y : y \in F <=> \E w \in M : y = waitOf(w)
  BY <1>2, <1>4, <1>12, <1>13, FirstWaits
<1>15. F # {}
  BY <1>3, <1>14
<1>16. StoredWaits' = (StoredWaits \ F) \cup {closedWait(y, "expired", at) : y \in F}
  <2>1. PICK G : G = {closedWait(y, "expired", at) : y \in F}
    OBVIOUS
  <2>2. \A z : z \in G <=> \E w \in M : z = waitOf(f[w])
    BY <1>8, <1>14, <2>1
  <2>3. StoredWaits' = (StoredWaits \ F) \cup G
    BY <1>9, <1>14, <2>2
  <2>4. QED BY <2>1, <2>3
<1>17. /\ SignalRowsOK' /\ StoredSignals' = StoredSignals /\ (signalSequence + 1)' = signalSequence + 1
       /\ (waitSequence + 1)' = waitSequence + 1
  BY <1>3, SignalsStill
<1>18. Store!expireWaits(tick, at, n)
  BY <1>10, <1>13, <1>15, <1>16, <1>17 DEF Store!expireWaits, closedWait
<1>19. QED BY <1>9, <1>17, <1>18 DEF RowsInv

LEMMA PurgeWaitsSimulated ==
  ASSUME TableParameters, RowsInv, NEW t, NEW n, purgeWaitRows(t, n)
  PROVE  RowsInv' /\ Store!purgeTerminalWaits(t, n)
<1>1. PICK P : P = {w \in waitRows : w.status # "waiting" /\ w.updated_at < t}
  OBVIOUS
<1>2. PICK M : M = waitsByKey(P, n)
  OBVIOUS
<1>3. /\ M # {} /\ signalRows' = signalRows /\ signalSequence' = signalSequence /\ waitSequence' = waitSequence
      /\ waitRows' = waitRows \ M
  BY <1>1, <1>2 DEF purgeWaitRows
<1>4. M \subseteq P /\ P \in SUBSET waitRows /\ M \in SUBSET waitRows
  BY <1>1, <1>2 DEF waitsByKey
<1>5. IsFiniteSet(waitRows')
  BY <1>3, FS_Subset DEF RowsInv, WaitRowsOK
<1>6. WaitRowsOK'
  BY <1>3, <1>5 DEF RowsInv, WaitRowsOK, WaitRowOK, WaitRow, Times
<1>7. PICK X : X = {w \in StoredWaits : w.status # "waiting" /\ w.updatedAt < t}
  OBVIOUS
<1>8. \A w \in waitRows : waitOf(w) \in StoredWaits /\ (waitOf(w) \in X <=> w \in P)
  <2>1. ASSUME NEW w \in waitRows PROVE waitOf(w) \in StoredWaits /\ (waitOf(w) \in X <=> w \in P)
    <3>1. waitOf(w) \in StoredWaits /\ waitOf(w).status = w.status /\ waitOf(w).updatedAt = w.updated_at
      BY WaitFields DEF StoredWaits, RowsInv, WaitRowsOK, WaitRowOK
    <3>2. QED BY <3>1, <1>1, <1>7
  <2>2. QED BY <2>1
<1>9. \A y : y \in X <=> \E w \in P : y = waitOf(w)
  <2>1. X \subseteq StoredWaits /\ \A y \in StoredWaits : \E w \in waitRows : y = waitOf(w)
    BY <1>7 DEF StoredWaits
  <2>2. QED BY <2>1, <1>4, <1>8
<1>10. PICK F : F = Store!FirstOf(X, n)
  OBVIOUS
<1>11. \A y : y \in F <=> \E w \in M : y = waitOf(w)
  BY <1>2, <1>4, <1>9, <1>10, FirstWaits
<1>12. F # {}
  BY <1>3, <1>11
<1>13. StoredWaits' = StoredWaits \ F
  <2>1. \A y : y \in StoredWaits <=> \E w \in waitRows : y = waitOf(w)
    BY DEF StoredWaits
  <2>2. \A y : y \in StoredWaits' <=> \E w \in waitRows : w \notin M /\ y = waitOf(w)
    BY <1>3 DEF StoredWaits
  <2>3. \A w \in waitRows, v \in M : waitOf(w) = waitOf(v) => w = v
    BY <1>4, RowsApart
  <2>4. \A y : y \in StoredWaits' <=> y \in StoredWaits /\ y \notin F
    BY <2>1, <2>2, <2>3, <1>11
  <2>5. QED BY <2>4
<1>14. /\ SignalRowsOK' /\ StoredSignals' = StoredSignals /\ (signalSequence + 1)' = signalSequence + 1
       /\ (waitSequence + 1)' = waitSequence + 1
  BY <1>3, SignalsStill
<1>15. Store!purgeTerminalWaits(t, n)
  BY <1>7, <1>10, <1>12, <1>13, <1>14 DEF Store!purgeTerminalWaits
<1>16. QED BY <1>6, <1>14, <1>15 DEF RowsInv

(* A signal some wait was matched by, counted or named.                    *)
LEMMA ReferencedAgrees ==
  ASSUME TableParameters, RowsInv, NEW s \in signalRows
  PROVE  countMatchedWaits(s.signal_key) = 0 <=> ~Store!referenced(signalOf(s))
<1>1. PICK k \in Positive : k = s.signal_key
  BY SignalFields DEF RowsInv, SignalRowsOK
<1>2. PICK C : C = {w \in waitRows : w.matched_signal_key = k}
  OBVIOUS
<1>3. IsFiniteSet(C)
  BY <1>2, FS_Subset DEF RowsInv, WaitRowsOK
<1>4. countMatchedWaits(k) = 0 <=> C = {}
  BY <1>2, <1>3, FS_EmptySet DEF countMatchedWaits
<1>5. \A w \in waitRows : waitOf(w).matched = k <=> w.matched_signal_key = k
  <2>1. ASSUME NEW w \in waitRows PROVE waitOf(w).matched = k <=> w.matched_signal_key = k
    <3>1. waitOf(w).matched = OrZero(w.matched_signal_key)
      BY WaitFields DEF RowsInv, WaitRowsOK, WaitRowOK
    <3>2. k # 0 /\ k # NULL
      BY <1>1 DEF Positive, TableParameters
    <3>3. QED BY <3>1, <3>2 DEF OrZero
  <2>2. QED BY <2>1
<1>6. C = {} <=> Store!matchedWaits(k) = {}
  BY <1>2, <1>5 DEF Store!matchedWaits, StoredWaits
<1>7. signalOf(s).key = k
  BY <1>1, SignalFields DEF RowsInv, SignalRowsOK
<1>8. QED BY <1>1, <1>4, <1>6, <1>7 DEF Store!referenced

LEMMA PurgeSignalsSimulated ==
  ASSUME TableParameters, RowsInv, NEW t, NEW n, purgeSignalRows(t, n)
  PROVE  RowsInv' /\ Store!purgeSignals(t, n)
<1>1. PICK P : P = {s \in signalRows : s.recorded_at < t /\ countMatchedWaits(s.signal_key) = 0}
  OBVIOUS
<1>2. PICK M : M = signalsByKey(P, n)
  OBVIOUS
<1>3. /\ M # {} /\ waitRows' = waitRows /\ signalSequence' = signalSequence /\ waitSequence' = waitSequence
      /\ signalRows' = signalRows \ M
  BY <1>1, <1>2 DEF purgeSignalRows
<1>4. M \subseteq P /\ P \in SUBSET signalRows /\ M \in SUBSET signalRows
  BY <1>1, <1>2 DEF signalsByKey
<1>5. IsFiniteSet(signalRows')
  BY <1>3, FS_Subset DEF RowsInv, SignalRowsOK
<1>6. SignalRowsOK'
  BY <1>3, <1>5 DEF RowsInv, SignalRowsOK, SignalRow, Ticks, Times
<1>7. PICK X : X = {s \in StoredSignals : s.recordedAt < t /\ ~Store!referenced(s)}
  OBVIOUS
<1>8. \A s \in signalRows : signalOf(s) \in StoredSignals /\ (signalOf(s) \in X <=> s \in P)
  <2>1. ASSUME NEW s \in signalRows PROVE signalOf(s) \in StoredSignals /\ (signalOf(s) \in X <=> s \in P)
    <3>1. signalOf(s) \in StoredSignals /\ signalOf(s).recordedAt = s.recorded_at
      BY SignalFields DEF StoredSignals, RowsInv, SignalRowsOK
    <3>2. QED BY <3>1, <1>1, <1>7, ReferencedAgrees
  <2>2. QED BY <2>1
<1>9. \A y : y \in X <=> \E s \in P : y = signalOf(s)
  <2>1. X \subseteq StoredSignals /\ \A y \in StoredSignals : \E s \in signalRows : y = signalOf(s)
    BY <1>7 DEF StoredSignals
  <2>2. QED BY <2>1, <1>4, <1>8
<1>10. PICK F : F = Store!FirstOf(X, n)
  OBVIOUS
<1>11. \A y : y \in F <=> \E s \in M : y = signalOf(s)
  BY <1>2, <1>4, <1>9, <1>10, FirstSignals
<1>12. F # {}
  BY <1>3, <1>11
<1>13. StoredSignals' = StoredSignals \ F
  <2>1. \A y : y \in StoredSignals <=> \E s \in signalRows : y = signalOf(s)
    BY DEF StoredSignals
  <2>2. \A y : y \in StoredSignals' <=> \E s \in signalRows : s \notin M /\ y = signalOf(s)
    BY <1>3 DEF StoredSignals
  <2>3. \A s \in signalRows, v \in M : signalOf(s) = signalOf(v) => s = v
    BY <1>4, RowsApart
  <2>4. \A y : y \in StoredSignals' <=> y \in StoredSignals /\ y \notin F
    BY <2>1, <2>2, <2>3, <1>11
  <2>5. QED BY <2>4
<1>14. StoredWaits' = StoredWaits /\ (signalSequence + 1)' = signalSequence + 1 /\ (waitSequence + 1)' = waitSequence + 1
  BY <1>3 DEF StoredWaits
<1>15. Store!purgeSignals(t, n)
  BY <1>7, <1>10, <1>12, <1>13, <1>14 DEF Store!purgeSignals
<1>16. WaitRowsOK'
  BY <1>3 DEF RowsInv, WaitRowsOK, WaitRowOK, WaitRow, Times
<1>17. QED BY <1>6, <1>15, <1>16 DEF RowsInv

LEMMA RecordSimulated ==
  ASSUME TableParameters, RowsInv, NEW id \in SignalIds, NEW lane \in Lanes \cup {NoLane}, NEW kind \in Kinds,
         NEW tick \in Ticks, NEW at \in Times, recordRow(id, lane, kind, tick, at)
  PROVE  RowsInv' /\ Store!record(id, lane, kind, tick, at)
<1>1. PICK k : k = signalSequence + 1
  OBVIOUS
<1>2. PICK r : r = [signal_key |-> k, signal_id |-> id, lane |-> lane, kind |-> kind,
                    signal_tick |-> tick, recorded_at |-> at]
  OBVIOUS
<1>3. PICK M : M = findMatchingWaitRows(r)
  OBVIOUS
<1>4. /\ ~ \E q \in signalRows : q.signal_id = id
      /\ signalSequence < MaxSignalKey /\ Cardinality(M) <= MaxMatches
      /\ signalRows' = signalRows \cup {r} /\ signalSequence' = k
      /\ waitRows' = (waitRows \ M) \cup {matchedRow(w, r) : w \in M}
      /\ waitSequence' = waitSequence
  BY <1>1, <1>2, <1>3 DEF recordRow
<1>5. signalSequence \in Nat /\ k \in Positive /\ k > signalSequence
  BY <1>1 DEF RowsInv, SignalRowsOK, Positive
<1>6. r \in SignalRow /\ r.signal_key = k
  BY <1>2, <1>5 DEF SignalRow
<1>7. PICK s : s = [key |-> k, id |-> id, lane |-> lane, kind |-> kind, tick |-> tick, recordedAt |-> at]
  OBVIOUS
<1>8. signalOf(r) = s
  BY <1>2, <1>7 DEF signalOf
<1>9. M \in SUBSET waitRows /\ \A w \in waitRows : w \in M <=> w.status = "waiting" /\ Accepted(w, r)
  BY <1>3 DEF findMatchingWaitRows, Accepted
<1>10. \A w \in waitRows : WaitRowOK(w) /\ w \in WaitRow
  BY DEF RowsInv, WaitRowsOK, WaitRowOK
<1>11. PICK K : K = {w \in StoredWaits : w.status = "waiting" /\ Store!signalWaitMatches(w, s)}
  OBVIOUS
<1>12. \A w \in waitRows : waitOf(w) \in StoredWaits /\ (waitOf(w) \in K <=> w \in M)
  <2>1. ASSUME NEW w \in waitRows PROVE waitOf(w) \in StoredWaits /\ (waitOf(w) \in K <=> w \in M)
    <3>1. waitOf(w) \in StoredWaits /\ waitOf(w).status = w.status
      BY <1>10, WaitFields DEF StoredWaits
    <3>2. Accepted(w, r) <=> Store!signalWaitMatches(waitOf(w), s)
      BY <1>6, <1>8, <1>10, MatchingAgrees
    <3>3. QED BY <3>1, <3>2, <1>9, <1>11
  <2>2. QED BY <2>1
<1>13. \A y : y \in K <=> \E w \in M : y = waitOf(w)
  <2>1. K \subseteq StoredWaits /\ \A y \in StoredWaits : \E w \in waitRows : y = waitOf(w)
    BY <1>11 DEF StoredWaits
  <2>2. QED BY <2>1, <1>9, <1>12
<1>14. Store!Cardinality(K) <= MaxMatches
  <2>1. IsFiniteSet(M)
    BY <1>9, FS_Subset DEF RowsInv, WaitRowsOK
  <2>2. PICK g : g = [w \in M |-> waitOf(w)]
    OBVIOUS
  <2>3. DOMAIN g = M /\ g = [w \in M |-> g[w]] /\ \A w \in M : g[w] = waitOf(w)
    BY <2>2
  <2>4. \A x, y \in M : g[x] = g[y] => x = y
    BY <2>3, <1>9, RowsApart
  <2>5. \A y : y \in K <=> \E w \in M : y = g[w]
    BY <2>3, <1>13
  <2>6. Cardinality(K) = Cardinality(M)
    BY <2>1, <2>3, <2>4, <2>5, ImageCounted
  <2>7. QED BY <2>6, <1>4, StoreCardinality
<1>15. ~ \E q \in StoredSignals : q.id = id
  BY <1>4, SignalFields DEF StoredSignals, RowsInv, SignalRowsOK
<1>16. StoredSignals' = StoredSignals \cup {s}
  BY <1>4, <1>8 DEF StoredSignals
<1>17. PICK f : f = [w \in M |-> matchedRow(w, r)]
  OBVIOUS
<1>18. f = [w \in M |-> f[w]] /\ \A w \in M : f[w] = matchedRow(w, r)
  BY <1>17
<1>19. waitRows' = (waitRows \ M) \cup {f[w] : w \in M}
  BY <1>4, <1>18
<1>20. \A w \in M : /\ WaitRowOK(f[w]) /\ f[w].wait_key = w.wait_key
                    /\ waitOf(f[w]) = Store!matchedBy(waitOf(w), s)
  BY <1>6, <1>8, <1>9, <1>10, <1>18, Matched
<1>21. /\ WaitRowsOK'
       /\ \A y : y \in StoredWaits' <=>
                   \/ y \in StoredWaits /\ ~ \E w \in M : y = waitOf(w)
                   \/ \E w \in M : y = waitOf(f[w])
  <2>1. \A w \in M : WaitRowOK(f[w]) /\ f[w].wait_key = w.wait_key
    BY <1>20
  <2>2. M \in SUBSET waitRows /\ f = [w \in M |-> f[w]] /\ waitSequence' = waitSequence
    BY <1>4, <1>9, <1>18
  <2>3. QED BY <2>1, <2>2, <1>19, RowsReplaced
<1>22. StoredWaits' = (StoredWaits \ K) \cup {Store!matchedBy(y, s) : y \in K}
  <2>1. PICK G : G = {Store!matchedBy(y, s) : y \in K}
    OBVIOUS
  <2>2. \A z : z \in G <=> \E w \in M : z = waitOf(f[w])
    BY <1>13, <1>20, <2>1
  <2>3. StoredWaits' = (StoredWaits \ K) \cup G
    BY <1>13, <1>21, <2>2
  <2>4. QED BY <2>1, <2>3
<1>23. SignalRowsOK'
  <2>1. IsFiniteSet(signalRows')
    BY <1>4, FS_AddElement DEF RowsInv, SignalRowsOK
  <2>2. \A q \in signalRows : q \in SignalRow /\ q.signal_key \in Nat /\ q.signal_key <= signalSequence
    BY SignalFields DEF RowsInv, SignalRowsOK, Positive
  <2>3. k \in Nat
    BY <1>5 DEF Positive
  <2>4. \A q \in signalRows : q.signal_key < k
    BY <2>2, <2>3, <1>5
  <2>5. \A q \in signalRows' : q \in SignalRow /\ q.signal_key <= k
    BY <1>4, <1>6, <2>2, <2>3, <2>4
  <2>6. \A q, u \in signalRows' : q.signal_key = u.signal_key => q = u
    BY <1>4, <1>6, <2>2, <2>3, <2>4 DEF RowsInv, SignalRowsOK
  <2>7. QED BY <1>4, <2>1, <2>3, <2>5, <2>6 DEF SignalRowsOK, SignalRow, Ticks, Times
<1>24. (signalSequence + 1)' = k + 1 /\ (waitSequence + 1)' = waitSequence + 1 /\ k <= MaxSignalKey
  BY <1>1, <1>4, <1>5 DEF TableParameters
<1>25. Store!record(id, lane, kind, tick, at)
  BY <1>1, <1>7, <1>11, <1>14, <1>15, <1>16, <1>22, <1>24 DEF Store!record
<1>26. QED BY <1>21, <1>23, <1>25 DEF RowsInv

(* As many waits are matched by a signal as rows by its row.               *)
LEMMA MatchedCounted ==
  ASSUME TableParameters, RowsInv, NEW s \in signalRows
  PROVE  Store!hasRoom(signalOf(s)) <=> countMatchedWaits(s.signal_key) < MaxMatches
<1>1. PICK k \in Positive : k = s.signal_key
  BY SignalFields DEF RowsInv, SignalRowsOK
<1>2. PICK C : C = {w \in waitRows : w.matched_signal_key = k}
  OBVIOUS
<1>3. IsFiniteSet(C) /\ C \in SUBSET waitRows
  BY <1>2, FS_Subset DEF RowsInv, WaitRowsOK
<1>4. \A w \in waitRows : waitOf(w).matched = k <=> w.matched_signal_key = k
  <2>1. ASSUME NEW w \in waitRows PROVE waitOf(w).matched = k <=> w.matched_signal_key = k
    <3>1. waitOf(w).matched = OrZero(w.matched_signal_key)
      BY WaitFields DEF RowsInv, WaitRowsOK, WaitRowOK
    <3>2. k # 0 /\ k # NULL
      BY <1>1 DEF Positive, TableParameters
    <3>3. QED BY <3>1, <3>2 DEF OrZero
  <2>2. QED BY <2>1
<1>5. PICK X : X = Store!matchedWaits(k)
  OBVIOUS
<1>6. \A y : y \in X <=> \E w \in C : y = waitOf(w)
  BY <1>2, <1>4, <1>5 DEF Store!matchedWaits, StoredWaits
<1>7. PICK g : g = [w \in C |-> waitOf(w)]
  OBVIOUS
<1>8. DOMAIN g = C /\ g = [w \in C |-> g[w]] /\ \A w \in C : g[w] = waitOf(w)
  BY <1>7
<1>9. \A x, y \in C : g[x] = g[y] => x = y
  BY <1>3, <1>8, RowsApart
<1>10. \A y : y \in X <=> \E w \in C : y = g[w]
  BY <1>6, <1>8
<1>11. Cardinality(X) = Cardinality(C)
  BY <1>3, <1>8, <1>9, <1>10, ImageCounted
<1>12. Store!hasRoom(signalOf(s)) <=> Store!Cardinality(X) < MaxMatches
  <2>1. signalOf(s).key = k
    BY <1>1, SignalFields DEF RowsInv, SignalRowsOK
  <2>2. QED BY <2>1, <1>5 DEF Store!hasRoom
<1>13. QED BY <1>1, <1>2, <1>11, <1>12, StoreCardinality DEF countMatchedWaits

(* No more than one row is the first.                                      *)
LEMMA FirstRowAlone ==
  ASSUME RowsInv, NEW R \in SUBSET signalRows
  PROVE  signalsByKey(R, 1) \subseteq R /\ \A s, t \in signalsByKey(R, 1) : s = t
<1>1. signalsByKey(R, 1) \subseteq R
  BY DEF signalsByKey
<1>2. ASSUME NEW s \in signalsByKey(R, 1), NEW t \in R PROVE ~(t.signal_key < s.signal_key)
  <2>1. PICK B : B = {e \in R : e.signal_key < s.signal_key}
    OBVIOUS
  <2>2. Cardinality(B) < 1
    BY <2>1 DEF signalsByKey
  <2>3. IsFiniteSet(B)
    <3>1. B \in SUBSET signalRows
      BY <2>1
    <3>2. QED BY <3>1, FS_Subset DEF RowsInv, SignalRowsOK
  <2>4. Cardinality(B) \in Nat
    BY <2>3, FS_CardinalityType
  <2>5. Cardinality(B) = 0
    BY <2>2, <2>4
  <2>6. B = {}
    BY <2>3, <2>5, FS_EmptySet
  <2>7. QED BY <2>1, <2>6
<1>3. ASSUME NEW s \in signalsByKey(R, 1), NEW t \in signalsByKey(R, 1) PROVE s = t
  <2>1. s \in signalRows /\ t \in signalRows
    BY <1>1
  <2>2. s.signal_key \in Nat /\ t.signal_key \in Nat
    BY <2>1, SignalFields DEF RowsInv, SignalRowsOK, Positive
  <2>3. ~(t.signal_key < s.signal_key) /\ ~(s.signal_key < t.signal_key)
    BY <1>1, <1>2
  <2>4. s.signal_key = t.signal_key
    BY <2>2, <2>3
  <2>5. QED BY <2>1, <2>4 DEF RowsInv, SignalRowsOK
<1>4. QED BY <1>1, <1>3

LEMMA RowAdded ==
  ASSUME RowsInv, NEW v, WaitRowOK(v), v.wait_key = waitSequence + 1, waitRows' = waitRows \cup {v},
         waitSequence' = waitSequence + 1
  PROVE  WaitRowsOK' /\ StoredWaits' = StoredWaits \cup {waitOf(v)}
<1>1. /\ IsFiniteSet(waitRows) /\ waitSequence \in Nat
      /\ \A w \in waitRows : WaitRowOK(w) /\ w.wait_key <= waitSequence
      /\ \A w, u \in waitRows : w.wait_key = u.wait_key => w = u
  BY DEF RowsInv, WaitRowsOK
<1>2. \A w \in waitRows : w.wait_key \in Nat
  BY <1>1, WaitFields DEF WaitRowOK, Positive
<1>3. IsFiniteSet(waitRows')
  BY <1>1, FS_AddElement
<1>4. \A w \in waitRows : w.wait_key < v.wait_key /\ w.wait_key <= waitSequence'
  BY <1>1, <1>2
<1>5. \A w \in waitRows' : WaitRowOK(w) /\ w.wait_key <= waitSequence'
  BY <1>1, <1>4
<1>6. \A w, u \in waitRows' : w.wait_key = u.wait_key => w = u
  BY <1>1, <1>2, <1>4
<1>7. WaitRowsOK'
  BY <1>1, <1>3, <1>5, <1>6 DEF WaitRowsOK, WaitRowOK, WaitRow, Times
<1>8. QED BY <1>7 DEF StoredWaits

(* A new wait row that is matched keeps the revision it was inserted with. *)
LEMMA MatchedAtOnce ==
  ASSUME TableParameters, NEW w, WaitRowOK(w), NEW s \in SignalRow
  PROVE  /\ WaitRowOK([matchedRow(w, s) EXCEPT !.revision = 1])
         /\ [matchedRow(w, s) EXCEPT !.revision = 1].wait_key = w.wait_key
         /\ waitOf([matchedRow(w, s) EXCEPT !.revision = 1]) =
              [Store!matchedBy(waitOf(w), signalOf(s)) EXCEPT !.revision = 1]
<1>1. PICK m : m = matchedRow(w, s)
  OBVIOUS
<1>2. WaitRowOK(m) /\ m \in WaitRow /\ m.wait_key = w.wait_key /\ waitOf(m) = Store!matchedBy(waitOf(w), signalOf(s))
  BY <1>1, Matched DEF WaitRowOK
<1>3. PICK v : v = [m EXCEPT !.revision = 1]
  OBVIOUS
<1>4. /\ v \in WaitRow /\ v.wait_key = m.wait_key /\ v.wait_id = m.wait_id /\ v.lane = m.lane /\ v.kinds = m.kinds
      /\ v.after_signal_key = m.after_signal_key /\ v.after_tick = m.after_tick
      /\ v.through_tick = m.through_tick /\ v.status = m.status /\ v.revision = 1
      /\ v.matched_signal_key = m.matched_signal_key /\ v.created_at = m.created_at /\ v.updated_at = m.updated_at
  BY <1>2, <1>3 DEF WaitRow
<1>5. WaitRowOK(v)
  BY <1>2, <1>4 DEF WaitRowOK
<1>6. PICK y, u, z : y = waitOf(m) /\ u = waitOf(v) /\ z = [y EXCEPT !.revision = 1]
  OBVIOUS
<1>7. y \in StoredWait /\ u \in StoredWait
  BY <1>2, <1>4, <1>6, StoredWaitTyped
<1>8. u.selector = y.selector
  BY <1>4, <1>6 DEF waitOf
<1>9. /\ u.key = y.key /\ u.id = y.id /\ u.lane = y.lane /\ u.status = y.status /\ u.revision = 1
      /\ u.matched = y.matched /\ u.updatedAt = y.updatedAt
  <2>1. u.id = y.id
    BY <1>4, <1>6 DEF waitOf
  <2>2. QED BY <2>1, <1>2, <1>4, <1>6, WaitFields
<1>10. /\ z \in StoredWait /\ z.key = y.key /\ z.id = y.id /\ z.lane = y.lane /\ z.selector = y.selector
       /\ z.status = y.status /\ z.revision = 1 /\ z.matched = y.matched /\ z.updatedAt = y.updatedAt
  BY <1>6, <1>7 DEF StoredWait
<1>11. u = z
  BY <1>7, <1>8, <1>9, <1>10 DEF StoredWait
<1>12. QED BY <1>1, <1>2, <1>3, <1>4, <1>5, <1>6, <1>11

LEMMA RegisterSimulated ==
  ASSUME TableParameters, RowsInv, NEW id \in WaitIds, NEW lane \in Lanes \cup {NoLane}, NEW sel \in Selectors,
         NEW at \in Times, registerWaitRow(id, lane, sel, at)
  PROVE  RowsInv' /\ Store!registerWait(id, lane, sel, at)
<1>1. PICK k : k = waitSequence + 1
  OBVIOUS
<1>2. PICK w : w = [wait_key |-> k, wait_id |-> id, lane |-> lane, kinds |-> sel.kinds,
                    after_signal_key |-> OrNull(sel.afterKey), after_tick |-> OrNull(sel.afterTick),
                    through_tick |-> OrNull(sel.throughTick), status |-> "waiting", revision |-> 1,
                    matched_signal_key |-> NULL, created_at |-> at, updated_at |-> at]
  OBVIOUS
<1>3. PICK P : P = {s \in signalRows :
                      /\ w.lane = NoLane \/ s.lane = w.lane
                      /\ w.after_signal_key = NULL \/ s.signal_key > w.after_signal_key
                      /\ w.after_tick = NULL \/ s.signal_tick > w.after_tick
                      /\ w.through_tick = NULL \/ s.signal_tick <= w.through_tick
                      /\ s.kind \in w.kinds}
  OBVIOUS
<1>4. PICK M : M = signalsByKey(P, 1)
  OBVIOUS
<1>5. M = findFirstMatchingSignalRow(w)
  BY <1>3, <1>4 DEF findFirstMatchingSignalRow
<1>6. /\ ~ \E v \in waitRows : v.wait_id = id
      /\ waitSequence < MaxWaitKey
      /\ \A s \in M : countMatchedWaits(s.signal_key) < MaxMatches
      /\ waitRows' = waitRows \cup
           (IF M = {} THEN {w} ELSE {[matchedRow(w, s) EXCEPT !.revision = 1] : s \in M})
      /\ waitSequence' = waitSequence + 1 /\ signalRows' = signalRows /\ signalSequence' = signalSequence
  BY <1>1, <1>2, <1>5 DEF registerWaitRow
<1>7. sel.kinds \in SUBSET Kinds /\ sel.afterKey \in Nat /\ sel.afterTick \in Nat /\ sel.throughTick \in Nat
      /\ sel \in [kinds : SUBSET Kinds, afterKey : Nat, afterTick : Nat, throughTick : Nat]
  BY DEF TableParameters
<1>8. \A n \in Nat : OrNull(n) \in Positive \cup {NULL} /\ OrZero(OrNull(n)) = n
  BY DEF TableParameters, OrNull, OrZero, Positive
<1>9. waitSequence \in Nat /\ k \in Positive
  BY <1>1 DEF RowsInv, WaitRowsOK, Positive
<1>10. w \in WaitRow
  <2>1. /\ OrNull(sel.afterKey) \in Positive \cup {NULL} /\ OrNull(sel.afterTick) \in Positive \cup {NULL}
        /\ OrNull(sel.throughTick) \in Positive \cup {NULL}
    BY <1>7, <1>8
  <2>2. QED BY <1>2, <1>7, <1>9, <2>1 DEF WaitRow
<1>11. WaitRowOK(w) /\ w.wait_key = waitSequence + 1
  <2>1. w.created_at = at /\ w.updated_at = at /\ w.status = "waiting" /\ w.matched_signal_key = NULL /\ w.wait_key = k
    BY <1>2
  <2>2. at \in Nat
    BY DEF Times
  <2>3. QED BY <1>1, <1>10, <2>1, <2>2 DEF WaitRowOK
<1>12. PICK y : y = [key |-> k, id |-> id, lane |-> lane, selector |-> sel, status |-> "waiting",
                     revision |-> 1, matched |-> Store!None, updatedAt |-> at]
  OBVIOUS
<1>13. waitOf(w) = y
  <2>1. PICK q : q = [kinds |-> w.kinds, afterKey |-> OrZero(w.after_signal_key),
                      afterTick |-> OrZero(w.after_tick), throughTick |-> OrZero(w.through_tick)]
    OBVIOUS
  <2>2. /\ w.kinds = sel.kinds /\ OrZero(w.after_signal_key) = sel.afterKey
        /\ OrZero(w.after_tick) = sel.afterTick /\ OrZero(w.through_tick) = sel.throughTick
    BY <1>2, <1>7, <1>8
  <2>3. q = sel
    BY <1>7, <2>1, <2>2
  <2>4. OrZero(NULL) = Store!None
    BY DEF OrZero, Store!None
  <2>5. /\ w.wait_key = k /\ w.wait_id = id /\ w.lane = lane /\ w.status = "waiting" /\ w.revision = 1
        /\ w.matched_signal_key = NULL /\ w.updated_at = at
    BY <1>2
  <2>6. QED BY <1>12, <2>1, <2>3, <2>4, <2>5 DEF waitOf
<1>14. P \in SUBSET signalRows /\ \A s \in signalRows : s \in SignalRow /\ (s \in P <=> Accepted(w, s))
  <2>1. \A s \in signalRows : s \in SignalRow /\ s.signal_key \in Nat /\ s.signal_tick \in Nat
    BY SignalFields DEF RowsInv, SignalRowsOK, Positive, Ticks
  <2>2. /\ w.after_signal_key \in Positive \cup {NULL} /\ w.after_tick \in Positive \cup {NULL}
        /\ w.through_tick \in Positive \cup {NULL}
    BY <1>10, WaitFields
  <2>3. ASSUME NEW s \in signalRows PROVE s \in P <=> Accepted(w, s)
    <3>1. w.after_signal_key # NULL => (s.signal_key > w.after_signal_key <=> w.after_signal_key < s.signal_key)
      BY <2>1, <2>2 DEF Positive
    <3>2. w.after_tick # NULL => (s.signal_tick > w.after_tick <=> w.after_tick < s.signal_tick)
      BY <2>1, <2>2 DEF Positive
    <3>3. w.through_tick # NULL => (s.signal_tick <= w.through_tick <=> w.through_tick >= s.signal_tick)
      BY <2>1, <2>2 DEF Positive
    <3>4. QED BY <1>3, <3>1, <3>2, <3>3 DEF Accepted
  <2>4. QED BY <1>3, <2>1, <2>3
<1>15. PICK X : X = Store!matchingSignals(y)
  OBVIOUS
<1>16. \A z : z \in X <=> \E s \in P : z = signalOf(s)
  <2>1. \A s \in signalRows : Accepted(w, s) <=> Store!signalWaitMatches(y, signalOf(s))
    BY <1>10, <1>13, <1>14, MatchingAgrees
  <2>2. \A z : z \in X <=> \E s \in signalRows : z = signalOf(s) /\ Store!signalWaitMatches(y, z)
    BY <1>15 DEF Store!matchingSignals, StoredSignals
  <2>3. QED BY <2>1, <2>2, <1>14
<1>17. PICK F : F = Store!FirstOf(X, 1)
  OBVIOUS
<1>18. \A z : z \in F <=> \E s \in M : z = signalOf(s)
  BY <1>4, <1>14, <1>16, <1>17, FirstSignals
<1>19. M \subseteq P /\ \A s, t \in M : s = t
  BY <1>4, <1>14, FirstRowAlone
<1>20. \A z \in F : Store!hasRoom(z)
  BY <1>6, <1>14, <1>18, <1>19, MatchedCounted
<1>21. ~ \E v \in StoredWaits : v.id = id
  <2>1. \A v \in waitRows : waitOf(v).id = v.wait_id
    BY DEF waitOf
  <2>2. QED BY <2>1, <1>6 DEF StoredWaits
<1>22. /\ WaitRowsOK'
       /\ StoredWaits' = StoredWaits \cup
            (IF F = {} THEN {y} ELSE {[Store!matchedBy(y, z) EXCEPT !.revision = 1] : z \in F})
  <2>1. CASE M = {}
    <3>1. F = {}
      BY <1>18, <2>1
    <3>2. waitRows' = waitRows \cup {w}
      BY <1>6, <2>1
    <3>3. WaitRowsOK' /\ StoredWaits' = StoredWaits \cup {y}
      BY <1>6, <1>11, <1>13, <3>2, RowAdded
    <3>4. QED BY <3>1, <3>3
  <2>2. CASE M # {}
    <3>1. PICK s \in M : TRUE
      BY <2>2
    <3>2. M = {s} /\ F = {signalOf(s)} /\ s \in SignalRow
      BY <3>1, <1>14, <1>18, <1>19
    <3>3. PICK v : v = [matchedRow(w, s) EXCEPT !.revision = 1]
      OBVIOUS
    <3>4. PICK z : z = [Store!matchedBy(y, signalOf(s)) EXCEPT !.revision = 1]
      OBVIOUS
    <3>5. WaitRowOK(v) /\ v.wait_key = waitSequence + 1 /\ waitOf(v) = z
      BY <1>11, <1>13, <3>2, <3>3, <3>4, MatchedAtOnce
    <3>6. waitRows' = waitRows \cup {v}
      <4>1. {[matchedRow(w, t) EXCEPT !.revision = 1] : t \in M} = {v}
        BY <3>2, <3>3
      <4>2. QED BY <4>1, <1>6, <2>2
    <3>7. WaitRowsOK' /\ StoredWaits' = StoredWaits \cup {z}
      BY <1>6, <3>5, <3>6, RowAdded
    <3>8. {[Store!matchedBy(y, t) EXCEPT !.revision = 1] : t \in F} = {z}
      BY <3>2, <3>4
    <3>9. F # {}
      BY <3>2
    <3>10. QED BY <3>7, <3>8, <3>9
  <2>3. QED BY <2>1, <2>2
<1>23. /\ SignalRowsOK' /\ StoredSignals' = StoredSignals /\ (signalSequence + 1)' = signalSequence + 1
       /\ (waitSequence + 1)' = k + 1 /\ k <= MaxWaitKey
  <2>1. k <= MaxWaitKey
    BY <1>1, <1>6, <1>9 DEF TableParameters
  <2>2. QED BY <1>1, <1>6, <2>1, SignalsStill
<1>24. Store!registerWait(id, lane, sel, at)
  BY <1>1, <1>12, <1>15, <1>17, <1>20, <1>21, <1>22, <1>23 DEF Store!registerWait
<1>25. QED BY <1>22, <1>23, <1>24 DEF RowsInv

LEMMA RowsAtStart == ASSUME Init PROVE RowsInv /\ Store!SignalInit
<1>1. RowsInv
  BY FS_EmptySet DEF Init, RowsInv, SignalRowsOK, WaitRowsOK
<1>2. Store!SignalInit
  BY DEF Init, Store!SignalInit, StoredSignals, StoredWaits
<1>3. QED BY <1>1, <1>2

LEMMA StepSimulated ==
  ASSUME TableParameters, RowsInv, [Next]_vars
  PROVE  RowsInv' /\ [Store!SignalNext]_Store!signalVars
<1>1. CASE UNCHANGED vars
  <2>1. RowsInv'
    BY <1>1 DEF vars, RowsInv, SignalRowsOK, WaitRowsOK, WaitRowOK, SignalRow, WaitRow, Ticks, Times
  <2>2. UNCHANGED Store!signalVars
    BY <1>1 DEF vars, Store!signalVars, StoredSignals, StoredWaits
  <2>3. QED BY <2>1, <2>2
<1>2. ASSUME NEW id \in SignalIds, NEW lane \in Lanes \cup {NoLane}, NEW kind \in Kinds, NEW tick \in Ticks,
             NEW at \in Times, recordRow(id, lane, kind, tick, at)
      PROVE  RowsInv' /\ Store!SignalNext
  BY <1>2, RecordSimulated DEF Store!SignalNext, Store!Times, Store!Ticks, Times, Ticks
<1>3. ASSUME NEW id \in WaitIds, NEW lane \in Lanes \cup {NoLane}, NEW sel \in Selectors, NEW at \in Times,
             registerWaitRow(id, lane, sel, at)
      PROVE  RowsInv' /\ Store!SignalNext
  BY <1>3, RegisterSimulated DEF Store!SignalNext, Store!Times, Times
<1>4. ASSUME NEW w \in waitRows, NEW rev \in 1 .. 2, NEW at \in Times, cancelWaitRow(w, rev, at)
      PROVE  RowsInv' /\ Store!SignalNext
  BY <1>4, CancelSimulated DEF Store!SignalNext, Store!Times, Times
<1>5. ASSUME NEW tick \in Ticks, NEW at \in Times, NEW n \in 1 .. MaxBatch, expireWaitRows(tick, at, n)
      PROVE  RowsInv' /\ Store!SignalNext
  BY <1>5, ExpireSimulated DEF Store!SignalNext, Store!Times, Store!Ticks, Times, Ticks
<1>6. ASSUME NEW t \in Times, NEW n \in 1 .. MaxBatch, purgeWaitRows(t, n) PROVE RowsInv' /\ Store!SignalNext
  BY <1>6, PurgeWaitsSimulated DEF Store!SignalNext, Store!Times, Times
<1>7. ASSUME NEW t \in Times, NEW n \in 1 .. MaxBatch, purgeSignalRows(t, n) PROVE RowsInv' /\ Store!SignalNext
  BY <1>7, PurgeSignalsSimulated DEF Store!SignalNext, Store!Times, Times
<1>8. CASE Next
  BY <1>2, <1>3, <1>4, <1>5, <1>6, <1>7, <1>8 DEF Next
<1>9. QED BY <1>1, <1>8

(* The durable store implements the store in memory: every transaction on  *)
(* the two tables is one operation of InMemorySignalStore on what the rows *)
(* stand for, whatever the limits and the selectors.                       *)
THEOREM TablesImplementStore == ASSUME TableParameters PROVE Spec => ImplementsSignalStore
<1>1. Init => RowsInv /\ Store!SignalInit
  BY RowsAtStart
<1>2. RowsInv /\ [Next]_vars => RowsInv' /\ [Store!SignalNext]_Store!signalVars
  BY StepSimulated
<1>3. QED BY <1>1, <1>2, PTL DEF Spec, ImplementsSignalStore, Store!SignalSpec

(* Every wait row can be loaded again, for as long as it is stored: the    *)
(* match hydrateWait looks for is there, because the store in memory keeps *)
(* the evidence of its waits and the tables implement it.                  *)
THEOREM RowsAlwaysLoad == ASSUME TableParameters PROVE Spec => []WaitsHydrate
<1>1. Store!SignalSpec => [](Store!NoSignalOverlooked /\ Store!EvidenceKept /\ Store!FanoutBounded)
  <2>1. Store!SignalAssumption
    BY DEF TableParameters, Store!SignalAssumption
  <2>2. QED BY <2>1, Store!NoneOverlooked
<1>2. ASSUME RowsInv, Store!EvidenceKept PROVE WaitsHydrate
  <2>1. ASSUME NEW w \in waitRows PROVE hydrateWait(w)
    <3>1. /\ w \in WaitRow /\ w.created_at \in Nat /\ w.updated_at \in Nat /\ w.created_at <= w.updated_at
          /\ w.status = "matched" <=> w.matched_signal_key # NULL
      BY <1>2 DEF RowsInv, WaitRowsOK, WaitRowOK, WaitRow, Times
    <3>2. ASSUME w.status = "matched"
          PROVE  \E s \in signalRows : s.signal_key = w.matched_signal_key /\ Accepted(w, s)
      <4>1. waitOf(w) \in StoredWaits /\ waitOf(w).status = "matched" /\ waitOf(w).matched = w.matched_signal_key
        BY <3>1, <3>2, WaitFields DEF StoredWaits, OrZero
      <4>2. PICK z \in StoredSignals : z.key = waitOf(w).matched /\ Store!signalWaitMatches(waitOf(w), z)
        BY <1>2, <4>1 DEF Store!EvidenceKept
      <4>3. PICK s \in signalRows : z = signalOf(s)
        BY <4>2 DEF StoredSignals
      <4>4. s \in SignalRow
        BY <1>2, <4>3 DEF RowsInv, SignalRowsOK
      <4>5. s.signal_key = w.matched_signal_key
        BY <4>1, <4>2, <4>3, <4>4, SignalFields
      <4>6. Accepted(w, s)
        BY <3>1, <4>2, <4>3, <4>4, MatchingAgrees
      <4>7. QED BY <4>5, <4>6
    <3>3. ASSUME NEW s \in signalRows, Accepted(w, s)
          PROVE  /\ w.lane \in {NoLane, s.lane} /\ s.kind \in w.kinds
                 /\ s.signal_key > OrZero(w.after_signal_key) /\ s.signal_tick > OrZero(w.after_tick)
                 /\ w.through_tick # NULL => s.signal_tick <= w.through_tick
      <4>1. s \in SignalRow
        BY <1>2 DEF RowsInv, SignalRowsOK
      <4>2. s.signal_key \in Nat /\ s.signal_key > 0 /\ s.signal_tick \in Nat /\ s.signal_tick > 0
        BY <4>1, SignalFields DEF TableParameters, Positive, Ticks
      <4>3. /\ w.after_signal_key \in Positive \cup {NULL} /\ w.after_tick \in Positive \cup {NULL}
            /\ w.through_tick \in Positive \cup {NULL}
        BY <3>1, WaitFields
      <4>4. s.signal_key > OrZero(w.after_signal_key)
        BY <3>3, <4>2, <4>3 DEF Accepted, OrZero, Positive, TableParameters
      <4>5. s.signal_tick > OrZero(w.after_tick)
        BY <3>3, <4>2, <4>3 DEF Accepted, OrZero, Positive, TableParameters
      <4>6. w.through_tick # NULL => s.signal_tick <= w.through_tick
        BY <3>3, <4>2, <4>3 DEF Accepted, Positive
      <4>7. QED BY <3>3, <4>4, <4>5, <4>6 DEF Accepted
    <3>4. QED BY <3>1, <3>2, <3>3 DEF hydrateWait
  <2>2. QED BY <2>1 DEF WaitsHydrate
<1>3. Init => RowsInv
  BY RowsAtStart
<1>4. RowsInv /\ [Next]_vars => RowsInv'
  BY StepSimulated
<1>5. Spec => Store!SignalSpec
  BY TablesImplementStore DEF ImplementsSignalStore
<1>6. RowsInv /\ Store!EvidenceKept => WaitsHydrate
  BY <1>2
<1>7. QED BY <1>1, <1>3, <1>4, <1>5, <1>6, PTL DEF Spec
=============================================================================
