-------------------------- MODULE DelegationNesting --------------------------
(***************************************************************************)
(* Foreground delegation over the lanes of the game runtime.  An actor     *)
(* runs one input at a time and at most capacity actors run at once; a run *)
(* whose tool delegated in the foreground keeps its actor and its place    *)
(* until the child's run has ended.                                        *)
(***************************************************************************)
EXTENDS Integers, FiniteSets, Sequences

CONSTANTS
  NestActors, NestRuns,
  Roots,                 \* the runs a host submits
  NoOne,
  Authorized,            \* pairs <<actor, target>> authorizeTarget allows
  Modes,                 \* of {"foreground", "background"}
  MaxDepth,              \* maxDepth of the delegation limits
  MaxNestedRuns,         \* maxActiveRuns of the delegation limits
  MaxCapacity            \* capacities a host may configure are 1 .. MaxCapacity

ASSUME NestingAssumption ==
  /\ MaxDepth \in Nat /\ MaxCapacity \in Nat /\ NoOne \notin NestRuns
  /\ Modes \subseteq {"foreground", "background"} /\ Roots \subseteq NestRuns

VARIABLES
  capacity,              \* maxActiveActors
  behind,                \* actor -> runs queued on it
  busyWith,              \* actor -> its active run, or NoOne
  depth, waitsFor        \* run -> its depth, and the child it waits for

nestingVars == <<capacity, behind, busyWith, depth, waitsFor>>

-----------------------------------------------------------------------------
known == DOMAIN depth
isQueued(r) == \E a \in NestActors : \E i \in DOMAIN behind[a] : behind[a][i] = r
running == {busyWith[a] : a \in NestActors} \ {NoOne}
live(r) == isQueued(r) \/ r \in running
isWaiting(r) == waitsFor[r] # NoOne /\ live(waitsFor[r])

capacityAtLeastDepth(n) == n >= MaxDepth

\* DelegationManager.create refuses a runtime of fewer actors.
capacityAccepted(n) == n > MaxDepth

NestingInit ==
  /\ capacity \in {n \in 1 .. MaxCapacity : capacityAccepted(n)}
  /\ behind = [a \in NestActors |-> << >>]
  /\ busyWith = [a \in NestActors |-> NoOne]
  /\ depth = << >> /\ waitsFor = << >>

Enlist(r, a, d) ==
  /\ r \notin known
  /\ behind' = [behind EXCEPT ![a] = Append(@, r)]
  /\ depth' = [x \in known \cup {r} |-> IF x = r THEN d ELSE depth[x]]

submitRoot(r, a) ==
  /\ r \in Roots
  /\ Enlist(r, a, 0)
  /\ waitsFor' = [x \in known \cup {r} |-> IF x = r THEN NoOne ELSE waitsFor[x]]
  /\ UNCHANGED <<capacity, busyWith>>

takeTurn(a) ==
  /\ busyWith[a] = NoOne /\ behind[a] # << >>
  /\ Cardinality(running) < capacity
  /\ busyWith' = [busyWith EXCEPT ![a] = Head(behind[a])]
  /\ behind' = [behind EXCEPT ![a] = Tail(@)]
  /\ UNCHANGED <<capacity, depth, waitsFor>>

\* The delegate_game_task tool of the run active on a.
delegateTool(a, target, mode, r) ==
  LET parent == busyWith[a]
  IN  /\ parent # NoOne /\ ~isWaiting(parent)
      /\ <<a, target>> \in Authorized
      /\ mode = "foreground" => target # a
      /\ depth[parent] + 1 <= MaxDepth
      /\ Cardinality({x \in known : depth[x] > 0 /\ live(x)}) < MaxNestedRuns
      /\ r \notin Roots
      /\ Enlist(r, target, depth[parent] + 1)
      /\ waitsFor' = [x \in known \cup {r} |->
           CASE x = r -> NoOne
             [] x = parent -> IF mode = "foreground" THEN r ELSE NoOne
             [] OTHER -> waitsFor[x]]
      /\ UNCHANGED <<capacity, busyWith>>

\* shouldStopAfterTurn, an answer or a failure: the run ends.
finish(a) ==
  /\ busyWith[a] # NoOne /\ ~isWaiting(busyWith[a])
  /\ busyWith' = [busyWith EXCEPT ![a] = NoOne]
  /\ UNCHANGED <<capacity, behind, depth, waitsFor>>

NestingNext ==
  \/ \E r \in NestRuns, a \in NestActors : submitRoot(r, a)
  \/ \E a, t \in NestActors, mode \in Modes, r \in NestRuns : delegateTool(a, t, mode, r)
  \/ \E a \in NestActors : takeTurn(a) \/ finish(a)

NestingSpec == NestingInit /\ [][NestingNext]_nestingVars

-----------------------------------------------------------------------------
(* One nest at a time: of the runs the host submitted one at most has not *)
(* ended, and only foreground delegations are made.  A second root, or a   *)
(* background child, may take the place that the nest still needs.         *)
OneNest ==
  /\ Modes = {"foreground"}
  /\ \A r, s \in Roots : live(r) /\ live(s) => r = s

(* Nobody waits on everybody: while a run of one nest is unfinished, some  *)
(* active run is not waiting for a child or some queued run can start.     *)
NestingDrains ==
  OneNest /\ (\E r \in known : live(r)) =>
    \/ \E r \in running : ~isWaiting(r)
    \/ /\ Cardinality(running) < capacity
       /\ \E a \in NestActors : busyWith[a] = NoOne /\ behind[a] # << >>
=============================================================================
