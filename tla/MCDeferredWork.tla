--------------------------- MODULE MCDeferredWork ---------------------------
(***************************************************************************)
(* Small instances of the stores of schedules and of delegations, and of   *)
(* the processes that work on them, for TLC; a behaviour is about one.     *)
(*   leases     one schedule whose occurrences are claimed, lapse and are  *)
(*              settled under times that may run backwards                 *)
(*   clock      two schedules advanced over several ticks                  *)
(*   schedules  the SQLite store of schedules behind two connections       *)
(*   dispatch   two dispatchers that turn occurrences into signals         *)
(*   claims     the in-memory store of delegations                         *)
(*   tasks      the SQLite store of delegations                            *)
(*   manager    two run() calls of one task and a worker of another process*)
(*   shared     two tasks of one actor, run one after the other            *)
(*   nesting    foreground delegations of one root down to the depth limit *)
(***************************************************************************)
EXTENDS DelegationManager, ScheduleStore, DelegationNesting, TLC

CONSTANTS l1, s1, s2, a1, a2, a3, r1, t1, t2, c1, c2, w1, w2, Free, NULL,
          d1, d2, d3, d4, worker, There, run1, run2, run3, run4, res, code, n1, n2, n3, n4

VARIABLES
  session,
  job, signals, recorded,
  scheduleRows, occurrenceRows, advanceRows, clockRow, retirementRows,
  scheduleSequence, occurrenceSequence, plan, rowReceipts, rowAcks, rowHistory,
  tasks, claims, settled, lastKey,
  rows, sequence

dispatchers == <<job, signals, recorded>>
scheduleTables == <<scheduleRows, occurrenceRows, advanceRows, clockRow, retirementRows,
            scheduleSequence, occurrenceSequence, plan, rowReceipts, rowAcks, rowHistory>>
claimed == <<tasks, claims, settled, lastKey>>
delegationTable == <<rows, sequence>>
scheduling == <<scheduleVars, dispatchers, scheduleTables>>
delegating == <<claimed, allVars, delegationTable, nestingVars>>
vars == <<session, scheduling, delegating>>

OneShot == [interval |-> 0, maximum |-> 1]
Twice == [interval |-> 1, maximum |-> 2]
Forever == [interval |-> 2, maximum |-> 0]

AllPlans == {OneShot, Twice, Forever}

Clock == INSTANCE ScheduleStore WITH
  Lanes <- {l1}, ScheduleIds <- {s1, s2}, AdvanceIds <- {a1, a2}, RetirementIds <- {r1},
  Plans <- {Twice, Forever}, Tokens <- {t1}, MaxTick <- 4, MaxScheduleTime <- 0,
  RecordTimes <- {0}, MaxScheduleKey <- 2, MaxOccurrenceKey <- 3, MaxScheduleCounter <- 3,
  MaxActive <- 2, MaxPendingOccurrences <- 3, MaxGenerated <- 3, MaxClaim <- 2

Dispatch == INSTANCE ScheduledSignalDispatcher WITH
  Lanes <- {l1}, ScheduleIds <- {s1}, AdvanceIds <- {a1}, RetirementIds <- {r1},
  Plans <- {OneShot}, Tokens <- {t1, t2}, MaxTick <- 1, MaxScheduleTime <- 2,
  RecordTimes <- {0}, MaxScheduleKey <- 1, MaxOccurrenceKey <- 1, MaxScheduleCounter <- 5,
  MaxActive <- 1, MaxPendingOccurrences <- 1, MaxGenerated <- 1, MaxClaim <- 1, Workers <- {w1, w2}

ScheduleTable == INSTANCE SqliteScheduleStore WITH
  Lanes <- {l1}, ScheduleIds <- {s1}, AdvanceIds <- {a1, a2}, RetirementIds <- {r1},
  Plans <- {Twice}, Tokens <- {t1, t2}, MaxTick <- 2, MaxScheduleTime <- 1,
  RecordTimes <- {0}, MaxScheduleKey <- 1, MaxOccurrenceKey <- 2, MaxScheduleCounter <- 4,
  MaxActive <- 1, MaxPendingOccurrences <- 2, MaxGenerated <- 2, MaxClaim <- 2, Connections <- {c1, c2},
  receipts <- rowReceipts, acks <- rowAcks, history <- rowHistory

Delegations == INSTANCE DelegationStore WITH
  records <- tasks, leases <- claims, settledTokens <- settled, nextKey <- lastKey,
  Ids <- {d1, d2}, Owners <- {worker}, ChildRuns <- {run1, run2}, Results <- {res}, Codes <- {code},
  MaxTime <- 2, MaxKey <- 2, MaxCounter <- 6, MaxPending <- 2, MaxBatch <- 2

DelegationTable == INSTANCE SqliteDelegationStore WITH
  Ids <- {d1, d2}, Owners <- {worker}, ChildRuns <- {run1, run2}, Results <- {res}, Codes <- {code},
  MaxTime <- 2, MaxKey <- 2, MaxCounter <- 4, MaxPending <- 2, MaxBatch <- 2

ActorOf == [id \in {d1} |-> a1]
RunOf == [id \in {d1} |-> run3]

Shared == INSTANCE DelegationManager WITH
  Ids <- {d3, d4}, Owners <- {Here}, ChildRuns <- {run3, run4}, Results <- {res}, Codes <- failureCodes,
  Calls <- {c1}, MaxTime <- 1, MaxKey <- 3, MaxCounter <- 6, MaxPending <- 3, MaxBatch <- 1,
  MaxActiveRuns <- 2, TargetOf <- [id \in {d3, d4} |-> a1],
  ChildRun <- [id \in {d3, d4} |-> IF id = d3 THEN run3 ELSE run4], Changed <- {}

(* Bounds on revisions: the task of two calls stops short of the largest,  *)
(* and of two tasks either one reaches it or both are settled.             *)
ShortOfLimit == \A r \in records : r.revision < MaxCounter
OneAtLimit == \A r, q \in records : r # q => r.revision + q.revision <= MaxCounter + 2

(* a1 may delegate to a2 and a3, a2 to a3. *)
Downwards == {<<a1, a2>>, <<a1, a3>>, <<a2, a3>>}

Init ==
  /\ session \in {"leases", "clock", "schedules", "dispatch", "claims", "tasks", "manager", "shared", "nesting"}
  /\ Dispatch!DispatchInit /\ ScheduleTable!Init
  /\ \/ session = "manager" /\ ManagerInit
     \/ session = "shared" /\ Shared!ManagerInit
     \/ /\ session \notin {"manager", "shared"}
        /\ DelegationInit /\ call = << >> /\ activeTasks = << >> /\ starting = 0 /\ child = << >> /\ cancelling = {}
  /\ Delegations!DelegationInit
  /\ DelegationTable!Init
  /\ NestingInit /\ (session # "nesting" => capacity = 4)

Next ==
  /\ UNCHANGED session
  /\ \/ /\ UNCHANGED delegating
        /\ \/ session = "leases" /\ ScheduleNext /\ UNCHANGED <<dispatchers, scheduleTables>>
           \/ session = "clock" /\ Clock!ScheduleNext /\ UNCHANGED <<dispatchers, scheduleTables>>
           \/ session = "dispatch" /\ Dispatch!DispatchNext /\ UNCHANGED scheduleTables
           \/ session = "schedules" /\ ScheduleTable!Next /\ UNCHANGED <<scheduleVars, dispatchers>>
     \/ /\ UNCHANGED scheduling
        /\ \/ session = "claims" /\ Delegations!DelegationNext /\ UNCHANGED <<allVars, delegationTable, nestingVars>>
           \/ session = "tasks" /\ DelegationTable!Next /\ UNCHANGED <<claimed, allVars, nestingVars>>
           \/ session = "manager" /\ ManagerNext /\ ShortOfLimit' /\ UNCHANGED <<claimed, delegationTable, nestingVars>>
           \/ session = "shared" /\ Shared!ManagerNext /\ OneAtLimit' /\ UNCHANGED <<claimed, delegationTable, nestingVars>>
           \/ session = "nesting" /\ NestingNext /\ UNCHANGED <<claimed, allVars, delegationTable>>

Spec == Init /\ [][Next]_vars

\* What is alike in a session: its callers, and its tokens or tasks (those of Shared
\* with their runs), which one permutation swaps together.
Swap(f) == [x \in DOMAIN f \cup Range(f) |-> IF x \in DOMAIN f THEN f[x] ELSE CHOOSE y \in DOMAIN f : f[y] = x]
Symmetry == Permutations({c1, c2}) \cup {Swap(t1 :> t2 @@ d1 :> d2 @@ d3 :> d4 @@ run3 :> run4)}

(* An occurrence is completed only after its signal is on record, a        *)
(* retried dispatch is never refused over the signal on record, and once a *)
(* lane is finalized none of its occurrences becomes a signal.             *)
SignalBeforeCompletion ==
  /\ [](session = "dispatch" => Dispatch!SignalBeforeCompletion /\ Dispatch!RetrySameSignal)
  /\ Dispatch!NoSignalAfterFinalize

(* Every transaction of the two SQLite stores, with advances and claims    *)
(* planned outside the transaction that commits them, is a step of the     *)
(* in-memory store; the child run and the outcome of a task never change   *)
(* once they are set.  The maps of the schedules describe the same         *)
(* occurrences, whose schedule and advance are there; a retired lane keeps *)
(* only what was in flight; every row of either database passes its        *)
(* validation when it is read again.                                       *)
ImplementsStores ==
  /\ [](session = "leases" => /\ ScheduleTypeOK /\ DeliveriesAgree
                              /\ OccurrencesResolve /\ RetirementDrains)
  /\ [](session = "schedules" => ScheduleTable!RowsHydrate)
  /\ [](session = "tasks" => DelegationTable!RowsLoadable)
  /\ [](session = "claims" => Delegations!LastHolderSettles)
  /\ ScheduleTable!Store!ScheduleInit /\ DelegationTable!Store!DelegationInit /\ Delegations!BindingAndOutcomeFinal
  /\ [][session = "schedules" => [ScheduleTable!Store!ScheduleNext]_(ScheduleTable!Store!scheduleVars)]_vars
  /\ [][session = "tasks" => [DelegationTable!Store!DelegationNext]_(DelegationTable!Store!delegationVars)]_vars
=============================================================================
