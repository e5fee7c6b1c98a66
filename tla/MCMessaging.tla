---------------------------- MODULE MCMessaging ----------------------------
(***************************************************************************)
(* Small instances of the mailbox and the signal stores for TLC, in memory *)
(* and on SQLite, and of the registry of deliveries over the mailbox.  A   *)
(* behaviour is about one of them; the others stay as they were opened.    *)
(***************************************************************************)
EXTENDS SignalStore, MailboxStore, TLC

CONSTANTS
  r1, r2,              \* recipients
  i1, i2,              \* message ids
  o1,                  \* a lease owner
  t1, t2, t3,          \* lease tokens
  x1,                  \* a retirement id
  c1, c2,              \* database connections
  l1, s1, s2, w1, w2, k1,   \* lane, signals, waits and kind
  NULL

VARIABLES
  store,               \* the store the behaviour is about
  active, serial, section, checks, granted,
  rows, retirementRows, sequence, plan, rowReceipts, rowAcks,
  signalRows, waitRows, signalSequence, waitSequence

registry == <<active, serial, section, checks, granted>>
database == <<rows, retirementRows, sequence, plan, rowReceipts, rowAcks>>
signalTables == <<signalRows, waitRows, signalSequence, waitSequence>>
vars == <<store, mailboxVars, registry, database, signalVars, signalTables>>

Registry == INSTANCE MailboxRegistry WITH
  Recipients <- {r1}, Ids <- {i1}, Tokens <- {t1, t2},
  MaxKey <- 1, MaxClaim <- 1, MaxActive <- 1, MaxRegistrations <- 2

Sqlite == INSTANCE SqliteMailboxStore WITH
  Recipients <- {r1}, MaxTime <- MaxInstant, Connections <- {c1, c2},
  receipts <- rowReceipts, acks <- rowAcks

(* Waits for a signal before a deadline, after another signal, or after a tick. *)
MCSelectors == {[kinds |-> {k1}, afterKey |-> 0, afterTick |-> 0, throughTick |-> 1],
                [kinds |-> {k1}, afterKey |-> 1, afterTick |-> 0, throughTick |-> 0],
                [kinds |-> {k1}, afterKey |-> 0, afterTick |-> 1, throughTick |-> 0]}

SqliteSignals == INSTANCE SqliteSignalStore WITH
  MaxTick <- 1

Init ==
  /\ store \in {"mailbox", "registry", "database", "signals", "signalTables"}
  /\ Registry!RegistryInit /\ Sqlite!Init /\ SignalInit /\ SqliteSignals!Init

Next ==
  /\ UNCHANGED store
  /\ \/ store = "mailbox" /\ MailboxNext /\ UNCHANGED <<registry, database, signalVars, signalTables>>
     \/ store = "registry" /\ Registry!RegistryNext /\ UNCHANGED <<database, signalVars, signalTables>>
     \/ store = "database" /\ Sqlite!Next /\ UNCHANGED <<mailboxVars, registry, signalVars, signalTables>>
     \/ store = "signals" /\ SignalNext /\ UNCHANGED <<mailboxVars, registry, database, signalTables>>
     \/ store = "signalTables" /\ SqliteSignals!Next /\ UNCHANGED <<mailboxVars, registry, database, signalVars>>

Spec == Init /\ [][Next]_vars

Symmetry == Permutations({t1, t2, t3}) \cup Permutations({i1, i2}) \cup Permutations({r1, r2})
             \cup Permutations({c1, c2}) \cup Permutations({w1, w2}) \cup Permutations({s1, s2})

(* A message is settled once, by the holder of its last lease, however     *)
(* often completions and abandonments are retried, and the slot of its     *)
(* delivery in the registry is free again.  A settlement is final: the     *)
(* message is never pending again, the outcome of a wait is never changed, *)
(* and no tool of a run is authorized after the settlement of its delivery *)
(* was confirmed, although the check asserts the lease outside the         *)
(* registry's mutex.                                                       *)
SettlementFinal ==
  /\ [](store = "mailbox" => OneSettlement)
  /\ [](store = "registry" => Registry!SettledEntriesFreed)
  /\ SettledForEver /\ OutcomeFinal /\ Registry!NoToolAfterSettlement

(* Every transaction of the SQLite stores, with claims planned outside the *)
(* transaction that commits them, is a step of the in-memory stores; every *)
(* row passes the validation of hydrate when it is read again, the maps of *)
(* the mailbox describe the same messages, a retired authority keeps only  *)
(* what was in flight, a matched wait keeps its signal, and no signal      *)
(* wakes more waits than its bound.                                        *)
ImplementsInMemory ==
  /\ Sqlite!Mailbox!MailboxInit /\ SqliteSignals!Store!SignalInit
  /\ [][/\ store = "database" => [Sqlite!Mailbox!MailboxNext]_(Sqlite!Mailbox!mailboxVars)
        /\ store = "signalTables" => [SqliteSignals!Store!SignalNext]_(SqliteSignals!Store!signalVars)]_vars
  /\ [](store = "database" => Sqlite!RowsHydrate)
  /\ [](store = "signalTables" => SqliteSignals!WaitsHydrate)
  /\ [](store = "mailbox" => MailboxTypeOK /\ MapsAgree /\ RetirementDrains)
  /\ [](EvidenceKept /\ FanoutBounded)
=============================================================================
