------------------------ MODULE SqliteBehaviorStore ------------------------
(***************************************************************************)
(* The store of behaviour skills in SQLite: four tables, each with a key   *)
(* drawn from its own sequence.  Each call is a transaction, and reads     *)
(* back, with every check of hydration, the rows it decides from.          *)
(***************************************************************************)
EXTENDS Integers, Sequences, FiniteSets, Functions, TLC

CONSTANTS ProposalIds, RegistryKeys, Contents, MaxProposals, MaxRevision, MaxTime, None

VARIABLES
  proposalRows,  \* oga_behavior_proposals
  registryRows,  \* oga_behavior_registries
  versionRows,   \* oga_behavior_versions
  changeRows,    \* oga_behavior_changes
  behaviorKeys   \* the sequences of the keys

behaviorTables == <<proposalRows, registryRows, versionRows, changeRows, behaviorKeys>>

TablesInit ==
  /\ proposalRows = {} /\ registryRows = {} /\ versionRows = {} /\ changeRows = {}
  /\ behaviorKeys = [proposal |-> 0, version |-> 0, change |-> 0]

(* A scope is an actor or a shared registry: a kind and an identifier.     *)
encodeScope(scope) == [kind |-> scope.kind, id |-> scope.id]
decodeScope(kind, id) == [kind |-> kind, id |-> id]
KeyColumns(rk) ==
  [partition |-> rk.partition, scope_kind |-> rk.scope.kind, scope_id |-> rk.scope.id, skill |-> rk.skill]
registryKeyFromRow(r) ==
  [partition |-> r.partition, scope |-> decodeScope(r.scope_kind, r.scope_id), skill |-> r.skill]
behaviorContentFingerprint(rk, content, base) == <<rk, content, base>>

findProposalRow(partition, id) == {r \in proposalRows : r.partition = partition /\ r.id = id}
findRegistryRow(rk) == {r \in registryRows : registryKeyFromRow(r) = rk}
findVersionRow(rk, number) == {r \in versionRows : registryKeyFromRow(r) = rk /\ r.version = number}
findVersionRowByProposal(partition, id) == {r \in versionRows : r.partition = partition /\ r.source = id}

(* ---- Hydration ---- *)
ContentReads(r) == r.fingerprint = behaviorContentFingerprint(registryKeyFromRow(r), r.content, r.base)

(* A version and its proposal name each other and say the same.            *)
Linked(version, proposal) ==
  /\ proposal.status = "activated" /\ version.partition = proposal.partition /\ version.source = proposal.id
  /\ registryKeyFromRow(version) = registryKeyFromRow(proposal)
  /\ version.fingerprint = proposal.fingerprint /\ version.base = proposal.base
  /\ version.created = proposal.updated

ProposalReads(r) ==
  /\ ContentReads(r) /\ r.created <= r.updated
  /\ r.revision = (CASE r.status = "pending" -> 1 [] r.status = "activated" -> 3 [] OTHER -> 2)
  /\ r.status = "pending" => ~r.decided /\ r.updated = r.created
  /\ r.status # "pending" => r.decided
VersionReads(v) ==
  ContentReads(v) /\ \E p \in findProposalRow(v.partition, v.source) : ProposalReads(p) /\ Linked(v, p)
hydrateVersion(v) == VersionReads(v)
hydrateProposal(r) ==
  /\ ProposalReads(r)
  /\ r.status = "activated" =>
       \E v \in findVersionRowByProposal(r.partition, r.id) : hydrateVersion(v) /\ Linked(v, r)
hydrateRegistry(r) ==
  /\ r.latest <= r.revision
  /\ r.active # None =>
       /\ r.active <= r.latest
       /\ \E v \in findVersionRow(registryKeyFromRow(r), r.active) :
            hydrateVersion(v) /\ v.created <= r.updated
hydrateChange(c) ==
  /\ c.type = "activate" => c.to # None /\ c.source # None
  /\ c.type = "rollback" => c.to # None /\ c.source = None
  /\ c.type = "demote" => c.to = None /\ c.source = None
  /\ \E r \in findRegistryRow(registryKeyFromRow(c)) :
       hydrateRegistry(r) /\ c.revision <= r.revision /\ c.time <= r.updated

(* ---- What the rows say ---- *)
ProposalKeyOf(r) == <<r.partition, r.id>>
TheRow(rows) == CHOOSE r \in rows : TRUE
ProposalsRead ==
  [pk \in {ProposalKeyOf(r) : r \in proposalRows} |->
     LET r == TheRow(findProposalRow(pk[1], pk[2]))
     IN [key |-> r.key, registry |-> registryKeyFromRow(r), content |-> r.content, base |-> r.base,
         revision |-> r.revision, status |-> r.status, created |-> r.created, updated |-> r.updated]]
RegistriesRead ==
  [rk \in {registryKeyFromRow(r) : r \in registryRows} |->
     LET r == TheRow(findRegistryRow(rk))
     IN [revision |-> r.revision, latest |-> r.latest, active |-> r.active, updated |-> r.updated]]
VersionsRead ==
  [vk \in {<<registryKeyFromRow(r), r.version>> : r \in versionRows} |->
     LET r == TheRow(findVersionRow(vk[1], vk[2]))
     IN [key |-> r.key, source |-> <<r.partition, r.source>>, base |-> r.base,
         content |-> r.content, created |-> r.created]]
ChangesRead ==
  {[key |-> r.key, registry |-> registryKeyFromRow(r), revision |-> r.revision, type |-> r.type,
    from |-> r.from, to |-> r.to, time |-> r.time,
    source |-> IF r.source = None THEN None ELSE <<r.partition, r.source>>] : r \in changeRows}

Behavior == INSTANCE BehaviorStore WITH
  proposals <- ProposalsRead, registries <- RegistriesRead, versions <- VersionsRead,
  changes <- ChangesRead, keys <- behaviorKeys

(* ---- Calls ---- *)
createProposal(id, rk, content, base, time, maxOpen) ==
  /\ findProposalRow(rk.partition, id) = {}
  /\ Cardinality({r \in proposalRows : r.partition = rk.partition /\ r.status \in {"pending", "validated"}}) < maxOpen
  /\ behaviorKeys.proposal < MaxProposals
  /\ proposalRows' = proposalRows \cup
       {KeyColumns(rk) @@
        [key |-> behaviorKeys.proposal + 1, id |-> id, content |-> content, base |-> base,
         fingerprint |-> behaviorContentFingerprint(rk, content, base),
         status |-> "pending", decided |-> FALSE, revision |-> 1, created |-> time, updated |-> time]}
  /\ behaviorKeys' = [behaviorKeys EXCEPT !.proposal = @ + 1]
  /\ UNCHANGED <<registryRows, versionRows, changeRows>>

UpdateProposal(r, status, time) ==
  proposalRows' = (proposalRows \ {r}) \cup
    {[r EXCEPT !.status = status, !.decided = TRUE, !.revision = @ + 1, !.updated = time]}

decideProposal(partition, id, revision, status, time) ==
  \E r \in findProposalRow(partition, id) :
    /\ hydrateProposal(r)
    /\ r.revision = revision /\ r.status = "pending" /\ r.updated <= time
    /\ UpdateProposal(r, status, time)
    /\ UNCHANGED <<registryRows, versionRows, changeRows, behaviorKeys>>

InsertChange(rk, revision, type, from, to, source, time) ==
  changeRows' = changeRows \cup
    {KeyColumns(rk) @@
     [key |-> behaviorKeys.change + 1, revision |-> revision, type |-> type, from |-> from,
      to |-> to, source |-> source, time |-> time]}

WriteRegistry(rk, revision, latest, active, time) ==
  registryRows' = (registryRows \ findRegistryRow(rk)) \cup
    {KeyColumns(rk) @@ [revision |-> revision, latest |-> latest, active |-> active, updated |-> time]}

NoRegistry == [revision |-> 0, latest |-> 0, active |-> None, updated |-> 0]
activateProposal(partition, id, revision, time, maxVersions) ==
  \E r \in findProposalRow(partition, id) :
    LET rk == registryKeyFromRow(r)
        current == IF findRegistryRow(rk) = {} THEN NoRegistry ELSE TheRow(findRegistryRow(rk))
    IN /\ hydrateProposal(r) /\ \A registry \in findRegistryRow(rk) : hydrateRegistry(registry)
       /\ r.revision = revision /\ r.status = "validated" /\ r.updated <= time
       /\ current.active = r.base /\ current.updated <= time /\ current.revision < MaxRevision
       /\ Cardinality({v \in versionRows : registryKeyFromRow(v) = rk}) < maxVersions
       /\ findVersionRowByProposal(partition, id) = {}
       /\ WriteRegistry(rk, current.revision + 1, current.latest + 1, current.latest + 1, time)
       /\ versionRows' = versionRows \cup
            {KeyColumns(rk) @@
             [key |-> behaviorKeys.version + 1, version |-> current.latest + 1, source |-> id, base |-> r.base,
              content |-> r.content, fingerprint |-> r.fingerprint, created |-> time]}
       /\ UpdateProposal(r, "activated", time)
       /\ InsertChange(rk, current.revision + 1, "activate", current.active, current.latest + 1, id, time)
       /\ behaviorKeys' = [behaviorKeys EXCEPT !.version = @ + 1, !.change = @ + 1]

transitionRegistry(rk, revision, target, time) ==
  \E r \in findRegistryRow(rk) :
    /\ hydrateRegistry(r)
    /\ r.revision = revision /\ r.active # target /\ r.updated <= time /\ revision < MaxRevision
    /\ target # None => \E v \in findVersionRow(rk, target) : hydrateVersion(v)
    /\ WriteRegistry(rk, revision + 1, r.latest, target, time)
    /\ InsertChange(rk, revision + 1, IF target = None THEN "demote" ELSE "rollback", r.active, target, None, time)
    /\ behaviorKeys' = [behaviorKeys EXCEPT !.change = @ + 1]
    /\ UNCHANGED <<proposalRows, versionRows>>

(* ---- Retention ---- *)
FirstRows(rows, limit) == {r \in rows : Cardinality({o \in rows : o.key < r.key}) < limit}

(* Mutant: a proposal is purged before the version it explains. *)
purgeActivatedProposals(partition, before, limit) ==
  /\ proposalRows' = proposalRows \ FirstRows(
       {r \in proposalRows : r.partition = partition /\ r.updated < before /\ r.status \in {"rejected", "activated"}},
       limit)
  /\ UNCHANGED <<registryRows, versionRows, changeRows, behaviorKeys>>

purgeProposals(partition, before, limit) ==
  /\ proposalRows' = proposalRows \ FirstRows(
       {r \in proposalRows :
          /\ r.partition = partition /\ r.updated < before
          /\ \/ r.status = "rejected"
             \/ r.status = "activated" /\ findVersionRowByProposal(partition, r.id) = {}}, limit)
  /\ UNCHANGED <<registryRows, versionRows, changeRows, behaviorKeys>>

purgeInactiveVersions(rk, before, limit) ==
  \E r \in findRegistryRow(rk) :
    /\ hydrateRegistry(r)
    /\ versionRows' = versionRows \ FirstRows(
         {v \in versionRows : registryKeyFromRow(v) = rk /\ (r.active = None \/ v.version # r.active)
                              /\ v.created < before}, limit)
    /\ UNCHANGED <<proposalRows, registryRows, changeRows, behaviorKeys>>

purgeChanges(rk, before, limit) ==
  /\ changeRows' = changeRows \ FirstRows({c \in changeRows : registryKeyFromRow(c) = rk /\ c.time < before}, limit)
  /\ UNCHANGED <<proposalRows, registryRows, versionRows, behaviorKeys>>

Partitions == {rk.partition : rk \in RegistryKeys}
Numbers == 1..MaxRevision
NumbersGiven == 1..MaxProposals  \* to versions: one from each proposal at most
TablesNext ==
  \/ \E time \in 0..MaxTime :
       \/ \E id \in ProposalIds, rk \in RegistryKeys, content \in Contents, base \in NumbersGiven \cup {None} :
            createProposal(id, rk, content, base, time, MaxProposals)
       \/ \E partition \in Partitions, id \in ProposalIds, revision \in 1..3 :
            \/ \E status \in {"validated", "rejected"} : decideProposal(partition, id, revision, status, time)
            \/ activateProposal(partition, id, revision, time, MaxRevision)
       \/ \E rk \in RegistryKeys, revision \in Numbers, target \in NumbersGiven \cup {None} :
            transitionRegistry(rk, revision, target, time)
  \/ \E before \in 0..MaxTime, limit \in {1, 2} :
       \/ \E partition \in Partitions : purgeProposals(partition, before, limit)
       \/ \E rk \in RegistryKeys : purgeInactiveVersions(rk, before, limit) \/ purgeChanges(rk, before, limit)

(* The view of several scopes: registries joined with their active version,*)
(* the rows of a skill ranked by their scope, the first of each kept.      *)
listActive(partition, scopes) ==
  LET Rank(r) == CHOOSE i \in DOMAIN scopes : encodeScope(scopes[i]) = decodeScope(r.scope_kind, r.scope_id)
      candidates ==
        {r \in registryRows :
           /\ r.partition = partition /\ r.active # None
           /\ \E i \in DOMAIN scopes : encodeScope(scopes[i]) = decodeScope(r.scope_kind, r.scope_id)
           /\ findVersionRow(registryKeyFromRow(r), r.active) # {}}
  IN {<<registryKeyFromRow(r), r.active>> : r \in
        {r \in candidates : Cardinality({o \in candidates : o.skill = r.skill /\ Rank(o) < Rank(r)}) = 0}}

(* The version an activated proposal led to was purged before it: from then *)
(* on getProposal, and every page of listProposals that reaches the row,   *)
(* fail with invalid_behavior_activation_link until purgeProposals deletes *)
(* it, where the in-memory store still returns the proposal.               *)
ActivationLost(r) == r.status = "activated" /\ findVersionRowByProposal(r.partition, r.id) = {}

(* The rows that fail their validation when they are read are exactly the  *)
(* activated proposals whose version was purged, every other row of the    *)
(* four tables loads, and a view shows the same skills as the store's.     *)
TablesAgree ==
  /\ \A r \in proposalRows : hydrateProposal(r) <=> ~ActivationLost(r)
  /\ \A r \in registryRows : hydrateRegistry(r)
  /\ \A v \in versionRows : hydrateVersion(v)
  /\ \A c \in changeRows : hydrateChange(c)
  /\ \A partition \in Partitions :
       LET scopes == {rk.scope : rk \in RegistryKeys}
           Orders == {<<s>> : s \in scopes} \cup {<<pair[1], pair[2]>> : pair \in {p \in scopes \X scopes : p[1] # p[2]}}
       IN \A order \in Orders : listActive(partition, order) = Behavior!listActive(partition, order)
=============================================================================
