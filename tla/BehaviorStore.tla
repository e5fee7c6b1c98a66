---------------------------- MODULE BehaviorStore ----------------------------
(***************************************************************************)
(* The registry of behaviour skills: proposals that are decided once, the  *)
(* versions they become, which version of a skill is active, and the log   *)
(* of its changes.  Each call holds the store's mutex.  Tick and timestamp *)
(* of a call move together here and are one time.                          *)
(***************************************************************************)
EXTENDS Integers, FiniteSets, Functions

CONSTANTS
  ProposalIds,   \* identifiers of proposals
  RegistryKeys,  \* records: partition, scope and skill
  Contents,      \* what a proposal describes
  MaxProposals,  \* bound on the proposals ever created
  MaxRevision,   \* bound on a registry's revision
  MaxTime,
  None           \* no version

VARIABLES
  proposals,     \* <<partition, id>> -> proposal
  registries,    \* registry key -> its state
  versions,      \* <<registry key, number>> -> version
  changes,       \* the retained changes
  keys           \* the last key given to a proposal, a version and a change

store == <<proposals, registries, versions, changes, keys>>

Times == 0..MaxTime
ProposalKeys == {rk.partition : rk \in RegistryKeys} \X ProposalIds
ProposalKey(rk, id) == <<rk.partition, id>>

StoreInit ==
  /\ proposals = << >> /\ registries = << >> /\ versions = << >> /\ changes = {}
  /\ keys = [proposal |-> 0, version |-> 0, change |-> 0]

Without(f, gone) == Restrict(f, DOMAIN f \ gone)
With(f, k, v) == [x \in DOMAIN f \cup {k} |-> IF x = k THEN v ELSE f[x]]
ActiveVersion(rk) == IF rk \in DOMAIN registries THEN registries[rk].active ELSE None
VersionsOf(rk) == {vk \in DOMAIN versions : vk[1] = rk}
isOpenProposal(p) == p.status \in {"pending", "validated"}
assertChronology(record, time) == record.updated <= time

(* The first `limit` of a set of keys, in the order of their records' key. *)
Batch(candidates, KeyOf, limit) ==
  {c \in candidates : Cardinality({d \in candidates : KeyOf[d] < KeyOf[c]}) < limit}

(* ---- Proposals ---- *)
CanCreate(id, rk, maxOpen) ==
  /\ ProposalKey(rk, id) \notin DOMAIN proposals
  /\ Cardinality({pk \in DOMAIN proposals : pk[1] = rk.partition /\ isOpenProposal(proposals[pk])}) < maxOpen

createProposal(id, rk, content, base, time, maxOpen) ==
  /\ CanCreate(id, rk, maxOpen) /\ keys.proposal < MaxProposals
  /\ proposals' = With(proposals, ProposalKey(rk, id),
       [key |-> keys.proposal + 1, registry |-> rk, content |-> content, base |-> base,
        revision |-> 1, status |-> "pending", created |-> time, updated |-> time])
  /\ keys' = [keys EXCEPT !.proposal = @ + 1]
  /\ UNCHANGED <<registries, versions, changes>>

(* Mutant: a decision does not look at what was decided before it. *)
CanDecideAgain(pk, revision, time) ==
  pk \in DOMAIN proposals /\ assertChronology(proposals[pk], time)

CanDecide(pk, revision, time) ==
  /\ pk \in DOMAIN proposals
  /\ proposals[pk].revision = revision /\ proposals[pk].status = "pending"
  /\ assertChronology(proposals[pk], time)

decideProposal(pk, revision, status, time) ==
  /\ CanDecide(pk, revision, time)
  /\ proposals' = [proposals EXCEPT ![pk].status = status, ![pk].revision = @ + 1, ![pk].updated = time]
  /\ UNCHANGED <<registries, versions, changes, keys>>

(* ---- What is active ---- *)
CanActivate(pk, revision, time, maxVersions) ==
  /\ pk \in DOMAIN proposals
  /\ LET proposal == proposals[pk] IN
       /\ proposal.revision = revision /\ proposal.status = "validated"
       /\ assertChronology(proposal, time)
       /\ ActiveVersion(proposal.registry) = proposal.base
       /\ proposal.registry \in DOMAIN registries => assertChronology(registries[proposal.registry], time)
       /\ Cardinality(VersionsOf(proposal.registry)) < maxVersions

Change(rk, revision, type, from, to, source, time) ==
  [key |-> keys.change + 1, registry |-> rk, revision |-> revision, type |-> type,
   from |-> from, to |-> to, source |-> source, time |-> time]

(* The next version of the skill, whatever was purged, becomes active.     *)
activateProposal(pk, revision, time, maxVersions) ==
  /\ CanActivate(pk, revision, time, maxVersions)
  /\ LET proposal == proposals[pk]
         rk == proposal.registry
         current == IF rk \in DOMAIN registries THEN registries[rk] ELSE [revision |-> 0, latest |-> 0]
         number == current.latest + 1
     IN /\ current.revision < MaxRevision
        /\ versions' = With(versions, <<rk, number>>,
             [key |-> keys.version + 1, source |-> pk, base |-> proposal.base,
              content |-> proposal.content, created |-> time])
        /\ registries' = With(registries, rk,
             [revision |-> current.revision + 1, latest |-> number, active |-> number, updated |-> time])
        /\ proposals' = [proposals EXCEPT ![pk].status = "activated", ![pk].revision = @ + 1,
                                          ![pk].updated = time]
        /\ changes' = changes \cup
             {Change(rk, current.revision + 1, "activate", ActiveVersion(rk), number, pk, time)}
        /\ keys' = [keys EXCEPT !.version = @ + 1, !.change = @ + 1]

CanTransition(rk, revision, target, time) ==
  /\ rk \in DOMAIN registries
  /\ registries[rk].revision = revision /\ registries[rk].active # target
  /\ assertChronology(registries[rk], time)
  /\ target # None => <<rk, target>> \in DOMAIN versions

transitionRegistry(rk, revision, target, time) ==
  /\ CanTransition(rk, revision, target, time) /\ revision < MaxRevision
  /\ registries' = [registries EXCEPT ![rk].revision = @ + 1, ![rk].active = target, ![rk].updated = time]
  /\ changes' = changes \cup
       {Change(rk, revision + 1, IF target = None THEN "demote" ELSE "rollback",
               registries[rk].active, target, None, time)}
  /\ keys' = [keys EXCEPT !.change = @ + 1]
  /\ UNCHANGED <<proposals, versions>>

(* The active skills of a view: of a skill in several scopes, the first.   *)
listActive(partition, scopes) ==
  LET Rank(rk) == CHOOSE i \in DOMAIN scopes : scopes[i] = rk.scope
      candidates == {rk \in DOMAIN registries :
                       /\ rk.partition = partition /\ registries[rk].active # None
                       /\ rk.scope \in {scopes[i] : i \in DOMAIN scopes}}
  IN {<<rk, registries[rk].active>> : rk \in
        {rk \in candidates : \A other \in candidates : other.skill = rk.skill => Rank(rk) <= Rank(other)}}

(* ---- Retention ---- *)
isPurgeableProposal(pk) ==
  \/ proposals[pk].status = "rejected"
  \/ proposals[pk].status = "activated" /\ \A vk \in DOMAIN versions : versions[vk].source # pk

purgeProposals(partition, before, limit) ==
  /\ proposals' = Without(proposals, Batch(
       {pk \in DOMAIN proposals : pk[1] = partition /\ isPurgeableProposal(pk) /\ proposals[pk].updated < before},
       [pk \in DOMAIN proposals |-> proposals[pk].key], limit))
  /\ UNCHANGED <<registries, versions, changes, keys>>

purgeInactiveVersions(rk, before, limit) ==
  /\ rk \in DOMAIN registries
  /\ versions' = Without(versions, Batch(
       {vk \in VersionsOf(rk) : vk[2] # registries[rk].active /\ versions[vk].created < before},
       [vk \in DOMAIN versions |-> versions[vk].key], limit))
  /\ UNCHANGED <<proposals, registries, changes, keys>>

purgeChanges(rk, before, limit) ==
  /\ changes' = changes \ Batch({c \in changes : c.registry = rk /\ c.time < before},
                                [c \in changes |-> c.key], limit)
  /\ UNCHANGED <<proposals, registries, versions, keys>>

Retention ==
  \E before \in Times, limit \in {1, 2} :
    \/ \E partition \in {rk.partition : rk \in RegistryKeys} : purgeProposals(partition, before, limit)
    \/ \E rk \in RegistryKeys : purgeInactiveVersions(rk, before, limit) \/ purgeChanges(rk, before, limit)

Numbers == 1..MaxRevision
NumbersGiven == 1..MaxProposals  \* to versions: one from each proposal at most
(* Every call, with any argument a caller may give.                        *)
StoreNext ==
  \/ \E time \in Times :
       \/ \E id \in ProposalIds, rk \in RegistryKeys, content \in Contents, base \in NumbersGiven \cup {None} :
            createProposal(id, rk, content, base, time, MaxProposals)
       \/ \E pk \in ProposalKeys, revision \in 1..3 :
            \/ \E status \in {"validated", "rejected"} : decideProposal(pk, revision, status, time)
            \/ activateProposal(pk, revision, time, MaxRevision)
       \/ \E rk \in RegistryKeys, revision \in Numbers, target \in NumbersGiven \cup {None} :
            transitionRegistry(rk, revision, target, time)
  \/ Retention

(* ---- What holds of every registry ---- *)

(* A skill's active version can be read, the proposal a version came from  *)
(* is kept and is the one it says, and the retained changes explain the    *)
(* registry: each starts from what the one before it left, the last is the *)
(* registry's, and an activation replaces the very version it was based on.*)
HistoryExplains ==
  /\ \A rk \in DOMAIN registries :
       LET registry == registries[rk] IN
         /\ registry.active # None => <<rk, registry.active>> \in DOMAIN versions
         /\ \A vk \in VersionsOf(rk) :
              /\ vk[2] <= registry.latest /\ versions[vk].created <= registry.updated
              /\ \A other \in VersionsOf(rk) :
                   other[2] < vk[2] <=> versions[other].key < versions[vk].key
  /\ \A vk \in DOMAIN versions : LET version == versions[vk] IN
       /\ version.source \in DOMAIN proposals
       /\ LET proposal == proposals[version.source] IN
            /\ proposal.status = "activated" /\ proposal.registry = vk[1]
            /\ proposal.content = version.content /\ proposal.base = version.base
            /\ proposal.updated = version.created
       /\ \A other \in DOMAIN versions : versions[other].source = version.source => other = vk
  /\ \A c \in changes :
       /\ c.revision <= registries[c.registry].revision /\ c.time <= registries[c.registry].updated
       /\ c.revision = registries[c.registry].revision => c.to = registries[c.registry].active
       /\ \A next \in changes :
            next.registry = c.registry /\ next.revision = c.revision + 1 => next.from = c.to
       /\ c.type = "activate" /\ <<c.registry, c.to>> \in DOMAIN versions =>
            versions[<<c.registry, c.to>>].base = c.from
=============================================================================
