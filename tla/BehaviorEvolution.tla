-------------------------- MODULE BehaviorEvolution --------------------------
(***************************************************************************)
(* The evolution service over the store of behaviour skills: what a call   *)
(* read before it asked the policy, the tools, the evidence and the        *)
(* sandbox may have changed when it comes back to the store.  Their        *)
(* answers are the host's and may be anything; a call they refuse ends.    *)
(***************************************************************************)
EXTENDS BehaviorStore, FiniteSetTheorems, TLAPS

CONSTANTS Callers, MaxOpen, MaxVersions

VARIABLES
  calls,    \* caller -> where its call is and what it read
  verdicts  \* proposal key -> the decisions that landed on it

evolution == <<store, calls, verdicts>>
Idle == [pc |-> "idle"]

EvolutionInit ==
  /\ StoreInit
  /\ calls = [c \in Callers |-> Idle] /\ verdicts = << >>

CallGoes(c, to) == calls' = [calls EXCEPT ![c] = to]
CallAt(c, pc) == calls[c].pc = pc

ProposalsNamed == {verdicts[k].id : k \in DOMAIN verdicts}

(* ---- createProposal: the base is read before the proposal is stored ---- *)
(* Hosts name each proposal after the tool call that makes it: never twice.*)
createReads(c) ==
  \E id \in ProposalIds, rk \in RegistryKeys, content \in Contents, time \in Times :
    /\ CallAt(c, "idle") /\ ProposalKey(rk, id) \notin ProposalsNamed
    /\ rk \in DOMAIN registries => assertChronology(registries[rk], time)
    /\ CallGoes(c, [pc |-> "create", id |-> id, rk |-> rk, content |-> content, time |-> time,
                base |-> ActiveVersion(rk)])
    /\ UNCHANGED <<store, verdicts>>

createLands(c) ==
  LET call == calls[c]
  IN /\ CallAt(c, "create") /\ ProposalKey(call.rk, call.id) \notin ProposalsNamed
     /\ createProposal(call.id, call.rk, call.content, call.base, call.time, MaxOpen)
     /\ verdicts' = With(verdicts, keys.proposal + 1, [id |-> ProposalKey(call.rk, call.id), landed |-> {}])
     /\ CallGoes(c, Idle)

(* ---- reviewProposal ---- *)
reviewReads(c) ==
  \E pk \in DOMAIN proposals, time \in Times, mode \in {"conservative", "aggressive"} :
    /\ CallAt(c, "idle")
    /\ proposals[pk].status = "pending" /\ assertChronology(proposals[pk], time)
    /\ CallGoes(c, [pc |-> "review", pk |-> pk, revision |-> proposals[pk].revision, time |-> time, mode |-> mode,
                proposal |-> proposals[pk].key])
    /\ UNCHANGED <<store, verdicts>>

Landed(key, status) == verdicts' = [verdicts EXCEPT ![key].landed = @ \cup {status}]
reviewDecides(c) ==
  \E status \in {"validated", "rejected"} :
    LET call == calls[c]
    IN /\ CallAt(c, "review") /\ CanDecide(call.pk, call.revision, call.time)
       /\ decideProposal(call.pk, call.revision, status, call.time)
       /\ Landed(call.proposal, status)
       /\ CallGoes(c, IF status = "validated" /\ call.mode = "aggressive"
                  THEN [call EXCEPT !.pc = "activate", !.revision = @ + 1] ELSE Idle)

(* ---- activateProposal ---- *)
activateReads(c) ==
  \E pk \in DOMAIN proposals, time \in Times :
    /\ CallAt(c, "idle")
    /\ proposals[pk].status = "validated" /\ assertChronology(proposals[pk], time)
    /\ CallGoes(c, [pc |-> "activate", pk |-> pk, revision |-> proposals[pk].revision, time |-> time,
                mode |-> "conservative", proposal |-> proposals[pk].key])
    /\ UNCHANGED <<store, verdicts>>

activateLands(c) ==
  LET call == calls[c]
  IN /\ CallAt(c, "activate")
     /\ activateProposal(call.pk, call.revision, call.time, MaxVersions)
     /\ CallGoes(c, Idle) /\ UNCHANGED verdicts

(* ---- transitionRegistry: the registry, then the version, then the store -*)
transitionReads(c) ==
  \E rk \in DOMAIN registries, target \in (1..MaxProposals) \cup {None}, time \in Times, revision \in Numbers :
    /\ CallAt(c, "idle") /\ revision <= registries[rk].revision
    /\ assertChronology(registries[rk], time)
    /\ CallGoes(c, [pc |-> IF target = None THEN "transition" ELSE "version", rk |-> rk, target |-> target,
                time |-> time, revision |-> revision])
    /\ UNCHANGED <<store, verdicts>>

versionRead(c) ==
  /\ CallAt(c, "version") /\ <<calls[c].rk, calls[c].target>> \in DOMAIN versions
  /\ CallGoes(c, [calls[c] EXCEPT !.pc = "transition"])
  /\ UNCHANGED <<store, verdicts>>

transitionLands(c) ==
  LET call == calls[c]
  IN /\ CallAt(c, "transition")
     /\ transitionRegistry(call.rk, call.revision, call.target, call.time)
     /\ CallGoes(c, Idle) /\ UNCHANGED verdicts

(* A call is refused, by the host or by the store, or aborted, or the      *)
(* process stops: what it did stays done.                                  *)
ends(c) == ~CallAt(c, "idle") /\ CallGoes(c, Idle) /\ UNCHANGED <<store, verdicts>>

EvolutionNext ==
  \/ \E c \in Callers :
       \/ createReads(c) \/ createLands(c) \/ reviewReads(c) \/ reviewDecides(c)
       \/ activateReads(c) \/ activateLands(c)
       \/ transitionReads(c) \/ versionRead(c) \/ transitionLands(c) \/ ends(c)
  \/ Retention /\ UNCHANGED <<calls, verdicts>>

EvolutionSpec == EvolutionInit /\ [][EvolutionNext]_evolution

-----------------------------------------------------------------------------
(* A proposal is decided once, whoever reviews it at the same time, and    *)
(* only what a review accepted is, or was ever, a version.                 *)
DecidedOnce ==
  /\ \A k \in DOMAIN verdicts : Cardinality(verdicts[k].landed) <= 1
  /\ \A vk \in DOMAIN versions :
       verdicts[proposals[versions[vk].source].key].landed = {"validated"}
  /\ \A pk \in DOMAIN proposals :
       LET landed == verdicts[proposals[pk].key].landed IN
         proposals[pk].status = "pending" <=> landed = {}

(* What is active was reviewed: a proposal is decided once, only what was  *)
(* accepted becomes a version, and the retained changes explain which      *)
(* version is active.                                                      *)
BehaviorReviewed == DecidedOnce /\ HistoryExplains

-----------------------------------------------------------------------------
(* The store: what its records are. *)
NumberOrNone == Nat \cup {None}
ProposalRecord ==
  [key : Nat, registry : RegistryKeys, content : Contents, base : NumberOrNone, revision : Nat,
   status : {"pending", "validated", "rejected", "activated"}, created : Times, updated : Times]
RegistryRecord == [revision : Nat, latest : Nat, active : NumberOrNone, updated : Times]
VersionRecord == [key : Nat, source : ProposalKeys, base : NumberOrNone, content : Contents, created : Times]
ChangeRecord ==
  [key : Nat, registry : RegistryKeys, revision : Nat, type : {"activate", "demote", "rollback"},
   from : NumberOrNone, to : NumberOrNone, source : ProposalKeys \cup {None}, time : Times]

KeysOK == keys \in [proposal : Nat, version : Nat, change : Nat]

ProposalsOK ==
  /\ DOMAIN proposals \subseteq ProposalKeys
  /\ \A pk \in DOMAIN proposals : proposals[pk] \in ProposalRecord /\ proposals[pk].key <= keys.proposal
  /\ \A pk, qk \in DOMAIN proposals : proposals[pk].key = proposals[qk].key => pk = qk

RegistriesOK ==
  /\ DOMAIN registries \subseteq RegistryKeys
  /\ \A rk \in DOMAIN registries : registries[rk] \in RegistryRecord

(* A version's number and key are not yet to be given, and both grow.      *)
VersionsOK ==
  /\ DOMAIN versions \subseteq RegistryKeys \X Nat
  /\ \A vk \in DOMAIN versions :
       /\ versions[vk] \in VersionRecord /\ versions[vk].key <= keys.version
       /\ vk[1] \in DOMAIN registries
       /\ vk[2] <= registries[vk[1]].latest /\ versions[vk].created <= registries[vk[1]].updated
  /\ \A vk, uk \in DOMAIN versions :
       vk[1] = uk[1] => (uk[2] < vk[2] <=> versions[uk].key < versions[vk].key)

ActiveOK ==
  \A rk \in DOMAIN registries : registries[rk].active # None => <<rk, registries[rk].active>> \in DOMAIN versions

CameFrom(vk, version, proposal) ==
  /\ proposal.status = "activated" /\ proposal.registry = vk[1]
  /\ proposal.content = version.content /\ proposal.base = version.base
  /\ proposal.updated = version.created

SourcesOK ==
  /\ \A vk \in DOMAIN versions : /\ versions[vk].source \in DOMAIN proposals
                                 /\ CameFrom(vk, versions[vk], proposals[versions[vk].source])
  /\ \A vk, uk \in DOMAIN versions : versions[uk].source = versions[vk].source => uk = vk

(* A change names a version that was given when it was made.               *)
ChangesOK ==
  /\ changes \subseteq ChangeRecord
  /\ \A c \in changes :
       /\ c.registry \in DOMAIN registries
       /\ c.revision <= registries[c.registry].revision /\ c.time <= registries[c.registry].updated
       /\ c.revision = registries[c.registry].revision => c.to = registries[c.registry].active
       /\ c.type = "activate" => c.to \in Nat /\ c.to <= registries[c.registry].latest
       /\ c.type = "activate" /\ <<c.registry, c.to>> \in DOMAIN versions =>
            versions[<<c.registry, c.to>>].base = c.from
  /\ \A c, d \in changes : d.registry = c.registry /\ d.revision = c.revision + 1 => d.from = c.to

StoreInv == KeysOK /\ ProposalsOK /\ RegistriesOK /\ VersionsOK /\ ActiveOK /\ SourcesOK /\ ChangesOK

LEMMA InvExplains == StoreInv => HistoryExplains
<1>1. SUFFICES ASSUME StoreInv PROVE HistoryExplains
  OBVIOUS
<1>2. ASSUME NEW rk \in DOMAIN registries
      PROVE  /\ registries[rk].active # None => <<rk, registries[rk].active>> \in DOMAIN versions
             /\ \A vk \in VersionsOf(rk) :
                  /\ vk[2] <= registries[rk].latest /\ versions[vk].created <= registries[rk].updated
                  /\ \A other \in VersionsOf(rk) :
                       other[2] < vk[2] <=> versions[other].key < versions[vk].key
  BY <1>1 DEF StoreInv, ActiveOK, VersionsOK, VersionsOf
<1>3. ASSUME NEW vk \in DOMAIN versions
      PROVE  /\ versions[vk].source \in DOMAIN proposals
             /\ CameFrom(vk, versions[vk], proposals[versions[vk].source])
             /\ \A other \in DOMAIN versions : versions[other].source = versions[vk].source => other = vk
  BY <1>1 DEF StoreInv, SourcesOK
<1>4. ASSUME NEW c \in changes
      PROVE  /\ c.revision <= registries[c.registry].revision /\ c.time <= registries[c.registry].updated
             /\ c.revision = registries[c.registry].revision => c.to = registries[c.registry].active
             /\ \A next \in changes :
                  next.registry = c.registry /\ next.revision = c.revision + 1 => next.from = c.to
             /\ c.type = "activate" /\ <<c.registry, c.to>> \in DOMAIN versions =>
                  versions[<<c.registry, c.to>>].base = c.from
  BY <1>1 DEF StoreInv, ChangesOK
<1>5. QED BY <1>2, <1>3, <1>4 DEF HistoryExplains, CameFrom

-----------------------------------------------------------------------------
(* The store's operations keep it. *)
LEMMA CreateKeeps ==
  ASSUME StoreInv, NEW id \in ProposalIds, NEW rk \in RegistryKeys, NEW content \in Contents,
         NEW base \in NumberOrNone, NEW time \in Times, NEW maxOpen,
         createProposal(id, rk, content, base, time, maxOpen)
  PROVE  /\ StoreInv'
         /\ ProposalKey(rk, id) \notin DOMAIN proposals
         /\ \E p \in ProposalRecord : /\ p.key = keys.proposal + 1 /\ p.status = "pending"
                                      /\ proposals' = With(proposals, ProposalKey(rk, id), p)
         /\ keys'.proposal = keys.proposal + 1 /\ UNCHANGED versions
<1> DEFINE pk == ProposalKey(rk, id)
<1>1. /\ pk \notin DOMAIN proposals /\ pk \in ProposalKeys
      /\ keys.proposal \in Nat /\ keys.version \in Nat /\ keys.change \in Nat
  BY DEF createProposal, CanCreate, ProposalKey, ProposalKeys, StoreInv, KeysOK
<1>2. PICK p \in ProposalRecord : /\ proposals' = With(proposals, pk, p)
                                  /\ p.key = keys.proposal + 1 /\ p.status = "pending"
  <2> DEFINE new == [key |-> keys.proposal + 1, registry |-> rk, content |-> content, base |-> base,
                     revision |-> 1, status |-> "pending", created |-> time, updated |-> time]
  <2>1. new \in ProposalRecord /\ new.key = keys.proposal + 1 /\ new.status = "pending"
    BY <1>1 DEF ProposalRecord
  <2>2. proposals' = With(proposals, pk, new)
    BY DEF createProposal
  <2>3. QED BY <2>1, <2>2
<1>3. keys' = [keys EXCEPT !.proposal = @ + 1] /\ UNCHANGED <<registries, versions, changes>>
  BY DEF createProposal
<1>4. KeysOK' /\ keys'.proposal = keys.proposal + 1 /\ keys'.version = keys.version
  BY <1>3 DEF StoreInv, KeysOK
<1> HIDE DEF pk
<1>5. /\ DOMAIN proposals' = DOMAIN proposals \cup {pk} /\ proposals'[pk] = p
      /\ \A qk \in DOMAIN proposals : proposals'[qk] = proposals[qk]
  BY <1>1, <1>2 DEF With
<1>6. ProposalsOK'
  BY <1>1, <1>2, <1>4, <1>5 DEF StoreInv, ProposalsOK, ProposalRecord
<1>7. RegistriesOK' /\ VersionsOK' /\ ActiveOK' /\ ChangesOK'
  BY <1>3, <1>4 DEF StoreInv, RegistriesOK, VersionsOK, ActiveOK, ChangesOK
<1>8. SourcesOK'
  BY <1>3, <1>5 DEF StoreInv, SourcesOK
<1>9. StoreInv'
  BY <1>4, <1>6, <1>7, <1>8 DEF StoreInv
<1>10. QED BY <1>1, <1>2, <1>3, <1>4, <1>9 DEF pk

Decisions == {"validated", "rejected"}
LEMMA DecideKeeps ==
  ASSUME StoreInv, NEW pk, NEW revision, NEW status \in Decisions, NEW time \in Times,
         decideProposal(pk, revision, status, time)
  PROVE  /\ StoreInv'
         /\ pk \in DOMAIN proposals /\ proposals[pk].status = "pending"
         /\ \E p \in ProposalRecord : /\ p.key = proposals[pk].key /\ p.status = status
                                      /\ proposals' = [proposals EXCEPT ![pk] = p]
         /\ UNCHANGED <<versions, keys>>
<1>1. pk \in DOMAIN proposals /\ proposals[pk].status = "pending" /\ proposals[pk] \in ProposalRecord
  BY DEF decideProposal, CanDecide, StoreInv, ProposalsOK
<1>2. PICK p \in ProposalRecord : /\ p.key = proposals[pk].key /\ p.status = status
                                  /\ proposals' = [proposals EXCEPT ![pk] = p]
  <2>1. proposals[pk].revision + 1 \in Nat
    BY <1>1 DEF ProposalRecord
  <2> DEFINE new == [proposals[pk] EXCEPT !.status = status, !.revision = @ + 1, !.updated = time]
  <2>2. new \in ProposalRecord /\ new.key = proposals[pk].key /\ new.status = status
    BY <1>1, <2>1 DEF ProposalRecord, Decisions
  <2>3. proposals' = [proposals EXCEPT ![pk] = new]
    BY <1>1 DEF decideProposal, ProposalRecord
  <2>4. QED BY <2>2, <2>3
<1>3. UNCHANGED <<registries, versions, changes, keys>>
  BY DEF decideProposal
<1>4. /\ DOMAIN proposals' = DOMAIN proposals /\ proposals'[pk] = p
      /\ \A qk \in DOMAIN proposals \ {pk} : proposals'[qk] = proposals[qk]
  BY <1>1, <1>2
<1>5. ProposalsOK'
  BY <1>1, <1>2, <1>3, <1>4 DEF StoreInv, ProposalsOK
<1>6. KeysOK' /\ RegistriesOK' /\ VersionsOK' /\ ActiveOK' /\ ChangesOK'
  BY <1>3 DEF StoreInv, KeysOK, RegistriesOK, VersionsOK, ActiveOK, ChangesOK
<1>7. SourcesOK'
  <2>1. \A vk \in DOMAIN versions : versions[vk].source # pk
    BY <1>1 DEF StoreInv, SourcesOK, CameFrom
  <2>2. QED BY <1>3, <1>4, <2>1 DEF StoreInv, SourcesOK
<1>8. QED BY <1>1, <1>2, <1>3, <1>5, <1>6, <1>7 DEF StoreInv
LEMMA ActivateKeeps ==
  ASSUME StoreInv, NEW pk, NEW revision, NEW time \in Times, NEW maxVersions,
         activateProposal(pk, revision, time, maxVersions)
  PROVE  /\ StoreInv'
         /\ pk \in DOMAIN proposals /\ proposals[pk].status = "validated"
         /\ \E p \in ProposalRecord : /\ p.key = proposals[pk].key /\ p.status = "activated"
                                      /\ proposals' = [proposals EXCEPT ![pk] = p]
         /\ keys'.proposal = keys.proposal
<1> DEFINE old == proposals[pk]
           rk == old.registry
           current == IF rk \in DOMAIN registries THEN registries[rk] ELSE [revision |-> 0, latest |-> 0]
           number == current.latest + 1
           next == current.revision + 1
<1>1. /\ pk \in DOMAIN proposals /\ pk \in ProposalKeys /\ old \in ProposalRecord /\ old.status = "validated"
      /\ rk \in RegistryKeys /\ old.base \in NumberOrNone /\ old.content \in Contents /\ old.updated <= time
      /\ ActiveVersion(rk) = old.base
      /\ rk \in DOMAIN registries => registries[rk].updated <= time
  BY DEF activateProposal, CanActivate, assertChronology, StoreInv, ProposalsOK, ProposalRecord
<1>2. /\ current.latest \in Nat /\ current.revision \in Nat
      /\ keys.proposal \in Nat /\ keys.version \in Nat /\ keys.change \in Nat
  BY DEF StoreInv, KeysOK, RegistriesOK, RegistryRecord
<1>3. PICK p \in ProposalRecord :
        /\ p.key = old.key /\ p.status = "activated" /\ p.registry = rk
        /\ p.content = old.content /\ p.base = old.base /\ p.updated = time
        /\ proposals' = [proposals EXCEPT ![pk] = p]
  <2>1. old.revision + 1 \in Nat
    BY <1>1 DEF ProposalRecord
  <2> DEFINE new == [old EXCEPT !.status = "activated", !.revision = @ + 1, !.updated = time]
  <2>2. /\ new \in ProposalRecord /\ new.key = old.key /\ new.status = "activated" /\ new.registry = rk
        /\ new.content = old.content /\ new.base = old.base /\ new.updated = time
    BY <1>1, <2>1 DEF ProposalRecord
  <2>3. proposals' = [proposals EXCEPT ![pk] = new]
    BY <1>1 DEF activateProposal, ProposalRecord
  <2>4. QED BY <2>2, <2>3
<1>4. PICK v \in VersionRecord :
        /\ v.key = keys.version + 1 /\ v.source = pk /\ v.base = old.base /\ v.content = old.content
        /\ v.created = time /\ versions' = With(versions, <<rk, number>>, v)
  <2> DEFINE new == [key |-> keys.version + 1, source |-> pk, base |-> old.base,
                     content |-> old.content, created |-> time]
  <2>1. new \in VersionRecord
    BY <1>1, <1>2 DEF VersionRecord
  <2>2. versions' = With(versions, <<rk, number>>, new)
    BY DEF activateProposal
  <2>3. QED BY <2>1, <2>2
<1>5. PICK g \in RegistryRecord :
        /\ g.revision = next /\ g.latest = number /\ g.active = number /\ g.updated = time
        /\ registries' = With(registries, rk, g)
  <2> DEFINE new == [revision |-> next, latest |-> number, active |-> number, updated |-> time]
  <2>1. new \in RegistryRecord
    BY <1>2 DEF RegistryRecord, NumberOrNone
  <2>2. registries' = With(registries, rk, new)
    BY DEF activateProposal
  <2>3. QED BY <2>1, <2>2
<1>6. PICK ch \in ChangeRecord :
        /\ ch.registry = rk /\ ch.revision = next /\ ch.type = "activate"
        /\ ch.from = old.base /\ ch.to = number /\ ch.time = time /\ changes' = changes \cup {ch}
  <2> DEFINE new == Change(rk, next, "activate", ActiveVersion(rk), number, pk, time)
  <2>1. /\ new \in ChangeRecord /\ new.registry = rk /\ new.revision = next /\ new.type = "activate"
        /\ new.from = old.base /\ new.to = number /\ new.time = time
    BY <1>1, <1>2 DEF ChangeRecord, Change, NumberOrNone
  <2>2. changes' = changes \cup {new}
    BY DEF activateProposal
  <2>3. QED BY <2>1, <2>2
<1>7. /\ keys' \in [proposal : Nat, version : Nat, change : Nat]
      /\ keys'.proposal = keys.proposal /\ keys'.version = keys.version + 1
  <2>1. keys' = [keys EXCEPT !.version = @ + 1, !.change = @ + 1]
    BY DEF activateProposal
  <2>2. keys \in [proposal : Nat, version : Nat, change : Nat] /\ keys.version + 1 \in Nat /\ keys.change + 1 \in Nat
    BY <1>2 DEF StoreInv, KeysOK
  <2>3. QED BY <2>1, <2>2
<1>8. rk \in DOMAIN registries =>
        number = registries[rk].latest + 1 /\ next = registries[rk].revision + 1 /\ old.base = registries[rk].active
  BY <1>1 DEF ActiveVersion
<1>9. number \in Nat /\ next \in Nat
  BY <1>2
<1> HIDE DEF old, current, number, next, rk
<1>10. /\ DOMAIN proposals' = DOMAIN proposals /\ proposals'[pk] = p
       /\ \A qk \in DOMAIN proposals \ {pk} : proposals'[qk] = proposals[qk]
  BY <1>1, <1>3
<1>11. /\ DOMAIN registries' = DOMAIN registries \cup {rk} /\ registries'[rk] = g
       /\ \A sk \in DOMAIN registries \ {rk} : registries'[sk] = registries[sk]
  BY <1>5 DEF With
<1>12. <<rk, number>> \notin DOMAIN versions
  <2> SUFFICES ASSUME <<rk, number>> \in DOMAIN versions PROVE FALSE
    OBVIOUS
  <2>1. rk \in DOMAIN registries /\ number <= registries[rk].latest /\ registries[rk].latest \in Nat
    BY DEF StoreInv, VersionsOK, RegistriesOK, RegistryRecord
  <2>2. QED BY <1>8, <2>1
<1>13. /\ DOMAIN versions' = DOMAIN versions \cup {<<rk, number>>} /\ versions'[<<rk, number>>] = v
       /\ \A vk \in DOMAIN versions : versions'[vk] = versions[vk]
  BY <1>4, <1>12 DEF With
<1>14. ProposalsOK'
  <2>1. ASSUME NEW qk \in DOMAIN proposals
        PROVE  proposals'[qk] \in ProposalRecord /\ proposals'[qk].key = proposals[qk].key
    BY <1>3, <1>10 DEF StoreInv, ProposalsOK, old
  <2>2. DOMAIN proposals' = DOMAIN proposals /\ keys'.proposal = keys.proposal
    BY <1>7, <1>10
  <2>3. QED BY <2>1, <2>2 DEF StoreInv, ProposalsOK
<1>15. RegistriesOK'
  BY <1>1, <1>5, <1>11 DEF StoreInv, RegistriesOK
<1>16. ASSUME NEW vk \in DOMAIN versions
       PROVE  /\ vk \in RegistryKeys \X Nat /\ versions[vk] \in VersionRecord
              /\ versions[vk].key \in Nat /\ versions[vk].created \in Times
              /\ versions[vk].key < v.key /\ versions[vk].key <= keys'.version
              /\ vk[1] \in DOMAIN registries'
              /\ vk[2] <= registries'[vk[1]].latest /\ versions[vk].created <= registries'[vk[1]].updated
              /\ vk[1] = rk => vk[2] < number
  <2>1. /\ vk \in RegistryKeys \X Nat /\ versions[vk] \in VersionRecord
        /\ versions[vk].key <= keys.version /\ vk[1] \in DOMAIN registries
        /\ vk[2] <= registries[vk[1]].latest /\ versions[vk].created <= registries[vk[1]].updated
        /\ registries[vk[1]] \in RegistryRecord
    BY DEF StoreInv, VersionsOK, RegistriesOK
  <2>2. /\ versions[vk].key \in Nat /\ versions[vk].created \in Times /\ vk[2] \in Nat
        /\ registries[vk[1]].latest \in Nat /\ registries[vk[1]].updated \in Times
    BY <2>1 DEF VersionRecord, RegistryRecord
  <2>3. CASE vk[1] = rk
    BY <1>1, <1>2, <1>4, <1>5, <1>7, <1>8, <1>11, <2>1, <2>2, <2>3 DEF Times
  <2>4. CASE vk[1] # rk
    BY <1>2, <1>4, <1>7, <1>11, <2>1, <2>2, <2>4
  <2>5. QED BY <2>3, <2>4
<1>17. VersionsOK'
  <2>1. DOMAIN versions' \subseteq RegistryKeys \X Nat
    BY <1>1, <1>9, <1>13, <1>16
  <2>2. ASSUME NEW vk \in DOMAIN versions'
        PROVE  /\ versions'[vk] \in VersionRecord /\ versions'[vk].key <= keys'.version
               /\ vk[1] \in DOMAIN registries'
               /\ vk[2] <= registries'[vk[1]].latest /\ versions'[vk].created <= registries'[vk[1]].updated
    <3>1. CASE vk \in DOMAIN versions
      BY <1>13, <1>16, <3>1
    <3>2. CASE vk = <<rk, number>>
      BY <1>2, <1>4, <1>5, <1>7, <1>9, <1>11, <1>13, <3>2 DEF Times
    <3>3. QED BY <1>13, <3>1, <3>2
  <2>3. ASSUME NEW vk \in DOMAIN versions', NEW uk \in DOMAIN versions', vk[1] = uk[1]
        PROVE  uk[2] < vk[2] <=> versions'[uk].key < versions'[vk].key
    <3>1. CASE vk \in DOMAIN versions /\ uk \in DOMAIN versions
      BY <1>13, <2>3, <3>1 DEF StoreInv, VersionsOK
    <3>2. CASE vk = <<rk, number>> /\ uk \in DOMAIN versions
      BY <1>2, <1>4, <1>9, <1>13, <1>16, <2>3, <3>2
    <3>3. CASE vk \in DOMAIN versions /\ uk = <<rk, number>>
      <4>1. /\ vk[2] \in Nat /\ vk[2] < number /\ versions[vk].key \in Nat /\ versions[vk].key < v.key
        BY <1>16, <2>3, <3>3
      <4>2. versions'[vk] = versions[vk] /\ versions'[uk] = v /\ uk[2] = number /\ v.key \in Nat
        BY <1>2, <1>4, <1>13, <3>3
      <4>3. QED BY <1>9, <4>1, <4>2
    <3>4. CASE vk = <<rk, number>> /\ uk = <<rk, number>>
      BY <1>2, <1>4, <1>9, <1>13, <3>4
    <3>5. QED BY <1>13, <3>1, <3>2, <3>3, <3>4
  <2>4. QED BY <2>1, <2>2, <2>3 DEF VersionsOK
<1>18. ActiveOK'
  BY <1>5, <1>11, <1>13 DEF StoreInv, ActiveOK
<1>19. SourcesOK'
  <2>1. ASSUME NEW vk \in DOMAIN versions
        PROVE  versions[vk].source \in DOMAIN proposals \ {pk} /\ CameFrom(vk, versions[vk], proposals[versions[vk].source])
    BY <1>1 DEF StoreInv, SourcesOK, CameFrom, old
  <2>2. CameFrom(<<rk, number>>, v, p)
    BY <1>3, <1>4 DEF CameFrom
  <2>3. \A vk \in DOMAIN versions' : /\ versions'[vk].source \in DOMAIN proposals'
                                     /\ CameFrom(vk, versions'[vk], proposals'[versions'[vk].source])
    BY <1>1, <1>4, <1>10, <1>13, <2>1, <2>2
  <2>4. \A vk, uk \in DOMAIN versions' : versions'[uk].source = versions'[vk].source => uk = vk
    BY <1>4, <1>13, <2>1 DEF StoreInv, SourcesOK
  <2>5. QED BY <2>3, <2>4 DEF SourcesOK
<1>20. ASSUME NEW c \in changes
       PROVE  /\ c \in ChangeRecord /\ c.registry \in DOMAIN registries'
              /\ c.revision <= registries'[c.registry].revision /\ c.time <= registries'[c.registry].updated
              /\ c.revision = registries'[c.registry].revision => c.to = registries'[c.registry].active
              /\ c.type = "activate" => c.to \in Nat /\ c.to <= registries'[c.registry].latest
              /\ c.type = "activate" /\ <<c.registry, c.to>> \in DOMAIN versions' =>
                   versions'[<<c.registry, c.to>>].base = c.from
              /\ c.registry = rk => c.revision < next /\ (c.revision + 1 = next => c.to = old.base)
  <2>1. /\ c \in ChangeRecord /\ c.registry \in DOMAIN registries
        /\ c.revision <= registries[c.registry].revision /\ c.time <= registries[c.registry].updated
        /\ c.revision = registries[c.registry].revision => c.to = registries[c.registry].active
        /\ c.type = "activate" => c.to \in Nat /\ c.to <= registries[c.registry].latest
        /\ c.type = "activate" /\ <<c.registry, c.to>> \in DOMAIN versions =>
             versions[<<c.registry, c.to>>].base = c.from
        /\ registries[c.registry] \in RegistryRecord
    BY DEF StoreInv, ChangesOK, RegistriesOK
  <2>2. /\ c.revision \in Nat /\ c.time \in Times
        /\ registries[c.registry].revision \in Nat /\ registries[c.registry].latest \in Nat
        /\ registries[c.registry].updated \in Times
    BY <2>1 DEF ChangeRecord, RegistryRecord
  <2>3. CASE c.registry # rk
    <3>1. <<c.registry, c.to>> # <<rk, number>>
      BY <2>3
    <3>2. QED BY <1>11, <1>13, <2>1, <2>3, <3>1
  <2>4. CASE c.registry = rk
    <3>1. /\ registries'[c.registry] = g /\ c.revision < next /\ c.revision < g.revision /\ c.time <= g.updated
          /\ c.revision + 1 = next => c.to = old.base
      BY <1>1, <1>5, <1>8, <1>11, <2>1, <2>2, <2>4 DEF Times
    <3>2. c.type = "activate" => c.to \in Nat /\ c.to < number /\ c.to <= g.latest
      BY <1>5, <1>8, <2>1, <2>2, <2>4
    <3>3. c.type = "activate" => <<c.registry, c.to>> # <<rk, number>>
      BY <1>9, <3>2
    <3>4. QED BY <1>5, <1>9, <1>11, <1>13, <2>1, <2>2, <2>4, <3>1, <3>2, <3>3
  <2>5. QED BY <2>3, <2>4
<1>21. /\ ch.registry \in DOMAIN registries' /\ ch.revision = registries'[ch.registry].revision
       /\ ch.time = registries'[ch.registry].updated /\ ch.to = registries'[ch.registry].active
       /\ ch.to = registries'[ch.registry].latest
       /\ <<ch.registry, ch.to>> \in DOMAIN versions' /\ versions'[<<ch.registry, ch.to>>].base = ch.from
  BY <1>4, <1>5, <1>6, <1>11, <1>13
<1>22. ChangesOK'
  <2>1. changes' \subseteq ChangeRecord
    BY <1>6, <1>20
  <2>2. ASSUME NEW c \in changes'
        PROVE  /\ c.registry \in DOMAIN registries'
               /\ c.revision <= registries'[c.registry].revision /\ c.time <= registries'[c.registry].updated
               /\ c.revision = registries'[c.registry].revision => c.to = registries'[c.registry].active
               /\ c.type = "activate" => c.to \in Nat /\ c.to <= registries'[c.registry].latest
               /\ c.type = "activate" /\ <<c.registry, c.to>> \in DOMAIN versions' =>
                    versions'[<<c.registry, c.to>>].base = c.from
    <3>1. CASE c \in changes
      BY <1>20, <3>1
    <3>2. CASE c = ch
      <4>1. c.revision \in Nat /\ c.time \in Times /\ c.to \in Nat
        BY <1>6, <1>9, <3>2 DEF ChangeRecord
      <4>2. /\ c.revision = registries'[c.registry].revision /\ c.time = registries'[c.registry].updated
            /\ c.to = registries'[c.registry].latest
        BY <1>21, <3>2
      <4>3. /\ c.revision <= registries'[c.registry].revision /\ c.time <= registries'[c.registry].updated
            /\ c.to <= registries'[c.registry].latest
        BY <4>1, <4>2 DEF Times
      <4>4. QED BY <1>21, <3>2, <4>1, <4>3
    <3>3. QED BY <1>6, <3>1, <3>2
  <2>3. ASSUME NEW c \in changes', NEW d \in changes', d.registry = c.registry, d.revision = c.revision + 1
        PROVE  d.from = c.to
    <3>1. c.revision \in Nat /\ d.revision \in Nat
      BY <2>1 DEF ChangeRecord
    <3>2. CASE c \in changes /\ d \in changes
      BY <2>3, <3>2 DEF StoreInv, ChangesOK
    <3>3. CASE c \in changes /\ d = ch
      BY <1>6, <1>20, <2>3, <3>3
    <3>4. CASE c = ch /\ d \in changes
      <4>1. d.registry = rk /\ d.revision = next + 1
        BY <1>6, <2>3, <3>4
      <4>2. d.revision < next
        BY <1>20, <3>4, <4>1
      <4>3. QED BY <1>9, <3>1, <4>1, <4>2
    <3>5. CASE c = ch /\ d = ch
      BY <2>3, <3>1, <3>5
    <3>6. QED BY <1>6, <3>2, <3>3, <3>4, <3>5
  <2>4. QED BY <2>1, <2>2, <2>3 DEF ChangesOK
<1>23. KeysOK'
  BY <1>7 DEF KeysOK
<1>24. QED BY <1>1, <1>3, <1>7, <1>14, <1>15, <1>17, <1>18, <1>19, <1>22, <1>23 DEF StoreInv, old
LEMMA TransitionKeeps ==
  ASSUME StoreInv, NEW rk, NEW revision, NEW target, NEW time \in Times,
         transitionRegistry(rk, revision, target, time)
  PROVE  StoreInv' /\ UNCHANGED <<proposals, versions>> /\ keys'.proposal = keys.proposal
<1> DEFINE old == registries[rk]
<1>1. /\ rk \in DOMAIN registries /\ rk \in RegistryKeys /\ old \in RegistryRecord
      /\ old.revision = revision /\ old.updated <= time
      /\ target # None => <<rk, target>> \in DOMAIN versions
      /\ UNCHANGED <<proposals, versions>>
  BY DEF transitionRegistry, CanTransition, assertChronology, StoreInv, RegistriesOK
<1>2. /\ revision \in Nat /\ old.latest \in Nat /\ old.active \in NumberOrNone /\ target \in NumberOrNone
      /\ old.updated \in Times
  <2>1. target # None => target \in Nat
    BY <1>1 DEF StoreInv, VersionsOK
  <2>2. QED BY <1>1, <2>1 DEF RegistryRecord, NumberOrNone
<1>3. PICK g \in RegistryRecord :
        /\ g.revision = revision + 1 /\ g.latest = old.latest /\ g.active = target /\ g.updated = time
        /\ registries' = [registries EXCEPT ![rk] = g]
  <2> DEFINE new == [old EXCEPT !.revision = @ + 1, !.active = target, !.updated = time]
  <2>1. old.revision + 1 \in Nat /\ old.revision + 1 = revision + 1
    BY <1>1, <1>2
  <2>2. /\ new \in RegistryRecord /\ new.revision = old.revision + 1 /\ new.latest = old.latest
        /\ new.active = target /\ new.updated = time
    BY <1>1, <1>2, <2>1 DEF RegistryRecord
  <2>3. registries' = [registries EXCEPT ![rk] = new]
    BY <1>1 DEF transitionRegistry, RegistryRecord
  <2>4. QED BY <2>1, <2>2, <2>3
<1>4. keys.change \in Nat /\ keys' = [keys EXCEPT !.change = @ + 1]
  BY DEF transitionRegistry, StoreInv, KeysOK
<1>5. PICK ch \in ChangeRecord :
        /\ ch.registry = rk /\ ch.revision = revision + 1 /\ ch.type # "activate"
        /\ ch.from = old.active /\ ch.to = target /\ ch.time = time /\ changes' = changes \cup {ch}
  <2> DEFINE new == Change(rk, revision + 1, IF target = None THEN "demote" ELSE "rollback",
                           old.active, target, None, time)
  <2>1. /\ new \in ChangeRecord /\ new.registry = rk /\ new.revision = revision + 1 /\ new.type # "activate"
        /\ new.from = old.active /\ new.to = target /\ new.time = time
    BY <1>1, <1>2, <1>4 DEF ChangeRecord, Change
  <2>2. changes' = changes \cup {new}
    BY DEF transitionRegistry
  <2>3. QED BY <2>1, <2>2
<1>6. KeysOK' /\ keys'.proposal = keys.proposal /\ keys'.version = keys.version
  BY <1>4 DEF StoreInv, KeysOK
<1>7. /\ DOMAIN registries' = DOMAIN registries /\ registries'[rk] = g
      /\ \A sk \in DOMAIN registries \ {rk} : registries'[sk] = registries[sk]
  BY <1>1, <1>3
<1>8. ProposalsOK' /\ SourcesOK'
  BY <1>1, <1>6 DEF StoreInv, ProposalsOK, SourcesOK
<1>9. RegistriesOK'
  BY <1>3, <1>7 DEF StoreInv, RegistriesOK
<1> HIDE DEF old
<1>10. ASSUME NEW sk \in DOMAIN registries
       PROVE  /\ registries[sk].updated \in Times /\ registries'[sk].updated \in Times
              /\ registries[sk].updated <= registries'[sk].updated
              /\ registries'[sk].latest = registries[sk].latest
  <2>1. registries[sk] \in RegistryRecord /\ registries'[sk] \in RegistryRecord
    BY <1>7, <1>9 DEF StoreInv, RegistriesOK
  <2>2. registries[sk].updated \in Times /\ registries'[sk].updated \in Times
    BY <2>1 DEF RegistryRecord
  <2>3. CASE sk = rk
    BY <1>1, <1>3, <1>7, <2>2, <2>3 DEF old
  <2>4. CASE sk # rk
    BY <1>7, <2>2, <2>4 DEF Times
  <2>5. QED BY <2>2, <2>3, <2>4
<1>11. VersionsOK'
  <2>1. ASSUME NEW vk \in DOMAIN versions
        PROVE  vk[2] <= registries'[vk[1]].latest /\ versions[vk].created <= registries'[vk[1]].updated
    <3>1. /\ vk[1] \in DOMAIN registries /\ vk[2] <= registries[vk[1]].latest
          /\ versions[vk].created <= registries[vk[1]].updated /\ versions[vk].created \in Times
      BY DEF StoreInv, VersionsOK, VersionRecord
    <3>2. QED BY <1>10, <3>1 DEF Times
  <2>2. QED BY <1>1, <1>6, <1>7, <2>1 DEF StoreInv, VersionsOK
<1>12. ActiveOK'
  BY <1>1, <1>3, <1>7 DEF StoreInv, ActiveOK
<1>13. ASSUME NEW c \in changes
       PROVE  /\ c \in ChangeRecord /\ c.revision \in Nat /\ c.registry \in DOMAIN registries'
              /\ c.revision <= registries'[c.registry].revision /\ c.time <= registries'[c.registry].updated
              /\ c.revision = registries'[c.registry].revision => c.to = registries'[c.registry].active
              /\ c.type = "activate" => c.to \in Nat /\ c.to <= registries'[c.registry].latest
              /\ c.type = "activate" /\ <<c.registry, c.to>> \in DOMAIN versions' =>
                   versions'[<<c.registry, c.to>>].base = c.from
              /\ c.registry = rk => c.revision <= revision /\ (c.revision = revision => c.to = old.active)
  <2>1. /\ c \in ChangeRecord /\ c.registry \in DOMAIN registries
        /\ c.revision <= registries[c.registry].revision /\ c.time <= registries[c.registry].updated
        /\ c.revision = registries[c.registry].revision => c.to = registries[c.registry].active
        /\ c.type = "activate" => c.to \in Nat /\ c.to <= registries[c.registry].latest
        /\ c.type = "activate" /\ <<c.registry, c.to>> \in DOMAIN versions =>
             versions[<<c.registry, c.to>>].base = c.from
    BY DEF StoreInv, ChangesOK
  <2>2. c.revision \in Nat /\ c.time \in Times
    BY <2>1 DEF ChangeRecord
  <2>3. c.time <= registries'[c.registry].updated
    BY <1>10, <2>1, <2>2 DEF Times
  <2>4. CASE c.registry # rk
    BY <1>1, <1>7, <1>10, <2>1, <2>2, <2>3, <2>4
  <2>5. CASE c.registry = rk
    <3>1. c.revision <= revision /\ (c.revision = revision => c.to = old.active)
      BY <1>1, <2>1, <2>5 DEF old
    <3>2. registries'[c.registry] = g /\ c.revision < g.revision
      BY <1>2, <1>3, <1>7, <2>2, <2>5, <3>1
    <3>3. c.revision <= g.revision /\ c.revision # g.revision
      BY <1>2, <1>3, <2>2, <3>2
    <3>4. QED BY <1>1, <1>7, <1>10, <2>1, <2>2, <2>3, <2>5, <3>1, <3>2, <3>3
  <2>6. QED BY <2>4, <2>5
<1>14. ChangesOK'
  <2>1. changes' \subseteq ChangeRecord
    BY <1>5, <1>13
  <2>2. ASSUME NEW c \in changes'
        PROVE  /\ c.registry \in DOMAIN registries'
               /\ c.revision <= registries'[c.registry].revision /\ c.time <= registries'[c.registry].updated
               /\ c.revision = registries'[c.registry].revision => c.to = registries'[c.registry].active
               /\ c.type = "activate" => c.to \in Nat /\ c.to <= registries'[c.registry].latest
               /\ c.type = "activate" /\ <<c.registry, c.to>> \in DOMAIN versions' =>
                    versions'[<<c.registry, c.to>>].base = c.from
    <3>1. CASE c \in changes
      BY <1>13, <3>1
    <3>2. CASE c = ch
      <4>1. /\ c.registry = rk /\ c.revision = registries'[rk].revision /\ c.time = registries'[rk].updated
            /\ c.to = registries'[rk].active /\ c.type # "activate"
        BY <1>3, <1>5, <1>7, <3>2
      <4>2. c.revision \in Nat /\ c.time \in Times
        BY <1>5, <3>2 DEF ChangeRecord
      <4>3. c.revision <= registries'[rk].revision /\ c.time <= registries'[rk].updated
        BY <4>1, <4>2 DEF Times
      <4>4. QED BY <1>1, <1>7, <4>1, <4>3
    <3>3. QED BY <1>5, <3>1, <3>2
  <2>3. ASSUME NEW c \in changes', NEW d \in changes', d.registry = c.registry, d.revision = c.revision + 1
        PROVE  d.from = c.to
    <3>1. c.revision \in Nat /\ d.revision \in Nat
      BY <2>1 DEF ChangeRecord
    <3>2. CASE c \in changes /\ d \in changes
      BY <2>3, <3>2 DEF StoreInv, ChangesOK
    <3>3. CASE c \in changes /\ d = ch
      <4>1. c.registry = rk /\ c.revision + 1 = revision + 1 /\ d.from = old.active
        BY <1>5, <2>3, <3>3
      <4>2. c.revision = revision
        BY <1>2, <3>1, <4>1
      <4>3. QED BY <1>13, <3>3, <4>1, <4>2
    <3>4. CASE c = ch /\ d \in changes
      <4>1. d.registry = rk /\ d.revision = (revision + 1) + 1
        BY <1>5, <2>3, <3>4
      <4>2. d.revision <= revision
        BY <1>13, <3>4, <4>1
      <4>3. QED BY <1>2, <3>1, <4>1, <4>2
    <3>5. CASE c = ch /\ d = ch
      BY <2>3, <3>1, <3>5
    <3>6. QED BY <1>5, <3>2, <3>3, <3>4, <3>5
  <2>4. QED BY <2>1, <2>2, <2>3 DEF ChangesOK
<1>15. QED BY <1>1, <1>6, <1>8, <1>9, <1>11, <1>12, <1>14 DEF StoreInv

LEMMA ChosenOfBatch == ASSUME NEW candidates, NEW KeyOf, NEW limit
                       PROVE  Batch(candidates, KeyOf, limit) \subseteq candidates
  BY DEF Batch

LEMMA PurgeProposalsKeeps ==
  ASSUME StoreInv, NEW partition, NEW before, NEW limit, purgeProposals(partition, before, limit)
  PROVE  /\ StoreInv' /\ UNCHANGED <<versions, keys>>
         /\ DOMAIN proposals' \subseteq DOMAIN proposals
         /\ \A pk \in DOMAIN proposals' : proposals'[pk] = proposals[pk]
<1> DEFINE purgeable == {pk \in DOMAIN proposals : pk[1] = partition /\ isPurgeableProposal(pk)
                                                     /\ proposals[pk].updated < before}
           gone == Batch(purgeable, [pk \in DOMAIN proposals |-> proposals[pk].key], limit)
<1>1. gone \subseteq purgeable
  BY ChosenOfBatch
<1>2. \A pk \in gone : proposals[pk].status = "activated" => \A vk \in DOMAIN versions : versions[vk].source # pk
  BY <1>1 DEF isPurgeableProposal
<1>3. proposals' = Without(proposals, gone) /\ UNCHANGED <<registries, versions, changes, keys>>
  BY DEF purgeProposals
<1> HIDE DEF gone
<1>4. /\ DOMAIN proposals' = DOMAIN proposals \ gone
      /\ \A pk \in DOMAIN proposals' : proposals'[pk] = proposals[pk]
  BY <1>3 DEF Without, Restrict
<1>5. ProposalsOK'
  BY <1>3, <1>4 DEF StoreInv, ProposalsOK
<1>6. SourcesOK'
  BY <1>2, <1>3, <1>4 DEF StoreInv, SourcesOK, CameFrom
<1>7. KeysOK' /\ RegistriesOK' /\ VersionsOK' /\ ActiveOK' /\ ChangesOK'
  BY <1>3 DEF StoreInv, KeysOK, RegistriesOK, VersionsOK, ActiveOK, ChangesOK
<1>8. QED BY <1>3, <1>4, <1>5, <1>6, <1>7 DEF StoreInv

LEMMA PurgeVersionsKeeps ==
  ASSUME StoreInv, NEW rk, NEW before, NEW limit, purgeInactiveVersions(rk, before, limit)
  PROVE  StoreInv' /\ UNCHANGED <<proposals, keys>> /\ DOMAIN versions' \subseteq DOMAIN versions
         /\ \A vk \in DOMAIN versions' : versions'[vk] = versions[vk]
<1> DEFINE inactive == {vk \in VersionsOf(rk) : vk[2] # registries[rk].active /\ versions[vk].created < before}
           gone == Batch(inactive, [vk \in DOMAIN versions |-> versions[vk].key], limit)
<1>1. \A vk \in gone : vk[1] = rk /\ vk[2] # registries[rk].active
  BY ChosenOfBatch DEF VersionsOf
<1>2. versions' = Without(versions, gone) /\ UNCHANGED <<proposals, registries, changes, keys>>
  BY DEF purgeInactiveVersions
<1> HIDE DEF gone
<1>3. /\ DOMAIN versions' = DOMAIN versions \ gone
      /\ \A vk \in DOMAIN versions' : versions'[vk] = versions[vk]
  BY <1>2 DEF Without, Restrict
<1>4. VersionsOK'
  BY <1>2, <1>3 DEF StoreInv, VersionsOK
<1>5. ActiveOK'
  BY <1>1, <1>2, <1>3 DEF StoreInv, ActiveOK
<1>6. SourcesOK'
  BY <1>2, <1>3 DEF StoreInv, SourcesOK
<1>7. ChangesOK'
  BY <1>2, <1>3 DEF StoreInv, ChangesOK
<1>8. KeysOK' /\ ProposalsOK' /\ RegistriesOK'
  BY <1>2 DEF StoreInv, KeysOK, ProposalsOK, RegistriesOK
<1>9. QED BY <1>2, <1>3, <1>4, <1>5, <1>6, <1>7, <1>8 DEF StoreInv

LEMMA PurgeChangesKeeps ==
  ASSUME StoreInv, NEW rk, NEW before, NEW limit, purgeChanges(rk, before, limit)
  PROVE  StoreInv' /\ UNCHANGED <<proposals, versions, keys>>
<1>1. changes' \subseteq changes /\ UNCHANGED <<proposals, registries, versions, keys>>
  BY DEF purgeChanges
<1>2. ChangesOK'
  BY <1>1 DEF StoreInv, ChangesOK
<1>3. KeysOK' /\ ProposalsOK' /\ RegistriesOK' /\ VersionsOK' /\ ActiveOK' /\ SourcesOK'
  BY <1>1 DEF StoreInv, KeysOK, ProposalsOK, RegistriesOK, VersionsOK, ActiveOK, SourcesOK
<1>4. QED BY <1>1, <1>2, <1>3 DEF StoreInv

(* What retention leaves of a proposal or of a version is as it was.       *)
LEMMA RetentionKeeps ==
  ASSUME StoreInv, Retention
  PROVE  /\ StoreInv' /\ UNCHANGED keys
         /\ DOMAIN proposals' \subseteq DOMAIN proposals
         /\ \A pk \in DOMAIN proposals' : proposals'[pk] = proposals[pk]
  BY PurgeProposalsKeeps, PurgeVersionsKeeps, PurgeChangesKeeps DEF Retention

LEMMA StoreStarts == StoreInit => StoreInv
  BY DEF StoreInit, StoreInv, KeysOK, ProposalsOK, RegistriesOK, VersionsOK, ActiveOK, SourcesOK, ChangesOK

(* Whatever calls are made of the store, with whatever arguments, the      *)
(* retained changes explain what is active.                                *)
THEOREM HistoryAlwaysExplains == StoreInit /\ [][StoreNext]_store => []HistoryExplains
<1>1. StoreInit => StoreInv
  BY StoreStarts
<1>2. StoreInv /\ [StoreNext]_store => StoreInv'
  <2> SUFFICES ASSUME StoreInv, [StoreNext]_store PROVE StoreInv'
    OBVIOUS
  <2>1. ASSUME NEW time \in Times, NEW id \in ProposalIds, NEW rk \in RegistryKeys, NEW content \in Contents,
               NEW base \in NumbersGiven \cup {None}, createProposal(id, rk, content, base, time, MaxProposals)
        PROVE  StoreInv'
    <3>1. base \in NumberOrNone
      BY DEF NumbersGiven, NumberOrNone
    <3>2. QED BY <2>1, <3>1, CreateKeeps
  <2>2. CASE UNCHANGED store
    BY <2>2 DEF store, StoreInv, KeysOK, ProposalsOK, RegistriesOK, VersionsOK, ActiveOK, SourcesOK, ChangesOK
  <2>3. ASSUME NEW time \in Times, NEW pk, NEW revision, NEW status \in {"validated", "rejected"},
               decideProposal(pk, revision, status, time)
        PROVE  StoreInv'
    <3>1. status \in Decisions
      BY DEF Decisions
    <3>2. QED BY <2>3, <3>1, DecideKeeps
  <2>4. QED BY <2>1, <2>2, <2>3, ActivateKeeps, TransitionKeeps, RetentionKeeps DEF StoreNext
<1>3. QED BY <1>1, <1>2, InvExplains, PTL
-----------------------------------------------------------------------------
(* The service: a verdict for every proposal ever made, and calls that     *)
(* hold what they read.                                                    *)
LandedSets == {{}, {"validated"}, {"rejected"}}
LandedFits(status, landed) ==
  /\ status = "pending" => landed = {}
  /\ status \in {"validated", "activated"} => landed = {"validated"}
  /\ status = "rejected" => landed = {"rejected"}

VerdictsOK ==
  /\ DOMAIN verdicts = 1 .. keys.proposal
  /\ \A k \in DOMAIN verdicts : verdicts[k] \in [id : ProposalKeys, landed : LandedSets]
  /\ \A k, j \in DOMAIN verdicts : verdicts[k].id = verdicts[j].id => k = j
  /\ \A pk \in DOMAIN proposals :
       /\ proposals[pk].key \in DOMAIN verdicts /\ verdicts[proposals[pk].key].id = pk
       /\ LandedFits(proposals[pk].status, verdicts[proposals[pk].key].landed)

CreateCall == [pc : {"create"}, id : ProposalIds, rk : RegistryKeys, content : Contents, time : Times,
               base : NumberOrNone]
ReviewCall == [pc : {"review"}, pk : ProposalKeys, revision : Nat, time : Times,
               mode : {"conservative", "aggressive"}, proposal : Nat]
ActivateCall == [pc : {"activate"}, pk : ProposalKeys, revision : Nat, time : Times,
                 mode : {"conservative", "aggressive"}, proposal : Nat]
TransitionCall == [pc : {"version", "transition"}, rk : RegistryKeys, target : Int \cup {None}, time : Times,
                   revision : Int]
CallRecord == {Idle} \cup CreateCall \cup ReviewCall \cup ActivateCall \cup TransitionCall

(* The proposal a review read is the one whose verdict it decides.         *)
CallsOK ==
  /\ calls \in [Callers -> CallRecord]
  /\ \A c \in Callers : calls[c].pc = "review" =>
       calls[c].proposal \in DOMAIN verdicts /\ verdicts[calls[c].proposal].id = calls[c].pk

EvolutionInv == StoreInv /\ VerdictsOK /\ CallsOK

LEMMA InvReviewed == EvolutionInv => BehaviorReviewed
<1>1. SUFFICES ASSUME EvolutionInv PROVE BehaviorReviewed
  OBVIOUS
<1>2. ASSUME NEW landed \in LandedSets PROVE Cardinality(landed) <= 1
  <2>1. Cardinality({}) = 0 /\ Cardinality({"validated"}) = 1 /\ Cardinality({"rejected"}) = 1
    BY FS_EmptySet, FS_Singleton
  <2>2. Cardinality(landed) = 0 \/ Cardinality(landed) = 1
    BY <2>1 DEF LandedSets
  <2>3. QED BY <2>2
<1>3. \A k \in DOMAIN verdicts : Cardinality(verdicts[k].landed) <= 1
  BY <1>1, <1>2 DEF EvolutionInv, VerdictsOK
<1>4. \A vk \in DOMAIN versions : verdicts[proposals[versions[vk].source].key].landed = {"validated"}
  BY <1>1 DEF EvolutionInv, VerdictsOK, StoreInv, SourcesOK, CameFrom, LandedFits
<1>5. ASSUME NEW pk \in DOMAIN proposals
      PROVE  proposals[pk].status = "pending" <=> verdicts[proposals[pk].key].landed = {}
  <2>1. proposals[pk].status \in {"pending", "validated", "rejected", "activated"}
    BY <1>1 DEF EvolutionInv, StoreInv, ProposalsOK, ProposalRecord
  <2>2. LandedFits(proposals[pk].status, verdicts[proposals[pk].key].landed)
    BY <1>1 DEF EvolutionInv, VerdictsOK
  <2>3. QED BY <2>1, <2>2 DEF LandedFits
<1>6. DecidedOnce
  BY <1>3, <1>4, <1>5 DEF DecidedOnce
<1>7. HistoryExplains
  BY <1>1, InvExplains DEF EvolutionInv
<1>8. QED BY <1>6, <1>7 DEF BehaviorReviewed

LEMMA EvolutionStarts == EvolutionInit => EvolutionInv
<1>1. SUFFICES ASSUME EvolutionInit PROVE EvolutionInv
  OBVIOUS
<1>2. StoreInv /\ CallsOK
  BY <1>1, StoreStarts DEF EvolutionInit, CallsOK, CallRecord, Idle
<1>3. DOMAIN verdicts = {} /\ DOMAIN proposals = {} /\ keys.proposal = 0
  BY <1>1 DEF EvolutionInit, StoreInit
<1>4. VerdictsOK
  BY <1>3 DEF VerdictsOK
<1>5. QED BY <1>2, <1>4 DEF EvolutionInv

(* A call that reads, or that ends, changes its own record only.           *)
LEMMA CallReads ==
  ASSUME EvolutionInv, NEW c \in Callers, NEW call \in CallRecord, CallGoes(c, call),
         UNCHANGED <<store, verdicts>>,
         call.pc = "review" => call.proposal \in DOMAIN verdicts /\ verdicts[call.proposal].id = call.pk
  PROVE  EvolutionInv'
<1>1. StoreInv'
  BY DEF EvolutionInv, store, StoreInv, KeysOK, ProposalsOK, RegistriesOK, VersionsOK, ActiveOK, SourcesOK, ChangesOK
<1>2. VerdictsOK'
  BY DEF EvolutionInv, VerdictsOK, store
<1>3. CallsOK'
  BY DEF EvolutionInv, CallsOK, CallGoes
<1>4. QED BY <1>1, <1>2, <1>3 DEF EvolutionInv

(* A call that lands changes the store, its own record and verdicts, whose *)
(* names stay.                                                             *)
LEMMA CallLands ==
  ASSUME EvolutionInv, StoreInv', VerdictsOK', NEW c \in Callers, NEW call \in CallRecord, CallGoes(c, call),
         call.pc # "review", \A k \in DOMAIN verdicts : k \in DOMAIN verdicts' /\ verdicts'[k].id = verdicts[k].id
  PROVE  EvolutionInv'
  BY DEF EvolutionInv, CallsOK, CallGoes

LEMMA CreateLandsKeeps == ASSUME EvolutionInv, NEW c \in Callers, createLands(c) PROVE EvolutionInv'
<1> DEFINE call == calls[c]
           pk == ProposalKey(call.rk, call.id)
           k0 == keys.proposal + 1
           verdict == [id |-> pk, landed |-> {}]
<1>1. call \in CreateCall
  BY DEF createLands, CallAt, EvolutionInv, CallsOK, CallRecord, Idle, ReviewCall, ActivateCall, TransitionCall
<1>2. /\ call.id \in ProposalIds /\ call.rk \in RegistryKeys /\ call.content \in Contents
      /\ call.time \in Times /\ call.base \in NumberOrNone
  BY <1>1 DEF CreateCall
<1>3. /\ createProposal(call.id, call.rk, call.content, call.base, call.time, MaxOpen)
      /\ pk \notin ProposalsNamed /\ verdicts' = With(verdicts, k0, verdict) /\ CallGoes(c, Idle)
  BY DEF createLands
<1>4. /\ StoreInv' /\ pk \notin DOMAIN proposals /\ keys'.proposal = k0
  BY <1>2, <1>3, CreateKeeps DEF EvolutionInv
<1>5. PICK p \in ProposalRecord : /\ p.key = k0 /\ p.status = "pending"
                                  /\ proposals' = With(proposals, pk, p)
  BY <1>2, <1>3, CreateKeeps DEF EvolutionInv
<1>6. keys.proposal \in Nat /\ DOMAIN verdicts = 1 .. keys.proposal /\ pk \in ProposalKeys
  BY <1>2 DEF EvolutionInv, StoreInv, KeysOK, VerdictsOK, ProposalKey, ProposalKeys
<1>7. verdict \in [id : ProposalKeys, landed : LandedSets] /\ verdict.id = pk /\ verdict.landed = {}
  BY <1>6 DEF LandedSets
<1>8. k0 \notin DOMAIN verdicts /\ DOMAIN verdicts \cup {k0} = 1 .. k0
  BY <1>6
<1> HIDE DEF verdict, k0, pk
<1>9. /\ DOMAIN verdicts' = 1 .. keys'.proposal /\ verdicts'[k0] = verdict
      /\ \A k \in DOMAIN verdicts : k \in DOMAIN verdicts' /\ verdicts'[k] = verdicts[k]
      /\ DOMAIN verdicts' = DOMAIN verdicts \cup {k0}
  BY <1>3, <1>4, <1>8 DEF With
<1>10. /\ DOMAIN proposals' = DOMAIN proposals \cup {pk} /\ proposals'[pk] = p
       /\ \A qk \in DOMAIN proposals : proposals'[qk] = proposals[qk]
  BY <1>4, <1>5 DEF With
<1>11. \A k \in DOMAIN verdicts : verdicts[k].id # pk
  BY <1>3 DEF ProposalsNamed
<1>12. /\ \A k \in DOMAIN verdicts' : verdicts'[k] \in [id : ProposalKeys, landed : LandedSets]
       /\ \A k, j \in DOMAIN verdicts' : verdicts'[k].id = verdicts'[j].id => k = j
  <2>1. /\ \A k \in DOMAIN verdicts : verdicts[k] \in [id : ProposalKeys, landed : LandedSets]
        /\ \A k, j \in DOMAIN verdicts : verdicts[k].id = verdicts[j].id => k = j
    BY DEF EvolutionInv, VerdictsOK
  <2>2. QED BY <1>7, <1>9, <1>11, <2>1
<1>13. ASSUME NEW qk \in DOMAIN proposals'
       PROVE  /\ proposals'[qk].key \in DOMAIN verdicts' /\ verdicts'[proposals'[qk].key].id = qk
              /\ LandedFits(proposals'[qk].status, verdicts'[proposals'[qk].key].landed)
  <2>1. CASE qk = pk
    BY <1>5, <1>7, <1>9, <1>10, <2>1 DEF LandedFits
  <2>2. CASE qk \in DOMAIN proposals
    BY <1>9, <1>10, <2>2 DEF EvolutionInv, VerdictsOK
  <2>3. QED BY <1>10, <2>1, <2>2
<1>14. VerdictsOK'
  BY <1>9, <1>12, <1>13 DEF VerdictsOK
<1>15. QED BY <1>3, <1>4, <1>9, <1>14, CallLands DEF CallRecord, Idle

(* A review decides the proposal it read: nobody else had.                 *)
LEMMA ReviewDecidesKeeps == ASSUME EvolutionInv, NEW c \in Callers, reviewDecides(c) PROVE EvolutionInv'
<1> DEFINE call == calls[c]
<1>1. PICK status \in Decisions :
        /\ decideProposal(call.pk, call.revision, status, call.time) /\ Landed(call.proposal, status)
        /\ CallGoes(c, IF status = "validated" /\ call.mode = "aggressive"
                       THEN [call EXCEPT !.pc = "activate", !.revision = @ + 1] ELSE Idle)
  BY DEF reviewDecides, Decisions
<1>2. call \in ReviewCall
  BY DEF reviewDecides, CallAt, EvolutionInv, CallsOK, CallRecord, Idle, CreateCall, ActivateCall, TransitionCall
<1>3. /\ call.pc = "review" /\ call.time \in Times /\ call.revision + 1 \in Nat
      /\ call.proposal \in DOMAIN verdicts /\ verdicts[call.proposal].id = call.pk
  BY <1>2 DEF ReviewCall, EvolutionInv, CallsOK
<1> HIDE DEF call
<1>4. /\ StoreInv' /\ UNCHANGED <<versions, keys>>
      /\ call.pk \in DOMAIN proposals /\ proposals[call.pk].status = "pending"
      /\ \E p \in ProposalRecord : /\ p.key = proposals[call.pk].key /\ p.status = status
                                   /\ proposals' = [proposals EXCEPT ![call.pk] = p]
  <2>1. StoreInv
    BY DEF EvolutionInv
  <2>2. PICK key, revision, time :
          /\ key = call.pk /\ revision = call.revision /\ time = call.time /\ time \in Times
          /\ decideProposal(key, revision, status, time)
    BY <1>1, <1>3
  <2>3. /\ StoreInv' /\ UNCHANGED <<versions, keys>>
        /\ key \in DOMAIN proposals /\ proposals[key].status = "pending"
        /\ \E p \in ProposalRecord : /\ p.key = proposals[key].key /\ p.status = status
                                     /\ proposals' = [proposals EXCEPT ![key] = p]
    BY <2>1, <2>2, DecideKeeps
  <2>4. QED BY <2>2, <2>3
<1>5. PICK p \in ProposalRecord : /\ p.key = proposals[call.pk].key /\ p.status = status
                                  /\ proposals' = [proposals EXCEPT ![call.pk] = p]
  BY <1>4
<1>6. /\ call.proposal = proposals[call.pk].key /\ verdicts[call.proposal].landed = {}
      /\ verdicts[call.proposal] \in [id : ProposalKeys, landed : LandedSets]
  BY <1>3, <1>4 DEF EvolutionInv, VerdictsOK, LandedFits
<1> DEFINE pk == call.pk
           k0 == call.proposal
           verdict == [verdicts[k0] EXCEPT !.landed = @ \cup {status}]
<1>7. verdict \in [id : ProposalKeys, landed : LandedSets] /\ verdict.id = pk /\ verdict.landed = {status}
  BY <1>3, <1>6 DEF LandedSets, Decisions
<1>8. verdicts' = [verdicts EXCEPT ![k0] = verdict]
  BY <1>1, <1>3 DEF Landed
<1>9. /\ DOMAIN verdicts' = DOMAIN verdicts /\ verdicts'[k0] = verdict
      /\ \A k \in DOMAIN verdicts \ {k0} : verdicts'[k] = verdicts[k]
      /\ \A k \in DOMAIN verdicts : verdicts'[k].id = verdicts[k].id
  BY <1>3, <1>7, <1>8
<1>10. /\ DOMAIN proposals' = DOMAIN proposals /\ proposals'[pk] = p
       /\ \A qk \in DOMAIN proposals \ {pk} : proposals'[qk] = proposals[qk]
  BY <1>4, <1>5
<1> DEFINE goes == IF status = "validated" /\ call.mode = "aggressive"
                   THEN [call EXCEPT !.pc = "activate", !.revision = @ + 1] ELSE Idle
<1>11. goes \in CallRecord /\ goes.pc # "review"
  <2>1. [call EXCEPT !.pc = "activate", !.revision = @ + 1] \in ActivateCall
    BY <1>2, <1>3 DEF ReviewCall, ActivateCall
  <2>2. \A x \in ActivateCall \cup {Idle} : x \in CallRecord /\ x.pc # "review"
    BY DEF CallRecord, ActivateCall, Idle
  <2>3. QED BY <2>1, <2>2
<1>12. CallGoes(c, goes)
  BY <1>1
<1> HIDE DEF verdict, k0, pk, goes
<1>13. k0 \in DOMAIN verdicts /\ proposals[pk].key = k0 /\ p.key = k0 /\ pk \in DOMAIN proposals
  BY <1>3, <1>4, <1>5, <1>6 DEF k0, pk
<1>14. /\ \A k \in DOMAIN verdicts' : verdicts'[k] \in [id : ProposalKeys, landed : LandedSets]
       /\ \A k, j \in DOMAIN verdicts' : verdicts'[k].id = verdicts'[j].id => k = j
  BY <1>7, <1>9 DEF EvolutionInv, VerdictsOK
<1>15. ASSUME NEW qk \in DOMAIN proposals'
       PROVE  /\ proposals'[qk].key \in DOMAIN verdicts' /\ verdicts'[proposals'[qk].key].id = qk
              /\ LandedFits(proposals'[qk].status, verdicts'[proposals'[qk].key].landed)
  <2>1. CASE qk = pk
    BY <1>5, <1>7, <1>9, <1>10, <1>13, <2>1 DEF LandedFits, Decisions
  <2>2. CASE qk # pk
    <3>1. qk \in DOMAIN proposals /\ proposals'[qk] = proposals[qk]
      BY <1>10, <2>2
    <3>2. /\ proposals[qk].key \in DOMAIN verdicts /\ verdicts[proposals[qk].key].id = qk
          /\ LandedFits(proposals[qk].status, verdicts[proposals[qk].key].landed)
      BY <3>1 DEF EvolutionInv, VerdictsOK
    <3>3. proposals[qk].key # k0
      BY <1>3, <2>2, <3>2 DEF k0, pk
    <3>4. QED BY <1>9, <3>1, <3>2, <3>3
  <2>3. QED BY <2>1, <2>2
<1>16. DOMAIN verdicts' = 1 .. keys'.proposal
  BY <1>4, <1>9 DEF EvolutionInv, VerdictsOK
<1>17. VerdictsOK'
  BY <1>14, <1>15, <1>16 DEF VerdictsOK
<1>18. QED BY <1>4, <1>9, <1>11, <1>12, <1>17, CallLands

(* Verdicts hold of the proposals a step kept, whatever it did of their    *)
(* state that leaves the decision as it is.                                *)
LEMMA VerdictsStay ==
  ASSUME EvolutionInv, UNCHANGED verdicts, keys'.proposal = keys.proposal,
         \A pk \in DOMAIN proposals' :
           /\ pk \in DOMAIN proposals /\ proposals'[pk].key = proposals[pk].key
           /\ \/ proposals'[pk].status = proposals[pk].status
              \/ proposals[pk].status = "validated" /\ proposals'[pk].status = "activated"
  PROVE  VerdictsOK'
<1>1. ASSUME NEW pk \in DOMAIN proposals'
      PROVE  /\ proposals'[pk].key \in DOMAIN verdicts /\ verdicts[proposals'[pk].key].id = pk
             /\ LandedFits(proposals'[pk].status, verdicts[proposals'[pk].key].landed)
  BY DEF EvolutionInv, VerdictsOK, LandedFits
<1>2. QED BY <1>1 DEF EvolutionInv, VerdictsOK

LEMMA ActivateLandsKeeps == ASSUME EvolutionInv, NEW c \in Callers, activateLands(c) PROVE EvolutionInv'
<1> DEFINE call == calls[c]
<1>1. /\ activateProposal(call.pk, call.revision, call.time, MaxVersions)
      /\ CallGoes(c, Idle) /\ UNCHANGED verdicts
  BY DEF activateLands
<1>2. call \in ActivateCall
  BY DEF activateLands, CallAt, EvolutionInv, CallsOK, CallRecord, Idle, CreateCall, ReviewCall, TransitionCall
<1>3. call.time \in Times
  BY <1>2 DEF ActivateCall
<1>4. /\ StoreInv' /\ call.pk \in DOMAIN proposals /\ proposals[call.pk].status = "validated"
      /\ keys'.proposal = keys.proposal
  BY <1>1, <1>3, ActivateKeeps DEF EvolutionInv
<1>5. PICK p \in ProposalRecord : /\ p.key = proposals[call.pk].key /\ p.status = "activated"
                                  /\ proposals' = [proposals EXCEPT ![call.pk] = p]
  BY <1>1, <1>3, ActivateKeeps DEF EvolutionInv
<1>6. VerdictsOK'
  BY <1>1, <1>4, <1>5, VerdictsStay
<1>7. QED BY <1>1, <1>4, <1>6, CallLands DEF CallRecord, Idle

LEMMA TransitionLandsKeeps == ASSUME EvolutionInv, NEW c \in Callers, transitionLands(c) PROVE EvolutionInv'
<1> DEFINE call == calls[c]
<1>1. /\ transitionRegistry(call.rk, call.revision, call.target, call.time)
      /\ CallGoes(c, Idle) /\ UNCHANGED verdicts
  BY DEF transitionLands
<1>2. call \in TransitionCall
  BY DEF transitionLands, CallAt, EvolutionInv, CallsOK, CallRecord, Idle, CreateCall, ReviewCall, ActivateCall
<1>3. call.time \in Times
  BY <1>2 DEF TransitionCall
<1>4. StoreInv' /\ UNCHANGED <<proposals, versions>> /\ keys'.proposal = keys.proposal
  BY <1>1, <1>3, TransitionKeeps DEF EvolutionInv
<1>5. VerdictsOK'
  BY <1>1, <1>4, VerdictsStay
<1>6. QED BY <1>1, <1>4, <1>5, CallLands DEF CallRecord, Idle

LEMMA ReadsKeep ==
  ASSUME EvolutionInv, NEW c \in Callers,
         createReads(c) \/ reviewReads(c) \/ activateReads(c) \/ transitionReads(c) \/ versionRead(c) \/ ends(c)
  PROVE  EvolutionInv'
<1>1. CASE createReads(c)
  <2>1. PICK id \in ProposalIds, rk \in RegistryKeys, content \in Contents, time \in Times :
          CallGoes(c, [pc |-> "create", id |-> id, rk |-> rk, content |-> content, time |-> time,
                       base |-> ActiveVersion(rk)])
    BY <1>1 DEF createReads
  <2> DEFINE call == [pc |-> "create", id |-> id, rk |-> rk, content |-> content, time |-> time,
                      base |-> ActiveVersion(rk)]
  <2>2. ActiveVersion(rk) \in NumberOrNone
    BY DEF ActiveVersion, NumberOrNone, EvolutionInv, StoreInv, RegistriesOK, RegistryRecord
  <2>3. call \in CallRecord /\ call.pc # "review" /\ CallGoes(c, call)
    BY <2>1, <2>2 DEF CallRecord, CreateCall
  <2>4. UNCHANGED <<store, verdicts>>
    BY <1>1 DEF createReads
  <2> HIDE DEF call
  <2>5. QED BY <2>3, <2>4, CallReads
<1>2. CASE reviewReads(c)
  <2>1. PICK pk \in DOMAIN proposals, time \in Times, mode \in {"conservative", "aggressive"} :
          CallGoes(c, [pc |-> "review", pk |-> pk, revision |-> proposals[pk].revision, time |-> time,
                       mode |-> mode, proposal |-> proposals[pk].key])
    BY <1>2 DEF reviewReads
  <2> DEFINE call == [pc |-> "review", pk |-> pk, revision |-> proposals[pk].revision, time |-> time,
                      mode |-> mode, proposal |-> proposals[pk].key]
  <2>2. pk \in ProposalKeys /\ proposals[pk].revision \in Nat /\ proposals[pk].key \in Nat
    BY DEF EvolutionInv, StoreInv, ProposalsOK, ProposalRecord
  <2>3. call \in CallRecord /\ CallGoes(c, call) /\ call.proposal = proposals[pk].key /\ call.pk = pk
    BY <2>1, <2>2 DEF CallRecord, ReviewCall
  <2>4. call.proposal \in DOMAIN verdicts /\ verdicts[call.proposal].id = call.pk
    BY <2>3 DEF EvolutionInv, VerdictsOK
  <2>5. UNCHANGED <<store, verdicts>>
    BY <1>2 DEF reviewReads
  <2> HIDE DEF call
  <2>6. QED BY <2>3, <2>4, <2>5, CallReads
<1>3. CASE activateReads(c)
  <2>1. PICK pk \in DOMAIN proposals, time \in Times :
          CallGoes(c, [pc |-> "activate", pk |-> pk, revision |-> proposals[pk].revision, time |-> time,
                       mode |-> "conservative", proposal |-> proposals[pk].key])
    BY <1>3 DEF activateReads
  <2> DEFINE call == [pc |-> "activate", pk |-> pk, revision |-> proposals[pk].revision, time |-> time,
                      mode |-> "conservative", proposal |-> proposals[pk].key]
  <2>2. pk \in ProposalKeys /\ proposals[pk].revision \in Nat /\ proposals[pk].key \in Nat
    BY DEF EvolutionInv, StoreInv, ProposalsOK, ProposalRecord
  <2>3. call \in CallRecord /\ call.pc # "review" /\ CallGoes(c, call)
    BY <2>1, <2>2 DEF CallRecord, ActivateCall
  <2>4. UNCHANGED <<store, verdicts>>
    BY <1>3 DEF activateReads
  <2> HIDE DEF call
  <2>5. QED BY <2>3, <2>4, CallReads
<1>4. CASE transitionReads(c)
  <2>1. PICK rk \in DOMAIN registries, target \in (1..MaxProposals) \cup {None}, time \in Times, revision \in Numbers :
          CallGoes(c, [pc |-> IF target = None THEN "transition" ELSE "version", rk |-> rk, target |-> target,
                       time |-> time, revision |-> revision])
    BY <1>4 DEF transitionReads
  <2> DEFINE call == [pc |-> IF target = None THEN "transition" ELSE "version", rk |-> rk, target |-> target,
                      time |-> time, revision |-> revision]
  <2>2. rk \in RegistryKeys /\ target \in Int \cup {None} /\ revision \in Int
    BY DEF EvolutionInv, StoreInv, RegistriesOK, Numbers
  <2>3. call \in CallRecord /\ call.pc # "review" /\ CallGoes(c, call)
    BY <2>1, <2>2 DEF CallRecord, TransitionCall
  <2>4. UNCHANGED <<store, verdicts>>
    BY <1>4 DEF transitionReads
  <2> HIDE DEF call
  <2>5. QED BY <2>3, <2>4, CallReads
<1>5. CASE versionRead(c)
  <2> DEFINE call == [calls[c] EXCEPT !.pc = "transition"]
  <2>1. calls[c] \in TransitionCall
    BY <1>5 DEF versionRead, CallAt, EvolutionInv, CallsOK, CallRecord, Idle, CreateCall, ReviewCall, ActivateCall
  <2>2. call \in TransitionCall /\ call.pc # "review"
    BY <2>1 DEF TransitionCall
  <2>3. call \in CallRecord
    BY <2>2 DEF CallRecord
  <2>4. UNCHANGED <<store, verdicts>> /\ CallGoes(c, call)
    BY <1>5 DEF versionRead
  <2> HIDE DEF call
  <2>5. QED BY <2>2, <2>3, <2>4, CallReads
<1>6. CASE ends(c)
  <2>1. UNCHANGED <<store, verdicts>> /\ CallGoes(c, Idle)
    BY <1>6 DEF ends
  <2>2. Idle \in CallRecord /\ Idle.pc # "review"
    BY DEF CallRecord, Idle
  <2>3. QED BY <2>1, <2>2, CallReads
<1>7. QED BY <1>1, <1>2, <1>3, <1>4, <1>5, <1>6

LEMMA EvolutionKeeps == ASSUME EvolutionInv, [EvolutionNext]_evolution PROVE EvolutionInv'
<1>1. ASSUME NEW c \in Callers,
             createReads(c) \/ reviewReads(c) \/ activateReads(c) \/ transitionReads(c) \/ versionRead(c) \/ ends(c)
      PROVE  EvolutionInv'
  BY <1>1, ReadsKeep
<1>2. ASSUME NEW c \in Callers,
             createLands(c) \/ reviewDecides(c) \/ activateLands(c) \/ transitionLands(c)
      PROVE  EvolutionInv'
  BY <1>2, CreateLandsKeeps, ReviewDecidesKeeps, ActivateLandsKeeps, TransitionLandsKeeps
<1>3. CASE Retention /\ UNCHANGED <<calls, verdicts>>
  <2>1. /\ StoreInv' /\ UNCHANGED keys
        /\ DOMAIN proposals' \subseteq DOMAIN proposals
        /\ \A pk \in DOMAIN proposals' : proposals'[pk] = proposals[pk]
    BY <1>3, RetentionKeeps DEF EvolutionInv
  <2>2. VerdictsOK'
    BY <1>3, <2>1, VerdictsStay
  <2>3. CallsOK'
    BY <1>3 DEF EvolutionInv, CallsOK
  <2>4. QED BY <2>1, <2>2, <2>3 DEF EvolutionInv
<1>4. CASE UNCHANGED evolution
  <2>1. StoreInv'
    BY <1>4 DEF evolution, EvolutionInv, store, StoreInv, KeysOK, ProposalsOK, RegistriesOK, VersionsOK, ActiveOK,
                SourcesOK, ChangesOK
  <2>2. VerdictsOK' /\ CallsOK'
    BY <1>4 DEF evolution, EvolutionInv, store, VerdictsOK, CallsOK
  <2>3. QED BY <2>1, <2>2 DEF EvolutionInv
<1>5. QED BY <1>1, <1>2, <1>3, <1>4 DEF EvolutionNext

(* Whoever reviews, activates and rolls back at the same time: a proposal  *)
(* is decided once, only what a review accepted is ever a version, and the *)
(* retained changes explain which version is active.                       *)
THEOREM AlwaysReviewed == EvolutionSpec => []BehaviorReviewed
<1>1. EvolutionInit => EvolutionInv
  BY EvolutionStarts
<1>2. EvolutionInv /\ [EvolutionNext]_evolution => EvolutionInv'
  BY EvolutionKeeps
<1>3. QED BY <1>1, <1>2, InvReviewed, PTL DEF EvolutionSpec
=============================================================================
