------------------------- MODULE DurableTranscript --------------------------
(***************************************************************************)
(* One actor of the runtime with a durable transcript: its Agent writes    *)
(* every record before it acts on it, a restart restores the transcript,   *)
(* repairs it and brings the canonical events up to date with it.          *)
(*                                                                         *)
(* Pi, the agent loop, and the provider are external: Pi asks the provider *)
(* for an answer, executes the Tool calls of it (one by one, or together   *)
(* when Parallel), reports each result and the end of each turn, and goes  *)
(* on with a new turn after Tool calls.  An exception in a listener fails  *)
(* the run; Pi may or may not report the end of the turn after it.         *)
(***************************************************************************)
EXTENDS Integers, Sequences, FiniteSets, SequencesExt

CONSTANTS
  Runs,
  Calls,       \* the numbers of Tool calls an assistant message may make
  MaxTurns,    \* the stop policy ends a run after this turn
  Parallel,    \* whether Pi executes the calls of a message together
  Defers,      \* whether the provider may defer its answer
  Compacts,    \* whether the transcript is compacted and purged
  Lapses,      \* kinds of faults: "crash", "lost" and "stored" commits, "event",
               \* an outage of the canonical events, and "evidence", a failure
               \* of the provider's provenance sink
  MaxLapses,   \* how many faults happen
  Aborts,      \* what a player may abort: a "run", a resume still "queued"
  ResumedFails \* how a resumed run may fail once its operation is settled:
               \* by an "abort", a later "answer", or a "tool"

VARIABLES
  transcript,  \* the stored stream
  canon,       \* what the canonical events say of each run
  actor,       \* registration: its stage, and what it has left to write
  agent,       \* the live Agent
  performed,   \* Tool effects: <<assistant message, index of the call>>
  lapses,      \* faults so far
  contradicted \* history: runs that ended otherwise than their transcript had it

vars == <<transcript, canon, actor, agent, performed, lapses, contradicted>>

-----------------------------------------------------------------------------
(* The records: which sequences of them a restore accepts, what it         *)
(* concludes from them and which records it adds.  A record's identity is  *)
(* its sequence number, and a provider operation's is that of the record   *)
(* that opened it.  What messages say is left out.                         *)

None == 0

(* A stream of stored records; a purge of its beginning moves "from".      *)
EmptyStream == [from |-> 1, records |-> <<>>]
Revision(t) == t.from + Len(t.records) - 1
Appended(t, rs) == [t EXCEPT !.records = @ \o rs]
At(t, sequence) == t.records[sequence - t.from + 1]
Stored(t) == {t.records[i] : i \in DOMAIN t.records}

-----------------------------------------------------------------------------
(* Records; "at" is the run and the turn they belong to *)

user(at) == [type |-> "user", at |-> at]
assistant(at, calls) == [type |-> "assistant", at |-> at, calls |-> calls]
toolStarted(at, message, index) ==
  [type |-> "tool.started", at |-> at, message |-> message, index |-> index]
toolCompleted(at, message, index, started, outcome) ==
  [type |-> "tool.completed", at |-> at, message |-> message, index |-> index,
   started |-> started, outcome |-> outcome]
turnClosed(at, status) == [type |-> "turn.closed", at |-> at, status |-> status]
checkpoint(at, source) == [type |-> "context.checkpoint", at |-> at, source |-> source]
deferredOpened(at) == [type |-> "deferred.opened", at |-> at]
deferredCompleted(at, op, calls) ==
  [type |-> "deferred.completed", at |-> at, op |-> op, calls |-> calls]
deferredAbandoned(at, op) == [type |-> "deferred.abandoned", at |-> at, op |-> op]
deferredRunClosed(at, op, status) ==
  [type |-> "deferred.run.closed", at |-> at, op |-> op, status |-> status]

openToolCalls(calls) == [i \in 1..calls |-> [start |-> None, completed |-> FALSE]]
NewTurn(at) ==
  [at |-> at, message |-> None, calls |-> <<>>, op |-> None, deferred |-> "none"]

(* The turn a record belongs to, started by it if none is open; "open" is  *)
(* a sequence of at most one turn.                                         *)
current(open, r) == IF open = <<>> THEN NewTurn(r.at) ELSE open[1]
Unanswered(turn) == {i \in DOMAIN turn.calls : ~turn.calls[i].completed}

(* The checks of a fold of record r into the open turn, after record prev. *)
Foldable(open, prev, r) ==
  LET t == current(open, r) IN
  CASE r.type = "deferred.run.closed" -> open = <<>>
    [] r.type = "context.checkpoint" ->
         open = <<>> /\ prev # <<>> /\ prev[1].type = "turn.closed"
         /\ prev[1].status = "completed" /\ prev[1].at = r.at
    [] r.type = "turn.closed" ->
         /\ open # <<>> /\ t.at = r.at /\ t.deferred # "pending" /\ Unanswered(t) = {}
         /\ r.status = "completed" => t.message # None
    [] r.type \in {"user", "assistant", "deferred.opened"} ->
         t.at = r.at /\ t.message = None /\ t.deferred = "none"
    [] r.type \in {"deferred.completed", "deferred.abandoned"} ->
         t.at = r.at /\ t.deferred = "pending" /\ t.op = r.op
    [] r.type = "tool.started" ->
         /\ t.at = r.at /\ r.message = t.message /\ r.index \in DOMAIN t.calls
         /\ t.calls[r.index].start = None /\ ~t.calls[r.index].completed
    [] r.type = "tool.completed" ->
         /\ t.at = r.at /\ r.message = t.message /\ r.index \in Unanswered(t)
         /\ \A i \in Unanswered(t) : i >= r.index
         /\ r.outcome # "not_started" => t.calls[r.index].start # None
         /\ r.started = t.calls[r.index].start

foldRecord(open, r, sequence) ==
  LET t == current(open, r) IN
  CASE r.type \in {"deferred.run.closed", "context.checkpoint", "turn.closed"} -> <<>>
    [] r.type = "user" -> <<t>>
    [] r.type = "assistant" ->
         <<[t EXCEPT !.message = sequence, !.calls = openToolCalls(r.calls)]>>
    [] r.type = "deferred.opened" -> <<[t EXCEPT !.op = sequence, !.deferred = "pending"]>>
    [] r.type = "deferred.completed" ->
         <<[t EXCEPT !.message = sequence, !.calls = openToolCalls(r.calls),
                     !.deferred = "completed"]>>
    [] r.type = "deferred.abandoned" -> <<[t EXCEPT !.deferred = "abandoned"]>>
    [] r.type = "tool.started" -> <<[t EXCEPT !.calls[r.index].start = sequence]>>
    [] r.type = "tool.completed" -> <<[t EXCEPT !.calls[r.index].completed = TRUE]>>

-----------------------------------------------------------------------------
(* The scan of a stored stream *)

NoClosure == [turn |-> None, status |-> "none", toolUse |-> FALSE]

emptyScan(t) ==
  [ok |-> TRUE, sequence |-> t.from, open |-> <<>>, prev |-> <<>>, terminals |-> <<>>,
   origin |-> [r \in Runs |-> None], settled |-> [r \in Runs |-> "none"],
   closed |-> {}, last |-> [r \in Runs |-> NoClosure]]

(* A deferred run's terminal record names the run's latest operation, which *)
(* is settled, and the run's last closed turn.                              *)
TerminalMatches(s, r) ==
  LET run == r.at[1] IN
  /\ s.origin[run] = r.op /\ s.settled[run] # "none"
  /\ s.settled[run] = "abandoned" => r.status = "aborted"
  /\ s.last[run].turn = r.at[2]

settles(s, r) ==
  CASE r.type = "deferred.opened" ->
         [s EXCEPT !.origin[r.at[1]] = s.sequence, !.settled[r.at[1]] = "none"]
    [] r.type = "deferred.completed" -> [s EXCEPT !.settled[r.at[1]] = "completed"]
    [] r.type = "deferred.abandoned" -> [s EXCEPT !.settled[r.at[1]] = "abandoned"]
    [] r.type = "deferred.run.closed" ->
         [s EXCEPT !.closed = @ \cup {r.at[1]}, !.terminals = Append(@, r)]
    [] OTHER -> s

(* After a purge the first record is the closed turn a checkpoint replaced *)
(* and only vouches for the checkpoint that must follow it.                *)
scanRecord(s, r) ==
  LET anchor == s.sequence > 1 /\ s.prev = <<>>
      n == settles(s, r)
      accepted ==
        IF anchor THEN r.type = "turn.closed" /\ r.status = "completed"
        ELSE /\ r.at[1] \notin s.closed
             /\ r.type = "deferred.run.closed" => TerminalMatches(s, r)
             /\ Foldable(s.open, s.prev, r)
  IN IF ~s.ok \/ ~accepted THEN [s EXCEPT !.ok = FALSE]
     ELSE IF anchor THEN [s EXCEPT !.sequence = @ + 1, !.prev = <<r>>]
     ELSE [n EXCEPT !.sequence = @ + 1, !.prev = <<r>>,
                    !.open = foldRecord(s.open, r, s.sequence),
                    !.last[r.at[1]] =
                      IF r.type # "turn.closed" THEN @
                      ELSE [turn |-> r.at[2], status |-> r.status,
                            toolUse |-> s.open[1].calls # <<>>]]

scanCommittedTranscript(t) ==
  LET retained == t.from > 1
      scanned[n \in 0..Len(t.records)] ==
        IF n = 0 THEN emptyScan(t)
        ELSE CHOOSE next \in {scanRecord(s, t.records[n]) : s \in {scanned[n - 1]}} : TRUE
      s == scanned[Len(t.records)]
  IN IF retained /\ (Len(t.records) < 2 \/ t.records[2].type # "context.checkpoint")
     THEN [s EXCEPT !.ok = FALSE] ELSE s

pendingDeferred(s) ==
  IF s.open # <<>> /\ s.open[1].deferred = "pending" THEN s.open[1].op ELSE None

-----------------------------------------------------------------------------
(* What a restore appends *)

(* Mutant: every call without a result is answered as never started. *)
prepareRepairNotStarted(turn) ==
  LET unanswered == SetToSortSeq(Unanswered(turn), <)
  IN [k \in DOMAIN unanswered |->
        toolCompleted(turn.at, turn.message, unanswered[k], turn.calls[unanswered[k]].start,
                      "not_started")]
     \o <<turnClosed(turn.at, "interrupted")>>

(* Calls without a result get one in source order: one never started says  *)
(* so, one that was has an unknown outcome.  Then the turn is closed.      *)
prepareRepair(turn) ==
  LET repaired(i) ==
        toolCompleted(turn.at, turn.message, i, turn.calls[i].start,
          IF turn.calls[i].start = None THEN "not_started" ELSE "outcome_unknown")
      unanswered == SetToSortSeq(Unanswered(turn), <)
  IN [k \in DOMAIN unanswered |-> repaired(unanswered[k])]
     \o <<turnClosed(turn.at, "interrupted")>>

RepairedTerminal(s, run, turn) ==
  deferredRunClosed(<<run, turn>>, s.origin[run],
                    IF s.settled[run] = "abandoned" THEN "aborted" ELSE "failed")

(* Deferred runs whose last turn is closed get their terminal record too,  *)
(* unless that turn's tools were answered and the run could have gone on.  *)
repairs(s) ==
  LET open == IF s.open = <<>> \/ pendingDeferred(s) # None THEN <<>> ELSE s.open
      openRuns == {turn.at[1] : turn \in ToSet(open)}
      Closable(run) ==
        /\ s.origin[run] # None /\ run \notin s.closed \cup openRuns
        /\ s.origin[run] # pendingDeferred(s)
        /\ s.last[run] # NoClosure
        /\ ~(s.last[run].status = "completed" /\ s.last[run].toolUse)
      closable == SetToSortSeq({run \in Runs : Closable(run)},
                               LAMBDA a, b : s.origin[a] < s.origin[b])
  IN (IF open = <<>> THEN <<>> ELSE prepareRepair(open[1]))
     \o (IF \A run \in openRuns : s.origin[run] = None \/ run \in s.closed THEN <<>>
         ELSE <<RepairedTerminal(s, open[1].at[1], open[1].at[2])>>)
     \o [k \in DOMAIN closable |->
           RepairedTerminal(s, closable[k], s.last[closable[k]].turn)]

-----------------------------------------------------------------------------
(* Retention *)

(* A purge before a checkpoint keeps its source, the turn it closes; pinned *)
(* revisions must be later.                                                 *)
Purgeable(t, cp, limit, pinned) ==
  /\ cp \in t.from + 1..Revision(t)
  /\ At(t, cp).type = "context.checkpoint"
  /\ cp - 1 - t.from \in 1..limit
  /\ \A revision \in pinned : revision > cp - 1

purged(t, cp) == [from |-> cp - 1, records |-> SubSeq(t.records, cp - t.from, Len(t.records))]

-----------------------------------------------------------------------------
(* The live Agent, its commits and restarts. *)

Unqueued == [state |-> "unqueued", op |-> None, ended |-> 0]
Absent == [stage |-> "absent", repairs |-> <<>>, terminals |-> <<>>, pending |-> None, input |-> None]
Idle(revision, pending) ==
  [phase |-> "idle", run |-> None, turn |-> 0, rev |-> revision, usable |-> TRUE,
   pending |-> pending, origin |-> None, turnOpen |-> FALSE, message |-> None,
   intents |-> <<>>, aborted |-> FALSE, broken |-> FALSE, ends |-> "completed",
   committed |-> "none"]

Init ==
  /\ transcript = EmptyStream /\ canon = [r \in Runs |-> Unqueued]
  /\ actor = Absent /\ agent = Idle(0, None) /\ performed = {} /\ lapses = 0 /\ contradicted = {}

Lapse(kind) == kind \in Lapses /\ lapses < MaxLapses /\ lapses' = lapses + 1
here == <<agent.run, agent.turn>>
RunOf(op) == At(transcript, op).at[1]

-----------------------------------------------------------------------------
(* Commits of the live Agent: atomic, at the revision it knows.  A commit  *)
(* that fails may have been stored all the same.                           *)

Committed(a, rs) == [a EXCEPT !.rev = @ + Len(rs)]
Unusable(a) == [a EXCEPT !.usable = FALSE]

commit(rs, done, failed) ==
  /\ \/ /\ agent.rev = Revision(transcript)
        /\ transcript' = Appended(transcript, rs)
        /\ \/ agent' = Committed(done, rs) /\ UNCHANGED lapses
           \/ Lapse("stored") /\ agent' \in {Unusable(f) : f \in failed}
     \/ /\ IF agent.rev = Revision(transcript) THEN Lapse("lost") ELSE UNCHANGED lapses
        /\ agent' \in {Unusable(f) : f \in failed}
        /\ UNCHANGED transcript
  /\ UNCHANGED <<canon, actor, performed, contradicted>>

Pending(a) == a.pending # None
Running(a) == a.phase \in {"prompt", "request", "tools", "turnEnd", "compact"}

(* The status a run ends with: as Pi saw it, or after an exception.        *)
runCompletionStatus(a) ==
  IF a.broken THEN "failed" ELSE IF Pending(a) THEN "deferred"
  ELSE IF a.aborted THEN "aborted" ELSE a.ends
caughtStatus(a) ==
  IF Pending(a) /\ ~a.broken THEN "deferred"
  ELSE IF a.committed # "none" THEN a.committed
  ELSE IF a.aborted THEN "aborted" ELSE "failed"

Ended(a) == [a EXCEPT !.phase = "ending", !.ends = runCompletionStatus(a)]
Caught(a) == [a EXCEPT !.phase = "caught", !.ends = caughtStatus(a)]
(* An exception in a listener of Pi's events.                              *)
Thrown(a) ==
  LET f == [a EXCEPT !.ends = "failed"]
  IN {[f EXCEPT !.phase = "turnEnd"], Ended(f), Caught(f)}
Broken(a) == Thrown([a EXCEPT !.broken = TRUE])

Suspended(c, op) == [c EXCEPT !.state = "deferred", !.op = op]
Completed(c, status) == [c EXCEPT !.state = status, !.ended = @ + 1]

Live == actor.stage = "ready"
May(kind) == kind \in ResumedFails \/ agent.origin = None
Steps(phase) == Live /\ agent.phase = phase
OnlyAgent(a) == agent' = a /\ UNCHANGED <<transcript, canon, actor, performed, lapses, contradicted>>

-----------------------------------------------------------------------------
(* A run of the Agent *)

(* A new input is admitted, and started unless the Agent can no longer be  *)
(* trusted: such a run fails at once.                                      *)
submit(r) ==
  /\ Live /\ agent.phase = "idle" /\ ~Pending(agent)
  /\ canon[r] = Unqueued /\ \A q \in Runs : q < r => canon[q] # Unqueued
  /\ IF agent.usable
     THEN /\ agent' = [Idle(agent.rev, None) EXCEPT !.phase = "prompt", !.run = r, !.turn = 1]
          /\ canon' = [canon EXCEPT ![r].state = "open"]
     ELSE canon' = [canon EXCEPT ![r] = [Unqueued EXCEPT !.state = "failed", !.ended = 1]]
          /\ UNCHANGED agent
  /\ UNCHANGED <<transcript, actor, performed, lapses, contradicted>>

(* The canonical events of the run whose operation op is pending allow its *)
(* resume; an end of the run does not.                                     *)
Resumable(op) ==
  LET c == canon[RunOf(op)] IN c.state = "open" \/ (c.state = "deferred" /\ c.op = op)

(* The pending operation's answer is fetched again.  An Agent that can no  *)
(* longer be trusted leaves the run suspended.                             *)
resumeDeferred ==
  /\ Live /\ agent.phase = "idle" /\ Pending(agent) /\ Resumable(agent.pending)
  /\ LET opened == At(transcript, agent.pending) IN
     IF agent.usable
     THEN /\ agent' = [Idle(agent.rev, agent.pending) EXCEPT
                         !.phase = "request", !.run = opened.at[1], !.turn = opened.at[2],
                         !.origin = agent.pending, !.turnOpen = TRUE]
          /\ canon' = [canon EXCEPT ![opened.at[1]].state = "open"]
     ELSE canon' = [canon EXCEPT ![opened.at[1]] = Suspended(@, agent.pending)] /\ UNCHANGED agent
  /\ UNCHANGED <<transcript, actor, performed, lapses, contradicted>>

(* A resume still queued, for want of a slot, is aborted like any queued   *)
(* run: the run has ended and its operation is pending.                    *)
abortQueuedResume ==
  /\ Live /\ agent.phase = "idle" /\ Pending(agent) /\ Resumable(agent.pending) /\ "queued" \in Aborts
  /\ canon' = [canon EXCEPT ![RunOf(agent.pending)] = Completed(@, "aborted")]
  /\ contradicted' = contradicted \cup {RunOf(agent.pending)}
  /\ UNCHANGED <<transcript, actor, agent, performed, lapses>>

recordUser ==
  /\ Steps("prompt")
  /\ commit(<<user(here)>>, [agent EXCEPT !.phase = "request", !.turnOpen = TRUE], Broken(agent))

Answered(a, n) ==
  [a EXCEPT !.phase = IF n = 0 THEN "turnEnd" ELSE "tools", !.pending = None,
            !.turnOpen = TRUE, !.message = a.rev + 1,
            !.intents = [i \in 1..n |-> [start |-> None, is |-> "waiting", completed |-> FALSE]]]

(* A message of the provider is recorded, then the attempt that gave it is *)
(* settled in the provenance sink; if that fails the run does.             *)
commitResponse(rs, done, failed) ==
  \/ commit(rs, done, failed)
  \/ /\ agent.rev = Revision(transcript) /\ Lapse("evidence")
     /\ transcript' = Appended(transcript, rs)
     /\ agent' \in Broken(Committed(done, rs))
     /\ UNCHANGED <<canon, actor, performed, contradicted>>

(* A completed answer; to a resumed request it settles the operation.      *)
recordAssistant(n) ==
  /\ Steps("request")
  /\ IF Pending(agent)
     THEN commit(<<deferredCompleted(here, agent.pending, n)>>, Answered(agent, n), Thrown(agent))
     ELSE commitResponse(<<assistant(here, n)>>, Answered(agent, n), Broken(agent))

recordDeferred ==
  /\ Steps("request") /\ Defers
  /\ IF Pending(agent) THEN OnlyAgent([agent EXCEPT !.phase = "turnEnd"])
     ELSE commitResponse(<<deferredOpened(here)>>,
                 [agent EXCEPT !.pending = agent.rev + 1, !.origin = agent.rev + 1,
                               !.turnOpen = TRUE, !.phase = "turnEnd"],
                 Thrown(agent))

(* The provider fails or is aborted, or its attempt cannot be put on       *)
(* record: no message is, and an Agent left with part of an answer differs *)
(* from its transcript.                                                    *)
providerFails ==
  /\ Steps("request")
  /\ May("answer") \/ Pending(agent)
  /\ \E partial \in BOOLEAN :
       LET failed == [agent EXCEPT !.phase = "turnEnd", !.ends = "failed",
                                   !.usable = @ /\ (partial => Pending(agent))]
       IN  \/ agent' = failed /\ UNCHANGED lapses
           \/ ~Pending(agent) /\ Lapse("evidence") /\ agent' = [failed EXCEPT !.broken = TRUE]
  /\ UNCHANGED <<transcript, canon, actor, performed, contradicted>>

-----------------------------------------------------------------------------
(* Tool calls *)

Earlier(i) == {j \in DOMAIN agent.intents : j < i}
Turn(i) == Parallel \/ \A j \in Earlier(i) : agent.intents[j].completed
Becomes(i, what) == [agent EXCEPT !.intents[i].is = what]

(* Refused by policy, guard or abort: Pi reports an error as its result.   *)
refuseTool(i) ==
  /\ Steps("tools") /\ Turn(i) /\ agent.intents[i].is = "waiting"
  /\ OnlyAgent(Becomes(i, "settled"))

recordToolStarted(i) ==
  /\ Steps("tools") /\ Turn(i) /\ agent.intents[i].is = "waiting" /\ ~agent.aborted
  /\ commit(<<toolStarted(here, agent.message, i)>>,
            [agent EXCEPT !.intents[i].start = agent.rev + 1, !.intents[i].is = "started"],
            {Becomes(i, "settled")})

(* The effect, unless the run was aborted while the start was recorded.  A *)
(* prepared Action whose outcome is open stays unresolved, and a result    *)
(* that cannot be captured stays unfinished.                               *)
executeTool(i) ==
  /\ Steps("tools") /\ agent.intents[i].is = "started"
  /\ \/ agent' = Becomes(i, "settled")
     \/ May("tool") /\ agent' \in {Becomes(i, "unresolved"), Becomes(i, "unfinalized")}
     \/ May("abort") /\ agent.aborted /\ agent' = Becomes(i, "unresolved")
  /\ performed' \in {performed \cup {<<agent.message, i>>}}
                    \cup (IF agent.aborted THEN {performed} ELSE {})
  /\ UNCHANGED <<transcript, canon, actor, lapses, contradicted>>

(* Results are reported in the order of the calls.  Unresolved ones are    *)
(* passed over, which no later result of the same message survives.        *)
recordToolResult(i) ==
  LET intent == agent.intents[i]
      first == \A j \in Earlier(i) : agent.intents[j].completed
  IN
  /\ Steps("tools") /\ ~intent.completed
  /\ intent.is \in {"settled", "unresolved", "unfinalized"}
  /\ \A j \in Earlier(i) : agent.intents[j].completed \/ agent.intents[j].is = "unresolved"
  /\ Parallel => \A j \in DOMAIN agent.intents : agent.intents[j].is \notin {"waiting", "started"}
  /\ \/ first /\ intent.is = "unresolved" /\ i = Len(agent.intents)
        /\ OnlyAgent([agent EXCEPT !.phase = "turnEnd"])
     \/ (~first \/ intent.is = "unfinalized")
        /\ agent' \in {Unusable(f) : f \in Broken(agent)}
        /\ UNCHANGED <<transcript, canon, actor, performed, lapses, contradicted>>
     \/ first /\ intent.is = "settled"
        /\ commit(<<toolCompleted(here, agent.message, i, intent.start,
                      IF intent.start = None THEN "not_started" ELSE "completed")>>,
                  [agent EXCEPT !.intents[i].completed = TRUE,
                                !.phase = IF i = Len(agent.intents) THEN "turnEnd" ELSE @],
                  Broken(agent))

-----------------------------------------------------------------------------
(* The end of a turn and of a run *)

(* After a turn with Tool calls the loop goes on, unless a policy stops it. *)
goesOn(a) ==
  IF a.intents # <<>> /\ a.ends = "completed" /\ ~a.aborted /\ a.turn < MaxTurns
  THEN {[a EXCEPT !.phase = "request", !.turn = @ + 1, !.message = None, !.intents = <<>>],
        Ended(a)}
  ELSE {Ended(a)}

recordTurnClosed ==
  LET interrupted == agent.aborted \/ agent.ends = "failed"
      unanswered == \E i \in DOMAIN agent.intents : ~agent.intents[i].completed
      failed == [agent EXCEPT !.ends = "failed"]
  IN
  /\ Steps("turnEnd")
  /\ \/ /\ ~agent.turnOpen \/ Pending(agent) \/ (unanswered /\ interrupted)
        /\ OnlyAgent(Ended([agent EXCEPT !.usable =
                              @ /\ (unanswered => ~agent.turnOpen \/ Pending(agent))]))
     \/ /\ agent.turnOpen /\ ~Pending(agent) /\ unanswered /\ ~interrupted
        /\ agent' \in {Unusable(Ended(failed)), Unusable(Caught(failed))}
        /\ UNCHANGED <<transcript, canon, actor, performed, lapses, contradicted>>
     \/ /\ agent.turnOpen /\ ~Pending(agent) /\ ~unanswered
        /\ commit(<<turnClosed(here, IF interrupted THEN "interrupted" ELSE "completed")>>,
             [agent EXCEPT !.turnOpen = FALSE,
                           !.phase = IF interrupted THEN "stop" ELSE "compact"],
             {Ended(failed), Caught(failed)})

(* A completed turn may be followed by a checkpoint of it; if that fails   *)
(* the run does.                                                           *)
compactTranscript ==
  /\ Steps("compact")
  /\ \/ agent' \in goesOn(agent) /\ UNCHANGED <<transcript, canon, actor, performed, lapses, contradicted>>
     \/ Compacts /\ OnlyAgent(Ended([agent EXCEPT !.ends = "failed"]))
     \/ /\ Compacts
        /\ commit(<<checkpoint(here, agent.rev)>>, [agent EXCEPT !.phase = "compacted"],
                  {Ended([agent EXCEPT !.ends = "failed"])})

stop ==
  /\ agent.phase \in {"stop", "compacted"} /\ Live
  /\ agent' \in IF agent.phase = "stop" THEN {Ended(agent)} ELSE goesOn(agent)
  /\ UNCHANGED <<transcript, canon, actor, performed, lapses, contradicted>>

(* A run that was deferred closes in the transcript before it ends.        *)
recordDeferredRunClosed ==
  /\ Steps("ending")
  /\ IF agent.ends = "deferred" \/ Pending(agent) \/ agent.origin = None
     THEN OnlyAgent([agent EXCEPT !.phase = "emit"])
     ELSE commit(<<deferredRunClosed(here, agent.origin, agent.ends)>>,
                 [agent EXCEPT !.phase = "emit", !.committed = agent.ends],
                 {Caught(agent)})

runClosures(rs) == SelectSeq(rs, LAMBDA r : r.type = "deferred.run.closed")

\* The run ends with a status that a restore, now, would not give it.
Contradicts(run, status) ==
  \E s \in {scanCommittedTranscript(transcript)} :
    \/ ~s.ok \/ (pendingDeferred(s) # None /\ RunOf(pendingDeferred(s)) = run)
    \/ \E r \in ToSet(s.terminals \o runClosures(repairs(s))) : r.at[1] = run /\ r.status # status

(* The event that ends the run's segment; one that fails is tried again as *)
(* an exception, once.                                                     *)
emitEnd ==
  /\ Live /\ agent.phase \in {"emit", "caught"}
  /\ UNCHANGED <<transcript, actor, performed>>
  /\ \/ /\ canon' = [canon EXCEPT ![agent.run] =
                       IF agent.ends = "deferred" THEN Suspended(@, agent.pending)
                       ELSE Completed(@, agent.ends)]
        /\ agent' = [Idle(agent.rev, agent.pending) EXCEPT !.usable = agent.usable]
        /\ contradicted' = IF agent.ends # "deferred" /\ Contradicts(agent.run, agent.ends)
                           THEN contradicted \cup {agent.run} ELSE contradicted
        /\ UNCHANGED lapses
     \/ /\ Lapse("event") /\ UNCHANGED <<canon, contradicted>>
        /\ agent' = IF agent.phase = "emit" THEN Caught(agent)
                    ELSE [Idle(agent.rev, agent.pending) EXCEPT !.usable = agent.usable]

(* An event inside the run cannot be appended: an exception in a listener, *)
(* which leaves the Agent as it is.                                        *)
emitFails ==
  /\ Live /\ Running(agent) /\ Lapse("event")
  /\ agent' \in Thrown(agent)
  /\ UNCHANGED <<transcript, canon, actor, performed, contradicted>>

abortRun ==
  /\ Live /\ Running(agent) /\ "run" \in Aborts /\ ~agent.aborted
  /\ May("abort")
  /\ OnlyAgent([agent EXCEPT !.aborted = TRUE])

(* Mutant: the abandoned turn is not closed. *)
abandonedRecordsOpen(op) ==
  <<deferredAbandoned(At(transcript, op).at, op), deferredRunClosed(At(transcript, op).at, op, "aborted")>>

(* A pending operation is given up: three records in one commit, then the  *)
(* event.                                                                  *)
abandonedRecords(op) ==
  LET at == At(transcript, op).at
  IN <<deferredAbandoned(at, op), turnClosed(at, "interrupted"),
       deferredRunClosed(at, op, "aborted")>>

abandonDeferred ==
  /\ Live /\ agent.phase = "idle" /\ Pending(agent)
  /\ commit(abandonedRecords(agent.pending),
            [Idle(agent.rev, None) EXCEPT !.usable = agent.usable, !.phase = "caught",
               !.run = RunOf(agent.pending), !.ends = "aborted"],
            {agent})

-----------------------------------------------------------------------------
(* Registration after a restart, and the same work for a repeated input    *)
(* whose run has no end yet.                                               *)

(* Mutant: the runs that the repair closes are not reconciled. *)
restoreStored(stage, input) ==
  /\ \E s \in {scanCommittedTranscript(transcript)} :
       actor' = IF ~s.ok THEN [Absent EXCEPT !.stage = "refused"]
                ELSE [stage |-> stage, repairs |-> repairs(s), terminals |-> s.terminals,
                      pending |-> pendingDeferred(s), input |-> input]
  /\ UNCHANGED <<transcript, canon, agent, performed, lapses, contradicted>>

restore(stage, input) ==
  /\ \E s \in {scanCommittedTranscript(transcript)} :
       actor' = IF ~s.ok THEN [Absent EXCEPT !.stage = "refused"]
                ELSE [stage |-> stage, repairs |-> repairs(s),
                      terminals |-> s.terminals \o runClosures(repairs(s)),
                      pending |-> pendingDeferred(s), input |-> input]
  /\ UNCHANGED <<transcript, canon, agent, performed, lapses, contradicted>>

stageActor == actor.stage = "absent" /\ restore("staging", None)

resubmit(r) ==
  /\ Live /\ agent.phase = "idle" /\ ~Pending(agent) /\ canon[r].state \in {"open", "deferred"}
  /\ restore("reconciling", r)

Restoring == actor.stage \in {"staging", "reconciling"}

(* Repairs are appended one by one.                                        *)
appendRepair ==
  /\ Restoring /\ actor.repairs # <<>>
  /\ transcript' = Appended(transcript, <<Head(actor.repairs)>>)
  /\ actor' = [actor EXCEPT !.repairs = Tail(@)]
  /\ UNCHANGED <<canon, agent, performed, lapses, contradicted>>

Refuses == actor' = [Absent EXCEPT !.stage = "refused"] /\ UNCHANGED canon

reconcileTerminal ==
  LET r == Head(actor.terminals) c == canon[r.at[1]] IN
  /\ Restoring /\ actor.repairs = <<>> /\ actor.terminals # <<>>
  /\ IF c.state \notin {"open", "deferred", r.status} THEN Refuses
     ELSE /\ canon' = [canon EXCEPT ![r.at[1]] =
                         IF c.state = r.status THEN c ELSE Completed(c, r.status)]
          /\ actor' = [actor EXCEPT !.terminals = Tail(@)]
  /\ UNCHANGED <<transcript, agent, performed, lapses, contradicted>>

reconcilePending ==
  LET run == RunOf(actor.pending) c == canon[run] IN
  /\ Restoring /\ actor.repairs = <<>> /\ actor.terminals = <<>> /\ actor.pending # None
  /\ IF c.state # "open" /\ ~(c.state = "deferred" /\ c.op = actor.pending) THEN Refuses
     ELSE /\ canon' = [canon EXCEPT ![run] = Suspended(c, actor.pending)]
          /\ actor' = [actor EXCEPT !.stage = IF @ = "staging" THEN "staged" ELSE "reconciled"]
  /\ UNCHANGED <<transcript, agent, performed, lapses, contradicted>>

Reconciled ==
  actor.repairs = <<>> /\ actor.terminals = <<>> /\ (Restoring => actor.pending = None)

(* The registered actor starts from what was restored.                     *)
register ==
  /\ actor.stage \in {"staging", "staged"} /\ Reconciled
  /\ agent' = Idle(Revision(transcript), actor.pending)
  /\ actor' = [Absent EXCEPT !.stage = "ready"]
  /\ UNCHANGED <<transcript, canon, performed, lapses, contradicted>>

(* A repeated input whose run is still open after that has failed.         *)
answerResubmit ==
  /\ actor.stage \in {"reconciling", "reconciled"} /\ Reconciled
  /\ canon' = [canon EXCEPT ![actor.input] = IF @.state = "open" THEN Completed(@, "failed") ELSE @]
  /\ actor' = [Absent EXCEPT !.stage = "ready"]
  /\ UNCHANGED <<transcript, agent, performed, lapses, contradicted>>

(* The process stops anywhere: what is not stored is gone.                 *)
crash ==
  /\ actor.stage \notin {"absent", "refused"} /\ Lapse("crash")
  /\ actor' = Absent /\ agent' = Idle(0, None)
  /\ UNCHANGED <<transcript, canon, performed, contradicted>>

(* The host purges what a checkpoint replaced.                             *)
purgeBeforeCheckpoint ==
  /\ Live /\ Compacts
  /\ \E cp \in transcript.from..Revision(transcript) :
       /\ Purgeable(transcript, cp, Len(transcript.records), {})
       /\ transcript' = purged(transcript, cp)
  /\ UNCHANGED <<canon, actor, agent, performed, lapses, contradicted>>

ToolStep == \E i \in DOMAIN agent.intents :
  refuseTool(i) \/ recordToolStarted(i) \/ executeTool(i) \/ recordToolResult(i)

Next ==
  \/ stageActor \/ appendRepair \/ reconcileTerminal \/ reconcilePending \/ register
  \/ answerResubmit \/ crash \/ purgeBeforeCheckpoint
  \/ \E r \in Runs : submit(r) \/ resubmit(r)
  \/ resumeDeferred \/ abortQueuedResume \/ recordUser \/ recordDeferred \/ providerFails
  \/ \E n \in Calls : recordAssistant(n)
  \/ ToolStep \/ recordTurnClosed \/ compactTranscript \/ stop
  \/ recordDeferredRunClosed \/ emitEnd \/ emitFails \/ abortRun \/ abandonDeferred

Spec == Init /\ [][Next]_vars

-----------------------------------------------------------------------------
(* Properties *)

(* What is stored can always be restored and does not contradict the       *)
(* canonical events.                                                       *)
RestoreAccepted == actor.stage # "refused"

Closing == {"turn.closed", "context.checkpoint", "deferred.run.closed"}

(* A deferred run was closed in the transcript before its turn was, or     *)
(* within a turn of another run; an abandonment closes both.               *)
ClosedOutOfTurn ==
  \E i \in DOMAIN transcript.records \ {1} :
    LET closed == transcript.records[i] previous == transcript.records[i - 1].type IN
    /\ closed.type = "deferred.run.closed" /\ previous # "deferred.abandoned"
    /\ \/ previous \notin Closing
       \/ \A r \in Stored(transcript) : r.type = "turn.closed" => r.at # closed.at

(* An exception ended a run within a turn, and the Agent, whose transcript *)
(* it still knows, started another run.                                    *)
StartedWithinTurn ==
  \E i \in DOMAIN transcript.records \ {1} :
    transcript.records[i].type = "user" /\ transcript.records[i - 1].type \notin Closing

(* Wherever the process stops, whichever writes fail and whatever a player *)
(* aborts, a restore is refused for three reasons only: a run had ended    *)
(* otherwise than its transcript had it, a deferred run was closed out of  *)
(* turn, or a run was started within another's turn.                       *)
RefusalsExplained == ~RestoreAccepted => contradicted # {} \/ ClosedOutOfTurn \/ StartedWithinTurn

(* No Tool takes effect before its start is on record, and no call that    *)
(* took effect is ever answered as not started.                            *)
ToolOutcomesTruthful ==
  /\ \A e \in performed : e[1] >= transcript.from =>
       \E r \in Stored(transcript) :
         r.type = "tool.started" /\ <<r.message, r.index>> = e
  /\ \A r \in Stored(transcript) :
       r.type = "tool.completed" /\ r.outcome = "not_started" =>
         <<r.message, r.index>> \notin performed

(* The canonical events end every run at most once, but for a run that had *)
(* ended with its operation pending and whose operation was then abandoned.*)
EndedOnce == \A r \in Runs : canon[r].ended <= IF r \in contradicted THEN 2 ELSE 1

(* An actor that registers has canonical events that say of every deferred *)
(* run what its transcript says.                                           *)
Agree == \E s \in {scanCommittedTranscript(transcript)} :
  /\ \A k \in DOMAIN s.terminals : canon[s.terminals[k].at[1]].state = s.terminals[k].status
  /\ \A r \in Runs : canon[r].state = "deferred" =>
       pendingDeferred(s) = canon[r].op /\ RunOf(canon[r].op) = r
  /\ pendingDeferred(s) # None => canon[RunOf(pendingDeferred(s))].state = "deferred"
RegistersInAgreement == [][actor.stage \in {"staging", "staged"} /\ actor'.stage = "ready" => Agree']_vars
=============================================================================
