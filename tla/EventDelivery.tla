---------------------------- MODULE EventDelivery ----------------------------
(* The way of an actor's canonical events to one client: the subscription  *)
(* and replay of GameRuntime (packages/runtime/src/runtime.ts), the event  *)
(* stream of packages/server/src/runtime-server.ts with its bounded queue, *)
(* a connection that may break, and the reconnecting reader of             *)
(* packages/client/src/index.ts.  An event is its revision.                *)
EXTENDS Integers, FiniteSets, SequencesExt

CONSTANTS
  LastRevision,   \* bound on the events of the actor
  Hidden,         \* revisions the client's audience may not see
  Oversized,      \* revisions whose frame exceeds maxSseEventBytes
  PageLimit,      \* maxEventPageSize
  Backlog,        \* maxSseBacklog
  MaxAttempts,    \* eventRetry.maxAttempts
  PurgeAnywhere   \* whether a purge may fall between replayEvents' two reads

VARIABLES
  latest, purged,   \* the events committed; those purged from the store
  handler,          \* the server's handler of the connection
  wire,             \* frames on their way to the client, in order
  reader,           \* the client: [state, attempt, lastEventId]
  received          \* the events it has yielded
deliveryVars == <<latest, purged, handler, wire, reader, received>>

ASSUME DeliveryAssumption ==
  /\ LastRevision \in Nat
  /\ {PageLimit, Backlog, MaxAttempts} \subseteq Nat \ {0}
  /\ PurgeAnywhere \in BOOLEAN

Gone == [at |-> "gone", cursor |-> 0, queue |-> <<>>, admits |-> FALSE, next |-> 0, item |-> 0]
Frame(type, revision) == [type |-> type, revision |-> revision]

(* The members of a set of revisions, in order.                            *)
InOrder(S) ==
  {s \in [1 .. Cardinality(S) -> S] :
     /\ \A i, j \in DOMAIN s : i < j => s[i] < s[j]
     /\ \A r \in S : \E i \in DOMAIN s : s[i] = r}

DeliveryInit ==
  /\ latest = 0 /\ purged = 0
  /\ handler = Gone /\ wire = <<>>
  /\ reader = [state |-> "connecting", attempt |-> 1, lastEventId |-> 0]
  /\ received = <<>>

appendCanonicalEvent ==
  /\ latest < LastRevision
  /\ latest' = latest + 1
  /\ UNCHANGED <<purged, handler, wire, reader, received>>

(* The host purges the oldest events. *)
purge ==
  /\ PurgeAnywhere \/ handler.at # "reading"
  /\ \E upTo \in purged + 1 .. latest : purged' = upTo
  /\ UNCHANGED <<latest, handler, wire, reader, received>>

(* The stream's route: it subscribes before it replays. *)
connect ==
  /\ reader.state = "connecting" /\ handler = Gone
  /\ handler' = [at |-> "checking", cursor |-> reader.lastEventId, queue |-> <<>>,
                 admits |-> TRUE, next |-> latest + 1, item |-> 0]
  /\ reader' = [reader EXCEPT !.state = "reading"]
  /\ UNCHANGED <<latest, purged, wire, received>>

(* Mutant: a queue that is full forgets the event and stays open. *)
pushLossy ==
  LET event == handler.next
      shift == [handler EXCEPT !.next = @ + 1]
  IN  /\ handler # Gone /\ handler.admits /\ handler.next <= latest
      /\ handler' =
           IF event \in Oversized \ Hidden THEN [shift EXCEPT !.admits = FALSE]
           ELSE IF handler.at = "waiting" THEN [shift EXCEPT !.at = "taken", !.item = event]
           ELSE IF Len(handler.queue) >= Backlog THEN shift
           ELSE [shift EXCEPT !.queue = Append(@, event)]
      /\ UNCHANGED <<latest, purged, wire, reader, received>>

(* The subscription's listener pushes the next event into the bounded     *)
(* queue: handed to a waiting handler, queued, or refused when it is full; *)
(* a frame too large for the stream, and a full queue, close the queue.    *)
push ==
  LET event == handler.next
      shift == [handler EXCEPT !.next = @ + 1]
  IN  /\ handler # Gone /\ handler.admits /\ handler.next <= latest
      /\ handler' =
           IF event \in Oversized \ Hidden THEN [shift EXCEPT !.admits = FALSE]
           ELSE IF handler.at = "waiting" THEN [shift EXCEPT !.at = "taken", !.item = event]
           ELSE IF Len(handler.queue) >= Backlog THEN [shift EXCEPT !.admits = FALSE]
           ELSE [shift EXCEPT !.queue = Append(@, event)]
      /\ UNCHANGED <<latest, purged, wire, reader, received>>

(* replayEvents up to its first read: a cursor that the retained events no *)
(* longer reach is answered with a gap, and the stream ends.               *)
checkBounds ==
  /\ handler.at = "checking"
  /\ IF handler.cursor < purged
     THEN wire' = Append(wire, Frame("gap", latest)) /\ handler' = Gone
     ELSE handler' = [handler EXCEPT !.at = "reading"] /\ UNCHANGED wire
  /\ UNCHANGED <<latest, purged, reader, received>>

(* The page is read and written, with its cursor frame behind it; a frame *)
(* that does not fit ends the stream.                                     *)
readPage ==
  LET from == IF handler.cursor < purged THEN purged ELSE handler.cursor
      to == IF from + PageLimit < latest THEN from + PageLimit ELSE latest
      last == IF to > from THEN to ELSE handler.cursor
  IN  /\ handler.at = "reading"
      /\ \E shown \in InOrder({r \in from + 1 .. to : r \notin Hidden}) :
           LET large == {i \in DOMAIN shown : shown[i] \in Oversized}
               frames == [i \in DOMAIN shown |-> Frame("event", shown[i])]
           IN  IF large # {}
               THEN /\ \E first \in large : /\ \A i \in large : first <= i
                                            /\ wire' = wire \o SubSeq(frames, 1, first - 1)
                    /\ handler' = Gone
               ELSE /\ wire' = wire \o frames \o <<Frame("cursor", last)>>
                    /\ handler' = [handler EXCEPT !.cursor = last,
                                                  !.at = IF to < latest THEN "checking" ELSE "live"]
      /\ UNCHANGED <<latest, purged, reader, received>>

(* The handler's loop after the replay. *)
Write(event) ==
  IF event > handler.cursor
  THEN wire' = Append(wire, Frame(IF event \in Hidden THEN "cursor" ELSE "event", event))
  ELSE UNCHANGED wire

nextQueued ==
  /\ handler.at = "live"
  /\ IF handler.queue # <<>>
     THEN LET event == Head(handler.queue)
          IN  /\ Write(event)
              /\ handler' = [handler EXCEPT !.queue = Tail(@),
                                !.cursor = IF event > @ THEN event ELSE @]
     ELSE /\ handler' = IF handler.admits
                        THEN [handler EXCEPT !.at = "waiting"] ELSE Gone
          /\ UNCHANGED wire
  /\ UNCHANGED <<latest, purged, reader, received>>

writeTaken ==
  /\ handler.at = "taken"
  /\ Write(handler.item)
  /\ handler' = [handler EXCEPT !.at = "live", !.item = 0,
                    !.cursor = IF handler.item > @ THEN handler.item ELSE @]
  /\ UNCHANGED <<latest, purged, reader, received>>

(* A waiting handler is woken by the queue's closing. *)
queueClosed ==
  /\ handler.at = "waiting" /\ ~handler.admits
  /\ handler' = Gone
  /\ UNCHANGED <<latest, purged, wire, reader, received>>

(* The connection breaks: frames not yet read are lost from some point on. *)
disconnect ==
  /\ handler # Gone
  /\ handler' = Gone
  /\ \E kept \in 0 .. Len(wire) : wire' = SubSeq(wire, 1, kept)
  /\ UNCHANGED <<latest, purged, reader, received>>

-----------------------------------------------------------------------------
(* streamEvents: the next frame of the connection. *)

readFrame ==
  /\ reader.state = "reading" /\ wire # <<>>
  /\ wire' = Tail(wire)
  /\ LET frame == Head(wire)
     IN  /\ reader' = IF frame.type = "gap" THEN [reader EXCEPT !.state = "gap"]
                      ELSE [reader EXCEPT !.lastEventId = frame.revision]
         /\ received' = IF frame.type = "event" THEN Append(received, frame.revision) ELSE received
  /\ UNCHANGED <<latest, purged, handler>>

(* The connection is over; the attempts count over the whole stream. *)
retry ==
  /\ reader.state = "reading" /\ wire = <<>> /\ handler = Gone
  /\ reader' = IF reader.attempt < MaxAttempts
               THEN [reader EXCEPT !.state = "connecting", !.attempt = @ + 1]
               ELSE [reader EXCEPT !.state = "disconnected"]
  /\ UNCHANGED <<latest, purged, handler, wire, received>>

(* The connection cannot be made, or the server is at maxSseConnections. *)
refused ==
  /\ reader.state = "connecting"
  /\ reader' = IF reader.attempt < MaxAttempts THEN [reader EXCEPT !.attempt = @ + 1]
               ELSE [reader EXCEPT !.state = "disconnected"]
  /\ UNCHANGED <<latest, purged, handler, wire, received>>

Deliver ==
  \/ connect \/ push \/ checkBounds \/ readPage \/ nextQueued \/ writeTaken
  \/ queueClosed \/ readFrame \/ retry

DeliveryNext == appendCanonicalEvent \/ purge \/ Deliver \/ disconnect \/ refused

DeliverySpec == DeliveryInit /\ [][DeliveryNext]_deliveryVars

(* The server's handler, its queue and the client go on while they can. *)
DeliveryFairness == WF_deliveryVars(Deliver)

-----------------------------------------------------------------------------
(* The client yields the events it may see in order, each once, and skips  *)
(* none: whatever it has moved past was yielded or is hidden from it; what *)
(* a purge took from it is announced as a gap.                             *)
NothingSkipped ==
  /\ \A i, j \in DOMAIN received : i < j => received[i] < received[j]
  /\ ToSet(received) = {r \in 1 .. reader.lastEventId : r \notin Hidden}

(* A client that stays connected catches up. *)
CaughtUpNow == reader.state \in {"gap", "disconnected"} \/ reader.lastEventId = latest
CaughtUp == []<>CaughtUpNow
=============================================================================
