---------------------------- MODULE ActivityStream ----------------------------
(***************************************************************************)
(* The page activity of one monitored tab, from the extension's background *)
(* (background/stateHubBridge.ts) through the stream the daemon keeps      *)
(* (mcp/browserStateHub.ts) to the digests that the runs of a conversation *)
(* read with a cursor (shared/browserActivity.ts,                          *)
(* sidepanel/services/activityCursor.ts).                                  *)
(*                                                                         *)
(* The monitored tab stays the tab that the background announces.  What is *)
(* sent on an open connection arrives.                                     *)
(***************************************************************************)
EXTENDS Naturals, Sequences, FiniteSets, SequencesExt

CONSTANTS
  ActivityKinds, \* BROWSER_ACTIVITY_KINDS
  KindLimit,    \* BROWSER_ACTIVITY_EVENT_LIMITS
  MaxQueue,     \* MAX_QUEUED_STATE_HUB_MESSAGES
  MaxEvents,    \* bound: observations of the page
  MaxStarts,    \* bound: calls of browser_activity_start
  MaxDaemonRestarts   \* bound: restarts of the daemon

ASSUME ActivityAssumption ==
  /\ ActivityKinds # {} /\ KindLimit \in Nat \ {0} /\ MaxQueue \in Nat \ {0}
  /\ MaxEvents \in Nat /\ MaxStarts \in Nat /\ MaxDaemonRestarts \in Nat

VARIABLES
  monitoring,   \* the background observes the tab
  emitted,      \* observations so far
  online,       \* the connection of the background is authenticated
  queue,        \* what waits for it
  overflow,     \* observations dropped from the queue, with their kinds
  stream,       \* the stream in the daemon
  fileStream,   \* the stream in the state file
  cursor,       \* activityCursor of the conversation
  digest,       \* what the run in progress has read
  told,         \* history: observations a finished run was told of, or told it missed
  silent,       \* history: observations it was told nothing about
  starts, daemonRestarts

activityVars == <<monitoring, emitted, online, queue, overflow, stream, fileStream, cursor,
                  digest, told, silent, starts, daemonRestarts>>

\* A message, and an event of the stream: the observations it stands for.
StreamMessage(type, kind, of) == [type |-> type, kind |-> kind, of |-> of]
SomeKind == CHOOSE k \in ActivityKinds : TRUE
Started == StreamMessage("started", SomeKind, {})
Stopped == StreamMessage("stopped", SomeKind, {})

NewStream(id) == [id |-> id, active |-> TRUE, sequence |-> 0, events |-> <<>>, dropped |-> 0]
NoStream == [NewStream(0) EXCEPT !.active = FALSE]
NoCursor == [id |-> 0, sequence |-> 0]
NoDigest == [read |-> FALSE, next |-> NoCursor, of |-> {}, due |-> {}, status |-> "none"]

ActivityInit ==
  /\ monitoring = FALSE /\ emitted = 0
  /\ online = TRUE /\ queue = <<>> /\ overflow = {}
  /\ stream = NoStream /\ fileStream = NoStream
  /\ cursor = NoCursor /\ digest = NoDigest
  /\ told = {} /\ silent = {}
  /\ starts = 0 /\ daemonRestarts = 0

-----------------------------------------------------------------------------
(* The stream in the daemon *)

\* An event is stored with the next sequence number; beyond the limit of its
\* kind the oldest of that kind is dropped.
Store(s, message) ==
  LET event   == [sequence |-> s.sequence + 1, kind |-> message.kind, of |-> message.of,
                  loss |-> message.type = "loss"]
      events  == Append(s.events, event)
      same    == {i \in DOMAIN events : events[i].kind = message.kind}
      oldest  == CHOOSE i \in same : \A j \in same : i <= j
      crowded == Cardinality(same) > KindLimit
  IN  [s EXCEPT !.sequence = @ + 1,
                !.events = IF crowded THEN RemoveAt(events, oldest) ELSE events,
                !.dropped = IF crowded THEN @ + 1 ELSE @]

\* BROWSER_ACTIVITY_EVENT: a start opens a new stream, a stop ends it, and a
\* stream that is not active takes nothing but the stop.
Deliver(s, message) ==
  CASE message.type = "started" -> Store(NewStream(s.id + 1), message)
    [] message.type = "stopped" -> IF s.id = 0 THEN s
                                   ELSE Store([s EXCEPT !.active = FALSE], message)
    [] OTHER -> IF s.active THEN Store(s, message) ELSE s

\* The messages in their order.
DeliverAll(messages) ==
  LET upTo[n \in 0 .. Len(messages)] ==
        IF n = 0 THEN stream ELSE Deliver(upTo[n - 1], messages[n])
  IN  upTo[Len(messages)]

-----------------------------------------------------------------------------
(* The background *)

\* Mutant of Overfull: off by one.
OverfullByOne(all) == Len(all) > MaxQueue + 1
Overfull(all) == Len(all) > MaxQueue

\* Beyond the limit the oldest observation goes, or else the oldest message.
Enqueue(message) ==
  LET all   == Append(queue, message)
      plain == {i \in DOMAIN all : all[i].type \in {"event", "loss"}}
      out   == IF plain = {} THEN 1 ELSE CHOOSE i \in plain : \A j \in plain : i <= j
  IN  IF ~Overfull(all)
      THEN queue' = all /\ UNCHANGED overflow
      ELSE /\ queue' = RemoveAt(all, out)
           /\ overflow' = overflow \cup {[kind |-> all[out].kind, of |-> all[out].of]}

Send(message) ==
  IF online
  THEN stream' = Deliver(stream, message) /\ UNCHANGED <<queue, overflow>>
  ELSE Enqueue(message) /\ UNCHANGED stream

\* One notice for each kind of which observations were dropped.
LossNotices ==
  LET lost(k) == UNION {o.of : o \in {p \in overflow : p.kind = k}}
      kinds   == SetToSeq({o.kind : o \in overflow})
  IN  [i \in DOMAIN kinds |-> StreamMessage("loss", kinds[i], lost(kinds[i]))]

\* flushQueue: the notices go before the first stop, or last.
Flushed ==
  LET stops == {i \in DOMAIN queue : queue[i].type = "stopped"}
      first == IF stops = {} THEN Len(queue) + 1 ELSE CHOOSE i \in stops : \A j \in stops : i <= j
  IN  SubSeq(queue, 1, first - 1) \o LossNotices \o SubSeq(queue, first, Len(queue))

Observe(kind) ==
  /\ monitoring
  /\ emitted < MaxEvents
  /\ emitted' = emitted + 1
  /\ Send(StreamMessage("event", kind, {emitted + 1}))
  /\ UNCHANGED <<monitoring, online, fileStream, cursor, digest, told, silent, starts,
                 daemonRestarts>>

\* The tab is closed, or browser_activity_stop.
StopMonitoring ==
  /\ monitoring
  /\ monitoring' = FALSE
  /\ Send(Stopped)
  /\ UNCHANGED <<emitted, online, fileStream, cursor, digest, told, silent, starts,
                 daemonRestarts>>

Disconnected ==
  /\ online
  /\ online' = FALSE
  /\ UNCHANGED <<monitoring, emitted, queue, overflow, stream, fileStream, cursor, digest, told,
                 silent, starts, daemonRestarts>>

Reconnected ==
  /\ ~online
  /\ online' = TRUE
  /\ stream' = DeliverAll(Flushed)
  /\ queue' = <<>> /\ overflow' = {}
  /\ UNCHANGED <<monitoring, emitted, fileStream, cursor, digest, told, silent, starts,
                 daemonRestarts>>

-----------------------------------------------------------------------------
(* The daemon *)

SaveStream ==
  /\ daemonRestarts < MaxDaemonRestarts
  /\ fileStream # stream
  /\ fileStream' = stream
  /\ UNCHANGED <<monitoring, emitted, online, queue, overflow, stream, cursor, digest, told,
                 silent, starts, daemonRestarts>>

\* restoreActivityStreams: the stream keeps its identity and is not active.
RestartDaemon ==
  /\ daemonRestarts < MaxDaemonRestarts
  /\ daemonRestarts' = daemonRestarts + 1
  /\ stream' = [fileStream EXCEPT !.active = FALSE]
  /\ online' = FALSE
  /\ digest' = NoDigest
  /\ UNCHANGED <<monitoring, emitted, queue, overflow, fileStream, cursor, told, silent, starts>>

-----------------------------------------------------------------------------
(* A conversation and its runs *)

\* browser_activity_start answers once the new stream is there; its cursor is
\* the conversation's at once.
StartActivity ==
  /\ online /\ ~digest.read
  /\ starts < MaxStarts
  /\ starts' = starts + 1
  /\ monitoring' = TRUE
  /\ stream' = Deliver(stream, Started)
  /\ cursor' = [id |-> stream'.id, sequence |-> stream'.sequence]
  /\ told' = 1 .. emitted
  /\ UNCHANGED <<emitted, online, queue, overflow, fileStream, digest, silent, daemonRestarts>>

\* Observations that have not reached the daemon yet.
InFlight == UNION ({queue[i].of : i \in DOMAIN queue} \cup {o.of : o \in overflow})

\* cursorStatus for the positions that are read, and the losses of the transport
\* that the digest counts.
CursorStatus(read, after) ==
  CASE cursor.id # stream.id \/ cursor.sequence > stream.sequence -> "stream_restarted"
    [] stream.sequence - after > Cardinality(read) -> "events_dropped"
    [] \E i \in read : stream.events[i].loss -> "transport_dropped"
    [] OTHER -> "ok"

\* browser_debug_activity with the cursor: buildBrowserActivityDigest. A notice of a
\* loss tells nothing of what was observed.
ReadActivity ==
  /\ cursor.id # 0
  /\ ~digest.read
  /\ LET restarted == cursor.id # stream.id \/ cursor.sequence > stream.sequence
         after     == IF restarted THEN 0 ELSE cursor.sequence
         read      == {i \in DOMAIN stream.events : stream.events[i].sequence > after}
     IN  digest' = [read |-> TRUE,
                    next |-> [id |-> stream.id, sequence |-> stream.sequence],
                    of |-> UNION {stream.events[i].of : i \in {j \in read : ~stream.events[j].loss}},
                    due |-> (1 .. emitted) \ InFlight,
                    status |-> CursorStatus(read, after)]
  /\ UNCHANGED <<monitoring, emitted, online, queue, overflow, stream, fileStream, cursor, told,
                 silent, starts, daemonRestarts>>

\* Mutant of ShouldCommit: a run that failed has read its digest as well.
AlwaysCommit(status) == TRUE

\* shouldCommitDeferredActivityCursor
ShouldCommit(status) == status = "completed"

\* The run ends; its cursor is the conversation's only when it has completed.
EndRun(status) ==
  /\ digest.read
  /\ digest' = NoDigest
  /\ cursor' = IF ShouldCommit(status) THEN digest.next ELSE cursor
  /\ told' = IF status # "completed" THEN told
             ELSE IF digest.status = "ok" THEN told \cup digest.of ELSE told \cup digest.due
  /\ silent' = IF status = "completed" /\ digest.status = "ok"
               THEN digest.due \ (told \cup digest.of) ELSE silent
  /\ UNCHANGED <<monitoring, emitted, online, queue, overflow, stream, fileStream, starts,
                 daemonRestarts>>

ActivityNext ==
  \/ StopMonitoring \/ Disconnected \/ Reconnected
  \/ SaveStream \/ RestartDaemon
  \/ StartActivity \/ ReadActivity
  \/ \E kind \in ActivityKinds : Observe(kind)
  \/ \E status \in {"completed", "failed"} : EndRun(status)

ActivitySpec == ActivityInit /\ [][ActivityNext]_activityVars
-----------------------------------------------------------------------------
(* Properties *)

ActivityTypeOK ==
  /\ monitoring \in BOOLEAN /\ online \in BOOLEAN
  /\ Len(queue) <= MaxQueue
  /\ told \subseteq 1 .. emitted /\ silent \subseteq 1 .. emitted
  /\ \A i \in DOMAIN stream.events : stream.events[i].sequence \in 1 .. stream.sequence

\* A run that is told that its window is complete has been told of every
\* observation that had left the background, in this digest or in one of an
\* earlier completed run: through queues that overflow, failed runs that read
\* and did not report, streams at their limits and streams that start anew.
\* This is so until the daemon restarts.
NoSilentGap == daemonRestarts = 0 => silent = {}

\* The same across restarts of the daemon, which keep the identity of a stream
\* but not what the stream has received since it was last saved.
NoSilentGapAcrossRestarts == silent = {}
=============================================================================
