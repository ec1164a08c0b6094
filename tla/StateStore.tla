------------------------------ MODULE StateStore ------------------------------
(***************************************************************************)
(* The daemon's state store (daemon/store/stateStore.ts): the browser      *)
(* state and the audit events in memory, the file they are saved in, and   *)
(* the flushes that are serialised on operationTail.                       *)
(*                                                                         *)
(* A saved image is replaced by one rename.  A crash is the death of the   *)
(* daemon's process; that the file system keeps what was renamed is        *)
(* assumed.  load() completes before the store is used.                    *)
(***************************************************************************)
EXTENDS Naturals, Sequences, FiniteSets

CONSTANTS
  Events,       \* audit events
  BestEffort,   \* those of tool results, recorded without a flush
  MaxEvents,    \* MAX_AUDIT_EVENTS
  MaxBrowser,   \* bound: changes of the browser state
  MaxFlushes,   \* bound: calls of flush()
  MaxFailures,  \* bound: failures of persist()
  MaxCrashes    \* bound: restarts of the daemon

ASSUME StoreAssumption ==
  /\ BestEffort \subseteq Events
  /\ MaxEvents \in Nat \ {0}
  /\ MaxBrowser \in Nat /\ MaxFlushes \in Nat /\ MaxFailures \in Nat /\ MaxCrashes \in Nat

Flushes == 1 .. MaxFlushes

VARIABLES
  memory,    \* browserState and auditEvents
  version,   \* changeVersion
  dirty,
  timer,     \* flushTimer is set
  issued,    \* calls of flush() so far
  stage,     \* where each flush is
  seen,      \* the changeVersion it saves
  image,     \* what it writes
  disk,      \* the content of state.json
  recorder,  \* where the recordAuditEvent call of each event is
  flushOf,   \* the flush it awaits
  closed,    \* the daemon was told to stop
  dropped,   \* history: events beyond MAX_AUDIT_EVENTS
  stalled,   \* history: a flush has failed since the last change
  failures, crashes

flushVars == <<issued, stage, seen, image>>
vars == <<memory, version, dirty, timer, flushVars, disk, recorder, flushOf, closed,
          dropped, stalled, failures, crashes>>

Contents == [browser : Nat, events : Seq(Events)]
Empty == [browser |-> 0, events |-> <<>>]
Holds(content, e) == \E i \in DOMAIN content.events : content.events[i] = e

TypeOK ==
  /\ memory \in Contents /\ Len(memory.events) <= MaxEvents
  /\ disk \in Contents /\ Len(disk.events) <= MaxEvents
  /\ version \in Nat
  /\ dirty \in BOOLEAN /\ timer \in BOOLEAN /\ closed \in BOOLEAN /\ stalled \in BOOLEAN
  /\ issued \in 0 .. MaxFlushes
  /\ stage \in [Flushes -> {"none", "waiting", "writing", "renamed", "saved", "failed"}]
  /\ \A n \in Flushes : stage[n] = "none" <=> n > issued
  /\ seen \in [Flushes -> Nat]
  /\ image \in [Flushes -> Contents] /\ \A n \in Flushes : Len(image[n].events) <= MaxEvents
  /\ recorder \in [Events -> {"idle", "appended", "flushing", "ended"}]
  /\ flushOf \in [Events -> 0 .. MaxFlushes]
  /\ dropped \subseteq Events
  /\ failures \in Nat /\ crashes \in Nat

Init ==
  /\ memory = Empty /\ disk = Empty
  /\ version = 0 /\ dirty = FALSE /\ timer = FALSE
  /\ issued = 0
  /\ stage = [n \in Flushes |-> "none"]
  /\ seen = [n \in Flushes |-> 0]
  /\ image = [n \in Flushes |-> Empty]
  /\ recorder = [e \in Events |-> "idle"]
  /\ flushOf = [e \in Events |-> 0]
  /\ closed = FALSE
  /\ dropped = {} /\ stalled = FALSE
  /\ failures = 0 /\ crashes = 0

-----------------------------------------------------------------------------
(* Changes *)

\* Mutant of Change: a store that is dirty already is taken to be scheduled.
ChangeWhenClean ==
  /\ version' = version + 1
  /\ dirty' = TRUE
  /\ timer' = (timer \/ ~dirty)
  /\ stalled' = FALSE

\* A change marks the store dirty and sets the timer if it is not set.
Change ==
  /\ version' = version + 1
  /\ dirty' = TRUE
  /\ timer' = TRUE
  /\ stalled' = FALSE

ScheduleBrowserState ==
  /\ memory.browser < MaxBrowser
  /\ memory' = [memory EXCEPT !.browser = @ + 1]
  /\ Change
  /\ UNCHANGED <<flushVars, disk, recorder, flushOf, closed, dropped, failures, crashes>>

\* slice(-MAX_AUDIT_EVENTS)
Latest(events) == IF Len(events) > MaxEvents THEN Tail(events) ELSE events

AppendAudit(e) ==
  /\ recorder[e] = "idle"
  /\ LET events == Append(memory.events, e)
     IN  /\ memory' = [memory EXCEPT !.events = Latest(events)]
         /\ dropped' = IF Len(events) > MaxEvents THEN dropped \cup {Head(events)} ELSE dropped
  /\ recorder' = [recorder EXCEPT ![e] = IF e \in BestEffort THEN "ended" ELSE "appended"]
  /\ Change
  /\ UNCHANGED <<flushVars, disk, flushOf, closed, failures, crashes>>

-----------------------------------------------------------------------------
(* flush() *)

\* flush() clears the timer and chains one more operation on operationTail.
Issue ==
  /\ issued < MaxFlushes
  /\ timer' = FALSE
  /\ issued' = issued + 1
  /\ stage' = [stage EXCEPT ![issued + 1] = "waiting"]
  /\ UNCHANGED <<memory, version, dirty, seen, image, disk, dropped, stalled, failures, crashes>>

\* recordAuditEvent awaits a flush of its own.
RequestFlush(e) ==
  /\ recorder[e] = "appended"
  /\ Issue
  /\ recorder' = [recorder EXCEPT ![e] = "flushing"]
  /\ flushOf' = [flushOf EXCEPT ![e] = issued + 1]
  /\ UNCHANGED closed

TimerFires ==
  /\ timer
  /\ Issue
  /\ UNCHANGED <<recorder, flushOf, closed>>

\* The flush of the daemon's close().
Close ==
  /\ ~closed
  /\ Issue
  /\ closed' = TRUE
  /\ UNCHANGED <<recorder, flushOf>>

\* Mutant of MyTurn: the flushes are not serialised.
AnyTurn(n) == TRUE

\* operationTail has settled.
MyTurn(n) == \A m \in 1 .. n - 1 : stage[m] \in {"saved", "failed"}

\* A flush that finds nothing to save.
SkipFlush(n) ==
  /\ stage[n] = "waiting"
  /\ MyTurn(n)
  /\ ~dirty
  /\ stage' = [stage EXCEPT ![n] = "saved"]
  /\ UNCHANGED <<memory, version, dirty, timer, issued, seen, image, disk, recorder, flushOf,
                 closed, dropped, stalled, failures, crashes>>

\* persist() serialises what the memory holds now.
StartPersist(n) ==
  /\ stage[n] = "waiting"
  /\ MyTurn(n)
  /\ dirty
  /\ stage' = [stage EXCEPT ![n] = "writing"]
  /\ seen' = [seen EXCEPT ![n] = version]
  /\ image' = [image EXCEPT ![n] = memory]
  /\ UNCHANGED <<memory, version, dirty, timer, issued, disk, recorder, flushOf, closed,
                 dropped, stalled, failures, crashes>>

\* The temporary file is complete and takes the name of the state file.
Rename(n) ==
  /\ stage[n] = "writing"
  /\ disk' = image[n]
  /\ stage' = [stage EXCEPT ![n] = "renamed"]
  /\ UNCHANGED <<memory, version, dirty, timer, issued, seen, image, recorder, flushOf,
                 closed, dropped, stalled, failures, crashes>>

\* Mutant of Unchanged: a change during the write is forgotten.
AnyVersion(n) == TRUE

\* Nothing has changed since the image was taken.
Unchanged(n) == seen[n] = version

Saved(n) ==
  /\ stage[n] = "renamed"
  /\ stage' = [stage EXCEPT ![n] = "saved"]
  /\ dirty' = ~Unchanged(n)
  /\ timer' = (timer \/ ~Unchanged(n))
  /\ image' = [image EXCEPT ![n] = Empty]
  /\ seen' = [seen EXCEPT ![n] = 0]
  /\ UNCHANGED <<memory, version, issued, disk, recorder, flushOf, closed, dropped,
                 stalled, failures, crashes>>

\* Too many bytes, or an error of the file system before or after the rename:
\* the store stays dirty, and nobody sets the timer.
PersistFails(n) ==
  /\ stage[n] \in {"writing", "renamed"}
  /\ failures < MaxFailures
  /\ failures' = failures + 1
  /\ stage' = [stage EXCEPT ![n] = "failed"]
  /\ image' = [image EXCEPT ![n] = Empty]
  /\ seen' = [seen EXCEPT ![n] = 0]
  /\ stalled' = TRUE
  /\ UNCHANGED <<memory, version, dirty, timer, issued, disk, recorder, flushOf, closed,
                 dropped, crashes>>

-----------------------------------------------------------------------------
\* The process dies; the next one loads the file.
Restart ==
  /\ crashes < MaxCrashes
  /\ crashes' = crashes + 1
  /\ memory' = disk
  /\ version' = 0 /\ dirty' = FALSE /\ timer' = FALSE /\ closed' = FALSE /\ stalled' = FALSE
  /\ stage' = [n \in Flushes |->
                 IF stage[n] \in {"waiting", "writing", "renamed"} THEN "failed" ELSE stage[n]]
  /\ image' = [n \in Flushes |-> Empty]
  /\ seen' = [n \in Flushes |-> 0]
  /\ recorder' = [e \in Events |-> IF recorder[e] = "appended" THEN "ended" ELSE recorder[e]]
  /\ UNCHANGED <<issued, disk, flushOf, dropped, failures>>

Next ==
  \/ ScheduleBrowserState \/ TimerFires \/ Close \/ Restart
  \/ \E e \in Events : AppendAudit(e) \/ RequestFlush(e)
  \/ \E n \in Flushes : \/ SkipFlush(n) \/ StartPersist(n) \/ Rename(n) \/ Saved(n)
                        \/ PersistFails(n)

\* Timers fire, promise continuations run, and file operations return.
Fairness ==
  /\ WF_vars(TimerFires)
  /\ \A e \in Events : WF_vars(RequestFlush(e))
  /\ \A n \in Flushes : WF_vars(SkipFlush(n) \/ StartPersist(n) \/ Rename(n)
                                  \/ Saved(n) \/ PersistFails(n))

Spec == Init /\ [][Next]_vars
FairSpec == Spec /\ Fairness
-----------------------------------------------------------------------------
(* Properties *)

Running(n) == stage[n] \in {"writing", "renamed"}
Pending(n) == stage[n] = "waiting" \/ Running(n)

\* Every event of one content is in the other, or was pushed out.
Carries(newer, older) ==
  /\ older.browser <= newer.browser
  /\ \A e \in Events : Holds(older, e) => Holds(newer, e) \/ e \in dropped

Acknowledged(e) == flushOf[e] # 0 /\ stage[flushOf[e]] = "saved"
Awaited(e) == recorder[e] = "appended" \/ (flushOf[e] # 0 /\ Pending(flushOf[e]))

\* A store that is not dirty has nothing that a crash could lose: a change made
\* while an older image is written keeps it dirty.
CleanIsSaved == ~dirty => disk = memory

\* At most one write runs, with the store dirty; its image lies between the
\* file and the memory, is the memory as long as nothing has changed, and holds
\* the events that await it.
WriteInv ==
  \A n \in Flushes : Running(n) =>
    /\ MyTurn(n)
    /\ dirty
    /\ seen[n] <= version /\ (seen[n] = version => image[n] = memory)
    /\ stage[n] = "renamed" => disk = image[n]
    /\ Carries(image[n], disk) /\ Carries(memory, image[n])
    /\ \A e \in Events : flushOf[e] = n => Holds(image[n], e) \/ e \in dropped

\* An event that awaits its flush is in memory, an acknowledged one in the file.
EventInv ==
  \A e \in Events :
    /\ flushOf[e] <= issued
    /\ Awaited(e) => Holds(memory, e) \/ e \in dropped
    /\ Acknowledged(e) => Holds(disk, e) \/ e \in dropped

\* What makes the safety properties inductive.
SaveInv == WriteInv /\ CleanIsSaved /\ Carries(memory, disk) /\ EventInv

\* An audit event whose recordAuditEvent call has returned is in the file,
\* whatever was flushed, failed or restarted in between; only newer events may
\* have pushed it out.
AcknowledgedIsDurable ==
  \A e \in Events : Acknowledged(e) => Holds(disk, e) \/ e \in dropped

\* What is unsaved is on its way to the file: a timer or a flush will see to
\* it, unless a write has failed after the last change.
UnsavedIsScheduled ==
  dirty => timer \/ stalled \/ \E n \in Flushes : Pending(n)

\* The file never goes back to an older state, by a slow write that overtakes
\* a newer one or by a restart.
NeverGoesBack ==
  [][/\ disk'.browser >= disk.browser
     /\ \A e \in Events : Holds(disk, e) => Holds(disk', e) \/ e \in dropped]_vars

\* Every change of the browser state is saved, unless a write fails or the
\* process dies before.
ChangesReachDisk ==
  \A b \in 1 .. MaxBrowser :
    memory.browser = b /\ dirty ~> disk.browser >= b \/ memory.browser < b \/ stalled
=============================================================================
