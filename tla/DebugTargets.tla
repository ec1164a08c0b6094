----------------------------- MODULE DebugTargets -----------------------------
(***************************************************************************)
(* The debugger targets of the active session                              *)
(* (src/src/background/debuggerAdapter.ts): the tab's root target and the  *)
(* flattened sessions of its out-of-process iframes, the routes from page  *)
(* frames to those sessions, and the JavaScript debugger on each target.   *)
(*                                                                         *)
(* Chrome's answers and events come in the order in which they happen, so  *)
(* an event is one step of Chrome and of its handler; between a command    *)
(* and its answer everything else may happen.                              *)
(***************************************************************************)
EXTENDS Naturals, FiniteSets

CONSTANTS
    RootTarget,          \* the target of the tab itself
    ChildSessions,      \* session ids of iframe targets
    Frames,        \* child frames of the page (frameId # 0)
    NoFrame,
    MaxChildren,   \* MAX_CHILD_DEBUGGER_SESSIONS
    MaxTargetEvents,     \* bound: iframe sessions that start, pauses and attachments
    MaxRefreshes,  \* bound: refreshes of the routes
    SharedTab      \* whether an activity monitor keeps the tab attached when the
                   \* session leaves it

ASSUME DebugTargetsAssumption ==
    /\ RootTarget \notin ChildSessions /\ NoFrame \notin Frames
    /\ MaxChildren \in Nat \ {0} /\ MaxTargetEvents \in Nat /\ MaxRefreshes \in Nat
    /\ SharedTab \in BOOLEAN

VARIABLES
    frameOf,      \* Chrome: the frame each iframe session serves
    frozen,       \* Chrome: targets whose JavaScript is paused
    debugged,     \* Chrome: targets whose Debugger domain is enabled
    session,      \* activeSession: its steps away from and to the tab
    known,        \* childDebuggerSessions
    routes,       \* childDebuggerRoutes
    refresh,      \* the calls of refreshChildDebuggerRoutes under way; "current" while
                  \* their generation is childRouteRefreshGeneration
    syncing,      \* children whose handleAttachedToTarget is under way
    debuggerEnabling, \* ensureDebuggerEnabled under way: the targets it sends to
    debuggerEnabled,
    paused,       \* session.pausedTargets
    breakpoints,  \* targets with an entry of session.breakpoints
    events

targetVars == <<frameOf, frozen, debugged, session, known, routes, refresh, syncing,
                debuggerEnabling, debuggerEnabled, paused, breakpoints, events>>

DebugTargetIds  == {RootTarget} \cup ChildSessions
LiveChildren     == {c \in ChildSessions : frameOf[c] # NoFrame}
NoRoutes == [f \in Frames |-> NoFrame]
NoRefresh     == [at |-> "idle"]

TargetsInit ==
    /\ frameOf = [c \in ChildSessions |-> NoFrame] /\ frozen = {} /\ debugged = {}
    /\ session = "away" /\ known = {} /\ routes = NoRoutes
    /\ refresh = [r \in 1..MaxRefreshes |-> NoRefresh] /\ syncing = {}
    /\ debuggerEnabling = {} /\ debuggerEnabled = FALSE /\ paused = {} /\ breakpoints = {} /\ events = 0

----------------------------------------------------------------------------
(* Sessions of iframes and their routes *)

\* childRouteRefreshGeneration += 1: what the refreshes under way find is not taken.
NotOvertaken == refresh
Overtaken    == [r \in 1..MaxRefreshes |-> IF refresh[r] = NoRefresh THEN NoRefresh
                                           ELSE [at |-> refresh[r].at, current |-> FALSE, found |-> NoRoutes]]

\* The session attaches to the tab, with setAutoAttach.
AttachSession ==
    /\ session = "away" /\ events < MaxTargetEvents
    /\ session' = "active" /\ events' = events + 1
    /\ UNCHANGED <<frameOf, frozen, debugged, known, routes, refresh, syncing, debuggerEnabling,
                   debuggerEnabled, paused, breakpoints>>

\* Target.attachedToTarget: the session of an iframe is kept, or sent away at the limit.
AttachChild(c, f) ==
    /\ session = "active" /\ frameOf[c] = NoFrame /\ events < MaxTargetEvents
    /\ \A d \in LiveChildren : frameOf[d] # f
    /\ events' = events + 1
    /\ IF Cardinality(known) >= MaxChildren
       THEN UNCHANGED <<frameOf, known, refresh, syncing>>
       ELSE /\ frameOf' = [frameOf EXCEPT ![c] = f]
            /\ known' = known \cup {c} /\ syncing' = syncing \cup {c}
            /\ refresh' = Overtaken
    /\ UNCHANGED <<frozen, debugged, session, routes, debuggerEnabling, debuggerEnabled, paused, breakpoints>>

\* refreshChildDebuggerRoutes up to the request for the frame trees.
RefreshStarted(r) ==
    /\ refresh[r] = NoRefresh
    /\ refresh' = [Overtaken EXCEPT ![r] = [at |-> "asked", current |-> TRUE, found |-> NoRoutes]]

\* handleAttachedToTarget after its first command: the domains in use are enabled on
\* the child and the routes are refreshed. For a child that has gone it fails.
SyncChild(c, r) ==
    /\ c \in syncing
    /\ syncing' = syncing \ {c}
    /\ IF c \in LiveChildren
       THEN /\ debugged' = debugged \cup (IF debuggerEnabled THEN {c} ELSE {})
            /\ RefreshStarted(r)
       ELSE UNCHANGED <<debugged, refresh>>
    /\ UNCHANGED <<frameOf, frozen, session, known, routes, debuggerEnabling, debuggerEnabled, paused, breakpoints, events>>

\* ensureTrustedInputSession refreshes before it looks for the route of a frame.
StartRefresh(r) ==
    /\ session = "active"
    /\ RefreshStarted(r)
    /\ UNCHANGED <<frameOf, frozen, debugged, session, known, routes, syncing, debuggerEnabling, debuggerEnabled,
                   paused, breakpoints, events>>

\* The frame trees of the children arrive. A frame is routed when one child alone
\* says it serves it; a tree or a match may be missing.
ReadTrees(r) ==
    /\ refresh[r].at = "asked"
    /\ \E seen \in SUBSET known :
         refresh' = [refresh EXCEPT ![r].at = "read",
              ![r].found = IF refresh[r].current
                           THEN [f \in Frames |-> IF \E c \in seen : frameOf[c] = f
                                                  THEN CHOOSE c \in seen : frameOf[c] = f ELSE NoFrame]
                           ELSE NoRoutes]
    /\ UNCHANGED <<frameOf, frozen, debugged, session, known, routes, syncing, debuggerEnabling,
                   debuggerEnabled, paused, breakpoints, events>>

\* The routes are replaced unless the children have changed since.
InstallRoutes(r) ==
    /\ refresh[r].at = "read"
    /\ refresh' = [refresh EXCEPT ![r] = NoRefresh]
    /\ routes' = IF refresh[r].current THEN refresh[r].found ELSE routes
    /\ UNCHANGED <<frameOf, frozen, debugged, session, known, syncing, debuggerEnabling, debuggerEnabled,
                   paused, breakpoints, events>>

\* Target.detachedFromTarget: the iframe is gone or has moved to another process.
DetachChild(c) ==
    /\ c \in LiveChildren
    /\ frameOf' = [frameOf EXCEPT ![c] = NoFrame]
    /\ frozen' = frozen \ {c} /\ debugged' = debugged \ {c}
    /\ known' = known \ {c} /\ refresh' = Overtaken
    /\ routes' = [f \in Frames |-> IF routes[f] = c THEN NoFrame ELSE routes[f]]
    /\ paused' = paused \ {c} /\ breakpoints' = breakpoints \ {c}
    /\ UNCHANGED <<session, syncing, debuggerEnabling, debuggerEnabled, events>>

----------------------------------------------------------------------------
(* The JavaScript debugger *)

\* ensureDebuggerEnabled: the targets are listed once, then asked in turn.
EnableDebugger ==
    /\ session = "active" /\ ~debuggerEnabled /\ debuggerEnabling = {}
    /\ debuggerEnabling' = {RootTarget} \cup known
    /\ UNCHANGED <<frameOf, frozen, debugged, session, known, routes, refresh, syncing,
                   debuggerEnabled, paused, breakpoints, events>>

DebuggerEnabled ==
    /\ debuggerEnabling # {}
    /\ debuggerEnabling' = {}
    /\ debugged' = debugged \cup (debuggerEnabling \cap ({RootTarget} \cup LiveChildren))
    /\ debuggerEnabled' = (debuggerEnabling \subseteq {RootTarget} \cup LiveChildren)
    /\ UNCHANGED <<frameOf, frozen, session, known, routes, refresh, syncing, paused,
                   breakpoints, events>>

\* manageJavaScriptBreakpoint with "set" or "remove" on a target.
ChangeBreakpoint(t) ==
    /\ session = "active" /\ t \in debugged
    /\ \/ breakpoints' = breakpoints \cup {t}
       \/ /\ t \in breakpoints
          /\ breakpoints' = breakpoints \ {t}
    /\ UNCHANGED <<frameOf, frozen, debugged, session, known, routes, refresh, syncing,
                   debuggerEnabling, debuggerEnabled, paused, events>>

\* Debugger.paused: by a breakpoint, a debugger statement or the action "pause". The
\* handler records it for the active session alone.
PauseOfRoot(t) == session # "away" /\ t = RootTarget
PauseHeard(t)       == session # "away" /\ (t = RootTarget \/ t \in known)

PauseTarget(t) ==
    /\ t \in debugged \ frozen /\ events < MaxTargetEvents
    /\ events' = events + 1
    /\ frozen' = frozen \cup {t}
    /\ paused' = paused \cup (IF PauseHeard(t) THEN {t} ELSE {})
    /\ UNCHANGED <<frameOf, debugged, session, known, routes, refresh, syncing, debuggerEnabling,
                   debuggerEnabled, breakpoints>>

\* controlJavaScriptDebugger with "resume" or a step; a step pauses again by PauseTarget.
ResumeTarget(t) ==
    /\ session = "active" /\ t \in paused
    /\ frozen' = frozen \ {t} /\ paused' = paused \ {t}
    /\ UNCHANGED <<frameOf, debugged, session, known, routes, refresh, syncing, debuggerEnabling,
                   debuggerEnabled, breakpoints, events>>

----------------------------------------------------------------------------
(* The session leaves the tab *)

\* resumePausedDebugTargets, before detachDebugger or a change to another tab.
ResumePaused ==
    /\ session = "active"
    /\ session' = "leaving"
    /\ frozen' = frozen \ paused /\ paused' = {}
    /\ UNCHANGED <<frameOf, debugged, known, routes, refresh, syncing, debuggerEnabling, debuggerEnabled,
                   breakpoints, events>>

\* clearChildDebuggerSessions, and a session object that is given up or reset.
TabForgotten ==
    /\ session' = "away"
    /\ known' = {} /\ routes' = NoRoutes /\ refresh' = Overtaken
    /\ paused' = {} /\ breakpoints' = {} /\ debuggerEnabled' = FALSE /\ debuggerEnabling' = {}

\* Chrome lets go of every target: its domains are disabled and pages run on.
ChromeDetached ==
    /\ frameOf' = [c \in ChildSessions |-> NoFrame]
    /\ frozen' = {} /\ debugged' = {}

\* detachDebugger, or ensureDebuggerSessionForTab for another tab; a tab with an
\* activity monitor stays attached.
LeaveTab ==
    /\ session = "leaving"
    /\ TabForgotten
    /\ IF SharedTab THEN UNCHANGED <<frameOf, frozen, debugged>> ELSE ChromeDetached
    /\ UNCHANGED <<syncing, events>>

\* chrome.debugger.onDetach: the tab is closed or the user ends the session.
LoseTab ==
    /\ session # "away"
    /\ TabForgotten /\ ChromeDetached
    /\ UNCHANGED <<syncing, events>>

TargetsNext ==
    \/ AttachSession \/ EnableDebugger \/ DebuggerEnabled \/ ResumePaused \/ LeaveTab \/ LoseTab
    \/ \E c \in ChildSessions, f \in Frames : AttachChild(c, f)
    \/ \E c \in ChildSessions, r \in 1..MaxRefreshes : SyncChild(c, r)
    \/ \E r \in 1..MaxRefreshes : StartRefresh(r) \/ ReadTrees(r) \/ InstallRoutes(r)
    \/ \E c \in ChildSessions : DetachChild(c)
    \/ \E t \in DebugTargetIds : ChangeBreakpoint(t) \/ PauseTarget(t) \/ ResumeTarget(t)

TargetsSpec == TargetsInit /\ [][TargetsNext]_targetVars

----------------------------------------------------------------------------

TargetsTypeOK ==
    /\ frameOf \in [ChildSessions -> Frames \cup {NoFrame}]
    /\ frozen \subseteq DebugTargetIds /\ debugged \subseteq DebugTargetIds /\ debuggerEnabling \subseteq DebugTargetIds
    /\ session \in {"away", "active", "leaving"}
    /\ known \subseteq ChildSessions /\ syncing \subseteq ChildSessions
    /\ routes \in [Frames -> ChildSessions \cup {NoFrame}]
    /\ debuggerEnabled \in BOOLEAN /\ events \in 0..MaxTargetEvents
    /\ paused \subseteq DebugTargetIds /\ breakpoints \subseteq DebugTargetIds
    /\ \A r \in 1..MaxRefreshes : refresh[r].at \in {"idle", "asked", "read"}

\* Trusted input and debugger commands for a frame go to the session that serves the
\* frame now: a refresh that was overtaken by an iframe that left, came or moved never
\* installs its routes (the generation of refreshChildDebuggerRoutes).
RoutesAreLive ==
    \A f \in Frames : routes[f] # NoFrame => routes[f] \in known /\ frameOf[routes[f]] = f

\* JavaScript that stands still can be resumed: the pause is recorded with a session
\* that is on the tab, or the session is about to let the tab go. It holds unless an
\* activity monitor keeps the tab attached when the session leaves.
FrozenIsKnown ==
    \A t \in frozen : t \in paused \/ session = "leaving"

\* Both together: what the debugger's frames and pauses rest on.
TargetsAreSound == RoutesAreLive /\ FrozenIsKnown

\* Every target with a session is debugged once the session is. The code does not keep
\* it: ensureDebuggerEnabled lists the targets before its awaits, and a child that
\* attaches in between looks at debuggerEnabled too early.
ChildrenAreDebugged ==
    debuggerEnabled => \A c \in known \ syncing : c \in debugged
=============================================================================
