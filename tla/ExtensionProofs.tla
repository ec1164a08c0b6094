--------------------------- MODULE ExtensionProofs ---------------------------
(***************************************************************************)
(* Theorems about the debugger of the extension and about the workflow     *)
(* tool that drives the extension, for every value of their constants, and *)
(* about all the services side by side.                                    *)
(***************************************************************************)
EXTENDS MCServices, DaemonServicesProofs, AgentClientProofs, SequenceTheorems,
        WellFoundedInduction, TLAPS

(* DebugTargets *)

\* A refresh that has not been overtaken has found sessions that serve their frames.
FoundIsLive(r) ==
  refresh[r] # NoRefresh /\ refresh[r].at = "read" /\ refresh[r].current =>
    \A f \in Frames : refresh[r].found[f] # NoFrame =>
                        refresh[r].found[f] \in known /\ frameOf[refresh[r].found[f]] = f

RefreshShape ==
  /\ refresh \in [1..MaxRefreshes ->
                    {NoRefresh} \cup [at : {"asked", "read"}, current : BOOLEAN, found : [Frames -> ChildSessions \cup {NoFrame}]]]
  /\ known \subseteq ChildSessions /\ frameOf \in [ChildSessions -> Frames \cup {NoFrame}]

RoutesInv ==
  /\ RefreshShape /\ RoutesAreLive
  /\ \A r \in 1..MaxRefreshes : FoundIsLive(r)

\* Overtaken refreshes find nothing.
LEMMA OvertakenFindsNothing ==
  ASSUME RefreshShape
  PROVE  /\ Overtaken \in [1..MaxRefreshes ->
              {NoRefresh} \cup [at : {"asked", "read"}, current : BOOLEAN, found : [Frames -> ChildSessions \cup {NoFrame}]]]
         /\ \A r \in 1..MaxRefreshes : Overtaken[r] = NoRefresh \/ Overtaken[r].current = FALSE
<1>1. \A r \in 1..MaxRefreshes :
        Overtaken[r] = IF refresh[r] = NoRefresh THEN NoRefresh
                       ELSE [at |-> refresh[r].at, current |-> FALSE, found |-> NoRoutes]
  BY DEF Overtaken
<1>2. NoRoutes \in [Frames -> ChildSessions \cup {NoFrame}]
  BY DEF NoRoutes
<1>3. \A r \in 1..MaxRefreshes : refresh[r] = NoRefresh \/ refresh[r].at \in {"asked", "read"}
  BY DEF RefreshShape
<1>4. Overtaken = [r \in 1..MaxRefreshes |-> Overtaken[r]]
  BY DEF Overtaken
<1> DEFINE FoundRecords == [at : {"asked", "read"}, current : BOOLEAN, found : [Frames -> ChildSessions \cup {NoFrame}]]
<1>5. ASSUME NEW r \in 1..MaxRefreshes
      PROVE  Overtaken[r] \in {NoRefresh} \cup FoundRecords /\ (Overtaken[r] = NoRefresh \/ Overtaken[r].current = FALSE)
  <2>1. CASE refresh[r] = NoRefresh
    BY <1>1, <2>1
  <2>2. CASE refresh[r] # NoRefresh
    <3>1. Overtaken[r] = [at |-> refresh[r].at, current |-> FALSE, found |-> NoRoutes]
      BY <1>1, <2>2
    <3>2. refresh[r].at \in {"asked", "read"}
      BY <1>3, <2>2
    <3> QED
      BY <1>2, <3>1, <3>2
  <2> QED
    BY <2>1, <2>2
<1> HIDE DEF FoundRecords
<1>6. Overtaken \in [1..MaxRefreshes -> {NoRefresh} \cup FoundRecords]
  BY <1>4, <1>5
<1> QED
  BY <1>5, <1>6 DEF FoundRecords

LEMMA RoutesStep ==
  ASSUME DebugTargetsAssumption, RoutesInv, [TargetsNext]_targetVars
  PROVE  RoutesInv'
<1> DEFINE Shape == [1..MaxRefreshes ->
              {NoRefresh} \cup [at : {"asked", "read"}, current : BOOLEAN, found : [Frames -> ChildSessions \cup {NoFrame}]]]
<1>0. /\ refresh \in Shape /\ known \subseteq ChildSessions /\ frameOf \in [ChildSessions -> Frames \cup {NoFrame}]
      /\ \A f \in Frames : routes[f] # NoFrame => routes[f] \in known /\ frameOf[routes[f]] = f
      /\ NoFrame \notin Frames
      /\ \A r \in 1..MaxRefreshes : FoundIsLive(r)
  BY DEF RoutesInv, RefreshShape, RoutesAreLive, DebugTargetsAssumption
<1>1. /\ Overtaken \in Shape
      /\ \A r \in 1..MaxRefreshes : Overtaken[r] = NoRefresh \/ Overtaken[r].current = FALSE
  BY OvertakenFindsNothing DEF RoutesInv
<1>2. NoRefresh.at = "idle"
  BY DEF NoRefresh
<1> DEFINE Asked == [at |-> "asked", current |-> TRUE, found |-> NoRoutes]
<1>3. Asked \in [at : {"asked", "read"}, current : BOOLEAN, found : [Frames -> ChildSessions \cup {NoFrame}]]
      /\ Asked.at = "asked"
  BY DEF NoRoutes
<1> HIDE DEF Shape, Asked
<1>a. ASSUME refresh' = Overtaken, RoutesAreLive', known' \subseteq ChildSessions,
             frameOf' \in [ChildSessions -> Frames \cup {NoFrame}]
      PROVE  RoutesInv'
  BY <1>1, <1>a DEF RoutesInv, RefreshShape, FoundIsLive, Shape
<1>b. ASSUME UNCHANGED <<refresh, routes, known, frameOf>>
      PROVE  RoutesInv'
  BY <1>b DEF RoutesInv, RefreshShape, RoutesAreLive, FoundIsLive
<1>c. ASSUME NEW r \in 1..MaxRefreshes, RefreshStarted(r), UNCHANGED <<routes, known, frameOf>>
      PROVE  RoutesInv'
  <2>1. refresh' = [Overtaken EXCEPT ![r] = Asked]
    BY <1>c DEF RefreshStarted, Asked
  <2>2. refresh' \in Shape
    BY <1>1, <1>3, <2>1 DEF Shape
  <2>3. \A q \in 1..MaxRefreshes : refresh'[q] = IF q = r THEN Asked ELSE Overtaken[q]
    BY <1>1, <2>1 DEF Shape
  <2>4. \A q \in 1..MaxRefreshes : FoundIsLive(q)'
    BY <1>1, <1>3, <2>3 DEF FoundIsLive
  <2> QED
    BY <1>c, <2>2, <2>4 DEF RoutesInv, RefreshShape, RoutesAreLive, Shape
<1>4. CASE AttachSession \/ EnableDebugger \/ DebuggerEnabled \/ ResumePaused
  BY <1>4, <1>b DEF AttachSession, EnableDebugger, DebuggerEnabled, ResumePaused
<1>5. CASE LeaveTab \/ LoseTab
  <2>1. routes' = NoRoutes /\ refresh' = Overtaken /\ known' = {}
    BY <1>5 DEF LeaveTab, LoseTab, TabForgotten
  <2>2. frameOf' \in [ChildSessions -> Frames \cup {NoFrame}]
    BY <1>0, <1>5 DEF LeaveTab, LoseTab, ChromeDetached
  <2>3. RoutesAreLive'
    BY <2>1 DEF RoutesAreLive, NoRoutes
  <2> QED
    BY <1>a, <2>1, <2>2, <2>3
<1>6. ASSUME NEW c \in ChildSessions, NEW f \in Frames, AttachChild(c, f)
      PROVE  RoutesInv'
  <2>1. CASE Cardinality(known) >= MaxChildren
    BY <1>6, <1>b, <2>1 DEF AttachChild
  <2>2. CASE ~(Cardinality(known) >= MaxChildren)
    <3>1. /\ frameOf' = [frameOf EXCEPT ![c] = f] /\ known' = known \cup {c} /\ refresh' = Overtaken
          /\ UNCHANGED routes /\ frameOf[c] = NoFrame
      BY <1>6, <2>2 DEF AttachChild
    <3>2. RoutesAreLive'
      BY <1>0, <3>1 DEF RoutesAreLive
    <3> QED
      BY <1>0, <1>a, <3>1, <3>2
  <2> QED
    BY <2>1, <2>2
<1>7. ASSUME NEW c \in ChildSessions, NEW r \in 1..MaxRefreshes, SyncChild(c, r)
      PROVE  RoutesInv'
  BY <1>7, <1>b, <1>c DEF SyncChild
<1>8. ASSUME NEW r \in 1..MaxRefreshes, StartRefresh(r)
      PROVE  RoutesInv'
  BY <1>8, <1>c DEF StartRefresh
<1>9. ASSUME NEW r \in 1..MaxRefreshes, ReadTrees(r)
      PROVE  RoutesInv'
  <2>1. PICK seen \in SUBSET known :
          refresh' = [refresh EXCEPT ![r].at = "read",
               ![r].found = IF refresh[r].current
                            THEN [f \in Frames |-> IF \E c \in seen : frameOf[c] = f
                                                   THEN CHOOSE c \in seen : frameOf[c] = f ELSE NoFrame]
                            ELSE NoRoutes]
    BY <1>9 DEF ReadTrees
  <2> DEFINE F == IF refresh[r].current
                  THEN [f \in Frames |-> IF \E c \in seen : frameOf[c] = f
                                         THEN CHOOSE c \in seen : frameOf[c] = f ELSE NoFrame]
                  ELSE NoRoutes
  <2>2. F \in [Frames -> ChildSessions \cup {NoFrame}]
    BY <1>0 DEF NoRoutes
  <2>3. refresh[r].current =>
          \A f \in Frames : F[f] # NoFrame => F[f] \in known /\ frameOf[F[f]] = f
    BY <1>0
  <2>4. refresh[r] # NoRefresh
    BY <1>2, <1>9 DEF ReadTrees
  <2>5. refresh' = [refresh EXCEPT ![r] = [[refresh[r] EXCEPT !.at = "read"] EXCEPT !.found = F]]
    BY <2>1
  <2> HIDE DEF F
  <2>6. refresh[r] \in [at : {"asked", "read"}, current : BOOLEAN, found : [Frames -> ChildSessions \cup {NoFrame}]]
    BY <1>0, <2>4 DEF Shape
  <2>7. /\ refresh'[r] \in [at : {"asked", "read"}, current : BOOLEAN, found : [Frames -> ChildSessions \cup {NoFrame}]]
        /\ refresh'[r].found = F /\ refresh'[r].current = refresh[r].current
    BY <1>0, <2>2, <2>5, <2>6 DEF Shape
  <2>8. \A q \in 1..MaxRefreshes : q # r => refresh'[q] = refresh[q]
    BY <1>0, <2>5 DEF Shape
  <2>9. refresh' \in Shape
    BY <1>0, <2>5, <2>7, <2>8 DEF Shape
  <2>10. UNCHANGED <<routes, known, frameOf>>
    BY <1>9 DEF ReadTrees
  <2>11. \A q \in 1..MaxRefreshes : FoundIsLive(q)'
    BY <1>0, <2>3, <2>7, <2>8, <2>10 DEF FoundIsLive
  <2> QED
    BY <1>0, <2>9, <2>10, <2>11 DEF RoutesInv, RefreshShape, RoutesAreLive, Shape
<1>10. ASSUME NEW r \in 1..MaxRefreshes, InstallRoutes(r)
       PROVE  RoutesInv'
  <2>1. /\ refresh[r].at = "read" /\ refresh' = [refresh EXCEPT ![r] = NoRefresh]
        /\ routes' = IF refresh[r].current THEN refresh[r].found ELSE routes
        /\ UNCHANGED <<known, frameOf>>
    BY <1>10 DEF InstallRoutes
  <2>2. refresh[r] # NoRefresh
    BY <1>2, <2>1
  <2>3. RoutesAreLive'
    BY <1>0, <2>1, <2>2 DEF RoutesAreLive, FoundIsLive
  <2>4. refresh' \in Shape
    BY <1>0, <2>1 DEF Shape
  <2>5. \A q \in 1..MaxRefreshes : refresh'[q] = NoRefresh \/ refresh'[q] = refresh[q]
    BY <1>0, <2>1 DEF Shape
  <2>6. \A q \in 1..MaxRefreshes : FoundIsLive(q)'
    BY <1>0, <2>1, <2>5 DEF FoundIsLive
  <2> QED
    BY <1>0, <2>1, <2>3, <2>4, <2>6 DEF RoutesInv, RefreshShape, Shape
<1>11. ASSUME NEW c \in ChildSessions, DetachChild(c)
       PROVE  RoutesInv'
  <2>1. /\ frameOf' = [frameOf EXCEPT ![c] = NoFrame] /\ known' = known \ {c} /\ refresh' = Overtaken
        /\ routes' = [f \in Frames |-> IF routes[f] = c THEN NoFrame ELSE routes[f]]
    BY <1>11 DEF DetachChild
  <2>2. RoutesAreLive'
    BY <1>0, <2>1 DEF RoutesAreLive
  <2> QED
    BY <1>0, <1>a, <2>1, <2>2
<1>12. ASSUME NEW t \in DebugTargetIds, ChangeBreakpoint(t) \/ PauseTarget(t) \/ ResumeTarget(t)
       PROVE  RoutesInv'
  BY <1>12, <1>b DEF ChangeBreakpoint, PauseTarget, ResumeTarget
<1>13. CASE UNCHANGED targetVars
  BY <1>13, <1>b DEF targetVars
<1> QED
  BY <1>4, <1>5, <1>6, <1>7, <1>8, <1>9, <1>10, <1>11, <1>12, <1>13 DEF TargetsNext

LEMMA RoutesInit == TargetsInit => RoutesInv
<1> SUFFICES ASSUME TargetsInit
             PROVE  RoutesInv
  OBVIOUS
<1>1. /\ frameOf = [c \in ChildSessions |-> NoFrame] /\ known = {} /\ routes = NoRoutes
      /\ refresh = [r \in 1..MaxRefreshes |-> NoRefresh]
  BY DEF TargetsInit
<1> QED
  BY <1>1 DEF RoutesInv, RefreshShape, RoutesAreLive, FoundIsLive, NoRoutes

\* Whatever iframes come, leave or move while their routes are looked up, a frame is
\* routed to the session that serves it, with or without a monitor on the tab.
THEOREM RoutesStayLive == TargetsSpec => []RoutesAreLive
<1>1. RoutesInv => RoutesAreLive
  BY DEF RoutesInv
<1> QED
  BY <1>1, RoutesInit, RoutesStep, DebugTargetsAssumption, PTL DEF TargetsSpec

\* Everything that is debugged can pause where the session hears it.
PausesInv ==
  /\ known = LiveChildren
  /\ debugged \subseteq {RootTarget} \cup known
  /\ session = "away" => known = {} /\ debugged = {} /\ debuggerEnabling = {}
  /\ FrozenIsKnown

LEMMA PausesStep ==
  ASSUME DebugTargetsAssumption, SharedTab = FALSE, PausesInv, RoutesInv, [TargetsNext]_targetVars
  PROVE  PausesInv'
<1>0. /\ known = LiveChildren /\ debugged \subseteq {RootTarget} \cup known
      /\ session = "away" => known = {} /\ debugged = {} /\ debuggerEnabling = {}
      /\ \A t \in frozen : t \in paused \/ session = "leaving"
      /\ frameOf \in [ChildSessions -> Frames \cup {NoFrame}] /\ NoFrame \notin Frames
  BY DEF PausesInv, FrozenIsKnown, RoutesInv, RefreshShape, DebugTargetsAssumption
<1>a. ASSUME UNCHANGED <<frameOf, known, session, frozen, paused>>, debugged' \subseteq {RootTarget} \cup known,
             session = "away" => debugged' = {} /\ debuggerEnabling' = {}
      PROVE  PausesInv'
  BY <1>0, <1>a DEF PausesInv, LiveChildren, FrozenIsKnown
<1>1. CASE AttachSession
  BY <1>0, <1>1 DEF AttachSession, PausesInv, LiveChildren, FrozenIsKnown
<1>2. CASE EnableDebugger \/ DebuggerEnabled
  <2>1. session # "away" /\ debugged' \subseteq {RootTarget} \cup known
    BY <1>0, <1>2 DEF EnableDebugger, DebuggerEnabled
  <2>2. UNCHANGED <<frameOf, known, session, frozen, paused>>
    BY <1>2 DEF EnableDebugger, DebuggerEnabled
  <2> QED
    BY <1>a, <2>1, <2>2
<1>3. CASE ResumePaused
  BY <1>0, <1>3 DEF ResumePaused, PausesInv, LiveChildren, FrozenIsKnown
<1>4. CASE LeaveTab \/ LoseTab
  <2>1. /\ known' = {} /\ debuggerEnabling' = {} /\ frameOf' = [c \in ChildSessions |-> NoFrame]
        /\ frozen' = {} /\ debugged' = {}
    BY <1>4 DEF LeaveTab, LoseTab, TabForgotten, ChromeDetached
  <2> QED
    BY <2>1 DEF PausesInv, LiveChildren, FrozenIsKnown
<1>5. ASSUME NEW c \in ChildSessions, NEW f \in Frames, AttachChild(c, f)
      PROVE  PausesInv'
  <2>1. UNCHANGED <<session, frozen, debugged, paused, debuggerEnabling>> /\ session = "active"
    BY <1>5 DEF AttachChild
  <2>2. CASE Cardinality(known) >= MaxChildren
    BY <1>0, <1>5, <1>a, <2>1, <2>2 DEF AttachChild
  <2>3. CASE ~(Cardinality(known) >= MaxChildren)
    <3>1. frameOf' = [frameOf EXCEPT ![c] = f] /\ known' = known \cup {c}
      BY <1>5, <2>3 DEF AttachChild
    <3>2. known' = LiveChildren'
      BY <1>0, <3>1 DEF LiveChildren
    <3> QED
      BY <1>0, <2>1, <3>1, <3>2 DEF PausesInv, FrozenIsKnown
  <2> QED
    BY <2>2, <2>3
<1>6. ASSUME NEW c \in ChildSessions, NEW r \in 1..MaxRefreshes, SyncChild(c, r)
      PROVE  PausesInv'
  <2>1. UNCHANGED <<frameOf, known, session, frozen, paused, debuggerEnabling>>
    BY <1>6 DEF SyncChild
  <2>2. c \in known \/ UNCHANGED debugged
    BY <1>0, <1>6 DEF SyncChild
  <2>3. debugged' \subseteq debugged \cup {c}
    BY <1>6 DEF SyncChild
  <2> QED
    BY <1>0, <1>a, <2>1, <2>2, <2>3
<1>7. ASSUME NEW r \in 1..MaxRefreshes, StartRefresh(r) \/ ReadTrees(r) \/ InstallRoutes(r)
      PROVE  PausesInv'
  BY <1>0, <1>7, <1>a DEF StartRefresh, ReadTrees, InstallRoutes
<1>8. ASSUME NEW c \in ChildSessions, DetachChild(c)
      PROVE  PausesInv'
  <2>1. /\ frameOf' = [frameOf EXCEPT ![c] = NoFrame] /\ known' = known \ {c}
        /\ frozen' = frozen \ {c} /\ debugged' = debugged \ {c} /\ paused' = paused \ {c}
        /\ UNCHANGED <<session, debuggerEnabling>>
    BY <1>8 DEF DetachChild
  <2>2. known' = LiveChildren'
    BY <1>0, <2>1 DEF LiveChildren
  <2> QED
    BY <1>0, <2>1, <2>2 DEF PausesInv, FrozenIsKnown
<1>9. ASSUME NEW t \in DebugTargetIds, ChangeBreakpoint(t)
      PROVE  PausesInv'
  BY <1>0, <1>9, <1>a DEF ChangeBreakpoint
<1>10. ASSUME NEW t \in DebugTargetIds, PauseTarget(t)
       PROVE  PausesInv'
  <2>1. PauseHeard(t)
    BY <1>0, <1>10 DEF PauseTarget, PauseHeard
  <2>2. /\ frozen' = frozen \cup {t} /\ paused' = paused \cup {t}
        /\ UNCHANGED <<frameOf, debugged, session, known, debuggerEnabling>>
    BY <1>10, <2>1 DEF PauseTarget
  <2> QED
    BY <1>0, <2>2 DEF PausesInv, LiveChildren, FrozenIsKnown
<1>11. ASSUME NEW t \in DebugTargetIds, ResumeTarget(t)
       PROVE  PausesInv'
  BY <1>0, <1>11 DEF ResumeTarget, PausesInv, LiveChildren, FrozenIsKnown
<1>12. CASE UNCHANGED targetVars
  BY <1>0, <1>12, <1>a DEF targetVars
<1> QED
  BY <1>1, <1>2, <1>3, <1>4, <1>5, <1>6, <1>7, <1>8, <1>9, <1>10, <1>11, <1>12 DEF TargetsNext

\* On a tab that no monitor holds, JavaScript never stands still where nobody could
\* resume it, and frames stay routed to the sessions that serve them.
THEOREM NothingStaysFrozen ==
  ASSUME SharedTab = FALSE
  PROVE  TargetsSpec => []TargetsAreSound
<1>1. TargetsInit => PausesInv
  BY DEF TargetsInit, PausesInv, LiveChildren, FrozenIsKnown
<1>2. PausesInv /\ RoutesInv /\ [TargetsNext]_targetVars => (PausesInv /\ RoutesInv)'
  BY PausesStep, RoutesStep, DebugTargetsAssumption
<1>3. PausesInv /\ RoutesInv => TargetsAreSound
  BY DEF PausesInv, RoutesInv, TargetsAreSound
<1> QED
  BY <1>1, <1>2, <1>3, RoutesInit, PTL DEF TargetsSpec

(* What the extension keeps of its targets are its own sessions and frames. *)

TargetsTyped ==
  /\ frozen \subseteq DebugTargetIds /\ debugged \subseteq DebugTargetIds
  /\ debuggerEnabling \subseteq DebugTargetIds
  /\ session \in {"away", "active", "leaving"} /\ syncing \subseteq ChildSessions
  /\ routes \in [Frames -> ChildSessions \cup {NoFrame}]
  /\ debuggerEnabled \in BOOLEAN /\ events \in 0 .. MaxTargetEvents
  /\ paused \subseteq DebugTargetIds /\ breakpoints \subseteq DebugTargetIds

LEMMA TargetsTypesStep ==
  ASSUME DebugTargetsAssumption, RoutesInv, TargetsTyped, [TargetsNext]_targetVars
  PROVE  TargetsTyped'
<1>0. /\ known \subseteq DebugTargetIds /\ ChildSessions \subseteq DebugTargetIds
      /\ RootTarget \in DebugTargetIds
      /\ refresh \in [1..MaxRefreshes ->
           {NoRefresh} \cup [at : {"asked", "read"}, current : BOOLEAN, found : [Frames -> ChildSessions \cup {NoFrame}]]]
  BY DEF RoutesInv, RefreshShape, DebugTargetIds
<1>1. ASSUME events < MaxTargetEvents, events' = events + 1
      PROVE  events' \in 0 .. MaxTargetEvents
  BY <1>1 DEF TargetsTyped, DebugTargetsAssumption
<1>2. CASE AttachSession
  BY <1>1, <1>2 DEF AttachSession, TargetsTyped
<1>3. ASSUME NEW c \in ChildSessions, NEW f \in Frames, AttachChild(c, f)
      PROVE  TargetsTyped'
  <2>1. syncing' \subseteq ChildSessions
    BY <1>3 DEF AttachChild, TargetsTyped
  <2> QED
    BY <1>1, <1>3, <2>1 DEF AttachChild, TargetsTyped
<1>4. ASSUME NEW c \in ChildSessions, NEW r \in 1 .. MaxRefreshes, SyncChild(c, r)
      PROVE  TargetsTyped'
  <2>1. debugged' \subseteq debugged \cup {c} /\ syncing' \subseteq syncing
    BY <1>4 DEF SyncChild
  <2> QED
    BY <1>0, <1>4, <2>1 DEF SyncChild, TargetsTyped
<1>5. ASSUME NEW r \in 1 .. MaxRefreshes, StartRefresh(r) \/ ReadTrees(r)
      PROVE  TargetsTyped'
  BY <1>5 DEF StartRefresh, ReadTrees, TargetsTyped
<1>6. ASSUME NEW r \in 1 .. MaxRefreshes, InstallRoutes(r)
      PROVE  TargetsTyped'
  <2>1. refresh[r] \in [at : {"asked", "read"}, current : BOOLEAN, found : [Frames -> ChildSessions \cup {NoFrame}]]
    BY <1>0, <1>6 DEF InstallRoutes, NoRefresh
  <2>2. routes' \in [Frames -> ChildSessions \cup {NoFrame}]
    BY <1>6, <2>1 DEF InstallRoutes, TargetsTyped
  <2> QED
    BY <1>6, <2>2 DEF InstallRoutes, TargetsTyped
<1>7. ASSUME NEW c \in ChildSessions, DetachChild(c)
      PROVE  TargetsTyped'
  <2>1. routes' = [f \in Frames |-> IF routes[f] = c THEN NoFrame ELSE routes[f]]
    BY <1>7 DEF DetachChild
  <2>2. routes' \in [Frames -> ChildSessions \cup {NoFrame}]
    BY <2>1 DEF TargetsTyped
  <2> QED
    BY <1>7, <2>2 DEF DetachChild, TargetsTyped
<1>8. CASE EnableDebugger
  BY <1>0, <1>8 DEF EnableDebugger, TargetsTyped
<1>9. CASE DebuggerEnabled
  <2>1. debuggerEnabled' = (debuggerEnabling \subseteq {RootTarget} \cup LiveChildren)
    BY <1>9 DEF DebuggerEnabled
  <2>2. debuggerEnabled' \in BOOLEAN
    BY <2>1, Zenon
  <2> QED
    BY <1>9, <2>2 DEF DebuggerEnabled, TargetsTyped
<1>10. ASSUME NEW t \in DebugTargetIds, ChangeBreakpoint(t)
       PROVE  TargetsTyped'
  <2>1. breakpoints' \subseteq DebugTargetIds
    BY <1>10 DEF ChangeBreakpoint, TargetsTyped
  <2> QED
    BY <1>10, <2>1 DEF ChangeBreakpoint, TargetsTyped
<1>11. ASSUME NEW t \in DebugTargetIds, PauseTarget(t)
       PROVE  TargetsTyped'
  <2>1. paused' \subseteq paused \cup {t} /\ frozen' = frozen \cup {t}
    BY <1>11 DEF PauseTarget
  <2> QED
    BY <1>1, <1>11, <2>1 DEF PauseTarget, TargetsTyped
<1>12. ASSUME NEW t \in DebugTargetIds, ResumeTarget(t)
       PROVE  TargetsTyped'
  BY <1>12 DEF ResumeTarget, TargetsTyped
<1>13. CASE ResumePaused
  BY <1>13 DEF ResumePaused, TargetsTyped
<1>14. ASSUME LeaveTab \/ LoseTab
       PROVE  TargetsTyped'
  <2>1. TabForgotten /\ UNCHANGED <<syncing, events>>
    BY <1>14 DEF LeaveTab, LoseTab
  <2>2. frozen' \subseteq DebugTargetIds /\ debugged' \subseteq DebugTargetIds
    BY <1>14 DEF LeaveTab, LoseTab, ChromeDetached, TargetsTyped
  <2>3. NoRoutes \in [Frames -> ChildSessions \cup {NoFrame}]
    BY DEF NoRoutes
  <2>4. debuggerEnabled' \in BOOLEAN
    BY <2>1 DEF TabForgotten
  <2> QED
    BY <2>1, <2>2, <2>3, <2>4 DEF TabForgotten, TargetsTyped
<1>15. CASE UNCHANGED targetVars
  BY <1>15 DEF targetVars, TargetsTyped
<1> QED
  BY <1>2, <1>3, <1>4, <1>5, <1>6, <1>7, <1>8, <1>9, <1>10, <1>11, <1>12, <1>13, <1>14, <1>15
  DEF TargetsNext

LEMMA TargetsTypesStart ==
  ASSUME DebugTargetsAssumption, TargetsInit
  PROVE  TargetsTyped
<1>1. routes \in [Frames -> ChildSessions \cup {NoFrame}]
  BY DEF TargetsInit, NoRoutes
<1>2. events \in 0 .. MaxTargetEvents
  BY DEF TargetsInit, DebugTargetsAssumption
<1>3. debuggerEnabled \in BOOLEAN
  BY DEF TargetsInit
<1> QED
  BY <1>1, <1>2, <1>3 DEF TargetsInit, TargetsTyped

LEMMA TargetsTypesHold ==
  ASSUME RoutesInv, TargetsTyped
  PROVE  TargetsTypeOK
<1>1. ASSUME NEW r \in 1 .. MaxRefreshes
      PROVE  refresh[r].at \in {"idle", "asked", "read"}
  <2>1. refresh[r] \in {NoRefresh} \cup
          [at : {"asked", "read"}, current : BOOLEAN, found : [Frames -> ChildSessions \cup {NoFrame}]]
    BY DEF RoutesInv, RefreshShape
  <2> QED
    BY <2>1 DEF NoRefresh
<1> QED
  BY <1>1 DEF RoutesInv, RefreshShape, TargetsTyped, TargetsTypeOK

\* Routes, pauses and breakpoints name targets of the tab, whatever iframes come and go
\* while they are looked up.
THEOREM TargetsTyping == TargetsSpec => []TargetsTypeOK
<1>1. TargetsInit => RoutesInv /\ TargetsTyped
  BY RoutesInit, TargetsTypesStart, DebugTargetsAssumption
<1>2. RoutesInv /\ TargetsTyped /\ [TargetsNext]_targetVars => (RoutesInv /\ TargetsTyped)'
  BY RoutesStep, TargetsTypesStep, DebugTargetsAssumption
<1>3. RoutesInv /\ TargetsTyped => TargetsTypeOK
  BY TargetsTypesHold
<1> QED
  BY <1>1, <1>2, <1>3, PTL DEF TargetsSpec

-----------------------------------------------------------------------------
(* DebuggerProxy *)

RequestsKnown ==
  /\ held \in [Requests -> Tabs \cup {NoTab}]
  /\ handler \in [Requests -> {"none", "passing", "altering", "continuing", "done"}]

HeldInv == RequestsKnown /\ NoRequestStuck

\* Requests that Chrome lets go of are held no longer, the others stay as they were.
LEMMA LettingGo ==
  ASSUME HeldInv, NEW t, Released(t) \/ UNCHANGED held, UNCHANGED handler
  PROVE  HeldInv'
BY DEF HeldInv, RequestsKnown, NoRequestStuck, Released

LEMMA HeldStep ==
  ASSUME DebuggerProxyAssumption, HeldInv, [ProxyNext]_proxyVars
  PROVE  HeldInv'
<1>a. ASSUME UNCHANGED <<held, handler>>
      PROVE  HeldInv'
  BY <1>a DEF HeldInv, RequestsKnown, NoRequestStuck
<1>1. ASSUME NEW j \in Jobs, JobStep(j) \/ Refuse(j)
      PROVE  HeldInv'
  <2>1. CASE ResolveSession(j) \/ Attach(j) \/ Ensured(j) \/ EnableNetwork(j) \/ Intercept(j) \/ Refuse(j)
    BY <1>a, <2>1 DEF ResolveSession, Attach, Ensured, EnableNetwork, Intercept, Refuse, chromeVars
  <2>2. CASE Switch(j)
    BY <2>2, LettingGo DEF Switch, Detached
  <2>3. CASE Release(j)
    BY <2>3, LettingGo DEF Release
  <2> QED
    BY <1>1, <2>1, <2>2, <2>3 DEF JobStep
<1>2. CASE EnableProxy \/ DisableProxy \/ RemoveRules \/ TabLoads \/ ResolveMonitor
  BY <1>2, <1>a DEF EnableProxy, DisableProxy, RemoveRules, CallProxyTool, TabLoads, ResolveMonitor, chromeVars
<1>3. CASE ToolStep
  <2>1. CASE DisableFetch \/ ApplyRemoval
    BY <1>a, <2>1 DEF DisableFetch, ApplyRemoval, chromeVars
  <2>2. CASE FetchDisabled
    BY <2>2, LettingGo DEF FetchDisabled
  <2>3. CASE ToolDetached
    BY <2>3, LettingGo DEF ToolDetached, Detached
  <2> QED
    BY <1>3, <2>1, <2>2, <2>3 DEF ToolStep
<1>4. CASE AttachMonitor
  BY <1>4, <1>a DEF AttachMonitor
<1>5. CASE MonitorDetached
  BY <1>5, LettingGo DEF MonitorDetached, Detached
<1>6. ASSUME NEW t \in Tabs, DetachDebugger(t) \/ SelectTab(t) \/ StartMonitor(t) \/ StopMonitor(t)
      PROVE  HeldInv'
  BY <1>6, <1>a DEF DetachDebugger, CallProxyTool, SelectTab, StartMonitor, StopMonitor, chromeVars
<1>7. ASSUME NEW t \in Tabs, ChromeDetaches(t, TRUE) \/ ChromeDetaches(t, FALSE)
      PROVE  HeldInv'
  BY <1>7, LettingGo DEF ChromeDetaches, Detached
<1>8. ASSUME NEW r \in Requests, AnswerRequest(r) \/ RefuseAlteration(r) \/ \E t \in Tabs : PauseRequest(r, t)
      PROVE  HeldInv'
  <2>1. CASE AnswerRequest(r)
    BY <2>1 DEF AnswerRequest, HeldInv, RequestsKnown, NoRequestStuck
  <2>2. CASE RefuseAlteration(r)
    BY <2>2 DEF RefuseAlteration, AfterRefusal, HeldInv, RequestsKnown, NoRequestStuck
  <2>3. ASSUME NEW t \in Tabs, PauseRequest(r, t)
        PROVE  HeldInv'
    <3>1. held' = [held EXCEPT ![r] = t]
      BY <2>3 DEF PauseRequest
    <3>2. PICK a \in {"passing", "altering", "continuing"} : handler' = [handler EXCEPT ![r] = a]
      BY <2>3 DEF PauseRequest
    <3> QED
      BY <3>1, <3>2 DEF HeldInv, RequestsKnown, NoRequestStuck
  <2> QED
    BY <1>8, <2>1, <2>2, <2>3
<1>9. CASE UNCHANGED proxyVars
  BY <1>9, <1>a DEF proxyVars
<1> QED
  BY <1>1, <1>2, <1>3, <1>4, <1>5, <1>6, <1>7, <1>8, <1>9 DEF ProxyNext

\* A request that Chrome holds back for the proxy always has a handler that will let it
\* go on, for any number of tabs, sessions, loops, monitors and detachments.
THEOREM NoRequestIsForgotten == ProxySpec => []NoRequestStuck
<1>1. ProxyInit => HeldInv
  BY DEF ProxyInit, HeldInv, RequestsKnown, NoRequestStuck
<1>2. HeldInv => NoRequestStuck
  BY DEF HeldInv
<1> QED
  BY <1>1, <1>2, HeldStep, DebuggerProxyAssumption, PTL DEF ProxySpec

-----------------------------------------------------------------------------
\* What the extension keeps of its sessions, with monitors and on several tabs.

ProxyJobs ==
  [at : {"resolve", "switch", "attach", "ensured", "network", "intercept", "release",
         "saved", "disable", "removed", "detach", "attachMonitor", "detachMonitor"},
   kind : {"tool", "loop", "reattach", "monitor"}, tab : Tabs \cup {NoTab}, s : 0..MaxSessions,
   left : Nat, current : BOOLEAN, on : BOOLEAN]
SessionRecords == [tab : Tabs \cup {NoTab}, attached : BOOLEAN, fetch : BOOLEAN]

ProxyTyped ==
  /\ netSessions \in [DebuggerSessionIds -> SessionRecords]
  /\ activeSession \in 0..MaxSessions /\ selected \in Tabs
  /\ proxyEnabled \in BOOLEAN /\ hasRules \in BOOLEAN

\* A job that begins.
LEMMA BegunReady ==
  ASSUME NEW kind \in {"tool", "loop", "reattach", "monitor"}, NEW t \in Tabs \cup {NoTab}
  PROVE  Begin(kind, t) \in ProxyJobs
<1>1. 0 \in Nat /\ 0 \in 0..MaxSessions
  BY DebuggerProxyAssumption DEF DebuggerProxyAssumption
<1> QED
  BY <1>1 DEF Begin, ProxyJobs

\* A change of one session's fetchEnabled.
LEMMA FetchFlag ==
  ASSUME netSessions \in [DebuggerSessionIds -> SessionRecords], NEW i, NEW f \in BOOLEAN
  PROVE  /\ [netSessions EXCEPT ![i].fetch = f] \in [DebuggerSessionIds -> SessionRecords]
         /\ \A k \in DebuggerSessionIds :
              /\ [netSessions EXCEPT ![i].fetch = f][k].tab = netSessions[k].tab
              /\ [netSessions EXCEPT ![i].fetch = f][k].attached = netSessions[k].attached
<1> DEFINE set == [netSessions[i] EXCEPT !.fetch = f]
<1>1. CASE i \in DebuggerSessionIds
  <2>1. set \in SessionRecords /\ set.tab = netSessions[i].tab /\ set.attached = netSessions[i].attached
    BY <1>1 DEF SessionRecords
  <2>2. [netSessions EXCEPT ![i].fetch = f] = [netSessions EXCEPT ![i] = set]
    OBVIOUS
  <2> HIDE DEF set
  <2> QED
    BY <1>1, <2>1, <2>2
<1>2. CASE i \notin DebuggerSessionIds
  BY <1>2
<1> QED
  BY <1>1, <1>2

\* The session objects that are on a tab.
Seated == {i \in DebuggerSessionIds : TabOf(i) \in Tabs}

\* What a job is about to use is there, whoever else is at work.
JobKnown(duty, S) ==
  \/ duty = NoJob
  \/ /\ duty \in ProxyJobs
     /\ duty.kind # "tool" \/ duty.at \in {"detach", "switch"} => duty.tab \in Tabs
     /\ duty.at \in {"attach", "attachMonitor"} => duty.s \in S

JobsKnown(jobs, S) ==
  /\ jobs \in [Jobs -> {NoJob} \cup ProxyJobs]
  /\ \A j \in Jobs : JobKnown(jobs[j], S)
  /\ jobs["monitor"] = NoJob \/ jobs["monitor"].tab \in Tabs

ProxyTypes ==
  /\ ProxyTyped /\ manual \subseteq Tabs
  /\ attached \subseteq Tabs /\ intercepted \subseteq attached
  /\ activeSession \in {0} \cup Seated /\ monitored \in [Tabs -> {0} \cup Seated]
  /\ JobsKnown(proxyJob, Seated)

LEMMA BegunKnown ==
  ASSUME NEW kind \in {"tool", "loop", "reattach", "monitor"}, NEW t \in Tabs \cup {NoTab},
         kind # "tool" => t \in Tabs, NEW n \in Nat, NEW S
  PROVE  /\ Begin(kind, t) \in ProxyJobs /\ JobKnown(Begin(kind, t), S)
         /\ [Begin(kind, t) EXCEPT !.left = n] \in ProxyJobs
         /\ JobKnown([Begin(kind, t) EXCEPT !.left = n], S)
<1>1. Begin(kind, t) \in ProxyJobs
  BY BegunReady
<1>2. Begin(kind, t).at = "resolve" /\ Begin(kind, t).kind = kind /\ Begin(kind, t).tab = t
  BY DEF Begin
<1>3. PICK duty : duty = [Begin(kind, t) EXCEPT !.left = n]
  OBVIOUS
<1>4. duty \in ProxyJobs /\ duty.at = "resolve" /\ duty.kind = kind /\ duty.tab = t
  BY <1>1, <1>2, <1>3 DEF ProxyJobs
<1> QED
  BY <1>1, <1>2, <1>3, <1>4 DEF JobKnown

\* More sessions are on a tab than before.
LEMMA KnownLonger ==
  ASSUME NEW jobs, NEW S, NEW T, S \subseteq T, JobsKnown(jobs, S)
  PROVE  JobsKnown(jobs, T)
BY DEF JobsKnown, JobKnown

LEMMA KnownMoves ==
  ASSUME NEW jobs, NEW S, JobsKnown(jobs, S), NEW j \in Jobs, NEW duty, JobKnown(duty, S),
         j = "monitor" => duty = NoJob \/ duty.tab \in Tabs
  PROVE  JobsKnown([jobs EXCEPT ![j] = duty], S)
<1>1. \A k \in Jobs : [jobs EXCEPT ![j] = duty][k] = IF k = j THEN duty ELSE jobs[k]
  BY DEF JobsKnown
<1>2. duty \in {NoJob} \cup ProxyJobs /\ "monitor" \in Jobs
  BY DEF JobKnown, Jobs
<1> QED
  BY <1>1, <1>2 DEF JobsKnown

LEMMA FailedKnown ==
  ASSUME NEW S, JobsKnown(proxyJob, S), NEW j \in Jobs, proxyJob[j] # NoJob
  PROVE  JobsKnown(Failed(j), S)
<1>1. /\ proxyJob[j] \in ProxyJobs
      /\ proxyJob[j].kind # "tool" => proxyJob[j].tab \in Tabs
  <2>1. JobKnown(proxyJob[j], S)
    BY DEF JobsKnown
  <2> QED
    BY <2>1 DEF JobKnown
<1>2. CASE proxyJob[j].kind = "loop" /\ proxyJob[j].current /\ proxyJob[j].left > 0
  <2>1. PICK again : again = [Begin("loop", proxyJob[j].tab) EXCEPT !.left = proxyJob[j].left - 1]
    OBVIOUS
  <2>2. Failed(j) = [proxyJob EXCEPT ![j] = again]
    BY <1>2, <2>1, Zenon DEF Failed
  <2>3. proxyJob[j].left - 1 \in Nat
    <3>1. proxyJob[j].left > 0
      BY <1>2, Zenon
    <3>2. proxyJob[j].left \in Nat
      BY <1>1 DEF ProxyJobs
    <3> QED
      BY <3>1, <3>2
  <2>4. proxyJob[j].tab \in Tabs
    BY <1>1, <1>2
  <2>5. JobKnown(again, S) /\ again.tab = proxyJob[j].tab
    <3>1. JobKnown(again, S)
      BY <2>1, <2>3, <2>4, BegunKnown
    <3>2. again.tab = proxyJob[j].tab
      BY <2>1 DEF Begin
    <3> QED
      BY <3>1, <3>2
  <2>6. JobsKnown([proxyJob EXCEPT ![j] = again], S)
    BY <2>4, <2>5, KnownMoves
  <2> QED
    BY <2>2, <2>6
<1>3. CASE ~(proxyJob[j].kind = "loop" /\ proxyJob[j].current /\ proxyJob[j].left > 0)
  <2>1. Failed(j) = [proxyJob EXCEPT ![j] = NoJob]
    BY <1>3, Zenon DEF Failed, JobOver
  <2>2. JobKnown(NoJob, S)
    BY DEF JobKnown
  <2>3. JobsKnown([proxyJob EXCEPT ![j] = NoJob], S)
    BY <2>2, KnownMoves
  <2> QED
    BY <2>1, <2>3
<1> QED
  BY <1>2, <1>3

LEMMA NewLoopKnown ==
  ASSUME NEW S, NEW jobs, JobsKnown(jobs, S), NEW t \in Tabs
  PROVE  /\ JobsKnown(Superseded(jobs), S)
         /\ \A b \in Loops : JobsKnown(NewLoop(jobs, b, t), S)
<1>1. ASSUME NEW k \in Jobs
      PROVE  Superseded(jobs)[k] \in {NoJob} \cup ProxyJobs /\ JobKnown(Superseded(jobs)[k], S)
  <2>1. jobs[k] \in {NoJob} \cup ProxyJobs /\ JobKnown(jobs[k], S)
    BY DEF JobsKnown
  <2>2. CASE k \in Loops /\ jobs[k] # NoJob
    <3>1. Superseded(jobs)[k] = [jobs[k] EXCEPT !.current = jobs[k].kind # "loop"]
      BY <2>2 DEF Superseded
    <3>2. jobs[k] \in ProxyJobs
      BY <2>1, <2>2
    <3>3. /\ Superseded(jobs)[k] \in ProxyJobs
          /\ Superseded(jobs)[k].at = jobs[k].at /\ Superseded(jobs)[k].kind = jobs[k].kind
          /\ Superseded(jobs)[k].tab = jobs[k].tab /\ Superseded(jobs)[k].s = jobs[k].s
      BY <3>1, <3>2 DEF ProxyJobs
    <3> QED
      BY <2>1, <2>2, <3>3 DEF JobKnown
  <2>3. CASE ~(k \in Loops /\ jobs[k] # NoJob)
    BY <2>1, <2>3 DEF Superseded
  <2> QED
    BY <2>2, <2>3
<1>2. JobsKnown(Superseded(jobs), S)
  <2>1. Superseded(jobs) = [k \in Jobs |-> Superseded(jobs)[k]]
    BY DEF Superseded
  <2>2. Superseded(jobs) \in [Jobs -> {NoJob} \cup ProxyJobs]
    BY <1>1, <2>1
  <2>3. "monitor" \in Jobs /\ "monitor" \notin Loops
    BY DebuggerProxyAssumption DEF Jobs, DebuggerProxyAssumption
  <2>4. Superseded(jobs)["monitor"] = jobs["monitor"]
    BY <2>3 DEF Superseded
  <2> QED
    BY <1>1, <2>2, <2>4 DEF JobsKnown
<1>3. ASSUME NEW b \in Loops
      PROVE  JobsKnown(NewLoop(jobs, b, t), S)
  <2>1. PICK loop : loop = [Begin("loop", t) EXCEPT !.left = RestoreAttempts - 1]
    OBVIOUS
  <2>2. NewLoop(jobs, b, t) = [Superseded(jobs) EXCEPT ![b] = loop]
    BY <2>1 DEF NewLoop
  <2>3. RestoreAttempts - 1 \in Nat
    BY DebuggerProxyAssumption DEF DebuggerProxyAssumption
  <2>4. JobKnown(loop, S)
    BY <2>1, <2>3, BegunKnown
  <2>5. b \in Jobs /\ b # "monitor"
    BY DebuggerProxyAssumption DEF Jobs, DebuggerProxyAssumption
  <2>6. JobsKnown([Superseded(jobs) EXCEPT ![b] = loop], S)
    BY <1>2, <2>4, <2>5, KnownMoves
  <2> QED
    BY <2>2, <2>6
<1> QED
  BY <1>2, <1>3

\* A change of one session's attached.
LEMMA AttachedFlag ==
  ASSUME netSessions \in [DebuggerSessionIds -> SessionRecords], NEW i, NEW f \in BOOLEAN
  PROVE  /\ [netSessions EXCEPT ![i].attached = f] \in [DebuggerSessionIds -> SessionRecords]
         /\ \A k \in DebuggerSessionIds :
              /\ [netSessions EXCEPT ![i].attached = f][k].tab = netSessions[k].tab
              /\ [netSessions EXCEPT ![i].attached = f][k].attached = IF k = i THEN f ELSE netSessions[k].attached
<1> DEFINE set == [netSessions[i] EXCEPT !.attached = f]
<1>1. CASE i \in DebuggerSessionIds
  <2>1. set \in SessionRecords /\ set.tab = netSessions[i].tab /\ set.attached = f
    BY <1>1 DEF SessionRecords
  <2>2. [netSessions EXCEPT ![i].attached = f] = [netSessions EXCEPT ![i] = set]
    OBVIOUS
  <2> HIDE DEF set
  <2> QED
    BY <1>1, <2>1, <2>2
<1>2. CASE i \notin DebuggerSessionIds
  BY <1>2
<1> QED
  BY <1>1, <1>2

\* The session a job makes or takes is on a tab, and no other leaves its tab.
LEMMA AcquiredKnown ==
  ASSUME DebuggerProxyAssumption, ProxyTypes, NEW j \in Jobs, proxyJob[j] # NoJob, NEW t \in Tabs,
         NEW now \in {0, activeSession}, Acquire(j, t, now)
  PROVE  /\ netSessions' \in [DebuggerSessionIds -> SessionRecords]
         /\ activeSession' \in 0 .. MaxSessions /\ activeSession' \in Seated'
         /\ Seated \subseteq Seated' /\ JobsKnown(proxyJob', Seated')
<1>0. /\ JobsKnown(proxyJob, Seated) /\ activeSession \in {0} \cup Seated
      /\ monitored[t] \in {0} \cup Seated /\ MaxSessions \in Nat
      /\ netSessions \in [DebuggerSessionIds -> SessionRecords]
  BY DEF ProxyTypes, ProxyTyped, DebuggerProxyAssumption
<1>1. proxyJob[j] \in ProxyJobs /\ proxyJob \in [Jobs -> {NoJob} \cup ProxyJobs]
  BY <1>0 DEF JobsKnown
<1>2. Seated \subseteq DebuggerSessionIds /\ \A i \in DebuggerSessionIds : i \in 0 .. MaxSessions
  BY <1>0 DEF Seated, DebuggerSessionIds
<1>3. ASSUME NEW i \in DebuggerSessionIds, NEW point \in {"attach", "ensured"},
             proxyJob' = [proxyJob EXCEPT ![j].at = point, ![j].tab = t, ![j].s = i],
             activeSession' = i, netSessions' \in [DebuggerSessionIds -> SessionRecords],
             Seated \subseteq Seated', i \in Seated'
      PROVE  /\ netSessions' \in [DebuggerSessionIds -> SessionRecords]
             /\ activeSession' \in 0 .. MaxSessions /\ activeSession' \in Seated'
             /\ Seated \subseteq Seated' /\ JobsKnown(proxyJob', Seated')
  <2>1. PICK duty : duty = [[[proxyJob[j] EXCEPT !.at = point] EXCEPT !.tab = t] EXCEPT !.s = i]
    OBVIOUS
  <2>2. duty \in ProxyJobs /\ duty.at = point /\ duty.tab = t /\ duty.s = i
    <3>1. i \in 0 .. MaxSessions /\ proxyJob[j] \in ProxyJobs
      BY <1>1, <1>2
    <3> QED
      BY <2>1, <3>1 DEF ProxyJobs
  <2>3. proxyJob' = [proxyJob EXCEPT ![j] = duty]
    BY <1>1, <1>3, <2>1
  <2>4. JobKnown(duty, Seated')
    BY <1>3, <2>2 DEF JobKnown
  <2>5. JobsKnown(proxyJob, Seated')
    BY <1>0, <1>3, KnownLonger
  <2>6. JobsKnown([proxyJob EXCEPT ![j] = duty], Seated')
    BY <2>2, <2>4, <2>5, KnownMoves
  <2> QED
    BY <1>2, <1>3, <2>3, <2>6
<1>4. CASE now = 0 /\ monitored[t] = 0
  <2>1. PICK i \in DebuggerSessionIds : i = NewDebuggerSession
    BY <1>4 DEF Acquire, NewDebuggerSession, Unreferenced
  <2>2. /\ activeSession' = i /\ netSessions' = [netSessions EXCEPT ![i] = FreshSession(t)]
        /\ proxyJob' = [proxyJob EXCEPT ![j].at = "attach", ![j].tab = t, ![j].s = i]
    BY <1>4, <2>1 DEF Acquire
  <2>3. FreshSession(t) \in SessionRecords /\ FreshSession(t).tab = t
    BY DEF FreshSession, SessionRecords
  <2>4. /\ netSessions' \in [DebuggerSessionIds -> SessionRecords]
        /\ \A k \in DebuggerSessionIds : netSessions'[k].tab \in {t, netSessions[k].tab}
        /\ netSessions'[i].tab = t
    BY <1>0, <2>2, <2>3
  <2>5. Seated \subseteq Seated' /\ i \in Seated'
    BY <2>4 DEF Seated, TabOf
  <2> QED
    BY <1>3, <2>2, <2>4, <2>5
<1>5. CASE ~(now = 0 /\ monitored[t] = 0)
  <2>1. PICK i : i = IF now # 0 THEN now ELSE monitored[t]
    OBVIOUS
  <2>2. i \in Seated
    BY <1>0, <1>5, <2>1
  <2>3. i \in DebuggerSessionIds
    BY <1>2, <2>2
  <2>4. PICK point \in {"attach", "ensured"} : point = IF ~netSessions[i].attached THEN "attach" ELSE "ensured"
    OBVIOUS
  <2>5. /\ activeSession' = i /\ netSessions' = netSessions
        /\ proxyJob' = [proxyJob EXCEPT ![j].at = point, ![j].tab = t, ![j].s = i]
    BY <1>5, <2>1, <2>4 DEF Acquire
  <2>6. Seated' = Seated
    BY <2>5 DEF Seated, TabOf
  <2> QED
    BY <1>0, <1>3, <2>2, <2>3, <2>5, <2>6
<1> QED
  BY <1>4, <1>5

\* onDetach leaves the sessions on their tabs.
LEMMA DetachKnown ==
  ASSUME DebuggerProxyAssumption, ProxyTypes, NEW t \in Tabs, NEW byUser \in BOOLEAN,
         NEW jobs, JobsKnown(jobs, Seated), OnDetach(t, byUser, jobs)
  PROVE  /\ netSessions' \in [DebuggerSessionIds -> SessionRecords] /\ Seated' = Seated
         /\ monitored' \in [Tabs -> {0} \cup Seated] /\ manual' \subseteq Tabs
         /\ proxyEnabled' \in BOOLEAN /\ JobsKnown(proxyJob', Seated)
<1>0. /\ netSessions \in [DebuggerSessionIds -> SessionRecords] /\ manual \subseteq Tabs
      /\ monitored \in [Tabs -> {0} \cup Seated] /\ proxyEnabled \in BOOLEAN
      /\ activeSession \in {0} \cup Seated /\ Seated \subseteq DebuggerSessionIds
  BY DEF ProxyTypes, ProxyTyped, Seated
<1>1. PICK i : i = SessionOfTab(t)
  OBVIOUS
<1>2. CASE i = 0
  <2>1. proxyJob' = jobs /\ UNCHANGED <<netSessions, monitored, manual, proxyEnabled>>
    BY <1>1, <1>2 DEF OnDetach
  <2> QED
    BY <1>0, <2>1 DEF Seated, TabOf
<1>3. CASE i # 0
  <2>1. i \in DebuggerSessionIds
    BY <1>0, <1>1, <1>3 DEF SessionOfTab, ActiveOn
  <2>2. /\ netSessions' = LostFlags(i) /\ manual' = manual \ {t}
        /\ monitored' = [monitored EXCEPT ![t] = IF @ = i THEN 0 ELSE @]
        /\ proxyEnabled' \in {FALSE, proxyEnabled}
        /\ \/ proxyJob' \in {jobs, Superseded(jobs)}
           \/ \E a, b \in FreeLoops : proxyJob' = NewLoop([jobs EXCEPT ![a] = Begin("reattach", t)], b, t)
    BY <1>1, <1>3 DEF OnDetach
  <2>3. /\ netSessions' \in [DebuggerSessionIds -> SessionRecords]
        /\ \A k \in DebuggerSessionIds : netSessions'[k].tab = netSessions[k].tab
    <3> DEFINE lost == [[netSessions[i] EXCEPT !.attached = FALSE] EXCEPT !.fetch = FALSE]
    <3>1. netSessions' = [netSessions EXCEPT ![i] = lost]
      BY <1>0, <2>1, <2>2 DEF LostFlags
    <3>2. lost \in SessionRecords /\ lost.tab = netSessions[i].tab
      BY <1>0, <2>1 DEF SessionRecords
    <3> HIDE DEF lost
    <3> QED
      BY <1>0, <2>1, <3>1, <3>2
  <2>4. Seated' = Seated
    BY <2>3 DEF Seated, TabOf
  <2>5. ASSUME NEW a \in FreeLoops, NEW b \in FreeLoops,
               proxyJob' = NewLoop([jobs EXCEPT ![a] = Begin("reattach", t)], b, t)
        PROVE  JobsKnown(proxyJob', Seated)
    <3>1. a \in Jobs /\ b \in Loops /\ a # "monitor"
      BY DebuggerProxyAssumption DEF FreeLoops, Jobs, DebuggerProxyAssumption
    <3>2. JobKnown(Begin("reattach", t), Seated)
      BY BegunKnown
    <3>3. JobsKnown([jobs EXCEPT ![a] = Begin("reattach", t)], Seated)
      BY <3>1, <3>2, KnownMoves
    <3> QED
      BY <2>5, <3>1, <3>3, NewLoopKnown
  <2>6. JobsKnown(Superseded(jobs), Seated)
    BY NewLoopKnown
  <2>7. JobsKnown(proxyJob', Seated)
    BY <2>2, <2>5, <2>6
  <2>8. monitored' \in [Tabs -> {0} \cup Seated]
    BY <1>0, <2>2
  <2> QED
    BY <1>0, <2>2, <2>3, <2>4, <2>7, <2>8
<1> QED
  BY <1>2, <1>3

\* A step that makes no session object, and whose jobs are known.
LEMMA ProxyTypesKept ==
  ASSUME DebuggerProxyAssumption, ProxyTypes, netSessions' \in [DebuggerSessionIds -> SessionRecords],
         \A k \in DebuggerSessionIds : netSessions'[k].tab = netSessions[k].tab,
         activeSession' \in {0} \cup Seated, monitored' \in [Tabs -> {0} \cup Seated],
         JobsKnown(proxyJob', Seated), attached' \subseteq Tabs, intercepted' \subseteq attached',
         manual' \subseteq Tabs, selected' \in Tabs, proxyEnabled' \in BOOLEAN, hasRules' \in BOOLEAN
  PROVE  ProxyTypes'
<1>1. Seated' = Seated
  BY DEF Seated, TabOf
<1>2. activeSession' \in 0 .. MaxSessions
  BY DEF Seated, DebuggerSessionIds, DebuggerProxyAssumption
<1>3. ProxyTyped'
  BY <1>2 DEF ProxyTyped
<1>4. JobsKnown(proxyJob', Seated')
  BY <1>1
<1>5. JobsKnown(proxyJob, Seated)'
  BY <1>4
<1> QED
  BY <1>1, <1>3, <1>5 DEF ProxyTypes

\* What every step starts from.
LEMMA ProxyTypesGive ==
  ASSUME DebuggerProxyAssumption, ProxyTypes
  PROVE  /\ netSessions \in [DebuggerSessionIds -> SessionRecords]
         /\ activeSession \in {0} \cup Seated /\ monitored \in [Tabs -> {0} \cup Seated]
         /\ JobsKnown(proxyJob, Seated) /\ proxyJob \in [Jobs -> {NoJob} \cup ProxyJobs]
         /\ attached \subseteq Tabs /\ intercepted \subseteq attached /\ manual \subseteq Tabs
         /\ selected \in Tabs /\ proxyEnabled \in BOOLEAN /\ hasRules \in BOOLEAN
         /\ activeSession \in 0 .. MaxSessions /\ Seated \subseteq DebuggerSessionIds
         /\ 0 \in 0 .. MaxSessions /\ \A i \in DebuggerSessionIds : i \in 0 .. MaxSessions
<1>1. 0 \in 0 .. MaxSessions /\ \A i \in DebuggerSessionIds : i \in 0 .. MaxSessions
  BY DEF DebuggerProxyAssumption, DebuggerSessionIds
<1> QED
  BY <1>1 DEF ProxyTypes, ProxyTyped, JobsKnown, Seated

\* A job that is under way has its shape.
LEMMA JobUnderWay ==
  ASSUME ProxyTypes, NEW j \in Jobs, proxyJob[j].at # "idle"
  PROVE  /\ proxyJob[j] # NoJob /\ proxyJob[j] \in ProxyJobs
         /\ proxyJob[j].kind # "tool" \/ proxyJob[j].at \in {"detach", "switch"} => proxyJob[j].tab \in Tabs
         /\ proxyJob[j].at \in {"attach", "attachMonitor"} => proxyJob[j].s \in Seated
<1>1. JobKnown(proxyJob[j], Seated) /\ NoJob.at = "idle"
  BY DEF ProxyTypes, JobsKnown, NoJob
<1> QED
  BY <1>1 DEF JobKnown

\* A job moves on within its attachment.
LEMMA JobGoesOn ==
  ASSUME NEW S, JobsKnown(proxyJob, S), NEW j \in Jobs, proxyJob[j] \in ProxyJobs,
         NEW point \in {"ensured", "network", "intercept", "release", "disable"},
         NEW i \in 0 .. MaxSessions, NEW on \in BOOLEAN, NEW duty,
         \/ duty = [proxyJob[j] EXCEPT !.at = point]
         \/ duty = [[proxyJob[j] EXCEPT !.at = point] EXCEPT !.s = i]
         \/ duty = [[proxyJob[j] EXCEPT !.at = point] EXCEPT !.on = on]
  PROVE  JobsKnown([proxyJob EXCEPT ![j] = duty], S)
<1>1. duty \in ProxyJobs /\ duty.at = point /\ duty.kind = proxyJob[j].kind /\ duty.tab = proxyJob[j].tab
  BY DEF ProxyJobs
<1>2. JobKnown(proxyJob[j], S) /\ proxyJob[j] # NoJob /\ (j = "monitor" => proxyJob[j].tab \in Tabs)
  <2>1. proxyJob[j] # NoJob
    <3>1. NoJob.at = "idle" /\ proxyJob[j].at # "idle"
      BY DEF ProxyJobs, NoJob
    <3> QED
      BY <3>1
  <2> QED
    BY <2>1 DEF JobsKnown
<1>3. JobKnown(duty, S)
  BY <1>1, <1>2 DEF JobKnown
<1> QED
  BY <1>1, <1>2, <1>3, KnownMoves

LEMMA ProxyTypesJobStep ==
  ASSUME DebuggerProxyAssumption, ProxyTypes, NEW j \in Jobs, JobStep(j) \/ Refuse(j)
  PROVE  ProxyTypes'
<1>0. /\ netSessions \in [DebuggerSessionIds -> SessionRecords]
      /\ activeSession \in {0} \cup Seated /\ monitored \in [Tabs -> {0} \cup Seated]
      /\ JobsKnown(proxyJob, Seated) /\ proxyJob \in [Jobs -> {NoJob} \cup ProxyJobs]
      /\ attached \subseteq Tabs /\ intercepted \subseteq attached /\ manual \subseteq Tabs
      /\ selected \in Tabs /\ proxyEnabled \in BOOLEAN /\ hasRules \in BOOLEAN
      /\ activeSession \in 0 .. MaxSessions /\ Seated \subseteq DebuggerSessionIds
  BY ProxyTypesGive
<1>1. /\ proxyJob[j].at # "idle" /\ proxyJob[j] # NoJob /\ proxyJob[j] \in ProxyJobs
      /\ proxyJob[j].kind # "tool" \/ proxyJob[j].at \in {"detach", "switch"} => proxyJob[j].tab \in Tabs
      /\ proxyJob[j].at \in {"attach", "attachMonitor"} => proxyJob[j].s \in Seated
  <2>1. proxyJob[j].at # "idle"
    BY DEF JobStep, ResolveSession, Switch, Attach, Refuse, Ensured, EnableNetwork, Intercept, Release
  <2> QED
    BY <2>1, JobUnderWay
<1>f. JobsKnown(Failed(j), Seated) /\ JobsKnown([proxyJob EXCEPT ![j] = NoJob], Seated)
  <2>1. JobKnown(NoJob, Seated)
    BY DEF JobKnown
  <2> QED
    BY <1>0, <1>1, <2>1, FailedKnown, KnownMoves
<1>a. ASSUME NEW t \in Tabs, NEW now \in {0, activeSession}, Acquire(j, t, now),
             attached' \subseteq attached, intercepted' \subseteq attached',
             UNCHANGED <<selected, monitored, proxyEnabled, hasRules, manual>>
      PROVE  ProxyTypes'
  <2>1. /\ netSessions' \in [DebuggerSessionIds -> SessionRecords]
        /\ activeSession' \in 0 .. MaxSessions /\ activeSession' \in Seated'
        /\ Seated \subseteq Seated' /\ JobsKnown(proxyJob', Seated')
    BY <1>1, <1>a, AcquiredKnown
  <2>2. JobsKnown(proxyJob, Seated)'
    BY <2>1
  <2>3. ProxyTyped'
    BY <1>0, <1>a, <2>1 DEF ProxyTyped
  <2>4. monitored' \in [Tabs -> {0} \cup Seated']
    BY <1>0, <1>a, <2>1
  <2> QED
    BY <1>0, <1>a, <2>1, <2>2, <2>3, <2>4 DEF ProxyTypes
<1>b. ASSUME JobsKnown(proxyJob', Seated), UNCHANGED <<netSessions, activeSession, monitored, selected, proxyEnabled, hasRules, manual>>,
             attached' \subseteq Tabs, intercepted' \subseteq attached'
      PROVE  ProxyTypes'
  BY <1>0, <1>b, ProxyTypesKept
<1>3. CASE ResolveSession(j)
  <2>1. PICK t : t = IF proxyJob[j].kind = "tool" THEN selected ELSE proxyJob[j].tab
    OBVIOUS
  <2>2. t \in Tabs
    BY <1>0, <1>1, <2>1
  <2>3. UNCHANGED <<attached, intercepted, selected, monitored, proxyEnabled, hasRules, manual>>
    BY <1>3 DEF ResolveSession, chromeVars
  <2>4. \/ Acquire(j, t, activeSession)
        \/ Acquire(j, t, 0)
        \/ /\ proxyJob' = [proxyJob EXCEPT ![j].at = "switch", ![j].tab = t, ![j].s = activeSession]
           /\ UNCHANGED <<netSessions, activeSession>>
    BY <1>3, <2>1 DEF ResolveSession
  <2>5. CASE Acquire(j, t, activeSession) \/ Acquire(j, t, 0)
    BY <1>0, <1>a, <2>2, <2>3, <2>5
  <2>6. CASE /\ proxyJob' = [proxyJob EXCEPT ![j].at = "switch", ![j].tab = t, ![j].s = activeSession]
             /\ UNCHANGED <<netSessions, activeSession>>
    <3>1. PICK duty : duty = [[[proxyJob[j] EXCEPT !.at = "switch"] EXCEPT !.tab = t] EXCEPT !.s = activeSession]
      OBVIOUS
    <3>2. duty \in ProxyJobs /\ duty.at = "switch" /\ duty.tab = t
      BY <1>0, <1>1, <2>2, <3>1 DEF ProxyJobs
    <3>3. proxyJob' = [proxyJob EXCEPT ![j] = duty]
      BY <1>0, <2>6, <3>1
    <3>4. JobKnown(duty, Seated)
      BY <2>2, <3>2 DEF JobKnown
    <3>5. JobsKnown(proxyJob', Seated)
      BY <1>0, <2>2, <3>2, <3>3, <3>4, KnownMoves
    <3> QED
      BY <1>0, <1>b, <2>3, <2>6, <3>5
  <2> QED
    BY <2>4, <2>5, <2>6
<1>4. CASE Switch(j)
  <2>1. attached' \subseteq attached /\ intercepted' \subseteq attached'
    BY <1>0, <1>4 DEF Switch, Detached
  <2>2. proxyJob[j].tab \in Tabs
    BY <1>1, <1>4 DEF Switch
  <2> QED
    BY <1>4, <1>a, <2>1, <2>2 DEF Switch
<1>5. CASE Attach(j)
  <2>1. PICK t \in Tabs : t = TabOf(proxyJob[j].s)
    BY <1>1, <1>5 DEF Attach, Seated
  <2>2. /\ attached' \subseteq attached \cup {t} /\ attached \subseteq attached'
        /\ UNCHANGED <<intercepted, activeSession, monitored, selected, proxyEnabled, hasRules, manual>>
    BY <1>5, <2>1 DEF Attach
  <2>3. \/ proxyJob' = Failed(j) /\ UNCHANGED netSessions
        \/ /\ netSessions' = [netSessions EXCEPT ![activeSession].attached = TRUE]
           /\ proxyJob' = [proxyJob EXCEPT ![j].at = "ensured"]
    BY <1>5 DEF Attach
  <2>4. CASE proxyJob' = Failed(j) /\ UNCHANGED netSessions
    BY <1>0, <1>b, <1>f, <2>2, <2>4
  <2>5. CASE /\ netSessions' = [netSessions EXCEPT ![activeSession].attached = TRUE]
             /\ proxyJob' = [proxyJob EXCEPT ![j].at = "ensured"]
    <3>1. PICK duty : duty = [proxyJob[j] EXCEPT !.at = "ensured"]
      OBVIOUS
    <3>2. proxyJob' = [proxyJob EXCEPT ![j] = duty]
      BY <2>5, <3>1
    <3>3. JobsKnown([proxyJob EXCEPT ![j] = duty], Seated)
      BY <1>0, <1>1, <3>1, JobGoesOn
    <3>4. /\ netSessions' \in [DebuggerSessionIds -> SessionRecords]
          /\ \A k \in DebuggerSessionIds : netSessions'[k].tab = netSessions[k].tab
      BY <1>0, <2>5, AttachedFlag
    <3> QED
      BY <1>0, <2>2, <3>2, <3>3, <3>4, ProxyTypesKept
  <2> QED
    BY <2>3, <2>4, <2>5
<1>6. CASE Refuse(j)
  BY <1>0, <1>6, <1>b, <1>f DEF Refuse, chromeVars
<1>7. CASE Ensured(j)
  <2>1. CASE activeSession = 0
    BY <1>0, <1>7, <1>b, <1>f, <2>1 DEF Ensured, chromeVars
  <2>2. CASE activeSession # 0
    <3>1. PICK duty : duty = [[proxyJob[j] EXCEPT !.at = "network"] EXCEPT !.s = activeSession]
      OBVIOUS
    <3>2. proxyJob' = [proxyJob EXCEPT ![j] = duty]
      BY <1>0, <1>7, <2>2, <3>1 DEF Ensured
    <3>3. JobsKnown([proxyJob EXCEPT ![j] = duty], Seated)
      BY <1>0, <1>1, <3>1, JobGoesOn
    <3> QED
      BY <1>0, <1>7, <1>b, <3>2, <3>3 DEF Ensured, chromeVars
  <2> QED
    BY <2>1, <2>2
<1>8. CASE EnableNetwork(j)
  <2>1. CASE TabOf(proxyJob[j].s) \notin attached
    BY <1>0, <1>8, <1>b, <1>f, <2>1 DEF EnableNetwork, chromeVars
  <2>2. CASE TabOf(proxyJob[j].s) \in attached
    <3>1. PICK point \in {"intercept", "release"} : point = IF proxyEnabled /\ hasRules THEN "intercept" ELSE "release"
      BY Zenon
    <3>2. proxyJob' = [proxyJob EXCEPT ![j].at = point, ![j].on = hasRules]
      BY <1>8, <2>2, <3>1, Zenon DEF EnableNetwork
    <3>3. PICK duty : duty = [[proxyJob[j] EXCEPT !.at = point] EXCEPT !.on = hasRules]
      OBVIOUS
    <3>4. proxyJob' = [proxyJob EXCEPT ![j] = duty]
      BY <1>0, <3>2, <3>3
    <3>5. JobsKnown([proxyJob EXCEPT ![j] = duty], Seated)
      BY <1>0, <1>1, <3>3, JobGoesOn
    <3> QED
      BY <1>0, <1>8, <1>b, <3>4, <3>5 DEF EnableNetwork, chromeVars
  <2> QED
    BY <2>1, <2>2
<1>9. CASE Intercept(j) \/ Release(j)
  <2>1. UNCHANGED <<attached, selected, activeSession, monitored, proxyEnabled, hasRules, manual>>
    BY <1>9 DEF Intercept, Release
  <2>2. intercepted' \subseteq attached
    BY <1>0, <1>9 DEF Intercept, Release
  <2>3. JobsKnown(proxyJob', Seated)
    BY <1>9, <1>f DEF Intercept, Release, FetchApplied
  <2>4. PICK f \in BOOLEAN : f = (proxyEnabled /\ proxyJob[j].on)
    OBVIOUS
  <2>5. PICK i : i = proxyJob[j].s
    OBVIOUS
  <2>6. UNCHANGED netSessions \/ netSessions' = [netSessions EXCEPT ![i].fetch = f]
    BY <1>9, <2>4, <2>5, Zenon DEF Intercept, Release, FetchApplied
  <2>7. /\ netSessions' \in [DebuggerSessionIds -> SessionRecords]
        /\ \A k \in DebuggerSessionIds : netSessions'[k].tab = netSessions[k].tab
    <3>1. CASE UNCHANGED netSessions
      BY <1>0, <3>1
    <3>2. CASE netSessions' = [netSessions EXCEPT ![i].fetch = f]
      <4>1. /\ [netSessions EXCEPT ![i].fetch = f] \in [DebuggerSessionIds -> SessionRecords]
            /\ \A k \in DebuggerSessionIds : [netSessions EXCEPT ![i].fetch = f][k].tab = netSessions[k].tab
        BY <1>0, FetchFlag
      <4> QED
        BY <3>2, <4>1
    <3> QED
      BY <2>6, <3>1, <3>2
  <2> QED
    BY <1>0, <2>1, <2>2, <2>3, <2>7, ProxyTypesKept
<1> QED
  BY <1>3, <1>4, <1>5, <1>6, <1>7, <1>8, <1>9 DEF JobStep

\* Tools, loads and detachments.
LEMMA ProxyTypesToolStep ==
  ASSUME DebuggerProxyAssumption, ProxyTypes,
         \/ EnableProxy \/ DisableProxy \/ RemoveRules \/ TabLoads \/ ToolStep
         \/ \E t \in Tabs : DetachDebugger(t) \/ ChromeDetaches(t, TRUE) \/ ChromeDetaches(t, FALSE)
  PROVE  ProxyTypes'
<1>0. /\ netSessions \in [DebuggerSessionIds -> SessionRecords]
      /\ activeSession \in {0} \cup Seated /\ monitored \in [Tabs -> {0} \cup Seated]
      /\ JobsKnown(proxyJob, Seated) /\ proxyJob \in [Jobs -> {NoJob} \cup ProxyJobs]
      /\ attached \subseteq Tabs /\ intercepted \subseteq attached /\ manual \subseteq Tabs
      /\ selected \in Tabs /\ proxyEnabled \in BOOLEAN /\ hasRules \in BOOLEAN
      /\ activeSession \in 0 .. MaxSessions /\ "tool" \in Jobs
  BY ProxyTypesGive DEF Jobs
<1>1. JobKnown(NoJob, Seated)
  BY DEF JobKnown
<1>over. JobsKnown([proxyJob EXCEPT !["tool"] = NoJob], Seated)
  BY <1>0, <1>1, KnownMoves
<1>b. ASSUME JobsKnown(proxyJob', Seated), UNCHANGED <<netSessions, activeSession, monitored, selected>>,
             attached' \subseteq attached, intercepted' \subseteq attached', manual' \subseteq Tabs,
             proxyEnabled' \in BOOLEAN, hasRules' \in BOOLEAN
      PROVE  ProxyTypes'
  BY <1>0, <1>b, ProxyTypesKept
<1>2. ASSUME NEW point \in {"resolve", "saved", "removed", "detach"}, NEW t \in Tabs \cup {NoTab},
             point = "detach" => t \in Tabs, CallProxyTool(point, t), manual' \subseteq Tabs,
             proxyEnabled' \in BOOLEAN, hasRules' \in BOOLEAN
      PROVE  ProxyTypes'
  <2>1. PICK duty : duty = [Begin("tool", t) EXCEPT !.at = point]
    OBVIOUS
  <2>2. Begin("tool", t) \in ProxyJobs /\ Begin("tool", t).kind = "tool" /\ Begin("tool", t).tab = t
    <3>1. Begin("tool", t) \in ProxyJobs
      BY BegunReady
    <3> QED
      BY <3>1 DEF Begin
  <2>3. duty \in ProxyJobs /\ duty.at = point /\ duty.kind = "tool" /\ duty.tab = t
    BY <2>1, <2>2 DEF ProxyJobs
  <2>4. JobKnown(duty, Seated)
    BY <1>2, <2>3 DEF JobKnown
  <2>5. JobsKnown([proxyJob EXCEPT !["tool"] = duty], Seated)
    BY <1>0, <2>4, KnownMoves
  <2>6. proxyJob' = [proxyJob EXCEPT !["tool"] = duty]
    BY <1>2, <2>1 DEF CallProxyTool
  <2> QED
    BY <1>0, <1>2, <1>b, <2>5, <2>6 DEF CallProxyTool, chromeVars
<1>3. CASE EnableProxy
  <2>1. CallProxyTool("resolve", NoTab) /\ manual' \subseteq Tabs /\ proxyEnabled' \in BOOLEAN /\ hasRules' \in BOOLEAN
    BY <1>0, <1>3 DEF EnableProxy
  <2> QED
    BY <1>2, <2>1
<1>4. CASE DisableProxy
  <2>1. CallProxyTool("saved", NoTab) /\ manual' \subseteq Tabs /\ proxyEnabled' \in BOOLEAN /\ hasRules' \in BOOLEAN
    BY <1>0, <1>4 DEF DisableProxy
  <2> QED
    BY <1>2, <2>1
<1>5. CASE RemoveRules
  <2>1. CallProxyTool("removed", NoTab) /\ manual' \subseteq Tabs /\ proxyEnabled' \in BOOLEAN /\ hasRules' \in BOOLEAN
    BY <1>0, <1>5 DEF RemoveRules
  <2> QED
    BY <1>2, <2>1
<1>6. ASSUME NEW t \in Tabs, DetachDebugger(t)
      PROVE  ProxyTypes'
  <2>1. CallProxyTool("detach", t) /\ manual' \subseteq Tabs /\ proxyEnabled' \in BOOLEAN /\ hasRules' \in BOOLEAN
    BY <1>0, <1>6 DEF DetachDebugger
  <2> QED
    BY <1>2, <2>1
<1>7. CASE TabLoads
  <2>1. PICK j \in FreeLoops : proxyJob' = NewLoop(proxyJob, j, selected)
    BY <1>7 DEF TabLoads
  <2>2. JobsKnown(proxyJob', Seated)
    BY <1>0, <2>1, NewLoopKnown DEF FreeLoops
  <2> QED
    BY <1>0, <1>7, <1>b, <2>2 DEF TabLoads, chromeVars
<1>8. CASE DisableFetch \/ ApplyRemoval
  <2>1. proxyJob["tool"] \in ProxyJobs
    BY <1>0, <1>8, JobUnderWay DEF DisableFetch, ApplyRemoval
  <2>2. ASSUME NEW point \in {"disable", "release"},
               proxyJob' = [proxyJob EXCEPT !["tool"] = [@ EXCEPT !.at = point, !.s = activeSession]]
        PROVE  JobsKnown(proxyJob', Seated)
    <3>1. PICK duty : duty = [[proxyJob["tool"] EXCEPT !.at = point] EXCEPT !.s = activeSession]
      OBVIOUS
    <3>2. proxyJob' = [proxyJob EXCEPT !["tool"] = duty]
      BY <1>0, <2>2, <3>1
    <3>3. JobsKnown([proxyJob EXCEPT !["tool"] = duty], Seated)
      BY <1>0, <2>1, <3>1, JobGoesOn
    <3> QED
      BY <3>2, <3>3
  <2>3. \/ proxyJob' = [proxyJob EXCEPT !["tool"] = NoJob]
        \/ \E point \in {"disable", "release"} :
             proxyJob' = [proxyJob EXCEPT !["tool"] = [@ EXCEPT !.at = point, !.s = activeSession]]
    BY <1>8 DEF DisableFetch, ApplyRemoval
  <2>4. JobsKnown(proxyJob', Seated)
    BY <1>over, <2>2, <2>3
  <2> QED
    BY <1>0, <1>8, <1>b, <2>4 DEF DisableFetch, ApplyRemoval, chromeVars
<1>9. CASE FetchDisabled
  <2>1. /\ JobsKnown(proxyJob', Seated)
        /\ UNCHANGED <<attached, selected, activeSession, monitored, proxyEnabled, hasRules, manual>>
        /\ UNCHANGED netSessions \/ netSessions' = [netSessions EXCEPT ![activeSession].fetch = FALSE]
        /\ intercepted' \subseteq attached
    BY <1>0, <1>9, <1>over DEF FetchDisabled
  <2>2. /\ netSessions' \in [DebuggerSessionIds -> SessionRecords]
        /\ \A k \in DebuggerSessionIds : netSessions'[k].tab = netSessions[k].tab
    <3>1. /\ [netSessions EXCEPT ![activeSession].fetch = FALSE] \in [DebuggerSessionIds -> SessionRecords]
          /\ \A k \in DebuggerSessionIds : [netSessions EXCEPT ![activeSession].fetch = FALSE][k].tab = netSessions[k].tab
      BY <1>0, FetchFlag
    <3> QED
      BY <1>0, <2>1, <3>1
  <2> QED
    BY <1>0, <2>1, <2>2, ProxyTypesKept
<1>10. ASSUME NEW t \in Tabs, NEW byUser \in BOOLEAN, NEW jobs, JobsKnown(jobs, Seated),
              OnDetach(t, byUser, jobs), Detached(t), UNCHANGED <<selected, hasRules>>,
              activeSession' \in {0, activeSession}
       PROVE  ProxyTypes'
  <2>1. /\ netSessions' \in [DebuggerSessionIds -> SessionRecords] /\ Seated' = Seated
        /\ monitored' \in [Tabs -> {0} \cup Seated] /\ manual' \subseteq Tabs
        /\ proxyEnabled' \in BOOLEAN /\ JobsKnown(proxyJob', Seated)
    BY <1>10, DetachKnown
  <2>2. attached' \subseteq attached /\ intercepted' \subseteq attached'
    BY <1>0, <1>10 DEF Detached
  <2>3. activeSession' \in 0 .. MaxSessions /\ activeSession' \in {0} \cup Seated
    <3>1. 0 \in 0 .. MaxSessions
      BY ProxyTypesGive
    <3> QED
      BY <1>0, <1>10, <3>1
  <2>4. ProxyTyped'
    BY <1>0, <1>10, <2>1, <2>3 DEF ProxyTyped
  <2>5. JobsKnown(proxyJob, Seated)'
    BY <2>1
  <2> QED
    BY <1>0, <2>1, <2>2, <2>3, <2>4, <2>5 DEF ProxyTypes
<1>11. CASE ToolDetached
  <2>1. PICK t : t = proxyJob["tool"].tab
    OBVIOUS
  <2>2. PICK over : over = [proxyJob EXCEPT !["tool"] = NoJob]
    OBVIOUS
  <2>3. t \in Tabs
    BY <1>0, <1>11, <2>1, JobUnderWay DEF ToolDetached
  <2>4. UNCHANGED <<selected, hasRules>> /\ activeSession' \in {0, activeSession}
    BY <1>11 DEF ToolDetached
  <2>5. \/ Detached(t) /\ OnDetach(t, FALSE, over)
        \/ /\ proxyJob' = over /\ UNCHANGED <<netSessions, monitored, proxyEnabled>>
           /\ manual' \subseteq manual
           /\ Detached(t) \/ UNCHANGED <<attached, intercepted>>
    BY <1>11, <2>1, <2>2 DEF ToolDetached
  <2>6. CASE Detached(t) /\ OnDetach(t, FALSE, over)
    BY <1>10, <1>over, <2>2, <2>3, <2>4, <2>6
  <2>7. CASE /\ proxyJob' = over /\ UNCHANGED <<netSessions, monitored, proxyEnabled>>
             /\ manual' \subseteq manual
             /\ Detached(t) \/ UNCHANGED <<attached, intercepted>>
    <3>1. attached' \subseteq attached /\ intercepted' \subseteq attached'
      BY <1>0, <2>7 DEF Detached
    <3>2. activeSession' \in {0} \cup Seated /\ JobsKnown(proxyJob', Seated)
      BY <1>0, <1>over, <2>2, <2>4, <2>7
    <3> QED
      BY <1>0, <2>4, <2>7, <3>1, <3>2, ProxyTypesKept
  <2> QED
    BY <2>5, <2>6, <2>7
<1>12. ASSUME NEW t \in Tabs, NEW byUser \in BOOLEAN, ChromeDetaches(t, byUser)
       PROVE  ProxyTypes'
  BY <1>0, <1>10, <1>12 DEF ChromeDetaches
<1> QED
  BY <1>3, <1>4, <1>5, <1>6, <1>7, <1>8, <1>9, <1>11, <1>12 DEF ToolStep

\* Monitors.
LEMMA ProxyTypesMonitorStep ==
  ASSUME DebuggerProxyAssumption, ProxyTypes,
         \/ ResolveMonitor \/ AttachMonitor \/ MonitorDetached
         \/ \E t \in Tabs : StartMonitor(t) \/ StopMonitor(t)
  PROVE  ProxyTypes'
<1>0. /\ netSessions \in [DebuggerSessionIds -> SessionRecords]
      /\ activeSession \in {0} \cup Seated /\ monitored \in [Tabs -> {0} \cup Seated]
      /\ JobsKnown(proxyJob, Seated) /\ proxyJob \in [Jobs -> {NoJob} \cup ProxyJobs]
      /\ attached \subseteq Tabs /\ intercepted \subseteq attached /\ manual \subseteq Tabs
      /\ selected \in Tabs /\ proxyEnabled \in BOOLEAN /\ hasRules \in BOOLEAN
      /\ activeSession \in 0 .. MaxSessions /\ "monitor" \in Jobs
      /\ Seated \subseteq DebuggerSessionIds /\ \A i \in DebuggerSessionIds : i \in 0 .. MaxSessions
  BY ProxyTypesGive DEF Jobs
<1>over. JobsKnown([proxyJob EXCEPT !["monitor"] = NoJob], Seated)
  <2>1. JobKnown(NoJob, Seated)
    BY DEF JobKnown
  <2> QED
    BY <1>0, <2>1, KnownMoves
<1>1. ASSUME proxyJob["monitor"].at # "idle"
      PROVE  /\ proxyJob["monitor"] \in ProxyJobs /\ proxyJob["monitor"].tab \in Tabs
             /\ proxyJob["monitor"].at \in {"attach", "attachMonitor"} => proxyJob["monitor"].s \in Seated
  <2>1. /\ proxyJob["monitor"] # NoJob /\ proxyJob["monitor"] \in ProxyJobs
        /\ proxyJob["monitor"].at \in {"attach", "attachMonitor"} => proxyJob["monitor"].s \in Seated
    BY <1>0, <1>1, JobUnderWay
  <2> QED
    BY <1>0, <2>1 DEF JobsKnown
<1>2. CASE ResolveMonitor
  <2>1. proxyJob["monitor"] \in ProxyJobs /\ proxyJob["monitor"].tab \in Tabs
    BY <1>1, <1>2 DEF ResolveMonitor
  <2>2. PICK t \in Tabs : t = proxyJob["monitor"].tab
    BY <2>1
  <2>3. PICK i : i = IF SessionOfTab(t) # 0 THEN SessionOfTab(t) ELSE NewDebuggerSession
    OBVIOUS
  <2>4. i \in DebuggerSessionIds
    <3>1. CASE SessionOfTab(t) # 0
      BY <1>0, <2>3, <3>1 DEF SessionOfTab, ActiveOn
    <3>2. CASE SessionOfTab(t) = 0
      <4>1. Unreferenced # {}
        BY <1>2, <2>2, <3>2 DEF ResolveMonitor
      <4> QED
        BY <2>3, <3>2, <4>1 DEF NewDebuggerSession, Unreferenced
    <3> QED
      BY <3>1, <3>2
  <2>5. PICK seat \in SessionRecords :
          /\ seat = IF SessionOfTab(t) # 0 THEN netSessions[i] ELSE FreshSession(t)
          /\ seat.tab \in {t, netSessions[i].tab}
    <3>1. FreshSession(t) \in SessionRecords /\ FreshSession(t).tab = t
      BY DEF FreshSession, SessionRecords
    <3> QED
      BY <1>0, <2>4, <3>1
  <2>6. /\ netSessions' = [netSessions EXCEPT ![i] = seat]
        /\ \/ monitored' = [monitored EXCEPT ![t] = i] /\ proxyJob' = [proxyJob EXCEPT !["monitor"] = NoJob]
           \/ proxyJob' = [proxyJob EXCEPT !["monitor"].at = "attachMonitor", !["monitor"].s = i] /\ UNCHANGED monitored
        /\ UNCHANGED <<attached, intercepted, selected, activeSession, proxyEnabled, hasRules, manual>>
    BY <1>0, <1>2, <2>2, <2>3, <2>4, <2>5 DEF ResolveMonitor, chromeVars
  <2>7. /\ netSessions' \in [DebuggerSessionIds -> SessionRecords]
        /\ \A k \in DebuggerSessionIds : netSessions'[k].tab \in {t, netSessions[k].tab}
        /\ netSessions'[i].tab = seat.tab
    BY <1>0, <2>4, <2>5, <2>6
  <2>8. Seated \subseteq Seated' /\ i \in Seated'
    <3>1. Seated \subseteq Seated'
      BY <2>7 DEF Seated, TabOf
    <3>2. CASE SessionOfTab(t) # 0
      <4>1. i \in Seated
        BY <1>0, <2>3, <3>2 DEF SessionOfTab, ActiveOn
      <4> QED
        BY <3>1, <4>1
    <3>3. CASE SessionOfTab(t) = 0
      <4>1. seat.tab = t
        BY <2>5, <3>3 DEF FreshSession
      <4> QED
        BY <2>4, <2>7, <3>1, <4>1 DEF Seated, TabOf
    <3> QED
      BY <3>1, <3>2, <3>3
  <2>9. JobsKnown(proxyJob', Seated')
    <3>1. PICK duty : duty = [[proxyJob["monitor"] EXCEPT !.at = "attachMonitor"] EXCEPT !.s = i]
      OBVIOUS
    <3>2. duty \in ProxyJobs /\ duty.at = "attachMonitor" /\ duty.s = i /\ duty.tab = t
      <4>1. i \in 0 .. MaxSessions
        BY <1>0, <2>4
      <4> QED
        BY <2>1, <2>2, <3>1, <4>1 DEF ProxyJobs
    <3>3. JobKnown(duty, Seated')
      BY <2>8, <3>2 DEF JobKnown
    <3>4. JobsKnown(proxyJob, Seated') /\ JobsKnown([proxyJob EXCEPT !["monitor"] = NoJob], Seated')
      BY <1>0, <1>over, <2>8, KnownLonger
    <3>5. JobsKnown([proxyJob EXCEPT !["monitor"] = duty], Seated')
      BY <1>0, <3>2, <3>3, <3>4, KnownMoves
    <3>6. \/ proxyJob' = [proxyJob EXCEPT !["monitor"] = NoJob]
          \/ proxyJob' = [proxyJob EXCEPT !["monitor"] = duty]
      BY <1>0, <2>6, <3>1
    <3> QED
      BY <3>4, <3>5, <3>6
  <2>10. monitored' \in [Tabs -> {0} \cup Seated']
    BY <1>0, <2>6, <2>8
  <2>11. ProxyTyped' /\ activeSession' \in {0} \cup Seated'
    BY <1>0, <2>6, <2>7, <2>8 DEF ProxyTyped
  <2>12. JobsKnown(proxyJob, Seated)'
    BY <2>9
  <2> QED
    BY <1>0, <2>6, <2>10, <2>11, <2>12 DEF ProxyTypes
<1>3. CASE AttachMonitor
  <2>1. PICK t, i : t = proxyJob["monitor"].tab /\ i = proxyJob["monitor"].s
    OBVIOUS
  <2>2. t \in Tabs /\ i \in Seated
    BY <1>1, <1>3, <2>1 DEF AttachMonitor
  <2>3. /\ \/ UNCHANGED <<attached, netSessions, monitored>>
           \/ /\ attached' = attached \cup {t}
              /\ netSessions' = [netSessions EXCEPT ![i].attached = TRUE]
              /\ monitored' = [monitored EXCEPT ![t] = i]
        /\ proxyJob' = [proxyJob EXCEPT !["monitor"] = NoJob]
        /\ UNCHANGED <<intercepted, selected, activeSession, proxyEnabled, hasRules, manual>>
    BY <1>3, <2>1 DEF AttachMonitor
  <2>4. /\ netSessions' \in [DebuggerSessionIds -> SessionRecords]
        /\ \A k \in DebuggerSessionIds : netSessions'[k].tab = netSessions[k].tab
    <3>1. /\ [netSessions EXCEPT ![i].attached = TRUE] \in [DebuggerSessionIds -> SessionRecords]
          /\ \A k \in DebuggerSessionIds : [netSessions EXCEPT ![i].attached = TRUE][k].tab = netSessions[k].tab
      BY <1>0, AttachedFlag
    <3> QED
      BY <1>0, <2>3, <3>1
  <2>5. monitored' \in [Tabs -> {0} \cup Seated] /\ attached' \subseteq Tabs /\ attached \subseteq attached'
    BY <1>0, <2>2, <2>3
  <2> QED
    BY <1>0, <1>over, <2>3, <2>4, <2>5, ProxyTypesKept
<1>4. CASE MonitorDetached
  <2>1. PICK t, i : t = proxyJob["monitor"].tab /\ i = proxyJob["monitor"].s
    OBVIOUS
  <2>2. /\ Detached(t) /\ netSessions' = [netSessions EXCEPT ![i].attached = FALSE]
        /\ proxyJob' = [proxyJob EXCEPT !["monitor"] = NoJob]
        /\ UNCHANGED <<selected, activeSession, monitored, proxyEnabled, hasRules, manual>>
    BY <1>4, <2>1 DEF MonitorDetached
  <2>3. /\ netSessions' \in [DebuggerSessionIds -> SessionRecords]
        /\ \A k \in DebuggerSessionIds : netSessions'[k].tab = netSessions[k].tab
    <3>1. /\ [netSessions EXCEPT ![i].attached = FALSE] \in [DebuggerSessionIds -> SessionRecords]
          /\ \A k \in DebuggerSessionIds : [netSessions EXCEPT ![i].attached = FALSE][k].tab = netSessions[k].tab
      BY <1>0, AttachedFlag
    <3> QED
      BY <2>2, <3>1
  <2>4. attached' \subseteq Tabs /\ intercepted' \subseteq attached'
    BY <1>0, <2>2 DEF Detached
  <2> QED
    BY <1>0, <1>over, <2>2, <2>3, <2>4, ProxyTypesKept
<1>5. ASSUME NEW t \in Tabs, StartMonitor(t)
      PROVE  ProxyTypes'
  <2>1. JobKnown(Begin("monitor", t), Seated) /\ Begin("monitor", t).tab = t
    <3>1. JobKnown(Begin("monitor", t), Seated)
      BY BegunKnown
    <3> QED
      BY <3>1 DEF Begin
  <2>2. JobsKnown([proxyJob EXCEPT !["monitor"] = Begin("monitor", t)], Seated)
    BY <1>0, <2>1, KnownMoves
  <2> QED
    BY <1>0, <1>5, <2>2, ProxyTypesKept DEF StartMonitor, chromeVars
<1>6. ASSUME NEW t \in Tabs, StopMonitor(t)
      PROVE  ProxyTypes'
  <2>1. PICK i \in 0 .. MaxSessions : i = monitored[t]
    BY <1>0, ProxyTypesGive
  <2>2. PICK duty : duty = [[Begin("monitor", t) EXCEPT !.at = "detachMonitor"] EXCEPT !.s = i]
    OBVIOUS
  <2>3. duty \in ProxyJobs /\ duty.at = "detachMonitor" /\ duty.tab = t
    <3>1. Begin("monitor", t) \in ProxyJobs
      BY BegunReady
    <3>2. Begin("monitor", t).tab = t
      BY DEF Begin
    <3> QED
      BY <2>2, <3>1, <3>2 DEF ProxyJobs
  <2>4. JobKnown(duty, Seated)
    BY <2>3 DEF JobKnown
  <2>5. JobsKnown([proxyJob EXCEPT !["monitor"] = duty], Seated)
    BY <1>0, <2>3, <2>4, KnownMoves
  <2>6. \/ proxyJob' = [proxyJob EXCEPT !["monitor"] = NoJob]
        \/ proxyJob' = [proxyJob EXCEPT !["monitor"] = duty]
    BY <1>6, <2>1, <2>2 DEF StopMonitor
  <2>7. JobsKnown(proxyJob', Seated)
    BY <1>over, <2>5, <2>6
  <2>8. /\ monitored' \in [Tabs -> {0} \cup Seated]
        /\ UNCHANGED <<attached, intercepted, netSessions, selected, activeSession, proxyEnabled, hasRules, manual>>
    BY <1>0, <1>6 DEF StopMonitor, chromeVars
  <2> QED
    BY <1>0, <2>7, <2>8, ProxyTypesKept
<1> QED
  BY <1>2, <1>3, <1>4, <1>5, <1>6

LEMMA ProxyTypesStep ==
  ASSUME DebuggerProxyAssumption, ProxyTypes, [ProxyNext]_proxyVars
  PROVE  ProxyTypes'
<1>0. /\ netSessions \in [DebuggerSessionIds -> SessionRecords]
      /\ activeSession \in {0} \cup Seated /\ monitored \in [Tabs -> {0} \cup Seated]
      /\ JobsKnown(proxyJob, Seated)
      /\ attached \subseteq Tabs /\ intercepted \subseteq attached /\ manual \subseteq Tabs
      /\ selected \in Tabs /\ proxyEnabled \in BOOLEAN /\ hasRules \in BOOLEAN
  BY ProxyTypesGive
<1>1. ASSUME UNCHANGED <<attached, intercepted, netSessions, activeSession, monitored, proxyEnabled, hasRules,
                         manual, proxyJob>>, selected' \in Tabs
      PROVE  ProxyTypes'
  BY <1>0, <1>1, ProxyTypesKept
<1>2. ASSUME NEW t \in Tabs, SelectTab(t)
      PROVE  ProxyTypes'
  BY <1>1, <1>2 DEF SelectTab, chromeVars
<1>3. ASSUME NEW r \in Requests, AnswerRequest(r) \/ RefuseAlteration(r) \/ \E t \in Tabs : PauseRequest(r, t)
      PROVE  ProxyTypes'
  BY <1>0, <1>1, <1>3 DEF AnswerRequest, RefuseAlteration, PauseRequest
<1>4. CASE UNCHANGED proxyVars
  BY <1>0, <1>1, <1>4 DEF proxyVars
<1> QED
  BY <1>2, <1>3, <1>4, ProxyTypesJobStep, ProxyTypesToolStep, ProxyTypesMonitorStep DEF ProxyNext

LEMMA ProxyTypesStart ==
  ASSUME DebuggerProxyAssumption, ProxyInit
  PROVE  HeldInv /\ ProxyTypes
<1>1. HeldInv
  BY DEF ProxyInit, HeldInv, RequestsKnown, NoRequestStuck
<1>2. JobsKnown(proxyJob, Seated)
  BY DEF ProxyInit, JobsKnown, JobKnown, Jobs
<1>3. ProxyTyped
  <2>1. Unused \in SessionRecords
    BY DEF Unused, SessionRecords
  <2>2. 0 \in 0 .. MaxSessions
    BY DEF DebuggerProxyAssumption
  <2> QED
    BY <2>1, <2>2 DEF ProxyInit, ProxyTyped
<1> QED
  BY <1>1, <1>2, <1>3 DEF ProxyInit, ProxyTypes

LEMMA ProxyTypesHold ==
  ASSUME DebuggerProxyAssumption, HeldInv, ProxyTypes
  PROVE  ProxyTypeOK
<1>1. monitored \in [Tabs -> 0 .. MaxSessions]
  <2>1. \A t \in Tabs : monitored[t] \in 0 .. MaxSessions
    BY ProxyTypesGive
  <2> QED
    BY <2>1 DEF ProxyTypes
<1> QED
  BY <1>1 DEF HeldInv, RequestsKnown, ProxyTypes, ProxyTyped, SessionRecords, ProxyTypeOK

\* However tool calls, monitors, restore loops and detachments run into each other on
\* any number of tabs, the session and the monitored tabs name session objects, and
\* requests are intercepted only where the debugger is attached.
THEOREM ProxyTyping == ProxySpec => []ProxyTypeOK
<1>1. ProxyInit => HeldInv /\ ProxyTypes
  BY ProxyTypesStart, DebuggerProxyAssumption
<1>2. HeldInv /\ ProxyTypes /\ [ProxyNext]_proxyVars => (HeldInv /\ ProxyTypes)'
  BY HeldStep, ProxyTypesStep, DebuggerProxyAssumption
<1>3. HeldInv /\ ProxyTypes => ProxyTypeOK
  BY ProxyTypesHold, DebuggerProxyAssumption
<1> QED
  BY <1>1, <1>2, <1>3, PTL DEF ProxySpec

(* Whether what the flags say of the attachments is so *)

\* Monitored tabs and monitors under way name session objects of their tab.
MonitorsPlaced ==
  /\ \A t \in Tabs : monitored[t] # 0 => TabOf(monitored[t]) = t
  /\ proxyJob["monitor"].at \in {"attachMonitor", "detachMonitor"} =>
       /\ proxyJob["monitor"].s \in DebuggerSessionIds
       /\ TabOf(proxyJob["monitor"].s) = proxyJob["monitor"].tab
  /\ proxyJob["monitor"].at = "detachMonitor" => monitored[proxyJob["monitor"].tab] = 0

\* The objects somebody refers to stay on their tabs, and no monitor moves on.
LEMMA PlacedKept ==
  ASSUME ProxyTypes, MonitorsPlaced,
         \A k \in DebuggerSessionIds : netSessions'[k].tab = netSessions[k].tab \/ k \in Unreferenced,
         \A t \in Tabs : monitored'[t] \in {0, monitored[t]},
         \/ proxyJob'["monitor"] = proxyJob["monitor"]
         \/ proxyJob'["monitor"].at \notin {"attachMonitor", "detachMonitor"}
  PROVE  MonitorsPlaced'
<1>0. /\ monitored \in [Tabs -> {0} \cup Seated] /\ Seated \subseteq DebuggerSessionIds
      /\ proxyJob["monitor"].at # "idle" => proxyJob["monitor"].tab \in Tabs /\ proxyJob["monitor"] # NoJob
  BY DEF ProxyTypes, Seated, JobsKnown, NoJob
<1>1. ASSUME NEW t \in Tabs, monitored'[t] # 0
      PROVE  netSessions'[monitored'[t]].tab = t
  <2>1. /\ monitored'[t] = monitored[t] /\ monitored[t] # 0 /\ monitored[t] \in DebuggerSessionIds
        /\ TabOf(monitored[t]) = t
    BY <1>0, <1>1 DEF MonitorsPlaced
  <2>2. monitored[t] \notin Unreferenced
    BY <2>1 DEF Unreferenced
  <2> QED
    BY <2>1, <2>2 DEF TabOf
<1>2. ASSUME proxyJob'["monitor"].at \in {"attachMonitor", "detachMonitor"}
      PROVE  /\ proxyJob'["monitor"].s \in DebuggerSessionIds
             /\ netSessions'[proxyJob'["monitor"].s].tab = proxyJob'["monitor"].tab
             /\ proxyJob'["monitor"].at = "detachMonitor" => monitored'[proxyJob'["monitor"].tab] = 0
  <2>1. proxyJob'["monitor"] = proxyJob["monitor"]
    BY <1>2
  <2>2. /\ proxyJob["monitor"].s \in DebuggerSessionIds
        /\ TabOf(proxyJob["monitor"].s) = proxyJob["monitor"].tab
        /\ proxyJob["monitor"].at = "detachMonitor" => monitored[proxyJob["monitor"].tab] = 0
        /\ proxyJob["monitor"].tab \in Tabs /\ proxyJob["monitor"] # NoJob
    BY <1>0, <1>2, <2>1 DEF MonitorsPlaced
  <2>3. proxyJob["monitor"].s \notin Unreferenced
    BY <2>2 DEF Unreferenced, Jobs
  <2>4. proxyJob["monitor"].at = "detachMonitor" => monitored'[proxyJob["monitor"].tab] = 0
    BY <2>2
  <2> QED
    BY <2>1, <2>2, <2>3, <2>4 DEF TabOf
<1> QED
  BY <1>1, <1>2 DEF MonitorsPlaced, TabOf

\* The flags agree as long as what is consulted afterwards and flagged was so before,
\* and Chrome has kept its tab.
LEMMA AgreeKept ==
  ASSUME FlagsAgree,
         \A i \in Consulted' : netSessions'[i].attached =>
            /\ i \in Consulted /\ netSessions'[i].tab = netSessions[i].tab /\ netSessions[i].attached
            /\ TabOf(i) \in attached => TabOf(i) \in attached'
  PROVE  FlagsAgree'
BY DEF FlagsAgree, TabOf

\* What is consulted is a session object.
LEMMA ConsultedKnown ==
  ASSUME ProxyTypes
  PROVE  /\ Consulted \subseteq Seated /\ Consulted \subseteq DebuggerSessionIds
         /\ \A i \in Consulted : i = activeSession \/ \E t \in Tabs : i = monitored[t]
BY DEF ProxyTypes, Consulted, Seated

\* The session a job takes was consulted before, or it is new and not flagged.
LEMMA AcquiredAgrees ==
  ASSUME DebuggerProxyAssumption, ProxyTypes, NEW j \in Jobs, NEW t \in Tabs, NEW now \in {0, activeSession},
         Acquire(j, t, now), UNCHANGED monitored
  PROVE  /\ \A k \in DebuggerSessionIds : netSessions'[k].tab = netSessions[k].tab \/ k \in Unreferenced
         /\ \A i \in Consulted' : netSessions'[i].attached =>
              /\ netSessions'[i] = netSessions[i] /\ i # 0
              /\ (i = now /\ i = activeSession) \/ \E u \in Tabs : i = monitored[u]
         /\ \/ proxyJob'["monitor"] = proxyJob["monitor"]
            \/ proxyJob'["monitor"].at \notin {"attachMonitor", "detachMonitor"}
<1>0. /\ netSessions \in [DebuggerSessionIds -> SessionRecords] /\ monitored \in [Tabs -> {0} \cup Seated]
      /\ proxyJob \in [Jobs -> {NoJob} \cup ProxyJobs] /\ "monitor" \in Jobs
  BY ProxyTypesGive DEF Jobs
<1>1. PICK i : /\ i = IF now # 0 THEN now ELSE IF monitored[t] # 0 THEN monitored[t] ELSE NewDebuggerSession
               /\ activeSession' = i
  BY DEF Acquire
<1>2. \A k \in Consulted' : k # 0 /\ (k = i \/ \E u \in Tabs : k = monitored[u])
  BY <1>1 DEF Consulted
<1>3. \/ proxyJob'["monitor"] = proxyJob["monitor"]
      \/ proxyJob'["monitor"].at \notin {"attachMonitor", "detachMonitor"}
  <2>1. PICK point \in {"attach", "ensured"} :
          proxyJob' = [proxyJob EXCEPT ![j].at = point, ![j].tab = t, ![j].s = i]
    <3>1. PICK point \in {"attach", "ensured"} :
            point = IF (now = 0 /\ monitored[t] = 0) \/ ~netSessions[i].attached THEN "attach" ELSE "ensured"
      BY Zenon
    <3>2. proxyJob' = [proxyJob EXCEPT ![j].at = IF (now = 0 /\ monitored[t] = 0) \/ ~netSessions[i].attached
                                                 THEN "attach" ELSE "ensured", ![j].tab = t, ![j].s = i]
      BY <1>1 DEF Acquire
    <3> QED
      BY <3>1, <3>2, Zenon
  <2>2. CASE j # "monitor"
    BY <1>0, <2>1, <2>2
  <2>3. CASE j = "monitor" /\ proxyJob["monitor"] = NoJob
    <3>1. PICK duty : duty = [[[proxyJob[j] EXCEPT !.at = point] EXCEPT !.tab = t] EXCEPT !.s = i]
      OBVIOUS
    <3>2. duty.at = point
      BY <2>3, <3>1 DEF NoJob
    <3>3. proxyJob' = [proxyJob EXCEPT ![j] = duty]
      BY <1>0, <2>1, <3>1
    <3> QED
      BY <1>0, <2>3, <3>2, <3>3
  <2>4. CASE j = "monitor" /\ proxyJob["monitor"] # NoJob
    <3>1. PICK duty : duty = [[[proxyJob[j] EXCEPT !.at = point] EXCEPT !.tab = t] EXCEPT !.s = i]
      OBVIOUS
    <3>2. proxyJob[j] \in ProxyJobs
      BY <1>0, <2>4
    <3>3. duty.at = point
      BY <3>1, <3>2 DEF ProxyJobs
    <3>4. proxyJob' = [proxyJob EXCEPT ![j] = duty]
      BY <1>0, <2>1, <3>1
    <3> QED
      BY <1>0, <2>4, <3>3, <3>4
  <2> QED
    BY <2>2, <2>3, <2>4
<1>4. CASE now = 0 /\ monitored[t] = 0
  <2>1. /\ i \in Unreferenced /\ i \in DebuggerSessionIds
        /\ netSessions' = [netSessions EXCEPT ![i] = FreshSession(t)]
    BY <1>1, <1>4 DEF Acquire, NewDebuggerSession, Unreferenced
  <2>2. /\ \A k \in DebuggerSessionIds : k # i => netSessions'[k] = netSessions[k]
        /\ ~netSessions'[i].attached
    BY <1>0, <2>1 DEF FreshSession
  <2>3. \A u \in Tabs : monitored[u] # 0 => monitored[u] \in DebuggerSessionIds
    BY <1>0 DEF Seated
  <2> QED
    BY <1>2, <1>3, <2>1, <2>2, <2>3
<1>5. CASE ~(now = 0 /\ monitored[t] = 0)
  <2>1. netSessions' = netSessions
    BY <1>5 DEF Acquire
  <2>2. (i = now /\ i = activeSession) \/ i = monitored[t]
    BY <1>1, <1>5
  <2> QED
    BY <1>2, <1>3, <2>1, <2>2
<1> QED
  BY <1>4, <1>5

\* Nothing that is consulted changes.
LEMMA AgreeUntouched ==
  ASSUME ProxyTypes, MonitorsPlaced, FlagsAgree, UNCHANGED <<netSessions, activeSession, attached>>,
         \A t \in Tabs : monitored'[t] \in {0, monitored[t]},
         \/ proxyJob'["monitor"] = proxyJob["monitor"]
         \/ proxyJob'["monitor"].at \notin {"attachMonitor", "detachMonitor"}
  PROVE  MonitorsPlaced' /\ FlagsAgree'
<1>1. MonitorsPlaced'
  BY PlacedKept
<1>2. Consulted' \subseteq Consulted
  BY DEF Consulted
<1> QED
  BY <1>1, <1>2, AgreeKept

\* Only fetchEnabled of a session changes.
LEMMA AgreeOnFetch ==
  ASSUME DebuggerProxyAssumption, ProxyTypes, MonitorsPlaced, FlagsAgree, NEW i, NEW f \in BOOLEAN,
         netSessions' \in {netSessions, [netSessions EXCEPT ![i].fetch = f]},
         UNCHANGED <<activeSession, attached, monitored>>,
         \/ proxyJob'["monitor"] = proxyJob["monitor"]
         \/ proxyJob'["monitor"].at \notin {"attachMonitor", "detachMonitor"}
  PROVE  MonitorsPlaced' /\ FlagsAgree'
<1>1. \A k \in DebuggerSessionIds : netSessions'[k].tab = netSessions[k].tab /\ netSessions'[k].attached = netSessions[k].attached
  <2>1. netSessions \in [DebuggerSessionIds -> SessionRecords]
    BY ProxyTypesGive
  <2>2. \A k \in DebuggerSessionIds :
          /\ [netSessions EXCEPT ![i].fetch = f][k].tab = netSessions[k].tab
          /\ [netSessions EXCEPT ![i].fetch = f][k].attached = netSessions[k].attached
    BY <2>1, FetchFlag
  <2> QED
    BY <2>2
<1>2. MonitorsPlaced'
  BY <1>1, PlacedKept
<1>3. Consulted' = Consulted /\ Consulted \subseteq DebuggerSessionIds
  BY ConsultedKnown DEF Consulted
<1> QED
  BY <1>1, <1>2, <1>3, AgreeKept

\* A job that fails or moves on is none of a monitor.
LEMMA FailedPlaced ==
  ASSUME ProxyTypes, NEW j \in Jobs, proxyJob[j] # NoJob, proxyJob' = Failed(j)
  PROVE  \/ proxyJob'["monitor"] = proxyJob["monitor"]
         \/ proxyJob'["monitor"].at \notin {"attachMonitor", "detachMonitor"}
<1>0. proxyJob \in [Jobs -> {NoJob} \cup ProxyJobs] /\ "monitor" \in Jobs
  BY DEF ProxyTypes, JobsKnown, Jobs
<1>1. PICK again : again = [Begin("loop", proxyJob[j].tab) EXCEPT !.left = proxyJob[j].left - 1]
  OBVIOUS
<1>2. again.at = "resolve" /\ NoJob.at = "idle"
  BY <1>1 DEF Begin, NoJob
<1>3. proxyJob' = [proxyJob EXCEPT ![j] = again] \/ proxyJob' = [proxyJob EXCEPT ![j] = NoJob]
  BY <1>1, Zenon DEF Failed, JobOver
<1>4. proxyJob'["monitor"] \in {proxyJob["monitor"], again, NoJob}
  BY <1>0, <1>3
<1> QED
  BY <1>2, <1>4

LEMMA MovedPlaced ==
  ASSUME ProxyTypes, NEW j \in Jobs, proxyJob[j] \in ProxyJobs,
         NEW point \in {"switch", "ensured", "network", "intercept", "release", "disable"}, NEW duty,
         proxyJob' = [proxyJob EXCEPT ![j] = duty], duty.at = point
  PROVE  \/ proxyJob'["monitor"] = proxyJob["monitor"]
         \/ proxyJob'["monitor"].at \notin {"attachMonitor", "detachMonitor"}
<1>0. proxyJob \in [Jobs -> {NoJob} \cup ProxyJobs] /\ "monitor" \in Jobs
  BY DEF ProxyTypes, JobsKnown, Jobs
<1>1. proxyJob'["monitor"] = proxyJob["monitor"] \/ proxyJob'["monitor"] = duty
  BY <1>0
<1> QED
  BY <1>1

\* The steps of an attachment: the flags agree afterwards unless it is a misstep.
LEMMA AgreeJobStep ==
  ASSUME DebuggerProxyAssumption, ProxyTypes, MonitorsPlaced, NEW j \in Jobs, JobStep(j) \/ Refuse(j)
  PROVE  MonitorsPlaced' /\ (FlagsAgree => FlagsAgree' \/ Misstep)
<1>0. /\ netSessions \in [DebuggerSessionIds -> SessionRecords] /\ selected \in Tabs
      /\ activeSession \in {0} \cup Seated /\ monitored \in [Tabs -> {0} \cup Seated]
      /\ proxyJob \in [Jobs -> {NoJob} \cup ProxyJobs] /\ Seated \subseteq DebuggerSessionIds
  BY ProxyTypesGive
<1>1. /\ proxyJob[j].at # "idle" /\ proxyJob[j] # NoJob /\ proxyJob[j] \in ProxyJobs
      /\ proxyJob[j].kind # "tool" \/ proxyJob[j].at \in {"detach", "switch"} => proxyJob[j].tab \in Tabs
      /\ proxyJob[j].at \in {"attach", "attachMonitor"} => proxyJob[j].s \in Seated
  <2>1. proxyJob[j].at # "idle"
    BY DEF JobStep, ResolveSession, Switch, Attach, Refuse, Ensured, EnableNetwork, Intercept, Release
  <2> QED
    BY <2>1, JobUnderWay
<1>2. CASE ResolveSession(j)
  <2>1. PICK t \in Tabs : t = IF proxyJob[j].kind = "tool" THEN selected ELSE proxyJob[j].tab
    BY <1>0, <1>1
  <2>2. UNCHANGED <<attached, monitored>>
    BY <1>2 DEF ResolveSession, chromeVars
  <2>3. \/ \E now \in {0, activeSession} : Acquire(j, t, now)
        \/ /\ proxyJob' = [proxyJob EXCEPT ![j].at = "switch", ![j].tab = t, ![j].s = activeSession]
           /\ UNCHANGED <<netSessions, activeSession>>
    BY <1>2, <2>1 DEF ResolveSession
  <2>4. ASSUME NEW now \in {0, activeSession}, Acquire(j, t, now)
        PROVE  MonitorsPlaced' /\ (FlagsAgree => FlagsAgree')
    <3>1. /\ \A k \in DebuggerSessionIds : netSessions'[k].tab = netSessions[k].tab \/ k \in Unreferenced
          /\ \A i \in Consulted' : netSessions'[i].attached =>
              /\ netSessions'[i] = netSessions[i] /\ i # 0
              /\ (i = now /\ i = activeSession) \/ \E u \in Tabs : i = monitored[u]
          /\ \/ proxyJob'["monitor"] = proxyJob["monitor"]
             \/ proxyJob'["monitor"].at \notin {"attachMonitor", "detachMonitor"}
      BY <2>2, <2>4, AcquiredAgrees
    <3>2. MonitorsPlaced'
      BY <2>2, <3>1, PlacedKept
    <3>3. \A i : (i # 0 /\ (i = activeSession \/ \E u \in Tabs : i = monitored[u])) => i \in Consulted
      BY DEF Consulted
    <3> QED
      BY <2>2, <3>1, <3>2, <3>3, AgreeKept
  <2>5. CASE /\ proxyJob' = [proxyJob EXCEPT ![j].at = "switch", ![j].tab = t, ![j].s = activeSession]
             /\ UNCHANGED <<netSessions, activeSession>>
    <3>1. PICK duty : duty = [[[proxyJob[j] EXCEPT !.at = "switch"] EXCEPT !.tab = t] EXCEPT !.s = activeSession]
      OBVIOUS
    <3>2. duty.at = "switch"
      BY <1>1, <3>1 DEF ProxyJobs
    <3>3. proxyJob' = [proxyJob EXCEPT ![j] = duty]
      BY <1>0, <2>5, <3>1
    <3>4. \/ proxyJob'["monitor"] = proxyJob["monitor"]
          \/ proxyJob'["monitor"].at \notin {"attachMonitor", "detachMonitor"}
      BY <1>1, <3>2, <3>3, MovedPlaced
    <3>5. MonitorsPlaced'
      BY <2>2, <2>5, <3>4, PlacedKept
    <3> QED
      BY <2>2, <2>5, <3>4, <3>5, AgreeUntouched
  <2> QED
    BY <2>3, <2>4, <2>5
<1>3. CASE Switch(j)
  <2>1. PICK t \in Tabs : t = proxyJob[j].tab
    BY <1>1, <1>3 DEF Switch
  <2>2. PICK left : left = TabOf(proxyJob[j].s)
    OBVIOUS
  <2>3. /\ proxyJob[j].at = "switch" /\ attached' = attached \ {left} /\ Acquire(j, t, 0)
        /\ UNCHANGED monitored
    BY <1>3, <2>1, <2>2 DEF Switch, Detached
  <2>4. /\ \A k \in DebuggerSessionIds : netSessions'[k].tab = netSessions[k].tab \/ k \in Unreferenced
        /\ \A i \in Consulted' : netSessions'[i].attached =>
              /\ netSessions'[i] = netSessions[i] /\ i # 0
              /\ (i = 0 /\ i = activeSession) \/ \E u \in Tabs : i = monitored[u]
        /\ \/ proxyJob'["monitor"] = proxyJob["monitor"]
           \/ proxyJob'["monitor"].at \notin {"attachMonitor", "detachMonitor"}
    BY <2>3, AcquiredAgrees
  <2>5. MonitorsPlaced'
    BY <2>3, <2>4, PlacedKept
  <2>6. ASSUME left \in attached, left \in Tabs, monitored[left] # 0
        PROVE  Misstep
    <3>1. left \in attached \ attached'
      BY <2>3, <2>6
    <3>2. MonitoredSince(left)
      BY <2>2, <2>3, <2>6 DEF MonitoredSince
    <3> QED
      BY <3>1, <3>2 DEF Misstep
  <2>7. ASSUME FlagsAgree, ~(left \in attached /\ left \in Tabs /\ monitored[left] # 0)
        PROVE  FlagsAgree'
    <3>1. ASSUME NEW i \in Consulted', netSessions'[i].attached
          PROVE  /\ i \in Consulted /\ netSessions'[i].tab = netSessions[i].tab /\ netSessions[i].attached
                 /\ TabOf(i) \in attached => TabOf(i) \in attached'
      <4>1. PICK u \in Tabs : i = monitored[u] /\ i # 0
        BY <2>4, <3>1
      <4>2. TabOf(i) = u
        BY <4>1 DEF MonitorsPlaced
      <4>3. i \in Consulted
        BY <4>1 DEF Consulted
      <4>4. netSessions'[i] = netSessions[i]
        BY <2>4, <3>1
      <4>5. u # left \/ u \notin attached
        BY <2>7, <4>1
      <4> QED
        BY <2>3, <3>1, <4>2, <4>3, <4>4, <4>5
    <3> QED
      BY <2>7, <3>1, AgreeKept
  <2> QED
    BY <2>5, <2>6, <2>7
<1>4. CASE Attach(j)
  <2>1. PICK t \in Tabs : t = TabOf(proxyJob[j].s)
    BY <1>1, <1>4 DEF Attach, Seated
  <2>2. proxyJob[j].at = "attach" /\ UNCHANGED <<activeSession, monitored>>
    BY <1>4 DEF Attach
  <2>3. \/ proxyJob' = Failed(j) /\ UNCHANGED netSessions /\ attached' \in {attached, attached \cup {t}}
        \/ /\ t \notin attached /\ attached' = attached \cup {t} /\ activeSession # 0
           /\ netSessions' = [netSessions EXCEPT ![activeSession].attached = TRUE]
           /\ proxyJob' = [proxyJob EXCEPT ![j].at = "ensured"]
    BY <1>4, <2>1 DEF Attach
  <2>4. CASE proxyJob' = Failed(j) /\ UNCHANGED netSessions /\ attached' \in {attached, attached \cup {t}}
    <3>1. MonitorsPlaced'
      BY <1>1, <2>2, <2>4, FailedPlaced, PlacedKept
    <3>2. Consulted' = Consulted
      BY <2>2 DEF Consulted
    <3> QED
      BY <2>4, <3>1, <3>2, AgreeKept
  <2>5. CASE /\ t \notin attached /\ attached' = attached \cup {t} /\ activeSession # 0
             /\ netSessions' = [netSessions EXCEPT ![activeSession].attached = TRUE]
             /\ proxyJob' = [proxyJob EXCEPT ![j].at = "ensured"]
    <3>1. PICK duty : duty = [proxyJob[j] EXCEPT !.at = "ensured"]
      OBVIOUS
    <3>2. duty.at = "ensured" /\ proxyJob' = [proxyJob EXCEPT ![j] = duty]
      BY <1>1, <2>5, <3>1 DEF ProxyJobs
    <3>3. \/ proxyJob'["monitor"] = proxyJob["monitor"]
          \/ proxyJob'["monitor"].at \notin {"attachMonitor", "detachMonitor"}
      BY <1>1, <3>2, MovedPlaced
    <3>4. \A k \in DebuggerSessionIds :
            /\ netSessions'[k].tab = netSessions[k].tab
            /\ netSessions'[k].attached = IF k = activeSession THEN TRUE ELSE netSessions[k].attached
      BY <1>0, <2>5, AttachedFlag
    <3>5. MonitorsPlaced'
      BY <2>2, <3>3, <3>4, PlacedKept
    <3>6. ASSUME TabOf(activeSession) # t
          PROVE  Misstep
      <4>1. FlagMisplaced
        BY <2>1, <2>2, <2>5, <3>6 DEF FlagMisplaced
      <4> QED
        BY <4>1 DEF Misstep
    <3>7. ASSUME FlagsAgree, TabOf(activeSession) = t
          PROVE  FlagsAgree'
      <4>1. Consulted' = Consulted /\ Consulted \subseteq DebuggerSessionIds
        BY <2>2, ConsultedKnown DEF Consulted
      <4>2. ASSUME NEW i \in Consulted, netSessions'[i].attached
            PROVE  netSessions'[i].tab \in attached'
        <5>1. CASE i = activeSession
          BY <2>5, <3>4, <3>7, <4>1, <5>1 DEF TabOf
        <5>2. CASE i # activeSession
          BY <2>5, <3>4, <3>7, <4>1, <4>2, <5>2 DEF FlagsAgree, TabOf
        <5> QED
          BY <5>1, <5>2
      <4> QED
        BY <4>1, <4>2 DEF FlagsAgree, TabOf
    <3> QED
      BY <3>5, <3>6, <3>7
  <2> QED
    BY <2>3, <2>4, <2>5
<1>5. CASE Refuse(j) \/ Ensured(j) \/ EnableNetwork(j)
  <2>1. UNCHANGED <<netSessions, activeSession, attached, monitored>>
    BY <1>5 DEF Refuse, Ensured, EnableNetwork, chromeVars
  <2>2. \/ proxyJob'["monitor"] = proxyJob["monitor"]
        \/ proxyJob'["monitor"].at \notin {"attachMonitor", "detachMonitor"}
    <3>1. CASE proxyJob' = Failed(j)
      BY <1>1, <3>1, FailedPlaced
    <3>2. CASE proxyJob' = [proxyJob EXCEPT ![j].at = "network", ![j].s = activeSession]
      <4>1. PICK duty : duty = [[proxyJob[j] EXCEPT !.at = "network"] EXCEPT !.s = activeSession]
        OBVIOUS
      <4>2. duty.at = "network" /\ proxyJob' = [proxyJob EXCEPT ![j] = duty]
        BY <1>0, <1>1, <3>2, <4>1 DEF ProxyJobs
      <4> QED
        BY <1>1, <4>2, MovedPlaced
    <3>3. ASSUME NEW point \in {"intercept", "release"},
                 proxyJob' = [proxyJob EXCEPT ![j].at = point, ![j].on = hasRules]
          PROVE  \/ proxyJob'["monitor"] = proxyJob["monitor"]
                 \/ proxyJob'["monitor"].at \notin {"attachMonitor", "detachMonitor"}
      <4>1. PICK duty : duty = [[proxyJob[j] EXCEPT !.at = point] EXCEPT !.on = hasRules]
        OBVIOUS
      <4>2. duty.at = point
        BY <1>1, <4>1 DEF ProxyJobs
      <4>3. proxyJob' = [proxyJob EXCEPT ![j] = duty]
        BY <1>0, <3>3, <4>1
      <4> QED
        BY <1>1, <4>2, <4>3, MovedPlaced
    <3>4. CASE EnableNetwork(j)
      <4>1. PICK point \in {"intercept", "release"} : point = IF proxyEnabled /\ hasRules THEN "intercept" ELSE "release"
        BY Zenon
      <4>2. proxyJob' = Failed(j) \/ proxyJob' = [proxyJob EXCEPT ![j].at = point, ![j].on = hasRules]
        BY <3>4, <4>1, Zenon DEF EnableNetwork
      <4> QED
        BY <3>1, <3>3, <4>2
    <3>5. CASE Refuse(j) \/ Ensured(j)
      BY <3>1, <3>2, <3>5 DEF Refuse, Ensured
    <3> QED
      BY <1>5, <3>4, <3>5
  <2>3. MonitorsPlaced'
    BY <2>1, <2>2, PlacedKept
  <2> QED
    BY <2>1, <2>2, <2>3, AgreeUntouched
<1>6. CASE Intercept(j) \/ Release(j)
  <2>1. UNCHANGED <<attached, activeSession, monitored>>
    BY <1>6 DEF Intercept, Release
  <2>2. PICK f \in BOOLEAN : f = (proxyEnabled /\ proxyJob[j].on)
    OBVIOUS
  <2>3. PICK i : i = proxyJob[j].s
    OBVIOUS
  <2>4. netSessions' = netSessions \/ netSessions' = [netSessions EXCEPT ![i].fetch = f]
    BY <1>6, <2>2, <2>3, Zenon DEF Intercept, Release, FetchApplied
  <2>5. proxyJob' = Failed(j) \/ proxyJob' = [proxyJob EXCEPT ![j] = NoJob]
    BY <1>6 DEF Intercept, Release, FetchApplied
  <2>6. \/ proxyJob'["monitor"] = proxyJob["monitor"]
        \/ proxyJob'["monitor"].at \notin {"attachMonitor", "detachMonitor"}
    <3>1. CASE proxyJob' = Failed(j)
      BY <1>1, <3>1, FailedPlaced
    <3>2. CASE proxyJob' = [proxyJob EXCEPT ![j] = NoJob]
      BY <1>0, <3>2 DEF NoJob, Jobs
    <3> QED
      BY <2>5, <3>1, <3>2
  <2>7. MonitorsPlaced'
    <3>1. \A k \in DebuggerSessionIds : [netSessions EXCEPT ![i].fetch = f][k].tab = netSessions[k].tab
      BY <1>0, FetchFlag
    <3> QED
      BY <2>1, <2>4, <2>6, <3>1, PlacedKept
  <2> QED
    BY <2>1, <2>4, <2>6, <2>7, AgreeOnFetch
<1> QED
  BY <1>2, <1>3, <1>4, <1>5, <1>6 DEF JobStep

\* onDetach resets the session that is consulted for the tab; with two objects the other
\* one is left.
LEMMA DetachAgrees ==
  ASSUME DebuggerProxyAssumption, ProxyTypes, MonitorsPlaced, NEW t \in Tabs, NEW byUser \in BOOLEAN, NEW jobs,
         jobs["monitor"] = proxyJob["monitor"], JobsKnown(jobs, Seated), t \in attached,
         OnDetach(t, byUser, jobs), Detached(t), activeSession' \in {0, activeSession}
  PROVE  MonitorsPlaced' /\ (FlagsAgree => FlagsAgree' \/ Misstep)
<1>0. /\ netSessions \in [DebuggerSessionIds -> SessionRecords] /\ monitored \in [Tabs -> {0} \cup Seated]
      /\ activeSession \in {0} \cup Seated /\ Seated \subseteq DebuggerSessionIds
  BY ProxyTypesGive
<1>1. PICK i : i = SessionOfTab(t)
  OBVIOUS
<1>2. /\ \/ i = 0 /\ netSessions' = netSessions /\ monitored' = monitored
         \/ /\ i # 0 /\ i \in DebuggerSessionIds /\ netSessions' = LostFlags(i)
            /\ monitored' = [monitored EXCEPT ![t] = IF @ = i THEN 0 ELSE @]
      /\ attached' = attached \ {t}
  BY <1>0, <1>1 DEF OnDetach, Detached, SessionOfTab, ActiveOn
<1>3. \A k \in DebuggerSessionIds :
        /\ netSessions'[k].tab = netSessions[k].tab
        /\ netSessions'[k].attached => k # i /\ netSessions[k].attached
  <2>1. CASE i = 0
    BY <1>2, <2>1 DEF DebuggerSessionIds
  <2>2. CASE i # 0
    <3>1. PICK lost : lost = [[netSessions[i] EXCEPT !.attached = FALSE] EXCEPT !.fetch = FALSE]
      OBVIOUS
    <3>2. lost.tab = netSessions[i].tab /\ ~lost.attached
      BY <1>0, <1>2, <2>2, <3>1 DEF SessionRecords
    <3>3. netSessions' = [netSessions EXCEPT ![i] = lost]
      BY <1>0, <1>2, <2>2, <3>1 DEF LostFlags
    <3> QED
      BY <1>0, <3>2, <3>3
  <2> QED
    BY <2>1, <2>2
<1>4. \A u \in Tabs : /\ monitored'[u] \in {0, monitored[u]}
                      /\ u = t /\ monitored'[u] # 0 => monitored[u] # i
  BY <1>0, <1>2
<1>5. proxyJob'["monitor"] = proxyJob["monitor"]
  <2>0. /\ "monitor" \in Jobs /\ "monitor" \notin Loops /\ jobs \in [Jobs -> {NoJob} \cup ProxyJobs]
    BY DEF Jobs, DebuggerProxyAssumption, JobsKnown
  <2>1. \/ proxyJob' = jobs \/ proxyJob' = Superseded(jobs)
        \/ \E a, b \in FreeLoops : proxyJob' = NewLoop([jobs EXCEPT ![a] = Begin("reattach", t)], b, t)
    BY DEF OnDetach
  <2>2. Superseded(jobs)["monitor"] = jobs["monitor"]
    BY <2>0 DEF Superseded
  <2>3. ASSUME NEW a \in FreeLoops, NEW b \in FreeLoops,
               proxyJob' = NewLoop([jobs EXCEPT ![a] = Begin("reattach", t)], b, t)
        PROVE  proxyJob'["monitor"] = jobs["monitor"]
    <3>1. a # "monitor" /\ b # "monitor"
      BY <2>0 DEF FreeLoops
    <3>2. PICK more : more = [jobs EXCEPT ![a] = Begin("reattach", t)]
      OBVIOUS
    <3>3. more["monitor"] = jobs["monitor"]
      BY <2>0, <3>1, <3>2
    <3>4. Superseded(more)["monitor"] = more["monitor"]
      BY <2>0 DEF Superseded
    <3>5. PICK loop : loop = [Begin("loop", t) EXCEPT !.left = RestoreAttempts - 1]
      OBVIOUS
    <3>6. proxyJob' = [Superseded(more) EXCEPT ![b] = loop]
      BY <2>3, <3>2, <3>5 DEF NewLoop
    <3>7. Superseded(more) = [k \in Jobs |-> Superseded(more)[k]]
      BY DEF Superseded
    <3> QED
      BY <2>0, <3>1, <3>3, <3>4, <3>6, <3>7
  <2> QED
    BY <2>1, <2>2, <2>3
<1>6. MonitorsPlaced'
  BY <1>3, <1>4, <1>5, PlacedKept
<1>7. ASSUME TwoObjects(t)
      PROVE  Misstep
  BY <1>2, <1>7 DEF Misstep
<1>8. ASSUME FlagsAgree, ~TwoObjects(t)
      PROVE  FlagsAgree'
  <2>1. ASSUME NEW k \in Consulted', netSessions'[k].attached
        PROVE  /\ k \in Consulted /\ netSessions'[k].tab = netSessions[k].tab /\ netSessions[k].attached
               /\ TabOf(k) # t
    <3>1. k # 0 /\ (k = activeSession \/ \E u \in Tabs : k = monitored[u] /\ monitored'[u] # 0)
      BY <1>4 DEF Consulted
    <3>2. k \in Consulted /\ k \in DebuggerSessionIds
      <4>1. k \in Consulted
        BY <3>1 DEF Consulted
      <4> QED
        BY <4>1, ConsultedKnown
    <3>3. netSessions'[k].tab = netSessions[k].tab /\ netSessions[k].attached /\ k # i
      BY <1>3, <2>1, <3>2
    <3>4. ASSUME TabOf(k) = t
          PROVE  FALSE
      <4>1. CASE ActiveOn(t)
        <5>1. i = activeSession
          BY <1>1, <4>1 DEF SessionOfTab
        <5>2. PICK u \in Tabs : k = monitored[u]
          BY <3>1, <3>3, <5>1
        <5>3. u = t
          BY <3>1, <3>4, <5>2 DEF MonitorsPlaced
        <5> QED
          BY <1>8, <3>1, <3>3, <4>1, <5>1, <5>2, <5>3 DEF TwoObjects
      <4>2. CASE ~ActiveOn(t)
        <5>1. i = monitored[t] /\ k # activeSession
          BY <1>1, <3>1, <3>4, <4>2 DEF SessionOfTab, ActiveOn
        <5>2. PICK u \in Tabs : k = monitored[u]
          BY <3>1, <5>1
        <5>3. u = t
          BY <3>1, <3>4, <5>2 DEF MonitorsPlaced
        <5> QED
          BY <3>3, <5>1, <5>2, <5>3
      <4> QED
        BY <4>1, <4>2
    <3> QED
      BY <3>2, <3>3, <3>4
  <2> QED
    BY <1>2, <1>8, <2>1, AgreeKept
<1> QED
  BY <1>6, <1>7, <1>8

\* Tools, loads and detachments.
LEMMA AgreeToolStep ==
  ASSUME DebuggerProxyAssumption, ProxyTypes, MonitorsPlaced,
         \/ EnableProxy \/ DisableProxy \/ RemoveRules \/ TabLoads \/ ToolStep
         \/ \E t \in Tabs : DetachDebugger(t) \/ ChromeDetaches(t, TRUE) \/ ChromeDetaches(t, FALSE)
  PROVE  MonitorsPlaced' /\ (FlagsAgree => FlagsAgree' \/ Misstep)
<1>0. /\ netSessions \in [DebuggerSessionIds -> SessionRecords] /\ monitored \in [Tabs -> {0} \cup Seated]
      /\ JobsKnown(proxyJob, Seated) /\ proxyJob \in [Jobs -> {NoJob} \cup ProxyJobs]
      /\ {"tool", "monitor"} \subseteq Jobs /\ "monitor" \notin Loops
  BY ProxyTypesGive DEF Jobs, DebuggerProxyAssumption
<1>over. /\ JobsKnown([proxyJob EXCEPT !["tool"] = NoJob], Seated)
         /\ [proxyJob EXCEPT !["tool"] = NoJob]["monitor"] = proxyJob["monitor"]
  <2>1. JobKnown(NoJob, Seated)
    BY DEF JobKnown
  <2> QED
    BY <1>0, <2>1, KnownMoves
<1>a. ASSUME UNCHANGED <<netSessions, activeSession, attached, monitored>>, proxyJob'["monitor"] = proxyJob["monitor"]
      PROVE  MonitorsPlaced' /\ (FlagsAgree => FlagsAgree' \/ Misstep)
  <2>1. MonitorsPlaced'
    BY <1>a, PlacedKept
  <2> QED
    BY <1>a, <2>1, AgreeUntouched
<1>1. ASSUME NEW point, NEW t, CallProxyTool(point, t)
      PROVE  MonitorsPlaced' /\ (FlagsAgree => FlagsAgree' \/ Misstep)
  BY <1>0, <1>a, <1>1 DEF CallProxyTool, chromeVars
<1>2. CASE EnableProxy \/ DisableProxy \/ RemoveRules
  BY <1>1, <1>2 DEF EnableProxy, DisableProxy, RemoveRules
<1>3. ASSUME NEW t \in Tabs, DetachDebugger(t)
      PROVE  MonitorsPlaced' /\ (FlagsAgree => FlagsAgree' \/ Misstep)
  BY <1>1, <1>3 DEF DetachDebugger
<1>4. CASE TabLoads
  <2>1. PICK b \in FreeLoops : proxyJob' = NewLoop(proxyJob, b, selected)
    BY <1>4 DEF TabLoads
  <2>2. PICK loop : loop = [Begin("loop", selected) EXCEPT !.left = RestoreAttempts - 1]
    OBVIOUS
  <2>3. proxyJob' = [Superseded(proxyJob) EXCEPT ![b] = loop]
    BY <2>1, <2>2 DEF NewLoop
  <2>4. b # "monitor" /\ Superseded(proxyJob)["monitor"] = proxyJob["monitor"]
    BY <1>0 DEF FreeLoops, Superseded
  <2>5. Superseded(proxyJob) = [k \in Jobs |-> Superseded(proxyJob)[k]]
    BY DEF Superseded
  <2>6. proxyJob'["monitor"] = proxyJob["monitor"]
    BY <1>0, <2>3, <2>4, <2>5
  <2> QED
    BY <1>4, <1>a, <2>6 DEF TabLoads, chromeVars
<1>5. CASE DisableFetch \/ ApplyRemoval
  <2>1. PICK duty : proxyJob' = [proxyJob EXCEPT !["tool"] = duty]
    BY <1>5 DEF DisableFetch, ApplyRemoval
  <2>2. proxyJob'["monitor"] = proxyJob["monitor"]
    BY <1>0, <2>1
  <2> QED
    BY <1>5, <1>a, <2>2 DEF DisableFetch, ApplyRemoval, chromeVars
<1>6. CASE FetchDisabled
  <2>1. /\ UNCHANGED <<attached, activeSession, monitored>> /\ proxyJob'["monitor"] = proxyJob["monitor"]
        /\ netSessions' = netSessions \/ netSessions' = [netSessions EXCEPT ![activeSession].fetch = FALSE]
    BY <1>0, <1>6 DEF FetchDisabled
  <2>2. MonitorsPlaced'
    <3>1. \A k \in DebuggerSessionIds : [netSessions EXCEPT ![activeSession].fetch = FALSE][k].tab = netSessions[k].tab
      BY <1>0, FetchFlag
    <3> QED
      BY <2>1, <3>1, PlacedKept
  <2> QED
    BY <2>1, <2>2, AgreeOnFetch
<1>7. CASE ToolDetached
  <2>1. PICK t : t = proxyJob["tool"].tab
    OBVIOUS
  <2>2. PICK over : over = [proxyJob EXCEPT !["tool"] = NoJob]
    OBVIOUS
  <2>3. t \in Tabs /\ proxyJob["tool"].at = "detach"
    BY <1>0, <1>7, <2>1, JobUnderWay DEF ToolDetached
  <2>4. \/ t \in attached /\ Detached(t) /\ OnDetach(t, FALSE, over) /\ activeSession' \in {0, activeSession}
        \/ /\ t \in attached /\ Detached(t) /\ proxyJob' = over /\ UNCHANGED <<netSessions, monitored>>
           /\ activeSession' = IF ActiveOn(t) THEN 0 ELSE activeSession
        \/ /\ proxyJob' = over /\ UNCHANGED <<attached, netSessions, monitored>>
           /\ activeSession' \in {0, activeSession}
    BY <1>7, <2>1, <2>2 DEF ToolDetached
  <2>5. CASE t \in attached /\ Detached(t) /\ OnDetach(t, FALSE, over) /\ activeSession' \in {0, activeSession}
    BY <1>over, <2>2, <2>3, <2>5, DetachAgrees
  <2>6. CASE /\ t \in attached /\ Detached(t) /\ proxyJob' = over /\ UNCHANGED <<netSessions, monitored>>
             /\ activeSession' = IF ActiveOn(t) THEN 0 ELSE activeSession
    <3>1. MonitorsPlaced'
      BY <1>over, <2>2, <2>6, PlacedKept
    <3>2. ASSUME monitored[t] # 0
          PROVE  Misstep
      BY <2>3, <2>6, <3>2 DEF Detached, LeftUnreported, Misstep
    <3>3. ASSUME FlagsAgree, monitored[t] = 0
          PROVE  FlagsAgree'
      <4>1. ASSUME NEW i \in Consulted'
            PROVE  i \in Consulted /\ TabOf(i) # t
        <5>1. CASE i = activeSession'
          <6>1. i # 0 /\ i = activeSession /\ ~ActiveOn(t)
            BY <2>6, <4>1, <5>1 DEF Consulted
          <6> QED
            BY <6>1 DEF Consulted, ActiveOn
        <5>2. CASE i # activeSession'
          <6>1. PICK u \in Tabs : i = monitored[u] /\ i # 0
            BY <2>6, <4>1, <5>2 DEF Consulted
          <6>2. TabOf(i) = u /\ u # t
            BY <3>3, <6>1 DEF MonitorsPlaced
          <6> QED
            BY <6>1, <6>2 DEF Consulted
        <5> QED
          BY <5>1, <5>2
      <4> QED
        BY <2>6, <3>3, <4>1, AgreeKept DEF Detached
    <3> QED
      BY <3>1, <3>2, <3>3
  <2>7. CASE /\ proxyJob' = over /\ UNCHANGED <<attached, netSessions, monitored>>
             /\ activeSession' \in {0, activeSession}
    <3>1. MonitorsPlaced'
      BY <1>over, <2>2, <2>7, PlacedKept
    <3>2. Consulted' \subseteq Consulted
      BY <2>7 DEF Consulted
    <3> QED
      BY <2>7, <3>1, <3>2, AgreeKept
  <2> QED
    BY <2>4, <2>5, <2>6, <2>7
<1>8. ASSUME NEW t \in Tabs, NEW byUser \in BOOLEAN, ChromeDetaches(t, byUser)
      PROVE  MonitorsPlaced' /\ (FlagsAgree => FlagsAgree' \/ Misstep)
  BY <1>0, <1>8, DetachAgrees DEF ChromeDetaches
<1> QED
  BY <1>2, <1>3, <1>4, <1>5, <1>6, <1>7, <1>8 DEF ToolStep

\* Monitors.
LEMMA AgreeMonitorStep ==
  ASSUME DebuggerProxyAssumption, ProxyTypes, MonitorsPlaced,
         \/ ResolveMonitor \/ AttachMonitor \/ MonitorDetached
         \/ \E t \in Tabs : StartMonitor(t) \/ StopMonitor(t)
  PROVE  MonitorsPlaced' /\ (FlagsAgree => FlagsAgree' \/ Misstep)
<1>0. /\ netSessions \in [DebuggerSessionIds -> SessionRecords]
      /\ activeSession \in {0} \cup Seated /\ monitored \in [Tabs -> {0} \cup Seated]
      /\ JobsKnown(proxyJob, Seated) /\ proxyJob \in [Jobs -> {NoJob} \cup ProxyJobs]
      /\ "monitor" \in Jobs /\ Seated \subseteq DebuggerSessionIds /\ NoJob.at = "idle"
  BY ProxyTypesGive DEF Jobs, NoJob
<1>1. ASSUME proxyJob["monitor"].at # "idle"
      PROVE  proxyJob["monitor"] \in ProxyJobs /\ proxyJob["monitor"].tab \in Tabs
  <2>1. proxyJob["monitor"] # NoJob /\ proxyJob["monitor"] \in ProxyJobs
    BY <1>0, <1>1, JobUnderWay
  <2> QED
    BY <1>0, <2>1 DEF JobsKnown
<1>2. CASE ResolveMonitor
  <2>1. PICK t \in Tabs : t = proxyJob["monitor"].tab
    BY <1>1, <1>2 DEF ResolveMonitor
  <2>2. PICK i : i = IF SessionOfTab(t) # 0 THEN SessionOfTab(t) ELSE NewDebuggerSession
    OBVIOUS
  <2>3. /\ SessionOfTab(t) = 0 => i \in Unreferenced /\ i \in DebuggerSessionIds
        /\ SessionOfTab(t) # 0 => i \in Consulted /\ i \in DebuggerSessionIds /\ TabOf(i) = t
    <3>1. CASE SessionOfTab(t) = 0
      <4>1. Unreferenced # {}
        BY <1>2, <2>1, <3>1 DEF ResolveMonitor
      <4> QED
        BY <2>2, <3>1, <4>1 DEF NewDebuggerSession, Unreferenced
    <3>2. CASE SessionOfTab(t) # 0
      <4>1. i # 0 /\ ((i = activeSession /\ TabOf(i) = t) \/ i = monitored[t])
        BY <2>2, <3>2 DEF SessionOfTab, ActiveOn
      <4>2. i \in Consulted /\ TabOf(i) = t
        BY <4>1 DEF Consulted, MonitorsPlaced
      <4> QED
        BY <3>2, <4>2, ConsultedKnown
    <3> QED
      BY <3>1, <3>2
  <2>4. PICK seat : seat = IF SessionOfTab(t) # 0 THEN netSessions[i] ELSE FreshSession(t)
    OBVIOUS
  <2>5. /\ netSessions' = [netSessions EXCEPT ![i] = seat] /\ UNCHANGED <<attached, activeSession>>
        /\ \/ /\ seat.attached /\ monitored' = [monitored EXCEPT ![t] = i]
              /\ proxyJob' = [proxyJob EXCEPT !["monitor"] = NoJob]
           \/ /\ proxyJob' = [proxyJob EXCEPT !["monitor"].at = "attachMonitor", !["monitor"].s = i]
              /\ UNCHANGED monitored
    BY <1>0, <1>2, <2>1, <2>2, <2>3, <2>4 DEF ResolveMonitor, chromeVars
  <2>6. CASE SessionOfTab(t) # 0
    <3>1. netSessions' = netSessions
      BY <1>0, <2>3, <2>4, <2>5, <2>6
    <3>2. Consulted' \subseteq Consulted
      BY <1>0, <2>3, <2>5, <2>6 DEF Consulted
    <3>3. FlagsAgree => FlagsAgree'
      BY <2>5, <3>1, <3>2, AgreeKept
    <3>4. \A u \in Tabs : monitored'[u] # 0 => TabOf(monitored'[u]) = u
      BY <1>0, <2>3, <2>5, <2>6 DEF MonitorsPlaced
    <3>5. \/ proxyJob'["monitor"] = NoJob
          \/ /\ proxyJob'["monitor"].s = i /\ proxyJob'["monitor"].tab = t
             /\ proxyJob'["monitor"].at = "attachMonitor"
      <4>1. PICK duty : duty = [[proxyJob["monitor"] EXCEPT !.at = "attachMonitor"] EXCEPT !.s = i]
        OBVIOUS
      <4>2. duty.at = "attachMonitor" /\ duty.s = i /\ duty.tab = t
        BY <1>1, <1>2, <2>1, <4>1 DEF ProxyJobs, ResolveMonitor
      <4>3. proxyJob' = [proxyJob EXCEPT !["monitor"] = NoJob] \/ proxyJob' = [proxyJob EXCEPT !["monitor"] = duty]
        BY <1>0, <2>5, <4>1
      <4> QED
        BY <1>0, <4>2, <4>3
    <3>6. MonitorsPlaced'
      BY <1>0, <2>3, <2>6, <3>1, <3>4, <3>5 DEF MonitorsPlaced, TabOf
    <3> QED
      BY <3>3, <3>6
  <2>7. CASE SessionOfTab(t) = 0
    <3>1. seat.tab = t /\ ~seat.attached
      BY <2>4, <2>7 DEF FreshSession
    <3>2. /\ netSessions'[i] = seat /\ \A k \in DebuggerSessionIds : k # i => netSessions'[k] = netSessions[k]
          /\ UNCHANGED <<monitored, attached, activeSession>>
      BY <1>0, <2>3, <2>5, <2>7, <3>1
    <3>3. Consulted' = Consulted /\ i \notin Consulted /\ Consulted \subseteq DebuggerSessionIds
      BY <2>3, <2>7, <3>2, ConsultedKnown DEF Consulted, Unreferenced
    <3>4. FlagsAgree => FlagsAgree'
      BY <3>2, <3>3, AgreeKept
    <3>5. /\ proxyJob'["monitor"].s = i /\ proxyJob'["monitor"].tab = t
          /\ proxyJob'["monitor"].at = "attachMonitor"
      <4>1. PICK duty : duty = [[proxyJob["monitor"] EXCEPT !.at = "attachMonitor"] EXCEPT !.s = i]
        OBVIOUS
      <4>2. duty.at = "attachMonitor" /\ duty.s = i /\ duty.tab = t
        BY <1>1, <1>2, <2>1, <4>1 DEF ProxyJobs, ResolveMonitor
      <4>3. proxyJob' = [proxyJob EXCEPT !["monitor"] = duty]
        BY <1>0, <2>5, <3>1, <4>1
      <4> QED
        BY <1>0, <4>2, <4>3
    <3>6. \A u \in Tabs : monitored'[u] # 0 => netSessions'[monitored'[u]].tab = u
      <4>1. ASSUME NEW u \in Tabs, monitored[u] # 0
            PROVE  netSessions'[monitored[u]].tab = u
        <5>1. monitored[u] \in Consulted
          BY <4>1 DEF Consulted
        <5> QED
          BY <3>2, <3>3, <4>1, <5>1 DEF MonitorsPlaced, TabOf
      <4> QED
        BY <3>2, <4>1
    <3>7. MonitorsPlaced'
      BY <2>3, <2>7, <3>1, <3>2, <3>5, <3>6 DEF MonitorsPlaced, TabOf
    <3> QED
      BY <3>4, <3>7
  <2> QED
    BY <2>6, <2>7
<1>3. CASE AttachMonitor
  <2>1. PICK t, i : t = proxyJob["monitor"].tab /\ i = proxyJob["monitor"].s
    OBVIOUS
  <2>2. t \in Tabs /\ i \in DebuggerSessionIds /\ TabOf(i) = t
    BY <1>1, <1>3, <2>1 DEF AttachMonitor, MonitorsPlaced
  <2>3. /\ \/ UNCHANGED <<attached, netSessions, monitored>>
           \/ /\ attached' = attached \cup {t}
              /\ netSessions' = [netSessions EXCEPT ![i].attached = TRUE]
              /\ monitored' = [monitored EXCEPT ![t] = i]
        /\ proxyJob'["monitor"].at = "idle" /\ UNCHANGED activeSession
    BY <1>0, <1>3, <2>1 DEF AttachMonitor
  <2>4. CASE UNCHANGED <<attached, netSessions, monitored>>
    <3>1. MonitorsPlaced'
      BY <2>3, <2>4, PlacedKept
    <3> QED
      BY <2>3, <2>4, <3>1, AgreeUntouched
  <2>5. CASE /\ attached' = attached \cup {t}
             /\ netSessions' = [netSessions EXCEPT ![i].attached = TRUE]
             /\ monitored' = [monitored EXCEPT ![t] = i]
    <3>1. \A k \in DebuggerSessionIds :
            /\ netSessions'[k].tab = netSessions[k].tab
            /\ netSessions'[k].attached = IF k = i THEN TRUE ELSE netSessions[k].attached
      BY <1>0, <2>5, AttachedFlag
    <3>2. \A u \in Tabs : monitored'[u] # 0 => netSessions'[monitored'[u]].tab = u
      <4>1. ASSUME NEW u \in Tabs, u # t, monitored'[u] # 0
            PROVE  netSessions'[monitored'[u]].tab = u
        <5>1. monitored'[u] = monitored[u] /\ monitored[u] \in DebuggerSessionIds
          BY <1>0, <2>5, <4>1
        <5> QED
          BY <3>1, <4>1, <5>1 DEF MonitorsPlaced, TabOf
      <4>2. monitored'[t] = i /\ netSessions'[i].tab = t
        BY <1>0, <2>2, <2>5, <3>1 DEF TabOf
      <4> QED
        BY <4>1, <4>2
    <3>3. MonitorsPlaced'
      BY <2>3, <3>2 DEF MonitorsPlaced, TabOf
    <3>4. \A k \in Consulted' : k = i \/ (k \in Consulted /\ k \in DebuggerSessionIds)
      BY <1>0, <2>3, <2>5, ConsultedKnown DEF Consulted
    <3>5. ASSUME FlagsAgree, NEW k \in Consulted', netSessions'[k].attached
          PROVE  netSessions'[k].tab \in attached'
      <4>1. CASE k = i
        BY <2>2, <2>5, <3>1, <4>1 DEF TabOf
      <4>2. CASE k # i
        BY <2>5, <3>1, <3>4, <3>5, <4>2 DEF FlagsAgree, TabOf
      <4> QED
        BY <4>1, <4>2
    <3> QED
      BY <3>3, <3>5 DEF FlagsAgree, TabOf
  <2> QED
    BY <2>3, <2>4, <2>5
<1>4. CASE MonitorDetached
  <2>1. PICK t, i : t = proxyJob["monitor"].tab /\ i = proxyJob["monitor"].s
    OBVIOUS
  <2>2. /\ proxyJob["monitor"].at = "detachMonitor"
        /\ t \in Tabs /\ i \in DebuggerSessionIds /\ TabOf(i) = t /\ monitored[t] = 0
    BY <1>1, <1>4, <2>1 DEF MonitorDetached, MonitorsPlaced
  <2>3. /\ attached' = attached \ {t} /\ netSessions' = [netSessions EXCEPT ![i].attached = FALSE]
        /\ proxyJob'["monitor"].at = "idle" /\ UNCHANGED <<activeSession, monitored>>
    BY <1>0, <1>4, <2>1 DEF MonitorDetached, Detached
  <2>4. \A k \in DebuggerSessionIds :
          /\ netSessions'[k].tab = netSessions[k].tab
          /\ netSessions'[k].attached = IF k = i THEN FALSE ELSE netSessions[k].attached
    BY <1>0, <2>3, AttachedFlag
  <2>5. MonitorsPlaced'
    BY <2>3, <2>4, PlacedKept
  <2>6. ASSUME t \in attached, ActiveOn(t), activeSession # i
        PROVE  Misstep
    BY <2>1, <2>2, <2>3, <2>6 DEF TwoObjects, Misstep
  <2>7. ASSUME FlagsAgree, ~(t \in attached /\ ActiveOn(t) /\ activeSession # i)
        PROVE  FlagsAgree'
    <3>1. Consulted' = Consulted /\ Consulted \subseteq DebuggerSessionIds
      BY <2>3, ConsultedKnown DEF Consulted
    <3>2. ASSUME NEW k \in Consulted, netSessions'[k].attached
          PROVE  netSessions[k].attached /\ (TabOf(k) \in attached => TabOf(k) \in attached')
      <4>1. netSessions[k].attached /\ k # i
        BY <2>4, <3>1, <3>2
      <4>2. ASSUME TabOf(k) = t, t \in attached
            PROVE  FALSE
        <5>1. k # activeSession
          BY <2>7, <3>2, <4>1, <4>2 DEF ActiveOn, Consulted
        <5>2. PICK u \in Tabs : k = monitored[u] /\ k # 0
          BY <3>2, <5>1 DEF Consulted
        <5>3. u = t
          BY <4>2, <5>2 DEF MonitorsPlaced
        <5> QED
          BY <2>2, <5>2, <5>3
      <4> QED
        BY <2>3, <4>1, <4>2
    <3> QED
      BY <2>4, <2>7, <3>1, <3>2, AgreeKept
  <2> QED
    BY <2>5, <2>6, <2>7
<1>5. ASSUME NEW t \in Tabs, StartMonitor(t)
      PROVE  MonitorsPlaced' /\ (FlagsAgree => FlagsAgree' \/ Misstep)
  <2>1. proxyJob'["monitor"].at = "resolve" /\ UNCHANGED <<netSessions, activeSession, attached, monitored>>
    BY <1>0, <1>5 DEF StartMonitor, Begin, chromeVars
  <2>2. MonitorsPlaced'
    BY <2>1, PlacedKept
  <2> QED
    BY <2>1, <2>2, AgreeUntouched
<1>6. ASSUME NEW t \in Tabs, StopMonitor(t)
      PROVE  MonitorsPlaced' /\ (FlagsAgree => FlagsAgree' \/ Misstep)
  <2>1. PICK i : i = monitored[t]
    OBVIOUS
  <2>2. i # 0 /\ i \in DebuggerSessionIds /\ TabOf(i) = t
    BY <1>0, <1>6, <2>1 DEF StopMonitor, MonitorsPlaced
  <2>3. /\ monitored' = [monitored EXCEPT ![t] = 0] /\ UNCHANGED <<netSessions, activeSession, attached>>
    BY <1>6 DEF StopMonitor, chromeVars
  <2>4. PICK duty : duty = [[Begin("monitor", t) EXCEPT !.at = "detachMonitor"] EXCEPT !.s = i]
    OBVIOUS
  <2>5. duty.at = "detachMonitor" /\ duty.tab = t /\ duty.s = i
    BY <2>4 DEF Begin
  <2>6. \/ proxyJob' = [proxyJob EXCEPT !["monitor"] = NoJob]
        \/ proxyJob' = [proxyJob EXCEPT !["monitor"] = duty]
    BY <1>6, <2>1, <2>4 DEF StopMonitor
  <2>7. proxyJob'["monitor"] = NoJob \/ proxyJob'["monitor"] = duty
    BY <1>0, <2>6
  <2>8. \A u \in Tabs : monitored'[u] \in {0, monitored[u]}
    BY <1>0, <2>3
  <2>9. MonitorsPlaced'
    BY <1>0, <2>2, <2>3, <2>5, <2>7, <2>8 DEF MonitorsPlaced, TabOf
  <2>10. Consulted' \subseteq Consulted
    BY <2>3, <2>8 DEF Consulted
  <2> QED
    BY <2>3, <2>9, <2>10, AgreeKept
<1> QED
  BY <1>2, <1>3, <1>4, <1>5, <1>6

LEMMA AgreeStep ==
  ASSUME DebuggerProxyAssumption, ProxyTypes, MonitorsPlaced, [ProxyNext]_proxyVars
  PROVE  MonitorsPlaced' /\ (FlagsAgree => FlagsAgree' \/ Misstep)
<1>1. ASSUME UNCHANGED <<netSessions, activeSession, attached, monitored, proxyJob>>
      PROVE  MonitorsPlaced' /\ (FlagsAgree => FlagsAgree' \/ Misstep)
  <2>1. MonitorsPlaced'
    BY <1>1, PlacedKept
  <2> QED
    BY <1>1, <2>1, AgreeUntouched
<1>2. ASSUME NEW t \in Tabs, SelectTab(t)
      PROVE  MonitorsPlaced' /\ (FlagsAgree => FlagsAgree' \/ Misstep)
  BY <1>1, <1>2 DEF SelectTab, chromeVars
<1>3. ASSUME NEW r \in Requests, AnswerRequest(r) \/ RefuseAlteration(r) \/ \E t \in Tabs : PauseRequest(r, t)
      PROVE  MonitorsPlaced' /\ (FlagsAgree => FlagsAgree' \/ Misstep)
  BY <1>1, <1>3 DEF AnswerRequest, RefuseAlteration, PauseRequest
<1>4. CASE UNCHANGED proxyVars
  BY <1>1, <1>4 DEF proxyVars
<1> QED
  BY <1>2, <1>3, <1>4, AgreeJobStep, AgreeToolStep, AgreeMonitorStep DEF ProxyNext

\* On any number of tabs, however tool calls, monitors, reattachments, restore loops,
\* detachments and refusals run into each other while the debugger goes from tab to
\* tab: a session is taken for attached to a tab Chrome has let go of only by one of
\* the missteps, and no request of a page is forgotten.
THEOREM SessionStaysSound == ProxySpec => SessionIsSound
<1>1. ProxyInit => HeldInv /\ ProxyTypes /\ MonitorsPlaced
  <2> SUFFICES ASSUME ProxyInit
               PROVE  HeldInv /\ ProxyTypes /\ MonitorsPlaced
    OBVIOUS
  <2>1. HeldInv /\ ProxyTypes
    BY ProxyTypesStart, DebuggerProxyAssumption
  <2>2. MonitorsPlaced
    BY DEF ProxyInit, MonitorsPlaced, NoJob, Jobs
  <2> QED
    BY <2>1, <2>2
<1>2. /\ HeldInv /\ ProxyTypes /\ MonitorsPlaced
      /\ [ProxyNext]_proxyVars
      => (HeldInv /\ ProxyTypes /\ MonitorsPlaced)'
  BY HeldStep, ProxyTypesStep, AgreeStep, DebuggerProxyAssumption
<1>3. HeldInv => NoRequestStuck
  BY DEF HeldInv
<1>4. ProxyTypes /\ MonitorsPlaced /\ [ProxyNext]_proxyVars => [FlagsAgree => FlagsAgree' \/ Misstep]_proxyVars
  BY AgreeStep, DebuggerProxyAssumption
<1> QED
  BY <1>1, <1>2, <1>3, <1>4, PTL DEF ProxySpec, SessionIsSound

-----------------------------------------------------------------------------
(* BrowserWorkflow *)

\* The actions up to which calls have been sent.
SentSoFar == IF phase = "call" THEN last ELSE at - 1
CoversAction(i, a) == i \in DOMAIN callQueue /\ a \in Actions /\ callQueue[i].from <= a /\ a <= callQueue[i].to
Queued(a) == \E i \in DOMAIN callQueue : CoversAction(i, a)

QueuedCalls == [from : Actions, to : Actions]
ActionOutcomes == {"none", "completed", "skipped", "failed"}

WorkflowTyped ==
  /\ phase \in {"idle", "preconditions", "stage", "call", "cleanup", "observe", "checks", "over"}
  /\ at \in Nat \ {0} /\ last \in Nat
  /\ tookEffect \in [Actions -> Nat]
  /\ result \in [Actions -> ActionOutcomes]
  /\ callQueue \in Seq(QueuedCalls)
  /\ stopped \in BOOLEAN /\ trouble \in {"none", "condition", "observation", "cleanup", "checks"}

\* The calls of the extension's queue are in the order of the actions.
QueueInOrder ==
  /\ \A i \in DOMAIN callQueue : callQueue[i].from <= callQueue[i].to /\ callQueue[i].to <= SentSoFar
  /\ \A i, j \in DOMAIN callQueue : i < j => callQueue[i].to < callQueue[j].from

\* What waits in the queue, or has not been sent, has had no effect yet.
EffectsInOrder ==
  /\ \A a \in Actions : tookEffect[a] <= 1
  /\ \A a \in Actions : a > SentSoFar => tookEffect[a] = 0
  /\ callQueue # <<>> => \A a \in Actions : a >= callQueue[1].from => tookEffect[a] = 0

\* The call the workflow waits for: the last of the queue until it is answered.
CallIsLast ==
  /\ phase = "call" => at \in Actions /\ at <= last /\ last \in Actions /\ \A a \in at..last : Ready(a)
  /\ phase = "call" /\ answer = "none" =>
       /\ callQueue # <<>> /\ callQueue[Len(callQueue)].to = last /\ at <= callQueue[Len(callQueue)].from
       /\ \A a \in at..last : a < callQueue[Len(callQueue)].from => tookEffect[a] = 1
       /\ \A i \in DOMAIN callQueue : i < Len(callQueue) => callQueue[i].to < at
  /\ phase = "call" /\ answer # "none" => callQueue = <<>>
  /\ phase = "call" /\ answer = "completed" => \A a \in at..last : tookEffect[a] = 1
  /\ phase # "call" => answer = "none"

ResultsSound ==
  /\ \A a \in Actions : a >= at => result[a] = "none"
  /\ \A a \in Actions : result[a] = "completed" => tookEffect[a] = 1
  /\ \A a \in Actions : result[a] = "skipped" => tookEffect[a] = 0 /\ ~Queued(a)
  /\ \A a \in Actions : Queued(a) => Ready(a)
  /\ \A a \in Actions : tookEffect[a] > 0 => Ready(a)

\* Unless it is said to have stopped, the stage has completed all it has passed.
StatusSound ==
  /\ phase = "idle" => at = 1 /\ callQueue = <<>>
  /\ phase # "idle" => plan \in Plans
  /\ ~stopped => \A a \in Actions : a < at => result[a] = "completed"
  /\ phase \in {"cleanup", "observe", "checks"} /\ trouble = "none" /\ ~stopped => at > Length
  /\ status = "completed" => phase = "over" /\ \A a \in Actions : result[a] = "completed"

WorkflowInv ==
  WorkflowTyped /\ QueueInOrder /\ EffectsInOrder /\ CallIsLast /\ ResultsSound /\ StatusSound

\* Every action depends on earlier ones; a plan in which one depends on a later one, which
\* the schema accepts, skips it whatever the later one does.
BackwardPlans == \A p \in Plans : \A a \in Actions : \A d \in p.needs[a] : d < a

\* A set of actions has a last one.
LEMMA GreatestExists ==
  ASSUME NEW n \in Nat, NEW S, S \subseteq 1..n, S # {}
  PROVE  \E a \in S : \A b \in S : b <= a
<1> DEFINE Above == {m \in Nat : \A b \in S : b <= m}
           less == OpToRel(<, Nat)
<1>1. n \in Above
  OBVIOUS
<1>2. \E m \in Above : \A k \in Above : <<k, m>> \notin less
  <2>1. Above \subseteq Nat /\ Above # {}
    BY <1>1
  <2> HIDE DEF Above
  <2> QED
    BY <2>1, NatLessThanWellFounded, WFMin
<1>3. \A i, j \in Nat : j < i => <<j, i>> \in less
  BY DEF OpToRel
<1> HIDE DEF less
<1>4. PICK m \in Above : \A k \in Above : <<k, m>> \notin less
  BY <1>2
<1>5. \A k \in Above : ~(k < m)
  BY <1>3, <1>4
<1>6. m \in S
  <2> SUFFICES ASSUME m \notin S
               PROVE  FALSE
    OBVIOUS
  <2>1. PICK b \in S : TRUE
    OBVIOUS
  <2>2. m >= 1 /\ m \in Nat
    BY <2>1
  <2>3. m - 1 \in Above
    BY <2>2
  <2> QED
    BY <1>5, <2>2, <2>3
<1> QED
  BY <1>6

LEMMA TailIs ==
  ASSUME NEW C, NEW q \in Seq(C), q # <<>>
  PROVE  /\ Tail(q) \in Seq(C) /\ Len(Tail(q)) = Len(q) - 1 /\ 1 \in DOMAIN q
         /\ Len(q) \in Nat /\ DOMAIN q = 1..Len(q) /\ DOMAIN Tail(q) = 1..Len(q) - 1
         /\ \A i \in DOMAIN Tail(q) : i + 1 \in DOMAIN q /\ Tail(q)[i] = q[i + 1]
<1>1. Len(q) \in Nat \ {0} /\ DOMAIN q = 1..Len(q)
  BY EmptySeq
<1>2. Tail(q) \in Seq(C) /\ Len(Tail(q)) = Len(q) - 1
  BY <1>1
<1>3. \A i \in 1..Len(q) - 1 : Tail(q)[i] = q[i + 1]
  BY <1>1
<1>4. DOMAIN Tail(q) = 1..Len(q) - 1
  BY <1>2
<1> QED
  BY <1>1, <1>2, <1>3, <1>4

\* A batch is what lies between its first action and its last one, and all of it is
\* ready.
LEMMA BatchReady ==
  ASSUME NEW first \in Actions, Ready(first), NEW to \in Batch(first), Actions \subseteq Nat
  PROVE  to \in Actions /\ first <= to /\ \A a \in first..to : Ready(a)
<1>1. CASE to = first
  BY <1>1
<1>2. CASE to # first
  <2>1. to \in Actions /\ to > first /\ \A b \in first..to : Joins(first, b)
    BY <1>2 DEF Batch
  <2> QED
    BY <2>1 DEF Joins
<1> QED
  BY <1>1, <1>2

LEMMA BatchIs ==
  ASSUME BrowserWorkflowAssumption, NEW first \in Actions, Ready(first),
         NEW to, to = CHOOSE a \in Batch(first) : \A b \in Batch(first) : b <= a
  PROVE  to \in Actions /\ first <= to /\ \A a \in first..to : Ready(a)
<1>1. Length \in Nat
  BY DEF BrowserWorkflowAssumption
<1>2. Batch(first) \subseteq 1..Length /\ first \in Batch(first)
  BY DEF Batch, Actions
<1>3. to \in Batch(first)
  <2>1. \E a \in Batch(first) : \A b \in Batch(first) : b <= a
    BY <1>1, <1>2, GreatestExists
  <2> QED
    BY <2>1
<1>4. Actions \subseteq Nat
  BY <1>1 DEF Actions
<1> QED
  BY <1>3, <1>4, BatchReady

LEMMA WorkflowStep ==
  ASSUME BrowserWorkflowAssumption, BackwardPlans, WorkflowInv, [WorkflowNext]_workflowVars
  PROVE  WorkflowInv'
<1>0. /\ at \in Nat \ {0} /\ last \in Nat /\ tookEffect \in [Actions -> Nat] /\ result \in [Actions -> ActionOutcomes]
      /\ callQueue \in Seq(QueuedCalls) /\ stopped \in BOOLEAN
      /\ phase \in {"idle", "preconditions", "stage", "call", "cleanup", "observe", "checks", "over"}
      /\ trouble \in {"none", "condition", "observation", "cleanup", "checks"}
      /\ Length \in Nat /\ Actions = 1..Length
  BY DEF WorkflowInv, WorkflowTyped, BrowserWorkflowAssumption, Actions
<1>1. \A a \in Actions : a \in Nat /\ a >= 1
  BY <1>0
<1>2. DOMAIN callQueue = 1..Len(callQueue) /\ Len(callQueue) \in Nat
      /\ \A i \in DOMAIN callQueue : callQueue[i].from \in Actions /\ callQueue[i].to \in Actions
  <2>1. DOMAIN callQueue = 1..Len(callQueue) /\ Len(callQueue) \in Nat
        /\ \A i \in DOMAIN callQueue : callQueue[i] \in QueuedCalls
    BY <1>0
  <2> QED
    BY <2>1 DEF QueuedCalls
\* A step that moves no call and no result.
<1>a. ASSUME UNCHANGED <<plan, at, last, callQueue, answer, tookEffect, result>>,
             (phase' = "call") <=> (phase = "call"), WorkflowTyped', StatusSound'
      PROVE  WorkflowInv'
  <2>1. SentSoFar' = SentSoFar
    BY <1>a DEF SentSoFar
  <2>2. QueueInOrder' /\ EffectsInOrder'
    BY <1>a, <2>1 DEF WorkflowInv, QueueInOrder, EffectsInOrder
  <2>3. \A a : Ready(a)' = Ready(a) /\ Queued(a)' = Queued(a)
    BY <1>a DEF Ready, Queued, CoversAction
  <2>4. CallIsLast' /\ ResultsSound'
    BY <1>a, <2>3 DEF WorkflowInv, CallIsLast, ResultsSound
  <2> QED
    BY <1>a, <2>2, <2>4 DEF WorkflowInv
<1>3. ASSUME phase = "idle", NEW p \in Plans, StartWorkflow(p)
      PROVE  WorkflowInv'
  <2>1. /\ UNCHANGED <<at, last, callQueue, answer, tookEffect, result, stopped, trouble>> /\ plan' = p
        /\ phase' \in {"preconditions", "over"} /\ status' \in {status, "failed"}
    BY <1>3 DEF StartWorkflow
  <2>2. at = 1 /\ callQueue = <<>> /\ answer = "none" /\ SentSoFar = 0 /\ SentSoFar' = 0
    BY <1>3, <2>1 DEF WorkflowInv, StatusSound, CallIsLast, SentSoFar
  <2>3. WorkflowTyped' /\ StatusSound'
    BY <1>0, <1>1, <1>3, <2>1, <2>2 DEF WorkflowInv, WorkflowTyped, StatusSound
  <2>4. QueueInOrder' /\ EffectsInOrder' /\ CallIsLast'
    BY <2>1, <2>2 DEF WorkflowInv, QueueInOrder, EffectsInOrder, CallIsLast
  <2>5. \A a \in Actions : ~Queued(a)' /\ ~Queued(a) /\ tookEffect[a] = 0
    BY <1>1, <2>1, <2>2 DEF WorkflowInv, EffectsInOrder, Queued, CoversAction
  <2>6. ResultsSound'
    BY <2>1, <2>5 DEF WorkflowInv, ResultsSound
  <2> QED
    BY <2>3, <2>4, <2>6 DEF WorkflowInv
<1>4. CASE VerifyPreconditions \/ RefuseSelectors \/ EndStage \/ CleanUp \/ ObserveAfter \/ VerifyChecks \/ TabNavigates
  <2>1. UNCHANGED <<plan, at, last, callQueue, answer, tookEffect, result, stopped>>
    BY <1>4 DEF VerifyPreconditions, RefuseSelectors, EndStage, CleanUp, ObserveAfter, VerifyChecks, TabNavigates
  <2>2. (phase' = "call") <=> (phase = "call")
    BY <1>4 DEF VerifyPreconditions, RefuseSelectors, EndStage, CleanUp, ObserveAfter, VerifyChecks, TabNavigates
  <2>3. WorkflowTyped'
    BY <1>0, <1>4, <2>1 DEF VerifyPreconditions, RefuseSelectors, EndStage, CleanUp, ObserveAfter, VerifyChecks, TabNavigates,
                            WorkflowTyped
  <2>4. StatusSound'
    <3>1. status = "completed" => phase = "over"
      BY DEF WorkflowInv, StatusSound
    <3>2. CASE VerifyPreconditions \/ RefuseSelectors \/ EndStage \/ CleanUp \/ ObserveAfter \/ TabNavigates
      <4>1. status' = "completed" => status = "completed" /\ phase' = "over" /\ phase = "over"
        BY <3>1, <3>2 DEF VerifyPreconditions, RefuseSelectors, EndStage, CleanUp, ObserveAfter, TabNavigates
      <4>2. phase' \in {"cleanup", "observe", "checks"} /\ trouble' = "none" /\ ~stopped => at > Length
        BY <3>2 DEF WorkflowInv, StatusSound, VerifyPreconditions, RefuseSelectors, EndStage, CleanUp, ObserveAfter, TabNavigates
      <4>3. (phase # "idle" /\ phase' # "idle") \/ phase' = phase
        BY <3>2 DEF VerifyPreconditions, RefuseSelectors, EndStage, CleanUp, ObserveAfter, TabNavigates
      <4> QED
        BY <2>1, <4>1, <4>2, <4>3 DEF WorkflowInv, StatusSound
    <3>3. CASE VerifyChecks
      <4>1. phase = "checks" /\ phase' = "over"
        BY <3>3 DEF VerifyChecks
      <4>2. status' = "completed" => trouble = "none" /\ ~stopped
        BY <1>0, <3>3 DEF VerifyChecks, StatusFor
      <4>3. status' = "completed" => \A a \in Actions : result[a] = "completed"
        <5> SUFFICES ASSUME status' = "completed", NEW a \in Actions
                     PROVE  result[a] = "completed"
          OBVIOUS
        <5>1. at > Length /\ ~stopped
          BY <4>1, <4>2 DEF WorkflowInv, StatusSound
        <5> QED
          BY <1>0, <5>1 DEF WorkflowInv, StatusSound
      <4> QED
        BY <2>1, <4>1, <4>3 DEF WorkflowInv, StatusSound
    <3> QED
      BY <1>4, <3>2, <3>3
  <2> QED
    BY <1>a, <2>1, <2>2, <2>3, <2>4
<1>5. CASE SkipAction
  <2>1. /\ phase = "stage" /\ at \in Actions /\ ~Ready(at)
        /\ result' = [result EXCEPT ![at] = "skipped"] /\ at' = at + 1
        /\ UNCHANGED <<plan, phase, last, callQueue, answer, tookEffect, stopped, trouble, status>>
    BY <1>5 DEF SkipAction
  <2>2. SentSoFar = at - 1 /\ SentSoFar' = at
    BY <1>0, <2>1 DEF SentSoFar
  <2>3. result[at] = "none" /\ \A a \in Actions : result'[a] = IF a = at THEN "skipped" ELSE result[a]
    BY <1>0, <2>1 DEF WorkflowInv, ResultsSound
  <2>4. plan \in Plans /\ plan.needs \in [Actions -> SUBSET Actions]
    BY <2>1 DEF WorkflowInv, StatusSound, BrowserWorkflowAssumption
  <2>5. stopped
    <3>1. PICK d \in plan.needs[at] : result[d] # "completed"
      BY <2>1 DEF Ready
    <3>2. d \in Actions /\ d < at
      BY <2>1, <2>4, <3>1 DEF BackwardPlans
    <3> QED
      BY <1>0, <3>1, <3>2 DEF WorkflowInv, StatusSound
  <2>6. \A a \in Actions : Ready(a) => Ready(a)'
    BY <2>1, <2>3, <2>4 DEF Ready
  <2>7. WorkflowTyped'
    BY <1>0, <2>1, <2>3 DEF WorkflowTyped, ActionOutcomes
  <2>13. QueueInOrder'
    BY <1>0, <1>1, <1>2, <2>1, <2>2 DEF WorkflowInv, QueueInOrder
  <2>14. EffectsInOrder'
    <3>1. /\ \A a \in Actions : tookEffect[a] <= 1
          /\ \A a \in Actions : a > SentSoFar => tookEffect[a] = 0
          /\ callQueue # <<>> => \A a \in Actions : a >= callQueue[1].from => tookEffect[a] = 0
      BY DEF WorkflowInv, EffectsInOrder
    <3>2. \A a \in Actions : a > SentSoFar' => tookEffect[a] = 0
      BY <1>0, <1>1, <2>2, <3>1
    <3> QED
      BY <2>1, <3>1, <3>2 DEF EffectsInOrder
  <2>15. CallIsLast'
    BY <2>1 DEF WorkflowInv, CallIsLast
  <2>9. tookEffect[at] = 0 /\ ~Queued(at)
    BY <1>0, <1>2, <2>1, <2>2 DEF WorkflowInv, EffectsInOrder, QueueInOrder, Queued, CoversAction
  <2>10. \A a : Queued(a)' = Queued(a)
    BY <2>1 DEF Queued, CoversAction
  <2>11. ResultsSound'
    BY <1>0, <1>1, <2>1, <2>3, <2>6, <2>9, <2>10 DEF WorkflowInv, ResultsSound
  <2>12. StatusSound'
    BY <2>1, <2>5 DEF WorkflowInv, StatusSound
  <2> QED
    BY <2>7, <2>11, <2>12, <2>13, <2>14, <2>15 DEF WorkflowInv
<1>6. CASE CallAction
  <2>1. PICK to : /\ to = CHOOSE a \in Batch(at) : \A b \in Batch(at) : b <= a
                  /\ last' = to /\ callQueue' = Append(callQueue, [from |-> at, to |-> to])
    BY <1>6 DEF CallAction
  <2>2. /\ phase = "stage" /\ at \in Actions /\ Ready(at) /\ phase' = "call" /\ answer' = "none"
        /\ UNCHANGED <<plan, at, tookEffect, result, stopped, trouble, status>>
    BY <1>6 DEF CallAction
  <2>3. to \in Actions /\ at <= to /\ \A a \in at..to : Ready(a)
    BY <2>1, <2>2, BatchIs
  <2>4. SentSoFar = at - 1 /\ SentSoFar' = to
    BY <1>0, <2>1, <2>2 DEF SentSoFar
  <2>5. [from |-> at, to |-> to] \in QueuedCalls
    BY <2>2, <2>3 DEF QueuedCalls
  <2>6. /\ callQueue' \in Seq(QueuedCalls) /\ Len(callQueue') = Len(callQueue) + 1
        /\ \A i \in 1..Len(callQueue) : callQueue'[i] = callQueue[i]
        /\ callQueue'[Len(callQueue) + 1] = [from |-> at, to |-> to]
    BY <1>0, <2>1, <2>5, AppendProperties
  <2>7. DOMAIN callQueue' = 1..Len(callQueue) + 1
    BY <2>6
  <2>8. \A i \in DOMAIN callQueue : callQueue'[i] = callQueue[i] /\ callQueue[i].to <= at - 1
    BY <1>2, <2>4, <2>6 DEF WorkflowInv, QueueInOrder
  <2> DEFINE n == Len(callQueue) + 1
  <2>9. callQueue'[n].from = at /\ callQueue'[n].to = to
    BY <2>6
  <2>10. WorkflowTyped'
    BY <1>0, <2>1, <2>2, <2>3, <2>6 DEF WorkflowTyped
  <2>11. QueueInOrder'
    <3>1. \A i \in DOMAIN callQueue' : callQueue'[i].from <= callQueue'[i].to /\ callQueue'[i].to <= SentSoFar'
      <4>1. ASSUME NEW i \in DOMAIN callQueue
            PROVE  callQueue'[i].from <= callQueue'[i].to /\ callQueue'[i].to <= SentSoFar'
        <5>1. callQueue[i].from <= callQueue[i].to /\ callQueue[i].to <= at - 1 /\ callQueue[i].to \in Nat
              /\ callQueue'[i] = callQueue[i]
          BY <1>1, <1>2, <2>8, <4>1 DEF WorkflowInv, QueueInOrder
        <5> QED
          BY <1>0, <2>3, <2>4, <5>1
      <4>2. callQueue'[n].from <= callQueue'[n].to /\ callQueue'[n].to <= SentSoFar'
        BY <1>1, <2>3, <2>4, <2>9
      <4> QED
        BY <1>2, <2>7, <4>1, <4>2
    <3>2. ASSUME NEW i \in DOMAIN callQueue', NEW j \in DOMAIN callQueue', i < j
          PROVE  callQueue'[i].to < callQueue'[j].from
      <4>1. i \in DOMAIN callQueue /\ (j = n \/ j \in DOMAIN callQueue)
        BY <1>2, <2>7, <3>2
      <4>2. CASE j = n
        BY <1>0, <1>2, <2>8, <2>9, <4>1, <4>2
      <4>3. CASE j \in DOMAIN callQueue
        BY <2>8, <3>2, <4>1, <4>3 DEF WorkflowInv, QueueInOrder
      <4> QED
        BY <4>1, <4>2, <4>3
    <3> QED
      BY <3>1, <3>2 DEF QueueInOrder
  <2>12. callQueue # <<>> => 1 \in DOMAIN callQueue
    BY <1>2, EmptySeq
  <2>13. EffectsInOrder'
    <3>1. \A a \in Actions : a >= at => tookEffect[a] = 0
      BY <1>0, <1>1, <2>4 DEF WorkflowInv, EffectsInOrder
    <3>2. \A a \in Actions : a > SentSoFar' => tookEffect'[a] = 0
      BY <1>0, <1>1, <2>2, <2>3, <2>4, <3>1
    <3>3. \A a \in Actions : a >= callQueue'[1].from => tookEffect[a] = 0
      <4>1. CASE callQueue = <<>>
        BY <2>9, <3>1, <4>1
      <4>2. CASE callQueue # <<>>
        BY <2>8, <2>12, <4>2 DEF WorkflowInv, EffectsInOrder
      <4> QED
        BY <4>1, <4>2
    <3> QED
      BY <2>2, <3>2, <3>3 DEF WorkflowInv, EffectsInOrder
  <2>14. \A a : Ready(a)' = Ready(a)
    BY <2>2 DEF Ready
  <2>15. CallIsLast'
    <3>1. /\ callQueue' # <<>> /\ Len(callQueue') = n /\ at <= callQueue'[n].from /\ callQueue'[n].to = to
      BY <1>0, <1>2, <2>6, <2>7, <2>9, EmptySeq
    <3>2. \A a \in at..to : a < callQueue'[n].from => tookEffect'[a] = 1
      BY <1>0, <2>3, <2>9
    <3>3. \A i \in DOMAIN callQueue' : i < n => callQueue'[i].to < at
      <4>1. ASSUME NEW i \in DOMAIN callQueue', i < n
            PROVE  callQueue'[i].to < at
        <5>1. i \in DOMAIN callQueue
          BY <1>2, <2>7, <4>1
        <5>2. callQueue'[i].to <= at - 1 /\ callQueue'[i].to \in Nat
          BY <1>1, <1>2, <2>8, <5>1
        <5> QED
          BY <1>0, <5>2
      <4> QED
        BY <4>1
    <3>4. /\ at' = at /\ last' = to /\ phase' = "call" /\ answer' = "none" /\ to \in Actions /\ at \in Actions
          /\ at <= to /\ \A a \in at..to : Ready(a)'
      BY <2>1, <2>2, <2>3, <2>14
    <3> QED
      BY <3>1, <3>2, <3>3, <3>4 DEF CallIsLast
  <2>16. \A a \in Actions : Queued(a)' => Queued(a) \/ a \in at..to
    <3>1. ASSUME NEW a \in Actions, NEW i \in DOMAIN callQueue', CoversAction(i, a)'
          PROVE  Queued(a) \/ a \in at..to
      <4>1. CASE i \in DOMAIN callQueue
        BY <2>8, <3>1, <4>1 DEF Queued, CoversAction
      <4>2. CASE i = n
        BY <1>0, <1>1, <2>2, <2>3, <2>9, <3>1, <4>2 DEF CoversAction
      <4> QED
        BY <1>2, <2>7, <4>1, <4>2
    <3> QED
      BY <3>1 DEF Queued, CoversAction
  <2>17. ResultsSound'
    <3>1. \A a \in Actions : result[a] = "skipped" => ~(a \in at..to)
      BY <1>0, <1>1, <2>3 DEF WorkflowInv, ResultsSound
    <3> QED
      BY <2>2, <2>3, <2>14, <2>16, <3>1 DEF WorkflowInv, ResultsSound
  <2>18. StatusSound'
    BY <2>2 DEF WorkflowInv, StatusSound
  <2> QED
    BY <2>10, <2>11, <2>13, <2>15, <2>17, <2>18 DEF WorkflowInv
<1>7. CASE ActionCompleted \/ ActionFailed
  <2>1. PICK r \in {"completed", "failed"} :
          /\ result' = [a \in Actions |-> IF a \in at..last THEN r ELSE result[a]]
          /\ r = "failed" => stopped'
          /\ r = "completed" => answer = "completed"
    BY <1>7 DEF ActionCompleted, ActionFailed
  <2>2. /\ phase = "call" /\ at' = last + 1 /\ answer' = "none" /\ phase' \in {"stage", "cleanup"}
        /\ phase' = "cleanup" => stopped'
        /\ stopped => stopped'
        /\ stopped' \in BOOLEAN
        /\ UNCHANGED <<plan, last, callQueue, tookEffect, trouble, status>>
    BY <1>0, <1>7 DEF ActionCompleted, ActionFailed, NextAction
  <2>3. SentSoFar = last /\ SentSoFar' = last /\ at <= last /\ last \in Actions /\ at \in Actions
    BY <1>0, <2>2 DEF WorkflowInv, CallIsLast, SentSoFar
  <2>4. \A a \in Actions : result'[a] = IF a \in at..last THEN r ELSE result[a]
    BY <2>1
  <2>5. \A a \in at..last : a \in Actions /\ result[a] = "none"
    BY <1>0, <1>1, <2>3 DEF WorkflowInv, ResultsSound
  <2>6. plan.needs \in [Actions -> SUBSET Actions]
    BY <2>2 DEF WorkflowInv, StatusSound, BrowserWorkflowAssumption
  <2>7. \A a \in Actions : Ready(a) => Ready(a)'
    BY <2>2, <2>4, <2>5, <2>6 DEF Ready
  <2>8. \A a : Queued(a)' = Queued(a)
    BY <2>2 DEF Queued, CoversAction
  <2>9. WorkflowTyped'
    <3>1. result' \in [Actions -> ActionOutcomes]
      BY <1>0, <2>1 DEF ActionOutcomes
    <3>2. at' \in Nat \ {0} /\ last' \in Nat
      BY <1>0, <2>2
    <3>3. stopped' \in BOOLEAN /\ phase' \in {"stage", "cleanup"}
      BY <2>2
    <3> QED
      BY <1>0, <2>2, <3>1, <3>2, <3>3 DEF WorkflowTyped
  <2>10. QueueInOrder' /\ EffectsInOrder'
    BY <2>2, <2>3 DEF WorkflowInv, QueueInOrder, EffectsInOrder
  <2>11. CallIsLast'
    BY <2>2 DEF CallIsLast
  <2>12. r = "completed" => \A a \in at..last : tookEffect[a] = 1
    BY <2>1, <2>2 DEF WorkflowInv, CallIsLast
  <2>13. ResultsSound'
    <3>1. \A a \in Actions : a >= at' => result'[a] = "none"
      BY <1>0, <1>1, <2>2, <2>3, <2>4 DEF WorkflowInv, ResultsSound
    <3>2. \A a \in Actions : result'[a] = "completed" => tookEffect'[a] = 1
      BY <2>2, <2>4, <2>12 DEF WorkflowInv, ResultsSound
    <3>3. \A a \in Actions : result'[a] = "skipped" => result[a] = "skipped"
      BY <2>1, <2>4
    <3> QED
      BY <2>2, <2>7, <2>8, <3>1, <3>2, <3>3 DEF WorkflowInv, ResultsSound
  <2>14. StatusSound'
    <3>1. ~stopped' => \A a \in Actions : a < at' => result'[a] = "completed"
      BY <1>0, <1>1, <2>1, <2>2, <2>3, <2>4 DEF WorkflowInv, StatusSound
    <3> QED
      BY <2>2, <3>1 DEF WorkflowInv, StatusSound
  <2> QED
    BY <2>9, <2>10, <2>11, <2>13, <2>14 DEF WorkflowInv
<1>8. CASE TakeEffect \/ RefuseEffect
  <2> DEFINE f == callQueue[1].from
             t == callQueue[1].to
             n == Len(callQueue)
  <2>1. /\ callQueue # <<>> /\ UNCHANGED <<plan, at, last, phase, result, stopped, trouble, status>>
        /\ 1 \in DOMAIN callQueue /\ n \in Nat /\ n >= 1 /\ Head(callQueue) = callQueue[1]
    <3>1. callQueue # <<>> /\ UNCHANGED <<plan, at, last, phase, result, stopped, trouble, status>>
      BY <1>8 DEF TakeEffect, RefuseEffect
    <3> QED
      BY <1>0, <1>2, <3>1, EmptySeq
  <2>2. /\ f \in Actions /\ t \in Actions /\ f <= t /\ t <= SentSoFar /\ SentSoFar' = SentSoFar /\ tookEffect[f] = 0
        /\ f \in Nat /\ t \in Nat /\ SentSoFar \in Nat
    <3>5. SentSoFar \in Nat
      BY <1>0 DEF SentSoFar
    <3>1. f \in Actions /\ t \in Actions
      BY <1>2, <2>1
    <3>2. f <= t /\ t <= SentSoFar
      BY <2>1 DEF WorkflowInv, QueueInOrder
    <3>3. SentSoFar' = SentSoFar
      BY <2>1 DEF SentSoFar
    <3>4. tookEffect[f] = 0
      BY <1>1, <2>1, <3>1 DEF WorkflowInv, EffectsInOrder
    <3> QED
      BY <1>1, <3>1, <3>2, <3>3, <3>4, <3>5
  <2>3. \A a : Ready(a)' = Ready(a)
    BY <2>1 DEF Ready
  <2>4. StatusSound'
    <3>1. phase # "idle"
      BY <2>1 DEF WorkflowInv, StatusSound
    <3> QED
      BY <2>1, <3>1 DEF WorkflowInv, StatusSound
  <2> HIDE DEF f, t, n
  <2>5. CoversAction(1, f)
    BY <2>1, <2>2 DEF CoversAction, f, t
  <2>6. result[f] # "skipped" /\ Ready(f)
    <3>1. f \in Actions /\ Queued(f)
      BY <2>2, <2>5 DEF Queued, CoversAction
    <3> QED
      BY <3>1 DEF WorkflowInv, ResultsSound
  \* What becomes of the effects and of the queue.
  <2>7. \/ UNCHANGED tookEffect
        \/ /\ tookEffect' = [tookEffect EXCEPT ![f] = @ + 1]
           /\ \A a \in Actions : tookEffect'[a] = IF a = f THEN 1 ELSE tookEffect[a]
    <3>1. tookEffect' = tookEffect \/ tookEffect' = [tookEffect EXCEPT ![f] = @ + 1]
      BY <1>8, <2>1 DEF TakeEffect, RefuseEffect, f
    <3> QED
      BY <1>0, <2>2, <3>1
  <2>8. tookEffect' \in [Actions -> Nat]
    BY <1>0, <2>2, <2>7
  <2>14. \A a \in Actions : tookEffect'[a] = tookEffect[a] \/ (a = f /\ tookEffect'[a] = 1)
    BY <2>7
  <2>9. ASSUME callQueue' = Tail(callQueue),
               answer' = answer \/ (phase = "call" /\ n = 1 /\ answer' \in {"completed", "failed"}),
               phase = "call" /\ n = 1 => answer' \in {"completed", "failed"},
               answer' = "completed" => phase = "call" /\ n = 1 /\ f = t /\ tookEffect' = [tookEffect EXCEPT ![f] = @ + 1]
        PROVE  WorkflowInv'
    <3>1. /\ callQueue' \in Seq(QueuedCalls) /\ Len(callQueue') = n - 1
          /\ DOMAIN callQueue = 1..n /\ DOMAIN callQueue' = 1..n - 1
          /\ \A i \in DOMAIN callQueue' : i + 1 \in DOMAIN callQueue /\ callQueue'[i] = callQueue[i + 1]
      <4> HIDE DEF n
      <4>1. callQueue \in Seq(QueuedCalls) /\ callQueue # <<>>
        BY <1>0, <2>1
      <4> QED
        BY <2>9, <4>1, TailIs DEF n
    <3>2. WorkflowTyped'
      BY <1>0, <2>1, <2>8, <3>1 DEF WorkflowTyped
    <3>3. /\ \A i \in DOMAIN callQueue' : callQueue'[i].from <= callQueue'[i].to /\ callQueue'[i].to <= SentSoFar
          /\ \A i, j \in DOMAIN callQueue' : i < j => callQueue'[i].to < callQueue'[j].from
      <4>1. QueueInOrder
        BY DEF WorkflowInv
      <4> HIDE DEF n
      <4>2. \A i, j \in DOMAIN callQueue' : i \in Int /\ j \in Int /\ (i < j => i + 1 < j + 1)
        BY <3>1
      <4> QED
        BY <3>1, <4>1, <4>2 DEF QueueInOrder
    <3>4. QueueInOrder'
      BY <2>2, <3>3 DEF QueueInOrder
    <3>5. \A i \in DOMAIN callQueue' : t < callQueue'[i].from /\ callQueue'[i].from \in Nat
      <4> SUFFICES ASSUME NEW i \in DOMAIN callQueue'
                   PROVE  t < callQueue'[i].from /\ callQueue'[i].from \in Nat
        OBVIOUS
      <4>1. i + 1 \in DOMAIN callQueue /\ callQueue'[i] = callQueue[i + 1] /\ 1 < i + 1
        BY <2>1, <3>1
      <4>2. callQueue[1].to < callQueue[i + 1].from
        BY <2>1, <4>1 DEF WorkflowInv, QueueInOrder
      <4> QED
        BY <1>1, <1>2, <4>1, <4>2 DEF t
    <3>6. callQueue' # <<>> => 1 \in DOMAIN callQueue'
      BY <3>1, EmptySeq
    <3>7. EffectsInOrder'
      <4>1. \A a \in Actions : tookEffect'[a] <= 1
        BY <2>14 DEF WorkflowInv, EffectsInOrder
      <4>2. \A a \in Actions : a > SentSoFar => tookEffect'[a] = 0
        BY <1>1, <2>2, <2>14 DEF WorkflowInv, EffectsInOrder
      <4>3. ASSUME callQueue' # <<>>, NEW a \in Actions, a >= callQueue'[1].from
            PROVE  tookEffect'[a] = 0
        <5>1. a > t /\ a # f /\ a >= f
          BY <1>1, <2>2, <3>5, <3>6, <4>3
        <5>2. tookEffect[a] = 0
          BY <2>1, <5>1 DEF WorkflowInv, EffectsInOrder, f
        <5> QED
          BY <2>7, <5>1, <5>2
      <4> QED
        BY <2>2, <4>1, <4>2, <4>3 DEF EffectsInOrder
    <3>8. \A a \in Actions : Queued(a)' => Queued(a)
      <4> SUFFICES ASSUME NEW a \in Actions, Queued(a)'
                   PROVE  Queued(a)
        OBVIOUS
      <4>1. PICK i \in DOMAIN callQueue' : callQueue'[i].from <= a /\ a <= callQueue'[i].to
        BY DEF Queued, CoversAction
      <4> QED
        BY <3>1, <4>1 DEF Queued, CoversAction
    <3>9. ResultsSound'
      BY <2>1, <2>2, <2>3, <2>6, <2>7, <3>8 DEF WorkflowInv, ResultsSound
    <3>10. CallIsLast'
      <4>1. phase = "call" => at \in Actions /\ at <= last /\ last \in Actions /\ \A a \in at..last : Ready(a)
        BY DEF WorkflowInv, CallIsLast
      <4>2. CASE phase # "call"
        BY <2>1, <2>9, <4>2 DEF WorkflowInv, CallIsLast
      <4>3. CASE phase = "call"
        <5>1. /\ callQueue[n].to = last /\ at <= callQueue[n].from /\ answer = "none"
              /\ \A a \in at..last : a < callQueue[n].from => tookEffect[a] = 1
              /\ \A i \in DOMAIN callQueue : i < n => callQueue[i].to < at
          BY <2>1, <4>3 DEF WorkflowInv, CallIsLast, n
        <5>2. \A a \in at..last : a \in Actions
          BY <1>0, <4>1, <4>3
        <5>3. CASE n = 1
          <6>1. callQueue' = <<>>
            BY <3>1, <5>3, EmptySeq
          <6>2. answer' = "completed" => \A a \in at..last : tookEffect'[a] = 1
            <7>1. callQueue[n].from = f /\ t = last
              BY <5>1, <5>3 DEF f, t
            <7>2. answer' = "completed" => f = last /\ \A a \in Actions : tookEffect'[a] = IF a = f THEN 1 ELSE tookEffect[a]
              BY <1>0, <2>2, <2>9, <7>1
            <7> QED
              BY <1>0, <2>2, <5>1, <5>2, <7>1, <7>2
          <6> QED
            BY <2>1, <2>3, <2>9, <4>1, <4>3, <5>3, <6>1, <6>2 DEF CallIsLast
        <5>4. CASE n # 1
          <6>1. UNCHANGED answer /\ n - 1 \in DOMAIN callQueue' /\ n - 1 + 1 = n
            BY <2>1, <2>9, <3>1, <5>4
          <6>2. callQueue'[n - 1] = callQueue[n] /\ callQueue' # <<>> /\ Len(callQueue') = n - 1
            BY <3>1, <6>1
          <6>3. \A a \in at..last : a < callQueue'[n - 1].from => tookEffect'[a] = 1
            BY <2>7, <5>1, <5>2, <6>2
          <6>4. \A i \in DOMAIN callQueue' : i < n - 1 => callQueue'[i].to < at
            BY <2>1, <3>1, <5>1
          <6> QED
            BY <2>1, <2>3, <4>1, <4>3, <5>1, <6>1, <6>2, <6>3, <6>4 DEF CallIsLast
        <5> QED
          BY <5>3, <5>4
      <4> QED
        BY <4>2, <4>3
    <3> QED
      BY <2>4, <3>2, <3>4, <3>7, <3>9, <3>10 DEF WorkflowInv
  <2>10. ASSUME callQueue' = [callQueue EXCEPT ![1].from = @ + 1], f < t, UNCHANGED answer,
                tookEffect' = [tookEffect EXCEPT ![f] = @ + 1]
         PROVE  WorkflowInv'
    <3>1. PICK c : c = [callQueue[1] EXCEPT !.from = @ + 1]
      OBVIOUS
    <3>2. c \in QueuedCalls /\ c.from = f + 1 /\ c.to = t
      <4>1. callQueue[1] \in QueuedCalls /\ f + 1 \in Actions
        BY <1>0, <2>1, <2>2, <2>10
      <4> QED
        BY <3>1, <4>1 DEF QueuedCalls, f, t
    <3>3. callQueue' = [callQueue EXCEPT ![1] = c]
      BY <2>10, <3>1
    <3>4. /\ callQueue' \in Seq(QueuedCalls) /\ Len(callQueue') = n /\ DOMAIN callQueue' = DOMAIN callQueue
          /\ callQueue'[1] = c /\ \A i \in DOMAIN callQueue : i # 1 => callQueue'[i] = callQueue[i]
      BY <1>0, <2>1, <3>2, <3>3 DEF n
    <3>5. \A i \in DOMAIN callQueue : /\ callQueue'[i].to = callQueue[i].to
                                      /\ callQueue'[i].from = callQueue[i].from + (IF i = 1 THEN 1 ELSE 0)
      BY <1>1, <1>2, <3>2, <3>4 DEF f, t
    <3>6. WorkflowTyped'
      BY <1>0, <2>1, <2>8, <3>4 DEF WorkflowTyped
    <3>7. QueueInOrder'
      <4>1. \A i \in DOMAIN callQueue : callQueue'[i].from <= callQueue'[i].to /\ callQueue'[i].to <= SentSoFar
        <5>1. callQueue'[1].from <= callQueue'[1].to /\ callQueue'[1].to <= SentSoFar
          <6>1. f + 1 <= t
            BY <2>2, <2>10
          <6>2. callQueue'[1].from = f + 1 /\ callQueue'[1].to = t
            BY <3>2, <3>4
          <6> QED
            BY <2>2, <6>1, <6>2
        <5> QED
          BY <3>4, <5>1 DEF WorkflowInv, QueueInOrder
      <4>2. ASSUME NEW i \in DOMAIN callQueue, NEW j \in DOMAIN callQueue, i < j
            PROVE  callQueue'[i].to < callQueue'[j].from
        <5>1. callQueue[i].to < callQueue[j].from /\ callQueue[j].from \in Nat /\ callQueue[i].to \in Nat
          BY <1>1, <1>2, <4>2 DEF WorkflowInv, QueueInOrder
        <5> QED
          BY <3>5, <5>1
      <4> QED
        BY <2>2, <3>4, <4>1, <4>2 DEF QueueInOrder
    <3>8. EffectsInOrder'
      <4>1. \A a \in Actions : tookEffect'[a] <= 1
        BY <2>14 DEF WorkflowInv, EffectsInOrder
      <4>2. \A a \in Actions : a > SentSoFar => tookEffect'[a] = 0
        BY <1>1, <2>2, <2>14 DEF WorkflowInv, EffectsInOrder
      <4>3. ASSUME NEW a \in Actions, a >= callQueue'[1].from
            PROVE  tookEffect'[a] = 0
        <5>1. a # f /\ a >= f
          BY <1>1, <2>2, <3>2, <3>4, <4>3
        <5>2. tookEffect[a] = 0
          BY <2>1, <5>1 DEF WorkflowInv, EffectsInOrder, f
        <5> QED
          BY <2>7, <5>1, <5>2
      <4> QED
        BY <2>2, <4>1, <4>2, <4>3 DEF EffectsInOrder
    <3>9. \A a \in Actions : Queued(a)' => Queued(a)
      <4> SUFFICES ASSUME NEW a \in Actions, Queued(a)'
                   PROVE  Queued(a)
        OBVIOUS
      <4>1. PICK i \in DOMAIN callQueue : callQueue'[i].from <= a /\ a <= callQueue'[i].to
        BY <3>4 DEF Queued, CoversAction
      <4>2. callQueue[i].from \in Nat /\ a \in Nat
        BY <1>1, <1>2
      <4> QED
        BY <3>5, <4>1, <4>2 DEF Queued, CoversAction
    <3>10. ResultsSound'
      BY <2>1, <2>2, <2>3, <2>6, <2>7, <3>9 DEF WorkflowInv, ResultsSound
    <3>11. CallIsLast'
      <4>1. phase = "call" => at \in Actions /\ at <= last /\ last \in Actions /\ \A a \in at..last : Ready(a)
        BY DEF WorkflowInv, CallIsLast
      <4>2. CASE phase # "call"
        BY <2>1, <2>10, <4>2 DEF WorkflowInv, CallIsLast
      <4>3. CASE phase = "call"
        <5>1. /\ callQueue[n].to = last /\ at <= callQueue[n].from /\ answer = "none"
              /\ \A a \in at..last : a < callQueue[n].from => tookEffect[a] = 1
              /\ \A i \in DOMAIN callQueue : i < n => callQueue[i].to < at
          BY <2>1, <4>3 DEF WorkflowInv, CallIsLast, n
        <5>2. \A a \in at..last : a \in Actions
          BY <1>0, <4>1, <4>3
        <5>3. n \in DOMAIN callQueue /\ callQueue[n].from \in Nat
          BY <1>1, <1>2, <2>1 DEF n
        <5>4. callQueue'[n].to = last /\ at <= callQueue'[n].from
          <6> HIDE DEF n
          <6>1. /\ callQueue'[n].to = callQueue[n].to
                /\ callQueue'[n].from = callQueue[n].from + (IF n = 1 THEN 1 ELSE 0)
            BY <3>5, <5>3
          <6>2. at \in Nat
            BY <1>1, <4>1, <4>3
          <6>3. callQueue'[n].from >= callQueue[n].from
            BY <5>3, <6>1
          <6> QED
            BY <5>1, <5>3, <6>1, <6>2, <6>3
        <5>5. ASSUME NEW a \in at..last, a < callQueue'[n].from
              PROVE  tookEffect'[a] = 1
          <6>1. CASE a < callQueue[n].from
            BY <2>7, <5>1, <5>2, <6>1
          <6>2. CASE ~(a < callQueue[n].from)
            <7>0. callQueue'[n].from = callQueue[n].from + (IF n = 1 THEN 1 ELSE 0) /\ a \in Nat
              BY <1>1, <3>5, <5>2, <5>3
            <7>1. n = 1 /\ a = callQueue[n].from
              BY <5>3, <5>5, <6>2, <7>0
            <7>2. a = f
              BY <7>1 DEF f
            <7> QED
              BY <1>0, <2>2, <2>10, <7>2
          <6> QED
            BY <6>1, <6>2
        <5>6. \A i \in DOMAIN callQueue' : i < n => callQueue'[i].to < at
          BY <3>4, <3>5, <5>1
        <5>7. callQueue' # <<>>
          BY <2>1, <3>4
        <5> QED
          BY <2>1, <2>3, <2>10, <3>4, <4>1, <4>3, <5>1, <5>4, <5>5, <5>6, <5>7 DEF CallIsLast
      <4> QED
        BY <4>2, <4>3
    <3> QED
      BY <2>4, <3>6, <3>7, <3>8, <3>10, <3>11 DEF WorkflowInv
  <2>11. CASE RefuseEffect
    <3>1. CallAnswered("failed") /\ UNCHANGED tookEffect
      BY <2>11 DEF RefuseEffect
    <3>2. answer # "completed"
      BY <2>1 DEF WorkflowInv, CallIsLast
    <3> QED
      BY <2>9, <3>1, <3>2 DEF CallAnswered, n
  <2>12. CASE TakeEffect /\ f = t
    <3>1. CallAnswered("completed") /\ tookEffect' = [tookEffect EXCEPT ![f] = @ + 1]
      BY <2>1, <2>12 DEF TakeEffect, f, t
    <3>2. answer # "completed"
      BY <2>1 DEF WorkflowInv, CallIsLast
    <3> QED
      BY <2>9, <2>12, <3>1, <3>2 DEF CallAnswered, n
  <2>13. CASE TakeEffect /\ f # t
    <3>1. /\ callQueue' = [callQueue EXCEPT ![1].from = @ + 1] /\ UNCHANGED answer
          /\ tookEffect' = [tookEffect EXCEPT ![f] = @ + 1]
      BY <2>1, <2>13 DEF TakeEffect, f, t
    <3>2. f < t
      BY <2>2, <2>13
    <3> QED
      BY <2>10, <3>1, <3>2
  <2> QED
    BY <1>8, <2>11, <2>12, <2>13
<1>9. CASE UNCHANGED workflowVars
  <2>1. UNCHANGED <<plan, at, last, callQueue, answer, tookEffect, result, stopped, phase, trouble, status>>
    BY <1>9 DEF workflowVars
  <2>2. WorkflowTyped' /\ StatusSound'
    BY <2>1 DEF WorkflowInv, WorkflowTyped, StatusSound
  <2> QED
    BY <1>a, <2>1, <2>2
<1> QED
  BY <1>3, <1>4, <1>5, <1>6, <1>7, <1>8, <1>9 DEF WorkflowNext

\* What a workflow reports is what happened on the page, for any number of actions and
\* any dependencies on earlier ones, whatever is given up, batched and executed late.
THEOREM ReportsAreTrue ==
  ASSUME BackwardPlans
  PROVE  WorkflowSpec => []ReportIsTrue
<1>1. ASSUME WorkflowInit
      PROVE  WorkflowInv
  <2>1. /\ phase = "idle" /\ at = 1 /\ last = 0 /\ callQueue = <<>> /\ answer = "none" /\ stopped = FALSE
        /\ trouble = "none" /\ status = "none"
        /\ tookEffect = [a \in Actions |-> 0] /\ result = [a \in Actions |-> "none"]
    BY <1>1 DEF WorkflowInit
  <2>2. \A a \in Actions : a \in Nat /\ a >= 1
    BY BrowserWorkflowAssumption DEF BrowserWorkflowAssumption, Actions
  <2>3. WorkflowTyped
    <3>1. tookEffect \in [Actions -> Nat] /\ result \in [Actions -> ActionOutcomes]
      BY <2>1 DEF ActionOutcomes
    <3>2. callQueue \in Seq(QueuedCalls)
      BY <2>1
    <3>3. at \in Nat \ {0} /\ last \in Nat
      BY <2>1
    <3>4. stopped \in BOOLEAN
      BY <2>1
    <3> QED
      BY <2>1, <3>1, <3>2, <3>3, <3>4 DEF WorkflowTyped
  <2>4. DOMAIN callQueue = {}
    BY <2>1
  <2>5. \A a : ~Queued(a)
    BY <2>4 DEF Queued, CoversAction
  <2>6. QueueInOrder /\ EffectsInOrder /\ CallIsLast
    BY <2>1, <2>4 DEF QueueInOrder, EffectsInOrder, CallIsLast
  <2>7. ResultsSound
    BY <2>1, <2>5 DEF ResultsSound
  <2>8. StatusSound
    BY <2>1, <2>2 DEF StatusSound
  <2> QED
    BY <2>3, <2>6, <2>7, <2>8 DEF WorkflowInv
<1>2. WorkflowInv /\ [WorkflowNext]_workflowVars => WorkflowInv'
  BY WorkflowStep, BrowserWorkflowAssumption
<1>3. WorkflowInv => ReportIsTrue
  BY DEF WorkflowInv, EffectsInOrder, ResultsSound, StatusSound, ReportIsTrue, DependentsWait, Ready
<1> QED
  BY <1>1, <1>2, <1>3, PTL DEF WorkflowSpec

(* The calls of a workflow are about its actions, whatever plan is asked for. *)

\* The calls of the extension's queue: a run of actions.
ActionSpans == {c \in QueuedCalls : c.from <= c.to}

WorkflowTypes ==
  /\ document \in 0 .. MaxNavigations /\ failures \in 0 .. MaxFailures
  /\ phase \in {"idle", "preconditions", "stage", "call", "cleanup", "observe", "checks", "over"}
  /\ at \in 1 .. Length + 1 /\ last \in 0 .. Length
  /\ tookEffect \in [Actions -> Nat] /\ result \in [Actions -> ActionOutcomes]
  /\ callQueue \in Seq(ActionSpans)

\* A call that is over leaves the rest of the queue.
LEMMA SpansLeft ==
  ASSUME NEW q \in Seq(ActionSpans), q # <<>>
  PROVE  /\ Tail(q) \in Seq(ActionSpans) /\ q[1] \in ActionSpans /\ Head(q) = q[1]
         /\ 1 \in DOMAIN q
BY TailIs

LEMMA WorkflowTypesStep ==
  ASSUME BrowserWorkflowAssumption, WorkflowTypes, [WorkflowNext]_workflowVars
  PROVE  WorkflowTypes'
<1>0. /\ Length \in Nat /\ MaxNavigations \in Nat /\ MaxFailures \in Nat
      /\ at \in 1 .. Length + 1 /\ last \in 0 .. Length
      /\ document \in 0 .. MaxNavigations /\ failures \in 0 .. MaxFailures
      /\ tookEffect \in [Actions -> Nat] /\ result \in [Actions -> ActionOutcomes]
      /\ callQueue \in Seq(ActionSpans)
      /\ phase \in {"idle", "preconditions", "stage", "call", "cleanup", "observe", "checks", "over"}
  BY DEF BrowserWorkflowAssumption, WorkflowTypes
<1>f. Fails => failures' \in 0 .. MaxFailures
  BY <1>0 DEF Fails
<1>d. document < MaxNavigations => document + 1 \in 0 .. MaxNavigations
  BY <1>0
<1>a. ASSUME UNCHANGED <<document, at, last, callQueue, tookEffect, result>>,
             phase' \in {"preconditions", "stage", "cleanup", "observe", "checks", "over"},
             failures' = failures \/ Fails
      PROVE  WorkflowTypes'
  BY <1>0, <1>a, <1>f DEF WorkflowTypes
<1>1. ASSUME NEW p \in Plans, StartWorkflow(p)
      PROVE  WorkflowTypes'
  BY <1>1, <1>a DEF StartWorkflow
<1>2. CASE VerifyPreconditions \/ RefuseSelectors \/ EndStage \/ CleanUp \/ ObserveAfter \/ VerifyChecks
  BY <1>2, <1>a DEF VerifyPreconditions, RefuseSelectors, EndStage, CleanUp, ObserveAfter, VerifyChecks
<1>3. CASE SkipAction
  <2>1. at \in Actions /\ result' = [result EXCEPT ![at] = "skipped"] /\ at' = at + 1
        /\ UNCHANGED <<document, phase, last, callQueue, tookEffect, failures>>
    BY <1>3 DEF SkipAction
  <2>2. at' \in 1 .. Length + 1
    BY <1>0, <2>1 DEF Actions
  <2>3. result' \in [Actions -> ActionOutcomes]
    BY <1>0, <2>1 DEF ActionOutcomes
  <2> QED
    BY <1>0, <2>1, <2>2, <2>3 DEF WorkflowTypes
<1>4. CASE CallAction
  <2>1. PICK to : to = CHOOSE a \in Batch(at) : \A b \in Batch(at) : b <= a
    OBVIOUS
  <2>2. at \in Actions /\ Ready(at) /\ last' = to /\ callQueue' = Append(callQueue, [from |-> at, to |-> to])
        /\ phase' = "call" /\ UNCHANGED <<document, at, tookEffect, result, failures>>
    BY <1>4, <2>1 DEF CallAction
  <2>3. to \in Actions /\ at <= to
    BY <2>1, <2>2, BatchIs
  <2>4. [from |-> at, to |-> to] \in ActionSpans
    BY <2>2, <2>3 DEF ActionSpans, QueuedCalls
  <2>5. callQueue' \in Seq(ActionSpans)
    BY <1>0, <2>2, <2>4
  <2>6. last' \in 0 .. Length
    BY <1>0, <2>2, <2>3 DEF Actions
  <2> QED
    BY <1>0, <2>2, <2>5, <2>6 DEF WorkflowTypes
<1>5. CASE ActionCompleted \/ ActionFailed
  <2>1. /\ \/ result' = [a \in Actions |-> IF a \in at..last THEN "completed" ELSE result[a]]
           \/ result' = [a \in Actions |-> IF a \in at..last THEN "failed" ELSE result[a]]
        /\ at' = last + 1 /\ phase' \in {"cleanup", "stage"} /\ (failures' = failures \/ Fails)
        /\ UNCHANGED <<document, last, callQueue, tookEffect>>
    BY <1>5 DEF ActionCompleted, ActionFailed, NextAction
  <2>2. result' \in [Actions -> ActionOutcomes]
    <3>1. {"completed", "failed"} \subseteq ActionOutcomes
      BY DEF ActionOutcomes
    <3> QED
      BY <1>0, <2>1, <3>1
  <2>3. at' \in 1 .. Length + 1
    BY <1>0, <2>1
  <2> QED
    BY <1>0, <1>f, <2>1, <2>2, <2>3 DEF WorkflowTypes
<1>6. CASE TakeEffect
  <2>1. PICK c : c = callQueue[1]
    OBVIOUS
  <2>2. /\ c \in ActionSpans /\ Head(callQueue) = c /\ Tail(callQueue) \in Seq(ActionSpans)
        /\ 1 \in DOMAIN callQueue
    BY <1>0, <1>6, <2>1, SpansLeft DEF TakeEffect
  <2>3. c.from \in Actions /\ c.to \in Actions /\ c.from <= c.to
    BY <2>2 DEF ActionSpans, QueuedCalls
  <2>4. /\ tookEffect' = [tookEffect EXCEPT ![c.from] = @ + 1]
        /\ \/ callQueue' = Tail(callQueue)
           \/ c.from # c.to /\ callQueue' = [callQueue EXCEPT ![1].from = @ + 1]
        /\ \/ UNCHANGED document
           \/ document < MaxNavigations /\ document' = document + 1
        /\ UNCHANGED <<phase, at, last, result, failures>>
    BY <1>6, <2>2 DEF TakeEffect, CallAnswered
  <2>5. tookEffect' \in [Actions -> Nat]
    BY <1>0, <2>3, <2>4
  <2>6. callQueue' \in Seq(ActionSpans)
    <3>1. CASE c.from # c.to /\ callQueue' = [callQueue EXCEPT ![1].from = @ + 1]
      <4>1. PICK d : d = [c EXCEPT !.from = c.from + 1]
        OBVIOUS
      <4>2. callQueue' = [callQueue EXCEPT ![1] = d]
        BY <2>1, <2>2, <3>1, <4>1
      <4>3. c.from + 1 \in Actions /\ c.from + 1 <= c.to
        <5>1. \A a, b \in Actions : a <= b /\ a # b => a + 1 \in Actions /\ a + 1 <= b
          BY <1>0 DEF Actions
        <5> QED
          BY <2>3, <3>1, <5>1
      <4>4. d \in ActionSpans
        BY <2>2, <4>1, <4>3 DEF ActionSpans, QueuedCalls
      <4> QED
        BY <1>0, <2>2, <4>2, <4>4
    <3> QED
      BY <2>2, <2>4, <3>1
  <2> QED
    BY <1>0, <1>d, <2>4, <2>5, <2>6 DEF WorkflowTypes
<1>7. CASE RefuseEffect
  <2>1. /\ callQueue # <<>> /\ callQueue' = Tail(callQueue) /\ (failures' = failures \/ Fails)
        /\ UNCHANGED <<document, phase, at, last, tookEffect, result>>
    BY <1>7 DEF RefuseEffect, CallAnswered
  <2>2. callQueue' \in Seq(ActionSpans)
    BY <1>0, <2>1, SpansLeft
  <2> QED
    BY <1>0, <1>f, <2>1, <2>2 DEF WorkflowTypes
<1>8. CASE TabNavigates
  BY <1>0, <1>8, <1>d DEF TabNavigates, WorkflowTypes
<1>9. CASE UNCHANGED workflowVars
  BY <1>0, <1>9 DEF workflowVars, WorkflowTypes
<1> QED
  BY <1>1, <1>2, <1>3, <1>4, <1>5, <1>6, <1>7, <1>8, <1>9 DEF WorkflowNext

LEMMA WorkflowTypesStart ==
  ASSUME BrowserWorkflowAssumption, WorkflowInit
  PROVE  WorkflowTypes
<1>1. tookEffect \in [Actions -> Nat] /\ result \in [Actions -> ActionOutcomes]
  BY DEF WorkflowInit, ActionOutcomes
<1>2. callQueue \in Seq(ActionSpans)
  BY DEF WorkflowInit
<1>3. /\ document \in 0 .. MaxNavigations /\ failures \in 0 .. MaxFailures
      /\ at \in 1 .. Length + 1 /\ last \in 0 .. Length
  BY DEF WorkflowInit, BrowserWorkflowAssumption
<1>4. phase = "idle"
  BY DEF WorkflowInit
<1> QED
  BY <1>1, <1>2, <1>3, <1>4 DEF WorkflowTypes

LEMMA WorkflowTypesHold ==
  ASSUME WorkflowTypes
  PROVE  WorkflowTypeOK
<1>1. ASSUME NEW i \in DOMAIN callQueue
      PROVE  callQueue[i].from \in Actions /\ callQueue[i].to \in Actions
  <2>1. callQueue[i] \in QueuedCalls
    BY DEF WorkflowTypes, ActionSpans
  <2> QED
    BY <2>1 DEF QueuedCalls
<1> QED
  BY <1>1 DEF WorkflowTypes, ActionOutcomes, WorkflowTypeOK

\* What waits in the extension's queue is a run of the workflow's actions, and the index
\* of the stage never leaves them, for any plan: also one whose actions depend on later
\* ones.
THEOREM WorkflowTyping == WorkflowSpec => []WorkflowTypeOK
<1>1. WorkflowInit => WorkflowTypes
  BY WorkflowTypesStart, BrowserWorkflowAssumption
<1>2. WorkflowTypes /\ [WorkflowNext]_workflowVars => WorkflowTypes'
  BY WorkflowTypesStep, BrowserWorkflowAssumption
<1>3. WorkflowTypes => WorkflowTypeOK
  BY WorkflowTypesHold
<1> QED
  BY <1>1, <1>2, <1>3, PTL DEF WorkflowSpec

(* The services side by side (MCServices) *)

\* What each service keeps, whichever of them the behaviour is about.
ServicesInv ==
  /\ HubInv
  /\ ActivityTypes
  /\ TasksInv /\ TasksListed
  /\ RunInv
  /\ AdapterInv /\ AdapterCounts
  /\ ArtifactTypes
  /\ ExternalInv /\ ExternalTypes
  /\ UpdateInv /\ UpdateTypeOK
  /\ RoutesInv /\ TargetsTyped
  /\ HeldInv /\ ProxyTypes
  /\ WorkflowTypes

\* No service shares a variable with another: a step of the composition is, to each of
\* them, a step of its own or none.
LEMMA ServicesSteps ==
  ASSUME [ServicesNext]_allVars
  PROVE  /\ [HubNext]_hubVars
         /\ [ActivityNext]_activityVars
         /\ [TasksNext]_taskVars
         /\ [LoopNext]_loopVars
         /\ [AdapterNext]_adapterVars
         /\ [ArtifactNext]_artifactVars
         /\ [ExternalNext]_externalVars
         /\ [UpdateNext]_updateVars
         /\ [TargetsNext]_targetVars
         /\ [ProxyNext]_proxyVars
         /\ [WorkflowNext]_workflowVars
<1>1. CASE ServicesNext
  BY <1>1 DEF ServicesNext, Hub, Activity, TaskPart, Loop, Adapter, Artifact, External,
              Updater, TargetPart, ProxyPart, WorkflowPart
<1>2. CASE UNCHANGED allVars
  BY <1>2 DEF allVars
<1> QED
  BY <1>1, <1>2

\* Whichever service a behaviour is about, for every value of the constants of all of
\* them, its state stays within its types.
THEOREM ServicesAreTyped == ServicesSpec => []ServicesTypeOK
<1>1. ServicesInit => ServicesInv
  <2> SUFFICES ASSUME ServicesInit
               PROVE  ServicesInv
    OBVIOUS
  <2>1. HubInv
    BY HubStarts, HubAssumption DEF ServicesInit
  <2>2. ActivityTypes
    BY ActivityTypesStart, ActivityAssumption DEF ServicesInit
  <2>3. TasksInv /\ TasksListed
    BY TasksStart, TasksAssumption DEF ServicesInit
  <2>4. RunInv
    BY RunStarts, LoopAssumption DEF ServicesInit
  <2>5. AdapterInv /\ AdapterCounts
    BY CountsStart, AdapterAssumption DEF ServicesInit
  <2>6. ArtifactTypes
    BY ArtifactTypesStart, ArtifactAssumption DEF ServicesInit
  <2>7. ExternalInv /\ ExternalTypes
    BY ExternalStarts, ExternalTypesStart, ExternalAssumption DEF ServicesInit
  <2>8. UpdateInv /\ UpdateTypeOK
    BY UpdateStarts, UpdateTypesStart, UpdateAssumption DEF ServicesInit
  <2>9. RoutesInv /\ TargetsTyped
    BY RoutesInit, TargetsTypesStart, DebugTargetsAssumption DEF ServicesInit
  <2>10. HeldInv /\ ProxyTypes
    BY ProxyTypesStart, DebuggerProxyAssumption DEF ServicesInit
  <2>11. WorkflowTypes
    BY WorkflowTypesStart, BrowserWorkflowAssumption DEF ServicesInit
  <2> QED
    BY <2>1, <2>2, <2>3, <2>4, <2>5, <2>6, <2>7, <2>8, <2>9, <2>10, <2>11 DEF ServicesInv
<1>2. ServicesInv /\ [ServicesNext]_allVars => ServicesInv'
  <2> SUFFICES ASSUME ServicesInv, [ServicesNext]_allVars
               PROVE  ServicesInv'
    OBVIOUS
  <2>1. HubInv'
    BY ServicesSteps, HubStep, HubAssumption DEF ServicesInv
  <2>2. ActivityTypes'
    BY ServicesSteps, ActivityTypesStep, ActivityAssumption DEF ServicesInv
  <2>3. TasksInv' /\ TasksListed'
    BY ServicesSteps, TasksStep, TasksListedStep, TasksAssumption DEF ServicesInv
  <2>4. RunInv'
    BY ServicesSteps, RunStep, LoopAssumption DEF ServicesInv
  <2>5. AdapterInv' /\ AdapterCounts'
    BY ServicesSteps, AdapterStep, CountsStep, AdapterAssumption DEF ServicesInv
  <2>6. ArtifactTypes'
    BY ServicesSteps, ArtifactTypesStep, ArtifactAssumption DEF ServicesInv
  <2>7. ExternalInv' /\ ExternalTypes'
    BY ServicesSteps, ExternalStep, ExternalTypesStep, ExternalAssumption DEF ServicesInv
  <2>8. UpdateInv' /\ UpdateTypeOK'
    BY ServicesSteps, UpdateStep, UpdateTypesStep, UpdateAssumption DEF ServicesInv
  <2>9. RoutesInv' /\ TargetsTyped'
    BY ServicesSteps, RoutesStep, TargetsTypesStep, DebugTargetsAssumption DEF ServicesInv
  <2>10. HeldInv' /\ ProxyTypes'
    BY ServicesSteps, HeldStep, ProxyTypesStep, DebuggerProxyAssumption DEF ServicesInv
  <2>11. WorkflowTypes'
    BY ServicesSteps, WorkflowTypesStep, BrowserWorkflowAssumption DEF ServicesInv
  <2> QED
    BY <2>1, <2>2, <2>3, <2>4, <2>5, <2>6, <2>7, <2>8, <2>9, <2>10, <2>11 DEF ServicesInv
<1>3. ServicesInv => ServicesTypeOK
  BY HubHolds, ActivityTypesHold, TasksTypesHold, RunTypes, CountsHold, ArtifactTypesHold,
     ExternalTypesHold, ExternalAssumption, TargetsTypesHold, ProxyTypesHold,
     DebuggerProxyAssumption, WorkflowTypesHold DEF ServicesInv, ServicesTypeOK
<1> QED
  BY <1>1, <1>2, <1>3, PTL DEF ServicesSpec

=============================================================================
