---------------------------- MODULE DebuggerProxy ----------------------------
(***************************************************************************)
(* The debugger sessions of the extension and its request proxy            *)
(* (src/src/background/debuggerAdapter.ts): one active session, a session  *)
(* per monitored tab, the rules that Chrome's Fetch domain is asked to     *)
(* pause requests for, and the restoration after Chrome has detached.      *)
(*                                                                         *)
(* A tool call, a reattachment, a restore loop and a monitor are jobs;     *)
(* each await of the code ends a step of its job. A command takes effect   *)
(* in Chrome when its answer is handled, and an event when it is handled:  *)
(* Chrome sends both over one ordered channel.                             *)
(***************************************************************************)
EXTENDS Naturals, FiniteSets

CONSTANTS
    Tabs,
    Requests,
    NoTab,
    MaxSessions,   \* bound: session objects that are referred to at one time
    Loops,         \* restore loops and reattachments that may be under way
    RestoreAttempts,   \* PROXY_RESTORE_ATTEMPTS
    MaxCalls,      \* bound: tool calls
    MaxDetaches,   \* bound: detachments and refusals by Chrome, and loads
    MaxMonitors,   \* bound: starts of monitors
    ManualDetach   \* whether detach_debugger may be called

ASSUME DebuggerProxyAssumption ==
    /\ NoTab \notin Tabs /\ {"tool", "monitor"} \cap Loops = {}
    /\ RestoreAttempts > 0
    /\ {MaxSessions, RestoreAttempts, MaxCalls, MaxDetaches, MaxMonitors} \subseteq Nat
    /\ ManualDetach \in BOOLEAN

VARIABLES
    attached,      \* Chrome: tabs the debugger is attached to
    intercepted,   \* Chrome: tabs whose Fetch domain is enabled
    held,          \* Chrome: the tab each paused request belongs to, or NoTab
    selected,      \* the tab that queryActiveTab answers
    netSessions,      \* the session objects: tab, attached, fetchEnabled
    activeSession,        \* 0 for none
    monitored,     \* activitySessionsByTabId, 0 for none
    proxyEnabled,
    hasRules,      \* whether proxyRules has an enabled rule with an action
    manual,        \* manualDebuggerDetachTabIds
    proxyJob,           \* what is under way
    handler,       \* handleFetchPauseEvent of each request
    proxyCalls, detaches, monitors

proxyVars == <<attached, intercepted, held, selected, netSessions, activeSession, monitored, proxyEnabled, hasRules,
               manual, proxyJob, handler, proxyCalls, detaches, monitors>>
chromeVars == <<attached, intercepted, held, handler>>

DebuggerSessionIds     == 1..MaxSessions
Jobs    == {"tool", "monitor"} \cup Loops
NoJob    == [at |-> "idle"]
Unused  == [tab |-> NoTab, attached |-> FALSE, fetch |-> FALSE]
FreshSession(t) == [tab |-> t, attached |-> FALSE, fetch |-> FALSE]

\* ensureProxyStateLoaded has read what an earlier run of the worker stored.
ProxyInit ==
    /\ attached = {} /\ intercepted = {} /\ held = [r \in Requests |-> NoTab]
    /\ selected \in Tabs /\ netSessions = [i \in DebuggerSessionIds |-> Unused] /\ activeSession = 0
    /\ monitored = [t \in Tabs |-> 0] /\ manual = {}
    /\ proxyEnabled \in BOOLEAN /\ hasRules \in BOOLEAN
    /\ proxyJob = [j \in Jobs |-> NoJob] /\ handler = [r \in Requests |-> "none"]
    /\ proxyCalls = 0 /\ detaches = 0 /\ monitors = 0

TabOf(i)    == netSessions[i].tab
ActiveOn(t) == activeSession # 0 /\ TabOf(activeSession) = t

\* An object nobody refers to, for createNetworkSession.
Unreferenced ==
    {i \in DebuggerSessionIds : i # activeSession /\ (\A t \in Tabs : monitored[t] # i)
                 /\ \A j \in Jobs : proxyJob[j] # NoJob => proxyJob[j].s # i}
NewDebuggerSession == CHOOSE i \in Unreferenced : TRUE

\* Chrome lets go of a tab, or its Fetch domain is disabled: its requests go on.
Released(t) == held' = [r \in Requests |-> IF held[r] = t THEN NoTab ELSE held[r]]
Detached(t) == attached' = attached \ {t} /\ intercepted' = intercepted \ {t} /\ Released(t)

----------------------------------------------------------------------------
(* Jobs *)

Begin(kind, t) == [at |-> "resolve", kind |-> kind, tab |-> t, s |-> 0, left |-> 0, current |-> TRUE, on |-> FALSE]

\* A new restore loop takes the place of those under way (proxyRestoreLoopGeneration).
Superseded(jobs) == [j \in Jobs |-> IF j \in Loops /\ jobs[j] # NoJob
                                    THEN [jobs[j] EXCEPT !.current = jobs[j].kind # "loop"] ELSE jobs[j]]
FreeLoops == {j \in Loops : proxyJob[j] = NoJob}
NewLoop(jobs, j, t) == [Superseded(jobs) EXCEPT ![j] = [Begin("loop", t) EXCEPT !.left = RestoreAttempts - 1]]

JobOver(j) == [proxyJob EXCEPT ![j] = NoJob]

\* The job ends with an error. A restore loop tries again until it is superseded.
\* Mutant: it gives up.
LoopGivenUp(j) == JobOver(j)
Failed(j) == IF proxyJob[j].kind = "loop" /\ proxyJob[j].current /\ proxyJob[j].left > 0
             THEN [proxyJob EXCEPT ![j] = [Begin("loop", proxyJob[j].tab) EXCEPT !.left = proxyJob[j].left - 1]]
             ELSE JobOver(j)

\* ensureDebuggerSessionForTab once activeSession is on no other tab: it is created or
\* taken from the monitor, and attached if it is not.
Acquire(j, t, now) ==
    LET i == IF now # 0 THEN now ELSE IF monitored[t] # 0 THEN monitored[t] ELSE NewDebuggerSession
        new == now = 0 /\ monitored[t] = 0
    IN  /\ new => Unreferenced # {}
        /\ activeSession' = i
        /\ netSessions' = IF new THEN [netSessions EXCEPT ![i] = FreshSession(t)] ELSE netSessions
        /\ proxyJob' = [proxyJob EXCEPT ![j].at = IF new \/ ~netSessions[i].attached THEN "attach" ELSE "ensured",
                              ![j].tab = t, ![j].s = i]

\* The tab and its target are known.
ResolveSession(j) ==
    /\ proxyJob[j].at = "resolve" /\ proxyJob[j].kind # "monitor"
    /\ LET t == IF proxyJob[j].kind = "tool" THEN selected ELSE proxyJob[j].tab
       IN  IF activeSession = 0 \/ ActiveOn(t) THEN Acquire(j, t, activeSession)
           ELSE IF monitored[TabOf(activeSession)] # 0 THEN Acquire(j, t, 0)
           ELSE /\ proxyJob' = [proxyJob EXCEPT ![j].at = "switch", ![j].tab = t, ![j].s = activeSession]
                /\ UNCHANGED <<netSessions, activeSession>>
    /\ UNCHANGED <<chromeVars, selected, monitored, proxyEnabled, hasRules, manual, proxyCalls, detaches, monitors>>

\* The debugger has left the tab of the former session.
Switch(j) ==
    /\ proxyJob[j].at = "switch"
    /\ Detached(TabOf(proxyJob[j].s))
    /\ Acquire(j, proxyJob[j].tab, 0)
    /\ UNCHANGED <<selected, monitored, proxyEnabled, hasRules, manual, handler, proxyCalls, detaches, monitors>>

\* Chrome refuses a second attachment. The flag is set on what is now the session.
Attach(j) ==
    /\ proxyJob[j].at = "attach"
    /\ LET t == TabOf(proxyJob[j].s)
       IN  IF t \in attached
           THEN proxyJob' = Failed(j) /\ UNCHANGED <<attached, netSessions>>
           ELSE /\ attached' = attached \cup {t}
                /\ IF activeSession = 0
                   THEN proxyJob' = Failed(j) /\ UNCHANGED netSessions
                   ELSE /\ netSessions' = [netSessions EXCEPT ![activeSession].attached = TRUE]
                        /\ proxyJob' = [proxyJob EXCEPT ![j].at = "ensured"]
    /\ UNCHANGED <<intercepted, held, handler, selected, activeSession, monitored, proxyEnabled, hasRules, manual,
                   proxyCalls, detaches, monitors>>

\* The tab shows a page that cannot be scripted, or Chrome refuses the attachment.
Refuse(j) ==
    /\ proxyJob[j].at \in {"resolve", "attach"} /\ detaches < MaxDetaches
    /\ detaches' = detaches + 1
    /\ proxyJob' = Failed(j)
    /\ UNCHANGED <<chromeVars, selected, netSessions, activeSession, monitored, proxyEnabled, hasRules, manual,
                   proxyCalls, monitors>>

\* After setAutoAttach the session of the moment is returned.
Ensured(j) ==
    /\ proxyJob[j].at = "ensured"
    /\ proxyJob' = IF activeSession = 0 THEN Failed(j)
              ELSE [proxyJob EXCEPT ![j].at = "network", ![j].s = activeSession]
    /\ UNCHANGED <<chromeVars, selected, netSessions, activeSession, monitored, proxyEnabled, hasRules, manual, proxyCalls, detaches, monitors>>

\* ensureNetworkEnabled, then applyFetchInterception lists the patterns.
EnableNetwork(j) ==
    /\ proxyJob[j].at = "network"
    /\ proxyJob' = IF TabOf(proxyJob[j].s) \notin attached THEN Failed(j)
              ELSE [proxyJob EXCEPT ![j].at = IF proxyEnabled /\ hasRules THEN "intercept" ELSE "release", ![j].on = hasRules]
    /\ UNCHANGED <<chromeVars, selected, netSessions, activeSession, monitored, proxyEnabled, hasRules, manual, proxyCalls, detaches, monitors>>

\* A restore loop is content when activeSession has its flags.
FetchApplied(j, newSessions) ==
    /\ netSessions' = newSessions
    /\ proxyJob' = IF proxyJob[j].kind # "loop" \/ (activeSession # 0 /\ newSessions[activeSession].attached /\ newSessions[activeSession].fetch)
              THEN [proxyJob EXCEPT ![j] = NoJob] ELSE Failed(j)

\* Fetch.enable is answered.
Intercept(j) ==
    /\ proxyJob[j].at = "intercept"
    /\ LET t == TabOf(proxyJob[j].s)
       IN  IF t \notin attached
           THEN proxyJob' = Failed(j) /\ UNCHANGED <<intercepted, netSessions>>
           ELSE /\ intercepted' = intercepted \cup {t}
                /\ FetchApplied(j, [netSessions EXCEPT ![proxyJob[j].s].fetch = proxyEnabled /\ proxyJob[j].on])
    /\ UNCHANGED <<attached, held, handler, selected, activeSession, monitored, proxyEnabled, hasRules, manual, proxyCalls, detaches, monitors>>

\* Fetch.disable is answered, or its error is swallowed.
Release(j) ==
    /\ proxyJob[j].at = "release"
    /\ LET t == TabOf(proxyJob[j].s)
       IN  intercepted' = intercepted \ {t} /\ Released(t)
    /\ FetchApplied(j, [netSessions EXCEPT ![proxyJob[j].s].fetch = proxyEnabled /\ proxyJob[j].on])
    /\ UNCHANGED <<attached, handler, selected, activeSession, monitored, proxyEnabled, hasRules, manual, proxyCalls, detaches, monitors>>

----------------------------------------------------------------------------
(* Tools; the queue of mutations lets one of them run at a time *)

CallProxyTool(at, t) ==
    /\ proxyJob["tool"] = NoJob /\ proxyCalls < MaxCalls
    /\ proxyCalls' = proxyCalls + 1
    /\ proxyJob' = [proxyJob EXCEPT !["tool"] = [Begin("tool", t) EXCEPT !.at = at]]
    /\ UNCHANGED <<chromeVars, selected, netSessions, activeSession, monitored, detaches, monitors>>

\* enableProxyDebugger, and upsertProxyRule which also stores a rule.
EnableProxy ==
    /\ CallProxyTool("resolve", NoTab)
    /\ proxyEnabled' = TRUE /\ hasRules' \in {hasRules, TRUE}
    /\ UNCHANGED manual

DisableProxy ==
    /\ CallProxyTool("saved", NoTab)
    /\ proxyEnabled' = FALSE
    /\ UNCHANGED <<hasRules, manual>>

\* disableProxyDebugger after the state is saved.
DisableFetch ==
    /\ proxyJob["tool"].at = "saved"
    /\ proxyJob' = [proxyJob EXCEPT !["tool"] = IF activeSession # 0 /\ netSessions[activeSession].attached /\ netSessions[activeSession].fetch
                                      THEN [@ EXCEPT !.at = "disable", !.s = activeSession] ELSE NoJob]
    /\ UNCHANGED <<chromeVars, selected, netSessions, activeSession, monitored, proxyEnabled, hasRules, manual, proxyCalls, detaches, monitors>>

FetchDisabled ==
    /\ proxyJob["tool"].at = "disable"
    /\ LET t == TabOf(proxyJob["tool"].s)
       IN  intercepted' = intercepted \ {t} /\ Released(t)
    /\ netSessions' = IF activeSession = 0 THEN netSessions ELSE [netSessions EXCEPT ![activeSession].fetch = FALSE]
    /\ proxyJob' = [proxyJob EXCEPT !["tool"] = NoJob]
    /\ UNCHANGED <<attached, handler, selected, activeSession, monitored, proxyEnabled, hasRules, manual, proxyCalls, detaches, monitors>>

\* removeProxyRule of the last rule and clearProxyRules.
RemoveRules ==
    /\ hasRules
    /\ CallProxyTool("removed", NoTab)
    /\ hasRules' = FALSE
    /\ UNCHANGED <<proxyEnabled, manual>>

ApplyRemoval ==
    /\ proxyJob["tool"].at = "removed"
    /\ proxyJob' = [proxyJob EXCEPT !["tool"] = IF activeSession # 0 /\ netSessions[activeSession].attached
                                      THEN [@ EXCEPT !.at = "release", !.s = activeSession] ELSE NoJob]
    /\ UNCHANGED <<chromeVars, selected, netSessions, activeSession, monitored, proxyEnabled, hasRules, manual, proxyCalls, detaches, monitors>>

\* detachDebugger of the session's tab, or of a tab it is given.
DetachDebugger(t) ==
    /\ ManualDetach
    /\ CallProxyTool("detach", t)
    /\ manual' = manual \cup {t}
    /\ UNCHANGED <<proxyEnabled, hasRules>>

----------------------------------------------------------------------------
(* Chrome detaches, and the restoration *)

\* The session of an event's source.
SessionOfTab(t) == IF ActiveOn(t) THEN activeSession ELSE monitored[t]

\* The flags of a session that Chrome has detached. Mutant: they are kept.
KeptFlags(i) == netSessions
LostFlags(i) == [netSessions EXCEPT ![i].attached = FALSE, ![i].fetch = FALSE]

\* The onDetach listener. byUser: the reason is canceled_by_user.
OnDetach(t, byUser, jobs) ==
    LET i == SessionOfTab(t)
    IN  IF i = 0
        THEN proxyJob' = jobs /\ UNCHANGED <<netSessions, monitored, manual, proxyEnabled>>
        ELSE /\ netSessions' = LostFlags(i)
             /\ monitored' = [monitored EXCEPT ![t] = IF @ = i THEN 0 ELSE @]
             /\ manual' = manual \ {t}
             /\ IF byUser \/ t \in manual
                THEN proxyEnabled' = FALSE /\ proxyJob' = Superseded(jobs)
                ELSE /\ UNCHANGED proxyEnabled
                     /\ IF proxyEnabled /\ hasRules
                        THEN \E a, b \in FreeLoops : a # b
                               /\ proxyJob' = NewLoop([jobs EXCEPT ![a] = Begin("reattach", t)], b, t)
                        ELSE proxyJob' = jobs

\* The answer of chrome.debugger.detach to detachDebugger; Chrome may or may not
\* report it to onDetach as well.
ToolDetached ==
    /\ proxyJob["tool"].at = "detach"
    /\ LET t    == proxyJob["tool"].tab
           over == [proxyJob EXCEPT !["tool"] = NoJob]
       IN  IF t \in attached
           THEN /\ Detached(t)
                /\ \/ OnDetach(t, FALSE, over)
                   \/ proxyJob' = over /\ UNCHANGED <<netSessions, monitored, manual, proxyEnabled>>
                /\ activeSession' = IF ActiveOn(t) THEN 0 ELSE activeSession
           ELSE /\ manual' = manual \ {t} /\ proxyJob' = over
                /\ activeSession' = IF ActiveOn(t) /\ ~netSessions[activeSession].attached THEN 0 ELSE activeSession
                /\ UNCHANGED <<attached, intercepted, held, netSessions, monitored, proxyEnabled>>
    /\ UNCHANGED <<handler, selected, hasRules, proxyCalls, detaches, monitors>>

\* The user ends the session in Chrome, or the target goes away.
ChromeDetaches(t, byUser) ==
    /\ t \in attached /\ detaches < MaxDetaches
    /\ detaches' = detaches + 1
    /\ Detached(t)
    /\ OnDetach(t, byUser, proxyJob)
    /\ UNCHANGED <<handler, selected, activeSession, hasRules, proxyCalls, monitors>>

\* The selected tab loads: requestProxyRestore.
TabLoads ==
    /\ detaches < MaxDetaches /\ proxyEnabled /\ hasRules
    /\ detaches' = detaches + 1
    /\ \E j \in FreeLoops : proxyJob' = NewLoop(proxyJob, j, selected)
    /\ UNCHANGED <<chromeVars, selected, netSessions, activeSession, monitored, proxyEnabled, hasRules, manual, proxyCalls, monitors>>

SelectTab(t) ==
    /\ t # selected
    /\ selected' = t
    /\ UNCHANGED <<chromeVars, netSessions, activeSession, monitored, proxyEnabled, hasRules, manual, proxyJob, proxyCalls, detaches, monitors>>

----------------------------------------------------------------------------
(* Monitors *)

StartMonitor(t) ==
    /\ proxyJob["monitor"] = NoJob /\ monitors < MaxMonitors
    /\ monitored[t] # 0 => ~netSessions[monitored[t]].attached
    /\ proxyJob' = [proxyJob EXCEPT !["monitor"] = Begin("monitor", t)]
    /\ monitors' = monitors + 1
    /\ UNCHANGED <<chromeVars, selected, netSessions, activeSession, monitored, proxyEnabled, hasRules, manual, proxyCalls, detaches>>

\* ensureActivitySessionForTab once the target is known.
ResolveMonitor ==
    /\ proxyJob["monitor"].at = "resolve"
    /\ LET t == proxyJob["monitor"].tab
           i == IF SessionOfTab(t) # 0 THEN SessionOfTab(t) ELSE NewDebuggerSession
           made == [netSessions EXCEPT ![i] = IF SessionOfTab(t) # 0 THEN @ ELSE FreshSession(t)]
       IN  /\ SessionOfTab(t) = 0 => Unreferenced # {}
           /\ netSessions' = made
           /\ IF made[i].attached
              THEN monitored' = [monitored EXCEPT ![t] = i] /\ proxyJob' = [proxyJob EXCEPT !["monitor"] = NoJob]
              ELSE proxyJob' = [proxyJob EXCEPT !["monitor"].at = "attachMonitor", !["monitor"].s = i] /\ UNCHANGED monitored
    /\ UNCHANGED <<chromeVars, selected, activeSession, proxyEnabled, hasRules, manual, proxyCalls, detaches, monitors>>

AttachMonitor ==
    /\ proxyJob["monitor"].at = "attachMonitor"
    /\ LET t == proxyJob["monitor"].tab
           i == proxyJob["monitor"].s
       IN  IF t \in attached
           THEN UNCHANGED <<attached, netSessions, monitored>>
           ELSE /\ attached' = attached \cup {t}
                /\ netSessions' = [netSessions EXCEPT ![i].attached = TRUE]
                /\ monitored' = [monitored EXCEPT ![t] = i]
    /\ proxyJob' = [proxyJob EXCEPT !["monitor"] = NoJob]
    /\ UNCHANGED <<intercepted, held, handler, selected, activeSession, proxyEnabled, hasRules, manual, proxyCalls, detaches, monitors>>

\* stopActivityDebuggerForTab: the attachment is left to the active session.
StopMonitor(t) ==
    /\ proxyJob["monitor"] = NoJob /\ monitored[t] # 0
    /\ monitored' = [monitored EXCEPT ![t] = 0]
    /\ proxyJob' = [proxyJob EXCEPT !["monitor"] = IF activeSession = monitored[t] THEN NoJob
                 ELSE [Begin("monitor", t) EXCEPT !.at = "detachMonitor", !.s = monitored[t]]]
    /\ UNCHANGED <<chromeVars, selected, netSessions, activeSession, proxyEnabled, hasRules, manual, proxyCalls, detaches, monitors>>

MonitorDetached ==
    /\ proxyJob["monitor"].at = "detachMonitor"
    /\ Detached(proxyJob["monitor"].tab)
    /\ netSessions' = [netSessions EXCEPT ![proxyJob["monitor"].s].attached = FALSE]
    /\ proxyJob' = [proxyJob EXCEPT !["monitor"] = NoJob]
    /\ UNCHANGED <<handler, selected, activeSession, monitored, proxyEnabled, hasRules, manual, proxyCalls, detaches, monitors>>

----------------------------------------------------------------------------
(* Paused requests *)

\* Fetch.requestPaused: a request of the active session's tab may match rules, any
\* other one is continued where it came from.
PauseRequest(r, t) ==
    /\ handler[r] = "none" /\ t \in intercepted
    /\ held' = [held EXCEPT ![r] = t]
    /\ IF ActiveOn(t) /\ netSessions[activeSession].attached
       THEN handler' \in {[handler EXCEPT ![r] = "passing"]}
                         \cup {[handler EXCEPT ![r] = a] : a \in IF hasRules THEN {"altering"} ELSE {}}
       ELSE handler' = [handler EXCEPT ![r] = "continuing"]
    /\ UNCHANGED <<attached, intercepted, selected, netSessions, activeSession, monitored, proxyEnabled, hasRules, manual,
                   proxyJob, proxyCalls, detaches, monitors>>

\* A continuation or an alteration that Chrome accepts, or that comes too late.
AnswerRequest(r) ==
    /\ handler[r] \in {"passing", "altering", "continuing"}
    /\ handler' = [handler EXCEPT ![r] = "done"]
    /\ held' = [held EXCEPT ![r] = NoTab]
    /\ UNCHANGED <<attached, intercepted, selected, netSessions, activeSession, monitored, proxyEnabled, hasRules, manual,
                   proxyJob, proxyCalls, detaches, monitors>>

\* What follows an alteration that Chrome refuses: the request is continued unaltered.
\* Mutant: nothing more is sent.
GivenUp      == "done"
AfterRefusal == "continuing"

RefuseAlteration(r) ==
    /\ handler[r] = "altering"
    /\ handler' = [handler EXCEPT ![r] = AfterRefusal]
    /\ UNCHANGED <<attached, intercepted, held, selected, netSessions, activeSession, monitored, proxyEnabled, hasRules,
                   manual, proxyJob, proxyCalls, detaches, monitors>>

JobStep(j) == ResolveSession(j) \/ Switch(j) \/ Attach(j) \/ Ensured(j) \/ EnableNetwork(j) \/ Intercept(j) \/ Release(j)
ToolStep == DisableFetch \/ FetchDisabled \/ ApplyRemoval \/ ToolDetached

ProxyNext ==
    \/ \E j \in Jobs : JobStep(j) \/ Refuse(j)
    \/ EnableProxy \/ DisableProxy \/ RemoveRules \/ TabLoads \/ ToolStep
    \/ ResolveMonitor \/ AttachMonitor \/ MonitorDetached
    \/ \E t \in Tabs : DetachDebugger(t) \/ SelectTab(t) \/ StartMonitor(t) \/ StopMonitor(t)
                       \/ ChromeDetaches(t, TRUE) \/ ChromeDetaches(t, FALSE)
    \/ \E r \in Requests : AnswerRequest(r) \/ RefuseAlteration(r) \/ \E t \in Tabs : PauseRequest(r, t)

ProxySpec == ProxyInit /\ [][ProxyNext]_proxyVars

\* Chrome answers every command.
ProxyFairness ==
    /\ \A j \in Jobs : WF_proxyVars(JobStep(j))
    /\ WF_proxyVars(ToolStep)
    /\ \A r \in Requests : WF_proxyVars(AnswerRequest(r))
FairProxySpec == ProxySpec /\ ProxyFairness
----------------------------------------------------------------------------

ProxyTypeOK ==
    /\ attached \subseteq Tabs /\ intercepted \subseteq attached
    /\ held \in [Requests -> Tabs \cup {NoTab}]
    /\ netSessions \in [DebuggerSessionIds -> [tab : Tabs \cup {NoTab}, attached : BOOLEAN, fetch : BOOLEAN]]
    /\ activeSession \in 0..MaxSessions /\ monitored \in [Tabs -> 0..MaxSessions]
    /\ proxyEnabled \in BOOLEAN /\ hasRules \in BOOLEAN /\ manual \subseteq Tabs

\* A request of the page that Chrome holds back for the proxy is never forgotten: its
\* handler is still going to let it go on, whatever becomes of the session, the rules
\* and the alteration (handleFetchPauseEvent continues it when all else has failed).
NoRequestStuck == \A r \in Requests : held[r] # NoTab => handler[r] \notin {"none", "done"}

NothingUnderWay == \A j \in Jobs : proxyJob[j] = NoJob

\* The sessions the extension consults for a tab, and whether Chrome agrees with what
\* their flags say of the attachment.
Consulted == ({activeSession} \cup {monitored[t] : t \in Tabs}) \ {0}
FlagsAgree == \A i \in Consulted : netSessions[i].attached => TabOf(i) \in attached

\* The steps by which the code itself takes a session for attached that is not:
\* an attachment is answered when a call has made another tab's session the active one,
\* and the flag is set on that one (line 2774);
FlagMisplaced ==
    \E j \in Jobs : /\ proxyJob[j].at = "attach" /\ activeSession # 0
                   /\ TabOf(activeSession) # TabOf(proxyJob[j].s) /\ attached' # attached

\* Chrome lets go of a tab for which there are two objects, one of which is reset;
TwoObjects(t) ==
    /\ ActiveOn(t)
    /\ \/ monitored[t] \notin {0, activeSession}
       \/ proxyJob["monitor"].at = "detachMonitor" /\ proxyJob["monitor"].s # activeSession

\* detach_debugger leaves a monitored tab, and Chrome does not report it to onDetach;
LeftUnreported(t) == proxyJob["tool"].at = "detach" /\ monitored[t] # 0 /\ UNCHANGED netSessions

\* the session goes to another tab, and a monitor has started since it was found that
\* none needs the attachment (line 2756).
MonitoredSince(t) == monitored[t] # 0 /\ \E j \in Jobs : proxyJob[j].at = "switch" /\ TabOf(proxyJob[j].s) = t

Misstep ==
    \/ FlagMisplaced
    \/ \E t \in attached \ attached' : TwoObjects(t) \/ LeftUnreported(t) \/ MonitoredSince(t)

\* However tool calls, reattachments, restore loops, monitors and detachments run into
\* each other while the debugger goes from tab to tab, no session is taken for attached
\* to a tab that Chrome has let go of, but by one of these steps: such a session could
\* never be attached again (ensureDebuggerSessionForTab asks the flag alone). And a
\* request of the page is not forgotten.
SessionIsSound ==
    /\ []NoRequestStuck
    /\ [][FlagsAgree => FlagsAgree' \/ Misstep]_proxyVars

\* A restore loop that no later one replaces ends with requests intercepted, unless
\* the proxy is turned off, however it runs into tool calls, reattachments, refusals
\* and further detachments. Three cases are left out, in which the code does not restore:
\* detach_debugger overtakes the attachment of a loop, after which Chrome refuses to
\* attach a tab that the extension does not know to be attached (ManualDetach is FALSE);
\* and, on several tabs, a loop and a tool call take the debugger to their own tab in
\* turn (the property is checked on one); and the proxy is disabled and enabled again
\* while a loop waits for its Fetch.disable, which it then takes for an enabling.
Restoring == \E j \in Loops : proxyJob[j] # NoJob /\ proxyJob[j].kind = "loop" /\ proxyJob[j].current
InterceptionRestored ==
    Restoring ~> (~proxyEnabled \/ ~hasRules \/ (activeSession # 0 /\ TabOf(activeSession) \in intercepted))

\* After disable_proxy no request is intercepted. The code does not keep it: a
\* reattachment, a restore loop or an enabling that has passed its check of
\* proxyEnabled sends Fetch.enable after the Fetch.disable and leaves it on.
DisabledIsQuiet ==
    ~proxyEnabled /\ NothingUnderWay /\ activeSession # 0 => TabOf(activeSession) \notin intercepted
=============================================================================
