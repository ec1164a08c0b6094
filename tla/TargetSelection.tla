---------------------------- MODULE TargetSelection ----------------------------
(***************************************************************************)
(* The tab that the extension acts on (background/chromeApi.ts,            *)
(* targetSelectionState.ts): it follows the foreground, or stays on the    *)
(* tab that was selected by hand or is lent to the tool that executes.     *)
(* Tab events and tools resolve it by procedures that await Chrome between *)
(* two looks at the selection, and notice by its generation that another   *)
(* one has changed it in the meantime. A tab stands for a page that is     *)
(* scriptable while it is in usable.                                       *)
(***************************************************************************)
EXTENDS Naturals, Sequences

CONSTANTS
    TabIds, NoTab,
    TabEvents,    \* handlers of a tab event
    Lent,         \* calls of a tool with an authorised target
    Picks,        \* calls that select a tab by hand
    Attempts,     \* looks of one resolution, 8 in the code
    MaxFronts, MaxClosings, MaxStops

ASSUME SelectionAssumption ==
    /\ NoTab \notin TabIds \cup TabEvents \cup Lent \cup Picks
    /\ Lent \cap Picks = {} /\ TabEvents \cap (Lent \cup Picks) = {}
    /\ {Attempts, MaxFronts, MaxClosings, MaxStops} \subseteq Nat

VARIABLES
    usable, front,      \* Chrome: the scriptable tabs, and the active one
    target, mode,       \* lastTargetTabId, targetTabSelection
    loading,            \* "no", "reading" and "done": targetTabStateLoadPromise
    readTab,            \* what that read has found
    stored, writes,     \* the session storage, and targetTabStateWriteTail
    job,                \* where each procedure is
    executing,          \* the call that holds toolExecutionTail
    before,             \* the selection that withTemporaryTargetTab will restore
    chosen,             \* the tab selected by hand, until it is closed
    gone,               \* tabs that have been unusable
    reached,            \* the tab that a tool has acted on
    disturbed,          \* history: the selection by hand has been passed over
    selectionFaults

chromeVars == <<usable, front, gone>>
routingVars == <<target, mode, loading, readTab>>
storageVars == <<stored, writes>>
toolVars == <<executing, before, chosen, reached>>
faultVars == <<disturbed, selectionFaults>>
selectionVars == <<chromeVars, routingVars, storageVars, job, toolVars, faultVars>>

ToolCalls == Lent \cup Picks
Procedures == TabEvents \cup ToolCalls
\* "none": nothing has been stored yet.
Selections == [tab : TabIds \cup {NoTab}, mode : {"none", "auto", "manual"}]

NothingRead == [tab |-> NoTab, mode |-> "none"]

\* own: the tab of an event or of a call; fresh: the generation is the one it has seen;
\* live: the last target was there when Chrome was asked; read: the tab whose element
\* the tool has found
NotStarted ==
    [at |-> "idle", own |-> NoTab, fresh |-> FALSE, live |-> FALSE, read |-> NoTab, tries |-> 0]

SelectionInit ==
    /\ usable = TabIds /\ front \in TabIds /\ gone = {}
    /\ target = NoTab /\ mode = "auto" /\ loading = "no"
    /\ stored = NothingRead /\ readTab = NothingRead /\ writes = <<>>
    /\ job = [j \in Procedures |-> NotStarted]
    /\ executing = NoTab /\ before = [tab |-> NoTab, mode |-> "auto"]
    /\ chosen = NoTab /\ reached = [j \in Lent |-> NoTab]
    /\ disturbed = FALSE /\ selectionFaults = [fronts |-> 0, closings |-> 0, stops |-> 0]

At(j, stages) == job[j].at \in stages
Loaded == loading = "done"
\* The write of j's own commit is in the storage.
Written(j) == \A i \in DOMAIN writes : writes[i].by # j
Go(j, stage) == job' = [job EXCEPT ![j].at = stage]
OverFor(j) == [NotStarted EXCEPT !.at = "over", !.own = job[j].own]
Ends(j) == job' = [job EXCEPT ![j] = OverFor(j)]

-----------------------------------------------------------------------------
(* commitTargetTabState and loadTargetTabState *)

\* transitionTargetSelection: a commit that changes nothing keeps the generation.
Changes(tab, m) == target # tab \/ mode # m

\* j commits and goes on at a stage that awaits the write; the others notice.
Commit(j, tab, m, stage) ==
    LET mine == [job[j] EXCEPT !.at = stage, !.fresh = TRUE,
                               !.own = IF j \in Picks THEN tab ELSE @]
    IN  IF Changes(tab, m)
        THEN /\ target' = tab /\ mode' = m
             /\ writes' = Append(writes, [tab |-> tab, mode |-> m, by |-> j])
             /\ job' = [i \in Procedures |->
                          IF i = j THEN mine ELSE [job[i] EXCEPT !.fresh = FALSE]]
        ELSE /\ job' = [job EXCEPT ![j] = mine]
             /\ UNCHANGED <<target, mode, writes>>

StoreWrite ==
    /\ writes # <<>>
    /\ stored' = [tab |-> Head(writes).tab, mode |-> Head(writes).mode]
    /\ writes' = Tail(writes)
    /\ UNCHANGED <<chromeVars, routingVars, job, toolVars, faultVars>>

\* The stages that begin with loadTargetTabState.
NeedsLoad == \E j \in Procedures : At(j, {"remember", "query", "borrow", "tabs"})

LoadStarts ==
    /\ loading = "no" /\ NeedsLoad
    /\ loading' = "reading" /\ readTab' = stored
    /\ UNCHANGED <<chromeVars, target, mode, storageVars, job, toolVars, faultVars>>

\* The generation stays as it is.
LoadEnds ==
    /\ loading = "reading"
    /\ loading' = "done"
    /\ target' = IF readTab.tab # NoTab THEN readTab.tab ELSE target
    /\ mode' = IF readTab.mode # "none" THEN readTab.mode ELSE mode
    /\ readTab' = NothingRead
    /\ UNCHANGED <<chromeVars, storageVars, job, toolVars, faultVars>>

-----------------------------------------------------------------------------
(* queryActiveTab *)

Returns(j) == job' = [job EXCEPT ![j] = [OverFor(j) EXCEPT !.at = "return"]]

\* A tool asks the tab for its element and resolves the tab again before it acts on it
\* (forwardContentRequestWithTarget and assertTrustedContentTarget).
Resolved(j, tab) ==
    /\ UNCHANGED <<executing, before, chosen>>
    /\ IF j \in TabEvents THEN Ends(j) /\ UNCHANGED reached
       ELSE IF job[j].read = NoTab
       THEN /\ job' = [job EXCEPT ![j].at = "query", ![j].read = tab, ![j].tries = 0]
            /\ UNCHANGED reached
       ELSE /\ Returns(j)
            /\ reached' = IF tab = job[j].read THEN [reached EXCEPT ![j] = tab] ELSE reached

Unresolved(j) ==
    /\ IF j \in Lent THEN Returns(j) ELSE Ends(j)
    /\ UNCHANGED toolVars

LookAgain(j) ==
    IF job[j].tries + 1 >= Attempts THEN Unresolved(j)
    ELSE /\ job' = [job EXCEPT ![j].at = "query", ![j].tries = @ + 1]
         /\ UNCHANGED toolVars

Look(j) ==
    /\ At(j, {"query"}) /\ Loaded
    /\ job' = [job EXCEPT ![j].at = "get", ![j].fresh = TRUE]
    /\ UNCHANGED <<chromeVars, routingVars, storageVars, toolVars, faultVars>>

\* Chrome has answered for the selected tab.
GotTab(j) ==
    /\ At(j, {"get"})
    /\ \/ /\ ~job[j].fresh
          /\ LookAgain(j) /\ UNCHANGED <<target, mode, writes>>
       \/ /\ job[j].fresh /\ mode = "manual" /\ target \in usable
          /\ Resolved(j, target) /\ UNCHANGED <<target, mode, writes>>
       \/ /\ job[j].fresh /\ mode = "manual" /\ target \notin usable
          /\ Commit(j, NoTab, "auto", "lost") /\ UNCHANGED toolVars
       \/ /\ job[j].fresh /\ mode = "auto"
          /\ job' = [job EXCEPT ![j].at = "list", ![j].live = target \in usable]
          /\ UNCHANGED <<target, mode, writes, toolVars>>
    /\ UNCHANGED <<chromeVars, loading, readTab, stored, faultVars>>

GivenUpWritten(j) ==
    /\ At(j, {"lost"}) /\ Written(j)
    /\ LookAgain(j)
    /\ UNCHANGED <<chromeVars, routingVars, storageVars, faultVars>>

\* The active tab, then the last target, then any other.
Candidates(j) ==
    IF front \in usable THEN {front} ELSE IF job[j].live THEN {target} ELSE usable

Outdated(j) == ~job[j].fresh \/ mode # "auto"

\* Chrome has answered with its tabs.
Listed(j) ==
    /\ At(j, {"list"})
    /\ \/ Outdated(j) /\ LookAgain(j) /\ UNCHANGED <<target, mode, writes>>
       \/ /\ ~Outdated(j) /\ Candidates(j) = {}
          /\ Unresolved(j) /\ UNCHANGED <<target, mode, writes>>
       \/ /\ ~Outdated(j)
          /\ \E tab \in Candidates(j) : Commit(j, tab, "auto", "committed")
          /\ UNCHANGED toolVars
    /\ UNCHANGED <<chromeVars, loading, readTab, stored, faultVars>>

Committed(j) ==
    /\ At(j, {"committed"}) /\ Written(j)
    /\ IF Outdated(j) THEN LookAgain(j) ELSE Resolved(j, target)
    /\ UNCHANGED <<chromeVars, routingVars, storageVars, faultVars>>

-----------------------------------------------------------------------------
(* Tab events: rememberAndSyncTargetTab *)

EventArrives(e) ==
    /\ At(e, {"idle"})
    /\ job' = [job EXCEPT ![e].at = "remember", ![e].own = front]
    /\ UNCHANGED <<chromeVars, routingVars, storageVars, toolVars, faultVars>>

\* Mutant of Ignored: the foreground is followed in any mode.
IgnoredNever(tab) == tab \notin usable
Ignored(tab) == tab \notin usable \/ (mode = "manual" /\ tab # target)

Remember(e) ==
    /\ At(e, {"remember"}) /\ Loaded
    /\ IF Ignored(job[e].own) THEN Go(e, "query") /\ UNCHANGED <<target, mode, writes>>
       ELSE Commit(e, job[e].own, mode, "remembered")
    /\ UNCHANGED <<chromeVars, loading, readTab, stored, toolVars, faultVars>>

RememberWritten(e) ==
    /\ At(e, {"remembered"}) /\ Written(e)
    /\ Go(e, "query")
    /\ UNCHANGED <<chromeVars, routingVars, storageVars, toolVars, faultVars>>

-----------------------------------------------------------------------------
(* A tool with an authorised target: executeToolCallSerialized and
   withTemporaryTargetTab *)

\* Its turn on the execution tail; the target is compared.
ToolBegins(j, tab) ==
    /\ executing = NoTab /\ At(j, {"idle"})
    /\ tab \in usable
    /\ job' = [job EXCEPT ![j].at = "borrow", ![j].own = tab]
    /\ executing' = j
    /\ UNCHANGED <<chromeVars, routingVars, storageVars, before, chosen, reached, faultVars>>

Borrow(j) ==
    /\ At(j, {"borrow"}) /\ Loaded
    /\ before' = [tab |-> target, mode |-> mode]
    /\ Go(j, "borrowing")
    /\ UNCHANGED <<chromeVars, routingVars, storageVars, executing, chosen, reached, faultVars>>

TargetClosed(j) ==
    /\ At(j, {"borrowing"}) /\ job[j].own \notin usable
    /\ Ends(j) /\ executing' = NoTab
    /\ UNCHANGED <<chromeVars, routingVars, storageVars, before, chosen, reached, faultVars>>

\* Mutant of LentMode: the lent tab does not keep the others from being resolved.
LentModeFollows == "auto"
LentMode == "manual"

Borrowed(j) ==
    /\ At(j, {"borrowing"}) /\ job[j].own \in usable
    /\ Commit(j, job[j].own, LentMode, "lent")
    /\ UNCHANGED <<chromeVars, loading, readTab, stored, toolVars, faultVars>>

Operate(j) ==
    /\ At(j, {"lent"}) /\ Written(j)
    /\ Go(j, "query")
    /\ UNCHANGED <<chromeVars, routingVars, storageVars, toolVars, faultVars>>

GiveBack(j) ==
    /\ At(j, {"return"})
    /\ IF before.tab \in usable THEN Commit(j, before.tab, before.mode, "returning")
                                ELSE Commit(j, NoTab, "auto", "returning")
    /\ UNCHANGED <<chromeVars, loading, readTab, stored, toolVars, faultVars>>

ToolEnds(j) ==
    /\ At(j, {"returning"}) /\ Written(j)
    /\ Ends(j) /\ executing' = NoTab
    /\ UNCHANGED <<chromeVars, routingVars, storageVars, before, chosen, reached, faultVars>>

-----------------------------------------------------------------------------
(* selectTargetTab and listTargetTabs *)

\* Nobody awaits the load: the stored selection, read later, replaces a tab selected
\* before. The next tab that changes the selection makes up for it.
PickTab(p, tab) ==
    /\ executing = NoTab /\ At(p, {"idle"})
    /\ tab \in usable
    /\ executing' = p /\ chosen' = NoTab
    /\ Commit(p, tab, "manual", "picked")
    /\ disturbed' = (~Loaded \/ (disturbed /\ ~Changes(tab, "manual")))
    /\ UNCHANGED <<chromeVars, loading, readTab, stored, before, reached, selectionFaults>>

PickFails(p) == Ends(p) /\ executing' = NoTab /\ UNCHANGED chosen

PickWritten(p) ==
    /\ At(p, {"picked"}) /\ Written(p)
    /\ IF job[p].fresh /\ mode = "manual" /\ target = job[p].own
       THEN /\ Go(p, "tabs") /\ UNCHANGED executing
            /\ chosen' = IF target \in usable THEN target ELSE NoTab
       ELSE PickFails(p)
    /\ UNCHANGED <<chromeVars, routingVars, storageVars, before, reached, faultVars>>

TabsAsked(p) ==
    /\ At(p, {"tabs"}) /\ Loaded
    /\ job' = [job EXCEPT ![p].at = "tabsAsked", ![p].fresh = TRUE]
    /\ UNCHANGED <<chromeVars, routingVars, storageVars, toolVars, faultVars>>

\* A selected tab that is not listed any more is given up.
TabsListed(p) ==
    /\ At(p, {"tabsAsked"})
    /\ LET last == job[p].tries + 1 >= Attempts
       IN  \/ /\ ~job[p].fresh
              /\ IF last THEN Ends(p) /\ executing' = NoTab
                 ELSE /\ job' = [job EXCEPT ![p].at = "tabs", ![p].tries = @ + 1]
                      /\ UNCHANGED executing
              /\ UNCHANGED <<target, mode, writes>>
           \/ /\ job[p].fresh /\ (target \in usable \/ mode = "auto")
              /\ Ends(p) /\ executing' = NoTab
              /\ UNCHANGED <<target, mode, writes>>
           \/ /\ job[p].fresh /\ target \notin usable /\ mode = "manual"
              /\ Commit(p, NoTab, "auto", "tabsGivenUp") /\ UNCHANGED executing
    /\ UNCHANGED <<chromeVars, loading, readTab, stored, before, chosen, reached, faultVars>>

TabsGivenUp(p) ==
    /\ At(p, {"tabsGivenUp"}) /\ Written(p)
    /\ IF (job[p].fresh /\ target = NoTab) \/ job[p].tries + 1 >= Attempts
       THEN Ends(p) /\ executing' = NoTab
       ELSE /\ job' = [job EXCEPT ![p].at = "tabs", ![p].tries = @ + 1]
            /\ UNCHANGED executing
    /\ UNCHANGED <<chromeVars, routingVars, storageVars, before, chosen, reached, faultVars>>

-----------------------------------------------------------------------------
(* Chrome and the extension's worker *)

ActivateTab(tab) ==
    /\ selectionFaults.fronts < MaxFronts /\ tab # front
    /\ front' = tab
    /\ selectionFaults' = [selectionFaults EXCEPT !.fronts = @ + 1]
    /\ UNCHANGED <<usable, gone, routingVars, storageVars, job, toolVars, disturbed>>

\* The tab is closed, or shows a page that no script may run in.
LosePage(tab) ==
    /\ selectionFaults.closings < MaxClosings /\ tab \in usable
    /\ usable' = usable \ {tab} /\ gone' = gone \cup {tab}
    /\ front' \in (IF front = tab THEN TabIds ELSE {front})
    /\ chosen' = IF chosen = tab THEN NoTab ELSE chosen
    /\ selectionFaults' = [selectionFaults EXCEPT !.closings = @ + 1]
    /\ UNCHANGED <<routingVars, storageVars, job, executing, before, reached, disturbed>>

ShowPage(tab) ==
    /\ tab \in gone \ usable
    /\ usable' = usable \cup {tab}
    /\ UNCHANGED <<front, gone, routingVars, storageVars, job, toolVars, faultVars>>

\* Chrome stops the worker: its memory, its writes and its procedures end with it. A tool
\* leaves what it has stored: the tab it was lent, or none.
StopWorker ==
    /\ selectionFaults.stops < MaxStops
    /\ target' = NoTab /\ mode' = "auto" /\ loading' = "no" /\ writes' = <<>>
    /\ job' = [j \in Procedures |-> IF At(j, {"idle"}) THEN job[j] ELSE OverFor(j)]
    /\ executing' = NoTab
    /\ disturbed' = (disturbed \/ executing # NoTab)
    /\ selectionFaults' = [selectionFaults EXCEPT !.stops = @ + 1]
    /\ readTab' = NothingRead
    /\ UNCHANGED <<chromeVars, stored, before, chosen, reached>>

-----------------------------------------------------------------------------
(* The specification *)

ResolveStep(j) ==
    Look(j) \/ GotTab(j) \/ GivenUpWritten(j) \/ Listed(j) \/ Committed(j)
EventStep(e) == EventArrives(e) \/ Remember(e) \/ RememberWritten(e) \/ ResolveStep(e)
LentStep(j) ==
    \/ \E tab \in TabIds : ToolBegins(j, tab)
    \/ Borrow(j) \/ TargetClosed(j) \/ Borrowed(j) \/ Operate(j) \/ ResolveStep(j)
    \/ GiveBack(j) \/ ToolEnds(j)
PickStep(p) ==
    \/ \E tab \in TabIds : PickTab(p, tab)
    \/ PickWritten(p) \/ TabsAsked(p) \/ TabsListed(p) \/ TabsGivenUp(p)
ChromeStep == StopWorker \/ \E tab \in TabIds : ActivateTab(tab) \/ LosePage(tab) \/ ShowPage(tab)

SelectionNext ==
    \/ StoreWrite \/ LoadStarts \/ LoadEnds \/ ChromeStep
    \/ \E e \in TabEvents : EventStep(e)
    \/ \E j \in Lent : LentStep(j)
    \/ \E p \in Picks : PickStep(p)

SelectionSpec == SelectionInit /\ [][SelectionNext]_selectionVars

-----------------------------------------------------------------------------
(* Properties *)

\* Types.
SelectionTypeOK ==
    /\ usable \subseteq TabIds /\ front \in TabIds /\ gone \subseteq TabIds
    /\ {target, chosen} \subseteq TabIds \cup {NoTab} /\ mode \in {"auto", "manual"}
    /\ {stored, readTab, before} \subseteq Selections /\ loading \in {"no", "reading", "done"}
    /\ \A i \in DOMAIN writes : writes[i].by \in Procedures
    /\ executing \in ToolCalls \cup {NoTab} /\ disturbed \in BOOLEAN

\* Between two tools the extension acts on the tab that was selected by hand, however tab
\* events, resolutions, lent tabs and stops of the worker have interleaved; without one
\* it follows the foreground, unless a lost tab has not been noticed yet ("stale
\* automatic target resolution cannot overwrite a newer manual selection"). In two cases
\* the code does not keep the selection: when it was made before the stored one has been
\* read, and when the worker is stopped in a tool. From there on nothing is asked until
\* the next selection by hand that changes the target, and then everything again.
SelectionIsTheUsers ==
    executing = NoTab /\ Loaded /\ ~disturbed =>
        IF chosen # NoTab THEN target = chosen /\ mode = "manual"
                          ELSE mode = "manual" => target \in gone

\* A tool acts on another tab than the one it was authorised for only if that tab was
\* lost, also after a selection that came before the load and a stop in a tool.
StrayedOnlyIfGone ==
    \A j \in Lent : reached[j] \in {NoTab, job[j].own} \/ job[j].own \in gone

\* A tool acts on the tab that its grant is bound to (docs/background-target-reliability-
\* plan.md:19): does not hold, see the README.
ActsOnItsTab == \A j \in Lent : reached[j] \in {NoTab, job[j].own}

=============================================================================
