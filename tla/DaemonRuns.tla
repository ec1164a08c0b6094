------------------------------ MODULE DaemonRuns ------------------------------
(***************************************************************************)
(* The agent runs of one conversation: the side panel's bridge that starts,*)
(* cancels and awaits them (sidepanel/services/mcpBridge.ts), the socket,  *)
(* and the daemon's runner (daemon/agentRunner.ts) with the part of        *)
(* mcp/wsServer.ts and mcp/browserStateHub.ts that answers the panel.      *)
(*                                                                         *)
(* The socket is first-in first-out and loses what is under way when it    *)
(* closes.  Content, status and tool messages of a run are left out: only  *)
(* what the life of a run depends on is sent here.                         *)
(***************************************************************************)
EXTENDS Naturals, Sequences, FiniteSets

CONSTANTS
  Runs,
  None,
  MaxQuestions,  \* bound: budget questions of a run
  MaxDrops,      \* bound: connections lost
  MaxReloads,    \* bound: reloads of the panel
  MaxCrashes,    \* bound: restarts of the daemon
  MaxSlow        \* bound: answers that come after their timer has fired

ASSUME RunsAssumption ==
  /\ None \notin Runs \cup {"running", "completed", "cancelled", "blocked", "failed"}
  /\ \A n \in {MaxQuestions, MaxDrops, MaxReloads, MaxCrashes, MaxSlow} : n \in Nat

VARIABLES
  awaits,     \* the panel: activeDaemonAgentRuns, and how those that left it settled
  outbox,     \* the panel: messages for the next connection
  online,     \* the panel is authenticated
  daemonInbox, panelInbox,
  active,     \* the daemon: the run of the conversation
  runAborted, \* the daemon: its controller is aborted
  question,   \* the daemon: pendingBudget, 0 when there is none
  questions,  \* budget questions each run has asked
  sessions,   \* the hub: status of the session of each run
  sessionFile,\* the sessions in the state file
  drops, reloads, crashes, slow

panelRunVars == <<awaits, outbox, online>>
wireVars == <<daemonInbox, panelInbox>>
daemonVars == <<active, runAborted, question, questions, sessions, sessionFile>>
faultVars == <<drops, reloads, crashes, slow>>
runsVars == <<panelRunVars, wireVars, daemonVars, faultVars>>

Terminal == {"completed", "cancelled", "blocked", "failed"}

\* starting: an acknowledgement is pending; cancel: the id of the cancellation
\* request, 0 when there is none; retry: its retry timer is set.
Idle == [phase |-> "idle", starting |-> FALSE, timedOut |-> FALSE, cancelling |-> FALSE,
         cancel |-> 0, retry |-> FALSE, prompt |-> 0]

RunsTypeOK ==
  /\ \A r \in Runs : awaits[r].phase \in {"idle", "open", "rejected", "lost", "stopped"} \cup Terminal
  /\ active \in Runs \cup {None}
  /\ question \in 0 .. MaxQuestions
  /\ \A r \in Runs : sessions[r] \in {None, "running"} \cup Terminal

RunsInit ==
  /\ awaits = [r \in Runs |-> Idle]
  /\ outbox = <<>> /\ online = TRUE
  /\ daemonInbox = <<>> /\ panelInbox = <<>>
  /\ active = None /\ runAborted = FALSE
  /\ question = 0 /\ questions = [r \in Runs |-> 0]
  /\ sessions = [r \in Runs |-> None] /\ sessionFile = sessions
  /\ drops = 0 /\ reloads = 0 /\ crashes = 0 /\ slow = 0

Msg(type, r, id, value) == [type |-> type, run |-> r, id |-> id, value |-> value]

Open(r) == awaits[r].phase = "open"

-----------------------------------------------------------------------------
(* The panel *)

\* The settlement of a promise; one whose start timed out is rejected anyway.
RunSettled(x, outcome) ==
  [Idle EXCEPT !.phase = IF x.timedOut THEN "rejected" ELSE outcome]

\* send: on the authenticated socket, or later.
Send(messages) ==
  IF online THEN daemonInbox' = daemonInbox \o messages /\ UNCHANGED outbox
            ELSE outbox' = outbox \o messages /\ UNCHANGED daemonInbox

UsedIds == {daemonInbox[i].id : i \in DOMAIN daemonInbox} \cup {panelInbox[i].id : i \in DOMAIN panelInbox}
             \cup {outbox[i].id : i \in DOMAIN outbox} \cup {awaits[r].cancel : r \in Runs}
FreshId == CHOOSE n \in 1 .. Cardinality(UsedIds) + 1 :
             n \notin UsedIds /\ \A m \in 1 .. n - 1 : m \in UsedIds

\* requestDaemonAgentCancellation, for a run that is left as x.
RequestCancel(r, x) ==
  IF x.cancel # 0
  THEN awaits' = [awaits EXCEPT ![r] = x] /\ UNCHANGED <<outbox, daemonInbox>>
  ELSE /\ awaits' = [awaits EXCEPT ![r] = [x EXCEPT !.cancelling = TRUE, !.retry = FALSE,
                                                    !.cancel = FreshId]]
       /\ Send(<<Msg("cancel", r, FreshId, None)>>)

\* runDaemonAgentSession; the panel runs one at a time in a conversation.
StartRun(r) ==
  /\ online
  /\ awaits[r].phase = "idle" /\ \A s \in Runs : ~Open(s)
  /\ sessions[r] = None
  /\ awaits' = [awaits EXCEPT ![r] = [Idle EXCEPT !.phase = "open", !.starting = TRUE]]
  /\ daemonInbox' = Append(daemonInbox, Msg("start", r, 0, None))
  /\ UNCHANGED <<outbox, online, panelInbox, daemonVars, faultVars>>

\* Mutant of StartTimesOut: the run is given up at once.
StartGivenUp(r) ==
  /\ Open(r) /\ awaits[r].starting
  /\ awaits' = [awaits EXCEPT ![r] = [Idle EXCEPT !.phase = "rejected"]]
  /\ UNCHANGED <<outbox, online, wireVars, daemonVars, faultVars>>

\* No acknowledgement for daemonAgentStartTimeoutMs.
StartTimesOut(r) ==
  /\ Open(r) /\ awaits[r].starting
  /\ RequestCancel(r, [awaits[r] EXCEPT !.starting = FALSE, !.timedOut = TRUE])
  /\ UNCHANGED <<online, panelInbox, daemonVars, faultVars>>

\* The user stops the run.
StopRun(r) ==
  /\ Open(r) /\ ~awaits[r].cancelling
  /\ RequestCancel(r, [awaits[r] EXCEPT !.starting = FALSE])
  /\ UNCHANGED <<online, panelInbox, daemonVars, faultVars>>

\* The cancellation is not answered within daemonAgentCancelRetryMs: it waits
\* for a connection, or the daemon is slow.
CancelTimesOut(r) ==
  /\ Open(r) /\ awaits[r].cancel # 0
  /\ online => slow < MaxSlow
  /\ slow' = IF online THEN slow + 1 ELSE slow
  /\ LET x == [awaits[r] EXCEPT !.cancel = 0]
     IN  IF online THEN RequestCancel(r, x)
         ELSE awaits' = [awaits EXCEPT ![r] = x] /\ UNCHANGED <<outbox, daemonInbox>>
  /\ UNCHANGED <<online, panelInbox, daemonVars, drops, reloads, crashes>>

\* It was accepted, and the run has not ended since.
CancelAgain(r) ==
  /\ Open(r) /\ awaits[r].retry
  /\ RequestCancel(r, [awaits[r] EXCEPT !.retry = FALSE])
  /\ UNCHANGED <<online, panelInbox, daemonVars, faultVars>>

\* resolveDaemonAgentBudgetRequest, when the user has answered.
DecideBudget(r) ==
  /\ Open(r) /\ awaits[r].prompt # 0
  /\ awaits' = [awaits EXCEPT ![r].prompt = 0]
  /\ Send(<<Msg("decision", r, awaits[r].prompt, None)>>)
  /\ UNCHANGED <<online, panelInbox, daemonVars, faultVars>>

\* What becomes of an awaited run x with the message m. An acknowledgement that
\* nobody waits for is ignored, and so is the result of an earlier cancellation.
Heard(x, m) ==
  LET y == [x EXCEPT !.starting = FALSE]
  IN  CASE m.type = "started" -> y
        [] m.type = "refused" -> IF x.starting THEN RunSettled(x, "rejected") ELSE x
        [] m.type = "session" -> IF m.value \in Terminal THEN RunSettled(x, m.value) ELSE y
        [] m.type = "budget"  -> [y EXCEPT !.prompt = m.id]
        [] m.type = "cancelling" ->
             IF x.cancel # m.id THEN x
             ELSE IF m.value \in Terminal THEN RunSettled(x, m.value)
             ELSE [y EXCEPT !.cancel = 0, !.retry = TRUE]
        [] m.type = "not_active" ->
             IF x.cancel # m.id THEN x
             ELSE RunSettled(x, IF m.value \in Terminal THEN m.value ELSE "rejected")

\* handleServerMessage
PanelHandles ==
  /\ panelInbox # <<>>
  /\ LET m == Head(panelInbox)
     IN  awaits' = IF Open(m.run) THEN [awaits EXCEPT ![m.run] = Heard(@, m)] ELSE awaits
  /\ panelInbox' = Tail(panelInbox)
  /\ UNCHANGED <<outbox, online, daemonInbox, daemonVars, faultVars>>

\* resetDaemonAgentCancelRequestsForReconnect: the request that is pending, of the one
\* run that is open, is not sent later.
Reset(x) == [x EXCEPT !.cancel = 0, !.retry = FALSE]
Stale == {i \in DOMAIN outbox : outbox[i].type = "cancel" /\ outbox[i].id # 0
                               /\ \E r \in Runs : awaits[r].cancel = outbox[i].id}
ResetOutbox ==
  IF Stale = {} THEN outbox
  ELSE LET i == CHOOSE k \in Stale : TRUE
       IN  SubSeq(outbox, 1, i - 1) \o SubSeq(outbox, i + 1, Len(outbox))

\* The connection closes.
LoseConnection ==
  /\ online' = FALSE
  /\ daemonInbox' = <<>> /\ panelInbox' = <<>>

DropConnection ==
  /\ online /\ drops < MaxDrops
  /\ drops' = drops + 1
  /\ LoseConnection
  /\ awaits' = [r \in Runs |-> Reset(awaits[r])]
  /\ outbox' = ResetOutbox
  /\ UNCHANGED <<daemonVars, reloads, crashes, slow>>

\* An attempt to connect fails: its socket closes like any other.
ConnectFails ==
  /\ ~online
  /\ awaits' = [r \in Runs |-> Reset(awaits[r])]
  /\ outbox' = ResetOutbox
  /\ awaits' # awaits
  /\ UNCHANGED <<online, wireVars, daemonVars, faultVars>>

\* Mutant of Unreconciled: the cancellations are not sent again.
NothingUnreconciled == {}

\* reconcileDaemonAgentCancellations
Unreconciled == {r \in Runs : Open(r) /\ awaits[r].cancelling /\ awaits[r].cancel = 0}

\* Mutant of Replay: only the budget questions are sent again.
ReplayQuestions ==
  IF question = 0 THEN <<>> ELSE <<Msg("budget", active, question, None)>>

\* replayStateToObserver: the sessions of the hub, and the budget questions.
Replay ==
  LET known == {r \in Runs : sessions[r] # None}
      order == CHOOSE f \in [1 .. Cardinality(known) -> known] : \A r \in known : \E i \in DOMAIN f : f[i] = r
  IN  [i \in DOMAIN order |-> Msg("session", order[i], 0, sessions[order[i]])]
        \o (IF question = 0 THEN <<>> ELSE <<Msg("budget", active, question, None)>>)

\* The panel is authenticated. What the daemon replays comes before its welcome;
\* what the panel has kept goes out, and then the cancellations.
PanelConnects ==
  /\ ~online
  /\ online' = TRUE
  /\ panelInbox' = Replay
  /\ outbox' = <<>>
  /\ \/ Unreconciled = {} /\ daemonInbox' = outbox /\ UNCHANGED awaits
     \/ \E r \in Unreconciled :   \* at most one run is open
          /\ awaits' = [awaits EXCEPT ![r].cancel = FreshId, ![r].retry = FALSE]
          /\ daemonInbox' = Append(outbox, Msg("cancel", r, FreshId, None))
  /\ UNCHANGED <<daemonVars, faultVars>>

\* The panel is closed and opened, or reloaded: the bridge starts anew.
ReloadPanel ==
  /\ reloads < MaxReloads
  /\ reloads' = reloads + 1
  /\ LoseConnection
  /\ outbox' = <<>>
  /\ awaits' = [r \in Runs |-> IF Open(r) THEN [Idle EXCEPT !.phase = "lost"] ELSE awaits[r]]
  /\ UNCHANGED <<daemonVars, drops, crashes, slow>>

\* The user stops a run that the panel shows from its session only.
StopRestoredRun(r) ==
  /\ awaits[r].phase = "lost" /\ sessions[r] = "running"
  /\ awaits' = [awaits EXCEPT ![r].phase = "stopped"]
  /\ Send(<<Msg("cancel", r, 0, None)>>)
  /\ UNCHANGED <<online, panelInbox, daemonVars, faultVars>>

-----------------------------------------------------------------------------
(* The daemon *)

\* What the daemon sends reaches a panel that is connected.
Emit(messages) == panelInbox' = IF online THEN panelInbox \o messages ELSE panelInbox

\* start: it is refused in a conversation that has a run, and for its configuration (an
\* unsafe address, no model). A run publishes its session before it is acknowledged:
\* nothing is awaited and nothing can fail before, so it never ends without a session.
HandleStart(r) ==
  \/ Emit(<<Msg("refused", r, 0, None)>>) /\ UNCHANGED daemonVars
  \/ /\ active = None
     /\ active' = r /\ runAborted' = FALSE /\ question' = 0
     /\ sessions' = [sessions EXCEPT ![r] = "running"]
     /\ Emit(<<Msg("session", r, 0, "running"), Msg("started", r, 0, None)>>)
     /\ UNCHANGED <<questions, sessionFile>>

\* cancel: an abort rejects the question that is pending.
HandleCancel(r, id) ==
  /\ Emit(<<Msg(IF active = r THEN "cancelling" ELSE "not_active", r, id, sessions[r])>>)
  /\ IF active = r THEN runAborted' = TRUE /\ question' = 0 ELSE UNCHANGED <<runAborted, question>>
  /\ UNCHANGED <<active, questions, sessions, sessionFile>>

\* resolveBudgetDecision
HandleDecision(r, id) ==
  /\ question' = IF active = r /\ question = id THEN 0 ELSE question
  /\ UNCHANGED <<panelInbox, active, runAborted, questions, sessions, sessionFile>>

DaemonReceives ==
  /\ daemonInbox # <<>>
  /\ daemonInbox' = Tail(daemonInbox)
  /\ LET m == Head(daemonInbox)
     IN  CASE m.type = "start" -> HandleStart(m.run)
           [] m.type = "cancel" -> HandleCancel(m.run, m.id)
           [] m.type = "decision" -> HandleDecision(m.run, m.id)
  /\ UNCHANGED <<panelRunVars, faultVars>>

\* requestBudgetDecision: the run is suspended.
AskForBudget ==
  /\ active # None /\ ~runAborted /\ question = 0
  /\ questions[active] < MaxQuestions
  /\ questions' = [questions EXCEPT ![active] = @ + 1]
  /\ question' = questions[active] + 1
  /\ Emit(<<Msg("budget", active, question', None)>>)
  /\ UNCHANGED <<daemonInbox, panelRunVars, active, runAborted, sessions, sessionFile, faultVars>>

\* The run ends: its session is stored and only then sent; one that is aborted
\* may have ended in its own way before it noticed.
EndRun(status) ==
  /\ active # None /\ question = 0
  /\ status = "cancelled" => runAborted
  /\ sessions' = [sessions EXCEPT ![active] = status]
  /\ Emit(<<Msg("session", active, 0, status)>>)
  /\ active' = None /\ runAborted' = FALSE
  /\ UNCHANGED <<daemonInbox, panelRunVars, question, questions, sessionFile, faultVars>>

SaveSessions ==
  /\ crashes < MaxCrashes
  /\ sessionFile # sessions
  /\ sessionFile' = sessions
  /\ UNCHANGED <<panelRunVars, wireVars, active, runAborted, question, questions, sessions, faultVars>>

\* recoverPersistedAgentSession: a run of the daemon that ended is blocked.
Crash ==
  /\ crashes < MaxCrashes
  /\ crashes' = crashes + 1
  /\ active' = None /\ runAborted' = FALSE /\ question' = 0
  /\ sessions' = [r \in Runs |-> IF sessionFile[r] = "running" THEN "blocked" ELSE sessionFile[r]]
  /\ LoseConnection
  /\ awaits' = [r \in Runs |-> Reset(awaits[r])]
  /\ outbox' = ResetOutbox
  /\ UNCHANGED <<questions, sessionFile, drops, reloads, slow>>

RunsNext ==
  \/ PanelHandles \/ DropConnection \/ ConnectFails \/ PanelConnects \/ ReloadPanel
  \/ \E r \in Runs : \/ StartRun(r) \/ StartTimesOut(r) \/ StopRun(r) \/ CancelTimesOut(r)
                     \/ CancelAgain(r) \/ DecideBudget(r) \/ StopRestoredRun(r)
  \/ DaemonReceives \/ AskForBudget \/ SaveSessions \/ Crash
  \/ \E status \in {"completed", "cancelled"} : EndRun(status)

\* Sockets deliver, the panel reconnects, its timers fire; the user answers a
\* prompt; and a run that is not suspended ends, an aborted one at its next step.
RunsFairness ==
  /\ WF_runsVars(PanelHandles) /\ WF_runsVars(DaemonReceives) /\ WF_runsVars(PanelConnects)
  /\ \A r \in Runs : /\ WF_runsVars(StartTimesOut(r)) /\ WF_runsVars(CancelAgain(r))
                     /\ WF_runsVars(DecideBudget(r))
  /\ SF_runsVars(EndRun("completed") \/ EndRun("cancelled"))

RunsSpec == RunsInit /\ [][RunsNext]_runsVars /\ RunsFairness
-----------------------------------------------------------------------------
(* Properties *)

\* A run that the panel has settled, and after which it lets the next one
\* start, is over in the daemon or will never begin: no start that timed out, no
\* stop and no reconnection leaves a run behind that works on unseen.
SettledIsOver ==
  \A r \in Runs : awaits[r].phase \in Terminal \cup {"rejected"} =>
    /\ active # r
    /\ \A i \in DOMAIN daemonInbox : daemonInbox[i].type = "start" => daemonInbox[i].run # r

\* The hub does not know the run although the daemon has accepted it.
Forgotten(r) == crashes > 0 /\ ~awaits[r].starting /\ sessions[r] = None /\ active # r

\* Whatever messages are lost, the panel learns how a run ended, unless the
\* daemon crashed before it had saved anything of the run.
EveryRunSettles == \A r \in Runs : Open(r) ~> (~Open(r) \/ Forgotten(r))

\* A run that the user stops is over for the panel, in every case.
StoppedRunSettles == \A r \in Runs : (Open(r) /\ awaits[r].cancelling) ~> ~Open(r)

\* A run that waits for a decision is shown with its question when nothing is
\* under way.
QuestionIsShown ==
  question # 0 /\ online /\ daemonInbox = <<>> /\ panelInbox = <<>> => awaits[active].prompt = question
=============================================================================
