--------------------------- MODULE ExternalServer ---------------------------
(***************************************************************************)
(* One external MCP server of the daemon's registry                        *)
(* (src/src/daemon/externalMcpRegistry.ts): its connection is opened on    *)
(* demand, with retries; tool calls that fail reconnect it and are         *)
(* repeated when that is harmless; the settings can change meanwhile, and  *)
(* every change that touches the connection starts a new runtime record.   *)
(*                                                                         *)
(* The model follows one tool of the server.                               *)
(***************************************************************************)
EXTENDS Naturals, FiniteSets

CONSTANTS
    ToolCalls,      \* calls of callTool
    Harmless,       \* the calls canRetryExternalMcpTool accepts
    Changes,        \* changes of the settings by the user
    MaxClients,     \* bound: clients created
    MaxInvocations  \* EXTERNAL_MCP_TOOL_ATTEMPTS, and attempts to connect

ASSUME ExternalAssumption ==
    /\ Harmless \subseteq ToolCalls /\ IsFiniteSet(Changes)
    /\ MaxClients \in Nat /\ MaxInvocations \in Nat \ {0}

VARIABLES
    settings,   \* enabled, and whether the tool is in disabledTools
    runtime,    \* number of the current runtime record
    runtimes,   \* the records, those that were replaced included
    clients,    \* state of each client
    routed,     \* whether toolRoutes has the tool
    recovery,   \* recoveryByServer
    toolCall,   \* where each call stands
    change,     \* where each change of the settings stands
    invoked     \* invocations sent to the server for each call

externalVars == <<settings, runtime, runtimes, clients, routed, recovery, toolCall, change, invoked>>

Clients  == 1..MaxClients
Runtimes == 1..(Cardinality(Changes) + 1)

\* A record: its client, and its connection: "off", or the stage of
\* connectWithRetry with the client and the disabledTools it started with.
NewRecord == [status |-> "idle", client |-> 0, stage |-> "off", own |-> 0, tries |-> 0, hidden |-> FALSE]

ExternalInit ==
    /\ settings = [enabled |-> TRUE, hidden |-> FALSE]
    /\ runtime = 1
    /\ runtimes = [g \in Runtimes |-> NewRecord]
    /\ clients = [k \in Clients |-> "unused"]
    /\ routed = FALSE
    /\ recovery = [at |-> "none", on |-> 0]
    /\ toolCall = [c \in ToolCalls |-> [at |-> "idle", on |-> 0, attempt |-> 0, route |-> FALSE]]
    /\ change = [o \in Changes |-> [at |-> "idle", next |-> settings, was |-> TRUE]]
    /\ invoked = [c \in ToolCalls |-> 0]

Current       == runtimes[runtime]
IsConnected   == Current.status = "connected" /\ Current.client # 0
FreeClient    == CHOOSE k \in Clients : clients[k] = "unused" /\ \A j \in 1..(k - 1) : clients[j] # "unused"
HasFreeClient == \E k \in Clients : clients[k] = "unused"

\* A promise that has settled is handled before the next event.
Handled ==
    /\ recovery.at = "connecting" => runtimes[recovery.on].stage # "off"
    /\ \A c \in ToolCalls : /\ toolCall[c].at \notin {"ready", "again"}
                            /\ toolCall[c].at = "connecting" => runtimes[toolCall[c].on].stage # "off"

\* connect: every attempt has a client of its own.
Connecting(record, hidden) ==
    [record EXCEPT !.status = "connecting", !.client = FreeClient, !.own = FreeClient,
                   !.stage = "initialize", !.hidden = hidden, !.tries = @ + 1]

\* ensureConnected when the record has no connection: one that is under way is
\* shared, otherwise one starts with the settings of this moment.
ShareOrConnect ==
    IF Current.stage # "off"
    THEN UNCHANGED <<runtimes, clients>>
    ELSE /\ HasFreeClient
         /\ runtimes' = [runtimes EXCEPT ![runtime] = Connecting([@ EXCEPT !.tries = 0], settings.hidden)]
         /\ clients' = [clients EXCEPT ![FreeClient] = "open"]

\* disconnect: the record forgets its client, which is closed.
CloseCurrent ==
    /\ runtimes' = [runtimes EXCEPT ![runtime].client = 0, ![runtime].status = "idle"]
    /\ clients' = [k \in Clients |-> IF k = Current.client THEN "closed" ELSE clients[k]]

----------------------------------------------------------------------------

\* An attempt to connect reaches its next stage. The routes are replaced in one
\* step. What fails later, listing resources and prompts, is only recorded.
ConnectStep(g) ==
    /\ Handled /\ runtimes[g].stage \in {"initialize", "resources"}
    /\ IF runtimes[g].stage = "initialize"
       THEN /\ clients[runtimes[g].own] = "open"
            /\ routed' = ~runtimes[g].hidden
            /\ runtimes' = [runtimes EXCEPT ![g].stage = "resources"]
       ELSE /\ runtimes' = [runtimes EXCEPT ![g].stage = "off", ![g].status = "connected"]
            /\ UNCHANGED routed
    /\ UNCHANGED <<settings, runtime, clients, recovery, toolCall, change, invoked>>

\* An attempt fails, because of the server or because disconnect has closed its
\* client; some failures are followed by another attempt.
ConnectStepFails(g) ==
    /\ Handled /\ runtimes[g].stage = "initialize"
    /\ clients' = [clients EXCEPT ![runtimes[g].own] = "closed"]
    /\ \E retry \in {FALSE, runtimes[g].tries < MaxInvocations} :
        runtimes' = [runtimes EXCEPT ![g].stage = IF retry THEN "delay" ELSE "off",
                                     ![g].status = IF retry THEN "connecting" ELSE "error",
                                     ![g].client = 0]
    /\ UNCHANGED <<settings, runtime, routed, recovery, toolCall, change, invoked>>

ConnectAgain(g) ==
    /\ Handled /\ runtimes[g].stage = "delay" /\ HasFreeClient
    /\ runtimes' = [runtimes EXCEPT ![g] = Connecting(@, @.hidden)]
    /\ clients' = [clients EXCEPT ![FreeClient] = "open"]
    /\ UNCHANGED <<settings, runtime, routed, recovery, toolCall, change, invoked>>

----------------------------------------------------------------------------

\* setServerEnabled or setToolPolicy computes the new configuration, and saves
\* it before anything else.
BeginChange(o) ==
    /\ Handled /\ change[o].at = "idle"
    /\ \E next \in {[settings EXCEPT !.enabled = ~@], [settings EXCEPT !.hidden = ~@]} :
        change' = [change EXCEPT ![o] = [at |-> "saving", next |-> next, was |-> settings.enabled]]
    /\ UNCHANGED <<settings, runtime, runtimes, clients, routed, recovery, toolCall, invoked>>

SaveChange(o) ==
    /\ Handled /\ change[o].at = "saving"
    /\ settings' = change[o].next
    /\ IF change[o].was
       THEN /\ CloseCurrent
            /\ routed' = FALSE
            /\ change' = [change EXCEPT ![o].at = "closing"]
       ELSE /\ change' = [change EXCEPT ![o].at = IF change[o].next.enabled THEN "closing" ELSE "done"]
            /\ UNCHANGED <<routed, runtimes, clients>>
    /\ UNCHANGED <<runtime, recovery, toolCall, invoked>>

\* A new record replaces the old one, and connects when the server is enabled.
ReplaceRuntime(o) ==
    /\ Handled /\ change[o].at = "closing"
    /\ change' = [change EXCEPT ![o].at = "done"]
    /\ runtime' = runtime + 1
    /\ IF settings.enabled /\ change[o].next.enabled
       THEN /\ HasFreeClient
            /\ runtimes' = [runtimes EXCEPT ![runtime + 1] = Connecting(@, settings.hidden)]
            /\ clients' = [clients EXCEPT ![FreeClient] = "open"]
       ELSE UNCHANGED <<runtimes, clients>>
    /\ UNCHANGED <<settings, routed, recovery, toolCall, invoked>>

----------------------------------------------------------------------------

\* The call uses the client the current record has now.
Invoke(c) ==
    IF Current.client = 0
    THEN /\ toolCall' = [toolCall EXCEPT ![c].at = "failed"]
         /\ UNCHANGED invoked
    ELSE /\ toolCall' = [toolCall EXCEPT ![c].at = "invoked", ![c].on = Current.client,
                                         ![c].attempt = @ + 1]
         /\ invoked' = [invoked EXCEPT ![c] = @ + 1]

\* callTool up to the invocation: a recovery under way is awaited first.
CallExternal(c) ==
    /\ Handled /\ toolCall[c].at = "idle" /\ settings.enabled
    /\ toolCall' = [toolCall EXCEPT ![c].route = routed,
                                    ![c].at = IF recovery.at = "none" THEN "ready" ELSE "recovering"]
    /\ UNCHANGED <<settings, runtime, runtimes, clients, routed, recovery, change, invoked>>

EnsureForCall(c) ==
    /\ toolCall[c].at = "ready"
    /\ IF ~settings.enabled
       THEN /\ toolCall' = [toolCall EXCEPT ![c].at = "failed"]
            /\ UNCHANGED <<runtimes, clients, invoked>>
       ELSE IF IsConnected
       THEN /\ IF toolCall[c].route \/ routed THEN Invoke(c)
               ELSE toolCall' = [toolCall EXCEPT ![c].at = "failed"] /\ UNCHANGED invoked
            /\ UNCHANGED <<runtimes, clients>>
       ELSE /\ ShareOrConnect
            /\ toolCall' = [toolCall EXCEPT ![c].at = "connecting", ![c].on = runtime]
            /\ UNCHANGED invoked
    /\ UNCHANGED <<settings, runtime, routed, recovery, change>>

ConnectedForCall(c) ==
    /\ toolCall[c].at = "connecting" /\ runtimes[toolCall[c].on].stage = "off"
    /\ IF runtimes[toolCall[c].on].status = "connected" /\ (toolCall[c].route \/ routed)
       THEN Invoke(c)
       ELSE toolCall' = [toolCall EXCEPT ![c].at = "failed"] /\ UNCHANGED invoked
    /\ UNCHANGED <<settings, runtime, runtimes, clients, routed, recovery, change>>

Answered(c) ==
    /\ Handled /\ toolCall[c].at = "invoked"
    /\ toolCall' = [toolCall EXCEPT ![c].at = "done"]
    /\ UNCHANGED <<settings, runtime, runtimes, clients, routed, recovery, change, invoked>>

ReplayAll(c) == toolCall[c].attempt < MaxInvocations

CanReplay(c) == c \in Harmless /\ toolCall[c].attempt < MaxInvocations

\* The invocation fails; a transient failure is followed by recoverConnection,
\* after a delay when the call is going to be repeated.
CallFails(c) ==
    /\ Handled /\ toolCall[c].at = "invoked"
    /\ \E at \in {"failed", IF CanReplay(c) THEN "repeating" ELSE "refreshing"} :
        toolCall' = [toolCall EXCEPT ![c].at = at]
    /\ UNCHANGED <<settings, runtime, runtimes, clients, routed, recovery, change, invoked>>

\* Another client than the failed one is connected: nothing to recover.
RecoveredAlready(c) == IsConnected /\ Current.client # toolCall[c].on

\* recoverConnection.
RecoverConnection(c) ==
    /\ Handled /\ toolCall[c].at \in {"repeating", "refreshing"}
    /\ IF recovery.at = "none" /\ RecoveredAlready(c)
       THEN /\ IF toolCall[c].at = "repeating" THEN Invoke(c)
               ELSE toolCall' = [toolCall EXCEPT ![c].at = "failed"] /\ UNCHANGED invoked
            /\ UNCHANGED <<runtimes, clients, recovery>>
       ELSE /\ toolCall' = [toolCall EXCEPT ![c].at =
                   IF @ = "repeating" THEN "recoveringToRepeat" ELSE "recoveringToFail"]
            /\ IF recovery.at = "none"
               THEN /\ recovery' = [at |-> "closing", on |-> 0]
                    /\ CloseCurrent
               ELSE UNCHANGED <<recovery, runtimes, clients>>
            /\ UNCHANGED invoked
    /\ UNCHANGED <<settings, runtime, routed, change>>

RecoveryOver(ok) ==
    /\ recovery' = [at |-> "none", on |-> 0]
    /\ toolCall' = [c \in ToolCalls |->
           [toolCall[c] EXCEPT !.at = CASE @ = "recovering"         -> IF ok THEN "ready" ELSE "failed"
                                        [] @ = "recoveringToRepeat" -> IF ok THEN "again" ELSE "failed"
                                        [] @ = "recoveringToFail"   -> "failed"
                                        [] OTHER                    -> @]]

\* The failed client is closed: ensureConnected, on the record of this moment.
RecoveryConnects ==
    /\ Handled /\ recovery.at = "closing"
    /\ IF ~settings.enabled \/ IsConnected
       THEN RecoveryOver(settings.enabled) /\ UNCHANGED <<runtimes, clients>>
       ELSE /\ ShareOrConnect
            /\ recovery' = [at |-> "connecting", on |-> runtime]
            /\ UNCHANGED toolCall
    /\ UNCHANGED <<settings, runtime, routed, change, invoked>>

RecoveryConnected ==
    /\ recovery.at = "connecting" /\ runtimes[recovery.on].stage = "off"
    /\ RecoveryOver(runtimes[recovery.on].status = "connected")
    /\ UNCHANGED <<settings, runtime, runtimes, clients, routed, change, invoked>>

InvokeAgain(c) ==
    /\ toolCall[c].at = "again"
    /\ Invoke(c)
    /\ UNCHANGED <<settings, runtime, runtimes, clients, routed, recovery, change>>

ExternalNext ==
    \/ \E g \in Runtimes : ConnectStep(g) \/ ConnectStepFails(g) \/ ConnectAgain(g)
    \/ \E o \in Changes : BeginChange(o) \/ SaveChange(o) \/ ReplaceRuntime(o)
    \/ \E c \in ToolCalls : \/ CallExternal(c) \/ EnsureForCall(c) \/ ConnectedForCall(c) \/ Answered(c)
                            \/ CallFails(c) \/ RecoverConnection(c) \/ InvokeAgain(c)
    \/ RecoveryConnects \/ RecoveryConnected

ExternalSpec == ExternalInit /\ [][ExternalNext]_externalVars

----------------------------------------------------------------------------

ExternalTypeOK ==
    /\ settings \in [enabled : BOOLEAN, hidden : BOOLEAN] /\ routed \in BOOLEAN
    /\ runtime \in Runtimes
    /\ clients \in [Clients -> {"unused", "open", "closed"}]
    /\ \A g \in Runtimes : runtimes[g].tries \in 0..MaxInvocations
    /\ invoked \in [ToolCalls -> 0..MaxInvocations]

\* A call that may change something outside is sent to the server once, however
\* often its connection fails and is recovered.
EffectsSentOnce == \A c \in ToolCalls \ Harmless : invoked[c] <= 1

\* A disabled tool has no route once no change and no connection is under way.
HiddenIsUnrouted ==
    (/\ \A o \in Changes : change[o].at \in {"idle", "done"}
     /\ \A g \in Runtimes : runtimes[g].stage = "off"
     /\ settings.hidden) => ~routed

\* Every open client belongs to a record in use or is being connected.
NoClientLeaks ==
    \A k \in Clients : clients[k] = "open" => (Current.client = k \/ \E g \in Runtimes : runtimes[g].stage # "off" /\ runtimes[g].own = k)

=============================================================================
