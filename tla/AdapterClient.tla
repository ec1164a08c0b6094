---------------------------- MODULE AdapterClient ----------------------------
(***************************************************************************)
(* The connection of the stdio MCP adapter to the local daemon             *)
(* (src/src/mcp/daemonClient.ts): tool calls share one WebSocket that is   *)
(* opened on demand, a connection that fails is reopened with backoff, and *)
(* a call whose connection is lost is sent again only when that cannot     *)
(* repeat a write.                                                         *)
(*                                                                         *)
(* A promise continuation runs before the next event: every event waits    *)
(* for Quiet.                                                              *)
(***************************************************************************)
EXTENDS Naturals, FiniteSets

CONSTANTS
    Calls,       \* calls of callTool
    WriteCalls,      \* the calls that are not safe reads
    MaxSockets,  \* bound: sockets the client opens
    MaxTries     \* attempts of waitForReconnect (8 in the code)

ASSUME AdapterAssumption == WriteCalls \subseteq Calls /\ MaxSockets \in Nat /\ MaxTries \in Nat \ {0}

VARIABLES
    socket,      \* this.socket: the socket in use, 0 when there is none
    connecting,  \* this.connecting: the socket whose handshake is awaited, or 0
    link,        \* state of each socket
    handshake,   \* settlement of the promise of each socket
    beating,     \* the socket the heartbeat timer writes to, or 0
    call,        \* where each call stands
    wire,        \* requests sent and not handled by the daemon
    replies,     \* results sent and not handled by the client
    ran          \* how often the daemon executed each call

adapterVars == <<socket, connecting, link, handshake, beating, call, wire, replies, ran>>

Sockets == 1..MaxSockets

\* "open" is before CLIENT_HELLO (the token is read from disk in between),
\* "greeted" after it; "closing" still belongs to the client's event loop.
LinkStates == {"unused", "opening", "open", "greeted", "welcomed", "closing", "closed"}
Usable     == {"open", "greeted", "welcomed"}

Idle == [at |-> "idle", on |-> 0, sending |-> 1, tries |-> 0,
         resend |-> FALSE, aborted |-> FALSE]

AdapterInit ==
    /\ socket = 0 /\ connecting = 0 /\ beating = 0
    /\ link = [s \in Sockets |-> "unused"]
    /\ handshake = [s \in Sockets |-> "pending"]
    /\ call = [c \in Calls |-> Idle]
    /\ wire = {} /\ replies = {}
    /\ ran = [c \in Calls |-> 0]

Outcomes == {"result", "cancelled", "expired", "unknown", "unreachable", "refused", "dropped"}

Waiting(c) == call[c].at \in {"connecting", "reconnecting"}
CallOver(c)    == call[c].at \in Outcomes
Awake(c)   == \/ call[c].at = "lost"
              \/ Waiting(c) /\ handshake[call[c].on] # "pending"
Quiet      == \A c \in Calls : ~Awake(c)
InUse      == socket # 0 /\ link[socket] \in Usable
FreeSocket == CHOOSE s \in Sockets : link[s] = "unused" /\ \A r \in 1..(s - 1) : link[r] # "unused"

\* ensureConnected for a call whose record becomes k: an open socket is used at
\* once (the call is then "ready"), a handshake under way is awaited, otherwise
\* a socket is opened and awaited.
Ensure(c, k) ==
    IF InUse
    THEN /\ call' = [call EXCEPT ![c] = [k EXCEPT !.on = socket]]
         /\ UNCHANGED <<socket, connecting, link>>
    ELSE IF connecting # 0
    THEN /\ call' = [call EXCEPT ![c] = [k EXCEPT !.on = connecting]]
         /\ UNCHANGED <<socket, connecting, link>>
    ELSE /\ \E s \in Sockets : link[s] = "unused"
         /\ socket' = FreeSocket /\ connecting' = FreeSocket
         /\ link' = [link EXCEPT ![FreeSocket] = "opening"]
         /\ call' = [call EXCEPT ![c] = [k EXCEPT !.on = FreeSocket]]

\* request once it is connected: the entry of the pending table and the send.
SendRequest(c, k) ==
    /\ call' = [call EXCEPT ![c] = [k EXCEPT !.at = "pending", !.on = socket]]
    /\ wire' = wire \cup {[call |-> c, sending |-> k.sending, on |-> socket,
                           early |-> link[socket] = "open"]}
    /\ UNCHANGED <<socket, connecting, link>>

\* request from its start: throwIfAborted, ensureConnected, the send. The
\* listener of the abort signal is added only with the send.
RequestTool(c, k) ==
    IF k.aborted
    THEN /\ call' = [call EXCEPT ![c] = [k EXCEPT !.at = "cancelled"]]
         /\ UNCHANGED <<socket, connecting, link, wire>>
    ELSE IF InUse THEN SendRequest(c, k)
    ELSE Ensure(c, [k EXCEPT !.at = "connecting"]) /\ UNCHANGED wire

\* waitForReconnect ended: the request is sent again unless a write may have
\* been dispatched.
ResumeCall(c, k) ==
    IF k.resend
    THEN RequestTool(c, [k EXCEPT !.sending = 2])
    ELSE /\ call' = [call EXCEPT ![c] = [k EXCEPT !.at = "unknown"]]
         /\ UNCHANGED <<socket, connecting, link, wire>>

\* One attempt of waitForReconnect.
Attempt(c, k) ==
    IF k.aborted
    THEN /\ call' = [call EXCEPT ![c] = [k EXCEPT !.at = "unreachable"]]
         /\ UNCHANGED <<socket, connecting, link, wire>>
    ELSE IF InUse THEN ResumeCall(c, k)
    ELSE Ensure(c, [k EXCEPT !.at = "reconnecting", !.tries = @ + 1]) /\ UNCHANGED wire

\* Mutation: every call is sent again.
ResendAll(c, beforeDispatch) == TRUE

MayResend(c, beforeDispatch) == beforeDispatch \/ c \notin WriteCalls

\* callTool: the first sending that fails on the connection starts the
\* reconnection, the second one fails the call.
ConnectionFailed(c, beforeDispatch) ==
    IF call[c].sending = 2
    THEN /\ call' = [call EXCEPT ![c].at = "dropped"]
         /\ UNCHANGED <<socket, connecting, link, wire>>
    ELSE Attempt(c, [call[c] EXCEPT !.resend = MayResend(c, beforeDispatch)])

----------------------------------------------------------------------------

CallTool(c) ==
    /\ Quiet /\ call[c].at = "idle"
    /\ RequestTool(c, call[c])
    /\ UNCHANGED <<handshake, beating, replies, ran>>

\* A call whose promise has settled continues.
ContinueCall(c) ==
    /\ Awake(c)
    /\ LET met == handshake[call[c].on]
       IN  CASE call[c].at = "lost"         -> ConnectionFailed(c, FALSE)
             [] call[c].at = "connecting"   ->
                  IF met = "ok" THEN IF InUse THEN SendRequest(c, call[c]) ELSE ConnectionFailed(c, TRUE)
                  ELSE IF met = "lost" THEN ConnectionFailed(c, TRUE)
                  ELSE /\ call' = [call EXCEPT ![c].at = "refused"]
                       /\ UNCHANGED <<socket, connecting, link, wire>>
             [] call[c].at = "reconnecting" ->
                  IF met = "ok" THEN ResumeCall(c, call[c])
                  ELSE /\ call' = [call EXCEPT ![c].at = IF call[c].tries < MaxTries
                                                         THEN "backoff" ELSE "unreachable"]
                       /\ UNCHANGED <<socket, connecting, link, wire>>
    /\ UNCHANGED <<handshake, beating, replies, ran>>

\* The delay before the next attempt has passed.
BackedOff(c) ==
    /\ Quiet /\ call[c].at = "backoff"
    /\ Attempt(c, call[c])
    /\ UNCHANGED <<handshake, beating, replies, ran>>

\* The MCP client cancels the call.
AbortCall(c) ==
    /\ Quiet /\ call[c].at # "idle" /\ ~CallOver(c) /\ ~call[c].aborted
    /\ call' = [call EXCEPT ![c].aborted = TRUE,
                            ![c].at = CASE @ = "pending" -> "cancelled"
                                        [] @ = "backoff" -> "unreachable"
                                        [] OTHER         -> @]
    /\ UNCHANGED <<socket, connecting, link, handshake, beating, wire, replies, ran>>

\* The timer of a request with a deadline.
ExpireCall(c) ==
    /\ Quiet /\ call[c].at = "pending"
    /\ call' = [call EXCEPT ![c].at = "expired"]
    /\ UNCHANGED <<socket, connecting, link, handshake, beating, wire, replies, ran>>

\* The open event; then the hello, once the token is read.
OpenSocket(s) ==
    /\ Quiet /\ link[s] = "opening"
    /\ link' = [link EXCEPT ![s] = "open"]
    /\ UNCHANGED <<socket, connecting, handshake, beating, call, wire, replies, ran>>

SendHello(s) ==
    /\ Quiet /\ link[s] = "open"
    /\ link' = [link EXCEPT ![s] = "greeted"]
    /\ UNCHANGED <<socket, connecting, handshake, beating, call, wire, replies, ran>>

Settle(s, how) ==
    /\ handshake' = [handshake EXCEPT ![s] = IF @ = "pending" THEN how ELSE @]
    /\ connecting' = IF handshake[s] = "pending" THEN 0 ELSE connecting

\* SERVER_WELCOME.
Welcome(s) ==
    /\ Quiet /\ link[s] = "greeted" /\ handshake[s] = "pending"
    /\ link' = [link EXCEPT ![s] = "welcomed"]
    /\ beating' = s
    /\ Settle(s, "ok")
    /\ UNCHANGED <<socket, call, wire, replies, ran>>

\* failConnection: no listener at the port ("lost"), or a daemon that refuses
\* the handshake or lets it time out ("refused").
FailConnection(s) ==
    /\ Quiet /\ handshake[s] = "pending" /\ link[s] \in {"opening", "open", "greeted"}
    /\ Settle(s, IF link[s] = "opening" THEN "lost" ELSE "refused")
    /\ link' = [link EXCEPT ![s] = IF @ = "opening" THEN "closed" ELSE "closing"]
    /\ socket' = IF socket = s THEN 0 ELSE socket
    /\ UNCHANGED <<beating, call, wire, replies, ran>>

\* Mutation: a socket that is not in use any more rejects nothing.
RejectInUse(s) ==
    [c \in Calls |-> IF s = socket /\ call[c].at = "pending"
                     THEN [call[c] EXCEPT !.at = "lost"] ELSE call[c]]

\* The close of any socket rejects every pending request.
RejectPending(s) ==
    [c \in Calls |-> IF call[c].at = "pending" THEN [call[c] EXCEPT !.at = "lost"] ELSE call[c]]

\* The close handler. It is added when the socket opens.
Closed(s) ==
    /\ Quiet /\ link[s] \in Usable \cup {"closing"}
    /\ link' = [link EXCEPT ![s] = "closed"]
    /\ beating' = 0
    /\ socket' = IF socket = s THEN 0 ELSE socket
    /\ connecting' = 0
    /\ handshake' = [handshake EXCEPT ![s] = IF @ = "pending" THEN "lost" ELSE @]
    /\ call' = RejectPending(s)
    /\ wire' = {m \in wire : m.on # s}
    /\ replies' = {m \in replies : m.on # s}
    /\ UNCHANGED ran

\* The daemon handles a request: it runs it, or closes the connection when the
\* request precedes the hello. The refusal also fails an awaited handshake.
Execute(m) ==
    /\ Quiet /\ m \in wire
    /\ wire' = wire \ {m}
    /\ IF m.early
       THEN /\ link[m.on] \in Usable
            /\ link' = [link EXCEPT ![m.on] = "closing"]
            /\ Settle(m.on, "refused")
            /\ socket' = IF socket = m.on /\ handshake[m.on] = "pending" THEN 0 ELSE socket
            /\ UNCHANGED <<replies, ran>>
       ELSE /\ link[m.on] # "open"
            /\ ran' = [ran EXCEPT ![m.call] = @ + 1]
            /\ replies' = replies \cup {m}
            /\ UNCHANGED <<link, handshake, socket, connecting>>
    /\ UNCHANGED <<beating, call>>

\* MCP_TOOL_RESULT: the entry of the pending table is found by its request id.
Reply(m) ==
    /\ Quiet /\ m \in replies
    /\ replies' = replies \ {m}
    /\ call' = IF call[m.call].at = "pending" /\ call[m.call].sending = m.sending
               THEN [call EXCEPT ![m.call].at = "result"] ELSE call
    /\ UNCHANGED <<socket, connecting, link, handshake, beating, wire, ran>>

AdapterNext ==
    \/ \E c \in Calls : CallTool(c) \/ ContinueCall(c) \/ BackedOff(c) \/ AbortCall(c) \/ ExpireCall(c)
    \/ \E s \in Sockets : OpenSocket(s) \/ SendHello(s) \/ Welcome(s) \/ FailConnection(s) \/ Closed(s)
    \/ \E m \in wire : Execute(m)
    \/ \E m \in replies : Reply(m)

AdapterSpec == AdapterInit /\ [][AdapterNext]_adapterVars

----------------------------------------------------------------------------

AdapterTypeOK ==
    /\ socket \in {0} \cup Sockets /\ connecting \in {0} \cup Sockets /\ beating \in {0} \cup Sockets
    /\ link \in [Sockets -> LinkStates]
    /\ handshake \in [Sockets -> {"pending", "ok", "lost", "refused"}]
    /\ \A c \in Calls : call[c].sending \in 1..2 /\ call[c].tries \in 0..MaxTries
    /\ ran \in [Calls -> 0..2]

\* A write is executed at most once for one call of the MCP client: what was
\* dispatched is never sent again, whatever is lost and whenever it reconnects
\* (callTool, daemonClient.ts:105-147).
WriteRunsOnce == \A c \in WriteCalls : ran[c] <= 1

\* A pending request has a connection that can still answer it or be closed:
\* no call waits for a socket that is gone (close handler, rejectPending).
NoCallStranded == \A c \in Calls : call[c].at = "pending" => link[call[c].on] # "closed"

\* Both: a lost connection neither repeats a write nor leaves its caller waiting.
CallsOutliveLinks == WriteRunsOnce /\ NoCallStranded

\* A write that was executed and whose answer was lost is reported as
\* UNKNOWN_WRITE_OUTCOME (docs/p0-p2-capability-closure-plan.md:21).
LostWriteIsUnknown ==
    \A c \in WriteCalls : (ran[c] > 0 /\ ~call[c].aborted) => call[c].at \notin {"unreachable", "refused", "dropped"}

\* A call that was cancelled before it was sent is never sent.
CancelledIsNotSent == [][\A c \in Calls : call'[c].at = "pending" /\ call[c].at # "pending" => ~call[c].aborted]_adapterVars

\* The socket in use is the one the heartbeat keeps alive.
InUseIsBeating == (socket # 0 /\ link[socket] = "welcomed") => beating = socket

=============================================================================
