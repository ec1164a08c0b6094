------------------------------ MODULE BrowserHop ------------------------------
(***************************************************************************)
(* The daemon's side of a browser tool call (mcp/wsServer.ts): selecting   *)
(* the extension's socket, binding the signed execution grant to the       *)
(* authorised document, and settling the call by a result, a cancellation, *)
(* its 90 second timer or the loss of the socket.                          *)
(*                                                                         *)
(* A call is one invocation of callBrowserTool for the browser session of  *)
(* one Chrome profile; its target is the document of one tab.  Request ids *)
(* are fresh, so a call stands for its own request id.                     *)
(***************************************************************************)
EXTENDS Naturals, Sequences, FiniteSets

CONSTANTS
  Calls,       \* invocations of callBrowserTool
  Mutating,    \* those of tools that mutate the browser
  Following,   \* reads that follow a page effect of their own tool
  MaxSockets,  \* bound: connections the extension makes
  NoSocket,    \* no browser executor is connected
  NoDoc,       \* no document
  MaxPending   \* PROTOCOL_LIMITS.maxPendingBrowserTools

Sockets == 1 .. MaxSockets

VARIABLES
  hop,         \* where each call is
  result,      \* how its promise settled, or "none"
  aborted,     \* calls whose abort signal has fired
  bound,       \* the document each call was authorised for
  granted,     \* the document its execution grant names
  route,       \* the socket it was routed to
  link,        \* the daemon's view of each socket
  current,     \* currentBrowserSockets of the session
  known,       \* the document of the tab, as last reported
  toExecutor,  \* per socket, messages on their way to the extension
  toDaemon     \* per socket, messages on their way to the daemon

wires == <<toExecutor, toDaemon>>

ToolCall(c, doc) == [type |-> "call", call |-> c, doc |-> doc]
CancelCall(c) == [type |-> "cancel", call |-> c]
Welcome == [type |-> "welcome"]
Hello == [type |-> "hello"]
ToolResult(c, ok) == [type |-> "result", call |-> c, ok |-> ok]
ActiveTab(doc) == [type |-> "tab", doc |-> doc]

HopTypeOK ==
  /\ hop \in [Calls -> {"new", "authorized", "signing", "sent", "settled"}]
  /\ result \in [Calls -> {"none", "ok", "failed", "cancelled", "deadline", "limited", "stale"}]
  /\ aborted \subseteq Calls
  /\ route \in [Calls -> Sockets \cup {NoSocket}]
  /\ link \in [Sockets -> {"new", "open", "closing", "closed"}]
  /\ current \in Sockets \cup {NoSocket}
  /\ \A c \in Calls : hop[c] = "settled" <=> result[c] # "none"

HopInit ==
  /\ hop = [c \in Calls |-> "new"]
  /\ result = [c \in Calls |-> "none"]
  /\ aborted = {}
  /\ bound = [c \in Calls |-> NoDoc]
  /\ granted = [c \in Calls |-> NoDoc]
  /\ route = [c \in Calls |-> NoSocket]
  /\ link = [s \in Sockets |-> "new"]
  /\ current = NoSocket
  /\ known = NoDoc

-----------------------------------------------------------------------------
(* Helpers *)

Pending == {c \in Calls : hop[c] = "sent"}

\* socket.send: nothing leaves on a socket that is closing or closed.
Send(s, m) == toExecutor' = IF s # NoSocket /\ link[s] = "open"
                            THEN [toExecutor EXCEPT ![s] = Append(@, m)]
                            ELSE toExecutor

Settle(cs, why) ==
  /\ hop' = [c \in Calls |-> IF c \in cs THEN "settled" ELSE hop[c]]
  /\ result' = [c \in Calls |-> IF c \in cs THEN why ELSE result[c]]

\* rejectAllPendingToolRequests of one browser socket
PendingOn(s) == {c \in Pending : route[c] = s}

Received(s, type) == toDaemon[s] # <<>> /\ Head(toDaemon[s]).type = type
TakeMessage(s) == toDaemon' = [toDaemon EXCEPT ![s] = Tail(@)]

-----------------------------------------------------------------------------
(* callBrowserTool *)

\* authorizeTool binds the call to the document the daemon knows of.
Authorize(c) ==
  /\ hop[c] = "new"
  /\ known # NoDoc
  /\ hop' = [hop EXCEPT ![c] = "authorized"]
  /\ bound' = [bound EXCEPT ![c] = known]
  /\ UNCHANGED <<result, aborted, granted, route, link, current, known, wires>>

\* The broker lets one mutation of the target run at a time.
Admitted(c) ==
  c \in Mutating => \A d \in Mutating \ {c} : hop[d] \notin {"signing", "sent"}

\* authorizationTargetMismatchFields, and canFollowAuthorizedPageEffectForRead
SameTarget(c) == bound[c] = known \/ c \in Following

Refuse(c) ==
  /\ hop[c] = "authorized"
  /\ Admitted(c)
  /\ \/ c \in aborted /\ Settle({c}, "cancelled")
     \/ /\ c \notin aborted
        /\ \/ Cardinality(Pending) >= MaxPending /\ Settle({c}, "limited")
           \/ Cardinality(Pending) < MaxPending /\ current = NoSocket /\ Settle({c}, "failed")
           \/ /\ Cardinality(Pending) < MaxPending /\ current # NoSocket
              /\ ~SameTarget(c)
              /\ Settle({c}, "stale")
  /\ UNCHANGED <<aborted, bound, granted, route, link, current, known, wires>>

\* Up to the awaits of hashExecutionArguments and createExecutionGrant.
Sign(c) ==
  /\ hop[c] = "authorized"
  /\ Admitted(c)
  /\ c \notin aborted
  /\ Cardinality(Pending) < MaxPending
  /\ current # NoSocket
  /\ SameTarget(c)
  /\ hop' = [hop EXCEPT ![c] = "signing"]
  /\ route' = [route EXCEPT ![c] = current]
  /\ granted' = [granted EXCEPT ![c] = known]
  /\ UNCHANGED <<result, aborted, bound, link, current, known, wires>>

\* After them: the request is registered and sent, whatever has happened to
\* the signal, the socket and the target in the meantime.
Dispatch(c) ==
  /\ hop[c] = "signing"
  /\ hop' = [hop EXCEPT ![c] = "sent"]
  /\ Send(route[c], ToolCall(c, granted[c]))
  /\ UNCHANGED <<result, aborted, bound, granted, route, link, current, known, toDaemon>>

\* The abort event; its listener is there once the request is registered.
Cancel(c) ==
  /\ hop[c] \in {"authorized", "signing", "sent"}
  /\ c \notin aborted
  /\ aborted' = aborted \cup {c}
  /\ IF hop[c] = "sent"
     THEN Settle({c}, "cancelled") /\ Send(route[c], CancelCall(c))
     ELSE UNCHANGED <<hop, result, toExecutor>>
  /\ UNCHANGED <<bound, granted, route, link, current, known, toDaemon>>

Timeout(c) ==
  /\ hop[c] = "sent"
  /\ Settle({c}, "deadline")
  /\ Send(route[c], CancelCall(c))
  /\ UNCHANGED <<aborted, bound, granted, route, link, current, known, toDaemon>>

-----------------------------------------------------------------------------
(* Messages and events of the extension's sockets *)

\* registerBrowserSocket replaces the session's previous socket.
ReceiveHello(s) ==
  /\ link[s] = "new"
  /\ Received(s, "hello")
  /\ TakeMessage(s)
  /\ current' = s
  /\ LET replaced == current # NoSocket
         old == IF replaced THEN {current} ELSE {}
     IN  /\ link' = [o \in Sockets |-> IF o = s THEN "open"
                                       ELSE IF o \in old THEN "closing" ELSE link[o]]
         /\ Settle(UNION {PendingOn(o) : o \in old}, "failed")
  /\ toExecutor' = [toExecutor EXCEPT ![s] = Append(@, Welcome)]
  /\ UNCHANGED <<aborted, bound, granted, route, known>>

\* resolveBrowserToolResult: only a pending request of this very socket; a
\* screenshot that cannot be stored turns its success into a failure.
ReceiveResult(s) ==
  /\ link[s] \in {"open", "closing"}
  /\ Received(s, "result")
  /\ TakeMessage(s)
  /\ LET m == Head(toDaemon[s])
     IN  \E why \in IF m.ok THEN {"ok", "failed"} ELSE {"failed"} :
           Settle({m.call} \cap PendingOn(s), why)
  /\ UNCHANGED <<aborted, bound, granted, route, link, current, known, toExecutor>>

\* setCurrentTab believes every browser socket, also one that was replaced.
ReceiveTab(s) ==
  /\ link[s] \in {"open", "closing"}
  /\ Received(s, "tab")
  /\ TakeMessage(s)
  /\ known' = Head(toDaemon[s]).doc
  /\ UNCHANGED <<hop, result, aborted, bound, granted, route, link, current, toExecutor>>

\* The close event of a browser socket; what was still on the wire is lost.
SocketClosed(s) ==
  /\ link[s] \in {"open", "closing"}
  /\ link' = [link EXCEPT ![s] = "closed"]
  /\ current' = IF current = s THEN NoSocket ELSE current
  /\ Settle(PendingOn(s), "failed")
  /\ toDaemon' = [toDaemon EXCEPT ![s] = <<>>]
  /\ UNCHANGED <<aborted, bound, granted, route, known, toExecutor>>

HopNext ==
  \/ \E c \in Calls : \/ Authorize(c) \/ Refuse(c) \/ Sign(c) \/ Dispatch(c)
                      \/ Cancel(c) \/ Timeout(c)
  \/ \E s \in Sockets : \/ ReceiveHello(s) \/ ReceiveResult(s) \/ ReceiveTab(s)
                        \/ SocketClosed(s)
=============================================================================
