--------------------------- MODULE BrowserExecutor ---------------------------
(***************************************************************************)
(* The extension's side of a browser tool call: the state hub bridge of    *)
(* the service worker (background/stateHubBridge.ts) with its reconnecting *)
(* socket and outgoing queue, and the tool dispatcher                      *)
(* (background/toolDispatcher.ts) with its single execution tail.          *)
(***************************************************************************)
EXTENDS Naturals, Sequences, FiniteSets, Selections

CONSTANTS
  Calls,          \* browser requests
  MaxSockets,     \* bound: connections the extension makes
  NoSocket,       \* the bridge has no socket
  NoDoc,          \* no document
  MaxDoc,         \* bound: documents the tab navigates through
  MaxQueued,      \* MAX_QUEUED_STATE_HUB_MESSAGES
  MaxRestarts     \* bound: restarts of the service worker

Sockets == 1 .. MaxSockets
Docs == 0 .. MaxDoc

VARIABLES
  work,       \* where each request is
  grantDoc,   \* the document its execution grant names
  live,       \* keys of activeToolRequests whose promise is unanswered
  signalled,  \* requests whose AbortController was aborted
  tail,       \* the unfinished calls chained on toolExecutionTail
  checkedOn,  \* the document a call's last target check saw
  replies,    \* history: results sent for each request
  page,       \* the tab's document
  latest,     \* latestActiveTab
  sock,       \* the bridge's socket, or NoSocket
  dialed,     \* connections made so far
  authed,     \* authenticatedSocket is the socket
  outbox,     \* queue
  restarts,   \* restarts of the service worker so far
  toExecutor, toDaemon

Hello == [type |-> "hello"]
ToolResult(c, ok) == [type |-> "result", call |-> c, ok |-> ok]
ActiveTab(doc) == [type |-> "tab", doc |-> doc]

ExecutorTypeOK ==
  /\ work \in [Calls -> {"none", "verifying", "queued", "running", "done", "lost"}]
  /\ live \subseteq Calls /\ signalled \subseteq Calls
  /\ tail \in Seq(Calls) /\ Cardinality({tail[i] : i \in DOMAIN tail}) = Len(tail)
  /\ \A c \in Calls : (\E i \in DOMAIN tail : tail[i] = c)
                        <=> work[c] \in {"queued", "running"}
  /\ page \in Docs /\ latest \in Docs \cup {NoDoc}
  /\ sock \in Sockets \cup {NoSocket} /\ authed \in BOOLEAN
  /\ Len(outbox) <= MaxQueued

ExecutorInit ==
  /\ work = [c \in Calls |-> "none"]
  /\ grantDoc = [c \in Calls |-> NoDoc]
  /\ live = {} /\ signalled = {}
  /\ tail = <<>>
  /\ checkedOn = [c \in Calls |-> NoDoc]
  /\ replies = [c \in Calls |-> 0]
  /\ page = 0 /\ latest = NoDoc
  /\ sock = NoSocket /\ dialed = 0 /\ authed = FALSE
  /\ outbox = <<>>
  /\ restarts = 0

-----------------------------------------------------------------------------
(* Sending *)

IsTab(m) == m.type = "tab"

\* One message joins the queue: a newer tab replaces an older one, and the
\* oldest message goes when the queue is full.
Enqueue(q, m) ==
  LET kept == Append(IF IsTab(m) THEN Filtered(q, {i \in DOMAIN q : ~IsTab(q[i])}) ELSE q, m)
  IN  IF Len(kept) > MaxQueued THEN Tail(kept) ELSE kept

\* send(), for one or two messages in a row
SendAll(ms) ==
  IF authed
  THEN /\ toDaemon' = [toDaemon EXCEPT ![sock] = @ \o ms]
       /\ UNCHANGED outbox
  ELSE /\ outbox' = LET q == Enqueue(outbox, ms[1])
                    IN  IF Len(ms) = 1 THEN q ELSE Enqueue(q, ms[2])
       /\ UNCHANGED toDaemon

\* A result, and the tab update of the finally block of handleMessage.
Reply(c, ok) ==
  /\ SendAll(<<ToolResult(c, ok), ActiveTab(page)>>)
  /\ replies' = [replies EXCEPT ![c] = @ + 1]
  /\ latest' = page

NoReply == UNCHANGED <<replies, latest, outbox, toDaemon>>

-----------------------------------------------------------------------------
(* The socket *)

Connect ==
  /\ sock = NoSocket
  /\ dialed < MaxSockets
  /\ dialed' = dialed + 1
  /\ sock' = dialed + 1
  /\ authed' = FALSE
  /\ toDaemon' = [toDaemon EXCEPT ![dialed + 1] = <<Hello>>]
  /\ UNCHANGED <<work, grantDoc, live, signalled, tail, checkedOn, replies,
                 page, latest, outbox, restarts, toExecutor>>

\* The close event of the socket: what the daemon had sent on it is lost.
LoseSocket ==
  /\ sock # NoSocket
  /\ sock' = NoSocket
  /\ authed' = FALSE
  /\ toExecutor' = [toExecutor EXCEPT ![sock] = <<>>]
  /\ UNCHANGED <<work, grantDoc, live, signalled, tail, checkedOn, replies,
                 page, latest, dialed, outbox, restarts, toDaemon>>

Received(type) ==
  sock # NoSocket /\ toExecutor[sock] # <<>> /\ Head(toExecutor[sock]).type = type
TakeMessage == toExecutor' = [toExecutor EXCEPT ![sock] = Tail(@)]

\* SERVER_WELCOME: the queue is flushed and the tab is reported.
ReceiveWelcome ==
  /\ Received("welcome")
  /\ TakeMessage
  /\ authed' = TRUE
  /\ toDaemon' = [toDaemon EXCEPT ![sock] = @ \o outbox \o <<ActiveTab(page)>>]
  /\ outbox' = <<>>
  /\ latest' = page
  /\ UNCHANGED <<work, grantDoc, live, signalled, tail, checkedOn, replies,
                 page, sock, dialed, restarts>>

-----------------------------------------------------------------------------
(* A tool call *)

\* Up to the await of verifyAndConsumeExecutionGrant.
ReceiveCall ==
  /\ Received("call")
  /\ TakeMessage
  /\ LET m == Head(toExecutor[sock])
     IN  /\ work' = [work EXCEPT ![m.call] = "verifying"]
         /\ grantDoc' = [grantDoc EXCEPT ![m.call] = m.doc]
  /\ UNCHANGED <<live, signalled, tail, checkedOn, replies, page, latest, sock,
                 dialed, authed, outbox, restarts, toDaemon>>

\* The grant is expired, or the tab does not show the document it names.
GrantRejected(c) ==
  /\ work[c] = "verifying"
  /\ work' = [work EXCEPT ![c] = "done"]
  /\ SendAll(<<ToolResult(c, FALSE)>>)
  /\ replies' = [replies EXCEPT ![c] = @ + 1]
  /\ UNCHANGED <<grantDoc, live, signalled, tail, checkedOn, page, latest, sock,
                 dialed, authed, restarts, toExecutor>>

\* The tab is read before and after the signature is verified, and shows the
\* granted document both times; the call joins the execution tail.
GrantConsumed(c) ==
  /\ work[c] = "verifying"
  /\ page = grantDoc[c]
  /\ work' = [work EXCEPT ![c] = "queued"]
  /\ live' = live \cup {c}
  /\ tail' = Append(tail, c)
  /\ UNCHANGED <<grantDoc, signalled, checkedOn, page, sock, dialed, authed,
                 restarts, toExecutor>>
  /\ NoReply

\* Mutant of MyTurn: the tail is not awaited.
AnyTurn(c) == TRUE

\* toolExecutionTail has settled.
MyTurn(c) == Head(tail) = c

\* Mutant of Leave: an error of one call stays in the tail.
LeaveIfOk(ok) == IF ok THEN Tail(tail) ELSE tail

\* The call whose turn it was settles, whatever its outcome.
Leave(ok) == Tail(tail)

\* Mutant of TargetFresh: executeToolCall trusts the earlier verification.
TargetTrusted(c) == TRUE

\* The target is read again when the call's turn comes; the awaits of the tool
\* itself come after it.
TargetFresh(c) == page = grantDoc[c]

StartTool(c) ==
  /\ work[c] = "queued"
  /\ MyTurn(c)
  /\ TargetFresh(c)
  /\ work' = [work EXCEPT ![c] = "running"]
  /\ checkedOn' = [checkedOn EXCEPT ![c] = page]
  /\ UNCHANGED <<grantDoc, live, signalled, tail, page, sock, dialed, authed,
                 restarts, toExecutor>>
  /\ NoReply

\* Mutant of Answer: the result of a cancelled call is sent after all.
AnswerAlways(c, ok) == Reply(c, ok) /\ live' = live \ {c}

\* raceWithAbort: only a call that was not aborted is answered by its result.
Answer(c, ok) == IF c \in live
                 THEN Reply(c, ok) /\ live' = live \ {c}
                 ELSE NoReply /\ UNCHANGED live

\* The call ends: STALE_CONTEXT at its turn, an error or its result.
EndTool(c, ok) ==
  /\ \/ work[c] = "queued" /\ MyTurn(c) /\ ~TargetFresh(c) /\ ~ok
     \/ work[c] = "running"
  /\ work' = [work EXCEPT ![c] = "done"]
  /\ tail' = Leave(ok)
  /\ Answer(c, ok)
  /\ UNCHANGED <<grantDoc, signalled, checkedOn, page, sock, dialed, authed,
                 restarts, toExecutor>>

\* REQUEST_CANCEL finds a controller only after the grant was consumed and
\* before the request is answered; the tool itself is not told.
ReceiveCancel ==
  /\ Received("cancel")
  /\ TakeMessage
  /\ LET c == Head(toExecutor[sock]).call
     IN  IF c \in live
         THEN signalled' = signalled \cup {c} /\ Answer(c, FALSE)
         ELSE UNCHANGED <<signalled, live>> /\ NoReply
  /\ UNCHANGED <<work, grantDoc, tail, checkedOn, page, sock, dialed, authed,
                 restarts>>

-----------------------------------------------------------------------------
(* The environment *)

Navigate ==
  /\ page < MaxDoc
  /\ page' = page + 1
  /\ UNCHANGED <<work, grantDoc, live, signalled, tail, checkedOn, replies, latest,
                 sock, dialed, authed, outbox, restarts, toExecutor, toDaemon>>

\* A tab event reports the tab (syncTabToStateHub).
PublishTab ==
  /\ latest # page
  /\ latest' = page
  /\ SendAll(<<ActiveTab(page)>>)
  /\ UNCHANGED <<work, grantDoc, live, signalled, tail, checkedOn, replies, page,
                 sock, dialed, authed, restarts, toExecutor>>

\* Chrome stops the service worker: everything in its memory is gone.
Restart ==
  /\ restarts < MaxRestarts
  /\ restarts' = restarts + 1
  /\ work' = [c \in Calls |-> IF work[c] \in {"none", "done"} THEN work[c] ELSE "lost"]
  /\ live' = {} /\ tail' = <<>>
  /\ sock' = NoSocket /\ authed' = FALSE
  /\ outbox' = <<>> /\ latest' = NoDoc
  /\ toExecutor' = IF sock = NoSocket THEN toExecutor ELSE [toExecutor EXCEPT ![sock] = <<>>]
  /\ UNCHANGED <<grantDoc, signalled, checkedOn, replies, page, dialed, toDaemon>>

ExecutorNext ==
  \/ Connect \/ LoseSocket \/ ReceiveWelcome \/ ReceiveCall \/ ReceiveCancel
  \/ Navigate \/ PublishTab \/ Restart
  \/ \E c \in Calls : \/ GrantRejected(c) \/ GrantConsumed(c)
                      \/ StartTool(c)
                      \/ \E ok \in BOOLEAN : EndTool(c, ok)
=============================================================================
