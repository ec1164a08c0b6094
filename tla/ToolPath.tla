------------------------------- MODULE ToolPath -------------------------------
(***************************************************************************)
(* A browser tool call from the daemon to the page and back: BrowserHop    *)
(* and BrowserExecutor, joined by one pair of message channels for each    *)
(* connection of the extension.  A connection delivers in order; both ends *)
(* notice its loss on their own.                                           *)
(***************************************************************************)
EXTENDS Naturals, Sequences, FiniteSets

CONSTANTS Calls, Mutating, Following, MaxSockets, NoSocket, NoDoc, MaxPending,
          MaxDoc, MaxQueued, MaxRestarts

ASSUME PathAssumption ==
  /\ Mutating \subseteq Calls /\ Following \subseteq Calls \ Mutating
  /\ {MaxSockets, MaxPending, MaxDoc, MaxQueued, MaxRestarts} \subseteq Nat
  /\ NoSocket \notin 1 .. MaxSockets /\ NoDoc \notin 0 .. MaxDoc

VARIABLES hop, result, aborted, bound, granted, route, link, current, known,
          work, grantDoc, live, signalled, tail, checkedOn, replies,
          page, latest, sock, dialed, authed, outbox, restarts,
          toExecutor, toDaemon

Daemon == INSTANCE BrowserHop
Extension == INSTANCE BrowserExecutor

hopVars == <<hop, result, aborted, bound, granted, route, link, current, known>>
executorVars == <<work, grantDoc, live, signalled, tail, checkedOn, replies,
                  page, latest, sock, dialed, authed, outbox, restarts>>
vars == <<hopVars, executorVars, toExecutor, toDaemon>>

Init ==
  /\ Daemon!HopInit
  /\ Extension!ExecutorInit
  /\ toExecutor = [s \in 1 .. MaxSockets |-> <<>>]
  /\ toDaemon = [s \in 1 .. MaxSockets |-> <<>>]

Next ==
  \/ Daemon!HopNext /\ UNCHANGED executorVars
  \/ Extension!ExecutorNext /\ UNCHANGED hopVars

\* A verified call ends: its turn comes, and every Chrome API it uses returns.
Fairness ==
  \A c \in Calls :
    /\ WF_vars(Extension!StartTool(c) /\ UNCHANGED hopVars)
    /\ WF_vars(\E ok \in BOOLEAN : Extension!EndTool(c, ok) /\ UNCHANGED hopVars)

Spec == Init /\ [][Next]_vars
FairSpec == Spec /\ Fairness
-----------------------------------------------------------------------------
(* Properties *)

TypeOK == Daemon!HopTypeOK /\ Extension!ExecutorTypeOK

Running == {c \in Calls : work[c] = "running"}

\* The execution tail holds the verified calls that have not ended, each once,
\* and a call only runs at its head.
TailInv ==
  /\ \A i, j \in DOMAIN tail : tail[i] = tail[j] => i = j
  /\ \A c \in Calls : (\E i \in DOMAIN tail : tail[i] = c) <=> work[c] \in {"queued", "running"}
  /\ \A i \in DOMAIN tail : work[tail[i]] = "running" => i = 1

\* A call is on its way to the extension at most once, and only before the
\* extension has begun it; what it carries is its own grant.
IsCall(s, i) == toExecutor[s][i].type = "call"
WireInv ==
  /\ \A s \in 1 .. MaxSockets : \A i \in DOMAIN toExecutor[s] : IsCall(s, i) =>
       /\ work[toExecutor[s][i].call] = "none"
       /\ hop[toExecutor[s][i].call] \in {"sent", "settled"}
       /\ toExecutor[s][i].doc = granted[toExecutor[s][i].call]
  /\ \A s, t \in 1 .. MaxSockets : \A i \in DOMAIN toExecutor[s], j \in DOMAIN toExecutor[t] :
       IsCall(s, i) /\ IsCall(t, j) /\ toExecutor[s][i].call = toExecutor[t][j].call
         => s = t /\ i = j

\* The document that a call was authorised for, its grant and the extension's
\* check are the same document.
DocInv ==
  \A c \in Calls :
    /\ hop[c] \in {"new", "authorized"} => granted[c] = NoDoc
    /\ c \notin Following => granted[c] \in {NoDoc, bound[c]}
    /\ work[c] # "none" => hop[c] \in {"sent", "settled"} /\ grantDoc[c] = granted[c]
    /\ checkedOn[c] \in {NoDoc, granted[c]}
    /\ checkedOn[c] # NoDoc => work[c] # "none"

\* A call is under way in one place at a time: granted but not sent, on a wire,
\* or with the extension, where it is queued once and runs in its turn.
CallInv == TailInv /\ WireInv /\ DocInv

\* The browser executes one tool at a time, although the daemon has moved on to
\* the next mutation as soon as a call was cancelled or timed out
\* ("one mutation at a time per browser session and target").
OneToolAtATime == Cardinality(Running) <= 1

\* When a call's turn comes, the tab still shows the document for which the
\* call was authorised, however long approval, signing, verification and the
\* queue of the extension took; a stale tab report never changes that.
ChecksAuthorizedDocument ==
  \A c \in Calls \ Following : checkedOn[c] \in {NoDoc, bound[c]}

\* The extension answers a request at most once, and exactly once when it has
\* ended; what was cancelled is never reported as a success afterwards
\* ("suppresses any later success after terminal cancellation").
Outgoing == {toDaemon[s] : s \in 1 .. MaxSockets} \cup {outbox}
AnsweredOnce ==
  \A c \in Calls :
    /\ replies[c] <= 1
    /\ work[c] = "done" => replies[c] = 1
    /\ c \in signalled => \A q \in Outgoing : \A i \in DOMAIN q : q[i] # Daemon!ToolResult(c, TRUE)

\* The calls queued in the extension behind a failed, stale or cancelled one
\* get their turn.
QueueDrains == \A c \in Calls : work[c] = "queued" ~> work[c] \in {"done", "lost"}

\* A call whose requester cancelled it while it was under way does not succeed
\* ("A cancelled wait/evaluate request cannot complete later as a successful
\* write").
CancelledNeverSucceeds == \A c \in aborted : result[c] # "ok"

\* A call that the extension was told to cancel while it was still queued does
\* not start ("Stopping a run cancels queued work").
CancelledQueuedNeverStarts ==
  [][\A c \in signalled : work[c] = "queued" => work'[c] # "running"]_vars
=============================================================================
