----------------------------- MODULE ToolApproval -----------------------------
(***************************************************************************)
(* The authorisation of a tool call by the user: authorizeTool,            *)
(* resolveApproval and the task grants of the daemon (mcp/wsServer.ts,     *)
(* shared/taskCapabilityGrant.ts), and the approval cards of the side      *)
(* panels (sidepanel/services/mcpBridge.ts).                               *)
(*                                                                         *)
(* The calls belong to one browser session and target one tab; its page    *)
(* stands for every field of the target that is compared.  An approval id  *)
(* is fresh, so a call stands for its own approval.  Both ends of a        *)
(* connection notice its loss at once.  External MCP tools, the task       *)
(* binding and the wait for a first tab report are left out.               *)
(***************************************************************************)
EXTENDS Naturals, Sequences, FiniteSets

CONSTANTS
  Calls,           \* tool calls
  Free,            \* those whose approval mode is "none"
  Grantable,       \* those whose mode is "task_grant"
  TaskOf,          \* their task and egress destinations
  ClientOf,        \* their requester's role and client name
  OriginOf,        \* the origin of each page
  Panels,          \* side panels
  NoCall,          \* no approval
  MaxPending,      \* PROTOCOL_LIMITS.maxPendingApprovals
  MaxPage,         \* bound: pages the tab navigates through
  MaxConnections,  \* bound: connections of each panel
  MaxRevokes,      \* bound: revocations
  MaxFailures      \* bound: audit events that cannot be saved

Pages == 0 .. MaxPage
Tasks == {TaskOf[c] : c \in Calls}

ASSUME ApprovalAssumption ==
  /\ Free \subseteq Calls /\ Grantable \subseteq Calls \ Free
  /\ NoCall \notin Calls
  /\ DOMAIN TaskOf = Calls /\ DOMAIN ClientOf = Calls /\ DOMAIN OriginOf = Pages
  /\ {MaxPending, MaxPage, MaxConnections, MaxRevokes, MaxFailures} \subseteq Nat

VARIABLES
  stage,     \* where each call is
  shown,     \* requestedTarget, the page its card shows
  allowed,   \* the sockets it is shown on
  aborted,   \* calls whose input wait was aborted
  basis,     \* the call whose approval authorised it
  grant,     \* the task grant that its approval made
  page,      \* the page the daemon knows the tab to show
  ranOn,     \* the page it was dispatched for
  up,        \* the panel is connected
  conn,      \* connections of the panel so far
  toPanel,   \* messages on their way to the panel
  toDaemon,  \* messages of the panel, on their way or queued while it is down
  cards,     \* the approvals it displays
  said,      \* history: the decisions users took on each call
  revokes, failures

callVars == <<stage, shown, allowed, aborted, basis, grant, page, ranOn, failures>>
panelVars == <<up, conn, cards, said, revokes>>
vars == <<callVars, panelVars, toPanel, toDaemon>>

Decisions == {"deny", "once", "task"}
Settled == {"ran", "ended"}
Sockets == Panels \X (1 .. MaxConnections)

RequestCard(c) == [type |-> "request", call |-> c]
CancelCard(c) == [type |-> "cancelled", call |-> c]
Response(c, decision) == [type |-> "response", call |-> c, decision |-> decision]
RevokeTask(t) == [type |-> "revoke", task |-> t]

PanelMessages == [type : {"request", "cancelled"}, call : Calls]
DaemonMessages == [type : {"response"}, call : Calls, decision : Decisions]
                    \cup [type : {"revoke"}, task : Tasks]

TypeOK ==
  /\ stage \in [Calls -> {"new", "requesting", "pending", "denying", "granting", "approving",
                          "authorized"} \cup Settled]
  /\ shown \in [Calls -> Pages]
  /\ allowed \in [Calls -> SUBSET Sockets]
  /\ aborted \subseteq Calls
  /\ basis \in [Calls -> Calls \cup {NoCall}]
  /\ grant \in [Calls -> {"none", "active", "revoked", "expired"}]
  /\ \A c \in Calls \ Grantable : grant[c] = "none"
  /\ page \in Pages /\ ranOn \in [Calls -> Pages]
  /\ up \in [Panels -> BOOLEAN] /\ conn \in [Panels -> 0 .. MaxConnections]
  /\ toPanel \in [Panels -> Seq(PanelMessages)]
  /\ toDaemon \in [Panels -> Seq(DaemonMessages)]
  /\ cards \in [Panels -> SUBSET Calls]
  /\ said \in [Calls -> SUBSET Decisions]
  /\ revokes \in 0 .. MaxRevokes /\ failures \in 0 .. MaxFailures

Init ==
  /\ stage = [c \in Calls |-> "new"]
  /\ shown = [c \in Calls |-> 0]
  /\ allowed = [c \in Calls |-> {}]
  /\ aborted = {}
  /\ basis = [c \in Calls |-> NoCall]
  /\ grant = [c \in Calls |-> "none"]
  /\ page = 0 /\ ranOn = [c \in Calls |-> 0]
  /\ up = [p \in Panels |-> FALSE] /\ conn = [p \in Panels |-> 0]
  /\ toPanel = [p \in Panels |-> <<>>] /\ toDaemon = [p \in Panels |-> <<>>]
  /\ cards = [p \in Panels |-> {}]
  /\ said = [c \in Calls |-> {}]
  /\ revokes = 0 /\ failures = 0

-----------------------------------------------------------------------------
(* Helpers *)

Pending == {c \in Calls : stage[c] = "pending"}
To(c, s) == stage' = [stage EXCEPT ![c] = s]

\* The panel's present connection is one of those the card was meant for.
Shows(p, c) == up[p] /\ <<p, conn[p]>> \in allowed[c]
OpenSockets == {s \in Sockets : up[s[1]] /\ conn[s[1]] = s[2]}

\* A message to the open ones among the sockets of a card.
SendTo(ps, c, m) ==
  toPanel' = [p \in Panels |-> IF p \in ps /\ Shows(p, c) THEN Append(toPanel[p], m)
                               ELSE toPanel[p]]

\* Mutant of Notify: the other panels are not told.
NotifyNobody(ps, c) == UNCHANGED toPanel

\* notifyApprovalCancelled
Notify(ps, c) == SendTo(ps, c, CancelCard(c))

\* Mutant of SameScope: a grant follows the tab to any origin.
AnyOrigin(g, c) == TaskOf[g] = TaskOf[c] /\ ClientOf[g] = ClientOf[c]

\* The fields that matchesTaskCapabilityGrant compares.
SameScope(g, c) ==
  /\ TaskOf[g] = TaskOf[c]
  /\ ClientOf[g] = ClientOf[c]
  /\ OriginOf[shown[g]] = OriginOf[page]

\* matchesTaskCapabilityGrant and approvalModeNeedsDecision
Matching(c) == {g \in Calls : grant[g] = "active" /\ SameScope(g, c)}
NeedsDecision(c) == c \notin Free /\ ~(c \in Grantable /\ Matching(c) # {})

-----------------------------------------------------------------------------
(* authorizeTool *)

AuthorizeAtOnce(c) ==
  /\ stage[c] = "new"
  /\ ~NeedsDecision(c)
  /\ To(c, "authorized")
  /\ shown' = [shown EXCEPT ![c] = page]
  /\ \E g \in IF c \in Free THEN {c} ELSE Matching(c) : basis' = [basis EXCEPT ![c] = g]
  /\ UNCHANGED <<allowed, aborted, grant, page, ranOn, failures, panelVars, toPanel, toDaemon>>

\* APPROVAL_REQUIRED or RATE_LIMITED
RefuseRequest(c) ==
  /\ stage[c] = "new"
  /\ NeedsDecision(c)
  /\ OpenSockets = {} \/ Cardinality(Pending) >= MaxPending
  /\ To(c, "ended")
  /\ UNCHANGED <<shown, allowed, aborted, basis, grant, page, ranOn, failures, panelVars,
                 toPanel, toDaemon>>

\* Up to the await of the audit event approval.requested.
RequestDecision(c) ==
  /\ stage[c] = "new"
  /\ NeedsDecision(c)
  /\ OpenSockets # {} /\ Cardinality(Pending) < MaxPending
  /\ To(c, "requesting")
  /\ shown' = [shown EXCEPT ![c] = page]
  /\ allowed' = [allowed EXCEPT ![c] = OpenSockets]
  /\ UNCHANGED <<aborted, basis, grant, page, ranOn, failures, panelVars, toPanel, toDaemon>>

\* throwIfExecutionAborted before the approval is registered
AbortedEarly(c) == c \in aborted

PresentCards(c) ==
  /\ stage[c] = "requesting"
  /\ IF AbortedEarly(c)
     THEN To(c, "ended") /\ UNCHANGED toPanel
     ELSE To(c, "pending") /\ SendTo(Panels, c, RequestCard(c))
  /\ UNCHANGED <<shown, allowed, aborted, basis, grant, page, ranOn, failures, panelVars,
                 toDaemon>>

\* The abort of the input wait, by a cancellation or the loss of the
\* requester's connection; only a registered approval listens to it.
Cancel(c) ==
  /\ stage[c] \in {"requesting", "pending", "denying", "granting", "approving"}
  /\ c \notin aborted
  /\ aborted' = aborted \cup {c}
  /\ IF stage[c] = "pending"
     THEN To(c, "ended") /\ Notify(Panels, c)
     ELSE UNCHANGED <<stage, toPanel>>
  /\ UNCHANGED <<shown, allowed, basis, grant, page, ranOn, failures, panelVars, toDaemon>>

\* Mutant of Admissible: one panel decides, although all show the card.
FirstPanelOnly(p, c) == /\ stage[c] = "pending" /\ Shows(p, c)
                        /\ p = CHOOSE q \in Panels : Shows(q, c)

\* resolveApproval takes the first answer from a socket that was asked.
Admissible(p, c) == stage[c] = "pending" /\ Shows(p, c)

\* authorizationTargetMismatchFields after the decision
TargetUnchanged(c) == shown[c] = page

Received(p, type) == up[p] /\ toDaemon[p] # <<>> /\ Head(toDaemon[p]).type = type
TakeMessage(p) == toDaemon' = [toDaemon EXCEPT ![p] = Tail(@)]

\* rememberForTask and isTaskGrantEligiblePolicy
Remembered(c, decision) == decision = "task" /\ c \in Grantable

\* The decision and what follows it up to the next audit event.
Resolve(p, c, decision) ==
  /\ Notify(Panels \ {p}, c)
  /\ \/ decision = "deny" /\ To(c, "denying") /\ UNCHANGED grant
     \/ decision # "deny" /\ ~TargetUnchanged(c) /\ To(c, "ended") /\ UNCHANGED grant
     \/ /\ Remembered(c, decision) /\ TargetUnchanged(c)
        /\ To(c, "granting")
        /\ grant' = [grant EXCEPT ![c] = "active"]
     \/ /\ decision # "deny" /\ ~Remembered(c, decision) /\ TargetUnchanged(c)
        /\ To(c, "approving") /\ UNCHANGED grant

ReceiveResponse(p) ==
  /\ Received(p, "response")
  /\ TakeMessage(p)
  /\ LET m == Head(toDaemon[p])
     IN  IF Admissible(p, m.call) THEN Resolve(p, m.call, m.decision)
         ELSE UNCHANGED <<stage, grant, toPanel>>
  /\ UNCHANGED <<shown, allowed, aborted, basis, page, ranOn, failures, panelVars>>

\* The audit event approval.denied, grant.created or approval.approved is saved.
AuditSaved(c) ==
  /\ \/ stage[c] = "denying" /\ To(c, "ended") /\ UNCHANGED basis
     \/ stage[c] = "granting" /\ To(c, "approving") /\ UNCHANGED basis
     \/ /\ stage[c] = "approving"
        /\ To(c, "authorized")
        /\ basis' = [basis EXCEPT ![c] = c]
  /\ UNCHANGED <<shown, allowed, aborted, grant, page, ranOn, failures, panelVars, toPanel,
                 toDaemon>>

\* An audit event that cannot be saved fails the call; its grant stays.
AuditFails(c) ==
  /\ stage[c] \in {"requesting", "denying", "granting", "approving"}
  /\ failures < MaxFailures
  /\ failures' = failures + 1
  /\ To(c, "ended")
  /\ UNCHANGED <<shown, allowed, aborted, basis, grant, page, ranOn, panelVars, toPanel,
                 toDaemon>>

-----------------------------------------------------------------------------
(* The authorised call, the tab and the grants *)

\* callBrowserTool compares the target again before it dispatches the call,
\* which waits in the execution broker until then.
Dispatch(c) ==
  /\ stage[c] = "authorized"
  /\ TargetUnchanged(c)
  /\ To(c, "ran")
  /\ ranOn' = [ranOn EXCEPT ![c] = page]
  /\ UNCHANGED <<shown, allowed, aborted, basis, grant, page, failures, panelVars, toPanel,
                 toDaemon>>

\* STALE_CONTEXT, or an error of the broker or of the browser hop.
DispatchRefused(c) ==
  /\ stage[c] = "authorized"
  /\ To(c, "ended")
  /\ UNCHANGED <<shown, allowed, aborted, basis, grant, page, ranOn, failures, panelVars,
                 toPanel, toDaemon>>

Navigate ==
  /\ page < MaxPage
  /\ page' = page + 1
  /\ UNCHANGED <<stage, shown, allowed, aborted, basis, grant, ranOn, failures, panelVars,
                 toPanel, toDaemon>>

\* expiresAt has passed; cleanupExpiredTaskGrants only frees the memory.
ExpireGrant(g) ==
  /\ grant[g] = "active"
  /\ grant' = [grant EXCEPT ![g] = "expired"]
  /\ UNCHANGED <<stage, shown, allowed, aborted, basis, page, ranOn, failures, panelVars,
                 toPanel, toDaemon>>

\* Mutant of Revoked: only one of the task's grants is revoked.
FirstRevoked(t) ==
  LET of == {g \in Calls : grant[g] = "active" /\ TaskOf[g] = t}
  IN  IF of = {} THEN {} ELSE {CHOOSE g \in of : TRUE}

\* revokeTaskGrants
Revoked(t) == {g \in Calls : grant[g] = "active" /\ TaskOf[g] = t}

ReceiveRevoke(p) ==
  /\ Received(p, "revoke")
  /\ TakeMessage(p)
  /\ LET gone == Revoked(Head(toDaemon[p]).task)
     IN  grant' = [g \in Calls |-> IF g \in gone THEN "revoked" ELSE grant[g]]
  /\ UNCHANGED <<stage, shown, allowed, aborted, basis, page, ranOn, failures, panelVars,
                 toPanel>>

-----------------------------------------------------------------------------
(* The side panels *)

\* The socket is authenticated; messages queued in the meantime are sent.
Connect(p) ==
  /\ ~up[p]
  /\ conn[p] < MaxConnections
  /\ up' = [up EXCEPT ![p] = TRUE]
  /\ conn' = [conn EXCEPT ![p] = @ + 1]
  /\ UNCHANGED <<callVars, cards, said, revokes, toPanel, toDaemon>>

\* The connection is lost with what was on the wire; the cards stay.
Disconnect(p) ==
  /\ up[p]
  /\ up' = [up EXCEPT ![p] = FALSE]
  /\ toPanel' = [toPanel EXCEPT ![p] = <<>>]
  /\ toDaemon' = [toDaemon EXCEPT ![p] = <<>>]
  /\ UNCHANGED <<callVars, conn, cards, said, revokes>>

\* The user closes the panel.
ClosePanel(p) ==
  /\ up[p]
  /\ up' = [up EXCEPT ![p] = FALSE]
  /\ toPanel' = [toPanel EXCEPT ![p] = <<>>]
  /\ toDaemon' = [toDaemon EXCEPT ![p] = <<>>]
  /\ cards' = [cards EXCEPT ![p] = {}]
  /\ UNCHANGED <<callVars, conn, said, revokes>>

\* APPROVAL_REQUEST shows a card, APPROVAL_CANCELLED resolves it as denied and
\* drops the answer.
PanelReceives(p) ==
  /\ up[p]
  /\ toPanel[p] # <<>>
  /\ toPanel' = [toPanel EXCEPT ![p] = Tail(@)]
  /\ LET m == Head(toPanel[p])
     IN  cards' = [cards EXCEPT ![p] = IF m.type = "request" THEN @ \cup {m.call}
                                       ELSE @ \ {m.call}]
  /\ UNCHANGED <<callVars, up, conn, said, revokes, toDaemon>>

Decide(p, c, decision) ==
  /\ c \in cards[p]
  /\ cards' = [cards EXCEPT ![p] = @ \ {c}]
  /\ said' = [said EXCEPT ![c] = @ \cup {decision}]
  /\ toDaemon' = [toDaemon EXCEPT ![p] = Append(@, Response(c, decision))]
  /\ UNCHANGED <<callVars, up, conn, revokes, toPanel>>

RevokeGrants(p, t) ==
  /\ revokes < MaxRevokes
  /\ revokes' = revokes + 1
  /\ toDaemon' = [toDaemon EXCEPT ![p] = Append(@, RevokeTask(t))]
  /\ UNCHANGED <<callVars, up, conn, cards, said, toPanel>>

-----------------------------------------------------------------------------
CallNext(c) ==
  \/ AuthorizeAtOnce(c) \/ RefuseRequest(c) \/ RequestDecision(c) \/ PresentCards(c)
  \/ Cancel(c) \/ AuditSaved(c) \/ AuditFails(c) \/ Dispatch(c) \/ DispatchRefused(c)
  \/ ExpireGrant(c)

PanelNext(p) ==
  \/ ReceiveResponse(p) \/ ReceiveRevoke(p)
  \/ Connect(p) \/ Disconnect(p) \/ ClosePanel(p) \/ PanelReceives(p)
  \/ \E c \in Calls, decision \in Decisions : Decide(p, c, decision)
  \/ \E t \in Tasks : RevokeGrants(p, t)

Next == Navigate \/ (\E c \in Calls : CallNext(c)) \/ (\E p \in Panels : PanelNext(p))

\* What is sent on a connection arrives while it lasts.
Fairness ==
  \A p \in Panels : WF_vars(ReceiveResponse(p) \/ ReceiveRevoke(p)) /\ WF_vars(PanelReceives(p))

Spec == Init /\ [][Next]_vars
FairSpec == Spec /\ Fairness
-----------------------------------------------------------------------------
(* Properties *)

Answered(p, c) == \E i \in DOMAIN toDaemon[p] :
                    toDaemon[p][i].type = "response" /\ toDaemon[p][i].call = c
OnItsWay(p, m) == \E i \in DOMAIN toPanel[p] : toPanel[p][i] = m

\* What the user has agreed to: this call, or a grant to calls like it.
Consent(c, g) == IF g = c THEN said[c] \cap {"once", "task"} # {}
                 ELSE "task" \in said[g] /\ {c, g} \subseteq Grantable
                        /\ TaskOf[g] = TaskOf[c] /\ ClientOf[g] = ClientOf[c]

\* A call that needs the user's approval is only dispatched if a user approved
\* its own card, or approved for the task a call of the same client and task
\* on the same origin; and it acts on the page that the card showed
\* ("Unknown, sensitive, mutating, destructive, arbitrary-execution, and
\* open-world tools require a one-time sidepanel approval").
OnlyApprovedRuns ==
  \A c \in Calls : stage[c] = "ran" /\ c \notin Free =>
    /\ basis[c] \in Calls /\ Consent(c, basis[c])
    /\ OriginOf[shown[basis[c]]] = OriginOf[ranOn[c]]
    /\ ranOn[c] = shown[c]

\* What OnlyApprovedRuns rests on, in every state: an answer is only sent when a
\* user has taken that decision, a call gets past its decision only with an
\* approval, a grant stems from a decision for the task, and the call whose
\* approval is used is one whose page does not change any more.
Authorised(c) ==
  /\ basis[c] \in Calls /\ Consent(c, basis[c])
  /\ stage[basis[c]] # "new"
  /\ OriginOf[shown[basis[c]]] = OriginOf[shown[c]]

ConsentOf(c) ==
  /\ stage[c] \in {"granting", "approving"} => said[c] \cap {"once", "task"} # {}
  /\ grant[c] # "none" => "task" \in said[c] /\ stage[c] # "new"
  /\ stage[c] \in {"authorized", "ran"} /\ c \notin Free => Authorised(c)
  /\ stage[c] = "ran" => ranOn[c] = shown[c]

AnswersTaken ==
  \A p \in Panels : \A i \in DOMAIN toDaemon[p] :
    toDaemon[p][i].type = "response" => toDaemon[p][i].decision \in said[toDaemon[p][i].call]

ConsentInv == AnswersTaken /\ \A c \in Calls : ConsentOf(c)

\* On a connection that lasts, the cards of a panel and the approvals that the
\* daemon waits for differ only by what is on its way: no pending approval is
\* without its card, and no card stays behind when another panel has answered
\* or the requester has given up.
CardsMatch ==
  \A p \in Panels, c \in Calls : Shows(p, c) =>
    /\ stage[c] = "pending" => c \in cards[p] \/ OnItsWay(p, RequestCard(c)) \/ Answered(p, c)
    /\ c \in cards[p] \/ OnItsWay(p, RequestCard(c)) =>
         stage[c] = "pending" \/ OnItsWay(p, CancelCard(c))

\* When the daemon has handled the revocation of a task, the next call of the
\* task asks again ("revoke and confirm the next tool prompts").
RevokedAsksAgain ==
  [][\A p \in Panels :
       Received(p, "revoke") /\ up'[p] /\ toDaemon'[p] = Tail(toDaemon[p]) =>
         \A c \in Calls \ Free :
           TaskOf[c] = Head(toDaemon[p]).task => NeedsDecision(c)']_vars

\* A decision taken on a lasting connection ends the wait.
DecisionLands ==
  \A p \in Panels, c \in Calls :
    stage[c] = "pending" /\ Shows(p, c) /\ Answered(p, c)
      ~> stage[c] # "pending" \/ ~Shows(p, c)

\* A call that was cancelled while its authorisation was awaited does not run ("A
\* cancelled wait/evaluate request cannot complete later as a successful write").
CancelledNeverRuns == \A c \in aborted : stage[c] # "ran"

\* An approval only waits while a panel is there that can answer it ("If the
\* sidepanel is unavailable, the approval is denied").
PendingIsAnswerable == \A c \in Pending : \E p \in Panels : Shows(p, c)
=============================================================================
