----------------------------- MODULE PanelProofs -----------------------------
(***************************************************************************)
(* Theorems about the parts that the side panel shares with the daemon,    *)
(* about its runs, and about what it remembers of a conversation, for      *)
(* every value of their constants: ToolApproval (any number of calls,      *)
(* tasks, pages and panels), DaemonRuns (any number of runs, questions,    *)
(* lost connections, reloads and crashes), ConversationMemory (any number  *)
(* of turns and facts) and PanelRuns (any number of conversations,         *)
(* messages, tasks and reloads).                                           *)
(***************************************************************************)
EXTENDS ToolApproval, DaemonRuns, ConversationMemory, PanelRuns, SequenceLemmas,
        FiniteSetTheorems, SequenceTheorems, TLAPS

-----------------------------------------------------------------------------
(* ToolApproval *)


\* A message sent for a card leaves the wires to the panels well typed.
LEMMA SendTyped ==
  ASSUME TypeOK, NEW c \in Calls, NEW ps, NEW m \in PanelMessages, SendTo(ps, c, m)
  PROVE  toPanel' \in [Panels -> Seq(PanelMessages)]
BY DEF TypeOK, SendTo

\* So does the news that a card is settled.
LEMMA NotifyTyped ==
  ASSUME TypeOK, NEW c \in Calls, NEW ps, Notify(ps, c)
  PROVE  toPanel' \in [Panels -> Seq(PanelMessages)]
<1>1. CancelCard(c) \in PanelMessages
  BY DEF CancelCard, PanelMessages
<1> QED
  BY <1>1, SendTyped DEF Notify

\* What a panel's message is when it is received.
LEMMA ReceivedTyped ==
  ASSUME TypeOK, NEW p \in Panels, NEW type, Received(p, type)
  PROVE  /\ toDaemon[p] \in Seq(DaemonMessages) /\ toDaemon[p] # <<>>
         /\ Head(toDaemon[p]) \in DaemonMessages
         /\ 1 \in DOMAIN toDaemon[p] /\ Head(toDaemon[p]) = toDaemon[p][1]
         /\ type = "response" => /\ Head(toDaemon[p]).call \in Calls
                                 /\ Head(toDaemon[p]).decision \in Decisions
<1>1. toDaemon[p] \in Seq(DaemonMessages) /\ toDaemon[p] # <<>>
  BY DEF TypeOK, Received
<1>2. Head(toDaemon[p]) \in DaemonMessages /\ Head(toDaemon[p]).type = type
  BY <1>1 DEF Received
<1>3. 1 \in DOMAIN toDaemon[p] /\ Head(toDaemon[p]) = toDaemon[p][1]
  BY <1>1
<1>4. type = "response" => /\ Head(toDaemon[p]).call \in Calls
                           /\ Head(toDaemon[p]).decision \in Decisions
  BY <1>2 DEF DaemonMessages
<1> QED
  BY <1>1, <1>2, <1>3, <1>4

\* A message that is taken leaves a shorter queue of the same messages.
LEMMA TakenTyped ==
  ASSUME TypeOK, NEW p \in Panels, toDaemon[p] # <<>>, TakeMessage(p)
  PROVE  /\ toDaemon' \in [Panels -> Seq(DaemonMessages)]
         /\ \A q \in Panels : \A i \in DOMAIN toDaemon'[q] :
              \E j \in DOMAIN toDaemon[q] : toDaemon'[q][i] = toDaemon[q][j]
<1>1. toDaemon \in [Panels -> Seq(DaemonMessages)]
  BY DEF TypeOK
<1>2. /\ Tail(toDaemon[p]) \in Seq(DaemonMessages)
      /\ \A i \in DOMAIN Tail(toDaemon[p]) :
           i + 1 \in DOMAIN toDaemon[p] /\ Tail(toDaemon[p])[i] = toDaemon[p][i + 1]
  BY <1>1
<1>3. toDaemon' = [toDaemon EXCEPT ![p] = Tail(toDaemon[p])]
  BY DEF TakeMessage
<1>4. \A q \in Panels : q # p => toDaemon'[q] = toDaemon[q]
  BY <1>1, <1>3
<1>5. toDaemon'[p] = Tail(toDaemon[p])
  BY <1>1, <1>3
<1>6. \A i \in DOMAIN toDaemon'[p] :
        \E j \in DOMAIN toDaemon[p] : toDaemon'[p][i] = toDaemon[p][j]
  BY <1>2, <1>5
<1> QED
  BY <1>1, <1>2, <1>3, <1>4, <1>6

-----------------------------------------------------------------------------
(* Type correctness *)

LEMMA CallTyped ==
  ASSUME ApprovalAssumption, TypeOK, NEW c \in Calls, CallNext(c)
  PROVE  TypeOK'
<1> USE DEF TypeOK, To, Settled, vars, callVars, panelVars
<1>1. CASE AuthorizeAtOnce(c)
  BY <1>1 DEF AuthorizeAtOnce, Matching
<1>2. CASE RefuseRequest(c)
  BY <1>2 DEF RefuseRequest
<1>3. CASE RequestDecision(c)
  <2>1. OpenSockets \subseteq Sockets
    BY DEF OpenSockets
  <2> QED
    BY <1>3, <2>1 DEF RequestDecision
<1>4. CASE PresentCards(c)
  <2>1. toPanel' \in [Panels -> Seq(PanelMessages)]
    <3>1. RequestCard(c) \in PanelMessages
      BY DEF RequestCard, PanelMessages
    <3> QED
      BY <1>4, <3>1, SendTyped DEF PresentCards
  <2> QED
    BY <1>4, <2>1 DEF PresentCards
<1>5. CASE Cancel(c)
  <2>1. toPanel' \in [Panels -> Seq(PanelMessages)]
    BY <1>5, NotifyTyped DEF Cancel
  <2> QED
    BY <1>5, <2>1 DEF Cancel
<1>6. CASE AuditSaved(c)
  <2>1. \E s \in {"ended", "approving", "authorized"} : stage' = [stage EXCEPT ![c] = s]
    BY <1>6 DEF AuditSaved
  <2>2. basis' \in [Calls -> Calls \cup {NoCall}]
    BY <1>6 DEF AuditSaved
  <2> QED
    BY <1>6, <2>1, <2>2 DEF AuditSaved
<1>7. CASE AuditFails(c)
  BY <1>7 DEF AuditFails, ApprovalAssumption
<1>8. CASE Dispatch(c)
  BY <1>8 DEF Dispatch
<1>9. CASE DispatchRefused(c)
  BY <1>9 DEF DispatchRefused
<1>10. CASE ExpireGrant(c)
  BY <1>10 DEF ExpireGrant
<1> QED
  BY <1>1, <1>2, <1>3, <1>4, <1>5, <1>6, <1>7, <1>8, <1>9, <1>10 DEF CallNext

LEMMA PanelTyped ==
  ASSUME ApprovalAssumption, TypeOK, NEW p \in Panels, PanelNext(p)
  PROVE  TypeOK'
<1> USE DEF TypeOK, To, Settled, callVars, panelVars
<1>1. CASE ReceiveResponse(p)
  <2> DEFINE m == Head(toDaemon[p])
  <2>1. m.call \in Calls /\ m.decision \in Decisions /\ toDaemon[p] # <<>>
    BY <1>1, ReceivedTyped DEF ReceiveResponse
  <2>2. toDaemon' \in [Panels -> Seq(DaemonMessages)]
    BY <1>1, <2>1, TakenTyped DEF ReceiveResponse
  <2>3. CASE Admissible(p, m.call)
    <3>1. Resolve(p, m.call, m.decision)
      BY <1>1, <2>3 DEF ReceiveResponse
    <3>2. toPanel' \in [Panels -> Seq(PanelMessages)]
      BY <2>1, <3>1, NotifyTyped DEF Resolve
    <3>3. /\ \E s \in {"denying", "ended", "granting", "approving"} :
                stage' = [stage EXCEPT ![m.call] = s]
          /\ \/ UNCHANGED grant
             \/ m.call \in Grantable /\ grant' = [grant EXCEPT ![m.call] = "active"]
      BY <3>1 DEF Resolve, Remembered
    <3> HIDE DEF m
    <3>4. grant' \in [Calls -> {"none", "active", "revoked", "expired"}]
      BY <2>1, <3>3
    <3>6. \A d \in Calls \ Grantable : grant'[d] = "none"
      <4> SUFFICES ASSUME NEW d \in Calls \ Grantable PROVE grant'[d] = "none"
        OBVIOUS
      <4>1. CASE d = m.call
        BY <2>1, <3>3, <4>1
      <4>2. CASE d # m.call
        BY <2>1, <3>3, <4>2
      <4> QED
        BY <4>1, <4>2
    <3>5. stage' \in [Calls -> {"new", "requesting", "pending", "denying", "granting",
                                "approving", "authorized"} \cup Settled]
      BY <2>1, <3>3
    <3> QED
      BY <1>1, <2>2, <3>2, <3>4, <3>5, <3>6 DEF ReceiveResponse
  <2>4. CASE ~Admissible(p, m.call)
    BY <1>1, <2>2, <2>4 DEF ReceiveResponse
  <2> QED
    BY <2>3, <2>4
<1>2. CASE ReceiveRevoke(p)
  <2>1. toDaemon' \in [Panels -> Seq(DaemonMessages)]
    BY <1>2, TakenTyped DEF ReceiveRevoke, Received
  <2> QED
    BY <1>2, <2>1 DEF ReceiveRevoke, Revoked
<1>3. CASE Connect(p)
  BY <1>3 DEF Connect, ApprovalAssumption
<1>4. CASE Disconnect(p)
  BY <1>4 DEF Disconnect
<1>5. CASE ClosePanel(p)
  BY <1>5 DEF ClosePanel
<1>6. CASE PanelReceives(p)
  <2>1. Head(toPanel[p]) \in PanelMessages /\ Tail(toPanel[p]) \in Seq(PanelMessages)
    <3> HIDE DEF TypeOK
    <3>1. toPanel[p] \in Seq(PanelMessages)
      BY DEF TypeOK
    <3>2. toPanel[p] # <<>>
      BY <1>6 DEF PanelReceives
    <3> QED
      BY <3>1, <3>2
  <2>2. toPanel' \in [Panels -> Seq(PanelMessages)]
    BY <1>6, <2>1 DEF PanelReceives
  <2>3. cards' \in [Panels -> SUBSET Calls]
    <3>1. Head(toPanel[p]).call \in Calls
      BY <2>1 DEF PanelMessages
    <3> QED
      BY <1>6, <3>1 DEF PanelReceives
  <2> QED
    BY <1>6, <2>2, <2>3 DEF PanelReceives
<1>7. ASSUME NEW c \in Calls, NEW decision \in Decisions, Decide(p, c, decision)
      PROVE  TypeOK'
  <2>1. Response(c, decision) \in DaemonMessages
    BY DEF Response, DaemonMessages
  <2>2. toDaemon' \in [Panels -> Seq(DaemonMessages)]
    BY <1>7, <2>1 DEF Decide
  <2> QED
    BY <1>7, <2>2 DEF Decide
<1>8. ASSUME NEW t \in Tasks, RevokeGrants(p, t)
      PROVE  TypeOK'
  <2>1. RevokeTask(t) \in DaemonMessages
    BY DEF RevokeTask, DaemonMessages
  <2>2. toDaemon' \in [Panels -> Seq(DaemonMessages)]
    BY <1>8, <2>1 DEF RevokeGrants
  <2> QED
    BY <1>8, <2>2 DEF RevokeGrants, ApprovalAssumption
<1> QED
  BY <1>1, <1>2, <1>3, <1>4, <1>5, <1>6, <1>7, <1>8 DEF PanelNext

\* The variables keep their types, and only a call whose policy is "task_grant"
\* ever makes a grant (createTaskCapabilityGrant).
THEOREM ApprovalTyped == ASSUME ApprovalAssumption PROVE Spec => []TypeOK
<1>1. Init => TypeOK
  BY DEF Init, TypeOK, Pages, ApprovalAssumption
<1>2. TypeOK /\ [Next]_vars => TypeOK'
  <2> SUFFICES ASSUME TypeOK, [Next]_vars PROVE TypeOK'
    OBVIOUS
  <2>1. CASE Navigate
    BY <2>1 DEF Navigate, TypeOK, Pages, ApprovalAssumption, panelVars
  <2>2. CASE UNCHANGED vars
    BY <2>2 DEF vars, callVars, panelVars, TypeOK
  <2> QED
    BY <2>1, <2>2, CallTyped, PanelTyped DEF Next
<1> QED
  BY <1>1, <1>2, PTL DEF Spec

-----------------------------------------------------------------------------
(* Consent *)

\* What no step takes back: a decision of a user, and the page of a call once
\* its authorisation has begun.
Grows ==
  \A c \in Calls :
    /\ said[c] \subseteq said'[c]
    /\ stage[c] # "new" => stage'[c] # "new" /\ shown'[c] = shown[c]

\* The approval of a call that the step does not touch still holds.
LEMMA ConsentStays ==
  ASSUME NEW c \in Calls, ConsentOf(c), Grows,
         stage'[c] = stage[c], basis'[c] = basis[c], ranOn'[c] = ranOn[c],
         grant[c] = "none" => grant'[c] = "none"
  PROVE  ConsentOf(c)'
<1>1. said[c] \subseteq said'[c]
  BY DEF Grows
<1>2. stage'[c] \in {"granting", "approving"} => said'[c] \cap {"once", "task"} # {}
  BY <1>1 DEF ConsentOf
<1>3. grant'[c] # "none" => "task" \in said'[c] /\ stage'[c] # "new"
  BY <1>1 DEF ConsentOf
<1>4. ASSUME stage'[c] \in {"authorized", "ran"}, c \notin Free
      PROVE  Authorised(c)'
  <2>1. Authorised(c)
    BY <1>4 DEF ConsentOf
  <2>2. /\ basis'[c] \in Calls /\ stage'[basis'[c]] # "new"
        /\ shown'[basis'[c]] = shown[basis[c]] /\ said[basis[c]] \subseteq said'[basis'[c]]
    BY <2>1 DEF Authorised, Grows
  <2>3. shown'[c] = shown[c]
    BY <1>4 DEF Grows
  <2>4. Consent(c, basis[c])'
    BY <1>1, <2>1, <2>2 DEF Authorised, Consent
  <2> QED
    BY <2>1, <2>2, <2>3, <2>4 DEF Authorised
<1>5. stage'[c] = "ran" => ranOn'[c] = shown'[c]
  BY DEF ConsentOf, Grows
<1> QED
  BY <1>2, <1>3, <1>4, <1>5 DEF ConsentOf

\* A step that sends the daemon nothing keeps every answer meant.
LEMMA AnswersKept ==
  ASSUME TypeOK, AnswersTaken, Grows,
         toDaemon' \in [Panels -> Seq(DaemonMessages)],
         \A p \in Panels : \A i \in DOMAIN toDaemon'[p] :
           \E j \in DOMAIN toDaemon[p] : toDaemon'[p][i] = toDaemon[p][j]
  PROVE  AnswersTaken'
<1> SUFFICES ASSUME NEW p \in Panels, NEW i \in DOMAIN toDaemon'[p],
                    toDaemon'[p][i].type = "response"
             PROVE  toDaemon'[p][i].decision \in said'[toDaemon'[p][i].call]
  BY DEF AnswersTaken
<1>1. PICK j \in DOMAIN toDaemon[p] : toDaemon'[p][i] = toDaemon[p][j]
  OBVIOUS
<1>2. toDaemon[p][j] \in DaemonMessages
  BY DEF TypeOK
<1>3. toDaemon[p][j].call \in Calls
  BY <1>1, <1>2 DEF DaemonMessages
<1> QED
  BY <1>1, <1>3 DEF AnswersTaken, Grows

-----------------------------------------------------------------------------
LEMMA CallConsent ==
  ASSUME TypeOK, ConsentInv, NEW c \in Calls, CallNext(c)
  PROVE  ConsentInv'
<1>1. UNCHANGED <<said, toDaemon>>
  BY DEF CallNext, AuthorizeAtOnce, RefuseRequest, RequestDecision, PresentCards, Cancel,
         AuditSaved, AuditFails, Dispatch, DispatchRefused, ExpireGrant, panelVars
<1>2. AnswersTaken'
  BY <1>1 DEF ConsentInv, AnswersTaken
<1>3. \A d \in Calls : ConsentOf(d)
  BY DEF ConsentInv
<1>4. \/ UNCHANGED stage
      \/ \E s : s # "new" /\ stage' = [stage EXCEPT ![c] = s]
  BY DEF CallNext, To, AuthorizeAtOnce, RefuseRequest, RequestDecision, PresentCards, Cancel,
         AuditSaved, AuditFails, Dispatch, DispatchRefused, ExpireGrant
<1>5. \/ UNCHANGED shown
      \/ stage[c] = "new" /\ shown' = [shown EXCEPT ![c] = page]
  BY DEF CallNext, AuthorizeAtOnce, RefuseRequest, RequestDecision, PresentCards, Cancel,
         AuditSaved, AuditFails, Dispatch, DispatchRefused, ExpireGrant
<1>6. Grows
  BY <1>1, <1>4, <1>5 DEF Grows, TypeOK
<1>7. ASSUME NEW d \in Calls, d # c
      PROVE  ConsentOf(d)'
  <2>1. stage'[d] = stage[d]
    BY <1>4, <1>7 DEF TypeOK
  <2>2. basis'[d] = basis[d]
    BY <1>7 DEF CallNext, AuthorizeAtOnce, RefuseRequest, RequestDecision, PresentCards, Cancel,
                AuditSaved, AuditFails, Dispatch, DispatchRefused, ExpireGrant, TypeOK
  <2>3. ranOn'[d] = ranOn[d] /\ grant'[d] = grant[d]
    BY <1>7 DEF CallNext, AuthorizeAtOnce, RefuseRequest, RequestDecision, PresentCards, Cancel,
                AuditSaved, AuditFails, Dispatch, DispatchRefused, ExpireGrant, TypeOK
  <2> QED
    BY <1>3, <1>6, <2>1, <2>2, <2>3, ConsentStays
<1>8. ConsentOf(c)'
  <2>1. CASE AuthorizeAtOnce(c)
    <3>1. stage[c] = "new" /\ stage'[c] = "authorized" /\ shown'[c] = page
          /\ UNCHANGED grant
      BY <2>1 DEF AuthorizeAtOnce, To, TypeOK
    <3>2. grant[c] = "none"
      BY <1>3, <3>1 DEF ConsentOf
    <3>3. ASSUME c \notin Free
          PROVE  Authorised(c)'
      <4>1. c \in Grantable /\ basis'[c] \in Matching(c)
        BY <2>1, <3>3 DEF AuthorizeAtOnce, NeedsDecision, TypeOK
      <4>2. PICK g \in Calls : basis'[c] = g /\ grant[g] = "active" /\ SameScope(g, c)
        BY <4>1 DEF Matching
      <4>3. "task" \in said[g] /\ stage[g] # "new" /\ g \in Grantable
        BY <1>3, <4>2 DEF ConsentOf, TypeOK
      <4>4. stage'[g] # "new" /\ shown'[g] = shown[g]
        BY <1>6, <4>3 DEF Grows
      <4>5. Consent(c, g)'
        BY <1>1, <4>1, <4>2, <4>3 DEF Consent, SameScope
      <4> QED
        BY <3>1, <4>2, <4>4, <4>5 DEF Authorised, SameScope
    <3> QED
      BY <3>1, <3>2, <3>3 DEF ConsentOf
  <2>2. CASE RefuseRequest(c) \/ RequestDecision(c)
    <3>1. stage[c] = "new" /\ stage'[c] \in {"ended", "requesting"} /\ UNCHANGED grant
      BY <2>2 DEF RefuseRequest, RequestDecision, To, TypeOK
    <3> QED
      BY <1>3, <3>1 DEF ConsentOf
  <2>3. CASE PresentCards(c) \/ Cancel(c)
    <3>1. stage'[c] = stage[c] \/ stage'[c] \in {"ended", "pending"}
      BY <2>3 DEF PresentCards, Cancel, To, TypeOK
    <3>2. UNCHANGED <<grant, basis, ranOn>>
      BY <2>3 DEF PresentCards, Cancel
    <3>3. CASE stage'[c] = stage[c]
      BY <1>3, <1>6, <3>2, <3>3, ConsentStays
    <3>4. CASE stage'[c] \in {"ended", "pending"}
      BY <1>1, <1>3, <3>2, <3>4 DEF ConsentOf
    <3> QED
      BY <3>1, <3>3, <3>4
  <2>4. CASE AuditSaved(c)
    <3>1. UNCHANGED <<grant, shown>>
      BY <2>4 DEF AuditSaved
    <3>2. CASE stage[c] = "denying"
      <4>1. stage'[c] = "ended"
        BY <2>4, <3>2 DEF AuditSaved, To, TypeOK
      <4> QED
        BY <1>1, <1>3, <3>1, <4>1 DEF ConsentOf
    <3>3. CASE stage[c] = "granting"
      <4>1. stage'[c] = "approving"
        BY <2>4, <3>3 DEF AuditSaved, To, TypeOK
      <4> QED
        BY <1>1, <1>3, <3>1, <3>3, <4>1 DEF ConsentOf
    <3>4. CASE stage[c] = "approving"
      <4>1. stage'[c] = "authorized" /\ basis'[c] = c
        BY <2>4, <3>4 DEF AuditSaved, To, TypeOK
      <4>2. said[c] \cap {"once", "task"} # {}
        BY <1>3, <3>4 DEF ConsentOf
      <4>3. Authorised(c)'
        BY <1>1, <4>1, <4>2 DEF Authorised, Consent
      <4> QED
        BY <1>1, <1>3, <3>1, <4>1, <4>3 DEF ConsentOf
    <3> QED
      BY <2>4, <3>2, <3>3, <3>4 DEF AuditSaved
  <2>5. CASE AuditFails(c) \/ DispatchRefused(c)
    <3>1. stage'[c] = "ended" /\ UNCHANGED grant
      BY <2>5 DEF AuditFails, DispatchRefused, To, TypeOK
    <3> QED
      BY <1>1, <1>3, <3>1 DEF ConsentOf
  <2>6. CASE Dispatch(c)
    <3>1. stage[c] = "authorized" /\ stage'[c] = "ran" /\ ranOn'[c] = page /\ shown[c] = page
          /\ UNCHANGED <<grant, basis, shown>>
      BY <2>6 DEF Dispatch, TargetUnchanged, To, TypeOK
    <3>2. ASSUME c \notin Free
          PROVE  Authorised(c)'
      <4>1. Authorised(c)
        BY <1>3, <3>1, <3>2 DEF ConsentOf
      <4>2. stage'[basis[c]] # "new"
        BY <1>6, <4>1 DEF Authorised, Grows
      <4>3. Consent(c, basis[c])'
        BY <1>1, <3>1, <4>1 DEF Authorised, Consent
      <4> QED
        BY <3>1, <4>1, <4>2, <4>3 DEF Authorised
    <3> QED
      BY <1>1, <1>3, <3>1, <3>2 DEF ConsentOf
  <2>7. CASE ExpireGrant(c)
    <3>1. UNCHANGED <<stage, basis, ranOn>> /\ grant[c] = "active"
      BY <2>7 DEF ExpireGrant
    <3> QED
      BY <1>3, <1>6, <3>1, ConsentStays
  <2> QED
    BY <2>1, <2>2, <2>3, <2>4, <2>5, <2>6, <2>7 DEF CallNext
<1> QED
  BY <1>2, <1>7, <1>8 DEF ConsentInv

\* A message that is appended for a panel whose answers are meant keeps them so.
LEMMA AnswersAppend ==
  ASSUME TypeOK, AnswersTaken, Grows, NEW p \in Panels, NEW m \in DaemonMessages,
         toDaemon' = [toDaemon EXCEPT ![p] = Append(@, m)],
         m.type = "response" => m.decision \in said'[m.call]
  PROVE  AnswersTaken'
<1> SUFFICES ASSUME NEW q \in Panels, NEW i \in DOMAIN toDaemon'[q],
                    toDaemon'[q][i].type = "response"
             PROVE  toDaemon'[q][i].decision \in said'[toDaemon'[q][i].call]
  BY DEF AnswersTaken
<1>1. toDaemon \in [Panels -> Seq(DaemonMessages)]
  BY DEF TypeOK
<1>2. \/ toDaemon'[q][i] = m
      \/ i \in DOMAIN toDaemon[q] /\ toDaemon'[q][i] = toDaemon[q][i]
  <2>1. CASE q = p
    <3>1. toDaemon[p] \in Seq(DaemonMessages) /\ toDaemon'[p] = Append(toDaemon[p], m)
      BY <1>1
    <3>2. i \in 1 .. Len(toDaemon[p]) + 1
      BY <2>1, <3>1
    <3>3. CASE i = Len(toDaemon[p]) + 1
      <4>1. Append(toDaemon[p], m)[Len(toDaemon[p]) + 1] = m
        BY <3>1
      <4> QED
        BY <2>1, <3>1, <3>3, <4>1
    <3>4. CASE i # Len(toDaemon[p]) + 1
      <4>1. i \in 1 .. Len(toDaemon[p])
        BY <3>1, <3>2, <3>4
      <4> QED
        BY <2>1, <3>1, <4>1
    <3> QED
      BY <3>3, <3>4
  <2>2. CASE q # p
    BY <1>1, <2>2
  <2> QED
    BY <2>1, <2>2
<1>3. CASE i \in DOMAIN toDaemon[q] /\ toDaemon'[q][i] = toDaemon[q][i]
  <2>1. toDaemon[q][i] \in DaemonMessages
    BY <1>1, <1>3
  <2>2. toDaemon[q][i].call \in Calls
    BY <1>3, <2>1 DEF DaemonMessages
  <2> QED
    BY <1>3, <2>2 DEF AnswersTaken, Grows
<1> QED
  BY <1>2, <1>3

LEMMA PanelConsent ==
  ASSUME TypeOK, ConsentInv, NEW p \in Panels, PanelNext(p)
  PROVE  ConsentInv'
<1>1. \A c \in Calls : ConsentOf(c)
  BY DEF ConsentInv
<1>2. CASE ReceiveResponse(p)
  <2> DEFINE m == Head(toDaemon[p])
  <2>1. /\ m.call \in Calls /\ m.decision \in Decisions /\ toDaemon[p] # <<>>
        /\ 1 \in DOMAIN toDaemon[p] /\ m = toDaemon[p][1] /\ m.type = "response"
    BY <1>2, ReceivedTyped DEF ReceiveResponse, Received
  <2>2. m.decision \in said[m.call]
    BY <2>1 DEF ConsentInv, AnswersTaken
  <2>3. UNCHANGED <<said, shown, basis, ranOn>>
    BY <1>2 DEF ReceiveResponse, panelVars
  <2>4. \/ UNCHANGED <<stage, grant>>
        \/ stage[m.call] = "pending" /\ Resolve(p, m.call, m.decision)
    BY <1>2 DEF ReceiveResponse, Admissible
  <2> HIDE DEF m
  <2>5. Grows
    <3>1. \/ UNCHANGED stage
          \/ \E s : s # "new" /\ stage' = [stage EXCEPT ![m.call] = s]
      BY <2>4 DEF Resolve, To
    <3> QED
      BY <2>1, <2>3, <3>1 DEF Grows, TypeOK
  <2>6. AnswersTaken'
    <3>1. /\ toDaemon' \in [Panels -> Seq(DaemonMessages)]
          /\ \A q \in Panels : \A i \in DOMAIN toDaemon'[q] :
               \E j \in DOMAIN toDaemon[q] : toDaemon'[q][i] = toDaemon[q][j]
      BY <1>2, <2>1, TakenTyped DEF ReceiveResponse
    <3> QED
      BY <2>5, <3>1, AnswersKept DEF ConsentInv
  <2>7. ASSUME NEW c \in Calls
        PROVE  ConsentOf(c)'
    <3>1. CASE stage'[c] = stage[c] /\ grant'[c] = grant[c]
      BY <1>1, <2>3, <2>5, <3>1, ConsentStays
    <3>2. CASE ~(stage'[c] = stage[c] /\ grant'[c] = grant[c])
      <4>1. c = m.call /\ stage[c] = "pending" /\ Resolve(p, c, m.decision)
        BY <2>1, <2>4, <3>2 DEF Resolve, To, TypeOK
      <4>2. /\ stage'[c] \in {"denying", "ended", "granting", "approving"}
            /\ stage'[c] \in {"granting", "approving"} => m.decision # "deny"
            /\ grant'[c] = grant[c] \/ m.decision = "task"
        BY <4>1 DEF Resolve, To, Remembered, TypeOK
      <4>3. m.decision \in said'[c] /\ said'[c] = said[c]
        BY <2>2, <2>3, <4>1
      <4>4. m.decision # "deny" => m.decision \in {"once", "task"}
        BY <2>1 DEF Decisions
      <4> QED
        BY <1>1, <4>1, <4>2, <4>3, <4>4 DEF ConsentOf
    <3> QED
      BY <3>1, <3>2
  <2> QED
    BY <2>6, <2>7 DEF ConsentInv
<1>3. CASE ReceiveRevoke(p)
  <2>1. UNCHANGED <<stage, shown, basis, ranOn, said>> /\ toDaemon[p] # <<>> /\ TakeMessage(p)
    BY <1>3 DEF ReceiveRevoke, Received, panelVars
  <2>2. Grows
    BY <2>1 DEF Grows
  <2>3. AnswersTaken'
    BY <2>1, <2>2, TakenTyped, AnswersKept DEF ConsentInv
  <2>4. \A c \in Calls : grant[c] = "none" => grant'[c] = "none"
    BY <1>3 DEF ReceiveRevoke, Revoked
  <2> QED
    BY <1>1, <2>1, <2>2, <2>3, <2>4, ConsentStays DEF ConsentInv
<1>4. ASSUME UNCHANGED <<callVars, said>>, AnswersTaken'
      PROVE  ConsentInv'
  <2>1. Grows
    BY <1>4 DEF Grows, callVars
  <2> QED
    BY <1>1, <1>4, <2>1, ConsentStays DEF ConsentInv, callVars
<1>5. CASE Connect(p) \/ PanelReceives(p)
  BY <1>4, <1>5 DEF Connect, PanelReceives, ConsentInv, AnswersTaken
<1>6. CASE Disconnect(p) \/ ClosePanel(p)
  <2>1. UNCHANGED <<callVars, said>> /\ toDaemon' = [toDaemon EXCEPT ![p] = <<>>]
    BY <1>6 DEF Disconnect, ClosePanel
  <2>2. AnswersTaken'
    BY <2>1 DEF ConsentInv, AnswersTaken, TypeOK
  <2> QED
    BY <1>4, <2>1, <2>2
<1>7. ASSUME NEW c \in Calls, NEW decision \in Decisions, Decide(p, c, decision)
      PROVE  ConsentInv'
  <2> DEFINE m == Response(c, decision)
  <2>1. /\ m \in DaemonMessages /\ m.call = c /\ m.decision = decision
        /\ toDaemon' = [toDaemon EXCEPT ![p] = Append(@, m)]
    BY <1>7 DEF Decide, Response, DaemonMessages
  <2>2. UNCHANGED callVars /\ said' = [said EXCEPT ![c] = said[c] \cup {decision}]
    BY <1>7 DEF Decide
  <2>3. Grows
    BY <2>2 DEF Grows, TypeOK, callVars
  <2>4. decision \in said'[c]
    BY <2>2 DEF TypeOK
  <2>5. AnswersTaken'
    BY <2>1, <2>3, <2>4, AnswersAppend DEF ConsentInv
  <2> QED
    BY <1>1, <2>2, <2>3, <2>5, ConsentStays DEF ConsentInv, callVars
<1>8. ASSUME NEW t \in Tasks, RevokeGrants(p, t)
      PROVE  ConsentInv'
  <2> DEFINE m == RevokeTask(t)
  <2>1. /\ m \in DaemonMessages /\ m.type # "response"
        /\ toDaemon' = [toDaemon EXCEPT ![p] = Append(@, m)]
    BY <1>8 DEF RevokeGrants, RevokeTask, DaemonMessages
  <2>2. UNCHANGED <<callVars, said>>
    BY <1>8 DEF RevokeGrants
  <2>3. Grows
    BY <2>2 DEF Grows, callVars
  <2>4. AnswersTaken'
    BY <2>1, <2>3, AnswersAppend DEF ConsentInv
  <2> QED
    BY <1>4, <2>2, <2>4
<1> QED
  BY <1>2, <1>3, <1>5, <1>6, <1>7, <1>8 DEF PanelNext

\* In every reachable state the daemon acts on what users have really decided:
\* each answer on its way was taken, and each call that got past its decision
\* has the consent that OnlyApprovedRuns asks for.
THEOREM ConsentHolds == ASSUME ApprovalAssumption PROVE Spec => []ConsentInv
<1>1. Init => ConsentInv
  BY DEF Init, ConsentInv, ConsentOf, AnswersTaken
<1>2. TypeOK /\ ConsentInv /\ [Next]_vars => ConsentInv'
  <2> SUFFICES ASSUME TypeOK, ConsentInv, [Next]_vars PROVE ConsentInv'
    OBVIOUS
  <2>1. CASE Navigate \/ UNCHANGED vars
    <3>1. UNCHANGED <<stage, shown, basis, grant, ranOn, said, toDaemon>>
      BY <2>1 DEF Navigate, vars, callVars, panelVars
    <3>2. Grows
      BY <3>1 DEF Grows
    <3>3. AnswersTaken'
      BY <3>1 DEF ConsentInv, AnswersTaken
    <3> QED
      BY <3>1, <3>2, <3>3, ConsentStays DEF ConsentInv
  <2> QED
    BY <2>1, CallConsent, PanelConsent DEF Next
<1> QED
  BY <1>1, <1>2, ApprovalTyped, PTL DEF Spec

\* No call that needs the user's approval is dispatched without it, and none
\* acts on another page than its card showed (authorizeTool, callBrowserTool).
THEOREM NothingRunsUnapproved == ASSUME ApprovalAssumption PROVE Spec => []OnlyApprovedRuns
<1>1. ConsentInv => OnlyApprovedRuns
  BY DEF ConsentInv, ConsentOf, Authorised, OnlyApprovedRuns
<1> QED
  BY <1>1, ConsentHolds, PTL

-----------------------------------------------------------------------------
(* Cards *)

\* Whether a message of a panel on its way answers a card.
HasAnswer(q, c) == \E i \in DOMAIN q : q[i].type = "response" /\ q[i].call = c

\* Of a call that no panel has been asked about: nothing is shown or on its way.
Unasked(p, c) ==
  c \notin cards[p] /\ ~Answered(p, c) /\ ~OnItsWay(p, RequestCard(c)) /\ ~OnItsWay(p, CancelCard(c))

\* The card is requested once and cancelled later, if at all.
InOrder(q, c) ==
  \A i, j \in DOMAIN q : q[i] = RequestCard(c) =>
    /\ q[j] = RequestCard(c) => i = j
    /\ q[j] = CancelCard(c) => i < j

Matches(p, c) ==
  /\ stage[c] = "pending" => c \in cards[p] \/ OnItsWay(p, RequestCard(c)) \/ Answered(p, c)
  /\ c \in cards[p] \/ OnItsWay(p, RequestCard(c)) =>
       stage[c] = "pending" \/ OnItsWay(p, CancelCard(c))

CardOf(p, c) ==
  /\ stage[c] \in {"new", "requesting"} => Unasked(p, c)
  /\ \A n \in Nat : <<p, n>> \in allowed[c] => n <= conn[p] /\ stage[c] # "new"
  /\ stage[c] = "pending" => ~OnItsWay(p, CancelCard(c))
  /\ InOrder(toPanel[p], c)
  /\ OnItsWay(p, RequestCard(c)) => c \notin cards[p]
  /\ c \in cards[p] \/ OnItsWay(p, RequestCard(c)) => ~Answered(p, c)
  /\ Shows(p, c) => Matches(p, c)

CardInv == \A p \in Panels, c \in Calls : CardOf(p, c)

\* An answer behind the others.
LEMMA AnswerAdded ==
  ASSUME NEW q \in Seq(DaemonMessages), NEW m \in DaemonMessages, NEW r, r = Append(q, m), NEW c
  PROVE  HasAnswer(r, c) <=> HasAnswer(q, c) \/ (m.type = "response" /\ m.call = c)
<1>1. /\ Len(q) \in Nat /\ DOMAIN q = 1..Len(q) /\ DOMAIN r = 1..Len(q) + 1
      /\ \A i \in 1..Len(q) : r[i] = q[i]
      /\ r[Len(q) + 1] = m
  OBVIOUS
<1>2. \A i \in DOMAIN r : i \in DOMAIN q \/ r[i] = m
  BY <1>1
<1>3. Len(q) + 1 \in DOMAIN r /\ DOMAIN q \subseteq DOMAIN r
  BY <1>1
<1> QED
  BY <1>1, <1>2, <1>3 DEF HasAnswer

\* The first answer is taken.
LEMMA AnswerTaken ==
  ASSUME NEW q \in Seq(DaemonMessages), q # <<>>, NEW r, r = Tail(q), NEW c
  PROVE  HasAnswer(q, c) <=> HasAnswer(r, c) \/ (Head(q).type = "response" /\ Head(q).call = c)
<1>1. /\ Len(q) \in Nat \ {0} /\ DOMAIN q = 1..Len(q) /\ DOMAIN r = 1..Len(q) - 1
      /\ \A i \in 1..Len(q) - 1 : r[i] = q[i + 1]
      /\ Head(q) = q[1]
  OBVIOUS
<1>2. ASSUME NEW i \in DOMAIN q
      PROVE  i = 1 \/ \E k \in DOMAIN r : r[k] = q[i]
  <2>1. i # 1 => i - 1 \in DOMAIN r /\ r[i - 1] = q[i]
    BY <1>1
  <2> QED
    BY <2>1
<1>3. \A k \in DOMAIN r : k + 1 \in DOMAIN q /\ r[k] = q[k + 1]
  BY <1>1
<1>4. 1 \in DOMAIN q
  BY <1>1
<1> QED
  BY <1>1, <1>2, <1>3, <1>4 DEF HasAnswer

\* What a message behind the others adds.
LEMMA CardAdded ==
  ASSUME NEW q \in Seq(PanelMessages), NEW m \in PanelMessages, NEW r, r = Append(q, m)
  PROVE  /\ Len(q) \in Nat /\ Len(q) + 1 \in DOMAIN r /\ r[Len(q) + 1] = m
         /\ \A i \in DOMAIN q : i \in DOMAIN r /\ r[i] = q[i]
         /\ \A i \in DOMAIN r : i = Len(q) + 1 \/ (i \in DOMAIN q /\ i < Len(q) + 1)
<1>1. /\ Len(q) \in Nat /\ DOMAIN q = 1..Len(q) /\ DOMAIN r = 1..Len(q) + 1
      /\ \A i \in 1..Len(q) : r[i] = q[i]
      /\ r[Len(q) + 1] = m
  OBVIOUS
<1> QED
  BY <1>1

\* Requests and cancellations are told apart, and whom they are about.
LEMMA CardMessages ==
  ASSUME NEW c, NEW d
  PROVE  /\ RequestCard(c) # CancelCard(d)
         /\ RequestCard(c).call = c /\ CancelCard(c).call = c
         /\ RequestCard(c).type = "request" /\ CancelCard(c).type = "cancelled"
BY DEF RequestCard, CancelCard

LEMMA MessageIs ==
  ASSUME NEW m \in PanelMessages
  PROVE  m.call \in Calls /\ (m = RequestCard(m.call) \/ m = CancelCard(m.call))
BY DEF PanelMessages, RequestCard, CancelCard

-----------------------------------------------------------------------------
\* A step that changes nothing about the card of one call in one panel, or ends a call
\* that is no longer pending.
SameCard(p, c) ==
  /\ c \in cards'[p] <=> c \in cards[p]
  /\ Answered(p, c)' => Answered(p, c)
  /\ Answered(p, c) => Answered(p, c)' \/ ~Shows(p, c) \/ stage[c] # "pending"
  /\ up'[p] = up[p] /\ conn'[p] = conn[p] /\ allowed'[c] = allowed[c]
  /\ \/ stage'[c] = stage[c]
     \/ stage[c] # "pending" /\ stage'[c] \notin {"new", "requesting", "pending"}

LEMMA CardStays ==
  ASSUME NEW p \in Panels, NEW c \in Calls, CardOf(p, c), SameCard(p, c), toPanel'[p] = toPanel[p]
  PROVE  CardOf(p, c)'
<1>1. OnItsWay(p, RequestCard(c))' <=> OnItsWay(p, RequestCard(c))
  BY DEF OnItsWay, RequestCard
<1>2. OnItsWay(p, CancelCard(c))' <=> OnItsWay(p, CancelCard(c))
  BY DEF OnItsWay, CancelCard
<1>3. InOrder(toPanel[p], c)'
  BY DEF CardOf, InOrder, RequestCard, CancelCard
<1>4. Shows(p, c)' <=> Shows(p, c)
  BY DEF Shows, SameCard
<1>5. Unasked(p, c) => Unasked(p, c)'
  BY <1>1, <1>2 DEF Unasked, SameCard
<1>6. Shows(p, c)' => Matches(p, c)'
  BY <1>1, <1>2, <1>4 DEF CardOf, Matches, SameCard
<1>7. \A n \in Nat : <<p, n>> \in allowed'[c] => n <= conn'[p] /\ stage'[c] # "new"
  BY DEF CardOf, SameCard
<1> QED
  BY <1>1, <1>2, <1>3, <1>5, <1>6, <1>7 DEF CardOf, SameCard

\* A message about another call.
LEMMA OtherCardSent ==
  ASSUME TypeOK, NEW p \in Panels, NEW c \in Calls, CardOf(p, c), SameCard(p, c),
         NEW m \in PanelMessages, m.call # c, toPanel'[p] = Append(toPanel[p], m)
  PROVE  CardOf(p, c)'
<1>0. PICK q, r : q = toPanel[p] /\ r = toPanel'[p]
  OBVIOUS
<1>a. q \in Seq(PanelMessages) /\ r = Append(q, m)
  BY <1>0 DEF TypeOK
<1>b. m # RequestCard(c) /\ m # CancelCard(c)
  BY CardMessages
<1>c. /\ \A i \in DOMAIN q : i \in DOMAIN r /\ r[i] = q[i]
      /\ \A i \in DOMAIN r : r[i] = m \/ (i \in DOMAIN q /\ r[i] = q[i])
  BY <1>a, CardAdded
<1>1. OnItsWay(p, RequestCard(c))' <=> OnItsWay(p, RequestCard(c))
  BY <1>0, <1>b, <1>c DEF OnItsWay, RequestCard
<1>2. OnItsWay(p, CancelCard(c))' <=> OnItsWay(p, CancelCard(c))
  BY <1>0, <1>b, <1>c DEF OnItsWay, CancelCard
<1>3. InOrder(toPanel[p], c)'
  <2>1. InOrder(q, c)
    BY <1>0 DEF CardOf
  <2>2. InOrder(r, c)
    BY <1>b, <1>c, <2>1 DEF InOrder
  <2> QED
    BY <1>0, <2>2 DEF InOrder, RequestCard, CancelCard
<1>4. Shows(p, c)' <=> Shows(p, c)
  BY DEF Shows, SameCard
<1>5. Unasked(p, c) => Unasked(p, c)'
  BY <1>1, <1>2 DEF Unasked, SameCard
<1>6. Shows(p, c)' => Matches(p, c)'
  BY <1>1, <1>2, <1>4 DEF CardOf, Matches, SameCard
<1>7. \A n \in Nat : <<p, n>> \in allowed'[c] => n <= conn'[p] /\ stage'[c] # "new"
  BY DEF CardOf, SameCard
<1> QED
  BY <1>1, <1>2, <1>3, <1>5, <1>6, <1>7 DEF CardOf, SameCard

\* The card is cancelled in every panel that shows it.
LEMMA CardCancelled ==
  ASSUME TypeOK, NEW p \in Panels, NEW c \in Calls, CardOf(p, c), stage[c] = "pending",
         stage'[c] \notin {"new", "requesting", "pending"},
         UNCHANGED <<cards, up, conn, allowed>>, Answered(p, c)' => Answered(p, c),
         toPanel'[p] = IF Shows(p, c) THEN Append(toPanel[p], CancelCard(c)) ELSE toPanel[p]
  PROVE  CardOf(p, c)'
<1>0. PICK q, r : q = toPanel[p] /\ r = toPanel'[p]
  OBVIOUS
<1>1. q \in Seq(PanelMessages) /\ CancelCard(c) \in PanelMessages
  BY <1>0 DEF TypeOK, CancelCard, PanelMessages
<1>2. /\ \A i \in DOMAIN r : r[i] = CancelCard(c) \/ (i \in DOMAIN q /\ r[i] = q[i])
      /\ Shows(p, c) => \E i \in DOMAIN r : r[i] = CancelCard(c)
  <2>1. CASE Shows(p, c)
    BY <1>0, <1>1, <2>1, CardAdded
  <2>2. CASE ~Shows(p, c)
    BY <1>0, <2>2
  <2> QED
    BY <2>1, <2>2
<1>3. RequestCard(c) # CancelCard(c)
  BY CardMessages
<1>4. OnItsWay(p, RequestCard(c))' => OnItsWay(p, RequestCard(c))
  BY <1>0, <1>2, <1>3 DEF OnItsWay, RequestCard
<1>5. Shows(p, c)' => Shows(p, c) /\ OnItsWay(p, CancelCard(c))'
  BY <1>0, <1>2 DEF Shows, OnItsWay, CancelCard
<1>6. InOrder(r, c)
  <2>1. InOrder(q, c) /\ \A i \in DOMAIN q : q[i] # CancelCard(c)
    BY <1>0 DEF CardOf, OnItsWay
  <2>2. CASE Shows(p, c)
    <3>1. /\ Len(q) \in Nat
          /\ \A i \in DOMAIN r : i = Len(q) + 1 \/ (i \in DOMAIN q /\ i < Len(q) + 1)
          /\ r[Len(q) + 1] = CancelCard(c)
          /\ \A i \in DOMAIN q : r[i] = q[i]
      BY <1>0, <1>1, <2>2, CardAdded
    <3> SUFFICES ASSUME NEW i \in DOMAIN r, NEW j \in DOMAIN r, r[i] = RequestCard(c)
                 PROVE  (r[j] = RequestCard(c) => i = j) /\ (r[j] = CancelCard(c) => i < j)
      BY DEF InOrder
    <3>2. i \in DOMAIN q /\ q[i] = RequestCard(c) /\ i < Len(q) + 1
      BY <1>3, <3>1
    <3>3. r[j] = RequestCard(c) => j \in DOMAIN q /\ q[j] = RequestCard(c)
      BY <1>3, <3>1
    <3>4. r[j] = CancelCard(c) => j = Len(q) + 1
      BY <2>1, <3>1
    <3> QED
      BY <2>1, <3>2, <3>3, <3>4 DEF InOrder
  <2>3. CASE ~Shows(p, c)
    BY <1>0, <2>1, <2>3
  <2> QED
    BY <2>2, <2>3
<1>7. InOrder(toPanel[p], c)'
  BY <1>0, <1>6 DEF InOrder, RequestCard, CancelCard
<1>8. \A n \in Nat : <<p, n>> \in allowed'[c] => n <= conn'[p] /\ stage'[c] # "new"
  BY DEF CardOf
<1>9. Shows(p, c)' => Matches(p, c)'
  BY <1>5 DEF Matches
<1> QED
  BY <1>4, <1>7, <1>8, <1>9 DEF CardOf

-----------------------------------------------------------------------------
\* What happens to one call.
LEMMA CallCards ==
  ASSUME ApprovalAssumption, TypeOK, CardInv, NEW d \in Calls, CallNext(d)
  PROVE  CardInv'
<1> SUFFICES ASSUME NEW p \in Panels, NEW c \in Calls PROVE CardOf(p, c)'
  BY DEF CardInv
<1>0. CardOf(p, c)
  BY DEF CardInv
<1>1. UNCHANGED <<cards, up, conn, toDaemon>>
  BY DEF CallNext, AuthorizeAtOnce, RefuseRequest, RequestDecision, PresentCards, Cancel,
         AuditSaved, AuditFails, Dispatch, DispatchRefused, ExpireGrant, panelVars
<1>2. Answered(p, c)' <=> Answered(p, c)
  BY <1>1 DEF Answered
<1>3. \/ UNCHANGED toPanel
      \/ \E m \in {RequestCard(d), CancelCard(d)} : SendTo(Panels, d, m)
  BY DEF CallNext, AuthorizeAtOnce, RefuseRequest, RequestDecision, PresentCards, Cancel, Notify,
         AuditSaved, AuditFails, Dispatch, DispatchRefused, ExpireGrant
<1>4. CASE c # d
  <2>1. stage'[c] = stage[c] /\ allowed'[c] = allowed[c]
    BY <1>4 DEF CallNext, AuthorizeAtOnce, RefuseRequest, RequestDecision, PresentCards, Cancel, To,
           AuditSaved, AuditFails, Dispatch, DispatchRefused, ExpireGrant, TypeOK
  <2>2. SameCard(p, c)
    BY <1>1, <1>2, <2>1 DEF SameCard
  <2>3. CASE toPanel'[p] = toPanel[p]
    BY <1>0, <2>2, <2>3, CardStays
  <2>4. CASE toPanel'[p] # toPanel[p]
    <3>1. PICK m \in {RequestCard(d), CancelCard(d)} : toPanel'[p] = Append(toPanel[p], m)
      BY <1>3, <2>4 DEF SendTo
    <3>2. m \in PanelMessages /\ m.call # c
      BY <1>4 DEF RequestCard, CancelCard, PanelMessages
    <3> QED
      BY <1>0, <2>2, <3>1, <3>2, OtherCardSent
  <2> QED
    BY <2>3, <2>4
<1>5. CASE c = d
  <2>1. ASSUME UNCHANGED <<toPanel, allowed>>,
               \/ stage' = stage
               \/ stage[c] # "pending" /\ stage'[c] \notin {"new", "requesting", "pending"}
        PROVE  CardOf(p, c)'
    <3>1. SameCard(p, c)
      BY <1>1, <1>2, <2>1 DEF SameCard
    <3> QED
      BY <1>0, <2>1, <3>1, CardStays
  <2>2. CASE \/ AuthorizeAtOnce(c) \/ RefuseRequest(c) \/ AuditSaved(c) \/ AuditFails(c)
             \/ Dispatch(c) \/ DispatchRefused(c) \/ ExpireGrant(c)
    <3>1. UNCHANGED <<toPanel, allowed>>
      BY <2>2 DEF AuthorizeAtOnce, RefuseRequest, AuditSaved, AuditFails, Dispatch, DispatchRefused,
                  ExpireGrant, panelVars
    <3>2. \/ stage' = stage
          \/ stage[c] # "pending" /\ stage'[c] \notin {"new", "requesting", "pending"}
      BY <2>2 DEF AuthorizeAtOnce, RefuseRequest, AuditSaved, AuditFails, Dispatch, DispatchRefused,
                  ExpireGrant, To, TypeOK
    <3> QED
      BY <2>1, <3>1, <3>2
  <2>3. CASE RequestDecision(c)
    <3>1. stage[c] = "new" /\ stage'[c] = "requesting" /\ toPanel' = toPanel
      BY <2>3 DEF RequestDecision, To, TypeOK
    <3>2. Unasked(p, c)
      BY <1>0, <3>1 DEF CardOf
    <3>3. Unasked(p, c)'
      BY <1>1, <1>2, <3>1, <3>2 DEF Unasked, OnItsWay, RequestCard, CancelCard
    <3>4. \A n \in Nat : <<p, n>> \in allowed'[c] => n <= conn'[p]
      <4>1. allowed'[c] = OpenSockets
        BY <2>3 DEF RequestDecision, TypeOK
      <4>2. \A n : <<p, n>> \in OpenSockets => conn[p] = n
        BY DEF OpenSockets, Sockets
      <4>3. conn[p] \in Nat
        BY DEF TypeOK
      <4> QED
        BY <1>1, <4>1, <4>2, <4>3
    <3>5. InOrder(toPanel[p], c)'
      BY <1>0, <3>1 DEF CardOf, InOrder, RequestCard, CancelCard
    <3>6. Matches(p, c)'
      BY <3>1, <3>3 DEF Matches, Unasked
    <3> QED
      BY <3>1, <3>3, <3>4, <3>5, <3>6 DEF CardOf, Unasked
  <2>4. CASE PresentCards(c)
    <3>1. CASE AbortedEarly(c)
      <4>1. UNCHANGED <<toPanel, allowed>> /\ stage[c] = "requesting" /\ stage'[c] = "ended"
        BY <2>4, <3>1 DEF PresentCards, To, TypeOK
      <4> QED
        BY <2>1, <4>1
    <3>2. CASE ~AbortedEarly(c)
      <4>1. /\ stage[c] = "requesting" /\ stage'[c] = "pending" /\ allowed' = allowed
            /\ toPanel'[p] = IF Shows(p, c) THEN Append(toPanel[p], RequestCard(c)) ELSE toPanel[p]
        BY <2>4, <3>2 DEF PresentCards, SendTo, To, TypeOK
      <4>2. Unasked(p, c)
        BY <1>0, <4>1 DEF CardOf
      <4>3. PICK q, r : q = toPanel[p] /\ r = toPanel'[p]
        OBVIOUS
      <4>4. /\ \A i \in DOMAIN q : q[i] # RequestCard(c) /\ q[i] # CancelCard(c)
            /\ RequestCard(c) # CancelCard(c)
        BY <4>2, <4>3, CardMessages DEF Unasked, OnItsWay
      <4>5. q \in Seq(PanelMessages) /\ RequestCard(c) \in PanelMessages
        BY <4>3 DEF TypeOK, RequestCard, PanelMessages
      <4>6. \A n \in Nat : <<p, n>> \in allowed'[c] => n <= conn'[p] /\ stage'[c] # "new"
        BY <1>0, <1>1, <4>1 DEF CardOf
      <4>7. CASE Shows(p, c)
        <5>1. /\ Len(q) + 1 \in DOMAIN r /\ r[Len(q) + 1] = RequestCard(c)
              /\ \A i \in DOMAIN r : i = Len(q) + 1 \/ (i \in DOMAIN q /\ r[i] = q[i])
          BY <4>1, <4>3, <4>5, <4>7, CardAdded
        <5>2. InOrder(r, c)
          BY <4>4, <5>1 DEF InOrder
        <5>3. \A i \in DOMAIN r : r[i] # CancelCard(c)
          BY <4>4, <5>1
        <5>4. OnItsWay(p, RequestCard(c))' /\ ~OnItsWay(p, CancelCard(c))'
          BY <4>3, <5>1, <5>3 DEF OnItsWay, RequestCard, CancelCard
        <5>5. InOrder(toPanel[p], c)'
          BY <4>3, <5>2 DEF InOrder, RequestCard, CancelCard
        <5>6. c \notin cards'[p] /\ ~Answered(p, c)'
          BY <1>1, <1>2, <4>2 DEF Unasked
        <5> QED
          BY <4>1, <4>6, <5>4, <5>5, <5>6 DEF CardOf, Matches
      <4>8. CASE ~Shows(p, c)
        <5>1. Unasked(p, c)' /\ ~Shows(p, c)'
          BY <1>1, <1>2, <4>1, <4>2, <4>8 DEF Unasked, OnItsWay, Shows, RequestCard, CancelCard
        <5>2. InOrder(toPanel[p], c)'
          BY <1>0, <4>1, <4>8 DEF CardOf, InOrder, RequestCard, CancelCard
        <5> QED
          BY <4>1, <4>6, <5>1, <5>2 DEF CardOf, Unasked
      <4> QED
        BY <4>7, <4>8
    <3> QED
      BY <3>1, <3>2
  <2>5. CASE Cancel(c)
    <3>1. CASE stage[c] = "pending"
      <4>1. /\ stage'[c] = "ended" /\ allowed' = allowed
            /\ toPanel'[p] = IF Shows(p, c) THEN Append(toPanel[p], CancelCard(c)) ELSE toPanel[p]
        BY <2>5, <3>1 DEF Cancel, Notify, SendTo, To, TypeOK
      <4> QED
        BY <1>0, <1>1, <1>2, <3>1, <4>1, CardCancelled
    <3>2. CASE stage[c] # "pending"
      BY <2>1, <2>5, <3>2 DEF Cancel
    <3> QED
      BY <3>1, <3>2
  <2> QED
    BY <1>5, <2>2, <2>3, <2>4, <2>5 DEF CallNext
<1> QED
  BY <1>4, <1>5

-----------------------------------------------------------------------------
\* The daemon takes a message of a panel.
LEMMA ResponseCards ==
  ASSUME ApprovalAssumption, TypeOK, CardInv, NEW o \in Panels, ReceiveResponse(o)
  PROVE  CardInv'
<1> SUFFICES ASSUME NEW p \in Panels, NEW c \in Calls PROVE CardOf(p, c)'
  BY DEF CardInv
<1>0. CardOf(p, c)
  BY DEF CardInv
<1>1. UNCHANGED <<cards, up, conn, allowed>> /\ TakeMessage(o)
  BY DEF ReceiveResponse, panelVars
<1>2. PICK m : m = Head(toDaemon[o])
  OBVIOUS
<1>3. /\ toDaemon[o] \in Seq(DaemonMessages) /\ toDaemon[o] # <<>>
      /\ m.type = "response" /\ m.call \in Calls
  BY <1>2, ReceivedTyped DEF ReceiveResponse, Received
<1>4. Answered(p, c) <=> Answered(p, c)' \/ (p = o /\ c = m.call)
  <2>1. CASE p = o
    <3>1. toDaemon'[p] = Tail(toDaemon[p])
      BY <1>1, <2>1 DEF TakeMessage, TypeOK
    <3>2. PICK q, r : q = toDaemon[p] /\ r = toDaemon'[p]
      OBVIOUS
    <3>3. q \in Seq(DaemonMessages) /\ q # <<>> /\ r = Tail(q) /\ m = Head(q)
      BY <1>2, <1>3, <2>1, <3>1, <3>2
    <3>4. HasAnswer(q, c) <=> HasAnswer(r, c) \/ (m.type = "response" /\ m.call = c)
      BY <3>3, AnswerTaken
    <3> QED
      BY <1>3, <2>1, <3>2, <3>4 DEF Answered, HasAnswer
  <2>2. CASE p # o
    <3>1. toDaemon'[p] = toDaemon[p]
      BY <1>1, <2>2 DEF TakeMessage, TypeOK
    <3> QED
      BY <2>2, <3>1 DEF Answered
  <2> QED
    BY <2>1, <2>2
<1>5. CASE ~Admissible(o, m.call)
  <2>1. UNCHANGED <<stage, toPanel>>
    BY <1>2, <1>5 DEF ReceiveResponse
  <2>2. p = o /\ c = m.call => ~Shows(p, c) \/ stage[c] # "pending"
    BY <1>5 DEF Admissible
  <2>3. SameCard(p, c)
    BY <1>1, <1>4, <2>1, <2>2 DEF SameCard
  <2> QED
    BY <1>0, <2>1, <2>3, CardStays
<1>6. CASE Admissible(o, m.call)
  <2>1. Resolve(o, m.call, m.decision)
    BY <1>2, <1>6 DEF ReceiveResponse
  <2>2. \E s \in {"denying", "ended", "granting", "approving"} : stage' = [stage EXCEPT ![m.call] = s]
    BY <2>1 DEF Resolve, To
  <2>3. toPanel'[p] = IF p # o /\ Shows(p, m.call) THEN Append(toPanel[p], CancelCard(m.call))
                      ELSE toPanel[p]
    BY <2>1 DEF Resolve, Notify, SendTo
  <2>4. stage[m.call] = "pending" /\ Shows(o, m.call)
    BY <1>6 DEF Admissible
  <2>5. CASE c # m.call
    <3>1. stage'[c] = stage[c]
      BY <2>2, <2>5 DEF TypeOK
    <3>2. SameCard(p, c)
      BY <1>1, <1>4, <2>5, <3>1 DEF SameCard
    <3>3. CASE toPanel'[p] = toPanel[p]
      BY <1>0, <3>2, <3>3, CardStays
    <3>4. CASE toPanel'[p] # toPanel[p]
      <4>1. toPanel'[p] = Append(toPanel[p], CancelCard(m.call))
        BY <2>3, <3>4
      <4>2. CancelCard(m.call) \in PanelMessages /\ CancelCard(m.call).call # c
        BY <1>3, <2>5 DEF CancelCard, PanelMessages
      <4> QED
        BY <1>0, <3>2, <4>1, <4>2, OtherCardSent
    <3> QED
      BY <3>3, <3>4
  <2>6. CASE c = m.call /\ p # o
    <3>1. /\ stage[c] = "pending" /\ stage'[c] \notin {"new", "requesting", "pending"}
          /\ toPanel'[p] = IF Shows(p, c) THEN Append(toPanel[p], CancelCard(c)) ELSE toPanel[p]
      BY <1>3, <2>2, <2>3, <2>4, <2>6 DEF TypeOK
    <3> QED
      BY <1>0, <1>1, <1>4, <3>1, CardCancelled
  <2>7. CASE c = m.call /\ p = o
    <3>1. Answered(p, c) /\ c \notin cards[p] /\ ~OnItsWay(p, RequestCard(c))
      BY <1>0, <1>4, <2>7 DEF CardOf
    <3>2. stage'[c] \notin {"new", "requesting", "pending"} /\ toPanel'[p] = toPanel[p]
      BY <1>3, <2>2, <2>3, <2>7 DEF TypeOK
    <3>3. InOrder(toPanel[p], c)' /\ ~OnItsWay(p, RequestCard(c))'
      BY <1>0, <3>1, <3>2 DEF CardOf, InOrder, OnItsWay, RequestCard, CancelCard
    <3>4. \A n \in Nat : <<p, n>> \in allowed'[c] => n <= conn'[p] /\ stage'[c] # "new"
      BY <1>0, <1>1, <3>2 DEF CardOf
    <3> QED
      BY <1>1, <3>1, <3>2, <3>3, <3>4 DEF CardOf, Matches
  <2> QED
    BY <2>5, <2>6, <2>7
<1> QED
  BY <1>5, <1>6

\* A panel receives a request or a cancellation.
LEMMA ReceivesCards ==
  ASSUME ApprovalAssumption, TypeOK, CardInv, NEW o \in Panels, PanelReceives(o)
  PROVE  CardInv'
<1> SUFFICES ASSUME NEW p \in Panels, NEW c \in Calls PROVE CardOf(p, c)'
  BY DEF CardInv
<1>0. CardOf(p, c)
  BY DEF CardInv
<1>1. UNCHANGED <<stage, up, conn, allowed, toDaemon>>
  BY DEF PanelReceives, callVars
<1>2. Answered(p, c)' <=> Answered(p, c)
  BY <1>1 DEF Answered
<1>3. CASE p # o
  <2>1. toPanel'[p] = toPanel[p] /\ cards'[p] = cards[p]
    BY <1>3 DEF PanelReceives, TypeOK
  <2>2. SameCard(p, c)
    BY <1>1, <1>2, <2>1 DEF SameCard
  <2> QED
    BY <1>0, <2>1, <2>2, CardStays
<1>4. CASE p = o
  <2>1. PICK q, r, m : q = toPanel[p] /\ r = toPanel'[p] /\ m = Head(toPanel[p])
    OBVIOUS
  <2>2. q \in Seq(PanelMessages) /\ q # <<>> /\ r = Tail(q) /\ m = Head(q)
    BY <1>4, <2>1 DEF PanelReceives, TypeOK
  <2>3. /\ 1 \in DOMAIN q /\ q[1] = m /\ m \in PanelMessages
        /\ \A i \in DOMAIN r : i \in Nat /\ i + 1 \in DOMAIN q /\ 1 < i + 1 /\ r[i] = q[i + 1]
        /\ \A i \in DOMAIN q : i \in Nat /\ (i = 1 \/ (i - 1 \in DOMAIN r /\ r[i - 1] = q[i]))
    BY <2>2
  <2>4. cards'[p] = IF m.type = "request" THEN cards[p] \cup {m.call} ELSE cards[p] \ {m.call}
    BY <1>4, <2>1 DEF PanelReceives, TypeOK
  <2>5. InOrder(q, c)
    BY <1>0, <2>1 DEF CardOf
  <2>6. InOrder(r, c)
    <3> SUFFICES ASSUME NEW i \in DOMAIN r, NEW j \in DOMAIN r, r[i] = RequestCard(c)
                 PROVE  (r[j] = RequestCard(c) => i = j) /\ (r[j] = CancelCard(c) => i < j)
      BY DEF InOrder
    <3>1. i \in Nat /\ j \in Nat /\ i + 1 \in DOMAIN q /\ j + 1 \in DOMAIN q /\ q[i + 1] = RequestCard(c)
      BY <2>3
    <3>2. (q[j + 1] = RequestCard(c) => i + 1 = j + 1) /\ (q[j + 1] = CancelCard(c) => i + 1 < j + 1)
      BY <2>5, <3>1 DEF InOrder
    <3>3. r[j] = q[j + 1]
      BY <2>3
    <3> QED
      BY <3>1, <3>2, <3>3
  <2>7. InOrder(toPanel[p], c)'
    BY <2>1, <2>6 DEF InOrder, RequestCard, CancelCard
  <2>8. /\ OnItsWay(p, RequestCard(c)) <=> OnItsWay(p, RequestCard(c))' \/ m = RequestCard(c)
        /\ OnItsWay(p, CancelCard(c)) <=> OnItsWay(p, CancelCard(c))' \/ m = CancelCard(c)
    <3>1. ASSUME NEW x
          PROVE  (\E i \in DOMAIN q : q[i] = x) <=> (\E i \in DOMAIN r : r[i] = x) \/ m = x
      BY <2>3
    <3> QED
      BY <2>1, <3>1 DEF OnItsWay, RequestCard, CancelCard
  <2>9. Shows(p, c)' <=> Shows(p, c)
    BY <1>1 DEF Shows
  <2>10. /\ \A n \in Nat : <<p, n>> \in allowed'[c] => n <= conn'[p] /\ stage'[c] # "new"
         /\ stage'[c] = stage[c]
    BY <1>0, <1>1 DEF CardOf
  <2>11. CASE m = RequestCard(c)
    <3>1. \A i \in DOMAIN r : r[i] # RequestCard(c)
      <4> SUFFICES ASSUME NEW i \in DOMAIN r, r[i] = RequestCard(c) PROVE FALSE
        OBVIOUS
      <4>1. i + 1 \in DOMAIN q /\ q[i + 1] = RequestCard(c) /\ q[1] = RequestCard(c) /\ 1 \in DOMAIN q
            /\ 1 < i + 1 /\ i \in Nat
        BY <2>3, <2>11
      <4>2. 1 = i + 1
        BY <2>5, <4>1 DEF InOrder
      <4> QED
        BY <4>1, <4>2
    <3>2. ~OnItsWay(p, RequestCard(c))'
      BY <2>1, <3>1 DEF OnItsWay, RequestCard
    <3>3. c \in cards'[p] /\ OnItsWay(p, RequestCard(c)) /\ m # CancelCard(c)
      BY <2>4, <2>8, <2>11, CardMessages
    <3>4. OnItsWay(p, CancelCard(c))' <=> OnItsWay(p, CancelCard(c))
      BY <2>8, <3>3
    <3>5. Shows(p, c)' => Matches(p, c)'
      BY <1>0, <2>9, <2>10, <3>3, <3>4 DEF CardOf, Matches
    <3>6. stage[c] \notin {"new", "requesting"} /\ ~Answered(p, c)
      BY <1>0, <3>3 DEF CardOf, Unasked
    <3> QED
      BY <1>0, <1>2, <2>7, <2>10, <3>2, <3>4, <3>5, <3>6 DEF CardOf
  <2>12. CASE m = CancelCard(c)
    <3>1. \A i \in DOMAIN q : q[i] # RequestCard(c)
      <4> SUFFICES ASSUME NEW i \in DOMAIN q, q[i] = RequestCard(c) PROVE FALSE
        OBVIOUS
      <4>1. 1 \in DOMAIN q /\ q[1] = CancelCard(c) /\ i \in Nat /\ (i = 1 \/ i - 1 \in DOMAIN r)
        BY <2>3, <2>12
      <4>2. i < 1
        BY <2>5, <4>1 DEF InOrder
      <4>3. i = 1 \/ 1 < i
        BY <2>3, <4>1
      <4> QED
        BY <4>1, <4>2, <4>3
    <3>2. ~OnItsWay(p, RequestCard(c)) /\ ~OnItsWay(p, RequestCard(c))'
      BY <2>1, <2>8, <3>1 DEF OnItsWay
    <3>3. c \notin cards'[p] /\ OnItsWay(p, CancelCard(c))
      BY <2>4, <2>8, <2>12 DEF CancelCard
    <3>4. stage[c] \notin {"new", "requesting", "pending"}
      BY <1>0, <3>3 DEF CardOf, Unasked
    <3> QED
      BY <2>7, <2>10, <3>2, <3>3, <3>4 DEF CardOf, Matches
  <2>13. CASE m # RequestCard(c) /\ m # CancelCard(c)
    <3>1. c \in cards'[p] <=> c \in cards[p]
      <4>1. m.call # c
        BY <2>3, <2>13, MessageIs
      <4> QED
        BY <2>4, <4>1
    <3>2. /\ OnItsWay(p, RequestCard(c))' <=> OnItsWay(p, RequestCard(c))
          /\ OnItsWay(p, CancelCard(c))' <=> OnItsWay(p, CancelCard(c))
      BY <2>8, <2>13
    <3>3. Shows(p, c)' => Matches(p, c)'
      BY <1>0, <1>2, <2>9, <2>10, <3>1, <3>2 DEF CardOf, Matches
    <3> QED
      BY <1>0, <1>2, <2>7, <2>10, <3>1, <3>2, <3>3 DEF CardOf, Unasked
  <2> QED
    BY <2>11, <2>12, <2>13
<1> QED
  BY <1>3, <1>4

-----------------------------------------------------------------------------
\* A message of a panel that changes nothing about the card of a call unless it is
\* the answer to it.
LEMMA PanelSaysCards ==
  ASSUME TypeOK, NEW p \in Panels, NEW c \in Calls, NEW o \in Panels, NEW m \in DaemonMessages,
         toDaemon' = [toDaemon EXCEPT ![o] = Append(@, m)]
  PROVE  Answered(p, c)' <=> Answered(p, c) \/ (p = o /\ m.type = "response" /\ m.call = c)
<1>1. CASE p = o
  <2>1. PICK q, r : q = toDaemon[p] /\ r = toDaemon'[p]
    OBVIOUS
  <2>2. q \in Seq(DaemonMessages) /\ r = Append(q, m)
    BY <1>1, <2>1 DEF TypeOK
  <2>3. HasAnswer(r, c) <=> HasAnswer(q, c) \/ (m.type = "response" /\ m.call = c)
    BY <2>2, AnswerAdded
  <2> QED
    BY <1>1, <2>1, <2>3 DEF Answered, HasAnswer
<1>2. CASE p # o
  <2>1. toDaemon'[p] = toDaemon[p]
    BY <1>2 DEF TypeOK
  <2> QED
    BY <1>2, <2>1 DEF Answered
<1> QED
  BY <1>1, <1>2

\* The user decides; the daemon revokes grants, or is asked to.
LEMMA UserCards ==
  ASSUME ApprovalAssumption, TypeOK, CardInv, NEW o \in Panels,
         \/ ReceiveRevoke(o)
         \/ \E d \in Calls, decision \in Decisions : Decide(o, d, decision)
         \/ \E t \in Tasks : RevokeGrants(o, t)
  PROVE  CardInv'
<1> SUFFICES ASSUME NEW p \in Panels, NEW c \in Calls PROVE CardOf(p, c)'
  BY DEF CardInv
<1>0. CardOf(p, c)
  BY DEF CardInv
<1>1. CASE ReceiveRevoke(o)
  <2>1. UNCHANGED <<stage, cards, up, conn, allowed, toPanel>> /\ TakeMessage(o)
    BY <1>1 DEF ReceiveRevoke, panelVars
  <2>2. Answered(p, c)' <=> Answered(p, c)
    <3>1. toDaemon[o] # <<>> /\ Head(toDaemon[o]).type = "revoke"
      BY <1>1 DEF ReceiveRevoke, Received
    <3>2. CASE p = o
      <4>1. PICK q, r : q = toDaemon[p] /\ r = toDaemon'[p]
        OBVIOUS
      <4>2. q \in Seq(DaemonMessages) /\ q # <<>> /\ r = Tail(q) /\ Head(q).type # "response"
        BY <2>1, <3>1, <3>2, <4>1 DEF TakeMessage, TypeOK
      <4>3. HasAnswer(q, c) <=> HasAnswer(r, c)
        BY <4>2, AnswerTaken
      <4> QED
        BY <4>1, <4>3 DEF Answered, HasAnswer
    <3>3. CASE p # o
      <4>1. toDaemon'[p] = toDaemon[p]
        BY <2>1, <3>3 DEF TakeMessage, TypeOK
      <4> QED
        BY <4>1 DEF Answered
    <3> QED
      BY <3>2, <3>3
  <2>3. SameCard(p, c)
    BY <2>1, <2>2 DEF SameCard
  <2> QED
    BY <1>0, <2>1, <2>3, CardStays
<1>2. ASSUME NEW t \in Tasks, RevokeGrants(o, t)
      PROVE  CardOf(p, c)'
  <2>1. UNCHANGED <<stage, cards, up, conn, allowed, toPanel>>
    BY <1>2 DEF RevokeGrants, callVars
  <2>2. RevokeTask(t) \in DaemonMessages /\ RevokeTask(t).type # "response"
    BY DEF RevokeTask, DaemonMessages
  <2>3. toDaemon' = [toDaemon EXCEPT ![o] = Append(@, RevokeTask(t))]
    BY <1>2 DEF RevokeGrants
  <2>4. Answered(p, c)' <=> Answered(p, c)
    <3>1. PICK m : m = RevokeTask(t)
      OBVIOUS
    <3>2. m \in DaemonMessages /\ m.type # "response" /\ toDaemon' = [toDaemon EXCEPT ![o] = Append(@, m)]
      BY <2>2, <2>3, <3>1
    <3> QED
      BY <3>2, PanelSaysCards
  <2>5. SameCard(p, c)
    BY <2>1, <2>4 DEF SameCard
  <2> QED
    BY <1>0, <2>1, <2>5, CardStays
<1>3. ASSUME NEW d \in Calls, NEW decision \in Decisions, Decide(o, d, decision)
      PROVE  CardOf(p, c)'
  <2>1. UNCHANGED <<stage, up, conn, allowed, toPanel>>
    BY <1>3 DEF Decide, callVars
  <2>2. d \in cards[o] /\ cards' = [cards EXCEPT ![o] = @ \ {d}]
    BY <1>3 DEF Decide
  <2>3. /\ Response(d, decision) \in DaemonMessages
        /\ Response(d, decision).type = "response" /\ Response(d, decision).call = d
    BY DEF Response, DaemonMessages
  <2>4. toDaemon' = [toDaemon EXCEPT ![o] = Append(@, Response(d, decision))]
    BY <1>3 DEF Decide
  <2>5. Answered(p, c)' <=> Answered(p, c) \/ (p = o /\ c = d)
    <3> HIDE DEF Response
    <3> QED
      BY <2>3, <2>4, PanelSaysCards
  <2>6. CASE p # o \/ c # d
    <3>1. c \in cards'[p] <=> c \in cards[p]
      BY <2>2, <2>6 DEF TypeOK
    <3>2. SameCard(p, c)
      BY <2>1, <2>5, <2>6, <3>1 DEF SameCard
    <3> QED
      BY <1>0, <2>1, <3>2, CardStays
  <2>7. CASE p = o /\ c = d
    <3>1. c \in cards[p] /\ c \notin cards'[p]
      BY <2>2, <2>7 DEF TypeOK
    <3>2. ~OnItsWay(p, RequestCard(c)) /\ stage[c] \notin {"new", "requesting"}
      BY <1>0, <3>1 DEF CardOf, Unasked
    <3>3. ~OnItsWay(p, RequestCard(c))' /\ InOrder(toPanel[p], c)'
      BY <1>0, <2>1, <3>2 DEF CardOf, OnItsWay, InOrder, RequestCard, CancelCard
    <3>4. OnItsWay(p, CancelCard(c))' <=> OnItsWay(p, CancelCard(c))
      BY <2>1 DEF OnItsWay, CancelCard
    <3>5. \A n \in Nat : <<p, n>> \in allowed'[c] => n <= conn'[p] /\ stage'[c] # "new"
      BY <1>0, <2>1 DEF CardOf
    <3>6. Matches(p, c)'
      BY <2>5, <2>7, <3>1, <3>3 DEF Matches
    <3> QED
      BY <1>0, <2>1, <3>1, <3>2, <3>3, <3>4, <3>5, <3>6 DEF CardOf
  <2> QED
    BY <2>6, <2>7
<1> QED
  BY <1>1, <1>2, <1>3

\* A connection comes or goes, and with it what was on the wire.
LEMMA ConnectionCards ==
  ASSUME ApprovalAssumption, TypeOK, CardInv, NEW o \in Panels,
         Connect(o) \/ Disconnect(o) \/ ClosePanel(o)
  PROVE  CardInv'
<1> SUFFICES ASSUME NEW p \in Panels, NEW c \in Calls PROVE CardOf(p, c)'
  BY DEF CardInv
<1>0. CardOf(p, c)
  BY DEF CardInv
<1>1. UNCHANGED <<stage, allowed>>
  BY DEF Connect, Disconnect, ClosePanel, callVars
<1>2. CASE p # o
  <2>1. /\ toPanel'[p] = toPanel[p] /\ toDaemon'[p] = toDaemon[p] /\ cards'[p] = cards[p]
        /\ up'[p] = up[p] /\ conn'[p] = conn[p]
    BY <1>2 DEF Connect, Disconnect, ClosePanel, TypeOK
  <2>2. Answered(p, c)' <=> Answered(p, c)
    BY <2>1 DEF Answered
  <2>3. SameCard(p, c)
    BY <1>1, <2>1, <2>2 DEF SameCard
  <2> QED
    BY <1>0, <2>1, <2>3, CardStays
<1>3. CASE p = o /\ Connect(o)
  <2>1. /\ toPanel'[p] = toPanel[p] /\ UNCHANGED <<toDaemon, cards>>
        /\ conn'[p] = conn[p] + 1 /\ conn[p] \in Nat
    BY <1>3 DEF Connect, TypeOK
  <2>2. ~Shows(p, c)'
    <3>1. \A n \in Nat : <<p, n>> \in allowed[c] => n <= conn[p]
      BY <1>0 DEF CardOf
    <3>2. <<p, conn[p] + 1>> \notin allowed[c]
      BY <2>1, <3>1
    <3> QED
      BY <1>1, <2>1, <3>2 DEF Shows
  <2>3. Answered(p, c)' <=> Answered(p, c)
    BY <2>1 DEF Answered
  <2>4. /\ OnItsWay(p, RequestCard(c))' <=> OnItsWay(p, RequestCard(c))
        /\ OnItsWay(p, CancelCard(c))' <=> OnItsWay(p, CancelCard(c))
        /\ InOrder(toPanel[p], c)'
    BY <1>0, <2>1 DEF CardOf, OnItsWay, InOrder, RequestCard, CancelCard
  <2>5. \A n \in Nat : <<p, n>> \in allowed'[c] => n <= conn'[p] /\ stage'[c] # "new"
    BY <1>0, <1>1, <2>1 DEF CardOf
  <2> QED
    BY <1>0, <1>1, <2>1, <2>2, <2>3, <2>4, <2>5 DEF CardOf, Unasked
<1>4. CASE p = o /\ (Disconnect(o) \/ ClosePanel(o))
  <2>1. /\ ~up'[p] /\ toPanel'[p] = <<>> /\ toDaemon'[p] = <<>> /\ conn' = conn
        /\ cards'[p] = cards[p] \/ cards'[p] = {}
    BY <1>4 DEF Disconnect, ClosePanel, TypeOK
  <2>2. ~Answered(p, c)' /\ ~OnItsWay(p, RequestCard(c))' /\ ~OnItsWay(p, CancelCard(c))'
        /\ InOrder(toPanel[p], c)' /\ ~Shows(p, c)'
    BY <2>1 DEF Answered, OnItsWay, InOrder, Shows
  <2>3. c \in cards'[p] => c \in cards[p]
    BY <2>1
  <2>4. \A n \in Nat : <<p, n>> \in allowed'[c] => n <= conn'[p] /\ stage'[c] # "new"
    BY <1>0, <1>1, <2>1 DEF CardOf
  <2> QED
    BY <1>0, <1>1, <2>2, <2>3, <2>4 DEF CardOf, Unasked
<1> QED
  BY <1>2, <1>3, <1>4

LEMMA CardsKept ==
  ASSUME ApprovalAssumption, TypeOK, CardInv, [Next]_vars
  PROVE  CardInv'
<1>1. CASE Navigate \/ UNCHANGED vars
  <2>1. UNCHANGED <<stage, cards, up, conn, allowed, toPanel, toDaemon>>
    BY <1>1 DEF Navigate, vars, callVars, panelVars
  <2> SUFFICES ASSUME NEW p \in Panels, NEW c \in Calls PROVE CardOf(p, c)'
    BY DEF CardInv
  <2>2. CardOf(p, c) /\ SameCard(p, c) /\ toPanel'[p] = toPanel[p]
    BY <2>1 DEF CardInv, SameCard, Answered
  <2> QED
    BY <2>2, CardStays
<1>2. ASSUME NEW c \in Calls, CallNext(c)
      PROVE  CardInv'
  BY <1>2, CallCards
<1>3. ASSUME NEW p \in Panels, PanelNext(p)
      PROVE  CardInv'
  BY <1>3, ResponseCards, ReceivesCards, UserCards, ConnectionCards DEF PanelNext
<1> QED
  BY <1>1, <1>2, <1>3 DEF Next

\* On a connection that lasts, the cards of a panel and the approvals that the daemon
\* waits for differ only by what is on its way (mcpBridge.ts, wsServer.ts), however
\* many panels answer, close or lose their connection.
THEOREM CardsStayTrue == ApprovalAssumption => (Spec => []CardsMatch)
<1>1. Init => CardInv
  BY DEF Init, CardInv, CardOf, Unasked, Answered, OnItsWay, InOrder, Shows
<1>2. ASSUME ApprovalAssumption
      PROVE  Spec => []CardsMatch
  <2>1. Spec => []TypeOK
    BY <1>2, ApprovalTyped
  <2>2. TypeOK /\ CardInv /\ [Next]_vars => CardInv'
    BY <1>2, CardsKept
  <2>3. CardInv => CardsMatch
    BY DEF CardInv, CardOf, Matches, CardsMatch
  <2> QED
    BY <1>1, <2>1, <2>2, <2>3, PTL DEF Spec
<1> QED
  BY <1>2

\* When the daemon has handled the revocation of a task, the next call of the task asks
\* again (revokeTaskGrants, approvalModeNeedsDecision).
THEOREM RevocationHolds == ApprovalAssumption => (Spec => RevokedAsksAgain)
<1>1. ASSUME ApprovalAssumption, TypeOK, [Next]_vars, NEW p \in Panels,
             Received(p, "revoke"), up'[p], toDaemon'[p] = Tail(toDaemon[p]),
             NEW c \in Calls \ Free, TaskOf[c] = Head(toDaemon[p]).task
      PROVE  NeedsDecision(c)'
  <2>1. toDaemon[p] \in Seq(DaemonMessages) /\ toDaemon[p] # <<>> /\ Head(toDaemon[p]).type = "revoke"
    BY <1>1 DEF TypeOK, Received
  <2>2. Len(toDaemon'[p]) = Len(toDaemon[p]) - 1 /\ Len(toDaemon[p]) \in Nat
    BY <1>1, <2>1
  <2>3. toDaemon'[p] # toDaemon[p]
    BY <2>2
  <2>4. ASSUME NEW m PROVE toDaemon'[p] # Append(toDaemon[p], m)
    BY <2>1, <2>2
  <2>5. ReceiveRevoke(p)
    <3>1. ~UNCHANGED toDaemon
      BY <2>3
    <3>2. ~Navigate /\ ~UNCHANGED vars /\ \A d \in Calls : ~CallNext(d)
      BY <3>1 DEF Navigate, vars, CallNext, AuthorizeAtOnce, RefuseRequest, RequestDecision, PresentCards,
                  Cancel, AuditSaved, AuditFails, Dispatch, DispatchRefused, ExpireGrant
    <3>3. PICK o \in Panels : PanelNext(o)
      BY <1>1, <3>2 DEF Next
    <3>4. ~Connect(o) /\ ~PanelReceives(o)
      BY <3>1 DEF Connect, PanelReceives
    <3>5. ~Disconnect(o) /\ ~ClosePanel(o)
      BY <1>1, <2>3 DEF Disconnect, ClosePanel, TypeOK
    <3>a. ASSUME NEW m, toDaemon' = [toDaemon EXCEPT ![o] = Append(@, m)]
          PROVE  FALSE
      <4>1. toDaemon \in [Panels -> Seq(DaemonMessages)]
        BY <1>1 DEF TypeOK
      <4>2. toDaemon'[p] = toDaemon[p] \/ toDaemon'[p] = Append(toDaemon[p], m)
        BY <3>a, <4>1
      <4> QED
        BY <2>3, <2>4, <4>2
    <3>6. \A d \in Calls, decision \in Decisions : ~Decide(o, d, decision)
      BY <3>a DEF Decide
    <3>7. \A t \in Tasks : ~RevokeGrants(o, t)
      BY <3>a DEF RevokeGrants
    <3>8. ~ReceiveResponse(o)
      <4>1. p = o => ~Received(o, "response")
        BY <2>1 DEF Received
      <4>2. p # o => ~TakeMessage(o)
        BY <1>1, <2>3 DEF TakeMessage, TypeOK
      <4> QED
        BY <4>1, <4>2 DEF ReceiveResponse
    <3>9. ReceiveRevoke(o)
      BY <3>3, <3>4, <3>5, <3>6, <3>7, <3>8 DEF PanelNext
    <3>10. p # o => ~TakeMessage(o)
      BY <1>1, <2>3 DEF TakeMessage, TypeOK
    <3> QED
      BY <3>9, <3>10 DEF ReceiveRevoke
  <2>6. \A g \in Calls : TaskOf[g] = TaskOf[c] => grant'[g] # "active"
    BY <1>1, <2>5 DEF ReceiveRevoke, Revoked
  <2> QED
    BY <2>6 DEF NeedsDecision, Matching, SameScope
<1>2. ASSUME ApprovalAssumption
      PROVE  Spec => RevokedAsksAgain
  <2>1. Spec => []TypeOK
    BY <1>2, ApprovalTyped
  <2>2. TypeOK /\ [Next]_vars =>
                  [\A p \in Panels :
                     Received(p, "revoke") /\ up'[p] /\ toDaemon'[p] = Tail(toDaemon[p]) =>
                       \A c \in Calls \ Free :
                         TaskOf[c] = Head(toDaemon[p]).task => NeedsDecision(c)']_vars
    BY <1>1, <1>2
  <2> QED
    BY <2>1, <2>2, PTL DEF Spec, RevokedAsksAgain
<1> QED
  BY <1>2

-----------------------------------------------------------------------------
(* DaemonRuns *)


\* Sequences of messages whose numbers have no bound.
IsQueue(q) == \E S : q \in Seq(S)
\* q is p and behind it one more message.
AddedTo(q, p, m) ==
  /\ IsQueue(q)
  /\ \E n \in DOMAIN q :
       /\ q[n] = m /\ n \in Nat
       /\ \A i \in DOMAIN q : i = n \/ (i \in DOMAIN p /\ q[i] = p[i] /\ i \in Nat /\ i < n)
\* Every message of q is one of p, and in their order.
PartOf(q, p) ==
  /\ IsQueue(q)
  /\ \A i \in DOMAIN q : \E k \in DOMAIN p : q[i] = p[k]

\* A sequence over a set is one over a larger set.
LEMMA SeqOfMore ==
  ASSUME NEW S, NEW T, S \subseteq T, NEW q \in Seq(S)
  PROVE  q \in Seq(T)
BY SeqDef

\* A queue with one more message.
IsMore(q, p, m) == q = Append(p, m) \/ q = p \o <<m>>
LEMMA OneAdded ==
  ASSUME NEW p, IsQueue(p), NEW m, NEW q, IsMore(q, p, m)
  PROVE  AddedTo(q, p, m)
<1>1. PICK S : p \in Seq(S)
  BY DEF IsQueue
<1> DEFINE T == S \cup {m}
<1>2. p \in Seq(T) /\ m \in T
  BY <1>1, SeqOfMore
<1> HIDE DEF T
<1>3. /\ Append(p, m) \in Seq(T) /\ Len(Append(p, m)) = Len(p) + 1
      /\ \A i \in 1..Len(p) : Append(p, m)[i] = p[i]
      /\ Append(p, m)[Len(p) + 1] = m
  BY <1>2, AppendProperties
<1>4. Len(p) \in Nat /\ DOMAIN p = 1..Len(p) /\ DOMAIN Append(p, m) = 1..Len(p) + 1
  BY <1>2, <1>3
<1>5. AddedTo(Append(p, m), p, m)
  <2>1. Len(p) + 1 \in DOMAIN Append(p, m) /\ Len(p) + 1 \in Nat
    BY <1>4
  <2>2. \A i \in DOMAIN Append(p, m) :
          i = Len(p) + 1 \/ (i \in DOMAIN p /\ Append(p, m)[i] = p[i] /\ i \in Nat /\ i < Len(p) + 1)
    BY <1>3, <1>4
  <2> QED
    BY <1>3, <2>1, <2>2 DEF AddedTo, IsQueue
<1>6. p \o <<m>> = Append(p, m)
  BY <1>2, <1>3
<1> QED
  BY <1>5, <1>6 DEF IsMore

\* Two queues one behind the other.
IsJoin(r, p, q) == r = p \o q
LEMMA Joined ==
  ASSUME NEW p, NEW q, IsQueue(p), IsQueue(q), NEW r, IsJoin(r, p, q)
  PROVE  /\ IsQueue(r)
         /\ \A i \in DOMAIN r : (i \in DOMAIN p /\ r[i] = p[i]) \/ (\E k \in DOMAIN q : r[i] = q[k])
<1>0. r = p \o q
  BY DEF IsJoin
<1>1. PICK S : p \in Seq(S)
  BY DEF IsQueue
<1>2. PICK R : q \in Seq(R)
  BY DEF IsQueue
<1> DEFINE T == S \cup R
<1>3. p \in Seq(T) /\ q \in Seq(T)
  BY <1>1, <1>2, SeqOfMore
<1> HIDE DEF T
<1>4. /\ r \in Seq(T) /\ Len(r) = Len(p) + Len(q)
      /\ \A i \in 1..Len(p) + Len(q) : r[i] = IF i <= Len(p) THEN p[i] ELSE q[i - Len(p)]
  BY <1>0, <1>3, ConcatProperties
<1>5. /\ Len(p) \in Nat /\ Len(q) \in Nat /\ DOMAIN p = 1..Len(p) /\ DOMAIN q = 1..Len(q)
      /\ DOMAIN r = 1..Len(p) + Len(q)
  BY <1>3, <1>4
<1>6. ASSUME NEW i \in DOMAIN r
      PROVE  \/ i \in DOMAIN p /\ r[i] = p[i]
             \/ \E k \in DOMAIN q : r[i] = q[k]
  <2>1. CASE i <= Len(p)
    BY <1>4, <1>5, <2>1
  <2>2. CASE ~(i <= Len(p))
    <3>1. i - Len(p) \in DOMAIN q /\ r[i] = q[i - Len(p)]
      BY <1>4, <1>5, <2>2
    <3> QED
      BY <3>1
  <2> QED
    BY <2>1, <2>2
<1> QED
  BY <1>4, <1>6 DEF IsQueue

\* A queue without its first message.
IsRest(q, p) == p # <<>> /\ q = Tail(p)
LEMMA WithoutFirst ==
  ASSUME NEW p, IsQueue(p), NEW q, IsRest(q, p)
  PROVE  /\ IsQueue(q) /\ 1 \in DOMAIN p /\ Head(p) = p[1]
         /\ \A i \in DOMAIN q : i \in Nat /\ i + 1 \in DOMAIN p /\ 1 < i + 1 /\ q[i] = p[i + 1]
<1>0. p # <<>> /\ q = Tail(p)
  BY DEF IsRest
<1>1. PICK S : p \in Seq(S)
  BY DEF IsQueue
<1>2. Len(p) \in Nat /\ Len(p) # 0 /\ DOMAIN p = 1..Len(p) /\ Head(p) = p[1]
  BY <1>0, <1>1, EmptySeq
<1>3. q \in Seq(S) /\ DOMAIN q = 1..Len(p) - 1 /\ \A i \in 1..Len(p) - 1 : q[i] = p[i + 1]
  BY <1>0, <1>1, <1>2
<1>4. ASSUME NEW i \in DOMAIN q
      PROVE  i \in Nat /\ i + 1 \in DOMAIN p /\ 1 < i + 1 /\ q[i] = p[i + 1]
  BY <1>2, <1>3
<1> QED
  BY <1>2, <1>3, <1>4 DEF IsQueue

\* A queue without one of its messages.
LEMMA CutOut ==
  ASSUME NEW p, IsQueue(p), NEW i \in DOMAIN p
  PROVE  PartOf(SubSeq(p, 1, i - 1) \o SubSeq(p, i + 1, Len(p)), p)
<1>1. PICK S : p \in Seq(S)
  BY DEF IsQueue
<1>2. Len(p) \in Nat /\ DOMAIN p = 1..Len(p)
  BY <1>1
<1>0. PICK a, b : a = SubSeq(p, 1, i - 1) /\ b = SubSeq(p, i + 1, Len(p))
  OBVIOUS
<1>3. a \in Seq(S) /\ \A k \in DOMAIN a : k \in DOMAIN p /\ a[k] = p[k]
  BY <1>0, <1>1, <1>2, SubSeqProperties
<1>4. b \in Seq(S) /\ \A k \in DOMAIN b : i + k \in DOMAIN p /\ b[k] = p[i + k]
  BY <1>0, <1>1, <1>2, SubSeqProperties
<1>5. IsQueue(a) /\ IsQueue(b)
  BY <1>3, <1>4 DEF IsQueue
<1>6. PICK r : r = a \o b
  OBVIOUS
<1>7. IsQueue(r) /\ \A k \in DOMAIN r : \E h \in DOMAIN p : r[k] = p[h]
  <2>1. IsQueue(r) /\ \A k \in DOMAIN r : (k \in DOMAIN a /\ r[k] = a[k]) \/ (\E h \in DOMAIN b : r[k] = b[h])
    <3>1. IsQueue(a) /\ IsQueue(b) /\ IsJoin(r, a, b)
      BY <1>5, <1>6 DEF IsJoin
    <3> QED
      BY <3>1, Joined
  <2> QED
    BY <1>3, <1>4, <2>1
<1> QED
  BY <1>0, <1>6, <1>7 DEF PartOf

\* What the panel knows of a run is a record with these fields.
Fields == {"phase", "starting", "timedOut", "cancelling", "cancel", "retry", "prompt"}
IsRun(x) == x = [k \in Fields |-> x[k]]
SettledPhases == Terminal \cup {"rejected"}
Statuses == {None, "running"} \cup Terminal

RunsTyped ==
  /\ IsQueue(outbox) /\ IsQueue(daemonInbox) /\ IsQueue(panelInbox)
  /\ awaits = [r \in Runs |-> awaits[r]] /\ \A r \in Runs : IsRun(awaits[r])
  /\ active \in Runs \cup {None}
  /\ sessions \in [Runs -> Statuses] /\ sessionFile \in [Runs -> Statuses]
  /\ IsFiniteSet({r \in Runs : sessions[r] # None}) /\ IsFiniteSet({r \in Runs : sessionFile[r] # None})

\* Messages are about runs that have begun.
Begun(q) == \A i \in DOMAIN q : q[i].run \in Runs /\ awaits[q[i].run].phase # "idle"
OfTypes(q, types) == \A i \in DOMAIN q : q[i].type \in types
PanelTypes == {"started", "refused", "session", "budget", "cancelling", "not_active"}

\* A run that works no more in the daemon, and will not begin.
Starts(r) == \E i \in DOMAIN daemonInbox : daemonInbox[i].type = "start" /\ daemonInbox[i].run = r
Over(r) == active # r /\ ~Starts(r)

\* The messages that settle a run.
Final(m) == m.type \in {"refused", "not_active"} \/ (m.type \in {"session", "cancelling"} /\ m.value \in Terminal)

\* The invariant behind SettledIsOver.  What the panel may still hear or send:
\* messages are about runs that have begun; a run that has not is nowhere in the
\* daemon; the run that works is running in the hub, and no start of it is under
\* way; a start is behind no other message of its run, so that what the daemon
\* answers to a cancellation still holds when the start is behind it on the wire;
\* and who is told that a run is over is told the truth, however late.
RunsInv ==
  /\ RunsTyped
  /\ Begun(outbox) /\ Begun(daemonInbox) /\ Begun(panelInbox)
  /\ OfTypes(outbox, {"cancel", "decision"}) /\ OfTypes(daemonInbox, {"start", "cancel", "decision"})
  /\ OfTypes(panelInbox, PanelTypes)
  /\ \A r \in Runs : awaits[r].phase = "idle" => active # r /\ sessions[r] = None /\ sessionFile[r] = None
  /\ active # None => sessions[active] = "running" /\ ~Starts(active)
  /\ question # 0 => active # None
  /\ \A h, i \in DOMAIN daemonInbox :
       h < i /\ daemonInbox[i].type = "start" => daemonInbox[h].run # daemonInbox[i].run
  /\ \A r \in Runs : sessions[r] \in Terminal \/ awaits[r].phase \in SettledPhases => Over(r)
  /\ \A i \in DOMAIN panelInbox : Final(panelInbox[i]) => Over(panelInbox[i].run)

\* The panel goes on with its runs, and none of them settles.
Calm ==
  /\ awaits' = [r \in Runs |-> awaits'[r]] /\ \A r \in Runs : IsRun(awaits'[r])
  /\ \A r \in Runs : /\ awaits'[r].phase \in SettledPhases => awaits[r].phase \in SettledPhases
                     /\ awaits'[r].phase = "idle" => awaits[r].phase = "idle"

\* A run of which nothing is known.
LEMMA IdleIsRun == IsRun(Idle) /\ Idle.phase = "idle"
BY DEF IsRun, Idle, Fields

\* One run goes on.
LEMMA CalmOne ==
  ASSUME RunsInv, NEW r \in Runs, NEW x, IsRun(x), awaits' = [awaits EXCEPT ![r] = x],
         x.phase \in SettledPhases => awaits[r].phase \in SettledPhases, x.phase # "idle"
  PROVE  Calm
BY DEF RunsInv, RunsTyped, Calm

\* The panel sends one message about a run that has begun, or none.
LEMMA PanelSends ==
  ASSUME RunsInv, Calm, NEW m, m.run \in Runs, awaits[m.run].phase # "idle",
         m.type \in {"cancel", "decision"},
         UNCHANGED <<outbox, daemonInbox>> \/ Send(<<m>>),
         UNCHANGED <<panelInbox, daemonVars>>
  PROVE  RunsInv'
<1> USE DEF RunsInv
<1>1. /\ outbox' = outbox \/ AddedTo(outbox', outbox, m)
      /\ daemonInbox' = daemonInbox \/ AddedTo(daemonInbox', daemonInbox, m)
  <2>1. Send(<<m>>) => \/ IsMore(outbox', outbox, m) /\ daemonInbox' = daemonInbox
                       \/ IsMore(daemonInbox', daemonInbox, m) /\ outbox' = outbox
    BY DEF Send, IsMore
  <2> QED
    BY <2>1, OneAdded DEF RunsTyped
<1>2. RunsTyped'
  BY <1>1 DEF RunsTyped, AddedTo, Calm, daemonVars
<1>3. Begun(outbox)' /\ OfTypes(outbox, {"cancel", "decision"})'
  BY <1>1 DEF Begun, OfTypes, AddedTo, Calm
<1>4. Begun(daemonInbox)' /\ OfTypes(daemonInbox, {"start", "cancel", "decision"})'
  BY <1>1 DEF Begun, OfTypes, AddedTo, Calm
<1>5. Begun(panelInbox)' /\ OfTypes(panelInbox, PanelTypes)'
  BY DEF Begun, OfTypes, Calm
<1>6. \A r \in Runs : Starts(r)' => Starts(r)
  BY <1>1 DEF Starts, AddedTo
<1>7. \A h, i \in DOMAIN daemonInbox' :
        h < i /\ daemonInbox'[i].type = "start" => daemonInbox'[h].run # daemonInbox'[i].run
  <2>1. CASE daemonInbox' = daemonInbox
    BY <2>1
  <2>2. CASE AddedTo(daemonInbox', daemonInbox, m)
    <3> SUFFICES ASSUME NEW h \in DOMAIN daemonInbox', NEW i \in DOMAIN daemonInbox', h < i,
                        daemonInbox'[i].type = "start"
                 PROVE  daemonInbox'[h].run # daemonInbox'[i].run
      OBVIOUS
    <3>1. i \in DOMAIN daemonInbox /\ daemonInbox'[i] = daemonInbox[i]
      BY <2>2 DEF AddedTo
    <3>2. h \in DOMAIN daemonInbox /\ daemonInbox'[h] = daemonInbox[h]
      BY <2>2, <3>1 DEF AddedTo
    <3> QED
      BY <3>1, <3>2
  <2> QED
    BY <1>1, <2>1, <2>2
<1>8. \A r \in Runs : awaits'[r].phase = "idle" => active' # r /\ sessions'[r] = None /\ sessionFile'[r] = None
  BY DEF Calm, daemonVars
<1>9. active' # None => sessions'[active'] = "running" /\ ~Starts(active)'
  BY <1>6 DEF daemonVars, RunsTyped, Starts
<1>10. \A r \in Runs : Over(r) => Over(r)'
  BY <1>6 DEF Over, daemonVars
<1>11. \A r \in Runs : sessions'[r] \in Terminal \/ awaits'[r].phase \in SettledPhases => Over(r)'
  BY <1>10 DEF Calm, daemonVars
<1>12. \A i \in DOMAIN panelInbox' : Final(panelInbox'[i]) => Over(panelInbox[i].run)'
  BY <1>10 DEF Begun, Over, Starts
<1>13. question' # 0 => active' # None
  BY DEF daemonVars
<1> QED
  BY <1>2, <1>3, <1>4, <1>5, <1>7, <1>8, <1>9, <1>11, <1>12, <1>13

\* A cancellation is requested unless one is pending.
LEMMA RequestsCalmly ==
  ASSUME RunsInv, NEW r \in Runs, awaits[r].phase # "idle",
         NEW x, IsRun(x), x.phase = awaits[r].phase, RequestCancel(r, x),
         UNCHANGED <<panelInbox, daemonVars>>
  PROVE  RunsInv'
<1>1. PICK n : n = FreshId
  OBVIOUS
<1> DEFINE y == [x EXCEPT !.cancelling = TRUE, !.retry = FALSE, !.cancel = n]
           m == Msg("cancel", r, n, None)
<1>2. IsRun(y) /\ y.phase = awaits[r].phase
  BY DEF IsRun, Fields
<1>3. m.run = r /\ m.type = "cancel"
  BY DEF Msg
<1>4. \/ awaits' = [awaits EXCEPT ![r] = x] /\ UNCHANGED <<outbox, daemonInbox>>
      \/ awaits' = [awaits EXCEPT ![r] = y] /\ Send(<<m>>)
  BY <1>1 DEF RequestCancel
<1> HIDE DEF y, m
<1>5. Calm
  BY <1>2, <1>4, CalmOne
<1> QED
  BY <1>3, <1>4, <1>5, PanelSends

\* The panel's other requests.
LEMMA PanelActs ==
  ASSUME RunsInv, NEW r \in Runs,
         \/ StartTimesOut(r) \/ StopRun(r) \/ CancelTimesOut(r) \/ CancelAgain(r) \/ DecideBudget(r)
         \/ StopRestoredRun(r)
  PROVE  RunsInv'
<1>1. PICK a : a = awaits[r]
  OBVIOUS
<1>2. IsRun(a) /\ awaits = [s \in Runs |-> awaits[s]]
  BY <1>1 DEF RunsInv, RunsTyped
<1>3. CASE StartTimesOut(r)
  <2>1. IsRun([a EXCEPT !.starting = FALSE, !.timedOut = TRUE])
        /\ [a EXCEPT !.starting = FALSE, !.timedOut = TRUE].phase = a.phase
    BY <1>2 DEF IsRun, Fields
  <2> QED
    BY <1>1, <1>3, <2>1, RequestsCalmly DEF StartTimesOut, Open
<1>4. CASE StopRun(r)
  <2>1. IsRun([a EXCEPT !.starting = FALSE]) /\ [a EXCEPT !.starting = FALSE].phase = a.phase
    BY <1>2 DEF IsRun, Fields
  <2> QED
    BY <1>1, <1>4, <2>1, RequestsCalmly DEF StopRun, Open
<1>5. CASE CancelTimesOut(r)
  <2> DEFINE x == [a EXCEPT !.cancel = 0]
  <2>1. IsRun(x) /\ x.phase = a.phase
    BY <1>2 DEF IsRun, Fields
  <2>2. /\ RequestCancel(r, x) \/ (awaits' = [awaits EXCEPT ![r] = x] /\ UNCHANGED <<outbox, daemonInbox>>)
        /\ a.phase = "open" /\ UNCHANGED <<panelInbox, daemonVars>>
    BY <1>1, <1>5 DEF CancelTimesOut, Open
  <2> HIDE DEF x
  <2>3. CASE RequestCancel(r, x)
    BY <1>1, <2>1, <2>2, <2>3, RequestsCalmly
  <2>4. CASE awaits' = [awaits EXCEPT ![r] = x] /\ UNCHANGED <<outbox, daemonInbox>>
    <3>1. Calm
      BY <1>1, <2>1, <2>2, <2>4, CalmOne
    <3>2. Msg("cancel", r, 0, None).run = r /\ Msg("cancel", r, 0, None).type = "cancel"
      BY DEF Msg
    <3> QED
      BY <1>1, <2>2, <2>4, <3>1, <3>2, PanelSends
  <2> QED
    BY <2>2, <2>3, <2>4
<1>6. CASE CancelAgain(r)
  <2>1. IsRun([a EXCEPT !.retry = FALSE]) /\ [a EXCEPT !.retry = FALSE].phase = a.phase
    BY <1>2 DEF IsRun, Fields
  <2> QED
    BY <1>1, <1>6, <2>1, RequestsCalmly DEF CancelAgain, Open
<1>7. CASE DecideBudget(r)
  <2> DEFINE x == [a EXCEPT !.prompt = 0]
             m == Msg("decision", r, a.prompt, None)
  <2>1. IsRun(x) /\ x.phase = a.phase
    BY <1>2 DEF IsRun, Fields
  <2>2. m.run = r /\ m.type = "decision"
    BY DEF Msg
  <2>3. awaits' = [awaits EXCEPT ![r] = x] /\ Send(<<m>>) /\ a.phase = "open" /\ UNCHANGED <<panelInbox, daemonVars>>
    BY <1>1, <1>2, <1>7 DEF DecideBudget, Open
  <2> HIDE DEF x, m
  <2>4. Calm
    BY <1>1, <2>1, <2>3, CalmOne
  <2> QED
    BY <1>1, <2>2, <2>3, <2>4, PanelSends
<1>8. CASE StopRestoredRun(r)
  <2> DEFINE x == [a EXCEPT !.phase = "stopped"]
             m == Msg("cancel", r, 0, None)
  <2>1. IsRun(x) /\ x.phase = "stopped"
    BY <1>2 DEF IsRun, Fields
  <2>2. m.run = r /\ m.type = "cancel"
    BY DEF Msg
  <2>3. awaits' = [awaits EXCEPT ![r] = x] /\ Send(<<m>>) /\ a.phase = "lost" /\ UNCHANGED <<panelInbox, daemonVars>>
    BY <1>1, <1>2, <1>8 DEF StopRestoredRun
  <2> HIDE DEF x, m
  <2>4. Calm
    BY <1>1, <2>1, <2>3, CalmOne DEF SettledPhases, Terminal
  <2> QED
    BY <1>1, <2>2, <2>3, <2>4, PanelSends
<1> QED
  BY <1>3, <1>4, <1>5, <1>6, <1>7, <1>8

\* A run that begins was nowhere before.
LEMMA StartKeeps ==
  ASSUME RunsAssumption, RunsInv, NEW r \in Runs, StartRun(r)
  PROVE  RunsInv'
<1> USE DEF RunsInv
<1> DEFINE x == [Idle EXCEPT !.phase = "open", !.starting = TRUE]
           m == Msg("start", r, 0, None)
<1>1. IsRun(x) /\ x.phase = "open"
  BY DEF IsRun, Fields, Idle
<1>2. m.run = r /\ m.type = "start"
  BY DEF Msg
<1>3. /\ awaits' = [awaits EXCEPT ![r] = x] /\ daemonInbox' = Append(daemonInbox, m)
      /\ awaits[r].phase = "idle" /\ UNCHANGED <<outbox, panelInbox, daemonVars>>
  BY DEF StartRun
<1> HIDE DEF x, m
<1>4. AddedTo(daemonInbox', daemonInbox, m)
  BY <1>3, OneAdded DEF RunsTyped, IsMore
<1>5. /\ awaits' = [s \in Runs |-> awaits'[s]] /\ \A s \in Runs : IsRun(awaits'[s])
      /\ awaits'[r].phase = "open" /\ \A s \in Runs : s # r => awaits'[s] = awaits[s]
  BY <1>1, <1>3 DEF RunsTyped
<1>6. RunsTyped'
  BY <1>3, <1>4, <1>5 DEF RunsTyped, AddedTo, daemonVars
<1>7. Begun(outbox)' /\ OfTypes(outbox, {"cancel", "decision"})'
  BY <1>3, <1>5 DEF Begun, OfTypes
<1>8. Begun(daemonInbox)' /\ OfTypes(daemonInbox, {"start", "cancel", "decision"})'
  BY <1>2, <1>4, <1>5 DEF Begun, OfTypes, AddedTo
<1>9. Begun(panelInbox)' /\ OfTypes(panelInbox, PanelTypes)'
  BY <1>3, <1>5 DEF Begun, OfTypes
<1>10. \A s \in Runs : s # r => (Starts(s)' => Starts(s))
  BY <1>2, <1>4 DEF Starts, AddedTo
<1>11. active # r /\ sessions[r] = None
  BY <1>3
<1>12. \A h, i \in DOMAIN daemonInbox' :
        h < i /\ daemonInbox'[i].type = "start" => daemonInbox'[h].run # daemonInbox'[i].run
  <2> SUFFICES ASSUME NEW h \in DOMAIN daemonInbox', NEW i \in DOMAIN daemonInbox', h < i,
                      daemonInbox'[i].type = "start"
               PROVE  daemonInbox'[h].run # daemonInbox'[i].run
    OBVIOUS
  <2>1. PICK n \in DOMAIN daemonInbox' :
          /\ daemonInbox'[n] = m /\ n \in Nat
          /\ \A k \in DOMAIN daemonInbox' :
               k = n \/ (k \in DOMAIN daemonInbox /\ daemonInbox'[k] = daemonInbox[k] /\ k \in Nat /\ k < n)
    BY <1>4 DEF AddedTo
  <2>2. h \in DOMAIN daemonInbox /\ daemonInbox'[h] = daemonInbox[h]
    BY <2>1
  <2>3. CASE i = n
    BY <1>2, <1>3, <2>1, <2>2, <2>3 DEF Begun
  <2>4. CASE i # n
    BY <2>1, <2>2, <2>4
  <2> QED
    BY <2>3, <2>4
<1>13. \A s \in Runs : awaits'[s].phase = "idle" => active' # s /\ sessions'[s] = None /\ sessionFile'[s] = None
  BY <1>3, <1>5 DEF daemonVars
<1>14. active' # None => sessions'[active'] = "running" /\ ~Starts(active)'
  BY <1>3, <1>10, <1>11 DEF daemonVars, RunsTyped, Starts
<1>15. \A s \in Runs : s # r => (Over(s) => Over(s)')
  BY <1>3, <1>10 DEF Over, daemonVars
<1>16. \A s \in Runs : sessions'[s] \in Terminal \/ awaits'[s].phase \in SettledPhases => Over(s)'
  BY <1>3, <1>5, <1>11, <1>15 DEF daemonVars, SettledPhases, Terminal, RunsAssumption
<1>17. \A i \in DOMAIN panelInbox' : Final(panelInbox'[i]) => Over(panelInbox[i].run)'
  <2>1. \A i \in DOMAIN panelInbox : panelInbox[i].run \in Runs /\ panelInbox[i].run # r
    BY <1>3 DEF Begun
  <2> QED
    BY <1>3, <1>15, <2>1 DEF Over, Starts
<1>18. question' # 0 => active' # None
  BY <1>3 DEF daemonVars
<1> QED
  BY <1>6, <1>7, <1>8, <1>9, <1>12, <1>13, <1>14, <1>16, <1>17, <1>18

\* What a message means for a run that is awaited.
LEMMA HeardIs ==
  ASSUME NEW x, IsRun(x), x.phase = "open", NEW m, m.type \in PanelTypes
  PROVE  /\ IsRun(Heard(x, m))
         /\ Heard(x, m).phase = "open" \/ (Heard(x, m).phase \in SettledPhases /\ Final(m))
<1>1. ASSUME NEW outcome \in SettledPhases
      PROVE  IsRun(RunSettled(x, outcome)) /\ RunSettled(x, outcome).phase \in SettledPhases
  BY <1>1 DEF RunSettled, IsRun, Fields, Idle, SettledPhases
<1> DEFINE y == [x EXCEPT !.starting = FALSE]
<1>2. IsRun(y) /\ y.phase = "open"
  BY DEF IsRun, Fields
<1> HIDE DEF y
<1>3. CASE m.type = "started"
  <2>1. Heard(x, m) = y
    BY <1>3 DEF Heard, y
  <2> QED
    BY <1>2, <2>1
<1>4. CASE m.type = "refused"
  <2>1. Heard(x, m) \in {RunSettled(x, "rejected"), x}
    BY <1>4 DEF Heard
  <2> QED
    BY <1>1, <1>4, <2>1 DEF Final, SettledPhases
<1>5. CASE m.type = "session"
  <2>1. Heard(x, m) = IF m.value \in Terminal THEN RunSettled(x, m.value) ELSE y
    BY <1>5 DEF Heard, y
  <2> QED
    BY <1>1, <1>2, <1>5, <2>1 DEF Final, SettledPhases
<1>6. CASE m.type = "budget"
  <2>1. Heard(x, m) = [y EXCEPT !.prompt = m.id]
    BY <1>6 DEF Heard, y
  <2>2. IsRun([y EXCEPT !.prompt = m.id]) /\ [y EXCEPT !.prompt = m.id].phase = "open"
    BY <1>2 DEF IsRun, Fields
  <2> QED
    BY <2>1, <2>2
<1>7. CASE m.type = "cancelling"
  <2>1. \/ Heard(x, m) \in {x, [y EXCEPT !.cancel = 0, !.retry = TRUE]}
        \/ m.value \in Terminal /\ Heard(x, m) = RunSettled(x, m.value)
    BY <1>7 DEF Heard, y
  <2>2. /\ IsRun([y EXCEPT !.cancel = 0, !.retry = TRUE])
        /\ [y EXCEPT !.cancel = 0, !.retry = TRUE].phase = "open"
    BY <1>2 DEF IsRun, Fields
  <2> QED
    BY <1>1, <1>7, <2>1, <2>2 DEF Final, SettledPhases
<1>8. CASE m.type = "not_active"
  <2>1. Heard(x, m) = x \/ \E outcome \in SettledPhases : Heard(x, m) = RunSettled(x, outcome)
    BY <1>8 DEF Heard, SettledPhases
  <2> QED
    BY <1>1, <1>8, <2>1 DEF Final
<1> QED
  BY <1>3, <1>4, <1>5, <1>6, <1>7, <1>8 DEF PanelTypes

\* The panel hears what was said, and nothing else becomes of it.
LEMMA PanelHandlesKeeps ==
  ASSUME RunsAssumption, RunsInv, PanelHandles
  PROVE  RunsInv'
<1> USE DEF RunsInv
<1>1. /\ IsRest(panelInbox', panelInbox)
      /\ awaits' = IF Open(Head(panelInbox).run)
                   THEN [awaits EXCEPT ![Head(panelInbox).run] = Heard(@, Head(panelInbox))] ELSE awaits
      /\ UNCHANGED <<outbox, daemonInbox, daemonVars>>
  BY DEF PanelHandles, IsRest
<1>2. /\ IsQueue(panelInbox') /\ 1 \in DOMAIN panelInbox /\ Head(panelInbox) = panelInbox[1]
      /\ \A i \in DOMAIN panelInbox' : \E k \in DOMAIN panelInbox : panelInbox'[i] = panelInbox[k]
  <2>1. /\ IsQueue(panelInbox') /\ 1 \in DOMAIN panelInbox /\ Head(panelInbox) = panelInbox[1]
        /\ \A i \in DOMAIN panelInbox' : i + 1 \in DOMAIN panelInbox /\ panelInbox'[i] = panelInbox[i + 1]
    BY <1>1, WithoutFirst DEF RunsTyped
  <2> QED
    BY <2>1
<1>3. PICK m : m = panelInbox[1]
  OBVIOUS
<1>4. m.run \in Runs /\ m.type \in PanelTypes /\ (Final(m) => Over(m.run))
  BY <1>2, <1>3 DEF Begun, OfTypes
<1>5. /\ awaits' = [r \in Runs |-> awaits'[r]] /\ \A r \in Runs : IsRun(awaits'[r])
      /\ \A r \in Runs : /\ awaits'[r].phase = "idle" => awaits[r].phase = "idle"
                         /\ awaits'[r].phase \in SettledPhases => awaits[r].phase \in SettledPhases \/ Over(r)
  <2>1. CASE Open(m.run)
    <3>1. PICK a : a = awaits[m.run]
      OBVIOUS
    <3>2. IsRun(a) /\ a.phase = "open"
      BY <1>4, <2>1, <3>1 DEF RunsTyped, Open
    <3>3. PICK y : y = Heard(a, m)
      OBVIOUS
    <3>4. IsRun(y) /\ (y.phase = "open" \/ (y.phase \in SettledPhases /\ Final(m)))
      BY <1>4, <3>2, <3>3, HeardIs
    <3>5. awaits' = [awaits EXCEPT ![m.run] = y]
      BY <1>1, <1>2, <1>3, <2>1, <3>1, <3>3
    <3>6. y.phase # "idle" /\ (y.phase \in SettledPhases => Over(m.run))
      BY <1>4, <3>4 DEF SettledPhases, Terminal
    <3> QED
      BY <1>4, <3>4, <3>5, <3>6 DEF RunsTyped
  <2>2. CASE ~Open(m.run)
    BY <1>1, <1>2, <1>3, <2>2 DEF RunsTyped
  <2> QED
    BY <2>1, <2>2
<1>6. RunsTyped'
  BY <1>1, <1>2, <1>5 DEF RunsTyped, daemonVars
<1>7. Begun(outbox)' /\ Begun(daemonInbox)'
  BY <1>1, <1>5 DEF Begun
<1>8. Begun(panelInbox)' /\ OfTypes(panelInbox, PanelTypes)'
  BY <1>2, <1>5 DEF Begun, OfTypes
<1>9. \A r : (Starts(r)' <=> Starts(r)) /\ (Over(r)' <=> Over(r))
  BY <1>1 DEF Starts, Over, daemonVars
<1>10. OfTypes(outbox, {"cancel", "decision"})' /\ OfTypes(daemonInbox, {"start", "cancel", "decision"})'
  BY <1>1 DEF OfTypes
<1>11. \A r \in Runs : awaits'[r].phase = "idle" => active' # r /\ sessions'[r] = None /\ sessionFile'[r] = None
  BY <1>1, <1>5 DEF daemonVars
<1>12. (active' # None => sessions'[active'] = "running" /\ ~Starts(active)') /\ (question' # 0 => active' # None)
  BY <1>1 DEF daemonVars, Starts
<1>13. \A r \in Runs : sessions'[r] \in Terminal \/ awaits'[r].phase \in SettledPhases => Over(r)'
  BY <1>1, <1>5, <1>9 DEF daemonVars
<1>14. \A i \in DOMAIN panelInbox' : Final(panelInbox'[i]) => Over(panelInbox[i].run)'
  BY <1>1, <1>2 DEF Over, Starts, daemonVars
<1> QED
  BY <1>1, <1>6, <1>7, <1>8, <1>10, <1>11, <1>12, <1>13, <1>14

\* What stays in the outbox was in it.
LEMMA ResetIsPart ==
  ASSUME RunsTyped
  PROVE  PartOf(ResetOutbox, outbox)
<1>1. CASE Stale = {}
  BY <1>1 DEF ResetOutbox, PartOf, RunsTyped
<1>2. CASE Stale # {}
  <2>1. PICK i : i = CHOOSE k \in Stale : TRUE
    OBVIOUS
  <2>2. i \in DOMAIN outbox
    BY <1>2, <2>1 DEF Stale
  <2>3. ResetOutbox = SubSeq(outbox, 1, i - 1) \o SubSeq(outbox, i + 1, Len(outbox))
    BY <1>2, <2>1 DEF ResetOutbox
  <2> QED
    BY <2>2, <2>3, CutOut DEF RunsTyped
<1> QED
  BY <1>1, <1>2

\* The empty queue.
LEMMA NothingQueued == IsQueue(<<>>) /\ DOMAIN <<>> = {}
<1>1. <<>> \in Seq({})
  OBVIOUS
<1> QED
  BY <1>1 DEF IsQueue

\* The connection is lost, with what is under way on it.
LEMMA Loses ==
  ASSUME RunsAssumption, RunsInv, Calm, PartOf(outbox', outbox),
         \/ daemonInbox' = <<>> /\ panelInbox' = <<>>
         \/ UNCHANGED wireVars,
         UNCHANGED <<sessionFile>>,
         \/ UNCHANGED <<active, sessions, question>>
         \/ /\ daemonInbox' = <<>> /\ panelInbox' = <<>> /\ active' = None /\ question' = 0
            /\ sessions' = [r \in Runs |-> IF sessionFile[r] = "running" THEN "blocked" ELSE sessionFile[r]]
  PROVE  RunsInv'
<1> USE DEF RunsInv
<1>1. \/ DOMAIN daemonInbox' = {} /\ DOMAIN panelInbox' = {} /\ IsQueue(daemonInbox') /\ IsQueue(panelInbox')
      \/ daemonInbox' = daemonInbox /\ panelInbox' = panelInbox
  BY NothingQueued DEF wireVars
<1>2. \A r \in Runs : sessionFile[r] = None => sessions'[r] = None \/ sessions'[r] = sessions[r]
  <2>1. CASE UNCHANGED sessions
    BY <2>1
  <2>2. CASE sessions' = [r \in Runs |-> IF sessionFile[r] = "running" THEN "blocked" ELSE sessionFile[r]]
    BY <2>2 DEF RunsAssumption
  <2> QED
    BY <2>1, <2>2
<1>3. sessions' \in [Runs -> Statuses] /\ IsFiniteSet({r \in Runs : sessions'[r] # None})
  <2>1. CASE UNCHANGED sessions
    BY <2>1 DEF RunsTyped
  <2>2. CASE sessions' = [r \in Runs |-> IF sessionFile[r] = "running" THEN "blocked" ELSE sessionFile[r]]
    <3>1. sessions' \in [Runs -> Statuses]
      BY <2>2 DEF RunsTyped, Statuses, Terminal
    <3>2. {r \in Runs : sessions'[r] # None} \subseteq {r \in Runs : sessionFile[r] # None}
      BY <2>2 DEF RunsAssumption
    <3>3. IsFiniteSet({r \in Runs : sessions'[r] # None})
      BY <3>2, FS_Subset DEF RunsTyped
    <3> QED
      BY <3>1, <3>3
  <2> QED
    BY <2>1, <2>2
<1>4. RunsTyped'
  BY <1>1, <1>3 DEF RunsTyped, PartOf, Calm
<1>5. Begun(outbox)' /\ OfTypes(outbox, {"cancel", "decision"})'
  BY DEF Begun, OfTypes, PartOf, Calm
<1>6. Begun(daemonInbox)' /\ OfTypes(daemonInbox, {"start", "cancel", "decision"})'
  BY <1>1 DEF Begun, OfTypes, Calm
<1>7. Begun(panelInbox)' /\ OfTypes(panelInbox, PanelTypes)'
  BY <1>1 DEF Begun, OfTypes, Calm
<1>8. \A r : Starts(r)' => Starts(r)
  BY <1>1 DEF Starts
<1>9. \A r \in Runs : awaits'[r].phase = "idle" => active' # r /\ sessions'[r] = None /\ sessionFile'[r] = None
  <2> SUFFICES ASSUME NEW r \in Runs, awaits'[r].phase = "idle"
               PROVE  active' # r /\ sessions'[r] = None /\ sessionFile'[r] = None
    OBVIOUS
  <2>1. active # r /\ sessions[r] = None /\ sessionFile[r] = None
    BY DEF Calm
  <2>2. active' # r
    BY <2>1 DEF RunsAssumption
  <2> QED
    BY <1>2, <2>1, <2>2
<1>10. (active' # None => sessions'[active'] = "running" /\ ~Starts(active)') /\ (question' # 0 => active' # None)
  BY <1>1 DEF Starts
<1>11. \A h, i \in DOMAIN daemonInbox' :
         h < i /\ daemonInbox'[i].type = "start" => daemonInbox'[h].run # daemonInbox'[i].run
  BY <1>1
<1>12. \A r \in Runs : sessions'[r] \in Terminal \/ awaits'[r].phase \in SettledPhases => Over(r)'
  <2>1. CASE UNCHANGED <<active, sessions, question>>
    <3>1. \A r \in Runs : Over(r) => Over(r)'
      BY <1>8, <2>1 DEF Over
    <3> QED
      BY <2>1, <3>1 DEF Calm
  <2>2. CASE DOMAIN daemonInbox' = {} /\ active' = None
    BY <2>2 DEF Over, Starts, RunsAssumption
  <2> QED
    BY <1>1, <2>1, <2>2, NothingQueued
<1>13. \A i \in DOMAIN panelInbox' : Final(panelInbox'[i]) => Over(panelInbox[i].run)'
  BY <1>1, <1>8, NothingQueued DEF Over, Starts
<1> QED
  BY <1>4, <1>5, <1>6, <1>7, <1>9, <1>10, <1>11, <1>12, <1>13

\* Every way in which that happens.
LEMMA LosesConnection ==
  ASSUME RunsAssumption, RunsInv, DropConnection \/ ConnectFails \/ ReloadPanel \/ Crash
  PROVE  RunsInv'
<1>1. CASE DropConnection \/ ConnectFails \/ Crash
  <2>1. awaits' = [r \in Runs |-> Reset(awaits[r])] /\ outbox' = ResetOutbox
    BY <1>1 DEF DropConnection, ConnectFails, Crash
  <2>2. \A x : IsRun(x) => IsRun(Reset(x)) /\ Reset(x).phase = x.phase
    BY DEF IsRun, Fields, Reset
  <2>3. Calm
    BY <2>1, <2>2 DEF Calm, RunsInv, RunsTyped
  <2>4. PartOf(outbox', outbox)
    BY <2>1, ResetIsPart DEF RunsInv
  <2>5. /\ \/ daemonInbox' = <<>> /\ panelInbox' = <<>>
           \/ UNCHANGED wireVars
        /\ UNCHANGED <<sessionFile>>
        /\ \/ UNCHANGED <<active, sessions, question>>
           \/ /\ daemonInbox' = <<>> /\ panelInbox' = <<>> /\ active' = None /\ question' = 0
              /\ sessions' = [r \in Runs |-> IF sessionFile[r] = "running" THEN "blocked" ELSE sessionFile[r]]
    BY <1>1 DEF DropConnection, ConnectFails, Crash, LoseConnection, daemonVars
  <2> QED
    BY <2>3, <2>4, <2>5, Loses
<1>2. CASE ReloadPanel
  <2> DEFINE x == [Idle EXCEPT !.phase = "lost"]
  <2>1. IsRun(x) /\ x.phase = "lost"
    BY DEF IsRun, Fields, Idle
  <2>2. awaits' = [r \in Runs |-> IF Open(r) THEN x ELSE awaits[r]]
    BY <1>2 DEF ReloadPanel
  <2> HIDE DEF x
  <2>3. Calm
    BY <2>1, <2>2 DEF Calm, RunsInv, RunsTyped, SettledPhases, Terminal
  <2>4. PartOf(outbox', outbox)
    BY <1>2, NothingQueued DEF ReloadPanel, PartOf
  <2>5. daemonInbox' = <<>> /\ panelInbox' = <<>> /\ UNCHANGED <<sessionFile, active, sessions, question>>
    BY <1>2 DEF ReloadPanel, LoseConnection, daemonVars
  <2> QED
    BY <2>3, <2>4, <2>5, Loses
<1> QED
  BY <1>1, <1>2

\* What the daemon may say of a run: that it is over only when it is.
Says(m) == m.run \in Runs /\ awaits[m.run].phase # "idle" /\ m.type \in PanelTypes

SaysOnly(M) ==
  /\ IsQueue(panelInbox')
  /\ \A i \in DOMAIN panelInbox' : panelInbox'[i] \in M \/ \E k \in DOMAIN panelInbox : panelInbox'[i] = panelInbox[k]
  /\ \A m \in M : Says(m) /\ (Final(m) => Over(m.run)')
DaemonTyped ==
  /\ active \in Runs \cup {None}
  /\ sessions \in [Runs -> Statuses] /\ sessionFile \in [Runs -> Statuses]
  /\ IsFiniteSet({r \in Runs : sessions[r] # None}) /\ IsFiniteSet({r \in Runs : sessionFile[r] # None})
DaemonKept ==
  /\ \A r \in Runs : awaits[r].phase = "idle" => active' # r /\ sessions'[r] = None /\ sessionFile'[r] = None
  /\ active' # None => sessions'[active'] = "running" /\ ~Starts(active)'
  /\ question' # 0 => active' # None
  /\ \A r \in Runs : Over(r) => Over(r)'
  /\ \A r \in Runs : sessions'[r] \in Terminal => Over(r)'

\* The daemon takes a message or none, and what it says is true of the state
\* it leaves.
LEMMA DaemonSteps ==
  ASSUME RunsInv, UNCHANGED <<awaits, outbox>>,
         daemonInbox' = daemonInbox \/ IsRest(daemonInbox', daemonInbox),
         NEW M, SaysOnly(M), DaemonTyped', DaemonKept
  PROVE  RunsInv'
<1> USE DEF RunsInv, DaemonKept, SaysOnly
<1>1. \/ daemonInbox' = daemonInbox
      \/ /\ IsQueue(daemonInbox')
         /\ \A i \in DOMAIN daemonInbox' : i \in Nat /\ i + 1 \in DOMAIN daemonInbox /\ daemonInbox'[i] = daemonInbox[i + 1]
  BY WithoutFirst DEF RunsTyped
<1>2. /\ IsQueue(daemonInbox')
      /\ \A i \in DOMAIN daemonInbox' : \E k \in DOMAIN daemonInbox : daemonInbox'[i] = daemonInbox[k]
  BY <1>1 DEF RunsTyped
<1>3. RunsTyped'
  BY <1>2 DEF RunsTyped, DaemonTyped
<1>4. Begun(outbox)' /\ OfTypes(outbox, {"cancel", "decision"})'
  BY DEF Begun, OfTypes
<1>5. Begun(daemonInbox)' /\ OfTypes(daemonInbox, {"start", "cancel", "decision"})'
  BY <1>2 DEF Begun, OfTypes
<1>6. Begun(panelInbox)' /\ OfTypes(panelInbox, PanelTypes)'
  BY DEF Begun, OfTypes, Says
<1>7. \A r \in Runs : awaits'[r].phase = "idle" => active' # r /\ sessions'[r] = None /\ sessionFile'[r] = None
  OBVIOUS
<1>8. \A h, i \in DOMAIN daemonInbox' :
        h < i /\ daemonInbox'[i].type = "start" => daemonInbox'[h].run # daemonInbox'[i].run
  <2>1. CASE daemonInbox' = daemonInbox
    BY <2>1
  <2>2. CASE \A i \in DOMAIN daemonInbox' : i \in Nat /\ i + 1 \in DOMAIN daemonInbox /\ daemonInbox'[i] = daemonInbox[i + 1]
    <3> SUFFICES ASSUME NEW h \in DOMAIN daemonInbox', NEW i \in DOMAIN daemonInbox', h < i,
                        daemonInbox'[i].type = "start"
                 PROVE  daemonInbox'[h].run # daemonInbox'[i].run
      OBVIOUS
    <3>1. PICK a, b : a = h + 1 /\ b = i + 1
      OBVIOUS
    <3>2. a \in DOMAIN daemonInbox /\ b \in DOMAIN daemonInbox /\ a < b
          /\ daemonInbox'[h] = daemonInbox[a] /\ daemonInbox'[i] = daemonInbox[b]
      BY <2>2, <3>1
    <3> QED
      BY <3>2
  <2> QED
    BY <1>1, <2>1, <2>2
<1>9. \A r \in Runs : sessions'[r] \in Terminal \/ awaits'[r].phase \in SettledPhases => Over(r)'
  OBVIOUS
<1>10. \A i \in DOMAIN panelInbox' : Final(panelInbox'[i]) => Over(panelInbox[i].run)'
  <2> SUFFICES ASSUME NEW i \in DOMAIN panelInbox', Final(panelInbox'[i])
               PROVE  Over(panelInbox[i].run)'
    OBVIOUS
  <2>1. CASE panelInbox'[i] \in M
    <3>1. PICK m \in M : m = panelInbox'[i]
      BY <2>1
    <3>2. Over(m.run)'
      BY <3>1
    <3> QED
      BY <3>1, <3>2 DEF Over, Starts
  <2>2. CASE \E k \in DOMAIN panelInbox : panelInbox'[i] = panelInbox[k]
    <3>1. PICK k \in DOMAIN panelInbox : panelInbox'[i] = panelInbox[k]
      BY <2>2
    <3>2. PICK r : r = panelInbox[k].run
      OBVIOUS
    <3>3. r \in Runs /\ Over(r)
      BY <3>1, <3>2 DEF Begun
    <3>4. Over(r)'
      BY <3>3
    <3> QED
      BY <3>1, <3>2, <3>4 DEF Over, Starts
  <2> QED
    BY <2>1, <2>2
<1> QED
  BY <1>3, <1>4, <1>5, <1>6, <1>7, <1>8, <1>9, <1>10

\* What is emitted is at the end of the inbox of a panel that is connected.
LEMMA EmitsOne ==
  ASSUME RunsTyped, NEW m, Emit(<<m>>)
  PROVE  /\ IsQueue(panelInbox')
         /\ \A i \in DOMAIN panelInbox' : panelInbox'[i] \in {m} \/ \E k \in DOMAIN panelInbox : panelInbox'[i] = panelInbox[k]
<1>1. IsMore(panelInbox', panelInbox, m) \/ panelInbox' = panelInbox
  BY DEF Emit, IsMore
<1>2. AddedTo(panelInbox', panelInbox, m) \/ panelInbox' = panelInbox
  BY <1>1, OneAdded DEF RunsTyped
<1>3. CASE panelInbox' = panelInbox
  BY <1>3 DEF RunsTyped
<1>4. CASE AddedTo(panelInbox', panelInbox, m)
  BY <1>4 DEF AddedTo
<1> QED
  BY <1>2, <1>3, <1>4

\* The same for two messages.
LEMMA EmitsTwo ==
  ASSUME RunsTyped, NEW m, NEW n, Emit(<<m, n>>)
  PROVE  /\ IsQueue(panelInbox')
         /\ \A i \in DOMAIN panelInbox' : panelInbox'[i] \in {m, n} \/ \E k \in DOMAIN panelInbox : panelInbox'[i] = panelInbox[k]
<1>1. IsJoin(panelInbox', panelInbox, <<m, n>>) \/ panelInbox' = panelInbox
  BY DEF Emit, IsJoin
<1>2. IsQueue(<<m, n>>) /\ \A k \in DOMAIN <<m, n>> : <<m, n>>[k] \in {m, n}
  <2>1. <<m, n>> \in Seq({m, n}) /\ Len(<<m, n>>) = 2 /\ <<m, n>>[1] = m /\ <<m, n>>[2] = n
    OBVIOUS
  <2>2. DOMAIN <<m, n>> = {1, 2}
    OBVIOUS
  <2> QED
    BY <2>1, <2>2 DEF IsQueue
<1>3. PICK q : q = <<m, n>>
  OBVIOUS
<1>4. IsQueue(q) /\ \A k \in DOMAIN q : q[k] \in {m, n}
  BY <1>2, <1>3
<1>5. CASE panelInbox' = panelInbox
  BY <1>5 DEF RunsTyped
<1>6. CASE IsJoin(panelInbox', panelInbox, q)
  <2>1. /\ IsQueue(panelInbox')
        /\ \A i \in DOMAIN panelInbox' : \/ i \in DOMAIN panelInbox /\ panelInbox'[i] = panelInbox[i]
                                         \/ \E k \in DOMAIN q : panelInbox'[i] = q[k]
    BY <1>4, <1>6, Joined DEF RunsTyped
  <2> QED
    BY <1>4, <2>1
<1> QED
  BY <1>1, <1>3, <1>5, <1>6

\* The first message of the daemon's inbox, and what is then behind it.
LEMMA FirstOfDaemon ==
  ASSUME RunsInv, NEW m, daemonInbox # <<>>, m = Head(daemonInbox), daemonInbox' = Tail(daemonInbox)
  PROVE  /\ IsRest(daemonInbox', daemonInbox)
         /\ m.run \in Runs /\ awaits[m.run].phase # "idle" /\ m.type \in {"start", "cancel", "decision"}
         /\ m.type = "start" => Starts(m.run)
         /\ \A r : Starts(r)' => Starts(r)
         /\ ~Starts(m.run)'
<1> USE DEF RunsInv
<1>1. IsRest(daemonInbox', daemonInbox)
  BY DEF IsRest
<1>2. /\ 1 \in DOMAIN daemonInbox /\ m = daemonInbox[1]
      /\ \A i \in DOMAIN daemonInbox' : i \in Nat /\ i + 1 \in DOMAIN daemonInbox /\ 1 < i + 1
                                       /\ daemonInbox'[i] = daemonInbox[i + 1]
  <2>1. IsQueue(daemonInbox)
    BY DEF RunsTyped
  <2> QED
    BY <1>1, <2>1, WithoutFirst
<1>3. \A i \in DOMAIN daemonInbox' : \E k \in DOMAIN daemonInbox : 1 < k /\ daemonInbox'[i] = daemonInbox[k]
  BY <1>2
<1>4. m.run \in Runs /\ awaits[m.run].phase # "idle" /\ m.type \in {"start", "cancel", "decision"}
  BY <1>2 DEF Begun, OfTypes
<1>5. m.type = "start" => Starts(m.run)
  BY <1>2 DEF Starts
<1>6. \A r : Starts(r)' => Starts(r)
  BY <1>3 DEF Starts
<1>7. ~Starts(m.run)'
  <2> SUFFICES ASSUME NEW i \in DOMAIN daemonInbox', daemonInbox'[i].type = "start", daemonInbox'[i].run = m.run
               PROVE  FALSE
    BY DEF Starts
  <2>1. PICK k \in DOMAIN daemonInbox : 1 < k /\ daemonInbox'[i] = daemonInbox[k]
    BY <1>3
  <2> QED
    BY <1>2, <2>1
<1> QED
  BY <1>1, <1>4, <1>5, <1>6, <1>7

\* A start is refused or begins the run.
LEMMA AcceptsStart ==
  ASSUME RunsAssumption, RunsInv, DaemonReceives, NEW r, r = Head(daemonInbox).run,
         Head(daemonInbox).type = "start", HandleStart(r)
  PROVE  RunsInv'
<1> USE DEF RunsInv
<1>1. PICK m : m = Head(daemonInbox)
  OBVIOUS
<1>2. daemonInbox # <<>> /\ daemonInbox' = Tail(daemonInbox) /\ UNCHANGED <<awaits, outbox>>
  BY DEF DaemonReceives, panelRunVars
<1>3. /\ IsRest(daemonInbox', daemonInbox)
      /\ r \in Runs /\ awaits[r].phase # "idle"
      /\ Starts(r) /\ (\A s : Starts(s)' => Starts(s)) /\ ~Starts(r)'
  BY <1>1, <1>2, FirstOfDaemon
<1>4. ASSUME Emit(<<Msg("refused", r, 0, None)>>), UNCHANGED daemonVars
      PROVE  RunsInv'
  <2> DEFINE n == Msg("refused", r, 0, None)
  <2>1. Emit(<<n>>) /\ UNCHANGED <<active, sessions, sessionFile, question>>
    BY <1>4 DEF daemonVars
  <2>2. n.run = r /\ n.type = "refused"
    BY DEF Msg
  <2> HIDE DEF n
  <2>3. active # r
    <3>1. active # None => ~Starts(active)
      OBVIOUS
    <3>2. r # None
      BY <1>3 DEF RunsAssumption
    <3> QED
      BY <1>3, <3>1, <3>2
  <2>4. Says(n) /\ Over(n.run)'
    BY <1>3, <2>1, <2>2, <2>3 DEF Says, PanelTypes, Over, Starts
  <2>5. \A s \in Runs : Over(s) => Over(s)'
    BY <1>3, <2>1 DEF Over
  <2>6. active' # None => sessions'[active'] = "running" /\ ~Starts(active)'
    BY <1>3, <2>1 DEF Starts
  <2>7. /\ active' \in Runs \cup {None}
        /\ sessions' \in [Runs -> Statuses] /\ sessionFile' \in [Runs -> Statuses]
        /\ IsFiniteSet({s \in Runs : sessions'[s] # None}) /\ IsFiniteSet({s \in Runs : sessionFile'[s] # None})
    BY <2>1 DEF RunsTyped
  <2>8. \A s \in Runs : awaits[s].phase = "idle" => active' # s /\ sessions'[s] = None /\ sessionFile'[s] = None
    BY <2>1
  <2>9. \A s \in Runs : sessions'[s] \in Terminal => Over(s)'
    BY <2>1, <2>5
  <2>10. /\ IsQueue(panelInbox')
         /\ \A i \in DOMAIN panelInbox' : panelInbox'[i] \in {n} \/ \E k \in DOMAIN panelInbox : panelInbox'[i] = panelInbox[k]
    BY <2>1, EmitsOne
  <2>11. \A x \in {n} : Says(x) /\ (Final(x) => Over(x.run)')
    BY <2>4
  <2>12. question' # 0 => active' # None
    BY <2>1
  <2> QED
    <3>1. DaemonTyped' /\ DaemonKept
      BY <2>5, <2>6, <2>7, <2>8, <2>9, <2>12 DEF DaemonTyped, DaemonKept
    <3>2. SaysOnly({n})
      BY <2>10, <2>11 DEF SaysOnly
    <3> QED
      BY <1>2, <1>3, <3>1, <3>2, DaemonSteps
<1>5. ASSUME active = None, active' = r, question' = 0, sessions' = [sessions EXCEPT ![r] = "running"],
             Emit(<<Msg("session", r, 0, "running"), Msg("started", r, 0, None)>>), sessionFile' = sessionFile
      PROVE  RunsInv'
  <2> DEFINE n == Msg("session", r, 0, "running")
             o == Msg("started", r, 0, None)
  <2>1. /\ Emit(<<n, o>>) /\ active' = r /\ question' = 0
        /\ sessions' = [sessions EXCEPT ![r] = "running"] /\ sessionFile' = sessionFile
    BY <1>5
  <2>2. n.run = r /\ n.type = "session" /\ n.value = "running" /\ o.run = r /\ o.type = "started"
    BY DEF Msg
  <2> HIDE DEF n, o
  <2>3. Says(n) /\ ~Final(n) /\ Says(o) /\ ~Final(o)
    BY <1>3, <2>2 DEF Says, PanelTypes, Final, Terminal
  <2>4. ~Over(r)
    BY <1>3 DEF Over
  <2>5. \A s \in Runs : Over(s) => Over(s)'
    BY <1>3, <2>1, <2>4 DEF Over
  <2>6. active' # None => sessions'[active'] = "running" /\ ~Starts(active)'
    BY <1>3, <2>1 DEF Starts, RunsTyped
  <2>7. /\ active' \in Runs \cup {None}
        /\ sessions' \in [Runs -> Statuses] /\ sessionFile' \in [Runs -> Statuses]
    BY <1>3, <2>1 DEF RunsTyped, Statuses
  <2>8. IsFiniteSet({s \in Runs : sessions'[s] # None}) /\ IsFiniteSet({s \in Runs : sessionFile'[s] # None})
    <3>1. {s \in Runs : sessions'[s] # None} \subseteq {s \in Runs : sessions[s] # None} \cup {r}
      BY <2>1 DEF RunsTyped
    <3>2. IsFiniteSet({s \in Runs : sessions[s] # None} \cup {r})
      BY FS_AddElement DEF RunsTyped
    <3> QED
      BY <2>1, <3>1, <3>2, FS_Subset DEF RunsTyped
  <2>9. \A s \in Runs : awaits[s].phase = "idle" => active' # s /\ sessions'[s] = None /\ sessionFile'[s] = None
    BY <1>3, <2>1 DEF RunsTyped
  <2>10. \A s \in Runs : sessions'[s] \in Terminal => Over(s)'
    BY <1>3, <2>1, <2>5 DEF RunsTyped, Terminal
  <2>11. /\ IsQueue(panelInbox')
         /\ \A i \in DOMAIN panelInbox' : panelInbox'[i] \in {n, o} \/ \E k \in DOMAIN panelInbox : panelInbox'[i] = panelInbox[k]
    BY <2>1, EmitsTwo
  <2>12. \A x \in {n, o} : Says(x) /\ (Final(x) => Over(x.run)')
    BY <2>3
  <2>13. question' # 0 => active' # None
    BY <2>1
  <2> QED
    <3>1. DaemonTyped' /\ DaemonKept
      BY <2>5, <2>6, <2>7, <2>8, <2>9, <2>10, <2>13 DEF DaemonTyped, DaemonKept
    <3>2. SaysOnly({n, o})
      BY <2>11, <2>12 DEF SaysOnly
    <3> QED
      BY <1>2, <1>3, <3>1, <3>2, DaemonSteps
<1> QED
  BY <1>4, <1>5 DEF HandleStart

\* A cancellation or a decision is received.
LEMMA ReceivesRest ==
  ASSUME RunsAssumption, RunsInv, DaemonReceives, NEW m, m = Head(daemonInbox),
         HandleCancel(m.run, m.id) \/ HandleDecision(m.run, m.id)
  PROVE  RunsInv'
<1> USE DEF RunsInv
<1>1. PICK r : r = m.run
  OBVIOUS
<1>2. daemonInbox # <<>> /\ daemonInbox' = Tail(daemonInbox) /\ UNCHANGED <<awaits, outbox>>
  BY DEF DaemonReceives, panelRunVars
<1>3. /\ IsRest(daemonInbox', daemonInbox)
      /\ r \in Runs /\ awaits[r].phase # "idle"
      /\ (\A s : Starts(s)' => Starts(s)) /\ ~Starts(r)'
  BY <1>1, <1>2, FirstOfDaemon
<1>4. UNCHANGED <<active, sessions, sessionFile>> /\ (question' = 0 \/ question' = question)
  BY DEF HandleCancel, HandleDecision
<1>5. /\ active' \in Runs \cup {None}
      /\ sessions' \in [Runs -> Statuses] /\ sessionFile' \in [Runs -> Statuses]
      /\ IsFiniteSet({s \in Runs : sessions'[s] # None}) /\ IsFiniteSet({s \in Runs : sessionFile'[s] # None})
  BY <1>4 DEF RunsTyped
<1>6. /\ \A s \in Runs : awaits[s].phase = "idle" => active' # s /\ sessions'[s] = None /\ sessionFile'[s] = None
      /\ question' # 0 => active' # None
  BY <1>4
<1>7. active' # None => sessions'[active'] = "running" /\ ~Starts(active)'
  BY <1>3, <1>4 DEF Starts
<1>8. \A s \in Runs : Over(s) => Over(s)'
  BY <1>3, <1>4 DEF Over
<1>9. \A s \in Runs : sessions'[s] \in Terminal => Over(s)'
  BY <1>4, <1>8
<1> DaemonTyped' /\ DaemonKept
  BY <1>5, <1>6, <1>7, <1>8, <1>9 DEF DaemonTyped, DaemonKept
<1>10. CASE HandleCancel(r, m.id)
  <2>1. PICK n : n = Msg(IF active = r THEN "cancelling" ELSE "not_active", r, m.id, sessions[r])
    OBVIOUS
  <2>2. /\ IsQueue(panelInbox')
        /\ \A i \in DOMAIN panelInbox' : panelInbox'[i] \in {n} \/ \E k \in DOMAIN panelInbox : panelInbox'[i] = panelInbox[k]
    BY <1>10, <2>1, EmitsOne DEF HandleCancel
  <2>3. /\ n.run = r /\ n.type = IF active = r THEN "cancelling" ELSE "not_active"
        /\ n.value = sessions[r]
    BY <2>1 DEF Msg
  <2>4. Says(n)
    BY <1>3, <2>3 DEF Says, PanelTypes
  <2>5. CASE active = r
    <3>1. n.type = "cancelling" /\ n.value = "running"
      BY <1>3, <2>3, <2>5 DEF RunsAssumption
    <3>2. ~Final(n)
      BY <3>1 DEF Final, Terminal
    <3>3. SaysOnly({n})
      BY <2>2, <2>4, <3>2 DEF SaysOnly
    <3> QED
      BY <1>2, <1>3, <3>3, DaemonSteps
  <2>6. CASE active # r
    <3>1. Over(n.run)'
      BY <1>3, <1>4, <2>3, <2>6 DEF Over, Starts
    <3>2. \A x \in {n} : Says(x) /\ (Final(x) => Over(x.run)')
      BY <2>4, <3>1
    <3>3. SaysOnly({n})
      BY <2>2, <3>2 DEF SaysOnly
    <3> QED
      BY <1>2, <1>3, <3>3, DaemonSteps
  <2> QED
    BY <2>5, <2>6
<1>11. CASE HandleDecision(r, m.id)
  <2>1. /\ IsQueue(panelInbox')
        /\ \A i \in DOMAIN panelInbox' : panelInbox'[i] \in {} \/ \E k \in DOMAIN panelInbox : panelInbox'[i] = panelInbox[k]
    BY <1>11 DEF HandleDecision, RunsTyped
  <2>2. SaysOnly({})
    BY <2>1 DEF SaysOnly
  <2> QED
    BY <1>2, <1>3, <2>2, DaemonSteps
<1> QED
  BY <1>1, <1>10, <1>11

\* What the daemon does on its own, short of a crash.
LEMMA DaemonActs ==
  ASSUME RunsAssumption, RunsInv,
         AskForBudget \/ SaveSessions \/ (\E status \in {"completed", "cancelled"} : EndRun(status))
  PROVE  RunsInv'
<1> USE DEF RunsInv
<1>1. UNCHANGED <<awaits, outbox, daemonInbox>>
  BY DEF AskForBudget, SaveSessions, EndRun, panelRunVars, wireVars
<1>2. \A s : Starts(s)' <=> Starts(s)
  BY <1>1 DEF Starts
<1>3. CASE AskForBudget
  <2>1. PICK n : n = Msg("budget", active, question', None)
    OBVIOUS
  <2>2. Emit(<<n>>) /\ active # None /\ UNCHANGED <<active, sessions, sessionFile>>
    BY <1>3, <2>1 DEF AskForBudget
  <2>3. n.run = active /\ n.type = "budget"
    BY <2>1 DEF Msg
  <2>4. active \in Runs /\ awaits[active].phase # "idle"
    BY <2>2 DEF RunsTyped
  <2>5. Says(n) /\ ~Final(n)
    BY <2>3, <2>4 DEF Says, PanelTypes, Final
  <2>6. SaysOnly({n})
    BY <2>2, <2>5, EmitsOne DEF SaysOnly
  <2>7. DaemonTyped'
    BY <2>2 DEF DaemonTyped, RunsTyped
  <2>8. DaemonKept
    BY <1>2, <2>2 DEF DaemonKept, Over, Starts
  <2> QED
    BY <1>1, <2>6, <2>7, <2>8, DaemonSteps
<1>4. CASE SaveSessions
  <2>1. UNCHANGED <<panelInbox, active, question, sessions>> /\ sessionFile' = sessions
    BY <1>4 DEF SaveSessions, wireVars
  <2>2. SaysOnly({})
    BY <2>1 DEF SaysOnly, RunsTyped
  <2>3. DaemonTyped'
    BY <2>1 DEF DaemonTyped, RunsTyped
  <2>4. DaemonKept
    BY <1>2, <2>1 DEF DaemonKept, Over, Starts
  <2> QED
    BY <1>1, <2>2, <2>3, <2>4, DaemonSteps
<1>5. ASSUME NEW status \in {"completed", "cancelled"}, EndRun(status)
      PROVE  RunsInv'
  <2>1. PICK n : n = Msg("session", active, 0, status)
    OBVIOUS
  <2>2. /\ Emit(<<n>>) /\ active # None /\ active' = None /\ question = 0 /\ question' = 0
        /\ sessions' = [sessions EXCEPT ![active] = status] /\ sessionFile' = sessionFile
    BY <1>5, <2>1 DEF EndRun
  <2>3. n.run = active /\ n.type = "session"
    BY <2>1 DEF Msg
  <2>4. active \in Runs /\ awaits[active].phase # "idle" /\ ~Starts(active)
    BY <2>2 DEF RunsTyped
  <2>5. PICK r : r = active
    OBVIOUS
  <2>6. \A s \in Runs : (s = r \/ Over(s)) => Over(s)'
    BY <1>2, <2>2, <2>4, <2>5 DEF Over, RunsAssumption
  <2>7. Says(n) /\ Over(n.run)'
    <3>1. Over(r)'
      BY <2>4, <2>5, <2>6
    <3>2. n.run = r
      BY <2>3, <2>5
    <3>3. Over(n.run)'
      BY <3>1, <3>2 DEF Over, Starts
    <3> QED
      BY <2>3, <2>4, <3>3 DEF Says, PanelTypes
  <2>8. SaysOnly({n})
    <3>1. \A x \in {n} : Says(x) /\ (Final(x) => Over(x.run)')
      BY <2>7
    <3> QED
      BY <2>2, <3>1, EmitsOne DEF SaysOnly
  <2>9. DaemonTyped'
    <3>1. {s \in Runs : sessions'[s] # None} \subseteq {s \in Runs : sessions[s] # None} \cup {r}
      BY <2>2, <2>5 DEF RunsTyped
    <3>2. IsFiniteSet({s \in Runs : sessions[s] # None} \cup {r})
      BY FS_AddElement DEF RunsTyped
    <3>3. IsFiniteSet({s \in Runs : sessions'[s] # None})
      BY <3>1, <3>2, FS_Subset
    <3>4. sessions' \in [Runs -> Statuses]
      BY <2>2 DEF RunsTyped, Statuses, Terminal
    <3> QED
      BY <2>2, <3>3, <3>4 DEF DaemonTyped, RunsTyped
  <2>10. DaemonKept
    <3>1. \A s \in Runs : awaits[s].phase = "idle" => active' # s /\ sessions'[s] = None /\ sessionFile'[s] = None
      BY <2>2, <2>4 DEF RunsTyped, RunsAssumption
    <3>2. \A s \in Runs : sessions'[s] \in Terminal => Over(s)'
      BY <2>2, <2>5, <2>6 DEF RunsTyped
    <3> QED
      BY <2>2, <2>6, <3>1, <3>2 DEF DaemonKept
  <2> QED
    BY <1>1, <2>8, <2>9, <2>10, DaemonSteps
<1> QED
  BY <1>3, <1>4, <1>5

\* What is sent again to a panel that connects: the sessions as they are, and
\* the question of the run that has one.
LEMMA ReplaySays ==
  ASSUME RunsInv
  PROVE  /\ IsQueue(Replay)
         /\ \A i \in DOMAIN Replay : Says(Replay[i]) /\ (Final(Replay[i]) => Over(Replay[i].run))
<1> USE DEF RunsInv
<1> DEFINE known == {r \in Runs : sessions[r] # None}
           n == Cardinality(known)
           order == CHOOSE f \in [1 .. Cardinality(known) -> known] : \A r \in known : \E i \in DOMAIN f : f[i] = r
           resent == [i \in DOMAIN order |-> Msg("session", order[i], 0, sessions[order[i]])]
           asked == IF question = 0 THEN <<>> ELSE <<Msg("budget", active, question, None)>>
<1>1. n \in Nat /\ order \in [1..n -> known]
  <2>1. IsFiniteSet(known)
    BY DEF RunsTyped
  <2>2. n \in Nat
    BY <2>1, FS_CardinalityType
  <2>3. ExistsBijection(1..n, known)
    BY <2>1, FS_CardinalityType
  <2>4. \E f \in [1 .. n -> known] : \A r \in known : \E i \in DOMAIN f : f[i] = r
    <3>1. PICK f : f \in Bijection(1..n, known)
      BY <2>3 DEF ExistsBijection
    <3> HIDE DEF n
    <3>2. f \in [1..n -> known] /\ \A r \in known : \E i \in 1..n : f[i] = r
      BY <3>1 DEF Bijection, Surjection
    <3>3. DOMAIN f = 1..n
      BY <3>2
    <3>4. f \in [1..n -> known] /\ \A r \in known : \E i \in DOMAIN f : f[i] = r
      BY <3>2, <3>3
    <3> HIDE DEF known
    <3> QED
      BY <3>4, Zenon
  <2>5. order \in [1..n -> known]
    BY <2>4, Zenon
  <2> QED
    BY <2>2, <2>5
<1>2. Replay = resent \o asked
  BY DEF Replay
<1> HIDE DEF order
<1>3. resent \in Seq({resent[i] : i \in 1..n}) /\ DOMAIN resent = 1..n
  <2> HIDE DEF n
  <2>1. DOMAIN resent = 1..n /\ resent = [i \in 1..n |-> resent[i]]
    BY <1>1
  <2> HIDE DEF resent
  <2>2. resent \in [1..n -> {resent[i] : i \in 1..n}]
    BY <2>1
  <2> QED
    BY <1>1, <2>1, <2>2, SeqDef
<1>4. \A i \in DOMAIN resent : Says(resent[i]) /\ (Final(resent[i]) => Over(resent[i].run))
  <2> SUFFICES ASSUME NEW i \in DOMAIN resent
               PROVE  Says(resent[i]) /\ (Final(resent[i]) => Over(resent[i].run))
    OBVIOUS
  <2>1. PICK r : r = order[i]
    OBVIOUS
  <2>2. r \in Runs /\ sessions[r] # None
    BY <1>1, <2>1
  <2>3. resent[i].run = r /\ resent[i].type = "session" /\ resent[i].value = sessions[r]
    BY <1>1, <2>1 DEF Msg
  <2> HIDE DEF resent
  <2>4. Says(resent[i])
    BY <2>2, <2>3 DEF Says, PanelTypes
  <2>5. Final(resent[i]) => Over(resent[i].run)
    BY <2>2, <2>3 DEF Final
  <2> QED
    BY <2>4, <2>5
<1> HIDE DEF resent
<1>5. IsQueue(asked) /\ \A i \in DOMAIN asked : Says(asked[i]) /\ (Final(asked[i]) => Over(asked[i].run))
  <2>1. CASE question = 0
    <3>1. asked = <<>>
      BY <2>1
    <3> QED
      BY <3>1, NothingQueued
  <2>2. CASE question # 0
    <3>1. PICK m : m = Msg("budget", active, question, None)
      OBVIOUS
    <3>2. m.run = active /\ m.type = "budget" /\ active \in Runs /\ awaits[active].phase # "idle"
      BY <2>2, <3>1 DEF Msg, RunsTyped
    <3>3. Says(m) /\ ~Final(m)
      BY <3>2 DEF Says, PanelTypes, Final
    <3>4. asked = <<m>>
      BY <2>2, <3>1
    <3> HIDE DEF asked
    <3>5. asked \in Seq({m}) /\ \A i \in DOMAIN asked : asked[i] = m
      BY <3>4
    <3> QED
      BY <3>3, <3>5 DEF IsQueue
  <2> QED
    BY <2>1, <2>2
<1> HIDE DEF asked
<1>6. PICK q : q = Replay
  OBVIOUS
<1>7. IsQueue(resent) /\ IsJoin(q, resent, asked)
  BY <1>2, <1>3, <1>6 DEF IsQueue, IsJoin
<1>8. /\ IsQueue(q)
      /\ \A i \in DOMAIN q : (i \in DOMAIN resent /\ q[i] = resent[i]) \/ (\E k \in DOMAIN asked : q[i] = asked[k])
  BY <1>5, <1>7, Joined
<1>9. \A i \in DOMAIN q : Says(q[i]) /\ (Final(q[i]) => Over(q[i].run))
  BY <1>4, <1>5, <1>8
<1> QED
  BY <1>6, <1>8, <1>9

\* The panel connects again.
LEMMA ConnectsKeeps ==
  ASSUME RunsAssumption, RunsInv, PanelConnects
  PROVE  RunsInv'
<1> USE DEF RunsInv
<1>1. PICK n : n = FreshId
  OBVIOUS
<1>2. /\ panelInbox' = Replay /\ outbox' = <<>> /\ UNCHANGED <<active, sessions, sessionFile, question>>
      /\ \/ daemonInbox' = outbox /\ awaits' = awaits
         \/ \E r \in Runs : /\ Open(r) /\ awaits' = [awaits EXCEPT ![r].cancel = n, ![r].retry = FALSE]
                            /\ daemonInbox' = Append(outbox, Msg("cancel", r, n, None))
  BY <1>1 DEF PanelConnects, daemonVars, Unreconciled
<1>3. /\ awaits' = [r \in Runs |-> awaits'[r]] /\ \A r \in Runs : IsRun(awaits'[r])
      /\ \A r \in Runs : awaits'[r].phase = awaits[r].phase
  <2>1. CASE awaits' = awaits
    BY <2>1 DEF RunsTyped
  <2>2. ASSUME NEW r \in Runs, awaits' = [awaits EXCEPT ![r].cancel = n, ![r].retry = FALSE]
        PROVE  <1>3!:
    <3>1. PICK a : a = awaits[r]
      OBVIOUS
    <3>2. PICK y : y = [a EXCEPT !.cancel = n, !.retry = FALSE]
      OBVIOUS
    <3>3. IsRun(a)
      BY <3>1 DEF RunsTyped
    <3>4. IsRun(y) /\ y.phase = a.phase
      BY <3>2, <3>3 DEF IsRun, Fields
    <3>5. awaits' = [awaits EXCEPT ![r] = y]
      BY <2>2, <3>1, <3>2 DEF RunsTyped
    <3> QED
      BY <3>1, <3>4, <3>5 DEF RunsTyped
  <2> QED
    BY <1>2, <2>1, <2>2
<1>4. /\ IsQueue(daemonInbox')
      /\ \A i \in DOMAIN daemonInbox' : \/ \E k \in DOMAIN outbox : daemonInbox'[i] = outbox[k]
                                        \/ daemonInbox'[i].type = "cancel" /\ daemonInbox'[i].run \in Runs
                                             /\ awaits[daemonInbox'[i].run].phase = "open"
  <2>1. CASE daemonInbox' = outbox
    BY <2>1 DEF RunsTyped
  <2>2. ASSUME NEW r \in Runs, Open(r), daemonInbox' = Append(outbox, Msg("cancel", r, n, None))
        PROVE  <1>4!:
    <3>1. PICK m : m = Msg("cancel", r, n, None)
      OBVIOUS
    <3>2. m.type = "cancel" /\ m.run = r
      BY <3>1 DEF Msg
    <3>3. AddedTo(daemonInbox', outbox, m)
      BY <2>2, <3>1, OneAdded DEF IsMore, RunsTyped
    <3> QED
      BY <2>2, <3>2, <3>3 DEF AddedTo, Open
  <2> QED
    BY <1>2, <2>1, <2>2
<1>5. /\ IsQueue(panelInbox')
      /\ \A i \in DOMAIN panelInbox' : Says(panelInbox'[i]) /\ (Final(panelInbox'[i]) => Over(panelInbox'[i].run))
  BY <1>2, ReplaySays
<1>6. RunsTyped'
  BY <1>2, <1>3, <1>4, <1>5, NothingQueued DEF RunsTyped
<1>7. Begun(outbox)' /\ OfTypes(outbox, {"cancel", "decision"})'
  BY <1>2, NothingQueued DEF Begun, OfTypes
<1>8. Begun(daemonInbox)' /\ OfTypes(daemonInbox, {"start", "cancel", "decision"})'
  BY <1>3, <1>4 DEF Begun, OfTypes
<1>9. Begun(panelInbox)' /\ OfTypes(panelInbox, PanelTypes)'
  BY <1>3, <1>5 DEF Begun, OfTypes, Says
<1>10. \A i \in DOMAIN daemonInbox' : daemonInbox'[i].type # "start"
  BY <1>4 DEF OfTypes
<1>11. \A r \in Runs : ~Starts(r)' /\ (Over(r) => Over(r)')
  BY <1>2, <1>10 DEF Starts, Over
<1>12. \A r \in Runs : awaits'[r].phase = "idle" => active' # r /\ sessions'[r] = None /\ sessionFile'[r] = None
  BY <1>2, <1>3
<1>13. (active' # None => sessions'[active'] = "running" /\ ~Starts(active)') /\ (question' # 0 => active' # None)
  BY <1>2, <1>10 DEF Starts
<1>14. \A r \in Runs : sessions'[r] \in Terminal \/ awaits'[r].phase \in SettledPhases => Over(r)'
  BY <1>2, <1>3, <1>11
<1>15. \A i \in DOMAIN panelInbox' : Final(panelInbox'[i]) => Over(panelInbox[i].run)'
  <2> SUFFICES ASSUME NEW i \in DOMAIN panelInbox', Final(panelInbox'[i])
               PROVE  Over(panelInbox[i].run)'
    OBVIOUS
  <2>1. PICK r : r = panelInbox'[i].run
    OBVIOUS
  <2>2. r \in Runs /\ Over(r)
    BY <1>5, <2>1 DEF Says
  <2>3. Over(r)'
    BY <1>11, <2>2
  <2> QED
    BY <2>1, <2>3 DEF Over, Starts
<1> QED
  BY <1>6, <1>7, <1>8, <1>9, <1>10, <1>12, <1>13, <1>14, <1>15

\* The invariant is kept by every step of the panel, the socket and the daemon.
LEMMA RunsKept ==
  ASSUME RunsAssumption, RunsInv, [RunsNext]_runsVars
  PROVE  RunsInv'
<1>1. CASE PanelHandles
  BY <1>1, PanelHandlesKeeps
<1>2. CASE DropConnection \/ ConnectFails \/ ReloadPanel \/ Crash
  BY <1>2, LosesConnection
<1>3. CASE PanelConnects
  BY <1>3, ConnectsKeeps
<1>4. ASSUME NEW r \in Runs,
             \/ StartRun(r) \/ StartTimesOut(r) \/ StopRun(r) \/ CancelTimesOut(r)
             \/ CancelAgain(r) \/ DecideBudget(r) \/ StopRestoredRun(r)
      PROVE  RunsInv'
  <2>1. CASE StartRun(r)
    BY <2>1, StartKeeps
  <2>2. CASE ~StartRun(r)
    BY <1>4, <2>2, PanelActs
  <2> QED
    BY <2>1, <2>2
<1>5. CASE DaemonReceives
  <2>1. PICK m : m = Head(daemonInbox)
    OBVIOUS
  <2>2. m.type \in {"start", "cancel", "decision"}
    BY <1>5, <2>1, FirstOfDaemon DEF DaemonReceives
  <2>3. \/ m.type = "start" /\ HandleStart(m.run)
        \/ HandleCancel(m.run, m.id) \/ HandleDecision(m.run, m.id)
    BY <1>5, <2>1, <2>2 DEF DaemonReceives
  <2>4. CASE m.type = "start" /\ HandleStart(m.run)
    BY <1>5, <2>1, <2>4, AcceptsStart
  <2>5. CASE HandleCancel(m.run, m.id) \/ HandleDecision(m.run, m.id)
    BY <1>5, <2>1, <2>5, ReceivesRest
  <2> QED
    BY <2>3, <2>4, <2>5
<1>6. CASE AskForBudget \/ SaveSessions \/ (\E status \in {"completed", "cancelled"} : EndRun(status))
  BY <1>6, DaemonActs
<1>7. CASE UNCHANGED runsVars
  <2>1. UNCHANGED <<awaits, outbox, daemonInbox, panelInbox, active, sessions, sessionFile, question>>
    BY <1>7 DEF runsVars, panelRunVars, wireVars, daemonVars
  <2>2. SaysOnly({})
    BY <2>1 DEF SaysOnly, RunsInv, RunsTyped
  <2>3. DaemonTyped'
    BY <2>1 DEF DaemonTyped, RunsInv, RunsTyped
  <2>4. DaemonKept
    BY <2>1 DEF DaemonKept, Over, Starts, RunsInv
  <2> QED
    BY <2>1, <2>2, <2>3, <2>4, DaemonSteps
<1> QED
  BY <1>1, <1>2, <1>3, <1>4, <1>5, <1>6, <1>7 DEF RunsNext

\* At the beginning nothing has begun.
LEMMA RunsBegin ==
  ASSUME RunsAssumption, RunsInit
  PROVE  RunsInv
<1>1. DOMAIN outbox = {} /\ DOMAIN daemonInbox = {} /\ DOMAIN panelInbox = {}
      /\ IsQueue(outbox) /\ IsQueue(daemonInbox) /\ IsQueue(panelInbox)
  BY NothingQueued DEF RunsInit
<1>2. /\ awaits = [r \in Runs |-> Idle] /\ active = None /\ question = 0
      /\ sessions = [r \in Runs |-> None] /\ sessionFile = sessions
  BY DEF RunsInit
<1>3. {r \in Runs : sessions[r] # None} = {} /\ {r \in Runs : sessionFile[r] # None} = {}
  BY <1>2
<1>4. RunsTyped
  BY <1>1, <1>2, <1>3, IdleIsRun, FS_EmptySet DEF RunsTyped, Statuses
<1>5. \A r \in Runs : awaits[r].phase = "idle" /\ active # r /\ sessions[r] = None /\ sessionFile[r] = None
  BY <1>2, IdleIsRun DEF RunsAssumption
<1>6. \A r \in Runs : ~(sessions[r] \in Terminal \/ awaits[r].phase \in SettledPhases)
  BY <1>5 DEF RunsAssumption, Terminal, SettledPhases
<1> QED
  BY <1>1, <1>2, <1>4, <1>5, <1>6 DEF RunsInv, Begun, OfTypes

\* A run that the panel has settled is over in the daemon or will never begin
\* (mcpBridge.ts, agentRunner.ts), however many messages, connections, panels
\* and daemons are lost on the way.
THEOREM SettledRunsAreOver == RunsAssumption => (RunsSpec => []SettledIsOver)
<1>1. RunsInv => SettledIsOver
  BY DEF RunsInv, SettledIsOver, SettledPhases, Over, Starts
<1>2. ASSUME RunsAssumption
      PROVE  RunsSpec => []SettledIsOver
  <2>1. RunsInit => RunsInv
    BY <1>2, RunsBegin
  <2>2. RunsInv /\ [RunsNext]_runsVars => RunsInv'
    BY <1>2, RunsKept
  <2> QED
    BY <1>1, <2>1, <2>2, PTL DEF RunsSpec
<1> QED
  BY <1>2

-----------------------------------------------------------------------------
(* ConversationMemory *)


\* A memory, or none.
MaybeMemory == Memories \cup {NoMemory}

MemoryTyped ==
  /\ memory \in MaybeMemory /\ snapshot \in MaybeMemory
  /\ kept.memory \in MaybeMemory
  /\ messages \subseteq Messages /\ kept.messages \subseteq Messages
  /\ turn \in 0 .. MaxTurns
  /\ turnStage \in [Turns -> {"none", "preparing", "running", "remote", "over"}]
  /\ promise = [t \in Turns |-> promise[t]]
  /\ \A t \in Turns : promise[t] # NoTask => promise[t].task \in TaskRecords /\ promise[t].revision \in Nat

Coherent(m, there) == HasEvidence(m, there) /\ DoneIsDecided(m)

\* One turn at a time is under way, the newest one unless the panel has forgotten it.
Goes(t) == turnStage[t] \in {"preparing", "running", "remote"}
OneTurn ==
  /\ \A t, u \in Turns : Goes(t) /\ Goes(u) => t = u
  /\ \A t \in Turns : turnStage[t] # "none" => t <= turn
  /\ \A t \in Turns : turnStage[t] \in {"preparing", "running"} => newest = t
  /\ \A t \in Turns : promise[t] # NoTask => turnStage[t] = "over"
  /\ tombstone => deleted
  /\ deleted => memory = NoMemory /\ (tombstone \/ \A t \in Turns : ~Goes(t))

\* Revisions only grow while a turn runs and while its second patch may come; they have not
\* grown since its end only if nothing else has changed the memory.
Revisions ==
  /\ \A t \in Turns : turnStage[t] = "running" /\ ~deleted => Known(snapshot).revision <= Known(memory).revision
  /\ \A t \in Turns : promise[t] # NoTask /\ newest = t /\ t \notin stopped /\ ~deleted =>
       /\ memory # NoMemory /\ promise[t].revision <= memory.revision
       /\ promise[t].revision = memory.revision => intact = t

\* A memory without a task and without decisions.
Unburdened(m) == m = NoMemory \/ (m.about = NoTask /\ ~Undecided(m.entries))
FreeToStart ==
  \A t \in superseding : t \in Turns /\ turnStage[t] = "preparing" /\ Unburdened(memory)

MemoryInv ==
  /\ MemoryTyped
  /\ Coherent(memory, messages) /\ Coherent(kept.memory, kept.messages)
  /\ OneTurn /\ Revisions /\ FreeToStart

-----------------------------------------------------------------------------
\* More messages take away no evidence.
LEMMA EvidenceGrows ==
  ASSUME NEW m, NEW there, NEW more, there \subseteq more, HasEvidence(m, there)
  PROVE  HasEvidence(m, more)
BY DEF HasEvidence, Supported

\* Whether an entry is supported depends on its kind and what it cites.
LEMMA SupportIs ==
  ASSUME NEW e, NEW x, e.kind = x.kind, e.cites = x.cites, NEW there, Supported(x, there)
  PROVE  Supported(e, there)
BY DEF Supported, Needs

\* Decisions that are resolved keep their evidence.
LEMMA ResolvedIs ==
  ASSUME NEW old, old \subseteq EntryRecords, NEW there, \A x \in old : Supported(x, there)
  PROVE  /\ Resolved(old) \subseteq EntryRecords /\ ~Undecided(Resolved(old))
         /\ \A x \in Resolved(old) : Supported(x, there)
<1>1. ASSUME NEW y \in Resolved(old)
      PROVE  y \in EntryRecords /\ Supported(y, there) /\ ~(y.kind = "decision" /\ y.live)
  <2>1. PICK x \in old : y = IF x.kind = "decision" THEN [x EXCEPT !.live = FALSE] ELSE x
    BY DEF Resolved
  <2>2. x \in EntryRecords /\ Supported(x, there)
    OBVIOUS
  <2>3. CASE x.kind = "decision"
    <3>1. y \in EntryRecords /\ y.kind = x.kind /\ y.cites = x.cites /\ y.live = FALSE
      BY <2>1, <2>2, <2>3 DEF EntryRecords
    <3> QED
      BY <2>2, <3>1, SupportIs
  <2>4. CASE x.kind # "decision"
    BY <2>1, <2>2, <2>4
  <2> QED
    BY <2>3, <2>4
<1> QED
  BY <1>1 DEF Undecided

\* What revalidation keeps of a memory has evidence, and it makes no task look
\* more complete than it is.
LEMMA RevalidatedIs ==
  ASSUME MemoryAssumption, NEW m \in MaybeMemory, NEW there, DoneIsDecided(m)
  PROVE  Revalidated(m, there) \in MaybeMemory /\ Coherent(Revalidated(m, there), there)
<1>1. CASE m = NoMemory
  BY <1>1 DEF Revalidated, Coherent, HasEvidence, DoneIsDecided, MaybeMemory
<1>2. CASE m # NoMemory
  <2>0. m \in Memories
    BY <1>2 DEF MaybeMemory
  <2>1. \A e \in EntryRecords : /\ Narrowed(e, there) \in EntryRecords
                                /\ Narrowed(e, there).kind = e.kind /\ Narrowed(e, there).live = e.live
                                /\ Narrowed(e, there).cites = e.cites \cap there
    BY DEF EntryRecords, Narrowed
  <2>2. \A e \in TaskRecords : /\ Narrowed(e, there) \in TaskRecords
                               /\ Narrowed(e, there).kind = e.kind /\ Narrowed(e, there).status = e.status
                               /\ Narrowed(e, there).cites = e.cites \cap there
    BY DEF TaskRecords, Narrowed
  <2>3. \A e \in EntryRecords \cup TaskRecords : Supported(e, there) => Supported(Narrowed(e, there), there)
    BY <2>1, <2>2 DEF Supported, Needs
  <2> DEFINE about == IF m.about # NoTask /\ Supported(m.about, there) THEN Narrowed(m.about, there) ELSE NoTask
             entries == {Narrowed(e, there) : e \in {x \in m.entries : Supported(x, there)}}
  <2>4. m.about \in TaskRecords \cup {NoTask} /\ m.entries \subseteq EntryRecords /\ m.revision \in Nat
    BY <2>0 DEF Memories
  <2>5. /\ about \in TaskRecords \cup {NoTask} /\ entries \subseteq EntryRecords
        /\ about # NoTask => Supported(about, there) /\ m.about # NoTask /\ about.status = m.about.status
        /\ \A e \in entries : Supported(e, there)
        /\ Undecided(entries) => Undecided(m.entries)
    BY <2>1, <2>2, <2>3, <2>4 DEF Undecided
  <2>6. Revalidated(m, there) = [m EXCEPT !.about = about, !.entries = entries]
    BY <1>2, <2>0 DEF Revalidated, Memories
  <2> HIDE DEF about, entries
  <2>7. /\ Revalidated(m, there) \in Memories
        /\ Revalidated(m, there).about = about /\ Revalidated(m, there).entries = entries
    BY <2>0, <2>5, <2>6 DEF Memories
  <2> QED
    BY <1>2, <2>5, <2>7 DEF Coherent, HasEvidence, DoneIsDecided, MaybeMemory
<1> QED
  BY <1>1, <1>2

\* What is stored rests on messages that are stored with it.
LEMMA StoredIs ==
  ASSUME MemoryAssumption, NEW m \in MaybeMemory, NEW there, there \subseteq Messages, DoneIsDecided(m)
  PROVE  /\ Stored(m, there).memory \in MaybeMemory /\ Stored(m, there).messages \subseteq there
         /\ Coherent(Stored(m, there).memory, Stored(m, there).messages)
<1>1. PICK some : some = KeptMessages(there, m)
  OBVIOUS
<1>2. some \subseteq there
  BY <1>1 DEF KeptMessages, Latest
<1>3. Stored(m, there) = [memory |-> Revalidated(m, some), messages |-> some]
  BY <1>1 DEF Stored
<1> QED
  BY <1>2, <1>3, RevalidatedIs

\* What a turn may say.
PatchOf(p) == p.task \in TaskRecords /\ p.entries \subseteq EntryRecords

\* A patch is taken over with its evidence only, and completes no task before its
\* decisions are made.
LEMMA MergedIs ==
  ASSUME MemoryAssumption, NEW m \in MaybeMemory, NEW patch, PatchOf(patch), NEW there, Coherent(m, there)
  PROVE  /\ Merged(m, patch, there) \in Memories
         /\ Merged(m, patch, there).revision = Known(m).revision + 1
         /\ Coherent(Merged(m, patch, there), there)
<1>1. PICK old : old = Known(m)
  OBVIOUS
<1>2. old \in Memories /\ HasEvidence(old, there)
  <2>1. Empty \in Memories /\ HasEvidence(Empty, there)
    BY DEF Empty, Memories, HasEvidence
  <2> QED
    BY <1>1, <2>1 DEF Known, MaybeMemory, Coherent
<1>3. \A e \in EntryRecords : /\ Narrowed(e, there) \in EntryRecords
                              /\ Narrowed(e, there).kind = e.kind
                              /\ Narrowed(e, there).cites = e.cites \cap there
  BY DEF EntryRecords, Narrowed
<1>4. \A e \in TaskRecords : /\ Narrowed(e, there) \in TaskRecords
                             /\ Narrowed(e, there).kind = e.kind
                             /\ Narrowed(e, there).cites = e.cites \cap there
  BY DEF TaskRecords, Narrowed
<1>5. \A e \in EntryRecords \cup TaskRecords : Supported(e, there) => Supported(Narrowed(e, there), there)
  BY <1>3, <1>4 DEF Supported, Needs
<1> DEFINE stated == IF patch.task # NoTask /\ Supported(patch.task, there) THEN Narrowed(patch.task, there) ELSE NoTask
           switched == stated # NoTask /\ old.about # NoTask /\ stated.id # old.about.id
           before == IF switched THEN Resolved(old.entries) ELSE old.entries
           new == {Narrowed(e, there) : e \in {x \in patch.entries : Supported(x, there)}}
           entries == {x \in before : \A e \in new : x.id # e.id} \cup new
           chosen == IF stated = NoTask THEN old.about ELSE stated
           about == SettledTask(chosen, entries)
<1>6. Merged(m, patch, there) = [revision |-> old.revision + 1, entries |-> entries, about |-> about]
  BY <1>1 DEF Merged
<1>7. stated \in TaskRecords \cup {NoTask} /\ (stated # NoTask => Supported(stated, there))
  BY <1>4, <1>5 DEF PatchOf
<1>8. new \subseteq EntryRecords /\ \A e \in new : Supported(e, there)
  BY <1>3, <1>5 DEF PatchOf
<1>9. /\ old.entries \subseteq EntryRecords /\ old.revision \in Nat /\ old.about \in TaskRecords \cup {NoTask}
      /\ \A e \in old.entries : Supported(e, there)
      /\ old.about # NoTask => Supported(old.about, there)
  BY <1>2 DEF Memories, HasEvidence, MemoryAssumption
<1>10. Resolved(old.entries) \subseteq EntryRecords /\ \A e \in Resolved(old.entries) : Supported(e, there)
  BY <1>9, ResolvedIs
<1> HIDE DEF stated, new
<1>11. before \subseteq EntryRecords /\ \A e \in before : Supported(e, there)
  BY <1>9, <1>10
<1> HIDE DEF before
<1>12. entries \subseteq EntryRecords /\ \A e \in entries : Supported(e, there)
  BY <1>8, <1>11
<1> HIDE DEF entries
<1>13. chosen \in TaskRecords \cup {NoTask} /\ (chosen # NoTask => Supported(chosen, there))
  BY <1>7, <1>9
<1> HIDE DEF chosen
<1>14. /\ about \in TaskRecords \cup {NoTask} /\ (about # NoTask => Supported(about, there))
       /\ about # NoTask => about.status # "completed" \/ ~Undecided(entries)
  <2>1. CASE chosen # NoTask /\ chosen.status = "completed" /\ Undecided(entries)
    <3>1. about = [chosen EXCEPT !.status = "open"] /\ chosen \in TaskRecords
      BY <1>13, <2>1 DEF SettledTask
    <3>2. about \in TaskRecords /\ about.status = "open" /\ about.kind = chosen.kind /\ about.cites = chosen.cites
      BY <3>1 DEF TaskRecords
    <3> QED
      BY <1>13, <2>1, <3>2 DEF Supported, Needs
  <2>2. CASE ~(chosen # NoTask /\ chosen.status = "completed" /\ Undecided(entries))
    <3>1. about = chosen
      BY <2>2 DEF SettledTask
    <3> QED
      BY <1>13, <2>2, <3>1
  <2> QED
    BY <2>1, <2>2
<1> HIDE DEF about
<1>15. PICK r : r = Merged(m, patch, there)
  OBVIOUS
<1>16. /\ r \in Memories /\ r.revision = old.revision + 1 /\ r.entries = entries /\ r.about = about
  BY <1>6, <1>9, <1>12, <1>14, <1>15 DEF Memories
<1>17. Coherent(r, there)
  BY <1>12, <1>14, <1>16 DEF Coherent, HasEvidence, DoneIsDecided
<1> QED
  BY <1>1, <1>15, <1>16, <1>17

\* A superseded memory has no task, and its revision is a new one.
LEMMA SupersededIs ==
  ASSUME MemoryAssumption, NEW m \in MaybeMemory, NEW there, Coherent(m, there)
  PROVE  /\ TaskSuperseded(m) \in MaybeMemory /\ Coherent(TaskSuperseded(m), there) /\ Unburdened(TaskSuperseded(m))
         /\ m = NoMemory => TaskSuperseded(m) = NoMemory
         /\ m # NoMemory => TaskSuperseded(m) \in Memories /\ TaskSuperseded(m).revision = m.revision + 1
<1>1. CASE m = NoMemory
  BY <1>1 DEF TaskSuperseded, Unburdened
<1>2. CASE m # NoMemory
  <2>1. m \in Memories /\ m.entries \subseteq EntryRecords /\ m.revision \in Nat
    BY <1>2 DEF MaybeMemory, Memories
  <2>2. PICK e : e = Resolved(m.entries)
    OBVIOUS
  <2>3. \A x \in m.entries : Supported(x, there)
    BY <1>2 DEF Coherent, HasEvidence
  <2>4. e \subseteq EntryRecords /\ ~Undecided(e)
    BY <2>1, <2>2, <2>3, ResolvedIs
  <2>5. \A x \in e : Supported(x, there)
    BY <2>1, <2>2, <2>3, ResolvedIs
  <2>6. PICK s : s = TaskSuperseded(m)
    OBVIOUS
  <2>7. s = [revision |-> m.revision + 1, about |-> NoTask, entries |-> e]
    <3>1. s = [m EXCEPT !.revision = @ + 1, !.about = NoTask, !.entries = Resolved(@)]
      BY <1>2, <2>6 DEF TaskSuperseded
    <3>2. m = [revision |-> m.revision, about |-> m.about, entries |-> m.entries]
      BY <2>1 DEF Memories
    <3>3. PICK v, a, w : v = m.revision /\ a = m.about /\ w = m.entries
      OBVIOUS
    <3>4. m = [revision |-> v, about |-> a, entries |-> w]
      BY <3>2, <3>3
    <3>5. s = [revision |-> v + 1, about |-> NoTask, entries |-> Resolved(w)]
      BY <3>1, <3>4
    <3> QED
      BY <2>2, <3>3, <3>5
  <2>8. s \in Memories /\ s.revision = m.revision + 1 /\ s.about = NoTask /\ s.entries = e
    BY <2>1, <2>4, <2>7 DEF Memories
  <2>9. Coherent(s, there) /\ Unburdened(s)
    BY <2>4, <2>5, <2>8 DEF Coherent, HasEvidence, DoneIsDecided, Unburdened
  <2> QED
    BY <1>2, <2>6, <2>8, <2>9 DEF MaybeMemory
<1> QED
  BY <1>1, <1>2

-----------------------------------------------------------------------------
\* A turn begins.
LEMMA BeginKeeps ==
  ASSUME MemoryAssumption, MemoryInv, NEW supersedes, BeginTurn(supersedes)
  PROVE  MemoryInv'
<1> USE DEF MemoryInv
<1>1. PICK t : t = turn + 1
  OBVIOUS
<1>2. /\ t \in Turns /\ turn < t /\ turn' = t /\ ~deleted /\ turnStage[t] = "none" /\ promise[t] = NoTask
      /\ turn' \in 0 .. MaxTurns
  BY <1>1 DEF BeginTurn, MemoryTyped, OneTurn, Turns, MemoryAssumption
<1>3. messages' = messages \cup {<<t, "user">>, <<t, "assistant">>} /\ messages' \subseteq Messages
  BY <1>1, <1>2 DEF BeginTurn, MemoryTyped, Messages, TurnRoles
<1>4. UNCHANGED <<kept, stopped, snapshot, promise, deleted, tombstone>>
  BY DEF BeginTurn
<1>5. \/ supersedes # 0 /\ memory' = TaskSuperseded(memory)
      \/ supersedes = 0 /\ memory' = memory /\ intact' = intact
  BY DEF BeginTurn
<1>6. /\ memory' \in MaybeMemory /\ Coherent(memory', messages)
      /\ Unburdened(memory) => Unburdened(memory')
      /\ supersedes # 0 => Unburdened(memory')
      /\ memory # NoMemory => memory' # NoMemory /\ memory'.revision \in Nat
                              /\ (memory'.revision > memory.revision \/ (memory' = memory /\ intact' = intact))
      /\ memory = NoMemory => memory' = NoMemory
  <2>1. CASE supersedes = 0
    BY <1>5, <2>1 DEF MemoryTyped, MaybeMemory, Memories
  <2>2. CASE supersedes # 0
    <3>1. memory \in MaybeMemory /\ memory' = TaskSuperseded(memory)
      BY <1>5, <2>2 DEF MemoryTyped
    <3>2. /\ memory' \in MaybeMemory /\ Coherent(memory', messages) /\ Unburdened(memory')
          /\ memory = NoMemory => memory' = NoMemory
          /\ memory # NoMemory => memory' \in Memories /\ memory'.revision = memory.revision + 1
      BY <3>1, SupersededIs
    <3>3. memory # NoMemory => memory.revision \in Nat
      BY <3>1 DEF MaybeMemory, Memories
    <3> QED
      BY <3>2, <3>3 DEF MemoryAssumption
  <2> QED
    BY <2>1, <2>2
<1>7. Coherent(memory', messages')
  BY <1>3, <1>6, EvidenceGrows DEF Coherent
<1>8. \/ turnStage' = [turnStage EXCEPT ![t] = "over"] /\ UNCHANGED <<newest, superseding>>
      \/ /\ NothingRuns /\ turnStage' = [turnStage EXCEPT ![t] = "preparing"] /\ newest' = t
         /\ superseding' = IF supersedes # 0 THEN {t} ELSE {}
  BY <1>1 DEF BeginTurn
<1>9. turnStage' \in [Turns -> {"none", "preparing", "running", "remote", "over"}]
  BY <1>8 DEF MemoryTyped
<1>10. MemoryTyped'
  BY <1>2, <1>3, <1>4, <1>6, <1>9 DEF MemoryTyped
<1>11. Known(memory).revision <= Known(memory').revision
  BY <1>6 DEF Known, Empty, MemoryTyped, MaybeMemory, Memories
<1>12. CASE turnStage' = [turnStage EXCEPT ![t] = "over"] /\ UNCHANGED <<newest, superseding>>
  <2>1. \A u \in Turns : turnStage'[u] = turnStage[u] \/ (u = t /\ turnStage'[u] = "over")
    BY <1>12 DEF MemoryTyped
  <2>2. OneTurn'
    BY <1>2, <1>4, <1>6, <1>12, <2>1 DEF OneTurn, Goes, MemoryTyped, Turns
  <2>3. \A u \in Turns : turnStage'[u] = "running" => Known(snapshot).revision <= Known(memory').revision
    <3>1. \A u \in Turns : turnStage'[u] = "running" => Known(snapshot).revision <= Known(memory).revision
      BY <1>2, <2>1 DEF Revisions
    <3>2. Known(snapshot).revision \in Nat /\ Known(memory).revision \in Nat /\ Known(memory').revision \in Nat
      BY <1>6 DEF Known, Empty, MemoryTyped, MaybeMemory, Memories
    <3> QED
      BY <1>11, <3>1, <3>2
  <2>4. \A u \in Turns : promise[u] # NoTask /\ newest = u /\ u \notin stopped =>
          /\ memory' # NoMemory /\ promise[u].revision <= memory'.revision
          /\ promise[u].revision = memory'.revision => intact' = u
    <3> SUFFICES ASSUME NEW u \in Turns, promise[u] # NoTask, newest = u, u \notin stopped
                 PROVE  /\ memory' # NoMemory /\ promise[u].revision <= memory'.revision
                        /\ promise[u].revision = memory'.revision => intact' = u
      OBVIOUS
    <3>1. /\ memory # NoMemory /\ promise[u].revision <= memory.revision
          /\ promise[u].revision = memory.revision => intact = u
      BY <1>2 DEF Revisions
    <3>2. promise[u].revision \in Nat /\ memory.revision \in Nat
      BY <3>1 DEF MemoryTyped, MaybeMemory, Memories
    <3> QED
      BY <1>6, <3>1, <3>2
  <2>5. Revisions'
    BY <1>4, <1>12, <2>3, <2>4 DEF Revisions
  <2>6. FreeToStart'
    BY <1>2, <1>6, <1>12, <2>1 DEF FreeToStart
  <2> QED
    BY <1>4, <1>7, <1>10, <2>2, <2>5, <2>6
<1>13. CASE /\ NothingRuns /\ turnStage' = [turnStage EXCEPT ![t] = "preparing"] /\ newest' = t
            /\ superseding' = IF supersedes # 0 THEN {t} ELSE {}
  <2>1. \A u \in Turns : (u # t /\ turnStage'[u] = turnStage[u] /\ ~Goes(u)) \/ (u = t /\ turnStage'[u] = "preparing")
    BY <1>13 DEF MemoryTyped, NothingRuns, Goes
  <2>2. OneTurn'
    BY <1>2, <1>4, <1>6, <1>13, <2>1 DEF OneTurn, Goes, MemoryTyped, Turns
  <2>3. Revisions'
    BY <1>2, <1>4, <1>13, <2>1 DEF Revisions, Goes
  <2>4. FreeToStart'
    BY <1>2, <1>6, <1>13, <2>1 DEF FreeToStart
  <2> QED
    BY <1>4, <1>7, <1>10, <2>2, <2>3, <2>4
<1> QED
  BY <1>8, <1>12, <1>13

\* A turn starts, is stopped, or fails.
LEMMA TurnMoves ==
  ASSUME MemoryAssumption, MemoryInv, NEW t \in Turns, StartTurn(t) \/ StopTurn(t) \/ FailTurn(t)
  PROVE  MemoryInv'
<1> USE DEF MemoryInv
<1>1. UNCHANGED <<memory, messages, kept, turn, newest, promise, deleted, intact>>
  BY DEF StartTurn, StopTurn, FailTurn
<1>2. Known(memory).revision \in Nat
  BY DEF Known, Empty, MemoryTyped, MaybeMemory, Memories
<1>3. CASE StartTurn(t)
  <2>1. /\ turnStage[t] = "preparing" /\ turnStage' = [turnStage EXCEPT ![t] = "running"]
        /\ snapshot' = memory /\ superseding' = superseding \ {t} /\ UNCHANGED <<stopped, tombstone>>
    BY <1>3 DEF StartTurn
  <2>2. \A u \in Turns : (u # t /\ turnStage'[u] = turnStage[u]) \/ (u = t /\ turnStage'[u] = "running")
    BY <2>1 DEF MemoryTyped
  <2>3. MemoryTyped'
    BY <1>1, <2>1 DEF MemoryTyped
  <2>4. OneTurn'
    BY <1>1, <2>1, <2>2 DEF OneTurn, Goes
  <2>5. Revisions'
    BY <1>1, <1>2, <2>1 DEF Revisions
  <2>6. FreeToStart'
    BY <1>1, <2>1, <2>2 DEF FreeToStart
  <2> QED
    BY <1>1, <2>3, <2>4, <2>5, <2>6
<1>4. CASE StopTurn(t)
  <2>1. stopped' = stopped \cup {t} /\ UNCHANGED <<turnStage, superseding, snapshot, tombstone>>
    BY <1>4 DEF StopTurn
  <2>2. MemoryTyped' /\ OneTurn'
    BY <1>1, <2>1 DEF MemoryTyped, OneTurn, Goes
  <2>3. Revisions' /\ FreeToStart'
    BY <1>1, <2>1 DEF Revisions, FreeToStart
  <2> QED
    BY <1>1, <2>2, <2>3
<1>5. CASE FailTurn(t)
  <2>1. /\ Goes(t) /\ turnStage' = [turnStage EXCEPT ![t] = "over"] /\ tombstone' = FALSE
        /\ snapshot' = NoMemory /\ superseding' = superseding \ {t} /\ UNCHANGED <<stopped>>
    BY <1>5 DEF FailTurn, Goes
  <2>2. \A u \in Turns : turnStage'[u] = (IF u = t THEN "over" ELSE turnStage[u])
    BY <2>1 DEF MemoryTyped
  <2>3. \A u \in Turns : u # t => ~Goes(u)
    BY <2>1 DEF OneTurn
  <2>4. MemoryTyped'
    BY <1>1, <2>1 DEF MemoryTyped, MaybeMemory
  <2>5. OneTurn'
    BY <1>1, <2>1, <2>2, <2>3 DEF OneTurn, Goes
  <2>6. Revisions'
    BY <1>1, <2>1, <2>2, <2>3 DEF Revisions, Goes
  <2>7. FreeToStart'
    BY <1>1, <2>1, <2>2 DEF FreeToStart
  <2> QED
    BY <1>1, <2>4, <2>5, <2>6, <2>7
<1> QED
  BY <1>3, <1>4, <1>5

\* The end of a turn is merged into the memory it started from or a later one.
LEMMA EndKeeps ==
  ASSUME MemoryAssumption, MemoryInv, NEW t \in Turns, NEW status \in {"completed", "open"},
         NEW switched \in BOOLEAN, EndTurn(t, status, switched)
  PROVE  MemoryInv'
<1> USE DEF MemoryInv
<1>1. PICK o : o = Outcome(t, status, switched)
  OBVIOUS
<1>2. /\ turnStage[t] = "running" /\ turnStage' = [turnStage EXCEPT ![t] = "over"] /\ tombstone' = FALSE
      /\ messages' = IF tombstone THEN messages ELSE messages \cup {<<t, "tool">>}
      /\ promise' = [promise EXCEPT ![t] = [revision |-> Known(snapshot).revision + 1, task |-> o.task]]
      /\ snapshot' = NoMemory
      /\ IF t \in stopped \/ tombstone THEN UNCHANGED <<memory, intact>>
         ELSE memory' = Merged(memory, o, messages') /\ intact' = t
      /\ UNCHANGED <<kept, turn, superseding, stopped, newest, deleted>>
  BY <1>1 DEF EndTurn, runMarks
<1>3. /\ newest = t
      /\ deleted => tombstone
      /\ \A u \in Turns : u # t => ~Goes(u)
  BY <1>2 DEF OneTurn, Goes
<1>4. \A u \in Turns : turnStage'[u] = (IF u = t THEN "over" ELSE turnStage[u])
  BY <1>2 DEF MemoryTyped
<1>5. PatchOf(o)
  <2>1. Of(t) \subseteq Messages
    BY DEF Of, Messages, TurnRoles
  <2>2. snapshot # NoMemory /\ snapshot.about # NoTask => snapshot.about.id \in Turns
    BY DEF MemoryTyped, MaybeMemory, Memories, TaskRecords
  <2> QED
    BY <1>1, <2>1, <2>2 DEF PatchOf, Outcome, TaskRecords
<1>6. messages \subseteq messages' /\ messages' \subseteq Messages
  BY <1>2 DEF MemoryTyped, Messages, TurnRoles
<1>7. Coherent(memory, messages')
  BY <1>6, EvidenceGrows DEF Coherent
<1>8. Known(snapshot).revision \in Nat /\ Known(memory).revision \in Nat
  BY DEF Known, Empty, MemoryTyped, MaybeMemory, Memories
<1>9. CASE t \in stopped \/ tombstone
  <2>1. memory' = memory
    BY <1>2, <1>9
  <2>2. MemoryTyped'
    BY <1>2, <1>5, <1>6, <1>8, <2>1 DEF MemoryTyped, MaybeMemory, PatchOf
  <2>3. OneTurn'
    BY <1>2, <1>3, <1>4, <2>1 DEF OneTurn, Goes, MemoryTyped
  <2>4. Revisions'
    <3>1. \A u \in Turns : turnStage'[u] # "running"
      BY <1>3, <1>4 DEF Goes
    <3>2. t \in stopped' \/ deleted'
      BY <1>2, <1>9 DEF OneTurn
    <3>3. \A u \in Turns : newest' = u => u = t
      BY <1>2, <1>3
    <3> QED
      BY <3>1, <3>2, <3>3 DEF Revisions
  <2>5. FreeToStart'
    BY <1>2, <1>4, <2>1 DEF FreeToStart
  <2> QED
    BY <1>2, <1>7, <2>1, <2>2, <2>3, <2>4, <2>5
<1>10. CASE ~(t \in stopped \/ tombstone)
  <2>1. memory' = Merged(memory, o, messages') /\ intact' = t /\ ~deleted
    BY <1>2, <1>3, <1>10
  <2>2. /\ memory' \in Memories /\ memory'.revision = Known(memory).revision + 1
        /\ Coherent(memory', messages')
    BY <1>5, <1>7, <2>1, MergedIs DEF MemoryTyped
  <2>3. MemoryTyped'
    BY <1>2, <1>5, <1>6, <1>8, <2>2 DEF MemoryTyped, MaybeMemory, PatchOf
  <2>4. OneTurn'
    BY <1>2, <1>3, <1>4, <2>1 DEF OneTurn, Goes, MemoryTyped
  <2>5. Revisions'
    <3>1. Known(snapshot).revision <= Known(memory).revision
      BY <1>2, <2>1 DEF Revisions
    <3>2. \A u \in Turns : turnStage'[u] # "running"
      BY <1>3, <1>4 DEF Goes
    <3>3. promise'[t].revision = Known(snapshot).revision + 1
      BY <1>2 DEF MemoryTyped
    <3>4. memory' # NoMemory /\ promise'[t].revision <= memory'.revision
      BY <1>8, <2>2, <3>1, <3>3 DEF MemoryAssumption
    <3>5. \A u \in Turns : newest' = u => u = t
      BY <1>2, <1>3
    <3> QED
      BY <2>1, <3>2, <3>4, <3>5 DEF Revisions
  <2>6. FreeToStart'
    <3>1. superseding = {}
      BY <1>2, <1>3 DEF FreeToStart, Goes
    <3> QED
      BY <1>2, <3>1 DEF FreeToStart
  <2> QED
    BY <1>2, <2>2, <2>3, <2>4, <2>5, <2>6
<1> QED
  BY <1>9, <1>10

\* What is late is merged into what the end of its turn left, if at all.
LEMMA LateKeeps ==
  ASSUME MemoryAssumption, MemoryInv, NEW t \in Turns, LatePatch(t)
  PROVE  MemoryInv' /\ intact = t
<1> USE DEF MemoryInv
<1>1. /\ promise[t] # NoTask /\ promise' = [promise EXCEPT ![t] = NoTask]
      /\ t \notin stopped /\ newest = t /\ memory # NoMemory /\ memory.revision = promise[t].revision
      /\ UNCHANGED <<messages, kept, turn, turnStage, superseding, stopped, newest, snapshot, deleted, tombstone>>
  BY DEF LatePatch, AtItsRevision, runMarks
<1>2. PICK patch \in Extracted(t, promise[t].task) : memory' = Merged(memory, patch, messages)
  BY DEF LatePatch
<1>3. turnStage[t] = "over" /\ ~deleted
  BY <1>1 DEF OneTurn
<1>4. intact = t
  BY <1>1, <1>3 DEF Revisions
<1>5. PatchOf(patch)
  <2>1. promise[t].task \in TaskRecords
    BY <1>1 DEF MemoryTyped
  <2>2. [promise[t].task EXCEPT !.id = t, !.status = "open"] \in TaskRecords
    BY <2>1 DEF TaskRecords
  <2>3. Candidates(t) \subseteq EntryRecords
    <3>1. Of(t) \subseteq Messages
      BY DEF Of, Messages, TurnRoles
    <3>2. \A c \in {{m} : m \in Of(t)} : c \in SUBSET Messages
      BY <3>1
    <3>3. Entries(OpenQuestions, {"decision"}, BOOLEAN, t) \subseteq EntryRecords
      BY <3>2 DEF Entries, EntryRecords
    <3>4. Entries(Facts, {"verified", "inference"}, {TRUE}, t) \subseteq EntryRecords
      BY <3>2 DEF Entries, EntryRecords
    <3> QED
      BY <3>3, <3>4 DEF Candidates
  <2> QED
    BY <2>1, <2>2, <2>3 DEF Extracted, PatchOf
<1>6. memory' \in Memories /\ Coherent(memory', messages)
  BY <1>2, <1>5, MergedIs DEF MemoryTyped
<1>7. \A u \in Turns : turnStage[u] \notin {"preparing", "running"}
  BY <1>1, <1>3 DEF OneTurn
<1>8. MemoryTyped'
  BY <1>1, <1>6 DEF MemoryTyped, MaybeMemory
<1>9. OneTurn'
  BY <1>1, <1>3 DEF OneTurn, Goes, MemoryTyped
<1>10. Revisions'
  BY <1>1, <1>7 DEF Revisions, MemoryTyped
<1>11. FreeToStart'
  BY <1>1, <1>7 DEF FreeToStart
<1> QED
  BY <1>1, <1>4, <1>6, <1>8, <1>9, <1>10, <1>11

\* Copies, a reload, a branch and the end of the conversation.
LEMMA CopiesKeep ==
  ASSUME MemoryAssumption, MemoryInv,
         SaveConversation \/ ReloadConversation \/ (\E t \in Turns : Branch(t)) \/ DeleteConversation
  PROVE  MemoryInv'
<1> USE DEF MemoryInv
<1>1. CASE SaveConversation
  <2>1. /\ kept' = Stored(memory, messages)
        /\ UNCHANGED <<memory, messages, turn, turnStage, superseding, stopped, newest, snapshot, promise,
                       deleted, tombstone, intact>>
    BY <1>1 DEF SaveConversation, runMarks
  <2>2. /\ kept'.memory \in MaybeMemory /\ kept'.messages \subseteq messages
        /\ Coherent(kept'.memory, kept'.messages)
    BY <2>1, StoredIs DEF MemoryTyped, Coherent
  <2>3. MemoryTyped'
    BY <2>1, <2>2 DEF MemoryTyped
  <2>4. OneTurn' /\ Revisions' /\ FreeToStart'
    BY <2>1 DEF OneTurn, Goes, Revisions, FreeToStart
  <2> QED
    BY <2>1, <2>2, <2>3, <2>4
<1>2. CASE ReloadConversation
  <2>1. /\ ~deleted /\ memory' = kept.memory /\ messages' = kept.messages
        /\ turnStage' = [t \in Turns |-> IF turnStage[t] = "running" THEN "remote"
                                         ELSE IF turnStage[t] = "preparing" THEN "over" ELSE turnStage[t]]
        /\ stopped' = {} /\ newest' = 0 /\ promise' = NoPromise /\ snapshot' = NoMemory /\ superseding' = {}
        /\ UNCHANGED <<kept, turn, deleted, tombstone>>
    BY <1>2 DEF ReloadConversation
  <2>2. \A t \in Turns : promise'[t] = NoTask
    BY <2>1 DEF NoPromise
  <2>3. \A t \in Turns : /\ turnStage'[t] \in {"none", "remote", "over"}
                         /\ turnStage'[t] = "remote" => Goes(t)
                         /\ turnStage'[t] # "none" => turnStage[t] # "none"
    BY <2>1 DEF MemoryTyped, Goes
  <2>4. MemoryTyped'
    <3>1. turnStage' \in [Turns -> {"none", "preparing", "running", "remote", "over"}]
      BY <2>1 DEF MemoryTyped
    <3> QED
      BY <2>1, <2>2, <3>1 DEF MemoryTyped, MaybeMemory, NoPromise
  <2>5. OneTurn'
    BY <2>1, <2>2, <2>3 DEF OneTurn, Goes
  <2>6. Revisions' /\ FreeToStart'
    BY <2>1, <2>2, <2>3 DEF Revisions, FreeToStart
  <2> QED
    BY <2>1, <2>4, <2>5, <2>6
<1>3. ASSUME NEW t \in Turns, Branch(t)
      PROVE  MemoryInv'
  <2> DEFINE seed == {m \in messages : m[1] < t /\ m[2] # "tool"}
  <2>1. /\ NothingRuns /\ ~deleted /\ memory' = Stored(memory, seed).memory /\ messages' = seed
        /\ kept' = Stored(memory', messages') /\ promise' = NoPromise /\ newest' = 0
        /\ UNCHANGED <<turn, turnStage, superseding, stopped, snapshot, deleted, tombstone>>
    BY <1>3 DEF Branch
  <2>2. seed \subseteq messages /\ seed \subseteq Messages
    BY DEF MemoryTyped
  <2> HIDE DEF seed
  <2>3. memory' \in MaybeMemory /\ Coherent(memory', messages')
    <3>1. /\ Stored(memory, seed).memory \in MaybeMemory /\ Stored(memory, seed).messages \subseteq seed
          /\ Coherent(Stored(memory, seed).memory, Stored(memory, seed).messages)
      BY <2>2, StoredIs DEF MemoryTyped, Coherent
    <3> QED
      BY <2>1, <3>1, EvidenceGrows DEF Coherent
  <2>4. /\ kept'.memory \in MaybeMemory /\ kept'.messages \subseteq messages'
        /\ Coherent(kept'.memory, kept'.messages)
    <3>1. messages' \subseteq Messages /\ DoneIsDecided(memory')
      BY <2>1, <2>2, <2>3 DEF Coherent
    <3> QED
      BY <2>1, <2>3, <3>1, StoredIs
  <2>5. \A u \in Turns : promise'[u] = NoTask /\ ~Goes(u)
    BY <2>1 DEF NoPromise, NothingRuns, Goes
  <2>6. MemoryTyped'
    BY <2>1, <2>2, <2>3, <2>4, <2>5 DEF MemoryTyped, NoPromise
  <2>7. OneTurn'
    BY <2>1, <2>5 DEF OneTurn, Goes
  <2>8. Revisions' /\ FreeToStart'
    BY <2>1, <2>5 DEF Revisions, FreeToStart, Goes
  <2> QED
    BY <2>3, <2>4, <2>6, <2>7, <2>8
<1>4. CASE DeleteConversation
  <2>1. /\ deleted' = TRUE /\ tombstone' = ~NothingRuns /\ memory' = NoMemory /\ messages' = {}
        /\ kept' = Stored(NoMemory, {})
        /\ UNCHANGED <<turn, turnStage, superseding, stopped, newest, snapshot, promise>>
    BY <1>4 DEF DeleteConversation, runMarks
  <2>2. NoMemory \in MaybeMemory /\ \A there : Coherent(NoMemory, there)
    BY DEF MaybeMemory, Coherent, HasEvidence, DoneIsDecided
  <2>3. /\ kept'.memory \in MaybeMemory /\ kept'.messages \subseteq {}
        /\ Coherent(kept'.memory, kept'.messages)
    <3>1. {} \subseteq Messages /\ DoneIsDecided(NoMemory)
      BY DEF DoneIsDecided
    <3> QED
      BY <2>1, <2>2, <3>1, StoredIs
  <2>4. MemoryTyped'
    BY <2>1, <2>2, <2>3 DEF MemoryTyped
  <2>5. OneTurn'
    BY <2>1 DEF OneTurn, Goes, NothingRuns, MemoryTyped
  <2>6. Revisions' /\ FreeToStart'
    BY <2>1 DEF Revisions, FreeToStart, Unburdened
  <2> QED
    BY <2>1, <2>2, <2>3, <2>4, <2>5, <2>6
<1> QED
  BY <1>1, <1>2, <1>3, <1>4

\* The invariant is kept by every step.
LEMMA MemoryKept ==
  ASSUME MemoryAssumption, MemoryInv, [MemoryNext]_memoryVars
  PROVE  MemoryInv'
<1>1. ASSUME NEW supersedes \in {0, mark}, BeginTurn(supersedes)
      PROVE  MemoryInv'
  BY <1>1, BeginKeeps
<1>2. ASSUME NEW t \in Turns, StartTurn(t) \/ StopTurn(t) \/ FailTurn(t)
      PROVE  MemoryInv'
  BY <1>2, TurnMoves
<1>3. ASSUME NEW t \in Turns, LatePatch(t)
      PROVE  MemoryInv'
  BY <1>3, LateKeeps
<1>4. ASSUME NEW t \in Turns, NEW status \in {"completed", "open"}, NEW switched \in BOOLEAN,
             EndTurn(t, status, switched)
      PROVE  MemoryInv'
  BY <1>4, EndKeeps
<1>5. CASE SaveConversation \/ ReloadConversation \/ (\E t \in Turns : Branch(t)) \/ DeleteConversation
  BY <1>5, CopiesKeep
<1>6. CASE UNCHANGED memoryVars
  BY <1>6 DEF memoryVars, MemoryInv, MemoryTyped, OneTurn, Goes, Revisions, FreeToStart
<1> QED
  BY <1>1, <1>2, <1>3, <1>4, <1>5, <1>6 DEF MemoryNext

\* At the beginning there is no memory.
LEMMA MemoryBegins ==
  ASSUME MemoryAssumption, MemoryInit
  PROVE  MemoryInv
<1>1. /\ memory = NoMemory /\ messages = {} /\ kept.memory = NoMemory /\ kept.messages = {}
      /\ turn = 0 /\ turnStage = [t \in Turns |-> "none"] /\ superseding = {} /\ snapshot = NoMemory
      /\ promise = [t \in Turns |-> NoTask] /\ deleted = FALSE /\ tombstone = FALSE
  BY DEF MemoryInit, NoPromise
<1>2. MemoryTyped
  BY <1>1 DEF MemoryTyped, MaybeMemory, MemoryAssumption
<1>3. OneTurn /\ Revisions /\ FreeToStart
  BY <1>1 DEF OneTurn, Goes, Revisions, FreeToStart
<1> QED
  BY <1>1, <1>2, <1>3 DEF MemoryInv, Coherent, HasEvidence, DoneIsDecided

LEMMA MemoryInvariant == MemoryAssumption => (MemorySpec => []MemoryInv)
<1>1. ASSUME MemoryAssumption
      PROVE  MemorySpec => []MemoryInv
  <2>1. MemoryInit => MemoryInv
    BY <1>1, MemoryBegins
  <2>2. MemoryInv /\ [MemoryNext]_memoryVars => MemoryInv'
    BY <1>1, MemoryKept
  <2> QED
    BY <2>1, <2>2, PTL DEF MemorySpec
<1> QED
  BY <1>1

\* What the assistant remembers, in the panel, in the storage and in a branch,
\* rests on messages that are there; no task is completed while something is
\* to be decided; and a deleted conversation stays deleted
\* (shared/conversationMemory.ts, sidepanel/services/chatWorkspace.ts).
THEOREM MemoryStaysCoherent == MemoryAssumption => (MemorySpec => []MemoryIsCoherent)
<1>1. MemoryInv => MemoryIsCoherent
  BY DEF MemoryInv, OneTurn, Coherent, MemoryIsCoherent
<1> QED
  BY <1>1, MemoryInvariant, PTL

\* A late patch is merged into what its own turn left, and a turn that
\* supersedes another is given neither its task nor its open decisions
\* (agentRunner.ts, conversationMemory.ts).
THEOREM TurnsAreApart == MemoryAssumption => (MemorySpec => TurnsStayApart)
<1>1. MemoryAssumption /\ MemoryInv => [\A t \in Turns : LatePatch(t) => intact = t]_memoryVars
  BY LateKeeps
<1>2. MemoryInv => [\A t \in superseding : StartTurn(t) =>
                      memory = NoMemory \/ (memory.about = NoTask /\ ~Undecided(memory.entries))]_memoryVars
  BY DEF MemoryInv, FreeToStart, Unburdened
<1>3. ASSUME MemoryAssumption
      PROVE  MemorySpec => TurnsStayApart
  <2>1. MemoryInv => [\A t \in Turns : LatePatch(t) => intact = t]_memoryVars
    BY <1>1, <1>3
  <2>2. MemorySpec => []MemoryInv
    BY <1>3, MemoryInvariant
  <2>3. MemorySpec => LateBuildsOnItsTurn
    BY <2>1, <2>2, PTL DEF LateBuildsOnItsTurn
  <2>4. MemorySpec => SupersedingIsFree
    BY <1>2, <2>2, PTL DEF SupersedingIsFree
  <2> QED
    BY <2>3, <2>4 DEF TurnsStayApart
<1> QED
  BY <1>3

-----------------------------------------------------------------------------
(* PanelRuns *)

Queued == [sub : Submissions, in : Chats, after : Submissions \cup {Nothing}]
Accepted == [sub : Delegated, in : Chats, from : Chats, messages : [Chats -> SUBSET Submissions],
             list : SUBSET Chats]

AppTyped ==
  /\ openChat \in chats /\ chats \subseteq used /\ used \subseteq Chats /\ flagged \subseteq used
  /\ registry \in [Chats -> Followed \cup {Nothing}]
  /\ latest \in [Chats -> Submissions \cup {Nothing}]
  /\ interrupted \in [Chats -> Submissions \cup {Nothing}]
  /\ answered \in [Chats -> SUBSET Submissions]
  /\ belongs \in [Submissions -> used \cup {Nothing}]
  /\ waitingList \in Seq(Queued) /\ due \subseteq Queued
  /\ given \subseteq Submissions

\* A message that waits, and a run that is followed, are of the conversation they were
\* sent in.
Fits(m) == belongs[m.sub] = m.in
RunsFit ==
  /\ \A m \in Members(waitingList) \cup due : Fits(m)
  /\ \A c \in Chats : registry[c] # Nothing => belongs[registry[c].run] = c

\* What a claim waits with names conversations that were made, and a task that is new.
TaskFits ==
  task # Nothing =>
    /\ task \in Accepted /\ belongs[task.sub] = Nothing
    /\ {task.in} \cup task.list \subseteq used /\ task.from \in task.list

\* A deleted conversation is there only if it was set back.
DeletedStays == flagged \cap chats \subseteq rolledBack

\* A message that waits is served.
Served(c) == c \in passedOver \/ registry[c] # Nothing \/ \E m \in due : m.in = c
AllServed == \A m \in Members(waitingList) : Served(m.in)

\* An answer that was given is shown in its conversation.
Shown(s) == belongs[s] # Nothing /\ (belongs[s] \in chats \ rolledBack => s \in answered[belongs[s]])
AllShown == \A s \in given : Shown(s)

AppInv == AppTyped /\ RunsFit /\ TaskFits /\ DeletedStays /\ AllServed /\ AllShown

\* The conversation of a message that was made is one that was made.
LEMMA AppFacts ==
  ASSUME PanelAssumption, AppInv
  PROVE  /\ Nothing \notin Chats /\ Nothing \notin Submissions /\ Nothing \notin Followed
         /\ \A m \in Members(waitingList) \cup due : m \in Queued /\ m.in \in used /\ m.in \in Chats /\ m.sub \in Submissions
         /\ \A i \in DOMAIN waitingList : waitingList[i] \in Members(waitingList)
         /\ \A c \in Chats : registry[c] # Nothing => registry[c] \in Followed /\ registry[c].run \in Submissions /\ c \in used
<1>1. Nothing \notin Chats /\ Nothing \notin Submissions /\ Nothing \notin Followed
  BY DEF PanelAssumption
<1>2. \A m \in Members(waitingList) \cup due : m \in Queued
  BY DEF AppInv, AppTyped, Members
<1>3. \A m \in Queued : m.in \in Chats /\ m.sub \in Submissions
  BY DEF Queued
<1>4. \A m \in Members(waitingList) \cup due : m.in \in used
  BY <1>1, <1>2, <1>3 DEF AppInv, RunsFit, Fits, AppTyped
<1>5. \A i \in DOMAIN waitingList : waitingList[i] \in Members(waitingList)
  BY DEF Members
<1>6. \A c \in Chats : registry[c] # Nothing => registry[c] \in Followed /\ registry[c].run \in Submissions
  BY DEF AppInv, AppTyped, Followed
<1>7. \A c \in Chats : registry[c] # Nothing => c \in used
  BY <1>1, <1>6 DEF AppInv, RunsFit, AppTyped
<1> QED
  BY <1>1, <1>2, <1>3, <1>4, <1>5, <1>6, <1>7

\* The runs that are followed change by records only.
LEMMA FollowedParts ==
  ASSUME NEW r \in Followed, NEW st \in {"preparing", "running", "clearing", "remote"}
  PROVE  /\ [r EXCEPT !.aborted = TRUE] \in Followed /\ [r EXCEPT !.aborted = TRUE].run = r.run
         /\ [r EXCEPT !.stage = st] \in Followed /\ [r EXCEPT !.stage = st].run = r.run
BY DEF Followed

\* A message without its place in the queue.
LEMMA RemovedMembers ==
  ASSUME NEW S, NEW q \in Seq(S), NEW i \in DOMAIN q, NEW r, r = RemoveAt(q, i)
  PROVE  r \in Seq(S) /\ Members(r) \subseteq Members(q)
<1>1. Len(q) \in Nat /\ DOMAIN q = 1..Len(q)
  OBVIOUS
<1>2. PICK a, b : a = SubSeq(q, 1, i - 1) /\ b = SubSeq(q, i + 1, Len(q))
  OBVIOUS
<1>3. a \in Seq(S) /\ \A k \in DOMAIN a : k \in DOMAIN q /\ a[k] = q[k]
  BY <1>1, <1>2, SubSeqProperties
<1>4. b \in Seq(S) /\ \A k \in DOMAIN b : i + k \in DOMAIN q /\ b[k] = q[i + k]
  BY <1>1, <1>2, SubSeqProperties
<1>5. Members(a) \subseteq Members(q) /\ Members(b) \subseteq Members(q)
  BY <1>3, <1>4 DEF Members
<1>6. IsJoined(r, a, b)
  BY <1>2 DEF RemoveAt, IsJoined
<1>7. r \in Seq(S) /\ Members(r) = Members(a) \cup Members(b)
  BY <1>3, <1>4, <1>6, JoinedMembers
<1> QED
  BY <1>5, <1>7

\* The message that the end of a run starts next.
LEMMA NextIs ==
  ASSUME NEW S, waitingList \in Seq(S), NEW c
  PROVE  /\ NextOf(c) = 0 => \A m \in Members(waitingList) : m.in # c
         /\ NextOf(c) # 0 => NextOf(c) \in DOMAIN waitingList /\ waitingList[NextOf(c)].in = c
<1>1. PICK I : I = {i \in 1..Len(waitingList) : waitingList[i].in = c}
  OBVIOUS
<1>2. NextOf(c) = IF I # {} THEN Min(I) ELSE 0
  BY <1>1, Zenon DEF NextOf, SelectInSeq
<1>3. I \subseteq Nat /\ 0 \notin I /\ DOMAIN waitingList = 1..Len(waitingList)
  BY <1>1
<1>4. CASE I = {}
  <2>1. NextOf(c) = 0
    BY <1>2, <1>4
  <2>2. \A m \in Members(waitingList) : m.in # c
    BY <1>1, <1>3, <1>4 DEF Members
  <2> QED
    BY <2>1, <2>2
<1>5. CASE I # {}
  <2>1. \E i \in I : \A j \in I : i <= j
    BY <1>3, <1>5, LeastOf
  <2>2. Min(I) \in I
    BY <2>1 DEF Min
  <2>3. NextOf(c) \in I
    BY <1>2, <1>5, <2>2
  <2> QED
    BY <1>1, <1>3, <2>3
<1> QED
  BY <1>4, <1>5

\* The runs that are followed stay, whatever becomes of their stage.
SameRuns ==
  /\ registry' \in [Chats -> Followed \cup {Nothing}]
  /\ \A c \in Chats : /\ registry'[c] # Nothing <=> registry[c] # Nothing
                      /\ registry[c] # Nothing => registry'[c].run = registry[c].run

LEMMA OneRunChanges ==
  ASSUME PanelAssumption, AppTyped, NEW c \in Chats, registry[c] # Nothing,
         NEW r \in Followed, r.run = registry[c].run, registry' = [registry EXCEPT ![c] = r]
  PROVE  SameRuns
<1>1. registry' \in [Chats -> Followed \cup {Nothing}]
  BY DEF AppTyped
<1>2. r # Nothing
  BY DEF PanelAssumption
<1>3. registry'[c] = r /\ \A d \in Chats : d # c => registry'[d] = registry[d]
  BY DEF AppTyped
<1> QED
  BY <1>1, <1>2, <1>3 DEF SameRuns

LEMMA SupersedeKeeps ==
  ASSUME PanelAssumption, AppTyped, NEW c \in Chats, Supersede(c)
  PROVE  SameRuns /\ interrupted' \in [Chats -> Submissions \cup {Nothing}]
<1>1. CASE registry[c] = Nothing
  BY <1>1 DEF Supersede, AppTyped, SameRuns
<1>2. CASE registry[c] # Nothing
  <2>1. PICK r : r = registry[c]
    OBVIOUS
  <2>2. r \in Followed /\ r.run \in Submissions
    BY <1>2, <2>1 DEF AppTyped, Followed
  <2>3. PICK n : n = [r EXCEPT !.aborted = TRUE]
    OBVIOUS
  <2>4. n \in Followed /\ n.run = r.run
    BY <2>2, <2>3, FollowedParts
  <2>5. registry' = [registry EXCEPT ![c] = n] /\ interrupted' = [interrupted EXCEPT ![c] = r.run]
    BY <1>2, <2>1, <2>3 DEF Supersede
  <2>6. SameRuns
    BY <1>2, <2>1, <2>4, <2>5, OneRunChanges
  <2> QED
    BY <2>2, <2>5, <2>6 DEF AppTyped
<1> QED
  BY <1>1, <1>2

\* Messages leave the queue or change their place in it.
FewerQueued ==
  /\ waitingList' \in Seq(Queued)
  /\ \A m \in Members(waitingList') : \E n \in Members(waitingList) : m.sub = n.sub /\ m.in = n.in

\* Steps that make, show and give back nothing.
LEMMA QueueSteps ==
  ASSUME PanelAssumption, AppInv,
         UNCHANGED <<chatVars, due, belongs, task, given, rolledBack, passedOver>>,
         SameRuns, FewerQueued,
         latest' \in [Chats -> Submissions \cup {Nothing}], interrupted' \in [Chats -> Submissions \cup {Nothing}]
  PROVE  AppInv'
<1> USE DEF chatVars
<1>1. AppTyped'
  BY DEF AppInv, AppTyped, SameRuns, FewerQueued
<1>2. RunsFit'
  <2>1. \A m \in Members(waitingList') \cup due' : Fits(m)'
    BY DEF AppInv, RunsFit, Fits, FewerQueued
  <2>2. \A c \in Chats : registry'[c] # Nothing => belongs'[registry'[c].run] = c
    BY DEF AppInv, RunsFit, SameRuns
  <2> QED
    BY <2>1, <2>2 DEF RunsFit
<1>3. TaskFits' /\ DeletedStays'
  BY DEF AppInv, TaskFits, DeletedStays
<1>4. AllServed'
  <2>1. \A m \in Members(waitingList) : m.in \in Chats
    BY AppFacts
  <2>2. \A c \in Chats : Served(c) => Served(c)'
    BY DEF Served, SameRuns
  <2> QED
    BY <2>1, <2>2 DEF AppInv, AllServed, FewerQueued
<1>5. AllShown'
  BY DEF AppInv, AllShown, Shown
<1> QED
  BY <1>1, <1>2, <1>3, <1>4, <1>5 DEF AppInv

LEMMA SameQueue ==
  ASSUME AppInv, UNCHANGED waitingList
  PROVE  FewerQueued
BY DEF AppInv, AppTyped, FewerQueued, Members

LEMMA SameRegistry ==
  ASSUME AppInv, UNCHANGED registry
  PROVE  SameRuns
BY DEF AppInv, AppTyped, SameRuns

\* An answer is shown in the conversation of its run, or that conversation is deleted.
LEMMA ShowKeeps ==
  ASSUME PanelAssumption, AppInv, NEW c \in Chats, NEW s \in Submissions, Show(s, c),
         given' \subseteq given \cup {s}, belongs'[s] = c, \A r \in given : belongs'[r] = belongs[r],
         UNCHANGED <<chats, rolledBack>>
  PROVE  /\ answered' \in [Chats -> SUBSET Submissions] /\ given' \subseteq Submissions
         /\ AllShown'
<1>1. answered' \in [Chats -> SUBSET Submissions] /\ given' \subseteq Submissions
  BY DEF Show, Addressee, AppInv, AppTyped
<1>2. \A d \in Chats : answered[d] \subseteq answered'[d]
  BY DEF Show, Addressee, AppInv, AppTyped
<1>3. c \in flagged \/ s \in answered'[c]
  BY DEF Show, Addressee, AppInv, AppTyped
<1>4. c # Nothing /\ chats \subseteq Chats
  BY DEF PanelAssumption, AppInv, AppTyped
<1>5. Shown(s)'
  BY <1>3, <1>4 DEF Shown, AppInv, DeletedStays
<1>6. \A r \in given : Shown(r)'
  BY <1>2, <1>4 DEF Shown, AppInv, AllShown
<1>7. AllShown'
  BY <1>5, <1>6 DEF AllShown
<1> QED
  BY <1>1, <1>7

\* A run begins: what it leaves of the invariant to the steps that begin one.
LEMMA RunBegins ==
  ASSUME PanelAssumption, AppInv, NEW c \in Chats, NEW s \in Submissions, NEW old, Begin(s, c, old),
         belongs'[s] = c, \A r \in given : belongs'[r] = belongs[r],
         UNCHANGED <<chats, rolledBack>>
  PROVE  /\ registry' \in [Chats -> Followed \cup {Nothing}]
         /\ latest' \in [Chats -> Submissions \cup {Nothing}]
         /\ interrupted' \in [Chats -> Submissions \cup {Nothing}]
         /\ answered' \in [Chats -> SUBSET Submissions] /\ given' \subseteq Submissions
         /\ \A d \in Chats : registry'[d] = registry[d] \/ (d = c /\ registry[c] = Nothing /\ registry'[c].run = s)
         /\ passedOver \subseteq passedOver' /\ (c \in passedOver' \/ registry'[c] # Nothing)
         /\ AllShown'
<1>1. interrupted' \in [Chats -> Submissions \cup {Nothing}]
  BY DEF Begin, AppInv, AppTyped
<1>2. CASE /\ Show(s, c)
           /\ given' = given \cup {s} /\ passedOver' = passedOver \cup {c}
           /\ UNCHANGED <<registry, latest, refused>>
  <2>1. answered' \in [Chats -> SUBSET Submissions] /\ given' \subseteq Submissions /\ AllShown'
    BY <1>2, ShowKeeps
  <2> QED
    BY <1>1, <1>2, <2>1 DEF AppInv, AppTyped
<1>3. CASE /\ UNCHANGED <<answered, given, passedOver>>
           /\ \/ /\ registry[c] = Nothing /\ latest' = [latest EXCEPT ![c] = s]
                 /\ registry' = [registry EXCEPT ![c] = [run |-> s, stage |-> "preparing", aborted |-> FALSE]]
              \/ registry[c] # Nothing /\ UNCHANGED <<registry, latest>>
  <2>1. AllShown'
    BY <1>3 DEF AppInv, AllShown, Shown
  <2>2. CASE registry[c] = Nothing /\ latest' = [latest EXCEPT ![c] = s]
             /\ registry' = [registry EXCEPT ![c] = [run |-> s, stage |-> "preparing", aborted |-> FALSE]]
    <3>1. PICK r : r = [run |-> s, stage |-> "preparing", aborted |-> FALSE]
      OBVIOUS
    <3>2. r \in Followed /\ r.run = s
      BY <3>1 DEF Followed
    <3>3. r # Nothing
      BY <3>2 DEF PanelAssumption
    <3>4. registry' = [registry EXCEPT ![c] = r]
      BY <2>2, <3>1
    <3>5. /\ registry' \in [Chats -> Followed \cup {Nothing}]
          /\ registry'[c] = r /\ \A d \in Chats : d # c => registry'[d] = registry[d]
      BY <3>2, <3>4 DEF AppInv, AppTyped
    <3>6. /\ latest' \in [Chats -> Submissions \cup {Nothing}]
          /\ answered' \in [Chats -> SUBSET Submissions] /\ given' \subseteq Submissions
          /\ passedOver' = passedOver
      BY <1>3, <2>2 DEF AppInv, AppTyped
    <3> QED
      BY <1>1, <2>1, <2>2, <3>2, <3>3, <3>5, <3>6
  <2>3. CASE registry[c] # Nothing /\ UNCHANGED <<registry, latest>>
    BY <1>1, <1>3, <2>1, <2>3 DEF AppInv, AppTyped
  <2> QED
    BY <1>3, <2>2, <2>3
<1> QED
  BY <1>2, <1>3 DEF Begin

\* The steps of the runs.
LEMMA RunSteps ==
  ASSUME PanelAssumption, AppInv,
         \/ StopAgent
         \/ \E i \in DOMAIN waitingList : RunQueuedNow(i) \/ RemoveQueued(i)
         \/ \E c \in Chats : StartInDaemon(c)
         \/ \E s \in Submissions : EndInDaemon(s)
  PROVE  AppInv'
<1>1. CASE StopAgent
  <2>1. Supersede(openChat) /\ openChat \in Chats
    BY <1>1 DEF StopAgent, AppInv, AppTyped
  <2>2. SameRuns /\ interrupted' \in [Chats -> Submissions \cup {Nothing}]
    BY <2>1, SupersedeKeeps DEF AppInv
  <2>3. UNCHANGED <<chatVars, latest, waitingList, due, belongs, task, given, rolledBack, passedOver>>
    BY <1>1 DEF StopAgent, runHistory
  <2>4. FewerQueued
    BY <2>3, SameQueue
  <2>5. latest' \in [Chats -> Submissions \cup {Nothing}]
    BY <2>3 DEF AppInv, AppTyped
  <2> QED
    BY <2>2, <2>3, <2>4, <2>5, QueueSteps
<1>2. ASSUME NEW i \in DOMAIN waitingList, RunQueuedNow(i)
      PROVE  AppInv'
  <2>1. PICK m : m = waitingList[i]
    OBVIOUS
  <2>2. m \in Queued /\ m \in Members(waitingList) /\ m.in \in Chats
    BY <2>1, AppFacts DEF AppInv, AppTyped
  <2>3. PICK now : now = IF Superseded(m.in) = Nothing THEN m ELSE [m EXCEPT !.after = Superseded(m.in)]
    OBVIOUS
  <2>4. now \in Queued /\ now.in = m.in /\ now.sub = m.sub
    <3>1. Superseded(m.in) \in Submissions \cup {Nothing}
      BY <2>2 DEF Superseded, AppInv, AppTyped, Followed
    <3> QED
      BY <2>2, <2>3, <3>1 DEF Queued
  <2>5. PICK q, o : q = RemoveAt(waitingList, i) /\ o = <<now>>
    OBVIOUS
  <2>6. q \in Seq(Queued) /\ Members(q) \subseteq Members(waitingList)
    BY <1>2, <2>5, RemovedMembers DEF AppInv, AppTyped
  <2>7. o \in Seq(Queued) /\ Members(o) = {now}
    BY <2>4, <2>5, OneMember
  <2>8. PICK r : IsJoined(r, o, q)
    BY DEF IsJoined
  <2>9. r \in Seq(Queued) /\ Members(r) = Members(o) \cup Members(q)
    BY <2>6, <2>7, <2>8, JoinedMembers
  <2>10. /\ waitingList' = r /\ Supersede(m.in)
         /\ UNCHANGED <<chatVars, latest, due, belongs, task, given, rolledBack, passedOver>>
    BY <1>2, <2>1, <2>3, <2>5, <2>8 DEF RunQueuedNow, IsJoined, runHistory
  <2>11. FewerQueued
    BY <2>2, <2>4, <2>6, <2>7, <2>9, <2>10 DEF FewerQueued
  <2>12. SameRuns /\ interrupted' \in [Chats -> Submissions \cup {Nothing}]
    BY <2>2, <2>10, SupersedeKeeps DEF AppInv
  <2>13. latest' \in [Chats -> Submissions \cup {Nothing}]
    BY <2>10 DEF AppInv, AppTyped
  <2> QED
    BY <2>10, <2>11, <2>12, <2>13, QueueSteps
<1>3. ASSUME NEW i \in DOMAIN waitingList, RemoveQueued(i)
      PROVE  AppInv'
  <2>1. PICK r : r = RemoveAt(waitingList, i)
    OBVIOUS
  <2>2. r \in Seq(Queued) /\ Members(r) \subseteq Members(waitingList)
    BY <1>3, <2>1, RemovedMembers DEF AppInv, AppTyped
  <2>3. /\ waitingList' = r
        /\ UNCHANGED <<chatVars, registry, latest, interrupted, due, belongs, task, given, rolledBack, passedOver>>
    BY <1>3, <2>1 DEF RemoveQueued, runHistory
  <2>4. FewerQueued
    BY <2>2, <2>3 DEF FewerQueued
  <2>5. SameRuns
    BY <2>3, SameRegistry
  <2>6. latest' \in [Chats -> Submissions \cup {Nothing}] /\ interrupted' \in [Chats -> Submissions \cup {Nothing}]
    BY <2>3 DEF AppInv, AppTyped
  <2> QED
    BY <2>3, <2>4, <2>5, <2>6, QueueSteps
<1>4. ASSUME NEW c \in Chats, StartInDaemon(c)
      PROVE  AppInv'
  <2>1. /\ registry[c] # Nothing /\ registry' = [registry EXCEPT ![c].stage = "running"]
        /\ UNCHANGED <<chatVars, latest, interrupted, waitingList, due, belongs, task, given, rolledBack, passedOver>>
    BY <1>4 DEF StartInDaemon, Local, runHistory
  <2>2. PICK r : r = registry[c]
    OBVIOUS
  <2>3. PICK n : n = [r EXCEPT !.stage = "running"]
    OBVIOUS
  <2>4. r \in Followed
    BY <2>1, <2>2, AppFacts
  <2>5. n \in Followed /\ n.run = r.run
    BY <2>3, <2>4, FollowedParts
  <2>6. registry' = [registry EXCEPT ![c] = n]
    BY <2>1, <2>2, <2>3
  <2>7. SameRuns
    BY <2>1, <2>2, <2>5, <2>6, OneRunChanges DEF AppInv
  <2>8. FewerQueued
    BY <2>1, SameQueue
  <2>9. latest' \in [Chats -> Submissions \cup {Nothing}] /\ interrupted' \in [Chats -> Submissions \cup {Nothing}]
    BY <2>1 DEF AppInv, AppTyped
  <2> QED
    BY <2>1, <2>7, <2>8, <2>9, QueueSteps
<1>5. ASSUME NEW s \in Submissions, EndInDaemon(s)
      PROVE  AppInv'
  <2>1. UNCHANGED <<chatVars, registry, latest, interrupted, waitingList, due, belongs, task, given, rolledBack, passedOver>>
    BY <1>5 DEF EndInDaemon, appRunVars, runHistory
  <2>2. SameRuns /\ FewerQueued
    BY <2>1, SameRegistry, SameQueue
  <2>3. latest' \in [Chats -> Submissions \cup {Nothing}] /\ interrupted' \in [Chats -> Submissions \cup {Nothing}]
    BY <2>1 DEF AppInv, AppTyped
  <2> QED
    BY <2>1, <2>2, <2>3, QueueSteps
<1> QED
  BY <1>1, <1>2, <1>3, <1>4, <1>5

\* A fresh member is a member.
LEMMA FreshMembers == \A S : FreshIn(S) \subseteq S
BY DEF FreshIn

\* A conversation that is served is served after a step by which no run and no timer is lost.
LEMMA StillServed ==
  ASSUME NEW c \in Chats, Served(c), passedOver \subseteq passedOver', due \subseteq due',
         registry[c] # Nothing => registry'[c] # Nothing
  PROVE  Served(c)'
BY DEF Served

\* A message of the user begins a run, or waits for the one that is under way.
LEMMA SendStep ==
  ASSUME PanelAssumption, AppInv, NEW s \in Submissions \ Delegated, belongs[s] = Nothing,
         NEW forced \in BOOLEAN, SendChat(s, forced)
  PROVE  AppInv'
<1>1. /\ belongs' = [belongs EXCEPT ![s] = openChat] /\ openChat \in Chats /\ openChat \in used
      /\ UNCHANGED <<openChat, chats, used, flagged, due, task, rolledBack>>
  BY DEF SendChat, AppInv, AppTyped
<1>2. \A r \in given : belongs'[r] = belongs[r] /\ r # s
  BY <1>1 DEF AppInv, AppTyped, AllShown, Shown
<1>3. belongs' \in [Submissions -> used \cup {Nothing}] /\ belongs'[s] = openChat
      /\ \A r \in Submissions : r # s => belongs'[r] = belongs[r]
  BY <1>1 DEF AppInv, AppTyped
<1>4. \A m \in Members(waitingList) \cup due : Fits(m) /\ m.sub # s /\ m.sub \in Submissions /\ m.in \in Chats
  BY AppFacts DEF AppInv, RunsFit, Fits
<1>5. \A m \in Members(waitingList) \cup due : belongs'[m.sub] = m.in
  BY <1>3, <1>4 DEF Fits
<1>6. \A c \in Chats : registry[c] # Nothing => belongs'[registry[c].run] = c
  BY <1>3, AppFacts DEF AppInv, RunsFit
<1>7. TaskFits' /\ DeletedStays'
  <2>1. task # Nothing => task.sub # s /\ task.sub \in Submissions
    BY DEF AppInv, TaskFits, Accepted, PanelAssumption
  <2> QED
    BY <1>1, <1>3, <2>1 DEF AppInv, TaskFits, DeletedStays
<1>8. CASE registry[openChat] = Nothing
  <2>1. Begin(s, openChat, interrupted[openChat]) /\ UNCHANGED waitingList
    BY <1>8 DEF SendChat
  <2>2. /\ registry' \in [Chats -> Followed \cup {Nothing}]
        /\ latest' \in [Chats -> Submissions \cup {Nothing}]
        /\ interrupted' \in [Chats -> Submissions \cup {Nothing}]
        /\ answered' \in [Chats -> SUBSET Submissions] /\ given' \subseteq Submissions
        /\ \A d \in Chats : registry'[d] = registry[d] \/ (d = openChat /\ registry[openChat] = Nothing /\ registry'[openChat].run = s)
        /\ passedOver \subseteq passedOver'
        /\ AllShown'
    BY <1>1, <1>2, <1>3, <2>1, RunBegins
  <2>3. AppTyped'
    BY <1>1, <1>3, <2>1, <2>2 DEF AppInv, AppTyped
  <2>4. RunsFit'
    <3>1. \A c \in Chats : registry'[c] # Nothing => belongs'[registry'[c].run] = c
      BY <1>3, <1>6, <2>2
    <3>2. Members(waitingList)' = Members(waitingList)
      BY <2>1 DEF Members
    <3> QED
      BY <1>1, <1>5, <3>1, <3>2 DEF RunsFit, Fits
  <2>5. AllServed'
    <3>1. \A c \in Chats : Served(c) => Served(c)'
      BY <1>1, <2>2, StillServed
    <3>2. Members(waitingList)' = Members(waitingList)
      BY <2>1 DEF Members
    <3> QED
      BY <1>4, <3>1, <3>2 DEF AppInv, AllServed
  <2> QED
    BY <1>7, <2>2, <2>3, <2>4, <2>5 DEF AppInv
<1>9. CASE registry[openChat] # Nothing
  <2>1. PICK m : m = [sub |-> s, in |-> openChat,
                      after |-> IF forced THEN registry[openChat].run ELSE interrupted[openChat]]
    OBVIOUS
  <2>2. m \in Queued /\ m.in = openChat /\ m.sub = s
    <3>1. registry[openChat].run \in Submissions /\ interrupted[openChat] \in Submissions \cup {Nothing}
      BY <1>1, <1>9, AppFacts DEF AppInv, AppTyped
    <3> QED
      BY <1>1, <2>1, <3>1 DEF Queued
  <2>3. PICK q, o, h : q = waitingList /\ o = <<m>> /\ h = IF forced THEN <<m>> \o waitingList ELSE Append(waitingList, m)
    OBVIOUS
  <2>4. q \in Seq(Queued) /\ o \in Seq(Queued) /\ Members(o) = {m}
    BY <2>2, <2>3, OneMember DEF AppInv, AppTyped
  <2>5. h \in Seq(Queued) /\ Members(h) = Members(q) \cup {m}
    <3>1. CASE forced
      <4>1. IsJoined(h, o, q)
        BY <2>3, <3>1 DEF IsJoined
      <4> QED
        BY <2>4, <4>1, JoinedMembers
    <3>2. CASE ~forced
      <4>1. IsLonger(h, q, m)
        BY <2>3, <3>2 DEF IsLonger
      <4> QED
        BY <2>2, <2>4, <4>1, LongerMembers
    <3> QED
      BY <3>1, <3>2
  <2>6. /\ waitingList' = h /\ UNCHANGED <<latest, answered, given, passedOver>>
        /\ Supersede(openChat) \/ UNCHANGED <<registry, interrupted>>
    BY <1>9, <2>1, <2>3 DEF SendChat
  <2>7. SameRuns /\ interrupted' \in [Chats -> Submissions \cup {Nothing}]
    <3>1. CASE Supersede(openChat)
      BY <1>1, <3>1, SupersedeKeeps DEF AppInv
    <3>2. CASE UNCHANGED <<registry, interrupted>>
      BY <3>2, SameRegistry DEF AppInv, AppTyped
    <3> QED
      BY <2>6, <3>1, <3>2
  <2>8. AppTyped'
    BY <1>1, <1>3, <2>5, <2>6, <2>7 DEF AppInv, AppTyped, SameRuns
  <2>9. Members(waitingList)' = Members(waitingList) \cup {m}
    <3>1. Members(waitingList)' = Members(h)
      BY <2>6 DEF Members
    <3> QED
      BY <2>3, <2>5, <3>1
  <2>10. RunsFit'
    <3>1. \A c \in Chats : registry'[c] # Nothing => belongs'[registry'[c].run] = c
      BY <1>6, <2>7 DEF SameRuns
    <3>2. \A n \in Members(waitingList)' \cup due' : Fits(n)'
      BY <1>1, <1>3, <1>5, <2>2, <2>9 DEF Fits
    <3> QED
      BY <3>1, <3>2 DEF RunsFit
  <2>11. AllServed'
    <3>1. \A c \in Chats : Served(c) => Served(c)'
      BY <1>1, <2>6, <2>7, StillServed DEF SameRuns
    <3>2. Served(m.in)'
      BY <1>1, <1>9, <2>2, <2>7 DEF Served, SameRuns
    <3>3. ASSUME NEW k \in Members(waitingList)'
          PROVE  Served(k.in)'
      <4>1. CASE k = m
        BY <2>2, <3>2, <4>1
      <4>2. CASE k \in Members(waitingList)
        BY <1>4, <3>1, <4>2 DEF AppInv, AllServed
      <4> QED
        BY <2>9, <3>3, <4>1, <4>2
    <3> QED
      BY <3>3 DEF AllServed
  <2>12. AllShown'
    BY <1>1, <1>2, <2>6 DEF AppInv, AllShown, Shown
  <2> QED
    BY <1>7, <2>8, <2>10, <2>11, <2>12 DEF AppInv
<1> QED
  BY <1>8, <1>9

\* A run is settled, and its answer shown.
LEMMA SettleStep ==
  ASSUME PanelAssumption, AppInv, NEW c \in Chats, SettleRun(c)
  PROVE  AppInv'
<1>1. PICK r : r = registry[c]
  OBVIOUS
<1>2. r \in Followed /\ r # Nothing /\ r.run \in Submissions /\ belongs[r.run] = c
  BY <1>1, AppFacts DEF SettleRun, Local, AppInv, RunsFit
<1>3. PICK n : n = [r EXCEPT !.stage = "clearing"]
  OBVIOUS
<1>4. n \in Followed /\ n.run = r.run
  BY <1>2, <1>3, FollowedParts
<1>5. /\ Show(r.run, c) /\ given' \subseteq given \cup {r.run}
      /\ registry' = [registry EXCEPT ![c] = n]
      /\ UNCHANGED <<openChat, chats, used, flagged, latest, interrupted, waitingList, due, task, belongs,
                     rolledBack, passedOver>>
  BY <1>1, <1>3 DEF SettleRun
<1>6. SameRuns
  BY <1>1, <1>2, <1>4, <1>5, OneRunChanges DEF AppInv
<1>7. answered' \in [Chats -> SUBSET Submissions] /\ given' \subseteq Submissions /\ AllShown'
  BY <1>2, <1>5, ShowKeeps
<1>8. AppTyped'
  BY <1>5, <1>6, <1>7 DEF AppInv, AppTyped, SameRuns
<1>9. Members(waitingList)' = Members(waitingList)
  BY <1>5 DEF Members
<1>10. RunsFit'
  <2>1. \A d \in Chats : registry'[d] # Nothing => belongs'[registry'[d].run] = d
    BY <1>5, <1>6 DEF SameRuns, AppInv, RunsFit
  <2> QED
    BY <1>5, <1>9, <2>1 DEF AppInv, RunsFit, Fits
<1>11. AllServed'
  <2>1. \A d \in Chats : Served(d) => Served(d)'
    BY <1>5, <1>6, StillServed DEF SameRuns
  <2> QED
    BY <1>9, <2>1, AppFacts DEF AppInv, AllServed
<1>12. TaskFits' /\ DeletedStays'
  BY <1>5 DEF AppInv, TaskFits, DeletedStays
<1> QED
  BY <1>7, <1>8, <1>10, <1>11, <1>12 DEF AppInv

\* A run leaves, and the first message that waits for it is handed to a timer.
LEMMA FinishStep ==
  ASSUME PanelAssumption, AppInv, NEW c \in Chats, FinishRun(c)
  PROVE  AppInv'
<1>1. /\ registry' = [registry EXCEPT ![c] = Nothing]
      /\ flagged' = flagged \ {c} /\ passedOver' = passedOver \ {c}
      /\ UNCHANGED <<openChat, chats, used, answered, latest, interrupted, task, belongs, given, rolledBack>>
  BY DEF FinishRun
<1>2. PICK n : n = NextOf(c)
  OBVIOUS
<1>3. /\ n = 0 => \A m \in Members(waitingList) : m.in # c
      /\ n # 0 => n \in DOMAIN waitingList /\ waitingList[n].in = c
  BY <1>2, NextIs DEF AppInv, AppTyped
<1>4. /\ waitingList' \in Seq(Queued) /\ Members(waitingList)' \subseteq Members(waitingList)
      /\ due \subseteq due' /\ due' \subseteq due \cup Members(waitingList)
      /\ (\A m \in Members(waitingList)' : m.in # c) \/ \E m \in due' : m.in = c
  <2>1. CASE n = 0
    <3>1. UNCHANGED <<waitingList, due>>
      BY <1>2, <2>1 DEF FinishRun
    <3>2. Members(waitingList)' = Members(waitingList)
      BY <3>1 DEF Members
    <3> QED
      BY <1>3, <2>1, <3>1, <3>2 DEF AppInv, AppTyped
  <2>2. CASE n # 0
    <3>1. PICK r : r = RemoveAt(waitingList, n)
      OBVIOUS
    <3>2. waitingList' = r /\ due' = due \cup {waitingList[n]}
      BY <1>2, <2>2, <3>1 DEF FinishRun
    <3>3. r \in Seq(Queued) /\ Members(r) \subseteq Members(waitingList)
      BY <1>3, <2>2, <3>1, RemovedMembers DEF AppInv, AppTyped
    <3>4. Members(waitingList)' = Members(r)
      BY <3>2 DEF Members
    <3>5. waitingList[n] \in Members(waitingList)
      BY <1>3, <2>2 DEF Members
    <3> QED
      BY <1>3, <2>2, <3>2, <3>3, <3>4, <3>5
  <2> QED
    BY <2>1, <2>2
<1>5. AppTyped'
  <2>1. \A m \in Members(waitingList) : m \in Queued
    BY AppFacts
  <2> QED
    BY <1>1, <1>4, <2>1 DEF AppInv, AppTyped
<1>6. RunsFit'
  <2>1. \A d \in Chats : registry'[d] # Nothing => d # c /\ registry'[d] = registry[d]
    BY <1>1 DEF AppInv, AppTyped
  <2>2. \A m \in Members(waitingList)' \cup due' : Fits(m)'
    BY <1>1, <1>4 DEF AppInv, RunsFit, Fits
  <2> QED
    BY <1>1, <2>1, <2>2 DEF AppInv, RunsFit
<1>7. TaskFits' /\ DeletedStays'
  BY <1>1 DEF AppInv, TaskFits, DeletedStays
<1>8. ASSUME NEW m \in Members(waitingList)'
      PROVE  Served(m.in)'
  <2>1. m \in Members(waitingList) /\ m.in \in Chats
    BY <1>4, <1>8, AppFacts
  <2>2. CASE m.in = c
    BY <1>4, <1>8, <2>2 DEF Served
  <2>3. CASE m.in # c
    BY <1>1, <1>4, <2>1, <2>3 DEF Served, AppInv, AllServed, AppTyped
  <2> QED
    BY <2>2, <2>3
<1>9. AllServed'
  BY <1>8 DEF AllServed
<1>10. AllShown'
  BY <1>1 DEF AppInv, AllShown, Shown
<1> QED
  BY <1>5, <1>6, <1>7, <1>9, <1>10 DEF AppInv

\* A timer starts a message.
LEMMA DueStep ==
  ASSUME PanelAssumption, AppInv, NEW m \in due, StartDue(m)
  PROVE  AppInv'
<1>1. /\ due' = due \ {m} /\ Begin(m.sub, m.in, m.after)
      /\ UNCHANGED <<openChat, chats, used, flagged, waitingList, task, belongs, rolledBack>>
  BY DEF StartDue
<1>2. PICK s, c, old : s = m.sub /\ c = m.in /\ old = m.after
  OBVIOUS
<1>3. s \in Submissions /\ c \in Chats /\ belongs[s] = c
  BY <1>2, AppFacts DEF AppInv, RunsFit, Fits
<1>4. /\ registry' \in [Chats -> Followed \cup {Nothing}]
      /\ latest' \in [Chats -> Submissions \cup {Nothing}]
      /\ interrupted' \in [Chats -> Submissions \cup {Nothing}]
      /\ answered' \in [Chats -> SUBSET Submissions] /\ given' \subseteq Submissions
      /\ \A d \in Chats : registry'[d] = registry[d] \/ (d = c /\ registry[c] = Nothing /\ registry'[c].run = s)
      /\ passedOver \subseteq passedOver' /\ (c \in passedOver' \/ registry'[c] # Nothing)
      /\ AllShown'
  BY <1>1, <1>2, <1>3, RunBegins
<1>5. AppTyped'
  BY <1>1, <1>4 DEF AppInv, AppTyped
<1>6. Members(waitingList)' = Members(waitingList)
  BY <1>1 DEF Members
<1>7. RunsFit'
  <2>1. \A d \in Chats : registry'[d] # Nothing => belongs'[registry'[d].run] = d
    BY <1>1, <1>3, <1>4 DEF AppInv, RunsFit
  <2>2. \A k \in Members(waitingList)' \cup due' : Fits(k)'
    BY <1>1, <1>6 DEF AppInv, RunsFit, Fits
  <2> QED
    BY <2>1, <2>2 DEF RunsFit
<1>8. TaskFits' /\ DeletedStays'
  BY <1>1 DEF AppInv, TaskFits, DeletedStays
<1>9. ASSUME NEW k \in Members(waitingList)'
      PROVE  Served(k.in)'
  <2>1. k \in Members(waitingList) /\ k.in \in Chats /\ Served(k.in)
    BY <1>6, <1>9, AppFacts DEF AppInv, AllServed
  <2>2. CASE k.in = c
    BY <1>4, <2>2 DEF Served
  <2>3. CASE k.in # c
    BY <1>1, <1>2, <1>4, <2>1, <2>3 DEF Served
  <2> QED
    BY <2>2, <2>3
<1>10. AllServed'
  BY <1>9 DEF AllServed
<1> QED
  BY <1>4, <1>5, <1>7, <1>8, <1>10 DEF AppInv

\* A conversation is made or opened.
LEMMA ChatSteps ==
  ASSUME PanelAssumption, AppInv,
         \/ \E c \in Chats \ used : NewChat(c) \/ \E s \in Delegated : belongs[s] = Nothing /\ AcceptTask(s, c)
         \/ \E c \in chats : OpenChat(c)
  PROVE  AppInv'
<1>1. UNCHANGED <<flagged, answered, registry, latest, interrupted, waitingList, due, belongs, given, rolledBack, passedOver>>
  BY DEF NewChat, AcceptTask, OpenChat, appRunVars, runHistory
<1>2. \/ UNCHANGED <<chats, used>> /\ openChat' \in chats
      \/ \E c \in Chats \ used : chats' = chats \cup {c} /\ used' = used \cup {c} /\ openChat' = c
  BY DEF NewChat, AcceptTask, OpenChat, Make
<1>3. /\ openChat' \in chats' /\ chats \subseteq chats' /\ used \subseteq used' /\ used' \subseteq Chats
      /\ chats' \subseteq used' /\ \A d \in used : d \in chats' => d \in chats
  BY <1>2 DEF AppInv, AppTyped
<1>4. AppTyped'
  BY <1>1, <1>3 DEF AppInv, AppTyped
<1>5. Members(waitingList)' = Members(waitingList)
  BY <1>1 DEF Members
<1>6. RunsFit' /\ AllServed'
  BY <1>1, <1>5 DEF AppInv, RunsFit, Fits, AllServed, Served
<1>7. DeletedStays'
  BY <1>1, <1>3 DEF AppInv, DeletedStays, AppTyped
<1>8. AllShown'
  BY <1>1, <1>3 DEF AppInv, AllShown, Shown, AppTyped
<1>9. TaskFits'
  <2>1. CASE UNCHANGED task
    BY <1>1, <1>3, <2>1 DEF AppInv, TaskFits
  <2>2. ASSUME NEW c \in Chats \ used, NEW s \in Delegated, belongs[s] = Nothing, AcceptTask(s, c)
        PROVE  TaskFits'
    <3>1. /\ task' = [sub |-> s, in |-> c, from |-> openChat, messages |-> answered, list |-> chats]
          /\ used' = used \cup {c}
      BY <2>2 DEF AcceptTask, Make
    <3>2. task' \in Accepted /\ task'.sub = s /\ task'.in = c /\ task'.list = chats /\ task'.from = openChat
      BY <3>1 DEF Accepted, AppInv, AppTyped
    <3> QED
      BY <1>1, <2>2, <3>1, <3>2 DEF TaskFits, AppInv, AppTyped
  <2> QED
    BY <2>1, <2>2 DEF NewChat, OpenChat
<1> QED
  BY <1>4, <1>6, <1>7, <1>8, <1>9 DEF AppInv

\* A branch is made, with a message whose timer is set.
LEMMA BranchStep ==
  ASSUME PanelAssumption, AppInv, NEW c \in Chats \ used, NEW s \in Submissions \ Delegated,
         belongs[s] = Nothing, BranchChat(c, s)
  PROVE  AppInv'
<1>1. PICK m : m = [sub |-> s, in |-> c, after |-> Nothing]
  OBVIOUS
<1>2. m \in Queued /\ m.sub = s /\ m.in = c
  BY <1>1 DEF Queued
<1>3. /\ chats' = chats \cup {c} /\ used' = used \cup {c} /\ openChat' = c
      /\ belongs' = [belongs EXCEPT ![s] = c] /\ due' = due \cup {m}
      /\ UNCHANGED <<flagged, answered, registry, latest, interrupted, waitingList, task, given, rolledBack, passedOver>>
  BY <1>1 DEF BranchChat, Make, runHistory
<1>4. Members(waitingList)' = Members(waitingList)
  BY <1>3 DEF Members
<1>5. belongs' \in [Submissions -> used' \cup {Nothing}] /\ belongs'[s] = c
      /\ \A r \in Submissions : r # s => belongs'[r] = belongs[r]
  BY <1>3 DEF AppInv, AppTyped
<1>6. AppTyped'
  BY <1>2, <1>3, <1>5 DEF AppInv, AppTyped
<1>7. RunsFit'
  <2>1. ASSUME NEW k \in Members(waitingList) \cup due
        PROVE  Fits(k)'
    <3>1. Fits(k) /\ k.sub \in Submissions /\ k.in \in Chats
      BY AppFacts DEF AppInv, RunsFit
    <3>2. k.sub # s
      BY <3>1 DEF Fits, PanelAssumption
    <3> QED
      BY <1>5, <3>1, <3>2 DEF Fits
  <2>2. \A k \in Members(waitingList)' \cup due' : Fits(k)'
    BY <1>2, <1>3, <1>4, <1>5, <2>1 DEF Fits
  <2>3. \A d \in Chats : registry'[d] # Nothing => belongs'[registry'[d].run] = d
    BY <1>3, <1>5, AppFacts DEF AppInv, RunsFit
  <2> QED
    BY <2>2, <2>3 DEF RunsFit
<1>8. TaskFits'
  <2>1. task # Nothing => task.sub # s /\ task.sub \in Submissions
    BY DEF AppInv, TaskFits, Accepted, PanelAssumption
  <2> QED
    BY <1>3, <1>5, <2>1 DEF AppInv, TaskFits
<1>9. DeletedStays'
  BY <1>3 DEF AppInv, DeletedStays, AppTyped
<1>10. AllServed'
  BY <1>3, <1>4 DEF AppInv, AllServed, Served
<1>11. AllShown'
  <2>1. \A r \in given : belongs'[r] = belongs[r] /\ belongs[r] # c
    BY <1>3, <1>5 DEF AppInv, AppTyped, AllShown, Shown
  <2> QED
    BY <1>3, <2>1 DEF AppInv, AllShown, Shown
<1> QED
  BY <1>6, <1>7, <1>8, <1>9, <1>10, <1>11 DEF AppInv

\* A conversation is deleted with the messages that wait in it.
LEMMA DeleteStep ==
  ASSUME PanelAssumption, AppInv, NEW c \in chats, DeleteChat(c)
  PROVE  AppInv'
<1>1. /\ c # openChat /\ c \in Chats /\ c \in used /\ chats' = chats \ {c} /\ answered' = [answered EXCEPT ![c] = {}]
      /\ UNCHANGED <<openChat, used, latest, interrupted, due, task, belongs, given, rolledBack, passedOver>>
  BY DEF DeleteChat, runHistory, AppInv, AppTyped
<1>2. SameRuns /\ flagged' \subseteq flagged \cup {c}
  <2>1. CASE registry[c] = Nothing
    BY <2>1, SameRegistry DEF DeleteChat
  <2>2. CASE registry[c] # Nothing
    <3>1. PICK r : r = registry[c]
      OBVIOUS
    <3>2. PICK n : n = [r EXCEPT !.aborted = TRUE]
      OBVIOUS
    <3>3. r \in Followed
      BY <1>1, <2>2, <3>1, AppFacts
    <3>4. n \in Followed /\ n.run = r.run
      BY <3>2, <3>3, FollowedParts
    <3>5. registry' = [registry EXCEPT ![c] = n] /\ flagged' = flagged \cup {c}
      BY <2>2, <3>1, <3>2 DEF DeleteChat
    <3> QED
      BY <1>1, <2>2, <3>1, <3>4, <3>5, OneRunChanges DEF AppInv
  <2> QED
    BY <2>1, <2>2
<1>3. PICK remain, r : remain = {i \in DOMAIN waitingList : waitingList[i].in # c} /\ r = Filtered(waitingList, remain)
  OBVIOUS
<1>4. waitingList' = r
  BY <1>3 DEF DeleteChat
<1>5. r \in Seq(Queued) /\ Members(r) = {waitingList[k] : k \in remain \cap DOMAIN waitingList}
  BY <1>3, FilteredMembers DEF AppInv, AppTyped
<1>6. Members(r) \subseteq Members(waitingList)
  BY <1>5 DEF Members
<1>7. Members(waitingList)' = Members(r)
  BY <1>4 DEF Members
<1>8. AppTyped'
  BY <1>1, <1>2, <1>4, <1>5 DEF AppInv, AppTyped, SameRuns
<1>9. RunsFit'
  <2>1. \A d \in Chats : registry'[d] # Nothing => belongs'[registry'[d].run] = d
    BY <1>1, <1>2 DEF SameRuns, AppInv, RunsFit
  <2>2. \A k \in Members(waitingList)' \cup due' : Fits(k)'
    BY <1>1, <1>6, <1>7 DEF AppInv, RunsFit, Fits
  <2> QED
    BY <2>1, <2>2 DEF RunsFit
<1>10. TaskFits' /\ DeletedStays'
  BY <1>1, <1>2 DEF AppInv, TaskFits, DeletedStays
<1>11. AllServed'
  <2>1. \A d \in Chats : Served(d) => Served(d)'
    BY <1>1, <1>2, StillServed DEF SameRuns
  <2> QED
    BY <1>6, <1>7, <2>1, AppFacts DEF AppInv, AllServed
<1>12. AllShown'
  BY <1>1 DEF AppInv, AllShown, Shown, AppTyped
<1> QED
  BY <1>8, <1>9, <1>10, <1>11, <1>12 DEF AppInv

\* The panel sees what has become of a run in the daemon.
LEMMA SeeStep ==
  ASSUME PanelAssumption, AppInv, NEW s \in Submissions, SeeSession(s)
  PROVE  AppInv'
<1>1. PICK c : c = belongs[s]
  OBVIOUS
<1>2. /\ c \in chats /\ c \in Chats /\ ~Local(c)
      /\ UNCHANGED <<openChat, chats, used, flagged, interrupted, waitingList, due, task, belongs, rolledBack>>
  BY <1>1 DEF SeeSession, AppInv, AppTyped
<1>3. passedOver \subseteq passedOver'
  BY DEF SeeSession
<1>4. answered' \in [Chats -> SUBSET Submissions] /\ given' \subseteq Submissions /\ AllShown'
  <2>1. CASE session[s] = "over"
    <3>1. Show(s, c) /\ given' \subseteq given \cup {s} /\ belongs'[s] = c
      BY <1>1, <1>2, <2>1 DEF SeeSession
    <3> QED
      BY <1>2, <3>1, ShowKeeps
  <2>2. CASE session[s] # "over"
    <3>1. UNCHANGED <<answered, given>>
      BY <2>2 DEF SeeSession
    <3> QED
      BY <1>2, <3>1 DEF AppInv, AppTyped, AllShown, Shown
  <2> QED
    BY <2>1, <2>2
<1>5. /\ registry' \in [Chats -> Followed \cup {Nothing}]
      /\ \A d \in Chats : d # c => registry'[d] = registry[d]
      /\ registry'[c] # Nothing => registry'[c] = registry[c] \/ registry'[c].run = s
      /\ registry[c] # Nothing => registry'[c] # Nothing \/ c \in passedOver'
  <2>1. CASE session[s] = "running" /\ registry[c] = Nothing
    <3>1. PICK r : r = [run |-> s, stage |-> "remote", aborted |-> FALSE]
      OBVIOUS
    <3>2. r \in Followed /\ r.run = s
      BY <3>1 DEF Followed
    <3>3. registry' = [registry EXCEPT ![c] = r]
      BY <1>1, <2>1, <3>1 DEF SeeSession
    <3> QED
      BY <1>2, <2>1, <3>2, <3>3 DEF AppInv, AppTyped
  <2>2. CASE session[s] = "over"
    <3>1. registry' = [registry EXCEPT ![c] = Nothing]
      BY <1>1, <2>2 DEF SeeSession
    <3>2. registry[c] # Nothing => c \in passedOver'
      BY <1>1, <1>2, <2>2 DEF SeeSession, Remote, Local
    <3> QED
      BY <1>2, <3>1, <3>2 DEF AppInv, AppTyped
  <2>3. CASE session[s] # "over" /\ ~(session[s] = "running" /\ registry[c] = Nothing)
    <3>1. registry' = registry
      BY <1>1, <2>3 DEF SeeSession
    <3> QED
      BY <3>1 DEF AppInv, AppTyped
  <2> QED
    BY <2>1, <2>2, <2>3
<1>6. latest' \in [Chats -> Submissions \cup {Nothing}]
  <2>1. latest' = [latest EXCEPT ![c] = s] \/ latest' = latest
    BY <1>1 DEF SeeSession
  <2> QED
    BY <2>1 DEF AppInv, AppTyped
<1>7. AppTyped'
  BY <1>2, <1>4, <1>5, <1>6 DEF AppInv, AppTyped
<1>8. Members(waitingList)' = Members(waitingList)
  BY <1>2 DEF Members
<1>9. RunsFit'
  <2>1. \A d \in Chats : registry'[d] # Nothing => belongs'[registry'[d].run] = d
    BY <1>1, <1>2, <1>5 DEF AppInv, RunsFit
  <2>2. \A k \in Members(waitingList)' \cup due' : Fits(k)'
    BY <1>2, <1>8 DEF AppInv, RunsFit, Fits
  <2> QED
    BY <2>1, <2>2 DEF RunsFit
<1>10. TaskFits' /\ DeletedStays'
  BY <1>2 DEF AppInv, TaskFits, DeletedStays
<1>11. AllServed'
  <2>1. \A d \in Chats : Served(d) => Served(d)'
    BY <1>2, <1>3, <1>5 DEF Served
  <2> QED
    BY <1>8, <2>1, AppFacts DEF AppInv, AllServed
<1> QED
  BY <1>4, <1>7, <1>9, <1>10, <1>11 DEF AppInv

\* The panel is closed and opened.
LEMMA ReloadStep ==
  ASSUME PanelAssumption, AppInv, ReloadPanelApp
  PROVE  AppInv'
<1>1. PICK e : e = [c \in Chats |-> Nothing]
  OBVIOUS
<1>2. /\ flagged' = {} /\ registry' = e /\ latest' = e /\ interrupted' = e /\ waitingList' = <<>> /\ due' = {}
      /\ task' = Nothing /\ given' = {} /\ UNCHANGED <<openChat, chats, used, belongs>>
  BY <1>1 DEF ReloadPanelApp
<1>3. answered' \in [Chats -> SUBSET Submissions]
  BY DEF ReloadPanelApp
<1>4. waitingList' \in Seq(Queued) /\ Members(waitingList)' = {}
  BY <1>2 DEF Members
<1>5. AppTyped'
  BY <1>1, <1>2, <1>3, <1>4 DEF AppInv, AppTyped
<1>6. RunsFit' /\ AllServed' /\ AllShown' /\ DeletedStays' /\ TaskFits'
  BY <1>1, <1>2, <1>4 DEF RunsFit, AllServed, AllShown, DeletedStays, TaskFits
<1> QED
  BY <1>5, <1>6 DEF AppInv

\* The claim of a task is granted.
LEMMA GrantedStep ==
  ASSUME PanelAssumption, AppInv, ClaimGranted
  PROVE  AppInv'
<1>1. PICK s, c : s = task.sub /\ c = task.in
  OBVIOUS
<1>2. s \in Submissions /\ c \in Chats /\ c \in used /\ belongs[s] = Nothing /\ task # Nothing
  BY <1>1 DEF ClaimGranted, AppInv, TaskFits, Accepted, PanelAssumption
<1>3. /\ task' = Nothing /\ belongs' = [belongs EXCEPT ![s] = c]
      /\ UNCHANGED <<openChat, chats, used, flagged, due, rolledBack>>
  BY <1>1 DEF ClaimGranted
<1>4. belongs' \in [Submissions -> used \cup {Nothing}] /\ belongs'[s] = c
      /\ \A r \in Submissions : r # s => belongs'[r] = belongs[r]
  BY <1>2, <1>3 DEF AppInv, AppTyped
<1>5. \A r \in given : belongs'[r] = belongs[r] /\ r # s
  BY <1>2, <1>4 DEF AppInv, AppTyped, AllShown, Shown
<1>6. ASSUME NEW m \in Members(waitingList) \cup due
      PROVE  belongs'[m.sub] = m.in
  <2>1. Fits(m) /\ m.sub \in Submissions /\ m.in \in Chats
    BY AppFacts DEF AppInv, RunsFit
  <2>2. m.sub # s
    BY <1>2, <2>1 DEF Fits, PanelAssumption
  <2> QED
    BY <1>4, <2>1, <2>2 DEF Fits
<1>7. \A d \in Chats : registry[d] # Nothing => belongs'[registry[d].run] = d
  BY <1>2, <1>4, AppFacts DEF AppInv, RunsFit
<1>8. TaskFits' /\ DeletedStays'
  BY <1>3 DEF AppInv, TaskFits, DeletedStays
<1>9. CASE registry[c] = Nothing
  <2>1. PICK old : old = Nothing
    OBVIOUS
  <2>2. Begin(s, c, old) /\ UNCHANGED waitingList
    BY <1>1, <1>9, <2>1 DEF ClaimGranted
  <2>3. /\ registry' \in [Chats -> Followed \cup {Nothing}]
        /\ latest' \in [Chats -> Submissions \cup {Nothing}]
        /\ interrupted' \in [Chats -> Submissions \cup {Nothing}]
        /\ answered' \in [Chats -> SUBSET Submissions] /\ given' \subseteq Submissions
        /\ \A d \in Chats : registry'[d] = registry[d] \/ (d = c /\ registry[c] = Nothing /\ registry'[c].run = s)
        /\ passedOver \subseteq passedOver'
        /\ AllShown'
    BY <1>2, <1>3, <1>4, <1>5, <2>2, RunBegins
  <2>4. AppTyped'
    BY <1>3, <1>4, <2>2, <2>3 DEF AppInv, AppTyped
  <2>5. Members(waitingList)' = Members(waitingList)
    BY <2>2 DEF Members
  <2>6. RunsFit'
    <3>1. \A d \in Chats : registry'[d] # Nothing => belongs'[registry'[d].run] = d
      BY <1>4, <1>7, <2>3
    <3> QED
      BY <1>3, <1>6, <2>5, <3>1 DEF RunsFit, Fits
  <2>7. AllServed'
    <3>1. \A d \in Chats : Served(d) => Served(d)'
      BY <1>3, <2>3, StillServed
    <3> QED
      BY <2>5, <3>1, AppFacts DEF AppInv, AllServed
  <2> QED
    BY <1>8, <2>3, <2>4, <2>6, <2>7 DEF AppInv
<1>10. CASE registry[c] # Nothing
  <2>1. PICK m, q : m = [sub |-> s, in |-> c, after |-> Nothing] /\ q = waitingList
    OBVIOUS
  <2>2. m \in Queued /\ m.in = c /\ m.sub = s /\ q \in Seq(Queued)
    BY <1>2, <2>1 DEF Queued, AppInv, AppTyped
  <2>3. PICK h : IsLonger(h, q, m)
    BY DEF IsLonger
  <2>4. h \in Seq(Queued) /\ Members(h) = Members(q) \cup {m}
    BY <2>2, <2>3, LongerMembers
  <2>5. /\ waitingList' = h \/ waitingList' = q
        /\ UNCHANGED <<registry, latest, interrupted, answered, given, passedOver>>
    BY <1>1, <1>10, <2>1, <2>3 DEF ClaimGranted, IsLonger
  <2>6. AppTyped'
    BY <1>3, <1>4, <2>2, <2>4, <2>5 DEF AppInv, AppTyped
  <2>7. Members(waitingList)' \subseteq Members(waitingList) \cup {m}
    <3>1. Members(waitingList)' = Members(h) \/ Members(waitingList)' = Members(q)
      BY <2>5 DEF Members
    <3> QED
      BY <2>1, <2>4, <3>1
  <2>8. RunsFit'
    BY <1>3, <1>4, <1>6, <1>7, <2>2, <2>5, <2>7 DEF RunsFit, Fits
  <2>9. ASSUME NEW k \in Members(waitingList)'
        PROVE  Served(k.in)'
    <3>1. CASE k = m
      BY <1>10, <2>2, <2>5, <3>1 DEF Served
    <3>2. CASE k \in Members(waitingList)
      BY <1>3, <2>5, <3>2 DEF AppInv, AllServed, Served
    <3> QED
      BY <2>7, <2>9, <3>1, <3>2
  <2>10. AllServed'
    BY <2>9 DEF AllServed
  <2>11. AllShown'
    BY <1>3, <1>5, <2>5 DEF AppInv, AllShown, Shown
  <2> QED
    BY <1>8, <2>6, <2>8, <2>10, <2>11 DEF AppInv
<1> QED
  BY <1>9, <1>10

\* The claim of a task is refused: what was remembered comes back.
LEMMA RefusedStep ==
  ASSUME PanelAssumption, AppInv, ClaimRefused
  PROVE  AppInv'
<1>1. PICK old : old = {task.from} \cup (task.list \ chats)
  OBVIOUS
<1>2. /\ task \in Accepted /\ task.in \in used /\ task.list \subseteq used /\ task.from \in task.list
      /\ task.messages \in [Chats -> SUBSET Submissions]
  BY DEF ClaimRefused, AppInv, TaskFits, Accepted
<1>3. /\ task' = Nothing /\ openChat' = task.from /\ chats' = task.list
      /\ answered' = [c \in Chats |-> IF c \in old THEN task.messages[c] ELSE IF c = task.in THEN {} ELSE answered[c]]
      /\ rolledBack' = rolledBack \cup old \cup {task.in}
      /\ UNCHANGED <<used, flagged, registry, latest, interrupted, waitingList, due, belongs, given, passedOver>>
  BY <1>1 DEF ClaimRefused, appRunVars
<1>4. AppTyped'
  BY <1>2, <1>3 DEF AppInv, AppTyped
<1>5. Members(waitingList)' = Members(waitingList)
  BY <1>3 DEF Members
<1>6. RunsFit' /\ AllServed'
  BY <1>3, <1>5 DEF AppInv, RunsFit, Fits, AllServed, Served
<1>7. TaskFits'
  BY <1>3 DEF TaskFits
<1>8. DeletedStays'
  BY <1>1, <1>3 DEF AppInv, DeletedStays
<1>9. \A c \in Chats : c \in chats' \ rolledBack' => c \in chats \ rolledBack /\ answered'[c] = answered[c]
  BY <1>1, <1>3
<1>10. AllShown'
  BY <1>3, <1>9 DEF AppInv, AllShown, Shown, AppTyped
<1> QED
  BY <1>4, <1>6, <1>7, <1>8, <1>10 DEF AppInv

\* What the user sends is served and what comes back is shown where it belongs
\* (runChatSubmission, supersedeActiveAgentRun, conversationDeletion.ts, acceptDelegatedTask),
\* for any number of conversations, messages, runs, tasks and reloads.
THEOREM AllArrives == ASSUME PanelAssumption PROVE PanelAppSpec => []NothingGoesAstray
<1>1. PanelAppInit => AppInv
  <2> SUFFICES ASSUME PanelAppInit PROVE AppInv
    OBVIOUS
  <2> USE DEF PanelAppInit
  <2>1. First \in Chats
    BY DEF First, PanelAssumption
  <2>2. AppTyped
    BY <2>1 DEF AppTyped
  <2>3. Members(waitingList) = {}
    BY DEF Members
  <2>4. RunsFit /\ TaskFits /\ DeletedStays /\ AllServed /\ AllShown
    BY <2>3 DEF RunsFit, TaskFits, DeletedStays, AllServed, AllShown
  <2> QED
    BY <2>2, <2>4 DEF AppInv
<1>2. AppInv /\ [PanelAppNext]_panelAppVars => AppInv'
  <2> SUFFICES ASSUME AppInv, [PanelAppNext]_panelAppVars PROVE AppInv'
    OBVIOUS
  <2>1. CASE UNCHANGED panelAppVars
    <3>1. UNCHANGED <<chatVars, registry, latest, interrupted, waitingList, due, belongs, task, given, rolledBack, passedOver>>
      BY <2>1 DEF panelAppVars, appRunVars, runHistory
    <3>2. SameRuns /\ FewerQueued
      BY <3>1, SameRegistry, SameQueue
    <3>3. latest' \in [Chats -> Submissions \cup {Nothing}] /\ interrupted' \in [Chats -> Submissions \cup {Nothing}]
      BY <3>1 DEF AppInv, AppTyped
    <3> QED
      BY <3>1, <3>2, <3>3, QueueSteps
  <2>2. ASSUME NEW s \in FreshIn(Unsent(Submissions \ Delegated)), NEW forced \in BOOLEAN, SendChat(s, forced)
        PROVE  AppInv'
    <3>1. s \in Submissions \ Delegated /\ belongs[s] = Nothing
      BY FreshMembers DEF Unsent
    <3> QED
      BY <2>2, <3>1, SendStep
  <2>3. ASSUME NEW c \in Chats, SettleRun(c) \/ FinishRun(c)
        PROVE  AppInv'
    BY <2>3, SettleStep, FinishStep
  <2>4. ASSUME NEW c \in FreshIn(Chats \ used),
               \/ NewChat(c)
               \/ \E s \in FreshIn(Unsent(Submissions \ Delegated)) : BranchChat(c, s)
               \/ \E s \in Unsent(Delegated) : AcceptTask(s, c)
        PROVE  AppInv'
    <3>1. c \in Chats \ used
      BY FreshMembers
    <3>2. ASSUME NEW s \in FreshIn(Unsent(Submissions \ Delegated)), BranchChat(c, s)
          PROVE  AppInv'
      <4>1. s \in Submissions \ Delegated /\ belongs[s] = Nothing
        BY FreshMembers DEF Unsent
      <4> QED
        BY <3>1, <3>2, <4>1, BranchStep
    <3>3. ASSUME NEW s \in Unsent(Delegated), AcceptTask(s, c)
          PROVE  AppInv'
      BY <3>1, <3>3, ChatSteps DEF Unsent
    <3> QED
      BY <2>4, <3>1, <3>2, <3>3, ChatSteps
  <2> QED
    BY <2>1, <2>2, <2>3, <2>4, RunSteps, DueStep, ChatSteps, DeleteStep, SeeStep, ReloadStep, GrantedStep, RefusedStep
       DEF PanelAppNext
<1>3. AppInv => NothingGoesAstray
  <2> SUFFICES ASSUME AppInv PROVE NothingGoesAstray
    OBVIOUS
  <2>1. QueueIsServed
    BY AppFacts DEF AppInv, AllServed, Served, QueueIsServed
  <2>2. AnswersStay
    BY DEF AppInv, AllShown, Shown, AnswersStay
  <2> QED
    BY <2>1, <2>2 DEF NothingGoesAstray
<1> QED
  BY <1>1, <1>2, <1>3, PTL DEF PanelAppSpec
==============================================================================
