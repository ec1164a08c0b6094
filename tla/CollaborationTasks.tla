-------------------------- MODULE CollaborationTasks --------------------------
(***************************************************************************)
(* Tasks that an MCP agent delegates to the agent of the extension: the    *)
(* shared workspace they are kept in (shared/collaborationWorkspace.ts),   *)
(* the operations on them (mcp/collaborationTaskRuntime.ts,                *)
(* shared/collaborationTasks.ts) and the callers that wait for a result    *)
(* (mcp/wsServer.ts, daemon/executionBroker.ts).                           *)
(*                                                                         *)
(* A task is one group of items: its request, claim, events and result.    *)
(* The workspace holds a number of items; its limit in bytes works in the  *)
(* same way.  Each handler runs to its end without interruption.           *)
(***************************************************************************)
EXTENDS Naturals, Sequences, FiniteSets, SequencesExt, Selections

CONSTANTS
  Tasks,           \* task ids, the idempotency keys
  Conversations,
  Contents,        \* what a request asks for
  Pages,           \* the documents of the tab that the tasks are about
  Statuses,        \* "completed", "rejected", ...
  Nobody,
  MaxItems,        \* MAX_COLLABORATION_ITEMS
  MaxAttempts      \* bound: claims of a task

ASSUME TasksAssumption ==
  /\ Pages # {} /\ Nobody \notin Statuses
  /\ MaxItems \in Nat \ {0} /\ MaxAttempts \in Nat

VARIABLES
  page,       \* currentTab of the session
  workspace,  \* the group of each task that is retained
  recent,     \* these tasks, the one updated last at the end
  lapsed,     \* tasks whose expiresAt has passed
  waiting,    \* the tasks whose result a caller waits for
  answers     \* history: the results callers have been given of the present task

taskVars == <<page, workspace, recent, lapsed, waiting, answers>>

Group == [content : Contents, target : Pages,
          claim : {Nobody} \cup [conversation : Conversations, attempt : Nat],
          events : Nat, result : {Nobody} \cup Statuses]

TasksTypeOK ==
  /\ page \in Pages
  /\ DOMAIN workspace \subseteq Tasks /\ \A t \in DOMAIN workspace : workspace[t] \in Group
  /\ ToSet(recent) = DOMAIN workspace /\ Len(recent) = Cardinality(DOMAIN workspace)
  /\ lapsed \subseteq DOMAIN workspace
  /\ waiting \subseteq Tasks

TasksInit ==
  /\ page = CHOOSE p \in Pages : TRUE
  /\ workspace = [t \in {} |-> Nobody]
  /\ recent = <<>> /\ lapsed = {}
  /\ waiting = {}
  /\ answers = [t \in Tasks |-> {}]

-----------------------------------------------------------------------------
(* The workspace *)

Known(t) == t \in DOMAIN workspace

\* Mutant of Decided: the result is not looked at.
NeverDecided(t) == FALSE
Decided(t) == workspace[t].result # Nobody

Size(g) == 1 + (IF g.claim = Nobody THEN 0 ELSE 1) + g.events + (IF g.result = Nobody THEN 0 ELSE 1)

\* The tasks of the sequence q that are in the set S, in their order.
TasksIn(q, S) == Filtered(q, {i \in DOMAIN q : q[i] \in S})

\* retainBoundedItems: the group just written, then the open tasks, then the
\* finished ones, the newest first; what does not fit is left out.
Retained(groups, order, preferred) ==
  LET open   == {t \in DOMAIN groups \ {preferred} : groups[t].result = Nobody}
      newest == Reverse(order)
      ranked == <<preferred>> \o TasksIn(newest, open)
                              \o TasksIn(newest, DOMAIN groups \ (open \cup {preferred}))
      Take(kept, t) == IF kept.size + Size(groups[t]) > MaxItems THEN kept
                       ELSE [tasks |-> kept.tasks \cup {t}, size |-> kept.size + Size(groups[t])]
  IN  FoldLeft(Take, [tasks |-> {}, size |-> 0], ranked).tasks

\* Mutant of StillWaiting: only a result wakes the callers.
WaitingForResult(groups) ==
  {t \in waiting : ~(t \in DOMAIN groups /\ groups[t].result # Nobody)}

\* Every change of the workspace is announced to the callers that wait: each
\* reads its task again, and one whose task is gone gives up.
StillWaiting(groups) ==
  {t \in waiting : t \in DOMAIN groups /\ groups[t].result = Nobody}

\* The callers that are answered are given the result; a task that is created
\* has told nobody anything.
Notify(groups, t) ==
  /\ waiting' = StillWaiting(groups)
  /\ answers' = [u \in Tasks |->
       (IF u = t /\ ~Known(t) THEN {} ELSE answers[u])
         \cup (IF u \in (waiting \ waiting') \cap DOMAIN groups THEN {groups[u].result} ELSE {})]

\* upsertCollaborationItem for an item of task t: expired groups are dropped
\* first, and a child of a dropped request is refused.
Upsert(t, g) ==
  /\ t \notin lapsed
  /\ Size(g) <= MaxItems
  /\ LET live   == {u \in DOMAIN workspace : u \notin lapsed} \cup {t}
         groups == [u \in live |-> IF u = t THEN g ELSE workspace[u]]
         order  == Append(TasksIn(recent, live \ {t}), t)
         kept   == Retained(groups, order, t)
     IN  /\ workspace' = [u \in live \cap kept |-> groups[u]]
         /\ recent' = TasksIn(order, kept)
         /\ lapsed' = {}
         /\ Notify(workspace', t)

-----------------------------------------------------------------------------
(* The MCP agent *)

\* requestFingerprint; it covers the page that is current at the time.
SameRequest(g, content) == g.content = content /\ g.target = page

\* browser_delegate_collaboration_task
DelegateNew(t, content) ==
  /\ ~Known(t)
  /\ Upsert(t, [content |-> content, target |-> page, claim |-> Nobody, events |-> 0, result |-> Nobody])
  /\ UNCHANGED page

\* The task has been delegated before: its present state is the answer, or
\* IDEMPOTENCY_CONFLICT when the request is not the same.
DelegateAgain(t, content) ==
  /\ Known(t)
  /\ SameRequest(workspace[t], content)
  /\ answers' = [answers EXCEPT ![t] = @ \cup ({workspace[t].result} \ {Nobody})]
  /\ UNCHANGED <<page, workspace, recent, lapsed, waiting>>

\* browser_wait_for_collaboration_result: a result that is there is the answer.
Wait(t) ==
  /\ Known(t)
  /\ t \notin waiting
  /\ waiting' = IF Decided(t) THEN waiting ELSE waiting \cup {t}
  /\ answers' = [answers EXCEPT ![t] = @ \cup ({workspace[t].result} \ {Nobody})]
  /\ UNCHANGED <<page, workspace, recent, lapsed>>

\* The caller cancels, or its connection closes: only the wait ends.
StopWaiting(t) ==
  /\ t \in waiting
  /\ waiting' = waiting \ {t}
  /\ UNCHANGED <<page, workspace, recent, lapsed, answers>>

-----------------------------------------------------------------------------
(* The extension agent *)

\* assertTaskTargetFresh: the page the task was delegated for, or another
\* document of its tab for a resumption that rebinds.
Fresh(t, rebinds) == workspace[t].target = page \/ rebinds

MayStart(t) == workspace[t].claim = Nobody

\* browser_claim_collaboration_task of a task nobody has accepted.
Claim(t, c) ==
  /\ Known(t)
  /\ ~Decided(t) /\ MayStart(t)
  /\ Fresh(t, FALSE)
  /\ Upsert(t, [workspace[t] EXCEPT !.claim = [conversation |-> c, attempt |-> 1]])
  /\ UNCHANGED page

\* With resume, and with rebind for another conversation or another page.
Resume(t, c, rebind) ==
  /\ Known(t)
  /\ ~Decided(t) /\ workspace[t].claim # Nobody
  /\ workspace[t].claim.attempt < MaxAttempts
  /\ Fresh(t, rebind)
  /\ workspace[t].claim.conversation = c \/ rebind
  /\ Upsert(t, [workspace[t] EXCEPT !.claim = [conversation |-> c, attempt |-> @.attempt + 1]])
  /\ UNCHANGED <<page>>

\* browser_update_collaboration_task, by the conversation that holds the claim
\* or by the MCP agent; an event that is there already changes nothing.
Update(t) ==
  /\ Known(t)
  /\ ~Decided(t)
  /\ workspace[t].events = 0
  /\ Upsert(t, [workspace[t] EXCEPT !.events = 1])
  /\ UNCHANGED <<page>>

\* The MCP agent (c = Nobody) only cancels. The extension may reject what nobody
\* has accepted, or cancel it when its page is gone.
MayAnswer(t, c, status) ==
  IF c = Nobody THEN status = "cancelled"
  ELSE \/ workspace[t].claim # Nobody \/ status = "rejected"
       \/ status = "cancelled" /\ workspace[t].target # page

\* browser_complete_collaboration_task, from the conversation that holds the
\* claim if any, and browser_cancel_collaboration_task.
Complete(t, c, status) ==
  /\ Known(t)
  /\ MayAnswer(t, c, status)
  /\ ~Decided(t)
  /\ (c # Nobody /\ workspace[t].claim # Nobody) => workspace[t].claim.conversation = c
  /\ Upsert(t, [workspace[t] EXCEPT !.result = status])
  /\ UNCHANGED <<page>>

\* The same result again.
CompleteAgain(t, c, status) ==
  /\ Known(t)
  /\ MayAnswer(t, c, status)
  /\ workspace[t].result = status
  /\ answers' = [answers EXCEPT ![t] = @ \cup {status}]
  /\ UNCHANGED <<page, workspace, recent, lapsed, waiting>>

-----------------------------------------------------------------------------
Navigate(p) ==
  /\ p # page
  /\ page' = p
  /\ UNCHANGED <<workspace, recent, lapsed, waiting, answers>>

Lapse(t) ==
  /\ Known(t) /\ t \notin lapsed
  /\ lapsed' = lapsed \cup {t}
  /\ UNCHANGED <<page, workspace, recent, waiting, answers>>

TasksNext ==
  \/ \E p \in Pages : Navigate(p)
  \/ \E t \in Tasks :
       \/ Wait(t) \/ StopWaiting(t) \/ Update(t) \/ Lapse(t)
       \/ \E content \in Contents :
            DelegateNew(t, content) \/ DelegateAgain(t, content)
       \/ \E c \in Conversations :
            Claim(t, c) \/ \E rebind \in BOOLEAN : Resume(t, c, rebind)
       \/ \E c \in Conversations \cup {Nobody}, status \in Statuses :
            Complete(t, c, status) \/ CompleteAgain(t, c, status)

TasksSpec == TasksInit /\ [][TasksNext]_taskVars
-----------------------------------------------------------------------------
(* Properties *)

\* Everyone who is given the result of a task is given the same one, although
\* two agents may finish it at the same time, in any order with waits,
\* resumptions and the eviction of groups.
OneOutcome == \A t \in Tasks : Cardinality(answers[t]) <= 1

\* A caller that waits is waiting for a task that is there and undecided: a
\* decision or an eviction that it sleeps through would leave it waiting forever.
WaitersAreLive ==
  \A t \in waiting : Known(t) /\ workspace[t].result = Nobody

\* "taskId is the idempotency key: retry with the same content to recover."
RetryRecovers ==
  \A t \in DOMAIN workspace : SameRequest(workspace[t], workspace[t].content)
=============================================================================
