--------------------------- MODULE BrowserWorkflow ---------------------------
(***************************************************************************)
(* browser_workflow and its action stage (src/src/mcp/toolRuntime.ts):     *)
(* the page is observed, preconditions are verified, up to twenty actions  *)
(* run in order, fields that are ready in one call of fillForm, then come  *)
(* the cleanup, a second observation and the checks.                       *)
(*                                                                         *)
(* The daemon may give a call up while the extension still executes it     *)
(* (callBrowserTool); the extension takes its calls in turn.               *)
(***************************************************************************)
EXTENDS Naturals, Sequences

CONSTANTS
    Length,         \* the number of actions
    Plans,          \* the workflows that are asked for
    MaxNavigations, \* bound: documents after the first
    MaxFailures     \* bound: calls, reads and checks that fail

Actions == 1..Length

ASSUME BrowserWorkflowAssumption ==
    /\ {Length, MaxNavigations, MaxFailures} \subseteq Nat
    /\ Plans \subseteq [field   : SUBSET Actions,       \* "fill" and "select"
                        barrier : SUBSET Actions,
                        frame   : [Actions -> Nat],   \* of the elements
                        needs   : [Actions -> SUBSET Actions],   \* dependsOn
                        refs    : BOOLEAN,   \* elements by reference, not by selector
                        stops   : BOOLEAN]   \* stopOnFailure

VARIABLES
    plan,      \* the arguments of the call, empty before it
    document,  \* Chrome: the document of the tab, the first one is 0
    phase,     \* what the workflow awaits
    at,        \* index of the action stage
    last,      \* the last action of the call that is awaited
    callQueue,     \* extension: calls that wait or are executed, the executed one first
    answer,    \* answer on its way to the workflow
    tookEffect,   \* how often each action took effect on a page
    result,    \* results of the action stage
    stopped,   \* whether stoppedAt is set
    trouble,   \* what else the final status is made of
    status,    \* the status that is returned, "failed" when the call throws
    failures

workflowVars == <<plan, document, phase, at, last, callQueue, answer, tookEffect, result, stopped,
                  trouble, status, failures>>

WorkflowInit ==
    /\ plan = {} /\ document = 0 /\ phase = "idle" /\ at = 1 /\ last = 0 /\ callQueue = <<>>
    /\ answer = "none" /\ tookEffect = [a \in Actions |-> 0] /\ result = [a \in Actions |-> "none"]
    /\ stopped = FALSE /\ trouble = "none" /\ status = "none" /\ failures = 0

Fails == failures < MaxFailures /\ failures' = failures + 1

\* References hold for the document they were taken from; the extension asserts it again
\* for every element that it resolves.
Resolvable == plan.refs => document = 0

----------------------------------------------------------------------------
(* Before the actions *)

\* resolveSnapshotReferences and the first observation: an error is the answer.
StartWorkflow(p) ==
    /\ plan' = p
    /\ \/ /\ p.refs => document = 0
          /\ phase' = "preconditions"
          /\ UNCHANGED <<status, failures>>
       \/ /\ (p.refs /\ document # 0 /\ UNCHANGED failures) \/ Fails
          /\ phase' = "over" /\ status' = "failed"
    /\ UNCHANGED <<document, at, last, callQueue, answer, tookEffect, result, stopped, trouble>>

\* verifyBrowserState with the preconditions, if there are any.
VerifyPreconditions ==
    /\ phase = "preconditions"
    /\ \/ phase' = "stage" /\ UNCHANGED <<trouble, status, failures>>
       \/ Fails /\ phase' = "observe" /\ trouble' = "condition" /\ UNCHANGED status
       \/ Fails /\ phase' = "over" /\ status' = "failed" /\ UNCHANGED trouble
    /\ UNCHANGED <<plan, document, at, last, callQueue, answer, tookEffect, result, stopped>>

----------------------------------------------------------------------------
(* executeActionStage *)

Ready(a) == \A d \in plan.needs[a] : result[d] = "completed"

\* executeActionStage throws before its first call if a selector is not native CSS.
RefuseSelectors ==
    /\ phase = "cleanup" \/ (phase = "stage" /\ at = 1)
    /\ phase' = "over" /\ status' = "failed"
    /\ UNCHANGED <<plan, document, at, last, callQueue, answer, tookEffect, result, stopped, trouble, failures>>

\* Whether a field is filled with the first one by one call of fillForm, as all between
\* them; the first is in the call whatever its barrier. Mutant: dependencies are not
\* looked at.
JoinsUnready(first, a) ==
    a \in plan.field /\ plan.frame[a] = plan.frame[first] /\ a \notin plan.barrier
Joins(first, a) ==
    a \in plan.field /\ plan.frame[a] = plan.frame[first] /\ a \notin plan.barrier /\ Ready(a)
Batch(first) ==
    IF first \notin plan.field THEN {first}
    ELSE {first} \cup {a \in Actions : a > first /\ \A b \in first..a : Joins(first, b)}

SkipAction ==
    /\ phase = "stage" /\ at \in Actions /\ ~Ready(at)
    /\ result' = [result EXCEPT ![at] = "skipped"]
    /\ at' = at + 1
    /\ UNCHANGED <<plan, document, phase, last, callQueue, answer, tookEffect, stopped, trouble, status, failures>>

CallAction ==
    /\ phase = "stage" /\ at \in Actions /\ Ready(at)
    /\ LET to == CHOOSE a \in Batch(at) : \A b \in Batch(at) : b <= a
       IN  last' = to /\ callQueue' = Append(callQueue, [from |-> at, to |-> to])
    /\ phase' = "call" /\ answer' = "none"
    /\ UNCHANGED <<plan, document, at, tookEffect, result, stopped, trouble, status, failures>>

\* The next action of the stage. Mutant: the batch is not passed over.
OnePast  == at + 1
NextAction == last + 1

\* A batch never stops at a barrier.
ActionCompleted ==
    /\ phase = "call" /\ answer = "completed"
    /\ result' = [a \in Actions |-> IF a \in at..last THEN "completed" ELSE result[a]]
    /\ at' = NextAction /\ answer' = "none"
    /\ IF at \in plan.barrier \ plan.field
       THEN phase' = "cleanup" /\ stopped' = TRUE
       ELSE phase' = "stage" /\ UNCHANGED stopped
    /\ UNCHANGED <<plan, document, last, callQueue, tookEffect, trouble, status, failures>>

\* An error is the answer, or the daemon gives the call up.
ActionFailed ==
    /\ phase = "call"
    /\ \/ answer = "failed" /\ UNCHANGED failures
       \/ answer # "failed" /\ Fails
    /\ result' = [a \in Actions |-> IF a \in at..last THEN "failed" ELSE result[a]]
    /\ at' = NextAction /\ answer' = "none" /\ stopped' = TRUE
    /\ phase' = IF plan.stops THEN "cleanup" ELSE "stage"
    /\ UNCHANGED <<plan, document, last, callQueue, tookEffect, trouble, status>>

EndStage ==
    /\ phase = "stage" /\ at > Length
    /\ phase' = "cleanup"
    /\ UNCHANGED <<plan, document, at, last, callQueue, answer, tookEffect, result, stopped, trouble, status, failures>>

----------------------------------------------------------------------------
(* The extension *)

\* The call at the head of the callQueue is over; its answer may be awaited by nobody.
CallAnswered(said) ==
    /\ callQueue' = Tail(callQueue)
    /\ answer' = IF phase = "call" /\ Len(callQueue) = 1 THEN said ELSE answer

\* An action takes effect, those of a form one after the other; it may load a document.
TakeEffect ==
    /\ callQueue # <<>> /\ Resolvable
    /\ tookEffect' = [tookEffect EXCEPT ![Head(callQueue).from] = @ + 1]
    /\ IF Head(callQueue).from = Head(callQueue).to THEN CallAnswered("completed")
       ELSE /\ callQueue' = [callQueue EXCEPT ![1].from = @ + 1]
            /\ UNCHANGED answer
    /\ \/ UNCHANGED document
       \/ document < MaxNavigations /\ document' = document + 1
    /\ UNCHANGED <<plan, phase, at, last, result, stopped, trouble, status, failures>>

\* The element is not found, is stale or refuses; what a form has filled stays filled.
RefuseEffect ==
    /\ callQueue # <<>>
    /\ \/ ~Resolvable /\ UNCHANGED failures
       \/ Resolvable /\ Fails
    /\ CallAnswered("failed")
    /\ UNCHANGED <<plan, document, phase, at, last, tookEffect, result, stopped, trouble, status>>

TabNavigates ==
    /\ document < MaxNavigations /\ status = "none"
    /\ document' = document + 1
    /\ UNCHANGED <<plan, phase, at, last, callQueue, answer, tookEffect, result, stopped, trouble, status, failures>>

----------------------------------------------------------------------------
(* After the actions *)

\* The stage of cleanupActions, if there are any.
CleanUp ==
    /\ phase = "cleanup"
    /\ phase' = "observe"
    /\ \/ UNCHANGED <<trouble, failures>>
       \/ Fails /\ trouble' = "cleanup"
    /\ UNCHANGED <<plan, document, at, last, callQueue, answer, tookEffect, result, stopped, status>>

\* readPostActionSemanticSnapshot, with its retries: an error does not repeat an action.
ObserveAfter ==
    /\ phase = "observe"
    /\ phase' = "checks"
    /\ \/ UNCHANGED <<trouble, failures>>
       \/ Fails /\ trouble' = IF trouble = "condition" THEN trouble ELSE "observation"
    /\ UNCHANGED <<plan, document, at, last, callQueue, answer, tookEffect, result, stopped, status>>

StatusFor(problem) ==
    IF problem = "condition" THEN "condition_failed"
    ELSE IF problem = "observation" THEN "verification_unavailable"
    ELSE IF problem = "cleanup" THEN "cleanup_failed"
    ELSE IF problem = "checks" THEN "verification_failed"
    ELSE IF stopped THEN "action_stopped" ELSE "completed"

\* verifyBrowserState with the checks; its error is the answer to the call.
VerifyChecks ==
    /\ phase = "checks"
    /\ phase' = "over"
    /\ \/ status' = StatusFor(trouble) /\ UNCHANGED <<trouble, failures>>
       \/ /\ trouble # "observation" /\ Fails
          /\ LET problem == IF trouble = "none" THEN "checks" ELSE trouble
             IN  trouble' = problem /\ status' = StatusFor(problem)
       \/ trouble # "observation" /\ Fails /\ status' = "failed" /\ UNCHANGED trouble
    /\ UNCHANGED <<plan, document, at, last, callQueue, answer, tookEffect, result, stopped>>

WorkflowNext ==
    \/ phase = "idle" /\ \E p \in Plans : StartWorkflow(p)
    \/ VerifyPreconditions \/ RefuseSelectors \/ SkipAction \/ CallAction \/ ActionCompleted \/ ActionFailed \/ EndStage
    \/ TakeEffect \/ RefuseEffect \/ TabNavigates
    \/ CleanUp \/ ObserveAfter \/ VerifyChecks

WorkflowSpec == WorkflowInit /\ [][WorkflowNext]_workflowVars

----------------------------------------------------------------------------

WorkflowTypeOK ==
    /\ document \in 0..MaxNavigations /\ failures \in 0..MaxFailures
    /\ phase \in {"idle", "preconditions", "stage", "call", "cleanup", "observe", "checks", "over"}
    /\ at \in 1..Length + 1 /\ last \in 0..Length
    /\ tookEffect \in [Actions -> Nat]
    /\ result \in [Actions -> {"none", "completed", "skipped", "failed"}]
    /\ \A i \in DOMAIN callQueue : callQueue[i].from \in Actions /\ callQueue[i].to \in Actions

\* An action touches the page only after every action it depends on has been confirmed:
\* it is in no batch with them, and a dependency that failed, was given up or was skipped
\* keeps it back for good.
DependentsWait ==
    \A a \in Actions : tookEffect[a] > 0 => \A d \in plan.needs[a] : result[d] = "completed"

\* What the caller is told is what happened on the page, whatever the stage batches,
\* gives up and goes on with: no action takes effect twice, or before what it depends
\* on; one that is reported as completed did and one reported as skipped did not, and a
\* workflow is "completed" only when all its actions are. Only for plans whose
\* dependencies point backwards: the schema accepts a dependency on a later action,
\* which is skipped without stoppedAt.
ReportIsTrue ==
    /\ \A a \in Actions : /\ tookEffect[a] <= 1
                          /\ result[a] = "completed" => tookEffect[a] = 1
                          /\ result[a] = "skipped" => tookEffect[a] = 0
    /\ status = "completed" => \A a \in Actions : result[a] = "completed"
    /\ DependentsWait

\* "It never hides partial completion" (docs/mcp-workflow-evidence-plan.md:88). The code
\* does not keep it: the error of the checks, when the tab changes while they are read,
\* replaces the report of the actions.
NothingHidden == status = "failed" => \A a \in Actions : tookEffect[a] = 0

\* A barrier stops the workflow (docs/mcp-workflow-evidence-plan.md:87-88). The code does
\* not keep it for "fill" and "select", whose batch looks at no barrier.
StopsAtBarrier ==
    \A a \in Actions, b \in Actions :
        a < b /\ tookEffect[b] > 0 => ~(a \in plan.barrier /\ result[a] = "completed")
=============================================================================
