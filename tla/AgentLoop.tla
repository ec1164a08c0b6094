------------------------------- MODULE AgentLoop -------------------------------
(***************************************************************************)
(* One run of the agent (sidepanel/services/autonomousAgent.ts, run by     *)
(* daemon/agentRunner.ts): model requests, batches of tool calls, the run  *)
(* budget (shared/agentRunBudget.ts) with the questions at its limits, and *)
(* the evidence a completed run must have (agentResultEvidence.ts).        *)
(*                                                                         *)
(* The answers of the model are arbitrary.  Which calls the guards against *)
(* repetition refuse, and whether a text needs to be written again, depends*)
(* on wording and is arbitrary too.  Runs that only start monitoring and   *)
(* visual checkpoints are left out.                                        *)
(***************************************************************************)
EXTENDS Naturals, Sequences, FiniteSets, FiniteSetsExt

CONSTANTS
  MaxBatch,          \* MAX_AGENT_TOOL_BATCH_SIZE
  MaxToolRounds,
  AutoContinue,      \* autoContinueAfterToolRoundLimit
  RequestedEffect,   \* the user asks for an effect in the browser
  FirstLimit,        \* the limits of the run, and what an extension adds
  MaxExtensions      \* bound: extensions the user grants

Kinds == {"model", "tools", "effects", "duration"}

ASSUME LoopAssumption ==
  /\ MaxBatch \in Nat \ {0} /\ MaxToolRounds \in Nat \ {0} /\ MaxExtensions \in Nat
  /\ FirstLimit \in [Kinds -> Nat \ {0}]
  /\ AutoContinue \in BOOLEAN /\ RequestedEffect \in BOOLEAN

VARIABLES
  step,        \* "reserving", "asking", "model", "batch" or "ended"
  purpose,     \* what is reserved or requested
  second,      \* it is the second attempt of a continuation
  used, limit, \* AgentRunBudget
  exceeded,    \* the limit that the user is asked about
  calls,       \* the calls of the model's answer that are executed
  refused,     \* what became of the others: "none", "replan" or "stop"
  results,     \* what became of each call
  text,        \* the text the run would end with: "", "plain", "claim" or "plan"
  round,
  verify,      \* postMutationVerificationRequired
  evidence,    \* AgentResultEvidenceState
  corrected,   \* resultArbiterRetryUsed
  blocked,     \* blockedReason is set
  aborted,     \* the run's signal
  outcome,
  effects,     \* history: effectful calls that have begun
  changed,     \* history: a call succeeded in changing the page, and none has read it since
  unsure,      \* history: the same for calls that may have changed it
  declined     \* history: the user has chosen to stop at a limit

budgetVars == <<used, limit, exceeded>>
batchVars == <<calls, refused, results>>
decisionVars == <<text, round, verify, evidence, corrected, blocked>>
historyVars == <<effects, changed, unsure, declined>>
loopVars == <<step, purpose, second, budgetVars, batchVars, decisionVars, aborted, outcome, historyVars>>

Tools == {"read", "write"}
Done == {"ok", "failed", "denied", "skipped", "refused"}
Executed == {"ok", "failed"}   \* a failed call may have had its effect
Continuations == {"arbiter", "correction", "verification", "planning"}

LoopTypeOK ==
  /\ step \in {"reserving", "asking", "model", "batch", "ended"}
  /\ used \in [Kinds -> Nat] /\ limit \in [Kinds -> Nat]
  /\ calls \in Seq(Tools) /\ Len(calls) <= MaxBatch
  /\ DOMAIN results \in {{}, DOMAIN calls} /\ Range(results) \subseteq Done \cup {"due", "running"}
  /\ outcome \in {"none", "completed", "blocked", "cancelled", "failed"}
  /\ (outcome = "none") = (step # "ended")

LoopInit ==
  /\ step = "reserving" /\ purpose = "plan" /\ second = FALSE
  /\ used = [k \in Kinds |-> 0] /\ limit = FirstLimit /\ exceeded = "none"
  /\ calls = <<>> /\ refused = "none" /\ results = <<>>
  /\ text = "" /\ round = 0
  /\ verify = FALSE /\ evidence = [mutations |-> 0, verified |-> FALSE]
  /\ corrected = FALSE /\ blocked = FALSE
  /\ aborted = FALSE /\ outcome = "none"
  /\ effects = 0 /\ changed = FALSE /\ unsure = FALSE /\ declined = FALSE

-----------------------------------------------------------------------------
(* The budget *)

Writes(batch) == Cardinality({i \in DOMAIN batch : batch[i] = "write"})

\* Mutant of Reservation: a batch counts as one call.
ReservationPerBatch(p) ==
  [k \in Kinds |-> CASE k = "tools" /\ p = "tools"   -> 1
                     [] k = "effects" /\ p = "tools" -> IF Writes(calls) > 0 THEN 1 ELSE 0
                     [] k = "model" /\ p \notin {"tools", "end"} -> 1
                     [] OTHER -> 0]

\* consumeModelRequest, consumeToolCalls, assertDuration: what a reservation takes.
Reservation(p) ==
  [k \in Kinds |-> CASE k = "tools" /\ p = "tools"   -> Len(calls)
                     [] k = "effects" /\ p = "tools" -> Writes(calls)
                     [] k = "model" /\ p \notin {"tools", "end"} -> 1
                     [] OTHER -> 0]

Over(p) == {k \in Kinds : used[k] + Reservation(p)[k] > limit[k]}
Order == <<"duration", "model", "tools", "effects">>

\* The end of the run, which also ends what is reserved.
End(how) ==
  /\ step' = "ended"
  /\ outcome' = how

\* reserveAgentRunBudget: all of the reservation, or a question.
Reserve ==
  /\ step = "reserving"
  /\ IF Over(purpose) = {}
     THEN /\ used' = [k \in Kinds |-> used[k] + Reservation(purpose)[k]]
          /\ IF purpose = "end"
             THEN End(IF blocked THEN "blocked" ELSE "completed")
             ELSE step' = (IF purpose = "tools" THEN "batch" ELSE "model") /\ UNCHANGED outcome
          /\ results' = IF purpose = "tools" THEN [i \in DOMAIN calls |-> "due"] ELSE results
          /\ UNCHANGED exceeded
     ELSE /\ step' = "asking"
          /\ exceeded' = Order[Min({i \in DOMAIN Order : Order[i] \in Over(purpose)})]
          /\ UNCHANGED <<used, outcome, results>>
  /\ UNCHANGED <<purpose, second, limit, calls, refused, decisionVars, aborted, historyVars>>

Extensions ==
  LET Of(k) == (limit[k] \div FirstLimit[k]) - 1 IN MapThenSumSet(Of, Kinds)

\* The user adds to the limit, and the reservation is tried again.
Extend ==
  /\ step = "asking" /\ ~aborted
  /\ Extensions < MaxExtensions
  /\ limit' = [limit EXCEPT ![exceeded] = @ + FirstLimit[exceeded]]
  /\ step' = "reserving" /\ exceeded' = "none"
  /\ UNCHANGED <<purpose, second, used, batchVars, decisionVars, aborted, outcome, historyVars>>

\* The user stops: the results so far are summarised, without a reservation. A
\* continuation takes this for a failure of its first attempt, and tries again.
Decline ==
  /\ step = "asking" /\ ~aborted
  /\ declined' = TRUE
  /\ exceeded' = "none"
  /\ IF purpose \in Continuations /\ ~second
     THEN step' = "reserving" /\ second' = TRUE /\ UNCHANGED purpose
     ELSE step' = "model" /\ purpose' = "closing" /\ UNCHANGED second
  /\ UNCHANGED <<outcome, used, limit, batchVars, decisionVars, aborted, effects, changed, unsure>>

\* The clock passes the limit.
TimePasses ==
  /\ step # "ended"
  /\ used["duration"] <= limit["duration"]
  /\ used' = [used EXCEPT !["duration"] = limit["duration"] + 1]
  /\ UNCHANGED <<step, purpose, second, limit, exceeded, batchVars, decisionVars, aborted, outcome,
                 historyVars>>

-----------------------------------------------------------------------------
(* The model *)

\* arbitrateAgentFinalResult
Unsupported(t) == t = "claim" /\ RequestedEffect /\ evidence.mutations = 0
Accepted(t) ==
  t = "claim" => /\ RequestedEffect => evidence.mutations > 0
                 /\ evidence.mutations > 0 => evidence.verified

Request(p) == step' = "reserving" /\ purpose' = p /\ second' = FALSE

\* The answer has calls: those that the guards let through are reserved at once.
NewBatch(batch, guards) ==
  /\ Request("tools")
  /\ calls' = batch /\ refused' = guards
  /\ results' = <<>>
  /\ UNCHANGED <<text, round, verify, evidence, corrected, blocked>>

\* The loop is left with text t; the text may have to be written again, and its
\* final form must be accepted.
Finish(t, block, rewrite) ==
  /\ Request(IF rewrite THEN "rewrite" ELSE "end")
  /\ text' = t
  /\ blocked' = (block \/ (~rewrite /\ (~Accepted(t) \/ t = "")))
  /\ UNCHANGED <<batchVars, round, verify, evidence>>

Continue(p, t) ==
  /\ Request(p)
  /\ text' = t
  /\ UNCHANGED <<batchVars, round, verify, evidence, blocked>>

\* A text where the tool results ask for the next step.
AnswerText(t, repair, rewrite) ==
  CASE t = "" -> Continue("nudge", t) /\ UNCHANGED corrected
    [] Unsupported(t) /\ corrected -> Finish(t, TRUE, rewrite) /\ UNCHANGED corrected
    [] Unsupported(t) /\ ~corrected -> Continue("correction", t) /\ corrected' = TRUE
    [] ~Unsupported(t) /\ t # "" /\ verify -> Continue("verification", t) /\ UNCHANGED corrected
    [] ~Unsupported(t) /\ t # "" /\ ~verify /\ repair -> Continue("report", t) /\ UNCHANGED corrected
    [] ~Unsupported(t) /\ t = "plan" /\ ~verify /\ ~repair ->
         Continue("planning", t) /\ UNCHANGED corrected
    [] OTHER -> Finish(t, FALSE, rewrite) /\ UNCHANGED corrected

Or(t, u) == IF t = "" THEN u ELSE t

\* The first answer: a claim of something that was not done, or an answer without
\* the activity that was asked for, is asked about once.
AnswerPlan(t, repair, rewrite) ==
  IF Accepted(t) /\ ~repair THEN Finish(t, FALSE, rewrite) /\ UNCHANGED corrected
  ELSE Continue("arbiter", t) /\ corrected' = TRUE

\* The text t comes as the answer to the present request.
ModelWrites(t, repair, rewrite) ==
  /\ step = "model" /\ ~aborted /\ purpose # "closing"
  /\ CASE purpose = "plan"         -> AnswerPlan(t, repair, rewrite)
       [] purpose = "next"         -> AnswerText(t, repair, rewrite)
       [] purpose = "arbiter"      -> Finish("", TRUE, FALSE) /\ UNCHANGED corrected
       [] purpose = "correction"   ->
            Finish(Or(t, text), ~Accepted(Or(t, text)), rewrite) /\ UNCHANGED corrected
       [] purpose = "verification" -> Finish(text, TRUE, rewrite) /\ UNCHANGED corrected
       [] purpose \in {"planning", "report"} ->
            Finish(Or(t, text), FALSE, rewrite) /\ UNCHANGED corrected
       [] purpose \in {"nudge", "summary"} ->
            Finish(t, blocked, rewrite) /\ UNCHANGED corrected
       [] purpose = "rewrite"      ->
            Finish(Or(t, text), blocked \/ repair, FALSE) /\ UNCHANGED corrected
  /\ UNCHANGED <<budgetVars, aborted, outcome, historyVars>>

\* The answer has calls; a summary and a report are requested without tools.
ModelCalls(batch, guards) ==
  /\ step = "model" /\ ~aborted
  /\ purpose \notin {"summary", "report", "rewrite", "closing"}
  /\ batch = <<>> => guards # "none"
  /\ NewBatch(batch, guards)
  /\ UNCHANGED <<budgetVars, aborted, outcome, historyVars>>

\* The request fails. The first attempt of a continuation is tried again, unless
\* it took too long; "blocked" is for a lost connection to the tools.
ModelFails(again, how) ==
  /\ step = "model" /\ purpose # "closing"
  /\ IF again /\ purpose \in Continuations /\ ~second
     THEN step' = "reserving" /\ second' = TRUE /\ UNCHANGED outcome
     ELSE End(IF aborted THEN "cancelled" ELSE how) /\ UNCHANGED second
  /\ UNCHANGED <<purpose, budgetVars, batchVars, decisionVars, aborted, historyVars>>

\* The summary after the user has stopped the run, with a text or without.
Close ==
  /\ step = "model" /\ purpose = "closing"
  /\ End(IF aborted THEN "cancelled" ELSE "blocked")
  /\ UNCHANGED <<purpose, second, budgetVars, batchVars, decisionVars, aborted, historyVars>>

-----------------------------------------------------------------------------
(* The tools: executeToolBatch, executeAgentToolBatch *)

\* The batch of a run goes on by itself when its run is cancelled.
Parallel == \A i \in DOMAIN calls : calls[i] = "read"

\* Mutant of Failing: the calls after a failure are made all the same.
NothingFails(i) == FALSE
Failing(i) == results[i] \notin {"due", "running", "ok"}

\* Mutant of MayBegin: the signal is not looked at.
MayBeginAborted(i) ==
  results[i] = "due" /\ (Parallel \/ \A j \in 1 .. i - 1 : results[j] = "ok")

\* In order, or all at once when all are plain reads.
MayBegin(i) ==
  /\ results[i] = "due" /\ ~aborted
  /\ Parallel \/ \A j \in 1 .. i - 1 : results[j] \notin {"due", "running"} /\ ~Failing(j)

BeginCall(i) ==
  /\ MayBegin(i)
  /\ results' = [results EXCEPT ![i] = "running"]
  /\ effects' = effects + Writes(<<calls[i]>>)
  /\ UNCHANGED <<step, purpose, second, budgetVars, calls, refused, decisionVars, aborted, outcome, changed,
                 unsure, declined>>

\* AGENT_BATCH_DEPENDENCY_SKIPPED
SkipCall(i) ==
  /\ results[i] = "due" /\ ~Parallel
  /\ \E j \in 1 .. i - 1 : Failing(j)
  /\ results' = [results EXCEPT ![i] = "skipped"]
  /\ UNCHANGED <<step, purpose, second, budgetVars, calls, refused, decisionVars, aborted, outcome,
                 historyVars>>

\* "refused" by a check before the execution, "denied" by the user.
EndCall(i, result) ==
  /\ results[i] = "running"
  /\ result = "denied" => calls[i] = "write"
  /\ results' = [results EXCEPT ![i] = result]
  /\ changed' = IF result # "ok" THEN changed ELSE calls[i] = "write"
  /\ unsure' = IF calls[i] = "write" THEN unsure \/ result \in Executed
               ELSE unsure /\ result # "ok"
  /\ UNCHANGED <<step, purpose, second, budgetVars, calls, refused, decisionVars, aborted, outcome, effects,
                 declined>>

Succeeded(tool) == {i \in DOMAIN results : calls[i] = tool /\ results[i] = "ok"}
Mutations == evidence.mutations + Cardinality(Succeeded("write"))
ReadAfterWrites == \E i \in Succeeded("read") : \A j \in Succeeded("write") : j < i

\* Mutant of Recorded: a read counts wherever it is in the round.
RecordedUnordered ==
  [mutations |-> Mutations,
   verified  |-> \/ evidence.verified /\ Succeeded("write") = {}
                 \/ Mutations > 0 /\ Succeeded("read") # {}]

\* recordAgentResultEvidence goes through the calls in order: an effect resets
\* what is verified, a read after it sets it.
Recorded ==
  [mutations |-> Mutations,
   verified  |-> \/ evidence.verified /\ Succeeded("write") = {}
                 \/ Mutations > 0 /\ ReadAfterWrites]

MayHaveChanged == \E i \in DOMAIN calls : calls[i] = "write" /\ results[i] \in Executed
HasRead == calls # <<>> /\ \A i \in DOMAIN calls : calls[i] = "read" /\ results[i] = "ok"

\* The results of the round: the run is denied, stops or goes on. Some of the
\* guards that stop it give a reason that leaves it blocked.
BatchReturns(stops, reason) ==
  /\ step = "batch" /\ ~aborted
  /\ \A i \in DOMAIN calls : results[i] \in Done
  /\ round' = round + 1
  /\ evidence' = Recorded
  /\ verify' = (MayHaveChanged \/ (verify /\ ~HasRead))
  /\ LET limited == ~AutoContinue /\ round + 1 = MaxToolRounds
     IN  IF \E i \in DOMAIN calls : results[i] = "denied"
         THEN End("cancelled") /\ UNCHANGED <<purpose, second, blocked>>
         ELSE /\ Request(IF stops \/ refused = "stop" \/ limited THEN "summary" ELSE "next")
              /\ blocked' = (blocked \/ (reason /\ (stops \/ refused = "stop")) \/ limited)
              /\ UNCHANGED outcome
  /\ calls' = <<>> /\ results' = <<>> /\ refused' = "none"
  /\ UNCHANGED <<budgetVars, text, corrected, aborted, historyVars>>

-----------------------------------------------------------------------------
\* The run's signal, from a cancellation or the end of the daemon.
Abort ==
  /\ step # "ended" /\ ~aborted
  /\ aborted' = TRUE
  /\ UNCHANGED <<step, purpose, second, budgetVars, batchVars, decisionVars, outcome, historyVars>>

\* What the run waits for gives way to the signal.
GiveUp ==
  /\ aborted /\ step \in {"asking", "batch"}
  /\ End("cancelled")
  /\ UNCHANGED <<purpose, second, budgetVars, batchVars, decisionVars, aborted, historyVars>>

Batches == UNION {[1 .. n -> Tools] : n \in 0 .. MaxBatch}

LoopNext ==
  \/ Reserve \/ Extend \/ Decline \/ TimePasses \/ Abort \/ GiveUp \/ Close
  \/ \E again \in BOOLEAN, how \in {"failed", "blocked"} : ModelFails(again, how)
  \/ \E t \in {"", "plain", "claim", "plan"}, repair, rewrite \in BOOLEAN :
       ModelWrites(t, repair, rewrite)
  \/ \E batch \in Batches, guards \in {"none", "replan", "stop"} : ModelCalls(batch, guards)
  \/ \E i \in DOMAIN results :
       BeginCall(i) \/ SkipCall(i) \/ \E result \in Done \ {"skipped"} : EndCall(i, result)
  \/ \E stops, reason \in BOOLEAN : BatchReturns(stops, reason)

LoopSpec == LoopInit /\ [][LoopNext]_loopVars
-----------------------------------------------------------------------------
(* Properties *)

\* No more effectful calls begin than the limits and the user's extensions allow,
\* whichever way batches fail, are refused or retried.
EffectsWithinBudget == effects <= limit["effects"]

\* A run is completed with a claim only when an effect the user asked for has
\* succeeded, and a later call has read the page after the last success.
CompletedIsBacked ==
  outcome = "completed" /\ text = "claim" => ~changed /\ (RequestedEffect => effects > 0)

\* After the cancellation of the run none of its calls begins, although its batch
\* outlives it.
NoCallAfterAbort == [][aborted => effects' = effects]_loopVars

\* In a batch with an effect nothing is executed after a call that did not succeed.
FailFast ==
  Parallel \/ \A i, j \in DOMAIN results :
    i < j /\ results[i] \notin {"due", "running", "ok"} => results[j] \in {"due", "skipped"}

\* The user who has chosen to stop at a limit is not asked again.
StopIsFinal == declined => step # "asking"

\* A run is not completed when a call may have changed the page unread.
UnsureIsRead == outcome = "completed" => ~unsure
=============================================================================
