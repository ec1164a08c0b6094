------------------------ MODULE ExecutionBrokerProofs ------------------------
(***************************************************************************)
(* Theorems about ExecutionBroker for every value of its constants.        *)
(***************************************************************************)
EXTENDS ExecutionBroker, FiniteSetTheorems, SequenceTheorems, TLAPS

\* A cancellation aborts a set of calls.
LEMMA CancelAborts ==
  ASSUME TypeOK,
         \/ \E s \in Slots : Cancel(s)
         \/ \E conn \in Connections : CancelConnection(conn)
  PROVE  \E cs \in SUBSET Calls : Abort(cs)
<1>1. CASE \E s \in Slots : Cancel(s)
  BY <1>1 DEF Cancel, TypeOK
<1>2. ASSUME NEW conn \in Connections, CancelConnection(conn)
      PROVE  \E cs \in SUBSET Calls : Abort(cs)
  <2> DEFINE cs == {active[s] : s \in UsedBy(active, conn)}
                     \cup {inputWaiting[s] : s \in UsedBy(inputWaiting, conn)}
  <2>1. cs \subseteq Calls
    BY DEF TypeOK, UsedBy, Used
  <2>2. Abort(cs)
    BY <1>2 DEF CancelConnection
  <2> QED
    BY <2>1, <2>2
<1> QED
  BY <1>1, <1>2

\* The state a settling call leaves is well-typed.
LEMMA SettleTyped ==
  ASSUME BrokerAssumption, TypeOK, NEW c \in Calls, NEW o \in RunOutcomes,
         Executing(c), Settle(c, o)
  PROVE  TypeOK'
<1>1. req[c] \in Requests
  BY DEF TypeOK, Executing
<1>2. req[c].key \in Keys \cup {NoKey} /\ req[c].target \in Targets /\ Slot(req[c]) \in Slots
  BY <1>1 DEF BrokerAssumption, Targets, Slots
<1>3. o \in Outcomes
  BY DEF RunOutcomes, Outcomes, Retryable
<1>4. active' \in [Slots -> Calls \cup {NoCall}]
  BY DEF Settle, TypeOK
<1>5. chain' \in [Targets -> Seq(Calls)]
  BY <1>2 DEF Settle, DropOwnTail, TypeOK
<1>6. entry' \in [Keys -> Calls \cup {NoCall}] /\ expired' \subseteq Keys
  BY <1>2 DEF Settle, MayRetry, TypeOK
<1>7. phase' \in [Calls -> Phases] /\ outcome' \in [Calls -> Outcomes \cup {"none"}]
  BY <1>3 DEF Settle, TypeOK, Phases
<1>8. \A d \in Calls : phase'[d] \notin {"idle", "settled"} => req'[d] \in Requests
  BY DEF Settle, TypeOK
<1> QED
  BY <1>4, <1>5, <1>6, <1>7, <1>8 DEF Settle, TypeOK

\* So is the state after execute(), whichever of its outcomes it has.
LEMMA ExecuteTyped ==
  ASSUME BrokerAssumption, TypeOK, NEW c \in Calls, NEW r \in Requests, Execute(c, r)
  PROVE  TypeOK'
<1>1. r.key \in Keys \cup {NoKey} /\ r.target \in Targets /\ Slot(r) \in Slots
  BY DEF BrokerAssumption, Targets, Slots
<1>2. Fresh \in [Keys -> Calls \cup {NoCall}]
  BY DEF Fresh, TypeOK
<1>3. CleanupIdempotency => /\ entry' \in [Keys -> Calls \cup {NoCall}]
                            /\ expired' \subseteq Keys
                            /\ forgotten' \subseteq Keys
  BY <1>2 DEF CleanupIdempotency, TypeOK
<1>4. ASSUME NEW o \in Outcomes, Refuse(c, o), CleanupIdempotency
      PROVE  TypeOK'
  BY <1>3, <1>4 DEF Refuse, TypeOK, Phases
<1>5. CASE ExecuteBusy(c, r)
  BY <1>4, <1>5 DEF ExecuteBusy, Outcomes
<1>6. CASE ExecuteLate(c, r)
  BY <1>4, <1>6 DEF ExecuteLate, Outcomes
<1>7. CASE ExecuteOtherArguments(c, r)
  BY <1>4, <1>7 DEF ExecuteOtherArguments, Outcomes
<1>8. CASE ExecuteOverLimit(c, r)
  BY <1>4, <1>8 DEF ExecuteOverLimit, Outcomes
<1>9. CASE ExecuteJoin(c, r)
  <2>1. CachedCall(r) \in Calls \cup {NoCall}
    BY <1>1, <1>2 DEF CachedCall
  <2> QED
    BY <1>3, <1>9, <2>1 DEF ExecuteJoin, TypeOK, Phases
<1>10. CASE ExecuteAdmit(c, r)
  <2>1. /\ entry' \in [Keys -> Calls \cup {NoCall}]
        /\ expired' \subseteq Keys
        /\ forgotten' \subseteq Keys
        /\ turn' \in [Calls -> Nat]
    <3>1. CASE r.key = NoKey
      BY <1>3, <1>10, <3>1 DEF ExecuteAdmit, CacheEntry, TypeOK
    <3>2. CASE r.key # NoKey
      <4>1. Overflow(r.key) \subseteq Keys
        BY DEF Overflow, Oldest
      <4>2. Cardinality({d \in Calls : turn[d] > 0}) \in Nat
        BY FS_Subset, FS_CardinalityType DEF BrokerAssumption
      <4>3. turn' \in [Calls -> Nat]
        <5> DEFINE n == Cardinality({d \in Calls : turn[d] > 0})
        <5>1. turn' = [turn EXCEPT ![c] = 1 + n]
          BY <1>10, <3>2 DEF ExecuteAdmit, CacheEntry
        <5>2. 1 + n \in Nat
          BY <4>2
        <5> HIDE DEF n
        <5> QED
          BY <5>1, <5>2 DEF TypeOK
      <4>4. entry' \in [Keys -> Calls \cup {NoCall}]
        <5>1. entry' = [k \in Keys |-> IF k = r.key THEN c
                                       ELSE IF k \in Overflow(r.key) THEN NoCall
                                       ELSE Fresh[k]]
          BY <1>10, <3>2 DEF ExecuteAdmit, CacheEntry
        <5> HIDE DEF Fresh, Overflow
        <5> QED
          BY <1>2, <5>1
      <4> QED
        BY <1>10, <3>2, <4>1, <4>3, <4>4 DEF ExecuteAdmit, CacheEntry, TypeOK
    <3> QED
      BY <3>1, <3>2
  <2>2. chain' \in [Targets -> Seq(Calls)]
    BY <1>1, <1>10 DEF ExecuteAdmit, TypeOK
  <2>3. active' \in [Slots -> Calls \cup {NoCall}]
    BY <1>10 DEF ExecuteAdmit, TypeOK
  <2>4. phase' \in [Calls -> Phases] /\ req' \in [Calls -> Requests \cup {NoRequest}]
    BY <1>10 DEF ExecuteAdmit, TypeOK, Phases
  <2>5. \A d \in Calls : phase'[d] \notin {"idle", "settled"} => req'[d] \in Requests
    BY <1>10 DEF ExecuteAdmit, TypeOK
  <2> QED
    BY <1>10, <2>1, <2>2, <2>3, <2>4, <2>5 DEF ExecuteAdmit, TypeOK
<1> QED
  BY <1>5, <1>6, <1>7, <1>8, <1>9, <1>10 DEF Execute

LEMMA StepTyped ==
  ASSUME BrokerAssumption, TypeOK, [Next]_vars
  PROVE  TypeOK'
<1>1. ASSUME NEW c \in Calls, NEW r \in Requests, Execute(c, r)
      PROVE  TypeOK'
  BY <1>1, ExecuteTyped
<1>2. ASSUME NEW c \in Calls, NEW r \in Requests, InputRefused(c, r)
      PROVE  TypeOK'
  <2>1. \E o \in Outcomes : Refuse(c, o) /\ UNCHANGED <<entry, expired, forgotten>>
    BY <1>2 DEF InputRefused, Outcomes
  <2> QED
    BY <2>1 DEF Refuse, TypeOK, Phases
<1>3. ASSUME NEW c \in Calls, NEW r \in Requests, WaitForInput(c, r)
      PROVE  TypeOK'
  BY <1>3 DEF WaitForInput, TypeOK, Phases
<1>4. ASSUME NEW c \in Calls, StartMutation(c)
      PROVE  TypeOK'
  BY <1>4 DEF StartMutation, TypeOK, Phases
<1>5. ASSUME NEW c \in Calls, SkipAborted(c)
      PROVE  TypeOK'
  <2>1. aborted[c] \in RunOutcomes
    BY <1>5 DEF SkipAborted, RunOutcomes, TypeOK
  <2> QED
    BY <1>5, <2>1, SettleTyped DEF SkipAborted, Executing
<1>6. ASSUME NEW c \in Calls, DeadlineFires(c)
      PROVE  TypeOK'
  BY <1>6 DEF DeadlineFires, TypeOK, Retryable
<1>7. ASSUME NEW c \in Calls, NEW o \in RunOutcomes, Finish(c, o)
      PROVE  TypeOK'
  BY <1>7, SettleTyped DEF Finish, Executing
<1>8. ASSUME NEW c \in Calls, NEW o \in RunOutcomes, EndInput(c, o)
      PROVE  TypeOK'
  <2>1. o \in Outcomes
    BY DEF RunOutcomes, Outcomes, Retryable
  <2> QED
    BY <1>8, <2>1 DEF EndInput, TypeOK, Phases
<1>9. ASSUME NEW cs \in SUBSET Calls, Abort(cs)
      PROVE  TypeOK'
  BY <1>9 DEF Abort, TypeOK, Retryable
<1>10. ASSUME NEW k \in Keys, EntryExpires(k)
       PROVE  TypeOK'
  BY <1>10 DEF EntryExpires, TypeOK
<1>11. CASE UNCHANGED vars
  BY <1>11 DEF vars, TypeOK
<1> QED
  BY <1>1, <1>2, <1>3, <1>4, <1>5, <1>6, <1>7, <1>8, <1>9, <1>10, <1>11, CancelAborts
  DEF Next

\* Every state of the broker is well-typed; in particular a call that is
\* pending has a request, whatever was refused, joined or cancelled before.
THEOREM TypeCorrect == Spec => []TypeOK
<1>1. Init => TypeOK
  BY DEF Init, TypeOK, Phases, Outcomes, Retryable
<1>2. TypeOK /\ [Next]_vars => TypeOK'
  BY StepTyped, BrokerAssumption
<1> QED
  BY <1>1, <1>2, PTL DEF Spec
-----------------------------------------------------------------------------
(* One mutation of a target at a time *)

LEMMA ChainCalls ==
  ASSUME TypeOK
  PROVE  \A t \in Targets : chain[t] \in Seq(Calls)
                           /\ \A i \in DOMAIN chain[t] : chain[t][i] \in Calls
<1> SUFFICES ASSUME NEW t \in Targets
             PROVE  chain[t] \in Seq(Calls) /\ \A i \in DOMAIN chain[t] : chain[t][i] \in Calls
  OBVIOUS
<1>1. chain[t] \in Seq(Calls)
  BY DEF TypeOK
<1>2. \A i \in DOMAIN chain[t] : chain[t][i] \in Calls
  BY <1>1
<1> QED
  BY <1>1, <1>2

\* A step that leaves the chains alone and changes only a call that is in none
\* of them, and does not make it an executing mutation.
LEMMA ChainUndisturbed ==
  ASSUME TypeOK, ChainInv, NEW c \in Calls,
         chain' = chain,
         \A d \in Calls \ {c} : phase'[d] = phase[d] /\ req'[d] = req[d],
         phase[c] \in {"idle", "input"},
         Executing(c)' => ~req'[c].mutates
  PROVE  ChainInv'
<1>1. \A t \in Targets : \A i \in DOMAIN chain[t] : chain[t][i] \in Calls \ {c}
  BY ChainCalls DEF ChainInv, ChainMembers
<1>2. ChainMembers'
  BY <1>1 DEF ChainInv, ChainMembers, MutatesOn
<1>3. ChainOnce'
  BY DEF ChainInv, ChainOnce
<1>4. ChainComplete'
  BY DEF ChainInv, ChainComplete, Executing
<1>5. RunningAfterSettled'
  BY <1>1 DEF ChainInv, RunningAfterSettled
<1> QED
  BY <1>2, <1>3, <1>4, <1>5 DEF ChainInv

\* A call that leaves the executing calls after all the mutations chained
\* before it: whoever is still chained behind it keeps the chain.
LEMMA SettleChain ==
  ASSUME BrokerAssumption, TypeOK, ChainInv, NEW c \in Calls, NEW o \in RunOutcomes,
         Executing(c), PreviousReleased(c), Settle(c, o)
  PROVE  ChainInv'
<1> DEFINE t0 == req[c].target
           q == chain[t0]
<1>1. req[c] \in Requests /\ t0 \in Targets
  BY DEF TypeOK, Executing, Targets
<1>2. q \in Seq(Calls)
  BY <1>1 DEF TypeOK
<1>3. /\ req' = req /\ phase'[c] = "settled"
      /\ \A d \in Calls \ {c} : phase'[d] = phase[d]
  BY DEF Settle, TypeOK
<1>4. \A t \in Targets : chain'[t] = chain[t] \/ chain'[t] = <<>>
  BY <1>1 DEF Settle, DropOwnTail, TypeOK
<1>5. ChainMembers'
  <2> SUFFICES ASSUME NEW t \in Targets, NEW i \in DOMAIN chain'[t]
               PROVE  /\ MutatesOn(chain[t][i], t)'
                      /\ phase'[chain'[t][i]] \in {"queued", "running", "settled"}
    BY DEF ChainMembers
  <2>1. chain'[t] = chain[t]
    BY <1>4
  <2> QED
    BY <1>3, <2>1, ChainCalls DEF ChainInv, ChainMembers, MutatesOn
<1>6. ChainOnce'
  BY <1>4 DEF ChainInv, ChainOnce
<1>7. RunningAfterSettled'
  <2> SUFFICES ASSUME NEW t \in Targets, NEW i \in DOMAIN chain'[t], NEW j \in DOMAIN chain'[t],
                      i < j, phase'[chain'[t][j]] = "running"
               PROVE  phase'[chain'[t][i]] = "settled"
    BY DEF RunningAfterSettled
  <2>1. chain'[t] = chain[t]
    BY <1>4
  <2> QED
    BY <1>3, <2>1, ChainCalls DEF ChainInv, RunningAfterSettled
<1>8. ChainComplete'
  <2> SUFFICES ASSUME NEW d \in Calls, Executing(d)', req'[d].mutates
               PROVE  \E i \in DOMAIN chain'[req'[d].target] : chain'[req'[d].target][i] = d
    BY DEF ChainComplete
  <2>1. d # c /\ Executing(d) /\ req[d].mutates
    BY <1>3 DEF Executing, TypeOK
  <2>2. req[d] \in Requests /\ req[d].target \in Targets
    BY <2>1 DEF TypeOK, Executing, Targets
  <2>3. PICK i \in DOMAIN chain[req[d].target] : chain[req[d].target][i] = d
    BY <2>1 DEF ChainInv, ChainComplete
  <2>4. CASE chain'[req[d].target] = chain[req[d].target]
    BY <1>3, <2>3, <2>4
  <2>5. CASE chain'[req[d].target] # chain[req[d].target]
    <3>1. req[d].target = t0 /\ q # <<>> /\ q[Len(q)] = c
      BY <1>1, <2>2, <2>5 DEF Settle, DropOwnTail, TypeOK
    <3>2. i \in 1 .. Len(q) /\ Len(q) \in DOMAIN q /\ i # Len(q) /\ Len(q) \in Nat
      BY <1>2, <2>1, <2>3, <3>1
    <3>3. phase[q[i]] = "settled"
      BY <1>2, <3>1, <3>2 DEF PreviousReleased
    <3> QED
      BY <2>1, <2>3, <3>1, <3>3 DEF Executing
  <2> QED
    BY <2>4, <2>5
<1> QED
  BY <1>5, <1>6, <1>7, <1>8 DEF ChainInv

\* An admitted mutation takes the last place of its target's chain.
LEMMA AdmitChain ==
  ASSUME BrokerAssumption, TypeOK, ChainInv, NEW c \in Calls, NEW r \in Requests,
         r.mutates, ExecuteAdmit(c, r)
  PROVE  ChainInv'
<1> DEFINE q == chain[r.target]
           n == Len(q) + 1
           last(t, i) == t = r.target /\ i = n
<1>1. r.target \in Targets /\ q \in Seq(Calls)
  BY DEF Targets, TypeOK
<1>2. /\ phase[c] = "idle" /\ phase'[c] = "queued" /\ req'[c] = r
      /\ \A d \in Calls \ {c} : phase'[d] = phase[d] /\ req'[d] = req[d]
  BY DEF ExecuteAdmit, TypeOK
<1>3. \A t \in Targets : \A i \in DOMAIN chain[t] : chain[t][i] \in Calls \ {c}
  BY <1>2, ChainCalls DEF ChainInv, ChainMembers
<1>4. /\ chain'[r.target] = Append(q, c)
      /\ \A t \in Targets \ {r.target} : chain'[t] = chain[t]
  BY <1>1 DEF ExecuteAdmit, TypeOK
<1>5. /\ n \in Nat /\ n \in DOMAIN Append(q, c) /\ Append(q, c)[n] = c
      /\ \A i \in DOMAIN Append(q, c) : i = n \/ (i \in DOMAIN q /\ i < n)
      /\ \A i \in DOMAIN q : /\ i \in DOMAIN Append(q, c) /\ Append(q, c)[i] = q[i]
                             /\ i \in Nat /\ i < n
  BY <1>1
<1>6. \A t \in Targets : \A i \in DOMAIN chain'[t] :
        \/ last(t, i) /\ chain'[t][i] = c
        \/ ~last(t, i) /\ i \in DOMAIN chain[t] /\ chain'[t][i] = chain[t][i]
  BY <1>4, <1>5
<1>7. /\ n \in DOMAIN chain'[r.target] /\ chain'[r.target][n] = c
      /\ \A t \in Targets : \A i \in DOMAIN chain[t] :
           i \in DOMAIN chain'[t] /\ chain'[t][i] = chain[t][i]
  BY <1>4, <1>5
<1>8. \A i \in DOMAIN chain'[r.target] : i \in Nat /\ i <= n
  BY <1>4, <1>5
<1> HIDE DEF n, q
<1>9. ChainMembers'
  <2> SUFFICES ASSUME NEW t \in Targets, NEW i \in DOMAIN chain'[t]
               PROVE  /\ MutatesOn(chain[t][i], t)'
                      /\ phase'[chain'[t][i]] \in {"queued", "running", "settled"}
    BY DEF ChainMembers
  <2>1. CASE last(t, i)
    BY <1>2, <1>7, <2>1 DEF MutatesOn, BrokerAssumption
  <2>2. CASE ~last(t, i)
    BY <1>2, <1>3, <1>6, <2>2 DEF ChainInv, ChainMembers, MutatesOn
  <2> QED
    BY <2>1, <2>2
<1>10. ChainOnce'
  <2> SUFFICES ASSUME NEW t \in Targets, NEW i \in DOMAIN chain'[t], NEW j \in DOMAIN chain'[t],
                      chain'[t][i] = chain'[t][j]
               PROVE  i = j
    BY DEF ChainOnce
  <2>1. CASE last(t, i) \/ last(t, j)
    BY <1>3, <1>6, <2>1
  <2>2. CASE ~last(t, i) /\ ~last(t, j)
    BY <1>6, <2>2 DEF ChainInv, ChainOnce
  <2> QED
    BY <2>1, <2>2
<1>11. ChainComplete'
  <2> SUFFICES ASSUME NEW d \in Calls, Executing(d)', req'[d].mutates
               PROVE  \E i \in DOMAIN chain'[req'[d].target] : chain'[req'[d].target][i] = d
    BY DEF ChainComplete
  <2>1. CASE d = c
    BY <1>2, <1>7, <2>1
  <2>2. CASE d # c
    <3>1. Executing(d) /\ req[d].mutates /\ req'[d] = req[d] /\ req[d].target \in Targets
      BY <1>2, <2>2 DEF Executing, TypeOK, Targets
    <3>2. PICK i \in DOMAIN chain[req[d].target] : chain[req[d].target][i] = d
      BY <3>1 DEF ChainInv, ChainComplete
    <3> QED
      BY <1>7, <3>1, <3>2
  <2> QED
    BY <2>1, <2>2
<1>12. RunningAfterSettled'
  <2> SUFFICES ASSUME NEW t \in Targets, NEW i \in DOMAIN chain'[t], NEW j \in DOMAIN chain'[t],
                      i < j, phase'[chain'[t][j]] = "running"
               PROVE  phase'[chain'[t][i]] = "settled"
    BY DEF RunningAfterSettled
  <2>1. ~last(t, j)
    BY <1>2, <1>7
  <2>2. ~last(t, i)
    BY <1>5, <1>8
  <2> QED
    BY <1>2, <1>3, <1>6, <2>1, <2>2 DEF ChainInv, RunningAfterSettled
<1> QED
  BY <1>9, <1>10, <1>11, <1>12 DEF ChainInv

LEMMA StepChain ==
  ASSUME BrokerAssumption, TypeOK, ChainInv, [Next]_vars
  PROVE  ChainInv'
<1>1. ASSUME NEW c \in Calls, NEW r \in Requests, Execute(c, r)
      PROVE  ChainInv'
  <2>1. ASSUME NEW o, Refuse(c, o), phase[c] = "idle"
        PROVE  ChainInv'
    BY <2>1, ChainUndisturbed DEF Refuse, TypeOK, Executing
  <2>2. CASE ExecuteBusy(c, r)
    BY <2>1, <2>2 DEF ExecuteBusy
  <2>3. CASE ExecuteLate(c, r)
    BY <2>1, <2>3 DEF ExecuteLate
  <2>4. CASE ExecuteOtherArguments(c, r)
    BY <2>1, <2>4 DEF ExecuteOtherArguments
  <2>5. CASE ExecuteOverLimit(c, r)
    BY <2>1, <2>5 DEF ExecuteOverLimit
  <2>6. CASE ExecuteJoin(c, r)
    BY <2>6, ChainUndisturbed DEF ExecuteJoin, TypeOK, Executing
  <2>7. CASE ExecuteAdmit(c, r) /\ ~r.mutates
    BY <2>7, ChainUndisturbed DEF ExecuteAdmit, TypeOK, Executing
  <2>8. CASE ExecuteAdmit(c, r) /\ r.mutates
    BY <2>8, AdmitChain
  <2> QED
    BY <1>1, <2>2, <2>3, <2>4, <2>5, <2>6, <2>7, <2>8 DEF Execute
<1>2. ASSUME NEW c \in Calls, NEW r \in Requests, InputRefused(c, r)
      PROVE  ChainInv'
  BY <1>2, ChainUndisturbed DEF InputRefused, Refuse, TypeOK, Executing
<1>3. ASSUME NEW c \in Calls, NEW r \in Requests, WaitForInput(c, r)
      PROVE  ChainInv'
  BY <1>3, ChainUndisturbed DEF WaitForInput, TypeOK, Executing
<1>4. ASSUME NEW c \in Calls, StartMutation(c)
      PROVE  ChainInv'
  <2>1. /\ phase[c] = "queued" /\ PreviousReleased(c) /\ req' = req /\ chain' = chain
        /\ phase'[c] = "running" /\ \A d \in Calls \ {c} : phase'[d] = phase[d]
    BY <1>4 DEF StartMutation, TypeOK
  <2>2. ChainMembers'
    BY <2>1, ChainCalls DEF ChainInv, ChainMembers, MutatesOn
  <2>3. ChainOnce' /\ ChainComplete'
    <3>1. \A d \in Calls : Executing(d)' => Executing(d)
      BY <2>1 DEF Executing
    <3> QED
      BY <2>1, <3>1 DEF ChainInv, ChainOnce, ChainComplete
  <2>4. RunningAfterSettled'
    <3> SUFFICES ASSUME NEW t \in Targets, NEW i \in DOMAIN chain[t], NEW j \in DOMAIN chain[t],
                        i < j, phase'[chain[t][j]] = "running"
                 PROVE  phase'[chain[t][i]] = "settled"
      BY <2>1 DEF RunningAfterSettled
    <3>1. CASE chain[t][j] = c
      <4>1. req[c].target = t
        BY <3>1 DEF ChainInv, ChainMembers, MutatesOn
      <4>2. phase[chain[t][i]] = "settled"
        BY <2>1, <3>1, <4>1 DEF PreviousReleased
      <4> QED
        BY <2>1, <4>2, ChainCalls
    <3>2. CASE chain[t][j] # c
      <4>1. phase[chain[t][i]] = "settled"
        BY <2>1, <3>2, ChainCalls DEF ChainInv, RunningAfterSettled
      <4> QED
        BY <2>1, <4>1, ChainCalls
    <3> QED
      BY <3>1, <3>2
  <2> QED
    BY <2>2, <2>3, <2>4 DEF ChainInv
<1>5. ASSUME NEW c \in Calls, SkipAborted(c)
      PROVE  ChainInv'
  <2>1. aborted[c] \in RunOutcomes
    BY <1>5 DEF SkipAborted, RunOutcomes, TypeOK
  <2> QED
    BY <1>5, <2>1, SettleChain DEF SkipAborted, Executing
<1>6. ASSUME NEW c \in Calls, NEW o \in RunOutcomes, Finish(c, o)
      PROVE  ChainInv'
  <2>1. req[c].target \in Targets
    BY <1>6 DEF Finish, TypeOK, Targets
  <2>2. PreviousReleased(c)
    BY <1>6, <2>1 DEF Finish, PreviousReleased, ChainInv, RunningAfterSettled
  <2> QED
    BY <1>6, <2>2, SettleChain DEF Finish, Executing
<1>7. ASSUME NEW c \in Calls, NEW o \in RunOutcomes, EndInput(c, o)
      PROVE  ChainInv'
  BY <1>7, ChainUndisturbed DEF EndInput, TypeOK, Executing
<1>8. CASE UNCHANGED <<phase, req, chain>>
  BY <1>8 DEF ChainInv, ChainMembers, ChainOnce, ChainComplete, RunningAfterSettled,
              MutatesOn, Executing
<1>9. ASSUME NEW c \in Calls, DeadlineFires(c)
      PROVE  ChainInv'
  BY <1>8, <1>9 DEF DeadlineFires
<1>10. ASSUME NEW cs \in SUBSET Calls, Abort(cs)
       PROVE  ChainInv'
  BY <1>8, <1>10 DEF Abort
<1>11. ASSUME NEW k \in Keys, EntryExpires(k)
       PROVE  ChainInv'
  BY <1>8, <1>11 DEF EntryExpires
<1>12. CASE UNCHANGED vars
  BY <1>8, <1>12 DEF vars
<1> QED
  BY <1>1, <1>2, <1>3, <1>4, <1>5, <1>6, <1>7, <1>9, <1>10, <1>11, <1>12, CancelAborts
  DEF Next

\* The chain of a target always holds each of its unsettled mutations once,
\* and nothing runs while a call chained before it is unsettled.
THEOREM ChainInvariant == Spec => []ChainInv
<1>1. Init => ChainInv
  BY DEF Init, ChainInv, ChainMembers, ChainOnce, ChainComplete, RunningAfterSettled, Executing
<1>2. TypeOK /\ ChainInv /\ [Next]_vars => ChainInv'
  BY StepChain, BrokerAssumption
<1> QED
  BY <1>1, <1>2, TypeCorrect, PTL DEF Spec

\* Of two running mutations of one target, the one chained behind the other
\* would have started before its turn.
LEMMA ExclusionFromChains ==
  ASSUME TypeOK, ChainInv
  PROVE  MutationExclusion
<1> SUFFICES ASSUME NEW c \in Calls, NEW d \in Calls, NEW t \in Targets,
                    phase[c] = "running", MutatesOn(c, t),
                    phase[d] = "running", MutatesOn(d, t)
             PROVE  c = d
  BY DEF MutationExclusion
<1>1. PICK i \in DOMAIN chain[t] : chain[t][i] = c
  BY DEF ChainInv, ChainComplete, Executing, MutatesOn
<1>2. PICK j \in DOMAIN chain[t] : chain[t][j] = d
  BY DEF ChainInv, ChainComplete, Executing, MutatesOn
<1>3. ~(i < j) /\ ~(j < i)
  BY <1>1, <1>2 DEF ChainInv, RunningAfterSettled
<1>4. i \in Nat /\ j \in Nat
  BY ChainCalls
<1> QED
  BY <1>1, <1>2, <1>3, <1>4

\* Two mutations of one target never run at the same time, for any number of
\* calls, connections, targets and limits.
THEOREM MutualExclusion == Spec => []MutationExclusion
<1>1. TypeOK /\ ChainInv => MutationExclusion
  BY ExclusionFromChains
<1> QED
  BY <1>1, TypeCorrect, ChainInvariant, PTL
-----------------------------------------------------------------------------
(* What was aborted in the line stays out *)

\* Only StartMutation lets a queued call run, and it looks at the signal first.
LEMMA StepAborted ==
  ASSUME BrokerAssumption, TypeOK, [Next]_vars, NEW c \in Calls,
         phase[c] = "queued", aborted[c] # "none"
  PROVE  phase'[c] # "running"
<1>1. ASSUME NEW d \in Calls, NEW r \in Requests, Execute(d, r)
      PROVE  phase'[c] # "running"
  <2>1. phase[d] = "idle"
    BY <1>1 DEF Execute, ExecuteBusy, ExecuteLate, ExecuteOtherArguments, ExecuteJoin,
                ExecuteOverLimit, ExecuteAdmit
  <2>2. \E p \in Phases : phase' = [phase EXCEPT ![d] = p]
    BY <1>1 DEF Execute, ExecuteBusy, ExecuteLate, ExecuteOtherArguments, ExecuteJoin,
                ExecuteOverLimit, ExecuteAdmit, Refuse, Phases
  <2> QED
    BY <2>1, <2>2 DEF TypeOK
<1>2. ASSUME NEW d \in Calls, NEW r \in Requests, InputRefused(d, r) \/ WaitForInput(d, r)
      PROVE  phase'[c] # "running"
  BY <1>2 DEF InputRefused, Refuse, WaitForInput, TypeOK
<1>3. ASSUME NEW d \in Calls, StartMutation(d)
      PROVE  phase'[c] # "running"
  BY <1>3 DEF StartMutation, TypeOK
<1>4. ASSUME NEW d \in Calls, NEW o, SkipAborted(d) \/ Finish(d, o) \/ EndInput(d, o)
      PROVE  phase'[c] # "running"
  BY <1>4 DEF SkipAborted, Finish, EndInput, Settle, TypeOK
<1>5. CASE UNCHANGED phase
  BY <1>5
<1>6. ASSUME NEW d \in Calls, DeadlineFires(d)
      PROVE  phase'[c] # "running"
  BY <1>5, <1>6 DEF DeadlineFires
<1>7. ASSUME NEW k \in Keys, EntryExpires(k)
      PROVE  phase'[c] # "running"
  BY <1>5, <1>7 DEF EntryExpires
<1>8. ASSUME NEW cs \in SUBSET Calls, Abort(cs)
      PROVE  phase'[c] # "running"
  BY <1>5, <1>8 DEF Abort
<1>9. CASE UNCHANGED vars
  BY <1>5, <1>9 DEF vars
<1> QED
  BY <1>1, <1>2, <1>3, <1>4, <1>6, <1>7, <1>8, <1>9, CancelAborts DEF Next

\* A queued mutation that was cancelled or is past its deadline never starts.
THEOREM AbortedStaysOut == Spec => AbortedNeverStarts
<1>1. TypeOK /\ [Next]_vars =>
        [\A c \in Calls : phase[c] = "queued" /\ aborted[c] # "none" => phase'[c] # "running"]_vars
  BY StepAborted, BrokerAssumption
<1> QED
  BY <1>1, TypeCorrect, PTL DEF Spec, AbortedNeverStarts
-----------------------------------------------------------------------------
(* The maps hold the pending calls *)

\* A step that leaves both maps alone, and changes only calls that neither map
\* holds and that do not become pending.
LEMMA ReachUndisturbed ==
  ASSUME EveryCallReachable, NEW c \in Calls,
         active' = active, inputWaiting' = inputWaiting,
         \A d \in Calls \ {c} : phase'[d] = phase[d] /\ req'[d] = req[d],
         ~Executing(c), phase[c] # "input",
         phase'[c] \notin {"queued", "running", "input"},
         NoCall \notin Calls, TypeOK
  PROVE  EveryCallReachable'
<1>1. \A s \in Slots : active[s] # c /\ inputWaiting[s] # c
  BY DEF EveryCallReachable
<1> QED
  BY <1>1 DEF EveryCallReachable, Executing, TypeOK

LEMMA SettleReach ==
  ASSUME BrokerAssumption, TypeOK, EveryCallReachable, NEW c \in Calls, NEW o,
         Executing(c), Settle(c, o)
  PROVE  EveryCallReachable'
<1> DEFINE s0 == Slot(req[c])
<1>1. s0 \in Slots /\ active[s0] = c
  BY DEF EveryCallReachable
<1>2. /\ req' = req /\ inputWaiting' = inputWaiting /\ active'[s0] = NoCall
      /\ \A s \in Slots \ {s0} : active'[s] = active[s]
      /\ phase'[c] = "settled" /\ \A d \in Calls \ {c} : phase'[d] = phase[d]
  BY <1>1 DEF Settle, TypeOK
<1>3. \A s \in Slots : active[s] = c => s = s0
  BY DEF EveryCallReachable, BrokerAssumption
<1>4. NoCall \notin Calls /\ phase[c] # "input"
  BY DEF BrokerAssumption, Executing
<1> HIDE DEF s0
<1>5. \A d \in Calls : Executing(d)' <=> \E s \in Slots : active'[s] = d
  BY <1>1, <1>2, <1>3, <1>4 DEF EveryCallReachable, Executing
<1>6. \A d \in Calls : phase'[d] = "input" <=> \E s \in Slots : inputWaiting'[s] = d
  BY <1>2, <1>4 DEF EveryCallReachable
<1>7. \A s \in Slots : /\ active'[s] # NoCall => Slot(req[active'[s]]) = s
                       /\ inputWaiting[s] # NoCall => Slot(req[inputWaiting[s]]) = s
                       /\ active'[s] = NoCall \/ inputWaiting[s] = NoCall
  BY <1>1, <1>2 DEF EveryCallReachable
<1> QED
  BY <1>2, <1>5, <1>6, <1>7 DEF EveryCallReachable, Slot, Slots

\* A call enters one of the maps under a key that both maps have free.
LEMMA EnterReach ==
  ASSUME BrokerAssumption, TypeOK, EveryCallReachable, NEW c \in Calls, NEW r \in Requests,
         phase[c] = "idle", ~Busy(r), req' = [req EXCEPT ![c] = r],
         \A d \in Calls \ {c} : phase'[d] = phase[d],
         \/ /\ active' = [active EXCEPT ![Slot(r)] = c] /\ inputWaiting' = inputWaiting
            /\ phase'[c] \in {"queued", "running"}
         \/ /\ inputWaiting' = [inputWaiting EXCEPT ![Slot(r)] = c] /\ active' = active
            /\ phase'[c] = "input"
  PROVE  EveryCallReachable'
<1> DEFINE s0 == Slot(r)
<1>1. s0 \in Slots /\ active[s0] = NoCall /\ inputWaiting[s0] = NoCall
  BY DEF Busy, Slots
<1>2. NoCall \notin Calls
  BY DEF BrokerAssumption
<1>3. req'[c] = r /\ \A d \in Calls \ {c} : req'[d] = req[d]
  BY DEF TypeOK
<1>4. \A s \in Slots : active[s] # c /\ inputWaiting[s] # c
  BY DEF EveryCallReachable, Executing
<1>5. \A s \in Slots : active[s] \in Calls \cup {NoCall} /\ inputWaiting[s] \in Calls \cup {NoCall}
  BY DEF TypeOK
<1>6. \/ /\ active'[s0] = c /\ \A s \in Slots \ {s0} : active'[s] = active[s]
         /\ inputWaiting' = inputWaiting /\ phase'[c] \in {"queued", "running"}
      \/ /\ inputWaiting'[s0] = c /\ \A s \in Slots \ {s0} : inputWaiting'[s] = inputWaiting[s]
         /\ active' = active /\ phase'[c] = "input"
  BY <1>1 DEF TypeOK
<1>7. Slot(req'[c]) = s0 /\ \A d \in Calls \ {c} : Slot(req'[d]) = Slot(req[d])
  BY <1>3
<1> HIDE DEF s0
<1>8. \A d \in Calls : Executing(d)' <=> \E s \in Slots : active'[s] = d
  <2>1. \A d \in Calls \ {c} : Executing(d)' <=> \E s \in Slots : active'[s] = d
    BY <1>1, <1>2, <1>6 DEF EveryCallReachable, Executing
  <2>2. Executing(c)' <=> \E s \in Slots : active'[s] = c
    BY <1>1, <1>2, <1>4, <1>6 DEF Executing
  <2> QED
    BY <2>1, <2>2
<1>9. \A d \in Calls : phase'[d] = "input" <=> \E s \in Slots : inputWaiting'[s] = d
  <2>1. \A d \in Calls \ {c} : phase'[d] = "input" <=> \E s \in Slots : inputWaiting'[s] = d
    BY <1>1, <1>2, <1>6 DEF EveryCallReachable
  <2>2. phase'[c] = "input" <=> \E s \in Slots : inputWaiting'[s] = c
    BY <1>1, <1>2, <1>4, <1>6
  <2> QED
    BY <2>1, <2>2
<1>10. \A s \in Slots : /\ active'[s] # NoCall => Slot(req'[active'[s]]) = s
                        /\ inputWaiting'[s] # NoCall => Slot(req'[inputWaiting'[s]]) = s
                        /\ active'[s] = NoCall \/ inputWaiting'[s] = NoCall
  BY <1>1, <1>2, <1>4, <1>5, <1>6, <1>7 DEF EveryCallReachable
<1> QED
  BY <1>8, <1>9, <1>10 DEF EveryCallReachable, Slot, Slots

LEMMA StepReach ==
  ASSUME BrokerAssumption, TypeOK, EveryCallReachable, [Next]_vars
  PROVE  EveryCallReachable'
<1> USE DEF BrokerAssumption
<1>1. ASSUME NEW c \in Calls, NEW o, Refuse(c, o), phase[c] = "idle"
      PROVE  EveryCallReachable'
  BY <1>1, ReachUndisturbed DEF Refuse, TypeOK, Executing
<1>2. ASSUME NEW c \in Calls, NEW r \in Requests, Execute(c, r)
      PROVE  EveryCallReachable'
  <2>1. CASE ExecuteBusy(c, r)
    BY <1>1, <2>1 DEF ExecuteBusy
  <2>2. CASE ExecuteLate(c, r)
    BY <1>1, <2>2 DEF ExecuteLate
  <2>3. CASE ExecuteOtherArguments(c, r)
    BY <1>1, <2>3 DEF ExecuteOtherArguments
  <2>4. CASE ExecuteOverLimit(c, r)
    BY <1>1, <2>4 DEF ExecuteOverLimit
  <2>5. CASE ExecuteJoin(c, r)
    BY <2>5, ReachUndisturbed DEF ExecuteJoin, TypeOK, Executing
  <2>6. CASE ExecuteAdmit(c, r)
    BY <2>6, EnterReach DEF ExecuteAdmit, TypeOK
  <2> QED
    BY <1>2, <2>1, <2>2, <2>3, <2>4, <2>5, <2>6 DEF Execute
<1>3. ASSUME NEW c \in Calls, NEW r \in Requests, InputRefused(c, r)
      PROVE  EveryCallReachable'
  BY <1>1, <1>3 DEF InputRefused
<1>4. ASSUME NEW c \in Calls, NEW r \in Requests, WaitForInput(c, r)
      PROVE  EveryCallReachable'
  BY <1>4, EnterReach DEF WaitForInput, TypeOK
<1>5. ASSUME NEW c \in Calls, StartMutation(c)
      PROVE  EveryCallReachable'
  <2>1. \A d \in Calls : (Executing(d)' <=> Executing(d))
                         /\ (phase'[d] = "input" <=> phase[d] = "input")
    BY <1>5 DEF StartMutation, TypeOK, Executing
  <2> QED
    BY <1>5, <2>1 DEF StartMutation, EveryCallReachable
<1>6. ASSUME NEW c \in Calls, NEW o, SkipAborted(c) \/ Finish(c, o)
      PROVE  EveryCallReachable'
  BY <1>6, SettleReach DEF SkipAborted, Finish, Executing
<1>7. ASSUME NEW c \in Calls, NEW o \in RunOutcomes, EndInput(c, o)
      PROVE  EveryCallReachable'
  <2> DEFINE s0 == Slot(req[c])
  <2>1. s0 \in Slots /\ inputWaiting[s0] = c /\ \A s \in Slots : inputWaiting[s] = c => s = s0
    BY <1>7 DEF EndInput, EveryCallReachable
  <2>2. /\ req' = req /\ active' = active /\ inputWaiting'[s0] = NoCall
        /\ \A s \in Slots \ {s0} : inputWaiting'[s] = inputWaiting[s]
        /\ phase[c] = "input" /\ phase'[c] = "settled"
        /\ \A d \in Calls \ {c} : phase'[d] = phase[d]
    BY <1>7, <2>1 DEF EndInput, TypeOK
  <2> HIDE DEF s0
  <2>3. \A d \in Calls : Executing(d)' <=> \E s \in Slots : active[s] = d
    BY <2>2 DEF EveryCallReachable, Executing
  <2>4. \A d \in Calls : phase'[d] = "input" <=> \E s \in Slots : inputWaiting'[s] = d
    BY <2>1, <2>2 DEF EveryCallReachable
  <2>5. \A s \in Slots : /\ active[s] # NoCall => Slot(req[active[s]]) = s
                         /\ inputWaiting'[s] # NoCall => Slot(req[inputWaiting'[s]]) = s
                         /\ active[s] = NoCall \/ inputWaiting'[s] = NoCall
    BY <2>1, <2>2 DEF EveryCallReachable
  <2> QED
    BY <2>2, <2>3, <2>4, <2>5 DEF EveryCallReachable, Slot, Slots
<1>8. CASE UNCHANGED <<phase, req, active, inputWaiting>>
  BY <1>8 DEF EveryCallReachable, Executing
<1>9. ASSUME NEW c \in Calls, DeadlineFires(c)
      PROVE  EveryCallReachable'
  BY <1>8, <1>9 DEF DeadlineFires
<1>10. ASSUME NEW cs \in SUBSET Calls, Abort(cs)
       PROVE  EveryCallReachable'
  BY <1>8, <1>10 DEF Abort
<1>11. ASSUME NEW k \in Keys, EntryExpires(k)
       PROVE  EveryCallReachable'
  BY <1>8, <1>11 DEF EntryExpires
<1>12. CASE UNCHANGED vars
  BY <1>8, <1>12 DEF vars
<1> QED
  BY <1>2, <1>3, <1>4, <1>5, <1>6, <1>7, <1>9, <1>10, <1>11, <1>12, CancelAborts DEF Next

\* Every pending call, and nothing else, is held by one of the two maps under
\* its own key, so a cancellation always finds it.
THEOREM CallsReachable == Spec => []EveryCallReachable
<1>1. Init => EveryCallReachable
  BY BrokerAssumption DEF Init, EveryCallReachable, Executing, BrokerAssumption
<1>2. TypeOK /\ EveryCallReachable /\ [Next]_vars => EveryCallReachable'
  BY StepReach, BrokerAssumption
<1> QED
  BY <1>1, <1>2, TypeCorrect, PTL DEF Spec
-----------------------------------------------------------------------------
(* One effect per idempotency key *)

\* What the cache keeps after execute() has cleaned it: the entry of a key that
\* is not forgotten is still there.
LEMMA FreshKept ==
  ASSUME TypeOK, NEW k \in Keys, k \notin expired
  PROVE  Fresh[k] = entry[k]
  BY DEF Fresh

\* A step that leaves the cache's entries of unforgotten keys alone and neither
\* lets a call execute nor gives an old one an effect.
LEMMA KeyUndisturbed ==
  ASSUME TypeOK, KeyInv, NEW c \in Calls,
         \A d \in Calls \ {c} : phase'[d] = phase[d] /\ req'[d] = req[d] /\ outcome'[d] = outcome[d],
         phase[c] \in {"idle", "input", "joined"},
         phase'[c] \notin {"queued", "running"},
         turn' = turn,
         \A k \in Keys \ forgotten' : k \notin forgotten /\ entry'[k] = entry[k]
  PROVE  KeyInv'
<1>1. turn[c] = 0
  BY DEF KeyInv
<1>2. \A d \in Calls : phase'[d] \in {"idle", "input", "joined"} => turn'[d] = 0
  BY <1>1 DEF KeyInv
<1>3. \A d \in Calls : Executing(d)' /\ req'[d].key # NoKey => turn'[d] > 0
  BY DEF KeyInv, Executing
<1>4. \A k \in Keys : \A d \in Calls : Effective(d, k)' => Effective(d, k)
  BY <1>1 DEF Effective, Executing, TypeOK
<1>5. \A k \in Keys \ forgotten' : \A d \in Calls : Effective(d, k)' => entry'[k] = d
  BY <1>4 DEF KeyInv
<1> QED
  BY <1>2, <1>3, <1>5 DEF KeyInv

\* A settling call drops its key only while it is that key's effective call.
LEMMA SettleKey ==
  ASSUME BrokerAssumption, TypeOK, KeyInv, NEW c \in Calls, NEW o \in RunOutcomes,
         Executing(c), Settle(c, o)
  PROVE  KeyInv'
<1>1. /\ req' = req /\ turn' = turn /\ forgotten' = forgotten
      /\ phase'[c] = "settled" /\ outcome'[c] = o
      /\ \A d \in Calls \ {c} : phase'[d] = phase[d] /\ outcome'[d] = outcome[d]
  BY DEF Settle, TypeOK
<1>2. \A d \in Calls : phase'[d] \in {"idle", "input", "joined"} => turn'[d] = 0
  BY <1>1 DEF KeyInv
<1>3. \A d \in Calls : Executing(d)' /\ req'[d].key # NoKey => turn'[d] > 0
  BY <1>1 DEF KeyInv, Executing
<1>4. \A k \in Keys : \A d \in Calls : Effective(d, k)' =>
        Effective(d, k) /\ (d = c => o \notin Retryable)
  BY <1>1 DEF Effective, Executing, Retryable
<1>5. ASSUME NEW k \in Keys \ forgotten, NEW d \in Calls, Effective(d, k)'
      PROVE  entry'[k] = d
  <2>1. Effective(d, k) /\ entry[k] = d
    BY <1>4, <1>5 DEF KeyInv
  <2>2. CASE entry'[k] = entry[k]
    BY <2>1, <2>2
  <2>3. CASE entry'[k] # entry[k]
    <3>1. req[c].key = k /\ o \in Retryable
      BY <2>3 DEF Settle, MayRetry, TypeOK
    <3>2. Effective(c, k)
      <4>1. req[c] # NoRequest /\ k # NoKey
        BY DEF TypeOK, Executing, BrokerAssumption
      <4> QED
        BY <3>1, <4>1 DEF KeyInv, Effective
    <3>3. d = c
      BY <2>1, <3>2 DEF KeyInv
    <3> QED
      BY <1>4, <1>5, <3>1, <3>3
  <2> QED
    BY <2>2, <2>3
<1> QED
  BY <1>1, <1>2, <1>3, <1>5 DEF KeyInv

\* A call is admitted under a key only when the key has no effective call left.
LEMMA AdmitKey ==
  ASSUME BrokerAssumption, TypeOK, KeyInv, NEW c \in Calls, NEW r \in Requests,
         ExecuteAdmit(c, r)
  PROVE  KeyInv'
<1>1. /\ phase[c] = "idle" /\ phase'[c] \in {"queued", "running"} /\ req'[c] = r
      /\ outcome' = outcome
      /\ \A d \in Calls \ {c} : phase'[d] = phase[d] /\ req'[d] = req[d]
  BY DEF ExecuteAdmit, TypeOK
<1>2. turn[c] = 0 /\ r.key \in Keys \cup {NoKey} /\ NoKey \notin Keys
  BY <1>1 DEF KeyInv, BrokerAssumption
<1>3. /\ \A d \in Calls \ {c} : turn'[d] = turn[d]
      /\ r.key # NoKey => turn'[c] > 0
      /\ r.key = NoKey => turn'[c] = 0
  <2>1. CASE r.key = NoKey
    BY <1>2, <2>1 DEF ExecuteAdmit, CacheEntry
  <2>2. CASE r.key # NoKey
    <3> DEFINE n == Cardinality({d \in Calls : turn[d] > 0})
    <3>1. n \in Nat
      BY FS_Subset, FS_CardinalityType DEF BrokerAssumption
    <3>2. turn' = [turn EXCEPT ![c] = 1 + n]
      BY <2>2 DEF ExecuteAdmit, CacheEntry
    <3> HIDE DEF n
    <3>3. 1 + n > 0
      BY <3>1
    <3> QED
      BY <2>2, <3>2, <3>3 DEF TypeOK
  <2> QED
    BY <2>1, <2>2
<1>4. \A k \in Keys \ forgotten' :
        /\ k \notin forgotten
        /\ k # r.key => entry'[k] = entry[k]
        /\ k = r.key => entry[k] = NoCall /\ entry'[k] = c
  <2> SUFFICES ASSUME NEW k \in Keys \ forgotten'
               PROVE  /\ k \notin forgotten
                      /\ k # r.key => entry'[k] = entry[k]
                      /\ k = r.key => entry[k] = NoCall /\ entry'[k] = c
    OBVIOUS
  <2>1. CASE r.key = NoKey
    BY <1>2, <2>1 DEF ExecuteAdmit, CacheEntry, CleanupIdempotency, Fresh
  <2>2. CASE r.key # NoKey
    <3>1. /\ entry' = [v \in Keys |-> IF v = r.key THEN c
                                      ELSE IF v \in Overflow(r.key) THEN NoCall
                                      ELSE Fresh[v]]
          /\ forgotten' = forgotten \cup expired \cup Overflow(r.key)
      BY <2>2 DEF ExecuteAdmit, CacheEntry
    <3>2. k \notin forgotten /\ k \notin expired /\ k \notin Overflow(r.key)
      BY <3>1
    <3>3. Fresh[k] = entry[k]
      BY <3>2, FreshKept
    <3>4. k = r.key => Fresh[k] = NoCall
      BY <1>2 DEF ExecuteAdmit, CachedCall
    <3> HIDE DEF Fresh, Overflow
    <3> QED
      BY <3>1, <3>2, <3>3, <3>4
  <2> QED
    BY <2>1, <2>2
<1>5. \A d \in Calls : phase'[d] \in {"idle", "input", "joined"} => turn'[d] = 0
  BY <1>1, <1>3 DEF KeyInv
<1>6. \A d \in Calls : Executing(d)' /\ req'[d].key # NoKey => turn'[d] > 0
  BY <1>1, <1>3 DEF KeyInv, Executing
<1>7. ASSUME NEW k \in Keys \ forgotten', NEW d \in Calls, Effective(d, k)'
      PROVE  entry'[k] = d
  <2>1. CASE d = c
    <3>1. r.key = k
      BY <1>1, <1>7, <2>1 DEF Effective
    <3> QED
      BY <1>4, <2>1, <3>1
  <2>2. CASE d # c
    <3>1. Effective(d, k)
      BY <1>1, <1>3, <1>7, <2>2 DEF Effective, Executing
    <3>2. entry[k] = d
      BY <1>4, <3>1 DEF KeyInv
    <3> QED
      BY <1>4, <3>2 DEF BrokerAssumption
  <2> QED
    BY <2>1, <2>2
<1> QED
  BY <1>5, <1>6, <1>7 DEF KeyInv

LEMMA StepKey ==
  ASSUME BrokerAssumption, TypeOK, KeyInv, [Next]_vars
  PROVE  KeyInv'
<1>1. CleanupIdempotency => \A k \in Keys \ forgotten' : k \notin forgotten /\ entry'[k] = entry[k]
  BY DEF CleanupIdempotency, Fresh
<1>2. ASSUME NEW c \in Calls, NEW o, Refuse(c, o), phase[c] = "idle",
             \A k \in Keys \ forgotten' : k \notin forgotten /\ entry'[k] = entry[k]
      PROVE  KeyInv'
  BY <1>2, KeyUndisturbed DEF Refuse, TypeOK
<1>3. ASSUME NEW c \in Calls, NEW r \in Requests, Execute(c, r)
      PROVE  KeyInv'
  <2>1. CASE ExecuteBusy(c, r)
    BY <1>1, <1>2, <2>1 DEF ExecuteBusy
  <2>2. CASE ExecuteLate(c, r)
    BY <1>1, <1>2, <2>2 DEF ExecuteLate
  <2>3. CASE ExecuteOtherArguments(c, r)
    BY <1>1, <1>2, <2>3 DEF ExecuteOtherArguments
  <2>4. CASE ExecuteOverLimit(c, r)
    BY <1>1, <1>2, <2>4 DEF ExecuteOverLimit
  <2>5. CASE ExecuteJoin(c, r)
    BY <1>1, <2>5, KeyUndisturbed DEF ExecuteJoin, TypeOK
  <2>6. CASE ExecuteAdmit(c, r)
    BY <2>6, AdmitKey
  <2> QED
    BY <1>3, <2>1, <2>2, <2>3, <2>4, <2>5, <2>6 DEF Execute
<1>4. ASSUME NEW c \in Calls, NEW r \in Requests, InputRefused(c, r)
      PROVE  KeyInv'
  BY <1>2, <1>4 DEF InputRefused
<1>5. ASSUME NEW c \in Calls, NEW r \in Requests, WaitForInput(c, r)
      PROVE  KeyInv'
  BY <1>5, KeyUndisturbed DEF WaitForInput, TypeOK
<1>6. ASSUME NEW c \in Calls, NEW o \in RunOutcomes, EndInput(c, o)
      PROVE  KeyInv'
  BY <1>6, KeyUndisturbed DEF EndInput, TypeOK
<1>7. ASSUME NEW c \in Calls, SkipAborted(c)
      PROVE  KeyInv'
  <2>1. aborted[c] \in RunOutcomes
    BY <1>7 DEF SkipAborted, RunOutcomes, TypeOK
  <2> QED
    BY <1>7, <2>1, SettleKey DEF SkipAborted, Executing
<1>8. ASSUME NEW c \in Calls, NEW o \in RunOutcomes, Finish(c, o)
      PROVE  KeyInv'
  BY <1>8, SettleKey DEF Finish, Executing
<1>9. ASSUME /\ UNCHANGED <<req, outcome, turn, entry, forgotten>>
             /\ \A d \in Calls : Executing(d)' <=> Executing(d)
             /\ \A d \in Calls : phase'[d] \in {"idle", "input", "joined"} => phase'[d] = phase[d]
      PROVE  KeyInv'
  <2>1. \A k \in Keys, d \in Calls : Effective(d, k)' <=> Effective(d, k)
    BY <1>9 DEF Effective
  <2> QED
    BY <1>9, <2>1 DEF KeyInv
<1>10. ASSUME NEW c \in Calls, StartMutation(c)
       PROVE  KeyInv'
  BY <1>9, <1>10 DEF StartMutation, TypeOK, Executing
<1>11. CASE UNCHANGED <<phase, req, outcome, turn, entry, forgotten>>
  BY <1>9, <1>11 DEF Executing
<1>12. ASSUME NEW c \in Calls, DeadlineFires(c)
       PROVE  KeyInv'
  BY <1>11, <1>12 DEF DeadlineFires
<1>13. ASSUME NEW cs \in SUBSET Calls, Abort(cs)
       PROVE  KeyInv'
  BY <1>11, <1>13 DEF Abort
<1>14. ASSUME NEW k \in Keys, EntryExpires(k)
       PROVE  KeyInv'
  BY <1>11, <1>14 DEF EntryExpires
<1>15. CASE UNCHANGED vars
  BY <1>11, <1>15 DEF vars
<1> QED
  BY <1>3, <1>4, <1>5, <1>6, <1>7, <1>8, <1>10, <1>12, <1>13, <1>14, <1>15, CancelAborts
  DEF Next

\* While the cache has not lost a key, at most one call admitted under it is
\* executing or has ended with a result that must not be produced twice.
THEOREM EffectsOnce == Spec => []OneEffectPerKey
<1>1. Init => KeyInv
  BY DEF Init, KeyInv, Executing, Effective
<1>2. TypeOK /\ KeyInv /\ [Next]_vars => KeyInv'
  BY StepKey, BrokerAssumption
<1>3. KeyInv => OneEffectPerKey
  BY DEF KeyInv, OneEffectPerKey
<1> QED
  BY <1>1, <1>2, <1>3, TypeCorrect, PTL DEF Spec
-----------------------------------------------------------------------------
(* The chains implement one first-in first-out line per target *)

\* The line q without its first n members.
Rest(q, n) == SubSeq(q, n + 1, Len(q))

\* A line of which exactly the first n members are done has the others behind
\* them.
LEMMA BehindIs ==
  ASSUME NEW S, NEW q \in Seq(S), NEW done, NEW n \in 0 .. Len(q),
         \A i \in DOMAIN q : q[i] \in done <=> i <= n
  PROVE  Behind(q, done) = Rest(q, n)
<1> DEFINE past == {i \in DOMAIN q : q[i] \in done}
           served == IF past = {} THEN 0 ELSE CHOOSE i \in past : \A j \in past : j <= i
<1>1. past = 1 .. n
  OBVIOUS
<1>2. served = n
  <2>1. CASE n = 0
    BY <1>1, <2>1
  <2>2. CASE n # 0
    <3>1. n \in past /\ \A j \in past : j <= n
      BY <1>1, <2>2
    <3>2. \A i \in past : (\A j \in past : j <= i) => i = n
      BY <1>1, <3>1
    <3> QED
      BY <3>1, <3>2
  <2> QED
    BY <2>1, <2>2
<1>3. Behind(q, done) = SubSeq(q, served + 1, Len(q))
  BY ZenonT(20) DEF Behind
<1> HIDE DEF served
<1> QED
  BY <1>2, <1>3 DEF Rest

\* Such a line begins with its next member,
LEMMA BehindHead ==
  ASSUME NEW S, NEW q \in Seq(S), NEW n \in Nat, n < Len(q)
  PROVE  /\ Rest(q, n) # <<>>
         /\ Head(Rest(q, n)) = q[n + 1]
         /\ Tail(Rest(q, n)) = Rest(q, n + 1)
<1>1. Len(q) \in Nat /\ n + 1 \in 1 .. Len(q) /\ Len(q) \in n + 1 .. Len(q)
  OBVIOUS
<1>2. /\ Head(SubSeq(q, n + 1, Len(q))) = q[n + 1]
      /\ Tail(SubSeq(q, n + 1, Len(q))) = SubSeq(q, (n + 1) + 1, Len(q))
  BY <1>1, HeadTailOfSubSeq
<1>3. SubSeq(q, n + 1, Len(q)) # <<>>
  <2>1. Len(SubSeq(q, n + 1, Len(q))) = Len(q) - (n + 1) + 1
    <3>1. \A i \in n + 1 .. Len(q) : q[i] \in S
      OBVIOUS
    <3> QED
      BY <1>1, <3>1, SubSeqProperties
  <2>2. Len(q) - (n + 1) + 1 # 0 /\ Len(<<>>) = 0
    BY <1>1
  <2> QED
    BY <2>1, <2>2
<1> QED
  BY <1>2, <1>3 DEF Rest

\* and a newcomer stands at its end.
LEMMA BehindAppend ==
  ASSUME NEW S, NEW q \in Seq(S), NEW n \in 0 .. Len(q), NEW c \in S
  PROVE  Rest(Append(q, c), n) = Append(Rest(q, n), c)
<1> DEFINE r == SubSeq(q, n + 1, Len(q))
           s == SubSeq(Append(q, c), n + 1, Len(q) + 1)
<1>1. /\ Append(q, c) \in Seq(S) /\ Len(Append(q, c)) = Len(q) + 1
      /\ \A i \in 1 .. Len(q) : Append(q, c)[i] = q[i]
      /\ Append(q, c)[Len(q) + 1] = c
  BY AppendProperties
<1>2. /\ r \in Seq(S) /\ Len(r) = Len(q) - n
      /\ \A i \in 1 .. Len(q) - n : r[i] = q[n + i]
  <2>1. \A i \in n + 1 .. Len(q) : q[i] \in S
    OBVIOUS
  <2>2. /\ r \in Seq(S)
        /\ Len(r) = IF n + 1 <= Len(q) THEN Len(q) - (n + 1) + 1 ELSE 0
        /\ \A i \in 1 .. Len(q) - (n + 1) + 1 : r[i] = q[(n + 1) + i - 1]
    BY <2>1, SubSeqProperties
  <2> HIDE DEF r
  <2>3. Len(r) = Len(q) - n
    BY <2>2
  <2>4. ASSUME NEW i \in 1 .. Len(q) - n
        PROVE  r[i] = q[n + i]
    <3>1. i \in 1 .. Len(q) - (n + 1) + 1 /\ (n + 1) + i - 1 = n + i
      OBVIOUS
    <3> QED
      BY <2>2, <3>1
  <2> QED
    BY <2>2, <2>3, <2>4
<1>3. /\ s \in Seq(S) /\ Len(s) = Len(q) + 1 - n
      /\ \A i \in 1 .. Len(q) + 1 - n : s[i] = Append(q, c)[n + i]
  <2>1. \A i \in n + 1 .. Len(q) + 1 : Append(q, c)[i] \in S
    BY <1>1
  <2>2. /\ s \in Seq(S)
        /\ Len(s) = IF n + 1 <= Len(q) + 1 THEN Len(q) + 1 - (n + 1) + 1 ELSE 0
        /\ \A i \in 1 .. Len(q) + 1 - (n + 1) + 1 : s[i] = Append(q, c)[(n + 1) + i - 1]
    BY <2>1, SubSeqProperties
  <2> HIDE DEF s
  <2>3. Len(s) = Len(q) + 1 - n
    BY <2>2
  <2>4. ASSUME NEW i \in 1 .. Len(q) + 1 - n
        PROVE  s[i] = Append(q, c)[n + i]
    <3>1. i \in 1 .. Len(q) + 1 - (n + 1) + 1 /\ (n + 1) + i - 1 = n + i
      OBVIOUS
    <3> QED
      BY <2>2, <3>1
  <2> QED
    BY <2>2, <2>3, <2>4
<1> HIDE DEF r, s
<1>4. /\ Append(r, c) \in Seq(S) /\ Len(Append(r, c)) = Len(r) + 1
      /\ \A i \in 1 .. Len(r) : Append(r, c)[i] = r[i]
      /\ Append(r, c)[Len(r) + 1] = c
  BY <1>2, AppendProperties
<1>5. Len(s) = Len(Append(r, c))
  BY <1>2, <1>3, <1>4
<1>6. \A i \in 1 .. Len(s) : s[i] = Append(r, c)[i]
  <2> SUFFICES ASSUME NEW i \in 1 .. Len(s)
               PROVE  s[i] = Append(r, c)[i]
    OBVIOUS
  <2>1. s[i] = Append(q, c)[n + i]
    BY <1>3
  <2>2. CASE i <= Len(q) - n
    BY <1>1, <1>2, <1>3, <1>4, <2>1, <2>2
  <2>3. CASE i = Len(q) + 1 - n
    <3>1. n + i = Len(q) + 1 /\ i = Len(r) + 1
      BY <1>2, <2>3
    <3> QED
      BY <1>1, <1>4, <2>1, <3>1
  <2>4. i <= Len(q) - n \/ i = Len(q) + 1 - n
    <3>1. Len(s) = Len(q) + 1 - n /\ Len(q) \in Nat
      BY <1>3
    <3> QED
      BY <3>1
  <2> QED
    BY <2>2, <2>3, <2>4
<1>7. s = Append(r, c)
  BY <1>3, <1>4, <1>5, <1>6, SeqEqual
<1> QED
  BY <1>1, <1>7 DEF r, s, Rest

\* Nobody stands behind the last one.
LEMMA BehindLast ==
  ASSUME NEW S, NEW q \in Seq(S)
  PROVE  Rest(q, Len(q)) = <<>>
<1>1. Len(q) \in Int /\ Len(q) + 1 \in Int /\ Len(q) < Len(q) + 1
  BY LenProperties
<1> QED
  BY <1>1, SubSeqEmpty DEF Rest

LEMMA BehindNobody == Rest(<<>>, 0) = <<>>
<1>1. Len(<<>>) = 0 /\ 0 < 0 + 1
  OBVIOUS
<1> QED
  BY <1>1, SubSeqEmpty DEF Rest

\* A step that changes neither the chains nor who is queued leaves the lines.
LEMMA LinesUndisturbed ==
  ASSUME TypeOK, chain' = chain,
         \A u \in Targets : \A i \in DOMAIN chain[u] :
           phase'[chain[u][i]] = "queued" <=> phase[chain[u][i]] = "queued",
         NEW t \in Targets, NEW n, Served(t, n)
  PROVE  Served(t, n)'
  BY DEF Served

\* A newcomer stands behind all the others.
LEMMA AdmitLine ==
  ASSUME BrokerAssumption, TypeOK, ChainInv, NEW c \in Calls, NEW r \in Requests,
         r.mutates, ExecuteAdmit(c, r), NEW t \in Targets, NEW n, Served(t, n)
  PROVE  /\ Served(t, n)'
         /\ chain'[t] = IF t = r.target THEN Append(chain[t], c) ELSE chain[t]
<1>1. chain[t] \in Seq(Calls) /\ \A i \in DOMAIN chain[t] : chain[t][i] \in Calls
  BY ChainCalls
<1>2. /\ phase[c] = "idle" /\ phase'[c] = "queued"
      /\ \A d \in Calls \ {c} : phase'[d] = phase[d]
      /\ chain'[t] = IF t = r.target THEN Append(chain[t], c) ELSE chain[t]
  BY DEF ExecuteAdmit, TypeOK
<1>3. \A i \in DOMAIN chain[t] : phase'[chain[t][i]] = "queued" <=> i > n
  <2>1. \A i \in DOMAIN chain[t] : chain[t][i] # c
    BY <1>2 DEF ChainInv, ChainMembers
  <2> QED
    BY <1>1, <1>2, <2>1 DEF Served
<1>4. CASE t # r.target
  BY <1>2, <1>3, <1>4 DEF Served
<1>5. CASE t = r.target
  <2>1. /\ Len(Append(chain[t], c)) = Len(chain[t]) + 1
        /\ DOMAIN Append(chain[t], c) = 1 .. Len(chain[t]) + 1
        /\ \A i \in 1 .. Len(chain[t]) : Append(chain[t], c)[i] = chain[t][i]
        /\ Append(chain[t], c)[Len(chain[t]) + 1] = c
    BY <1>1, AppendProperties
  <2>2. /\ n \in 0 .. Len(chain[t]) /\ Len(chain[t]) \in Nat
        /\ DOMAIN chain[t] = 1 .. Len(chain[t])
    BY <1>1 DEF Served
  <2>3. n \in 0 .. Len(chain[t]) + 1 /\ Len(chain[t]) + 1 > n
    BY <2>2
  <2>4. \A i \in 1 .. Len(chain[t]) + 1 : i \in 1 .. Len(chain[t]) \/ i = Len(chain[t]) + 1
    BY <2>2
  <2>5. chain'[t] = Append(chain[t], c)
    BY <1>2, <1>5
  <2> QED
    BY <1>2, <1>3, <1>5, <2>1, <2>2, <2>3, <2>4, <2>5 DEF Served
<1> QED
  BY <1>4, <1>5

\* A queued mutation behind which only settled calls are chained is the next in
\* its line, and nobody holds its target.
LEMMA NextInLine ==
  ASSUME TypeOK, ChainInv, NEW c \in Calls, phase[c] = "queued", req[c].mutates,
         PreviousReleased(c), NEW n, Served(req[c].target, n)
  PROVE  LET q == chain[req[c].target]
         IN  /\ req[c].target \in Targets
             /\ n + 1 \in DOMAIN q /\ q[n + 1] = c
             /\ RunningOn(req[c].target) = {}
<1> DEFINE t0 == req[c].target
           q == chain[t0]
<1>1. t0 \in Targets
  BY DEF TypeOK, Targets
<1>2. PICK j \in DOMAIN q : q[j] = c
  BY DEF ChainInv, ChainComplete, Executing
<1>3. q \in Seq(Calls) /\ DOMAIN q = 1 .. Len(q) /\ Len(q) \in Nat
  BY <1>1, ChainCalls
<1>4. \A i \in DOMAIN q : i < j => phase[q[i]] = "settled"
  BY <1>2 DEF PreviousReleased
<1>5. j > n /\ n \in 0 .. Len(q)
  BY <1>2 DEF Served
<1>6. j = n + 1
  <2>1. SUFFICES ASSUME j # n + 1
                 PROVE  FALSE
    OBVIOUS
  <2>2. n + 1 \in DOMAIN q /\ n + 1 < j /\ n + 1 > n
    BY <1>3, <1>5, <2>1
  <2>3. phase[q[n + 1]] = "queued"
    BY <2>2 DEF Served
  <2> QED
    BY <1>4, <2>2, <2>3
<1>7. RunningOn(t0) = {}
  <2> SUFFICES ASSUME NEW d \in Calls, phase[d] = "running", MutatesOn(d, t0)
               PROVE  FALSE
    BY DEF RunningOn
  <2>1. PICK i \in DOMAIN q : q[i] = d
    BY DEF ChainInv, ChainComplete, Executing, MutatesOn
  <2>2. ~(i < j) /\ ~(j < i)
    BY <1>1, <1>2, <1>4, <2>1 DEF ChainInv, RunningAfterSettled
  <2>3. i = j
    BY <1>3, <2>2
  <2> QED
    BY <1>2, <2>1, <2>3
<1> QED
  BY <1>1, <1>2, <1>6, <1>7

\* When it has its turn, one more call of the line is served.
LEMMA TurnTaken ==
  ASSUME TypeOK, ChainInv, NEW c \in Calls, phase[c] = "queued", req[c].mutates,
         PreviousReleased(c), phase'[c] # "queued",
         \A d \in Calls \ {c} : phase'[d] = phase[d],
         NEW t \in Targets, NEW n, Served(t, n), chain'[t] = chain[t]
  PROVE  IF t = req[c].target THEN Served(t, n + 1)' ELSE Served(t, n)'
<1>1. chain[t] \in Seq(Calls) /\ \A i \in DOMAIN chain[t] : chain[t][i] \in Calls
  BY ChainCalls
<1>2. CASE t # req[c].target
  <2>1. \A i \in DOMAIN chain[t] : chain[t][i] # c
    BY <1>2 DEF ChainInv, ChainMembers, MutatesOn
  <2> QED
    BY <1>1, <1>2, <2>1 DEF Served
<1>3. CASE t = req[c].target
  <2>1. n + 1 \in DOMAIN chain[t] /\ chain[t][n + 1] = c
    BY <1>3, NextInLine
  <2>2. n \in 0 .. Len(chain[t]) /\ DOMAIN chain[t] = 1 .. Len(chain[t]) /\ Len(chain[t]) \in Nat
    BY <1>1 DEF Served
  <2>3. \A i \in DOMAIN chain[t] : i # n + 1 => chain[t][i] # c
    BY <2>1 DEF ChainInv, ChainOnce
  <2>4. \A i \in DOMAIN chain[t] : phase'[chain[t][i]] = "queued" <=> i > n /\ i # n + 1
    BY <1>1, <2>1, <2>3 DEF Served
  <2>5. \A i \in DOMAIN chain[t] : i > n /\ i # n + 1 <=> i > n + 1
    BY <2>2
  <2>6. n + 1 \in 0 .. Len(chain[t])
    BY <2>1, <2>2
  <2> QED
    BY <1>3, <2>4, <2>5, <2>6 DEF Served
<1> QED
  BY <1>2, <1>3

\* A dropped chain is an empty line.
LEMMA DroppedLine ==
  ASSUME NEW t, chain'[t] = <<>>
  PROVE  Served(t, 0)'
  BY DEF Served

\* A running mutation that settles leaves its line as it is, or drops it.
LEMMA FinishedLine ==
  ASSUME TypeOK, ChainInv, NEW c \in Calls, phase[c] = "running",
         NEW o, Settle(c, o), NEW t \in Targets, NEW n, Served(t, n)
  PROVE  \/ chain'[t] = chain[t] /\ Served(t, n)'
         \/ n = Len(chain[t]) /\ chain'[t] = <<>> /\ Served(t, 0)'
<1>1. chain[t] \in Seq(Calls) /\ \A i \in DOMAIN chain[t] : chain[t][i] \in Calls
  BY ChainCalls
<1>2. phase'[c] = "settled" /\ \A d \in Calls \ {c} : phase'[d] = phase[d]
  BY DEF Settle, TypeOK
<1>3. CASE chain'[t] = chain[t]
  BY <1>1, <1>2, <1>3 DEF Served
<1>4. CASE chain'[t] # chain[t]
  <2>1. chain'[t] = <<>> /\ chain[t] # <<>> /\ chain[t][Len(chain[t])] = c
    BY <1>4 DEF Settle, DropOwnTail, TypeOK
  <2>2. Len(chain[t]) \in DOMAIN chain[t] /\ Len(chain[t]) \in Nat
    BY <1>1, <2>1
  <2>3. n \in 0 .. Len(chain[t]) /\ ~(Len(chain[t]) > n)
    BY <2>1, <2>2 DEF Served
  <2>4. n = Len(chain[t])
    BY <2>2, <2>3
  <2> QED
    BY <2>1, <2>4, DroppedLine
<1> QED
  BY <1>3, <1>4

\* What an abstract step needs to know of the lines and holders, before and
\* after a step of the broker.
LEMMA LineIs ==
  ASSUME TypeOK, NEW t \in Targets, NEW n, Served(t, n)
  PROVE  QueuedOn(t) = Rest(chain[t], n)
<1>1. chain[t] \in Seq(Calls) /\ \A i \in DOMAIN chain[t] : chain[t][i] \in Calls
  BY ChainCalls
<1>2. \A i \in DOMAIN chain[t] : chain[t][i] \in {c \in Calls : phase[c] # "queued"} <=> i <= n
  BY <1>1 DEF Served
<1> QED
  BY <1>1, <1>2, BehindIs DEF QueuedOn, Served

LEMMA LineIsNext ==
  ASSUME TypeOK', NEW t \in Targets, NEW n, Served(t, n)'
  PROVE  QueuedOn(t)' = Rest(chain'[t], n)
<1>1. chain'[t] \in Seq(Calls) /\ \A i \in DOMAIN chain'[t] : chain'[t][i] \in Calls
  <2>1. chain'[t] \in Seq(Calls)
    BY DEF TypeOK
  <2> QED
    BY <2>1
<1>2. \A i \in DOMAIN chain'[t] : chain'[t][i] \in {c \in Calls : phase'[c] # "queued"} <=> i <= n
  BY <1>1 DEF Served
<1> QED
  BY <1>1, <1>2, BehindIs DEF QueuedOn, Served

LEMMA SameHolder ==
  ASSUME NEW t, \A d \in Calls : (d \in RunningOn(t))' <=> d \in RunningOn(t)
  PROVE  HolderOf(t)' = HolderOf(t)
<1>1. RunningOn(t)' = RunningOn(t)
  BY DEF RunningOn
<1> QED
  BY <1>1 DEF HolderOf

\* A step that changes neither the lines nor the holders.
LEMMA LinesStutter ==
  ASSUME TypeOK, TypeOK', TurnsInOrder, chain' = chain,
         \A u \in Targets : \A i \in DOMAIN chain[u] :
           phase'[chain[u][i]] = "queued" <=> phase[chain[u][i]] = "queued",
         \A t \in Targets : \A d \in Calls : (d \in RunningOn(t))' <=> d \in RunningOn(t)
  PROVE  TurnsInOrder' /\ UNCHANGED Serial!vars
<1>1. ASSUME NEW t \in Targets
      PROVE  /\ \E n \in 0 .. Len(chain'[t]) : Served(t, n)'
             /\ QueuedOn(t)' = QueuedOn(t)
             /\ HolderOf(t)' = HolderOf(t)
  <2>1. PICK n \in 0 .. Len(chain[t]) : Served(t, n)
    BY DEF TurnsInOrder
  <2>2. Served(t, n)'
    BY <2>1, LinesUndisturbed
  <2> QED
    BY <2>1, <2>2, LineIs, LineIsNext, SameHolder
<1> QED
  BY <1>1 DEF TurnsInOrder, Serial!vars

\* Each step of the broker is a step of the lines, or none at all.
SerialStep == TurnsInOrder' /\ [Serial!Next]_Serial!vars

LEMMA QuietStep ==
  ASSUME TypeOK, TypeOK', TurnsInOrder, chain' = chain, NEW c \in Calls,
         \A d \in Calls \ {c} : phase'[d] = phase[d] /\ req'[d] = req[d],
         phase[c] \notin {"queued", "running"},
         phase'[c] # "queued", phase'[c] = "running" => ~req'[c].mutates
  PROVE  SerialStep
<1>1. \A u \in Targets : \A i \in DOMAIN chain[u] :
        phase'[chain[u][i]] = "queued" <=> phase[chain[u][i]] = "queued"
  BY ChainCalls
<1>2. \A t \in Targets : \A d \in Calls : (d \in RunningOn(t))' <=> d \in RunningOn(t)
  BY DEF RunningOn, MutatesOn
<1> QED
  BY <1>1, <1>2, LinesStutter DEF SerialStep

LEMMA AdmitStep ==
  ASSUME BrokerAssumption, TypeOK, TypeOK', ChainInv, TurnsInOrder,
         NEW c \in Calls, NEW r \in Requests, r.mutates, ExecuteAdmit(c, r)
  PROVE  SerialStep
<1> DEFINE t0 == r.target
<1>1. t0 \in Targets
  BY DEF Targets
<1>2. /\ phase[c] = "idle" /\ phase'[c] = "queued"
      /\ \A d \in Calls \ {c} : phase'[d] = phase[d] /\ req'[d] = req[d]
  BY DEF ExecuteAdmit, TypeOK
<1>3. ASSUME NEW t \in Targets
      PROVE  /\ \E n \in 0 .. Len(chain'[t]) : Served(t, n)'
             /\ QueuedOn(t)' = IF t = t0 THEN Append(QueuedOn(t), c) ELSE QueuedOn(t)
             /\ HolderOf(t)' = HolderOf(t)
  <2>1. PICK n \in 0 .. Len(chain[t]) : Served(t, n)
    BY DEF TurnsInOrder
  <2>2. /\ Served(t, n)'
        /\ chain'[t] = IF t = t0 THEN Append(chain[t], c) ELSE chain[t]
    BY <2>1, AdmitLine
  <2>3. QueuedOn(t) = Rest(chain[t], n)
    BY <2>1, LineIs
  <2>4. QueuedOn(t)' = Rest(chain'[t], n)
    BY <2>2, LineIsNext
  <2>5. chain[t] \in Seq(Calls)
    BY ChainCalls
  <2>6. QueuedOn(t)' = IF t = t0 THEN Append(QueuedOn(t), c) ELSE QueuedOn(t)
    <3>1. CASE t = t0
      <4>1. Rest(Append(chain[t], c), n) = Append(Rest(chain[t], n), c)
        BY <2>1, <2>5, BehindAppend, ZenonT(30)
      <4> QED
        BY <2>2, <2>3, <2>4, <3>1, <4>1
    <3>2. CASE t # t0
      BY <2>2, <2>3, <2>4, <3>2
    <3> QED
      BY <3>1, <3>2
  <2>7. \A d \in Calls : (d \in RunningOn(t))' <=> d \in RunningOn(t)
    BY <1>2 DEF RunningOn, MutatesOn
  <2>8. n \in 0 .. Len(chain'[t])
    BY <2>2 DEF Served
  <2> QED
    BY <2>2, <2>6, <2>7, <2>8, SameHolder
<1>4. TurnsInOrder'
  BY <1>3 DEF TurnsInOrder
<1>5. Serial!Accept(t0, c)
  BY <1>1, <1>3 DEF Serial!Accept
<1> QED
  BY <1>1, <1>4, <1>5 DEF SerialStep, Serial!Next

LEMMA GrantStep ==
  ASSUME BrokerAssumption, TypeOK, TypeOK', ChainInv, TurnsInOrder,
         NEW c \in Calls, req[c].mutates, StartMutation(c)
  PROVE  SerialStep
<1> DEFINE t0 == req[c].target
<1>1. t0 \in Targets /\ NoCall \notin Calls
  BY DEF StartMutation, TypeOK, Targets, BrokerAssumption
<1>2. /\ phase[c] = "queued" /\ phase'[c] = "running" /\ PreviousReleased(c)
      /\ \A d \in Calls \ {c} : phase'[d] = phase[d]
      /\ req' = req /\ chain' = chain /\ req[c] # NoRequest
  BY DEF StartMutation, TypeOK, BrokerAssumption
<1>3. ASSUME NEW t \in Targets
      PROVE  /\ \E n \in 0 .. Len(chain'[t]) : Served(t, n)'
             /\ t # t0 => QueuedOn(t)' = QueuedOn(t) /\ HolderOf(t)' = HolderOf(t)
             /\ t = t0 => /\ QueuedOn(t) # <<>> /\ Head(QueuedOn(t)) = c
                          /\ QueuedOn(t)' = Tail(QueuedOn(t))
                          /\ HolderOf(t) = NoCall /\ HolderOf(t)' = c
  <2>1. PICK n \in 0 .. Len(chain[t]) : Served(t, n)
    BY DEF TurnsInOrder
  <2>2. IF t = t0 THEN Served(t, n + 1)' ELSE Served(t, n)'
    BY <1>2, <2>1, TurnTaken
  <2>3. \E m \in 0 .. Len(chain'[t]) : Served(t, m)'
    BY <2>2 DEF Served
  <2>4. chain[t] \in Seq(Calls) /\ Len(chain[t]) \in Nat /\ DOMAIN chain[t] = 1 .. Len(chain[t])
    BY ChainCalls
  <2>5. QueuedOn(t) = Rest(chain[t], n)
    BY <2>1, LineIs
  <2>6. CASE t # t0
    <3>1. QueuedOn(t)' = QueuedOn(t)
      BY <1>2, <2>2, <2>5, <2>6, LineIsNext
    <3>2. \A d \in Calls : (d \in RunningOn(t))' <=> d \in RunningOn(t)
      BY <1>2, <2>6 DEF RunningOn, MutatesOn
    <3> QED
      BY <2>3, <2>6, <3>1, <3>2, SameHolder
  <2>7. CASE t = t0
    <3>1. n + 1 \in DOMAIN chain[t] /\ chain[t][n + 1] = c /\ RunningOn(t) = {}
      BY <1>2, <2>1, <2>7, NextInLine
    <3>2. QueuedOn(t)' = Rest(chain[t], n + 1)
      BY <1>2, <2>2, <2>7, LineIsNext
    <3>3. n \in Nat /\ n < Len(chain[t])
      BY <2>1, <2>4, <3>1
    <3>4. /\ QueuedOn(t) # <<>> /\ Head(QueuedOn(t)) = c
          /\ Tail(QueuedOn(t)) = Rest(chain[t], n + 1)
      BY <2>4, <2>5, <3>1, <3>3, BehindHead
    <3>5. RunningOn(t)' = {c}
      BY <1>2, <2>7, <3>1 DEF RunningOn, MutatesOn
    <3>6. HolderOf(t) = NoCall /\ HolderOf(t)' = c
      BY <3>1, <3>5 DEF HolderOf
    <3> QED
      BY <2>3, <2>7, <3>2, <3>3, <3>4, <3>6
  <2> QED
    BY <2>6, <2>7
<1>4. TurnsInOrder'
  BY <1>3 DEF TurnsInOrder
<1>5. Serial!Grant(t0)
  BY <1>1, <1>3 DEF Serial!Grant
<1> QED
  BY <1>1, <1>4, <1>5 DEF SerialStep, Serial!Next

LEMMA GiveUpStep ==
  ASSUME BrokerAssumption, TypeOK, TypeOK', ChainInv, TurnsInOrder,
         NEW c \in Calls, req[c].mutates, SkipAborted(c)
  PROVE  SerialStep
<1> DEFINE t0 == req[c].target
<1>1. t0 \in Targets /\ NoCall \notin Calls
  BY DEF SkipAborted, TypeOK, Targets, BrokerAssumption
<1>2. /\ phase[c] = "queued" /\ phase'[c] = "settled" /\ PreviousReleased(c)
      /\ \A d \in Calls \ {c} : phase'[d] = phase[d]
      /\ req' = req
  BY DEF SkipAborted, Settle, TypeOK
<1>3. ASSUME NEW t \in Targets
      PROVE  /\ \E n \in 0 .. Len(chain'[t]) : Served(t, n)'
             /\ t # t0 => QueuedOn(t)' = QueuedOn(t)
             /\ t = t0 => /\ QueuedOn(t) # <<>>
                          /\ QueuedOn(t)' = Tail(QueuedOn(t))
                          /\ HolderOf(t) = NoCall
             /\ HolderOf(t)' = HolderOf(t)
  <2>1. PICK n \in 0 .. Len(chain[t]) : Served(t, n)
    BY DEF TurnsInOrder
  <2>2. chain[t] \in Seq(Calls) /\ Len(chain[t]) \in Nat /\ DOMAIN chain[t] = 1 .. Len(chain[t])
    BY ChainCalls
  <2>3. QueuedOn(t) = Rest(chain[t], n)
    BY <2>1, LineIs
  <2>4. HolderOf(t)' = HolderOf(t)
    <3>1. \A d \in Calls : (d \in RunningOn(t))' <=> d \in RunningOn(t)
      BY <1>2 DEF RunningOn, MutatesOn
    <3> QED
      BY <3>1, SameHolder
  <2>5. CASE t # t0
    <3>1. chain'[t] = chain[t]
      BY <1>1, <2>5 DEF SkipAborted, Settle, DropOwnTail, TypeOK
    <3>2. Served(t, n)'
      BY <1>2, <2>1, <2>5, <3>1, TurnTaken
    <3>3. QueuedOn(t)' = QueuedOn(t)
      BY <2>3, <3>1, <3>2, LineIsNext
    <3>4. n \in 0 .. Len(chain'[t])
      BY <2>1, <3>1
    <3> QED
      BY <2>4, <2>5, <3>2, <3>3, <3>4
  <2>6. CASE t = t0
    <3>1. n + 1 \in DOMAIN chain[t] /\ chain[t][n + 1] = c /\ RunningOn(t) = {}
      BY <1>2, <2>1, <2>6, NextInLine
    <3>2. n \in Nat /\ n < Len(chain[t])
      BY <2>1, <2>2, <3>1
    <3>3. /\ QueuedOn(t) # <<>>
          /\ Tail(QueuedOn(t)) = Rest(chain[t], n + 1)
      BY <2>2, <2>3, <3>2, BehindHead
    <3>4. HolderOf(t) = NoCall
      BY <3>1 DEF HolderOf
    <3>5. CASE chain'[t] = chain[t]
      <4>1. Served(t, n + 1)'
        BY <1>2, <2>1, <2>6, <3>5, TurnTaken
      <4>2. QueuedOn(t)' = Rest(chain[t], n + 1)
        BY <3>5, <4>1, LineIsNext
      <4>3. n + 1 \in 0 .. Len(chain'[t])
        BY <4>1 DEF Served
      <4> QED
        BY <2>4, <2>6, <3>2, <3>3, <3>4, <4>1, <4>2, <4>3
    <3>6. CASE chain'[t] # chain[t]
      <4>1. chain'[t] = <<>> /\ chain[t][Len(chain[t])] = c
        BY <1>1, <2>6, <3>6 DEF SkipAborted, Settle, DropOwnTail, TypeOK
      <4>2. Len(chain[t]) \in DOMAIN chain[t]
        BY <2>2, <3>1
      <4>3. Len(chain[t]) = n + 1
        BY <3>1, <4>1, <4>2 DEF ChainInv, ChainOnce
      <4>5. Tail(QueuedOn(t)) = <<>>
        BY <2>2, <3>3, <4>3, BehindLast
      <4>6. Served(t, 0)' /\ QueuedOn(t)' = Rest(<<>>, 0)
        BY <4>1, DroppedLine, LineIsNext
      <4>7. QueuedOn(t)' = <<>>
        BY <4>6, BehindNobody
      <4>8. 0 \in 0 .. Len(chain'[t])
        BY <4>6 DEF Served
      <4> QED
        BY <2>4, <2>6, <3>3, <3>4, <4>5, <4>6, <4>7, <4>8
    <3> QED
      BY <3>5, <3>6
  <2> QED
    BY <2>5, <2>6
<1>4. TurnsInOrder'
  BY <1>3 DEF TurnsInOrder
<1>5. Serial!GiveUp(t0)
  BY <1>1, <1>3 DEF Serial!GiveUp
<1> QED
  BY <1>1, <1>4, <1>5 DEF SerialStep, Serial!Next

LEMMA ReleaseStep ==
  ASSUME BrokerAssumption, TypeOK, TypeOK', ChainInv, TurnsInOrder,
         NEW c \in Calls, req[c].mutates, NEW o, Finish(c, o)
  PROVE  SerialStep
<1> DEFINE t0 == req[c].target
<1>1. t0 \in Targets /\ NoCall \notin Calls
  BY DEF Finish, TypeOK, Targets, BrokerAssumption
<1>2. /\ phase[c] = "running" /\ phase'[c] = "settled" /\ req[c] # NoRequest
      /\ \A d \in Calls \ {c} : phase'[d] = phase[d]
      /\ req' = req /\ Settle(c, o)
  <2>1. phase[c] = "running" /\ Settle(c, o)
    BY DEF Finish
  <2>2. req[c] \in Requests
    BY <2>1 DEF TypeOK
  <2> QED
    BY <2>1, <2>2 DEF Settle, TypeOK, BrokerAssumption
<1>3. ASSUME NEW t \in Targets
      PROVE  /\ \E n \in 0 .. Len(chain'[t]) : Served(t, n)'
             /\ QueuedOn(t)' = QueuedOn(t)
             /\ t # t0 => HolderOf(t)' = HolderOf(t)
             /\ t = t0 => HolderOf(t) # NoCall /\ HolderOf(t)' = NoCall
  <2>1. PICK n \in 0 .. Len(chain[t]) : Served(t, n)
    BY DEF TurnsInOrder
  <2>2. chain[t] \in Seq(Calls) /\ Len(chain[t]) \in Nat
    BY ChainCalls
  <2>3. QueuedOn(t) = Rest(chain[t], n)
    BY <2>1, LineIs
  <2>4. /\ \E m \in 0 .. Len(chain'[t]) : Served(t, m)'
        /\ QueuedOn(t)' = QueuedOn(t)
    <3>1. CASE chain'[t] = chain[t] /\ Served(t, n)'
      BY <2>1, <2>3, <3>1, LineIsNext
    <3>2. CASE n = Len(chain[t]) /\ chain'[t] = <<>> /\ Served(t, 0)'
      <4>1. QueuedOn(t)' = Rest(<<>>, 0)
        BY <3>2, LineIsNext
      <4>2. QueuedOn(t)' = <<>>
        BY <4>1, BehindNobody
      <4>4. QueuedOn(t) = <<>>
        BY <2>2, <2>3, <3>2, BehindLast
      <4>5. 0 \in 0 .. Len(chain'[t])
        BY <3>2 DEF Served
      <4> QED
        BY <3>2, <4>2, <4>4, <4>5
    <3> QED
      BY <1>2, <2>1, <3>1, <3>2, FinishedLine
  <2>5. CASE t # t0
    <3>1. \A d \in Calls : (d \in RunningOn(t))' <=> d \in RunningOn(t)
      BY <1>2, <2>5 DEF RunningOn, MutatesOn
    <3> QED
      BY <2>4, <2>5, <3>1, SameHolder
  <2>6. CASE t = t0
    <3>1. c \in RunningOn(t)
      BY <1>2, <2>6 DEF RunningOn, MutatesOn
    <3>2. MutationExclusion
      BY ExclusionFromChains
    <3>3. RunningOn(t)' = {}
      BY <1>1, <1>2, <2>6, <3>1, <3>2 DEF RunningOn, MutatesOn, MutationExclusion
    <3>4. HolderOf(t)' = NoCall /\ HolderOf(t) \in Calls
      BY <3>1, <3>3 DEF HolderOf, RunningOn
    <3> QED
      BY <1>1, <2>4, <2>6, <3>4
  <2> QED
    BY <2>5, <2>6
<1>4. TurnsInOrder'
  BY <1>3 DEF TurnsInOrder
<1>5. Serial!Release(t0)
  BY <1>1, <1>3 DEF Serial!Release
<1> QED
  BY <1>1, <1>4, <1>5 DEF SerialStep, Serial!Next

LEMMA StepSerial ==
  ASSUME BrokerAssumption, TypeOK, TypeOK', ChainInv, TurnsInOrder, [Next]_vars
  PROVE  SerialStep
<1>1. ASSUME NEW c \in Calls, NEW o, Refuse(c, o), phase[c] = "idle"
      PROVE  SerialStep
  BY <1>1, QuietStep DEF Refuse, TypeOK
<1>2. ASSUME NEW c \in Calls, NEW r \in Requests, Execute(c, r)
      PROVE  SerialStep
  <2>1. CASE ExecuteBusy(c, r)
    BY <1>1, <2>1 DEF ExecuteBusy
  <2>2. CASE ExecuteLate(c, r)
    BY <1>1, <2>2 DEF ExecuteLate
  <2>3. CASE ExecuteOtherArguments(c, r)
    BY <1>1, <2>3 DEF ExecuteOtherArguments
  <2>4. CASE ExecuteOverLimit(c, r)
    BY <1>1, <2>4 DEF ExecuteOverLimit
  <2>5. CASE ExecuteJoin(c, r)
    BY <2>5, QuietStep DEF ExecuteJoin, TypeOK
  <2>6. CASE ExecuteAdmit(c, r) /\ ~r.mutates
    BY <2>6, QuietStep DEF ExecuteAdmit, TypeOK
  <2>7. CASE ExecuteAdmit(c, r) /\ r.mutates
    BY <2>7, AdmitStep
  <2> QED
    BY <1>2, <2>1, <2>2, <2>3, <2>4, <2>5, <2>6, <2>7 DEF Execute
<1>3. ASSUME NEW c \in Calls, NEW r \in Requests, InputRefused(c, r)
      PROVE  SerialStep
  BY <1>1, <1>3 DEF InputRefused
<1>4. ASSUME NEW c \in Calls, NEW r \in Requests, WaitForInput(c, r)
      PROVE  SerialStep
  BY <1>4, QuietStep DEF WaitForInput, TypeOK
<1>5. ASSUME NEW c \in Calls, NEW o \in RunOutcomes, EndInput(c, o)
      PROVE  SerialStep
  BY <1>5, QuietStep DEF EndInput, TypeOK
<1>6. ASSUME NEW c \in Calls, NEW o, StartMutation(c) \/ SkipAborted(c) \/ Finish(c, o)
      PROVE  SerialStep
  <2>1. CASE req[c].mutates
    BY <1>6, <2>1, GrantStep, GiveUpStep, ReleaseStep
  <2>2. CASE ~req[c].mutates
    <3>1. /\ \/ phase[c] = "queued"
             \/ phase[c] = "running" /\ phase'[c] = "settled"
          /\ req' = req /\ chain' = chain
          /\ \A d \in Calls \ {c} : phase'[d] = phase[d]
      BY <1>6, <2>2 DEF StartMutation, SkipAborted, Finish, Settle, TypeOK
    <3>2. \A u \in Targets : \A i \in DOMAIN chain[u] : chain[u][i] \in Calls \ {c}
      BY <2>2, ChainCalls DEF ChainInv, ChainMembers, MutatesOn
    <3>3. \A t \in Targets : \A d \in Calls : (d \in RunningOn(t))' <=> d \in RunningOn(t)
      BY <2>2, <3>1 DEF RunningOn, MutatesOn
    <3> QED
      BY <3>1, <3>2, <3>3, LinesStutter DEF SerialStep
  <2> QED
    BY <2>1, <2>2
<1>7. CASE UNCHANGED <<phase, req, chain>>
  BY <1>7, LinesStutter DEF SerialStep, RunningOn, MutatesOn
<1>8. ASSUME NEW c \in Calls, DeadlineFires(c)
      PROVE  SerialStep
  BY <1>7, <1>8 DEF DeadlineFires
<1>9. ASSUME NEW cs \in SUBSET Calls, Abort(cs)
      PROVE  SerialStep
  BY <1>7, <1>9 DEF Abort
<1>10. ASSUME NEW k \in Keys, EntryExpires(k)
       PROVE  SerialStep
  BY <1>7, <1>10 DEF EntryExpires
<1>11. CASE UNCHANGED vars
  BY <1>7, <1>11 DEF vars
<1> QED
  BY <1>2, <1>3, <1>4, <1>5, <1>6, <1>8, <1>9, <1>10, <1>11, CancelAborts DEF Next

\* For every value of the constants the broker's promise chains do only what
\* one first-in first-out line per target does.
THEOREM LinesAreSerial == Spec => SerialSafety
<1>1. Init => TurnsInOrder /\ Serial!Init
  <2> SUFFICES ASSUME Init
               PROVE  TurnsInOrder /\ Serial!Init
    OBVIOUS
  <2>1. ASSUME NEW t \in Targets
        PROVE  Served(t, 0) /\ chain[t] = <<>>
    BY DEF Init, Served
  <2>2. TypeOK
    BY DEF Init, TypeOK, Phases, Outcomes, Retryable
  <2>3. \A t \in Targets : QueuedOn(t) = <<>>
    <3> TAKE t \in Targets
    <3>1. QueuedOn(t) = Rest(<<>>, 0)
      BY <2>1, <2>2, LineIs
    <3> QED
      BY <3>1, BehindNobody
  <2>4. \A t \in Targets : HolderOf(t) = NoCall
    BY DEF Init, HolderOf, RunningOn
  <2>5. TurnsInOrder
    BY <2>1 DEF TurnsInOrder, Served
  <2> QED
    BY <2>3, <2>4, <2>5 DEF Serial!Init
<1>2. TypeOK /\ TypeOK' /\ ChainInv /\ TurnsInOrder /\ [Next]_vars
        => TurnsInOrder' /\ [Serial!Next]_Serial!vars
  BY StepSerial, BrokerAssumption DEF SerialStep
<1> QED
  BY <1>1, <1>2, TypeCorrect, ChainInvariant, PTL DEF Spec, SerialSafety

-----------------------------------------------------------------------------
(* The limits *)

\* The calls that are counted, and those of one connection among them.
ExecutingCalls == {c \in Calls : Executing(c)}
WaitingCalls == {c \in Calls : phase[c] = "input"}
CallsOf(calls, conn) == {c \in calls : req[c].conn = conn}

\* Calls that are held under slots of their own are as many as the slots in use
\* at most.
LEMMA CountedByMap ==
  ASSUME IsFiniteSet(Calls), NEW map, NEW slots,
         \A s \in slots : map[s] \in Calls, \A s, t \in slots : map[s] = map[t] => s = t,
         NEW calls \in SUBSET Calls,
         \A c \in calls : \E s \in slots : map[s] = c
  PROVE  /\ IsFiniteSet(calls) /\ IsFiniteSet(slots)
         /\ Cardinality(calls) <= Cardinality(slots)
<1> DEFINE held == [s \in slots |-> map[s]]
           slotOf == [c \in calls |-> CHOOSE s \in slots : map[s] = c]
<1>2. IsFiniteSet(calls)
  BY FS_Subset
<1>3. held \in Injection(slots, Calls)
  BY DEF Injection, IsInjective
<1>4. IsFiniteSet(slots)
  BY <1>3, FS_Injection
<1>5. \A c \in calls : slotOf[c] \in slots /\ map[slotOf[c]] = c
  OBVIOUS
<1>6. slotOf \in Injection(calls, slots)
  <2>1. slotOf \in [calls -> slots]
    BY <1>5
  <2>2. \A c, d \in calls : slotOf[c] = slotOf[d] => c = d
    BY <1>5
  <2> QED
    BY <2>1, <2>2 DEF Injection, IsInjective
<1> QED
  BY <1>2, <1>4, <1>6, FS_Injection

\* Fewer calls, from the same connections, stay within the limits.
LEMMA LimitsUndisturbed ==
  ASSUME BrokerAssumption, WithinLimits,
         ExecutingCalls' \subseteq ExecutingCalls, WaitingCalls' \subseteq WaitingCalls,
         \A c \in ExecutingCalls \cup WaitingCalls : req'[c] = req[c]
  PROVE  WithinLimits'
<1>1. IsFiniteSet(Calls)
  BY DEF BrokerAssumption
<1>2. /\ ExecutingCalls \subseteq Calls /\ WaitingCalls \subseteq Calls
  BY DEF ExecutingCalls, WaitingCalls
<1>3. ASSUME NEW S \in SUBSET Calls, NEW T \in SUBSET S, NEW n \in Nat, Cardinality(S) <= n
      PROVE  Cardinality(T) <= n
  <2>1. IsFiniteSet(S)
    BY <1>1, FS_Subset
  <2>2. IsFiniteSet(T) /\ Cardinality(T) <= Cardinality(S)
    BY <2>1, FS_Subset
  <2> QED
    BY <1>3, <2>1, <2>2, FS_CardinalityType
<1>4. /\ MaxActive \in Nat /\ MaxInputWaiting \in Nat
      /\ MaxActivePerConnection \in Nat /\ MaxInputWaitingPerConnection \in Nat
  BY DEF BrokerAssumption
<1>5. /\ Cardinality(ExecutingCalls) <= MaxActive
      /\ Cardinality(WaitingCalls) <= MaxInputWaiting
      /\ \A conn \in Connections :
           /\ Cardinality(CallsOf(ExecutingCalls, conn)) <= MaxActivePerConnection
           /\ Cardinality(CallsOf(WaitingCalls, conn)) <= MaxInputWaitingPerConnection
  BY DEF WithinLimits, ExecutingCalls, WaitingCalls, CallsOf
<1>6. Cardinality(ExecutingCalls') <= MaxActive /\ Cardinality(WaitingCalls') <= MaxInputWaiting
  BY <1>2, <1>3, <1>4, <1>5
<1>7. ASSUME NEW conn \in Connections
      PROVE  /\ Cardinality(CallsOf(ExecutingCalls, conn)') <= MaxActivePerConnection
             /\ Cardinality(CallsOf(WaitingCalls, conn)') <= MaxInputWaitingPerConnection
  <2>1. /\ CallsOf(ExecutingCalls, conn)' \subseteq CallsOf(ExecutingCalls, conn)
        /\ CallsOf(WaitingCalls, conn)' \subseteq CallsOf(WaitingCalls, conn)
    BY DEF CallsOf
  <2>2. /\ CallsOf(ExecutingCalls, conn) \subseteq Calls /\ CallsOf(WaitingCalls, conn) \subseteq Calls
    BY <1>2 DEF CallsOf
  <2> QED
    BY <1>3, <1>4, <1>5, <2>1, <2>2
<1> QED
  BY <1>6, <1>7 DEF WithinLimits, ExecutingCalls, WaitingCalls, CallsOf, Connections

\* Each of these calls has a slot of the map, its own.
HeldBy(map, calls) ==
  /\ calls \subseteq Calls
  /\ DOMAIN map = Slots /\ \A s \in Slots : map[s] \in Calls \cup {NoCall}
  /\ \A s \in Slots : map[s] # NoCall => Slot(req[map[s]]) = s
  /\ \A d \in calls : \E s \in Slots : map[s] = d

\* Who is counted in a map that is not full may be joined by one more.
LEMMA RoomForOne ==
  ASSUME IsFiniteSet(Calls), NoCall \notin Calls, NEW map, NEW calls, HeldBy(map, calls),
         NEW r \in Requests, NEW total \in Nat, NEW each \in Nat, NEW c \in Calls,
         ~Full(map, r, total, each)
  PROVE  /\ Cardinality(calls \cup {c}) <= total
         /\ Cardinality(CallsOf(calls, r.conn) \cup {c}) <= each
<1>1. /\ calls \in SUBSET Calls
      /\ DOMAIN map = Slots /\ \A s \in Slots : map[s] \in Calls \cup {NoCall}
      /\ \A s \in Slots : map[s] # NoCall => Slot(req[map[s]]) = s
      /\ \A d \in calls : \E s \in Slots : map[s] = d
  BY DEF HeldBy
<1>2. ASSUME NEW few \in SUBSET Calls, NEW slots \in SUBSET Used(map), NEW n \in Nat,
             \A d \in few : \E s \in slots : map[s] = d, ~(Cardinality(slots) >= n)
      PROVE  Cardinality(few \cup {c}) <= n
  <2>1. \A s \in slots : map[s] \in Calls
    BY <1>1 DEF Used
  <2>2. \A s, t \in slots : map[s] = map[t] => s = t
    BY <1>1 DEF Used
  <2>3. IsFiniteSet(few) /\ IsFiniteSet(slots) /\ Cardinality(few) <= Cardinality(slots)
    BY <1>2, <2>1, <2>2, CountedByMap
  <2>4. Cardinality(few) \in Nat /\ Cardinality(slots) \in Nat
    BY <2>3, FS_CardinalityType
  <2>5. Cardinality(few \cup {c}) <= Cardinality(few) + 1
    <3>1. Cardinality(few \cup {c}) = IF c \in few THEN Cardinality(few) ELSE Cardinality(few) + 1
      BY <2>3, FS_AddElement
    <3> QED
      BY <2>4, <3>1
  <2>6. Cardinality(few \cup {c}) \in Nat
    BY <2>3, FS_AddElement, FS_CardinalityType
  <2> QED
    BY <1>2, <2>3, <2>4, <2>5, <2>6
<1>3. \A d \in calls : \E s \in Used(map) : map[s] = d
  BY <1>1 DEF Used
<1>4. \A d \in CallsOf(calls, r.conn) : \E s \in UsedBy(map, r.conn) : map[s] = d
  <2> SUFFICES ASSUME NEW d \in CallsOf(calls, r.conn)
               PROVE  \E s \in UsedBy(map, r.conn) : map[s] = d
    OBVIOUS
  <2>1. PICK s \in Slots : map[s] = d
    BY <1>1 DEF CallsOf
  <2>2. d # NoCall /\ req[d].conn = r.conn
    BY <1>1 DEF CallsOf
  <2>3. s = <<req[d].conn, req[d].id>>
    BY <1>1, <2>1, <2>2 DEF Slot
  <2>4. s[1] = r.conn
    BY <2>2, <2>3
  <2> QED
    BY <1>1, <2>1, <2>2, <2>4 DEF UsedBy, Used
<1>5. CallsOf(calls, r.conn) \in SUBSET Calls /\ UsedBy(map, r.conn) \in SUBSET Used(map)
  BY <1>1 DEF CallsOf, UsedBy
<1>6. ~(Cardinality(Used(map)) >= total) /\ ~(Cardinality(UsedBy(map, r.conn)) >= each)
  BY DEF Full
<1>7. Cardinality(calls \cup {c}) <= total
  BY <1>1, <1>2, <1>3, <1>6
<1> QED
  BY <1>2, <1>4, <1>5, <1>6, <1>7

\* A call that enters a map that is not full.
LEMMA EnterLimits ==
  ASSUME BrokerAssumption, TypeOK, EveryCallReachable, WithinLimits,
         NEW c \in Calls, NEW r \in Requests, phase[c] = "idle", req' = [req EXCEPT ![c] = r],
         \A d \in Calls \ {c} : phase'[d] = phase[d],
         \/ ~Full(active, r, MaxActive, MaxActivePerConnection) /\ phase'[c] \in {"queued", "running"}
         \/ ~Full(inputWaiting, r, MaxInputWaiting, MaxInputWaitingPerConnection) /\ phase'[c] = "input"
  PROVE  WithinLimits'
<1>1. /\ MaxActive \in Nat /\ MaxInputWaiting \in Nat
      /\ MaxActivePerConnection \in Nat /\ MaxInputWaitingPerConnection \in Nat
      /\ IsFiniteSet(Calls) /\ NoCall \notin Calls
  BY DEF BrokerAssumption
<1>2. /\ ExecutingCalls \in SUBSET Calls /\ WaitingCalls \in SUBSET Calls
      /\ c \notin ExecutingCalls /\ c \notin WaitingCalls
  BY DEF ExecutingCalls, WaitingCalls, Executing
<1>3. /\ Cardinality(ExecutingCalls) <= MaxActive
      /\ Cardinality(WaitingCalls) <= MaxInputWaiting
      /\ \A conn \in Connections :
           /\ Cardinality(CallsOf(ExecutingCalls, conn)) <= MaxActivePerConnection
           /\ Cardinality(CallsOf(WaitingCalls, conn)) <= MaxInputWaitingPerConnection
  BY DEF WithinLimits, ExecutingCalls, WaitingCalls, CallsOf
<1>4. req'[c] = r /\ \A d \in Calls \ {c} : req'[d] = req[d]
  BY DEF TypeOK
<1>5. ASSUME NEW calls \in SUBSET Calls, c \notin calls, NEW conn
      PROVE  /\ {d \in calls : req'[d].conn = conn} = CallsOf(calls, conn)
             /\ conn = r.conn => {d \in calls \cup {c} : req'[d].conn = conn} = CallsOf(calls, conn) \cup {c}
             /\ conn # r.conn => {d \in calls \cup {c} : req'[d].conn = conn} = CallsOf(calls, conn)
  BY <1>4, <1>5 DEF CallsOf
<1>6. DOMAIN active = Slots /\ DOMAIN inputWaiting = Slots
  BY DEF TypeOK
<1>7. \A s \in Slots : active[s] \in Calls \cup {NoCall} /\ inputWaiting[s] \in Calls \cup {NoCall}
  BY DEF TypeOK
<1>8. CASE ~Full(active, r, MaxActive, MaxActivePerConnection) /\ phase'[c] \in {"queued", "running"}
  <2>1. ExecutingCalls' = ExecutingCalls \cup {c} /\ WaitingCalls' = WaitingCalls
    BY <1>8 DEF ExecutingCalls, WaitingCalls, Executing
  <2>2. /\ \A s \in Slots : active[s] # NoCall => Slot(req[active[s]]) = s
        /\ \A d \in ExecutingCalls : \E s \in Slots : active[s] = d
    BY DEF EveryCallReachable, ExecutingCalls
  <2>3. /\ Cardinality(ExecutingCalls \cup {c}) <= MaxActive
        /\ Cardinality(CallsOf(ExecutingCalls, r.conn) \cup {c}) <= MaxActivePerConnection
    <3>1. HeldBy(active, ExecutingCalls)
      BY <1>2, <1>6, <1>7, <2>2 DEF HeldBy
    <3> QED
      BY <1>1, <1>8, <3>1, RoomForOne
  <2>4. ASSUME NEW conn \in Connections
        PROVE  /\ Cardinality({d \in ExecutingCalls' : req'[d].conn = conn}) <= MaxActivePerConnection
               /\ Cardinality({d \in WaitingCalls' : req'[d].conn = conn}) <= MaxInputWaitingPerConnection
    <3>1. /\ Cardinality(CallsOf(ExecutingCalls, conn)) <= MaxActivePerConnection
          /\ Cardinality(CallsOf(WaitingCalls, conn)) <= MaxInputWaitingPerConnection
      BY <1>3
    <3>2. CASE conn = r.conn
      BY <1>2, <1>5, <2>1, <2>3, <3>1, <3>2
    <3>3. CASE conn # r.conn
      BY <1>2, <1>5, <2>1, <3>1, <3>3
    <3> QED
      BY <3>2, <3>3
  <2> QED
    BY <1>3, <2>1, <2>3, <2>4 DEF WithinLimits, ExecutingCalls, WaitingCalls, Connections
<1>9. CASE ~Full(inputWaiting, r, MaxInputWaiting, MaxInputWaitingPerConnection) /\ phase'[c] = "input"
  <2>1. WaitingCalls' = WaitingCalls \cup {c} /\ ExecutingCalls' = ExecutingCalls
    BY <1>9 DEF ExecutingCalls, WaitingCalls, Executing
  <2>2. /\ \A s \in Slots : inputWaiting[s] # NoCall => Slot(req[inputWaiting[s]]) = s
        /\ \A d \in WaitingCalls : \E s \in Slots : inputWaiting[s] = d
    BY DEF EveryCallReachable, WaitingCalls
  <2>3. /\ Cardinality(WaitingCalls \cup {c}) <= MaxInputWaiting
        /\ Cardinality(CallsOf(WaitingCalls, r.conn) \cup {c}) <= MaxInputWaitingPerConnection
    <3>1. HeldBy(inputWaiting, WaitingCalls)
      BY <1>2, <1>6, <1>7, <2>2 DEF HeldBy
    <3> QED
      BY <1>1, <1>9, <3>1, RoomForOne
  <2>4. ASSUME NEW conn \in Connections
        PROVE  /\ Cardinality({d \in ExecutingCalls' : req'[d].conn = conn}) <= MaxActivePerConnection
               /\ Cardinality({d \in WaitingCalls' : req'[d].conn = conn}) <= MaxInputWaitingPerConnection
    <3>1. /\ Cardinality(CallsOf(ExecutingCalls, conn)) <= MaxActivePerConnection
          /\ Cardinality(CallsOf(WaitingCalls, conn)) <= MaxInputWaitingPerConnection
      BY <1>3
    <3>2. CASE conn = r.conn
      BY <1>2, <1>5, <2>1, <2>3, <3>1, <3>2
    <3>3. CASE conn # r.conn
      BY <1>2, <1>5, <2>1, <3>1, <3>3
    <3> QED
      BY <3>2, <3>3
  <2> QED
    BY <1>3, <2>1, <2>3, <2>4 DEF WithinLimits, ExecutingCalls, WaitingCalls, Connections
<1> QED
  BY <1>8, <1>9

LEMMA StepLimits ==
  ASSUME BrokerAssumption, TypeOK, EveryCallReachable, WithinLimits, [Next]_vars
  PROVE  WithinLimits'
<1>1. ASSUME NEW c \in Calls, phase'[c] \notin {"queued", "running", "input"},
             \A d \in Calls \ {c} : phase'[d] = phase[d],
             \/ req' = req
             \/ phase[c] = "idle" /\ \A d \in Calls \ {c} : req'[d] = req[d]
      PROVE  WithinLimits'
  <2>1. ExecutingCalls' \subseteq ExecutingCalls /\ WaitingCalls' \subseteq WaitingCalls
    BY <1>1 DEF ExecutingCalls, WaitingCalls, Executing
  <2>2. \A d \in ExecutingCalls \cup WaitingCalls : req'[d] = req[d]
    BY <1>1 DEF ExecutingCalls, WaitingCalls, Executing
  <2> QED
    BY <2>1, <2>2, LimitsUndisturbed
<1>2. ASSUME NEW c \in Calls, NEW o, Refuse(c, o)
      PROVE  WithinLimits'
  BY <1>1, <1>2 DEF Refuse, TypeOK
<1>3. ASSUME NEW c \in Calls, NEW r \in Requests, Execute(c, r)
      PROVE  WithinLimits'
  <2>1. CASE ExecuteBusy(c, r)
    BY <1>2, <2>1 DEF ExecuteBusy
  <2>2. CASE ExecuteLate(c, r)
    BY <1>2, <2>2 DEF ExecuteLate
  <2>3. CASE ExecuteOtherArguments(c, r)
    BY <1>2, <2>3 DEF ExecuteOtherArguments
  <2>4. CASE ExecuteOverLimit(c, r)
    BY <1>2, <2>4 DEF ExecuteOverLimit
  <2>5. CASE ExecuteJoin(c, r)
    BY <1>1, <2>5 DEF ExecuteJoin, TypeOK
  <2>6. CASE ExecuteAdmit(c, r)
    <3>1. /\ phase[c] = "idle" /\ req' = [req EXCEPT ![c] = r]
          /\ ~Full(active, r, MaxActive, MaxActivePerConnection)
          /\ phase'[c] \in {"queued", "running"} /\ \A d \in Calls \ {c} : phase'[d] = phase[d]
      BY <2>6 DEF ExecuteAdmit, TypeOK
    <3> QED
      BY <3>1, EnterLimits
  <2> QED
    BY <1>3, <2>1, <2>2, <2>3, <2>4, <2>5, <2>6 DEF Execute
<1>4. ASSUME NEW c \in Calls, NEW r \in Requests, InputRefused(c, r)
      PROVE  WithinLimits'
  BY <1>2, <1>4 DEF InputRefused
<1>5. ASSUME NEW c \in Calls, NEW r \in Requests, WaitForInput(c, r)
      PROVE  WithinLimits'
  <2>1. /\ phase[c] = "idle" /\ req' = [req EXCEPT ![c] = r]
        /\ ~Full(inputWaiting, r, MaxInputWaiting, MaxInputWaitingPerConnection)
        /\ phase'[c] = "input" /\ \A d \in Calls \ {c} : phase'[d] = phase[d]
    BY <1>5 DEF WaitForInput, TypeOK
  <2> QED
    BY <2>1, EnterLimits
<1>6. ASSUME NEW c \in Calls, NEW o, SkipAborted(c) \/ Finish(c, o)
      PROVE  WithinLimits'
  BY <1>1, <1>6 DEF SkipAborted, Finish, Settle, TypeOK
<1>7. ASSUME NEW c \in Calls, NEW o \in RunOutcomes, EndInput(c, o)
      PROVE  WithinLimits'
  BY <1>1, <1>7 DEF EndInput, TypeOK
<1>8. ASSUME req' = req, \A d \in Calls : /\ Executing(d)' <=> Executing(d)
                                          /\ phase'[d] = "input" <=> phase[d] = "input"
      PROVE  WithinLimits'
  <2>1. ExecutingCalls' = ExecutingCalls /\ WaitingCalls' = WaitingCalls
    BY <1>8 DEF ExecutingCalls, WaitingCalls
  <2> QED
    BY <1>8, <2>1, LimitsUndisturbed
<1>9. ASSUME NEW c \in Calls, StartMutation(c)
      PROVE  WithinLimits'
  BY <1>8, <1>9 DEF StartMutation, TypeOK, Executing
<1>10. CASE UNCHANGED <<phase, req>>
  BY <1>8, <1>10 DEF Executing
<1>11. ASSUME NEW c \in Calls, DeadlineFires(c)
       PROVE  WithinLimits'
  BY <1>10, <1>11 DEF DeadlineFires
<1>12. ASSUME NEW cs \in SUBSET Calls, Abort(cs)
       PROVE  WithinLimits'
  BY <1>10, <1>12 DEF Abort
<1>13. ASSUME NEW k \in Keys, EntryExpires(k)
       PROVE  WithinLimits'
  BY <1>10, <1>13 DEF EntryExpires
<1>14. CASE UNCHANGED vars
  BY <1>10, <1>14 DEF vars
<1> QED
  BY <1>3, <1>4, <1>5, <1>6, <1>7, <1>9, <1>11, <1>12, <1>13, <1>14, CancelAborts DEF Next

\* The calls that really execute and those that really wait, counted one by one,
\* never exceed the limits, in total and for each connection.
THEOREM LimitsHold == Spec => []WithinLimits
<1>1. Init => WithinLimits
  <2> SUFFICES ASSUME Init PROVE WithinLimits
    OBVIOUS
  <2>1. ExecutingCalls = {} /\ WaitingCalls = {}
    BY DEF Init, ExecutingCalls, WaitingCalls, Executing
  <2>2. Cardinality({}) = 0
    BY FS_EmptySet
  <2>3. \A conn : {c \in {} : req[c].conn = conn} = {}
    OBVIOUS
  <2>4. /\ MaxActive >= 0 /\ MaxInputWaiting >= 0
        /\ MaxActivePerConnection >= 0 /\ MaxInputWaitingPerConnection >= 0
    BY BrokerAssumption DEF BrokerAssumption
  <2> QED
    BY <2>1, <2>2, <2>3, <2>4 DEF WithinLimits, ExecutingCalls, WaitingCalls
<1>2. TypeOK /\ EveryCallReachable /\ WithinLimits /\ [Next]_vars => WithinLimits'
  BY StepLimits, BrokerAssumption
<1> QED
  BY <1>1, <1>2, TypeCorrect, CallsReachable, PTL DEF Spec

-----------------------------------------------------------------------------
(* What a call joins *)

\* An entry of the cache belongs to the effective call of its key.
EntriesEffective == \A k \in Keys : entry[k] # NoCall => Effective(entry[k], k)

\* A call has no outcome before it ends.
PendingIsOpen == \A c \in Calls : phase[c] # "settled" => outcome[c] = "none"

\* A step that adds no entry and touches no call that executes or has settled.
LEMMA EffectiveUndisturbed ==
  ASSUME TypeOK, PendingIsOpen, EntriesEffective, NEW c \in Calls,
         \A d \in Calls \ {c} : /\ phase'[d] = phase[d] /\ req'[d] = req[d]
                                /\ outcome'[d] = outcome[d] /\ turn'[d] = turn[d],
         phase[c] \in {"idle", "input", "joined"},
         \A k \in Keys : entry'[k] \in {entry[k], NoCall}
  PROVE  EntriesEffective'
<1> SUFFICES ASSUME NEW k \in Keys, entry'[k] # NoCall
             PROVE  Effective(entry[k], k)'
  BY DEF EntriesEffective
<1>1. entry'[k] = entry[k] /\ entry[k] \in Calls
  BY DEF TypeOK
<1>2. Effective(entry[k], k)
  BY <1>1 DEF EntriesEffective
<1>3. outcome[c] = "none"
  BY DEF PendingIsOpen
<1>4. entry[k] # c
  BY <1>2, <1>3 DEF Effective, Executing
<1> QED
  BY <1>1, <1>2, <1>4 DEF Effective, Executing

\* A call that may be retried takes the entry of its key with it.
LEMMA SettleEffective ==
  ASSUME BrokerAssumption, TypeOK, EntriesEffective, NEW c \in Calls, NEW o \in RunOutcomes, Settle(c, o)
  PROVE  EntriesEffective'
<1> SUFFICES ASSUME NEW k \in Keys, entry'[k] # NoCall
             PROVE  Effective(entry[k], k)'
  BY DEF EntriesEffective
<1>1. /\ req' = req /\ turn' = turn /\ outcome'[c] = o
      /\ \A d \in Calls \ {c} : phase'[d] = phase[d] /\ outcome'[d] = outcome[d]
      /\ entry' = IF MayRetry(c, o) THEN [entry EXCEPT ![req[c].key] = NoCall] ELSE entry
  BY DEF Settle, TypeOK
<1>2. entry'[k] = entry[k] /\ entry[k] \in Calls
  BY <1>1 DEF TypeOK
<1>3. Effective(entry[k], k)
  BY <1>2 DEF EntriesEffective
<1>4. CASE entry[k] = c
  <2>1. req[c].key = k /\ k # NoKey
    BY <1>3, <1>4 DEF Effective, BrokerAssumption
  <2>2. o \notin Retryable
    BY <1>1, <1>2, <1>4, <2>1 DEF MayRetry, TypeOK, BrokerAssumption
  <2>3. o \in {"ok", "failed"}
    BY <2>2 DEF RunOutcomes
  <2> QED
    BY <1>1, <1>2, <1>3, <1>4, <2>3 DEF Effective
<1>5. CASE entry[k] # c
  BY <1>1, <1>2, <1>3, <1>5 DEF Effective, Executing
<1> QED
  BY <1>4, <1>5

LEMMA AdmitEffective ==
  ASSUME BrokerAssumption, TypeOK, EntriesEffective,
         NEW c \in Calls, NEW r \in Requests, outcome[c] = "none", ExecuteAdmit(c, r)
  PROVE  EntriesEffective'
<1> SUFFICES ASSUME NEW k \in Keys, entry'[k] # NoCall
             PROVE  Effective(entry[k], k)'
  BY DEF EntriesEffective
<1>1. /\ phase[c] = "idle" /\ phase'[c] \in {"queued", "running"} /\ req'[c] = r /\ outcome' = outcome
      /\ \A d \in Calls \ {c} : phase'[d] = phase[d] /\ req'[d] = req[d]
  BY DEF ExecuteAdmit, TypeOK
<1>2. \A d \in Calls \ {c} : turn'[d] = turn[d]
  BY DEF ExecuteAdmit, CacheEntry, CleanupIdempotency, TypeOK
<1>3. entry'[k] = entry[k] \/ (r.key = k /\ entry'[k] = c)
  <2>1. CacheEntry(c, r)
    BY DEF ExecuteAdmit
  <2> DEFINE fresh == Fresh[k]
             now == entry'[k]
  <2>2. fresh = entry[k] \/ fresh = NoCall
    BY DEF Fresh
  <2>3. CASE r.key = NoKey
    <3>1. now = fresh
      BY <2>1, <2>3 DEF CacheEntry, CleanupIdempotency
    <3>2. now # NoCall
      OBVIOUS
    <3> HIDE DEF fresh, now
    <3>3. now = entry[k]
      BY <2>2, <3>1, <3>2
    <3> QED
      BY <3>3 DEF now
  <2>4. CASE r.key # NoKey
    <3>1. entry' = [j \in Keys |-> IF j = r.key THEN c
                                   ELSE IF j \in Overflow(r.key) THEN NoCall ELSE Fresh[j]]
      BY <2>1, <2>4 DEF CacheEntry
    <3>2. k = r.key => now = c
      BY <3>1
    <3>3. k # r.key => now = NoCall \/ now = fresh
      BY <3>1
    <3>4. now # NoCall
      OBVIOUS
    <3> HIDE DEF fresh, now
    <3>5. now = entry[k] \/ (r.key = k /\ now = c)
      BY <2>2, <3>2, <3>3, <3>4
    <3> QED
      BY <3>5 DEF now
  <2> QED
    BY <2>3, <2>4
<1>4. CASE r.key = k /\ entry'[k] = c
  <2> DEFINE n == Cardinality({d \in Calls : turn[d] > 0})
  <2>1. r # NoRequest /\ r.key # NoKey
    BY <1>4 DEF BrokerAssumption
  <2>2. turn' = [turn EXCEPT ![c] = 1 + n]
    BY <2>1 DEF ExecuteAdmit, CacheEntry
  <2>3. n \in Nat
    BY FS_Subset, FS_CardinalityType DEF BrokerAssumption
  <2> HIDE DEF n
  <2>4. turn'[c] > 0
    BY <2>2, <2>3 DEF TypeOK
  <2> QED
    BY <1>1, <1>4, <2>1, <2>4 DEF Effective, Executing
<1>5. CASE entry'[k] = entry[k]
  <2>1. Effective(entry[k], k) /\ entry[k] \in Calls
    BY <1>5 DEF EntriesEffective, TypeOK
  <2>2. entry[k] # c
    BY <1>1, <2>1 DEF Effective, Executing
  <2> QED
    BY <1>1, <1>2, <1>5, <2>1, <2>2 DEF Effective, Executing
<1> QED
  BY <1>3, <1>4, <1>5

LEMMA StepOpen ==
  ASSUME TypeOK, PendingIsOpen, [Next]_vars
  PROVE  PendingIsOpen'
<1>1. ASSUME NEW c \in Calls, NEW o, Refuse(c, o) \/ Settle(c, o) \/ EndInput(c, o)
      PROVE  PendingIsOpen'
  BY <1>1 DEF Refuse, Settle, EndInput, PendingIsOpen, TypeOK
<1>2. ASSUME NEW c \in Calls, NEW r \in Requests, Execute(c, r)
      PROVE  PendingIsOpen'
  <2>1. ExecuteJoin(c, r) \/ ExecuteAdmit(c, r) => PendingIsOpen'
    BY DEF ExecuteJoin, ExecuteAdmit, PendingIsOpen, TypeOK
  <2> QED
    BY <1>1, <1>2, <2>1 DEF Execute, ExecuteBusy, ExecuteLate, ExecuteOtherArguments, ExecuteOverLimit
<1>3. ASSUME NEW c \in Calls, NEW r \in Requests, InputRefused(c, r)
      PROVE  PendingIsOpen'
  BY <1>1, <1>3 DEF InputRefused
<1>4. ASSUME NEW c \in Calls, NEW r \in Requests, WaitForInput(c, r)
      PROVE  PendingIsOpen'
  BY <1>4 DEF WaitForInput, PendingIsOpen, TypeOK
<1>5. ASSUME NEW c \in Calls, NEW o, SkipAborted(c) \/ Finish(c, o)
      PROVE  PendingIsOpen'
  BY <1>1, <1>5 DEF SkipAborted, Finish
<1>6. ASSUME NEW c \in Calls, StartMutation(c)
      PROVE  PendingIsOpen'
  BY <1>6 DEF StartMutation, PendingIsOpen, TypeOK
<1>7. CASE UNCHANGED <<phase, outcome>>
  BY <1>7 DEF PendingIsOpen
<1>8. ASSUME NEW c \in Calls, DeadlineFires(c)
      PROVE  PendingIsOpen'
  BY <1>7, <1>8 DEF DeadlineFires
<1>9. ASSUME NEW cs \in SUBSET Calls, Abort(cs)
      PROVE  PendingIsOpen'
  BY <1>7, <1>9 DEF Abort
<1>10. ASSUME NEW k \in Keys, EntryExpires(k)
       PROVE  PendingIsOpen'
  BY <1>7, <1>10 DEF EntryExpires
<1>11. CASE UNCHANGED vars
  BY <1>7, <1>11 DEF vars
<1> QED
  BY <1>1, <1>2, <1>3, <1>4, <1>5, <1>6, <1>8, <1>9, <1>10, <1>11, CancelAborts DEF Next

LEMMA StepEffective ==
  ASSUME BrokerAssumption, TypeOK, PendingIsOpen, EntriesEffective, [Next]_vars
  PROVE  EntriesEffective'
<1>1. CleanupIdempotency => \A k \in Keys : entry'[k] \in {entry[k], NoCall}
  BY DEF CleanupIdempotency, Fresh
<1>2. ASSUME NEW c \in Calls, NEW o, Refuse(c, o), phase[c] = "idle",
             \A k \in Keys : entry'[k] \in {entry[k], NoCall}
      PROVE  EntriesEffective'
  BY <1>2, EffectiveUndisturbed DEF Refuse, TypeOK
<1>3. ASSUME NEW c \in Calls, NEW r \in Requests, Execute(c, r)
      PROVE  EntriesEffective'
  <2>1. CASE ExecuteBusy(c, r)
    BY <1>1, <1>2, <2>1 DEF ExecuteBusy
  <2>2. CASE ExecuteLate(c, r)
    BY <1>1, <1>2, <2>2 DEF ExecuteLate
  <2>3. CASE ExecuteOtherArguments(c, r)
    BY <1>1, <1>2, <2>3 DEF ExecuteOtherArguments
  <2>4. CASE ExecuteOverLimit(c, r)
    BY <1>1, <1>2, <2>4 DEF ExecuteOverLimit
  <2>5. CASE ExecuteJoin(c, r)
    BY <1>1, <2>5, EffectiveUndisturbed DEF ExecuteJoin, TypeOK
  <2>6. CASE ExecuteAdmit(c, r)
    BY <2>6, AdmitEffective DEF ExecuteAdmit, PendingIsOpen
  <2> QED
    BY <1>3, <2>1, <2>2, <2>3, <2>4, <2>5, <2>6 DEF Execute
<1>4. ASSUME NEW c \in Calls, NEW r \in Requests, InputRefused(c, r)
      PROVE  EntriesEffective'
  BY <1>2, <1>4 DEF InputRefused
<1>5. ASSUME NEW c \in Calls, NEW r \in Requests, WaitForInput(c, r)
      PROVE  EntriesEffective'
  BY <1>5, EffectiveUndisturbed DEF WaitForInput, TypeOK
<1>6. ASSUME NEW c \in Calls, NEW o \in RunOutcomes, EndInput(c, o)
      PROVE  EntriesEffective'
  BY <1>6, EffectiveUndisturbed DEF EndInput, TypeOK
<1>7. ASSUME NEW c \in Calls, SkipAborted(c)
      PROVE  EntriesEffective'
  <2>1. aborted[c] \in RunOutcomes /\ Settle(c, aborted[c])
    BY <1>7 DEF SkipAborted, TypeOK, RunOutcomes
  <2> QED
    BY <2>1, SettleEffective
<1>8. ASSUME NEW c \in Calls, NEW o \in RunOutcomes, Finish(c, o)
       PROVE  EntriesEffective'
  BY <1>8, SettleEffective DEF Finish
<1>9. ASSUME NEW c \in Calls, StartMutation(c)
      PROVE  EntriesEffective'
  <2>1. /\ entry' = entry /\ req' = req /\ outcome' = outcome /\ turn' = turn
        /\ \A d \in Calls : phase[d] \in {"queued", "running"} => phase'[d] \in {"queued", "running"}
    BY <1>9 DEF StartMutation, TypeOK
  <2>2. \A k \in Keys : entry[k] # NoCall => entry[k] \in Calls
    BY DEF TypeOK
  <2> QED
    BY <2>1, <2>2 DEF EntriesEffective, Effective, Executing
<1>10. CASE UNCHANGED <<phase, req, outcome, turn, entry>>
  BY <1>10 DEF EntriesEffective, Effective, Executing
<1>11. ASSUME NEW c \in Calls, DeadlineFires(c)
       PROVE  EntriesEffective'
  BY <1>10, <1>11 DEF DeadlineFires
<1>12. ASSUME NEW cs \in SUBSET Calls, Abort(cs)
       PROVE  EntriesEffective'
  BY <1>10, <1>12 DEF Abort
<1>13. ASSUME NEW k \in Keys, EntryExpires(k)
       PROVE  EntriesEffective'
  BY <1>10, <1>13 DEF EntryExpires
<1>14. CASE UNCHANGED vars
  BY <1>10, <1>14 DEF vars
<1> QED
  BY <1>3, <1>4, <1>5, <1>6, <1>7, <1>9, <1>11, <1>12, <1>13, <1>14, <1>8, CancelAborts DEF Next

\* Only ExecuteJoin lets a call share a promise.
LEMMA StepJoins ==
  ASSUME BrokerAssumption, TypeOK, PendingIsOpen, EntriesEffective, [Next]_vars, NEW c \in Calls, joined'[c] # joined[c]
  PROVE  /\ joined'[c] # c
         /\ Effective(joined'[c], req'[c].key)
         /\ req[joined'[c]].print = req'[c].print
<1>1. ASSUME NEW d \in Calls, NEW r \in Requests, ExecuteJoin(d, r)
      PROVE  /\ joined'[c] # c
             /\ Effective(joined'[c], req'[c].key)
             /\ req[joined'[c]].print = req'[c].print
  <2>1. d = c /\ joined'[c] = CachedCall(r) /\ req'[c] = r /\ phase[c] = "idle"
        /\ CachedCall(r) # NoCall /\ req[CachedCall(r)].print = r.print
    BY <1>1 DEF ExecuteJoin, TypeOK
  <2>2. r.key \in Keys /\ CachedCall(r) = entry[r.key]
    BY <2>1 DEF CachedCall, Fresh, BrokerAssumption
  <2>3. Effective(CachedCall(r), r.key)
    BY <2>1, <2>2 DEF EntriesEffective
  <2>4. CachedCall(r) # c
    BY <2>1, <2>3 DEF Effective, Executing, PendingIsOpen
  <2> QED
    BY <2>1, <2>3, <2>4
<1>2. ASSUME NEW d \in Calls, NEW r \in Requests, Execute(d, r)
      PROVE  ExecuteJoin(d, r)
  BY <1>2 DEF Execute, ExecuteBusy, ExecuteLate, ExecuteOtherArguments, ExecuteOverLimit, ExecuteAdmit, Refuse
<1>3. ASSUME NEW d \in Calls, NEW r \in Requests, InputRefused(d, r) \/ WaitForInput(d, r)
      PROVE  FALSE
  BY <1>3 DEF InputRefused, WaitForInput, Refuse
<1>4. ASSUME NEW d \in Calls, NEW o, SkipAborted(d) \/ Finish(d, o) \/ EndInput(d, o)
      PROVE  FALSE
  BY <1>4 DEF SkipAborted, Finish, EndInput, Settle
<1>5. ASSUME NEW d \in Calls, StartMutation(d) \/ DeadlineFires(d)
      PROVE  FALSE
  BY <1>5 DEF StartMutation, DeadlineFires
<1>6. ASSUME NEW cs \in SUBSET Calls, Abort(cs)
      PROVE  FALSE
  BY <1>6 DEF Abort
<1>7. ASSUME NEW k \in Keys, EntryExpires(k)
      PROVE  FALSE
  BY <1>7 DEF EntryExpires
<1>8. CASE UNCHANGED vars
  BY <1>8 DEF vars
<1> QED
  BY <1>1, <1>2, <1>3, <1>4, <1>5, <1>6, <1>7, <1>8, CancelAborts DEF Next

\* A call shares the promise of the one effect of its key: of another call,
\* admitted under the same key with the same arguments, that still executes or
\* has ended with the key's result, also when age or overflow has lost the key
\* before.  The owner may have been aborted: it is joined until it settles.
THEOREM JoinsShareTheEffect == Spec => JoinsTheEffect
<1>1. Init => PendingIsOpen /\ EntriesEffective
  BY DEF Init, PendingIsOpen, EntriesEffective
<1>2. TypeOK /\ PendingIsOpen /\ EntriesEffective /\ [Next]_vars => (PendingIsOpen /\ EntriesEffective)'
  BY StepOpen, StepEffective, BrokerAssumption
<1>3. TypeOK /\ PendingIsOpen /\ EntriesEffective /\ [Next]_vars =>
        [\A c \in Calls : joined'[c] # joined[c] =>
           LET owner == joined'[c]
           IN  /\ owner # c
               /\ Effective(owner, req'[c].key)
               /\ req[owner].print = req'[c].print]_vars
  BY StepJoins, BrokerAssumption
<1> QED
  BY <1>1, <1>2, <1>3, TypeCorrect, PTL DEF Spec, JoinsTheEffect
=============================================================================
