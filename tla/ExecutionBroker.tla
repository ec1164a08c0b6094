--------------------------- MODULE ExecutionBroker ---------------------------
(***************************************************************************)
(* The daemon's ExecutionBroker (daemon/executionBroker.ts): admission,    *)
(* idempotent reuse, per-target serialisation of mutations, input waits,   *)
(* cancellation and deadlines.                                             *)
(*                                                                         *)
(* A call is one invocation of execute() or waitForInput(); its promise is *)
(* pending until the call is "settled".  The function a call runs belongs  *)
(* to its caller: it may end in any way, whether or not it looks at its    *)
(* abort signal.  Steps are the stretches of code between two awaits.      *)
(***************************************************************************)
EXTENDS Naturals, Sequences, FiniteSets

CONSTANTS
  Calls,      \* invocations of execute() and waitForInput()
  Requests,   \* what they may ask: [conn, id, target, key, print, mutates]
  Keys,       \* session-scoped idempotency keys
  NoKey,      \* the request carries no idempotency key
  NoCall,     \* an absent Map entry
  NoRequest,  \* the request of a call not yet made
  MaxActive, MaxActivePerConnection,
  MaxInputWaiting, MaxInputWaitingPerConnection,
  MaxEntries  \* MAX_IDEMPOTENCY_ENTRIES

Slot(r) == <<r.conn, r.id>>
Slots == {Slot(r) : r \in Requests}
Connections == {r.conn : r \in Requests}
Targets == {r.target : r \in Requests}

ASSUME BrokerAssumption ==
  /\ IsFiniteSet(Calls)
  /\ NoCall \notin Calls
  /\ NoRequest \notin Requests
  /\ NoKey \notin Keys
  /\ \A r \in Requests : r.key \in Keys \cup {NoKey} /\ r.mutates \in BOOLEAN
  /\ {MaxActive, MaxActivePerConnection, MaxInputWaiting,
      MaxInputWaitingPerConnection, MaxEntries} \subseteq Nat

VARIABLES
  phase,         \* where each call is
  req,           \* what it asked, once it is admitted
  aborted,       \* the reason its abort signal carries, or "none"
  outcome,       \* how its promise settled, or "none"
  joined,        \* the call whose promise it shares, or NoCall
  active,        \* Map executionKey -> call, an executing call
  inputWaiting,  \* Map executionKey -> call, a call waiting for input
  entry,         \* Map idempotency key -> call whose promise is cached
  expired,       \* keys whose entry has outlived its five minutes
  turn,          \* insertion rank of the cache entry a call made, 0 if none
  chain,         \* per target, the calls whose promises form its mutation tail
  forgotten      \* history: keys whose entry was lost to age or to overflow

vars == <<phase, req, aborted, outcome, joined, active, inputWaiting, entry,
          expired, turn, chain, forgotten>>

Phases == {"idle", "input", "queued", "running", "joined", "settled"}
Outcomes == {"ok", "failed", "cancelled", "deadline", "conflict", "limited"}
Retryable == {"cancelled", "deadline"}

TypeOK ==
  /\ phase \in [Calls -> Phases]
  /\ req \in [Calls -> Requests \cup {NoRequest}]
  /\ \A c \in Calls : phase[c] \notin {"idle", "settled"} => req[c] \in Requests
  /\ aborted \in [Calls -> Retryable \cup {"none"}]
  /\ outcome \in [Calls -> Outcomes \cup {"none"}]
  /\ joined \in [Calls -> Calls \cup {NoCall}]
  /\ active \in [Slots -> Calls \cup {NoCall}]
  /\ inputWaiting \in [Slots -> Calls \cup {NoCall}]
  /\ entry \in [Keys -> Calls \cup {NoCall}]
  /\ expired \subseteq Keys
  /\ turn \in [Calls -> Nat]
  /\ chain \in [Targets -> Seq(Calls)]
  /\ forgotten \subseteq Keys

Init ==
  /\ phase = [c \in Calls |-> "idle"]
  /\ req = [c \in Calls |-> NoRequest]
  /\ aborted = [c \in Calls |-> "none"]
  /\ outcome = [c \in Calls |-> "none"]
  /\ joined = [c \in Calls |-> NoCall]
  /\ active = [s \in Slots |-> NoCall]
  /\ inputWaiting = [s \in Slots |-> NoCall]
  /\ entry = [k \in Keys |-> NoCall]
  /\ expired = {}
  /\ turn = [c \in Calls |-> 0]
  /\ chain = [t \in Targets |-> <<>>]
  /\ forgotten = {}

-----------------------------------------------------------------------------
(* Helpers *)

Used(map) == {s \in DOMAIN map : map[s] # NoCall}
UsedBy(map, conn) == {s \in Used(map) : s[1] = conn}

\* Mutant of Full: one call too many is let in.
FullOffByOne(map, r, total, perConnection) ==
  \/ Cardinality(Used(map)) > total
  \/ Cardinality(UsedBy(map, r.conn)) > perConnection

\* assertCapacity and assertInputWaitCapacity
Full(map, r, total, perConnection) ==
  \/ Cardinality(Used(map)) >= total
  \/ Cardinality(UsedBy(map, r.conn)) >= perConnection

\* Mutant of Busy: execute() and waitForInput() look at one map only.
BusyExecuting(r) == active[Slot(r)] # NoCall

\* The request id is already executing or waiting on this connection.
Busy(r) == active[Slot(r)] # NoCall \/ inputWaiting[Slot(r)] # NoCall

\* The cache as cleanupIdempotency leaves it, which every execute() does first.
Fresh == [k \in Keys |-> IF k \in expired THEN NoCall ELSE entry[k]]
CachedCall(r) == IF r.key = NoKey THEN NoCall ELSE Fresh[r.key]
CleanupIdempotency == /\ entry' = Fresh
                      /\ expired' = {}
                      /\ forgotten' = forgotten \cup expired

\* A call ends before the broker keeps anything of it.
Refuse(c, o) ==
  /\ phase' = [phase EXCEPT ![c] = "settled"]
  /\ outcome' = [outcome EXCEPT ![c] = o]
  /\ UNCHANGED <<req, aborted, joined, active, inputWaiting, turn, chain>>

-----------------------------------------------------------------------------
(* execute(): the checks in the order of the code *)

ExecuteBusy(c, r) ==
  /\ phase[c] = "idle"
  /\ Busy(r)
  /\ CleanupIdempotency
  /\ Refuse(c, "conflict")

\* resolveDeadlineMs: the deadline is malformed or already past.
ExecuteLate(c, r) ==
  /\ phase[c] = "idle"
  /\ ~Busy(r)
  /\ CleanupIdempotency
  /\ Refuse(c, "deadline")

ExecuteOtherArguments(c, r) ==
  /\ phase[c] = "idle"
  /\ ~Busy(r)
  /\ CachedCall(r) # NoCall
  /\ req[CachedCall(r)].print # r.print
  /\ CleanupIdempotency
  /\ Refuse(c, "conflict")

\* The cached promise is returned: no slot, no controller, no deadline.
ExecuteJoin(c, r) ==
  /\ phase[c] = "idle"
  /\ ~Busy(r)
  /\ CachedCall(r) # NoCall
  /\ req[CachedCall(r)].print = r.print
  /\ CleanupIdempotency
  /\ phase' = [phase EXCEPT ![c] = "joined"]
  /\ req' = [req EXCEPT ![c] = r]
  /\ joined' = [joined EXCEPT ![c] = CachedCall(r)]
  /\ UNCHANGED <<aborted, outcome, active, inputWaiting, turn, chain>>

ExecuteOverLimit(c, r) ==
  /\ phase[c] = "idle"
  /\ ~Busy(r)
  /\ CachedCall(r) = NoCall
  /\ Full(active, r, MaxActive, MaxActivePerConnection)
  /\ CleanupIdempotency
  /\ Refuse(c, "limited")

\* trimIdempotency: the oldest other entry makes room for a new one.
Oldest(k) == {v \in Keys \ {k} :
                /\ Fresh[v] # NoCall
                /\ \A w \in Keys \ {k} :
                     Fresh[w] # NoCall => turn[Fresh[v]] <= turn[Fresh[w]]}
Overflow(k) == IF Cardinality({v \in Keys \ {k} : Fresh[v] # NoCall}) >= MaxEntries
               THEN Oldest(k)
               ELSE {}

CacheEntry(c, r) ==
  IF r.key = NoKey
  THEN CleanupIdempotency /\ UNCHANGED turn
  ELSE /\ entry' = [k \in Keys |-> IF k = r.key THEN c
                                   ELSE IF k \in Overflow(r.key) THEN NoCall
                                   ELSE Fresh[k]]
       /\ turn' = [turn EXCEPT ![c] = 1 + Cardinality({d \in Calls : turn[d] > 0})]
       /\ expired' = {}
       /\ forgotten' = forgotten \cup expired \cup Overflow(r.key)

\* A read starts at once; a mutation takes its place in the target's chain.
ExecuteAdmit(c, r) ==
  /\ phase[c] = "idle"
  /\ ~Busy(r)
  /\ CachedCall(r) = NoCall
  /\ ~Full(active, r, MaxActive, MaxActivePerConnection)
  /\ active' = [active EXCEPT ![Slot(r)] = c]
  /\ req' = [req EXCEPT ![c] = r]
  /\ phase' = [phase EXCEPT ![c] = IF r.mutates THEN "queued" ELSE "running"]
  /\ chain' = IF r.mutates THEN [chain EXCEPT ![r.target] = Append(@, c)] ELSE chain
  /\ CacheEntry(c, r)
  /\ UNCHANGED <<aborted, outcome, joined, inputWaiting>>

Execute(c, r) ==
  \/ ExecuteBusy(c, r)
  \/ ExecuteLate(c, r)
  \/ ExecuteOtherArguments(c, r)
  \/ ExecuteJoin(c, r)
  \/ ExecuteOverLimit(c, r)
  \/ ExecuteAdmit(c, r)

-----------------------------------------------------------------------------
(* The life of an admitted call *)

\* Mutants of PreviousReleased: a failed predecessor is not caught, and a lock
\* that any waiter may take.
PreviousSucceeded(c) ==
  LET q == chain[req[c].target]
  IN  \A i, j \in DOMAIN q :
        i < j /\ q[j] = c => phase[q[i]] = "settled" /\ outcome[q[i]] = "ok"
NobodyRuns(c) ==
  \A d \in Calls : phase[d] = "running" => req[d].target # req[c].target

\* "await previous": every call chained before this one has released.
PreviousReleased(c) ==
  LET q == chain[req[c].target]
  IN  \A i, j \in DOMAIN q : i < j /\ q[j] = c => phase[q[i]] = "settled"

\* Mutant of DropOwnTail: the tail is deleted whoever it belongs to.
DropAnyTail(c) == [chain EXCEPT ![req[c].target] = <<>>]

\* "if (this.mutationTails.get(targetKey) === tail) delete"
DropOwnTail(c) ==
  LET q == chain[req[c].target]
  IN  IF q # <<>> /\ q[Len(q)] = c
      THEN [chain EXCEPT ![req[c].target] = <<>>]
      ELSE chain

\* Mutants of MayRetry: every error, or none, frees the idempotency key.
AnyError(c, o) == req[c].key # NoKey /\ o # "ok"
NoError(c, o) == FALSE

\* isRetryableTerminalError of a call that made a cache entry
MayRetry(c, o) == req[c].key # NoKey /\ o \in Retryable

\* The finally blocks, and the catch handler that drops a retryable entry.
\* The entry is dropped by its key, whichever call it belongs to by then.
Settle(c, o) ==
  LET k == req[c].key
      drop == MayRetry(c, o)
  IN  /\ phase' = [phase EXCEPT ![c] = "settled"]
      /\ outcome' = [outcome EXCEPT ![c] = o]
      /\ active' = [active EXCEPT ![Slot(req[c])] = NoCall]
      /\ chain' = IF req[c].mutates THEN DropOwnTail(c) ELSE chain
      /\ entry' = IF drop THEN [entry EXCEPT ![k] = NoCall] ELSE entry
      /\ expired' = IF drop THEN expired \ {k} ELSE expired
      /\ UNCHANGED <<req, aborted, joined, inputWaiting, turn, forgotten>>

\* Mutant of StartMutation: the signal is not looked at after the wait.
StartUnchecked(c) ==
  /\ phase[c] = "queued"
  /\ PreviousReleased(c)
  /\ phase' = [phase EXCEPT ![c] = "running"]
  /\ UNCHANGED <<req, aborted, outcome, joined, active, inputWaiting, entry,
                 expired, turn, chain, forgotten>>

StartMutation(c) ==
  /\ phase[c] = "queued"
  /\ PreviousReleased(c)
  /\ aborted[c] = "none"
  /\ phase' = [phase EXCEPT ![c] = "running"]
  /\ UNCHANGED <<req, aborted, outcome, joined, active, inputWaiting, entry,
                 expired, turn, chain, forgotten>>

\* throwIfAborted once the predecessor has released.
SkipAborted(c) ==
  /\ phase[c] = "queued"
  /\ PreviousReleased(c)
  /\ aborted[c] # "none"
  /\ Settle(c, aborted[c])

\* request.run(signal) ends.  It may report a cancellation or an exceeded
\* deadline of its own (a browser hop has its own timer), and it may succeed
\* although its signal was aborted.
Finish(c, o) ==
  /\ phase[c] = "running"
  /\ Settle(c, o)

DeadlineFires(c) ==
  /\ phase[c] \in {"queued", "running"}
  /\ aborted[c] = "none"
  /\ aborted' = [aborted EXCEPT ![c] = "deadline"]
  /\ UNCHANGED <<phase, req, outcome, joined, active, inputWaiting, entry,
                 expired, turn, chain, forgotten>>

\* Five minutes have passed since the entry was made: by then its call has
\* settled or its deadline timer (at most two minutes) has fired.
EntryExpires(k) ==
  /\ entry[k] # NoCall
  /\ k \notin expired
  /\ phase[entry[k]] = "settled" \/ aborted[entry[k]] # "none"
  /\ expired' = expired \cup {k}
  /\ UNCHANGED <<phase, req, aborted, outcome, joined, active, inputWaiting,
                 entry, turn, chain, forgotten>>

-----------------------------------------------------------------------------
(* waitForInput() *)

InputRefused(c, r) ==
  /\ phase[c] = "idle"
  /\ \/ Busy(r) /\ Refuse(c, "conflict")
     \/ /\ ~Busy(r)
        /\ Full(inputWaiting, r, MaxInputWaiting, MaxInputWaitingPerConnection)
        /\ Refuse(c, "limited")
  /\ UNCHANGED <<entry, expired, forgotten>>

WaitForInput(c, r) ==
  /\ phase[c] = "idle"
  /\ ~Busy(r)
  /\ ~Full(inputWaiting, r, MaxInputWaiting, MaxInputWaitingPerConnection)
  /\ inputWaiting' = [inputWaiting EXCEPT ![Slot(r)] = c]
  /\ phase' = [phase EXCEPT ![c] = "input"]
  /\ req' = [req EXCEPT ![c] = r]
  /\ UNCHANGED <<aborted, outcome, joined, active, entry, expired, turn, chain,
                 forgotten>>

EndInput(c, o) ==
  /\ phase[c] = "input"
  /\ phase' = [phase EXCEPT ![c] = "settled"]
  /\ outcome' = [outcome EXCEPT ![c] = o]
  /\ inputWaiting' = [inputWaiting EXCEPT ![Slot(req[c])] = NoCall]
  /\ UNCHANGED <<req, aborted, joined, active, entry, expired, turn, chain,
                 forgotten>>

-----------------------------------------------------------------------------
(* cancel() and cancelConnection() *)

\* The first reason an abort signal is given is the one it keeps.
Abort(cs) ==
  /\ \E c \in cs : aborted[c] = "none"
  /\ aborted' = [c \in Calls |-> IF c \in cs /\ aborted[c] = "none"
                                 THEN "cancelled" ELSE aborted[c]]
  /\ UNCHANGED <<phase, req, outcome, joined, active, inputWaiting, entry,
                 expired, turn, chain, forgotten>>

Cancel(s) ==
  LET c == IF active[s] # NoCall THEN active[s] ELSE inputWaiting[s]
  IN  Abort({c} \ {NoCall})

CancelConnection(conn) ==
  Abort({active[s] : s \in UsedBy(active, conn)}
          \cup {inputWaiting[s] : s \in UsedBy(inputWaiting, conn)})

-----------------------------------------------------------------------------
RunOutcomes == {"ok", "failed"} \cup Retryable

Next ==
  \/ \E c \in Calls, r \in Requests :
       Execute(c, r) \/ InputRefused(c, r) \/ WaitForInput(c, r)
  \/ \E c \in Calls : StartMutation(c) \/ SkipAborted(c) \/ DeadlineFires(c)
  \/ \E c \in Calls, o \in RunOutcomes : Finish(c, o) \/ EndInput(c, o)
  \/ \E k \in Keys : EntryExpires(k)
  \/ \E s \in Slots : Cancel(s)
  \/ \E conn \in Connections : CancelConnection(conn)

\* A resolved promise runs its continuation, and what a call runs ends: a
\* browser hop is bounded by its own timer of at most 90 seconds.
Fairness ==
  \A c \in Calls : /\ WF_vars(StartMutation(c) \/ SkipAborted(c))
                   /\ WF_vars(\E o \in RunOutcomes : Finish(c, o))

Spec == Init /\ [][Next]_vars
FairSpec == Spec /\ Fairness
-----------------------------------------------------------------------------
(* Properties *)

Executing(c) == phase[c] \in {"queued", "running"}
MutatesOn(c, t) == req[c] # NoRequest /\ req[c].mutates /\ req[c].target = t

\* Two mutations of one target never run at the same time, whatever was
\* cancelled, timed out or failed before them: the tail of a target is only
\* removed by the call that is still last in it (runMutationSerially).
MutationExclusion ==
  \A c, d \in Calls : \A t \in Targets :
    /\ phase[c] = "running" /\ MutatesOn(c, t)
    /\ phase[d] = "running" /\ MutatesOn(d, t)
    => c = d

\* The inductive invariant behind MutationExclusion: a target's chain holds each
\* of its unsettled mutations once, and all the calls before a running one have
\* settled.
ChainMembers ==
  \A t \in Targets : \A i \in DOMAIN chain[t] :
    MutatesOn(chain[t][i], t) /\ phase[chain[t][i]] \in {"queued", "running", "settled"}
ChainOnce ==
  \A t \in Targets : \A i, j \in DOMAIN chain[t] : chain[t][i] = chain[t][j] => i = j
ChainComplete ==
  \A c \in Calls : Executing(c) /\ req[c].mutates =>
    \E i \in DOMAIN chain[req[c].target] : chain[req[c].target][i] = c
RunningAfterSettled ==
  \A t \in Targets : \A i, j \in DOMAIN chain[t] :
    i < j /\ phase[chain[t][j]] = "running" => phase[chain[t][i]] = "settled"
ChainInv == ChainMembers /\ ChainOnce /\ ChainComplete /\ RunningAfterSettled

\* Every pending call, and nothing else, is held by exactly one of the two maps
\* under its own key: cancel() reaches each of them and no slot is leaked or
\* taken over by another call with the same request id.
EveryCallReachable ==
  /\ \A c \in Calls : Executing(c) <=> \E s \in Slots : active[s] = c
  /\ \A c \in Calls : phase[c] = "input" <=> \E s \in Slots : inputWaiting[s] = c
  /\ \A s \in Slots :
       /\ active[s] # NoCall => Slot(req[active[s]]) = s
       /\ inputWaiting[s] # NoCall => Slot(req[inputWaiting[s]]) = s
       /\ active[s] = NoCall \/ inputWaiting[s] = NoCall

\* The calls that are really pending, counted without the maps, stay within the
\* limits, in total and for each connection.
WithinLimits ==
  LET executing == {c \in Calls : Executing(c)}
      waiting == {c \in Calls : phase[c] = "input"}
      Of(calls, conn) == {c \in calls : req[c].conn = conn}
  IN  /\ Cardinality(executing) <= MaxActive
      /\ Cardinality(waiting) <= MaxInputWaiting
      /\ \A conn \in Connections :
           /\ Cardinality(Of(executing, conn)) <= MaxActivePerConnection
           /\ Cardinality(Of(waiting, conn)) <= MaxInputWaitingPerConnection

\* While the cache has not lost the key to age or to overflow, at most one of
\* the calls admitted under an idempotency key is still executing or has ended
\* with a result that must not be produced twice.
Effective(c, k) ==
  /\ req[c] # NoRequest /\ req[c].key = k /\ turn[c] > 0
  /\ Executing(c) \/ outcome[c] \in {"ok", "failed"}
OneEffectPerKey ==
  \A k \in Keys \ forgotten : \A c, d \in Calls :
    Effective(c, k) /\ Effective(d, k) => c = d

\* The inductive invariant behind OneEffectPerKey: only admitted calls have a
\* place in the cache, every executing call with a key has one, and a key that
\* was not lost leads to its effective call.
KeyInv ==
  /\ \A c \in Calls : phase[c] \in {"idle", "input", "joined"} => turn[c] = 0
  /\ \A c \in Calls : Executing(c) /\ req[c].key # NoKey => turn[c] > 0
  /\ \A k \in Keys \ forgotten : \A c \in Calls : Effective(c, k) => entry[k] = c

\* A call that joins a cached promise joins the one effect of its key: the call
\* it shares was admitted under the same key with the same arguments, and still
\* executes or has ended with the result the key stands for.  Such a call may
\* have been cancelled or be past its deadline as long as it has not settled:
\* execute() looks at the entry, not at the signal of its owner, and the entry
\* goes only when the owner's promise is rejected.
JoinsTheEffect ==
  [][\A c \in Calls :
       joined'[c] # joined[c] =>
         LET owner == joined'[c]
         IN  /\ owner # c
             /\ Effective(owner, req'[c].key)
             /\ req[owner].print = req'[c].print]_vars

\* What the code does not promise: that nobody joins a call already aborted.
JoinsUnaborted ==
  [][\A c \in Calls :
       joined'[c] # joined[c] => aborted[joined'[c]] = "none"]_vars

\* A queued mutation whose caller has cancelled it, or whose deadline has
\* passed, never starts.
AbortedNeverStarts ==
  [][\A c \in Calls : phase[c] = "queued" /\ aborted[c] # "none"
                        => phase'[c] # "running"]_vars

\* An entry of the idempotency cache disappears because it has expired, because
\* the cache overflows, or because the call it belongs to may be retried; no
\* other call takes it away ("caches matching results for five minutes").
EntryKeptForItsCall ==
  [][\A k \in Keys :
       entry[k] # NoCall /\ entry'[k] # entry[k] =>
         \/ k \in expired
         \/ k \in forgotten' \ forgotten
         \/ outcome'[entry[k]] \in Retryable]_vars

\* Every admitted call settles: cancelled calls in the middle of a chain pass
\* the turn on, and no mutation waits forever behind them.
EveryCallSettles == \A c \in Calls : Executing(c) ~> phase[c] = "settled"

\* The first n calls of a chain have had their turn, and no others: turns are
\* taken in the order in which the promises were chained.
Served(t, n) ==
  /\ n \in 0 .. Len(chain[t])
  /\ \A i \in DOMAIN chain[t] : phase[chain[t][i]] = "queued" <=> i > n
TurnsInOrder == \A t \in Targets : \E n \in 0 .. Len(chain[t]) : Served(t, n)

\* What is left of a line q when those at its beginning are done.
Behind(q, done) ==
  LET past == {i \in DOMAIN q : q[i] \in done}
      served == IF past = {} THEN 0 ELSE CHOOSE i \in past : \A j \in past : j <= i
  IN  SubSeq(q, served + 1, Len(q))

\* The chains of promises implement one first-in first-out line per target.
QueuedOn(t) == Behind(chain[t], {c \in Calls : phase[c] # "queued"})
RunningOn(t) == {c \in Calls : phase[c] = "running" /\ MutatesOn(c, t)}
HolderOf(t) == IF RunningOn(t) = {} THEN NoCall ELSE CHOOSE c \in RunningOn(t) : TRUE

Serial == INSTANCE SerialMutations WITH waiting <- [t \in Targets |-> QueuedOn(t)],
                                        holder <- [t \in Targets |-> HolderOf(t)]
SerialSpec == Serial!Spec

\* The part of it that says what may happen, without what must.
SerialSafety == Serial!Init /\ [][Serial!Next]_Serial!vars
=============================================================================
