-------------------------- MODULE MCExecutionBroker --------------------------
(***************************************************************************)
(* Small instances of ExecutionBroker, one set of requests per question.   *)
(***************************************************************************)
EXTENDS ExecutionBroker, TLC

CONSTANTS c1, c2, c3, c4,   \* calls
          n1, n2,           \* connections
          t1, t2,           \* targets
          k1, k2            \* idempotency keys

Symmetry == Permutations(Calls)

\* Where symmetry is unsound (liveness), calls are made in the order of their
\* names; every behaviour is one of these up to renaming the calls.
CallOrder == <<c1, c2, c3, c4>>
InOrder == \A i, j \in {n \in DOMAIN CallOrder : CallOrder[n] \in Calls} :
             i < j /\ phase'[CallOrder[j]] # "idle" => phase'[CallOrder[i]] # "idle"
OrderedSpec == Init /\ [][Next /\ InOrder]_vars /\ Fairness

Request(conn, id, target, key, print, mutates) ==
  [conn |-> conn, id |-> id, target |-> target, key |-> key, print |-> print,
   mutates |-> mutates]

\* Mutations of two targets, three of them of the same one.
LineRequests == {Request(n1, 1, t1, NoKey, 1, TRUE), Request(n1, 2, t1, NoKey, 1, TRUE),
                 Request(n1, 3, t1, NoKey, 1, TRUE), Request(n1, 3, t2, NoKey, 1, TRUE)}

\* Retries of one key under two request ids, once with other arguments; a
\* second key that evicts the first; and a connection that uses the same ids.
TableRequests == {Request(n1, 1, t1, k1, 1, FALSE), Request(n1, 2, t1, k1, 1, FALSE),
                  Request(n1, 2, t1, k1, 2, FALSE), Request(n1, 3, t1, k2, 1, FALSE),
                  Request(n2, 1, t2, NoKey, 1, TRUE)}
=============================================================================
