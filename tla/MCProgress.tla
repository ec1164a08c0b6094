------------------------------ MODULE MCProgress ------------------------------
(***************************************************************************)
(* The liveness of agent runs, of the request proxy and of approvals,      *)
(* checked side by side: a behaviour is one of the three.                  *)
(***************************************************************************)
EXTENDS DaemonRuns, DebuggerProxy, MCToolApproval

VARIABLE following   \* the part this behaviour is about

progressVars == <<following, runsVars, proxyVars, vars>>

Agents == following = "runs" /\ RunsNext
Proxy  == following = "proxy" /\ ProxyNext
Decision == following = "approval" /\ Next

ProgressInit ==
    /\ following \in {"runs", "proxy", "approval"}
    /\ RunsInit /\ ProxyInit /\ Init
    /\ following # "proxy" => proxyEnabled = FALSE /\ hasRules = FALSE
ProgressNext ==
    \/ Agents /\ UNCHANGED <<following, proxyVars, vars>>
    \/ Proxy /\ UNCHANGED <<following, runsVars, vars>>
    \/ Decision /\ UNCHANGED <<following, runsVars, proxyVars>>

\* No fair action of a part is enabled in its initial states, so the parts that are not
\* followed restrict nothing.
ProgressSpec ==
    /\ ProgressInit /\ [][ProgressNext]_progressVars
    /\ RunsFairness /\ ProxyFairness /\ Fairness
=============================================================================
