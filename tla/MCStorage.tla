------------------------------- MODULE MCStorage -------------------------------
(***************************************************************************)
(* What is written behind the back of those who change it: the state store *)
(* of the daemon and the selected tab of the extension, checked side by    *)
(* side. A behaviour is one of the two.                                    *)
(***************************************************************************)
EXTENDS StateStore, TargetSelection

CONSTANTS e1, e2,     \* audit events
          b1, b2,     \* tabs
          k1, k2,     \* selections by hand
          MaxFaults   \* of the tabs and the worker together, beside a tool

VARIABLE watched   \* what this behaviour is about

StorePart == watched = "store" /\ Next

\* A tool beside one selection by hand, and two of those without a tool.
Few == selectionFaults.fronts + selectionFaults.closings + selectionFaults.stops <= MaxFaults
BesideTool == Few /\ At(k2, {"idle"})
WithoutTool == \A j \in Lent : At(j, {"idle"})
SelectionPart ==
    \/ watched = "tool" /\ SelectionNext /\ BesideTool'
    \/ watched = "picks" /\ SelectionNext /\ WithoutTool'

\* The tabs are alike: the first one is in front.
StorageInit ==
    /\ watched \in {"store", "tool", "picks"}
    /\ Init /\ SelectionInit /\ front = b1

StorageNext ==
    \/ StorePart /\ UNCHANGED <<watched, selectionVars>>
    \/ SelectionPart /\ UNCHANGED <<watched, vars>>

\* No fair action of the store is enabled in its initial state.
StorageSpec == StorageInit /\ [][StorageNext]_<<watched, vars, selectionVars>> /\ Fairness
=============================================================================
