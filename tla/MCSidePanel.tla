------------------------------ MODULE MCSidePanel ------------------------------
(***************************************************************************)
(* The parts of the side panel and of the extension that are checked side  *)
(* by side, the approval of tools with task grants among them: each        *)
(* behaviour is a behaviour of one of them, the others stay as they start. *)
(***************************************************************************)
EXTENDS MCToolApproval, PanelRuns, ConversationMemory, ModelContext

\* Earlier turns, the last with a tool result that was not answered.
TwoTurns == {<<"question", "answer", "question", "answer", "priorTool">>}

\* Where the other parts leave the request to the model.
Shortest == CHOOSE o \in Openings : TRUE
SmallestWindow == Min(Budgets)

VARIABLE watched   \* the part this behaviour is about

Approval   == watched = "approval" /\ Next
PanelPart  == watched = "panel" /\ PanelAppNext
MemoryPart == watched = "memory" /\ MemoryNext
ContextPart == watched = "context" /\ ContextNext

SidePanelInit ==
    /\ watched \in {"approval", "panel", "memory", "context"}
    /\ Init /\ PanelAppInit /\ MemoryInit /\ ContextInit
    /\ watched # "context" => opening = Shortest /\ window = SmallestWindow

SidePanelNext ==
    \/ Approval /\ UNCHANGED <<watched, panelAppVars, memoryVars, contextVars>>
    \/ PanelPart /\ UNCHANGED <<watched, vars, memoryVars, contextVars>>
    \/ MemoryPart /\ UNCHANGED <<watched, vars, panelAppVars, contextVars>>
    \/ ContextPart /\ UNCHANGED <<watched, vars, panelAppVars, memoryVars>>

SidePanelSpec ==
    SidePanelInit /\ [][SidePanelNext]_<<watched, vars, panelAppVars, memoryVars, contextVars>>
=============================================================================
