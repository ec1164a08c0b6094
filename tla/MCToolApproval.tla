---------------------------- MODULE MCToolApproval ----------------------------
(***************************************************************************)
(* Small instances of ToolApproval.                                        *)
(***************************************************************************)
EXTENDS ToolApproval

CONSTANTS c1, c2,   \* calls
          p1, p2,   \* side panels
          t1, n1,   \* a task and a client
          o1, o2    \* origins

OneTask == [c \in Calls |-> t1]
OneClient == [c \in Calls |-> n1]
Origins == [d \in Pages |-> IF d = 0 THEN o1 ELSE o2]
=============================================================================
