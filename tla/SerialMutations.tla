--------------------------- MODULE SerialMutations ---------------------------
(***************************************************************************)
(* What the execution broker promises about operations that mutate a       *)
(* browser target: per target, one operation at a time, in the order in    *)
(* which they were accepted.  An operation that is given up while it waits *)
(* leaves when its turn comes, without ever holding the target.            *)
(***************************************************************************)
EXTENDS Sequences

CONSTANTS Calls,     \* operations
          Targets,   \* browser targets
          NoCall     \* nobody holds the target

VARIABLES waiting,   \* [Targets -> Seq(Calls)], accepted and not yet started
          holder     \* [Targets -> Calls \cup {NoCall}]

vars == <<waiting, holder>>

Init == /\ waiting = [t \in Targets |-> <<>>]
        /\ holder = [t \in Targets |-> NoCall]

\* An operation joins the line of its target.
Accept(t, c) ==
  /\ waiting' = [waiting EXCEPT ![t] = Append(@, c)]
  /\ UNCHANGED holder

\* The first operation in line gets a free target ...
Grant(t) ==
  /\ holder[t] = NoCall
  /\ waiting[t] # <<>>
  /\ holder' = [holder EXCEPT ![t] = Head(waiting[t])]
  /\ waiting' = [waiting EXCEPT ![t] = Tail(@)]

\* ... or leaves without it, having been cancelled or timed out.
GiveUp(t) ==
  /\ holder[t] = NoCall
  /\ waiting[t] # <<>>
  /\ waiting' = [waiting EXCEPT ![t] = Tail(@)]
  /\ UNCHANGED holder

Release(t) ==
  /\ holder[t] # NoCall
  /\ holder' = [holder EXCEPT ![t] = NoCall]
  /\ UNCHANGED waiting

Next == \E t \in Targets :
          \/ \E c \in Calls : Accept(t, c)
          \/ Grant(t)
          \/ GiveUp(t)
          \/ Release(t)

\* Nobody holds a target forever, and a free target does not idle while
\* somebody waits for it.
Fairness == \A t \in Targets : /\ WF_vars(Grant(t) \/ GiveUp(t))
                               /\ WF_vars(Release(t))

Spec == Init /\ [][Next]_vars /\ Fairness
=============================================================================
