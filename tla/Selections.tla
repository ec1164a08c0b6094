------------------------------ MODULE Selections ------------------------------
(***************************************************************************)
(* Array.prototype.filter and flat, for the queues of the modules.         *)
(***************************************************************************)
EXTENDS Naturals, Sequences

\* The members of q at the positions in kept, in their order.
Filtered(q, kept) ==
  LET upTo[n \in 0 .. Len(q)] ==
        IF n = 0 THEN <<>>
        ELSE IF n \in kept THEN Append(upTo[n - 1], q[n]) ELSE upTo[n - 1]
  IN  upTo[Len(q)]

\* The sequences of parts, one behind the other.
Flattened(parts) ==
  LET upTo[n \in 0 .. Len(parts)] == IF n = 0 THEN <<>> ELSE upTo[n - 1] \o parts[n]
  IN  upTo[Len(parts)]
=============================================================================
