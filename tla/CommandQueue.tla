------------------------------ MODULE CommandQueue ------------------------------
(* What the runner does to its queued commands besides pushing and applying them. *)
EXTENDS Naturals, Sequences

\* The queue q without the commands in C (Array.filter).
Without(q, C) ==
  LET kept[i \in 0..Len(q)] ==
        IF i = 0 THEN <<>>
        ELSE IF q[i] \in C THEN kept[i - 1] ELSE Append(kept[i - 1], q[i])
  IN kept[Len(q)]
==================================================================================
