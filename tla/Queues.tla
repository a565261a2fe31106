-------------------------------- MODULE Queues --------------------------------
(***************************************************************************)
(* Filtering of the queues and ordered maps the pool keeps, in a form the  *)
(* provers can unfold: of SelectSeq they know nothing.                     *)
(***************************************************************************)
EXTENDS Integers, Sequences, Functions

\* The members of q that are in S, in their order.
Pick(q, S) ==
    LET picked[n \in 0..Len(q)] ==
            IF n = 0 THEN <<>>
            ELSE IF q[n] \in S THEN Append(picked[n - 1], q[n])
            ELSE picked[n - 1]
    IN  picked[Len(q)]

\* The others.
Without(q, S) == Pick(q, Range(q) \ S)
===============================================================================
