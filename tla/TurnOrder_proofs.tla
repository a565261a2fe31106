-------------------------- MODULE TurnOrder_proofs --------------------------
(***************************************************************************)
(* TurnOrder keeps one turn of a conversation at a time.                   *)
(***************************************************************************)
EXTENDS TurnOrder, TLAPS

\* Of each conversation at most one turn holds it, whatever the number of
\* turns: what claim_turn, finish_turn and the ticket of a queued copy are for.
THEOREM OneTurn == Spec => []OneTurnAtATime
<1> DEFINE Inv == stage \in [Turns -> Stages] /\ OneTurnAtATime
<1>1. Init => Inv
  BY DEF Init, Inv, Stages, OneTurnAtATime, Holds
<1>2. Inv /\ [Next]_stage => Inv'
  <2> SUFFICES ASSUME Inv, [Next]_stage PROVE Inv'
    OBVIOUS
  <2>1. ASSUME NEW t \in Turns, Enter(t) PROVE Inv'
    BY <2>1 DEF Inv, Enter, Stages, OneTurnAtATime, Holds
  <2>2. ASSUME NEW t \in Turns, LeaveCopy(t) PROVE Inv'
    BY <2>2 DEF Inv, LeaveCopy, Stages, OneTurnAtATime, Holds
  <2>3. ASSUME NEW t \in Turns, Finish(t) PROVE Inv'
    BY <2>3 DEF Inv, Finish, Stages, OneTurnAtATime, Holds
  <2>4. CASE UNCHANGED stage
    BY <2>4 DEF Inv, OneTurnAtATime, Holds
  <2> QED
    BY <2>1, <2>2, <2>3, <2>4 DEF Next
<1>3. Inv => OneTurnAtATime
  OBVIOUS
<1> QED
  BY <1>1, <1>2, <1>3, PTL DEF Spec
=============================================================================
