------------------------------ MODULE TurnOrder ------------------------------
(***************************************************************************)
(* What Pool.claim_turn, finish_turn and park_later promise together: a    *)
(* conversation is one pin, one slot and one copy on disk, so one turn of  *)
(* it runs at a time, and the copy a turn leaves to the park worker counts *)
(* as part of that turn.  Nothing here says how a turn is served: Pool     *)
(* implements it.                                                          *)
(***************************************************************************)
CONSTANTS Turns,     \* one per request, named by its wait ticket
          Convs,     \* the conversations
          NoConv,    \* a request no conversation could be named for
          ConvOf     \* the conversation of each turn

VARIABLE stage       \* how far each turn has come

Stages == {"waiting", "serving", "copying", "over"}

\* The stages in which a turn has its conversation to itself.
Holds(t) == stage[t] \in {"serving", "copying"}

Init == stage = [t \in Turns |-> "waiting"]

\* A turn starts once no other turn of its conversation holds it.
Enter(t) ==
    /\ stage[t] = "waiting"
    /\ \A u \in Turns : Holds(u) /\ ConvOf[u] = ConvOf[t] => ConvOf[t] = NoConv
    /\ stage' = [stage EXCEPT ![t] = "serving"]

\* The client has its reply and the worker has the cache still to copy.
LeaveCopy(t) ==
    /\ stage[t] = "serving"
    /\ ConvOf[t] # NoConv
    /\ stage' = [stage EXCEPT ![t] = "copying"]

\* The turn is refused, abandoned, answered, or its copy has landed.
Finish(t) ==
    /\ stage[t] # "over"
    /\ stage' = [stage EXCEPT ![t] = "over"]

Next == \E t \in Turns : Enter(t) \/ LeaveCopy(t) \/ Finish(t)

Spec == Init /\ [][Next]_stage

\* Two turns of one conversation never hold it together: "Two turns at once
\* corrupt all three" (pool.py, Pool.__init__, on `turns`).
OneTurnAtATime ==
    \A t, u \in Turns :
        Holds(t) /\ Holds(u) /\ ConvOf[t] = ConvOf[u] /\ ConvOf[t] # NoConv => t = u
==============================================================================
