-------------------------------- MODULE Stream --------------------------------
(***************************************************************************)
(* What the client of a streamed reply is promised: the events of the      *)
(* reply in their order and each once, keep-alives aside, and then one end *)
(* of the stream.  An end without an error comes after the last event.     *)
(***************************************************************************)
EXTENDS Naturals, Sequences

CONSTANT Whole     \* SUBSET Seq(events): what the whole reply may be

VARIABLES
    reply,    \* the reply of this stream
    said,     \* the events the client was sent
    over      \* "no", "ended", "failed", or "cut": the connection is lost

vars == <<reply, said, over>>

Init == reply \in Whole /\ said = <<>> /\ over = "no"

\* A frame carries one event or more.
Say == /\ over = "no"
       /\ \E n \in (Len(said) + 1)..Len(reply) : said' = SubSeq(reply, 1, n)
       /\ UNCHANGED <<reply, over>>

Ended == over = "no" /\ said = reply /\ over' = "ended" /\ UNCHANGED <<reply, said>>

Failed == over = "no" /\ over' = "failed" /\ UNCHANGED <<reply, said>>

Cut == over = "no" /\ over' = "cut" /\ UNCHANGED <<reply, said>>

Next == Say \/ Ended \/ Failed \/ Cut

Spec == Init /\ [][Next]_vars
===============================================================================
