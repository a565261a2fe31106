------------------------------ MODULE MCOpenings ------------------------------
\* Instances of Openings for TLC.
EXTENDS Openings, TLC

CONSTANTS t1, t2, t3, t4, t5, t6, k1, k2, l1, l2, l3, x, y, z

\* Three sessions of one system prompt, one of another, and two with none.
TwoBases ==
    [t \in Requests |-> CASE t \in {t1, t2, t3} -> k1 [] t = t4 -> k2 [] OTHER -> NoKey]
SameBase == [t \in Requests |-> k1]

LeadOfEach ==
    [t \in Requests |-> CASE t \in {t1, t2, t3} -> l1 [] t = t4 -> l2 [] OTHER -> l3]

\* t1 and t2 share two lines, and t3 one.
Messages == [t \in Requests |-> CASE t = t1 -> <<x, x, y>>
                                  [] t = t2 -> <<x, x, z>>
                                  [] t \in {t3, t5} -> <<x, y>>
                                  [] OTHER -> <<>>]
NoMessages == [t \in Requests |-> <<>>]

NoneAdopted == <<>>
OneAdopted == <<k1>>
=============================================================================
