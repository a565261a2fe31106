------------------------------- MODULE MCPool -------------------------------
\* Instances of Pool for TLC.
EXTENDS Pool, TLC

CONSTANTS c1, c2, t1, t2, t3, t4, t5, cpu0, cpu1, gpu, o1, o2

\* Two turns of one conversation, one of another, and the rest of none known.
ConvOfEach ==
    [t \in Turns |-> CASE t \in {t1, t2} -> c1 [] t = t3 -> c2 [] OTHER -> NoConv]

SizeOf == [t \in Turns |-> 2]
CtxOf == [b \in Backends |-> 2]

OneOpening == [t \in Turns |-> o1]
\* The second turn of c1 changes its opening.
NewOpening == [t \in Turns |-> IF t = t2 THEN o2 ELSE o1]

ReadsOnOne == [t \in Turns |-> {cpu0}]
ReadsAll == [t \in Turns |-> Backends]
TwoReaders == [t \in Turns |-> IF t = t1 THEN {cpu0} ELSE {cpu1}]
OtherReader == [t \in Turns |-> IF t = t2 THEN {cpu1} ELSE {cpu0}]

OneSlot == [b \in Backends |-> {0}]
TwoSlots == [b \in Backends |-> {0, 1}]
TwoOnGpu == [b \in Backends |-> IF b = gpu THEN {0, 1} ELSE {0}]

GpuFirst == [b \in Backends |-> IF b = gpu THEN 0 ELSE 1]
Peers == [b \in Backends |-> 0]
=============================================================================
