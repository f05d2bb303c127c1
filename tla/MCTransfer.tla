----------------------------- MODULE MCTransfer -----------------------------
EXTENDS Transfer

\* One session in each direction between two devices.
BothWays == [x \in Session |-> x]
OtherWay == [x \in Session |-> 3 - x]

EachEdits == [f \in File |-> IF f = 2 THEN 2 ELSE 1]
=============================================================================
