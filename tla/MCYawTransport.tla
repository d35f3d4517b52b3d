--------------------------- MODULE MCYawTransport ---------------------------
EXTENDS YawTransport

CONSTANTS c1, c2

AllNative == [by : {"none", "mouse"}, travel : {0}, sel : BOOLEAN]
IdleOrMoved == {Empty, [by |-> "mouse", travel |-> 0, sel |-> TRUE]}

OneWay == {1}
Uneven == {-1, 3}
=============================================================================
