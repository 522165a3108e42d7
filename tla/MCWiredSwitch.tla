---------------------------- MODULE MCWiredSwitch ----------------------------
EXTENDS WiredSwitch, TLC

CONSTANTS d1, d2, c1, c2

OneDevice  == [c \in Conn |-> d1]
EachDevice == [c \in Conn |-> IF c = c1 THEN d1 ELSE d2]
=============================================================================
