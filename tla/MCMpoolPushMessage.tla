-------------------------- MODULE MCMpoolPushMessage --------------------------
EXTENDS MpoolPushMessage

CONSTANTS c1, c2, a1

OneSender == [c \in Call |-> a1]
=============================================================================
