------------------------------- MODULE MCPods -------------------------------
(* Model-checking instance of Pods.                                        *)
EXTENDS Pods

CONSTANTS s1, a1

MCReplyKinds ==
    [c \in Calls |->
        IF c \in SyncCalls
        THEN <<{"value", "fail"}, {"value", "plain"}>>
        ELSE <<{"value", "fail"}, {"errval", "plain"}, {"value"}>>]
MCChanCap == [c \in Calls |-> IF c \in SyncCalls THEN 2 ELSE 1]
=============================================================================
