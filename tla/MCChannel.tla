----------------------------- MODULE MCChannel ------------------------------
(* A small instance of Channel for TLC.                                    *)
EXTENDS Channel

CONSTANTS p1, p2, c1, q1

MCPutOps ==
    [c \in Caps |-> IF c > 0 THEN {"put", "alts"}
                    ELSE {"put", "offer", "altsDefault"}]
=============================================================================
