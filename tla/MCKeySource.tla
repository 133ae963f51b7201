---------------------------- MODULE MCKeySource -----------------------------
(* Model-checking instance of KeySource: for one reader arrows, a bare     *)
(* escape, a key that the input ends in, and a two-byte character; for two *)
(* readers that share a source a key that arrives in up to three pieces    *)
(* and a two-byte character.                                               *)
EXTENDS KeySource, TLC

CONSTANTS r1, r2

MCPrograms ==
    {<<"esc", "[", "1", "x">>, <<"esc", "esc", "O", "x">>,
     <<"lead", "cont", "esc", "x">>, <<"x", "lead", "esc", "[">>} \X {{r1}}
    \union {<<"esc", "O", "x">>, <<"lead", "cont">>} \X {{r1, r2}}

MCWakes == [R \in SUBSET Readers |-> IF R = {r1} THEN 2 ELSE 1]
=============================================================================
