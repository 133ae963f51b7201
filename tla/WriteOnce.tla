----------------------------- MODULE WriteOnce ------------------------------
(***************************************************************************)
(* What a promise and a promise-chan promise: a cell that is settled at    *)
(* most once, with a value or closed without one; every read that returns  *)
(* what the cell holds returns the same thing, and none does before the    *)
(* cell is settled.  A reader may also give up (timeout or cancellation).  *)
(***************************************************************************)
CONSTANTS
    Values,          \* what can be written
    Readers,
    Unset,           \* the cell before it is settled
    Closed,          \* the cell closed without a value
    GaveUp           \* the answer of a reader that gave up

VARIABLES cell, got         \* got: reader -> its last answer

Init ==
    /\ cell = Unset
    /\ got = [r \in Readers |-> Unset]

Settle(v) ==
    /\ cell = Unset
    /\ cell' = v
    /\ UNCHANGED got

Read(r) ==
    /\ cell # Unset
    /\ got' = [got EXCEPT ![r] = cell]
    /\ UNCHANGED cell

GiveUp(r) ==
    /\ got' = [got EXCEPT ![r] = GaveUp]
    /\ UNCHANGED cell

Next ==
    \/ \E v \in Values \union {Closed} : Settle(v)
    \/ \E r \in Readers : Read(r) \/ GiveUp(r)

Spec == Init /\ [][Next]_<<cell, got>>
=============================================================================
