----------------------------- MODULE AtomicRef ------------------------------
(***************************************************************************)
(* What an atom promises: a reference whose updates take effect at one     *)
(* moment between call and return.  An update computes the new value from  *)
(* the value the reference holds at that moment; it learns which value it  *)
(* replaced; and when it reports a failure, it would have failed at some   *)
(* moment of the call.                                                     *)
(***************************************************************************)
CONSTANTS
    Threads, Valid,
    Updates,         \* the calls an update can be
    Idle,            \* the call of a thread that makes none
    Result(_, _),    \* Result(o, v): what call o makes of value v
    Applies(_, _),   \* Applies(o, v): call o accepts to replace v
    Fails(_, _)      \* Fails(o, v): call o is an error when the value is v

VARIABLES
    val,
    call,            \* thread -> the update it is making
    told,            \* thread -> what its last update replaced, and by what
    ret              \* thread -> what its last update answered

Init ==
    /\ val \in Valid
    /\ call = [t \in Threads |-> Idle]
    /\ told = [t \in Threads |-> <<val, val>>]
    /\ ret = [t \in Threads |-> "none"]

Begin(t, o) ==
    /\ call[t] = Idle
    /\ call' = [call EXCEPT ![t] = o]
    /\ UNCHANGED <<val, told, ret>>

End(t, answer) ==
    /\ call' = [call EXCEPT ![t] = Idle]
    /\ ret' = [ret EXCEPT ![t] = answer]

Commit(t) ==
    LET new == Result(call[t], val)
    IN  /\ call[t] # Idle /\ ~Fails(call[t], val) /\ Applies(call[t], val)
        /\ val' = new
        /\ told' = [told EXCEPT ![t] = <<val, new>>]
        /\ End(t, "done")

Decline(t) ==
    /\ call[t] # Idle /\ ~Applies(call[t], val)
    /\ End(t, "false")
    /\ UNCHANGED <<val, told>>

Fail(t) ==
    /\ call[t] # Idle /\ Fails(call[t], val)
    /\ End(t, "error")
    /\ UNCHANGED <<val, told>>

Next ==
    \E t \in Threads :
        \/ \E o \in Updates : Begin(t, o)
        \/ Commit(t) \/ Decline(t) \/ Fail(t)

Spec == Init /\ [][Next]_<<val, call, told, ret>>
=============================================================================
