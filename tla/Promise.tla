------------------------------ MODULE Promise -------------------------------
(***************************************************************************)
(* pkg/vm/promise.go, Deliver, Deref and DerefTimeout of a promise or a    *)
(* future, and its sibling in core.async, PromiseChan with put, take and   *)
(* doClose (pkg/rt/async.go).  The value, the flag and the channel that    *)
(* wakes the waiters are three separate writes under the mutex.  A waiter  *)
(* that was woken reads the value without the mutex in a promise, and      *)
(* takes it again in a promise-chan, which can also be closed empty.       *)
(***************************************************************************)
EXTENDS Integers

CONSTANTS
    Writers, Readers,    \* threads that deliver, threads that deref
    Offers,              \* what they deliver
    Kinds,               \* which of the two is looked at
    MaxCalls,            \* bound: operations per thread
    Unset, GaveUp, Nil

Threads == Writers \union Readers

ASSUME PromiseConstants ==
    /\ Writers \intersect Readers = {}
    /\ Kinds \subseteq {"promise", "promise-chan"}
    /\ MaxCalls \in Nat
    /\ Unset \notin Offers /\ GaveUp \notin Offers
    /\ Nil \notin Offers /\ Unset # GaveUp /\ Unset # Nil /\ GaveUp # Nil
    /\ Unset \notin Threads

VARIABLES
    kind,
    value, delivered,
    closed,      \* of a promise-chan: closed before it had a value
    ready,       \* whether the channel ch is closed
    mu,          \* who holds the mutex, Unset when nobody does
    place, calls,   \* thread -> where it is, operations started
    arg,         \* writer -> the value it delivers
    got,         \* reader -> its last answer
    accepted     \* history: writers whose Deliver returned its value

promiseVars ==
    <<kind, value, delivered, closed, ready, mu, place, calls, arg, got, accepted>>

PromiseInit ==
    /\ kind \in Kinds
    /\ value = Unset /\ delivered = FALSE /\ closed = FALSE /\ ready = FALSE
    /\ mu = Unset
    /\ place = [t \in Threads |-> "idle"]
    /\ calls = [t \in Threads |-> 0]
    /\ arg = [w \in Writers |-> Unset]
    /\ got = [r \in Readers |-> Unset]
    /\ accepted = {}

Goto(t, where) == place' = [place EXCEPT ![t] = where]

Settled == delivered \/ closed

-----------------------------------------------------------------------------
(* Deliver, put and doClose (v = Nil; >! refuses to put nil).              *)

DeliverLock(w, v) ==
    /\ v = Nil => kind = "promise-chan"
    /\ place[w] = "idle" /\ calls[w] < MaxCalls                    \* bound
    /\ mu = Unset /\ mu' = w
    /\ arg' = [arg EXCEPT ![w] = v]
    /\ calls' = [calls EXCEPT ![w] = @ + 1]
    /\ Goto(w, "check")
    /\ UNCHANGED <<kind, value, delivered, closed, ready, got, accepted>>

MutIgnoresClosed(w) ==
    /\ place[w] = "check"
    /\ IF delivered
       THEN mu' = Unset /\ Goto(w, "idle")
       ELSE UNCHANGED mu /\ Goto(w, IF arg[w] = Nil THEN "close" ELSE "store")
    /\ UNCHANGED <<kind, value, delivered, closed, ready, calls, arg, got, accepted>>

\* What is settled stays as it is.
DeliverCheck(w) ==
    /\ place[w] = "check"
    /\ IF Settled
       THEN mu' = Unset /\ Goto(w, "idle")
       ELSE UNCHANGED mu /\ Goto(w, IF arg[w] = Nil THEN "close" ELSE "store")
    /\ UNCHANGED <<kind, value, delivered, closed, ready, calls, arg, got, accepted>>

DeliverStore(w) ==
    /\ place[w] = "store"
    /\ value' = arg[w]
    /\ Goto(w, "flag")
    /\ UNCHANGED <<kind, delivered, closed, ready, mu, calls, arg, got, accepted>>

DeliverFlag(w) ==
    /\ place[w] = "flag"
    /\ delivered' = TRUE
    /\ Goto(w, "wake")
    /\ UNCHANGED <<kind, value, closed, ready, mu, calls, arg, got, accepted>>

CloseMark(w) ==
    /\ place[w] = "close"
    /\ closed' = TRUE
    /\ Goto(w, "wake")
    /\ UNCHANGED <<kind, value, delivered, ready, mu, calls, arg, got, accepted>>

MutForgetsWake(w) ==
    /\ place[w] = "wake"
    /\ mu' = Unset
    /\ accepted' = accepted \union {w}
    /\ Goto(w, "idle")
    /\ UNCHANGED <<kind, value, delivered, closed, ready, calls, arg, got>>

\* Closing the channel wakes every waiter.
DeliverWake(w) ==
    /\ place[w] = "wake"
    /\ ready' = TRUE
    /\ mu' = Unset
    /\ accepted' = accepted \union {w}
    /\ Goto(w, "idle")
    /\ UNCHANGED <<kind, value, delivered, closed, calls, arg, got>>

Deliver(w) ==
    \/ DeliverCheck(w) \/ DeliverStore(w) \/ DeliverFlag(w) \/ CloseMark(w)
    \/ DeliverWake(w)

-----------------------------------------------------------------------------
(* Deref and take; DerefTimeout is the same with a timer beside the        *)
(* channel, and a take gives up when its context is done.                  *)

\* A promise-chan starts with the value nil.
Answer == IF value = Unset THEN Nil ELSE value

DerefLock(r, timed) ==
    /\ place[r] = "idle" /\ calls[r] < MaxCalls                    \* bound
    /\ mu = Unset
    /\ calls' = [calls EXCEPT ![r] = @ + 1]
    /\ got' = [got EXCEPT ![r] = IF Settled THEN Answer ELSE @]
    /\ IF Settled
       THEN UNCHANGED place
       ELSE Goto(r, IF timed THEN "waitTimed" ELSE "wait")
    /\ UNCHANGED <<kind, value, delivered, closed, ready, mu, arg, accepted>>

DerefWoken(r) ==
    /\ place[r] \in {"wait", "waitTimed"} /\ ready
    /\ Goto(r, "read")
    /\ UNCHANGED <<kind, value, delivered, closed, ready, mu, calls, arg, got, accepted>>

\* p.value, without the mutex in a promise.
DerefRead(r) ==
    /\ place[r] = "read" /\ (kind = "promise-chan" => mu = Unset)
    /\ got' = [got EXCEPT ![r] = Answer]
    /\ Goto(r, "idle")
    /\ UNCHANGED <<kind, value, delivered, closed, ready, mu, calls, arg, accepted>>

DerefTimeout(r) ==
    /\ place[r] = "waitTimed"
    /\ got' = [got EXCEPT ![r] = GaveUp]
    /\ Goto(r, "idle")
    /\ UNCHANGED <<kind, value, delivered, closed, ready, mu, calls, arg, accepted>>

Deref(r) == DerefWoken(r) \/ DerefRead(r)

PromiseNext ==
    \/ \E w \in Writers :
          Deliver(w) \/ \E v \in Offers \union {Nil} : DeliverLock(w, v)
    \/ \E r \in Readers :
          \/ Deref(r) \/ DerefTimeout(r)
          \/ \E timed \in BOOLEAN : DerefLock(r, timed)

PromiseSpec == PromiseInit /\ [][PromiseNext]_promiseVars

\* A thread inside Deliver goes on, and so does a waiter once it is woken;
\* Go's mutex starves nobody, whoever else takes it.
Fairness ==
    /\ \A w \in Writers : WF_promiseVars(Deliver(w))
    /\ \A r \in Readers : SF_promiseVars(Deref(r))

FairPromiseSpec == PromiseSpec /\ Fairness

-----------------------------------------------------------------------------
(* Properties.                                                             *)

PromiseTypeOK ==
    /\ kind \in Kinds
    /\ value \in Offers \union {Unset}
    /\ delivered \in BOOLEAN /\ closed \in BOOLEAN /\ ready \in BOOLEAN
    /\ mu \in Writers \union {Unset}
    /\ place \in [Threads -> {"idle", "check", "store", "flag", "close",
                              "wake", "wait", "waitTimed", "read"}]
    /\ calls \in [Threads -> 0..MaxCalls]
    /\ arg \in [Writers -> Offers \union {Unset, Nil}]
    /\ got \in [Readers -> Offers \union {Unset, Nil, GaveUp}]
    /\ accepted \subseteq Writers

Cell == INSTANCE WriteOnce
            WITH cell <- IF closed THEN Nil ELSE value,
                 Values <- Offers, Closed <- Nil

(* "Promise is a write-once, read-many synchronization primitive"          *)
(* (promise.go:9), and a promise-chan "replays that value to every taker,  *)
(* forever ... closing after a value is a no-op" (async.go:303): both      *)
(* implement the write-once cell, the reads without the mutex included.    *)
IsWriteOnce == Cell!Spec

(* Deliver closes the channel at most once: closing it again would panic   *)
(* with the mutex held, and every later deref would hang.  It also answers *)
(* its value to one caller only.                                           *)
WakesOnce ==
    /\ \A w \in Writers : place[w] = "wake" => ~ready
    /\ \A v, w \in accepted : v = w

(* "Deref blocks until delivered" (promise.go:11) and no longer: when a    *)
(* promise has been delivered every waiter gets an answer; when a          *)
(* promise-chan has a value or is closed, every taker does.                *)
DeliveryWakesAll ==
    \A r \in Readers : Settled /\ place[r] # "idle" ~> place[r] = "idle"

-----------------------------------------------------------------------------
(* The inductive strengthening used by FutureProofs.                       *)

\* The writer in the critical section and how far it is decide what has
\* been written.
LockInv ==
    /\ \A w \in Writers : place[w] # "idle" <=> mu = w
    /\ \A w \in Writers : place[w] \in {"idle", "check", "store", "flag", "close", "wake"}
    /\ \A r \in Readers : place[r] \in {"idle", "wait", "waitTimed", "read"}
    /\ \A w \in Writers :
          place[w] # "idle" =>
              arg[w] \in Offers \/ (arg[w] = Nil /\ place[w] \notin {"store", "flag"})
    /\ \A w \in Writers :
          /\ place[w] = "store" => value = Unset /\ ~Settled /\ ~ready /\ arg[w] \in Offers
          /\ place[w] = "flag" => value # Unset /\ ~Settled /\ ~ready
          /\ place[w] = "close" => value = Unset /\ ~Settled /\ ~ready
          /\ place[w] = "wake" => Settled /\ ~ready
          /\ place[w] = "check" => (Settled <=> ready)
    /\ mu = Unset => (Settled <=> ready)
    /\ delivered => value # Unset /\ ~closed
    /\ closed => value = Unset
    /\ ready => Settled
    /\ ~Settled => value = Unset \/ \E w \in Writers : place[w] = "flag"
    /\ \A r \in Readers : place[r] = "read" => ready
    /\ accepted # {} => ready
    /\ \A v, w \in accepted : v = w

PromiseInv == PromiseTypeOK /\ LockInv

=============================================================================
