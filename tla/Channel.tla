------------------------------- MODULE Channel -------------------------------
(***************************************************************************)
(* core.async channels with buffer policies: putWithPolicy, close!, chan,  *)
(* alts!, offer! and poll! in pkg/rt/async.go, >! and <! in                *)
(* pkg/rt/lang.go.                                                         *)
(*                                                                         *)
(* One Go channel and the processes that use it.  The policy of a channel  *)
(* lives beside it, in the map chanPolicy, so looking it up and sending    *)
(* are two steps, and a sliding put is a loop of selects.  A process at a  *)
(* select takes any of its ready cases; with none ready it waits, or takes *)
(* the default.  A Go channel serves its waiters first come first served;  *)
(* here the order is free, which allows every behaviour Go has.            *)
(***************************************************************************)
EXTENDS Integers, Sequences

CONSTANTS
    Policies,        \* the buffer policies a channel may be created with
    Caps,            \* the capacities it may have
    Producers, Consumers, Closers,      \* the processes, by what they do
    PutOps,          \* capacity -> the kinds of put the producers use
    Cancellable,     \* the processes whose scope may be cancelled
    MaxOps,          \* bound: operations per process
    Nil              \* the value nil

AllPolicies == {"fixed", "dropping", "sliding"}
AllPutOps   == {"put", "offer", "alts", "altsNil", "altsDefault"}
Procs       == Producers \union Consumers \union Closers

ASSUME ChannelConstants ==
    /\ Policies \subseteq AllPolicies /\ Policies # {}
    /\ Caps \subseteq Nat /\ Caps # {}
    /\ PutOps \in [Caps -> SUBSET AllPutOps]
    /\ MaxOps \in Nat
    /\ Cancellable \subseteq Procs
    /\ Producers \intersect Consumers = {}
    /\ Closers \intersect (Producers \union Consumers) = {}
    /\ Nil \notin Producers \X (1..MaxOps)

VARIABLES
    kind, cap,   \* the policy and the capacity the channel was created with
    policy,      \* its entry in chanPolicy ("fixed" when there is none)
    buf, closed, \* the Go channel
    cancelled,   \* the processes whose context is done
    pc, op,      \* process -> where it is, and in which operation
    n,           \* process -> operations started
    ret,         \* process -> what its last operation returned
    sent,        \* history: the values the channel accepted, in order
    out,         \* history: the values that left it, in order
    evicted      \* history: the values that were evicted

chanVars == <<kind, cap, policy, buf, closed>>
histVars == <<sent, out, evicted>>
vars == <<chanVars, cancelled, pc, op, n, ret, histVars>>

Values == (Producers \X (1..MaxOps)) \union {Nil}

Init ==
    /\ kind \in Policies /\ cap \in Caps
    /\ cap = 0 => kind = "fixed"       \* chan refuses other empty buffers
    /\ policy = kind
    /\ buf = <<>> /\ closed = FALSE
    /\ cancelled = {}
    /\ pc = [p \in Procs |-> "idle"]
    /\ op = [p \in Procs |-> "none"]
    /\ n = [p \in Procs |-> 0]
    /\ ret = [p \in Procs |-> "none"]
    /\ sent = <<>> /\ out = <<>> /\ evicted = {}

Start(p, o, where) ==
    /\ pc[p] = "idle" /\ n[p] < MaxOps                          \* bound
    /\ op' = [op EXCEPT ![p] = o]
    /\ n' = [n EXCEPT ![p] = @ + 1]
    /\ pc' = [pc EXCEPT ![p] = where]
    /\ ret' = [ret EXCEPT ![p] = "none"]

Return(p, result) ==
    /\ pc' = [pc EXCEPT ![p] = "idle"]
    /\ ret' = [ret EXCEPT ![p] = result]

-----------------------------------------------------------------------------
(* Puts.  >! and offer! check for nil and look the policy up first; alts!  *)
(* does neither.                                                           *)

MutAlwaysParks(o) ==
    IF o \in {"offer", "altsDefault"} THEN "try" ELSE "park"

FirstSelect(o) ==
    CASE o \in {"put", "offer"} /\ policy = "dropping" -> "drop"
      [] o \in {"put", "offer"} /\ policy = "sliding" -> "slide"
      [] o = "offer" \/ o = "altsDefault" -> "try"
      [] OTHER -> "park"

StartPut(p, o) ==
    /\ o \in PutOps[cap]
    /\ Start(p, o, FirstSelect(o))
    /\ UNCHANGED <<chanVars, cancelled, histVars>>

Val(p) == IF op[p] = "altsNil" THEN Nil ELSE <<p, n[p]>>

Room == Len(buf) < cap

Enqueue(p) ==
    /\ Room
    /\ buf' = Append(buf, Val(p))
    /\ sent' = Append(sent, Val(p))
    /\ Return(p, "true")
    /\ UNCHANGED out

\* A waiting taker is handed the value directly.
HandOff(p, c) ==
    /\ buf = <<>> /\ pc[c] = "take"
    /\ sent' = Append(sent, Val(p))
    /\ out' = Append(out, Val(p))
    /\ pc' = [pc EXCEPT ![p] = "idle", ![c] = "idle"]
    /\ ret' = [ret EXCEPT ![p] = "true",
                          ![c] = IF Val(p) = Nil THEN "nil" ELSE "value"]
    /\ UNCHANGED buf

SendSelects == {"park", "try", "drop", "slide", "retry"}

Send(p) ==
    /\ pc[p] \in SendSelects /\ ~closed
    /\ \/ Enqueue(p)
       \/ \E c \in Consumers : HandOff(p, c)
    /\ UNCHANGED <<kind, cap, policy, closed, cancelled, op, n, evicted>>

MutRecoverAccepts(p) ==
    IF op[p] \in {"put", "offer"} THEN "true" ELSE "error"

\* A send on a closed channel panics; putWithPolicy and offer! recover and
\* report that the value was not accepted, alts! does not and
\* the native-function boundary turns the panic into a let-go error.
ClosedResult(p) ==
    CASE op[p] = "put" -> "false"
      [] op[p] = "offer" -> "nil"
      [] OTHER -> "error"

SendClosed(p) ==
    /\ pc[p] \in SendSelects /\ closed
    /\ Return(p, ClosedResult(p))
    /\ UNCHANGED <<chanVars, cancelled, op, n, histVars>>

\* offer! passes the background context, which is never done, and
\* alts! with a :default has no such case.
HasDone(p) == pc[p] \in {"park", "retry"} /\ op[p] \in {"put", "alts", "altsNil"}

\* <-ctx.Done() wins: >! raises Cancelled, alts! chooses no port.
PutCancelled(p) ==
    /\ HasDone(p) /\ p \in cancelled
    /\ Return(p, IF op[p] = "put" THEN "cancelled" ELSE "noport")
    /\ UNCHANGED <<chanVars, cancelled, op, n, histVars>>

\* The default of a select that cannot send.
NotReady(p) == ~closed /\ ~Room /\ ~(HasDone(p) /\ p \in cancelled)

TryFails(p) ==
    /\ pc[p] = "try" /\ NotReady(p)
    /\ Return(p, IF op[p] = "offer" THEN "nil" ELSE "default")
    /\ UNCHANGED <<chanVars, cancelled, op, n, histVars>>

\* The new value is dropped, the put completes.
Drop(p) ==
    /\ pc[p] = "drop" /\ NotReady(p)
    /\ Return(p, "true")
    /\ UNCHANGED <<chanVars, cancelled, op, n, histVars>>

SlideFull(p) ==
    /\ pc[p] = "slide" /\ NotReady(p)
    /\ pc' = [pc EXCEPT ![p] = "evict"]
    /\ UNCHANGED <<chanVars, cancelled, op, n, ret, histVars>>

MutEvictNewest(p) ==
    /\ pc[p] = "evict"
    /\ pc' = [pc EXCEPT ![p] = "retry"]
    /\ IF buf # <<>>
       THEN /\ buf' = SubSeq(buf, 1, Len(buf) - 1)
            /\ out' = Append(out, buf[Len(buf)])
            /\ evicted' = evicted \union {buf[Len(buf)]}
       ELSE UNCHANGED <<buf, out, evicted>>
    /\ UNCHANGED <<kind, cap, policy, closed, cancelled, op, n, ret, sent>>

MutForgetsRetry(p) ==
    /\ pc[p] = "evict"
    /\ Return(p, "cancelled")
    /\ IF buf # <<>>
       THEN /\ buf' = Tail(buf)
            /\ out' = Append(out, Head(buf))
            /\ evicted' = evicted \union {Head(buf)}
       ELSE UNCHANGED <<buf, out, evicted>>
    /\ UNCHANGED <<kind, cap, policy, closed, cancelled, op, n, sent>>

\* Whatever is the oldest value by now is thrown away, if there is one.
Evict(p) ==
    /\ pc[p] = "evict"
    /\ pc' = [pc EXCEPT ![p] = "retry"]
    /\ IF buf # <<>>
       THEN /\ buf' = Tail(buf)
            /\ out' = Append(out, Head(buf))
            /\ evicted' = evicted \union {Head(buf)}
       ELSE UNCHANGED <<buf, out, evicted>>
    /\ UNCHANGED <<kind, cap, policy, closed, cancelled, op, n, ret, sent>>

RetryFull(p) ==
    /\ pc[p] = "retry" /\ NotReady(p)
    /\ pc' = [pc EXCEPT ![p] = "slide"]
    /\ UNCHANGED <<chanVars, cancelled, op, n, ret, histVars>>

PutStep(p) ==
    \/ Send(p) \/ SendClosed(p) \/ PutCancelled(p) \/ TryFails(p) \/ Drop(p)
    \/ SlideFull(p) \/ Evict(p) \/ RetryFull(p)

-----------------------------------------------------------------------------
(* Takes: <!, alts! with a port to take from, poll!.                       *)

StartTake(c, o) ==
    /\ Start(c, o, "take")
    /\ UNCHANGED <<chanVars, cancelled, histVars>>

Dequeue ==
    /\ buf # <<>>
    /\ buf' = Tail(buf)
    /\ out' = Append(out, Head(buf))

Receive(c) ==
    /\ pc[c] = "take" /\ Dequeue
    /\ Return(c, IF Head(buf) = Nil THEN "nil" ELSE "value")
    /\ UNCHANGED <<kind, cap, policy, closed, cancelled, op, n, sent, evicted>>

MutNilWhenEmpty(c) ==
    /\ pc[c] = "take" /\ buf = <<>>
    /\ Return(c, "nil")
    /\ UNCHANGED <<chanVars, cancelled, op, n, histVars>>

ReceiveClosed(c) ==
    /\ pc[c] = "take" /\ closed /\ buf = <<>>
    /\ Return(c, "nil")
    /\ UNCHANGED <<chanVars, cancelled, op, n, histVars>>

TakeCancelled(c) ==
    /\ pc[c] = "take" /\ c \in cancelled
    /\ Return(c, IF op[c] = "take" THEN "cancelled" ELSE "noport")
    /\ UNCHANGED <<chanVars, cancelled, op, n, histVars>>

TakeStep(c) == Receive(c) \/ ReceiveClosed(c) \/ TakeCancelled(c)

\* poll! is one select with a default.
Poll(c) ==
    /\ pc[c] = "idle" /\ n[c] < MaxOps                          \* bound
    /\ op' = [op EXCEPT ![c] = "poll"]
    /\ IF buf # <<>>
       THEN /\ Dequeue
            /\ ret' = [ret EXCEPT ![c] =
                          IF Head(buf) = Nil THEN "nil" ELSE "value"]
       ELSE /\ ret' = [ret EXCEPT ![c] = "nil"]
            /\ UNCHANGED <<buf, out>>
    /\ n' = [n EXCEPT ![c] = @ + 1]
    /\ UNCHANGED <<kind, cap, policy, closed, cancelled, pc, sent, evicted>>

\* ... on an unbuffered channel it takes from a parked sender.
PollParked(c, p) ==
    /\ pc[c] = "idle" /\ n[c] < MaxOps                          \* bound
    /\ cap = 0 /\ pc[p] = "park" /\ ~closed
    /\ op' = [op EXCEPT ![c] = "poll"]
    /\ n' = [n EXCEPT ![c] = @ + 1]
    /\ sent' = Append(sent, Val(p))
    /\ out' = Append(out, Val(p))
    /\ pc' = [pc EXCEPT ![p] = "idle"]
    /\ ret' = [ret EXCEPT ![p] = "true",
                          ![c] = IF Val(p) = Nil THEN "nil" ELSE "value"]
    /\ UNCHANGED <<chanVars, cancelled, evicted>>

-----------------------------------------------------------------------------
(* close! deletes the policy, then closes; closing again is a no-op (the   *)
(* panic is recovered).  Cancelling a scope ends its context.              *)

CloseStart(q) ==
    /\ Start(q, "close", "close")
    /\ policy' = "fixed"
    /\ UNCHANGED <<kind, cap, buf, closed, cancelled, histVars>>

CloseEnd(q) ==
    /\ pc[q] = "close"
    /\ closed' = TRUE
    /\ Return(q, "nil")
    /\ UNCHANGED <<kind, cap, policy, buf, cancelled, op, n, histVars>>

Cancel(p) ==
    /\ p \in Cancellable \ cancelled
    /\ cancelled' = cancelled \union {p}
    /\ UNCHANGED <<chanVars, pc, op, n, ret, histVars>>

Next ==
    \/ \E p \in Producers : PutStep(p) \/ \E o \in AllPutOps : StartPut(p, o)
    \/ \E c \in Consumers :
          \/ TakeStep(c) \/ Poll(c)
          \/ \E o \in {"take", "altsTake"} : StartTake(c, o)
          \/ \E p \in Producers : PollParked(c, p)
    \/ \E q \in Closers : CloseStart(q) \/ CloseEnd(q)
    \/ \E p \in Cancellable : Cancel(p)

Spec == Init /\ [][Next]_vars

\* A goroutine at a select with a ready case, or in the middle of close!,
\* goes on.  Nobody is obliged to put, take, close or cancel.
Fairness ==
    /\ \A p \in Producers : WF_vars(PutStep(p))
    /\ \A q \in Closers : WF_vars(CloseEnd(q))

FairSpec == Spec /\ Fairness

-----------------------------------------------------------------------------
(* Properties.                                                             *)

TypeOK ==
    /\ kind \in Policies /\ cap \in Caps
    /\ policy \in {kind, "fixed"}
    /\ buf \in Seq(Values) /\ Len(buf) <= cap
    /\ closed \in BOOLEAN
    /\ cancelled \subseteq Procs
    /\ pc \in [Procs -> SendSelects \union {"idle", "evict", "take", "close"}]
    /\ op \in [Procs -> AllPutOps \union
                  {"none", "take", "altsTake", "poll", "close"}]
    /\ n \in [Procs -> 0..MaxOps]
    /\ ret \in [Procs -> {"none", "true", "false", "nil", "value",
                          "cancelled", "noport", "default", "error"}]
    /\ sent \in Seq(Values) /\ out \in Seq(Values)
    /\ evicted \subseteq Values

(* Order and conservation: whatever put paths, evictions and takes race,   *)
(* the values leave the channel in the order it accepted them, each once,  *)
(* and what has not left is buffered.                                      *)
InOrder == sent = out \o buf

(* A put tells the truth: true means that the channel has the value (a     *)
(* dropping buffer may have dropped it), any other result that nobody will *)
(* ever take it; false and an error occur on a closed channel only.  The    *)
(* recovered panic of a put that parked before close! and the policy that  *)
(* close! removed in the middle of a put are what makes this delicate.     *)
WasSent(p) == \E i \in 1..Len(sent) : sent[i] = <<p, n[p]>>

PutTellsTheTruth ==
    \A p \in Producers : pc[p] = "idle" /\ n[p] > 0 /\ op[p] # "altsNil" =>
        /\ ret[p] = "true" =>
              \/ WasSent(p)
              \/ kind = "dropping" /\ op[p] \in {"put", "offer"}
        /\ ret[p] # "true" => ~WasSent(p)
        /\ ret[p] \in {"false", "error"} => closed

(* A sliding buffer keeps the newest value: with no sliding put under way, *)
(* none cancelled and the channel open, the last value accepted was not    *)
(* evicted, however the send, evict and retry selects of several producers *)
(* interleaved - whoever evicts goes on until its own value is in.  (A nil  *)
(* put by alts! cannot be told from another one.)                          *)
NewestSurvives ==
    LET last == sent[Len(sent)]
    IN  /\ kind = "sliding" /\ ~closed /\ cancelled = {} /\ sent # <<>>
        /\ \A p \in Producers : pc[p] \notin {"slide", "evict", "retry"}
        /\ last # Nil
        => last \notin evicted

(* A taker that reads nil has seen the end of the stream: the channel is   *)
(* closed and drained, and stays so (">!! returns true unless the channel  *)
(* is already closed", async.go:254).  A nil that came through is the one   *)
(* exception: >! and offer! refuse it, alts! does not.                     *)
EndOfStream ==
    (\A i \in 1..Len(out) : out[i] # Nil) =>
    \A c \in Consumers :
        pc[c] = "idle" /\ op[c] \in {"take", "altsTake"} /\ ret[c] = "nil"
            => closed /\ buf = <<>>

(* "dropping/sliding puts always complete" (async.go:255) without any      *)
(* taker, also when close! removes the policy just before the put looks it *)
(* up.                                                                     *)
PutsComplete ==
    \A p \in Producers :
        kind # "fixed" /\ pc[p] # "idle" /\ op[p] \in {"put", "offer"}
            ~> pc[p] = "idle"

-----------------------------------------------------------------------------
(* The inductive strengthening used by ChannelProofs.                      *)

\* Who can be where: a select is reached in an operation that has it.
ControlInv ==
    \A p \in Procs :
        /\ pc[p] \in SendSelects \union {"evict"} =>
              p \in Producers /\ op[p] \in AllPutOps /\ n[p] > 0
        /\ pc[p] = "drop" => kind = "dropping" /\ op[p] \in {"put", "offer"}
        /\ pc[p] = "take" => p \in Consumers

\* A put that is under way has not sent its value yet.
ValueInv ==
    \A i \in 1..Len(sent), p \in Producers, k \in 1..MaxOps :
        sent[i] = <<p, k>> => k <= n[p] /\ (pc[p] # "idle" => k < n[p])

IInv == TypeOK /\ InOrder /\ ControlInv /\ ValueInv /\ PutTellsTheTruth

\* What was evicted has left the channel.
EvictedInv == \A v \in evicted : \E i \in 1..Len(out) : out[i] = v

FlowInv == EvictedInv /\ NewestSurvives /\ EndOfStream

=============================================================================
