--------------------------- MODULE ChannelProofs ----------------------------
(***************************************************************************)
(* Proofs about Channel: for every capacity, every set of processes and    *)
(* every number of operations the state is well typed, the values leave    *)
(* the channel in the order it accepted them, and a put tells the truth.   *)
(*                                                                         *)
(* IInv is inductive.  Its auxiliary parts say which process can be at     *)
(* which select (ControlInv) and that a put under way has not sent its     *)
(* value yet (ValueInv), without which "not accepted" could not be known   *)
(* to stay true.                                                           *)
(***************************************************************************)
EXTENDS Channel, TLAPS

(* Facts about sequences.                                                  *)

(* The head of the buffer leaves it.                                       *)
LEMMA HeadConcat ==
    ASSUME NEW S, NEW s \in Seq(S), NEW t \in Seq(S), t # <<>>
    PROVE  /\ s \o t = Append(s, Head(t)) \o Tail(t)
           /\ Head(t) \in S /\ Tail(t) \in Seq(S) /\ Len(Tail(t)) = Len(t) - 1
OBVIOUS

(* A value that passes through an empty buffer.                            *)
LEMMA EmptyConcat ==
    ASSUME NEW S, NEW s \in Seq(S), NEW t \in Seq(S), NEW v \in S, t = <<>>,
           NEW r, r = s \o t
    PROVE  Append(r, v) = Append(s, v) \o t
<1>1. r = s
  OBVIOUS
<1>2. Append(s, v) \in Seq(S)
  OBVIOUS
<1> QED
  BY <1>1, <1>2

(* Appending a value to the accepted ones.                                 *)
LEMMA AppendElems ==
    ASSUME NEW S, NEW s \in Seq(S), NEW v \in S
    PROVE  /\ Append(s, v) \in Seq(S)
           /\ Len(Append(s, v)) = Len(s) + 1
           /\ \A i \in 1..Len(s) : Append(s, v)[i] = s[i]
           /\ Append(s, v)[Len(s) + 1] = v
OBVIOUS

-----------------------------------------------------------------------------
(* Lemmas about single steps.                                              *)

(* What a put at one of its selects sends is a value.                      *)
LEMMA ValIsValue ==
    ASSUME TypeOK, ControlInv, NEW p \in Producers,
           pc[p] \in SendSelects \union {"evict"}
    PROVE  /\ Val(p) \in Values
           /\ n[p] \in 1..MaxOps
<1>1. n[p] \in 1..MaxOps
  BY ChannelConstants DEF TypeOK, ControlInv, Procs
<1>2. <<p, n[p]>> \in Producers \X (1..MaxOps)
  BY <1>1
<1> QED
  BY <1>1, <1>2 DEF Val, Values

(* When producer p gets its value accepted and becomes idle, and nobody    *)
(* else's put moves, the value-related invariants survive.                 *)
LEMMA AcceptStep ==
    ASSUME IInv, NEW p \in Producers, pc[p] \in SendSelects,
           sent' = Append(sent, Val(p)),
           pc'[p] = "idle", ret'[p] = "true",
           \A q \in Producers \ {p} : pc'[q] = pc[q] /\ ret'[q] = ret[q],
           \A q \in Producers : op'[q] = op[q] /\ n'[q] = n[q],
           UNCHANGED <<kind, closed>>
    PROVE  ValueInv' /\ PutTellsTheTruth'
<1> USE DEF IInv
<1>1. Val(p) \in Values /\ n[p] \in 1..MaxOps
  BY ValIsValue
<1>2. /\ sent \in Seq(Values)
      /\ sent' \in Seq(Values)
      /\ Len(sent') = Len(sent) + 1
      /\ Len(sent) \in Nat
      /\ \A i \in 1..Len(sent) : sent'[i] = sent[i]
      /\ sent'[Len(sent) + 1] = Val(p)
  <2>1. sent \in Seq(Values) /\ Len(sent) \in Nat
    BY DEF TypeOK
  <2> QED
    BY <1>1, <2>1, AppendElems
<1>3. \A q \in Producers, k \in 1..MaxOps : Val(p) = <<q, k>> =>
          q = p /\ k = n[p] /\ op[p] # "altsNil"
  BY ChannelConstants DEF Val
<1>4. ValueInv'
  <2> SUFFICES ASSUME NEW i \in 1..Len(sent'), NEW q \in Producers,
                      NEW k \in 1..MaxOps, sent'[i] = <<q, k>>
               PROVE  k <= n[q] /\ (pc'[q] # "idle" => k < n[q])
    BY DEF ValueInv
  <2>1. CASE i \in 1..Len(sent)
    <3>1. sent[i] = <<q, k>>
      BY <1>2, <2>1
    <3>2. k <= n[q] /\ (pc[q] # "idle" => k < n[q])
      BY <2>1, <3>1 DEF ValueInv
    <3> QED
      BY <3>2
  <2>2. CASE i = Len(sent) + 1
    <3>1. Val(p) = <<q, k>>
      BY <1>2, <2>2
    <3>2. q = p /\ k = n[p]
      BY <1>3, <3>1
    <3> QED
      BY <1>1, <3>2
  <2> QED
    BY <1>2, <2>1, <2>2
<1>5. PutTellsTheTruth'
  <2> SUFFICES ASSUME NEW q \in Producers, pc'[q] = "idle", n[q] > 0,
                      op[q] # "altsNil"
               PROVE  /\ ret'[q] = "true" =>
                            \/ WasSent(q)'
                            \/ kind = "dropping" /\ op[q] \in {"put", "offer"}
                      /\ ret'[q] # "true" => ~WasSent(q)'
                      /\ ret'[q] \in {"false", "error"} => closed
    BY DEF PutTellsTheTruth
  <2>1. CASE q = p
    <3>1. sent'[Len(sent) + 1] = <<p, n[p]>> /\ Len(sent) + 1 \in 1..Len(sent')
      BY <1>2, <2>1 DEF Val
    <3> QED
      BY <2>1, <3>1 DEF WasSent
  <2>2. CASE q # p
    <3>1. n[q] \in 1..MaxOps
      BY ChannelConstants DEF TypeOK, Procs
    <3>2. WasSent(q)' <=> WasSent(q)
      <4>1. ASSUME NEW i \in 1..Len(sent'), sent'[i] = <<q, n[q]>>
            PROVE  i \in 1..Len(sent)
        <5>1. i = Len(sent) + 1 => Val(p) = <<q, n[q]>>
          BY <1>2, <4>1
        <5>2. i # Len(sent) + 1
          BY <1>3, <2>2, <3>1, <5>1
        <5> QED
          BY <1>2, <5>2
      <4> QED
        BY <1>2, <4>1 DEF WasSent
    <3> QED
      BY <2>2, <3>2 DEF PutTellsTheTruth
  <2> QED
    BY <2>1, <2>2
<1> QED
  BY <1>4, <1>5

(* When nothing is accepted, only the put that moves can disturb the       *)
(* value-related invariants.                                               *)
LEMMA QuietStep ==
    ASSUME IInv, NEW p \in Procs, UNCHANGED <<kind, sent>>,
           closed => closed',
           \A q \in Producers \ {p} :
              pc'[q] = pc[q] /\ ret'[q] = ret[q] /\ op'[q] = op[q] /\ n'[q] = n[q],
           p \in Producers =>
              \/ pc[p] = "idle" /\ pc'[p] # "idle" /\ n'[p] = n[p] + 1
              \/ /\ pc[p] # "idle" /\ n'[p] = n[p] /\ op'[p] = op[p]
                 /\ \/ pc'[p] # "idle"
                    \/ ret'[p] = "true" /\ kind = "dropping"
                                        /\ op[p] \in {"put", "offer"}
                    \/ ret'[p] # "true" /\ (ret'[p] \in {"false", "error"} => closed)
              \/ pc'[p] = pc[p] /\ ret'[p] = ret[p]
                 /\ op'[p] = op[p] /\ n'[p] = n[p]
    PROVE  ValueInv' /\ PutTellsTheTruth'
<1> USE DEF IInv
<1>0. n \in [Procs -> 0..MaxOps] /\ MaxOps \in Nat /\ Producers \subseteq Procs
  BY ChannelConstants DEF TypeOK, Procs
<1>1. ValueInv'
  <2> SUFFICES ASSUME NEW i \in 1..Len(sent), NEW q \in Producers,
                      NEW k \in 1..MaxOps, sent[i] = <<q, k>>
               PROVE  k <= n'[q] /\ (pc'[q] # "idle" => k < n'[q])
    BY DEF ValueInv
  <2>1. k <= n[q] /\ (pc[q] # "idle" => k < n[q])
    BY DEF ValueInv
  <2>2. CASE q # p
    BY <2>1, <2>2
  <2>3. CASE q = p
    BY <1>0, <2>1, <2>3
  <2> QED
    BY <2>2, <2>3
<1>2. PutTellsTheTruth'
  <2> SUFFICES ASSUME NEW q \in Producers, pc'[q] = "idle", n'[q] > 0,
                      op'[q] # "altsNil"
               PROVE  /\ ret'[q] = "true" =>
                            \/ WasSent(q)'
                            \/ kind = "dropping" /\ op'[q] \in {"put", "offer"}
                      /\ ret'[q] # "true" => ~WasSent(q)'
                      /\ ret'[q] \in {"false", "error"} => closed'
    BY DEF PutTellsTheTruth
  <2>1. CASE pc'[q] = pc[q] /\ ret'[q] = ret[q] /\ op'[q] = op[q] /\ n'[q] = n[q]
    BY <2>1 DEF PutTellsTheTruth, WasSent
  <2>2. CASE /\ q = p /\ pc[p] # "idle" /\ n'[p] = n[p] /\ op'[p] = op[p]
             /\ \/ ret'[p] = "true" /\ kind = "dropping"
                                    /\ op[p] \in {"put", "offer"}
                \/ ret'[p] # "true" /\ (ret'[p] \in {"false", "error"} => closed)
    <3>1. n[p] \in 1..MaxOps
      BY <1>0, <2>2
    <3>2. ~WasSent(p)'
      BY <2>2, <3>1 DEF WasSent, ValueInv
    <3> QED
      BY <2>2, <3>2
  <2> QED
    BY <2>1, <2>2
<1> QED
  BY <1>1, <1>2

-----------------------------------------------------------------------------
(* The initial states satisfy the invariant.                               *)
LEMMA InitInv == Init => IInv
<1> SUFFICES ASSUME Init PROVE IInv
  OBVIOUS
<1> USE ChannelConstants DEF Init
<1>1. TypeOK
  <2>0. cap \in Caps /\ cap >= 0
    OBVIOUS
  <2>1. kind \in Policies /\ policy \in {kind, "fixed"} /\ closed \in BOOLEAN
    OBVIOUS
  <2>2. <<>> \in Seq(Values) /\ Len(<<>>) = 0
    OBVIOUS
  <2>3. /\ pc \in [Procs -> SendSelects \union {"idle", "evict", "take", "close"}]
        /\ n \in [Procs -> 0..MaxOps]
    OBVIOUS
  <2> QED
    BY <2>0, <2>1, <2>2, <2>3 DEF TypeOK
<1>2. InOrder
  BY DEF InOrder
<1>3. ControlInv /\ ValueInv /\ PutTellsTheTruth
  BY DEF ControlInv, ValueInv, PutTellsTheTruth, SendSelects, Procs
<1> QED
  BY <1>1, <1>2, <1>3 DEF IInv

-----------------------------------------------------------------------------
(* Each step keeps the types, the order and the control invariant.         *)

(* Each step of a put.                                                     *)
LEMMA PutStepBasics ==
    ASSUME IInv, NEW p \in Producers, PutStep(p)
    PROVE  TypeOK' /\ InOrder' /\ ControlInv'
<1> USE DEF IInv
<1>0. p \in Procs /\ Consumers \subseteq Procs /\ Producers \intersect Consumers = {}
  BY ChannelConstants DEF Procs
<1>1. CASE Send(p)
  <2>0. Val(p) \in Values
    BY <1>1, ValIsValue DEF Send
  <2>1. CASE Enqueue(p)
    <3>1. /\ buf' \in Seq(Values) /\ Len(buf') = Len(buf) + 1
          /\ sent' \in Seq(Values) /\ out' = out
      BY <2>0, <2>1, AppendElems DEF Enqueue, TypeOK
    <3>2. TypeOK'
      <4>1. Len(buf') <= cap
        BY <2>1, <3>1, ChannelConstants DEF Enqueue, Room, TypeOK
      <4> QED
        BY <1>0, <1>1, <2>1, <3>1, <4>1 DEF Send, Enqueue, Return, TypeOK
    <3>3. InOrder'
      <4>0. out \in Seq(Values) /\ buf \in Seq(Values)
        BY DEF TypeOK
      <4>1. Append(out \o buf, Val(p)) = out \o Append(buf, Val(p))
        <5>1. ASSUME NEW v \in Values
              PROVE  Append(out \o buf, v) = out \o Append(buf, v)
          BY <4>0
        <5> QED
          BY <2>0, <5>1
      <4> QED
        BY <2>1, <4>1 DEF Enqueue, InOrder
    <3>4. ControlInv'
      BY <1>0, <1>1, <2>1 DEF Send, Enqueue, Return, ControlInv, TypeOK, SendSelects
    <3> QED
      BY <3>2, <3>3, <3>4
  <2>2. ASSUME NEW c \in Consumers, HandOff(p, c)
        PROVE  TypeOK' /\ InOrder' /\ ControlInv'
    <3>1. sent' \in Seq(Values) /\ out' \in Seq(Values) /\ buf' = buf
      BY <2>0, <2>2, AppendElems DEF HandOff, TypeOK
    <3>2. TypeOK'
      BY <1>0, <1>1, <2>2, <3>1 DEF Send, HandOff, TypeOK
    <3>3. InOrder'
      BY <2>0, <2>2, EmptyConcat DEF HandOff, InOrder, TypeOK
    <3>4. ControlInv'
      BY <1>0, <1>1, <2>2 DEF Send, HandOff, ControlInv, TypeOK, SendSelects
    <3> QED
      BY <3>2, <3>3, <3>4
  <2> QED
    BY <1>1, <2>1, <2>2 DEF Send
<1>2. CASE Evict(p)
  <2>1. /\ buf' \in Seq(Values) /\ Len(buf') <= cap
        /\ out' \in Seq(Values) /\ evicted' \subseteq Values
        /\ InOrder'
    <3>1. CASE buf # <<>>
      <4>1. /\ out \o buf = Append(out, Head(buf)) \o Tail(buf)
            /\ Head(buf) \in Values /\ Tail(buf) \in Seq(Values)
            /\ Len(Tail(buf)) = Len(buf) - 1
        BY <3>1, HeadConcat DEF TypeOK
      <4>2. Append(out, Head(buf)) \in Seq(Values) /\ Len(buf) \in Nat
        BY <4>1, AppendElems DEF TypeOK
      <4>3. InOrder'
        BY <1>2, <3>1, <4>1 DEF Evict, InOrder
      <4>4. evicted' \subseteq Values
        BY <1>2, <3>1, <4>1, <4>2 DEF Evict, TypeOK
      <4>5. Len(buf') <= cap
        BY <1>2, <3>1, <4>1, <4>2, ChannelConstants DEF Evict, TypeOK
      <4> QED
        BY <1>2, <3>1, <4>1, <4>2, <4>3, <4>4, <4>5 DEF Evict
    <3>2. CASE buf = <<>>
      BY <1>2, <3>2 DEF Evict, InOrder, TypeOK
    <3> QED
      BY <3>1, <3>2
  <2>2. TypeOK'
    BY <1>0, <1>2, <2>1 DEF Evict, TypeOK, SendSelects
  <2>3. ControlInv'
    BY <1>0, <1>2 DEF Evict, ControlInv, TypeOK, SendSelects
  <2> QED
    BY <2>1, <2>2, <2>3
<1>3. CASE SendClosed(p)
  BY <1>0, <1>3 DEF SendClosed, Return, ClosedResult, TypeOK, InOrder, ControlInv,
     SendSelects, chanVars, histVars
<1>4. CASE PutCancelled(p)
  BY <1>0, <1>4 DEF PutCancelled, Return, TypeOK, InOrder, ControlInv, SendSelects,
     chanVars, histVars
<1>5. CASE TryFails(p)
  BY <1>0, <1>5 DEF TryFails, Return, TypeOK, InOrder, ControlInv, SendSelects,
     chanVars, histVars
<1>6. CASE Drop(p)
  BY <1>0, <1>6 DEF Drop, Return, TypeOK, InOrder, ControlInv, SendSelects,
     chanVars, histVars
<1>7. CASE SlideFull(p)
  BY <1>0, <1>7 DEF SlideFull, TypeOK, InOrder, ControlInv, SendSelects,
     chanVars, histVars
<1>8. CASE RetryFull(p)
  BY <1>0, <1>8 DEF RetryFull, TypeOK, InOrder, ControlInv, SendSelects,
     chanVars, histVars
<1> QED
  BY <1>1, <1>2, <1>3, <1>4, <1>5, <1>6, <1>7, <1>8 DEF PutStep

(* Each step of a taker.                                                   *)
LEMMA TakeStepBasics ==
    ASSUME IInv, NEW c \in Consumers,
           \/ TakeStep(c) \/ Poll(c)
           \/ \E o \in {"take", "altsTake"} : StartTake(c, o)
           \/ \E p \in Producers : PollParked(c, p)
    PROVE  TypeOK' /\ InOrder' /\ ControlInv'
<1> USE DEF IInv
<1>0. c \in Procs /\ c \notin Producers /\ c \notin Closers
      /\ Producers \subseteq Procs /\ MaxOps \in Nat
  BY ChannelConstants DEF Procs
<1>1. ASSUME Dequeue, sent' = sent
      PROVE  /\ buf' \in Seq(Values) /\ Len(buf') <= cap
             /\ out' \in Seq(Values) /\ InOrder'
  <2>1. /\ out \o buf = Append(out, Head(buf)) \o Tail(buf)
        /\ Head(buf) \in Values /\ Tail(buf) \in Seq(Values)
        /\ Len(Tail(buf)) = Len(buf) - 1
    BY <1>1, HeadConcat DEF Dequeue, TypeOK
  <2>2. Append(out, Head(buf)) \in Seq(Values) /\ Len(buf) \in Nat
    BY <2>1, AppendElems DEF TypeOK
  <2> QED
    BY <1>1, <2>1, <2>2, ChannelConstants DEF Dequeue, InOrder, TypeOK
<1>2. CASE Receive(c)
  <2>1. /\ buf' \in Seq(Values) /\ Len(buf') <= cap
        /\ out' \in Seq(Values) /\ InOrder'
    BY <1>1, <1>2 DEF Receive
  <2>2. TypeOK'
    BY <1>0, <1>2, <2>1 DEF Receive, Return, TypeOK
  <2>3. ControlInv'
    BY <1>0, <1>2 DEF Receive, Return, ControlInv, TypeOK, SendSelects
  <2> QED
    BY <2>1, <2>2, <2>3
<1>3. CASE Poll(c)
  <2>1. /\ buf' \in Seq(Values) /\ Len(buf') <= cap
        /\ out' \in Seq(Values) /\ InOrder'
    <3>1. CASE buf # <<>>
      BY <1>1, <1>3, <3>1 DEF Poll
    <3>2. CASE buf = <<>>
      BY <1>3, <3>2 DEF Poll, InOrder, TypeOK
    <3> QED
      BY <3>1, <3>2
  <2>2. TypeOK'
    <3>1. n' \in [Procs -> 0..MaxOps]
      BY <1>0, <1>3 DEF Poll, TypeOK
    <3>2. ret' \in [Procs -> {"none", "true", "false", "nil", "value",
                              "cancelled", "noport", "default", "error"}]
      BY <1>0, <1>3 DEF Poll, TypeOK
    <3> QED
      BY <1>0, <1>3, <2>1, <3>1, <3>2 DEF Poll, TypeOK
  <2>3. ControlInv'
    BY <1>0, <1>3 DEF Poll, ControlInv, TypeOK, SendSelects
  <2> QED
    BY <2>1, <2>2, <2>3
<1>4. ASSUME NEW p \in Producers, PollParked(c, p)
      PROVE  TypeOK' /\ InOrder' /\ ControlInv'
  <2>0. Val(p) \in Values
    BY <1>4, ValIsValue DEF PollParked, SendSelects
  <2>1. sent' \in Seq(Values) /\ out' \in Seq(Values) /\ buf' = buf
    BY <2>0, <1>4, AppendElems DEF PollParked, TypeOK, chanVars
  <2>2. TypeOK'
    <3>1. n' \in [Procs -> 0..MaxOps]
      BY <1>0, <1>4 DEF PollParked, TypeOK
    <3>2. ret' \in [Procs -> {"none", "true", "false", "nil", "value",
                              "cancelled", "noport", "default", "error"}]
      BY <1>0, <1>4 DEF PollParked, TypeOK
    <3>3. /\ pc' \in [Procs -> SendSelects \union {"idle", "evict", "take", "close"}]
          /\ op' \in [Procs -> AllPutOps \union
                          {"none", "take", "altsTake", "poll", "close"}]
      BY <1>0, <1>4 DEF PollParked, TypeOK
    <3>4. UNCHANGED <<kind, cap, policy, buf, closed, cancelled, evicted>>
      BY <1>4 DEF PollParked, chanVars
    <3> QED
      BY <2>1, <3>1, <3>2, <3>3, <3>4 DEF TypeOK
  <2>3. InOrder'
    <3>1. buf = <<>>
      BY <1>4, ChannelConstants DEF PollParked, TypeOK
    <3> QED
      BY <2>0, <1>4, <3>1, EmptyConcat DEF PollParked, InOrder, TypeOK, chanVars
  <2>4. ControlInv'
    BY <1>0, <1>4 DEF PollParked, ControlInv, TypeOK, SendSelects, chanVars
  <2> QED
    BY <2>2, <2>3, <2>4
<1>5. CASE ReceiveClosed(c)
  BY <1>0, <1>5 DEF ReceiveClosed, Return, TypeOK, InOrder, ControlInv, SendSelects,
     chanVars, histVars
<1>6. CASE TakeCancelled(c)
  BY <1>0, <1>6 DEF TakeCancelled, Return, TypeOK, InOrder, ControlInv, SendSelects,
     chanVars, histVars
<1>7. ASSUME NEW o \in {"take", "altsTake"}, StartTake(c, o)
      PROVE  TypeOK' /\ InOrder' /\ ControlInv'
  <2>1. TypeOK'
    BY <1>0, <1>7 DEF StartTake, Start, TypeOK, chanVars, histVars
  <2>2. InOrder' /\ ControlInv'
    BY <1>0, <1>7 DEF StartTake, Start, TypeOK, InOrder, ControlInv, SendSelects,
       chanVars, histVars
  <2> QED
    BY <2>1, <2>2
<1> QED
  BY <1>2, <1>3, <1>4, <1>5, <1>6, <1>7 DEF TakeStep

(* Starting a put, closing and cancelling.                                 *)
LEMMA OtherBasics ==
    ASSUME IInv,
           \/ \E p \in Producers, o \in AllPutOps : StartPut(p, o)
           \/ \E q \in Closers : CloseStart(q) \/ CloseEnd(q)
           \/ \E p \in Cancellable : Cancel(p)
    PROVE  TypeOK' /\ InOrder' /\ ControlInv'
<1> USE DEF IInv
<1>0. MaxOps \in Nat
  BY ChannelConstants
<1>1. ASSUME NEW p \in Producers, NEW o \in AllPutOps, StartPut(p, o)
      PROVE  TypeOK' /\ InOrder' /\ ControlInv'
  <2>0. p \in Procs
    BY DEF Procs
  <2>1. /\ FirstSelect(o) \in SendSelects
        /\ FirstSelect(o) = "drop" =>
              policy = "dropping" /\ o \in {"put", "offer"}
    BY DEF FirstSelect, SendSelects
  <2>2. TypeOK'
    BY <1>0, <1>1, <2>0, <2>1 DEF StartPut, Start, TypeOK, chanVars, histVars
  <2>3. InOrder'
    BY <1>1 DEF StartPut, InOrder, chanVars, histVars
  <2>4. kind = kind' /\ (policy = "dropping" => kind = "dropping")
    BY <1>1 DEF StartPut, TypeOK, chanVars
  <2>5. ControlInv'
    BY <1>0, <1>1, <2>0, <2>1, <2>4 DEF StartPut, Start, ControlInv, TypeOK, SendSelects
  <2> QED
    BY <2>2, <2>3, <2>5
<1>2. ASSUME NEW q \in Closers, CloseStart(q) \/ CloseEnd(q)
      PROVE  TypeOK' /\ InOrder' /\ ControlInv'
  <2>0. q \in Procs
    BY DEF Procs
  <2>1. CASE CloseStart(q)
    <3>1. TypeOK'
      BY <1>0, <2>0, <2>1 DEF CloseStart, Start, TypeOK, histVars
    <3>2. InOrder' /\ ControlInv'
      BY <2>0, <2>1 DEF CloseStart, Start, TypeOK, InOrder, ControlInv, SendSelects, histVars
    <3> QED
      BY <3>1, <3>2
  <2>2. CASE CloseEnd(q)
    BY <2>0, <2>2 DEF CloseEnd, Return, TypeOK, InOrder, ControlInv, SendSelects, histVars
  <2> QED
    BY <1>2, <2>1, <2>2
<1>3. ASSUME NEW p \in Cancellable, Cancel(p)
      PROVE  TypeOK' /\ InOrder' /\ ControlInv'
  BY <1>3, ChannelConstants DEF Cancel, TypeOK, InOrder, ControlInv, chanVars, histVars
<1> QED
  BY <1>1, <1>2, <1>3

-----------------------------------------------------------------------------
(* Each step keeps what is known about the values.                         *)
LEMMA ValueStep ==
    ASSUME IInv, Next PROVE ValueInv' /\ PutTellsTheTruth'
<1> USE DEF IInv
<1>0. /\ Producers \subseteq Procs /\ Consumers \subseteq Procs
      /\ Closers \subseteq Procs
      /\ Producers \intersect Consumers = {}
      /\ Producers \intersect Closers = {}
  BY ChannelConstants DEF Procs
<1>1. ASSUME NEW p \in Producers, Send(p)
      PROVE  ValueInv' /\ PutTellsTheTruth'
  <2>1. /\ pc[p] \in SendSelects
        /\ sent' = Append(sent, Val(p))
        /\ UNCHANGED <<kind, closed>>
        /\ \A q \in Producers : op'[q] = op[q] /\ n'[q] = n[q]
    BY <1>1 DEF Send, Enqueue, HandOff
  <2>2. /\ pc'[p] = "idle" /\ ret'[p] = "true"
        /\ \A q \in Producers \ {p} : pc'[q] = pc[q] /\ ret'[q] = ret[q]
    BY <1>0, <1>1 DEF Send, Enqueue, HandOff, Return, TypeOK
  <2> QED
    BY <2>1, <2>2, AcceptStep
<1>2. ASSUME NEW c \in Consumers, NEW p \in Producers, PollParked(c, p)
      PROVE  ValueInv' /\ PutTellsTheTruth'
  <2>1. /\ pc[p] \in SendSelects
        /\ sent' = Append(sent, Val(p))
        /\ UNCHANGED <<kind, closed>>
    BY <1>2 DEF PollParked, SendSelects, chanVars
  <2>2. /\ pc'[p] = "idle" /\ ret'[p] = "true"
        /\ \A q \in Producers \ {p} : pc'[q] = pc[q] /\ ret'[q] = ret[q]
        /\ \A q \in Producers : op'[q] = op[q] /\ n'[q] = n[q]
    BY <1>0, <1>2 DEF PollParked, TypeOK
  <2> QED
    BY <2>1, <2>2, AcceptStep
<1>3. ASSUME NEW p \in Producers,
             \/ SendClosed(p) \/ PutCancelled(p) \/ TryFails(p) \/ Drop(p)
             \/ SlideFull(p) \/ Evict(p) \/ RetryFull(p)
      PROVE  ValueInv' /\ PutTellsTheTruth'
  <2>1. /\ UNCHANGED <<kind, sent, closed, op, n>>
        /\ pc[p] # "idle"
    BY <1>3 DEF SendClosed, PutCancelled, TryFails, Drop, SlideFull, Evict,
       RetryFull, HasDone, chanVars, histVars, SendSelects
  <2>2. \A q \in Producers \ {p} : pc'[q] = pc[q] /\ ret'[q] = ret[q]
    BY <1>0, <1>3 DEF SendClosed, PutCancelled, TryFails, Drop, SlideFull, Evict,
       RetryFull, Return, TypeOK
  <2>3. \/ pc'[p] # "idle"
        \/ ret'[p] = "true" /\ kind = "dropping" /\ op[p] \in {"put", "offer"}
        \/ ret'[p] # "true" /\ (ret'[p] \in {"false", "error"} => closed)
    <3>1. CASE SendClosed(p)
      BY <1>0, <3>1 DEF SendClosed, Return, ClosedResult, TypeOK
    <3>2. CASE Drop(p)
      BY <1>0, <3>2 DEF Drop, Return, ControlInv, TypeOK
    <3>3. CASE PutCancelled(p) \/ TryFails(p)
      BY <1>0, <3>3 DEF PutCancelled, TryFails, Return, TypeOK
    <3>4. CASE SlideFull(p) \/ Evict(p) \/ RetryFull(p)
      BY <1>0, <3>4 DEF SlideFull, Evict, RetryFull, TypeOK
    <3> QED
      BY <1>3, <3>1, <3>2, <3>3, <3>4
  <2>4. p \in Procs
    BY <1>0
  <2> QED
    BY <2>1, <2>2, <2>3, <2>4, QuietStep
<1>4. ASSUME NEW p \in Producers, NEW o \in AllPutOps, StartPut(p, o)
      PROVE  ValueInv' /\ PutTellsTheTruth'
  <2>1. FirstSelect(o) # "idle"
    BY DEF FirstSelect
  <2>2. /\ UNCHANGED <<kind, sent, closed>>
        /\ pc[p] = "idle" /\ pc'[p] # "idle" /\ n'[p] = n[p] + 1
        /\ \A q \in Producers \ {p} :
              pc'[q] = pc[q] /\ ret'[q] = ret[q] /\ op'[q] = op[q] /\ n'[q] = n[q]
    BY <1>0, <1>4, <2>1 DEF StartPut, Start, TypeOK, chanVars, histVars
  <2>3. p \in Procs
    BY <1>0
  <2> QED
    BY <2>2, <2>3, QuietStep
<1>5. ASSUME NEW c \in Procs \ Producers, UNCHANGED <<kind, sent>>, closed => closed',
             \A q \in Producers :
                pc'[q] = pc[q] /\ ret'[q] = ret[q] /\ op'[q] = op[q] /\ n'[q] = n[q]
      PROVE  ValueInv' /\ PutTellsTheTruth'
  BY <1>5, QuietStep
<1>6. ASSUME NEW c \in Consumers,
             \/ TakeStep(c) \/ Poll(c)
             \/ \E o \in {"take", "altsTake"} : StartTake(c, o)
      PROVE  ValueInv' /\ PutTellsTheTruth'
  <2>1. /\ UNCHANGED <<kind, sent, closed>>
        /\ \A q \in Producers :
              pc'[q] = pc[q] /\ ret'[q] = ret[q] /\ op'[q] = op[q] /\ n'[q] = n[q]
    BY <1>0, <1>6 DEF TakeStep, Receive, ReceiveClosed, TakeCancelled, Poll,
       StartTake, Start, Return, TypeOK, chanVars, histVars
  <2> QED
    BY <1>0, <1>5, <2>1
<1>7. ASSUME NEW q \in Closers, CloseStart(q) \/ CloseEnd(q)
      PROVE  ValueInv' /\ PutTellsTheTruth'
  <2>1. /\ UNCHANGED <<kind, sent>> /\ (closed => closed')
        /\ \A r \in Producers :
              pc'[r] = pc[r] /\ ret'[r] = ret[r] /\ op'[r] = op[r] /\ n'[r] = n[r]
    BY <1>0, <1>7 DEF CloseStart, CloseEnd, Start, Return, TypeOK, histVars
  <2> QED
    BY <1>0, <1>5, <2>1
<1>8. ASSUME NEW p \in Cancellable, Cancel(p)
      PROVE  ValueInv' /\ PutTellsTheTruth'
  BY <1>8 DEF Cancel, ValueInv, PutTellsTheTruth, WasSent, chanVars, histVars
<1> QED
  BY <1>1, <1>2, <1>3, <1>4, <1>6, <1>7, <1>8 DEF Next, PutStep

(* The invariant is inductive.                                             *)
LEMMA NextInv == IInv /\ [Next]_vars => IInv'
<1> SUFFICES ASSUME IInv, [Next]_vars PROVE IInv'
  OBVIOUS
<1>1. CASE Next
  <2>1. TypeOK' /\ InOrder' /\ ControlInv'
    BY <1>1, PutStepBasics, TakeStepBasics, OtherBasics DEF Next
  <2>2. ValueInv' /\ PutTellsTheTruth'
    BY <1>1, ValueStep
  <2> QED
    BY <2>1, <2>2 DEF IInv
<1>2. CASE UNCHANGED vars
  BY <1>2 DEF IInv, TypeOK, InOrder, ControlInv, ValueInv, PutTellsTheTruth,
     WasSent, vars, chanVars, histVars
<1> QED
  BY <1>1, <1>2

(* Channel maintains its inductive invariant.                              *)
THEOREM InductiveInvariant == Spec => []IInv
BY InitInv, NextInv, PTL DEF Spec

(* Every reachable state is well typed; in particular the buffer never     *)
(* holds more than cap values.                                             *)
THEOREM TypeCorrect == Spec => []TypeOK
<1>1. IInv => TypeOK
  BY DEF IInv
<1> QED
  BY <1>1, InductiveInvariant, PTL

(* Values leave a channel in the order in which it accepted them, each     *)
(* once, under every policy and whatever puts, evictions and takes race.   *)
THEOREM Ordered == Spec => []InOrder
<1>1. IInv => InOrder
  BY DEF IInv
<1> QED
  BY <1>1, InductiveInvariant, PTL

(* >!, offer! and alts! report an accepted value as accepted and any other *)
(* as not accepted, close! and cancellation racing included.               *)
THEOREM Truthful == Spec => []PutTellsTheTruth
<1>1. IInv => PutTellsTheTruth
  BY DEF IInv
<1> QED
  BY <1>1, InductiveInvariant, PTL

-----------------------------------------------------------------------------
(* What evictions and the end of the stream leave behind.                  *)

(* A value that leaves by the front is recorded, and the others stay.      *)
LEMMA OutGrows ==
    ASSUME TypeOK, NEW v \in Values, out' = Append(out, v)
    PROVE  /\ \A i \in 1..Len(out) : i \in 1..Len(out') /\ out'[i] = out[i]
           /\ \E i \in 1..Len(out') : out'[i] = v
<1>1. /\ Len(out) \in Nat /\ Len(out') = Len(out) + 1
      /\ \A i \in 1..Len(out) : out'[i] = out[i]
      /\ out'[Len(out) + 1] = v
  BY AppendElems DEF TypeOK
<1> QED
  BY <1>1

(* What has left the channel was accepted by it.                           *)
LEMMA OutWasSent ==
    ASSUME TypeOK, InOrder, NEW i \in 1..Len(out)
    PROVE  i \in 1..Len(sent) /\ sent[i] = out[i]
<1>1. \A s, t \in Seq(Values) :
         \A j \in 1..Len(s) : j \in 1..Len(s \o t) /\ (s \o t)[j] = s[j]
  OBVIOUS
<1> QED
  BY <1>1 DEF TypeOK, InOrder

(* The value of a put under way was not evicted, unless it is nil.         *)
LEMMA FreshValue ==
    ASSUME IInv, EvictedInv, NEW p \in Producers, pc[p] \in SendSelects,
           Val(p) # Nil
    PROVE  Val(p) \notin evicted
<1> USE DEF IInv
<1>1. Val(p) = <<p, n[p]>> /\ n[p] \in 1..MaxOps
  BY ValIsValue DEF Val
<1>2. ASSUME Val(p) \in evicted PROVE FALSE
  <2>1. PICK i \in 1..Len(out) : out[i] = Val(p)
    BY <1>2 DEF EvictedInv
  <2>2. i \in 1..Len(sent) /\ sent[i] = <<p, n[p]>>
    BY <1>1, <2>1, OutWasSent
  <2>3. pc[p] # "idle"
    BY DEF SendSelects
  <2> QED
    BY <1>1, <2>2, <2>3 DEF ValueInv
<1> QED
  BY <1>2

(* A value accepted from a put that moves on keeps the newest: it is the   *)
(* last one, and it was not evicted.                                       *)
LEMMA AcceptKeepsNewest ==
    ASSUME IInv, EvictedInv, NEW p \in Producers, pc[p] \in SendSelects,
           sent' = Append(sent, Val(p)), UNCHANGED evicted
    PROVE  NewestSurvives'
<1>1. Val(p) \in Values
  BY ValIsValue DEF IInv
<1>2. sent'[Len(sent')] = Val(p)
  BY <1>1, AppendElems DEF IInv, TypeOK
<1>3. Val(p) # Nil => Val(p) \notin evicted
  BY FreshValue
<1> QED
  BY <1>2, <1>3 DEF NewestSurvives

(* Whoever is in the loop of a sliding put leaves it by a send, or when    *)
(* the channel is closed or the scope cancelled.                           *)
LEMMA LoopGoesOn ==
    ASSUME NewestSurvives, UNCHANGED <<kind, sent, evicted>>,
           closed => closed', cancelled \subseteq cancelled',
           \/ closed'
           \/ cancelled' # {}
           \/ \A p \in Producers : pc[p] \in {"slide", "evict", "retry"} =>
                                      pc'[p] \in {"slide", "evict", "retry"}
    PROVE  NewestSurvives'
<1> SUFFICES ASSUME kind = "sliding", ~closed', cancelled' = {}, sent # <<>>,
                    \A p \in Producers : pc'[p] \notin {"slide", "evict", "retry"},
                    sent[Len(sent)] # Nil
             PROVE  sent[Len(sent)] \notin evicted
  BY DEF NewestSurvives
<1>1. ~closed /\ cancelled = {}
  OBVIOUS
<1>2. \A p \in Producers : pc[p] \notin {"slide", "evict", "retry"}
  OBVIOUS
<1> QED
  BY <1>1, <1>2 DEF NewestSurvives

(* Nothing enters a closed channel, so a stream that has ended stays       *)
(* ended; c is the process that moves, if a taker does.                    *)
LEMMA EndStays ==
    ASSUME EndOfStream, closed => closed', closed /\ buf = <<>> => buf' = <<>>,
           \A i \in 1..Len(out) : i \in 1..Len(out') /\ out'[i] = out[i],
           \A c \in Consumers :
              \/ pc'[c] = pc[c] /\ op'[c] = op[c] /\ ret'[c] = ret[c]
              \/ pc'[c] # "idle" \/ ret'[c] # "nil"
              \/ op'[c] \notin {"take", "altsTake"}
              \/ closed' /\ buf' = <<>>
              \/ \E i \in 1..Len(out') : out'[i] = Nil
    PROVE  EndOfStream'
  BY DEF EndOfStream

(* The steps that a value is accepted in.                                  *)
LEMMA FlowAccept ==
    ASSUME IInv, FlowInv, NEW p \in Producers,
           Send(p) \/ \E c \in Consumers : PollParked(c, p)
    PROVE  FlowInv'
<1> USE DEF IInv, FlowInv
<1>0. /\ Consumers \subseteq Procs /\ p \in Procs
      /\ Producers \intersect Consumers = {}
  BY ChannelConstants DEF Procs
<1>1. /\ pc[p] \in SendSelects /\ ~closed
      /\ sent' = Append(sent, Val(p)) /\ UNCHANGED <<closed, evicted>>
  BY DEF Send, Enqueue, HandOff, PollParked, SendSelects, chanVars
<1>2. Val(p) \in Values
  BY <1>1, ValIsValue
<1>3. NewestSurvives'
  BY <1>1, AcceptKeepsNewest
<1>4. CASE Send(p) /\ Enqueue(p)
  <2>1. out' = out /\ op' = op
        /\ \A c \in Consumers : pc'[c] = pc[c] /\ ret'[c] = ret[c]
    BY <1>0, <1>4 DEF Send, Enqueue, Return, TypeOK
  <2>2. EvictedInv'
    BY <1>1, <2>1 DEF EvictedInv
  <2>3. EndOfStream'
    BY <1>1, <2>1, EndStays
  <2> QED
    BY <1>3, <2>2, <2>3
<1>5. ASSUME NEW c \in Consumers,
             \/ Send(p) /\ HandOff(p, c)
             \/ PollParked(c, p)
      PROVE  FlowInv'
  <2>1. /\ out' = Append(out, Val(p)) /\ buf' = buf
        /\ ret'[c] = IF Val(p) = Nil THEN "nil" ELSE "value"
        /\ \A d \in Consumers \ {c} :
              pc'[d] = pc[d] /\ ret'[d] = ret[d] /\ op'[d] = op[d]
    BY <1>0, <1>5 DEF Send, HandOff, PollParked, TypeOK, chanVars
  <2>2. /\ \A i \in 1..Len(out) : i \in 1..Len(out') /\ out'[i] = out[i]
        /\ \E i \in 1..Len(out') : out'[i] = Val(p)
    BY <1>2, <2>1, OutGrows
  <2>3. EvictedInv'
    BY <1>1, <2>2 DEF EvictedInv
  <2>4. ret'[c] = "nil" => \E i \in 1..Len(out') : out'[i] = Nil
    BY <2>1, <2>2
  <2>5. EndOfStream'
    BY <1>1, <2>1, <2>2, <2>4, EndStays
  <2> QED
    BY <1>3, <2>3, <2>5
<1> QED
  BY <1>4, <1>5 DEF Send

(* The steps that a value leaves the buffer in.                            *)
LEMMA FlowLeave ==
    ASSUME IInv, FlowInv,
           \/ \E p \in Producers : Evict(p)
           \/ \E c \in Consumers : Receive(c) \/ Poll(c)
    PROVE  FlowInv'
<1> USE DEF IInv, FlowInv
<1>0. /\ Consumers \subseteq Procs /\ Producers \subseteq Procs
      /\ Producers \intersect Consumers = {}
  BY ChannelConstants DEF Procs
<1>1. ASSUME buf # <<>>
      PROVE  Head(buf) \in Values
  BY <1>1, HeadConcat DEF TypeOK
<1>2. ASSUME NEW p \in Producers, Evict(p) PROVE FlowInv'
  <2>1. /\ pc'[p] = "retry" /\ UNCHANGED <<kind, closed, cancelled, sent, op, ret>>
        /\ \A q \in Procs \ {p} : pc'[q] = pc[q]
    BY <1>0, <1>2 DEF Evict, TypeOK
  <2>2. NewestSurvives'
    BY <2>1 DEF NewestSurvives
  <2>3. CASE buf # <<>>
    <3>1. /\ out' = Append(out, Head(buf))
          /\ evicted' = evicted \union {Head(buf)}
      BY <1>2, <2>3 DEF Evict
    <3>2. /\ \A i \in 1..Len(out) : i \in 1..Len(out') /\ out'[i] = out[i]
          /\ \E i \in 1..Len(out') : out'[i] = Head(buf)
      BY <1>1, <2>3, <3>1, OutGrows
    <3>3. EvictedInv'
      BY <3>1, <3>2 DEF EvictedInv
    <3>4. EndOfStream'
      BY <1>0, <2>1, <2>3, <3>2, EndStays
    <3> QED
      BY <2>2, <3>3, <3>4
  <2>4. CASE buf = <<>>
    <3>1. UNCHANGED <<buf, out, evicted>>
      BY <1>2, <2>4 DEF Evict
    <3>2. EvictedInv' /\ EndOfStream'
      BY <1>0, <2>1, <3>1, EndStays DEF EvictedInv
    <3> QED
      BY <2>2, <3>2
  <2> QED
    BY <2>3, <2>4
<1>3. ASSUME NEW c \in Consumers, Receive(c) \/ Poll(c) PROVE FlowInv'
  <2>1. /\ UNCHANGED <<kind, closed, cancelled, sent, evicted>>
        /\ \A q \in Procs \ {c} :
              pc'[q] = pc[q] /\ op'[q] = op[q] /\ ret'[q] = ret[q]
    BY <1>0, <1>3 DEF Receive, Return, Poll, TypeOK
  <2>2. NewestSurvives'
    BY <1>0, <2>1, LoopGoesOn
  <2>3. CASE buf # <<>>
    <3>1. /\ out' = Append(out, Head(buf))
          /\ ret'[c] = IF Head(buf) = Nil THEN "nil" ELSE "value"
      BY <1>0, <1>3, <2>3 DEF Receive, Poll, Dequeue, Return, TypeOK
    <3>2. /\ \A i \in 1..Len(out) : i \in 1..Len(out') /\ out'[i] = out[i]
          /\ \E i \in 1..Len(out') : out'[i] = Head(buf)
      BY <1>1, <2>3, <3>1, OutGrows
    <3>3. EvictedInv'
      BY <2>1, <3>2 DEF EvictedInv
    <3>4. ret'[c] = "nil" => \E i \in 1..Len(out') : out'[i] = Nil
      BY <3>1, <3>2
    <3>5. EndOfStream'
      BY <1>0, <2>1, <2>3, <3>2, <3>4, EndStays
    <3> QED
      BY <2>2, <3>3, <3>5
  <2>4. CASE buf = <<>>
    <3>1. UNCHANGED <<buf, out>> /\ op'[c] = "poll"
      BY <1>0, <1>3, <2>4 DEF Receive, Poll, Dequeue, TypeOK
    <3>2. EvictedInv' /\ EndOfStream'
      BY <1>0, <2>1, <3>1, EndStays DEF EvictedInv
    <3> QED
      BY <2>2, <3>2
  <2> QED
    BY <2>3, <2>4
<1> QED
  BY <1>2, <1>3

(* The steps that no value moves in.                                       *)
LEMMA FlowStill ==
    ASSUME IInv, FlowInv,
           \/ \E p \in Producers :
                 \/ SendClosed(p) \/ PutCancelled(p) \/ TryFails(p) \/ Drop(p)
                 \/ SlideFull(p) \/ RetryFull(p)
                 \/ \E o \in AllPutOps : StartPut(p, o)
           \/ \E c \in Consumers :
                 \/ ReceiveClosed(c) \/ TakeCancelled(c)
                 \/ \E o \in {"take", "altsTake"} : StartTake(c, o)
           \/ \E q \in Closers : CloseStart(q) \/ CloseEnd(q)
           \/ \E p \in Cancellable : Cancel(p)
    PROVE  FlowInv'
<1> USE DEF IInv, FlowInv
<1>0. /\ Consumers \subseteq Procs /\ Producers \subseteq Procs
      /\ Closers \subseteq Procs
      /\ Producers \intersect Consumers = {}
      /\ Closers \intersect (Producers \union Consumers) = {}
  BY ChannelConstants DEF Procs
<1>1. /\ UNCHANGED <<kind, buf, sent, out, evicted>>
      /\ closed => closed'
      /\ cancelled \subseteq cancelled'
  BY DEF SendClosed, PutCancelled, TryFails, Drop, SlideFull, RetryFull,
     StartPut, ReceiveClosed, TakeCancelled, StartTake, CloseStart, CloseEnd,
     Cancel, chanVars, histVars, TypeOK
<1>2. EvictedInv'
  BY <1>1 DEF EvictedInv
<1>3. \/ closed'
      \/ cancelled' # {}
      \/ \A p \in Producers : pc[p] \in {"slide", "evict", "retry"} =>
                                 pc'[p] \in {"slide", "evict", "retry"}
  <2>1. ASSUME NEW p \in Producers,
               \/ SlideFull(p) \/ RetryFull(p) \/ TryFails(p) \/ Drop(p)
               \/ \E o \in AllPutOps : StartPut(p, o)
        PROVE  \A q \in Producers : pc[q] \in {"slide", "evict", "retry"} =>
                                       pc'[q] \in {"slide", "evict", "retry"}
    BY <1>0, <2>1 DEF SlideFull, RetryFull, TryFails, Drop, StartPut, Start,
       Return, TypeOK
  <2>2. ASSUME NEW p \in Producers, SendClosed(p) \/ PutCancelled(p)
        PROVE  closed' \/ cancelled' # {}
    BY <2>2 DEF SendClosed, PutCancelled, chanVars
  <2>3. ASSUME NEW c \in Consumers,
               \/ ReceiveClosed(c) \/ TakeCancelled(c)
               \/ \E o \in {"take", "altsTake"} : StartTake(c, o)
        PROVE  \A p \in Producers : pc'[p] = pc[p]
    BY <1>0, <2>3 DEF ReceiveClosed, TakeCancelled, StartTake, Start, Return,
       TypeOK
  <2>4. ASSUME NEW q \in Closers, CloseStart(q) \/ CloseEnd(q)
        PROVE  \A p \in Producers : pc'[p] = pc[p]
    BY <1>0, <2>4 DEF CloseStart, CloseEnd, Start, Return, TypeOK
  <2>5. ASSUME NEW p \in Cancellable, Cancel(p) PROVE cancelled' # {}
    BY <2>5 DEF Cancel
  <2> QED
    BY <2>1, <2>2, <2>3, <2>4, <2>5
<1>4. NewestSurvives'
  BY <1>1, <1>3, LoopGoesOn
<1>5. \A c \in Consumers :
         \/ pc'[c] = pc[c] /\ op'[c] = op[c] /\ ret'[c] = ret[c]
         \/ pc'[c] # "idle" \/ ret'[c] # "nil"
         \/ closed' /\ buf' = <<>>
  <2>1. ASSUME NEW p \in Procs \ Consumers,
               \/ SendClosed(p) \/ PutCancelled(p) \/ TryFails(p) \/ Drop(p)
               \/ SlideFull(p) \/ RetryFull(p)
               \/ \E o \in AllPutOps : StartPut(p, o)
               \/ CloseStart(p) \/ CloseEnd(p)
        PROVE  \A c \in Consumers :
                  pc'[c] = pc[c] /\ op'[c] = op[c] /\ ret'[c] = ret[c]
    BY <1>0, <2>1 DEF SendClosed, PutCancelled, TryFails, Drop, SlideFull,
       RetryFull, StartPut, CloseStart, CloseEnd, Start, Return, TypeOK
  <2>2. ASSUME NEW c \in Consumers,
               \/ ReceiveClosed(c) \/ TakeCancelled(c)
               \/ \E o \in {"take", "altsTake"} : StartTake(c, o)
        PROVE  /\ \A d \in Consumers \ {c} :
                     pc'[d] = pc[d] /\ op'[d] = op[d] /\ ret'[d] = ret[d]
               /\ \/ pc'[c] # "idle" \/ ret'[c] # "nil"
                  \/ closed' /\ buf' = <<>>
    BY <1>0, <2>2 DEF ReceiveClosed, TakeCancelled, StartTake, Start, Return,
       TypeOK, chanVars
  <2>3. ASSUME NEW p \in Cancellable, Cancel(p) PROVE UNCHANGED <<pc, op, ret>>
    BY <2>3 DEF Cancel
  <2> QED
    BY <1>0, <2>1, <2>2, <2>3
<1>6. EndOfStream'
  BY <1>1, <1>5, EndStays
<1> QED
  BY <1>2, <1>4, <1>6

(* FlowInv is inductive relative to IInv.                                  *)
THEOREM FlowInvariant == Spec => []FlowInv
<1>1. Init => FlowInv
  BY DEF Init, FlowInv, EvictedInv, NewestSurvives, EndOfStream, Procs
<1>2. IInv /\ FlowInv /\ [Next]_vars => FlowInv'
  <2> SUFFICES ASSUME IInv, FlowInv, [Next]_vars PROVE FlowInv'
    OBVIOUS
  <2>1. CASE Next
    BY <2>1, FlowAccept, FlowLeave, FlowStill DEF Next, PutStep, TakeStep
  <2>2. CASE UNCHANGED vars
    BY <2>2 DEF FlowInv, EvictedInv, NewestSurvives, EndOfStream, vars,
       chanVars, histVars
  <2> QED
    BY <2>1, <2>2
<1> QED
  BY <1>1, <1>2, InductiveInvariant, PTL DEF Spec

(* The loop of a sliding put never loses the newest value, whatever other  *)
(* producers, takers and evictions do between its selects.                 *)
THEOREM SlidingKeepsNewest == Spec => []NewestSurvives
<1>1. FlowInv => NewestSurvives
  BY DEF FlowInv
<1> QED
  BY <1>1, FlowInvariant, PTL

(* A take that returns nil has seen a closed and drained channel.          *)
THEOREM NilMeansEnd == Spec => []EndOfStream
<1>1. FlowInv => EndOfStream
  BY DEF FlowInv
<1> QED
  BY <1>1, FlowInvariant, PTL

=============================================================================
