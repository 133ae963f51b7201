----------------------------- MODULE HostProofs -----------------------------
(***************************************************************************)
(* Proofs about what let-go is handed from outside.                        *)
(*                                                                         *)
(* Pods: the router of a pod cannot panic, the maps of calls stay tidy and *)
(* every caller gets what the pod sent to its own call, for any number of  *)
(* calls, any capacities, any replies.                                     *)
(*                                                                         *)
(* KeySource: the keys that are read are the bytes that were typed, for    *)
(* any input, any pieces it arrives in and any number of readers; and for  *)
(* one reader a key is cut short only after a silence or at the end.       *)
(***************************************************************************)
EXTENDS Pods, KeySource, SequenceTheorems, FiniteSetTheorems,
        WellFoundedInduction, TLAPS

USE DEF Goto, podVars, mapVars, routerVars, handlerVars

LEMMA CallSets ==
    /\ SyncCalls \subseteq Calls /\ AsyncCalls \subseteq Calls
    /\ \A c \in Calls : c \in SyncCalls <=> c \notin AsyncCalls
  BY PodsConstants DEF Calls

\* The messages in a pipe or channel, and the one that is taken out.
LEMMA Taken ==
    ASSUME NEW s \in Seq(Msgs), s # <<>>
    PROVE  /\ Head(s) \in Msgs /\ Head(s) = s[1] /\ Len(s) >= 1
           /\ Tail(s) \in Seq(Msgs) /\ Len(Tail(s)) = Len(s) - 1
           /\ \A i \in 1..Len(s) - 1 : Tail(s)[i] = s[i + 1]
  BY HeadTailProperties

LEMMA Grown ==
    ASSUME NEW s \in Seq(Msgs), NEW m \in Msgs
    PROVE  /\ Append(s, m) \in Seq(Msgs) /\ Append(s, m) # <<>>
           /\ Len(Append(s, m)) = Len(s) + 1 /\ Last(Append(s, m)) = m
           /\ Append(s, m)[Len(s) + 1] = m
           /\ \A i \in 1..Len(s) : Append(s, m)[i] = s[i]
  BY AppendProperties DEF Last

LEMMA MsgFields ==
    /\ None \notin Msgs
    /\ \A m \in Msgs : m.id \in Calls /\ m.done \in BOOLEAN /\ m.n \in Nat
  BY DEF Msgs, None

\* A reply belongs to its call, has a kind the pod may send, and is done if
\* it is the last.
LEMMA ReplyEffect ==
    ASSUME TypeOK, PodsInv, NEW c \in Calls, Reply(c)
    PROVE  \E m \in Msgs :
              /\ m.id = c /\ m.n = Len(said[c]) + 1
              /\ Len(said[c]) + 1 <= Len(ReplyKinds[c])
              /\ Len(said[c]) + 1 = Len(ReplyKinds[c]) => m.done
              /\ said' = [said EXCEPT ![c] = Append(said[c], m)]
              /\ wire' = Append(wire, m)
<1>1. Len(said[c]) \in Nat /\ Len(said[c]) + 1 \in 1..Len(ReplyKinds[c])
  BY PodsConstants DEF TypeOK, PodsInv, CallInv, Reply
<1> DEFINE M(k, d) == [id |-> c, kind |-> k, done |-> d, n |-> Len(said[c]) + 1]
<1>2. PICK k \in ReplyKinds[c][Len(said[c]) + 1], d \in BOOLEAN :
         /\ M(k, d).n = Len(ReplyKinds[c]) => d
         /\ said' = [said EXCEPT ![c] = Append(said[c], M(k, d))]
         /\ wire' = Append(wire, M(k, d))
  BY DEF Reply
<1>3. k \in Kinds
  BY <1>1, PodsConstants
<1>4. M(k, d) \in Msgs
  BY <1>1, <1>3 DEF Msgs
<1>5. M(k, d).id = c /\ M(k, d).done = d /\ M(k, d).n = Len(said[c]) + 1
  OBVIOUS
<1>6. Len(said[c]) + 1 = Len(ReplyKinds[c]) => M(k, d).done
  BY <1>2, <1>5
<1>7. Len(said[c]) + 1 <= Len(ReplyKinds[c])
  BY <1>1
<1> HIDE DEF M
<1> QED  BY <1>2, <1>4, <1>5, <1>6, <1>7, Zenon

LEMMA TypeInit == Init => TypeOK
<1> <<>> \in Seq(Msgs)
  BY EmptySeq
<1>1. [c \in Calls |-> None] \in [Calls -> Msgs \union {None}]
  OBVIOUS
<1>2. [c \in Calls |-> <<>>] \in [Calls -> Seq(Msgs)]
  OBVIOUS
<1> SUFFICES ASSUME Init PROVE TypeOK
  OBVIOUS
<1>3. said \in [Calls -> Seq(Msgs)] /\ chan \in [Calls -> Seq(Msgs)]
      /\ val \in [Calls -> Seq(Msgs)] /\ cmsg \in [Calls -> Msgs \union {None}]
  BY <1>1, <1>2, Zenon DEF Init
<1>4. pc = [c \in Calls |-> "idle"] /\ got = [c \in Calls |-> 0]
      /\ ran = [c \in Calls |-> <<>>]
  BY DEF Init
<1>5. up \in BOOLEAN /\ stdin \in BOOLEAN /\ stdout \in BOOLEAN
      /\ rstop \in BOOLEAN /\ panicked \in BOOLEAN
  BY DEF Init
<1>6. wire \in Seq(Msgs) /\ rmsg \in Msgs \union {None}
  BY Zenon DEF Init
<1>7. shutdown = "no" /\ rpc = "decode" /\ asked = {} /\ pending = {}
      /\ streaming = {} /\ stopped = {} /\ closed = {} /\ stopClosed = {}
      /\ valClosed = {} /\ failed = {}
  BY DEF Init
<1> QED  BY <1>3, <1>4, <1>5, <1>6, <1>7 DEF TypeOK
LEMMA TypeNext == TypeOK /\ PodsInv /\ [Next]_vars => TypeOK'
<1> SUFFICES ASSUME TypeOK, PodsInv, [Next]_vars PROVE TypeOK'
  OBVIOUS
<1>1. CASE PodExit
  BY <1>1 DEF TypeOK, PodExit
<1>2. CASE Shutdown
  BY <1>2 DEF TypeOK, Shutdown
<1>3. CASE Waited
  BY <1>3, EmptySeq DEF TypeOK, Waited
<1>4. CASE Route
  <2>1. Head(wire) \in Msgs /\ Tail(wire) \in Seq(Msgs)
    BY <1>4, Taken DEF TypeOK, Route
  <2>2. wire' \in Seq(Msgs) /\ rmsg' \in Msgs \union {None}
        /\ rpc' \in {"decode", "send"} /\ rstop' \in BOOLEAN
    <3>1. CASE Head(wire).id \in pending
      BY <1>4, <2>1, <3>1 DEF TypeOK, Route
    <3>2. CASE Head(wire).id \notin pending
      BY <1>4, <2>1, <3>2 DEF TypeOK, Route
    <3> QED  BY <3>1, <3>2
  <2> QED  BY <1>4, <2>2 DEF TypeOK, Route
<1>5. CASE RouterSend
  <2>1. rmsg \in Msgs /\ rmsg.id \in Calls
    BY <1>5, MsgFields DEF PodsInv, RouterInv, RouterSend
  <2>2. panicked' \in BOOLEAN
    BY <1>5 DEF RouterSend
  <2>3. chan' \in [Calls -> Seq(Msgs)]
    BY <1>5, <2>1, AppendProperties DEF TypeOK, RouterSend
  <2> QED  BY <1>5, <2>2, <2>3 DEF TypeOK, RouterSend, RouterDone
<1>6. CASE RouterGivesUp
  BY <1>6 DEF TypeOK, RouterGivesUp, RouterDone
<1>7. CASE Settle
  <2>1. rmsg.id \in Calls
    BY <1>7, MsgFields DEF PodsInv, RouterInv, Settle
  <2>2. panicked' \in BOOLEAN
    <3>1. CASE rmsg.id \in streaming
      BY <1>7, <3>1 DEF TypeOK, Settle
    <3>2. CASE rmsg.id \notin streaming
      BY <1>7, <3>2 DEF Settle
    <3> QED  BY <3>1, <3>2
  <2> QED  BY <1>7, <2>1, <2>2 DEF TypeOK, Settle, RouterDone
<1>8. CASE RouterEnds
  BY <1>8 DEF TypeOK, RouterEnds
<1>9. ASSUME NEW c \in Calls, Register(c) PROVE TypeOK'
  BY <1>9 DEF TypeOK, Register
<1>10. ASSUME NEW c \in Calls, Reply(c) PROVE TypeOK'
  <2>1. PICK m \in Msgs : /\ said' = [said EXCEPT ![c] = Append(said[c], m)]
                         /\ wire' = Append(wire, m)
    BY <1>10, ReplyEffect
  <2>2. Append(said[c], m) \in Seq(Msgs) /\ Append(wire, m) \in Seq(Msgs)
    BY Grown DEF TypeOK
  <2> QED  BY <1>10, <2>1, <2>2 DEF TypeOK, Reply
<1>11. ASSUME NEW c \in Calls, Send(c) PROVE TypeOK'
  <2>1. CASE up /\ stdin
    BY <1>11, <2>1 DEF TypeOK, Send
  <2>2. CASE ~(up /\ stdin)
    BY <1>11, <2>2 DEF TypeOK, Send
  <2> QED  BY <2>1, <2>2
<1>12. ASSUME NEW c \in Calls, Receive(c) PROVE TypeOK'
  <2>1. CASE chan[c] = <<>>
    <3>1. UNCHANGED <<chan, got>> /\ pc' = [pc EXCEPT ![c] = "returned"]
      BY <1>12, <2>1 DEF Receive
    <3> QED  BY <1>12, <3>1 DEF TypeOK, Receive
  <2>2. CASE chan[c] # <<>>
    <3>1. Head(chan[c]).n \in Nat /\ Tail(chan[c]) \in Seq(Msgs)
      BY <2>2, Taken, MsgFields DEF TypeOK
    <3>2. chan' = [chan EXCEPT ![c] = Tail(chan[c])]
          /\ got' \in [Calls -> Nat]
          /\ (pc' = pc \/ pc' = [pc EXCEPT ![c] = "threw"])
      BY <1>12, <2>2, <3>1 DEF TypeOK, Receive
    <3>3. pc' \in [Calls -> {"idle", "send", "refused", "receive", "threw", "pass",
                            "end", "close", "handled", "returned"}]
      BY <3>2 DEF TypeOK
    <3>4. chan' \in [Calls -> Seq(Msgs)]
      BY <3>1, <3>2 DEF TypeOK
    <3> QED  BY <1>12, <3>2, <3>3, <3>4 DEF TypeOK, Receive
  <2> QED  BY <2>1, <2>2
<1>13. ASSUME NEW c \in Calls, Collect(c) PROVE TypeOK'
  <2>1. CASE chan[c] = <<>>
    <3>1. UNCHANGED <<chan, cmsg>> /\ pc' = [pc EXCEPT ![c] = "end"]
      BY <1>13, <2>1 DEF Collect
    <3> QED  BY <1>13, <3>1 DEF TypeOK, Collect
  <2>2. CASE chan[c] # <<>>
    <3>1. Head(chan[c]) \in Msgs /\ Tail(chan[c]) \in Seq(Msgs)
      BY <2>2, Taken DEF TypeOK
    <3>2. chan' = [chan EXCEPT ![c] = Tail(chan[c])]
          /\ cmsg' = [cmsg EXCEPT ![c] = Head(chan[c])]
          /\ pc' = [pc EXCEPT ![c] = "pass"]
      BY <1>13, <2>2 DEF Collect
    <3> QED  BY <1>13, <3>1, <3>2 DEF TypeOK, Collect
  <2> QED  BY <2>1, <2>2
<1>14. ASSUME NEW c \in Calls, Pass(c) PROVE TypeOK'
  <2>1. cmsg[c] \in Msgs
    BY <1>14 DEF PodsInv, CallInv, Pass
  <2>2. val' \in [Calls -> Seq(Msgs)]
    <3>1. Append(val[c], cmsg[c]) \in Seq(Msgs)
      BY <2>1, AppendProperties DEF TypeOK
    <3>2. val' = val \/ val' = [val EXCEPT ![c] = Append(val[c], cmsg[c])]
      BY <1>14 DEF Pass
    <3> QED  BY <3>1, <3>2 DEF TypeOK
  <2> QED  BY <1>14, <2>2 DEF TypeOK, Pass
<1>15. ASSUME NEW c \in Calls, EndStream(c) PROVE TypeOK'
  BY <1>15 DEF TypeOK, EndStream
<1>16. ASSUME NEW c \in Calls, CloseVal(c) PROVE TypeOK'
  BY <1>16 DEF TypeOK, CloseVal
<1>17. ASSUME NEW c \in Calls, Handle(c) PROVE TypeOK'
  <2>1. Head(val[c]) \in Msgs /\ Head(val[c]).n \in Nat /\ Tail(val[c]) \in Seq(Msgs)
    BY <1>17, Taken, MsgFields DEF TypeOK, Handle
  <2>2. <<Tag(Head(val[c])), Head(val[c]).n>> \in {"success", "error", "done"} \X Nat
    BY <2>1 DEF Tag
  <2>3. Append(ran[c], <<Tag(Head(val[c])), Head(val[c]).n>>)
            \in Seq({"success", "error", "done"} \X Nat)
    BY <2>2, AppendProperties DEF TypeOK
  <2>4. ran' \in [Calls -> Seq({"success", "error", "done"} \X Nat)]
    BY <1>17, <2>3 DEF TypeOK, Handle
  <2> QED  BY <1>17, <2>1, <2>4 DEF TypeOK, Handle
<1>18. ASSUME NEW c \in Calls, HandlersEnd(c) PROVE TypeOK'
  <2>1. <<"done", 0>> \in {"success", "error", "done"} \X Nat
    OBVIOUS
  <2>2. Append(ran[c], <<"done", 0>>) \in Seq({"success", "error", "done"} \X Nat)
    BY <2>1, AppendProperties DEF TypeOK
  <2>3. ran' \in [Calls -> Seq({"success", "error", "done"} \X Nat)]
    BY <1>18, <2>2 DEF TypeOK, HandlersEnd
  <2> QED  BY <1>18, <2>3 DEF TypeOK, HandlersEnd
<1>19. CASE UNCHANGED vars
  BY <1>19 DEF TypeOK, vars
<1> QED  BY <1>1, <1>2, <1>3, <1>4, <1>5, <1>6, <1>7, <1>8, <1>9, <1>10,
        <1>11, <1>12, <1>13, <1>14, <1>15, <1>16, <1>17, <1>18, <1>19
        DEF Next, Router, Call

-----------------------------------------------------------------------------
LEMMA InvInit == Init => PodsInv
  BY PodsConstants DEF Init, PodsInv, RouterInv, CallInv, TidyInv, SaidDone, Msgs, None

(* Only the router closes channels, and only those of pending calls.       *)
LEMMA RouterNext == TypeOK /\ TypeOK' /\ PodsInv /\ [Next]_vars => RouterInv'
<1> SUFFICES ASSUME TypeOK, TypeOK', PodsInv, [Next]_vars PROVE RouterInv'
  OBVIOUS
<1> USE DEF TypeOK, PodsInv, RouterInv
<1>1. CASE PodExit
  BY <1>1 DEF PodExit
<1>2. CASE Shutdown
  BY <1>2 DEF Shutdown
<1>3. CASE Waited
  BY <1>3 DEF Waited
<1>4. CASE Route
  <2>1. Head(wire) \in Msgs
    BY <1>4, Taken DEF Route
  <2>2. CASE Head(wire).id \in pending
    <3>1. rpc' = "send" /\ rmsg' = Head(wire) /\ UNCHANGED <<pending, closed, panicked>>
          /\ UNCHANGED pc /\ (rstop' => Head(wire).id \in stopped)
      BY <1>4, <2>2 DEF Route
    <3> QED  BY <2>1, <2>2, <3>1 DEF CallInv
  <2>3. CASE Head(wire).id \notin pending
    BY <1>4, <2>3 DEF Route
  <2> QED  BY <2>2, <2>3
<1>5. CASE RouterSend
  BY <1>5 DEF RouterSend, RouterDone, Msgs
<1>6. CASE RouterGivesUp
  BY <1>6 DEF RouterGivesUp, RouterDone
<1>7. CASE Settle
  BY <1>7 DEF Settle, RouterDone
<1>8. CASE RouterEnds
  BY <1>8 DEF RouterEnds
<1>9. ASSUME NEW c \in Calls, Register(c) PROVE RouterInv'
  BY <1>9 DEF Register, CallInv
<1>10. ASSUME NEW c \in Calls, Reply(c) PROVE RouterInv'
  BY <1>10 DEF Reply
<1>11. ASSUME NEW c \in Calls, Send(c) PROVE RouterInv'
  <2>1. pc' = pc \/ \E p : p # "idle" /\ pc' = [pc EXCEPT ![c] = p]
    BY <1>11 DEF Send
  <2>2. \A x \in Calls : pc[x] # "idle" => pc'[x] # "idle"
    BY <2>1
  <2> QED  BY <1>11, <2>2, MsgFields DEF Send
<1>12. ASSUME NEW c \in Calls, Receive(c) PROVE RouterInv'
  <2>1. pc' = pc \/ \E p : p # "idle" /\ pc' = [pc EXCEPT ![c] = p]
    BY <1>12 DEF Receive
  <2>2. \A x \in Calls : pc[x] # "idle" => pc'[x] # "idle"
    BY <2>1
  <2> QED  BY <1>12, <2>2, MsgFields DEF Receive
<1>13. ASSUME NEW c \in Calls, Collect(c) PROVE RouterInv'
  <2>1. pc' = pc \/ \E p : p # "idle" /\ pc' = [pc EXCEPT ![c] = p]
    BY <1>13 DEF Collect
  <2>2. \A x \in Calls : pc[x] # "idle" => pc'[x] # "idle"
    BY <2>1
  <2> QED  BY <1>13, <2>2, MsgFields DEF Collect
<1>14. ASSUME NEW c \in Calls, Pass(c) PROVE RouterInv'
  BY <1>14 DEF Pass
<1>15. ASSUME NEW c \in Calls, EndStream(c) PROVE RouterInv'
  BY <1>15 DEF EndStream, CallInv
<1>16. ASSUME NEW c \in Calls, CloseVal(c) PROVE RouterInv'
  BY <1>16 DEF CloseVal
<1>17. ASSUME NEW c \in Calls, Handle(c) PROVE RouterInv'
  BY <1>17 DEF Handle, IsError
<1>18. ASSUME NEW c \in Calls, HandlersEnd(c) PROVE RouterInv'
  BY <1>18 DEF HandlersEnd
<1>19. CASE UNCHANGED vars
  BY <1>19 DEF vars
<1> QED  BY <1>1, <1>2, <1>3, <1>4, <1>5, <1>6, <1>7, <1>8, <1>9, <1>10,
        <1>11, <1>12, <1>13, <1>14, <1>15, <1>16, <1>17, <1>18, <1>19
        DEF Next, Router, Call

LEMMA CallNext ==
    TypeOK /\ TypeOK' /\ PodsInv /\ [Next]_vars => (\A b \in Calls : CallInv(b))'
<1> SUFFICES ASSUME TypeOK, TypeOK', PodsInv, [Next]_vars, NEW b \in Calls
             PROVE  CallInv(b)'
  OBVIOUS
<1> USE DEF TypeOK, PodsInv, CallInv
<1>1. CASE PodExit
  BY <1>1 DEF PodExit, SaidDone
<1>2. CASE Shutdown
  BY <1>2 DEF Shutdown, SaidDone
<1>3. CASE Waited
  BY <1>3 DEF Waited, SaidDone
<1>4. CASE Route
  BY <1>4 DEF Route, SaidDone
<1>5. CASE RouterSend
  BY <1>5 DEF RouterSend, RouterDone, SaidDone
<1>6. CASE RouterGivesUp
  BY <1>6 DEF RouterGivesUp, RouterDone, SaidDone
<1>7. CASE Settle
  <2>1. pending' \subseteq pending /\ closed' \subseteq closed \union {rmsg.id}
        /\ UNCHANGED <<pc, cmsg, said, asked, streaming, stopped>>
    BY <1>7 DEF Settle
  <2>2. rmsg.id = b => pc[b] # "idle"
    BY <1>7, MsgFields DEF Settle, RouterInv
  <2> QED  BY <2>1, <2>2 DEF SaidDone
<1>8. CASE RouterEnds
  BY <1>8 DEF RouterEnds, SaidDone
<1>9. ASSUME NEW c \in Calls, Register(c) PROVE CallInv(b)'
  BY <1>9 DEF Register, SaidDone
<1>10. ASSUME NEW c \in Calls, Reply(c) PROVE CallInv(b)'
  <2>1. PICK m \in Msgs :
            /\ m.id = c /\ Len(said[c]) + 1 <= Len(ReplyKinds[c])
            /\ Len(said[c]) + 1 = Len(ReplyKinds[c]) => m.done
            /\ said' = [said EXCEPT ![c] = Append(said[c], m)]
            /\ wire' = Append(wire, m)
    BY <1>10, ReplyEffect
  <2>2. ~SaidDone(c) /\ c \in asked /\ UNCHANGED <<pc, cmsg, asked, mapVars, closed, rmsg>>
    BY <1>10 DEF Reply
  <2>3. CASE b = c
    <3>0. said \in [Calls -> Seq(Msgs)] /\ said[c] \in Seq(Msgs)
          /\ ReplyKinds[c] \in Seq(SUBSET Kinds)
      BY PodsConstants
    <3> HIDE DEF TypeOK, PodsInv, CallInv
    <3>1. Len(said'[c]) = Len(said[c]) + 1 /\ said'[c] # <<>> /\ Last(said'[c]) = m
      <4>1. said'[c] = Append(said[c], m)
        BY <2>1, <3>0
      <4> QED  BY <3>0, <4>1, Grown
    <3>2. SaidDone(c)' <=> m.done
      BY <3>1 DEF SaidDone
    <3>3. Len(said[c]) \in Nat /\ Len(ReplyKinds[c]) \in Nat
      BY <3>0
    <3>4. (~SaidDone(c) => Len(said[c]) < Len(ReplyKinds[c]))'
      BY <2>1, <3>1, <3>2, <3>3
    <3> USE DEF TypeOK, PodsInv, CallInv
    <3> QED  BY <2>2, <2>3, <3>4
  <2>4. CASE b # c
    BY <2>1, <2>2, <2>4 DEF SaidDone
  <2> QED  BY <2>3, <2>4
<1>11. ASSUME NEW c \in Calls, Send(c) PROVE CallInv(b)'
  BY <1>11 DEF Send, SaidDone
<1>12. ASSUME NEW c \in Calls, Receive(c) PROVE CallInv(b)'
  <2>1. UNCHANGED <<pending, closed, asked, said, streaming, stopped, cmsg>>
        /\ (pc' = pc \/ pc' = [pc EXCEPT ![c] = "threw"]
            \/ pc' = [pc EXCEPT ![c] = "returned"])
        /\ pc[c] = "receive" /\ c \notin AsyncCalls
    BY <1>12, CallSets DEF Receive
  <2>2. pc'[b] = pc[b] \/ (b = c /\ pc'[b] \in {"threw", "returned"})
    <3>1. pc \in [Calls -> {"idle", "send", "refused", "receive", "threw", "pass",
                            "end", "close", "handled", "returned"}]
      OBVIOUS
    <3> HIDE DEF TypeOK, PodsInv, CallInv
    <3> QED  BY <2>1, <3>1
  <2>3. SaidDone(b)' = SaidDone(b)
    BY <2>1 DEF SaidDone
  <2>4. CASE pc'[b] = pc[b]
    BY <2>1, <2>3, <2>4
  <2>5. CASE b = c /\ pc'[b] \in {"threw", "returned"}
    BY <2>1, <2>3, <2>5
  <2> QED  BY <2>2, <2>4, <2>5
<1>13. ASSUME NEW c \in Calls, Collect(c) PROVE CallInv(b)'
  <2>1. CASE chan[c] # <<>>
    <3>1. /\ UNCHANGED <<pending, closed, asked, said, streaming, stopped>>
          /\ pc' = [pc EXCEPT ![c] = "pass"] /\ c \in AsyncCalls
          /\ cmsg' = [cmsg EXCEPT ![c] = Head(chan[c])]
      BY <1>13, <2>1 DEF Collect
    <3>2. Head(chan[c]) \in Msgs
      BY <2>1, Taken
    <3>3. SaidDone(b)' = SaidDone(b)
      BY <3>1 DEF SaidDone
    <3>4. CASE b = c
      BY <3>1, <3>2, <3>3, <3>4
    <3>5. CASE b # c
      BY <3>1, <3>3, <3>5
    <3> QED  BY <3>4, <3>5
  <2>2. CASE chan[c] = <<>>
    BY <1>13, <2>2 DEF Collect, SaidDone
  <2> QED  BY <2>1, <2>2
<1>14. ASSUME NEW c \in Calls, Pass(c) PROVE CallInv(b)'
  BY <1>14 DEF Pass, SaidDone
<1>15. ASSUME NEW c \in Calls, EndStream(c) PROVE CallInv(b)'
  BY <1>15 DEF EndStream, SaidDone
<1>16. ASSUME NEW c \in Calls, CloseVal(c) PROVE CallInv(b)'
  BY <1>16 DEF CloseVal, SaidDone
<1>17. ASSUME NEW c \in Calls, Handle(c) PROVE CallInv(b)'
  BY <1>17 DEF Handle, IsError, SaidDone
<1>18. ASSUME NEW c \in Calls, HandlersEnd(c) PROVE CallInv(b)'
  BY <1>18 DEF HandlersEnd, SaidDone
<1>19. CASE UNCHANGED vars
  BY <1>19 DEF vars, SaidDone
<1> QED  BY <1>1, <1>2, <1>3, <1>4, <1>5, <1>6, <1>7, <1>8, <1>9, <1>10,
        <1>11, <1>12, <1>13, <1>14, <1>15, <1>16, <1>17, <1>18, <1>19
        DEF Next, Router, Call

LEMMA TidyNext == TypeOK /\ TypeOK' /\ PodsInv /\ [Next]_vars => TidyInv'
<1> SUFFICES ASSUME TypeOK, TypeOK', PodsInv, [Next]_vars,
                    NEW b \in SyncCalls, (up /\ SaidDone(b) /\ b \in pending)'
             PROVE  DoneComing(b)'
  BY DEF TidyInv
<1> USE DEF TypeOK, PodsInv, TidyInv
<1>1. CASE PodExit
  BY <1>1 DEF PodExit, DoneComing, SaidDone
<1>2. CASE Shutdown
  BY <1>2 DEF Shutdown, DoneComing, SaidDone
<1>3. CASE Waited
  BY <1>3 DEF Waited, DoneComing, SaidDone
<1>4. CASE Route
  <2>1. DoneComing(b) /\ b \in pending /\ rmsg \notin Msgs
    BY <1>4, MsgFields DEF Route, RouterInv, SaidDone
  <2>2. PICK i \in 1..Len(wire) : wire[i].id = b /\ wire[i].done
    BY <2>1 DEF DoneComing
  <2>3. /\ Head(wire) \in Msgs /\ Head(wire) = wire[1] /\ wire' = Tail(wire)
        /\ Len(wire') = Len(wire) - 1
        /\ \A j \in 1..Len(wire) - 1 : wire'[j] = wire[j + 1]
    BY <1>4, Taken DEF Route
  <2>4. CASE i = 1
    BY <1>4, <2>1, <2>2, <2>3, <2>4 DEF Route, DoneComing
  <2>5. CASE i # 1
    <3>1. i - 1 \in 1..Len(wire') /\ wire'[i - 1] = wire[i]
      BY <2>3, <2>5
    <3> QED  BY <2>2, <3>1 DEF DoneComing
  <2> QED  BY <2>4, <2>5
<1>5. CASE RouterSend
  BY <1>5 DEF RouterSend, RouterDone, DoneComing, SaidDone
<1>6. CASE RouterGivesUp
  <2>1. rmsg.id # b
    BY <1>6, CallSets DEF RouterGivesUp, RouterInv
  <2>2. DoneComing(b)
    BY <1>6 DEF RouterGivesUp, SaidDone
  <2> QED  BY <1>6, <2>1, <2>2 DEF RouterGivesUp, DoneComing
<1>7. CASE Settle
  <2>1. b \notin streaming
    BY CallSets
  <2>2. rmsg.id # b /\ b \in pending
    BY <1>7, <2>1 DEF Settle
  <2>3. DoneComing(b)
    BY <1>7, <2>2 DEF Settle, SaidDone
  <2> QED  BY <1>7, <2>2, <2>3 DEF Settle, DoneComing
<1>8. CASE RouterEnds
  BY <1>8 DEF RouterEnds, DoneComing, SaidDone
<1>9. ASSUME NEW c \in Calls, Register(c) PROVE DoneComing(b)'
  <2>1. b # c
    BY <1>9 DEF Register, SaidDone, CallInv
  <2>2. DoneComing(b)
    BY <1>9, <2>1 DEF Register, SaidDone
  <2> QED  BY <1>9, <2>2 DEF Register, DoneComing
<1>10. ASSUME NEW c \in Calls, Reply(c) PROVE DoneComing(b)'
  <2>1. PICK m \in Msgs :
            /\ m.id = c /\ Len(said[c]) + 1 <= Len(ReplyKinds[c])
            /\ Len(said[c]) + 1 = Len(ReplyKinds[c]) => m.done
            /\ said' = [said EXCEPT ![c] = Append(said[c], m)]
            /\ wire' = Append(wire, m)
    BY <1>10, ReplyEffect
  <2>2. ~SaidDone(c) /\ c \in asked /\ UNCHANGED <<pc, cmsg, asked, mapVars, closed, rmsg>>
    BY <1>10 DEF Reply
  <2>3. Len(wire') = Len(wire) + 1 /\ wire'[Len(wire) + 1] = m
        /\ \A i \in 1..Len(wire) : wire'[i] = wire[i]
    BY <2>1, Grown
  <2>4. CASE b = c
    <3>0. said[c] \in Seq(Msgs) /\ said'[c] = Append(said[c], m)
      BY <2>1
    <3> HIDE DEF TypeOK, PodsInv, TidyInv
    <3>1. m.done
      BY <2>4, <3>0, Grown DEF SaidDone
    <3> QED  BY <2>1, <2>3, <2>4, <3>1 DEF DoneComing
  <2>5. CASE b # c
    <3>1. DoneComing(b)
      BY <1>10, <2>1, <2>2, <2>5, CallSets DEF SaidDone, Reply
    <3>2. Len(wire) \in Nat
      OBVIOUS
    <3>3. CASE \E i \in 1..Len(wire) : wire[i].id = b /\ wire[i].done
      <4> HIDE DEF TypeOK, PodsInv, TidyInv
      <4>1. PICK i \in 1..Len(wire) : wire[i].id = b /\ wire[i].done
        BY <3>3
      <4>2. i \in 1..Len(wire') /\ wire'[i] = wire[i]
        BY <2>3, <3>2
      <4> QED  BY <4>1, <4>2 DEF DoneComing
    <3>4. CASE rmsg \in Msgs /\ rmsg.id = b /\ rmsg.done
      BY <2>2, <3>4 DEF DoneComing
    <3> QED  BY <3>1, <3>3, <3>4 DEF DoneComing
  <2> QED  BY <2>4, <2>5
<1>11. ASSUME NEW c \in Calls, Send(c) PROVE DoneComing(b)'
  BY <1>11 DEF Send, DoneComing, SaidDone
<1>12. ASSUME NEW c \in Calls, Receive(c) PROVE DoneComing(b)'
  BY <1>12 DEF Receive, DoneComing, SaidDone
<1>13. ASSUME NEW c \in Calls, Collect(c) PROVE DoneComing(b)'
  BY <1>13 DEF Collect, DoneComing, SaidDone
<1>14. ASSUME NEW c \in Calls, Pass(c) PROVE DoneComing(b)'
  BY <1>14 DEF Pass, DoneComing, SaidDone
<1>15. ASSUME NEW c \in Calls, EndStream(c) PROVE DoneComing(b)'
  BY <1>15 DEF EndStream, DoneComing, SaidDone
<1>16. ASSUME NEW c \in Calls, CloseVal(c) PROVE DoneComing(b)'
  BY <1>16 DEF CloseVal, DoneComing, SaidDone
<1>17. ASSUME NEW c \in Calls, Handle(c) PROVE DoneComing(b)'
  BY <1>17 DEF Handle, IsError, DoneComing, SaidDone
<1>18. ASSUME NEW c \in Calls, HandlersEnd(c) PROVE DoneComing(b)'
  BY <1>18 DEF HandlersEnd, DoneComing, SaidDone
<1>19. CASE UNCHANGED vars
  BY <1>19 DEF vars, DoneComing, SaidDone
<1> QED  BY <1>1, <1>2, <1>3, <1>4, <1>5, <1>6, <1>7, <1>8, <1>9, <1>10,
        <1>11, <1>12, <1>13, <1>14, <1>15, <1>16, <1>17, <1>18, <1>19
        DEF Next, Router, Call

LEMMA InvNext == TypeOK /\ PodsInv /\ [Next]_vars => TypeOK' /\ PodsInv'
  BY TypeNext, RouterNext, CallNext, TidyNext DEF PodsInv

LEMMA Invariant == Spec => [](TypeOK /\ PodsInv)
  BY TypeInit, InvInit, InvNext, PTL DEF Spec

-----------------------------------------------------------------------------
(* Every variable has its type; the replies have the kinds the pod may     *)
(* send because it stops at done.                                          *)
THEOREM TypeCorrect == Spec => []TypeOK
  BY Invariant, PTL

(* However calls, replies, the ends of streams and the death of the pod    *)
(* interleave, the router neither sends on a closed channel nor closes one *)
(* twice.                                                                  *)
THEOREM RouterSafe == Spec => []RouterNeverPanics
<1>1. PodsInv => RouterNeverPanics
  BY DEF PodsInv, RouterInv, RouterNeverPanics
<1> QED  BY <1>1, Invariant, PTL

(* A call that the pod has answered and that has come back is in none of   *)
(* the maps.                                                               *)
THEOREM Tidy == Spec => []MapsTidy
<1>1. TypeOK /\ PodsInv => MapsTidy
  <2> SUFFICES ASSUME TypeOK, PodsInv, NEW c \in Calls, up, SaidDone(c),
                      pc[c] \in {"returned", "threw"}, rmsg = None,
                      \A m \in ToSet(wire) : m.id # c
               PROVE  c \notin pending \union streaming \union stopped
    BY DEF MapsTidy
  <2>1. CASE c \in AsyncCalls
    BY <2>1 DEF PodsInv, CallInv
  <2>2. CASE c \in SyncCalls
    <3>1. None \notin Msgs
      BY DEF None, Msgs
    <3>2. ~DoneComing(c)
      BY <3>1 DEF DoneComing, ToSet, TypeOK
    <3> QED  BY <2>2, <3>2, PodsConstants DEF PodsInv, TidyInv, TypeOK
  <2> QED  BY <2>1, <2>2, CallSets
<1> QED  BY <1>1, Invariant, PTL

-----------------------------------------------------------------------------
\* The numbers of the messages in a channel, and of those in the pipe.
LEMMA NumsAppend ==
    ASSUME NEW s \in Seq(Msgs), NEW m \in Msgs
    PROVE  /\ Nums(Append(s, m)) = Nums(s) \union {m.n}
           /\ Rising(s) /\ Before(Nums(s), {m.n}) => Rising(Append(s, m))
<1>1. /\ Len(s) \in Nat /\ Len(Append(s, m)) = Len(s) + 1
      /\ Append(s, m)[Len(s) + 1] = m
      /\ \A i \in 1..Len(s) : Append(s, m)[i] = s[i]
  BY Grown
<1> DEFINE q == Append(s, m)
<1> HIDE DEF q
<1>2. \A i : i \in 1..Len(q) <=> i \in 1..Len(s) \/ i = Len(s) + 1
  BY <1>1 DEF q
<1>3. Nums(q) = Nums(s) \union {m.n}
  BY <1>1, <1>2 DEF Nums, q
<1>4. ASSUME Rising(s), Before(Nums(s), {m.n}) PROVE Rising(q)
  <2> SUFFICES ASSUME NEW i \in 1..Len(q), NEW j \in 1..Len(q), i < j
               PROVE  q[i].n < q[j].n
    BY DEF Rising
  <2>1. i \in 1..Len(s) /\ q[i] = s[i]
    BY <1>1 DEF q
  <2>2. CASE j \in 1..Len(s)
    BY <1>1, <1>4, <2>1, <2>2 DEF Rising, q
  <2>3. CASE j = Len(s) + 1
    <3>1. s[i].n \in Nums(s)
      BY <2>1 DEF Nums
    <3> QED  BY <1>1, <1>4, <2>1, <2>3, <3>1 DEF Before, q
  <2> QED  BY <1>2, <2>2, <2>3
<1> QED  BY <1>3, <1>4 DEF q

LEMMA NumsTail ==
    ASSUME NEW s \in Seq(Msgs), s # <<>>
    PROVE  /\ Nums(s) = Nums(Tail(s)) \union {Head(s).n}
           /\ Rising(s) => /\ Rising(Tail(s))
                           /\ Before({Head(s).n}, Nums(Tail(s)))
<1>1. /\ Len(s) \in Nat /\ Len(s) >= 1 /\ Len(Tail(s)) = Len(s) - 1 /\ Head(s) = s[1]
      /\ \A i \in 1..Len(s) - 1 : Tail(s)[i] = s[i + 1]
  BY Taken
<1> DEFINE q == Tail(s)
<1> HIDE DEF q
<1>2. \A i \in 1..Len(q) : i + 1 \in 1..Len(s) /\ i + 1 > 1 /\ q[i] = s[i + 1]
  BY <1>1 DEF q
<1>3. \A i \in 1..Len(s) : i = 1 \/ (i - 1 \in 1..Len(q) /\ s[i] = q[i - 1])
  BY <1>1 DEF q
<1>4. Nums(s) \subseteq Nums(q) \union {Head(s).n}
  BY <1>1, <1>3 DEF Nums
<1>5. Nums(q) \subseteq Nums(s) /\ Head(s).n \in Nums(s)
  <2>1. 1 \in 1..Len(s)
    BY <1>1
  <2> QED  BY <1>1, <1>2, <2>1 DEF Nums
<1>6. ASSUME Rising(s) PROVE Rising(q) /\ Before({Head(s).n}, Nums(q))
  <2>1. Rising(q)
    <3> SUFFICES ASSUME NEW i \in 1..Len(q), NEW j \in 1..Len(q), i < j
                 PROVE  q[i].n < q[j].n
      BY DEF Rising
    <3>1. i + 1 < j + 1
      OBVIOUS
    <3> QED  BY <1>2, <1>6, <3>1 DEF Rising
  <2>2. \A i \in 1..Len(q) : Head(s).n < q[i].n
    <3>1. 1 \in 1..Len(s)
      BY <1>1
    <3> QED  BY <1>1, <1>2, <1>6, <3>1 DEF Rising
  <2> QED  BY <2>1, <2>2 DEF Before, Nums
<1> QED  BY <1>4, <1>5, <1>6 DEF q

\* A reply the pod writes, and one the router reads.
LEMMA PipedAppend ==
    ASSUME wire \in Seq(Msgs), NEW m \in Msgs, wire' = Append(wire, m)
    PROVE  /\ Piped(m.id)' = Piped(m.id) \union {m.n}
           /\ \A b \in Calls \ {m.id} : Piped(b)' = Piped(b)
<1>1. /\ Len(wire) \in Nat /\ Len(wire') = Len(wire) + 1
      /\ wire'[Len(wire) + 1] = m
      /\ \A i \in 1..Len(wire) : wire'[i] = wire[i]
  BY Grown
<1>2. \A i : i \in 1..Len(wire') <=> i \in 1..Len(wire) \/ i = Len(wire) + 1
  BY <1>1
<1>3. \A b : Piped(b)' = {wire'[i].n : i \in {j \in 1..Len(wire') : wire'[j].id = b}}
  BY DEF Piped
<1>4. ASSUME NEW b, NEW x
      PROVE  x \in Piped(b)' <=> (x \in Piped(b) \/ (b = m.id /\ x = m.n))
  BY <1>1, <1>2, <1>3 DEF Piped
<1>5. Piped(m.id)' = Piped(m.id) \union {m.n}
  BY <1>4
<1>6. ASSUME NEW b \in Calls \ {m.id} PROVE Piped(b)' = Piped(b)
  <2>1. b # m.id
    OBVIOUS
  <2>2. \A x : x \in Piped(b)' <=> x \in Piped(b)
    BY <1>4, <2>1
  <2> QED  BY <2>2
<1> QED  BY <1>5, <1>6

LEMMA PipedTail ==
    ASSUME wire \in Seq(Msgs), wire # <<>>, wire' = Tail(wire), NEW m, m = Head(wire)
    PROVE  /\ Piped(m.id) = Piped(m.id)' \union {m.n}
           /\ \A b \in Calls \ {m.id} : Piped(b)' = Piped(b)
           /\ OrderInv => Before({m.n}, Piped(m.id)')
<1>1. /\ Len(wire) \in Nat /\ Len(wire) >= 1 /\ Len(wire') = Len(wire) - 1
      /\ m = wire[1]
      /\ \A i \in 1..Len(wire) - 1 : wire'[i] = wire[i + 1]
  BY Taken
<1>2. \A i \in 1..Len(wire') : i + 1 \in 1..Len(wire) /\ 1 < i + 1 /\ wire'[i] = wire[i + 1]
  BY <1>1
<1>3. \A i \in 1..Len(wire) : i = 1 \/ (i - 1 \in 1..Len(wire') /\ wire[i] = wire'[i - 1])
  BY <1>1
<1>4. \A b : Piped(b)' = {wire'[i].n : i \in {j \in 1..Len(wire') : wire'[j].id = b}}
  BY DEF Piped
<1>5. 1 \in 1..Len(wire)
  BY <1>1
<1>6. ASSUME NEW b, NEW x, x \in Piped(b)' PROVE x \in Piped(b)
  BY <1>2, <1>4, <1>6 DEF Piped
<1>7. ASSUME NEW b, NEW x, x \in Piped(b)
      PROVE  x \in Piped(b)' \/ (b = m.id /\ x = m.n)
  BY <1>1, <1>3, <1>4, <1>7 DEF Piped
<1>8. m.n \in Piped(m.id)
  BY <1>1, <1>5 DEF Piped
<1>9. OrderInv => Before({m.n}, Piped(m.id)')
  <2> SUFFICES ASSUME OrderInv, NEW i \in 1..Len(wire'), wire'[i].id = m.id
               PROVE  m.n < wire'[i].n
    BY <1>4 DEF Before
  <2> QED  BY <1>1, <1>2, <1>5 DEF OrderInv
<1>10. Piped(m.id) = Piped(m.id)' \union {m.n}
  BY <1>6, <1>7, <1>8
<1>11. ASSUME NEW b \in Calls \ {m.id} PROVE Piped(b)' = Piped(b)
  <2>1. b # m.id
    OBVIOUS
  <2>2. \A x : x \in Piped(b)' <=> x \in Piped(b)
    BY <1>6, <1>7, <2>1
  <2> QED  BY <2>2
<1> QED  BY <1>9, <1>10, <1>11

\* The replies a handler has seen once one more has run.
LEMMA SeenAppend ==
    ASSUME NEW c \in Calls, NEW e \in {"success", "error", "done"} \X Nat,
           ran \in [Calls -> Seq({"success", "error", "done"} \X Nat)],
           ran' = [ran EXCEPT ![c] = Append(@, e)]
    PROVE  /\ Seen(c)' = IF e[1] = "done" THEN Seen(c) ELSE Seen(c) \union {e[2]}
           /\ Len(ran'[c]) = Len(ran[c]) + 1 /\ Len(ran[c]) \in Nat
           /\ ran'[c][Len(ran[c]) + 1] = e
           /\ \A i \in 1..Len(ran[c]) : ran'[c][i] = ran[c][i]
           /\ \A b \in Calls \ {c} : ran'[b] = ran[b] /\ Seen(b)' = Seen(b)
<1>1. /\ Len(ran'[c]) = Len(ran[c]) + 1 /\ Len(ran[c]) \in Nat
      /\ ran'[c][Len(ran[c]) + 1] = e
      /\ \A i \in 1..Len(ran[c]) : ran'[c][i] = ran[c][i]
      /\ DOMAIN ran'[c] = 1..Len(ran'[c]) /\ DOMAIN ran[c] = 1..Len(ran[c])
      /\ \A b \in Calls \ {c} : ran'[b] = ran[b]
  <2>1. ran'[c] = Append(ran[c], e) /\ ran[c] \in Seq({"success", "error", "done"} \X Nat)
    OBVIOUS
  <2>2. /\ Append(ran[c], e) \in Seq({"success", "error", "done"} \X Nat)
        /\ Len(Append(ran[c], e)) = Len(ran[c]) + 1
        /\ Append(ran[c], e)[Len(ran[c]) + 1] = e
        /\ \A i \in 1..Len(ran[c]) : Append(ran[c], e)[i] = ran[c][i]
    BY <2>1, AppendProperties
  <2> QED  BY <2>1, <2>2, LenProperties
<1>2. \A i : i \in DOMAIN ran'[c] <=> i \in DOMAIN ran[c] \/ i = Len(ran[c]) + 1
  BY <1>1
<1>3. \A b : Seen(b)' = {ran'[b][i][2] : i \in {j \in DOMAIN ran'[b] : ran'[b][j][1] # "done"}}
  BY DEF Seen
<1>4. ASSUME NEW x
      PROVE  x \in Seen(c)' <=> (x \in Seen(c) \/ (e[1] # "done" /\ x = e[2]))
  <2>1. x \in Seen(c)' <=> \E i \in DOMAIN ran'[c] : ran'[c][i][1] # "done" /\ x = ran'[c][i][2]
    BY <1>3
  <2>2. x \in Seen(c) <=> \E i \in DOMAIN ran[c] : ran[c][i][1] # "done" /\ x = ran[c][i][2]
    BY DEF Seen
  <2>3. \A i \in DOMAIN ran[c] : ran'[c][i] = ran[c][i]
    BY <1>1
  <2>4. ran'[c][Len(ran[c]) + 1] = e
    BY <1>1
  <2> QED  BY <1>2, <2>1, <2>2, <2>3, <2>4
<1>5. \A b \in Calls \ {c} : Seen(b)' = Seen(b)
  BY <1>1, <1>3 DEF Seen
<1>6. Seen(c)' = IF e[1] = "done" THEN Seen(c) ELSE Seen(c) \union {e[2]}
  <2>1. CASE e[1] = "done"
    BY <1>4, <2>1
  <2>2. CASE e[1] # "done"
    BY <1>4, <2>2
  <2> QED  BY <2>1, <2>2
<1> QED  BY <1>1, <1>5, <1>6

-----------------------------------------------------------------------------
\* What the pod has said it has said: a step only adds to it.
SaidGrows ==
    \A c \in Calls :
        /\ Len(said[c]) \in Nat /\ Len(said'[c]) \in Nat /\ Len(said[c]) <= Len(said'[c])
        /\ \A k \in 1..Len(said[c]) : said'[c][k] = said[c][k]

LEMMA SaidStays ==
    ASSUME TypeOK, said' = said
    PROVE  SaidGrows
  BY DEF TypeOK, SaidGrows

LEMMA ReplySaid ==
    ASSUME TypeOK, PodsInv, NEW c \in Calls, Reply(c)
    PROVE  /\ SaidGrows
           /\ \E m \in Msgs :
                 /\ m.id = c /\ m.n = Len(said[c]) + 1
                 /\ said'[c] = Append(said[c], m) /\ wire' = Append(wire, m)
                 /\ Len(said'[c]) = Len(said[c]) + 1 /\ said'[c][m.n] = m
                 /\ Len(said[c]) \in Nat /\ ~SaidDone(c) /\ up
                 /\ \A b \in Calls \ {c} : said'[b] = said[b]
<1>1. PICK m \in Msgs : /\ m.id = c /\ m.n = Len(said[c]) + 1
                        /\ said' = [said EXCEPT ![c] = Append(said[c], m)]
                        /\ wire' = Append(wire, m)
  BY ReplyEffect
<1>2. said \in [Calls -> Seq(Msgs)]
  BY DEF TypeOK
<1>3. /\ said'[c] = Append(said[c], m) /\ said[c] \in Seq(Msgs) /\ Len(said[c]) \in Nat
      /\ \A b \in Calls \ {c} : said'[b] = said[b]
  BY <1>1, <1>2
<1>4. /\ Len(said'[c]) = Len(said[c]) + 1 /\ said'[c][Len(said[c]) + 1] = m
      /\ \A k \in 1..Len(said[c]) : said'[c][k] = said[c][k]
  BY <1>3, Grown
<1>5. SaidGrows
  <2> SUFFICES ASSUME NEW b \in Calls
               PROVE  /\ Len(said[b]) \in Nat /\ Len(said'[b]) \in Nat
                      /\ Len(said[b]) <= Len(said'[b])
                      /\ \A k \in 1..Len(said[b]) : said'[b][k] = said[b][k]
    BY DEF SaidGrows
  <2>1. CASE b = c
    BY <1>3, <1>4, <2>1
  <2>2. CASE b # c
    BY <1>2, <1>3, <2>2
  <2> QED  BY <2>1, <2>2
<1>6. ~SaidDone(c) /\ up
  BY DEF Reply
<1> QED  BY <1>1, <1>3, <1>4, <1>5, <1>6

LEMMA StillSaid ==
    ASSUME SaidGrows, NEW c \in Calls, NEW m, IsSaid(c, m)
    PROVE  m.id = c /\ m.n \in 1..Len(said'[c]) /\ m = said'[c][m.n]
  BY DEF SaidGrows, IsSaid

\* A step that leaves the messages of b where they are.
LEMMA AuthFrame ==
    ASSUME NEW b \in Calls, AuthOf(b), said'[b] = said[b], chan'[b] = chan[b],
           val'[b] = val[b], got'[b] = got[b],
           pc'[b] = "pass" => pc[b] = "pass" /\ cmsg'[b] = cmsg[b]
    PROVE  AuthOf(b)'
<1>1. \A k : Pays(b, k)' <=> Pays(b, k)
  BY DEF Pays
<1> QED  BY <1>1 DEF AuthOf, IsSaid

LEMMA AuthReply ==
    ASSUME TypeOK, PodsInv, AuthInv, NEW c \in Calls, Reply(c)
    PROVE  AuthInv'
<1>1. PICK m \in Msgs :
          /\ m.id = c /\ m.n = Len(said[c]) + 1
          /\ said'[c] = Append(said[c], m) /\ wire' = Append(wire, m)
          /\ Len(said'[c]) = Len(said[c]) + 1 /\ said'[c][m.n] = m
          /\ Len(said[c]) \in Nat /\ ~SaidDone(c)
          /\ \A b \in Calls \ {c} : said'[b] = said[b]
  BY ReplySaid
<1>2. SaidGrows /\ UNCHANGED <<rpc, rmsg, chan, val, got, pc, cmsg>>
  BY ReplySaid DEF Reply
<1>3. wire \in Seq(Msgs) /\ said[c] \in Seq(Msgs)
  BY DEF TypeOK
<1>4. /\ Len(wire') = Len(wire) + 1 /\ Len(wire) \in Nat /\ wire'[Len(wire) + 1] = m
      /\ \A i \in 1..Len(wire) : wire'[i] = wire[i]
  BY <1>1, <1>3, Grown
<1>5. ASSUME NEW i \in 1..Len(wire')
      PROVE  /\ wire'[i].n \in 1..Len(said'[wire'[i].id])
             /\ wire'[i] = said'[wire'[i].id][wire'[i].n]
  <2>1. CASE i = Len(wire) + 1
    BY <1>1, <1>4, <2>1
  <2>2. CASE i # Len(wire) + 1
    <3>1. i \in 1..Len(wire) /\ wire'[i] = wire[i] /\ wire[i] \in Msgs
      BY <1>3, <1>4, <2>2
    <3>2. IsSaid(wire[i].id, wire[i]) /\ wire[i].id \in Calls
      BY <3>1, MsgFields DEF AuthInv
    <3> QED  BY <1>2, <3>1, <3>2, StillSaid
  <2> QED  BY <2>1, <2>2
<1>6. ASSUME rpc \in {"send", "settle"}
      PROVE  rmsg'.n \in 1..Len(said'[rmsg'.id]) /\ rmsg' = said'[rmsg'.id][rmsg'.n]
  <2>1. IsSaid(rmsg.id, rmsg) /\ rmsg.id \in Calls
    BY <1>6, MsgFields DEF AuthInv, PodsInv, RouterInv
  <2> QED  BY <1>2, <2>1, StillSaid
<1>7. AuthOf(c)'
  <2>1. AuthOf(c)
    BY DEF AuthInv
  <2>2. ASSUME NEW k \in 1..Len(said'[c])
        PROVE  /\ said'[c][k].id = c /\ said'[c][k].n = k
               /\ said'[c][k].done => k = Len(said'[c])
    <3>1. CASE k = Len(said[c]) + 1
      BY <1>1, <3>1
    <3>2. CASE k # Len(said[c]) + 1
      <4>1. k \in 1..Len(said[c]) /\ said'[c][k] = said[c][k]
        BY <1>1, <1>2, <3>2 DEF SaidGrows
      <4>2. ~said[c][k].done
        BY <1>1, <1>3, <2>1, <4>1 DEF AuthOf, SaidDone, Last
      <4> QED  BY <2>1, <4>1, <4>2 DEF AuthOf
    <3> QED  BY <3>1, <3>2
  <2>3. ASSUME NEW i \in 1..Len(chan'[c])
        PROVE  chan'[c][i].id = c /\ chan'[c][i].n \in 1..Len(said'[c])
               /\ chan'[c][i] = said'[c][chan'[c][i].n]
    <3>1. IsSaid(c, chan[c][i]) /\ chan'[c] = chan[c]
      BY <1>2, <2>1 DEF AuthOf
    <3> QED  BY <1>2, <3>1, StillSaid
  <2>4. ASSUME pc[c] = "pass"
        PROVE  cmsg'[c].id = c /\ cmsg'[c].n \in 1..Len(said'[c])
               /\ cmsg'[c] = said'[c][cmsg'[c].n]
    <3>1. IsSaid(c, cmsg[c]) /\ cmsg'[c] = cmsg[c]
      BY <1>2, <2>1, <2>4 DEF AuthOf
    <3> QED  BY <1>2, <3>1, StillSaid
  <2>5. ASSUME NEW i \in 1..Len(val[c])
        PROVE  IsSaid(c, val[c][i])' /\ Pays(c, val[c][i].n)'
    <3>1. IsSaid(c, val[c][i]) /\ Pays(c, val[c][i].n) /\ val'[c][i] = val[c][i]
      BY <1>2, <2>1 DEF AuthOf
    <3>2. IsSaid(c, val[c][i])'
      BY <1>2, <3>1, StillSaid DEF IsSaid
    <3>3. said'[c][val[c][i].n] = said[c][val[c][i].n]
      BY <1>2, <3>1 DEF SaidGrows, IsSaid
    <3> QED  BY <3>1, <3>2, <3>3 DEF Pays
  <2>6. got[c] \in 0..Len(said'[c])
    BY <1>1, <2>1 DEF AuthOf
  <2> QED  BY <1>2, <2>2, <2>3, <2>4, <2>5, <2>6 DEF AuthOf, IsSaid
<1>8. ASSUME NEW b \in Calls PROVE AuthOf(b)'
  <2>1. CASE b = c
    BY <1>7, <2>1
  <2>2. CASE b # c
    <3>1. AuthOf(b)
      BY DEF AuthInv
    <3> QED  BY <1>1, <1>2, <2>2, <3>1, AuthFrame
  <2> QED  BY <2>1, <2>2
<1> QED  BY <1>2, <1>5, <1>6, <1>8 DEF AuthInv, IsSaid

-----------------------------------------------------------------------------
(* What FollowInv says of one call, and of the pipe and the router.        *)
OfCall(c) ==
    /\ AuthOf(c) /\ RanInv(c) /\ PhaseOf(c) /\ OrderOf(c)
    /\ c \in AsyncCalls => StreamInv(c)
    /\ c \in SyncCalls => InvokeInv(c)

Lines ==
    /\ \A i \in 1..Len(wire) : IsSaid(wire[i].id, wire[i])
    /\ rpc \in {"send", "settle"} => IsSaid(rmsg.id, rmsg)
    /\ ~stdout => ~up
    /\ rpc = "ended" => ~up
    /\ \A i, j \in 1..Len(wire) : i < j /\ wire[i].id = wire[j].id => wire[i].n < wire[j].n
    /\ rpc = "settle" => Before({rmsg.n}, Piped(rmsg.id))

LEMMA FollowParts ==
    /\ FollowInv <=> Lines /\ \A c \in Calls : OfCall(c)
    /\ Lines' /\ (\A c \in Calls : OfCall(c)') => FollowInv'
  BY CallSets DEF FollowInv, AuthInv, PhaseInv, OrderInv, OfCall, Lines

\* A step that moves no message of b, and one that changes nothing of b.
Same(b) ==
    /\ said'[b] = said[b] /\ chan'[b] = chan[b] /\ val'[b] = val[b]
    /\ ran'[b] = ran[b] /\ got'[b] = got[b]
    /\ Piped(b)' = Piped(b) /\ Routed(b)' = Routed(b) /\ Held(b)' = Held(b)
Untouched(b) ==
    /\ Same(b) /\ pc'[b] = pc[b] /\ cmsg'[b] = cmsg[b]
    /\ b \in failed' <=> b \in failed
    /\ b \in pending' <=> b \in pending
    /\ b \in streaming' <=> b \in streaming
    /\ b \in closed' <=> b \in closed
    /\ b \in stopClosed' <=> b \in stopClosed

LEMMA SameSets ==
    ASSUME NEW b, Same(b)
    PROVE  /\ Queued(b)' = Queued(b) /\ Passed(b)' = Passed(b) /\ Seen(b)' = Seen(b)
           /\ Delivered(b)' = Delivered(b) /\ Coming(b)' = Coming(b)
           /\ SaidDone(b)' <=> SaidDone(b)
           /\ \A k : (Pays(b, k)' <=> Pays(b, k)) /\ (Fails(b, k)' <=> Fails(b, k))
<1>1. Queued(b)' = Queued(b) /\ Passed(b)' = Passed(b) /\ Seen(b)' = Seen(b)
  BY DEF Same, Queued, Passed, Nums, Seen
<1>2. /\ SaidDone(b)' <=> SaidDone(b)
      /\ \A k : (Pays(b, k)' <=> Pays(b, k)) /\ (Fails(b, k)' <=> Fails(b, k))
  BY DEF Same, SaidDone, Last, Pays, Fails
<1> QED  BY <1>1, <1>2 DEF Same, Delivered, Coming

LEMMA OrderSame ==
    ASSUME NEW b, OrderOf(b), Same(b)
    PROVE  OrderOf(b)'
<1>1. /\ Rising(chan'[b]) /\ Rising(val'[b])
      /\ \A i, j \in 1..Len(ran'[b]) :
            i < j /\ ran'[b][j][1] # "done" => ran'[b][i][2] < ran'[b][j][2]
  BY DEF OrderOf, Same
<1>2. /\ Before(Routed(b), Piped(b))'
      /\ Before(Queued(b), Routed(b) \union Piped(b))'
      /\ Before(Held(b), Coming(b))'
      /\ Before(Delivered(b), Held(b) \union Coming(b))'
      /\ Before(Seen(b), Passed(b))'
      /\ b \in SyncCalls => Before({got'[b]}, Coming(b)')
  BY SameSets DEF OrderOf, Same, Before
<1> QED  BY <1>1, <1>2 DEF OrderOf, Rising, Before

LEMMA RanSame ==
    ASSUME NEW b, RanInv(b), Same(b), b \in failed' <=> b \in failed,
           pc[b] = "returned" <=> pc'[b] = "returned"
    PROVE  RanInv(b)'
  BY SameSets DEF RanInv, Same

LEMMA StreamSame ==
    ASSUME NEW b, StreamInv(b), Same(b), up' => up, 
           Collecting(b)' => Collecting(b),
           pc'[b] \in {"end", "close", "handled", "returned"} =>
               pc[b] \in {"end", "close", "handled", "returned"}
    PROVE  StreamInv(b)'
<1>1. Collecting(b)' =>
         /\ \A k \in 1..Len(said'[b]) : Pays(b, k)' =>
               \/ k \in (Delivered(b) \union Held(b) \union Coming(b))'
               \/ ~up' /\ Before(Delivered(b) \union Held(b) \union Coming(b), {k})'
         /\ \A k \in Delivered(b)' : ~Fails(b, k)'
  BY SameSets DEF StreamInv, Same
<1>2. \A n \in Delivered(b)' : \A k \in 1..n - 1 :
          ~Fails(b, k)' /\ (Pays(b, k)' => k \in Delivered(b)')
  BY SameSets DEF StreamInv
<1>3. pc'[b] \in {"end", "close", "handled", "returned"} =>
          \/ ~up'
          \/ \E k \in Delivered(b)' : Fails(b, k)'
          \/ SaidDone(b)' /\ \A k \in 1..Len(said'[b]) : Pays(b, k)' => k \in Delivered(b)'
  BY SameSets DEF StreamInv, Same
<1>4. \A i \in 1..Len(ran'[b]) : ran'[b][i][1] = "done" => (up' => SaidDone(b)')
  BY SameSets DEF StreamInv, Same
<1> QED  BY <1>1, <1>2, <1>3, <1>4 DEF StreamInv

LEMMA InvokeSame ==
    ASSUME NEW b, InvokeInv(b), Same(b), up' => up, Receiving(b)' => Receiving(b),
           pc'[b] = "returned" => pc[b] = "returned"
    PROVE  InvokeInv(b)'
  BY SameSets DEF InvokeInv, Same

LEMMA PhaseSame ==
    ASSUME NEW b, PhaseOf(b), Same(b), up' => up, rpc = "ended" => rpc' = "ended",
           b \in pending' <=> b \in pending, b \in streaming' <=> b \in streaming,
           b \in closed' <=> b \in closed, b \in stopClosed' <=> b \in stopClosed,
           Collecting(b)' => Collecting(b), Receiving(b)' => Receiving(b),
           pc[b] \in {"close", "handled", "returned"} =>
               pc'[b] \in {"close", "handled", "returned"}
    PROVE  PhaseOf(b)'
  BY SameSets DEF PhaseOf, Same

\* A step leaves the invariant of the calls it does not touch.
LEMMA OtherCall ==
    ASSUME NEW b \in Calls, OfCall(b), Untouched(b), up' => up,
           rpc = "ended" => rpc' = "ended"
    PROVE  OfCall(b)'
<1>1. AuthOf(b)'
  BY AuthFrame DEF OfCall, Untouched, Same
<1>2. RanInv(b)' /\ PhaseOf(b)' /\ OrderOf(b)'
  BY RanSame, PhaseSame, OrderSame DEF OfCall, Untouched, Collecting, Receiving
<1>3. (b \in AsyncCalls => StreamInv(b))'
  BY StreamSame DEF OfCall, Untouched, Collecting
<1>4. (b \in SyncCalls => InvokeInv(b))'
  BY InvokeSame DEF OfCall, Untouched, Receiving
<1> QED  BY <1>1, <1>2, <1>3, <1>4 DEF OfCall

\* The numbers in every place are those of replies the pod sent.
LEMMA Places ==
    ASSUME TypeOK, Lines, NEW c \in Calls, AuthOf(c), RanInv(c)
    PROVE  /\ Len(said[c]) \in Nat /\ got[c] \in 0..Len(said[c])
           /\ Piped(c) \subseteq 1..Len(said[c]) /\ Routed(c) \subseteq 1..Len(said[c])
           /\ Queued(c) \subseteq 1..Len(said[c]) /\ Held(c) \subseteq 1..Len(said[c])
           /\ Passed(c) \subseteq 1..Len(said[c]) /\ Seen(c) \subseteq 1..Len(said[c])
           /\ \A k \in Passed(c) \union Seen(c) : Pays(c, k)
<1>1. Len(said[c]) \in Nat /\ ran[c] \in Seq({"success", "error", "done"} \X Nat)
  BY DEF TypeOK
<1>2. Piped(c) \subseteq 1..Len(said[c]) /\ Routed(c) \subseteq 1..Len(said[c])
  BY DEF Lines, IsSaid, Piped, Routed
<1>3. Queued(c) \subseteq 1..Len(said[c]) /\ Held(c) \subseteq 1..Len(said[c])
  BY DEF AuthOf, IsSaid, Queued, Nums, Held
<1>4. Passed(c) \subseteq 1..Len(said[c]) /\ \A k \in Passed(c) : Pays(c, k)
  BY DEF AuthOf, IsSaid, Passed, Nums
<1>5. Seen(c) \subseteq 1..Len(said[c]) /\ \A k \in Seen(c) : Pays(c, k)
  <2>1. DOMAIN ran[c] = 1..Len(ran[c])
    BY <1>1
  <2> QED  BY <2>1 DEF RanInv, Seen
<1>6. got[c] \in 0..Len(said[c])
  BY DEF AuthOf
<1> QED  BY <1>1, <1>2, <1>3, <1>4, <1>5, <1>6

\* A step of call c alone: the pod, the pipe and the router stand still.
Aside(b) ==
    /\ chan'[b] = chan[b] /\ val'[b] = val[b] /\ ran'[b] = ran[b]
    /\ got'[b] = got[b] /\ pc'[b] = pc[b] /\ cmsg'[b] = cmsg[b]
    /\ b \in failed' <=> b \in failed
    /\ b \in pending' <=> b \in pending
    /\ b \in streaming' <=> b \in streaming
    /\ b \in closed' <=> b \in closed
    /\ b \in stopClosed' <=> b \in stopClosed

LEMMA CallStep ==
    ASSUME FollowInv, NEW c \in Calls,
           UNCHANGED <<up, stdout, said, wire, rpc, rmsg>>,
           OfCall(c)', \A b \in Calls \ {c} : Aside(b)
    PROVE  FollowInv'
<1>1. \A b : Piped(b)' = Piped(b) /\ Routed(b)' = Routed(b)
  BY DEF Piped, Routed
<1>2. Lines'
  BY <1>1, FollowParts DEF Lines, IsSaid, Piped
<1>3. ASSUME NEW b \in Calls \ {c} PROVE OfCall(b)'
  <2>1. Untouched(b)
    BY <1>1 DEF Aside, Untouched, Same, Held
  <2>2. b \in Calls /\ OfCall(b) /\ (up' => up) /\ (rpc = "ended" => rpc' = "ended")
    BY FollowParts
  <2> QED  BY <2>1, <2>2, OtherCall
<1>4. \A b \in Calls : OfCall(b)'
  BY <1>3
<1> QED  BY <1>2, <1>4, FollowParts

-----------------------------------------------------------------------------
(* The steps of one call, by what they do to its replies.                  *)
LEMMA FollowRegister ==
    ASSUME TypeOK, TypeOK', PodsInv, FollowInv, NEW c \in Calls, Register(c)
    PROVE  FollowInv'
<1>1. /\ UNCHANGED <<up, stdout, said, wire, rpc, rmsg, chan,
                      val, ran, got, cmsg, failed, closed, stopClosed>>
      /\ pc[c] = "idle" /\ pc'[c] = "send" /\ c \in pending'
      /\ c \in AsyncCalls => c \in streaming'
  BY DEF Register, TypeOK
<1>2. \A b \in Calls \ {c} : Aside(b)
  <2>1. \A b \in Calls \ {c} : /\ pc'[b] = pc[b]
                               /\ b \in pending' <=> b \in pending
                               /\ b \in streaming' <=> b \in streaming
    BY DEF Register, TypeOK
  <2> QED  BY <1>1, <2>1 DEF Aside
<1>3. OfCall(c) /\ Lines
  BY FollowParts
<1>4. Same(c)
  BY <1>1 DEF Same, Piped, Routed, Held
<1>5. said[c] = <<>> /\ c \notin closed
  BY <1>1 DEF PodsInv, CallInv
<1>6. AuthOf(c)' /\ RanInv(c)' /\ OrderOf(c)'
  BY <1>1, <1>3, <1>4, AuthFrame, RanSame, OrderSame DEF OfCall, Same
<1>7. PhaseOf(c)'
  BY <1>1, <1>3, <1>5, CallSets DEF PhaseOf, Collecting, Receiving, OfCall
<1>8. Len(said'[c]) = 0 /\ Delivered(c)' = {}
  <2>1. Delivered(c) = {}
    BY <1>3, <1>5, Places DEF OfCall, Delivered
  <2> QED  BY <1>1, <1>4, <1>5, <2>1, SameSets
<1>9. StreamInv(c)' /\ InvokeInv(c)'
  <2>1. Len(ran'[c]) = 0
    <3>1. ASSUME NEW i \in 1..Len(ran[c]) PROVE FALSE
      BY <1>1, <1>3, <1>5 DEF OfCall, RanInv
    <3> QED  BY <1>1, <3>1 DEF TypeOK
  <2> QED  BY <1>1, <1>8, <2>1 DEF StreamInv, InvokeInv
<1> QED  BY <1>1, <1>2, <1>6, <1>7, <1>9, CallStep DEF OfCall

LEMMA FollowSend ==
    ASSUME TypeOK, TypeOK', PodsInv, FollowInv, NEW c \in Calls, Send(c)
    PROVE  FollowInv'
<1>1. /\ UNCHANGED <<up, stdout, said, wire, rpc, rmsg, chan, val,
                      ran, got, cmsg, failed, closed, stopClosed, pending, streaming>>
      /\ pc[c] = "send" /\ pc'[c] \in {"receive", "refused"}
  BY DEF Send, TypeOK
<1>2. \A b \in Calls \ {c} : Aside(b)
  <2>1. \A b \in Calls \ {c} : pc'[b] = pc[b]
    BY DEF Send, TypeOK
  <2> QED  BY <1>1, <2>1 DEF Aside
<1>3. OfCall(c) /\ Lines
  BY FollowParts
<1>4. Same(c)
  BY <1>1 DEF Same, Piped, Routed, Held
<1>5. AuthOf(c)' /\ RanInv(c)' /\ OrderOf(c)'
  BY <1>1, <1>3, <1>4, AuthFrame, RanSame, OrderSame DEF OfCall, Same
<1>6. (Collecting(c)' => Collecting(c)) /\ (Receiving(c)' => Receiving(c))
  BY <1>1 DEF Collecting, Receiving
<1>7. PhaseOf(c)'
  BY <1>1, <1>3, <1>4, <1>6, PhaseSame DEF OfCall
<1>8. (c \in AsyncCalls => StreamInv(c))' /\ (c \in SyncCalls => InvokeInv(c))'
  BY <1>1, <1>3, <1>4, <1>6, StreamSame, InvokeSame DEF OfCall
<1> QED  BY <1>1, <1>2, <1>5, <1>7, <1>8, CallStep DEF OfCall

LEMMA FollowEndStream ==
    ASSUME TypeOK, TypeOK', PodsInv, FollowInv, NEW c \in Calls, EndStream(c)
    PROVE  FollowInv'
<1>1. /\ UNCHANGED <<up, stdout, said, wire, rpc, rmsg,
                      chan, val, ran, got, cmsg, failed, closed>>
      /\ pc[c] = "end" /\ pc'[c] = "close"
  BY DEF EndStream, TypeOK
<1>2. \A b \in Calls \ {c} : Aside(b)
  <2>1. \A b \in Calls \ {c} : /\ pc'[b] = pc[b]
                               /\ b \in pending' <=> b \in pending
                               /\ b \in streaming' <=> b \in streaming
                               /\ b \in stopClosed' <=> b \in stopClosed
    BY DEF EndStream, TypeOK
  <2> QED  BY <1>1, <2>1 DEF Aside
<1>3. OfCall(c) /\ Lines /\ c \notin SyncCalls
  BY <1>1, FollowParts, CallSets DEF PodsInv, CallInv
<1>4. Same(c)
  BY <1>1 DEF Same, Piped, Routed, Held
<1>5. AuthOf(c)' /\ RanInv(c)' /\ OrderOf(c)'
  BY <1>1, <1>3, <1>4, AuthFrame, RanSame, OrderSame DEF OfCall, Same
<1>6. PhaseOf(c)'
  BY <1>1, <1>3 DEF PhaseOf, Collecting, Receiving
<1>7. (c \in AsyncCalls => StreamInv(c))'
  BY <1>1, <1>3, <1>4, StreamSame DEF OfCall, Collecting
<1> QED  BY <1>1, <1>2, <1>3, <1>5, <1>6, <1>7, CallStep DEF OfCall

LEMMA FollowCloseVal ==
    ASSUME TypeOK, TypeOK', PodsInv, FollowInv, NEW c \in Calls, CloseVal(c)
    PROVE  FollowInv'
<1>1. /\ UNCHANGED <<up, stdout, said, wire, rpc, rmsg, chan, val,
                      ran, got, cmsg, failed, closed, stopClosed, pending, streaming>>
      /\ pc[c] = "close" /\ pc'[c] = "handled"
  BY DEF CloseVal, TypeOK
<1>2. \A b \in Calls \ {c} : Aside(b)
  <2>1. \A b \in Calls \ {c} : pc'[b] = pc[b]
    BY DEF CloseVal, TypeOK
  <2> QED  BY <1>1, <2>1 DEF Aside
<1>3. OfCall(c) /\ Lines /\ c \notin SyncCalls
  BY <1>1, FollowParts, CallSets DEF PodsInv, CallInv
<1>4. Same(c)
  BY <1>1 DEF Same, Piped, Routed, Held
<1>5. AuthOf(c)' /\ RanInv(c)' /\ OrderOf(c)'
  BY <1>1, <1>3, <1>4, AuthFrame, RanSame, OrderSame DEF OfCall, Same
<1>6. PhaseOf(c)'
  BY <1>1, <1>3 DEF PhaseOf, Collecting, Receiving
<1>7. (c \in AsyncCalls => StreamInv(c))'
  BY <1>1, <1>3, <1>4, StreamSame DEF OfCall, Collecting
<1> QED  BY <1>1, <1>2, <1>3, <1>5, <1>6, <1>7, CallStep DEF OfCall

\* A reply leaves the channel of its call.
LEMMA ChanTail ==
    ASSUME TypeOK, NEW c \in Calls, AuthOf(c), OrderOf(c), chan[c] # <<>>, 
           chan' = [chan EXCEPT ![c] = Tail(chan[c])], NEW m, m = Head(chan[c])
    PROVE  /\ m \in Msgs /\ IsSaid(c, m)
           /\ Queued(c) = Queued(c)' \union {m.n} /\ Before({m.n}, Queued(c)')
           /\ Rising(chan'[c])
           /\ \A i \in 1..Len(chan'[c]) : IsSaid(c, chan'[c][i])
           /\ \A b \in Calls \ {c} : chan'[b] = chan[b]
<1>1. chan \in [Calls -> Seq(Msgs)] /\ chan[c] \in Seq(Msgs) /\ chan'[c] = Tail(chan[c])
      /\ \A b \in Calls \ {c} : chan'[b] = chan[b]
  BY DEF TypeOK
<1>2. /\ Len(chan[c]) \in Nat /\ Len(chan[c]) >= 1 /\ Len(chan'[c]) = Len(chan[c]) - 1
      /\ m \in Msgs /\ m = chan[c][1]
      /\ \A i \in 1..Len(chan[c]) - 1 : chan'[c][i] = chan[c][i + 1]
  BY <1>1, Taken
<1>3. IsSaid(c, m) /\ \A i \in 1..Len(chan'[c]) : IsSaid(c, chan'[c][i])
  BY <1>2 DEF AuthOf
<1>4. Queued(c)' = Nums(Tail(chan[c]))
  BY <1>1 DEF Queued, Nums
<1>5. Queued(c) = Queued(c)' \union {m.n} /\ Before({m.n}, Queued(c)') /\ Rising(chan'[c])
  BY <1>1, <1>4, NumsTail DEF OrderOf, Queued
<1> QED  BY <1>1, <1>2, <1>3, <1>5

LEMMA FollowReceive ==
    ASSUME TypeOK, TypeOK', PodsInv, FollowInv, NEW c \in Calls, Receive(c)
    PROVE  FollowInv'
<1>1. /\ UNCHANGED <<up, stdout, said, wire, rpc, rmsg, val,
                      ran, cmsg, failed, closed, stopClosed, pending, streaming>>
      /\ pc[c] = "receive" /\ c \in SyncCalls /\ c \notin AsyncCalls
  BY CallSets DEF Receive
<1>2. OfCall(c) /\ Lines
  BY FollowParts
<1>3. /\ Piped(c)' = Piped(c) /\ Routed(c)' = Routed(c)
      /\ Passed(c)' = Passed(c) /\ Seen(c)' = Seen(c)
  BY <1>1 DEF Piped, Routed, Passed, Seen, Nums
<1>4. CASE chan[c] = <<>>
  <2>1. /\ UNCHANGED <<chan, got>> /\ pc'[c] = "returned" /\ c \in closed
        /\ \A b \in Calls \ {c} : pc'[b] = pc[b]
    BY <1>4 DEF Receive, TypeOK
  <2>2. Same(c)
    BY <1>1, <1>3, <2>1 DEF Same, Held
  <2>3. AuthOf(c)' /\ OrderOf(c)'
    BY <1>1, <1>2, <2>1, <2>2, AuthFrame, OrderSame DEF OfCall
  <2>4. RanInv(c)'
    BY <1>1, <1>2, <2>1, <2>2, SameSets DEF RanInv, OfCall, Same
  <2>5. PhaseOf(c)'
    BY <1>1, <1>2, <2>1, <2>2, PhaseSame DEF OfCall, Collecting, Receiving
  <2>6. InvokeInv(c)'
    <3>1. Queued(c) = {}
      BY <1>4 DEF Queued, Nums, TypeOK
    <3>2. Routed(c) = {}
      BY <2>1 DEF Routed, PodsInv, RouterInv
    <3>3. up => SaidDone(c) /\ Piped(c) = {}
      BY <1>1, <1>2, <2>1 DEF OfCall, PhaseOf
    <3>4. up => \A k \in 1..Len(said[c]) : said[c][k].kind = "value" => k <= got[c]
      BY <1>1, <1>2, <3>1, <3>2, <3>3 DEF OfCall, InvokeInv, Receiving, Coming
    <3>5. ~Receiving(c)'
      BY <2>1 DEF Receiving
    <3> QED  BY <1>1, <2>1, <2>2, <3>3, <3>4, <3>5, SameSets DEF InvokeInv
  <2>7. \A b \in Calls \ {c} : Aside(b)
    BY <1>1, <2>1 DEF Aside
  <2> QED  BY <1>1, <2>3, <2>4, <2>5, <2>6, <2>7, CallStep DEF OfCall
<1>5. CASE chan[c] # <<>>
  <2> DEFINE m == Head(chan[c])
  <2>1. /\ chan' = [chan EXCEPT ![c] = Tail(chan[c])]
        /\ got'[c] = IF m.kind = "value" THEN m.n ELSE got[c]
        /\ pc'[c] = IF m.kind = "fail" THEN "threw" ELSE "receive"
        /\ \A b \in Calls \ {c} : pc'[b] = pc[b] /\ got'[b] = got[b]
    BY <1>1, <1>5 DEF Receive, TypeOK
  <2>2. /\ m \in Msgs /\ IsSaid(c, m)
        /\ Queued(c) = Queued(c)' \union {m.n} /\ Before({m.n}, Queued(c)')
        /\ Rising(chan'[c])
        /\ \A i \in 1..Len(chan'[c]) : IsSaid(c, chan'[c][i])
        /\ \A b \in Calls \ {c} : chan'[b] = chan[b]
    BY <1>2, <1>5, <2>1, ChanTail DEF OfCall
  <2> HIDE DEF m
  <2>3. Len(said[c]) \in Nat /\ got[c] \in 0..Len(said[c]) /\ m.n \in 1..Len(said[c])
        /\ Queued(c) \subseteq 1..Len(said[c])
        /\ Routed(c) \subseteq 1..Len(said[c]) /\ Piped(c) \subseteq 1..Len(said[c])
    BY <1>2, <2>2, Places DEF OfCall, IsSaid
  <2>4. got[c] <= got'[c] /\ (m.kind = "value" => m.n <= got'[c])
        /\ Before({got'[c]}, Coming(c)')
    <3>1. Before({got[c]}, Coming(c)) /\ Before(Queued(c), Routed(c) \union Piped(c))
      BY <1>1, <1>2 DEF OfCall, OrderOf
    <3>2. Before({m.n}, Coming(c)') /\ Before({got[c]}, Coming(c)') /\ got[c] < m.n
      BY <1>3, <2>2, <3>1 DEF Before, Coming
    <3>3. CASE m.kind = "value"
      BY <2>1, <2>3, <3>2, <3>3
    <3>4. CASE m.kind # "value"
      BY <2>1, <2>3, <3>2, <3>4
    <3> QED  BY <3>3, <3>4
  <2>5. Held(c) = {} /\ Held(c)' = {}
    BY <1>1, <2>1 DEF Held
  <2>6. AuthOf(c)'
    <3>1. pc'[c] # "pass" /\ got'[c] \in 0..Len(said[c])
      BY <2>1, <2>3
    <3> QED  BY <1>1, <1>2, <2>2, <3>1 DEF OfCall, AuthOf, IsSaid, Pays
  <2>7. RanInv(c)'
    BY <1>1, <1>2, <1>3, <2>1 DEF OfCall, RanInv, Pays, Fails
  <2>8. PhaseOf(c)'
    BY <1>1, <1>2, <1>3, <2>1 DEF OfCall, PhaseOf, Collecting, Receiving, SaidDone
  <2>9. OrderOf(c)'
    <3>1. Before(Routed(c), Piped(c))' /\ Before(Queued(c), Routed(c) \union Piped(c))'
          /\ Before(Delivered(c), Coming(c))' /\ Before(Seen(c), Passed(c))'
      BY <1>2, <1>3, <2>2 DEF OfCall, OrderOf, Delivered, Coming, Before
    <3>2. /\ Rising(val'[c])
          /\ \A i, j \in 1..Len(ran'[c]) :
                i < j /\ ran'[c][j][1] # "done" => ran'[c][i][2] < ran'[c][j][2]
      BY <1>1, <1>2 DEF OfCall, OrderOf
    <3> QED  BY <2>2, <2>4, <2>5, <3>1, <3>2 DEF OrderOf, Rising, Before
  <2>10. InvokeInv(c)'
    <3>1. Receiving(c) /\ pc'[c] # "returned"
      BY <1>1, <2>1 DEF Receiving
    <3>2. ASSUME up, NEW k \in 1..Len(said[c]), said[c][k].kind = "value"
          PROVE  k <= got'[c] \/ k \in Coming(c)'
      <4>1. k <= got[c] \/ k \in Coming(c)
        BY <1>1, <1>2, <3>1, <3>2 DEF OfCall, InvokeInv
      <4>2. k = m.n => m.kind = "value"
        BY <2>2, <3>2 DEF IsSaid
      <4>3. got'[c] \in Nat
        BY DEF TypeOK
      <4> QED  BY <1>3, <2>2, <2>3, <2>4, <4>1, <4>2, <4>3 DEF Coming
    <3> QED  BY <1>1, <3>1, <3>2 DEF InvokeInv
  <2>11. \A b \in Calls \ {c} : Aside(b)
    BY <1>1, <2>1, <2>2 DEF Aside
  <2> QED  BY <1>1, <2>6, <2>7, <2>8, <2>9, <2>10, <2>11, CallStep DEF OfCall
<1> QED  BY <1>4, <1>5

LEMMA FollowCollect ==
    ASSUME TypeOK, TypeOK', PodsInv, FollowInv, NEW c \in Calls, Collect(c)
    PROVE  FollowInv'
<1>1. /\ UNCHANGED <<up, stdout, said, wire, rpc, rmsg, got,
                      val, ran, failed, closed, stopClosed, pending, streaming>>
      /\ pc[c] = "receive" /\ c \in AsyncCalls /\ c \notin SyncCalls
  BY CallSets DEF Collect
<1>2. OfCall(c) /\ Lines
  BY FollowParts
<1>3. /\ Piped(c)' = Piped(c) /\ Routed(c)' = Routed(c) /\ Passed(c)' = Passed(c)
      /\ Seen(c)' = Seen(c) /\ Delivered(c)' = Delivered(c) /\ Held(c) = {}
      /\ SaidDone(c)' <=> SaidDone(c)
      /\ \A k : (Pays(c, k)' <=> Pays(c, k)) /\ (Fails(c, k)' <=> Fails(c, k))
  BY <1>1 DEF Piped, Routed, Passed, Seen, Nums, Delivered, Held, SaidDone, Pays, Fails
<1>4. Collecting(c)
  BY <1>1 DEF Collecting
<1>5. CASE chan[c] = <<>>
  <2>1. /\ UNCHANGED <<chan, cmsg>> /\ pc'[c] = "end" /\ c \in closed
        /\ \A b \in Calls \ {c} : pc'[b] = pc[b]
    BY <1>5 DEF Collect, TypeOK
  <2>2. Same(c)
    BY <1>1, <1>3, <2>1 DEF Same, Held
  <2>3. AuthOf(c)' /\ OrderOf(c)' /\ RanInv(c)'
    BY <1>1, <1>2, <2>1, <2>2, AuthFrame, OrderSame, RanSame DEF OfCall
  <2>4. ~Collecting(c)' /\ ~Receiving(c)' /\ ~up
    BY <1>1, <1>2, <1>4, <2>1 DEF Collecting, Receiving, OfCall, PhaseOf
  <2>5. PhaseOf(c)'
    BY <1>1, <1>2, <2>1, <2>2, <2>4, PhaseSame DEF OfCall
  <2>6. StreamInv(c)'
    BY <1>1, <1>2, <1>3, <2>1, <2>4 DEF OfCall, StreamInv
  <2>7. \A b \in Calls \ {c} : Aside(b)
    BY <1>1, <2>1 DEF Aside
  <2> QED  BY <1>1, <2>3, <2>5, <2>6, <2>7, CallStep DEF OfCall
<1>6. CASE chan[c] # <<>>
  <2> DEFINE m == Head(chan[c])
  <2>1. /\ chan' = [chan EXCEPT ![c] = Tail(chan[c])]
        /\ cmsg'[c] = m /\ pc'[c] = "pass"
        /\ \A b \in Calls \ {c} : pc'[b] = pc[b] /\ cmsg'[b] = cmsg[b]
    BY <1>6 DEF Collect, TypeOK
  <2>2. /\ m \in Msgs /\ IsSaid(c, m)
        /\ Queued(c) = Queued(c)' \union {m.n} /\ Before({m.n}, Queued(c)')
        /\ Rising(chan'[c])
        /\ \A i \in 1..Len(chan'[c]) : IsSaid(c, chan'[c][i])
        /\ \A b \in Calls \ {c} : chan'[b] = chan[b]
    BY <1>2, <1>6, <2>1, ChanTail DEF OfCall
  <2> HIDE DEF m
  <2>3. Held(c)' = {m.n} /\ Collecting(c)' /\ ~Receiving(c)'
    BY <1>1, <2>1 DEF Held, Collecting, Receiving
  <2>4. (Held(c) \union Coming(c))' = Held(c) \union Coming(c)
    BY <1>3, <2>2, <2>3 DEF Coming
  <2>5. AuthOf(c)'
    <3>1. IsSaid(c, cmsg'[c])
      BY <2>1, <2>2
    <3> QED  BY <1>1, <1>2, <2>2, <3>1 DEF OfCall, AuthOf, IsSaid, Pays
  <2>6. RanInv(c)'
    BY <1>1, <1>2, <1>3, <2>1 DEF OfCall, RanInv, Pays, Fails
  <2>7. PhaseOf(c)'
    BY <1>1, <1>2, <1>3, <1>4, <2>1, <2>3 DEF OfCall, PhaseOf
  <2>8. OrderOf(c)'
    <3>1. Before(Routed(c), Piped(c))' /\ Before(Queued(c), Routed(c) \union Piped(c))'
          /\ Before(Seen(c), Passed(c))'
      BY <1>2, <1>3, <2>2, <2>3 DEF OfCall, OrderOf, Before
    <3>2. Before(Held(c), Coming(c))'
      <4>1. Before(Queued(c), Routed(c) \union Piped(c))
        BY <1>2 DEF OfCall, OrderOf
      <4>2. Before({m.n}, Coming(c)')
        BY <1>3, <2>2, <4>1 DEF Coming, Before
      <4> QED  BY <2>3, <4>2
    <3>3. Before(Delivered(c), Held(c) \union Coming(c))'
      BY <1>2, <1>3, <2>4 DEF OfCall, OrderOf, Before
    <3>4. /\ Rising(val'[c])
          /\ \A i, j \in 1..Len(ran'[c]) :
                i < j /\ ran'[c][j][1] # "done" => ran'[c][i][2] < ran'[c][j][2]
      BY <1>1, <1>2 DEF OfCall, OrderOf
    <3> QED  BY <1>1, <2>2, <3>1, <3>2, <3>3, <3>4 DEF OrderOf, Rising, Before
  <2>9. StreamInv(c)'
    <3>1. (Delivered(c) \union Held(c) \union Coming(c))'
              = Delivered(c) \union Held(c) \union Coming(c)
      BY <1>3, <2>4
    <3>2. \A k \in 1..Len(said'[c]) : Pays(c, k)' =>
              \/ k \in (Delivered(c) \union Held(c) \union Coming(c))'
              \/ ~up' /\ Before(Delivered(c) \union Held(c) \union Coming(c), {k})'
      BY <1>1, <1>2, <1>3, <1>4, <3>1 DEF OfCall, StreamInv, Before
    <3>3. \A k \in Delivered(c)' : ~Fails(c, k)'
      BY <1>1, <1>2, <1>3, <1>4 DEF OfCall, StreamInv
    <3>4. \A n \in Delivered(c)' : \A k \in 1..n - 1 :
              ~Fails(c, k)' /\ (Pays(c, k)' => k \in Delivered(c)')
      BY <1>1, <1>2, <1>3 DEF OfCall, StreamInv
    <3>5. \A i \in 1..Len(ran'[c]) : ran'[c][i][1] = "done" => (up' => SaidDone(c)')
      BY <1>1, <1>2, <1>3 DEF OfCall, StreamInv
    <3> QED  BY <2>1, <3>2, <3>3, <3>4, <3>5 DEF StreamInv
  <2>10. \A b \in Calls \ {c} : Aside(b)
    BY <1>1, <2>1, <2>2 DEF Aside
  <2> QED  BY <1>1, <2>5, <2>6, <2>7, <2>8, <2>9, <2>10, CallStep DEF OfCall
<1> QED  BY <1>5, <1>6

LEMMA FollowPass ==
    ASSUME TypeOK, TypeOK', PodsInv, FollowInv, NEW c \in Calls, Pass(c)
    PROVE  FollowInv'
<1> DEFINE m == cmsg[c]
           n == m.n
<1>1. /\ UNCHANGED <<up, stdout, said, wire, rpc, rmsg, got,
                      chan, ran, failed, closed, stopClosed, pending, streaming>>
      /\ pc[c] = "pass" /\ c \in AsyncCalls /\ c \notin SyncCalls /\ m \in Msgs
      /\ pc'[c] = IF m.kind = "fail" \/ m.done THEN "end" ELSE "receive"
      /\ m.kind = "plain" => val'[c] = val[c]
      /\ m.kind # "plain" => val'[c] = Append(val[c], m)
      /\ \A b \in Calls \ {c} : pc'[b] = pc[b] /\ cmsg'[b] = cmsg[b] /\ val'[b] = val[b]
  BY CallSets DEF Pass, TypeOK, PodsInv, CallInv
<1>2. OfCall(c) /\ StreamInv(c) /\ Lines /\ val[c] \in Seq(Msgs)
  BY <1>1, FollowParts DEF TypeOK, OfCall
<1>3. /\ Coming(c)' = Coming(c) /\ Queued(c)' = Queued(c) /\ Piped(c)' = Piped(c)
      /\ Routed(c)' = Routed(c) /\ Seen(c)' = Seen(c) /\ Held(c) = {n} /\ Held(c)' = {}
      /\ SaidDone(c)' <=> SaidDone(c)
      /\ \A k : (Pays(c, k)' <=> Pays(c, k)) /\ (Fails(c, k)' <=> Fails(c, k))
  BY <1>1 DEF Coming, Piped, Routed, Queued, Seen, Nums, Held, SaidDone, Pays, Fails
<1>4. IsSaid(c, m)
  BY <1>1, <1>2 DEF OfCall, AuthOf
<1> HIDE DEF m
<1>5. n \in 1..Len(said[c]) /\ (Pays(c, n) <=> m.kind # "plain")
      /\ (Fails(c, n) <=> m.kind = "fail") /\ (m.done => n = Len(said[c]) /\ SaidDone(c))
  <2>1. n \in 1..Len(said[c]) /\ m = said[c][n]
    BY <1>4 DEF IsSaid
  <2>2. m.done => n = Len(said[c])
    BY <1>2, <2>1 DEF OfCall, AuthOf
  <2>3. n = Len(said[c]) /\ m.done => SaidDone(c)
    <3>1. said[c] \in Seq(Msgs) /\ Len(said[c]) \in Nat
      BY DEF TypeOK
    <3>2. said[c] # <<>>
      BY <2>1, <3>1
    <3> QED  BY <2>1, <3>2 DEF SaidDone, Last
  <2> QED  BY <2>1, <2>2, <2>3 DEF Pays, Fails
<1>6. /\ Before(Queued(c), Routed(c) \union Piped(c)) /\ Before(Routed(c), Piped(c))
      /\ Before({n}, Coming(c)) /\ Before(Delivered(c), {n}) /\ Before(Delivered(c), Coming(c))
      /\ Before(Seen(c), Passed(c)) /\ Rising(chan[c]) /\ Rising(val[c])
  BY <1>2, <1>3 DEF OfCall, OrderOf, Before
<1>7. /\ Passed(c)' = IF m.kind = "plain" THEN Passed(c) ELSE Passed(c) \union {n}
      /\ Rising(val'[c])
  <2>1. CASE m.kind = "plain"
    BY <1>1, <1>6, <2>1 DEF Passed
  <2>2. CASE m.kind # "plain"
    <3>1. val'[c] = Append(val[c], m)
      BY <1>1, <2>2
    <3>2. Before(Nums(val[c]), {n})
      BY <1>6 DEF Before, Delivered, Passed
    <3>3. Nums(val'[c]) = Nums(val[c]) \union {n} /\ Rising(val'[c])
      BY <1>1, <1>2, <1>6, <3>1, <3>2, NumsAppend
    <3>4. Passed(c)' = Nums(val'[c])
      BY DEF Passed, Nums
    <3> QED  BY <2>2, <3>3, <3>4 DEF Passed
  <2> QED  BY <2>1, <2>2
<1>8. Delivered(c)' = IF m.kind = "plain" THEN Delivered(c) ELSE Delivered(c) \union {n}
  BY <1>3, <1>7 DEF Delivered
<1>9. AuthOf(c)'
  <2>1. \A i \in 1..Len(val'[c]) : IsSaid(c, val'[c][i]) /\ Pays(c, val'[c][i].n)
    <3>1. CASE m.kind = "plain"
      BY <1>1, <1>2, <3>1 DEF OfCall, AuthOf
    <3>2. CASE m.kind # "plain"
      <4>1. /\ val'[c] = Append(val[c], m) /\ Len(val[c]) \in Nat
            /\ Len(val'[c]) = Len(val[c]) + 1 /\ val'[c][Len(val[c]) + 1] = m
            /\ \A i \in 1..Len(val[c]) : val'[c][i] = val[c][i]
        BY <1>1, <1>2, <3>2, Grown
      <4>2. \A i \in 1..Len(val'[c]) : i \in 1..Len(val[c]) \/ i = Len(val[c]) + 1
        BY <4>1
      <4>3. \A i \in 1..Len(val[c]) : IsSaid(c, val[c][i]) /\ Pays(c, val[c][i].n)
        BY <1>2 DEF OfCall, AuthOf
      <4> QED  BY <1>4, <1>5, <3>2, <4>1, <4>2, <4>3
    <3> QED  BY <3>1, <3>2
  <2>2. pc'[c] # "pass"
    BY <1>1
  <2> QED  BY <1>1, <1>2, <2>1, <2>2 DEF OfCall, AuthOf, IsSaid, Pays
<1>10. RanInv(c)'
  <2>1. pc'[c] # "returned"
    BY <1>1
  <2> QED  BY <1>1, <1>2, <1>3, <2>1 DEF OfCall, RanInv, Pays, Fails
<1>11. PhaseOf(c)'
  BY <1>1, <1>2, <1>3 DEF OfCall, PhaseOf, Collecting, Receiving
<1>12. OrderOf(c)'
  <2>1. Before(Delivered(c), Held(c) \union Coming(c))' /\ Before(Seen(c), Passed(c))'
    BY <1>3, <1>6, <1>7, <1>8 DEF Before, Delivered
  <2>2. \A i, j \in 1..Len(ran'[c]) :
            i < j /\ ran'[c][j][1] # "done" => ran'[c][i][2] < ran'[c][j][2]
    BY <1>1, <1>2 DEF OfCall, OrderOf
  <2> QED  BY <1>1, <1>3, <1>6, <1>7, <2>1, <2>2 DEF OrderOf, Rising, Before
<1>13. StreamInv(c)'
  <2>1. Collecting(c)
    BY <1>1 DEF Collecting
  <2>2. \A k \in Delivered(c) : ~Fails(c, k)
    BY <1>2, <2>1 DEF StreamInv
  <2>3. Len(said[c]) \in Nat /\ Delivered(c) \subseteq 1..Len(said[c])
        /\ Coming(c) \subseteq 1..Len(said[c])
    BY <1>2, Places DEF OfCall, Delivered, Coming
  <2>4. ASSUME NEW k \in 1..n - 1 PROVE ~Fails(c, k) /\ (Pays(c, k) => k \in Delivered(c))
    <3>1. k \in 1..Len(said[c]) /\ k < n
      BY <1>5, <2>3
    <3>2. k \notin Coming(c) /\ k # n /\ ~Before({n}, {k})
      BY <1>5, <1>6, <2>3, <3>1 DEF Before
    <3>3. Pays(c, k) => k \in Delivered(c)
      BY <1>2, <1>3, <2>1, <3>1, <3>2 DEF StreamInv, Before
    <3>4. Fails(c, k) => Pays(c, k)
      BY DEF Fails, Pays
    <3> QED  BY <2>2, <3>3, <3>4
  <2>5. Pays(c, n) <=> n \in Delivered(c)'
    <3>1. n \notin Delivered(c)
      BY <1>5, <1>6, <2>3 DEF Before
    <3> QED  BY <1>5, <1>8, <3>1
  <2>6. \A x \in Delivered(c)' : \A k \in 1..x - 1 :
            ~Fails(c, k)' /\ (Pays(c, k)' => k \in Delivered(c)')
    <3>1. ASSUME NEW x \in Delivered(c), NEW k \in 1..x - 1
          PROVE  ~Fails(c, k) /\ (Pays(c, k) => k \in Delivered(c))
      BY <1>2, <3>1 DEF StreamInv
    <3> QED  BY <1>3, <1>8, <2>4, <3>1
  <2>7. Collecting(c)' => /\ m.kind # "fail" /\ ~m.done
                          /\ Delivered(c)' \subseteq Delivered(c) \union {n}
    BY <1>1, <1>8 DEF Collecting
  <2>8. ASSUME Collecting(c)', NEW k \in 1..Len(said'[c]), Pays(c, k)'
        PROVE  \/ k \in (Delivered(c) \union Held(c) \union Coming(c))'
               \/ ~up' /\ Before(Delivered(c) \union Held(c) \union Coming(c), {k})'
    <3>1. \/ k \in Delivered(c) \union {n} \union Coming(c)
          \/ ~up /\ Before(Delivered(c) \union {n} \union Coming(c), {k})
      BY <1>1, <1>2, <1>3, <2>1, <2>8 DEF StreamInv
    <3>2. (Delivered(c) \union Held(c) \union Coming(c))'
             \subseteq Delivered(c) \union {n} \union Coming(c)
      BY <1>3, <1>8
    <3>3. k \in Delivered(c) \union {n} \union Coming(c)
             => k \in (Delivered(c) \union Held(c) \union Coming(c))'
      BY <1>3, <1>8, <2>5, <2>8
    <3>4. Before(Delivered(c) \union {n} \union Coming(c), {k})
             => Before((Delivered(c) \union Held(c) \union Coming(c))', {k})
      BY <3>2 DEF Before
    <3> QED  BY <1>1, <3>1, <3>3, <3>4 DEF Before
  <2>9. Collecting(c)' => \A k \in Delivered(c)' : ~Fails(c, k)'
    BY <1>3, <1>5, <2>2, <2>7
  <2>10. pc'[c] \in {"end", "close", "handled", "returned"} =>
            \/ \E k \in Delivered(c)' : Fails(c, k)'
            \/ SaidDone(c)' /\ \A k \in 1..Len(said'[c]) : Pays(c, k)' => k \in Delivered(c)'
    <3>1. CASE m.kind = "fail"
      BY <1>3, <1>5, <1>8, <3>1
    <3>2. CASE m.done
      <4>1. \A k \in 1..Len(said[c]) : k = n \/ k \in 1..n - 1
        BY <1>5, <2>3, <3>2
      <4> QED  BY <1>1, <1>3, <1>5, <1>8, <2>4, <2>5, <3>2, <4>1
    <3>3. CASE m.kind # "fail" /\ ~m.done
      BY <1>1, <3>3
    <3> QED  BY <3>1, <3>2, <3>3
  <2>11. \A i \in 1..Len(ran'[c]) : ran'[c][i][1] = "done" => (up' => SaidDone(c)')
    BY <1>1, <1>2, <1>3 DEF StreamInv
  <2> QED  BY <2>6, <2>8, <2>9, <2>10, <2>11 DEF StreamInv
<1>14. \A b \in Calls \ {c} : Aside(b)
  BY <1>1 DEF Aside
<1> QED  BY <1>1, <1>9, <1>10, <1>11, <1>12, <1>13, <1>14, CallStep DEF OfCall

LEMMA FollowHandle ==
    ASSUME TypeOK, TypeOK', PodsInv, FollowInv, NEW c \in Calls, Handle(c)
    PROVE  FollowInv'
<1> DEFINE m == Head(val[c])
           n == m.n
           e == <<Tag(m), n>>
<1>1. /\ UNCHANGED <<up, stdout, said, wire, rpc, rmsg, got,
                      chan, pc, cmsg, closed, stopClosed, pending, streaming>>
      /\ c \in AsyncCalls /\ c \notin SyncCalls
      /\ val[c] # <<>> /\ val'[c] = Tail(val[c])
      /\ ran' = [ran EXCEPT ![c] = Append(ran[c], e)]
      /\ failed' = IF IsError(m) THEN failed \union {c} ELSE failed
      /\ \A b \in Calls \ {c} : val'[b] = val[b]
  BY CallSets DEF Handle, TypeOK
<1>2. OfCall(c) /\ StreamInv(c) /\ Lines /\ val[c] \in Seq(Msgs)
  BY <1>1, FollowParts DEF TypeOK, OfCall
<1>3. /\ Len(val[c]) \in Nat /\ Len(val[c]) >= 1 /\ Len(val'[c]) = Len(val[c]) - 1
      /\ m \in Msgs /\ m = val[c][1]
      /\ \A i \in 1..Len(val[c]) - 1 : val'[c][i] = val[c][i + 1]
  BY <1>1, <1>2, Taken
<1>4. Passed(c) = Passed(c)' \union {n} /\ Before({n}, Passed(c)') /\ Rising(val'[c])
  <2>1. Passed(c)' = Nums(Tail(val[c]))
    BY <1>1 DEF Passed, Nums
  <2> QED  BY <1>1, <1>2, <2>1, NumsTail DEF OfCall, OrderOf, Passed
<1>5. /\ IsSaid(c, m) /\ Pays(c, n)
      /\ \A i \in 1..Len(val'[c]) : IsSaid(c, val'[c][i]) /\ Pays(c, val'[c][i].n)
  <2> HIDE DEF m
  <2>1. \A i \in 1..Len(val[c]) : IsSaid(c, val[c][i]) /\ Pays(c, val[c][i].n)
    BY <1>2 DEF OfCall, AuthOf
  <2>2. 1 \in 1..Len(val[c]) /\ \A i \in 1..Len(val'[c]) : i + 1 \in 1..Len(val[c])
    BY <1>3
  <2>3. \A i \in 1..Len(val'[c]) : val'[c][i] = val[c][i + 1]
    BY <1>3
  <2> QED  BY <1>3, <2>1, <2>2, <2>3
<1>6. e \in {"success", "error", "done"} \X Nat /\ e[1] # "done" /\ e[2] = n /\ e[1] = Tag(m)
  BY <1>3, MsgFields DEF Tag
<1> HIDE DEF e
<1>7. /\ Seen(c)' = Seen(c) \union {n}
      /\ Len(ran'[c]) = Len(ran[c]) + 1 /\ Len(ran[c]) \in Nat
      /\ ran'[c][Len(ran[c]) + 1] = e
      /\ \A i \in 1..Len(ran[c]) : ran'[c][i] = ran[c][i]
      /\ \A b \in Calls \ {c} : ran'[b] = ran[b]
  <2>1. ran \in [Calls -> Seq({"success", "error", "done"} \X Nat)]
    BY DEF TypeOK
  <2>2. ran' = [ran EXCEPT ![c] = Append(ran[c], e)]
    BY <1>1
  <2> HIDE DEF m
  <2>3. /\ Seen(c)' = IF e[1] = "done" THEN Seen(c) ELSE Seen(c) \union {e[2]}
        /\ Len(ran'[c]) = Len(ran[c]) + 1 /\ Len(ran[c]) \in Nat
        /\ ran'[c][Len(ran[c]) + 1] = e
        /\ \A i \in 1..Len(ran[c]) : ran'[c][i] = ran[c][i]
        /\ \A b \in Calls \ {c} : ran'[b] = ran[b]
    BY <1>6, <2>1, <2>2, SeenAppend
  <2> QED  BY <1>6, <2>3
<1> HIDE DEF m
<1>8. n \in 1..Len(said[c]) /\ m = said[c][n] /\ (Fails(c, n) => IsError(m))
  BY <1>5 DEF IsSaid, Fails, IsError
<1>9. /\ Coming(c)' = Coming(c) /\ Queued(c)' = Queued(c) /\ Piped(c)' = Piped(c)
      /\ Routed(c)' = Routed(c) /\ Held(c)' = Held(c) /\ Delivered(c)' = Delivered(c)
      /\ SaidDone(c)' <=> SaidDone(c)
      /\ \A k : (Pays(c, k)' <=> Pays(c, k)) /\ (Fails(c, k)' <=> Fails(c, k))
  <2>1. /\ Queued(c)' = Queued(c) /\ Piped(c)' = Piped(c)
        /\ Routed(c)' = Routed(c) /\ Held(c)' = Held(c)
        /\ SaidDone(c)' <=> SaidDone(c)
        /\ \A k : (Pays(c, k)' <=> Pays(c, k)) /\ (Fails(c, k)' <=> Fails(c, k))
    BY <1>1 DEF Piped, Routed, Queued, Nums, Held, SaidDone, Pays, Fails
  <2>2. Delivered(c)' = Delivered(c)
    BY <1>4, <1>7 DEF Delivered
  <2> QED  BY <2>1, <2>2 DEF Coming
<1>10. pc[c] # "returned" /\ \A i \in 1..Len(ran[c]) : ran[c][i][1] # "done"
  <2>1. pc[c] # "returned"
    BY <1>1, <1>2 DEF OfCall, RanInv
  <2>2. ASSUME NEW i \in 1..Len(ran[c]) PROVE ran[c][i][1] # "done"
    BY <1>2, <2>1 DEF OfCall, RanInv, Tag
  <2> QED  BY <2>1, <2>2
<1>11. AuthOf(c)'
  BY <1>1, <1>2, <1>5 DEF OfCall, AuthOf, IsSaid, Pays
<1>12. RanInv(c)'
  <2>1. ASSUME NEW i \in 1..Len(ran'[c])
        PROVE  /\ ran'[c][i][2] \in 1..Len(said[c]) /\ Pays(c, ran'[c][i][2])
               /\ ran'[c][i][1] = Tag(said[c][ran'[c][i][2]])
    <3>1. CASE i = Len(ran[c]) + 1
      BY <1>5, <1>6, <1>7, <1>8, <3>1
    <3>2. CASE i # Len(ran[c]) + 1
      <4>1. i \in 1..Len(ran[c]) /\ ran'[c][i] = ran[c][i]
        BY <1>7, <3>2
      <4> QED  BY <1>2, <1>10, <4>1 DEF OfCall, RanInv
    <3> QED  BY <3>1, <3>2
  <2>2. \A k \in Seen(c)' : Fails(c, k) => c \in failed'
    BY <1>1, <1>2, <1>7, <1>8 DEF OfCall, RanInv
  <2> QED  BY <1>1, <1>9, <1>10, <2>1, <2>2 DEF RanInv, Pays, Fails
<1>13. PhaseOf(c)'
  BY <1>1, <1>2, <1>9 DEF OfCall, PhaseOf, Collecting, Receiving
<1>14. OrderOf(c)'
  <2>1. Before(Seen(c), Passed(c)) /\ Before(Seen(c), {n})
    BY <1>2, <1>4 DEF OfCall, OrderOf, Before
  <2>2. Before(Seen(c), Passed(c))'
    BY <1>4, <1>7, <2>1 DEF Before
  <2>3. ASSUME NEW i \in 1..Len(ran'[c]), NEW j \in 1..Len(ran'[c]), i < j
        PROVE  ran'[c][i][2] < ran'[c][j][2]
    <3>1. i \in 1..Len(ran[c]) /\ ran'[c][i] = ran[c][i]
      BY <1>7, <2>3
    <3>2. CASE j = Len(ran[c]) + 1
      <4>1. ran[c][i][2] \in Seen(c)
        <5>1. DOMAIN ran[c] = 1..Len(ran[c])
          BY DEF TypeOK
        <5> QED  BY <1>10, <3>1, <5>1 DEF Seen
      <4> QED  BY <1>6, <1>7, <2>1, <3>1, <3>2, <4>1 DEF Before
    <3>3. CASE j # Len(ran[c]) + 1
      <4>1. j \in 1..Len(ran[c]) /\ ran'[c][j] = ran[c][j]
        BY <1>7, <3>3
      <4> QED  BY <1>2, <1>10, <2>3, <3>1, <4>1 DEF OfCall, OrderOf
    <3> QED  BY <3>2, <3>3
  <2>4. /\ Before(Routed(c), Piped(c))' /\ Before(Queued(c), Routed(c) \union Piped(c))'
        /\ Before(Held(c), Coming(c))' /\ Before(Delivered(c), Held(c) \union Coming(c))'
        /\ Rising(chan'[c])
    BY <1>1, <1>2, <1>9 DEF OfCall, OrderOf, Before
  <2> QED  BY <1>1, <1>4, <2>2, <2>3, <2>4 DEF OrderOf, Rising, Before
<1>15. StreamInv(c)'
  <2>1. Collecting(c)' =>
          /\ \A k \in 1..Len(said'[c]) : Pays(c, k)' =>
                \/ k \in (Delivered(c) \union Held(c) \union Coming(c))'
                \/ ~up' /\ Before(Delivered(c) \union Held(c) \union Coming(c), {k})'
          /\ \A k \in Delivered(c)' : ~Fails(c, k)'
    BY <1>1, <1>2, <1>9 DEF StreamInv, Collecting, Before
  <2>2. \A x \in Delivered(c)' : \A k \in 1..x - 1 :
            ~Fails(c, k)' /\ (Pays(c, k)' => k \in Delivered(c)')
    BY <1>2, <1>9 DEF StreamInv
  <2>3. pc'[c] \in {"end", "close", "handled", "returned"} =>
            \/ ~up'
            \/ \E k \in Delivered(c)' : Fails(c, k)'
            \/ SaidDone(c)' /\ \A k \in 1..Len(said'[c]) : Pays(c, k)' => k \in Delivered(c)'
    BY <1>1, <1>2, <1>9 DEF StreamInv
  <2>4. \A i \in 1..Len(ran'[c]) : ran'[c][i][1] = "done" => (up' => SaidDone(c)')
    <3>1. \A i \in 1..Len(ran'[c]) : i = Len(ran[c]) + 1 \/ i \in 1..Len(ran[c])
      BY <1>7
    <3> QED  BY <1>6, <1>7, <1>10, <3>1
  <2> QED  BY <2>1, <2>2, <2>3, <2>4 DEF StreamInv
<1>16. \A b \in Calls \ {c} : Aside(b)
  BY <1>1, <1>7 DEF Aside
<1> QED  BY <1>1, <1>11, <1>12, <1>13, <1>14, <1>15, <1>16, CallStep DEF OfCall

LEMMA FollowHandlersEnd ==
    ASSUME TypeOK, TypeOK', PodsInv, FollowInv, NEW c \in Calls, HandlersEnd(c)
    PROVE  FollowInv'
<1> DEFINE e == <<"done", 0>>
<1>1. /\ UNCHANGED <<up, stdout, said, wire, rpc, rmsg, got,
                      chan, val, cmsg, closed, stopClosed, pending, streaming, failed>>
      /\ c \in AsyncCalls /\ c \notin SyncCalls /\ val[c] = <<>>
      /\ pc[c] = "handled" /\ pc'[c] = "returned"
      /\ ran' = IF c \in failed THEN ran ELSE [ran EXCEPT ![c] = Append(ran[c], e)]
      /\ \A b \in Calls \ {c} : pc'[b] = pc[b]
  BY CallSets DEF HandlersEnd, TypeOK, PodsInv, CallInv
<1>2. OfCall(c) /\ StreamInv(c) /\ Lines
  BY <1>1, FollowParts DEF OfCall
<1>3. \A i \in 1..Len(ran[c]) : ran[c][i][1] # "done"
  BY <1>1, <1>2 DEF OfCall, RanInv, Tag
<1>4. e \in {"success", "error", "done"} \X Nat /\ e[1] = "done"
  OBVIOUS
<1> HIDE DEF e
<1>5. /\ Seen(c)' = Seen(c) /\ \A b \in Calls \ {c} : ran'[b] = ran[b]
      /\ Len(ran[c]) \in Nat /\ \A i \in 1..Len(ran[c]) : ran'[c][i] = ran[c][i]
      /\ \A i \in 1..Len(ran'[c]) :
            \/ i \in 1..Len(ran[c])
            \/ /\ c \notin failed /\ i = Len(ran[c]) + 1
               /\ i = Len(ran'[c]) /\ ran'[c][i] = e
  <2>1. CASE c \in failed
    BY <1>1, <2>1 DEF Seen, TypeOK
  <2>2. CASE c \notin failed
    <3>1. /\ Seen(c)' = Seen(c) /\ \A b \in Calls \ {c} : ran'[b] = ran[b]
          /\ Len(ran'[c]) = Len(ran[c]) + 1 /\ Len(ran[c]) \in Nat
          /\ ran'[c][Len(ran[c]) + 1] = e
          /\ \A i \in 1..Len(ran[c]) : ran'[c][i] = ran[c][i]
      <4>1. ran \in [Calls -> Seq({"success", "error", "done"} \X Nat)]
        BY DEF TypeOK
      <4>2. ran' = [ran EXCEPT ![c] = Append(ran[c], e)]
        BY <1>1, <2>2
      <4> QED  BY <1>4, <4>1, <4>2, SeenAppend
    <3> QED  BY <2>2, <3>1
  <2> QED  BY <2>1, <2>2
<1>6. /\ Coming(c)' = Coming(c) /\ Queued(c)' = Queued(c) /\ Piped(c)' = Piped(c)
      /\ Routed(c)' = Routed(c) /\ Held(c)' = Held(c) /\ Delivered(c)' = Delivered(c)
      /\ Passed(c)' = Passed(c) /\ Passed(c) = {}
      /\ SaidDone(c)' <=> SaidDone(c)
      /\ \A k : (Pays(c, k)' <=> Pays(c, k)) /\ (Fails(c, k)' <=> Fails(c, k))
  <2>1. /\ Queued(c)' = Queued(c) /\ Piped(c)' = Piped(c) /\ Passed(c)' = Passed(c)
        /\ Routed(c)' = Routed(c) /\ Held(c)' = Held(c)
        /\ SaidDone(c)' <=> SaidDone(c)
        /\ \A k : (Pays(c, k)' <=> Pays(c, k)) /\ (Fails(c, k)' <=> Fails(c, k))
    BY <1>1 DEF Piped, Routed, Queued, Passed, Nums, Held, SaidDone, Pays, Fails
  <2>2. Passed(c) = {}
    BY <1>1 DEF Passed, Nums
  <2> QED  BY <1>5, <2>1, <2>2 DEF Coming, Delivered
<1>7. AuthOf(c)'
  BY <1>1, <1>2 DEF OfCall, AuthOf, IsSaid, Pays
<1>8. RanInv(c)'
  <2>1. ASSUME NEW i \in 1..Len(ran[c])
        PROVE  /\ ran[c][i][2] \in 1..Len(said[c]) /\ Pays(c, ran[c][i][2])
               /\ ran[c][i][1] = Tag(said[c][ran[c][i][2]])
    BY <1>2, <1>3 DEF OfCall, RanInv
  <2>2. \A k \in Seen(c)' : Fails(c, k) => c \in failed'
    BY <1>1, <1>2, <1>5 DEF OfCall, RanInv
  <2> QED  BY <1>1, <1>4, <1>5, <2>1, <2>2 DEF RanInv, Pays, Fails
<1>9. PhaseOf(c)'
  BY <1>1, <1>2, <1>6 DEF OfCall, PhaseOf, Collecting, Receiving
<1>10. OrderOf(c)'
  <2>1. ASSUME NEW i \in 1..Len(ran'[c]), NEW j \in 1..Len(ran'[c]),
               i < j, ran'[c][j][1] # "done"
        PROVE  ran'[c][i][2] < ran'[c][j][2]
    <3>1. j \in 1..Len(ran[c])
      BY <1>4, <1>5, <2>1
    <3>2. i \in 1..Len(ran[c])
      BY <1>5, <2>1, <3>1
    <3> QED  BY <1>2, <1>5, <2>1, <3>1, <3>2 DEF OfCall, OrderOf
  <2>2. /\ Before(Routed(c), Piped(c))' /\ Before(Queued(c), Routed(c) \union Piped(c))'
        /\ Before(Held(c), Coming(c))' /\ Before(Delivered(c), Held(c) \union Coming(c))'
        /\ Before(Seen(c), Passed(c))' /\ Rising(chan'[c]) /\ Rising(val'[c])
    BY <1>1, <1>2, <1>5, <1>6 DEF OfCall, OrderOf, Before
  <2> QED  BY <1>1, <2>1, <2>2 DEF OrderOf, Rising, Before
<1>11. StreamInv(c)'
  <2>1. \A x \in Delivered(c)' : \A k \in 1..x - 1 :
            ~Fails(c, k)' /\ (Pays(c, k)' => k \in Delivered(c)')
    BY <1>2, <1>6 DEF StreamInv
  <2>2. \/ ~up
        \/ \E k \in Delivered(c) : Fails(c, k)
        \/ SaidDone(c) /\ \A k \in 1..Len(said[c]) : Pays(c, k) => k \in Delivered(c)
    BY <1>1, <1>2 DEF StreamInv
  <2>3. (\E k \in Delivered(c) : Fails(c, k)) => c \in failed
    BY <1>2, <1>6 DEF OfCall, RanInv, Delivered
  <2>4. \A i \in 1..Len(ran'[c]) : ran'[c][i][1] = "done" => (up' => SaidDone(c)')
    BY <1>1, <1>3, <1>5, <1>6, <2>2, <2>3
  <2>5. ~Collecting(c)'
    BY <1>1 DEF Collecting
  <2> QED  BY <1>1, <1>6, <2>1, <2>2, <2>4, <2>5 DEF StreamInv
<1>12. \A b \in Calls \ {c} : Aside(b)
  BY <1>1, <1>5 DEF Aside
<1> QED  BY <1>1, <1>7, <1>8, <1>9, <1>10, <1>11, <1>12, CallStep DEF OfCall

-----------------------------------------------------------------------------
(* The steps of the pod and the router.                                    *)

\* What the calls own stands still.
CallsStill ==
    UNCHANGED <<pc, cmsg, got, val, ran, failed, streaming, stopClosed>>

LEMMA StillCall ==
    ASSUME CallsStill, NEW b, said'[b] = said[b], chan'[b] = chan[b],
           Piped(b)' = Piped(b), Routed(b)' = Routed(b),
           b \in pending' <=> b \in pending, b \in closed' <=> b \in closed
    PROVE  Untouched(b)
  BY DEF CallsStill, Untouched, Same, Held

LEMMA FollowPod ==
    ASSUME FollowInv, PodExit \/ Shutdown \/ UNCHANGED vars, up \in BOOLEAN
    PROVE  FollowInv'
<1>1. /\ CallsStill /\ UNCHANGED <<said, chan, wire, rpc, rmsg, pending, closed, stdout>>
      /\ up' => up
  <2>1. CASE PodExit
    BY <2>1 DEF PodExit, CallsStill
  <2>2. CASE Shutdown
    <3>1. up' = up \/ up' = FALSE
      BY <2>2 DEF Shutdown
    <3>2. CallsStill /\ UNCHANGED <<said, chan, wire, rpc, rmsg, pending, closed, stdout>>
      BY <2>2 DEF Shutdown, CallsStill
    <3> QED  BY <3>1, <3>2
  <2>3. CASE UNCHANGED vars
    BY <2>3 DEF vars, CallsStill
  <2> QED  BY <2>1, <2>2, <2>3
<1>2. \A b : Piped(b)' = Piped(b) /\ Routed(b)' = Routed(b)
  BY <1>1 DEF Piped, Routed
<1>3. Lines'
  BY <1>1, <1>2, FollowParts DEF Lines, IsSaid, Piped
<1>4. ASSUME NEW b \in Calls PROVE OfCall(b)'
  <2>1. Untouched(b)
    BY <1>1, <1>2, StillCall
  <2> QED  BY <1>1, <2>1, FollowParts, OtherCall
<1> QED  BY <1>3, <1>4, FollowParts

\* Replies of b on their way to its channel are dropped: its collector has
\* stopped, or the pod is gone and they were the last ones.
LEMMA Dropped ==
    ASSUME TypeOK, Lines, CallsStill, NEW b \in Calls, OfCall(b),
           UNCHANGED <<said, chan, pending, closed>>, up' = up,
           rpc = "ended" => rpc' = "ended",
           Piped(b)' \subseteq Piped(b), Routed(b)' \subseteq Routed(b),
           Collecting(b) => ~up /\ Piped(b)' = {} /\ Routed(b)' = Routed(b),
           Receiving(b) => ~up
    PROVE  OfCall(b)'
<1>1. /\ Queued(b)' = Queued(b) /\ Passed(b)' = Passed(b) /\ Seen(b)' = Seen(b)
      /\ Held(b)' = Held(b) /\ Delivered(b)' = Delivered(b)
      /\ Coming(b)' \subseteq Coming(b)
      /\ SaidDone(b)' <=> SaidDone(b)
      /\ \A k : (Pays(b, k)' <=> Pays(b, k)) /\ (Fails(b, k)' <=> Fails(b, k))
  <2>1. /\ Queued(b)' = Queued(b) /\ Passed(b)' = Passed(b) /\ Seen(b)' = Seen(b)
        /\ Held(b)' = Held(b)
        /\ SaidDone(b)' <=> SaidDone(b)
        /\ \A k : (Pays(b, k)' <=> Pays(b, k)) /\ (Fails(b, k)' <=> Fails(b, k))
    BY DEF CallsStill, Queued, Passed, Seen, Nums, Held, SaidDone, Pays, Fails
  <2> QED  BY <2>1 DEF Delivered, Coming
<1>2. AuthOf(b)'
  BY AuthFrame DEF OfCall, CallsStill
<1>3. RanInv(b)'
  BY <1>1 DEF OfCall, RanInv, CallsStill
<1>4. PhaseOf(b)'
  BY <1>1 DEF OfCall, PhaseOf, Collecting, Receiving, CallsStill
<1>5. OrderOf(b)'
  <2>1. /\ Before(Routed(b), Piped(b))' /\ Before(Queued(b), Routed(b) \union Piped(b))'
        /\ Before(Held(b), Coming(b))' /\ Before(Delivered(b), Held(b) \union Coming(b))'
        /\ Before(Seen(b), Passed(b))'
        /\ b \in SyncCalls => Before({got'[b]}, Coming(b)')
    BY <1>1 DEF OfCall, OrderOf, Before, CallsStill
  <2>2. /\ Rising(chan'[b]) /\ Rising(val'[b])
        /\ \A i, j \in 1..Len(ran'[b]) :
              i < j /\ ran'[b][j][1] # "done" => ran'[b][i][2] < ran'[b][j][2]
    BY DEF OfCall, OrderOf, CallsStill
  <2> QED  BY <2>1, <2>2 DEF OrderOf, Rising, Before
<1>6. ASSUME b \in AsyncCalls PROVE StreamInv(b)'
  <2>1. StreamInv(b) /\ (Collecting(b)' <=> Collecting(b))
    BY <1>6 DEF OfCall, Collecting, CallsStill
  <2>2. ASSUME Collecting(b), NEW k \in 1..Len(said[b]), Pays(b, k)
        PROVE  \/ k \in Delivered(b) \union Held(b) \union Coming(b)'
               \/ Before(Delivered(b) \union Held(b) \union Coming(b)', {k})
    <3>1. CASE k \in Piped(b)
      BY <1>1, <2>2, <3>1 DEF OfCall, OrderOf, Coming, Before
    <3>2. CASE k \in Delivered(b) \union Held(b) \union Queued(b) \union Routed(b)
      BY <1>1, <2>2, <3>2 DEF Coming
    <3>3. CASE Before(Delivered(b) \union Held(b) \union Coming(b), {k})
      BY <1>1, <3>3 DEF Before
    <3> QED  BY <2>1, <2>2, <3>1, <3>2, <3>3 DEF StreamInv, Coming
  <2>3. Collecting(b)' =>
          /\ \A k \in 1..Len(said'[b]) : Pays(b, k)' =>
                \/ k \in (Delivered(b) \union Held(b) \union Coming(b))'
                \/ ~up' /\ Before(Delivered(b) \union Held(b) \union Coming(b), {k})'
          /\ \A k \in Delivered(b)' : ~Fails(b, k)'
    BY <1>1, <2>1, <2>2 DEF StreamInv, Before
  <2>4. \A x \in Delivered(b)' : \A k \in 1..x - 1 :
            ~Fails(b, k)' /\ (Pays(b, k)' => k \in Delivered(b)')
    BY <1>1, <2>1 DEF StreamInv
  <2>5. pc'[b] \in {"end", "close", "handled", "returned"} =>
            \/ ~up'
            \/ \E k \in Delivered(b)' : Fails(b, k)'
            \/ SaidDone(b)' /\ \A k \in 1..Len(said'[b]) : Pays(b, k)' => k \in Delivered(b)'
    BY <1>1, <2>1 DEF StreamInv, CallsStill
  <2>6. \A i \in 1..Len(ran'[b]) : ran'[b][i][1] = "done" => (up' => SaidDone(b)')
    BY <1>1, <2>1 DEF StreamInv, CallsStill
  <2> QED  BY <2>3, <2>4, <2>5, <2>6 DEF StreamInv
<1>7. ASSUME b \in SyncCalls PROVE InvokeInv(b)'
  BY <1>1, <1>7 DEF OfCall, InvokeInv, Receiving, CallsStill
<1> QED  BY <1>2, <1>3, <1>4, <1>5, <1>6, <1>7 DEF OfCall

LEMMA FollowWaited ==
    ASSUME TypeOK, FollowInv, Waited
    PROVE  FollowInv'
<1>1. /\ CallsStill /\ UNCHANGED <<up, said, chan, rpc, rmsg, pending, closed>>
      /\ ~up /\ wire' = <<>>
  BY DEF Waited, CallsStill
<1>2. \A b : Piped(b)' = {} /\ Routed(b)' = Routed(b)
  BY <1>1 DEF Piped, Routed
<1>3. Lines'
  BY <1>1, <1>2, FollowParts DEF Lines, IsSaid, Before, Piped
<1>4. ASSUME NEW b \in Calls PROVE OfCall(b)'
  BY <1>1, <1>2, FollowParts, Dropped
<1> QED  BY <1>3, <1>4, FollowParts

LEMMA FollowRouterEnds ==
    ASSUME TypeOK, FollowInv, RouterEnds
    PROVE  FollowInv'
<1>1. /\ CallsStill /\ UNCHANGED <<up, stdout, said, chan, wire, rmsg>>
      /\ rpc = "decode" /\ rpc' = "ended" /\ wire = <<>>
      /\ closed' = closed \union pending /\ pending' = {}
  BY DEF RouterEnds, CallsStill
<1>2. Lines /\ ~up
  BY FollowParts DEF Lines, RouterEnds
<1>3. \A b : Piped(b)' = Piped(b) /\ Routed(b)' = Routed(b)
  BY <1>1 DEF Piped, Routed
<1>4. Lines'
  BY <1>1, <1>2 DEF Lines, IsSaid, Piped
<1>5. ASSUME NEW b \in Calls PROVE OfCall(b)'
  <2>1. OfCall(b) /\ Same(b)
    BY <1>1, <1>3, FollowParts DEF CallsStill, Same, Held
  <2>2. AuthOf(b)' /\ RanInv(b)' /\ OrderOf(b)'
    BY <1>1, <2>1, AuthFrame, RanSame, OrderSame DEF CallsStill, OfCall, Same
  <2>3. PhaseOf(b)'
    BY <1>1, <1>2, <2>1 DEF OfCall, PhaseOf, Collecting, Receiving, CallsStill
  <2>4. (b \in AsyncCalls => StreamInv(b))' /\ (b \in SyncCalls => InvokeInv(b))'
    BY <1>1, <2>1, StreamSame, InvokeSame DEF OfCall, Collecting, Receiving, CallsStill
  <2> QED  BY <2>2, <2>3, <2>4 DEF OfCall
<1> QED  BY <1>4, <1>5, FollowParts

\* A reply of b goes from one place on its way to the next.
LEMMA Moved ==
    ASSUME CallsStill, NEW b \in Calls, OfCall(b), UNCHANGED <<up, said>>,
           Coming(b)' = Coming(b)
    PROVE  /\ (b \in AsyncCalls => StreamInv(b))' /\ (b \in SyncCalls => InvokeInv(b))'
           /\ RanInv(b)'
           /\ Before(Delivered(b), Held(b) \union Coming(b))' /\ Before(Held(b), Coming(b))'
           /\ Before(Seen(b), Passed(b))' /\ Rising(val'[b])
           /\ b \in SyncCalls => Before({got'[b]}, Coming(b)')
           /\ \A i, j \in 1..Len(ran'[b]) :
                 i < j /\ ran'[b][j][1] # "done" => ran'[b][i][2] < ran'[b][j][2]
<1>1. /\ Passed(b)' = Passed(b) /\ Seen(b)' = Seen(b) /\ Held(b)' = Held(b)
      /\ SaidDone(b)' <=> SaidDone(b)
      /\ \A k : (Pays(b, k)' <=> Pays(b, k)) /\ (Fails(b, k)' <=> Fails(b, k))
  BY DEF CallsStill, Passed, Seen, Nums, Held, SaidDone, Pays, Fails
<1>2. Delivered(b)' = Delivered(b)
  BY <1>1 DEF Delivered
<1>3. ASSUME b \in AsyncCalls PROVE StreamInv(b)'
  <2>1. StreamInv(b) /\ (Collecting(b)' <=> Collecting(b))
    BY <1>3 DEF OfCall, Collecting, CallsStill
  <2>2. Collecting(b)' =>
          /\ \A k \in 1..Len(said'[b]) : Pays(b, k)' =>
                \/ k \in (Delivered(b) \union Held(b) \union Coming(b))'
                \/ ~up' /\ Before(Delivered(b) \union Held(b) \union Coming(b), {k})'
          /\ \A k \in Delivered(b)' : ~Fails(b, k)'
    BY <1>1, <1>2, <2>1 DEF StreamInv, Before
  <2>3. \A x \in Delivered(b)' : \A k \in 1..x - 1 :
            ~Fails(b, k)' /\ (Pays(b, k)' => k \in Delivered(b)')
    BY <1>1, <1>2, <2>1 DEF StreamInv
  <2>4. pc'[b] \in {"end", "close", "handled", "returned"} =>
            \/ ~up'
            \/ \E k \in Delivered(b)' : Fails(b, k)'
            \/ SaidDone(b)' /\ \A k \in 1..Len(said'[b]) : Pays(b, k)' => k \in Delivered(b)'
    BY <1>1, <1>2, <2>1 DEF StreamInv, CallsStill
  <2>5. \A i \in 1..Len(ran'[b]) : ran'[b][i][1] = "done" => (up' => SaidDone(b)')
    BY <1>1, <2>1 DEF StreamInv, CallsStill
  <2> QED  BY <2>2, <2>3, <2>4, <2>5 DEF StreamInv
<1>4. ASSUME b \in SyncCalls PROVE InvokeInv(b)'
  BY <1>1, <1>4 DEF OfCall, InvokeInv, Receiving, CallsStill
<1>5. RanInv(b)'
  BY <1>1 DEF OfCall, RanInv, CallsStill
<1>6. /\ Before(Delivered(b), Held(b) \union Coming(b))' /\ Before(Held(b), Coming(b))'
      /\ Before(Seen(b), Passed(b))'
      /\ b \in SyncCalls => Before({got'[b]}, Coming(b)')
  BY <1>1, <1>2 DEF OfCall, OrderOf, Before, CallsStill
<1>7. Rising(val'[b]) /\ \A i, j \in 1..Len(ran'[b]) :
          i < j /\ ran'[b][j][1] # "done" => ran'[b][i][2] < ran'[b][j][2]
  BY DEF OfCall, OrderOf, CallsStill
<1> QED  BY <1>3, <1>4, <1>5, <1>6, <1>7


LEMMA FollowRoute ==
    ASSUME TypeOK, PodsInv, FollowInv, Route
    PROVE  FollowInv'
<1> DEFINE m == Head(wire)
<1>1. /\ CallsStill /\ UNCHANGED <<up, stdout, said, chan, pending, closed>>
      /\ rpc = "decode" /\ wire # <<>> /\ wire' = Tail(wire) /\ wire \in Seq(Msgs)
      /\ m.id \in pending => rpc' = "send" /\ rmsg' = m
      /\ m.id \notin pending => rpc' = rpc /\ rmsg' = rmsg
  BY DEF Route, CallsStill, TypeOK
<1>2. Lines /\ OrderInv
  BY FollowParts DEF FollowInv
<1>3. /\ Len(wire) \in Nat /\ Len(wire) >= 1 /\ Len(wire') = Len(wire) - 1
      /\ m \in Msgs /\ m = wire[1] /\ m.id \in Calls
      /\ \A i \in 1..Len(wire) - 1 : wire'[i] = wire[i + 1]
  BY <1>1, Taken, MsgFields
<1>4. PICK c \in Calls : c = m.id
  BY <1>3
<1>5. PICK n : n = m.n
  OBVIOUS
<1> HIDE DEF m
<1>6. /\ Piped(c) = Piped(c)' \union {n} /\ Before({n}, Piped(c)')
      /\ \A b \in Calls \ {c} : Piped(b)' = Piped(b)
  <2>1. PICK x : x = m
    OBVIOUS
  <2>2. /\ Piped(x.id) = Piped(x.id)' \union {x.n} /\ Before({x.n}, Piped(x.id)')
        /\ \A b \in Calls \ {x.id} : Piped(b)' = Piped(b)
    BY <1>1, <1>2, <2>1, PipedTail DEF m
  <2>3. c = x.id /\ n = x.n
    BY <1>4, <1>5, <2>1
  <2> QED  BY <2>2, <2>3
<1>7. IsSaid(c, m)
  <2>1. 1 \in 1..Len(wire)
    BY <1>3
  <2> QED  BY <1>2, <1>3, <1>4, <2>1 DEF Lines
<1>8. Lines'
  <2>1. \A i \in 1..Len(wire') : i + 1 \in 1..Len(wire) /\ wire'[i] = wire[i + 1]
    BY <1>3
  <2>2. \A i, j \in 1..Len(wire') :
            i < j /\ wire'[i].id = wire'[j].id => wire'[i].n < wire'[j].n
    BY <1>2, <2>1 DEF Lines
  <2>3. \A i \in 1..Len(wire') : IsSaid(wire'[i].id, wire'[i])
    BY <1>2, <2>1 DEF Lines
  <2>4. rpc' = "send" => rmsg' = m
    BY <1>1
  <2>5. rpc' \in {"decode", "send"}
    BY <1>1
  <2> QED  BY <1>1, <1>2, <1>4, <1>7, <2>2, <2>3, <2>4, <2>5 DEF Lines, IsSaid
<1>9. ASSUME NEW b \in Calls \ {c} PROVE OfCall(b)'
  <2>1. Routed(b)' = {} /\ Routed(b) = {}
    BY <1>1, <1>4 DEF Routed
  <2>2. Untouched(b)
    BY <1>1, <1>6, <2>1, StillCall
  <2> QED  BY <1>1, <2>2, FollowParts, OtherCall
<1>10. CASE c \notin pending
  <2>1. Routed(c)' = Routed(c) /\ rpc # "ended"
    BY <1>1, <1>4, <1>10 DEF Routed
  <2>2. OfCall(c)
    BY FollowParts
  <2>3. ~Collecting(c)
    BY <1>10, <2>1, <2>2 DEF OfCall, PhaseOf
  <2>4. Receiving(c) => ~up
    BY <1>6, <1>10, <2>2 DEF OfCall, PhaseOf, Receiving
  <2>5. OfCall(c)'
    BY <1>1, <1>2, <1>6, <2>1, <2>2, <2>3, <2>4, Dropped
  <2>6. \A b \in Calls : OfCall(b)'
    BY <1>9, <2>5
  <2> QED  BY <1>8, <2>6, FollowParts
<1>11. CASE c \in pending
  <2>1. Routed(c) = {} /\ Routed(c)' = {n}
    BY <1>1, <1>4, <1>5, <1>11 DEF Routed
  <2>2. OfCall(c) /\ rpc' = "send" /\ rpc # "ended"
    BY <1>1, <1>4, <1>11, FollowParts
  <2>3. Queued(c)' = Queued(c) /\ Coming(c)' = Coming(c)
        /\ (SaidDone(c)' <=> SaidDone(c))
    BY <1>1, <1>6, <2>1 DEF Queued, Nums, Coming, SaidDone
  <2>4. /\ (c \in AsyncCalls => StreamInv(c))' /\ (c \in SyncCalls => InvokeInv(c))'
        /\ RanInv(c)'
        /\ Before(Delivered(c), Held(c) \union Coming(c))' /\ Before(Held(c), Coming(c))'
        /\ Before(Seen(c), Passed(c))' /\ Rising(val'[c])
        /\ c \in SyncCalls => Before({got'[c]}, Coming(c)')
        /\ \A i, j \in 1..Len(ran'[c]) :
              i < j /\ ran'[c][j][1] # "done" => ran'[c][i][2] < ran'[c][j][2]
    BY <1>1, <2>2, <2>3, Moved
  <2>5. AuthOf(c)'
    BY <1>1, <2>2, AuthFrame DEF OfCall, CallsStill
  <2>6. PhaseOf(c)'
    BY <1>1, <1>6, <2>2, <2>3 DEF OfCall, PhaseOf, Collecting, Receiving, CallsStill
  <2>7. OrderOf(c)'
    <3>1. /\ Before(Routed(c), Piped(c))' /\ Before(Queued(c), Routed(c) \union Piped(c))'
          /\ Rising(chan'[c])
      BY <1>1, <1>6, <2>1, <2>2, <2>3 DEF OfCall, OrderOf, Before
    <3> QED  BY <2>4, <3>1 DEF OrderOf, Rising, Before
  <2>8. \A b \in Calls : OfCall(b)'
    BY <1>9, <2>4, <2>5, <2>6, <2>7 DEF OfCall
  <2> QED  BY <1>8, <2>8, FollowParts
<1> QED  BY <1>10, <1>11

LEMMA FollowRouterSend ==
    ASSUME TypeOK, PodsInv, FollowInv, RouterSend
    PROVE  FollowInv'
<1>1. /\ CallsStill /\ UNCHANGED <<up, stdout, said, wire, pending, closed>>
      /\ rpc = "send" /\ rmsg \in Msgs /\ rmsg.id \in Calls /\ rmsg.id \notin closed
      /\ chan \in [Calls -> Seq(Msgs)]
      /\ chan' = [chan EXCEPT ![rmsg.id] = Append(chan[rmsg.id], rmsg)]
      /\ (rpc' = "settle" /\ rmsg' = rmsg) \/ rpc' = "decode"
  BY MsgFields DEF RouterSend, RouterDone, CallsStill, TypeOK, PodsInv, RouterInv
<1>2. PICK c \in Calls : c = rmsg.id
  BY <1>1
<1>3. PICK n : n = rmsg.n
  OBVIOUS
<1>4. OfCall(c) /\ Lines
  BY FollowParts
<1>5. Routed(c) = {n} /\ \A b \in Calls : Routed(b)' = {} /\ Piped(b)' = Piped(b)
  BY <1>1, <1>2, <1>3 DEF Routed, Piped
<1>6. \A b \in Calls \ {c} : Routed(b) = {} /\ chan'[b] = chan[b]
  BY <1>1, <1>2 DEF Routed
<1>7. chan[c] \in Seq(Msgs) /\ chan'[c] = Append(chan[c], rmsg)
  BY <1>1, <1>2
<1>8. Queued(c)' = Queued(c) \union {n} /\ Rising(chan'[c])
  <2>1. Before(Nums(chan[c]), {n}) /\ Rising(chan[c])
    BY <1>4, <1>5 DEF OfCall, OrderOf, Queued, Before
  <2>2. Nums(chan'[c]) = Nums(chan[c]) \union {n} /\ Rising(chan'[c])
    BY <1>1, <1>3, <1>7, <2>1, NumsAppend
  <2>3. Queued(c)' = Nums(chan'[c])
    BY DEF Queued, Nums
  <2> QED  BY <2>2, <2>3 DEF Queued
<1>9. Coming(c)' = Coming(c)
  BY <1>5, <1>8 DEF Coming
<1>10. Lines'
  <2>1. rpc' = "settle" => Before({rmsg'.n}, Piped(c)')
    BY <1>1, <1>3, <1>4, <1>5 DEF OfCall, OrderOf
  <2>2. rpc' \in {"settle", "decode"} /\ (rpc' = "settle" => rmsg' = rmsg)
    BY <1>1
  <2>3. (rpc = "settle" => Before({rmsg.n}, Piped(rmsg.id)))'
    BY <1>2, <2>1, <2>2 DEF Piped
  <2>4. (rpc \in {"send", "settle"} => IsSaid(rmsg.id, rmsg))'
    BY <1>1, <1>4, <2>2 DEF Lines, IsSaid
  <2>5. (\A i \in 1..Len(wire) : IsSaid(wire[i].id, wire[i]))'
    BY <1>1, <1>4 DEF Lines, IsSaid
  <2> QED  BY <1>1, <1>4, <2>2, <2>3, <2>4, <2>5 DEF Lines
<1>11. ASSUME NEW b \in Calls \ {c} PROVE OfCall(b)'
  <2>1. Untouched(b)
    BY <1>1, <1>5, <1>6, StillCall
  <2> QED  BY <1>1, <2>1, FollowParts, OtherCall
<1>12. /\ (c \in AsyncCalls => StreamInv(c))' /\ (c \in SyncCalls => InvokeInv(c))'
       /\ RanInv(c)'
       /\ Before(Delivered(c), Held(c) \union Coming(c))' /\ Before(Held(c), Coming(c))'
       /\ Before(Seen(c), Passed(c))' /\ Rising(val'[c])
       /\ c \in SyncCalls => Before({got'[c]}, Coming(c)')
       /\ \A i, j \in 1..Len(ran'[c]) :
             i < j /\ ran'[c][j][1] # "done" => ran'[c][i][2] < ran'[c][j][2]
  BY <1>1, <1>4, <1>9, Moved
<1>13. AuthOf(c)'
  <2>1. IsSaid(c, rmsg)
    BY <1>1, <1>2, <1>4 DEF Lines
  <2>2. \A i \in 1..Len(chan'[c]) : IsSaid(c, chan'[c][i])
    <3>1. /\ Len(chan[c]) \in Nat /\ Len(chan'[c]) = Len(chan[c]) + 1
          /\ chan'[c][Len(chan[c]) + 1] = rmsg
          /\ \A i \in 1..Len(chan[c]) : chan'[c][i] = chan[c][i]
      BY <1>1, <1>7, Grown
    <3>2. \A i \in 1..Len(chan'[c]) : i \in 1..Len(chan[c]) \/ i = Len(chan[c]) + 1
      BY <3>1
    <3>3. \A i \in 1..Len(chan[c]) : IsSaid(c, chan[c][i])
      BY <1>4 DEF OfCall, AuthOf
    <3> QED  BY <2>1, <3>1, <3>2, <3>3
  <2> QED  BY <1>1, <1>4, <2>2 DEF OfCall, AuthOf, IsSaid, Pays, CallsStill
<1>14. PhaseOf(c)'
  BY <1>1, <1>4, <1>5 DEF OfCall, PhaseOf, Collecting, Receiving, CallsStill, SaidDone
<1>15. OrderOf(c)'
  <2>1. Before(Routed(c), Piped(c))' /\ Before(Queued(c), Routed(c) \union Piped(c))'
    BY <1>4, <1>5, <1>8 DEF OfCall, OrderOf, Before
  <2> QED  BY <1>8, <1>12, <2>1 DEF OrderOf, Rising, Before
<1>16. \A b \in Calls : OfCall(b)'
  BY <1>11, <1>12, <1>13, <1>14, <1>15 DEF OfCall
<1> QED  BY <1>10, <1>16, FollowParts

LEMMA FollowRouterGivesUp ==
    ASSUME TypeOK, PodsInv, FollowInv, RouterGivesUp
    PROVE  FollowInv'
<1>1. /\ CallsStill /\ UNCHANGED <<up, stdout, said, wire, chan, pending, closed>>
      /\ rpc = "send" /\ rpc' = "decode" /\ rmsg.id \in Calls /\ rmsg.id \in stopClosed
      /\ rmsg.id \in AsyncCalls
  BY MsgFields DEF RouterGivesUp, RouterDone, CallsStill, TypeOK, PodsInv, RouterInv
<1>2. PICK c \in Calls : c = rmsg.id
  BY <1>1
<1>3. \A b : Piped(b)' = Piped(b) /\ Routed(b)' = {}
  BY <1>1 DEF Piped, Routed
<1>4. Lines /\ Lines'
  BY <1>1, <1>3, FollowParts DEF Lines, IsSaid, Piped
<1>5. ASSUME NEW b \in Calls \ {c} PROVE OfCall(b)'
  <2>1. Untouched(b)
    <3>1. Routed(b) = {}
      BY <1>1, <1>2 DEF Routed
    <3> QED  BY <1>1, <1>3, <3>1, StillCall
  <2> QED  BY <1>1, <2>1, FollowParts, OtherCall
<1>6. OfCall(c)'
  <2>1. OfCall(c)
    BY FollowParts
  <2>2. ~Collecting(c) /\ ~Receiving(c)
    BY <1>1, <1>2, <2>1, CallSets DEF OfCall, PhaseOf, Collecting, Receiving
  <2> QED  BY <1>1, <1>3, <1>4, <2>1, <2>2, Dropped
<1>7. \A b \in Calls : OfCall(b)'
  BY <1>5, <1>6
<1> QED  BY <1>4, <1>7, FollowParts

LEMMA FollowSettle ==
    ASSUME TypeOK, PodsInv, FollowInv, Settle
    PROVE  FollowInv'
<1>1. /\ CallsStill /\ UNCHANGED <<up, stdout, said, wire, chan>>
      /\ rpc = "settle" /\ rpc' = "decode" /\ rmsg \in Msgs /\ rmsg.id \in Calls
      /\ rmsg.done
      /\ rmsg.id \in streaming => UNCHANGED <<pending, closed>>
      /\ rmsg.id \notin streaming => /\ pending' = pending \ {rmsg.id}
                                     /\ closed' = closed \union {rmsg.id}
  BY MsgFields DEF Settle, RouterDone, CallsStill, TypeOK, PodsInv, RouterInv
<1>2. PICK c \in Calls : c = rmsg.id
  BY <1>1
<1>3. \A b : Piped(b)' = Piped(b) /\ Routed(b)' = Routed(b)
  BY <1>1 DEF Piped, Routed
<1>4. Lines /\ Lines'
  BY <1>1, <1>3, FollowParts DEF Lines, IsSaid, Piped
<1>5. ASSUME NEW b \in Calls, b # c \/ c \in streaming PROVE OfCall(b)'
  <2>1. Untouched(b)
    BY <1>1, <1>2, <1>3, <1>5, StillCall
  <2> QED  BY <1>1, <2>1, FollowParts, OtherCall
<1>6. ASSUME c \notin streaming PROVE OfCall(c)'
  <2>1. OfCall(c) /\ Same(c) /\ c \in closed'
    BY <1>1, <1>2, <1>3, <1>6, FollowParts DEF CallsStill, Same, Held
  <2>2. AuthOf(c)' /\ RanInv(c)' /\ OrderOf(c)'
    BY <1>1, <2>1, AuthFrame, RanSame, OrderSame DEF CallsStill, OfCall, Same
  <2>3. SaidDone(c) /\ Piped(c) = {}
    <3>1. IsSaid(c, rmsg) /\ Before({rmsg.n}, Piped(c))
      BY <1>1, <1>2, <1>4 DEF Lines
    <3>2. said[c] \in Seq(Msgs) /\ Len(said[c]) \in Nat /\ Piped(c) \subseteq 1..Len(said[c])
      BY <1>4, <2>1, Places DEF OfCall, TypeOK
    <3>3. rmsg.n = Len(said[c]) /\ said[c] # <<>> /\ said[c][Len(said[c])].done
      BY <1>1, <2>1, <3>1, <3>2 DEF OfCall, AuthOf, IsSaid
    <3> QED  BY <3>1, <3>2, <3>3 DEF SaidDone, Last, Before
  <2>4. PhaseOf(c)'
    BY <1>1, <1>3, <1>6, <2>1, <2>3, SameSets
    DEF OfCall, PhaseOf, Collecting, Receiving, CallsStill
  <2>5. (c \in AsyncCalls => StreamInv(c))' /\ (c \in SyncCalls => InvokeInv(c))'
    BY <1>1, <2>1, StreamSame, InvokeSame DEF OfCall, Collecting, Receiving, CallsStill
  <2> QED  BY <2>2, <2>4, <2>5 DEF OfCall
<1>7. \A b \in Calls : OfCall(b)'
  BY <1>5, <1>6
<1> QED  BY <1>4, <1>7, FollowParts

LEMMA FollowReply ==
    ASSUME TypeOK, PodsInv, FollowInv, NEW c \in Calls, Reply(c)
    PROVE  FollowInv'
<1>1. PICK m \in Msgs :
          /\ m.id = c /\ m.n = Len(said[c]) + 1
          /\ said'[c] = Append(said[c], m) /\ wire' = Append(wire, m)
          /\ Len(said'[c]) = Len(said[c]) + 1 /\ said'[c][m.n] = m
          /\ Len(said[c]) \in Nat /\ ~SaidDone(c) /\ up
          /\ \A b \in Calls \ {c} : said'[b] = said[b]
  BY ReplySaid
<1>2. /\ CallsStill /\ UNCHANGED <<up, stdout, chan, pending, closed, rpc, rmsg>>
      /\ SaidGrows /\ wire \in Seq(Msgs)
  BY ReplySaid DEF Reply, CallsStill, TypeOK
<1>3. PICK n : n = m.n
  OBVIOUS
<1>4. Piped(c)' = Piped(c) \union {n} /\ \A b \in Calls \ {c} : Piped(b)' = Piped(b)
  <2>1. /\ Piped(m.id)' = Piped(m.id) \union {m.n}
        /\ \A b \in Calls \ {m.id} : Piped(b)' = Piped(b)
    BY <1>1, <1>2, PipedAppend
  <2> QED  BY <1>1, <1>3, <2>1
<1>5. \A b : Routed(b)' = Routed(b)
  BY <1>2 DEF Routed
<1>6. OfCall(c) /\ Lines /\ OrderInv
  BY FollowParts DEF FollowInv
<1>7. AuthInv'
  BY AuthReply DEF FollowInv
<1>8. /\ Piped(c) \subseteq 1..n - 1 /\ Routed(c) \subseteq 1..n - 1
      /\ Queued(c) \subseteq 1..n - 1 /\ Held(c) \subseteq 1..n - 1
      /\ Passed(c) \subseteq 1..n - 1 /\ Seen(c) \subseteq 1..n - 1
      /\ n \in Nat /\ got[c] \in 0..n - 1 /\ n - 1 = Len(said[c])
  BY <1>1, <1>3, <1>6, Places DEF OfCall
<1>9. Lines'
  <2>1. /\ Len(wire') = Len(wire) + 1 /\ Len(wire) \in Nat /\ wire'[Len(wire) + 1] = m
        /\ \A i \in 1..Len(wire) : wire'[i] = wire[i]
    BY <1>1, <1>2, Grown
  <2>2. ASSUME NEW i \in 1..Len(wire'), NEW j \in 1..Len(wire'),
               i < j, wire'[i].id = wire'[j].id
        PROVE  wire'[i].n < wire'[j].n
    <3>1. i \in 1..Len(wire) /\ wire'[i] = wire[i]
      BY <2>1, <2>2
    <3>2. CASE j = Len(wire) + 1
      <4>1. wire[i].id = c
        BY <1>1, <2>1, <2>2, <3>1, <3>2
      <4>2. wire[i].n \in Piped(c)
        BY <3>1, <4>1 DEF Piped
      <4> QED  BY <1>1, <1>3, <1>8, <2>1, <3>1, <3>2, <4>2
    <3>3. CASE j # Len(wire) + 1
      <4>1. j \in 1..Len(wire) /\ wire'[j] = wire[j]
        BY <2>1, <3>3
      <4> QED  BY <1>6, <2>2, <3>1, <4>1 DEF Lines
    <3> QED  BY <3>2, <3>3
  <2>3. rpc' = "settle" => Before({rmsg'.n}, Piped(rmsg.id)')
    <3>1. ASSUME rpc = "settle" PROVE Before({rmsg.n}, Piped(rmsg.id)')
      <4>1. PICK b \in Calls : b = rmsg.id
        BY <3>1, MsgFields DEF PodsInv, RouterInv
      <4>2. Before({rmsg.n}, Piped(b)) /\ rmsg.n \in 1..Len(said[b])
        BY <1>6, <3>1, <4>1 DEF Lines, IsSaid
      <4>3. Before({rmsg.n}, Piped(b)')
        <5>1. CASE b = c
          BY <1>4, <1>8, <4>2, <5>1 DEF Before
        <5>2. CASE b # c
          BY <1>4, <4>2, <5>2
        <5> QED  BY <5>1, <5>2
      <4> QED  BY <1>2, <4>1, <4>3
    <3> QED  BY <1>2, <3>1
  <2>4. /\ (\A i \in 1..Len(wire) : IsSaid(wire[i].id, wire[i]))'
        /\ (rpc \in {"send", "settle"} => IsSaid(rmsg.id, rmsg))'
    BY <1>7 DEF AuthInv
  <2>5. (~stdout => ~up)' /\ (rpc = "ended" => ~up)'
    BY <1>2, <1>6 DEF Lines
  <2>6. (rpc = "settle" => Before({rmsg.n}, Piped(rmsg.id)))'
    BY <1>2, <2>3 DEF Piped
  <2> QED  BY <2>2, <2>4, <2>5, <2>6 DEF Lines
<1>10. ASSUME NEW b \in Calls \ {c} PROVE OfCall(b)'
  <2>1. Untouched(b)
    BY <1>1, <1>2, <1>4, <1>5, StillCall
  <2> QED  BY <1>2, <2>1, FollowParts, OtherCall
<1>11. /\ Queued(c)' = Queued(c) /\ Passed(c)' = Passed(c) /\ Seen(c)' = Seen(c)
       /\ Held(c)' = Held(c) /\ Delivered(c)' = Delivered(c)
       /\ Coming(c)' = Coming(c) \union {n}
  <2>1. /\ Queued(c)' = Queued(c) /\ Passed(c)' = Passed(c) /\ Seen(c)' = Seen(c)
        /\ Held(c)' = Held(c)
    BY <1>2 DEF CallsStill, Queued, Passed, Seen, Nums, Held
  <2> QED  BY <1>4, <1>5, <2>1 DEF Delivered, Coming
<1>12. \A k \in 1..n - 1 : /\ said'[c][k] = said[c][k]
                           /\ Pays(c, k)' <=> Pays(c, k)
                           /\ Fails(c, k)' <=> Fails(c, k)
  BY <1>2, <1>8 DEF SaidGrows, Pays, Fails
<1>13. RanInv(c)'
  <2>1. ASSUME NEW i \in 1..Len(ran[c])
        PROVE  \/ /\ ran[c][i][1] = "done" /\ i = Len(ran[c])
                  /\ pc[c] = "returned" /\ c \notin failed
               \/ /\ ran[c][i][2] \in 1..Len(said'[c]) /\ Pays(c, ran[c][i][2])'
                  /\ ran[c][i][1] = Tag(said'[c][ran[c][i][2]])
    <3>1. \/ /\ ran[c][i][1] = "done" /\ i = Len(ran[c])
             /\ pc[c] = "returned" /\ c \notin failed
          \/ /\ ran[c][i][2] \in 1..n - 1 /\ Pays(c, ran[c][i][2])
             /\ ran[c][i][1] = Tag(said[c][ran[c][i][2]])
      BY <1>6, <1>8 DEF OfCall, RanInv
    <3>2. ASSUME NEW k \in 1..n - 1, ran[c][i][2] = k, Pays(c, k),
                 ran[c][i][1] = Tag(said[c][k])
          PROVE  /\ k \in 1..Len(said'[c]) /\ said'[c][k].kind # "plain"
                 /\ ran[c][i][1] = Tag(said'[c][k])
      BY <1>1, <1>8, <1>12, <3>2 DEF Pays
    <3>3. ran' = ran
      BY <1>2 DEF CallsStill
    <3> QED  BY <3>1, <3>2, <3>3 DEF Pays
  <2>2. \A k \in Seen(c)' : Fails(c, k)' => c \in failed'
    BY <1>2, <1>6, <1>8, <1>11, <1>12 DEF OfCall, RanInv, CallsStill
  <2> QED  BY <1>2, <1>6, <2>1, <2>2 DEF RanInv, OfCall, CallsStill, Pays
<1>14. PhaseOf(c)'
  BY <1>1, <1>2, <1>6 DEF OfCall, PhaseOf, Collecting, Receiving, CallsStill
<1>15. OrderOf(c)'
  <2>1. /\ Before(Routed(c), Piped(c))' /\ Before(Queued(c), Routed(c) \union Piped(c))'
        /\ Before(Held(c), Coming(c))' /\ Before(Delivered(c), Held(c) \union Coming(c))'
        /\ Before(Seen(c), Passed(c))'
        /\ c \in SyncCalls => Before({got'[c]}, Coming(c)')
    BY <1>2, <1>4, <1>5, <1>6, <1>8, <1>11 DEF OfCall, OrderOf, Before, Delivered, CallsStill
  <2>2. /\ Rising(chan'[c]) /\ Rising(val'[c])
        /\ \A i, j \in 1..Len(ran'[c]) :
              i < j /\ ran'[c][j][1] # "done" => ran'[c][i][2] < ran'[c][j][2]
    BY <1>2, <1>6 DEF OfCall, OrderOf, CallsStill
  <2> QED  BY <2>1, <2>2 DEF OrderOf, Rising, Before
<1>16. ASSUME c \in AsyncCalls PROVE StreamInv(c)'
  <2>1. StreamInv(c) /\ (Collecting(c)' <=> Collecting(c))
    BY <1>2, <1>6, <1>16 DEF OfCall, Collecting, CallsStill
  <2>2. \A k \in 1..Len(said'[c]) : k \in 1..n - 1 \/ k = n
    BY <1>1, <1>8
  <2>3. Delivered(c) \subseteq 1..n - 1
    BY <1>8 DEF Delivered
  <2>4. Collecting(c)' =>
          /\ \A k \in 1..Len(said'[c]) : Pays(c, k)' =>
                k \in (Delivered(c) \union Held(c) \union Coming(c))'
          /\ \A k \in Delivered(c)' : ~Fails(c, k)'
    BY <1>1, <1>8, <1>11, <1>12, <2>1, <2>2, <2>3 DEF StreamInv
  <2>5. ASSUME NEW x \in Delivered(c)', NEW k \in 1..x - 1
        PROVE  ~Fails(c, k)' /\ (Pays(c, k)' => k \in Delivered(c)')
    <3>1. x \in Delivered(c) /\ k \in 1..n - 1
      BY <1>8, <1>11, <2>3
    <3> QED  BY <1>11, <1>12, <2>1, <3>1 DEF StreamInv
  <2>6. pc'[c] \in {"end", "close", "handled", "returned"} =>
            \E k \in Delivered(c)' : Fails(c, k)'
    BY <1>1, <1>2, <1>11, <1>12, <2>1, <2>3 DEF StreamInv, CallsStill
  <2>7. \A i \in 1..Len(ran'[c]) : ran'[c][i][1] # "done"
    BY <1>1, <1>2, <2>1 DEF StreamInv, CallsStill
  <2> QED  BY <2>4, <2>5, <2>6, <2>7 DEF StreamInv
<1>17. ASSUME c \in SyncCalls PROVE InvokeInv(c)'
  <2>1. InvokeInv(c) /\ (Receiving(c)' <=> Receiving(c)) /\ pc'[c] = pc[c] /\ got'[c] = got[c]
    BY <1>2, <1>6, <1>17 DEF OfCall, Receiving, CallsStill
  <2>2. \A k \in 1..Len(said'[c]) : k \in 1..n - 1 \/ k = n
    BY <1>1, <1>8
  <2>3. pc[c] # "returned"
    BY <1>1, <2>1 DEF InvokeInv
  <2>4. Receiving(c) => \A k \in 1..Len(said'[c]) :
            said'[c][k].kind = "value" => k <= got'[c] \/ k \in Coming(c)'
    BY <1>1, <1>8, <1>11, <1>12, <2>1, <2>2 DEF InvokeInv
  <2> QED  BY <2>1, <2>3, <2>4 DEF InvokeInv
<1>18. OfCall(c)'
  <2>1. AuthOf(c)'
    BY <1>7 DEF AuthInv
  <2> QED  BY <1>13, <1>14, <1>15, <1>16, <1>17, <2>1 DEF OfCall
<1>19. \A b \in Calls : OfCall(b)'
  BY <1>10, <1>18
<1> QED  BY <1>9, <1>19, FollowParts

-----------------------------------------------------------------------------
LEMMA FollowInit == Init => FollowInv
<1> SUFFICES ASSUME Init PROVE FollowInv
  OBVIOUS
<1>1. /\ Len(wire) = 0 /\ rpc = "decode" /\ stdout /\ up
      /\ pending = {} /\ streaming = {} /\ closed = {} /\ stopClosed = {} /\ failed = {}
      /\ \A c \in Calls : /\ said[c] = <<>> /\ chan[c] = <<>> /\ val[c] = <<>>
                          /\ ran[c] = <<>> /\ got[c] = 0 /\ pc[c] = "idle"
  BY DEF Init
<1>2. \A c : Piped(c) = {} /\ Routed(c) = {}
  BY <1>1 DEF Piped, Routed
<1>3. \A c \in Calls : Queued(c) = {} /\ Passed(c) = {} /\ Seen(c) = {} /\ Held(c) = {}
  BY <1>1 DEF Queued, Passed, Nums, Seen, Held
<1>4. \A c \in Calls : Delivered(c) = {} /\ Coming(c) = {}
  BY <1>2, <1>3 DEF Delivered, Coming
<1>5. \A c \in Calls : AuthOf(c) /\ RanInv(c)
  BY <1>1, <1>3 DEF AuthOf, RanInv
<1>6. \A c \in Calls : PhaseOf(c) /\ StreamInv(c) /\ InvokeInv(c)
  BY <1>1, <1>4 DEF PhaseOf, StreamInv, InvokeInv, Collecting, Receiving
<1>7. \A c \in Calls : OrderOf(c)
  BY <1>1, <1>2, <1>3, <1>4 DEF OrderOf, Rising, Before
<1>8. Lines
  BY <1>1 DEF Lines
<1> QED  BY <1>5, <1>6, <1>7, <1>8, FollowParts DEF OfCall

LEMMA FollowNext == TypeOK /\ PodsInv /\ FollowInv /\ [Next]_vars => FollowInv'
<1> SUFFICES ASSUME TypeOK, PodsInv, FollowInv, [Next]_vars PROVE FollowInv'
  OBVIOUS
<1>1. TypeOK' /\ up \in BOOLEAN
  BY TypeNext DEF TypeOK
<1>2. CASE PodExit \/ Shutdown \/ UNCHANGED vars
  BY <1>1, <1>2, FollowPod
<1>3. CASE Waited
  BY <1>3, FollowWaited
<1>4. CASE Router
  BY <1>4, FollowRoute, FollowRouterSend, FollowRouterGivesUp, FollowSettle,
     FollowRouterEnds DEF Router
<1>5. ASSUME NEW c \in Calls, Register(c) \/ Reply(c) PROVE FollowInv'
  BY <1>1, <1>5, FollowRegister, FollowReply
<1>6. ASSUME NEW c \in Calls, Call(c) PROVE FollowInv'
  BY <1>1, <1>6, FollowSend, FollowReceive, FollowCollect, FollowPass, FollowEndStream,
     FollowCloseVal, FollowHandle, FollowHandlersEnd DEF Call
<1> QED  BY <1>2, <1>3, <1>4, <1>5, <1>6 DEF Next

(* Every reply is in one place of its own call, the replies of a call     *)
(* overtake each other nowhere, and while the pod lives the ones it still  *)
(* matters to deliver are on their way.                                    *)
THEOREM FollowInvariant == Spec => []FollowInv
  BY FollowInit, FollowNext, Invariant, PTL DEF Spec

(* The handlers of a stream run on what the pod sent to it, in order and   *)
(* without a gap up to the first failure; a synchronous call returns the   *)
(* last value sent to it.                                                  *)
THEOREM CallersServed == Spec => []CallersFollowPod
<1>1. TypeOK /\ FollowInv => CallersFollowPod
  <2> SUFFICES ASSUME TypeOK, FollowInv PROVE HandlersFollowPod /\ InvokeAnswers
    BY DEF CallersFollowPod
  <2>1. Lines /\ \A c \in Calls : OfCall(c)
    BY FollowParts
  <2>2. ASSUME NEW c \in AsyncCalls, NEW i \in DOMAIN ran[c], NEW n, n = ran[c][i][2],
               ran[c][i][1] # "done"
        PROVE  /\ n \in DOMAIN said[c] /\ Pays(c, n) /\ ran[c][i][1] = Tag(said[c][n])
               /\ \A j \in 1..i - 1 : ran[c][j][2] < n
               /\ \A k \in 1..n - 1 : ~Fails(c, k) /\ (Pays(c, k) => k \in Seen(c))
    <3>1. c \in Calls /\ OfCall(c) /\ StreamInv(c)
      BY <2>1, CallSets DEF OfCall
    <3>2. /\ DOMAIN ran[c] = 1..Len(ran[c]) /\ DOMAIN said[c] = 1..Len(said[c])
          /\ Len(ran[c]) \in Nat /\ Len(said[c]) \in Nat
      BY <3>1 DEF TypeOK
    <3>3. n \in 1..Len(said[c]) /\ Pays(c, n) /\ ran[c][i][1] = Tag(said[c][n])
      BY <2>2, <3>1, <3>2 DEF OfCall, RanInv
    <3>4. \A j \in 1..i - 1 : ran[c][j][2] < n
      <4>1. \A j \in 1..i - 1 : j \in 1..Len(ran[c]) /\ j < i
        BY <3>2
      <4> QED  BY <2>2, <3>1, <3>2, <4>1 DEF OfCall, OrderOf
    <3>5. n \in Seen(c)
      BY <2>2 DEF Seen
    <3>6. \A k \in 1..n - 1 : ~Fails(c, k) /\ (Pays(c, k) => k \in Delivered(c))
      BY <3>1, <3>5 DEF StreamInv, Delivered
    <3>7. \A k \in Delivered(c) : k < n => k \in Seen(c)
      <4>1. Before(Seen(c), Passed(c)) /\ Passed(c) \subseteq 1..Len(said[c])
        BY <2>1, <3>1, Places DEF OfCall, OrderOf
      <4> QED  BY <3>2, <3>3, <3>5, <4>1 DEF Before, Delivered
    <3> QED  BY <3>2, <3>3, <3>4, <3>6, <3>7
  <2>3. ASSUME NEW c \in AsyncCalls, pc[c] = "returned", up,
               NEW k \in DOMAIN said[c], Pays(c, k)
        PROVE  k \in Seen(c) \/ \E j \in 1..k - 1 : Fails(c, j)
    <3>1. c \in Calls /\ OfCall(c) /\ StreamInv(c)
      BY <2>1, CallSets DEF OfCall
    <3>2. DOMAIN said[c] = 1..Len(said[c]) /\ Len(said[c]) \in Nat
      BY <3>1 DEF TypeOK
    <3>3. Delivered(c) = Seen(c) /\ Seen(c) \subseteq 1..Len(said[c])
      <4>1. val[c] = <<>>
        BY <2>3, <3>1 DEF OfCall, RanInv
      <4>2. Passed(c) = {}
        BY <4>1 DEF Passed, Nums
      <4> QED  BY <2>1, <3>1, <4>2, Places DEF OfCall, Delivered
    <3>4. CASE \E f \in Delivered(c) : Fails(c, f)
      <4>1. PICK f \in Delivered(c) : Fails(c, f)
        BY <3>4
      <4>2. CASE f < k
        BY <3>2, <3>3, <4>1, <4>2
      <4>3. CASE f = k
        BY <3>3, <4>1, <4>3
      <4>4. CASE k < f
        <5>1. k \in 1..f - 1
          BY <3>2, <3>3, <4>1, <4>4
        <5> QED  BY <2>3, <3>1, <3>3, <4>1, <5>1 DEF StreamInv
      <4> QED  BY <3>2, <3>3, <4>1, <4>2, <4>3, <4>4
    <3> QED  BY <2>3, <3>1, <3>2, <3>3, <3>4 DEF StreamInv
  <2>4. ASSUME NEW c \in AsyncCalls, NEW i \in DOMAIN ran[c], ran[c][i][1] = "done"
        PROVE  i = Len(ran[c]) /\ c \notin failed /\ (up => SaidDone(c))
    <3>1. c \in Calls /\ OfCall(c) /\ StreamInv(c)
      BY <2>1, CallSets DEF OfCall
    <3>2. i \in 1..Len(ran[c])
      BY <3>1 DEF TypeOK
    <3>3. \A m : Tag(m) # "done"
      BY DEF Tag
    <3> QED  BY <2>4, <3>1, <3>2, <3>3 DEF OfCall, RanInv, StreamInv
  <2>5. HandlersFollowPod
    BY <2>2, <2>3, <2>4 DEF HandlersFollowPod
  <2>6. ASSUME NEW c \in SyncCalls, pc[c] = "returned"
        PROVE  /\ up => SaidDone(c)
               /\ got[c] \in {0} \union {m.n : m \in ToSet(said[c])}
               /\ SaidDone(c) /\ up =>
                     \A m \in ToSet(said[c]) : m.kind = "value" => m.n <= got[c]
    <3>1. c \in Calls /\ OfCall(c) /\ InvokeInv(c)
      BY <2>1, CallSets DEF OfCall
    <3>2. said[c] \in Seq(Msgs) /\ DOMAIN said[c] = 1..Len(said[c]) /\ Len(said[c]) \in Nat
      BY <3>1 DEF TypeOK
    <3>3. \A k \in 1..Len(said[c]) : said[c][k].n = k
      BY <3>1 DEF OfCall, AuthOf
    <3>4. ToSet(said[c]) = {said[c][k] : k \in 1..Len(said[c])}
      BY <3>2 DEF ToSet
    <3>5. got[c] \in 0..Len(said[c])
      BY <3>1 DEF OfCall, AuthOf
    <3>6. got[c] \in {0} \union {m.n : m \in ToSet(said[c])}
      <4>1. CASE got[c] = 0
        BY <4>1
      <4>2. CASE got[c] # 0
        <5>1. got[c] \in 1..Len(said[c])
          BY <3>2, <3>5, <4>2
        <5>2. said[c][got[c]] \in ToSet(said[c]) /\ said[c][got[c]].n = got[c]
          BY <3>3, <3>4, <5>1
        <5> QED  BY <5>2
      <4> QED  BY <4>1, <4>2
    <3>7. up => /\ SaidDone(c)
                /\ \A m \in ToSet(said[c]) : m.kind = "value" => m.n <= got[c]
      BY <2>6, <3>1, <3>3, <3>4 DEF InvokeInv
    <3> QED  BY <3>6, <3>7
  <2>7. InvokeAnswers
    BY <2>6 DEF InvokeAnswers
  <2> QED  BY <2>5, <2>7
<1> QED  BY <1>1, TypeCorrect, FollowInvariant, PTL

-----------------------------------------------------------------------------
(* KeySource.                                                              *)

\* A set of numbers has a least element.
LEMMA LeastOf ==
    ASSUME NEW T \in SUBSET Nat, T # {}
    PROVE  \E x \in T : \A y \in T : x <= y
<1>1. PICK x \in T : \A y \in T : ~(<<y, x>> \in OpToRel(<, Nat))
  BY WFMin, NatLessThanWellFounded
<1>2. \A y \in T : <<y, x>> \in OpToRel(<, Nat) <=> y < x
  BY DEF OpToRel
<1>3. \A y \in T : y \in Nat /\ x \in Nat
  OBVIOUS
<1>4. \A y \in T : ~(y < x)
  BY <1>1, <1>2
<1> QED  BY <1>3, <1>4

\* The piece of n elements that follows the first m.
LEMMA Piece ==
    ASSUME NEW S, NEW s \in Seq(S), NEW m \in Nat, NEW n \in Nat, m + n <= Len(s)
    PROVE  /\ SubSeq(s, m + 1, m + n) \in Seq(S) /\ Len(SubSeq(s, m + 1, m + n)) = n
           /\ \A i \in 1..n : SubSeq(s, m + 1, m + n)[i] = s[m + i]
<1> DEFINE a == m + 1  b == m + n
<1>1. a \in Int /\ b \in Int /\ \A i \in a..b : s[i] \in S
  OBVIOUS
<1>2. a = m + 1 /\ b = m + n
  OBVIOUS
<1> HIDE DEF a, b
<1>3. /\ SubSeq(s, a, b) \in Seq(S)
      /\ Len(SubSeq(s, a, b)) = IF a <= b THEN b - a + 1 ELSE 0
      /\ \A i \in 1..(b - a + 1) : SubSeq(s, a, b)[i] = s[a + i - 1]
  BY <1>1, SubSeqProperties
<1>4. \A i \in 1..n : i \in 1..(b - a + 1) /\ a + i - 1 = m + i
  BY <1>2
<1> QED  BY <1>2, <1>3, <1>4

LEMMA PieceNone ==
    ASSUME NEW S, NEW s \in Seq(S), NEW m \in Nat, m <= Len(s)
    PROVE  SubSeq(s, m + 1, m) = <<>>
<1> DEFINE n == 0
<1>1. n \in Nat /\ m + n = m
  OBVIOUS
<1> HIDE DEF n
<1>2. SubSeq(s, m + 1, m + n) \in Seq(S) /\ Len(SubSeq(s, m + 1, m + n)) = n
  BY <1>1, Piece
<1>3. SubSeq(s, m + 1, m) \in Seq(S) /\ Len(SubSeq(s, m + 1, m)) = 0
  BY <1>1, <1>2 DEF n
<1> QED  BY <1>3

LEMMA PlusNone ==
    ASSUME NEW a \in Nat, NEW b, b = 0
    PROVE  a + b = a
OBVIOUS

\* Two pieces that follow each other are one.
LEMMA PieceJoin ==
    ASSUME NEW S, NEW s \in Seq(S), NEW m \in Nat, NEW n \in Nat, NEW k \in Nat, m + n + k <= Len(s)
    PROVE  SubSeq(s, m + 1, m + n) \o SubSeq(s, m + n + 1, m + n + k) = SubSeq(s, m + 1, m + n + k)
<1> DEFINE u == SubSeq(s, m + 1, m + n)  v == SubSeq(s, (m + n) + 1, (m + n) + k)
           w == SubSeq(s, m + 1, m + (n + k))  x == u \o v
<1>0. Len(s) \in Nat
  OBVIOUS
<1>a. /\ m + n <= Len(s) /\ m + n \in Nat /\ n + k \in Nat
      /\ (m + n) + k <= Len(s) /\ m + (n + k) <= Len(s)
  BY <1>0
<1>1. u \in Seq(S) /\ Len(u) = n /\ \A i \in 1..n : u[i] = s[m + i]
  BY <1>a, Piece
<1>2. v \in Seq(S) /\ Len(v) = k /\ \A i \in 1..k : v[i] = s[(m + n) + i]
  BY <1>a, Piece
<1>3. w \in Seq(S) /\ Len(w) = n + k /\ \A i \in 1..(n + k) : w[i] = s[m + i]
  BY <1>a, Piece
<1>4. w = SubSeq(s, m + 1, m + n + k) /\ v = SubSeq(s, m + n + 1, m + n + k)
  OBVIOUS
<1> HIDE DEF u, v, w, x
<1>8. /\ \A i \in 1..n : u[i] = s[m + i]
      /\ \A i \in 1..k : v[i] = s[(m + n) + i]
      /\ \A i \in 1..(n + k) : w[i] = s[m + i]
  BY <1>1, <1>2, <1>3
<1>5. /\ x \in Seq(S) /\ Len(x) = n + k
      /\ \A i \in 1..(n + k) : x[i] = IF i <= n THEN u[i] ELSE v[i - n]
  <2>1. /\ x \in Seq(S) /\ Len(x) = Len(u) + Len(v)
        /\ \A i \in 1..(Len(u) + Len(v)) : x[i] = IF i <= Len(u) THEN u[i] ELSE v[i - Len(u)]
    BY <1>1, <1>2, ConcatProperties DEF x
  <2> QED  BY <1>1, <1>2, <2>1
<1>9. \A i \in 1..(n + k) : x[i] = IF i <= n THEN u[i] ELSE v[i - n]
  BY <1>5
<1>6. ASSUME NEW i \in 1..(n + k) PROVE x[i] = w[i]
  <2>1. CASE i <= n
    BY <1>8, <1>9, <2>1
  <2>2. CASE i > n
    <3>1. i - n \in 1..k /\ (m + n) + (i - n) = m + i
      BY <2>2
    <3>2. x[i] = v[i - n]
      BY <1>9, <2>2
    <3> QED  BY <1>8, <3>1, <3>2
  <2> QED  BY <2>1, <2>2
<1>7. x = w
  <2>1. x \in Seq(S) /\ w \in Seq(S) /\ Len(x) = Len(w)
    BY <1>3, <1>5
  <2>2. \A i \in 1..Len(x) : x[i] = w[i]
    BY <1>5, <1>6
  <2> QED  BY <2>1, <2>2, SeqEqual
<1> QED  BY <1>4, <1>7 DEF u, v, x

\* What is left of a piece when its front is taken.
LEMMA PieceCut ==
    ASSUME NEW S, NEW s \in Seq(S), NEW m \in Nat, NEW n \in Nat, NEW k \in 0..n, m + n <= Len(s),
           NEW b, b = SubSeq(s, m + 1, m + n)
    PROVE  /\ SubSeq(b, k + 1, Len(b)) = SubSeq(s, m + k + 1, m + n)
           /\ Len(SubSeq(b, k + 1, Len(b))) = n - k
<1>1. b \in Seq(S) /\ Len(b) = n /\ \A i \in 1..n : b[i] = s[m + i]
  BY Piece
<1> DEFINE j == n - k  u == SubSeq(b, k + 1, k + j)  v == SubSeq(s, (m + k) + 1, (m + k) + j)
<1>2. j \in Nat /\ k \in Nat /\ k + j = n /\ (m + k) + j = m + n /\ m + k \in Nat
  OBVIOUS
<1>3. u \in Seq(S) /\ Len(u) = j /\ \A i \in 1..j : u[i] = b[k + i]
  BY <1>1, <1>2, Piece
<1>4. v \in Seq(S) /\ Len(v) = j /\ \A i \in 1..j : v[i] = s[(m + k) + i]
  BY <1>2, Piece
<1>5. ASSUME NEW i \in 1..j PROVE u[i] = v[i]
  <2>1. k + i \in 1..n /\ m + (k + i) = (m + k) + i
    BY <1>2
  <2> QED  BY <1>1, <1>3, <1>4, <2>1
<1>6. u = v
  <2>1. u \in Seq(S) /\ v \in Seq(S) /\ Len(u) = Len(v)
    BY <1>3, <1>4
  <2>2. \A i \in 1..Len(u) : u[i] = v[i]
    BY <1>3, <1>5
  <2> QED  BY <2>1, <2>2, SeqEqual
<1>7. u = SubSeq(b, k + 1, Len(b)) /\ v = SubSeq(s, m + k + 1, m + n)
  BY <1>1, <1>2
<1> QED  BY <1>3, <1>6, <1>7

-----------------------------------------------------------------------------
\* A CSI sequence ends with the first byte that may end it.
CsiEnd(b) == CHOOSE i \in CsiEnds(b) : \A j \in CsiEnds(b) : i <= j

LEMMA CsiFirst ==
    ASSUME NEW b \in Seq(Bytes), CsiEnds(b) # {}
    PROVE  CsiEnd(b) \in CsiEnds(b) /\ CsiEnd(b) \in 3..Len(b) /\ \A j \in CsiEnds(b) : CsiEnd(b) <= j
<1>1. CsiEnds(b) \in SUBSET Nat
  BY DEF CsiEnds
<1>2. \E i \in CsiEnds(b) : \A j \in CsiEnds(b) : i <= j
  BY <1>1, LeastOf
<1>3. CsiEnd(b) \in CsiEnds(b) /\ \A j \in CsiEnds(b) : CsiEnd(b) <= j
  BY <1>2 DEF CsiEnd
<1> QED  BY <1>3 DEF CsiEnds

\* What scanKey answers, case by case.
LEMMA ScanCases ==
    ASSUME NEW b \in Seq(Bytes), b # <<>>
    PROVE  LET s == scanKey(b)
               csi == Len(b) > 1 /\ b[1] = "esc" /\ b[2] = "["
               ss3 == Len(b) > 1 /\ b[1] = "esc" /\ b[2] = "O"
               rune == Len(b) > 1 /\ b[1] = "lead" /\ b[2] = "cont"
               one == Len(b) = 1 /\ b[1] \in {"esc", "lead"}
           IN  /\ one => s = NeedMore(1)
               /\ csi => s = IF CsiEnds(b) = {} THEN NeedMore(Len(b)) ELSE Ready(CsiEnd(b))
               /\ ss3 => s = IF Len(b) < 3 THEN NeedMore(2) ELSE Ready(3)
               /\ rune => s = Ready(2)
               /\ ~one /\ ~csi /\ ~ss3 /\ ~rune => s = Ready(1)
<1> DEFINE one == Len(b) = 1 /\ b[1] \in {"esc", "lead"}
<1>1. (b = <<"esc">> \/ b = <<"lead">>) <=> one
  <2>1. ASSUME Len(b) = 1 PROVE b = <<b[1]>>
    BY <2>1
  <2> QED  BY <2>1
<1>2. Len(b) \in Nat /\ Len(b) > 0
  OBVIOUS
<1> QED  BY <1>1, <1>2 DEF scanKey, CsiEnd

\* A key has a byte, and no more than there are; when the rest of it is to
\* come it is all there is.
LEMMA ScanFits ==
    ASSUME NEW b \in Seq(Bytes), b # <<>>
    PROVE  /\ scanKey(b).len \in 1..Len(b)
           /\ ~scanKey(b).whole => scanKey(b).len = Len(b)
<1>1. Len(b) \in Nat /\ Len(b) > 0
  OBVIOUS
<1>2. CsiEnds(b) # {} => CsiEnd(b) \in 1..Len(b)
  BY CsiFirst
<1>3. /\ \A n : Ready(n).len = n /\ Ready(n).whole
      /\ \A n : NeedMore(n).len = n /\ ~NeedMore(n).whole
  BY DEF Ready, NeedMore
<1> QED  BY <1>1, <1>2, <1>3, ScanCases

LEMMA OneOrMore ==
    ASSUME NEW m \in Nat, NEW n \in Nat, m > 0, m <= n
    PROVE  (m = 1 \/ m > 1) /\ (n = 1 => m = 1)
OBVIOUS

\* With more bytes behind it a whole key stays the same, and the beginning of
\* one does not become shorter.
LEMMA ScanGoesOn ==
    ASSUME NEW b \in Seq(Bytes), b # <<>>, NEW c \in Seq(Bytes),
           Len(b) <= Len(c), \A i \in 1..Len(b) : c[i] = b[i]
    PROVE  /\ scanKey(b).whole => scanKey(c).len = scanKey(b).len
           /\ scanKey(b).len <= scanKey(c).len
<1>1. /\ Len(b) \in Nat /\ Len(b) > 0 /\ Len(c) \in Nat /\ c # <<>> /\ c[1] = b[1]
      /\ Len(b) > 1 => c[2] = b[2]
  OBVIOUS
<1>2. CsiEnds(b) = CsiEnds(c) \intersect 1..Len(b)
  BY <1>1 DEF CsiEnds
<1>3. CsiEnds(b) # {} => CsiEnds(c) # {} /\ CsiEnd(c) = CsiEnd(b)
  <2> SUFFICES ASSUME CsiEnds(b) # {} PROVE CsiEnds(c) # {} /\ CsiEnd(c) = CsiEnd(b)
    OBVIOUS
  <2>1. CsiEnd(b) \in CsiEnds(c) /\ CsiEnd(b) \in 3..Len(b)
    BY <1>2, CsiFirst
  <2>2. CsiEnd(c) \in CsiEnds(c) /\ CsiEnd(c) \in 3..Len(c) /\ CsiEnd(c) <= CsiEnd(b)
    BY <2>1, CsiFirst
  <2>3. CsiEnd(c) \in CsiEnds(b)
    BY <1>1, <1>2, <2>1, <2>2
  <2>4. CsiEnd(b) <= CsiEnd(c)
    BY <2>3, CsiFirst
  <2> QED  BY <2>1, <2>2, <2>4
<1>4. CsiEnds(b) = {} /\ CsiEnds(c) # {} => CsiEnd(c) > Len(b)
  <2> SUFFICES ASSUME CsiEnds(b) = {}, CsiEnds(c) # {} PROVE CsiEnd(c) > Len(b)
    OBVIOUS
  <2>1. CsiEnd(c) \in CsiEnds(c) /\ CsiEnd(c) \in 3..Len(c)
    BY CsiFirst
  <2> QED  BY <1>1, <1>2, <2>1
<1>5. /\ \A n : Ready(n).len = n /\ Ready(n).whole
      /\ \A n : NeedMore(n).len = n /\ ~NeedMore(n).whole
  BY DEF Ready, NeedMore
<1>6. CsiEnds(b) # {} => CsiEnd(b) \in 3..Len(b)
  BY CsiFirst
<1>7. CASE b[1] = "esc" /\ Len(b) > 1 /\ b[2] = "["
  <2>1. c[1] = "esc" /\ Len(c) > 1 /\ c[2] = "["
    BY <1>1, <1>7
  <2>2. scanKey(b) = IF CsiEnds(b) = {} THEN NeedMore(Len(b)) ELSE Ready(CsiEnd(b))
    BY <1>7, ScanCases
  <2>3. scanKey(c) = IF CsiEnds(c) = {} THEN NeedMore(Len(c)) ELSE Ready(CsiEnd(c))
    BY <1>1, <2>1, ScanCases
  <2>4. CASE CsiEnds(b) # {}
    BY <1>3, <1>5, <1>6, <2>2, <2>3, <2>4
  <2>5. CASE CsiEnds(b) = {} /\ CsiEnds(c) = {}
    BY <1>5, <2>2, <2>3, <2>5
  <2>6. CASE CsiEnds(b) = {} /\ CsiEnds(c) # {}
    <3>1. CsiEnd(c) \in 3..Len(c)
      BY <2>6, CsiFirst
    <3> QED  BY <1>1, <1>4, <1>5, <2>2, <2>3, <2>6, <3>1
  <2> QED  BY <2>4, <2>5, <2>6
<1>0. /\ Len(b) = 1 \/ Len(b) > 1
      /\ Len(c) = 1 => Len(b) = 1
      /\ c[1] = b[1] /\ (Len(b) > 1 => c[2] = b[2])
  <2>1. Len(b) \in Nat /\ Len(c) \in Nat /\ Len(b) > 0
    BY <1>1
  <2>2. (Len(b) = 1 \/ Len(b) > 1) /\ (Len(c) = 1 => Len(b) = 1)
    BY <2>1, OneOrMore
  <2> QED  BY <1>1, <2>2
<1>8. CASE ~(b[1] = "esc" /\ Len(b) > 1 /\ b[2] = "[") /\ scanKey(b).whole
  <2>1. Len(b) = 1 => b[1] \notin {"esc", "lead"}
    BY <1>1, <1>5, <1>8, ScanCases
  <2>2. ~(c[1] = "esc" /\ Len(c) > 1 /\ c[2] = "[")
    BY <1>0, <1>8, <2>1
  <2>3. CASE b[1] = "esc" /\ Len(b) > 1 /\ b[2] = "O"
    <3>1. Len(b) >= 3 /\ scanKey(b) = Ready(3)
      BY <1>1, <1>5, <1>8, <2>3, ScanCases
    <3>2. scanKey(c) = Ready(3)
      BY <1>1, <2>3, <3>1, ScanCases
    <3> QED  BY <1>5, <3>1, <3>2
  <2>4. CASE b[1] = "lead" /\ Len(b) > 1 /\ b[2] = "cont"
    <3>1. scanKey(b) = Ready(2)
      BY <1>1, <2>4, ScanCases
    <3>2. scanKey(c) = Ready(2)
      BY <1>1, <2>4, ScanCases
    <3> QED  BY <1>5, <3>1, <3>2
  <2>5. CASE /\ ~(b[1] = "esc" /\ Len(b) > 1 /\ b[2] = "O")
             /\ ~(b[1] = "lead" /\ Len(b) > 1 /\ b[2] = "cont")
    <3>1. scanKey(b) = Ready(1)
      BY <1>1, <1>8, <2>1, <2>5, ScanCases
    <3>2. /\ ~(Len(c) = 1 /\ c[1] \in {"esc", "lead"})
          /\ ~(Len(c) > 1 /\ c[1] = "esc" /\ c[2] = "[")
          /\ ~(Len(c) > 1 /\ c[1] = "esc" /\ c[2] = "O")
          /\ ~(Len(c) > 1 /\ c[1] = "lead" /\ c[2] = "cont")
      BY <1>0, <2>1, <2>2, <2>5
    <3>3. scanKey(c) = Ready(1)
      BY <1>1, <3>2, ScanCases
    <3> QED  BY <1>5, <3>1, <3>3
  <2> QED  BY <2>3, <2>4, <2>5
<1>9. CASE ~(b[1] = "esc" /\ Len(b) > 1 /\ b[2] = "[") /\ ~scanKey(b).whole
  <2>1. scanKey(c).len \in 1..Len(c)
    BY <1>1, ScanFits
  <2> QED  BY <1>1, <1>5, <1>9, <2>1, ScanCases, ScanFits
<1> QED  BY <1>7, <1>8, <1>9

\* Nothing is no key.
LEMMA ScanNone == scanKey(<<>>) = Ready(0) /\ Ready(0).len = 0 /\ Ready(0).whole
BY DEF scanKey, Ready

-----------------------------------------------------------------------------
\* Where the keys end, what is in the queue, and that all of it was typed.
LEMMA TurnFacts ==
    ASSUME TurnInv
    PROVE  /\ input \in Seq(Bytes) /\ Len(input) \in Nat
           /\ buf \in Seq(Bytes) /\ Len(buf) \in Nat /\ chunk \in Seq(Bytes) /\ Len(chunk) \in Nat
           /\ keys \in Seq(1..Len(input)) /\ Len(keys) \in Nat
           /\ Cut \in Nat /\ Arrived = Cut + Len(buf) /\ Arrived + Len(chunk) <= Len(input)
           /\ \A i \in 1..Len(keys) : keys[i] \in 1..Len(input)
<1>1. input \in Seq(Bytes) /\ buf \in Seq(Bytes) /\ chunk \in Seq(Bytes) /\ keys \in Seq(1..Len(input))
  BY KeySourceConstants DEF TurnInv, KeyTypeOK
<1>2. ASSUME NEW S, NEW s \in Seq(S) PROVE Len(s) \in Nat /\ \A i \in 1..Len(s) : s[i] \in S
  OBVIOUS
<1>3. /\ Len(input) \in Nat /\ Len(buf) \in Nat /\ Len(chunk) \in Nat /\ Len(keys) \in Nat
      /\ \A i \in 1..Len(keys) : keys[i] \in 1..Len(input)
  BY <1>1, <1>2
<1>4. Cut \in Nat
  BY <1>3 DEF Cut, EndOf
<1> QED  BY <1>1, <1>3, <1>4 DEF TurnInv, ReadInv, Arrived

\* The queue is the beginning of what is left of the input.
LEMMA QueueBegins ==
    ASSUME TurnInv, buf # <<>>
    PROVE  LET rest == SubSeq(input, Cut + 1, Len(input))
           IN  /\ rest \in Seq(Bytes) /\ Len(buf) <= Len(rest)
               /\ \A i \in 1..Len(buf) : rest[i] = buf[i]
<1> DEFINE n == Len(buf)  m == Len(input) - Cut
<1> DEFINE rest == SubSeq(input, Cut + 1, Cut + m)
<1>1. /\ n \in Nat /\ m \in Nat /\ n <= m /\ Cut \in Nat /\ Cut + m = Len(input)
      /\ input \in Seq(Bytes) /\ buf = SubSeq(input, Cut + 1, Cut + n)
  <2>1. n \in Nat /\ Cut \in Nat /\ Len(input) \in Nat /\ Len(chunk) \in Nat
    BY TurnFacts
  <2>2. Cut + n + Len(chunk) <= Len(input) /\ input \in Seq(Bytes)
    BY TurnFacts
  <2>3. buf = SubSeq(input, Cut + 1, Cut + n)
    BY TurnFacts DEF TurnInv, BytesInTurn
  <2> HIDE DEF n
  <2>4. m \in Nat /\ n <= m /\ Cut + m = Len(input)
    BY <2>1, <2>2
  <2> QED  BY <2>1, <2>2, <2>3, <2>4
<1> HIDE DEF n, m
<1>2. Len(buf) = n /\ \A i \in 1..n : buf[i] = input[Cut + i]
  BY <1>1, Piece DEF n
<1>3. rest \in Seq(Bytes) /\ Len(rest) = m /\ \A i \in 1..m : rest[i] = input[Cut + i]
  BY <1>1, Piece
<1>4. rest = SubSeq(input, Cut + 1, Len(input))
  BY <1>1
<1> HIDE DEF rest
<1>5. \A i \in 1..n : i \in 1..m
  BY <1>1
<1> QED  BY <1>1, <1>2, <1>3, <1>4, <1>5 DEF n

\* A step that takes, reads and appends nothing.
LEMMA TurnKept ==
    ASSUME TurnInv, KeyTypeOK', UNCHANGED <<input, keys, buf, chunk>>
    PROVE  TurnInv' /\ Cut' = Cut /\ Arrived' = Arrived
BY DEF TurnInv, ReadInv, BytesInTurn, Cut, EndOf, Arrived, WholeKey

\* Taking a key: it moves the cut, and the queue is what follows.
LEMMA TurnTake ==
    ASSUME TurnInv, NEW r, take(r, scanKey(buf).len), UNCHANGED <<input, chunk>>
    PROVE  /\ buf' \in Seq(Bytes) /\ keys' \in Seq(1..Len(input)) /\ ReadInv' /\ BytesInTurn'
           /\ Arrived' = Arrived
           /\ IF buf = <<>> THEN buf' = buf /\ keys' = keys /\ ends' = ends \union {<<done, 0>>}
              ELSE /\ ends' = ends /\ Len(keys') = Len(keys) + 1
                   /\ keys'[Len(keys) + 1] = Cut + scanKey(buf).len
                   /\ \A i \in 1..Len(keys) : keys'[i] = keys[i]
<1> DEFINE n == scanKey(buf).len
<1>1. CASE buf = <<>>
  <2>1. n = 0 /\ Len(buf) = 0
    BY <1>1, ScanNone
  <2>2. keys' = keys /\ ends' = ends \union {<<done, 0>>} /\ buf' = SubSeq(buf, 1, 0)
    BY <2>1 DEF take
  <2>3. SubSeq(buf, 0 + 1, 0 + 0) \in Seq(Bytes) /\ Len(SubSeq(buf, 0 + 1, 0 + 0)) = 0
    BY <2>1, TurnFacts, Piece
  <2>4. buf' \in Seq(Bytes) /\ Len(buf') = 0
    BY <2>2, <2>3
  <2>5. buf' = buf
    BY <1>1, <2>4
  <2>6. ReadInv' /\ BytesInTurn' /\ Arrived' = Arrived
    BY <2>2, <2>5 DEF TurnInv, ReadInv, BytesInTurn, Cut, EndOf, Arrived, WholeKey
  <2> QED  BY <1>1, <2>2, <2>4, <2>5, <2>6, TurnFacts
<1>2. CASE buf # <<>>
  <2>1. n \in 1..Len(buf)
    BY <1>2, TurnFacts, ScanFits
  <2>2. keys' = Append(keys, Cut + n) /\ ends' = ends /\ buf' = SubSeq(buf, n + 1, Len(buf))
    BY <2>1 DEF take
  <2> DEFINE rest == SubSeq(input, Cut + 1, Len(input))
  <2>3. n <= scanKey(rest).len
    BY <1>2, QueueBegins, TurnFacts, ScanGoesOn
  <2> HIDE DEF n, rest
  <2>4. Cut + n \in 1..Len(input) /\ Cut + Len(buf) <= Len(input) /\ n \in 0..Len(buf)
    BY <2>1, TurnFacts
  <2>5. /\ keys' \in Seq(1..Len(input)) /\ Len(keys') = Len(keys) + 1
        /\ keys'[Len(keys) + 1] = Cut + n /\ \A i \in 1..Len(keys) : keys'[i] = keys[i]
    BY <2>2, <2>4, TurnFacts, AppendProperties
  <2>6. Cut' = Cut + n /\ Len(keys) \in Nat
    BY <2>5, TurnFacts DEF Cut, EndOf
  <2>7. buf = SubSeq(input, Cut + 1, Cut + Len(buf))
    BY TurnFacts DEF TurnInv, BytesInTurn
  <2>8. buf' = SubSeq(input, Cut + n + 1, Cut + Len(buf)) /\ Len(buf') = Len(buf) - n
    <3>1. Cut \in Nat /\ Len(buf) \in Nat /\ input \in Seq(Bytes)
      BY TurnFacts
    <3>2. /\ SubSeq(buf, n + 1, Len(buf)) = SubSeq(input, Cut + n + 1, Cut + Len(buf))
          /\ Len(SubSeq(buf, n + 1, Len(buf))) = Len(buf) - n
      BY <2>4, <2>7, <3>1, PieceCut
    <3> QED  BY <2>2, <3>2
  <2>9. Arrived' = Arrived
    <3>1. Cut \in Nat /\ Len(buf) \in Nat /\ n \in Nat
      BY <2>1, TurnFacts
    <3>2. Arrived' = (Cut + n) + (Len(buf) - n) /\ Arrived = Cut + Len(buf)
      BY <2>6, <2>8 DEF Arrived
    <3> QED  BY <3>1, <3>2
  <2>10. buf' = SubSeq(input', Cut' + 1, Arrived') /\ Arrived = Cut + Len(buf)
    BY <2>6, <2>8, <2>9, TurnFacts
  <2>11. buf' \in Seq(Bytes)
    <3>1. /\ Len(buf) - n \in Nat /\ n \in Nat /\ n + (Len(buf) - n) = Len(buf)
          /\ Len(buf) \in Nat /\ buf \in Seq(Bytes)
      BY <2>1, TurnFacts
    <3> DEFINE j == Len(buf) - n
    <3>2. j \in Nat /\ n \in Nat /\ n + j = Len(buf) /\ buf \in Seq(Bytes)
      BY <3>1
    <3> HIDE DEF j
    <3>3. n + j <= Len(buf)
      BY <3>1, <3>2
    <3>4. SubSeq(buf, n + 1, n + j) \in Seq(Bytes)
      BY <3>2, <3>3, Piece
    <3> QED  BY <2>2, <3>2, <3>4
  <2>12. ReadInv'
    BY <2>9 DEF TurnInv, ReadInv
  <2>13. ASSUME NEW i \in 1..Len(keys) + 1
         PROVE  (EndOf(i) - EndOf(i - 1))' \in 1..WholeKey(i)'
    <3>1. CASE i \in 1..Len(keys)
      <4>1. EndOf(i)' = EndOf(i) /\ EndOf(i - 1)' = EndOf(i - 1)
        <5>1. i = 1 \/ i - 1 \in 1..Len(keys)
          BY <2>6, <3>1
        <5>2. i # 0
          BY <2>6, <3>1
        <5>3. i - 1 = 0 \/ (i - 1 # 0 /\ keys'[i - 1] = keys[i - 1])
          BY <2>5, <2>6, <5>1
        <5>4. keys'[i] = keys[i]
          BY <2>5, <3>1
        <5> QED  BY <5>2, <5>3, <5>4 DEF EndOf
      <4>2. WholeKey(i)' = WholeKey(i)
        BY <4>1 DEF WholeKey
      <4> QED  BY <3>1, <4>1, <4>2 DEF TurnInv, BytesInTurn
    <3>2. CASE i = Len(keys) + 1
      <4>1. EndOf(i)' = Cut + n /\ EndOf(i - 1)' = Cut
        BY <2>5, <2>6, <3>2 DEF EndOf, Cut
      <4>2. WholeKey(i)' = scanKey(rest).len
        BY <4>1 DEF WholeKey, rest
      <4>3. rest \in Seq(Bytes) /\ rest # <<>>
        <5>1. rest \in Seq(Bytes) /\ Len(buf) <= Len(rest)
          BY <1>2, QueueBegins DEF rest
        <5>2. Len(buf) \in Nat /\ Len(buf) > 0
          BY <1>2, TurnFacts
        <5> QED  BY <5>1, <5>2
      <4>4. scanKey(rest).len \in Nat
        BY <4>3, ScanFits
      <4>5. (Cut + n) - Cut = n
        BY <2>1, TurnFacts
      <4>6. n \in 1..scanKey(rest).len
        <5>1. Len(buf) \in Nat
          BY TurnFacts
        <5> QED  BY <2>1, <2>3, <4>4, <5>1
      <4>7. (EndOf(i) - EndOf(i - 1))' = EndOf(i)' - EndOf(i - 1)'
        BY <4>1
      <4> QED  BY <4>1, <4>2, <4>5, <4>6, <4>7
    <3>3. i \in 1..Len(keys) \/ i = Len(keys) + 1
      BY <2>6
    <3> QED  BY <3>1, <3>2, <3>3
  <2>14. BytesInTurn'
    BY <2>5, <2>10, <2>13 DEF BytesInTurn
  <2> QED  BY <1>2, <2>2, <2>5, <2>9, <2>11, <2>12, <2>14 DEF n
<1> QED  BY <1>1, <1>2

-----------------------------------------------------------------------------
\* Every step keeps TurnInv, whoever reads.
LEMMA TurnInit == KeyInit => TurnInv
<1> SUFFICES ASSUME KeyInit PROVE TurnInv
  OBVIOUS
<1>1. input \in Seq(Bytes) /\ Len(input) \in Nat
  BY KeySourceConstants DEF KeyInit
<1>2. /\ keys = <<>> /\ buf = <<>> /\ chunk = <<>> /\ late = {} /\ Len(keys) = 0 /\ Len(buf) = 0
      /\ Len(chunk) = 0
  BY DEF KeyInit
<1>3. Cut = 0 /\ Arrived = 0
  BY <1>2 DEF Cut, EndOf, Arrived
<1>4. Len(SubSeq(input, 0 + 1, 0 + 0)) = 0 /\ SubSeq(input, 0 + 1, 0 + 0) \in Seq(Bytes)
  BY <1>1, Piece
<1>5. SubSeq(input, 1, 0) = <<>>
  BY <1>4
<1>6. ReadInv /\ BytesInTurn
  BY <1>1, <1>2, <1>3, <1>5 DEF ReadInv, BytesInTurn
<1>7. KeyTypeOK
  <2>1. keys \in Seq(1..Len(input)) /\ buf \in Seq(Bytes) /\ chunk \in Seq(Bytes)
    BY <1>2
  <2>2. before \in [Readers -> 0..Len(input)]
    BY <1>1 DEF KeyInit
  <2>3. <<input, callers>> \in Programs /\ callers \subseteq Readers
    <3>1. PICK prog \in Programs : input = prog[1] /\ callers = prog[2]
      BY DEF KeyInit
    <3>2. PICK i \in Seq(Bytes), R \in SUBSET Readers : prog = <<i, R>>
      BY <3>1, KeySourceConstants
    <3>3. prog = <<input, callers>> /\ callers = R
      BY <3>1, <3>2
    <3> QED  BY <3>1, <3>2, <3>3
  <2>4. wakes \in 0..MaxWakes[callers]
    <3>1. MaxWakes[callers] \in Nat
      BY <2>3, KeySourceConstants
    <3> QED  BY <3>1 DEF KeyInit
  <2> QED  BY <2>1, <2>2, <2>3, <2>4 DEF KeyInit, KeyTypeOK
<1> QED  BY <1>6, <1>7 DEF TurnInv

LEMMA TurnRead ==
    ASSUME TurnInv, NEW k \in 0..(Len(input) - Arrived), NEW end \in BOOLEAN, Read(k, end)
    PROVE  TurnInv' /\ Cut' = Cut /\ Arrived' = Arrived
<1>1. /\ Arrived \in Nat /\ k \in Nat /\ Arrived + k <= Len(input) /\ input \in Seq(Bytes)
  <2>1. Cut \in Nat /\ Len(buf) \in Nat /\ Arrived = Cut + Len(buf) /\ Len(input) \in Nat
    BY TurnFacts
  <2>2. Arrived \in Nat
    BY <2>1
  <2> QED  BY <2>1, <2>2, TurnFacts
<1>2. chunk' \in Seq(Bytes) /\ Len(chunk') = k
  BY <1>1, Piece DEF Read
<1>3. Cut' = Cut /\ Arrived' = Arrived
  BY DEF Read, callVars, Cut, EndOf, Arrived
<1>4. ReadInv'
  BY <1>1, <1>2, <1>3 DEF ReadInv, Read
<1>5. BytesInTurn'
  BY <1>3 DEF Read, callVars, TurnInv, BytesInTurn, WholeKey, EndOf
<1>6. KeyTypeOK'
  BY <1>2 DEF TurnInv, KeyTypeOK, Read, callVars, wakeVars
<1> QED  BY <1>3, <1>4, <1>5, <1>6 DEF TurnInv

LEMMA TurnAppend ==
    ASSUME TurnInv, AppendChunk
    PROVE  /\ TurnInv' /\ Cut' = Cut /\ Len(buf') >= Len(buf)
           /\ buf # <<>> => buf' # <<>>
<1> DEFINE n == Len(buf)  k == Len(chunk)
<1>1. /\ Cut \in Nat /\ n \in Nat /\ k \in Nat /\ Cut + n + k <= Len(input) /\ input \in Seq(Bytes)
      /\ buf \in Seq(Bytes) /\ chunk \in Seq(Bytes)
  BY TurnFacts
<1>2. /\ buf = SubSeq(input, Cut + 1, Cut + n)
      /\ chunk = SubSeq(input, Cut + n + 1, Cut + n + k)
  BY TurnFacts DEF TurnInv, BytesInTurn, ReadInv
<1>0. buf' = buf \o chunk
  BY DEF AppendChunk
<1>3. chunk' = <<>> /\ input' = input /\ keys' = keys
  BY DEF AppendChunk, callVars
<1>4. buf' \in Seq(Bytes) /\ Len(buf') = n + k
  <2>1. buf \o chunk \in Seq(Bytes) /\ Len(buf \o chunk) = Len(buf) + Len(chunk)
    BY <1>1, ConcatProperties
  <2> QED  BY <1>0, <2>1
<1> HIDE DEF n, k
<1>5. buf' = SubSeq(input, Cut + 1, Cut + n + k)
  <2>1. /\ SubSeq(input, Cut + 1, Cut + n) \o SubSeq(input, Cut + n + 1, Cut + n + k)
                 = SubSeq(input, Cut + 1, Cut + n + k)
    <3>1. Cut \in Nat /\ n \in Nat /\ k \in Nat /\ Cut + n + k <= Len(input) /\ input \in Seq(Bytes)
      BY <1>1
    <3> QED  BY <3>1, PieceJoin
  <2> QED  BY <1>0, <1>2, <2>1
<1>6. Cut' = Cut /\ Arrived' = Cut + (n + k) /\ Cut + (n + k) = Cut + n + k
  <2>1. Cut' = Cut
    BY <1>3 DEF Cut, EndOf
  <2>2. Arrived' = Cut' + Len(buf')
    BY DEF Arrived
  <2> QED  BY <1>1, <1>4, <2>1, <2>2
<1>7. ReadInv'
  <2>1. Arrived' \in Nat /\ Arrived' <= Len(input)
    BY <1>1, <1>6
  <2>2. SubSeq(input, Arrived' + 1, Arrived') = <<>>
    BY <1>1, <2>1, PieceNone
  <2>3. Arrived' + Len(chunk') = Arrived'
    <3>1. Len(chunk') = 0
      BY <1>3
    <3>2. Arrived' \in Nat
      BY <2>1
    <3> QED  BY <3>1, <3>2, PlusNone, Zenon
  <2>4. input' = input /\ chunk' = <<>>
    BY <1>3
  <2>5. chunk' = SubSeq(input', Arrived' + 1, Arrived' + Len(chunk'))
    BY <2>2, <2>3, <2>4
  <2>6. Arrived' + Len(chunk') <= Len(input')
    BY <2>1, <2>3, <2>4
  <2> QED  BY <2>5, <2>6 DEF ReadInv
<1>8. BytesInTurn'
  <2>1. buf' = SubSeq(input', Cut' + 1, Arrived')
    BY <1>3, <1>5, <1>6
  <2> QED  BY <1>3, <2>1 DEF TurnInv, BytesInTurn, WholeKey, EndOf
<1>9. KeyTypeOK'
  <2>1. chunk' \in Seq(Bytes)
    BY <1>3
  <2> QED  BY <1>4, <2>1 DEF TurnInv, KeyTypeOK, AppendChunk, callVars, wakeVars
<1>10. Len(buf') >= n /\ (n > 0 => Len(buf') > 0)
  BY <1>1, <1>4
<1>11. buf # <<>> => n > 0
  BY <1>1 DEF n
<1>12. Len(buf') > 0 => buf' # <<>>
  OBVIOUS
<1> QED  BY <1>6, <1>7, <1>8, <1>9, <1>10, <1>11, <1>12 DEF TurnInv, n

\* What ReadKey leaves behind when it gives up the mutex or returns.
Served ==
    /\ buf' \in Seq(Bytes) /\ keys' \in Seq(1..Len(input)) /\ ReadInv' /\ BytesInTurn'
    /\ Arrived' = Arrived
    /\ kpc' \in [Readers -> {"idle", "wait", "lockWait", "stitch", "lockStitch"}]
    /\ deadline' \in [Readers -> {"none", "running", "passed"}]
    /\ before' \in [Readers -> 0..Len(input)] /\ wakePending' \in BOOLEAN

LEMMA ServedStitch ==
    ASSUME TurnInv, NEW r \in Readers, NEW d, Stitch(r, d), UNCHANGED <<input, chunk>>
    PROVE  Served
<1>0. /\ kpc \in [Readers -> {"idle", "wait", "lockWait", "stitch", "lockStitch"}]
      /\ deadline \in [Readers -> {"none", "running", "passed"}]
      /\ before \in [Readers -> 0..Len(input)] /\ wakePending \in BOOLEAN
  BY DEF TurnInv, KeyTypeOK
<1>1. CASE take(r, scanKey(buf).len)
  <2>1. /\ buf' \in Seq(Bytes) /\ keys' \in Seq(1..Len(input)) /\ ReadInv' /\ BytesInTurn'
        /\ Arrived' = Arrived
    BY <1>1, TurnTake
  <2>2. /\ kpc' = [kpc EXCEPT ![r] = "idle"] /\ deadline' = [deadline EXCEPT ![r] = "none"]
        /\ UNCHANGED <<wakePending, before>>
    BY <1>1 DEF take, Return
  <2> QED  BY <1>0, <2>1, <2>2 DEF Served
<1>2. CASE ~take(r, scanKey(buf).len)
  <2>1. /\ kpc' = [kpc EXCEPT ![r] = "stitch"] /\ deadline' = [deadline EXCEPT ![r] = "running"]
        /\ before' = [before EXCEPT ![r] = Len(buf)]
        /\ buf' = buf /\ keys' = keys /\ wakePending' = wakePending
    BY <1>2 DEF Stitch
  <2>2. Len(buf) \in 0..Len(input) /\ buf \in Seq(Bytes) /\ keys \in Seq(1..Len(input))
    BY TurnFacts
  <2>3. ReadInv' /\ BytesInTurn' /\ Arrived' = Arrived
    BY <2>1 DEF TurnInv, ReadInv, BytesInTurn, Cut, EndOf, Arrived, WholeKey
  <2> QED  BY <1>0, <2>1, <2>2, <2>3 DEF Served
<1> QED  BY <1>1, <1>2

LEMMA ServedServe ==
    ASSUME TurnInv, NEW r \in Readers, Serve(r), UNCHANGED <<input, chunk>>
    PROVE  Served
<1>0. /\ kpc \in [Readers -> {"idle", "wait", "lockWait", "stitch", "lockStitch"}]
      /\ deadline \in [Readers -> {"none", "running", "passed"}]
      /\ before \in [Readers -> 0..Len(input)] /\ wakePending \in BOOLEAN
  BY DEF TurnInv, KeyTypeOK
<1>1. CASE Stitch(r, "none")
  BY <1>1, ServedStitch
<1>2. CASE buf = <<>> /\ take(r, 0)
  <2>1. take(r, scanKey(buf).len)
    BY <1>2, ScanNone
  <2>2. /\ buf' \in Seq(Bytes) /\ keys' \in Seq(1..Len(input)) /\ ReadInv' /\ BytesInTurn'
        /\ Arrived' = Arrived
    BY <2>1, TurnTake
  <2>3. /\ kpc' = [kpc EXCEPT ![r] = "idle"] /\ deadline' = [deadline EXCEPT ![r] = "none"]
        /\ UNCHANGED <<wakePending, before>>
    BY <1>2 DEF take, Return
  <2> QED  BY <1>0, <2>2, <2>3 DEF Served
<1>3. CASE ~Stitch(r, "none") /\ ~(buf = <<>> /\ take(r, 0))
  <2>1. /\ UNCHANGED <<buf, keys, before>> /\ wakePending' \in {FALSE, wakePending}
        /\ \E w \in {"idle", "wait"} : kpc' = [kpc EXCEPT ![r] = w]
        /\ deadline' \in {deadline, [deadline EXCEPT ![r] = "none"]}
    BY <1>3 DEF Serve, Return
  <2>2. buf \in Seq(Bytes) /\ keys \in Seq(1..Len(input))
    BY TurnFacts
  <2>3. ReadInv' /\ BytesInTurn' /\ Arrived' = Arrived
    BY <2>1 DEF TurnInv, ReadInv, BytesInTurn, Cut, EndOf, Arrived, WholeKey
  <2> QED  BY <1>0, <2>1, <2>2, <2>3 DEF Served
<1> QED  BY <1>1, <1>2, <1>3

LEMMA TurnReadKey ==
    ASSUME TurnInv, NEW r \in Readers, ReadKey(r)
    PROVE  TurnInv'
<1>1. Served
  BY ServedServe DEF ReadKey
<1>2. told' \in [Readers -> BOOLEAN]
  <2>1. told \in [Readers -> BOOLEAN] /\ told' = [told EXCEPT ![r] = told[r] /\ kpc'[r] = "wait"]
    BY DEF TurnInv, KeyTypeOK, ReadKey
  <2>2. (told[r] /\ kpc'[r] = "wait") \in BOOLEAN
    OBVIOUS
  <2> QED  BY <2>1, <2>2
<1>3. KeyTypeOK'
  BY <1>1, <1>2 DEF Served, TurnInv, KeyTypeOK, ReadKey, Start, wakeVars
<1> QED  BY <1>1, <1>3 DEF TurnInv, Served

LEMMA TurnResume ==
    ASSUME TurnInv, NEW r \in Readers, Resume(r)
    PROVE  TurnInv'
<1>0. UNCHANGED <<input, callers, chunk, eof, lpc, done, notify, wpc, wakes, told, late>>
  BY DEF Resume, loopVars, wakeVars
<1>1. Served
  BY <1>0, ServedServe, ServedStitch DEF Resume
<1>3. KeyTypeOK'
  BY <1>0, <1>1 DEF Served, TurnInv, KeyTypeOK
<1> QED  BY <1>1, <1>3 DEF TurnInv, Served

LEMMA TurnNext == TurnInv /\ [KeyNext]_keyVars => TurnInv'
<1> SUFFICES ASSUME TurnInv, [KeyNext]_keyVars PROVE TurnInv'
  OBVIOUS
<1>1. CASE Loop
  <2>1. ASSUME LoopSignal PROVE TurnInv'
    <3>1. KeyTypeOK'
      BY <2>1 DEF TurnInv, KeyTypeOK, LoopSignal, wakeVars, callVars
    <3> QED  BY <2>1, <3>1, TurnKept DEF LoopSignal, callVars
  <2> QED  BY <1>1, <2>1, TurnAppend DEF Loop
<1>2. CASE Wake
  <2>1. KeyTypeOK'
    <3>2. MaxWakes[callers] \in Nat
      BY KeySourceConstants DEF TurnInv, KeyTypeOK
    <3>1. wakes' \in 0..MaxWakes[callers] /\ callers' = callers
      BY <1>2, <3>2 DEF TurnInv, KeyTypeOK, Wake
    <3> QED  BY <1>2, <3>1 DEF TurnInv, KeyTypeOK, Wake, loopVars, callVars
  <2> QED  BY <1>2, <2>1, TurnKept DEF Wake, loopVars, callVars
<1>3. CASE WakeSignal
  <2>1. KeyTypeOK'
    BY <1>3 DEF TurnInv, KeyTypeOK, WakeSignal, loopVars, callVars
  <2> QED  BY <1>3, <2>1, TurnKept DEF WakeSignal, loopVars, callVars
<1>4. CASE \E k \in 0..(Len(input) - Arrived), end \in BOOLEAN : Read(k, end)
  BY <1>4, TurnRead
<1>5. ASSUME NEW r \in Readers, Woken(r) PROVE TurnInv'
  <2>1. KeyTypeOK'
    BY <1>5 DEF TurnInv, KeyTypeOK, Woken, loopVars, wakeVars
  <2> QED  BY <1>5, <2>1, TurnKept DEF Woken, loopVars
<1>6. ASSUME NEW r \in Readers, KeyPending(r) PROVE TurnInv'
  <2>1. KeyTypeOK'
    <3>1. (buf # <<>> \/ (~done /\ wakePending)) \in BOOLEAN
      OBVIOUS
    <3>2. told' \in [Readers -> BOOLEAN]
      BY <1>6, <3>1 DEF TurnInv, KeyTypeOK, KeyPending
    <3> QED  BY <1>6, <3>2 DEF TurnInv, KeyTypeOK, KeyPending, Start, wakeVars
  <2> QED  BY <1>6, <2>1, TurnKept DEF KeyPending
<1>7. ASSUME NEW r \in Readers, Tick(r) PROVE TurnInv'
  <2>1. KeyTypeOK'
    <3>1. Cut + before[r] \in Nat
      BY TurnFacts DEF TurnInv, KeyTypeOK
    <3> QED  BY <1>7, <3>1 DEF TurnInv, KeyTypeOK, Tick, loopVars, wakeVars
  <2> QED  BY <1>7, <2>1, TurnKept DEF Tick, loopVars
<1>8. CASE UNCHANGED keyVars
  <2>1. KeyTypeOK'
    BY <1>8 DEF TurnInv, KeyTypeOK, keyVars, loopVars, wakeVars, callVars
  <2> QED  BY <1>8, <2>1, TurnKept DEF keyVars, loopVars, callVars
<1> QED  BY <1>1, <1>2, <1>3, <1>4, <1>5, <1>6, <1>7, <1>8, TurnReadKey, TurnResume DEF KeyNext

(* Whoever reads, the keys are the bytes as they were typed: nothing is    *)
(* lost, repeated or reordered, and no key reaches into the next one.      *)
THEOREM KeysInTurn == KeySpec => []BytesInTurn
<1>1. TurnInv => BytesInTurn
  BY DEF TurnInv
<1> QED  BY <1>1, TurnInit, TurnNext, PTL DEF KeySpec

-----------------------------------------------------------------------------
(* With one reader: nobody else reads the keys, as with those of a         *)
(* terminal.                                                               *)

\* A step that returns no key keeps what is known of the keys.
LEMMA LateKept ==
    ASSUME CutShortLate, UNCHANGED <<input, keys>>, late \subseteq late',
           done => done' /\ Arrived' = Arrived
    PROVE  CutShortLate'
<1>1. \A i : WholeKey(i)' = WholeKey(i) /\ EndOf(i)' = EndOf(i)
  BY DEF WholeKey, EndOf
<1>2. ASSUME NEW i \in 1..Len(keys')
      PROVE  \/ (EndOf(i) - EndOf(i - 1))' = WholeKey(i)'
             \/ EndOf(i)' \in late'
             \/ done' /\ EndOf(i)' = Arrived'
  <2>1. \/ EndOf(i) - EndOf(i - 1) = WholeKey(i)
        \/ EndOf(i) \in late
        \/ done /\ EndOf(i) = Arrived
    BY <1>2 DEF CutShortLate
  <2>2. (EndOf(i) - EndOf(i - 1))' = EndOf(i) - EndOf(i - 1)
    BY <1>1
  <2> QED  BY <1>1, <2>1, <2>2
<1> QED  BY <1>2 DEF CutShortLate

\* Nor does one that returns a whole key, or one that is late.
LEMMA LateTake ==
    ASSUME TurnInv, CutShortLate, NEW r, take(r, scanKey(buf).len), buf # <<>>,
           UNCHANGED <<input, chunk, done, late>>,
           scanKey(buf).whole \/ done \/ Arrived \in late
    PROVE  CutShortLate' /\ ends' = ends
<1> DEFINE n == scanKey(buf).len  rest == SubSeq(input, Cut + 1, Len(input))
<1>0. PICK k \in Nat : k = Len(keys)
  BY TurnFacts
<1>1. /\ Arrived' = Arrived /\ ends' = ends /\ Len(keys') = k + 1 /\ keys'[k + 1] = Cut + n
      /\ \A i \in 1..k : keys'[i] = keys[i]
  BY <1>0, TurnTake
<1>2. n \in 1..Len(buf) /\ (~scanKey(buf).whole => n = Len(buf))
  BY TurnFacts, ScanFits
<1>3. scanKey(buf).whole => scanKey(rest).len = n
  BY QueueBegins, TurnFacts, ScanGoesOn
<1>4. k \in Nat /\ Cut \in Nat /\ Len(buf) \in Nat /\ Arrived = Cut + Len(buf) /\ Cut = EndOf(k)
  BY <1>0, TurnFacts DEF Cut
<1> HIDE DEF n, rest
<1>5. \A i \in 0..k : EndOf(i)' = EndOf(i)
  BY <1>1, <1>4 DEF EndOf
<1>6. EndOf(k + 1)' = Cut + n
  <2>1. k + 1 # 0
    BY <1>4
  <2> QED  BY <1>1, <2>1 DEF EndOf
<1>7. ASSUME NEW i \in 1..k
      PROVE  \/ (EndOf(i) - EndOf(i - 1))' = WholeKey(i)'
             \/ EndOf(i)' \in late'
             \/ done' /\ EndOf(i)' = Arrived'
  <2>1. i \in 0..k /\ i - 1 \in 0..k
    BY <1>4
  <2>2. EndOf(i)' = EndOf(i) /\ EndOf(i - 1)' = EndOf(i - 1)
    BY <1>5, <2>1
  <2>3. WholeKey(i)' = WholeKey(i) /\ (EndOf(i) - EndOf(i - 1))' = EndOf(i) - EndOf(i - 1)
    BY <2>2 DEF WholeKey
  <2>4. \/ EndOf(i) - EndOf(i - 1) = WholeKey(i)
        \/ EndOf(i) \in late
        \/ done /\ EndOf(i) = Arrived
    BY <1>0 DEF CutShortLate
  <2> QED  BY <1>1, <2>2, <2>3, <2>4
<1>8. ASSUME NEW i, i = k + 1
      PROVE  \/ (EndOf(i) - EndOf(i - 1))' = WholeKey(i)'
             \/ EndOf(i)' \in late'
             \/ done' /\ EndOf(i)' = Arrived'
  <2>1. i - 1 = k /\ k \in 0..k /\ i # 0 /\ k # k + 1
    BY <1>4, <1>8
  <2>2. EndOf(i - 1)' = Cut
    <3>1. EndOf(k)' = Cut
      BY <1>4, <1>5, <2>1
    <3> QED  BY <2>1, <3>1
  <2>3. EndOf(i)' = Cut + n
    BY <1>6, <1>8
  <2>4. WholeKey(i)' = scanKey(rest).len
    BY <2>2 DEF WholeKey, rest
  <2>5. (EndOf(i) - EndOf(i - 1))' = (Cut + n) - Cut
    BY <2>2, <2>3
  <2>6. (Cut + n) - Cut = n
    BY <1>2, <1>4
  <2>7. n = Len(buf) => Cut + n = Arrived
    BY <1>4
  <2> QED  BY <1>1, <1>2, <1>3, <2>3, <2>4, <2>5, <2>6, <2>7
<1>9. \A i \in 1..(k + 1) : i \in 1..k \/ i = k + 1
  BY <1>4
<1>10. \A i \in 1..Len(keys') : \/ (EndOf(i) - EndOf(i - 1))' = WholeKey(i)'
                                \/ EndOf(i)' \in late'
                                \/ done' /\ EndOf(i)' = Arrived'
  BY <1>1, <1>7, <1>8, <1>9
<1> QED  BY <1>1, <1>10 DEF CutShortLate

\* What the only reader leaves behind.
LEMMA OneStitch ==
    ASSUME KeyInv, NEW r \in Readers, NEW d, Stitch(r, d), buf # <<>>,
           d = "passed" => Arrived \in late, UNCHANGED <<input, chunk, done, late>>
    PROVE  /\ CutShortLate' /\ ends' = ends
           /\ \/ kpc'[r] = "idle" /\ deadline'[r] = "none"
              \/ /\ kpc'[r] = "stitch" /\ deadline'[r] = "running"
                 /\ before'[r] \in 1..Len(buf')
<1>0. TurnInv /\ CutShortLate
  BY DEF KeyInv
<1>1. r \in DOMAIN kpc /\ r \in DOMAIN deadline /\ r \in DOMAIN before
  BY <1>0 DEF TurnInv, KeyTypeOK
<1>2. CASE take(r, scanKey(buf).len) /\ (scanKey(buf).whole \/ done \/ d = "passed")
  <2>1. CutShortLate' /\ ends' = ends
    BY <1>0, <1>2, LateTake
  <2>2. kpc'[r] = "idle" /\ deadline'[r] = "none"
    BY <1>1, <1>2 DEF take, Return
  <2> QED  BY <2>1, <2>2
<1>3. CASE ~(take(r, scanKey(buf).len) /\ (scanKey(buf).whole \/ done \/ d = "passed"))
  <2>1. /\ kpc'[r] = "stitch" /\ deadline'[r] = "running" /\ before'[r] = Len(buf)
        /\ UNCHANGED <<buf, keys, ends>>
    BY <1>1, <1>3 DEF Stitch
  <2>2. Arrived' = Arrived
    BY <2>1 DEF Arrived, Cut, EndOf
  <2>3. CutShortLate'
    BY <1>0, <2>1, <2>2, LateKept
  <2>4. Len(buf) \in 1..Len(buf)
    BY <1>0, TurnFacts
  <2> QED  BY <2>1, <2>3, <2>4
<1> QED  BY <1>2, <1>3

LEMMA OneServe ==
    ASSUME KeyInv, NEW r \in Readers, Serve(r), deadline[r] = "none",
           UNCHANGED <<input, chunk, done, late>>
    PROVE  /\ CutShortLate' /\ ends' \subseteq {<<TRUE, 0>>}
           /\ \/ kpc'[r] = "idle" /\ deadline'[r] = "none"
              \/ /\ kpc'[r] = "stitch" /\ deadline'[r] = "running"
                 /\ before'[r] \in 1..Len(buf')
              \/ /\ kpc'[r] = "wait" /\ deadline'[r] = "none"
                 /\ buf = <<>> /\ ~done /\ ~wakePending
<1>0. TurnInv /\ CutShortLate /\ ends \subseteq {<<TRUE, 0>>}
  BY DEF KeyInv, EndIsEnd
<1>1. r \in DOMAIN kpc /\ r \in DOMAIN deadline
  BY <1>0 DEF TurnInv, KeyTypeOK
<1>2. CASE buf # <<>> /\ Stitch(r, "none")
  BY <1>0, <1>2, OneStitch
<1>3. CASE buf = <<>> /\ done /\ take(r, 0)
  <2>1. take(r, scanKey(buf).len)
    BY <1>3, ScanNone
  <2>2. Arrived' = Arrived /\ keys' = keys /\ ends' = ends \union {<<done, 0>>}
    BY <1>0, <1>3, <2>1, TurnTake
  <2>3. CutShortLate'
    BY <1>0, <2>2, LateKept
  <2>4. done = TRUE
    BY <1>0, <1>3 DEF TurnInv, KeyTypeOK
  <2>5. kpc'[r] = "idle" /\ deadline'[r] = "none"
    BY <1>1, <1>3 DEF take, Return
  <2> QED  BY <1>0, <2>2, <2>3, <2>4, <2>5
<1>4. CASE /\ ~(buf # <<>> /\ Stitch(r, "none"))
           /\ ~(buf = <<>> /\ done /\ take(r, 0))
  <2>1. UNCHANGED <<buf, keys, ends>>
    BY <1>4 DEF Serve
  <2>2. Arrived' = Arrived
    BY <2>1 DEF Arrived, Cut, EndOf
  <2>3. CutShortLate'
    BY <1>0, <2>1, <2>2, LateKept
  <2>4. \/ kpc'[r] = "idle" /\ deadline'[r] = "none"
        \/ /\ kpc'[r] = "wait" /\ deadline'[r] = "none"
           /\ buf = <<>> /\ ~done /\ ~wakePending
    BY <1>1, <1>4 DEF Serve, Return
  <2> QED  BY <1>0, <2>1, <2>3, <2>4
<1> QED  BY <1>2, <1>3, <1>4 DEF Serve

\* A ReadKey leaves the other readers where they are.
LEMMA OthersRest ==
    ASSUME TurnInv, NEW r \in Readers, NEW d, Serve(r) \/ Stitch(r, d)
    PROVE  \A q \in Readers \ {r} : kpc'[q] = kpc[q] /\ deadline'[q] = deadline[q]
<1>1. /\ kpc \in [Readers -> {"idle", "wait", "lockWait", "stitch", "lockStitch"}]
      /\ deadline \in [Readers -> {"none", "running", "passed"}]
  BY DEF TurnInv, KeyTypeOK
<1>2. /\ kpc' = kpc \/ \E x : kpc' = [kpc EXCEPT ![r] = x]
      /\ deadline' = deadline \/ \E x : deadline' = [deadline EXCEPT ![r] = x]
  BY DEF Serve, Stitch, take, Return
<1> QED  BY <1>1, <1>2

\* The others call nothing, if r is the only reader.
LEMMA OthersIdle ==
    ASSUME OneReader, GraceInv, TurnInv, NEW r \in callers, NEW q \in Readers \ {r}
    PROVE  kpc[q] = "idle" /\ deadline[q] = "none" /\ ~told[q]
<1>1. q \notin callers
  BY DEF OneReader
<1>2. kpc[q] = "idle" /\ ~told[q]
  BY <1>1 DEF GraceInv
<1> QED  BY <1>2 DEF GraceInv

\* The calls of the only reader.
LEMMA OneReadKey ==
    ASSUME OneReader, KeyInv, NEW r \in Readers, ReadKey(r)
    PROVE  KeyInv'
<1>0. TurnInv /\ CutShortLate /\ EndIsEnd /\ GraceInv /\ DoneInv
  BY DEF KeyInv
<1>1. /\ r \in callers /\ kpc[r] = "idle" /\ UNCHANGED <<input, callers, chunk, done, late>>
      /\ Serve(r) /\ lpc' \in {lpc, "read"} /\ (lpc' # lpc => lpc = "off")
      /\ told' = [told EXCEPT ![r] = told[r] /\ kpc'[r] = "wait"]
  BY DEF ReadKey, Start
<1>2. deadline[r] = "none"
  BY <1>0, <1>1 DEF GraceInv
<1>3. /\ CutShortLate' /\ ends' \subseteq {<<TRUE, 0>>}
      /\ \/ kpc'[r] = "idle" /\ deadline'[r] = "none"
         \/ /\ kpc'[r] = "stitch" /\ deadline'[r] = "running"
            /\ before'[r] \in 1..Len(buf')
         \/ /\ kpc'[r] = "wait" /\ deadline'[r] = "none"
            /\ buf = <<>> /\ ~done /\ ~wakePending
  BY <1>1, <1>2, OneServe
<1>4. ~told'[r]
  <2>1. told \in [Readers -> BOOLEAN]
    BY <1>0 DEF TurnInv, KeyTypeOK
  <2>2. told[r] => buf # <<>> \/ done \/ wakePending
    BY <1>0 DEF GraceInv
  <2> QED  BY <1>1, <1>3, <2>1, <2>2
<1>7. ASSUME NEW q \in Readers \ {r}
      PROVE  kpc'[q] = "idle" /\ deadline'[q] = "none" /\ ~told'[q]
  <2>1. told'[q] = told[q]
    BY <1>0, <1>1 DEF TurnInv, KeyTypeOK
  <2> QED  BY <1>0, <1>1, <2>1, OthersRest, OthersIdle
<1>8. callers' = callers
  BY DEF ReadKey
<1>5. EndIsEnd' /\ GraceInv'
  BY <1>1, <1>3, <1>4, <1>7, <1>8 DEF EndIsEnd, GraceInv
<1>6. DoneInv'
  BY <1>0, <1>1 DEF DoneInv
<1> QED  BY <1>0, <1>3, <1>5, <1>6, TurnReadKey DEF KeyInv

LEMMA OneResume ==
    ASSUME OneReader, KeyInv, NEW r \in Readers, Resume(r)
    PROVE  KeyInv'
<1>0. TurnInv /\ CutShortLate /\ EndIsEnd /\ GraceInv /\ DoneInv
  BY DEF KeyInv
<1>1. UNCHANGED <<input, callers, chunk, eof, lpc, done, notify, wpc, wakes, told, late>>
  BY DEF Resume, loopVars, wakeVars
<1>2. /\ CutShortLate' /\ ends' \subseteq {<<TRUE, 0>>}
      /\ \/ kpc'[r] = "idle" /\ deadline'[r] = "none"
         \/ /\ kpc'[r] = "stitch" /\ deadline'[r] = "running"
            /\ before'[r] \in 1..Len(buf')
         \/ kpc'[r] = "wait" /\ deadline'[r] = "none"
  <2>1. CASE kpc[r] = "lockWait"
    <3>1. deadline[r] = "none" /\ Serve(r)
      BY <1>0, <2>1 DEF GraceInv, Resume
    <3> QED  BY <1>1, <3>1, OneServe
  <2>2. CASE kpc[r] = "lockStitch"
    <3> DEFINE d == IF Len(buf) > before[r] THEN "none" ELSE deadline[r]
    <3>1. Stitch(r, d) /\ before[r] \in 1..Len(buf) /\ Len(buf) \in Nat
      BY <1>0, <2>2, TurnFacts DEF Resume, GraceInv
    <3>2. buf # <<>>
      BY <3>1
    <3>3. d = "passed" => Arrived \in late
      <4> SUFFICES ASSUME d = "passed" PROVE Arrived \in late
        OBVIOUS
      <4>1. deadline[r] = "passed" /\ before[r] = Len(buf)
        BY <3>1
      <4>2. Cut + before[r] \in late
        BY <1>0, <4>1 DEF GraceInv
      <4> QED  BY <4>1, <4>2 DEF Arrived
    <3> HIDE DEF d
    <3>4. ends \subseteq {<<TRUE, 0>>}
      BY <1>0 DEF EndIsEnd
    <3> QED  BY <1>1, <3>1, <3>2, <3>3, <3>4, OneStitch
  <2> QED  BY <2>1, <2>2 DEF Resume
<1>3. ~told[r]
  BY <1>0 DEF GraceInv, Resume
<1>6. r \in callers
  BY <1>0 DEF GraceInv, Resume
<1>7. ASSUME NEW q \in Readers \ {r}
      PROVE  kpc'[q] = "idle" /\ deadline'[q] = "none" /\ ~told'[q]
  <2>1. kpc'[q] = kpc[q] /\ deadline'[q] = deadline[q]
    BY <1>0, OthersRest DEF Resume
  <2> QED  BY <1>0, <1>1, <1>6, <2>1, OthersIdle
<1>4. EndIsEnd' /\ GraceInv'
  BY <1>1, <1>2, <1>3, <1>6, <1>7 DEF EndIsEnd, GraceInv
<1>5. DoneInv'
  BY <1>0, <1>1 DEF DoneInv
<1> QED  BY <1>0, <1>2, <1>4, <1>5, TurnResume DEF KeyInv

\* The other steps return no key.
LEMMA OneOther ==
    ASSUME OneReader, KeyInv, TurnInv', UNCHANGED <<input, callers, keys, ends>>, late \subseteq late',
           done => done' /\ Arrived' = Arrived, GraceInv', DoneInv'
    PROVE  KeyInv'
<1>1. CutShortLate'
  BY LateKept DEF KeyInv
<1>2. EndIsEnd'
  BY DEF KeyInv, EndIsEnd, GraceInv
<1> QED  BY <1>1, <1>2 DEF KeyInv

LEMMA OneNext == OneReader /\ KeyInv /\ [KeyNext]_keyVars => KeyInv'
<1> SUFFICES ASSUME OneReader, KeyInv, [KeyNext]_keyVars PROVE KeyInv'
  OBVIOUS
<1>0. TurnInv /\ CutShortLate /\ EndIsEnd /\ GraceInv /\ DoneInv /\ TurnInv'
  BY TurnNext DEF KeyInv
<1>a. keys' = keys /\ buf' = buf => Cut' = Cut /\ Arrived' = Arrived
  BY DEF Cut, EndOf, Arrived
<1>t. /\ kpc \in [Readers -> {"idle", "wait", "lockWait", "stitch", "lockStitch"}]
      /\ deadline \in [Readers -> {"none", "running", "passed"}] /\ told \in [Readers -> BOOLEAN]
  BY <1>0 DEF TurnInv, KeyTypeOK
<1>1. CASE AppendChunk
  <2>1. /\ ~done /\ UNCHANGED <<input, callers, wakePending, kpc, deadline, before, told, keys, ends, late>>
        /\ lpc' = "signal"
    BY <1>0, <1>1 DEF AppendChunk, callVars, DoneInv
  <2>2. Cut' = Cut /\ Len(buf') >= Len(buf) /\ (buf # <<>> => buf' # <<>>)
    BY <1>0, <1>1, TurnAppend
  <2>3. Len(buf) \in Nat /\ Len(buf') \in Nat
    BY <1>0, TurnFacts DEF TurnInv, KeyTypeOK
  <2>4. GraceInv'
    BY <1>0, <2>1, <2>2, <2>3 DEF GraceInv
  <2> QED  BY <1>0, <2>1, <2>4, OneOther DEF DoneInv
<1>2. CASE LoopSignal
  <2>1. /\ lpc = "signal" /\ lpc' = (IF done THEN "ended" ELSE "read")
        /\ UNCHANGED <<input, callers, wakePending, kpc, deadline, before, told, keys, ends, late, buf, done>>
    BY <1>2 DEF LoopSignal, callVars
  <2>2. GraceInv' /\ DoneInv'
    BY <1>0, <1>a, <2>1 DEF GraceInv, DoneInv
  <2> QED  BY <1>0, <1>a, <2>1, <2>2, OneOther
<1>3. CASE Wake
  <2>1. /\ wakePending => wakePending'
        /\ UNCHANGED <<input, callers, lpc, kpc, deadline, before, told, keys, ends, late, buf, done>>
    BY <1>3 DEF Wake, callVars, loopVars
  <2>2. GraceInv' /\ DoneInv'
    BY <1>0, <1>a, <2>1 DEF GraceInv, DoneInv
  <2> QED  BY <1>0, <1>a, <2>1, <2>2, OneOther
<1>4. CASE WakeSignal \/ UNCHANGED keyVars
  <2>1. UNCHANGED <<input, callers, lpc, wakePending, kpc, deadline, before, told, keys, ends, late, buf, done>>
    BY <1>4 DEF WakeSignal, keyVars, callVars, loopVars
  <2>2. GraceInv' /\ DoneInv'
    BY <1>0, <1>a, <2>1 DEF GraceInv, DoneInv
  <2> QED  BY <1>0, <1>a, <2>1, <2>2, OneOther
<1>5. CASE \E k \in 0..(Len(input) - Arrived), end \in BOOLEAN : Read(k, end)
  <2>1. /\ lpc = "read"
        /\ UNCHANGED <<input, callers, wakePending, kpc, deadline, before, told, keys, ends, late, buf, done>>
    BY <1>5 DEF Read, callVars
  <2>2. GraceInv' /\ DoneInv'
    BY <1>0, <1>a, <2>1 DEF GraceInv, DoneInv
  <2> QED  BY <1>0, <1>a, <2>1, <2>2, OneOther
<1>6. ASSUME NEW r \in Readers, Woken(r) PROVE KeyInv'
  <2>1. /\ kpc' = [kpc EXCEPT ![r] = IF kpc[r] = "wait" THEN "lockWait" ELSE "lockStitch"]
        /\ kpc[r] \in {"wait", "stitch"}
        /\ UNCHANGED <<input, callers, lpc, wakePending, deadline, before, told, keys, ends, late, buf, done>>
    BY <1>6 DEF Woken, loopVars
  <2>2. GraceInv' /\ DoneInv'
    BY <1>0, <1>a, <1>t, <2>1 DEF GraceInv, DoneInv
  <2> QED  BY <1>0, <1>a, <2>1, <2>2, OneOther
<1>7. ASSUME NEW r \in Readers, KeyPending(r) PROVE KeyInv'
  <2>1. /\ r \in callers /\ kpc[r] = "idle" /\ lpc' \in {lpc, "read"} /\ (lpc' # lpc => lpc = "off")
        /\ told' = [told EXCEPT ![r] = buf # <<>> \/ (~done /\ wakePending)]
        /\ UNCHANGED <<input, callers, kpc, wakePending, deadline, before, keys, ends, late, buf, done>>
    BY <1>7 DEF KeyPending, Start
  <2>2. told'[r] => buf # <<>> \/ done \/ wakePending
    BY <1>t, <2>1
  <2>3. GraceInv' /\ DoneInv'
    BY <1>0, <1>a, <1>t, <2>1, <2>2 DEF GraceInv, DoneInv
  <2> QED  BY <1>0, <1>a, <2>1, <2>3, OneOther
<1>8. ASSUME NEW r \in Readers, Tick(r) PROVE KeyInv'
  <2>1. /\ deadline[r] = "running" /\ deadline' = [deadline EXCEPT ![r] = "passed"]
        /\ late' = late \union {Cut + before[r]}
        /\ UNCHANGED <<input, callers, lpc, kpc, wakePending, told, before, keys, ends, buf, done>>
    BY <1>8 DEF Tick, loopVars
  <2>2. GraceInv' /\ DoneInv'
    BY <1>0, <1>a, <1>t, <2>1 DEF GraceInv, DoneInv
  <2> QED  BY <1>0, <1>a, <2>1, <2>2, OneOther
<1> QED  BY <1>1, <1>2, <1>3, <1>4, <1>5, <1>6, <1>7, <1>8, OneReadKey, OneResume DEF KeyNext, Loop

LEMMA OneInit == KeyInit => KeyInv
<1> SUFFICES ASSUME KeyInit PROVE KeyInv
  OBVIOUS
<1>1. CutShortLate
  BY DEF KeyInit, CutShortLate
<1>2. EndIsEnd /\ GraceInv /\ DoneInv
  BY DEF KeyInit, EndIsEnd, GraceInv, DoneInv
<1> QED  BY <1>1, <1>2, TurnInit DEF KeyInv

\* Who reads does not change in a behaviour.
LEMMA SameCallers == [KeyNext]_keyVars => UNCHANGED callers
BY DEF KeyNext, Loop, AppendChunk, LoopSignal, Wake, WakeSignal, Read, ReadKey, KeyPending,
       Woken, Resume, Tick, keyVars

LEMMA KeysNext == KeysInv /\ [KeyNext]_keyVars => KeysInv'
<1> SUFFICES ASSUME KeysInv, [KeyNext]_keyVars PROVE KeysInv'
  OBVIOUS
<1>1. TurnInv'
  BY TurnNext DEF KeysInv
<1>2. OneReader' => OneReader
  BY SameCallers DEF OneReader
<1>3. OneReader => KeyInv'
  BY OneNext DEF KeysInv
<1> QED  BY <1>1, <1>2, <1>3 DEF KeysInv

(* The only reader gets the keys that were typed: a key is cut short only  *)
(* where nothing came for a whole grace period or the input ended, ""      *)
(* means that it ended, and a ReadKey after a KeyPending that said so does *)
(* not wait.                                                               *)
THEOREM KeysExact == KeySpec => []KeysIntact
<1>1. KeysInv => KeysIntact
  BY DEF KeysInv, KeyInv, TurnInv, KeysIntact
<1>2. KeyInit => KeysInv
  BY OneInit DEF KeysInv, KeyInv
<1> QED  BY <1>1, <1>2, KeysNext, PTL DEF KeySpec
=============================================================================
