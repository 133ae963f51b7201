-------------------------------- MODULE Pods --------------------------------
(***************************************************************************)
(* A babashka pod subprocess and its client, pkg/rt/pods.go.               *)
(*                                                                         *)
(* Calls are made from many goroutines.  Each registers a channel under    *)
(* its id and writes its request; one router goroutine reads the replies,  *)
(* in whatever order the pod sends them, and hands each to the channel of  *)
(* its id.  A synchronous call (Invoke) reads its channel itself; a        *)
(* streaming one (InvokeAsync) has a collector that passes values on to a  *)
(* goroutine that runs the handlers.  The pod may exit at any time, and    *)
(* Shutdown may be called at any time.                                     *)
(*                                                                         *)
(* A reply is a kind and whether its status is done.  "value" carries a    *)
(* payload, "errval" one that is a map with an :error key, "fail" an       *)
(* ex-message or a payload that does not decode, "plain" nothing.          *)
(***************************************************************************)
EXTENDS Integers, Sequences, SequencesExt

CONSTANTS
    SyncCalls, AsyncCalls,
    ReplyKinds,  \* call -> the kinds its first, second ... reply may have
    ChanCap,     \* call -> the capacity of its router channel
    ValCap,      \* the capacity of the channel to the handlers
    PipeCap      \* the replies that fit into the pipe

Calls == SyncCalls \union AsyncCalls
Kinds == {"value", "errval", "fail", "plain"}
Msgs  == [id : Calls, kind : Kinds, done : BOOLEAN, n : Nat]
None  == [kind |-> "none"]

ASSUME PodsConstants ==
    /\ SyncCalls \intersect AsyncCalls = {}
    /\ ReplyKinds \in [Calls -> Seq(SUBSET Kinds)]
    /\ \A c \in Calls : ReplyKinds[c] # <<>>
    /\ ChanCap \in [Calls -> Nat \ {0}]
    /\ ValCap \in Nat \ {0} /\ PipeCap \in Nat \ {0}

VARIABLES
    up, stdin, stdout,  \* the process lives; its two pipes are open
    shutdown,           \* how far Shutdown is
    asked, said,        \* the requests it has; call -> the replies it sent
    wire,               \* the replies in the pipe
    pending, streaming, stopped,     \* the keys of the three maps
    chan, closed,       \* call -> its router channel; the closed ones
    stopClosed,         \* the streams whose stopped channel is closed
    rpc, rmsg, rstop,   \* the router: where, with what, a stopped channel?
    panicked,
    pc, cmsg, got,      \* call -> where, the reply in hand, the result
    val, valClosed,     \* call -> the channel to its handlers
    ran, failed         \* call -> the handlers run so far; an error was seen

podVars    == <<up, stdin, stdout, shutdown>>
mapVars    == <<pending, streaming, stopped>>
routerVars == <<rpc, rmsg, rstop, panicked>>
handlerVars == <<ran, failed>>
vars == <<podVars, asked, said, wire, mapVars, chan, closed, stopClosed,
          routerVars, pc, cmsg, got, val, valClosed, handlerVars>>

Init ==
    /\ up = TRUE /\ stdin = TRUE /\ stdout = TRUE
    /\ shutdown = "no"
    /\ asked = {} /\ said = [c \in Calls |-> <<>>] /\ wire = <<>>
    /\ pending = {} /\ streaming = {} /\ stopped = {}
    /\ chan = [c \in Calls |-> <<>>] /\ closed = {} /\ stopClosed = {}
    /\ rpc = "decode" /\ rmsg = None /\ rstop = FALSE /\ panicked = FALSE
    /\ pc = [c \in Calls |-> "idle"] /\ cmsg = [c \in Calls |-> None]
    /\ got = [c \in Calls |-> 0]
    /\ val = [c \in Calls |-> <<>>] /\ valClosed = {}
    /\ ran = [c \in Calls |-> <<>>] /\ failed = {}

Goto(c, p) == pc' = [pc EXCEPT ![c] = p]

-----------------------------------------------------------------------------
(* The pod: external.  It answers the requests it has read, ends each with *)
(* done, and may exit, which closes both pipes at its end.                 *)
SaidDone(c) == said[c] # <<>> /\ Last(said[c]).done

Reply(c) ==
    /\ up /\ c \in asked /\ ~SaidDone(c) /\ Len(wire) < PipeCap
    /\ \E k \in ReplyKinds[c][Len(said[c]) + 1], d \in BOOLEAN :
          LET m == [id |-> c, kind |-> k, done |-> d, n |-> Len(said[c]) + 1]
          IN  /\ m.n = Len(ReplyKinds[c]) => d
              /\ said' = [said EXCEPT ![c] = Append(@, m)]
              /\ wire' = Append(wire, m)
    /\ UNCHANGED <<podVars, asked, mapVars, chan, closed, stopClosed,
                   routerVars, pc, cmsg, got, val, valClosed, handlerVars>>

PodExit ==
    /\ up /\ up' = FALSE
    /\ UNCHANGED <<stdin, stdout, shutdown, asked, said, wire,
                   mapVars, chan, closed, stopClosed, routerVars, pc, cmsg,
                   got, val, valClosed, handlerVars>>

(* Shutdown: the op if the pod has it, or a kill; then stdin is closed     *)
(* and cmd.Wait closes our end of stdout when the process is gone.         *)
Shutdown ==
    /\ shutdown = "no" /\ shutdown' = "waiting"
    /\ stdin' = FALSE
    /\ up' \in {up, FALSE}
    /\ UNCHANGED <<stdout, asked, said, wire, mapVars, chan, closed,
                   stopClosed, routerVars, pc, cmsg, got, val, valClosed,
                   handlerVars>>

Waited ==
    /\ shutdown = "waiting" /\ ~up
    /\ shutdown' = "done" /\ stdout' = FALSE /\ wire' = <<>>
    /\ UNCHANGED <<up, stdin, asked, said, mapVars, chan, closed,
                   stopClosed, routerVars, pc, cmsg, got, val, valClosed,
                   handlerVars>>

-----------------------------------------------------------------------------
(* The router.  Reading a reply and looking up its channel are one step:   *)
(* nobody else reads the pipe.                                             *)
Route ==
    /\ rpc = "decode" /\ wire # <<>>
    /\ wire' = Tail(wire)
    /\ IF Head(wire).id \in pending
       THEN /\ rpc' = "send" /\ rmsg' = Head(wire)
            /\ rstop' = (Head(wire).id \in stopped)
       ELSE UNCHANGED <<rpc, rmsg, rstop>>
    /\ UNCHANGED <<podVars, asked, said, mapVars, chan, closed, stopClosed,
                   panicked, pc, cmsg, got, val, valClosed, handlerVars>>

RouterDone == rpc' = "decode" /\ rmsg' = None /\ rstop' = FALSE

\* The first case of the select.
RouterSend ==
    LET c == rmsg.id IN
    /\ rpc = "send" /\ (c \in closed \/ Len(chan[c]) < ChanCap[c])
    /\ panicked' = (c \in closed)
    /\ chan' = [chan EXCEPT ![c] = Append(@, rmsg)]
    /\ IF rmsg.done THEN rpc' = "settle" /\ UNCHANGED <<rmsg, rstop>>
                    ELSE RouterDone
    /\ UNCHANGED <<podVars, asked, said, wire, mapVars, closed, stopClosed,
                   pc, cmsg, got, val, valClosed, handlerVars>>

\* The second case: the stream's collector has stopped reading.
RouterGivesUp ==
    /\ rpc = "send" /\ rstop /\ rmsg.id \in stopClosed
    /\ RouterDone
    /\ UNCHANGED <<podVars, asked, said, wire, mapVars, chan, closed,
                   stopClosed, panicked, pc, cmsg, got, val, valClosed,
                   handlerVars>>

\* A done reply ends a call that is not streaming.
Settle ==
    LET c == rmsg.id IN
    /\ rpc = "settle"
    /\ IF c \in streaming
       THEN UNCHANGED <<pending, closed, panicked>>
       ELSE /\ pending' = pending \ {c}
            /\ closed' = closed \union {c}
            /\ panicked' = (c \in closed)
    /\ RouterDone
    /\ UNCHANGED <<podVars, asked, said, wire, streaming, stopped, chan,
                   stopClosed, pc, cmsg, got, val, valClosed, handlerVars>>

\* Decode fails: the pod is gone, every pending channel is closed.
RouterEnds ==
    /\ rpc = "decode" /\ wire = <<>> /\ (~up \/ ~stdout)
    /\ rpc' = "ended"
    /\ panicked' = (pending \intersect closed # {})
    /\ closed' = closed \union pending /\ pending' = {}
    /\ UNCHANGED <<podVars, asked, said, wire, streaming, stopped, chan,
                   stopClosed, rmsg, rstop, pc, cmsg, got, val, valClosed,
                   handlerVars>>

-----------------------------------------------------------------------------
(* Invoke and InvokeAsync: nextID, registerPending or registerStreaming.   *)
Register(c) ==
    /\ pc[c] = "idle" /\ Goto(c, "send")
    /\ pending' = pending \union {c}
    /\ IF c \in AsyncCalls
       THEN streaming' = streaming \union {c} /\ stopped' = stopped \union {c}
       ELSE UNCHANGED <<streaming, stopped>>
    /\ UNCHANGED <<podVars, asked, said, wire, chan, closed, stopClosed,
                   routerVars, cmsg, got, val, valClosed, handlerVars>>

(* send: an error is returned to the caller, and the registration stays.   *)
Send(c) ==
    /\ pc[c] = "send"
    /\ IF up /\ stdin THEN asked' = asked \union {c} /\ Goto(c, "receive")
                      ELSE Goto(c, "refused") /\ UNCHANGED asked
    /\ UNCHANGED <<podVars, said, wire, mapVars, chan, closed, stopClosed,
                   routerVars, cmsg, got, val, valClosed, handlerVars>>

(* Invoke: the loop over the replies.                                      *)
Receive(c) ==
    /\ c \in SyncCalls /\ pc[c] = "receive"
    /\ \/ /\ chan[c] # <<>> /\ chan' = [chan EXCEPT ![c] = Tail(@)]
          /\ got' = [got EXCEPT ![c] = IF Head(chan[c]).kind = "value"
                                       THEN Head(chan[c]).n ELSE @]
          /\ IF Head(chan[c]).kind = "fail" THEN Goto(c, "threw")
                                            ELSE UNCHANGED pc
       \/ /\ chan[c] = <<>> /\ c \in closed
          /\ Goto(c, "returned") /\ UNCHANGED <<chan, got>>
    /\ UNCHANGED <<podVars, asked, said, wire, mapVars, closed, stopClosed,
                   routerVars, cmsg, val, valClosed, handlerVars>>

(* InvokeAsync: the collector takes a reply, or the channel is closed.     *)
Collect(c) ==
    /\ c \in AsyncCalls /\ pc[c] = "receive"
    /\ \/ /\ chan[c] # <<>> /\ chan' = [chan EXCEPT ![c] = Tail(@)]
          /\ cmsg' = [cmsg EXCEPT ![c] = Head(chan[c])]
          /\ Goto(c, "pass")
       \/ /\ chan[c] = <<>> /\ c \in closed
          /\ Goto(c, "end") /\ UNCHANGED <<chan, cmsg>>
    /\ UNCHANGED <<podVars, asked, said, wire, mapVars, closed, stopClosed,
                   routerVars, got, val, valClosed, handlerVars>>

\* Mutant: a payload that does not decode is dropped.
MutDropsBad(c) ==
    LET m == cmsg[c] IN
    /\ pc[c] = "pass"
    /\ IF m.kind \in {"plain", "fail"} THEN UNCHANGED val
       ELSE /\ Len(val[c]) < ValCap
            /\ val' = [val EXCEPT ![c] = Append(@, m)]
    /\ Goto(c, IF m.done THEN "end" ELSE "receive")
    /\ cmsg' = [cmsg EXCEPT ![c] = None]
    /\ UNCHANGED <<podVars, asked, said, wire, mapVars, chan, closed,
                   stopClosed, routerVars, got, valClosed, handlerVars>>

\* valCh <- v, and the end of the stream on an error or on done.
Pass(c) ==
    LET m == cmsg[c] IN
    /\ pc[c] = "pass"
    /\ IF m.kind = "plain" THEN UNCHANGED val
       ELSE /\ Len(val[c]) < ValCap
            /\ val' = [val EXCEPT ![c] = Append(@, m)]
    /\ Goto(c, IF m.kind = "fail" \/ m.done THEN "end" ELSE "receive")
    /\ cmsg' = [cmsg EXCEPT ![c] = None]
    /\ UNCHANGED <<podVars, asked, said, wire, mapVars, chan, closed,
                   stopClosed, routerVars, got, valClosed, handlerVars>>

\* Mutant: endStream closes the router's channel.
MutClosesChan(c) ==
    /\ pc[c] = "end" /\ Goto(c, "close")
    /\ closed' = closed \union {c}
    /\ stopClosed' = stopClosed \union {c}
    /\ pending' = pending \ {c} /\ streaming' = streaming \ {c}
    /\ stopped' = stopped \ {c}
    /\ UNCHANGED <<podVars, asked, said, wire, chan, routerVars, cmsg, got, val,
                   valClosed, handlerVars>>

\* Mutant: endStream leaves the streaming flag.
MutKeepsFlag(c) ==
    /\ pc[c] = "end" /\ Goto(c, "close")
    /\ stopClosed' = stopClosed \union {c}
    /\ pending' = pending \ {c} /\ stopped' = stopped \ {c}
    /\ UNCHANGED <<podVars, asked, said, wire, streaming, chan, closed,
                   routerVars, cmsg, got, val, valClosed, handlerVars>>

\* Mutant: endStream does not release a router that is sending.
MutNoRelease(c) ==
    /\ pc[c] = "end" /\ Goto(c, "close")
    /\ pending' = pending \ {c} /\ streaming' = streaming \ {c}
    /\ stopped' = stopped \ {c}
    /\ UNCHANGED <<podVars, asked, said, wire, chan, closed, stopClosed,
                   routerVars, cmsg, got, val, valClosed, handlerVars>>

(* endStream, then the deferred close(valCh).                              *)
EndStream(c) ==
    /\ pc[c] = "end" /\ Goto(c, "close")
    /\ stopClosed' = IF c \in stopped THEN stopClosed \union {c} ELSE stopClosed
    /\ pending' = pending \ {c} /\ streaming' = streaming \ {c}
    /\ stopped' = stopped \ {c}
    /\ UNCHANGED <<podVars, asked, said, wire, chan, closed, routerVars, cmsg,
                   got, val, valClosed, handlerVars>>

CloseVal(c) ==
    /\ pc[c] = "close" /\ Goto(c, "handled")
    /\ valClosed' = valClosed \union {c}
    /\ UNCHANGED <<podVars, asked, said, wire, mapVars, chan, closed,
                   stopClosed, routerVars, cmsg, got, val, handlerVars>>

(* The goroutine of pods/invoke that runs the handlers.                    *)
IsError(m) == m.kind \in {"errval", "fail"}
Tag(m) == IF IsError(m) THEN "error" ELSE "success"

Handle(c) ==
    /\ c \in AsyncCalls /\ val[c] # <<>>
    /\ val' = [val EXCEPT ![c] = Tail(@)]
    /\ ran' = [ran EXCEPT ![c] = Append(@,
                <<Tag(Head(val[c])), Head(val[c]).n>>)]
    /\ failed' = IF IsError(Head(val[c])) THEN failed \union {c} ELSE failed
    /\ UNCHANGED <<podVars, asked, said, wire, mapVars, chan, closed,
                   stopClosed, routerVars, pc, cmsg, got, valClosed>>

HandlersEnd(c) ==
    /\ pc[c] = "handled" /\ val[c] = <<>> /\ Goto(c, "returned")
    /\ ran' = IF c \in failed THEN ran
              ELSE [ran EXCEPT ![c] = Append(@, <<"done", 0>>)]
    /\ UNCHANGED <<podVars, asked, said, wire, mapVars, chan, closed,
                   stopClosed, routerVars, cmsg, got, val, valClosed, failed>>

-----------------------------------------------------------------------------
Router == Route \/ RouterSend \/ RouterGivesUp \/ Settle \/ RouterEnds
Call(c) ==
    \/ Send(c) \/ Receive(c) \/ Collect(c) \/ Pass(c)
    \/ EndStream(c) \/ CloseVal(c) \/ Handle(c) \/ HandlersEnd(c)

Next ==
    \/ \E c \in Calls : Register(c) \/ Reply(c) \/ Call(c)
    \/ PodExit \/ Shutdown \/ Waited \/ Router

Spec == Init /\ [][Next]_vars

(* The client's goroutines run.  A pod that lives goes on answering, and   *)
(* one whose stdin is closed exits; no pod has to exit by itself.          *)
FairSpec ==
    /\ Spec /\ WF_vars(Router) /\ WF_vars(Waited)
    /\ WF_vars(~stdin /\ PodExit)
    /\ \A c \in Calls : WF_vars(Call(c)) /\ WF_vars(Reply(c))

-----------------------------------------------------------------------------
TypeOK ==
    /\ up \in BOOLEAN /\ stdin \in BOOLEAN /\ stdout \in BOOLEAN
    /\ rstop \in BOOLEAN /\ panicked \in BOOLEAN
    /\ shutdown \in {"no", "waiting", "done"}
    /\ asked \subseteq Calls /\ said \in [Calls -> Seq(Msgs)]
    /\ wire \in Seq(Msgs)
    /\ pending \subseteq Calls
    /\ streaming \subseteq AsyncCalls /\ stopped \subseteq AsyncCalls
    /\ chan \in [Calls -> Seq(Msgs)] /\ closed \subseteq Calls
    /\ stopClosed \subseteq AsyncCalls
    /\ rpc \in {"decode", "send", "settle", "ended"}
    /\ rmsg \in Msgs \union {None}
    /\ pc \in [Calls -> {"idle", "send", "refused", "receive", "threw", "pass",
                         "end", "close", "handled", "returned"}]
    /\ cmsg \in [Calls -> Msgs \union {None}] /\ got \in [Calls -> Nat]
    /\ val \in [Calls -> Seq(Msgs)] /\ valClosed \subseteq Calls
    /\ ran \in [Calls -> Seq({"success", "error", "done"} \X Nat)]
    /\ failed \subseteq AsyncCalls

\* The router never sends on a closed channel and never closes one twice:
\* it closes a channel on done, on the death of the pod, and also that of
\* a stream whose collector dropped the streaming flag between the send of
\* the done reply and Settle.
RouterNeverPanics == ~panicked

\* The replies whose handler has run.
Seen(c) == {ran[c][i][2] : i \in {j \in DOMAIN ran[c] : ran[c][j][1] # "done"}}

\* The replies of c whose payload reaches a handler, and those that end it.
Pays(c, k)  == said[c][k].kind # "plain"
Fails(c, k) == said[c][k].kind = "fail"

\* The handlers of a streaming call get what the pod sent to that call, each
\* reply once and in order, without a gap, up to and including the first
\* failure, and :done after all of it and never after an error; :done
\* without a done reply means that the pod is gone.
HandlersFollowPod ==
    \A c \in AsyncCalls :
        /\ \A i \in DOMAIN ran[c] : LET n == ran[c][i][2] IN
              ran[c][i][1] # "done" =>
                  /\ n \in DOMAIN said[c] /\ Pays(c, n)
                  /\ ran[c][i][1] = Tag(said[c][n])
                  /\ \A j \in 1..i - 1 : ran[c][j][2] < n
                  /\ \A k \in 1..n - 1 : ~Fails(c, k) /\ (Pays(c, k) => k \in Seen(c))
        /\ pc[c] = "returned" /\ up /\ stdout =>
              \A k \in DOMAIN said[c] :
                  Pays(c, k) => k \in Seen(c) \/ \E j \in 1..k - 1 : Fails(c, j)
        /\ \A i \in DOMAIN ran[c] : ran[c][i][1] = "done" =>
              i = Len(ran[c]) /\ c \notin failed /\ (up => SaidDone(c))

\* A synchronous call returns the last value the pod sent to it, after
\* done; without done the pod is gone.
InvokeAnswers ==
    \A c \in SyncCalls : pc[c] = "returned" =>
        /\ up => SaidDone(c)
        /\ got[c] \in {0} \union {m.n : m \in ToSet(said[c])}
        /\ SaidDone(c) /\ up =>
              \A m \in ToSet(said[c]) : m.kind = "value" => m.n <= got[c]

\* Either way a caller gets what the pod sent to its own call.
CallersFollowPod == HandlersFollowPod /\ InvokeAnswers

\* The maps do not grow with the calls: once a pod that lives has said
\* done to a call and nothing of it is under way, no map has its id.
MapsTidy ==
    \A c \in Calls :
        up /\ SaidDone(c) /\ pc[c] \in {"returned", "threw"} /\ rmsg = None
            /\ (\A m \in ToSet(wire) : m.id # c)
        => c \notin pending \union streaming \union stopped

-----------------------------------------------------------------------------
(* The inductive invariant behind RouterNeverPanics and MapsTidy.          *)

\* What the router has in hand came from a pending call, and only the
\* router closes channels, so that call's channel is still open.
RouterInv ==
    /\ rpc \in {"send", "settle"} =>
          rmsg \in Msgs /\ rmsg.id \notin closed /\ pc[rmsg.id] # "idle"
    /\ rpc \in {"decode", "ended"} => rmsg = None
    /\ rpc = "settle" => rmsg.done
    /\ rstop => rmsg \in Msgs /\ rmsg.id \in AsyncCalls
    /\ pending \intersect closed = {}
    /\ ~panicked

\* An id is registered once; a stream whose collector has ended is in no
\* map; the pod goes on until it has said done.
CallInv(c) ==
    /\ pc[c] = "idle" => c \notin pending \union closed \union asked
    /\ c \notin asked => said[c] = <<>>
    /\ ~SaidDone(c) => Len(said[c]) < Len(ReplyKinds[c])
    /\ pc[c] \in {"pass", "end", "close", "handled"} => c \in AsyncCalls
    /\ pc[c] = "pass" => cmsg[c] \in Msgs
    /\ c \in AsyncCalls => pc[c] # "threw"
    /\ c \in AsyncCalls /\ pc[c] \in {"close", "handled", "returned"}
       => c \notin pending \union streaming \union stopped

\* A synchronous call stays pending only while its done reply is in the
\* pipe or in the router's hand.
DoneComing(c) ==
    \/ \E i \in 1..Len(wire) : wire[i].id = c /\ wire[i].done
    \/ rmsg \in Msgs /\ rmsg.id = c /\ rmsg.done
TidyInv ==
    \A c \in SyncCalls : up /\ SaidDone(c) /\ c \in pending => DoneComing(c)

PodsInv == RouterInv /\ (\A c \in Calls : CallInv(c)) /\ TidyInv

-----------------------------------------------------------------------------
(* The inductive invariant behind CallersFollowPod.  A reply of c moves    *)
(* from the pipe to the router's hand, the call's channel, the collector's *)
(* hand, the handlers' channel and the handlers: the numbers of those that *)
(* are in each place.                                                      *)
Nums(q)   == {q[i].n : i \in 1..Len(q)}
Piped(c)  == {wire[i].n : i \in {j \in 1..Len(wire) : wire[j].id = c}}
Routed(c) == IF rpc = "send" /\ rmsg.id = c THEN {rmsg.n} ELSE {}
Queued(c) == Nums(chan[c])
Held(c)   == IF pc[c] = "pass" THEN {cmsg[c].n} ELSE {}
Passed(c) == Nums(val[c])
Delivered(c) == Seen(c) \union Passed(c)
Coming(c) == Queued(c) \union Routed(c) \union Piped(c)

Collecting(c) == c \in AsyncCalls /\ pc[c] \in {"send", "receive", "pass"}
Receiving(c)  == c \in SyncCalls /\ pc[c] \in {"send", "receive"}

\* Every message is one the pod sent, unchanged, in a place of its own call.
IsSaid(c, m) == m.id = c /\ m.n \in 1..Len(said[c]) /\ m = said[c][m.n]
AuthOf(c) ==
    /\ \A k \in 1..Len(said[c]) :
          /\ said[c][k].id = c /\ said[c][k].n = k
          /\ said[c][k].done => k = Len(said[c])
    /\ \A i \in 1..Len(chan[c]) : IsSaid(c, chan[c][i])
    /\ pc[c] = "pass" => IsSaid(c, cmsg[c])
    /\ \A i \in 1..Len(val[c]) : IsSaid(c, val[c][i]) /\ Pays(c, val[c][i].n)
    /\ got[c] \in 0..Len(said[c])

AuthInv ==
    /\ \A i \in 1..Len(wire) : IsSaid(wire[i].id, wire[i])
    /\ rpc \in {"send", "settle"} => IsSaid(rmsg.id, rmsg)
    /\ \A c \in Calls : AuthOf(c)

\* What the handlers saw was sent, and :done comes last.
RanInv(c) ==
    /\ \A i \in 1..Len(ran[c]) :
        \/ /\ ran[c][i][1] = "done" /\ i = Len(ran[c])
           /\ pc[c] = "returned" /\ c \notin failed
        \/ /\ ran[c][i][2] \in 1..Len(said[c]) /\ Pays(c, ran[c][i][2])
           /\ ran[c][i][1] = Tag(said[c][ran[c][i][2]])
    /\ \A k \in Seen(c) : Fails(c, k) => c \in failed
    /\ c \in AsyncCalls /\ pc[c] = "returned" => val[c] = <<>>

\* A stream is in the maps until its collector ends, a call in pending until
\* its channel is closed, which takes a done reply or the death of the pod.
PhaseOf(c) ==
    /\ Collecting(c) => /\ c \in streaming /\ (c \in pending \/ rpc = "ended")
                        /\ c \in closed => ~up
    /\ c \in stopClosed => pc[c] \in {"close", "handled", "returned"}
    /\ Receiving(c) => c \in pending \union closed
    /\ c \in SyncCalls /\ c \in closed /\ up => SaidDone(c) /\ Piped(c) = {}

PhaseInv ==
    /\ ~stdout => ~up
    /\ rpc = "ended" => ~up
    /\ \A c \in Calls : PhaseOf(c)

\* The replies of a call overtake each other nowhere.
Before(S, T) == \A x \in S, y \in T : x < y
Rising(q) == \A i, j \in 1..Len(q) : i < j => q[i].n < q[j].n
OrderOf(c) ==
    /\ Rising(chan[c]) /\ Rising(val[c])
    /\ Before(Routed(c), Piped(c))
    /\ Before(Queued(c), Routed(c) \union Piped(c))
    /\ Before(Held(c), Coming(c))
    /\ Before(Delivered(c), Held(c) \union Coming(c))
    /\ Before(Seen(c), Passed(c))
    /\ \A i, j \in 1..Len(ran[c]) :
          i < j /\ ran[c][j][1] # "done" => ran[c][i][2] < ran[c][j][2]
    /\ c \in SyncCalls => Before({got[c]}, Coming(c))

OrderInv ==
    /\ \A i, j \in 1..Len(wire) : i < j /\ wire[i].id = wire[j].id => wire[i].n < wire[j].n
    /\ rpc = "settle" => Before({rmsg.n}, Piped(rmsg.id))
    /\ \A c \in Calls : OrderOf(c)

\* While a stream is collected no payload of it is lost but the last ones,
\* to the death of the pod; what was delivered has no gap and ends with a
\* failure; and the collector ends for one of three reasons.
StreamInv(c) ==
    /\ Collecting(c) => \A k \in 1..Len(said[c]) :
          Pays(c, k) => \/ k \in Delivered(c) \union Held(c) \union Coming(c)
                        \/ ~up /\ Before(Delivered(c) \union Held(c) \union Coming(c), {k})
    /\ Collecting(c) => \A k \in Delivered(c) : ~Fails(c, k)
    /\ \A n \in Delivered(c) : \A k \in 1..n - 1 :
          ~Fails(c, k) /\ (Pays(c, k) => k \in Delivered(c))
    /\ pc[c] \in {"end", "close", "handled", "returned"} =>
          \/ ~up
          \/ \E k \in Delivered(c) : Fails(c, k)
          \/ SaidDone(c) /\ \A k \in 1..Len(said[c]) : Pays(c, k) => k \in Delivered(c)
    /\ \A i \in 1..Len(ran[c]) : ran[c][i][1] = "done" => (up => SaidDone(c))

\* No value sent to a synchronous call is lost while the pod lives.
InvokeInv(c) ==
    /\ Receiving(c) /\ up => \A k \in 1..Len(said[c]) :
          said[c][k].kind = "value" => k <= got[c] \/ k \in Coming(c)
    /\ pc[c] = "returned" /\ up =>
          /\ SaidDone(c)
          /\ \A k \in 1..Len(said[c]) : said[c][k].kind = "value" => k <= got[c]

FollowInv ==
    /\ AuthInv /\ (\A c \in Calls : RanInv(c)) /\ PhaseInv /\ OrderInv
    /\ \A c \in AsyncCalls : StreamInv(c)
    /\ \A c \in SyncCalls : InvokeInv(c)

-----------------------------------------------------------------------------
\* Every call comes back, whatever the others do: a stream that stops
\* reading does not stall the router, and no call waits for a pod that has
\* gone.
CallsReturn ==
    \A c \in Calls :
        pc[c] # "idle" ~> pc[c] \in {"returned", "threw", "refused"}
=============================================================================
