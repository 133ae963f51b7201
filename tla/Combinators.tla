----------------------------- MODULE Combinators -----------------------------
(***************************************************************************)
(* The combinators of core.async, pkg/rt/async.go: pipe, onto-chan! and    *)
(* to-chan!, merge, reduce and into, split, map, take, mult with tap and   *)
(* untap, pub with sub and unsub.                                          *)
(*                                                                         *)
(* Each is a goroutine of the root scope (merge: one per input and one     *)
(* that closes the output) that receives from its inputs and sends to its  *)
(* outputs until an input ends or the scope is cancelled.  CombInit        *)
(* chooses the combinator.  The program puts values on the inputs, closes  *)
(* them and takes from the outputs; it never closes an output itself.      *)
(*                                                                         *)
(* A value is the number of its input and its place in it.  What goes over *)
(* an output is a sequence of values: one for most combinators, one per    *)
(* input for map, all of them for reduce.                                  *)
(***************************************************************************)
EXTENDS Integers, Sequences

CONSTANTS
    Ops,       \* the combinators to choose from
    Caps,      \* the capacities of the channels the program supplies
    MaxVals,   \* the values an input may have
    Bound,     \* bound: combinator -> the values put on each of its inputs
    Limit,     \* take's n
    Truthy,    \* the values split's predicate holds for
    Fails,     \* the values the predicate, function or topic function throws for
    Topic      \* value -> the topic it belongs to

Inputs  == 1..2
Outs    == 1..2
Workers == 0..2    \* 0 closes the output of merge
Values  == Inputs \X (1..MaxVals)
Topics  == {Topic[v] : v \in Values}

ASSUME CombinatorsConstants ==
    /\ Ops \subseteq {"pipe", "onto", "merge", "reduce", "split", "map", "take",
                      "mult", "pub"}
    /\ Caps \subseteq Nat /\ MaxVals \in Nat /\ Limit \in Nat \ {0}
    /\ Bound \in [Ops -> 0..MaxVals]
    /\ Truthy \subseteq Values /\ Fails \subseteq Values

VARIABLES
    op, cap,           \* the combinator; the capacity of its outputs
    fed, ended, read,  \* input -> values put; closed inputs; values received
    chan, closed,      \* output -> what is in it; the closed ones
    parked, taken,     \* outputs with a parked taker; output -> what was taken
    finished,          \* the outputs whose taker has seen the end
    pc, hand,          \* goroutine -> where it is, the values it holds
    counted,           \* merge: the inputs that are done
    taps,              \* the destinations: key, channel and whether to close
    left,              \* those a pass over the destinations has still to serve
    scopeDone, panicked

inVars   == <<fed, ended, read>>
outVars  == <<chan, closed, parked, taken, finished>>
loopVars == <<pc, hand, counted, left>>
combVars == <<op, cap, inVars, outVars, loopVars, taps, scopeDone, panicked>>

Ins  == IF op \in {"merge", "map"} THEN Inputs ELSE {1}
Dsts == IF op \in {"split", "mult", "pub"} THEN Outs ELSE {1}
Started(o) == IF o = "merge" THEN Workers ELSE {1}
Entry(k, o, c) == [key |-> k, ch |-> o, close |-> c]

\* The channels a combinator makes are unbuffered; reduce's holds one value.
Capacity == IF op \in {"split", "map", "take"} THEN 0
            ELSE IF op = "reduce" THEN 1 ELSE cap

CombInit ==
    /\ op \in Ops /\ cap \in Caps
    /\ fed = [i \in Inputs |-> IF op = "onto" THEN Bound[op] ELSE 0]
    /\ ended = (IF op = "onto" THEN {1} ELSE {})
    /\ read = [i \in Inputs |-> 0]
    /\ chan = [o \in Outs |-> <<>>] /\ closed = {} /\ parked = {}
    /\ taken = [o \in Outs |-> <<>>] /\ finished = {}
    /\ pc = [w \in Workers |-> IF w \notin Started(op) THEN "returned"
                               ELSE IF w = 0 THEN "count" ELSE "recv"]
    /\ hand = [w \in Workers |-> <<>>] /\ counted = 0
    /\ taps \in CASE op = "split" -> {{Entry(1, 1, TRUE), Entry(2, 2, TRUE)}}
                  [] op \in {"mult", "pub"} -> {{}}
                  [] op \in {"pipe", "onto"} ->
                        {{Entry(1, 1, c)} : c \in BOOLEAN}
                  [] OTHER -> {{Entry(1, 1, TRUE)}}
    /\ left = {} /\ scopeDone = FALSE /\ panicked = FALSE

-----------------------------------------------------------------------------
(* The program around the combinator, and CancelAll on the root scope.     *)
Put(i) ==
    /\ i \in Ins \ ended /\ fed[i] < Bound[op]
    /\ fed' = [fed EXCEPT ![i] = @ + 1]
    /\ UNCHANGED <<op, cap, ended, read, outVars, loopVars, taps, scopeDone,
                   panicked>>

CloseInput(i) ==
    /\ i \in Ins \ ended /\ ended' = ended \union {i}
    /\ UNCHANGED <<op, cap, fed, read, outVars, loopVars, taps, scopeDone,
                   panicked>>

Cancel ==
    /\ ~scopeDone /\ scopeDone' = TRUE
    /\ UNCHANGED <<op, cap, inVars, outVars, loopVars, taps, panicked>>

\* A taker of output o: it parks, then gets a value or the end.
Park(o) ==
    /\ o \in Dsts \ (parked \union finished) /\ parked' = parked \union {o}
    /\ UNCHANGED <<op, cap, inVars, chan, closed, taken, finished, loopVars,
                   taps, scopeDone, panicked>>

Take(o) ==
    /\ o \in parked /\ parked' = parked \ {o}
    /\ \/ /\ chan[o] # <<>> /\ chan' = [chan EXCEPT ![o] = Tail(@)]
          /\ taken' = [taken EXCEPT ![o] = Append(@, Head(chan[o]))]
          /\ UNCHANGED finished
       \/ /\ chan[o] = <<>> /\ o \in closed
          /\ finished' = finished \union {o} /\ UNCHANGED <<chan, taken>>
    /\ UNCHANGED <<op, cap, inVars, closed, loopVars, taps, scopeDone, panicked>>

-----------------------------------------------------------------------------
(* The goroutines.                                                         *)
\* A parked taker makes room for one more, also on an unbuffered channel.
Room(o) == Len(chan[o]) < Capacity + (IF o \in parked THEN 1 ELSE 0)

Goto(w, p) == pc' = [pc EXCEPT ![w] = p]
Hold(w, h) == hand' = [hand EXCEPT ![w] = h]

\* The loop is left: the destinations that are to be closed.
Closing(w) ==
    /\ Goto(w, "close") /\ Hold(w, <<>>)
    /\ left' = {t \in taps : t.close}

\* The input that goroutine w reads next; map reads one after the other.
Src(w) == CASE op = "merge" -> w
            [] op = "map" -> Len(hand[w]) + 1
            [] OTHER -> 1

\* ctxRecv has a value v.
Received(w, v) ==
    CASE op = "map" /\ Len(hand[w]) = 0 ->
            Hold(w, <<v>>) /\ UNCHANGED <<pc, left>>
      [] op = "map" /\ Len(hand[w]) = 1 ->
            IF v \in Fails THEN Closing(w)
            ELSE Hold(w, Append(hand[w], v)) /\ Goto(w, "send") /\ UNCHANGED left
      [] op = "reduce" ->
            IF v \in Fails THEN Goto(w, "send") /\ UNCHANGED <<hand, left>>
            ELSE Hold(w, Append(hand[w], v)) /\ UNCHANGED <<pc, left>>
      [] op = "pub" /\ v \in Fails -> UNCHANGED <<pc, hand, left>>
      [] op = "mult" \/ (op = "pub" /\ v \notin Fails) ->
            Hold(w, <<v>>) /\ Goto(w, "lock") /\ UNCHANGED left
      [] OTHER -> Hold(w, <<v>>) /\ Goto(w, "send") /\ UNCHANGED left

\* ctxRecv finds the input closed and drained.
InputEnd(w) ==
    CASE op = "merge" -> Goto(w, "signal") /\ UNCHANGED <<hand, left>>
      [] op = "reduce" -> Goto(w, "send") /\ UNCHANGED <<hand, left>>
      [] op \in {"mult", "pub"} -> Goto(w, "lock") /\ UNCHANGED <<hand, left>>
      [] OTHER -> Closing(w)

Recv(w) ==
    LET i == Src(w) IN
    /\ pc[w] = "recv"
    /\ \/ /\ read[i] < fed[i] /\ read' = [read EXCEPT ![i] = @ + 1]
          /\ Received(w, <<i, read[i] + 1>>)
       \/ /\ read[i] = fed[i] /\ i \in ended
          /\ InputEnd(w) /\ UNCHANGED read
    /\ UNCHANGED <<op, cap, fed, ended, outVars, counted, taps, scopeDone,
                   panicked>>

\* Mutant: the result of ctxSend is not looked at.
MutSendsOn(w) ==
    /\ scopeDone
    /\ \/ pc[w] = "recv" /\ op # "onto" /\ Goto(w, "returned") /\ UNCHANGED hand
       \/ pc[w] = "send" /\ op # "reduce" /\ Goto(w, "recv") /\ Hold(w, <<>>)
       \/ pc[w] \in {"signal", "count"} /\ Goto(w, "returned") /\ UNCHANGED hand
    /\ UNCHANGED <<op, cap, inVars, outVars, counted, left, taps, scopeDone,
                   panicked>>

\* Mutant: a cancelled receive leaves the loop like the end of the input.
MutBreaks(w) ==
    /\ scopeDone
    /\ \/ pc[w] = "recv" /\ op # "onto" /\ Closing(w)
       \/ /\ \/ pc[w] = "send" /\ op # "reduce"
             \/ pc[w] \in {"signal", "count"}
          /\ Goto(w, "returned") /\ UNCHANGED <<hand, left>>
    /\ UNCHANGED <<op, cap, inVars, outVars, counted, taps, scopeDone, panicked>>

\* The select on ctx.Done; a collection is read, and the result of reduce
\* sent, without one.
Stop(w) ==
    /\ scopeDone
    /\ \/ pc[w] = "recv" /\ op # "onto"
       \/ pc[w] = "send" /\ op # "reduce"
       \/ pc[w] \in {"signal", "count"}
    /\ Goto(w, "returned")
    /\ UNCHANGED <<op, cap, inVars, outVars, hand, counted, left, taps,
                   scopeDone, panicked>>

\* split sends to the second channel what is not true, or throws.
Dst(w) == IF op = "split" /\ hand[w][1] \notin Truthy \ Fails THEN 2 ELSE 1

\* Mutant: the send does not wait for room.
MutNoWait(w) ==
    /\ pc[w] = "send"
    /\ panicked' = (panicked \/ Dst(w) \in closed)
    /\ chan' = [chan EXCEPT ![Dst(w)] = Append(@, hand[w])]
    /\ IF op = "reduce" \/ (op = "take" /\ read[1] = Limit) THEN Closing(w)
       ELSE Goto(w, "recv") /\ Hold(w, <<>>) /\ UNCHANGED left
    /\ UNCHANGED <<op, cap, inVars, closed, parked, taken, finished, counted,
                   taps, scopeDone>>

Send(w) ==
    /\ pc[w] = "send" /\ (Room(Dst(w)) \/ Dst(w) \in closed)
    /\ panicked' = (panicked \/ Dst(w) \in closed)
    /\ IF Dst(w) \in closed THEN UNCHANGED chan
       ELSE chan' = [chan EXCEPT ![Dst(w)] = Append(@, hand[w])]
    /\ IF op = "reduce" \/ (op = "take" /\ read[1] = Limit) THEN Closing(w)
       ELSE Goto(w, "recv") /\ Hold(w, <<>>) /\ UNCHANGED left
    /\ UNCHANGED <<op, cap, inVars, closed, parked, taken, finished, counted,
                   taps, scopeDone>>

\* Mutant: the closing goroutine waits for one more than there are inputs.
MutOneMore(w) ==
    /\ pc[w] = "signal" /\ pc[0] = "count" /\ counted' = counted + 1
    /\ pc' = [pc EXCEPT ![w] = "returned"]
    /\ UNCHANGED <<op, cap, inVars, outVars, hand, left, taps, scopeDone,
                   panicked>>

\* merge: an input is done, and the goroutine that closes has heard of it.
Signal(w) ==
    /\ pc[w] = "signal" /\ pc[0] = "count" /\ counted' = counted + 1
    /\ IF counted' = 2
       THEN /\ pc' = [pc EXCEPT ![w] = "returned", ![0] = "close"]
            /\ left' = {t \in taps : t.close}
       ELSE Goto(w, "returned") /\ UNCHANGED left
    /\ UNCHANGED <<op, cap, inVars, outVars, hand, taps, scopeDone, panicked>>

\* Mutant: split closes its first channel twice.
MutSameTwice(w) ==
    /\ pc[w] = "close"
    /\ \E t \in left :
          /\ panicked' = (panicked \/ 1 \in closed)
          /\ closed' = closed \union {1} /\ left' = left \ {t}
    /\ UNCHANGED <<op, cap, inVars, chan, parked, taken, finished, pc, hand,
                   counted, taps, scopeDone>>

CloseDst(w) ==
    /\ pc[w] = "close"
    /\ \E t \in left :
          /\ op = "split" => \A u \in left : t.key <= u.key
          /\ panicked' = (panicked \/ t.ch \in closed)
          /\ closed' = closed \union {t.ch} /\ left' = left \ {t}
    /\ UNCHANGED <<op, cap, inVars, chan, parked, taken, finished, pc, hand,
                   counted, taps, scopeDone>>

Return(w) ==
    /\ pc[w] = "close" /\ left = {} /\ Goto(w, "returned")
    /\ UNCHANGED <<op, cap, inVars, outVars, hand, counted, left, taps,
                   scopeDone, panicked>>

-----------------------------------------------------------------------------
(* mult and pub: a pass over the destinations, with the mutex held.        *)
Lock(w) ==
    /\ pc[w] = "lock"
    /\ IF hand[w] = <<>> THEN Closing(w)
       ELSE /\ Goto(w, "pass") /\ UNCHANGED hand
            /\ left' = {t \in taps : op = "pub" => t.key = Topic[hand[w][1]]}
    /\ UNCHANGED <<op, cap, inVars, outVars, counted, taps, scopeDone, panicked>>

\* A value is dropped where there is no room for it.
Offer(w) ==
    /\ pc[w] = "pass"
    /\ \E t \in left :
          /\ panicked' = (panicked \/ t.ch \in closed)
          /\ IF t.ch \notin closed /\ Room(t.ch)
             THEN chan' = [chan EXCEPT ![t.ch] = Append(@, hand[w])]
             ELSE UNCHANGED chan
          /\ left' = left \ {t}
    /\ UNCHANGED <<op, cap, inVars, closed, parked, taken, finished, pc, hand,
                   counted, taps, scopeDone>>

Unlock(w) ==
    /\ pc[w] = "pass" /\ left = {} /\ Goto(w, "recv") /\ Hold(w, <<>>)
    /\ UNCHANGED <<op, cap, inVars, outVars, counted, left, taps, scopeDone,
                   panicked>>

MuFree == pc[1] \notin {"pass", "close"}

\* tap and sub; a channel is subscribed to one topic at a time.
Tap(k, o, c) ==
    /\ MuFree
    /\ \/ op = "mult" /\ k = o
       \/ op = "pub" /\ k \in Topics /\ c
          /\ \A t \in taps : t.ch = o => t.key = k
    /\ taps' = {t \in taps : t.key # k} \union {Entry(k, o, c)}
    /\ UNCHANGED <<op, cap, inVars, outVars, loopVars, scopeDone, panicked>>

\* untap and unsub.
Untap(k) ==
    /\ MuFree /\ op \in {"mult", "pub"} /\ \E t \in taps : t.key = k
    /\ taps' = {t \in taps : t.key # k}
    /\ UNCHANGED <<op, cap, inVars, outVars, loopVars, scopeDone, panicked>>

UntapAll ==
    /\ MuFree /\ op = "mult" /\ taps # {} /\ taps' = {}
    /\ UNCHANGED <<op, cap, inVars, outVars, loopVars, scopeDone, panicked>>

-----------------------------------------------------------------------------
Loop(w) ==
    \/ Recv(w) \/ Stop(w) \/ Send(w) \/ Signal(w) \/ CloseDst(w) \/ Return(w)
    \/ Lock(w) \/ Offer(w) \/ Unlock(w)
Taker(o) == Park(o) \/ Take(o)

CombNext ==
    \/ \E i \in Inputs : Put(i) \/ CloseInput(i)
    \/ \E o \in Outs : Taker(o)
    \/ \E w \in Workers : Loop(w)
    \/ \E k \in Outs \union Topics, o \in Outs, c \in BOOLEAN : Tap(k, o, c)
    \/ \E k \in Outs \union Topics : Untap(k)
    \/ UntapAll \/ Cancel

CombSpec == CombInit /\ [][CombNext]_combVars

\* The goroutines are scheduled, and somebody takes from every output.
FairCombSpec ==
    /\ CombSpec
    /\ \A w \in Workers : WF_combVars(Loop(w))
    /\ \A o \in Outs : WF_combVars(Taker(o))

-----------------------------------------------------------------------------
Places == {"recv", "send", "signal", "count", "lock", "pass", "close",
           "returned"}

CombTypeOK ==
    /\ op \in Ops /\ cap \in Caps
    /\ fed \in [Inputs -> 0..MaxVals] /\ read \in [Inputs -> 0..MaxVals]
    /\ ended \subseteq Inputs
    /\ chan \in [Outs -> Seq(Seq(Values))] /\ taken \in [Outs -> Seq(Seq(Values))]
    /\ \A o \in Outs : Len(chan[o]) <= Capacity + (IF o \in parked THEN 1 ELSE 0)
    /\ closed \subseteq Outs /\ parked \subseteq Outs /\ finished \subseteq Outs
    /\ pc \in [Workers -> Places] /\ hand \in [Workers -> Seq(Values)]
    /\ counted \in 0..2 /\ left \subseteq taps
    /\ \A t \in taps : t.ch \in Outs /\ t.close \in BOOLEAN
    /\ {scopeDone, panicked} \subseteq BOOLEAN

-----------------------------------------------------------------------------
(* What the outputs should carry, from what was received so far.           *)
Emitted(o) == taken[o] \o chan[o]
Copying    == {"pipe", "onto", "merge", "split", "take"}
Reader(i)  == IF op = "merge" THEN i ELSE 1    \* who receives from input i

\* Output o of a copying combinator is for value v.
Meant(v, o) == op = "split" => (o = 1 <=> v \in Truthy \ Fails)
InOutput(v, o) == \E n \in DOMAIN Emitted(o) : Emitted(o)[n] = <<v>>

\* All of the first k values of input i that are meant for it are in output o.
CameUpTo(i, k, o) == \A j \in 1..k : Meant(<<i, j>>, o) => InOutput(<<i, j>>, o)

\* The values received before the first for which the function throws.
IsFold(m) ==
    /\ Len(m) <= read[1]
    /\ \A k \in 1..Len(m) : m[k] = <<1, k>> /\ <<1, k>> \notin Fails
    /\ Len(m) < read[1] => <<1, Len(m) + 1>> \in Fails

\* Each is a value that was received and is meant for the output; those of
\* an input keep their order, and none in between is missing.
CopiesInOrder(o) ==
    /\ \A n \in DOMAIN Emitted(o) :
          \E i \in Ins : \E k \in 1..read[i] :
             /\ Emitted(o)[n] = <<<<i, k>>>> /\ Meant(<<i, k>>, o)
             /\ CameUpTo(i, k, o)
    /\ \A m, n \in DOMAIN Emitted(o) :
          m < n /\ Emitted(o)[m][1][1] = Emitted(o)[n][1][1]
             => Emitted(o)[m][1][2] < Emitted(o)[n][1][2]

\* Nothing is lost, repeated, reordered or sent to the wrong output on the
\* way through a combinator, whenever the scope is cancelled: a value that
\* was received is in its output unless a goroutine still holds it or was
\* stopped with it.  map pairs the values by their place; reduce answers
\* once; mult and pub may skip values, in order and without repeating one.
FlowsInOrder ==
    \A o \in Dsts :
        CASE op \in Copying ->
                /\ CopiesInOrder(o)
                /\ \A i \in Ins : ~scopeDone /\ pc[Reader(i)] # "send"
                                     => CameUpTo(i, read[i], o)
          [] op = "map" ->
                \A k \in DOMAIN Emitted(o) : Emitted(o)[k] = <<<<1, k>>, <<2, k>>>>
          [] op = "reduce" ->
                Emitted(o) # <<>> => Len(Emitted(o)) = 1 /\ IsFold(Emitted(o)[1])
          [] OTHER ->
                \A j, k \in DOMAIN Emitted(o) :
                    j < k => Emitted(o)[j][1][2] < Emitted(o)[k][1][2]

\* An input is used up.
Drained(i) == i \in ended /\ read[i] = fed[i]

\* All that a combinator has to do for output o is done.
Complete(o) ==
    CASE op \in Copying ->
            /\ (\A i \in Ins : Drained(i)) \/ (op = "take" /\ read[1] = Limit)
            /\ \A i \in Ins : CameUpTo(i, read[i], o)
      [] op = "map" ->
            \/ (\E i \in Ins : Drained(i)) /\ Len(Emitted(o)) = read[2]
            \/ <<2, read[2]>> \in Fails /\ Len(Emitted(o)) = read[2] - 1
      [] op = "reduce" ->
            /\ Drained(1) \/ \E k \in 1..read[1] : <<1, k>> \in Fails
            /\ Len(Emitted(o)) = 1 /\ IsFold(Emitted(o)[1])
      [] OTHER -> Drained(1)

\* The outputs that are closed at the end.
Channels(S) == {t.ch : t \in S}
ToClose == Channels({t \in taps : t.close})

\* The end of an output is the truth: it is closed only when everything
\* has gone through - every input drained, n values taken, the shortest
\* input of map used up, or the function threw - and never because the
\* scope was cancelled; and a combinator that ends without being cancelled
\* has closed what it has to close.
EndMeansComplete ==
    /\ \A o \in closed : Complete(o)
    /\ ~scopeDone /\ op \notin {"mult", "pub"}
          /\ (\A w \in Workers : pc[w] = "returned")
       => closed = ToClose

\* No goroutine sends on a closed channel or closes one twice, which would
\* end the process: the goroutine that closes the output of merge waits for
\* those that send to it, and mult and pub close under the mutex.
NeverPanics == ~panicked

\* Once the inputs have ended, or the scope is cancelled, every goroutine
\* of the combinator returns.
StagesEnd ==
    (\A i \in Ins : i \in ended) \/ scopeDone
        ~> \A w \in Workers : pc[w] = "returned"
-----------------------------------------------------------------------------
(* The inductive strengthening of the safety properties.                   *)

\* The goroutine that closes the outputs.
Closer == IF op = "merge" THEN 0 ELSE 1

\* Which goroutine of which combinator can be where.
PlaceInv ==
    /\ \A w \in Workers \ Started(op) : pc[w] = "returned"
    /\ pc[0] \in {"count", "close", "returned"}
    /\ \A w \in Workers \ {0} : pc[w] # "count"
    /\ \A w \in Workers :
          /\ pc[w] = "signal" => op = "merge"
          /\ pc[w] \in {"lock", "pass"} => op \in {"mult", "pub"}
          /\ pc[w] = "send" => op \notin {"mult", "pub"}
          /\ pc[w] = "close" => w = Closer
          /\ pc[w] = "recv" /\ op = "map" => Len(hand[w]) < 2

\* A channel is a destination once; tap has the channel as the key.
TapInv ==
    /\ \A t, u \in taps : t.ch = u.ch => t = u
    /\ op = "mult" => \A t \in taps : t.key = t.ch
    /\ \A t \in taps : t.ch \in Dsts

\* An input of merge has been passed on to the end.
Through(i) == Drained(i) /\ CameUpTo(i, read[i], 1)

\* The goroutine that closes the output of merge has heard of those inputs
\* only that are through and whose goroutine has returned, and closes when
\* it has heard of both.
CountInv ==
    op = "merge" =>
        /\ \A w \in Inputs : pc[w] = "signal" => Through(w)
        /\ counted = 1 => \E w \in Inputs : pc[w] = "returned" /\ Through(w)
        /\ counted = 2 => \A w \in Inputs : pc[w] = "returned" /\ Through(w)
        /\ pc[0] = "count" => counted < 2
        /\ pc[0] = "close" => counted = 2

\* An output is closed by the closer, after the last send and when all is
\* done; what it has still to close is open.
ClosedInv ==
    /\ closed \subseteq Dsts
    /\ closed # {} => /\ pc[Closer] \in {"close", "returned"}
                      /\ op = "merge" => counted = 2
    /\ left # {} => pc[Closer] \in {"pass", "close"}
    /\ pc[Closer] = "close" =>
          /\ \A t \in left : t.ch \notin closed
          /\ closed \union Channels(left) = ToClose
    /\ pc[Closer] = "returned" /\ ~scopeDone /\ op \notin {"mult", "pub"}
          => closed = ToClose
    /\ pc[Closer] = "close" \/ closed # {} => \A o \in Dsts : Complete(o)

\* A copying goroutine holds the last value it received, and has passed on
\* all that came before.
CopyInv ==
    op \in Copying =>
        /\ \A o \in Dsts : CopiesInOrder(o)
        /\ \A i \in Ins :
              /\ pc[Reader(i)] = "send" =>
                    /\ read[i] > 0 /\ hand[Reader(i)] = <<<<i, read[i]>>>>
                    /\ \A o \in Dsts : ~InOutput(<<i, read[i]>>, o)
                                       /\ CameUpTo(i, read[i] - 1, o)
              /\ pc[Reader(i)] # "send" /\ (pc[Reader(i)] = "returned" => ~scopeDone)
                    => \A o \in Dsts : CameUpTo(i, read[i], o)

\* map has received as many from one input as from the other, but for the
\* value it holds.
MapInv ==
    op = "map" =>
        LET n == Len(Emitted(1))
        IN  /\ \A k \in 1..n : Emitted(1)[k] = <<<<1, k>>, <<2, k>>>>
            /\ pc[1] = "recv" => /\ hand[1] = <<>> \/ hand[1] = <<<<1, n + 1>>>>
                                 /\ read[1] = n + Len(hand[1]) /\ read[2] = n
            /\ pc[1] = "send" => /\ hand[1] = <<<<1, n + 1>>, <<2, n + 1>>>>
                                 /\ read[1] = n + 1 /\ read[2] = n + 1

\* reduce holds what it has received until it answers.
ReduceInv ==
    op = "reduce" =>
        /\ pc[1] = "recv" => /\ Emitted(1) = <<>> /\ Len(hand[1]) = read[1]
                             /\ IsFold(hand[1])
        /\ pc[1] = "send" => /\ Emitted(1) = <<>> /\ IsFold(hand[1])
                             /\ Drained(1) \/ \E k \in 1..read[1] : <<1, k>> \in Fails
        /\ Emitted(1) # <<>> => Len(Emitted(1)) = 1 /\ IsFold(Emitted(1)[1])
                                /\ pc[1] \in {"close", "returned"}

\* mult and pub offer the last value they received, to a destination once.
OfferInv ==
    op \in {"mult", "pub"} =>
        /\ \A o \in Outs :
              /\ \A n \in DOMAIN Emitted(o) :
                    \E k \in 1..read[1] : Emitted(o)[n] = <<<<1, k>>>>
              /\ \A j, k \in DOMAIN Emitted(o) :
                    j < k => Emitted(o)[j][1][2] < Emitted(o)[k][1][2]
        /\ pc[1] = "recv" => hand[1] = <<>>
        /\ pc[1] = "lock" => hand[1] = <<>> \/ hand[1] = <<<<1, read[1]>>>>
        /\ pc[1] = "lock" /\ hand[1] = <<>> => Drained(1)
        /\ pc[1] = "pass" => hand[1] = <<<<1, read[1]>>>>
        /\ \A o \in Outs :
              /\ \/ pc[1] = "lock" /\ hand[1] # <<>>
                 \/ pc[1] = "pass" /\ \E t \in left : t.ch = o
              => \A k \in DOMAIN Emitted(o) : Emitted(o)[k][1][2] < read[1]

CombInv ==
    /\ CombTypeOK /\ PlaceInv /\ TapInv /\ CountInv /\ ClosedInv
    /\ CopyInv /\ MapInv /\ ReduceInv /\ OfferInv /\ NeverPanics
=============================================================================
