--------------------------- MODULE VarRootsProofs ----------------------------
(***************************************************************************)
(* Proofs about VarRoots: its types, the deviation counter and what        *)
(* lowered code sees of an override, for any number of threads and vars.   *)
(***************************************************************************)
EXTENDS VarRoots, FiniteSetTheorems, TLAPS

\* A sequence is empty when its length is zero.
LEMMA EmptyLen ==
    ASSUME NEW S, NEW s \in Seq(S)
    PROVE  s = <<>> <=> Len(s) = 0
  OBVIOUS

\* SubSeq(s, 1, Len(s) - 1) is s without its last element.
LEMMA ButLast ==
    ASSUME NEW S, NEW s \in Seq(S)
    PROVE  /\ SubSeq(s, 1, Len(s) - 1) \in Seq(S)
           /\ s # <<>> => /\ Len(SubSeq(s, 1, Len(s) - 1)) = Len(s) - 1
                          /\ \A i \in 1..Len(s) - 1 : SubSeq(s, 1, Len(s) - 1)[i] = s[i]
<1>1. CASE s = <<>>
  <2>1. SubSeq(s, 1, Len(s) - 1) = <<>>
    BY <1>1
  <2> QED  BY <2>1, <1>1
<1>2. CASE s # <<>>
  <2>1. Len(s) \in Nat /\ Len(s) > 0
    BY <1>2
  <2>2. 1 \in 1..Len(s) + 1 /\ Len(s) - 1 \in 0..Len(s)
    BY <2>1
  <2>3. /\ SubSeq(s, 1, Len(s) - 1) \in Seq(S)
        /\ Len(SubSeq(s, 1, Len(s) - 1)) = Len(s) - 1
    BY <2>1, <2>2
  <2>4. \A i \in 1..Len(s) - 1 : SubSeq(s, 1, Len(s) - 1)[i] = s[i]
    BY <2>1, <2>2
  <2> QED  BY <2>3, <2>4
<1> QED  BY <1>1, <1>2

\* The fields of an open with-redefs, and of any frame.
LEMMA RedefsFrame ==
    ASSUME NEW f \in Frames
    PROVE  /\ f.vs \in Seq(Vars) /\ f.vs # <<>>
           /\ f.form = "redefs" =>
                /\ f \in [form : {"redefs"}, vs : Redefs, vals : Seq(Values)]
                /\ f.vs \in Redefs /\ f.vals \in Seq(Values)
<1>1. CASE f \in [form : {"redefs"}, vs : Redefs, vals : Seq(Values)]
  BY <1>1, VarRootsConstants
<1>2. CASE f \in [form : {"binding"}, vs : {<<v>> : v \in Vars}, vals : {<<>>}]
  <2>1. PICK v \in Vars : f.vs = <<v>>
    BY <1>2
  <2>2. <<v>> \in Seq(Vars) /\ <<v>> # <<>> /\ f.form = "binding"
    BY <1>2
  <2> QED  BY <2>1, <2>2
<1> QED  BY <1>1, <1>2 DEF Frames

\* Capturing one more root keeps the frames well typed, and changes nothing
\* but the captured values of the innermost frame.
LEMMA CaptureFrame ==
    ASSUME NEW t \in Threads, frames \in [Threads -> Seq(Frames)], frames[t] # <<>>,
           Top(t).form = "redefs", NEW x \in Values,
           frames' = [frames EXCEPT ![t][Len(frames[t])].vals = Append(@, x)]
    PROVE  /\ frames' \in [Threads -> Seq(Frames)]
           /\ \A u \in Threads \ {t} : frames'[u] = frames[u]
           /\ Len(frames'[t]) = Len(frames[t])
           /\ \A i \in 1..Len(frames[t]) :
                /\ frames'[t][i].form = frames[t][i].form /\ frames'[t][i].vs = frames[t][i].vs
                /\ i # Len(frames[t]) => frames'[t][i] = frames[t][i]
           /\ Len(frames'[t][Len(frames[t])].vals) = Len(Top(t).vals) + 1
           /\ frames'[t][Len(frames[t])].vals = Append(Top(t).vals, x)
<1>1. Top(t) \in Frames /\ Len(frames[t]) \in 1..Len(frames[t])
  BY DEF Top
<1> DEFINE g == [Top(t) EXCEPT !.vals = Append(@, x)]
<1>2. /\ g \in Frames
      /\ g.form = Top(t).form /\ g.vs = Top(t).vs /\ Len(g.vals) = Len(Top(t).vals) + 1
      /\ g.vals = Append(Top(t).vals, x)
  <2>1. /\ Top(t) \in [form : {"redefs"}, vs : Redefs, vals : Seq(Values)]
        /\ Top(t).vals \in Seq(Values)
    BY <1>1, RedefsFrame
  <2>2. /\ Append(Top(t).vals, x) \in Seq(Values)
        /\ Len(Append(Top(t).vals, x)) = Len(Top(t).vals) + 1
    BY <2>1
  <2>3. g \in [form : {"redefs"}, vs : Redefs, vals : Seq(Values)]
    BY <2>1, <2>2
  <2>4. g.form = Top(t).form /\ g.vs = Top(t).vs /\ g.vals = Append(Top(t).vals, x)
    BY <2>1
  <2> QED  BY <2>2, <2>3, <2>4 DEF Frames
<1> DEFINE q == [frames[t] EXCEPT ![Len(frames[t])] = g]
<1>4. frames' = [frames EXCEPT ![t] = q]
  BY DEF Top
<1> HIDE DEF g
<1>3. /\ q \in Seq(Frames) /\ Len(q) = Len(frames[t])
      /\ \A i \in 1..Len(frames[t]) : q[i] = IF i = Len(frames[t]) THEN g ELSE frames[t][i]
  BY <1>2
<1> HIDE DEF q
<1> QED  BY <1>1, <1>2, <1>3, <1>4 DEF Top

-----------------------------------------------------------------------------
\* The types and the local state of the threads are inductive.
LEMMA LocalInit == Init => TypeOK /\ LocalInv
<1> SUFFICES ASSUME Init PROVE TypeOK /\ LocalInv
  OBVIOUS
<1>1. Canon \in Values
  BY DEF Values
<1>2. /\ root \in [Vars -> Values] /\ base \in [Vars -> Values]
      /\ flag \in [Vars -> BOOLEAN] /\ deviations \in Int
      /\ watched \subseteq Vars /\ contended \subseteq Vars /\ dirty \subseteq Vars
  BY <1>1 DEF Init
<1>3. /\ chain \in [Vars -> Seq(Values)] /\ todo \in [Threads -> Seq(Vars \X Values)]
      /\ frames \in [Threads -> Seq(Frames)]
  <2>1. <<>> \in Seq(Values) /\ <<>> \in Seq(Vars \X Values) /\ <<>> \in Seq(Frames)
    OBVIOUS
  <2> QED  BY <2>1 DEF Init
<1>4. /\ pc \in [Threads -> PCs] /\ kind \in [Threads -> Kinds]
      /\ ops \in [Threads -> 0..MaxOps]
  BY VarRootsConstants DEF Init, PCs, Kinds
<1>5. LocalInv
  <2> SUFFICES ASSUME NEW t \in Threads PROVE LocalOK(t)
    BY DEF LocalInv
  <2>1. /\ pc[t] = "run" /\ kind[t] = "none" /\ todo[t] = <<>> /\ frames[t] = <<>>
        /\ Len(frames[t]) = 0
    BY DEF Init
  <2> QED  BY <2>1, VarRootsConstants DEF LocalOK
<1> QED  BY <1>2, <1>3, <1>4, <1>5 DEF TypeOK

\* Only the thread that steps has a new local state.
LEMMA LocalFrame ==
    ASSUME LocalInv, NEW t \in Threads, LocalOK(t)',
           \A u \in Threads \ {t} : /\ pc'[u] = pc[u] /\ kind'[u] = kind[u]
                                    /\ todo'[u] = todo[u] /\ frames'[u] = frames[u]
    PROVE  LocalInv'
<1> SUFFICES ASSUME NEW u \in Threads, u # t PROVE LocalOK(u)'
  BY DEF LocalInv
<1>1. LocalOK(u)
  BY DEF LocalInv
<1> QED  BY <1>1 DEF LocalOK, Top

LEMMA SetOrAlterLocal ==
    ASSUME TypeOK, LocalInv, NEW t \in Threads, NEW v \in Vars, SetOrAlter(t, v)
    PROVE  TypeOK' /\ LocalInv'
<1>1. LocalOK(t)
  BY DEF LocalInv
<1>2. PICK k \in {"set", "alter"}, x \in {Canon, <<t, Len(frames[t])>>} :
        Begin(t, k, <<<<v, x>>>>)
  BY DEF SetOrAlter
<1>3. x \in Values
  BY <1>1, <1>2, VarRootsConstants DEF Values, LocalOK, TypeOK
<1>4. <<<<v, x>>>> \in Seq(Vars \X Values) /\ <<<<v, x>>>> # <<>>
  BY <1>3
<1>5. TypeOK'
  BY <1>2, <1>4, VarRootsConstants
  DEF TypeOK, SetOrAlter, Starts, Begin, PCs, Kinds, varVars, Contends, Elems
<1>6. LocalOK(t)'
  BY <1>1, <1>2, <1>4 DEF TypeOK, LocalOK, SetOrAlter, Starts, Begin, Top, varVars
<1> QED  BY <1>2, <1>5, <1>6, LocalFrame DEF SetOrAlter, Begin, TypeOK, varVars

\* The store that a thread is making.
LEMMA HeadTodo ==
    ASSUME TypeOK, LocalInv, NEW t \in Threads, pc[t] \in {"store", "swap", "add", "notify"}
    PROVE  /\ todo[t] \in Seq(Vars \X Values) /\ todo[t] # <<>> /\ Len(todo[t]) > 0
           /\ Head(todo[t]) = todo[t][1] /\ Head(todo[t]) \in Vars \X Values
           /\ Head(todo[t])[1] \in Vars /\ Head(todo[t])[2] \in Values
  BY DEF TypeOK, LocalInv, LocalOK

LEMMA StoreLocal ==
    ASSUME TypeOK, LocalInv, NEW t \in Threads, Store(t)
    PROVE  TypeOK' /\ LocalInv'
<1>1. Head(todo[t])[1] \in Vars /\ Head(todo[t])[2] \in Values
  BY HeadTodo DEF Store
<1>2. TypeOK'
  BY <1>1 DEF TypeOK, Store, PCs
<1>3. LocalOK(t)'
  BY DEF TypeOK, Store, LocalInv, LocalOK, Top
<1> QED  BY <1>2, <1>3, LocalFrame DEF Store, TypeOK

LEMMA SwapFlagLocal ==
    ASSUME TypeOK, LocalInv, NEW t \in Threads, SwapFlag(t)
    PROVE  TypeOK' /\ LocalInv'
<1>1. Head(todo[t])[1] \in Vars
  BY HeadTodo DEF SwapFlag
<1>2. TypeOK'
  BY <1>1 DEF TypeOK, SwapFlag, PCs, history
<1>3. LocalOK(t)'
  BY DEF TypeOK, SwapFlag, LocalInv, LocalOK, Top
<1> QED  BY <1>2, <1>3, LocalFrame DEF SwapFlag, TypeOK

LEMMA AddDeviationLocal ==
    ASSUME TypeOK, LocalInv, NEW t \in Threads, AddDeviation(t)
    PROVE  TypeOK' /\ LocalInv'
<1>2. TypeOK'
  BY DEF TypeOK, AddDeviation, PCs, history
<1>3. LocalOK(t)'
  BY DEF TypeOK, AddDeviation, LocalInv, LocalOK, Top
<1> QED  BY <1>2, <1>3, LocalFrame DEF AddDeviation, TypeOK

\* Leaving the innermost form of a thread.
LEMMA OuterFrames ==
    ASSUME TypeOK, LocalInv, NEW t \in Threads, frames[t] # <<>>
    PROVE  /\ Outer(t) \in Seq(Frames) /\ Len(Outer(t)) = Len(frames[t]) - 1
           /\ Len(frames[t]) \in Nat /\ Len(frames[t]) > 0
           /\ \A i \in 1..Len(frames[t]) - 1 : Outer(t)[i] = frames[t][i]
           /\ Len(Outer(t)) <= MaxDepth
           /\ \A i \in 1..Len(Outer(t)) : Outer(t)[i].form = "redefs" =>
                  Len(Outer(t)[i].vals) = Len(Outer(t)[i].vs)
           /\ [frames EXCEPT ![t] = Outer(t)] \in [Threads -> Seq(Frames)]
<1>1. frames[t] \in Seq(Frames) /\ Len(frames[t]) \in Nat /\ Len(frames[t]) > 0
  BY DEF TypeOK
<1>2. /\ Outer(t) \in Seq(Frames) /\ Len(Outer(t)) = Len(frames[t]) - 1
      /\ \A i \in 1..Len(frames[t]) - 1 : Outer(t)[i] = frames[t][i]
  BY <1>1, ButLast DEF Outer
<1>3. LocalOK(t)
  BY DEF LocalInv
<1>4. Len(frames[t]) - 1 <= MaxDepth
  BY <1>1, <1>3, VarRootsConstants DEF LocalOK
<1>5. \A i \in 1..Len(frames[t]) - 1 : frames[t][i].form = "redefs" =>
          Len(frames[t][i].vals) = Len(frames[t][i].vs)
  BY <1>1, <1>3 DEF LocalOK
<1>6. [frames EXCEPT ![t] = Outer(t)] \in [Threads -> Seq(Frames)]
  BY <1>2 DEF TypeOK
<1> QED  BY <1>1, <1>2, <1>4, <1>5, <1>6

LEMMA StoredLocal ==
    ASSUME TypeOK, LocalInv, NEW t \in Threads, Stored(t)
    PROVE  TypeOK' /\ LocalInv'
<1>1. /\ todo[t] \in Seq(Vars \X Values) /\ todo[t] # <<>> /\ LocalOK(t)
      /\ Tail(todo[t]) \in Seq(Vars \X Values) /\ Len(Tail(todo[t])) = Len(todo[t]) - 1
      /\ Len(todo[t]) \in Nat
  BY HeadTodo DEF Stored, LocalInv
<1>2. CASE Len(todo[t]) = 1 /\ kind[t] = "leave"
  <2>1. frames[t] # <<>> /\ frames' = [frames EXCEPT ![t] = Outer(t)]
    BY <1>1, <1>2 DEF LocalOK, Stored
  <2>2. TypeOK'
    <3>1. frames' \in [Threads -> Seq(Frames)]
      BY <2>1, OuterFrames
    <3> QED  BY <1>1, <3>1 DEF TypeOK, Stored, PCs, Kinds, varVars, history
  <2>3. /\ pc'[t] = "run" /\ kind'[t] = "none" /\ frames'[t] = Outer(t)
        /\ todo'[t] = <<>>
    <3>1. Tail(todo[t]) = <<>>
      <4>1. Len(Tail(todo[t])) = 0
        BY <1>1, <1>2
      <4> QED  BY <1>1, <4>1, EmptyLen
    <3> QED  BY <1>2, <2>1, <3>1 DEF TypeOK, Stored
  <2>4. LocalOK(t)'
    BY <2>1, <2>3, OuterFrames DEF LocalOK
  <2> QED  BY <2>1, <2>2, <2>4, LocalFrame DEF Stored, TypeOK
<1>3. CASE ~(Len(todo[t]) = 1 /\ kind[t] = "leave")
  <2>1. frames' = frames
    BY <1>3 DEF Stored
  <2>2. TypeOK'
    BY <1>1, <2>1 DEF TypeOK, Stored, PCs, Kinds, varVars, history
  <2>3. LocalOK(t)'
    <3>1. todo'[t] = Tail(todo[t])
      BY DEF TypeOK, Stored
    <3>2. CASE Len(todo[t]) > 1
      <4>1. pc'[t] = "store" /\ kind'[t] = kind[t] /\ pc[t] = "notify"
        BY <3>2 DEF TypeOK, Stored
      <4>3. todo'[t] # <<>>
        <5>1. Len(todo'[t]) = Len(todo[t]) - 1
          BY <1>1, <3>1
        <5>2. Len(todo'[t]) > 0
          BY <1>1, <3>2, <5>1
        <5> SUFFICES ASSUME todo'[t] = <<>> PROVE FALSE
          OBVIOUS
        <5>3. Len(todo'[t]) = 0
          OBVIOUS
        <5> QED  BY <5>2, <5>3
      <4>2. kind[t] # "none" /\ pc[t] # "capture" /\ Top(t)' = Top(t)
        BY <1>1, <2>1, <4>1 DEF LocalOK, Top
      <4> QED  BY <1>1, <2>1, <4>1, <4>2, <4>3 DEF LocalOK
    <3>3. CASE ~(Len(todo[t]) > 1)
      <4>1. pc'[t] = "run" /\ kind'[t] = "none" /\ pc[t] = "notify" /\ todo'[t] = <<>>
        BY <1>1, <3>1, <3>3 DEF TypeOK, Stored
      <4> QED  BY <1>1, <2>1, <4>1 DEF LocalOK, Top
    <3> QED  BY <3>2, <3>3
  <2> QED  BY <2>1, <2>2, <2>3, LocalFrame DEF Stored, TypeOK
<1> QED  BY <1>2, <1>3

LEMMA WatchThrowsLocal ==
    ASSUME TypeOK, LocalInv, NEW t \in Threads, WatchThrows(t)
    PROVE  TypeOK' /\ LocalInv'
<1>1. LocalOK(t) /\ pc[t] = "notify" /\ kind[t] # "none"
  BY DEF WatchThrows, LocalInv, LocalOK
<1>2. pc'[t] = "run" /\ kind'[t] = "none" /\ todo'[t] = <<>>
  BY DEF WatchThrows, TypeOK
<1>3. CASE kind[t] = "alter"
  <2>1. TypeOK'
    BY <1>3 DEF TypeOK, WatchThrows, PCs, Kinds, varVars
  <2>2. LocalOK(t)'
    BY <1>1, <1>2, <1>3 DEF LocalOK, WatchThrows, Top
  <2> QED  BY <1>3, <2>1, <2>2, LocalFrame DEF WatchThrows, TypeOK
<1>4. CASE kind[t] # "alter"
  <2>1. kind[t] \in {"enter", "leave"} /\ frames[t] # <<>>
    BY <1>1, <1>4 DEF TypeOK, Kinds, WatchThrows, LocalOK
  <2>2. frames' = [frames EXCEPT ![t] = Outer(t)] /\ dirty' = dirty \union Elems(Top(t).vs)
    BY <1>4 DEF WatchThrows
  <2>3. Elems(Top(t).vs) \subseteq Vars
    <3>1. Top(t) \in Frames
      BY <2>1 DEF TypeOK, Top
    <3> QED  BY <3>1, RedefsFrame DEF Elems
  <2>4. TypeOK'
    <3>1. frames' \in [Threads -> Seq(Frames)]
      BY <2>1, <2>2, OuterFrames
    <3>2. dirty' \subseteq Vars
      BY <2>2, <2>3 DEF TypeOK
    <3>3. todo' \in [Threads -> Seq(Vars \X Values)]
      BY DEF TypeOK, WatchThrows
    <3> QED  BY <3>1, <3>2, <3>3 DEF TypeOK, WatchThrows, PCs, Kinds, varVars
  <2>5. frames'[t] = Outer(t)
    BY <2>2 DEF TypeOK
  <2>6. LocalOK(t)'
    BY <1>2, <2>1, <2>5, OuterFrames DEF LocalOK
  <2> QED  BY <2>2, <2>4, <2>6, LocalFrame DEF WatchThrows, TypeOK
<1> QED  BY <1>3, <1>4

\* Opening a form.
LEMMA OpenFrame ==
    ASSUME TypeOK, LocalInv, NEW t \in Threads, NEW f \in Frames, Len(frames[t]) < MaxDepth,
           frames' = [frames EXCEPT ![t] = Append(@, f)]
    PROVE  /\ frames' \in [Threads -> Seq(Frames)]
           /\ frames'[t] # <<>> /\ Len(frames'[t]) = Len(frames[t]) + 1
           /\ Len(frames'[t]) <= MaxDepth /\ Len(frames[t]) \in Nat
           /\ frames'[t][Len(frames'[t])] = f
           /\ \A i \in 1..Len(frames[t]) : frames'[t][i] = frames[t][i]
           /\ \A u \in Threads \ {t} : frames'[u] = frames[u]
<1>1. frames[t] \in Seq(Frames) /\ Len(frames[t]) \in Nat
  BY DEF TypeOK
<1>2. frames'[t] = Append(frames[t], f)
  BY DEF TypeOK
<1>3. /\ Append(frames[t], f) \in Seq(Frames) /\ Append(frames[t], f) # <<>>
      /\ Len(Append(frames[t], f)) = Len(frames[t]) + 1
      /\ Append(frames[t], f)[Len(frames[t]) + 1] = f
      /\ \A i \in 1..Len(frames[t]) : Append(frames[t], f)[i] = frames[t][i]
  BY <1>1
<1> QED  BY <1>1, <1>2, <1>3, VarRootsConstants DEF TypeOK

LEMMA WithRedefsLocal ==
    ASSUME TypeOK, LocalInv, NEW t \in Threads, NEW vs \in Redefs, WithRedefs(t, vs)
    PROVE  TypeOK' /\ LocalInv'
<1> DEFINE f == [form |-> "redefs", vs |-> vs, vals |-> <<>>]
<1>1. f \in Frames /\ vs \in Seq(Vars) /\ vs # <<>> /\ Len(vs) > 0
  BY VarRootsConstants DEF Frames
<1>2. /\ frames' = [frames EXCEPT ![t] = Append(@, f)] /\ Len(frames[t]) < MaxDepth
      /\ f.form = "redefs" /\ f.vs = vs /\ f.vals = <<>> /\ Len(f.vals) = 0
  BY DEF WithRedefs
<1> HIDE DEF f
<1>3. Contends(t, vs) \subseteq Vars
  BY <1>1 DEF Contends, Elems
<1>4. TypeOK'
  <2>1. frames' \in [Threads -> Seq(Frames)]
    BY <1>1, <1>2, OpenFrame
  <2>2. ops' \in [Threads -> 0..MaxOps]
    <3>1. ops[t] + 1 \in 0..MaxOps
      BY VarRootsConstants DEF TypeOK, WithRedefs, Starts
    <3> QED  BY <3>1 DEF TypeOK, WithRedefs, Starts
  <2>3. contended' \subseteq Vars
    BY <1>3 DEF TypeOK, WithRedefs
  <2> QED  BY <2>1, <2>2, <2>3 DEF TypeOK, WithRedefs, Starts, PCs, varVars
<1>5. /\ pc'[t] = "capture" /\ pc[t] = "run" /\ kind'[t] = "none" /\ todo'[t] = <<>>
      /\ LocalOK(t)
  BY DEF WithRedefs, Starts, TypeOK, LocalInv, LocalOK
<1>6. /\ frames'[t] # <<>> /\ Len(frames'[t]) = Len(frames[t]) + 1 /\ Len(frames[t]) \in Nat
      /\ Len(frames'[t]) <= MaxDepth
      /\ frames'[t][Len(frames'[t])] = f
      /\ \A i \in 1..Len(frames[t]) : frames'[t][i] = frames[t][i]
  BY <1>1, <1>2, OpenFrame
<1>7. LocalOK(t)'
  BY <1>1, <1>2, <1>5, <1>6 DEF LocalOK, Top
<1> QED  BY <1>1, <1>2, <1>4, <1>7, OpenFrame, LocalFrame DEF WithRedefs, Starts, TypeOK

\* The stores Begin is given by with-redefs are well typed.
LEMMA RedefsPairs ==
    ASSUME TypeOK, LocalInv, NEW t \in Threads, frames[t] # <<>>, Top(t).form = "redefs",
           NEW g, \A i \in 1..Len(Top(t).vs) : g[i] \in Values
    PROVE  LET ps == [i \in 1..Len(Top(t).vs) |-> <<Top(t).vs[i], g[i]>>]
           IN  /\ ps \in Seq(Vars \X Values) /\ ps # <<>> /\ Len(ps) = Len(Top(t).vs)
               /\ \A i \in 1..Len(ps) : ps[i][1] = Top(t).vs[i] /\ ps[i][2] = g[i]
<1>1. Top(t) \in Frames
  BY DEF TypeOK, Top
<1>2. Top(t).vs \in Seq(Vars) /\ Top(t).vs # <<>>
  BY <1>1, RedefsFrame
<1> DEFINE ps == [i \in 1..Len(Top(t).vs) |-> <<Top(t).vs[i], g[i]>>]
<1>3. Len(Top(t).vs) \in Nat /\ Len(Top(t).vs) > 0
      /\ \A i \in 1..Len(Top(t).vs) : Top(t).vs[i] \in Vars
  BY <1>2
<1>4. ps \in Seq(Vars \X Values) /\ Len(ps) = Len(Top(t).vs)
  BY <1>3
<1>5. \A i \in 1..Len(ps) : ps[i][1] = Top(t).vs[i] /\ ps[i][2] = g[i]
  BY <1>4
<1>6. ps # <<>>
  BY <1>3, <1>4
<1> QED  BY <1>4, <1>5, <1>6

LEMMA CaptureLocal ==
    ASSUME TypeOK, LocalInv, NEW t \in Threads, Capture(t)
    PROVE  /\ TypeOK' /\ LocalInv'
           /\ \A u \in Threads \ {t} : frames'[u] = frames[u] /\ todo'[u] = todo[u]
           /\ Len(frames'[t]) = Len(frames[t])
           /\ \A i \in 1..Len(frames[t]) :
                frames'[t][i].form = frames[t][i].form /\ frames'[t][i].vs = frames[t][i].vs
           /\ \/ todo'[t] = todo[t]
              \/ /\ Len(todo'[t]) = Len(Top(t).vs)
                 /\ \A i \in 1..Len(todo'[t]) : todo'[t][i][1] = Top(t).vs[i]
           /\ \A i \in 1..Len(frames[t]) - 1 : frames'[t][i] = frames[t][i]
           /\ LET f == Top(t)
              IN  /\ f.vals \in Seq(Values) /\ Len(f.vals) < Len(f.vs)
                  /\ frames'[t][Len(frames[t])].vals
                        = Append(f.vals, Deref(f.vs[Len(f.vals) + 1]))
<1> DEFINE f == Top(t)  v == f.vs[Len(f.vals) + 1]
<1>1. /\ LocalOK(t) /\ pc[t] = "capture" /\ frames[t] # <<>> /\ f.form = "redefs"
      /\ Len(f.vals) < Len(f.vs)
  BY DEF Capture, LocalInv, LocalOK
<1>2. f \in Frames /\ Len(frames[t]) \in Nat /\ Len(frames[t]) > 0
  BY <1>1 DEF TypeOK, Top
<1>3. f.vs \in Seq(Vars) /\ f.vals \in Seq(Values) /\ Len(f.vs) \in Nat /\ Len(f.vals) \in Nat
  BY <1>1, <1>2, RedefsFrame
<1>4. v \in Vars
  BY <1>1, <1>3
<1>5. Deref(v) \in Values
  BY <1>4 DEF Deref, TypeOK
<1>6. frames' = [frames EXCEPT ![t][Len(frames[t])].vals = Append(@, Deref(v))]
  BY DEF Capture
<1>7. /\ frames' \in [Threads -> Seq(Frames)]
      /\ \A u \in Threads \ {t} : frames'[u] = frames[u]
      /\ Len(frames'[t]) = Len(frames[t])
      /\ \A i \in 1..Len(frames[t]) :
           /\ frames'[t][i].form = frames[t][i].form /\ frames'[t][i].vs = frames[t][i].vs
           /\ i # Len(frames[t]) => frames'[t][i] = frames[t][i]
      /\ Len(frames'[t][Len(frames[t])].vals) = Len(f.vals) + 1
      /\ frames'[t][Len(frames[t])].vals = Append(f.vals, Deref(v))
  <2>1. frames \in [Threads -> Seq(Frames)]
    BY DEF TypeOK
  <2>2. PICK x \in Values : x = Deref(v)
    BY <1>5
  <2>3. frames' = [frames EXCEPT ![t][Len(frames[t])].vals = Append(@, x)]
    BY <1>6, <2>2
  <2>4. Top(t).form = "redefs" /\ frames[t] # <<>>
    BY <1>1
  <2> HIDE DEF f, v
  <2>5. frames'[t][Len(frames[t])].vals = Append(Top(t).vals, x)
    BY <2>1, <2>3, <2>4, CaptureFrame
  <2> QED  BY <2>1, <2>2, <2>3, <2>4, <2>5, CaptureFrame DEF f
<1>8. dirty' \subseteq Vars
  BY <1>4 DEF Capture, TypeOK
<1>9. /\ Top(t)' = frames'[t][Len(frames[t])] /\ Top(t)'.form = "redefs" /\ Top(t)'.vs = f.vs
      /\ Len(Top(t)'.vals) = Len(f.vals) + 1 /\ frames'[t] # <<>>
  <2>1. frames'[t] # <<>>
    BY <1>2, <1>7, EmptyLen
  <2> QED  BY <1>1, <1>2, <1>7, <2>1 DEF Top
<1>10. \A i \in 1..Len(frames[t]) : i < Len(frames[t]) /\ frames'[t][i].form = "redefs" =>
           Len(frames'[t][i].vals) = Len(frames'[t][i].vs)
  BY <1>1, <1>2, <1>7 DEF LocalOK
<1>11. CASE Len(f.vals) + 1 < Len(f.vs)
  <2>1. UNCHANGED <<pc, kind, todo>>
    BY <1>11 DEF Capture
  <2>2. TypeOK'
    BY <1>7, <1>8, <2>1 DEF TypeOK, Capture, varVars
  <2>3. LocalOK(t)'
    BY <1>1, <1>7, <1>9, <1>10, <1>11, <2>1 DEF LocalOK
  <2>4. LocalInv'
    BY <1>7, <2>1, <2>3, LocalFrame
  <2> QED  BY <1>1, <1>2, <1>3, <1>7, <2>1, <2>2, <2>4
<1>12. CASE ~(Len(f.vals) + 1 < Len(f.vs))
  <2> DEFINE x == <<t, Len(frames[t])>>
             ps == [i \in 1..Len(f.vs) |-> <<f.vs[i], x>>]
  <2>1. Begin(t, "enter", ps)
    BY <1>12 DEF Capture
  <2>2. x \in Values
    BY <1>1, <1>2, VarRootsConstants DEF Values, LocalOK
  <2>3. /\ ps \in Seq(Vars \X Values) /\ ps # <<>> /\ Len(ps) = Len(f.vs)
        /\ \A i \in 1..Len(ps) : ps[i][1] = f.vs[i]
    <3> DEFINE g == [i \in 1..Len(f.vs) |-> x]
    <3>1. \A i \in 1..Len(f.vs) : g[i] \in Values
      BY <2>2
    <3>2. ps = [i \in 1..Len(f.vs) |-> <<f.vs[i], g[i]>>]
      OBVIOUS
    <3> HIDE DEF g, x
    <3> QED  BY <1>1, <3>1, <3>2, RedefsPairs
  <2> HIDE DEF ps
  <2>4. TypeOK'
    BY <1>7, <1>8, <2>1, <2>3 DEF TypeOK, Capture, Begin, varVars, PCs, Kinds
  <2>5. /\ pc'[t] = "store" /\ kind'[t] = "enter" /\ todo'[t] = ps
        /\ \A u \in Threads \ {t} :
              pc'[u] = pc[u] /\ kind'[u] = kind[u] /\ todo'[u] = todo[u]
    BY <2>1 DEF Begin, TypeOK
  <2>6. Len(f.vals) + 1 = Len(f.vs)
    BY <1>1, <1>3, <1>12
  <2>7. LocalOK(t)'
    BY <1>1, <1>2, <1>7, <1>9, <1>10, <2>3, <2>5, <2>6 DEF LocalOK
  <2>8. LocalInv'
    BY <1>7, <2>5, <2>7, LocalFrame
  <2> QED  BY <1>1, <1>2, <1>3, <1>7, <2>3, <2>4, <2>5, <2>8
<1> QED  BY <1>11, <1>12

LEMMA RestoreLocal ==
    ASSUME TypeOK, LocalInv, NEW t \in Threads, Restore(t)
    PROVE  /\ TypeOK' /\ LocalInv'
           /\ Len(todo'[t]) = Len(Top(t).vs)
           /\ \A i \in 1..Len(todo'[t]) :
                 todo'[t][i][1] = Top(t).vs[i] /\ todo'[t][i][2] = Top(t).vals[i]
<1> DEFINE f == Top(t)
           ps == [i \in 1..Len(f.vs) |-> <<f.vs[i], f.vals[i]>>]
<1>1. /\ LocalOK(t) /\ pc[t] = "run" /\ frames[t] # <<>> /\ f.form = "redefs"
      /\ Begin(t, "leave", ps) /\ UNCHANGED <<varVars, chain, ops, frames, history>>
  BY DEF Restore, LocalInv
<1>2. f \in Frames /\ Len(frames[t]) \in Nat /\ Len(frames[t]) > 0
  BY <1>1 DEF TypeOK, Top
<1>3. f.vals \in Seq(Values) /\ Len(f.vals) = Len(f.vs)
  <2>1. f.vals \in Seq(Values)
    BY <1>1, <1>2, RedefsFrame
  <2>2. /\ pc[t] # "capture" /\ Len(frames[t]) \in 1..Len(frames[t])
        /\ f = frames[t][Len(frames[t])]
    BY <1>1, <1>2 DEF Top
  <2>3. Len(frames[t][Len(frames[t])].vals) = Len(frames[t][Len(frames[t])].vs)
    BY <1>1, <2>2 DEF LocalOK
  <2> QED  BY <2>1, <2>2, <2>3
<1>4. \A i \in 1..Len(f.vs) : f.vals[i] \in Values
  BY <1>3
<1>5. /\ ps \in Seq(Vars \X Values) /\ ps # <<>> /\ Len(ps) = Len(f.vs)
      /\ \A i \in 1..Len(ps) : ps[i][1] = f.vs[i] /\ ps[i][2] = f.vals[i]
  BY <1>1, <1>4, RedefsPairs
<1> HIDE DEF ps
<1>6. TypeOK'
  BY <1>1, <1>5 DEF TypeOK, Begin, varVars, history, PCs, Kinds
<1>7. /\ pc'[t] = "store" /\ kind'[t] = "leave" /\ todo'[t] = ps
      /\ \A u \in Threads \ {t} :
            pc'[u] = pc[u] /\ kind'[u] = kind[u] /\ todo'[u] = todo[u]
  BY <1>1 DEF Begin, TypeOK
<1>8. Top(t)' = Top(t) /\ frames' = frames
  BY <1>1 DEF Top
<1>9. LocalOK(t)'
  BY <1>1, <1>5, <1>7, <1>8 DEF LocalOK
<1> QED  BY <1>5, <1>6, <1>7, <1>8, <1>9, LocalFrame

LEMMA PushBindingLocal ==
    ASSUME TypeOK, LocalInv, NEW t \in Threads, NEW v \in Bindable, PushBinding(t, v)
    PROVE  TypeOK' /\ LocalInv'
<1> DEFINE f == [form |-> "binding", vs |-> <<v>>, vals |-> <<>>]
<1>1. f \in Frames /\ f.form = "binding" /\ v \in Vars
  BY VarRootsConstants DEF Frames
<1>2. frames' = [frames EXCEPT ![t] = Append(@, f)] /\ Len(frames[t]) < MaxDepth
  BY DEF PushBinding
<1> HIDE DEF f
<1>3. /\ frames' \in [Threads -> Seq(Frames)]
      /\ frames'[t] # <<>> /\ Len(frames'[t]) = Len(frames[t]) + 1 /\ Len(frames[t]) \in Nat
      /\ Len(frames'[t]) <= MaxDepth /\ frames'[t][Len(frames'[t])] = f
      /\ \A i \in 1..Len(frames[t]) : frames'[t][i] = frames[t][i]
      /\ \A u \in Threads \ {t} : frames'[u] = frames[u]
  BY <1>1, <1>2, OpenFrame
<1>4. chain' \in [Vars -> Seq(Values)]
  <2>1. <<t, Len(frames[t]) + 1>> \in Values
    BY <1>2, <1>3, VarRootsConstants DEF Values
  <2>2. Append(chain[v], <<t, Len(frames[t]) + 1>>) \in Seq(Values)
    BY <1>1, <2>1 DEF TypeOK
  <2> QED  BY <2>2 DEF TypeOK, PushBinding
<1>5. ops' \in [Threads -> 0..MaxOps]
  <2>1. ops[t] + 1 \in 0..MaxOps
    BY VarRootsConstants DEF TypeOK, PushBinding, Starts
  <2> QED  BY <2>1 DEF TypeOK, PushBinding, Starts
<1>6. TypeOK'
  BY <1>3, <1>4, <1>5 DEF TypeOK, PushBinding, varVars, history
<1>7. LocalOK(t) /\ pc[t] = "run" /\ UNCHANGED <<pc, kind, todo>>
  BY DEF PushBinding, Starts, LocalInv
<1>8. LocalOK(t)'
  <2>1. /\ pc'[t] = "run" /\ todo'[t] = <<>> /\ kind'[t] = "none"
    BY <1>7 DEF LocalOK
  <2>2. \A i \in 1..Len(frames[t]) : frames[t][i].form = "redefs" =>
            Len(frames[t][i].vals) = Len(frames[t][i].vs)
    BY <1>7 DEF LocalOK
  <2>3. \A i \in 1..Len(frames'[t]) : frames'[t][i].form = "redefs" => i \in 1..Len(frames[t])
    BY <1>1, <1>3
  <2>4. \A i \in 1..Len(frames'[t]) : frames'[t][i].form = "redefs" =>
            Len(frames'[t][i].vals) = Len(frames'[t][i].vs)
    BY <1>3, <2>2, <2>3
  <2> QED  BY <1>3, <2>1, <2>4 DEF LocalOK
<1> QED  BY <1>3, <1>6, <1>7, <1>8, LocalFrame

LEMMA PopBindingLocal ==
    ASSUME TypeOK, LocalInv, NEW t \in Threads, PopBinding(t)
    PROVE  TypeOK' /\ LocalInv'
<1>1. /\ LocalOK(t) /\ pc[t] = "run" /\ frames[t] # <<>> /\ UNCHANGED <<pc, kind, todo>>
      /\ frames' = [frames EXCEPT ![t] = Outer(t)]
  BY DEF PopBinding, LocalInv
<1>2. frames' \in [Threads -> Seq(Frames)] /\ frames'[t] = Outer(t)
  BY <1>1, OuterFrames DEF TypeOK
<1>3. chain' \in [Vars -> Seq(Values)]
  <2>1. \A w \in Vars : SubSeq(chain[w], 1, Len(chain[w]) - 1) \in Seq(Values)
    BY ButLast DEF TypeOK
  <2> QED  BY <2>1 DEF TypeOK, PopBinding
<1>4. TypeOK'
  BY <1>2, <1>3 DEF TypeOK, PopBinding, varVars, history
<1>5. LocalOK(t)'
  BY <1>1, <1>2, OuterFrames DEF LocalOK
<1> QED  BY <1>1, <1>4, <1>5, LocalFrame DEF TypeOK

LEMMA WatchLocal ==
    ASSUME TypeOK, LocalInv, NEW v \in Watchable, AddWatch(v) \/ RemoveWatch(v)
    PROVE  TypeOK' /\ LocalInv'
<1>1. TypeOK'
  BY VarRootsConstants DEF TypeOK, AddWatch, RemoveWatch, history
<1> QED  BY <1>1 DEF AddWatch, RemoveWatch, LocalInv, LocalOK, Top

LEMMA LocalNext ==
    TypeOK /\ LocalInv /\ [Next]_vars => TypeOK' /\ LocalInv'
<1> SUFFICES ASSUME TypeOK, LocalInv, [Next]_vars PROVE TypeOK' /\ LocalInv'
  OBVIOUS
<1>1. CASE UNCHANGED vars
  BY <1>1 DEF vars, varVars, history, TypeOK, LocalInv, LocalOK, Top
<1>2. CASE Next
  BY <1>2, SetOrAlterLocal, StoreLocal, SwapFlagLocal, AddDeviationLocal, StoredLocal,
     WatchThrowsLocal, WithRedefsLocal, CaptureLocal, RestoreLocal, PushBindingLocal,
     PopBindingLocal, WatchLocal
  DEF Next
<1> QED  BY <1>1, <1>2

(* Every variable has its type, for any number of threads, vars and forms. *)
THEOREM TypeCorrect == Spec => []TypeOK
  BY LocalInit, LocalNext, PTL DEF Spec

-----------------------------------------------------------------------------
\* The three sets that CounterInv counts are finite.
LEMMA CountedFinite ==
    /\ IsFiniteSet(Flagged) /\ IsFiniteSet(Adding) /\ IsFiniteSet(Subtracting)
    /\ Cardinality(Flagged) \in Nat /\ Cardinality(Adding) \in Nat
    /\ Cardinality(Subtracting) \in Nat
<1>1. Flagged \subseteq Vars /\ Adding \subseteq Threads /\ Subtracting \subseteq Threads
  BY DEF Flagged, Adding, Subtracting
<1>2. IsFiniteSet(Flagged) /\ IsFiniteSet(Adding) /\ IsFiniteSet(Subtracting)
  BY <1>1, FS_Subset, VarRootsConstants
<1> QED  BY <1>2, FS_CardinalityType

LEMMA CounterInit == Init => CounterInv
<1> SUFFICES ASSUME Init PROVE CounterInv
  OBVIOUS
<1>1. Flagged = {} /\ Adding = {} /\ Subtracting = {}
  BY DEF Init, Flagged, Adding, Subtracting
<1>2. Cardinality({}) = 0
  BY FS_EmptySet
<1> QED  BY <1>1, <1>2 DEF CounterInv, Init

\* A step outside updateGuard leaves what the counter counts alone.
LEMMA CounterStable ==
    ASSUME CounterInv, flag' = flag, deviations' = deviations,
           \A u \in Threads : /\ pc'[u] = "add" <=> pc[u] = "add"
                              /\ pc[u] = "add" => todo'[u] = todo[u]
    PROVE  CounterInv'
<1>1. Flagged' = Flagged /\ Adding' = Adding /\ Subtracting' = Subtracting
  BY DEF Flagged, Adding, Subtracting
<1> QED  BY <1>1 DEF CounterInv

LEMMA CounterSwap ==
    ASSUME TypeOK, LocalInv, CounterInv, NEW t \in Threads, SwapFlag(t)
    PROVE  CounterInv'
<1> DEFINE v == Head(todo[t])[1]
           deviates == Head(todo[t])[2] # Canon
<1>1. v \in Vars /\ deviates \in BOOLEAN
  BY HeadTodo DEF SwapFlag
<1>2. /\ pc[t] = "swap" /\ flag' = [flag EXCEPT ![v] = deviates] /\ todo' = todo
      /\ deviations' = deviations
      /\ pc' = [pc EXCEPT ![t] = IF flag[v] # deviates THEN "add" ELSE "notify"]
  BY DEF SwapFlag
<1>3. flag \in [Vars -> BOOLEAN] /\ pc \in [Threads -> PCs]
  BY DEF TypeOK
<1>4. t \notin Adding /\ t \notin Subtracting
  BY <1>2 DEF Adding, Subtracting
<1>5. CASE flag[v] <=> deviates
  <2>1. flag' = flag /\ pc' = [pc EXCEPT ![t] = "notify"]
    BY <1>1, <1>2, <1>3, <1>5
  <2> QED  BY <1>2, <1>3, <2>1, CounterStable
<1>6. CASE ~flag[v] /\ deviates
  <2>1. /\ v \notin Flagged /\ Flagged' = Flagged \union {v}
        /\ Adding' = Adding \union {t} /\ Subtracting' = Subtracting
    BY <1>1, <1>2, <1>3, <1>6 DEF Flagged, Adding, Subtracting
  <2>2. /\ Cardinality(Flagged') = Cardinality(Flagged) + 1
        /\ Cardinality(Adding') = Cardinality(Adding) + 1
    BY <1>4, <2>1, CountedFinite, FS_AddElement
  <2> QED  BY <1>2, <2>1, <2>2, CountedFinite DEF CounterInv
<1>7. CASE flag[v] /\ ~deviates
  <2>1. /\ v \in Flagged /\ Flagged' = Flagged \ {v}
        /\ Subtracting' = Subtracting \union {t} /\ Adding' = Adding
    BY <1>1, <1>2, <1>3, <1>7 DEF Flagged, Adding, Subtracting
  <2>2. /\ Cardinality(Flagged') = Cardinality(Flagged) - 1
        /\ Cardinality(Subtracting') = Cardinality(Subtracting) + 1
    BY <1>4, <2>1, CountedFinite, FS_AddElement, FS_RemoveElement
  <2> QED  BY <1>2, <2>1, <2>2, CountedFinite DEF CounterInv
<1> QED  BY <1>1, <1>3, <1>5, <1>6, <1>7

LEMMA CounterAdd ==
    ASSUME TypeOK, LocalInv, CounterInv, NEW t \in Threads, AddDeviation(t)
    PROVE  CounterInv'
<1>1. /\ pc[t] = "add" /\ pc' = [pc EXCEPT ![t] = "notify"] /\ todo' = todo /\ flag' = flag
      /\ pc \in [Threads -> PCs]
  BY DEF AddDeviation, TypeOK
<1>2. Flagged' = Flagged
  BY <1>1 DEF Flagged
<1>3. CASE Head(todo[t])[2] # Canon
  <2>1. /\ t \in Adding /\ Adding' = Adding \ {t} /\ Subtracting' = Subtracting
        /\ deviations' = deviations + 1
    BY <1>1, <1>3 DEF Adding, Subtracting, AddDeviation
  <2>2. Cardinality(Adding') = Cardinality(Adding) - 1
    BY <2>1, CountedFinite, FS_RemoveElement
  <2> QED  BY <1>2, <2>1, <2>2, CountedFinite DEF CounterInv
<1>4. CASE Head(todo[t])[2] = Canon
  <2>1. /\ t \in Subtracting /\ Subtracting' = Subtracting \ {t} /\ Adding' = Adding
        /\ deviations' = deviations - 1
    BY <1>1, <1>4 DEF Adding, Subtracting, AddDeviation, TypeOK
  <2>2. Cardinality(Subtracting') = Cardinality(Subtracting) - 1
    BY <2>1, CountedFinite, FS_RemoveElement
  <2> QED  BY <1>2, <2>1, <2>2, CountedFinite DEF CounterInv
<1> QED  BY <1>3, <1>4

LEMMA CounterNext ==
    TypeOK /\ LocalInv /\ CounterInv /\ [Next]_vars => CounterInv'
<1> SUFFICES ASSUME TypeOK, LocalInv, CounterInv, [Next]_vars PROVE CounterInv'
  OBVIOUS
<1> USE DEF TypeOK
<1>1. CASE UNCHANGED vars
  BY <1>1, CounterStable DEF vars, varVars
<1>2. ASSUME NEW t \in Threads, NEW v \in Vars, SetOrAlter(t, v) PROVE CounterInv'
  BY <1>2, CounterStable DEF SetOrAlter, Starts, Begin, varVars
<1>3. ASSUME NEW t \in Threads, Store(t) PROVE CounterInv'
  BY <1>3, CounterStable DEF Store
<1>4. ASSUME NEW t \in Threads, Stored(t) PROVE CounterInv'
  BY <1>4, CounterStable DEF Stored, varVars
<1>5. ASSUME NEW t \in Threads, WatchThrows(t) PROVE CounterInv'
  BY <1>5, CounterStable DEF WatchThrows, varVars
<1>6. ASSUME NEW t \in Threads, NEW vs \in Redefs, WithRedefs(t, vs) PROVE CounterInv'
  BY <1>6, CounterStable DEF WithRedefs, Starts, varVars
<1>7. ASSUME NEW t \in Threads, Capture(t) PROVE CounterInv'
  BY <1>7, CounterStable DEF Capture, Begin, varVars
<1>8. ASSUME NEW t \in Threads, Restore(t) PROVE CounterInv'
  BY <1>8, CounterStable DEF Restore, Begin, varVars
<1>9. ASSUME NEW t \in Threads, NEW v \in Bindable, PushBinding(t, v) PROVE CounterInv'
  BY <1>9, CounterStable DEF PushBinding, varVars
<1>10. ASSUME NEW t \in Threads, PopBinding(t) PROVE CounterInv'
  BY <1>10, CounterStable DEF PopBinding, varVars
<1>11. ASSUME NEW v \in Watchable, AddWatch(v) \/ RemoveWatch(v) PROVE CounterInv'
  BY <1>11, CounterStable DEF AddWatch, RemoveWatch
<1> QED  BY <1>1, <1>2, <1>3, <1>4, <1>5, <1>6, <1>7, <1>8, <1>9, <1>10, <1>11,
            CounterSwap, CounterAdd DEF Next

(* The deviation counter does not drift, for any number of threads and     *)
(* guarded vars (updateGuard, var.go:142-154).                             *)
THEOREM CounterExact == Spec => []CounterTracksFlags
<1>1. CounterInv => CounterTracksFlags
  <2> SUFFICES ASSUME CounterInv, \A t \in Threads : pc[t] # "add"
               PROVE  deviations = Cardinality({v \in Vars : flag[v]})
    BY DEF CounterTracksFlags
  <2>1. Adding = {} /\ Subtracting = {}
    BY DEF Adding, Subtracting
  <2>2. Cardinality({}) = 0
    BY FS_EmptySet
  <2> QED  BY <2>1, <2>2, CountedFinite DEF CounterInv, Flagged
<1> QED  BY <1>1, LocalInit, LocalNext, CounterInit, CounterNext, PTL DEF Spec

-----------------------------------------------------------------------------
\* A thread holds no new var when every with-redefs it has open after a step
\* was open before.
LEMMA RedefinedShrinks ==
    ASSUME NEW t \in Threads,
           \A i \in 1..Len(frames'[t]) : frames'[t][i].form = "redefs" =>
               \E j \in 1..Len(frames[t]) : /\ frames[t][j].form = "redefs"
                                            /\ frames[t][j].vs = frames'[t][i].vs
    PROVE  Redefined(t)' \subseteq Redefined(t)
  BY DEF Redefined

LEMMA OuterShrinks ==
    ASSUME TypeOK, LocalInv, NEW t \in Threads, frames[t] # <<>>, frames'[t] = Outer(t)
    PROVE  Redefined(t)' \subseteq Redefined(t)
<1>1. \A i \in 1..Len(frames'[t]) : i \in 1..Len(frames[t]) /\ frames'[t][i] = frames[t][i]
  BY OuterFrames
<1> QED  BY <1>1, RedefinedShrinks

\* The vars of the innermost with-redefs are held and named once.
LEMMA TopHeld ==
    ASSUME TypeOK, NEW t \in Threads, frames[t] # <<>>, Top(t).form = "redefs",
           Len(todo'[t]) = Len(Top(t).vs),
           \A i \in 1..Len(todo'[t]) : todo'[t][i][1] = Top(t).vs[i]
    PROVE  /\ Pending(t)' \subseteq Redefined(t)
           /\ \A i, j \in 1..Len(todo'[t]) : todo'[t][i][1] = todo'[t][j][1] => i = j
<1>1. Top(t) \in Frames /\ Len(frames[t]) \in 1..Len(frames[t])
  BY DEF TypeOK, Top
<1>2. Top(t).vs \in Redefs /\ Top(t).vs \in Seq(Vars)
  BY <1>1, RedefsFrame
<1>3. \A i \in 1..Len(Top(t).vs) : Top(t).vs[i] \in Vars
  BY <1>2
<1>4. \A i, j \in 1..Len(Top(t).vs) : Top(t).vs[i] = Top(t).vs[j] => i = j
  BY <1>2, VarRootsConstants
<1>5. \A i \in 1..Len(Top(t).vs) : Top(t).vs[i] \in Redefined(t)
  BY <1>1, <1>3 DEF Redefined, Elems, Top
<1>6. Pending(t)' \subseteq Redefined(t)
  BY <1>5 DEF Pending
<1> QED  BY <1>4, <1>6

\* The shape of every step: one thread changes what it holds, and what is
\* new to it is recorded as contended if another thread holds it.
LEMMA ApartStep ==
    ASSUME ApartInv, NEW t \in Threads, NEW S,
           contended \subseteq contended',
           \A u \in Threads \ {t} : frames'[u] = frames[u] /\ todo'[u] = todo[u],
           Redefined(t)' \subseteq Redefined(t) \union S,
           Pending(t)' \subseteq Redefined(t) \union Pending(t) \union S,
           \A u \in Threads \ {t} : S \intersect Holds(u) \subseteq contended',
           (\A i, j \in 1..Len(todo[t]) : todo[t][i][1] = todo[t][j][1] => i = j)
               => \A i, j \in 1..Len(todo'[t]) : todo'[t][i][1] = todo'[t][j][1] => i = j
    PROVE  ApartInv'
<1>1. \A u \in Threads \ {t} : Holds(u)' = Holds(u)
  BY DEF Holds, Redefined, Pending
<1>2. Holds(t)' \subseteq Holds(t) \union S
  BY DEF Holds
<1>3. \A u \in Threads \ {t} : Holds(t)' \intersect Holds(u)' \subseteq contended'
  BY <1>1, <1>2 DEF ApartInv
<1>4. ASSUME NEW u \in Threads, NEW w \in Threads, u # w
      PROVE  Holds(u)' \intersect Holds(w)' \subseteq contended'
  <2>1. CASE u # t /\ w # t
    BY <1>1, <1>4, <2>1 DEF ApartInv
  <2>2. CASE u = t \/ w = t
    BY <1>3, <1>4, <2>2
  <2> QED  BY <2>1, <2>2
<1>5. \A u \in Threads : \A i, j \in 1..Len(todo'[u]) :
          todo'[u][i][1] = todo'[u][j][1] => i = j
  BY DEF ApartInv
<1> QED  BY <1>4, <1>5 DEF ApartInv

\* A step in which a thread holds nothing new.
LEMMA ApartShrink ==
    ASSUME ApartInv, NEW t \in Threads, contended' = contended,
           \A u \in Threads \ {t} : frames'[u] = frames[u] /\ todo'[u] = todo[u],
           Redefined(t)' \subseteq Redefined(t),
           Pending(t)' \subseteq Redefined(t) \union Pending(t),
           (\A i, j \in 1..Len(todo[t]) : todo[t][i][1] = todo[t][j][1] => i = j)
               => \A i, j \in 1..Len(todo'[t]) : todo'[t][i][1] = todo'[t][j][1] => i = j
    PROVE  ApartInv'
<1>1. /\ contended \subseteq contended'
      /\ Redefined(t)' \subseteq Redefined(t) \union {}
      /\ Pending(t)' \subseteq Redefined(t) \union Pending(t) \union {}
      /\ \A u \in Threads \ {t} : {} \intersect Holds(u) \subseteq contended'
  OBVIOUS
<1> HIDE DEF ApartInv
<1> QED  BY <1>1, ApartStep

LEMMA ApartInit == Init => ApartInv
<1> SUFFICES ASSUME Init PROVE ApartInv
  OBVIOUS
<1>1. \A t \in Threads : Len(todo[t]) = 0 /\ Len(frames[t]) = 0
  BY DEF Init
<1>2. \A t \in Threads : Holds(t) = {}
  BY <1>1 DEF Holds, Redefined, Pending
<1> QED  BY <1>1, <1>2 DEF ApartInv

LEMMA ApartNext ==
    TypeOK /\ LocalInv /\ ApartInv /\ [Next]_vars => ApartInv'
<1> SUFFICES ASSUME TypeOK, LocalInv, ApartInv, [Next]_vars PROVE ApartInv'
  OBVIOUS
<1>0. /\ todo \in [Threads -> Seq(Vars \X Values)] /\ frames \in [Threads -> Seq(Frames)]
      /\ contended \subseteq Vars
  BY DEF TypeOK
\* A step of t that changes neither its forms nor its stores.
<1>1. ASSUME UNCHANGED <<todo, frames, contended>> PROVE ApartInv'
  <2>1. \A t \in Threads : Holds(t)' = Holds(t)
    BY <1>1 DEF Holds, Redefined, Pending
  <2> QED  BY <1>1, <2>1 DEF ApartInv
<1>2. ASSUME NEW t \in Threads, NEW v \in Vars, SetOrAlter(t, v) PROVE ApartInv'
  <2>1. PICK x : todo' = [todo EXCEPT ![t] = <<<<v, x>>>>]
    BY <1>2 DEF SetOrAlter, Begin
  <2>2. frames' = frames /\ contended' = contended \union Contends(t, <<v>>)
    BY <1>2 DEF SetOrAlter
  <2>3. Len(todo'[t]) = 1 /\ todo'[t][1][1] = v
    BY <1>0, <2>1
  <2>4. /\ Pending(t)' \subseteq Redefined(t) \union Pending(t) \union {v}
        /\ Redefined(t)' \subseteq Redefined(t) \union {v}
    <3>1. Pending(t)' \subseteq {v} /\ Redefined(t)' = Redefined(t)
      BY <2>2, <2>3 DEF Pending, Redefined
    <3> QED  BY <3>1
  <2>5. \A u \in Threads \ {t} : {v} \intersect Holds(u) \subseteq contended'
    <3>1. v \in Elems(<<v>>)
      BY DEF Elems
    <3> QED  BY <2>2, <3>1 DEF Contends
  <2>6. \A u \in Threads \ {t} : frames'[u] = frames[u] /\ todo'[u] = todo[u]
    BY <1>0, <2>1, <2>2
  <2>7. \A i, j \in 1..Len(todo'[t]) : todo'[t][i][1] = todo'[t][j][1] => i = j
    BY <2>3
  <2>8. contended \subseteq contended'
    BY <2>2
  <2> QED  BY <2>4, <2>5, <2>6, <2>7, <2>8, ApartStep
<1>3. ASSUME NEW t \in Threads, Store(t) \/ SwapFlag(t) \/ AddDeviation(t) PROVE ApartInv'
  BY <1>1, <1>3 DEF Store, SwapFlag, AddDeviation, history
<1>4. ASSUME NEW t \in Threads, Stored(t) PROVE ApartInv'
  <2>1. /\ todo[t] \in Seq(Vars \X Values) /\ todo[t] # <<>> /\ pc[t] = "notify"
    BY <1>4, HeadTodo DEF Stored
  <2>2. todo' = [todo EXCEPT ![t] = Tail(@)] /\ contended' = contended
    BY <1>4 DEF Stored, history
  <2>3. /\ Len(todo'[t]) = Len(todo[t]) - 1 /\ Len(todo[t]) \in Nat
        /\ \A i \in 1..Len(todo'[t]) : todo'[t][i] = todo[t][i + 1]
    BY <1>0, <2>1, <2>2
  <2>4. Pending(t)' \subseteq Pending(t)
    <3> SUFFICES ASSUME NEW i \in 1..Len(todo'[t]) PROVE todo'[t][i][1] \in Pending(t)
      BY DEF Pending
    <3>1. i + 1 \in 1..Len(todo[t]) /\ todo'[t][i] = todo[t][i + 1]
      BY <2>3
    <3> QED  BY <3>1 DEF Pending
  <2>5. Redefined(t)' \subseteq Redefined(t)
    <3>1. CASE Len(todo[t]) = 1 /\ kind[t] = "leave"
      <4>1. frames[t] # <<>> /\ frames'[t] = Outer(t)
        BY <1>0, <1>4, <3>1 DEF Stored, LocalInv, LocalOK
      <4> QED  BY <4>1, OuterShrinks
    <3>2. CASE ~(Len(todo[t]) = 1 /\ kind[t] = "leave")
      BY <1>4, <3>2 DEF Stored, Redefined
    <3> QED  BY <3>1, <3>2
  <2>6. \A u \in Threads \ {t} : frames'[u] = frames[u] /\ todo'[u] = todo[u]
    BY <1>0, <1>4 DEF Stored
  <2>7. (\A i, j \in 1..Len(todo[t]) : todo[t][i][1] = todo[t][j][1] => i = j)
            => \A i, j \in 1..Len(todo'[t]) : todo'[t][i][1] = todo'[t][j][1] => i = j
    <3> SUFFICES ASSUME \A i, j \in 1..Len(todo[t]) : todo[t][i][1] = todo[t][j][1] => i = j,
                        NEW i \in 1..Len(todo'[t]), NEW j \in 1..Len(todo'[t]),
                        todo'[t][i][1] = todo'[t][j][1]
                 PROVE  i = j
      OBVIOUS
    <3>1. /\ i + 1 \in 1..Len(todo[t]) /\ todo'[t][i] = todo[t][i + 1]
          /\ j + 1 \in 1..Len(todo[t]) /\ todo'[t][j] = todo[t][j + 1]
      BY <2>3
    <3>2. i + 1 = j + 1
      BY <3>1
    <3> QED  BY <3>2
  <2> QED  BY <2>2, <2>4, <2>5, <2>6, <2>7, ApartShrink
<1>5. ASSUME NEW t \in Threads, WatchThrows(t) PROVE ApartInv'
  <2>1. todo'[t] = <<>> /\ Len(todo'[t]) = 0 /\ contended' = contended
    BY <1>0, <1>5 DEF WatchThrows
  <2>2. Pending(t)' = {}
    BY <2>1 DEF Pending
  <2>3. Redefined(t)' \subseteq Redefined(t)
    <3>1. CASE kind[t] = "alter"
      BY <1>5, <3>1 DEF WatchThrows, Redefined
    <3>2. CASE kind[t] # "alter"
      <4>1. kind[t] \in {"enter", "leave"} /\ frames[t] # <<>>
        BY <1>5, <3>2 DEF TypeOK, Kinds, WatchThrows, LocalInv, LocalOK
      <4>2. frames'[t] = Outer(t)
        BY <1>0, <1>5, <3>2 DEF WatchThrows
      <4> QED  BY <4>1, <4>2, OuterShrinks
    <3> QED  BY <3>1, <3>2
  <2>4. \A u \in Threads \ {t} : frames'[u] = frames[u] /\ todo'[u] = todo[u]
    BY <1>0, <1>5 DEF WatchThrows
  <2> QED  BY <2>1, <2>2, <2>3, <2>4, ApartShrink
<1>6. ASSUME NEW t \in Threads, NEW vs \in Redefs, WithRedefs(t, vs) PROVE ApartInv'
  <2> DEFINE f == [form |-> "redefs", vs |-> vs, vals |-> <<>>]
  <2>1. f \in Frames /\ f.vs = vs
    BY DEF Frames
  <2>2. /\ frames' = [frames EXCEPT ![t] = Append(@, f)] /\ Len(frames[t]) < MaxDepth
        /\ todo' = todo /\ contended' = contended \union Contends(t, vs)
    BY <1>6 DEF WithRedefs
  <2> HIDE DEF f
  <2>3. /\ Len(frames'[t]) = Len(frames[t]) + 1 /\ Len(frames[t]) \in Nat
        /\ frames'[t][Len(frames'[t])] = f
        /\ \A i \in 1..Len(frames[t]) : frames'[t][i] = frames[t][i]
        /\ \A u \in Threads \ {t} : frames'[u] = frames[u]
    BY <2>1, <2>2, OpenFrame
  <2>4. Redefined(t)' \subseteq Redefined(t) \union Elems(vs)
    <3> SUFFICES ASSUME NEW v \in Vars, NEW i \in 1..Len(frames'[t]),
                        frames'[t][i].form = "redefs", v \in Elems(frames'[t][i].vs)
                 PROVE  v \in Redefined(t) \union Elems(vs)
      BY DEF Redefined
    <3>1. CASE i = Len(frames'[t])
      BY <2>1, <2>3, <3>1
    <3>2. CASE i # Len(frames'[t])
      <4>1. i \in 1..Len(frames[t]) /\ frames'[t][i] = frames[t][i]
        BY <2>3, <3>2
      <4> QED  BY <4>1 DEF Redefined
    <3> QED  BY <3>1, <3>2
  <2>5. \A u \in Threads \ {t} : Elems(vs) \intersect Holds(u) \subseteq contended'
    BY <2>2 DEF Contends
  <2>6. Pending(t)' = Pending(t)
    BY <2>2 DEF Pending
  <2>7. /\ contended \subseteq contended'
        /\ Pending(t)' \subseteq Redefined(t) \union Pending(t) \union Elems(vs)
        /\ \A u \in Threads \ {t} : frames'[u] = frames[u] /\ todo'[u] = todo[u]
    BY <2>2, <2>3, <2>6
  <2> QED  BY <2>2, <2>4, <2>5, <2>7, ApartStep
<1>7. ASSUME NEW t \in Threads, Capture(t) PROVE ApartInv'
  <2>1. /\ \A u \in Threads \ {t} : frames'[u] = frames[u] /\ todo'[u] = todo[u]
        /\ Len(frames'[t]) = Len(frames[t])
        /\ \A i \in 1..Len(frames[t]) :
             frames'[t][i].form = frames[t][i].form /\ frames'[t][i].vs = frames[t][i].vs
        /\ \/ todo'[t] = todo[t]
           \/ /\ Len(todo'[t]) = Len(Top(t).vs)
              /\ \A i \in 1..Len(todo'[t]) : todo'[t][i][1] = Top(t).vs[i]
    BY <1>7, CaptureLocal
  <2>2. frames[t] # <<>> /\ Top(t).form = "redefs" /\ contended' = contended
    BY <1>7 DEF Capture, LocalInv, LocalOK
  <2>3. Redefined(t)' \subseteq Redefined(t)
    BY <2>1, RedefinedShrinks
  <2>4. CASE todo'[t] = todo[t]
    <3>1. Pending(t)' = Pending(t)
      BY <2>4 DEF Pending
    <3> QED  BY <2>1, <2>2, <2>3, <2>4, <3>1, ApartShrink
  <2>5. CASE todo'[t] # todo[t]
    <3>1. /\ Pending(t)' \subseteq Redefined(t)
          /\ \A i, j \in 1..Len(todo'[t]) : todo'[t][i][1] = todo'[t][j][1] => i = j
      BY <2>1, <2>2, <2>5, TopHeld
    <3> QED  BY <2>1, <2>2, <2>3, <3>1, ApartShrink
  <2> QED  BY <2>4, <2>5
<1>8. ASSUME NEW t \in Threads, Restore(t) PROVE ApartInv'
  <2>1. /\ frames[t] # <<>> /\ Top(t).form = "redefs" /\ contended' = contended
        /\ frames' = frames
    BY <1>8 DEF Restore, history
  <2>2. /\ Pending(t)' \subseteq Redefined(t)
        /\ \A i, j \in 1..Len(todo'[t]) : todo'[t][i][1] = todo'[t][j][1] => i = j
    BY <1>8, <2>1, RestoreLocal, TopHeld
  <2>3. \A u \in Threads \ {t} : frames'[u] = frames[u] /\ todo'[u] = todo[u]
    BY <1>0, <1>8, <2>1 DEF Restore, Begin
  <2>4. Redefined(t)' = Redefined(t)
    BY <2>1 DEF Redefined
  <2> QED  BY <2>1, <2>2, <2>3, <2>4, ApartShrink
<1>9. ASSUME NEW t \in Threads, NEW v \in Bindable, PushBinding(t, v) PROVE ApartInv'
  <2> DEFINE f == [form |-> "binding", vs |-> <<v>>, vals |-> <<>>]
  <2>1. f \in Frames /\ f.form = "binding"
    BY VarRootsConstants DEF Frames
  <2>2. /\ frames' = [frames EXCEPT ![t] = Append(@, f)] /\ Len(frames[t]) < MaxDepth
        /\ todo' = todo /\ contended' = contended
    BY <1>9 DEF PushBinding, history
  <2> HIDE DEF f
  <2>3. /\ Len(frames'[t]) = Len(frames[t]) + 1 /\ Len(frames[t]) \in Nat
        /\ frames'[t][Len(frames'[t])] = f
        /\ \A i \in 1..Len(frames[t]) : frames'[t][i] = frames[t][i]
        /\ \A u \in Threads \ {t} : frames'[u] = frames[u]
    BY <2>1, <2>2, OpenFrame
  <2>4. \A i \in 1..Len(frames'[t]) : frames'[t][i].form = "redefs" =>
            i \in 1..Len(frames[t]) /\ frames'[t][i] = frames[t][i]
    BY <2>1, <2>3
  <2>5. Redefined(t)' \subseteq Redefined(t)
    BY <2>4, RedefinedShrinks
  <2>6. Pending(t)' = Pending(t)
    BY <2>2 DEF Pending
  <2> QED  BY <2>2, <2>3, <2>5, <2>6, ApartShrink
<1>10. ASSUME NEW t \in Threads, PopBinding(t) PROVE ApartInv'
  <2>1. /\ frames' = [frames EXCEPT ![t] = Outer(t)] /\ frames[t] # <<>>
        /\ todo' = todo /\ contended' = contended
    BY <1>10 DEF PopBinding, history
  <2>2. frames'[t] = Outer(t) /\ \A u \in Threads \ {t} : frames'[u] = frames[u]
    BY <1>0, <2>1
  <2>3. Redefined(t)' \subseteq Redefined(t) /\ Pending(t)' = Pending(t)
    BY <2>1, <2>2, OuterShrinks DEF Pending
  <2> QED  BY <2>1, <2>2, <2>3, ApartShrink
<1>11. ASSUME NEW v \in Watchable, AddWatch(v) \/ RemoveWatch(v) PROVE ApartInv'
  BY <1>1, <1>11 DEF AddWatch, RemoveWatch, history
<1>12. CASE UNCHANGED vars
  BY <1>1, <1>12 DEF vars, history
<1> QED  BY <1>2, <1>3, <1>4, <1>5, <1>6, <1>7, <1>8, <1>9, <1>10, <1>11, <1>12 DEF Next

\* The var a thread is storing to is one that it holds.
LEMMA HeadHeld ==
    ASSUME TypeOK, LocalInv, NEW t \in Threads, pc[t] \in {"store", "swap", "add", "notify"}
    PROVE  Head(todo[t])[1] \in Pending(t) /\ Head(todo[t])[1] \in Holds(t)
<1>1. Head(todo[t]) = todo[t][1] /\ 1 \in 1..Len(todo[t])
  BY HeadTodo
<1> QED  BY <1>1 DEF Pending, Holds

\* So two threads that are storing do it to different vars.
LEMMA HeadsApart ==
    ASSUME TypeOK, LocalInv, ApartInv, contended = {},
           NEW t \in Threads, pc[t] \in {"store", "swap", "add", "notify"},
           NEW u \in Threads, pc[u] \in {"store", "swap", "add", "notify"}, t # u
    PROVE  Head(todo[t])[1] # Head(todo[u])[1]
  BY HeadHeld DEF ApartInv

\* A step that neither stores a root nor swaps a flag.
LEMMA FlagStable ==
    ASSUME FlagInv, contended \subseteq contended', root' = root, flag' = flag,
           \A u \in Threads :
               /\ pc'[u] = "swap" <=> pc[u] = "swap"
               /\ pc'[u] = "add" => pc[u] = "add"
               /\ pc'[u] \in {"swap", "add"} => todo'[u] = todo[u]
    PROVE  FlagInv'
<1> SUFFICES ASSUME contended' = {}
             PROVE  /\ \A t \in Threads : pc'[t] \in {"swap", "add"} =>
                          root'[Head(todo'[t])[1]] = Head(todo'[t])[2]
                    /\ \A v \in Vars :
                          (\A t \in Threads : pc'[t] = "swap" => Head(todo'[t])[1] # v)
                              => (flag'[v] <=> root'[v] # Canon)
  BY DEF FlagInv, Canon
<1>1. contended = {}
  OBVIOUS
<1> QED  BY <1>1 DEF FlagInv

LEMMA FlagStore ==
    ASSUME TypeOK, LocalInv, ApartInv, FlagInv, NEW t \in Threads, Store(t)
    PROVE  FlagInv'
<1> SUFFICES ASSUME contended' = {}
             PROVE  /\ \A u \in Threads : pc'[u] \in {"swap", "add"} =>
                          root'[Head(todo'[u])[1]] = Head(todo'[u])[2]
                    /\ \A w \in Vars :
                          (\A u \in Threads : pc'[u] = "swap" => Head(todo'[u])[1] # w)
                              => (flag'[w] <=> root'[w] # Canon)
  BY DEF FlagInv, Canon
<1> DEFINE v == Head(todo[t])[1]
           x == Head(todo[t])[2]
<1>1. /\ contended = {} /\ pc[t] = "store" /\ todo' = todo /\ flag' = flag
      /\ root' = [root EXCEPT ![v] = x] /\ pc' = [pc EXCEPT ![t] = "swap"]
  BY DEF Store
<1>2. v \in Vars /\ root \in [Vars -> Values] /\ pc \in [Threads -> PCs]
  BY <1>1, HeadTodo DEF TypeOK
<1>3. \A u \in Threads \ {t} : pc[u] \in {"swap", "add"} =>
          Head(todo[u])[1] # v /\ Head(todo[u])[1] \in Vars
  BY <1>1, HeadsApart, HeadTodo
<1>4. ASSUME NEW u \in Threads, pc'[u] \in {"swap", "add"}
      PROVE  root'[Head(todo'[u])[1]] = Head(todo'[u])[2]
  <2>1. CASE u = t
    BY <1>1, <1>2, <2>1
  <2>2. CASE u # t
    <3>1. pc[u] \in {"swap", "add"}
      BY <1>1, <1>2, <1>4, <2>2
    <3>2. root[Head(todo[u])[1]] = Head(todo[u])[2]
      BY <1>1, <3>1 DEF FlagInv
    <3> QED  BY <1>1, <1>2, <1>3, <2>2, <3>1, <3>2
  <2> QED  BY <2>1, <2>2
<1>5. ASSUME NEW w \in Vars, \A u \in Threads : pc'[u] = "swap" => Head(todo'[u])[1] # w
      PROVE  flag'[w] <=> root'[w] # Canon
  <2>1. w # v
    BY <1>1, <1>2, <1>5
  <2>2. \A u \in Threads : pc[u] = "swap" => Head(todo[u])[1] # w
    BY <1>1, <1>2, <1>5
  <2>3. flag[w] <=> root[w] # Canon
    BY <1>1, <2>2 DEF FlagInv
  <2> QED  BY <1>1, <1>2, <2>1, <2>3
<1> QED  BY <1>4, <1>5

LEMMA FlagSwap ==
    ASSUME TypeOK, LocalInv, ApartInv, FlagInv, NEW t \in Threads, SwapFlag(t)
    PROVE  FlagInv'
<1> SUFFICES ASSUME contended' = {}
             PROVE  /\ \A u \in Threads : pc'[u] \in {"swap", "add"} =>
                          root'[Head(todo'[u])[1]] = Head(todo'[u])[2]
                    /\ \A w \in Vars :
                          (\A u \in Threads : pc'[u] = "swap" => Head(todo'[u])[1] # w)
                              => (flag'[w] <=> root'[w] # Canon)
  BY DEF FlagInv, Canon
<1> DEFINE v == Head(todo[t])[1]
           deviates == Head(todo[t])[2] # Canon
<1>1. /\ contended = {} /\ pc[t] = "swap" /\ todo' = todo /\ root' = root
      /\ flag' = [flag EXCEPT ![v] = deviates]
      /\ \E p \in {"add", "notify"} : pc' = [pc EXCEPT ![t] = p]
  BY DEF SwapFlag, history
<1>2. v \in Vars /\ flag \in [Vars -> BOOLEAN] /\ pc \in [Threads -> PCs]
  BY <1>1, HeadTodo DEF TypeOK
<1>3. root[v] = Head(todo[t])[2]
  BY <1>1 DEF FlagInv
<1>4. ASSUME NEW u \in Threads, pc'[u] \in {"swap", "add"}
      PROVE  root'[Head(todo'[u])[1]] = Head(todo'[u])[2]
  <2>1. pc[u] \in {"swap", "add"}
    BY <1>1, <1>2, <1>4
  <2> QED  BY <1>1, <2>1 DEF FlagInv
<1>5. ASSUME NEW w \in Vars, \A u \in Threads : pc'[u] = "swap" => Head(todo'[u])[1] # w
      PROVE  flag'[w] <=> root'[w] # Canon
  <2>1. CASE w = v
    BY <1>1, <1>2, <1>3, <2>1
  <2>2. CASE w # v
    <3>1. \A u \in Threads : pc[u] = "swap" => Head(todo[u])[1] # w
      BY <1>1, <1>2, <1>5, <2>2
    <3>2. flag[w] <=> root[w] # Canon
      BY <1>1, <3>1 DEF FlagInv
    <3> QED  BY <1>1, <1>2, <2>2, <3>2
  <2> QED  BY <2>1, <2>2
<1> QED  BY <1>4, <1>5

LEMMA FlagNext ==
    TypeOK /\ LocalInv /\ ApartInv /\ FlagInv /\ [Next]_vars => FlagInv'
<1> SUFFICES ASSUME TypeOK, LocalInv, ApartInv, FlagInv, [Next]_vars PROVE FlagInv'
  OBVIOUS
<1> USE DEF TypeOK
<1>1. CASE UNCHANGED vars
  BY <1>1, FlagStable DEF vars, varVars, history
<1>2. ASSUME NEW t \in Threads, NEW v \in Vars, SetOrAlter(t, v) PROVE FlagInv'
  BY <1>2, FlagStable DEF SetOrAlter, Starts, Begin, varVars
<1>3. ASSUME NEW t \in Threads, AddDeviation(t) PROVE FlagInv'
  BY <1>3, FlagStable DEF AddDeviation, history
<1>4. ASSUME NEW t \in Threads, Stored(t) PROVE FlagInv'
  BY <1>4, FlagStable DEF Stored, varVars, history
<1>5. ASSUME NEW t \in Threads, WatchThrows(t) PROVE FlagInv'
  BY <1>5, FlagStable DEF WatchThrows, varVars
<1>6. ASSUME NEW t \in Threads, NEW vs \in Redefs, WithRedefs(t, vs) PROVE FlagInv'
  BY <1>6, FlagStable DEF WithRedefs, Starts, varVars
<1>7. ASSUME NEW t \in Threads, Capture(t) PROVE FlagInv'
  BY <1>7, FlagStable DEF Capture, Begin, varVars
<1>8. ASSUME NEW t \in Threads, Restore(t) PROVE FlagInv'
  BY <1>8, FlagStable DEF Restore, Begin, varVars, history
<1>9. ASSUME NEW t \in Threads, NEW v \in Bindable, PushBinding(t, v) PROVE FlagInv'
  BY <1>9, FlagStable DEF PushBinding, varVars, history
<1>10. ASSUME NEW t \in Threads, PopBinding(t) PROVE FlagInv'
  BY <1>10, FlagStable DEF PopBinding, varVars, history
<1>11. ASSUME NEW v \in Watchable, AddWatch(v) \/ RemoveWatch(v) PROVE FlagInv'
  BY <1>11, FlagStable DEF AddWatch, RemoveWatch, history
<1> QED  BY <1>1, <1>2, <1>3, <1>4, <1>5, <1>6, <1>7, <1>8, <1>9, <1>10, <1>11,
            FlagStore, FlagSwap DEF Next

\* The threads about to add one do it for flagged vars other than a settled
\* one, each for its own: there are fewer of them than flagged vars.
LEMMA FewerAdding ==
    ASSUME TypeOK, LocalInv, ApartInv, FlagInv, contended = {},
           NEW v \in Vars, Settled(v), v \in Flagged
    PROVE  Cardinality(Adding) < Cardinality(Flagged)
<1> DEFINE F == [t \in Adding |-> Head(todo[t])[1]]
<1>1. ASSUME NEW t \in Adding PROVE Head(todo[t])[1] \in Flagged \ {v}
  <2> DEFINE w == Head(todo[t])[1]
  <2>1. t \in Threads /\ pc[t] = "add" /\ Head(todo[t])[2] # Canon
    BY DEF Adding
  <2>2. w \in Vars /\ w \in Pending(t) /\ root[w] # Canon
    BY <2>1, HeadTodo, HeadHeld DEF FlagInv
  <2>3. \A u \in Threads : pc[u] = "swap" => Head(todo[u])[1] # w
    BY <2>1, HeadsApart
  <2>4. flag[w]
    BY <2>2, <2>3 DEF FlagInv
  <2> QED  BY <2>1, <2>2, <2>4 DEF Flagged, Settled
<1>2. \A t, u \in Adding : Head(todo[t])[1] = Head(todo[u])[1] => t = u
  BY HeadsApart DEF Adding
<1>3. F \in Injection(Adding, Flagged \ {v})
  BY <1>1, <1>2 DEF Injection, IsInjective
<1>4. IsFiniteSet(Flagged \ {v}) /\ Cardinality(Flagged \ {v}) = Cardinality(Flagged) - 1
  BY CountedFinite, FS_RemoveElement
<1>5. Cardinality(Adding) <= Cardinality(Flagged \ {v})
  BY <1>3, <1>4, FS_Injection
<1> QED  BY <1>4, <1>5, CountedFinite

(* Lowered code sees an override: unless two threads worked on one var, a  *)
(* settled var whose root is not canonical keeps the counter off zero,     *)
(* whatever the other threads are in the middle of (var.go:16-34).         *)
THEOREM OverrideSeen == Spec => []OverrideObserved
<1> DEFINE IInv == TypeOK /\ LocalInv /\ CounterInv /\ ApartInv /\ FlagInv
<1>1. Init => FlagInv
  BY DEF Init, FlagInv
<1>2. ASSUME IInv, contended = {} PROVE
        /\ \A v \in Vars : Settled(v) /\ root[v] # Canon => ~GuardedRootsIntact
        /\ (\A v \in Vars : Settled(v)) =>
                (GuardedRootsIntact <=> \A v \in Vars : root[v] = Canon)
  <2>1. ASSUME NEW v \in Vars, Settled(v) PROVE v \in Flagged <=> root[v] # Canon
    <3>1. \A t \in Threads : pc[t] = "swap" => Head(todo[t])[1] # v
      BY <1>2, <2>1, HeadHeld DEF Settled
    <3> QED  BY <1>2, <3>1 DEF FlagInv, Flagged
  <2>2. ASSUME NEW v \in Vars, Settled(v), root[v] # Canon PROVE ~GuardedRootsIntact
    <3>1. Cardinality(Adding) < Cardinality(Flagged)
      BY <1>2, <2>1, <2>2, FewerAdding
    <3>2. deviations > 0
      BY <1>2, <3>1, CountedFinite DEF CounterInv
    <3> QED  BY <3>2 DEF GuardedRootsIntact
  <2>3. ASSUME \A v \in Vars : Settled(v), \A v \in Vars : root[v] = Canon
        PROVE  GuardedRootsIntact
    <3>1. Flagged = {}
      BY <2>1, <2>3 DEF Flagged
    <3>2. Adding = {} /\ Subtracting = {}
      <4>1. \A t \in Threads : pc[t] # "add"
        <5> SUFFICES ASSUME NEW t \in Threads, pc[t] = "add" PROVE FALSE
          OBVIOUS
        <5>1. Head(todo[t])[1] \in Vars /\ Head(todo[t])[1] \in Pending(t)
          BY <1>2, HeadTodo, HeadHeld
        <5> QED  BY <2>3, <5>1 DEF Settled
      <4> QED  BY <4>1 DEF Adding, Subtracting
    <3>3. Cardinality({}) = 0
      BY FS_EmptySet
    <3> QED  BY <1>2, <3>1, <3>2, <3>3 DEF CounterInv, GuardedRootsIntact
  <2> QED  BY <2>2, <2>3
<1>3. IInv => OverrideObserved
  BY <1>2 DEF OverrideObserved
<1> QED  BY <1>1, <1>3, LocalInit, LocalNext, CounterInit, CounterNext, ApartInit, ApartNext,
            FlagNext, PTL DEF Spec

(* The guard of lowered calls tracks the roots.                            *)
THEOREM GuardExact == Spec => []GuardTracksRoots
<1>1. CounterTracksFlags /\ OverrideObserved => GuardTracksRoots
  BY DEF GuardTracksRoots
<1> QED  BY <1>1, CounterExact, OverrideSeen, PTL

-----------------------------------------------------------------------------
\* What a form stores is what its vector names: a step that stores nothing
\* new, or ends the operation.
LEMMA StoresStable ==
    ASSUME StoresInv, NEW t \in Threads,
           \A u \in Threads \ {t} :
               frames'[u] = frames[u] /\ todo'[u] = todo[u] /\ kind'[u] = kind[u],
           StoresOfForm(t)'
    PROVE  StoresInv'
<1> SUFFICES ASSUME NEW u \in Threads, u # t PROVE StoresOfForm(u)'
  BY DEF StoresInv
<1>1. StoresOfForm(u) /\ Top(u)' = Top(u)
  BY DEF StoresInv, Top
<1> QED  BY <1>1 DEF StoresOfForm

LEMMA StoresNext ==
    TypeOK /\ LocalInv /\ StoresInv /\ [Next]_vars => StoresInv'
<1> SUFFICES ASSUME TypeOK, LocalInv, StoresInv, [Next]_vars PROVE StoresInv'
  OBVIOUS
<1>0. /\ todo \in [Threads -> Seq(Vars \X Values)] /\ frames \in [Threads -> Seq(Frames)]
      /\ kind \in [Threads -> Kinds] /\ pc \in [Threads -> PCs]
  BY DEF TypeOK
\* A step of t that changes neither its forms nor its stores.
<1>1. ASSUME UNCHANGED <<todo, frames, kind>> PROVE StoresInv'
  BY <1>1 DEF StoresInv, StoresOfForm, Top
<1>2. ASSUME NEW t \in Threads, NEW v \in Vars, SetOrAlter(t, v) PROVE StoresInv'
  <2>1. /\ kind'[t] \in {"set", "alter"}
        /\ \A u \in Threads \ {t} :
               frames'[u] = frames[u] /\ todo'[u] = todo[u] /\ kind'[u] = kind[u]
    BY <1>0, <1>2 DEF SetOrAlter, Begin
  <2> QED  BY <2>1, StoresStable DEF StoresOfForm
<1>3. ASSUME NEW t \in Threads, Store(t) \/ SwapFlag(t) \/ AddDeviation(t) PROVE StoresInv'
  BY <1>1, <1>3 DEF Store, SwapFlag, AddDeviation, history
<1>4. ASSUME NEW t \in Threads, Stored(t) PROVE StoresInv'
  <2>1. \A u \in Threads \ {t} :
            frames'[u] = frames[u] /\ todo'[u] = todo[u] /\ kind'[u] = kind[u]
    BY <1>0, <1>4 DEF Stored
  <2>2. CASE Len(todo[t]) > 1
    <3>0. todo[t] \in Seq(Vars \X Values) /\ todo[t] # <<>> /\ Len(todo[t]) \in Nat
      BY <1>4, HeadTodo DEF Stored
    <3>1. /\ frames' = frames /\ kind'[t] = kind[t] /\ todo'[t] = Tail(todo[t])
      BY <1>0, <1>4, <2>2, <3>0 DEF Stored
    <3>2. /\ Len(todo'[t]) = Len(todo[t]) - 1 /\ Len(todo[t]) \in Nat
          /\ \A j \in 1..Len(todo'[t]) : todo'[t][j] = todo[t][j + 1]
      BY <3>0, <3>1
    <3>3. \A j \in 1..Len(todo'[t]) : j + 1 \in 1..Len(todo[t])
      BY <3>2
    <3>4. Top(t)' = Top(t) /\ StoresOfForm(t)
      BY <3>1 DEF Top, StoresInv
    <3>5. ASSUME kind'[t] \in {"enter", "leave"}, NEW j \in 1..Len(todo'[t])
          PROVE  \E k \in 1..Len(Top(t)'.vs) :
                    /\ todo'[t][j][1] = Top(t)'.vs[k]
                    /\ kind'[t] = "leave" => todo'[t][j][2] = Top(t)'.vals[k]
      <4>1. j + 1 \in 1..Len(todo[t]) /\ todo'[t][j] = todo[t][j + 1]
        BY <3>2, <3>3
      <4>2. PICK k \in 1..Len(Top(t).vs) :
                /\ todo[t][j + 1][1] = Top(t).vs[k]
                /\ kind[t] = "leave" => todo[t][j + 1][2] = Top(t).vals[k]
        BY <3>1, <3>4, <3>5, <4>1 DEF StoresOfForm
      <4> QED  BY <3>1, <3>4, <4>1, <4>2
    <3>6. StoresOfForm(t)'
      BY <3>5 DEF StoresOfForm
    <3> QED  BY <2>1, <3>6, StoresStable
  <2>3. CASE ~(Len(todo[t]) > 1)
    <3>1. kind'[t] = "none"
      BY <1>0, <1>4, <2>3 DEF Stored
    <3> QED  BY <2>1, <3>1, StoresStable DEF StoresOfForm
  <2> QED  BY <2>2, <2>3
<1>5. ASSUME NEW t \in Threads, WatchThrows(t) PROVE StoresInv'
  <2>1. /\ kind'[t] = "none"
        /\ \A u \in Threads \ {t} :
               frames'[u] = frames[u] /\ todo'[u] = todo[u] /\ kind'[u] = kind[u]
    BY <1>0, <1>5 DEF WatchThrows
  <2> QED  BY <2>1, StoresStable DEF StoresOfForm
\* A form is opened or closed only between operations.
<1>6. ASSUME NEW t \in Threads, pc[t] = "run", kind' = kind, todo' = todo,
             \A u \in Threads \ {t} : frames'[u] = frames[u]
      PROVE  StoresInv'
  <2>1. kind'[t] = "none"
    BY <1>6 DEF LocalInv, LocalOK
  <2> QED  BY <1>6, <2>1, StoresStable DEF StoresOfForm
<1>7. ASSUME NEW t \in Threads, NEW vs \in Redefs, WithRedefs(t, vs) PROVE StoresInv'
  BY <1>0, <1>6, <1>7 DEF WithRedefs, Starts
<1>8. ASSUME NEW t \in Threads, Capture(t) PROVE StoresInv'
  <2>1. /\ \A u \in Threads \ {t} : frames'[u] = frames[u] /\ todo'[u] = todo[u]
        /\ Len(frames'[t]) = Len(frames[t])
        /\ \A i \in 1..Len(frames[t]) :
             frames'[t][i].form = frames[t][i].form /\ frames'[t][i].vs = frames[t][i].vs
        /\ \/ todo'[t] = todo[t]
           \/ /\ Len(todo'[t]) = Len(Top(t).vs)
              /\ \A i \in 1..Len(todo'[t]) : todo'[t][i][1] = Top(t).vs[i]
    BY <1>8, CaptureLocal
  <2>2. frames[t] # <<>> /\ kind[t] = "none" /\ pc[t] = "capture" /\ todo[t] = <<>>
    BY <1>8 DEF Capture, LocalInv, LocalOK
  <2>3. Len(frames[t]) \in 1..Len(frames[t]) /\ Top(t)'.vs = Top(t).vs
    <3>1. Len(frames[t]) \in 1..Len(frames[t])
      BY <1>0, <2>2
    <3> QED  BY <2>1, <3>1 DEF Top
  <2>4. /\ kind'[t] \in {"none", "enter"}
        /\ \A u \in Threads \ {t} : kind'[u] = kind[u]
    BY <1>0, <1>8, <2>2 DEF Capture, Begin
  <2>5. CASE todo'[t] = todo[t]
    <3>1. Len(todo'[t]) = 0
      BY <2>2, <2>5
    <3> QED  BY <2>1, <2>4, <3>1, StoresStable DEF StoresOfForm
  <2>6. CASE todo'[t] # todo[t]
    <3>1. \A j \in 1..Len(todo'[t]) : \E k \in 1..Len(Top(t)'.vs) :
              todo'[t][j][1] = Top(t)'.vs[k]
      BY <2>1, <2>3, <2>6
    <3>2. StoresOfForm(t)'
      BY <2>4, <3>1 DEF StoresOfForm
    <3> QED  BY <2>1, <2>4, <3>2, StoresStable
  <2> QED  BY <2>5, <2>6
<1>9. ASSUME NEW t \in Threads, Restore(t) PROVE StoresInv'
  <2>1. /\ Len(todo'[t]) = Len(Top(t).vs)
        /\ \A i \in 1..Len(todo'[t]) :
              todo'[t][i][1] = Top(t).vs[i] /\ todo'[t][i][2] = Top(t).vals[i]
    BY <1>9, RestoreLocal
  <2>2. Top(t)' = Top(t) /\ frames' = frames
    BY <1>9 DEF Restore, Top
  <2>3. StoresOfForm(t)'
    BY <2>1, <2>2 DEF StoresOfForm
  <2> QED  BY <1>0, <1>9, <2>2, <2>3, StoresStable DEF Restore, Begin
<1>10. ASSUME NEW t \in Threads, NEW v \in Bindable, PushBinding(t, v) PROVE StoresInv'
  BY <1>0, <1>6, <1>10 DEF PushBinding, Starts
<1>11. ASSUME NEW t \in Threads, PopBinding(t) PROVE StoresInv'
  BY <1>0, <1>6, <1>11 DEF PopBinding
<1>12. ASSUME NEW v \in Watchable, AddWatch(v) \/ RemoveWatch(v) PROVE StoresInv'
  BY <1>1, <1>12 DEF AddWatch, RemoveWatch, history
<1>13. CASE UNCHANGED vars
  BY <1>1, <1>13 DEF vars
<1> QED  BY <1>2, <1>3, <1>4, <1>5, <1>7, <1>8, <1>9, <1>10, <1>11, <1>12, <1>13 DEF Next

-----------------------------------------------------------------------------
\* A form of t that names v makes v one of the vars it redefines, and the
\* outermost such form exists.
LEMMA NamesRedefined ==
    ASSUME NEW t \in Threads, NEW v \in Vars
    PROVE  v \in Redefined(t) <=> \E i \in 1..Len(frames[t]) : Names(t, i, v)
  BY DEF Redefined, Names

\* Two threads have forms for one var only if it is contended.
LEMMA OneRedefines ==
    ASSUME ApartInv, NEW v \in Vars \ contended, NEW t \in Threads, v \in Holds(t),
           NEW u \in Threads, v \in Holds(u)
    PROVE  t = u
  BY DEF ApartInv

\* A step that leaves the roots, the bases and the forms alone.
LEMMA BaseQuiet ==
    ASSUME BaseInv, UNCHANGED <<root, base, frames>>,
           contended \subseteq contended', dirty \subseteq dirty',
           \A u \in Threads : \A v \in Vars :
               Names(u, Len(frames[u]), v) /\ PutBack(u, v)' => PutBack(u, v)
    PROVE  BaseInv'
<1> SUFFICES ASSUME NEW v \in Vars \ (contended \union dirty) PROVE BaseOK(v)'
  BY DEF BaseInv
<1>1. BaseOK(v)
  BY DEF BaseInv
<1>2. \A u \in Threads : Redefined(u)' = Redefined(u)
  BY DEF Redefined
<1>3. ASSUME NEW u \in Threads, NEW i \in 1..Len(frames'[u]), Outermost(u, i, v)'
      PROVE  KeepsBase(u, i, v)'
  <2>1. i \in 1..Len(frames[u]) /\ Outermost(u, i, v)
    BY <1>3 DEF Outermost, Names
  <2>2. KeepsBase(u, i, v)
    BY <1>1, <2>1 DEF BaseOK
  <2>3. i = Len(frames[u]) /\ PutBack(u, v)' => PutBack(u, v)
    BY <2>1 DEF Outermost
  <2> QED  BY <2>2, <2>3 DEF KeepsBase
<1> QED  BY <1>1, <1>2, <1>3 DEF BaseOK

\* Storing a root: outside every with-redefs it is the new base, and inside
\* one the outermost form keeps the base, which it stores when it is left.
LEMMA BaseStore ==
    ASSUME TypeOK, LocalInv, ApartInv, StoresInv, BaseInv, NEW t \in Threads, Store(t)
    PROVE  BaseInv'
<1> DEFINE w == Head(todo[t])[1]  x == Head(todo[t])[2]
<1>1. /\ pc[t] = "store" /\ pc' = [pc EXCEPT ![t] = "swap"] /\ pc \in [Threads -> PCs]
      /\ root' = [root EXCEPT ![w] = x] /\ UNCHANGED <<kind, todo, frames, contended, dirty>>
      /\ base' = IF kind[t] \in {"set", "alter"} /\ w \notin Redefined(t)
                 THEN [base EXCEPT ![w] = x] ELSE base
  BY DEF Store, TypeOK
<1>2. /\ w \in Vars /\ w \in Pending(t) /\ w \in Holds(t)
      /\ root \in [Vars -> Values] /\ base \in [Vars -> Values]
  BY <1>1, HeadTodo, HeadHeld DEF TypeOK
<1>3. LocalOK(t) /\ StoresOfForm(t) /\ kind[t] \in Kinds
  BY DEF LocalInv, StoresInv, TypeOK
<1>4. /\ todo[t] # <<>> /\ Head(todo[t]) = todo[t][1] /\ 1 \in 1..Len(todo[t])
  BY <1>1, HeadTodo
<1>5. \A u \in Threads : Redefined(u)' = Redefined(u) /\ Pending(u)' = Pending(u)
  BY <1>1 DEF Redefined, Pending
<1>6. \A u \in Threads, v \in Vars : \A i \in 1..Len(frames[u]) :
          Outermost(u, i, v)' = Outermost(u, i, v)
  BY <1>1 DEF Outermost, Names
<1> SUFFICES ASSUME NEW v \in Vars \ (contended \union dirty) PROVE BaseOK(v)'
  BY <1>1 DEF BaseInv
<1>7. BaseOK(v)
  BY DEF BaseInv
<1> HIDE DEF w, x
<1>8. CASE v # w
  <2>1. root'[v] = root[v] /\ base'[v] = base[v]
    BY <1>1, <1>2, <1>8
  <2>2. \A u \in Threads : PutBack(u, v)' => PutBack(u, v)
    BY <1>1, <1>5, <1>8 DEF PutBack, w
  <2>3. ASSUME NEW u \in Threads, NEW i \in 1..Len(frames[u]), Outermost(u, i, v)
        PROVE  KeepsBase(u, i, v)'
    BY <1>1, <1>7, <2>1, <2>2, <2>3 DEF BaseOK, KeepsBase
  <2> QED  BY <1>1, <1>5, <1>6, <1>7, <2>1, <2>3 DEF BaseOK
<1>9. CASE v = w /\ v \in Redefined(t)
  <2>1. base' = base /\ root'[v] = x
    BY <1>1, <1>2, <1>9
  <2>2. ASSUME NEW u \in Threads, NEW i \in 1..Len(frames[u]), Outermost(u, i, v)
        PROVE  KeepsBase(u, i, v)'
    <3>1. u = t
      <4>1. v \in Holds(u)
        BY <2>2, NamesRedefined DEF Outermost, Holds
      <4> QED  BY <1>2, <1>9, <4>1, OneRedefines
    <3>2. KeepsBase(t, i, v)
      BY <1>7, <2>2, <3>1 DEF BaseOK
    <3>3. Len(frames[t][i].vals) = Len(frames[t][i].vs)
      BY <1>1, <1>3, <2>2, <3>1 DEF LocalOK, Outermost, Names
    <3>4. frames[t][i] \in Frames /\ frames[t][i].vs \in Seq(Vars)
      <4>1. frames[t][i] \in Frames
        BY <2>2, <3>1 DEF TypeOK
      <4> QED  BY <4>1, RedefsFrame
    <3>5. \A k \in 1..Len(frames[t][i].vs) : frames[t][i].vs[k] = v =>
              k <= Len(frames[t][i].vals) /\ frames[t][i].vals[k] = base[v]
      BY <3>2, <3>3, <3>4 DEF KeepsBase
    <3>6. ASSUME i = Len(frames[t]), PutBack(t, v)' PROVE x = base[v]
      <4>1. kind[t] = "leave" /\ Top(t) = frames[t][i]
        BY <1>1, <3>6 DEF PutBack, Top
      <4>2. PICK k \in 1..Len(Top(t).vs) : w = Top(t).vs[k] /\ x = Top(t).vals[k]
        BY <1>3, <1>4, <4>1 DEF StoresOfForm, w, x
      <4> QED  BY <1>9, <3>5, <4>1, <4>2
    <3>7. \A k \in 1..Len(frames[t][i].vs) : frames[t][i].vs[k] = v =>
              ~(k > Len(frames[t][i].vals))
      BY <3>3, <3>4
    <3> QED  BY <1>1, <2>1, <3>1, <3>5, <3>6, <3>7 DEF KeepsBase
  <2> QED  BY <1>1, <1>5, <1>6, <1>9, <2>2 DEF BaseOK
<1>10. CASE v = w /\ v \notin Redefined(t)
  <2>1. kind[t] \in {"set", "alter"}
    <3> SUFFICES ASSUME kind[t] \in {"enter", "leave"} PROVE FALSE
      BY <1>1, <1>3 DEF Kinds, LocalOK
    <3>1. PICK k \in 1..Len(Top(t).vs) : w = Top(t).vs[k]
      BY <1>3, <1>4 DEF StoresOfForm, w
    <3>2. frames[t] # <<>> /\ Top(t).form = "redefs" /\ frames[t] \in Seq(Frames)
      BY <1>3 DEF LocalOK, TypeOK
    <3>3. Len(frames[t]) \in 1..Len(frames[t])
      BY <3>2
    <3> QED  BY <1>10, <3>1, <3>2, <3>3 DEF Redefined, Elems, Top
  <2>2. root'[v] = x /\ base'[v] = x
    BY <1>1, <1>2, <1>10, <2>1
  <2>3. \A u \in Threads : \A i \in 1..Len(frames[u]) : ~Outermost(u, i, v)
    <3> SUFFICES ASSUME NEW u \in Threads, NEW i \in 1..Len(frames[u]), Outermost(u, i, v)
                 PROVE  FALSE
      OBVIOUS
    <3>1. v \in Redefined(u)
      BY NamesRedefined DEF Outermost
    <3> QED  BY <1>2, <1>10, <3>1, OneRedefines DEF Holds
  <2> QED  BY <1>1, <1>6, <2>2, <2>3 DEF BaseOK
<1> QED  BY <1>8, <1>9, <1>10

\* Closing a form: the vars whose outermost with-redefs it was are put back.
LEMMA BasePop ==
    ASSUME TypeOK, LocalInv, BaseInv, NEW t \in Threads, frames[t] # <<>>,
           frames' = [frames EXCEPT ![t] = Outer(t)], kind'[t] = "none",
           UNCHANGED <<root, base>>, contended \subseteq contended', dirty \subseteq dirty',
           \A u \in Threads \ {t} :
               kind'[u] = kind[u] /\ pc'[u] = pc[u] /\ todo'[u] = todo[u],
           \A v \in Vars \ (contended' \union dirty') :
               Names(t, Len(frames[t]), v) => PutBack(t, v)
    PROVE  BaseInv'
<1>1. /\ Len(frames'[t]) = Len(frames[t]) - 1
      /\ Len(frames[t]) \in Nat /\ Len(frames[t]) > 0
      /\ \A i \in 1..Len(frames[t]) - 1 : frames'[t][i] = frames[t][i]
      /\ \A u \in Threads \ {t} : frames'[u] = frames[u]
  BY OuterFrames DEF TypeOK
<1> SUFFICES ASSUME NEW v \in Vars \ (contended' \union dirty') PROVE BaseOK(v)'
  BY DEF BaseInv
<1>2. BaseOK(v)
  BY DEF BaseInv
<1>3. \A u \in Threads : \A i \in 1..Len(frames'[u]) :
          i \in 1..Len(frames[u]) /\ frames'[u][i] = frames[u][i]
  BY <1>1
<1>4. \A u \in Threads : \A i \in 1..Len(frames'[u]) :
          (Names(u, i, v)' <=> Names(u, i, v)) /\ (Outermost(u, i, v)' => Outermost(u, i, v))
  <2>1. \A u \in Threads : \A i \in 1..Len(frames'[u]) : Names(u, i, v)' <=> Names(u, i, v)
    BY <1>3 DEF Names
  <2>2. \A u \in Threads : Len(frames'[u]) \in Nat
    BY <1>1 DEF TypeOK
  <2>3. \A u \in Threads : \A i \in 1..Len(frames'[u]) : \A j \in 1..i - 1 :
            j \in 1..Len(frames'[u])
    BY <2>2
  <2> QED  BY <2>1, <2>3 DEF Outermost
<1>5. ASSUME NEW u \in Threads, NEW i \in 1..Len(frames'[u]), Outermost(u, i, v)'
      PROVE  KeepsBase(u, i, v)'
  <2>1. KeepsBase(u, i, v) /\ frames'[u][i] = frames[u][i]
    BY <1>2, <1>3, <1>4, <1>5 DEF BaseOK
  <2>2. i = Len(frames'[u]) /\ PutBack(u, v)' => i = Len(frames[u]) /\ PutBack(u, v)
    <3>1. CASE u = t
      BY <3>1 DEF PutBack
    <3>2. CASE u # t
      BY <1>1, <3>2 DEF PutBack, Pending
    <3> QED  BY <3>1, <3>2
  <2> QED  BY <2>1, <2>2 DEF KeepsBase
<1>6. ASSUME \A u \in Threads : v \notin Redefined(u)' PROVE root[v] = base[v]
  <2>1. CASE \A u \in Threads : v \notin Redefined(u)
    BY <1>2, <2>1 DEF BaseOK
  <2>2. CASE \E u \in Threads : v \in Redefined(u)
    <3>1. v \in Redefined(t)
      BY <1>1, <1>6, <2>2 DEF Redefined
    <3>2. \A i \in 1..Len(frames'[t]) : ~Names(t, i, v)
      BY <1>1, <1>6 DEF Redefined, Names
    <3>3. PICK i \in 1..Len(frames[t]) : Names(t, i, v)
      BY <3>1, NamesRedefined
    <3>4. i = Len(frames[t])
      BY <1>1, <3>2, <3>3
    <3>5. Outermost(t, i, v)
      BY <1>1, <3>2, <3>3, <3>4 DEF Outermost
    <3>6. KeepsBase(t, i, v) /\ PutBack(t, v)
      BY <1>2, <3>3, <3>4, <3>5 DEF BaseOK
    <3> QED  BY <3>4, <3>6 DEF KeepsBase
  <2> QED  BY <2>1, <2>2
<1> QED  BY <1>5, <1>6 DEF BaseOK

\* Opening a form: a var named for the first time has its base.
LEMMA BasePush ==
    ASSUME TypeOK, LocalInv, ApartInv, BaseInv, NEW t \in Threads, NEW f \in Frames,
           Len(frames[t]) < MaxDepth, frames' = [frames EXCEPT ![t] = Append(@, f)],
           f.vals = <<>>, kind[t] = "none", UNCHANGED <<root, base, kind, todo>>,
           \A u \in Threads \ {t} : pc'[u] = pc[u],
           contended \subseteq contended', dirty \subseteq dirty',
           f.form = "redefs" =>
               \A u \in Threads \ {t} : Elems(f.vs) \intersect Holds(u) \subseteq contended'
    PROVE  BaseInv'
<1>1. /\ Len(frames'[t]) = Len(frames[t]) + 1 /\ Len(frames[t]) \in Nat
      /\ frames'[t][Len(frames'[t])] = f
      /\ \A i \in 1..Len(frames[t]) : frames'[t][i] = frames[t][i]
      /\ \A u \in Threads \ {t} : frames'[u] = frames[u]
  BY OpenFrame
<1> SUFFICES ASSUME NEW v \in Vars \ (contended' \union dirty') PROVE BaseOK(v)'
  BY DEF BaseInv
<1>2. BaseOK(v)
  BY DEF BaseInv
<1>3. \A u \in Threads : \A i \in 1..Len(frames[u]) :
          i \in 1..Len(frames'[u]) /\ frames'[u][i] = frames[u][i]
  BY <1>1
<1>4. \A u \in Threads : \A i \in 1..Len(frames[u]) :
          (Names(u, i, v)' <=> Names(u, i, v)) /\ (Outermost(u, i, v)' => Outermost(u, i, v))
  <2>1. \A u \in Threads : \A i \in 1..Len(frames[u]) : Names(u, i, v)' <=> Names(u, i, v)
    BY <1>3 DEF Names
  <2>2. \A u \in Threads : Len(frames[u]) \in Nat
    BY DEF TypeOK
  <2>3. \A u \in Threads : \A i \in 1..Len(frames[u]) : \A j \in 1..i - 1 :
            j \in 1..Len(frames[u])
    BY <2>2
  <2> QED  BY <2>1, <2>3 DEF Outermost
<1>5. \A u \in Threads : v \in Redefined(u) => v \in Redefined(u)'
  BY <1>3 DEF Redefined
<1>6. ASSUME NEW u \in Threads, NEW i \in 1..Len(frames[u]), Outermost(u, i, v)'
      PROVE  KeepsBase(u, i, v)'
  <2>1. KeepsBase(u, i, v) /\ frames'[u][i] = frames[u][i]
    BY <1>2, <1>3, <1>4, <1>6 DEF BaseOK
  <2>2. i = Len(frames'[u]) /\ PutBack(u, v)' => i = Len(frames[u]) /\ PutBack(u, v)
    <3>1. CASE u = t
      BY <3>1 DEF PutBack
    <3>2. CASE u # t
      BY <1>1, <3>2 DEF PutBack, Pending
    <3> QED  BY <3>1, <3>2
  <2> QED  BY <2>1, <2>2 DEF KeepsBase
<1>7. ASSUME NEW n \in 1..Len(frames'[t]), n = Len(frames[t]) + 1, Outermost(t, n, v)'
      PROVE  KeepsBase(t, n, v)'
  <2>1. f.form = "redefs" /\ v \in Elems(f.vs)
    BY <1>1, <1>7 DEF Outermost, Names
  <2>2. v \notin Redefined(t)
    <3>1. \A i \in 1..Len(frames[t]) : ~Names(t, i, v)
      <4>1. \A i \in 1..Len(frames[t]) : i \in 1..n - 1
        BY <1>1, <1>7
      <4> QED  BY <1>4, <1>7, <4>1 DEF Outermost
    <3> QED  BY <3>1, NamesRedefined
  <2>3. \A u \in Threads : v \notin Redefined(u)
    BY <2>1, <2>2 DEF Holds
  <2>4. root[v] = base[v]
    BY <1>2, <2>3 DEF BaseOK
  <2>5. Len(f.vals) = 0 /\ f.vs \in Seq(Vars)
    BY RedefsFrame
  <2>6. \A k \in 1..Len(f.vs) : ~(k <= Len(f.vals))
    BY <2>5
  <2>7. frames'[t][n] = f /\ root'[v] = base'[v]
    BY <1>1, <1>7, <2>4
  <2> QED  BY <2>6, <2>7 DEF KeepsBase
<1>8. ASSUME NEW u \in Threads, NEW i \in 1..Len(frames'[u]), Outermost(u, i, v)'
      PROVE  KeepsBase(u, i, v)'
  <2>1. i \in 1..Len(frames[u]) \/ (u = t /\ i = Len(frames[t]) + 1)
    BY <1>1
  <2> QED  BY <1>6, <1>7, <1>8, <2>1
<1> QED  BY <1>2, <1>5, <1>8 DEF BaseOK

\* Capturing a root: outside any binding it is the base of a var that no
\* form around this one names.
LEMMA BaseCapture ==
    ASSUME TypeOK, LocalInv, BaseInv, NEW t \in Threads, Capture(t)
    PROVE  BaseInv'
<1> DEFINE f == Top(t)  n == Len(frames[t])  w == f.vs[Len(f.vals) + 1]
<1>1. /\ \A u \in Threads \ {t} : frames'[u] = frames[u] /\ todo'[u] = todo[u]
      /\ Len(frames'[t]) = n
      /\ \A i \in 1..n :
           frames'[t][i].form = frames[t][i].form /\ frames'[t][i].vs = frames[t][i].vs
      /\ \A i \in 1..n - 1 : frames'[t][i] = frames[t][i]
      /\ f.vals \in Seq(Values) /\ Len(f.vals) < Len(f.vs)
      /\ frames'[t][n].vals = Append(f.vals, Deref(w))
  BY CaptureLocal
<1>2. /\ UNCHANGED <<root, chain, base, contended>>
      /\ dirty' = IF chain[w] # <<>> THEN dirty \union {w} ELSE dirty
      /\ pc[t] = "capture" /\ frames[t] # <<>> /\ kind[t] = "none"
  BY DEF Capture, varVars, LocalInv, LocalOK
<1>3. /\ kind'[t] # "leave"
      /\ \A u \in Threads \ {t} : kind'[u] = kind[u] /\ pc'[u] = pc[u]
  BY <1>2 DEF Capture, Begin, TypeOK
<1>4. /\ n \in Nat /\ n > 0 /\ f \in Frames /\ f = frames[t][n]
      /\ f.vs \in Seq(Vars) /\ Len(f.vs) \in Nat
  <2>1. n \in Nat /\ n > 0 /\ f = frames[t][n] /\ f \in Frames
    BY <1>2 DEF TypeOK, Top
  <2> QED  BY <2>1, RedefsFrame
<1> HIDE DEF f
<1> SUFFICES ASSUME NEW v \in Vars \ (contended' \union dirty') PROVE BaseOK(v)'
  BY DEF BaseInv
<1>5. BaseOK(v)
  BY <1>2 DEF BaseInv
<1>6. \A u \in Threads : /\ Len(frames'[u]) = Len(frames[u])
                         /\ \A i \in 1..Len(frames[u]) : Names(u, i, v)' <=> Names(u, i, v)
  BY <1>1 DEF Names
<1>7. \A u \in Threads : \A i \in 1..Len(frames[u]) : Outermost(u, i, v)' => Outermost(u, i, v)
  <2>1. \A u \in Threads : \A i \in 1..Len(frames[u]) : \A j \in 1..i - 1 :
            j \in 1..Len(frames[u])
    <3>1. \A u \in Threads : Len(frames[u]) \in Nat
      BY DEF TypeOK
    <3> QED  BY <3>1
  <2> QED  BY <1>6, <2>1 DEF Outermost
<1>8. \A u \in Threads : v \in Redefined(u)' <=> v \in Redefined(u)
  BY <1>6 DEF Redefined, Names
<1>9. ASSUME NEW u \in Threads, NEW i \in 1..Len(frames'[u]), Outermost(u, i, v)'
      PROVE  KeepsBase(u, i, v)'
  <2>1. i \in 1..Len(frames[u]) /\ KeepsBase(u, i, v)
    BY <1>5, <1>6, <1>7, <1>9 DEF BaseOK
  <2>2. i = Len(frames'[u]) /\ PutBack(u, v)' => i = Len(frames[u]) /\ PutBack(u, v)
    <3>1. CASE u = t
      BY <1>3, <3>1 DEF PutBack
    <3>2. CASE u # t
      BY <1>1, <1>3, <3>2 DEF PutBack, Pending
    <3> QED  BY <3>1, <3>2
  <2>3. CASE u # t \/ i # n
    <3>1. frames'[u][i] = frames[u][i]
      BY <1>1, <1>4, <2>1, <2>3
    <3> QED  BY <1>2, <2>1, <2>2, <3>1 DEF KeepsBase
  <2>4. CASE u = t /\ i = n
    <3> DEFINE h == frames'[t][n].vals
    <3>1. /\ Len(h) = Len(f.vals) + 1 /\ Len(f.vals) \in Nat
          /\ \A k \in 1..Len(f.vals) : h[k] = f.vals[k]
          /\ h[Len(f.vals) + 1] = Deref(w)
      <4>1. \A d : /\ Len(Append(f.vals, d)) = Len(f.vals) + 1 /\ Len(f.vals) \in Nat
                   /\ \A k \in 1..Len(f.vals) : Append(f.vals, d)[k] = f.vals[k]
                   /\ Append(f.vals, d)[Len(f.vals) + 1] = d
        BY <1>1
      <4> QED  BY <1>1, <4>1
    <3>2. frames'[t][n].vs = f.vs
      BY <1>1, <1>4
    <3> HIDE DEF h
    <3>3. ASSUME NEW k \in 1..Len(f.vs), f.vs[k] = v
          PROVE  /\ k <= Len(h) => h[k] = base[v]
                 /\ k > Len(h) => root[v] = base[v]
      <4>1. CASE k <= Len(f.vals)
        BY <1>4, <2>1, <2>4, <3>1, <3>3, <4>1 DEF KeepsBase
      <4>2. CASE k > Len(f.vals)
        <5>1. root[v] = base[v]
          BY <1>4, <2>1, <2>4, <3>3, <4>2 DEF KeepsBase
        <5>2. ASSUME k = Len(f.vals) + 1 PROVE Deref(w) = root[v]
          BY <1>2, <3>3, <5>2 DEF Deref
        <5>3. k <= Len(h) => k = Len(f.vals) + 1
          BY <1>4, <3>1, <4>2
        <5> QED  BY <3>1, <5>1, <5>2, <5>3
      <4> QED  BY <1>4, <3>1, <4>1, <4>2
    <3>4. (i = Len(frames'[u]) /\ PutBack(u, v)') => root[v] = base[v]
      BY <2>1, <2>2 DEF KeepsBase
    <3> QED  BY <1>2, <2>4, <3>2, <3>3, <3>4 DEF KeepsBase, h
  <2> QED  BY <2>3, <2>4
<1> QED  BY <1>2, <1>5, <1>8, <1>9 DEF BaseOK

LEMMA BaseNext ==
    TypeOK /\ LocalInv /\ ApartInv /\ StoresInv /\ BaseInv /\ [Next]_vars => BaseInv'
<1> SUFFICES ASSUME TypeOK, LocalInv, ApartInv, StoresInv, BaseInv, [Next]_vars
             PROVE  BaseInv'
  OBVIOUS
<1>0. /\ todo \in [Threads -> Seq(Vars \X Values)] /\ frames \in [Threads -> Seq(Frames)]
      /\ kind \in [Threads -> Kinds] /\ pc \in [Threads -> PCs]
  BY DEF TypeOK
<1>1. CASE UNCHANGED vars
  <2>1. \A u \in Threads, v \in Vars : PutBack(u, v)' => PutBack(u, v)
    BY <1>1 DEF vars, PutBack, Pending
  <2> QED  BY <1>1, <2>1, BaseQuiet DEF vars, varVars, history
<1>2. ASSUME NEW t \in Threads, NEW v \in Vars, SetOrAlter(t, v) PROVE BaseInv'
  <2>1. /\ kind'[t] # "leave"
        /\ \A u \in Threads \ {t} :
              kind'[u] = kind[u] /\ todo'[u] = todo[u] /\ pc'[u] = pc[u]
    BY <1>0, <1>2 DEF SetOrAlter, Begin
  <2>2. \A u \in Threads, w \in Vars : PutBack(u, w)' => PutBack(u, w)
    BY <2>1 DEF PutBack, Pending
  <2> QED  BY <1>2, <2>2, BaseQuiet DEF SetOrAlter, varVars
<1>3. ASSUME NEW t \in Threads, SwapFlag(t) \/ AddDeviation(t) PROVE BaseInv'
  <2>1. /\ pc[t] # "store" /\ kind' = kind /\ todo' = todo
        /\ \A u \in Threads \ {t} : pc'[u] = pc[u]
    BY <1>0, <1>3 DEF SwapFlag, AddDeviation
  <2>2. \A u \in Threads, w \in Vars : PutBack(u, w)' => PutBack(u, w)
    BY <2>1 DEF PutBack, Pending
  <2> QED  BY <1>3, <2>2, BaseQuiet DEF SwapFlag, AddDeviation, history
<1>4. ASSUME NEW t \in Threads, Stored(t) PROVE BaseInv'
  <2>1. /\ pc[t] = "notify" /\ LocalOK(t)
        /\ todo' = [todo EXCEPT ![t] = Tail(@)]
        /\ \A u \in Threads \ {t} :
              kind'[u] = kind[u] /\ todo'[u] = todo[u] /\ pc'[u] = pc[u]
    BY <1>0, <1>4 DEF Stored, LocalInv
  <2>2. /\ todo[t] \in Seq(Vars \X Values) /\ Len(todo[t]) \in Nat /\ Len(todo[t]) > 0
        /\ Head(todo[t]) = todo[t][1]
    BY <2>1, HeadTodo
  <2>3. /\ Len(todo'[t]) = Len(todo[t]) - 1
        /\ \A j \in 1..Len(todo'[t]) : todo'[t][j] = todo[t][j + 1]
    BY <1>0, <2>1, <2>2
  <2>4. \A w \in Pending(t) : w \in Pending(t)' \/ w = Head(todo[t])[1]
    <3> SUFFICES ASSUME NEW j \in 1..Len(todo[t]), j # 1
                 PROVE  todo[t][j][1] \in Pending(t)'
      BY <2>2 DEF Pending
    <3>1. j - 1 \in 1..Len(todo'[t]) /\ todo'[t][j - 1] = todo[t][j]
      BY <2>2, <2>3
    <3> QED  BY <3>1 DEF Pending
  <2>5. CASE Len(todo[t]) = 1 /\ kind[t] = "leave"
    <3>1. /\ frames[t] # <<>> /\ frames' = [frames EXCEPT ![t] = Outer(t)]
          /\ kind'[t] = "none" /\ UNCHANGED <<root, base, contended, dirty>>
      BY <1>0, <1>4, <2>1, <2>5 DEF Stored, LocalOK, varVars, history
    <3>2. Len(todo'[t]) = 0
      BY <2>2, <2>3, <2>5
    <3>3. \A w \in Vars : PutBack(t, w)
      BY <2>1, <2>4, <2>5, <3>2 DEF PutBack, Pending
    <3> QED  BY <2>1, <3>1, <3>3, BasePop
  <2>6. CASE ~(Len(todo[t]) = 1 /\ kind[t] = "leave")
    <3>1. UNCHANGED <<root, base, contended, dirty, frames>>
      BY <1>4, <2>6 DEF Stored, varVars, history
    <3>2. kind'[t] = "leave" => kind[t] = "leave" /\ pc'[t] = "store" /\ Len(todo'[t]) > 0
      BY <1>0, <1>4, <2>2, <2>3 DEF Stored
    <3>3. \A w \in Vars : PutBack(t, w)' => PutBack(t, w)
      BY <2>1, <2>4, <3>2 DEF PutBack
    <3>4. \A u \in Threads \ {t}, w \in Vars : PutBack(u, w)' => PutBack(u, w)
      BY <2>1 DEF PutBack, Pending
    <3> QED  BY <3>1, <3>3, <3>4, BaseQuiet
  <2> QED  BY <2>5, <2>6
<1>5. ASSUME NEW t \in Threads, WatchThrows(t) PROVE BaseInv'
  <2>1. /\ kind'[t] = "none" /\ UNCHANGED <<root, base, contended>> /\ LocalOK(t)
        /\ pc[t] = "notify" /\ kind[t] # "set"
        /\ \A u \in Threads \ {t} :
              kind'[u] = kind[u] /\ todo'[u] = todo[u] /\ pc'[u] = pc[u]
    BY <1>0, <1>5 DEF WatchThrows, LocalInv, varVars
  <2>2. CASE kind[t] = "alter"
    <3>1. \A u \in Threads, w \in Vars : PutBack(u, w)' => PutBack(u, w)
      BY <2>1 DEF PutBack, Pending
    <3> QED  BY <1>5, <2>1, <2>2, <3>1, BaseQuiet DEF WatchThrows
  <2>3. CASE kind[t] # "alter"
    <3>1. frames[t] # <<>>
      BY <1>0, <2>1, <2>3 DEF LocalOK, Kinds
    <3>2. frames' = [frames EXCEPT ![t] = Outer(t)] /\ dirty' = dirty \union Elems(Top(t).vs)
      BY <1>5, <2>3 DEF WatchThrows
    <3>3. \A w \in Vars \ (contended' \union dirty') : ~Names(t, Len(frames[t]), w)
      BY <3>2 DEF Names, Top
    <3>4. contended \subseteq contended' /\ dirty \subseteq dirty'
      BY <2>1, <3>2
    <3> QED  BY <2>1, <3>1, <3>2, <3>3, <3>4, BasePop
  <2> QED  BY <2>2, <2>3
<1>6. ASSUME NEW t \in Threads, NEW vs \in Redefs, WithRedefs(t, vs) PROVE BaseInv'
  <2> DEFINE f == [form |-> "redefs", vs |-> vs, vals |-> <<>>]
  <2>1. f \in Frames /\ f.vs = vs /\ f.vals = <<>>
    BY DEF Frames
  <2>2. /\ frames' = [frames EXCEPT ![t] = Append(@, f)] /\ Len(frames[t]) < MaxDepth
        /\ contended' = contended \union Contends(t, vs)
        /\ UNCHANGED <<root, base, kind, todo, dirty>> /\ pc[t] = "run"
        /\ \A u \in Threads \ {t} : pc'[u] = pc[u]
    BY <1>0, <1>6 DEF WithRedefs, Starts, varVars
  <2> HIDE DEF f
  <2>3. kind[t] = "none"
    BY <2>2 DEF LocalInv, LocalOK
  <2>4. \A u \in Threads \ {t} : Elems(f.vs) \intersect Holds(u) \subseteq contended'
    BY <2>1, <2>2 DEF Contends
  <2>5. contended \subseteq contended' /\ dirty \subseteq dirty'
    BY <2>2
  <2> QED  BY <2>1, <2>2, <2>3, <2>4, <2>5, BasePush
<1>7. ASSUME NEW t \in Threads, Restore(t) PROVE BaseInv'
  <2>1. /\ Len(todo'[t]) = Len(Top(t).vs)
        /\ \A i \in 1..Len(todo'[t]) : todo'[t][i][1] = Top(t).vs[i]
    BY <1>7, RestoreLocal
  <2>2. /\ pc'[t] = "store" /\ todo'[t] # <<>>
        /\ UNCHANGED <<root, base, frames, contended, dirty>>
        /\ \A u \in Threads \ {t} :
              kind'[u] = kind[u] /\ todo'[u] = todo[u] /\ pc'[u] = pc[u]
    <3>1. pc'[t] = "store"
      BY <1>0, <1>7 DEF Restore, Begin
    <3>2. todo'[t] # <<>>
      BY <1>7, <3>1, RestoreLocal DEF LocalInv, LocalOK
    <3> QED  BY <1>0, <1>7, <3>1, <3>2 DEF Restore, Begin, varVars, history
  <2>3. ASSUME NEW w \in Vars, Names(t, Len(frames[t]), w) PROVE w \in Pending(t)'
    BY <2>1, <2>3 DEF Names, Elems, Pending, Top
  <2>4. \A u \in Threads, w \in Vars :
            Names(u, Len(frames[u]), w) /\ PutBack(u, w)' => PutBack(u, w)
    BY <2>2, <2>3 DEF PutBack, Pending
  <2> QED  BY <2>2, <2>4, BaseQuiet
<1>8. ASSUME NEW t \in Threads, NEW v \in Bindable, PushBinding(t, v) PROVE BaseInv'
  <2> DEFINE f == [form |-> "binding", vs |-> <<v>>, vals |-> <<>>]
  <2>1. f \in Frames /\ f.form = "binding" /\ f.vals = <<>>
    BY VarRootsConstants DEF Frames
  <2>2. /\ frames' = [frames EXCEPT ![t] = Append(@, f)] /\ Len(frames[t]) < MaxDepth
        /\ UNCHANGED <<root, base, kind, todo, pc, contended, dirty>> /\ pc[t] = "run"
    BY <1>8 DEF PushBinding, Starts, varVars, history
  <2> HIDE DEF f
  <2>3. kind[t] = "none"
    BY <2>2 DEF LocalInv, LocalOK
  <2> QED  BY <2>1, <2>2, <2>3, BasePush
<1>9. ASSUME NEW t \in Threads, PopBinding(t) PROVE BaseInv'
  <2>1. /\ frames' = [frames EXCEPT ![t] = Outer(t)] /\ frames[t] # <<>>
        /\ UNCHANGED <<root, base, kind, todo, pc, contended, dirty>>
        /\ pc[t] = "run" /\ Top(t).form = "binding"
    BY <1>9 DEF PopBinding, varVars, history
  <2>2. kind'[t] = "none"
    BY <2>1 DEF LocalInv, LocalOK
  <2>3. \A w \in Vars : ~Names(t, Len(frames[t]), w)
    BY <2>1 DEF Names, Top
  <2> QED  BY <2>1, <2>2, <2>3, BasePop
<1>10. ASSUME NEW v \in Watchable, AddWatch(v) \/ RemoveWatch(v) PROVE BaseInv'
  <2>1. /\ UNCHANGED <<root, base, frames, kind, todo, pc, contended, dirty>>
        /\ \A u \in Threads, w \in Vars : PutBack(u, w)' => PutBack(u, w)
    BY <1>10 DEF AddWatch, RemoveWatch, history, PutBack, Pending
  <2> QED  BY <2>1, BaseQuiet
<1> QED  BY <1>1, <1>2, <1>3, <1>4, <1>5, <1>6, <1>7, <1>8, <1>9, <1>10,
            BaseStore, BaseCapture DEF Next

\* The stores of every form and the bases of uncontended vars, always.
THEOREM RestoreInvariant == Spec => []RestoreInv
<1>1. Init => StoresInv /\ BaseInv
  <2> SUFFICES ASSUME Init PROVE StoresInv /\ BaseInv
    OBVIOUS
  <2>1. \A t \in Threads : kind[t] = "none" /\ Len(frames[t]) = 0
    BY DEF Init
  <2>2. \A v \in Vars : root[v] = base[v]
    BY DEF Init
  <2> QED  BY <2>1, <2>2 DEF StoresInv, StoresOfForm, BaseInv, BaseOK
<1> QED  BY <1>1, LocalInit, LocalNext, ApartInit, ApartNext, StoresNext, BaseNext, PTL
         DEF Spec, RestoreInv

(* with-redefs puts the roots back, for any number of threads, vars and    *)
(* nested forms, whatever the bodies define, throw or bind: the root of an *)
(* uncontended var that no thread works on is the one last set outside     *)
(* every with-redefs (with-redefs-fn, core.lg; var.go:142-205).            *)
THEOREM RootsRestored == Spec => []RedefsRestore
<1>1. RestoreInv => RedefsRestore
  BY DEF RestoreInv, BaseInv, BaseOK, RedefsRestore, Holds
<1> QED  BY <1>1, RestoreInvariant, PTL
=============================================================================
