---------------------------- MODULE FutureProofs ----------------------------
(***************************************************************************)
(* Proofs about the two halves of a future: the bindings it is spawned     *)
(* under (Bindings) and the promise it delivers (Promise).                 *)
(*                                                                         *)
(* Bindings: for any number of threads, vars, forms and futures the        *)
(* registry of the root context tells the live root bindings, and none     *)
(* outlives the forms that made it; a thread sees its own innermost        *)
(* binding of a var; a future starts with what its spawner bound; and the  *)
(* child contexts are isolated from each other (DynScope).  Held(v) counts *)
(* the live root bindings of v by thread, form and place in the form;      *)
(* RootInv says that it is the length of the chain of v, which is why a    *)
(* pop always finds something to pop and why nothing is left when the last *)
(* form is.  OwnInv places them: what a thread pushed is as far from the   *)
(* top of what the thread sees as it has pushed others after it.  A child  *)
(* keeps the frames of all vars on one stack, so "what it sees" (ByVar) is *)
(* taken apart first: what a push, a pop, a set! and an installed snapshot *)
(* do to the frames of one var and leave of the others.                    *)
(*                                                                         *)
(* Promise: for any number of threads and operations the three writes of   *)
(* Deliver and the unlocked reads of Deref together implement a write-once *)
(* cell, and so do put, doClose and take of a promise-chan.  LockInv ties  *)
(* the state of the promise to the program counter of the thread that      *)
(* holds the mutex; it is what shows that a value is never overwritten and *)
(* that whoever is woken finds one.                                        *)
(***************************************************************************)
EXTENDS Bindings, Promise, FiniteSetTheorems, SequenceTheorems,
        WellFoundedInduction, TLAPS

Pairs == Vars \X Values
FormType == [vs : Seq(Vars), pushed : Seq(Pairs)]

\* The n-th value of a thread is a value.
LEMMA ValueIn ==
    ASSUME NEW p \in Procs, NEW i \in 1..MaxOps[p]
    PROVE  <<p, i>> \in Values
BY DEF Values

\* Appending to a sequence.
LEMMA Grown ==
    ASSUME NEW S, NEW s \in Seq(S), NEW x \in S
    PROVE  /\ Append(s, x) \in Seq(S) /\ Append(s, x) # <<>>
           /\ Len(Append(s, x)) = Len(s) + 1 /\ Append(s, x)[Len(s) + 1] = x
           /\ \A i \in 1..Len(s) : Append(s, x)[i] = s[i]
BY AppendProperties

\* Taking the last element off ...
LEMMA Shortened ==
    ASSUME NEW S, NEW s \in Seq(S), s # <<>>
    PROVE  /\ Front(s) \in Seq(S) /\ Len(Front(s)) = Len(s) - 1 /\ Len(s) > 0
           /\ \A i \in 1..Len(s) - 1 : Front(s)[i] = s[i]
           /\ Last(s) = s[Len(s)] /\ Last(s) \in S
<1>1. Len(s) \in Nat /\ Len(s) > 0 /\ \A i \in 1..Len(s) : s[i] \in S
  OBVIOUS
<1>2. \A i \in 1..(Len(s) - 1) : s[i] \in S
  BY <1>1
<1> DEFINE m == Len(s) - 1
<1>3. m \in Int /\ 1 \in Int /\ m = Len(s) - 1 /\ \A i \in 1..m : s[i] \in S
  BY <1>1, <1>2
<1> HIDE DEF m
<1>4. /\ SubSeq(s, 1, m) \in Seq(S)
      /\ Len(SubSeq(s, 1, m)) = IF 1 <= m THEN m - 1 + 1 ELSE 0
      /\ \A i \in 1..(m - 1 + 1) : SubSeq(s, 1, m)[i] = s[1 + i - 1]
  BY <1>3, SubSeqProperties
<1>5. Front(s) = SubSeq(s, 1, m) /\ Last(s) = s[Len(s)]
  BY <1>3 DEF Front, Last
<1> QED  BY <1>1, <1>3, <1>4, <1>5

\* ... and the first.
LEMMA Rest ==
    ASSUME NEW S, NEW s \in Seq(S), s # <<>>
    PROVE  /\ Tail(s) \in Seq(S) /\ Len(Tail(s)) = Len(s) - 1 /\ s[1] \in S
           /\ \A i \in 1..Len(s) - 1 : Tail(s)[i] = s[i + 1]
BY HeadTailProperties

\* A set of numbers has a least element ...
LEMMA NatMin ==
    ASSUME NEW T \in SUBSET Nat, T # {}
    PROVE  \E x \in T : \A y \in T : x <= y
<1>1. PICK x \in T : \A y \in T : ~(<<y, x>> \in OpToRel(<, Nat))
  BY WFMin, NatLessThanWellFounded
<1>2. \A y \in T : <<y, x>> \in OpToRel(<, Nat) <=> y < x
  BY DEF OpToRel
<1>3. \A y \in T : y \in Nat /\ x \in Nat
  OBVIOUS
<1>4. \A y \in T : ~(y < x)
  BY <1>1, <1>2
<1> QED  BY <1>3, <1>4

\* ... and a bounded one a greatest.
LEMMA HasMax ==
    ASSUME NEW d \in Nat, NEW T \in SUBSET (1..d), T # {}
    PROVE  \E x \in T : \A y \in T : y <= x
<1> DEFINE U == {d - i : i \in T}
<1>0. \A i \in T : i \in 1..d /\ i \in Int /\ d - i \in Nat
 OBVIOUS
<1>1. U \in SUBSET Nat /\ U # {}
 BY <1>0
<1>2. PICK u \in U : \A w \in U : u <= w
 BY <1>1, NatMin
<1>3. PICK x \in T : u = d - x
 OBVIOUS
<1>4. ASSUME NEW y \in T PROVE y <= x
  <2>1. d - y \in U 
    OBVIOUS
  <2>2. u <= d - y /\ x \in Int /\ y \in Int
    BY <1>0, <1>2, <2>1
  <2> QED  BY <1>3, <2>2
<1> QED  BY <1>4

\* The vars of a form and what it has pushed of them.
LEMMA FormFields ==
    ASSUME NEW f \in FormType
    PROVE  /\ f.vs \in Seq(Vars) /\ f.pushed \in Seq(Pairs)
           /\ Len(f.vs) \in Nat /\ Len(f.pushed) \in Nat
           /\ \A j \in 1..Len(f.vs) : f.vs[j] \in Vars
           /\ \A j \in 1..Len(f.pushed) : f.pushed[j] \in Pairs
<1>1. f.vs \in Seq(Vars) /\ f.pushed \in Seq(Pairs)
  BY DEF FormType
<1>2. ASSUME NEW S, NEW s \in Seq(S) PROVE Len(s) \in Nat /\ \A j \in 1..Len(s) : s[j] \in S
  OBVIOUS
<1> QED  BY <1>1, <1>2

\* The forms of a thread and what is known of them.
LEMMA FormOf ==
    ASSUME RootTypes, NEW p \in Procs
    PROVE  /\ frames[p] \in Seq(FormType) /\ Len(frames[p]) \in Nat
           /\ \A i \in 1..Len(frames[p]) : frames[p][i] \in FormType
           /\ ops[p] \in Nat /\ ops[p] <= MaxOps[p]
<1>1. frames[p] \in Seq(FormType)
  BY DEF RootTypes, FormType, Pairs
<1>3. ops[p] \in Nat /\ ops[p] <= MaxOps[p]
  BY DEF RootTypes
<1>2. ASSUME NEW S, NEW s \in Seq(S) PROVE Len(s) \in Nat /\ \A j \in 1..Len(s) : s[j] \in S
  OBVIOUS
<1> QED  BY <1>1, <1>2, <1>3

-----------------------------------------------------------------------------
\* A thread that no step touches keeps its forms.
LEMMA FormStill ==
    ASSUME NEW q \in Procs, FormInv(q), RootTypes,
           frames'[q] = frames[q], ops'[q] \in Nat, ops'[q] >= ops[q], cur'[q] = cur[q],
           \/ pc'[q] = pc[q]
           \/ {pc[q], pc'[q]} \intersect {"push", "add", "pop", "remove"} = {}
    PROVE  FormInv(q)' /\ \A v : Open(q, v)' = Open(q, v)
<1>1. \A i : Gone(q, i)' = Gone(q, i)
  BY DEF Gone
<1>2. FormInv(q)'
  <2>1. ops[q] > 0 => ops'[q] > 0
    BY FormOf
  <2>2. \A w \in {"push", "add", "pop", "remove"} : pc[q] = w <=> pc'[q] = w
    OBVIOUS
  <2> QED  BY <1>1, <2>1, <2>2 DEF FormInv
<1>3. \A v : Open(q, v)' = Open(q, v)
  BY <1>1 DEF Open, Live
<1> QED  BY <1>2, <1>3

\* What depends on the forms of the root threads only.
LEMMA HeldStill ==
    ASSUME NEW v, \A p \in Roots : Open(p, v)' = Open(p, v)
    PROVE  Held(v)' = Held(v)
BY DEF Held

\* A step outside the root context keeps the invariant.
LEMMA Aside ==
    ASSUME RootInv, RootTypes', SnapInv', \A p \in Procs : FormInv(p)',
           UNCHANGED <<chain, registry, overlapped>>, leaked \subseteq leaked',
           \A p \in Roots : \A v : Open(p, v)' = Open(p, v),
           \A p \in Roots : /\ cur'[p] = cur[p]
                            /\ \/ pc'[p] = pc[p]
                               \/ {pc[p], pc'[p]} \intersect {"add", "remove"} = {}
    PROVE  RootInv'
<1>0. \A v : Held(v)' = Held(v)
  BY HeldStill
<1>1. ChainInv'
  <2>1. ASSUME NEW v \in Vars
        PROVE  /\ IsFiniteSet(Held(v)') /\ Cardinality(Held(v)') <= Len(chain'[v])
               /\ v \notin leaked' => Cardinality(Held(v)') = Len(chain'[v])
    BY <1>0 DEF RootInv, ChainInv
  <2> QED  BY <2>1 DEF ChainInv
<1>2. RemoveInv'
  BY DEF RootInv, RemoveInv
<1>3. RegistryHonest'
  <2>1. \A p \in Roots : \A w \in {"add", "remove"} : pc[p] = w => pc'[p] = w
    OBVIOUS
  <2>2. chain' = chain /\ registry' = registry /\ overlapped' = overlapped
    OBVIOUS
  <2> QED  BY <2>1, <2>2 DEF RootInv, RegistryHonest
<1> QED  BY <1>1, <1>2, <1>3 DEF RootInv

\* Nor does one that leaves the forms alone, whoever takes it.
LEMMA AsideStill ==
    ASSUME RootInv, RootTypes', SnapInv',
           UNCHANGED <<chain, registry, cur, frames, ops, overlapped, leaked>>,
           \A p \in Procs :
              \/ pc'[p] = pc[p]
              \/ {pc[p], pc'[p]} \intersect {"push", "add", "pop", "remove"} = {}
    PROVE  RootInv'
<1>1. ASSUME NEW p \in Procs PROVE FormInv(p)' /\ \A v : Open(p, v)' = Open(p, v)
  <2>1. ops[p] \in Nat /\ RootTypes /\ FormInv(p)
    BY DEF RootInv, RootTypes
  <2> QED  BY <2>1, FormStill
<1> QED  BY <1>1, Aside DEF Procs

\* The types of what the steps outside the root context do change.
LEMMA TypesStill ==
    ASSUME RootInv, UNCHANGED <<chain, registry, cur, frames, ops, overlapped>>,
           pc' \in [Procs -> PCs], \A k \in Kids : pc'[k] \notin {"add", "remove"},
           DOMAIN snap' = Procs,
           \A q \in Procs : /\ DOMAIN snap'[q] = {"for", "left", "got"}
                            /\ snap'[q].for.kid \in Kids \union {None}
    PROVE  RootTypes'
BY DEF RootInv, RootTypes

\* No snapshot is begun or ended, and no kid begins.
LEMMA SnapStill ==
    ASSUME RootInv, UNCHANGED snap, \A k \in Procs : pc[k] = "none" => pc'[k] = "none"
    PROVE  SnapInv'
<1>1. \A p \in Procs : snap[p].for.kid \in Procs \union {None}
  BY DEF RootInv, RootTypes, Procs
<1> QED  BY <1>1 DEF RootInv, SnapInv

-----------------------------------------------------------------------------
\* Snapshots and the end of a kid.
LEMMA InvBeginSnapshot ==
    ASSUME RootInv, NEW p \in Procs, NEW for \in Purposes, BeginSnapshot(p, for)
    PROVE  RootInv'
<1> DEFINE m == IF p \in Roots THEN [for |-> for, left |-> registry, got |-> Empty]
                ELSE [for |-> for, left |-> {}, got |-> ByVar(stack[p])]
<1>1. /\ pc[p] = "run" /\ pc' = [pc EXCEPT ![p] = "snap"] /\ snap' = [snap EXCEPT ![p] = m]
      /\ for.kid # None => pc[for.kid] = "none" /\ \A q \in Procs : snap[q].for.kid # for.kid
      /\ UNCHANGED <<chain, registry, cur, frames, ops, overlapped, leaked>>
  BY DEF BeginSnapshot, ctxVars, history
<1>2. for.kid \in Kids \union {None}
  BY DEF Purposes
<1>3. m.for = for /\ DOMAIN m = {"for", "left", "got"}
  OBVIOUS
<1> HIDE DEF m
<1>6. DOMAIN snap' = Procs /\ \A q \in Procs : snap'[q] = IF q = p THEN m ELSE snap[q]
  BY <1>1 DEF RootInv, RootTypes
<1>4. RootTypes'
  <2>1. pc' \in [Procs -> PCs] /\ \A k \in Kids : pc'[k] \notin {"add", "remove"}
    BY <1>1 DEF RootInv, RootTypes, PCs
  <2>2. \A q \in Procs : /\ DOMAIN snap'[q] = {"for", "left", "got"}
                         /\ snap'[q].for.kid \in Kids \union {None}
    BY <1>2, <1>3, <1>6 DEF RootInv, RootTypes
  <2> QED  BY <1>1, <1>6, <2>1, <2>2, TypesStill
<1>5. SnapInv'
  <2>2. \A k \in Procs : pc[k] = "none" => pc'[k] = "none"
    BY <1>1 DEF RootInv, RootTypes
  <2>3. \A q \in Procs : snap[q].for.kid \in Procs \union {None}
    BY DEF RootInv, RootTypes, Procs
  <2> QED  BY <1>1, <1>2, <1>3, <1>6, <2>2, <2>3 DEF RootInv, SnapInv, Procs
<1>7. pc'[p] = "snap" /\ \A q \in Procs \ {p} : pc'[q] = pc[q]
  BY <1>1 DEF RootInv, RootTypes
<1> QED  BY <1>1, <1>4, <1>5, <1>7, AsideStill

\* Reading a chain changes no kid and no form.
LEMMA InvReadChain ==
    ASSUME RootInv, NEW p \in Procs, NEW v \in Vars, ReadChain(p, v)
    PROVE  RootInv'
<1>1. /\ snap' = [snap EXCEPT ![p].left = @ \ {v}, ![p].got[v] = chain[v]]
      /\ UNCHANGED <<chain, registry, cur, frames, ops, overlapped, leaked, pc>>
  BY DEF ReadChain, ctxVars, history
<1>2. /\ DOMAIN snap' = DOMAIN snap
      /\ \A q \in Procs : snap'[q].for = snap[q].for /\ DOMAIN snap'[q] = DOMAIN snap[q]
  BY <1>1 DEF RootInv, RootTypes
<1>3. RootTypes'
  BY <1>1, <1>2 DEF RootInv, RootTypes
<1>4. SnapInv'
  <2>1. \A q \in Procs : snap'[q].for.kid = snap[q].for.kid
    BY <1>2
  <2>2. pc' = pc
    BY <1>1
  <2> QED  BY <2>1, <2>2 DEF RootInv, SnapInv
<1> QED  BY <1>1, <1>3, <1>4, AsideStill

\* The kid of a snapshot has not begun when it is installed.
LEMMA InvInstall ==
    ASSUME RootInv, NEW p \in Procs, Install(p)
    PROVE  RootInv'
<1> DEFINE k == snap[p].for.kid
<1>1. /\ pc[p] = "snap" /\ k # None
      /\ \E w \in {"wait", "run"} : pc' = [pc EXCEPT ![p] = w, ![k] = "run"]
      /\ snap' = [snap EXCEPT ![p] = NoSnap]
      /\ UNCHANGED <<chain, registry, cur, frames, ops, overlapped, leaked>>
  BY DEF Install, history
<1>2. k \in Kids /\ pc[k] = "none"
  BY <1>1 DEF RootInv, RootTypes, SnapInv
<1> HIDE DEF k
<1>3. /\ \A q \in Procs \ {p, k} : pc'[q] = pc[q]
      /\ pc'[p] \in {"wait", "run"} /\ pc'[k] = "run" /\ pc' \in [Procs -> PCs]
  <2>1. PICK w \in {"wait", "run"} : pc' = [pc EXCEPT ![p] = w, ![k] = "run"]
    BY <1>1
  <2>2. pc \in [Procs -> PCs] /\ k \in Procs /\ k # p /\ w \in PCs /\ "run" \in PCs
    BY <1>1, <1>2 DEF RootInv, RootTypes, Procs, PCs
  <2> QED  BY <2>1, <2>2
<1>4. /\ DOMAIN snap' = DOMAIN snap /\ snap'[p] = NoSnap
      /\ \A q \in Procs \ {p} : snap'[q] = snap[q]
  BY <1>1 DEF RootInv, RootTypes
<1>5. DOMAIN NoSnap = {"for", "left", "got"} /\ NoSnap.for.kid = None
  BY DEF NoSnap
<1>6. RootTypes'
  BY <1>1, <1>3, <1>4, <1>5 DEF RootInv, RootTypes, Procs
<1>7. SnapInv'
  <2>1. \A q \in Procs \ {p} : snap[q].for.kid # k
    BY <1>1, <1>2 DEF RootInv, SnapInv, k
  <2>2. \A q \in Procs : snap[q].for.kid # None => snap[q].for.kid \in Procs
    BY DEF RootInv, RootTypes, Procs
  <2> QED  BY <1>1, <1>3, <1>4, <1>5, <2>1, <2>2 DEF RootInv, SnapInv
<1> QED  BY <1>1, <1>2, <1>3, <1>6, <1>7, AsideStill

\* The snapshot of a bound function has no kid.
LEMMA InvCaptureBound ==
    ASSUME RootInv, NEW p \in Procs, CaptureBound(p)
    PROVE  RootInv'
<1>1. /\ pc[p] = "snap" /\ pc' = [pc EXCEPT ![p] = "run"] /\ snap' = [snap EXCEPT ![p] = NoSnap]
      /\ UNCHANGED <<chain, registry, cur, frames, ops, overlapped, leaked>>
  BY DEF CaptureBound, ctxVars, history
<1>2. /\ DOMAIN snap' = DOMAIN snap /\ snap'[p] = NoSnap
      /\ \A q \in Procs \ {p} : snap'[q] = snap[q]
  BY <1>1 DEF RootInv, RootTypes
<1>3. DOMAIN NoSnap = {"for", "left", "got"} /\ NoSnap.for.kid = None
  BY DEF NoSnap
<1>4. pc' \in [Procs -> PCs] /\ pc'[p] = "run" /\ \A q \in Procs \ {p} : pc'[q] = pc[q]
  BY <1>1 DEF RootInv, RootTypes, PCs
<1>5. RootTypes'
  <2>1. \A k \in Kids : pc'[k] \notin {"add", "remove"}
    BY <1>4 DEF RootInv, RootTypes, Procs
  <2>2. \A q \in Procs : /\ DOMAIN snap'[q] = {"for", "left", "got"}
                         /\ snap'[q].for.kid \in Kids \union {None}
    BY <1>2, <1>3 DEF RootInv, RootTypes
  <2> QED  BY <1>1, <1>2, <1>4, <2>1, <2>2, TypesStill DEF RootInv, RootTypes
<1>6. SnapInv'
  <2>1. \A q \in Procs : snap[q].for.kid # None => snap[q].for.kid \in Procs
    BY DEF RootInv, RootTypes, Procs
  <2> QED  BY <1>1, <1>2, <1>3, <1>4, <2>1 DEF RootInv, SnapInv
<1> QED  BY <1>1, <1>4, <1>5, <1>6, AsideStill

\* A kid that returns has no form open.
LEMMA InvReturn ==
    ASSUME RootInv, NEW k \in Kids, Return(k)
    PROVE  RootInv'
<1>1. /\ pc[k] = "run"
      /\ pc' = [q \in Procs |->
                   IF q = k THEN "done"
                   ELSE IF q = parent[k] /\ pc[q] = "wait" THEN "run" ELSE pc[q]]
      /\ UNCHANGED <<chain, registry, cur, frames, ops, overlapped, leaked, snap>>
  BY DEF Return, ctxVars, history
<1>2. /\ pc' \in [Procs -> PCs]
      /\ \A q \in Procs : \/ pc'[q] = pc[q]
                          \/ pc[q] \in {"run", "wait"} /\ pc'[q] \in {"run", "done"}
  BY <1>1 DEF RootInv, RootTypes, PCs
<1>3. RootTypes'
  BY <1>1, <1>2 DEF RootInv, RootTypes, Procs
<1>4. SnapInv'
  BY <1>1, <1>2, SnapStill
<1> QED  BY <1>1, <1>2, <1>3, <1>4, AsideStill

-----------------------------------------------------------------------------
\* Form i of p has pushed v, as the j-th of its vars.
InOpen(p, v, i, j) ==
    i \in 1..Len(frames[p]) /\ j \in Live(p, i) /\ frames[p][i].vs[j] = v

\* The open bindings of a thread, and how a step that changes its forms changes them.
LEMMA OpenElem ==
    ASSUME NEW p, NEW v, NEW S, frames[p] \in Seq(S), frames'[p] \in Seq(S), NEW t
    PROVE  /\ t \in Open(p, v) <=> \E i, j : t = <<i, j>> /\ InOpen(p, v, i, j)
           /\ t \in Open(p, v)' <=> \E i, j : t = <<i, j>> /\ InOpen(p, v, i, j)'
<1>1. DOMAIN frames[p] = 1..Len(frames[p]) /\ DOMAIN frames'[p] = 1..Len(frames'[p])
  OBVIOUS
<1>2. t \in Open(p, v) <=> \E i, j : t = <<i, j>> /\ InOpen(p, v, i, j)
  BY <1>1 DEF Open, InOpen
<1>3. t \in Open(p, v)' <=> \E i, j : t = <<i, j>> /\ InOpen(p, v, i, j)'
  BY <1>1 DEF Open, InOpen
<1> QED  BY <1>2, <1>3

\* No binding is opened or closed ...
LEMMA OpenEq ==
    ASSUME NEW p, NEW v, NEW S, frames[p] \in Seq(S), frames'[p] \in Seq(S),
           \A i, j : InOpen(p, v, i, j)' <=> InOpen(p, v, i, j)
    PROVE  Open(p, v)' = Open(p, v)
<1>1. ASSUME NEW t PROVE t \in Open(p, v)' <=> t \in Open(p, v)
  BY OpenElem
<1> QED  BY <1>1

\* ... one is opened ...
LEMMA OpenAdd ==
    ASSUME NEW p, NEW v, NEW S, frames[p] \in Seq(S), frames'[p] \in Seq(S), NEW a, NEW b,
           \A i, j : InOpen(p, v, i, j)' <=> InOpen(p, v, i, j) \/ (i = a /\ j = b),
           ~InOpen(p, v, a, b)
    PROVE  Open(p, v)' = Open(p, v) \union {<<a, b>>} /\ <<a, b>> \notin Open(p, v)
<1>1. ASSUME NEW t PROVE t \in Open(p, v)' <=> t \in Open(p, v) \/ t = <<a, b>>
  <2>1. t \in Open(p, v) <=> \E i, j : t = <<i, j>> /\ InOpen(p, v, i, j)
    BY OpenElem
  <2>2. t \in Open(p, v)' <=> \E i, j : t = <<i, j>> /\ InOpen(p, v, i, j)'
    BY OpenElem
  <2> QED  BY <2>1, <2>2
<1>2. <<a, b>> \notin Open(p, v)
  <2> DEFINE t == <<a, b>>
  <2>1. t \in Open(p, v) <=> \E i, j : t = <<i, j>> /\ InOpen(p, v, i, j)
    BY OpenElem
  <2>2. \A i, j : t = <<i, j>> => i = a /\ j = b
    OBVIOUS
  <2> QED  BY <2>1, <2>2
<1> QED  BY <1>1, <1>2

\* ... one is closed.
LEMMA OpenDrop ==
    ASSUME NEW p, NEW v, NEW S, frames[p] \in Seq(S), frames'[p] \in Seq(S), NEW a, NEW b,
           \A i, j : InOpen(p, v, i, j)' <=> InOpen(p, v, i, j) /\ ~(i = a /\ j = b),
           InOpen(p, v, a, b)
    PROVE  Open(p, v)' = Open(p, v) \ {<<a, b>>} /\ <<a, b>> \in Open(p, v)
<1>1. ASSUME NEW t PROVE t \in Open(p, v)' <=> t \in Open(p, v) /\ t # <<a, b>>
  <2>1. t \in Open(p, v) <=> \E i, j : t = <<i, j>> /\ InOpen(p, v, i, j)
    BY OpenElem
  <2>2. t \in Open(p, v)' <=> \E i, j : t = <<i, j>> /\ InOpen(p, v, i, j)'
    BY OpenElem
  <2> QED  BY <2>1, <2>2
<1>2. <<a, b>> \in Open(p, v)
  BY OpenElem
<1> QED  BY <1>1, <1>2

\* The threads that do not step keep their forms.
LEMMA OthersStill ==
    ASSUME RootInv, NEW p \in Procs,
           \A q \in Procs \ {p} : /\ frames'[q] = frames[q] /\ pc'[q] = pc[q]
                                  /\ cur'[q] = cur[q] /\ ops'[q] = ops[q]
    PROVE  \A q \in Procs \ {p} : FormInv(q)' /\ \A v : Open(q, v)' = Open(q, v)
<1>1. ASSUME NEW q \in Procs \ {p} PROVE FormInv(q)' /\ \A v : Open(q, v)' = Open(q, v)
  <2>1. ops[q] \in Nat /\ RootTypes /\ FormInv(q)
    BY DEF RootInv, RootTypes
  <2> QED  BY <2>1, FormStill
<1> QED  BY <1>1

\* One thread takes a step that leaves the root context alone.
LEMMA AsideOne ==
    ASSUME RootInv, RootTypes', NEW p \in Procs, FormInv(p)', pc[p] # "none",
           pc' = [pc EXCEPT ![p] = pc'[p]], UNCHANGED <<chain, registry, overlapped, snap>>,
           leaked \subseteq leaked',
           \A q \in Procs \ {p} : /\ frames'[q] = frames[q]
                                  /\ cur'[q] = cur[q] /\ ops'[q] = ops[q],
           p \in Roots => /\ cur'[p] = cur[p] /\ \A v : Open(p, v)' = Open(p, v)
                          /\ {pc[p], pc'[p]} \intersect {"add", "remove"} = {}
    PROVE  RootInv'
<1>1. \A q \in Procs \ {p} : pc'[q] = pc[q]
  BY DEF RootInv, RootTypes
<1>2. \A q \in Procs \ {p} : FormInv(q)' /\ \A v : Open(q, v)' = Open(q, v)
  BY <1>1, OthersStill
<1>3. SnapInv'
  BY <1>1, SnapStill
<1>4. \A q \in Procs : FormInv(q)'
  BY <1>2
<1>5. \A q \in Roots : \A v : Open(q, v)' = Open(q, v)
  BY <1>2 DEF Procs
<1> QED  BY <1>1, <1>3, <1>4, <1>5, Aside DEF Procs

-----------------------------------------------------------------------------
\* The steps of a binding form.
LEMMA InvEnter ==
    ASSUME RootInv, NEW p \in Procs, NEW vs \in Forms[p], Enter(p, vs)
    PROVE  RootInv'
<1> DEFINE d == Len(frames[p])
           g == [vs |-> vs, pushed |-> <<>>]
<1>1. /\ pc[p] = "run" /\ ops[p] < MaxOps[p] /\ ops' = [ops EXCEPT ![p] = @ + 1]
      /\ frames' = [frames EXCEPT ![p] = Append(frames[p], g)] /\ pc' = [pc EXCEPT ![p] = "push"]
      /\ UNCHANGED <<chain, registry, cur, snap, overlapped, leaked>>
  BY DEF Enter, Starts, ctxVars, history
<1>2. vs \in Seq(Vars) /\ vs # <<>> /\ Len(vs) > 0
  <2>1. vs \in Seq(Vars) /\ vs # <<>>
    BY BindingsConstants
  <2> QED  BY <2>1
<1>3. g \in FormType /\ Len(g.pushed) = 0 /\ g.vs = vs
  BY <1>2 DEF FormType
<1>4. frames[p] \in Seq(FormType) /\ d \in Nat /\ ops[p] \in Nat
  BY FormOf DEF RootInv
<1> HIDE DEF g
<1>5. /\ frames'[p] \in Seq(FormType) /\ Len(frames'[p]) = d + 1 /\ frames'[p][d + 1] = g
      /\ \A i \in 1..d : frames'[p][i] = frames[p][i]
  BY <1>1, <1>3, <1>4, Grown DEF RootInv, RootTypes
<1>6. pc'[p] = "push" /\ ops'[p] = ops[p] + 1
  BY <1>1 DEF RootInv, RootTypes
<1>7. \A i \in 1..d + 1 : Gone(p, i)' = 0 /\ Gone(p, i) = 0
  BY <1>1, <1>6 DEF Gone
<1>8. FormInv(p)'
  <2>1. FormInv(p)
    BY DEF RootInv
  <2>2. ASSUME NEW i \in 1..d + 1
        PROVE  LET h == frames'[p][i]
               IN  /\ Len(h.pushed) <= Len(h.vs) /\ h.vs # <<>>
                   /\ \A j \in 1..Len(h.pushed) : h.pushed[j][1] = h.vs[Gone(p, i)' + j]
                   /\ i < d + 1 => Len(h.pushed) = Len(h.vs)
    <3>1. CASE i = d + 1
      BY <1>2, <1>3, <1>4, <1>5, <3>1
    <3>2. CASE i # d + 1
      <4>1. i \in 1..d /\ i <= d /\ frames'[p][i] = frames[p][i]
        BY <1>4, <1>5, <3>2
      <4> QED  BY <1>1, <1>4, <1>7, <2>1, <4>1 DEF FormInv
    <3> QED  BY <3>1, <3>2
  <2>3. /\ Len(frames'[p]) = d + 1 /\ d + 1 > 0 /\ pc'[p] = "push" /\ ops'[p] > 0
        /\ Len(frames'[p][d + 1].pushed) < Len(frames'[p][d + 1].vs)
    BY <1>2, <1>3, <1>4, <1>5, <1>6
  <2> QED  BY <2>2, <2>3 DEF FormInv
<1>9. ASSUME NEW v PROVE Open(p, v)' = Open(p, v)
  <2>1. ASSUME NEW i, NEW j PROVE InOpen(p, v, i, j)' <=> InOpen(p, v, i, j)
    <3>1. CASE i \in 1..d
      <4>1. i \in 1..d + 1 /\ frames'[p][i] = frames[p][i]
        BY <1>4, <1>5, <3>1
      <4> QED  BY <1>5, <1>7, <3>1, <4>1 DEF InOpen, Live
    <3>2. CASE i = d + 1
      <4>1. Live(p, i)' = {} /\ i \notin 1..d
        BY <1>3, <1>4, <1>5, <1>7, <3>2 DEF Live
      <4> QED  BY <4>1 DEF InOpen
    <3>3. CASE i \notin 1..d /\ i # d + 1
      BY <1>4, <1>5, <3>3 DEF InOpen
    <3> QED  BY <3>1, <3>2, <3>3
  <2> QED  BY <1>4, <1>5, <2>1, OpenEq
<1>10. RootTypes'
  <2>1. frames' \in [Procs -> Seq(FormType)]
    BY <1>1, <1>5 DEF RootInv, RootTypes, FormType, Pairs
  <2>2. ops' \in [Procs -> Nat] /\ \A q \in Procs : ops'[q] <= MaxOps[q]
    <3>1. ops[p] + 1 \in Nat /\ ops[p] + 1 <= MaxOps[p]
      BY <1>1, <1>4, BindingsConstants
    <3> QED  BY <1>1, <3>1 DEF RootInv, RootTypes
  <2>3. pc' \in [Procs -> PCs] /\ \A k \in Kids : pc'[k] \notin {"add", "remove"}
    BY <1>1 DEF RootInv, RootTypes, PCs
  <2> QED  BY <1>1, <2>1, <2>2, <2>3 DEF RootInv, RootTypes, FormType, Pairs
<1> QED
  <2>1. \A q \in Procs \ {p} : frames'[q] = frames[q] /\ cur'[q] = cur[q] /\ ops'[q] = ops[q]
    BY <1>1 DEF RootInv, RootTypes
  <2> QED  BY <1>1, <1>6, <1>8, <1>9, <1>10, <2>1, AsideOne

\* A form that is left has all its vars pushed.
LEMMA InvLeave ==
    ASSUME RootInv, NEW p \in Procs, Leave(p)
    PROVE  RootInv'
<1> DEFINE d == Len(frames[p])
<1>1. /\ pc[p] = "run" /\ frames[p] # <<>> /\ pc' = [pc EXCEPT ![p] = "pop"]
      /\ UNCHANGED <<chain, registry, cur, frames, ops, snap, overlapped, leaked>>
  BY DEF Leave, ctxVars, history
<1>2. /\ frames[p] \in Seq(FormType) /\ d \in Nat /\ d > 0
      /\ \A i \in 1..d : frames[p][i] \in FormType
  BY <1>1, FormOf DEF RootInv
<1>3. pc'[p] = "pop" /\ FormInv(p)
  BY <1>1 DEF RootInv, RootTypes
<1>4. Len(frames[p][d].pushed) = Len(frames[p][d].vs) /\ Len(frames[p][d].vs) \in Nat
      /\ frames[p][d].vs # <<>> /\ frames[p][d].vs \in Seq(Vars)
  BY <1>1, <1>2, <1>3, FormFields DEF FormInv
<1>5. \A i : Gone(p, i)' = Gone(p, i)
  BY <1>1, <1>3, <1>4 DEF Gone
<1>6. FormInv(p)'
  <2>1. frames[p][d].pushed # <<>>
    BY <1>4
  <2> QED  BY <1>1, <1>2, <1>3, <1>5, <2>1 DEF FormInv
<1>7. \A v : Open(p, v)' = Open(p, v)
  BY <1>1, <1>5 DEF Open, Live
<1>8. RootTypes'
  <2>1. pc' \in [Procs -> PCs] /\ \A k \in Kids : pc'[k] \notin {"add", "remove"}
    BY <1>1 DEF RootInv, RootTypes, PCs
  <2> QED  BY <1>1, <2>1, TypesStill DEF RootInv, RootTypes
<1> QED  BY <1>1, <1>3, <1>6, <1>7, <1>8, AsideOne

\* A step of a root thread that changes what the root context knows.
LEMMA RootStep ==
    ASSUME RootInv, RootTypes', NEW p \in Roots, FormInv(p)', pc[p] # "none",
           pc' = [pc EXCEPT ![p] = pc'[p]], UNCHANGED snap,
           \A q \in Procs \ {p} : /\ frames'[q] = frames[q]
                                  /\ cur'[q] = cur[q] /\ ops'[q] = ops[q],
           ChainInv', RemoveInv', RegistryHonest'
    PROVE  RootInv'
<1>1. \A q \in Procs \ {p} : pc'[q] = pc[q]
  BY DEF RootInv, RootTypes
<1>2. \A q \in Procs \ {p} : FormInv(q)' /\ \A v : Open(q, v)' = Open(q, v)
  BY <1>1, OthersStill DEF Procs
<1>3. SnapInv'
  BY <1>1, SnapStill DEF Procs
<1> QED  BY <1>2, <1>3 DEF RootInv

\* The chain of a var is not empty while a root thread has the var pushed.
LEMMA HeldChain ==
    ASSUME RootTypes, ChainInv, NEW v \in Vars, Held(v) # {}
    PROVE  chain[v] # <<>> /\ Len(chain[v]) \in Nat /\ Len(chain[v]) > 0
<1>1. IsFiniteSet(Held(v)) /\ Cardinality(Held(v)) <= Len(chain[v]) /\ chain[v] \in Seq(Values)
  BY DEF ChainInv, RootTypes
<1>2. Cardinality(Held(v)) \in Nat /\ Cardinality(Held(v)) # 0
  BY <1>1, FS_CardinalityType, FS_EmptySet
<1>3. Len(chain[v]) \in Nat /\ (chain[v] = <<>> => Len(chain[v]) = 0)
  BY <1>1
<1> QED  BY <1>1, <1>2, <1>3

\* The var that is registered has just been pushed, so it is live.
LEMMA InvRegistryAdd ==
    ASSUME RootInv, NEW p \in Procs, RegistryAdd(p)
    PROVE  RootInv'
<1> DEFINE d == Len(frames[p])
           f == frames[p][d]
           w == AfterPush(f)
           v == cur[p]
<1>1. /\ pc[p] = "add" /\ registry' = registry \union {v}
      /\ pc' = [pc EXCEPT ![p] = w] /\ cur' = [cur EXCEPT ![p] = None]
      /\ UNCHANGED <<chain, frames, ops, snap, overlapped, leaked>>
  BY DEF RegistryAdd, Last, history
<1>2. p \in Roots
  BY <1>1 DEF RootInv, RootTypes, Procs
<1>3. /\ frames[p] \in Seq(FormType) /\ d \in Nat
      /\ \A i \in 1..d : frames[p][i] \in FormType
  BY FormOf DEF RootInv
<1>4. FormInv(p) /\ d > 0 /\ f.pushed # <<>> /\ v = f.pushed[Len(f.pushed)][1]
  BY <1>1 DEF RootInv, FormInv
<1>5. /\ Len(f.pushed) \in Nat /\ Len(f.vs) \in Nat /\ Len(f.pushed) <= Len(f.vs)
      /\ f.pushed \in Seq(Pairs)
  <2>1. d \in 1..d
    BY <1>3, <1>4
  <2>2. f \in FormType /\ Len(f.pushed) <= Len(f.vs)
    BY <1>3, <1>4, <2>1 DEF FormInv
  <2> QED  BY <2>2, FormFields
<1>6. w = IF Len(f.pushed) < Len(f.vs) THEN "push" ELSE "run"
  BY DEF AfterPush
<1> HIDE DEF w, v
<1>7. /\ pc'[p] = w /\ cur'[p] = None
      /\ \A q \in Procs \ {p} : pc'[q] = pc[q] /\ cur'[q] = cur[q]
  BY <1>1 DEF RootInv, RootTypes
<1>8. \A i : Gone(p, i)' = 0 /\ Gone(p, i) = 0
  BY <1>1, <1>6, <1>7 DEF Gone
<1>9. FormInv(p)'
  <2>1. /\ w = "push" => Len(f.pushed) < Len(f.vs)
        /\ w = "run" => Len(f.pushed) = Len(f.vs)
        /\ w \in {"push", "run"}
    BY <1>5, <1>6
  <2>2. frames' = frames /\ ops' = ops
    BY <1>1
  <2> QED  BY <1>4, <1>7, <1>8, <2>1, <2>2 DEF FormInv
<1>10. \A u : Held(u)' = Held(u)
  <2>1. \A u : Open(p, u)' = Open(p, u)
    BY <1>1, <1>8 DEF Open, Live
  <2>2. \A q \in Procs \ {p} : \A u : Open(q, u)' = Open(q, u)
    BY <1>1, <1>7 DEF Open, Live, Gone
  <2> QED  BY <2>1, <2>2, HeldStill DEF Procs
<1>11. ChainInv'
  BY <1>1, <1>10 DEF RootInv, ChainInv
<1>12. v \in Vars /\ v # None /\ chain[v] # <<>>
  <2> DEFINE n == Len(f.pushed)
  <2>1. n \in 1..n /\ Gone(p, d) = 0 /\ d \in 1..d
    BY <1>3, <1>4, <1>5, <1>8
  <2>2. f.pushed[n] \in Pairs /\ f.vs[n] = v
    <3>1. f.pushed[n] \in Pairs
      BY <1>5, <2>1
    <3>2. f.pushed[n][1] = f.vs[Gone(p, d) + n]
      BY <1>4, <2>1 DEF FormInv
    <3> QED  BY <1>4, <1>5, <2>1, <3>1, <3>2
  <2>3. v \in Vars
    BY <1>4, <2>2 DEF Pairs
  <2>4. InOpen(p, v, d, n)
    BY <1>5, <2>1, <2>2 DEF InOpen, Live
  <2>5. <<d, n>> \in Open(p, v)
    BY <1>1, <1>3, <2>4, OpenElem
  <2>6. <<p, <<d, n>>>> \in Held(v)
    BY <1>2, <2>5 DEF Held
  <2> QED  BY <2>3, <2>6, HeldChain, BindingsConstants DEF RootInv
<1>13. RemoveInv'
  BY <1>1, <1>6, <1>7 DEF RootInv, RemoveInv, Procs
<1>14. RegistryHonest'
  <2>1. ASSUME NEW u \in Vars, u \in registry', chain'[u] = <<>>
        PROVE  \E q \in Roots : pc'[q] = "remove" /\ cur'[q] = u
    <3>1. u \in registry /\ chain[u] = <<>>
      BY <1>1, <1>12, <2>1
    <3>2. PICK q \in Roots : pc[q] = "remove" /\ cur[q] = u
      BY <3>1 DEF RootInv, RegistryHonest
    <3> QED  BY <1>1, <1>7, <3>2 DEF Procs
  <2>2. ASSUME NEW u \in Vars, u \notin registry', chain'[u] # <<>>, u \notin overlapped'
        PROVE  \E q \in Roots : pc'[q] = "add" /\ cur'[q] = u
    <3>1. u \notin registry /\ chain[u] # <<>> /\ u \notin overlapped /\ u # v
      BY <1>1, <2>2
    <3>2. PICK q \in Roots : pc[q] = "add" /\ cur[q] = u
      BY <3>1 DEF RootInv, RegistryHonest
    <3> QED  BY <1>7, <3>1, <3>2 DEF Procs, v
  <2> QED  BY <2>1, <2>2 DEF RegistryHonest
<1>15. RootTypes'
  <2>1. pc' \in [Procs -> PCs] /\ \A k \in Kids : pc'[k] \notin {"add", "remove"}
    BY <1>1, <1>6 DEF RootInv, RootTypes, PCs
  <2>2. cur' \in [Procs -> Vars \union {None}]
    BY <1>1 DEF RootInv, RootTypes
  <2> QED  BY <1>1, <1>12, <2>1, <2>2 DEF RootInv, RootTypes
<1> QED  BY <1>1, <1>2, <1>7, <1>9, <1>11, <1>13, <1>14, <1>15, RootStep

\* A var that is deregistered is dead, or two threads overlapped on it.
LEMMA InvRegistryRemove ==
    ASSUME RootInv, NEW p \in Procs, RegistryRemove(p)
    PROVE  RootInv'
<1> DEFINE d == Len(frames[p])
           f == frames[p][d]
           w == IF Popping(p) THEN "pop" ELSE "run"
           v == cur[p]
<1>1. /\ pc[p] = "remove" /\ registry' = registry \ {v}
      /\ pc' = [pc EXCEPT ![p] = w] /\ cur' = [cur EXCEPT ![p] = None]
      /\ UNCHANGED <<chain, frames, ops, snap, overlapped, leaked>>
  BY DEF RegistryRemove, history
<1>2. p \in Roots
  BY <1>1 DEF RootInv, RootTypes, Procs
<1>3. /\ frames[p] \in Seq(FormType) /\ d \in Nat
      /\ \A i \in 1..d : frames[p][i] \in FormType
  BY FormOf DEF RootInv
<1>4. FormInv(p) /\ (d > 0 => f.pushed # <<>>)
  BY <1>1 DEF RootInv, FormInv
<1>5. d > 0 => /\ Len(f.pushed) \in Nat /\ Len(f.vs) \in Nat /\ Len(f.pushed) <= Len(f.vs)
               /\ f.pushed \in Seq(Pairs)
  BY <1>3, <1>4, FormFields DEF FormInv
<1>6. w = IF d > 0 /\ Len(f.pushed) < Len(f.vs) THEN "pop" ELSE "run"
  BY <1>3 DEF Popping, Last
<1> HIDE DEF w, v
<1>7. /\ pc'[p] = w /\ cur'[p] = None
      /\ \A q \in Procs \ {p} : pc'[q] = pc[q] /\ cur'[q] = cur[q]
  BY <1>1 DEF RootInv, RootTypes
<1>8. ASSUME NEW i \in 1..d PROVE Gone(p, i)' = Gone(p, i)
  <2>1. CASE i # d
    BY <1>1, <2>1 DEF Gone
  <2>2. CASE i = d
    <3>1. d > 0 /\ Gone(p, d) = Len(f.vs) - Len(f.pushed)
      BY <1>1, <1>3, <2>2 DEF Gone
    <3>2. w = "run" => Gone(p, d) = 0
      BY <1>5, <1>6, <3>1
    <3> QED  BY <1>1, <1>6, <1>7, <2>2, <3>1, <3>2 DEF Gone
  <2> QED  BY <2>1, <2>2
<1>9. FormInv(p)'
  BY <1>1, <1>3, <1>4, <1>5, <1>6, <1>7, <1>8 DEF FormInv
<1>10. \A u : Held(u)' = Held(u)
  <2>1. \A u : Open(p, u)' = Open(p, u)
    BY <1>1, <1>3, <1>8 DEF Open, Live
  <2>2. \A q \in Procs \ {p} : \A u : Open(q, u)' = Open(q, u)
    BY <1>1, <1>7 DEF Open, Live, Gone
  <2> QED  BY <2>1, <2>2, HeldStill DEF Procs
<1>11. ChainInv'
  BY <1>1, <1>10 DEF RootInv, ChainInv
<1>13. RemoveInv'
  BY <1>1, <1>6, <1>7 DEF RootInv, RemoveInv, Procs
<1>14. RegistryHonest'
  <2>1. ASSUME NEW u \in Vars, u \in registry', chain'[u] = <<>>
        PROVE  \E q \in Roots : pc'[q] = "remove" /\ cur'[q] = u
    <3>1. u \in registry /\ chain[u] = <<>> /\ u # v
      BY <1>1, <2>1
    <3>2. PICK q \in Roots : pc[q] = "remove" /\ cur[q] = u
      BY <3>1 DEF RootInv, RegistryHonest
    <3> QED  BY <1>7, <3>1, <3>2 DEF Procs, v
  <2>2. ASSUME NEW u \in Vars, u \notin registry', chain'[u] # <<>>, u \notin overlapped'
        PROVE  \E q \in Roots : pc'[q] = "add" /\ cur'[q] = u
    <3>1. chain[u] # <<>> /\ u \notin overlapped
      BY <1>1, <2>2
    <3>2. u # v
      BY <1>1, <1>2, <3>1 DEF RootInv, RemoveInv, v
    <3>3. PICK q \in Roots : pc[q] = "add" /\ cur[q] = u
      BY <1>1, <2>2, <3>1, <3>2 DEF RootInv, RegistryHonest
    <3> QED  BY <1>1, <1>7, <3>3 DEF Procs
  <2> QED  BY <2>1, <2>2 DEF RegistryHonest
<1>15. RootTypes'
  <2>1. pc' \in [Procs -> PCs] /\ \A k \in Kids : pc'[k] \notin {"add", "remove"}
    BY <1>1, <1>6 DEF RootInv, RootTypes, PCs
  <2>2. cur' \in [Procs -> Vars \union {None}]
    BY <1>1 DEF RootInv, RootTypes
  <2> QED  BY <1>1, <2>1, <2>2 DEF RootInv, RootTypes
<1> QED  BY <1>1, <1>2, <1>7, <1>9, <1>11, <1>13, <1>14, <1>15, RootStep

\* What a form that threw has pushed is leaked.
LEMMA InvInitThrows ==
    ASSUME RootInv, NEW p \in Procs, InitThrows(p)
    PROVE  RootInv'
<1> DEFINE d == Len(frames[p])
           f == frames[p][d]
<1>1. /\ pc[p] = "push" /\ frames' = [frames EXCEPT ![p] = Front(frames[p])]
      /\ pc' = [pc EXCEPT ![p] = "run"]
      /\ leaked' = leaked \union {b[1] : b \in Elems(Last(frames[p]).pushed)}
      /\ UNCHANGED <<chain, registry, cur, ops, snap, overlapped>>
  BY DEF InitThrows, ctxVars
<1>2. /\ frames[p] \in Seq(FormType) /\ d \in Nat /\ ops[p] \in Nat
      /\ \A i \in 1..d : frames[p][i] \in FormType
  BY FormOf DEF RootInv
<1>3. FormInv(p) /\ d > 0 /\ frames[p] # <<>> /\ Last(frames[p]) = f
  BY <1>1, <1>2 DEF RootInv, FormInv, Last
<1>4. f.pushed \in Seq(Pairs) /\ Len(f.pushed) \in Nat
  BY <1>2, <1>3, FormFields
<1>5. /\ frames'[p] \in Seq(FormType) /\ Len(frames'[p]) = d - 1
      /\ \A i \in 1..d - 1 : frames'[p][i] = frames[p][i]
  BY <1>1, <1>2, <1>3, Shortened DEF RootInv, RootTypes
<1>6. pc'[p] = "run" /\ \A q \in Procs \ {p} : pc'[q] = pc[q] /\ frames'[q] = frames[q]
  BY <1>1 DEF RootInv, RootTypes
<1>7. \A i : Gone(p, i)' = 0 /\ Gone(p, i) = 0
  BY <1>1, <1>6 DEF Gone
<1>8. FormInv(p)'
  <2>1. ASSUME NEW i \in 1..d - 1
        PROVE  LET h == frames'[p][i]
               IN  /\ Len(h.pushed) <= Len(h.vs) /\ h.vs # <<>>
                   /\ \A j \in 1..Len(h.pushed) : h.pushed[j][1] = h.vs[Gone(p, i)' + j]
                   /\ Len(h.pushed) = Len(h.vs)
    <3>1. i \in 1..d /\ i < d /\ frames'[p][i] = frames[p][i]
      BY <1>2, <1>5
    <3>2. /\ Len(frames[p][i].pushed) <= Len(frames[p][i].vs) /\ frames[p][i].vs # <<>>
          /\ \A j \in 1..Len(frames[p][i].pushed) :
                frames[p][i].pushed[j][1] = frames[p][i].vs[Gone(p, i) + j]
          /\ Len(frames[p][i].pushed) = Len(frames[p][i].vs)
      BY <1>3, <3>1 DEF FormInv
    <3> QED  BY <1>7, <3>1, <3>2
  <2>2. d - 1 > 0 => d - 1 \in 1..d - 1
    BY <1>2
  <2> QED  BY <1>1, <1>2, <1>3, <1>5, <1>6, <2>1, <2>2 DEF FormInv
<1>9. ASSUME NEW v, NEW i, NEW j
      PROVE  InOpen(p, v, i, j)' <=> InOpen(p, v, i, j) /\ i # d
  <2>1. CASE i \in 1..d - 1
    <3>1. i \in 1..d /\ i # d /\ frames'[p][i] = frames[p][i]
      BY <1>2, <1>5, <2>1
    <3> QED  BY <1>5, <1>7, <2>1, <3>1 DEF InOpen, Live
  <2>2. CASE i \notin 1..d - 1
    <3>1. i \in 1..d => i = d
      BY <1>2, <2>2
    <3> QED  BY <1>5, <2>2, <3>1 DEF InOpen
  <2> QED  BY <2>1, <2>2
<1>10. ASSUME NEW v, v \notin leaked' PROVE Open(p, v)' = Open(p, v)
  <2>1. ASSUME NEW j PROVE ~InOpen(p, v, d, j)
    <3> SUFFICES ASSUME InOpen(p, v, d, j) PROVE FALSE
      OBVIOUS
    <3>1. j \in 1..Len(f.pushed) /\ f.vs[j] = v
      BY <1>4, <1>7 DEF InOpen, Live
    <3>2. f.pushed[j][1] = f.vs[Gone(p, d) + j] /\ d \in 1..d
      BY <1>2, <1>3, <3>1 DEF FormInv
    <3>3. f.pushed[j][1] = v
      BY <1>4, <1>7, <3>1, <3>2
    <3>4. f.pushed[j] \in Elems(f.pushed)
      BY <3>1 DEF Elems
    <3> QED  BY <1>1, <1>3, <1>10, <3>3, <3>4
  <2>2. \A i, j : InOpen(p, v, i, j)' <=> InOpen(p, v, i, j)
    BY <1>9, <2>1
  <2> QED  BY <1>2, <1>5, <2>2, OpenEq
<1>11. ASSUME NEW v PROVE Open(p, v)' \subseteq Open(p, v)
  <2>1. ASSUME NEW t \in Open(p, v)' PROVE t \in Open(p, v)
    <3>1. PICK i, j : t = <<i, j>> /\ InOpen(p, v, i, j)'
      BY <1>2, <1>5, OpenElem
    <3> QED  BY <1>2, <1>5, <1>9, <3>1, OpenElem
  <2> QED  BY <2>1
<1>12. \A q \in Procs \ {p} : FormInv(q)' /\ \A v : Open(q, v)' = Open(q, v)
  BY <1>1, <1>6, OthersStill
<1>13. ChainInv'
  <2>1. ASSUME NEW v \in Vars
        PROVE  /\ IsFiniteSet(Held(v)') /\ Cardinality(Held(v)') <= Len(chain'[v])
               /\ v \notin leaked' => Cardinality(Held(v)') = Len(chain'[v])
    <3>1. Held(v)' \subseteq Held(v)
      BY <1>11, <1>12 DEF Held, Procs
    <3>2. v \notin leaked' => Held(v)' = Held(v)
      BY <1>10, <1>12 DEF Held, Procs
    <3>3. /\ IsFiniteSet(Held(v)) /\ Cardinality(Held(v)) <= Len(chain[v])
          /\ v \notin leaked => Cardinality(Held(v)) = Len(chain[v])
          /\ chain[v] \in Seq(Values)
      BY DEF RootInv, ChainInv, RootTypes
    <3>4. IsFiniteSet(Held(v)') /\ Cardinality(Held(v)') <= Cardinality(Held(v))
      BY <3>1, <3>3, FS_Subset
    <3>5. Cardinality(Held(v)') \in Nat /\ Cardinality(Held(v)) \in Nat /\ Len(chain[v]) \in Nat
      BY <3>3, <3>4, FS_CardinalityType
    <3> QED  BY <1>1, <3>2, <3>3, <3>4, <3>5
  <2> QED  BY <2>1 DEF ChainInv
<1>14. RootTypes'
  <2>1. pc' \in [Procs -> PCs] /\ \A k \in Kids : pc'[k] \notin {"add", "remove"}
    BY <1>1 DEF RootInv, RootTypes, PCs
  <2>2. frames' \in [Procs -> Seq(FormType)]
    BY <1>1, <1>5 DEF RootInv, RootTypes, FormType, Pairs
  <2> QED  BY <1>1, <2>1, <2>2 DEF RootInv, RootTypes, FormType, Pairs
<1>15. SnapInv'
  BY <1>1, <1>6, SnapStill
<1>16. RemoveInv'
  BY <1>1, <1>6 DEF RootInv, RemoveInv, Procs
<1>17. RegistryHonest'
  <2>1. \A q \in Roots : \A w \in {"add", "remove"} : pc[q] = w => pc'[q] = w
    BY <1>1, <1>6 DEF Procs
  <2>2. chain' = chain /\ registry' = registry /\ overlapped' = overlapped /\ cur' = cur
    BY <1>1
  <2> QED  BY <2>1, <2>2 DEF RootInv, RegistryHonest
<1> QED  BY <1>8, <1>12, <1>13, <1>14, <1>15, <1>16, <1>17 DEF RootInv

\* set! changes a value that p has pushed, if any, and no var.
LEMMA SetForms ==
    ASSUME RootInv, NEW p \in Procs, NEW v \in Vars, SetCurrent(p, v)
    PROVE  /\ frames' \in [Procs -> Seq(FormType)]
           /\ \A q \in Procs \ {p} : frames'[q] = frames[q]
           /\ Len(frames'[p]) = Len(frames[p])
           /\ \A i \in 1..Len(frames[p]) :
                 /\ frames'[p][i].vs = frames[p][i].vs
                 /\ Len(frames'[p][i].pushed) = Len(frames[p][i].pushed)
                 /\ \A j \in 1..Len(frames[p][i].pushed) :
                       frames'[p][i].pushed[j][1] = frames[p][i].pushed[j][1]
<1> DEFINE x == <<p, ops[p] + 1>>
           d == Len(frames[p])
           at(f) == {i \in 1..Len(f.pushed) : f.pushed[i][1] = v}
           mine == {i \in 1..d : at(frames[p][i]) # {}}
<1>1. /\ frames[p] \in Seq(FormType) /\ d \in Nat /\ ops[p] \in Nat
      /\ \A i \in 1..d : frames[p][i] \in FormType
  BY FormOf DEF RootInv
<1>2. frames \in [Procs -> Seq(FormType)]
  BY DEF RootInv, RootTypes, FormType, Pairs
<1>3. x \in Values
  <2>1. ops[p] < MaxOps[p] /\ MaxOps[p] \in Nat
    BY BindingsConstants DEF SetCurrent, Starts
  <2> QED  BY <1>1, <2>1, ValueIn
<1>4. CASE mine = {}
  <2>1. frames' = frames
    BY <1>4 DEF SetCurrent
  <2> QED  BY <1>2, <2>1
<1>5. CASE mine # {}
  <2> DEFINE i == CHOOSE i \in mine : \A j \in mine : j <= i
             n == CHOOSE n \in at(frames[p][i]) : \A m \in at(frames[p][i]) : m <= n
             f == frames[p][i]
             e == [f.pushed EXCEPT ![n] = <<v, x>>]
             h == [f EXCEPT !.pushed = e]
  <2>1. frames' = [frames EXCEPT ![p][i].pushed[n] = <<v, x>>]
    BY <1>5 DEF SetCurrent
  <2>2. \E k \in mine : \A j \in mine : j <= k
    <3>1. mine \in SUBSET (1..d)
      OBVIOUS
    <3> HIDE DEF mine, d
    <3> QED  BY <1>1, <1>5, <3>1, HasMax
  <2>3. i \in mine
    <3> HIDE DEF mine
    <3> QED  BY <2>2
  <2>4. i \in 1..d /\ at(f) # {} /\ f \in FormType
    BY <1>1, <2>3
  <2> HIDE DEF i
  <2>5. f.pushed \in Seq(Pairs) /\ Len(f.pushed) \in Nat /\ f.vs \in Seq(Vars)
    BY <2>4, FormFields
  <2>6. \E k \in at(f) : \A m \in at(f) : m <= k
    <3> DEFINE T == at(f)
    <3>1. T \in SUBSET (1..Len(f.pushed)) /\ T # {}
      BY <2>4
    <3> HIDE DEF T
    <3>2. \E k \in T : \A m \in T : m <= k
      BY <2>5, <3>1, HasMax
    <3> QED  BY <3>2 DEF T
  <2>7. n \in at(f)
    <3> DEFINE T == at(f)
    <3> HIDE DEF T
    <3>1. (CHOOSE k \in T : \A m \in T : m <= k) \in T
      BY <2>6 DEF T
    <3> QED  BY <3>1 DEF T
  <2>8. n \in 1..Len(f.pushed) /\ f.pushed[n][1] = v
    BY <2>7
  <2> HIDE DEF n
  <2>9. /\ e \in Seq(Pairs) /\ Len(e) = Len(f.pushed)
        /\ \A j \in 1..Len(f.pushed) : e[j][1] = f.pushed[j][1]
    <3>1. <<v, x>> \in Pairs /\ <<v, x>>[1] = v
      BY <1>3 DEF Pairs
    <3> HIDE DEF x
    <3> QED  BY <2>5, <2>8, <3>1, ExceptSeq
  <2>10. h.vs = f.vs /\ h.pushed = e /\ h \in FormType
    BY <2>4, <2>9 DEF FormType
  <2>11. /\ frames'[p] = [frames[p] EXCEPT ![i] = h]
         /\ \A q \in Procs \ {p} : frames'[q] = frames[q]
    BY <1>2, <2>1
  <2> HIDE DEF h, e
  <2>12. /\ frames'[p] \in Seq(FormType) /\ Len(frames'[p]) = d
         /\ frames'[p][i] = h /\ \A k \in 1..d : k # i => frames'[p][k] = frames[p][k]
    BY <1>1, <2>4, <2>10, <2>11, ExceptSeq
  <2>13. frames' \in [Procs -> Seq(FormType)]
    BY <1>2, <2>1, <2>12
  <2> QED  BY <2>9, <2>10, <2>11, <2>12, <2>13
<1> QED  BY <1>4, <1>5

\* set! replaces the value of a live binding: no chain changes its length.
LEMMA InvSetCurrent ==
    ASSUME RootInv, NEW p \in Procs, NEW v \in Vars, SetCurrent(p, v)
    PROVE  RootInv'
<1> DEFINE d == Len(frames[p])
           x == <<p, ops[p] + 1>>
<1>1. /\ pc[p] = "run" /\ ops[p] < MaxOps[p] /\ ops' = [ops EXCEPT ![p] = @ + 1]
      /\ HasBinding(p, v)
      /\ p \in Roots => chain' = [chain EXCEPT ![v][Len(chain[v])] = x]
      /\ p \notin Roots => chain' = chain /\ overlapped' = overlapped
      /\ overlapped \subseteq overlapped'
      /\ overlapped' \subseteq overlapped \union {v}
      /\ UNCHANGED <<registry, pc, cur, snap, leaked>>
  BY DEF SetCurrent, Starts, Shares
<1>2. /\ frames[p] \in Seq(FormType) /\ d \in Nat /\ ops[p] \in Nat
      /\ \A i \in 1..d : frames[p][i] \in FormType
  BY FormOf DEF RootInv
<1>3. /\ frames' \in [Procs -> Seq(FormType)] /\ Len(frames'[p]) = d
      /\ \A q \in Procs \ {p} : frames'[q] = frames[q]
      /\ \A i \in 1..d :
            /\ frames'[p][i].vs = frames[p][i].vs
            /\ Len(frames'[p][i].pushed) = Len(frames[p][i].pushed)
            /\ \A j \in 1..Len(frames[p][i].pushed) :
                  frames'[p][i].pushed[j][1] = frames[p][i].pushed[j][1]
  BY SetForms
<1>4. \A i : Gone(p, i) = 0 /\ Gone(p, i)' = 0
  BY <1>1 DEF Gone
<1>5. ops'[p] = ops[p] + 1
  BY <1>1 DEF RootInv, RootTypes
<1>6. FormInv(p)'
  <2>1. FormInv(p)
    BY DEF RootInv
  <2>2. ASSUME NEW i \in 1..d
        PROVE  LET h == frames'[p][i]
               IN  /\ Len(h.pushed) <= Len(h.vs) /\ h.vs # <<>>
                   /\ \A j \in 1..Len(h.pushed) : h.pushed[j][1] = h.vs[Gone(p, i)' + j]
                   /\ Len(h.pushed) = Len(h.vs)
    <3>1. /\ Len(frames[p][i].pushed) = Len(frames[p][i].vs) /\ frames[p][i].vs # <<>>
          /\ \A j \in 1..Len(frames[p][i].pushed) :
                frames[p][i].pushed[j][1] = frames[p][i].vs[Gone(p, i) + j]
      BY <1>1, <1>2, <2>1 DEF FormInv
    <3>2. Len(frames[p][i].vs) \in Nat /\ Gone(p, i) = 0 /\ Gone(p, i)' = 0
      BY <1>2, <1>4, FormFields
    <3> QED  BY <1>3, <3>1, <3>2
  <2>3. d > 0 => d \in 1..d
    BY <1>2
  <2>4. pc'[p] = "run" /\ ops'[p] > 0 /\ Len(frames'[p]) = d
    BY <1>1, <1>2, <1>3, <1>5
  <2> QED  BY <2>2, <2>3, <2>4 DEF FormInv
<1>7. \A u : Open(p, u)' = Open(p, u)
  <2>1. ASSUME NEW u, NEW i, NEW j PROVE InOpen(p, u, i, j)' <=> InOpen(p, u, i, j)
    BY <1>3, <1>4 DEF InOpen, Live
  <2>2. frames'[p] \in Seq(FormType)
    BY <1>3
  <2> QED  BY <1>2, <2>1, <2>2, OpenEq
<1>8. \A q \in Procs \ {p} :
         frames'[q] = frames[q] /\ pc'[q] = pc[q] /\ cur'[q] = cur[q] /\ ops'[q] = ops[q]
  BY <1>1, <1>3 DEF RootInv, RootTypes
<1>9. ops' \in [Procs -> Nat] /\ \A q \in Procs : ops'[q] <= MaxOps[q]
  <2>1. ops[p] + 1 \in Nat /\ ops[p] + 1 <= MaxOps[p]
    BY <1>1, <1>2, BindingsConstants
  <2> QED  BY <1>1, <2>1 DEF RootInv, RootTypes
<1>10. CASE p \in Roots
  <2>1. chain[v] \in Seq(Values) /\ chain[v] # <<>> /\ Len(chain[v]) \in 1..Len(chain[v])
    <3>1. chain[v] \in Seq(Values) /\ chain[v] # <<>>
      BY <1>1, <1>10 DEF HasBinding, RootInv, RootTypes
    <3> QED  BY <3>1
  <2>2. x \in Values
    <3>1. MaxOps[p] \in Nat
      BY BindingsConstants
    <3> QED  BY <1>1, <1>2, <3>1, ValueIn
  <2> HIDE DEF x
  <2> DEFINE c == [chain[v] EXCEPT ![Len(chain[v])] = x]
  <2>3. c \in Seq(Values) /\ Len(c) = Len(chain[v]) /\ c # <<>>
    <3>1. c \in Seq(Values) /\ Len(c) = Len(chain[v])
      BY <2>1, <2>2, ExceptSeq
    <3> HIDE DEF c
    <3> QED  BY <2>1, <3>1
  <2>4. /\ chain' = [chain EXCEPT ![v] = c] /\ chain \in [Vars -> Seq(Values)]
    BY <1>1, <1>10 DEF RootInv, RootTypes
  <2> HIDE DEF c
  <2>5. /\ chain' \in [Vars -> Seq(Values)]
        /\ \A u \in Vars : /\ Len(chain'[u]) = Len(chain[u])
                           /\ chain'[u] = <<>> <=> chain[u] = <<>>
    BY <2>1, <2>3, <2>4
  <2>6. \A u : Held(u)' = Held(u)
    <3>1. \A q \in Roots \ {p} : \A u : Open(q, u)' = Open(q, u)
      BY <1>8, OthersStill DEF Procs
    <3> QED  BY <1>7, <3>1, HeldStill
  <2>7. ChainInv'
    BY <1>1, <2>5, <2>6 DEF RootInv, ChainInv
  <2>8. RemoveInv'
    <3>1. ASSUME NEW q \in Roots, pc'[q] = "remove", chain'[cur'[q]] # <<>>
          PROVE  cur'[q] \in overlapped'
      <4>1. pc[q] = "remove" /\ cur[q] # None /\ cur'[q] = cur[q]
        BY <1>1, <3>1 DEF RootInv, FormInv, Procs
      <4>2. cur[q] \in Vars
        BY <4>1 DEF RootInv, RootTypes, Procs
      <4> QED  BY <1>1, <2>5, <3>1, <4>1, <4>2 DEF RootInv, RemoveInv
    <3> QED  BY <3>1 DEF RemoveInv
  <2>9. RegistryHonest'
    <3>1. pc' = pc /\ cur' = cur /\ registry' = registry /\ overlapped \subseteq overlapped'
      BY <1>1
    <3>2. ASSUME NEW u \in Vars
          PROVE  /\ u \in registry /\ chain'[u] = <<>>
                       => \E q \in Roots : pc[q] = "remove" /\ cur[q] = u
                 /\ u \notin registry /\ chain'[u] # <<>> /\ u \notin overlapped'
                       => \E q \in Roots : pc[q] = "add" /\ cur[q] = u
      <4>1. chain'[u] = <<>> <=> chain[u] = <<>>
        BY <2>5
      <4>2. u \notin overlapped' => u \notin overlapped
        BY <1>1
      <4> QED  BY <4>1, <4>2 DEF RootInv, RegistryHonest
    <3> QED  BY <3>1, <3>2 DEF RegistryHonest
  <2>10. RootTypes'
    <3>1. overlapped' \subseteq Vars
      BY <1>1 DEF RootInv, RootTypes
    <3> QED  BY <1>1, <1>3, <1>9, <2>5, <3>1 DEF RootInv, RootTypes, FormType, Pairs
  <2>11. pc' = [pc EXCEPT ![p] = pc'[p]]
    BY <1>1 DEF RootInv, RootTypes
  <2> QED  BY <1>1, <1>6, <1>8, <1>10, <2>7, <2>8, <2>9, <2>10, <2>11, RootStep
<1>11. CASE p \notin Roots
  <2>1. RootTypes'
    BY <1>1, <1>3, <1>9, <1>11 DEF RootInv, RootTypes, FormType, Pairs
  <2>2. pc' = [pc EXCEPT ![p] = pc'[p]]
    BY <1>1 DEF RootInv, RootTypes
  <2> QED  BY <1>1, <1>6, <1>8, <1>11, <2>1, <2>2, AsideOne
<1> QED  BY <1>10, <1>11

\* A form gets one more var: what Push does to the forms of the thread.
LEMMA PushForms ==
    ASSUME RootInv, NEW p \in Procs, Push(p)
    PROVE  LET d == Len(frames[p])
               m == Len(frames[p][d].pushed) + 1
               v == frames[p][d].vs[m]
           IN
           /\ d \in Nat /\ d > 0 /\ m \in Nat /\ m > 0 /\ v \in Vars /\ v # None
           /\ <<p, ops[p]>> \in Values
           /\ frames' \in [Procs -> Seq(FormType)]
           /\ \A q \in Procs \ {p} : frames'[q] = frames[q]
           /\ Len(frames'[p]) = d /\ \A i \in 1..d - 1 : frames'[p][i] = frames[p][i]
           /\ frames'[p][d].vs = frames[p][d].vs /\ m <= Len(frames[p][d].vs)
           /\ Len(frames'[p][d].pushed) = m
           /\ frames'[p][d].pushed[m] = <<v, <<p, ops[p]>>>>
           /\ \A j \in 1..m - 1 : frames'[p][d].pushed[j] = frames[p][d].pushed[j]
<1> DEFINE d == Len(frames[p])
           f == frames[p][d]
           m == Len(f.pushed) + 1
           v == f.vs[m]
           x == <<p, ops[p]>>
           b == <<v, x>>
           g == [f EXCEPT !.pushed = Append(f.pushed, b)]
<1>1. /\ frames[p] \in Seq(FormType) /\ d \in Nat /\ ops[p] \in Nat /\ ops[p] <= MaxOps[p]
      /\ \A i \in 1..d : frames[p][i] \in FormType
  BY FormOf DEF RootInv
<1>2. pc[p] = "push" /\ FormInv(p)
  BY DEF Push, RootInv
<1>3. d > 0 /\ Len(f.pushed) < Len(f.vs) /\ ops[p] > 0 /\ d \in 1..d
  BY <1>1, <1>2 DEF FormInv
<1>4. f \in FormType /\ f.vs \in Seq(Vars) /\ f.pushed \in Seq(Pairs)
      /\ Len(f.vs) \in Nat /\ Len(f.pushed) \in Nat
  BY <1>1, <1>3, FormFields
<1>5. m \in Nat /\ m > 0 /\ m \in 1..Len(f.vs) /\ m <= Len(f.vs) /\ m - 1 = Len(f.pushed)
  BY <1>3, <1>4
<1>6. v \in Vars /\ v # None
  BY <1>4, <1>5, BindingsConstants
<1>7. x \in Values
  <2>1. ops[p] \in 1..MaxOps[p]
    BY <1>1, <1>3, BindingsConstants
  <2> QED  BY <2>1, ValueIn
<1>8. b \in Pairs
  BY <1>6, <1>7 DEF Pairs
<1>9. frames' = [frames EXCEPT ![p][d] = g]
  BY DEF Push
<1> HIDE DEF b, x
<1>10. /\ Append(f.pushed, b) \in Seq(Pairs) /\ Len(Append(f.pushed, b)) = m
       /\ Append(f.pushed, b)[m] = b
       /\ \A j \in 1..m - 1 : Append(f.pushed, b)[j] = f.pushed[j]
  <2>1. /\ Append(f.pushed, b) \in Seq(Pairs) /\ Len(Append(f.pushed, b)) = Len(f.pushed) + 1
        /\ Append(f.pushed, b)[Len(f.pushed) + 1] = b
        /\ \A j \in 1..Len(f.pushed) : Append(f.pushed, b)[j] = f.pushed[j]
    <3> HIDE DEF f
    <3> QED  BY <1>4, <1>8, Grown
  <2> QED  BY <1>5, <2>1
<1>11. g \in FormType /\ g.vs = f.vs /\ g.pushed = Append(f.pushed, b)
  BY <1>4, <1>10 DEF FormType
<1> HIDE DEF g
<1>12. /\ frames'[p] = [frames[p] EXCEPT ![d] = g]
       /\ \A q \in Procs \ {p} : frames'[q] = frames[q]
  BY <1>9 DEF RootInv, RootTypes
<1>13. /\ frames'[p] \in Seq(FormType) /\ Len(frames'[p]) = d /\ frames'[p][d] = g
       /\ \A i \in 1..d : i # d => frames'[p][i] = frames[p][i]
  BY <1>1, <1>3, <1>11, <1>12, ExceptSeq
<1>14. frames' \in [Procs -> Seq(FormType)]
  BY <1>9, <1>13 DEF RootInv, RootTypes, FormType, Pairs
<1>15. \A i \in 1..d - 1 : frames'[p][i] = frames[p][i]
  BY <1>1, <1>13
<1> QED  BY <1>1, <1>3, <1>5, <1>6, <1>7, <1>10, <1>11, <1>12, <1>13, <1>14, <1>15 DEF b, x

\* A push makes the chain of the var and its live bindings one more.
LEMMA InvPush ==
    ASSUME RootInv, NEW p \in Procs, Push(p)
    PROVE  RootInv'
<1>0. PICK d, m, v, x :
         /\ d = Len(frames[p]) /\ m = Len(frames[p][d].pushed) + 1
         /\ v = frames[p][d].vs[m] /\ x = <<p, ops[p]>>
  OBVIOUS
<1> DEFINE f == frames[p][d]
<1>1. /\ d \in Nat /\ d > 0 /\ m \in Nat /\ m > 0 /\ v \in Vars /\ v # None /\ x \in Values
      /\ frames' \in [Procs -> Seq(FormType)]
      /\ \A q \in Procs \ {p} : frames'[q] = frames[q]
      /\ Len(frames'[p]) = d /\ \A i \in 1..d - 1 : frames'[p][i] = frames[p][i]
      /\ frames'[p][d].vs = f.vs /\ m <= Len(f.vs)
      /\ Len(frames'[p][d].pushed) = m /\ frames'[p][d].pushed[m] = <<v, x>>
      /\ \A j \in 1..m - 1 : frames'[p][d].pushed[j] = f.pushed[j]
  BY <1>0, PushForms
<1>2. /\ pc[p] = "push" /\ FormInv(p) /\ frames[p] \in Seq(FormType)
      /\ \A i \in 1..d : frames[p][i] \in FormType
  BY <1>0, FormOf DEF Push, RootInv
<1>3. /\ UNCHANGED <<registry, ops, snap, leaked>>
      /\ p \notin Roots => UNCHANGED <<chain, cur, overlapped>>
      /\ p \in Roots => /\ chain' = [chain EXCEPT ![v] = Append(chain[v], x)]
                        /\ overlapped' = overlapped \union Shares(p, v)
                        /\ chain[v] = <<>> => cur' = [cur EXCEPT ![p] = v]
                        /\ chain[v] # <<>> => cur' = cur
  BY <1>0 DEF Push
<1> DEFINE w == IF p \in Roots /\ chain[v] = <<>> THEN "add"
                ELSE IF m < Len(f.vs) THEN "push" ELSE "run"
<1>4. pc' = [pc EXCEPT ![p] = w]
  <2> DEFINE g == [f EXCEPT !.pushed = Append(@, <<v, x>>)]
  <2>1. pc' = [pc EXCEPT ![p] = IF p \in Roots /\ chain[v] = <<>> THEN "add" ELSE AfterPush(g)]
    BY <1>0 DEF Push
  <2>4. frames' = [frames EXCEPT ![p][d] = g] /\ p \in DOMAIN frames
    BY <1>0 DEF Push, RootInv, RootTypes
  <2>5. d \in DOMAIN frames[p]
    <3>1. DOMAIN frames[p] = 1..Len(frames[p])
      BY <1>2
    <3>2. d = Len(frames[p])
      BY <1>0
    <3>3. d \in 1..d
      BY <1>1
    <3> QED  BY <3>1, <3>2, <3>3
  <2>2. frames'[p][d] = g
    <3> HIDE DEF g
    <3> QED  BY <2>4, <2>5
  <2>3. AfterPush(g) = IF m < Len(f.vs) THEN "push" ELSE "run"
    <3> HIDE DEF g, f
    <3> QED  BY <1>1, <2>2 DEF AfterPush
  <2> QED  BY <2>1, <2>3
<1>18. d = Len(frames[p]) /\ m = Len(f.pushed) + 1 /\ v = f.vs[m]
  BY <1>0
<1>5. d \in 1..d /\ f \in FormType /\ Len(f.vs) \in Nat /\ f.vs # <<>> /\ m - 1 = Len(f.pushed)
  <2>1. d \in 1..d /\ f \in FormType
    BY <1>1, <1>2
  <2>2. Len(f.pushed) \in Nat /\ Len(f.vs) \in Nat
    BY <2>1, FormFields
  <2> QED  BY <1>18, <1>2, <2>1, <2>2 DEF FormInv
<1>6. /\ pc'[p] = w /\ \A q \in Procs \ {p} : pc'[q] = pc[q] /\ cur'[q] = cur[q]
      /\ w = "add" => cur'[p] = v
  BY <1>3, <1>4 DEF RootInv, RootTypes
<1>7. \A i : Gone(p, i) = 0 /\ Gone(p, i)' = 0
  BY <1>0, <1>2, <1>6 DEF Gone
<1>8. FormInv(p)'
  <2>1. ASSUME NEW i \in 1..d
        PROVE  LET h == frames'[p][i]
               IN  /\ Len(h.pushed) <= Len(h.vs) /\ h.vs # <<>>
                   /\ \A j \in 1..Len(h.pushed) : h.pushed[j][1] = h.vs[Gone(p, i)' + j]
                   /\ i < d => Len(h.pushed) = Len(h.vs)
    <3>1. CASE i = d
      <4>1. ASSUME NEW j \in 1..m PROVE frames'[p][d].pushed[j][1] = f.vs[0 + j]
        <5>1. CASE j = m
          <6>1. m \in Nat /\ frames'[p][d].pushed[m] = <<v, x>> /\ v = f.vs[m]
            BY <1>1, <1>18
          <6>2. 0 + m = m
            BY <6>1
          <6> HIDE DEF f
          <6> QED  BY <5>1, <6>1, <6>2
        <5>2. CASE j # m
          <6>1. j \in 1..m - 1 /\ frames'[p][d].pushed[j] = f.pushed[j]
            BY <1>1, <5>2
          <6>2. f.pushed[j][1] = f.vs[Gone(p, d) + j]
            BY <1>2, <1>5, <1>18, <6>1 DEF FormInv
          <6> QED  BY <1>7, <6>1, <6>2
        <5> QED  BY <5>1, <5>2
      <4> QED  BY <1>1, <1>5, <1>7, <3>1, <4>1
    <3>2. CASE i # d
      <4>1. i \in 1..d - 1 /\ i < d /\ frames'[p][i] = frames[p][i]
        BY <1>1, <3>2
      <4> QED  BY <1>2, <1>7, <1>18, <4>1 DEF FormInv
    <3> QED  BY <3>1, <3>2
  <2>2. ops'[p] > 0
    BY <1>1, <1>2, <1>3 DEF FormInv
  <2>3. frames'[p][d].pushed # <<>>
    BY <1>1
  <2>4. w = "run" => Len(frames'[p][d].pushed) = Len(frames'[p][d].vs)
    BY <1>1, <1>5
  <2>5. w = "push" => Len(frames'[p][d].pushed) < Len(frames'[p][d].vs)
    BY <1>1, <1>5
  <2>6. w \in {"push", "run", "add"}
    OBVIOUS
  <2>7. frames'[p][d].pushed[Len(frames'[p][d].pushed)][1] = v
    BY <1>1
  <2>8. Len(frames'[p]) = d /\ d > 0
    BY <1>1
  <2> HIDE DEF w
  <2> QED  BY <1>6, <2>1, <2>2, <2>3, <2>4, <2>5, <2>6, <2>7, <2>8 DEF FormInv
<1>9. ASSUME NEW u, NEW i, NEW j
      PROVE  InOpen(p, u, i, j)' <=> InOpen(p, u, i, j) \/ (u = v /\ i = d /\ j = m)
  <2>1. CASE i \in 1..d - 1
    <3>1. i \in 1..d /\ i # d /\ frames'[p][i] = frames[p][i]
      BY <1>1, <2>1
    <3> QED  BY <1>1, <1>7, <1>18, <3>1 DEF InOpen, Live
  <2>2. CASE i = d
    <3>1. Live(p, d) = 1..(m - 1) /\ Live(p, d)' = 1..m
      BY <1>1, <1>5, <1>7 DEF Live
    <3>2. j \in 1..m <=> j \in 1..(m - 1) \/ j = m
      BY <1>1
    <3> QED  BY <1>1, <1>5, <1>18, <2>2, <3>1, <3>2 DEF InOpen
  <2>3. CASE i \notin 1..d
    BY <1>1, <1>5, <1>18, <2>3 DEF InOpen
  <2>4. i \in 1..d - 1 \/ i = d \/ i \notin 1..d
    BY <1>1
  <2> QED  BY <2>1, <2>2, <2>3, <2>4
<1>10. ~InOpen(p, v, d, m)
  <2>1. Live(p, d) = 1..(m - 1) /\ m \notin 1..(m - 1)
    BY <1>1, <1>5, <1>7 DEF Live
  <2> QED  BY <2>1 DEF InOpen
<1>17. frames'[p] \in Seq(FormType)
  BY <1>1
<1>11. ASSUME NEW u, u # v PROVE Open(p, u)' = Open(p, u)
  <2>1. \A i, j : InOpen(p, u, i, j)' <=> InOpen(p, u, i, j)
    BY <1>9, <1>11
  <2> QED  BY <1>2, <1>17, <2>1, OpenEq
<1>12. Open(p, v)' = Open(p, v) \union {<<d, m>>} /\ <<d, m>> \notin Open(p, v)
  <2>1. \A i, j : InOpen(p, v, i, j)' <=> InOpen(p, v, i, j) \/ (i = d /\ j = m)
    BY <1>9
  <2> QED  BY <1>2, <1>10, <1>17, <2>1, OpenAdd
<1>13. pc' \in [Procs -> PCs] /\ pc' = [pc EXCEPT ![p] = pc'[p]]
  BY <1>4 DEF RootInv, RootTypes, PCs
<1>14. \A q \in Procs \ {p} : ops'[q] = ops[q]
  BY <1>3
<1>15. CASE p \notin Roots
  <2>1. \A k \in Kids : pc'[k] \notin {"add", "remove"}
    BY <1>6, <1>15 DEF RootInv, RootTypes, Procs
  <2>2. RootTypes'
    BY <1>1, <1>3, <1>13, <1>15, <2>1 DEF RootInv, RootTypes, FormType, Pairs
  <2> QED  BY <1>1, <1>2, <1>3, <1>6, <1>8, <1>13, <1>14, <1>15, <2>2, AsideOne
<1>16. CASE p \in Roots
  <2> DEFINE t == <<p, <<d, m>>>>
  <2>1. /\ chain' \in [Vars -> Seq(Values)] /\ chain[v] \in Seq(Values)
        /\ Len(chain[v]) \in Nat /\ Len(chain'[v]) = Len(chain[v]) + 1 /\ chain'[v] # <<>>
        /\ \A u \in Vars : u # v => chain'[u] = chain[u]
    <3>1. chain' = [chain EXCEPT ![v] = Append(chain[v], x)] /\ chain[v] \in Seq(Values)
      BY <1>1, <1>3, <1>16 DEF RootInv, RootTypes
    <3>2. /\ Append(chain[v], x) \in Seq(Values) /\ Append(chain[v], x) # <<>>
          /\ Len(Append(chain[v], x)) = Len(chain[v]) + 1 /\ Len(chain[v]) \in Nat
      <4>1. x \in Values
        BY <1>1
      <4> QED  BY <3>1, <4>1, Grown
    <3>3. v \in Vars /\ chain \in [Vars -> Seq(Values)]
      BY <1>1 DEF RootInv, RootTypes
    <3> DEFINE c == Append(chain[v], x)
    <3> HIDE DEF c
    <3>4. chain' = [chain EXCEPT ![v] = c] /\ c \in Seq(Values)
      BY <3>1, <3>2 DEF c
    <3>5. c # <<>> /\ Len(c) = Len(chain[v]) + 1
      BY <3>2 DEF c
    <3> QED  BY <3>1, <3>2, <3>3, <3>4, <3>5
  <2>2. \A q \in Roots \ {p} : \A u : Open(q, u)' = Open(q, u)
    <3>1. \A q \in Procs \ {p} : /\ frames'[q] = frames[q] /\ pc'[q] = pc[q]
                                  /\ cur'[q] = cur[q] /\ ops'[q] = ops[q]
      BY <1>1, <1>6, <1>14
    <3> QED  BY <3>1, OthersStill DEF Procs
  <2>3. \A u : u # v => Held(u)' = Held(u)
    BY <1>11, <2>2 DEF Held
  <2>4. Held(v)' = Held(v) \union {t} /\ t \notin Held(v)
    <3>1. ASSUME NEW y PROVE y \in Held(v)' <=> y \in Held(v) \/ y = t
      <4>1. y \in Held(v)' <=> \E q \in Roots : \E e \in Open(q, v)' : y = <<q, e>>
        BY DEF Held
      <4>2. y \in Held(v) <=> \E q \in Roots : \E e \in Open(q, v) : y = <<q, e>>
        BY DEF Held
      <4> QED  BY <1>12, <1>16, <2>2, <4>1, <4>2
    <3>2. t \notin Held(v)
      BY <1>12 DEF Held
    <3> QED  BY <3>1, <3>2
  <2> HIDE DEF t
  <2>5. ChainInv'
    <3>1. ASSUME NEW u \in Vars
          PROVE  /\ IsFiniteSet(Held(u)') /\ Cardinality(Held(u)') <= Len(chain'[u])
                 /\ u \notin leaked' => Cardinality(Held(u)') = Len(chain'[u])
      <4>1. /\ IsFiniteSet(Held(u)) /\ Cardinality(Held(u)) <= Len(chain[u])
            /\ u \notin leaked => Cardinality(Held(u)) = Len(chain[u])
        BY DEF RootInv, ChainInv
      <4>2. CASE u # v
        BY <1>3, <2>1, <2>3, <4>1, <4>2
      <4>3. CASE u = v
        <5>1. IsFiniteSet(Held(v)') /\ Cardinality(Held(v)') = Cardinality(Held(v)) + 1
          BY <2>4, <4>1, <4>3, FS_AddElement
        <5>2. Cardinality(Held(v)) \in Nat
          BY <4>1, <4>3, FS_CardinalityType
        <5>3. Len(chain[v]) \in Nat /\ Len(chain'[v]) = Len(chain[v]) + 1 /\ leaked' = leaked
          BY <1>3, <2>1
        <5> QED  BY <4>1, <4>3, <5>1, <5>2, <5>3
      <4> QED  BY <4>2, <4>3
    <3> QED  BY <3>1 DEF ChainInv
  <2>6. RemoveInv'
    <3>1. ASSUME NEW q \in Roots, pc'[q] = "remove", chain'[cur'[q]] # <<>>
          PROVE  cur'[q] \in overlapped'
      <4>1. q # p
        BY <1>6, <3>1
      <4>2. pc[q] = "remove" /\ cur'[q] = cur[q] /\ cur[q] # None /\ cur[q] \in Vars
        BY <1>6, <3>1, <4>1 DEF RootInv, FormInv, RootTypes, Procs
      <4>3. CASE cur[q] = v
        <5>1. v \in Uses(q)
          BY <4>2, <4>3 DEF Uses
        <5> QED  BY <1>3, <1>16, <4>1, <4>2, <4>3, <5>1 DEF Shares
      <4>4. CASE cur[q] # v
        <5>1. chain[cur[q]] # <<>>
          BY <2>1, <3>1, <4>2, <4>4
        <5> QED  BY <1>3, <1>16, <4>2, <5>1 DEF RootInv, RemoveInv
      <4> QED  BY <4>3, <4>4
    <3> QED  BY <3>1 DEF RemoveInv
  <2>7. RegistryHonest'
    <3>1. ASSUME NEW u \in Vars, u \in registry', chain'[u] = <<>>
          PROVE  \E q \in Roots : pc'[q] = "remove" /\ cur'[q] = u
      <4>1. u # v /\ u \in registry /\ chain[u] = <<>>
        BY <1>3, <2>1, <3>1
      <4>2. PICK q \in Roots : pc[q] = "remove" /\ cur[q] = u
        BY <4>1 DEF RootInv, RegistryHonest
      <4> QED  BY <1>2, <1>6, <4>2 DEF Procs
    <3>2. ASSUME NEW u \in Vars, u \notin registry', chain'[u] # <<>>, u \notin overlapped'
          PROVE  \E q \in Roots : pc'[q] = "add" /\ cur'[q] = u
      <4>1. CASE u = v /\ chain[v] = <<>>
        BY <1>6, <1>16, <4>1
      <4>2. CASE ~(u = v /\ chain[v] = <<>>)
        <5>1. chain[u] # <<>> /\ u \notin registry /\ u \notin overlapped
          BY <1>3, <1>16, <2>1, <3>2, <4>2
        <5>2. PICK q \in Roots : pc[q] = "add" /\ cur[q] = u
          BY <5>1 DEF RootInv, RegistryHonest
        <5> QED  BY <1>2, <1>6, <5>2 DEF Procs
      <4> QED  BY <4>1, <4>2
    <3> QED  BY <3>1, <3>2 DEF RegistryHonest
  <2>8. RootTypes'
    <3>1. overlapped' \subseteq Vars
      BY <1>1, <1>3, <1>16 DEF RootInv, RootTypes, Shares
    <3>2. cur' \in [Procs -> Vars \union {None}]
      BY <1>1, <1>3, <1>16 DEF RootInv, RootTypes
    <3>3. \A k \in Kids : pc'[k] \notin {"add", "remove"}
      BY <1>6, <1>16, BindingsConstants DEF RootInv, RootTypes, Procs
    <3> QED  BY <1>1, <1>3, <1>13, <2>1, <3>1, <3>2, <3>3 DEF RootInv, RootTypes, FormType, Pairs
  <2> QED  BY <1>1, <1>2, <1>3, <1>6, <1>8, <1>13, <1>14, <1>16, <2>5, <2>6, <2>7, <2>8, RootStep
<1> QED  BY <1>15, <1>16

\* p is to pop v, the first of the m vars that are pushed of its form d, of
\* which it has popped e.
Popped(p, d, m, e, v) ==
    /\ d = Len(frames[p]) /\ m = Len(frames[p][d].pushed)
    /\ e = Gone(p, d) /\ v = frames[p][d].pushed[1][1]

\* What Pop then does to the forms of the thread.
PopResult(p, d, m, e, v) ==
    /\ frames[p] \in Seq(FormType) /\ d \in Nat /\ d > 0 /\ m \in Nat /\ m > 0
    /\ Len(frames[p][d].vs) \in Nat /\ e \in Nat /\ e = Len(frames[p][d].vs) - m
    /\ v \in Vars /\ v # None /\ frames[p][d].vs[e + 1] = v
    /\ frames' \in [Procs -> Seq(FormType)]
    /\ \A q \in Procs \ {p} : frames'[q] = frames[q]
    /\ \A i \in 1..d - 1 : frames'[p][i] = frames[p][i]
    /\ m = 1 => Len(frames'[p]) = d - 1
    /\ m > 1 => /\ Len(frames'[p]) = d /\ frames'[p][d].vs = frames[p][d].vs
                /\ Len(frames'[p][d].pushed) = m - 1
                /\ \A j \in 1..m - 1 :
                      frames'[p][d].pushed[j] = frames[p][d].pushed[j + 1]
    /\ pc' = [pc EXCEPT ![p] = IF p \in Roots /\ Len(chain[v]) = 1 THEN "remove"
                               ELSE IF m > 1 THEN "pop" ELSE "run"]

\* A form loses the first of its vars that are pushed.
LEMMA PopForms ==
    ASSUME RootInv, NEW p \in Procs, Pop(p), NEW d, NEW m, NEW e, NEW v,
           Popped(p, d, m, e, v)
    PROVE  PopResult(p, d, m, e, v)
<1> DEFINE f == frames[p][d]
           t == Tail(f.pushed)
           g == [f EXCEPT !.pushed = t]
<1>0. /\ d = Len(frames[p]) /\ m = Len(f.pushed)
      /\ e = Gone(p, d) /\ v = f.pushed[1][1]
  BY DEF Popped
<1>1. /\ frames[p] \in Seq(FormType) /\ d \in Nat
      /\ \A i \in 1..d : frames[p][i] \in FormType
  BY <1>0, FormOf DEF RootInv
<1>2. pc[p] = "pop" /\ FormInv(p)
  BY DEF Pop, RootInv
<1>3. d > 0 /\ f.pushed # <<>> /\ d \in 1..d
  BY <1>0, <1>1, <1>2 DEF FormInv
<1>4. f \in FormType /\ f.vs \in Seq(Vars) /\ f.pushed \in Seq(Pairs)
      /\ Len(f.vs) \in Nat /\ Len(f.pushed) \in Nat
  BY <1>1, <1>3, FormFields
<1>5. m \in Nat /\ m > 0 /\ 1 \in 1..m /\ m <= Len(f.vs)
  BY <1>0, <1>2, <1>3, <1>4 DEF FormInv
<1>6. e = Len(f.vs) - m /\ e \in Nat
  <2>1. e = Len(f.vs) - m
    BY <1>0, <1>2 DEF Gone
  <2> QED  BY <1>4, <1>5, <2>1
<1>7. v \in Vars /\ v # None /\ f.vs[e + 1] = v
  <2>1. f.pushed[1] \in Pairs /\ v = f.pushed[1][1]
    BY <1>0, <1>3, <1>4, Rest
  <2>2. v \in Vars
    BY <2>1 DEF Pairs
  <2>3. f.pushed[1][1] = f.vs[Gone(p, d) + 1]
    BY <1>0, <1>2, <1>3, <1>5 DEF FormInv
  <2> QED  BY <1>0, <1>6, <2>1, <2>2, <2>3, BindingsConstants
<1>8. /\ t \in Seq(Pairs) /\ Len(t) = m - 1
      /\ \A j \in 1..m - 1 : t[j] = f.pushed[j + 1]
  BY <1>0, <1>3, <1>4, Rest
<1>9. t # <<>> <=> m > 1
  <2>1. t \in Seq(Pairs) /\ Len(t) = m - 1
    BY <1>8
  <2>2. m \in Nat /\ m > 0
    BY <1>5
  <2> HIDE DEF t, f
  <2>3. t = <<>> <=> Len(t) = 0
    BY <2>1, EmptySeq
  <2> QED  BY <2>1, <2>2, <2>3
<1>10. g.pushed = t
  BY <1>4 DEF FormType
<1>11. frames' = [frames EXCEPT ![p] = IF t = <<>> THEN Front(frames[p])
                                       ELSE [frames[p] EXCEPT ![d] = g]]
  <2>1. frames' = [frames EXCEPT ![p] = IF g.pushed = <<>> THEN Front(frames[p])
                                        ELSE [frames[p] EXCEPT ![d] = g]]
    BY <1>0 DEF Pop
  <2> QED  BY <1>10, <2>1
<1>12. pc' = [pc EXCEPT ![p] = IF p \in Roots /\ Len(chain[v]) = 1 THEN "remove"
                               ELSE IF m > 1 THEN "pop" ELSE "run"]
  <2>1. AfterPop(g) = IF m > 1 THEN "pop" ELSE "run"
    <3>1. AfterPop(g) = IF t # <<>> THEN "pop" ELSE "run"
      BY <1>10 DEF AfterPop
    <3> HIDE DEF g, t
    <3> QED  BY <1>9, <3>1
  <2>2. pc' = [pc EXCEPT ![p] = IF p \in Roots /\ Len(chain[v]) = 1 THEN "remove"
                                ELSE AfterPop(g)]
    BY <1>0 DEF Pop
  <2> QED  BY <2>1, <2>2
<1>13. g \in FormType /\ g.vs = f.vs
  BY <1>4, <1>8 DEF FormType
<1> HIDE DEF g, t
<1>14. /\ frames'[p] = IF t = <<>> THEN Front(frames[p]) ELSE [frames[p] EXCEPT ![d] = g]
       /\ \A q \in Procs \ {p} : frames'[q] = frames[q]
  BY <1>11 DEF RootInv, RootTypes
<1>15. CASE m = 1
  <2>1. frames'[p] = Front(frames[p]) /\ frames[p] # <<>>
    <3>1. ~(m > 1) /\ frames[p] # <<>>
      BY <1>0, <1>3, <1>15
    <3> QED  BY <1>9, <1>14, <3>1
  <2>2. /\ frames'[p] \in Seq(FormType) /\ Len(frames'[p]) = d - 1
        /\ \A i \in 1..d - 1 : frames'[p][i] = frames[p][i]
    BY <1>0, <1>1, <2>1, Shortened
  <2>3. frames' \in [Procs -> Seq(FormType)]
    BY <1>11, <2>2 DEF RootInv, RootTypes, FormType, Pairs
  <2> QED  BY <1>1, <1>3, <1>4, <1>5, <1>6, <1>7, <1>12, <1>14, <1>15, <2>2, <2>3 DEF PopResult
<1>16. CASE m # 1
  <2>1. frames'[p] = [frames[p] EXCEPT ![d] = g]
    <3>2. m \in Nat /\ m > 0
      BY <1>5
    <3>1. m > 1
      BY <1>16, <3>2
    <3> QED  BY <1>9, <1>14, <3>1
  <2>2. /\ frames'[p] \in Seq(FormType) /\ Len(frames'[p]) = d /\ frames'[p][d] = g
        /\ \A i \in 1..d : i # d => frames'[p][i] = frames[p][i]
    BY <1>0, <1>1, <1>3, <1>13, <2>1, ExceptSeq
  <2>3. frames' \in [Procs -> Seq(FormType)]
    BY <1>11, <2>2 DEF RootInv, RootTypes, FormType, Pairs
  <2>4. \A i \in 1..d - 1 : frames'[p][i] = frames[p][i]
    BY <1>1, <2>2
  <2> QED  BY <1>1, <1>3, <1>4, <1>5, <1>6, <1>7, <1>8, <1>10, <1>12, <1>13, <1>14, <1>16, <2>2, <2>3, <2>4 DEF PopResult
<1> QED  BY <1>15, <1>16

\* ... and its place among the bindings that are pushed is given up.
LEMMA PopOpen ==
    ASSUME RootInv, NEW p \in Procs, Pop(p), NEW d, NEW m, NEW e, NEW v,
           Popped(p, d, m, e, v),
           cur'[p] \in Vars \/ pc'[p] # "remove", UNCHANGED ops
    PROVE  /\ FormInv(p)' /\ InOpen(p, v, d, e + 1)
           /\ \A u, i, j :
                 InOpen(p, u, i, j)' <=> InOpen(p, u, i, j) /\ ~(i = d /\ j = e + 1)
<1>0. PopResult(p, d, m, e, v)
  BY PopForms
<1> DEFINE f == frames[p][d]
           vs == f.vs
           w == IF p \in Roots /\ Len(chain[v]) = 1 THEN "remove"
                ELSE IF m > 1 THEN "pop" ELSE "run"
<1>1. /\ frames[p] \in Seq(FormType) /\ d \in Nat /\ d > 0 /\ m \in Nat /\ m > 0
      /\ Len(vs) \in Nat /\ e \in Nat /\ e = Len(vs) - m /\ v \in Vars /\ vs[e + 1] = v
      /\ \A i \in 1..d - 1 : frames'[p][i] = frames[p][i]
      /\ m = 1 => Len(frames'[p]) = d - 1
      /\ m > 1 => /\ Len(frames'[p]) = d /\ frames'[p][d].vs = vs
                  /\ Len(frames'[p][d].pushed) = m - 1
                  /\ \A j \in 1..m - 1 : frames'[p][d].pushed[j] = f.pushed[j + 1]
      /\ pc' = [pc EXCEPT ![p] = w]
  BY <1>0 DEF PopResult
<1>2. /\ pc[p] = "pop" /\ FormInv(p)
      /\ d = Len(frames[p]) /\ m = Len(f.pushed) /\ e = Gone(p, d)
  BY DEF Pop, RootInv, Popped
<1>14. d \in Nat /\ d > 0 /\ m \in Nat /\ m > 0 /\ e \in Nat /\ Len(vs) \in Nat
  BY <1>1
<1>3. pc'[p] = w
  BY <1>1 DEF RootInv, RootTypes
<1>4. w \in {"remove", "pop", "run"} /\ (w = "pop" => m > 1) /\ (w = "run" => ~(m > 1))
  OBVIOUS
<1> HIDE DEF w, vs
<1>5. /\ \A i \in 1..d - 1 :
            /\ i # d /\ Len(frames[p][i].pushed) = Len(frames[p][i].vs)
            /\ Len(frames[p][i].vs) \in Nat /\ frames[p][i].vs # <<>>
            /\ Len(frames[p][i].vs) > 0 /\ frames[p][i].pushed # <<>>
            /\ \A j \in 1..Len(frames[p][i].pushed) :
                  frames[p][i].pushed[j][1] = frames[p][i].vs[Gone(p, i) + j]
      /\ \A j \in 1..m : f.pushed[j][1] = vs[e + j]
      /\ vs # <<>> /\ ops[p] > 0
  <2>1. ASSUME NEW i \in 1..d - 1
        PROVE  /\ i # d /\ Len(frames[p][i].pushed) = Len(frames[p][i].vs)
               /\ Len(frames[p][i].vs) \in Nat /\ frames[p][i].vs # <<>>
               /\ Len(frames[p][i].vs) > 0 /\ frames[p][i].pushed # <<>>
               /\ \A j \in 1..Len(frames[p][i].pushed) :
                     frames[p][i].pushed[j][1] = frames[p][i].vs[Gone(p, i) + j]
    <3>1. i \in 1..d /\ i # d /\ i < d
      BY <1>1
    <3>2. frames[p][i] \in FormType
      BY <1>2, <3>1, FormOf DEF RootInv
    <3>3. Len(frames[p][i].vs) \in Nat /\ frames[p][i].vs \in Seq(Vars)
      BY <3>2, FormFields
    <3>4. /\ Len(frames[p][i].pushed) = Len(frames[p][i].vs) /\ frames[p][i].vs # <<>>
          /\ \A j \in 1..Len(frames[p][i].pushed) :
                frames[p][i].pushed[j][1] = frames[p][i].vs[Gone(p, i) + j]
      BY <1>2, <3>1 DEF FormInv
    <3>5. Len(frames[p][i].vs) > 0 /\ frames[p][i].pushed # <<>>
      BY <3>3, <3>4, EmptySeq
    <3> QED  BY <3>1, <3>3, <3>4, <3>5
  <2>2. d \in 1..d /\ d > 0
    BY <1>1
  <2>3. (\A j \in 1..m : f.pushed[j][1] = vs[e + j]) /\ vs # <<>> /\ ops[p] > 0
    BY <1>2, <2>2 DEF FormInv, vs
  <2> QED  BY <2>1, <2>3
<1>6. \A i \in 1..d - 1 : Gone(p, i) = 0
  BY <1>2, <1>5 DEF Gone
<1>7. \A i \in 1..d - 1 : Gone(p, i)' = 0
  <2>1. ASSUME NEW i \in 1..d - 1 PROVE Gone(p, i)' = 0
    <3>1. frames'[p][i] = frames[p][i]
      BY <1>1
    <3>2. Len(frames'[p][i].vs) - Len(frames'[p][i].pushed) = 0
      BY <1>5, <3>1
    <3> QED  BY <3>2 DEF Gone
  <2> QED  BY <2>1
<1>8. Live(p, d) = (e + 1)..(e + m) /\ d \in 1..d
  <2>1. Live(p, d) = (e + 1)..(e + m)
    BY <1>2 DEF Live
  <2> QED  BY <1>14, <2>1
<1>9. InOpen(p, v, d, e + 1)
  <2>1. e + 1 \in (e + 1)..(e + m)
    BY <1>1
  <2> QED  BY <1>1, <1>2, <1>8, <2>1 DEF InOpen, vs
<1>13. m = 1 \/ m > 1
  BY <1>14
<1>10. ASSUME NEW u, NEW i \in 1..d - 1, NEW j
       PROVE  InOpen(p, u, i, j)' <=> InOpen(p, u, i, j)
  <2>1. i \in 1..Len(frames'[p]) /\ i \in 1..Len(frames[p])
    <3>1. Len(frames'[p]) \in {d - 1, d} /\ Len(frames[p]) = d
      BY <1>1, <1>2, <1>13
    <3> QED  BY <1>14, <3>1
  <2> QED  BY <1>1, <1>6, <1>7, <2>1 DEF InOpen, Live
<1>11. CASE m = 1
  <2>1. FormInv(p)'
    <3>1. Len(frames'[p]) = d - 1 /\ w # "pop" /\ ops'[p] > 0
      BY <1>1, <1>4, <1>5, <1>11
    <3>2. d - 1 > 0 => d - 1 \in 1..d - 1
      BY <1>1
    <3>3. pc'[p] = "remove" => cur'[p] # None
      BY BindingsConstants
    <3>4. ASSUME NEW i \in 1..d - 1
          PROVE  LET h == frames'[p][i]
                 IN  /\ Len(h.pushed) <= Len(h.vs) /\ h.vs # <<>> /\ h.pushed # <<>>
                     /\ \A j \in 1..Len(h.pushed) : h.pushed[j][1] = h.vs[Gone(p, i)' + j]
                     /\ Len(h.pushed) = Len(h.vs)
      <4>1. frames'[p][i] = frames[p][i] /\ Gone(p, i)' = Gone(p, i)
        BY <1>1, <1>6, <1>7
      <4> QED  BY <1>5, <4>1
    <3>5. w \in {"remove", "run"}
      BY <1>4, <3>1
    <3> QED  BY <1>3, <1>14, <3>1, <3>2, <3>3, <3>4, <3>5 DEF FormInv
  <2>2. ASSUME NEW u, NEW i, NEW j
        PROVE  InOpen(p, u, i, j)' <=> InOpen(p, u, i, j) /\ ~(i = d /\ j = e + 1)
    <3>1. CASE i \in 1..d - 1
      BY <1>5, <1>10, <3>1
    <3>2. CASE i \notin 1..d - 1
      <4>1. ~InOpen(p, u, i, j)'
        BY <1>1, <1>11, <3>2 DEF InOpen
      <4>2. InOpen(p, u, i, j) => i = d
        BY <1>1, <1>2, <3>2 DEF InOpen
      <4>3. InOpen(p, u, d, j) => j = e + 1
        BY <1>1, <1>8, <1>11 DEF InOpen
      <4> QED  BY <4>1, <4>2, <4>3
    <3> QED  BY <3>1, <3>2
  <2> QED  BY <1>9, <2>1, <2>2
<1>12. CASE m > 1
  <2>1. Gone(p, d)' = e + 1
    <3>1. pc'[p] \in {"pop", "remove"}
      BY <1>3, <1>4, <1>12
    <3>2. /\ Len(frames'[p]) = d /\ Len(frames'[p][d].vs) = Len(vs)
          /\ Len(frames'[p][d].pushed) = m - 1 /\ e = Len(vs) - m
      BY <1>1, <1>12
    <3>3. Len(vs) - (m - 1) = e + 1
      BY <1>14, <3>2
    <3> QED  BY <3>1, <3>2, <3>3 DEF Gone
  <2>2. ASSUME NEW i \in 1..d
        PROVE  LET h == frames'[p][i]
               IN  /\ Len(h.pushed) <= Len(h.vs) /\ h.vs # <<>>
                   /\ \A j \in 1..Len(h.pushed) : h.pushed[j][1] = h.vs[Gone(p, i)' + j]
                   /\ i < d => Len(h.pushed) = Len(h.vs)
    <3>1. CASE i = d
      <4>1. ASSUME NEW j \in 1..m - 1
            PROVE  frames'[p][d].pushed[j][1] = vs[Gone(p, d)' + j]
        <5>1. j + 1 \in 1..m /\ e + (j + 1) = (e + 1) + j
          BY <1>14
        <5>2. frames'[p][d].pushed[j] = f.pushed[j + 1] /\ f.pushed[j + 1][1] = vs[e + (j + 1)]
          BY <1>1, <1>5, <1>12, <5>1
        <5> QED  BY <2>1, <5>1, <5>2
      <4>2. /\ Len(frames'[p][d].pushed) = m - 1 /\ frames'[p][d].vs = vs
            /\ e = Len(vs) - m /\ vs # <<>>
        BY <1>1, <1>5, <1>12
      <4>3. m - 1 <= Len(vs) /\ ~(i < d)
        BY <1>14, <3>1, <4>2
      <4> QED  BY <3>1, <4>1, <4>2, <4>3
    <3>2. CASE i # d
      <4>1. i \in 1..d - 1
        BY <1>14, <3>2
      <4>2. frames'[p][i] = frames[p][i] /\ Gone(p, i)' = Gone(p, i)
        BY <1>1, <1>6, <1>7, <4>1
      <4> QED  BY <1>5, <4>1, <4>2
    <3> QED  BY <3>1, <3>2
  <2>3. FormInv(p)'
    <3>1. frames'[p][d].pushed # <<>>
      BY <1>1, <1>12
    <3>2. pc'[p] = "remove" => cur'[p] # None
      BY BindingsConstants
    <3>3. w \in {"pop", "remove"}
      BY <1>4, <1>12
    <3>4. Len(frames'[p]) = d /\ d > 0 /\ ops'[p] > 0
      BY <1>1, <1>5, <1>12
    <3> QED  BY <1>3, <2>2, <3>1, <3>2, <3>3, <3>4 DEF FormInv
  <2>4. ASSUME NEW u, NEW i, NEW j
        PROVE  InOpen(p, u, i, j)' <=> InOpen(p, u, i, j) /\ ~(i = d /\ j = e + 1)
    <3>1. CASE i \in 1..d - 1
      BY <1>5, <1>10, <3>1
    <3>2. CASE i = d
      <4>1. Live(p, d)' = (e + 2)..(e + m)
        BY <1>1, <1>12, <2>1 DEF Live
      <4>2. j \in (e + 2)..(e + m) <=> j \in (e + 1)..(e + m) /\ j # e + 1
        BY <1>1
      <4> QED  BY <1>1, <1>2, <1>8, <1>12, <3>2, <4>1, <4>2 DEF InOpen, vs
    <3>3. CASE i \notin 1..d
      BY <1>1, <1>2, <1>12, <3>3 DEF InOpen
    <3>4. i \in 1..d - 1 \/ i = d \/ i \notin 1..d
      BY <1>1
    <3> QED  BY <3>1, <3>2, <3>3, <3>4
  <2> QED  BY <1>9, <2>3, <2>4
<1> QED  BY <1>11, <1>12, <1>13

\* A pop makes the chain of the var and its live bindings one less,
\* and finds the chain not empty.
LEMMA InvPop ==
    ASSUME RootInv, NEW p \in Procs, Pop(p)
    PROVE  RootInv'
<1>0. PICK d, m, e, v : Popped(p, d, m, e, v)
  BY DEF Popped
<1>1. /\ frames[p] \in Seq(FormType) /\ d \in Nat /\ d > 0 /\ m \in Nat
      /\ e \in Nat /\ v \in Vars /\ v # None
      /\ frames' \in [Procs -> Seq(FormType)]
      /\ \A q \in Procs \ {p} : frames'[q] = frames[q]
      /\ pc' = [pc EXCEPT ![p] = IF p \in Roots /\ Len(chain[v]) = 1 THEN "remove"
                                 ELSE IF m > 1 THEN "pop" ELSE "run"]
  <2>1. PopResult(p, d, m, e, v)
    BY <1>0, PopForms
  <2> QED  BY <2>1 DEF PopResult
<1>2. v = frames[p][Len(frames[p])].pushed[1][1]
  BY <1>0 DEF Popped
<1>3. /\ pc[p] = "pop" /\ UNCHANGED <<registry, ops, snap, overlapped, leaked>>
      /\ p \notin Roots => UNCHANGED <<chain, cur>>
      /\ p \in Roots => /\ chain' = [chain EXCEPT ![v] = IF @ = <<>> THEN @ ELSE Front(@)]
                        /\ Len(chain[v]) = 1 => cur' = [cur EXCEPT ![p] = v]
                        /\ Len(chain[v]) # 1 => cur' = cur
  BY <1>2 DEF Pop, history
<1>4. /\ \A q \in Procs \ {p} : pc'[q] = pc[q] /\ cur'[q] = cur[q] /\ ops'[q] = ops[q]
      /\ pc'[p] \in {"remove", "pop", "run"} /\ pc' = [pc EXCEPT ![p] = pc'[p]]
      /\ pc'[p] = "remove" <=> p \in Roots /\ Len(chain[v]) = 1
      /\ pc'[p] = "remove" => cur'[p] = v
      /\ pc' \in [Procs -> PCs]
  BY <1>1, <1>3 DEF RootInv, RootTypes, PCs
<1>5. /\ FormInv(p)' /\ InOpen(p, v, d, e + 1)
      /\ \A u, i, j : InOpen(p, u, i, j)' <=> InOpen(p, u, i, j) /\ ~(i = d /\ j = e + 1)
  BY <1>0, <1>1, <1>3, <1>4, PopOpen
<1>6. PICK b : b = e + 1
  OBVIOUS
<1>7. frames'[p] \in Seq(FormType)
  BY <1>1
<1>8. ASSUME NEW u, u # v PROVE Open(p, u)' = Open(p, u)
  <2>1. ~InOpen(p, u, d, b)
    BY <1>5, <1>6, <1>8 DEF InOpen
  <2>2. \A i, j : InOpen(p, u, i, j)' <=> InOpen(p, u, i, j)
    BY <1>5, <1>6, <2>1
  <2> QED  BY <1>1, <1>7, <2>2, OpenEq
<1>9. Open(p, v)' = Open(p, v) \ {<<d, b>>} /\ <<d, b>> \in Open(p, v)
  <2>1. \A i, j : InOpen(p, v, i, j)' <=> InOpen(p, v, i, j) /\ ~(i = d /\ j = b)
    BY <1>5, <1>6
  <2>2. InOpen(p, v, d, b)
    BY <1>5, <1>6
  <2> QED  BY <1>1, <1>7, <2>1, <2>2, OpenDrop
<1>10. CASE p \notin Roots
  <2>1. \A k \in Kids : pc'[k] \notin {"add", "remove"}
    BY <1>4, <1>10 DEF RootInv, RootTypes, Procs
  <2>2. RootTypes'
    BY <1>1, <1>3, <1>4, <1>10, <2>1 DEF RootInv, RootTypes, FormType, Pairs
  <2> QED  BY <1>1, <1>3, <1>4, <1>5, <1>10, <2>2, AsideOne
<1>11. CASE p \in Roots
  <2> DEFINE t == <<p, <<d, b>>>>
  <2>1. t \in Held(v)
    BY <1>9, <1>11 DEF Held
  <2>2. chain[v] # <<>> /\ Len(chain[v]) \in Nat /\ Len(chain[v]) > 0
    BY <1>1, <2>1, HeldChain DEF RootInv
  <2>3. chain \in [Vars -> Seq(Values)] /\ chain[v] \in Seq(Values)
    BY <1>1 DEF RootInv, RootTypes
  <2>4. /\ chain' \in [Vars -> Seq(Values)] /\ Len(chain'[v]) = Len(chain[v]) - 1
        /\ \A u \in Vars : u # v => chain'[u] = chain[u]
    <3> DEFINE c == Front(chain[v])
    <3>1. c \in Seq(Values) /\ Len(c) = Len(chain[v]) - 1
      BY <2>2, <2>3, Shortened
    <3>2. chain' = [chain EXCEPT ![v] = c]
      BY <1>3, <1>11, <2>2
    <3> HIDE DEF c
    <3> QED  BY <1>1, <2>3, <3>1, <3>2
  <2>5. chain'[v] = <<>> <=> Len(chain[v]) = 1
    <3>1. chain'[v] \in Seq(Values)
      BY <1>1, <2>4
    <3>2. chain'[v] = <<>> <=> Len(chain'[v]) = 0
      BY <3>1, EmptySeq
    <3> QED  BY <2>2, <2>4, <3>2
  <2>6. \A q \in Roots \ {p} : \A u : Open(q, u)' = Open(q, u)
    <3>1. \A q \in Procs \ {p} : /\ frames'[q] = frames[q] /\ pc'[q] = pc[q]
                                  /\ cur'[q] = cur[q] /\ ops'[q] = ops[q]
      BY <1>1, <1>4
    <3> QED  BY <3>1, OthersStill DEF Procs
  <2>7. \A u : u # v => Held(u)' = Held(u)
    BY <1>8, <2>6 DEF Held
  <2>8. Held(v)' = Held(v) \ {t}
    <3>1. ASSUME NEW y PROVE y \in Held(v)' <=> y \in Held(v) /\ y # t
      <4>1. y \in Held(v)' <=> \E q \in Roots : \E o \in Open(q, v)' : y = <<q, o>>
        BY DEF Held
      <4>2. y \in Held(v) <=> \E q \in Roots : \E o \in Open(q, v) : y = <<q, o>>
        BY DEF Held
      <4> QED  BY <1>9, <2>6, <4>1, <4>2
    <3> QED  BY <3>1
  <2> HIDE DEF t
  <2>9. ChainInv'
    <3>1. ASSUME NEW u \in Vars
          PROVE  /\ IsFiniteSet(Held(u)') /\ Cardinality(Held(u)') <= Len(chain'[u])
                 /\ u \notin leaked' => Cardinality(Held(u)') = Len(chain'[u])
      <4>1. /\ IsFiniteSet(Held(u)) /\ Cardinality(Held(u)) <= Len(chain[u])
            /\ u \notin leaked => Cardinality(Held(u)) = Len(chain[u])
        BY DEF RootInv, ChainInv
      <4>2. CASE u # v
        BY <1>3, <2>4, <2>7, <4>1, <4>2
      <4>3. CASE u = v
        <5>1. IsFiniteSet(Held(v)') /\ Cardinality(Held(v)') = Cardinality(Held(v)) - 1
          BY <2>1, <2>8, <4>1, <4>3, FS_RemoveElement
        <5>2. Cardinality(Held(v)) \in Nat
          BY <4>1, <4>3, FS_CardinalityType
        <5>3. Len(chain[v]) \in Nat /\ Len(chain'[v]) = Len(chain[v]) - 1 /\ leaked' = leaked
          BY <1>3, <2>2, <2>4
        <5> QED  BY <4>1, <4>3, <5>1, <5>2, <5>3
      <4> QED  BY <4>2, <4>3
    <3> QED  BY <3>1 DEF ChainInv
  <2>10. RemoveInv'
    <3>1. ASSUME NEW q \in Roots, pc'[q] = "remove", chain'[cur'[q]] # <<>>
          PROVE  cur'[q] \in overlapped'
      <4>1. q # p
        BY <1>4, <2>5, <3>1
      <4>2. pc[q] = "remove" /\ cur'[q] = cur[q] /\ cur[q] # None /\ cur[q] \in Vars
        BY <1>4, <3>1, <4>1 DEF RootInv, FormInv, RootTypes, Procs
      <4>3. chain[cur[q]] # <<>>
        BY <2>2, <2>4, <3>1, <4>2
      <4> QED  BY <1>3, <4>2, <4>3 DEF RootInv, RemoveInv
    <3> QED  BY <3>1 DEF RemoveInv
  <2>11. RegistryHonest'
    <3>1. ASSUME NEW u \in Vars, u \in registry', chain'[u] = <<>>
          PROVE  \E q \in Roots : pc'[q] = "remove" /\ cur'[q] = u
      <4>1. CASE u = v
        BY <1>4, <1>11, <2>5, <3>1, <4>1
      <4>2. CASE u # v
        <5>1. u \in registry /\ chain[u] = <<>>
          BY <1>3, <2>4, <3>1, <4>2
        <5>2. PICK q \in Roots : pc[q] = "remove" /\ cur[q] = u
          BY <5>1 DEF RootInv, RegistryHonest
        <5> QED  BY <1>3, <1>4, <5>2 DEF Procs
      <4> QED  BY <4>1, <4>2
    <3>2. ASSUME NEW u \in Vars, u \notin registry', chain'[u] # <<>>, u \notin overlapped'
          PROVE  \E q \in Roots : pc'[q] = "add" /\ cur'[q] = u
      <4>1. chain[u] # <<>> /\ u \notin registry /\ u \notin overlapped
        BY <1>3, <2>2, <2>4, <3>2
      <4>2. PICK q \in Roots : pc[q] = "add" /\ cur[q] = u
        BY <4>1 DEF RootInv, RegistryHonest
      <4> QED  BY <1>3, <1>4, <4>2 DEF Procs
    <3> QED  BY <3>1, <3>2 DEF RegistryHonest
  <2>12. RootTypes'
    <3>1. cur' \in [Procs -> Vars \union {None}]
      <4>1. cur' = cur \/ cur' = [cur EXCEPT ![p] = v]
        BY <1>3, <1>11
      <4>2. cur \in [Procs -> Vars \union {None}]
        BY DEF RootInv, RootTypes
      <4> QED  BY <1>1, <4>1, <4>2
    <3>2. \A k \in Kids : pc'[k] \notin {"add", "remove"}
      BY <1>4, <1>11, BindingsConstants DEF RootInv, RootTypes, Procs
    <3> QED  BY <1>1, <1>3, <1>4, <2>4, <3>1, <3>2 DEF RootInv, RootTypes, FormType, Pairs
  <2> QED  BY <1>1, <1>3, <1>4, <1>5, <1>11, <2>9, <2>10, <2>11, <2>12, RootStep
<1> QED  BY <1>10, <1>11

-----------------------------------------------------------------------------
\* Nothing is bound at the start.
LEMMA InvInit == Init => RootInv
<1> SUFFICES ASSUME Init PROVE RootInv
  OBVIOUS
<1>1. /\ chain = [v \in Vars |-> <<>>] /\ registry = {} /\ overlapped = {} /\ leaked = {}
      /\ pc = [p \in Procs |-> IF p \in Roots THEN "run" ELSE "none"]
      /\ cur = [p \in Procs |-> None] /\ frames = [p \in Procs |-> <<>>]
      /\ ops = [p \in Procs |-> 0] /\ snap = [p \in Procs |-> NoSnap]
  BY DEF Init, Empty
<1>2. DOMAIN NoSnap = {"for", "left", "got"} /\ NoSnap.for.kid = None
  BY DEF NoSnap
<1>3. RootTypes
  <2>1. chain \in [Vars -> Seq(Values)]
    BY <1>1
  <2>2. frames \in [Procs -> Seq([vs : Seq(Vars), pushed : Seq(Vars \X Values)])]
    BY <1>1
  <2>3. pc \in [Procs -> PCs] /\ \A k \in Kids : pc[k] \notin {"add", "remove"}
    BY <1>1 DEF PCs, Procs
  <2>4. ops \in [Procs -> Nat] /\ \A p \in Procs : ops[p] <= MaxOps[p]
    BY <1>1, BindingsConstants
  <2> QED  BY <1>1, <1>2, <2>1, <2>2, <2>3, <2>4 DEF RootTypes
<1>4. SnapInv
  BY <1>1, <1>2 DEF SnapInv
<1>5. ASSUME NEW p \in Procs PROVE FormInv(p)
  <2>1. pc[p] \in {"run", "none"} /\ Len(frames[p]) = 0
    BY <1>1
  <2> QED  BY <2>1 DEF FormInv
<1>6. ChainInv
  <2>1. \A v : Held(v) = {}
    BY <1>1 DEF Held, Open, Procs
  <2>2. \A v \in Vars : Len(chain[v]) = 0
    BY <1>1
  <2>3. IsFiniteSet({}) /\ Cardinality({}) = 0
    BY FS_EmptySet
  <2>4. \A v \in Vars : /\ IsFiniteSet(Held(v)) /\ Cardinality(Held(v)) = 0
                        /\ Len(chain[v]) = 0
    BY <2>1, <2>2, <2>3
  <2> QED  BY <2>4 DEF ChainInv
<1>7. RemoveInv
  BY <1>1 DEF RemoveInv, Procs
<1>8. RegistryHonest
  BY <1>1 DEF RegistryHonest
<1> QED  BY <1>3, <1>4, <1>5, <1>6, <1>7, <1>8 DEF RootInv

\* The invariant is inductive.
LEMMA InvNext == RootInv /\ [Next]_vars => RootInv'
<1> SUFFICES ASSUME RootInv, [Next]_vars PROVE RootInv'
  OBVIOUS
<1>1. ASSUME NEW p \in Procs, Step(p) PROVE RootInv'
  BY <1>1, InvEnter, InvPush, InvRegistryAdd, InvInitThrows, InvLeave, InvPop,
     InvRegistryRemove, InvSetCurrent, InvBeginSnapshot, InvReadChain, InvInstall,
     InvCaptureBound DEF Step
<1>2. ASSUME NEW k \in Kids, Return(k) PROVE RootInv'
  BY <1>2, InvReturn
<1>3. CASE UNCHANGED vars
  <2>1. UNCHANGED <<chain, registry, cur, frames, ops, overlapped, leaked, pc, snap>>
    BY <1>3 DEF vars, ctxVars, history
  <2>2. RootTypes'
    BY <2>1 DEF RootInv, RootTypes
  <2>3. SnapInv'
    BY <2>1, SnapStill
  <2> QED  BY <2>1, <2>2, <2>3, AsideStill
<1> QED  BY <1>1, <1>2, <1>3 DEF Next

(* The root context keeps its inductive invariant: each chain is as long   *)
(* as the forms of the root threads say.                                   *)
THEOREM RootInvariant == Spec => []RootInv
BY InvInit, InvNext, PTL DEF Spec

\* When no root thread has a form open, no var has a live binding.
LEMMA Unwound == RootInv => RootUnwinds
<1> SUFFICES ASSUME RootInv, \A p \in Roots : pc[p] = "run" /\ frames[p] = <<>>,
                    NEW v \in Vars \ leaked
             PROVE  chain[v] = <<>> /\ v \notin registry
  BY DEF RootUnwinds
<1>1. Held(v) = {}
  BY DEF Held, Open
<1>2. Cardinality(Held(v)) = Len(chain[v]) /\ chain[v] \in Seq(Values)
  BY DEF RootInv, ChainInv, RootTypes
<1>3. chain[v] = <<>>
  BY <1>1, <1>2, FS_EmptySet, EmptySeq
<1>4. v \notin registry
  BY <1>3 DEF RootInv, RegistryHonest
<1> QED  BY <1>3, <1>4

(* The registry of the root context names the live root bindings, up to a  *)
(* push or pop under way, and no root binding outlives the forms that made *)
(* it, however the threads that share the context overlap.                 *)
THEOREM RootsHonest == Spec => []RootBindingsHonest
<1>1. RootInv => RootBindingsHonest
  BY Unwound DEF RootBindingsHonest, RootInv
<1> QED  BY <1>1, RootInvariant, PTL

-----------------------------------------------------------------------------
(* Numbering: the n-th element of a set of numbers.                        *)

\* How many elements of a set of numbers are at or below i.
Rank(T, i) == Cardinality({j \in T : j <= i})

\* Elements that are ordered, each with the set B[x] of those up to it, are
\* numbered from 1 by the size of that set.
LEMMA Numbered ==
    ASSUME NEW T, IsFiniteSet(T), NEW B \in [T -> SUBSET T],
           \A x \in T : x \in B[x],
           \A x, y \in T : \/ x = y
                           \/ B[x] \subseteq B[y] /\ y \notin B[x]
                           \/ B[y] \subseteq B[x] /\ x \notin B[y]
    PROVE  /\ \A x \in T : Cardinality(B[x]) \in 1..Cardinality(T)
           /\ \A x, y \in T : y \notin B[x] => Cardinality(B[x]) < Cardinality(B[y])
           /\ \A n \in 1..Cardinality(T) : \E x \in T : Cardinality(B[x]) = n
<1> DEFINE r == [x \in T |-> Cardinality(B[x])]
           N == 1..Cardinality(T)
<1>1. \A x \in T : IsFiniteSet(B[x]) /\ Cardinality(B[x]) \in Nat /\ Cardinality(B[x]) <= Cardinality(T)
  <2>1. ASSUME NEW x \in T
        PROVE  IsFiniteSet(B[x]) /\ Cardinality(B[x]) \in Nat /\ Cardinality(B[x]) <= Cardinality(T)
    <3>1. B[x] \in SUBSET T
      OBVIOUS
    <3>2. IsFiniteSet(B[x]) /\ Cardinality(B[x]) <= Cardinality(T)
      BY <3>1, FS_Subset
    <3> QED  BY <3>2, FS_CardinalityType
  <2> QED  BY <2>1
<1>2. ASSUME NEW x \in T PROVE Cardinality(B[x]) # 0
  <2>1. IsFiniteSet(B[x]) /\ B[x] # {}
    BY <1>1
  <2> QED  BY <2>1, FS_EmptySet
<1>3. Cardinality(T) \in Nat
  BY FS_CardinalityType
<1>4. \A x \in T : Cardinality(B[x]) \in N
  BY <1>1, <1>2, <1>3
<1>5. ASSUME NEW x \in T, NEW y \in T, y \notin B[x]
      PROVE  Cardinality(B[x]) < Cardinality(B[y])
  <2>1. B[x] \subseteq B[y] /\ B[x] # B[y]
    BY <1>5
  <2>2. B[x] \in SUBSET B[y] /\ IsFiniteSet(B[y])
    BY <1>1, <2>1
  <2>3. Cardinality(B[x]) <= Cardinality(B[y]) /\ Cardinality(B[x]) # Cardinality(B[y])
    BY <2>1, <2>2, FS_Subset
  <2> QED  BY <1>1, <2>3
<1>6. \A x, y \in T : r[x] = r[y] => x = y
  <2>1. ASSUME NEW x \in T, NEW y \in T, x # y PROVE Cardinality(B[x]) # Cardinality(B[y])
    <3>1. y \notin B[x] \/ x \notin B[y]
      BY <2>1
    <3>2. Cardinality(B[x]) < Cardinality(B[y]) \/ Cardinality(B[y]) < Cardinality(B[x])
      BY <1>5, <3>1
    <3> QED  BY <1>1, <3>2
  <2> QED  BY <2>1
<1>7. r \in Injection(T, N)
  <2>1. r \in [T -> N]
    BY <1>4
  <2> QED  BY <1>6, <2>1 DEF Injection, IsInjective
<1>8. IsFiniteSet(N) /\ Cardinality(N) = Cardinality(T)
  <2>1. 1 \in Int /\ Cardinality(T) \in Int
    BY <1>3
  <2>2. IsFiniteSet(N) /\ Cardinality(N) = IF 1 > Cardinality(T) THEN 0 ELSE Cardinality(T) - 1 + 1
    BY <2>1, FS_Interval
  <2> QED  BY <1>3, <2>2
<1>9. r \in Surjection(T, N)
  <2> HIDE DEF r, N
  <2> QED  BY <1>7, <1>8, FS_Injection
<1>10. \A n \in N : \E x \in T : r[x] = n
  BY <1>9 DEF Surjection
<1> QED  BY <1>4, <1>5, <1>10

\* The ranks of a set of places.
LEMMA Ranks ==
    ASSUME NEW l \in Nat, NEW T \in SUBSET (1..l)
    PROVE  /\ IsFiniteSet(T) /\ Cardinality(T) \in Nat
           /\ \A i \in T : Rank(T, i) \in 1..Cardinality(T)
           /\ \A i, j \in T : Rank(T, i) = Rank(T, j) => i = j
           /\ \A n \in 1..Cardinality(T) : \E i \in T : Rank(T, i) = n
<1>1. IsFiniteSet(T) /\ Cardinality(T) \in Nat
  <2>1. IsFiniteSet(1..l)
    BY FS_Interval
  <2>2. IsFiniteSet(T)
    BY <2>1, FS_Subset
  <2> QED  BY <2>2, FS_CardinalityType
<1> DEFINE B == [i \in T |-> {j \in T : j <= i}]
<1>2. B \in [T -> SUBSET T] /\ \A i \in T : i \in B[i]
  OBVIOUS
<1>3. ASSUME NEW x \in T, NEW y \in T
      PROVE  \/ x = y
             \/ B[x] \subseteq B[y] /\ y \notin B[x]
             \/ B[y] \subseteq B[x] /\ x \notin B[y]
  <2>1. x \in Int /\ y \in Int /\ \A z \in T : z \in Int
    OBVIOUS
  <2>2. CASE x < y
    <3>1. y \notin B[x]
      BY <2>1, <2>2
    <3>2. ASSUME NEW z \in T, z <= x PROVE z <= y
      BY <2>1, <2>2, <3>2
    <3> QED  BY <3>1, <3>2
  <2>3. CASE y < x
    <3>1. x \notin B[y]
      BY <2>1, <2>3
    <3>2. ASSUME NEW z \in T, z <= y PROVE z <= x
      BY <2>1, <2>3, <3>2
    <3> QED  BY <3>1, <3>2
  <2> QED  BY <2>1, <2>2, <2>3
<1>4. \A i \in T : Rank(T, i) = Cardinality(B[i])
  BY DEF Rank
<1>8. ASSUME NEW x \in T, NEW y \in T, x # y PROVE y \notin B[x] \/ x \notin B[y]
  BY <1>3, <1>8
<1> HIDE DEF B
<1>5. /\ \A x \in T : Cardinality(B[x]) \in 1..Cardinality(T)
      /\ \A x, y \in T : y \notin B[x] => Cardinality(B[x]) < Cardinality(B[y])
      /\ \A n \in 1..Cardinality(T) : \E x \in T : Cardinality(B[x]) = n
  BY <1>1, <1>2, <1>3, Numbered
<1>6. ASSUME NEW x \in T, NEW y \in T, x # y PROVE Cardinality(B[x]) # Cardinality(B[y])
  <2>1. Cardinality(B[x]) < Cardinality(B[y]) \/ Cardinality(B[y]) < Cardinality(B[x])
    BY <1>5, <1>6, <1>8
  <2>2. Cardinality(B[x]) \in Int /\ Cardinality(B[y]) \in Int
    BY <1>1, <1>5
  <2> QED  BY <2>1, <2>2
<1> QED  BY <1>1, <1>4, <1>5, <1>6

\* The n-th of the frames of a var.
LEMMA NthOf ==
    ASSUME NEW l \in Nat, NEW T \in SUBSET (1..l), NEW i \in T
    PROVE  Nth(T, Rank(T, i)) = i
<1>1. \A k \in T : Rank(T, k) = Rank(T, i) => k = i
  BY Ranks
<1>2. Nth(T, Rank(T, i)) = CHOOSE k \in T : Rank(T, k) = Rank(T, i)
  BY DEF Nth, Rank
<1> HIDE DEF Rank
<1> QED  BY <1>1, <1>2

\* A sequence of frames.
LEMMA FrameAt ==
    ASSUME NEW s \in Seq(Pairs), NEW v
    PROVE  /\ Len(s) \in Nat /\ At(s, v) \in SUBSET (1..Len(s))
           /\ \A i \in 1..Len(s) : s[i] \in Pairs /\ s[i] = <<s[i][1], s[i][2]>>
                                   /\ s[i][1] \in Vars /\ s[i][2] \in Values
           /\ \A i : i \in At(s, v) <=> i \in 1..Len(s) /\ s[i][1] = v
<1>1. Len(s) \in Nat /\ \A i \in 1..Len(s) : s[i] \in Pairs
  OBVIOUS
<1>2. \A b \in Pairs : b = <<b[1], b[2]>> /\ b[1] \in Vars /\ b[2] \in Values
  BY DEF Pairs
<1> QED  BY <1>1, <1>2 DEF At

\* ByVar(s)[v] is the sequence whose element at the rank of a frame of v is
\* the value of that frame.
LEMMA ByVarOf ==
    ASSUME NEW s \in Seq(Pairs), NEW v \in Vars
    PROVE  /\ ByVar(s)[v] \in Seq(Values) /\ Len(ByVar(s)[v]) = Cardinality(At(s, v))
           /\ \A i \in At(s, v) : ByVar(s)[v][Rank(At(s, v), i)] = s[i][2]
<1> DEFINE T == At(s, v)  c == Cardinality(T)
<1>1. Len(s) \in Nat /\ T \in SUBSET (1..Len(s))
  BY FrameAt
<1>2. ByVar(s)[v] = [n \in 1..c |-> s[Nth(T, n)][2]]
  BY DEF ByVar
<1>9. \A i \in T : s[i][2] \in Values
  BY FrameAt, <1>1
<1> HIDE DEF T
<1>3. c \in Nat /\ \A n \in 1..c : \E i \in T : Rank(T, i) = n
  BY <1>1, Ranks
<1>4. ASSUME NEW n \in 1..c PROVE s[Nth(T, n)][2] \in Values
  <2>1. PICK i \in T : Rank(T, i) = n
    BY <1>3
  <2>2. Nth(T, n) = i
    BY <1>1, <2>1, NthOf
  <2> QED  BY <1>9, <2>2
<1> HIDE DEF c
<1>5. [n \in 1..c |-> s[Nth(T, n)][2]] \in Seq(Values) /\ Len([n \in 1..c |-> s[Nth(T, n)][2]]) = c
  BY <1>3, <1>4
<1>6. ASSUME NEW i \in T PROVE ByVar(s)[v][Rank(T, i)] = s[i][2]
  <2>1. Rank(T, i) \in 1..c
    BY <1>1, Ranks DEF c
  <2>2. Nth(T, Rank(T, i)) = i
    BY <1>1, NthOf
  <2> QED  BY <1>2, <2>1, <2>2
<1> QED  BY <1>2, <1>5, <1>6 DEF T, c

\* The values of a var, one frame after the other.
LEMMA ByVarIs ==
    ASSUME NEW s \in Seq(Pairs), NEW v \in Vars, NEW m \in Seq(Values),
           Len(m) = Cardinality(At(s, v)),
           \A i \in At(s, v) : m[Rank(At(s, v), i)] = s[i][2]
    PROVE  ByVar(s)[v] = m
<1> DEFINE T == At(s, v)  b == ByVar(s)[v]
<1>1. Len(s) \in Nat /\ T \in SUBSET (1..Len(s))
  BY FrameAt
<1>2. b \in Seq(Values) /\ Len(b) = Cardinality(T) /\ \A i \in T : b[Rank(T, i)] = s[i][2]
  BY ByVarOf
<1>3. Len(m) = Cardinality(T) /\ \A i \in T : m[Rank(T, i)] = s[i][2]
  OBVIOUS
<1> HIDE DEF T, b
<1>4. ASSUME NEW n \in 1..Len(m) PROVE m[n] = b[n]
  <2>1. \A k \in 1..Cardinality(T) : \E i \in T : Rank(T, i) = k
    BY <1>1, Ranks
  <2>2. PICK i \in T : Rank(T, i) = n
    BY <1>3, <2>1
  <2> QED  BY <1>2, <1>3, <2>2
<1>5. m = b
  BY <1>2, <1>3, <1>4, SeqEqual
<1> QED  BY <1>5 DEF b

\* Moving a set of numbers up keeps their count.
LEMMA MovedUp ==
    ASSUME NEW l \in Nat, NEW n \in Nat, NEW T \in SUBSET (1..n)
    PROVE  Cardinality({l + j : j \in T}) = Cardinality(T) /\ IsFiniteSet({l + j : j \in T})
<1> DEFINE U == {l + j : j \in T}
           f == [j \in T |-> l + j]
<1>1. IsFiniteSet(T)
  BY Ranks
<1>2. f \in [T -> U] /\ \A j \in T : j \in Int
  OBVIOUS
<1>3. \A u \in U : \E j \in T : f[j] = u
  OBVIOUS
<1>4. \A i, j \in T : f[i] = f[j] => i = j
  BY <1>2
<1>5. f \in Bijection(T, U)
  <2> HIDE DEF f, U
  <2> QED  BY <1>2, <1>3, <1>4 DEF Bijection, Injection, Surjection, IsInjective
<1>6. ExistsBijection(T, U)
  BY <1>5 DEF ExistsBijection
<1> HIDE DEF U
<1>7. Cardinality(U) = Cardinality(T) /\ IsFiniteSet(U)
  BY <1>1, <1>6, FS_Bijection
<1> QED  BY <1>7 DEF U

\* Two sets of numbers, one above the other.
Within(l, S) == l \in Nat /\ S \in SUBSET (1..l)
Shifted(l, T, U) == U = {l + j : j \in T}

\* Two stacks on top of each other: the frames of a var in the lower one come first.
LEMMA Stacked ==
    ASSUME NEW l, NEW n, NEW S, NEW T, NEW U, Within(l, S), Within(n, T), Shifted(l, T, U)
    PROVE  Cardinality(S \union U) = Cardinality(S) + Cardinality(T)
<1> USE DEF Within, Shifted
<1>1. IsFiniteSet(U) /\ Cardinality(U) = Cardinality(T)
  <2>1. /\ Cardinality({l + j : j \in T}) = Cardinality(T)
        /\ IsFiniteSet({l + j : j \in T})
    BY MovedUp
  <2> QED  BY <2>1
<1>2. IsFiniteSet(S) /\ Cardinality(S) \in Nat /\ Cardinality(T) \in Nat
  BY Ranks
<1>3. S \cap U = {}
  <2>1. ASSUME NEW j \in T PROVE l + j \notin S
    <3>1. j \in Int /\ j >= 1
      OBVIOUS
    <3>2. \A i \in S : i <= l
      OBVIOUS
    <3> QED  BY <3>1, <3>2
  <2> QED  BY <2>1
<1>4. Cardinality(S \union U) = Cardinality(S) + Cardinality(U) - Cardinality(S \cap U)
  BY <1>1, <1>2, FS_Union
<1>5. Cardinality(S \cap U) = 0
  BY <1>3, FS_EmptySet
<1> QED  BY <1>1, <1>2, <1>4, <1>5

\* What a chain says of a var comes from its pieces in turn.
LEMMA ByVarJoin ==
    ASSUME NEW s \in Seq(Pairs), NEW t \in Seq(Pairs), NEW v \in Vars
    PROVE  s \o t \in Seq(Pairs) /\ ByVar(s \o t)[v] = ByVar(s)[v] \o ByVar(t)[v]
<1> DEFINE u == s \o t  S == At(s, v)  T == At(t, v)  U == At(u, v)
           a == ByVar(s)[v]  b == ByVar(t)[v]  c == a \o b
<1>1. PICK l, n \in Nat : l = Len(s) /\ n = Len(t)
  OBVIOUS
<1>2. /\ u \in Seq(Pairs) /\ (\A i : i \in U <=> i \in S \/ \E j \in T : i = l + j)
      /\ \A i \in S : u[i] = s[i] /\ i <= l
      /\ \A j \in T : u[l + j] = t[j]
  <2>2. /\ u \in Seq(Pairs) /\ Len(u) = l + n
        /\ \A i \in 1..l + n : u[i] = IF i <= l THEN s[i] ELSE t[i - l]
    BY <1>1, ConcatProperties
  <2>3. \A i \in 1..l : u[i] = s[i] /\ i \in 1..l + n
    BY <1>1, <2>2
  <2>4. ASSUME NEW j \in 1..n PROVE u[l + j] = t[j] /\ l + j \in 1..l + n
    <3>1. l + j \in 1..l + n /\ ~(l + j <= l) /\ (l + j) - l = j
      BY <1>1
    <3> QED  BY <2>2, <3>1
  <2>5. At(s, v) = {i \in 1..l : s[i][1] = v} /\ At(t, v) = {i \in 1..n : t[i][1] = v}
    BY <1>1 DEF At
  <2>6. At(u, v) = {i \in 1..l + n : u[i][1] = v}
    BY <2>2 DEF At
  <2>7. ASSUME NEW i \in 1..l + n PROVE i \in 1..l \/ \E j \in 1..n : i = l + j
    <3>1. i <= l => i \in 1..l
      BY <1>1
    <3>2. ~(i <= l) => i - l \in 1..n /\ i = l + (i - l)
      BY <1>1
    <3> QED  BY <3>1, <3>2
  <2>8. \A i : i \in At(u, v) <=> i \in At(s, v) \/ \E j \in At(t, v) : i = l + j
    <3>1. ASSUME NEW i \in At(u, v) PROVE i \in At(s, v) \/ \E j \in At(t, v) : i = l + j
      <4>1. i \in 1..l + n /\ u[i][1] = v
        BY <2>6
      <4>2. CASE i \in 1..l
        BY <2>3, <2>5, <4>1, <4>2
      <4>3. CASE \E j \in 1..n : i = l + j
        <5>1. PICK j \in 1..n : i = l + j
          BY <4>3
        <5>2. u[l + j] = t[j]
          BY <2>4
        <5>3. t[j][1] = v
          BY <4>1, <5>1, <5>2
        <5>4. j \in At(t, v)
          BY <2>5, <5>3
        <5> QED  BY <5>1, <5>4
      <4> QED  BY <2>7, <4>1, <4>2, <4>3
    <3>2. ASSUME NEW i \in At(s, v) PROVE i \in At(u, v)
      BY <2>3, <2>5, <2>6
    <3>3. ASSUME NEW j \in At(t, v) PROVE l + j \in At(u, v)
      BY <2>4, <2>5, <2>6
    <3> QED  BY <3>1, <3>2, <3>3
  <2>9. \A i \in At(s, v) : u[i] = s[i] /\ i <= l
    BY <2>3, <2>5, <1>1
  <2>10. \A j \in At(t, v) : u[l + j] = t[j]
    BY <2>4, <2>5
  <2> QED  BY <2>2, <2>8, <2>9, <2>10
<1>3. S \in SUBSET (1..l) /\ T \in SUBSET (1..n)
  BY <1>1, FrameAt
<1>4. /\ a \in Seq(Values) /\ Len(a) = Cardinality(S) /\ \A i \in S : a[Rank(S, i)] = s[i][2]
      /\ b \in Seq(Values) /\ Len(b) = Cardinality(T) /\ \A i \in T : b[Rank(T, i)] = t[i][2]
  BY ByVarOf
<1> HIDE DEF u, S, T, U, a, b
<1>5. /\ Cardinality(S) \in Nat /\ \A i \in S : Rank(S, i) \in 1..Cardinality(S)
      /\ Cardinality(T) \in Nat /\ \A i \in T : Rank(T, i) \in 1..Cardinality(T)
  BY <1>3, Ranks
<1>6. /\ c \in Seq(Values) /\ Len(c) = Len(a) + Len(b)
      /\ \A i \in 1..Len(a) + Len(b) : c[i] = IF i <= Len(a) THEN a[i] ELSE b[i - Len(a)]
  BY <1>4, ConcatProperties
<1> HIDE DEF c
<1>7. Cardinality(U) = Cardinality(S) + Cardinality(T)
  <2> DEFINE W == {l + j : j \in T}
  <2>1. Shifted(l, T, W) /\ U = S \union W
    BY <1>2 DEF Shifted
  <2> HIDE DEF W
  <2>2. Cardinality(S \union W) = Cardinality(S) + Cardinality(T)
    <3>1. Within(l, S) /\ Within(n, T)
      BY <1>1, <1>3 DEF Within
    <3> QED  BY <2>1, <3>1, Stacked
  <2> QED  BY <2>1, <2>2
<1>8. ASSUME NEW i \in S PROVE c[Rank(U, i)] = u[i][2]
  <2>1. {k \in U : k <= i} = {k \in S : k <= i}
    <3>1. \A j \in T : ~(l + j <= i)
      BY <1>1, <1>2, <1>3
    <3> QED  BY <1>2, <3>1
  <2>2. Rank(U, i) = Rank(S, i)
    BY <2>1 DEF Rank
  <2>3. PICK k \in 1..Cardinality(S) : k = Rank(S, i)
    BY <1>5
  <2>4. c[k] = a[k]
    BY <1>4, <1>5, <1>6, <2>3
  <2> QED  BY <1>2, <1>4, <2>2, <2>3, <2>4
<1>9. ASSUME NEW j \in T PROVE c[Rank(U, l + j)] = u[l + j][2]
  <2> DEFINE V == {k \in T : k <= j}
  <2>1. {k \in U : k <= l + j} = S \union {l + k : k \in V}
    <3>1. \A k \in S : k <= l + j
      BY <1>1, <1>2, <1>3
    <3>2. \A k \in T : l + k <= l + j <=> k <= j
      BY <1>1, <1>3
    <3> QED  BY <1>2, <3>1, <3>2
  <2>2. V \in SUBSET (1..n)
    BY <1>3
  <2> DEFINE W == {l + k : k \in V}
  <2>3. Shifted(l, V, W) /\ Rank(U, l + j) = Cardinality(S \union W)
    BY <2>1 DEF Rank, Shifted
  <2> HIDE DEF V, W
  <2>4. Rank(U, l + j) = Cardinality(S) + Cardinality(V)
    <3>1. Cardinality(S \union W) = Cardinality(S) + Cardinality(V)
      <4>1. Within(l, S) /\ Within(n, V)
        BY <1>1, <1>3, <2>2 DEF Within
      <4> QED  BY <2>3, <4>1, Stacked
    <3> QED  BY <2>3, <3>1
  <2>5. Cardinality(V) = Rank(T, j)
    BY DEF V, Rank
  <2>6. PICK k \in 1..Cardinality(T) : k = Rank(T, j)
    BY <1>5
  <2>7. c[Cardinality(S) + k] = b[k]
    <3> DEFINE x == Cardinality(S)
    <3>1. x \in Nat /\ Len(a) = x /\ k \in Nat /\ k >= 1 /\ k <= Len(b) /\ Len(b) \in Nat
      BY <1>4, <1>5
    <3> HIDE DEF x
    <3>2. x + k \in 1..Len(a) + Len(b) /\ ~(x + k <= Len(a)) /\ (x + k) - Len(a) = k
      BY <3>1
    <3>3. c[x + k] = b[k]
      BY <1>6, <3>2
    <3> QED  BY <3>3 DEF x
  <2> QED  BY <1>2, <1>4, <2>4, <2>5, <2>6, <2>7
<1>10. \A i \in U : c[Rank(U, i)] = u[i][2]
  BY <1>2, <1>8, <1>9
<1>11. ByVar(u)[v] = c
  <2>1. Len(c) = Cardinality(At(u, v)) /\ \A i \in At(u, v) : c[Rank(At(u, v), i)] = u[i][2]
    BY <1>4, <1>6, <1>7, <1>10 DEF U
  <2> QED  BY <1>2, <1>6, <2>1, ByVarIs
<1> QED  BY <1>2, <1>11 DEF u, c, a, b

\* A stack of no frames.
LEMMA ByVarNone ==
    ASSUME NEW v \in Vars, NEW s \in Seq(Pairs), At(s, v) = {}
    PROVE  ByVar(s)[v] = <<>>
<1>1. ByVar(s)[v] \in Seq(Values) /\ Len(ByVar(s)[v]) = 0
  BY ByVarOf, FS_EmptySet
<1> QED  BY <1>1

\* A stack of one frame.
LEMMA ByVarOne ==
    ASSUME NEW b \in Pairs, NEW v \in Vars
    PROVE  /\ <<b>> \in Seq(Pairs)
           /\ b[1] = v => ByVar(<<b>>)[v] = <<b[2]>> /\ b[2] \in Values
           /\ b[1] # v => ByVar(<<b>>)[v] = <<>>
<1> DEFINE s == <<b>>
<1>1. s \in Seq(Pairs) /\ Len(s) = 1 /\ s[1] = b
  OBVIOUS
<1> HIDE DEF s
<1>2. CASE b[1] # v
  <2>1. At(s, v) = {}
    BY <1>1, <1>2 DEF At
  <2> QED  BY <1>1, <1>2, <2>1, ByVarNone DEF s
<1>3. CASE b[1] = v
  <2>1. At(s, v) = {1}
    BY <1>1, <1>3 DEF At
  <2>2. {j \in {1} : j <= 1} = {1} /\ Cardinality({1}) = 1
    BY FS_Singleton
  <2>3. Rank({1}, 1) = 1
    BY <2>2 DEF Rank
  <2>4. b[2] \in Values
    BY DEF Pairs
  <2> DEFINE m == <<b[2]>>
  <2>5. m \in Seq(Values) /\ Len(m) = 1 /\ m[1] = b[2]
    BY <2>4
  <2> HIDE DEF m
  <2>6. ByVar(s)[v] = m
    BY <1>1, <2>1, <2>2, <2>3, <2>5, ByVarIs
  <2> QED  BY <1>1, <1>3, <2>4, <2>6 DEF s, m
<1> QED  BY <1>2, <1>3

-----------------------------------------------------------------------------
(* The frames of a stack by their var.                                     *)

\* The topmost frame of a var.
LEMMA TopAt ==
    ASSUME NEW s \in Seq(Pairs), NEW v
    PROVE  /\ At(s, v) = {} <=> TopOf(s, v) = 0
           /\ At(s, v) # {} => /\ TopOf(s, v) \in At(s, v)
                               /\ \A j \in At(s, v) : j <= TopOf(s, v)
<1> DEFINE T == At(s, v)
<1>1. T \in SUBSET (1..Len(s)) /\ Len(s) \in Nat
  BY FrameAt
<1>2. TopOf(s, v) = IF T = {} THEN 0 ELSE CHOOSE i \in T : \A j \in T : j <= i
  BY DEF TopOf
<1> HIDE DEF T
<1>3. CASE T = {}
  BY <1>2, <1>3 DEF T
<1>4. CASE T # {}
  <2>1. \E i \in T : \A j \in T : j <= i
    BY <1>1, <1>4, HasMax
  <2>2. TopOf(s, v) \in T /\ \A j \in T : j <= TopOf(s, v)
    BY <1>2, <1>4, <2>1
  <2>3. TopOf(s, v) # 0
    BY <1>1, <2>2
  <2> QED  BY <1>4, <2>2, <2>3 DEF T
<1> QED  BY <1>3, <1>4

\* A sequence around one of its elements.
Put(a, x, c) == a \o (<<x>> \o c)
SplitAt(S, s, i, x, a, c) ==
    /\ a \in Seq(S) /\ c \in Seq(S) /\ Len(c) = Len(s) - i
    /\ \A j \in 1..Len(s) - i : c[j] = s[i + j]
    /\ s = Put(a, s[i], c) /\ [s EXCEPT ![i] = x] = Put(a, x, c)

\* A sequence is what is before one of its places, what is there and what is
\* after; an update changes the middle part.
LEMMA Around ==
    ASSUME NEW S, NEW s \in Seq(S), NEW i \in 1..Len(s), NEW x \in S
    PROVE  SplitAt(S, s, i, x, SubSeq(s, 1, i - 1), SubSeq(s, i + 1, Len(s)))
<1> DEFINE a == SubSeq(s, 1, i - 1)  c == SubSeq(s, i + 1, Len(s))
<1>0. a = SubSeq(s, 1, i - 1) /\ c = SubSeq(s, i + 1, Len(s))
  OBVIOUS
<1> HIDE DEF a, c
<1>1. PICK n \in Nat : n = Len(s) /\ i \in 1..n /\ s[i] \in S /\ \A j \in 1..n : s[j] \in S
  OBVIOUS
<1>2. a \in Seq(S) /\ Len(a) = i - 1 /\ \A j \in 1..i - 1 : a[j] = s[j]
  <2> DEFINE m == i - 1
  <2>1. m \in Int /\ 1 \in Int /\ m = i - 1 /\ m >= 0 /\ \A j \in 1..m : j \in 1..n
    BY <1>1
  <2> HIDE DEF m
  <2>2. /\ SubSeq(s, 1, m) \in Seq(S) /\ Len(SubSeq(s, 1, m)) = IF 1 <= m THEN m - 1 + 1 ELSE 0
        /\ \A j \in 1..(m - 1 + 1) : SubSeq(s, 1, m)[j] = s[1 + j - 1]
    BY <1>1, <2>1, SubSeqProperties
  <2>3. a = SubSeq(s, 1, m)
    BY <1>0, <2>1
  <2>4. \A j \in 1..m : j \in 1..(m - 1 + 1) /\ 1 + j - 1 = j
    BY <2>1
  <2>5. \A j \in 1..m : a[j] = s[j]
    BY <2>2, <2>3, <2>4
  <2> QED  BY <2>1, <2>2, <2>3, <2>5
<1>3. c \in Seq(S) /\ Len(c) = n - i /\ \A j \in 1..n - i : c[j] = s[i + j]
  <2> DEFINE m == i + 1
  <2>1. m \in Int /\ n \in Int /\ m = i + 1 /\ m >= 2 /\ \A j \in m..n : j \in 1..n
    BY <1>1
  <2> HIDE DEF m
  <2>2. /\ SubSeq(s, m, n) \in Seq(S) /\ Len(SubSeq(s, m, n)) = IF m <= n THEN n - m + 1 ELSE 0
        /\ \A j \in 1..(n - m + 1) : SubSeq(s, m, n)[j] = s[m + j - 1]
    BY <1>1, <2>1, SubSeqProperties
  <2>3. c = SubSeq(s, m, n)
    BY <1>0, <1>1, <2>1
  <2>4. \A j \in 1..n - i : j \in 1..(n - m + 1) /\ m + j - 1 = i + j
    BY <1>1, <2>1
  <2>5. \A j \in 1..n - i : c[j] = s[i + j]
    BY <2>2, <2>3, <2>4
  <2> QED  BY <1>1, <2>1, <2>2, <2>3, <2>5
<1>7. PICK l \in Nat : l = n - i /\ l = Len(c) /\ n = i + l
  <2>1. n - i \in Nat /\ n = i + (n - i) /\ Len(c) = n - i
    BY <1>1, <1>3
  <2> QED  BY <2>1
<1>4. ASSUME NEW y \in S, NEW w \in Seq(S), Len(w) = n, w[i] = y,
             \A j \in 1..n : j # i => w[j] = s[j]
      PROVE  w = Put(a, y, c)
  <2> DEFINE o == <<y>>  b == o \o c  z == a \o b
  <2>1. o \in Seq(S) /\ Len(o) = 1 /\ o[1] = y
    OBVIOUS
  <2> HIDE DEF o
  <2>2. /\ b \in Seq(S) /\ Len(b) = 1 + l
        /\ \A j \in 1..1 + l : b[j] = IF j <= 1 THEN o[j] ELSE c[j - 1]
    <3>1. /\ b \in Seq(S) /\ Len(b) = Len(o) + Len(c)
          /\ \A j \in 1..Len(o) + Len(c) : b[j] = IF j <= Len(o) THEN o[j] ELSE c[j - Len(o)]
      BY <1>3, <2>1, ConcatProperties
    <3> HIDE DEF b
    <3> QED  BY <1>7, <2>1, <3>1
  <2> HIDE DEF b
  <2>3. /\ z \in Seq(S) /\ Len(z) = Len(a) + Len(b)
        /\ \A j \in 1..Len(a) + Len(b) : z[j] = IF j <= Len(a) THEN a[j] ELSE b[j - Len(a)]
    BY <1>2, <2>2, ConcatProperties
  <2> HIDE DEF z
  <2>4. Len(a) + Len(b) = n /\ Len(z) = n
    <3>1. Len(a) = i - 1 /\ Len(b) = 1 + l /\ Len(z) = Len(a) + Len(b) /\ i \in Nat
      BY <1>1, <1>2, <2>2, <2>3
    <3>2. (i - 1) + (1 + l) = n
      BY <1>7, <3>1
    <3> QED  BY <3>1, <3>2
  <2>5. ASSUME NEW j \in 1..n PROVE z[j] = w[j]
    <3>1. z[j] = IF j <= i - 1 THEN a[j] ELSE b[j - (i - 1)]
      BY <1>2, <2>3, <2>4
    <3>2. CASE j <= i - 1
      <4>1. j \in 1..i - 1 /\ j # i
        BY <1>1, <3>2
      <4> QED  BY <1>2, <1>4, <3>1, <3>2, <4>1
    <3>3. CASE j = i
      <4>1. ~(j <= i - 1) /\ j - (i - 1) = 1 /\ 1 \in 1..1 + l
        BY <1>1, <1>7, <3>3
      <4> QED  BY <1>4, <2>1, <2>2, <3>1, <3>3, <4>1
    <3>4. CASE j > i
      <4>1. /\ ~(j <= i - 1) /\ j - (i - 1) \in 1..1 + l /\ ~(j - (i - 1) <= 1)
            /\ (j - (i - 1)) - 1 = j - i /\ j - i \in 1..n - i /\ i + (j - i) = j /\ j # i
        BY <1>1, <1>7, <3>4
      <4>2. z[j] = b[j - (i - 1)] /\ b[j - (i - 1)] = c[j - i]
        BY <1>3, <2>2, <3>1, <4>1
      <4>3. c[j - i] = s[j]
        BY <1>3, <4>1
      <4> QED  BY <1>4, <4>1, <4>2, <4>3
    <3> QED  BY <1>1, <3>2, <3>3, <3>4
  <2>6. w = z
    BY <1>4, <2>3, <2>4, <2>5, SeqEqual
  <2> QED  BY <2>6 DEF z, b, o, Put
<1>5. s = Put(a, s[i], c)
  BY <1>1, <1>4
<1>6. [s EXCEPT ![i] = x] = Put(a, x, c)
  <2> DEFINE w == [s EXCEPT ![i] = x]
  <2>1. w \in Seq(S) /\ Len(w) = n /\ w[i] = x /\ \A j \in 1..n : j # i => w[j] = s[j]
    BY <1>1, ExceptSeq
  <2> HIDE DEF w
  <2>2. w = Put(a, x, c)
    BY <1>4, <2>1
  <2> QED  BY <2>2 DEF w
<1> QED  BY <1>1, <1>2, <1>3, <1>5, <1>6 DEF SplitAt, a, c

\* A chain around the topmost frame of a var.
LEMMA TopSplit ==
    ASSUME NEW s \in Seq(Pairs), NEW v \in Vars, At(s, v) # {}, NEW x \in Values
    PROVE  \E a, c \in Seq(Pairs) : \E y \in Values :
              /\ s = Put(a, <<v, y>>, c) /\ At(c, v) = {}
              /\ TopOf(s, v) # 0 /\ s[TopOf(s, v)][2] = y
              /\ RemoveTop(s, v) = a \o c
              /\ ReplaceTop(s, v, x) = Put(a, <<v, x>>, c)
<1> DEFINE i == TopOf(s, v)  n == Len(s)  y == s[i][2]
           a == SubSeq(s, 1, i - 1)  c == SubSeq(s, i + 1, n)
<1>1. i \in At(s, v) /\ (\A j \in At(s, v) : j <= i) /\ i # 0
  BY TopAt
<1>2. i \in 1..n /\ n \in Nat /\ s[i][1] = v /\ s[i] = <<v, y>> /\ y \in Values
  BY <1>1, FrameAt
<1>3. <<v, x>> \in Pairs
  BY DEF Pairs
<1>4. RemoveTop(s, v) = a \o c
  BY <1>1 DEF RemoveTop
<1>5. ReplaceTop(s, v, x) = [s EXCEPT ![i] = <<v, x>>]
  BY DEF ReplaceTop
<1>6. a = SubSeq(s, 1, i - 1) /\ c = SubSeq(s, i + 1, Len(s))
  OBVIOUS
<1>7. /\ a \in Seq(Pairs) /\ c \in Seq(Pairs) /\ Len(c) = n - i
      /\ \A j \in 1..n - i : c[j] = s[i + j]
      /\ s = Put(a, s[i], c)
      /\ [s EXCEPT ![i] = <<v, x>>] = Put(a, <<v, x>>, c)
  <2> HIDE DEF a, c, i
  <2> DEFINE b == <<v, x>>
  <2>1. i \in 1..Len(s) /\ b \in Pairs
    BY <1>2, <1>3
  <2> HIDE DEF b
  <2>2. SplitAt(Pairs, s, i, b, SubSeq(s, 1, i - 1), SubSeq(s, i + 1, Len(s)))
    BY <2>1, Around
  <2>3. SplitAt(Pairs, s, i, b, a, c)
    BY <1>6, <2>2
  <2> QED  BY <2>3 DEF SplitAt, b
<1>9. At(c, v) \in SUBSET (1..Len(c)) /\ \A j : j \in At(c, v) => c[j][1] = v
  <2>1. c \in Seq(Pairs)
    BY <1>7
  <2> QED  BY <2>1, FrameAt
<1>8. At(c, v) = {}
  <2>1. ASSUME NEW j \in At(c, v) PROVE FALSE
    <3>1. j \in 1..n - i /\ c[j][1] = v
      BY <1>7, <1>9
    <3>2. i + j \in 1..n /\ ~(i + j <= i)
      BY <1>2, <3>1
    <3>3. s[i + j][1] = v
      BY <1>7, <3>1
    <3>4. i + j \in At(s, v)
      BY <3>2, <3>3, FrameAt
    <3> QED  BY <1>1, <3>2, <3>4
  <2> QED  BY <2>1
<1> HIDE DEF a, c, i
<1>10. s = Put(a, <<v, y>>, c) /\ ReplaceTop(s, v, x) = Put(a, <<v, x>>, c)
  BY <1>2, <1>5, <1>7
<1>11. TopOf(s, v) # 0 /\ s[TopOf(s, v)][2] = y /\ y \in Values
  BY <1>1, <1>2 DEF i
<1> HIDE DEF y
<1> QED  BY <1>4, <1>7, <1>8, <1>10, <1>11

\* The end of a sequence.
EndsIn(q, r, y, x) ==
    /\ q # <<>> /\ Front(q) = r /\ Last(q) = y
    /\ [q EXCEPT ![Len(q)] = x] = Append(r, x)

\* The last element of a sequence, and how it got there.
LEMMA EndOf ==
    ASSUME NEW S, NEW r \in Seq(S), NEW y \in S, NEW x \in S
    PROVE  EndsIn(Append(r, y), r, y, x)
<1> DEFINE q == Append(r, y)
<1>1. PICK n \in Nat : n = Len(r)
  OBVIOUS
<1>2. /\ q \in Seq(S) /\ q # <<>> /\ Len(q) = n + 1 /\ q[n + 1] = y
      /\ \A i \in 1..n : q[i] = r[i]
  BY <1>1, Grown
<1> HIDE DEF q
<1>3. Front(q) = r /\ Last(q) = y
  <2>1. /\ Front(q) \in Seq(S) /\ Len(Front(q)) = Len(q) - 1 /\ Last(q) = q[Len(q)]
        /\ \A i \in 1..Len(q) - 1 : Front(q)[i] = q[i]
    BY <1>2, Shortened
  <2>2. Len(Front(q)) = n /\ Last(q) = y /\ \A i \in 1..n : Front(q)[i] = r[i]
    BY <1>2, <2>1
  <2>3. Front(q) = r
    BY <1>1, <2>1, <2>2, SeqEqual
  <2> QED  BY <2>2, <2>3
<1>4. [q EXCEPT ![Len(q)] = x] = Append(r, x)
  <2> DEFINE a == Append(r, x)  b == [q EXCEPT ![n + 1] = x]
  <2>1. a \in Seq(S) /\ Len(a) = n + 1 /\ a[n + 1] = x /\ \A i \in 1..n : a[i] = r[i]
    BY <1>1, Grown
  <2>2. b \in Seq(S) /\ Len(b) = n + 1 /\ \A j \in 1..n + 1 : b[j] = IF j = n + 1 THEN x ELSE q[j]
    <3> DEFINE k == n + 1
    <3>1. k \in 1..Len(q) /\ q \in Seq(S) /\ k = n + 1
      BY <1>1, <1>2
    <3> HIDE DEF k
    <3>2. /\ [q EXCEPT ![k] = x] \in Seq(S) /\ Len([q EXCEPT ![k] = x]) = Len(q)
          /\ \A j \in 1..Len(q) : [q EXCEPT ![k] = x][j] = IF j = k THEN x ELSE q[j]
      BY <3>1, ExceptSeq
    <3>3. b = [q EXCEPT ![k] = x]
      BY <3>1
    <3> HIDE DEF b
    <3> QED  BY <1>2, <3>1, <3>2, <3>3
  <2> HIDE DEF a, b
  <2>3. ASSUME NEW j \in 1..n + 1 PROVE a[j] = b[j]
    <3>1. j = n + 1 \/ (j \in 1..n /\ j # n + 1)
      OBVIOUS
    <3> QED  BY <1>2, <2>1, <2>2, <3>1
  <2>4. a = b
    BY <2>1, <2>2, <2>3, SeqEqual
  <2> QED  BY <1>2, <2>4 DEF a, b
<1> QED  BY <1>2, <1>3, <1>4 DEF EndsIn, q

\* What a chain says of the vars, with and without one of its frames.
Extends(s, t, r, v, y) ==
    /\ s \in Seq(Pairs) /\ t \in Seq(Pairs) /\ r \in Seq(Values)
    /\ ByVar(t)[v] = r /\ ByVar(s)[v] = Append(r, y)
    /\ \A w \in Vars : w # v => ByVar(s)[w] = ByVar(t)[w]

\* Frames of v between others of other vars.
LEMMA ByVarPut ==
    ASSUME NEW a \in Seq(Pairs), NEW c \in Seq(Pairs), NEW v \in Vars, NEW y \in Values,
           At(c, v) = {}
    PROVE  Extends(Put(a, <<v, y>>, c), a \o c, ByVar(a)[v], v, y)
<1> SUFFICES ASSUME NEW w \in Vars
             PROVE  /\ Put(a, <<v, y>>, c) \in Seq(Pairs) /\ a \o c \in Seq(Pairs)
                    /\ ByVar(a \o c)[v] = ByVar(a)[v] /\ ByVar(a)[v] \in Seq(Values)
                    /\ ByVar(Put(a, <<v, y>>, c))[v] = Append(ByVar(a)[v], y)
                    /\ w # v => ByVar(Put(a, <<v, y>>, c))[w] = ByVar(a \o c)[w]
  BY DEF Extends
<1> DEFINE b == <<v, y>>  o == <<b>>  d == o \o c  s == a \o d  t == a \o c
<1>1. b \in Pairs /\ b[1] = v /\ b[2] = y
  BY DEF Pairs
<1> HIDE DEF b
<1>2. /\ o \in Seq(Pairs) /\ ByVar(o)[v] = <<y>>
      /\ w # v => ByVar(o)[w] = <<>>
  BY <1>1, ByVarOne
<1> HIDE DEF o
<1>3. d \in Seq(Pairs) /\ ByVar(d)[v] = ByVar(o)[v] \o ByVar(c)[v]
      /\ ByVar(d)[w] = ByVar(o)[w] \o ByVar(c)[w]
  BY <1>2, ByVarJoin
<1> HIDE DEF d
<1>4. s \in Seq(Pairs) /\ ByVar(s)[v] = ByVar(a)[v] \o ByVar(d)[v]
      /\ ByVar(s)[w] = ByVar(a)[w] \o ByVar(d)[w]
  BY <1>3, ByVarJoin
<1>5. t \in Seq(Pairs) /\ ByVar(t)[v] = ByVar(a)[v] \o ByVar(c)[v]
      /\ ByVar(t)[w] = ByVar(a)[w] \o ByVar(c)[w]
  BY ByVarJoin
<1>6. /\ ByVar(a)[v] \in Seq(Values) /\ ByVar(c)[w] \in Seq(Values)
      /\ ByVar(c)[v] = <<>>
  BY ByVarOf, ByVarNone
<1> HIDE DEF s, t
<1>7. ByVar(t)[v] = ByVar(a)[v]
  BY <1>5, <1>6, ConcatEmptySeq
<1>8. ByVar(s)[v] = Append(ByVar(a)[v], y)
  <2>1. <<y>> \in Seq(Values)
    OBVIOUS
  <2>2. <<y>> \o <<>> = <<y>>
    BY <2>1, ConcatEmptySeq
  <2>3. ByVar(a)[v] \o <<y>> = Append(ByVar(a)[v], y)
    BY <1>6, AppendIsConcat
  <2> QED  BY <1>2, <1>3, <1>4, <1>6, <2>2, <2>3
<1>9. w # v => ByVar(s)[w] = ByVar(t)[w]
  <2>1. <<>> \o ByVar(c)[w] = ByVar(c)[w]
    BY <1>6, ConcatEmptySeq
  <2> QED  BY <1>2, <1>3, <1>4, <1>5, <2>1
<1>10. s = Put(a, <<v, y>>, c) /\ t = a \o c
  BY DEF s, t, d, o, b, Put
<1> QED  BY <1>4, <1>5, <1>6, <1>7, <1>8, <1>9, <1>10

\* What a push, a pop and a set! of v make of what a thread sees.
Pushed(m, v, x) == [m EXCEPT ![v] = Append(@, x)]
Dropped(m, v) == [m EXCEPT ![v] = Front(@)]
Set(m, v, x) == [m EXCEPT ![v] = [@ EXCEPT ![Len(m[v])] = x]]

\* What a stack shows of the vars.
LEMMA ByVarType ==
    ASSUME NEW s \in Seq(Pairs)
    PROVE  ByVar(s) \in [Vars -> Seq(Values)]
<1>1. \A v \in Vars : ByVar(s)[v] \in Seq(Values)
  BY ByVarOf
<1>2. ByVar(s) = [v \in Vars |-> ByVar(s)[v]]
  BY DEF ByVar
<1> HIDE DEF ByVar
<1> QED  BY <1>1, <1>2

\* Two views of the bindings that agree on every var.
LEMMA SameView ==
    ASSUME NEW m \in [Vars -> Seq(Values)], NEW n \in [Vars -> Seq(Values)],
           \A w \in Vars : m[w] = n[w]
    PROVE  m = n
OBVIOUS

\* A push of a frame is a push of the values of its var.
LEMMA PushView ==
    ASSUME NEW s \in Seq(Pairs), NEW v \in Vars, NEW x \in Values
    PROVE  /\ Append(s, <<v, x>>) \in Seq(Pairs)
           /\ ByVar(Append(s, <<v, x>>)) = Pushed(ByVar(s), v, x)
<1> DEFINE b == <<v, x>>  t == Append(s, b)  m == ByVar(s)
<1>1. b \in Pairs /\ <<>> \in Seq(Pairs) /\ At(<<>>, v) = {}
  BY DEF Pairs, At
<1>2. t = Put(s, b, <<>>) /\ s \o <<>> = s
  <2> HIDE DEF b
  <2>1. <<b>> \in Seq(Pairs) /\ <<b>> \o <<>> = <<b>>
    BY <1>1, ConcatEmptySeq
  <2>2. s \o <<b>> = Append(s, b) /\ s \o <<>> = s
    BY <1>1, AppendIsConcat, ConcatEmptySeq
  <2> QED  BY <2>1, <2>2 DEF Put
<1>3. \A w \in Vars : /\ t \in Seq(Pairs)
                      /\ ByVar(t)[v] = Append(m[v], x)
                      /\ w # v => ByVar(t)[w] = m[w]
  <2> HIDE DEF t, m
  <2>1. Extends(Put(s, <<v, x>>, <<>>), s \o <<>>, ByVar(s)[v], v, x)
    BY <1>1, ByVarPut
  <2>2. Extends(t, s, m[v], v, x)
    BY <1>2, <2>1 DEF m
  <2> QED  BY <2>2 DEF Extends, m
<1>4. t \in Seq(Pairs) /\ ByVar(t) \in [Vars -> Seq(Values)] /\ m \in [Vars -> Seq(Values)]
      /\ ByVar(t)[v] \in Seq(Values)
  BY <1>3, ByVarType
<1> HIDE DEF t, m, b
<1>5. Pushed(m, v, x) \in [Vars -> Seq(Values)]
      /\ \A w \in Vars : Pushed(m, v, x)[w] = IF w = v THEN Append(m[v], x) ELSE m[w]
  BY <1>3, <1>4 DEF Pushed
<1>6. ByVar(t) = Pushed(m, v, x)
  BY <1>3, <1>4, <1>5, SameView
<1> QED  BY <1>4, <1>6 DEF t, m, b

\* removeTopBinding and replaceTopBinding pop and set the values of the var alone.
LEMMA TopView ==
    ASSUME NEW s \in Seq(Pairs), NEW v \in Vars, NEW x \in Values
    PROVE  /\ TopOf(s, v) = 0 <=> ByVar(s)[v] = <<>>
           /\ TopOf(s, v) = 0 => RemoveTop(s, v) = s
           /\ TopOf(s, v) # 0 =>
                /\ ByVar(s)[v] # <<>> /\ s[TopOf(s, v)][2] = Last(ByVar(s)[v])
                /\ RemoveTop(s, v) \in Seq(Pairs)
                /\ ByVar(RemoveTop(s, v)) = Dropped(ByVar(s), v)
                /\ ReplaceTop(s, v, x) \in Seq(Pairs)
                /\ ByVar(ReplaceTop(s, v, x)) = Set(ByVar(s), v, x)
<1>1. CASE At(s, v) = {}
  <2>1. TopOf(s, v) = 0
    BY <1>1, TopAt
  <2>2. ByVar(s)[v] = <<>>
    BY <1>1, ByVarNone
  <2> QED  BY <2>1, <2>2 DEF RemoveTop
<1>2. CASE At(s, v) # {}
  <2>1. PICK a, c \in Seq(Pairs) : \E y \in Values :
              /\ s = Put(a, <<v, y>>, c) /\ At(c, v) = {}
              /\ TopOf(s, v) # 0 /\ s[TopOf(s, v)][2] = y
              /\ RemoveTop(s, v) = a \o c
              /\ ReplaceTop(s, v, x) = Put(a, <<v, x>>, c)
    BY <1>2, TopSplit
  <2>2. PICK y \in Values :
              /\ s = Put(a, <<v, y>>, c) /\ At(c, v) = {}
              /\ TopOf(s, v) # 0 /\ s[TopOf(s, v)][2] = y
              /\ RemoveTop(s, v) = a \o c
              /\ ReplaceTop(s, v, x) = Put(a, <<v, x>>, c)
    BY <2>1
  <2> DEFINE m == ByVar(s)  r == ByVar(a)[v]
             t == RemoveTop(s, v)  u == ReplaceTop(s, v, x)
  <2>3. /\ t \in Seq(Pairs) /\ ByVar(t)[v] = r /\ r \in Seq(Values) /\ m[v] = Append(r, y)
        /\ \A w \in Vars : w # v => m[w] = ByVar(t)[w]
    <3>1. Extends(Put(a, <<v, y>>, c), a \o c, ByVar(a)[v], v, y)
      BY <2>2, ByVarPut
    <3>2. Extends(s, t, r, v, y)
      BY <2>2, <3>1
    <3> HIDE DEF r, t
    <3> QED  BY <3>2 DEF Extends
  <2>4. /\ u \in Seq(Pairs) /\ ByVar(u)[v] = Append(r, x)
        /\ \A w \in Vars : w # v => ByVar(u)[w] = ByVar(t)[w]
    <3>1. Extends(Put(a, <<v, x>>, c), a \o c, ByVar(a)[v], v, x)
      BY <2>2, ByVarPut
    <3>2. Extends(u, t, r, v, x)
      BY <2>2, <3>1
    <3> HIDE DEF r, t, u
    <3> QED  BY <3>2 DEF Extends
  <2>5. /\ m \in [Vars -> Seq(Values)] /\ ByVar(t) \in [Vars -> Seq(Values)]
        /\ ByVar(u) \in [Vars -> Seq(Values)]
    BY <2>3, <2>4, ByVarType
  <2> HIDE DEF m, r, t, u
  <2>6. /\ m[v] # <<>> /\ Front(m[v]) = r /\ Last(m[v]) = y
        /\ [m[v] EXCEPT ![Len(m[v])] = x] = Append(r, x)
    <3>1. EndsIn(m[v], r, y, x)
      BY <2>3, EndOf
    <3> QED  BY <3>1 DEF EndsIn
  <2>7. ByVar(t) = Dropped(m, v)
    <3> DEFINE n == Dropped(m, v)
    <3>1. n \in [Vars -> Seq(Values)] /\ n[v] = r /\ \A w \in Vars : w # v => n[w] = m[w]
      <4>1. n = [m EXCEPT ![v] = r]
        BY <2>6 DEF Dropped
      <4> HIDE DEF n
      <4> QED  BY <2>3, <2>5, <4>1
    <3> HIDE DEF n
    <3>2. \A w \in Vars : ByVar(t)[w] = n[w]
      BY <2>3, <3>1
    <3>3. ByVar(t) = n
      BY <2>5, <3>1, <3>2, SameView
    <3> QED  BY <3>3 DEF n
  <2>8. ByVar(u) = Set(m, v, x)
    <3> DEFINE n == Set(m, v, x)  e == Append(r, x)
    <3>1. n \in [Vars -> Seq(Values)] /\ n[v] = e /\ \A w \in Vars : w # v => n[w] = m[w]
      <4>1. n = [m EXCEPT ![v] = e]
        BY <2>6 DEF Set
      <4>2. e \in Seq(Values)
        BY <2>3, Grown
      <4> HIDE DEF n, e
      <4> QED  BY <2>3, <2>5, <4>1, <4>2
    <3> HIDE DEF n, e
    <3>2. \A w \in Vars : ByVar(u)[w] = n[w]
      BY <2>3, <2>4, <3>1 DEF e
    <3>3. ByVar(u) = n
      BY <2>5, <3>1, <3>2, SameView
    <3> QED  BY <3>3 DEF n
  <2> QED  BY <2>2, <2>3, <2>4, <2>6, <2>7, <2>8 DEF m, t, u
<1> QED  BY <1>1, <1>2

-----------------------------------------------------------------------------
(* Installing a snapshot.                                                  *)

\* The ranks in the range of a growing sequence of numbers.
LEMMA Growing ==
    ASSUME NEW l \in Nat, NEW f \in [1..l -> Nat], NEW T,
           \A i, j \in 1..l : i < j => f[i] < f[j],
           \A x : x \in T <=> \E j \in 1..l : x = f[j]
    PROVE  Cardinality(T) = l /\ \A i \in 1..l : Rank(T, f[i]) = i
<1>1. ASSUME NEW k \in 1..l PROVE Rank(T, f[k]) = k
  <2> DEFINE U == {x \in T : x <= f[k]}  D == 1..k  g == [j \in D |-> f[j]]
  <2>1. ASSUME NEW j \in 1..l PROVE f[j] <= f[k] <=> j \in D
    <3>1. j \in Int /\ k \in Int /\ f[j] \in Nat /\ f[k] \in Nat /\ j >= 1
      OBVIOUS
    <3>2. j < k => f[j] < f[k]
      OBVIOUS
    <3>3. k < j => f[k] < f[j]
      OBVIOUS
    <3>4. j = k => f[j] = f[k]
      OBVIOUS
    <3> HIDE DEF D
    <3>5. j <= k => f[j] <= f[k]
      BY <3>1, <3>2, <3>4
    <3>6. ~(j <= k) => ~(f[j] <= f[k])
      BY <3>1, <3>3
    <3>7. j \in D <=> j <= k
      BY <3>1 DEF D
    <3> QED  BY <3>5, <3>6, <3>7
  <2>2. D \subseteq 1..l
    OBVIOUS
  <2>3. g \in [D -> U]
    <3>1. ASSUME NEW j \in D PROVE f[j] \in U
      BY <2>1, <2>2
    <3> HIDE DEF U, D
    <3> QED  BY <3>1
  <2>4. ASSUME NEW u \in U PROVE \E j \in D : g[j] = u
    <3>1. PICK j \in 1..l : u = f[j]
      OBVIOUS
    <3>2. j \in D
      BY <2>1, <3>1
    <3> QED  BY <3>1, <3>2
  <2>5. ASSUME NEW i \in D, NEW j \in D, g[i] = g[j] PROVE i = j
    <3>1. i \in 1..l /\ j \in 1..l /\ i \in Int /\ j \in Int /\ f[i] = f[j] /\ f[i] \in Nat
      BY <2>2, <2>5
    <3>2. ~(i < j) /\ ~(j < i)
      BY <3>1
    <3> QED  BY <3>1, <3>2
  <2>6. IsFiniteSet(D) /\ Cardinality(D) = k
    <3>1. 1 \in Int /\ k \in Int /\ k >= 1
      OBVIOUS
    <3>2. IsFiniteSet(D) /\ Cardinality(D) = IF 1 > k THEN 0 ELSE k - 1 + 1
      BY <3>1, FS_Interval
    <3> QED  BY <3>1, <3>2
  <2>7. g \in Bijection(D, U)
    <3> HIDE DEF g, D, U
    <3> QED  BY <2>3, <2>4, <2>5 DEF Bijection, Injection, Surjection, IsInjective
  <2>8. ExistsBijection(D, U)
    BY <2>7 DEF ExistsBijection
  <2>9. Rank(T, f[k]) = Cardinality(U)
    BY DEF Rank
  <2> HIDE DEF D, U
  <2> QED  BY <2>6, <2>8, <2>9, FS_Bijection
<1>2. CASE l = 0
  <2>1. T = {}
    BY <1>2
  <2> QED  BY <1>1, <1>2, <2>1, FS_EmptySet
<1>3. CASE l # 0
  <2>1. l \in 1..l
    BY <1>3
  <2>2. ASSUME NEW j \in 1..l PROVE f[j] <= f[l]
    <3>1. j < l \/ j = l
      OBVIOUS
    <3> QED  BY <2>1, <3>1
  <2>3. {x \in T : x <= f[l]} = T
    BY <2>2
  <2>4. Rank(T, f[l]) = Cardinality(T)
    BY <2>3 DEF Rank
  <2> QED  BY <1>1, <2>1, <2>4
<1> QED  BY <1>2, <1>3

\* The slots of a snapshot are finitely many ...
LEMMA SlotElem ==
    ASSUME NEW m \in [Vars -> Seq(Values)]
    PROVE  /\ IsFiniteSet(Slots(m))
           /\ \A a : a \in Slots(m) <=>
                 \E v \in Vars : \E i \in 1..Len(m[v]) : a = <<v, i>>
<1> DEFINE R == [v \in Vars |-> {v} \X (1..Len(m[v]))]
           C == {R[v] : v \in Vars}
<1>1. Slots(m) = UNION C
  BY DEF Slots
<1>2. \A v \in Vars : IsFiniteSet(R[v])
  <2>1. ASSUME NEW v \in Vars PROVE IsFiniteSet(R[v])
    <3>1. PICK l \in Nat : l = Len(m[v])
      OBVIOUS
    <3>2. IsFiniteSet(1..l) /\ IsFiniteSet({v})
      <4>1. 1 \in Int /\ l \in Int
        OBVIOUS
      <4>2. IsFiniteSet(1..l)
        BY <4>1, FS_Interval
      <4> QED  BY <4>2, FS_Singleton
    <3>3. IsFiniteSet({v} \X (1..l))
      BY <3>2, FS_Product
    <3> QED  BY <3>1, <3>3
  <2> QED  BY <2>1
<1>3. IsFiniteSet(C)
  <2>1. IsFiniteSet(Vars)
    BY BindingsConstants
  <2>2. C = {R[v] : v \in Vars}
    OBVIOUS
  <2> HIDE DEF R, C
  <2> DEFINE f == [v \in Vars |-> R[v]]
  <2>3. f \in Surjection(Vars, C)
    BY <2>2 DEF Surjection
  <2> HIDE DEF f
  <2> QED  BY <2>1, <2>3, FS_Surjection
<1>4. IsFiniteSet(UNION C)
  <2>1. \A c \in C : IsFiniteSet(c)
    <3> HIDE DEF R
    <3> QED  BY <1>2
  <2> HIDE DEF C
  <2> QED  BY <1>3, <2>1, FS_UNION
<1>5. ASSUME NEW a
      PROVE  a \in Slots(m) <=> \E v \in Vars : \E i \in 1..Len(m[v]) : a = <<v, i>>
  BY DEF Slots
<1> QED  BY <1>1, <1>4, <1>5

\* ... and in the order of a snapshot every slot has a place.
Place(m, o, a) == Cardinality(Upto(m, o, a))

\* The places of the frames of a var in an installed snapshot, in their order.
LEMMA Places ==
    ASSUME NEW m \in [Vars -> Seq(Values)], NEW o \in Orders(m)
    PROVE  /\ Cardinality(Slots(m)) \in Nat
           /\ \A a \in Slots(m) : Place(m, o, a) \in 1..Cardinality(Slots(m))
           /\ \A n \in 1..Cardinality(Slots(m)) : \E a \in Slots(m) : Place(m, o, a) = n
           /\ \A a, b \in Slots(m) : Place(m, o, a) = Place(m, o, b) => a = b
           /\ \A v \in Vars : \A i, j \in 1..Len(m[v]) :
                 i < j => Place(m, o, <<v, i>>) < Place(m, o, <<v, j>>)
<1> DEFINE T == Slots(m)
           B == [a \in T |-> Upto(m, o, a)]
           bound == {v \in Vars : m[v] # <<>>}
<1>1. IsFiniteSet(T) /\ Cardinality(T) \in Nat
  BY SlotElem, FS_CardinalityType
<1>2. ASSUME NEW a \in T
      PROVE  /\ a = <<a[1], a[2]>> /\ a[1] \in Vars /\ a[2] \in 1..Len(m[a[1]]) /\ a[2] \in Int
             /\ o[a[1]] \in Int
  <2>5. PICK v \in Vars : \E i \in 1..Len(m[v]) : a = <<v, i>>
    BY SlotElem
  <2>1. PICK i \in 1..Len(m[v]) : a = <<v, i>>
    BY <2>5
  <2>2. m[v] # <<>> /\ i \in Int
    <3>1. m[v] \in Seq(Values) /\ Len(m[v]) \in Nat /\ (m[v] = <<>> => Len(m[v]) = 0)
      OBVIOUS
    <3> QED  BY <3>1
  <2>3. o \in [bound -> 1..Cardinality(bound)]
    BY DEF Orders
  <2>4. o[v] \in Int
    <3>1. IsFiniteSet(bound)
      BY BindingsConstants, FS_Subset
    <3>2. Cardinality(bound) \in Nat /\ v \in bound
      BY <2>2, <3>1, FS_CardinalityType
    <3> HIDE DEF bound
    <3> QED  BY <2>3, <3>2
  <2> QED  BY <2>1, <2>2, <2>4
<1>3. ASSUME NEW a \in T, NEW b \in T, o[a[1]] = o[b[1]] PROVE a[1] = b[1]
  <2>1. a[1] \in bound /\ b[1] \in bound
    <3>1. ASSUME NEW c \in T PROVE m[c[1]] # <<>>
      <4>1. m[c[1]] \in Seq(Values) /\ Len(m[c[1]]) \in Nat /\ (m[c[1]] = <<>> => Len(m[c[1]]) = 0)
        BY <1>2
      <4> QED  BY <1>2, <4>1
    <3> QED  BY <1>2, <3>1
  <2> QED  BY <1>3, <2>1 DEF Orders
<1>4. ASSUME NEW a \in T, NEW b \in T
      PROVE  b \in B[a] <=> o[b[1]] < o[a[1]] \/ (b[1] = a[1] /\ b[2] <= a[2])
  BY DEF Upto
<1>5. B \in [T -> SUBSET T]
  BY DEF Upto
<1> HIDE DEF B, T, bound
<1>6. ASSUME NEW a \in T PROVE a \in B[a]
  BY <1>2, <1>4
<1>7. ASSUME NEW a \in T, NEW b \in T, o[a[1]] < o[b[1]] \/ (a[1] = b[1] /\ a[2] < b[2])
      PROVE  B[a] \subseteq B[b] /\ b \notin B[a]
  <2>0. /\ o[a[1]] \in Int /\ o[b[1]] \in Int /\ a[2] \in Int /\ b[2] \in Int
        /\ a[1] = b[1] => o[a[1]] = o[b[1]]
    BY <1>2
  <2>1. b \notin B[a]
    BY <1>4, <1>7, <2>0
  <2>2. ASSUME NEW c \in B[a] PROVE c \in B[b]
    <3>1. c \in T
      BY <1>5
    <3>2. o[c[1]] \in Int /\ c[2] \in Int
      BY <1>2, <3>1
    <3>3. o[c[1]] < o[a[1]] \/ (c[1] = a[1] /\ c[2] <= a[2])
      BY <1>4, <2>2, <3>1
    <3>4. o[c[1]] < o[b[1]] \/ (c[1] = b[1] /\ c[2] <= b[2])
      BY <1>7, <2>0, <3>2, <3>3
    <3> QED  BY <1>4, <3>1, <3>4
  <2> QED  BY <2>1, <2>2
<1>8. ASSUME NEW a \in T, NEW b \in T
      PROVE  \/ a = b
             \/ B[a] \subseteq B[b] /\ b \notin B[a]
             \/ B[b] \subseteq B[a] /\ a \notin B[b]
  <2>1. /\ o[a[1]] \in Int /\ o[b[1]] \in Int /\ a[2] \in Int /\ b[2] \in Int
        /\ a = <<a[1], a[2]>> /\ b = <<b[1], b[2]>>
    BY <1>2
  <2>2. \/ o[a[1]] < o[b[1]] \/ o[b[1]] < o[a[1]]
        \/ a[1] = b[1] /\ a[2] < b[2]
        \/ a[1] = b[1] /\ b[2] < a[2]
        \/ a[1] = b[1] /\ a[2] = b[2]
    <3>1. o[a[1]] < o[b[1]] \/ o[b[1]] < o[a[1]] \/ o[a[1]] = o[b[1]]
      BY <2>1
    <3>2. a[2] < b[2] \/ b[2] < a[2] \/ a[2] = b[2]
      BY <2>1
    <3>3. o[a[1]] = o[b[1]] => a[1] = b[1]
      BY <1>3
    <3>4. CASE o[a[1]] = o[b[1]]
      <4>1. a[1] = b[1]
        BY <3>3, <3>4
      <4> QED  BY <3>2, <4>1
    <3> QED  BY <3>1, <3>4
  <2>3. CASE a[1] = b[1] /\ a[2] = b[2]
    BY <2>1, <2>3
  <2> QED  BY <1>7, <2>2, <2>3
<1>9. /\ \A x \in T : Cardinality(B[x]) \in 1..Cardinality(T)
      /\ \A x, y \in T : y \notin B[x] => Cardinality(B[x]) < Cardinality(B[y])
      /\ \A n \in 1..Cardinality(T) : \E x \in T : Cardinality(B[x]) = n
  BY <1>1, <1>5, <1>6, <1>8, Numbered
<1>10. ASSUME NEW a \in T PROVE Place(m, o, a) = Cardinality(B[a])
  BY DEF Place, B
<1>11. ASSUME NEW a \in T, NEW b \in T, a # b PROVE Cardinality(B[a]) # Cardinality(B[b])
  <2>1. b \notin B[a] \/ a \notin B[b]
    BY <1>8, <1>11
  <2>2. Cardinality(B[a]) \in Int /\ Cardinality(B[b]) \in Int
    BY <1>9
  <2> QED  BY <1>9, <2>1, <2>2
<1>12. ASSUME NEW v \in Vars, NEW i \in 1..Len(m[v]), NEW j \in 1..Len(m[v]), i < j
       PROVE  Place(m, o, <<v, i>>) < Place(m, o, <<v, j>>)
  <2> DEFINE a == <<v, i>>  b == <<v, j>>
  <2>1. a \in T /\ b \in T
    BY SlotElem DEF T
  <2>2. a[1] = b[1] /\ a[2] < b[2]
    BY <1>12
  <2> HIDE DEF a, b
  <2>3. b \notin B[a]
    BY <1>7, <2>1, <2>2
  <2>4. Cardinality(B[a]) < Cardinality(B[b])
    BY <1>9, <2>1, <2>3
  <2>5. Place(m, o, a) < Place(m, o, b)
    BY <1>10, <2>1, <2>4
  <2> QED  BY <2>5 DEF a, b
<1> QED  BY <1>1, <1>9, <1>10, <1>11, <1>12 DEF T

\* What an installed snapshot consists of ...
LEMMA JoinedAt ==
    ASSUME NEW m \in [Vars -> Seq(Values)], NEW o \in Orders(m)
    PROVE  /\ Joined(m, o) \in Seq(Pairs) /\ Len(Joined(m, o)) = Cardinality(Slots(m))
           /\ \A v \in Vars : \A i \in 1..Len(m[v]) :
                 Joined(m, o)[Place(m, o, <<v, i>>)] = <<v, m[v][i]>>
<1> DEFINE T == Slots(m)  N == Cardinality(T)  s == Joined(m, o)
           pick(n) == CHOOSE a \in T : Place(m, o, a) = n
           e(a) == FramesOf(m, a[1])[a[2]]
<1>1. s = [n \in 1..N |-> e(pick(n))]
  BY DEF Joined, Place
<1>2. /\ N \in Nat /\ \A a \in T : Place(m, o, a) \in 1..N
      /\ \A n \in 1..N : \E a \in T : Place(m, o, a) = n
      /\ \A a, b \in T : Place(m, o, a) = Place(m, o, b) => a = b
  BY Places
<1>3. ASSUME NEW v \in Vars, NEW i \in 1..Len(m[v])
      PROVE  <<v, i>> \in T /\ e(<<v, i>>) = <<v, m[v][i]>> /\ <<v, m[v][i]>> \in Pairs
  <2>1. m[v][i] \in Values
    OBVIOUS
  <2> QED  BY <2>1, SlotElem DEF FramesOf, Pairs
<1> HIDE DEF T, N, e
<1>4. ASSUME NEW a \in T PROVE pick(Place(m, o, a)) = a
  <2>1. pick(Place(m, o, a)) \in T /\ Place(m, o, pick(Place(m, o, a))) = Place(m, o, a)
    OBVIOUS
  <2> HIDE DEF pick
  <2> QED  BY <1>2, <2>1
<1> HIDE DEF pick
<1>5. ASSUME NEW n \in 1..N PROVE e(pick(n)) \in Pairs
  <2>1. PICK a \in T : Place(m, o, a) = n
    BY <1>2
  <2>2. pick(n) = a
    BY <1>4, <2>1
  <2>3. PICK v \in Vars : \E i \in 1..Len(m[v]) : a = <<v, i>>
    BY SlotElem DEF T
  <2>4. PICK i \in 1..Len(m[v]) : a = <<v, i>>
    BY <2>3
  <2> QED  BY <1>3, <2>2, <2>4
<1>6. s \in Seq(Pairs) /\ Len(s) = N
  BY <1>1, <1>2, <1>5
<1>7. ASSUME NEW v \in Vars, NEW i \in 1..Len(m[v])
      PROVE  s[Place(m, o, <<v, i>>)] = <<v, m[v][i]>>
  <2> DEFINE a == <<v, i>>
  <2>1. a \in T /\ e(a) = <<v, m[v][i]>>
    BY <1>3
  <2> HIDE DEF a
  <2>2. pick(Place(m, o, a)) = a /\ Place(m, o, a) \in 1..N
    BY <1>2, <1>4, <2>1
  <2>3. s[Place(m, o, a)] = e(a)
    BY <1>1, <2>2
  <2> QED  BY <2>1, <2>3 DEF a
<1> QED  BY <1>6, <1>7 DEF N, T

\* ... and that it says of every var what the snapshot does.
LEMMA JoinedView ==
    ASSUME NEW m \in [Vars -> Seq(Values)], NEW s \in Chains(m)
    PROVE  s \in Seq(Pairs) /\ ByVar(s) = m
<1>1. PICK o \in Orders(m) : s = Joined(m, o)
  BY DEF Chains
<1>2. /\ s \in Seq(Pairs) /\ Len(s) = Cardinality(Slots(m))
      /\ \A v \in Vars : \A i \in 1..Len(m[v]) : s[Place(m, o, <<v, i>>)] = <<v, m[v][i]>>
  BY <1>1, JoinedAt
<1>3. /\ Cardinality(Slots(m)) \in Nat
      /\ \A a \in Slots(m) : Place(m, o, a) \in 1..Cardinality(Slots(m))
      /\ \A n \in 1..Cardinality(Slots(m)) : \E a \in Slots(m) : Place(m, o, a) = n
      /\ \A v \in Vars : \A i, j \in 1..Len(m[v]) :
            i < j => Place(m, o, <<v, i>>) < Place(m, o, <<v, j>>)
  BY Places
<1>4. ASSUME NEW v \in Vars PROVE ByVar(s)[v] = m[v]
  <2>1. PICK l \in Nat : l = Len(m[v]) /\ m[v] \in Seq(Values)
    OBVIOUS
  <2> DEFINE f == [i \in 1..l |-> Place(m, o, <<v, i>>)]  T == At(s, v)
  <2>2. f \in [1..l -> Nat] /\ \A i \in 1..l : f[i] \in 1..Len(s) /\ s[f[i]] = <<v, m[v][i]>>
    <3>1. ASSUME NEW i \in 1..l
          PROVE  /\ Place(m, o, <<v, i>>) \in 1..Len(s) /\ Place(m, o, <<v, i>>) \in Nat
                 /\ s[Place(m, o, <<v, i>>)] = <<v, m[v][i]>>
      <4>1. <<v, i>> \in Slots(m)
        BY <2>1, SlotElem
      <4>2. Place(m, o, <<v, i>>) \in 1..Len(s)
        BY <1>2, <1>3, <4>1
      <4>3. Len(s) \in Nat
        BY <1>2, <1>3
      <4>4. Place(m, o, <<v, i>>) \in Nat
        BY <4>2, <4>3
      <4> QED  BY <1>2, <2>1, <4>2, <4>4
    <3> QED  BY <3>1
  <2>3. ASSUME NEW i \in 1..l, NEW j \in 1..l, i < j PROVE f[i] < f[j]
    BY <1>3, <2>1, <2>3
  <2>4. ASSUME NEW x PROVE x \in T <=> \E j \in 1..l : x = f[j]
    <3>1. ASSUME NEW j \in 1..l PROVE f[j] \in T
      BY <1>2, <2>2, FrameAt
    <3>2. ASSUME x \in T PROVE \E j \in 1..l : x = f[j]
      <4>1. x \in 1..Len(s) /\ s[x][1] = v
        BY <1>2, <3>2, FrameAt
      <4>2. PICK a \in Slots(m) : Place(m, o, a) = x
        BY <1>2, <1>3, <4>1
      <4>3. PICK w \in Vars : \E i \in 1..Len(m[w]) : a = <<w, i>>
        BY SlotElem
      <4>4. PICK i \in 1..Len(m[w]) : a = <<w, i>>
        BY <4>3
      <4>5. s[x] = <<w, m[w][i]>>
        BY <1>2, <4>2, <4>4
      <4>6. w = v
        BY <4>1, <4>5
      <4> QED  BY <2>1, <4>2, <4>4, <4>6
    <3> QED  BY <3>1, <3>2
  <2> HIDE DEF f, T
  <2>5. Cardinality(T) = l /\ \A i \in 1..l : Rank(T, f[i]) = i
    BY <2>2, <2>3, <2>4, Growing
  <2>6. ASSUME NEW i \in T PROVE m[v][Rank(T, i)] = s[i][2]
    <3>1. PICK j \in 1..l : i = f[j]
      BY <2>4
    <3> QED  BY <2>2, <2>5, <3>1
  <2>7. Len(m[v]) = Cardinality(At(s, v)) /\ \A i \in At(s, v) : m[v][Rank(At(s, v), i)] = s[i][2]
    BY <2>1, <2>5, <2>6 DEF T
  <2> QED  BY <1>2, <2>1, <2>7, ByVarIs
<1>5. ByVar(s) \in [Vars -> Seq(Values)]
  BY <1>2, ByVarType
<1>6. ByVar(s) = m
  BY <1>4, <1>5, SameView
<1> QED  BY <1>2, <1>6

\* A bound function's frames over those of a snapshot.
Laid(m, n) == [v \in Vars |-> m[v] \o n[v]]

OnTop(s, t) == s \o t

\* A bound function lays what it captured over the bindings of its caller.
LEMMA OverView ==
    ASSUME NEW m \in [Vars -> Seq(Values)], NEW n \in [Vars -> Seq(Values)],
           NEW s \in Chains(m), NEW t \in Chains(n), NEW u, u = OnTop(s, t)
    PROVE  u \in Seq(Pairs) /\ ByVar(u) = Laid(m, n) /\ ByVar(u) \in [Vars -> Seq(Values)]
<1> USE DEF OnTop
<1>1. s \in Seq(Pairs) /\ ByVar(s) = m /\ t \in Seq(Pairs) /\ ByVar(t) = n
  BY JoinedView
<1>2. ASSUME NEW v \in Vars PROVE u \in Seq(Pairs) /\ ByVar(u)[v] = m[v] \o n[v]
  BY <1>1, ByVarJoin
<1>3. u \in Seq(Pairs)
  BY <1>1, ConcatProperties
<1>4. ByVar(u) = [v \in Vars |-> ByVar(u)[v]]
  BY DEF ByVar
<1>5. ByVar(u) \in [Vars -> Seq(Values)]
  BY <1>3, ByVarType
<1>7. ByVar(u) = Laid(m, n)
  BY <1>2, <1>4 DEF Laid
<1> QED  BY <1>3, <1>5, <1>7

-----------------------------------------------------------------------------
(* The live bindings of a thread.                                          *)

\* t is the place of a live binding of v that p has pushed.
IsOpen(p, v, t) ==
    LET f == frames[p][t[1]]
        j == t[2] - Gone(p, t[1])
    IN  /\ t = <<t[1], t[2]>> /\ t[1] \in 1..Len(frames[p]) /\ t[1] \in Int
        /\ t[2] \in Int /\ Gone(p, t[1]) \in Nat
        /\ j \in 1..Len(f.pushed) /\ f.vs[t[2]] = v
        /\ f.pushed[j][1] = v /\ f.pushed[j] \in Pairs

OpenIsOpen == \A p \in Procs : \A v : \A t : t \in Open(p, v) <=> IsOpen(p, v, t)

\* The places of the live bindings of a form.
LEMMA FormPlaces ==
    ASSUME RootInv, NEW p \in Procs, NEW i \in 1..Len(frames[p])
    PROVE  /\ Gone(p, i) \in Nat /\ i \in Int /\ Len(frames[p][i].pushed) \in Nat
           /\ \A j : j \in Live(p, i) <=>
                 j \in Int /\ j - Gone(p, i) \in 1..Len(frames[p][i].pushed)
           /\ \A j \in 1..Len(frames[p][i].pushed) :
                 /\ frames[p][i].pushed[j][1] = frames[p][i].vs[Gone(p, i) + j]
                 /\ frames[p][i].pushed[j] \in Pairs
<1> DEFINE f == frames[p][i]
<1>1. FormInv(p) /\ f \in FormType /\ i \in Int
  BY FormOf DEF RootInv
<1>2. Len(f.pushed) \in Nat /\ Len(f.vs) \in Nat /\ \A j \in 1..Len(f.pushed) : f.pushed[j] \in Pairs
  BY <1>1, FormFields
<1>3. /\ Len(f.pushed) <= Len(f.vs)
      /\ \A j \in 1..Len(f.pushed) : f.pushed[j][1] = f.vs[Gone(p, i) + j]
  BY <1>1 DEF FormInv
<1>4. Gone(p, i) \in Nat
  BY <1>2, <1>3 DEF Gone
<1>5. Live(p, i) = (Gone(p, i) + 1) .. (Gone(p, i) + Len(f.pushed))
  BY DEF Live
<1> HIDE DEF f
<1>6. ASSUME NEW g \in Nat, NEW l \in Nat, NEW j
      PROVE  j \in (g + 1)..(g + l) <=> j \in Int /\ j - g \in 1..l
  OBVIOUS
<1>7. \A j : j \in Live(p, i) <=> j \in Int /\ j - Gone(p, i) \in 1..Len(f.pushed)
  BY <1>2, <1>4, <1>5, <1>6
<1> QED  BY <1>1, <1>2, <1>3, <1>4, <1>7 DEF f

\* The live bindings of v are the places of the forms that hold v.
LEMMA OpenIs == RootInv => OpenIsOpen
<1> SUFFICES ASSUME RootInv, NEW p \in Procs, NEW v, NEW t
             PROVE  t \in Open(p, v) <=> IsOpen(p, v, t)
  BY DEF OpenIsOpen
<1>1. frames[p] \in Seq(FormType)
  BY FormOf DEF RootInv
<1>2. t \in Open(p, v) <=> \E i, j : t = <<i, j>> /\ InOpen(p, v, i, j)
  <2>1. DOMAIN frames[p] = 1..Len(frames[p])
    BY <1>1
  <2> QED  BY <2>1 DEF Open, InOpen
<1>3. ASSUME NEW i, NEW j, t = <<i, j>>, InOpen(p, v, i, j) PROVE IsOpen(p, v, t)
  <2>1. /\ i \in 1..Len(frames[p]) /\ j \in Live(p, i) /\ frames[p][i].vs[j] = v
        /\ t[1] = i /\ t[2] = j
    BY <1>3 DEF InOpen
  <2>2. /\ Gone(p, i) \in Nat /\ i \in Int /\ j \in Int
        /\ j - Gone(p, i) \in 1..Len(frames[p][i].pushed)
        /\ frames[p][i].pushed[j - Gone(p, i)][1] = frames[p][i].vs[Gone(p, i) + (j - Gone(p, i))]
        /\ frames[p][i].pushed[j - Gone(p, i)] \in Pairs
    BY <2>1, FormPlaces
  <2>3. Gone(p, i) + (j - Gone(p, i)) = j
    BY <2>2
  <2> QED  BY <1>3, <2>1, <2>2, <2>3 DEF IsOpen
<1>4. ASSUME IsOpen(p, v, t) PROVE t = <<t[1], t[2]>> /\ InOpen(p, v, t[1], t[2])
  <2>1. /\ t = <<t[1], t[2]>> /\ t[1] \in 1..Len(frames[p])
        /\ t[2] \in Int /\ t[2] - Gone(p, t[1]) \in 1..Len(frames[p][t[1]].pushed)
        /\ frames[p][t[1]].vs[t[2]] = v
    BY <1>4 DEF IsOpen
  <2>2. t[2] \in Live(p, t[1])
    BY <2>1, FormPlaces
  <2> QED  BY <2>1, <2>2 DEF InOpen
<1> QED  BY <1>2, <1>3, <1>4

\* The same of the next state.
LEMMA OpenIsNext == RootInv' => OpenIsOpen'
BY OpenIs, PTL

\* A thread has finitely many bindings open.
LEMMA OpenFinite ==
    ASSUME RootInv, NEW p \in Procs, NEW v
    PROVE  IsFiniteSet(Open(p, v))
<1> DEFINE d == Len(frames[p])
           G == [i \in 1..d |-> {i} \X {j \in Live(p, i) : frames[p][i].vs[j] = v}]
           S == {{i} \X {j \in Live(p, i) : frames[p][i].vs[j] = v} : i \in 1..d}
<1>1. frames[p] \in Seq(FormType) /\ d \in Nat /\ DOMAIN frames[p] = 1..d
  <2>1. frames[p] \in Seq(FormType)
    BY FormOf DEF RootInv
  <2> QED  BY <2>1
<1>2. ASSUME NEW i \in 1..d PROVE IsFiniteSet(G[i])
  <2> DEFINE L == {j \in Live(p, i) : frames[p][i].vs[j] = v}
  <2>1. Gone(p, i) + 1 \in Int /\ Gone(p, i) + Len(frames[p][i].pushed) \in Int
    BY FormPlaces
  <2>2. IsFiniteSet(Live(p, i))
    BY <2>1, FS_Interval DEF Live
  <2>3. IsFiniteSet(L)
    BY <2>2, FS_Subset
  <2>4. IsFiniteSet({i})
    BY FS_Singleton
  <2> HIDE DEF L
  <2>5. IsFiniteSet({i} \X L)
    BY <2>3, <2>4, FS_Product
  <2> QED  BY <2>5 DEF L
<1>3. IsFiniteSet(1..d)
  <2>1. 1 \in Int /\ d \in Int
    BY <1>1
  <2> QED  BY <2>1, FS_Interval
<1>4. Open(p, v) = UNION S
  BY <1>1 DEF Open
<1>5. G \in [1..d -> S] /\ \A T \in S : \E i \in 1..d : G[i] = T
  OBVIOUS
<1> HIDE DEF G, S
<1>7. IsFiniteSet(S)
  <2>1. G \in Surjection(1..d, S)
    BY <1>5 DEF Surjection
  <2> QED  BY <1>3, <2>1, FS_Surjection
<1>6. \A T \in S : IsFiniteSet(T)
  BY <1>2, <1>5
<1> QED  BY <1>4, <1>6, <1>7, FS_UNION

\* A var is pushed when it has a live binding.
PushedIsOpen == \A p \in Procs : \A v : v \in PushedVars(p) <=> Open(p, v) # {}

\* PushedVars names the vars that have one.
LEMMA PushedOpen == RootInv => PushedIsOpen
<1> SUFFICES ASSUME RootInv, NEW p \in Procs, NEW v
             PROVE  v \in PushedVars(p) <=> Open(p, v) # {}
  BY DEF PushedIsOpen
<1>1. v \in PushedVars(p) <=>
        \E i \in 1..Len(frames[p]) : \E j \in 1..Len(frames[p][i].pushed) :
            v = frames[p][i].pushed[j][1]
  BY DEF PushedVars, Elems
<1>2. ASSUME NEW i \in 1..Len(frames[p]), NEW j \in 1..Len(frames[p][i].pushed),
             v = frames[p][i].pushed[j][1]
      PROVE  \E t : IsOpen(p, v, t)
  <2> DEFINE g == Gone(p, i)  t == <<i, g + j>>
  <2>1. /\ g \in Nat /\ i \in Int /\ Len(frames[p][i].pushed) \in Nat
        /\ frames[p][i].pushed[j][1] = frames[p][i].vs[g + j]
        /\ frames[p][i].pushed[j] \in Pairs
    BY FormPlaces
  <2> HIDE DEF g
  <2>2. g + j \in Int /\ (g + j) - g = j
    BY <2>1
  <2>3. t[1] = i /\ t[2] = g + j /\ t = <<t[1], t[2]>>
    OBVIOUS
  <2> HIDE DEF t
  <2>4. IsOpen(p, v, t)
    BY <1>2, <2>1, <2>2, <2>3 DEF IsOpen, g
  <2> QED  BY <2>4
<1>3. ASSUME NEW t, IsOpen(p, v, t)
      PROVE  \E i \in 1..Len(frames[p]) : \E j \in 1..Len(frames[p][i].pushed) :
                v = frames[p][i].pushed[j][1]
  BY <1>3 DEF IsOpen
<1> QED  BY <1>1, <1>2, <1>3, OpenIs DEF OpenIsOpen

\* The same of the next state.
LEMMA PushedOpenNext == RootInv' => PushedIsOpen'
BY PushedOpen, PTL

-----------------------------------------------------------------------------
(* What a step does to what a thread sees.                                 *)

View == [Vars -> Seq(Values)]

\* What the properties other than RootBindingsHonest need of the types too.
RestTypes ==
    /\ leaked \subseteq Vars
    /\ stack \in [Kids -> Seq(Pairs)]
    /\ captured \in View \union {None}
    /\ snap \in [Procs -> [for : Purposes \union {NoSnap.for}, left : SUBSET Vars, got : View]]
    /\ parent \in [Kids -> Procs \union {None}]

\* RootTypes and RestTypes are all of TypeOK.
LEMMA AllTypes == RootTypes /\ RestTypes => TypeOK
BY DEF RootTypes, RestTypes, TypeOK, Pairs, View

\* Every thread sees stacks of values.
LEMMA SeenType ==
    ASSUME RootInv, RestTypes, NEW p \in Procs
    PROVE  /\ Seen(p) \in View /\ \A v \in Vars : Seen(p)[v] \in Seq(Values)
           /\ p \notin Roots => stack[p] \in Seq(Pairs) /\ Seen(p) = ByVar(stack[p])
<1>1. CASE p \in Roots
  <2>1. Seen(p) = chain /\ chain \in View
    BY <1>1 DEF Seen, RootInv, RootTypes, View
  <2> QED  BY <1>1, <2>1 DEF View
<1>2. CASE p \notin Roots
  <2>1. Seen(p) = ByVar(stack[p]) /\ stack[p] \in Seq(Pairs)
    BY <1>2 DEF Seen, RestTypes, Procs
  <2>2. ByVar(stack[p]) \in View
    BY <2>1, ByVarType DEF View
  <2> HIDE DEF Seen
  <2> QED  BY <2>1, <2>2 DEF View
<1> QED  BY <1>1, <1>2

\* p alone changes what it sees, to m; unless p runs in the root context.
Alters(p, m) ==
    /\ Seen(p)' = m /\ stack' \in [Kids -> Seq(Pairs)]
    /\ \A q \in Kids \ {p} : stack'[q] = stack[q]
    /\ p \notin Roots => chain' = chain

\* A kid changes the stack of its own ...
LEMMA KidAlters ==
    ASSUME RestTypes, NEW p \in Procs, p \notin Roots, NEW s \in Seq(Pairs),
           stack' = [stack EXCEPT ![p] = s], chain' = chain
    PROVE  Alters(p, ByVar(s))
BY DEF RestTypes, Alters, Seen, Procs

\* ... and a root thread the chains.
LEMMA RootAlters ==
    ASSUME RestTypes, NEW p \in Roots, NEW m, chain' = m, stack' = stack
    PROVE  Alters(p, m)
BY BindingsConstants DEF RestTypes, Alters, Seen

\* rootPush and bindingStack.push push a value of the var, and change no other.
LEMMA SeenPush ==
    ASSUME RootInv, RestTypes, NEW p \in Procs, Push(p), NEW v \in Vars, NEW x \in Values,
           v = frames[p][Len(frames[p])].vs[Len(frames[p][Len(frames[p])].pushed) + 1],
           x = <<p, ops[p]>>
    PROVE  Alters(p, Pushed(Seen(p), v, x))
<1>1. CASE p \in Roots
  <2>1. chain' = Pushed(chain, v, x) /\ stack' = stack
    BY <1>1 DEF Push, Pushed
  <2> QED  BY <1>1, <2>1, RootAlters DEF Seen
<1>2. CASE p \notin Roots
  <2>1. stack' = [stack EXCEPT ![p] = Append(stack[p], <<v, x>>)] /\ chain' = chain
    BY <1>2 DEF Push
  <2>2. stack[p] \in Seq(Pairs) /\ Seen(p) = ByVar(stack[p])
    BY <1>2, SeenType
  <2>3. PICK s : s = Append(stack[p], <<v, x>>)
    OBVIOUS
  <2>4. s \in Seq(Pairs) /\ ByVar(s) = Pushed(ByVar(stack[p]), v, x)
    BY <2>2, <2>3, PushView
  <2>5. Alters(p, ByVar(s))
    BY <1>2, <2>1, <2>3, <2>4, KidAlters
  <2> QED  BY <2>2, <2>4, <2>5
<1> QED  BY <1>1, <1>2

\* rootPop and bindingStack.pop take the last value of the var, if there is one.
LEMMA SeenPop ==
    ASSUME RootInv, RestTypes, NEW p \in Procs, Pop(p), NEW v \in Vars,
           v = frames[p][Len(frames[p])].pushed[1][1]
    PROVE  /\ Seen(p)[v] # <<>> => Alters(p, Dropped(Seen(p), v))
           /\ Seen(p)[v] = <<>> => Alters(p, Seen(p))
<1>1. CASE p \in Roots
  <2>1. chain' = [chain EXCEPT ![v] = IF @ = <<>> THEN @ ELSE Front(@)] /\ stack' = stack
    BY <1>1 DEF Pop
  <2>2. chain \in [Vars -> Seq(Values)] /\ Seen(p) = chain
    BY <1>1 DEF Seen, RootInv, RootTypes
  <2>3. CASE chain[v] = <<>>
    <3>1. chain' = chain
      BY <2>1, <2>2, <2>3
    <3> QED  BY <1>1, <2>1, <2>2, <2>3, <3>1, RootAlters
  <2>4. CASE chain[v] # <<>>
    <3>1. chain' = Dropped(chain, v)
      BY <2>1, <2>2, <2>4 DEF Dropped
    <3> QED  BY <1>1, <2>1, <2>2, <2>4, <3>1, RootAlters
  <2> QED  BY <2>3, <2>4
<1>2. CASE p \notin Roots
  <2>1. stack' = [stack EXCEPT ![p] = RemoveTop(stack[p], v)] /\ chain' = chain
    BY <1>2 DEF Pop
  <2>2. stack[p] \in Seq(Pairs) /\ Seen(p) = ByVar(stack[p])
    BY <1>2, SeenType
  <2>3. PICK s : s = RemoveTop(stack[p], v)
    OBVIOUS
  <2>0. \E x : x \in Values
    <3> DEFINE d == Len(frames[p])
    <3>1. d \in Nat /\ d > 0 /\ frames[p][d].pushed # <<>>
      BY FormOf DEF Pop, RootInv, FormInv
    <3>2. frames[p][d] \in FormType
      BY <3>1, FormOf DEF RootInv
    <3>3. frames[p][d].pushed \in Seq(Pairs)
      BY <3>2, FormFields
    <3> HIDE DEF d
    <3>4. frames[p][d].pushed[1] \in Pairs
      BY <3>1, <3>3, Rest
    <3> QED  BY <3>4 DEF Pairs
  <2>4. /\ TopOf(stack[p], v) = 0 <=> Seen(p)[v] = <<>>
        /\ TopOf(stack[p], v) = 0 => s = stack[p]
        /\ TopOf(stack[p], v) # 0 => s \in Seq(Pairs) /\ ByVar(s) = Dropped(ByVar(stack[p]), v)
    BY <2>0, <2>2, <2>3, TopView
  <2>5. s \in Seq(Pairs)
    BY <2>2, <2>4
  <2>6. Alters(p, ByVar(s))
    BY <1>2, <2>1, <2>3, <2>5, KidAlters
  <2> QED  BY <2>2, <2>4, <2>6
<1> QED  BY <1>1, <1>2

\* rootSetCurrent and bindingStack.setCurrent replace the last value of the var.
LEMMA SeenSet ==
    ASSUME RootInv, RestTypes, NEW p \in Procs, NEW v \in Vars, SetCurrent(p, v),
           NEW x \in Values, x = <<p, ops[p] + 1>>
    PROVE  Seen(p)[v] # <<>> /\ Alters(p, Set(Seen(p), v, x))
<1>1. CASE p \in Roots
  <2>1. chain' = [chain EXCEPT ![v][Len(chain[v])] = x] /\ stack' = stack /\ chain[v] # <<>>
    BY <1>1 DEF SetCurrent, HasBinding
  <2>2. chain' = Set(chain, v, x)
    BY <2>1 DEF Set
  <2> QED  BY <1>1, <2>1, <2>2, RootAlters DEF Seen
<1>2. CASE p \notin Roots
  <2>1. /\ stack' = [stack EXCEPT ![p] = ReplaceTop(stack[p], v, x)] /\ chain' = chain
        /\ TopOf(stack[p], v) # 0
    BY <1>2 DEF SetCurrent, HasBinding
  <2>2. stack[p] \in Seq(Pairs) /\ Seen(p) = ByVar(stack[p])
    BY <1>2, SeenType
  <2>3. PICK s : s = ReplaceTop(stack[p], v, x)
    OBVIOUS
  <2>4. /\ Seen(p)[v] # <<>>
        /\ s \in Seq(Pairs) /\ ByVar(s) = Set(ByVar(stack[p]), v, x)
    BY <2>1, <2>2, <2>3, TopView
  <2>5. Alters(p, ByVar(s))
    BY <1>2, <2>1, <2>3, <2>4, KidAlters
  <2> QED  BY <2>2, <2>4, <2>5
<1> QED  BY <1>1, <1>2

-----------------------------------------------------------------------------
(* The types of the contexts and snapshots.                                *)

\* A snapshot that has read one more chain is a snapshot.
LEMMA SnapRecord ==
    ASSUME NEW A, NEW B, NEW C, NEW r \in [for : A, left : B, got : C], NEW l \in B, NEW m \in C
    PROVE  [r EXCEPT !.left = l, !.got = m] \in [for : A, left : B, got : C]
OBVIOUS

\* What Install does to the kid k of p's snapshot: u is its stack.
Installed(p, k, u) ==
    LET call == snap[p].for.what = "call"
        m == snap[p].got
    IN  /\ k = snap[p].for.kid /\ k \in Kids /\ k # p /\ k \in Procs
        /\ pc[p] = "snap" /\ pc'[p] \in {"wait", "run"} /\ pc[k] = "none" /\ pc'[k] = "run"
        /\ \A q \in Procs \ {p, k} : pc'[q] = pc[q]
        /\ stack' = [stack EXCEPT ![k] = u] /\ u \in Seq(Pairs)
        /\ parent' = [parent EXCEPT ![k] = p]
        /\ snap' = [snap EXCEPT ![p] = NoSnap] /\ snap[p].left = {} /\ m \in View
        /\ call => captured \in View /\ ByVar(u) = Laid(m, captured)
        /\ ~call => ByVar(u) = m
        /\ UNCHANGED <<chain, registry, captured, cur, frames, ops, overlapped, leaked>>

\* Install gives a kid that has not begun the snapshot for its stack.
LEMMA InstallForms ==
    ASSUME RootInv, RestTypes, BoundInv, NEW p \in Procs, Install(p)
    PROVE  \E k \in Kids : \E u : Installed(p, k, u)
<1> DEFINE k == snap[p].for.kid
           m == snap[p].got
           w == IF snap[p].for.what = "call" THEN "wait" ELSE "run"
<1>1. /\ pc[p] = "snap" /\ snap[p].left = {} /\ k # None
      /\ \E s \in Chains(m) :
            \E t \in IF snap[p].for.what = "call" THEN Chains(captured) ELSE {<<>>} :
                stack' = [stack EXCEPT ![k] = s \o t]
      /\ parent' = [parent EXCEPT ![k] = p]
      /\ pc' = [pc EXCEPT ![p] = w, ![k] = "run"]
      /\ snap' = [snap EXCEPT ![p] = NoSnap]
      /\ UNCHANGED <<chain, registry, captured, cur, frames, ops, overlapped, leaked>>
  BY DEF Install, history
<1>2. k \in Kids /\ pc[k] = "none" /\ k # p /\ k \in Procs
  BY <1>1 DEF RootInv, RootTypes, SnapInv, Procs
<1>3. m \in View
  BY DEF RestTypes
<1>4. snap[p].for.what = "call" => captured \in View
  BY DEF BoundInv, RestTypes
<1>5. w \in {"wait", "run"}
  OBVIOUS
<1> HIDE DEF k, m, w
<1>6. pc'[p] = w /\ pc'[k] = "run" /\ \A q \in Procs \ {p, k} : pc'[q] = pc[q]
  BY <1>1, <1>2 DEF RootInv, RootTypes
<1>7. CASE snap[p].for.what = "call"
  <2>1. PICK s \in Chains(m), t \in Chains(captured) : stack' = [stack EXCEPT ![k] = s \o t]
    BY <1>1, <1>7
  <2>2. PICK u : u = s \o t /\ u = OnTop(s, t)
    BY DEF OnTop
  <2>3. u \in Seq(Pairs) /\ ByVar(u) = Laid(m, captured)
    <3>1. m \in [Vars -> Seq(Values)] /\ captured \in [Vars -> Seq(Values)]
      BY <1>3, <1>4, <1>7 DEF View
    <3>2. u = OnTop(s, t)
      BY <2>2
    <3> QED  BY <3>1, <3>2, OverView
  <2>4. stack' = [stack EXCEPT ![k] = u]
    BY <2>1, <2>2
  <2>5. Installed(p, k, u)
    BY <1>1, <1>2, <1>3, <1>4, <1>5, <1>6, <1>7, <2>3, <2>4 DEF Installed, k, m
  <2> QED  BY <1>2, <2>5
<1>8. CASE snap[p].for.what # "call"
  <2>1. PICK s \in Chains(m) : stack' = [stack EXCEPT ![k] = s \o <<>>]
    BY <1>1, <1>8
  <2>2. s \in Seq(Pairs) /\ ByVar(s) = m
    BY <1>3, JoinedView DEF View
  <2>3. s \o <<>> = s
    <3>1. ASSUME NEW S, NEW a \in Seq(S) PROVE a \o <<>> = a
      OBVIOUS
    <3> QED  BY <2>2, <3>1
  <2>4. stack' = [stack EXCEPT ![k] = s]
    BY <2>1, <2>3
  <2>5. Installed(p, k, s)
    BY <1>1, <1>2, <1>3, <1>5, <1>6, <1>8, <2>2, <2>4 DEF Installed, k, m
  <2> QED  BY <1>2, <2>5
<1> QED  BY <1>7, <1>8

\* A step that sets one snapshot keeps the types.
LEMMA SnapType ==
    ASSUME RestTypes, NEW p \in Procs, NEW f \in Purposes \union {NoSnap.for},
           NEW l \in SUBSET Vars, NEW m \in View,
           snap' = [snap EXCEPT ![p] = [for |-> f, left |-> l, got |-> m]]
    PROVE  snap' \in [Procs -> [for : Purposes \union {NoSnap.for}, left : SUBSET Vars, got : View]]
BY DEF RestTypes

\* No snapshot, as a snapshot.
LEMMA NoSnapType == Empty \in View /\ NoSnap = [for |-> NoSnap.for, left |-> {}, got |-> Empty]
<1>1. <<>> \in Seq(Values)
  OBVIOUS
<1> QED  BY <1>1 DEF Empty, View, NoSnap

\* A step that changes neither stack nor snapshot keeps the types.
LEMMA RestStill ==
    ASSUME RestTypes, leaked' \subseteq Vars, UNCHANGED <<captured, snap, parent>>,
           stack' \in [Kids -> Seq(Pairs)]
    PROVE  RestTypes'
BY DEF RestTypes

\* The steps of binding forms keep the types.
LEMMA RestOfForms ==
    ASSUME RootInv, RestTypes, NEW p \in Procs,
           \/ Push(p) \/ Pop(p) \/ RegistryAdd(p) \/ RegistryRemove(p) \/ Leave(p)
           \/ InitThrows(p) \/ \E vs \in Forms[p] : Enter(p, vs)
           \/ \E v \in Vars : SetCurrent(p, v)
    PROVE  RestTypes'
<1>0. leaked \subseteq Vars /\ stack \in [Kids -> Seq(Pairs)]
  BY DEF RestTypes
<1>1. CASE Push(p)
  <2>1. PICK v \in Vars, x \in Values :
            /\ v = frames[p][Len(frames[p])].vs[Len(frames[p][Len(frames[p])].pushed) + 1]
            /\ x = <<p, ops[p]>>
    BY <1>1, PushForms
  <2>2. Alters(p, Pushed(Seen(p), v, x))
    BY <1>1, <2>1, SeenPush
  <2>3. UNCHANGED <<captured, snap, parent>> /\ leaked' = leaked
    BY <1>1 DEF Push
  <2> QED  BY <1>0, <2>2, <2>3, RestStill DEF Alters
<1>2. CASE Pop(p)
  <2>0. PICK d, m, e, v : Popped(p, d, m, e, v)
    BY DEF Popped
  <2>1. v \in Vars /\ v = frames[p][Len(frames[p])].pushed[1][1]
    BY <1>2, <2>0, PopForms DEF PopResult, Popped
  <2>2. stack' \in [Kids -> Seq(Pairs)]
    BY <1>2, <2>1, SeenPop DEF Alters
  <2>3. UNCHANGED <<captured, snap, parent>> /\ leaked' = leaked
    BY <1>2 DEF Pop, history
  <2> QED  BY <1>0, <2>2, <2>3, RestStill
<1>3. CASE RegistryAdd(p)
  BY <1>0, <1>3, RestStill DEF RegistryAdd, history
<1>4. CASE RegistryRemove(p)
  BY <1>0, <1>4, RestStill DEF RegistryRemove, history
<1>5. CASE Leave(p)
  BY <1>0, <1>5, RestStill DEF Leave, history, ctxVars
<1>6. CASE InitThrows(p)
  <2> DEFINE f == Last(frames[p])
  <2>1. leaked' = leaked \union {b[1] : b \in Elems(f.pushed)}
        /\ UNCHANGED <<captured, snap, parent, stack>>
    BY <1>6 DEF InitThrows, ctxVars
  <2>2. ASSUME NEW b \in Elems(f.pushed) PROVE b[1] \in Vars
    <3>1. frames[p] # <<>> /\ frames[p] \in Seq(FormType)
      BY <1>6, FormOf DEF InitThrows, RootInv, FormInv
    <3>2. f \in FormType
      BY <3>1, Shortened
    <3>3. \A j \in 1..Len(f.pushed) : f.pushed[j] \in Pairs
      BY <3>2, FormFields
    <3> QED  BY <2>2, <3>3 DEF Elems, Pairs
  <2> HIDE DEF f
  <2> QED  BY <1>0, <2>1, <2>2, RestStill
<1>7. CASE \E vs \in Forms[p] : Enter(p, vs)
  BY <1>0, <1>7, RestStill DEF Enter, history, ctxVars
<1>8. ASSUME NEW v \in Vars, SetCurrent(p, v) PROVE RestTypes'
  <2>1. PICK x \in Values : x = <<p, ops[p] + 1>>
    <3>1. ops[p] < MaxOps[p] /\ MaxOps[p] \in Nat /\ ops[p] \in Nat
      BY <1>8, BindingsConstants, FormOf DEF SetCurrent, Starts, RootInv
    <3>2. ops[p] + 1 \in 1..MaxOps[p]
      BY <3>1
    <3> QED  BY <3>2, ValueIn
  <2>2. stack' \in [Kids -> Seq(Pairs)]
    BY <1>8, <2>1, SeenSet DEF Alters
  <2>3. UNCHANGED <<captured, snap, parent>> /\ leaked' = leaked
    BY <1>8 DEF SetCurrent
  <2> QED  BY <1>0, <2>2, <2>3, RestStill
<1> QED  BY <1>1, <1>2, <1>3, <1>4, <1>5, <1>6, <1>7, <1>8

\* So do the steps of snapshots ...
LEMMA RestOfSnapshots ==
    ASSUME RootInv, RestTypes, BoundInv, NEW p \in Procs,
           \/ \E for \in Purposes : BeginSnapshot(p, for)
           \/ \E v \in Vars : ReadChain(p, v)
           \/ Install(p) \/ CaptureBound(p)
    PROVE  RestTypes'
<1>0. /\ leaked \subseteq Vars /\ stack \in [Kids -> Seq(Pairs)]
      /\ captured \in View \union {None} /\ parent \in [Kids -> Procs \union {None}]
      /\ snap[p].got \in View /\ snap[p].left \subseteq Vars
      /\ snap[p].for \in Purposes \union {NoSnap.for}
      /\ snap[p] = [for |-> snap[p].for, left |-> snap[p].left, got |-> snap[p].got]
  BY DEF RestTypes
<1>1. ASSUME NEW for \in Purposes, BeginSnapshot(p, for) PROVE RestTypes'
  <2> DEFINE l == IF p \in Roots THEN registry ELSE {}
             m == IF p \in Roots THEN Empty ELSE ByVar(stack[p])
  <2>1. snap' = [snap EXCEPT ![p] = [for |-> for, left |-> l, got |-> m]]
        /\ UNCHANGED <<stack, captured, parent, leaked>>
    BY <1>1 DEF BeginSnapshot, ctxVars, history
  <2>2. l \in SUBSET Vars /\ m \in View
    <3>1. p \notin Roots => ByVar(stack[p]) \in View
      BY SeenType
    <3> QED  BY <3>1, NoSnapType DEF RootInv, RootTypes
  <2> HIDE DEF l, m
  <2> QED  BY <1>0, <2>1, <2>2, SnapType DEF RestTypes
<1>2. ASSUME NEW v \in Vars, ReadChain(p, v) PROVE RestTypes'
  <2> DEFINE l == snap[p].left \ {v}
             m == [snap[p].got EXCEPT ![v] = chain[v]]
             S == [for : Purposes \union {NoSnap.for}, left : SUBSET Vars, got : View]
  <2>1. snap' = [snap EXCEPT ![p].left = @ \ {v}, ![p].got[v] = chain[v]]
        /\ UNCHANGED <<stack, captured, parent, leaked>>
    BY <1>2 DEF ReadChain, ctxVars, history
  <2>2. l \in SUBSET Vars /\ m \in View
    BY <1>0 DEF RootInv, RootTypes, View
  <2>3. snap \in [Procs -> S] /\ snap[p] \in S
    BY DEF RestTypes
  <2>4. snap' = [snap EXCEPT ![p] = [snap[p] EXCEPT !.left = l, !.got = m]]
    BY <2>1, <2>3
  <2> HIDE DEF l, m
  <2>5. [snap[p] EXCEPT !.left = l, !.got = m] \in S
    BY <2>2, <2>3, SnapRecord
  <2>6. snap' \in [Procs -> S]
    BY <2>3, <2>4, <2>5
  <2> QED  BY <1>0, <2>1, <2>6 DEF RestTypes
<1>3. CASE Install(p)
  <2>0. PICK k \in Kids : \E u : Installed(p, k, u)
    BY <1>3, InstallForms
  <2>1. PICK u : Installed(p, k, u)
    BY <2>0
  <2>2. /\ stack' = [stack EXCEPT ![k] = u] /\ u \in Seq(Pairs)
        /\ parent' = [parent EXCEPT ![k] = p] /\ snap' = [snap EXCEPT ![p] = NoSnap]
        /\ captured' = captured /\ leaked' = leaked
    BY <2>1 DEF Installed
  <2>3. snap' \in [Procs -> [for : Purposes \union {NoSnap.for}, left : SUBSET Vars, got : View]]
    BY <2>2, NoSnapType, SnapType
  <2>4. stack' \in [Kids -> Seq(Pairs)] /\ parent' \in [Kids -> Procs \union {None}]
    BY <1>0, <2>2
  <2> QED  BY <1>0, <2>2, <2>3, <2>4 DEF RestTypes
<1>4. CASE CaptureBound(p)
  <2>1. /\ captured' = IF snap[p].got = Empty THEN None ELSE snap[p].got
        /\ snap' = [snap EXCEPT ![p] = NoSnap] /\ UNCHANGED <<stack, parent, leaked>>
    BY <1>4 DEF CaptureBound, ctxVars, history
  <2>2. snap' \in [Procs -> [for : Purposes \union {NoSnap.for}, left : SUBSET Vars, got : View]]
    BY <2>1, NoSnapType, SnapType
  <2>3. captured' \in View \union {None}
    BY <1>0, <2>1
  <2> QED  BY <1>0, <2>1, <2>2, <2>3 DEF RestTypes
<1> QED  BY <1>1, <1>2, <1>3, <1>4

\* ... and hence every step.
LEMMA InvRest ==
    ASSUME RootInv, RestTypes, BoundInv, [Next]_vars
    PROVE  RestTypes'
<1>1. ASSUME NEW p \in Procs, Step(p) PROVE RestTypes'
  BY <1>1, RestOfForms, RestOfSnapshots DEF Step
<1>2. ASSUME NEW k \in Kids, Return(k) PROVE RestTypes'
  BY <1>2, RestStill DEF Return, ctxVars, history, RestTypes
<1>3. CASE UNCHANGED vars
  BY <1>3, RestStill DEF vars, ctxVars, history, RestTypes
<1> QED  BY <1>1, <1>2, <1>3 DEF Next

-----------------------------------------------------------------------------
(* What a step does to the bindings that a thread has live.                *)

\* The binding that p has live at place j of its form i is b.
Holds(p, i, j, b) ==
    /\ i \in 1..Len(frames[p]) /\ j \in Int
    /\ j - Gone(p, i) \in 1..Len(frames[p][i].pushed)
    /\ frames[p][i].pushed[j - Gone(p, i)] = b

HoldsAt(p, v, t, y) ==
    t = <<t[1], t[2]>> /\ Holds(p, t[1], t[2], <<v, y>>) /\ ValueAt(p, t) = y

OpenHolds ==
    \A p \in Procs : \A v : \A t : t \in Open(p, v) <=> \E y \in Values : HoldsAt(p, v, t, y)

\* A place is live when it holds a binding of v.
LEMMA OpenHold == RootInv => OpenHolds
<1> SUFFICES ASSUME RootInv, NEW p \in Procs, NEW v, NEW t
             PROVE  t \in Open(p, v) <=> \E y \in Values : HoldsAt(p, v, t, y)
  BY DEF OpenHolds
<1>1. t \in Open(p, v) <=> IsOpen(p, v, t)
  BY OpenIs DEF OpenIsOpen
<1>2. ASSUME IsOpen(p, v, t) PROVE \E y \in Values : HoldsAt(p, v, t, y)
  <2> DEFINE b == frames[p][t[1]].pushed[t[2] - Gone(p, t[1])]
  <2>1. /\ t = <<t[1], t[2]>> /\ t[1] \in 1..Len(frames[p]) /\ t[2] \in Int
        /\ t[2] - Gone(p, t[1]) \in 1..Len(frames[p][t[1]].pushed)
        /\ b[1] = v /\ b \in Pairs
    BY <1>2 DEF IsOpen
  <2>2. b = <<v, b[2]>> /\ b[2] \in Values
    <3> HIDE DEF b
    <3> QED  BY <2>1 DEF Pairs
  <2>3. ValueAt(p, t) = b[2]
    BY DEF ValueAt
  <2> QED  BY <2>1, <2>2, <2>3 DEF HoldsAt, Holds
<1>3. ASSUME NEW y \in Values, HoldsAt(p, v, t, y) PROVE IsOpen(p, v, t)
  <2> DEFINE i == t[1]  j == t[2] - Gone(p, t[1])
  <2>1. /\ t = <<t[1], t[2]>> /\ i \in 1..Len(frames[p]) /\ t[2] \in Int
        /\ j \in 1..Len(frames[p][i].pushed) /\ frames[p][i].pushed[j] = <<v, y>>
    BY <1>3 DEF HoldsAt, Holds
  <2>2. /\ Gone(p, i) \in Nat /\ i \in Int
        /\ frames[p][i].pushed[j][1] = frames[p][i].vs[Gone(p, i) + j]
        /\ frames[p][i].pushed[j] \in Pairs
    BY <2>1, FormPlaces
  <2>3. Gone(p, i) + j = t[2]
    BY <2>1, <2>2
  <2>4. frames[p][i].pushed[j][1] = v
    BY <2>1
  <2> HIDE DEF i
  <2> QED  BY <2>1, <2>2, <2>3, <2>4 DEF IsOpen, i
<1> QED  BY <1>1, <1>2, <1>3

\* The same of the next state.
LEMMA OpenHoldNext == RootInv' => OpenHolds'
BY OpenHold, PTL

\* p's live bindings of v stay what they are.
Keeps(p, v) ==
    /\ Open(p, v)' = Open(p, v)
    /\ \A t \in Open(p, v) : ValueAt(p, t)' = ValueAt(p, t)

\* If p holds the same bindings of v as before, they are live as before.
LEMMA KeepsHeld ==
    ASSUME RootInv, RootInv', NEW p \in Procs, NEW v,
           \A i, j, y : Holds(p, i, j, <<v, y>>)' <=> Holds(p, i, j, <<v, y>>)
    PROVE  Keeps(p, v)
<1>1. ASSUME NEW t PROVE /\ t \in Open(p, v) <=> \E y \in Values : HoldsAt(p, v, t, y)
                         /\ t \in Open(p, v)' <=> \E y \in Values : HoldsAt(p, v, t, y)'
  BY OpenHold, OpenHoldNext DEF OpenHolds
<1>2. ASSUME NEW t, NEW y PROVE Holds(p, t[1], t[2], <<v, y>>) => ValueAt(p, t) = y
  BY DEF Holds, ValueAt
<1>3. ASSUME NEW t, NEW y PROVE Holds(p, t[1], t[2], <<v, y>>)' => ValueAt(p, t)' = y
  BY DEF Holds, ValueAt
<1>4. ASSUME NEW t, NEW y PROVE HoldsAt(p, v, t, y)' <=> HoldsAt(p, v, t, y)
  BY <1>2, <1>3 DEF HoldsAt
<1> QED  BY <1>1, <1>4 DEF Keeps, HoldsAt

\* A thread whose forms stay, with as much popped of each, holds what it did.
LEMMA HoldsSame ==
    ASSUME NEW p,
           \A i \in 1..Len(frames[p]) :
              /\ i \in 1..Len(frames'[p]) /\ frames'[p][i] = frames[p][i]
              /\ Gone(p, i)' = Gone(p, i),
           \A i \in 1..Len(frames'[p]) :
              i \in 1..Len(frames[p]) \/ Len(frames'[p][i].pushed) = 0
    PROVE  \A i, j, b : Holds(p, i, j, b)' <=> Holds(p, i, j, b)
<1>1. ASSUME NEW i \in 1..Len(frames[p]), NEW j, NEW b
      PROVE  Holds(p, i, j, b)' <=> Holds(p, i, j, b)
  BY DEF Holds
<1>2. ASSUME NEW i, i \notin 1..Len(frames[p]), NEW j, NEW b
      PROVE  ~Holds(p, i, j, b)' /\ ~Holds(p, i, j, b)
  <2>1. i \in 1..Len(frames'[p]) => 1..Len(frames'[p][i].pushed) = {}
    BY <1>2
  <2> QED  BY <1>2, <2>1 DEF Holds
<1> QED  BY <1>1, <1>2

\* p's live bindings are not touched.
Quiet(p) == \A i, j, b : Holds(p, i, j, b)' <=> Holds(p, i, j, b)

\* So does one that does not move.
LEMMA QuietIdle ==
    ASSUME NEW p, frames'[p] = frames[p],
           \/ pc'[p] = pc[p]
           \/ {pc[p], pc'[p]} \intersect {"pop", "remove"} = {}
    PROVE  Quiet(p)
<1>1. \A i : Gone(p, i)' = Gone(p, i)
  BY DEF Gone
<1> QED  BY <1>1, HoldsSame DEF Quiet

\* A new form has nothing pushed.
LEMMA QuietEnter ==
    ASSUME RootInv, NEW p \in Procs, NEW vs \in Forms[p], Enter(p, vs)
    PROVE  Quiet(p)
<1> DEFINE d == Len(frames[p])
           g == [vs |-> vs, pushed |-> <<>>]
<1>1. /\ pc[p] = "run" /\ pc' = [pc EXCEPT ![p] = "push"]
      /\ frames' = [frames EXCEPT ![p] = Append(frames[p], g)]
  BY DEF Enter, Starts
<1>2. vs \in Seq(Vars)
  BY BindingsConstants
<1>3. g \in FormType /\ Len(g.pushed) = 0
  BY <1>2 DEF FormType
<1>4. frames[p] \in Seq(FormType) /\ d \in Nat
  BY FormOf DEF RootInv
<1> HIDE DEF g
<1>5. /\ Len(frames'[p]) = d + 1 /\ frames'[p][d + 1] = g
      /\ \A i \in 1..d : frames'[p][i] = frames[p][i]
  BY <1>1, <1>3, <1>4, Grown DEF RootInv, RootTypes
<1>6. pc'[p] = "push"
  BY <1>1 DEF RootInv, RootTypes
<1>7. \A i : Gone(p, i)' = Gone(p, i)
  BY <1>1, <1>6 DEF Gone
<1>8. \A i \in 1..d : i \in 1..d + 1
  BY <1>4
<1>9. \A i \in 1..d + 1 : i \in 1..d \/ i = d + 1
  BY <1>4
<1> QED  BY <1>3, <1>5, <1>7, <1>8, <1>9, HoldsSame DEF Quiet

\* A form that is left has nothing popped yet.
LEMMA QuietLeave ==
    ASSUME RootInv, NEW p \in Procs, Leave(p)
    PROVE  Quiet(p)
<1> DEFINE d == Len(frames[p])
<1>1. pc[p] = "run" /\ frames[p] # <<>> /\ pc' = [pc EXCEPT ![p] = "pop"] /\ frames' = frames
  BY DEF Leave
<1>2. frames[p] \in Seq(FormType) /\ d \in Nat /\ d > 0 /\ frames[p][d] \in FormType
  BY <1>1, FormOf DEF RootInv
<1>3. pc'[p] = "pop" /\ FormInv(p)
  BY <1>1 DEF RootInv, RootTypes
<1>4. Len(frames[p][d].pushed) = Len(frames[p][d].vs) /\ Len(frames[p][d].vs) \in Nat
  BY <1>1, <1>2, <1>3, FormFields DEF FormInv
<1>5. \A i : Gone(p, i)' = Gone(p, i)
  BY <1>1, <1>3, <1>4 DEF Gone
<1> QED  BY <1>1, <1>5, HoldsSame DEF Quiet

\* The step after the last pop of a chain pops nothing.
LEMMA QuietRemove ==
    ASSUME RootInv, NEW p \in Procs, RegistryRemove(p)
    PROVE  Quiet(p) /\ (Leaving(p)' <=> Leaving(p))
<1> DEFINE d == Len(frames[p])
           f == frames[p][d]
<1>1. /\ pc[p] = "remove" /\ pc' = [pc EXCEPT ![p] = IF Popping(p) THEN "pop" ELSE "run"]
      /\ frames' = frames
  BY DEF RegistryRemove
<1>2. pc'[p] = IF Popping(p) THEN "pop" ELSE "run"
  BY <1>1 DEF RootInv, RootTypes
<1>3. FormInv(p) /\ frames[p] \in Seq(FormType) /\ d \in Nat
      /\ \A i \in 1..d : frames[p][i] \in FormType
  BY FormOf DEF RootInv
<1>4. d > 0 => Len(f.pushed) \in Nat /\ Len(f.vs) \in Nat /\ Len(f.pushed) <= Len(f.vs)
  BY <1>3, FormFields DEF FormInv
<1>5. Popping(p) <=> d > 0 /\ Len(f.pushed) < Len(f.vs)
  BY <1>3 DEF Popping, Last
<1>6. ASSUME NEW i \in 1..d PROVE Gone(p, i)' = Gone(p, i)
  <2>1. CASE i # d
    BY <1>1, <2>1 DEF Gone
  <2>2. CASE i = d
    <3>1. d > 0 /\ Gone(p, d) = Len(f.vs) - Len(f.pushed)
      BY <1>1, <1>3, <2>2 DEF Gone
    <3>2. ~Popping(p) => Gone(p, d) = 0
      BY <1>4, <1>5, <3>1
    <3> QED  BY <1>1, <1>2, <2>2, <3>1, <3>2 DEF Gone
  <2> QED  BY <2>1, <2>2
<1>7. Quiet(p)
  BY <1>1, <1>6, HoldsSame DEF Quiet
<1>8. Leaving(p)' <=> Leaving(p)
  BY <1>1, <1>2 DEF Leaving, Popping
<1> QED  BY <1>7, <1>8

\* A form whose initialiser throws takes only leaked bindings with it.
LEMMA HoldsThrows ==
    ASSUME RootInv, NEW p \in Procs, InitThrows(p), NEW v, v \notin leaked'
    PROVE  \A i, j, y : Holds(p, i, j, <<v, y>>)' <=> Holds(p, i, j, <<v, y>>)
<1> DEFINE d == Len(frames[p])
           f == frames[p][d]
<1>1. /\ pc[p] = "push" /\ frames' = [frames EXCEPT ![p] = Front(frames[p])]
      /\ pc' = [pc EXCEPT ![p] = "run"]
      /\ leaked' = leaked \union {b[1] : b \in Elems(Last(frames[p]).pushed)}
  BY DEF InitThrows
<1>2. frames[p] \in Seq(FormType) /\ d \in Nat
  BY FormOf DEF RootInv
<1>3. d > 0 /\ frames[p] # <<>> /\ Last(frames[p]) = f
  BY <1>1, <1>2 DEF RootInv, FormInv, Last
<1>4. /\ Len(frames'[p]) = d - 1
      /\ \A i \in 1..d - 1 : frames'[p][i] = frames[p][i]
  BY <1>1, <1>2, <1>3, Shortened DEF RootInv, RootTypes
<1>5. pc'[p] = "run"
  BY <1>1 DEF RootInv, RootTypes
<1>6. \A i : Gone(p, i)' = Gone(p, i)
  BY <1>1, <1>5 DEF Gone
<1>7. ASSUME NEW j, NEW y PROVE ~Holds(p, d, j, <<v, y>>)
  <2> SUFFICES ASSUME Holds(p, d, j, <<v, y>>) PROVE FALSE
    OBVIOUS
  <2>1. <<v, y>> \in Elems(f.pushed) /\ <<v, y>>[1] = v
    BY DEF Holds, Elems
  <2> QED  BY <1>1, <1>3, <2>1
<1>8. ASSUME NEW i, NEW j, NEW y
      PROVE  Holds(p, i, j, <<v, y>>)' <=> Holds(p, i, j, <<v, y>>)
  <2>1. CASE i \in 1..d - 1
    <3>1. i \in 1..d /\ frames'[p][i] = frames[p][i]
      BY <1>2, <1>4, <2>1
    <3> QED  BY <1>4, <1>6, <2>1, <3>1 DEF Holds
  <2>2. CASE i \notin 1..d - 1
    <3>1. i \in 1..d => i = d
      BY <1>2, <2>2
    <3> QED  BY <1>4, <1>7, <2>2, <3>1 DEF Holds
  <2> QED  BY <2>1, <2>2
<1> QED  BY <1>8

\* p pushes x for v, at place m of its form d, above all it has pushed.
Pushes(p, d, m, v, x) ==
    /\ d = Len(frames[p]) /\ m = Len(frames[p][d].pushed) + 1
    /\ v = frames[p][d].vs[m] /\ x = <<p, ops[p]>>

HoldsMore(p, d, m, v, x) ==
    /\ d \in Nat /\ m \in Nat /\ v \in Vars /\ v # None /\ x \in Values
    /\ \A i, j, b : Holds(p, i, j, b)' <=> Holds(p, i, j, b) \/ (i = d /\ j = m /\ b = <<v, x>>)
    /\ \A i, j, b : Holds(p, i, j, b) => i < d \/ (i = d /\ j < m)
    /\ \A i, j, b : Holds(p, i, j, b) => i \in Nat /\ j \in Nat

\* A push adds the innermost binding.
LEMMA HoldsPush ==
    ASSUME RootInv, NEW p \in Procs, Push(p), NEW d, NEW m, NEW v, NEW x,
           Pushes(p, d, m, v, x)
    PROVE  HoldsMore(p, d, m, v, x)
<1>0. d = Len(frames[p]) /\ m = Len(frames[p][d].pushed) + 1 /\ x = <<p, ops[p]>>
      /\ v = frames[p][d].vs[m]
  BY DEF Pushes
<1> DEFINE f == frames[p][d]
<1>1. /\ d \in Nat /\ d > 0 /\ m \in Nat /\ m > 0 /\ v \in Vars /\ v # None /\ x \in Values
      /\ Len(frames'[p]) = d /\ \A i \in 1..d - 1 : frames'[p][i] = frames[p][i]
      /\ Len(frames'[p][d].pushed) = m /\ frames'[p][d].pushed[m] = <<v, x>>
      /\ \A j \in 1..m - 1 : frames'[p][d].pushed[j] = f.pushed[j]
  BY <1>0, PushForms
<1>2. pc[p] = "push" /\ pc'[p] \in {"add", "push", "run"}
  <2>1. pc[p] = "push" /\ \E w \in {"add", "push", "run"} : pc' = [pc EXCEPT ![p] = w]
    BY DEF Push, AfterPush
  <2> QED  BY <2>1 DEF RootInv, RootTypes
<1>3. \A i : Gone(p, i) = 0 /\ Gone(p, i)' = 0
  BY <1>2 DEF Gone
<1>4. Len(f.pushed) = m - 1
  <2>4. d \in Nat /\ d > 0
    BY <1>1
  <2>5. d = Len(frames[p])
    BY <1>0
  <2>0. d \in 1..Len(frames[p])
    BY <2>4, <2>5
  <2>1. f \in FormType
    BY <2>0, FormOf DEF RootInv
  <2>2. Len(f.pushed) \in Nat
    BY <2>1, FormFields
  <2> HIDE DEF f
  <2>3. m = Len(f.pushed) + 1
    BY <1>0 DEF f
  <2> QED  BY <2>2, <2>3
<1>5. ASSUME NEW i, NEW j, NEW b
      PROVE  /\ Holds(p, i, j, b) <=> /\ i \in 1..d /\ j \in Int
                                      /\ j \in 1..Len(frames[p][i].pushed)
                                      /\ frames[p][i].pushed[j] = b
             /\ Holds(p, i, j, b)' <=> /\ i \in 1..d /\ j \in Int
                                       /\ j \in 1..Len(frames'[p][i].pushed)
                                       /\ frames'[p][i].pushed[j] = b
  <2>1. j \in Int => j - 0 = j
    OBVIOUS
  <2>2. Len(frames[p]) = d /\ Len(frames'[p]) = d
    BY <1>0, <1>1
  <2> QED  BY <1>3, <2>1, <2>2 DEF Holds
<1>6. ASSUME NEW i, NEW j, NEW b
      PROVE  Holds(p, i, j, b)' <=> Holds(p, i, j, b) \/ (i = d /\ j = m /\ b = <<v, x>>)
  <2>1. CASE i \in 1..d - 1
    <3>1. i # d /\ frames'[p][i] = frames[p][i]
      BY <1>1, <2>1
    <3> QED  BY <1>5, <3>1
  <2>2. CASE i = d
    <3>1. j \in 1..m <=> j \in 1..(m - 1) \/ j = m
      BY <1>1
    <3>2. m \notin 1..(m - 1) /\ d \in 1..d /\ \A k \in 1..m : k \in Int
      BY <1>1
    <3>3. Holds(p, d, j, b) <=> j \in 1..(m - 1) /\ f.pushed[j] = b
      BY <1>4, <1>5, <3>2
    <3>4. Holds(p, d, j, b)' <=> j \in 1..m /\ frames'[p][d].pushed[j] = b
      BY <1>1, <1>5, <3>2
    <3>5. m \in Nat /\ frames'[p][d].pushed[m] = <<v, x>>
          /\ \A k \in 1..m - 1 : frames'[p][d].pushed[k] = f.pushed[k]
      BY <1>1
    <3> HIDE DEF f
    <3> QED  BY <2>2, <3>1, <3>2, <3>3, <3>4, <3>5
  <2>3. CASE i \notin 1..d
    <3>1. i # d
      BY <1>1, <2>3
    <3> QED  BY <1>5, <2>3, <3>1
  <2>4. i \in 1..d - 1 \/ i = d \/ i \notin 1..d
    BY <1>1
  <2> QED  BY <2>1, <2>2, <2>3, <2>4
<1>7. ASSUME NEW i, NEW j, NEW b, Holds(p, i, j, b)
      PROVE  (i < d \/ (i = d /\ j < m)) /\ i \in Nat /\ j \in Nat
  <2>1. i \in 1..d /\ j \in 1..Len(frames[p][i].pushed)
    BY <1>5, <1>7
  <2>2. Len(frames[p][i].pushed) \in Nat
    BY <1>0, <2>1, FormPlaces
  <2>3. i \in Nat /\ j \in Nat /\ (i < d \/ i = d)
    BY <1>1, <2>1, <2>2
  <2>4. i = d => j \in 1..(m - 1)
    BY <1>4, <2>1
  <2> QED  BY <1>1, <2>3, <2>4
<1> QED  BY <1>1, <1>6, <1>7 DEF HoldsMore

\* p pops v, which it has at place e + 1 of its form d; below all others there.
HoldsLess(p, d, e, v) ==
    /\ d \in Nat /\ e \in Nat /\ v \in Vars /\ v # None
    /\ \A i, j, b : Holds(p, i, j, b)' <=> Holds(p, i, j, b) /\ ~(i = d /\ j = e + 1)
    /\ \E y : Holds(p, d, e + 1, <<v, y>>)
    /\ \A i, j, b : Holds(p, i, j, b) => i \in Nat /\ j \in Nat /\ i <= d
    /\ \A j, b : Holds(p, d, j, b) => j >= e + 1 /\ j <= Len(frames[p][d].vs)
    /\ frames[p][d].vs[e + 1] = v /\ e + 1 <= Len(frames[p][d].vs)
    /\ Len(frames[p][d].vs) \in Nat

\* A pop takes the first binding of the innermost form.
LEMMA HoldsPop ==
    ASSUME RootInv, NEW p \in Procs, Pop(p), NEW d, NEW m, NEW e, NEW v,
           Popped(p, d, m, e, v)
    PROVE  HoldsLess(p, d, e, v)
<1>0. PopResult(p, d, m, e, v)
  BY PopForms
<1> DEFINE f == frames[p][d]
<1>1. /\ frames[p] \in Seq(FormType) /\ d \in Nat /\ d > 0 /\ m \in Nat /\ m > 0
      /\ Len(f.vs) \in Nat /\ e \in Nat /\ e = Len(f.vs) - m
      /\ v \in Vars /\ v # None /\ f.vs[e + 1] = v
      /\ \A i \in 1..d - 1 : frames'[p][i] = frames[p][i]
      /\ m = 1 => Len(frames'[p]) = d - 1
      /\ m > 1 => /\ Len(frames'[p]) = d /\ frames'[p][d].vs = f.vs
                  /\ Len(frames'[p][d].pushed) = m - 1
                  /\ \A j \in 1..m - 1 : frames'[p][d].pushed[j] = f.pushed[j + 1]
      /\ pc' = [pc EXCEPT ![p] = IF p \in Roots /\ Len(chain[v]) = 1 THEN "remove"
                                 ELSE IF m > 1 THEN "pop" ELSE "run"]
  BY <1>0 DEF PopResult
<1>2. pc[p] = "pop" /\ d = Len(frames[p]) /\ m = Len(f.pushed) /\ e = Gone(p, d)
      /\ v = f.pushed[1][1] /\ FormInv(p)
  BY DEF Pop, Popped, RootInv
<1>3. pc'[p] \in {"remove", "pop", "run"} /\ (m > 1 => pc'[p] \in {"remove", "pop"})
  BY <1>1 DEF RootInv, RootTypes
<1>14. d \in Nat /\ d > 0 /\ m \in Nat /\ m > 0 /\ e \in Nat /\ (m = 1 \/ m > 1)
  BY <1>1
<1>4. ASSUME NEW i \in 1..d - 1 PROVE Gone(p, i) = 0 /\ Gone(p, i)' = 0
  <2>1. i \in 1..d /\ i # d /\ i < d
    BY <1>1
  <2>2. frames[p][i] \in FormType
    BY <1>2, <2>1, FormOf DEF RootInv
  <2>3. Len(frames[p][i].pushed) = Len(frames[p][i].vs) /\ Len(frames[p][i].vs) \in Nat
    BY <1>2, <2>1, <2>2, FormFields DEF FormInv
  <2>4. Gone(p, i) = 0
    BY <1>2, <2>1 DEF Gone
  <2>5. frames'[p][i] = frames[p][i]
    BY <1>1
  <2>6. Len(frames'[p][i].vs) - Len(frames'[p][i].pushed) = 0
    BY <2>3, <2>5
  <2> QED  BY <2>4, <2>6 DEF Gone
<1>5. ASSUME NEW i, NEW j, NEW b, Holds(p, i, j, b)
      PROVE  /\ i \in Nat /\ j \in Nat /\ i <= d
             /\ i = d => j >= e + 1 /\ j <= Len(f.vs)
  <2>1. i \in 1..d /\ j \in Int /\ j - Gone(p, i) \in 1..Len(frames[p][i].pushed)
    BY <1>2, <1>5 DEF Holds
  <2>2. Gone(p, i) \in Nat /\ Len(frames[p][i].pushed) \in Nat
    BY <1>2, <2>1, FormPlaces
  <2>3. j \in Nat /\ i \in Nat /\ i <= d
    BY <1>1, <2>1, <2>2
  <2>4. ASSUME i = d PROVE j >= e + 1 /\ j <= Len(f.vs)
    <3>1. j - e \in 1..m
      BY <1>2, <2>1, <2>4
    <3>2. j - e >= 1 /\ j - e <= m
      BY <1>14, <3>1
    <3>3. e \in Nat /\ m \in Nat /\ Len(f.vs) \in Nat /\ e = Len(f.vs) - m
      BY <1>1
    <3> HIDE DEF f
    <3> QED  BY <2>1, <3>2, <3>3
  <2> QED  BY <2>3, <2>4
<1>6. /\ Holds(p, d, e + 1, <<v, f.pushed[1][2]>>)
      /\ \A b : Holds(p, d, e + 1, b) => b = f.pushed[1]
  <2>1. d \in 1..d /\ 1 \in 1..m /\ (e + 1) - e = 1 /\ e + 1 \in Int
    BY <1>14
  <2>2. f.pushed[1] \in Pairs
    BY <1>2, <2>1, FormPlaces
  <2>3. f.pushed[1] = <<v, f.pushed[1][2]>>
    BY <1>2, <2>2 DEF Pairs
  <2> QED  BY <1>2, <2>1, <2>3 DEF Holds
<1>7. ASSUME NEW i \in 1..d - 1, NEW j, NEW b
      PROVE  /\ Holds(p, i, j, b)' <=> Holds(p, i, j, b)
             /\ i # d
  <2>1. i \in 1..Len(frames'[p]) /\ i \in 1..Len(frames[p])
    <3>1. Len(frames'[p]) \in {d - 1, d} /\ Len(frames[p]) = d
      BY <1>1, <1>2, <1>14
    <3> QED  BY <1>14, <3>1
  <2>2. frames'[p][i] = frames[p][i] /\ i # d
    BY <1>1
  <2> QED  BY <1>4, <2>1, <2>2 DEF Holds
<1>8. ASSUME NEW i, NEW j, NEW b
      PROVE  Holds(p, i, j, b)' <=> Holds(p, i, j, b) /\ ~(i = d /\ j = e + 1)
  <2>1. CASE i \in 1..d - 1
    BY <1>7, <2>1
  <2>2. CASE i \notin 1..d
    <3>1. i \notin 1..Len(frames'[p])
      <4>1. Len(frames'[p]) \in {d - 1, d}
        BY <1>1, <1>14
      <4> QED  BY <1>14, <2>2, <4>1
    <3> QED  BY <1>2, <2>2, <3>1 DEF Holds
  <2>3. CASE i = d /\ m = 1
    <3>1. d \notin 1..Len(frames'[p])
      BY <1>1, <2>3
    <3>2. ~Holds(p, d, j, b)'
      BY <3>1 DEF Holds
    <3>3. Holds(p, d, j, b) => j = e + 1
      BY <1>2, <1>14, <2>3 DEF Holds
    <3> QED  BY <2>3, <3>2, <3>3
  <2>4. CASE i = d /\ m > 1
    <3>1. Gone(p, d)' = e + 1
      <4>1. pc'[p] \in {"pop", "remove"}
        BY <1>3, <2>4
      <4>2. /\ Len(frames'[p]) = d /\ Len(frames'[p][d].vs) = Len(f.vs)
            /\ Len(frames'[p][d].pushed) = m - 1 /\ e = Len(f.vs) - m /\ Len(f.vs) \in Nat
        BY <1>1, <2>4
      <4>3. Len(f.vs) - (m - 1) = e + 1
        <5> HIDE DEF f
        <5> QED  BY <1>14, <4>2
      <4> QED  BY <4>1, <4>2, <4>3 DEF Gone
    <3>2. Holds(p, d, j, b)' <=>
            j \in Int /\ j - (e + 1) \in 1..(m - 1) /\ f.pushed[(j - (e + 1)) + 1] = b
      <4>1. /\ Len(frames'[p]) = d /\ d \in 1..d
            /\ Len(frames'[p][d].pushed) = m - 1
            /\ \A k \in 1..m - 1 : frames'[p][d].pushed[k] = f.pushed[k + 1]
        <5>1. d \in 1..d
          BY <1>14
        <5> QED  BY <1>1, <2>4, <5>1
      <4>2. Holds(p, d, j, b)' <=>
              j \in Int /\ j - (e + 1) \in 1..(m - 1) /\ frames'[p][d].pushed[j - (e + 1)] = b
        BY <3>1, <4>1 DEF Holds
      <4> HIDE DEF f
      <4> QED  BY <4>1, <4>2
    <3>3. Holds(p, d, j, b) <=> j \in Int /\ j - e \in 1..m /\ f.pushed[j - e] = b
      <4>1. d \in 1..d
        BY <1>14
      <4> QED  BY <1>2, <4>1 DEF Holds
    <3>4. j \in Int => /\ (j - (e + 1)) + 1 = j - e
                       /\ j - (e + 1) \in 1..(m - 1) <=> j - e \in 1..m /\ j # e + 1
      BY <1>14
    <3> QED  BY <2>4, <3>2, <3>3, <3>4
  <2>5. i \in 1..d - 1 \/ i \notin 1..d \/ i = d
    BY <1>14
  <2> QED  BY <1>14, <2>1, <2>2, <2>3, <2>4, <2>5
<1>9. e + 1 <= Len(f.vs)
  <2>1. Len(f.vs) \in Nat /\ e = Len(f.vs) - m
    BY <1>1
  <2> HIDE DEF f
  <2> QED  BY <1>14, <2>1
<1>10. /\ \A i, j, b : Holds(p, i, j, b) => i \in Nat /\ j \in Nat /\ i <= d
       /\ \A j, b : Holds(p, d, j, b) => j >= e + 1 /\ j <= Len(f.vs)
  BY <1>5
<1> QED  BY <1>1, <1>6, <1>8, <1>9, <1>10 DEF HoldsLess

-----------------------------------------------------------------------------
(* The innermost binding.                                                  *)

Mine(p, v) == {i \in 1..Len(frames[p]) : At(frames[p][i].pushed, v) # {}}
TopForm(p, v) == CHOOSE i \in Mine(p, v) : \A j \in Mine(p, v) : j <= i
TopPlace(p, v) == TopOf(frames[p][TopForm(p, v)].pushed, v)

\* The innermost binding of v that p has live is the n-th of form i.
Innermost(p, v, i, n) ==
    /\ i \in 1..Len(frames[p]) /\ n \in 1..Len(frames[p][i].pushed)
    /\ i \in Nat /\ n \in Nat /\ Gone(p, i) \in Nat
    /\ \E y \in Values : frames[p][i].pushed[n] = <<v, y>>
    /\ \A k, j, y : Holds(p, k, j, <<v, y>>)
          => k \in Nat /\ j \in Nat /\ (k < i \/ (k = i /\ j <= Gone(p, i) + n))

\* A form that holds a binding of v is one of those OwnBinding looks at.
LEMMA HoldsMine ==
    ASSUME RootInv, NEW p \in Procs, NEW v, NEW k, NEW j, NEW y, Holds(p, k, j, <<v, y>>)
    PROVE  /\ k \in Mine(p, v) /\ k \in Nat /\ j \in Nat /\ Gone(p, k) \in Nat
           /\ j - Gone(p, k) \in At(frames[p][k].pushed, v)
<1>1. /\ k \in 1..Len(frames[p]) /\ j \in Int
      /\ j - Gone(p, k) \in 1..Len(frames[p][k].pushed)
      /\ frames[p][k].pushed[j - Gone(p, k)] = <<v, y>>
  BY DEF Holds
<1>2. k \in Nat /\ Gone(p, k) \in Nat /\ Len(frames[p][k].pushed) \in Nat
  BY <1>1, FormPlaces
<1>3. j \in Nat
  BY <1>1, <1>2
<1>4. j - Gone(p, k) \in At(frames[p][k].pushed, v)
  BY <1>1 DEF At
<1> QED  BY <1>1, <1>2, <1>3, <1>4 DEF Mine

\* OwnBinding finds the innermost live binding.
LEMMA TopIs ==
    ASSUME RootInv, NEW p \in Procs, NEW v, Mine(p, v) # {}
    PROVE  Innermost(p, v, TopForm(p, v), TopPlace(p, v))
<1> DEFINE T == Mine(p, v)  d == Len(frames[p])  i == TopForm(p, v)
           s == frames[p][i].pushed  n == TopPlace(p, v)
<1>1. T \in SUBSET (1..d) /\ T # {} /\ d \in Nat
  BY FormOf DEF RootInv, Mine
<1>2. i \in T /\ \A k \in T : k <= i
  <2>1. \E x \in T : \A k \in T : k <= x
    <3> HIDE DEF T, d
    <3> QED  BY <1>1, HasMax
  <2> QED  BY <2>1 DEF TopForm
<1>3. i \in 1..d /\ At(s, v) # {} /\ i \in Nat
  BY <1>1, <1>2 DEF Mine
<1>4. frames[p][i] \in FormType
  BY <1>3, FormOf DEF RootInv
<1>5. s \in Seq(Pairs)
  BY <1>4, FormFields
<1> HIDE DEF i, s
<1>6. n = TopOf(s, v) /\ n \in At(s, v) /\ \A j \in At(s, v) : j <= n
  <2>1. n = TopOf(s, v)
    BY DEF TopPlace, i, s
  <2> QED  BY <1>3, <1>5, <2>1, TopAt
<1>7. n \in 1..Len(s) /\ s[n][1] = v /\ s[n] \in Pairs /\ n \in Nat
  <2>1. Len(s) \in Nat
    BY <1>5
  <2>2. n \in 1..Len(s) /\ s[n][1] = v
    BY <1>6 DEF At
  <2> QED  BY <1>5, <2>1, <2>2
<1> HIDE DEF n
<1>8. \E y \in Values : s[n] = <<v, y>>
  BY <1>7 DEF Pairs
<1>9. ASSUME NEW k, NEW j, NEW y, Holds(p, k, j, <<v, y>>)
      PROVE  k \in Nat /\ j \in Nat /\ (k < i \/ (k = i /\ j <= Gone(p, i) + n))
  <2>1. /\ k \in T /\ k \in Nat /\ j \in Nat /\ Gone(p, k) \in Nat
        /\ j - Gone(p, k) \in At(frames[p][k].pushed, v)
    BY <1>9, HoldsMine
  <2>2. k <= i
    BY <1>2, <2>1
  <2>3. CASE k = i
    <3>1. j - Gone(p, i) <= n
      BY <1>6, <2>1, <2>3 DEF s
    <3> QED  BY <1>7, <2>1, <2>3, <3>1
  <2>4. CASE k # i
    BY <1>3, <2>1, <2>2, <2>4
  <2> QED  BY <2>3, <2>4
<1>10. Gone(p, i) \in Nat
  BY <1>3, FormPlaces
<1> QED  BY <1>3, <1>7, <1>8, <1>9, <1>10 DEF Innermost, i, s, n

TopHolds(p, v, i, n, c, y) ==
    c = Gone(p, i) + n /\ Holds(p, i, c, <<v, y>>) /\ frames[p][i].pushed[n] = <<v, y>>

\* The innermost place is a live one.
LEMMA InnermostHolds ==
    ASSUME NEW p, NEW v, NEW i, NEW n, Innermost(p, v, i, n)
    PROVE  \E c : \E y \in Values : TopHolds(p, v, i, n, c, y)
<1>0. PICK c : c = Gone(p, i) + n
  OBVIOUS
<1>1. Gone(p, i) \in Nat /\ n \in Nat /\ i \in 1..Len(frames[p])
      /\ n \in 1..Len(frames[p][i].pushed)
  BY DEF Innermost
<1>2. c - Gone(p, i) = n /\ c \in Int
  BY <1>0, <1>1
<1>3. PICK y \in Values : frames[p][i].pushed[n] = <<v, y>>
  BY DEF Innermost
<1> QED  BY <1>0, <1>1, <1>2, <1>3 DEF Holds, TopHolds

\* What the property calls a thread's own binding.
LEMMA OwnIs ==
    ASSUME RootInv, NEW p \in Procs, NEW v \in PushedVars(p)
    PROVE  \E t \in Open(p, v) :
              /\ Above(p, v, t) = {} /\ ValueAt(p, t) = OwnBinding(p, v)
<1>1. PICK u : u \in Open(p, v)
  BY PushedOpen DEF PushedIsOpen
<1>2. PICK z : Holds(p, u[1], u[2], <<v, z>>)
  BY <1>1, OpenHold DEF OpenHolds, HoldsAt
<1>3. Mine(p, v) # {}
  BY <1>2, HoldsMine
<1>12. PICK i, n : i = TopForm(p, v) /\ n = TopPlace(p, v)
  OBVIOUS
<1>4. Innermost(p, v, i, n)
  BY <1>3, <1>12, TopIs
<1>5. OwnBinding(p, v) = frames[p][i].pushed[n][2]
  BY <1>12 DEF OwnBinding, TopPlace, TopForm, Mine
<1>13. PICK j : \E y \in Values : TopHolds(p, v, i, n, j, y)
  BY <1>4, InnermostHolds
<1>14. PICK y \in Values : TopHolds(p, v, i, n, j, y)
  BY <1>13
<1>11. j = Gone(p, i) + n
  BY <1>14 DEF TopHolds
<1>6. Holds(p, i, j, <<v, y>>) /\ frames[p][i].pushed[n] = <<v, y>>
  BY <1>14 DEF TopHolds
<1> DEFINE t == <<i, j>>
<1>7. t[1] = i /\ t[2] = j /\ t = <<t[1], t[2]>>
  OBVIOUS
<1> HIDE DEF t
<1>8. ValueAt(p, t) = y
  BY <1>6, <1>7 DEF ValueAt, Holds
<1>9. t \in Open(p, v)
  BY <1>6, <1>7, <1>8, OpenHold DEF OpenHolds, HoldsAt
<1>10. ASSUME NEW w \in Above(p, v, t) PROVE FALSE
  <2>1. w \in Open(p, v) /\ (w[1] > i \/ (w[1] = i /\ w[2] > j))
    BY <1>7, <1>10 DEF Above
  <2>2. PICK x : Holds(p, w[1], w[2], <<v, x>>)
    BY <2>1, OpenHold DEF OpenHolds, HoldsAt
  <2>3. w[1] \in Nat /\ w[2] \in Nat /\ (w[1] < i \/ (w[1] = i /\ w[2] <= j))
    BY <1>4, <1>11, <2>2 DEF Innermost
  <2>4. i \in Nat /\ j \in Nat
    BY <1>4, <1>11 DEF Innermost
  <2> QED  BY <2>1, <2>3, <2>4
<1> QED  BY <1>5, <1>6, <1>8, <1>9, <1>10

\* set! gives the innermost live binding of v, if there is one, the value x.
HoldsNew(p, v, x) ==
    \/ /\ \A i, j, b : Holds(p, i, j, b)' <=> Holds(p, i, j, b)
       /\ \A i, j, y : ~Holds(p, i, j, <<v, y>>)
    \/ \E a, c : \E y \in Values :
          /\ Holds(p, a, c, <<v, y>>) /\ a \in Nat /\ c \in Nat
          /\ \A i, j, b : Holds(p, i, j, b)' <=>
                IF i = a /\ j = c THEN b = <<v, x>> ELSE Holds(p, i, j, b)
          /\ \A i, j, z : Holds(p, i, j, <<v, z>>)
                => i \in Nat /\ j \in Nat /\ (i < a \/ (i = a /\ j <= c))

\* set! gives the innermost live binding another value.
LEMMA HoldsSet ==
    ASSUME RootInv, NEW p \in Procs, NEW v \in Vars, SetCurrent(p, v),
           NEW x \in Values, x = <<p, ops[p] + 1>>
    PROVE  HoldsNew(p, v, x)
<1> DEFINE d == Len(frames[p])
<1>1. pc[p] = "run" /\ pc' = pc
  BY DEF SetCurrent, Starts
<1>2. \A i : Gone(p, i) = 0 /\ Gone(p, i)' = 0
  BY <1>1 DEF Gone
<1>3. frames' = IF Mine(p, v) = {} THEN frames
                ELSE [frames EXCEPT ![p][TopForm(p, v)].pushed[TopPlace(p, v)] = <<v, x>>]
  <2>1. \A i : {k \in 1..Len(frames[p][i].pushed) : frames[p][i].pushed[k][1] = v}
                  = At(frames[p][i].pushed, v)
    BY DEF At
  <2>2. Mine(p, v) = {i \in 1..d : At(frames[p][i].pushed, v) # {}}
    BY DEF Mine
  <2>3. CASE Mine(p, v) = {}
    BY <2>1, <2>2, <2>3 DEF SetCurrent
  <2>4. CASE Mine(p, v) # {}
    <3> DEFINE at(f) == {i \in 1..Len(f.pushed) : f.pushed[i][1] = v}
               mine == {i \in 1..d : at(frames[p][i]) # {}}
               k == CHOOSE i \in mine : \A j \in mine : j <= i
               n == CHOOSE n \in at(frames[p][k]) : \A m \in at(frames[p][k]) : m <= n
    <3>1. mine = Mine(p, v)
      BY DEF Mine, At
    <3>2. frames' = [frames EXCEPT ![p][k].pushed[n] = <<v, x>>]
      BY <2>4, <3>1 DEF SetCurrent
    <3>3. k = TopForm(p, v)
      <4> HIDE DEF mine
      <4> QED  BY <3>1 DEF TopForm
    <3>4. at(frames[p][k]) = At(frames[p][k].pushed, v)
      <4> HIDE DEF k
      <4> QED  BY DEF At
    <3>5. At(frames[p][k].pushed, v) # {}
      <4>2. Innermost(p, v, TopForm(p, v), TopPlace(p, v))
        BY <2>4, TopIs
      <4>3. TopForm(p, v) \in Mine(p, v)
        BY <4>2, InnermostHolds, HoldsMine DEF TopHolds
      <4> QED  BY <3>3, <4>3 DEF Mine
    <3>6. n = TopPlace(p, v)
      <4> DEFINE T == At(frames[p][k].pushed, v)
      <4>1. TopPlace(p, v) = TopOf(frames[p][k].pushed, v)
        BY <3>3 DEF TopPlace
      <4>2. TopPlace(p, v) = CHOOSE i \in T : \A j \in T : j <= i
        <5> HIDE DEF k
        <5> QED  BY <3>5, <4>1 DEF TopOf
      <4>3. T = at(frames[p][k])
        BY <3>4
      <4> HIDE DEF T, at
      <4> QED  BY <4>2, <4>3
    <3> HIDE DEF k, n
    <3> QED  BY <2>4, <3>2, <3>3, <3>6
  <2> QED  BY <2>3, <2>4
<1>4. ASSUME Mine(p, v) = {}
      PROVE  /\ \A i, j, b : Holds(p, i, j, b)' <=> Holds(p, i, j, b)
             /\ \A i, j, y : ~Holds(p, i, j, <<v, y>>)
  <2>1. frames'[p] = frames[p]
    BY <1>3, <1>4
  <2>2. \A i, j, b : Holds(p, i, j, b)' <=> Holds(p, i, j, b)
    BY <1>2, <2>1, HoldsSame
  <2>3. \A i, j, y : ~Holds(p, i, j, <<v, y>>)
    BY <1>4, HoldsMine
  <2> QED  BY <2>2, <2>3
<1>5. ASSUME Mine(p, v) # {}
      PROVE  \E a, c : \E y \in Values :
          /\ Holds(p, a, c, <<v, y>>) /\ a \in Nat /\ c \in Nat
          /\ \A i, j, b : Holds(p, i, j, b)' <=>
                IF i = a /\ j = c THEN b = <<v, x>> ELSE Holds(p, i, j, b)
          /\ \A i, j, z : Holds(p, i, j, <<v, z>>)
                => i \in Nat /\ j \in Nat /\ (i < a \/ (i = a /\ j <= c))
  <2>0. PICK a, n : a = TopForm(p, v) /\ n = TopPlace(p, v)
    OBVIOUS
  <2>1. Innermost(p, v, a, n)
    BY <1>5, <2>0, TopIs
  <2>2. frames' = [frames EXCEPT ![p][a].pushed[n] = <<v, x>>]
    BY <1>3, <1>5, <2>0
  <2> DEFINE f == frames[p][a]
             e == [f.pushed EXCEPT ![n] = <<v, x>>]
             h == [f EXCEPT !.pushed = e]
  <2>3. /\ a \in 1..d /\ n \in 1..Len(f.pushed) /\ a \in Nat /\ n \in Nat
        /\ \A k, j, y : Holds(p, k, j, <<v, y>>)
              => k \in Nat /\ j \in Nat /\ (k < a \/ (k = a /\ j <= 0 + n))
    BY <1>2, <2>1 DEF Innermost
  <2>4. f \in FormType /\ f.pushed \in Seq(Pairs) /\ <<v, x>> \in Pairs
        /\ frames[p] \in Seq(FormType) /\ d \in Nat
    BY <2>3, FormOf, FormFields DEF RootInv, Pairs
  <2>5. Len(e) = Len(f.pushed) /\ e[n] = <<v, x>>
        /\ \A j \in 1..Len(f.pushed) : j # n => e[j] = f.pushed[j]
    <3> HIDE DEF f
    <3> QED  BY <2>3, <2>4, ExceptSeq
  <2>6. h.pushed = e /\ h \in FormType
    <3>1. e \in Seq(Pairs)
      <4> HIDE DEF f
      <4> QED  BY <2>3, <2>4, ExceptSeq
    <3> QED  BY <2>4, <3>1 DEF FormType
  <2>7. frames'[p] = [frames[p] EXCEPT ![a] = h]
    BY <2>2 DEF RootInv, RootTypes
  <2> HIDE DEF h, e
  <2>8. Len(frames'[p]) = d /\ frames'[p][a] = h /\ \A k \in 1..d : k # a => frames'[p][k] = frames[p][k]
    BY <2>3, <2>4, <2>6, <2>7, ExceptSeq
  <2>9. ASSUME NEW i, NEW j, NEW b
        PROVE  /\ Holds(p, i, j, b) <=> /\ i \in 1..d /\ j \in Int
                                        /\ j \in 1..Len(frames[p][i].pushed)
                                        /\ frames[p][i].pushed[j] = b
               /\ Holds(p, i, j, b)' <=> /\ i \in 1..d /\ j \in Int
                                         /\ j \in 1..Len(frames'[p][i].pushed)
                                         /\ frames'[p][i].pushed[j] = b
    <3>1. j \in Int => j - 0 = j
      OBVIOUS
    <3> QED  BY <1>2, <2>8, <3>1 DEF Holds
  <2>10. ASSUME NEW i, NEW j, NEW b
         PROVE  Holds(p, i, j, b)' <=> IF i = a /\ j = n THEN b = <<v, x>> ELSE Holds(p, i, j, b)
    <3>1. CASE i = a
      <4>0. a \in 1..d /\ n \in 1..Len(f.pushed) /\ n \in Int
        BY <2>3
      <4>1. frames'[p][a].pushed = e
        BY <2>6, <2>8
      <4>7. Holds(p, a, j, b)' <=> /\ a \in 1..d /\ j \in Int
                                   /\ j \in 1..Len(frames'[p][a].pushed)
                                   /\ frames'[p][a].pushed[j] = b
        BY <2>9
      <4>2. Holds(p, a, j, b)' <=> j \in 1..Len(e) /\ e[j] = b /\ j \in Int
        BY <4>0, <4>1, <4>7
      <4>3. Holds(p, a, j, b) <=> j \in 1..Len(f.pushed) /\ f.pushed[j] = b /\ j \in Int
        BY <2>9, <4>0
      <4>8. /\ Len(e) = Len(f.pushed) /\ e[n] = <<v, x>>
            /\ \A m \in 1..Len(f.pushed) : m # n => e[m] = f.pushed[m]
        BY <2>5
      <4> HIDE DEF f
      <4>5. CASE j = n
        <5>1. Holds(p, a, n, b)' <=> e[n] = b
          BY <4>0, <4>2, <4>5, <4>8
        <5> QED  BY <3>1, <4>5, <4>8, <5>1
      <4>6. CASE j # n
        <5>1. Holds(p, a, j, b)' <=> Holds(p, a, j, b)
          BY <4>2, <4>3, <4>6, <4>8
        <5> QED  BY <3>1, <4>6, <5>1
      <4> QED  BY <4>5, <4>6
    <3>2. CASE i # a
      BY <2>8, <2>9, <3>2
    <3> QED  BY <3>1, <3>2
  <2>11. PICK y \in Values : Holds(p, a, n, <<v, y>>)
    <3>1. PICK c : \E y \in Values : c = Gone(p, a) + n /\ Holds(p, a, c, <<v, y>>)
      BY <2>1, InnermostHolds DEF TopHolds
    <3>2. Gone(p, a) + n = n
      BY <1>2, <2>3
    <3> QED  BY <3>1, <3>2
  <2>12. 0 + n = n
    BY <2>3
  <2> QED  BY <2>3, <2>10, <2>11, <2>12
<1> QED  BY <1>4, <1>5 DEF HoldsNew

-----------------------------------------------------------------------------
(* Bindings and what the thread sees of them stay in step.                 *)

\* y is the value that is n from the top of s.
StandsAt(s, n, y) == n < Len(s) /\ s[Len(s) - n] = y
Stands(p, v, t) == StandsAt(Seen(p)[v], Cardinality(Above(p, v, t)), ValueAt(p, t))
OwnAt(p, v) == \A t \in Open(p, v) : Counts(p, v, t) => Stands(p, v, t)

\* What a push does to the distance of a value from the top ...
LEMMA StandsPush ==
    ASSUME NEW s \in Seq(Values), NEW n \in Nat, NEW x \in Values, NEW y, NEW r, r = Append(s, x)
    PROVE  /\ StandsAt(s, n, y) => StandsAt(r, n + 1, y)
           /\ StandsAt(r, 0, x)
<1>1. /\ Len(r) = Len(s) + 1 /\ r[Len(s) + 1] = x /\ \A i \in 1..Len(s) : r[i] = s[i]
  BY Grown
<1>2. PICK l \in Nat : l = Len(s)
  OBVIOUS
<1>3. Len(r) = l + 1 /\ r[l + 1] = x /\ \A i \in 1..l : r[i] = s[i]
  BY <1>1, <1>2
<1>4. (l + 1) - 0 = l + 1 /\ 0 < l + 1
  BY <1>2
<1>5. ASSUME n < l PROVE l - n \in 1..l /\ (l + 1) - (n + 1) = l - n /\ n + 1 < l + 1
  BY <1>5
<1> QED  BY ONLY <1>2, <1>3, <1>4, <1>5 DEF StandsAt

\* ... what a pop does ...
LEMMA StandsPop ==
    ASSUME NEW s \in Seq(Values), NEW n \in Nat, NEW y, StandsAt(s, n + 1, y),
           NEW r, r = Front(s)
    PROVE  s # <<>> /\ StandsAt(r, n, y)
<1>1. PICK l \in Nat : l = Len(s)
  OBVIOUS
<1>2. n + 1 < l /\ s[l - (n + 1)] = y
  BY <1>1 DEF StandsAt
<1>3. s # <<>>
  BY <1>1, <1>2
<1>4. Len(r) = l - 1 /\ \A i \in 1..l - 1 : r[i] = s[i]
  BY <1>1, <1>3, Shortened
<1>5. l - (n + 1) \in 1..l - 1 /\ (l - 1) - n = l - (n + 1) /\ n < l - 1
  BY <1>2
<1> QED  BY <1>2, <1>3, <1>4, <1>5 DEF StandsAt

\* ... and what an assignment does.
LEMMA StandsSet ==
    ASSUME NEW s \in Seq(Values), s # <<>>, NEW n \in Nat, NEW x \in Values, NEW y,
           NEW r, r = [s EXCEPT ![Len(s)] = x]
    PROVE  /\ n > 0 /\ StandsAt(s, n, y) => StandsAt(r, n, y)
           /\ StandsAt(r, 0, x)
<1>1. PICK l \in Nat : l = Len(s) /\ l > 0
  <2>1. Len(s) \in Nat /\ Len(s) > 0
    OBVIOUS
  <2> QED  BY <2>1
<1>2. l \in 1..Len(s)
  BY <1>1
<1>3. Len(r) = l /\ r[l] = x /\ \A i \in 1..l : i # l => r[i] = s[i]
  BY <1>1, <1>2, ExceptSeq
<1>4. l - 0 = l /\ 0 < l
  BY <1>1
<1>5. ASSUME n > 0, n < l PROVE l - n \in 1..l /\ l - n # l
  BY <1>5
<1> QED  BY <1>1, <1>3, <1>4, <1>5 DEF StandsAt

\* If neither the bindings of p nor what p sees of v changes, they still agree.
LEMMA OwnKept ==
    ASSUME NEW p, NEW v, OwnAt(p, v), Keeps(p, v), Seen(p)'[v] = Seen(p)[v],
           \A t \in Open(p, v) : Counts(p, v, t)' => Counts(p, v, t)
    PROVE  OwnAt(p, v)'
<1>1. ASSUME NEW t \in Open(p, v)', Counts(p, v, t)' PROVE Stands(p, v, t)'
  <2>1. Open(p, v)' = Open(p, v) /\ t \in Open(p, v) /\ ValueAt(p, t)' = ValueAt(p, t)
    BY DEF Keeps
  <2>2. Above(p, v, t)' = Above(p, v, t)
    BY <2>1 DEF Above
  <2>3. Stands(p, v, t)
    BY <1>1, <2>1 DEF OwnAt
  <2> QED  BY <2>1, <2>2, <2>3 DEF Stands
<1> QED  BY <1>1 DEF OwnAt

\* Bindings above another one are finitely many.
LEMMA AboveCount ==
    ASSUME RootInv, NEW p \in Procs, NEW v, NEW t
    PROVE  IsFiniteSet(Above(p, v, t)) /\ Cardinality(Above(p, v, t)) \in Nat
<1>1. Above(p, v, t) \subseteq Open(p, v)
  BY DEF Above
<1> QED  BY <1>1, OpenFinite, FS_Subset, FS_CardinalityType

\* The live bindings of v after a push of v.
LEMMA OpenPushed ==
    ASSUME RootInv, RootInv', NEW p \in Procs, NEW d, NEW m, NEW v, NEW x,
           HoldsMore(p, d, m, v, x), NEW w, w = <<d, m>>
    PROVE  /\ Open(p, v)' = Open(p, v) \union {w} /\ w \notin Open(p, v)
           /\ w[1] = d /\ w[2] = m /\ ValueAt(p, w)' = x
           /\ \A t \in Open(p, v) : /\ ValueAt(p, t)' = ValueAt(p, t)
                                    /\ t[1] < d \/ (t[1] = d /\ t[2] < m)
                                    /\ t[1] \in Nat /\ t[2] \in Nat
<1>1. ASSUME NEW t PROVE /\ t \in Open(p, v) <=> \E y \in Values : HoldsAt(p, v, t, y)
                         /\ t \in Open(p, v)' <=> \E y \in Values : HoldsAt(p, v, t, y)'
  BY OpenHold, OpenHoldNext DEF OpenHolds
<1>2. ASSUME NEW t, NEW y PROVE /\ Holds(p, t[1], t[2], <<v, y>>) => ValueAt(p, t) = y
                                /\ Holds(p, t[1], t[2], <<v, y>>)' => ValueAt(p, t)' = y
  BY DEF Holds, ValueAt
<1>3. w[1] = d /\ w[2] = m /\ w = <<w[1], w[2]>> /\ x \in Values /\ d \in Nat /\ m \in Nat
  BY DEF HoldsMore
<1>4. /\ \A i, j, b : Holds(p, i, j, b)' <=> Holds(p, i, j, b) \/ (i = d /\ j = m /\ b = <<v, x>>)
      /\ \A i, j, b : Holds(p, i, j, b)
            => i \in Nat /\ j \in Nat /\ (i < d \/ (i = d /\ j < m))
  BY DEF HoldsMore
<1>5. ASSUME NEW t \in Open(p, v)
      PROVE  /\ ValueAt(p, t)' = ValueAt(p, t)
             /\ t[1] < d \/ (t[1] = d /\ t[2] < m)
             /\ t[1] \in Nat /\ t[2] \in Nat /\ t \in Open(p, v)'
  <2>1. PICK y \in Values : HoldsAt(p, v, t, y)
    BY <1>1
  <2>2. t = <<t[1], t[2]>> /\ Holds(p, t[1], t[2], <<v, y>>) /\ Holds(p, t[1], t[2], <<v, y>>)'
    BY <1>4, <2>1 DEF HoldsAt
  <2>3. ValueAt(p, t) = y /\ ValueAt(p, t)' = y
    BY <1>2, <2>2
  <2>4. HoldsAt(p, v, t, y)'
    BY <2>2, <2>3 DEF HoldsAt
  <2> QED  BY <1>1, <1>4, <2>2, <2>3, <2>4
<1>6. Holds(p, w[1], w[2], <<v, x>>)'
  BY <1>3, <1>4
<1>7. ValueAt(p, w)' = x /\ w \in Open(p, v)'
  <2>1. ValueAt(p, w)' = x
    BY <1>2, <1>6
  <2>2. HoldsAt(p, v, w, x)'
    BY <1>3, <1>6, <2>1 DEF HoldsAt
  <2> QED  BY <1>1, <1>3, <2>1, <2>2
<1>8. w \notin Open(p, v)
  <2> SUFFICES ASSUME w \in Open(p, v) PROVE FALSE
    OBVIOUS
  <2>1. d < d \/ (d = d /\ m < m)
    BY <1>3, <1>5
  <2> QED  BY <1>3, <2>1
<1>9. ASSUME NEW t \in Open(p, v)' PROVE t \in Open(p, v) \/ t = w
  <2>1. PICK y \in Values : HoldsAt(p, v, t, y)'
    BY <1>1
  <2>2. t = <<t[1], t[2]>> /\ Holds(p, t[1], t[2], <<v, y>>)'
    BY <2>1 DEF HoldsAt
  <2>3. CASE Holds(p, t[1], t[2], <<v, y>>)
    <3>1. HoldsAt(p, v, t, y)
      BY <1>2, <2>2, <2>3 DEF HoldsAt
    <3> QED  BY <1>1, <3>1
  <2>4. CASE t[1] = d /\ t[2] = m
    BY <2>2, <2>4
  <2> QED  BY <1>4, <2>2, <2>3, <2>4
<1> QED  BY <1>3, <1>5, <1>7, <1>8, <1>9

\* A push of v keeps p's bindings of v where p sees them: one deeper each.
LEMMA OwnPushed ==
    ASSUME RootInv, RootInv', NEW p \in Procs, NEW d, NEW m, NEW v, NEW x,
           HoldsMore(p, d, m, v, x), OwnAt(p, v), ~Leaving(p),
           NEW s \in Seq(Values), s = Seen(p)[v], NEW r, r = Append(s, x), r = Seen(p)'[v]
    PROVE  OwnAt(p, v)'
<1>0. PICK w : w = <<d, m>>
  OBVIOUS
<1>1. /\ Open(p, v)' = Open(p, v) \union {w} /\ w \notin Open(p, v)
      /\ w[1] = d /\ w[2] = m /\ ValueAt(p, w)' = x
      /\ \A t \in Open(p, v) : /\ ValueAt(p, t)' = ValueAt(p, t)
                               /\ t[1] < d \/ (t[1] = d /\ t[2] < m)
                               /\ t[1] \in Nat /\ t[2] \in Nat
  BY <1>0, OpenPushed
<1>2. d \in Nat /\ m \in Nat /\ x \in Values
  BY DEF HoldsMore
<1>3. ASSUME NEW t \in Open(p, v)' PROVE Stands(p, v, t)'
  <2>1. CASE t = w
    <3>1. Above(p, v, w)' = {}
      <4>1. \A u \in Open(p, v)' : ~(u[1] > w[1] \/ (u[1] = w[1] /\ u[2] > w[2]))
        BY <1>1, <1>2
      <4> QED  BY <4>1 DEF Above
    <3>2. Cardinality(Above(p, v, w)') = 0
      BY <3>1, FS_EmptySet
    <3>3. StandsAt(r, 0, x)
      BY <1>2, StandsPush
    <3> QED  BY <1>1, <2>1, <3>2, <3>3 DEF Stands
  <2>2. CASE t \in Open(p, v)
    <3>1. Above(p, v, t)' = Above(p, v, t) \union {w} /\ w \notin Above(p, v, t)
      BY <1>1, <1>2, <2>2 DEF Above
    <3>2. IsFiniteSet(Above(p, v, t)) /\ Cardinality(Above(p, v, t)) \in Nat
      BY AboveCount
    <3>3. PICK n \in Nat : n = Cardinality(Above(p, v, t))
      BY <3>2
    <3>4. Cardinality(Above(p, v, t)') = n + 1
      BY <3>1, <3>2, <3>3, FS_AddElement
    <3>5. StandsAt(s, n, ValueAt(p, t))
      <4>1. Counts(p, v, t)
        BY DEF Counts
      <4> QED  BY <2>2, <3>3, <4>1 DEF OwnAt, Stands
    <3>6. StandsAt(r, n + 1, ValueAt(p, t))
      BY <1>2, <3>5, StandsPush
    <3>7. StandsAt(r, Cardinality(Above(p, v, t)'), ValueAt(p, t)')
      BY <1>1, <2>2, <3>4, <3>6
    <3> QED  BY <3>7 DEF Stands
  <2> QED  BY <1>1, <2>1, <2>2
<1> QED  BY <1>3 DEF OwnAt

\* The place of a live binding is one in its form.
LEMMA HoldsWithin ==
    ASSUME RootInv, NEW p \in Procs, NEW i, NEW j, NEW b, Holds(p, i, j, b)
    PROVE  j \in 1..Len(frames[p][i].vs)
<1>1. i \in 1..Len(frames[p]) /\ j \in Int /\ j - Gone(p, i) \in 1..Len(frames[p][i].pushed)
  BY DEF Holds
<1>2. FormInv(p) /\ frames[p][i] \in FormType
  BY <1>1, FormOf DEF RootInv
<1>3. PICK l, m, g : l = Len(frames[p][i].vs) /\ m = Len(frames[p][i].pushed) /\ g = Gone(p, i)
  OBVIOUS
<1>4. l \in Nat /\ m \in Nat /\ m <= l
  BY <1>1, <1>2, <1>3, FormFields DEF FormInv
<1>5. g = 0 \/ g = l - m
  BY <1>3 DEF Gone
<1>6. j - g \in 1..m
  BY <1>1, <1>3
<1>7. j \in Int
  BY <1>1
<1>8. j \in 1..l
  BY <1>4, <1>5, <1>6, <1>7
<1> QED  BY <1>3, <1>8

\* The live bindings of v after a pop of v.
LEMMA OpenPopped ==
    ASSUME RootInv, RootInv', NEW p \in Procs, NEW d, NEW e, NEW v,
           HoldsLess(p, d, e, v), NEW w, w = <<d, e + 1>>
    PROVE  /\ w \in Open(p, v) /\ w[1] = d /\ w[2] = e + 1
           /\ \A t : t \in Open(p, v)' <=> t \in Open(p, v) /\ t # w
           /\ \A t \in Open(p, v) : t # w =>
                 /\ ValueAt(p, t)' = ValueAt(p, t)
                 /\ t[1] < d \/ (t[1] = d /\ t[2] > e + 1 /\ frames[p][d].vs[t[2]] = v)
                 /\ t[1] \in Nat /\ t[2] \in 1..Len(frames[p][t[1]].vs)
<1>1. ASSUME NEW t PROVE /\ t \in Open(p, v) <=> \E y \in Values : HoldsAt(p, v, t, y)
                         /\ t \in Open(p, v)' <=> \E y \in Values : HoldsAt(p, v, t, y)'
  BY OpenHold, OpenHoldNext DEF OpenHolds
<1>2. ASSUME NEW t, NEW y PROVE /\ Holds(p, t[1], t[2], <<v, y>>) => ValueAt(p, t) = y
                                /\ Holds(p, t[1], t[2], <<v, y>>)' => ValueAt(p, t)' = y
  BY DEF Holds, ValueAt
<1>3. w[1] = d /\ w[2] = e + 1 /\ w = <<w[1], w[2]>> /\ d \in Nat /\ e \in Nat
  BY DEF HoldsLess
<1>4. /\ \A i, j, b : Holds(p, i, j, b)' <=> Holds(p, i, j, b) /\ ~(i = d /\ j = e + 1)
      /\ \A i, j, b : Holds(p, i, j, b) => i \in Nat /\ j \in Nat /\ i <= d
      /\ \A j, b : Holds(p, d, j, b) => j >= e + 1 /\ j <= Len(frames[p][d].vs)
  BY DEF HoldsLess
<1>5. w \in Open(p, v)
  <2>1. PICK y : Holds(p, d, e + 1, <<v, y>>)
    BY DEF HoldsLess
  <2>2. IsOpen(p, v, w)
    <3>1. d \in 1..Len(frames[p])
      BY <2>1 DEF Holds
    <3>2. /\ Gone(p, d) \in Nat
          /\ \A j \in 1..Len(frames[p][d].pushed) :
                 /\ frames[p][d].pushed[j][1] = frames[p][d].vs[Gone(p, d) + j]
                 /\ frames[p][d].pushed[j] \in Pairs
      BY <3>1, FormPlaces
    <3>3. PICK j : j = (e + 1) - Gone(p, d)
      OBVIOUS
    <3>4. j \in 1..Len(frames[p][d].pushed) /\ frames[p][d].pushed[j] = <<v, y>>
      BY <2>1, <3>3 DEF Holds
    <3>5. Gone(p, d) + j = e + 1
      BY <1>3, <3>2, <3>3
    <3> QED  BY <1>3, <3>1, <3>2, <3>3, <3>4, <3>5 DEF IsOpen
  <2> QED  BY <2>2, OpenIs DEF OpenIsOpen
<1>6. ASSUME NEW t \in Open(p, v), t # w
      PROVE  /\ ValueAt(p, t)' = ValueAt(p, t) /\ t \in Open(p, v)'
             /\ t[1] < d \/ (t[1] = d /\ t[2] > e + 1 /\ frames[p][d].vs[t[2]] = v)
             /\ t[1] \in Nat /\ t[2] \in 1..Len(frames[p][t[1]].vs)
  <2>1. PICK y \in Values : HoldsAt(p, v, t, y)
    BY <1>1
  <2>2. t = <<t[1], t[2]>> /\ Holds(p, t[1], t[2], <<v, y>>) /\ ~(t[1] = d /\ t[2] = e + 1)
    BY <1>3, <1>6, <2>1 DEF HoldsAt
  <2>3. Holds(p, t[1], t[2], <<v, y>>)'
    BY <1>4, <2>2
  <2>4. ValueAt(p, t) = y /\ ValueAt(p, t)' = y
    BY <1>2, <2>2, <2>3
  <2>5. HoldsAt(p, v, t, y)'
    BY <2>2, <2>3, <2>4 DEF HoldsAt
  <2>6. IsOpen(p, v, t)
    BY OpenIs DEF OpenIsOpen
  <2>7. frames[p][t[1]].vs[t[2]] = v /\ t[1] \in 1..Len(frames[p])
    BY <2>6 DEF IsOpen
  <2>8. t[1] \in Nat /\ t[2] \in Nat /\ t[1] <= d /\ (t[1] = d => t[2] >= e + 1)
    BY <1>4, <2>2
  <2>9. t[2] \in 1..Len(frames[p][t[1]].vs)
    BY <2>2, HoldsWithin
  <2> QED  BY <1>1, <1>3, <2>2, <2>4, <2>5, <2>7, <2>8, <2>9
<1>7. ASSUME NEW t \in Open(p, v)' PROVE t \in Open(p, v) /\ t # w
  <2>1. PICK y \in Values : HoldsAt(p, v, t, y)'
    BY <1>1
  <2>2. t = <<t[1], t[2]>> /\ Holds(p, t[1], t[2], <<v, y>>)'
    BY <2>1 DEF HoldsAt
  <2>3. Holds(p, t[1], t[2], <<v, y>>) /\ t # w
    BY <1>3, <1>4, <2>2
  <2>4. HoldsAt(p, v, t, y)
    BY <1>2, <2>2, <2>3 DEF HoldsAt
  <2> QED  BY <1>1, <2>3, <2>4
<1> QED  BY <1>3, <1>5, <1>6, <1>7

\* While bindings of the form are left, it is being left.
LEMMA PopLeaves ==
    ASSUME RootInv, NEW p \in Procs, Pop(p), NEW d, NEW m, NEW e, NEW v,
           Popped(p, d, m, e, v), d \in 1..Len(frames'[p])
    PROVE  /\ Len(frames'[p]) = d /\ Last(frames'[p]).vs = frames[p][d].vs
           /\ Leaving(p)'
<1>0. PopResult(p, d, m, e, v)
  BY PopForms
<1> DEFINE f == frames[p][d]
<1>5. /\ d \in Nat /\ d > 0 /\ m \in Nat /\ m > 0 /\ Len(f.vs) \in Nat
      /\ e \in Nat /\ e = Len(f.vs) - m /\ f.vs[e + 1] = v
      /\ m = 1 => Len(frames'[p]) = d - 1
      /\ m > 1 => /\ Len(frames'[p]) = d /\ frames'[p][d].vs = f.vs
                  /\ Len(frames'[p][d].pushed) = m - 1
      /\ pc' = [pc EXCEPT ![p] = IF p \in Roots /\ Len(chain[v]) = 1 THEN "remove"
                                 ELSE IF m > 1 THEN "pop" ELSE "run"]
  BY <1>0 DEF PopResult
<1>6. d \in 1..Len(frames'[p]) /\ frames'[p] # <<>>
  <2>1. Len(frames'[p]) \in Nat /\ Len(frames'[p]) > 0 /\ frames'[p] \in Seq(FormType)
    BY <1>0 DEF PopResult
  <2> QED  BY <2>1
<1>7. m > 1 /\ Len(frames'[p]) = d
  <2>1. Len(frames'[p]) = d - 1 => d \notin 1..Len(frames'[p])
    BY <1>5
  <2> QED  BY <1>5, <1>6, <2>1
<1>8. frames'[p][d].vs = f.vs /\ Len(frames'[p][d].pushed) = m - 1 /\ m - 1 < Len(f.vs)
  <2>1. PICK l : l = Len(f.vs)
    OBVIOUS
  <2>2. l \in Nat /\ e = l - m /\ e \in Nat /\ m \in Nat
    BY <1>5, <2>1
  <2>3. m - 1 < l
    BY <2>2
  <2> QED  BY <1>5, <1>7, <2>1, <2>3
<1>9. Last(frames[p])' = frames'[p][d]
  BY <1>7 DEF Last
<1>10. Leaving(p)'
  <2>1. pc'[p] \in {"remove", "pop"}
    BY <1>5, <1>7 DEF RootInv, RootTypes
  <2>2. Popping(p)'
    BY <1>6, <1>8, <1>9 DEF Popping
  <2> QED  BY <2>1, <2>2 DEF Leaving
<1> QED  BY <1>7, <1>8, <1>9, <1>10

\* While a form is left, what else it has bound to the var popped does not count.
LEMMA PopCounts ==
    ASSUME RootInv, RootInv', NEW p \in Procs, Pop(p), NEW d, NEW m, NEW e, NEW v,
           Popped(p, d, m, e, v), NEW t \in Open(p, v)', Counts(p, v, t)'
    PROVE  t[1] < d
<1>0. PopResult(p, d, m, e, v)
  BY PopForms
<1>1. HoldsLess(p, d, e, v)
  BY HoldsPop
<1>2. PICK w : w = <<d, e + 1>>
  OBVIOUS
<1>3. t \in Open(p, v) /\ t # w /\ w[1] = d /\ w[2] = e + 1
  BY <1>1, <1>2, OpenPopped
<1>4. /\ t[1] < d \/ (t[1] = d /\ t[2] > e + 1 /\ frames[p][d].vs[t[2]] = v)
      /\ t[2] \in 1..Len(frames[p][t[1]].vs)
  BY <1>1, <1>2, <1>3, OpenPopped
<1> SUFFICES ASSUME t[1] = d, t[2] > e + 1, frames[p][d].vs[t[2]] = v,
                    t[2] \in 1..Len(frames[p][d].vs)
             PROVE  FALSE
  BY <1>4
<1> DEFINE f == frames[p][d]
<1>5. /\ d \in Nat /\ Len(f.vs) \in Nat /\ e \in Nat /\ m \in Nat /\ m > 0
      /\ e = Len(f.vs) - m /\ f.vs[e + 1] = v
  BY <1>0 DEF PopResult
<1>6. d \in 1..Len(frames'[p])
  <2>1. IsOpen(p, v, t)'
    BY OpenIsNext DEF OpenIsOpen
  <2> QED  BY <2>1 DEF IsOpen
<1>7. Len(frames'[p]) = d /\ Last(frames'[p]).vs = f.vs /\ Leaving(p)'
  BY <1>6, PopLeaves
<1>11. NamedOnce(Last(frames'[p]), v)
  BY <1>7 DEF Counts
<1>12. /\ \A i, j \in 1..Len(f.vs) : f.vs[i] = v /\ f.vs[j] = v => i = j
  BY <1>7, <1>11 DEF NamedOnce
<1>13. e + 1 \in 1..Len(f.vs)
  <2>1. PICK l : l = Len(f.vs)
    OBVIOUS
  <2>2. l \in Nat /\ e = l - m /\ e \in Nat /\ m \in Nat /\ m > 0
    BY <1>5, <2>1
  <2>3. e + 1 \in 1..l
    BY <2>2
  <2> QED  BY <2>1, <2>3
<1>14. t[2] = e + 1
  BY <1>5, <1>12, <1>13
<1> QED  BY <1>5, <1>14

\* A pop of v keeps p's bindings of v where p sees them, if the form named v once:
\* the binding that goes is then the innermost of v.
LEMMA OwnPopped ==
    ASSUME RootInv, RootInv', NEW p \in Procs, Pop(p), NEW d, NEW m, NEW e, NEW v,
           Popped(p, d, m, e, v), OwnAt(p, v),
           NEW s \in Seq(Values), s = Seen(p)[v], NEW r, r = Front(s),
           s # <<>> => r = Seen(p)'[v]
    PROVE  OwnAt(p, v)'
<1>0. PICK w : w = <<d, e + 1>>
  OBVIOUS
<1>1. HoldsLess(p, d, e, v)
  BY HoldsPop
<1>2. /\ w \in Open(p, v) /\ w[1] = d /\ w[2] = e + 1
      /\ \A t : t \in Open(p, v)' <=> t \in Open(p, v) /\ t # w
      /\ \A t \in Open(p, v) : t # w => ValueAt(p, t)' = ValueAt(p, t) /\ t[1] \in Nat
  BY <1>0, <1>1, OpenPopped
<1>3. d \in Nat /\ d = Len(frames[p])
  BY <1>1 DEF HoldsLess, Popped
<1>4. ASSUME NEW t \in Open(p, v)', Counts(p, v, t)' PROVE Stands(p, v, t)'
  <2>1. t[1] < d /\ t \in Open(p, v) /\ t # w /\ t[1] \in Nat
    BY <1>2, <1>4, PopCounts
  <2>2. Counts(p, v, t)
    BY <1>3, <2>1 DEF Counts
  <2>3. w \in Above(p, v, t)
    BY <1>2, <1>3, <2>1 DEF Above
  <2>4. Above(p, v, t)' = Above(p, v, t) \ {w}
    BY <1>2 DEF Above
  <2>5. IsFiniteSet(Above(p, v, t)) /\ Cardinality(Above(p, v, t)) \in Nat
    BY AboveCount
  <2>6. IsFiniteSet(Above(p, v, t)') /\ Cardinality(Above(p, v, t)') \in Nat
    BY <2>4, <2>5, FS_Subset, FS_CardinalityType
  <2>7. PICK n \in Nat : n = Cardinality(Above(p, v, t)')
    BY <2>6
  <2>8. Cardinality(Above(p, v, t)) = n + 1
    <3>1. Cardinality(Above(p, v, t) \ {w}) = Cardinality(Above(p, v, t)) - 1
      BY <2>3, <2>5, FS_RemoveElement
    <3> QED  BY <2>4, <2>5, <2>7, <3>1
  <2>9. StandsAt(s, n + 1, ValueAt(p, t))
    BY <2>1, <2>2, <2>8 DEF OwnAt, Stands
  <2>10. s # <<>> /\ StandsAt(r, n, ValueAt(p, t))
    BY <2>9, StandsPop
  <2>11. ValueAt(p, t)' = ValueAt(p, t)
    BY <1>2, <2>1
  <2> QED  BY <2>7, <2>10, <2>11 DEF Stands
<1> QED  BY <1>4 DEF OwnAt

\* What set! does to the live bindings of v.
LEMMA OwnSet ==
    ASSUME RootInv, RootInv', NEW p \in Procs, NEW v, NEW x \in Values,
           HoldsNew(p, v, x), OwnAt(p, v), ~Leaving(p),
           NEW s \in Seq(Values), s # <<>>, s = Seen(p)[v],
           NEW r, r = [s EXCEPT ![Len(s)] = x], r = Seen(p)'[v]
    PROVE  OwnAt(p, v)'
<1>0. ASSUME NEW t PROVE /\ t \in Open(p, v) <=> \E y \in Values : HoldsAt(p, v, t, y)
                         /\ t \in Open(p, v)' <=> \E y \in Values : HoldsAt(p, v, t, y)'
  BY OpenHold, OpenHoldNext DEF OpenHolds
<1>9. ASSUME NEW t, NEW y PROVE /\ Holds(p, t[1], t[2], <<v, y>>) => ValueAt(p, t) = y
                                /\ Holds(p, t[1], t[2], <<v, y>>)' => ValueAt(p, t)' = y
  BY DEF Holds, ValueAt
<1>1. CASE /\ \A i, j, b : Holds(p, i, j, b)' <=> Holds(p, i, j, b)
           /\ \A i, j, y : ~Holds(p, i, j, <<v, y>>)
  <2>1. ASSUME NEW t, t \in Open(p, v)' PROVE FALSE
    <3>1. PICK y \in Values : HoldsAt(p, v, t, y)'
      BY <1>0, <2>1
    <3>2. Holds(p, t[1], t[2], <<v, y>>)'
      BY <3>1 DEF HoldsAt
    <3> QED  BY <1>1, <3>2
  <2> QED  BY <2>1 DEF OwnAt
<1>2. ASSUME NEW a, NEW c, NEW y \in Values,
             Holds(p, a, c, <<v, y>>), a \in Nat, c \in Nat,
             \A i, j, b : Holds(p, i, j, b)' <=>
                IF i = a /\ j = c THEN b = <<v, x>> ELSE Holds(p, i, j, b),
             \A i, j, z : Holds(p, i, j, <<v, z>>)
                => i \in Nat /\ j \in Nat /\ (i < a \/ (i = a /\ j <= c))
      PROVE  OwnAt(p, v)'
  <2>0. PICK w : w = <<a, c>>
    OBVIOUS
  <2>1. w[1] = a /\ w[2] = c /\ w = <<w[1], w[2]>>
    BY <2>0
  <2>2. w \in Open(p, v)
    BY <1>0, <1>2, <1>9, <2>1 DEF HoldsAt
  <2>3. Holds(p, a, c, <<v, x>>)'
    BY <1>2
  <2>4. w \in Open(p, v)' /\ ValueAt(p, w)' = x
    BY <1>0, <1>9, <2>1, <2>3 DEF HoldsAt
  <2>5. ASSUME NEW t, t # w
        PROVE  /\ t \in Open(p, v)' <=> t \in Open(p, v)
               /\ t \in Open(p, v) => ValueAt(p, t)' = ValueAt(p, t)
    <3>1. t = <<t[1], t[2]>> => ~(t[1] = a /\ t[2] = c)
      BY <2>0, <2>5
    <3>2. ASSUME NEW z PROVE HoldsAt(p, v, t, z)' <=> HoldsAt(p, v, t, z)
      BY <1>2, <1>9, <3>1 DEF HoldsAt
    <3> QED  BY <1>0, <3>2 DEF HoldsAt
  <2>6. \A t \in Open(p, v) :
           t[1] \in Nat /\ t[2] \in Nat /\ (t[1] < a \/ (t[1] = a /\ t[2] <= c))
           /\ t = <<t[1], t[2]>>
    BY <1>0, <1>2 DEF HoldsAt
  <2>7. Open(p, v)' = Open(p, v)
    <3>1. \A t : t \in Open(p, v)' <=> t \in Open(p, v)
      BY <2>2, <2>4, <2>5
    <3> QED  BY <3>1
  <2>8. ASSUME NEW t \in Open(p, v)' PROVE Stands(p, v, t)'
    <3>1. Above(p, v, t)' = Above(p, v, t)
      BY <2>7 DEF Above
    <3>2. CASE t = w
      <4>1. \A u \in Open(p, v) : ~(u[1] > w[1] \/ (u[1] = w[1] /\ u[2] > w[2]))
        BY <1>2, <2>1, <2>6
      <4>2. Above(p, v, w) = {}
        BY <4>1 DEF Above
      <4>3. Cardinality(Above(p, v, t)') = 0
        BY <3>1, <3>2, <4>2, FS_EmptySet
      <4>4. StandsAt(r, 0, x)
        BY StandsSet
      <4> QED  BY <2>4, <3>2, <4>3, <4>4 DEF Stands
    <3>3. CASE t # w
      <4>1. t \in Open(p, v) /\ ValueAt(p, t)' = ValueAt(p, t)
        BY <2>5, <3>3
      <4>2. w \in Above(p, v, t)
        <5>1. t[1] \in Nat /\ t[2] \in Nat /\ (t[1] < a \/ (t[1] = a /\ t[2] <= c))
              /\ t = <<t[1], t[2]>>
          BY <2>6, <4>1
        <5>2. t[1] < a \/ (t[1] = a /\ t[2] # c)
          BY <2>0, <3>3, <5>1
        <5>3. a > t[1] \/ (a = t[1] /\ c > t[2])
          BY <1>2, <5>1, <5>2
        <5> QED  BY <2>1, <2>2, <5>3 DEF Above
      <4>3. IsFiniteSet(Above(p, v, t)) /\ Cardinality(Above(p, v, t)) \in Nat
        BY AboveCount
      <4>4. PICK n \in Nat : n = Cardinality(Above(p, v, t))
        BY <4>3
      <4>5. n > 0
        <5>1. Cardinality(Above(p, v, t)) # 0
          BY <4>2, <4>3, FS_EmptySet
        <5> QED  BY <4>4, <5>1
      <4>6. StandsAt(s, n, ValueAt(p, t))
        <5>1. Counts(p, v, t)
          BY DEF Counts
        <5> QED  BY <4>1, <4>4, <5>1 DEF OwnAt, Stands
      <4>7. StandsAt(r, n, ValueAt(p, t))
        BY <4>5, <4>6, StandsSet
      <4> QED  BY <3>1, <4>1, <4>4, <4>7 DEF Stands
    <3> QED  BY <3>2, <3>3
  <2> QED  BY <2>8 DEF OwnAt
<1> QED  BY <1>1, <1>2 DEF HoldsNew

-----------------------------------------------------------------------------
(* The steps of forms, for the thread that takes them and the others.      *)

\* The steps of binding forms and assignments, and those of snapshots.
FormStep(p) ==
    \/ Push(p) \/ Pop(p) \/ RegistryAdd(p) \/ RegistryRemove(p) \/ Leave(p) \/ InitThrows(p)
    \/ \E vs \in Forms[p] : Enter(p, vs)
    \/ \E v \in Vars : SetCurrent(p, v)
SnapStep(p) ==
    \/ \E for \in Purposes : BeginSnapshot(p, for)
    \/ \E v \in Vars : ReadChain(p, v)
    \/ Install(p) \/ CaptureBound(p)

\* What a step of p on its forms leaves alone.
Alone(p) ==
    /\ \A q \in Procs \ {p} : frames'[q] = frames[q] /\ pc'[q] = pc[q] /\ cur'[q] = cur[q]
    /\ pc[p] \notin {"none", "snap"} /\ pc'[p] \notin {"none", "snap"}
    /\ captured' = captured /\ snap' = snap /\ parent' = parent
    /\ overlapped \subseteq overlapped' /\ leaked \subseteq leaked'

\* A step of a form is a step of one thread, in use before and after.
LEMMA FormAlone ==
    ASSUME RootInv, RestTypes, NEW p \in Procs, FormStep(p)
    PROVE  Alone(p)
<1>0. /\ pc \in [Procs -> PCs] /\ cur \in [Procs -> Vars \union {None}]
      /\ DOMAIN pc = Procs /\ DOMAIN frames = Procs /\ DOMAIN cur = Procs
  BY DEF RootInv, RootTypes
<1>1. CASE Push(p)
  <2>1. /\ pc[p] = "push" /\ UNCHANGED <<captured, snap, parent, leaked>>
        /\ \E w \in {"add", "push", "run"} : pc' = [pc EXCEPT ![p] = w]
        /\ overlapped \subseteq overlapped'
        /\ \E c : cur' = [cur EXCEPT ![p] = c]
    <3>1. cur = [cur EXCEPT ![p] = cur[p]]
      BY <1>0
    <3> QED  BY <1>1, <3>1 DEF Push, AfterPush
  <2>2. \E g : frames' = [frames EXCEPT ![p] = g]
    BY <1>1 DEF Push
  <2> QED  BY <1>0, <2>1, <2>2 DEF Alone
<1>2. CASE Pop(p)
  <2>1. /\ pc[p] = "pop" /\ UNCHANGED <<captured, snap, parent, leaked, overlapped>>
        /\ \E w \in {"remove", "pop", "run"} : pc' = [pc EXCEPT ![p] = w]
        /\ \E c : cur' = [cur EXCEPT ![p] = c]
    <3>1. cur = [cur EXCEPT ![p] = cur[p]]
      BY <1>0
    <3> QED  BY <1>2, <3>1 DEF Pop, AfterPop, history
  <2>2. \E g : frames' = [frames EXCEPT ![p] = g]
    BY <1>2 DEF Pop
  <2> QED  BY <1>0, <2>1, <2>2 DEF Alone
<1>3. CASE RegistryAdd(p)
  BY <1>0, <1>3 DEF RegistryAdd, AfterPush, Alone, history
<1>4. CASE RegistryRemove(p)
  BY <1>0, <1>4 DEF RegistryRemove, Alone, history
<1>5. CASE Leave(p)
  BY <1>0, <1>5 DEF Leave, Alone, history
<1>6. CASE InitThrows(p)
  BY <1>0, <1>6 DEF InitThrows, Alone
<1>7. CASE \E vs \in Forms[p] : Enter(p, vs)
  BY <1>0, <1>7 DEF Enter, Starts, Alone, history
<1>8. ASSUME NEW v \in Vars, SetCurrent(p, v) PROVE Alone(p)
  <2>1. /\ pc[p] = "run" /\ pc' = pc /\ UNCHANGED <<captured, cur, snap, parent, leaked>>
        /\ overlapped \subseteq overlapped'
    BY <1>8 DEF SetCurrent, Starts
  <2>2. \A q \in Procs \ {p} : frames'[q] = frames[q]
    <3>1. frames' = frames \/ \E a, n, x : frames' = [frames EXCEPT ![p][a].pushed[n] = x]
      BY <1>8 DEF SetCurrent
    <3> QED  BY <1>0, <3>1
  <2> QED  BY <2>1, <2>2 DEF Alone
<1> QED  BY <1>1, <1>2, <1>3, <1>4, <1>5, <1>6, <1>7, <1>8 DEF FormStep

\* The value of an assignment.
LEMMA SetValue ==
    ASSUME RootInv, NEW p \in Procs, NEW v \in Vars, SetCurrent(p, v)
    PROVE  \E x \in Values : x = <<p, ops[p] + 1>>
<1>1. ops[p] < MaxOps[p] /\ MaxOps[p] \in Nat /\ ops[p] \in Nat
  BY BindingsConstants, FormOf DEF SetCurrent, Starts, RootInv
<1>2. ops[p] + 1 \in 1..MaxOps[p]
  BY <1>1
<1> QED  BY <1>2, ValueIn

\* The bindings of v that a root thread has are a use of v.
LEMMA OpenUses ==
    ASSUME RootInv, NEW p \in Procs, NEW v, Open(p, v) # {}
    PROVE  v \in Uses(p)
BY PushedOpen DEF PushedIsOpen, Uses

\* What another thread sees of a var it has bound is not changed, unless the
\* two of them overlap in it.
LEMMA FormSpares ==
    ASSUME RootInv, RestTypes, ApartInv, NEW p \in Procs, FormStep(p),
           NEW q \in Procs \ {p}, NEW v \in Vars, q \in Roots => v \notin overlapped',
           Open(q, v) # {}
    PROVE  Seen(q)'[v] = Seen(q)[v]
<1>0. v \in Uses(q)
  BY OpenUses
<1> DEFINE Only(u) == /\ p \in Roots => \A w \in Vars \ {u} : chain'[w] = chain[w]
                      /\ p \notin Roots => chain' = chain
                      /\ \A k \in Kids \ {p} : stack'[k] = stack[k]
<1>1. ASSUME NEW u, Only(u), p \in Roots /\ q \in Roots => u # v
      PROVE  Seen(q)'[v] = Seen(q)[v]
  <2>1. CASE q \in Roots
    <3>1. chain'[v] = chain[v]
      BY <1>1, <2>1
    <3> QED  BY <2>1, <3>1 DEF Seen
  <2>2. CASE q \notin Roots
    <3>1. stack'[q] = stack[q]
      BY <1>1, <2>2 DEF Procs
    <3>2. ByVar(stack[q])' = ByVar(stack[q])
      BY <3>1 DEF ByVar, At, Nth
    <3> QED  BY <2>2, <3>2 DEF Seen
  <2> QED  BY <2>1, <2>2
<1>2. CASE Push(p)
  <2>1. PICK u \in Vars, x \in Values :
            /\ u = frames[p][Len(frames[p])].vs[Len(frames[p][Len(frames[p])].pushed) + 1]
            /\ x = <<p, ops[p]>>
    BY <1>2, PushForms
  <2>2. Alters(p, Pushed(Seen(p), u, x))
    BY <1>2, <2>1, SeenPush
  <2>3. Only(u)
    BY <2>2 DEF Alters, Pushed, Seen, RootInv, RootTypes
  <2>4. p \in Roots => Shares(p, u) \subseteq overlapped'
    BY <1>2, <2>1 DEF Push
  <2>5. p \in Roots /\ q \in Roots => u # v
    BY <1>0, <2>4 DEF Shares
  <2> HIDE DEF Only
  <2> QED  BY <1>1, <2>3, <2>5
<1>3. CASE Pop(p)
  <2>0. PICK d, m, e, u : Popped(p, d, m, e, u)
    BY DEF Popped
  <2>1. u \in Vars /\ u = frames[p][Len(frames[p])].pushed[1][1]
    BY <1>3, <2>0, PopForms DEF PopResult, Popped
  <2>2. Alters(p, Dropped(Seen(p), u)) \/ Alters(p, Seen(p))
    BY <1>3, <2>1, SeenPop
  <2>3. Only(u)
    BY <2>2 DEF Alters, Dropped, Seen, RootInv, RootTypes
  <2>4. u \in Uses(p)
    <3>1. HoldsLess(p, d, e, u)
      BY <1>3, <2>0, HoldsPop
    <3>2. PICK y : Holds(p, d, e + 1, <<u, y>>)
      BY <3>1 DEF HoldsLess
    <3>3. Mine(p, u) # {}
      BY <3>2, HoldsMine
    <3>4. \E i \in 1..Len(frames[p]) : \E j \in 1..Len(frames[p][i].pushed) :
              u = frames[p][i].pushed[j][1]
      BY <3>3 DEF Mine, At
    <3> QED  BY <3>4 DEF Uses, PushedVars, Elems
  <2>5. p \in Roots /\ q \in Roots => u # v
    <3>1. overlapped' = overlapped
      BY <1>3 DEF Pop, history
    <3> QED  BY <1>0, <2>4, <3>1 DEF ApartInv
  <2> HIDE DEF Only
  <2> QED  BY <1>1, <2>3, <2>5
<1>4. ASSUME NEW u \in Vars, SetCurrent(p, u) PROVE Seen(q)'[v] = Seen(q)[v]
  <2>1. PICK x \in Values : x = <<p, ops[p] + 1>>
    BY <1>4, SetValue
  <2>2. Alters(p, Set(Seen(p), u, x))
    BY <1>4, <2>1, SeenSet
  <2>3. Only(u)
    BY <2>2 DEF Alters, Set, Seen, RootInv, RootTypes
  <2>4. p \in Roots => Shares(p, u) \subseteq overlapped'
    BY <1>4 DEF SetCurrent
  <2>5. p \in Roots /\ q \in Roots => u # v
    BY <1>0, <2>4 DEF Shares
  <2> HIDE DEF Only
  <2> QED  BY <1>1, <2>3, <2>5
<1>5. ASSUME chain' = chain, stack' = stack PROVE Seen(q)'[v] = Seen(q)[v]
  BY <1>5 DEF Seen
<1>6. CASE RegistryAdd(p) \/ RegistryRemove(p) \/ Leave(p) \/ InitThrows(p)
           \/ \E vs \in Forms[p] : Enter(p, vs)
  BY <1>5, <1>6 DEF RegistryAdd, RegistryRemove, Leave, InitThrows, Enter, ctxVars
<1> QED  BY <1>2, <1>3, <1>4, <1>6 DEF FormStep

\* Whoever keeps forms and place keeps his own bindings.
LEMMA OwnStill ==
    ASSUME RootInv, RootInv', NEW q \in Procs, NEW v, OwnAt(q, v), frames'[q] = frames[q],
           \/ pc'[q] = pc[q]
           \/ {pc[q], pc'[q]} \intersect {"pop", "remove"} = {},
           Seen(q)'[v] = Seen(q)[v] \/ Open(q, v) = {}
    PROVE  OwnAt(q, v)'
<1>1. Quiet(q)
  BY QuietIdle
<1>2. Keeps(q, v)
  BY <1>1, KeepsHeld DEF Quiet
<1>3. CASE Open(q, v) = {}
  BY <1>2, <1>3 DEF OwnAt, Keeps
<1>4. CASE Seen(q)'[v] = Seen(q)[v]
  <2>1. \A t : Counts(q, v, t)' <=> Counts(q, v, t)
    BY DEF Counts, Leaving, Popping
  <2> QED  BY <1>2, <1>4, <2>1, OwnKept
<1> QED  BY <1>3, <1>4

\* A push keeps the bindings of all vars of the thread in place ...
LEMMA ActorPush ==
    ASSUME RootInv, RestTypes, RootInv', NEW p \in Procs, Push(p), NEW v \in Vars, OwnAt(p, v)
    PROVE  OwnAt(p, v)'
<1>1. PICK d, m, u, x : Pushes(p, d, m, u, x)
  BY DEF Pushes
<1>2. HoldsMore(p, d, m, u, x)
  BY <1>1, HoldsPush
<1>3. u \in Vars /\ x \in Values
  BY <1>2 DEF HoldsMore
<1>4. Alters(p, Pushed(Seen(p), u, x))
  BY <1>1, <1>3, SeenPush DEF Pushes
<1>5. ~Leaving(p)
  BY DEF Push, Leaving
<1>6. Seen(p) \in View /\ Seen(p)[v] \in Seq(Values)
  BY SeenType
<1>7. Seen(p)' = Pushed(Seen(p), u, x)
  BY <1>4 DEF Alters
<1>8. CASE u = v
  <2>1. PICK s \in Seq(Values) : s = Seen(p)[v]
    BY <1>6
  <2>2. PICK r : r = Append(s, x)
    OBVIOUS
  <2>3. r = Seen(p)'[v]
    BY <1>6, <1>7, <1>8, <2>1, <2>2 DEF Pushed, View
  <2> QED  BY <1>2, <1>5, <1>8, <2>1, <2>2, <2>3, OwnPushed
<1>9. CASE u # v
  <2>1. Seen(p)'[v] = Seen(p)[v]
    BY <1>6, <1>7, <1>9 DEF Pushed, View
  <2>2. ASSUME NEW i, NEW j, NEW y
        PROVE  Holds(p, i, j, <<v, y>>)' <=> Holds(p, i, j, <<v, y>>)
    <3>1. <<v, y>> # <<u, x>>
      BY <1>9
    <3> QED  BY <1>2, <3>1 DEF HoldsMore
  <2>3. Keeps(p, v)
    BY <2>2, KeepsHeld
  <2>4. \A t : Counts(p, v, t)
    BY <1>5 DEF Counts
  <2> QED  BY <2>1, <2>3, <2>4, OwnKept
<1> QED  BY <1>8, <1>9

\* ... so does an assignment ...
LEMMA ActorSet ==
    ASSUME RootInv, RestTypes, RootInv', NEW p \in Procs, NEW u \in Vars, SetCurrent(p, u),
           NEW v \in Vars, OwnAt(p, v)
    PROVE  OwnAt(p, v)'
<1>1. PICK x \in Values : x = <<p, ops[p] + 1>>
  BY SetValue
<1>2. HoldsNew(p, u, x)
  BY <1>1, HoldsSet
<1>4. Seen(p)[u] # <<>> /\ Alters(p, Set(Seen(p), u, x))
  BY <1>1, SeenSet
<1>5. ~Leaving(p)
  BY DEF SetCurrent, Starts, Leaving
<1>6. Seen(p) \in View /\ Seen(p)[v] \in Seq(Values)
  BY SeenType
<1>7. Seen(p)' = Set(Seen(p), u, x)
  BY <1>4 DEF Alters
<1>8. CASE u = v
  <2>1. PICK s \in Seq(Values) : s = Seen(p)[v] /\ s # <<>>
    BY <1>4, <1>6, <1>8
  <2>2. PICK r : r = [s EXCEPT ![Len(s)] = x]
    OBVIOUS
  <2>3. r = Seen(p)'[v]
    BY <1>6, <1>7, <1>8, <2>1, <2>2 DEF Set, View
  <2> QED  BY <1>2, <1>5, <1>8, <2>1, <2>2, <2>3, OwnSet
<1>9. CASE u # v
  <2>1. Seen(p)'[v] = Seen(p)[v]
    BY <1>6, <1>7, <1>9 DEF Set, View
  <2>2. ASSUME NEW i, NEW j, NEW y
        PROVE  Holds(p, i, j, <<v, y>>)' <=> Holds(p, i, j, <<v, y>>)
    <3>1. CASE \A k, l, b : Holds(p, k, l, b)' <=> Holds(p, k, l, b)
      BY <3>1
    <3>2. ASSUME NEW a, NEW c, NEW z, Holds(p, a, c, <<u, z>>),
                 \A k, l, b : Holds(p, k, l, b)' <=>
                    IF k = a /\ l = c THEN b = <<u, x>> ELSE Holds(p, k, l, b)
          PROVE  Holds(p, i, j, <<v, y>>)' <=> Holds(p, i, j, <<v, y>>)
      <4>1. <<v, y>> # <<u, x>> /\ <<v, y>> # <<u, z>>
        BY <1>9
      <4>2. ~Holds(p, a, c, <<v, y>>)
        BY <3>2, <4>1 DEF Holds
      <4> QED  BY <3>2, <4>1, <4>2
    <3> QED  BY <1>2, <3>1, <3>2 DEF HoldsNew
  <2>3. Keeps(p, v)
    BY <2>2, KeepsHeld
  <2>4. \A t : Counts(p, v, t)
    BY <1>5 DEF Counts
  <2> QED  BY <2>1, <2>3, <2>4, OwnKept
<1> QED  BY <1>8, <1>9

\* ... and a pop.
LEMMA ActorPop ==
    ASSUME RootInv, RestTypes, RootInv', NEW p \in Procs, Pop(p), NEW v \in Vars, OwnAt(p, v)
    PROVE  OwnAt(p, v)'
<1>1. PICK d, m, e, u : Popped(p, d, m, e, u)
  BY DEF Popped
<1>2. HoldsLess(p, d, e, u) /\ PopResult(p, d, m, e, u)
  BY <1>1, HoldsPop, PopForms
<1>3. u \in Vars /\ u = frames[p][Len(frames[p])].pushed[1][1] /\ d = Len(frames[p])
  BY <1>1, <1>2 DEF HoldsLess, Popped
<1>4. /\ Seen(p)[u] # <<>> => Alters(p, Dropped(Seen(p), u))
      /\ Seen(p)[u] = <<>> => Alters(p, Seen(p))
  BY <1>3, SeenPop
<1>6. Seen(p) \in View /\ Seen(p)[v] \in Seq(Values)
  BY SeenType
<1>7. /\ Seen(p)[u] # <<>> => Seen(p)' = Dropped(Seen(p), u)
      /\ Seen(p)[u] = <<>> => Seen(p)' = Seen(p)
  BY <1>4 DEF Alters
<1>8. CASE u = v
  <2>1. PICK s \in Seq(Values) : s = Seen(p)[v]
    BY <1>6
  <2>2. PICK r : r = Front(s)
    OBVIOUS
  <2>3. s # <<>> => r = Seen(p)'[v]
    BY <1>6, <1>7, <1>8, <2>1, <2>2 DEF Dropped, View
  <2> QED  BY <1>1, <1>8, <2>1, <2>2, <2>3, OwnPopped
<1>9. CASE u # v
  <2>1. Seen(p)'[v] = Seen(p)[v]
    BY <1>6, <1>7, <1>9 DEF Dropped, View
  <2>2. ASSUME NEW i, NEW j, NEW y
        PROVE  Holds(p, i, j, <<v, y>>)' <=> Holds(p, i, j, <<v, y>>)
    <3>1. PICK z : Holds(p, d, e + 1, <<u, z>>)
      BY <1>2 DEF HoldsLess
    <3>2. <<v, y>> # <<u, z>>
      BY <1>9
    <3>3. ~Holds(p, d, e + 1, <<v, y>>)
      BY <3>1, <3>2 DEF Holds
    <3> QED  BY <1>2, <3>3 DEF HoldsLess
  <2>3. Keeps(p, v)
    BY <2>2, KeepsHeld
  <2>4. ASSUME NEW t \in Open(p, v), Counts(p, v, t)' PROVE Counts(p, v, t)
    <3>1. CASE t[1] = d
      <4>1. t \in Open(p, v)'
        BY <2>3 DEF Keeps
      <4>2. IsOpen(p, v, t)'
        BY <4>1, OpenIsNext DEF OpenIsOpen
      <4>3. d \in 1..Len(frames'[p])
        BY <3>1, <4>2 DEF IsOpen
      <4>4. /\ Len(frames'[p]) = d /\ Last(frames'[p]).vs = frames[p][d].vs
            /\ Leaving(p)'
        BY <1>1, <4>3, PopLeaves
      <4>5. NamedOnce(Last(frames'[p]), v)
        BY <2>4, <3>1, <4>4 DEF Counts
      <4>6. NamedOnce(Last(frames[p]), v)
        BY <1>3, <4>4, <4>5 DEF NamedOnce, Last
      <4> QED  BY <4>6 DEF Counts
    <3>2. CASE t[1] # d
      BY <1>3, <3>2 DEF Counts
    <3> QED  BY <3>1, <3>2
  <2> QED  BY <2>1, <2>3, <2>4, OwnKept
<1> QED  BY <1>8, <1>9

\* The other steps of a form leave the bindings as they are.
LEMMA ActorQuiet ==
    ASSUME RootInv, RootInv', NEW p \in Procs, NEW v, OwnAt(p, v), v \notin leaked',
           \/ RegistryAdd(p) \/ RegistryRemove(p) \/ Leave(p) \/ InitThrows(p)
           \/ \E vs \in Forms[p] : Enter(p, vs)
    PROVE  OwnAt(p, v)'
<1>1. Seen(p)'[v] = Seen(p)[v]
  <2>1. chain' = chain /\ stack' = stack
    BY DEF RegistryAdd, RegistryRemove, Leave, InitThrows, Enter, ctxVars
  <2> QED  BY <2>1 DEF Seen
<1>2. ASSUME Quiet(p), ~Leaving(p) \/ (frames' = frames /\ (Leaving(p)' <=> Leaving(p)))
      PROVE  OwnAt(p, v)'
  <2>1. Keeps(p, v)
    BY <1>2, KeepsHeld DEF Quiet
  <2>2. \A t : Counts(p, v, t)' => Counts(p, v, t)
    BY <1>2 DEF Counts
  <2> QED  BY <1>1, <2>1, <2>2, OwnKept
<1>3. CASE RegistryAdd(p)
  <2>1. /\ pc[p] = "add" /\ frames' = frames
        /\ \E w \in {"push", "run"} : pc' = [pc EXCEPT ![p] = w]
    BY <1>3 DEF RegistryAdd, AfterPush
  <2>2. pc'[p] \in {"push", "run"}
    BY <2>1 DEF RootInv, RootTypes
  <2> QED  BY <1>2, <2>1, <2>2, QuietIdle DEF Leaving
<1>4. CASE RegistryRemove(p)
  <2>1. frames' = frames
    BY <1>4 DEF RegistryRemove
  <2> QED  BY <1>2, <1>4, <2>1, QuietRemove
<1>5. CASE Leave(p)
  BY <1>2, <1>5, QuietLeave DEF Leave, Leaving
<1>6. CASE InitThrows(p)
  <2>1. Keeps(p, v)
    BY <1>6, HoldsThrows, KeepsHeld
  <2>2. \A t : Counts(p, v, t)
    BY <1>6 DEF InitThrows, Counts, Leaving
  <2> QED  BY <1>1, <2>1, <2>2, OwnKept
<1>7. ASSUME NEW vs \in Forms[p], Enter(p, vs) PROVE OwnAt(p, v)'
  BY <1>2, <1>7, QuietEnter DEF Enter, Starts, Leaving
<1> QED  BY <1>3, <1>4, <1>5, <1>6, <1>7

\* What a step of p on its forms does to the bindings of all threads.
LEMMA OwnForms ==
    ASSUME RootInv, RestTypes, RootInv', OwnInv, ApartInv, NEW p \in Procs, FormStep(p)
    PROVE  OwnInv'
<1>1. Alone(p)
  BY FormAlone
<1>2. ASSUME NEW q \in Procs, NEW v \in Vars \ leaked', q \in Roots => v \notin overlapped'
      PROVE  OwnAt(q, v)'
  <2>1. OwnAt(q, v)
    BY <1>1, <1>2 DEF OwnInv, OwnAt, Stands, StandsAt, Alone
  <2>2. CASE q = p
    BY <2>1, <2>2, ActorPush, ActorPop, ActorSet, ActorQuiet DEF FormStep
  <2>3. CASE q # p
    <3>1. frames'[q] = frames[q] /\ pc'[q] = pc[q]
      BY <1>1, <2>3 DEF Alone
    <3>2. Seen(q)'[v] = Seen(q)[v] \/ Open(q, v) = {}
      BY <1>2, <2>3, FormSpares
    <3> QED  BY <2>1, <3>1, <3>2, OwnStill
  <2> QED  BY <2>2, <2>3
<1> QED  BY <1>2 DEF OwnInv, OwnAt, Stands, StandsAt

-----------------------------------------------------------------------------
(* The steps that leave the forms alone.                                   *)

\* A step that changes no form, no root binding and no context in use.
Aloof ==
    /\ frames' = frames /\ cur' = cur /\ chain' = chain /\ registry' = registry
    /\ overlapped' = overlapped /\ leaked' = leaked
    /\ \A q \in Procs :
          \/ pc'[q] = pc[q]
          \/ /\ {pc[q], pc'[q]} \intersect {"push", "add", "pop", "remove"} = {}
             /\ pc'[q] # "none"
    /\ \A k \in Kids : pc[k] # "none" => stack'[k] = stack[k]

\* The steps of snapshots are such steps ...
LEMMA SnapAloof ==
    ASSUME RootInv, RestTypes, BoundInv, NEW p \in Procs, SnapStep(p)
    PROVE  Aloof
<1>0. pc \in [Procs -> PCs]
  BY DEF RootInv, RootTypes
<1>1. ASSUME NEW for \in Purposes, BeginSnapshot(p, for) PROVE Aloof
  BY <1>0, <1>1 DEF BeginSnapshot, Aloof, ctxVars, history
<1>2. ASSUME NEW v \in Vars, ReadChain(p, v) PROVE Aloof
  BY <1>2 DEF ReadChain, Aloof, ctxVars, history
<1>3. CASE Install(p)
  <2>1. PICK k \in Kids : \E u : Installed(p, k, u)
    BY <1>3, InstallForms
  <2>2. PICK u : Installed(p, k, u)
    BY <2>1
  <2>3. /\ pc[p] = "snap" /\ pc'[p] \in {"wait", "run"} /\ pc[k] = "none" /\ pc'[k] = "run"
        /\ \A q \in Procs \ {p, k} : pc'[q] = pc[q]
        /\ stack' = [stack EXCEPT ![k] = u]
    BY <2>2 DEF Installed
  <2>4. \A j \in Kids : pc[j] # "none" => stack'[j] = stack[j]
    BY <2>3 DEF RestTypes
  <2>5. frames' = frames /\ cur' = cur /\ chain' = chain /\ registry' = registry
        /\ overlapped' = overlapped /\ leaked' = leaked
    BY <2>2 DEF Installed
  <2> QED  BY <2>3, <2>4, <2>5 DEF Aloof
<1>4. CASE CaptureBound(p)
  BY <1>0, <1>4 DEF CaptureBound, Aloof, ctxVars, history
<1> QED  BY <1>1, <1>2, <1>3, <1>4 DEF SnapStep

\* ... the return of a kid is one ...
LEMMA ReturnAloof ==
    ASSUME RootInv, NEW k \in Kids, Return(k)
    PROVE  Aloof
<1>1. /\ pc[k] = "run"
      /\ \A q \in Procs : \/ pc'[q] = pc[q]
                          \/ (q = k /\ pc'[q] = "done")
                          \/ (pc[q] = "wait" /\ pc'[q] = "run")
  <2>1. /\ pc[k] = "run"
        /\ pc' = [q \in Procs |->
                IF q = k THEN "done"
                ELSE IF q = parent[k] /\ pc[q] = "wait" THEN "run" ELSE pc[q]]
    BY DEF Return
  <2> QED  BY <2>1
<1>2. frames' = frames /\ cur' = cur /\ chain' = chain /\ registry' = registry
      /\ overlapped' = overlapped /\ leaked' = leaked /\ stack' = stack
  BY DEF Return, ctxVars, history
<1> QED  BY <1>1, <1>2 DEF Aloof

\* ... and so is no step.
LEMMA StillAloof == UNCHANGED vars => Aloof
BY DEF vars, ctxVars, history, Aloof

\* They leave what a thread in use sees ...
LEMMA SeenAloof ==
    ASSUME Aloof, NEW q \in Procs, pc[q] # "none"
    PROVE  Seen(q)' = Seen(q)
<1>1. CASE q \in Roots
  BY <1>1 DEF Aloof, Seen
<1>2. CASE q \notin Roots
  <2>1. stack'[q] = stack[q]
    BY <1>2 DEF Aloof, Procs
  <2>2. ByVar(stack[q])' = ByVar(stack[q])
    BY <2>1 DEF ByVar, At, Nth
  <2> QED  BY <1>2, <2>2 DEF Seen
<1> QED  BY <1>1, <1>2

\* ... and with it OwnInv ...
LEMMA OwnAloof ==
    ASSUME RootInv, RootInv', OwnInv, FreshInv, Aloof
    PROVE  OwnInv'
<1>1. ASSUME NEW q \in Procs, NEW v \in Vars \ leaked', q \in Roots => v \notin overlapped'
      PROVE  OwnAt(q, v)'
  <2>1. OwnAt(q, v)
    BY <1>1 DEF OwnInv, OwnAt, Stands, StandsAt, Aloof
  <2>2. frames'[q] = frames[q]
        /\ (pc'[q] = pc[q] \/ {pc[q], pc'[q]} \intersect {"pop", "remove"} = {})
    BY DEF Aloof
  <2>3. Seen(q)'[v] = Seen(q)[v] \/ Open(q, v) = {}
    <3>1. CASE pc[q] = "none"
      <4>1. frames[q] = <<>>
        BY <3>1 DEF FreshInv
      <4> QED  BY <4>1 DEF Open
    <3>2. CASE pc[q] # "none"
      BY <3>2, SeenAloof
    <3> QED  BY <3>1, <3>2
  <2> QED  BY <2>1, <2>2, <2>3, OwnStill
<1> QED  BY <1>1 DEF OwnInv, OwnAt, Stands, StandsAt

\* ... what the threads use ...
LEMMA ApartAloof ==
    ASSUME ApartInv, Aloof
    PROVE  ApartInv'
<1>1. \A q \in Procs : Uses(q)' = Uses(q)
  BY DEF Aloof, Uses, PushedVars
<1> QED  BY <1>1 DEF ApartInv, Aloof, Procs

\* ... and who has not begun.
LEMMA FreshAloof ==
    ASSUME FreshInv, Aloof
    PROVE  FreshInv'
BY DEF FreshInv, Aloof

\* Only a kid that has begun opens a form.
LEMMA FreshForms ==
    ASSUME FreshInv, NEW p \in Procs, Alone(p)
    PROVE  FreshInv'
BY DEF FreshInv, Alone

-----------------------------------------------------------------------------
(* Threads of the root context that use the same var, and snapshots.       *)

\* p has a live binding of v.
Binds(p, v) == \E i, j, y : Holds(p, i, j, <<v, y>>)
PushedIsBound == \A p \in Procs : \A v : v \in PushedVars(p) <=> Binds(p, v)

\* PushedVars names the vars the thread holds a binding of.
LEMMA PushedBound == RootInv => PushedIsBound
<1> SUFFICES ASSUME RootInv, NEW p \in Procs, NEW v PROVE v \in PushedVars(p) <=> Binds(p, v)
  BY DEF PushedIsBound
<1>1. v \in PushedVars(p) <=>
        \E i \in 1..Len(frames[p]) : \E j \in 1..Len(frames[p][i].pushed) :
            v = frames[p][i].pushed[j][1]
  BY DEF PushedVars, Elems
<1>2. ASSUME Binds(p, v) PROVE v \in PushedVars(p)
  <2>1. PICK i, j, y : Holds(p, i, j, <<v, y>>)
    BY <1>2 DEF Binds
  <2>2. PICK k : k = j - Gone(p, i)
    OBVIOUS
  <2>3. i \in 1..Len(frames[p]) /\ k \in 1..Len(frames[p][i].pushed)
        /\ frames[p][i].pushed[k] = <<v, y>>
    BY <2>1, <2>2 DEF Holds
  <2> QED  BY <1>1, <2>3
<1>3. ASSUME v \in PushedVars(p) PROVE Binds(p, v)
  <2>1. PICK t : t \in Open(p, v)
    BY <1>3, PushedOpen DEF PushedIsOpen
  <2> QED  BY <2>1, OpenHold DEF OpenHolds, HoldsAt, Binds
<1> QED  BY <1>2, <1>3

\* The same of the next state.
LEMMA PushedBoundNext == RootInv' => PushedIsBound'
BY PushedBound, PTL

\* PushedVars names vars.
LEMMA PushedType ==
    ASSUME RootInv, NEW p \in Procs
    PROVE  PushedVars(p) \subseteq Vars
<1>1. ASSUME NEW i \in 1..Len(frames[p]), NEW j \in 1..Len(frames[p][i].pushed)
      PROVE  frames[p][i].pushed[j][1] \in Vars
  BY FormPlaces DEF Pairs
<1> QED  BY <1>1 DEF PushedVars, Elems

\* A thread comes to use at most the var u in a step.
Takes(p, u) == \A w \in Uses(p)' : w \in Uses(p) \/ w = u

\* It uses no more than the bindings it has come to hold and the var of its push.
LEMMA TakesFrom ==
    ASSUME RootInv, RootInv', NEW p \in Procs, NEW u,
           \A i, j, w, y : Holds(p, i, j, <<w, y>>)' => w = u \/ Binds(p, w),
           cur'[p] = None \/ cur'[p] = u \/ cur'[p] \in Uses(p)
    PROVE  Takes(p, u)
<1>1. ASSUME NEW w, Binds(p, w)' PROVE w = u \/ Binds(p, w)
  BY <1>1 DEF Binds
<1>2. \A w : /\ w \in PushedVars(p) <=> Binds(p, w)
             /\ w \in PushedVars(p)' <=> Binds(p, w)'
  BY PushedBound, PushedBoundNext DEF PushedIsBound
<1> QED  BY <1>1, <1>2 DEF Takes, Uses

\* Whoever comes to use a var of another root thread marks it as overlapped.
LEMMA ApartForms ==
    ASSUME RootInv, RestTypes, RootInv', ApartInv, NEW p \in Procs, FormStep(p)
    PROVE  ApartInv'
<1>0. Alone(p)
  BY FormAlone
<1>1. ASSUME p \in Roots, NEW u, Takes(p, u), u = None \/ Shares(p, u) \subseteq overlapped'
      PROVE  ApartInv'
  <2>1. \A q \in Procs \ {p} : Uses(q)' = Uses(q)
    BY <1>0 DEF Alone, Uses, PushedVars
  <2>2. overlapped \subseteq overlapped'
    BY <1>0 DEF Alone
  <2>3. ASSUME NEW q \in Roots \ {p}, NEW w \in Uses(p)', w \in Uses(q) PROVE w \in overlapped'
    <3>1. CASE w \in Uses(p)
      BY <1>1, <2>2, <2>3, <3>1 DEF ApartInv
    <3>2. CASE w = u
      <4>1. w # None
        <5>1. None \notin Vars /\ PushedVars(q) \subseteq Vars
          BY BindingsConstants, PushedType DEF Procs
        <5> QED  BY <2>3, <5>1 DEF Uses
      <4> QED  BY <1>1, <2>3, <3>2, <4>1 DEF Shares
    <3> QED  BY <1>1, <2>3, <3>1, <3>2 DEF Takes
  <2> QED  BY <1>1, <2>1, <2>2, <2>3 DEF ApartInv, Procs
<1>2. ASSUME p \notin Roots PROVE ApartInv'
  <2>1. \A q \in Roots : Uses(q)' = Uses(q)
    BY <1>0, <1>2 DEF Alone, Uses, PushedVars, Procs
  <2> QED  BY <1>0, <2>1 DEF ApartInv, Alone
<1>3. cur[p] # None => cur[p] \in Uses(p)
  BY DEF Uses
<1>4. ASSUME Push(p), p \in Roots PROVE ApartInv'
  <2>1. PICK d, m, u, x : Pushes(p, d, m, u, x)
    BY DEF Pushes
  <2>2. HoldsMore(p, d, m, u, x)
    BY <1>4, <2>1, HoldsPush
  <2>3. \A i, j, w, y : Holds(p, i, j, <<w, y>>)' => w = u \/ Binds(p, w)
    <3>1. ASSUME NEW i, NEW j, NEW w, NEW y, Holds(p, i, j, <<w, y>>)' PROVE w = u \/ Binds(p, w)
      <4>1. Holds(p, i, j, <<w, y>>) \/ <<w, y>> = <<u, x>>
        BY <2>2, <3>1 DEF HoldsMore
      <4>2. <<w, y>> = <<u, x>> => w = u
        OBVIOUS
      <4> QED  BY <4>1, <4>2 DEF Binds
    <3> QED  BY <3>1
  <2>4. cur'[p] = u \/ cur'[p] = cur[p]
    BY <1>4, <2>1 DEF Push, Pushes, RootInv, RootTypes
  <2>5. Takes(p, u)
    BY <1>3, <2>3, <2>4, TakesFrom
  <2>6. Shares(p, u) \subseteq overlapped'
    BY <1>4, <2>1 DEF Push, Pushes
  <2> QED  BY <1>1, <1>4, <2>5, <2>6
<1>5. ASSUME Pop(p), p \in Roots PROVE ApartInv'
  <2>1. PICK d, m, e, u : Popped(p, d, m, e, u)
    BY DEF Popped
  <2>2. HoldsLess(p, d, e, u)
    BY <1>5, <2>1, HoldsPop
  <2>3. \A i, j, w, y : Holds(p, i, j, <<w, y>>)' => Binds(p, w)
    BY <2>2 DEF HoldsLess, Binds
  <2>4. cur'[p] = u \/ cur'[p] = cur[p]
    BY <1>5, <2>1 DEF Pop, Popped, RootInv, RootTypes
  <2>5. u \in Uses(p)
    <3>1. Binds(p, u)
      BY <2>2 DEF HoldsLess, Binds
    <3> QED  BY <3>1, PushedBound DEF PushedIsBound, Uses
  <2>6. Takes(p, None)
    BY <1>3, <2>3, <2>4, <2>5, TakesFrom
  <2> QED  BY <1>1, <1>5, <2>6
<1>6. ASSUME NEW u \in Vars, SetCurrent(p, u), p \in Roots PROVE ApartInv'
  <2>1. PICK x \in Values : x = <<p, ops[p] + 1>>
    BY <1>6, SetValue
  <2>2. HoldsNew(p, u, x)
    BY <1>6, <2>1, HoldsSet
  <2>3. \A i, j, w, y : Holds(p, i, j, <<w, y>>)' => w = u \/ Binds(p, w)
    <3>1. ASSUME NEW i, NEW j, NEW w, NEW y, Holds(p, i, j, <<w, y>>)' PROVE w = u \/ Binds(p, w)
      <4>1. Holds(p, i, j, <<w, y>>) \/ <<w, y>> = <<u, x>>
        BY <2>2, <3>1 DEF HoldsNew
      <4>2. <<w, y>> = <<u, x>> => w = u
        OBVIOUS
      <4> QED  BY <4>1, <4>2 DEF Binds
    <3> QED  BY <3>1
  <2>4. cur'[p] = cur[p]
    BY <1>6 DEF SetCurrent
  <2>5. Takes(p, u)
    BY <1>3, <2>3, <2>4, TakesFrom
  <2>6. Shares(p, u) \subseteq overlapped'
    BY <1>6 DEF SetCurrent
  <2> QED  BY <1>1, <1>6, <2>5, <2>6
<1>7. ASSUME \A w : w \in PushedVars(p)' => w \in PushedVars(p),
             cur'[p] = None \/ cur'[p] = cur[p], p \in Roots
      PROVE  ApartInv'
  <2>1. Takes(p, None)
    BY <1>3, <1>7 DEF Takes, Uses
  <2> QED  BY <1>1, <1>7, <2>1
<1>8. CASE RegistryAdd(p) \/ RegistryRemove(p) \/ Leave(p)
  <2>1. frames' = frames /\ (cur' = cur \/ cur' = [cur EXCEPT ![p] = None])
    BY <1>8 DEF RegistryAdd, RegistryRemove, Leave
  <2>2. cur'[p] = None \/ cur'[p] = cur[p]
    BY <2>1 DEF RootInv, RootTypes
  <2>3. PushedVars(p)' = PushedVars(p)
    BY <2>1 DEF PushedVars
  <2> QED  BY <1>2, <1>7, <2>2, <2>3
<1>9. CASE InitThrows(p)
  <2> DEFINE d == Len(frames[p])
  <2>1. pc[p] = "push" /\ cur' = cur /\ frames' = [frames EXCEPT ![p] = Front(frames[p])]
    BY <1>9 DEF InitThrows
  <2>2. frames[p] \in Seq(FormType) /\ d \in Nat /\ d > 0 /\ frames[p] # <<>>
    BY <2>1, FormOf DEF RootInv, FormInv
  <2>3. Len(frames'[p]) = d - 1 /\ \A i \in 1..d - 1 : frames'[p][i] = frames[p][i]
    <3>1. frames'[p] = Front(frames[p])
      BY <2>1 DEF RootInv, RootTypes
    <3> QED  BY <2>2, <3>1, Shortened
  <2>4. \A i \in 1..d - 1 : i \in 1..d
    BY <2>2
  <2>5. \A w : w \in PushedVars(p)' => w \in PushedVars(p)
    <3>1. ASSUME NEW w \in PushedVars(p)' PROVE w \in PushedVars(p)
      <4>1. PICK i \in 1..Len(frames'[p]) : w \in {b[1] : b \in Elems(frames'[p][i].pushed)}
        BY <3>1 DEF PushedVars, Elems
      <4>2. i \in 1..d /\ frames'[p][i] = frames[p][i]
        BY <2>3, <2>4, <4>1
      <4>3. frames[p][i] \in Elems(frames[p])
        BY <4>2 DEF Elems
      <4> QED  BY <4>1, <4>2, <4>3 DEF PushedVars
    <3> QED  BY <3>1
  <2> QED  BY <1>2, <1>7, <2>1, <2>5
<1>10. ASSUME NEW vs \in Forms[p], Enter(p, vs) PROVE ApartInv'
  <2>1. Quiet(p)
    BY <1>10, QuietEnter
  <2>2. cur' = cur
    BY <1>10 DEF Enter
  <2>3. Takes(p, None)
    BY <1>3, <2>1, <2>2, TakesFrom DEF Quiet, Binds
  <2> QED  BY <1>1, <1>2, <2>3
<1> QED  BY <1>2, <1>4, <1>5, <1>6, <1>8, <1>9, <1>10 DEF FormStep

\* The snapshot that q has under way is still good after a step that changes
\* neither the snapshot nor what q sees.
GotAt(q) ==
    /\ q \in Kids => snap[q].left = {} /\ snap[q].got = ByVar(stack[q])
    /\ q \in Roots =>
          \A v \in PushedVars(q) \ (leaked \union overlapped) :
              v \in snap[q].left \/ snap[q].got[v] = chain[v]

\* The contexts of the other kids.
LEMMA FormStacks ==
    ASSUME RootInv, RestTypes, NEW p \in Procs, FormStep(p), NEW k \in Kids \ {p}
    PROVE  stack'[k] = stack[k]
<1>1. CASE Push(p)
  <2>1. PICK u \in Vars, x \in Values :
            /\ u = frames[p][Len(frames[p])].vs[Len(frames[p][Len(frames[p])].pushed) + 1]
            /\ x = <<p, ops[p]>>
    BY <1>1, PushForms
  <2> QED  BY <1>1, <2>1, SeenPush DEF Alters
<1>2. CASE Pop(p)
  <2>0. PICK d, m, e, u : Popped(p, d, m, e, u)
    BY DEF Popped
  <2>1. u \in Vars /\ u = frames[p][Len(frames[p])].pushed[1][1]
    BY <1>2, <2>0, PopForms DEF PopResult, Popped
  <2> QED  BY <1>2, <2>1, SeenPop DEF Alters
<1>3. ASSUME NEW u \in Vars, SetCurrent(p, u) PROVE stack'[k] = stack[k]
  <2>1. PICK x \in Values : x = <<p, ops[p] + 1>>
    BY <1>3, SetValue
  <2> QED  BY <1>3, <2>1, SeenSet DEF Alters
<1>4. CASE RegistryAdd(p) \/ RegistryRemove(p) \/ Leave(p) \/ InitThrows(p)
           \/ \E vs \in Forms[p] : Enter(p, vs)
  BY <1>4 DEF RegistryAdd, RegistryRemove, Leave, InitThrows, Enter, ctxVars
<1> QED  BY <1>1, <1>2, <1>3, <1>4 DEF FormStep

\* Another thread's form does not make a snapshot under way a stale one, unless the
\* two threads overlap in the var.
LEMMA GotForms ==
    ASSUME RootInv, RestTypes, RootInv', ApartInv, GotInv, NEW p \in Procs, FormStep(p)
    PROVE  GotInv'
<1>0. Alone(p)
  BY FormAlone
<1>1. ASSUME NEW q \in Procs, pc'[q] = "snap" PROVE GotAt(q)'
  <2>1. /\ q # p /\ pc[q] = "snap" /\ snap' = snap /\ frames'[q] = frames[q]
        /\ overlapped \subseteq overlapped' /\ leaked \subseteq leaked'
    BY <1>0, <1>1 DEF Alone
  <2>2. GotAt(q)
    BY <2>1 DEF GotInv, GotAt
  <2>3. CASE q \in Kids
    <3>1. stack'[q] = stack[q]
      BY <2>1, <2>3, FormStacks
    <3>2. ByVar(stack[q])' = ByVar(stack[q])
      BY <3>1 DEF ByVar, At, Nth
    <3>3. q \notin Roots
      BY <2>3, BindingsConstants
    <3> QED  BY <2>1, <2>2, <2>3, <3>2, <3>3 DEF GotAt
  <2>4. CASE q \in Roots
    <3>1. q \notin Kids
      BY <2>4, BindingsConstants
    <3>2. ASSUME NEW v \in PushedVars(q)', v \notin leaked', v \notin overlapped'
          PROVE  v \in snap'[q].left \/ snap'[q].got[v] = chain'[v]
      <4>1. v \in PushedVars(q)
        BY <2>1, <3>2 DEF PushedVars
      <4>2. v \in snap[q].left \/ snap[q].got[v] = chain[v]
        BY <2>1, <2>2, <2>4, <3>2, <4>1 DEF GotAt
      <4>3. v \in Vars /\ Open(q, v) # {}
        BY <4>1, PushedType, PushedOpen DEF PushedIsOpen
      <4>4. Seen(q)'[v] = Seen(q)[v]
        BY <2>1, <3>2, <4>3, FormSpares
      <4>5. chain'[v] = chain[v]
        BY <2>4, <4>4 DEF Seen
      <4> QED  BY <2>1, <4>2, <4>5
    <3> QED  BY <2>4, <3>1, <3>2 DEF GotAt
  <2> QED  BY <2>3, <2>4 DEF Procs
<1> QED  BY <1>1 DEF GotInv, GotAt

\* Nor does a step that is none of q's.
LEMMA GotStill ==
    ASSUME RootInv, Aloof, NEW q \in Procs, GotAt(q), pc[q] # "none", snap'[q] = snap[q]
    PROVE  GotAt(q)'
<1>1. PushedVars(q)' = PushedVars(q)
  BY DEF Aloof, PushedVars
<1>2. q \in Kids => stack'[q] = stack[q]
  BY DEF Aloof
<1>3. ASSUME q \in Kids PROVE ByVar(stack[q])' = ByVar(stack[q])
  <2>1. stack'[q] = stack[q]
    BY <1>2, <1>3
  <2> QED  BY <2>1 DEF ByVar, At, Nth
<1>4. chain' = chain /\ leaked' = leaked /\ overlapped' = overlapped
  BY DEF Aloof
<1> QED  BY <1>1, <1>3, <1>4 DEF GotAt

\* A snapshot begins with every chain of the root context that its thread needs still
\* to read, and reads what is there.
LEMMA GotSnaps ==
    ASSUME RootInv, RestTypes, BoundInv, RootInv', ApartInv, GotInv, NEW p \in Procs, SnapStep(p)
    PROVE  GotInv'
<1>0. Aloof
  BY SnapAloof
<1>1. ASSUME \A q \in Procs \ {p} : snap'[q] = snap[q] /\ (pc'[q] = "snap" => pc[q] = "snap"),
             pc'[p] = "snap" => GotAt(p)'
      PROVE  GotInv'
  <2>1. ASSUME NEW q \in Procs, pc'[q] = "snap" PROVE GotAt(q)'
    <3>1. CASE q # p
      <4>1. pc[q] = "snap" /\ snap'[q] = snap[q]
        BY <1>1, <2>1, <3>1
      <4>2. GotAt(q)
        BY <4>1 DEF GotInv, GotAt
      <4> QED  BY <1>0, <4>1, <4>2, GotStill
    <3>2. CASE q = p
      BY <1>1, <2>1, <3>2
    <3> QED  BY <3>1, <3>2
  <2> QED  BY <2>1 DEF GotInv, GotAt
<1>10. /\ pc \in [Procs -> PCs] /\ DOMAIN snap = Procs
       /\ snap \in [Procs -> [for : Purposes \union {NoSnap.for}, left : SUBSET Vars, got : View]]
  BY DEF RootInv, RootTypes, RestTypes
<1>2. ASSUME NEW for \in Purposes, BeginSnapshot(p, for) PROVE GotInv'
  <2> DEFINE m == IF p \in Roots THEN [for |-> for, left |-> registry, got |-> Empty]
                  ELSE [for |-> for, left |-> {}, got |-> ByVar(stack[p])]
  <2>1. /\ pc[p] = "run" /\ pc' = [pc EXCEPT ![p] = "snap"] /\ snap' = [snap EXCEPT ![p] = m]
        /\ stack' = stack /\ chain' = chain
    BY <1>2 DEF BeginSnapshot, ctxVars
  <2>2. \A q \in Procs \ {p} : snap'[q] = snap[q] /\ pc'[q] = pc[q]
    BY <1>10, <2>1
  <2>3. snap'[p] = m
    BY <1>10, <2>1
  <2>4. CASE p \in Kids
    <3>1. p \notin Roots
      BY <2>4, BindingsConstants
    <3>2. m.left = {} /\ m.got = ByVar(stack[p])
      BY <3>1
    <3>3. ByVar(stack[p])' = ByVar(stack[p])
      BY <2>1 DEF ByVar, At, Nth
    <3> HIDE DEF m
    <3>4. GotAt(p)'
      BY <2>3, <3>1, <3>2, <3>3 DEF GotAt
    <3> QED  BY <1>1, <2>2, <3>4
  <2>5. CASE p \in Roots
    <3>1. p \notin Kids
      BY <2>5, BindingsConstants
    <3>2. m.left = registry
      BY <2>5
    <3> HIDE DEF m
    <3>3. ASSUME NEW v \in PushedVars(p), v \notin overlapped PROVE v \in registry
      <4>1. v \in Vars /\ Open(p, v) # {} /\ v \in Uses(p)
        BY <3>3, PushedType, PushedOpen, OpenUses DEF PushedIsOpen
      <4>2. Held(v) # {}
        <5>1. PICK t : t \in Open(p, v)
          BY <4>1
        <5>2. <<p, t>> \in {p} \X Open(p, v)
          BY <5>1
        <5> QED  BY <2>5, <5>2 DEF Held
      <4>3. chain[v] # <<>>
        BY <4>1, <4>2, HeldChain DEF RootInv
      <4>4. ASSUME v \notin registry PROVE FALSE
        <5>1. PICK q \in Roots : pc[q] = "add" /\ cur[q] = v
          BY <3>3, <4>1, <4>3, <4>4 DEF RootInv, RegistryHonest
        <5>2. v # None
          BY <4>1, BindingsConstants
        <5>3. v \in Uses(q) /\ q # p
          BY <2>1, <5>1, <5>2 DEF Uses
        <5> QED  BY <2>5, <3>3, <4>1, <5>3 DEF ApartInv
      <4> QED  BY <4>4
    <3>4. PushedVars(p)' = PushedVars(p) /\ overlapped' = overlapped
      BY <1>0 DEF Aloof, PushedVars
    <3>5. GotAt(p)'
      BY <2>3, <3>1, <3>2, <3>3, <3>4 DEF GotAt
    <3> QED  BY <1>1, <2>2, <3>5
  <2> QED  BY <2>4, <2>5 DEF Procs
<1>3. ASSUME NEW u \in Vars, ReadChain(p, u) PROVE GotInv'
  <2> DEFINE l == snap[p].left \ {u}
             g == [snap[p].got EXCEPT ![u] = chain[u]]
  <2>1. /\ pc[p] = "snap" /\ u \in snap[p].left /\ pc' = pc
        /\ snap' = [snap EXCEPT ![p].left = @ \ {u}, ![p].got[u] = chain[u]]
    BY <1>3 DEF ReadChain
  <2>2. \A q \in Procs \ {p} : snap'[q] = snap[q] /\ pc'[q] = pc[q]
    BY <1>10, <2>1
  <2>3. snap'[p].left = l /\ snap'[p].got = g
    BY <1>10, <2>1
  <2>4. GotAt(p) /\ p \notin Kids /\ p \in Roots
    BY <2>1 DEF GotInv, GotAt, Procs
  <2>5. PushedVars(p)' = PushedVars(p) /\ overlapped' = overlapped /\ chain' = chain
        /\ leaked' = leaked
    BY <1>0 DEF Aloof, PushedVars
  <2>6. snap[p].got \in View
    BY <1>10
  <2>7. ASSUME NEW v \in PushedVars(p), v \notin leaked, v \notin overlapped
        PROVE  v \in l \/ g[v] = chain[v]
    <3>1. v \in snap[p].left \/ snap[p].got[v] = chain[v]
      BY <2>4, <2>7 DEF GotAt
    <3>2. v \in Vars
      BY PushedType
    <3> QED  BY <2>6, <3>1, <3>2 DEF View
  <2> HIDE DEF l, g
  <2>8. GotAt(p)'
    BY <2>3, <2>4, <2>5, <2>7 DEF GotAt
  <2> QED  BY <1>1, <2>2, <2>8
<1>4. CASE Install(p)
  <2>1. PICK k \in Kids : \E u : Installed(p, k, u)
    BY <1>4, InstallForms
  <2>2. PICK u : Installed(p, k, u)
    BY <2>1
  <2>3. /\ pc'[p] \in {"wait", "run"} /\ pc'[k] = "run"
        /\ \A q \in Procs \ {p, k} : pc'[q] = pc[q]
        /\ snap' = [snap EXCEPT ![p] = NoSnap]
    BY <2>2 DEF Installed
  <2>4. \A q \in Procs \ {p} : snap'[q] = snap[q] /\ (pc'[q] = "snap" => pc[q] = "snap")
    BY <1>10, <2>3
  <2> QED  BY <1>1, <2>3, <2>4
<1>5. CASE CaptureBound(p)
  <2>1. pc' = [pc EXCEPT ![p] = "run"] /\ snap' = [snap EXCEPT ![p] = NoSnap]
    BY <1>5 DEF CaptureBound
  <2> QED  BY <1>1, <1>10, <2>1
<1> QED  BY <1>2, <1>3, <1>4, <1>5 DEF SnapStep

\* There is one bound function: it is captured once, and called after that.
LEMMA BoundSnaps ==
    ASSUME RootInv, RestTypes, BoundInv, NEW p \in Procs, SnapStep(p)
    PROVE  BoundInv'
<1>10. /\ DOMAIN snap = Procs
       /\ snap \in [Procs -> [for : Purposes \union {NoSnap.for}, left : SUBSET Vars, got : View]]
  BY DEF RootInv, RootTypes, RestTypes
<1>11. NoSnap.for.what = "none"
  BY DEF NoSnap
<1>1. ASSUME NEW for \in Purposes, BeginSnapshot(p, for) PROVE BoundInv'
  <2> DEFINE m == IF p \in Roots THEN [for |-> for, left |-> registry, got |-> Empty]
                  ELSE [for |-> for, left |-> {}, got |-> ByVar(stack[p])]
  <2>1. /\ snap' = [snap EXCEPT ![p] = m] /\ captured' = captured
        /\ for.what = "bound" =>
              captured = None /\ \A q \in Procs : snap[q].for.what # "bound"
        /\ for.what = "call" => captured # None
    BY <1>1 DEF BeginSnapshot
  <2>2. m.for = for
    OBVIOUS
  <2> HIDE DEF m
  <2>3. \A q \in Procs : snap'[q] = IF q = p THEN m ELSE snap[q]
    BY <1>10, <2>1
  <2> QED  BY <2>1, <2>2, <2>3 DEF BoundInv
<1>2. ASSUME NEW v \in Vars, ReadChain(p, v) PROVE BoundInv'
  <2>1. /\ snap' = [snap EXCEPT ![p].left = @ \ {v}, ![p].got[v] = chain[v]]
        /\ captured' = captured
    BY <1>2 DEF ReadChain
  <2>2. \A q \in Procs : snap'[q].for = snap[q].for
    BY <1>10, <2>1
  <2> QED  BY <2>1, <2>2 DEF BoundInv
<1>3. CASE Install(p)
  <2>1. snap' = [snap EXCEPT ![p] = NoSnap] /\ captured' = captured
    BY <1>3 DEF Install
  <2>2. \A q \in Procs : snap'[q] = IF q = p THEN NoSnap ELSE snap[q]
    BY <1>10, <2>1
  <2> QED  BY <1>11, <2>1, <2>2 DEF BoundInv
<1>4. CASE CaptureBound(p)
  <2>1. snap' = [snap EXCEPT ![p] = NoSnap] /\ snap[p].for.what = "bound"
    BY <1>4 DEF CaptureBound
  <2>2. \A q \in Procs : snap'[q] = IF q = p THEN NoSnap ELSE snap[q]
    BY <1>10, <2>1
  <2>3. captured = None /\ \A q \in Procs \ {p} : snap[q].for.what \notin {"bound", "call"}
    BY <2>1 DEF BoundInv
  <2> QED  BY <1>11, <2>2, <2>3 DEF BoundInv
<1> QED  BY <1>1, <1>2, <1>3, <1>4 DEF SnapStep

-----------------------------------------------------------------------------
(* The invariant, and what follows from it.                                *)

\* TypeOK has all of RestTypes.
LEMMA TypesRest == TypeOK => RestTypes
BY DEF TypeOK, RestTypes, Pairs, View

\* The invariant holds initially ...
LEMMA BindInit == Init => BindInv
<1> SUFFICES ASSUME Init PROVE BindInv
  OBVIOUS
<1>0. RootInv
  BY InvInit
<1>1. /\ stack = [k \in Kids |-> <<>>] /\ captured = None /\ leaked = {}
      /\ pc = [p \in Procs |-> IF p \in Roots THEN "run" ELSE "none"]
      /\ cur = [p \in Procs |-> None] /\ frames = [p \in Procs |-> <<>>]
      /\ snap = [p \in Procs |-> NoSnap] /\ parent = [k \in Kids |-> None]
  BY DEF Init
<1>2. NoSnap.for.what = "none"
  BY DEF NoSnap
<1>3. \A p \in Procs : PushedVars(p) = {} /\ \A v : Open(p, v) = {}
  <2>1. \A p \in Procs : frames[p] = <<>>
    BY <1>1
  <2>2. DOMAIN <<>> = {} /\ Elems(<<>>) = {}
    BY DEF Elems
  <2> QED  BY <2>1, <2>2 DEF PushedVars, Open
<1>4. TypeOK
  <2>1. RestTypes
    <3>1. snap \in [Procs -> [for : Purposes \union {NoSnap.for}, left : SUBSET Vars, got : View]]
      <4>1. Empty \in View /\ NoSnap = [for |-> NoSnap.for, left |-> {}, got |-> Empty]
        BY NoSnapType
      <4>2. NoSnap \in [for : Purposes \union {NoSnap.for}, left : SUBSET Vars, got : View]
        BY <4>1
      <4> QED  BY <1>1, <4>2
    <3>2. stack \in [Kids -> Seq(Pairs)]
      BY <1>1
    <3> QED  BY <1>1, <3>1, <3>2 DEF RestTypes
  <2> QED  BY <1>0, <2>1, AllTypes DEF RootInv
<1>5. OwnInv
  BY <1>3 DEF OwnInv
<1>6. ApartInv
  BY <1>1, <1>3 DEF ApartInv, Uses, Procs
<1>7. GotInv
  BY <1>1 DEF GotInv
<1>8. BoundInv
  BY <1>1, <1>2 DEF BoundInv
<1>9. FreshInv
  BY <1>1 DEF FreshInv
<1> QED  BY <1>0, <1>4, <1>5, <1>6, <1>7, <1>8, <1>9 DEF BindInv

\* A step is a step of a form or of a snapshot.
LEMMA StepForms ==
    ASSUME NEW p \in Procs, Step(p)
    PROVE  FormStep(p) \/ SnapStep(p)
BY DEF Step, FormStep, SnapStep

\* The conjuncts of the invariant after a step that leaves the forms alone.
LEMMA BindAloof ==
    ASSUME BindInv, [Next]_vars, Aloof, GotInv', BoundInv'
    PROVE  BindInv'
<1>1. RootInv /\ RestTypes /\ OwnInv /\ ApartInv /\ BoundInv /\ FreshInv
  BY TypesRest DEF BindInv
<1>2. RootInv'
  BY <1>1, InvNext
<1>3. RestTypes'
  BY <1>1, InvRest
<1>4. TypeOK'
  <2>1. RootTypes' /\ RestTypes' => TypeOK'
    BY AllTypes, PTL
  <2> QED  BY <1>2, <1>3, <2>1 DEF RootInv
<1>5. OwnInv' /\ ApartInv' /\ FreshInv'
  BY <1>1, <1>2, OwnAloof, ApartAloof, FreshAloof
<1> QED  BY <1>2, <1>4, <1>5 DEF BindInv

\* ... and is inductive.
LEMMA BindNext == BindInv /\ [Next]_vars => BindInv'
<1> SUFFICES ASSUME BindInv, [Next]_vars PROVE BindInv'
  OBVIOUS
<1>0. RootInv /\ RestTypes /\ OwnInv /\ ApartInv /\ GotInv /\ BoundInv /\ FreshInv
  BY TypesRest DEF BindInv
<1>1. RootInv'
  BY <1>0, InvNext
<1>2. ASSUME NEW p \in Procs, FormStep(p) PROVE BindInv'
  <2>1. RestTypes'
    BY <1>0, InvRest
  <2>2. TypeOK'
    <3>1. RootTypes' /\ RestTypes' => TypeOK'
      BY AllTypes, PTL
    <3> QED  BY <1>1, <2>1, <3>1 DEF RootInv
  <2>3. Alone(p)
    BY <1>0, <1>2, FormAlone
  <2>4. OwnInv' /\ ApartInv' /\ GotInv' /\ FreshInv'
    BY <1>0, <1>1, <1>2, <2>3, OwnForms, ApartForms, GotForms, FreshForms
  <2>5. BoundInv'
    BY <1>0, <2>3 DEF Alone, BoundInv
  <2> QED  BY <1>1, <2>2, <2>4, <2>5 DEF BindInv
<1>3. ASSUME NEW p \in Procs, SnapStep(p) PROVE BindInv'
  BY <1>0, <1>1, <1>3, SnapAloof, GotSnaps, BoundSnaps, BindAloof
<1>4. ASSUME Aloof, snap' = snap, captured' = captured,
             \A q \in Procs : pc'[q] = "snap" => pc[q] = "snap"
      PROVE  BindInv'
  <2>1. ASSUME NEW q \in Procs, pc'[q] = "snap" PROVE GotAt(q)'
    <3>1. pc[q] = "snap" /\ snap'[q] = snap[q]
      BY <1>4, <2>1
    <3>2. GotAt(q)
      BY <1>0, <3>1 DEF GotInv, GotAt
    <3> QED  BY <1>0, <1>4, <3>1, <3>2, GotStill
  <2>2. GotInv'
    BY <2>1 DEF GotInv, GotAt
  <2>3. BoundInv'
    BY <1>0, <1>4 DEF BoundInv
  <2> QED  BY <1>4, <2>2, <2>3, BindAloof
<1>5. ASSUME NEW k \in Kids, Return(k) PROVE BindInv'
  <2>1. snap' = snap /\ captured' = captured
        /\ \A q \in Procs : pc'[q] \in {"done", "run", pc[q]}
    BY <1>5 DEF Return
  <2> QED  BY <1>0, <1>4, <1>5, <2>1, ReturnAloof
<1>6. CASE UNCHANGED vars
  <2>1. snap' = snap /\ captured' = captured /\ pc' = pc
    BY <1>6 DEF vars
  <2> QED  BY <1>4, <1>6, <2>1, StillAloof
<1>7. CASE Next
  BY <1>2, <1>3, <1>5, <1>7, StepForms DEF Next
<1> QED  BY <1>6, <1>7

(* For any number of threads, vars, forms and snapshots, all that BindInv  *)
(* says holds: what a thread has pushed is as far from the top of what it  *)
(* sees of the var as it pushed others after it.                           *)
THEOREM BindInvariant == Spec => []BindInv
BY BindInit, BindNext, PTL DEF Spec

(* Every variable has its type.                                            *)
THEOREM BindTypes == Spec => []TypeOK
<1>1. BindInv => TypeOK
  BY DEF BindInv
<1> QED  BY <1>1, BindInvariant, PTL

\* What a thread sees on top of a var it has bound is its own binding.
LEMMA OwnLast ==
    ASSUME RootInv, RestTypes, OwnInv, NEW p \in Procs, NEW v \in PushedVars(p),
           v \notin leaked, p \in Roots => v \notin overlapped,
           Leaving(p) => NamedOnce(Last(frames[p]), v)
    PROVE  /\ v \in Vars /\ Seen(p)[v] \in Seq(Values) /\ Seen(p)[v] # <<>>
           /\ Last(Seen(p)[v]) = OwnBinding(p, v)
<1>1. v \in Vars
  BY PushedType
<1>2. PICK t \in Open(p, v) : Above(p, v, t) = {} /\ ValueAt(p, t) = OwnBinding(p, v)
  BY OwnIs
<1>3. Counts(p, v, t)
  BY DEF Counts
<1>4. Cardinality(Above(p, v, t)) = 0
  BY <1>2, FS_EmptySet
<1>5. PICK s : s = Seen(p)[v]
  OBVIOUS
<1>6. s \in Seq(Values)
  BY <1>1, <1>5, SeenType
<1>7. 0 < Len(s) /\ s[Len(s) - 0] = OwnBinding(p, v)
  BY <1>1, <1>2, <1>3, <1>4, <1>5 DEF OwnInv
<1>8. s # <<>> /\ Last(s) = OwnBinding(p, v)
  <2>1. Len(s) \in Nat /\ Len(s) - 0 = Len(s)
    BY <1>6
  <2> QED  BY <1>7, <2>1 DEF Last
<1> QED  BY <1>1, <1>5, <1>6, <1>8

\* deref reads what OwnInv says is on top.
LEMMA OwnShows == BindInv => OwnBindingVisible
<1> SUFFICES ASSUME BindInv, NEW p \in Procs, NEW v \in PushedVars(p) \ leaked,
                    p \in Roots => v \notin overlapped,
                    Leaving(p) => NamedOnce(Last(frames[p]), v)
             PROVE  HasBinding(p, v) /\ deref(p, v) = OwnBinding(p, v)
  BY DEF OwnBindingVisible
<1>1. RootInv /\ RestTypes /\ OwnInv
  BY TypesRest DEF BindInv
<1>2. /\ v \in Vars /\ Seen(p)[v] \in Seq(Values) /\ Seen(p)[v] # <<>>
      /\ Last(Seen(p)[v]) = OwnBinding(p, v)
  BY <1>1, OwnLast
<1>3. CASE p \in Roots
  BY <1>2, <1>3 DEF HasBinding, deref, Seen
<1>4. CASE p \notin Roots
  <2>1. stack[p] \in Seq(Pairs) /\ Seen(p) = ByVar(stack[p])
    BY <1>1, <1>4, SeenType
  <2>2. Last(Seen(p)[v]) \in Values
    BY <1>2, Shortened
  <2>3. TopOf(stack[p], v) # 0 /\ stack[p][TopOf(stack[p], v)][2] = Last(ByVar(stack[p])[v])
    BY <1>2, <2>1, <2>2, TopView
  <2> QED  BY <1>2, <1>4, <2>1, <2>3 DEF HasBinding, deref
<1> QED  BY <1>3, <1>4

(* In a context of its own a thread always sees its own innermost binding  *)
(* of a var, in the root context whenever no other thread bound the var at *)
(* the same time.                                                          *)
THEOREM OwnVisible == Spec => []OwnBindingVisible
BY BindInvariant, OwnShows, PTL

\* The only step that starts a kid installs its context.
LEMMA StartsKid ==
    ASSUME RootInv, RestTypes, BoundInv, [Next]_vars,
           NEW k \in Kids, pc[k] = "none", pc'[k] = "run"
    PROVE  \E p \in Procs : \E u : Installed(p, k, u)
<1>0. pc \in [Procs -> PCs] /\ k \in Procs
  BY DEF RootInv, RootTypes, Procs
<1>1. ASSUME NEW p \in Procs, FormStep(p) PROVE FALSE
  <2>1. Alone(p)
    BY <1>1, FormAlone
  <2> QED  BY <1>0, <2>1 DEF Alone
<1>2. ASSUME NEW j \in Kids, Return(j) PROVE FALSE
  <2>1. pc[j] = "run" /\ \A q \in Procs : pc'[q] = pc[q] \/ q = j \/ pc[q] = "wait"
    BY <1>2 DEF Return
  <2> QED  BY <1>0, <2>1
<1>3. ASSUME UNCHANGED vars PROVE FALSE
  BY <1>3 DEF vars
<1>4. ASSUME NEW p \in Procs, SnapStep(p) PROVE \E u : Installed(p, k, u)
  <2>1. ASSUME NEW for \in Purposes, BeginSnapshot(p, for) PROVE FALSE
    BY <1>0, <2>1 DEF BeginSnapshot
  <2>2. ASSUME NEW v \in Vars, ReadChain(p, v) PROVE FALSE
    BY <2>2 DEF ReadChain
  <2>3. ASSUME CaptureBound(p) PROVE FALSE
    BY <1>0, <2>3 DEF CaptureBound
  <2>4. ASSUME Install(p) PROVE \E u : Installed(p, k, u)
    <3>1. PICK j \in Kids : \E u : Installed(p, j, u)
      BY <2>4, InstallForms
    <3>2. PICK u : Installed(p, j, u)
      BY <3>1
    <3>3. pc[p] = "snap" /\ \A q \in Procs \ {p, j} : pc'[q] = pc[q]
      BY <3>2 DEF Installed
    <3>4. j = k
      BY <1>0, <3>3
    <3> QED  BY <3>2, <3>4
  <2> QED  BY <1>4, <2>1, <2>2, <2>3, <2>4 DEF SnapStep
<1> QED  BY <1>1, <1>2, <1>3, <1>4, StepForms DEF Next

Conveyed(k) ==
    LET p == parent'[k]
    IN  \A v \in PushedVars(p) \ leaked :
          (p \in Roots => v \notin overlapped)
          /\ ~(snap[p].for.what = "call" /\ captured[v] # <<>>)
          => /\ TopOf(stack'[k], v) # 0
             /\ stack'[k][TopOf(stack'[k], v)][2] = OwnBinding(p, v)

\* Where the bound function captured nothing, the caller's values show.
LEMMA NothingOver ==
    ASSUME NEW m \in View, NEW n \in View, NEW v \in Vars, n[v] = <<>>
    PROVE  Laid(m, n)[v] = m[v]
<1>1. PICK s \in Seq(Values) : s = m[v]
  BY DEF View
<1>2. s \o <<>> = s
  BY <1>1
<1>3. Laid(m, n)[v] = m[v] \o n[v]
  BY DEF Laid
<1> QED  BY <1>1, <1>2, <1>3

\* The kid sees the bindings of its spawner.
LEMMA InstallConveys ==
    ASSUME BindInv, NEW p \in Procs, NEW k \in Kids, NEW u, Installed(p, k, u)
    PROVE  Conveyed(k)
<1>0. RootInv /\ RestTypes /\ OwnInv /\ GotInv /\ BoundInv
  BY TypesRest DEF BindInv
<1>1. /\ pc[p] = "snap" /\ stack' = [stack EXCEPT ![k] = u] /\ u \in Seq(Pairs)
      /\ parent' = [parent EXCEPT ![k] = p] /\ snap[p].left = {} /\ snap[p].got \in View
      /\ snap[p].for.what = "call" =>
            captured \in View /\ ByVar(u) = Laid(snap[p].got, captured)
      /\ snap[p].for.what # "call" => ByVar(u) = snap[p].got
  BY DEF Installed
<1>2. stack'[k] = u /\ parent'[k] = p
  BY <1>0, <1>1 DEF RestTypes
<1>3. ASSUME NEW v \in PushedVars(p) \ leaked, p \in Roots => v \notin overlapped,
             ~(snap[p].for.what = "call" /\ captured[v] # <<>>)
      PROVE  TopOf(u, v) # 0 /\ u[TopOf(u, v)][2] = OwnBinding(p, v)
  <2>1. /\ v \in Vars /\ Seen(p)[v] \in Seq(Values) /\ Seen(p)[v] # <<>>
        /\ Last(Seen(p)[v]) = OwnBinding(p, v)
    <3>1. ~Leaving(p)
      BY <1>1 DEF Leaving
    <3> QED  BY <1>0, <1>3, <3>1, OwnLast
  <2>2. snap[p].got[v] = Seen(p)[v]
    <3>1. CASE p \in Roots
      BY <1>0, <1>1, <1>3, <3>1 DEF GotInv, Seen
    <3>2. CASE p \notin Roots
      BY <1>0, <1>1, <3>2 DEF GotInv, Seen, Procs
    <3> QED  BY <3>1, <3>2
  <2>3. ByVar(u)[v] = snap[p].got[v]
    <3>1. CASE snap[p].for.what = "call"
      <4>1. captured \in View /\ captured[v] = <<>> /\ ByVar(u) = Laid(snap[p].got, captured)
        BY <1>1, <1>3, <3>1
      <4> QED  BY <1>1, <2>1, <4>1, NothingOver
    <3>2. CASE snap[p].for.what # "call"
      BY <1>1, <3>2
    <3> QED  BY <3>1, <3>2
  <2>4. Last(Seen(p)[v]) \in Values
    BY <2>1, Shortened
  <2>5. ByVar(u)[v] = Seen(p)[v]
    BY <2>2, <2>3
  <2>6. TopOf(u, v) # 0
    BY <1>1, <2>1, <2>4, <2>5, TopView
  <2>7. u[TopOf(u, v)][2] = Last(ByVar(u)[v])
    BY <1>1, <2>1, <2>4, <2>6, TopView
  <2> QED  BY <2>1, <2>5, <2>6, <2>7
<1> QED  BY <1>2, <1>3 DEF Conveyed

\* Every step that starts a kid is an Install.
LEMMA ConveyStep ==
    BindInv /\ [Next]_vars =>
        [\A k \in Kids : pc[k] = "none" /\ pc'[k] = "run" => Conveyed(k)]_vars
<1> SUFFICES ASSUME BindInv, [Next]_vars, NEW k \in Kids, pc[k] = "none", pc'[k] = "run"
             PROVE  Conveyed(k)
  OBVIOUS
<1>1. RootInv /\ RestTypes /\ BoundInv
  BY TypesRest DEF BindInv
<1>2. PICK p \in Procs : \E u : Installed(p, k, u)
  BY <1>1, StartsKid
<1> QED  BY <1>2, InstallConveys

(* A future, a go block or a call of a bound function starts with the      *)
(* bindings its spawner has made, although the snapshot of the root        *)
(* context is read one chain at a time while other threads bind.           *)
THEOREM Conveys == Spec => BindingsConveyed
<1>1. BindInv /\ [Next]_vars =>
         [\A k \in Kids : pc[k] = "none" /\ pc'[k] = "run" =>
             LET p == parent'[k]
             IN  \A v \in PushedVars(p) \ leaked :
                   (p \in Roots => v \notin overlapped)
                   /\ ~(snap[p].for.what = "call" /\ captured[v] # <<>>)
                   => /\ TopOf(stack'[k], v) # 0
                      /\ stack'[k][TopOf(stack'[k], v)][2] = OwnBinding(p, v)]_vars
  BY ConveyStep DEF Conveyed
<1> QED  BY <1>1, BindInvariant, PTL DEF Spec, BindingsConveyed

-----------------------------------------------------------------------------
(* Child contexts implement DynScope.                                      *)

\* The contexts of DynScope before and after a step.
LEMMA ScopeIs ==
    /\ \A k \in Kids : scope[k] = IF pc[k] = "none" THEN None ELSE ByVar(stack[k])
    /\ \A k \in Kids : scope'[k] = IF pc'[k] = "none" THEN None ELSE ByVar(stack[k])'
    /\ DOMAIN scope = Kids /\ DOMAIN scope' = Kids
BY DEF scope

\* Nothing happens to a context whose stack and status stay.
LEMMA ScopeStill ==
    ASSUME NEW k \in Kids, stack'[k] = stack[k], pc'[k] = "none" <=> pc[k] = "none"
    PROVE  scope'[k] = scope[k]
<1>1. ByVar(stack[k])' = ByVar(stack[k])
  BY DEF ByVar, At, Nth
<1> QED  BY <1>1, ScopeIs

\* Contexts of which each stays are the same contexts.
LEMMA ScopeSame ==
    ASSUME \A k \in Kids : scope'[k] = scope[k]
    PROVE  scope' = scope
BY DEF scope

\* A context that is in use changes by what its thread does to one var.
LEMMA ScopeForms ==
    ASSUME RootInv, RestTypes, NEW p \in Procs, FormStep(p)
    PROVE  DS!Next \/ UNCHANGED <<scope, parent, captured>>
<1>0. Alone(p)
  BY FormAlone
<1>1. \A k \in Kids \ {p} : scope'[k] = scope[k]
  <2>1. ASSUME NEW k \in Kids \ {p} PROVE scope'[k] = scope[k]
    <3>1. stack'[k] = stack[k]
      BY FormStacks
    <3>2. pc'[k] = pc[k]
      BY <1>0 DEF Alone, Procs
    <3> QED  BY <3>1, <3>2, ScopeStill
  <2> QED  BY <2>1
<1>2. parent' = parent /\ captured' = captured
  BY <1>0 DEF Alone
<1>3. CASE p \notin Kids
  BY <1>1, <1>2, <1>3, ScopeSame
<1>4. CASE p \in Kids
  <2>1. p \notin Roots /\ pc[p] # "none" /\ pc'[p] # "none"
    BY <1>0, <1>4, BindingsConstants DEF Alone
  <2>2. scope[p] = Seen(p) /\ scope'[p] = Seen(p)'
    BY <1>4, <2>1, ScopeIs DEF Seen
  <2>3. Seen(p) \in View /\ None \notin View
    BY SeenType, BindingsConstants DEF View
  <2>4. CASE Seen(p)' = Seen(p)
    BY <1>1, <1>2, <2>2, <2>4, ScopeSame
  <2>5. ASSUME Seen(p)' # Seen(p),
               \E v \in Vars : \/ \E x \in Values : Seen(p)' = Pushed(Seen(p), v, x)
                               \/ Seen(p)[v] # <<>> /\ Seen(p)' = Dropped(Seen(p), v)
                               \/ Seen(p)[v] # <<>> /\ \E x \in Values : Seen(p)' = Set(Seen(p), v, x)
        PROVE  DS!Next
    <3>1. PICK m, n : m \in View /\ m = Seen(p) /\ n = Seen(p)' /\ n # m
      BY <2>3, <2>5
    <3>2. DS!Only(p)
      BY <1>1, <1>2, <2>2, <3>1 DEF DS!Only
    <3>3. PICK v \in Vars : \/ \E x \in Values : n = Pushed(m, v, x)
                            \/ m[v] # <<>> /\ n = Dropped(m, v)
                            \/ m[v] # <<>> /\ \E x \in Values : n = Set(m, v, x)
      BY <2>5, <3>1
    <3>4. scope[p] = m /\ scope'[p] = n /\ scope[p] # None
      BY <2>2, <2>3, <3>1
    <3>5. DS!Bind(p, v) \/ DS!Unbind(p, v) \/ DS!Assign(p, v)
      BY <3>3, <3>4 DEF DS!Bind, DS!Unbind, DS!Assign, Pushed, Dropped, Set, Front
    <3> QED  BY <1>2, <1>4, <3>2, <3>4, <3>5 DEF DS!Next, DS!Evolve
  <2>6. CASE Push(p)
    <3>1. PICK u \in Vars, x \in Values :
            /\ u = frames[p][Len(frames[p])].vs[Len(frames[p][Len(frames[p])].pushed) + 1]
            /\ x = <<p, ops[p]>>
      BY <2>6, PushForms
    <3>2. Seen(p)' = Pushed(Seen(p), u, x)
      BY <2>6, <3>1, SeenPush DEF Alters
    <3> QED  BY <2>4, <2>5, <3>2
  <2>7. CASE Pop(p)
    <3>0. PICK d, m, e, u : Popped(p, d, m, e, u)
      BY DEF Popped
    <3>1. u \in Vars /\ u = frames[p][Len(frames[p])].pushed[1][1]
      BY <2>7, <3>0, PopForms DEF PopResult, Popped
    <3>2. /\ Seen(p)[u] # <<>> => Seen(p)' = Dropped(Seen(p), u)
          /\ Seen(p)[u] = <<>> => Seen(p)' = Seen(p)
      BY <2>7, <3>1, SeenPop DEF Alters
    <3> QED  BY <2>4, <2>5, <3>1, <3>2
  <2>8. ASSUME NEW u \in Vars, SetCurrent(p, u) PROVE DS!Next \/ Seen(p)' = Seen(p)
    <3>1. PICK x \in Values : x = <<p, ops[p] + 1>>
      BY <2>8, SetValue
    <3>2. Seen(p)[u] # <<>> /\ Seen(p)' = Set(Seen(p), u, x)
      BY <2>8, <3>1, SeenSet DEF Alters
    <3> QED  BY <2>5, <3>2
  <2>9. CASE RegistryAdd(p) \/ RegistryRemove(p) \/ Leave(p) \/ InitThrows(p)
             \/ \E vs \in Forms[p] : Enter(p, vs)
    <3>1. chain' = chain /\ stack' = stack
      BY <2>9 DEF RegistryAdd, RegistryRemove, Leave, InitThrows, Enter, ctxVars
    <3> QED  BY <2>4, <3>1 DEF Seen
  <2> QED  BY <2>4, <2>6, <2>7, <2>8, <2>9 DEF FormStep
<1> QED  BY <1>3, <1>4

\* Install is Fork for a spawner in a child context, FromRoot for one in the root.
LEMMA ScopeInstall ==
    ASSUME RootInv, RestTypes, GotInv, NEW p \in Procs, NEW k \in Kids, NEW u,
           Installed(p, k, u)
    PROVE  DS!Next
<1>1. /\ k # p /\ pc[p] = "snap" /\ pc'[p] \in {"wait", "run"} /\ pc[k] = "none" /\ pc'[k] = "run"
      /\ \A q \in Procs \ {p, k} : pc'[q] = pc[q]
      /\ stack' = [stack EXCEPT ![k] = u] /\ u \in Seq(Pairs)
      /\ parent' = [parent EXCEPT ![k] = p] /\ snap[p].got \in View
      /\ snap[p].for.what = "call" =>
            captured \in View /\ ByVar(u) = Laid(snap[p].got, captured)
      /\ snap[p].for.what # "call" => ByVar(u) = snap[p].got
      /\ captured' = captured
  BY DEF Installed
<1>2. /\ stack'[k] = u /\ parent'[k] = p
      /\ \A j \in Kids \ {k} : stack'[j] = stack[j] /\ parent'[j] = parent[j]
  BY <1>1 DEF RestTypes
<1>3. ASSUME NEW j \in Kids \ {k} PROVE scope'[j] = scope[j] /\ parent'[j] = parent[j]
  <2>1. pc'[j] = "none" <=> pc[j] = "none"
    BY <1>1 DEF Procs
  <2> QED  BY <1>2, <2>1, ScopeStill
<1>4. None \notin View
  BY BindingsConstants DEF View
<1>5. ByVar(u) \in View
  BY <1>1, ByVarType DEF View
<1>6. ByVar(stack[k])' = ByVar(u)
  BY <1>2 DEF ByVar, At, Nth
<1>7. scope[k] = None /\ scope'[k] = ByVar(u) /\ scope'[k] # scope[k]
  BY <1>1, <1>4, <1>5, <1>6, ScopeIs
<1>8. DS!Only(k)
  BY <1>1, <1>3, <1>7 DEF DS!Only
<1>9. CASE p \notin Kids
  <2>1. DS!FromRoot(k)
    BY <1>2, <1>5, <1>7, <1>9 DEF DS!FromRoot, DS!Scopes, View
  <2> QED  BY <1>7, <1>8, <2>1 DEF DS!Next, DS!Evolve
<1>10. CASE p \in Kids
  <2>1. snap[p].got = ByVar(stack[p])
    BY <1>1, <1>10 DEF GotInv
  <2>2. scope[p] = snap[p].got /\ scope[p] # None
    BY <1>1, <1>4, <1>10, <2>1, ScopeIs
  <2>3. captured \in View => captured # None
    BY <1>4
  <2>4. Laid(snap[p].got, captured) = DS!Over(scope[p])
    BY <2>2 DEF Laid, DS!Over
  <2>5. DS!Fork(p, k)
    BY <1>1, <1>2, <1>7, <2>2, <2>3, <2>4 DEF DS!Fork
  <2> QED  BY <1>7, <1>8, <1>10, <2>5 DEF DS!Next, DS!Evolve
<1> QED  BY <1>9, <1>10

\* bound-fn* is Capture; the rest of a snapshot is not seen.
LEMMA ScopeSnaps ==
    ASSUME RootInv, RestTypes, GotInv, BoundInv, NEW p \in Procs, SnapStep(p)
    PROVE  DS!Next \/ UNCHANGED <<scope, parent, captured>>
<1>0. pc \in [Procs -> PCs]
  BY DEF RootInv, RootTypes
<1>1. ASSUME stack' = stack, \A k \in Kids : pc'[k] = "none" <=> pc[k] = "none"
      PROVE  scope' = scope
  BY <1>1, ScopeStill, ScopeSame
<1>2. ASSUME NEW for \in Purposes, BeginSnapshot(p, for)
      PROVE  UNCHANGED <<scope, parent, captured>>
  <2>1. /\ pc[p] = "run" /\ pc' = [pc EXCEPT ![p] = "snap"]
        /\ stack' = stack /\ parent' = parent /\ captured' = captured
    BY <1>2 DEF BeginSnapshot, ctxVars
  <2>2. \A k \in Kids : pc'[k] = "none" <=> pc[k] = "none"
    BY <1>0, <2>1 DEF Procs
  <2> QED  BY <1>1, <2>1, <2>2
<1>3. ASSUME NEW v \in Vars, ReadChain(p, v) PROVE UNCHANGED <<scope, parent, captured>>
  BY <1>1, <1>3 DEF ReadChain, ctxVars
<1>4. CASE Install(p)
  BY <1>4, InstallForms, ScopeInstall
<1>5. CASE CaptureBound(p)
  <2>1. /\ pc[p] = "snap" /\ pc' = [pc EXCEPT ![p] = "run"]
        /\ stack' = stack /\ parent' = parent
        /\ captured' = IF snap[p].got = Empty THEN None ELSE snap[p].got
    BY <1>5 DEF CaptureBound, ctxVars
  <2>2. \A k \in Kids : pc'[k] = "none" <=> pc[k] = "none"
    BY <1>0, <2>1 DEF Procs
  <2>3. scope' = scope
    BY <1>1, <2>1, <2>2
  <2>4. captured' \in View \union {None}
    BY <2>1 DEF RestTypes
  <2> QED  BY <2>1, <2>3, <2>4 DEF DS!Next, DS!Capture, DS!Scopes, View
<1> QED  BY <1>2, <1>3, <1>4, <1>5 DEF SnapStep

\* Every step is a step of DynScope or none.
LEMMA ScopeStep ==
    BindInv /\ [Next]_vars => [DS!Next]_<<scope, parent, captured>>
<1> SUFFICES ASSUME BindInv, [Next]_vars
             PROVE  DS!Next \/ UNCHANGED <<scope, parent, captured>>
  OBVIOUS
<1>1. RootInv /\ RestTypes /\ GotInv /\ BoundInv
  BY TypesRest DEF BindInv
<1>2. ASSUME NEW j \in Kids, Return(j) PROVE UNCHANGED <<scope, parent, captured>>
  <2>1. /\ stack' = stack /\ parent' = parent /\ captured' = captured
        /\ pc[j] = "run" /\ \A q \in Procs : \/ pc'[q] = pc[q] \/ (q = j /\ pc'[q] = "done")
                                             \/ (pc[q] = "wait" /\ pc'[q] = "run")
    <3>1. pc' = [q \in Procs |->
                IF q = j THEN "done"
                ELSE IF q = parent[j] /\ pc[q] = "wait" THEN "run" ELSE pc[q]]
      BY <1>2 DEF Return
    <3> QED  BY <1>2, <3>1 DEF Return, ctxVars
  <2>2. ASSUME NEW k \in Kids PROVE scope'[k] = scope[k]
    <3>1. pc'[k] = "none" <=> pc[k] = "none"
      BY <2>1 DEF Procs
    <3> QED  BY <2>1, <3>1, ScopeStill
  <2> QED  BY <2>1, <2>2, ScopeSame
<1>3. CASE UNCHANGED vars
  <2>1. stack' = stack /\ pc' = pc /\ parent' = parent /\ captured' = captured
    BY <1>3 DEF vars, ctxVars
  <2>2. scope' = scope
    BY <2>1, ScopeStill, ScopeSame
  <2> QED  BY <2>1, <2>2
<1>4. CASE Next
  BY <1>1, <1>2, <1>4, StepForms, ScopeForms, ScopeSnaps DEF Next
<1> QED  BY <1>3, <1>4

\* Initially no context exists.
LEMMA ScopeInit == Init => DS!Init
<1> SUFFICES ASSUME Init PROVE DS!Init
  OBVIOUS
<1>1. /\ \A k \in Kids : pc[k] = "none"
      /\ parent = [k \in Kids |-> None] /\ captured = None
  BY BindingsConstants DEF Init, Procs
<1> QED  BY <1>1 DEF DS!Init, scope

(* Bindings implements DynScope: a child context, one chain of frames for  *)
(* all vars, behaves as a stack of its own for every var, which starts as  *)
(* a copy of its spawner's and which no other thread reads or changes.     *)
THEOREM ContextsIsolated == Spec => Isolated
<1>1. DS!Init /\ [][DS!Next]_<<scope, parent, captured>> => DS!Spec
  BY DEF DS!Spec
<1> QED  BY <1>1, ScopeInit, ScopeStep, BindInvariant, PTL DEF Spec, Isolated
-----------------------------------------------------------------------------
(* The initial states satisfy the invariant.                               *)
LEMMA PromiseInitInv == PromiseInit => PromiseInv
<1> SUFFICES ASSUME PromiseInit PROVE PromiseInv
  OBVIOUS
<1>1. PromiseTypeOK
  <2>1. /\ delivered \in BOOLEAN /\ closed \in BOOLEAN /\ ready \in BOOLEAN
        /\ kind \in Kinds
    BY DEF PromiseInit
  <2>2. calls \in [Threads -> 0..MaxCalls] /\ value = Unset /\ mu = Unset
    BY PromiseConstants DEF PromiseInit
  <2>3. /\ place \in [Threads -> {"idle", "check", "store", "flag", "close",
                              "wake", "wait", "waitTimed", "read"}]
        /\ arg \in [Writers -> Offers \union {Unset, Nil}]
        /\ got \in [Readers -> Offers \union {Unset, Nil, GaveUp}]
        /\ accepted \subseteq Writers
    BY DEF PromiseInit
  <2> QED
    BY <2>1, <2>2, <2>3 DEF PromiseTypeOK
<1>2. \A w \in Writers : place[w] = "idle" /\ mu # w
  BY PromiseConstants DEF PromiseInit, Threads
<1>3. \A r \in Readers : place[r] = "idle"
  BY DEF PromiseInit, Threads
<1>4. LockInv
  BY <1>2, <1>3 DEF PromiseInit, LockInv, Settled
<1> QED
  BY <1>1, <1>4 DEF PromiseInv

(* Each step of a Deliver keeps the invariant.                             *)
LEMMA PromiseDeliver ==
    ASSUME PromiseInv, NEW w \in Writers,
           Deliver(w) \/ \E v \in Offers \union {Nil} : DeliverLock(w, v)
    PROVE  PromiseInv'
<1> USE DEF PromiseInv, Goto, Settled
<1>0. w \in Threads /\ w # Unset /\ \A r \in Readers : r # w
  BY PromiseConstants DEF Threads
<1>1. ASSUME NEW v \in Offers \union {Nil}, DeliverLock(w, v) PROVE PromiseInv'
  <2>1. PromiseTypeOK'
    BY <1>0, <1>1, PromiseConstants DEF DeliverLock, PromiseTypeOK
  <2>2. LockInv'
    BY <1>0, <1>1, PromiseConstants DEF DeliverLock, LockInv, PromiseTypeOK, Threads
  <2> QED
    BY <2>1, <2>2
<1>2. CASE DeliverCheck(w)
  <2>1. PromiseTypeOK'
    BY <1>0, <1>2 DEF DeliverCheck, PromiseTypeOK
  <2>2. LockInv'
    BY <1>0, <1>2, PromiseConstants DEF DeliverCheck, LockInv, PromiseTypeOK, Threads
  <2> QED
    BY <2>1, <2>2
<1>3. CASE DeliverStore(w)
  <2>1. PromiseTypeOK'
    BY <1>0, <1>3 DEF DeliverStore, PromiseTypeOK, LockInv
  <2>2. LockInv'
    BY <1>0, <1>3, PromiseConstants DEF DeliverStore, LockInv, PromiseTypeOK, Threads
  <2> QED
    BY <2>1, <2>2
<1>4. CASE DeliverFlag(w)
  <2>1. PromiseTypeOK'
    BY <1>0, <1>4 DEF DeliverFlag, PromiseTypeOK
  <2>2. LockInv'
    BY <1>0, <1>4, PromiseConstants DEF DeliverFlag, LockInv, PromiseTypeOK, Threads
  <2> QED
    BY <2>1, <2>2
<1>5. CASE DeliverWake(w)
  <2>1. PromiseTypeOK'
    BY <1>0, <1>5 DEF DeliverWake, PromiseTypeOK
  <2>2. LockInv'
    BY <1>0, <1>5, PromiseConstants DEF DeliverWake, LockInv, PromiseTypeOK, Threads
  <2> QED
    BY <2>1, <2>2
<1>6. CASE CloseMark(w)
  <2>1. PromiseTypeOK'
    BY <1>0, <1>6 DEF CloseMark, PromiseTypeOK
  <2>2. LockInv'
    BY <1>0, <1>6, PromiseConstants DEF CloseMark, LockInv, PromiseTypeOK, Threads
  <2> QED
    BY <2>1, <2>2
<1> QED
  BY <1>1, <1>2, <1>3, <1>4, <1>5, <1>6 DEF Deliver

(* Each step of a Deref keeps the invariant.                               *)
LEMMA PromiseDeref ==
    ASSUME PromiseInv, NEW r \in Readers,
           \/ Deref(r) \/ DerefTimeout(r)
           \/ \E timed \in BOOLEAN : DerefLock(r, timed)
    PROVE  PromiseInv'
<1> USE DEF PromiseInv, Goto, Settled
<1>0. r \in Threads /\ \A w \in Writers : r # w
  BY PromiseConstants DEF Threads
<1>1. ASSUME NEW timed \in BOOLEAN, DerefLock(r, timed) PROVE PromiseInv'
  <2>1. PromiseTypeOK'
    <3>1. calls' \in [Threads -> 0..MaxCalls] /\ got' \in [Readers -> Offers \union {Unset, Nil, GaveUp}]
      BY <1>0, <1>1, PromiseConstants DEF DerefLock, PromiseTypeOK, Answer
    <3>2. place' \in [Threads -> {"idle", "check", "store", "flag", "close",
                               "wake", "wait", "waitTimed", "read"}]
      BY <1>0, <1>1 DEF DerefLock, PromiseTypeOK
    <3> QED
      BY <1>1, <3>1, <3>2 DEF DerefLock, PromiseTypeOK
  <2>2. LockInv'
    BY <1>0, <1>1, PromiseConstants DEF DerefLock, LockInv, PromiseTypeOK, Threads
  <2> QED
    BY <2>1, <2>2
<1>2. CASE DerefWoken(r)
  <2>1. PromiseTypeOK'
    BY <1>0, <1>2 DEF DerefWoken, PromiseTypeOK
  <2>2. LockInv'
    BY <1>0, <1>2, PromiseConstants DEF DerefWoken, LockInv, PromiseTypeOK, Threads
  <2> QED
    BY <2>1, <2>2
<1>3. CASE DerefRead(r)
  <2>1. PromiseTypeOK'
    BY <1>0, <1>3 DEF DerefRead, PromiseTypeOK, Answer
  <2>2. LockInv'
    BY <1>0, <1>3, PromiseConstants DEF DerefRead, LockInv, PromiseTypeOK, Threads
  <2> QED
    BY <2>1, <2>2
<1>4. CASE DerefTimeout(r)
  <2>1. PromiseTypeOK'
    BY <1>0, <1>4 DEF DerefTimeout, PromiseTypeOK
  <2>2. LockInv'
    BY <1>0, <1>4, PromiseConstants DEF DerefTimeout, LockInv, PromiseTypeOK, Threads
  <2> QED
    BY <2>1, <2>2
<1> QED
  BY <1>1, <1>2, <1>3, <1>4 DEF Deref

(* The invariant is inductive.                                             *)
LEMMA PromiseNextInv == PromiseInv /\ [PromiseNext]_promiseVars => PromiseInv'
<1> SUFFICES ASSUME PromiseInv, [PromiseNext]_promiseVars PROVE PromiseInv'
  OBVIOUS
<1>1. CASE PromiseNext
  BY <1>1, PromiseDeliver, PromiseDeref DEF PromiseNext
<1>2. CASE UNCHANGED promiseVars
  BY <1>2 DEF PromiseInv, PromiseTypeOK, LockInv, Settled, promiseVars
<1> QED
  BY <1>1, <1>2

(* Promise maintains its inductive invariant.                              *)
THEOREM PromiseInvariant == PromiseSpec => []PromiseInv
BY PromiseInitInv, PromiseNextInv, PTL DEF PromiseSpec

(* Every reachable state of a promise is well typed.                       *)
THEOREM PromiseTypeCorrect == PromiseSpec => []PromiseTypeOK
<1>1. PromiseInv => PromiseTypeOK
  BY DEF PromiseInv
<1> QED
  BY <1>1, PromiseInvariant, PTL

(* Deliver closes the wake-up channel once, and one caller is told that    *)
(* its value was taken.                                                    *)
THEOREM SingleDelivery == PromiseSpec => []WakesOnce
<1>1. PromiseInv => WakesOnce
  BY DEF PromiseInv, LockInv, WakesOnce
<1> QED
  BY <1>1, PromiseInvariant, PTL

-----------------------------------------------------------------------------
(* The abstract cell of a promise, as IsWriteOnce instantiates it.         *)
TheCell == IF closed THEN Nil ELSE value

(* Every step is a step of the cell or leaves it alone: storing the value  *)
(* or closing settles the cell, and a read that returns - under the mutex  *)
(* or after the wake-up - reads it.                                        *)
LEMMA PromiseStep ==
    PromiseInv /\ [PromiseNext]_promiseVars => [Cell!Next]_<<TheCell, got>>
<1> SUFFICES ASSUME PromiseInv, [PromiseNext]_promiseVars PROVE [Cell!Next]_<<TheCell, got>>
  OBVIOUS
<1> USE PromiseConstants DEF PromiseInv, Settled, TheCell
<1>a. Settled => TheCell # Unset /\ Answer = TheCell
  BY DEF LockInv, Answer
<1>1. ASSUME NEW w \in Writers, DeliverStore(w)
      PROVE  Cell!Next
  <2>1. /\ value = Unset /\ value' = arg[w] /\ arg[w] \in Offers /\ got' = got
        /\ ~closed /\ ~closed'
    BY <1>1 DEF DeliverStore, LockInv
  <2> QED
    BY <2>1 DEF Cell!Next, Cell!Settle
<1>2. ASSUME NEW w \in Writers, NEW v \in Offers \union {Nil}, DeliverLock(w, v)
      PROVE  UNCHANGED <<TheCell, got>>
  BY <1>2 DEF DeliverLock
<1>3. ASSUME NEW w \in Writers,
             DeliverCheck(w) \/ DeliverFlag(w) \/ DeliverWake(w)
      PROVE  UNCHANGED <<TheCell, got>>
  BY <1>3 DEF DeliverCheck, DeliverFlag, DeliverWake
<1>4. ASSUME NEW w \in Writers, CloseMark(w)
      PROVE  Cell!Next
  <2>1. value = Unset /\ value' = value /\ ~closed /\ closed' /\ got' = got
    BY <1>4 DEF CloseMark, LockInv
  <2> QED
    BY <2>1 DEF Cell!Next, Cell!Settle
<1>5. ASSUME NEW r \in Readers, NEW timed \in BOOLEAN, DerefLock(r, timed)
      PROVE  [Cell!Next]_<<TheCell, got>>
  <2>0. UNCHANGED TheCell
    BY <1>5 DEF DerefLock
  <2>1. CASE Settled
    <3>1. got' = [got EXCEPT ![r] = TheCell]
      BY <1>5, <2>1, <1>a DEF DerefLock
    <3> QED
      BY <2>0, <2>1, <3>1, <1>a DEF Cell!Next, Cell!Read
  <2>2. CASE ~Settled
    <3>1. got' = got
      BY <1>5, <2>2 DEF DerefLock, PromiseTypeOK
    <3> QED
      BY <2>0, <3>1
  <2> QED
    BY <2>1, <2>2
<1>6. ASSUME NEW r \in Readers, DerefRead(r)
      PROVE  Cell!Next
  <2>1. Settled
    BY <1>6 DEF DerefRead, LockInv
  <2>2. got' = [got EXCEPT ![r] = TheCell] /\ UNCHANGED TheCell
    BY <1>6, <2>1, <1>a DEF DerefRead
  <2> QED
    BY <2>1, <2>2, <1>a DEF Cell!Next, Cell!Read
<1>7. ASSUME NEW r \in Readers, DerefTimeout(r)
      PROVE  Cell!Next
  BY <1>7 DEF DerefTimeout, Cell!Next, Cell!GiveUp
<1>8. ASSUME NEW r \in Readers, DerefWoken(r)
      PROVE  UNCHANGED <<TheCell, got>>
  BY <1>8 DEF DerefWoken
<1>9. CASE UNCHANGED promiseVars
  BY <1>9 DEF promiseVars
<1>10. CASE PromiseNext
  BY <1>10, <1>1, <1>2, <1>3, <1>4, <1>5, <1>6, <1>7, <1>8 DEF PromiseNext, Deliver, Deref
<1> QED
  BY <1>9, <1>10

(* Promises and promise-chans are write-once cells: they are settled at    *)
(* most once, and every deref or take that answers without giving up       *)
(* answers what they were settled with.                                    *)
THEOREM PromiseRefines == PromiseSpec => IsWriteOnce
<1>1. PromiseInit => Cell!Init
  BY DEF PromiseInit, Cell!Init
<1>2. PromiseSpec => []PromiseInv
  BY PromiseInvariant
<1> QED
  BY <1>1, <1>2, PromiseStep, PTL DEF PromiseSpec, IsWriteOnce, Cell!Spec, TheCell
=============================================================================
