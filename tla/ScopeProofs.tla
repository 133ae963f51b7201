----------------------------- MODULE ScopeProofs -----------------------------
(***************************************************************************)
(* Proofs about Scope, for any tree of scopes, any number of threads and   *)
(* go-blocks and any number of drains.                                     *)
(***************************************************************************)
EXTENDS Scope, FiniteSetTheorems, WellFoundedInduction, TLAPS

(* A scope is among its own ancestors, and so is its parent.               *)
LEMMA UpFacts ==
    /\ \A s \in Scopes : s \in Up[s]
    /\ \A s \in Scopes \ {Root} : Parent[s] \in Scopes /\ Parent[s] \in Up[s]
<1>1. \A s \in Scopes : s \in Up[s]
  BY ScopeConstants
<1>2. QED
  BY <1>1, ScopeConstants

(* What TreeInv says of one context of an existing scope.                  *)
LEMMA ContextLine ==
    ASSUME TypeOK, TreeInv, NEW s \in created, NEW n \in 0..gen[s]
    PROVE  /\ line[s][n] \subseteq Up[s] \X (0..MaxGen)
           /\ \A a \in Up[s] : \E k \in 0..gen[a] : <<a, k>> \in line[s][n]
  BY DEF TreeInv

(* Every step keeps every variable in its type.                            *)
LEMMA TypeStep ==
    ASSUME TypeOK, ThreadInv, [Next]_vars
    PROVE  TypeOK'
<1> USE ScopeConstants DEF TypeOK, Ctx, BlockPcs, ThreadPcs, ThreadInv,
        treeVars, blockVars, threadVars
<1>1. ASSUME NEW t \in Threads, NEW b \in Blocks, ThreadGo(t, b)
      PROVE  TypeOK'
  <2>1. PICK s \in {ecScope[t], Root} : GoLoad(b, s, t)
    BY <1>1 DEF ThreadGo
  <2>2. s \in Scopes /\ gen[s] \in 0..MaxGen
    OBVIOUS
  <2>3. /\ bscope' \in [Blocks -> Scopes] /\ bctx' \in [Blocks -> 0..MaxGen]
        /\ bpc' \in [Blocks -> BlockPcs]
        /\ starter' \in [Blocks -> Threads \union Blocks \union {None}]
        /\ UNCHANGED <<treeVars, bop>>
    BY <2>1, <2>2 DEF GoLoad
  <2>4. QED
    BY <1>1, <2>3 DEF ThreadGo
<1>2. ASSUME NEW t \in Threads, NEW b \in Blocks, ThreadGoAdd(t, b)
      PROVE  TypeOK'
  BY <1>2 DEF ThreadGoAdd
<1>3. ASSUME NEW t \in Threads, NEW s \in Scopes, Open(t, s)
      PROVE  TypeOK'
  <2>1. Parent[s] \in Scopes /\ gen[Parent[s]] \in 0..MaxGen
    BY <1>3 DEF Open
  <2>2. line[Parent[s]][gen[Parent[s]]] \subseteq Ctx /\ <<s, 0>> \in Ctx
    BY <2>1
  <2>3. line' \in [Scopes -> [0..MaxGen -> SUBSET Ctx]]
    <3> HIDE DEF Ctx
    <3>1. QED
      BY <1>3, <2>2 DEF Open, WithCancel
  <2>4. QED
    BY <1>3, <2>3 DEF Open
<1>4. ASSUME NEW t \in Threads, OpenRegister(t)
      PROVE  TypeOK'
  BY <1>4 DEF OpenRegister
<1>5. ASSUME NEW t \in Threads, NEW s \in Scopes, NEW o \in {"close", "interrupt"},
              CancelLoad(t, s, o)
      PROVE  TypeOK'
  BY <1>5 DEF CancelLoad
<1>6. ASSUME NEW t \in Threads, Cancel(t)
      PROVE  TypeOK'
  <2>1. Loaded(t) \in Ctx
    BY <1>6 DEF Loaded
  <2>2. /\ tpc' \in [Threads -> ThreadPcs]
        /\ pending' \in [Threads -> SUBSET Scopes]
    <3>1. CASE op[t] = "interrupt"
      <4>1. tpc' = [tpc EXCEPT ![t] = "run"] /\ pending' = pending
        BY <1>6, <3>1 DEF Cancel
      <4>2. QED
        BY <4>1
    <3>2. CASE op[t] # "interrupt"
      <4>1. /\ tpc' = [tpc EXCEPT ![t] = "wait"]
            /\ pending' = [pending EXCEPT ![t] = {target[t]}]
        BY <1>6, <3>2 DEF Cancel, StartAwait
      <4>2. target[t] \in Scopes
        OBVIOUS
      <4>3. QED
        BY <4>1, <4>2
    <3>3. QED
      BY <3>1, <3>2
  <2>3. QED
    BY <1>6, <2>1, <2>2 DEF Cancel
<1>7. ASSUME NEW t \in Threads, NEW s \in Scopes, CancelAllLoad(t, s)
      PROVE  TypeOK'
  BY <1>7 DEF CancelAllLoad
<1>8. ASSUME NEW t \in Threads, CancelAllSwap(t)
      PROVE  TypeOK'
  <2> DEFINE s == target[t]
             n == gen[s] + 1
             base == IF s = Root THEN {} ELSE line[Parent[s]][loaded[t]]
  <2>1. s \in Scopes /\ n \in 0..MaxGen
    BY <1>8 DEF CancelAllSwap
  <2>2. base \subseteq Ctx /\ <<s, n>> \in Ctx
    BY <2>1, UpFacts
  <2>3. line' = [line EXCEPT ![s][n] = {<<s, n>>} \union base]
    BY <1>8 DEF CancelAllSwap, FreshGen, WithCancel
  <2>4. line' \in [Scopes -> [0..MaxGen -> SUBSET Ctx]]
    <3> HIDE DEF Ctx, s, n, base
    <3>1. QED
      BY <2>1, <2>2, <2>3
  <2>5. QED
    BY <1>8, <2>1, <2>4 DEF CancelAllSwap, FreshGen
<1>9. ASSUME NEW t \in Threads, CancelAllCancel(t)
      PROVE  TypeOK'
  BY <1>9 DEF CancelAllCancel, StartAwait
<1>10. ASSUME NEW t \in Threads, NEW s \in Scopes, Wait(t, s)
      PROVE  TypeOK'
  BY <1>10 DEF Wait
<1>11. ASSUME NEW t \in Threads, Descend(t)
      PROVE  TypeOK'
  BY <1>11 DEF Descend
<1>12. ASSUME NEW t \in Threads, AwaitTrue(t)
      PROVE  TypeOK'
  BY <1>12 DEF AwaitTrue
<1>13. ASSUME NEW t \in Threads, AwaitTimeout(t)
      PROVE  TypeOK'
  BY <1>13 DEF AwaitTimeout
<1>14. ASSUME NEW t \in Threads, Return(t)
      PROVE  TypeOK'
  <2>1. /\ ecScope' \in [Threads -> Scopes]
        /\ children' \in [Scopes -> SUBSET Scopes]
    <3>1. CASE op[t] = "close"
      <4>1. Parent[target[t]] \in Scopes
        BY <3>1, UpFacts
      <4>2. /\ ecScope' = [ecScope EXCEPT ![t] = Parent[target[t]]]
            /\ children' = [children EXCEPT ![Parent[target[t]]] =
                               children[Parent[target[t]]] \ {target[t]}]
        BY <1>14, <3>1 DEF Return
      <4>3. QED
        BY <4>1, <4>2
    <3>2. CASE op[t] # "close"
      BY <1>14, <3>2 DEF Return
    <3>3. QED
      BY <3>1, <3>2
  <2>2. QED
    BY <1>14, <2>1 DEF Return
<1>15. ASSUME NEW p \in Blocks, NEW b \in Blocks, BlockGo(p, b)
      PROVE  TypeOK'
  <2>1. PICK s \in {bscope[p], Root} :
          /\ bscope' = [bscope EXCEPT ![b] = s]
          /\ bctx' = [bctx EXCEPT ![b] = gen[s]]
    BY <1>15 DEF BlockGo
  <2>2. s \in Scopes /\ gen[s] \in 0..MaxGen
    OBVIOUS
  <2>3. bscope' \in [Blocks -> Scopes] /\ bctx' \in [Blocks -> 0..MaxGen]
    BY <2>1, <2>2
  <2>4. QED
    BY <1>15, <2>3 DEF BlockGo
<1>16. ASSUME NEW p \in Blocks, NEW b \in Blocks, BlockGoAdd(p, b)
      PROVE  TypeOK'
  BY <1>16 DEF BlockGoAdd
<1>17. ASSUME NEW b \in Blocks, Park(b)
      PROVE  TypeOK'
  BY <1>17 DEF Park
<1>18. ASSUME NEW b \in Blocks, Unpark(b)
      PROVE  TypeOK'
  BY <1>18 DEF Unpark
<1>19. ASSUME NEW b \in Blocks, Finish(b)
      PROVE  TypeOK'
  BY <1>19 DEF Finish, EndBody
<1>20. ASSUME NEW b \in Blocks, OpCancelled(b)
      PROVE  TypeOK'
  BY <1>20 DEF OpCancelled, EndBody
<1>21. ASSUME NEW b \in Blocks, Taken(b)
      PROVE  TypeOK'
  BY <1>21 DEF Taken
<1>22. ASSUME NEW b \in Blocks, SendCancelled(b)
      PROVE  TypeOK'
  BY <1>22 DEF SendCancelled, Taken
<1>23. CASE UNCHANGED vars
  BY <1>23 DEF vars
<1> HIDE ScopeConstants DEF TypeOK, Ctx, BlockPcs, ThreadPcs, ThreadInv,
         treeVars, blockVars, threadVars
<1>24. QED
  BY <1>1, <1>2, <1>3, <1>4, <1>5, <1>6, <1>7, <1>8, <1>9, <1>10, <1>11,
     <1>12, <1>13, <1>14, <1>15, <1>16, <1>17, <1>18, <1>19, <1>20, <1>21, <1>22, <1>23
  DEF Next, Thread, Proceed, Block

(* A new context takes over the line of the parent context it is derived   *)
(* from; a stale parent context is one the parent has had.                 *)
LEMMA TreeStep ==
    ASSUME TypeOK, TreeInv, ThreadInv, [Next]_vars
    PROVE  TreeInv'
<1> USE ScopeConstants DEF TypeOK, Ctx, TreeInv, ThreadInv,
        treeVars, blockVars, threadVars
<1>1. ASSUME NEW t \in Threads, NEW b \in Blocks, ThreadGo(t, b)
      PROVE  TreeInv'
  BY <1>1 DEF ThreadGo, GoLoad
<1>2. ASSUME NEW t \in Threads, NEW b \in Blocks, ThreadGoAdd(t, b)
      PROVE  TreeInv'
  BY <1>2 DEF ThreadGoAdd
<1>3. ASSUME NEW t \in Threads, NEW s \in Scopes, Open(t, s)
      PROVE  TreeInv'
  <2>1. /\ Parent[s] \in created /\ Up[s] = {s} \union Up[Parent[s]]
        /\ gen' = gen /\ created' = created \union {s} /\ gen[s] = 0
        /\ gen[Parent[s]] \in 0..gen[Parent[s]]
    BY <1>3 DEF Open
  <2> DEFINE base == line[Parent[s]][gen[Parent[s]]]
  <2>2. /\ base \subseteq Up[Parent[s]] \X (0..MaxGen)
        /\ \A a \in Up[Parent[s]] : \E k \in 0..gen[a] : <<a, k>> \in base
    BY <2>1, ContextLine
  <2>3. /\ line'[s][0] = {<<s, 0>>} \union base
        /\ \A x \in Scopes \ {s} : line'[x] = line[x]
    BY <1>3 DEF Open, WithCancel
  <2> HIDE DEF base
  <2>4. /\ line'[s][0] \subseteq Up[s] \X (0..MaxGen)
        /\ \A a \in Up[s] : \E k \in 0..gen[a] : <<a, k>> \in line'[s][0]
    BY <2>1, <2>2, <2>3
  <2>5. \A x \in created' : Up[x] \subseteq created'
    BY <2>1
  <2>6. ASSUME NEW x \in created', NEW m \in 0..gen'[x]
        PROVE  /\ line'[x][m] \subseteq Up[x] \X (0..MaxGen)
               /\ \A a \in Up[x] : \E k \in 0..gen'[a] : <<a, k>> \in line'[x][m]
    <3>1. CASE x = s
      <4>1. m = 0
        BY <2>1, <3>1
      <4>2. QED
        BY <2>1, <2>4, <3>1, <4>1
    <3>2. CASE x # s
      <4>1. x \in created /\ m \in 0..gen[x] /\ line'[x][m] = line[x][m]
        BY <2>1, <2>3, <3>2
      <4>2. QED
        BY <2>1, <4>1, ContextLine
    <3>3. QED
      BY <3>1, <3>2
  <2>7. QED
    BY <2>1, <2>5, <2>6
<1>4. ASSUME NEW t \in Threads, OpenRegister(t)
      PROVE  TreeInv'
  BY <1>4 DEF OpenRegister
<1>5. ASSUME NEW t \in Threads, NEW s \in Scopes, NEW o \in {"close", "interrupt"},
              CancelLoad(t, s, o)
      PROVE  TreeInv'
  BY <1>5 DEF CancelLoad
<1>6. ASSUME NEW t \in Threads, Cancel(t)
      PROVE  TreeInv'
  BY <1>6 DEF Cancel, StartAwait, Loaded
<1>7. ASSUME NEW t \in Threads, NEW s \in Scopes, CancelAllLoad(t, s)
      PROVE  TreeInv'
  BY <1>7 DEF CancelAllLoad
<1>8. ASSUME NEW t \in Threads, CancelAllSwap(t)
      PROVE  TreeInv'
  <2> DEFINE s == target[t]
             n == gen[s] + 1
             base == IF s = Root THEN {} ELSE line[Parent[s]][loaded[t]]
  <2>1. /\ s \in created /\ n \in 0..MaxGen /\ created' = created
        /\ gen' = [gen EXCEPT ![s] = n]
        /\ line' = [line EXCEPT ![s][n] = {<<s, n>>} \union base]
    BY <1>8 DEF CancelAllSwap, FreshGen, WithCancel
  <2>2. /\ base \subseteq Up[s] \X (0..MaxGen)
        /\ \A a \in Up[s] \ {s} : \E k \in 0..gen[a] : <<a, k>> \in base
    <3>1. CASE s = Root
      BY <3>1
    <3>2. CASE s # Root
      <4>1. Parent[s] \in created /\ Up[s] = {s} \union Up[Parent[s]]
        BY <2>1, <3>2, UpFacts
      <4>2. loaded[t] \in 0..gen[Parent[s]]
        BY <1>8, <3>2, <4>1 DEF CancelAllSwap
      <4>3. /\ base = line[Parent[s]][loaded[t]]
            /\ base \subseteq Up[Parent[s]] \X (0..MaxGen)
            /\ \A a \in Up[Parent[s]] : \E k \in 0..gen[a] : <<a, k>> \in base
        BY <3>2, <4>1, <4>2, ContextLine
      <4>4. QED
        BY <4>1, <4>3
    <3>3. QED
      BY <3>1, <3>2
  <2>3. /\ line'[s][n] = {<<s, n>>} \union base
        /\ \A m \in 0..gen[s] : line'[s][m] = line[s][m]
        /\ \A x \in Scopes \ {s} : line'[x] = line[x]
        /\ gen'[s] = n /\ \A x \in Scopes \ {s} : gen'[x] = gen[x]
    BY <2>1
  <2>4. gen[s] \in 0..MaxGen /\ \A a \in Scopes : 0..gen[a] \subseteq 0..gen'[a]
    BY <2>1, <2>3
  <2>5. ASSUME NEW x \in created, NEW m \in 0..gen'[x]
        PROVE  /\ line'[x][m] \subseteq Up[x] \X (0..MaxGen)
               /\ \A a \in Up[x] : \E k \in 0..gen'[a] : <<a, k>> \in line'[x][m]
    <3> HIDE DEF n, base
    <3>1. CASE x = s /\ m = n
      <4>1. s \in Up[s] /\ <<s, n>> \in line'[s][n] /\ n \in 0..gen'[s]
        BY <2>1, <2>3, UpFacts
      <4>2. ASSUME NEW a \in Up[s] PROVE \E k \in 0..gen'[a] : <<a, k>> \in line'[s][n]
        <5>1. CASE a = s
          BY <4>1, <5>1
        <5>2. CASE a # s
          <6>1. PICK k \in 0..gen[a] : <<a, k>> \in base
            BY <2>2, <5>2
          <6>2. a \in Scopes
            BY <2>1
          <6>3. QED
            BY <2>3, <2>4, <6>1, <6>2
        <5>3. QED
          BY <5>1, <5>2
      <4>3. line'[s][n] \subseteq Up[s] \X (0..MaxGen)
        BY <2>1, <2>2, <2>3, <4>1
      <4>4. QED
        BY <3>1, <4>2, <4>3
    <3>2. CASE ~(x = s /\ m = n)
      <4>1. m \in 0..gen[x] /\ line'[x][m] = line[x][m]
        <5>1. CASE x = s
          <6>1. m \in 0..(gen[s] + 1) /\ m # gen[s] + 1
            BY <2>3, <3>2, <5>1 DEF n
          <6>2. m \in 0..gen[s]
            BY <2>4, <6>1
          <6>3. QED
            BY <2>3, <5>1, <6>2
        <5>2. CASE x # s
          BY <2>3, <5>2
        <5>3. QED
          BY <5>1, <5>2
      <4>2. ASSUME NEW a \in Up[x] PROVE \E k \in 0..gen'[a] : <<a, k>> \in line[x][m]
        <5>1. PICK k \in 0..gen[a] : <<a, k>> \in line[x][m]
          BY <4>1, ContextLine
        <5>2. QED
          BY <2>4, <5>1
      <4>3. QED
        BY <4>1, <4>2, ContextLine
    <3>3. QED
      BY <3>1, <3>2
  <2>6. \A x \in Scopes \ created : gen'[x] = 0
    BY <2>1, <2>3
  <2>7. QED
    BY <2>1, <2>5, <2>6
<1>9. ASSUME NEW t \in Threads, CancelAllCancel(t)
      PROVE  TreeInv'
  BY <1>9 DEF CancelAllCancel, StartAwait
<1>10. ASSUME NEW t \in Threads, NEW s \in Scopes, Wait(t, s)
      PROVE  TreeInv'
  BY <1>10 DEF Wait
<1>11. ASSUME NEW t \in Threads, Descend(t)
      PROVE  TreeInv'
  BY <1>11 DEF Descend
<1>12. ASSUME NEW t \in Threads, AwaitTrue(t)
      PROVE  TreeInv'
  BY <1>12 DEF AwaitTrue
<1>13. ASSUME NEW t \in Threads, AwaitTimeout(t)
      PROVE  TreeInv'
  BY <1>13 DEF AwaitTimeout
<1>14. ASSUME NEW t \in Threads, Return(t)
      PROVE  TreeInv'
  BY <1>14 DEF Return
<1>15. ASSUME NEW p \in Blocks, NEW b \in Blocks, BlockGo(p, b)
      PROVE  TreeInv'
  BY <1>15 DEF BlockGo
<1>16. ASSUME NEW p \in Blocks, NEW b \in Blocks, BlockGoAdd(p, b)
      PROVE  TreeInv'
  BY <1>16 DEF BlockGoAdd
<1>17. ASSUME NEW b \in Blocks, Park(b)
      PROVE  TreeInv'
  BY <1>17 DEF Park
<1>18. ASSUME NEW b \in Blocks, Unpark(b)
      PROVE  TreeInv'
  BY <1>18 DEF Unpark
<1>19. ASSUME NEW b \in Blocks, Finish(b)
      PROVE  TreeInv'
  BY <1>19 DEF Finish, EndBody
<1>20. ASSUME NEW b \in Blocks, OpCancelled(b)
      PROVE  TreeInv'
  BY <1>20 DEF OpCancelled, EndBody
<1>21. ASSUME NEW b \in Blocks, Taken(b)
      PROVE  TreeInv'
  BY <1>21 DEF Taken
<1>22. ASSUME NEW b \in Blocks, SendCancelled(b)
      PROVE  TreeInv'
  BY <1>22 DEF SendCancelled, Taken
<1>23. CASE UNCHANGED vars
  BY <1>23 DEF vars
<1> HIDE ScopeConstants DEF TypeOK, Ctx, TreeInv, ThreadInv,
         treeVars, blockVars, threadVars
<1>24. QED
  BY <1>1, <1>2, <1>3, <1>4, <1>5, <1>6, <1>7, <1>8, <1>9, <1>10, <1>11,
     <1>12, <1>13, <1>14, <1>15, <1>16, <1>17, <1>18, <1>19, <1>20, <1>21, <1>22, <1>23
  DEF Next, Thread, Proceed, Block

(* Between its swap and its cancel a CancelAll owns the displaced context. *)
LEMMA DisplacedStep ==
    ASSUME TypeOK, DisplacedInv, [Next]_vars
    PROVE  DisplacedInv'
<1> USE ScopeConstants DEF TypeOK, DisplacedInv,
        treeVars, blockVars, threadVars
<1>1. ASSUME NEW t \in Threads, NEW b \in Blocks, ThreadGo(t, b)
      PROVE  DisplacedInv'
  BY <1>1 DEF ThreadGo, GoLoad
<1>2. ASSUME NEW t \in Threads, NEW b \in Blocks, ThreadGoAdd(t, b)
      PROVE  DisplacedInv'
  BY <1>2 DEF ThreadGoAdd
<1>3. ASSUME NEW t \in Threads, NEW s \in Scopes, Open(t, s)
      PROVE  DisplacedInv'
  BY <1>3 DEF Open, WithCancel
<1>4. ASSUME NEW t \in Threads, OpenRegister(t)
      PROVE  DisplacedInv'
  BY <1>4 DEF OpenRegister
<1>5. ASSUME NEW t \in Threads, NEW s \in Scopes, NEW o \in {"close", "interrupt"},
              CancelLoad(t, s, o)
      PROVE  DisplacedInv'
  BY <1>5 DEF CancelLoad
<1>6. ASSUME NEW t \in Threads, Cancel(t)
      PROVE  DisplacedInv'
  BY <1>6 DEF Cancel, StartAwait, Loaded
<1>7. ASSUME NEW t \in Threads, NEW s \in Scopes, CancelAllLoad(t, s)
      PROVE  DisplacedInv'
  BY <1>7 DEF CancelAllLoad
<1>8. ASSUME NEW t \in Threads, CancelAllSwap(t)
      PROVE  DisplacedInv'
  BY <1>8 DEF CancelAllSwap, FreshGen, WithCancel
<1>9. ASSUME NEW t \in Threads, CancelAllCancel(t)
      PROVE  DisplacedInv'
  BY <1>9 DEF CancelAllCancel, StartAwait
<1>10. ASSUME NEW t \in Threads, NEW s \in Scopes, Wait(t, s)
      PROVE  DisplacedInv'
  BY <1>10 DEF Wait
<1>11. ASSUME NEW t \in Threads, Descend(t)
      PROVE  DisplacedInv'
  BY <1>11 DEF Descend
<1>12. ASSUME NEW t \in Threads, AwaitTrue(t)
      PROVE  DisplacedInv'
  BY <1>12 DEF AwaitTrue
<1>13. ASSUME NEW t \in Threads, AwaitTimeout(t)
      PROVE  DisplacedInv'
  BY <1>13 DEF AwaitTimeout
<1>14. ASSUME NEW t \in Threads, Return(t)
      PROVE  DisplacedInv'
  BY <1>14 DEF Return
<1>15. ASSUME NEW p \in Blocks, NEW b \in Blocks, BlockGo(p, b)
      PROVE  DisplacedInv'
  BY <1>15 DEF BlockGo
<1>16. ASSUME NEW p \in Blocks, NEW b \in Blocks, BlockGoAdd(p, b)
      PROVE  DisplacedInv'
  BY <1>16 DEF BlockGoAdd
<1>17. ASSUME NEW b \in Blocks, Park(b)
      PROVE  DisplacedInv'
  BY <1>17 DEF Park
<1>18. ASSUME NEW b \in Blocks, Unpark(b)
      PROVE  DisplacedInv'
  BY <1>18 DEF Unpark
<1>19. ASSUME NEW b \in Blocks, Finish(b)
      PROVE  DisplacedInv'
  BY <1>19 DEF Finish, EndBody
<1>20. ASSUME NEW b \in Blocks, OpCancelled(b)
      PROVE  DisplacedInv'
  BY <1>20 DEF OpCancelled, EndBody
<1>21. ASSUME NEW b \in Blocks, Taken(b)
      PROVE  DisplacedInv'
  BY <1>21 DEF Taken
<1>22. ASSUME NEW b \in Blocks, SendCancelled(b)
      PROVE  DisplacedInv'
  BY <1>22 DEF SendCancelled, Taken
<1>23. CASE UNCHANGED vars
  BY <1>23 DEF vars
<1> HIDE ScopeConstants DEF TypeOK, DisplacedInv,
         treeVars, blockVars, threadVars
<1>24. QED
  BY <1>1, <1>2, <1>3, <1>4, <1>5, <1>6, <1>7, <1>8, <1>9, <1>10, <1>11,
     <1>12, <1>13, <1>14, <1>15, <1>16, <1>17, <1>18, <1>19, <1>20, <1>21, <1>22, <1>23
  DEF Next, Thread, Proceed, Block

(* Only a context of a scope that Cancel or CancelAll was called on is     *)
(* cancelled.                                                              *)
LEMMA AskedStep ==
    ASSUME TypeOK, AskedInv, ThreadInv, [Next]_vars
    PROVE  AskedInv'
<1> USE ScopeConstants DEF TypeOK, AskedInv, ThreadInv,
        treeVars, blockVars, threadVars
<1>1. ASSUME NEW t \in Threads, NEW b \in Blocks, ThreadGo(t, b)
      PROVE  AskedInv'
  BY <1>1 DEF ThreadGo, GoLoad
<1>2. ASSUME NEW t \in Threads, NEW b \in Blocks, ThreadGoAdd(t, b)
      PROVE  AskedInv'
  BY <1>2 DEF ThreadGoAdd
<1>3. ASSUME NEW t \in Threads, NEW s \in Scopes, Open(t, s)
      PROVE  AskedInv'
  BY <1>3 DEF Open, WithCancel
<1>4. ASSUME NEW t \in Threads, OpenRegister(t)
      PROVE  AskedInv'
  BY <1>4 DEF OpenRegister
<1>5. ASSUME NEW t \in Threads, NEW s \in Scopes, NEW o \in {"close", "interrupt"},
              CancelLoad(t, s, o)
      PROVE  AskedInv'
  BY <1>5 DEF CancelLoad
<1>6. ASSUME NEW t \in Threads, Cancel(t)
      PROVE  AskedInv'
  BY <1>6 DEF Cancel, StartAwait, Loaded
<1>7. ASSUME NEW t \in Threads, NEW s \in Scopes, CancelAllLoad(t, s)
      PROVE  AskedInv'
  BY <1>7 DEF CancelAllLoad
<1>8. ASSUME NEW t \in Threads, CancelAllSwap(t)
      PROVE  AskedInv'
  BY <1>8 DEF CancelAllSwap, FreshGen, WithCancel
<1>9. ASSUME NEW t \in Threads, CancelAllCancel(t)
      PROVE  AskedInv'
  BY <1>9 DEF CancelAllCancel, StartAwait
<1>10. ASSUME NEW t \in Threads, NEW s \in Scopes, Wait(t, s)
      PROVE  AskedInv'
  BY <1>10 DEF Wait
<1>11. ASSUME NEW t \in Threads, Descend(t)
      PROVE  AskedInv'
  BY <1>11 DEF Descend
<1>12. ASSUME NEW t \in Threads, AwaitTrue(t)
      PROVE  AskedInv'
  BY <1>12 DEF AwaitTrue
<1>13. ASSUME NEW t \in Threads, AwaitTimeout(t)
      PROVE  AskedInv'
  BY <1>13 DEF AwaitTimeout
<1>14. ASSUME NEW t \in Threads, Return(t)
      PROVE  AskedInv'
  BY <1>14 DEF Return
<1>15. ASSUME NEW p \in Blocks, NEW b \in Blocks, BlockGo(p, b)
      PROVE  AskedInv'
  BY <1>15 DEF BlockGo
<1>16. ASSUME NEW p \in Blocks, NEW b \in Blocks, BlockGoAdd(p, b)
      PROVE  AskedInv'
  BY <1>16 DEF BlockGoAdd
<1>17. ASSUME NEW b \in Blocks, Park(b)
      PROVE  AskedInv'
  BY <1>17 DEF Park
<1>18. ASSUME NEW b \in Blocks, Unpark(b)
      PROVE  AskedInv'
  BY <1>18 DEF Unpark
<1>19. ASSUME NEW b \in Blocks, Finish(b)
      PROVE  AskedInv'
  BY <1>19 DEF Finish, EndBody
<1>20. ASSUME NEW b \in Blocks, OpCancelled(b)
      PROVE  AskedInv'
  BY <1>20 DEF OpCancelled, EndBody
<1>21. ASSUME NEW b \in Blocks, Taken(b)
      PROVE  AskedInv'
  BY <1>21 DEF Taken
<1>22. ASSUME NEW b \in Blocks, SendCancelled(b)
      PROVE  AskedInv'
  BY <1>22 DEF SendCancelled, Taken
<1>23. CASE UNCHANGED vars
  BY <1>23 DEF vars
<1> HIDE ScopeConstants DEF TypeOK, AskedInv, ThreadInv,
         treeVars, blockVars, threadVars
<1>24. QED
  BY <1>1, <1>2, <1>3, <1>4, <1>5, <1>6, <1>7, <1>8, <1>9, <1>10, <1>11,
     <1>12, <1>13, <1>14, <1>15, <1>16, <1>17, <1>18, <1>19, <1>20, <1>21, <1>22, <1>23
  DEF Next, Thread, Proceed, Block

(* The scope an operation works on exists, and so does the one a close     *)
(* returns to.                                                             *)
LEMMA ThreadStep ==
    ASSUME TypeOK, TreeInv, ThreadInv, [Next]_vars
    PROVE  ThreadInv'
<1> USE ScopeConstants DEF TypeOK, TreeInv, ThreadInv,
        treeVars, blockVars, threadVars
<1>1. ASSUME NEW t \in Threads, NEW b \in Blocks, ThreadGo(t, b)
      PROVE  ThreadInv'
  BY <1>1 DEF ThreadGo, GoLoad
<1>2. ASSUME NEW t \in Threads, NEW b \in Blocks, ThreadGoAdd(t, b)
      PROVE  ThreadInv'
  BY <1>2 DEF ThreadGoAdd
<1>3. ASSUME NEW t \in Threads, NEW s \in Scopes, Open(t, s)
      PROVE  ThreadInv'
  BY <1>3 DEF Open, WithCancel
<1>4. ASSUME NEW t \in Threads, OpenRegister(t)
      PROVE  ThreadInv'
  BY <1>4 DEF OpenRegister
<1>5. ASSUME NEW t \in Threads, NEW s \in Scopes, NEW o \in {"close", "interrupt"},
              CancelLoad(t, s, o)
      PROVE  ThreadInv'
  BY <1>5 DEF CancelLoad
<1>6. ASSUME NEW t \in Threads, Cancel(t)
      PROVE  ThreadInv'
  BY <1>6 DEF Cancel, StartAwait, Loaded
<1>7. ASSUME NEW t \in Threads, NEW s \in Scopes, CancelAllLoad(t, s)
      PROVE  ThreadInv'
  BY <1>7 DEF CancelAllLoad
<1>8. ASSUME NEW t \in Threads, CancelAllSwap(t)
      PROVE  ThreadInv'
  BY <1>8 DEF CancelAllSwap, FreshGen, WithCancel
<1>9. ASSUME NEW t \in Threads, CancelAllCancel(t)
      PROVE  ThreadInv'
  BY <1>9 DEF CancelAllCancel, StartAwait
<1>10. ASSUME NEW t \in Threads, NEW s \in Scopes, Wait(t, s)
      PROVE  ThreadInv'
  BY <1>10 DEF Wait
<1>11. ASSUME NEW t \in Threads, Descend(t)
      PROVE  ThreadInv'
  BY <1>11 DEF Descend
<1>12. ASSUME NEW t \in Threads, AwaitTrue(t)
      PROVE  ThreadInv'
  BY <1>12 DEF AwaitTrue
<1>13. ASSUME NEW t \in Threads, AwaitTimeout(t)
      PROVE  ThreadInv'
  BY <1>13 DEF AwaitTimeout
<1>14. ASSUME NEW t \in Threads, Return(t)
      PROVE  ThreadInv'
  <2>1. op[t] = "close" => Parent[target[t]] \in created
    BY <1>14, UpFacts
  <2>2. QED
    BY <1>14, <2>1 DEF Return
<1>15. ASSUME NEW p \in Blocks, NEW b \in Blocks, BlockGo(p, b)
      PROVE  ThreadInv'
  BY <1>15 DEF BlockGo
<1>16. ASSUME NEW p \in Blocks, NEW b \in Blocks, BlockGoAdd(p, b)
      PROVE  ThreadInv'
  BY <1>16 DEF BlockGoAdd
<1>17. ASSUME NEW b \in Blocks, Park(b)
      PROVE  ThreadInv'
  BY <1>17 DEF Park
<1>18. ASSUME NEW b \in Blocks, Unpark(b)
      PROVE  ThreadInv'
  BY <1>18 DEF Unpark
<1>19. ASSUME NEW b \in Blocks, Finish(b)
      PROVE  ThreadInv'
  BY <1>19 DEF Finish, EndBody
<1>20. ASSUME NEW b \in Blocks, OpCancelled(b)
      PROVE  ThreadInv'
  BY <1>20 DEF OpCancelled, EndBody
<1>21. ASSUME NEW b \in Blocks, Taken(b)
      PROVE  ThreadInv'
  BY <1>21 DEF Taken
<1>22. ASSUME NEW b \in Blocks, SendCancelled(b)
      PROVE  ThreadInv'
  BY <1>22 DEF SendCancelled, Taken
<1>23. CASE UNCHANGED vars
  BY <1>23 DEF vars
<1> HIDE ScopeConstants DEF TypeOK, TreeInv, ThreadInv,
         treeVars, blockVars, threadVars
<1>24. QED
  BY <1>1, <1>2, <1>3, <1>4, <1>5, <1>6, <1>7, <1>8, <1>9, <1>10, <1>11,
     <1>12, <1>13, <1>14, <1>15, <1>16, <1>17, <1>18, <1>19, <1>20, <1>21, <1>22, <1>23
  DEF Next, Thread, Proceed, Block

(* A block is spawned into an existing scope and selects on contexts that  *)
(* scope has had.                                                          *)
LEMMA BlockStep ==
    ASSUME TypeOK, TreeInv, ThreadInv, BlockInv, [Next]_vars
    PROVE  BlockInv'
<1> USE ScopeConstants DEF TypeOK, BlockInv, ThreadInv,
        treeVars, blockVars, threadVars
<1>1. ASSUME NEW t \in Threads, NEW b \in Blocks, ThreadGo(t, b)
      PROVE  BlockInv'
  <2>1. PICK s \in {ecScope[t], Root} : GoLoad(b, s, t)
    BY <1>1 DEF ThreadGo
  <2>2. s \in created /\ gen[s] \in 0..MaxGen
    BY DEF TreeInv
  <2>3. QED
    BY <2>1, <2>2 DEF GoLoad
<1>2. ASSUME NEW t \in Threads, NEW b \in Blocks, ThreadGoAdd(t, b)
      PROVE  BlockInv'
  BY <1>2 DEF ThreadGoAdd
<1>3. ASSUME NEW t \in Threads, NEW s \in Scopes, Open(t, s)
      PROVE  BlockInv'
  BY <1>3 DEF Open, WithCancel
<1>4. ASSUME NEW t \in Threads, OpenRegister(t)
      PROVE  BlockInv'
  BY <1>4 DEF OpenRegister
<1>5. ASSUME NEW t \in Threads, NEW s \in Scopes, NEW o \in {"close", "interrupt"},
              CancelLoad(t, s, o)
      PROVE  BlockInv'
  BY <1>5 DEF CancelLoad
<1>6. ASSUME NEW t \in Threads, Cancel(t)
      PROVE  BlockInv'
  BY <1>6 DEF Cancel, StartAwait, Loaded
<1>7. ASSUME NEW t \in Threads, NEW s \in Scopes, CancelAllLoad(t, s)
      PROVE  BlockInv'
  BY <1>7 DEF CancelAllLoad
<1>8. ASSUME NEW t \in Threads, CancelAllSwap(t)
      PROVE  BlockInv'
  BY <1>8 DEF CancelAllSwap, FreshGen, WithCancel
<1>9. ASSUME NEW t \in Threads, CancelAllCancel(t)
      PROVE  BlockInv'
  BY <1>9 DEF CancelAllCancel, StartAwait
<1>10. ASSUME NEW t \in Threads, NEW s \in Scopes, Wait(t, s)
      PROVE  BlockInv'
  BY <1>10 DEF Wait
<1>11. ASSUME NEW t \in Threads, Descend(t)
      PROVE  BlockInv'
  BY <1>11 DEF Descend
<1>12. ASSUME NEW t \in Threads, AwaitTrue(t)
      PROVE  BlockInv'
  BY <1>12 DEF AwaitTrue
<1>13. ASSUME NEW t \in Threads, AwaitTimeout(t)
      PROVE  BlockInv'
  BY <1>13 DEF AwaitTimeout
<1>14. ASSUME NEW t \in Threads, Return(t)
      PROVE  BlockInv'
  BY <1>14 DEF Return
<1>15. ASSUME NEW p \in Blocks, NEW b \in Blocks, BlockGo(p, b)
      PROVE  BlockInv'
  <2>1. PICK s \in {bscope[p], Root} :
          /\ bscope' = [bscope EXCEPT ![b] = s]
          /\ bctx' = [bctx EXCEPT ![b] = gen[s]]
    BY <1>15 DEF BlockGo
  <2>2. s \in created /\ gen[s] \in 0..MaxGen
    BY DEF TreeInv
  <2>3. QED
    BY <1>15, <2>1, <2>2 DEF BlockGo
<1>16. ASSUME NEW p \in Blocks, NEW b \in Blocks, BlockGoAdd(p, b)
      PROVE  BlockInv'
  BY <1>16 DEF BlockGoAdd
<1>17. ASSUME NEW b \in Blocks, Park(b)
      PROVE  BlockInv'
  BY <1>17 DEF Park
<1>18. ASSUME NEW b \in Blocks, Unpark(b)
      PROVE  BlockInv'
  BY <1>18 DEF Unpark
<1>19. ASSUME NEW b \in Blocks, Finish(b)
      PROVE  BlockInv'
  BY <1>19 DEF Finish, EndBody
<1>20. ASSUME NEW b \in Blocks, OpCancelled(b)
      PROVE  BlockInv'
  BY <1>20 DEF OpCancelled, EndBody
<1>21. ASSUME NEW b \in Blocks, Taken(b)
      PROVE  BlockInv'
  BY <1>21 DEF Taken
<1>22. ASSUME NEW b \in Blocks, SendCancelled(b)
      PROVE  BlockInv'
  BY <1>22 DEF SendCancelled, Taken
<1>23. CASE UNCHANGED vars
  BY <1>23 DEF vars
<1> HIDE ScopeConstants DEF TypeOK, BlockInv, ThreadInv,
         treeVars, blockVars, threadVars
<1>24. QED
  BY <1>1, <1>2, <1>3, <1>4, <1>5, <1>6, <1>7, <1>8, <1>9, <1>10, <1>11,
     <1>12, <1>13, <1>14, <1>15, <1>16, <1>17, <1>18, <1>19, <1>20, <1>21, <1>22, <1>23
  DEF Next, Thread, Proceed, Block

-----------------------------------------------------------------------------
(* IInv holds initially and every step preserves it.                       *)
THEOREM InductiveInvariant == Spec => []IInv
<1>1. Init => IInv
  <2> SUFFICES ASSUME Init PROVE IInv
    OBVIOUS
  <2> USE ScopeConstants DEF Init
  <2>1. TypeOK
    <3>1. line \in [Scopes -> [0..MaxGen -> SUBSET Ctx]]
      BY DEF Ctx
    <3>2. 0 \in 0..MaxGen
      OBVIOUS
    <3>3. QED
      BY <3>1, <3>2 DEF TypeOK, BlockPcs, ThreadPcs
  <2>2. TreeInv
    BY DEF TreeInv
  <2>3. DisplacedInv /\ AskedInv
    BY DEF DisplacedInv, AskedInv
  <2>4. ThreadInv /\ BlockInv
    BY DEF ThreadInv, BlockInv
  <2>5. QED
    BY <2>1, <2>2, <2>3, <2>4 DEF IInv
<1>2. IInv /\ [Next]_vars => IInv'
  BY TypeStep, TreeStep, DisplacedStep, AskedStep, ThreadStep, BlockStep
  DEF IInv
<1>3. QED
  BY <1>1, <1>2, PTL DEF Spec

(* The supervision tree is well typed in every reachable state.            *)
THEOREM TypeCorrect == Spec => []TypeOK
<1>1. IInv => TypeOK
  BY DEF IInv
<1>2. QED
  BY <1>1, InductiveInvariant, PTL

(* Cancelling or draining a scope never ends the context of a goroutine    *)
(* outside its subtree (scope.go:28, "sibling scopes are unaffected").      *)
THEOREM Isolation == Spec => []SiblingsUnaffected
<1>1. IInv => SiblingsUnaffected
  <2> SUFFICES ASSUME IInv, NEW b \in Blocks, NEW n \in 0..gen[bscope[b]],
                      Done(bscope[b], n)
               PROVE  Up[bscope[b]] \intersect asked # {}
    BY DEF SiblingsUnaffected, IInv, BlockInv, TypeOK
  <2>1. line[bscope[b]][n] \subseteq Up[bscope[b]] \X (0..MaxGen)
    BY ContextLine DEF IInv, BlockInv
  <2>2. PICK a \in Up[bscope[b]], k \in 0..MaxGen : <<a, k>> \in cancelled
    BY <2>1 DEF Done
  <2>3. Up[bscope[b]] \subseteq Scopes
    BY ScopeConstants DEF IInv, TypeOK
  <2>4. a \in asked
    BY <2>2, <2>3 DEF IInv, AskedInv
  <2>5. QED
    BY <2>4
<1>2. QED
  BY <1>1, InductiveInvariant, PTL

(* Cancelling a scope reaches its whole subtree (scope.go:26), also when   *)
(* scopes are opened and drained at the same time.                         *)
THEOREM Cascade == Spec => []CancelReachesSubtree
<1>1. IInv => CancelReachesSubtree
  <2> SUFFICES ASSUME IInv, NEW s \in created, NEW a \in Up[s]
               PROVE  \E k \in 0..MaxGen :
                        /\ <<a, k>> \in line[s][gen[s]]
                        /\ \/ k = gen[a]
                           \/ <<a, k>> \in cancelled
                           \/ \E t \in Threads :
                                 /\ tpc[t] = "cancelOld"
                                 /\ target[t] = a /\ loaded[t] = k
    BY DEF CancelReachesSubtree
  <2>1. /\ s \in Scopes /\ a \in Scopes /\ gen[a] \in 0..MaxGen
        /\ gen[s] \in 0..gen[s]
    BY ScopeConstants DEF IInv, TypeOK
  <2>2. PICK k \in 0..gen[a] : <<a, k>> \in line[s][gen[s]]
    BY <2>1, ContextLine DEF IInv
  <2>3. k \in 0..MaxGen /\ (k = gen[a] \/ k < gen[a])
    BY <2>1, ScopeConstants
  <2>4. QED
    BY <2>1, <2>2, <2>3 DEF IInv, DisplacedInv
<1>2. QED
  BY <1>1, InductiveInvariant, PTL

(* Together: a cancel ends exactly the subtree it was asked for.           *)
THEOREM ExactCancel == Spec => []CancelIsExact
<1>1. SiblingsUnaffected /\ CancelReachesSubtree => CancelIsExact
  BY DEF CancelIsExact
<1>2. QED
  BY <1>1, Isolation, Cascade, PTL

-----------------------------------------------------------------------------
(* Facts about the tree of scopes, for the walk of a close.                *)

(* A set of scopes has a highest member: the root, or a scope whose parent *)
(* is not in the set.                                                      *)
LEMMA TreeMin ==
    ASSUME NEW Bad \in SUBSET Scopes, Bad # {}
    PROVE  \E s \in Bad : s = Root \/ Parent[s] \notin Bad
<1> DEFINE Lines == {Up[s] : s \in Bad}
           R == StrictSubsetOrdering(Scopes)
<1>1. Lines \subseteq FiniteSubsetsOf(Scopes) /\ Lines # {}
  BY ScopeConstants DEF FiniteSubsetsOf
<1>2. IsWellFoundedOn(R, FiniteSubsetsOf(Scopes))
  BY FS_StrictSubsetOrderingWellFounded
<1> HIDE DEF R, Lines
<1>3. PICK u \in Lines : \A w \in Lines : <<w, u>> \notin R
  BY <1>1, <1>2, WFMin
<1>4. PICK s \in Bad : u = Up[s]
  BY DEF Lines
<1>5. ASSUME s # Root, Parent[s] \in Bad PROVE FALSE
  <2>1. Up[s] = {s} \union Up[Parent[s]] /\ s \notin Up[Parent[s]]
    BY <1>5, ScopeConstants
  <2>2. Up[Parent[s]] \in SUBSET Scopes /\ Up[s] \in SUBSET Scopes
    BY <1>5, ScopeConstants
  <2>3. <<Up[Parent[s]], Up[s]>> \in R
    BY <2>1, <2>2 DEF R, StrictSubsetOrdering
  <2>4. Up[Parent[s]] \in Lines
    BY <1>5 DEF Lines
  <2>5. QED
    BY <1>3, <1>4, <2>3, <2>4
<1>6. QED
  BY <1>4, <1>5

(* An ancestor's ancestors are ancestors.                                  *)
LEMMA UpTransitive == \A s \in Scopes : \A a \in Up[s] : Up[a] \subseteq Up[s]
<1> DEFINE Bad == {s \in Scopes : \E a \in Up[s] : ~(Up[a] \subseteq Up[s])}
<1>1. SUFFICES ASSUME Bad # {} PROVE FALSE
  OBVIOUS
<1>2. PICK s \in Bad : s = Root \/ Parent[s] \notin Bad
  BY <1>1, TreeMin
<1>3. PICK a \in Up[s] : ~(Up[a] \subseteq Up[s])
  OBVIOUS
<1>4. a # s /\ s # Root
  BY <1>3, ScopeConstants
<1>5. /\ Up[s] = {s} \union Up[Parent[s]] /\ Parent[s] \in Scopes
  BY <1>4, ScopeConstants
<1>6. QED
  BY <1>2, <1>3, <1>4, <1>5

(* Of two ancestors of a scope one is an ancestor of the other.            *)
LEMMA UpLinear ==
    \A s \in Scopes : \A a, c \in Up[s] : a \in Up[c] \/ c \in Up[a]
<1> DEFINE Bad == {s \in Scopes : \E a, c \in Up[s] : a \notin Up[c] /\ c \notin Up[a]}
<1>1. SUFFICES ASSUME Bad # {} PROVE FALSE
  OBVIOUS
<1>2. PICK s \in Bad : s = Root \/ Parent[s] \notin Bad
  BY <1>1, TreeMin
<1>3. PICK a \in Up[s], c \in Up[s] : a \notin Up[c] /\ c \notin Up[a]
  OBVIOUS
<1>4. a # s /\ c # s
  BY <1>3
<1>5. s # Root
  BY <1>4, ScopeConstants
<1>6. Up[s] = {s} \union Up[Parent[s]] /\ Parent[s] \in Scopes
  BY <1>5, ScopeConstants
<1>7. a \in Up[Parent[s]] /\ c \in Up[Parent[s]]
  BY <1>4, <1>6
<1>8. Parent[s] \in Bad
  BY <1>3, <1>6, <1>7
<1>9. QED
  BY <1>2, <1>5, <1>8

(* The way down from a proper ancestor starts at one of its children.      *)
LEMMA WayDown ==
    ASSUME NEW x \in Scopes, NEW a \in Up[x], a # x
    PROVE  \E c \in Up[x] : c # Root /\ Parent[c] = a /\ c \notin Up[a]
<1> DEFINE Bad == {s \in Scopes : a \in Up[s] /\ a # s /\
              ~ \E c \in Up[s] : c # Root /\ Parent[c] = a /\ c \notin Up[a]}
<1>1. SUFFICES ASSUME Bad # {} PROVE FALSE
  OBVIOUS
<1>2. PICK s \in Bad : s = Root \/ Parent[s] \notin Bad
  BY <1>1, TreeMin
<1>3. s # Root
  BY <1>2, ScopeConstants
<1>4. /\ Up[s] = {s} \union Up[Parent[s]] /\ Parent[s] \in Scopes
      /\ s \notin Up[Parent[s]]
  BY <1>3, ScopeConstants
<1>5. CASE Parent[s] = a
  BY <1>3, <1>4, <1>5
<1>6. CASE Parent[s] # a
  BY <1>2, <1>3, <1>4, <1>6
<1>7. QED
  BY <1>5, <1>6

-----------------------------------------------------------------------------
(* A close that was awaited is quiet.                                      *)

(* A step of a go-block leaves the threads and the tree alone.             *)
LEMMA BlockFrame ==
    ASSUME NEW b \in Blocks, Block(b)
    PROVE  UNCHANGED <<treeVars, threadVars>>
  BY DEF Block, BlockGo, BlockGoAdd, Park, Unpark, Finish, OpCancelled,
         EndBody, Taken, SendCancelled

(* The root is above every scope, and the only one above itself.           *)
LEMMA RootFacts ==
    /\ Up[Root] = {Root}
    /\ \A s \in Scopes : Root \in Up[s] /\ Up[s] \subseteq Scopes
<1> DEFINE Bad == {s \in Scopes : Root \notin Up[s]}
<1>1. SUFFICES ASSUME Bad # {} PROVE FALSE
  BY ScopeConstants
<1>2. PICK s \in Bad : s = Root \/ Parent[s] \notin Bad
  BY <1>1, TreeMin
<1>3. QED
  BY <1>2, ScopeConstants

(* Only registering and unparenting change the children of a scope.        *)
LEMMA ChildrenFrame ==
    ASSUME [Next]_vars
    PROVE  \/ \E t \in Threads : OpenRegister(t)
           \/ \E t \in Threads : Return(t)
           \/ UNCHANGED children
<1>1. ASSUME NEW t \in Threads, Thread(t)
      PROVE  OpenRegister(t) \/ Return(t) \/ UNCHANGED children
  BY <1>1 DEF Thread, Proceed, ThreadGo, GoLoad, ThreadGoAdd, Open, CancelLoad, Cancel, CancelAllLoad,
              CancelAllSwap, CancelAllCancel, Wait, Descend, AwaitTrue,
              AwaitTimeout, treeVars
<1>2. ASSUME NEW b \in Blocks, Block(b) PROVE UNCHANGED children
  BY <1>2, BlockFrame DEF treeVars
<1>3. QED
  BY <1>1, <1>2 DEF Next, vars, treeVars

(* Unparenting only takes children away.                                   *)
LEMMA ReturnChildren ==
    ASSUME TypeOK, NEW t \in Threads, Return(t)
    PROVE  \A s \in Scopes : children'[s] \subseteq children[s]
<1>1. CASE op[t] = "close"
  <2> DEFINE p == Parent[target[t]]
  <2>1. children' = [children EXCEPT ![p] = children[p] \ {target[t]}]
    BY <1>1 DEF Return
  <2> HIDE DEF p
  <2>2. QED
    BY <2>1 DEF TypeOK
<1>2. CASE op[t] # "close"
  BY <1>2 DEF Return
<1>3. QED
  BY <1>1, <1>2

(* The children of a scope are registered by the thread that opened them.  *)
LEMMA ChildStep ==
    ASSUME TypeOK, ChildInv, BranchInv, [Next]_vars
    PROVE  ChildInv'
<1>1. ASSUME NEW t \in Threads, OpenRegister(t) PROVE ChildInv'
  <2>1. target[t] # Root /\ Parent[target[t]] = ecScope[t]
    BY <1>1 DEF OpenRegister, BranchInv
  <2>2. QED
    BY <1>1, <2>1 DEF OpenRegister, ChildInv, TypeOK
<1>2. ASSUME NEW t \in Threads, Return(t) PROVE ChildInv'
  BY <1>2, ReturnChildren DEF ChildInv
<1>3. CASE UNCHANGED children
  BY <1>3 DEF ChildInv
<1>4. QED
  BY <1>1, <1>2, <1>3, ChildrenFrame

(* Opening takes a scope that nobody has, and closing goes back up the     *)
(* thread's own branch.                                                    *)
LEMMA BranchStep ==
    ASSUME TypeOK, TreeInv, ThreadInv, BranchInv, [Next]_vars
    PROVE  BranchInv'
<1> USE DEF TypeOK, BranchInv, ThreadInv, treeVars, blockVars, threadVars
<1>1. ASSUME NEW t \in Threads, NEW b \in Blocks, ThreadGo(t, b)
      PROVE  BranchInv'
  BY <1>1 DEF ThreadGo, GoLoad
<1>2. ASSUME NEW t \in Threads, NEW b \in Blocks, ThreadGoAdd(t, b)
      PROVE  BranchInv'
  BY <1>2 DEF ThreadGoAdd
<1>3. ASSUME NEW t \in Threads, NEW s \in Scopes, Open(t, s)
      PROVE  BranchInv'
  <2>1. /\ s \in Scopes \ created /\ Parent[s] = ecScope[t] /\ s # Root
        /\ ecScope' = ecScope /\ op' = op /\ tpc[t] = "run"
        /\ target' = [target EXCEPT ![t] = s]
        /\ tpc' = [tpc EXCEPT ![t] = "register"]
    BY <1>3 DEF Open
  <2>2. \A u \in Threads : s \notin Up[ecScope[u]]
    BY <2>1 DEF TreeInv
  <2>3. \A u \in Threads : tpc[u] = "register" => target[u] # s
    BY <2>1
  <2>4. /\ op[t] # "close" /\ target'[t] = s /\ tpc'[t] = "register"
        /\ \A u \in Threads \ {t} : target'[u] = target[u] /\ tpc'[u] = tpc[u]
    <3>1. op[t] \in {"none", "interrupt"}
      BY <2>1
    <3>2. QED
      BY <2>1, <3>1
  <2>5. ASSUME NEW w \in Threads
        PROVE  /\ op'[w] = "close" => target'[w] \in Up[ecScope'[w]]
               /\ tpc'[w] = "register" => /\ target'[w] # Root
                                         /\ Parent[target'[w]] = ecScope'[w]
    <3>1. CASE w = t
      BY <2>1, <2>4, <3>1
    <3>2. CASE w # t
      <4>1. /\ target'[w] = target[w] /\ tpc'[w] = tpc[w] /\ op'[w] = op[w]
            /\ ecScope'[w] = ecScope[w]
        BY <2>1, <2>4, <3>2
      <4>2. QED
        BY <4>1
    <3>3. QED
      BY <3>1, <3>2
  <2>6. ASSUME NEW w \in Threads, NEW u \in Threads \ {w}
        PROVE  /\ Up[ecScope'[w]] \intersect Up[ecScope'[u]] = {Root}
               /\ tpc'[w] = "register" => target'[w] \notin Up[ecScope'[u]]
               /\ tpc'[w] = "register" /\ tpc'[u] = "register" =>
                     target'[w] # target'[u]
    BY <2>1, <2>2, <2>3, <2>4
  <2>7. QED
    BY <2>5, <2>6
<1>4. ASSUME NEW t \in Threads, OpenRegister(t)
      PROVE  BranchInv'
  <2> DEFINE c == target[t]
  <2>1. /\ c \in Scopes \ {Root} /\ Parent[c] = ecScope[t]
        /\ ecScope' = [ecScope EXCEPT ![t] = c] /\ op' = op
        /\ target' = target /\ tpc' = [tpc EXCEPT ![t] = "run"]
        /\ tpc[t] = "register"
    BY <1>4 DEF OpenRegister
  <2>2. Up[c] = {c} \union Up[ecScope[t]]
    BY <2>1, ScopeConstants
  <2>3. op[t] # "close"
    BY <2>1
  <2>4. ASSUME NEW u \in Threads \ {t}
        PROVE  /\ Up[c] \intersect Up[ecScope[u]] = {Root}
               /\ tpc[u] = "register" => target[u] \notin Up[c]
    BY <2>1, <2>2
  <2> HIDE DEF c
  <2>5. QED
    BY <2>1, <2>3, <2>4
<1>5. ASSUME NEW t \in Threads, NEW s \in Scopes, NEW o \in {"close", "interrupt"},
              CancelLoad(t, s, o)
      PROVE  BranchInv'
  BY <1>5 DEF CancelLoad
<1>6. ASSUME NEW t \in Threads, Cancel(t)
      PROVE  BranchInv'
  BY <1>6 DEF Cancel, StartAwait, Loaded
<1>7. ASSUME NEW t \in Threads, NEW s \in Scopes, CancelAllLoad(t, s)
      PROVE  BranchInv'
  BY <1>7 DEF CancelAllLoad
<1>8. ASSUME NEW t \in Threads, CancelAllSwap(t)
      PROVE  BranchInv'
  BY <1>8 DEF CancelAllSwap, FreshGen, WithCancel
<1>9. ASSUME NEW t \in Threads, CancelAllCancel(t)
      PROVE  BranchInv'
  BY <1>9 DEF CancelAllCancel, StartAwait
<1>10. ASSUME NEW t \in Threads, NEW s \in Scopes, Wait(t, s)
      PROVE  BranchInv'
  BY <1>10 DEF Wait
<1>11. ASSUME NEW t \in Threads, Descend(t)
      PROVE  BranchInv'
  BY <1>11 DEF Descend
<1>12. ASSUME NEW t \in Threads, AwaitTrue(t)
      PROVE  BranchInv'
  BY <1>12 DEF AwaitTrue
<1>13. ASSUME NEW t \in Threads, AwaitTimeout(t)
      PROVE  BranchInv'
  BY <1>13 DEF AwaitTimeout
<1>14. ASSUME NEW t \in Threads, Return(t)
      PROVE  BranchInv'
  <2>1. CASE op[t] = "close"
    <3>1. /\ ecScope' = [ecScope EXCEPT ![t] = Parent[target[t]]]
          /\ op' = [op EXCEPT ![t] = "none"] /\ target' = target
          /\ tpc' = [tpc EXCEPT ![t] = "run"]
      BY <1>14, <2>1 DEF Return
    <3>2. /\ target[t] \in Up[ecScope[t]] /\ target[t] \in Scopes \ {Root}
          /\ ecScope[t] \in Scopes
      BY <2>1
    <3>3. /\ Up[Parent[target[t]]] \subseteq Up[ecScope[t]]
          /\ Root \in Up[Parent[target[t]]]
      BY <3>2, UpTransitive, RootFacts, ScopeConstants
    <3>4. QED
      BY <3>1, <3>3
  <2>2. CASE op[t] # "close"
    BY <1>14, <2>2 DEF Return
  <2>3. QED
    BY <2>1, <2>2
<1>15. ASSUME NEW b \in Blocks, Block(b)
      PROVE  BranchInv'
  BY <1>15, BlockFrame
<1>16. CASE UNCHANGED vars
  BY <1>16 DEF vars
<1> HIDE DEF TypeOK, BranchInv, ThreadInv, treeVars, blockVars, threadVars
<1>17. QED
  BY <1>1, <1>2, <1>3, <1>4, <1>5, <1>6, <1>7, <1>8, <1>9, <1>10, <1>11,
     <1>12, <1>13, <1>14, <1>15, <1>16
  DEF Next, Thread, Proceed

(* A starter is inside Go for one block at a time and stays in its scope   *)
(* until it has counted it.                                                *)
LEMMA StarterStep ==
    ASSUME TypeOK, BlockInv, StarterInv, [Next]_vars
    PROVE  StarterInv'
<1> USE ScopeConstants DEF TypeOK, StarterInv, treeVars, blockVars, threadVars
<1>1. ASSUME NEW t \in Threads, NEW b \in Blocks, ThreadGo(t, b)
      PROVE  StarterInv'
  <2>1. PICK s \in {ecScope[t], Root} : GoLoad(b, s, t)
    BY <1>1 DEF ThreadGo
  <2>2. /\ tpc[t] = "run" /\ tpc' = [tpc EXCEPT ![t] = "spawning"]
        /\ ecScope' = ecScope /\ t \notin Blocks
    BY <1>1 DEF ThreadGo
  <2>3. /\ bpc[b] = "none" /\ bpc' = [bpc EXCEPT ![b] = "add"]
        /\ bscope' = [bscope EXCEPT ![b] = s]
        /\ starter' = [starter EXCEPT ![b] = t]
    BY <2>1 DEF GoLoad
  <2>4. QED
    BY <2>2, <2>3
<1>2. ASSUME NEW t \in Threads, NEW b \in Blocks, ThreadGoAdd(t, b)
      PROVE  StarterInv'
  BY <1>2 DEF ThreadGoAdd
<1>3. ASSUME NEW t \in Threads, NEW s \in Scopes, Open(t, s)
      PROVE  StarterInv'
  BY <1>3 DEF Open, WithCancel
<1>4. ASSUME NEW t \in Threads, OpenRegister(t)
      PROVE  StarterInv'
  BY <1>4 DEF OpenRegister
<1>5. ASSUME NEW t \in Threads, NEW s \in Scopes, NEW o \in {"close", "interrupt"},
              CancelLoad(t, s, o)
      PROVE  StarterInv'
  BY <1>5 DEF CancelLoad
<1>6. ASSUME NEW t \in Threads, Cancel(t)
      PROVE  StarterInv'
  BY <1>6 DEF Cancel, StartAwait, Loaded
<1>7. ASSUME NEW t \in Threads, NEW s \in Scopes, CancelAllLoad(t, s)
      PROVE  StarterInv'
  BY <1>7 DEF CancelAllLoad
<1>8. ASSUME NEW t \in Threads, CancelAllSwap(t)
      PROVE  StarterInv'
  BY <1>8 DEF CancelAllSwap, FreshGen, WithCancel
<1>9. ASSUME NEW t \in Threads, CancelAllCancel(t)
      PROVE  StarterInv'
  BY <1>9 DEF CancelAllCancel, StartAwait
<1>10. ASSUME NEW t \in Threads, NEW s \in Scopes, Wait(t, s)
      PROVE  StarterInv'
  BY <1>10 DEF Wait
<1>11. ASSUME NEW t \in Threads, Descend(t)
      PROVE  StarterInv'
  BY <1>11 DEF Descend
<1>12. ASSUME NEW t \in Threads, AwaitTrue(t)
      PROVE  StarterInv'
  BY <1>12 DEF AwaitTrue
<1>13. ASSUME NEW t \in Threads, AwaitTimeout(t)
      PROVE  StarterInv'
  BY <1>13 DEF AwaitTimeout
<1>14. ASSUME NEW t \in Threads, Return(t)
      PROVE  StarterInv'
  BY <1>14 DEF Return
<1>15. ASSUME NEW p \in Blocks, NEW b \in Blocks, BlockGo(p, b)
      PROVE  StarterInv'
  <2>1. PICK s \in {bscope[p], Root} : bscope' = [bscope EXCEPT ![b] = s]
    BY <1>15 DEF BlockGo
  <2>2. /\ bpc[p] = "run" /\ bpc[b] = "none" /\ p # b /\ p \notin Threads
        /\ bpc' = [bpc EXCEPT ![p] = "spawning", ![b] = "add"]
        /\ starter' = [starter EXCEPT ![b] = p]
        /\ tpc' = tpc /\ ecScope' = ecScope
    BY <1>15 DEF BlockGo
  <2>3. QED
    BY <2>1, <2>2
<1>16. ASSUME NEW p \in Blocks, NEW b \in Blocks, BlockGoAdd(p, b)
      PROVE  StarterInv'
  <2>1. /\ bpc[p] = "spawning" /\ bpc[b] = "add" /\ starter[b] = p /\ p # b
        /\ bpc' = [bpc EXCEPT ![p] = "run", ![b] = "run"]
        /\ starter' = [starter EXCEPT ![b] = None]
        /\ bscope' = bscope /\ tpc' = tpc /\ ecScope' = ecScope
    BY <1>16 DEF BlockGoAdd
  <2>2. ASSUME NEW k \in Blocks, bpc'[k] = "add"
        PROVE  /\ bpc[k] = "add" /\ starter'[k] = starter[k]
               /\ starter[k] \in Threads \/ bpc'[starter[k]] = bpc[starter[k]]
    <3>1. k # b /\ k # p /\ bpc[k] = "add" /\ starter'[k] = starter[k]
      BY <2>1, <2>2
    <3>2. starter[k] # p
      BY <2>1, <3>1
    <3>3. starter[k] \in Blocks => starter[k] # b
      BY <2>1, <3>1
    <3>4. QED
      BY <2>1, <3>1, <3>2, <3>3
  <2>3. ASSUME NEW k \in Blocks, bpc'[k] = "add"
        PROVE  \/ /\ starter'[k] \in Threads
                  /\ tpc'[starter'[k]] = "spawning"
                  /\ bscope'[k] \in {ecScope'[starter'[k]], Root}
               \/ /\ starter'[k] \in Blocks
                  /\ bpc'[starter'[k]] = "spawning"
                  /\ bscope'[k] \in {bscope'[starter'[k]], Root}
    <3>1. \/ /\ starter[k] \in Threads
             /\ tpc[starter[k]] = "spawning"
             /\ bscope[k] \in {ecScope[starter[k]], Root}
          \/ /\ starter[k] \in Blocks /\ starter[k] \notin Threads
             /\ bpc[starter[k]] = "spawning"
             /\ bscope[k] \in {bscope[starter[k]], Root}
      BY <2>2, <2>3
    <3>2. QED
      BY <2>1, <2>2, <2>3, <3>1
  <2>4. ASSUME NEW k \in Blocks, NEW j \in Blocks \ {k},
               bpc'[k] = "add", bpc'[j] = "add"
        PROVE  starter'[j] # starter'[k]
    BY <2>2, <2>4
  <2>5. QED
    BY <2>3, <2>4
<1>17. ASSUME NEW b \in Blocks, Park(b)
      PROVE  StarterInv'
  BY <1>17 DEF Park
<1>18. ASSUME NEW b \in Blocks, Unpark(b)
      PROVE  StarterInv'
  BY <1>18 DEF Unpark
<1>19. ASSUME NEW b \in Blocks, Finish(b)
      PROVE  StarterInv'
  BY <1>19 DEF Finish, EndBody
<1>20. ASSUME NEW b \in Blocks, OpCancelled(b)
      PROVE  StarterInv'
  BY <1>20 DEF OpCancelled, EndBody
<1>21. ASSUME NEW b \in Blocks, Taken(b)
      PROVE  StarterInv'
  BY <1>21 DEF Taken
<1>22. ASSUME NEW b \in Blocks, SendCancelled(b)
      PROVE  StarterInv'
  BY <1>22 DEF SendCancelled, Taken
<1>23. CASE UNCHANGED vars
  BY <1>23 DEF vars
<1> HIDE ScopeConstants DEF TypeOK, StarterInv, treeVars, blockVars, threadVars
<1>24. QED
  BY <1>1, <1>2, <1>3, <1>4, <1>5, <1>6, <1>7, <1>8, <1>9, <1>10, <1>11,
     <1>12, <1>13, <1>14, <1>15, <1>16, <1>17, <1>18, <1>19, <1>20,
     <1>21, <1>22, <1>23
  DEF Next, Thread, Proceed, Block

(* A step that is not a thread's own leaves what it is doing alone.        *)
LEMMA OtherThread ==
    ASSUME TypeOK, NEW t \in Threads,
           \/ \E u \in Threads \ {t} : Thread(u)
           \/ \E b \in Blocks : Block(b)
           \/ UNCHANGED vars
    PROVE  /\ tpc'[t] = tpc[t] /\ op'[t] = op[t] /\ target'[t] = target[t]
           /\ pending'[t] = pending[t] /\ visiting'[t] = visiting[t]
<1>1. ASSUME NEW u \in Threads \ {t}, Thread(u)
      PROVE  /\ tpc'[t] = tpc[t] /\ op'[t] = op[t] /\ target'[t] = target[t]
             /\ pending'[t] = pending[t] /\ visiting'[t] = visiting[t]
  BY <1>1
  DEF TypeOK, Thread, Proceed, ThreadGo, ThreadGoAdd, Open, OpenRegister,
      CancelLoad, Cancel, StartAwait, CancelAllLoad, CancelAllSwap,
      CancelAllCancel, Wait, Descend, AwaitTrue, AwaitTimeout, Return
<1>2. ASSUME NEW b \in Blocks, Block(b)
      PROVE  UNCHANGED threadVars
  BY <1>2, BlockFrame
<1>3. QED
  BY <1>1, <1>2 DEF vars, threadVars

(* A block comes alive only where its thread is, next to a block that is   *)
(* alive, or at the root.                                                  *)
LEMMA ComingAlive ==
    ASSUME TypeOK, [Next]_vars, NEW b \in Blocks, Alive(b)'
    PROVE  \/ Alive(b) /\ bscope'[b] = bscope[b]
           \/ bscope'[b] = Root
           \/ \E t \in Threads : tpc[t] = "run" /\ bscope'[b] = ecScope[t]
           \/ \E p \in Blocks : Alive(p) /\ bscope'[b] = bscope[p]
<1> DEFINE Goal == \/ Alive(b) /\ bscope'[b] = bscope[b]
                   \/ bscope'[b] = Root
                   \/ \E t \in Threads : tpc[t] = "run" /\ bscope'[b] = ecScope[t]
                   \/ \E p \in Blocks : Alive(p) /\ bscope'[b] = bscope[p]
<1> USE DEF TypeOK, Alive, Running
<1>1. ASSUME NEW t \in Threads, NEW k \in Blocks, ThreadGo(t, k) PROVE Goal
  <2>1. PICK s \in {ecScope[t], Root} : GoLoad(k, s, t)
    BY <1>1 DEF ThreadGo
  <2>2. /\ tpc[t] = "run" /\ bscope' = [bscope EXCEPT ![k] = s]
        /\ bpc' = [bpc EXCEPT ![k] = "add"]
    BY <1>1, <2>1 DEF ThreadGo, GoLoad
  <2>3. CASE b = k
    BY <2>1, <2>2, <2>3
  <2>4. CASE b # k
    BY <2>1, <2>2, <2>4
  <2>5. QED
    BY <2>3, <2>4
<1>2. ASSUME NEW p \in Blocks, NEW k \in Blocks, BlockGo(p, k) PROVE Goal
  <2>1. PICK s \in {bscope[p], Root} : bscope' = [bscope EXCEPT ![k] = s]
    BY <1>2 DEF BlockGo
  <2>2. /\ bpc[p] = "run" /\ bpc[k] = "none"
        /\ bpc' = [bpc EXCEPT ![p] = "spawning", ![k] = "add"]
    BY <1>2 DEF BlockGo
  <2>3. CASE b = k
    BY <2>1, <2>2, <2>3
  <2>4. CASE b # k
    BY <2>1, <2>2, <2>4
  <2>5. QED
    BY <2>3, <2>4
<1>3. ASSUME NEW t \in Threads, Thread(t), \A k \in Blocks : ~ThreadGo(t, k)
      PROVE  Goal
  BY <1>3
  DEF Thread, Proceed, ThreadGoAdd, Open, OpenRegister, CancelLoad, Cancel,
      CancelAllLoad, CancelAllSwap, CancelAllCancel, Wait, Descend, AwaitTrue,
      AwaitTimeout, Return, blockVars
<1>4. ASSUME NEW p \in Blocks, Block(p), \A k \in Blocks : ~BlockGo(p, k)
      PROVE  Goal
  BY <1>4
  DEF Block, BlockGoAdd, Park, Unpark, Finish, OpCancelled, EndBody, Taken,
      SendCancelled
<1>5. ASSUME UNCHANGED vars PROVE Goal
  BY <1>5 DEF vars, blockVars
<1> HIDE DEF Goal
<1>6. ASSUME NEW t \in Threads, Thread(t) PROVE Goal
  BY <1>1, <1>3, <1>6
<1>7. ASSUME NEW p \in Blocks, Block(p) PROVE Goal
  BY <1>2, <1>4, <1>7
<1>8. Goal
  BY <1>5, <1>6, <1>7 DEF Next
<1>9. QED
  BY <1>8 DEF Goal

(* A scope of the subtree being closed that is quiet stays so: nobody else *)
(* has it open.                                                            *)
LEMMA QuietStays ==
    ASSUME TypeOK, ThreadInv, BranchInv, [Next]_vars,
           NEW t \in Threads, tpc[t] # "run", op[t] = "close",
           NEW x \in Scopes, target[t] \in Up[x], QuietScope(x)
    PROVE  QuietScope(x)'
<1>1. target[t] \in Up[ecScope[t]] /\ target[t] # Root
  BY DEF BranchInv, ThreadInv
<1>2. x # Root
  BY <1>1, RootFacts
<1>3. ASSUME NEW u \in Threads, tpc[u] = "run", ecScope[u] = x PROVE FALSE
  <2>1. Up[ecScope[t]] \intersect Up[ecScope[u]] = {Root}
    BY <1>3 DEF BranchInv
  <2>2. QED
    BY <1>1, <1>3, <2>1
<1>4. SUFFICES ASSUME NEW b \in Blocks, bscope'[b] = x, Alive(b)' PROVE FALSE
  BY DEF QuietScope
<1>5. QED
  BY <1>2, <1>3, <1>4, ComingAlive DEF QuietScope

(* The subtree being closed does not grow: a scope registered meanwhile is *)
(* on another branch.                                                      *)
LEMMA SubtreeStays ==
    ASSUME TypeOK, ThreadInv, BranchInv, [Next]_vars,
           NEW t \in Threads, tpc[t] \notin {"run", "register"}, op[t] = "close",
           NEW x \in Scopes, InSubtree(x, target[t])'
    PROVE  target'[t] = target[t] => InSubtree(x, target[t])
<1> SUFFICES ASSUME target'[t] = target[t] PROVE InSubtree(x, target[t])
  OBVIOUS
<1> DEFINE a == target[t]
<1>1. /\ a \in Up[x] /\ a \in Up[ecScope[t]] /\ a \in Scopes \ {Root}
      /\ \A y \in Up[x] \ Up[a] : y \in children'[Parent[y]]
  BY DEF InSubtree, BranchInv, ThreadInv, TypeOK
<1> HIDE DEF a
<1>2. CASE UNCHANGED children
  BY <1>1, <1>2 DEF InSubtree, a
<1>3. ASSUME NEW u \in Threads, Return(u) PROVE InSubtree(x, a)
  <2>1. ASSUME NEW y \in Up[x] \ Up[a] PROVE y \in children[Parent[y]]
    <3>1. y \in Scopes \ {Root}
      BY <1>1, RootFacts
    <3>2. Parent[y] \in Scopes
      BY <3>1, ScopeConstants
    <3>3. QED
      BY <1>1, <1>3, <2>1, <3>2, ReturnChildren
  <2>2. QED
    BY <1>1, <2>1 DEF InSubtree
<1>4. ASSUME NEW u \in Threads, OpenRegister(u) PROVE InSubtree(x, a)
  <2> DEFINE c == target[u]
  <2>1. /\ u # t /\ c \in Scopes \ {Root} /\ Parent[c] = ecScope[u]
        /\ Up[ecScope[t]] \intersect Up[ecScope[u]] = {Root}
        /\ ecScope[u] \in Scopes
    BY <1>4 DEF OpenRegister, BranchInv, TypeOK
  <2>2. Up[c] = {c} \union Up[ecScope[u]]
    BY <2>1, ScopeConstants
  <2>3. children' = [children EXCEPT ![ecScope[u]] = @ \union {c}]
    BY <1>4 DEF OpenRegister
  <2> HIDE DEF c
  <2>4. ASSUME NEW y \in Up[x] \ Up[a] PROVE y \in children[Parent[y]]
    <3>1. y # c
      <4> SUFFICES ASSUME y = c PROVE FALSE
        OBVIOUS
      <4>1. a \in Up[c]
        BY <1>1, <2>4, UpLinear
      <4>2. a \in Up[ecScope[u]]
        BY <1>1, <2>2, <2>4, <4>1, UpFacts
      <4>3. QED
        BY <1>1, <2>1, <4>2
    <3>2. y \in Scopes \ {Root}
      BY <1>1, RootFacts
    <3>3. Parent[y] \in Scopes
      BY <3>2, ScopeConstants
    <3>4. QED
      BY <1>1, <2>1, <2>3, <2>4, <3>1, <3>3 DEF TypeOK
  <2>5. QED
    BY <1>1, <2>4 DEF InSubtree
<1>5. QED
  BY <1>2, <1>3, <1>4, ChildrenFrame DEF a

(* What WalkInv says of one thread.                                        *)
LEMMA WalkOf ==
    ASSUME WalkInv, NEW t \in Threads,
           tpc[t] \in {"wait", "awaited"}, op[t] = "close"
    PROVE  /\ \A y \in pending[t] : target[t] \in Up[y]
           /\ visiting[t] # None => target[t] \in Up[visiting[t]]
           /\ \A x \in Scopes : InSubtree(x, target[t]) => Covered(x, t)
  BY DEF WalkInv

(* The walk goes on while others spawn, open and close elsewhere.          *)
LEMMA WalkGoesOn ==
    ASSUME TypeOK, ThreadInv, BranchInv, WalkInv, [Next]_vars,
           NEW t \in Threads, tpc[t] \in {"wait", "awaited"}, op[t] = "close",
           target'[t] = target[t], pending'[t] = pending[t],
           visiting'[t] = visiting[t],
           NEW x \in Scopes, InSubtree(x, target[t])'
    PROVE  Covered(x, t)'
<1>1. InSubtree(x, target[t])
  BY SubtreeStays
<1>2. Covered(x, t)
  BY <1>1, WalkOf
<1>3. QuietScope(x) => QuietScope(x)'
  BY <1>1, QuietStays DEF InSubtree
<1>4. QED
  BY <1>2, <1>3 DEF Covered

(* wg.Wait returns when nothing runs in the scope; nothing is about to     *)
(* either, as its starter would run there.                                 *)
LEMMA WaitedIsQuiet ==
    ASSUME TypeOK, ThreadInv, BranchInv, StarterInv,
           NEW t \in Threads, NEW s \in Scopes, Wait(t, s),
           op[t] = "close", target[t] \in Up[s]
    PROVE  QuietScope(s)
<1>1. /\ target[t] \in Up[ecScope[t]] /\ target[t] # Root
      /\ tpc[t] = "wait" /\ s # Root
  BY RootFacts DEF BranchInv, ThreadInv, Wait
<1>2. \A b \in Blocks : bscope[b] = s => ~Running(b)
  BY DEF Wait
<1>3. SUFFICES ASSUME NEW b \in Blocks, bscope[b] = s, bpc[b] = "add" PROVE FALSE
  BY <1>2 DEF QuietScope, Alive
<1>4. CASE /\ starter[b] \in Threads
           /\ tpc[starter[b]] = "spawning"
           /\ bscope[b] \in {ecScope[starter[b]], Root}
  <2> DEFINE u == starter[b]
  <2>1. u \in Threads \ {t} /\ ecScope[u] = s
    BY <1>1, <1>3, <1>4
  <2> HIDE DEF u
  <2>2. Up[ecScope[t]] \intersect Up[s] = {Root}
    BY <2>1 DEF BranchInv
  <2>3. QED
    BY <1>1, <2>2
<1>5. CASE /\ starter[b] \in Blocks
           /\ bpc[starter[b]] = "spawning"
           /\ bscope[b] \in {bscope[starter[b]], Root}
  BY <1>1, <1>2, <1>3, <1>5 DEF Running
<1>6. QED
  BY <1>3, <1>4, <1>5 DEF StarterInv

(* The walk covers the subtree: waiting for a scope leaves what is below   *)
(* it, and reading its children leaves their subtrees.                     *)
LEMMA WalkStep ==
    ASSUME TypeOK, ThreadInv, ChildInv, BranchInv, StarterInv, WalkInv, [Next]_vars
    PROVE  WalkInv'
<1> SUFFICES ASSUME NEW t \in Threads
             PROVE  (/\ tpc[t] # "wait" => visiting[t] = None
                     /\ tpc[t] = "awaited" => pending[t] = {}
                     /\ tpc[t] \in {"wait", "awaited"} /\ op[t] = "close" =>
                          /\ \A y \in pending[t] : target[t] \in Up[y]
                          /\ visiting[t] # None => target[t] \in Up[visiting[t]]
                          /\ \A x \in Scopes :
                                InSubtree(x, target[t]) => Covered(x, t))'
  BY DEF WalkInv
<1>1. /\ tpc[t] # "wait" => visiting[t] = None
      /\ tpc[t] = "awaited" => pending[t] = {}
  BY DEF WalkInv
<1> USE DEF TypeOK
<1>2. CASE \/ \E u \in Threads \ {t} : Thread(u)
           \/ \E b \in Blocks : Block(b)
           \/ UNCHANGED vars
  <2>1. /\ tpc'[t] = tpc[t] /\ op'[t] = op[t] /\ target'[t] = target[t]
        /\ pending'[t] = pending[t] /\ visiting'[t] = visiting[t]
    BY <1>2, OtherThread
  <2>2. QED
    BY <1>1, <2>1, WalkOf, WalkGoesOn
<1>3. ASSUME \/ Cancel(t) /\ op[t] # "interrupt"
             \/ CancelAllCancel(t)
      PROVE  /\ tpc'[t] = "wait" /\ op' = op /\ target' = target
             /\ pending'[t] = {target[t]} /\ visiting'[t] = None
  BY <1>1, <1>3 DEF Cancel, CancelAllCancel, StartAwait
<1>4. CASE \/ Cancel(t) /\ op[t] # "interrupt"
           \/ CancelAllCancel(t)
  <2>1. target[t] \in Up[target[t]]
    BY UpFacts
  <2>2. \A x \in Scopes : InSubtree(x, target[t])' => target[t] \in Up[x]
    BY <1>3, <1>4 DEF InSubtree
  <2>3. QED
    BY <1>3, <1>4, <2>1, <2>2 DEF Covered
<1>5. CASE Cancel(t) /\ op[t] = "interrupt"
  <2>1. tpc'[t] = "run" /\ visiting'[t] = None
    BY <1>1, <1>5 DEF Cancel
  <2>2. QED
    BY <2>1
<1>6. ASSUME NEW s \in Scopes, Wait(t, s)
      PROVE  /\ tpc'[t] = "wait" /\ op'[t] = op[t] /\ target'[t] = target[t]
             /\ pending'[t] = pending[t] \ {s} /\ visiting'[t] = s
             /\ s \in pending[t] /\ visiting[t] = None /\ tpc[t] = "wait"
             /\ UNCHANGED <<children, bpc, bscope>>
  BY <1>6 DEF Wait, treeVars, blockVars
<1>7. ASSUME NEW s \in Scopes, Wait(t, s), op[t] = "close"
      PROVE  /\ \A y \in pending'[t] : target'[t] \in Up[y]
             /\ target'[t] \in Up[s]
             /\ \A x \in Scopes : InSubtree(x, target[t])' => Covered(x, t)'
  <2>1. target[t] \in Up[s] /\ \A y \in pending[t] : target[t] \in Up[y]
    BY <1>6, <1>7, WalkOf
  <2>2. QuietScope(s)
    BY <1>7, <2>1, WaitedIsQuiet
  <2>3. ASSUME NEW x \in Scopes, InSubtree(x, target[t])' PROVE Covered(x, t)'
    <3>1. InSubtree(x, target[t])
      BY <1>6, <1>7, <2>3 DEF InSubtree
    <3>2. Covered(x, t) /\ visiting[t] \notin Up[x]
      BY <1>6, <1>7, <3>1, WalkOf, RootFacts, ScopeConstants
    <3>3. QuietScope(x) => QuietScope(x)'
      BY <1>6, <1>7 DEF QuietScope, Alive, Running
    <3>4. x = s => QuietScope(x)'
      BY <2>2, <3>3
    <3>5. QED
      BY <1>6, <1>7, <3>2, <3>3, <3>4 DEF Covered
  <2>4. QED
    BY <1>6, <1>7, <2>1, <2>3
<1>8. ASSUME Descend(t)
      PROVE  /\ tpc'[t] = "wait" /\ op'[t] = op[t] /\ target'[t] = target[t]
             /\ pending'[t] = pending[t] \union children[visiting[t]]
             /\ visiting'[t] = None /\ visiting[t] # None /\ tpc[t] = "wait"
             /\ UNCHANGED <<children, bpc, bscope>>
  BY <1>8 DEF Descend, treeVars, blockVars
<1>9. ASSUME Descend(t), op[t] = "close"
      PROVE  /\ \A y \in pending'[t] : target'[t] \in Up[y]
             /\ \A x \in Scopes : InSubtree(x, target[t])' => Covered(x, t)'
  <2> DEFINE v == visiting[t]
  <2>1. /\ v \in Scopes /\ target[t] \in Up[v]
        /\ \A y \in pending[t] : target[t] \in Up[y]
    BY <1>8, <1>9, WalkOf
  <2>2. ASSUME NEW c \in children[v] PROVE target[t] \in Up[c]
    <3>1. c \in Scopes \ {Root} /\ Parent[c] = v
      BY <2>1, <2>2 DEF ChildInv
    <3>2. QED
      BY <2>1, <3>1, ScopeConstants
  <2>3. ASSUME NEW x \in Scopes, InSubtree(x, target[t])' PROVE Covered(x, t)'
    <3>1. InSubtree(x, target[t])
      BY <1>8, <1>9, <2>3 DEF InSubtree
    <3>2. Covered(x, t)
      BY <1>8, <1>9, <3>1, WalkOf
    <3>3. QuietScope(x) => QuietScope(x)'
      BY <1>8, <1>9 DEF QuietScope, Alive, Running
    <3>4. ASSUME v \in Up[x] \ {x}
          PROVE  \E c \in children[v] : c \in Up[x]
      <4>1. PICK c \in Up[x] : c # Root /\ Parent[c] = v /\ c \notin Up[v]
        BY <3>4, WayDown
      <4>2. c \notin Up[target[t]]
        BY <2>1, <4>1, UpTransitive
      <4>3. QED
        BY <3>1, <4>1, <4>2 DEF InSubtree
    <3>5. QED
      BY <1>8, <1>9, <3>2, <3>3, <3>4 DEF Covered
  <2>4. QED
    BY <1>8, <1>9, <2>1, <2>2, <2>3
<1>10. CASE AwaitTrue(t)
  <2>1. /\ tpc'[t] = "awaited" /\ tpc[t] = "wait" /\ op'[t] = op[t]
        /\ target'[t] = target[t] /\ pending'[t] = pending[t]
        /\ visiting'[t] = visiting[t] /\ pending[t] = {} /\ visiting[t] = None
    BY <1>10 DEF AwaitTrue
  <2>2. QED
    BY <1>10, <2>1, WalkOf, WalkGoesOn
<1>11. ASSUME \/ \E b \in Blocks : ThreadGo(t, b) \/ ThreadGoAdd(t, b)
              \/ \E s \in Scopes : \/ Open(t, s) \/ CancelAllLoad(t, s)
                                   \/ \E o \in {"close", "interrupt"} :
                                        CancelLoad(t, s, o)
              \/ OpenRegister(t) \/ CancelAllSwap(t) \/ AwaitTimeout(t)
              \/ Return(t)
       PROVE  tpc'[t] \notin {"wait", "awaited"} /\ visiting'[t] = None
  BY <1>1, <1>11
  DEF ThreadGo, ThreadGoAdd, Open, CancelAllLoad, CancelLoad, OpenRegister,
      CancelAllSwap, AwaitTimeout, Return
<1>12. CASE Thread(t)
  BY <1>4, <1>5, <1>6, <1>7, <1>8, <1>9, <1>10, <1>11, <1>12
  DEF Thread, Proceed
<1>13. QED
  BY <1>2, <1>12 DEF Next

(* QuietInv is inductive relative to IInv.                                 *)
THEOREM QuietInvariant == Spec => []QuietInv
<1>1. Init => QuietInv
  <2> SUFFICES ASSUME Init PROVE QuietInv
    OBVIOUS
  <2>1. ChildInv /\ StarterInv /\ WalkInv
    BY DEF Init, ChildInv, StarterInv, WalkInv
  <2>2. BranchInv
    BY RootFacts DEF Init, BranchInv
  <2>3. QED
    BY <2>1, <2>2 DEF QuietInv
<1>2. IInv /\ QuietInv /\ [Next]_vars => QuietInv'
  BY ChildStep, BranchStep, StarterStep, WalkStep DEF IInv, QuietInv
<1>3. QED
  BY <1>1, <1>2, InductiveInvariant, PTL DEF Spec

(* When the Await of CloseScoped returns true, no goroutine of the scope   *)
(* or of its subtree is running or about to start.                         *)
THEOREM QuietClose == Spec => []ClosedScopeIsQuiet
<1>1. IInv /\ QuietInv => ClosedScopeIsQuiet
  <2> SUFFICES ASSUME IInv, QuietInv, NEW t \in Threads, NEW b \in Blocks,
                      tpc[t] = "awaited", op[t] = "close",
                      InSubtree(bscope[b], target[t])
               PROVE  ~Alive(b)
    BY DEF ClosedScopeIsQuiet
  <2>1. bscope[b] \in Scopes
    BY DEF IInv, TypeOK
  <2>2. Covered(bscope[b], t)
    BY <2>1, WalkOf DEF QuietInv
  <2>3. pending[t] = {} /\ visiting[t] = None
    BY DEF QuietInv, WalkInv
  <2>4. visiting[t] \notin Up[bscope[b]]
    BY <2>1, <2>3, RootFacts, ScopeConstants
  <2>5. QED
    BY <2>2, <2>3, <2>4 DEF Covered, QuietScope
<1>2. QED
  BY <1>1, InductiveInvariant, QuietInvariant, PTL

=============================================================================
