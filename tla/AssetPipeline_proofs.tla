------------------------- MODULE AssetPipeline_proofs -------------------------
(***************************************************************************)
(* Proofs about the pipeline of one asset, for any channel capacities,     *)
(* policies and numbers of intents.                                        *)
(***************************************************************************)
EXTENDS AssetPipeline, SequenceTheorems, FiniteSetTheorems, WellFoundedInduction, TLAPS

(* While the switch is thrown, a coordinator that may still approve, having *)
(* read it before, has approved nothing since.                             *)
LateInv == /\ late \in {0, 1}
           /\ killed /\ coordinator = "check" => sawKill \/ late = 0

-----------------------------------------------------------------------------
(* Every step keeps LateInv: only the intent the coordinator was deciding on *)
(* when the switch was thrown can still be approved.                       *)
LEMMA LateStep ==
  ASSUME LateInv, [Next]_vars PROVE LateInv'
<1> USE DEF LateInv, reactors, strategy, processing, coordination, execution
<1>1. CASE ReactorStep \/ Tick
  BY <1>1 DEF ReactorStep, Tick, ControlBatch, ReactorStops
<1>2. CASE ProcessorStep
  BY <1>2 DEF ProcessorStep, Receive, Pass, Evaluate, Send, Evict, ProcessorStops
<1>3. CASE CoordinatorStep
  <2>1. CASE ReadSwitch
    BY <2>1 DEF ReadSwitch
  <2>2. CASE \E approved \in BOOLEAN : Check(approved)
    BY <2>2 DEF Check
  <2>3. CASE TakeRequest \/ SendDecision \/ CoordinatorLeaves \/ DrainRequests
    BY <2>3 DEF TakeRequest, SendDecision, CoordinatorLeaves, DrainRequests
  <2>4. QED
    BY <1>3, <2>1, <2>2, <2>3 DEF CoordinatorStep
<1>4. CASE ExecutorStep
  BY <1>4 DEF ExecutorStep, TakeDecision, Refuse, Execute, ExecutorStops
<1>5. CASE ControlStep \/ Unsubscribe \/ SwapStrategy
  BY <1>5 DEF ControlStep, Unsubscribe, Join, TellReactor, SwapStrategy
<1>6. CASE Activate \/ Clear
  BY <1>6 DEF Activate, Clear
<1>7. CASE UNCHANGED vars
  BY <1>7 DEF vars
<1>8. QED
  BY <1>1, <1>2, <1>3, <1>4, <1>5, <1>6, <1>7 DEF Next

(* Once the switch is thrown at most the request whose check had read it   *)
(* before is still approved, however often it is thrown and cleared.       *)
THEOREM LateApproval == Spec => []OneLateApproval
<1>1. Init => LateInv
  BY DEF Init, LateInv
<1>2. LateInv => OneLateApproval
  BY DEF LateInv, OneLateApproval
<1>3. QED
  BY <1>1, <1>2, LateStep, PTL DEF Spec

-----------------------------------------------------------------------------
(***************************************************************************)
(* The units of a sequence of intents.                                     *)
(***************************************************************************)

\* What the model adds up, from a base and from nothing.
Sum(base, is) == FoldSeq(LAMBDA i, sum : sum + Units(i.side), base, is)
Net(is) == Sum(0, is)

\* The same without a fold: the intents that raise the position are counted,
\* and those that lower it.
Raising(is, D)  == {n \in D : is[n].side \in Rises}
Lowering(is, D) == {n \in D : is[n].side \notin Rises}
Total(base, is, D) == base + Cardinality(Raising(is, D)) - Cardinality(Lowering(is, D))

\* The function that the fold chooses.
IsFold(g, base, is) ==
  g = [D \in SUBSET DOMAIN is |->
         IF D = {} THEN base
         ELSE LET n == CHOOSE x \in D : TRUE IN g[D \ {n}] + Units(is[n].side)]

(* One intent more, whichever it is, adds its units to the total.          *)
LEMMA TotalType ==
  ASSUME NEW base \in Int, NEW is, NEW D, IsFiniteSet(D)
  PROVE  /\ Total(base, is, D) \in Int
         /\ \A n \in D : Total(base, is, D) = Total(base, is, D \ {n}) + Units(is[n].side)
<1>1. /\ IsFiniteSet(Raising(is, D)) /\ IsFiniteSet(Lowering(is, D))
      /\ Cardinality(Raising(is, D)) \in Nat /\ Cardinality(Lowering(is, D)) \in Nat
  <2>1. Raising(is, D) \in SUBSET D /\ Lowering(is, D) \in SUBSET D
    BY DEF Raising, Lowering
  <2>2. IsFiniteSet(Raising(is, D)) /\ IsFiniteSet(Lowering(is, D))
    BY <2>1, FS_Subset
  <2>3. QED
    BY <2>2, FS_CardinalityType
<1>2. ASSUME NEW n \in D
      PROVE  Total(base, is, D) = Total(base, is, D \ {n}) + Units(is[n].side)
  <2>1. CASE is[n].side \in Rises
    <3>1. /\ Raising(is, D \ {n}) = Raising(is, D) \ {n} /\ n \in Raising(is, D)
          /\ Lowering(is, D \ {n}) = Lowering(is, D)
      BY <2>1 DEF Raising, Lowering
    <3>2. Cardinality(Raising(is, D \ {n})) = Cardinality(Raising(is, D)) - 1
      BY <1>1, <3>1, FS_RemoveElement
    <3>3. QED
      BY <1>1, <2>1, <3>1, <3>2 DEF Total, Units
  <2>2. CASE is[n].side \notin Rises
    <3>1. /\ Lowering(is, D \ {n}) = Lowering(is, D) \ {n} /\ n \in Lowering(is, D)
          /\ Raising(is, D \ {n}) = Raising(is, D)
      BY <2>2 DEF Raising, Lowering
    <3>2. Cardinality(Lowering(is, D \ {n})) = Cardinality(Lowering(is, D)) - 1
      BY <1>1, <3>1, FS_RemoveElement
    <3>3. QED
      BY <1>1, <2>2, <3>1, <3>2 DEF Total, Units
  <2>3. QED
    BY <2>1, <2>2
<1>3. QED
  BY <1>1, <1>2 DEF Total

(* So the fold is the total, whatever order it chooses: the counts satisfy *)
(* its recursion, and nothing else does, for a smallest set at which another*)
(* function differs would have a smaller one.                              *)
LEMMA SumIsTotal ==
  ASSUME NEW base \in Int, NEW is, IsFiniteSet(DOMAIN is)
  PROVE  Sum(base, is) = Total(base, is, DOMAIN is)
<1> DEFINE S == SUBSET DOMAIN is
           g == [D \in S |-> Total(base, is, D)]
           h == CHOOSE f : IsFold(f, base, is)
<1>1. Sum(base, is) = h[DOMAIN is]
  BY DEF Sum, FoldSeq, FoldFunction, FoldFunctionOnSet, MapThenFoldSet, IsFold
<1>2. \A D \in S : IsFiniteSet(D)
  BY FS_Subset
<1>3. IsFold(g, base, is)
  <2>1. g[{}] = base
    <3>1. Raising(is, {}) = {} /\ Lowering(is, {}) = {}
      BY DEF Raising, Lowering
    <3>2. QED
      BY <3>1, FS_EmptySet DEF Total
  <2>2. ASSUME NEW D \in S, D # {}
        PROVE  LET n == CHOOSE x \in D : TRUE IN g[D] = g[D \ {n}] + Units(is[n].side)
    <3> DEFINE n == CHOOSE x \in D : TRUE
    <3>1. n \in D /\ D \ {n} \in S /\ IsFiniteSet(D)
      BY <1>2, <2>2
    <3> HIDE DEF n
    <3>2. Total(base, is, D) = Total(base, is, D \ {n}) + Units(is[n].side)
      BY <3>1, TotalType
    <3>3. QED
      BY <3>1, <3>2 DEF n
  <2>3. QED
    BY <2>1, <2>2 DEF IsFold
<1>4. IsFold(h, base, is)
  BY <1>3
<1> HIDE DEF h
<1>5. \A D \in S : h[D] = g[D]
  <2> DEFINE Bad == {D \in S : h[D] # g[D]}
  <2> SUFFICES ASSUME Bad # {} PROVE FALSE
    OBVIOUS
  <2>1. Bad \subseteq FiniteSubsetsOf(DOMAIN is)
    BY <1>2 DEF FiniteSubsetsOf
  <2>2. IsWellFoundedOn(StrictSubsetOrdering(DOMAIN is), FiniteSubsetsOf(DOMAIN is))
    BY FS_StrictSubsetOrderingWellFounded
  <2>3. PICK D \in Bad : \A E \in Bad : <<E, D>> \notin StrictSubsetOrdering(DOMAIN is)
    BY <2>1, <2>2, WFMin
  <2>4. D # {}
    BY <1>3, <1>4 DEF IsFold
  <2> DEFINE n == CHOOSE x \in D : TRUE
             E == D \ {n}
  <2>5. n \in D
    BY <2>4
  <2>6. E \notin Bad
    <3>1. E \in SUBSET DOMAIN is /\ D \in SUBSET DOMAIN is /\ E \subseteq D /\ E # D
      BY <2>5
    <3> HIDE DEF E, Bad
    <3>2. <<E, D>> \in StrictSubsetOrdering(DOMAIN is)
      BY <3>1 DEF StrictSubsetOrdering
    <3>3. QED
      BY <2>3, <3>2
  <2>7. h[D \ {n}] = g[D \ {n}]
    BY <2>6
  <2>8. D \in S /\ h[D] # g[D]
    OBVIOUS
  <2>9. h[D] = h[D \ {n}] + Units(is[n].side) /\ g[D] = g[D \ {n}] + Units(is[n].side)
    <3> HIDE DEF g, Bad
    <3>1. QED
      BY <1>3, <1>4, <2>4, <2>8 DEF IsFold
  <2>10. QED
    BY <2>7, <2>8, <2>9
<1>6. QED
  BY <1>1, <1>5

(* A set of numbers moved by k has as many elements.                       *)
LEMMA ShiftedSet ==
  ASSUME NEW T, IsFiniteSet(T), T \subseteq Int, NEW k \in Int
  PROVE  LET U == {n + k : n \in T}
         IN  IsFiniteSet(U) /\ Cardinality(U) = Cardinality(T)
<1> DEFINE U == {n + k : n \in T}
           f == [n \in T |-> n + k]
<1>1. f \in Bijection(T, U)
  BY DEF Bijection, Injection, Surjection, IsInjective
<1>2. ExistsBijection(T, U)
  BY <1>1 DEF ExistsBijection
<1>3. QED
  BY <1>2, FS_Bijection

(* The total of two sequences, one after the other, is the sum of theirs.  *)
LEMMA TotalConcat ==
  ASSUME NEW base \in Int, NEW a \in Seq(Intents), NEW b \in Seq(Intents)
  PROVE  Total(base, a \o b, 1..Len(a \o b))
           = Total(base, a, 1..Len(a)) + Total(0, b, 1..Len(b))
<1> DEFINE m == Len(a)
           k == Len(b)
           c == a \o b
           Moved(T) == {n + m : n \in T}
<1>1. /\ m \in Nat /\ k \in Nat /\ Len(c) = m + k
      /\ \A n \in 1..m : c[n] = a[n]
      /\ \A n \in 1..k : c[n + m] = b[n]
  BY ConcatProperties
<1>2. 1..(m + k) = 1..m \cup Moved(1..k)
  <2>1. ASSUME NEW n \in 1..(m + k), n \notin 1..m
        PROVE  n \in Moved(1..k)
    <3>1. n - m \in 1..k /\ n = (n - m) + m
      BY <1>1, <2>1
    <3>2. QED
      BY <3>1
  <2>2. QED
    BY <1>1, <2>1
<1> HIDE DEF c, m, k
<1>3. ASSUME NEW T, NEW A, NEW B, T = A \cup Moved(B), A \subseteq 1..m, B \subseteq 1..k
      PROVE  /\ Cardinality(T) = Cardinality(A) + Cardinality(B)
             /\ Cardinality(A) \in Nat /\ Cardinality(B) \in Nat
  <2>1. IsFiniteSet(1..m) /\ IsFiniteSet(1..k)
    BY <1>1, FS_Interval
  <2>2. IsFiniteSet(A) /\ IsFiniteSet(B) /\ B \subseteq Int /\ m \in Int
    <3>1. A \in SUBSET (1..m) /\ B \in SUBSET (1..k)
      BY <1>3
    <3>2. IsFiniteSet(A) /\ IsFiniteSet(B)
      BY <2>1, <3>1, FS_Subset
    <3>3. QED
      BY <1>1, <3>1, <3>2
  <2>3. IsFiniteSet(Moved(B)) /\ Cardinality(Moved(B)) = Cardinality(B)
    BY <2>2, ShiftedSet
  <2>4. A \cap Moved(B) = {}
    BY <1>1, <1>3
  <2>5. Cardinality(A) \in Nat /\ Cardinality(B) \in Nat
    BY <2>2, FS_CardinalityType
  <2> HIDE DEF Moved
  <2>6. Cardinality(T) = Cardinality(A) + Cardinality(Moved(B)) - Cardinality({})
    BY <1>3, <2>2, <2>3, <2>4, FS_Union
  <2>7. QED
    BY <2>3, <2>5, <2>6, FS_EmptySet
<1>4. Raising(c, 1..(m + k)) = Raising(a, 1..m) \cup Moved(Raising(b, 1..k))
  BY <1>1, <1>2 DEF Raising
<1>5. Lowering(c, 1..(m + k)) = Lowering(a, 1..m) \cup Moved(Lowering(b, 1..k))
  BY <1>1, <1>2, ZenonT(20) DEF Lowering
<1> HIDE DEF Moved
<1>6. /\ Raising(a, 1..m) \subseteq 1..m /\ Raising(b, 1..k) \subseteq 1..k
      /\ Lowering(a, 1..m) \subseteq 1..m /\ Lowering(b, 1..k) \subseteq 1..k
  BY DEF Raising, Lowering
<1>7. Cardinality(Raising(c, 1..(m + k)))
        = Cardinality(Raising(a, 1..m)) + Cardinality(Raising(b, 1..k))
  BY <1>3, <1>4, <1>6
<1>8. Cardinality(Lowering(c, 1..(m + k)))
        = Cardinality(Lowering(a, 1..m)) + Cardinality(Lowering(b, 1..k))
  BY <1>3, <1>5, <1>6
<1>9. /\ Cardinality(Raising(a, 1..m)) \in Nat /\ Cardinality(Raising(b, 1..k)) \in Nat
      /\ Cardinality(Lowering(a, 1..m)) \in Nat /\ Cardinality(Lowering(b, 1..k)) \in Nat
  BY <1>3, <1>4, <1>5, <1>6
<1>10. Total(base, c, 1..(m + k)) = Total(base, a, 1..m) + Total(0, b, 1..k)
  BY <1>7, <1>8, <1>9 DEF Total
<1>11. QED
  BY <1>1, <1>10 DEF c, m, k

(* The two facts above for sequences.                                      *)
LEMMA SumOfSeq ==
  ASSUME NEW is \in Seq(Intents), NEW base \in Int
  PROVE  /\ Sum(base, is) = Total(base, is, 1..Len(is))
         /\ Total(base, is, 1..Len(is)) \in Int
<1>1. DOMAIN is = 1..Len(is) /\ Len(is) \in Nat /\ IsFiniteSet(1..Len(is))
  BY FS_Interval
<1>2. QED
  BY <1>1, SumIsTotal, TotalType

(* What the proofs use of the net units.                                   *)
LEMMA NetProperties ==
  /\ Net(<<>>) = 0
  /\ \A i \in Intents : Net(<<i>>) = Units(i.side)
  /\ \A is \in Seq(Intents) : Net(is) \in Int
  /\ \A is \in Seq(Intents), base \in Int : Sum(base, is) = base + Net(is)
  /\ \A a, b \in Seq(Intents) : Net(a \o b) = Net(a) + Net(b)
<1>1. \A is \in Seq(Intents), base \in Int : Sum(base, is) = Total(base, is, 1..Len(is))
  BY SumOfSeq
<1>2. 0 \in Int
  OBVIOUS
<1>3. \A is \in Seq(Intents), base \in Int : Total(base, is, 1..Len(is)) \in Int
  BY SumOfSeq
<1>4. \A base \in Int : \A is : Total(base, is, {}) = base
  BY FS_EmptySet DEF Total, Raising, Lowering
<1>5. Net(<<>>) = 0
  <2>1. <<>> \in Seq(Intents) /\ 1..Len(<<>>) = {}
    OBVIOUS
  <2>2. Sum(0, <<>>) = Total(0, <<>>, {})
    BY <1>1, <1>2, <2>1, Zenon
  <2>3. QED
    BY <1>4, <2>2 DEF Net
<1>6. ASSUME NEW i \in Intents PROVE Net(<<i>>) = Units(i.side)
  <2>1. <<i>> \in Seq(Intents) /\ Len(<<i>>) = 1 /\ <<i>>[1] = i /\ 1..1 \ {1} = {} /\ 1 \in 1..1
    OBVIOUS
  <2>2. Net(<<i>>) = Total(0, <<i>>, {}) + Units(i.side)
    <3>1. IsFiniteSet(1..1)
      <4>1. 1..1 = {1}
        OBVIOUS
      <4>2. QED
        BY <4>1, FS_Singleton
    <3>2. \A n \in 1..1 : Total(0, <<i>>, 1..1) = Total(0, <<i>>, 1..1 \ {n}) + Units(<<i>>[n].side)
      BY <1>2, <3>1, TotalType, Zenon
    <3>3. Sum(0, <<i>>) = Total(0, <<i>>, 1..1)
      BY <1>1, <1>2, <2>1, Zenon
    <3>4. QED
      BY <2>1, <3>2, <3>3 DEF Net
  <2>3. QED
    BY <1>4, <2>2 DEF Units
<1>7. ASSUME NEW is \in Seq(Intents), NEW base \in Int
      PROVE  Net(is) \in Int /\ Sum(base, is) = base + Net(is)
  <2>1. <<>> \in Seq(Intents) /\ <<>> \o is = is
    OBVIOUS
  <2>2. Total(base, is, 1..Len(is)) = Total(base, <<>>, 1..Len(<<>>)) + Total(0, is, 1..Len(is))
    BY <2>1, TotalConcat
  <2>3. 1..Len(<<>>) = {}
    OBVIOUS
  <2>4. QED
    BY <1>4, <1>1, <1>3, <2>1, <2>2, <2>3 DEF Net
<1>8. ASSUME NEW a \in Seq(Intents), NEW b \in Seq(Intents) PROVE Net(a \o b) = Net(a) + Net(b)
  <2>1. a \o b \in Seq(Intents)
    OBVIOUS
  <2>2. /\ Sum(0, a \o b) = Total(0, a \o b, 1..Len(a \o b))
        /\ Sum(0, a) = Total(0, a, 1..Len(a)) /\ Sum(0, b) = Total(0, b, 1..Len(b))
    BY <1>1, <1>2, <2>1, Zenon
  <2>3. QED
    BY <2>2, TotalConcat DEF Net
<1>9. QED
  BY <1>5, <1>6, <1>7, <1>8

-----------------------------------------------------------------------------
(***************************************************************************)
(* The order of a sequence of intents, and the newest it may hold.         *)
(***************************************************************************)
Increasing(is) == \A m, n \in DOMAIN is : m < n => is[m].id < is[n].id
UpTo(is, e) == \A n \in DOMAIN is : is[n].id <= e

(* What is left when some intents are cut out is in order.                 *)
LEMMA CutKeepsOrder ==
  ASSUME NEW p \in Seq(Intents), NEW m \in Seq(Intents), NEW q \in Seq(Intents), NEW e,
         Increasing((p \o m) \o q), UpTo((p \o m) \o q, e)
  PROVE  Increasing(p \o q) /\ UpTo(p \o q, e)
<1> DEFINE s == (p \o m) \o q
           t == p \o q
           Old(n) == IF n <= Len(p) THEN n ELSE n + Len(m)
<1>1. Len(p) \in Nat /\ Len(m) \in Nat /\ Len(q) \in Nat
  OBVIOUS
<1>2. DOMAIN t = 1..(Len(p) + Len(q)) /\ DOMAIN s = 1..(Len(p) + Len(m) + Len(q))
  <2>1. s \in Seq(Intents) /\ t \in Seq(Intents) /\ p \o m \in Seq(Intents)
    OBVIOUS
  <2>2. Len(t) = Len(p) + Len(q) /\ Len(s) = Len(p) + Len(m) + Len(q)
    BY <2>1
  <2>3. QED
    BY <2>1, <2>2, LenProperties
<1>3. ASSUME NEW n \in DOMAIN t
      PROVE  Old(n) \in DOMAIN s /\ t[n] = s[Old(n)]
  <2>1. n \in Int /\ n >= 1 /\ n <= Len(p) + Len(q)
    BY <1>1, <1>2, <1>3
  <2>2. Old(n) \in DOMAIN s
    BY <1>1, <1>2, <2>1
  <2>3. CASE n <= Len(p)
    <3>1. t[n] = p[n] /\ (p \o m)[n] = p[n] /\ s[n] = (p \o m)[n]
      BY <1>1, <2>1, <2>3
    <3>2. QED
      BY <2>2, <2>3, <3>1
  <2>4. CASE ~(n <= Len(p))
    <3>1. t[n] = q[n - Len(p)]
      BY <1>1, <2>1, <2>4
    <3>2. s[n + Len(m)] = q[n + Len(m) - (Len(p) + Len(m))]
      BY <1>1, <2>1, <2>4
    <3>3. n + Len(m) - (Len(p) + Len(m)) = n - Len(p)
      BY <1>1, <2>1
    <3>4. QED
      BY <2>2, <2>4, <3>1, <3>2, <3>3
  <2>5. QED
    BY <2>3, <2>4
<1>4. ASSUME NEW i \in DOMAIN t, NEW j \in DOMAIN t, i < j PROVE Old(i) < Old(j)
  BY <1>1, <1>2, <1>4
<1> HIDE DEF s, t, Old
<1>5. Increasing(s) /\ UpTo(s, e)
  BY DEF s
<1>6. Increasing(t) /\ UpTo(t, e)
  BY <1>3, <1>4, <1>5 DEF Increasing, UpTo
<1>7. QED
  BY <1>6 DEF t

(* A newer intent joins at the end.                                        *)
LEMMA AppendKeepsOrder ==
  ASSUME NEW is \in Seq(Intents), NEW e \in Nat, NEW i \in Intents, i.id = e + 1,
         Increasing(is), UpTo(is, e)
  PROVE  Increasing(is \o <<i>>) /\ UpTo(is \o <<i>>, e + 1)
<1> DEFINE t == is \o <<i>>
<1>1. Len(is) \in Nat /\ DOMAIN is = 1..Len(is) /\ DOMAIN t = 1..(Len(is) + 1)
  OBVIOUS
<1>2. t[Len(is) + 1] = i /\ \A n \in 1..Len(is) : t[n] = is[n] /\ is[n].id \in Int
  <2>1. \A n \in 1..Len(is) : is[n] \in Intents
    OBVIOUS
  <2>2. \A n \in 1..Len(is) : is[n].id \in Int
    BY <2>1 DEF Intents
  <2>3. QED
    BY <2>2
<1> HIDE DEF t
<1>3. QED
  BY <1>1, <1>2 DEF Increasing, UpTo, t

-----------------------------------------------------------------------------
(***************************************************************************)
(* The way of the intents, in six pieces: what the execution thread has    *)
(* taken, the decisions, the coordinator's decision and request, the       *)
(* requests and what the processor is sending.  Every step moves an intent *)
(* from one piece to the next, cuts some out or adds one at the end.       *)
(***************************************************************************)
Ways == Seq(Intents)
Cat(p, q) == p \o q
Chain(a, b, c, d, e, f) == Cat(Cat(Cat(Cat(Cat(a, b), c), d), e), f)

\* left is way without m.
Cuts(way, m, left) ==
  \E p, q \in Ways : way = Cat(Cat(p, m), q) /\ left = Cat(p, q)

(* Concatenation, without what sequences are made of.                      *)
LEMMA Concat ==
  /\ <<>> \in Ways
  /\ \A p \in Ways : Cat(p, <<>>) = p /\ Cat(<<>>, p) = p
  /\ \A p, q \in Ways : Cat(p, q) \in Ways
  /\ \A p, q, r \in Ways : Cat(Cat(p, q), r) = Cat(p, Cat(q, r))
BY ConcatAssociative DEF Cat, Ways

(* What follows a piece is a piece itself.                                 *)
LEMMA Regroup3 ==
  ASSUME NEW p \in Ways, NEW d \in Ways, NEW e \in Ways, NEW f \in Ways
  PROVE  Cat(Cat(Cat(p, d), e), f) = Cat(p, Cat(Cat(d, e), f))
<1>1. Cat(p, d) \in Ways /\ Cat(d, e) \in Ways
  BY Concat
<1>2. Cat(Cat(p, d), e) = Cat(p, Cat(d, e))
  BY Concat
<1>3. QED
  BY <1>1, <1>2, Concat

(* The same with four.                                                     *)
LEMMA Regroup4 ==
  ASSUME NEW p \in Ways, NEW c \in Ways, NEW d \in Ways, NEW e \in Ways, NEW f \in Ways
  PROVE  Cat(Cat(Cat(Cat(p, c), d), e), f) = Cat(p, Cat(Cat(Cat(c, d), e), f))
<1>1. Cat(c, d) \in Ways /\ Cat(Cat(p, c), d) = Cat(p, Cat(c, d))
  BY Concat
<1>2. QED
  BY <1>1, Regroup3

(* The same with five.                                                     *)
LEMMA Regroup5 ==
  ASSUME NEW p \in Ways, NEW b \in Ways, NEW c \in Ways, NEW d \in Ways, NEW e \in Ways,
         NEW f \in Ways
  PROVE  Cat(Cat(Cat(Cat(Cat(p, b), c), d), e), f) = Cat(p, Cat(Cat(Cat(Cat(b, c), d), e), f))
<1>1. Cat(b, c) \in Ways /\ Cat(Cat(p, b), c) = Cat(p, Cat(b, c))
  BY Concat
<1>2. QED
  BY <1>1, Regroup4

(* Moving intents from a piece to the next leaves the way as it was,       *)
LEMMA ChainShifts ==
  ASSUME NEW a \in Ways, NEW b \in Ways, NEW c \in Ways,
         NEW d \in Ways, NEW e \in Ways, NEW f \in Ways,
         NEW x \in Ways
  PROVE  /\ Chain(a, b, c, d, e, f) \in Ways
         /\ Chain(<<>>, Cat(x, b), c, d, e, f) = Chain(x, b, c, d, e, f)
         /\ Chain(a, b, x, d, e, f) = Chain(a, Cat(b, x), <<>>, d, e, f)
         /\ Chain(a, b, <<>>, x, e, f) = Chain(a, b, x, <<>>, e, f)
         /\ Chain(a, b, c, <<>>, Cat(x, e), f) = Chain(a, b, c, x, e, f)
         /\ Chain(a, b, c, d, e, x) = Chain(a, b, c, d, Cat(e, x), <<>>)
<1>1. /\ Cat(a, b) \in Ways /\ Cat(Cat(a, b), c) \in Ways /\ Cat(Cat(a, b), x) \in Ways
      /\ Cat(Cat(Cat(a, b), c), d) \in Ways /\ Cat(x, b) \in Ways /\ Cat(b, x) \in Ways
      /\ Cat(Cat(Cat(Cat(a, b), c), d), e) \in Ways
      /\ Cat(Cat(Cat(Cat(Cat(a, b), c), d), e), f) \in Ways
      /\ Cat(e, x) \in Ways
  BY Concat
<1>2. Chain(<<>>, Cat(x, b), c, d, e, f) = Chain(x, b, c, d, e, f)
  BY <1>1, Concat DEF Chain
<1>3. Chain(a, b, x, d, e, f) = Chain(a, Cat(b, x), <<>>, d, e, f)
  <2>1. Cat(Cat(a, b), x) = Cat(Cat(a, Cat(b, x)), <<>>)
    BY <1>1, Concat
  <2>2. QED
    BY <2>1 DEF Chain
<1>4. Chain(a, b, <<>>, x, e, f) = Chain(a, b, x, <<>>, e, f)
  <2>1. Cat(Cat(Cat(a, b), <<>>), x) = Cat(Cat(Cat(a, b), x), <<>>)
    BY <1>1, Concat
  <2>2. QED
    BY <2>1 DEF Chain
<1>5. Chain(a, b, c, <<>>, Cat(x, e), f) = Chain(a, b, c, x, e, f)
  <2>1. Cat(Cat(Cat(Cat(a, b), c), <<>>), Cat(x, e)) = Cat(Cat(Cat(Cat(a, b), c), x), e)
    BY <1>1, Concat
  <2>2. QED
    BY <2>1 DEF Chain
<1>6. Chain(a, b, c, d, e, x) = Chain(a, b, c, d, Cat(e, x), <<>>)
  <2> DEFINE p == Cat(Cat(Cat(a, b), c), d)
  <2>1. p \in Ways
    BY <1>1
  <2> HIDE DEF p
  <2>2. Cat(Cat(p, e), x) = Cat(Cat(p, Cat(e, x)), <<>>)
    BY <1>1, <2>1, Concat
  <2>3. QED
    BY <2>2 DEF Chain, p
<1>7. QED
  BY <1>1, <1>2, <1>3, <1>4, <1>5, <1>6 DEF Chain

(* and emptying a piece, or taking its head off, cuts that out of the way. *)
LEMMA ChainCuts ==
  ASSUME NEW a \in Ways, NEW b \in Ways, NEW c \in Ways,
         NEW d \in Ways, NEW e \in Ways, NEW f \in Ways,
         NEW x \in Ways
  PROVE  /\ Cuts(Chain(a, b, c, d, e, f), a, Chain(<<>>, b, c, d, e, f))
         /\ Cuts(Chain(a, b, c, d, e, f), b, Chain(a, <<>>, c, d, e, f))
         /\ Cuts(Chain(a, b, c, d, e, f), c, Chain(a, b, <<>>, d, e, f))
         /\ Cuts(Chain(a, b, c, d, Cat(x, e), f), x, Chain(a, b, c, d, e, f))
         /\ Cuts(Chain(a, b, c, d, e, f), f, Chain(a, b, c, d, e, <<>>))
         /\ Cuts(Chain(a, b, c, d, e, f), <<>>, Chain(a, b, c, d, e, f))
<1> DEFINE p == Cat(Cat(Cat(a, b), c), d)
           q2 == Cat(Cat(Cat(c, d), e), f)
<1>1. <<>> \in Ways
  BY Concat
<1>2. /\ Cat(a, b) \in Ways /\ Cat(Cat(a, b), c) \in Ways /\ p \in Ways
      /\ Cat(p, e) \in Ways /\ Cat(p, x) \in Ways
      /\ Cat(x, e) \in Ways /\ Cat(e, f) \in Ways
      /\ Cat(Cat(d, e), f) \in Ways /\ q2 \in Ways
      /\ Cat(Cat(Cat(Cat(b, c), d), e), f) \in Ways
      /\ Cat(a, <<>>) = a /\ Cat(Cat(a, b), <<>>) = Cat(a, b)
      /\ Cat(Cat(p, e), f) \in Ways
  BY Concat
<1>3. Cuts(Chain(a, b, c, d, e, f), a, Chain(<<>>, b, c, d, e, f))
  <2> DEFINE q == Cat(Cat(Cat(Cat(b, c), d), e), f)
  <2>1. Cat(<<>>, q) = q /\ Cat(<<>>, a) = a /\ Cat(<<>>, b) = b
    BY <1>2, Concat
  <2>2. Chain(a, b, c, d, e, f) = Cat(Cat(<<>>, a), q)
    BY <2>1, Regroup5, SMTT(20) DEF Chain
  <2>3. Chain(<<>>, b, c, d, e, f) = Cat(<<>>, q)
    BY <2>1 DEF Chain
  <2>4. QED
    BY <1>1, <1>2, <2>2, <2>3 DEF Cuts
<1>4. Cuts(Chain(a, b, c, d, e, f), b, Chain(a, <<>>, c, d, e, f))
  <2>1. Chain(a, <<>>, c, d, e, f) = Cat(Cat(Cat(Cat(a, c), d), e), f)
    BY <1>2 DEF Chain
  <2>2. Chain(a, <<>>, c, d, e, f) = Cat(a, q2)
    BY <2>1, Regroup4
  <2> DEFINE r == Cat(a, b)
  <2>3. r \in Ways /\ Chain(a, b, c, d, e, f) = Cat(Cat(Cat(Cat(r, c), d), e), f)
    BY <1>2 DEF Chain
  <2> HIDE DEF r
  <2>4. Chain(a, b, c, d, e, f) = Cat(r, q2)
    BY <2>3, Regroup4
  <2>5. QED
    BY <1>2, <2>2, <2>4 DEF Cuts, r
<1>5. Cuts(Chain(a, b, c, d, e, f), c, Chain(a, b, <<>>, d, e, f))
  <2> DEFINE q == Cat(Cat(d, e), f)
             r == Cat(a, b)
             s == Cat(r, c)
  <2>1. r \in Ways /\ s \in Ways
    BY <1>2
  <2>2. /\ Chain(a, b, <<>>, d, e, f) = Cat(Cat(Cat(r, d), e), f)
        /\ Chain(a, b, c, d, e, f) = Cat(Cat(Cat(s, d), e), f)
    BY <1>2 DEF Chain
  <2> HIDE DEF r, s
  <2>3. Chain(a, b, c, d, e, f) = Cat(s, q) /\ Chain(a, b, <<>>, d, e, f) = Cat(r, q)
    BY <2>1, <2>2, Regroup3
  <2>4. QED
    BY <1>2, <2>1, <2>3 DEF Cuts, s
<1>6. Cuts(Chain(a, b, c, d, Cat(x, e), f), x, Chain(a, b, c, d, e, f))
  <2>1. p \in Ways
    BY <1>2
  <2> HIDE DEF p
  <2>2. Cat(Cat(p, Cat(x, e)), f) = Cat(Cat(p, x), Cat(e, f)) /\ Cat(Cat(p, e), f) = Cat(p, Cat(e, f))
    <3>1. Cat(p, Cat(x, e)) = Cat(Cat(p, x), e)
      BY <2>1, Concat
    <3>2. Cat(Cat(Cat(p, x), e), f) = Cat(Cat(p, x), Cat(e, f)) /\ Cat(Cat(p, e), f) = Cat(p, Cat(e, f))
      BY <1>2, <2>1, Concat
    <3>3. QED
      BY <3>1, <3>2
  <2>3. /\ Chain(a, b, c, d, Cat(x, e), f) = Cat(Cat(p, Cat(x, e)), f)
        /\ Chain(a, b, c, d, e, f) = Cat(Cat(p, e), f)
    BY DEF Chain, p
  <2>4. QED
    BY <1>2, <2>1, <2>2, <2>3 DEF Cuts
<1>7. Cuts(Chain(a, b, c, d, e, f), f, Chain(a, b, c, d, e, <<>>))
  <2> DEFINE w == Cat(p, e)
  <2>1. w \in Ways
    BY <1>2
  <2>2. Chain(a, b, c, d, e, f) = Cat(w, f) /\ Chain(a, b, c, d, e, <<>>) = Cat(w, <<>>)
    BY DEF Chain
  <2> HIDE DEF w
  <2>3. Cat(w, f) \in Ways /\ Cat(Cat(w, f), <<>>) = Cat(w, f)
    BY <2>1, Concat
  <2>4. QED
    BY <1>1, <2>1, <2>2, <2>3 DEF Cuts
<1>8. Cuts(Chain(a, b, c, d, e, f), <<>>, Chain(a, b, c, d, e, f))
  <2> DEFINE w == Chain(a, b, c, d, e, f)
  <2>1. w \in Ways
    BY <1>2 DEF Chain
  <2> HIDE DEF w
  <2>2. w = Cat(Cat(w, <<>>), <<>>) /\ w = Cat(w, <<>>)
    BY <2>1, Concat
  <2>3. QED
    BY <1>1, <2>1, <2>2 DEF Cuts, w
<1>9. QED
  BY <1>3, <1>4, <1>5, <1>6, <1>7, <1>8

\* The intents of the decisions.
Decisions == [intent : Intents, approved : BOOLEAN]
Plain(ds) == [n \in DOMAIN ds |-> ds[n].intent]

(* The intents of the decisions follow the decisions.                      *)
LEMMA PlainProperties ==
  /\ Plain(<<>>) = <<>>
  /\ \A ds \in Seq(Decisions) : Plain(ds) \in Seq(Intents)
  /\ \A ds \in Seq(Decisions), d \in Decisions : Plain(Append(ds, d)) = Plain(ds) \o <<d.intent>>
  /\ \A ds \in Seq(Decisions) : ds # <<>> => Plain(ds) = <<Head(ds).intent>> \o Plain(Tail(ds))
<1>1. Plain(<<>>) = <<>>
  BY DEF Plain
<1>2. ASSUME NEW ds \in Seq(Decisions)
      PROVE  /\ Plain(ds) \in Seq(Intents) /\ Len(Plain(ds)) = Len(ds)
             /\ \A n \in 1..Len(ds) : Plain(ds)[n] = ds[n].intent
  <2>1. DOMAIN ds = 1..Len(ds) /\ Len(ds) \in Nat
    OBVIOUS
  <2>2. \A n \in 1..Len(ds) : ds[n] \in Decisions
    OBVIOUS
  <2>3. \A n \in 1..Len(ds) : ds[n].intent \in Intents
    BY <2>2 DEF Decisions
  <2>4. QED
    BY <2>1, <2>3 DEF Plain
<1>3. ASSUME NEW ds \in Seq(Decisions), NEW d \in Decisions
      PROVE  Plain(Append(ds, d)) = Plain(ds) \o <<d.intent>>
  <2>1. Append(ds, d) \in Seq(Decisions) /\ d.intent \in Intents
    BY DEF Decisions
  <2> DEFINE u == Plain(Append(ds, d))
             v == Plain(ds)
  <2>2. /\ u \in Seq(Intents) /\ Len(u) = Len(ds) + 1
        /\ \A n \in 1..(Len(ds) + 1) : u[n] = Append(ds, d)[n].intent
    <3> DEFINE w == Append(ds, d)
    <3>1. w \in Seq(Decisions) /\ Len(w) = Len(ds) + 1
      BY <2>1
    <3> HIDE DEF w
    <3>2. u = Plain(w)
      BY DEF w
    <3> HIDE DEF u
    <3>3. /\ Plain(w) \in Seq(Intents) /\ Len(Plain(w)) = Len(w)
          /\ \A n \in 1..Len(w) : Plain(w)[n] = w[n].intent
      BY <1>2, <3>1
    <3>4. QED
      BY <3>1, <3>2, <3>3 DEF w
  <2>3. v \in Seq(Intents) /\ Len(v) = Len(ds) /\ \A n \in 1..Len(ds) : v[n] = ds[n].intent
    BY <1>2
  <2> HIDE DEF u, v
  <2>4. v \o <<d.intent>> \in Seq(Intents) /\ Len(v \o <<d.intent>>) = Len(ds) + 1
    BY <2>1, <2>3
  <2>5. \A n \in 1..(Len(ds) + 1) : u[n] = (v \o <<d.intent>>)[n]
    BY <2>1, <2>2, <2>3
  <2>6. u = v \o <<d.intent>>
    BY <2>2, <2>4, <2>5, SeqEqual
  <2>7. QED
    BY <2>6 DEF u, v
<1>4. ASSUME NEW ds \in Seq(Decisions), ds # <<>>
      PROVE  Plain(ds) = <<Head(ds).intent>> \o Plain(Tail(ds))
  <2> DEFINE h == Head(ds)
             t == Tail(ds)
             u == Plain(ds)
             v == Plain(t)
  <2>1. /\ h \in Decisions /\ t \in Seq(Decisions) /\ Len(t) = Len(ds) - 1 /\ Len(ds) \in Nat
        /\ h = ds[1] /\ \A n \in 1..(Len(ds) - 1) : t[n] = ds[n + 1]
    BY <1>4, HeadTailProperties
  <2>2. h.intent \in Intents
    BY <2>1 DEF Decisions
  <2> HIDE DEF h, t
  <2>3. /\ u \in Seq(Intents) /\ Len(u) = Len(ds) /\ (\A n \in 1..Len(ds) : u[n] = ds[n].intent)
        /\ v \in Seq(Intents) /\ Len(v) = Len(t) /\ (\A n \in 1..Len(t) : v[n] = t[n].intent)
    BY <1>2, <2>1
  <2> HIDE DEF u, v
  <2>4. <<h.intent>> \o v \in Seq(Intents) /\ Len(<<h.intent>> \o v) = Len(u)
    BY <2>1, <2>2, <2>3
  <2>5. \A n \in 1..Len(u) : u[n] = (<<h.intent>> \o v)[n]
    <3>1. ASSUME NEW n \in 1..Len(u), n # 1 PROVE u[n] = (<<h.intent>> \o v)[n]
      <4>1. n - 1 \in 1..Len(t) /\ n = (n - 1) + 1
        BY <2>1, <2>3, <3>1
      <4>2. (<<h.intent>> \o v)[n] = v[n - 1]
        BY <2>1, <2>2, <2>3, <3>1
      <4>3. v[n - 1] = ds[n].intent
        BY <2>1, <2>3, <4>1
      <4>4. QED
        BY <2>3, <3>1, <4>2, <4>3
    <3>2. (<<h.intent>> \o v)[1] = h.intent
      BY <2>2, <2>3
    <3>3. QED
      BY <2>1, <2>3, <3>1, <3>2
  <2>6. u = <<h.intent>> \o v
    BY <2>3, <2>4, <2>5, SeqEqual
  <2>7. QED
    BY <2>6 DEF u, v, h, t
<1>5. QED
  BY <1>1, <1>2, <1>3, <1>4

-----------------------------------------------------------------------------
(***************************************************************************)
(* The inductive invariant.                                                *)
(***************************************************************************)

\* What the strategy has moved, less what was ordered or lost for it.
Balance == stance + forgotten - settled - lost

\* Each thread holds an intent in the steps in which it does something with it.
Holders ==
  /\ intent # NoIntent <=> processor \in {"send", "evict"}
  /\ request # NoIntent <=> coordinator \in {"read", "check"}
  /\ decision.intent # NoIntent <=> coordinator = "send"
  /\ taken.intent # NoIntent <=> executor = "taken"

Base == TypeOK /\ Holders

PipeInv ==
  /\ TypeOK /\ Holders
  /\ StanceAccounted /\ OrderKept /\ UpTo(OnTheirWay, emitted)

\* A step that loses or settles m, or moves intents on if m is empty.
Cutting(m) == /\ m \in Ways /\ Cuts(OnTheirWay, m, OnTheirWay')
              /\ emitted' = emitted /\ Balance' = Balance - Net(m)

(* A holder has one intent or none.                                        *)
LEMMA HoldingOne ==
  /\ NoIntent \notin Intents /\ Holding(NoIntent) = <<>>
  /\ \A i \in Intents : Holding(i) = <<i>> /\ <<i>> \in Ways
  /\ \A i \in Intents \cup {NoIntent} : Holding(i) \in Ways
<1>1. NoIntent \notin Intents
  BY DEF NoIntent, Intents
<1>2. QED
  BY <1>1 DEF Holding, Ways

(* The way and its pieces, before and after a step.                        *)
LEMMA WayIs ==
  /\ OnTheirWay = Chain(Holding(taken.intent), Plain(decisions), Holding(decision.intent),
                       Holding(request), requests, Holding(intent))
  /\ OnTheirWay' = Chain(Holding(taken'.intent), Plain(decisions'), Holding(decision'.intent),
                        Holding(request'), requests', Holding(intent'))
BY DEF OnTheirWay, Chain, Plain, Cat, Holding

(* They are sequences of intents.                                          *)
LEMMA PiecesTyped ==
  ASSUME TypeOK
  PROVE  /\ Holding(taken.intent) \in Ways /\ Plain(decisions) \in Ways
         /\ Holding(decision.intent) \in Ways /\ Holding(request) \in Ways
         /\ requests \in Ways /\ Holding(intent) \in Ways
<1>1. /\ {taken.intent, decision.intent} \subseteq Intents \cup {NoIntent}
      /\ {intent, request} \subseteq Intents \cup {NoIntent}
      /\ decisions \in Seq(Decisions) /\ requests \in Seq(Intents)
  BY DEF TypeOK, Decisions
<1>2. QED
  BY <1>1, HoldingOne, PlainProperties DEF Ways

(* So is the way,                                                          *)
LEMMA WayTyped ==
  ASSUME TypeOK
  PROVE  OnTheirWay \in Ways
BY PiecesTyped, ChainShifts, WayIs

(* also after the step.                                                    *)
LEMMA PiecesTypedPrimed ==
  ASSUME TypeOK'
  PROVE  /\ Holding(taken'.intent) \in Ways /\ Plain(decisions') \in Ways
         /\ Holding(decision'.intent) \in Ways /\ Holding(request') \in Ways
         /\ requests' \in Ways /\ Holding(intent') \in Ways
         /\ OnTheirWay' \in Ways
<1>1. /\ {taken'.intent, decision'.intent} \subseteq Intents \cup {NoIntent}
      /\ {intent', request'} \subseteq Intents \cup {NoIntent}
      /\ decisions' \in Seq(Decisions) /\ requests' \in Seq(Intents)
  BY DEF TypeOK, Decisions, Intents, NoIntent
<1>2. QED
  BY <1>1, HoldingOne, PlainProperties, ChainShifts, WayIs DEF Ways

(* The account of the model as an equation of two numbers.                 *)
LEMMA Accounted ==
  ASSUME TypeOK
  PROVE  StanceAccounted <=> Balance = Net(OnTheirWay)
<1>1. StanceAccounted <=> stance + forgotten = settled + lost + Net(OnTheirWay)
  BY Zenon DEF StanceAccounted, Net, Sum
<1>2. Net(OnTheirWay) \in Int
  BY WayTyped, NetProperties DEF Ways
<1>3. {stance, forgotten, settled, lost} \subseteq Int
  BY DEF TypeOK
<1>4. QED
  BY <1>1, <1>2, <1>3 DEF Balance

(* The same after a step.                                                  *)
LEMMA AccountedPrimed ==
  ASSUME TypeOK'
  PROVE  StanceAccounted' <=> Balance' = Net(OnTheirWay')
<1>1. StanceAccounted' <=> stance' + forgotten' = settled' + lost' + Net(OnTheirWay')
  BY DEF StanceAccounted, Net, Sum, Units, FoldSeq, FoldFunction, FoldFunctionOnSet, MapThenFoldSet
<1>2. Net(OnTheirWay') \in Int
  BY PiecesTypedPrimed, NetProperties DEF Ways
<1>3. {stance', forgotten', settled', lost'} \subseteq Int
  BY DEF TypeOK
<1>4. QED
  BY <1>1, <1>2, <1>3 DEF Balance

(* Losing intents adds their net units.                                    *)
LEMMA LoseAll ==
  ASSUME NEW is \in Ways, lost \in Int, Lose(is)
  PROVE  lost' = lost + Net(is)
<1>1. lost' = Sum(lost, is)
  BY DEF Lose, Sum
<1>2. QED
  BY <1>1, NetProperties DEF Ways

(* The heart of the proof: cutting intents out of the way keeps the rest in*)
(* order, and keeps the account if their units are lost or settled.        *)
LEMMA CutStep ==
  ASSUME TypeOK, TypeOK', StanceAccounted, OrderKept, UpTo(OnTheirWay, emitted),
         NEW m \in Ways, Cuts(OnTheirWay, m, OnTheirWay'),
         emitted' = emitted, Balance' = Balance - Net(m)
  PROVE  StanceAccounted' /\ OrderKept' /\ UpTo(OnTheirWay', emitted')
<1>1. PICK p \in Ways, q \in Ways : OnTheirWay = (p \o m) \o q /\ OnTheirWay' = p \o q
  BY DEF Cuts, Cat
<1>2. Increasing(OnTheirWay)
  BY DEF OrderKept, Increasing
<1>3. Increasing(p \o q) /\ UpTo(p \o q, emitted)
  BY <1>1, <1>2, CutKeepsOrder DEF Ways
<1>4. OrderKept' /\ UpTo(OnTheirWay', emitted')
  BY <1>1, <1>3 DEF OrderKept, Increasing
<1>5. StanceAccounted'
  <2>1. p \in Seq(Intents) /\ m \in Seq(Intents) /\ q \in Seq(Intents) /\ p \o m \in Seq(Intents)
    BY DEF Ways
  <2>2. Net((p \o m) \o q) = Net(p \o m) + Net(q) /\ Net(p \o m) = Net(p) + Net(m)
    BY <2>1, NetProperties
  <2>3. Net(p) \in Int /\ Net(m) \in Int /\ Net(q) \in Int /\ Net(p \o q) = Net(p) + Net(q)
    BY <2>1, NetProperties
  <2>4. Balance = Net((p \o m) \o q)
    BY <1>1, Accounted
  <2>5. Balance' = Net(p \o q)
    BY <2>2, <2>3, <2>4
  <2>6. QED
    BY <1>1, <2>5, AccountedPrimed
<1>6. QED
  BY <1>4, <1>5

(* What the proofs use of the constants.                                   *)
LEMMA Constants ==
  /\ MdCap \in Nat /\ RiskCap \in Nat /\ DecisionCap \in Nat /\ MaxIntents \in Nat /\ MaxSwaps \in Nat
BY PipelineAssumption DEF PipelineAssumption

(* A step that leaves the way as it was cuts nothing.                      *)
LEMMA NothingCut ==
  ASSUME Base, OnTheirWay' = OnTheirWay, emitted' = emitted, Balance' = Balance
  PROVE  \E m \in Ways : Cutting(m)
<1>1. Cuts(OnTheirWay, <<>>, OnTheirWay) /\ <<>> \in Ways
  BY PiecesTyped, ChainCuts, WayIs, Concat DEF Base
<1>2. Net(<<>>) = 0
  BY NetProperties
<1>3. {stance, forgotten, settled, lost} \subseteq Int
  BY DEF Base, TypeOK
<1>4. Balance \in Int
  BY <1>3 DEF Balance
<1>5. QED
  BY <1>1, <1>2, <1>4 DEF Cutting

(* So does one that leaves its pieces alone.                               *)
LEMMA SameWay ==
  ASSUME Base, UNCHANGED <<taken, decisions, decision, request, requests, intent, emitted>>,
         Balance' = Balance
  PROVE  \E m \in Ways : Cutting(m)
<1>1. OnTheirWay' = OnTheirWay
  BY WayIs
<1>2. QED
  BY <1>1, NothingCut

(* The reactor has nothing to do with intents,                             *)
LEMMA ReactorCuts ==
  ASSUME Base, Tick \/ ReactorStep
  PROVE  Base' /\ \E m \in Ways : Cutting(m)
<1>1. Base'
  <2>1. CASE Tick
    BY <2>1, Constants, SMTT(20) DEF Tick, Base, TypeOK, Holders, reactors, processing,
           strategy, coordination, execution
  <2>2. CASE ControlBatch
    BY <2>2, SMTT(20) DEF ControlBatch, Base, TypeOK, Holders, reactors, processing,
           strategy, coordination, execution
  <2>3. CASE ReactorStops
    BY <2>3, ZenonT(20) DEF ReactorStops, Base, TypeOK, Holders, reactors, processing,
           strategy, coordination, execution
  <2>4. QED
    BY <2>1, <2>2, <2>3 DEF ReactorStep
<1>2. UNCHANGED <<taken, decisions, decision, request, requests, intent, emitted>>
  BY DEF ReactorStep, Tick, ControlBatch, ReactorStops, reactors, processing,
           strategy, coordination, execution
<1>3. Balance' = Balance
  BY DEF ReactorStep, Tick, ControlBatch, ReactorStops, reactors, processing, strategy, coordination, execution, Balance
<1>4. QED
  BY <1>1, <1>2, <1>3, SameWay

(* nor has the command thread; a swap forgets the stance it resets.        *)
LEMMA ControlCuts ==
  ASSUME Base, ControlStep \/ Unsubscribe \/ SwapStrategy \/ Activate \/ Clear \/ UNCHANGED vars
  PROVE  Base' /\ \E m \in Ways : Cutting(m)
<1> USE DEF reactors, processing, strategy, coordination, execution
<1>1. Base'
  <2>1. CASE Join
    BY <2>1 DEF Join, Base, TypeOK, Holders
  <2>2. CASE TellReactor
    <3>1. commands' \in Seq({"subscribe", "unsubscribe"})
      BY <2>2 DEF TellReactor, Base, TypeOK
    <3>2. QED
      BY <2>2, <3>1 DEF TellReactor, Base, TypeOK, Holders
  <2>3. CASE Unsubscribe
    BY <2>3 DEF Unsubscribe, Base, TypeOK, Holders
  <2>4. CASE SwapStrategy
    <3>1. forgotten \in Int /\ stance \in -1..1 /\ swaps \in 0..MaxSwaps
      BY DEF Base, TypeOK
    <3>2. swaps' \in 0..MaxSwaps /\ forgotten' \in Int /\ stance' \in -1..1
      BY <2>4, <3>1, Constants DEF SwapStrategy
    <3>3. QED
      BY <2>4, <3>2 DEF SwapStrategy, Base, TypeOK, Holders
  <2>5. CASE Activate
    BY <2>5 DEF Activate, Base, TypeOK, Holders
  <2>6. CASE Clear
    BY <2>6, ZenonT(20) DEF Clear, Base, TypeOK, Holders
  <2>7. CASE UNCHANGED vars
    BY <2>7 DEF vars, Base, TypeOK, Holders
  <2>8. QED
    BY <2>1, <2>2, <2>3, <2>4, <2>5, <2>6, <2>7 DEF ControlStep
<1>2. UNCHANGED <<taken, decisions, decision, request, requests, intent, emitted>>
  BY DEF ControlStep, Join, TellReactor, Unsubscribe, SwapStrategy, Activate, Clear, vars
<1>3. Balance' = Balance
  <2>1. stance' + forgotten' = stance + forgotten /\ stance' \in Int /\ forgotten' \in Int
    BY SMTT(20) DEF ControlStep, Join, TellReactor, Unsubscribe, SwapStrategy, Activate, Clear, vars, Base, TypeOK
  <2>2. UNCHANGED <<settled, lost>>
    BY DEF ControlStep, Join, TellReactor, Unsubscribe, SwapStrategy, Activate, Clear, vars
  <2>3. {stance, forgotten, settled, lost} \subseteq Int
    BY DEF Base, TypeOK
  <2>4. QED
    BY <2>1, <2>2, <2>3 DEF Balance
<1>4. QED
  BY <1>1, <1>2, <1>3, SameWay

(* A step that takes m out of the way.                                     *)
LEMMA Removes ==
  ASSUME Base, UNCHANGED emitted, NEW m \in Ways, Cuts(OnTheirWay, m, OnTheirWay'),
         Balance' = Balance - Net(m)
  PROVE  \E n \in Ways : Cutting(n)
BY DEF Cutting

(* Receiving and passing ticks moves no intent.                            *)
LEMMA ProcessorCuts ==
  ASSUME Base, Receive \/ Pass \/ ProcessorStops
  PROVE  Base' /\ \E m \in Ways : Cutting(m)
<1> USE DEF reactors, processing, strategy, coordination, execution
<1>1. Base'
  <2>1. CASE Receive
    BY <2>1, Constants DEF Receive, Base, TypeOK, Holders
  <2>2. CASE Pass
    <3>1. batch' \in 0..MdCap
      BY <2>2, Constants DEF Pass, Base, TypeOK
    <3>2. QED
      BY <2>2, <3>1 DEF Pass, Base, TypeOK, Holders
  <2>3. CASE ProcessorStops
    BY <2>3, Constants DEF ProcessorStops, Base, TypeOK, Holders
  <2>4. QED
    BY <2>1, <2>2, <2>3
<1>2. UNCHANGED <<taken, decisions, decision, request, requests, intent, emitted>>
  BY DEF Receive, Pass, ProcessorStops
<1>3. Balance' = Balance
  BY DEF Receive, Pass, ProcessorStops, Balance
<1>4. QED
  BY <1>1, <1>2, <1>3, SameWay

(* Losing one intent is losing its units,                                  *)
LEMMA OneLost ==
  ASSUME Base, NEW i \in Intents, Lose(<<i>>)
  PROVE  <<i>> \in Ways /\ lost' = lost + Net(<<i>>) /\ Net(<<i>>) \in Int /\ lost' \in Int
<1>1. <<i>> \in Ways /\ lost \in Int
  BY DEF Base, TypeOK, Ways
<1>2. Net(<<i>>) \in Int
  BY <1>1, NetProperties DEF Ways
<1>3. QED
  BY <1>1, <1>2, LoseAll

(* which the balance then lacks.                                           *)
LEMMA BalanceOfLoss ==
  ASSUME Base, UNCHANGED <<stance, forgotten, settled>>, NEW n \in Int, lost' = lost + n
  PROVE  Balance' = Balance - n
<1>1. {stance, forgotten, settled, lost} \subseteq Int
  BY DEF Base, TypeOK
<1>2. QED
  BY <1>1 DEF Balance

(* Sending an intent moves it to the requests, or loses it.                *)
LEMMA SendCuts ==
  ASSUME Base, Send
  PROVE  Base' /\ \E m \in Ways : Cutting(m)
<1> USE DEF reactors, processing, strategy, coordination, execution
<1>1. /\ intent \in Intents /\ requests \in Ways /\ Len(requests) <= RiskCap
      /\ UNCHANGED <<taken, decisions, decision, request, emitted, stance, forgotten, settled>>
  BY DEF Send, Base, TypeOK, Holders, Ways
<1>2. CASE Len(requests) < RiskCap /\ Deliver /\ UNCHANGED lost
  <2>1. /\ requests' = Cat(requests, <<intent>>) /\ intent' = NoIntent /\ processor' = "loop"
        /\ requests' \in Seq(Intents) /\ Len(requests') <= RiskCap
    BY <1>1, <1>2, AppendProperties, AppendIsConcat, Constants DEF Deliver, Cat, Ways
  <2>2. Base'
    BY <1>2, <2>1 DEF Send, Base, TypeOK, Holders
  <2>3. OnTheirWay' = OnTheirWay
    <3> DEFINE f == <<intent>>
    <3>1. f \in Ways /\ Holding(intent) = f /\ Holding(intent') = <<>>
      BY <1>1, <2>1, HoldingOne
    <3> HIDE DEF f
    <3>2. PICK a \in Ways, b \in Ways, c \in Ways, d \in Ways :
             /\ OnTheirWay = Chain(a, b, c, d, requests, f)
             /\ OnTheirWay' = Chain(a, b, c, d, Cat(requests, f), <<>>)
      BY <1>1, <2>1, <3>1, PiecesTyped, WayIs DEF Base, f
    <3>3. QED
      BY <1>1, <3>1, <3>2, ChainShifts
  <2>4. Balance' = Balance
    BY <1>1, <1>2 DEF Balance
  <2>5. QED
    BY <1>1, <2>2, <2>3, <2>4, NothingCut
<1>3. CASE Len(requests) = RiskCap /\ GiveUp /\ UNCHANGED requests
  <2>1. /\ intent' = NoIntent /\ processor' = "loop" /\ <<intent>> \in Ways /\ lost' \in Int
        /\ lost' = lost + Net(<<intent>>) /\ Net(<<intent>>) \in Int
    BY <1>1, <1>3, OneLost DEF GiveUp
  <2>2. Base'
    BY <1>3, <2>1 DEF Send, Base, TypeOK, Holders
  <2>3. Cuts(OnTheirWay, <<intent>>, OnTheirWay')
    BY <1>1, <1>3, <2>1, PiecesTyped, ChainCuts, HoldingOne, WayIs DEF Base
  <2>4. Balance' = Balance - Net(<<intent>>)
    BY <1>1, <2>1, BalanceOfLoss
  <2>5. QED
    BY <1>1, <2>1, <2>2, <2>3, <2>4, Removes
<1>4. CASE processor' = "evict" /\ UNCHANGED <<intent, requests, lost>>
  <2>1. Base'
    BY <1>4 DEF Send, Base, TypeOK, Holders
  <2>2. Balance' = Balance
    BY <1>1, <1>4 DEF Balance
  <2>3. QED
    BY <1>1, <1>4, <2>1, <2>2, SameWay
<1>5. QED
  BY <1>2, <1>3, <1>4 DEF Send

(* Evicting loses the oldest request to make room, or the intent itself.   *)
LEMMA EvictCuts ==
  ASSUME Base, Evict
  PROVE  Base' /\ \E m \in Ways : Cutting(m)
<1> USE DEF reactors, processing, strategy, coordination, execution
<1>1. /\ intent \in Intents /\ requests \in Seq(Intents) /\ Len(requests) <= RiskCap
      /\ UNCHANGED <<taken, decisions, decision, request, emitted, stance, forgotten, settled>>
      /\ intent' = NoIntent /\ processor' = "loop"
  BY DEF Evict, GiveUp, Base, TypeOK, Holders
<1>2. CASE requests = <<>> /\ GiveUp /\ UNCHANGED requests
  <2>1. /\ <<intent>> \in Ways /\ lost' \in Int
        /\ lost' = lost + Net(<<intent>>) /\ Net(<<intent>>) \in Int
    BY <1>1, <1>2, OneLost DEF GiveUp
  <2>2. Base'
    BY <1>1, <1>2, <2>1 DEF Evict, Base, TypeOK, Holders
  <2>3. Cuts(OnTheirWay, <<intent>>, OnTheirWay')
    BY <1>1, <1>2, <2>1, PiecesTyped, ChainCuts, HoldingOne, WayIs DEF Base
  <2>4. Balance' = Balance - Net(<<intent>>)
    BY <1>1, <2>1, BalanceOfLoss
  <2>5. QED
    BY <1>1, <2>1, <2>2, <2>3, <2>4, Removes
<1>3. CASE /\ requests # <<>> /\ Lose(<<Head(requests)>>)
           /\ requests' = Append(Tail(requests), intent)
  <2> DEFINE h == Head(requests)
             t == Tail(requests)
  <2>1. h \in Intents /\ t \in Seq(Intents) /\ Len(t) + 1 = Len(requests) /\ requests = <<h>> \o t
    BY <1>1, <1>3, HeadTailProperties
  <2> HIDE DEF h, t
  <2>2. /\ <<h>> \in Ways /\ lost' \in Int /\ lost' = lost + Net(<<h>>) /\ Net(<<h>>) \in Int
    BY <1>3, <2>1, OneLost DEF h
  <2>3. /\ requests' = Cat(t, <<intent>>) /\ requests' \in Seq(Intents)
        /\ Len(requests') = Len(requests) /\ t \in Ways /\ <<intent>> \in Ways
    <3>1. requests' = Append(t, intent) /\ Len(requests) \in Nat
      BY <1>1, <1>3 DEF t
    <3>2. Append(t, intent) = t \o <<intent>>
      BY <1>1, <2>1
    <3>3. Append(t, intent) \in Seq(Intents) /\ Len(Append(t, intent)) = Len(t) + 1
      BY <1>1, <2>1
    <3>4. <<intent>> \in Ways
      BY <1>1 DEF Ways
    <3>5. QED
      BY <2>1, <3>1, <3>2, <3>3, <3>4 DEF Cat, Ways
  <2>4. Base'
    BY <1>1, <1>3, <2>2, <2>3 DEF Evict, Base, TypeOK, Holders
  <2>5. requests = Cat(<<h>>, t)
    BY <2>1 DEF Cat
  <2>6. Cuts(OnTheirWay, <<h>>, OnTheirWay')
    <3> DEFINE f == <<intent>>
    <3>1. f \in Ways /\ Holding(intent) = f /\ Holding(intent') = <<>>
      BY <1>1, HoldingOne
    <3> HIDE DEF f
    <3>2. PICK a \in Ways, b \in Ways, c \in Ways, d \in Ways :
             /\ OnTheirWay = Chain(a, b, c, d, Cat(<<h>>, t), f)
             /\ OnTheirWay' = Chain(a, b, c, d, Cat(t, f), <<>>)
      BY <1>1, <2>3, <2>5, <3>1, PiecesTyped, WayIs DEF Base, f
    <3>3. Chain(a, b, c, d, Cat(t, f), <<>>) = Chain(a, b, c, d, t, f)
      BY <2>3, <3>1, ChainShifts
    <3>4. QED
      BY <2>2, <2>3, <3>1, <3>2, <3>3, ChainCuts
  <2>7. Balance' = Balance - Net(<<h>>)
    BY <1>1, <2>2, BalanceOfLoss
  <2>8. QED
    BY <1>1, <2>2, <2>4, <2>6, <2>7, Removes
<1>4. QED
  BY <1>2, <1>3 DEF Evict

(* The head of a sequence, and what is left.                               *)
LEMMA Split ==
  ASSUME NEW s \in Ways, s # <<>>
  PROVE  /\ Head(s) \in Intents /\ <<Head(s)>> \in Ways /\ Tail(s) \in Ways
         /\ Len(Tail(s)) < Len(s) /\ s = Cat(<<Head(s)>>, Tail(s))
<1>1. s \in Seq(Intents)
  BY DEF Ways
<1>2. Head(s) \in Intents /\ Tail(s) \in Seq(Intents) /\ Len(Tail(s)) = Len(s) - 1 /\ Len(s) \in Nat
  BY <1>1, HeadTailProperties
<1>3. s = <<Head(s)>> \o Tail(s)
  BY <1>1
<1>4. <<Head(s)>> \in Seq(Intents)
  BY <1>2
<1>5. QED
  BY <1>2, <1>3, <1>4 DEF Ways, Cat

(* The coordinator takes a request,                                        *)
LEMMA TakeRequestCuts ==
  ASSUME Base, TakeRequest
  PROVE  Base' /\ \E m \in Ways : Cutting(m)
<1> USE DEF reactors, processing, strategy, coordination, execution
<1>1. /\ requests \in Ways /\ requests # <<>> /\ request = NoIntent /\ Len(requests) <= RiskCap
      /\ request' = Head(requests) /\ requests' = Tail(requests) /\ coordinator' = "read"
      /\ UNCHANGED <<taken, decisions, decision, intent, emitted, stance, forgotten, settled, lost>>
  BY DEF TakeRequest, Base, TypeOK, Holders, Ways
<1> DEFINE h == Head(requests)
           t == Tail(requests)
<1>2. /\ h \in Intents /\ <<h>> \in Ways /\ t \in Ways /\ Len(t) < Len(requests)
      /\ requests = Cat(<<h>>, t)
  BY <1>1, Split
<1>3. Base'
  <2>1. requests' \in Seq(Intents) /\ Len(requests') <= RiskCap /\ request' \in Intents
    <3>1. Len(t) \in Nat /\ Len(requests) \in Nat
      BY <1>1, <1>2 DEF Ways
    <3>2. QED
      BY <1>1, <1>2, <3>1, Constants DEF Ways
  <2>2. request' # NoIntent
    BY <2>1, HoldingOne
  <2>3. QED
    BY <1>1, <2>1, <2>2 DEF TakeRequest, Base, TypeOK, Holders
<1>4. OnTheirWay' = OnTheirWay
  <2>1. Holding(request) = <<>> /\ Holding(request') = <<h>>
    BY <1>1, <1>2, HoldingOne
  <2> HIDE DEF h, t
  <2>2. PICK a \in Ways, b \in Ways, c \in Ways, f \in Ways :
           /\ OnTheirWay = Chain(a, b, c, <<>>, Cat(<<h>>, t), f)
           /\ OnTheirWay' = Chain(a, b, c, <<h>>, t, f)
    BY <1>1, <1>2, <2>1, PiecesTyped, WayIs DEF Base, h, t
  <2>3. QED
    BY <1>2, <2>2, ChainShifts
<1>5. Balance' = Balance
  BY <1>1 DEF Balance
<1>6. QED
  BY <1>1, <1>3, <1>4, <1>5, NothingCut

(* judges it,                                                              *)
LEMMA JudgeCuts ==
  ASSUME Base, ReadSwitch \/ CoordinatorLeaves \/ \E approved \in BOOLEAN : Check(approved)
  PROVE  Base' /\ \E m \in Ways : Cutting(m)
<1> USE DEF reactors, processing, strategy, coordination, execution
<1>1. CASE ReadSwitch \/ CoordinatorLeaves
  <2>1. Base'
    BY <1>1 DEF ReadSwitch, CoordinatorLeaves, Base, TypeOK, Holders
  <2>2. /\ UNCHANGED <<taken, decisions, decision, request, requests, intent, emitted>>
        /\ Balance' = Balance
    BY <1>1 DEF ReadSwitch, CoordinatorLeaves, Balance
  <2>3. QED
    BY <2>1, <2>2, SameWay
<1>2. ASSUME NEW approved \in BOOLEAN, Check(approved)
      PROVE  Base' /\ \E m \in Ways : Cutting(m)
  <2>1. /\ request \in Intents /\ decision.intent = NoIntent
        /\ decision' = Judged(request, approved) /\ request' = NoIntent /\ coordinator' = "send"
        /\ UNCHANGED <<taken, decisions, requests, intent, emitted, stance, forgotten, settled, lost>>
    BY <1>2 DEF Check, Base, TypeOK, Holders
  <2>2. decision' \in [intent : Intents \cup {NoIntent}, approved : BOOLEAN] /\ decision'.intent = request
    BY <2>1 DEF Judged
  <2>3. Base'
    <3>1. decision'.intent # NoIntent /\ late' \in Nat /\ sawKill' = FALSE
      BY <1>2, <2>1, <2>2, HoldingOne DEF Check, Base, TypeOK
    <3>2. QED
      BY <1>2, <2>1, <2>2, <3>1 DEF Check, Base, TypeOK, Holders
  <2>4. OnTheirWay' = OnTheirWay
    <3> DEFINE x == <<request>>
    <3>1. /\ x \in Ways /\ Holding(request) = x /\ Holding(decision.intent) = <<>>
          /\ Holding(request') = <<>> /\ Holding(decision'.intent) = x
      BY <2>1, <2>2, HoldingOne
    <3> HIDE DEF x
    <3>2. PICK a \in Ways, b \in Ways, e \in Ways, f \in Ways :
             /\ OnTheirWay = Chain(a, b, <<>>, x, e, f)
             /\ OnTheirWay' = Chain(a, b, x, <<>>, e, f)
      BY <2>1, <3>1, PiecesTyped, WayIs DEF Base
    <3>3. QED
      BY <3>1, <3>2, ChainShifts
  <2>5. Balance' = Balance
    BY <2>1 DEF Balance
  <2>6. QED
    BY <2>1, <2>3, <2>4, <2>5, NothingCut
<1>3. QED
  BY <1>1, <1>2

(* and sends the decision, or loses the intent;                            *)
LEMMA SendDecisionCuts ==
  ASSUME Base, SendDecision
  PROVE  Base' /\ \E m \in Ways : Cutting(m)
<1> USE DEF reactors, processing, strategy, coordination, execution
<1> DEFINE i == decision.intent
<1>1. /\ i \in Intents /\ decision \in Decisions /\ decision' = NoDecision /\ decision'.intent = NoIntent
      /\ decisions \in Seq(Decisions) /\ Len(decisions) <= DecisionCap
      /\ UNCHANGED <<taken, request, requests, intent, emitted, stance, forgotten, settled>>
  BY DEF SendDecision, Base, TypeOK, Holders, NoDecision, Judged, Decisions
<1>2. /\ <<i>> \in Ways /\ Holding(i) = <<i>> /\ Holding(decision'.intent) = <<>>
      /\ decision' \in [intent : Intents \cup {NoIntent}, approved : BOOLEAN]
  BY <1>1, HoldingOne DEF NoDecision, Judged
<1>3. CASE /\ executor # "gone" /\ Len(decisions) < DecisionCap
           /\ decisions' = Append(decisions, decision)
           /\ coordinator' = "loop" /\ UNCHANGED lost
  <2>1. /\ decisions' \in Seq(Decisions) /\ Len(decisions') <= DecisionCap
        /\ Plain(decisions') = Cat(Plain(decisions), <<i>>)
    <3>1. Len(decisions) \in Nat /\ Len(Append(decisions, decision)) = Len(decisions) + 1
      BY <1>1
    <3>2. Plain(Append(decisions, decision)) = Plain(decisions) \o <<i>>
      BY <1>1, PlainProperties
    <3>3. QED
      BY <1>1, <1>3, <3>1, <3>2, Constants DEF Cat
  <2>2. Base'
    BY <1>1, <1>2, <1>3, <2>1 DEF SendDecision, Base, TypeOK, Holders, Decisions
  <2>3. OnTheirWay' = OnTheirWay
    <3> HIDE DEF i
    <3>1. PICK a \in Ways, b \in Ways, d \in Ways, e \in Ways, f \in Ways :
             /\ OnTheirWay = Chain(a, b, <<i>>, d, e, f)
             /\ OnTheirWay' = Chain(a, Cat(b, <<i>>), <<>>, d, e, f)
      BY <1>1, <1>2, <2>1, PiecesTyped, WayIs DEF Base, i
    <3>2. QED
      BY <1>2, <3>1, ChainShifts
  <2>4. Balance' = Balance
    BY <1>1, <1>3 DEF Balance
  <2>5. QED
    BY <1>1, <2>2, <2>3, <2>4, NothingCut
<1>4. CASE Lose(<<i>>) /\ coordinator' \in {"loop", "drain"} /\ UNCHANGED decisions
  <2>1. lost' \in Int /\ lost' = lost + Net(<<i>>) /\ Net(<<i>>) \in Int
    BY <1>1, <1>4, OneLost
  <2>2. Base'
    BY <1>1, <1>2, <1>4, <2>1 DEF SendDecision, Base, TypeOK, Holders
  <2>3. Cuts(OnTheirWay, <<i>>, OnTheirWay')
    <3> HIDE DEF i
    <3>1. PICK a \in Ways, b \in Ways, d \in Ways, e \in Ways, f \in Ways :
             /\ OnTheirWay = Chain(a, b, <<i>>, d, e, f)
             /\ OnTheirWay' = Chain(a, b, <<>>, d, e, f)
      BY <1>1, <1>2, <1>4, PiecesTyped, WayIs DEF Base, i
    <3>2. QED
      BY <1>2, <3>1, ChainCuts
  <2>4. Balance' = Balance - Net(<<i>>)
    BY <1>1, <2>1, BalanceOfLoss
  <2>5. QED
    BY <1>1, <1>2, <2>1, <2>2, <2>3, <2>4, Removes
<1>5. QED
  BY <1>3, <1>4 DEF SendDecision

(* when it drains it rejects what is left, or loses it.                    *)
LEMMA DrainCuts ==
  ASSUME Base, DrainRequests
  PROVE  Base' /\ \E m \in Ways : Cutting(m)
<1> USE DEF reactors, processing, strategy, coordination, execution
<1>1. /\ requests \in Ways /\ Len(requests) <= RiskCap
      /\ request = NoIntent /\ decision.intent = NoIntent /\ coordinator = "drain"
      /\ decisions \in Seq(Decisions) /\ Len(decisions) <= DecisionCap
      /\ UNCHANGED <<taken, decision, request, intent, emitted, stance, forgotten, settled>>
  BY DEF DrainRequests, Base, TypeOK, Holders, Ways, Decisions
<1> DEFINE h == Head(requests)
           t == Tail(requests)
<1>2. CASE requests = <<>> /\ coordinator' = "gone" /\ UNCHANGED <<requests, decisions, lost>>
  <2>1. Base'
    BY <1>1, <1>2 DEF DrainRequests, Base, TypeOK, Holders
  <2>2. Balance' = Balance
    BY <1>1, <1>2 DEF Balance
  <2>3. QED
    BY <1>1, <1>2, <2>1, <2>2, SameWay
<1>3. ASSUME requests # <<>>, requests' = Tail(requests)
      PROVE  /\ h \in Intents /\ <<h>> \in Ways /\ t \in Ways /\ requests = Cat(<<h>>, t)
             /\ requests' \in Seq(Intents) /\ Len(requests') <= RiskCap
  <2>1. /\ h \in Intents /\ <<h>> \in Ways /\ t \in Ways /\ requests = Cat(<<h>>, t)
        /\ Len(t) < Len(requests)
    BY <1>1, <1>3, Split
  <2>2. Len(t) \in Nat /\ Len(requests) \in Nat
    BY <1>1, <2>1 DEF Ways
  <2>3. QED
    BY <1>1, <1>3, <2>1, <2>2, Constants DEF Ways
<1>4. CASE /\ requests # <<>> /\ requests' = Tail(requests) /\ UNCHANGED coordinator
           /\ Len(decisions) < DecisionCap
           /\ decisions' = Append(decisions, Judged(Head(requests), FALSE)) /\ UNCHANGED lost
  <2> DEFINE d == Judged(h, FALSE)
  <2>1. d \in Decisions /\ d.intent = h
    BY <1>3, <1>4 DEF Judged, Decisions
  <2>2. /\ decisions' \in Seq(Decisions) /\ Len(decisions') <= DecisionCap
        /\ Plain(decisions') = Cat(Plain(decisions), <<h>>)
    <3> HIDE DEF d
    <3>1. decisions' = Append(decisions, d)
      BY <1>4 DEF d
    <3>2. Len(decisions) \in Nat /\ Len(Append(decisions, d)) = Len(decisions) + 1
      BY <1>1, <2>1
    <3>3. Plain(Append(decisions, d)) = Plain(decisions) \o <<d.intent>>
      BY <1>1, <2>1, PlainProperties
    <3>4. Append(decisions, d) \in Seq(Decisions)
      BY <1>1, <2>1
    <3>5. Len(decisions') <= DecisionCap
      BY <1>4, <3>1, <3>2, Constants
    <3>6. Plain(decisions') = Cat(Plain(decisions), <<h>>)
      BY <2>1, <3>1, <3>3 DEF Cat
    <3>7. QED
      BY <3>1, <3>4, <3>5, <3>6
  <2>3. Base'
    BY <1>1, <1>3, <1>4, <2>2 DEF DrainRequests, Base, TypeOK, Holders, Decisions
  <2>4. OnTheirWay' = OnTheirWay
    <3>1. Holding(request) = <<>> /\ Holding(decision.intent) = <<>>
      BY <1>1, HoldingOne
    <3> HIDE DEF h, t
    <3>2. PICK a \in Ways, b \in Ways, f \in Ways :
             /\ OnTheirWay = Chain(a, b, <<>>, <<>>, Cat(<<h>>, t), f)
             /\ OnTheirWay' = Chain(a, Cat(b, <<h>>), <<>>, <<>>, t, f)
      BY <1>1, <1>3, <1>4, <2>2, <3>1, PiecesTyped, WayIs DEF Base, h, t
    <3>3. /\ <<>> \in Ways /\ <<h>> \in Ways /\ t \in Ways
      BY <1>3, <1>4, Concat
    <3>4. Chain(a, b, <<>>, <<>>, Cat(<<h>>, t), f) = Chain(a, b, <<>>, <<h>>, t, f)
      BY <3>3, ChainShifts
    <3>5. Chain(a, b, <<>>, <<h>>, t, f) = Chain(a, b, <<h>>, <<>>, t, f)
      BY <3>3, ChainShifts
    <3>6. Chain(a, b, <<h>>, <<>>, t, f) = Chain(a, Cat(b, <<h>>), <<>>, <<>>, t, f)
      BY <3>3, ChainShifts
    <3>7. QED
      BY <3>2, <3>4, <3>5, <3>6
  <2>5. Balance' = Balance
    BY <1>1, <1>4 DEF Balance
  <2>6. QED
    BY <1>1, <2>3, <2>4, <2>5, NothingCut
<1>5. CASE /\ requests # <<>> /\ requests' = Tail(requests) /\ UNCHANGED coordinator
           /\ Lose(<<Head(requests)>>) /\ UNCHANGED decisions
  <2>1. /\ <<h>> \in Ways /\ lost' \in Int /\ lost' = lost + Net(<<h>>) /\ Net(<<h>>) \in Int
    BY <1>3, <1>5, OneLost
  <2>2. Base'
    BY <1>1, <1>3, <1>5, <2>1 DEF DrainRequests, Base, TypeOK, Holders
  <2>3. Cuts(OnTheirWay, <<h>>, OnTheirWay')
    <3> HIDE DEF h, t
    <3>1. PICK a \in Ways, b \in Ways, c \in Ways, d \in Ways, f \in Ways :
             /\ OnTheirWay = Chain(a, b, c, d, Cat(<<h>>, t), f)
             /\ OnTheirWay' = Chain(a, b, c, d, t, f)
      BY <1>1, <1>3, <1>5, PiecesTyped, WayIs DEF Base, h, t
    <3>2. QED
      BY <1>3, <1>5, <3>1, ChainCuts
  <2>4. Balance' = Balance - Net(<<h>>)
    BY <1>1, <2>1, BalanceOfLoss
  <2>5. QED
    BY <1>1, <2>1, <2>2, <2>3, <2>4, Removes
<1>6. QED
  BY <1>2, <1>4, <1>5 DEF DrainRequests

(* The execution thread takes a decision,                                  *)
LEMMA TakeDecisionCuts ==
  ASSUME Base, TakeDecision
  PROVE  Base' /\ \E m \in Ways : Cutting(m)
<1> USE DEF reactors, processing, strategy, coordination, execution
<1>1. /\ decisions \in Seq(Decisions) /\ decisions # <<>> /\ taken.intent = NoIntent
      /\ Len(decisions) <= DecisionCap
      /\ taken' = Head(decisions) /\ decisions' = Tail(decisions) /\ executor' = "taken"
      /\ UNCHANGED <<decision, request, requests, intent, emitted, stance, forgotten, settled, lost>>
  BY DEF TakeDecision, Base, TypeOK, Holders, Decisions
<1>2. /\ taken' \in Decisions /\ decisions' \in Seq(Decisions) /\ Len(decisions') <= DecisionCap
      /\ Plain(decisions) = Cat(<<taken'.intent>>, Plain(decisions'))
  <2>1. /\ Head(decisions) \in Decisions /\ Tail(decisions) \in Seq(Decisions)
        /\ Len(Tail(decisions)) = Len(decisions) - 1 /\ Len(decisions) \in Nat
    BY <1>1, HeadTailProperties
  <2>2. Plain(decisions) = <<Head(decisions).intent>> \o Plain(Tail(decisions))
    BY <1>1, PlainProperties
  <2>3. QED
    BY <1>1, <2>1, <2>2, Constants DEF Cat
<1>3. taken'.intent \in Intents /\ taken'.intent # NoIntent
  BY <1>2, HoldingOne DEF Decisions
<1>4. Base'
  BY <1>1, <1>2, <1>3 DEF TakeDecision, Base, TypeOK, Holders, Decisions
<1>5. OnTheirWay' = OnTheirWay
  <2> DEFINE x == <<taken'.intent>>
  <2>1. x \in Ways /\ Holding(taken.intent) = <<>> /\ Holding(taken'.intent) = x
    BY <1>1, <1>3, HoldingOne
  <2> HIDE DEF x
  <2>2. Plain(decisions') \in Ways
    BY <1>2, PlainProperties DEF Ways
  <2>3. PICK b \in Ways, c \in Ways, d \in Ways, e \in Ways, f \in Ways :
           /\ OnTheirWay = Chain(<<>>, Cat(x, b), c, d, e, f)
           /\ OnTheirWay' = Chain(x, b, c, d, e, f)
    BY <1>1, <1>2, <2>1, <2>2, PiecesTyped, WayIs DEF Base, x
  <2>4. QED
    BY <2>1, <2>3, ChainShifts
<1>6. Balance' = Balance
  BY <1>1 DEF Balance
<1>7. QED
  BY <1>1, <1>4, <1>5, <1>6, NothingCut

(* and orders or refuses it;                                               *)
LEMMA OrderCuts ==
  ASSUME Base, Refuse \/ Execute
  PROVE  Base' /\ \E m \in Ways : Cutting(m)
<1> USE DEF reactors, processing, strategy, coordination, execution
<1> DEFINE i == taken.intent
<1>1. /\ i \in Intents /\ taken' = NoDecision /\ executor' = "loop"
      /\ UNCHANGED <<decisions, decision, request, requests, intent, emitted, stance, forgotten>>
  BY DEF Refuse, Execute, Base, TypeOK, Holders
<1>2. /\ <<i>> \in Ways /\ Holding(i) = <<i>> /\ Holding(taken'.intent) = <<>>
      /\ taken' \in [intent : Intents \cup {NoIntent}, approved : BOOLEAN]
      /\ taken'.intent = NoIntent
  BY <1>1, HoldingOne DEF NoDecision, Judged
<1>3. Cuts(OnTheirWay, <<i>>, OnTheirWay')
  <2> HIDE DEF i
  <2>1. PICK b \in Ways, c \in Ways, d \in Ways, e \in Ways, f \in Ways :
           /\ OnTheirWay = Chain(<<i>>, b, c, d, e, f)
           /\ OnTheirWay' = Chain(<<>>, b, c, d, e, f)
    BY <1>1, <1>2, PiecesTyped, WayIs DEF Base, i
  <2>2. QED
    BY <1>2, <2>1, ChainCuts
<1>4. CASE Refuse
  <2>1. lost' \in Int /\ lost' = lost + Net(<<i>>) /\ Net(<<i>>) \in Int /\ UNCHANGED settled
    BY <1>1, <1>4, OneLost DEF Refuse
  <2>2. Base'
    BY <1>1, <1>2, <1>4, <2>1 DEF Refuse, Base, TypeOK, Holders
  <2>3. Balance' = Balance - Net(<<i>>)
    BY <1>1, <2>1, BalanceOfLoss
  <2>4. QED
    BY <1>1, <1>2, <1>3, <2>2, <2>3, Removes
<1>5. CASE Execute
  <2>1. /\ settled' = settled + Net(<<i>>) /\ account' = account + Order(SideCode(i.side))
        /\ UNCHANGED lost /\ Net(<<i>>) \in Int
    <3>1. Net(<<i>>) = Units(i.side)
      BY <1>1, NetProperties
    <3>2. QED
      BY <1>5, <3>1 DEF Execute, Units
  <2>2. {stance, forgotten, settled, lost, account} \subseteq Int
    BY DEF Base, TypeOK
  <2>3. settled' \in Int /\ account' \in Int
    BY <2>1, <2>2 DEF Order
  <2>4. Base'
    BY <1>1, <1>2, <1>5, <2>3 DEF Execute, Base, TypeOK, Holders
  <2>5. Balance' = Balance - Net(<<i>>)
    BY <1>1, <2>1, <2>2 DEF Balance
  <2>6. QED
    BY <1>1, <1>2, <1>3, <2>4, <2>5, Removes
<1>6. QED
  BY <1>4, <1>5

(* stopping it loses all decisions.                                        *)
LEMMA StopCuts ==
  ASSUME Base, ExecutorStops
  PROVE  Base' /\ \E m \in Ways : Cutting(m)
<1> USE DEF reactors, processing, strategy, coordination, execution
<1> DEFINE x == Plain(decisions)
<1>1. /\ decisions \in Seq(Decisions) /\ decisions' = <<>> /\ executor' = "gone"
      /\ UNCHANGED <<taken, decision, request, requests, intent, emitted, stance, forgotten, settled>>
      /\ Lose([n \in 1..Len(decisions) |-> decisions[n].intent]) /\ taken.intent = NoIntent
      /\ lost \in Int
  BY DEF ExecutorStops, Base, TypeOK, Holders, Decisions
<1>2. x \in Ways /\ x = [n \in 1..Len(decisions) |-> decisions[n].intent]
  BY <1>1, PlainProperties DEF Ways, Plain
<1>3. lost' = lost + Net(x) /\ Net(x) \in Int /\ lost' \in Int
  <2>1. Net(x) \in Int
    BY <1>2, NetProperties DEF Ways
  <2> HIDE DEF x
  <2>2. Lose(x)
    BY <1>1, <1>2
  <2>3. QED
    BY <1>1, <1>2, <2>1, <2>2, LoseAll
<1>4. Base'
  <2>1. decisions' \in Seq([intent : Intents, approved : BOOLEAN]) /\ Len(decisions') <= DecisionCap
    BY <1>1, Constants
  <2>2. QED
    BY <1>1, <1>3, <2>1 DEF ExecutorStops, Base, TypeOK, Holders
<1>5. Cuts(OnTheirWay, x, OnTheirWay')
  <2> HIDE DEF x
  <2>1. Plain(decisions') = <<>>
    BY <1>1, PlainProperties
  <2>2. PICK a \in Ways, c \in Ways, d \in Ways, e \in Ways, f \in Ways :
           /\ OnTheirWay = Chain(a, x, c, d, e, f)
           /\ OnTheirWay' = Chain(a, <<>>, c, d, e, f)
    BY <1>1, <2>1, PiecesTyped, WayIs DEF Base, x
  <2>3. QED
    BY <1>2, <2>2, ChainCuts
<1>6. Balance' = Balance - Net(x)
  BY <1>1, <1>3, BalanceOfLoss
<1>7. QED
  BY <1>1, <1>2, <1>4, <1>5, <1>6, Removes

(* An intent joins behind all that are on their way.                       *)
LEMMA EvaluateStep ==
  ASSUME PipeInv, NEW side \in Sides, NEW score \in Scores, Evaluate(side, score)
  PROVE  PipeInv'
<1> USE DEF reactors, processing, strategy, coordination, execution
<1>1. /\ emitted \in 0..MaxIntents /\ emitted < MaxIntents /\ emitted' = emitted + 1
      /\ stance \in -1..1 /\ stance' = stance + Units(side) /\ Transition(side, score)
      /\ intent' = [id |-> emitted', side |-> side] /\ processor' = "send" /\ intent = NoIntent
      /\ UNCHANGED <<taken, decisions, decision, request, requests, swaps, forgotten, settled, lost>>
  BY DEF PipeInv, Evaluate, Emit, TypeOK, Holders
<1>2. intent' \in Intents /\ intent'.id = emitted + 1 /\ intent'.side = side /\ intent' # NoIntent
  BY <1>1, HoldingOne, Constants DEF Intents
<1>3. stance' \in -1..1
  <2>1. \/ stance = 0 /\ side \in {"Long", "Short"}
        \/ stance = 1 /\ side = "CloseLong"
        \/ stance = -1 /\ side = "CloseShort"
    BY <1>1 DEF Transition, Sides, Rises
  <2>2. QED
    BY <1>1, <2>1 DEF Units, Rises
<1>4. Base'
  <2>1. batch' \in 0..MdCap /\ emitted' \in 0..MaxIntents
    BY <1>1, Constants, SMTT(20) DEF PipeInv, Evaluate, TypeOK
  <2>2. QED
    BY <1>1, <1>2, <1>3, <2>1 DEF PipeInv, Evaluate, Base, TypeOK, Holders
<1>5. OnTheirWay' = Cat(OnTheirWay, <<intent'>>) /\ OnTheirWay \in Seq(Intents)
  <2>1. Holding(intent) = <<>> /\ Holding(intent') = <<intent'>> /\ <<intent'>> \in Ways
    BY <1>1, <1>2, HoldingOne
  <2> DEFINE x == <<intent'>>
  <2> HIDE DEF x
  <2>2. PICK w \in Ways : OnTheirWay = Cat(w, <<>>) /\ OnTheirWay' = Cat(w, x)
    <3>1. PICK a \in Ways, b \in Ways, c \in Ways, d \in Ways, e \in Ways :
             OnTheirWay = Chain(a, b, c, d, e, <<>>) /\ OnTheirWay' = Chain(a, b, c, d, e, x)
      BY <1>1, <2>1, PiecesTyped, WayIs DEF PipeInv, x
    <3>2. Cat(Cat(Cat(Cat(a, b), c), d), e) \in Ways
      BY Concat
    <3>3. QED
      BY <3>1, <3>2 DEF Chain
  <2>3. QED
    BY <2>2, Concat DEF x, Ways
<1>6. OrderKept' /\ UpTo(OnTheirWay', emitted')
  <2>1. Increasing(OnTheirWay) /\ UpTo(OnTheirWay, emitted) /\ emitted \in Nat
    BY <1>1, Constants DEF PipeInv, OrderKept, Increasing
  <2>2. Increasing(OnTheirWay \o <<intent'>>) /\ UpTo(OnTheirWay \o <<intent'>>, emitted + 1)
    BY <1>2, <1>5, <2>1, AppendKeepsOrder
  <2>3. QED
    BY <1>1, <1>5, <2>2 DEF OrderKept, Increasing, Cat
<1>7. StanceAccounted'
  <2>1. <<intent'>> \in Seq(Intents) /\ Net(<<intent'>>) = Units(side)
    BY <1>2, NetProperties
  <2>2. Net(OnTheirWay') = Net(OnTheirWay) + Units(side) /\ Net(OnTheirWay) \in Int
    BY <1>5, <2>1, NetProperties DEF Cat
  <2>3. Balance = Net(OnTheirWay)
    BY Accounted DEF PipeInv
  <2>4. {stance, forgotten, settled, lost} \subseteq Int /\ Units(side) \in Int
    BY DEF PipeInv, TypeOK, Units
  <2>5. Balance' = Balance + Units(side)
    BY <1>1, <2>4 DEF Balance
  <2>6. QED
    BY <1>4, <2>2, <2>3, <2>5, AccountedPrimed DEF Base
<1>8. QED
  BY <1>4, <1>6, <1>7 DEF Base, PipeInv

(* The pipeline starts in the invariant,                                   *)
LEMMA PipeInitial == Init => PipeInv
<1> SUFFICES ASSUME Init PROVE PipeInv
  OBVIOUS
<1>1. TypeOK
  <2>1. /\ ticks \in 0..MdCap /\ batch \in 0..MdCap /\ stance \in -1..1
        /\ emitted \in 0..MaxIntents /\ swaps \in 0..MaxSwaps
    BY Constants DEF Init
  <2>2. /\ requests \in Seq(Intents) /\ Len(requests) <= RiskCap
        /\ decisions \in Seq([intent : Intents, approved : BOOLEAN])
        /\ Len(decisions) <= DecisionCap /\ commands \in Seq({"subscribe", "unsubscribe"})
    BY Constants DEF Init
  <2>3. {decision, taken} \subseteq [intent : Intents \cup {NoIntent}, approved : BOOLEAN]
    BY DEF Init, NoDecision, Judged
  <2>4. {killed, target, sawKill} = {FALSE} /\ {intent, request} = {NoIntent}
    BY DEF Init
  <2>5. {settled, account, lost, forgotten} \subseteq Int /\ late \in Nat /\ policy \in Policies
    BY DEF Init
  <2>6. QED
    BY <2>1, <2>2, <2>3, <2>4, <2>5 DEF Init, TypeOK
<1>2. Holders
  BY DEF Init, Holders, NoDecision, Judged
<1>3. OnTheirWay = <<>>
  <2>1. PICK a \in {<<>>} : OnTheirWay = Chain(a, a, a, a, a, a)
    BY HoldingOne, PlainProperties, WayIs DEF Init, NoDecision, Judged
  <2>2. QED
    BY <2>1, Concat DEF Chain
<1>4. StanceAccounted
  BY <1>1, <1>3, NetProperties, Accounted DEF Init, Balance
<1>5. QED
  BY <1>1, <1>2, <1>3, <1>4 DEF PipeInv, OrderKept, UpTo

(* and every step keeps it.                                                *)
LEMMA PipeStep ==
  ASSUME PipeInv, [Next]_vars
  PROVE  PipeInv'
<1>1. ASSUME Base', NEW m \in Ways, Cutting(m) PROVE PipeInv'
  BY <1>1, CutStep DEF PipeInv, Base, Cutting
<1>2. Base
  BY DEF PipeInv, Base
<1>3. CASE Tick \/ ReactorStep
  BY <1>1, <1>2, <1>3, ReactorCuts
<1>4. CASE ProcessorStep
  <2>1. CASE Receive \/ Pass \/ ProcessorStops
    BY <1>1, <1>2, <2>1, ProcessorCuts
  <2>2. CASE Send
    BY <1>1, <1>2, <2>2, SendCuts
  <2>3. CASE Evict
    BY <1>1, <1>2, <2>3, EvictCuts
  <2>4. CASE \E side \in Sides, score \in Scores : Evaluate(side, score)
    BY <2>4, EvaluateStep
  <2>5. QED
    BY <1>4, <2>1, <2>2, <2>3, <2>4 DEF ProcessorStep
<1>5. CASE CoordinatorStep
  <2>1. CASE TakeRequest
    BY <1>1, <1>2, <2>1, TakeRequestCuts
  <2>2. CASE ReadSwitch \/ CoordinatorLeaves \/ \E approved \in BOOLEAN : Check(approved)
    BY <1>1, <1>2, <2>2, JudgeCuts
  <2>3. CASE SendDecision
    BY <1>1, <1>2, <2>3, SendDecisionCuts
  <2>4. CASE DrainRequests
    BY <1>1, <1>2, <2>4, DrainCuts
  <2>5. QED
    BY <1>5, <2>1, <2>2, <2>3, <2>4 DEF CoordinatorStep
<1>6. CASE ExecutorStep
  <2>1. CASE TakeDecision
    BY <1>1, <1>2, <2>1, TakeDecisionCuts
  <2>2. CASE Refuse \/ Execute
    BY <1>1, <1>2, <2>2, OrderCuts
  <2>3. CASE ExecutorStops
    BY <1>1, <1>2, <2>3, StopCuts
  <2>4. QED
    BY <1>6, <2>1, <2>2, <2>3 DEF ExecutorStep
<1>7. CASE ControlStep \/ Unsubscribe \/ SwapStrategy \/ Activate \/ Clear \/ UNCHANGED vars
  BY <1>1, <1>2, <1>7, ControlCuts
<1>8. QED
  BY <1>3, <1>4, <1>5, <1>6, <1>7 DEF Next

(* Every channel keeps to its capacity and every holder to its type.       *)
THEOREM PipelineTyped == Spec => []TypeOK
<1>1. PipeInv => TypeOK
  BY DEF PipeInv
<1>2. QED
  BY <1>1, PipeInitial, PipeStep, PTL DEF Spec

(* Whatever is dropped, evicted, refused or drained, and whichever thread ends*)
(* first, the strategy's position is accounted for and no intent overtakes *)
(* another.                                                                *)
THEOREM IntentsAccounted == Spec => []IntentsAreAccounted
<1>1. PipeInv => IntentsAreAccounted
  BY DEF PipeInv, IntentsAreAccounted
<1>2. QED
  BY <1>1, PipeInitial, PipeStep, PTL DEF Spec
===============================================================================
