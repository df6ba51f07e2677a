-------------------------- MODULE OrchestratorProofs --------------------------
(***************************************************************************)
(* Machine-checked proofs about DagValidation and Orchestrator.            *)
(*                                                                         *)
(* Part 1, for dags of any size: Kahn's loop, with its queue and its       *)
(* counters, finds a topological order of every acyclic dag and of no      *)
(* other.  The induction that the loops need is over positions, and is     *)
(* done with a set of the positions where the claim holds (Up): the claim  *)
(* is then an ordinary argument of the lemma.                              *)
(*                                                                         *)
(* Part 2, for any number of concurrent runs, any task and any limits:     *)
(* what the orchestrator promises about one run holds beside any others;   *)
(* what it promises about the task record, which all runs write, holds for *)
(* a single run.                                                           *)
(***************************************************************************)
EXTENDS Orchestrator, FiniteSetTheorems, WellFoundedInduction, SequenceTheorems, TLAPS

-----------------------------------------------------------------------------
(* Induction and iteration.                                                 *)

\* A set that holds 0 and is closed under successor below n holds 0..n.
LEMMA Up ==
    ASSUME NEW n \in Nat, NEW P, 0 \in P, \A i \in 0..(n - 1) : i \in P => i + 1 \in P
    PROVE  0..n \subseteq P
<1> DEFINE Bad == {i \in 0..n : i \notin P}
<1> SUFFICES ASSUME Bad # {} PROVE FALSE
  OBVIOUS
<1>1. IsWellFoundedOn(OpToRel(<, Nat), Nat)
  BY NatLessThanWellFounded
<1>2. Bad \subseteq Nat
  OBVIOUS
<1>3. PICK m \in Bad : \A y \in Bad : ~(<<y, m>> \in OpToRel(<, Nat))
  <2> HIDE DEF Bad
  <2> QED
    BY <1>1, <1>2, WFMin
<1>4. m # 0 /\ m - 1 \in 0..n /\ m - 1 < m
  OBVIOUS
<1>5. m - 1 \notin Bad
  BY <1>2, <1>3, <1>4 DEF OpToRel
<1> QED
  BY <1>4, <1>5

\* A set of naturals that is not empty has a least member.
LEMMA Least ==
    ASSUME NEW S, S \subseteq Nat, S # {}
    PROVE  \E m \in S : \A k \in S : m <= k
<1>1. IsWellFoundedOn(OpToRel(<, Nat), Nat)
  BY NatLessThanWellFounded
<1>2. PICK m \in S : \A y \in S : ~(<<y, m>> \in OpToRel(<, Nat))
  BY <1>1, WFMin
<1>3. \A y \in S : ~(y < m)
  BY <1>2 DEF OpToRel
<1> QED
  BY <1>3

\* g starts with a and goes on with the steps of F.
Iterates(g, n, X, a, F) ==
    g \in [0..n -> X] /\ g[0] = a /\ \A i \in 1..n : g[i] = F[i][g[i - 1]]

\* A recursion over positions has a solution.
LEMMA IterationExists ==
    ASSUME NEW n \in Nat, NEW X, NEW a \in X, NEW F \in [1..n -> [X -> X]]
    PROVE  \E g : Iterates(g, n, X, a, F)
<1> DEFINE Has(k) == \E g \in [0..k -> X] : g[0] = a /\ \A i \in 1..k : g[i] = F[i][g[i - 1]]
           P == {k \in 0..n : Has(k)}
<1>1. 0 \in P
  <2> DEFINE g0 == [j \in 0..0 |-> a]
  <2>1. g0 \in [0..0 -> X] /\ g0[0] = a /\ \A i \in 1..0 : g0[i] = F[i][g0[i - 1]]
    OBVIOUS
  <2> HIDE DEF g0
  <2> QED
    BY <2>1
<1>2. ASSUME NEW k \in 0..(n - 1), k \in P PROVE k + 1 \in P
  <2>1. PICK g \in [0..k -> X] : g[0] = a /\ \A i \in 1..k : g[i] = F[i][g[i - 1]]
    BY <1>2
  <2> DEFINE h == [j \in 0..(k + 1) |-> IF j <= k THEN g[j] ELSE F[k + 1][g[k]]]
  <2>2. F[k + 1][g[k]] \in X
    OBVIOUS
  <2>3. h \in [0..(k + 1) -> X] /\ h[0] = a
    BY <2>1, <2>2
  <2>4. \A i \in 1..(k + 1) : h[i] = F[i][h[i - 1]]
    BY <2>1
  <2> HIDE DEF h
  <2> QED
    BY <2>3, <2>4, SMTT(20)
<1> HIDE DEF P
<1>3. 0..n \subseteq P
  BY <1>1, <1>2, Up
<1>4. n \in P
  BY <1>3
<1> QED
  BY <1>4 DEF P, Iterates

\* A set of sequences that a recursion stays in.
LEMMA IterationTyped ==
    ASSUME NEW n \in Nat, NEW X, NEW f, f[0] \in X,
           \A i \in 0..(n - 1) : f[i] \in X => f[i + 1] \in X
    PROVE  \A i \in 0..n : f[i] \in X
<1> DEFINE P == {i \in 0..n : f[i] \in X}
<1>1. 0 \in P /\ \A i \in 0..(n - 1) : i \in P => i + 1 \in P
  OBVIOUS
<1>2. 0..n \subseteq P
  <2> HIDE DEF P
  <2> QED
    BY <1>1, Up
<1> QED
  BY <1>2

-----------------------------------------------------------------------------
(* Among: the members of a sequence that are in a set.                      *)

\* KeptUpTo is the function its definition describes.
LEMMA KeptSteps ==
    ASSUME NEW T, NEW s \in Seq(T), NEW S
    PROVE  /\ KeptUpTo(s, S)[0] = << >>
           /\ \A i \in 1..Len(s) : KeptUpTo(s, S)[i] =
                 IF s[i] \in S THEN Append(KeptUpTo(s, S)[i - 1], s[i]) ELSE KeptUpTo(s, S)[i - 1]
<1> DEFINE n == Len(s)
           X == Seq(T)
           F == [i \in 1..n |-> [x \in X |-> IF s[i] \in S THEN Append(x, s[i]) ELSE x]]
           e == << >>
<1>1. n \in Nat
  OBVIOUS
<1>2. e \in X /\ F \in [1..n -> [X -> X]]
  OBVIOUS
<1>3. \A i \in 1..n, x \in X : F[i][x] = IF s[i] \in S THEN Append(x, s[i]) ELSE x
  OBVIOUS
<1> HIDE DEF F, n, X, e
<1>4. PICK g : Iterates(g, n, X, e, F)
  BY <1>1, <1>2, IterationExists
<1>5. \A i \in 0..n : g[i] = IF i = 0 THEN << >>
          ELSE IF s[i] \in S THEN Append(g[i - 1], s[i]) ELSE g[i - 1]
  <2> TAKE i \in 0..n
  <2>1. CASE i = 0
    BY <1>4, <2>1 DEF e, Iterates
  <2>2. CASE i # 0
    <3>1. i \in 1..n /\ i - 1 \in 0..n
      BY <1>1, <2>2
    <3>2. g[i - 1] \in X /\ g[i] = F[i][g[i - 1]]
      BY <1>4, <3>1 DEF Iterates
    <3>3. F[i][g[i - 1]] = IF s[i] \in S THEN Append(g[i - 1], s[i]) ELSE g[i - 1]
      BY <1>3, <3>1, <3>2
    <3> QED
      BY <2>2, <3>2, <3>3
  <2> QED
    BY <2>1, <2>2
<1>6. g = [i \in 0..n |-> IF i = 0 THEN << >>
          ELSE IF s[i] \in S THEN Append(g[i - 1], s[i]) ELSE g[i - 1]]
  BY <1>4, <1>5 DEF Iterates
<1>7. KeptUpTo(s, S) = [i \in 0..n |-> IF i = 0 THEN << >>
          ELSE IF s[i] \in S THEN Append(KeptUpTo(s, S)[i - 1], s[i]) ELSE KeptUpTo(s, S)[i - 1]]
  BY <1>6 DEF KeptUpTo, n
<1> DEFINE Value(i) == IF i = 0 THEN << >>
              ELSE IF s[i] \in S THEN Append(KeptUpTo(s, S)[i - 1], s[i]) ELSE KeptUpTo(s, S)[i - 1]
<1>8. KeptUpTo(s, S) = [i \in 0..n |-> Value(i)]
  BY <1>7
<1> HIDE DEF KeptUpTo, Value
<1>9. \A i \in 0..n : KeptUpTo(s, S)[i] = Value(i)
  BY <1>8
<1>10. 0 \in 0..n /\ \A i \in 1..n : i \in 0..n /\ i # 0
  BY <1>1
<1> QED
  BY <1>9, <1>10 DEF n, Value

\* What a prefix of the sequence keeps: where each member kept came from.
KeptFrom(s, S, i, k, src) ==
    /\ k \in Seq(S)
    /\ src \in [1..Len(k) -> 1..i]
    /\ \A x \in 1..Len(k) : k[x] = s[src[x]]
    /\ \A x, y \in 1..Len(k) : x < y => src[x] < src[y]
    /\ \A j \in 1..i : s[j] \in S => \E x \in 1..Len(k) : src[x] = j

\* Among keeps the members of s in S, all of them, in their order.
LEMMA AmongKept ==
    ASSUME NEW T, NEW s \in Seq(T), NEW S
    PROVE  \E src : KeptFrom(s, S, Len(s), Among(s, S), src)
<1> DEFINE f == KeptUpTo(s, S)
           n == Len(s)
           P == {i \in 0..n : \E src : KeptFrom(s, S, i, f[i], src)}
<1>0. n \in Nat
  OBVIOUS
<1>1. f[0] = << >> /\ \A i \in 1..n : f[i] = IF s[i] \in S THEN Append(f[i - 1], s[i]) ELSE f[i - 1]
  BY KeptSteps
<1> HIDE DEF f, n
<1>2. 0 \in P
  <2> DEFINE src == [x \in 1..0 |-> 0]
  <2>1. KeptFrom(s, S, 0, << >>, src)
    BY DEF KeptFrom
  <2> HIDE DEF src
  <2> QED
    BY <1>0, <1>1, <2>1
<1>3. ASSUME NEW i \in 0..(n - 1), i \in P PROVE i + 1 \in P
  <2>1. PICK src : KeptFrom(s, S, i, f[i], src)
    BY <1>3
  <2> DEFINE k == f[i]
  <2>2. k \in Seq(S) /\ Len(k) \in Nat /\ i \in Nat /\ i + 1 \in 1..n
    BY <1>0, <2>1 DEF KeptFrom
  <2>3. f[i + 1] = IF s[i + 1] \in S THEN Append(k, s[i + 1]) ELSE k
    BY <1>0, <1>1, <2>2
  <2> HIDE DEF k
  <2>4. KeptFrom(s, S, i, k, src)
    BY <2>1 DEF k
  <2>5. CASE s[i + 1] \notin S
    <3>1. KeptFrom(s, S, i + 1, k, src)
      BY <2>2, <2>4, <2>5 DEF KeptFrom
    <3> QED
      BY <1>0, <2>2, <2>3, <2>5, <3>1
  <2>6. CASE s[i + 1] \in S
    <3> DEFINE k2 == Append(k, s[i + 1])
               src2 == [x \in 1..(Len(k) + 1) |-> IF x <= Len(k) THEN src[x] ELSE i + 1]
    <3>1. /\ k2 \in Seq(S) /\ Len(k2) = Len(k) + 1 /\ k2[Len(k) + 1] = s[i + 1]
          /\ \A x \in 1..Len(k) : k2[x] = k[x]
      BY <2>2, <2>6
    <3>2. /\ src2[Len(k) + 1] = i + 1 /\ \A x \in 1..Len(k) : src2[x] = src[x]
          /\ src2 \in [1..(Len(k) + 1) -> 1..(i + 1)]
      BY <2>2, <2>4 DEF KeptFrom
    <3> HIDE DEF k2, src2
    <3>3. \A x \in 1..(Len(k) + 1) : x \in 1..Len(k) \/ x = Len(k) + 1
      BY <2>2
    <3>4. \A x \in 1..Len(k) : src[x] \in 1..i /\ k[x] = s[src[x]]
      BY <2>4 DEF KeptFrom
    <3>5. \A x \in 1..Len(k2) : k2[x] = s[src2[x]]
      BY <3>1, <3>2, <3>3, <3>4
    <3>6. \A x, y \in 1..Len(k2) : x < y => src2[x] < src2[y]
      <4>1. \A x, y \in 1..Len(k) : x < y => src[x] < src[y]
        BY <2>4 DEF KeptFrom
      <4> QED
        BY <2>2, <3>1, <3>2, <3>3, <3>4, <4>1, SMTT(20)
    <3>7. \A j \in 1..(i + 1) : s[j] \in S => \E x \in 1..Len(k2) : src2[x] = j
      <4>1. \A j \in 1..i : s[j] \in S => \E x \in 1..Len(k) : src[x] = j
        BY <2>4 DEF KeptFrom
      <4>2. \A x \in 1..Len(k) : x \in 1..Len(k2)
        BY <2>2, <3>1
      <4>3. Len(k) + 1 \in 1..Len(k2)
        BY <2>2, <3>1
      <4>4. \A j \in 1..(i + 1) : j \in 1..i \/ j = i + 1
        BY <2>2
      <4> QED
        BY <3>2, <4>1, <4>2, <4>3, <4>4
    <3>8. KeptFrom(s, S, i + 1, k2, src2)
      BY <3>1, <3>2, <3>5, <3>6, <3>7 DEF KeptFrom
    <3>9. f[i + 1] = k2 /\ i + 1 \in 0..n
      BY <1>0, <2>2, <2>3, <2>6 DEF k2
    <3> QED
      BY <3>8, <3>9
  <2> QED
    BY <2>5, <2>6
<1>4. 0..n \subseteq P
  <2> HIDE DEF P
  <2> QED
    BY <1>0, <1>2, <1>3, Up
<1>5. n \in P
  BY <1>0, <1>4
<1> QED
  BY <1>5 DEF Among, f, n

-----------------------------------------------------------------------------
(* Kahn's loop: what its recursions compute.                                *)

\* Dags that have passed the checks made before Kahn's loop.
WellFormed(dag) == IsDag(dag) /\ IsInjective(dag.nodes) /\ ReferencesKnown(dag)

KahnStates(dag) == [remaining : [Declared(dag) -> Int], order : Seq(Declared(dag))]

\* What well-formedness says of the sets the loop is about.
LEMMA DagFacts ==
    ASSUME NEW dag, WellFormed(dag)
    PROVE  /\ Len(dag.nodes) \in Nat /\ Len(dag.edges) \in Nat
           /\ DOMAIN dag.edges = 1..Len(dag.edges)
           /\ \A i \in 1..Len(dag.edges) :
                 dag.edges[i][1] \in Declared(dag) /\ dag.edges[i][2] \in Declared(dag)
           /\ dag.nodes \in Seq(Declared(dag))
           /\ IsFiniteSet(Declared(dag)) /\ Cardinality(Declared(dag)) = Len(dag.nodes)
<1> DEFINE n == Len(dag.nodes)
           V == Declared(dag)
<1>1. /\ dag.nodes \in Seq(NodeIds) /\ dag.edges \in Seq(NodeIds \X NodeIds)
      /\ n \in Nat /\ Len(dag.edges) \in Nat /\ DOMAIN dag.edges = 1..Len(dag.edges)
      /\ DOMAIN dag.nodes = 1..n
  BY DEF WellFormed, IsDag
<1>2. \A i \in 1..Len(dag.edges) : dag.edges[i][1] \in V /\ dag.edges[i][2] \in V
  BY <1>1 DEF WellFormed, ReferencesKnown, Edges, ToSet
<1>3. dag.nodes \in [1..n -> V]
  BY <1>1 DEF Declared, ToSet
<1>4. dag.nodes \in Seq(V)
  BY <1>1, <1>3
<1>5. dag.nodes \in Bijection(1..n, V)
  <2>1. \A v \in V : \E i \in 1..n : dag.nodes[i] = v
    BY <1>1 DEF Declared, ToSet
  <2>2. IsInjective(dag.nodes)
    BY DEF WellFormed
  <2> HIDE DEF n, V
  <2> QED
    BY <1>3, <2>1, <2>2 DEF Bijection, Injection, Surjection
<1>6. IsFiniteSet(1..n) /\ Cardinality(1..n) = n
  <2>1. n \in Nat
    BY <1>1
  <2> HIDE DEF n
  <2>2. /\ IsFiniteSet(1..n)
        /\ Cardinality(1..n) = IF 1 > n THEN 0 ELSE n - 1 + 1
    BY <2>1, FS_Interval
  <2> QED
    BY <2>1, <2>2
<1>7. IsFiniteSet(V) /\ Cardinality(V) = n
  <2>1. ExistsBijection(1..n, V)
    BY <1>5 DEF ExistsBijection
  <2> HIDE DEF n, V
  <2> QED
    BY <1>6, <2>1, FS_Bijection
<1> QED
  BY <1>1, <1>2, <1>4, <1>7

\* Releasing an edge keeps the loop's types.
LEMMA ReleaseTyped ==
    ASSUME NEW dag, NEW s \in KahnStates(dag), NEW n \in Declared(dag)
    PROVE  Release(s, n) \in KahnStates(dag)
<1> DEFINE V == Declared(dag)
<1>1. s.remaining \in [V -> Int] /\ s.order \in Seq(V)
  BY DEF KahnStates
<1>2. s.remaining[n] - 1 \in Int
  BY <1>1
<1>3. /\ [s.remaining EXCEPT ![n] = s.remaining[n] - 1] \in [V -> Int]
      /\ Append(s.order, n) \in Seq(V)
  BY <1>1, <1>2
<1> QED
  BY <1>1, <1>3 DEF Release, KahnStates

\* ReleaseUpTo is the function its definition describes.
LEMMA ReleaseSteps ==
    ASSUME NEW dag, WellFormed(dag), NEW s \in KahnStates(dag), NEW c
    PROVE  LET f == ReleaseUpTo(dag, s, c)
           IN  /\ f[0] = s
               /\ \A i \in 1..Len(dag.edges) :
                     /\ f[i - 1] \in KahnStates(dag) /\ f[i] \in KahnStates(dag)
                     /\ f[i] = IF dag.edges[i][1] = c THEN Release(f[i - 1], dag.edges[i][2])
                               ELSE f[i - 1]
<1> DEFINE m == Len(dag.edges)
           X == KahnStates(dag)
           Go(i, x) == IF dag.edges[i][1] = c THEN Release(x, dag.edges[i][2]) ELSE x
           F == [i \in 1..m |-> [x \in X |-> Go(i, x)]]
<1>1. m \in Nat /\ s \in X
  BY DagFacts
<1>2. \A i \in 1..m, x \in X : Go(i, x) \in X
  BY DagFacts, ReleaseTyped
<1> HIDE DEF m, X, Go
<1>3. F \in [1..m -> [X -> X]] /\ \A i \in 1..m, x \in X : F[i][x] = Go(i, x)
  BY <1>2
<1> HIDE DEF F
<1>4. PICK g : Iterates(g, m, X, s, F)
  BY <1>1, <1>3, IterationExists
<1>5. g = [i \in 0..m |-> IF i = 0 THEN s ELSE Go(i, g[i - 1])]
  <2>1. \A i \in 1..m : i - 1 \in 0..m
    BY <1>1
  <2>2. \A i \in 1..m : g[i] = Go(i, g[i - 1])
    BY <1>3, <1>4, <2>1 DEF Iterates
  <2>3. \A i \in 0..m : g[i] = IF i = 0 THEN s ELSE Go(i, g[i - 1])
    BY <1>1, <1>4, <2>2 DEF Iterates
  <2> QED
    BY <1>4, <2>3 DEF Iterates
<1> DEFINE f == ReleaseUpTo(dag, s, c)
<1>6. f = [i \in 0..m |-> IF i = 0 THEN s ELSE Go(i, f[i - 1])]
  BY <1>5 DEF ReleaseUpTo, m, Go
<1> DEFINE Value(i) == IF i = 0 THEN s ELSE Go(i, f[i - 1])
<1>7. f = [i \in 0..m |-> Value(i)]
  BY <1>6
<1> HIDE DEF f, Value
<1>8. \A i \in 0..m : f[i] = Value(i)
  BY <1>7
<1>9. f[0] = s /\ \A i \in 1..m : f[i] = Go(i, f[i - 1])
  <2>1. 0 \in 0..m /\ \A i \in 1..m : i \in 0..m /\ i # 0
    BY <1>1
  <2> QED
    BY <1>8, <2>1 DEF Value
<1>10. \A i \in 0..m : f[i] \in X
  <2>1. f[0] \in X
    BY <1>1, <1>9
  <2>2. \A i \in 0..(m - 1) : i + 1 \in 1..m /\ (i + 1) - 1 = i
    BY <1>1
  <2>3. \A i \in 0..(m - 1) : f[i + 1] = Go(i + 1, f[i])
    BY <1>9, <2>2
  <2>4. \A i \in 0..(m - 1) : f[i] \in X => f[i + 1] \in X
    BY <1>2, <2>2, <2>3
  <2> QED
    BY <1>1, <2>1, <2>4, IterationTyped
<1>11. \A i \in 1..m : i - 1 \in 0..m /\ i \in 0..m
  BY <1>1
<1>12. \A i \in 1..m : f[i] = IF dag.edges[i][1] = c THEN Release(f[i - 1], dag.edges[i][2])
                              ELSE f[i - 1]
  BY <1>9 DEF Go
<1> QED
  BY <1>9, <1>10, <1>11, <1>12 DEF f, m, X

\* A pop keeps the loop's types.
LEMMA KahnStepTyped ==
    ASSUME NEW dag, WellFormed(dag), NEW s \in KahnStates(dag), NEW i
    PROVE  KahnStep(dag, s, i) \in KahnStates(dag)
<1> DEFINE c == s.order[i]
<1>1. /\ ReleaseUpTo(dag, s, c)[0] = s
      /\ \A j \in 1..Len(dag.edges) : ReleaseUpTo(dag, s, c)[j] \in KahnStates(dag)
  BY ReleaseSteps
<1>2. Len(dag.edges) \in Nat
  BY DagFacts
<1>3. Len(dag.edges) = 0 \/ Len(dag.edges) \in 1..Len(dag.edges)
  BY <1>2
<1>4. ReleaseUpTo(dag, s, c)[Len(dag.edges)] \in KahnStates(dag)
  BY <1>1, <1>3
<1> QED
  BY <1>4 DEF KahnStep

\* The queue starts with the nodes that have no incoming edge.
LEMMA StartTyped ==
    ASSUME NEW dag, WellFormed(dag)
    PROVE  KahnStart(dag) \in KahnStates(dag)
<1> DEFINE V == Declared(dag)
           In(n) == {i \in DOMAIN dag.edges : dag.edges[i][2] = n}
<1>1. \A n \in V : Cardinality(In(n)) \in Int
  <2> TAKE n \in V
  <2>1. In(n) \in SUBSET (1..Len(dag.edges)) /\ Len(dag.edges) \in Nat
    BY DagFacts
  <2>2. IsFiniteSet(1..Len(dag.edges))
    BY <2>1, FS_Interval
  <2> HIDE DEF In
  <2>3. IsFiniteSet(In(n))
    BY <2>1, <2>2, FS_Subset
  <2> QED
    BY <2>3, FS_CardinalityType
<1>2. InDegree(dag) \in [V -> Int]
  BY <1>1 DEF InDegree
<1>3. Among(dag.nodes, StartNodes(dag)) \in Seq(V)
  <2>1. dag.nodes \in Seq(V)
    BY DagFacts
  <2>2. PICK src : KeptFrom(dag.nodes, StartNodes(dag), Len(dag.nodes),
                            Among(dag.nodes, StartNodes(dag)), src)
    BY <2>1, AmongKept
  <2>3. Among(dag.nodes, StartNodes(dag)) \in Seq(StartNodes(dag))
    BY <2>2 DEF KeptFrom
  <2>4. StartNodes(dag) \subseteq V
    BY DEF StartNodes
  <2> QED
    BY <2>3, <2>4
<1> QED
  BY <1>2, <1>3 DEF KahnStart, KahnStates

\* KahnPasses is the function its definition describes.
LEMMA PassSteps ==
    ASSUME NEW dag, WellFormed(dag)
    PROVE  LET f == KahnPasses(dag)
           IN  /\ f[0] = KahnStart(dag)
               /\ \A i \in 1..Cardinality(Declared(dag)) :
                     f[i - 1] \in KahnStates(dag) /\ f[i] = KahnStep(dag, f[i - 1], i)
<1> DEFINE m == Cardinality(Declared(dag))
           X == KahnStates(dag)
           s == KahnStart(dag)
           Go(i, x) == KahnStep(dag, x, i)
           F == [i \in 1..m |-> [x \in X |-> Go(i, x)]]
<1>1. m \in Nat /\ s \in X
  BY DagFacts, StartTyped
<1>2. \A i \in 1..m, x \in X : Go(i, x) \in X
  BY KahnStepTyped
<1> HIDE DEF m, X, Go, s
<1>3. F \in [1..m -> [X -> X]] /\ \A i \in 1..m, x \in X : F[i][x] = Go(i, x)
  BY <1>2
<1> HIDE DEF F
<1>4. PICK g : Iterates(g, m, X, s, F)
  BY <1>1, <1>3, IterationExists
<1>5. g = [i \in 0..m |-> IF i = 0 THEN s ELSE Go(i, g[i - 1])]
  <2>1. \A i \in 1..m : i - 1 \in 0..m
    BY <1>1
  <2>2. \A i \in 1..m : g[i] = Go(i, g[i - 1])
    BY <1>3, <1>4, <2>1 DEF Iterates
  <2>3. \A i \in 0..m : g[i] = IF i = 0 THEN s ELSE Go(i, g[i - 1])
    BY <1>1, <1>4, <2>2 DEF Iterates
  <2> QED
    BY <1>4, <2>3 DEF Iterates
<1> DEFINE f == KahnPasses(dag)
<1>6. f = [i \in 0..m |-> IF i = 0 THEN s ELSE Go(i, f[i - 1])]
  BY <1>5 DEF KahnPasses, m, Go, s
<1> DEFINE Value(i) == IF i = 0 THEN s ELSE Go(i, f[i - 1])
<1>7. f = [i \in 0..m |-> Value(i)]
  BY <1>6
<1> HIDE DEF f, Value
<1>8. \A i \in 0..m : f[i] = Value(i)
  BY <1>7
<1>9. f[0] = s /\ \A i \in 1..m : f[i] = Go(i, f[i - 1])
  <2>1. 0 \in 0..m /\ \A i \in 1..m : i \in 0..m /\ i # 0
    BY <1>1
  <2> QED
    BY <1>8, <2>1 DEF Value
<1>10. \A i \in 0..m : f[i] \in X
  <2>1. f[0] \in X
    BY <1>1, <1>9
  <2>2. \A i \in 0..(m - 1) : i + 1 \in 1..m /\ (i + 1) - 1 = i
    BY <1>1
  <2>3. \A i \in 0..(m - 1) : f[i + 1] = Go(i + 1, f[i])
    BY <1>9, <2>2
  <2>4. \A i \in 0..(m - 1) : f[i] \in X => f[i + 1] \in X
    BY <1>2, <2>2, <2>3
  <2> QED
    BY <1>1, <2>1, <2>4, IterationTyped
<1>11. \A i \in 1..m : i - 1 \in 0..m
  BY <1>1
<1> QED
  BY <1>9, <1>10, <1>11 DEF f, m, X, s, Go

-----------------------------------------------------------------------------
(* Kahn's loop: its invariant.                                              *)

\* The edges into n that are still counted when the nodes in D have been popped
\* and, of the node c being popped, the edges up to position q.
Open(dag, n, D, c, q) ==
    {i \in 1..Len(dag.edges) : /\ dag.edges[i][2] = n
                               /\ dag.edges[i][1] \notin D
                               /\ ~(dag.edges[i][1] = c /\ i <= q)}

\* The node is in the order.
Listed(s, n) == \E j \in 1..Len(s.order) : s.order[j] = n

\* Every counter is the number of open edges, a node is listed once its counter
\* is zero, and only once; the source of every edge into a listed node is
\* listed before it.
KahnInv(dag, s, D, c, q) ==
    /\ \A d \in D : Listed(s, d)
    /\ \A i, j \in 1..Len(s.order) : s.order[i] = s.order[j] => i = j
    /\ \A n \in Declared(dag) : s.remaining[n] = Cardinality(Open(dag, n, D, c, q))
    /\ \A n \in Declared(dag) : Listed(s, n) <=> s.remaining[n] = 0
    /\ \A j \in 1..Len(s.order), i \in 1..Len(dag.edges) :
          dag.edges[i][2] = s.order[j] =>
              \E l \in 1..Len(s.order) : l < j /\ s.order[l] = dag.edges[i][1]

\* One state's order goes on from another's.
GoesOn(s, s2) ==
    /\ Len(s.order) <= Len(s2.order)
    /\ \A j \in 1..Len(s.order) : s2.order[j] = s.order[j]

LEMMA OpenFinite ==
    ASSUME NEW dag, WellFormed(dag), NEW n, NEW D, NEW c, NEW q
    PROVE  /\ IsFiniteSet(Open(dag, n, D, c, q))
           /\ Cardinality(Open(dag, n, D, c, q)) \in Nat
           /\ Cardinality(Open(dag, n, D, c, q)) = 0 <=> Open(dag, n, D, c, q) = {}
<1>1. Open(dag, n, D, c, q) \in SUBSET (1..Len(dag.edges)) /\ Len(dag.edges) \in Nat
  BY DagFacts DEF Open
<1>2. IsFiniteSet(1..Len(dag.edges))
  BY <1>1, FS_Interval
<1>3. IsFiniteSet(Open(dag, n, D, c, q))
  BY <1>1, <1>2, FS_Subset
<1> QED
  BY <1>3, FS_CardinalityType, FS_EmptySet

\* Releasing one edge of the node being popped keeps the invariant.
LEMMA EdgeReleased ==
    ASSUME NEW dag, WellFormed(dag), NEW s \in KahnStates(dag), NEW D, NEW c,
           NEW q \in 1..Len(dag.edges), KahnInv(dag, s, D, c, q - 1),
           Listed(s, c), c \notin D, dag.edges[q][1] = c
    PROVE  LET s2 == Release(s, dag.edges[q][2])
           IN  KahnInv(dag, s2, D, c, q) /\ GoesOn(s, s2)
<1> DEFINE n == dag.edges[q][2]
           s2 == Release(s, n)
           V == Declared(dag)
           m == Len(dag.edges)
           N == Len(s.order)
<1>1. n \in V /\ m \in Nat /\ q \in 1..m
  BY DagFacts
<1>2. /\ s.remaining \in [V -> Int] /\ s.order \in Seq(V) /\ N \in Nat
  BY DEF KahnStates
<1>3. /\ s2.remaining = [s.remaining EXCEPT ![n] = s.remaining[n] - 1]
      /\ s2.order = IF s.remaining[n] - 1 = 0 THEN Append(s.order, n) ELSE s.order
  BY DEF Release
<1>4. /\ s2.remaining[n] = s.remaining[n] - 1
      /\ \A v \in V \ {n} : s2.remaining[v] = s.remaining[v]
  BY <1>1, <1>2, <1>3
<1>5. Open(dag, n, D, c, q) = Open(dag, n, D, c, q - 1) \ {q} /\ q \in Open(dag, n, D, c, q - 1)
  BY <1>1 DEF Open
<1>6. \A v \in V \ {n} : Open(dag, v, D, c, q) = Open(dag, v, D, c, q - 1)
  BY <1>1 DEF Open
<1>7. Cardinality(Open(dag, n, D, c, q)) = Cardinality(Open(dag, n, D, c, q - 1)) - 1
  <2> DEFINE A == Open(dag, n, D, c, q - 1)
  <2>1. IsFiniteSet(A) /\ Cardinality(A) \in Nat
    BY OpenFinite
  <2>2. q \in A /\ Open(dag, n, D, c, q) = A \ {q}
    BY <1>5
  <2>3. Cardinality(A \ {q}) = Cardinality(A) - 1
    <3> HIDE DEF A
    <3>1. IsFiniteSet(A \ {q}) /\ Cardinality(A \ {q}) = IF q \in A THEN Cardinality(A) - 1 ELSE Cardinality(A)
      BY <2>1, FS_RemoveElement
    <3> QED
      BY <2>2, <3>1
  <2> QED
    BY <2>2, <2>3
<1>8. \A v \in V : s2.remaining[v] = Cardinality(Open(dag, v, D, c, q))
  BY <1>1, <1>4, <1>6, <1>7 DEF KahnInv
<1>9. s.remaining[n] # 0 /\ s.remaining[n] \in Int /\ ~Listed(s, n)
  BY <1>1, <1>2, <1>5, OpenFinite DEF KahnInv
<1> HIDE DEF s2, n, V, m, N
<1>10. CASE s.remaining[n] - 1 = 0
  <2>1. s2.order = Append(s.order, n)
    BY <1>3, <1>10
  <2>2. /\ Len(s2.order) = N + 1 /\ s2.order[N + 1] = n
        /\ \A j \in 1..N : s2.order[j] = s.order[j]
    BY <1>1, <1>2, <2>1 DEF N
  <2>3. \A j \in 1..(N + 1) : j \in 1..N \/ j = N + 1
    BY <1>2
  <2>4. \A j \in 1..N : j \in 1..Len(s2.order) /\ j < N + 1
    BY <1>2, <2>2
  <2>5. N + 1 \in 1..Len(s2.order)
    BY <1>2, <2>2
  <2>6. \A v : Listed(s2, v) <=> Listed(s, v) \/ v = n
    BY <2>2, <2>3, <2>4, <2>5 DEF Listed, N
  <2>7. \A i, j \in 1..Len(s2.order) : s2.order[i] = s2.order[j] => i = j
    <3>1. \A j \in 1..N : s2.order[j] # n
      BY <1>9, <2>2 DEF Listed, N
    <3>2. \A i, j \in 1..N : s2.order[i] = s2.order[j] => i = j
      BY <2>2 DEF KahnInv, N
    <3> QED
      BY <2>2, <2>3, <3>1, <3>2
  <2>8. \A v \in V : Listed(s2, v) <=> s2.remaining[v] = 0
    BY <1>1, <1>4, <1>10, <2>6 DEF KahnInv, V
  <2>9. ASSUME NEW j \in 1..Len(s2.order), NEW i \in 1..m, dag.edges[i][2] = s2.order[j]
        PROVE  \E l \in 1..Len(s2.order) : l < j /\ s2.order[l] = dag.edges[i][1]
    <3>1. CASE j \in 1..N
      <4>1. PICK l \in 1..N : l < j /\ s.order[l] = dag.edges[i][1]
        <5>1. dag.edges[i][2] = s.order[j]
          BY <2>2, <2>9, <3>1
        <5> QED
          BY <3>1, <5>1 DEF KahnInv, N, m
      <4> QED
        BY <2>2, <2>4, <4>1
    <3>2. CASE j = N + 1
      <4>1. Open(dag, n, D, c, q) = {}
        BY <1>1, <1>4, <1>8, <1>10, OpenFinite
      <4>2. dag.edges[i][1] \in D \/ dag.edges[i][1] = c
        BY <2>2, <2>9, <3>2, <4>1 DEF Open, m
      <4>3. Listed(s, dag.edges[i][1])
        BY <4>2 DEF KahnInv
      <4>4. PICK l \in 1..N : s.order[l] = dag.edges[i][1]
        BY <4>3 DEF Listed, N
      <4> QED
        BY <2>2, <2>4, <3>2, <4>4
    <3> QED
      BY <2>2, <2>3, <3>1, <3>2
  <2>10. \A d \in D : Listed(s2, d)
    BY <2>6 DEF KahnInv
  <2>11. GoesOn(s, s2)
    BY <1>2, <2>2 DEF GoesOn, N
  <2> QED
    BY <1>8, <2>7, <2>8, <2>9, <2>10, <2>11 DEF KahnInv, V, m, s2, n
<1>11. CASE s.remaining[n] - 1 # 0
  <2>1. s2.order = s.order
    BY <1>3, <1>11
  <2>2. \A v \in V : Listed(s2, v) <=> s2.remaining[v] = 0
    BY <1>1, <1>4, <1>9, <1>11, <2>1, SMTT(20) DEF KahnInv, Listed, V
  <2>3. GoesOn(s, s2)
    BY <1>2, <2>1 DEF GoesOn, N
  <2>4. KahnInv(dag, s2, D, c, q)
    BY <1>8, <2>1, <2>2 DEF KahnInv, Listed, V
  <2> QED
    BY <2>3, <2>4 DEF s2, n
<1> QED
  BY <1>10, <1>11

\* So does passing an edge of another node.
LEMMA EdgePassed ==
    ASSUME NEW dag, WellFormed(dag), NEW s \in KahnStates(dag), NEW D, NEW c,
           NEW q \in 1..Len(dag.edges), KahnInv(dag, s, D, c, q - 1), dag.edges[q][1] # c
    PROVE  KahnInv(dag, s, D, c, q)
<1>1. Len(dag.edges) \in Nat
  BY DagFacts
<1>2. \A v : Open(dag, v, D, c, q) = Open(dag, v, D, c, q - 1)
  BY <1>1 DEF Open
<1> QED
  BY <1>2 DEF KahnInv

\* All the edges of a node: it has then been popped.
LEMMA NodePopped ==
    ASSUME NEW dag, WellFormed(dag), NEW s \in KahnStates(dag), NEW D, NEW c, NEW c2,
           KahnInv(dag, s, D, c, 0), Listed(s, c), c \notin D
    PROVE  LET s2 == ReleaseUpTo(dag, s, c)[Len(dag.edges)]
           IN  KahnInv(dag, s2, D \cup {c}, c2, 0) /\ GoesOn(s, s2)
<1> DEFINE m == Len(dag.edges)
           f == ReleaseUpTo(dag, s, c)
           P == {i \in 0..m : KahnInv(dag, f[i], D, c, i) /\ GoesOn(s, f[i])}
<1>0. m \in Nat
  BY DagFacts
<1>1. /\ f[0] = s
      /\ \A i \in 1..m : /\ f[i - 1] \in KahnStates(dag) /\ f[i] \in KahnStates(dag)
                         /\ f[i] = IF dag.edges[i][1] = c THEN Release(f[i - 1], dag.edges[i][2])
                                   ELSE f[i - 1]
  BY ReleaseSteps
<1> HIDE DEF f
<1>2. 0 \in P
  <2>1. GoesOn(s, s)
    BY DEF GoesOn, KahnStates
  <2> QED
    BY <1>0, <1>1, <2>1
<1>3. ASSUME NEW i \in 0..(m - 1), i \in P PROVE i + 1 \in P
  <2>1. i + 1 \in 1..m /\ (i + 1) - 1 = i /\ i + 1 \in 0..m
    BY <1>0
  <2>2. KahnInv(dag, f[i], D, c, (i + 1) - 1) /\ GoesOn(s, f[i]) /\ f[i] \in KahnStates(dag)
    <3>1. f[(i + 1) - 1] \in KahnStates(dag)
      BY <1>1, <2>1
    <3> QED
      BY <1>3, <2>1, <3>1
  <2>3. Listed(f[i], c)
    <3>1. PICK j \in 1..Len(s.order) : s.order[j] = c
      BY DEF Listed
    <3>2. Len(s.order) \in Nat /\ Len(f[i].order) \in Nat
      BY <2>2, SMTT(20) DEF KahnStates
    <3>3. j \in 1..Len(f[i].order) /\ f[i].order[j] = c
      BY <2>2, <3>1, <3>2 DEF GoesOn
    <3> QED
      BY <3>3 DEF Listed
  <2>4. CASE dag.edges[i + 1][1] = c
    <3>1. f[i + 1] = Release(f[i], dag.edges[i + 1][2])
      BY <1>1, <2>1, <2>4
    <3>2. /\ KahnInv(dag, Release(f[i], dag.edges[i + 1][2]), D, c, i + 1)
          /\ GoesOn(f[i], Release(f[i], dag.edges[i + 1][2]))
      BY <2>1, <2>2, <2>3, <2>4, EdgeReleased
    <3>3. GoesOn(s, f[i + 1])
      <4>1. /\ Len(s.order) \in Nat /\ Len(f[i].order) \in Nat
            /\ Len(f[i + 1].order) \in Nat
        BY <1>1, <2>1, <2>2 DEF KahnStates
      <4> QED
        BY <2>2, <3>1, <3>2, <4>1 DEF GoesOn
    <3> QED
      BY <2>1, <3>1, <3>2, <3>3
  <2>5. CASE dag.edges[i + 1][1] # c
    <3>1. f[i + 1] = f[i]
      BY <1>1, <2>1, <2>5
    <3>2. KahnInv(dag, f[i], D, c, i + 1)
      BY <2>1, <2>2, <2>5, EdgePassed
    <3> QED
      BY <2>1, <2>2, <3>1, <3>2
  <2> QED
    BY <2>4, <2>5
<1>4. m \in P
  <2>1. 0..m \subseteq P
    <3> HIDE DEF P, m
    <3> QED
      BY <1>0, <1>2, <1>3, Up
  <2> QED
    BY <1>0, <2>1
<1>5. KahnInv(dag, f[m], D, c, m) /\ GoesOn(s, f[m])
  BY <1>4
<1>6. \A v : Open(dag, v, D \cup {c}, c2, 0) = Open(dag, v, D, c, m)
  BY <1>0 DEF Open
<1>7. Listed(f[m], c)
  <2>1. PICK j \in 1..Len(s.order) : s.order[j] = c
    BY DEF Listed
  <2>2. Len(s.order) \in Nat /\ Len(f[m].order) \in Nat
    <3>1. m = 0 \/ m \in 1..m
      BY <1>0
    <3>2. f[m] \in KahnStates(dag)
      BY <1>1, <3>1
    <3>3. \A x \in KahnStates(dag) : Len(x.order) \in Nat
      BY DEF KahnStates
    <3> HIDE DEF m
    <3> QED
      BY <3>2, <3>3
  <2>3. j \in 1..Len(f[m].order) /\ f[m].order[j] = c
    BY <1>5, <2>1, <2>2 DEF GoesOn
  <2> QED
    BY <2>3 DEF Listed
<1>8. KahnInv(dag, f[m], D \cup {c}, c2, 0)
  <2> DEFINE s2 == f[m]
  <2> HIDE DEF s2
  <2>1. KahnInv(dag, s2, D, c, m) /\ Listed(s2, c)
    BY <1>5, <1>7 DEF s2
  <2>2. \A d \in D \cup {c} : Listed(s2, d)
    BY <2>1 DEF KahnInv
  <2>3. \A n \in Declared(dag) :
            s2.remaining[n] = Cardinality(Open(dag, n, D \cup {c}, c2, 0))
    <3> TAKE n \in Declared(dag)
    <3>1. s2.remaining[n] = Cardinality(Open(dag, n, D, c, m))
      BY <2>1 DEF KahnInv
    <3>2. Open(dag, n, D \cup {c}, c2, 0) = Open(dag, n, D, c, m)
      BY <1>6
    <3> QED
      BY <3>1, <3>2, Zenon
  <2>4. KahnInv(dag, s2, D \cup {c}, c2, 0)
    BY <2>1, <2>2, <2>3 DEF KahnInv
  <2> QED
    BY <2>4 DEF s2
<1> QED
  BY <1>5, <1>8 DEF f

-----------------------------------------------------------------------------
(* The passes of the loop.                                                  *)

\* What the first p pops have taken from the order.
Popped(s, p) == {s.order[j] : j \in {i \in 1..Len(s.order) : i <= p}}

\* The invariant when p passes are over: c is nobody's id.
PassInv(dag, s, p, c) == s \in KahnStates(dag) /\ KahnInv(dag, s, Popped(s, p), c, 0)

\* With nothing popped, every edge is open: the counters are the in-degrees.
LEMMA StartInv ==
    ASSUME NEW dag, WellFormed(dag), NEW c
    PROVE  PassInv(dag, KahnStart(dag), 0, c)
<1> DEFINE s == KahnStart(dag)
           V == Declared(dag)
           k == Among(dag.nodes, StartNodes(dag))
<1>1. s \in KahnStates(dag)
  BY StartTyped
<1>2. s.remaining = InDegree(dag) /\ s.order = k
  BY DEF KahnStart
<1>3. Popped(s, 0) = {}
  <2>1. Len(s.order) \in Nat
    BY <1>1 DEF KahnStates
  <2> QED
    BY <2>1 DEF Popped
<1>4. \A n : Open(dag, n, {}, c, 0) = {i \in DOMAIN dag.edges : dag.edges[i][2] = n}
  BY DagFacts DEF Open
<1>5. \A n \in V : s.remaining[n] = Cardinality(Open(dag, n, {}, c, 0))
  BY <1>2, <1>4 DEF InDegree
<1>6. dag.nodes \in Seq(V) /\ Len(dag.nodes) \in Nat
  BY DagFacts
<1>7. PICK src : KeptFrom(dag.nodes, StartNodes(dag), Len(dag.nodes), k, src)
  BY <1>6, AmongKept
<1>8. /\ k \in Seq(StartNodes(dag)) /\ Len(k) \in Nat
      /\ src \in [1..Len(k) -> 1..Len(dag.nodes)]
      /\ \A x \in 1..Len(k) : k[x] = dag.nodes[src[x]]
      /\ \A x, y \in 1..Len(k) : x < y => src[x] < src[y]
      /\ \A j \in 1..Len(dag.nodes) :
            dag.nodes[j] \in StartNodes(dag) => \E x \in 1..Len(k) : src[x] = j
  <2> HIDE DEF k
  <2>1. k \in Seq(StartNodes(dag))
    BY <1>7 DEF KeptFrom
  <2> QED
    BY <1>7, <2>1 DEF KeptFrom
<1>9. \A i, j \in 1..Len(k) : k[i] = k[j] => i = j
  <2>1. \A i, j \in 1..Len(dag.nodes) : dag.nodes[i] = dag.nodes[j] => i = j
    BY <1>6 DEF WellFormed, IsInjective
  <2>2. \A i, j \in 1..Len(k) : src[i] = src[j] => i = j
    BY <1>6, <1>8
  <2> QED
    BY <1>8, <2>1, <2>2, SMTT(20)
<1>10. \A n : (\E j \in 1..Len(k) : k[j] = n) <=> n \in StartNodes(dag)
  <2> TAKE n
  <2>1. ASSUME NEW j \in 1..Len(k), k[j] = n PROVE n \in StartNodes(dag)
    BY <1>8, <2>1
  <2>2. ASSUME n \in StartNodes(dag) PROVE \E j \in 1..Len(k) : k[j] = n
    <3>1. n \in ToSet(dag.nodes)
      BY <2>2 DEF StartNodes, Declared
    <3>2. PICK i \in 1..Len(dag.nodes) : dag.nodes[i] = n
      BY <1>6, <3>1 DEF ToSet
    <3> QED
      BY <1>8, <2>2, <3>2
  <2> QED
    BY <2>1, <2>2
<1>11. \A n \in V : Listed(s, n) <=> s.remaining[n] = 0
  BY <1>2, <1>10 DEF Listed, StartNodes
<1>12. \A j \in 1..Len(k), i \in 1..Len(dag.edges) : dag.edges[i][2] # k[j]
  <2> TAKE j \in 1..Len(k), i \in 1..Len(dag.edges)
  <2>1. k[j] \in V /\ s.remaining[k[j]] = 0
    BY <1>2, <1>10 DEF StartNodes
  <2>2. Open(dag, k[j], {}, c, 0) = {}
    BY <1>5, <2>1, OpenFinite
  <2> QED
    BY <1>4, <2>2, DagFacts
<1> HIDE DEF s, k
<1>13. KahnInv(dag, s, {}, c, 0)
  BY <1>2, <1>5, <1>9, <1>11, <1>12 DEF KahnInv
<1> QED
  BY <1>1, <1>3, <1>13 DEF PassInv, s

\* A pass pops the next node of the queue, and every earlier pop stays one.
LEMMA PassKept ==
    ASSUME NEW dag, WellFormed(dag), NEW s, NEW p \in Nat, NEW c, PassInv(dag, s, p, c)
    PROVE  PassInv(dag, KahnStep(dag, s, p + 1), p + 1, c)
<1> DEFINE s2 == KahnStep(dag, s, p + 1)
           N == Len(s.order)
           D == Popped(s, p)
<1>1. s \in KahnStates(dag) /\ KahnInv(dag, s, D, c, 0) /\ s2 \in KahnStates(dag)
  BY KahnStepTyped DEF PassInv
<1>2. N \in Nat /\ Len(s2.order) \in Nat
  <2>1. \A x \in KahnStates(dag) : Len(x.order) \in Nat
    BY DEF KahnStates
  <2> HIDE DEF s2
  <2> QED
    BY <1>1, <2>1
<1>3. CASE p + 1 > N
  <2>1. s2 = s
    BY <1>3 DEF KahnStep
  <2>2. \A i \in 1..N : i <= p /\ i <= p + 1
    BY <1>2, <1>3
  <2>3. Popped(s, p + 1) = Popped(s, p)
    BY <2>2 DEF Popped
  <2> QED
    BY <1>1, <2>1, <2>3 DEF PassInv
<1>4. CASE p + 1 <= N
  <2> DEFINE d == s.order[p + 1]
  <2>1. p + 1 \in 1..N /\ ~(p + 1 > N)
    BY <1>2, <1>4
  <2>2. s2 = ReleaseUpTo(dag, s, d)[Len(dag.edges)]
    BY <2>1 DEF KahnStep
  <2>3. Listed(s, d)
    BY <2>1 DEF Listed
  <2>4. d \notin D
    <3>1. \A i, j \in 1..N : s.order[i] = s.order[j] => i = j
      BY <1>1 DEF KahnInv
    <3> QED
      BY <2>1, <3>1 DEF Popped
  <2>5. \A v : Open(dag, v, D, d, 0) = Open(dag, v, D, c, 0)
    BY DagFacts DEF Open
  <2>6. KahnInv(dag, s, D, d, 0)
    <3> HIDE DEF D, d
    <3>1. \A n \in Declared(dag) : s.remaining[n] = Cardinality(Open(dag, n, D, d, 0))
      <4> TAKE n \in Declared(dag)
      <4>1. s.remaining[n] = Cardinality(Open(dag, n, D, c, 0))
        BY <1>1 DEF KahnInv
      <4> QED
        BY <2>5, <4>1, Zenon
    <3> QED
      BY <1>1, <3>1 DEF KahnInv
  <2>7. KahnInv(dag, s2, D \cup {d}, c, 0) /\ GoesOn(s, s2)
    <3> HIDE DEF D, d, s2
    <3> QED
      BY <1>1, <2>2, <2>3, <2>4, <2>6, NodePopped
  <2>8. Popped(s2, p + 1) = D \cup {d}
    <3> HIDE DEF s2
    <3>1. \A j \in 1..N : s2.order[j] = s.order[j] /\ j \in 1..Len(s2.order)
      BY <1>2, <2>7 DEF GoesOn
    <3>2. \A j \in 1..Len(s2.order) : j <= p + 1 => j \in 1..N /\ (j <= p \/ j = p + 1)
      BY <1>2, <2>1
    <3>3. ASSUME NEW x \in Popped(s2, p + 1) PROVE x \in D \cup {d}
      <4>1. PICK j \in 1..Len(s2.order) : j <= p + 1 /\ x = s2.order[j]
        BY <3>3 DEF Popped
      <4>2. j \in 1..N /\ x = s.order[j] /\ (j <= p \/ j = p + 1)
        BY <3>1, <3>2, <4>1
      <4> QED
        BY <4>2 DEF Popped
    <3>4. ASSUME NEW x \in D \cup {d} PROVE x \in Popped(s2, p + 1)
      <4>1. PICK j \in 1..N : j <= p + 1 /\ x = s.order[j]
        <5>1. CASE x \in D
          <6>1. PICK j \in 1..N : j <= p /\ x = s.order[j]
            BY <5>1 DEF Popped
          <6> QED
            BY <6>1
        <5>2. CASE x = d
          BY <2>1, <5>2
        <5> QED
          BY <3>4, <5>1, <5>2
      <4> QED
        BY <3>1, <4>1 DEF Popped
    <3> QED
      BY <3>3, <3>4
  <2> QED
    BY <1>1, <2>7, <2>8 DEF PassInv
<1> QED
  BY <1>2, <1>3, <1>4

\* What the loop has found when it stops: no node twice, every source before
\* its target, and every node that is missing waits for one that is missing.
LEMMA OrderFound ==
    ASSUME NEW dag, WellFormed(dag)
    PROVE  LET o == TopologicalOrder(dag)
               V == Declared(dag)
           IN  /\ o \in Seq(V) /\ Len(o) <= Cardinality(V)
               /\ \A i, j \in 1..Len(o) : o[i] = o[j] => i = j
               /\ Len(o) = Cardinality(V) <=> \A v \in V : \E j \in 1..Len(o) : o[j] = v
               /\ \A j \in 1..Len(o), i \in 1..Len(dag.edges) : dag.edges[i][2] = o[j] =>
                     \E l \in 1..Len(o) : l < j /\ o[l] = dag.edges[i][1]
               /\ \A v \in V : (\A j \in 1..Len(o) : o[j] # v) =>
                     \E i \in 1..Len(dag.edges) :
                         /\ dag.edges[i][2] = v
                         /\ \A j \in 1..Len(o) : o[j] # dag.edges[i][1]
<1> DEFINE V == Declared(dag)
           N == Cardinality(V)
           f == KahnPasses(dag)
           c == {}
           P == {i \in 0..N : PassInv(dag, f[i], i, c)}
<1>1. IsFiniteSet(V) /\ N \in Nat
  BY DagFacts
<1>2. /\ f[0] = KahnStart(dag)
      /\ \A i \in 1..N : f[i - 1] \in KahnStates(dag) /\ f[i] = KahnStep(dag, f[i - 1], i)
  BY PassSteps
<1> HIDE DEF f, c, N
<1>3. 0 \in P
  BY <1>1, <1>2, StartInv
<1>4. ASSUME NEW i \in 0..(N - 1), i \in P PROVE i + 1 \in P
  <2>1. i \in Nat /\ i + 1 \in 1..N /\ i + 1 \in 0..N /\ (i + 1) - 1 = i
    BY <1>1
  <2>2. PassInv(dag, f[i], i, c)
    BY <1>4
  <2>3. f[i + 1] = KahnStep(dag, f[i], i + 1)
    BY <1>2, <2>1
  <2>4. PassInv(dag, KahnStep(dag, f[i], i + 1), i + 1, c)
    BY <2>1, <2>2, PassKept
  <2> QED
    BY <2>1, <2>3, <2>4
<1>5. N \in P
  <2>1. 0..N \subseteq P
    <3> HIDE DEF P
    <3> QED
      BY <1>1, <1>3, <1>4, Up
  <2> QED
    BY <1>1, <2>1
<1> DEFINE s == f[N]
           o == s.order
<1>6. PassInv(dag, s, N, c)
  BY <1>5
<1> HIDE DEF s
<1>7. o = TopologicalOrder(dag)
  BY DEF TopologicalOrder, s, f, N
<1>8. o \in Seq(V) /\ Len(o) \in Nat /\ o \in [1..Len(o) -> V]
  <2>1. s \in KahnStates(dag)
    BY <1>6 DEF PassInv
  <2>2. o \in Seq(V)
    BY <2>1 DEF KahnStates
  <2> HIDE DEF o
  <2> QED
    BY <2>2
<1>9. KahnInv(dag, s, Popped(s, N), c, 0)
  BY <1>6 DEF PassInv
<1>10. \A i, j \in 1..Len(o) : o[i] = o[j] => i = j
  BY <1>9 DEF KahnInv
<1>11. \A j \in 1..Len(o), i \in 1..Len(dag.edges) : dag.edges[i][2] = o[j] =>
           \E l \in 1..Len(o) : l < j /\ o[l] = dag.edges[i][1]
  BY <1>9 DEF KahnInv
<1>12. Len(o) <= N /\ (Len(o) = N <=> \A v \in V : \E j \in 1..Len(o) : o[j] = v)
  <2> HIDE DEF o, V
  <2>1. o \in Injection(1..Len(o), V)
    BY <1>8, <1>10 DEF Injection, IsInjective
  <2>2. /\ Cardinality(1..Len(o)) <= Cardinality(V)
        /\ Cardinality(1..Len(o)) = Cardinality(V) <=> o \in Surjection(1..Len(o), V)
    BY <1>1, <2>1, FS_Injection
  <2>3. Cardinality(1..Len(o)) = Len(o)
    <3>1. Cardinality(1..Len(o)) = IF 1 > Len(o) THEN 0 ELSE Len(o) - 1 + 1
      BY <1>8, FS_Interval, SMTT(20)
    <3> QED
      BY <1>8, <3>1
  <2>4. o \in Surjection(1..Len(o), V) <=> \A v \in V : \E j \in 1..Len(o) : o[j] = v
    BY <1>8 DEF Surjection
  <2> QED
    BY <2>2, <2>3, <2>4 DEF N
<1>13. ASSUME NEW v \in V, \A j \in 1..Len(o) : o[j] # v
       PROVE  \E i \in 1..Len(dag.edges) :
                 dag.edges[i][2] = v /\ \A j \in 1..Len(o) : o[j] # dag.edges[i][1]
  <2>1. ~Listed(s, v)
    BY <1>13 DEF Listed
  <2>2. s.remaining[v] # 0 /\ s.remaining[v] = Cardinality(Open(dag, v, Popped(s, N), c, 0))
    BY <1>9, <2>1 DEF KahnInv
  <2>3. Open(dag, v, Popped(s, N), c, 0) # {}
    BY <2>2, OpenFinite
  <2>4. PICK i \in 1..Len(dag.edges) : dag.edges[i][2] = v /\ dag.edges[i][1] \notin Popped(s, N)
    BY <2>3 DEF Open
  <2>5. \A j \in 1..Len(o) : j <= N
    BY <1>1, <1>8, <1>12
  <2>6. \A j \in 1..Len(o) : o[j] # dag.edges[i][1]
    BY <2>4, <2>5 DEF Popped
  <2> QED
    BY <2>4, <2>6
<1> HIDE DEF o
<1>14. \A v \in V : (\A j \in 1..Len(o) : o[j] # v) =>
           \E i \in 1..Len(dag.edges) :
               dag.edges[i][2] = v /\ \A j \in 1..Len(o) : o[j] # dag.edges[i][1]
  BY <1>13
<1> QED
  BY <1>7, <1>8, <1>10, <1>11, <1>12, <1>14 DEF N

\* Kahn's algorithm (validation.rs, the loop over the queue and the comparison
\* of the count of sorted nodes with the number of nodes) lists every node
\* exactly when the dag has no cycle, and what it then lists is a topological
\* order. This is what validate_dag's TASK_DAG_CYCLE answer rests on.
THEOREM KahnExact ==
    ASSUME NEW dag, WellFormed(dag)
    PROVE  /\ Len(TopologicalOrder(dag)) = Cardinality(Declared(dag)) <=> ~Cyclic(dag)
           /\ ~Cyclic(dag) => Topological(dag, TopologicalOrder(dag))
<1> DEFINE o == TopologicalOrder(dag)
           V == Declared(dag)
           m == Len(dag.edges)
           Full == \A v \in V : \E j \in 1..Len(o) : o[j] = v
<1>1. /\ o \in Seq(V) /\ \A i, j \in 1..Len(o) : o[i] = o[j] => i = j
      /\ Len(o) = Cardinality(V) <=> Full
      /\ \A j \in 1..Len(o), i \in 1..m : dag.edges[i][2] = o[j] =>
            \E l \in 1..Len(o) : l < j /\ o[l] = dag.edges[i][1]
      /\ \A v \in V : (\A j \in 1..Len(o) : o[j] # v) =>
            \E i \in 1..m : dag.edges[i][2] = v /\ \A j \in 1..Len(o) : o[j] # dag.edges[i][1]
  BY OrderFound
<1>2. /\ m \in Nat /\ DOMAIN dag.edges = 1..m
      /\ \A i \in 1..m : dag.edges[i][1] \in V /\ dag.edges[i][2] \in V
  BY DagFacts
<1>3. Edges(dag) = {dag.edges[i] : i \in 1..m}
  BY <1>2 DEF Edges, ToSet
<1> HIDE DEF o, V, m
<1>4. Len(o) \in Nat /\ DOMAIN o = 1..Len(o) /\ \A j \in 1..Len(o) : o[j] \in V
  BY <1>1
<1>5. ASSUME Full, Cyclic(dag) PROVE FALSE
  <2>1. PICK S \in (SUBSET V) \ {{}} :
            \A n \in S : \E e \in Edges(dag) : e[2] = n /\ e[1] \in S
    BY <1>5 DEF Cyclic, V
  <2> DEFINE J == {j \in 1..Len(o) : o[j] \in S}
  <2>2. J \subseteq Nat /\ J # {}
    BY <1>5, <2>1
  <2> HIDE DEF J
  <2>3. PICK j \in J : \A k \in J : j <= k
    BY <2>2, Least
  <2>4. j \in 1..Len(o) /\ o[j] \in S
    BY DEF J
  <2>5. PICK i \in 1..m : dag.edges[i][2] = o[j] /\ dag.edges[i][1] \in S
    BY <1>3, <2>1, <2>4
  <2>6. PICK l \in 1..Len(o) : l < j /\ o[l] = dag.edges[i][1]
    BY <1>1, <2>4, <2>5
  <2>7. l \in J
    BY <2>5, <2>6 DEF J
  <2>8. j <= l
    BY <2>3, <2>7
  <2> QED
    BY <1>4, <2>4, <2>6, <2>8
<1>6. ASSUME ~Full PROVE Cyclic(dag)
  <2> DEFINE S == {v \in V : \A j \in 1..Len(o) : o[j] # v}
  <2>1. S \in (SUBSET V) \ {{}}
    BY <1>6
  <2>2. ASSUME NEW n \in S PROVE \E e \in Edges(dag) : e[2] = n /\ e[1] \in S
    <3>1. PICK i \in 1..m : dag.edges[i][2] = n /\ \A j \in 1..Len(o) : o[j] # dag.edges[i][1]
      BY <1>1, <2>2
    <3>2. dag.edges[i] \in Edges(dag) /\ dag.edges[i][1] \in S
      BY <1>2, <1>3, <3>1
    <3> QED
      BY <3>1, <3>2
  <2> HIDE DEF S
  <2> QED
    BY <2>1, <2>2 DEF Cyclic, V
<1>7. ASSUME Full PROVE Topological(dag, o)
  <2>1. ToSet(o) = V
    BY <1>4, <1>7 DEF ToSet
  <2>2. IsInjective(o)
    BY <1>1, <1>4 DEF IsInjective
  <2>3. ASSUME NEW i \in 1..Len(o), NEW j \in 1..Len(o), <<o[i], o[j]>> \in Edges(dag)
        PROVE  i < j
    <3>1. PICK k \in 1..m : dag.edges[k] = <<o[i], o[j]>>
      BY <1>3, <2>3
    <3>2. dag.edges[k][1] = o[i] /\ dag.edges[k][2] = o[j]
      BY <3>1
    <3>3. PICK l \in 1..Len(o) : l < j /\ o[l] = o[i]
      BY <1>1, <3>2
    <3> QED
      BY <1>1, <3>3
  <2> QED
    BY <1>4, <2>1, <2>2, <2>3 DEF Topological, V
<1>8. Full <=> ~Cyclic(dag)
  BY <1>5, <1>6
<1> HIDE DEF Full
<1> QED
  BY <1>1, <1>7, <1>8 DEF o, V

\* The node ids are distinct exactly when there are as many as positions.
LEMMA DistinctIds ==
    ASSUME NEW dag, IsDag(dag)
    PROVE  Cardinality(Declared(dag)) = Len(dag.nodes) <=> IsInjective(dag.nodes)
<1> DEFINE n == Len(dag.nodes)
           V == Declared(dag)
           f == dag.nodes
<1>1. f \in Seq(NodeIds) /\ n \in Nat /\ DOMAIN f = 1..n
  BY DEF IsDag
<1>2. f \in [1..n -> V] /\ \A v \in V : \E i \in 1..n : f[i] = v
  BY <1>1 DEF Declared, ToSet
<1> HIDE DEF n, V, f
<1>3. f \in Surjection(1..n, V)
  BY <1>2 DEF Surjection
<1>4. IsFiniteSet(1..n) /\ Cardinality(1..n) = n
  <2>1. IsFiniteSet(1..n) /\ Cardinality(1..n) = IF 1 > n THEN 0 ELSE n - 1 + 1
    BY <1>1, FS_Interval
  <2> QED
    BY <1>1, <2>1
<1>5. Cardinality(V) = n <=> f \in Injection(1..n, V)
  BY <1>3, <1>4, FS_Surjection
<1>6. f \in Injection(1..n, V) <=> IsInjective(f)
  BY <1>2 DEF Injection
<1> QED
  BY <1>5, <1>6 DEF n, V, f

\* An acyclic dag has a node without an edge in and one without an edge out.
LEMMA EndsExist ==
    ASSUME NEW dag, WellFormed(dag), ~Cyclic(dag), dag.nodes # << >>
    PROVE  StartNodes(dag) # {} /\ EndNodes(dag) # {}
<1> DEFINE o == TopologicalOrder(dag)
           V == Declared(dag)
<1>1. /\ V # {} /\ IsFiniteSet(V) /\ DOMAIN dag.edges = 1..Len(dag.edges)
      /\ \A i \in 1..Len(dag.edges) : dag.edges[i][1] \in V /\ dag.edges[i][2] \in V
  <2>1. dag.nodes \in Seq(V)
    BY DagFacts
  <2>2. 1 \in DOMAIN dag.nodes
    BY <2>1
  <2>3. V # {}
    BY <2>2 DEF Declared, ToSet
  <2> QED
    BY <2>3, DagFacts
<1>2. Edges(dag) = {dag.edges[i] : i \in 1..Len(dag.edges)}
  BY <1>1 DEF Edges, ToSet
<1>3. StartNodes(dag) # {}
  <2> SUFFICES ASSUME StartNodes(dag) = {} PROVE FALSE
    OBVIOUS
  <2>1. ASSUME NEW n \in V PROVE \E e \in Edges(dag) : e[2] = n /\ e[1] \in V
    <3> DEFINE A == {i \in DOMAIN dag.edges : dag.edges[i][2] = n}
    <3>1. InDegree(dag)[n] = Cardinality(A) /\ InDegree(dag)[n] # 0
      BY <2>1 DEF InDegree, StartNodes
    <3>2. A # {}
      <4> HIDE DEF A
      <4> QED
        BY <3>1, FS_EmptySet
    <3>3. PICK i \in 1..Len(dag.edges) : dag.edges[i][2] = n
      BY <1>1, <3>2
    <3> QED
      BY <1>1, <1>2, <3>3
  <2>2. V \in (SUBSET V) \ {{}}
    BY <1>1
  <2> HIDE DEF V
  <2> QED
    BY <2>1, <2>2 DEF Cyclic, V
<1>4. EndNodes(dag) # {}
  <2>1. Topological(dag, o) /\ o \in Seq(V)
    BY KahnExact, OrderFound
  <2> HIDE DEF o
  <2>2. Len(o) \in Nat /\ DOMAIN o = 1..Len(o) /\ Len(o) # 0
    <3>1. Len(o) \in Nat /\ DOMAIN o = 1..Len(o)
      BY <2>1
    <3>2. ToSet(o) = V
      BY <2>1 DEF Topological
    <3> QED
      BY <1>1, <3>1, <3>2 DEF ToSet
  <2> DEFINE n == o[Len(o)]
  <2>3. Len(o) \in 1..Len(o) /\ n \in V
    BY <2>1, <2>2
  <2>4. ASSUME NEW e \in Edges(dag), e[1] = n PROVE FALSE
    <3>1. PICK i \in 1..Len(dag.edges) : dag.edges[i] = e
      BY <1>2, <2>4
    <3>2. e[2] \in ToSet(o)
      BY <1>1, <2>1, <3>1 DEF Topological
    <3>3. PICK j \in 1..Len(o) : o[j] = e[2]
      BY <2>2, <3>2 DEF ToSet
    <3>4. e = <<o[Len(o)], o[j]>>
      <4>1. dag.edges \in Seq(NodeIds \X NodeIds)
        BY DEF WellFormed, IsDag
      <4>2. e \in NodeIds \X NodeIds
        BY <1>1, <3>1, <4>1
      <4> QED
        BY <2>4, <3>3, <4>2
    <3>5. Len(o) < j
      BY <2>1, <2>2, <2>3, <2>4, <3>3, <3>4 DEF Topological
    <3> QED
      BY <2>2, <3>3, <3>5
  <2> HIDE DEF n
  <2> QED
    BY <2>3, <2>4 DEF EndNodes, V
<1> QED
  BY <1>3, <1>4

\* validate_dag (validation.rs) accepts a task's dag exactly when it has
\* between one and MAX_DAG_NODES nodes with distinct ids, names declared nodes
\* only, has no over-long condition and no cycle; and the order it hands on is
\* then a topological one. In particular its start-node and end-node checks
\* refuse nothing else.
THEOREM ValidateDagExact ==
    ASSUME NEW dag, IsDag(dag)
    PROVE  JudgedExactly(dag, ValidateDag(dag))
<1> DEFINE v == ValidateDag(dag)
           N == Len(dag.nodes)
           Sized == dag.nodes # << >> /\ ~(N > MaxDagNodes)
           Short == dag.longCondition \cap Declared(dag) = {}
           Sorted == Len(TopologicalOrder(dag)) = Cardinality(Declared(dag))
<1>1. v.isValid <=> Sized /\ ~IllFormed(dag) /\ Short /\ Sorted
  BY DEF ValidateDag, Invalid
<1>2. v.isValid => v.order = TopologicalOrder(dag)
  BY DEF ValidateDag, Invalid
<1>3. Sized <=> N \in 1..MaxDagNodes
  <2>1. dag.nodes \in Seq(NodeIds)
    BY DEF IsDag
  <2>2. N \in Nat /\ (N = 0 <=> dag.nodes = << >>)
    BY <2>1
  <2> QED
    BY <2>2, MaxDagNodesAssumption
<1>4. ~IllFormed(dag) => WellFormed(dag)
  BY DistinctIds DEF IllFormed, WellFormed
<1>5. WellFormed(dag) /\ ~Cyclic(dag) /\ Sized => ~IllFormed(dag)
  BY DistinctIds, EndsExist DEF IllFormed, WellFormed
<1>6. WellFormed(dag) => /\ Sorted <=> ~Cyclic(dag)
                         /\ ~Cyclic(dag) => Topological(dag, TopologicalOrder(dag))
  BY KahnExact
<1> HIDE DEF v, Sorted, Short, Sized
<1>7. Sound(dag) <=> Sized /\ WellFormed(dag) /\ Short /\ ~Cyclic(dag)
  BY <1>3 DEF Sound, WellFormed, Short
<1> QED
  BY <1>1, <1>2, <1>4, <1>5, <1>6, <1>7 DEF JudgedExactly, v

-----------------------------------------------------------------------------
(* The inductive invariant, one conjunct per idea.                          *)

Succeeded == {"completed", "skipped"}

\* The run has not entered run_dag yet.
Before == {"start", "save", "begin", "preflight"}

\* run_dag has not decided how it is going to end.
Undecided == Before \cup {"schedule", "wait", "conclude"}

\* Only a validated task gets past the checks, and with a topological order.
Validated(r) ==
    (pc[r] \notin {"start", "done"} \/ topoOrder[r] # << >>) =>
        WellFormed(task) /\ Topological(task, topoOrder[r])

\* Futures are owned by a run that is in its loop or draining; a node with one
\* is declared and has no state yet, and only declared nodes get a state.
Futures(r) ==
    /\ pc[r] \notin {"schedule", "wait", "drain"} =>
          \A n \in NodeIds : stage[r][n] = "idle"
    /\ pc[r] \in Before => \A n \in NodeIds : nodeState[r][n] = "none"
    /\ \A n \in NodeIds :
          /\ stage[r][n] # "idle" => n \in Declared(task) /\ nodeState[r][n] = "none"
          /\ nodeState[r][n] # "none" => n \in Declared(task)

\* The inputs of a node have met its K.
Met(t, st, n) ==
    \/ t.inputFrom[n] = {}
    \/ Cardinality(SucceededDeps(t, st, n)) >= K(t, n)

\* The inputs of a node that has been launched and not failed have met its K,
\* and there are not too many futures.
Launches(r) ==
    /\ Cardinality(InFlight(r)) <= MaxConcurrentNodes
    /\ \A n \in NodeIds :
          stage[r][n] # "idle" \/ nodeState[r][n] \in Succeeded => Met(task, nodeState[r], n)

\* What run_dag has decided, and when.
Decided(r) ==
    /\ pc[r] \in Undecided => verdict[r] = "none" /\ result[r].final = "none"
    /\ pc[r] = "drain" => verdict[r] = "failed" /\ result[r].final = "none"
    /\ pc[r] = "compensate" => verdict[r] # "none" /\ result[r].final = "none"
    /\ pc[r] \in {"finalise", "callback", "done"} => result[r].final # "none"
    /\ result[r].final = "completed" => verdict[r] = "completed"

\* A run fails for an end node that did not succeed.
Fails(r) ==
    verdict[r] = "failed" /\ InputsFollowEdges(task) =>
        \E e \in EndNodes(task) : nodeState[r][e] \notin Succeeded

\* Every compensation of a run, those made and those still to make.
Compensations(done, todo) == [i \in 1..Len(done) |-> done[i].node] \o todo

\* What a saga has to undo.
Todo(r) == Among(CompletedInReverse(r), task.compensable)

\* The saga works through what it has to undo and nothing else.
OnCourse(r) ==
    /\ pc[r] \in Undecided \cup {"drain"} =>
          compensated[r] = << >> /\ toCompensate[r] = << >>
    /\ pc[r] = "compensate" => toCompensate[r] # << >>
    /\ pc[r] \in {"finalise", "callback"} => toCompensate[r] = << >>
    /\ \/ compensated[r] = << >> /\ toCompensate[r] = << >>
       \/ Compensations(compensated[r], toCompensate[r]) = Todo(r)

RunInv(r) ==
    /\ Validated(r)
    /\ Futures(r)
    /\ Launches(r)
    /\ Decided(r)
    /\ Fails(r)
    /\ OnCourse(r)

IndInv == TypeOK /\ \A r \in Runs : RunInv(r)

\* Every node has succeeded, or one has failed.
RanThrough(r) ==
    \/ \E n \in Declared(task) : nodeState[r][n] = "failed"
    \/ \A n \in Declared(task) : nodeState[r][n] \in Succeeded

\* run_dag leaves its loop with work left only when a node has failed.
LoopComplete ==
    \A r \in Runs :
        (pc[r] = "conclude" \/ verdict[r] = "completed") /\ InputsFollowEdges(task)
            => RanThrough(r)

\* The task record, when there is one run: it exists once saved and has the
\* final state of the run unless it was cancelled,
HasRecord(r) ==
    /\ pc[r] \in {"start", "save"} => taskState = "absent"
    /\ pc[r] \notin {"start", "save", "done"} => taskState # "absent"
    /\ pc[r] = "callback" => taskState \in {result[r].final, "cancelled"}
    /\ pc[r] = "done" => taskState \in {result[r].final, "cancelled", "absent"}

\* shows what the run decided, and counts the attempts of its futures.
ShowsNode(r, n) ==
    /\ nodeState[r][n] # "none" => subtask[n].state = nodeState[r][n]
    /\ stage[r][n] = "launched" => subtask[n].attempt = 0
    /\ stage[r][n] \in {"running", "backoff"} => subtask[n].attempt = attempt[r][n]
    /\ pc[r] \in Undecided /\ nodeState[r][n] = "none" /\ stage[r][n] = "idle" =>
          subtask[n].attempt = 0

Recorded == \A r \in Runs : HasRecord(r) /\ \A n \in NodeIds : ShowsNode(r, n)

AtMostOneRun == \A r, q \in Runs : r = q

-----------------------------------------------------------------------------
(* The operators the scheduling is made of.                                 *)

\* The codes a refusal may carry.
RefusalCodes ==
    {"none", "DELEGATE_CHAIN_TOO_DEEP", "TASK_DAG_INVALID", "TASK_DAG_TOO_LARGE",
     "CONDITION_EVAL_ERROR", "TASK_DAG_CYCLE", "TASK_ALREADY_COMPLETED"}

\* What a validation hands to execute().
LEMMA ValidationGives ==
    ASSUME NEW t \in Tasks
    PROVE  /\ RefusalCode(t, ValidateDag(t)) \in RefusalCodes
           /\ RefusalCode(t, ValidateDag(t)) = "none" =>
                 /\ WellFormed(t) /\ Topological(t, ValidateDag(t).order)
                 /\ ValidateDag(t).order \in Seq(NodeIds)
<1> DEFINE v == ValidateDag(t)
<1>1. v.code \in RefusalCodes /\ (v.code = "none" => v.isValid /\ v.order = TopologicalOrder(t))
  BY DEF ValidateDag, Invalid, RefusalCodes
<1>2. IsDag(t)
  BY TasksAssumption
<1>3. JudgedExactly(t, v)
  BY <1>2, ValidateDagExact
<1> HIDE DEF v
<1>4. v.isValid => WellFormed(t) /\ Topological(t, v.order)
  BY <1>2, <1>3 DEF JudgedExactly, Sound, WellFormed
<1>5. WellFormed(t) => TopologicalOrder(t) \in Seq(NodeIds)
  <2> HAVE WellFormed(t)
  <2>1. TopologicalOrder(t) \in Seq(Declared(t))
    BY OrderFound
  <2>2. Declared(t) \subseteq NodeIds
    BY <1>2 DEF IsDag, Declared, ToSet
  <2> QED
    BY <2>1, <2>2
<1>6. /\ RefusalCode(t, v) \in RefusalCodes
      /\ RefusalCode(t, v) = "none" => v.code = "none"
  BY <1>1 DEF RefusalCode, RefusalCodes
<1> QED
  BY <1>1, <1>4, <1>5, <1>6 DEF v

\* The declared nodes of a well-formed task and their inputs.
LEMMA TaskFacts ==
    ASSUME NEW t \in Tasks, WellFormed(t), NEW n \in Declared(t)
    PROVE  /\ n \in NodeIds /\ t.inputFrom[n] \subseteq Declared(t)
           /\ Declared(t) \subseteq NodeIds
           /\ IsFiniteSet(t.inputFrom[n]) /\ Cardinality(t.inputFrom[n]) \in Nat
           /\ K(t, n) \in Nat
<1>1. Declared(t) \subseteq NodeIds
  BY TasksAssumption DEF IsDag, Declared, ToSet
<1>2. t.inputFrom[n] \in SUBSET Declared(t)
  BY DEF WellFormed, ReferencesKnown
<1>3. IsFiniteSet(Declared(t))
  BY DagFacts
<1>4. IsFiniteSet(t.inputFrom[n])
  BY <1>2, <1>3, FS_Subset
<1>5. Cardinality(t.inputFrom[n]) \in Nat
  BY <1>4, FS_CardinalityType
<1>6. t.minRequired[n] \in Nat
  BY <1>1, TasksAssumption
<1> QED
  BY <1>1, <1>2, <1>4, <1>5, <1>6 DEF K

\* Inputs that succeeded and inputs that failed are different inputs.
LEMMA DepsCounted ==
    ASSUME NEW t \in Tasks, WellFormed(t), NEW n \in Declared(t), NEW st
    PROVE  /\ IsFiniteSet(SucceededDeps(t, st, n))
           /\ Cardinality(SucceededDeps(t, st, n)) \in Nat
           /\ Cardinality(FailedDeps(t, st, n)) \in Nat
           /\ Cardinality(SucceededDeps(t, st, n)) + Cardinality(FailedDeps(t, st, n))
                 <= Cardinality(t.inputFrom[n])
<1> DEFINE A == SucceededDeps(t, st, n)
           B == FailedDeps(t, st, n)
           I == t.inputFrom[n]
<1>1. IsFiniteSet(I) /\ Cardinality(I) \in Nat
  BY TaskFacts
<1>2. A \in SUBSET I /\ B \in SUBSET I /\ A \cap B = {} /\ A \cup B \in SUBSET I
  BY DEF SucceededDeps, FailedDeps
<1> HIDE DEF A, B, I
<1>3. IsFiniteSet(A) /\ IsFiniteSet(B)
  BY <1>1, <1>2, FS_Subset
<1>4. Cardinality(A) \in Nat /\ Cardinality(B) \in Nat /\ Cardinality(A \cap B) = 0
  BY <1>2, <1>3, FS_CardinalityType, FS_EmptySet
<1>5. Cardinality(A \cup B) = Cardinality(A) + Cardinality(B) - Cardinality(A \cap B)
  BY <1>3, FS_Union
<1>6. Cardinality(A \cup B) <= Cardinality(I)
  BY <1>1, <1>2, FS_Subset
<1> QED
  BY <1>3, <1>4, <1>5, <1>6 DEF A, B, I

\* K stays met when no success is taken back.
LEMMA MetStays ==
    ASSUME NEW t \in Tasks, WellFormed(t), NEW n \in Declared(t), NEW st, NEW st2,
           Met(t, st, n), SucceededDeps(t, st, n) \subseteq SucceededDeps(t, st2, n)
    PROVE  Met(t, st2, n)
<1>1. Cardinality(SucceededDeps(t, st, n)) <= Cardinality(SucceededDeps(t, st2, n))
  BY DepsCounted, FS_Subset
<1>2. /\ Cardinality(SucceededDeps(t, st, n)) \in Nat
      /\ Cardinality(SucceededDeps(t, st2, n)) \in Nat /\ K(t, n) \in Nat
  BY DepsCounted, TaskFacts
<1> QED
  BY <1>1, <1>2 DEF Met

\* Among in the terms its users need.
LEMMA AmongFacts ==
    ASSUME NEW T, NEW s \in Seq(T), NEW S
    PROVE  LET k == Among(s, S)
           IN  k \in Seq(S) /\ k \in Seq(T) /\ DOMAIN k = 1..Len(k) /\ Len(k) \in Nat
<1> DEFINE k == Among(s, S)
           n == Len(s)
<1>1. PICK src : KeptFrom(s, S, n, k, src)
  BY AmongKept
<1> HIDE DEF k
<1>2. n \in Nat /\ s \in [1..n -> T]
  OBVIOUS
<1> HIDE DEF n
<1>3. k \in Seq(S)
  BY <1>1 DEF KeptFrom
<1>4. Len(k) \in Nat /\ DOMAIN k = 1..Len(k) /\ k \in [1..Len(k) -> S]
  BY <1>3
<1>5. /\ src \in [1..Len(k) -> 1..n]
      /\ \A x \in 1..Len(k) : k[x] = s[src[x]]
  BY <1>1 DEF KeptFrom
<1>6. \A x \in 1..Len(k) : k[x] \in T
  BY <1>2, <1>5
<1>7. k \in Seq(T)
  BY <1>3, <1>4, <1>6
<1> QED
  BY <1>3, <1>4, <1>7 DEF k

\* What is kept comes from the sequence, in its order.
LEMMA AmongFrom ==
    ASSUME NEW T, NEW s \in Seq(T), NEW S, NEW x \in 1..Len(Among(s, S))
    PROVE  \E j \in 1..Len(s) : s[j] = Among(s, S)[x]
<1> DEFINE k == Among(s, S)
<1>1. PICK src : KeptFrom(s, S, Len(s), k, src)
  BY AmongKept
<1> HIDE DEF k
<1>2. x \in 1..Len(k)
  BY DEF k
<1>3. src[x] \in 1..Len(s) /\ k[x] = s[src[x]]
  BY <1>1, <1>2 DEF KeptFrom
<1> QED
  BY <1>3 DEF k

LEMMA AmongOrder ==
    ASSUME NEW T, NEW s \in Seq(T), NEW S, NEW x \in 1..Len(Among(s, S)),
           NEW y \in 1..Len(Among(s, S)), x < y
    PROVE  \E i, j \in 1..Len(s) : i < j /\ s[i] = Among(s, S)[x] /\ s[j] = Among(s, S)[y]
<1> DEFINE k == Among(s, S)
<1>1. PICK src : KeptFrom(s, S, Len(s), k, src)
  BY AmongKept
<1> HIDE DEF k
<1>2. x \in 1..Len(k) /\ y \in 1..Len(k)
  BY DEF k
<1>3. /\ src[x] \in 1..Len(s) /\ k[x] = s[src[x]] /\ src[y] \in 1..Len(s) /\ k[y] = s[src[y]]
      /\ src[x] < src[y]
  BY <1>1, <1>2 DEF KeptFrom
<1> QED
  BY <1>3 DEF k

\* A member of the sequence that is in the set is kept.
LEMMA AmongHas ==
    ASSUME NEW T, NEW s \in Seq(T), NEW S, NEW j \in 1..Len(s), s[j] \in S
    PROVE  \E i \in 1..Len(Among(s, S)) : Among(s, S)[i] = s[j]
<1> DEFINE n == Len(s)
           k == Among(s, S)
<1>1. PICK src : KeptFrom(s, S, n, k, src)
  BY AmongKept
<1> HIDE DEF k
<1>2. /\ \A x \in 1..Len(k) : k[x] = s[src[x]]
      /\ \A l \in 1..n : s[l] \in S => \E x \in 1..Len(k) : src[x] = l
  BY <1>1 DEF KeptFrom
<1> QED
  BY <1>2 DEF k

-----------------------------------------------------------------------------
(* The nodes an edge path leads to.                                         *)

\* ReachedWithin is the function its definition describes.
LEMMA ReachSteps ==
    ASSUME NEW t, IsDag(t), NEW n \in NodeIds
    PROVE  LET f == ReachedWithin(t, n)
           IN  /\ f[0] = {n}
               /\ \A i \in 1..Len(t.nodes) :
                     f[i] = f[i - 1] \cup Successors(t, f[i - 1])
<1> DEFINE N == Len(t.nodes)
           X == SUBSET NodeIds
           a == {n}
           Go(x) == x \cup Successors(t, x)
           F == [i \in 1..N |-> [x \in X |-> Go(x)]]
<1>1. N \in Nat /\ a \in X
  BY DEF IsDag
<1>2. \A x \in X : Go(x) \in X
  BY DEF Successors
<1> HIDE DEF N, X, a, Go
<1>3. F \in [1..N -> [X -> X]] /\ \A i \in 1..N, x \in X : F[i][x] = Go(x)
  BY <1>2
<1> HIDE DEF F
<1>4. PICK g : Iterates(g, N, X, a, F)
  BY <1>1, <1>3, IterationExists
<1>5. g = [i \in 0..N |-> IF i = 0 THEN a ELSE Go(g[i - 1])]
  <2>1. \A i \in 1..N : i - 1 \in 0..N
    BY <1>1
  <2>2. \A i \in 1..N : g[i] = Go(g[i - 1])
    BY <1>3, <1>4, <2>1 DEF Iterates
  <2>3. \A i \in 0..N : g[i] = IF i = 0 THEN a ELSE Go(g[i - 1])
    BY <1>1, <1>4, <2>2 DEF Iterates
  <2> QED
    BY <1>4, <2>3 DEF Iterates
<1> DEFINE f == ReachedWithin(t, n)
<1>6. f = [i \in 0..N |-> IF i = 0 THEN a ELSE Go(f[i - 1])]
  BY <1>5 DEF ReachedWithin, N, Go, a
<1> DEFINE Value(i) == IF i = 0 THEN a ELSE Go(f[i - 1])
<1>7. f = [i \in 0..N |-> Value(i)]
  BY <1>6
<1> HIDE DEF f, Value
<1>8. \A i \in 0..N : f[i] = Value(i)
  BY <1>7
<1>9. 0 \in 0..N /\ \A i \in 1..N : i \in 0..N /\ i # 0
  BY <1>1
<1>10. f[0] = a /\ \A i \in 1..N : f[i] = Go(f[i - 1])
  BY <1>8, <1>9 DEF Value
<1> QED
  BY <1>10 DEF f, N, a, Go

\* A node reached from another one has an edge into it.
LEMMA ReachedByEdge ==
    ASSUME NEW t, IsDag(t), NEW n \in NodeIds, NEW m \in ReachableFrom(t, n), m # n
    PROVE  \E e \in Edges(t) : e[2] = m
<1> DEFINE N == Len(t.nodes)
           f == ReachedWithin(t, n)
           P == {i \in 0..N : \A x \in f[i] : x = n \/ \E e \in Edges(t) : e[2] = x}
<1>1. N \in Nat
  BY DEF IsDag
<1>2. /\ f[0] = {n}
      /\ \A i \in 1..N :
            f[i] = f[i - 1] \cup Successors(t, f[i - 1])
  BY ReachSteps
<1> HIDE DEF N, f
<1>3. 0 \in P
  BY <1>1, <1>2
<1>4. \A i \in 0..(N - 1) : i \in P => i + 1 \in P
  <2> TAKE i \in 0..(N - 1)
  <2> HAVE i \in P
  <2>1. i + 1 \in 1..N /\ (i + 1) - 1 = i /\ i + 1 \in 0..N
    BY <1>1
  <2>2. f[i + 1] = f[i] \cup Successors(t, f[i])
    BY <1>2, <2>1
  <2> QED
    BY <2>1, <2>2 DEF Successors
<1>5. N \in P
  <2>1. 0..N \subseteq P
    <3> HIDE DEF P
    <3> QED
      BY <1>1, <1>3, <1>4, Up
  <2> QED
    BY <1>1, <2>1
<1>6. m \in f[N]
  BY DEF ReachableFrom, f, N
<1> QED
  BY <1>5, <1>6

\* A topological order has no node before one that leads to it.
LEMMA ReachedLater ==
    ASSUME NEW t, WellFormed(t), NEW o \in Seq(NodeIds), Topological(t, o),
           NEW i \in 1..Len(o), NEW j \in 1..Len(o), o[j] \in ReachableFrom(t, o[i])
    PROVE  i <= j
<1> DEFINE N == Len(t.nodes)
           n == o[i]
           f == ReachedWithin(t, n)
           P == {k \in 0..N : \A l \in 1..Len(o) : o[l] \in f[k] => i <= l}
<1>1. N \in Nat /\ n \in NodeIds /\ IsDag(t) /\ Len(o) \in Nat /\ DOMAIN o = 1..Len(o)
  BY DEF WellFormed, IsDag
<1>2. /\ f[0] = {n}
      /\ \A k \in 1..N :
            f[k] = f[k - 1] \cup Successors(t, f[k - 1])
  BY <1>1, ReachSteps
<1>3. \A k, l \in 1..Len(o) : o[k] = o[l] => k = l
  BY <1>1 DEF Topological, IsInjective
<1>4. \A k, l \in 1..Len(o) : <<o[k], o[l]>> \in Edges(t) => k < l
  BY <1>1 DEF Topological
<1>5. \A e \in Edges(t) : e = <<e[1], e[2]>> /\ \E k \in 1..Len(o) : o[k] = e[1]
  <2> TAKE e \in Edges(t)
  <2>1. e \in NodeIds \X NodeIds
    BY <1>1 DEF IsDag, Edges, ToSet
  <2>2. e[1] \in ToSet(o)
    BY DEF WellFormed, ReferencesKnown, Topological
  <2> QED
    BY <1>1, <2>1, <2>2 DEF ToSet
<1>6. j \in 1..Len(o) /\ o[j] \in f[N]
  BY DEF ReachableFrom
<1> HIDE DEF N, f
<1>7. 0 \in P
  BY <1>1, <1>2, <1>3
<1>8. ASSUME NEW k \in 0..(N - 1), k \in P PROVE k + 1 \in P
  <2>1. k + 1 \in 1..N /\ (k + 1) - 1 = k /\ k + 1 \in 0..N
    BY <1>1
  <2>2. f[k + 1] = f[k] \cup Successors(t, f[k])
    BY <1>2, <2>1
  <2>3. ASSUME NEW l \in 1..Len(o), o[l] \in f[k + 1] PROVE i <= l
    <3>1. CASE o[l] \in f[k]
      BY <1>8, <3>1
    <3>2. CASE o[l] \notin f[k]
      <4>1. PICK e \in Edges(t) : e[1] \in f[k] /\ e[2] = o[l]
        BY <2>2, <2>3, <3>2 DEF Successors
      <4>2. PICK h \in 1..Len(o) : o[h] = e[1]
        BY <1>5
      <4>3. i <= h
        BY <1>8, <4>1, <4>2
      <4>4. <<o[h], o[l]>> \in Edges(t)
        BY <1>5, <4>1, <4>2
      <4>5. h < l
        BY <1>4, <4>4
      <4> QED
        BY <1>1, <4>3, <4>5
    <3> QED
      BY <3>1, <3>2
  <2> QED
    BY <2>1, <2>3
<1>9. N \in P
  <2>1. 0..N \subseteq P
    <3> HIDE DEF P
    <3> QED
      BY <1>1, <1>7, <1>8, Up
  <2> QED
    BY <1>1, <2>1
<1> QED
  BY <1>6, <1>9

-----------------------------------------------------------------------------
(* What one turn of run_dag's loop launches.                                *)

\* The nodes launched are ready, their inputs have met their K, and they fit
\* beside the futures in flight.
LEMMA LaunchedFits ==
    ASSUME TypeOK, NEW r \in Runs, WellFormed(task), Futures(r), Launches(r)
    PROVE  /\ Launched(r) \subseteq Ready(r)
           /\ \A n \in Launched(r) : ~Doomed(task, nodeState[r], n)
           /\ IsFiniteSet(InFlight(r)) /\ IsFiniteSet(Launched(r))
           /\ Cardinality(InFlight(r) \cup Launched(r)) <= MaxConcurrentNodes
<1> DEFINE fits == {n \in Ready(r) : ~Doomed(task, nodeState[r], n)}
           fit == Among(task.nodes, fits)
           slots == LaunchSlots(r)
           J == {j \in DOMAIN fit : j <= slots}
           L == {fit[i] : i \in J}
           I == InFlight(r)
<1>1. Launched(r) = L
  BY DEF Launched
<1>2. task \in Tasks /\ IsFiniteSet(Declared(task)) /\ task.nodes \in Seq(Declared(task))
  BY DagFacts DEF TypeOK
<1>3. I \in SUBSET Declared(task)
  BY DEF InFlight, Futures
<1>4. IsFiniteSet(I) /\ Cardinality(I) \in Nat /\ Cardinality(I) <= MaxConcurrentNodes
  <2>1. IsFiniteSet(I)
    BY <1>2, <1>3, FS_Subset
  <2> QED
    BY <2>1, FS_CardinalityType DEF Launches
<1>5. slots = MaxConcurrentNodes - Cardinality(I) /\ slots \in Nat
  BY <1>4, OrchestratorOptionsAssumption DEF LaunchSlots
<1>6. fit \in Seq(fits) /\ Len(fit) \in Nat /\ DOMAIN fit = 1..Len(fit)
  <2> HIDE DEF fits
  <2> QED
    BY <1>2, AmongFacts
<1> HIDE DEF fit, slots, I, fits
<1>7. \A i \in J : fit[i] \in fits
  BY <1>6
<1>8. L \subseteq fits
  BY <1>7
<1>9. J \in SUBSET (1..slots)
  BY <1>5, <1>6
<1>10. IsFiniteSet(1..slots) /\ Cardinality(1..slots) = slots
  <2>0. slots \in Int
    BY <1>5
  <2>1. IsFiniteSet(1..slots) /\ Cardinality(1..slots) = IF 1 > slots THEN 0 ELSE slots - 1 + 1
    BY <2>0, FS_Interval
  <2> QED
    BY <1>5, <2>1
<1> HIDE DEF J
<1>11. IsFiniteSet(J) /\ Cardinality(J) <= slots
  BY <1>9, <1>10, FS_Subset
<1>12. IsFiniteSet(L) /\ Cardinality(L) <= Cardinality(J)
  <2> DEFINE g == [i \in J |-> fit[i]]
  <2>1. g \in Surjection(J, L)
    BY DEF Surjection
  <2> HIDE DEF g, L
  <2> QED
    BY <1>11, <2>1, FS_Surjection
<1> HIDE DEF L
<1>13. Cardinality(I \cup L) <= MaxConcurrentNodes
  <2>1. Cardinality(I \cup L) = Cardinality(I) + Cardinality(L) - Cardinality(I \cap L)
    BY <1>4, <1>12, FS_Union
  <2>2. IsFiniteSet(I \cap L) /\ Cardinality(I \cap L) \in Nat
    <3>1. I \cap L \in SUBSET I
      OBVIOUS
    <3>2. IsFiniteSet(I \cap L)
      BY <1>4, <3>1, FS_Subset
    <3> QED
      BY <3>2, FS_CardinalityType
  <2>3. Cardinality(L) \in Nat /\ Cardinality(J) \in Nat
    BY <1>11, <1>12, FS_CardinalityType
  <2> QED
    BY <1>4, <1>5, <1>11, <1>12, <2>1, <2>2, <2>3, OrchestratorOptionsAssumption
<1> QED
  BY <1>1, <1>4, <1>8, <1>12, <1>13 DEF I, fits

\* A node that is fit to run is launched when nothing is in flight and the limit
\* is not zero.
LEMMA SomeLaunched ==
    ASSUME TypeOK, NEW r \in Runs, WellFormed(task), MaxConcurrentNodes > 0,
           InFlight(r) = {}, NEW n \in Ready(r), ~Doomed(task, nodeState[r], n)
    PROVE  Launched(r) # {}
<1> DEFINE fits == {m \in Ready(r) : ~Doomed(task, nodeState[r], m)}
           fit == Among(task.nodes, fits)
<1>1. task.nodes \in Seq(Declared(task)) /\ n \in fits /\ n \in Declared(task)
  BY DagFacts DEF Ready
<1>2. \E j \in 1..Len(task.nodes) : task.nodes[j] = n
  BY <1>1 DEF Declared, ToSet
<1> HIDE DEF fits
<1>3. Len(fit) \in Nat /\ DOMAIN fit = 1..Len(fit)
  BY <1>1, AmongFacts
<1>4. \E i \in 1..Len(fit) : fit[i] = n
  BY <1>1, <1>2, AmongHas, SMTT(20)
<1>5. LaunchSlots(r) = MaxConcurrentNodes
  BY FS_EmptySet, OrchestratorOptionsAssumption DEF LaunchSlots
<1> HIDE DEF fit
<1>6. 1 \in {j \in DOMAIN fit : j <= LaunchSlots(r)}
  BY <1>3, <1>4, <1>5, OrchestratorOptionsAssumption
<1>7. Launched(r) = {fit[i] : i \in {j \in DOMAIN fit : j <= LaunchSlots(r)}}
  BY DEF Launched, fit, fits
<1> QED
  BY <1>6, <1>7

-----------------------------------------------------------------------------
(* Steps of one run leave the others alone.                                 *)

\* The locals of a run that the invariant is about do not change.
Same(q) ==
    /\ pc'[q] = pc[q] /\ topoOrder'[q] = topoOrder[q] /\ nodeState'[q] = nodeState[q]
    /\ stage'[q] = stage[q] /\ verdict'[q] = verdict[q] /\ result'[q] = result[q]
    /\ toCompensate'[q] = toCompensate[q] /\ compensated'[q] = compensated[q]

LEMMA TodoSame ==
    ASSUME NEW q, task' = task, topoOrder'[q] = topoOrder[q], nodeState'[q] = nodeState[q]
    PROVE  Todo(q)' = Todo(q)
BY DEF Todo, CompletedInReverse, Completed

LEMMA LaunchesSame ==
    ASSUME NEW q, Launches(q), task' = task, nodeState'[q] = nodeState[q],
           stage'[q] = stage[q]
    PROVE  Launches(q)'
<1>1. InFlight(q)' = InFlight(q)
  BY DEF InFlight
<1> QED
  BY <1>1 DEF Launches

LEMMA FrameKept ==
    ASSUME NEW q, RunInv(q), task' = task, Same(q)
    PROVE  RunInv(q)'
<1>1. Validated(q)'
  BY DEF RunInv, Same, Validated
<1>2. Futures(q)'
  BY DEF RunInv, Same, Futures
<1>3. Launches(q)'
  BY LaunchesSame DEF RunInv, Same
<1>4. Decided(q)'
  BY DEF RunInv, Same, Decided
<1>5. Fails(q)'
  BY DEF RunInv, Same, Fails
<1>6. OnCourse(q)'
  <2>1. Todo(q)' = Todo(q)
    BY TodoSame DEF Same
  <2> QED
    BY <2>1 DEF RunInv, Same, OnCourse
<1> QED
  BY <1>1, <1>2, <1>3, <1>4, <1>5, <1>6 DEF RunInv

\* A step of a running run that moves only its pc, its result or the record
\* keeps the parts of the invariant that those do not enter.
LEMMA Steady ==
    ASSUME NEW r, RunInv(r), task' = task, topoOrder'[r] = topoOrder[r],
           nodeState'[r] = nodeState[r], stage'[r] = stage[r], verdict'[r] = verdict[r],
           toCompensate'[r] = toCompensate[r], compensated'[r] = compensated[r],
           pc[r] \notin {"start", "done"}
    PROVE  /\ Validated(r)' /\ Launches(r)' /\ Fails(r)'
           /\ \/ compensated'[r] = << >> /\ toCompensate'[r] = << >>
              \/ Compensations(compensated'[r], toCompensate'[r]) = Todo(r)'
<1>1. Validated(r)'
  BY DEF RunInv, Validated
<1>2. Launches(r)'
  BY LaunchesSame DEF RunInv
<1>3. Fails(r)'
  BY DEF RunInv, Fails
<1>4. Todo(r)' = Todo(r)
  BY TodoSame
<1> QED
  BY <1>1, <1>2, <1>3, <1>4 DEF RunInv, OnCourse

\* The futures of a run in its loop are finitely many.
LEMMA InFlightFinite ==
    ASSUME WellFormed(task), NEW r, Futures(r)
    PROVE  IsFiniteSet(InFlight(r)) /\ Cardinality(InFlight(r)) \in Nat
<1>1. InFlight(r) \in SUBSET Declared(task) /\ IsFiniteSet(Declared(task))
  BY DagFacts DEF InFlight, Futures
<1>2. IsFiniteSet(InFlight(r))
  BY <1>1, FS_Subset
<1> QED
  BY <1>2, FS_CardinalityType

\* An abort is for an end node that has failed or can no longer succeed.
LEMMA AbortJustified ==
    ASSUME NEW t \in Tasks, WellFormed(t), InputsFollowEdges(t), NEW st, NEW n \in NodeIds,
           \A m \in NodeIds : st[m] \in Succeeded => Met(t, st, m),
           st[n] = "failed", MustAbort(t, st, n)
    PROVE  \E e \in EndNodes(t) : st[e] \notin Succeeded
<1>1. PICK e \in EndNodes(t) : e \in ReachableFrom(t, n) /\ ~CanEndNodeStillSucceed(t, st, e)
  BY DEF MustAbort
<1>2. e \in Declared(t)
  BY DEF EndNodes
<1>3. CASE e = n
  BY <1>3 DEF Succeeded
<1>4. CASE e # n
  <2>1. IsDag(t)
    BY TasksAssumption
  <2>2. PICK d \in Edges(t) : d[2] = e
    BY <1>1, <1>4, <2>1, ReachedByEdge
  <2>3. d = <<d[1], e>> /\ d[1] \in Declared(t)
    <3>1. d \in NodeIds \X NodeIds
      BY <2>1 DEF IsDag, Edges, ToSet
    <3>2. d[1] \in Declared(t)
      BY DEF WellFormed, ReferencesKnown
    <3> QED
      BY <2>2, <3>1, <3>2
  <2>4. t.inputFrom[e] # {}
    BY <1>2, <2>3 DEF InputsFollowEdges
  <2>5. Cardinality(t.inputFrom[e]) - Cardinality(FailedDeps(t, st, e)) < K(t, e)
    <3>1. /\ Cardinality(t.inputFrom[e]) \in Nat /\ K(t, e) \in Nat
          /\ Cardinality(FailedDeps(t, st, e)) \in Nat
      BY <1>2, TaskFacts, DepsCounted
    <3> QED
      BY <1>1, <2>4, <3>1 DEF CanEndNodeStillSucceed
  <2>6. ~Met(t, st, e)
    <3>1. /\ Cardinality(t.inputFrom[e]) \in Nat /\ K(t, e) \in Nat
          /\ Cardinality(FailedDeps(t, st, e)) \in Nat
          /\ Cardinality(SucceededDeps(t, st, e)) \in Nat
          /\ Cardinality(SucceededDeps(t, st, e)) + Cardinality(FailedDeps(t, st, e))
                <= Cardinality(t.inputFrom[e])
      BY <1>2, TaskFacts, DepsCounted
    <3> QED
      BY <2>4, <2>5, <3>1 DEF Met
  <2>7. e \in NodeIds
    BY <1>2, TaskFacts
  <2> QED
    BY <2>6, <2>7
<1> QED
  BY <1>3, <1>4

-----------------------------------------------------------------------------
(* The steps of a run keep its invariant, action by action.                 *)

LEMMA ExecuteKept ==
    ASSUME IndInv, NEW r \in Runs, Execute(r)
    PROVE  RunInv(r)'
<1> DEFINE v == ValidateDag(task)
           refusal == RefusalCode(task, v)
<1>1. /\ pc[r] = "start" /\ task' = task /\ nodeState' = nodeState /\ stage' = stage
      /\ verdict' = verdict /\ toCompensate' = toCompensate /\ compensated' = compensated
  BY DEF Execute, locals
<1>2. /\ task \in Tasks /\ pc \in [Runs -> Pcs] /\ result \in [Runs -> Result]
      /\ topoOrder \in [Runs -> Seq(NodeIds)] /\ RunInv(r)
  BY DEF IndInv, TypeOK
<1>3. refusal = "none" => WellFormed(task) /\ Topological(task, v.order)
  BY <1>2, ValidationGives
<1>4. \/ /\ refusal = "none" /\ pc'[r] = "save" /\ topoOrder'[r] = v.order /\ result' = result
      \/ /\ pc'[r] = "done" /\ topoOrder' = topoOrder /\ result'[r].final = "failed"
  BY <1>2 DEF Execute, Failure
<1> HIDE DEF v, refusal
<1>5. Validated(r)'
  BY <1>1, <1>2, <1>3, <1>4 DEF RunInv, Validated
<1>6. Futures(r)'
  BY <1>1, <1>2, <1>4 DEF RunInv, Futures, Before
<1>7. Launches(r)'
  BY <1>1, <1>2, LaunchesSame DEF RunInv
<1>8. Decided(r)'
  BY <1>1, <1>2, <1>4 DEF RunInv, Decided, Undecided, Before
<1>9. verdict[r] = "none" /\ compensated[r] = << >> /\ toCompensate[r] = << >>
  BY <1>1, <1>2 DEF RunInv, Decided, OnCourse, Undecided, Before
<1>10. Fails(r)'
  BY <1>1, <1>9 DEF Fails
<1>11. OnCourse(r)'
  BY <1>1, <1>4, <1>9 DEF OnCourse
<1> QED
  BY <1>5, <1>6, <1>7, <1>8, <1>10, <1>11 DEF RunInv

\* The steps that move only the pc, the result, the record or the callback.
PlainStep(r) ==
    \/ Save(r) \/ Begin(r) \/ PreflightPasses(r) \/ PreflightFails(r) \/ LeaveLoop(r)
    \/ Finalise(r) \/ CallbackAccepted(r) \/ CallbackFails(r)

LEMMA PlainKept ==
    ASSUME IndInv, NEW r \in Runs, PlainStep(r)
    PROVE  RunInv(r)'
<1>1. /\ task' = task /\ topoOrder' = topoOrder /\ nodeState' = nodeState /\ stage' = stage
      /\ verdict' = verdict /\ toCompensate' = toCompensate /\ compensated' = compensated
  BY DEF PlainStep, Save, Begin, PreflightPasses, PreflightFails, LeaveLoop, Finalise,
         CallbackAccepted, CallbackFails, locals
<1>2. /\ pc \in [Runs -> Pcs] /\ result \in [Runs -> Result] /\ RunInv(r)
      /\ nodeState \in [Runs -> [NodeIds -> TerminalNodeStates \cup {"none"}]]
  BY DEF IndInv, TypeOK
<1>3. \/ pc[r] = "save" /\ pc'[r] = "begin" /\ result' = result
      \/ pc[r] = "begin" /\ pc'[r] \in {"preflight", "schedule"} /\ result' = result
      \/ pc[r] = "preflight" /\ pc'[r] = "schedule" /\ result' = result
      \/ pc[r] = "preflight" /\ pc'[r] = "done" /\ result'[r].final = "failed"
      \/ pc[r] = "schedule" /\ pc'[r] = "conclude" /\ result' = result /\ AllDecided(r)
      \/ pc[r] = "finalise" /\ pc'[r] \in {"callback", "done"} /\ result' = result
      \/ pc[r] = "callback" /\ pc'[r] \in {"callback", "done"} /\ result' = result
  <2>1. ASSUME PreflightFails(r)
        PROVE  pc[r] = "preflight" /\ pc'[r] = "done" /\ result'[r].final = "failed"
    BY <1>2, <2>1 DEF PreflightFails, Failure
  <2>2. ASSUME Begin(r)
        PROVE  pc[r] = "begin" /\ pc'[r] \in {"preflight", "schedule"} /\ result' = result
    BY <1>2, <2>2 DEF Begin
  <2>3. ASSUME Finalise(r)
        PROVE  pc[r] = "finalise" /\ pc'[r] \in {"callback", "done"} /\ result' = result
    BY <1>2, <2>3 DEF Finalise
  <2>4. ASSUME CallbackAccepted(r) \/ CallbackFails(r)
        PROVE  pc[r] = "callback" /\ pc'[r] \in {"callback", "done"} /\ result' = result
    BY <1>2, <2>4 DEF CallbackAccepted, CallbackFails
  <2> QED
    BY <1>2, <2>1, <2>2, <2>3, <2>4 DEF PlainStep, Save, PreflightPasses, LeaveLoop
<1>4. /\ Validated(r)' /\ Launches(r)' /\ Fails(r)'
      /\ \/ compensated'[r] = << >> /\ toCompensate'[r] = << >>
         \/ Compensations(compensated'[r], toCompensate'[r]) = Todo(r)'
  BY <1>1, <1>2, <1>3, Steady
<1>5. Futures(r)'
  BY <1>1, <1>2, <1>3 DEF RunInv, Futures, AllDecided, Before
<1>6. Decided(r)'
  BY <1>1, <1>2, <1>3 DEF RunInv, Decided, Undecided, Before
<1>7. OnCourse(r)'
  BY <1>1, <1>2, <1>3, <1>4 DEF RunInv, OnCourse, Undecided, Before
<1> QED
  BY <1>4, <1>5, <1>6, <1>7 DEF RunInv

LEMMA TimeoutKept ==
    ASSUME IndInv, NEW r \in Runs, Timeout(r)
    PROVE  RunInv(r)'
<1>1. /\ task' = task /\ topoOrder' = topoOrder /\ nodeState' = nodeState
      /\ verdict' = verdict /\ toCompensate' = toCompensate /\ compensated' = compensated
      /\ pc[r] \in {"preflight", "wait", "drain", "compensate", "callback"}
  BY DEF Timeout, Suspended
<1>2. /\ pc \in [Runs -> Pcs] /\ result \in [Runs -> Result] /\ RunInv(r)
      /\ stage \in [Runs -> [NodeIds -> {"idle", "launched", "running", "backoff"}]]
  BY DEF IndInv, TypeOK
<1>3. /\ pc'[r] = "done" /\ result'[r].final = "failed"
      /\ \A n \in NodeIds : stage'[r][n] = "idle"
  BY <1>2 DEF Timeout, Failure
<1>4. Validated(r)'
  BY <1>1, <1>2 DEF RunInv, Validated
<1>5. Futures(r)'
  BY <1>1, <1>2, <1>3 DEF RunInv, Futures, Before
<1>6. Launches(r)'
  <2>1. InFlight(r)' = {}
    BY <1>3 DEF InFlight
  <2>2. Cardinality(InFlight(r)') <= MaxConcurrentNodes
    BY <2>1, FS_EmptySet, OrchestratorOptionsAssumption
  <2> QED
    BY <1>1, <1>2, <1>3, <2>2 DEF RunInv, Launches
<1>7. Decided(r)'
  BY <1>3 DEF Decided, Undecided, Before
<1>8. Fails(r)'
  BY <1>1, <1>2 DEF RunInv, Fails
<1>9. OnCourse(r)'
  <2>1. Todo(r)' = Todo(r)
    BY <1>1, TodoSame
  <2> QED
    BY <1>1, <1>2, <1>3, <2>1 DEF RunInv, OnCourse, Undecided, Before
<1> QED
  BY <1>4, <1>5, <1>6, <1>7, <1>8, <1>9 DEF RunInv

\* A future goes on: the node stays in flight.
LEMMA StaysKept ==
    ASSUME IndInv, NEW r \in Runs, NEW n \in NodeIds, NEW s \in {"running", "backoff"},
           Polling(r), stage[r][n] # "idle", stage' = [stage EXCEPT ![r][n] = s],
           task' = task, topoOrder' = topoOrder, pc' = pc, nodeState' = nodeState,
           verdict' = verdict, toCompensate' = toCompensate, compensated' = compensated,
           result' = result
    PROVE  RunInv(r)'
<1>1. /\ RunInv(r) /\ pc[r] \in {"wait", "drain"}
      /\ stage \in [Runs -> [NodeIds -> {"idle", "launched", "running", "backoff"}]]
  BY DEF IndInv, TypeOK, Polling
<1>2. \A m \in NodeIds : stage'[r][m] # "idle" <=> stage[r][m] # "idle"
  BY <1>1
<1>3. Validated(r)' /\ Decided(r)' /\ Fails(r)'
  BY <1>1 DEF RunInv, Validated, Decided, Fails
<1>4. Futures(r)'
  BY <1>1, <1>2 DEF RunInv, Futures, Before
<1>5. Launches(r)'
  <2>1. InFlight(r)' = InFlight(r)
    BY <1>2 DEF InFlight
  <2> QED
    BY <1>1, <1>2, <2>1 DEF RunInv, Launches
<1>6. OnCourse(r)'
  <2>1. Todo(r)' = Todo(r)
    BY TodoSame
  <2> QED
    BY <1>1, <2>1 DEF RunInv, OnCourse
<1> QED
  BY <1>3, <1>4, <1>5, <1>6 DEF RunInv

\* A future ends, in the loop or in the drain.
LEMMA FinishKept ==
    ASSUME IndInv, NEW r \in Runs, NEW n \in NodeIds, NEW st \in TerminalNodeStates,
           Polling(r), stage[r][n] # "idle", FinishNode(r, n, st)
    PROVE  RunInv(r)'
<1> DEFINE after == [nodeState[r] EXCEPT ![n] = st]
<1>1. /\ RunInv(r) /\ pc[r] \in {"wait", "drain"} /\ task \in Tasks
      /\ stage \in [Runs -> [NodeIds -> {"idle", "launched", "running", "backoff"}]]
      /\ nodeState \in [Runs -> [NodeIds -> TerminalNodeStates \cup {"none"}]]
      /\ pc \in [Runs -> Pcs] /\ verdict \in [Runs -> {"none", "completed", "failed"}]
  BY DEF IndInv, TypeOK, Polling
<1>2. /\ task' = task /\ topoOrder' = topoOrder /\ toCompensate' = toCompensate
      /\ compensated' = compensated /\ result' = result
      /\ stage' = [stage EXCEPT ![r][n] = "idle"]
  BY DEF FinishNode
<1>3. WellFormed(task)
  BY <1>1 DEF RunInv, Validated
<1>4. n \in Declared(task) /\ nodeState[r][n] = "none" /\ Met(task, nodeState[r], n)
  BY <1>1 DEF RunInv, Futures, Launches
<1>5. /\ stage'[r][n] = "idle"
      /\ \A m \in NodeIds : stage'[r][m] # "idle" => stage[r][m] # "idle" /\ m # n
  BY <1>1, <1>2
<1>6. Cardinality(InFlight(r)') <= MaxConcurrentNodes
  <2>1. InFlight(r)' \in SUBSET InFlight(r)
    BY <1>5 DEF InFlight
  <2>2. IsFiniteSet(InFlight(r)) /\ Cardinality(InFlight(r)) \in Nat
    BY <1>1, <1>3, InFlightFinite DEF RunInv
  <2>3. IsFiniteSet(InFlight(r)') /\ Cardinality(InFlight(r)') <= Cardinality(InFlight(r))
    BY <2>1, <2>2, FS_Subset
  <2>4. Cardinality(InFlight(r)') \in Nat
    BY <2>3, FS_CardinalityType
  <2> QED
    BY <1>1, <2>2, <2>3, <2>4, OrchestratorOptionsAssumption DEF RunInv, Launches
<1>7. CASE pc[r] = "drain"
  <2>1. nodeState' = nodeState /\ pc' = pc /\ verdict' = verdict
    BY <1>7 DEF FinishNode
  <2>2. Validated(r)' /\ Decided(r)' /\ Fails(r)'
    BY <1>1, <1>2, <2>1 DEF RunInv, Validated, Decided, Fails
  <2>3. Futures(r)'
    BY <1>1, <1>2, <1>5, <1>7, <2>1 DEF RunInv, Futures, Before
  <2>4. Launches(r)'
    BY <1>1, <1>2, <1>5, <1>6, <2>1 DEF RunInv, Launches
  <2>5. OnCourse(r)'
    <3>1. Todo(r)' = Todo(r)
      BY <1>2, <2>1, TodoSame
    <3> QED
      BY <1>1, <1>2, <2>1, <3>1 DEF RunInv, OnCourse
  <2> QED
    BY <2>2, <2>3, <2>4, <2>5 DEF RunInv
<1>8. CASE pc[r] = "wait"
  <2>1. nodeState'[r] = after
    BY <1>1, <1>8 DEF FinishNode
  <2>2. \/ /\ st = "failed" /\ MustAbort(task, after, n)
           /\ pc'[r] = "drain" /\ verdict'[r] = "failed"
        \/ pc'[r] = "schedule" /\ verdict' = verdict
    BY <1>1, <1>8 DEF FinishNode
  <2>3. after[n] = st /\ \A m \in NodeIds \ {n} : after[m] = nodeState[r][m]
    BY <1>1
  <2> HIDE DEF after
  <2>4. ASSUME NEW m \in NodeIds, m \in Declared(task), Met(task, nodeState[r], m)
        PROVE  Met(task, after, m)
    <3>1. SucceededDeps(task, nodeState[r], m) \subseteq SucceededDeps(task, after, m)
      <4>1. task.inputFrom[m] \subseteq NodeIds
        BY <1>1, <1>3, <2>4, TaskFacts
      <4> QED
        BY <1>4, <2>3, <4>1 DEF SucceededDeps
    <3> QED
      BY <1>1, <1>3, <2>4, <3>1, MetStays
  <2>5. \A m \in NodeIds : stage'[r][m] # "idle" \/ after[m] \in Succeeded =>
            m \in Declared(task) /\ Met(task, nodeState[r], m)
    BY <1>1, <1>4, <1>5, <2>3 DEF RunInv, Futures, Launches, Succeeded
  <2>6. \A m \in NodeIds : stage'[r][m] # "idle" \/ after[m] \in Succeeded => Met(task, after, m)
    BY <2>4, <2>5
  <2>7. Launches(r)'
    BY <1>2, <1>6, <2>1, <2>6 DEF Launches
  <2>8. Futures(r)'
    BY <1>1, <1>2, <1>4, <1>5, <1>8, <2>1, <2>2, <2>3 DEF RunInv, Futures, Before
  <2>9. Validated(r)'
    BY <1>1, <1>2 DEF RunInv, Validated
  <2>10. Decided(r)'
    BY <1>1, <1>2, <1>8, <2>2 DEF RunInv, Decided, Undecided, Before
  <2>11. Fails(r)'
    <3>1. CASE verdict' = verdict
      BY <1>1, <1>8, <3>1 DEF RunInv, Decided, Fails, Undecided
    <3>2. CASE st = "failed" /\ MustAbort(task, after, n)
      <4> SUFFICES ASSUME InputsFollowEdges(task)
                   PROVE  \E e \in EndNodes(task) : after[e] \notin Succeeded
        BY <1>2, <2>1 DEF Fails
      <4>1. after[n] = "failed"
        BY <2>3, <3>2
      <4>2. \A m \in NodeIds : after[m] \in Succeeded => Met(task, after, m)
        BY <2>6
      <4> QED
        BY <1>1, <1>3, <3>2, <4>1, <4>2, AbortJustified
    <3> QED
      BY <2>2, <3>1, <3>2
  <2>12. OnCourse(r)'
    BY <1>1, <1>2, <1>8, <2>2 DEF RunInv, OnCourse, Undecided, Before
  <2> QED
    BY <2>7, <2>8, <2>9, <2>10, <2>11, <2>12 DEF RunInv
<1> QED
  BY <1>1, <1>7, <1>8

LEMMA NodeStepKept ==
    ASSUME IndInv, NEW r \in Runs, NEW n \in NodeIds, NodeStep(r, n)
    PROVE  RunInv(r)'
<1>1. CASE StartNode(r, n)
  <2>1. /\ Polling(r) /\ stage[r][n] # "idle" /\ stage' = [stage EXCEPT ![r][n] = "running"]
        /\ task' = task /\ topoOrder' = topoOrder /\ pc' = pc /\ nodeState' = nodeState
        /\ verdict' = verdict /\ toCompensate' = toCompensate /\ compensated' = compensated
        /\ result' = result
    BY <1>1 DEF StartNode, BeginAttempt
  <2> QED
    BY <2>1, StaysKept
<1>2. CASE RetryNode(r, n)
  <2>1. /\ Polling(r) /\ stage[r][n] # "idle" /\ stage' = [stage EXCEPT ![r][n] = "running"]
        /\ task' = task /\ topoOrder' = topoOrder /\ pc' = pc /\ nodeState' = nodeState
        /\ verdict' = verdict /\ toCompensate' = toCompensate /\ compensated' = compensated
        /\ result' = result
    BY <1>2 DEF RetryNode, BeginAttempt
  <2> QED
    BY <2>1, StaysKept
<1>3. CASE SkipNode(r, n)
  BY <1>3, FinishKept DEF SkipNode, TerminalNodeStates
<1>4. CASE ConditionError(r, n)
  BY <1>4, FinishKept DEF ConditionError, TerminalNodeStates
<1>5. CASE AttemptSucceeds(r, n)
  BY <1>5, FinishKept DEF AttemptSucceeds, TerminalNodeStates
<1>6. ASSUME NEW code \in ErrorCodes, AttemptFails(r, n, code) PROVE RunInv(r)'
  <2>1. CASE ShouldRetry(task, n, code, attempt[r][n])
    <3>1. /\ Polling(r) /\ stage[r][n] # "idle" /\ stage' = [stage EXCEPT ![r][n] = "backoff"]
          /\ task' = task /\ topoOrder' = topoOrder /\ pc' = pc /\ nodeState' = nodeState
          /\ verdict' = verdict /\ toCompensate' = toCompensate /\ compensated' = compensated
          /\ result' = result
      BY <1>6, <2>1 DEF AttemptFails
    <3> QED
      BY <3>1, StaysKept
  <2>2. CASE ~ShouldRetry(task, n, code, attempt[r][n])
    <3>1. Polling(r) /\ stage[r][n] # "idle" /\ FinishNode(r, n, "failed")
      BY <1>6, <2>2 DEF AttemptFails
    <3> QED
      BY <3>1, FinishKept DEF TerminalNodeStates
  <2> QED
    BY <2>1, <2>2
<1> QED
  BY <1>1, <1>2, <1>3, <1>4, <1>5, <1>6 DEF NodeStep

LEMMA ScheduleKept ==
    ASSUME IndInv, NEW r \in Runs, Schedule(r)
    PROVE  RunInv(r)'
<1> DEFINE doomed == {n \in Ready(r) : Doomed(task, nodeState[r], n)}
           after == [n \in NodeIds |-> IF n \in doomed THEN "failed" ELSE nodeState[r][n]]
           L == Launched(r)
<1>1. /\ RunInv(r) /\ pc[r] = "schedule" /\ task \in Tasks /\ TypeOK
      /\ stage \in [Runs -> [NodeIds -> {"idle", "launched", "running", "backoff"}]]
      /\ nodeState \in [Runs -> [NodeIds -> TerminalNodeStates \cup {"none"}]]
      /\ pc \in [Runs -> Pcs]
  BY DEF IndInv, TypeOK, Schedule
<1>2. /\ task' = task /\ topoOrder' = topoOrder /\ toCompensate' = toCompensate
      /\ compensated' = compensated /\ result' = result /\ verdict' = verdict
  BY DEF Schedule
<1>3. WellFormed(task)
  BY <1>1 DEF RunInv, Validated
<1>4. nodeState'[r] = after
  BY <1>1 DEF Schedule
<1>5. stage'[r] = [n \in NodeIds |-> IF n \in L THEN "launched" ELSE stage[r][n]]
  BY <1>1 DEF Schedule
<1>6. /\ pc'[r] \in {"conclude", "wait"}
      /\ pc'[r] = "conclude" => InFlight(r) \cup L = {}
  BY <1>1 DEF Schedule, NothingInFlight
<1>7. /\ L \subseteq Ready(r) /\ \A n \in L : ~Doomed(task, nodeState[r], n)
      /\ Cardinality(InFlight(r) \cup L) <= MaxConcurrentNodes
  BY <1>1, <1>3, LaunchedFits DEF RunInv
<1> HIDE DEF L
<1>8. \A n \in Ready(r) : /\ n \in NodeIds /\ n \in Declared(task)
                          /\ nodeState[r][n] = "none" /\ stage[r][n] = "idle"
  BY <1>1, <1>3, TaskFacts DEF Ready
<1>9. InFlight(r)' = InFlight(r) \cup L
  BY <1>5, <1>7, <1>8 DEF InFlight
<1>10. \A n \in NodeIds : /\ after[n] \in Succeeded <=> nodeState[r][n] \in Succeeded
                          /\ after[n] = "none" => nodeState[r][n] = "none"
                          /\ after[n] # "none" => nodeState[r][n] # "none" \/ n \in doomed
                          /\ n \notin doomed => after[n] = nodeState[r][n]
  BY <1>8 DEF Succeeded
<1> HIDE DEF after
<1>11. ASSUME NEW n \in NodeIds, n \in Declared(task), Met(task, nodeState[r], n)
       PROVE  Met(task, after, n)
  <2>1. task.inputFrom[n] \subseteq NodeIds
    BY <1>1, <1>3, <1>11, TaskFacts
  <2>2. SucceededDeps(task, nodeState[r], n) \subseteq SucceededDeps(task, after, n)
    BY <1>10, <2>1 DEF SucceededDeps, Succeeded
  <2> QED
    BY <1>1, <1>3, <1>11, <2>2, MetStays
<1>12. \A n \in L : Met(task, nodeState[r], n)
  <2> TAKE n \in L
  <2>1. n \in Declared(task) /\ ~Doomed(task, nodeState[r], n)
    BY <1>7, <1>8
  <2>2. Cardinality(SucceededDeps(task, nodeState[r], n)) \in Nat /\ K(task, n) \in Nat
    BY <1>1, <1>3, <2>1, DepsCounted, TaskFacts
  <2> QED
    BY <2>1, <2>2 DEF Doomed, Met
<1>13. \A n \in NodeIds : stage'[r][n] # "idle" \/ after[n] \in Succeeded =>
           n \in Declared(task) /\ Met(task, nodeState[r], n)
  <2> TAKE n \in NodeIds
  <2>1. CASE n \in L
    BY <1>7, <1>8, <1>12, <2>1
  <2>2. CASE n \notin L
    BY <1>1, <1>5, <1>10, <2>2 DEF RunInv, Futures, Launches, Succeeded
  <2> QED
    BY <2>1, <2>2
<1>14. Launches(r)'
  BY <1>2, <1>4, <1>7, <1>9, <1>11, <1>13 DEF Launches
<1>15. Futures(r)'
  <2>1. pc'[r] = "conclude" => \A n \in NodeIds : stage'[r][n] = "idle"
    BY <1>6, <1>9 DEF InFlight
  <2>2. ASSUME NEW n \in NodeIds, stage'[r][n] # "idle"
        PROVE  n \in Declared(task) /\ after[n] = "none"
    <3>1. n \notin doomed /\ nodeState[r][n] = "none"
      BY <1>1, <1>5, <1>7, <1>8, <2>2 DEF RunInv, Futures
    <3> QED
      BY <1>10, <1>13, <2>2, <3>1
  <2>3. ASSUME NEW n \in NodeIds, after[n] # "none" PROVE n \in Declared(task)
    BY <1>1, <1>8, <1>10, <2>3 DEF RunInv, Futures
  <2> QED
    BY <1>2, <1>4, <1>6, <2>1, <2>2, <2>3 DEF Futures, Before
<1>16. Validated(r)'
  BY <1>1, <1>2 DEF RunInv, Validated
<1>17. Decided(r)'
  BY <1>1, <1>2, <1>6 DEF RunInv, Decided, Undecided, Before
<1>18. Fails(r)'
  BY <1>1, <1>2 DEF RunInv, Decided, Fails, Undecided
<1>19. OnCourse(r)'
  BY <1>1, <1>2, <1>6 DEF RunInv, OnCourse, Undecided, Before
<1> QED
  BY <1>14, <1>15, <1>16, <1>17, <1>18, <1>19 DEF RunInv

-----------------------------------------------------------------------------
(* The saga.                                                                *)

\* What is to be undone is known: its members, and their order.
LEMMA TodoTyped ==
    ASSUME TypeOK, NEW r \in Runs
    PROVE  /\ CompletedInReverse(r) \in Seq(NodeIds)
           /\ Todo(r) \in Seq(NodeIds)
<1> DEFINE a == Among(topoOrder[r], Completed(r))
<1>1. topoOrder[r] \in Seq(NodeIds)
  BY DEF TypeOK
<1>2. a \in Seq(NodeIds)
  BY <1>1, AmongFacts
<1> HIDE DEF a
<1>3. Len(a) \in Nat /\ \A i \in 1..Len(a) : (Len(a) - i) + 1 \in 1..Len(a)
  BY <1>2
<1>4. \A i \in 1..Len(a) : a[(Len(a) - i) + 1] \in NodeIds
  BY <1>2, <1>3
<1>5. Reverse(a) \in Seq(NodeIds)
  BY <1>3, <1>4 DEF Reverse
<1>6. CompletedInReverse(r) \in Seq(NodeIds)
  BY <1>5 DEF CompletedInReverse, a
<1> QED
  BY <1>6, AmongFacts DEF Todo

LEMMA TodoOrder ==
    ASSUME TypeOK, NEW r \in Runs, NEW x \in 1..Len(Todo(r)), NEW y \in 1..Len(Todo(r)), x < y
    PROVE  \E k, l \in 1..Len(topoOrder[r]) :
              k < l /\ topoOrder[r][k] = Todo(r)[y] /\ topoOrder[r][l] = Todo(r)[x]
<1> DEFINE o == topoOrder[r]
           C == Completed(r)
           a == Among(o, C)
           b == CompletedInReverse(r)
           S == task.compensable
           c == Todo(r)
<1>1. o \in Seq(NodeIds) /\ b \in Seq(NodeIds)
  BY TodoTyped DEF TypeOK
<1>2. a \in Seq(NodeIds)
  BY <1>1, AmongFacts
<1>3. b = Reverse(a) /\ c = Among(b, S)
  BY DEF CompletedInReverse, Todo
<1> HIDE DEF o, C, a, b, c, S
<1>4. PICK i \in 1..Len(b), j \in 1..Len(b) : i < j /\ b[i] = c[x] /\ b[j] = c[y]
  <2>1. x \in 1..Len(Among(b, S)) /\ y \in 1..Len(Among(b, S))
    BY <1>3 DEF c
  <2>2. \E i, j \in 1..Len(b) : i < j /\ b[i] = Among(b, S)[x] /\ b[j] = Among(b, S)[y]
    BY <1>1, <2>1, AmongOrder
  <2> QED
    BY <1>3, <2>2
<1>5. Len(a) \in Nat /\ Len(b) = Len(a) /\ \A m \in 1..Len(a) : b[m] = a[(Len(a) - m) + 1]
  BY <1>2, <1>3 DEF Reverse
<1> DEFINE p == (Len(a) - j) + 1
           q == (Len(a) - i) + 1
<1>6. p \in 1..Len(a) /\ q \in 1..Len(a) /\ p < q /\ a[p] = c[y] /\ a[q] = c[x]
  BY <1>4, <1>5
<1> HIDE DEF p, q
<1>7. \E k, l \in 1..Len(o) : k < l /\ o[k] = a[p] /\ o[l] = a[q]
  <2>1. p \in 1..Len(Among(o, C)) /\ q \in 1..Len(Among(o, C))
    BY <1>6 DEF a
  <2>2. o \in Seq(NodeIds) /\ p < q
    BY <1>1, <1>6
  <2>3. \E k, l \in 1..Len(o) : k < l /\ o[k] = Among(o, C)[p] /\ o[l] = Among(o, C)[q]
    BY <2>1, <2>2, AmongOrder
  <2> QED
    BY <2>3 DEF a
<1> QED
  BY <1>6, <1>7 DEF o, c

LEMMA TodoMembers ==
    ASSUME TypeOK, NEW r \in Runs
    PROVE  /\ \A x \in 1..Len(Todo(r)) : nodeState[r][Todo(r)[x]] = "completed"
           /\ \A n \in Completed(r) \cap task.compensable :
                 n \in ToSet(topoOrder[r]) => \E x \in 1..Len(Todo(r)) : Todo(r)[x] = n
<1> DEFINE o == topoOrder[r]
           C == Completed(r)
           a == Among(o, C)
           b == CompletedInReverse(r)
           S == task.compensable
           c == Todo(r)
<1>1. o \in Seq(NodeIds) /\ b \in Seq(NodeIds)
  BY TodoTyped DEF TypeOK
<1>2. a \in Seq(NodeIds) /\ a \in Seq(C)
  BY <1>1, AmongFacts
<1>3. b = Reverse(a) /\ c = Among(b, S)
  BY DEF CompletedInReverse, Todo
<1> HIDE DEF o, C, a, b, c, S
<1>4. Len(a) \in Nat /\ Len(b) = Len(a) /\ \A m \in 1..Len(a) : b[m] = a[(Len(a) - m) + 1]
  BY <1>2, <1>3 DEF Reverse
<1>5. ASSUME NEW x \in 1..Len(c) PROVE c[x] \in C
  <2>1. \E j \in 1..Len(b) : b[j] = Among(b, S)[x]
    BY <1>1, <1>3, AmongFrom
  <2>2. PICK j \in 1..Len(b) : b[j] = c[x]
    BY <1>3, <2>1
  <2>3. (Len(a) - j) + 1 \in 1..Len(a) /\ b[j] = a[(Len(a) - j) + 1]
    BY <1>4
  <2> QED
    BY <1>2, <2>2, <2>3
<1>6. ASSUME NEW n \in C \cap S, n \in ToSet(o) PROVE \E x \in 1..Len(c) : c[x] = n
  <2>1. PICK j \in 1..Len(o) : o[j] = n
    BY <1>1, <1>6 DEF ToSet
  <2>2. o[j] \in C
    BY <2>1
  <2>3. PICK i \in 1..Len(a) : a[i] = n
    BY <1>1, <2>1, <2>2, AmongHas DEF a
  <2>4. (Len(a) - i) + 1 \in 1..Len(b) /\ b[(Len(a) - i) + 1] = n
    <3>1. (Len(a) - i) + 1 \in 1..Len(a) /\ (Len(a) - ((Len(a) - i) + 1)) + 1 = i
      BY <1>4
    <3> QED
      BY <1>4, <2>3, <3>1
  <2> DEFINE m == (Len(a) - i) + 1
  <2>5. m \in 1..Len(b) /\ b[m] = n /\ b[m] \in S
    BY <2>4
  <2> HIDE DEF m
  <2>6. \E x \in 1..Len(Among(b, S)) : Among(b, S)[x] = b[m]
    BY <1>1, <2>5, AmongHas
  <2> QED
    BY <1>3, <2>5, <2>6
<1>7. \A x \in 1..Len(c) : nodeState[r][c[x]] = "completed"
  BY <1>5 DEF C, Completed
<1> QED
  BY <1>6, <1>7 DEF c, C, S, o

\* The saga begins, or run_dag returns without one.
LEMMA BeginSagaKept ==
    ASSUME IndInv, NEW r \in Runs, NEW outcome \in {"completed", "failed"},
           pc[r] \in {"drain", "conclude"}, BeginSaga(r, outcome),
           \A n \in NodeIds : stage[r][n] = "idle",
           outcome = "failed" /\ InputsFollowEdges(task) =>
               \E e \in EndNodes(task) : nodeState[r][e] \notin Succeeded
    PROVE  RunInv(r)'
<1>1. /\ RunInv(r) /\ TypeOK /\ pc \in [Runs -> Pcs] /\ result \in [Runs -> Result]
      /\ verdict \in [Runs -> {"none", "completed", "failed"}]
      /\ toCompensate \in [Runs -> Seq(NodeIds)]
  BY DEF IndInv, TypeOK
<1>2. /\ task' = task /\ topoOrder' = topoOrder /\ nodeState' = nodeState /\ stage' = stage
      /\ compensated' = compensated /\ verdict'[r] = outcome
  BY <1>1 DEF BeginSaga
<1>3. \/ /\ toCompensate'[r] = Todo(r) /\ Todo(r) # << >> /\ pc'[r] = "compensate"
         /\ result' = result
      \/ /\ toCompensate' = toCompensate /\ pc'[r] = "finalise"
         /\ result'[r].final = outcome
  BY <1>1 DEF BeginSaga, Todo, DagResult, Failure, Success
<1>4. Validated(r)' /\ Launches(r)'
  <2>1. Validated(r)'
    BY <1>1, <1>2 DEF RunInv, Validated
  <2> QED
    BY <1>1, <1>2, <2>1, LaunchesSame DEF RunInv
<1>5. Futures(r)'
  BY <1>1, <1>2, <1>3 DEF RunInv, Futures, Before
<1>6. Decided(r)'
  BY <1>1, <1>2, <1>3 DEF RunInv, Decided, Undecided, Before
<1>7. Fails(r)'
  BY <1>2 DEF Fails
<1>8. Todo(r)' = Todo(r) /\ Todo(r) \in Seq(NodeIds)
  BY <1>1, <1>2, TodoSame, TodoTyped
<1>9. compensated[r] = << >> /\ toCompensate[r] = << >>
  BY <1>1 DEF RunInv, OnCourse, Undecided
<1>10. \A s \in Seq(NodeIds) : Compensations(<< >>, s) = s
  BY DEF Compensations
<1>11. OnCourse(r)'
  BY <1>2, <1>3, <1>8, <1>9, <1>10 DEF OnCourse, Undecided, Before
<1> QED
  BY <1>4, <1>5, <1>6, <1>7, <1>11 DEF RunInv

\* One compensation moves from what is left to what is done.
LEMMA CompensationMoves ==
    ASSUME NEW done \in Seq([node : NodeIds, ok : BOOLEAN]), NEW todo \in Seq(NodeIds),
           todo # << >>, NEW ok \in BOOLEAN
    PROVE  /\ Append(done, [node |-> Head(todo), ok |-> ok])
                 \in Seq([node : NodeIds, ok : BOOLEAN])
           /\ Compensations(Append(done, [node |-> Head(todo), ok |-> ok]), Tail(todo))
                 = Compensations(done, todo)
<1> DEFINE R == [node : NodeIds, ok : BOOLEAN]
           d == [node |-> Head(todo), ok |-> ok]
           done2 == Append(done, d)
           N == Len(done)
           a == [i \in 1..N |-> done[i].node]
           a2 == [i \in 1..Len(done2) |-> done2[i].node]
           t2 == Tail(todo)
<1>1. /\ Head(todo) \in NodeIds /\ t2 \in Seq(NodeIds) /\ Len(t2) = Len(todo) - 1
      /\ Len(todo) \in Nat \ {0} /\ \A i \in 1..Len(t2) : t2[i] = todo[i + 1]
      /\ Head(todo) = todo[1]
  BY HeadTailProperties
<1>2. d \in R /\ d.node = Head(todo)
  BY <1>1
<1> HIDE DEF d, t2
<1>3. /\ done2 \in Seq(R) /\ Len(done2) = N + 1 /\ N \in Nat /\ done2[N + 1] = d
      /\ \A i \in 1..N : done2[i] = done[i]
  BY <1>2
<1> HIDE DEF done2
<1>4. a \in Seq(NodeIds) /\ Len(a) = N /\ \A i \in 1..N : a[i] = done[i].node
  <2>0. \A i \in 1..N : done[i] \in R
    <3>1. done \in Seq(R)
      OBVIOUS
    <3> HIDE DEF R
    <3> QED
      BY <3>1, ElementOfSeq
  <2>1. \A i \in 1..N : done[i].node \in NodeIds
    BY <2>0
  <2> QED
    BY <1>3, <2>1
<1>5. a2 \in Seq(NodeIds) /\ Len(a2) = N + 1 /\ \A i \in 1..(N + 1) : a2[i] = done2[i].node
  <2>0. \A i \in 1..(N + 1) : done2[i] \in R
    <3> HIDE DEF R
    <3> QED
      BY <1>3
  <2>1. \A i \in 1..(N + 1) : done2[i].node \in NodeIds
    BY <2>0
  <2> QED
    BY <1>3, <2>1
<1> HIDE DEF a, a2, N, R
<1>6. /\ a2 \o t2 \in Seq(NodeIds) /\ Len(a2 \o t2) = (N + 1) + Len(t2)
      /\ \A i \in 1..((N + 1) + Len(t2)) :
            (a2 \o t2)[i] = IF i <= N + 1 THEN a2[i] ELSE t2[i - (N + 1)]
  <2>1. /\ a2 \o t2 \in Seq(NodeIds) /\ Len(a2 \o t2) = Len(a2) + Len(t2)
        /\ \A i \in 1..(Len(a2) + Len(t2)) :
              (a2 \o t2)[i] = IF i <= Len(a2) THEN a2[i] ELSE t2[i - Len(a2)]
    BY <1>1, <1>5, ConcatProperties
  <2> QED
    BY <1>5, <2>1
<1>7. /\ a \o todo \in Seq(NodeIds) /\ Len(a \o todo) = N + Len(todo)
      /\ \A i \in 1..(N + Len(todo)) :
            (a \o todo)[i] = IF i <= N THEN a[i] ELSE todo[i - N]
  BY <1>4, ConcatProperties
<1>8. Len(a2 \o t2) = Len(a \o todo)
  BY <1>1, <1>3, <1>6, <1>7
<1>9. \A i \in 1..Len(a2 \o t2) : (a2 \o t2)[i] = (a \o todo)[i]
  <2> TAKE i \in 1..Len(a2 \o t2)
  <2>1. i \in 1..((N + 1) + Len(t2)) /\ i \in 1..(N + Len(todo)) /\ i \in Nat
    BY <1>1, <1>3, <1>6
  <2>2. CASE i <= N
    <3>1. i \in 1..N /\ i \in 1..(N + 1) /\ i <= N + 1
      BY <1>3, <2>1, <2>2
    <3> QED
      BY <1>3, <1>4, <1>5, <1>6, <1>7, <2>1, <2>2, <3>1
  <2>3. CASE i = N + 1
    <3>1. i \in 1..(N + 1) /\ ~(i <= N) /\ i - N = 1 /\ i <= N + 1
      BY <1>3, <2>3
    <3> QED
      BY <1>1, <1>2, <1>3, <1>5, <1>6, <1>7, <2>1, <2>3, <3>1
  <2>4. CASE i > N + 1
    <3>1. ~(i <= N) /\ ~(i <= N + 1) /\ i - (N + 1) \in 1..Len(t2) /\ (i - (N + 1)) + 1 = i - N
      BY <1>1, <1>3, <2>1, <2>4, SMTT(20)
    <3> QED
      BY <1>1, <1>6, <1>7, <2>1, <3>1
  <2> QED
    <3>1. i <= N \/ i = N + 1 \/ i > N + 1
      BY <1>3, <2>1
    <3> QED
      BY <2>2, <2>3, <2>4, <3>1
<1>10. a2 \o t2 = a \o todo
  BY <1>6, <1>7, <1>8, <1>9, SeqEqual
<1> QED
  BY <1>3, <1>10 DEF Compensations, a, a2, done2, d, t2, N, R

LEMMA CompensateKept ==
    ASSUME IndInv, NEW r \in Runs, NEW ok \in BOOLEAN, Compensate(r, ok)
    PROVE  RunInv(r)'
<1> DEFINE done2 == Append(compensated[r], [node |-> Head(toCompensate[r]), ok |-> ok])
<1>1. /\ RunInv(r) /\ TypeOK /\ pc \in [Runs -> Pcs] /\ result \in [Runs -> Result]
      /\ verdict \in [Runs -> {"none", "completed", "failed"}]
      /\ toCompensate \in [Runs -> Seq(NodeIds)] /\ pc[r] = "compensate"
      /\ compensated \in [Runs -> Seq([node : NodeIds, ok : BOOLEAN])]
  BY DEF IndInv, TypeOK, Compensate
<1>2. /\ task' = task /\ topoOrder' = topoOrder /\ nodeState' = nodeState /\ stage' = stage
      /\ verdict' = verdict
  BY DEF Compensate
<1>3. compensated'[r] = done2 /\ toCompensate'[r] = Tail(toCompensate[r])
  BY <1>1 DEF Compensate
<1>4. toCompensate[r] # << >> /\ toCompensate[r] \in Seq(NodeIds) /\ verdict[r] # "none"
  BY <1>1 DEF RunInv, OnCourse, Decided
<1>5. \/ /\ Len(toCompensate[r]) > 1 /\ pc' = pc /\ result' = result
      \/ /\ ~(Len(toCompensate[r]) > 1) /\ pc'[r] = "finalise"
         /\ result'[r].final = verdict[r]
  <2>1. CASE Len(toCompensate[r]) > 1
    BY <2>1 DEF Compensate
  <2>2. CASE ~(Len(toCompensate[r]) > 1)
    <3>1. pc'[r] = "finalise" /\ \E saga : result'[r] = DagResult(verdict[r], saga)
      BY <1>1, <2>2 DEF Compensate
    <3>2. verdict[r] \in {"completed", "failed"}
      BY <1>1, <1>4
    <3> QED
      BY <2>2, <3>1, <3>2 DEF DagResult, Failure, Success
  <2> QED
    BY <2>1, <2>2
<1>6. Validated(r)' /\ Launches(r)' /\ Fails(r)'
  <2>1. Validated(r)' /\ Fails(r)'
    BY <1>1, <1>2 DEF RunInv, Validated, Fails
  <2> QED
    BY <1>1, <1>2, <2>1, LaunchesSame DEF RunInv
<1>7. Futures(r)'
  BY <1>1, <1>2, <1>5 DEF RunInv, Futures, Before
<1>8. Decided(r)'
  BY <1>1, <1>2, <1>4, <1>5 DEF RunInv, Decided, Undecided, Before
<1>9. OnCourse(r)'
  <2>1. Compensations(compensated'[r], toCompensate'[r]) = Todo(r)'
    <3>1. Compensations(compensated[r], toCompensate[r]) = Todo(r)
      BY <1>1, <1>4 DEF RunInv, OnCourse
    <3>2. Todo(r)' = Todo(r)
      BY <1>2, TodoSame
    <3>3. compensated[r] \in Seq([node : NodeIds, ok : BOOLEAN])
      BY <1>1
    <3>4. Compensations(done2, Tail(toCompensate[r])) = Compensations(compensated[r], toCompensate[r])
      BY <1>4, <3>3, CompensationMoves
    <3> QED
      BY <1>3, <3>1, <3>2, <3>4
  <2>2. /\ Len(toCompensate[r]) > 1 => Tail(toCompensate[r]) # << >>
        /\ ~(Len(toCompensate[r]) > 1) => Tail(toCompensate[r]) = << >>
    <3> DEFINE s == toCompensate[r]
    <3>1. s \in Seq(NodeIds) /\ s # << >>
      BY <1>4
    <3> HIDE DEF s
    <3>2. Tail(s) \in Seq(NodeIds) /\ Len(Tail(s)) = Len(s) - 1 /\ Len(s) \in Nat \ {0}
      BY <3>1, HeadTailProperties, EmptySeq
    <3> DEFINE q == Tail(s)
    <3> HIDE DEF q
    <3>3. q \in Seq(NodeIds) /\ Len(q) = Len(s) - 1
      BY <3>2 DEF q
    <3>4. Len(s) > 1 <=> q # << >>
      BY <3>2, <3>3
    <3> QED
      BY <3>4 DEF s, q
  <2> QED
    BY <1>1, <1>3, <1>5, <2>1, <2>2 DEF OnCourse, Undecided, Before
<1> QED
  BY <1>6, <1>7, <1>8, <1>9 DEF RunInv

-----------------------------------------------------------------------------
(* The invariant is inductive.                                              *)

\* What the results and the store's values are made of.
LEMMA ValuesTyped ==
    /\ NoSaga \in Saga
    /\ \A s \in Saga : Success(s) \in Result
    /\ \A c \in RefusalCodes \cup {"TASK_TIMEOUT", "RESOURCE_INSUFFICIENT",
             "SYNC_DEPENDENCY_FAILED", "COMPENSATION_NOT_SUPPORTED", "COMPENSATION_FAILED"},
         s \in Saga : Failure(c, s) \in Result
    /\ \A o \in {"completed", "failed"}, s \in Saga : DagResult(o, s) \in Result
<1>1. NoSaga \in Saga
  BY DEF NoSaga, Saga
<1>2. \A s \in Saga : Success(s) \in Result
  BY DEF Success, Result
<1>3. \A c \in RefusalCodes \cup {"TASK_TIMEOUT", "RESOURCE_INSUFFICIENT",
             "SYNC_DEPENDENCY_FAILED", "COMPENSATION_NOT_SUPPORTED", "COMPENSATION_FAILED"},
         s \in Saga : Failure(c, s) \in Result
  BY DEF Failure, Result, RefusalCodes
<1>4. \A s : CompensationFailureErrorCode(task, s) \in
          {"SYNC_DEPENDENCY_FAILED", "COMPENSATION_NOT_SUPPORTED", "COMPENSATION_FAILED"}
  BY DEF CompensationFailureErrorCode
<1> QED
  BY <1>1, <1>2, <1>3, <1>4 DEF DagResult

\* The store's operations keep its types.
LEMMA StoreTyped ==
    ASSUME TypeOK, NEW n \in NodeIds, NEW a \in Nat,
           NEW st \in TerminalNodeStates \cup {"running"}, UpdateSubtask(n, st, a)
    PROVE  subtask' \in [NodeIds -> Subtasks]
<1>1. subtask \in [NodeIds -> Subtasks]
  BY DEF TypeOK
<1>2. subtask[n].attempt \in Nat
  BY <1>1 DEF Subtasks
<1>3. [state |-> st, attempt |-> IF a > 0 THEN a ELSE subtask[n].attempt] \in Subtasks
  BY <1>2 DEF Subtasks
<1> HIDE DEF Subtasks
<1> QED
  BY <1>1, <1>3 DEF UpdateSubtask

LEMMA FinishTyped ==
    ASSUME TypeOK, NEW r \in Runs, NEW n \in NodeIds, NEW st \in TerminalNodeStates,
           NEW a \in Nat, UpdateSubtask(n, st, a), FinishNode(r, n, st), UNCHANGED attempt
    PROVE  TypeOK'
<1>1. subtask' \in [NodeIds -> Subtasks]
  BY StoreTyped
<1>2. stage' \in [Runs -> [NodeIds -> {"idle", "launched", "running", "backoff"}]]
  BY DEF FinishNode, TypeOK
<1>3. /\ nodeState' \in [Runs -> [NodeIds -> TerminalNodeStates \cup {"none"}]]
      /\ pc' \in [Runs -> Pcs] /\ verdict' \in [Runs -> {"none", "completed", "failed"}]
  <2>1. CASE pc[r] = "drain"
    BY <2>1 DEF FinishNode, TypeOK
  <2>2. CASE pc[r] # "drain"
    <3>1. nodeState' \in [Runs -> [NodeIds -> TerminalNodeStates \cup {"none"}]]
      <4>1. /\ nodeState' = [nodeState EXCEPT ![r] = [nodeState[r] EXCEPT ![n] = st]]
            /\ nodeState \in [Runs -> [NodeIds -> TerminalNodeStates \cup {"none"}]]
        BY <2>2 DEF FinishNode, TypeOK
      <4> QED
        BY <4>1
    <3>2. pc' \in [Runs -> Pcs]
      BY <2>2 DEF FinishNode, TypeOK, Pcs
    <3>3. verdict' \in [Runs -> {"none", "completed", "failed"}]
      BY <2>2 DEF FinishNode, TypeOK
    <3> QED
      BY <3>1, <3>2, <3>3
  <2> QED
    BY <2>1, <2>2
<1> QED
  BY <1>1, <1>2, <1>3 DEF FinishNode, TypeOK

LEMMA AttemptTyped ==
    ASSUME TypeOK, NEW r \in Runs, NEW n \in NodeIds, NEW a \in Nat, BeginAttempt(r, n, a)
    PROVE  TypeOK'
<1>1. subtask' \in [NodeIds -> Subtasks]
  BY StoreTyped DEF BeginAttempt
<1>2. /\ stage' \in [Runs -> [NodeIds -> {"idle", "launched", "running", "backoff"}]]
      /\ attempt' \in [Runs -> [NodeIds -> Nat]]
  BY DEF BeginAttempt, TypeOK
<1> QED
  BY <1>1, <1>2 DEF BeginAttempt, TypeOK

LEMMA NodeStepTyped ==
    ASSUME TypeOK, NEW r \in Runs, NEW n \in NodeIds, NodeStep(r, n)
    PROVE  TypeOK'
<1>1. attempt[r][n] \in Nat
  BY DEF TypeOK
<1>2. CASE StartNode(r, n)
  BY <1>2, AttemptTyped DEF StartNode
<1>3. CASE RetryNode(r, n)
  BY <1>1, <1>3, AttemptTyped DEF RetryNode
<1>4. CASE SkipNode(r, n)
  BY <1>4, FinishTyped DEF SkipNode, TerminalNodeStates
<1>5. CASE ConditionError(r, n)
  BY <1>5, FinishTyped DEF ConditionError, TerminalNodeStates
<1>6. CASE AttemptSucceeds(r, n)
  BY <1>1, <1>6, FinishTyped DEF AttemptSucceeds, TerminalNodeStates
<1>7. ASSUME NEW code \in ErrorCodes, AttemptFails(r, n, code) PROVE TypeOK'
  <2>1. CASE ShouldRetry(task, n, code, attempt[r][n])
    <3>1. stage' \in [Runs -> [NodeIds -> {"idle", "launched", "running", "backoff"}]]
      <4>1. /\ stage' = [stage EXCEPT ![r][n] = "backoff"]
            /\ stage \in [Runs -> [NodeIds -> {"idle", "launched", "running", "backoff"}]]
        BY <1>7, <2>1 DEF AttemptFails, TypeOK
      <4> QED
        BY <4>1
    <3> QED
      BY <1>7, <2>1, <3>1 DEF AttemptFails, TypeOK, store
  <2>2. CASE ~ShouldRetry(task, n, code, attempt[r][n])
    <3>1. /\ UpdateSubtask(n, "failed", attempt[r][n]) /\ FinishNode(r, n, "failed")
          /\ UNCHANGED attempt
      BY <1>7, <2>2 DEF AttemptFails
    <3> QED
      BY <1>1, <3>1, FinishTyped DEF TerminalNodeStates
  <2> QED
    BY <2>1, <2>2
<1> QED
  BY <1>2, <1>3, <1>4, <1>5, <1>6, <1>7 DEF NodeStep

LEMMA SagaTyped ==
    ASSUME TypeOK, NEW r \in Runs, NEW outcome \in {"completed", "failed"},
           BeginSaga(r, outcome)
    PROVE  TypeOK'
<1> DEFINE runs == IF outcome = "failed" THEN RunsOnFailure(task.policy)
                                         ELSE RunsOnSuccess(task.policy)
           missing == IF task.policy = "strict"
                      THEN ToSet(CompletedInReverse(r)) \ task.compensable ELSE {}
           saga == IF runs THEN [attempted |-> 0, failed |-> missing] ELSE NoSaga
<1>1. CompletedInReverse(r) \in Seq(NodeIds) /\ Todo(r) \in Seq(NodeIds)
  BY TodoTyped
<1>2. missing \subseteq NodeIds
  BY <1>1 DEF ToSet
<1>3. saga \in Saga
  <2> HIDE DEF missing, runs
  <2> QED
    BY <1>2, ValuesTyped DEF Saga
<1>4. DagResult(outcome, saga) \in Result
  <2> HIDE DEF saga
  <2> QED
    BY <1>3, ValuesTyped
<1>5. \/ /\ UpdateState("compensating") /\ result' = result
         /\ toCompensate' = [toCompensate EXCEPT ![r] = Todo(r)]
         /\ pc' = [pc EXCEPT ![r] = "compensate"]
      \/ /\ result' = [result EXCEPT ![r] = DagResult(outcome, saga)]
         /\ pc' = [pc EXCEPT ![r] = "finalise"]
         /\ taskState' = taskState /\ toCompensate' = toCompensate
  BY DEF BeginSaga, Todo
<1> HIDE DEF saga
<1>6. taskState' \in TaskStates
  BY <1>5 DEF UpdateState, TaskStates, TypeOK
<1>7. toCompensate' \in [Runs -> Seq(NodeIds)]
  BY <1>1, <1>5 DEF TypeOK
<1>8. pc' \in [Runs -> Pcs]
  BY <1>5 DEF TypeOK, Pcs
<1>9. result' \in [Runs -> Result]
  <2> HIDE DEF Result
  <2> QED
    BY <1>4, <1>5 DEF TypeOK
<1>10. verdict' \in [Runs -> {"none", "completed", "failed"}]
  BY DEF BeginSaga, TypeOK
<1> QED
  BY <1>6, <1>7, <1>8, <1>9, <1>10 DEF BeginSaga, TypeOK

LEMMA CompensateTyped ==
    ASSUME IndInv, NEW r \in Runs, NEW ok \in BOOLEAN, Compensate(r, ok)
    PROVE  TypeOK'
<1> DEFINE R == [node : NodeIds, ok : BOOLEAN]
           done2 == Append(compensated[r], [node |-> Head(toCompensate[r]), ok |-> ok])
           saga == [attempted |-> Len(done2),
                    failed |-> {d.node : d \in {x \in ToSet(done2) : ~x.ok}}]
<1>1. /\ compensated[r] \in Seq(R) /\ toCompensate[r] \in Seq(NodeIds) /\ pc[r] = "compensate"
      /\ toCompensate[r] # << >> /\ verdict[r] \in {"completed", "failed"} /\ TypeOK
  BY DEF IndInv, TypeOK, RunInv, OnCourse, Decided, Compensate
<1>2. done2 \in Seq(R)
  BY <1>1, CompensationMoves
<1>3. Tail(toCompensate[r]) \in Seq(NodeIds)
  BY <1>1, HeadTailProperties
<1> HIDE DEF done2
<1>4. saga \in Saga
  <2>1. \A x \in ToSet(done2) : x \in R
    <3> HIDE DEF R
    <3> QED
      BY <1>2 DEF ToSet
  <2>2. \A x \in ToSet(done2) : x.node \in NodeIds
    BY <2>1
  <2>3. Len(done2) \in Nat
    BY <1>2
  <2> QED
    BY <2>2, <2>3 DEF Saga
<1> HIDE DEF saga
<1>5. DagResult(verdict[r], saga) \in Result
  BY <1>1, <1>4, ValuesTyped
<1>6. /\ compensated' = [compensated EXCEPT ![r] = done2]
      /\ toCompensate' = [toCompensate EXCEPT ![r] = Tail(toCompensate[r])]
      /\ \/ pc' = pc /\ result' = result
         \/ /\ pc' = [pc EXCEPT ![r] = "finalise"]
            /\ result' = [result EXCEPT ![r] = DagResult(verdict[r], saga)]
  BY <1>1 DEF Compensate, TypeOK, done2, saga
<1>7. compensated' \in [Runs -> Seq(R)] /\ toCompensate' \in [Runs -> Seq(NodeIds)]
  <2> HIDE DEF R
  <2>1. compensated \in [Runs -> Seq(R)]
    BY <1>1 DEF TypeOK, R
  <2>2. compensated' \in [Runs -> Seq(R)]
    BY <1>2, <1>6, <2>1
  <2> QED
    BY <1>1, <1>3, <1>6, <2>2 DEF TypeOK
<1>8. pc' \in [Runs -> Pcs]
  BY <1>1, <1>6 DEF TypeOK, Pcs
<1>9. result' \in [Runs -> Result]
  <2> HIDE DEF Result
  <2> QED
    BY <1>1, <1>5, <1>6, ZenonT(20) DEF TypeOK
<1> QED
  BY <1>1, <1>7, <1>8, <1>9 DEF Compensate, TypeOK, store

LEMMA ExecuteTyped ==
    ASSUME TypeOK, NEW r \in Runs, Execute(r)
    PROVE  TypeOK'
<1> DEFINE v == ValidateDag(task)
           refusal == RefusalCode(task, v)
           code == IF refusal = "none" /\ taskState # "absent"
                   THEN "TASK_ALREADY_COMPLETED" ELSE refusal
<1>1. /\ refusal \in RefusalCodes
      /\ refusal = "none" => v.order \in Seq(NodeIds)
  BY ValidationGives DEF TypeOK
<1>2. code \in RefusalCodes /\ (code = "none" => v.order \in Seq(NodeIds))
  <2> HIDE DEF refusal, v
  <2> QED
    BY <1>1 DEF RefusalCodes
<1>3. \/ /\ pc' = [pc EXCEPT ![r] = "save"] /\ code = "none" /\ result' = result
         /\ topoOrder' = [topoOrder EXCEPT ![r] = v.order]
      \/ /\ pc' = [pc EXCEPT ![r] = "done"] /\ topoOrder' = topoOrder
         /\ result' = [result EXCEPT ![r] = Failure(code, NoSaga)]
  BY DEF Execute
<1> HIDE DEF v, code
<1>4. Failure(code, NoSaga) \in Result
  BY <1>2, ValuesTyped
<1>5. pc' \in [Runs -> Pcs] /\ topoOrder' \in [Runs -> Seq(NodeIds)]
  <2>1. pc' \in [Runs -> Pcs]
    BY <1>3 DEF TypeOK, Pcs
  <2> QED
    BY <1>2, <1>3, <2>1 DEF TypeOK
<1>6. result' \in [Runs -> Result]
  <2> HIDE DEF Result
  <2> QED
    BY <1>3, <1>4 DEF TypeOK
<1> QED
  BY <1>5, <1>6 DEF Execute, TypeOK, store, locals

LEMMA PlainTyped ==
    ASSUME IndInv, NEW r \in Runs, PlainStep(r)
    PROVE  TypeOK'
<1>0. TypeOK /\ pc \in [Runs -> Pcs] /\ result \in [Runs -> Result] /\ taskState \in TaskStates
  BY DEF IndInv, TypeOK
<1>1. CASE Save(r)
  <2>1. taskState' \in TaskStates /\ pc' \in [Runs -> Pcs]
    BY <1>0, <1>1 DEF Save, TaskStates, Pcs
  <2> QED
    BY <1>0, <1>1, <2>1 DEF Save, TypeOK, locals
<1>2. CASE Begin(r)
  <2>1. taskState' \in TaskStates /\ pc' \in [Runs -> Pcs]
    BY <1>0, <1>2 DEF Begin, UpdateState, TaskStates, Pcs
  <2> QED
    BY <1>0, <1>2, <2>1 DEF Begin, TypeOK, locals
<1>3. CASE PreflightPasses(r)
  <2>1. taskState' \in TaskStates /\ pc' \in [Runs -> Pcs]
    BY <1>0, <1>3 DEF PreflightPasses, UpdateState, TaskStates, Pcs
  <2> QED
    BY <1>0, <1>3, <2>1 DEF PreflightPasses, TypeOK, locals
<1>4. CASE PreflightFails(r)
  <2>1. taskState' \in TaskStates /\ pc' \in [Runs -> Pcs]
    BY <1>0, <1>4 DEF PreflightFails, UpdateState, TaskStates, Pcs
  <2>2. result' \in [Runs -> Result]
    <3>1. Failure("RESOURCE_INSUFFICIENT", NoSaga) \in Result
      BY ValuesTyped
    <3> HIDE DEF Result
    <3> QED
      BY <1>0, <1>4, <3>1 DEF PreflightFails
  <2> QED
    BY <1>0, <1>4, <2>1, <2>2 DEF PreflightFails, TypeOK, locals
<1>5. CASE LeaveLoop(r)
  <2>1. pc' \in [Runs -> Pcs]
    BY <1>0, <1>5 DEF LeaveLoop, Pcs
  <2> QED
    BY <1>0, <1>5, <2>1 DEF LeaveLoop, TypeOK, locals, store
<1>6. CASE Finalise(r)
  <2>1. result[r].final \in {"completed", "failed"}
    <3>1. result[r].final # "none" /\ result[r].final \in {"none", "completed", "failed"}
      BY <1>0, <1>6 DEF IndInv, RunInv, Decided, Finalise, Result
    <3> QED
      BY <3>1
  <2>2. taskState' \in TaskStates
    BY <1>0, <1>6, <2>1 DEF Finalise, UpdateState, TaskStates
  <2>3. pc' \in [Runs -> Pcs]
    BY <1>0, <1>6 DEF Finalise, Pcs
  <2>4. callbackTry' \in [Runs -> 0..CallbackMaxRetries]
    BY <1>0, <1>6, OrchestratorOptionsAssumption DEF Finalise, TypeOK
  <2> QED
    BY <1>0, <1>6, <2>2, <2>3, <2>4 DEF Finalise, TypeOK
<1>7. CASE CallbackAccepted(r)
  <2>1. pc' \in [Runs -> Pcs]
    BY <1>0, <1>7 DEF CallbackAccepted, Pcs
  <2> QED
    BY <1>0, <1>7, <2>1 DEF CallbackAccepted, TypeOK, locals, store
<1>8. CASE CallbackFails(r)
  <2>1. pc' \in [Runs -> Pcs] /\ callbackTry' \in [Runs -> 0..CallbackMaxRetries]
    <3>1. callbackTry \in [Runs -> 0..CallbackMaxRetries] /\ callbackTry[r] \in 0..CallbackMaxRetries
      BY <1>0 DEF TypeOK
    <3>2. CASE callbackTry[r] < CallbackMaxRetries
      <4>1. callbackTry[r] + 1 \in 0..CallbackMaxRetries
        BY <3>1, <3>2, OrchestratorOptionsAssumption
      <4>2. callbackTry' = [callbackTry EXCEPT ![r] = callbackTry[r] + 1] /\ pc' = pc
        BY <1>8, <3>1, <3>2 DEF CallbackFails
      <4> QED
        BY <1>0, <3>1, <4>1, <4>2
    <3>3. CASE ~(callbackTry[r] < CallbackMaxRetries)
      BY <1>0, <1>8, <3>1, <3>3 DEF CallbackFails, Pcs
    <3> QED
      BY <3>2, <3>3
  <2> QED
    BY <1>0, <1>8, <2>1 DEF CallbackFails, TypeOK, store
<1> QED
  BY <1>1, <1>2, <1>3, <1>4, <1>5, <1>6, <1>7, <1>8 DEF PlainStep

LEMMA ScheduleTyped ==
    ASSUME TypeOK, NEW r \in Runs, Schedule(r)
    PROVE  TypeOK'
<1>1. pc' \in [Runs -> Pcs]
  BY DEF Schedule, TypeOK, Pcs
<1>2. nodeState' \in [Runs -> [NodeIds -> TerminalNodeStates \cup {"none"}]]
  BY DEF Schedule, TypeOK, TerminalNodeStates
<1>3. stage' \in [Runs -> [NodeIds -> {"idle", "launched", "running", "backoff"}]]
  BY DEF Schedule, TypeOK
<1>4. subtask' \in [NodeIds -> Subtasks]
  <2>1. [state |-> "failed", attempt |-> 1] \in Subtasks
    BY DEF Subtasks, TerminalNodeStates
  <2> HIDE DEF Subtasks
  <2> QED
    BY <2>1 DEF Schedule, TypeOK
<1> QED
  BY <1>1, <1>2, <1>3, <1>4 DEF Schedule, TypeOK

LEMMA TimeoutTyped ==
    ASSUME TypeOK, NEW r \in Runs, Timeout(r)
    PROVE  TypeOK'
<1>1. taskState' \in TaskStates /\ pc' \in [Runs -> Pcs]
  BY DEF Timeout, UpdateState, TaskStates, Pcs, TypeOK
<1>2. result' \in [Runs -> Result]
  <2>1. Failure("TASK_TIMEOUT", NoSaga) \in Result
    BY ValuesTyped
  <2> HIDE DEF Result
  <2> QED
    BY <2>1 DEF Timeout, TypeOK
<1>3. stage' \in [Runs -> [NodeIds -> {"idle", "launched", "running", "backoff"}]]
  BY DEF Timeout, TypeOK
<1> QED
  BY <1>1, <1>2, <1>3 DEF Timeout, TypeOK

\* Both ways into the saga.
LEMMA EndsKept ==
    ASSUME IndInv, NEW r \in Runs, Drained(r) \/ Conclude(r)
    PROVE  RunInv(r)' /\ TypeOK'
<1>0. RunInv(r) /\ TypeOK
  BY DEF IndInv
<1>1. CASE Drained(r)
  <2>1. pc[r] = "drain" /\ InFlight(r) = {} /\ BeginSaga(r, "failed")
    BY <1>1 DEF Drained, DrainEmpty
  <2>2. \A n \in NodeIds : stage[r][n] = "idle"
    BY <2>1 DEF InFlight
  <2>3. verdict[r] = "failed"
    BY <1>0, <2>1 DEF RunInv, Decided
  <2>4. InputsFollowEdges(task) => \E e \in EndNodes(task) : nodeState[r][e] \notin Succeeded
    BY <1>0, <2>3 DEF RunInv, Fails
  <2>5. RunInv(r)'
    BY <2>1, <2>2, <2>4, BeginSagaKept
  <2> QED
    BY <1>0, <2>1, <2>5, SagaTyped
<1>2. CASE Conclude(r)
  <2> DEFINE outcome == IF EndFailed(r) THEN "failed" ELSE "completed"
  <2>1. pc[r] = "conclude" /\ BeginSaga(r, outcome)
    BY <1>2 DEF Conclude
  <2>2. \A n \in NodeIds : stage[r][n] = "idle"
    BY <1>0, <2>1 DEF RunInv, Futures
  <2>3. outcome \in {"completed", "failed"}
    OBVIOUS
  <2>4. outcome = "failed" => \E e \in EndNodes(task) : nodeState[r][e] \notin Succeeded
    BY DEF EndFailed, Succeeded
  <2> HIDE DEF outcome
  <2>5. RunInv(r)'
    BY <2>1, <2>2, <2>3, <2>4, BeginSagaKept
  <2> QED
    BY <1>0, <2>1, <2>3, <2>5, SagaTyped
<1> QED
  BY <1>1, <1>2

\* The locals of the other runs.
LEMMA OthersSame ==
    ASSUME TypeOK, NEW r \in Runs, NEW q \in Runs, q # r,
           \/ LifecycleStep(r) \/ Timeout(r)
           \/ \E n \in NodeIds : NodeStep(r, n)
    PROVE  task' = task /\ Same(q)
<1>1. CASE \E n \in NodeIds : NodeStep(r, n)
  <2>1. PICK n \in NodeIds : NodeStep(r, n)
    BY <1>1
  <2>2. ASSUME NEW st, FinishNode(r, n, st) PROVE task' = task /\ Same(q)
    BY <2>2 DEF TypeOK, Same, FinishNode
  <2>3. ASSUME NEW a, BeginAttempt(r, n, a) PROVE task' = task /\ Same(q)
    BY <2>3 DEF TypeOK, Same, BeginAttempt
  <2>4. ASSUME NEW code \in ErrorCodes, AttemptFails(r, n, code) PROVE task' = task /\ Same(q)
    <3>1. CASE ShouldRetry(task, n, code, attempt[r][n])
      BY <2>4, <3>1 DEF TypeOK, Same, AttemptFails
    <3>2. CASE ~ShouldRetry(task, n, code, attempt[r][n])
      BY <2>2, <2>4, <3>2 DEF AttemptFails
    <3> QED
      BY <3>1, <3>2
  <2> QED
    BY <2>1, <2>2, <2>3, <2>4
       DEF NodeStep, StartNode, SkipNode, ConditionError, AttemptSucceeds, RetryNode
<1>2. CASE Timeout(r)
  BY <1>2 DEF TypeOK, Same, Timeout
<1>3. CASE Execute(r)
  BY <1>3 DEF TypeOK, Same, Execute, locals
<1>4. CASE PlainStep(r)
  BY <1>4 DEF TypeOK, Same, PlainStep, Save, Begin, PreflightPasses, PreflightFails, LeaveLoop,
              Finalise, CallbackAccepted, CallbackFails, locals
<1>5. CASE Schedule(r)
  BY <1>5 DEF TypeOK, Same, Schedule
<1>6. CASE Drained(r) \/ Conclude(r)
  <2>1. PICK outcome : BeginSaga(r, outcome)
    BY <1>6 DEF Drained, Conclude
  <2> QED
    BY <2>1 DEF TypeOK, Same, BeginSaga
<1>7. ASSUME NEW ok \in BOOLEAN, Compensate(r, ok) PROVE task' = task /\ Same(q)
  BY <1>7 DEF TypeOK, Same, Compensate
<1> QED
  BY <1>1, <1>2, <1>3, <1>4, <1>5, <1>6, <1>7 DEF LifecycleStep, PlainStep

\* Every step of a run keeps the types and the run's invariant.
LEMMA OwnKept ==
    ASSUME IndInv, NEW r \in Runs,
           \/ LifecycleStep(r) \/ Timeout(r)
           \/ \E n \in NodeIds : NodeStep(r, n)
    PROVE  TypeOK' /\ RunInv(r)'
<1>0. TypeOK
  BY DEF IndInv
<1>1. CASE \E n \in NodeIds : NodeStep(r, n)
  BY <1>0, <1>1, NodeStepKept, NodeStepTyped
<1>2. CASE Timeout(r)
  BY <1>0, <1>2, TimeoutKept, TimeoutTyped
<1>3. CASE Execute(r)
  BY <1>0, <1>3, ExecuteKept, ExecuteTyped
<1>4. CASE PlainStep(r)
  BY <1>4, PlainKept, PlainTyped
<1>5. CASE Schedule(r)
  BY <1>0, <1>5, ScheduleKept, ScheduleTyped
<1>6. CASE Drained(r) \/ Conclude(r)
  BY <1>6, EndsKept
<1>7. ASSUME NEW ok \in BOOLEAN, Compensate(r, ok) PROVE TypeOK' /\ RunInv(r)'
  BY <1>7, CompensateKept, CompensateTyped
<1> QED
  BY <1>1, <1>2, <1>3, <1>4, <1>5, <1>6, <1>7 DEF LifecycleStep, PlainStep

LEMMA InitHolds == Init => IndInv
<1> SUFFICES ASSUME Init PROVE IndInv
  OBVIOUS
<1>1. TypeOK
  <2>1. NoResult \in Result
    BY DEF NoResult, Result, NoSaga, Saga
  <2>2. NoSubtask \in Subtasks
    BY DEF NoSubtask, Subtasks
  <2> HIDE DEF Result, Subtasks
  <2>3. << >> \in Seq(NodeIds) /\ << >> \in Seq([node : NodeIds, ok : BOOLEAN])
    OBVIOUS
  <2>4. 0 \in 0..CallbackMaxRetries
    BY OrchestratorOptionsAssumption
  <2> QED
    BY <2>1, <2>2, <2>3, <2>4 DEF Init, TypeOK, TaskStates, Pcs
<1>2. ASSUME NEW r \in Runs PROVE RunInv(r)
  <2>1. /\ pc[r] = "start" /\ topoOrder[r] = << >> /\ verdict[r] = "none"
        /\ \A n \in NodeIds : nodeState[r][n] = "none" /\ stage[r][n] = "idle"
        /\ compensated[r] = << >> /\ toCompensate[r] = << >> /\ result[r].final = "none"
    BY DEF Init, NoResult
  <2>2. InFlight(r) = {}
    BY <2>1 DEF InFlight
  <2>3. Launches(r)
    BY <2>1, <2>2, FS_EmptySet, OrchestratorOptionsAssumption DEF Launches, Succeeded
  <2> QED
    BY <2>1, <2>3 DEF RunInv, Validated, Futures, Decided, Fails, OnCourse
<1> QED
  BY <1>1, <1>2 DEF IndInv

LEMMA NextKept == IndInv /\ [Next]_vars => IndInv'
<1> SUFFICES ASSUME IndInv, [Next]_vars PROVE IndInv'
  OBVIOUS
<1>0. TypeOK
  BY DEF IndInv
<1>1. ASSUME NEW r \in Runs,
             \/ LifecycleStep(r) \/ Timeout(r)
             \/ \E n \in NodeIds : NodeStep(r, n)
      PROVE  IndInv'
  <2>1. TypeOK' /\ RunInv(r)'
    BY <1>1, OwnKept
  <2>2. ASSUME NEW q \in Runs, q # r PROVE RunInv(q)'
    <3>1. task' = task /\ Same(q)
      BY <1>0, <1>1, <2>2, OthersSame
    <3> QED
      BY <3>1, FrameKept DEF IndInv
  <2> QED
    BY <2>1, <2>2 DEF IndInv
<1>2. CASE Cancel
  <2>1. TypeOK'
    <3>1. taskState' \in TaskStates
      BY <1>0, <1>2 DEF Cancel, UpdateState, TypeOK, TaskStates
    <3> QED
      BY <1>0, <1>2, <3>1 DEF Cancel, TypeOK, locals
  <2>2. ASSUME NEW q \in Runs PROVE RunInv(q)'
    <3>1. task' = task /\ Same(q)
      BY <1>2 DEF Cancel, Same, locals
    <3> QED
      BY <3>1, FrameKept DEF IndInv
  <2> QED
    BY <2>1, <2>2 DEF IndInv
<1>3. CASE UNCHANGED vars
  <2>1. TypeOK'
    BY <1>0, <1>3 DEF vars, TypeOK
  <2>2. ASSUME NEW q \in Runs PROVE RunInv(q)'
    <3>1. task' = task /\ Same(q)
      BY <1>3 DEF vars, Same
    <3> QED
      BY <3>1, FrameKept DEF IndInv
  <2> QED
    BY <2>1, <2>2 DEF IndInv
<1> QED
  BY <1>1, <1>2, <1>3 DEF Next

-----------------------------------------------------------------------------
(* What holds of every run, whatever others run beside it.                  *)

\* The invariant of every run holds in every behaviour of the orchestrator
\* (orchestrator.rs, execute and run_dag), for any number of runs.
THEOREM Inductive == Spec => []IndInv
<1>1. Init => IndInv
  BY InitHolds
<1>2. IndInv /\ [Next]_vars => IndInv'
  BY NextKept
<1> QED
  BY <1>1, <1>2, PTL DEF Spec

\* The task record and every run's locals have their declared shape, and the
\* callback is tried at most CallbackMaxRetries times (callback.rs:48-77).
THEOREM TypeCorrect == Spec => []TypeOK
<1>1. IndInv => TypeOK
  BY DEF IndInv
<1> QED
  BY <1>1, Inductive, PTL

\* A node runs only when its K inputs have succeeded, and max_concurrent_nodes
\* is never exceeded, for every dag, every K and every limit
\* (orchestrator.rs:266-343, 867-899).
THEOREM LaunchJustifiedHolds == Spec => []LaunchJustified
<1>1. IndInv => LaunchJustified
  <2> SUFFICES ASSUME IndInv, NEW r \in Runs
               PROVE  /\ Cardinality(InFlight(r)) <= MaxConcurrentNodes
                      /\ \A n \in Declared(task) :
                            (stage[r][n] # "idle" \/ nodeState[r][n] \in {"completed", "skipped"}) =>
                                \/ task.inputFrom[n] = {}
                                \/ Cardinality({d \in task.inputFrom[n] :
                                       nodeState[r][d] \in {"completed", "skipped"}}) >= K(task, n)
    BY DEF LaunchJustified
  <2>1. Launches(r) /\ task \in Tasks
    BY DEF IndInv, RunInv, TypeOK
  <2>2. Declared(task) \subseteq NodeIds
    BY <2>1, TasksAssumption DEF IsDag, Declared, ToSet
  <2> QED
    BY <2>1, <2>2 DEF Launches, Met, SucceededDeps, Succeeded
<1> QED
  BY <1>1, Inductive, PTL

\* run_dag fails a task whose inputs follow its edges only when an end node did
\* not succeed: aborting early on a failure never takes down a task whose end
\* nodes have all met their K (orchestrator.rs:349-437, 903-951).
THEOREM FailureJustifiedHolds == Spec => []FailureJustified
<1>1. IndInv => FailureJustified
  BY DEF IndInv, RunInv, Fails, FailureJustified, Succeeded
<1> QED
  BY <1>1, Inductive, PTL

\* The state of a node, once decided, never changes (orchestrator.rs:264-399).
THEOREM NodesStayDecidedHolds == Spec => NodesStayDecided
<1> DEFINE Kept == \A r \in Runs, n \in NodeIds :
                       nodeState[r][n] # "none" => nodeState'[r][n] = nodeState[r][n]
<1>1. ASSUME IndInv, Next PROVE Kept
  <2> SUFFICES ASSUME NEW q \in Runs, NEW m \in NodeIds, nodeState[q][m] # "none"
               PROVE  nodeState'[q][m] = nodeState[q][m]
    OBVIOUS
  <2>0. TypeOK /\ \A r \in Runs : Futures(r)
    BY <1>1 DEF IndInv, RunInv
  <2>1. ASSUME NEW r \in Runs, Schedule(r) PROVE nodeState'[q][m] = nodeState[q][m]
    <3>1. m \notin Ready(r) \/ q # r
      BY DEF Ready
    <3> QED
      BY <2>0, <2>1, <3>1 DEF Schedule, TypeOK
  <2>2. ASSUME NEW r \in Runs, NEW n \in NodeIds, NEW st, FinishNode(r, n, st),
               stage[r][n] # "idle"
        PROVE  nodeState'[q][m] = nodeState[q][m]
    <3>1. nodeState[r][n] = "none"
      BY <2>0, <2>2 DEF Futures
    <3>2. \/ nodeState' = nodeState
          \/ nodeState' = [nodeState EXCEPT ![r] = [nodeState[r] EXCEPT ![n] = st]]
      BY <2>2 DEF FinishNode
    <3>3. /\ nodeState \in [Runs -> [NodeIds -> TerminalNodeStates \cup {"none"}]]
          /\ q # r \/ m # n
      BY <2>0, <3>1 DEF TypeOK
    <3>4. CASE nodeState' = [nodeState EXCEPT ![r] = [nodeState[r] EXCEPT ![n] = st]]
      BY <3>3, <3>4
    <3> QED
      BY <3>2, <3>4
  <2>3. ASSUME NEW r \in Runs, NEW n \in NodeIds, NodeStep(r, n)
        PROVE  nodeState'[q][m] = nodeState[q][m]
    <3>1. ASSUME NEW code \in ErrorCodes, AttemptFails(r, n, code)
          PROVE  nodeState'[q][m] = nodeState[q][m]
      <4>1. CASE ShouldRetry(task, n, code, attempt[r][n])
        BY <3>1, <4>1 DEF AttemptFails
      <4>2. CASE ~ShouldRetry(task, n, code, attempt[r][n])
        BY <2>2, <3>1, <4>2 DEF AttemptFails
      <4> QED
        BY <4>1, <4>2
    <3>2. CASE SkipNode(r, n) \/ ConditionError(r, n) \/ AttemptSucceeds(r, n)
      BY <2>2, <3>2 DEF SkipNode, ConditionError, AttemptSucceeds
    <3>3. CASE StartNode(r, n) \/ RetryNode(r, n)
      BY <3>3 DEF StartNode, RetryNode, BeginAttempt
    <3> QED
      BY <2>3, <3>1, <3>2, <3>3 DEF NodeStep
  <2>4. ASSUME NEW r \in Runs, LifecycleStep(r) \/ Timeout(r), ~Schedule(r)
        PROVE  nodeState' = nodeState
    BY <2>4 DEF LifecycleStep, Timeout, Execute, Save, Begin, PreflightPasses, PreflightFails,
                LeaveLoop, Drained, Conclude, BeginSaga, Compensate, Finalise, CallbackAccepted,
                CallbackFails, locals
  <2>5. Cancel => nodeState' = nodeState
    BY DEF Cancel, locals
  <2> QED
    BY <1>1, <2>1, <2>3, <2>4, <2>5 DEF Next
<1>2. IndInv /\ [Next]_vars => [Kept]_vars
  BY <1>1
<1>3. NodesStayDecided <=> [][Kept]_vars
  BY DEF NodesStayDecided
<1> QED
  BY <1>2, <1>3, Inductive, PTL DEF Spec

\* What has been undone, the running compensation included, is the beginning of
\* what is to be undone.
LEMMA UndonePrefix ==
    ASSUME IndInv, NEW r \in Runs, Undone(r) # << >>
    PROVE  /\ DOMAIN Undone(r) = 1..Len(Undone(r)) /\ Len(Undone(r)) \in Nat
           /\ Len(Undone(r)) <= Len(Todo(r))
           /\ \A i \in 1..Len(Undone(r)) : Undone(r)[i] = Todo(r)[i]
           /\ toCompensate[r] = << >> => Undone(r) = Todo(r)
<1> DEFINE R == [node : NodeIds, ok : BOOLEAN]
           done == compensated[r]
           todo == toCompensate[r]
           a == [i \in 1..Len(done) |-> done[i].node]
           h == IF todo = << >> THEN << >> ELSE <<Head(todo)>>
           N == Len(done)
<1>1. done \in Seq(R) /\ todo \in Seq(NodeIds) /\ OnCourse(r)
  BY DEF IndInv, TypeOK, RunInv
<1>2. N \in Nat /\ DOMAIN done = 1..N /\ \A i \in 1..N : done[i] \in R
  <2> HIDE DEF R, done
  <2> QED
    BY <1>1, ElementOfSeq, LenProperties
<1>3. a \in Seq(NodeIds) /\ Len(a) = N
  <2>1. \A i \in 1..N : done[i].node \in NodeIds
    BY <1>2
  <2> HIDE DEF done
  <2> QED
    BY <1>2, <2>1
<1>4. Undone(r) = a \o h
  <2>1. [i \in DOMAIN done |-> done[i].node] = a
    BY <1>2
  <2> QED
    BY <2>1 DEF Undone
<1>5. Compensations(done, todo) = a \o todo
  BY DEF Compensations
<1> HIDE DEF done, todo, a, N, R
<1>6. /\ h \in Seq(NodeIds) /\ Len(h) <= Len(todo) /\ Len(todo) \in Nat /\ Len(h) \in Nat
      /\ \A i \in 1..Len(h) : h[i] = todo[i]
  <2>1. CASE todo = << >>
    BY <1>1, <2>1
  <2>2. CASE todo # << >>
    <3>1. Head(todo) \in NodeIds /\ Len(todo) \in Nat \ {0} /\ Head(todo) = todo[1]
      BY <1>1, <2>2, HeadTailProperties
    <3>2. h = <<Head(todo)>>
      BY <2>2
    <3> HIDE DEF h
    <3>3. h \in Seq(NodeIds) /\ Len(h) = 1 /\ h[1] = todo[1]
      BY <3>1, <3>2
    <3> QED
      BY <3>1, <3>3
  <2> QED
    BY <2>1, <2>2
<1> DEFINE u == a \o h
           c == a \o todo
<1>7. /\ u \in Seq(NodeIds) /\ Len(u) = N + Len(h)
      /\ \A i \in 1..(N + Len(h)) : u[i] = IF i <= N THEN a[i] ELSE h[i - N]
  <2> HIDE DEF h
  <2>1. /\ u \in Seq(NodeIds) /\ Len(u) = Len(a) + Len(h)
        /\ \A i \in 1..(Len(a) + Len(h)) : u[i] = IF i <= Len(a) THEN a[i] ELSE h[i - Len(a)]
    BY <1>3, <1>6, ConcatProperties
  <2> QED
    BY <1>3, <2>1
<1>8. /\ c \in Seq(NodeIds) /\ Len(c) = N + Len(todo)
      /\ \A i \in 1..(N + Len(todo)) : c[i] = IF i <= N THEN a[i] ELSE todo[i - N]
  <2>1. /\ c \in Seq(NodeIds) /\ Len(c) = Len(a) + Len(todo)
        /\ \A i \in 1..(Len(a) + Len(todo)) : c[i] = IF i <= Len(a) THEN a[i] ELSE todo[i - Len(a)]
    BY <1>1, <1>3, ConcatProperties
  <2> QED
    BY <1>3, <2>1
<1>9. todo = << >> => u = c
  OBVIOUS
<1>10. u # << >>
  BY <1>4
<1>11. c = Todo(r)
  <2>1. ~(done = << >> /\ todo = << >>)
    <3> SUFFICES ASSUME done = << >>, todo = << >> PROVE FALSE
      OBVIOUS
    <3>1. N = 0 /\ Len(h) = 0
      BY DEF N
    <3> QED
      BY <1>7, <1>10, <3>1
  <2> QED
    BY <1>1, <1>5, <2>1 DEF OnCourse, done, todo
<1> HIDE DEF u, c, h
<1>12. Len(u) <= Len(c) /\ \A i \in 1..Len(u) : u[i] = c[i]
  <2>1. Len(u) <= Len(c)
    BY <1>2, <1>6, <1>7, <1>8
  <2>2. ASSUME NEW i \in 1..Len(u) PROVE u[i] = c[i]
    <3>1. i \in 1..(N + Len(h)) /\ i \in 1..(N + Len(todo))
      BY <1>2, <1>6, <1>7
    <3>2. CASE i <= N
      BY <1>7, <1>8, <3>1, <3>2
    <3>3. CASE ~(i <= N)
      <4>1. i - N \in 1..Len(h)
        BY <1>2, <1>6, <3>1, <3>3
      <4> QED
        BY <1>6, <1>7, <1>8, <3>1, <3>3, <4>1
    <3> QED
      BY <3>2, <3>3
  <2> QED
    BY <2>1, <2>2
<1>13. DOMAIN u = 1..Len(u) /\ Len(u) \in Nat
  BY <1>7
<1>14. Undone(r) = u
  BY <1>4 DEF u
<1> QED
  BY <1>9, <1>11, <1>12, <1>13, <1>14 DEF todo

\* Compensation starts when nothing runs forward any more, undoes completed
\* nodes only, none twice, and no node before a completed node it leads to: for
\* every dag and beside any other runs (orchestrator.rs:368-369, 784-845).
THEOREM SagaInOrderHolds == Spec => []SagaInOrder
<1>1. IndInv => SagaInOrder
  <2> SUFFICES ASSUME IndInv, NEW r \in Runs
               PROVE  LET u == Undone(r)
                      IN  /\ pc[r] \in {"compensate", "finalise", "callback"} => InFlight(r) = {}
                          /\ \A i \in DOMAIN u : nodeState[r][u[i]] = "completed"
                          /\ IsInjective(u)
                          /\ \A i, j \in DOMAIN u : i < j => u[j] \notin ReachableFrom(task, u[i])
    BY DEF SagaInOrder
  <2> DEFINE u == Undone(r)
             c == Todo(r)
             o == topoOrder[r]
  <2>1. pc[r] \in {"compensate", "finalise", "callback"} => InFlight(r) = {}
    BY DEF IndInv, RunInv, Futures, InFlight
  <2>2. CASE u = << >>
    <3>1. DOMAIN u = {}
      BY <2>2
    <3> QED
      BY <2>1, <3>1 DEF IsInjective
  <2>3. CASE u # << >>
    <3>1. /\ DOMAIN u = 1..Len(u) /\ Len(u) \in Nat /\ Len(u) <= Len(c)
          /\ \A i \in 1..Len(u) : u[i] = c[i]
      BY <2>3, UndonePrefix
    <3>2. TypeOK /\ c \in Seq(NodeIds) /\ o \in Seq(NodeIds)
      BY TodoTyped DEF IndInv, TypeOK
    <3>3. \A i \in 1..Len(c) : nodeState[r][c[i]] = "completed"
      BY <3>2, TodoMembers
    <3>4. \A x, y \in 1..Len(c) : x < y =>
              \E k, l \in 1..Len(o) : k < l /\ o[k] = c[y] /\ o[l] = c[x]
      BY <3>2, TodoOrder
    <3> HIDE DEF u, c
    <3>5. \A i \in 1..Len(u) : i \in 1..Len(c)
      <4>1. Len(c) \in Nat
        BY <3>2
      <4> QED
        BY <3>1, <4>1
    <3>6. ASSUME NEW x \in 1..Len(u), NEW y \in 1..Len(u), x < y
          PROVE  u[x] # u[y] /\ u[y] \notin ReachableFrom(task, u[x])
      <4>1. PICK k \in 1..Len(o), l \in 1..Len(o) : k < l /\ o[k] = c[y] /\ o[l] = c[x]
        BY <3>4, <3>5, <3>6
      <4>2. u[x] = o[l] /\ u[y] = o[k]
        BY <3>1, <4>1
      <4>3. WellFormed(task) /\ Topological(task, o)
        <5>1. o # << >>
          BY <3>2, <4>1
        <5> QED
          BY <5>1 DEF IndInv, RunInv, Validated
      <4> HIDE DEF o
      <4>4. Len(o) \in Nat /\ DOMAIN o = 1..Len(o)
        BY <3>2
      <4>5. o[l] # o[k]
        <5>1. \A i, j \in 1..Len(o) : o[i] = o[j] => i = j
          BY <4>3, <4>4 DEF Topological, IsInjective
        <5> QED
          BY <4>1, <4>4, <5>1
      <4>6. o[k] \notin ReachableFrom(task, o[l])
        <5> SUFFICES ASSUME o[k] \in ReachableFrom(task, o[l]) PROVE FALSE
          OBVIOUS
        <5>1. l <= k
          BY <3>2, <4>3, ReachedLater
        <5> QED
          BY <4>1, <4>4, <5>1
      <4> QED
        BY <4>2, <4>5, <4>6
    <3>7. \A x, y \in 1..Len(u) : x = y \/ x < y \/ y < x
      BY <3>1
    <3>8. IsInjective(u)
      BY <3>1, <3>6, <3>7 DEF IsInjective
    <3>9. \A i \in 1..Len(u) : nodeState[r][u[i]] = "completed"
      BY <3>1, <3>3, <3>5
    <3> QED
      BY <2>1, <3>1, <3>6, <3>8, <3>9 DEF u
  <2> QED
    BY <2>2, <2>3
<1> QED
  BY <1>1, Inductive, PTL

-----------------------------------------------------------------------------
(* The loop does not leave work behind.                                     *)

\* When a turn of the loop ends with nothing in flight, a node has failed. Else
\* the first undecided node of the order would have been launched: its inputs
\* come before it and have all succeeded.
LEMMA ScheduleComplete ==
    ASSUME IndInv, NEW r \in Runs, Schedule(r), pc'[r] = "conclude",
           MaxConcurrentNodes > 0, InputsFollowEdges(task)
    PROVE  \E n \in Declared(task) : nodeState'[r][n] = "failed"
<1> DEFINE st == nodeState[r]
           o == topoOrder[r]
           U == {i \in 1..Len(o) : st[o[i]] = "none"}
<1>1. /\ RunInv(r) /\ pc[r] = "schedule" /\ task \in Tasks /\ TypeOK /\ pc \in [Runs -> Pcs]
      /\ nodeState \in [Runs -> [NodeIds -> TerminalNodeStates \cup {"none"}]]
      /\ o \in Seq(NodeIds)
  BY DEF IndInv, TypeOK, Schedule
<1>2. WellFormed(task) /\ Topological(task, o)
  BY <1>1 DEF RunInv, Validated
<1>3. InFlight(r) = {} /\ Launched(r) = {}
  BY <1>1 DEF Schedule, NothingInFlight
<1>4. nodeState'[r] = [n \in NodeIds |->
          IF n \in {m \in Ready(r) : Doomed(task, st, m)} THEN "failed" ELSE st[n]]
  BY <1>1 DEF Schedule
<1> SUFFICES ASSUME \A n \in Declared(task) : nodeState'[r][n] # "failed"
             PROVE  FALSE
  OBVIOUS
<1>5. Declared(task) \subseteq NodeIds
  BY <1>1, DagFacts, TasksAssumption DEF IsDag, Declared, ToSet
<1>6. \A n \in Declared(task) : st[n] # "failed" /\ ~(n \in Ready(r) /\ Doomed(task, st, n))
  BY <1>4, <1>5
<1>7. DOMAIN o = 1..Len(o) /\ Len(o) \in Nat
  BY <1>1
<1>8. PICK u \in Declared(task) : st[u] = "none"
  BY DEF Schedule, AllDecided
<1>9. \A n \in Declared(task) : \E i \in 1..Len(o) : o[i] = n
  BY <1>2, <1>7 DEF Topological, ToSet
<1>10. U \subseteq Nat /\ U # {}
  BY <1>8, <1>9
<1>11. PICK m \in U : \A k \in U : m <= k
  BY <1>10, Least
<1> DEFINE n == o[m]
<1>12. n \in Declared(task) /\ st[n] = "none" /\ m \in 1..Len(o)
  BY <1>2, <1>7, <1>11 DEF Topological, ToSet
<1>13. \A d \in task.inputFrom[n] : st[d] \in Succeeded
  <2> TAKE d \in task.inputFrom[n]
  <2>1. d \in Declared(task) /\ <<d, n>> \in Edges(task)
    BY <1>12 DEF InputsFollowEdges
  <2>2. PICK k \in 1..Len(o) : o[k] = d
    BY <1>9, <2>1
  <2>3. k < m
    BY <1>2, <1>7, <1>12, <2>1, <2>2 DEF Topological
  <2>4. st[d] # "none"
    BY <1>7, <1>11, <1>12, <2>2, <2>3
  <2> QED
    BY <1>1, <1>5, <1>6, <2>1, <2>4 DEF Succeeded, TerminalNodeStates
<1> HIDE DEF n, U
<1>14. SucceededDeps(task, st, n) = task.inputFrom[n] /\ FailedDeps(task, st, n) = {}
  BY <1>13 DEF SucceededDeps, FailedDeps, Succeeded
<1>15. /\ Cardinality(task.inputFrom[n]) \in Nat /\ K(task, n) \in Nat
       /\ Cardinality(FailedDeps(task, st, n)) = 0
  BY <1>1, <1>2, <1>12, <1>14, TaskFacts, FS_EmptySet
<1>16. AreDepsDone(task, st, n)
  BY <1>14, <1>15 DEF AreDepsDone
<1>17. n \in Ready(r)
  <2>1. stage[r][n] = "idle"
    BY <1>3, <1>5, <1>12 DEF InFlight
  <2> QED
    BY <1>12, <1>16, <2>1 DEF Ready
<1> QED
  BY <1>1, <1>2, <1>3, <1>6, <1>12, <1>17, SomeLaunched

\* A run keeps the loop's promise as long as its nodes do not change.
LEMMA CompleteSame ==
    ASSUME NEW q, task' = task, nodeState'[q] = nodeState[q], RanThrough(q)
    PROVE  RanThrough(q)'
BY DEF RanThrough

LEMMA OwnComplete ==
    ASSUME IndInv, LoopComplete, MaxConcurrentNodes > 0, NEW r \in Runs,
           \/ LifecycleStep(r) \/ Timeout(r)
           \/ \E n \in NodeIds : NodeStep(r, n),
           pc'[r] = "conclude" \/ verdict'[r] = "completed", InputsFollowEdges(task)
    PROVE  RanThrough(r)'
<1>1. /\ TypeOK /\ RunInv(r) /\ pc \in [Runs -> Pcs]
      /\ verdict \in [Runs -> {"none", "completed", "failed"}]
      /\ nodeState \in [Runs -> [NodeIds -> TerminalNodeStates \cup {"none"}]]
  BY DEF IndInv, TypeOK
<1>2. pc[r] = "conclude" \/ verdict[r] = "completed" => RanThrough(r)
  BY DEF LoopComplete
<1>3. CASE Schedule(r)
  <2>1. task' = task /\ verdict'[r] = "none"
    BY <1>1, <1>3 DEF Schedule, RunInv, Decided, Undecided
  <2> QED
    BY <1>3, <2>1, ScheduleComplete DEF RanThrough
<1>4. CASE LeaveLoop(r)
  <2>1. task' = task /\ nodeState' = nodeState /\ AllDecided(r) /\ WellFormed(task)
    BY <1>1, <1>4 DEF LeaveLoop, locals, RunInv, Validated
  <2>2. Declared(task) \subseteq NodeIds
    BY <1>1, DagFacts, TasksAssumption DEF IsDag, Declared, ToSet, TypeOK
  <2>3. \A n \in Declared(task) : nodeState[r][n] \in Succeeded \cup {"failed"}
    BY <1>1, <2>1, <2>2 DEF AllDecided, TerminalNodeStates, Succeeded
  <2> QED
    BY <2>1, <2>3 DEF RanThrough
<1>5. CASE Drained(r) \/ Conclude(r)
  <2>1. task' = task /\ nodeState' = nodeState
    BY <1>5 DEF Drained, Conclude, BeginSaga
  <2>2. pc'[r] \in {"compensate", "finalise"}
    BY <1>1, <1>5 DEF Drained, Conclude, BeginSaga
  <2>3. pc[r] = "conclude"
    BY <1>1, <1>5, <2>2 DEF Drained, Conclude, BeginSaga
  <2> QED
    BY <1>2, <2>1, <2>3, CompleteSame
<1>6. CASE Execute(r) \/ PlainStep(r) \/ (\E ok \in BOOLEAN : Compensate(r, ok)) \/ Timeout(r)
  <2>1. task' = task /\ nodeState' = nodeState /\ verdict' = verdict
    BY <1>6 DEF Execute, PlainStep, Save, Begin, PreflightPasses, PreflightFails, LeaveLoop,
                Finalise, CallbackAccepted, CallbackFails, Compensate, Timeout, locals
  <2>2. CASE LeaveLoop(r)
    BY <1>4, <2>2
  <2>3. CASE ~LeaveLoop(r)
    <3>1. pc'[r] # "conclude" \/ pc[r] = "conclude"
      BY <1>1, <1>6, <2>3
         DEF Execute, PlainStep, Save, Begin, PreflightPasses, PreflightFails,
             Finalise, CallbackAccepted, CallbackFails, Compensate, Timeout, Suspended
    <3> QED
      BY <1>2, <2>1, <3>1, CompleteSame
  <2> QED
    BY <2>2, <2>3
<1>7. ASSUME NEW n \in NodeIds, NodeStep(r, n) PROVE FALSE
  <2>1. Polling(r)
    BY <1>7 DEF NodeStep, StartNode, SkipNode, ConditionError, AttemptSucceeds, RetryNode,
                AttemptFails
  <2>2. verdict[r] # "completed"
    BY <1>1, <2>1 DEF Polling, RunInv, Decided, Undecided
  <2>3. pc'[r] # "conclude" /\ verdict'[r] # "completed"
    <3>1. ASSUME NEW st, FinishNode(r, n, st) PROVE pc'[r] # "conclude" /\ verdict'[r] # "completed"
      BY <1>1, <2>1, <2>2, <3>1 DEF FinishNode, Polling
    <3>2. ASSUME pc' = pc, verdict' = verdict PROVE pc'[r] # "conclude" /\ verdict'[r] # "completed"
      BY <2>1, <2>2, <3>2 DEF Polling
    <3> QED
      BY <1>7, <3>1, <3>2 DEF NodeStep, StartNode, SkipNode, ConditionError, AttemptSucceeds,
                RetryNode, AttemptFails, BeginAttempt
  <2> QED
    BY <2>3
<1> QED
  BY <1>3, <1>4, <1>5, <1>6, <1>7 DEF LifecycleStep, PlainStep

\* The TaskFrame of a run does not change.
LEMMA TaskFixed == [Next]_vars => task' = task
<1>1. ASSUME NEW r \in Runs, LifecycleStep(r) \/ Timeout(r) PROVE task' = task
  BY <1>1 DEF LifecycleStep, Execute, Save, Begin, PreflightPasses, PreflightFails, Schedule,
              LeaveLoop, Drained, Conclude, BeginSaga, Compensate, Finalise, CallbackAccepted,
              CallbackFails, Timeout
<1>2. ASSUME NEW r \in Runs, NEW n \in NodeIds, NodeStep(r, n) PROVE task' = task
  <2>1. ASSUME NEW code \in ErrorCodes, AttemptFails(r, n, code) PROVE task' = task
    BY <2>1 DEF AttemptFails, FinishNode
  <2> QED
    BY <1>2, <2>1 DEF NodeStep, StartNode, SkipNode, ConditionError, AttemptSucceeds, RetryNode,
                      BeginAttempt, FinishNode
<1> QED
  BY <1>1, <1>2 DEF Next, vars, Cancel

LEMMA CompleteKept ==
    ASSUME MaxConcurrentNodes > 0
    PROVE  IndInv /\ LoopComplete /\ [Next]_vars => LoopComplete'
<1> SUFFICES ASSUME IndInv, LoopComplete, [Next]_vars, NEW q \in Runs,
                    (pc[q] = "conclude" \/ verdict[q] = "completed")', InputsFollowEdges(task)'
             PROVE  RanThrough(q)'
  BY DEF LoopComplete
<1>1. task' = task /\ InputsFollowEdges(task)
  <2>1. task' = task
    BY TaskFixed
  <2> QED
    BY <2>1 DEF InputsFollowEdges
<1>2. ASSUME Same(q) PROVE RanThrough(q)'
  BY <1>1, <1>2, CompleteSame DEF Same, LoopComplete
<1>3. ASSUME NEW r \in Runs, \/ LifecycleStep(r) \/ Timeout(r)
                             \/ \E n \in NodeIds : NodeStep(r, n)
      PROVE  RanThrough(q)'
  <2>1. CASE q = r
    BY <1>1, <1>3, <2>1, OwnComplete
  <2>2. CASE q # r
    BY <1>2, <1>3, <2>2, OthersSame DEF IndInv
  <2> QED
    BY <2>1, <2>2
<1>4. CASE Cancel \/ UNCHANGED vars
  BY <1>2, <1>4 DEF Cancel, vars, locals, Same
<1> QED
  BY <1>3, <1>4 DEF Next

LEMMA CompleteAlways ==
    ASSUME MaxConcurrentNodes > 0
    PROVE  Spec => []LoopComplete
<1>1. Init => LoopComplete
  BY DEF Init, LoopComplete
<1> QED
  BY <1>1, CompleteKept, Inductive, PTL DEF Spec

-----------------------------------------------------------------------------
(* The task record of a single run.                                         *)

\* A lifecycle step keeps the task's state in line with the run.
LEMMA RecordKept ==
    ASSUME IndInv, NEW r \in Runs, HasRecord(r),
           \/ LifecycleStep(r) \/ Timeout(r)
           \/ \E n \in NodeIds : NodeStep(r, n)
    PROVE  HasRecord(r)'
<1>1. /\ TypeOK /\ RunInv(r) /\ pc \in [Runs -> Pcs] /\ result \in [Runs -> Result]
  BY DEF IndInv, TypeOK
<1>2. CASE Execute(r)
  <2>1. /\ pc[r] = "start" /\ pc'[r] \in {"save", "done"} /\ taskState' = taskState
    BY <1>1, <1>2 DEF Execute, store
  <2> QED
    BY <2>1 DEF HasRecord
<1>3. CASE Save(r) \/ Begin(r) \/ PreflightPasses(r) \/ LeaveLoop(r) \/ Schedule(r)
  <2>1. CASE Save(r)
    BY <1>1, <2>1 DEF Save, HasRecord
  <2>2. CASE Begin(r) \/ PreflightPasses(r)
    <3>1. pc[r] \in {"begin", "preflight"} /\ pc'[r] \in {"preflight", "schedule"}
      BY <1>1, <2>2 DEF Begin, PreflightPasses
    <3>2. taskState # "absent" => taskState' # "absent"
      BY <2>2 DEF Begin, PreflightPasses, UpdateState
    <3> QED
      BY <3>1, <3>2 DEF HasRecord
  <2>3. CASE LeaveLoop(r) \/ Schedule(r)
    <3>1. pc[r] = "schedule" /\ pc'[r] \in {"conclude", "wait"} /\ taskState' = taskState
      BY <1>1, <2>3 DEF LeaveLoop, Schedule, store
    <3> QED
      BY <3>1 DEF HasRecord
  <2> QED
    BY <1>3, <2>1, <2>2, <2>3
<1>4. CASE PreflightFails(r) \/ Timeout(r)
  <2>1. /\ pc[r] \notin {"start", "save", "done"} /\ pc'[r] = "done"
        /\ result'[r].final = "failed"
        /\ taskState # "absent" => taskState' = "failed"
    BY <1>1, <1>4 DEF PreflightFails, Timeout, Suspended, Failure, UpdateState
  <2> QED
    BY <2>1 DEF HasRecord
<1>5. CASE Drained(r) \/ Conclude(r)
  <2>1. /\ pc[r] \in {"drain", "conclude"} /\ pc'[r] \in {"compensate", "finalise"}
        /\ taskState # "absent" => taskState' # "absent"
    BY <1>1, <1>5 DEF Drained, Conclude, BeginSaga, UpdateState
  <2> QED
    BY <2>1 DEF HasRecord
<1>6. CASE \E ok \in BOOLEAN : Compensate(r, ok)
  <2>1. pc[r] = "compensate" /\ pc'[r] \in {"compensate", "finalise"} /\ taskState' = taskState
    BY <1>1, <1>6 DEF Compensate, store
  <2> QED
    BY <2>1 DEF HasRecord
<1>7. CASE Finalise(r)
  <2>1. /\ pc[r] = "finalise" /\ pc'[r] \in {"callback", "done"} /\ result' = result
        /\ taskState # "absent" => taskState' = result[r].final
    BY <1>1, <1>7 DEF Finalise, UpdateState
  <2>2. result[r].final # "absent"
    BY <1>1 DEF Result
  <2> QED
    BY <2>1, <2>2 DEF HasRecord
<1>8. CASE CallbackAccepted(r) \/ CallbackFails(r)
  <2>1. /\ pc[r] = "callback" /\ pc'[r] \in {"callback", "done"} /\ result' = result
        /\ taskState' = taskState
    BY <1>1, <1>8 DEF CallbackAccepted, CallbackFails, store
  <2> QED
    BY <2>1 DEF HasRecord
<1>9. ASSUME NEW n \in NodeIds, NodeStep(r, n) PROVE HasRecord(r)'
  <2>1. Polling(r)
    BY <1>9 DEF NodeStep, StartNode, SkipNode, ConditionError, AttemptSucceeds, RetryNode,
                AttemptFails
  <2>2. taskState' = taskState /\ pc'[r] \in {"wait", "drain", "schedule"}
    <3>1. ASSUME NEW st, FinishNode(r, n, st)
          PROVE  taskState' = taskState /\ pc'[r] \in {"wait", "drain", "schedule"}
      BY <1>1, <2>1, <3>1 DEF FinishNode, Polling
    <3>2. ASSUME NEW code \in ErrorCodes, AttemptFails(r, n, code)
          PROVE  taskState' = taskState /\ pc'[r] \in {"wait", "drain", "schedule"}
      BY <2>1, <3>1, <3>2 DEF AttemptFails, Polling, store
    <3> QED
      BY <1>9, <2>1, <3>1, <3>2 DEF NodeStep, StartNode, SkipNode, ConditionError,
                AttemptSucceeds, RetryNode, BeginAttempt, Polling
  <2> QED
    BY <2>1, <2>2 DEF HasRecord, Polling
<1> QED
  BY <1>2, <1>3, <1>4, <1>5, <1>6, <1>7, <1>8, <1>9 DEF LifecycleStep

\* What update_subtask leaves in an existing record.
LEMMA SubtaskWritten ==
    ASSUME TypeOK, NEW n \in NodeIds, NEW st, NEW a \in Nat, UpdateSubtask(n, st, a),
           taskState # "absent"
    PROVE  /\ subtask'[n].state = st
           /\ subtask'[n].attempt = IF a > 0 THEN a ELSE subtask[n].attempt
           /\ \A m \in NodeIds \ {n} : subtask'[m] = subtask[m]
<1>1. subtask \in [NodeIds -> Subtasks]
  BY DEF TypeOK
<1>2. subtask' = [subtask EXCEPT ![n] = [state |-> st,
                      attempt |-> IF a > 0 THEN a ELSE subtask[n].attempt]]
  BY DEF UpdateSubtask
<1> QED
  BY <1>1, <1>2

\* A node future that starts or ends leaves the subtask as the run sees it, and
\* never counts an attempt back.
LEMMA NodeShown ==
    ASSUME IndInv, NEW r \in Runs, HasRecord(r), \A m \in NodeIds : ShowsNode(r, m),
           NEW n \in NodeIds, NodeStep(r, n)
    PROVE  /\ \A m \in NodeIds : ShowsNode(r, m)'
           /\ \A m \in NodeIds : subtask'[m].attempt >= subtask[m].attempt
<1>1. /\ TypeOK /\ RunInv(r) /\ pc \in [Runs -> Pcs]
      /\ nodeState \in [Runs -> [NodeIds -> TerminalNodeStates \cup {"none"}]]
      /\ stage \in [Runs -> [NodeIds -> {"idle", "launched", "running", "backoff"}]]
      /\ attempt \in [Runs -> [NodeIds -> Nat]]
      /\ subtask \in [NodeIds -> Subtasks]
  BY DEF IndInv, TypeOK
<1>2. Polling(r) /\ stage[r][n] # "idle"
  BY DEF NodeStep, StartNode, SkipNode, ConditionError, AttemptSucceeds, RetryNode, AttemptFails
<1>3. taskState # "absent" /\ nodeState[r][n] = "none"
  BY <1>1, <1>2 DEF HasRecord, Polling, RunInv, Futures
<1>4. \A m \in NodeIds : subtask[m].attempt \in Nat
  BY <1>1 DEF Subtasks
<1>5. ASSUME NEW st \in TerminalNodeStates, NEW a \in Nat,
             UpdateSubtask(n, st, a), FinishNode(r, n, st), attempt' = attempt,
             a = 0 \/ a >= subtask[n].attempt
      PROVE  /\ \A m \in NodeIds : ShowsNode(r, m)'
             /\ \A m \in NodeIds : subtask'[m].attempt >= subtask[m].attempt
  <2>1. /\ subtask'[n].state = st
        /\ subtask'[n].attempt = IF a > 0 THEN a ELSE subtask[n].attempt
        /\ \A m \in NodeIds \ {n} : subtask'[m] = subtask[m]
    BY <1>1, <1>3, <1>5, SubtaskWritten
  <2>2. /\ stage'[r][n] = "idle"
        /\ \A m \in NodeIds \ {n} : stage'[r][m] = stage[r][m]
    BY <1>1, <1>5 DEF FinishNode
  <2>3. \/ pc[r] = "drain" /\ pc'[r] = "drain" /\ nodeState'[r] = nodeState[r]
        \/ /\ pc[r] = "wait" /\ nodeState'[r][n] = st
           /\ \A m \in NodeIds \ {n} : nodeState'[r][m] = nodeState[r][m]
    <3>1. CASE pc[r] = "drain"
      BY <1>5, <3>1 DEF FinishNode
    <3>2. CASE pc[r] # "drain"
      <4>1. nodeState' = [nodeState EXCEPT ![r] = [nodeState[r] EXCEPT ![n] = st]]
        BY <1>5, <3>2 DEF FinishNode
      <4>2. nodeState'[r] = [nodeState[r] EXCEPT ![n] = st]
        BY <1>1, <4>1
      <4>3. pc[r] = "wait"
        BY <1>2, <3>2 DEF Polling
      <4> QED
        BY <1>1, <4>2, <4>3
    <3> QED
      BY <3>1, <3>2
  <2>4. ASSUME NEW m \in NodeIds PROVE ShowsNode(r, m)'
    <3>1. CASE m = n
      BY <1>3, <2>1, <2>2, <2>3, <3>1 DEF ShowsNode, Undecided, Before, TerminalNodeStates
    <3>2. CASE m # n
      <4>1. /\ subtask'[m] = subtask[m] /\ stage'[r][m] = stage[r][m]
            /\ nodeState'[r][m] = nodeState[r][m]
            /\ pc[r] \in Undecided \/ pc'[r] \notin Undecided
        BY <2>1, <2>2, <2>3, <3>2 DEF Undecided, Before
      <4> QED
        BY <1>5, <4>1 DEF ShowsNode
    <3> QED
      BY <3>1, <3>2
  <2>5. ASSUME NEW m \in NodeIds PROVE subtask'[m].attempt >= subtask[m].attempt
    BY <1>4, <1>5, <2>1
  <2> QED
    BY <2>4, <2>5
<1>6. ASSUME NEW a \in Nat, BeginAttempt(r, n, a), a > subtask[n].attempt
      PROVE  /\ \A m \in NodeIds : ShowsNode(r, m)'
             /\ \A m \in NodeIds : subtask'[m].attempt >= subtask[m].attempt
  <2>0. a > 0 /\ UpdateSubtask(n, "running", a)
    BY <1>4, <1>6 DEF BeginAttempt
  <2>1. /\ subtask'[n].attempt = a
        /\ \A m \in NodeIds \ {n} : subtask'[m] = subtask[m]
    BY <1>1, <1>3, <2>0, SubtaskWritten
  <2>2. /\ stage'[r][n] = "running" /\ attempt'[r][n] = a
        /\ \A m \in NodeIds \ {n} : stage'[r][m] = stage[r][m] /\ attempt'[r][m] = attempt[r][m]
    BY <1>1, <1>6 DEF BeginAttempt
  <2>3. nodeState' = nodeState /\ pc' = pc
    BY <1>6 DEF BeginAttempt
  <2>4. ASSUME NEW m \in NodeIds PROVE ShowsNode(r, m)'
    <3>1. CASE m = n
      BY <1>3, <2>1, <2>2, <2>3, <3>1 DEF ShowsNode
    <3>2. CASE m # n
      <4>1. /\ subtask'[m] = subtask[m] /\ stage'[r][m] = stage[r][m]
            /\ attempt'[r][m] = attempt[r][m]
        BY <2>1, <2>2, <3>2
      <4> QED
        BY <2>3, <4>1 DEF ShowsNode
    <3> QED
      BY <3>1, <3>2
  <2>5. ASSUME NEW m \in NodeIds PROVE subtask'[m].attempt >= subtask[m].attempt
    BY <1>4, <1>6, <2>1
  <2> QED
    BY <2>4, <2>5
<1>7. CASE StartNode(r, n)
  <2>1. subtask[n].attempt = 0 /\ BeginAttempt(r, n, 1)
    BY <1>7 DEF StartNode, ShowsNode
  <2> QED
    BY <1>6, <2>1
<1>8. CASE RetryNode(r, n)
  <2>1. /\ subtask[n].attempt = attempt[r][n] /\ BeginAttempt(r, n, attempt[r][n] + 1)
        /\ attempt[r][n] \in Nat
    BY <1>1, <1>8 DEF RetryNode, ShowsNode
  <2> QED
    BY <1>6, <2>1
<1>9. CASE SkipNode(r, n)
  <2>1. UpdateSubtask(n, "skipped", 0) /\ FinishNode(r, n, "skipped") /\ attempt' = attempt
    BY <1>9 DEF SkipNode
  <2> QED
    BY <1>5, <2>1 DEF TerminalNodeStates
<1>10. CASE ConditionError(r, n)
  <2>1. /\ UpdateSubtask(n, "failed", 1) /\ FinishNode(r, n, "failed") /\ attempt' = attempt
        /\ subtask[n].attempt = 0
    BY <1>10 DEF ConditionError, ShowsNode
  <2> QED
    BY <1>5, <2>1 DEF TerminalNodeStates
<1>11. CASE AttemptSucceeds(r, n)
  <2>1. /\ UpdateSubtask(n, "completed", attempt[r][n]) /\ FinishNode(r, n, "completed")
        /\ attempt' = attempt /\ subtask[n].attempt = attempt[r][n] /\ attempt[r][n] \in Nat
    BY <1>1, <1>11 DEF AttemptSucceeds, ShowsNode
  <2> QED
    BY <1>5, <2>1 DEF TerminalNodeStates
<1>12. ASSUME NEW code \in ErrorCodes, AttemptFails(r, n, code)
       PROVE  /\ \A m \in NodeIds : ShowsNode(r, m)'
              /\ \A m \in NodeIds : subtask'[m].attempt >= subtask[m].attempt
  <2>1. /\ subtask[n].attempt = attempt[r][n] /\ attempt[r][n] \in Nat /\ attempt' = attempt
        /\ stage[r][n] = "running"
    BY <1>1, <1>12 DEF AttemptFails, ShowsNode
  <2>2. CASE ShouldRetry(task, n, code, attempt[r][n])
    <3>1. /\ stage' = [stage EXCEPT ![r][n] = "backoff"]
          /\ nodeState' = nodeState /\ pc' = pc /\ subtask' = subtask
      BY <1>12, <2>2 DEF AttemptFails, store
    <3>2. /\ stage'[r][n] = "backoff"
          /\ \A m \in NodeIds \ {n} : stage'[r][m] = stage[r][m]
      BY <1>1, <3>1
    <3>3. ASSUME NEW m \in NodeIds PROVE ShowsNode(r, m)'
      BY <2>1, <3>1, <3>2 DEF ShowsNode
    <3> QED
      BY <1>4, <3>1, <3>3
  <2>3. CASE ~ShouldRetry(task, n, code, attempt[r][n])
    <3>1. UpdateSubtask(n, "failed", attempt[r][n]) /\ FinishNode(r, n, "failed")
      BY <1>12, <2>3 DEF AttemptFails
    <3> QED
      BY <1>5, <2>1, <3>1 DEF TerminalNodeStates
  <2> QED
    BY <2>2, <2>3
<1> QED
  BY <1>7, <1>8, <1>9, <1>10, <1>11, <1>12 DEF NodeStep

\* A turn of the loop records the nodes it marks failed.
LEMMA ScheduleShown ==
    ASSUME IndInv, NEW r \in Runs, HasRecord(r), \A m \in NodeIds : ShowsNode(r, m), Schedule(r)
    PROVE  /\ \A m \in NodeIds : ShowsNode(r, m)'
           /\ \A m \in NodeIds : subtask'[m].attempt >= subtask[m].attempt
<1> DEFINE doomed == {n \in Ready(r) : Doomed(task, nodeState[r], n)}
           L == Launched(r)
<1>1. /\ RunInv(r) /\ pc[r] = "schedule" /\ TypeOK /\ pc \in [Runs -> Pcs]
      /\ nodeState \in [Runs -> [NodeIds -> TerminalNodeStates \cup {"none"}]]
      /\ stage \in [Runs -> [NodeIds -> {"idle", "launched", "running", "backoff"}]]
      /\ subtask \in [NodeIds -> Subtasks]
  BY DEF IndInv, TypeOK, Schedule
<1>2. WellFormed(task) /\ taskState # "absent"
  BY <1>1 DEF RunInv, Validated, HasRecord
<1>3. L \subseteq Ready(r) /\ \A n \in L : n \notin doomed
  BY <1>1, <1>2, LaunchedFits DEF RunInv
<1>4. \A n \in Ready(r) : nodeState[r][n] = "none" /\ stage[r][n] = "idle"
  BY DEF Ready
<1>5. nodeState'[r] = [n \in NodeIds |-> IF n \in doomed THEN "failed" ELSE nodeState[r][n]]
  BY <1>1 DEF Schedule
<1>6. stage'[r] = [n \in NodeIds |-> IF n \in L THEN "launched" ELSE stage[r][n]]
  BY <1>1 DEF Schedule
<1>7. subtask' = [n \in NodeIds |-> IF n \in doomed THEN [state |-> "failed", attempt |-> 1]
                                    ELSE subtask[n]]
  BY <1>2 DEF Schedule
<1>8. attempt' = attempt /\ pc[r] \in Undecided
  BY <1>1 DEF Schedule, Undecided
<1> HIDE DEF doomed, L
<1>9. \A n \in doomed : n \in Ready(r)
  BY DEF doomed
<1>10. ASSUME NEW m \in NodeIds
       PROVE  ShowsNode(r, m)' /\ subtask'[m].attempt >= subtask[m].attempt
  <2>1. subtask[m].attempt \in Nat
    BY <1>1 DEF Subtasks
  <2>2. m \in Ready(r) => subtask[m].attempt = 0
    BY <1>4, <1>8 DEF ShowsNode
  <2>3. CASE m \in doomed
    <3>1. /\ nodeState'[r][m] = "failed" /\ subtask'[m].state = "failed"
          /\ subtask'[m].attempt = 1 /\ stage'[r][m] = "idle"
      BY <1>3, <1>4, <1>5, <1>6, <1>7, <1>9, <2>3
    <3> QED
      BY <1>9, <2>2, <2>3, <3>1 DEF ShowsNode
  <2>4. CASE m \notin doomed
    <3>1. nodeState'[r][m] = nodeState[r][m] /\ subtask'[m] = subtask[m]
      BY <1>5, <1>7, <2>4
    <3>2. CASE m \in L
      BY <1>3, <1>4, <1>6, <2>1, <2>2, <3>1, <3>2 DEF ShowsNode
    <3>3. CASE m \notin L
      <4>1. stage'[r][m] = stage[r][m]
        BY <1>6, <3>3
      <4> QED
        BY <1>8, <2>1, <3>1, <4>1 DEF ShowsNode
    <3> QED
      BY <3>2, <3>3
  <2> QED
    BY <2>3, <2>4
<1> QED
  BY <1>10

\* The other steps leave the subtasks alone.
LEMMA OthersShown ==
    ASSUME IndInv, NEW r \in Runs, \A m \in NodeIds : ShowsNode(r, m),
           LifecycleStep(r) \/ Timeout(r), ~Schedule(r)
    PROVE  (\A m \in NodeIds : ShowsNode(r, m)') /\ subtask' = subtask
<1>1. /\ TypeOK /\ RunInv(r) /\ pc \in [Runs -> Pcs]
      /\ stage \in [Runs -> [NodeIds -> {"idle", "launched", "running", "backoff"}]]
  BY DEF IndInv, TypeOK
<1>2. subtask' = subtask /\ nodeState' = nodeState /\ attempt' = attempt
  BY DEF LifecycleStep, Execute, Save, Begin, PreflightPasses, PreflightFails, LeaveLoop,
         Drained, Conclude, BeginSaga, Compensate, Finalise, CallbackAccepted, CallbackFails,
         Timeout, store, locals
<1>3. CASE Timeout(r)
  <2>1. pc'[r] = "done" /\ \A m \in NodeIds : stage'[r][m] = "idle"
    BY <1>1, <1>3 DEF Timeout
  <2> QED
    BY <1>2, <2>1 DEF ShowsNode, Undecided, Before
<1>4. CASE LifecycleStep(r)
  <2>1. stage' = stage
    BY <1>4 DEF LifecycleStep, Execute, Save, Begin, PreflightPasses, PreflightFails, LeaveLoop,
         Drained, Conclude, BeginSaga, Compensate, Finalise, CallbackAccepted, CallbackFails,
         locals
  <2>2. pc[r] \in Undecided \/ pc'[r] \notin Undecided
    <3>1. CASE Drained(r) \/ Conclude(r)
      BY <1>1, <3>1 DEF Drained, Conclude, BeginSaga, Undecided, Before
    <3>2. CASE \E ok \in BOOLEAN : Compensate(r, ok)
      BY <1>1, <3>2 DEF Compensate, Undecided, Before
    <3>3. CASE Finalise(r) \/ CallbackAccepted(r) \/ CallbackFails(r)
      BY <1>1, <3>3 DEF Finalise, CallbackAccepted, CallbackFails, Undecided, Before
    <3>4. CASE \/ Execute(r) \/ Save(r) \/ Begin(r) \/ PreflightPasses(r)
               \/ PreflightFails(r) \/ LeaveLoop(r)
      BY <3>4 DEF Execute, Save, Begin, PreflightPasses, PreflightFails, LeaveLoop,
                  Undecided, Before
    <3> QED
      BY <1>4, <3>1, <3>2, <3>3, <3>4 DEF LifecycleStep
  <2> QED
    BY <1>2, <2>1, <2>2 DEF ShowsNode
<1> QED
  BY <1>3, <1>4

\* A step of the run keeps the record, and no attempt is counted back.
LEMMA RunRecorded ==
    ASSUME IndInv, NEW r \in Runs, HasRecord(r), \A m \in NodeIds : ShowsNode(r, m),
           \/ LifecycleStep(r) \/ Timeout(r)
           \/ \E n \in NodeIds : NodeStep(r, n)
    PROVE  /\ HasRecord(r)' /\ \A m \in NodeIds : ShowsNode(r, m)'
           /\ \A m \in NodeIds : subtask'[m].attempt >= subtask[m].attempt
<1>1. HasRecord(r)'
  BY RecordKept
<1>2. \A m \in NodeIds : subtask[m].attempt \in Nat
  BY DEF IndInv, TypeOK, Subtasks
<1>3. CASE Schedule(r)
  BY <1>1, <1>3, ScheduleShown
<1>4. CASE \E n \in NodeIds : NodeStep(r, n)
  BY <1>1, <1>4, NodeShown
<1>5. CASE (LifecycleStep(r) \/ Timeout(r)) /\ ~Schedule(r)
  BY <1>1, <1>2, <1>5, OthersShown
<1> QED
  BY <1>3, <1>4, <1>5

LEMMA RecordedKept ==
    ASSUME AtMostOneRun
    PROVE  IndInv /\ Recorded /\ [Next]_vars =>
               Recorded' /\ \A m \in NodeIds : subtask'[m].attempt >= subtask[m].attempt
<1> SUFFICES ASSUME IndInv, Recorded, [Next]_vars
             PROVE  Recorded' /\ \A m \in NodeIds : subtask'[m].attempt >= subtask[m].attempt
  OBVIOUS
<1>1. \A m \in NodeIds : subtask[m].attempt \in Nat
  BY DEF IndInv, TypeOK, Subtasks
<1>2. ASSUME NEW r \in Runs, \/ LifecycleStep(r) \/ Timeout(r)
                             \/ \E n \in NodeIds : NodeStep(r, n)
      PROVE  Recorded' /\ \A m \in NodeIds : subtask'[m].attempt >= subtask[m].attempt
  <2>1. HasRecord(r) /\ \A m \in NodeIds : ShowsNode(r, m)
    BY DEF Recorded
  <2>2. /\ HasRecord(r)' /\ \A m \in NodeIds : ShowsNode(r, m)'
        /\ \A m \in NodeIds : subtask'[m].attempt >= subtask[m].attempt
    BY <1>2, <2>1, RunRecorded
  <2>3. \A q \in Runs : q = r
    BY DEF AtMostOneRun
  <2> QED
    BY <2>2, <2>3 DEF Recorded
<1>3. CASE Cancel
  <2>1. /\ subtask' = subtask /\ pc' = pc /\ nodeState' = nodeState /\ stage' = stage
        /\ attempt' = attempt /\ result' = result
        /\ taskState' = IF taskState = "absent" THEN taskState ELSE "cancelled"
    BY <1>3 DEF Cancel, locals, UpdateState
  <2>2. \A r \in Runs : HasRecord(r)'
    BY <2>1 DEF Recorded, HasRecord
  <2>3. \A r \in Runs : \A n \in NodeIds : ShowsNode(r, n)'
    BY <2>1 DEF Recorded, ShowsNode
  <2> QED
    BY <1>1, <2>1, <2>2, <2>3 DEF Recorded
<1>4. CASE UNCHANGED vars
  BY <1>1, <1>4 DEF vars, Recorded, HasRecord, ShowsNode
<1> QED
  BY <1>2, <1>3, <1>4 DEF Next

LEMMA RecordedAlways ==
    ASSUME AtMostOneRun
    PROVE  Spec => []Recorded
<1>1. Init => Recorded
  BY DEF Init, Recorded, HasRecord, ShowsNode, NoSubtask
<1>2. IndInv /\ Recorded /\ [Next]_vars => Recorded'
  BY RecordedKept
<1> QED
  BY <1>1, <1>2, Inductive, PTL DEF Spec

-----------------------------------------------------------------------------
(* What a single run leaves in the record.                                  *)

\* A successful task in which no node failed has run every node, and a status
\* query sees what the run decided, through retries, drains, the task timer
\* firing at any await and cancellation. This needs a limit of at least one
\* future: with none run_dag launches nothing and reports success
\* (orchestrator.rs:155-170, 264, 305-347, 483-622; store.rs:100-147).
THEOREM NoNodeForgottenHolds ==
    ASSUME AtMostOneRun, MaxConcurrentNodes > 0
    PROVE  Spec => []NoNodeForgotten
<1>1. IndInv /\ LoopComplete /\ Recorded => NoNodeForgotten
  <2> SUFFICES ASSUME IndInv, LoopComplete, Recorded, NEW r \in Runs
               PROVE  /\ (result[r].final = "completed" /\ InputsFollowEdges(task)) =>
                            \/ \E n \in Declared(task) : nodeState[r][n] = "failed"
                            \/ \A n \in Declared(task) :
                                  nodeState[r][n] \in {"completed", "skipped"}
                      /\ \A n \in NodeIds :
                            nodeState[r][n] # "none" => subtask[n].state = nodeState[r][n]
                      /\ pc[r] = "done" => taskState \in {result[r].final, "cancelled", "absent"}
    BY DEF NoNodeForgotten
  <2>1. result[r].final = "completed" => verdict[r] = "completed"
    BY DEF IndInv, RunInv, Decided
  <2>2. HasRecord(r) /\ \A n \in NodeIds : ShowsNode(r, n)
    BY DEF Recorded
  <2> QED
    BY <2>1, <2>2 DEF LoopComplete, RanThrough, Succeeded, HasRecord, ShowsNode
<1> QED
  BY <1>1, Inductive, CompleteAlways, RecordedAlways, PTL

\* The attempts a status query sees only count up (orchestrator.rs:487-597).
THEOREM AttemptsCountUpHolds ==
    ASSUME AtMostOneRun
    PROVE  Spec => AttemptsCountUp
<1> DEFINE Up1 == \A n \in NodeIds : subtask'[n].attempt >= subtask[n].attempt
<1>1. IndInv /\ Recorded /\ [Next]_vars => [Up1]_vars
  BY RecordedKept
<1>2. AttemptsCountUp <=> [][Up1]_vars
  BY DEF AttemptsCountUp
<1> QED
  BY <1>1, <1>2, Inductive, RecordedAlways, PTL DEF Spec

\* A saga that has ended has undone every compensable node the record shows as
\* completed, but for those that completed while the abort was draining, whose
\* outcomes are thrown away; and it went backwards (orchestrator.rs:368-369,
\* 784-845).
THEOREM SagaReversesHolds ==
    ASSUME AtMostOneRun
    PROVE  Spec => []SagaReverses
<1>1. IndInv /\ Recorded /\ SagaInOrder => SagaReverses
  <2> SUFFICES ASSUME IndInv, Recorded, NEW r \in Runs, pc[r] \in {"finalise", "callback"},
                      Undone(r) # << >>, NEW n \in task.compensable,
                      subtask[n].state = "completed", nodeState[r][n] # "none"
               PROVE  n \in ToSet(Undone(r))
    BY DEF SagaReverses
  <2>1. TypeOK /\ RunInv(r) /\ task \in Tasks
    BY DEF IndInv, TypeOK
  <2>2. n \in NodeIds
    BY <2>1, TasksAssumption
  <2>3. nodeState[r][n] = "completed"
    BY <2>2 DEF Recorded, ShowsNode
  <2>4. n \in Completed(r) \cap task.compensable
    BY <2>2, <2>3 DEF Completed
  <2>5. n \in ToSet(topoOrder[r])
    BY <2>1, <2>2 DEF RunInv, Futures, Validated, Topological
  <2>6. \E x \in 1..Len(Todo(r)) : Todo(r)[x] = n
    BY <2>1, <2>4, <2>5, TodoMembers
  <2>7. toCompensate[r] = << >>
    BY <2>1 DEF RunInv, OnCourse
  <2>8. Undone(r) = Todo(r) /\ DOMAIN Undone(r) = 1..Len(Undone(r))
    BY <2>7, UndonePrefix
  <2> QED
    BY <2>6, <2>8 DEF ToSet
<1> QED
  BY <1>1, Inductive, RecordedAlways, SagaInOrderHolds, PTL
=============================================================================
