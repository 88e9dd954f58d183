-------------------------- MODULE RangeMap_proofs --------------------------
(***************************************************************************)
(* For any maps, nodes, keys and readers, and any order of operations: a   *)
(* look-up delivers the nodes responsible for a key, in order, a reader is *)
(* always at nodes that live, nodes, buckets and the port of the server    *)
(* agree, and the main address is the nearest one.                         *)
(*                                                                         *)
(* What is computed by recursion (chains, the tree, the kept list) is      *)
(* reasoned about through Least: a statement that fails for some number    *)
(* fails for a least one.                                                  *)
(***************************************************************************)
EXTENDS RangeMap, SequenceTheorems, FiniteSetTheorems, WellFoundedInduction, TLAPS

----------------------------------------------------------------------------
(* Least and greatest numbers; functions defined by recursion.             *)

\* A set of naturals that is not empty has a least element.
LEMMA Least ==
  ASSUME NEW T, T \subseteq Nat, T # {}
  PROVE  \E x \in T : \A y \in T : x <= y
<1> DEFINE R == {p \in Nat \X Nat : p[1] < p[2]}
<1>1. IsWellFoundedOn(R, Nat)
  BY NatLessThanWellFounded DEF OpToRel
<1>2. \E x \in T : \A y \in T : ~ (<<y, x>> \in R)
  BY <1>1, WFMin
<1>3. PICK x \in T : \A y \in T : ~ (<<y, x>> \in R)
  BY <1>2
<1>4. ASSUME NEW y \in T PROVE x <= y
  <2>1. x \in Nat /\ y \in Nat
    OBVIOUS
  <2>2. ~(<<y, x>> \in R)
    BY <1>3
  <2>3. <<y, x>> \in Nat \X Nat
    BY <2>1
  <2>4. ~(<<y, x>>[1] < <<y, x>>[2])
    BY <2>2, <2>3
  <2> QED
    BY <2>1, <2>4
<1>5. QED
  BY <1>4

\* One that is bounded has a greatest element.
LEMMA Greatest ==
  ASSUME NEW T, T \subseteq Nat, T # {}, NEW b \in Nat, \A x \in T : x <= b
  PROVE  \E x \in T : \A y \in T : x >= y
<1> DEFINE D == {d \in Nat : b - d \in T}
<1>1. D # {}
  <2>1. PICK x : x \in T
    OBVIOUS
  <2>2. b - x \in Nat /\ b - (b - x) = x
    BY <2>1
  <2> QED
    BY <2>1, <2>2
<1>2. PICK d \in D : \A y \in D : d <= y
  BY <1>1, Least
<1>3. b - d \in T /\ d \in Nat
  BY <1>2
<1>4. ASSUME NEW y \in T PROVE b - d >= y
  <2>1. y \in Nat /\ y <= b /\ b - y \in Nat /\ b - (b - y) = y
    OBVIOUS
  <2>2. b - y \in D
    BY <2>1
  <2>3. d <= b - y
    BY <1>2, <2>2
  <2> QED
    BY <2>1, <2>3, <1>3
<1>5. QED
  BY <1>3, <1>4

\* What Max returns.
LEMMA MaxIs ==
  ASSUME NEW T, T \subseteq Nat, T # {}, NEW b \in Nat, \A x \in T : x <= b
  PROVE  Max(T) \in T /\ \A y \in T : Max(T) >= y
<1>1. \E x \in T : \A y \in T : x >= y
  BY Greatest
<1>2. QED
  BY <1>1 DEF Max

\* What Min returns.
LEMMA MinIs ==
  ASSUME NEW T, T \subseteq Nat, T # {}
  PROVE  Min(T) \in T /\ \A y \in T : Min(T) <= y
<1>1. \E x \in T : \A y \in T : x <= y
  BY Least
<1>2. QED
  BY <1>1 DEF Min

\* The equations of a recursion over 0..n, up to a bound.
Unfolds(g, S, base, step, n) ==
  /\ g \in [0..n -> S]
  /\ g[0] = base
  /\ \A i \in 1..n : g[i] = step[<<g[i - 1], i>>]

\* Recursion over 0..n has a solution.
LEMMA Recursion ==
  ASSUME NEW N \in Nat, NEW S, NEW base \in S, NEW step \in [S \X (1..N) -> S]
  PROVE  \E g : Unfolds(g, S, base, step, N)
<1> DEFINE Bad == {n \in 0..N : ~ \E g : Unfolds(g, S, base, step, n)}
<1>0. N \in 0..N /\ Bad \subseteq Nat
  OBVIOUS
<1>1. SUFFICES ASSUME Bad # {} PROVE FALSE
  BY <1>0
<1>a. \E n \in Bad : \A y \in Bad : n <= y
  <2> HIDE DEF Bad
  <2> QED
    BY <1>0, <1>1, Least
<1>2. PICK n \in Bad : \A y \in Bad : n <= y
  BY <1>a
<1>3. n \in 0..N /\ ~ \E g : Unfolds(g, S, base, step, n)
  OBVIOUS
<1>4. n # 0
  <2> DEFINE g == [i \in 0..0 |-> base]
  <2>1. Unfolds(g, S, base, step, 0)
    BY DEF Unfolds
  <2> QED
    BY <2>1, <1>3
<1>5. n - 1 \in 0..N /\ n - 1 \notin Bad
  BY <1>2, <1>3, <1>4
<1>6. PICK g : Unfolds(g, S, base, step, n - 1)
  BY <1>5
<1>7. n \in 1..N /\ n - 1 \in Nat /\ n \in Nat
  BY <1>3, <1>4
<1>8. g[n - 1] \in S
  BY <1>6, <1>7 DEF Unfolds
<1> DEFINE h == [i \in 0..n |-> IF i = n THEN step[<<g[n - 1], n>>] ELSE g[i]]
<1>9. <<g[n - 1], n>> \in S \X (1..N)
  BY <1>7, <1>8
<1>10. step[<<g[n - 1], n>>] \in S
  BY <1>9
<1>11. \A i \in 0..n : h[i] = IF i = n THEN step[<<g[n - 1], n>>] ELSE g[i]
  OBVIOUS
<1>12. \A i \in 0..n : i # n => i \in 0..(n - 1)
  BY <1>7
<1>13. g \in [0..(n-1) -> S] /\ g[0] = base /\ \A i \in 1..(n-1) : g[i] = step[<<g[i - 1], i>>]
  BY <1>6 DEF Unfolds
<1>14. \A i \in 0..n : h[i] \in S
  BY <1>10, <1>11, <1>12, <1>13
<1>15. h \in [0..n -> S]
  BY <1>14
<1>16. h[0] = base
  BY <1>11, <1>13, <1>7, <1>4
<1>17. ASSUME NEW i \in 1..n PROVE h[i] = step[<<h[i - 1], i>>]
  <2>1. i - 1 \in 0..n /\ i \in 0..n /\ i - 1 # n /\ h[i - 1] = g[i - 1]
    BY <1>11, <1>7
  <2>2. CASE i = n
    BY <2>1, <2>2, <1>11
  <2>3. CASE i # n
    <3>1. i \in 1..(n - 1)
      BY <2>3, <1>7
    <3> QED
      BY <2>1, <2>3, <3>1, <1>11, <1>13
  <2> QED
    BY <2>2, <2>3
<1>18. Unfolds(h, S, base, step, n)
  BY <1>15, <1>16, <1>17 DEF Unfolds
<1>19. QED
  BY <1>18, <1>3

----------------------------------------------------------------------------
(* Chains of nodes.                                                        *)

NodeOrNone == Node \cup {NoNode}

\* There are finitely many nodes.
LEMMA NodesFinite == IsFiniteSet(Node) /\ Cardinality(Node) \in Nat
<1> DEFINE f == [p \in Addrs \X Hashes |-> [addr |-> p[1], hash |-> p[2]]]
<1>1. IsFiniteSet(Addrs \X Hashes)
  BY FS_Product, RangeMapAssumption
<1>2. f \in Surjection(Addrs \X Hashes, Node)
  <2>1. f \in [Addrs \X Hashes -> Node]
    BY DEF Node
  <2>2. ASSUME NEW n \in Node PROVE \E p \in Addrs \X Hashes : f[p] = n
    <3>1. n.addr \in Addrs /\ n.hash \in Hashes /\ n = [addr |-> n.addr, hash |-> n.hash]
      BY DEF Node
    <3>2. <<n.addr, n.hash>> \in Addrs \X Hashes
      BY <3>1
    <3>3. f[<<n.addr, n.hash>>] = [addr |-> n.addr, hash |-> n.hash]
      BY <3>2
    <3> QED
      BY <3>1, <3>2, <3>3
  <2> QED
    BY <2>1, <2>2 DEF Surjection
<1>3. IsFiniteSet(Node)
  BY <1>1, <1>2, FS_Surjection
<1>4. QED
  BY <1>3, FS_CardinalityType

\* The equations of Steps.
LEMMA StepsIs ==
  ASSUME NEW nx \in [Node -> NodeOrNone], NEW n \in NodeOrNone
  PROVE  /\ Steps(nx, n) \in [0..Cardinality(Node) -> NodeOrNone]
         /\ Steps(nx, n)[0] = n
         /\ \A k \in 1..Cardinality(Node) : Steps(nx, n)[k] =
              IF Steps(nx, n)[k - 1] = NoNode THEN NoNode ELSE nx[Steps(nx, n)[k - 1]]
<1> DEFINE N == Cardinality(Node)
           step == [p \in NodeOrNone \X (1..N) |-> IF p[1] = NoNode THEN NoNode ELSE nx[p[1]]]
           Eq(at) == at = [k \in 0..N |-> IF k = 0 THEN n
                             ELSE IF at[k - 1] = NoNode THEN NoNode ELSE nx[at[k - 1]]]
<1>1. N \in Nat
  BY NodesFinite
<1>2. \A x \in NodeOrNone : (IF x = NoNode THEN NoNode ELSE nx[x]) \in NodeOrNone
  BY DEF NodeOrNone
<1>3. step \in [NodeOrNone \X (1..N) -> NodeOrNone]
  BY <1>2
<1>4. PICK g : Unfolds(g, NodeOrNone, n, step, N)
  <2> HIDE DEF N, step
  <2> QED
    BY <1>1, <1>3, Recursion
<1>5. g \in [0..N -> NodeOrNone] /\ g[0] = n
  BY <1>4 DEF Unfolds
<1>6. ASSUME NEW k \in 1..N PROVE g[k] = IF g[k - 1] = NoNode THEN NoNode ELSE nx[g[k - 1]]
  <2>1. g[k] = step[<<g[k - 1], k>>]
    BY <1>4 DEF Unfolds
  <2>2. k - 1 \in 0..N
    BY <1>1
  <2>3. <<g[k - 1], k>> \in NodeOrNone \X (1..N)
    BY <1>5, <2>2
  <2> QED
    BY <2>1, <2>3
<1>7. Eq(g)
  <2> DEFINE h == [k \in 0..N |-> IF k = 0 THEN n
                             ELSE IF g[k - 1] = NoNode THEN NoNode ELSE nx[g[k - 1]]]
  <2>1. \A k \in 0..N : k # 0 => k \in 1..N
    BY <1>1
  <2>2. \A k \in 0..N : g[k] = h[k]
    BY <1>5, <1>6, <2>1
  <2> QED
    BY <2>2, <1>5
<1>8. Steps(nx, n) = CHOOSE at : Eq(at)
  BY DEF Steps
<1>9. Eq(Steps(nx, n))
  BY <1>7, <1>8
<1> DEFINE a == Steps(nx, n)
<1>10. DOMAIN a = 0..N /\ a[0] = n
  BY <1>9, <1>1
<1>11. \A k \in 1..N : a[k] = IF a[k - 1] = NoNode THEN NoNode ELSE nx[a[k - 1]]
  BY <1>9, <1>1
<1>12. \A k \in 0..N : a[k] \in NodeOrNone
  <2> DEFINE Bad == {k \in 0..N : a[k] \notin NodeOrNone}
  <2>1. SUFFICES ASSUME Bad # {} PROVE FALSE
    OBVIOUS
  <2>2. Bad \subseteq Nat
    OBVIOUS
  <2>3. \E k \in Bad : \A y \in Bad : k <= y
    <3> HIDE DEF Bad
    <3> QED
      BY <2>1, <2>2, Least
  <2>4. PICK k \in Bad : \A y \in Bad : k <= y
    BY <2>3
  <2>5. k # 0 /\ k \in 0..N
    BY <1>10
  <2>6. k \in 1..N /\ k - 1 \in 0..N /\ ~(k <= k - 1)
    BY <2>5, <1>1
  <2>7. a[k - 1] \in NodeOrNone
    BY <2>4, <2>6
  <2>8. a[k] \in NodeOrNone
    BY <2>6, <2>7, <1>11, <1>2
  <2> QED
    BY <2>8, <2>4
<1>13. a \in [0..N -> NodeOrNone]
  <2>1. a = [k \in 0..N |-> a[k]]
    BY <1>9
  <2> QED
    BY <2>1, <1>12
<1>14. QED
  BY <1>10, <1>11, <1>13

\* Induction up to a bound, over a set instead of a predicate.
LEMMA UpTo ==
  ASSUME NEW N \in Nat, NEW G, 0 \in G, \A i \in 1..N : i - 1 \in G => i \in G
  PROVE  \A i \in 0..N : i \in G
<1> DEFINE Bad == {i \in 0..N : i \notin G}
<1>1. SUFFICES ASSUME Bad # {} PROVE FALSE
  OBVIOUS
<1>2. Bad \subseteq Nat
  OBVIOUS
<1>3. \E i \in Bad : \A y \in Bad : i <= y
  <2> HIDE DEF Bad
  <2> QED
    BY <1>1, <1>2, Least
<1>4. PICK i \in Bad : \A y \in Bad : i <= y
  BY <1>3
<1>5. i # 0 /\ i \in 0..N
  OBVIOUS
<1>6. i \in 1..N /\ i - 1 \in 0..N /\ ~(i <= i - 1)
  BY <1>5
<1>7. i - 1 \in G
  BY <1>4, <1>6
<1>8. QED
  BY <1>4, <1>6, <1>7

\* The pointers lead from nodes of D to nodes of D, further on in the order E.
Guides(nx, D, E) ==
  /\ D \subseteq Node
  /\ \A x \in D : nx[x] # NoNode => nx[x] \in D /\ <<x, nx[x]>> \in E
  /\ \A x \in D : <<x, x>> \notin E
  /\ \A x, y, z \in D : <<x, y>> \in E /\ <<y, z>> \in E => <<x, z>> \in E

\* c is the chain that starts with n: its nodes are in D, in the order E.
IsChain(nx, n, c, D, E) ==
  /\ c \in Seq(Node) /\ Len(c) \in Nat /\ Len(c) >= 1 /\ c[1] = n
  /\ \A i \in 1..Len(c) : c[i] \in D
  /\ \A i \in 1..(Len(c) - 1) : nx[c[i]] = c[i + 1]
  /\ nx[c[Len(c)]] = NoNode
  /\ \A i, j \in 1..Len(c) : i < j => <<c[i], c[j]>> \in E

\* What is met before the end, and in which order.
LEMMA StepsInOrder ==
  ASSUME NEW nx \in [Node -> NodeOrNone], NEW D, NEW E, Guides(nx, D, E), NEW n \in D
  PROVE  \A k \in 0..Cardinality(Node) : Steps(nx, n)[k] # NoNode =>
           /\ Steps(nx, n)[k] \in D
           /\ \A j \in 0..(k - 1) : /\ Steps(nx, n)[j] # NoNode
                                    /\ <<Steps(nx, n)[j], Steps(nx, n)[k]>> \in E
<1> DEFINE N == Cardinality(Node)
           a == Steps(nx, n)
           G == {k \in 0..N : a[k] # NoNode =>
                   /\ a[k] \in D
                   /\ \A j \in 0..(k - 1) : a[j] # NoNode /\ <<a[j], a[k]>> \in E}
<1>1. N \in Nat
  BY NodesFinite
<1>2. n \in Node
  BY DEF Guides
<1>3. /\ a[0] = n
      /\ \A k \in 1..N : a[k] = IF a[k - 1] = NoNode THEN NoNode ELSE nx[a[k - 1]]
  BY <1>2, StepsIs DEF NodeOrNone
<1> HIDE DEF a
<1>4. 0 \in G
  BY <1>1, <1>3
<1>5. ASSUME NEW k \in 1..N, k - 1 \in G PROVE k \in G
  <2>1. SUFFICES ASSUME a[k] # NoNode
                 PROVE  /\ a[k] \in D
                        /\ \A j \in 0..(k - 1) : a[j] # NoNode /\ <<a[j], a[k]>> \in E
    BY <1>1
  <2>2. a[k - 1] # NoNode /\ a[k] = nx[a[k - 1]]
    BY <1>3, <2>1
  <2>3. /\ a[k - 1] \in D
        /\ \A j \in 0..(k - 2) : a[j] # NoNode /\ <<a[j], a[k - 1]>> \in E
    <3>1. k - 1 - 1 = k - 2
      OBVIOUS
    <3> QED
      BY <1>5, <2>2, <3>1
  <2>4. a[k] \in D /\ <<a[k - 1], a[k]>> \in E
    BY <2>1, <2>2, <2>3 DEF Guides
  <2>5. ASSUME NEW j \in 0..(k - 1) PROVE a[j] # NoNode /\ <<a[j], a[k]>> \in E
    <3>1. CASE j = k - 1
      BY <3>1, <2>2, <2>4
    <3>2. CASE j # k - 1
      <4>1. j \in 0..(k - 2)
        BY <3>2
      <4>2. a[j] # NoNode /\ <<a[j], a[k - 1]>> \in E
        BY <4>1, <2>3
      <4>3. j \in 0..N
        BY <1>1
      <4>4. a[j] \in D
        <5> DEFINE H == {i \in 0..N : a[i] # NoNode => a[i] \in D}
        <5>1. 0 \in H
          BY <1>1, <1>3
        <5>2. ASSUME NEW i \in 1..N, i - 1 \in H PROVE i \in H
          <6>1. i \in 0..N /\ (a[i - 1] # NoNode => a[i - 1] \in D)
            BY <1>1, <5>2
          <6>2. a[i] # NoNode => a[i - 1] # NoNode /\ a[i] = nx[a[i - 1]]
            BY <1>3
          <6>3. a[i] # NoNode => a[i] \in D
            BY <6>1, <6>2 DEF Guides
          <6> QED
            BY <6>1, <6>3
        <5>3. \A i \in 0..N : i \in H
          <6> HIDE DEF H, N
          <6> QED
            BY <1>1, <5>1, <5>2, UpTo
        <5> QED
          BY <5>3, <4>2, <4>3
      <4> QED
        BY <4>2, <4>4, <2>3, <2>4 DEF Guides
    <3> QED
      BY <3>1, <3>2
  <2> QED
    BY <2>4, <2>5
<1>6. \A k \in 0..N : k \in G
  <2> HIDE DEF G, N
  <2> QED
    BY <1>1, <1>4, <1>5, UpTo
<1>7. QED
  BY <1>6 DEF a

\* Follow yields the chain.
LEMMA FollowIsChain ==
  ASSUME NEW nx \in [Node -> NodeOrNone], NEW D, NEW E, Guides(nx, D, E), NEW n \in D
  PROVE  IsChain(nx, n, Follow(nx, n), D, E)
<1> DEFINE N == Cardinality(Node)
           a == Steps(nx, n)
           c == Follow(nx, n)
           met == {k \in 1..(N + 1) : a[k - 1] # NoNode}
<1>1. N \in Nat
  BY NodesFinite
<1>2. n \in Node /\ D \subseteq Node
  BY DEF Guides
<1>3. /\ a \in [0..N -> NodeOrNone] /\ a[0] = n
      /\ \A k \in 1..N : a[k] = IF a[k - 1] = NoNode THEN NoNode ELSE nx[a[k - 1]]
  BY <1>2, StepsIs DEF NodeOrNone
<1>4. \A k \in 0..N : a[k] # NoNode =>
           /\ a[k] \in D
           /\ \A j \in 0..(k - 1) : a[j] # NoNode /\ <<a[j], a[k]>> \in E
  BY StepsInOrder
<1>5. c = [k \in 1..Max({0} \cup met) |-> a[k - 1]]
  BY DEF Follow
<1> HIDE DEF a, c
<1>6. a[N] = NoNode
  <2>1. SUFFICES ASSUME a[N] # NoNode PROVE FALSE
    OBVIOUS
  <2>2. \A k \in 0..N : a[k] # NoNode /\ a[k] \in Node
    <3>1. N \in 0..N /\ \A k \in 0..N : k # N => k \in 0..(N - 1)
      BY <1>1
    <3> QED
      BY <3>1, <2>1, <1>2, <1>4
  <2>3. a \in [0..N -> Node]
    BY <1>3, <2>2
  <2>4. IsFiniteSet(0..N) /\ Cardinality(0..N) = N + 1
    BY <1>1, FS_Interval
  <2>5. \E x, y \in 0..N : x # y /\ a[x] = a[y]
    <3>1. N < N + 1
      BY <1>1
    <3> QED
      BY <2>3, <2>4, <3>1, NodesFinite, FS_PigeonHole
  <2>6. PICK x, y \in 0..N : x # y /\ a[x] = a[y]
    BY <2>5
  <2>7. CASE x < y
    <3>1. x \in 0..(y - 1)
      BY <2>7
    <3> QED
      BY <3>1, <2>2, <2>6, <1>4 DEF Guides
  <2>8. CASE y < x
    <3>1. y \in 0..(x - 1)
      BY <2>8
    <3> QED
      BY <3>1, <2>2, <2>6, <1>4 DEF Guides
  <2> QED
    BY <2>6, <2>7, <2>8
<1> DEFINE Ends == {k \in 0..N : a[k] = NoNode}
<1>7. Ends # {} /\ Ends \subseteq Nat
  BY <1>1, <1>6
<1>8. \E k \in Ends : \A y \in Ends : k <= y
  <2> HIDE DEF Ends
  <2> QED
    BY <1>7, Least
<1>9. PICK K \in Ends : \A y \in Ends : K <= y
  BY <1>8
<1>10. K \in 1..N /\ a[K] = NoNode /\ K \in Nat
  <2>1. K # 0
    BY <1>3, <1>2, NoNodeAssumption
  <2> QED
    BY <2>1, <1>1
<1>11. \A k \in 0..(K - 1) : k \in 0..N /\ a[k] # NoNode
  <2>1. ASSUME NEW k \in 0..(K - 1) PROVE k \in 0..N /\ ~(K <= k)
    BY <1>1, <1>10
  <2> QED
    BY <2>1, <1>9
<1>12. \A k \in 0..N : a[k] # NoNode => k < K
  <2>1. ASSUME NEW k \in 0..N, a[k] # NoNode, ~(k < K) PROVE FALSE
    <3>1. k # K
      BY <2>1, <1>10
    <3>2. K \in 0..(k - 1)
      BY <3>1, <2>1, <1>10
    <3> QED
      BY <3>2, <2>1, <1>4, <1>10
  <2> QED
    BY <2>1
<1>13. met = 1..K
  <2>1. ASSUME NEW k \in met PROVE k \in 1..K
    <3>1. k - 1 \in 0..N /\ a[k - 1] # NoNode
      BY <1>1
    <3>2. k - 1 < K
      BY <3>1, <1>12
    <3> QED
      BY <3>2, <1>10, <1>1
  <2>2. ASSUME NEW k \in 1..K PROVE k \in met
    <3>1. k - 1 \in 0..(K - 1) /\ k \in 1..(N + 1)
      BY <1>1, <1>10
    <3> QED
      BY <3>1, <1>11
  <2> QED
    BY <2>1, <2>2
<1>14. Max({0} \cup met) = K
  <2> DEFINE T == {0} \cup met
  <2>1. T \subseteq Nat /\ T # {} /\ K \in T /\ \A x \in T : x <= K
    BY <1>10, <1>13
  <2>2. Max(T) \in T /\ \A y \in T : Max(T) >= y
    <3> HIDE DEF T
    <3> QED
      BY <2>1, <1>10, MaxIs
  <2>3. Max(T) >= K /\ Max(T) <= K /\ Max(T) \in Nat
    <3> HIDE DEF T
    <3> QED
      BY <2>1, <2>2
  <2> QED
    BY <2>3, <1>10
<1>15. c = [k \in 1..K |-> a[k - 1]]
  BY <1>5, <1>14
<1>16. \A k \in 1..K : k - 1 \in 0..(K - 1) /\ k - 1 \in 0..N
  BY <1>10, <1>1
<1>17. \A k \in 1..K : c[k] = a[k - 1] /\ c[k] \in D /\ c[k] # NoNode
  BY <1>15, <1>16, <1>11, <1>4
<1>18. c \in Seq(Node) /\ Len(c) = K
  <2>1. c \in [1..K -> Node]
    BY <1>15, <1>17, <1>2
  <2> QED
    BY <2>1, <1>10
<1>19. c[1] = n /\ Len(c) >= 1 /\ Len(c) \in Nat
  BY <1>17, <1>18, <1>10, <1>3
<1>20. ASSUME NEW i \in 1..(K - 1) PROVE nx[c[i]] = c[i + 1]
  <2>1. i \in 1..K /\ i + 1 \in 1..K /\ i \in 1..N
    BY <1>10, <1>1
  <2>2. c[i] = a[i - 1] /\ c[i + 1] = a[i] /\ a[i - 1] # NoNode
    <3>1. i + 1 - 1 = i
      OBVIOUS
    <3> QED
      BY <2>1, <3>1, <1>17
  <2> QED
    BY <2>1, <2>2, <1>3
<1>21. nx[c[K]] = NoNode
  <2>1. c[K] = a[K - 1] /\ a[K - 1] # NoNode
    BY <1>10, <1>17
  <2> QED
    BY <2>1, <1>10, <1>3
<1>22. ASSUME NEW i \in 1..K, NEW j \in 1..K, i < j PROVE <<c[i], c[j]>> \in E
  <2>1. i - 1 \in 0..((j - 1) - 1) /\ j - 1 \in 0..N
    BY <1>22, <1>10, <1>1
  <2>2. a[j - 1] # NoNode
    BY <1>17
  <2>3. <<a[i - 1], a[j - 1]>> \in E
    BY <2>1, <2>2, <1>4
  <2> QED
    BY <2>3, <1>17
<1>23. IsChain(nx, n, c, D, E)
  BY <1>17, <1>18, <1>19, <1>20, <1>21, <1>22 DEF IsChain
<1>24. QED
  BY <1>23 DEF c

\* Nothing is met from nowhere.
LEMMA FollowNone ==
  ASSUME NEW nx \in [Node -> NodeOrNone]
  PROVE  Follow(nx, NoNode) = <<>>
<1> DEFINE N == Cardinality(Node)
           a == Steps(nx, NoNode)
           met == {k \in 1..(N + 1) : a[k - 1] # NoNode}
           G == {k \in 0..N : a[k] = NoNode}
<1>1. N \in Nat
  BY NodesFinite
<1>2. /\ a[0] = NoNode
      /\ \A k \in 1..N : a[k] = IF a[k - 1] = NoNode THEN NoNode ELSE nx[a[k - 1]]
  BY StepsIs DEF NodeOrNone
<1> HIDE DEF a
<1>3. 0 \in G /\ \A k \in 1..N : k - 1 \in G => k \in G
  BY <1>1, <1>2
<1>4. \A k \in 0..N : k \in G
  <2> HIDE DEF G, N
  <2> QED
    BY <1>1, <1>3, UpTo
<1>5. met = {}
  <2>1. \A k \in 1..(N + 1) : k - 1 \in 0..N
    BY <1>1
  <2> QED
    BY <2>1, <1>4
<1>6. {0} \cup met = {0}
  BY <1>5
<1>7. Max({0}) = 0
  <2>1. Max({0}) \in {0}
    BY MaxIs
  <2> QED
    BY <2>1
<1>8. Follow(nx, NoNode) = [k \in 1..Max({0} \cup met) |-> a[k - 1]]
  BY DEF Follow, a
<1>9. Follow(nx, NoNode) = [k \in 1..0 |-> a[k - 1]]
  BY <1>6, <1>7, <1>8
<1>10. QED
  BY <1>9

----------------------------------------------------------------------------
(* Loading: the nodes of a list enter the tree and the chains one by one.  *)

Chains == [rb : SUBSET Node, next : [Node -> NodeOrNone]]

DupFree(l) ==
  /\ l \in Seq(Node) /\ Len(l) \in Nat
  /\ \A i \in 1..Len(l) : l[i] \in Node
  /\ \A i, j \in 1..Len(l) : i # j => l[i] # l[j]

\* Among the first n nodes of l, k is the next one with the prefix of the j-th.
NextAt(l, n, j, k) ==
  /\ k \in (j + 1)..n
  /\ l[k].hash = l[j].hash
  /\ \A x \in (j + 1)..(k - 1) : l[x].hash # l[j].hash

NoneAfter(l, n, j) == \A x \in (j + 1)..n : l[x].hash # l[j].hash

\* Positions of the first node of each prefix.
IsFirst(l, j) == \A k \in 1..(j - 1) : l[k].hash # l[j].hash

Heads(l, n) == {l[j] : j \in {k \in 1..n : IsFirst(l, k)}}

\* The pointer of the j-th node: to the next node of its prefix.
Threads(nx, l, n, j) ==
  \/ NoneAfter(l, n, j) /\ nx[l[j]] = NoNode
  \/ \E k \in 1..n : NextAt(l, n, j, k) /\ nx[l[j]] = l[k]

\* What loading the first n nodes results in.
LoadedUpTo(s, l, n) ==
  /\ s \in Chains
  /\ s.rb = Heads(l, n)
  /\ \A j \in 1..n : Threads(s.next, l, n, j)
  /\ \A x \in Node : (\A j \in 1..n : l[j] # x) => s.next[x] = NoNode

\* Each prefix has its first node.
LEMMA FirstExists ==
  ASSUME NEW l, DupFree(l), NEW n \in 0..Len(l), NEW j \in 1..n
  PROVE  \E f \in 1..n : IsFirst(l, f) /\ l[f].hash = l[j].hash /\ f <= j
<1> DEFINE T == {k \in 1..n : l[k].hash = l[j].hash}
<1>1. T \subseteq Nat /\ j \in T /\ n \in Nat /\ j \in Nat
  BY DEF DupFree
<1>2. \E f \in T : \A y \in T : f <= y
  <2> HIDE DEF T
  <2> QED
    BY <1>1, Least
<1>3. PICK f \in T : \A y \in T : f <= y
  BY <1>2
<1>4. f \in 1..n /\ l[f].hash = l[j].hash /\ f <= j
  BY <1>3, <1>1
<1>5. IsFirst(l, f)
  <2>1. ASSUME NEW k \in 1..(f - 1), l[k].hash = l[f].hash PROVE FALSE
    <3>1. k \in 1..n /\ ~(f <= k)
      BY <1>4, <1>1
    <3>2. k \in T
      BY <3>1, <2>1, <1>4
    <3> QED
      BY <3>1, <3>2, <1>3
  <2> QED
    BY <2>1 DEF IsFirst
<1>6. QED
  BY <1>4, <1>5

\* What RB_FIND returns: the first node of the prefix, if there is one.
FindsFirst(x, l, n, h) ==
  \/ x = NoNode /\ \A j \in 1..n : l[j].hash # h
  \/ \E f \in 1..n : IsFirst(l, f) /\ l[f].hash = h /\ x = l[f]

\* InRb over the first nodes does that.
LEMMA InRbIs ==
  ASSUME NEW l, DupFree(l), NEW n \in 0..Len(l), NEW h
  PROVE  FindsFirst(InRb(Heads(l, n), h), l, n, h)
<1> DEFINE H == Heads(l, n)
<1>0. n \in Nat
  BY DEF DupFree
<1>1. CASE \E x \in H : x.hash = h
  <2>1. InRb(H, h) = CHOOSE x \in H : x.hash = h
    BY <1>1 DEF InRb
  <2>2. InRb(H, h) \in H /\ InRb(H, h).hash = h
    <3> HIDE DEF H
    <3> QED
      BY <1>1, <2>1
  <2>3. PICK f \in 1..n : IsFirst(l, f) /\ InRb(H, h) = l[f]
    BY <2>2 DEF Heads
  <2> QED
    BY <2>2, <2>3 DEF FindsFirst
<1>2. CASE ~ \E x \in H : x.hash = h
  <2>1. InRb(H, h) = NoNode
    BY <1>2 DEF InRb
  <2>2. ASSUME NEW j \in 1..n, l[j].hash = h PROVE FALSE
    <3>1. PICK f \in 1..n : IsFirst(l, f) /\ l[f].hash = l[j].hash
      BY FirstExists
    <3>2. l[f] \in H
      BY <3>1 DEF Heads
    <3> QED
      BY <3>1, <3>2, <2>2, <1>2
  <2> QED
    BY <2>1, <2>2 DEF FindsFirst
<1>3. QED
  BY <1>1, <1>2

\* The end of a chain as long as it holds the nodes of one prefix only: the last
\* node of the prefix.
IsEnd(x, nx, l, n, h) ==
  \E e \in 1..n : x = l[e] /\ l[e].hash = h /\ NoneAfter(l, n, e) /\ nx[l[e]] = NoNode

\* Follow ends there.
LEMMA EndOfChain ==
  ASSUME NEW l, DupFree(l), NEW n \in 0..Len(l), NEW nx \in [Node -> NodeOrNone], NEW h,
         \A j \in 1..n : l[j].hash = h => Threads(nx, l, n, j),
         NEW f \in 1..n, l[f].hash = h
  PROVE  IsEnd(Last(Follow(nx, l[f])), nx, l, n, h)
<1> DEFINE D == {l[j] : j \in {k \in 1..n : l[k].hash = h}}
           E == {p \in Node \X Node : \E a, b \in 1..n : a < b /\ p = <<l[a], l[b]>>}
           c == Follow(nx, l[f])
<1>1. n \in Nat /\ \A j \in 1..n : j \in 1..Len(l) /\ l[j] \in Node
  BY DEF DupFree
<1>2. \A i, j \in 1..n : i # j => l[i] # l[j]
  BY <1>1 DEF DupFree
<1>3. Guides(nx, D, E)
  <2>1. D \subseteq Node
    BY <1>1
  <2>2. ASSUME NEW x \in D, nx[x] # NoNode PROVE nx[x] \in D /\ <<x, nx[x]>> \in E
    <3>1. PICK j \in 1..n : x = l[j] /\ l[j].hash = h
      OBVIOUS
    <3>2. PICK k \in 1..n : NextAt(l, n, j, k) /\ nx[l[j]] = l[k]
      BY <3>1, <2>2 DEF Threads
    <3>3. j < k /\ l[k].hash = h
      BY <3>1, <3>2, <1>1 DEF NextAt
    <3> QED
      BY <3>1, <3>2, <3>3, <1>1
  <2>3. ASSUME NEW x \in D, <<x, x>> \in E PROVE FALSE
    <3>1. PICK a, b \in 1..n : a < b /\ <<x, x>> = <<l[a], l[b]>>
      BY <2>3
    <3>2. a # b /\ l[a] = l[b]
      BY <3>1, <1>1
    <3> QED
      BY <3>2, <1>2
  <2>4. ASSUME NEW x \in D, NEW y \in D, NEW z \in D, <<x, y>> \in E, <<y, z>> \in E
        PROVE  <<x, z>> \in E
    <3>1. PICK a, b \in 1..n : a < b /\ <<x, y>> = <<l[a], l[b]>>
      BY <2>4
    <3>2. PICK a2, b2 \in 1..n : a2 < b2 /\ <<y, z>> = <<l[a2], l[b2]>>
      BY <2>4
    <3>3. b = a2 /\ x = l[a] /\ z = l[b2]
      BY <3>1, <3>2, <1>2
    <3>4. a < b2
      BY <3>1, <3>2, <3>3
    <3> QED
      BY <3>3, <3>4, <1>1
  <2> HIDE DEF D, E
  <2> QED
    BY <2>1, <2>2, <2>3, <2>4 DEF Guides
<1>4. l[f] \in D
  OBVIOUS
<1>5. IsChain(nx, l[f], c, D, E)
  <2> HIDE DEF D, E
  <2> QED
    BY <1>3, <1>4, FollowIsChain
<1>6. c[Len(c)] \in D /\ nx[c[Len(c)]] = NoNode
  <2> HIDE DEF D, E, c
  <2>1. Len(c) \in 1..Len(c)
    BY <1>5 DEF IsChain
  <2> QED
    BY <1>5, <2>1 DEF IsChain
<1>7. PICK e \in 1..n : c[Len(c)] = l[e] /\ l[e].hash = h
  BY <1>6
<1>8. nx[l[e]] = NoNode
  BY <1>6, <1>7
<1>9. NoneAfter(l, n, e)
  <2>1. ASSUME NEW k \in 1..n, nx[l[e]] = l[k] PROVE FALSE
    BY <2>1, <1>1, <1>8, NoNodeAssumption
  <2> QED
    BY <2>1, <1>7 DEF Threads
<1>10. QED
  BY <1>7, <1>8, <1>9 DEF IsEnd, Last

\* The fields after LoadNode.
LEMMA LoadNodeFields ==
  ASSUME NEW s \in Chains, NEW p \in Node
  PROVE  /\ LoadNode(s, p) \in Chains
         /\ InRb(s.rb, p.hash) = NoNode =>
              LoadNode(s, p).rb = s.rb \cup {p} /\ LoadNode(s, p).next = s.next
         /\ InRb(s.rb, p.hash) # NoNode =>
              /\ LoadNode(s, p).rb = s.rb
              /\ LoadNode(s, p).next =
                   [s.next EXCEPT ![Last(Follow(s.next, InRb(s.rb, p.hash)))] = p]
<1> DEFINE y == Last(Follow(s.next, InRb(s.rb, p.hash)))
<1>1. s.rb \subseteq Node /\ s.next \in [Node -> NodeOrNone]
  BY DEF Chains
<1>2. CASE InRb(s.rb, p.hash) = NoNode
  <2>1. LoadNode(s, p) = [s EXCEPT !.rb = s.rb \cup {p}]
    BY <1>2 DEF LoadNode
  <2>2. LoadNode(s, p).rb = s.rb \cup {p} /\ LoadNode(s, p).next = s.next
    BY <2>1 DEF Chains
  <2>3. LoadNode(s, p) \in Chains
    BY <2>1, <1>1 DEF Chains
  <2> QED
    BY <2>2, <2>3, <1>2
<1>3. CASE InRb(s.rb, p.hash) # NoNode
  <2>1. LoadNode(s, p) = [s EXCEPT !.next = [s.next EXCEPT ![y] = p]]
    BY <1>3 DEF LoadNode
  <2> HIDE DEF y
  <2>2. LoadNode(s, p).rb = s.rb /\ LoadNode(s, p).next = [s.next EXCEPT ![y] = p]
    BY <2>1 DEF Chains
  <2>3. [s.next EXCEPT ![y] = p] \in [Node -> NodeOrNone]
    BY <1>1 DEF NodeOrNone
  <2>4. LoadNode(s, p) \in Chains
    BY <2>1, <2>3, <1>1 DEF Chains
  <2> QED
    BY <2>2, <2>4, <1>3 DEF y
<1>4. QED
  BY <1>2, <1>3

\* One more node is loaded.
LEMMA LoadStep ==
  ASSUME NEW l, DupFree(l), NEW n \in Nat, n + 1 <= Len(l), NEW s, LoadedUpTo(s, l, n)
  PROVE  LoadedUpTo(LoadNode(s, l[n + 1]), l, n + 1)
<1> DEFINE p == l[n + 1]
           t == LoadNode(s, p)
           x == InRb(s.rb, p.hash)
<1>1. /\ n \in 0..Len(l) /\ n + 1 \in 1..Len(l) /\ p \in Node
      /\ \A j \in 1..(n + 1) : j \in 1..Len(l) /\ l[j] \in Node /\ (j # n + 1 => j \in 1..n)
      /\ \A j \in 1..n : j \in 1..(n + 1) /\ j # n + 1
  BY DEF DupFree
<1>2. \A i, j \in 1..(n + 1) : i # j => l[i] # l[j]
  BY <1>1 DEF DupFree
<1>3. /\ s \in Chains /\ s.rb = Heads(l, n) /\ s.next \in [Node -> NodeOrNone]
      /\ \A j \in 1..n : Threads(s.next, l, n, j)
      /\ \A z \in Node : (\A j \in 1..n : l[j] # z) => s.next[z] = NoNode
  BY DEF LoadedUpTo, Chains
<1>4. FindsFirst(x, l, n, p.hash)
  BY <1>1, <1>3, InRbIs
<1>5. s.next[p] = NoNode
  BY <1>1, <1>2, <1>3
<1>6. NoneAfter(l, n + 1, n + 1)
  BY DEF NoneAfter
<1>7. \A j \in 1..n, k \in 1..n : NextAt(l, n, j, k) => NextAt(l, n + 1, j, k) /\ k \in 1..(n + 1)
  BY <1>1 DEF NextAt
<1>8. \A j \in 1..n : NoneAfter(l, n, j) /\ l[j].hash # p.hash => NoneAfter(l, n + 1, j)
  <2>1. \A j \in 1..n : \A y \in (j + 1)..(n + 1) : y = n + 1 \/ y \in (j + 1)..n
    OBVIOUS
  <2> QED
    BY <2>1 DEF NoneAfter
<1>9. CASE x = NoNode
  <2>1. \A j \in 1..n : l[j].hash # p.hash
    <3>1. \A f \in 1..n : x # l[f]
      BY <1>1, <1>9, NoNodeAssumption
    <3> QED
      BY <1>4, <3>1 DEF FindsFirst
  <2>2. t \in Chains /\ t.rb = s.rb \cup {p} /\ t.next = s.next
    BY <1>1, <1>3, <1>9, LoadNodeFields
  <2>3. Heads(l, n + 1) = Heads(l, n) \cup {p}
    <3>1. IsFirst(l, n + 1)
      BY <2>1 DEF IsFirst
    <3> QED
      BY <3>1, <1>1 DEF Heads
  <2> HIDE DEF t, p, x
  <2>4. ASSUME NEW j \in 1..(n + 1) PROVE Threads(t.next, l, n + 1, j)
    <3>1. CASE j = n + 1
      BY <3>1, <1>5, <1>6, <2>2 DEF Threads, p
    <3>2. CASE j # n + 1
      <4>1. j \in 1..n
        BY <3>2, <1>1
      <4>2. Threads(s.next, l, n, j)
        BY <4>1, <1>3
      <4>3. CASE NoneAfter(l, n, j) /\ s.next[l[j]] = NoNode
        BY <4>1, <4>3, <1>8, <2>1, <2>2 DEF Threads
      <4>4. CASE \E k \in 1..n : NextAt(l, n, j, k) /\ s.next[l[j]] = l[k]
        BY <4>1, <4>4, <1>7, <2>2 DEF Threads
      <4> QED
        BY <4>2, <4>3, <4>4 DEF Threads
    <3> QED
      BY <3>1, <3>2
  <2>5. \A z \in Node : (\A j \in 1..(n + 1) : l[j] # z) => t.next[z] = NoNode
    BY <1>1, <1>3, <2>2
  <2> QED
    BY <2>2, <2>3, <2>4, <2>5, <1>3 DEF LoadedUpTo, t, p
<1>10. CASE x # NoNode
  <2>1. PICK f \in 1..n : IsFirst(l, f) /\ l[f].hash = p.hash /\ x = l[f]
    BY <1>4, <1>10 DEF FindsFirst
  <2> DEFINE y == Last(Follow(s.next, x))
  <2>2. t \in Chains /\ t.rb = s.rb /\ t.next = [s.next EXCEPT ![y] = p]
    BY <1>1, <1>3, <1>10, LoadNodeFields
  <2>3. IsEnd(y, s.next, l, n, p.hash)
    <3>1. \A j \in 1..n : l[j].hash = p.hash => Threads(s.next, l, n, j)
      BY <1>3
    <3> HIDE DEF p, x
    <3>2. IsEnd(Last(Follow(s.next, l[f])), s.next, l, n, p.hash)
      BY <1>1, <1>3, <2>1, <3>1, EndOfChain
    <3> QED
      BY <3>2, <2>1
  <2>4. PICK e \in 1..n : /\ y = l[e] /\ l[e].hash = p.hash /\ NoneAfter(l, n, e)
                          /\ s.next[l[e]] = NoNode
    BY <2>3 DEF IsEnd
  <2>5. Heads(l, n + 1) = Heads(l, n)
    <3>1. ~IsFirst(l, n + 1)
      <4>1. f \in 1..((n + 1) - 1)
        OBVIOUS
      <4> QED
        BY <4>1, <2>1 DEF IsFirst
    <3> QED
      BY <3>1, <1>1 DEF Heads
  <2>6. \A z \in Node : t.next[z] = IF z = l[e] THEN p ELSE s.next[z]
    BY <2>2, <2>4, <1>3
  <2> HIDE DEF t, x, y
  <2>7. ASSUME NEW j \in 1..(n + 1) PROVE Threads(t.next, l, n + 1, j)
    <3>1. CASE j = n + 1
      <4>1. l[j] # l[e] /\ l[j] \in Node
        BY <3>1, <1>1, <1>2
      <4> QED
        BY <4>1, <3>1, <1>5, <1>6, <2>6 DEF Threads
    <3>2. CASE j = e
      <4>1. NextAt(l, n + 1, e, n + 1)
        <5>1. (n + 1) - 1 = n
          OBVIOUS
        <5>2. n + 1 \in (e + 1)..(n + 1)
          OBVIOUS
        <5> QED
          BY <5>1, <5>2, <2>4 DEF NextAt, NoneAfter
      <4>2. t.next[l[e]] = l[n + 1]
        BY <2>6, <1>1
      <4>3. n + 1 \in 1..(n + 1)
        OBVIOUS
      <4> QED
        BY <3>2, <4>1, <4>2, <4>3 DEF Threads
    <3>3. CASE j # n + 1 /\ j # e
      <4>1. j \in 1..n /\ l[j] # l[e] /\ l[j] \in Node
        BY <3>3, <1>1, <1>2
      <4>2. t.next[l[j]] = s.next[l[j]]
        BY <4>1, <2>6
      <4>3. Threads(s.next, l, n, j)
        BY <4>1, <1>3
      <4>4. ASSUME NoneAfter(l, n, j), s.next[l[j]] = NoNode PROVE Threads(t.next, l, n + 1, j)
        <5>1. l[j].hash # p.hash
          <6>1. CASE j < e
            <7>1. e \in (j + 1)..n
              BY <6>1, <4>1
            <7> QED
              BY <7>1, <4>4, <2>4 DEF NoneAfter
          <6>2. CASE e < j
            <7>1. j \in (e + 1)..n
              BY <6>2, <4>1
            <7> QED
              BY <7>1, <2>4 DEF NoneAfter
          <6> QED
            BY <6>1, <6>2, <3>3
        <5>2. NoneAfter(l, n + 1, j)
          BY <4>1, <4>4, <5>1, <1>8
        <5> QED
          BY <5>2, <4>2, <4>4 DEF Threads
      <4>5. ASSUME NEW k \in 1..n, NextAt(l, n, j, k), s.next[l[j]] = l[k]
            PROVE  Threads(t.next, l, n + 1, j)
        BY <4>1, <4>2, <4>5, <1>7 DEF Threads
      <4> QED
        BY <4>3, <4>4, <4>5 DEF Threads
    <3> QED
      BY <3>1, <3>2, <3>3
  <2>8. \A z \in Node : (\A j \in 1..(n + 1) : l[j] # z) => t.next[z] = NoNode
    BY <1>1, <1>3, <2>6
  <2> QED
    BY <2>2, <2>5, <2>7, <2>8, <1>3 DEF LoadedUpTo, t
<1>11. QED
  BY <1>9, <1>10

\* Before the first node.
LEMMA LoadStart ==
  ASSUME NEW l, NEW s, s = [rb |-> {}, next |-> [n \in Node |-> NoNode]]
  PROVE  LoadedUpTo(s, l, 0)
<1>1. s \in Chains
  BY DEF Chains, NodeOrNone
<1>2. Heads(l, 0) = {}
  BY DEF Heads
<1>3. QED
  BY <1>1, <1>2 DEF LoadedUpTo

\* All nodes are loaded.
LEMMA LoadNodesIs ==
  ASSUME NEW l, DupFree(l)
  PROVE  LoadedUpTo(LoadNodes(l), l, Len(l))
<1> DEFINE N == Len(l)
           base == [rb |-> {}, next |-> [n \in Node |-> NoNode]]
           step == [p \in Chains \X (1..N) |-> LoadNode(p[1], l[p[2]])]
           Eq(f) == f = [i \in 0..Len(l) |-> IF i = 0 THEN base ELSE LoadNode(f[i - 1], l[i])]
<1>1. N \in Nat /\ \A i \in 1..N : l[i] \in Node
  BY DEF DupFree
<1>2. step \in [Chains \X (1..N) -> Chains]
  BY <1>1, LoadNodeFields
<1>3. base \in Chains
  BY DEF Chains, NodeOrNone
<1>4. PICK g : Unfolds(g, Chains, base, step, N)
  <2> HIDE DEF N, step, base
  <2> QED
    BY <1>1, <1>2, <1>3, Recursion
<1>5. g \in [0..N -> Chains] /\ g[0] = base
  BY <1>4 DEF Unfolds
<1>6. ASSUME NEW k \in 1..N PROVE g[k] = LoadNode(g[k - 1], l[k])
  <2>1. g[k] = step[<<g[k - 1], k>>]
    BY <1>4 DEF Unfolds
  <2>2. k - 1 \in 0..N
    BY <1>1
  <2>3. <<g[k - 1], k>> \in Chains \X (1..N)
    BY <1>5, <2>2
  <2> QED
    BY <2>1, <2>3
<1>7. Eq(g)
  <2> HIDE DEF base
  <2> DEFINE h == [i \in 0..N |-> IF i = 0 THEN base ELSE LoadNode(g[i - 1], l[i])]
  <2>1. \A k \in 0..N : k # 0 => k \in 1..N
    BY <1>1
  <2>2. \A k \in 0..N : g[k] = h[k]
    BY <1>5, <1>6, <2>1
  <2> QED
    BY <2>2, <1>5
<1> DEFINE f == CHOOSE f : Eq(f)
<1>8. LoadNodes(l) = f[N]
  BY DEF LoadNodes
<1>9. Eq(f)
  BY <1>7
<1> HIDE DEF f, base
<1>10. f[0] = base /\ \A i \in 1..N : f[i] = LoadNode(f[i - 1], l[i])
  BY <1>9, <1>1
<1> DEFINE G == {i \in 0..N : LoadedUpTo(f[i], l, i)}
<1>11. 0 \in G
  BY <1>1, <1>10, LoadStart DEF base
<1>12. ASSUME NEW i \in 1..N, i - 1 \in G PROVE i \in G
  <2>1. i - 1 \in Nat /\ (i - 1) + 1 = i /\ (i - 1) + 1 <= Len(l) /\ i \in 0..N
    BY <1>1
  <2>2. LoadedUpTo(LoadNode(f[i - 1], l[(i - 1) + 1]), l, (i - 1) + 1)
    <3>1. LoadedUpTo(f[i - 1], l, i - 1)
      BY <1>12
    <3> QED
      BY <2>1, <3>1, LoadStep
  <2>3. LoadedUpTo(LoadNode(f[i - 1], l[i]), l, i)
    BY <2>1, <2>2
  <2> QED
    BY <2>1, <2>3, <1>10
<1>13. \A i \in 0..N : i \in G
  <2> HIDE DEF G, N
  <2> QED
    BY <1>1, <1>11, <1>12, UpTo
<1>14. N \in 0..N
  BY <1>1
<1>15. QED
  BY <1>8, <1>13, <1>14

----------------------------------------------------------------------------
(* Linking: the chains of longer prefixes go on with those of shorter ones. *)

\* Prefixes are sequences.
LEMMA HashIsSeq ==
  ASSUME NEW n \in Node
  PROVE  n.hash \in Seq(0..255) /\ Len(n.hash) \in Nat
BY RangeMapAssumption DEF Node

\* The longest prefix among some nodes of a list.
LEMMA LongestIs ==
  ASSUME NEW l, DupFree(l), NEW S, S \subseteq Range(l)
  PROVE  /\ LongestOf(S) \in Nat
         /\ \A n \in S : Len(n.hash) <= LongestOf(S)
         /\ LongestOf(S) = 0 \/ \E n \in S : LongestOf(S) = Len(n.hash)
<1> DEFINE N == Len(l)
           G == {i \in 0..N : \E b \in Nat : \A j \in 1..i : Len(l[j].hash) <= b}
           T == {0} \cup {Len(n.hash) : n \in S}
<1>1. N \in Nat /\ l \in Seq(Node) /\ \A j \in 1..N : l[j] \in Node /\ Len(l[j].hash) \in Nat
  BY HashIsSeq DEF DupFree
<1>2. 0 \in G
  BY <1>1
<1>3. ASSUME NEW i \in 1..N, i - 1 \in G PROVE i \in G
  <2>1. PICK b \in Nat : \A j \in 1..(i - 1) : Len(l[j].hash) <= b
    BY <1>3
  <2> DEFINE c == b + Len(l[i].hash)
  <2>2. Len(l[i].hash) \in Nat /\ c \in Nat
    BY <1>1
  <2>3. ASSUME NEW j \in 1..i PROVE Len(l[j].hash) <= c
    <3>1. j \in 1..N
      BY <1>1
    <3>2. Len(l[j].hash) \in Nat
      BY <3>1, <1>1
    <3>3. CASE j = i
      BY <3>3, <2>2
    <3>4. CASE j # i
      <4>1. j \in 1..(i - 1)
        BY <3>4
      <4>2. Len(l[j].hash) <= b
        BY <4>1, <2>1
      <4> QED
        BY <4>2, <3>2, <2>2
    <3> QED
      BY <3>3, <3>4
  <2>4. i \in 0..N
    BY <1>1
  <2> HIDE DEF c
  <2> QED
    BY <2>2, <2>3, <2>4
<1>4. \A i \in 0..N : i \in G
  <2> HIDE DEF G, N
  <2> QED
    BY <1>1, <1>2, <1>3, UpTo
<1>5. N \in 0..N
  BY <1>1
<1>6. PICK b \in Nat : \A j \in 1..N : Len(l[j].hash) <= b
  BY <1>4, <1>5
<1>7. \A n \in S : \E j \in 1..N : n = l[j]
  BY <1>1 DEF Range
<1>8. T \subseteq Nat /\ T # {} /\ \A x \in T : x <= b
  BY <1>1, <1>6, <1>7
<1>9. Max(T) \in T /\ \A y \in T : Max(T) >= y
  <2> HIDE DEF T
  <2> QED
    BY <1>8, MaxIs
<1>10. LongestOf(S) = Max(T)
  BY DEF LongestOf
<1>11. \A n \in S : Len(n.hash) \in T
  OBVIOUS
<1>12. Max(T) = 0 \/ \E n \in S : Max(T) = Len(n.hash)
  BY <1>9
<1> HIDE DEF T
<1>13. Max(T) \in Nat /\ \A n \in S : Max(T) >= Len(n.hash)
  BY <1>8, <1>9, <1>11
<1>14. \A n \in S : Len(n.hash) \in Nat
  BY <1>8, <1>11
<1>15. QED
  BY <1>10, <1>12, <1>13, <1>14

\* What a look-up finds is a node or none.
LEMMA InRbType ==
  ASSUME NEW H \in SUBSET Node, NEW h
  PROVE  InRb(H, h) \in NodeOrNone
BY DEF InRb, NodeOrNone

\* The same for a prefix of a hash.
LEMMA ShortMatchType ==
  ASSUME NEW H \in SUBSET Node, NEW h, NEW k
  PROVE  ShortMatch(H, h, k) \in NodeOrNone
BY InRbType DEF ShortMatch, NodeOrNone

\* The pointer of the j-th node when its chain is linked.
Links(nx, l, j) ==
  \/ \E k \in 1..Len(l) : NextAt(l, Len(l), j, k) /\ nx[l[j]] = l[k]
  \/ /\ NoneAfter(l, Len(l), j)
     /\ nx[l[j]] = ShortMatch(Heads(l, Len(l)), l[j].hash, Len(l[j].hash) - 1)

\* The chains of the prefixes of at least d bytes are linked, the others not yet.
LinkedDownTo(s, l, d) ==
  /\ s \in Chains
  /\ s.rb = Heads(l, Len(l))
  /\ \A j \in 1..Len(l) : Len(l[j].hash) >= d => Links(s.next, l, j)
  /\ \A j \in 1..Len(l) : Len(l[j].hash) < d => Threads(s.next, l, Len(l), j)
  /\ \A x \in Node : x \notin Range(l) => s.next[x] = NoNode

\* The fields after LinkLength.
LEMMA LinkFields ==
  ASSUME NEW s \in Chains, NEW d
  PROVE  LET ends == {Last(Follow(s.next, n)) : n \in {x \in s.rb : Len(x.hash) = d}}
             t == LinkLength(s, d) IN
         /\ t \in Chains /\ t.rb = s.rb
         /\ \A n \in Node : t.next[n] =
              IF n \in ends THEN ShortMatch(s.rb, n.hash, d - 1) ELSE s.next[n]
<1> DEFINE ends == {Last(Follow(s.next, n)) : n \in {x \in s.rb : Len(x.hash) = d}}
           t == LinkLength(s, d)
           nx == [n \in Node |-> IF n \in ends THEN ShortMatch(s.rb, n.hash, d - 1) ELSE s.next[n]]
<1>1. t = [s EXCEPT !.next = nx]
  BY DEF LinkLength
<1>2. s.rb \in SUBSET Node /\ s.next \in [Node -> NodeOrNone]
  BY DEF Chains
<1> HIDE DEF ends
<1>3. nx \in [Node -> NodeOrNone]
  BY <1>2, ShortMatchType
<1> HIDE DEF nx, t
<1>4. t.rb = s.rb /\ t.next = nx /\ t \in Chains
  BY <1>1, <1>2, <1>3 DEF Chains
<1>5. QED
  BY <1>4 DEF nx, t, ends

\* The chains of one more length are linked.
LEMMA LinkStep ==
  ASSUME NEW l, DupFree(l), NEW d \in Nat, NEW s, LinkedDownTo(s, l, d + 1)
  PROVE  LinkedDownTo(LinkLength(s, d), l, d)
<1> DEFINE N == Len(l)
           ends == {Last(Follow(s.next, n)) : n \in {x \in s.rb : Len(x.hash) = d}}
           t == LinkLength(s, d)
<1>1. /\ N \in Nat /\ N \in 0..N
      /\ \A j \in 1..N : l[j] \in Node /\ Len(l[j].hash) \in Nat
      /\ \A i, j \in 1..N : i # j => l[i] # l[j]
  BY HashIsSeq DEF DupFree
<1>2. /\ s \in Chains /\ s.rb = Heads(l, N) /\ s.next \in [Node -> NodeOrNone]
      /\ \A j \in 1..N : Len(l[j].hash) >= d + 1 => Links(s.next, l, j)
      /\ \A j \in 1..N : Len(l[j].hash) < d + 1 => Threads(s.next, l, N, j)
      /\ \A x \in Node : x \notin Range(l) => s.next[x] = NoNode
  BY DEF LinkedDownTo, Chains
<1>3. /\ t \in Chains /\ t.rb = s.rb
      /\ \A n \in Node : t.next[n] =
              IF n \in ends THEN ShortMatch(s.rb, n.hash, d - 1) ELSE s.next[n]
  BY <1>2, LinkFields
<1>4. ASSUME NEW f \in 1..N, Len(l[f].hash) = d
      PROVE  IsEnd(Last(Follow(s.next, l[f])), s.next, l, N, l[f].hash)
  <2>1. \A j \in 1..N : l[j].hash = l[f].hash => Threads(s.next, l, N, j)
    <3>1. ASSUME NEW j \in 1..N, l[j].hash = l[f].hash PROVE Len(l[j].hash) < d + 1
      BY <3>1, <1>4
    <3> QED
      BY <3>1, <1>2
  <2> QED
    BY <1>1, <1>2, <2>1, EndOfChain
<1>5. ASSUME NEW j \in 1..N PROVE l[j] \in ends <=> Len(l[j].hash) = d /\ NoneAfter(l, N, j)
  <2>1. ASSUME l[j] \in ends PROVE Len(l[j].hash) = d /\ NoneAfter(l, N, j)
    <3>1. PICK x \in s.rb : Len(x.hash) = d /\ l[j] = Last(Follow(s.next, x))
      BY <2>1
    <3>2. PICK f \in 1..N : x = l[f]
      BY <1>2 DEF Heads
    <3>3. IsEnd(l[j], s.next, l, N, l[f].hash)
      BY <3>1, <3>2, <1>4
    <3>4. PICK e \in 1..N : l[j] = l[e] /\ l[e].hash = l[f].hash /\ NoneAfter(l, N, e)
      BY <3>3 DEF IsEnd
    <3>5. j = e
      BY <3>4, <1>1
    <3> QED
      BY <3>1, <3>2, <3>4, <3>5
  <2>2. ASSUME Len(l[j].hash) = d, NoneAfter(l, N, j) PROVE l[j] \in ends
    <3>1. PICK f \in 1..N : IsFirst(l, f) /\ l[f].hash = l[j].hash
      BY <1>1, FirstExists
    <3>2. l[f] \in s.rb /\ Len(l[f].hash) = d
      BY <3>1, <2>2, <1>2 DEF Heads
    <3>3. Last(Follow(s.next, l[f])) \in ends
      BY <3>2
    <3>4. IsEnd(Last(Follow(s.next, l[f])), s.next, l, N, l[f].hash)
      BY <3>2, <1>4
    <3>5. PICK e \in 1..N : /\ Last(Follow(s.next, l[f])) = l[e] /\ l[e].hash = l[f].hash
                            /\ NoneAfter(l, N, e)
      BY <3>4 DEF IsEnd
    <3>6. j = e
      <4>1. CASE j < e
        <5>1. e \in (j + 1)..N
          BY <4>1, <1>1
        <5> QED
          BY <5>1, <2>2, <3>1, <3>5 DEF NoneAfter
      <4>2. CASE e < j
        <5>1. j \in (e + 1)..N
          BY <4>2, <1>1
        <5> QED
          BY <5>1, <3>1, <3>5 DEF NoneAfter
      <4> QED
        BY <4>1, <4>2
    <3> QED
      BY <3>3, <3>5, <3>6
  <2> QED
    BY <2>1, <2>2
<1> HIDE DEF ends, t
<1>6. ASSUME NEW x \in Node, x \notin Range(l) PROVE t.next[x] = NoNode
  <2>1. x \notin ends
    <3>1. SUFFICES ASSUME x \in ends PROVE FALSE
      OBVIOUS
    <3>2. PICK y \in s.rb : Len(y.hash) = d /\ x = Last(Follow(s.next, y))
      BY <3>1 DEF ends
    <3>3. PICK f \in 1..N : y = l[f]
      BY <1>2 DEF Heads
    <3>4. IsEnd(x, s.next, l, N, l[f].hash)
      BY <3>2, <3>3, <1>4
    <3>5. PICK e \in 1..N : x = l[e]
      BY <3>4 DEF IsEnd
    <3> QED
      BY <3>5, <1>6 DEF Range, DupFree
  <2> QED
    BY <2>1, <1>2, <1>3, <1>6
<1>7. ASSUME NEW j \in 1..N, Len(l[j].hash) < d PROVE Threads(t.next, l, N, j)
  <2>1. l[j] \notin ends /\ l[j] \in Node /\ Len(l[j].hash) < d + 1
    BY <1>1, <1>5, <1>7
  <2>2. t.next[l[j]] = s.next[l[j]]
    BY <2>1, <1>3
  <2>3. Threads(s.next, l, N, j)
    BY <2>1, <1>2
  <2> QED
    BY <2>2, <2>3 DEF Threads
<1>8. ASSUME NEW j \in 1..N, Len(l[j].hash) >= d PROVE Links(t.next, l, j)
  <2>1. CASE Len(l[j].hash) # d
    <3>1. l[j] \notin ends /\ l[j] \in Node /\ Len(l[j].hash) >= d + 1
      BY <1>1, <1>5, <1>8, <2>1
    <3>2. t.next[l[j]] = s.next[l[j]]
      BY <3>1, <1>3
    <3>3. Links(s.next, l, j)
      BY <3>1, <1>2
    <3> QED
      BY <3>2, <3>3 DEF Links
  <2>2. CASE Len(l[j].hash) = d /\ NoneAfter(l, N, j)
    <3>1. l[j] \in ends /\ l[j] \in Node
      BY <2>2, <1>1, <1>5
    <3>2. t.next[l[j]] = ShortMatch(Heads(l, N), l[j].hash, d - 1)
      BY <3>1, <1>2, <1>3
    <3> QED
      BY <3>2, <2>2 DEF Links
  <2>3. CASE Len(l[j].hash) = d /\ ~NoneAfter(l, N, j)
    <3>1. l[j] \notin ends /\ l[j] \in Node /\ Len(l[j].hash) < d + 1
      BY <2>3, <1>1, <1>5
    <3>2. t.next[l[j]] = s.next[l[j]]
      BY <3>1, <1>3
    <3>3. Threads(s.next, l, N, j)
      BY <3>1, <1>2
    <3>4. PICK k \in 1..N : NextAt(l, N, j, k) /\ s.next[l[j]] = l[k]
      BY <2>3, <3>3 DEF Threads
    <3> QED
      BY <3>2, <3>4 DEF Links
  <2> QED
    BY <2>1, <2>2, <2>3
<1>9. QED
  BY <1>2, <1>3, <1>6, <1>7, <1>8 DEF LinkedDownTo, t

\* Before the first length.
LEMMA LinkStart ==
  ASSUME NEW l, DupFree(l), NEW s, LoadedUpTo(s, l, Len(l)),
         NEW d \in Nat, \A j \in 1..Len(l) : Len(l[j].hash) <= d
  PROVE  LinkedDownTo(s, l, d + 1)
<1>1. \A j \in 1..Len(l) : Len(l[j].hash) \in Nat
  BY HashIsSeq DEF DupFree
<1>2. \A j \in 1..Len(l) : ~(Len(l[j].hash) >= d + 1)
  BY <1>1
<1>3. \A x : x \notin Range(l) => \A j \in 1..Len(l) : l[j] # x
  BY DEF Range, DupFree
<1>4. QED
  BY <1>2, <1>3 DEF LinkedDownTo, LoadedUpTo

\* All lengths are linked.
LEMMA LoadedIs ==
  ASSUME NEW l, DupFree(l)
  PROVE  LinkedDownTo(Loaded(l), l, 0)
<1> DEFINE d == LongestOf(Range(l))
           s == LoadNodes(l)
           M == d + 1
           step == [p \in Chains \X (1..M) |-> LinkLength(p[1], M - p[2])]
           Eq(f) == f = [k \in 0..(d + 1) |-> IF k = 0 THEN s ELSE LinkLength(f[k - 1], d + 1 - k)]
<1>1. d \in Nat /\ \A n \in Range(l) : Len(n.hash) <= d
  BY LongestIs
<1>2. LoadedUpTo(s, l, Len(l))
  BY LoadNodesIs
<1>3. \A j \in 1..Len(l) : Len(l[j].hash) <= d
  <2>1. \A j \in 1..Len(l) : l[j] \in Range(l)
    BY DEF Range, DupFree
  <2> QED
    BY <2>1, <1>1
<1>4. Loaded(l) = LinkLengths(s, d)
  BY DEF Loaded
<1> HIDE DEF d, s
<1>5. s \in Chains /\ M \in Nat
  BY <1>1, <1>2 DEF LoadedUpTo
<1>6. step \in [Chains \X (1..M) -> Chains]
  BY LinkFields
<1>7. PICK g : Unfolds(g, Chains, s, step, M)
  <2> HIDE DEF M, step
  <2> QED
    BY <1>5, <1>6, Recursion
<1>8. g \in [0..M -> Chains] /\ g[0] = s
  BY <1>7 DEF Unfolds
<1>9. ASSUME NEW k \in 1..M PROVE g[k] = LinkLength(g[k - 1], d + 1 - k)
  <2>1. g[k] = step[<<g[k - 1], k>>]
    BY <1>7 DEF Unfolds
  <2>2. k - 1 \in 0..M
    BY <1>5
  <2>3. <<g[k - 1], k>> \in Chains \X (1..M)
    BY <1>8, <2>2
  <2> DEFINE p == <<g[k - 1], k>>
  <2>4. step[p] = LinkLength(p[1], M - p[2])
    BY <2>3
  <2>5. p[1] = g[k - 1] /\ M - p[2] = d + 1 - k
    BY <1>1
  <2> HIDE DEF p
  <2>6. step[p] = LinkLength(g[k - 1], d + 1 - k)
    BY <2>4, <2>5
  <2> QED
    BY <2>1, <2>6 DEF p
<1>10. Eq(g)
  <2> DEFINE h == [k \in 0..(d + 1) |-> IF k = 0 THEN s ELSE LinkLength(g[k - 1], d + 1 - k)]
  <2>1. \A k \in 0..M : k # 0 => k \in 1..M
    BY <1>5
  <2>2. \A k \in 0..M : g[k] = h[k]
    BY <1>8, <1>9, <2>1
  <2> QED
    BY <2>2, <1>8
<1> DEFINE f == CHOOSE f : Eq(f)
<1>11. Loaded(l) = f[M]
  BY <1>4 DEF LinkLengths
<1>12. Eq(f)
  BY <1>10
<1> HIDE DEF f
<1>13. f[0] = s /\ \A k \in 1..M : f[k] = LinkLength(f[k - 1], d + 1 - k)
  BY <1>12, <1>5
<1> DEFINE G == {k \in 0..M : LinkedDownTo(f[k], l, d + 1 - k)}
<1>14. 0 \in G
  <2>1. LinkedDownTo(s, l, d + 1)
    BY <1>1, <1>2, <1>3, LinkStart
  <2>2. d + 1 - 0 = d + 1 /\ 0 \in 0..M
    BY <1>1
  <2> QED
    BY <2>1, <2>2, <1>13
<1>15. ASSUME NEW k \in 1..M, k - 1 \in G PROVE k \in G
  <2>1. d + 1 - k \in Nat /\ (d + 1 - k) + 1 = d + 1 - (k - 1) /\ k \in 0..M
    BY <1>1
  <2>2. LinkedDownTo(f[k - 1], l, (d + 1 - k) + 1)
    <3>1. LinkedDownTo(f[k - 1], l, d + 1 - (k - 1))
      BY <1>15
    <3> QED
      BY <2>1, <3>1
  <2>3. LinkedDownTo(LinkLength(f[k - 1], d + 1 - k), l, d + 1 - k)
    BY <2>1, <2>2, LinkStep
  <2> QED
    BY <2>1, <2>3, <1>13
<1>16. \A k \in 0..M : k \in G
  <2> HIDE DEF G, M
  <2> QED
    BY <1>5, <1>14, <1>15, UpTo
<1>17. M \in 0..M /\ d + 1 - M = 0
  BY <1>1
<1>18. QED
  BY <1>11, <1>16, <1>17

----------------------------------------------------------------------------
(* Look-ups.                                                               *)

Bytes == Seq(0..255)

Fit(l, q) == {n \in Range(l) : IsPrefix(n.hash, q)}

\* A prefix of a hash is its first bytes.
LEMMA PrefixIs ==
  ASSUME NEW h \in Bytes, NEW q \in Bytes
  PROVE  IsPrefix(h, q) <=> Len(h) <= Len(q) /\ h = SubSeq(q, 1, Len(h))
<1>1. SubSeq(h, 1, Len(h)) = h
  BY SubSeqFull DEF Bytes
<1>2. QED
  BY <1>1 DEF IsPrefix

\* The first i bytes of a hash.
LEMMA FirstBytes ==
  ASSUME NEW q \in Bytes, NEW i \in 0..Len(q)
  PROVE  /\ SubSeq(q, 1, i) \in Bytes /\ Len(SubSeq(q, 1, i)) = i
         /\ \A k \in 1..i : SubSeq(q, 1, i)[k] = q[k]
         /\ IsPrefix(SubSeq(q, 1, i), q)
<1>1. Len(q) \in Nat /\ \A k \in 1..i : q[k] \in 0..255
  <2>1. Len(q) \in Nat /\ q \in Seq(0..255)
    BY DEF Bytes
  <2>2. \A k \in 1..i : k \in 1..Len(q)
    BY <2>1
  <2> QED
    BY <2>1, <2>2, ElementOfSeq
<1>2. /\ SubSeq(q, 1, i) \in Seq(0..255)
      /\ Len(SubSeq(q, 1, i)) = IF 1 <= i THEN i - 1 + 1 ELSE 0
      /\ \A k \in 1..(i - 1 + 1) : SubSeq(q, 1, i)[k] = q[1 + k - 1]
  BY <1>1, SubSeqProperties
<1>3. Len(SubSeq(q, 1, i)) = i
  BY <1>1, <1>2
<1>4. \A k \in 1..i : 1 + k - 1 = k /\ k \in 1..(i - 1 + 1)
  BY <1>1
<1>5. \A k \in 1..i : SubSeq(q, 1, i)[k] = q[k]
  BY <1>2, <1>4
<1>6. IsPrefix(SubSeq(q, 1, i), q)
  <2> DEFINE h == SubSeq(q, 1, i)
  <2>1. h \in Bytes /\ Len(h) = i /\ Len(h) <= Len(q) /\ h = SubSeq(q, 1, Len(h))
    BY <1>1, <1>2, <1>3 DEF Bytes
  <2> HIDE DEF h
  <2>2. IsPrefix(h, q)
    BY <2>1, PrefixIs
  <2> QED
    BY <2>2 DEF h
<1>7. QED
  BY <1>2, <1>3, <1>5, <1>6 DEF Bytes

\* Of two prefixes of one hash the shorter one is a prefix of the longer one.
LEMMA Nested ==
  ASSUME NEW g \in Bytes, NEW h \in Bytes, NEW q \in Bytes, IsPrefix(h, q), Len(g) <= Len(h)
  PROVE  IsPrefix(g, q) <=> IsPrefix(g, h)
<1>1. Len(g) \in Nat /\ Len(h) \in Nat /\ Len(q) \in Nat /\ Len(h) <= Len(q) /\ h = SubSeq(q, 1, Len(h))
  BY PrefixIs DEF Bytes
<1>2. Len(g) \in 0..Len(q) /\ Len(g) \in 0..Len(h) /\ Len(h) \in 0..Len(q)
  BY <1>1
<1>3. \A k \in 1..Len(h) : h[k] = q[k]
  BY <1>1, <1>2, FirstBytes
<1>4. SubSeq(h, 1, Len(g)) = SubSeq(q, 1, Len(g))
  <2>1. /\ SubSeq(h, 1, Len(g)) \in Bytes /\ Len(SubSeq(h, 1, Len(g))) = Len(g)
        /\ \A k \in 1..Len(g) : SubSeq(h, 1, Len(g))[k] = h[k]
    BY <1>2, FirstBytes
  <2>2. /\ SubSeq(q, 1, Len(g)) \in Bytes /\ Len(SubSeq(q, 1, Len(g))) = Len(g)
        /\ \A k \in 1..Len(g) : SubSeq(q, 1, Len(g))[k] = q[k]
    BY <1>2, FirstBytes
  <2>3. \A k \in 1..Len(g) : k \in 1..Len(h)
    BY <1>1
  <2>4. \A k \in 1..Len(g) : SubSeq(h, 1, Len(g))[k] = SubSeq(q, 1, Len(g))[k]
    BY <2>1, <2>2, <2>3, <1>3
  <2> QED
    BY <2>1, <2>2, <2>4, SeqEqual DEF Bytes
<1>5. IsPrefix(g, q) <=> Len(g) <= Len(q) /\ g = SubSeq(q, 1, Len(g))
  BY PrefixIs
<1>6. IsPrefix(g, h) <=> Len(g) <= Len(h) /\ g = SubSeq(h, 1, Len(g))
  BY PrefixIs
<1>7. QED
  BY <1>1, <1>4, <1>5, <1>6

\* Two prefixes of one hash and of one length are the same.
LEMMA SamePrefix ==
  ASSUME NEW g \in Bytes, NEW h \in Bytes, NEW q \in Bytes,
         IsPrefix(g, q), IsPrefix(h, q), Len(g) = Len(h)
  PROVE  g = h
BY PrefixIs

\* What range_map_link_short_match and range_map_find_and_lock find for q among
\* the prefixes of at most k bytes: the first node of the longest prefix.
Nearest(x, l, q, k) ==
  \/ x = NoNode /\ \A j \in 1..Len(l) : ~(IsPrefix(l[j].hash, q) /\ Len(l[j].hash) <= k)
  \/ \E f \in 1..Len(l) :
       /\ x = l[f] /\ IsFirst(l, f) /\ IsPrefix(l[f].hash, q) /\ Len(l[f].hash) <= k
       /\ \A j \in 1..Len(l) : IsPrefix(l[j].hash, q) /\ Len(l[j].hash) <= k =>
            Len(l[j].hash) <= Len(l[f].hash)

\* ShortMatch does that.
LEMMA ShortMatchIs ==
  ASSUME NEW l, DupFree(l), NEW q \in Bytes, NEW k \in Int, k <= Len(q)
  PROVE  Nearest(ShortMatch(Heads(l, Len(l)), q, k), l, q, k)
<1> DEFINE N == Len(l)
           H == Heads(l, N)
           found == {i \in 0..k : InRb(H, SubSeq(q, 1, i)) # NoNode}
<1>1. /\ N \in Nat /\ N \in 0..N /\ Len(q) \in Nat
      /\ \A j \in 1..N : l[j] \in Node /\ l[j].hash \in Bytes /\ Len(l[j].hash) \in Nat
  BY HashIsSeq DEF DupFree, Bytes
<1>2. \A i \in 0..k : FindsFirst(InRb(H, SubSeq(q, 1, i)), l, N, SubSeq(q, 1, i))
  BY <1>1, InRbIs
<1>3. \A i \in 0..k : i \in 0..Len(q) /\ Len(SubSeq(q, 1, i)) = i /\ IsPrefix(SubSeq(q, 1, i), q)
  BY <1>1, FirstBytes
<1>4. ShortMatch(H, q, k) = IF found = {} THEN NoNode ELSE InRb(H, SubSeq(q, 1, Max(found)))
  BY DEF ShortMatch
<1>5. ASSUME NEW j \in 1..N, IsPrefix(l[j].hash, q), Len(l[j].hash) <= k
      PROVE  Len(l[j].hash) \in found
  <2>1. l[j].hash = SubSeq(q, 1, Len(l[j].hash))
    BY <1>1, <1>5, PrefixIs
  <2>2. Len(l[j].hash) \in 0..k
    BY <1>1, <1>5
  <2>3. FindsFirst(InRb(H, l[j].hash), l, N, l[j].hash)
    BY <1>1, InRbIs
  <2>4. InRb(H, l[j].hash) # NoNode
    BY <2>3, <1>1, NoNodeAssumption DEF FindsFirst
  <2> HIDE DEF H
  <2> QED
    BY <2>1, <2>2, <2>4
<1>6. CASE found = {}
  <2>1. ShortMatch(H, q, k) = NoNode
    BY <1>4, <1>6
  <2> QED
    BY <2>1, <1>5, <1>6 DEF Nearest
<1>7. CASE found # {}
  <2>1. found \subseteq Nat /\ \A i \in found : i <= k
    OBVIOUS
  <2>2. k \in Nat
    BY <1>7
  <2> DEFINE M == Max(found)
  <2>3. M \in found /\ \A y \in found : M >= y
    <3> HIDE DEF found
    <3> QED
      BY <2>1, <2>2, <1>7, MaxIs
  <2>4. M \in 0..k /\ InRb(H, SubSeq(q, 1, M)) # NoNode
    BY <2>3
  <2>5. ShortMatch(H, q, k) = InRb(H, SubSeq(q, 1, M))
    BY <1>4, <1>7
  <2> HIDE DEF M, H, found
  <2>6. PICK f \in 1..N : /\ IsFirst(l, f) /\ l[f].hash = SubSeq(q, 1, M)
                          /\ InRb(H, SubSeq(q, 1, M)) = l[f]
    BY <1>2, <2>4 DEF FindsFirst
  <2>7. Len(l[f].hash) = M /\ IsPrefix(l[f].hash, q) /\ M <= k
    BY <2>4, <2>6, <1>3
  <2>8. \A j \in 1..N : IsPrefix(l[j].hash, q) /\ Len(l[j].hash) <= k => Len(l[j].hash) <= M
    BY <1>5, <2>3, <1>1, <2>4
  <2> QED
    BY <2>5, <2>6, <2>7, <2>8 DEF Nearest, H
<1>8. QED
  BY <1>6, <1>7

\* The node found comes before all others of at most k bytes.
LEMMA NearestFirst ==
  ASSUME NEW l, DupFree(l), NEW q \in Bytes, NEW k \in Int, NEW x, Nearest(x, l, q, k),
         NEW y \in Fit(l, q), Len(y.hash) <= k
  PROVE  x # NoNode /\ x \in Fit(l, q) /\ (x = y \/ Precedes(l, x, y))
<1>1. /\ Len(l) \in Nat
      /\ \A j \in 1..Len(l) : l[j] \in Node /\ l[j].hash \in Bytes /\ Len(l[j].hash) \in Nat
      /\ \A j \in 1..Len(l) : l[j] \in Range(l)
  BY HashIsSeq DEF DupFree, Bytes, Range
<1>2. PICK b \in 1..Len(l) : y = l[b] /\ IsPrefix(l[b].hash, q)
  BY DEF Fit, Range, DupFree
<1>3. PICK f \in 1..Len(l) :
         /\ x = l[f] /\ IsFirst(l, f) /\ IsPrefix(l[f].hash, q)
         /\ \A j \in 1..Len(l) : IsPrefix(l[j].hash, q) /\ Len(l[j].hash) <= k =>
              Len(l[j].hash) <= Len(l[f].hash)
  BY <1>2 DEF Nearest
<1>4. x # NoNode /\ x \in Fit(l, q)
  BY <1>1, <1>3, NoNodeAssumption DEF Fit
<1>5. Len(l[b].hash) <= Len(l[f].hash)
  BY <1>2, <1>3
<1>6. CASE Len(l[b].hash) # Len(l[f].hash)
  BY <1>1, <1>2, <1>3, <1>4, <1>5, <1>6 DEF Precedes
<1>7. CASE Len(l[b].hash) = Len(l[f].hash)
  <2>1. l[b].hash = l[f].hash
    BY <1>1, <1>2, <1>3, <1>7, SamePrefix
  <2>2. f <= b
    <3>1. ASSUME b < f PROVE FALSE
      <4>1. b \in 1..(f - 1)
        BY <3>1
      <4> QED
        BY <4>1, <2>1, <1>3 DEF IsFirst
    <3> QED
      BY <3>1
  <2>3. CASE f = b
    BY <2>3, <1>2, <1>3, <1>4
  <2>4. CASE f < b
    <3>1. Precedes(l, x, y)
      BY <2>4, <1>2, <1>3, <1>7 DEF Precedes
    <3> QED
      BY <3>1, <1>4
  <2> QED
    BY <2>2, <2>3, <2>4
<1>8. QED
  BY <1>6, <1>7

\* The order of the nodes of a list is strict, transitive and made of positions.
LEMMA PrecedesIsOrder ==
  ASSUME NEW l, DupFree(l)
  PROVE  /\ \A x \in Range(l) : ~Precedes(l, x, x)
         /\ \A x, y, z \in Range(l) : Precedes(l, x, y) /\ Precedes(l, y, z) => Precedes(l, x, z)
<1>1. /\ \A j \in 1..Len(l) : l[j] \in Node
      /\ \A i, j \in 1..Len(l) : l[i] = l[j] => i = j
      /\ \A x \in Range(l) : x \in Node /\ Len(x.hash) \in Nat
  BY HashIsSeq DEF DupFree, Range
<1>2. ASSUME NEW x \in Range(l), Precedes(l, x, x) PROVE FALSE
  <2>1. Len(x.hash) \in Nat
    BY <1>1
  <2>2. PICK i, j \in 1..Len(l) : i < j /\ l[i] = x /\ l[j] = x
    BY <1>2, <2>1 DEF Precedes
  <2> QED
    BY <2>2, <1>1
<1>3. ASSUME NEW x \in Range(l), NEW y \in Range(l), NEW z \in Range(l),
             Precedes(l, x, y), Precedes(l, y, z)
      PROVE  Precedes(l, x, z)
  <2>1. Len(x.hash) \in Nat /\ Len(y.hash) \in Nat /\ Len(z.hash) \in Nat
    BY <1>1
  <2>2. CASE Len(x.hash) > Len(y.hash) \/ Len(y.hash) > Len(z.hash)
    <3>1. Len(x.hash) >= Len(y.hash) /\ Len(y.hash) >= Len(z.hash)
      BY <1>3, <2>1 DEF Precedes
    <3>2. Len(x.hash) > Len(z.hash)
      BY <3>1, <2>1, <2>2
    <3> QED
      BY <3>2 DEF Precedes
  <2>3. CASE ~(Len(x.hash) > Len(y.hash) \/ Len(y.hash) > Len(z.hash))
    <3>1. PICK i, j \in 1..Len(l) : i < j /\ l[i] = x /\ l[j] = y
      BY <1>3, <2>3 DEF Precedes
    <3>2. PICK i2, j2 \in 1..Len(l) : i2 < j2 /\ l[i2] = y /\ l[j2] = z
      BY <1>3, <2>3 DEF Precedes
    <3>3. j = i2
      BY <3>1, <3>2, <1>1
    <3>4. i < j2
      BY <3>1, <3>2, <3>3
    <3>5. Len(x.hash) = Len(z.hash)
      BY <1>3, <2>3 DEF Precedes
    <3> QED
      BY <3>1, <3>2, <3>4, <3>5 DEF Precedes
  <2> QED
    BY <2>2, <2>3
<1>4. QED
  BY <1>2, <1>3

\* A pointer leads to the next node responsible for q, if there is one.
LEMMA PointsToNext ==
  ASSUME NEW l, DupFree(l), NEW nx, \A j \in 1..Len(l) : Links(nx, l, j),
         NEW q \in Bytes, NEW x \in Fit(l, q)
  PROVE  /\ nx[x] # NoNode => nx[x] \in Fit(l, q) /\ Precedes(l, x, nx[x])
         /\ \A y \in Fit(l, q) : Precedes(l, x, y) =>
              nx[x] # NoNode /\ (nx[x] = y \/ Precedes(l, nx[x], y))
<1> DEFINE N == Len(l)
<1>1. /\ N \in Nat
      /\ \A j \in 1..N : l[j] \in Node /\ l[j].hash \in Bytes /\ Len(l[j].hash) \in Nat
      /\ \A j \in 1..N : l[j] \in Range(l) /\ l[j] # NoNode
      /\ \A i, j \in 1..N : l[i] = l[j] => i = j
  BY HashIsSeq, NoNodeAssumption DEF DupFree, Bytes, Range
<1>2. PICK j \in 1..N : x = l[j] /\ IsPrefix(l[j].hash, q)
  BY DEF Fit, Range, DupFree
<1>3. Links(nx, l, j)
  BY <1>2
<1> DEFINE h == l[j].hash
           d == Len(l[j].hash) - 1
<1>4. ASSUME NEW k \in 1..N, NextAt(l, N, j, k), nx[x] = l[k]
      PROVE  /\ nx[x] \in Fit(l, q) /\ Precedes(l, x, nx[x])
             /\ \A y \in Fit(l, q) : Precedes(l, x, y) =>
                  nx[x] # NoNode /\ (nx[x] = y \/ Precedes(l, nx[x], y))
  <2>1. k > j /\ l[k].hash = h /\ \A z \in (j + 1)..(k - 1) : l[z].hash # h
    BY <1>4, <1>1 DEF NextAt
  <2>2. nx[x] \in Fit(l, q)
    BY <1>1, <1>2, <1>4, <2>1 DEF Fit
  <2>3. Precedes(l, x, nx[x])
    BY <1>2, <1>4, <2>1 DEF Precedes
  <2>4. ASSUME NEW y \in Fit(l, q), Precedes(l, x, y)
        PROVE  nx[x] # NoNode /\ (nx[x] = y \/ Precedes(l, nx[x], y))
    <3>1. nx[x] # NoNode
      BY <1>1, <1>4
    <3>2. CASE Len(x.hash) > Len(y.hash)
      BY <3>1, <3>2, <1>2, <1>4, <2>1 DEF Precedes
    <3>3. CASE ~(Len(x.hash) > Len(y.hash))
      <4>1. Len(x.hash) = Len(y.hash)
        BY <2>4, <3>3 DEF Precedes
      <4>2. PICK a, b \in 1..N : a < b /\ l[a] = x /\ l[b] = y
        BY <2>4, <3>3 DEF Precedes
      <4>3. a = j /\ IsPrefix(l[b].hash, q)
        BY <4>2, <1>1, <1>2 DEF Fit
      <4>4. l[b].hash = h
        BY <4>1, <4>2, <4>3, <1>1, <1>2, SamePrefix
      <4>5. k <= b
        <5>1. ASSUME b < k PROVE FALSE
          <6>1. b \in (j + 1)..(k - 1)
            BY <5>1, <4>2, <4>3
          <6> QED
            BY <6>1, <4>4, <2>1
        <5> QED
          BY <5>1
      <4>6. CASE k = b
        BY <4>6, <4>2, <1>4, <3>1
      <4>7. CASE k < b
        <5>1. Len(nx[x].hash) = Len(y.hash)
          BY <1>4, <2>1, <4>2, <4>4
        <5>2. Precedes(l, nx[x], y)
          BY <4>7, <4>2, <5>1, <1>4 DEF Precedes
        <5> QED
          BY <5>2, <3>1
      <4> QED
        BY <4>5, <4>6, <4>7
    <3> QED
      BY <3>2, <3>3
  <2> QED
    BY <2>2, <2>3, <2>4
<1>5. ASSUME NoneAfter(l, N, j), nx[x] = ShortMatch(Heads(l, N), h, d)
      PROVE  /\ nx[x] # NoNode => nx[x] \in Fit(l, q) /\ Precedes(l, x, nx[x])
             /\ \A y \in Fit(l, q) : Precedes(l, x, y) =>
                  nx[x] # NoNode /\ (nx[x] = y \/ Precedes(l, nx[x], y))
  <2>1. h \in Bytes /\ d \in Int /\ d <= Len(h) /\ Len(h) \in Nat
    BY <1>1
  <2>2. Nearest(nx[x], l, h, d)
    <3> HIDE DEF h, d
    <3> QED
      BY <2>1, <1>5, ShortMatchIs
  <2>3. ASSUME nx[x] # NoNode PROVE nx[x] \in Fit(l, q) /\ Precedes(l, x, nx[x])
    <3>1. PICK f \in 1..N : nx[x] = l[f] /\ IsPrefix(l[f].hash, h) /\ Len(l[f].hash) <= d
      BY <2>2, <2>3 DEF Nearest
    <3>2. Len(l[f].hash) < Len(h)
      BY <3>1, <1>1
    <3>3. IsPrefix(l[f].hash, q)
      BY <3>1, <3>2, <1>1, <1>2, Nested
    <3> QED
      BY <3>1, <3>2, <3>3, <1>1, <1>2 DEF Fit, Precedes
  <2>4. ASSUME NEW y \in Fit(l, q), Precedes(l, x, y)
        PROVE  nx[x] # NoNode /\ (nx[x] = y \/ Precedes(l, nx[x], y))
    <3>1. PICK b \in 1..N : y = l[b] /\ IsPrefix(l[b].hash, q)
      BY DEF Fit, Range, DupFree
    <3>2. Len(y.hash) < Len(h)
      <4>1. CASE Len(x.hash) > Len(y.hash)
        BY <4>1, <1>1, <1>2, <3>1
      <4>2. CASE ~(Len(x.hash) > Len(y.hash))
        <5>1. PICK a, b2 \in 1..N : a < b2 /\ l[a] = x /\ l[b2] = y
          BY <2>4, <4>2 DEF Precedes
        <5>2. Len(x.hash) = Len(y.hash)
          BY <2>4, <4>2 DEF Precedes
        <5>3. a = j /\ b2 = b
          BY <5>1, <3>1, <1>1, <1>2
        <5>4. l[b].hash = l[j].hash
          BY <5>2, <3>1, <1>1, <1>2, SamePrefix
        <5>5. b \in (j + 1)..N
          BY <5>1, <5>3
        <5> QED
          BY <5>4, <5>5, <1>5 DEF NoneAfter
      <4> QED
        BY <4>1, <4>2
    <3>3. IsPrefix(y.hash, h) /\ Len(y.hash) <= d
      <4>1. Len(l[b].hash) <= Len(h)
        BY <3>1, <3>2, <1>1
      <4>2. IsPrefix(l[b].hash, h)
        BY <4>1, <3>1, <1>1, <1>2, Nested
      <4> QED
        BY <4>2, <3>1, <3>2, <1>1
    <3>4. y \in Fit(l, h)
      BY <3>1, <3>3, <1>1 DEF Fit
    <3> HIDE DEF h, d
    <3> QED
      BY <3>3, <3>4, <2>1, <2>2, NearestFirst
  <2> QED
    BY <2>3, <2>4
<1>6. QED
  <2>1. CASE \E k \in 1..N : NextAt(l, N, j, k) /\ nx[l[j]] = l[k]
    BY <2>1, <1>2, <1>4
  <2>2. CASE NoneAfter(l, N, j) /\ nx[l[j]] = ShortMatch(Heads(l, N), h, d)
    BY <2>2, <1>2, <1>5
  <2> QED
    BY <1>3, <2>1, <2>2 DEF Links

\* The chain that starts at a responsible node leads through responsible nodes, in
\* order, and through all that come after the first.
Walks(c, l, q, n) ==
  /\ c \in Seq(Node) /\ Len(c) \in Nat /\ Len(c) >= 1 /\ c[1] = n
  /\ \A i \in 1..Len(c) : c[i] \in Fit(l, q)
  /\ \A i, j \in 1..Len(c) : i < j => Precedes(l, c[i], c[j])
  /\ \A y \in Fit(l, q) : (y = n \/ Precedes(l, n, y)) => \E i \in 1..Len(c) : c[i] = y

\* Follow yields it.
LEMMA FollowWalks ==
  ASSUME NEW l, DupFree(l), NEW nx \in [Node -> NodeOrNone], \A j \in 1..Len(l) : Links(nx, l, j),
         NEW q \in Bytes, NEW n \in Fit(l, q)
  PROVE  Walks(Follow(nx, n), l, q, n)
<1> DEFINE D == Fit(l, q)
           E == {p \in Node \X Node : Precedes(l, p[1], p[2])}
           c == Follow(nx, n)
<1>1. D \subseteq Range(l) /\ D \subseteq Node
  BY DEF Fit, Range, DupFree
<1>2. \A x, y \in Node : <<x, y>> \in E <=> Precedes(l, x, y)
  OBVIOUS
<1>3. Guides(nx, D, E)
  <2>1. ASSUME NEW x \in D, nx[x] # NoNode PROVE nx[x] \in D /\ <<x, nx[x]>> \in E
    <3>1. nx[x] \in D /\ Precedes(l, x, nx[x])
      BY <2>1, PointsToNext
    <3> HIDE DEF D, E
    <3> QED
      BY <3>1, <1>1, <1>2
  <2>2. \A x \in D : <<x, x>> \notin E
    <3> HIDE DEF D, E
    <3> QED
      BY <1>1, <1>2, PrecedesIsOrder
  <2>3. ASSUME NEW x \in D, NEW y \in D, NEW z \in D, <<x, y>> \in E, <<y, z>> \in E
        PROVE  <<x, z>> \in E
    <3> HIDE DEF D, E
    <3>1. Precedes(l, x, y) /\ Precedes(l, y, z) /\ x \in Range(l) /\ y \in Range(l) /\ z \in Range(l)
      BY <1>1, <1>2, <2>3
    <3>2. Precedes(l, x, z)
      BY <3>1, PrecedesIsOrder
    <3> QED
      BY <3>2, <1>1, <1>2
  <2> HIDE DEF D, E
  <2> QED
    BY <1>1, <2>1, <2>2, <2>3 DEF Guides
<1>4. IsChain(nx, n, c, D, E)
  <2> HIDE DEF D, E
  <2>1. n \in D
    BY DEF D
  <2> QED
    BY <1>3, <2>1, FollowIsChain
<1> HIDE DEF c
<1>5. /\ c \in Seq(Node) /\ Len(c) \in Nat /\ Len(c) >= 1 /\ c[1] = n
      /\ \A i \in 1..Len(c) : c[i] \in Fit(l, q)
      /\ \A i \in 1..(Len(c) - 1) : nx[c[i]] = c[i + 1]
      /\ nx[c[Len(c)]] = NoNode
      /\ \A i, j \in 1..Len(c) : i < j => <<c[i], c[j]>> \in E
  <2> HIDE DEF E
  <2> QED
    BY <1>4 DEF IsChain
<1>6. \A i, j \in 1..Len(c) : i < j => Precedes(l, c[i], c[j])
  BY <1>5
<1>7. ASSUME NEW y \in Fit(l, q), y = n \/ Precedes(l, n, y)
      PROVE  \E i \in 1..Len(c) : c[i] = y
  <2>1. SUFFICES ASSUME \A i \in 1..Len(c) : c[i] # y PROVE FALSE
    OBVIOUS
  <2> DEFINE T == {i \in 1..Len(c) : Precedes(l, c[i], y)}
  <2>2. 1 \in T
    BY <1>5, <1>7, <2>1
  <2>3. T \subseteq Nat /\ T # {} /\ \A i \in T : i <= Len(c)
    BY <2>2
  <2>4. \E i \in T : \A z \in T : i >= z
    <3> HIDE DEF T
    <3> QED
      BY <2>3, <1>5, Greatest
  <2>5. PICK i \in T : \A z \in T : i >= z
    BY <2>4
  <2>6. i \in 1..Len(c) /\ Precedes(l, c[i], y) /\ c[i] \in Fit(l, q)
    BY <2>5, <1>5
  <2>7. nx[c[i]] # NoNode /\ (nx[c[i]] = y \/ Precedes(l, nx[c[i]], y))
    BY <2>6, PointsToNext
  <2>8. i # Len(c)
    BY <2>7, <1>5
  <2>9. i \in 1..(Len(c) - 1) /\ i + 1 \in 1..Len(c)
    BY <2>6, <2>8, <1>5
  <2>10. nx[c[i]] = c[i + 1]
    BY <2>9, <1>5
  <2>11. i + 1 \in T
    BY <2>1, <2>7, <2>9, <2>10
  <2> QED
    BY <2>5, <2>6, <2>11
<1>8. QED
  BY <1>5, <1>6, <1>7 DEF Walks, c

\* What a look-up in the chains of l delivers for a key.
LEMMA LookUpIs ==
  ASSUME NEW l, DupFree(l), NEW s, LinkedDownTo(s, l, 0),
         NEW q \in Bytes, NEW k \in Nat, k <= Len(q), \A n \in Range(l) : Len(n.hash) <= k
  PROVE  LET c == Follow(s.next, ShortMatch(s.rb, q, k)) IN
         /\ c \in Seq(Node) /\ Range(c) = Fit(l, q)
         /\ \A i, j \in 1..Len(c) : i < j => c[i] # c[j] /\ Precedes(l, c[i], c[j])
<1> DEFINE x == ShortMatch(s.rb, q, k)
           c == Follow(s.next, x)
<1>1. /\ \A n \in Range(l) : n \in Node /\ Len(n.hash) \in Nat
      /\ \A j \in 1..Len(l) : l[j] \in Range(l) /\ l[j] \in Node
      /\ \A n \in Range(l) : \E j \in 1..Len(l) : n = l[j]
  BY HashIsSeq DEF DupFree, Range
<1>2. s.next \in [Node -> NodeOrNone] /\ \A j \in 1..Len(l) : Links(s.next, l, j)
  BY <1>1, HashIsSeq DEF LinkedDownTo, Chains
<1>3. Nearest(x, l, q, k)
  BY ShortMatchIs DEF LinkedDownTo
<1> HIDE DEF x
<1>4. CASE x = NoNode
  <2>1. c = <<>>
    BY <1>4, <1>2, FollowNone
  <2>2. Fit(l, q) = {}
    <3>1. ASSUME NEW y \in Fit(l, q) PROVE FALSE
      BY <1>1, <1>3, <1>4, NearestFirst DEF Fit
    <3> QED
      BY <3>1
  <2>3. Range(c) = {} /\ c \in Seq(Node) /\ Len(c) = 0
    BY <2>1 DEF Range
  <2> QED
    BY <2>2, <2>3 DEF x
<1>5. CASE x # NoNode
  <2>1. x \in Fit(l, q)
    BY <1>1, <1>3, <1>5 DEF Nearest, Fit
  <2>2. Walks(c, l, q, x)
    BY <2>1, <1>2, FollowWalks
  <2> HIDE DEF c
  <2>3. \A y \in Fit(l, q) : y = x \/ Precedes(l, x, y)
    BY <1>1, <1>3, NearestFirst DEF Fit
  <2>4. /\ c \in Seq(Node) /\ DOMAIN c = 1..Len(c)
        /\ \A i \in 1..Len(c) : c[i] \in Fit(l, q)
        /\ \A i, j \in 1..Len(c) : i < j => Precedes(l, c[i], c[j])
        /\ \A y \in Fit(l, q) : \E i \in 1..Len(c) : c[i] = y
    BY <2>2, <2>3 DEF Walks
  <2>5. Range(c) = Fit(l, q)
    BY <2>4 DEF Range
  <2>6. \A i, j \in 1..Len(c) : i < j => c[i] # c[j]
    <3>1. Fit(l, q) \subseteq Range(l)
      BY DEF Fit
    <3> QED
      BY <3>1, <2>4, PrecedesIsOrder
  <2> QED
    BY <2>4, <2>5, <2>6 DEF c, x
<1>6. QED
  BY <1>4, <1>5

----------------------------------------------------------------------------
(* range_map_clean.                                                        *)

\* What is kept of the first i nodes.
KeptOf(c, l, f, i) ==
  DupFree(c) /\ Range(c) = {l[j] : j \in {k \in 1..i : "delete" \notin f[l[k]]}}

\* The nodes kept are those that are not flagged.
LEMMA UndeletedIs ==
  ASSUME NEW l, DupFree(l), NEW f
  PROVE  /\ DupFree(Undeleted(l, f))
         /\ Range(Undeleted(l, f)) = {n \in Range(l) : "delete" \notin f[n]}
<1> DEFINE N == Len(l)
           One(s, x) == IF "delete" \in f[x] THEN s ELSE Append(s, x)
           step == [p \in Seq(Node) \X (1..N) |-> One(p[1], l[p[2]])]
           Eq(g) == g = [i \in 0..Len(l) |-> IF i = 0 THEN <<>> ELSE One(g[i - 1], l[i])]
<1>1. /\ N \in Nat /\ l \in Seq(Node) /\ \A i \in 1..N : l[i] \in Node
      /\ \A i, j \in 1..N : i # j => l[i] # l[j]
  BY DEF DupFree
<1>2. \A s \in Seq(Node), x \in Node : One(s, x) \in Seq(Node)
  OBVIOUS
<1>3. step \in [Seq(Node) \X (1..N) -> Seq(Node)]
  BY <1>1, <1>2
<1>4. PICK g : Unfolds(g, Seq(Node), <<>>, step, N)
  <2> HIDE DEF N, step
  <2>1. <<>> \in Seq(Node)
    OBVIOUS
  <2> QED
    BY <1>1, <1>3, <2>1, Recursion
<1>5. g \in [0..N -> Seq(Node)] /\ g[0] = <<>>
  BY <1>4 DEF Unfolds
<1>6. ASSUME NEW k \in 1..N PROVE g[k] = One(g[k - 1], l[k])
  <2>1. g[k] = step[<<g[k - 1], k>>]
    BY <1>4 DEF Unfolds
  <2>2. k - 1 \in 0..N
    BY <1>1
  <2>3. <<g[k - 1], k>> \in Seq(Node) \X (1..N)
    BY <1>5, <2>2
  <2> QED
    BY <2>1, <2>3
<1>7. Eq(g)
  <2> DEFINE h == [i \in 0..N |-> IF i = 0 THEN <<>> ELSE One(g[i - 1], l[i])]
  <2>1. \A k \in 0..N : k # 0 => k \in 1..N
    BY <1>1
  <2>2. \A k \in 0..N : g[k] = h[k]
    BY <1>5, <1>6, <2>1
  <2> QED
    BY <2>2, <1>5
<1> DEFINE k == CHOOSE k : Eq(k)
<1>8. Undeleted(l, f) = k[N]
  BY DEF Undeleted
<1>9. Eq(k)
  BY <1>7
<1> HIDE DEF k
<1>10. k[0] = <<>> /\ \A i \in 1..N : k[i] = One(k[i - 1], l[i])
  <2> HIDE DEF One
  <2>1. \A i \in 0..N : k[i] = IF i = 0 THEN <<>> ELSE One(k[i - 1], l[i])
    BY <1>9
  <2>2. 0 \in 0..N /\ \A i \in 1..N : i \in 0..N /\ i # 0
    BY <1>1
  <2> QED
    BY <2>1, <2>2
<1> DEFINE G == {i \in 0..N : KeptOf(k[i], l, f, i)}
<1>11. 0 \in G
  <2>1. DupFree(<<>>) /\ Range(<<>>) = {}
    BY DEF DupFree, Range
  <2> QED
    BY <2>1, <1>1, <1>10 DEF KeptOf
<1>12. ASSUME NEW i \in 1..N, i - 1 \in G PROVE i \in G
  <2> DEFINE c == k[i - 1]
  <2>1. /\ DupFree(c) /\ i \in 0..N /\ l[i] \in Node
        /\ Range(c) = {l[j] : j \in {x \in 1..(i - 1) : "delete" \notin f[l[x]]}}
    BY <1>1, <1>12 DEF KeptOf
  <2>2. k[i] = IF "delete" \in f[l[i]] THEN c ELSE Append(c, l[i])
    BY <1>10
  <2> HIDE DEF c
  <2>3. \A j \in 1..i : j = i \/ j \in 1..(i - 1)
    OBVIOUS
  <2>4. \A j \in 1..(i - 1) : j \in 1..i /\ j # i /\ j \in 1..N
    BY <1>1
  <2>5. CASE "delete" \in f[l[i]]
    <3>1. {l[j] : j \in {x \in 1..i : "delete" \notin f[l[x]]}} =
            {l[j] : j \in {x \in 1..(i - 1) : "delete" \notin f[l[x]]}}
      BY <2>3, <2>4, <2>5
    <3>2. k[i] = c
      BY <2>2, <2>5
    <3>3. KeptOf(k[i], l, f, i)
      BY <3>1, <3>2, <2>1 DEF KeptOf
    <3> QED
      BY <3>3, <2>1
  <2>6. CASE "delete" \notin f[l[i]]
    <3> DEFINE d == Append(c, l[i])
    <3>1. {l[j] : j \in {x \in 1..i : "delete" \notin f[l[x]]}} =
            {l[j] : j \in {x \in 1..(i - 1) : "delete" \notin f[l[x]]}} \cup {l[i]}
      BY <2>3, <2>4, <2>6
    <3>2. /\ c \in Seq(Node) /\ Len(c) \in Nat /\ d \in Seq(Node) /\ Len(d) = Len(c) + 1
          /\ \A j \in 1..Len(c) : d[j] = c[j] /\ c[j] \in Node
          /\ d[Len(c) + 1] = l[i]
      BY <2>1 DEF DupFree
    <3> HIDE DEF d
    <3>3. \A j \in 1..Len(d) : j = Len(c) + 1 \/ j \in 1..Len(c)
      BY <3>2
    <3>4. DOMAIN d = 1..Len(d) /\ DOMAIN c = 1..Len(c) /\ Len(d) \in Nat
      BY <3>2
    <3>5. Range(d) = Range(c) \cup {l[i]}
      <4>1. Len(c) + 1 \in 1..Len(d) /\ \A j \in 1..Len(c) : j \in 1..Len(d)
        BY <3>2
      <4> QED
        BY <4>1, <3>2, <3>3, <3>4 DEF Range
    <3>6. l[i] \notin Range(c)
      BY <2>1, <2>4, <1>1
    <3>7. \A j \in 1..Len(c) : c[j] # l[i]
      BY <3>6, <3>4 DEF Range
    <3>8. DupFree(d)
      <4>1. \A a, b \in 1..Len(d) : a # b => d[a] # d[b]
        <5>1. \A a, b \in 1..Len(c) : a # b => c[a] # c[b]
          BY <2>1 DEF DupFree
        <5> QED
          BY <5>1, <3>2, <3>3, <3>7
      <4>2. \A a \in 1..Len(d) : d[a] \in Node
        BY <3>2, <3>3, <2>1
      <4> QED
        BY <4>1, <4>2, <3>2, <3>4 DEF DupFree
    <3>9. k[i] = d
      BY <2>2, <2>6 DEF d
    <3>10. KeptOf(k[i], l, f, i)
      BY <3>1, <3>5, <3>8, <3>9, <2>1 DEF KeptOf
    <3> QED
      BY <3>10, <2>1
  <2> QED
    BY <2>5, <2>6
<1>13. \A i \in 0..N : i \in G
  <2> HIDE DEF G, N
  <2> QED
    BY <1>1, <1>11, <1>12, UpTo
<1>14. KeptOf(k[N], l, f, N)
  <2>1. N \in 0..N
    BY <1>1
  <2> QED
    BY <2>1, <1>13
<1>15. {l[j] : j \in {x \in 1..N : "delete" \notin f[l[x]]}} = {n \in Range(l) : "delete" \notin f[n]}
  BY <1>1 DEF Range
<1>16. QED
  BY <1>8, <1>14, <1>15 DEF KeptOf

----------------------------------------------------------------------------
(* The inductive invariant.                                                *)

FlagSet == {"main", "delete", "me"}

TypeOK ==
  /\ made \subseteq Maps
  /\ list \in [Maps -> Seq(Node)]
  /\ shown \in [Maps -> Seq(Node)]
  /\ flags \in [Maps -> [Node -> SUBSET FlagSet]]
  /\ bucket \in [Maps -> [Node -> Buckets \cup {NoBucket}]]
  /\ rb \in [Maps -> SUBSET Node]
  /\ next \in [Maps -> [Node -> NodeOrNone]]
  /\ longest \in [Maps -> Nat]
  /\ dbs \in [Buckets -> SUBSET {0, 1}]
  /\ port \in {"unset", "set", "known"}
  /\ walk \in [Readers -> {<<>>} \cup (Maps \X Node)]

\* No list has a node twice, and what was listed when the chains were built still is.
ListsFit ==
  \A m \in Maps : /\ DupFree(list[m]) /\ DupFree(shown[m])
                  /\ Range(shown[m]) \subseteq Range(list[m])

\* The chains are those of the nodes that were listed.
ChainsFit ==
  \A m \in Maps : /\ LinkedDownTo([rb |-> rb[m], next |-> next[m]], shown[m], 0)
                  /\ longest[m] = LongestOf(rb[m])

\* A reader is at a node of the chains.
AtShown ==
  \A t \in Readers : walk[t] # <<>> =>
    \E m \in Maps, n \in Node : walk[t] = <<m, n>> /\ n \in Range(shown[m])

\* Links of all nodes, also of those that are not in a list.
AllLinked ==
  \A m \in Maps, n \in Node : bucket[m][n] # NoBucket =>
    /\ dbs[bucket[m][n]] # {} /\ bucket[m][n].map = m
    /\ (bucket[m][n].addr = Local) <=> ("me" \in flags[m][n])

IInv == TypeOK /\ ListsFit /\ ChainsFit /\ AtShown /\ AllLinked /\ MeMeansMine

\* Only the two fields count.
LEMMA Repack ==
  ASSUME NEW s, NEW l, NEW d, LinkedDownTo(s, l, d)
  PROVE  LinkedDownTo([rb |-> s.rb, next |-> s.next], l, d)
<1> DEFINE t == [rb |-> s.rb, next |-> s.next]
<1>1. t.rb = s.rb /\ t.next = s.next
  OBVIOUS
<1>2. t \in Chains
  BY DEF LinkedDownTo, Chains
<1> HIDE DEF t
<1>3. LinkedDownTo(t, l, d)
  BY <1>1, <1>2 DEF LinkedDownTo
<1>4. QED
  BY <1>3 DEF t

\* The tree holds nodes of the list.
LEMMA HeadsListed ==
  ASSUME NEW l, DupFree(l)
  PROVE  Heads(l, Len(l)) \subseteq Range(l)
BY DEF Heads, Range, DupFree

\* With the write lock no reader is at a node.
LEMMA NobodyReads ==
  ASSUME WLock, walk' = walk
  PROVE  AtShown'
BY DEF WLock, AtShown

\* range_map_clean and range_map_load.
LEMMA RebuildKeeps ==
  ASSUME IInv, WLock, NEW m \in Maps, NEW f \in [Node -> SUBSET FlagSet],
         \A n \in Node : "me" \in f[n] <=> "me" \in flags[m][n],
         Rebuild(m, f)
  PROVE  IInv'
<1> DEFINE kept == Undeleted(list[m], f)
           new == Loaded(kept)
           gone == Range(list[m]) \ Range(kept)
<1>1. /\ list' = [list EXCEPT ![m] = kept]
      /\ shown' = [shown EXCEPT ![m] = kept]
      /\ flags' = [flags EXCEPT ![m] = [n \in Node |-> IF n \in gone THEN {} ELSE f[n]]]
      /\ bucket' = [bucket EXCEPT ![m] = [n \in Node |-> IF n \in gone THEN NoBucket ELSE bucket[m][n]]]
      /\ rb' = [rb EXCEPT ![m] = new.rb]
      /\ next' = [next EXCEPT ![m] = new.next]
      /\ longest' = [longest EXCEPT ![m] = LongestOf(new.rb)]
      /\ made' = made /\ dbs' = dbs /\ port' = port /\ walk' = walk
  BY DEF Rebuild, IInv, TypeOK
<1>2. DupFree(list[m])
  BY DEF IInv, ListsFit
<1>3. DupFree(kept) /\ Range(kept) \subseteq Range(list[m])
  BY <1>2, UndeletedIs
<1>4. LinkedDownTo(new, kept, 0)
  BY <1>3, LoadedIs
<1> HIDE DEF new, kept, gone
<1>5. /\ new.rb \in SUBSET Node /\ new.next \in [Node -> NodeOrNone] /\ kept \in Seq(Node)
      /\ new.rb \subseteq Range(kept)
  BY <1>3, <1>4, HeadsListed DEF LinkedDownTo, Chains, DupFree
<1>6. LongestOf(new.rb) \in Nat
  BY <1>3, <1>5, LongestIs
<1> DEFINE fl == [n \in Node |-> IF n \in gone THEN {} ELSE f[n]]
           bu == [n \in Node |-> IF n \in gone THEN NoBucket ELSE bucket[m][n]]
<1>7. fl \in [Node -> SUBSET FlagSet] /\ bu \in [Node -> Buckets \cup {NoBucket}]
  BY DEF IInv, TypeOK
<1>8. /\ \A n \in Node : fl[n] = IF n \in gone THEN {} ELSE f[n]
      /\ \A n \in Node : bu[n] = IF n \in gone THEN NoBucket ELSE bucket[m][n]
  OBVIOUS
<1>9. /\ flags' = [flags EXCEPT ![m] = fl]
      /\ bucket' = [bucket EXCEPT ![m] = bu]
  BY <1>1
<1> HIDE DEF fl, bu
<1>10. TypeOK'
  BY <1>1, <1>5, <1>6, <1>7, <1>9 DEF IInv, TypeOK
<1>11. ListsFit'
  <2>1. ASSUME NEW k \in Maps
        PROVE  /\ DupFree(list'[k]) /\ DupFree(shown'[k])
               /\ Range(shown'[k]) \subseteq Range(list'[k])
    <3>1. CASE k = m
      BY <3>1, <1>1, <1>3 DEF IInv, TypeOK
    <3>2. CASE k # m
      BY <3>2, <1>1 DEF IInv, TypeOK, ListsFit
    <3> QED
      BY <3>1, <3>2
  <2> QED
    BY <2>1 DEF ListsFit
<1>12. ChainsFit'
  <2>1. ASSUME NEW k \in Maps
        PROVE  /\ LinkedDownTo([rb |-> rb'[k], next |-> next'[k]], shown'[k], 0)
               /\ longest'[k] = LongestOf(rb'[k])
    <3>1. CASE k = m
      <4>1. rb'[k] = new.rb /\ next'[k] = new.next /\ shown'[k] = kept
            /\ longest'[k] = LongestOf(new.rb)
        BY <3>1, <1>1 DEF IInv, TypeOK
      <4>2. LinkedDownTo([rb |-> new.rb, next |-> new.next], kept, 0)
        BY <1>4, Repack
      <4> QED
        BY <4>1, <4>2
    <3>2. CASE k # m
      <4>1. rb'[k] = rb[k] /\ next'[k] = next[k] /\ shown'[k] = shown[k] /\ longest'[k] = longest[k]
        BY <3>2, <1>1 DEF IInv, TypeOK
      <4> QED
        BY <4>1 DEF IInv, ChainsFit
    <3> QED
      BY <3>1, <3>2
  <2> QED
    BY <2>1 DEF ChainsFit
<1>13. AtShown'
  BY <1>1, NobodyReads
<1>14. ASSUME NEW k \in Maps, NEW n \in Node
       PROVE  \/ bucket'[k][n] = NoBucket
              \/ /\ bucket'[k][n] = bucket[k][n]
                 /\ "me" \in flags'[k][n] <=> "me" \in flags[k][n]
  <2>1. CASE k = m
    <3>1. bucket'[k][n] = bu[n] /\ flags'[k][n] = fl[n]
      BY <2>1, <1>9 DEF IInv, TypeOK
    <3> QED
      BY <3>1, <2>1, <1>8
  <2>2. CASE k # m
    BY <2>2, <1>9 DEF IInv, TypeOK
  <2> QED
    BY <2>1, <2>2
<1>15. AllLinked'
  BY <1>1, <1>14 DEF IInv, AllLinked
<1>16. MeMeansMine'
  <2>1. SUFFICES ASSUME port = "known", NEW k \in Maps, NEW n \in Range(list'[k])
                 PROVE  "me" \in flags'[k][n] <=> n.addr \in MyAddrs
    BY <1>1 DEF MeMeansMine
  <2>2. CASE k = m
    <3>1. n \in Range(kept) /\ n \in Range(list[m]) /\ n \notin gone
      BY <2>1, <2>2, <1>1, <1>3 DEF IInv, TypeOK, gone
    <3>2. n \in Node
      BY <3>1, <1>2 DEF DupFree, Range
    <3>3. flags'[k][n] = f[n]
      BY <3>1, <3>2, <2>2, <1>8, <1>9 DEF IInv, TypeOK
    <3> QED
      BY <3>1, <3>2, <3>3, <2>1 DEF IInv, MeMeansMine
  <2>3. CASE k # m
    BY <2>1, <2>3, <1>1 DEF IInv, TypeOK, MeMeansMine
  <2> QED
    BY <2>2, <2>3
<1>17. QED
  BY <1>10, <1>11, <1>12, <1>13, <1>15, <1>16 DEF IInv

\* range_map_del_node, range_map_del_all_node and range_map_flush.
LEMMA RebuildsKeep ==
  ASSUME IInv, NEW m \in Maps, Flush(m) \/ DelAllNode(m) \/ (\E n \in Node : DelNode(m, n))
  PROVE  IInv'
<1>1. flags[m] \in [Node -> SUBSET FlagSet]
  BY DEF IInv, TypeOK
<1>2. CASE Flush(m)
  BY <1>1, <1>2, RebuildKeeps DEF Flush
<1>3. CASE DelAllNode(m)
  <2> DEFINE f == [n \in Node |-> flags[m][n] \cup {"delete"}]
  <2>1. /\ f \in [Node -> SUBSET FlagSet]
        /\ \A n \in Node : "me" \in f[n] <=> "me" \in flags[m][n]
        /\ Rebuild(m, f) /\ WLock
    BY <1>1, <1>3 DEF DelAllNode, FlagSet
  <2> HIDE DEF f
  <2> QED
    BY <2>1, RebuildKeeps
<1>4. ASSUME NEW n \in Node, DelNode(m, n) PROVE IInv'
  <2> DEFINE f == [flags[m] EXCEPT ![n] = @ \cup {"delete"}]
  <2>1. /\ f \in [Node -> SUBSET FlagSet]
        /\ \A x \in Node : "me" \in f[x] <=> "me" \in flags[m][x]
    BY <1>1 DEF FlagSet
  <2>2. Rebuild(m, f) /\ WLock
    BY <1>4 DEF DelNode
  <2> HIDE DEF f
  <2> QED
    BY <2>1, <2>2, RebuildKeeps
<1>5. QED
  BY <1>2, <1>3, <1>4

\* range_map_new
LEMMA NewKeeps ==
  ASSUME IInv, NEW m \in Maps, New(m)
  PROVE  IInv'
BY DEF IInv, New, TypeOK, ListsFit, ChainsFit, AtShown, AllLinked, MeMeansMine

\* What esq_bee_find_bucket returns is registered and has the key it was asked for.
LEMMA FoundBucket ==
  ASSUME NEW m, NEW text, NEW addr, FindBucket(m, text, addr) # NoBucket
  PROVE  LET b == FindBucket(m, text, addr) IN
         b \in Buckets /\ dbs[b] # {} /\ b.map = m /\ b.addr = addr
BY DEF FindBucket

\* It returns a bucket or none.
LEMMA FindBucketType ==
  ASSUME NEW m, NEW text, NEW addr
  PROVE  FindBucket(m, text, addr) \in Buckets \cup {NoBucket}
BY DEF FindBucket

\* range_map_add_node
LEMMA AddNodeKeeps ==
  ASSUME IInv, NEW m \in Maps, NEW n \in Node, NEW f \in Flags, AddNode(m, n, f)
  PROVE  IInv'
<1> DEFINE mine == IsMe(n.addr)
           fl == f \cup (IF mine THEN {"me"} ELSE {})
           b == FindBucket(m, Append(Text(n.hash), EndMark), IF mine THEN Local ELSE n.addr)
           l == <<n>> \o list[m]
<1>1. /\ WLock /\ n \notin Range(list[m])
      /\ list' = [list EXCEPT ![m] = l]
      /\ flags' = [flags EXCEPT ![m][n] = fl]
      /\ bucket' = [bucket EXCEPT ![m][n] = b]
      /\ made' = made /\ rb' = rb /\ next' = next /\ longest' = longest /\ dbs' = dbs
      /\ port' = port /\ walk' = walk /\ shown' = shown
  BY DEF AddNode
<1>2. "me" \notin f /\ f \subseteq FlagSet
  BY RangeMapAssumption DEF FlagSet
<1>3. fl \subseteq FlagSet /\ ("me" \in fl <=> mine)
  BY <1>2 DEF FlagSet
<1>4. b \in Buckets \cup {NoBucket}
  BY FindBucketType
<1>5. b # NoBucket => dbs[b] # {} /\ b.map = m /\ b.addr = IF mine THEN Local ELSE n.addr
  BY FoundBucket
<1>6. n.addr # Local
  BY RangeMapAssumption DEF Node
<1>7. DupFree(list[m])
  BY DEF IInv, ListsFit
<1> HIDE DEF b, fl, mine
<1>8. /\ list[m] \in Seq(Node) /\ Len(list[m]) \in Nat
      /\ l \in Seq(Node) /\ Len(l) = Len(list[m]) + 1 /\ l[1] = n
      /\ \A i \in 1..Len(list[m]) : l[i + 1] = list[m][i]
  BY <1>7 DEF DupFree
<1> HIDE DEF l
<1>9. \A i \in 1..Len(l) : i # 1 => i - 1 \in 1..Len(list[m]) /\ l[i] = list[m][i - 1]
  <2>1. ASSUME NEW i \in 1..Len(l), i # 1
        PROVE  i - 1 \in 1..Len(list[m]) /\ (i - 1) + 1 = i
    BY <1>8, <2>1
  <2> QED
    BY <2>1, <1>8
<1>10. \A i \in 1..Len(list[m]) : list[m][i] # n /\ list[m][i] \in Node
  BY <1>1, <1>7 DEF DupFree, Range
<1>11. DupFree(l)
  <2>1. \A i \in 1..Len(l) : l[i] \in Node
    BY <1>8, <1>9, <1>10
  <2>2. ASSUME NEW i \in 1..Len(l), NEW j \in 1..Len(l), i # j PROVE l[i] # l[j]
    <3>1. CASE i = 1
      BY <3>1, <2>2, <1>8, <1>9, <1>10
    <3>2. CASE j = 1
      BY <3>2, <2>2, <1>8, <1>9, <1>10
    <3>3. CASE i # 1 /\ j # 1
      <4>1. i - 1 # j - 1
        BY <2>2, <1>8
      <4> QED
        BY <4>1, <3>3, <1>7, <1>9 DEF DupFree
    <3> QED
      BY <3>1, <3>2, <3>3
  <2> QED
    BY <2>1, <2>2, <1>8 DEF DupFree
<1>12. Range(l) = Range(list[m]) \cup {n}
  <2>1. DOMAIN l = 1..Len(l) /\ DOMAIN list[m] = 1..Len(list[m])
    BY <1>8
  <2>2. 1 \in 1..Len(l) /\ \A i \in 1..Len(list[m]) : i + 1 \in 1..Len(l)
    BY <1>8
  <2>3. ASSUME NEW x \in Range(l) PROVE x \in Range(list[m]) \cup {n}
    <3>1. PICK i \in 1..Len(l) : x = l[i]
      BY <2>1 DEF Range
    <3> QED
      BY <3>1, <2>1, <1>8, <1>9 DEF Range
  <2>4. ASSUME NEW x \in Range(list[m]) PROVE x \in Range(l)
    <3>1. PICK i \in 1..Len(list[m]) : x = list[m][i]
      BY <2>1 DEF Range
    <3>2. x = l[i + 1] /\ i + 1 \in DOMAIN l
      BY <3>1, <2>1, <2>2, <1>8
    <3> QED
      BY <3>2 DEF Range
  <2>5. n \in Range(l)
    BY <2>1, <2>2, <1>8 DEF Range
  <2> QED
    BY <2>3, <2>4, <2>5
<1>13. /\ \A k \in Maps : list'[k] = IF k = m THEN l ELSE list[k]
       /\ \A k \in Maps, x \in Node : flags'[k][x] = IF k = m /\ x = n THEN fl ELSE flags[k][x]
       /\ \A k \in Maps, x \in Node : bucket'[k][x] = IF k = m /\ x = n THEN b ELSE bucket[k][x]
  BY <1>1 DEF IInv, TypeOK
<1>14. TypeOK'
  BY <1>1, <1>3, <1>4, <1>8 DEF IInv, TypeOK
<1>15. ListsFit'
  BY <1>1, <1>11, <1>12, <1>13 DEF IInv, ListsFit
<1>16. ChainsFit'
  BY <1>1 DEF IInv, ChainsFit
<1>17. AtShown'
  BY <1>1, NobodyReads
<1>18. AllLinked'
  BY <1>1, <1>3, <1>5, <1>6, <1>13 DEF IInv, AllLinked
<1>19. MeMeansMine'
  <2>1. SUFFICES ASSUME port = "known", NEW k \in Maps, NEW x \in Range(list'[k])
                 PROVE  "me" \in flags'[k][x] <=> x.addr \in MyAddrs
    BY <1>1 DEF MeMeansMine
  <2>2. x \in Node
    <3>1. DupFree(list'[k])
      BY <1>15 DEF ListsFit
    <3> QED
      BY <3>1, <2>1 DEF DupFree, Range
  <2>3. CASE k = m /\ x = n
    <3>1. mine <=> n.addr \in MyAddrs
      BY <2>1 DEF mine, IsMe
    <3> QED
      BY <3>1, <2>2, <2>3, <1>3, <1>13
  <2>4. CASE ~(k = m /\ x = n)
    <3>1. x \in Range(list[k])
      BY <2>1, <2>4, <1>12, <1>13
    <3> QED
      BY <3>1, <2>1, <2>2, <2>4, <1>13 DEF IInv, MeMeansMine
  <2> QED
    BY <2>3, <2>4
<1>20. QED
  BY <1>14, <1>15, <1>16, <1>17, <1>18, <1>19 DEF IInv

\* A bucket comes online: the nodes it serves point to it.
LEMMA OnlineKeeps ==
  ASSUME IInv, WLock, NEW b \in Buckets, dbs' \in [Buckets -> SUBSET {0, 1}],
         dbs'[b] # {}, \A x \in Buckets : dbs[x] # {} => dbs'[x] # {},
         NotifyOnline(b) \/ bucket' = bucket,
         UNCHANGED <<made, list, flags, rb, next, longest, port, walk, shown>>
  PROVE  IInv'
<1>1. ASSUME NEW m \in Maps, NEW n \in Node
      PROVE  bucket'[m][n] = bucket[m][n] \/ (bucket'[m][n] = b /\ Serves(b, m, n))
  BY DEF NotifyOnline
<1>2. bucket' \in [Maps -> [Node -> Buckets \cup {NoBucket}]]
  <2>1. bucket \in [Maps -> [Node -> Buckets \cup {NoBucket}]]
    BY DEF IInv, TypeOK
  <2>2. CASE NotifyOnline(b)
    BY <2>1, <2>2 DEF NotifyOnline
  <2> QED
    BY <2>1, <2>2
<1>3. TypeOK'
  BY <1>2 DEF IInv, TypeOK
<1>4. ListsFit' /\ ChainsFit' /\ MeMeansMine'
  BY DEF IInv, ListsFit, ChainsFit, MeMeansMine
<1>5. AtShown'
  BY NobodyReads
<1>6. AllLinked'
  <2>1. SUFFICES ASSUME NEW m \in Maps, NEW n \in Node, bucket'[m][n] # NoBucket
                 PROVE  /\ dbs'[bucket'[m][n]] # {} /\ bucket'[m][n].map = m
                        /\ (bucket'[m][n].addr = Local) <=> ("me" \in flags[m][n])
    BY DEF AllLinked
  <2>2. CASE bucket'[m][n] = b /\ Serves(b, m, n)
    BY <2>2 DEF Serves
  <2>3. CASE bucket'[m][n] = bucket[m][n]
    <3>1. bucket[m][n] \in Buckets
      BY <2>1, <2>3 DEF IInv, TypeOK
    <3>2. /\ dbs[bucket[m][n]] # {} /\ bucket[m][n].map = m
          /\ (bucket[m][n].addr = Local) <=> ("me" \in flags[m][n])
      BY <2>1, <2>3 DEF IInv, AllLinked
    <3> QED
      BY <3>1, <3>2, <2>3
  <2> QED
    BY <1>1, <2>2, <2>3
<1>7. QED
  BY <1>3, <1>4, <1>5, <1>6 DEF IInv

\* bee_open_disk_bucket
LEMMA OpenDiskBucketKeeps ==
  ASSUME IInv, NEW b \in Buckets, NEW idx \in {0, 1}, OpenDiskBucket(b, idx)
  PROVE  IInv'
<1>1. dbs \in [Buckets -> SUBSET {0, 1}] /\ dbs' = [dbs EXCEPT ![b] = dbs[b] \cup {idx}]
  BY DEF IInv, TypeOK, OpenDiskBucket
<1>2. /\ dbs' \in [Buckets -> SUBSET {0, 1}] /\ dbs'[b] # {}
      /\ \A x \in Buckets : dbs[x] # {} => dbs'[x] # {}
  BY <1>1
<1>3. QED
  BY <1>2, OnlineKeeps DEF OpenDiskBucket

\* bee_shift_mem_bucket
LEMMA ShiftMemBucketKeeps ==
  ASSUME IInv, NEW b \in Buckets, ShiftMemBucket(b)
  PROVE  IInv'
<1>1. /\ dbs \in [Buckets -> SUBSET {0, 1}]
      /\ dbs' = [dbs EXCEPT ![b] = IF 0 \in dbs[b] THEN {0, 1} ELSE dbs[b] \cup {0}]
  BY DEF IInv, TypeOK, ShiftMemBucket
<1>2. /\ dbs' \in [Buckets -> SUBSET {0, 1}] /\ dbs'[b] # {}
      /\ \A x \in Buckets : dbs[x] # {} => dbs'[x] # {}
  BY <1>1
<1>3. QED
  BY <1>2, OnlineKeeps DEF ShiftMemBucket

\* The port is set, without the lock.
LEMMA SetPortKeeps ==
  ASSUME IInv, SetPort
  PROVE  IInv'
BY DEF IInv, SetPort, TypeOK, ListsFit, ChainsFit, AtShown, AllLinked, MeMeansMine

\* esq_range_map_flush_range_node_bucket_connection
LEMMA SelfPortSetupKeeps ==
  ASSUME IInv, SelfPortSetup
  PROVE  IInv'
<1> DEFINE B(m, n) == FindBucket(m, n.hash, IF IsMe(n.addr) THEN Local ELSE n.addr)
<1>1. /\ WLock /\ port = "set" /\ port' = "known"
      /\ made' = made /\ list' = list /\ rb' = rb /\ next' = next /\ longest' = longest
      /\ dbs' = dbs /\ walk' = walk /\ shown' = shown
      /\ flags' = [m \in Maps |-> [n \in Node |->
                     IF n \in Range(list[m]) THEN Reflagged(m, n) ELSE flags[m][n]]]
      /\ bucket' = [m \in Maps |-> [n \in Node |->
                     IF n \in Range(list[m]) THEN B(m, n) ELSE bucket[m][n]]]
  BY DEF SelfPortSetup
<1>2. \A m \in Maps, n \in Node : B(m, n) \in Buckets \cup {NoBucket}
  BY FindBucketType
<1>3. \A m \in Maps, n \in Node : B(m, n) # NoBucket =>
        /\ dbs[B(m, n)] # {} /\ B(m, n).map = m
        /\ B(m, n).addr = IF IsMe(n.addr) THEN Local ELSE n.addr
  BY FoundBucket
<1>4. \A m \in Maps, n \in Node : Reflagged(m, n) \in SUBSET FlagSet
  BY DEF Reflagged, FlagSet, IInv, TypeOK
<1>5. \A m \in Maps, n \in Node : "me" \in Reflagged(m, n) <=> IsMe(n.addr)
  BY DEF Reflagged
<1>6. \A n \in Node : n.addr # Local /\ (IsMe(n.addr) <=> n.addr \in MyAddrs)
  BY <1>1, RangeMapAssumption DEF Node, IsMe
<1> HIDE DEF B
<1>7. /\ \A m \in Maps, n \in Node : flags'[m][n] =
           IF n \in Range(list[m]) THEN Reflagged(m, n) ELSE flags[m][n]
      /\ \A m \in Maps, n \in Node : bucket'[m][n] =
           IF n \in Range(list[m]) THEN B(m, n) ELSE bucket[m][n]
  BY <1>1
<1>8. TypeOK'
  <2>1. flags' \in [Maps -> [Node -> SUBSET FlagSet]]
    BY <1>1, <1>4 DEF IInv, TypeOK
  <2>2. bucket' \in [Maps -> [Node -> Buckets \cup {NoBucket}]]
    BY <1>1, <1>2 DEF IInv, TypeOK
  <2> QED
    BY <2>1, <2>2, <1>1 DEF IInv, TypeOK
<1>9. ListsFit' /\ ChainsFit'
  BY <1>1 DEF IInv, ListsFit, ChainsFit
<1>10. AtShown'
  BY <1>1, NobodyReads
<1>11. AllLinked'
  <2>1. SUFFICES ASSUME NEW m \in Maps, NEW n \in Node, bucket'[m][n] # NoBucket
                 PROVE  /\ dbs[bucket'[m][n]] # {} /\ bucket'[m][n].map = m
                        /\ (bucket'[m][n].addr = Local) <=> ("me" \in flags'[m][n])
    BY <1>1 DEF AllLinked
  <2>2. CASE n \in Range(list[m])
    <3>1. bucket'[m][n] = B(m, n) /\ flags'[m][n] = Reflagged(m, n)
      BY <2>2, <1>7
    <3> QED
      BY <3>1, <2>1, <1>3, <1>5, <1>6
  <2>3. CASE n \notin Range(list[m])
    BY <2>1, <2>3, <1>7 DEF IInv, AllLinked
  <2> QED
    BY <2>2, <2>3
<1>12. MeMeansMine'
  <2>1. SUFFICES ASSUME NEW m \in Maps, NEW n \in Range(list[m])
                 PROVE  "me" \in flags'[m][n] <=> n.addr \in MyAddrs
    BY <1>1 DEF MeMeansMine
  <2>2. n \in Node
    <3>1. DupFree(list[m])
      BY DEF IInv, ListsFit
    <3> QED
      BY <3>1 DEF DupFree, Range
  <2> QED
    BY <2>1, <2>2, <1>5, <1>6, <1>7
<1>13. QED
  BY <1>8, <1>9, <1>10, <1>11, <1>12 DEF IInv

\* From a listed node the pointers lead to listed nodes.
LEMMA NextShown ==
  ASSUME IInv, NEW m \in Maps, NEW n \in Range(shown[m]), next[m][n] # NoNode
  PROVE  next[m][n] \in Range(shown[m])
<1> DEFINE l == shown[m]
           s == [rb |-> rb[m], next |-> next[m]]
<1>1. DupFree(l) /\ LinkedDownTo(s, l, 0)
  BY DEF IInv, ListsFit, ChainsFit
<1> HIDE DEF l
<1>2. /\ \A j \in 1..Len(l) : l[j] \in Node /\ l[j].hash \in Bytes /\ Len(l[j].hash) \in Nat
      /\ n \in Range(l)
  BY <1>1, HashIsSeq DEF DupFree, Bytes, l
<1>3. \A j \in 1..Len(l) : Links(next[m], l, j)
  BY <1>1, <1>2 DEF LinkedDownTo
<1>4. PICK j \in 1..Len(l) : n = l[j]
  BY <1>1, <1>2 DEF Range, DupFree
<1>5. l[j].hash \in Bytes /\ IsPrefix(l[j].hash, l[j].hash)
  BY <1>2 DEF IsPrefix
<1>6. n \in Fit(l, l[j].hash)
  BY <1>2, <1>4, <1>5 DEF Fit
<1>7. next[m][n] \in Fit(l, l[j].hash)
  BY <1>1, <1>3, <1>5, <1>6, PointsToNext
<1>8. QED
  BY <1>7 DEF Fit, l

\* range_map_find_and_lock
LEMMA FindKeeps ==
  ASSUME IInv, NEW t \in Readers, NEW m \in Maps, NEW key \in Keys, Find(t, m, key)
  PROVE  IInv'
<1> DEFINE x == Found(m, key)
<1>1. /\ x # NoNode /\ walk' = [walk EXCEPT ![t] = <<m, x>>]
      /\ UNCHANGED <<made, list, flags, bucket, rb, next, longest, dbs, port, shown>>
  BY DEF Find
<1>2. x \in rb[m]
  <2>1. x = ShortMatch(rb[m], key, longest[m])
    BY <1>1 DEF Found
  <2>2. PICK h : x = InRb(rb[m], h)
    BY <1>1, <2>1 DEF ShortMatch
  <2> HIDE DEF x
  <2>3. \E n \in rb[m] : n.hash = h
    BY <1>1, <2>2 DEF InRb
  <2>4. x = CHOOSE n \in rb[m] : n.hash = h
    BY <2>2, <2>3 DEF InRb
  <2> QED
    BY <2>3, <2>4
<1> HIDE DEF x
<1>3. x \in Range(shown[m]) /\ x \in Node
  <2>1. DupFree(shown[m])
    BY DEF IInv, ListsFit
  <2>2. rb[m] = Heads(shown[m], Len(shown[m]))
    BY DEF IInv, ChainsFit, LinkedDownTo
  <2>3. x \in Range(shown[m])
    BY <1>2, <2>1, <2>2, HeadsListed
  <2> QED
    BY <2>1, <2>3 DEF DupFree, Range
<1>4. TypeOK'
  BY <1>1, <1>3 DEF IInv, TypeOK
<1>5. AtShown'
  <2>1. SUFFICES ASSUME NEW r \in Readers, walk'[r] # <<>>
                 PROVE  \E k \in Maps, n \in Node : walk'[r] = <<k, n>> /\ n \in Range(shown[k])
    BY <1>1 DEF AtShown
  <2>2. CASE r = t
    BY <2>2, <1>1, <1>3 DEF IInv, TypeOK
  <2>3. CASE r # t
    <3>1. walk'[r] = walk[r]
      BY <2>3, <1>1 DEF IInv, TypeOK
    <3> QED
      BY <3>1, <2>1 DEF IInv, AtShown
  <2> QED
    BY <2>2, <2>3
<1>6. QED
  BY <1>1, <1>4, <1>5 DEF IInv, ListsFit, ChainsFit, AllLinked, MeMeansMine

\* range_map_node_get_next
LEMMA GetNextKeeps ==
  ASSUME IInv, NEW t \in Readers, GetNext(t)
  PROVE  IInv'
<1>1. walk[t] # <<>>
  BY DEF GetNext
<1>2. PICK m \in Maps, n \in Node : walk[t] = <<m, n>> /\ n \in Range(shown[m])
  BY <1>1 DEF IInv, AtShown
<1> DEFINE x == next[m][n]
<1>3. /\ x # NoNode /\ walk' = [walk EXCEPT ![t] = <<m, x>>]
      /\ UNCHANGED <<made, list, flags, bucket, rb, next, longest, dbs, port, shown>>
  <2>1. walk[t][1] = m /\ walk[t][2] = n
    BY <1>2
  <2>2. walk' = [walk EXCEPT ![t] = [walk[t] EXCEPT ![2] = next[walk[t][1]][walk[t][2]]]]
    BY DEF GetNext
  <2>3. [walk[t] EXCEPT ![2] = x] = <<m, x>>
    BY <1>2
  <2>4. walk' = [walk EXCEPT ![t] = <<m, x>>]
    BY <2>1, <2>2, <2>3
  <2> QED
    BY <2>1, <2>4 DEF GetNext
<1>4. x \in Range(shown[m]) /\ x \in Node
  <2>1. DupFree(shown[m])
    BY DEF IInv, ListsFit
  <2>2. x \in Range(shown[m])
    BY <1>2, <1>3, NextShown
  <2> QED
    BY <2>1, <2>2 DEF DupFree, Range
<1> HIDE DEF x
<1>5. TypeOK'
  BY <1>3, <1>4 DEF IInv, TypeOK
<1>6. AtShown'
  <2>1. SUFFICES ASSUME NEW r \in Readers, walk'[r] # <<>>
                 PROVE  \E k \in Maps, y \in Node : walk'[r] = <<k, y>> /\ y \in Range(shown[k])
    BY <1>3 DEF AtShown
  <2>2. CASE r = t
    BY <2>2, <1>3, <1>4 DEF IInv, TypeOK
  <2>3. CASE r # t
    <3>1. walk'[r] = walk[r]
      BY <2>3, <1>3 DEF IInv, TypeOK
    <3> QED
      BY <3>1, <2>1 DEF IInv, AtShown
  <2> QED
    BY <2>2, <2>3
<1>7. QED
  BY <1>3, <1>5, <1>6 DEF IInv, ListsFit, ChainsFit, AllLinked, MeMeansMine

\* range_map_unlock
LEMMA UnlockKeeps ==
  ASSUME IInv, NEW t \in Readers, Unlock(t)
  PROVE  IInv'
<1>1. /\ walk' = [walk EXCEPT ![t] = <<>>]
      /\ UNCHANGED <<made, list, flags, bucket, rb, next, longest, dbs, port, shown>>
  BY DEF Unlock
<1>2. TypeOK'
  BY <1>1 DEF IInv, TypeOK
<1>3. \A r \in Readers : walk'[r] = <<>> \/ walk'[r] = walk[r]
  BY <1>1 DEF IInv, TypeOK
<1>4. AtShown'
  BY <1>1, <1>3 DEF IInv, AtShown
<1>5. QED
  BY <1>1, <1>2, <1>4 DEF IInv, ListsFit, ChainsFit, AllLinked, MeMeansMine

\* Nothing is listed at first.
LEMMA InitFits == Init => IInv
<1>1. SUFFICES ASSUME Init PROVE IInv
  OBVIOUS
<1>2. TypeOK
  BY <1>1 DEF Init, TypeOK, NodeOrNone
<1>3. DupFree(<<>>) /\ Range(<<>>) = {}
  BY DEF DupFree, Range
<1>4. ListsFit
  BY <1>1, <1>3 DEF Init, ListsFit
<1>5. ChainsFit
  <2> DEFINE s == [rb |-> {}, next |-> [n \in Node |-> NoNode]]
  <2>1. s \in Chains /\ s.rb = {} /\ \A n \in Node : s.next[n] = NoNode
    BY DEF Chains, NodeOrNone
  <2>2. Heads(<<>>, Len(<<>>)) = {}
    BY DEF Heads
  <2>3. LinkedDownTo(s, <<>>, 0)
    BY <2>1, <2>2 DEF LinkedDownTo
  <2>4. LongestOf({}) = 0
    BY <1>3, LongestIs
  <2>5. \A m \in Maps : rb[m] = {} /\ next[m] = [n \in Node |-> NoNode] /\ shown[m] = <<>>
                        /\ longest[m] = 0
    BY <1>1 DEF Init
  <2> QED
    BY <2>3, <2>4, <2>5 DEF ChainsFit
<1>6. AtShown /\ AllLinked /\ MeMeansMine
  BY <1>1 DEF Init, AtShown, AllLinked, MeMeansMine
<1>7. QED
  BY <1>2, <1>4, <1>5, <1>6 DEF IInv

\* Every step keeps the invariant.
LEMMA StepKeeps == IInv /\ [Next]_vars => IInv'
<1>1. SUFFICES ASSUME IInv, [Next]_vars PROVE IInv'
  OBVIOUS
<1>2. CASE UNCHANGED vars
  <2>1. TypeOK'
    BY <1>1, <1>2 DEF vars, IInv, TypeOK
  <2>2. ListsFit' /\ AtShown'
    BY <1>1, <1>2 DEF vars, IInv, ListsFit, AtShown
  <2>3. ChainsFit'
    BY <1>1, <1>2 DEF vars, IInv, ChainsFit
  <2>4. AllLinked' /\ MeMeansMine'
    BY <1>1, <1>2 DEF vars, IInv, AllLinked, MeMeansMine
  <2> QED
    BY <2>1, <2>2, <2>3, <2>4 DEF IInv
<1>3. ASSUME NEW m \in Maps, New(m) PROVE IInv'
  BY <1>1, <1>3, NewKeeps
<1>4. ASSUME NEW m \in Maps, DelAllNode(m) \/ Flush(m) PROVE IInv'
  BY <1>1, <1>4, RebuildsKeep
<1>5. ASSUME NEW m \in Maps, NEW n \in Node, DelNode(m, n) PROVE IInv'
  BY <1>1, <1>5, RebuildsKeep
<1>6. ASSUME NEW m \in Maps, NEW n \in Node, NEW f \in Flags, AddNode(m, n, f) PROVE IInv'
  BY <1>1, <1>6, AddNodeKeeps
<1>7. ASSUME NEW b \in Buckets, ShiftMemBucket(b) PROVE IInv'
  BY <1>1, <1>7, ShiftMemBucketKeeps
<1>8. ASSUME NEW b \in Buckets, NEW idx \in {0, 1}, OpenDiskBucket(b, idx) PROVE IInv'
  BY <1>1, <1>8, OpenDiskBucketKeeps
<1>9. CASE SetPort
  BY <1>1, <1>9, SetPortKeeps
<1>10. CASE SelfPortSetup
  BY <1>1, <1>10, SelfPortSetupKeeps
<1>11. ASSUME NEW t \in Readers, GetNext(t) PROVE IInv'
  BY <1>1, <1>11, GetNextKeeps
<1>12. ASSUME NEW t \in Readers, Unlock(t) PROVE IInv'
  BY <1>1, <1>12, UnlockKeeps
<1>13. ASSUME NEW t \in Readers, NEW m \in Maps, NEW key \in Keys, Find(t, m, key) PROVE IInv'
  BY <1>1, <1>13, FindKeeps
<1>14. QED
  BY <1>1, <1>2, <1>3, <1>4, <1>5, <1>6, <1>7, <1>8, <1>9, <1>10, <1>11, <1>12, <1>13 DEF Next

----------------------------------------------------------------------------
(* The theorems.                                                           *)

\* The invariant holds in all states of all behaviours.
THEOREM RangeMapInvariant == Spec => []IInv
<1>1. Init => IInv
  BY InitFits
<1>2. IInv /\ [Next]_vars => IInv'
  BY StepKeeps
<1>3. QED
  BY <1>1, <1>2, PTL DEF Spec

\* Nodes, buckets and the port of the server agree, in whatever order nodes are
\* added, buckets opened and the port set (range_map_add_node,
\* range_map_notify_bucket_online, bee_server_start_instance).
THEOREM LinksAlwaysFit == Spec => []LinksFit
<1>1. IInv => LinksFit
  <2>1. SUFFICES ASSUME IInv PROVE LinkedBucketFits
    BY DEF IInv, LinksFit
  <2>2. \A m \in Maps : \A n \in Range(list[m]) : n \in Node
    BY <2>1 DEF IInv, ListsFit, DupFree, Range
  <2> QED
    BY <2>1, <2>2 DEF IInv, AllLinked, LinkedBucketFits
<1>2. QED
  BY <1>1, RangeMapInvariant, PTL

\* A reader that has found a node and still holds the lock is at a node that was
\* not freed, and so is all it can reach (range_map_node_get_next).
THEOREM ReadersOnLivingNodes == Spec => []ReaderOnLivingNodes
<1>1. IInv => ReaderOnLivingNodes
  <2>1. SUFFICES ASSUME IInv, NEW t \in Readers, walk[t] # <<>>
                 PROVE  Range(Follow(next[walk[t][1]], walk[t][2])) \subseteq Range(list[walk[t][1]])
    BY DEF ReaderOnLivingNodes
  <2>2. PICK m \in Maps, n \in Node : walk[t] = <<m, n>> /\ n \in Range(shown[m])
    BY <2>1 DEF IInv, AtShown
  <2> DEFINE l == shown[m]
             s == [rb |-> rb[m], next |-> next[m]]
             c == Follow(next[m], n)
  <2>3. DupFree(l) /\ LinkedDownTo(s, l, 0) /\ Range(l) \subseteq Range(list[m])
    BY <2>1 DEF IInv, ListsFit, ChainsFit
  <2>4. next[m] \in [Node -> NodeOrNone]
    BY <2>1 DEF IInv, TypeOK
  <2> HIDE DEF l
  <2>5. \A j \in 1..Len(l) : Links(next[m], l, j)
    BY <2>3, HashIsSeq DEF LinkedDownTo, DupFree
  <2>6. n.hash \in Bytes /\ IsPrefix(n.hash, n.hash)
    BY HashIsSeq DEF Bytes, IsPrefix
  <2>7. n \in Fit(l, n.hash)
    BY <2>2, <2>6 DEF Fit, l
  <2>8. Walks(c, l, n.hash, n)
    BY <2>3, <2>4, <2>5, <2>6, <2>7, FollowWalks
  <2> HIDE DEF c
  <2>9. Range(c) \subseteq Range(l)
    <3>1. c \in Seq(Node) /\ \A i \in 1..Len(c) : c[i] \in Range(l)
      BY <2>8 DEF Walks, Fit
    <3> QED
      BY <3>1 DEF Range
  <2>10. walk[t][1] = m /\ walk[t][2] = n
    BY <2>2
  <2> QED
    BY <2>3, <2>9, <2>10 DEF c
<1>2. QED
  BY <1>1, RangeMapInvariant, PTL

\* What a look-up in a map delivers, whether it exists or not.
Delivers(m, key) ==
  LET c == Follow(next[m], Found(m, key)) IN
  /\ c \in Seq(Node)
  /\ Range(c) = IF m \in made THEN Responsible(m, key) ELSE {}
  /\ \A i, j \in 1..Len(c) : i < j => c[i] # c[j] /\ Precedes(shown[m], c[i], c[j])
  /\ Found(m, key) = NoNode <=> c = <<>>

\* Look-ups deliver the responsible nodes.
LEMMA FindDelivers ==
  ASSUME IInv, NEW m \in Maps, NEW key \in Keys
  PROVE  Delivers(m, key)
<1> DEFINE l == shown[m]
           s == [rb |-> rb[m], next |-> next[m]]
           k == longest[m]
           x == Found(m, key)
           c == Follow(next[m], x)
<1>1. DupFree(l) /\ LinkedDownTo(s, l, 0) /\ k = LongestOf(rb[m])
  BY DEF IInv, ListsFit, ChainsFit
<1>2. next[m] \in [Node -> NodeOrNone] /\ rb[m] \in SUBSET Node
  BY DEF IInv, TypeOK
<1>3. rb[m] = Heads(l, Len(l)) /\ s.rb = rb[m] /\ s.next = next[m]
  BY <1>1 DEF LinkedDownTo
<1>4. CASE m \notin made
  <2>1. x = NoNode
    BY <1>4 DEF Found
  <2>2. c = <<>>
    BY <2>1, <1>2, FollowNone
  <2>3. Range(c) = {} /\ c \in Seq(Node) /\ Len(c) = 0
    BY <2>2 DEF Range
  <2> QED
    BY <2>1, <2>2, <2>3, <1>4 DEF Delivers
<1>5. CASE m \in made
  <2>1. x = ShortMatch(rb[m], key, k)
    BY <1>5 DEF Found
  <2>2. key \in Bytes /\ Len(key) \in Nat
    BY RangeMapAssumption DEF Bytes
  <2>3. /\ k \in Nat /\ \A n \in rb[m] : Len(n.hash) <= k
        /\ k = 0 \/ \E n \in rb[m] : k = Len(n.hash)
    <3>1. rb[m] \subseteq Range(l)
      BY <1>1, <1>3, HeadsListed
    <3> QED
      BY <3>1, <1>1, LongestIs
  <2>4. k <= Len(key)
    <3>1. \A n \in rb[m] : Len(n.hash) <= Len(key)
      BY <1>2, RangeMapAssumption DEF Node
    <3> QED
      BY <3>1, <2>2, <2>3
  <2>5. ASSUME NEW n \in Range(l) PROVE Len(n.hash) <= k
    <3>1. PICK j \in 1..Len(l) : n = l[j]
      BY <1>1 DEF Range, DupFree
    <3>2. Len(l) \in 0..Len(l)
      BY <1>1 DEF DupFree
    <3>3. PICK f \in 1..Len(l) : IsFirst(l, f) /\ l[f].hash = l[j].hash
      BY <1>1, <3>2, FirstExists
    <3>4. l[f] \in rb[m]
      BY <1>3, <3>3 DEF Heads
    <3> QED
      BY <3>1, <3>3, <3>4, <2>3
  <2> HIDE DEF l, s, k
  <2>6. /\ c \in Seq(Node) /\ Range(c) = Fit(l, key)
        /\ \A i, j \in 1..Len(c) : i < j => c[i] # c[j] /\ Precedes(l, c[i], c[j])
    <3>1. LET d == Follow(s.next, ShortMatch(s.rb, key, k)) IN
          /\ d \in Seq(Node) /\ Range(d) = Fit(l, key)
          /\ \A i, j \in 1..Len(d) : i < j => d[i] # d[j] /\ Precedes(l, d[i], d[j])
      BY <1>1, <2>2, <2>3, <2>4, <2>5, LookUpIs
    <3>2. c = Follow(s.next, ShortMatch(s.rb, key, k))
      BY <1>3, <2>1
    <3> HIDE DEF c
    <3> QED
      BY <3>1, <3>2
  <2>7. Fit(l, key) = Responsible(m, key)
    BY DEF Fit, Responsible, l
  <2>8. x = NoNode <=> c = <<>>
    <3>1. x = NoNode => c = <<>>
      BY <1>2, FollowNone
    <3>2. ASSUME x # NoNode PROVE c # <<>>
      <4>1. Nearest(x, l, key, k)
        BY <1>1, <1>3, <2>1, <2>2, <2>3, <2>4, ShortMatchIs
      <4>2. x \in Fit(l, key)
        <5>1. PICK f \in 1..Len(l) : x = l[f] /\ IsPrefix(l[f].hash, key)
          BY <4>1, <3>2 DEF Nearest
        <5> QED
          BY <5>1, <1>1 DEF Fit, Range, DupFree
      <4>3. Range(c) # {}
        BY <4>2, <2>6
      <4>4. Range(<<>>) = {}
        BY DEF Range
      <4> HIDE DEF c
      <4> QED
        BY <4>3, <4>4
    <3> QED
      BY <3>1, <3>2
  <2> QED
    BY <2>6, <2>7, <2>8, <1>5 DEF Delivers, l
<1>6. QED
  BY <1>4, <1>5

\* A look-up delivers the nodes responsible for the key when the map was last
\* flushed, all of them, in order and none twice (range_map_find_and_lock,
\* range_map_load, range_map_build_cross_depth_reference).
THEOREM LookupsAreExact == Spec => []LookupIsLongestPrefix
<1>1. IInv => LookupIsLongestPrefix
  <2>1. SUFFICES ASSUME IInv, NEW m \in made, NEW key \in Keys
                 PROVE  LET met == Follow(next[m], Found(m, key)) IN
                        /\ Range(met) = Responsible(m, key)
                        /\ \A i, j \in 1..Len(met) : i < j =>
                             met[i] # met[j] /\ Precedes(shown[m], met[i], met[j])
    BY DEF LookupIsLongestPrefix
  <2>2. m \in Maps
    BY <2>1 DEF IInv, TypeOK
  <2>3. Delivers(m, key)
    BY <2>1, <2>2, FindDelivers
  <2> QED
    BY <2>3 DEF Delivers
<1>2. QED
  BY <1>1, RangeMapInvariant, PTL

\* range_map_get_main_address stores the address of a main node with the longest
\* prefix among the responsible main nodes, and nothing only if there is none.
THEOREM MainAddressesAreNearest == Spec => []MainAddressIsNearest
<1>1. IInv => MainAddressIsNearest
  <2>1. SUFFICES ASSUME IInv, NEW m \in Maps, NEW key \in Keys
                 PROVE  LET got == GetMainAddress(m, key)
                            fit == IF m \in made THEN Responsible(m, key) ELSE {}
                            mains == {n \in fit : "main" \in flags[m][n]}
                        IN  /\ got.r = 0 /\ got.address = {} <=> fit = {}
                            /\ got.r = -1 <=> fit # {} /\ mains = {}
                            /\ got.address # {} => \E n \in mains :
                                 /\ got.address = {n.addr}
                                 /\ \A k \in mains : Len(k.hash) <= Len(n.hash)
    BY DEF MainAddressIsNearest
  <2> DEFINE c == Follow(next[m], Found(m, key))
             fit == IF m \in made THEN Responsible(m, key) ELSE {}
             mains == {n \in fit : "main" \in flags[m][n]}
             at == {i \in 1..Len(c) : "main" \in flags[m][c[i]]}
             got == GetMainAddress(m, key)
  <2>2. /\ c \in Seq(Node) /\ Range(c) = fit
        /\ \A i, j \in 1..Len(c) : i < j => Precedes(shown[m], c[i], c[j])
        /\ Found(m, key) = NoNode <=> c = <<>>
    BY <2>1, FindDelivers DEF Delivers
  <2>3. got = IF Found(m, key) = NoNode THEN [r |-> 0, address |-> {}]
              ELSE IF at = {} THEN [r |-> -1, address |-> {}]
              ELSE [r |-> 0, address |-> {c[Min(at)].addr}]
    BY DEF GetMainAddress
  <2> HIDE DEF c, got, fit
  <2>4. /\ Len(c) \in Nat /\ DOMAIN c = 1..Len(c) /\ c = <<>> <=> Len(c) = 0
        /\ \A i \in 1..Len(c) : c[i] \in Node /\ c[i] \in fit /\ Len(c[i].hash) \in Nat
        /\ \A n \in fit : \E i \in 1..Len(c) : n = c[i]
    BY <2>2, HashIsSeq DEF Range
  <2>5. fit = {} <=> c = <<>>
    BY <2>4
  <2>6. mains = {} <=> at = {}
    BY <2>4
  <2>7. CASE Found(m, key) = NoNode
    <3>1. got.r = 0 /\ got.address = {} /\ fit = {}
      BY <2>2, <2>3, <2>5, <2>7
    <3> QED
      BY <3>1 DEF got, fit
  <2>8. CASE Found(m, key) # NoNode /\ at = {}
    <3>1. got.r = -1 /\ got.address = {} /\ fit # {} /\ mains = {}
      BY <2>2, <2>3, <2>5, <2>6, <2>8
    <3> QED
      BY <3>1 DEF got, fit
  <2>9. CASE Found(m, key) # NoNode /\ at # {}
    <3> DEFINE a == Min(at)
    <3>1. a \in at /\ \A i \in at : a <= i
      <4>1. at \subseteq Nat
        OBVIOUS
      <4> HIDE DEF at
      <4> QED
        BY <4>1, <2>9, MinIs
    <3>2. got.r = 0 /\ got.address = {c[a].addr} /\ fit # {} /\ mains # {}
      BY <2>2, <2>3, <2>5, <2>6, <2>9
    <3> HIDE DEF a
    <3>3. c[a] \in mains /\ a \in 1..Len(c)
      BY <3>1, <2>4
    <3>4. ASSUME NEW k \in mains PROVE Len(k.hash) <= Len(c[a].hash)
      <4>1. PICK i \in 1..Len(c) : k = c[i]
        BY <2>4
      <4>2. i \in at /\ a <= i /\ a \in Nat
        <5>1. "main" \in flags[m][c[i]]
          BY <4>1
        <5>2. i \in at
          BY <5>1
        <5> HIDE DEF at, mains
        <5> QED
          BY <5>2, <3>1, <3>3
      <4>3. Len(c[i].hash) \in Nat /\ Len(c[a].hash) \in Nat
        BY <2>4, <3>3
      <4>4. CASE a = i
        BY <4>1, <4>3, <4>4
      <4>5. CASE a < i
        <5>1. Precedes(shown[m], c[a], c[i])
          BY <4>5, <3>3, <2>2
        <5> QED
          BY <5>1, <4>1, <4>3 DEF Precedes
      <4> QED
        BY <4>2, <4>4, <4>5
    <3>5. got.address # {} /\ \E n \in mains : /\ got.address = {n.addr}
                                              /\ \A k \in mains : Len(k.hash) <= Len(n.hash)
      BY <3>2, <3>3, <3>4
    <3>6. got.r # -1 /\ ~(got.r = 0 /\ got.address = {})
      BY <3>2, <3>5
    <3> QED
      BY <3>2, <3>5, <3>6 DEF got, fit
  <2> QED
    BY <2>7, <2>8, <2>9
<1>2. QED
  BY <1>1, RangeMapInvariant, PTL
=============================================================================
