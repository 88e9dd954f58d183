---------------------------- MODULE Libs_proofs -----------------------------
(* Theorems about the libraries that are state machines of their own: the      *)
(* deadlines of sessions, the filter for paths, the pages of folders and the   *)
(* parser of forms.                                                            *)
EXTENDS Deadlines, Listing, PathFilter, PostData, SequenceTheorems, WellFoundedInduction, TLAPS

----------------------------------------------------------------------------
(* Deadlines                                                               *)

\* A product with a positive number is no smaller than the other factor.
LEMMA ProductGrows ==
  ASSUME NEW m \in Nat, NEW d \in Int
  PROVE  /\ d >= 1 => d * m >= m
         /\ d <= -1 => d * m <= -m
<1>1. ASSUME d >= 1 PROVE d * m >= m
  <2>1. PICK k \in Nat : d = k + 1
    BY <1>1, d - 1 \in Nat
  <2>2. k * m \in Nat
    OBVIOUS
  <2>3. d * m = k * m + m
    BY <2>1
  <2>4. QED
    BY <2>2, <2>3
<1>2. ASSUME d <= -1 PROVE d * m <= -m
  <2>1. PICK k \in Nat : d = -(k + 1)
    BY <1>2, -d - 1 \in Nat
  <2>2. k * m \in Nat
    OBVIOUS
  <2>3. d * m = -(k * m) - m
    BY <2>1
  <2>4. QED
    BY <2>2, <2>3
<1>3. QED
  BY <1>1, <1>2

\* Seconds and microseconds compared one after the other are the elapsed time
\* compared with the timeout, but for milliseconds that fill a second.
LEMMA SecondsCompare ==
  ASSUME NEW m \in Nat, m > 1,
         NEW s \in Nat, NEW t \in Nat, NEW ns \in Nat,
         NEW w \in 0 .. m - 1, NEW n \in 0 .. m - 1, NEW ms \in Nat
  PROVE  LET e == (ns - s) * m + n - w
             passed == ns > s + t \/ (ns = s + t /\ n > w + ms)
         IN  /\ passed /\ ms = 0 => e > t * m
             /\ e > t * m + ms => passed
<1> DEFINE d == ns - (s + t)
<1>1. d \in Int /\ ns - s = d + t
  OBVIOUS
<1> DEFINE p == d * m
           q == t * m
<1>2. p \in Int /\ q \in Int /\ (d >= 1 => p >= m) /\ (d <= -1 => p <= -m)
  BY <1>1, ProductGrows
<1>3. (ns - s) * m = p + q
  BY <1>1
<1>4. d = 0 => p = 0
  OBVIOUS
<1>5. ns > s + t <=> d >= 1
  BY <1>1
<1>6. ns = s + t <=> d = 0
  BY <1>1
<1>7. d >= 1 \/ d = 0 \/ d <= -1
  BY <1>1
<1> DEFINE x == (ns - s) * m
<1>8. x = p + q
  BY <1>3
<1> HIDE DEF x, p, q, d
<1>9. ASSUME d >= 1 \/ (d = 0 /\ n > w + ms), ms = 0 PROVE x + n - w > q
  BY <1>2, <1>4, <1>8, <1>9
<1>10. ASSUME x + n - w > q + ms PROVE d >= 1 \/ (d = 0 /\ n > w + ms)
  BY <1>2, <1>4, <1>7, <1>8, <1>10
<1>11. QED
  BY <1>5, <1>6, <1>9, <1>10 DEF x, q

ClockType ==
  /\ wound \in Nat \X (0 .. Micro - 1) /\ now \in Nat \X (0 .. Micro - 1)
  /\ timeout \in Timeouts

\* The clock keeps its type.
LEMMA ClockTypes == ClockInit => ClockType
  BY DeadlinesAssumption DEF ClockInit, ClockType

\* And does so when it ticks.
LEMMA TickTypes == ClockType /\ [Tick]_clockVars => ClockType'
<1> SUFFICES ASSUME ClockType, [Tick]_clockVars PROVE ClockType'
  OBVIOUS
<1>1. CASE UNCHANGED clockVars
  BY <1>1 DEF ClockType, clockVars
<1>2. CASE Tick
  BY <1>2, DeadlinesAssumption DEF ClockType, Tick
<1>3. QED
  BY <1>1, <1>2

\* Timeouts are compared with the time that has passed.
LEMMA TypesKeepSeconds == ClockType => SecondsAreKept
<1> SUFFICES ASSUME ClockType PROVE SecondsAreKept
  OBVIOUS
<1>1. timeout[1] \in Nat /\ timeout[2] \in Nat
  BY DeadlinesAssumption DEF ClockType
<1>2. wound[1] \in Nat /\ wound[2] \in 0 .. Micro - 1 /\ now[1] \in Nat /\ now[2] \in 0 .. Micro - 1
  BY DEF ClockType
<1>3. QED
  <2> DEFINE m == Micro
             s == wound[1]
             w == wound[2]
             ns == now[1]
             n == now[2]
             t == timeout[1]
             ms == timeout[2]
  <2>1. /\ m \in Nat /\ m > 1 /\ s \in Nat /\ t \in Nat /\ ns \in Nat /\ ms \in Nat
        /\ w \in 0 .. m - 1 /\ n \in 0 .. m - 1
    BY <1>1, <1>2, DeadlinesAssumption
  <2> HIDE DEF m, s, w, ns, n, t, ms
  <2>2. /\ (ns > s + t \/ (ns = s + t /\ n > w + ms)) /\ ms = 0 => (ns - s) * m + n - w > t * m
        /\ (ns - s) * m + n - w > t * m + ms => ns > s + t \/ (ns = s + t /\ n > w + ms)
    BY <2>1, SecondsCompare
  <2>3. QED
    BY <2>2 DEF SecondsAreKept, Passed, Elapsed, m, s, w, ns, n, t, ms

\* Every interval is a valid number of nanoseconds, that of 5000 milliseconds with
\* its overflow included.
LEMMA TypesKeepWaits == ClockType => WaitIsValid
<1> SUFFICES ASSUME ClockType PROVE WaitIsValid
  OBVIOUS
<1>1. timeout[1] \in Nat /\ timeout[2] \in Nat /\ (timeout[1] # 0 \/ timeout[2] # 0)
  BY DeadlinesAssumption DEF ClockType
<1> DEFINE s == timeout[1]
           ms == timeout[2]
<1>2. s >= 10 \/ s \in 1 .. 9 \/ (s = 0 /\ ms >= 100) \/ (s = 0 /\ ms \in 1 .. 99)
  BY <1>1
<1>3. Interval(timeout) \in {5000, 500, 50, 5}
  BY <1>1, <1>2, SMT DEF Interval
<1>4. Wait(5000) = 705032704 /\ Wait(500) = 500000000 /\ Wait(50) = 50000000 /\ Wait(5) = 5000000
  BY SMT DEF Wait
<1>5. ASSUME NEW i \in {5000, 500, 50, 5}
      PROVE  0 < Wait(i) /\ Wait(i) < 1000000000 /\ Wait(i) \div 1000000 <= i
  BY <1>4, SMT
<1>6. QED
  BY <1>3, <1>5, SMT DEF WaitIsValid

\* esq_session_timing never takes a timeout of whole seconds for passed too early nor
\* misses one, at any microsecond, and the wait of the worker is valid.
THEOREM DeadlinesTheorem == ClockSpec => []DeadlinesAreKept
<1>1. ClockType => DeadlinesAreKept
  BY TypesKeepSeconds, TypesKeepWaits DEF DeadlinesAreKept
<1>2. QED
  BY <1>1, ClockTypes, TickTypes, PTL DEF ClockSpec

----------------------------------------------------------------------------
(* The filter                                                              *)

\* What was added stays in the filter.
LEMMA FilterStep == NoFalseNegative /\ [AddToFilter]_filterVars => NoFalseNegative'
<1> SUFFICES ASSUME NoFalseNegative, [AddToFilter]_filterVars PROVE NoFalseNegative'
  OBVIOUS
<1>1. CASE UNCHANGED filterVars
  BY <1>1 DEF NoFalseNegative, CheckExist, filterVars
<1>2. ASSUME NEW q \in FilterPaths, AddPath(q) PROVE NoFalseNegative'
  <2> SUFFICES ASSUME NEW p \in added', p # <<>>, NEW i \in 0 .. 2
               PROVE  <<i, BitSeen(Hash(i, p))>> \in bloom'
    BY DEF NoFalseNegative, CheckExist
  <2>1. CASE p = q
    BY <1>2, <2>1 DEF AddPath, BitSet, BitSeen
  <2>2. CASE p \in added
    BY <1>2, <2>2 DEF AddPath, NoFalseNegative, CheckExist
  <2>3. QED
    BY <1>2, <2>1, <2>2 DEF AddPath
<1>3. QED
  BY <1>1, <1>2 DEF AddToFilter

\* The filter has no false negative, whatever the three hashes are.
THEOREM FilterTheorem == FilterSpec => []NoFalseNegative
<1>1. FilterInit => NoFalseNegative
  BY DEF FilterInit, NoFalseNegative
<1>2. QED
  BY <1>1, FilterStep, PTL DEF FilterSpec

----------------------------------------------------------------------------
(* Pages of folders: lists built by recursion                              *)

\* A set of naturals that is not empty has a least element.
LEMMA Least ==
  ASSUME NEW T, T \subseteq Nat, T # {}
  PROVE  \E x \in T : \A y \in T : x <= y
<1> DEFINE R == {p \in Nat \X Nat : p[1] < p[2]}
<1>1. IsWellFoundedOn(R, Nat)
  BY NatLessThanWellFounded DEF OpToRel
<1>2. \E x \in T : \A y \in T : ~ (<<y, x>> \in R)
  BY <1>1, WFMin
<1>3. PICK x \in T : \A y \in T : ~ (<<y, x>> \in R)
  BY <1>2
<1>4. ASSUME NEW y \in T PROVE x <= y
  <2>1. x \in Nat /\ y \in Nat
    OBVIOUS
  <2>2. ~(<<y, x>> \in R)
    BY <1>3
  <2>3. <<y, x>> \in Nat \X Nat
    BY <2>1
  <2>4. ~(<<y, x>>[1] < <<y, x>>[2])
    BY <2>2, <2>3
  <2> QED
    BY <2>1, <2>4
<1>5. QED
  BY <1>4

\* The equations of a recursion over 0..n, up to a bound.
Unfolds(g, S, base, step, n) ==
  /\ g \in [0..n -> S]
  /\ g[0] = base
  /\ \A i \in 1..n : g[i] = step[<<g[i - 1], i>>]

\* Recursion over 0..n has a solution.
LEMMA Recursion ==
  ASSUME NEW N \in Nat, NEW S, NEW base \in S, NEW step \in [S \X (1..N) -> S]
  PROVE  \E g : Unfolds(g, S, base, step, N)
<1> DEFINE Bad == {n \in 0..N : ~ \E g : Unfolds(g, S, base, step, n)}
<1>0. N \in 0..N /\ Bad \subseteq Nat
  OBVIOUS
<1>1. SUFFICES ASSUME Bad # {} PROVE FALSE
  BY <1>0
<1>a. \E n \in Bad : \A y \in Bad : n <= y
  <2> HIDE DEF Bad
  <2> QED
    BY <1>0, <1>1, Least
<1>2. PICK n \in Bad : \A y \in Bad : n <= y
  BY <1>a
<1>3. n \in 0..N /\ ~ \E g : Unfolds(g, S, base, step, n)
  OBVIOUS
<1>4. n # 0
  <2> DEFINE g == [i \in 0..0 |-> base]
  <2>1. Unfolds(g, S, base, step, 0)
    BY DEF Unfolds
  <2> QED
    BY <2>1, <1>3
<1>5. n - 1 \in 0..N /\ n - 1 \notin Bad
  BY <1>2, <1>3, <1>4
<1>6. PICK g : Unfolds(g, S, base, step, n - 1)
  BY <1>5
<1>7. n \in 1..N /\ n - 1 \in Nat /\ n \in Nat
  BY <1>3, <1>4
<1>8. g[n - 1] \in S
  BY <1>6, <1>7 DEF Unfolds
<1> DEFINE h == [i \in 0..n |-> IF i = n THEN step[<<g[n - 1], n>>] ELSE g[i]]
<1>9. <<g[n - 1], n>> \in S \X (1..N)
  BY <1>7, <1>8
<1>10. step[<<g[n - 1], n>>] \in S
  BY <1>9
<1>11. \A i \in 0..n : h[i] = IF i = n THEN step[<<g[n - 1], n>>] ELSE g[i]
  OBVIOUS
<1>12. \A i \in 0..n : i # n => i \in 0..(n - 1)
  BY <1>7
<1>13. g \in [0..(n-1) -> S] /\ g[0] = base /\ \A i \in 1..(n-1) : g[i] = step[<<g[i - 1], i>>]
  BY <1>6 DEF Unfolds
<1>14. \A i \in 0..n : h[i] \in S
  BY <1>10, <1>11, <1>12, <1>13
<1>15. h \in [0..n -> S]
  BY <1>14
<1>16. h[0] = base
  BY <1>11, <1>13, <1>7, <1>4
<1>17. ASSUME NEW i \in 1..n PROVE h[i] = step[<<h[i - 1], i>>]
  <2>1. i - 1 \in 0..n /\ i \in 0..n /\ i - 1 # n /\ h[i - 1] = g[i - 1]
    BY <1>11, <1>7
  <2>2. CASE i = n
    BY <2>1, <2>2, <1>11
  <2>3. CASE i # n
    <3>1. i \in 1..(n - 1)
      BY <2>3, <1>7
    <3> QED
      BY <2>1, <2>3, <3>1, <1>11, <1>13
  <2> QED
    BY <2>2, <2>3
<1>18. Unfolds(h, S, base, step, n)
  BY <1>15, <1>16, <1>17 DEF Unfolds
<1>19. QED
  BY <1>18, <1>3

\* Induction up to a bound, over a set instead of a predicate.
LEMMA UpTo ==
  ASSUME NEW N \in Nat, NEW G, 0 \in G, \A i \in 1..N : i - 1 \in G => i \in G
  PROVE  \A i \in 0..N : i \in G
<1> DEFINE Bad == {i \in 0..N : i \notin G}
<1>1. SUFFICES ASSUME Bad # {} PROVE FALSE
  OBVIOUS
<1>2. Bad \subseteq Nat
  OBVIOUS
<1>3. \E i \in Bad : \A y \in Bad : i <= y
  <2> HIDE DEF Bad
  <2> QED
    BY <1>1, <1>2, Least
<1>4. PICK i \in Bad : \A y \in Bad : i <= y
  BY <1>3
<1>5. i # 0 /\ i \in 0..N
  OBVIOUS
<1>6. i \in 1..N /\ i - 1 \in 0..N /\ ~(i <= i - 1)
  BY <1>5
<1>7. i - 1 \in G
  BY <1>4, <1>6
<1>8. QED
  BY <1>4, <1>6, <1>7

\* The equations of the names picked from a folder.
LEMMA PickedIs ==
  ASSUME NEW f \in Seq(Entries), NEW kind
  PROVE  LET p == Picked(f, kind) IN
         /\ p \in [0 .. Len(f) -> Seq(FolderNames)] /\ p[0] = <<>>
         /\ \A k \in 1 .. Len(f) : p[k] = IF f[k].kind = kind THEN Append(p[k - 1], f[k].name) ELSE p[k - 1]
<1> DEFINE N == Len(f)
           S == Seq(FolderNames)
           One(s, x) == IF x.kind = kind THEN Append(s, x.name) ELSE s
           step == [q \in S \X (1 .. N) |-> One(q[1], f[q[2]])]
           Eq(g) == g = [k \in 0 .. Len(f) |->
                          IF k = 0 THEN <<>>
                          ELSE IF f[k].kind = kind THEN Append(g[k - 1], f[k].name) ELSE g[k - 1]]
<1>0. N \in Nat /\ \A i \in 1 .. N : f[i] \in Entries
  OBVIOUS
<1>a. \A x \in Entries : x.name \in FolderNames
  BY DEF Entries
<1>1. N \in Nat /\ \A i \in 1 .. N : f[i] \in Entries /\ f[i].name \in FolderNames
  BY <1>0, <1>a
<1>2. \A s \in S, x \in Entries : One(s, x) \in S
  BY DEF Entries
<1>3. step \in [S \X (1 .. N) -> S]
  BY <1>1, <1>2
<1>4. PICK g : Unfolds(g, S, <<>>, step, N)
  <2>1. <<>> \in S
    OBVIOUS
  <2> HIDE DEF N, step, S
  <2> QED
    BY <1>1, <1>3, <2>1, Recursion
<1>5. g \in [0 .. N -> S] /\ g[0] = <<>>
  BY <1>4 DEF Unfolds
<1>6. ASSUME NEW k \in 1 .. N PROVE g[k] = One(g[k - 1], f[k])
  <2>1. g[k] = step[<<g[k - 1], k>>]
    BY <1>4 DEF Unfolds
  <2>2. k - 1 \in 0 .. N
    BY <1>1
  <2>3. <<g[k - 1], k>> \in S \X (1 .. N)
    BY <1>5, <2>2
  <2> QED
    BY <2>1, <2>3
<1>7. Eq(g)
  <2> DEFINE h == [k \in 0 .. N |->
                     IF k = 0 THEN <<>>
                     ELSE IF f[k].kind = kind THEN Append(g[k - 1], f[k].name) ELSE g[k - 1]]
  <2>1. \A k \in 0 .. N : k # 0 => k \in 1 .. N
    BY <1>1
  <2>2. \A k \in 0 .. N : g[k] = h[k]
    BY <1>5, <1>6, <2>1
  <2> QED
    BY <2>2, <1>5
<1> DEFINE p == CHOOSE p : Eq(p)
<1>8. Picked(f, kind) = p
  BY DEF Picked
<1>9. Eq(p)
  BY <1>7
<1> HIDE DEF p
<1>10. p[0] = <<>> /\ \A i \in 1 .. N : p[i] = One(p[i - 1], f[i])
  <2>1. \A i \in 0 .. N : p[i] = IF i = 0 THEN <<>> ELSE One(p[i - 1], f[i])
    BY <1>9
  <2>2. 0 \in 0 .. N /\ \A i \in 1 .. N : i \in 0 .. N /\ i # 0
    BY <1>1
  <2> HIDE DEF One
  <2> QED
    BY <2>1, <2>2
<1> DEFINE G == {i \in 0 .. N : p[i] \in S}
<1>11. 0 \in G
  <2>1. <<>> \in S
    OBVIOUS
  <2>2. p[0] \in S /\ 0 \in 0 .. N
    BY <2>1, <1>1, <1>10
  <2> HIDE DEF S
  <2> QED
    BY <2>2
<1>12. ASSUME NEW i \in 1 .. N, i - 1 \in G PROVE i \in G
  <2>1. p[i - 1] \in S
    BY <1>12
  <2>2. One(p[i - 1], f[i]) \in S
    BY <2>1, <1>1, <1>2
  <2> HIDE DEF One, S
  <2> QED
    BY <2>2, <1>1, <1>10
<1>13. \A i \in 0 .. N : i \in G
  <2> HIDE DEF G, N
  <2> QED
    BY <1>1, <1>11, <1>12, UpTo
<1>14. p \in [0 .. N -> S]
  <2>1. DOMAIN p = 0 .. N /\ p = [i \in 0 .. N |-> p[i]]
    BY <1>9
  <2> QED
    BY <2>1, <1>13
<1>15. QED
  BY <1>8, <1>10, <1>14

\* A sequence begins another one.
Begins(s, t) == Len(s) <= Len(t) /\ \A x \in 1 .. Len(s) : s[x] = t[x]

\* What was picked from the first entries begins what is picked from more of them.
LEMMA PickedGrows ==
  ASSUME NEW f \in Seq(Entries), NEW kind, NEW i \in 0 .. Len(f), NEW j \in 0 .. Len(f), i <= j
  PROVE  Begins(Picked(f, kind)[i], Picked(f, kind)[j])
<1> DEFINE p == Picked(f, kind)
           N == Len(f)
<1>1. /\ N \in Nat
      /\ p \in [0 .. N -> Seq(FolderNames)] /\ p[0] = <<>>
      /\ \A k \in 1 .. N : p[k] = IF f[k].kind = kind THEN Append(p[k - 1], f[k].name) ELSE p[k - 1]
  BY PickedIs
<1> HIDE DEF p
<1> DEFINE G == {k \in 0 .. N : k < i \/ Begins(p[i], p[k])}
<1>2. ASSUME NEW k \in 0 .. N PROVE p[k] \in Seq(FolderNames) /\ Len(p[k]) \in Nat
  BY <1>1
<1>3. Begins(p[i], p[i])
  BY <1>2 DEF Begins
<1>4. ASSUME NEW k \in 1 .. N, k - 1 \in G PROVE k \in G
  <2>1. k \in 0 .. N /\ k - 1 \in 0 .. N
    BY <1>1
  <2>2. CASE k < i
    BY <2>1, <2>2
  <2>3. CASE k = i
    BY <2>1, <2>3, <1>3
  <2>4. CASE k > i
    <3>1. Begins(p[i], p[k - 1])
      BY <1>4, <2>4
    <3> DEFINE c == p[k - 1]
               a == p[i]
               m == f[k].name
               b == Append(c, m)
    <3>2. c \in Seq(FolderNames) /\ a \in Seq(FolderNames) /\ Len(c) \in Nat /\ Len(a) \in Nat
      BY <1>2, <2>1
    <3>3. p[k] = Append(c, f[k].name) \/ p[k] = c
      BY <1>1
    <3>a. Begins(a, c)
      BY <3>1
    <3>b. m \in FolderNames
      <4>1. f[k] \in Entries
        OBVIOUS
      <4> QED
        BY <4>1 DEF Entries
    <3> HIDE DEF a, c, m
    <3>c. Len(b) = Len(c) + 1 /\ \A x \in 1 .. Len(c) : b[x] = c[x]
      BY <3>2, <3>b
    <3> HIDE DEF b
    <3>4. Begins(a, b)
      BY <3>2, <3>a, <3>c DEF Begins
    <3>5. Begins(a, p[k])
      BY <3>3, <3>4, <3>a DEF b, m
    <3> QED
      BY <2>1, <3>5 DEF a
  <2> QED
    BY <2>2, <2>3, <2>4
<1>5. 0 \in G
  <2>1. i = 0 => Begins(p[i], p[0])
    BY <1>3
  <2> QED
    BY <2>1, <1>1
<1>6. \A k \in 0 .. N : k \in G
  <2> HIDE DEF G, N
  <2> QED
    BY <1>1, <1>4, <1>5, UpTo
<1>7. j \in G
  BY <1>6
<1>8. QED
  BY <1>7 DEF p

\* Of k entries no more than k are picked, and an entry is not picked twice.
LEMMA PickedFew ==
  ASSUME NEW f \in Seq(Entries), NEW k \in 0 .. Len(f)
  PROVE  Len(Picked(f, "dir")[k]) + Len(Picked(f, "file")[k]) <= k
<1> DEFINE d == Picked(f, "dir")
           e == Picked(f, "file")
           N == Len(f)
<1>1. /\ N \in Nat
      /\ d \in [0 .. N -> Seq(FolderNames)] /\ d[0] = <<>>
      /\ \A i \in 1 .. N : d[i] = IF f[i].kind = "dir" THEN Append(d[i - 1], f[i].name) ELSE d[i - 1]
  BY PickedIs
<1>2. /\ e \in [0 .. N -> Seq(FolderNames)] /\ e[0] = <<>>
      /\ \A i \in 1 .. N : e[i] = IF f[i].kind = "file" THEN Append(e[i - 1], f[i].name) ELSE e[i - 1]
  BY PickedIs
<1> HIDE DEF d, e
<1>a. N \in Nat
  OBVIOUS
<1>b. \A i \in 0 .. N : Len(d[i]) \in Nat /\ Len(e[i]) \in Nat
  BY <1>1, <1>2
<1> DEFINE G == {i \in 0 .. N : Len(d[i]) + Len(e[i]) <= i}
<1>3. 0 \in G
  BY <1>1, <1>2
<1>4. ASSUME NEW i \in 1 .. N, i - 1 \in G PROVE i \in G
  <2> DEFINE x == f[i].name
  <2>1. i \in 0 .. N /\ i - 1 \in 0 .. N
    BY <1>a
  <2>2. d[i - 1] \in Seq(FolderNames) /\ e[i - 1] \in Seq(FolderNames)
    BY <1>1, <1>2, <2>1
  <2>3. x \in FolderNames
    <3>1. f[i] \in Entries
      OBVIOUS
    <3> QED
      BY <3>1 DEF Entries
  <2>4. d[i] = (IF f[i].kind = "dir" THEN Append(d[i - 1], x) ELSE d[i - 1])
    BY <1>1
  <2>5. e[i] = (IF f[i].kind = "file" THEN Append(e[i - 1], x) ELSE e[i - 1])
    BY <1>2
  <2> HIDE DEF x
  <2>6. Len(Append(d[i - 1], x)) = Len(d[i - 1]) + 1 /\ Len(Append(e[i - 1], x)) = Len(e[i - 1]) + 1
    BY <2>2, <2>3
  <2> DEFINE u == Len(d[i - 1])
             v == Len(e[i - 1])
             u1 == Len(d[i])
             v1 == Len(e[i])
  <2>7. (u1 = u + 1 /\ v1 = v) \/ (u1 = u /\ v1 = v + 1) \/ (u1 = u /\ v1 = v)
    BY <2>4, <2>5, <2>6
  <2>8. u \in Nat /\ v \in Nat /\ u + v <= i - 1
    BY <1>4, <1>b, <2>1
  <2> HIDE DEF u, v, u1, v1
  <2>9. u1 + v1 <= i
    BY <2>7, <2>8
  <2> QED
    BY <2>1, <2>9 DEF u1, v1
<1>5. \A i \in 0 .. N : i \in G
  <2> HIDE DEF G, N
  <2> QED
    BY <1>1, <1>3, <1>4, UpTo
<1>6. QED
  BY <1>5 DEF d, e

\* Beginnings of sequences.
LEMMA BeginsFacts ==
  ASSUME NEW S, NEW s \in Seq(S), NEW t \in Seq(S), NEW u \in Seq(S)
  PROVE  /\ Begins(s, s) /\ Begins(s, s \o t) /\ Begins(<<>>, s)
         /\ Begins(s, t) => Begins(u \o s, u \o t)
         /\ Begins(s, t) /\ Begins(t, u) => Begins(s, u)
<1>1. Len(s) \in Nat /\ Len(t) \in Nat /\ Len(u) \in Nat
  OBVIOUS
<1>2. Begins(s, s) /\ Begins(<<>>, s)
  BY <1>1 DEF Begins
<1>3. Begins(s, s \o t)
  BY <1>1 DEF Begins
<1>4. ASSUME Begins(s, t) PROVE Begins(u \o s, u \o t)
  <2>1. Len(u \o s) = Len(u) + Len(s) /\ Len(u \o t) = Len(u) + Len(t)
    OBVIOUS
  <2>2. Len(s) <= Len(t) /\ \A x \in 1 .. Len(s) : s[x] = t[x]
    BY <1>4 DEF Begins
  <2>3. ASSUME NEW x \in 1 .. Len(u) + Len(s) PROVE (u \o s)[x] = (u \o t)[x]
    <3>1. CASE x <= Len(u)
      BY <1>1, <2>2, <3>1
    <3>2. CASE x > Len(u)
      <4>1. x - Len(u) \in 1 .. Len(s) /\ x - Len(u) \in 1 .. Len(t) /\ x \in 1 .. Len(u) + Len(t)
        BY <1>1, <2>2, <3>2
      <4>2. (u \o s)[x] = s[x - Len(u)] /\ (u \o t)[x] = t[x - Len(u)]
        BY <1>1, <3>2, <4>1
      <4> QED
        BY <2>2, <4>1, <4>2
    <3>3. x <= Len(u) \/ x > Len(u)
      BY <1>1
    <3> QED
      BY <3>1, <3>2, <3>3
  <2> QED
    BY <1>1, <2>1, <2>2, <2>3 DEF Begins
<1>5. ASSUME Begins(s, t), Begins(t, u) PROVE Begins(s, u)
  <2>1. \A x \in 1 .. Len(s) : x \in 1 .. Len(t)
    BY <1>1, <1>5 DEF Begins
  <2> QED
    BY <1>1, <1>5, <2>1 DEF Begins
<1>6. QED
  BY <1>2, <1>3, <1>4, <1>5

\* Appending to the end of two sequences.
LEMMA AppendBehind ==
  ASSUME NEW S, NEW s \in Seq(S), NEW t \in Seq(S), NEW x \in S
  PROVE  s \o Append(t, x) = Append(s \o t, x) /\ s \o <<>> = s /\ s \o <<x>> = Append(s, x)
<1>1. Len(s) \in Nat /\ Len(t) \in Nat
  OBVIOUS
<1>2. s \o <<>> = s
  BY ConcatEmptySeq
<1>3. s \o <<x>> = Append(s, x)
  OBVIOUS
<1>4. s \o Append(t, x) = Append(s \o t, x)
  <2> DEFINE a == s \o Append(t, x)
             b == Append(s \o t, x)
  <2>1. a \in Seq(S) /\ b \in Seq(S) /\ Len(a) = Len(s) + Len(t) + 1 /\ Len(b) = Len(s) + Len(t) + 1
    BY <1>1
  <2>2. ASSUME NEW i \in 1 .. Len(s) + Len(t) + 1 PROVE a[i] = b[i]
    <3>1. CASE i <= Len(s)
      BY <1>1, <3>1
    <3>2. CASE i > Len(s) /\ i <= Len(s) + Len(t)
      BY <1>1, <3>2
    <3>3. CASE i = Len(s) + Len(t) + 1
      BY <1>1, <3>3
    <3> QED
      BY <1>1, <3>1, <3>2, <3>3
  <2> HIDE DEF a, b
  <2>3. a = b
    BY <2>1, <2>2, SeqEqual
  <2> QED
    BY <2>3 DEF a, b
<1>5. QED
  BY <1>2, <1>3, <1>4

\* What a page is made of.
Shown == FolderNames \cup {Piece("head"), Piece("upper"), Piece("tail")}

Stats == {"HEAD", "GO_UPPER", "DIR", "DIR_CONT", "FILE", "FILE_CONT", "TAIL", "FINISHED"}

Opening(up) == <<Piece("head")>> \o (IF up THEN <<Piece("upper")>> ELSE <<>>)
Dirs(f, up, k) == Opening(up) \o Picked(f, "dir")[k]
Files(f, up, k) == Dirs(f, up, Len(f)) \o Picked(f, "file")[k]

\* What has been put out, at each place of the automaton.
Due(f, up, st, k) ==
  CASE st = "HEAD" -> <<>>
    [] st = "GO_UPPER" -> <<Piece("head")>>
    [] st = "DIR" -> Dirs(f, up, k)
    [] st = "DIR_CONT" -> Dirs(f, up, k - 1)
    [] st = "FILE" -> Files(f, up, k)
    [] st = "FILE_CONT" -> Files(f, up, k - 1)
    [] st = "TAIL" -> Files(f, up, Len(f))
    [] st = "FINISHED" -> Files(f, up, Len(f)) \o <<Piece("tail")>>

\* One entry more: it is put out if it is of the kind.
LEMMA OneMore ==
  ASSUME NEW f \in Seq(Entries), NEW kind, NEW base \in Seq(Shown), NEW k \in 1 .. Len(f)
  PROVE  /\ f[k].kind = kind => base \o Picked(f, kind)[k] = Append(base \o Picked(f, kind)[k - 1], f[k].name)
         /\ f[k].kind # kind => base \o Picked(f, kind)[k] = base \o Picked(f, kind)[k - 1]
<1> DEFINE p == Picked(f, kind)
           x == f[k].name
<1>1. /\ p \in [0 .. Len(f) -> Seq(FolderNames)]
      /\ p[k] = IF f[k].kind = kind THEN Append(p[k - 1], x) ELSE p[k - 1]
  BY PickedIs
<1>2. k - 1 \in 0 .. Len(f)
  OBVIOUS
<1>3. f[k] \in Entries
  OBVIOUS
<1>4. x \in Shown
  BY <1>3 DEF Entries, Shown
<1> HIDE DEF p, x
<1> DEFINE c == p[k - 1]
<1>5. c \in Seq(FolderNames)
  BY <1>1, <1>2
<1>6. c \in Seq(Shown)
  <2>1. FolderNames \subseteq Shown
    BY DEF Shown
  <2> QED
    BY <1>5, <2>1
<1> HIDE DEF c
<1>7. base \o Append(c, x) = Append(base \o c, x)
  BY <1>4, <1>6, AppendBehind
<1>8. CASE f[k].kind = kind
  BY <1>1, <1>7, <1>8 DEF c, p, x
<1>9. CASE f[k].kind # kind
  BY <1>1, <1>9 DEF c, p, x
<1>10. QED
  BY <1>8, <1>9

\* All of these are sequences of pieces.
LEMMA PartsType ==
  ASSUME NEW f \in Seq(Entries), NEW up \in BOOLEAN, NEW k \in 0 .. Len(f)
  PROVE  /\ Opening(up) \in Seq(Shown) /\ Dirs(f, up, k) \in Seq(Shown) /\ Files(f, up, k) \in Seq(Shown)
         /\ Picked(f, "dir")[k] \in Seq(Shown) /\ Picked(f, "file")[k] \in Seq(Shown)
         /\ Dirs(f, up, 0) = Opening(up) /\ Files(f, up, 0) = Dirs(f, up, Len(f))
<1>1. FolderNames \subseteq Shown
  BY DEF Shown
<1>2. \A s \in Seq(FolderNames) : s \in Seq(Shown)
  BY <1>1
<1>3. Len(f) \in 0 .. Len(f) /\ 0 \in 0 .. Len(f)
  OBVIOUS
<1>4. ASSUME NEW i \in 0 .. Len(f) PROVE Picked(f, "dir")[i] \in Seq(Shown) /\ Picked(f, "file")[i] \in Seq(Shown)
  <2>1. Picked(f, "dir")[i] \in Seq(FolderNames)
    BY PickedIs
  <2>2. Picked(f, "file")[i] \in Seq(FolderNames)
    BY PickedIs
  <2> QED
    BY <1>2, <2>1, <2>2
<1>5. Picked(f, "dir")[0] = <<>>
  BY PickedIs
<1>6. Picked(f, "file")[0] = <<>>
  BY PickedIs
<1>7. Opening(up) \in Seq(Shown)
  <2>1. Piece("head") \in Shown /\ Piece("upper") \in Shown
    BY DEF Shown
  <2> QED
    BY <2>1 DEF Opening
<1>8. ASSUME NEW s \in Seq(Shown), NEW t \in Seq(Shown) PROVE s \o t \in Seq(Shown)
  OBVIOUS
<1>9. Dirs(f, up, k) \in Seq(Shown) /\ Dirs(f, up, Len(f)) \in Seq(Shown)
  BY <1>3, <1>4, <1>7, <1>8 DEF Dirs
<1>10. Files(f, up, k) \in Seq(Shown)
  BY <1>4, <1>8, <1>9 DEF Files
<1>11. Dirs(f, up, 0) = Opening(up)
  BY <1>5, <1>7, ConcatEmptySeq DEF Dirs
<1>12. Files(f, up, 0) = Dirs(f, up, Len(f))
  BY <1>6, <1>9, ConcatEmptySeq DEF Files
<1>13. QED
  BY <1>4, <1>7, <1>9, <1>10, <1>11, <1>12

\* How many entries have been put out.
Entered(f, st, k) ==
  CASE st \in {"HEAD", "GO_UPPER"} -> 0
    [] st = "DIR" -> Len(Picked(f, "dir")[k])
    [] st = "DIR_CONT" -> Len(Picked(f, "dir")[k - 1])
    [] st = "FILE" -> Len(Picked(f, "dir")[Len(f)]) + Len(Picked(f, "file")[k])
    [] st = "FILE_CONT" -> Len(Picked(f, "dir")[Len(f)]) + Len(Picked(f, "file")[k - 1])
    [] OTHER -> Len(Picked(f, "dir")[Len(f)]) + Len(Picked(f, "file")[Len(f)])

ListTypes ==
  /\ folder \in Seq(Entries) /\ upper \in BOOLEAN /\ full \in Nat /\ taken \in Nat
  /\ stat \in Stats /\ pos \in 0 .. Len(folder)
  /\ page \in Seq(Shown) /\ buf \in Seq(Shown) /\ room \in Int /\ eof \in BOOLEAN

\* Where the automaton stands in the folder.
Places ==
  /\ stat \in {"HEAD", "GO_UPPER"} => pos = 0
  /\ stat = "DIR_CONT" => pos > 0 /\ folder[pos].kind = "dir"
  /\ stat = "FILE_CONT" => pos > 0 /\ folder[pos].kind = "file"
  /\ room < 0 => buf = <<>>
  /\ ~eof /\ room < 0 => stat \in {"HEAD", "DIR_CONT", "FILE_CONT"}

\* The page and the buffer together are what is due.
PageIsDue ==
  /\ Begins(page, Due(folder, upper, stat, pos))
  /\ ~eof => page \o buf = Due(folder, upper, stat, pos)
  /\ eof /\ stat = "FINISHED" => page = Due(folder, upper, stat, pos)

\* What nghttp2 has to offer for a page that is not cut off.
Enough ==
  /\ full > Len(folder) /\ 2 * PieceSize < BufSize
  /\ \A i \in 1 .. Len(folder) : folder[i].size < BufSize

\* With that each buffer takes an entry at least.
Buffers ==
  /\ eof => stat \in {"FINISHED", "TAIL"}
  /\ ~eof /\ stat = "HEAD" => (room < 0 /\ taken = 0) \/ (room = BufSize /\ taken <= 1)
  /\ ~eof /\ stat = "GO_UPPER" => room = BufSize - PieceSize
  /\ ~eof /\ stat \in {"DIR_CONT", "FILE_CONT"} =>
       \/ room < 0 /\ taken <= 1 + Entered(folder, stat, pos)
       \/ room = BufSize /\ taken <= 2 + Entered(folder, stat, pos)
  /\ ~eof /\ stat \in {"GO_UPPER", "DIR", "FILE"} => taken <= 1 + Entered(folder, stat, pos)

ListInv == ListTypes /\ Places /\ PageIsDue /\ (Enough => Buffers)

\* The cases of the two definitions.
LEMMA DueIs ==
  ASSUME NEW f, NEW up, NEW k
  PROVE  /\ Due(f, up, "HEAD", k) = <<>>
         /\ Due(f, up, "GO_UPPER", k) = <<Piece("head")>>
         /\ Due(f, up, "DIR", k) = Dirs(f, up, k)
         /\ Due(f, up, "DIR_CONT", k) = Dirs(f, up, k - 1)
         /\ Due(f, up, "FILE", k) = Files(f, up, k)
         /\ Due(f, up, "FILE_CONT", k) = Files(f, up, k - 1)
         /\ Due(f, up, "TAIL", k) = Files(f, up, Len(f))
         /\ Due(f, up, "FINISHED", k) = Files(f, up, Len(f)) \o <<Piece("tail")>>
BY DEF Due

\* What is due is a sequence of pieces and begins the whole page.
LEMMA DueBegins ==
  ASSUME NEW f \in Seq(Entries), NEW up \in BOOLEAN, NEW st \in Stats, NEW k \in 0 .. Len(f),
         st \in {"DIR_CONT", "FILE_CONT"} => k > 0
  PROVE  /\ Due(f, up, st, k) \in Seq(Shown)
         /\ Begins(Due(f, up, st, k), Due(f, up, "FINISHED", k))
<1> DEFINE N == Len(f)
           o == Opening(up)
           a == Dirs(f, up, N)
           b == Files(f, up, N)
           w == b \o <<Piece("tail")>>
<1>1. N \in 0 .. N /\ (k > 0 => k - 1 \in 0 .. N) /\ 0 \in 0 .. N
  OBVIOUS
<1>2. o \in Seq(Shown) /\ a \in Seq(Shown) /\ b \in Seq(Shown)
  BY <1>1, PartsType
<1>3. <<Piece("tail")>> \in Seq(Shown)
  BY DEF Shown
<1>4. w \in Seq(Shown)
  BY <1>2, <1>3
<1>5. Begins(b, w)
  <2> HIDE DEF b
  <2> QED
    BY <1>2, <1>3, BeginsFacts
<1>6. ASSUME NEW i \in 0 .. N
      PROVE  /\ Files(f, up, i) \in Seq(Shown) /\ Dirs(f, up, i) \in Seq(Shown)
             /\ Begins(Files(f, up, i), b) /\ Begins(Dirs(f, up, i), a)
  <2> DEFINE p == Picked(f, "dir")[i]
             q == Picked(f, "file")[i]
             pN == Picked(f, "dir")[N]
             qN == Picked(f, "file")[N]
  <2>1. p \in Seq(Shown) /\ q \in Seq(Shown) /\ Files(f, up, i) \in Seq(Shown) /\ Dirs(f, up, i) \in Seq(Shown)
    BY PartsType
  <2>2. pN \in Seq(Shown) /\ qN \in Seq(Shown)
    BY <1>1, PartsType
  <2>3. i <= N
    OBVIOUS
  <2>4. Begins(p, pN)
    BY <1>1, <2>3, PickedGrows
  <2>5. Begins(q, qN)
    BY <1>1, <2>3, PickedGrows
  <2>6. Files(f, up, i) = a \o q /\ b = a \o qN
    BY DEF Files
  <2>7. Dirs(f, up, i) = o \o p /\ a = o \o pN
    BY DEF Dirs
  <2> HIDE DEF p, q, pN, qN, a, b, o
  <2>8. Begins(a \o q, a \o qN)
    BY <1>2, <2>1, <2>2, <2>5, BeginsFacts
  <2>9. Begins(o \o p, o \o pN)
    BY <1>2, <2>1, <2>2, <2>4, BeginsFacts
  <2> QED
    BY <2>1, <2>6, <2>7, <2>8, <2>9
<1>7. Begins(a, b)
  <2> DEFINE qN == Picked(f, "file")[N]
  <2>1. qN \in Seq(Shown)
    BY <1>1, PartsType
  <2>2. b = a \o qN
    BY DEF Files
  <2> HIDE DEF a, b, qN
  <2> QED
    BY <1>2, <2>1, <2>2, BeginsFacts
<1>8. Begins(o, a)
  <2> DEFINE pN == Picked(f, "dir")[N]
  <2>1. pN \in Seq(Shown)
    BY <1>1, PartsType
  <2>2. a = o \o pN
    BY DEF Dirs
  <2> HIDE DEF a, o, pN
  <2> QED
    BY <1>2, <2>1, <2>2, BeginsFacts
<1>9. <<Piece("head")>> \in Seq(Shown) /\ Begins(<<Piece("head")>>, o)
  <2> DEFINE h == <<Piece("head")>>
             u == IF up THEN <<Piece("upper")>> ELSE <<>>
  <2>1. h \in Seq(Shown) /\ u \in Seq(Shown)
    <3>1. Piece("head") \in Shown /\ Piece("upper") \in Shown
      BY DEF Shown
    <3>2. <<>> \in Seq(Shown)
      OBVIOUS
    <3> QED
      BY <3>1, <3>2
  <2>2. o = h \o u
    BY DEF Opening
  <2> HIDE DEF h, u, o
  <2>3. Begins(h, o)
    BY <2>1, <2>2, BeginsFacts
  <2> QED
    BY <2>1, <2>3 DEF h
<1>10. ASSUME NEW s \in Seq(Shown), Begins(s, a) PROVE Begins(s, w)
  <2> HIDE DEF a, b, w
  <2>1. Begins(s, b)
    BY <1>2, <1>7, <1>10, BeginsFacts
  <2> QED
    BY <1>2, <1>4, <1>5, <2>1, BeginsFacts
<1>11. ASSUME NEW s \in Seq(Shown), Begins(s, b) PROVE Begins(s, w)
  <2> HIDE DEF b, w
  <2> QED
    BY <1>2, <1>4, <1>5, <1>11, BeginsFacts
<1>12. ASSUME NEW s \in Seq(Shown), Begins(s, o) PROVE Begins(s, w)
  <2>1. Begins(s, a)
    <3> HIDE DEF o, a
    <3> QED
      BY <1>2, <1>8, <1>12, BeginsFacts
  <2> QED
    BY <1>10, <2>1
<1>13. Begins(w, w) /\ Begins(<<>>, w) /\ <<>> \in Seq(Shown)
  <2>1. <<>> \in Seq(Shown)
    OBVIOUS
  <2> HIDE DEF w
  <2> QED
    BY <1>4, <2>1, BeginsFacts
<1>14. Due(f, up, "FINISHED", k) = w
  BY DueIs
<1> DEFINE d == Due(f, up, st, k)
<1> SUFFICES d \in Seq(Shown) /\ Begins(d, w)
  BY <1>14
<1>15. CASE st = "HEAD"
  BY <1>13, <1>15, DueIs
<1>16. CASE st = "GO_UPPER"
  <2>1. d = <<Piece("head")>>
    BY <1>16, DueIs
  <2> HIDE DEF w, d, o
  <2> QED
    BY <1>9, <1>12, <2>1
<1>17. CASE st = "DIR"
  <2>1. d = Dirs(f, up, k)
    BY <1>17, DueIs
  <2> HIDE DEF w, d, a, b, N
  <2> QED
    BY <1>6, <1>10, <2>1 DEF N
<1>18. CASE st = "DIR_CONT"
  <2>1. d = Dirs(f, up, k - 1) /\ k - 1 \in 0 .. N
    BY <1>1, <1>18, DueIs
  <2> HIDE DEF w, d, a, b, N
  <2> QED
    BY <1>6, <1>10, <2>1
<1>19. CASE st = "FILE"
  <2>1. d = Files(f, up, k)
    BY <1>19, DueIs
  <2> HIDE DEF w, d, a, b, N
  <2> QED
    BY <1>6, <1>11, <2>1 DEF N
<1>20. CASE st = "FILE_CONT"
  <2>1. d = Files(f, up, k - 1) /\ k - 1 \in 0 .. N
    BY <1>1, <1>20, DueIs
  <2> HIDE DEF w, d, a, b, N
  <2> QED
    BY <1>6, <1>11, <2>1
<1>21. CASE st = "TAIL"
  <2>1. d = b
    BY <1>21, DueIs
  <2> HIDE DEF w, d, b
  <2> QED
    BY <1>2, <1>5, <2>1
<1>22. CASE st = "FINISHED"
  BY <1>4, <1>13, <1>14, <1>22
<1> QED
  BY <1>15, <1>16, <1>17, <1>18, <1>19, <1>20, <1>21, <1>22 DEF Stats

\* What is due moves with the automaton.
LEMMA DueMoves ==
  ASSUME NEW f \in Seq(Entries), NEW up \in BOOLEAN, NEW k \in 0 .. Len(f), NEW j
  PROVE  /\ Due(f, up, "GO_UPPER", k) = Append(Due(f, up, "HEAD", k), Piece("head"))
         /\ up => Due(f, up, "DIR", 0) = Append(Due(f, up, "GO_UPPER", j), Piece("upper"))
         /\ ~up => Due(f, up, "DIR", 0) = Due(f, up, "GO_UPPER", j)
         /\ Due(f, up, "DIR", Len(f)) = Due(f, up, "FILE", 0)
         /\ Due(f, up, "FILE", Len(f)) = Due(f, up, "TAIL", j)
         /\ Due(f, up, "FINISHED", k) = Append(Due(f, up, "TAIL", k), Piece("tail"))
<1>1. Piece("head") \in Shown /\ Piece("upper") \in Shown /\ Piece("tail") \in Shown
  BY DEF Shown
<1>2. Due(f, up, "GO_UPPER", k) = Append(Due(f, up, "HEAD", k), Piece("head"))
  <2> DEFINE x == Piece("head")
             d == Due(f, up, "GO_UPPER", k)
             e == Due(f, up, "HEAD", k)
  <2>1. d = <<x>> /\ e = <<>>
    BY DueIs
  <2> HIDE DEF x, d, e
  <2>2. <<x>> = Append(<<>>, x)
    OBVIOUS
  <2>3. d = Append(e, x)
    BY <2>1, <2>2
  <2> QED
    BY <2>3 DEF d, e, x
<1>3. Due(f, up, "DIR", 0) = Opening(up)
  <2>1. Due(f, up, "DIR", 0) = Dirs(f, up, 0)
    BY DueIs
  <2> QED
    BY <2>1, PartsType
<1>4. ASSUME up PROVE Due(f, up, "DIR", 0) = Append(Due(f, up, "GO_UPPER", j), Piece("upper"))
  <2>1. Opening(up) = <<Piece("head")>> \o <<Piece("upper")>>
    BY <1>4 DEF Opening
  <2>2. <<Piece("head")>> \in Seq(Shown)
    BY <1>1
  <2>3. <<Piece("head")>> \o <<Piece("upper")>> = Append(<<Piece("head")>>, Piece("upper"))
    BY <1>1, <2>2
  <2>4. Due(f, up, "GO_UPPER", j) = <<Piece("head")>>
    BY DueIs
  <2> DEFINE x == <<Piece("head")>>
             y == Piece("upper")
             d == Due(f, up, "GO_UPPER", j)
  <2> HIDE DEF d, x, y
  <2>5. Due(f, up, "DIR", 0) = Append(x, y)
    BY <1>3, <2>1, <2>3 DEF x, y
  <2>6. Due(f, up, "DIR", 0) = Append(d, y)
    BY <2>4, <2>5 DEF x, d
  <2> QED
    BY <2>6 DEF d, y
<1>5. ASSUME ~up PROVE Due(f, up, "DIR", 0) = Due(f, up, "GO_UPPER", j)
  <2>1. Opening(up) = <<Piece("head")>> \o <<>>
    BY <1>5 DEF Opening
  <2>2. <<Piece("head")>> \in Seq(Shown)
    BY <1>1
  <2>3. <<Piece("head")>> \o <<>> = <<Piece("head")>>
    BY <2>2, ConcatEmptySeq
  <2> QED
    BY <1>3, <2>1, <2>3, DueIs
<1>6. Due(f, up, "DIR", Len(f)) = Due(f, up, "FILE", 0)
  <2>1. Files(f, up, 0) = Dirs(f, up, Len(f))
    BY PartsType
  <2> QED
    BY <2>1, DueIs
<1>7. Due(f, up, "FILE", Len(f)) = Due(f, up, "TAIL", j)
  BY DueIs
<1>8. Due(f, up, "FINISHED", k) = Append(Due(f, up, "TAIL", k), Piece("tail"))
  <2> DEFINE b == Files(f, up, Len(f))
  <2>1. b \in Seq(Shown)
    <3>1. Len(f) \in 0 .. Len(f)
      OBVIOUS
    <3> QED
      BY <3>1, PartsType
  <2>2. Due(f, up, "FINISHED", k) = b \o <<Piece("tail")>> /\ Due(f, up, "TAIL", k) = b
    BY DueIs
  <2> HIDE DEF b
  <2>3. b \o <<Piece("tail")>> = Append(b, Piece("tail"))
    BY <1>1, <2>1
  <2> QED
    BY <2>2, <2>3
<1>9. QED
  BY <1>2, <1>4, <1>5, <1>6, <1>7, <1>8

\* What is due grows by an entry of the kind the automaton is at.
LEMMA DueGrows ==
  ASSUME NEW f \in Seq(Entries), NEW up \in BOOLEAN, NEW k \in 1 .. Len(f)
  PROVE  /\ Due(f, up, "DIR_CONT", k) = Due(f, up, "DIR", k - 1)
         /\ Due(f, up, "FILE_CONT", k) = Due(f, up, "FILE", k - 1)
         /\ Due(f, up, "DIR", k) =
              IF f[k].kind = "dir" THEN Append(Due(f, up, "DIR", k - 1), f[k].name)
              ELSE Due(f, up, "DIR", k - 1)
         /\ Due(f, up, "FILE", k) =
              IF f[k].kind = "file" THEN Append(Due(f, up, "FILE", k - 1), f[k].name)
              ELSE Due(f, up, "FILE", k - 1)
<1>1. Due(f, up, "DIR_CONT", k) = Due(f, up, "DIR", k - 1) /\ Due(f, up, "FILE_CONT", k) = Due(f, up, "FILE", k - 1)
  BY DueIs
<1>2. 0 \in 0 .. Len(f) /\ Len(f) \in 0 .. Len(f)
  OBVIOUS
<1>3. Opening(up) \in Seq(Shown) /\ Dirs(f, up, Len(f)) \in Seq(Shown)
  BY <1>2, PartsType
<1>4. Due(f, up, "DIR", k) = Opening(up) \o Picked(f, "dir")[k]
      /\ Due(f, up, "DIR", k - 1) = Opening(up) \o Picked(f, "dir")[k - 1]
  <2>1. Due(f, up, "DIR", k) = Dirs(f, up, k) /\ Due(f, up, "DIR", k - 1) = Dirs(f, up, k - 1)
    BY DueIs
  <2> QED
    BY <2>1 DEF Dirs
<1>5. Due(f, up, "FILE", k) = Dirs(f, up, Len(f)) \o Picked(f, "file")[k]
      /\ Due(f, up, "FILE", k - 1) = Dirs(f, up, Len(f)) \o Picked(f, "file")[k - 1]
  <2>1. Due(f, up, "FILE", k) = Files(f, up, k) /\ Due(f, up, "FILE", k - 1) = Files(f, up, k - 1)
    BY DueIs
  <2> QED
    BY <2>1 DEF Files
<1>6. Due(f, up, "DIR", k) = IF f[k].kind = "dir" THEN Append(Due(f, up, "DIR", k - 1), f[k].name)
                             ELSE Due(f, up, "DIR", k - 1)
  <2> DEFINE o == Opening(up)
             p == Picked(f, "dir")
             c == o \o p[k - 1]
             x == f[k].name
  <2>1. o \o p[k] = IF f[k].kind = "dir" THEN Append(c, x) ELSE c
    <3>1. o \in Seq(Shown)
      BY <1>3
    <3> HIDE DEF o
    <3>2. f[k].kind = "dir" => o \o p[k] = Append(c, x)
      BY <3>1, OneMore
    <3>3. f[k].kind # "dir" => o \o p[k] = c
      BY <3>1, OneMore
    <3> HIDE DEF c, p, x
    <3> QED
      BY <3>2, <3>3
  <2>2. Due(f, up, "DIR", k) = o \o p[k] /\ Due(f, up, "DIR", k - 1) = c
    BY <1>4
  <2> DEFINE u == Due(f, up, "DIR", k)
             v == Due(f, up, "DIR", k - 1)
             w == o \o p[k]
  <2>3. u = w /\ v = c /\ w = IF f[k].kind = "dir" THEN Append(c, x) ELSE c
    BY <2>1, <2>2
  <2> HIDE DEF u, v, c, x, w
  <2>4. u = IF f[k].kind = "dir" THEN Append(v, x) ELSE v
    BY <2>3
  <2> QED
    BY <2>4 DEF u, v, x
<1>7. Due(f, up, "FILE", k) = IF f[k].kind = "file" THEN Append(Due(f, up, "FILE", k - 1), f[k].name)
                              ELSE Due(f, up, "FILE", k - 1)
  <2> DEFINE o == Dirs(f, up, Len(f))
             p == Picked(f, "file")
             c == o \o p[k - 1]
             x == f[k].name
  <2>1. o \o p[k] = IF f[k].kind = "file" THEN Append(c, x) ELSE c
    <3>1. o \in Seq(Shown)
      BY <1>3
    <3> HIDE DEF o
    <3>2. f[k].kind = "file" => o \o p[k] = Append(c, x)
      BY <3>1, OneMore
    <3>3. f[k].kind # "file" => o \o p[k] = c
      BY <3>1, OneMore
    <3> HIDE DEF c, p, x
    <3> QED
      BY <3>2, <3>3
  <2>2. Due(f, up, "FILE", k) = o \o p[k] /\ Due(f, up, "FILE", k - 1) = c
    BY <1>5
  <2> DEFINE u == Due(f, up, "FILE", k)
             v == Due(f, up, "FILE", k - 1)
             w == o \o p[k]
  <2>3. u = w /\ v = c /\ w = IF f[k].kind = "file" THEN Append(c, x) ELSE c
    BY <2>1, <2>2
  <2> HIDE DEF u, v, c, x, w
  <2>4. u = IF f[k].kind = "file" THEN Append(v, x) ELSE v
    BY <2>3
  <2> QED
    BY <2>4 DEF u, v, x
<1>8. QED
  BY <1>1, <1>6, <1>7

\* The number of entries put out is one.
LEMMA EnteredType ==
  ASSUME NEW f \in Seq(Entries)
  PROVE  /\ \A st \in Stats, i \in 0 .. Len(f) :
              (st \in {"DIR_CONT", "FILE_CONT"} => i > 0) => Entered(f, st, i) \in Nat
         /\ Entered(f, "DIR", Len(f)) = Entered(f, "FILE", 0)
<1> DEFINE d == Picked(f, "dir")
           e == Picked(f, "file")
           N == Len(f)
<1>1. d \in [0 .. N -> Seq(FolderNames)]
  BY PickedIs
<1>2. e \in [0 .. N -> Seq(FolderNames)] /\ e[0] = <<>>
  BY PickedIs
<1>3. N \in 0 .. N /\ 0 \in 0 .. N /\ N \in Nat
  OBVIOUS
<1> HIDE DEF d, e
<1>9. \A i \in 0 .. N : Len(d[i]) \in Nat /\ Len(e[i]) \in Nat
  BY <1>1, <1>2
<1>10. ASSUME NEW st \in Stats, NEW i \in 0 .. N, st \in {"DIR_CONT", "FILE_CONT"} => i > 0
       PROVE  Entered(f, st, i) \in Nat
  <2>1. i > 0 => i - 1 \in 0 .. N
    BY <1>3
  <2>2. \A m \in 0 .. N : Len(Picked(f, "dir")[m]) \in Nat /\ Len(Picked(f, "file")[m]) \in Nat
    BY <1>9 DEF d, e
  <2>3. \A u \in Nat, v \in Nat : u + v \in Nat
    OBVIOUS
  <2>4. CASE st \in {"HEAD", "GO_UPPER"}
    BY <2>4 DEF Entered
  <2>5. CASE st = "DIR"
    <3>1. Entered(f, st, i) = Len(Picked(f, "dir")[i])
      BY <2>5 DEF Entered
    <3> QED
      BY <2>2, <3>1
  <2>6. CASE st = "DIR_CONT"
    <3>1. Entered(f, st, i) = Len(Picked(f, "dir")[i - 1])
      BY <2>6 DEF Entered
    <3> QED
      BY <1>10, <2>1, <2>2, <2>6, <3>1
  <2>7. CASE st = "FILE"
    <3>1. Entered(f, st, i) = Len(Picked(f, "dir")[N]) + Len(Picked(f, "file")[i])
      BY <2>7 DEF Entered
    <3> QED
      BY <1>3, <2>2, <2>3, <3>1, ZenonT(60)
  <2>8. CASE st = "FILE_CONT"
    <3>1. Entered(f, st, i) = Len(Picked(f, "dir")[N]) + Len(Picked(f, "file")[i - 1])
      BY <2>8 DEF Entered
    <3> QED
      BY <1>3, <1>10, <2>1, <2>2, <2>3, <2>8, <3>1, ZenonT(60)
  <2>9. CASE st \in {"TAIL", "FINISHED"}
    <3>1. Entered(f, st, i) = Len(Picked(f, "dir")[N]) + Len(Picked(f, "file")[N])
      BY <2>9 DEF Entered
    <3> QED
      BY <1>3, <2>2, <2>3, <3>1, Zenon
  <2> QED
    BY <2>4, <2>5, <2>6, <2>7, <2>8, <2>9 DEF Stats
<1>11. Entered(f, "DIR", N) = Entered(f, "FILE", 0)
  <2>1. Entered(f, "DIR", N) = Len(d[N]) /\ Entered(f, "FILE", 0) = Len(d[N]) + Len(e[0])
    BY DEF Entered, d, e
  <2>2. Len(e[0]) = 0 /\ Len(d[N]) \in Nat
    BY <1>2, <1>3, <1>9
  <2> DEFINE c == Len(d[N])
  <2> HIDE DEF c
  <2> QED
    BY <2>1, <2>2 DEF c
<1>12. QED
  BY <1>10, <1>11

\* The number of entries put out moves with the automaton, and one that waits is
\* not among them.
LEMMA EnteredMoves ==
  ASSUME NEW f \in Seq(Entries), NEW k \in 1 .. Len(f)
  PROVE  /\ Entered(f, "DIR_CONT", k) = Entered(f, "DIR", k - 1)
         /\ Entered(f, "FILE_CONT", k) = Entered(f, "FILE", k - 1)
         /\ Entered(f, "DIR", k) = Entered(f, "DIR", k - 1) + (IF f[k].kind = "dir" THEN 1 ELSE 0)
         /\ Entered(f, "FILE", k) = Entered(f, "FILE", k - 1) + (IF f[k].kind = "file" THEN 1 ELSE 0)
         /\ f[k].kind = "dir" => Entered(f, "DIR_CONT", k) < Len(f)
         /\ f[k].kind = "file" => Entered(f, "FILE_CONT", k) < Len(f)
<1> DEFINE d == Picked(f, "dir")
           e == Picked(f, "file")
           N == Len(f)
           x == f[k].name
<1>1. d \in [0 .. N -> Seq(FolderNames)] /\ d[k] = IF f[k].kind = "dir" THEN Append(d[k - 1], x) ELSE d[k - 1]
  BY PickedIs
<1>2. /\ e \in [0 .. N -> Seq(FolderNames)] /\ e[k] = IF f[k].kind = "file" THEN Append(e[k - 1], x) ELSE e[k - 1]
      /\ e[0] = <<>>
  BY PickedIs
<1>3. k - 1 \in 0 .. N /\ k \in 0 .. N /\ N \in 0 .. N /\ 0 \in 0 .. N /\ N \in Nat
  OBVIOUS
<1>4. Len(d[N]) + Len(e[N]) <= N
  BY <1>3, PickedFew
<1>5. Begins(d[k], d[N])
  BY <1>3, PickedGrows
<1>6. Begins(e[k], e[N])
  BY <1>3, PickedGrows
<1>7. x \in FolderNames
  <2>1. f[k] \in Entries
    OBVIOUS
  <2> QED
    BY <2>1 DEF Entries
<1>8. /\ Entered(f, "DIR", k) = Len(d[k]) /\ Entered(f, "DIR", k - 1) = Len(d[k - 1])
      /\ Entered(f, "DIR_CONT", k) = Len(d[k - 1])
      /\ Entered(f, "FILE", k) = Len(d[N]) + Len(e[k]) /\ Entered(f, "FILE", k - 1) = Len(d[N]) + Len(e[k - 1])
      /\ Entered(f, "FILE_CONT", k) = Len(d[N]) + Len(e[k - 1])
  BY DEF Entered
<1> HIDE DEF d, e, x
<1>9. \A i \in 0 .. N : Len(d[i]) \in Nat /\ Len(e[i]) \in Nat
  BY <1>1, <1>2
<1> DEFINE a == Len(d[k - 1])
           b == Len(d[k])
           c == Len(d[N])
           p == Len(e[k - 1])
           q == Len(e[k])
           r == Len(e[N])
<1>11. a \in Nat /\ b \in Nat /\ c \in Nat /\ p \in Nat /\ q \in Nat /\ r \in Nat
  BY <1>3, <1>9
<1>12. b = a + (IF f[k].kind = "dir" THEN 1 ELSE 0)
  <2>1. d[k - 1] \in Seq(FolderNames)
    BY <1>1, <1>3
  <2>2. Len(Append(d[k - 1], x)) = a + 1
    BY <1>7, <2>1
  <2>3. CASE f[k].kind = "dir"
    BY <1>1, <2>2, <2>3
  <2>4. CASE f[k].kind # "dir"
    <3>1. Len(d[k]) = Len(d[k - 1])
      BY <1>1, <2>4
    <3> QED
      BY <1>11, <2>4, <3>1
  <2> QED
    BY <2>3, <2>4
<1>13. q = p + (IF f[k].kind = "file" THEN 1 ELSE 0)
  <2>1. e[k - 1] \in Seq(FolderNames)
    BY <1>2, <1>3
  <2>2. Len(Append(e[k - 1], x)) = p + 1
    BY <1>7, <2>1
  <2>3. CASE f[k].kind = "file"
    BY <1>2, <2>2, <2>3
  <2>4. CASE f[k].kind # "file"
    <3>1. Len(e[k]) = Len(e[k - 1])
      BY <1>2, <2>4
    <3> QED
      BY <1>11, <2>4, <3>1
  <2> QED
    BY <2>3, <2>4
<1>14. b <= c /\ q <= r
  BY <1>5, <1>6 DEF Begins
<1>16. c + r <= N
  BY <1>4
<1> HIDE DEF a, b, c, p, q, r
<1>17. f[k].kind = "dir" => a < N
  BY <1>3, <1>11, <1>12, <1>14, <1>16
<1>18. f[k].kind = "file" => c + p < N
  BY <1>3, <1>11, <1>13, <1>14, <1>16
<1>20. Entered(f, "DIR", k) = Entered(f, "DIR", k - 1) + (IF f[k].kind = "dir" THEN 1 ELSE 0)
  BY <1>8, <1>12 DEF a, b
<1>21. Entered(f, "FILE", k) = Entered(f, "FILE", k - 1) + (IF f[k].kind = "file" THEN 1 ELSE 0)
  <2>1. Entered(f, "FILE", k) = c + q /\ Entered(f, "FILE", k - 1) = c + p
    BY <1>8 DEF c, p, q
  <2> QED
    BY <2>1, <1>11, <1>13
<1>22. Entered(f, "DIR_CONT", k) = a /\ Entered(f, "FILE_CONT", k) = c + p
  BY <1>8 DEF a, c, p
<1>23. Entered(f, "DIR_CONT", k) = Entered(f, "DIR", k - 1) /\ Entered(f, "FILE_CONT", k) = Entered(f, "FILE", k - 1)
  BY <1>8
<1>24. QED
  BY <1>17, <1>18, <1>20, <1>21, <1>22, <1>23

\* The four outcomes of a step keep the types and the page, if what is due moves with them.
LEMMA PutKeeps ==
  ASSUME ListTypes, PageIsDue, ~eof, NEW name \in Shown, NEW size \in Nat, NEW next \in Stats,
         Fits(size), Put(name, size, next), pos' \in 0 .. Len(folder),
         Due(folder, upper, next, pos') = Append(Due(folder, upper, stat, pos), name)
  PROVE  ListTypes' /\ PageIsDue' /\ ~eof' /\ room' >= 0
<1>1. /\ buf' = Append(buf, name) /\ room' = room - size /\ stat' = next
      /\ folder' = folder /\ upper' = upper /\ full' = full /\ taken' = taken /\ page' = page /\ eof' = eof
  BY DEF Put
<1>2. page \in Seq(Shown) /\ buf \in Seq(Shown) /\ room \in Int
  BY DEF ListTypes
<1>3. Append(buf, name) \in Seq(Shown) /\ room - size \in Int
  BY <1>2
<1>4. ListTypes'
  BY <1>1, <1>3 DEF ListTypes
<1>5. page \o buf = Due(folder, upper, stat, pos)
  BY DEF PageIsDue
<1>6. page \o Append(buf, name) = Append(page \o buf, name)
  BY <1>2, AppendBehind
<1> DEFINE d == Due(folder, upper, stat, pos)
           e == Due(folder, upper, next, pos')
           b == Append(buf, name)
<1>7. Due(folder', upper', stat', pos') = e
  BY <1>1
<1>8. page \o b = e
  <2>1. page \o buf = d /\ e = Append(d, name)
    BY <1>5
  <2> HIDE DEF d, e
  <2> QED
    BY <1>6, <2>1
<1>9. b \in Seq(Shown)
  BY <1>3
<1> HIDE DEF d, e, b
<1>10. Begins(page, e)
  BY <1>2, <1>8, <1>9, BeginsFacts
<1>11. b = buf'
  BY <1>1 DEF b
<1>12. page' \o buf' = Due(folder', upper', stat', pos') /\ Begins(page', Due(folder', upper', stat', pos'))
  BY <1>1, <1>7, <1>8, <1>10, <1>11
<1>13. PageIsDue'
  BY <1>1, <1>12 DEF PageIsDue
<1>14. room' >= 0
  BY <1>1, <1>2 DEF Fits
<1>15. QED
  BY <1>1, <1>4, <1>13, <1>14

\* The loop goes on without output.
LEMMA AgainKeeps ==
  ASSUME ListTypes, PageIsDue, ~eof, NEW next \in Stats, Again(next), pos' \in 0 .. Len(folder),
         Due(folder, upper, next, pos') = Due(folder, upper, stat, pos)
  PROVE  ListTypes' /\ PageIsDue' /\ ~eof' /\ room' = room
<1>1. /\ buf' = buf /\ room' = room /\ stat' = next
      /\ folder' = folder /\ upper' = upper /\ full' = full /\ taken' = taken /\ page' = page /\ eof' = eof
  BY DEF Again
<1>2. ListTypes'
  BY <1>1 DEF ListTypes
<1> DEFINE d == Due(folder, upper, stat, pos)
           e == Due(folder', upper', stat', pos')
<1>3. e = d
  BY <1>1
<1>4. page' \o buf' = d /\ Begins(page', d)
  BY <1>1 DEF PageIsDue
<1> HIDE DEF d, e
<1>5. page' \o buf' = e /\ Begins(page', e)
  BY <1>3, <1>4
<1>6. PageIsDue'
  BY <1>1, <1>5 DEF PageIsDue, e
<1>7. QED
  BY <1>1, <1>2, <1>6

\* The buffer is handed over.
LEMMA HandOverKeeps ==
  ASSUME ListTypes, PageIsDue, ~eof, NEW next \in Stats, NEW end \in BOOLEAN, HandOver(next, end),
         pos' \in 0 .. Len(folder), Due(folder, upper, next, pos') = Due(folder, upper, stat, pos)
  PROVE  ListTypes' /\ PageIsDue' /\ eof' = end /\ buf' = <<>> /\ room' = -1
<1>1. /\ page' = page \o buf /\ buf' = <<>> /\ room' = -1 /\ stat' = next /\ eof' = end
      /\ folder' = folder /\ upper' = upper /\ full' = full /\ taken' = taken
  BY DEF HandOver
<1>2. page \in Seq(Shown) /\ buf \in Seq(Shown)
  BY DEF ListTypes
<1>3. page \o buf \in Seq(Shown) /\ <<>> \in Seq(Shown)
  BY <1>2
<1>4. ListTypes'
  BY <1>1, <1>3 DEF ListTypes
<1> DEFINE p == page \o buf
           d == Due(folder, upper, stat, pos)
           e == Due(folder', upper', stat', pos')
<1>5. p = d /\ e = d /\ p \in Seq(Shown)
  BY <1>1, <1>3 DEF PageIsDue
<1>6. page' = p
  BY <1>1
<1> HIDE DEF p, d, e
<1>7. p \o <<>> = p /\ Begins(p, p)
  BY <1>5, ConcatEmptySeq, BeginsFacts
<1>8. page' \o buf' = e /\ Begins(page', e) /\ page' = e
  BY <1>1, <1>5, <1>6, <1>7
<1>9. PageIsDue'
  BY <1>8 DEF PageIsDue, e
<1>10. QED
  BY <1>1, <1>4, <1>9

\* The page ends early.
LEMMA FailedKeeps ==
  ASSUME ListTypes, PageIsDue, stat # "FINISHED", Failed, pos' = pos
  PROVE  ListTypes' /\ PageIsDue' /\ eof' /\ buf' = <<>>
<1>1. /\ page' = page /\ buf' = <<>> /\ room' = -1 /\ stat' = stat /\ eof' = TRUE
      /\ folder' = folder /\ upper' = upper /\ full' = full /\ taken' = taken
  BY DEF Failed
<1>2. <<>> \in Seq(Shown)
  OBVIOUS
<1>3. ListTypes'
  BY <1>1, <1>2 DEF ListTypes
<1>4. PageIsDue'
  BY <1>1 DEF PageIsDue
<1>5. QED
  BY <1>1, <1>3, <1>4

\* The head, the link to the folder above and the tail.
LEMMA HeadKeeps ==
  ASSUME ListInv, ~eof, room >= 0, stat = "HEAD", Fixed(Piece("head"), "GO_UPPER")
  PROVE  ListInv'
<1>1. ListTypes /\ Places /\ PageIsDue /\ (Enough => Buffers) /\ pos' = pos
  BY DEF ListInv, Fixed
<1>2. PieceSize \in Nat /\ BufSize \in Nat
  BY ListingAssumption
<1>3. folder \in Seq(Entries) /\ upper \in BOOLEAN /\ pos \in 0 .. Len(folder) /\ room \in Int /\ taken \in Nat
  BY <1>1 DEF ListTypes
<1>4. pos = 0
  BY <1>1 DEF Places
<1>5. Enough => room = BufSize /\ taken <= 1 /\ 2 * PieceSize < BufSize
  BY <1>1, <1>3 DEF Buffers, Enough
<1>6. CASE Fits(PieceSize)
  <2>1. Put(Piece("head"), PieceSize, "GO_UPPER")
    BY <1>6 DEF Fixed
  <2>2. Due(folder, upper, "GO_UPPER", pos') = Append(Due(folder, upper, stat, pos), Piece("head"))
    BY <1>1, <1>3, DueMoves
  <2>3. Piece("head") \in Shown /\ "GO_UPPER" \in Stats
    BY DEF Shown, Stats
  <2>4. ListTypes' /\ PageIsDue' /\ ~eof' /\ room' >= 0
    BY <1>1, <1>2, <1>3, <1>6, <2>1, <2>2, <2>3, PutKeeps
  <2>5. stat' = "GO_UPPER" /\ room' = room - PieceSize /\ taken' = taken /\ folder' = folder /\ full' = full
    BY <2>1 DEF Put
  <2>6. Places'
    BY <1>1, <1>4, <2>4, <2>5 DEF Places, ListTypes
  <2>7. Enough' => Enough
    BY <2>5 DEF Enough
  <2>8. Entered(folder', stat', pos') = 0
    BY <2>5 DEF Entered
  <2>9. Enough => Buffers'
    BY <1>3, <1>5, <2>4, <2>5, <2>8 DEF Buffers
  <2> QED
    BY <2>4, <2>6, <2>7, <2>9 DEF ListInv
<1>7. CASE ~Fits(PieceSize)
  <2>1. Failed
    BY <1>7 DEF Fixed
  <2>2. ListTypes' /\ PageIsDue' /\ eof' /\ buf' = <<>>
    BY <1>1, <2>1, FailedKeeps
  <2>3. stat' = stat /\ folder' = folder /\ full' = full
    BY <2>1 DEF Failed
  <2>4. Places'
    BY <1>1, <1>4, <2>2, <2>3 DEF Places
  <2>5. ~Enough
    BY <1>2, <1>3, <1>5, <1>7 DEF Fits
  <2>6. ~Enough'
    BY <2>3, <2>5 DEF Enough
  <2> QED
    BY <2>2, <2>4, <2>6 DEF ListInv
<1>8. QED
  BY <1>6, <1>7

\* The link to the folder above.
LEMMA UpperKeeps ==
  ASSUME ListInv, ~eof, room >= 0, stat = "GO_UPPER",
         \/ upper /\ Fixed(Piece("upper"), "DIR")
         \/ ~upper /\ Again("DIR") /\ pos' = pos
  PROVE  ListInv'
<1>1. ListTypes /\ Places /\ PageIsDue /\ (Enough => Buffers) /\ pos' = pos
  BY DEF ListInv, Fixed
<1>2. PieceSize \in Nat /\ BufSize \in Nat
  BY ListingAssumption
<1>3. folder \in Seq(Entries) /\ upper \in BOOLEAN /\ pos \in 0 .. Len(folder) /\ room \in Int /\ taken \in Nat
  BY <1>1 DEF ListTypes
<1>4. pos = 0
  BY <1>1 DEF Places
<1>a. Entered(folder, stat, pos) = 0
  BY DEF Entered
<1>5. Enough => room = BufSize - PieceSize /\ taken <= 1 /\ 2 * PieceSize < BufSize
  BY <1>1, <1>3, <1>a DEF Buffers, Enough
<1>6. Entered(folder, "DIR", 0) \in Nat
  <2>1. "DIR" \in Stats /\ 0 \in 0 .. Len(folder)
    BY <1>3 DEF Stats
  <2> QED
    BY <1>3, <2>1, EnteredType
<1>b. "DIR" \in Stats
  BY DEF Stats
<1>7. ASSUME stat' = "DIR", taken' = taken, folder' = folder, full' = full, ~eof', room' >= 0, ListTypes', PageIsDue'
      PROVE  ListInv'
  <2>1. Places'
    BY <1>7 DEF Places, ListTypes
  <2>2. Enough' => Enough
    BY <1>7 DEF Enough
  <2>3. Entered(folder', stat', pos') \in Nat
    BY <1>1, <1>4, <1>6, <1>7
  <2> DEFINE n == Entered(folder', stat', pos')
  <2>4. Enough => taken' <= 1 + n
    <3>1. n \in Nat
      BY <2>3
    <3> HIDE DEF n
    <3> QED
      BY <1>3, <1>5, <1>7, <3>1
  <2>5. Enough => Buffers'
    BY <1>7, <2>4 DEF Buffers
  <2> QED
    BY <1>7, <2>1, <2>2, <2>5 DEF ListInv
<1>8. CASE ~upper
  <2>1. Again("DIR")
    BY <1>8
  <2>2. Due(folder, upper, "DIR", pos') = Due(folder, upper, stat, pos)
    BY <1>1, <1>3, <1>4, <1>8, DueMoves
  <2>3. ListTypes' /\ PageIsDue' /\ ~eof' /\ room' = room
    BY <1>1, <1>3, <1>b, <2>1, <2>2, AgainKeeps
  <2>4. stat' = "DIR" /\ taken' = taken /\ folder' = folder /\ full' = full
    BY <2>1 DEF Again
  <2> QED
    BY <1>7, <2>3, <2>4
<1>9. CASE upper /\ Fits(PieceSize)
  <2>1. Put(Piece("upper"), PieceSize, "DIR")
    BY <1>9 DEF Fixed
  <2>2. Due(folder, upper, "DIR", pos') = Append(Due(folder, upper, stat, pos), Piece("upper"))
    BY <1>1, <1>3, <1>4, <1>9, DueMoves, ZenonT(60)
  <2>3. Piece("upper") \in Shown
    BY DEF Shown
  <2>4. ListTypes' /\ PageIsDue' /\ ~eof' /\ room' >= 0
    BY <1>1, <1>2, <1>3, <1>b, <1>9, <2>1, <2>2, <2>3, PutKeeps
  <2>5. stat' = "DIR" /\ taken' = taken /\ folder' = folder /\ full' = full
    BY <2>1 DEF Put
  <2> QED
    BY <1>7, <2>4, <2>5
<1>10. CASE upper /\ ~Fits(PieceSize)
  <2>1. Failed
    BY <1>10 DEF Fixed
  <2>2. ListTypes' /\ PageIsDue' /\ eof' /\ buf' = <<>>
    BY <1>1, <2>1, FailedKeeps
  <2>3. stat' = stat /\ folder' = folder /\ full' = full
    BY <2>1 DEF Failed
  <2>4. Places'
    BY <1>1, <1>4, <2>2, <2>3 DEF Places
  <2>5. ~Enough
    BY <1>2, <1>3, <1>5, <1>10 DEF Fits
  <2>6. ~Enough'
    BY <2>3, <2>5 DEF Enough
  <2> QED
    BY <2>2, <2>4, <2>6 DEF ListInv
<1>11. QED
  BY <1>8, <1>9, <1>10

\* The tail and the end.
LEMMA TailKeeps ==
  ASSUME ListInv, ~eof, room >= 0,
         \/ stat = "TAIL" /\ Fixed(Piece("tail"), "FINISHED")
         \/ stat = "FINISHED" /\ HandOver("FINISHED", TRUE) /\ pos' = pos
  PROVE  ListInv'
<1>1. ListTypes /\ Places /\ PageIsDue /\ (Enough => Buffers) /\ pos' = pos
  BY DEF ListInv, Fixed
<1>2. PieceSize \in Nat
  BY ListingAssumption
<1>3. folder \in Seq(Entries) /\ upper \in BOOLEAN /\ pos \in 0 .. Len(folder)
  BY <1>1 DEF ListTypes
<1>4. "FINISHED" \in Stats /\ Piece("tail") \in Shown
  BY DEF Stats, Shown
<1>5. ASSUME stat' \in {"TAIL", "FINISHED"}, ListTypes', PageIsDue',
             (eof' /\ buf' = <<>>) \/ (~eof' /\ room' >= 0)
      PROVE  ListInv'
  <2>1. Places'
    BY <1>5 DEF Places, ListTypes
  <2>2. Buffers'
    BY <1>5 DEF Buffers
  <2> QED
    BY <1>5, <2>1, <2>2 DEF ListInv
<1>6. CASE stat = "TAIL" /\ Fits(PieceSize)
  <2>1. Put(Piece("tail"), PieceSize, "FINISHED")
    BY <1>6 DEF Fixed
  <2>2. Due(folder, upper, "FINISHED", pos') = Append(Due(folder, upper, stat, pos), Piece("tail"))
    BY <1>1, <1>3, <1>6, DueMoves
  <2>3. ListTypes' /\ PageIsDue' /\ ~eof' /\ room' >= 0
    BY <1>1, <1>2, <1>3, <1>4, <1>6, <2>1, <2>2, PutKeeps
  <2>4. stat' = "FINISHED"
    BY <2>1 DEF Put
  <2> QED
    BY <1>5, <2>3, <2>4
<1>7. CASE stat = "TAIL" /\ ~Fits(PieceSize)
  <2>1. Failed
    BY <1>7 DEF Fixed
  <2>2. ListTypes' /\ PageIsDue' /\ eof' /\ buf' = <<>>
    BY <1>1, <1>7, <2>1, FailedKeeps
  <2>3. stat' = stat
    BY <2>1 DEF Failed
  <2> QED
    BY <1>5, <1>7, <2>2, <2>3
<1>8. CASE stat = "FINISHED"
  <2>1. HandOver("FINISHED", TRUE)
    BY <1>8
  <2>2. Due(folder, upper, "FINISHED", pos') = Due(folder, upper, stat, pos)
    BY <1>1, <1>8
  <2>3. ListTypes' /\ PageIsDue' /\ eof' = TRUE /\ buf' = <<>>
    BY <1>1, <1>3, <1>4, <2>1, <2>2, HandOverKeeps
  <2>4. stat' = "FINISHED"
    BY <2>1 DEF HandOver
  <2> QED
    BY <1>5, <2>3, <2>4
<1>9. QED
  BY <1>6, <1>7, <1>8

\* The two passes over the folder, and what is due in them.
PassOf(kind, here, cont, next) ==
  \/ kind = "dir" /\ here = "DIR" /\ cont = "DIR_CONT" /\ next = "FILE"
  \/ kind = "file" /\ here = "FILE" /\ cont = "FILE_CONT" /\ next = "TAIL"

\* Both passes count and put out alike.
LEMMA PassDue ==
  ASSUME NEW f \in Seq(Entries), NEW up \in BOOLEAN, NEW k \in 1 .. Len(f),
         NEW kind, NEW here, NEW cont, NEW next, PassOf(kind, here, cont, next)
  PROVE  /\ Due(f, up, cont, k) = Due(f, up, here, k - 1)
         /\ f[k].kind = kind => Due(f, up, here, k) = Append(Due(f, up, here, k - 1), f[k].name)
         /\ f[k].kind # kind => Due(f, up, here, k) = Due(f, up, here, k - 1)
         /\ Entered(f, cont, k) = Entered(f, here, k - 1)
         /\ f[k].kind = kind => Entered(f, here, k) = Entered(f, here, k - 1) + 1
         /\ f[k].kind # kind => Entered(f, here, k) = Entered(f, here, k - 1)
         /\ f[k].kind = kind => Entered(f, cont, k) < Len(f)
         /\ Entered(f, here, k) \in Nat /\ Entered(f, here, k - 1) \in Nat /\ Entered(f, cont, k) \in Nat
<1>1. here \in Stats /\ here \notin {"DIR_CONT", "FILE_CONT"}
  BY DEF Stats, PassOf
<1>2. k \in 0 .. Len(f) /\ k - 1 \in 0 .. Len(f)
  OBVIOUS
<1> DEFINE a == Entered(f, here, k - 1)
           b == Entered(f, here, k)
           c == Entered(f, cont, k)
<1>3. a \in Nat /\ b \in Nat
  BY <1>1, <1>2, EnteredType
<1>4. /\ Due(f, up, cont, k) = Due(f, up, here, k - 1)
      /\ f[k].kind = kind => Due(f, up, here, k) = Append(Due(f, up, here, k - 1), f[k].name)
      /\ f[k].kind # kind => Due(f, up, here, k) = Due(f, up, here, k - 1)
  <2>1. CASE here = "DIR"
    BY <2>1, DueGrows DEF PassOf
  <2>2. CASE here = "FILE"
    BY <2>2, DueGrows DEF PassOf
  <2> QED
    BY <2>1, <2>2 DEF PassOf
<1>5. c = a /\ b = a + (IF f[k].kind = kind THEN 1 ELSE 0) /\ (f[k].kind = kind => c < Len(f))
  <2>1. CASE here = "DIR"
    BY <2>1, EnteredMoves DEF PassOf
  <2>2. CASE here = "FILE"
    BY <2>2, EnteredMoves DEF PassOf
  <2> QED
    BY <2>1, <2>2 DEF PassOf
<1> HIDE DEF a, b, c
<1>6. /\ f[k].kind = kind => b = a + 1
      /\ f[k].kind # kind => b = a
      /\ c \in Nat
  BY <1>3, <1>5
<1>7. QED
  BY <1>3, <1>4, <1>5, <1>6 DEF a, b, c

\* What an entry is.
LEMMA EntryType ==
  ASSUME NEW f \in Seq(Entries), NEW k \in 1 .. Len(f)
  PROVE  f[k].size \in Nat /\ f[k].name \in Shown
<1>1. f[k] \in Entries
  OBVIOUS
<1>2. QED
  BY <1>1 DEF Entries, Shown

\* The next entry of a pass.
LEMMA EntryKeeps ==
  ASSUME ListInv, ~eof, room >= 0, NEW kind, NEW cont, NEW next,
         PassOf(kind, stat, cont, next), Entry(kind, cont, next)
  PROVE  ListInv'
<1>1. ListTypes /\ Places /\ PageIsDue /\ (Enough => Buffers)
  BY DEF ListInv
<1>2. folder \in Seq(Entries) /\ upper \in BOOLEAN /\ pos \in 0 .. Len(folder) /\ room \in Int /\ taken \in Nat
      /\ Len(folder) \in Nat
  BY <1>1 DEF ListTypes
<1>3. stat \in {"DIR", "FILE"} /\ cont \in {"DIR_CONT", "FILE_CONT"} /\ next \in {"FILE", "TAIL"}
      /\ stat \in Stats /\ cont \in Stats /\ next \in Stats
  BY DEF PassOf, Stats
<1>4. Enough => taken <= 1 + Entered(folder, stat, pos)
  BY <1>1, <1>3 DEF Buffers
<1>5. CASE pos >= Len(folder)
  <2>1. Again(next) /\ pos' = 0 /\ pos = Len(folder) /\ pos' \in 0 .. Len(folder)
    BY <1>2, <1>5 DEF Entry
  <2>2. Due(folder, upper, next, pos') = Due(folder, upper, stat, pos)
    <3>1. CASE stat = "DIR"
      BY <1>2, <2>1, <3>1, DueMoves DEF PassOf
    <3>2. CASE stat = "FILE"
      BY <1>2, <2>1, <3>2, DueMoves DEF PassOf
    <3> QED
      BY <1>3, <3>1, <3>2
  <2>3. ListTypes' /\ PageIsDue' /\ ~eof' /\ room' = room
    BY <1>1, <1>3, <2>1, <2>2, AgainKeeps
  <2>4. stat' = next /\ taken' = taken /\ folder' = folder /\ full' = full
    BY <2>1 DEF Again
  <2>5. Places'
    BY <1>2, <1>3, <2>3, <2>4 DEF Places
  <2>6. next = "FILE" => Entered(folder, next, 0) = Entered(folder, stat, pos)
    BY <1>2, <2>1, EnteredType DEF PassOf
  <2>7. Enough' => Enough
    BY <2>4 DEF Enough
  <2>8. Enough => Buffers'
    <3>1. stat' = "FILE" => Entered(folder', stat', pos') = Entered(folder, stat, pos)
      BY <2>1, <2>4, <2>6
    <3>2. Enough => (stat' = "FILE" => taken' <= 1 + Entered(folder', stat', pos'))
      BY <1>4, <2>4, <3>1
    <3>3. stat' \in {"FILE", "TAIL"}
      BY <1>3, <2>4
    <3> QED
      BY <2>3, <3>2, <3>3 DEF Buffers
  <2> QED
    BY <2>3, <2>5, <2>7, <2>8 DEF ListInv
<1>6. CASE pos < Len(folder)
  <2> DEFINE k == pos + 1
             e == folder[k]
             n == Entered(folder, stat, pos)
  <2>1. k \in 1 .. Len(folder) /\ k - 1 = pos /\ k \in 0 .. Len(folder) /\ k > 0
    BY <1>2, <1>6
  <2>2. pos' = k /\ (e.kind # kind => Again(stat))
        /\ (e.kind = kind /\ Fits(e.size) => Put(e.name, e.size, stat))
        /\ (e.kind = kind /\ ~Fits(e.size) => HandOver(cont, FALSE))
    <3>1. ~(pos >= Len(folder))
      BY <1>2, <1>6
    <3>2. /\ pos' = k
          /\ IF e.kind # kind THEN Again(stat)
             ELSE IF Fits(e.size) THEN Put(e.name, e.size, stat) ELSE HandOver(cont, FALSE)
      BY <3>1, Zenon DEF Entry
    <3> HIDE DEF e, k
    <3> QED
      BY <3>2, Zenon
  <2>3. e.size \in Nat /\ e.name \in Shown
    BY <1>2, <2>1, EntryType
  <2> HIDE DEF k
  <2>4. /\ Due(folder, upper, cont, k) = Due(folder, upper, stat, pos)
        /\ e.kind = kind => Due(folder, upper, stat, k) = Append(Due(folder, upper, stat, pos), e.name)
        /\ e.kind # kind => Due(folder, upper, stat, k) = Due(folder, upper, stat, pos)
        /\ Entered(folder, cont, k) = n
        /\ e.kind = kind => Entered(folder, stat, k) = n + 1
        /\ e.kind # kind => Entered(folder, stat, k) = n
        /\ n \in Nat
    BY <1>2, <2>1, PassDue
  <2>5. pos' \in 0 .. Len(folder)
    BY <2>1, <2>2
  <2>6. Enough => taken <= 1 + n
    BY <1>4
  <2> HIDE DEF n
  <2>7. CASE e.kind # kind
    <3>1. Again(stat) /\ Due(folder, upper, stat, pos') = Due(folder, upper, stat, pos)
      BY <2>2, <2>4, <2>7
    <3>2. ListTypes' /\ PageIsDue' /\ ~eof' /\ room' = room
      BY <1>1, <1>3, <2>5, <3>1, AgainKeeps
    <3>3. stat' = stat /\ taken' = taken /\ folder' = folder /\ full' = full
      BY <3>1 DEF Again
    <3>4. Places'
      BY <1>2, <1>3, <3>2, <3>3 DEF Places
    <3>5. Entered(folder', stat', pos') = n
      BY <2>2, <2>4, <2>7, <3>3
    <3>6. Enough' => Enough
      BY <3>3 DEF Enough
    <3>7. Enough => Buffers'
      BY <1>3, <2>6, <3>2, <3>3, <3>5 DEF Buffers
    <3> QED
      BY <3>2, <3>4, <3>6, <3>7 DEF ListInv
  <2>8. CASE e.kind = kind /\ Fits(e.size)
    <3>1. Put(e.name, e.size, stat) /\ Due(folder, upper, stat, pos') = Append(Due(folder, upper, stat, pos), e.name)
      BY <2>2, <2>4, <2>8
    <3>2. ListTypes' /\ PageIsDue' /\ ~eof' /\ room' >= 0
      <4> HIDE DEF e
      <4> QED
        BY <1>1, <1>3, <2>3, <2>5, <2>8, <3>1, PutKeeps
    <3>3. stat' = stat /\ taken' = taken /\ folder' = folder /\ full' = full
      BY <3>1 DEF Put
    <3>4. Places'
      BY <1>3, <3>2, <3>3 DEF Places, ListTypes
    <3>5. Entered(folder', stat', pos') = n + 1
      BY <2>2, <2>4, <2>8, <3>3
    <3>6. Enough' => Enough
      BY <3>3 DEF Enough
    <3>7. Enough => Buffers'
      <4>1. Enough => taken' <= 1 + (n + 1)
        BY <1>2, <2>4, <2>6, <3>3
      <4> QED
        BY <1>3, <3>2, <3>3, <3>5, <4>1 DEF Buffers
    <3> QED
      BY <3>2, <3>4, <3>6, <3>7 DEF ListInv
  <2>9. CASE e.kind = kind /\ ~Fits(e.size)
    <3>1. HandOver(cont, FALSE) /\ Due(folder, upper, cont, pos') = Due(folder, upper, stat, pos)
      BY <2>2, <2>4, <2>9
    <3>2. ListTypes' /\ PageIsDue' /\ eof' = FALSE /\ buf' = <<>> /\ room' = -1
      BY <1>1, <1>3, <2>5, <3>1, HandOverKeeps
    <3>3. stat' = cont /\ taken' = taken /\ folder' = folder /\ full' = full
      BY <3>1 DEF HandOver
    <3>a. pos' > 0 /\ folder'[pos'].kind = kind
      BY <2>1, <2>2, <2>9, <3>3
    <3>4. Places'
      <4>1. stat' = "DIR_CONT" => kind = "dir"
        BY <3>3 DEF PassOf
      <4>2. stat' = "FILE_CONT" => kind = "file"
        BY <3>3 DEF PassOf
      <4> QED
        BY <1>3, <3>2, <3>3, <3>a, <4>1, <4>2 DEF Places
    <3>5. Entered(folder', stat', pos') = n
      BY <2>2, <2>4, <3>3
    <3>6. Enough' => Enough
      BY <3>3 DEF Enough
    <3>7. Enough => Buffers'
      BY <1>3, <2>6, <3>2, <3>3, <3>5 DEF Buffers
    <3> QED
      BY <3>2, <3>4, <3>6, <3>7 DEF ListInv
  <2> QED
    BY <2>7, <2>8, <2>9
<1>7. QED
  BY <1>2, <1>5, <1>6

\* An entry that waited for this buffer.
LEMMA EntryAgainKeeps ==
  ASSUME ListInv, ~eof, room >= 0, NEW kind, NEW here, NEW next,
         PassOf(kind, here, stat, next), EntryAgain(here)
  PROVE  ListInv'
<1>1. ListTypes /\ Places /\ PageIsDue /\ (Enough => Buffers) /\ pos' = pos
  BY DEF ListInv, EntryAgain
<1>2. folder \in Seq(Entries) /\ upper \in BOOLEAN /\ pos \in 0 .. Len(folder) /\ room \in Int /\ taken \in Nat
      /\ Len(folder) \in Nat
  BY <1>1 DEF ListTypes
<1>3. here \in {"DIR", "FILE"} /\ stat \in {"DIR_CONT", "FILE_CONT"} /\ here \in Stats
  BY DEF PassOf, Stats
<1>4. pos > 0 /\ folder[pos].kind = kind
  <2>1. CASE stat = "DIR_CONT"
    BY <1>1, <2>1 DEF Places, PassOf
  <2>2. CASE stat = "FILE_CONT"
    BY <1>1, <2>2 DEF Places, PassOf
  <2> QED
    BY <1>3, <2>1, <2>2
<1>5. pos \in 1 .. Len(folder)
  BY <1>2, <1>4
<1> DEFINE e == folder[pos]
           n == Entered(folder, stat, pos)
<1>6. e.size \in Nat /\ e.name \in Shown
  BY <1>2, <1>5, EntryType
<1>7. /\ Due(folder, upper, here, pos) = Append(Due(folder, upper, stat, pos), e.name)
      /\ Entered(folder, here, pos) = n + 1 /\ n \in Nat
  <2>1. /\ Due(folder, upper, stat, pos) = Due(folder, upper, here, pos - 1)
        /\ e.kind = kind => Due(folder, upper, here, pos) = Append(Due(folder, upper, here, pos - 1), e.name)
        /\ Entered(folder, stat, pos) = Entered(folder, here, pos - 1)
        /\ e.kind = kind => Entered(folder, here, pos) = Entered(folder, here, pos - 1) + 1
        /\ Entered(folder, here, pos - 1) \in Nat
    BY <1>2, <1>5, PassDue
  <2> QED
    BY <1>4, <2>1
<1>8. Enough => room = BufSize /\ taken <= 2 + n /\ e.size < BufSize
  BY <1>1, <1>2, <1>3, <1>5 DEF Buffers, Enough
<1> HIDE DEF n
<1>9. CASE Fits(e.size)
  <2>1. Put(e.name, e.size, here)
    BY <1>9 DEF EntryAgain
  <2>2. Due(folder, upper, here, pos') = Append(Due(folder, upper, stat, pos), e.name)
    BY <1>1, <1>7
  <2>3. ListTypes' /\ PageIsDue' /\ ~eof' /\ room' >= 0
    <3> HIDE DEF e
    <3> QED
      BY <1>1, <1>2, <1>3, <1>6, <1>9, <2>1, <2>2, PutKeeps
  <2>4. stat' = here /\ taken' = taken /\ folder' = folder /\ full' = full
    BY <2>1 DEF Put
  <2>5. Places'
    BY <1>3, <2>3, <2>4 DEF Places, ListTypes
  <2>6. Entered(folder', stat', pos') = n + 1
    BY <1>1, <1>7, <2>4
  <2>7. Enough' => Enough
    BY <2>4 DEF Enough
  <2>8. Enough => Buffers'
    <3>1. Enough => taken' <= 1 + (n + 1)
      BY <1>2, <1>7, <1>8, <2>4
    <3> QED
      BY <1>3, <2>3, <2>4, <2>6, <3>1 DEF Buffers
  <2> QED
    BY <2>3, <2>5, <2>7, <2>8 DEF ListInv
<1>10. CASE ~Fits(e.size)
  <2>1. Failed
    BY <1>10 DEF EntryAgain
  <2>2. ListTypes' /\ PageIsDue' /\ eof' /\ buf' = <<>>
    BY <1>1, <1>3, <2>1, FailedKeeps
  <2>3. stat' = stat /\ folder' = folder /\ full' = full
    BY <2>1 DEF Failed
  <2>4. Places'
    BY <1>1, <1>3, <2>2, <2>3 DEF Places
  <2>5. ~Enough
    BY <1>2, <1>6, <1>8, <1>10 DEF Fits
  <2>6. ~Enough'
    BY <2>3, <2>5 DEF Enough
  <2> QED
    BY <2>2, <2>4, <2>6 DEF ListInv
<1>11. QED
  BY <1>9, <1>10

\* A buffer is offered, or one that is too short.
LEMMA OfferKeeps ==
  ASSUME ListInv, OfferBuffer
  PROVE  ListInv'
<1>1. ListTypes /\ Places /\ PageIsDue /\ (Enough => Buffers) /\ ~eof /\ room < 0
  BY DEF ListInv, OfferBuffer
<1>2. /\ folder' = folder /\ upper' = upper /\ full' = full /\ stat' = stat /\ pos' = pos /\ page' = page /\ buf' = buf
  BY DEF OfferBuffer
<1>3. folder \in Seq(Entries) /\ pos \in 0 .. Len(folder) /\ room \in Int /\ taken \in Nat /\ full \in Nat
      /\ Len(folder) \in Nat /\ page \in Seq(Shown) /\ BufSize \in Nat
  BY <1>1, ListingAssumption DEF ListTypes
<1>4. stat \in {"HEAD", "DIR_CONT", "FILE_CONT"} /\ buf = <<>>
  BY <1>1 DEF Places
<1>5. Enough' <=> Enough
  BY <1>2 DEF Enough
<1> DEFINE n == Entered(folder, stat, pos)
<1>6. stat \in {"DIR_CONT", "FILE_CONT"} => n < Len(folder) /\ n \in Nat
  <2>1. ASSUME stat \in {"DIR_CONT", "FILE_CONT"} PROVE pos \in 1 .. Len(folder)
    BY <1>1, <1>3, <2>1 DEF Places
  <2>2. CASE stat = "DIR_CONT"
    <3>1. PassOf("dir", "DIR", stat, "FILE") /\ folder[pos].kind = "dir"
      BY <1>1, <2>2 DEF PassOf, Places
    <3>2. upper \in BOOLEAN /\ pos \in 1 .. Len(folder)
      BY <1>1, <2>1, <2>2 DEF ListTypes
    <3> QED
      BY <1>3, <3>1, <3>2, PassDue
  <2>3. CASE stat = "FILE_CONT"
    <3>1. PassOf("file", "FILE", stat, "TAIL") /\ folder[pos].kind = "file"
      BY <1>1, <2>3 DEF PassOf, Places
    <3>2. upper \in BOOLEAN /\ pos \in 1 .. Len(folder)
      BY <1>1, <2>1, <2>3 DEF ListTypes
    <3> QED
      BY <1>3, <3>1, <3>2, PassDue
  <2> QED
    BY <1>4, <2>2, <2>3
<1>7. Enough => taken < full
  <2>1. Enough => full > Len(folder)
    BY DEF Enough
  <2>2. Enough /\ stat = "HEAD" => taken = 0
    BY <1>1, <1>3, ListingAssumption DEF Buffers
  <2>3. Enough /\ stat \in {"DIR_CONT", "FILE_CONT"} => taken <= 1 + n
    BY <1>1, <1>3, ListingAssumption DEF Buffers
  <2> HIDE DEF n
  <2> QED
    BY <1>3, <1>4, <1>6, <2>1, <2>2, <2>3
<1>8. ListTypes'
  <2>1. (taken' = taken + 1 /\ room' = BufSize /\ eof' = FALSE) \/ (taken' = taken /\ room' = room /\ eof' = TRUE)
    BY DEF OfferBuffer
  <2>a. taken + 1 \in Nat /\ BufSize \in Int
    BY <1>3
  <2>2. taken' \in Nat /\ room' \in Int /\ eof' \in BOOLEAN
    BY <1>3, <2>1, <2>a, Zenon
  <2> QED
    BY <1>1, <1>2, <2>2 DEF ListTypes
<1>9. Places'
  BY <1>1, <1>2, <1>3, <1>4 DEF Places, OfferBuffer
<1>10. PageIsDue'
  <2>1. page \o buf = page
    BY <1>3, <1>4, ConcatEmptySeq
  <2>2. page \o buf = Due(folder, upper, stat, pos)
    BY <1>1 DEF PageIsDue
  <2>3. page = Due(folder, upper, stat, pos)
    BY <2>1, <2>2
  <2> QED
    BY <1>1, <1>2, <2>2, <2>3 DEF PageIsDue
<1>11. Enough => Buffers'
  <2>1. SUFFICES ASSUME Enough PROVE Buffers'
    OBVIOUS
  <2>2. taken' = taken + 1 /\ room' = BufSize /\ eof' = FALSE
    BY <1>7, <2>1 DEF OfferBuffer
  <2>3. Entered(folder', stat', pos') = n
    BY <1>2
  <2>4. stat = "HEAD" => taken = 0
    BY <1>1, <1>3, <2>1, ListingAssumption DEF Buffers
  <2>5. stat \in {"DIR_CONT", "FILE_CONT"} => taken <= 1 + n
    BY <1>1, <1>3, <2>1, ListingAssumption DEF Buffers
  <2> HIDE DEF n
  <2>6. stat' = "HEAD" => taken' <= 1
    BY <1>2, <2>2, <2>4
  <2>7. stat' \in {"DIR_CONT", "FILE_CONT"} => taken' <= 2 + n
    BY <1>2, <1>3, <1>6, <2>2, <2>5
  <2> QED
    BY <1>2, <1>4, <2>2, <2>3, <2>6, <2>7 DEF Buffers
<1>12. QED
  BY <1>5, <1>8, <1>9, <1>10, <1>11 DEF ListInv

\* The invariant of the page.
LEMMA ListInvStep == ListInv /\ [ListNext]_listVars => ListInv'
<1>1. SUFFICES ASSUME ListInv, [ListNext]_listVars PROVE ListInv'
  OBVIOUS
<1>2. CASE OfferBuffer
  BY <1>1, <1>2, OfferKeeps
<1>3. CASE OutputOneItem
  <2>1. ~eof /\ room >= 0
    BY <1>3 DEF OutputOneItem
  <2>2. CASE stat = "HEAD" /\ Fixed(Piece("head"), "GO_UPPER")
    BY <1>1, <2>1, <2>2, HeadKeeps
  <2>3. CASE stat = "GO_UPPER" /\ upper /\ Fixed(Piece("upper"), "DIR")
    BY <1>1, <2>1, <2>3, UpperKeeps
  <2>4. CASE stat = "GO_UPPER" /\ ~upper /\ Again("DIR") /\ UNCHANGED pos
    BY <1>1, <2>1, <2>4, UpperKeeps
  <2>5. CASE stat = "DIR" /\ Entry("dir", "DIR_CONT", "FILE")
    BY <1>1, <2>1, <2>5, EntryKeeps DEF PassOf
  <2>6. CASE stat = "DIR_CONT" /\ EntryAgain("DIR")
    <3>1. PassOf("dir", "DIR", stat, "FILE")
      BY <2>6 DEF PassOf
    <3> QED
      BY <1>1, <2>1, <2>6, <3>1, EntryAgainKeeps
  <2>7. CASE stat = "FILE" /\ Entry("file", "FILE_CONT", "TAIL")
    BY <1>1, <2>1, <2>7, EntryKeeps DEF PassOf
  <2>8. CASE stat = "FILE_CONT" /\ EntryAgain("FILE")
    <3>1. PassOf("file", "FILE", stat, "TAIL")
      BY <2>8 DEF PassOf
    <3> QED
      BY <1>1, <2>1, <2>8, <3>1, EntryAgainKeeps
  <2>9. CASE stat = "TAIL" /\ Fixed(Piece("tail"), "FINISHED")
    BY <1>1, <2>1, <2>9, TailKeeps
  <2>10. CASE stat = "FINISHED" /\ HandOver("FINISHED", TRUE) /\ UNCHANGED pos
    BY <1>1, <2>1, <2>10, TailKeeps
  <2> QED
    BY <1>3, <2>2, <2>3, <2>4, <2>5, <2>6, <2>7, <2>8, <2>9, <2>10 DEF OutputOneItem
<1>4. CASE UNCHANGED listVars
  BY <1>1, <1>4 DEF listVars, ListInv, ListTypes, Places, PageIsDue, Enough, Buffers
<1>5. QED
  BY <1>1, <1>2, <1>3, <1>4 DEF ListNext

\* At the start nothing is due.
LEMMA ListInvInit == ListInit => ListInv
<1>1. SUFFICES ASSUME ListInit PROVE ListInv
  OBVIOUS
<1>2. ListTypes
  <2>1. folder \in Seq(Entries) /\ full \in Nat
    BY <1>1, ListingAssumption DEF ListInit
  <2>2. <<>> \in Seq(Shown) /\ "HEAD" \in Stats /\ 0 \in 0 .. Len(folder)
    BY <2>1 DEF Stats
  <2>3. taken \in Nat /\ room \in Int /\ pos \in 0 .. Len(folder)
    BY <1>1, <2>2 DEF ListInit
  <2>4. page \in Seq(Shown) /\ buf \in Seq(Shown)
    BY <1>1, <2>2 DEF ListInit
  <2>5. upper \in BOOLEAN /\ eof \in BOOLEAN /\ stat \in Stats
    BY <1>1, <2>2 DEF ListInit
  <2> QED
    BY <2>1, <2>3, <2>4, <2>5 DEF ListTypes
<1>3. Places
  BY <1>1 DEF ListInit, Places
<1>4. PageIsDue
  <2>1. Due(folder, upper, stat, pos) = <<>>
    BY <1>1, DueIs DEF ListInit
  <2>2. <<>> \in Seq(Shown)
    OBVIOUS
  <2>3. <<>> \o <<>> = <<>> /\ Begins(<<>>, <<>>)
    BY <2>2, ConcatEmptySeq, BeginsFacts
  <2> QED
    BY <1>1, <2>1, <2>3 DEF ListInit, PageIsDue
<1>5. Buffers
  BY <1>1 DEF ListInit, Buffers
<1>6. QED
  BY <1>2, <1>3, <1>4, <1>5 DEF ListInv

\* The invariant gives what the page shows.
LEMMA InvGivesOrder == ListInv => ListingInOrder
<1>1. SUFFICES ASSUME ListInv PROVE ListingInOrder
  OBVIOUS
<1>2. ListTypes /\ Places /\ PageIsDue /\ (Enough => Buffers)
  BY <1>1 DEF ListInv
<1>3. folder \in Seq(Entries) /\ upper \in BOOLEAN /\ stat \in Stats /\ pos \in 0 .. Len(folder) /\ page \in Seq(Shown)
  BY <1>2 DEF ListTypes
<1>4. WholePage = Due(folder, upper, "FINISHED", pos)
  <2>1. WholePage = Files(folder, upper, Len(folder)) \o <<Piece("tail")>>
    BY DEF WholePage, Files, Dirs, Opening
  <2>2. Due(folder, upper, "FINISHED", pos) = Files(folder, upper, Len(folder)) \o <<Piece("tail")>>
    BY DueIs
  <2> QED
    BY <2>1, <2>2
<1> DEFINE d == Due(folder, upper, stat, pos)
           w == Due(folder, upper, "FINISHED", pos)
<1>5. d \in Seq(Shown) /\ Begins(d, w)
  <2>1. stat \in {"DIR_CONT", "FILE_CONT"} => pos > 0
    BY <1>2 DEF Places
  <2> QED
    BY <1>3, <2>1, DueBegins
<1>6. w \in Seq(Shown)
  <2>1. "FINISHED" \in Stats
    BY DEF Stats
  <2> QED
    BY <1>3, <2>1, DueBegins
<1>7. Begins(page, d)
  BY <1>2 DEF PageIsDue
<1>8. eof /\ stat = "FINISHED" => page = w
  BY <1>2 DEF PageIsDue
<1> HIDE DEF d, w
<1>9. Begins(page, w)
  BY <1>3, <1>5, <1>6, <1>7, BeginsFacts
<1>10. IsPrefix(page, w)
  <2>1. Len(page) \in Nat /\ Len(w) \in Nat /\ DOMAIN page = 1 .. Len(page)
    BY <1>3, <1>6
  <2> QED
    BY <1>3, <1>6, <1>9, <2>1 DEF IsPrefix, Begins
<1>11. Enough => (eof => stat \in {"FINISHED", "TAIL"})
  BY <1>2 DEF Buffers
<1>12. QED
  BY <1>4, <1>8, <1>10, <1>11 DEF ListingInOrder, Enough, w

\* However a folder falls into buffers, the page shows its entries once each, folders
\* first, in their order; and only a short buffer, an entry larger than a buffer or a
\* tail that does not fit cuts it off (sfs_read_local_folder_cb).
THEOREM ListingTheorem == ListSpec => []ListingInOrder
<1>1. QED
  BY ListInvInit, ListInvStep, InvGivesOrder, PTL DEF ListSpec

----------------------------------------------------------------------------
(* Forms                                                                   *)

Tokens ==
  STRING \cup {"b0", "form", "name", "filename", "type", "empty", "b1", "b2", "b3", "end"}
Lasts ==
  {"VOID", "BOUNDARY", "FORM", "NAME", "FILENAME", "TYPE", "EMPTY_LINE", "VALUE", "FINISH", "ERROR"}
Parsers == [last : Lasts, values : Seq(Tokens), i : Nat \ {0}, ok : BOOLEAN]

Size(d) == Len(Form(d))
Cuts(d) == {1, 5, Size(d) - 3, Size(d) - 2}

\* The element the parser is at, after g tokens of the body, and the values of it.
At(d, last, g, values) ==
  \/ /\ \/ last = "BOUNDARY" /\ g = 1
        \/ last = "FORM" /\ g = 2
        \/ last = "NAME" /\ g = 3
        \/ last = "FILENAME" /\ g = 4
        \/ last = "TYPE" /\ g = 5
        \/ last = "EMPTY_LINE" /\ g = 6
     /\ values = <<>>
  \/ last = "VALUE" /\ 6 <= g /\ g <= Size(d) - 4 /\ values = SubSeq(d, 1, g - 6)
  \/ last = "BOUNDARY" /\ g = Size(d) - 1 /\ values = d
  \/ last = "FINISH" /\ g = Size(d) /\ values = d

\* The chunk ends behind b tokens, and no cut the parser does not get over was met before.
OnTheWay(d, b, last, g, values) ==
  \/ last = "VOID" /\ values = <<>> /\ b = 0
  \/ /\ At(d, last, g, values) /\ g <= b
     /\ last = "BOUNDARY" => b > 1
     /\ last = "TYPE" => b > 5

Fine(d, a, b, p, bad) ==
  p.ok /\ (bad <=> b \in Cuts(d)) /\ OnTheWay(d, b, p.last, a + p.i - 1, p.values)

\* One was met.
Stuck(d, a, b, p, bad) ==
  /\ bad
  /\ \/ ~p.ok /\ p.last \in {"VOID", "ERROR"}
     \/ p.ok /\ p.last = "VALUE" /\ a + p.i - 1 >= Size(d) - 3 /\ a + p.i - 1 <= b
     \/ p.ok /\ p.last = "BOUNDARY" /\ b = Size(d) - 2 /\ p.i > b - a
     \/ p.ok /\ p.last = "BOUNDARY" /\ a = Size(d) - 2 /\ p.i = 1 /\ b > a

PostTypes ==
  /\ data \in Uploads /\ from \in Nat /\ to \in Nat /\ from <= to /\ to <= Size(data)
  /\ parser \in Parsers /\ badCut \in BOOLEAN

PostInv ==
  PostTypes /\ (Fine(data, from, to, parser, badCut) \/ Stuck(data, from, to, parser, badCut))

\* Sequences over a set are sequences over a larger one.
LEMMA SeqGrows ==
  ASSUME NEW S, NEW T, S \subseteq T, NEW s \in Seq(S)
  PROVE  s \in Seq(T)
OBVIOUS

\* What the data of a form is.
LEMMA UploadType ==
  ASSUME NEW d \in Uploads
  PROVE  d \in Seq(Tokens) /\ \A i \in 1 .. Len(d) - 1 : ~(d[i] = "b1" /\ d[i + 1] = "b2")
<1>1. d \in Seq(STRING)
  BY PostDataAssumption
<1>2. STRING \subseteq Tokens
  BY Zenon DEF Tokens
<1>3. d \in Seq(Tokens)
  BY <1>1, <1>2, SeqGrows, Zenon
<1>4. \A i \in 1 .. Len(d) - 1 : ~(d[i] = "b1" /\ d[i + 1] = "b2")
  BY PostDataAssumption
<1>5. QED
  BY <1>3, <1>4

\* Two sequences one behind the other.
LEMMA BehindIs ==
  ASSUME NEW S, NEW s \in Seq(S), NEW t \in Seq(S)
  PROVE  /\ s \o t \in Seq(S) /\ Len(s \o t) = Len(s) + Len(t)
         /\ \A k \in 1 .. Len(s) : (s \o t)[k] = s[k]
         /\ \A k \in 1 .. Len(t) : (s \o t)[Len(s) + k] = t[k]
<1> DEFINE u == s \o t
<1>1. Len(s) \in Nat /\ Len(t) \in Nat
  OBVIOUS
<1>2. u \in Seq(S) /\ Len(u) = Len(s) + Len(t)
      /\ \A i \in 1 .. Len(s) + Len(t) : u[i] = IF i <= Len(s) THEN s[i] ELSE t[i - Len(s)]
  BY ConcatProperties
<1> HIDE DEF u
<1>3. \A k \in 1 .. Len(s) : u[k] = s[k]
  BY <1>1, <1>2
<1>4. ASSUME NEW k \in 1 .. Len(t) PROVE u[Len(s) + k] = t[k]
  <2>1. Len(s) + k \in 1 .. Len(s) + Len(t) /\ ~(Len(s) + k <= Len(s)) /\ (Len(s) + k) - Len(s) = k
    BY <1>1
  <2> QED
    BY <1>2, <2>1
<1>5. QED
  BY <1>2, <1>3, <1>4 DEF u

\* The tokens of the body.
LEMMA FormIs ==
  ASSUME NEW d \in Seq(Tokens)
  PROVE  LET F == Form(d) IN
         /\ F \in Seq(Tokens) /\ Len(F) = Len(d) + 10 /\ Len(d) \in Nat
         /\ F[1] = "b0" /\ F[2] = "form" /\ F[3] = "name" /\ F[4] = "filename" /\ F[5] = "type" /\ F[6] = "empty"
         /\ \A k \in 1 .. Len(d) : F[6 + k] = d[k]
         /\ F[Len(d) + 7] = "b1" /\ F[Len(d) + 8] = "b2" /\ F[Len(d) + 9] = "b3" /\ F[Len(d) + 10] = "end"
<1> DEFINE h == <<"b0", "form", "name", "filename", "type", "empty">>
           t == <<"b1", "b2", "b3", "end">>
           n == Len(d)
<1>1. h \in Seq(Tokens) /\ Len(h) = 6 /\ h[1] = "b0" /\ h[2] = "form" /\ h[3] = "name"
      /\ h[4] = "filename" /\ h[5] = "type" /\ h[6] = "empty"
  <2>1. h \in Seq(Tokens)
    <3>1. "b0" \in Tokens /\ "form" \in Tokens /\ "name" \in Tokens /\ "filename" \in Tokens /\ "type" \in Tokens
          /\ "empty" \in Tokens
      BY DEF Tokens
    <3> QED
      BY <3>1
  <2>2. Len(h) = 6
    OBVIOUS
  <2>3. h[1] = "b0" /\ h[2] = "form" /\ h[3] = "name" /\ h[4] = "filename" /\ h[5] = "type" /\ h[6] = "empty"
    OBVIOUS
  <2> QED
    BY <2>1, <2>2, <2>3
<1>2. t \in Seq(Tokens) /\ Len(t) = 4 /\ t[1] = "b1" /\ t[2] = "b2" /\ t[3] = "b3" /\ t[4] = "end"
  <2>1. t \in Seq(Tokens)
    <3>1. "b1" \in Tokens /\ "b2" \in Tokens /\ "b3" \in Tokens /\ "end" \in Tokens
      BY DEF Tokens
    <3> QED
      BY <3>1
  <2>2. Len(t) = 4
    OBVIOUS
  <2>3. t[1] = "b1" /\ t[2] = "b2" /\ t[3] = "b3" /\ t[4] = "end"
    OBVIOUS
  <2> QED
    BY <2>1, <2>2, <2>3
<1>3. Form(d) = (h \o d) \o t
  BY DEF Form
<1>4. n \in Nat
  OBVIOUS
<1> HIDE DEF h, t
<1> DEFINE u == h \o d
<1>5. u \in Seq(Tokens) /\ Len(u) = n + 6 /\ (\A k \in 1 .. 6 : u[k] = h[k]) /\ (\A k \in 1 .. n : u[6 + k] = d[k])
  <2>1. u \in Seq(Tokens) /\ Len(u) = Len(h) + n /\ (\A k \in 1 .. Len(h) : u[k] = h[k])
        /\ (\A k \in 1 .. n : u[Len(h) + k] = d[k])
    <3>1. h \in Seq(Tokens)
      BY <1>1
    <3>2. u \in Seq(Tokens) /\ Len(u) = Len(h) + n
      BY <3>1, BehindIs
    <3>3. \A k \in 1 .. Len(h) : u[k] = h[k]
      BY <3>1, BehindIs
    <3>4. \A k \in 1 .. n : u[Len(h) + k] = d[k]
      BY <3>1, BehindIs
    <3> QED
      BY <3>2, <3>3, <3>4
  <2> HIDE DEF u, n
  <2> QED
    BY <1>1, <1>4, <2>1
<1> HIDE DEF u
<1>6. /\ u \o t \in Seq(Tokens) /\ Len(u \o t) = n + 10
      /\ \A k \in 1 .. n + 6 : (u \o t)[k] = u[k]
      /\ \A k \in 1 .. 4 : (u \o t)[n + 6 + k] = t[k]
  <2>1. /\ u \o t \in Seq(Tokens) /\ Len(u \o t) = Len(u) + Len(t)
        /\ \A k \in 1 .. Len(u) : (u \o t)[k] = u[k]
        /\ \A k \in 1 .. Len(t) : (u \o t)[Len(u) + k] = t[k]
    <3>1. t \in Seq(Tokens) /\ u \in Seq(Tokens)
      BY <1>2, <1>5
    <3>2. u \o t \in Seq(Tokens) /\ Len(u \o t) = Len(u) + Len(t)
      BY <3>1, BehindIs
    <3>3. \A k \in 1 .. Len(u) : (u \o t)[k] = u[k]
      BY <3>1, BehindIs
    <3>4. \A k \in 1 .. Len(t) : (u \o t)[Len(u) + k] = t[k]
      BY <3>1, BehindIs
    <3> QED
      BY <3>2, <3>3, <3>4
  <2> DEFINE F == u \o t
  <2> HIDE DEF F, n
  <2>2. /\ F \in Seq(Tokens) /\ Len(F) = n + 10
        /\ \A k \in 1 .. n + 6 : F[k] = u[k]
        /\ \A k \in 1 .. 4 : F[n + 6 + k] = t[k]
    BY <1>2, <1>4, <1>5, <2>1 DEF F
  <2> QED
    BY <2>2 DEF F, n
<1> DEFINE F == u \o t
<1>7. Form(d) = F
  BY <1>3 DEF u
<1> HIDE DEF F, n
<1>8. /\ F[1] = "b0" /\ F[2] = "form" /\ F[3] = "name" /\ F[4] = "filename" /\ F[5] = "type" /\ F[6] = "empty"
  <2>1. \A k \in 1 .. 6 : k \in 1 .. n + 6
    BY <1>4
  <2>2. \A k \in 1 .. 6 : F[k] = h[k]
    BY <1>5, <1>6, <2>1 DEF F
  <2> QED
    BY <1>1, <2>2
<1>9. \A k \in 1 .. n : F[6 + k] = d[k]
  <2>1. \A k \in 1 .. n : 6 + k \in 1 .. n + 6
    BY <1>4
  <2> QED
    BY <1>5, <1>6, <2>1 DEF F
<1>10. F[n + 7] = "b1" /\ F[n + 8] = "b2" /\ F[n + 9] = "b3" /\ F[n + 10] = "end"
  <2>1. \A k \in 1 .. 4 : F[n + 6 + k] = t[k]
    BY <1>6 DEF F
  <2>2. n + 6 + 1 = n + 7 /\ n + 6 + 2 = n + 8 /\ n + 6 + 3 = n + 9 /\ n + 6 + 4 = n + 10
    BY <1>4
  <2>3. F[n + 6 + 1] = "b1" /\ F[n + 6 + 2] = "b2" /\ F[n + 6 + 3] = "b3" /\ F[n + 6 + 4] = "end"
    BY <1>2, <2>1
  <2> QED
    BY <2>2, <2>3
<1>11. QED
  BY <1>4, <1>6, <1>7, <1>8, <1>9, <1>10 DEF F, n

\* The boundary stands behind the data and nowhere else.
LEMMA OneBoundary ==
  ASSUME NEW d \in Uploads, NEW k \in 1 .. Len(Form(d)) - 1
  PROVE  Form(d)[k] = "b1" /\ Form(d)[k + 1] = "b2" <=> k = Len(Form(d)) - 3
<1> DEFINE F == Form(d)
           n == Len(d)
<1>1. d \in Seq(Tokens) /\ \A i \in 1 .. n - 1 : ~(d[i] = "b1" /\ d[i + 1] = "b2")
  BY UploadType
<1>2. /\ F \in Seq(Tokens) /\ Len(F) = n + 10 /\ n \in Nat
      /\ F[1] = "b0" /\ F[2] = "form" /\ F[3] = "name" /\ F[4] = "filename" /\ F[5] = "type" /\ F[6] = "empty"
      /\ \A i \in 1 .. n : F[6 + i] = d[i]
      /\ F[n + 7] = "b1" /\ F[n + 8] = "b2" /\ F[n + 9] = "b3" /\ F[n + 10] = "end"
  BY <1>1, FormIs
<1>3. k \in 1 .. n + 9
  BY <1>2
<1> HIDE DEF F, n
<1>4. CASE k <= 6
  <2>1. k \in {1, 2, 3, 4, 5, 6}
    BY <1>3, <1>4
  <2>2. F[k] # "b1"
    BY <1>2, <2>1
  <2> QED
    BY <1>2, <1>4, <2>2 DEF F
<1>5. CASE k > 6 /\ k <= n + 5
  <2>1. k - 6 \in 1 .. n - 1 /\ k - 6 \in 1 .. n /\ k - 5 \in 1 .. n /\ 6 + (k - 6) = k /\ 6 + (k - 5) = k + 1
        /\ (k - 6) + 1 = k - 5
    BY <1>2, <1>3, <1>5
  <2>2. F[k] = d[k - 6] /\ F[k + 1] = d[k - 5]
    BY <1>2, <2>1
  <2>3. ~(d[k - 6] = "b1" /\ d[k - 5] = "b2")
    BY <1>1, <2>1
  <2> QED
    BY <1>2, <1>5, <2>2, <2>3 DEF F
<1>6. CASE k > 6 /\ k = n + 6
  <2>1. F[k + 1] = "b1"
    BY <1>2, <1>6
  <2> QED
    BY <1>2, <1>6, <2>1 DEF F
<1>7. CASE k = n + 7
  BY <1>2, <1>7 DEF F
<1>8. CASE k \in {n + 8, n + 9}
  BY <1>2, <1>8 DEF F
<1>9. QED
  BY <1>2, <1>3, <1>4, <1>5, <1>6, <1>7, <1>8

\* Parts of a sequence.
LEMMA PartIs ==
  ASSUME NEW S, NEW s \in Seq(S), NEW a \in Nat, NEW b \in Nat, a <= b, b <= Len(s)
  PROVE  LET p == SubSeq(s, a + 1, b) IN
         /\ p \in Seq(S) /\ Len(p) = b - a /\ \A k \in 1 .. b - a : p[k] = s[a + k]
<1>1. Len(s) \in Nat /\ a + 1 \in Nat /\ (a + 1) - 1 = a
  OBVIOUS
<1>2. SubSeq(s, a + 1, b) = [k \in 1 .. b - a |-> s[a + k]]
  OBVIOUS
<1>3. \A k \in 1 .. b - a : a + k \in 1 .. Len(s)
  BY <1>1
<1>4. \A k \in 1 .. b - a : s[a + k] \in S
  BY <1>3
<1>5. b - a \in Nat
  OBVIOUS
<1> DEFINE p == [k \in 1 .. b - a |-> s[a + k]]
<1>6. p \in Seq(S) /\ Len(p) = b - a /\ \A k \in 1 .. b - a : p[k] = s[a + k]
  BY <1>4, <1>5
<1>7. QED
  BY <1>2, <1>6

\* Where memmem finds the boundary.
LEMMA MemmemIs ==
  ASSUME NEW d \in Uploads, NEW a \in Nat, NEW b \in Nat, a <= b, b <= Len(Form(d)), NEW i \in Nat \ {0}
  PROVE  LET chunk == SubSeq(Form(d), a + 1, b)
             L == Len(Form(d))
         IN  /\ a + i <= L - 3 /\ L - 2 <= b => Memmem(chunk, i) = L - 3 - a
             /\ ~(a + i <= L - 3 /\ L - 2 <= b) => Memmem(chunk, i) = 0
<1> DEFINE F == Form(d)
           L == Len(F)
           chunk == SubSeq(F, a + 1, b)
           here == {j \in i .. Len(chunk) - 1 : chunk[j] = "b1" /\ chunk[j + 1] = "b2"}
<1>1. d \in Seq(Tokens)
  BY UploadType
<1>2. F \in Seq(Tokens) /\ L \in Nat /\ L >= 10
  <2>1. F \in Seq(Tokens) /\ L = Len(d) + 10 /\ Len(d) \in Nat
    BY <1>1, FormIs
  <2> QED
    BY <2>1
<1>3. \A k \in 1 .. L - 1 : (F[k] = "b1" /\ F[k + 1] = "b2") <=> k = L - 3
  BY OneBoundary
<1> HIDE DEF F
<1>4. b <= L
  BY DEF F
<1>5. Len(chunk) = b - a /\ \A k \in 1 .. b - a : chunk[k] = F[a + k]
  BY <1>2, <1>4, PartIs
<1> HIDE DEF L, chunk
<1>6. Len(chunk) = b - a
  BY <1>5
<1>7. ASSUME NEW j \in i .. Len(chunk) - 1 PROVE (chunk[j] = "b1" /\ chunk[j + 1] = "b2") <=> a + j = L - 3
  <2>1. j \in i .. (b - a) - 1
    BY <1>6
  <2>2. L \in Nat /\ b <= L
    BY <1>2, <1>4
  <2>3. j \in 1 .. b - a /\ j + 1 \in 1 .. b - a
    BY <2>1
  <2>4. a + j \in 1 .. L - 1 /\ a + (j + 1) = (a + j) + 1
    BY <2>1, <2>2
  <2>5. chunk[j] = F[a + j] /\ chunk[j + 1] = F[a + (j + 1)]
    BY <1>5, <2>3
  <2>6. (F[a + j] = "b1" /\ F[(a + j) + 1] = "b2") <=> a + j = L - 3
    BY <1>3, <2>4
  <2> QED
    BY <2>4, <2>5, <2>6
<1>8. Memmem(chunk, i) = IF here = {} THEN 0 ELSE Min(here)
  BY DEF Memmem
<1>9. ASSUME a + i <= L - 3, L - 2 <= b PROVE Memmem(chunk, i) = L - 3 - a
  <2> DEFINE x == L - 3 - a
  <2>1. x \in i .. Len(chunk) - 1 /\ a + x = L - 3 /\ x \in Int
    BY <1>2, <1>9, <1>6
  <2>2. \A j \in i .. Len(chunk) - 1 : a + j = L - 3 => j = x
    BY <1>2
  <2> HIDE DEF x
  <2>3. here = {x}
    <3>1. x \in here
      BY <1>7, <2>1
    <3>2. \A j \in here : j = x
      BY <1>7, <2>2
    <3> HIDE DEF here
    <3> QED
      BY <3>1, <3>2
  <2>4. Min({x}) = x
    BY <2>1 DEF Min
  <2>5. Memmem(chunk, i) = x
    <3> HIDE DEF here
    <3> QED
      BY <1>8, <2>3, <2>4
  <2> QED
    BY <2>5 DEF x
<1>10. ASSUME ~(a + i <= L - 3 /\ L - 2 <= b) PROVE Memmem(chunk, i) = 0
  <2>1. \A j \in i .. Len(chunk) - 1 : a + j # L - 3
    BY <1>2, <1>10, <1>6
  <2>2. here = {}
    BY <1>7, <2>1
  <2> HIDE DEF here
  <2> QED
    BY <1>8, <2>2
<1>11. QED
  BY <1>9, <1>10 DEF chunk, L, F

\* What the chunk has up to e goes on with the data up to g.
Joined(chunk, d, a, g, e) ==
  /\ SubSeq(chunk, (g - a) + 1, e - a) \in Seq(Tokens)
  /\ SubSeq(d, 1, g - 6) \o SubSeq(chunk, (g - a) + 1, e - a) = SubSeq(d, 1, e - 6)

\* What lies between two places in the data.
LEMMA DataPart ==
  ASSUME NEW d \in Uploads, NEW a \in Nat, NEW b \in Nat, a <= b, b <= Len(Form(d)),
         NEW g \in Nat, NEW e \in Nat, 6 <= g, a <= g, g <= e, e <= b, e <= Len(Form(d)) - 4
  PROVE  Joined(SubSeq(Form(d), a + 1, b), d, a, g, e)
<1> DEFINE F == Form(d)
           n == Len(d)
           chunk == SubSeq(F, a + 1, b)
           p == SubSeq(chunk, (g - a) + 1, e - a)
           q == SubSeq(d, (g - 6) + 1, e - 6)
<1>1. d \in Seq(Tokens)
  BY UploadType
<1>2. F \in Seq(Tokens) /\ Len(F) = n + 10 /\ n \in Nat /\ \A k \in 1 .. n : F[6 + k] = d[k]
  BY <1>1, FormIs
<1>a. b <= Len(F) /\ e <= Len(F) - 4
  OBVIOUS
<1> HIDE DEF F
<1>3. chunk \in Seq(Tokens) /\ Len(chunk) = b - a /\ \A k \in 1 .. b - a : chunk[k] = F[a + k]
  BY <1>2, <1>a, PartIs
<1> HIDE DEF chunk, n
<1>4. /\ g - a \in Nat /\ e - a \in Nat /\ g - a <= e - a /\ e - a <= Len(chunk) /\ (e - a) - (g - a) = e - g
      /\ g - 6 \in Nat /\ e - 6 \in Nat /\ g - 6 <= e - 6 /\ e - 6 <= n /\ (e - 6) - (g - 6) = e - g
  BY <1>2, <1>3, <1>a
<1>5. p \in Seq(Tokens) /\ Len(p) = e - g /\ \A k \in 1 .. e - g : p[k] = chunk[(g - a) + k]
  BY <1>3, <1>4, PartIs
<1>6. q \in Seq(Tokens) /\ Len(q) = e - g /\ \A k \in 1 .. e - g : q[k] = d[(g - 6) + k]
  <2> DEFINE x == g - 6
             y == e - 6
             z == SubSeq(d, x + 1, y)
  <2>1. x \in Nat /\ y \in Nat /\ x <= y /\ y <= Len(d) /\ y - x = e - g
    BY <1>4 DEF n
  <2> HIDE DEF x, y
  <2>2. z \in Seq(Tokens) /\ Len(z) = y - x /\ \A k \in 1 .. y - x : z[k] = d[x + k]
    BY <1>1, <2>1, PartIs, ZenonT(60)
  <2>3. z \in Seq(Tokens) /\ Len(z) = e - g /\ \A k \in 1 .. e - g : z[k] = d[x + k]
    <3> HIDE DEF z
    <3> QED
      BY <2>1, <2>2
  <2> QED
    BY <2>3 DEF x, y
<1> HIDE DEF p, q
<1>7. ASSUME NEW k \in 1 .. e - g PROVE p[k] = q[k]
  <2>1. (g - a) + k \in 1 .. b - a /\ a + ((g - a) + k) = g + k
    BY <1>2
  <2>2. (g - 6) + k \in 1 .. n /\ 6 + ((g - 6) + k) = g + k
    BY <1>2, <1>a
  <2>3. p[k] = F[g + k]
    BY <1>3, <1>5, <2>1
  <2>4. q[k] = F[g + k]
    BY <1>2, <1>6, <2>2
  <2> QED
    BY <2>3, <2>4
<1>8. p = q
  BY <1>5, <1>6, <1>7, SeqEqual
<1>9. SubSeq(d, 1, g - 6) \o q = SubSeq(d, 1, e - 6)
  <2>1. 1 \in 1 .. Len(d) + 1 /\ g - 6 \in 1 - 1 .. Len(d) /\ e - 6 \in g - 6 .. Len(d)
    BY <1>2, <1>4 DEF n
  <2> QED
    BY <1>1, <2>1, ConcatAdjacentSubSeq DEF q
<1>10. SubSeq(d, 1, g - 6) \o p = SubSeq(d, 1, e - 6)
  BY <1>8, <1>9
<1>11. QED
  BY <1>5, <1>10, Zenon DEF p, chunk, F, Joined

\* q is p behind n tokens more.
Moved(q, p, type, value, n) ==
  q \in Parsers /\ q.values = p.values \o value /\ q.last = type /\ q.i = p.i + n /\ q.ok = p.ok

\* CONSUME_ITEM moves the parser.
LEMMA ConsumeIs ==
  ASSUME NEW p \in Parsers, NEW type \in Lasts, NEW value \in Seq(Tokens), NEW n \in Nat
  PROVE  Moved(Consume(p, type, value, n), p, type, value, n)
<1> DEFINE v == p.values \o value
           m == p.i + n
           q == [p EXCEPT !.values = v, !.last = type, !.i = m]
<1>1. p.values \in Seq(Tokens) /\ p.i \in Nat \ {0}
  BY DEF Parsers
<1>2. v \in Seq(Tokens)
  <2> DEFINE x == p.values
  <2>1. x \in Seq(Tokens)
    BY <1>1
  <2> HIDE DEF x
  <2>2. x \o value \in Seq(Tokens)
    BY <2>1
  <2> QED
    BY <2>2 DEF x
<1>3. m \in Nat \ {0}
  <2> DEFINE x == p.i
  <2>1. x \in Nat \ {0}
    BY <1>1
  <2> HIDE DEF x
  <2>2. x + n \in Nat \ {0}
    BY <2>1
  <2> QED
    BY <2>2 DEF x
<1>4. Consume(p, type, value, n) = q
  BY DEF Consume
<1> HIDE DEF v, m
<1>5. q \in Parsers /\ q.values = v /\ q.last = type /\ q.i = m /\ q.ok = p.ok
  BY <1>2, <1>3 DEF Parsers
<1> HIDE DEF q
<1>6. QED
  BY <1>4, <1>5, Zenon DEF v, m, Moved

\* Nothing is added to the values.
LEMMA ConsumeNothing ==
  ASSUME NEW p \in Parsers, NEW type \in Lasts, NEW n \in Nat
  PROVE  LET q == Consume(p, type, <<>>, n) IN
         q \in Parsers /\ q.values = p.values /\ q.last = type /\ q.i = p.i + n /\ q.ok = p.ok
<1> DEFINE q == Consume(p, type, <<>>, n)
           v == p.values
<1>1. <<>> \in Seq(Tokens) /\ v \in Seq(Tokens)
  BY DEF Parsers
<1>2. q \in Parsers /\ q.values = v \o <<>> /\ q.last = type /\ q.i = p.i + n /\ q.ok = p.ok
  <2> DEFINE e == <<>>
             r == Consume(p, type, e, n)
  <2>1. e \in Seq(Tokens)
    BY <1>1
  <2> HIDE DEF e
  <2>2. r \in Parsers /\ r.values = p.values \o e /\ r.last = type /\ r.i = p.i + n /\ r.ok = p.ok
    BY <2>1, ConsumeIs DEF Moved
  <2> QED
    BY <2>2 DEF e
<1> HIDE DEF q, v
<1>3. v \o <<>> = v
  BY <1>1, ConcatEmptySeq
<1>4. q.values = v
  BY <1>2, <1>3
<1>5. QED
  BY <1>2, <1>4 DEF q, v

\* A line that is expected is taken.
LEMMA LineTaken ==
  ASSUME NEW p \in Parsers, NEW c, NEW word, NEW type,
         p.last \notin {"EMPTY_LINE", "VALUE", "FINISH", "ERROR"},
         c[p.i] = word, word # "end", word = "type" => p.i # Len(c),
         {l \in HeadLine(p.last) : l[1] = word} = {<<word, type>>}
  PROVE  Element(c, p) = Consume(p, type, <<>>, 1)
<1> DEFINE lines == {l \in HeadLine(p.last) : l[1] = c[p.i]}
<1>1. lines = {<<word, type>>}
  OBVIOUS
<1>2. ~(lines = {} \/ (c[p.i] = "type" /\ p.i = Len(c)))
  <2>1. ~(c[p.i] = "type" /\ p.i = Len(c))
    OBVIOUS
  <2> HIDE DEF lines
  <2> QED
    BY <1>1, <2>1
<1>3. (CHOOSE l \in lines : TRUE)[2] = type
  <2> HIDE DEF lines
  <2>1. (CHOOSE l \in {<<word, type>>} : TRUE) = <<word, type>>
    OBVIOUS
  <2> QED
    BY <1>1, <2>1
<1>4. Element(c, p) =
        IF lines = {} \/ (c[p.i] = "type" /\ p.i = Len(c)) THEN Error(p)
        ELSE Consume(p, (CHOOSE l \in lines : TRUE)[2], <<>>, 1)
  BY Zenon DEF Element
<1> HIDE DEF lines
<1>5. QED
  BY <1>2, <1>3, <1>4, Zenon

\* Another line is an error, and so is a type at the end of the chunk.
LEMMA LineRefused ==
  ASSUME NEW p \in Parsers, NEW c, NEW word,
         p.last \notin {"EMPTY_LINE", "VALUE", "FINISH", "ERROR"},
         c[p.i] = word, word # "end",
         {l \in HeadLine(p.last) : l[1] = word} = {} \/ (word = "type" /\ p.i = Len(c))
  PROVE  Element(c, p) = Error(p)
<1> DEFINE lines == {l \in HeadLine(p.last) : l[1] = c[p.i]}
<1>1. lines = {} \/ (c[p.i] = "type" /\ p.i = Len(c))
  OBVIOUS
<1>2. Element(c, p) =
        IF lines = {} \/ (c[p.i] = "type" /\ p.i = Len(c)) THEN Error(p)
        ELSE Consume(p, (CHOOSE l \in lines : TRUE)[2], <<>>, 1)
  BY Zenon DEF Element
<1> HIDE DEF lines
<1>3. QED
  BY <1>1, <1>2, Zenon

\* The lines of the head of a part.
LEMMA HeadLines ==
  /\ {l \in HeadLine("BOUNDARY") : l[1] = "form"} = {<<"form", "FORM">>}
  /\ {l \in HeadLine("FORM") : l[1] = "name"} = {<<"name", "NAME">>}
  /\ {l \in HeadLine("NAME") : l[1] = "filename"} = {<<"filename", "FILENAME">>}
  /\ {l \in HeadLine("FILENAME") : l[1] = "type"} = {<<"type", "TYPE">>}
  /\ {l \in HeadLine("TYPE") : l[1] = "empty"} = {<<"empty", "EMPTY_LINE">>}
  /\ {l \in HeadLine("BOUNDARY") : l[1] = "b3"} = {}
<1>1. HeadLine("BOUNDARY") = {<<"form", "FORM">>}
  BY DEF HeadLine
<1>2. HeadLine("FORM") = {<<"name", "NAME">>}
  BY DEF HeadLine
<1>3. HeadLine("NAME") = {<<"filename", "FILENAME">>, <<"empty", "EMPTY_LINE">>}
  BY DEF HeadLine
<1>4. HeadLine("FILENAME") = {<<"type", "TYPE">>}
  BY DEF HeadLine
<1>5. HeadLine("TYPE") = {<<"empty", "EMPTY_LINE">>}
  BY DEF HeadLine
<1>6. {l \in HeadLine("BOUNDARY") : l[1] = "form"} = {<<"form", "FORM">>}
  BY <1>1
<1>7. {l \in HeadLine("FORM") : l[1] = "name"} = {<<"name", "NAME">>}
  BY <1>2
<1>8. {l \in HeadLine("NAME") : l[1] = "filename"} = {<<"filename", "FILENAME">>}
  BY <1>3
<1>9. {l \in HeadLine("FILENAME") : l[1] = "type"} = {<<"type", "TYPE">>}
  BY <1>4
<1>10. {l \in HeadLine("TYPE") : l[1] = "empty"} = {<<"empty", "EMPTY_LINE">>}
  BY <1>5
<1>11. {l \in HeadLine("BOUNDARY") : l[1] = "b3"} = {}
  BY <1>1
<1>12. QED
  BY <1>6, <1>7, <1>8, <1>9, <1>10, <1>11

\* The parser is in the data, g tokens of the body behind it, and the chunk goes on.
InData(d, a, b, p, g) ==
  /\ a <= b /\ b <= Len(Form(d)) /\ g = a + p.i - 1 /\ 6 <= g /\ g < b /\ g <= Len(Form(d)) - 4
  /\ p.values = SubSeq(d, 1, g - 6) /\ p.last \in {"EMPTY_LINE", "VALUE"}

\* Of a value: the rest of a chunk without a boundary, or the rest of the data.
LEMMA ValueIs ==
  ASSUME NEW d \in Uploads, NEW a \in Nat, NEW b \in Nat, NEW p \in Parsers, NEW g \in Nat, InData(d, a, b, p, g)
  PROVE  LET L == Len(Form(d))
             q == Value(SubSeq(Form(d), a + 1, b), p)
         IN  /\ q \in Parsers /\ q.ok = p.ok
             /\ b <= L - 4 => q.last = "VALUE" /\ q.i = b - a + 1 /\ q.values = SubSeq(d, 1, b - 6)
             /\ b = L - 3 => q.last = "VALUE" /\ q.i = b - a + 1
             /\ b >= L - 2 => q.last = "BOUNDARY" /\ q.i = L - a /\ q.values = d
<1> DEFINE F == Form(d)
           L == Len(F)
           c == SubSeq(F, a + 1, b)
           i == p.i
           v == p.values
           j == Memmem(c, i)
           q == Value(c, p)
<1>1. d \in Seq(Tokens)
  BY UploadType
<1>2. F \in Seq(Tokens) /\ L = Len(d) + 10 /\ Len(d) \in Nat /\ L \in Nat
  <2>1. F \in Seq(Tokens) /\ L = Len(d) + 10 /\ Len(d) \in Nat
    BY <1>1, FormIs
  <2> QED
    BY <2>1
<1>3. i \in Nat \ {0} /\ v \in Seq(Tokens) /\ v = SubSeq(d, 1, g - 6)
  BY DEF Parsers, InData
<1>4. g = a + i - 1 /\ 6 <= g /\ g < b /\ g <= L - 4 /\ b <= L /\ a <= b /\ b <= Len(Form(d))
  BY DEF InData
<1>5. /\ a + i <= L - 3 /\ L - 2 <= b => j = L - 3 - a
      /\ ~(a + i <= L - 3 /\ L - 2 <= b) => j = 0
  BY <1>3, <1>4, MemmemIs, ZenonT(60)
<1>6. c \in Seq(Tokens) /\ Len(c) = b - a
  <2> HIDE DEF F
  <2> QED
    BY <1>2, <1>4, PartIs
<1> DEFINE V == "VALUE"
           W == "BOUNDARY"
<1>7. V \in Lasts /\ W \in Lasts
  BY DEF Lasts
<1>8. q = IF j = 0 THEN Consume(p, V, SubSeq(c, i, Len(c)), Len(c) + 1 - i)
          ELSE IF j = i /\ p.last = V THEN Consume(p, W, <<>>, 3)
          ELSE Consume(Consume(p, V, SubSeq(c, i, j - 1), j - i), W, <<>>, 3)
  BY DEF Value
<1>9. \A e \in Nat : g <= e /\ e <= b /\ e <= L - 4 =>
        SubSeq(c, (g - a) + 1, e - a) \in Seq(Tokens) /\ v \o SubSeq(c, (g - a) + 1, e - a) = SubSeq(d, 1, e - 6)
  <2>1. a <= g
    <3> HIDE DEF i, L, F
    <3> QED
      BY <1>3, <1>4
  <2>3. a <= b /\ b <= Len(Form(d)) /\ 6 <= g
    BY <1>4
  <2>2. ASSUME NEW e \in Nat, g <= e, e <= b, e <= L - 4
        PROVE  SubSeq(c, (g - a) + 1, e - a) \in Seq(Tokens)
               /\ SubSeq(d, 1, g - 6) \o SubSeq(c, (g - a) + 1, e - a) = SubSeq(d, 1, e - 6)
    <3>1. Joined(c, d, a, g, e)
      BY <2>1, <2>2, <2>3, DataPart
    <3> QED
      BY <3>1, Zenon DEF Joined
  <2> HIDE DEF v, c, L
  <2> QED
    BY <1>3, <2>2
<1> HIDE DEF F, L, c, i, v, j, q, V, W
<1>10. (g - a) + 1 = i /\ a + i <= L - 3
  BY <1>2, <1>3, <1>4
<1>11. CASE b <= L - 3
  <2> DEFINE x == SubSeq(c, i, Len(c))
             m == Len(c) + 1 - i
  <2>1. j = 0
    BY <1>2, <1>5, <1>11
  <2>2. q = Consume(p, V, x, m)
    BY <1>8, <2>1, Zenon
  <2>3. m \in Nat /\ i + m = b - a + 1
    BY <1>3, <1>4, <1>6
  <2>4. x \in Seq(Tokens)
    <3> DEFINE y == i - 1
               z == Len(c)
    <3>1. y \in Nat /\ z \in Nat /\ y <= z /\ y + 1 = i
      BY <1>3, <1>4, <1>6
    <3> HIDE DEF y
    <3>2. SubSeq(c, y + 1, z) \in Seq(Tokens)
      <4>1. z <= Len(c)
        BY <3>1
      <4> HIDE DEF z
      <4> QED
        BY <1>6, <3>1, <4>1, PartIs
    <3> QED
      BY <3>1, <3>2
  <2>5. b <= L - 4 => v \o x = SubSeq(d, 1, b - 6)
    <3>1. g <= b
      BY <1>4
    <3>2. b <= L - 4 => v \o SubSeq(c, (g - a) + 1, b - a) = SubSeq(d, 1, b - 6)
      BY <1>9, <3>1
    <3> QED
      BY <1>6, <1>10, <3>2
  <2> HIDE DEF x, m
  <2>6. q \in Parsers /\ q.values = v \o x /\ q.last = V /\ q.i = i + m /\ q.ok = p.ok
    <3> DEFINE r == Consume(p, V, x, m)
    <3>1. m \in Nat
      BY <2>3
    <3>2. r \in Parsers /\ r.values = p.values \o x /\ r.last = V /\ r.i = p.i + m /\ r.ok = p.ok
      <4>1. Moved(r, p, V, x, m)
        BY <1>7, <2>4, <3>1, ConsumeIs
      <4> QED
        BY <4>1, Zenon DEF Moved
    <3> HIDE DEF r
    <3> QED
      BY <2>2, <3>2, Zenon DEF r, v, i
  <2>7. b <= L - 4 => q.values = SubSeq(d, 1, b - 6)
    BY <2>5, <2>6
  <2>8. q.i = b - a + 1
    BY <2>3, <2>6
  <2>9. ~(b >= L - 2)
    BY <1>2, <1>11
  <2> QED
    BY <2>6, <2>7, <2>8, <2>9 DEF q, c, L, F, V, W
<1>12. CASE b >= L - 2
  <2>1. j = L - 3 - a
    BY <1>2, <1>5, <1>10, <1>12
  <2>2. j \in Nat /\ j >= i /\ j # 0 /\ j - i \in Nat /\ i + (j - i) = j /\ j + 3 = L - a /\ j - 1 = (L - 4) - a
    BY <1>2, <1>3, <1>10, <2>1
  <2> DEFINE x == SubSeq(c, i, j - 1)
  <2>3. x \in Seq(Tokens) /\ v \o x = d
    <3>1. L - 4 \in Nat /\ g <= L - 4 /\ L - 4 <= b /\ L - 4 <= L - 4 /\ (L - 4) - 6 = Len(d)
      BY <1>2, <1>4, <1>12
    <3>2. x \in Seq(Tokens) /\ v \o x = SubSeq(d, 1, (L - 4) - 6)
      BY <1>9, <1>10, <2>2, <3>1
    <3>3. SubSeq(d, 1, Len(d)) = d
      BY <1>1, SubSeqFull
    <3> HIDE DEF x
    <3> QED
      BY <3>1, <3>2, <3>3
  <2>4. ~(b <= L - 4) /\ b # L - 3
    BY <1>2, <1>12
  <2>5. CASE j = i /\ p.last = V
    <3>1. q = Consume(p, W, <<>>, 3)
      BY <1>8, <2>2, <2>5, Zenon
    <3>2. 3 \in Nat
      OBVIOUS
    <3>3. q \in Parsers /\ q.values = v /\ q.last = W /\ q.i = i + 3 /\ q.ok = p.ok
      <4> DEFINE y == Consume(p, W, <<>>, 3)
      <4>1. y \in Parsers /\ y.values = p.values /\ y.last = W /\ y.i = p.i + 3 /\ y.ok = p.ok
        BY <1>7, <3>2, ConsumeNothing, ZenonT(60)
      <4>2. q = y
        BY <3>1
      <4> HIDE DEF y, q
      <4> QED
        BY <4>1, <4>2 DEF v, i
    <3>4. x = <<>>
      <4>1. j - 1 < i /\ j - 1 \in Int /\ i \in Int
        BY <1>3, <2>2, <2>5
      <4> QED
        BY <4>1, SubSeqEmpty
    <3>5. v \o <<>> = v
      BY <1>3, ConcatEmptySeq
    <3>6. v = d
      BY <2>3, <3>4, <3>5
    <3>7. q.i = L - a /\ q.values = d
      BY <2>2, <2>5, <3>3, <3>6
    <3> QED
      BY <2>4, <3>3, <3>7 DEF q, c, L, F, V, W
  <2>6. CASE ~(j = i /\ p.last = V)
    <3> DEFINE r == Consume(p, V, x, j - i)
    <3>1. q = Consume(r, W, <<>>, 3)
      BY <1>8, <2>2, <2>6, Zenon
    <3>2. r \in Parsers /\ r.values = v \o x /\ r.i = i + (j - i) /\ r.ok = p.ok
      <4> DEFINE m == j - i
      <4>1. m \in Nat
        BY <2>2
      <4>2. x \in Seq(Tokens)
        BY <2>3
      <4> DEFINE y == Consume(p, V, x, m)
      <4> HIDE DEF x, m
      <4>3. y \in Parsers /\ y.values = p.values \o x /\ y.i = p.i + m /\ y.ok = p.ok
        <5>1. Moved(y, p, V, x, m)
          BY <1>7, <4>1, <4>2, ConsumeIs
        <5> QED
          BY <5>1, Zenon DEF Moved
      <4> QED
        BY <4>3, Zenon DEF m, v, i
    <3> HIDE DEF r, x
    <3>3. 3 \in Nat
      OBVIOUS
    <3>4. q \in Parsers /\ q.values = r.values /\ q.last = W /\ q.i = r.i + 3 /\ q.ok = r.ok
      <4> DEFINE y == Consume(r, W, <<>>, 3)
      <4>1. r \in Parsers
        BY <3>2
      <4>2. y \in Parsers /\ y.values = r.values /\ y.last = W /\ y.i = r.i + 3 /\ y.ok = r.ok
        BY <1>7, <3>3, <4>1, ConsumeNothing, ZenonT(60)
      <4> HIDE DEF y
      <4> QED
        BY <3>1, <4>2, Zenon DEF y
    <3>5. q.values = d /\ q.i = L - a /\ q.ok = p.ok
      BY <2>2, <2>3, <3>2, <3>4
    <3> QED
      BY <2>4, <3>4, <3>5 DEF q, c, L, F, V, W
  <2> QED
    BY <2>5, <2>6
<1>13. QED
  BY <1>2, <1>11, <1>12

\* How long the body is.
LEMMA SizeIs ==
  ASSUME NEW d \in Uploads
  PROVE  Size(d) \in Nat /\ Size(d) >= 10 /\ Size(d) = Len(d) + 10 /\ Len(d) \in Nat /\ d \in Seq(Tokens)
<1>1. d \in Seq(Tokens)
  BY UploadType
<1>2. Size(d) = Len(d) + 10 /\ Len(d) \in Nat
  BY <1>1, FormIs DEF Size
<1>3. QED
  BY <1>1, <1>2

\* A chunk of the body.
LEMMA ChunkIs ==
  ASSUME NEW d \in Uploads, NEW a \in Nat, NEW b \in Nat, a <= b, b <= Size(d)
  PROVE  LET c == SubSeq(Form(d), a + 1, b) IN
         c \in Seq(Tokens) /\ Len(c) = b - a /\ \A k \in 1 .. b - a : c[k] = Form(d)[a + k]
<1>1. d \in Seq(Tokens)
  BY UploadType
<1> DEFINE F == Form(d)
<1>2. F \in Seq(Tokens)
  BY <1>1, FormIs
<1>3. b <= Len(F)
  BY DEF Size
<1> HIDE DEF F
<1>4. QED
  BY <1>2, <1>3, PartIs DEF F

\* An error.
LEMMA ErrorIs ==
  ASSUME NEW p \in Parsers
  PROVE  Error(p) \in Parsers /\ Error(p).last = "ERROR" /\ ~Error(p).ok
<1>1. "ERROR" \in Lasts
  BY DEF Lasts
<1>2. Error(p) \in Parsers /\ Error(p).last = "ERROR" /\ Error(p).ok = FALSE
  BY <1>1 DEF Error, Parsers
<1>3. QED
  BY <1>2

\* The parser at the head of a chunk, and a call that fails.
LEMMA RewindIs ==
  ASSUME NEW p \in Parsers
  PROVE  LET q == [p EXCEPT !.i = 1]
             r == [q EXCEPT !.ok = FALSE]
         IN  /\ q \in Parsers /\ q.last = p.last /\ q.values = p.values /\ q.i = 1 /\ q.ok = p.ok
             /\ r \in Parsers /\ r.last = p.last /\ ~r.ok
<1> DEFINE q == [p EXCEPT !.i = 1]
           r == [q EXCEPT !.ok = FALSE]
<1>1. 1 \in Nat \ {0}
  OBVIOUS
<1>2. q \in Parsers /\ q.last = p.last /\ q.values = p.values /\ q.i = 1 /\ q.ok = p.ok
  BY <1>1 DEF Parsers
<1> HIDE DEF q
<1>3. r \in Parsers /\ r.last = q.last /\ r.ok = FALSE
  BY <1>2 DEF Parsers
<1> HIDE DEF r
<1>4. QED
  BY <1>2, <1>3 DEF q, r

\* A line of the head that is taken leads to the next place.
LEMMA HeadGoesOn ==
  ASSUME NEW d \in Uploads, NEW a \in Nat, NEW b \in Nat, NEW p \in Parsers, NEW bad, Fine(d, a, b, p, bad),
         NEW c, NEW type \in Lasts, Element(c, p) = Consume(p, type, <<>>, 1),
         OnTheWay(d, b, type, a + p.i, p.values)
  PROVE  Element(c, p) \in Parsers /\ Fine(d, a, b, Element(c, p), bad)
<1> DEFINE q == Element(c, p)
<1>1. 1 \in Nat
  OBVIOUS
<1>2. q \in Parsers /\ q.values = p.values /\ q.last = type /\ q.i = p.i + 1 /\ q.ok = p.ok
  BY <1>1, ConsumeNothing
<1>3. p.ok /\ (bad <=> b \in Cuts(d))
  BY DEF Fine
<1>4. a + q.i - 1 = a + p.i
  <2> DEFINE i == p.i
             k == q.i
  <2>1. i \in Nat \ {0}
    BY DEF Parsers
  <2>2. k = i + 1
    BY <1>2
  <2> HIDE DEF i, k, q
  <2>3. a + k - 1 = a + i
    BY <2>1, <2>2
  <2> QED
    BY <2>3 DEF i, k
<1> HIDE DEF q
<1>5. OnTheWay(d, b, q.last, a + q.i - 1, q.values)
  BY <1>2, <1>4
<1>6. q.ok
  BY <1>2, <1>3, Zenon
<1>7. Fine(d, a, b, q, bad)
  BY <1>3, <1>5, <1>6, Zenon DEF Fine
<1>8. QED
  BY <1>2, <1>7 DEF q

\* The data is taken over.
LEMMA FineValue ==
  ASSUME NEW d \in Uploads, NEW a \in Nat, NEW b \in Nat, NEW p \in Parsers, NEW bad, Fine(d, a, b, p, bad),
         NEW g \in Nat, InData(d, a, b, p, g)
  PROVE  LET q == Element(SubSeq(Form(d), a + 1, b), p) IN
         q \in Parsers /\ (Fine(d, a, b, q, bad) \/ Stuck(d, a, b, q, bad))
<1> DEFINE c == SubSeq(Form(d), a + 1, b)
           q == Element(c, p)
           L == Size(d)
           k == q.i
<1>1. q = Value(c, p)
  <2>1. p.last \in {"EMPTY_LINE", "VALUE"}
    BY DEF InData
  <2> QED
    BY <2>1, Zenon DEF Element
<1>2. /\ q \in Parsers /\ q.ok = p.ok
      /\ b <= L - 4 => q.last = "VALUE" /\ k = b - a + 1 /\ q.values = SubSeq(d, 1, b - 6)
      /\ b = L - 3 => q.last = "VALUE" /\ k = b - a + 1
      /\ b >= L - 2 => q.last = "BOUNDARY" /\ k = L - a /\ q.values = d
  BY <1>1, ValueIs DEF Size
<1>3. p.ok /\ (bad <=> b \in Cuts(d))
  BY DEF Fine
<1>4. q.ok
  BY <1>2, <1>3, Zenon
<1>5. L \in Nat /\ L >= 10
  BY SizeIs
<1>6. 6 <= g /\ g < b /\ b <= L
  BY DEF InData, Size
<1> HIDE DEF q, k, L
<1>7. CASE b <= L - 4
  <2>1. a + k - 1 = b /\ 6 <= b /\ b <= b
    BY <1>2, <1>5, <1>6, <1>7
  <2>2. At(d, q.last, b, q.values) /\ q.last # "BOUNDARY" /\ q.last # "TYPE"
    BY <1>2, <1>7, <2>1 DEF At, L
  <2>3. OnTheWay(d, b, q.last, a + q.i - 1, q.values)
    BY <2>1, <2>2 DEF OnTheWay, k
  <2>4. Fine(d, a, b, q, bad)
    BY <1>3, <1>4, <2>3, Zenon DEF Fine
  <2> QED
    BY <1>2, <2>4 DEF q
<1>8. CASE b = L - 3
  <2>1. a + k - 1 = b /\ b >= L - 3 /\ b <= b
    BY <1>2, <1>5, <1>8
  <2>2. b \in Cuts(d)
    BY <1>8 DEF Cuts, L
  <2>3. bad
    BY <1>3, <2>2
  <2>4. q.last = "VALUE" /\ a + q.i - 1 >= Size(d) - 3 /\ a + q.i - 1 <= b
    BY <1>2, <1>8, <2>1 DEF k, L
  <2>5. Stuck(d, a, b, q, bad)
    BY <1>4, <2>3, <2>4, Zenon DEF Stuck
  <2> QED
    BY <1>2, <2>5 DEF q
<1>9. CASE b = L - 2
  <2>1. k > b - a
    BY <1>2, <1>5, <1>9
  <2>2. b \in Cuts(d)
    BY <1>9 DEF Cuts, L
  <2>3. bad
    BY <1>3, <2>2
  <2>4. q.last = "BOUNDARY" /\ b = Size(d) - 2 /\ q.i > b - a
    BY <1>2, <1>5, <1>9, <2>1 DEF k, L
  <2>5. Stuck(d, a, b, q, bad)
    BY <1>4, <2>3, <2>4, Zenon DEF Stuck
  <2> QED
    BY <1>2, <2>5 DEF q
<1>10. CASE b >= L - 1
  <2>1. a + k - 1 = L - 1 /\ L - 1 <= b /\ b > 1 /\ b >= L - 2
    BY <1>2, <1>5, <1>10
  <2>2. q.last = "BOUNDARY" /\ q.values = d
    BY <1>2, <2>1
  <2>3. At(d, q.last, L - 1, q.values) /\ q.last # "TYPE"
    BY <2>2 DEF At, L
  <2>4. OnTheWay(d, b, q.last, a + q.i - 1, q.values)
    BY <2>1, <2>3 DEF OnTheWay, k
  <2>5. Fine(d, a, b, q, bad)
    BY <1>3, <1>4, <2>4, Zenon DEF Fine
  <2> QED
    BY <1>2, <2>5 DEF q
<1>11. QED
  BY <1>5, <1>7, <1>8, <1>9, <1>10

\* The type at the end of a chunk.
LEMMA TypeCutOff ==
  ASSUME NEW d \in Uploads, NEW a \in Nat, NEW b \in Nat, NEW p \in Parsers, NEW bad, Fine(d, a, b, p, bad),
         NEW c, Element(c, p) = Error(p), b \in Cuts(d)
  PROVE  Element(c, p) \in Parsers /\ Stuck(d, a, b, Element(c, p), bad)
<1> DEFINE q == Element(c, p)
<1>1. q \in Parsers /\ q.last = "ERROR" /\ ~q.ok
  BY ErrorIs
<1>2. bad
  BY DEF Fine
<1> HIDE DEF q
<1>3. q.last \in {"VOID", "ERROR"}
  BY <1>1
<1>4. Stuck(d, a, b, q, bad)
  BY <1>1, <1>2, <1>3, Zenon DEF Stuck
<1>5. QED
  BY <1>1, <1>4 DEF q

\* One element, with no bad cut behind.
LEMMA FineElement ==
  ASSUME NEW d \in Uploads, NEW a \in Nat, NEW b \in Nat, a <= b, b <= Size(d),
         NEW p \in Parsers, NEW bad, Fine(d, a, b, p, bad), p.i <= b - a
  PROVE  LET q == Element(SubSeq(Form(d), a + 1, b), p) IN
         q \in Parsers /\ (Fine(d, a, b, q, bad) \/ Stuck(d, a, b, q, bad))
<1> DEFINE F == Form(d)
           c == SubSeq(F, a + 1, b)
           q == Element(c, p)
           L == Size(d)
           i == p.i
           last == p.last
           v == p.values
           g == a + i - 1
<1>1. L \in Nat /\ L >= 10 /\ L = Len(d) + 10 /\ Len(d) \in Nat /\ d \in Seq(Tokens) /\ b <= L
  BY SizeIs
<1>2. i \in Nat \ {0} /\ last \in Lasts
  BY DEF Parsers
<1>3. OnTheWay(d, b, last, g, v)
  BY DEF Fine
<1>4. Len(c) = b - a /\ \A k \in 1 .. b - a : c[k] = F[a + k]
  BY ChunkIs
<1>5. F[2] = "form" /\ F[3] = "name" /\ F[4] = "filename" /\ F[5] = "type" /\ F[6] = "empty" /\ F[Len(d) + 10] = "end"
  BY <1>1, FormIs
<1>6. i <= b - a
  OBVIOUS
<1> HIDE DEF i, F, L
<1>7. g \in Nat /\ g < b /\ a + i = g + 1 /\ b # 0
  BY <1>2, <1>6
<1> HIDE DEF g
<1>8. c[i] = F[g + 1]
  <2>1. i \in 1 .. b - a
    BY <1>2, <1>6
  <2> HIDE DEF c
  <2> QED
    BY <1>4, <1>7, <2>1
<1>9. At(d, last, g, v) /\ (last = "BOUNDARY" => b > 1) /\ (last = "TYPE" => b > 5)
  BY <1>3, <1>7 DEF OnTheWay
<1> HIDE DEF c, v
<1>10. ASSUME NEW word, NEW type \in Lasts, c[i] = word, word # "end", word = "type" => i # Len(c),
              last \notin {"EMPTY_LINE", "VALUE", "FINISH", "ERROR"},
              {l \in HeadLine(last) : l[1] = word} = {<<word, type>>}, OnTheWay(d, b, type, g + 1, v)
       PROVE  q \in Parsers /\ Fine(d, a, b, q, bad)
  <2>1. q = Consume(p, type, <<>>, 1)
    BY <1>10, LineTaken DEF i
  <2>2. OnTheWay(d, b, type, a + p.i, p.values)
    BY <1>7, <1>10 DEF v, i
  <2> QED
    BY <2>1, <2>2, HeadGoesOn
<1>11. CASE last = "BOUNDARY" /\ g = 1 /\ v = <<>>
  <2>1. c[i] = "form"
    BY <1>5, <1>8, <1>11
  <2>2. OnTheWay(d, b, "FORM", g + 1, v)
    BY <1>7, <1>11 DEF OnTheWay, At
  <2> QED
    BY <1>10, <1>11, <2>1, <2>2, HeadLines DEF Lasts, c, F
<1>12. CASE last = "FORM" /\ g = 2 /\ v = <<>>
  <2>1. c[i] = "name"
    BY <1>5, <1>8, <1>12
  <2>2. OnTheWay(d, b, "NAME", g + 1, v)
    BY <1>7, <1>12 DEF OnTheWay, At
  <2> QED
    BY <1>10, <1>12, <2>1, <2>2, HeadLines DEF Lasts, c, F
<1>13. CASE last = "NAME" /\ g = 3 /\ v = <<>>
  <2>1. c[i] = "filename"
    BY <1>5, <1>8, <1>13
  <2>2. OnTheWay(d, b, "FILENAME", g + 1, v)
    BY <1>7, <1>13 DEF OnTheWay, At
  <2> QED
    BY <1>10, <1>13, <2>1, <2>2, HeadLines DEF Lasts, c, F
<1>14. CASE last = "FILENAME" /\ g = 4 /\ v = <<>>
  <2>1. c[i] = "type"
    BY <1>5, <1>8, <1>14
  <2>2. CASE b = 5
    <3>1. i = Len(c)
      BY <1>2, <1>4, <1>7, <1>14, <2>2
    <3>2. q = Error(p)
      BY <1>14, <2>1, <3>1, LineRefused DEF i
    <3>3. b \in Cuts(d)
      BY <2>2 DEF Cuts
    <3> QED
      BY <3>2, <3>3, TypeCutOff DEF c, F
  <2>3. CASE b # 5
    <3>1. i # Len(c) /\ b > 5
      BY <1>2, <1>4, <1>7, <1>14, <2>3
    <3>2. OnTheWay(d, b, "TYPE", g + 1, v)
      BY <1>7, <1>14, <3>1 DEF OnTheWay, At
    <3> QED
      BY <1>10, <1>14, <2>1, <3>1, <3>2, HeadLines DEF Lasts, c, F
  <2> QED
    BY <2>2, <2>3
<1>15. CASE last = "TYPE" /\ g = 5 /\ v = <<>>
  <2>1. c[i] = "empty"
    BY <1>5, <1>8, <1>15
  <2>2. OnTheWay(d, b, "EMPTY_LINE", g + 1, v)
    BY <1>7, <1>15 DEF OnTheWay, At
  <2> QED
    BY <1>10, <1>15, <2>1, <2>2, HeadLines DEF Lasts, c, F
<1>16. CASE (last = "EMPTY_LINE" /\ g = 6 /\ v = <<>>)
            \/ (last = "VALUE" /\ 6 <= g /\ g <= L - 4 /\ v = SubSeq(d, 1, g - 6))
  <2>1. 6 <= g /\ g <= L - 4 /\ v = SubSeq(d, 1, g - 6) /\ last \in {"EMPTY_LINE", "VALUE"}
    <3>1. CASE last = "EMPTY_LINE" /\ g = 6 /\ v = <<>>
      <4>1. SubSeq(d, 1, 0) = <<>>
        BY SubSeqEmpty
      <4>2. g - 6 = 0 /\ 6 <= g /\ g <= L - 4
        BY <1>1, <3>1
      <4>3. v = SubSeq(d, 1, g - 6)
        BY <3>1, <4>1, <4>2
      <4> QED
        BY <3>1, <4>2, <4>3
    <3>2. CASE last = "VALUE" /\ 6 <= g /\ g <= L - 4 /\ v = SubSeq(d, 1, g - 6)
      BY <3>2
    <3> QED
      BY <1>16, <3>1, <3>2
  <2>2. g = a + p.i - 1
    BY DEF g, i
  <2>3. InData(d, a, b, p, g)
    BY <1>1, <1>7, <2>1, <2>2 DEF InData, Size, L, v
  <2> QED
    BY <1>7, <2>3, FineValue DEF c, F
<1>17. CASE last = "BOUNDARY" /\ g = L - 1 /\ v = d
  <2>1. c[i] = "end" /\ b = L /\ i = Len(c)
    BY <1>1, <1>2, <1>4, <1>5, <1>7, <1>8, <1>17
  <2>2. q = Consume(p, "FINISH", <<>>, 1)
    <3>1. p.last = "BOUNDARY" /\ c[p.i] = "end" /\ p.i = Len(c)
      BY <1>17, <2>1 DEF i
    <3>2. p.last \notin {"EMPTY_LINE", "VALUE"} /\ p.last \notin {"FINISH", "ERROR"}
      BY <3>1
    <3> QED
      BY <3>1, <3>2, Zenon DEF Element
  <2>3. OnTheWay(d, b, "FINISH", a + p.i, p.values)
    <3>1. OnTheWay(d, b, "FINISH", g + 1, v)
      <4>1. g + 1 = L /\ g + 1 <= b
        BY <1>1, <1>7, <1>17, <2>1
      <4> QED
        BY <1>17, <4>1 DEF OnTheWay, At, L
    <3> QED
      BY <1>7, <3>1 DEF v, i
  <2>4. "FINISH" \in Lasts
    BY DEF Lasts
  <2>5. q \in Parsers /\ Fine(d, a, b, q, bad)
    <3> DEFINE type == "FINISH"
    <3>1. type \in Lasts /\ q = Consume(p, type, <<>>, 1) /\ OnTheWay(d, b, type, a + p.i, p.values)
      BY <2>2, <2>3, <2>4
    <3> HIDE DEF type
    <3> QED
      BY <3>1, HeadGoesOn
  <2> QED
    BY <2>5 DEF c, F
<1>18. ~(last = "FINISH" /\ g = L)
  BY <1>1, <1>7
<1>19. QED
  BY <1>9, <1>11, <1>12, <1>13, <1>14, <1>15, <1>16, <1>17, <1>18 DEF At, L

\* One element, behind a bad cut.
LEMMA StuckElement ==
  ASSUME NEW d \in Uploads, NEW a \in Nat, NEW b \in Nat, a <= b, b <= Size(d),
         NEW p \in Parsers, NEW bad, Stuck(d, a, b, p, bad), p.ok, p.i <= b - a
  PROVE  LET q == Element(SubSeq(Form(d), a + 1, b), p) IN
         q \in Parsers /\ Stuck(d, a, b, q, bad)
<1> DEFINE F == Form(d)
           c == SubSeq(F, a + 1, b)
           q == Element(c, p)
           L == Size(d)
           i == p.i
<1>1. L \in Nat /\ L >= 10 /\ L = Len(d) + 10 /\ Len(d) \in Nat /\ d \in Seq(Tokens) /\ b <= L
  BY SizeIs
<1>2. i \in Nat \ {0} /\ i <= b - a
  BY DEF Parsers
<1>3. c \in Seq(Tokens) /\ Len(c) = b - a /\ \A k \in 1 .. b - a : c[k] = F[a + k]
  BY ChunkIs
<1>4. bad
  BY DEF Stuck
<1>5. \/ p.last = "VALUE" /\ a + i - 1 >= L - 3 /\ a + i - 1 <= b
      \/ p.last = "BOUNDARY" /\ b = L - 2 /\ i > b - a
      \/ p.last = "BOUNDARY" /\ a = L - 2 /\ i = 1 /\ b > a
  BY Zenon DEF Stuck
<1> HIDE DEF L, i, F
<1>6. CASE p.last = "VALUE" /\ a + i - 1 >= L - 3 /\ a + i - 1 <= b
  <2> DEFINE V == "VALUE"
             v == SubSeq(c, i, Len(c))
             n == Len(c) + 1 - i
  <2>1. Memmem(c, i) = 0
    <3>1. ~(a + i <= L - 3 /\ L - 2 <= b)
      BY <1>1, <1>2, <1>6
    <3>2. b <= Len(Form(d)) /\ L = Len(Form(d))
      BY DEF L, Size
    <3> QED
      BY <1>2, <3>1, <3>2, MemmemIs DEF c, F
  <2>2. q = Value(c, p)
    <3>1. p.last \in {"EMPTY_LINE", "VALUE"}
      BY <1>6
    <3> QED
      BY <3>1, Zenon DEF Element
  <2>3. q = Consume(p, V, v, n)
    <3>1. Memmem(c, p.i) = 0
      BY <2>1 DEF i
    <3> QED
      BY <2>2, <3>1, Zenon DEF Value, i
  <2>4. v \in Seq(Tokens)
    <3> HIDE DEF c
    <3>1. (i - 1) + 1 = i /\ i - 1 \in Nat /\ Len(c) \in Nat /\ i - 1 <= Len(c)
      BY <1>1, <1>2, <1>3
    <3> DEFINE m == i - 1
               e == Len(c)
    <3>2. m + 1 = i /\ m \in Nat /\ e \in Nat /\ m <= e /\ e <= Len(c)
      BY <3>1
    <3> HIDE DEF m, e
    <3>3. SubSeq(c, m + 1, e) \in Seq(Tokens)
      BY <1>3, <3>2, PartIs
    <3> QED
      BY <3>2, <3>3 DEF e
  <2>5. n \in Nat /\ i + n = b - a + 1
    <3> HIDE DEF c
    <3> QED
      BY <1>1, <1>2, <1>3
  <2>6. V \in Lasts
    BY DEF Lasts
  <2> HIDE DEF V, v, n
  <2>7. Moved(q, p, V, v, n)
    BY <2>3, <2>4, <2>5, <2>6, ConsumeIs
  <2> HIDE DEF q
  <2>8. q \in Parsers /\ q.last = V /\ q.i = i + n /\ q.ok = p.ok
    BY <2>7, Zenon DEF Moved, i
  <2>9. a + q.i - 1 = b
    <3> DEFINE k == q.i
    <3>1. k = b - a + 1
      BY <2>5, <2>8
    <3> HIDE DEF k
    <3>2. a + k - 1 = b
      BY <3>1
    <3> QED
      BY <3>2 DEF k
  <2>10. q.last = "VALUE" /\ a + q.i - 1 >= L - 3 /\ a + q.i - 1 <= b
    <3>1. b >= L - 3 /\ b <= b
      BY <1>1, <1>2, <1>6
    <3> QED
      BY <2>8, <2>9, <3>1 DEF V
  <2>11. q.ok
    BY <2>8, Zenon
  <2>12. Stuck(d, a, b, q, bad)
    BY <1>4, <2>10, <2>11, Zenon DEF Stuck, L
  <2> QED
    BY <2>8, <2>12 DEF q, c, F
<1>7. CASE p.last = "BOUNDARY" /\ b = L - 2 /\ i > b - a
  BY <1>1, <1>2, <1>7
<1>8. CASE p.last = "BOUNDARY" /\ a = L - 2 /\ i = 1 /\ b > a
  <2>1. F[Len(d) + 9] = "b3"
    BY <1>1, FormIs DEF F
  <2>2. c[1] = "b3"
    <3>1. 1 \in 1 .. b - a /\ a + 1 = Len(d) + 9
      BY <1>1, <1>8
    <3> HIDE DEF c
    <3> QED
      BY <1>3, <2>1, <3>1
  <2> HIDE DEF c
  <2>3. q = Error(p)
    <3>1. c[p.i] = "b3" /\ {l \in HeadLine(p.last) : l[1] = "b3"} = {}
      BY <1>8, <2>2, HeadLines DEF i
    <3>2. p.last \notin {"EMPTY_LINE", "VALUE", "FINISH", "ERROR"}
      BY <1>8
    <3> DEFINE word == "b3"
    <3>3. c[p.i] = word /\ {l \in HeadLine(p.last) : l[1] = word} = {} /\ word # "end"
      BY <3>1
    <3> HIDE DEF word
    <3> QED
      BY <3>2, <3>3, LineRefused
  <2>4. q \in Parsers /\ q.last = "ERROR" /\ ~q.ok
    BY <2>3, ErrorIs
  <2> HIDE DEF q
  <2>5. q.last \in {"VOID", "ERROR"}
    BY <2>4
  <2>6. Stuck(d, a, b, q, bad)
    BY <1>4, <2>4, <2>5, Zenon DEF Stuck
  <2> QED
    BY <2>4, <2>6 DEF q, c, F
<1>9. QED
  BY <1>5, <1>6, <1>7, <1>8

\* A parser that has taken all of a chunk that no bad cut ends is not at a bad cut.
LEMMA NotAtCut ==
  ASSUME NEW d \in Uploads, NEW b \in Nat, NEW last, NEW values, At(d, last, b, values),
         last = "BOUNDARY" => b > 1, last = "TYPE" => b > 5
  PROVE  b \notin Cuts(d)
<1> DEFINE L == Size(d)
<1>1. L \in Nat /\ L >= 10
  BY SizeIs
<1>2. \/ last = "BOUNDARY" /\ b = 1
      \/ last = "TYPE" /\ b = 5
      \/ b \in {2, 3, 4, 6, L - 1, L}
      \/ 6 <= b /\ b <= L - 4
  BY DEF At
<1> HIDE DEF L
<1>3. b \in {2, 3, 4, 6, L - 1, L} \/ (6 <= b /\ b <= L - 4)
  BY <1>2
<1>4. b \notin {1, 5, L - 3, L - 2}
  BY <1>1, <1>3
<1>5. QED
  BY <1>4 DEF Cuts, L

\* The call that begins with the next chunk.
LEMMA CalledKeeps ==
  ASSUME NEW d \in Uploads, NEW a \in Nat, NEW b \in Nat, a <= b, b <= Size(d),
         NEW p \in Parsers, NEW bad \in BOOLEAN, Fine(d, a, b, p, bad) \/ Stuck(d, a, b, p, bad),
         ~p.ok \/ p.i > b - a, NEW e \in Nat, b < e, e <= Size(d)
  PROVE  LET q == Called(SubSeq(Form(d), b + 1, e), p)
             met == (bad \/ e \in Cuts(d))
         IN  q \in Parsers /\ (Fine(d, b, e, q, met) \/ Stuck(d, b, e, q, met))
<1> DEFINE F == Form(d)
           c == SubSeq(F, b + 1, e)
           q == Called(c, p)
           r == [p EXCEPT !.i = 1]
           met == (bad \/ e \in Cuts(d))
           L == Size(d)
           i == p.i
<1>1. L \in Nat /\ L >= 10 /\ L = Len(d) + 10 /\ Len(d) \in Nat /\ d \in Seq(Tokens) /\ b <= L /\ e <= L
  BY SizeIs
<1>2. i \in Nat \ {0}
  BY DEF Parsers
<1>3. /\ r \in Parsers /\ r.last = p.last /\ r.values = p.values /\ r.i = 1 /\ r.ok = p.ok
      /\ [r EXCEPT !.ok = FALSE] \in Parsers
      /\ [r EXCEPT !.ok = FALSE].last = p.last /\ ~[r EXCEPT !.ok = FALSE].ok
  BY RewindIs
<1>4. b <= e
  OBVIOUS
<1>5. c \in Seq(Tokens) /\ Len(c) = e - b /\ \A k \in 1 .. e - b : c[k] = F[b + k]
  BY <1>4, ChunkIs
<1> HIDE DEF r, c, F, L, i
<1>6. CASE ~p.ok
  <2>1. q = p
    BY <1>6, Zenon DEF Called
  <2>2. bad /\ p.last \in {"VOID", "ERROR"}
    BY <1>6, Zenon DEF Fine, Stuck
  <2>3. met
    BY <2>2
  <2> HIDE DEF met
  <2>4. Stuck(d, b, e, p, met)
    BY <1>6, <2>2, <2>3, Zenon DEF Stuck
  <2> QED
    BY <2>1, <2>4 DEF met, c, F
<1>7. ASSUME p.ok, p.last # "VOID"
      PROVE  q = r
  BY <1>7, Zenon DEF Called, r
<1>8. b + r.i - 1 = b
  <2> DEFINE k == r.i
  <2>1. k = 1
    BY <1>3
  <2> HIDE DEF k
  <2>2. b + k - 1 = b
    BY <2>1
  <2> QED
    BY <2>2 DEF k
<1>9. CASE p.ok /\ Fine(d, a, b, p, bad) /\ p.last = "VOID"
  <2>1. p.values = <<>> /\ b = 0
    BY <1>9 DEF Fine, OnTheWay, At
  <2>2. ~bad
    <3>1. b \notin {1, 5, L - 3, L - 2}
      BY <1>1, <2>1
    <3> QED
      BY <1>9, <3>1 DEF Fine, Cuts, L
  <2>3. CASE e = 1
    <3>1. q = [r EXCEPT !.ok = FALSE]
      <4>1. Len(c) < 2
        BY <1>5, <2>1, <2>3
      <4> QED
        BY <1>9, <4>1, Zenon DEF Called, r
    <3>2. met
      BY <2>3 DEF Cuts
    <3> HIDE DEF met, q
    <3>3. q \in Parsers /\ q.last = "VOID" /\ ~q.ok
      BY <1>3, <1>9, <3>1
    <3>4. q.last \in {"VOID", "ERROR"}
      BY <3>3
    <3>5. Stuck(d, b, e, q, met)
      BY <3>2, <3>3, <3>4, Zenon DEF Stuck
    <3> QED
      BY <3>3, <3>5 DEF met, q, c, F
  <2>4. CASE e # 1
    <3> DEFINE B == "BOUNDARY"
    <3>1. e > 1
      BY <2>1, <2>4
    <3>2. ~(Len(c) < 2) /\ c[1] = F[1]
      BY <1>5, <2>1, <3>1
    <3>3. F[1] = "b0"
      BY <1>1, FormIs DEF F
    <3>4. q = Consume(r, B, <<>>, 1)
      <4>1. ~(Len(c) < 2 \/ c[1] # "b0")
        BY <3>2, <3>3
      <4> QED
        BY <1>9, <4>1, Zenon DEF Called, r
    <3>5. B \in Lasts /\ 1 \in Nat
      BY DEF Lasts
    <3> HIDE DEF B
    <3>6. q \in Parsers /\ q.values = r.values /\ q.last = B /\ q.i = r.i + 1 /\ q.ok = r.ok
      <4> DEFINE x == Consume(r, B, <<>>, 1)
      <4>1. r \in Parsers
        BY <1>3
      <4>2. x \in Parsers /\ x.values = r.values /\ x.last = B /\ x.i = r.i + 1 /\ x.ok = r.ok
        BY <3>5, <4>1, ConsumeNothing
      <4>3. q = x
        BY <3>4
      <4> HIDE DEF q, x
      <4> QED
        BY <4>2, <4>3
    <3> HIDE DEF q
    <3>7. b + q.i - 1 = 1
      <4> DEFINE k == q.i
      <4>1. k = 2
        BY <1>3, <3>6
      <4> HIDE DEF k
      <4>2. b + k - 1 = 1
        BY <2>1, <4>1
      <4> QED
        BY <4>2 DEF k
    <3>8. q.last = "BOUNDARY" /\ q.values = <<>>
      BY <1>3, <2>1, <3>6 DEF B
    <3>9. At(d, q.last, 1, q.values)
      BY <3>8 DEF At
    <3>10. OnTheWay(d, e, q.last, b + q.i - 1, q.values)
      <4>1. 1 <= e /\ e > 1 /\ q.last # "TYPE"
        BY <3>1, <3>8
      <4> QED
        BY <3>7, <3>9, <4>1 DEF OnTheWay
    <3>11. q.ok /\ (met <=> e \in Cuts(d))
      BY <1>3, <1>9, <2>2, <3>6, Zenon
    <3>12. Fine(d, b, e, q, met)
      BY <3>10, <3>11, Zenon DEF Fine
    <3> QED
      BY <3>6, <3>12 DEF q, c, F
  <2> QED
    BY <2>3, <2>4
<1>10. CASE p.ok /\ Fine(d, a, b, p, bad) /\ p.last # "VOID"
  <2> DEFINE g == a + i - 1
             last == p.last
             v == p.values
  <2>1. /\ At(d, last, g, v) /\ g <= b
        /\ last = "BOUNDARY" => b > 1
        /\ last = "TYPE" => b > 5
    BY <1>10 DEF Fine, OnTheWay, i
  <2>2. i > b - a
    BY <1>10 DEF i
  <2>3. g = b
    BY <1>2, <2>1, <2>2
  <2> HIDE DEF last, v, g
  <2>4. At(d, last, b, v)
    BY <2>1, <2>3
  <2>5. b \notin Cuts(d)
    BY <2>1, <2>4, NotAtCut
  <2>6. ~bad
    BY <1>10, <2>5 DEF Fine
  <2>7. OnTheWay(d, e, last, b, v)
    <3>1. /\ last = "BOUNDARY" => e > 1
          /\ last = "TYPE" => e > 5
      BY <2>1
    <3> QED
      BY <1>4, <2>4, <3>1 DEF OnTheWay
  <2>8. OnTheWay(d, e, r.last, b + r.i - 1, r.values)
    BY <1>3, <1>8, <2>7 DEF last, v
  <2>9. r.ok /\ (met <=> e \in Cuts(d))
    BY <1>3, <1>10, <2>6, Zenon
  <2>10. Fine(d, b, e, r, met)
    BY <2>8, <2>9, Zenon DEF Fine
  <2> QED
    BY <1>3, <1>7, <1>10, <2>10 DEF c, F
<1>11. CASE p.ok /\ Stuck(d, a, b, p, bad)
  <2>1. i > b - a
    BY <1>11 DEF i
  <2>2. \/ p.last = "VALUE" /\ a + i - 1 >= L - 3 /\ a + i - 1 <= b
        \/ p.last = "BOUNDARY" /\ b = L - 2 /\ i > b - a
        \/ p.last = "BOUNDARY" /\ a = L - 2 /\ i = 1 /\ b > a
    BY <1>11, Zenon DEF Stuck, i, L
  <2>3. bad
    BY <1>11 DEF Stuck
  <2>4. met
    BY <2>3
  <2> HIDE DEF met
  <2>5. p.last # "VOID"
    BY <2>2
  <2>6. r.ok
    BY <1>3, <1>11, Zenon
  <2>7. CASE p.last = "VALUE" /\ a + i - 1 >= L - 3 /\ a + i - 1 <= b
    <3>1. b >= L - 3 /\ b <= e
      BY <1>1, <1>2, <2>1, <2>7
    <3>2. r.last = "VALUE" /\ b + r.i - 1 >= L - 3 /\ b + r.i - 1 <= e
      BY <1>3, <1>8, <2>7, <3>1
    <3>3. Stuck(d, b, e, r, met)
      BY <2>4, <2>6, <3>2, Zenon DEF Stuck, L
    <3> QED
      BY <1>3, <1>7, <1>11, <2>5, <3>3 DEF met, c, F
  <2>8. CASE p.last = "BOUNDARY" /\ b = L - 2 /\ i > b - a
    <3>1. r.last = "BOUNDARY" /\ b = L - 2 /\ r.i = 1 /\ e > b
      BY <1>3, <2>8
    <3>2. Stuck(d, b, e, r, met)
      BY <2>4, <2>6, <3>1, Zenon DEF Stuck, L
    <3> QED
      BY <1>3, <1>7, <1>11, <2>5, <3>2 DEF met, c, F
  <2>9. CASE p.last = "BOUNDARY" /\ a = L - 2 /\ i = 1 /\ b > a
    BY <2>1, <2>9
  <2> QED
    BY <2>2, <2>7, <2>8, <2>9
<1>12. QED
  BY <1>6, <1>9, <1>10, <1>11

\* How the definitions over the data of a form are those of the model.
LEMMA BodyIs ==
  PostTypes => /\ Chunk = SubSeq(Form(data), from + 1, to) /\ Len(Chunk) = to - from
               /\ Len(Body) = Size(data) /\ BadCuts = Cuts(data)
               /\ Returned <=> (~parser.ok \/ parser.i > to - from)
<1> SUFFICES ASSUME PostTypes
             PROVE  /\ Chunk = SubSeq(Form(data), from + 1, to) /\ Len(Chunk) = to - from
                    /\ Len(Body) = Size(data) /\ BadCuts = Cuts(data)
                    /\ Returned <=> (~parser.ok \/ parser.i > to - from)
  OBVIOUS
<1>1. Len(Body) = Size(data) /\ BadCuts = Cuts(data)
  BY DEF Body, Size, BadCuts, Cuts
<1>2. Chunk = SubSeq(Form(data), from + 1, to)
  BY DEF Chunk, Body
<1>3. Len(SubSeq(Form(data), from + 1, to)) = to - from
  BY ChunkIs DEF PostTypes
<1>4. Len(Chunk) = to - from
  BY <1>2, <1>3
<1>5. Returned <=> (~parser.ok \/ parser.i > to - from)
  BY <1>4, Zenon DEF Returned
<1>6. QED
  BY <1>1, <1>2, <1>4, <1>5

\* Before the first chunk.
LEMMA PostInvInit == PostInit => PostInv
<1> SUFFICES ASSUME PostInit
             PROVE  PostInv
  OBVIOUS
<1>1. data \in Uploads /\ from = 0 /\ to = 0 /\ badCut = FALSE
  BY DEF PostInit
<1>2. parser = [last |-> "VOID", values |-> <<>>, i |-> 1, ok |-> TRUE]
  BY DEF PostInit
<1>3. parser \in Parsers
  <2>1. "VOID" \in Lasts /\ <<>> \in Seq(Tokens) /\ 1 \in Nat \ {0} /\ TRUE \in BOOLEAN
    BY DEF Lasts
  <2> QED
    BY <1>2, <2>1 DEF Parsers
<1>4. parser.last = "VOID" /\ parser.values = <<>> /\ parser.ok = TRUE
  BY <1>2
<1>5. Size(data) \in Nat /\ Size(data) >= 10
  BY <1>1, SizeIs
<1>6. PostTypes
  <2>1. from \in Nat /\ to \in Nat /\ from <= to /\ to <= Size(data)
    BY <1>1, <1>5
  <2>2. badCut \in BOOLEAN
    BY <1>1, Zenon
  <2> QED
    BY <1>1, <1>3, <2>1, <2>2, Zenon DEF PostTypes
<1>7. OnTheWay(data, to, parser.last, from + parser.i - 1, parser.values)
  BY <1>1, <1>4 DEF OnTheWay
<1>8. to \notin Cuts(data)
  BY <1>1, <1>5 DEF Cuts
<1>9. Fine(data, from, to, parser, badCut)
  BY <1>1, <1>4, <1>7, <1>8, Zenon DEF Fine
<1>10. QED
  BY <1>6, <1>9 DEF PostInv

\* A chunk that arrives keeps it.
LEMMA ArriveKeeps == PostInv /\ Arrive => PostInv'
<1> SUFFICES ASSUME PostInv, Arrive
             PROVE  PostInv'
  OBVIOUS
<1>1. PostTypes /\ (Fine(data, from, to, parser, badCut) \/ Stuck(data, from, to, parser, badCut))
  BY DEF PostInv
<1>2. /\ data \in Uploads /\ from \in Nat /\ to \in Nat /\ from <= to /\ to <= Size(data)
      /\ parser \in Parsers /\ badCut \in BOOLEAN
  BY <1>1 DEF PostTypes
<1>3. Len(Body) = Size(data) /\ BadCuts = Cuts(data) /\ (Returned <=> (~parser.ok \/ parser.i > to - from))
  BY <1>1, BodyIs
<1>4. ~parser.ok \/ parser.i > to - from
  BY <1>3 DEF Arrive
<1>5. PICK e \in to + 1 .. Len(Body) :
        /\ from' = to /\ to' = e
        /\ badCut' = (badCut \/ e \in BadCuts)
        /\ parser' = Called(SubSeq(Body, to + 1, e), parser)
  BY DEF Arrive
<1>6. data' = data
  BY DEF Arrive
<1>7. Size(data) \in Nat
  BY <1>2, SizeIs
<1>8. e \in Nat /\ to < e /\ e <= Size(data)
  BY <1>2, <1>3, <1>7
<1> DEFINE q == Called(SubSeq(Form(data), to + 1, e), parser)
           met == (badCut \/ e \in Cuts(data))
<1>9. q \in Parsers /\ (Fine(data, to, e, q, met) \/ Stuck(data, to, e, q, met))
  BY <1>1, <1>2, <1>4, <1>8, CalledKeeps
<1>10. parser' = q /\ badCut' = met /\ from' = to /\ to' = e
  BY <1>3, <1>5 DEF Body
<1>11. met \in BOOLEAN
  BY <1>2
<1> HIDE DEF q, met
<1>12. PostTypes'
  BY <1>2, <1>6, <1>8, <1>9, <1>10, <1>11 DEF PostTypes
<1>13. Fine(data, from, to, parser, badCut)' \/ Stuck(data, from, to, parser, badCut)'
  <2>1. Fine(data', from', to', parser', badCut') \/ Stuck(data', from', to', parser', badCut')
    BY <1>6, <1>9, <1>10
  <2> QED
    BY <2>1
<1>14. QED
  BY <1>12, <1>13 DEF PostInv

\* An element that is taken keeps it.
LEMMA ElementKeeps == PostInv /\ ParseElement => PostInv'
<1> SUFFICES ASSUME PostInv, ParseElement
             PROVE  PostInv'
  OBVIOUS
<1>1. PostTypes /\ (Fine(data, from, to, parser, badCut) \/ Stuck(data, from, to, parser, badCut))
  BY DEF PostInv
<1>2. /\ data \in Uploads /\ from \in Nat /\ to \in Nat /\ from <= to /\ to <= Size(data)
      /\ parser \in Parsers /\ badCut \in BOOLEAN
  BY <1>1 DEF PostTypes
<1>3. Chunk = SubSeq(Form(data), from + 1, to) /\ (Returned <=> (~parser.ok \/ parser.i > to - from))
  BY <1>1, BodyIs
<1>4. parser.ok /\ ~(parser.i > to - from)
  BY <1>3 DEF ParseElement
<1>5. parser.i <= to - from
  <2> DEFINE i == parser.i
  <2>1. i \in Nat /\ ~(i > to - from)
    BY <1>2, <1>4 DEF Parsers
  <2> HIDE DEF i
  <2>2. i <= to - from
    BY <1>2, <2>1
  <2> QED
    BY <2>2 DEF i
<1> DEFINE q == Element(SubSeq(Form(data), from + 1, to), parser)
<1>6. parser' = q /\ data' = data /\ from' = from /\ to' = to /\ badCut' = badCut
  BY <1>3 DEF ParseElement
<1>7. q \in Parsers /\ (Fine(data, from, to, q, badCut) \/ Stuck(data, from, to, q, badCut))
  <2>1. CASE Fine(data, from, to, parser, badCut)
    BY <1>2, <1>5, <2>1, FineElement
  <2>2. CASE Stuck(data, from, to, parser, badCut)
    BY <1>2, <1>4, <1>5, <2>2, StuckElement
  <2> QED
    BY <1>1, <2>1, <2>2
<1> HIDE DEF q
<1>8. PostTypes'
  BY <1>2, <1>6, <1>7 DEF PostTypes
<1>9. Fine(data, from, to, parser, badCut)' \/ Stuck(data, from, to, parser, badCut)'
  <2>1. Fine(data', from', to', parser', badCut') \/ Stuck(data', from', to', parser', badCut')
    BY <1>6, <1>7
  <2> QED
    BY <2>1
<1>10. QED
  BY <1>8, <1>9 DEF PostInv

\* PostInv is inductive.
LEMMA PostInvStep == PostInv /\ [PostNext]_postVars => PostInv'
<1> SUFFICES ASSUME PostInv, [PostNext]_postVars
             PROVE  PostInv'
  OBVIOUS
<1>1. CASE Arrive
  BY <1>1, ArriveKeeps
<1>2. CASE ParseElement
  BY <1>2, ElementKeeps
<1>3. CASE UNCHANGED postVars
  <2>1. data' = data /\ from' = from /\ to' = to /\ parser' = parser /\ badCut' = badCut
    BY <1>3 DEF postVars
  <2>2. PostTypes'
    BY <2>1 DEF PostInv, PostTypes
  <2>3. Fine(data', from', to', parser', badCut') \/ Stuck(data', from', to', parser', badCut')
    BY <2>1 DEF PostInv
  <2>4. Fine(data, from, to, parser, badCut)' \/ Stuck(data, from, to, parser, badCut)'
    BY <2>3
  <2> QED
    BY <2>2, <2>4 DEF PostInv
<1>4. QED
  BY <1>1, <1>2, <1>3 DEF PostNext

\* What PostInv says when the parser has returned.
LEMMA InvGivesCuts == PostInv => CutsDoNotMatter
<1> SUFFICES ASSUME PostInv
             PROVE  CutsDoNotMatter
  OBVIOUS
<1> DEFINE L == Size(data)
           i == parser.i
           last == parser.last
           v == parser.values
<1>1. PostTypes /\ (Fine(data, from, to, parser, badCut) \/ Stuck(data, from, to, parser, badCut))
  BY DEF PostInv
<1>2. /\ data \in Uploads /\ from \in Nat /\ to \in Nat /\ from <= to /\ to <= L
      /\ i \in Nat \ {0} /\ badCut \in BOOLEAN
  BY <1>1 DEF PostTypes, Parsers
<1>3. Len(Body) = L /\ (Returned <=> (~parser.ok \/ i > to - from))
  BY <1>1, BodyIs
<1>4. L \in Nat /\ L >= 10 /\ L = Len(data) + 10
  BY <1>2, SizeIs
<1>5. CASE Stuck(data, from, to, parser, badCut)
  <2>1. badCut
    BY <1>5 DEF Stuck
  <2>2. last \in {"VOID", "ERROR", "VALUE", "BOUNDARY"}
    BY <1>5, Zenon DEF Stuck
  <2>3. parser.last # "FINISH"
    BY <2>2
  <2> QED
    BY <2>1, <2>3, Zenon DEF CutsDoNotMatter
<1>6. CASE Fine(data, from, to, parser, badCut)
  <2>1. parser.ok /\ (badCut <=> to \in Cuts(data)) /\ OnTheWay(data, to, last, from + i - 1, v)
    BY <1>6 DEF Fine
  <2> HIDE DEF L, i, last, v
  <2>2. badCut => last # "FINISH"
    <3> SUFFICES ASSUME badCut, last = "FINISH"
                 PROVE  FALSE
      OBVIOUS
    <3>1. to \in {1, 5, L - 3, L - 2}
      BY <2>1 DEF Cuts, L
    <3>2. from + i - 1 = L /\ from + i - 1 <= to
      BY <2>1 DEF OnTheWay, At, L
    <3> QED
      BY <1>2, <1>4, <3>1, <3>2
  <2>3. ASSUME Returned, to = Len(Body), ~badCut
        PROVE  parser.ok /\ last = "FINISH" /\ v = data
    <3>1. i > to - from /\ to = L
      BY <1>3, <2>1, <2>3, Zenon
    <3> DEFINE g == from + i - 1
    <3>2. g >= L
      BY <1>2, <1>4, <3>1
    <3>3. At(data, last, g, v)
      BY <1>4, <2>1, <3>1 DEF OnTheWay
    <3>4. g # 1 /\ g # 2 /\ g # 3 /\ g # 4 /\ g # 5 /\ g # 6 /\ ~(g <= L - 4) /\ g # L - 1
      BY <1>2, <1>4, <3>2
    <3> HIDE DEF g
    <3>5. last = "FINISH" /\ v = data
      BY <3>3, <3>4 DEF At, L
    <3> QED
      BY <2>1, <3>5
  <2> QED
    BY <2>2, <2>3, Zenon DEF CutsDoNotMatter, last, v
<1>7. QED
  BY <1>1, <1>5, <1>6

\* Wherever the body of an upload is cut between its lines, post_data_parser hands over the
\* data of the form and reaches the end, or a cut was met that it does not get over and it
\* never says that the form is complete. For every set of uploads and every way to cut them.
THEOREM CutsTheorem == PostSpec => []CutsDoNotMatter
<1>1. PostInv /\ [PostNext]_postVars => PostInv'
  BY PostInvStep
<1>2. QED
  BY <1>1, PostInvInit, InvGivesCuts, PTL DEF PostSpec
=============================================================================
