--------------------------- MODULE FileLRU_proofs ---------------------------
(***************************************************************************)
(* Proofs about the file cache, for any number of threads, files, entries  *)
(* and any limits: the inductive invariant IInv of FileLRU, and that the   *)
(* cache keeps the promise of FileLoans.                                   *)
(***************************************************************************)
EXTENDS FileLRU, SequenceTheorems, WellFoundedInduction, TLAPS

(***************************************************************************)
(* The three ways the list is rebuilt.                                     *)
(***************************************************************************)

\* DOUBLE_LL_JOIN_HEAD of p once only the first k entries are left.
LEMMA JoinHeadFacts ==
  ASSUME NEW S, NEW s \in Seq(S), NEW p \in S, NEW k \in 0..Len(s)
  PROVE  LET q == <<p>> \o SubSeq(s, 1, k) IN
         /\ q \in Seq(S) /\ Len(q) = k + 1
         /\ q[1] = p
         /\ \A i \in 2..(k + 1) : q[i] = s[i - 1]
<1> DEFINE q == <<p>> \o SubSeq(s, 1, k)
<1>1. SubSeq(s, 1, k) \in Seq(S) /\ Len(SubSeq(s, 1, k)) = k
  OBVIOUS
<1>2. \A i \in 1..k : SubSeq(s, 1, k)[i] = s[i]
  OBVIOUS
<1>3. <<p>> \in Seq(S) /\ Len(<<p>>) = 1
  OBVIOUS
<1>4. q \in Seq(S) /\ Len(q) = k + 1
  BY <1>1, <1>3
<1>5. q[1] = p
  BY <1>1, <1>3
<1>6. \A i \in 2..(k + 1) : q[i] = s[i - 1]
  BY <1>1, <1>2, <1>3
<1> QED  BY <1>4, <1>5, <1>6

\* Taking the first k entries off the list.
LEMMA LeaveHeadFacts ==
  ASSUME NEW S, NEW s \in Seq(S), NEW k \in 0..Len(s)
  PROVE  LET q == SubSeq(s, k + 1, Len(s)) IN
         /\ q \in Seq(S) /\ Len(q) = Len(s) - k
         /\ \A i \in 1..(Len(s) - k) : q[i] = s[i + k]
  OBVIOUS

\* An element, the n - 1 elements before it, and those after it.
LEMMA Concat3Facts ==
  ASSUME NEW S, NEW x \in S, NEW b \in Seq(S), NEW c \in Seq(S)
  PROVE  LET q == (<<x>> \o b) \o c IN
         /\ q \in Seq(S) /\ Len(q) = 1 + Len(b) + Len(c)
         /\ q[1] = x
         /\ \A i \in 1..Len(b) : q[i + 1] = b[i]
         /\ \A i \in 1..Len(c) : q[i + 1 + Len(b)] = c[i]
<1> DEFINE a == <<x>>
<1>1. a \in Seq(S) /\ Len(a) = 1 /\ a[1] = x /\ Len(b) \in Nat /\ Len(c) \in Nat
  OBVIOUS
<1>2. /\ a \o b \in Seq(S) /\ Len(a \o b) = 1 + Len(b)
      /\ \A i \in 1..(1 + Len(b)) : (a \o b)[i] = IF i <= 1 THEN a[i] ELSE b[i - 1]
  BY <1>1, ConcatProperties
<1> DEFINE ab == a \o b
<1>3. /\ ab \o c \in Seq(S) /\ Len(ab \o c) = Len(ab) + Len(c)
      /\ \A i \in 1..(Len(ab) + Len(c)) :
           (ab \o c)[i] = IF i <= Len(ab) THEN ab[i] ELSE c[i - Len(ab)]
  BY <1>1, <1>2, ConcatProperties
<1>4. (ab \o c)[1] = x
  BY <1>1, <1>2, <1>3
<1>5. ASSUME NEW i \in 1..Len(b) PROVE (ab \o c)[i + 1] = b[i]
  BY <1>1, <1>2, <1>3
<1>6. ASSUME NEW i \in 1..Len(c) PROVE (ab \o c)[i + 1 + Len(b)] = c[i]
  BY <1>1, <1>2, <1>3
<1> QED  BY <1>1, <1>2, <1>3, <1>4, <1>5, <1>6

\* Moving the entry at position n to the head.
LEMMA MoveToHeadFacts ==
  ASSUME NEW S, NEW s \in Seq(S), NEW n \in 1..Len(s)
  PROVE  LET q == MoveToHead(s, n) IN
         /\ q \in Seq(S) /\ Len(q) = Len(s)
         /\ q[1] = s[n]
         /\ \A i \in 1..(n - 1) : q[i + 1] = s[i]
         /\ \A i \in (n + 1)..Len(s) : q[i] = s[i]
<1>1. /\ SubSeq(s, 1, n - 1) \in Seq(S) /\ Len(SubSeq(s, 1, n - 1)) = n - 1
      /\ \A i \in 1..(n - 1) : SubSeq(s, 1, n - 1)[i] = s[i]
  OBVIOUS
<1>2. /\ SubSeq(s, n + 1, Len(s)) \in Seq(S)
      /\ Len(SubSeq(s, n + 1, Len(s))) = Len(s) - n
      /\ \A i \in 1..(Len(s) - n) : SubSeq(s, n + 1, Len(s))[i] = s[i + n]
  BY LeaveHeadFacts
<1>3. s[n] \in S /\ Len(s) \in Nat
  OBVIOUS
<1> DEFINE b == SubSeq(s, 1, n - 1)  c == SubSeq(s, n + 1, Len(s))
           q == (<<s[n]>> \o b) \o c
<1>4. q = MoveToHead(s, n)
  BY DEF MoveToHead
<1>5. b \in Seq(S) /\ Len(b) = n - 1 /\ \A i \in 1..(n - 1) : b[i] = s[i]
  BY <1>1
<1>6. c \in Seq(S) /\ Len(c) = Len(s) - n /\ \A i \in 1..(Len(s) - n) : c[i] = s[i + n]
  BY <1>2
<1> HIDE DEF b, c
<1>7. /\ q \in Seq(S) /\ Len(q) = 1 + Len(b) + Len(c)
      /\ q[1] = s[n]
      /\ \A i \in 1..Len(b) : q[i + 1] = b[i]
      /\ \A i \in 1..Len(c) : q[i + 1 + Len(b)] = c[i]
  <2>1. s[n] \in S /\ b \in Seq(S) /\ c \in Seq(S)
    BY <1>3, <1>5, <1>6
  <2> QED  BY <2>1, Concat3Facts
<1> HIDE DEF q
<1>8. ASSUME NEW i \in (n + 1)..Len(s)
      PROVE  q[i] = s[i]
  <2>1. i - n \in 1..Len(c) /\ (i - n) + 1 + Len(b) = i /\ (i - n) + n = i
    BY <1>3, <1>5, <1>6
  <2> QED  BY <1>6, <1>7, <2>1
<1>9. Len(q) = Len(s) /\ \A i \in 1..(n - 1) : q[i + 1] = s[i]
  BY <1>3, <1>5, <1>6, <1>7
<1> QED  BY <1>4, <1>7, <1>8, <1>9

(***************************************************************************)
(* What is linked after a rebuild; ListIsCache says Distinct(lru), and      *)
(* that an entry is cached exactly when it is Linked.                      *)
(***************************************************************************)
Distinct(s) == \A i, j \in 1..Len(s) : s[i] = s[j] => i = j
Linked(s, o) == \E i \in 1..Len(s) : s[i] = o

\* Moving an entry to the head keeps the same entries linked, once each.
LEMMA MoveToHeadLinks ==
  ASSUME NEW S, NEW s \in Seq(S), NEW n \in 1..Len(s), Distinct(s)
  PROVE  LET q == MoveToHead(s, n) IN
         /\ q \in Seq(S) /\ Distinct(q)
         /\ \A o : Linked(q, o) <=> Linked(s, o)
<1> DEFINE q == MoveToHead(s, n)
<1>1. /\ q \in Seq(S) /\ Len(q) = Len(s) /\ Len(s) \in Nat
      /\ q[1] = s[n]
      /\ \A i \in 1..(n - 1) : q[i + 1] = s[i]
      /\ \A i \in (n + 1)..Len(s) : q[i] = s[i]
  BY MoveToHeadFacts
<1> HIDE DEF q
<1> DEFINE from(i) == IF i = 1 THEN n ELSE IF i <= n THEN i - 1 ELSE i
<1>2. ASSUME NEW i \in 1..Len(s)
      PROVE  from(i) \in 1..Len(s) /\ q[i] = s[from(i)]
  <2>1. CASE i = 1
    BY <1>1, <2>1
  <2>2. CASE i # 1 /\ i <= n
    <3>1. i - 1 \in 1..(n - 1) /\ (i - 1) + 1 = i
      BY <1>1, <2>2
    <3> QED  BY <1>1, <2>2, <3>1
  <2>3. CASE i > n
    BY <1>1, <2>3
  <2> QED  BY <1>1, <2>1, <2>2, <2>3
<1>3. \A i, j \in 1..Len(s) : from(i) = from(j) => i = j
  BY <1>1
<1>4. Distinct(q)
  <2>1. SUFFICES ASSUME NEW i \in 1..Len(q), NEW j \in 1..Len(q), q[i] = q[j]
                 PROVE  i = j
    BY DEF Distinct
  <2>2. /\ from(i) \in 1..Len(s) /\ q[i] = s[from(i)]
        /\ from(j) \in 1..Len(s) /\ q[j] = s[from(j)]
    BY <1>1, <1>2
  <2>3. from(i) = from(j)
    <3> HIDE DEF from
    <3> QED  BY <2>1, <2>2 DEF Distinct
  <2> QED  BY <1>1, <1>3, <2>3
<1>5. ASSUME NEW o, Linked(q, o) PROVE Linked(s, o)
  BY <1>1, <1>2, <1>5 DEF Linked
<1>6. ASSUME NEW o, Linked(s, o) PROVE Linked(q, o)
  <2> PICK i \in 1..Len(s) : s[i] = o
    BY <1>6 DEF Linked
  <2>1. CASE i = n
    BY <1>1, <2>1 DEF Linked
  <2>2. CASE i < n
    <3>1. i \in 1..(n - 1) /\ i + 1 \in 1..Len(q)
      BY <1>1, <2>2
    <3> QED  BY <1>1, <3>1 DEF Linked
  <2>3. CASE i > n
    BY <1>1, <2>3 DEF Linked
  <2> QED  BY <1>1, <2>1, <2>2, <2>3
<1> QED  BY <1>1, <1>4, <1>5, <1>6 DEF q

\* Joining the head links one more entry to the k that are left.
LEMMA JoinHeadLinks ==
  ASSUME NEW S, NEW s \in Seq(S), NEW p \in S, NEW k \in 0..Len(s),
         Distinct(s), ~Linked(s, p)
  PROVE  LET q == <<p>> \o SubSeq(s, 1, k) IN
         /\ q \in Seq(S) /\ Distinct(q)
         /\ \A o : Linked(q, o) <=> (o = p \/ \E i \in 1..k : s[i] = o)
<1> DEFINE q == <<p>> \o SubSeq(s, 1, k)
<1>1. /\ q \in Seq(S) /\ Len(q) = k + 1 /\ Len(s) \in Nat
      /\ q[1] = p
      /\ \A i \in 2..(k + 1) : q[i] = s[i - 1]
  BY JoinHeadFacts
<1> HIDE DEF q
<1>2. ASSUME NEW i \in 2..(k + 1)
      PROVE  i - 1 \in 1..Len(s) /\ q[i] = s[i - 1] /\ q[i] # p
  BY <1>1 DEF Linked
<1>3. Distinct(q)
  <2> SUFFICES ASSUME NEW i \in 1..(k + 1), NEW j \in 1..(k + 1), q[i] = q[j]
               PROVE  i = j
    BY <1>1 DEF Distinct
  <2>1. CASE i = 1
    <3>1. j \notin 2..(k + 1)
      BY <1>1, <1>2, <2>1
    <3> QED  BY <2>1, <3>1
  <2>2. CASE j = 1
    <3>1. i \notin 2..(k + 1)
      BY <1>1, <1>2, <2>2
    <3> QED  BY <2>2, <3>1
  <2>3. CASE i # 1 /\ j # 1
    <3>1. i \in 2..(k + 1) /\ j \in 2..(k + 1)
      BY <2>3
    <3>2. i - 1 \in 1..Len(s) /\ j - 1 \in 1..Len(s) /\ s[i - 1] = s[j - 1]
      BY <1>2, <3>1
    <3>3. i - 1 = j - 1
      BY <3>2 DEF Distinct
    <3> QED  BY <3>1, <3>3
  <2> QED  BY <2>1, <2>2, <2>3
<1>4. ASSUME NEW o, Linked(q, o) PROVE o = p \/ \E i \in 1..k : s[i] = o
  <2> PICK i \in 1..(k + 1) : q[i] = o
    BY <1>1, <1>4 DEF Linked
  <2>1. CASE i = 1
    BY <1>1, <2>1
  <2>2. CASE i # 1
    <3>1. i - 1 \in 1..k /\ s[i - 1] = o
      BY <1>1, <2>2
    <3> QED  BY <3>1
  <2> QED  BY <2>1, <2>2
<1>5. ASSUME NEW o, o = p \/ \E i \in 1..k : s[i] = o PROVE Linked(q, o)
  <2>1. CASE o = p
    BY <1>1, <2>1 DEF Linked
  <2>2. ASSUME NEW i \in 1..k, s[i] = o PROVE Linked(q, o)
    <3>1. i + 1 \in 1..Len(q) /\ i + 1 \in 2..(k + 1) /\ (i + 1) - 1 = i
      BY <1>1
    <3>2. q[i + 1] = o
      BY <1>1, <2>2, <3>1
    <3> QED  BY <3>1, <3>2 DEF Linked
  <2> QED  BY <1>5, <2>1, <2>2
<1> QED  BY <1>1, <1>3, <1>4, <1>5 DEF q

\* Taking k entries off the head leaves the others linked.
LEMMA LeaveHeadLinks ==
  ASSUME NEW S, NEW s \in Seq(S), NEW k \in 0..Len(s), Distinct(s)
  PROVE  LET q == SubSeq(s, k + 1, Len(s)) IN
         /\ q \in Seq(S) /\ Distinct(q)
         /\ \A o : Linked(q, o) <=> \E i \in (k + 1)..Len(s) : s[i] = o
<1> DEFINE q == SubSeq(s, k + 1, Len(s))
<1>1. /\ q \in Seq(S) /\ Len(q) = Len(s) - k /\ Len(s) \in Nat
      /\ \A i \in 1..(Len(s) - k) : q[i] = s[i + k]
  BY LeaveHeadFacts
<1> HIDE DEF q
<1>2. Distinct(q)
  <2> SUFFICES ASSUME NEW i \in 1..(Len(s) - k), NEW j \in 1..(Len(s) - k), q[i] = q[j]
               PROVE  i = j
    BY <1>1 DEF Distinct
  <2>1. i + k \in 1..Len(s) /\ j + k \in 1..Len(s) /\ s[i + k] = s[j + k]
    BY <1>1
  <2>2. i + k = j + k
    BY <2>1 DEF Distinct
  <2> QED  BY <2>2
<1>3. ASSUME NEW o, Linked(q, o) PROVE \E i \in (k + 1)..Len(s) : s[i] = o
  <2> PICK i \in 1..(Len(s) - k) : q[i] = o
    BY <1>1, <1>3 DEF Linked
  <2>1. i + k \in (k + 1)..Len(s) /\ s[i + k] = o
    BY <1>1
  <2> QED  BY <2>1
<1>4. ASSUME NEW o, NEW i \in (k + 1)..Len(s), s[i] = o PROVE Linked(q, o)
  <2>1. i - k \in 1..(Len(s) - k) /\ (i - k) + k = i
    BY <1>1
  <2>2. q[i - k] = o
    BY <1>1, <1>4, <2>1
  <2> QED  BY <1>1, <2>1, <2>2 DEF Linked
<1> QED  BY <1>1, <1>2, <1>3, <1>4 DEF q

(***************************************************************************)
(* Sums of sizes.                                                          *)
(***************************************************************************)

\* A set of naturals that is not empty has a least element.
LEMMA Least ==
  ASSUME NEW T, T \subseteq Nat, T # {}
  PROVE  \E x \in T : \A y \in T : x <= y
<1> DEFINE R == {p \in Nat \X Nat : p[1] < p[2]}
<1>1. IsWellFoundedOn(R, Nat)
  BY NatLessThanWellFounded DEF OpToRel
<1>2. PICK x \in T : \A y \in T : ~ (<<y, x>> \in R)
  BY <1>1, WFMin
<1>3. ASSUME NEW y \in T PROVE x <= y
  <2>1. x \in Nat /\ y \in Nat /\ <<y, x>> \in Nat \X Nat
    OBVIOUS
  <2>2. ~(<<y, x>>[1] < <<y, x>>[2])
    BY <1>2, <2>1
  <2> QED  BY <2>1, <2>2
<1> QED  BY <1>3

\* b holds the sums of the first k numbers of s, for k up to n.
SumsUpTo(b, s, n) ==
  /\ b \in [0..n -> Nat]
  /\ b[0] = 0
  /\ \A k \in 1..n : b[k] = b[k - 1] + s[k]

\* There are such sums for every length.
LEMMA SumsExist ==
  ASSUME NEW s \in Seq(Nat), NEW N \in 0..Len(s)
  PROVE  \E b : SumsUpTo(b, s, N)
<1> DEFINE Bad == {n \in 0..Len(s) : ~ \E b : SumsUpTo(b, s, n)}
<1>0. Len(s) \in Nat /\ Bad \subseteq Nat
  OBVIOUS
<1>1. SUFFICES ASSUME Bad # {} PROVE FALSE
  OBVIOUS
<1>2. \E n \in Bad : \A y \in Bad : n <= y
  <2> HIDE DEF Bad
  <2> QED  BY <1>0, <1>1, Least
<1>3. PICK n \in Bad : \A y \in Bad : n <= y
  BY <1>2
<1>4. n \in 0..Len(s) /\ ~ \E b : SumsUpTo(b, s, n)
  OBVIOUS
<1>5. n # 0
  <2>1. SumsUpTo([i \in 0..0 |-> 0], s, 0)
    BY DEF SumsUpTo
  <2> QED  BY <2>1, <1>4
<1>6. n - 1 \in 0..Len(s) /\ n - 1 \notin Bad /\ n \in 1..Len(s)
  BY <1>0, <1>3, <1>4, <1>5
<1>7. PICK g : SumsUpTo(g, s, n - 1)
  BY <1>6
<1>8. /\ g \in [0..(n - 1) -> Nat] /\ g[0] = 0
      /\ \A k \in 1..(n - 1) : g[k] = g[k - 1] + s[k]
  BY <1>7 DEF SumsUpTo
<1> DEFINE h == [i \in 0..n |-> IF i = n THEN g[n - 1] + s[n] ELSE g[i]]
<1>9. g[n - 1] \in Nat /\ s[n] \in Nat
  BY <1>6, <1>8
<1>10. \A i \in 0..n : h[i] = (IF i = n THEN g[n - 1] + s[n] ELSE g[i]) /\ h[i] \in Nat
  <2>1. \A i \in 0..n : i # n => i \in 0..(n - 1)
    BY <1>6
  <2> QED  BY <1>8, <1>9, <2>1
<1>11. h \in [0..n -> Nat] /\ h[0] = 0
  BY <1>6, <1>8, <1>10
<1>12. ASSUME NEW k \in 1..n PROVE h[k] = h[k - 1] + s[k]
  <2>1. k \in 0..n /\ k - 1 \in 0..n /\ k - 1 # n
    BY <1>6
  <2>2. h[k - 1] = g[k - 1]
    BY <1>10, <2>1
  <2>3. CASE k = n
    BY <1>10, <2>1, <2>2, <2>3
  <2>4. CASE k # n
    <3>1. k \in 1..(n - 1)
      BY <1>6, <2>4
    <3> QED  BY <1>8, <1>10, <2>1, <2>2, <2>4, <3>1
  <2> QED  BY <2>3, <2>4
<1>13. SumsUpTo(h, s, n)
  <2> HIDE DEF h
  <2> QED  BY <1>11, <1>12 DEF SumsUpTo
<1> QED  BY <1>4, <1>13

\* What Sums computes.
LEMMA SumsAre ==
  ASSUME NEW s \in Seq(Nat)
  PROVE  SumsUpTo(Sums(s), s, Len(s))
<1> DEFINE N == Len(s)
           Eq(b) == b = [k \in 0..N |-> IF k = 0 THEN 0 ELSE b[k - 1] + s[k]]
<1>0. N \in Nat /\ N \in 0..N
  OBVIOUS
<1>1. PICK g : SumsUpTo(g, s, N)
  BY <1>0, SumsExist
<1>2. g \in [0..N -> Nat] /\ g[0] = 0 /\ \A k \in 1..N : g[k] = g[k - 1] + s[k]
  BY <1>1 DEF SumsUpTo
<1>3. Eq(g)
  <2> DEFINE h == [k \in 0..N |-> IF k = 0 THEN 0 ELSE g[k - 1] + s[k]]
  <2>1. \A k \in 0..N : k # 0 => k \in 1..N
    BY <1>0
  <2>2. \A k \in 0..N : g[k] = h[k]
    BY <1>2, <2>1
  <2> QED  BY <1>2, <2>2
<1>4. Sums(s) = CHOOSE b : Eq(b)
  BY DEF Sums
<1>5. Eq(Sums(s))
  BY <1>3, <1>4
<1> DEFINE b == Sums(s)
<1>6. /\ DOMAIN b = 0..N
      /\ \A k \in 0..N : b[k] = IF k = 0 THEN 0 ELSE b[k - 1] + s[k]
  BY <1>5
<1> HIDE DEF b
<1>7. b[0] = 0 /\ \A k \in 1..N : b[k] = b[k - 1] + s[k]
  BY <1>0, <1>6
<1>8. \A k \in 0..N : b[k] \in Nat
  <2> DEFINE Bad == {k \in 0..N : b[k] \notin Nat}
  <2>1. Bad \subseteq Nat
    OBVIOUS
  <2>2. SUFFICES ASSUME Bad # {} PROVE FALSE
    OBVIOUS
  <2>3. \E n \in Bad : \A y \in Bad : n <= y
    <3> HIDE DEF Bad
    <3> QED  BY <2>1, <2>2, Least
  <2>4. PICK n \in Bad : \A y \in Bad : n <= y
    BY <2>3
  <2>5. n \in 0..N /\ b[n] \notin Nat /\ n # 0
    BY <1>7
  <2>6. n - 1 \in 0..N /\ n - 1 \notin Bad /\ n \in 1..N
    BY <1>0, <2>4, <2>5
  <2>7. b[n - 1] \in Nat /\ s[n] \in Nat /\ b[n] = b[n - 1] + s[n]
    BY <1>7, <2>6
  <2> QED  BY <2>5, <2>7
<1>9. b \in [0..N -> Nat]
  BY <1>5, <1>6, <1>8 DEF b
<1> QED  BY <1>7, <1>9 DEF SumsUpTo, b

\* Two functions that grow alike have grown by the same.
LEMMA GrowAlike ==
  ASSUME NEW d \in Nat, NEW u \in [0..d -> Nat], NEW v \in [0..d -> Nat],
         \A i \in 1..d : u[i] - u[i - 1] = v[i] - v[i - 1]
  PROVE  u[d] - u[0] = v[d] - v[0]
<1> DEFINE Bad == {n \in 0..d : u[n] - u[0] # v[n] - v[0]}
<1>1. Bad \subseteq Nat /\ d \in 0..d
  OBVIOUS
<1>2. SUFFICES ASSUME Bad # {} PROVE FALSE
  <2>1. CASE d \in Bad
    BY <2>1
  <2>2. CASE d \notin Bad
    BY <1>1, <2>2
  <2> QED  BY <2>1, <2>2
<1>3. PICK n \in Bad : \A y \in Bad : n <= y
  <2> HIDE DEF Bad
  <2> QED  BY <1>1, <1>2, Least
<1>4. n \in 0..d /\ u[n] - u[0] # v[n] - v[0]
  OBVIOUS
<1>5. 0 \in 0..d /\ u[0] \in Nat /\ v[0] \in Nat
  OBVIOUS
<1>6. n # 0
  BY <1>4, <1>5
<1>7. n - 1 \in 0..d /\ n \in 1..d
  BY <1>4, <1>6
<1>8. n - 1 \notin Bad
  <2> HIDE DEF Bad
  <2> QED  BY <1>3, <1>7
<1>9. u[n - 1] - u[0] = v[n - 1] - v[0]
  BY <1>7, <1>8
<1>10. u[n] - u[n - 1] = v[n] - v[n - 1]
  BY <1>7
<1>11. u[n] \in Nat /\ u[n - 1] \in Nat /\ v[n] \in Nat /\ v[n - 1] \in Nat
  BY <1>4, <1>7
<1> DEFINE u0 == u[0]  up == u[n - 1]  un == u[n]
           v0 == v[0]  vp == v[n - 1]  vn == v[n]
<1>12. /\ u0 \in Nat /\ up \in Nat /\ un \in Nat /\ v0 \in Nat /\ vp \in Nat /\ vn \in Nat
       /\ un - u0 # vn - v0 /\ up - u0 = vp - v0 /\ un - up = vn - vp
  BY <1>4, <1>5, <1>9, <1>10, <1>11
<1> HIDE DEF u0, up, un, v0, vp, vn
<1> QED  BY <1>12

\* The numbers of s behind a up to e are those of q behind b up to g.
Alike(s, a, e, q, b, g) ==
  /\ s \in Seq(Nat) /\ q \in Seq(Nat)
  /\ a \in Nat /\ b \in Nat /\ e \in Nat /\ g \in Nat
  /\ a <= e /\ e <= Len(s) /\ g <= Len(q) /\ e - a = g - b
  /\ \A i \in 1..(e - a) : s[a + i] = q[b + i]

Stretch(s, a, e) == Sums(s)[e] - Sums(s)[a]

\* Equal stretches of two sequences have equal sums.
LEMMA SameStretch ==
  ASSUME NEW s, NEW q, NEW a, NEW b, NEW e, NEW g, Alike(s, a, e, q, b, g)
  PROVE  Stretch(s, a, e) = Stretch(q, b, g)
<1> DEFINE d == e - a
<1>a. /\ s \in Seq(Nat) /\ q \in Seq(Nat) /\ a \in Nat /\ b \in Nat /\ e \in Nat /\ g \in Nat
      /\ a <= e /\ e <= Len(s) /\ g <= Len(q) /\ e - a = g - b
      /\ \A i \in 1..d : s[a + i] = q[b + i]
  BY DEF Alike
<1>b. d \in Nat /\ a + d = e /\ b + d = g
  BY <1>a
<1> HIDE DEF d
<1>c. a + d <= Len(s) /\ b + d <= Len(q)
  BY <1>a, <1>b
<1> DEFINE F == Sums(s)  G == Sums(q)
           u == [i \in 0..d |-> F[a + i]]  v == [i \in 0..d |-> G[b + i]]
<1>1. /\ F \in [0..Len(s) -> Nat] /\ \A k \in 1..Len(s) : F[k] = F[k - 1] + s[k]
      /\ G \in [0..Len(q) -> Nat] /\ \A k \in 1..Len(q) : G[k] = G[k - 1] + q[k]
      /\ Len(s) \in Nat /\ Len(q) \in Nat
  BY <1>a, SumsAre DEF SumsUpTo
<1>2. ASSUME NEW i \in 0..d PROVE a + i \in 0..Len(s) /\ b + i \in 0..Len(q)
  BY <1>1, <1>a, <1>b, <1>c
<1> HIDE DEF F, G
<1>3. \A i \in 0..d : F[a + i] \in Nat /\ G[b + i] \in Nat
  BY <1>1, <1>2
<1>4. u \in [0..d -> Nat] /\ v \in [0..d -> Nat]
  BY <1>3
<1>5. ASSUME NEW i \in 1..d PROVE u[i] - u[i - 1] = v[i] - v[i - 1]
  <2> DEFINE x == a + i  w == b + i
  <2>1. /\ x \in 1..Len(s) /\ w \in 1..Len(q) /\ a + (i - 1) = x - 1 /\ b + (i - 1) = w - 1
        /\ i \in 0..d /\ i - 1 \in 0..d
    BY <1>1, <1>a, <1>b, <1>c
  <2>2. u[i] = F[x] /\ u[i - 1] = F[x - 1] /\ v[i] = G[w] /\ v[i - 1] = G[w - 1]
    BY <2>1
  <2>3. s[x] = q[w]
    BY <1>a
  <2> HIDE DEF x, w, u, v
  <2>4. F[x] = F[x - 1] + s[x] /\ G[w] = G[w - 1] + q[w]
    BY <1>1, <2>1
  <2>5. x - 1 \in 0..Len(s) /\ w - 1 \in 0..Len(q)
    BY <1>1, <2>1
  <2>6. F[x - 1] \in Nat /\ G[w - 1] \in Nat
    BY <1>1, <2>5
  <2>7. s[x] \in Nat
    BY <1>a, <2>1
  <2>8. \A j, m, z \in Nat : (j + z) - j = (m + z) - m
    OBVIOUS
  <2>9. (F[x - 1] + s[x]) - F[x - 1] = (G[w - 1] + s[x]) - G[w - 1]
    BY <2>6, <2>7, <2>8
  <2> QED  BY <2>2, <2>3, <2>4, <2>9
<1>6. u[d] - u[0] = v[d] - v[0]
  <2> HIDE DEF u, v
  <2> QED  BY <1>b, <1>4, <1>5, GrowAlike
<1>7. u[d] = F[a + d] /\ u[0] = F[a] /\ v[d] = G[b + d] /\ v[0] = G[b]
  <2>1. d \in 0..d /\ 0 \in 0..d /\ a + 0 = a /\ b + 0 = b
    BY <1>a, <1>b
  <2>2. u[d] = F[a + d] /\ u[0] = F[a + 0] /\ v[d] = G[b + d] /\ v[0] = G[b + 0]
    BY <2>1
  <2> QED  BY <2>1, <2>2
<1> QED  BY <1>b, <1>6, <1>7 DEF F, G, Stretch

(***************************************************************************)
(* The inductive invariant.                                                *)
(***************************************************************************)

\* Initially nothing is cached, loaded or lent.
LEMMA InitFits == Init => EntriesFit
  BY ConstantsAssumption
     DEF Init, EntriesFit, TypeOK, LoansAreCounted, PurgedAwaitsReturn, ListIsCache,
         OneEntryPerName, PrivateIsMine, EntryState, ThreadState

\* Every critical section preserves the invariant.
LEMMA NextFits == EntriesFit /\ [Next]_vars => EntriesFit'
<1> SUFFICES ASSUME EntriesFit, [Next]_vars PROVE EntriesFit'
  OBVIOUS
<1> USE ConstantsAssumption
<1> USE DEF TypeOK, EntryState, ThreadState
<1>0. /\ lru \in Seq(Objs) /\ Len(lru) \in Nat /\ Distinct(lru)
      /\ \A o \in Objs : state[o] = "cached" <=> Linked(lru, o)
  BY DEF EntriesFit, ListIsCache, Distinct, Linked
<1>1. ASSUME NEW t \in Threads, NEW n \in Names, BorrowHit(t, n) PROVE EntriesFit'
  <2> PICK o \in Cached(n) : Lend(o)
    BY <1>1 DEF BorrowHit
  <2>1. o \in Objs /\ state[o] = "cached"
    BY DEF Cached
  <2>2. UNCHANGED <<state, fname, lru, total, sizeMax, bloom, pc, want, mine>>
    BY <1>1 DEF BorrowHit
  <2>3. LoansAreCounted' /\ PurgedAwaitsReturn'
    BY <2>1, <2>2 DEF Lend, EntriesFit, LoansAreCounted, PurgedAwaitsReturn
  <2>4. ListIsCache' /\ OneEntryPerName' /\ PrivateIsMine'
    <3>1. ListIsCache'
      BY <2>2 DEF EntriesFit, ListIsCache
    <3>2. OneEntryPerName'
      BY <2>2 DEF EntriesFit, OneEntryPerName
    <3>3. PrivateIsMine'
      BY <2>2 DEF EntriesFit, PrivateIsMine
    <3> QED  BY <3>1, <3>2, <3>3
  <2>5. TypeOK'
    BY <2>1, <2>2 DEF Lend, EntriesFit
  <2> QED  BY <2>3, <2>4, <2>5 DEF EntriesFit
<1>2. ASSUME NEW t \in Threads, NEW n \in Names, BorrowMiss(t, n) PROVE EntriesFit'
  BY <1>2 DEF BorrowMiss, EntriesFit, LoansAreCounted, PurgedAwaitsReturn,
              ListIsCache, OneEntryPerName, PrivateIsMine
<1>3. ASSUME NEW t \in Threads, Load(t) PROVE EntriesFit'
  <2> PICK o \in Objs : /\ state[o] = "unused"
                        /\ state' = [state EXCEPT ![o] = "private"]
                        /\ fname' = [fname EXCEPT ![o] = want[t]]
                        /\ cnt' = [cnt EXCEPT ![o] = 0]
                        /\ mine' = [mine EXCEPT ![t] = o]
    BY <1>3 DEF Load
  <2>1. /\ pc[t] = "load" /\ pc' = [pc EXCEPT ![t] = "insert"]
        /\ UNCHANGED <<lru, total, sizeMax, bloom, want, loans>>
    BY <1>3 DEF Load
  <2>2. want[t] \in Names
    BY <2>1 DEF EntriesFit, PrivateIsMine
  <2>3. LoansAreCounted' /\ PurgedAwaitsReturn'
    BY <2>1 DEF EntriesFit, LoansAreCounted, PurgedAwaitsReturn
  <2>4. ListIsCache' /\ OneEntryPerName'
    BY <2>1, SMTT(30) DEF EntriesFit, ListIsCache, OneEntryPerName
  <2>5. PrivateIsMine'
    <3>1. \A u \in Threads : mine[u] # o
      BY DEF EntriesFit, PrivateIsMine
    <3> QED  BY <2>1, <2>2, <3>1 DEF EntriesFit, PrivateIsMine
  <2>6. TypeOK'
    BY <2>1, <2>2 DEF EntriesFit
  <2> QED  BY <2>3, <2>4, <2>5, <2>6 DEF EntriesFit
<1>4. ASSUME NEW t \in Threads, LoadFail(t) PROVE EntriesFit'
  BY <1>4 DEF LoadFail, EntriesFit, LoansAreCounted, PurgedAwaitsReturn,
              ListIsCache, OneEntryPerName, PrivateIsMine
<1>5. ASSUME NEW t \in Threads, InsertRaced(t) PROVE EntriesFit'
  <2> PICK i \in 1..Len(lru) : Lend(lru[i]) /\ lru' = MoveToHead(lru, i)
    BY <1>5 DEF InsertRaced
  <2> DEFINE e == lru[i]  p == mine[t]
  <2>1. e \in Objs /\ state[e] = "cached" /\ Lend(e)
    BY <1>0 DEF Linked
  <2>2. p \in Objs /\ state[p] = "private" /\ p # e
    BY <1>5, <2>1 DEF InsertRaced, EntriesFit, PrivateIsMine
  <2>3. /\ pc' = [pc EXCEPT ![t] = "idle"] /\ want' = [want EXCEPT ![t] = NoFile]
        /\ mine' = [mine EXCEPT ![t] = NoObj] /\ state' = [state EXCEPT ![p] = "unused"]
        /\ UNCHANGED <<fname, total, sizeMax, bloom>>
    BY <1>5 DEF InsertRaced
  <2>4. /\ lru' \in Seq(Objs) /\ Distinct(lru')
        /\ \A o : Linked(lru', o) <=> Linked(lru, o)
    BY <1>0, MoveToHeadLinks
  <2>5. ListIsCache'
    <3>1. \A o \in Objs : state'[o] = "cached" <=> state[o] = "cached"
      BY <2>2, <2>3 DEF EntriesFit
    <3>2. \A o \in Objs : state'[o] = "cached" <=> Linked(lru', o)
      BY <1>0, <2>4, <3>1
    <3> QED  BY <2>4, <3>2 DEF ListIsCache, Distinct, Linked
  <2>6. LoansAreCounted' /\ PurgedAwaitsReturn'
    BY <2>1, <2>2, <2>3 DEF Lend, EntriesFit, LoansAreCounted, PurgedAwaitsReturn
  <2>7. OneEntryPerName'
    BY <2>2, <2>3 DEF EntriesFit, OneEntryPerName
  <2>8. PrivateIsMine'
    BY <2>2, <2>3 DEF EntriesFit, PrivateIsMine
  <2>9. TypeOK'
    <3>1. cnt' \in [Objs -> Nat] /\ loans' \in [Objs -> Nat]
      <4>1. cnt \in [Objs -> Nat] /\ loans \in [Objs -> Nat]
        BY DEF EntriesFit
      <4> HIDE DEF e
      <4> QED  BY <2>1, <4>1 DEF Lend
    <3>2. state' \in [Objs -> EntryState]
      BY <2>2, <2>3 DEF EntriesFit
    <3>3. /\ pc' \in [Threads -> ThreadState]
          /\ want' \in [Threads -> Names \cup {NoFile}]
          /\ mine' \in [Threads -> Objs \cup {NoObj}]
      BY <2>3 DEF EntriesFit
    <3> QED  BY <2>3, <2>4, <3>1, <3>2, <3>3 DEF EntriesFit
  <2> QED  BY <2>5, <2>6, <2>7, <2>8, <2>9 DEF EntriesFit
<1>6. ASSUME NEW t \in Threads, Insert(t) PROVE EntriesFit'
  <2> DEFINE p == mine[t]
  <2> PICK k \in 0..Len(lru) :
        /\ state' = [o \in Objs |->
                       IF o = p THEN "cached"
                       ELSE IF o \in {lru[j] : j \in (k + 1)..Len(lru)} THEN Detached(o)
                       ELSE state[o]]
        /\ lru' = <<p>> \o SubSeq(lru, 1, k)
    BY <1>6 DEF Insert
  <2> DEFINE out == {lru[j] : j \in (k + 1)..Len(lru)}
  <2>1. /\ p \in Objs /\ state[p] = "private" /\ fname[p] = want[t]
        /\ Cached(want[t]) = {}
    BY <1>6 DEF Insert, StillMissing, EntriesFit, PrivateIsMine
  <2>2. /\ pc' = [pc EXCEPT ![t] = "idle"] /\ want' = [want EXCEPT ![t] = NoFile]
        /\ mine' = [mine EXCEPT ![t] = NoObj] /\ Lend(p)
        /\ UNCHANGED <<fname, sizeMax, bloom>>
    BY <1>6 DEF Insert
  <2>3. \A o \in out : o \in Objs /\ state[o] = "cached" /\ o # p
    BY <1>0, <2>1 DEF Linked
  <2>4. /\ \A o \in Objs : (\E i \in 1..k : lru[i] = o) <=> (Linked(lru, o) /\ o \notin out)
        /\ state' = [o \in Objs |-> IF o = p THEN "cached"
                                    ELSE IF o \in out THEN Detached(o) ELSE state[o]]
    <3>1. ASSUME NEW o \in Objs, NEW i \in 1..k, lru[i] = o
          PROVE  Linked(lru, o) /\ o \notin out
      <4>1. i \in 1..Len(lru)
        BY <1>0
      <4>2. \A j \in (k + 1)..Len(lru) : j \in 1..Len(lru) /\ j # i
        BY <1>0
      <4> QED  BY <3>1, <1>0, <4>1, <4>2 DEF Linked, Distinct
    <3>2. ASSUME NEW o \in Objs, Linked(lru, o), o \notin out
          PROVE  \E i \in 1..k : lru[i] = o
      <4> PICK i \in 1..Len(lru) : lru[i] = o
        BY <3>2 DEF Linked
      <4>1. i \notin (k + 1)..Len(lru)
        BY <3>2
      <4>2. i \in 1..k
        BY <1>0, <4>1
      <4> QED  BY <4>2
    <3> QED  BY <3>1, <3>2
  <2> HIDE DEF out
  <2>5. lru' \in Seq(Objs) /\ ListIsCache'
    <3>1. ~Linked(lru, p)
      BY <1>0, <2>1
    <3>2. /\ lru' \in Seq(Objs) /\ Distinct(lru')
          /\ \A o : Linked(lru', o) <=> (o = p \/ \E i \in 1..k : lru[i] = o)
      BY <1>0, <2>1, <3>1, JoinHeadLinks
    <3>3. \A o \in Objs : state'[o] = "cached" <=>
                            o = p \/ (state[o] = "cached" /\ o \notin out)
      BY <2>1, <2>3, <2>4 DEF Detached
    <3>4. \A o \in Objs : state'[o] = "cached" <=> Linked(lru', o)
      BY <1>0, <2>4, <3>2, <3>3
    <3> QED  BY <3>2, <3>4 DEF ListIsCache, Distinct, Linked
  <2>6. LoansAreCounted' /\ PurgedAwaitsReturn'
    BY <2>1, <2>2, <2>3, <2>4 DEF Lend, Detached, EntriesFit, LoansAreCounted, PurgedAwaitsReturn
  <2>7. OneEntryPerName'
    BY <2>1, <2>2, <2>3, <2>4 DEF Cached, Detached, EntriesFit, OneEntryPerName
  <2>8. PrivateIsMine'
    <3>0. /\ \A u \in Threads : pc[u] = "insert" <=> mine[u] # NoObj
          /\ \A u \in Threads : mine[u] \in Objs \cup {NoObj}
          /\ \A u \in Threads : pc[u] = "insert" =>
               state[mine[u]] = "private" /\ fname[mine[u]] = want[u]
          /\ \A u, v \in Threads : mine[u] = mine[v] /\ mine[u] # NoObj => u = v
          /\ \A u \in Threads : pc[u] \in {"load", "insert"} => want[u] \in Names
      BY DEF EntriesFit, PrivateIsMine
    <3>1. \A o \in Objs : o # p /\ state[o] = "private" => state'[o] = "private"
      BY <2>3, <2>4
    <3>2. \A u \in Threads : u # t => mine'[u] = mine[u] /\ pc'[u] = pc[u] /\ want'[u] = want[u]
      BY <2>2 DEF EntriesFit
    <3>3. pc'[t] = "idle" /\ mine'[t] = NoObj
      BY <2>2 DEF EntriesFit
    <3>4. \A u \in Threads : u # t => mine[u] # p
      BY <2>1 DEF EntriesFit, PrivateIsMine
    <3>5. \A u \in Threads : pc'[u] = "insert" <=> mine'[u] # NoObj
      BY <3>0, <3>2, <3>3
    <3>6. \A u \in Threads : pc'[u] = "insert" =>
            state'[mine'[u]] = "private" /\ fname'[mine'[u]] = want'[u]
      <4> SUFFICES ASSUME NEW u \in Threads, pc'[u] = "insert"
                   PROVE  state'[mine'[u]] = "private" /\ fname'[mine'[u]] = want'[u]
        OBVIOUS
      <4>1. u # t /\ mine[u] \in Objs /\ mine[u] # p /\ mine'[u] = mine[u]
        BY <3>0, <3>2, <3>3, <3>4, SMTT(30)
      <4> QED  BY <2>2, <3>0, <3>1, <3>2, <4>1
    <3>7. \A u, v \in Threads : mine'[u] = mine'[v] /\ mine'[u] # NoObj => u = v
      BY <3>0, <3>2, <3>3
    <3>8. \A u \in Threads : pc'[u] \in {"load", "insert"} => want'[u] \in Names
      BY <3>0, <3>2, <3>3
    <3> QED  BY <3>5, <3>6, <3>7, <3>8 DEF PrivateIsMine
  <2>9. TypeOK'
    <3>1. cnt' \in [Objs -> Nat] /\ loans' \in [Objs -> Nat]
      BY <2>1, <2>2, SMTT(30) DEF Lend, EntriesFit
    <3>2. state' \in [Objs -> EntryState]
      BY <2>4 DEF Detached, EntriesFit
    <3>3. /\ pc' \in [Threads -> ThreadState]
          /\ want' \in [Threads -> Names \cup {NoFile}]
          /\ mine' \in [Threads -> Objs \cup {NoObj}]
      BY <2>2 DEF EntriesFit
    <3> QED  BY <2>2, <2>5, <3>1, <3>2, <3>3 DEF EntriesFit
  <2> QED  BY <2>5, <2>6, <2>7, <2>8, <2>9 DEF EntriesFit
<1>7. ASSUME NEW o \in Objs, Return(o) PROVE EntriesFit'
  <2>1. /\ loans[o] > 0 /\ loans' = [loans EXCEPT ![o] = @ - 1]
        /\ cnt' = [cnt EXCEPT ![o] = @ - 1]
        /\ state' = [state EXCEPT ![o] = IF @ = "purged" /\ cnt[o] = 1 THEN "unused" ELSE @]
        /\ UNCHANGED <<fname, lru, total, sizeMax, bloom, pc, want, mine>>
    BY <1>7 DEF Return
  <2>2. cnt[o] = loans[o] /\ state[o] \in {"cached", "purged"} /\ loans[o] \in Nat
    BY <2>1 DEF EntriesFit, LoansAreCounted
  <2>3. LoansAreCounted' /\ PurgedAwaitsReturn'
    BY <2>1, <2>2 DEF EntriesFit, LoansAreCounted, PurgedAwaitsReturn
  <2>4. ListIsCache' /\ OneEntryPerName' /\ PrivateIsMine'
    BY <2>1, <2>2 DEF EntriesFit, ListIsCache, OneEntryPerName, PrivateIsMine
  <2>5. TypeOK'
    BY <2>1, <2>2 DEF EntriesFit
  <2> QED  BY <2>3, <2>4, <2>5 DEF EntriesFit
<1>8. ASSUME NEW t \in Threads, PurgeAll(t) PROVE EntriesFit'
  BY <1>8 DEF PurgeAll, EntriesFit, LoansAreCounted, PurgedAwaitsReturn,
              ListIsCache, OneEntryPerName, PrivateIsMine
<1>9. ASSUME NEW t \in Threads, PurgeStep(t) PROVE EntriesFit'
  <2> PICK k \in 0..Len(lru) :
        /\ state' = [o \in Objs |->
             IF o \in {lru[j] : j \in 1..k} THEN Detached(o) ELSE state[o]]
        /\ lru' = SubSeq(lru, k + 1, Len(lru))
        /\ pc' = pc \/ pc' = [pc EXCEPT ![t] = "idle"]
    BY <1>9 DEF PurgeStep
  <2> DEFINE out == {lru[j] : j \in 1..k}
  <2>1. /\ pc[t] = "purge"
        /\ UNCHANGED <<fname, cnt, total, sizeMax, bloom, want, mine, loans>>
    BY <1>9 DEF PurgeStep
  <2>2. \A o \in out : o \in Objs /\ state[o] = "cached"
    BY <1>0 DEF Linked
  <2>3. /\ \A o \in Objs : (\E i \in (k + 1)..Len(lru) : lru[i] = o)
                             <=> (Linked(lru, o) /\ o \notin out)
        /\ state' = [o \in Objs |-> IF o \in out THEN Detached(o) ELSE state[o]]
    <3>1. ASSUME NEW o \in Objs, NEW i \in (k + 1)..Len(lru), lru[i] = o
          PROVE  Linked(lru, o) /\ o \notin out
      <4>1. i \in 1..Len(lru)
        BY <1>0
      <4>2. \A j \in 1..k : j \in 1..Len(lru) /\ j # i
        BY <1>0
      <4> QED  BY <3>1, <1>0, <4>1, <4>2 DEF Linked, Distinct
    <3>2. ASSUME NEW o \in Objs, Linked(lru, o), o \notin out
          PROVE  \E i \in (k + 1)..Len(lru) : lru[i] = o
      <4> PICK i \in 1..Len(lru) : lru[i] = o
        BY <3>2 DEF Linked
      <4>1. i \notin 1..k
        BY <3>2
      <4>2. i \in (k + 1)..Len(lru)
        BY <1>0, <4>1
      <4> QED  BY <4>2
    <3> QED  BY <3>1, <3>2
  <2> HIDE DEF out
  <2>4. lru' \in Seq(Objs) /\ ListIsCache'
    <3>1. /\ lru' \in Seq(Objs) /\ Distinct(lru')
          /\ \A o : Linked(lru', o) <=> \E i \in (k + 1)..Len(lru) : lru[i] = o
      BY <1>0, LeaveHeadLinks
    <3>2. \A o \in Objs : state'[o] = "cached" <=> (state[o] = "cached" /\ o \notin out)
      BY <2>2, <2>3 DEF Detached
    <3>3. \A o \in Objs : state'[o] = "cached" <=> Linked(lru', o)
      BY <1>0, <2>3, <3>1, <3>2
    <3> QED  BY <3>1, <3>3 DEF ListIsCache, Distinct, Linked
  <2>5. LoansAreCounted' /\ PurgedAwaitsReturn'
    BY <2>1, <2>2, <2>3 DEF Detached, EntriesFit, LoansAreCounted, PurgedAwaitsReturn
  <2>6. OneEntryPerName'
    BY <2>1, <2>2, <2>3 DEF Detached, EntriesFit, OneEntryPerName
  <2>7. PrivateIsMine'
    <3>1. \A u \in Threads : pc'[u] = pc[u] \/ (pc[u] = "purge" /\ pc'[u] = "idle")
      BY <2>1 DEF EntriesFit
    <3> QED  BY <2>1, <2>2, <2>3, <3>1, SMTT(30) DEF EntriesFit, PrivateIsMine
  <2>8. TypeOK'
    BY <2>1, <2>3, <2>4 DEF Detached, EntriesFit
  <2> QED  BY <2>4, <2>5, <2>6, <2>7, <2>8 DEF EntriesFit
<1>10. ASSUME NEW m \in Limits, Setup(m) PROVE EntriesFit'
  BY <1>10 DEF Setup, EntriesFit, LoansAreCounted, PurgedAwaitsReturn,
               ListIsCache, OneEntryPerName, PrivateIsMine
<1>11. ASSUME NEW names \in SUBSET Names, UpdateBloomFilter(names) PROVE EntriesFit'
  BY <1>11 DEF UpdateBloomFilter, EntriesFit, LoansAreCounted, PurgedAwaitsReturn,
               ListIsCache, OneEntryPerName, PrivateIsMine
<1>12. ASSUME RemoveBloomFilter PROVE EntriesFit'
  BY <1>12 DEF RemoveBloomFilter, EntriesFit, LoansAreCounted, PurgedAwaitsReturn,
               ListIsCache, OneEntryPerName, PrivateIsMine
<1>13. ASSUME UNCHANGED vars PROVE EntriesFit'
  BY <1>13 DEF vars, EntriesFit, LoansAreCounted, PurgedAwaitsReturn,
               ListIsCache, OneEntryPerName, PrivateIsMine
<1> QED  BY <1>1, <1>2, <1>3, <1>4, <1>5, <1>6, <1>7, <1>8, <1>9, <1>10, <1>11, <1>12,
            <1>13 DEF Next

(***************************************************************************)
(* The account of sizes.                                                   *)
(***************************************************************************)

\* The sizes of the entries of list s, whose names are f.
Sizes(f, s) == [i \in 1..Len(s) |-> Size[f[s[i]]]]

Named(f, s) == \A i \in 1..Len(s) : f[s[i]] \in Names

\* They are a sequence of numbers, with these sums.
LEMMA SizesAre ==
  ASSUME NEW s \in Seq(Objs), NEW f, Named(f, s)
  PROVE  /\ Sizes(f, s) \in Seq(Nat) /\ Len(Sizes(f, s)) = Len(s) /\ Len(s) \in Nat
         /\ \A i \in 1..Len(s) : Sizes(f, s)[i] = Size[f[s[i]]] /\ Size[f[s[i]]] \in Nat
         /\ Sums(Sizes(f, s)) \in [0..Len(s) -> Nat]
         /\ Sums(Sizes(f, s))[0] = 0
         /\ \A k \in 1..Len(s) :
              Sums(Sizes(f, s))[k] = Sums(Sizes(f, s))[k - 1] + Sizes(f, s)[k]
<1> DEFINE z == Sizes(f, s)
<1>1. Len(s) \in Nat
  OBVIOUS
<1>2. \A i \in 1..Len(s) : z[i] = Size[f[s[i]]] /\ z[i] \in Nat
  BY ConstantsAssumption DEF Sizes, Named
<1>3. z \in [1..Len(s) -> Nat]
  BY <1>2 DEF Sizes
<1>4. z \in Seq(Nat) /\ Len(z) = Len(s)
  BY <1>1, <1>3
<1>5. SumsUpTo(Sums(z), z, Len(z))
  <2> HIDE DEF z
  <2> QED  BY <1>4, SumsAre
<1> HIDE DEF z
<1>6. /\ Sums(z) \in [0..Len(s) -> Nat] /\ Sums(z)[0] = 0
      /\ \A k \in 1..Len(s) : Sums(z)[k] = Sums(z)[k - 1] + z[k]
  BY <1>4, <1>5 DEF SumsUpTo
<1> QED  BY <1>1, <1>2, <1>4, <1>6 DEF z

\* Moving an entry to the head changes no sum of the whole list.
LEMMA MoveKeepsSum ==
  ASSUME NEW s \in Seq(Objs), NEW f, Named(f, s), NEW n \in 1..Len(s)
  PROVE  LET q == MoveToHead(s, n) IN
         Named(f, q) /\ Sums(Sizes(f, q))[Len(q)] = Sums(Sizes(f, s))[Len(s)]
<1> DEFINE q == MoveToHead(s, n)  N == Len(s)
           z == Sizes(f, s)  y == Sizes(f, q)
<1>1. /\ q \in Seq(Objs) /\ Len(q) = N /\ q[1] = s[n] /\ N \in Nat
      /\ \A i \in 1..(n - 1) : q[i + 1] = s[i]
      /\ \A i \in (n + 1)..N : q[i] = s[i]
  BY MoveToHeadFacts
<1> HIDE DEF q
<1>2. ASSUME NEW i \in 1..N PROVE \E j \in 1..N : q[i] = s[j]
  <2>1. CASE i = 1
    BY <1>1, <2>1
  <2>2. CASE i # 1 /\ i <= n
    <3>1. i - 1 \in 1..(n - 1) /\ (i - 1) + 1 = i /\ i - 1 \in 1..N
      BY <1>1, <2>2
    <3>2. q[(i - 1) + 1] = s[i - 1]
      BY <1>1, <3>1
    <3> QED  BY <3>1, <3>2
  <2>3. CASE i > n
    BY <1>1, <2>3
  <2>4. i \in Int /\ n \in Int /\ (i <= n \/ i > n)
    BY <1>1
  <2> QED  BY <2>1, <2>2, <2>3, <2>4
<1>3. Named(f, q)
  BY <1>1, <1>2 DEF Named
<1>4. /\ z \in Seq(Nat) /\ Len(z) = N /\ \A i \in 1..N : z[i] = Size[f[s[i]]] /\ z[i] \in Nat
      /\ Sums(z) \in [0..N -> Nat] /\ Sums(z)[0] = 0
      /\ \A k \in 1..N : Sums(z)[k] = Sums(z)[k - 1] + z[k]
  BY SizesAre
<1>5. /\ y \in Seq(Nat) /\ Len(y) = N /\ \A i \in 1..N : y[i] = Size[f[q[i]]]
      /\ Sums(y) \in [0..N -> Nat] /\ Sums(y)[0] = 0
      /\ \A k \in 1..N : Sums(y)[k] = Sums(y)[k - 1] + y[k]
  BY <1>1, <1>3, SizesAre
<1> HIDE DEF z, y
<1> DEFINE l == n - 1
<1>n. /\ N \in Nat /\ n \in Nat /\ l \in Nat /\ 1 <= n /\ n <= N /\ n - 1 = l - 0 /\ l <= N
      /\ 1 \in 1..N /\ n \in 1..N /\ 1 - 1 = 0
      /\ 0 \in 0..N /\ 1 \in 0..N /\ n \in 0..N /\ l \in 0..N /\ N \in 0..N
  BY <1>1
<1>6. Sums(y)[n] - Sums(y)[1] = Sums(z)[l] - Sums(z)[0]
  <2>1. ASSUME NEW i \in 1..(n - 1) PROVE y[1 + i] = z[0 + i]
    <3>1. i \in 1..N /\ 1 + i \in 1..N /\ 1 + i = i + 1 /\ 0 + i = i
      BY <1>1
    <3>2. q[i + 1] = s[i]
      BY <1>1
    <3>3. y[1 + i] = Size[f[q[1 + i]]] /\ z[i] = Size[f[s[i]]]
      BY <1>4, <1>5, <3>1
    <3> QED  BY <3>1, <3>2, <3>3
  <2>2. n <= Len(y) /\ l <= Len(z)
    BY <1>4, <1>5, <1>n
  <2> HIDE DEF l
  <2>3. Alike(y, 1, n, z, 0, l)
    BY <1>4, <1>5, <1>n, <2>1, <2>2 DEF Alike
  <2> QED  BY <2>3, SameStretch DEF Stretch
<1>7. Sums(y)[N] - Sums(y)[n] = Sums(z)[N] - Sums(z)[n]
  <2>1. ASSUME NEW i \in 1..(N - n) PROVE y[n + i] = z[n + i]
    <3>1. n + i \in (n + 1)..N /\ n + i \in 1..N
      BY <1>1
    <3>2. q[n + i] = s[n + i]
      BY <1>1, <3>1
    <3>3. y[n + i] = Size[f[q[n + i]]] /\ z[n + i] = Size[f[s[n + i]]]
      BY <1>4, <1>5, <3>1
    <3> QED  BY <3>2, <3>3
  <2>2. N <= Len(y) /\ N <= Len(z)
    BY <1>4, <1>5, <1>n
  <2> HIDE DEF N
  <2>3. Alike(y, n, N, z, n, N)
    BY <1>4, <1>5, <1>n, <2>1, <2>2 DEF Alike
  <2> QED  BY <2>3, SameStretch DEF Stretch
<1>8. y[1] = z[n]
  <2>1. y[1] = Size[f[q[1]]] /\ z[n] = Size[f[s[n]]]
    BY <1>4, <1>5, <1>n
  <2>2. q[1] = s[n]
    BY <1>1
  <2> QED  BY <2>1, <2>2
<1>9. Sums(y)[1] = Sums(y)[0] + y[1] /\ Sums(z)[n] = Sums(z)[l] + z[n]
  BY <1>4, <1>5, <1>n
<1> DEFINE y1 == Sums(y)[1]  yn == Sums(y)[n]  yN == Sums(y)[N]
           zl == Sums(z)[l]  zn == Sums(z)[n]  zN == Sums(z)[N]  w == z[n]
<1>10. y1 \in Nat /\ yn \in Nat /\ yN \in Nat
  <2> HIDE DEF l
  <2> QED  BY <1>5, <1>n
<1>11. zl \in Nat /\ zn \in Nat /\ zN \in Nat /\ w \in Nat
  <2> HIDE DEF l
  <2> QED  BY <1>4, <1>n
<1>12. y1 = 0 + w /\ zn = zl + w /\ yn - y1 = zl - 0 /\ yN - yn = zN - zn
  BY <1>4, <1>5, <1>6, <1>7, <1>8, <1>9
<1>13. yN = zN
  <2> HIDE DEF y1, yn, yN, zl, zn, zN, w
  <2> QED  BY <1>10, <1>11, <1>12
<1> QED  BY <1>1, <1>3, <1>13 DEF q, z, y

\* Taking k entries off the head takes their bytes off the sum.
LEMMA LeaveSum ==
  ASSUME NEW s \in Seq(Objs), NEW f, Named(f, s), NEW k \in 0..Len(s)
  PROVE  LET q == SubSeq(s, k + 1, Len(s)) IN
         /\ Named(f, q)
         /\ Sums(Sizes(f, q))[Len(q)] = Sums(Sizes(f, s))[Len(s)] - Sums(Sizes(f, s))[k]
<1> DEFINE q == SubSeq(s, k + 1, Len(s))  N == Len(s)
           z == Sizes(f, s)  y == Sizes(f, q)
<1>1. /\ q \in Seq(Objs) /\ Len(q) = N - k /\ N \in Nat
      /\ \A i \in 1..(N - k) : q[i] = s[i + k]
  BY LeaveHeadFacts
<1> HIDE DEF q
<1>2. \A i \in 1..(N - k) : i + k \in 1..N /\ k + i \in 1..N /\ k + i = i + k
  BY <1>1
<1>3. Named(f, q)
  BY <1>1, <1>2 DEF Named
<1>4. /\ z \in Seq(Nat) /\ Len(z) = N /\ \A i \in 1..N : z[i] = Size[f[s[i]]]
      /\ Sums(z) \in [0..N -> Nat] /\ Sums(z)[0] = 0
  BY SizesAre
<1>5. /\ y \in Seq(Nat) /\ Len(y) = N - k /\ \A i \in 1..(N - k) : y[i] = Size[f[q[i]]]
      /\ Sums(y) \in [0..(N - k) -> Nat] /\ Sums(y)[0] = 0
  BY <1>1, <1>3, SizesAre
<1> HIDE DEF z, y
<1> DEFINE m == N - k
<1>n. /\ N \in Nat /\ k \in Nat /\ m \in Nat /\ 0 <= m /\ m - 0 = N - k /\ m \in 0..m
      /\ m <= Len(y) /\ N <= Len(z)
  BY <1>1, <1>4, <1>5
<1>6. Sums(y)[m] - Sums(y)[0] = Sums(z)[N] - Sums(z)[k]
  <2>1. ASSUME NEW i \in 1..(m - 0) PROVE y[0 + i] = z[k + i]
    <3>1. 0 + i = i /\ i \in 1..(N - k)
      BY <1>1
    <3>2. q[i] = s[i + k] /\ k + i = i + k /\ k + i \in 1..N
      BY <1>1, <1>2, <3>1
    <3>3. y[i] = Size[f[q[i]]] /\ z[k + i] = Size[f[s[k + i]]]
      BY <1>4, <1>5, <3>1, <3>2
    <3> QED  BY <3>1, <3>2, <3>3
  <2> HIDE DEF m, N
  <2>2. Alike(y, 0, m, z, k, N)
    BY <1>4, <1>5, <1>n, <2>1 DEF Alike
  <2> QED  BY <2>2, SameStretch DEF Stretch
<1>7. Sums(y)[m] \in Nat
  BY <1>5, <1>n
<1>8. Sums(y)[m] = Sums(z)[N] - Sums(z)[k]
  <2> DEFINE ym == Sums(y)[m]
  <2>1. ym - 0 = Sums(z)[N] - Sums(z)[k] /\ ym \in Nat
    BY <1>5, <1>6, <1>7
  <2> HIDE DEF ym
  <2>2. ym - 0 = ym
    BY <2>1
  <2> QED  BY <2>1, <2>2 DEF ym
<1> QED  BY <1>1, <1>3, <1>8 DEF q, z, y

\* The sum of the first k entries and a new one at the head.
LEMMA JoinSum ==
  ASSUME NEW s \in Seq(Objs), NEW p \in Objs, NEW f, Named(f, s), f[p] \in Names,
         NEW k \in 0..Len(s)
  PROVE  LET q == <<p>> \o SubSeq(s, 1, k) IN
         /\ Named(f, q) /\ Len(q) = k + 1
         /\ Sums(Sizes(f, q))[Len(q)] = Sums(Sizes(f, s))[k] + Size[f[p]]
<1> DEFINE q == <<p>> \o SubSeq(s, 1, k)  N == Len(s)
           z == Sizes(f, s)  y == Sizes(f, q)
<1>1. /\ q \in Seq(Objs) /\ Len(q) = k + 1 /\ q[1] = p /\ N \in Nat
      /\ \A i \in 2..(k + 1) : q[i] = s[i - 1]
  BY JoinHeadFacts
<1> HIDE DEF q
<1>2. \A i \in 1..k : 1 + i \in 2..(k + 1) /\ 1 + i \in 1..(k + 1) /\ (1 + i) - 1 = i /\ i \in 1..N
  BY <1>1
<1>3. Named(f, q)
  <2> SUFFICES ASSUME NEW i \in 1..(k + 1) PROVE f[q[i]] \in Names
    BY <1>1 DEF Named
  <2>1. CASE i = 1
    BY <1>1, <2>1
  <2>2. CASE i # 1
    <3>1. i \in 2..(k + 1) /\ i - 1 \in 1..N
      BY <1>1, <2>2
    <3> QED  BY <1>1, <3>1 DEF Named
  <2> QED  BY <2>1, <2>2
<1>4. /\ z \in Seq(Nat) /\ Len(z) = N /\ \A i \in 1..N : z[i] = Size[f[s[i]]]
      /\ Sums(z) \in [0..N -> Nat] /\ Sums(z)[0] = 0
  BY SizesAre
<1>5. /\ y \in Seq(Nat) /\ Len(y) = k + 1 /\ \A i \in 1..(k + 1) : y[i] = Size[f[q[i]]]
      /\ Sums(y) \in [0..(k + 1) -> Nat] /\ Sums(y)[0] = 0
      /\ \A i \in 1..(k + 1) : Sums(y)[i] = Sums(y)[i - 1] + y[i]
  <2>1. /\ y \in Seq(Nat) /\ Len(y) = Len(q) /\ \A i \in 1..Len(q) : y[i] = Size[f[q[i]]]
        /\ Sums(y) \in [0..Len(q) -> Nat] /\ Sums(y)[0] = 0
        /\ \A i \in 1..Len(q) : Sums(y)[i] = Sums(y)[i - 1] + y[i]
    BY <1>1, <1>3, SizesAre
  <2> HIDE DEF y
  <2> QED  BY <1>1, <2>1
<1> HIDE DEF z, y
<1> DEFINE e == k + 1
<1>n. /\ k \in Nat /\ e \in Nat /\ 1 <= e /\ e - 1 = k - 0 /\ e <= Len(y) /\ k <= Len(z)
      /\ e \in 0..(k + 1) /\ k \in 0..N
  BY <1>1, <1>4, <1>5
<1>6. Sums(y)[e] - Sums(y)[1] = Sums(z)[k] - Sums(z)[0]
  <2>1. ASSUME NEW i \in 1..(e - 1) PROVE y[1 + i] = z[0 + i]
    <3>1. 0 + i = i /\ i \in 1..k
      BY <1>n
    <3>2. q[1 + i] = s[i]
      BY <1>1, <1>2, <3>1
    <3>3. y[1 + i] = Size[f[q[1 + i]]] /\ z[i] = Size[f[s[i]]]
      BY <1>2, <1>4, <1>5, <3>1
    <3> QED  BY <3>1, <3>2, <3>3
  <2> HIDE DEF e
  <2>2. Alike(y, 1, e, z, 0, k)
    BY <1>4, <1>5, <1>n, <2>1 DEF Alike
  <2> QED  BY <2>2, SameStretch DEF Stretch
<1>7. Size[f[p]] \in Nat
  BY ConstantsAssumption
<1>8. Sums(y)[1] = Size[f[p]]
  <2>1. 1 \in 1..(k + 1) /\ 1 - 1 = 0
    OBVIOUS
  <2>2. Sums(y)[1] = Sums(y)[0] + y[1]
    BY <1>5, <2>1
  <2>3. y[1] = Size[f[p]]
    BY <1>1, <1>5, <2>1
  <2> QED  BY <1>5, <1>7, <2>2, <2>3
<1> DEFINE ye == Sums(y)[e]  zk == Sums(z)[k]  w == Size[f[p]]
<1>9. ye \in Nat /\ zk \in Nat /\ w \in Nat /\ ye - w = zk - 0
  BY <1>4, <1>5, <1>6, <1>7, <1>8, <1>n
<1>10. ye = zk + w
  <2> HIDE DEF ye, zk, w
  <2> QED  BY <1>9
<1> QED  BY <1>1, <1>3, <1>10 DEF q, z, y

\* A step that keeps the list, the names of its entries and the account.
LEMMA SameList ==
  ASSUME TotalCovers, lru' = lru, total' = total,
         \A i \in 1..Len(lru) : fname'[lru[i]] = fname[lru[i]]
  PROVE  TotalCovers'
<1>1. [i \in 1..Len(lru) |-> SizeOf(lru[i])]' = [i \in 1..Len(lru) |-> SizeOf(lru[i])]
  BY DEF SizeOf
<1>2. Bytes' = Bytes
  BY <1>1 DEF Bytes
<1> QED  BY <1>2 DEF TotalCovers

\* An insertion keeps the account, and leaves the list within the limit or with
\* the new entry alone.
LEMMA InsertCounts ==
  ASSUME EntriesFit, TotalCovers, NEW t \in Threads, Insert(t)
  PROVE  /\ TotalCovers'
         /\ sizeMax > 0 => Bytes'[Len(lru')] <= sizeMax \/ Len(lru') = 1
<1> DEFINE p == mine[t]  size == SizeOf(p)  N == Len(lru)
<1>1. PICK k \in 0..N : /\ Survivors(k, size)
                        /\ total' = TotalAfter(k, size)
                        /\ lru' = <<p>> \o SubSeq(lru, 1, k)
  BY DEF Insert
<1>2. fname' = fname /\ sizeMax' = sizeMax /\ pc[t] = "insert"
  BY DEF Insert
<1>3. p \in Objs /\ fname[p] \in Names
  BY <1>2 DEF EntriesFit, TypeOK, PrivateIsMine
<1>4. lru \in Seq(Objs) /\ Named(fname, lru) /\ N \in Nat /\ sizeMax \in Int /\ total \in Nat
  BY ConstantsAssumption DEF EntriesFit, TypeOK, TotalCovers, Named
<1>5. /\ Named(fname, lru') /\ Len(lru') = k + 1
      /\ Sums(Sizes(fname, lru'))[Len(lru')] = Sums(Sizes(fname, lru))[k] + Size[fname[p]]
  BY <1>1, <1>3, <1>4, JoinSum
<1>6. Bytes = Sums(Sizes(fname, lru)) /\ Bytes' = Sums(Sizes(fname, lru'))
  BY <1>2 DEF Bytes, SizeOf, Sizes
<1>7. Bytes \in [0..N -> Nat] /\ Bytes[N] <= total /\ size \in Nat /\ size = Size[fname[p]]
  BY <1>3, <1>4, <1>6, SizesAre, ConstantsAssumption DEF TotalCovers, SizeOf
<1>8. Bytes[k] \in Nat /\ Bytes[N] \in Nat
  BY <1>4, <1>7
<1> DEFINE B == Bytes'[Len(lru')]
<1>9. B = Bytes[k] + size
  BY <1>5, <1>6, <1>7
<1>10. total' = (total - (Bytes[N] - Bytes[k])) + size
  BY <1>1 DEF TotalAfter, BytesBehind
<1> HIDE DEF B, size
<1>11. total' \in Nat /\ B <= total'
  <2> DEFINE bk == Bytes[k]  bn == Bytes[N]
  <2>1. /\ bk \in Nat /\ bn \in Nat /\ size \in Nat /\ total \in Nat /\ bn <= total
        /\ B = bk + size /\ total' = (total - (bn - bk)) + size
    BY <1>4, <1>7, <1>8, <1>9, <1>10
  <2> HIDE DEF bk, bn
  <2> QED  BY <2>1
<1>12. TotalCovers'
  BY <1>2, <1>5, <1>11 DEF TotalCovers, Named, B
<1>13. ASSUME sizeMax > 0 PROVE B <= sizeMax \/ Len(lru') = 1
  <2>1. CASE total + size <= sizeMax
    <3>1. k = N
      BY <1>1, <2>1 DEF Survivors
    <3> QED  BY <1>4, <1>7, <1>8, <1>9, <2>1, <3>1
  <2>2. CASE ~(total + size <= sizeMax)
    <3>1. k = 0 \/ Fits(k, size)
      BY <1>1, <1>4, <1>13, <2>2 DEF Survivors
    <3>2. CASE k = 0
      BY <1>5, <3>2
    <3>3. CASE Fits(k, size)
      <4>1. sizeMax - (total - (Bytes[N] - Bytes[k])) >= size
        BY <3>3 DEF Fits, BytesBehind
      <4> QED  BY <1>4, <1>7, <1>8, <1>9, <4>1
    <3> QED  BY <3>1, <3>2, <3>3
  <2> QED  BY <2>1, <2>2
<1> QED  BY <1>12, <1>13 DEF B

\* Every critical section keeps the account.
LEMMA NextCovers == EntriesFit /\ TotalCovers /\ [Next]_vars => TotalCovers'
<1> SUFFICES ASSUME EntriesFit, TotalCovers, [Next]_vars PROVE TotalCovers'
  OBVIOUS
<1>0. lru \in Seq(Objs) /\ Named(fname, lru) /\ Len(lru) \in Nat /\ total \in Nat
  BY DEF EntriesFit, TypeOK, TotalCovers, Named
<1>1. ASSUME UNCHANGED <<lru, total, fname>> PROVE TotalCovers'
  BY <1>1, SameList
<1>2. ASSUME NEW t \in Threads, Load(t) PROVE TotalCovers'
  <2>1. PICK o \in Objs : state[o] = "unused" /\ fname' = [fname EXCEPT ![o] = want[t]]
    BY <1>2 DEF Load
  <2>2. lru' = lru /\ total' = total
    BY <1>2 DEF Load
  <2>3. ASSUME NEW i \in 1..Len(lru) PROVE fname'[lru[i]] = fname[lru[i]]
    <3>1. lru[i] \in Objs /\ state[lru[i]] = "cached"
      BY <1>0 DEF EntriesFit, ListIsCache
    <3>2. lru[i] # o
      BY <2>1, <3>1
    <3> QED  BY <2>1, <3>1, <3>2 DEF EntriesFit, TypeOK
  <2> QED  BY <2>2, <2>3, SameList
<1>3. ASSUME NEW t \in Threads, InsertRaced(t) PROVE TotalCovers'
  <2>1. PICK i \in 1..Len(lru) : lru' = MoveToHead(lru, i)
    BY <1>3 DEF InsertRaced
  <2>2. fname' = fname /\ total' = total
    BY <1>3 DEF InsertRaced
  <2>3. /\ Named(fname, lru')
        /\ Sums(Sizes(fname, lru'))[Len(lru')] = Sums(Sizes(fname, lru))[Len(lru)]
    BY <1>0, <2>1, MoveKeepsSum
  <2>4. Bytes = Sums(Sizes(fname, lru)) /\ Bytes' = Sums(Sizes(fname, lru'))
    BY <2>2 DEF Bytes, SizeOf, Sizes
  <2> QED  BY <2>2, <2>3, <2>4 DEF TotalCovers, Named
<1>4. ASSUME NEW t \in Threads, Insert(t) PROVE TotalCovers'
  BY <1>4, InsertCounts
<1>5. ASSUME NEW t \in Threads, PurgeStep(t) PROVE TotalCovers'
  <2>1. PICK k \in 0..Len(lru) : lru' = SubSeq(lru, k + 1, Len(lru))
    BY <1>5 DEF PurgeStep
  <2>2. fname' = fname /\ total' = total
    BY <1>5 DEF PurgeStep
  <2>3. /\ Named(fname, lru')
        /\ Sums(Sizes(fname, lru'))[Len(lru')] =
             Sums(Sizes(fname, lru))[Len(lru)] - Sums(Sizes(fname, lru))[k]
    BY <1>0, <2>1, LeaveSum
  <2>4. Bytes = Sums(Sizes(fname, lru)) /\ Bytes' = Sums(Sizes(fname, lru'))
    BY <2>2 DEF Bytes, SizeOf, Sizes
  <2>5. Bytes[k] \in Nat /\ Bytes[Len(lru)] \in Nat
    <3>1. Bytes \in [0..Len(lru) -> Nat]
      BY <1>0, <2>4, SizesAre
    <3>2. k \in 0..Len(lru) /\ Len(lru) \in 0..Len(lru)
      BY <1>0
    <3> QED  BY <3>1, <3>2
  <2>6. Bytes'[Len(lru')] = Bytes[Len(lru)] - Bytes[k]
    BY <2>3, <2>4
  <2>7. Bytes'[Len(lru')] <= total
    BY <1>0, <2>5, <2>6 DEF TotalCovers
  <2> QED  BY <2>2, <2>3, <2>7 DEF TotalCovers, Named
<1>6. ASSUME NEW t \in Threads,
             \/ \E n \in Names : BorrowHit(t, n) \/ BorrowMiss(t, n)
             \/ LoadFail(t) \/ PurgeAll(t)
      PROVE  UNCHANGED <<lru, total, fname>>
  BY <1>6 DEF BorrowHit, BorrowMiss, LoadFail, PurgeAll
<1>7. ASSUME \/ \E o \in Objs : Return(o)
             \/ \E m \in Limits : Setup(m)
             \/ \E names \in SUBSET Names : UpdateBloomFilter(names)
             \/ RemoveBloomFilter
      PROVE  UNCHANGED <<lru, total, fname>>
  BY <1>7 DEF Return, Setup, UpdateBloomFilter, RemoveBloomFilter
<1>8. CASE UNCHANGED vars
  BY <1>1, <1>8 DEF vars
<1>9. CASE Next
  BY <1>1, <1>2, <1>3, <1>4, <1>5, <1>6, <1>7, <1>9 DEF Next
<1> QED  BY <1>8, <1>9

\* An empty list holds no bytes.
LEMMA InitCovers == Init => TotalCovers
<1> SUFFICES ASSUME Init PROVE TotalCovers
  OBVIOUS
<1>1. lru = <<>> /\ total = 0
  BY DEF Init
<1>2. Len(lru) = 0 /\ lru \in Seq(Objs) /\ Named(fname, lru)
  BY <1>1 DEF Named
<1>3. Bytes = Sums(Sizes(fname, lru))
  BY DEF Bytes, SizeOf, Sizes
<1>4. Bytes[0] = 0
  BY <1>2, <1>3, SizesAre
<1> QED  BY <1>1, <1>2, <1>4 DEF TotalCovers

\* IInv holds in every reachable state, whatever the constants.
THEOREM Invariance == Spec => []IInv
<1>1. Init => IInv
  BY InitFits, InitCovers DEF IInv
<1>2. IInv /\ [Next]_vars => IInv'
  BY NextFits, NextCovers DEF IInv
<1> QED  BY <1>1, <1>2, PTL DEF Spec

\* In particular, what a reader of the cache relies on: the counter of an
\* entry is the number of its holders, a held entry is never freed, and one
\* that was evicted while held is not leaked.
THEOREM LoansTheorem == Spec => [](LoansAreCounted /\ PurgedAwaitsReturn)
<1>1. IInv => LoansAreCounted /\ PurgedAwaitsReturn
  BY DEF IInv, EntriesFit
<1> QED  BY <1>1, Invariance, PTL

\* The limit of file_lru_borrow: an insertion evicts enough for the list to hold no
\* more bytes than the limit, whatever was purged, raced or set up before, unless the
\* new file is alone in the list.
THEOREM LimitTheorem == Spec => WithinLimitAfterInsert
<1> DEFINE Kept == (sizeMax > 0 /\ total' # total) =>
                     Bytes'[Len(lru')] <= sizeMax \/ Len(lru') = 1
<1>1. IInv /\ [Next]_vars => [Kept]_vars
  <2> SUFFICES ASSUME IInv, Next, sizeMax > 0, total' # total
               PROVE  Bytes'[Len(lru')] <= sizeMax \/ Len(lru') = 1
    OBVIOUS
  <2>1. ASSUME NEW t \in Threads, Insert(t)
        PROVE  Bytes'[Len(lru')] <= sizeMax \/ Len(lru') = 1
    BY <2>1, InsertCounts DEF IInv
  <2>2. \E t \in Threads : Insert(t)
    <3>1. ASSUME NEW t \in Threads,
                 \/ \E n \in Names : BorrowHit(t, n) \/ BorrowMiss(t, n)
                 \/ Load(t) \/ LoadFail(t) \/ InsertRaced(t) \/ PurgeAll(t) \/ PurgeStep(t)
          PROVE  FALSE
      BY <3>1 DEF BorrowHit, BorrowMiss, Load, LoadFail, InsertRaced, PurgeAll, PurgeStep
    <3>2. ASSUME \/ \E o \in Objs : Return(o)
                 \/ \E m \in Limits : Setup(m)
                 \/ \E names \in SUBSET Names : UpdateBloomFilter(names)
                 \/ RemoveBloomFilter
          PROVE  FALSE
      BY <3>2 DEF Return, Setup, UpdateBloomFilter, RemoveBloomFilter
    <3> QED  BY <3>1, <3>2 DEF Next
  <2> QED  BY <2>1, <2>2
<1> QED  BY <1>1, Invariance, PTL DEF Spec, WithinLimitAfterInsert

(***************************************************************************)
(* The cache keeps the promise of FileLoans.                               *)
(***************************************************************************)

\* What callers see of entry o: the file it stands for while it is held.
Content == [o \in Objs |-> IF loans[o] > 0 THEN fname[o] ELSE NoFile]

\* One more loan of an entry that carries name n is a Borrow step.
LEMMA LendIsBorrow ==
  ASSUME TypeOK, NEW o \in Objs, NEW n \in Names, fname[o] = n, Lend(o), UNCHANGED fname
  PROVE  Promise!Borrow(o, n)
<1>1. /\ loans \in [Objs -> Nat] /\ loans' = [loans EXCEPT ![o] = @ + 1]
  BY DEF TypeOK, Lend
<1>2. loans[o] = 0 \/ Content[o] = n
  BY <1>1 DEF Content
<1>3. Content' = [Content EXCEPT ![o] = n]
  <2>1. \A q \in Objs : Content'[q] = IF q = o THEN n ELSE Content[q]
    <3> TAKE q \in Objs
    <3>1. loans'[q] = (IF q = o THEN loans[q] + 1 ELSE loans[q]) /\ loans[q] \in Nat
      BY <1>1
    <3> QED  BY <3>1 DEF Content
  <2> QED  BY <2>1 DEF Content
<1> QED  BY <1>1, <1>2, <1>3 DEF Promise!Borrow, Content

\* A step of the cache is a Borrow, a GiveBack, or invisible to callers.
LEMMA StepSimulation ==
  EntriesFit /\ [Next]_vars => [Promise!Next]_<<loans, Content>>
<1> SUFFICES ASSUME EntriesFit, [Next]_vars
             PROVE  Promise!Next \/ (loans' = loans /\ Content' = Content)
  OBVIOUS
<1>0. TypeOK
  BY DEF EntriesFit
<1>1. ASSUME NEW t \in Threads, NEW n \in Names, BorrowHit(t, n) PROVE Promise!Next
  <2> PICK o \in Cached(n) : Lend(o)
    BY <1>1 DEF BorrowHit
  <2>1. o \in Objs /\ fname[o] = n /\ UNCHANGED fname
    BY <1>1 DEF Cached, BorrowHit
  <2> QED  BY <1>0, <2>1, LendIsBorrow DEF Promise!Next
<1>2. ASSUME NEW t \in Threads, InsertRaced(t) PROVE Promise!Next
  <2> PICK i \in 1..Len(lru) : fname[lru[i]] = want[t] /\ Lend(lru[i])
    BY <1>2 DEF InsertRaced
  <2>1. lru[i] \in Objs /\ want[t] \in Names /\ UNCHANGED fname
    BY <1>2 DEF InsertRaced, EntriesFit, TypeOK, PrivateIsMine
  <2> QED  BY <1>0, <2>1, LendIsBorrow DEF Promise!Next
<1>3. ASSUME NEW t \in Threads, Insert(t) PROVE Promise!Next
  <2>1. /\ mine[t] \in Objs /\ want[t] \in Names /\ fname[mine[t]] = want[t]
    BY <1>3 DEF Insert, EntriesFit, TypeOK, PrivateIsMine
  <2>2. Lend(mine[t]) /\ UNCHANGED fname
    BY <1>3 DEF Insert
  <2> QED  BY <1>0, <2>1, <2>2, LendIsBorrow DEF Promise!Next
<1>4. ASSUME NEW o \in Objs, Return(o) PROVE Promise!Next
  <2>1. /\ loans \in [Objs -> Nat] /\ loans[o] > 0
        /\ loans' = [loans EXCEPT ![o] = @ - 1] /\ UNCHANGED fname
    BY <1>0, <1>4 DEF TypeOK, Return
  <2>2. Content' = [Content EXCEPT ![o] = IF loans[o] = 1 THEN NoFile ELSE @]
    <3>1. \A q \in Objs : Content'[q] =
            IF q = o THEN (IF loans[o] = 1 THEN NoFile ELSE Content[o]) ELSE Content[q]
      <4> TAKE q \in Objs
      <4>1. loans'[q] = (IF q = o THEN loans[q] - 1 ELSE loans[q]) /\ loans[q] \in Nat
        BY <2>1
      <4> QED  BY <2>1, <4>1 DEF Content
    <3> QED  BY <3>1 DEF Content
  <2>3. Promise!GiveBack(o)
    BY <2>1, <2>2 DEF Promise!GiveBack, Content
  <2> QED  BY <2>3 DEF Promise!Next
<1>5. ASSUME NEW t \in Threads, Load(t) PROVE loans' = loans /\ Content' = Content
  <2> PICK o \in Objs : state[o] = "unused" /\ fname' = [fname EXCEPT ![o] = want[t]]
    BY <1>5 DEF Load
  <2>1. loans' = loans /\ loans[o] = 0
    <3>1. loans[o] \in Nat /\ (loans[o] > 0 => state[o] \in {"cached", "purged"})
      BY DEF EntriesFit, TypeOK, LoansAreCounted
    <3> QED  BY <1>5, <3>1 DEF Load
  <2> QED  BY <1>0, <2>1 DEF Content, TypeOK
<1>6. ASSUME UNCHANGED <<fname, loans>> PROVE loans' = loans /\ Content' = Content
  BY <1>6 DEF Content
<1>7. ASSUME NEW t \in Threads, (\E n \in Names : BorrowMiss(t, n)) \/ LoadFail(t)
             \/ PurgeAll(t) \/ PurgeStep(t)
      PROVE  UNCHANGED <<fname, loans>>
  BY <1>7 DEF BorrowMiss, LoadFail, PurgeAll, PurgeStep
<1>8. ASSUME \/ \E m \in Limits : Setup(m)
             \/ \E names \in SUBSET Names : UpdateBloomFilter(names)
             \/ RemoveBloomFilter \/ UNCHANGED vars
      PROVE  UNCHANGED <<fname, loans>>
  BY <1>8 DEF Setup, UpdateBloomFilter, RemoveBloomFilter, vars
<1> QED  BY <1>1, <1>2, <1>3, <1>4, <1>5, <1>6, <1>7, <1>8 DEF Next

\* The cache implements FileLoans: a pointer that is held keeps standing for
\* the file its holders asked for, for any threads, files, limits and memory.
THEOREM Refinement == Spec => LoansKept
<1>1. Init => Promise!Init
  BY DEF Init, Promise!Init
<1>2. IInv /\ [Next]_vars => [Promise!Next]_<<loans, [o \in Objs |-> IF loans[o] > 0 THEN fname[o] ELSE NoFile]>>
  BY StepSimulation DEF Content, IInv
<1> QED  BY <1>1, <1>2, Invariance, PTL DEF Spec, LoansKept, Promise!Spec
=============================================================================
