----------------------------- MODULE HeadMatch ------------------------------
(* The head match tree (libs/head-match-tree), with which an instance finds    *)
(* the service of a path: patterns kept in descending order, tables compiled   *)
(* from them, and the walk through the tables. Patterns and strings are        *)
(* sequences of bytes without the zero at their end.                           *)
EXTENDS Integers, Sequences, FiniteSets, FiniteSetsExt, SequencesExt, TLC

CONSTANTS ItemMax,  \* pt->max
          LenMax    \* pt->pattern_len_max

ASSUME HeadMatchAssumption == ItemMax \in Nat /\ LenMax \in Nat

None == 0     \* -1 in the tables; items are counted from 1 here

\* Byte at an offset; reading past the zero at the end is an error of the model.
ByteAt(p, d) == CASE d < Len(p) -> p[d + 1] [] d = Len(p) -> 0

\* char is signed where this program is built.
Signed(b) == IF b >= 128 THEN b - 256 ELSE b

-----------------------------------------------------------------------------
(* __hmt_add: patterns stay sorted as strncmp sorts them, the greatest first *)

Above(p, q) ==
  \E d \in 0 .. LenMax - 1 :
    /\ d <= Len(p) /\ d <= Len(q)
    /\ \A e \in 0 .. d - 1 : ByteAt(p, e) = ByteAt(q, e)
    /\ ByteAt(p, d) > ByteAt(q, d)

Added(items, p) ==
  IF Len(items) >= ItemMax \/ Len(p) \notin 1 .. LenMax - 1 \/ (\E i \in DOMAIN items : items[i] = p) THEN items
  ELSE LET at == Min({i \in DOMAIN items : Above(p, items[i])} \cup {Len(items) + 1})
       IN InsertAt(items, at, p)

-----------------------------------------------------------------------------
(* hmt_compile *)

\* hmt_find_center_group_border: the items around the middle with its byte.
CenterGroup(items, depth, first, last) ==
  LET m == (first + last) \div 2
      same(i) == ByteAt(items[i], depth) = ByteAt(items[m], depth)
  IN [bs |-> Min({s \in first .. m : \A i \in s .. m : same(i)}),
      be |-> Max({e \in m .. last : \A i \in m .. e : same(i)})]

\* hmt_fill_jump_tables: the item to enter by, and the entries it filled in.
RECURSIVE Filled(_, _, _, _)
Filled(items, depth, first, last) ==
  IF depth >= LenMax \/ ByteAt(items[first], depth) = 0 THEN [enter |-> first, table |-> <<>>]
  ELSE LET g == CenterGroup(items, depth, first, last)
           nothing == [enter |-> None, table |-> <<>>]
           higher == IF g.bs = first THEN nothing ELSE Filled(items, depth, first, g.bs - 1)
           lower == IF g.be = last THEN nothing ELSE Filled(items, depth, g.be + 1, last)
           next == Filled(items, depth + 1, g.bs, g.be)
           entry == [higher |-> higher.enter, lower |-> lower.enter, next |-> next.enter]
       IN [enter |-> g.bs, table |-> (<<g.bs, depth>> :> entry) @@ higher.table @@ lower.table @@ next.table]

\* hmt_find_someone_else_matched: the first shorter pattern that is a prefix.
SomeoneElse(items, idx, depth) ==
  LET fits == {k \in idx + 1 .. Len(items) : Len(items[k]) <= depth /\ IsPrefix(items[k], items[idx])}
  IN IF fits = {} THEN None ELSE Min(fits)

Compiled(items) == IF items = <<>> THEN [enter |-> None, table |-> <<>>] ELSE Filled(items, 0, 1, Len(items))

-----------------------------------------------------------------------------
(* hmt_match *)

\* Mutant: without the table of shorter patterns.
ElseNone(items, m, depth) == None
Else(items, m, depth) == SomeoneElse(items, m, depth)

RECURSIVE Walk(_, _, _, _, _)
Walk(items, table, string, m, depth) ==
  IF depth >= LenMax THEN None
  ELSE LET c == ByteAt(string, depth)
           pc == ByteAt(items[m], depth)
           entry == table[<<m, depth>>]
           n == IF c = pc THEN entry.next ELSE IF Signed(c) > Signed(pc) THEN entry.higher ELSE entry.lower
       IN IF pc = 0 THEN m
          ELSE IF n = None THEN Else(items, m, depth)
          ELSE Walk(items, table, string, n, IF c = pc THEN depth + 1 ELSE depth)

Match(items, string) ==
  LET t == Compiled(items) IN
  IF t.enter = None THEN None ELSE Walk(items, t.table, string, t.enter, 0)

-----------------------------------------------------------------------------
(* Reference: "longest match" in the comment above hmt_compile *)

Matching(items, string) == {i \in DOMAIN items : IsPrefix(items[i], string)}

Longest(items, string) ==
  IF Matching(items, string) = {} THEN None
  ELSE CHOOSE i \in Matching(items, string) : \A j \in Matching(items, string) : Len(items[j]) <= Len(items[i])

Ascii(items) == \A i \in DOMAIN items : \A d \in DOMAIN items[i] : items[i][d] < 128
=============================================================================
