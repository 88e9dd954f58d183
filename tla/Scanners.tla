------------------------------ MODULE Scanners ------------------------------
(* The scanners that range maps and buckets read addresses, ports and hashes   *)
(* with (libs/sscanf), and the hashes of the filter for paths                  *)
(* (libs/path-bloom-filter). Text is a sequence of bytes.                      *)
EXTENDS Integers, Sequences, FiniteSets, FiniteSetsExt, SequencesExt, Bitwise

CONSTANTS NumberLimit   \* NUMBERLIMIT

ASSUME ScannersAssumption == NumberLimit \in Nat

IsDigit(c) == c \in 48 .. 57
IsBlank(c) == c \in {9, 10, 13, 32}
IsHex(c) == c \in (48 .. 57) \cup (65 .. 70) \cup (97 .. 102)
IsMark(c) == c \in {88, 120}     \* 'X', 'x'

Failure == [at |-> 0, value |-> <<>>]

-----------------------------------------------------------------------------
(* get_ipv4_addr: one step of its automaton for each byte. numbers are the ones *)
(* begun so far; dot says that the last byte was a dot; end is where it         *)
(* finished.                                                                   *)

Ipv4Start == [numbers |-> <<>>, dot |-> FALSE, bad |-> FALSE, at |-> 0, end |-> -1]

Last1(s) == s[Len(s)]

\* FETCH_NUMBER compares only when a digit follows another one.
\* Mutant: 255 is let through.
Ipv4Overflow256(n) == n >= 256
Ipv4Overflow(n) == n >= 255

Ipv4Number(a, d) ==
  IF a.numbers = <<>> \/ a.dot THEN [a EXCEPT !.numbers = Append(@, d), !.dot = FALSE]
  ELSE LET n == Last1(a.numbers) * 10 + d IN
       [a EXCEPT !.numbers[Len(a.numbers)] = n, !.bad = Ipv4Overflow(n)]

Ipv4Step(a, c) ==
  LET b == IF a.end >= 0 \/ a.bad THEN a
           ELSE CASE IsDigit(c) -> Ipv4Number(a, c - 48)
                  [] c = 46 -> IF a.numbers = <<>> \/ a.dot \/ Len(a.numbers) = 4 THEN [a EXCEPT !.bad = TRUE]
                               ELSE [a EXCEPT !.dot = TRUE]
                  [] IsBlank(c) -> IF a.numbers = <<>> THEN a
                                   ELSE IF Len(a.numbers) = 4 /\ ~a.dot THEN [a EXCEPT !.end = a.at]
                                   ELSE [a EXCEPT !.bad = TRUE]
                  [] OTHER -> [a EXCEPT !.bad = TRUE]
  IN [b EXCEPT !.at = @ + 1]

\* The end of the text counts as a blank.
GetIpv4Addr(text) ==
  LET a == Ipv4Step(FoldLeft(Ipv4Step, Ipv4Start, text), 32)
  IN IF a.bad \/ a.end < 0 THEN Failure ELSE [at |-> a.end, value |-> a.numbers]

-----------------------------------------------------------------------------
(* get_integer_1000000 *)

IntStart == [v |-> -1, bad |-> FALSE, at |-> 0, end |-> -1]

OverLimit(v, d) == v * 10 + d > NumberLimit

IntStep(a, c) ==
  LET b == IF a.end >= 0 \/ a.bad THEN a
           ELSE CASE IsDigit(c) /\ a.v < 0 -> [a EXCEPT !.v = c - 48]
                  [] IsDigit(c) /\ a.v >= 0 -> [a EXCEPT !.v = @ * 10 + (c - 48), !.bad = OverLimit(a.v, c - 48)]
                  [] IsBlank(c) -> IF a.v < 0 THEN a ELSE [a EXCEPT !.end = a.at]
                  [] OTHER -> [a EXCEPT !.bad = TRUE]
  IN [b EXCEPT !.at = @ + 1]

GetInteger(text) ==
  LET a == IntStep(FoldLeft(IntStep, IntStart, text), 32)
  IN IF a.bad \/ a.end < 0 THEN Failure ELSE [at |-> a.end, value |-> <<a.v>>]

-----------------------------------------------------------------------------
(* get_hash_string: hexadecimal digits up to the end mark 'x'. start stays 0   *)
(* when no digit came, so that blanks before a mark count as digits.           *)

HashStart == [start |-> -1, bad |-> FALSE, at |-> 0, end |-> -1]

HashStep(a, c) ==
  LET b == IF a.end >= 0 \/ a.bad THEN a
           ELSE CASE IsHex(c) -> IF a.start < 0 THEN [a EXCEPT !.start = a.at] ELSE a
                  [] IsBlank(c) -> [a EXCEPT !.bad = a.start >= 0]
                  [] IsMark(c) -> [a EXCEPT !.end = a.at]
                  [] OTHER -> [a EXCEPT !.bad = TRUE]
  IN [b EXCEPT !.at = @ + 1]

Even(l) == l % 2 = 0

GetHashString(text) ==
  LET a == FoldLeft(HashStep, HashStart, text)
      start == IF a.start < 0 THEN 0 ELSE a.start
  IN IF a.bad \/ a.end < 0 \/ ~Even(a.end - start) THEN Failure
     ELSE [at |-> a.end + 1, value |-> SubSeq(text, start + 1, a.end)]

\* hash_str_2_bin, with 0 for whatever is not a digit.
HexDigit(c) ==
  CASE c \in 48 .. 57 -> c - 48 [] c \in 65 .. 70 -> c - 55 [] c \in 97 .. 102 -> c - 87 [] OTHER -> 0

HashStr2Bin(h) == [i \in 1 .. Len(h) \div 2 |-> HexDigit(h[2 * i - 1]) * 16 + HexDigit(h[2 * i])]

-----------------------------------------------------------------------------
(* The three hashes of libs/path-bloom-filter, of 12 bits.                    *)

Low12(x) == x % 4096
Not12(x) == 4095 - Low12(x)

\* A char is signed: bytes from 128 on fill the bits above them.
Char(b) == Low12(IF b >= 128 THEN b - 256 ELSE b)

Hash0(p) ==
  Low12(FoldLeft(LAMBDA h, i : h + Char(p[i]) * (CASE i % 4 = 1 -> 1 [] i % 4 = 2 -> 8 [] i % 4 = 3 -> 32 [] i % 4 = 0 -> 256),
                 0, [i \in DOMAIN p |-> i]))

Hash1(p) == FoldLeft(LAMBDA h, c : Low12(h * 131 + Char(c)), 0, p)

Hash2(p) ==
  LET step(a, i) ==
        LET c == Char(p[i])
            k == (a.k + i - 1) % 8
            x == CASE k = 0 -> c [] k = 1 -> Not12(c * 4) [] k = 2 -> Low12(c * 128) ^^ a.last
                   [] k = 3 -> Not12(c * 32) [] k = 4 -> c * 64 [] k = 5 -> Not12(c * 8)
                   [] k = 6 -> c * 2 [] k = 7 -> Low12(c * 16) ^^ a.last
        IN [h |-> a.h ^^ Low12(x), k |-> k, last |-> IF k \in {1, 3, 5} THEN c ELSE a.last]
  IN FoldLeft(step, [h |-> 0, k |-> 0, last |-> 68], [i \in DOMAIN p |-> i]).h

PathHash(i, p) == CASE i = 0 -> Hash0(p) [] i = 1 -> Hash1(p) [] i = 2 -> Hash2(p)
=============================================================================
