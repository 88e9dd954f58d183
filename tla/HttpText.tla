------------------------------ MODULE HttpText ------------------------------
(* What the service for files does to the text of a request: percent escapes,  *)
(* the test that a path is very safe, slashes, parameters of an address, and   *)
(* the body of an upload cut into elements. Text is a sequence of bytes.       *)
EXTENDS Integers, Sequences, FiniteSets, FiniteSetsExt, SequencesExt

CONSTANTS PathMax,    \* SAFE_PATH_MAX
          NameMax,    \* SAFE_FILENAME_MAX
          ParamMax    \* size of the table of parameters

ASSUME HttpTextAssumption == PathMax \in Nat /\ NameMax \in Nat /\ ParamMax \in Nat

Percent == 37
Dot == 46
Slash == 47
Equal == 61
Question == 63
Backslash == 92
Slashes == {Slash, Backslash}
Digits == 48 .. 57
Letters == (65 .. 90) \cup (97 .. 122)

Refused == <<-1>>     \* a negative result; no text has that value

-----------------------------------------------------------------------------
(* escape_percent_in_place *)

HexValue(c) ==
  CASE c \in Digits -> c - 48
    [] c \in 65 .. 70 -> c - 55
    [] c \in 97 .. 102 -> c - 87
    [] OTHER -> -1

\* The buffer is read at i and written at w, counted from 0.
CodeAt(buf, i) == HexValue(buf[i + 2]) * 16 + HexValue(buf[i + 3])

RECURSIVE EscapeLoop(_, _, _)
EscapeLoop(buf, i, w) ==
  IF i >= Len(buf) THEN SubSeq(buf, 1, w)
  ELSE IF buf[i + 1] # Percent THEN EscapeLoop([buf EXCEPT ![w + 1] = buf[i + 1]], i + 1, w + 1)
  ELSE IF Len(buf) - i < 3 \/ HexValue(buf[i + 2]) = -1 \/ HexValue(buf[i + 3]) = -1 THEN Refused
  ELSE EscapeLoop([buf EXCEPT ![w + 1] = CodeAt(buf, i)], i + 3, w + 1)

Escape(text) == EscapeLoop(text, 0, 0)

-----------------------------------------------------------------------------
(* get_code_from_utf8: how many bytes the code at the start takes, 0 for none. *)
(* The lead bytes with no bits of their own are refused, and with them         *)
(* U+0800 to U+0FFF and U+10000 to U+3FFFF.                                    *)

Utf8Length(p, i) ==
  LET c == p[i + 1]
      l == CASE c < 128 -> 1
             [] c \in 193 .. 223 -> 2
             [] c \in 225 .. 239 -> 3
             [] c \in 241 .. 247 -> 4
             [] OTHER -> 0
  IN IF l > 0 /\ i + l <= Len(p) /\ (\A k \in 1 .. l - 1 : p[i + 1 + k] \in 128 .. 191) THEN l ELSE 0

(* path_is_very_safe, of the text up to its zero *)

InTable(c) == c \in Digits \cup Letters \cup {43, 45, 95}

\* A dot: not first in a name; whether it is last is seen at what follows.
\* Mutant: not looked at where a name begins.
DotAllowedAnywhere(len) == TRUE
DotAllowed(len) == len > 0

RECURSIVE SafeFrom(_, _, _, _)
SafeFrom(p, i, len, afterdot) ==
  IF i >= PathMax \/ len >= NameMax THEN FALSE
  ELSE IF i >= Len(p) THEN ~afterdot
  ELSE LET c == p[i + 1]
           l == Utf8Length(p, i)
       IN CASE l = 0 -> FALSE
            [] l > 1 -> SafeFrom(p, i + l, len + l, afterdot)
            [] l = 1 /\ InTable(c) -> SafeFrom(p, i + 1, len + 1, FALSE)
            [] l = 1 /\ c = Slash -> ~afterdot /\ SafeFrom(p, i + 1, 0, FALSE)
            [] l = 1 /\ c = 0 -> ~afterdot
            [] l = 1 /\ c = Dot -> DotAllowed(len) /\ SafeFrom(p, i + 1, len + 1, TRUE)
            [] OTHER -> FALSE

PathIsVerySafe(p) == ~(p # <<>> /\ p[1] = Slash) /\ SafeFrom(p, 0, 0, FALSE)

-----------------------------------------------------------------------------
(* remove_redundancy_slash, find_last_slash2 *)

CString(p) == SubSeq(p, 1, Min({i \in DOMAIN p : p[i] = 0} \cup {Len(p) + 1}) - 1)

RECURSIVE SlashLoop(_, _, _)
SlashLoop(b, afterslash, out) ==
  IF b = <<>> THEN out
  ELSE IF Head(b) \in Slashes THEN SlashLoop(Tail(b), TRUE, out)
  ELSE SlashLoop(Tail(b), FALSE, out \o (IF afterslash THEN <<Slash>> ELSE <<>>) \o <<Head(b)>>)

RemoveRedundancySlash(b) == SlashLoop(b, FALSE, <<>>)

FindLastSlash(b) == Max({i \in DOMAIN b : b[i] \in Slashes} \cup {0}) - 1

(* sfs_handler: the path it looks at below the folder of the service, and the  *)
(* one it looks at for the page of a folder. The length is the one from before *)
(* slashes were removed.                                                       *)

FullPath(u) == RemoveRedundancySlash(CString(u))

PagePath(u, page) == IF Len(FullPath(u)) = Len(u) THEN FullPath(u) \o page ELSE FullPath(u)

(* Names between slashes *)
RECURSIVE Names(_)
Names(b) ==
  LET i == Min({k \in DOMAIN b : b[k] \in Slashes} \cup {Len(b) + 1})
      name == SubSeq(b, 1, i - 1)
      rest == IF i > Len(b) THEN <<>> ELSE Names(SubSeq(b, i + 1, Len(b)))
  IN (IF name = <<>> THEN <<>> ELSE <<name>>) \o rest

RECURSIVE Join(_)
Join(names) ==
  IF names = <<>> THEN <<>> ELSE <<Slash>> \o Head(names) \o Join(Tail(names))

-----------------------------------------------------------------------------
(* esq_split_parameters: one step of its automaton for each byte *)

Word(c) == c \in Digits \cup Letters

SplitStart == [s |-> "S", name |-> <<>>, value |-> <<>>, params |-> <<>>]

Ended(a) == [a EXCEPT !.params = Append(@, <<a.name, a.value>>), !.name = <<>>, !.value = <<>>, !.s = "Aq"]

Room(a) == Len(a.params) < ParamMax

\* A '%' right after the '=' is passed over: the value begins behind it.
SplitStep(a, c) ==
  CASE a.s = "S" /\ c = Question -> [a EXCEPT !.s = "Aq"]
    [] a.s = "Aq" /\ Word(c) -> [a EXCEPT !.s = "Name", !.name = <<c>>]
    [] a.s = "Aq" /\ c \in {Equal, Question} -> a
    [] a.s = "Name" /\ Word(c) -> [a EXCEPT !.name = Append(@, c)]
    [] a.s = "Name" /\ c = Equal /\ Room(a) -> [a EXCEPT !.s = "Ae"]
    [] a.s = "Ae" /\ Word(c) -> [a EXCEPT !.s = "Value", !.value = <<c>>]
    [] a.s = "Ae" /\ c = Percent -> a
    [] a.s \in {"Ae", "Value"} /\ c = Question -> Ended(a)
    [] a.s = "Value" /\ (Word(c) \/ c \in {Percent, Equal}) -> [a EXCEPT !.value = Append(@, c)]
    [] OTHER -> [a EXCEPT !.s = "error"]

SplitEnd(url) == FoldLeft(SplitStep, SplitStart, url)

Split(url) ==
  LET a == SplitEnd(url) IN IF a.s \in {"Ae", "Value"} THEN Ended(a).params ELSE a.params
=============================================================================
