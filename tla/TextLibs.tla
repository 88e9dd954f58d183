------------------------------ MODULE TextLibs ------------------------------
(* The libraries. Those that are pure functions are checked against a           *)
(* reference: inputs grow one byte or pattern at a time. The others are state   *)
(* machines of their own. lib says which library takes the steps.               *)
EXTENDS HeadMatch, HttpText, Scanners, PathFilter, PostData, Listing, Deadlines

CONSTANTS
  Patterns, Strings,      \* of the head match tree
  PathBytes, PathLen,     \* bytes and length of paths
  UrlBytes, UrlLen,       \* of parameters
  AddrBytes, AddrLen,     \* of addresses
  NumberBytes, NumberLen, \* of numbers
  HashBytes, HashLen      \* of hashes

VARIABLES lib, text

textVars == <<lib, text>>
vars == <<textVars, filterVars, postVars, listVars, clockVars>>

\* The state machines when lib is not theirs: nothing to parse, show or wait for.
PostIdle ==
  /\ data = <<>> /\ from = 0 /\ to = 0 /\ badCut = FALSE
  /\ parser = [last |-> "VOID", values |-> <<>>, i |-> 1, ok |-> TRUE]

ListIdle ==
  /\ folder = <<>> /\ upper = FALSE /\ full = 0 /\ taken = 0 /\ stat = "HEAD" /\ pos = 0
  /\ page = <<>> /\ buf = <<>> /\ room = -1 /\ eof = FALSE

ClockIdle == wound = <<0, 0>> /\ now = <<0, 0>> /\ timeout = <<1, 0>>

Init ==
  /\ lib \in {"match", "path", "url", "addr", "number", "hash", "filter", "post", "list", "clock"}
  /\ text = <<>>
  /\ FilterInit
  /\ IF lib = "post" THEN PostInit ELSE PostIdle
  /\ IF lib = "list" THEN ListInit ELSE ListIdle
  /\ IF lib = "clock" THEN ClockInit ELSE ClockIdle

AddPattern ==
  /\ lib = "match" /\ UNCHANGED lib
  /\ \E p \in Patterns : text' = Added(text, p)

Grow(name, bytes, len) ==
  /\ lib = name /\ UNCHANGED lib
  /\ Len(text) < len
  /\ \E c \in bytes : text' = Append(text, c)

PathByte == Grow("path", PathBytes, PathLen)
\* Nothing that follows what is refused changes the result.
UrlByte ==
  /\ ~(lib = "url" /\ SplitEnd(text).s = "error")
  /\ Grow("url", UrlBytes, UrlLen)
AddrByte ==
  /\ ~(lib = "addr" /\ FoldLeft(Ipv4Step, Ipv4Start, text).bad)
  /\ Grow("addr", AddrBytes, AddrLen)
NumberByte == Grow("number", NumberBytes, NumberLen)
HashByte == Grow("hash", HashBytes, HashLen)

TextStep ==
  /\ AddPattern \/ PathByte \/ UrlByte \/ AddrByte \/ NumberByte \/ HashByte
  /\ UNCHANGED <<filterVars, postVars, listVars, clockVars>>

FilterStep == lib = "filter" /\ AddToFilter /\ UNCHANGED <<textVars, postVars, listVars, clockVars>>
PostStep == lib = "post" /\ PostNext /\ UNCHANGED <<textVars, filterVars, listVars, clockVars>>
ListStep == lib = "list" /\ ListNext /\ UNCHANGED <<textVars, filterVars, postVars, clockVars>>
ClockStep == lib = "clock" /\ Tick /\ UNCHANGED <<textVars, filterVars, postVars, listVars>>

Next == TextStep \/ FilterStep \/ PostStep \/ ListStep \/ ClockStep

Spec == Init /\ [][Next]_vars

-----------------------------------------------------------------------------
(* References *)

RECURSIVE Decoded(_)
Decoded(t) ==
  IF t = <<>> THEN <<>>
  ELSE IF Head(t) # Percent
  THEN LET rest == Decoded(Tail(t)) IN IF rest = Refused THEN Refused ELSE <<Head(t)>> \o rest
  ELSE IF Len(t) < 3 THEN Refused
  ELSE LET rest == Decoded(SubSeq(t, 4, Len(t))) IN
       IF HexValue(t[2]) = -1 \/ HexValue(t[3]) = -1 \/ rest = Refused THEN Refused
       ELSE <<HexValue(t[2]) * 16 + HexValue(t[3])>> \o rest

\* Pieces between the bytes of a set, empty ones included.
RECURSIVE Pieces(_, _)
Pieces(t, at) ==
  LET i == Min({k \in DOMAIN t : t[k] \in at} \cup {Len(t) + 1}) IN
  <<SubSeq(t, 1, i - 1)>> \o (IF i > Len(t) THEN <<>> ELSE Pieces(SubSeq(t, i + 1, Len(t)), at))

RECURSIVE Without(_, _)
Without(t, leading) == IF t # <<>> /\ Head(t) \in leading THEN Without(Tail(t), leading) ELSE t

Number(digits) == FoldLeft(LAMBDA v, d : v * 10 + d - 48, 0, digits)

\* The first word of a text after blanks.
FirstWord(t) == Pieces(Without(t, {9, 10, 13, 32}), {9, 10, 13, 32})[1]

SectionParam(section) ==
  LET s == Without(section, {Equal})
      i == Min({k \in DOMAIN s : s[k] = Equal} \cup {Len(s) + 1})
  IN <<SubSeq(s, 1, i - 1), Without(SubSeq(s, i + 1, Len(s)), {Percent})>>

HasParam(section) == Equal \in Range(Without(section, {Equal}))

-----------------------------------------------------------------------------
(* Properties *)

\* hmt_match finds the longest pattern the string begins with, as the comment above
\* hmt_compile says, for any patterns added in any order, as long as their bytes are
\* below 128: bytes are sorted unsigned and compared signed. What it finds is always
\* a pattern the string begins with.
MatchIsLongest ==
  lib = "match" => \A s \in Strings :
    LET m == Match(text, s) IN
    /\ m = None \/ m \in Matching(text, s)
    /\ Ascii(text) => m = Longest(text, s)

\* escape_percent_in_place writes over its own input and still decodes every escape,
\* or refuses the text if one is not complete.
EscapeDecodes == lib = "path" => Escape(text) = Decoded(text)

\* A path that sfs_handler accepts, decoded, has no name that is empty, begins or
\* ends with a dot, in what is looked up below the folder of the service: neither
\* for the path itself nor for the page of a folder.
SafePathStaysBelow ==
  LET u == Escape(text)
      fine(n) == Head(n) # Dot /\ Last(n) # Dot /\ 0 \notin Range(n)
  IN lib = "path" /\ u # Refused =>
       (PathIsVerySafe(u) =>
          \A p \in {FullPath(u), PagePath(u, <<97>>)} : \A i \in DOMAIN Names(p) : fine(Names(p)[i]))

\* remove_redundancy_slash leaves the names joined by single slashes, one before the
\* first name only if there was one, none at the end, and find_last_slash points
\* behind the name before the last one.
SlashesJoinNames ==
  lib = "path" =>
    LET b == RemoveRedundancySlash(text)
        names == Names(text)
        joined == Join(names)
    IN /\ b = IF names # <<>> /\ text[1] \notin Slashes THEN Tail(joined) ELSE joined
       /\ names # <<>> => SubSeq(b, FindLastSlash(b) + 2, Len(b)) = Last(names)

\* A path is decoded, stripped and tested in passes of their own; together they keep
\* every request below the folder of the service.
PathsAreSafe == EscapeDecodes /\ SlashesJoinNames /\ SafePathStaysBelow

\* esq_split_parameters returns the name and value of every section between question
\* marks that has an '=' sign, at most as many as the table has; a value loses the
\* '%' signs it begins with.
ParametersAreSections ==
  lib = "url" /\ SplitEnd(text).s # "error" =>
    LET sections == SelectSeq(Pieces(Tail(<<0>> \o text), {Question}), HasParam)
    IN /\ Split(text) = [i \in DOMAIN sections |-> SectionParam(sections[i])]
       /\ Len(Split(text)) <= ParamMax

\* get_ipv4_addr accepts exactly the words of four numbers below 255 between dots,
\* after blanks and up to a blank or the end; 255 itself is refused.
Ipv4IsDottedQuad ==
  lib = "addr" =>
    LET numbers == Pieces(FirstWord(text), {46})
        good == /\ Len(numbers) = 4
                /\ \A i \in 1 .. 4 : numbers[i] # <<>> /\ Range(numbers[i]) \subseteq 48 .. 57
                                     /\ Number(numbers[i]) < 255
    IN /\ (GetIpv4Addr(text) # Failure) <=> good
       /\ good => GetIpv4Addr(text).value = [i \in 1 .. 4 |-> Number(numbers[i])]

\* get_integer_1000000 reads the first word, refuses more than the limit, and never
\* computes a number that an int does not hold.
IntegerIsFirstWord ==
  lib = "number" =>
    LET w == FirstWord(text)
        good == w # <<>> /\ Range(w) \subseteq 48 .. 57 /\ Number(w) <= NumberLimit
    IN /\ (GetInteger(text) # Failure) <=> good
       /\ good => GetInteger(text).value = <<Number(w)>>
       /\ FoldLeft(IntStep, IntStart, text).v <= 10 * NumberLimit + 9

\* get_hash_string and hash_str_2_bin return whole bytes, two digits each, of what
\* stands before the end mark; only when nothing but blanks stands there are they
\* taken for digits.
HashIsWholeBytes ==
  lib = "hash" /\ GetHashString(text) # Failure =>
    LET h == GetHashString(text) IN
    /\ 2 * Len(HashStr2Bin(h.value)) = Len(h.value)
    /\ IsMark(text[h.at])
    /\ \/ \A i \in DOMAIN h.value : IsHex(h.value[i])
       \/ \A i \in 1 .. h.at - 1 : IsBlank(text[i])

\* The scanners of parameters, addresses, numbers and prefixes, which go byte by
\* byte through states of their own, accept and return what the words say.
ScannersAreExact ==
  ParametersAreSections /\ Ipv4IsDottedQuad /\ IntegerIsFirstWord /\ HashIsWholeBytes
=============================================================================
