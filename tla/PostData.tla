------------------------------ MODULE PostData ------------------------------
(* post_data_parser: the body of a form, which arrives in chunks, becomes       *)
(* elements. The lines of a form are tokens. A boundary is three: the last byte *)
(* of it is left out of what the parser looks for (pdp_locate_boundary), and    *)
(* passed over. The first boundary, which has no line end before it, is "b0";   *)
(* "end" is the mark behind the last one. A cut inside a line of a head, which  *)
(* the parser refuses, is left out.                                            *)
EXTENDS Integers, Sequences, FiniteSetsExt

CONSTANTS Uploads   \* data of forms: sequences of tokens

\* What stands between the boundaries is no boundary.
ASSUME PostDataAssumption ==
  \A d \in Uploads : /\ d \in Seq(STRING)
                     /\ \A i \in 1 .. Len(d) - 1 : ~(d[i] = "b1" /\ d[i + 1] = "b2")

VARIABLES
  data,      \* the data of the one file of the form
  from, to,  \* the chunk: what of the body was delivered before it, and with it
  parser,    \* last_item_type, the data of all values, i, and whether calls return 0
  badCut     \* a chunk ended where the parser does not get over it (history)

postVars == <<data, from, to, parser, badCut>>

\* The body of a form with one file.
Form(d) == <<"b0", "form", "name", "filename", "type", "empty">> \o d \o <<"b1", "b2", "b3", "end">>

Body == Form(data)
Chunk == SubSeq(Body, from + 1, to)

PostInit ==
  /\ data \in Uploads
  /\ from = 0 /\ to = 0 /\ badCut = FALSE
  /\ parser = [last |-> "VOID", values |-> <<>>, i |-> 1, ok |-> TRUE]

-----------------------------------------------------------------------------
\* memmem: where the boundary begins at or after i, 0 if it does not.
Memmem(buf, i) ==
  LET at == {j \in i .. Len(buf) - 1 : buf[j] = "b1" /\ buf[j + 1] = "b2"}
  IN IF at = {} THEN 0 ELSE Min(at)

\* Lines of the head of a part, after each element.
HeadLine(last) ==
  CASE last = "BOUNDARY" -> {<<"form", "FORM">>}
    [] last = "FORM" -> {<<"name", "NAME">>}
    [] last = "NAME" -> {<<"filename", "FILENAME">>, <<"empty", "EMPTY_LINE">>}
    [] last = "FILENAME" -> {<<"type", "TYPE">>}
    [] last = "TYPE" -> {<<"empty", "EMPTY_LINE">>}
    [] OTHER -> {}

\* CONSUME_ITEM
Consume(a, type, value, n) == [a EXCEPT !.values = @ \o value, !.last = type, !.i = @ + n]

Error(a) == [a EXCEPT !.last = "ERROR", !.ok = FALSE]

\* The value up to a boundary; without one the whole rest of the chunk is value.
\* Mutant: the rest is kept back for the next chunk.
ValueUpToBoundary(buf, a) ==
  LET j == Memmem(buf, a.i) IN
  IF j = 0 THEN [a EXCEPT !.i = Len(buf) + 1]
  ELSE Consume(Consume(a, "VALUE", SubSeq(buf, a.i, j - 1), j - a.i), "BOUNDARY", <<>>, 3)
Value(buf, a) ==
  LET j == Memmem(buf, a.i) IN
  IF j = 0 THEN Consume(a, "VALUE", SubSeq(buf, a.i, Len(buf)), Len(buf) + 1 - a.i)
  ELSE IF j = a.i /\ a.last = "VALUE" THEN Consume(a, "BOUNDARY", <<>>, 3)
  ELSE Consume(Consume(a, "VALUE", SubSeq(buf, a.i, j - 1), j - a.i), "BOUNDARY", <<>>, 3)

\* The switch in the loop, for one element.
Element(buf, a) ==
  IF a.last \in {"EMPTY_LINE", "VALUE"} THEN Value(buf, a)
  ELSE IF a.last \in {"FINISH", "ERROR"} THEN [a EXCEPT !.ok = FALSE]
  ELSE IF a.last = "BOUNDARY" /\ buf[a.i] = "end" /\ a.i = Len(buf) THEN Consume(a, "FINISH", <<>>, 1)
  ELSE LET lines == {l \in HeadLine(a.last) : l[1] = buf[a.i]} IN
       IF lines = {} \/ (buf[a.i] = "type" /\ a.i = Len(buf)) THEN Error(a)
       ELSE Consume(a, (CHOOSE l \in lines : TRUE)[2], <<>>, 1)

\* Before the loop: the first call takes the boundary from the head of its chunk,
\* which must hold the line end behind it. So must the chunk of a type.
Called(buf, a) ==
  LET b == [a EXCEPT !.i = 1] IN
  IF ~a.ok THEN a
  ELSE IF a.last # "VOID" THEN b
  ELSE IF Len(buf) < 2 \/ buf[1] # "b0" THEN [b EXCEPT !.ok = FALSE]
  ELSE Consume(b, "BOUNDARY", <<>>, 1)

\* post_data_parser has returned.
Returned == ~parser.ok \/ parser.i > Len(Chunk)

\* Cuts that the parser does not get over: behind the first boundary, behind the type,
\* and two inside the last boundary.
BadCuts == {1, 5, Len(Body) - 3, Len(Body) - 2}

\* The next chunk arrives and the parser is called with it.
Arrive ==
  /\ Returned
  /\ \E e \in to + 1 .. Len(Body) :
       /\ from' = to /\ to' = e
       /\ badCut' = (badCut \/ e \in BadCuts)
       /\ parser' = Called(SubSeq(Body, to + 1, e), parser)
  /\ UNCHANGED data

ParseElement ==
  /\ ~Returned
  /\ parser' = Element(Chunk, parser)
  /\ UNCHANGED <<data, from, to, badCut>>

PostNext == Arrive \/ ParseElement

PostSpec == PostInit /\ [][PostNext]_postVars

-----------------------------------------------------------------------------
\* Wherever the body of an upload is cut into chunks between its lines, the values
\* are the data of the form and the parser reaches the end, unless a line end that
\* belongs to the first boundary or the type is cut off, or a cut falls inside the
\* boundary behind the data: then it never says that the form is complete.
CutsDoNotMatter ==
  /\ badCut => parser.last # "FINISH"
  /\ Returned /\ to = Len(Body) /\ ~badCut =>
       parser.ok /\ parser.last = "FINISH" /\ parser.values = data
=============================================================================
