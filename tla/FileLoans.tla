----------------------------- MODULE FileLoans -----------------------------
(***************************************************************************)
(* What file_lru_borrow and file_lru_return promise their callers: a       *)
(* pointer they hold stands for the content of one file, the one they      *)
(* asked for, until the last holder gives it back.  How long entries stay  *)
(* cached, and what is evicted when, is not the callers' business.         *)
(***************************************************************************)
EXTENDS Naturals

CONSTANTS Objs, Names, NoFile

VARIABLES
  holders,   \* how many callers hold pointer o
  content    \* the file pointer o stands for while it is held

Init ==
  /\ holders = [o \in Objs |-> 0]
  /\ content = [o \in Objs |-> NoFile]

\* A caller that asked for file n receives pointer o.
Borrow(o, n) ==
  /\ \/ holders[o] = 0
     \/ content[o] = n
  /\ holders' = [holders EXCEPT ![o] = @ + 1]
  /\ content' = [content EXCEPT ![o] = n]

\* A holder gives pointer o back.
GiveBack(o) ==
  /\ holders[o] > 0
  /\ holders' = [holders EXCEPT ![o] = @ - 1]
  /\ content' = [content EXCEPT ![o] = IF holders[o] = 1 THEN NoFile ELSE @]

Next == \E o \in Objs : GiveBack(o) \/ \E n \in Names : Borrow(o, n)

Spec == Init /\ [][Next]_<<holders, content>>
=============================================================================
