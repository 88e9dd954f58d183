---------------------------- MODULE Logger_proofs ----------------------------
(***************************************************************************)
(* For any number of threads, buffers, lines and errors: the log files     *)
(* hold the accepted lines in order and each once, no line vanishes, and   *)
(* the last flushes of a logger that met neither an error nor a refused    *)
(* call leave nothing behind.                                              *)
(***************************************************************************)
EXTENDS Logger, SequenceTheorems, FunctionTheorems, FiniteSetTheorems, TLAPS

Line == [id : Nat, size : Nat]
Buffer == [state : {"EMPTY", "USE", "FULL"}, offset : Nat, lines : Seq(Line)]

TypeOK ==
  /\ buf \in [Bufs -> Buffer] /\ user_idx \in Bufs /\ worker_idx \in Bufs
  /\ user_sem \in Nat /\ worker_sem \in Nat
  /\ stop_flag \in BOOLEAN /\ change_flag \in BOOLEAN /\ fd \in BOOLEAN /\ refused \in BOOLEAN
  /\ disk \in Seq(Line) /\ accepted \in Seq(Line)
  /\ io_error \in {"none", "recent", "old"}
  /\ wpc \in {"sem_wait", "flush", "write", "clear", "drop", "flushed", "ended"}
  /\ pc \in [Threads -> {"out", "log", "logged", "blocked", "sem_wait"}]
  /\ size \in [Threads -> Nat]
  /\ left \in Nat /\ calls \in Nat /\ changes \in Nat

\* A buffer has data exactly when it has lines; one that is not in use has
\* none, and one that is in use has some unless a call was refused.
Used(i) == buf[i].state # "EMPTY"
Filled ==
  /\ \A i \in Bufs : buf[i].offset = 0 <=> buf[i].lines = <<>>
  /\ \A i \in Bufs : ~Used(i) => buf[i].lines = <<>>
  /\ ~refused => \A i \in Bufs : Used(i) => buf[i].lines # <<>>

\* The buffers in use are those from the worker's to the users', the worker's
\* own perhaps excepted ...
InRow ==
  /\ \A i \in Bufs : Used(i) => Ahead(worker_idx, i) <= Ahead(worker_idx, user_idx)
  /\ \A i \in Bufs : 0 < Ahead(worker_idx, i) /\ Ahead(worker_idx, i) < Ahead(worker_idx, user_idx)
       => Used(i)

\* ... or the users have gone all the way round to the buffer the worker
\* emptied last.
Around == user_idx = worker_idx /\ \A i \in Bufs \ {user_idx} : Used(i)

\* The worker's buffer is left alone while the lock is released.
Ring ==
  /\ InRow \/ Around
  /\ wpc \in {"write", "clear", "drop"} => InRow /\ buf[worker_idx].state = "FULL"

\* Lines are numbered in the order in which they are accepted.
Rising(q) == \A a, b \in 1 .. Len(q) : a < b => q[a].id < q[b].id
Older(q, r) == \A a \in 1 .. Len(q), b \in 1 .. Len(r) : q[a].id < r[b].id
Accepted(q) == \A a \in 1 .. Len(q) : q[a].id \in 1 .. Len(accepted) /\ q[a] = accepted[q[a].id]
Unwritten(i) == ~(wpc \in {"clear", "drop"} /\ i = worker_idx)
Numbered ==
  /\ \A k \in 1 .. Len(accepted) : accepted[k].id = k
  /\ Accepted(disk) /\ \A i \in Bufs : Accepted(buf[i].lines)

Ordered ==
  /\ Rising(disk) /\ \A i \in Bufs : Rising(buf[i].lines)
  /\ \A i, j \in Bufs : Ahead(i, user_idx) > Ahead(j, user_idx)
                          => Older(buf[i].lines, buf[j].lines)
  /\ \A i \in Bufs : Unwritten(i) => Older(disk, buf[i].lines)

\* Nothing vanishes.
Has(q, l) == \E a \in 1 .. Len(q) : q[a] = l
Kept ==
  /\ \A k \in 1 .. Len(accepted) :
       \/ Has(disk, accepted[k]) \/ accepted[k] \in dropped
       \/ \E i \in Bufs : Has(buf[i].lines, accepted[k])
  /\ wpc = "clear" => \A a \in 1 .. Len(buf[worker_idx].lines) : Has(disk, buf[worker_idx].lines[a])
  /\ io_error = "none" => dropped = {} /\ wpc # "drop"

\* There are enough flushes left at the end.
InUseSet == {i \in Bufs : Used(i)}
LastOnes ==
  /\ stop_flag => \A t \in Threads : pc[t] = "out"
  /\ left > 0 => stop_flag /\ wpc \in {"flush", "write", "clear", "drop", "flushed"}
  /\ wpc = "ended" => stop_flag
  /\ io_error = "none" /\ ~refused =>
       /\ left > 0 => Cardinality(InUseSet) <= IF wpc = "flushed" THEN left - 1 ELSE left
       /\ wpc = "ended" => InUseSet = {}

LoggerInv == TypeOK /\ Filled /\ Ring /\ Numbered /\ Ordered /\ Kept /\ LastOnes

-----------------------------------------------------------------------------
(* Sequences of lines. *)

\* A line with a higher number than all others joins a sequence.
LEMMA AppendLine ==
  ASSUME NEW q \in Seq(Line), NEW l \in Line
  PROVE  /\ Append(q, l) \in Seq(Line) /\ Append(q, l) # <<>> /\ Len(Append(q, l)) = Len(q) + 1
         /\ \A a \in 1 .. Len(q) : Append(q, l)[a] = q[a]
         /\ Append(q, l)[Len(q) + 1] = l
         /\ \A m : Has(Append(q, l), m) <=> Has(q, m) \/ m = l
<1> DEFINE r == Append(q, l)
<1>1. /\ r \in Seq(Line) /\ Len(r) = Len(q) + 1 /\ Len(q) \in Nat
      /\ \A a \in 1 .. Len(q) : r[a] = q[a]
      /\ r[Len(q) + 1] = l
      /\ r # <<>>
  <2>1. r # <<>>
    BY AppendProperties
  <2>2. QED
    BY <2>1
<1> HIDE DEF r
<1>2. ASSUME NEW m
      PROVE  Has(r, m) <=> Has(q, m) \/ m = l
  <2>1. ASSUME Has(r, m)  PROVE Has(q, m) \/ m = l
    BY <1>1, <2>1 DEF Has
  <2>2. ASSUME Has(q, m)  PROVE Has(r, m)
    BY <1>1, <2>2 DEF Has
  <2>3. ASSUME m = l  PROVE Has(r, m)
    <3>1. Len(q) + 1 \in 1 .. Len(r)
      BY <1>1
    <3>2. QED
      BY <1>1, <2>3, <3>1 DEF Has
  <2>4. QED
    BY <2>1, <2>2, <2>3
<1>3. QED
  BY <1>1, <1>2 DEF r

\* One file continues with the lines of a buffer.
LEMMA ConcatLines ==
  ASSUME NEW q \in Seq(Line), NEW r \in Seq(Line)
  PROVE  /\ q \o r \in Seq(Line)
         /\ Rising(q) /\ Rising(r) /\ Older(q, r) => Rising(q \o r)
         /\ \A s \in Seq(Line) : Older(q, s) /\ Older(r, s) => Older(q \o r, s)
         /\ Accepted(q) /\ Accepted(r) => Accepted(q \o r)
         /\ \A m : Has(q \o r, m) <=> Has(q, m) \/ Has(r, m)
<1> DEFINE c == q \o r
<1>1. /\ c \in Seq(Line) /\ Len(c) = Len(q) + Len(r) /\ Len(q) \in Nat /\ Len(r) \in Nat
      /\ \A a \in 1 .. Len(c) : c[a] = IF a <= Len(q) THEN q[a] ELSE r[a - Len(q)]
  BY ConcatProperties
<1> HIDE DEF c
<1>2. /\ \A a \in 1 .. Len(q) : a \in 1 .. Len(c) /\ c[a] = q[a]
      /\ \A b \in 1 .. Len(r) : Len(q) + b \in 1 .. Len(c) /\ c[Len(q) + b] = r[b]
  <2>1. ASSUME NEW b \in 1 .. Len(r)
        PROVE  Len(q) + b \in 1 .. Len(c) /\ c[Len(q) + b] = r[b]
    <3>1. Len(q) + b \in 1 .. Len(c) /\ ~(Len(q) + b <= Len(q)) /\ Len(q) + b - Len(q) = b
      BY <1>1
    <3>2. c[Len(q) + b] = r[Len(q) + b - Len(q)]
      BY <1>1, <3>1
    <3>3. QED
      BY <3>1, <3>2
  <2>2. QED
    BY <1>1, <2>1
<1>3. ASSUME NEW a \in 1 .. Len(c)
      PROVE  \/ a \in 1 .. Len(q) /\ c[a] = q[a]
             \/ a - Len(q) \in 1 .. Len(r) /\ c[a] = r[a - Len(q)]
  BY <1>1
<1>4. ASSUME Rising(q), Rising(r), Older(q, r)
      PROVE  Rising(c)
  <2> SUFFICES ASSUME NEW a \in 1 .. Len(c), NEW b \in 1 .. Len(c), a < b
               PROVE  c[a].id < c[b].id
    BY DEF Rising
  <2>1. CASE b \in 1 .. Len(q)
    <3>1. a \in 1 .. Len(q) /\ c[a] = q[a] /\ c[b] = q[b]
      BY <1>1, <2>1
    <3>2. QED
      BY <1>4, <2>1, <3>1 DEF Rising
  <2>2. CASE a \in 1 .. Len(q) /\ b \notin 1 .. Len(q)
    <3>1. c[a] = q[a] /\ b - Len(q) \in 1 .. Len(r) /\ c[b] = r[b - Len(q)]
      BY <1>1, <2>2
    <3>2. QED
      BY <1>4, <2>2, <3>1 DEF Older
  <2>3. CASE a \notin 1 .. Len(q)
    <3>1. /\ a - Len(q) \in 1 .. Len(r) /\ c[a] = r[a - Len(q)]
          /\ b - Len(q) \in 1 .. Len(r) /\ c[b] = r[b - Len(q)]
          /\ a - Len(q) < b - Len(q)
      BY <1>1, <2>3
    <3>2. QED
      BY <1>4, <3>1 DEF Rising
  <2>4. QED
    BY <2>1, <2>2, <2>3
<1>5. ASSUME NEW s \in Seq(Line), Older(q, s), Older(r, s)
      PROVE  Older(c, s)
  BY <1>3, <1>5 DEF Older
<1>6. ASSUME Accepted(q), Accepted(r)
      PROVE  Accepted(c)
  BY <1>3, <1>6 DEF Accepted
<1>7. ASSUME NEW m
      PROVE  Has(c, m) <=> Has(q, m) \/ Has(r, m)
  <2>1. Has(c, m) => Has(q, m) \/ Has(r, m)
    BY <1>3 DEF Has
  <2>2. Has(q, m) \/ Has(r, m) => Has(c, m)
    BY <1>2 DEF Has
  <2>3. QED
    BY <2>1, <2>2
<1>8. QED
  BY <1>1, <1>4, <1>5, <1>6, <1>7 DEF c

\* A file takes the first lines of a buffer only.
LEMMA FirstLines ==
  ASSUME NEW q \in Seq(Line), NEW n \in 0 .. Len(q)
  PROVE  /\ SubSeq(q, 1, n) \in Seq(Line)
         /\ Rising(q) => Rising(SubSeq(q, 1, n))
         /\ \A s \in Seq(Line) : Older(s, q) => Older(s, SubSeq(q, 1, n))
         /\ \A s \in Seq(Line) : Older(q, s) => Older(SubSeq(q, 1, n), s)
         /\ Accepted(q) => Accepted(SubSeq(q, 1, n))
<1> DEFINE c == SubSeq(q, 1, n)
<1>1. /\ c \in Seq(Line) /\ Len(c) = n /\ n \in Nat /\ n <= Len(q)
      /\ \A a \in 1 .. n : c[a] = q[a]
  <2>1. 1 \in Int /\ n \in Int /\ Len(q) \in Nat /\ \A a \in 1 .. n : q[a] \in Line
    OBVIOUS
  <2>2. /\ c \in Seq(Line)
        /\ Len(c) = IF 1 <= n THEN n - 1 + 1 ELSE 0
        /\ \A a \in 1 .. n - 1 + 1 : c[a] = q[1 + a - 1]
    BY <2>1, SubSeqProperties
  <2>3. QED
    BY <2>1, <2>2
<1> HIDE DEF c
<1>2. \A a \in 1 .. Len(c) : a \in 1 .. Len(q) /\ c[a] = q[a]
  BY <1>1
<1>3. Rising(q) => Rising(c)
  BY <1>2 DEF Rising
<1>4. \A s \in Seq(Line) : (Older(s, q) => Older(s, c)) /\ (Older(q, s) => Older(c, s))
  BY <1>2 DEF Older
<1>5. Accepted(q) => Accepted(c)
  BY <1>2 DEF Accepted
<1>6. QED
  BY <1>1, <1>3, <1>4, <1>5 DEF c

-----------------------------------------------------------------------------
(* The ring of buffers. *)

\* Distances along the ring.
LEMMA AheadFacts ==
  ASSUME NEW i \in Bufs, NEW j \in Bufs
  PROVE  /\ Ahead(i, j) \in 0 .. BufCnt - 1 /\ Ahead(i, j) \in Nat /\ (Ahead(i, j) = 0 <=> i = j)
         /\ NextIdx(i) \in Bufs /\ NextIdx(i) # i
         /\ Ahead(i, NextIdx(j)) = IF NextIdx(j) = i THEN 0 ELSE Ahead(i, j) + 1
         /\ NextIdx(j) = i => Ahead(i, j) = BufCnt - 1
  BY LoggerAssumption DEF Ahead, NextIdx, Bufs

\* Going on from one buffer past another.
LEMMA AheadSum ==
  ASSUME NEW i \in Bufs, NEW j \in Bufs, NEW k \in Bufs
  PROVE  /\ Ahead(i, j) <= Ahead(i, k) <=> Ahead(i, k) = Ahead(i, j) + Ahead(j, k)
         /\ Ahead(i, j) + Ahead(j, k) < BufCnt => Ahead(i, k) = Ahead(i, j) + Ahead(j, k)
         /\ Ahead(i, j) = Ahead(i, k) => j = k
  BY LoggerAssumption DEF Ahead, Bufs

-----------------------------------------------------------------------------
(* What the threads do. *)

\* A pass through the loop of esq_log that finds room changes one buffer: the
\* one in use, or the next one, which is empty.  The line is added, or the
\* buffer is marked.
Printed(i) ==
  /\ user_idx' = i
  /\ \/ i = user_idx /\ buf[i].state # "FULL"
     \/ i = NextIdx(user_idx) /\ buf[user_idx].state = "FULL" /\ ~Used(i)
  /\ \A j \in Bufs \ {i} : buf'[j] = buf[j]
  /\ buf'[i] \in Buffer /\ buf'[i].state # "EMPTY"
  /\ \/ /\ buf'[i].lines = buf[i].lines /\ buf'[i].offset = buf[i].offset /\ accepted' = accepted
        /\ refused' \/ (refused' = refused /\ buf[i].offset # 0)
     \/ \E l \in Line :
          /\ l.id = Len(accepted) + 1 /\ l.size > 0
          /\ buf'[i].lines = Append(buf[i].lines, l) /\ buf'[i].offset = buf[i].offset + l.size
          /\ accepted' = Append(accepted, l) /\ refused' = refused

\* One pass of esq_log over a buffer with room prints into one buffer.
LEMMA PassFacts ==
  ASSUME TypeOK, Filled, NEW t \in Threads, NEW r \in Nat, ~Blocked(user_idx), Pass(t, r)
  PROVE  /\ \E i \in Bufs : Printed(i)
         /\ buf' \in [Bufs -> Buffer] /\ accepted' \in Seq(Line) /\ refused' \in BOOLEAN
         /\ pc' \in [Threads -> {"out", "log", "logged", "blocked", "sem_wait"}]
<1> DEFINE i == Usable(user_idx)
           b == InUse(i)
           line == [id |-> Len(accepted) + 1, size |-> r]
           fits == Fits(r, b.offset)
           bad == r <= 0 \/ r >= BufSize
           new == IF bad THEN b
                  ELSE IF fits THEN [b EXCEPT !.offset = @ + r, !.lines = Append(@, line)]
                  ELSE [b EXCEPT !.state = "FULL"]
<1>1. /\ user_idx \in Bufs /\ buf \in [Bufs -> Buffer] /\ accepted \in Seq(Line)
      /\ Len(accepted) \in Nat /\ refused \in BOOLEAN
  BY DEF TypeOK
<1>2. /\ i \in Bufs
      /\ \/ i = user_idx /\ buf[i].state # "FULL"
         \/ i = NextIdx(user_idx) /\ buf[user_idx].state = "FULL" /\ ~Used(i)
  BY <1>1, AheadFacts DEF Usable, Blocked, Used
<1>3. b \in Buffer /\ b.state = "USE" /\ b.lines = buf[i].lines /\ b.offset = buf[i].offset
  <2>1. CASE buf[user_idx].state = "FULL"
    <3>1. buf[i].lines = <<>> /\ buf[i].offset = 0
      BY <1>2, <2>1 DEF Filled
    <3>2. b = [state |-> "USE", offset |-> 0, lines |-> <<>>]
      BY <2>1 DEF InUse, EmptyBuf
    <3>3. QED
      BY <3>1, <3>2 DEF Buffer
  <2>2. CASE buf[user_idx].state # "FULL"
    <3>1. b = [buf[i] EXCEPT !.state = "USE"] /\ buf[i] \in Buffer
      BY <1>1, <1>2, <2>2 DEF InUse
    <3>2. QED
      BY <3>1 DEF Buffer
  <2>3. QED
    BY <2>1, <2>2
<1>4. line \in Line /\ line.id = Len(accepted) + 1 /\ line.size = r
  BY <1>1 DEF Line
<1>5. /\ user_idx' = i /\ buf' = [buf EXCEPT ![i] = new]
      /\ accepted' = IF ~bad /\ fits THEN Append(accepted, line) ELSE accepted
      /\ refused' = (refused \/ bad)
  BY DEF Pass
<1>a. pc' \in [Threads -> {"out", "log", "logged", "blocked", "sem_wait"}]
  BY DEF Pass, TypeOK
<1>6. buf'[i] = new /\ \A j \in Bufs \ {i} : buf'[j] = buf[j]
  BY <1>1, <1>2, <1>5
<1> HIDE DEF i, b, line
<1>7. CASE bad
  <2>1. new = b /\ accepted' = accepted /\ refused' = TRUE
    BY <1>5, <1>7
  <2>2. Printed(i)
    BY <1>2, <1>3, <1>5, <1>6, <2>1 DEF Printed
  <2>3. QED
    BY <1>1, <1>2, <1>3, <1>5, <1>a, <2>1, <2>2
<1>8. CASE ~bad /\ fits
  <2>1. new = [b EXCEPT !.offset = @ + r, !.lines = Append(@, line)]
    BY <1>8
  <2>2. new.state = "USE" /\ new.offset = b.offset + r /\ new.lines = Append(b.lines, line)
    BY <1>3, <2>1 DEF Buffer
  <2>3. Append(b.lines, line) \in Seq(Line) /\ Append(accepted, line) \in Seq(Line)
    BY <1>1, <1>3, <1>4 DEF Buffer
  <2>4. new \in Buffer
    <3>1. b.offset + r \in Nat
      BY <1>3 DEF Buffer
    <3>2. new = [state |-> "USE", offset |-> b.offset + r, lines |-> Append(b.lines, line)]
      BY <1>3, <2>1 DEF Buffer
    <3> HIDE DEF new
    <3>3. QED
      BY <2>3, <3>1, <3>2 DEF Buffer
  <2>5. accepted' = Append(accepted, line) /\ refused' = refused /\ r > 0
    BY <1>1, <1>5, <1>8
  <2>6. Printed(i)
    BY <1>2, <1>3, <1>4, <1>5, <1>6, <2>2, <2>4, <2>5 DEF Printed
  <2>7. QED
    BY <1>1, <1>2, <1>5, <1>a, <2>3, <2>4, <2>5, <2>6
<1>9. CASE ~bad /\ ~fits
  <2>1. new = [b EXCEPT !.state = "FULL"]
    BY <1>9
  <2>2. new \in Buffer /\ new.state = "FULL" /\ new.offset = b.offset /\ new.lines = b.lines
    BY <1>3, <2>1 DEF Buffer
  <2>3. accepted' = accepted /\ refused' = refused
    BY <1>1, <1>5, <1>9
  <2>4. b.offset # 0
    BY <1>3, <1>9, LoggerAssumption DEF Fits, Buffer
  <2>5. Printed(i)
    BY <1>2, <1>3, <1>5, <1>6, <2>2, <2>3, <2>4 DEF Printed
  <2>6. QED
    BY <1>1, <1>2, <1>5, <1>a, <2>2, <2>3, <2>5
<1>10. QED
  BY <1>7, <1>8, <1>9

\* A call of esq_log prints, or has to wait.
LEMMA LogFacts ==
  ASSUME TypeOK, Filled, NEW t \in Threads, Call(t) \/ Again(t)
  PROVE  /\ ~stop_flag
         /\ UNCHANGED <<worker_idx, stop_flag, disk, io_error, wpc, left, dropped>>
         /\ TypeOK'
         /\ \/ \E i \in Bufs : Printed(i)
            \/ UNCHANGED <<buf, user_idx, accepted, refused>>
<1>1. PICK r \in Nat : Log(t, r)
  BY LoggerAssumption DEF Call, Again, TypeOK
<1>2. ~stop_flag /\ calls' \in Nat
  BY DEF Call, Again, TypeOK
<1>3. /\ UNCHANGED <<worker_idx, stop_flag, disk, io_error, wpc, left, dropped>>
      /\ size' \in [Threads -> Nat]
      /\ UNCHANGED <<user_sem, worker_sem, change_flag, fd, changes>>
  BY <1>1 DEF Log, TypeOK
<1>4. CASE Blocked(user_idx)
  <2>1. NoRoom(t)
    BY <1>1, <1>4 DEF Log
  <2>2. TypeOK'
    BY <1>2, <1>3, <2>1 DEF TypeOK, NoRoom
  <2>3. QED
    BY <1>2, <1>3, <2>1, <2>2 DEF NoRoom
<1>5. CASE ~Blocked(user_idx)
  <2>1. Pass(t, r)
    BY <1>1, <1>5 DEF Log
  <2>2. PICK i \in Bufs : Printed(i)
    BY <1>5, <2>1, PassFacts
  <2>3. /\ buf' \in [Bufs -> Buffer] /\ accepted' \in Seq(Line) /\ refused' \in BOOLEAN
        /\ pc' \in [Threads -> {"out", "log", "logged", "blocked", "sem_wait"}]
    BY <1>5, <2>1, PassFacts
  <2>4. user_idx' \in Bufs
    BY <2>2 DEF Printed
  <2>5. TypeOK'
    BY <1>2, <1>3, <2>3, <2>4 DEF TypeOK
  <2>6. QED
    BY <1>2, <1>3, <2>2, <2>5
<1>6. QED
  BY <1>4, <1>5

\* The worker picks a buffer in use; the others in use come after it.
Picked(i) ==
  /\ Used(i) /\ worker_idx' = i /\ user_idx' = user_idx
  /\ \A j \in Bufs \ {i} : buf'[j] = buf[j]
  /\ buf'[i] \in Buffer /\ buf'[i].state = "FULL"
  /\ buf'[i].lines = buf[i].lines /\ buf'[i].offset = buf[i].offset
  /\ wpc' = IF buf[i].offset = 0 THEN "flushed" ELSE "write"

\* The flush picks such a buffer, and the buffers in use are in a row again.
LEMMA PickFacts ==
  ASSUME TypeOK, Ring, FlushPick
  PROVE  (\E i \in Bufs : Picked(i)) /\ InRow' /\ TypeOK'
<1>1. PICK i \in Bufs :
        /\ Flushable(i) /\ \A j \in Bufs : Flushable(j) => Ahead(First, i) <= Ahead(First, j)
        /\ worker_idx' = i
        /\ buf' = [buf EXCEPT ![i].state = "FULL"]
        /\ IF buf[i].offset = 0 THEN Flushed ELSE wpc' = "write" /\ UNCHANGED user_sem
  BY DEF FlushPick
<1>2. user_idx \in Bufs /\ worker_idx \in Bufs /\ buf \in [Bufs -> Buffer]
  BY DEF TypeOK
<1>3. /\ \A j \in Bufs \ {i} : buf'[j] = buf[j]
      /\ buf'[i] = [buf[i] EXCEPT !.state = "FULL"] /\ buf[i] \in Buffer
  BY <1>1, <1>2
<1>4. /\ buf'[i] \in Buffer /\ buf'[i].state = "FULL"
      /\ buf'[i].lines = buf[i].lines /\ buf'[i].offset = buf[i].offset
  BY <1>3 DEF Buffer
<1>5. Picked(i)
  BY <1>1, <1>3, <1>4 DEF Picked, Flushable, Used, Flushed, FlushPick
<1>6. TypeOK'
  <2>1. buf' \in [Bufs -> Buffer]
    BY <1>1, <1>2, <1>4
  <2>2. user_sem' \in Nat /\ wpc' \in {"flushed", "write"}
    BY <1>1 DEF Flushed, TypeOK
  <2>3. QED
    BY <1>1, <2>1, <2>2 DEF TypeOK, FlushPick
<1>7. \A j \in Bufs : Used(j)' <=> Used(j)
  BY <1>1, <1>3, <1>4 DEF Used, Flushable
<1> DEFINE u == user_idx
           w == worker_idx
<1>8. /\ \A j \in Bufs : Used(j) => Ahead(i, j) <= Ahead(i, u)
      /\ \A j \in Bufs : 0 < Ahead(i, j) /\ Ahead(i, j) < Ahead(i, u) => Used(j)
  <2>1. CASE w # u
    <3>1. First = w /\ InRow
      BY <2>1 DEF First, Ring, Around
    <3>2. Used(i) /\ \A j \in Bufs : Used(j) => Ahead(w, i) <= Ahead(w, j)
      BY <1>1, <3>1 DEF Used, Flushable
    <3>3. /\ Ahead(w, i) \in Nat /\ Ahead(i, u) \in Nat /\ Ahead(w, u) \in Nat
          /\ Ahead(w, u) < BufCnt /\ Ahead(w, u) = Ahead(w, i) + Ahead(i, u)
      <4>1. Ahead(w, i) \in Nat /\ Ahead(i, u) \in Nat /\ Ahead(w, u) \in 0 .. BufCnt - 1
        BY <1>2, AheadFacts
      <4>2. Ahead(w, i) <= Ahead(w, u)
        BY <3>1, <3>2 DEF InRow
      <4>3. Ahead(w, u) = Ahead(w, i) + Ahead(i, u)
        BY <1>2, <4>2, AheadSum
      <4>4. QED
        BY <4>1, <4>3, LoggerAssumption
    <3>4. ASSUME NEW j \in Bufs, Used(j)
          PROVE  Ahead(i, j) <= Ahead(i, u)
      <4>1. Ahead(w, j) = Ahead(w, i) + Ahead(i, j)
        BY <1>2, <3>2, <3>4, AheadSum
      <4>2. Ahead(w, j) <= Ahead(w, u) /\ Ahead(i, j) \in Nat
        BY <3>1, <3>4, AheadFacts DEF InRow
      <4>3. QED
        BY <3>3, <4>1, <4>2
    <3>5. ASSUME NEW j \in Bufs, 0 < Ahead(i, j), Ahead(i, j) < Ahead(i, u)
          PROVE  Used(j)
      <4>1. Ahead(i, j) \in Nat
        BY AheadFacts
      <4>2. Ahead(w, j) = Ahead(w, i) + Ahead(i, j)
        BY <1>2, <3>3, <3>5, <4>1, LoggerAssumption, AheadSum
      <4>3. 0 < Ahead(w, j) /\ Ahead(w, j) < Ahead(w, u)
        BY <3>3, <3>5, <4>1, <4>2
      <4>4. QED
        BY <3>1, <4>3 DEF InRow
    <3>6. QED
      BY <3>4, <3>5
  <2>2. CASE w = u /\ InRow
    <3>1. \A j \in Bufs : Used(j) => j = u
      BY <1>2, <2>2, AheadFacts DEF InRow
    <3>2. i = u
      BY <1>1, <3>1 DEF Used, Flushable
    <3>3. QED
      BY <2>2, <3>2 DEF InRow
  <2>3. CASE w = u /\ Around
    <3>1. First = NextIdx(u) /\ NextIdx(u) \in Bufs /\ NextIdx(u) # u
      BY <1>2, <2>3, AheadFacts DEF First
    <3>2. Used(NextIdx(u)) /\ Ahead(First, NextIdx(u)) = 0
      BY <2>3, <3>1, AheadFacts DEF Around
    <3>3. i = NextIdx(u)
      <4>1. Ahead(First, i) <= Ahead(First, NextIdx(u))
        BY <1>1, <3>1, <3>2 DEF Used, Flushable
      <4>2. Ahead(First, i) \in Nat /\ (Ahead(First, i) = 0 => First = i)
        BY <3>1, AheadFacts
      <4>3. QED
        BY <3>1, <3>2, <4>1, <4>2
    <3>4. Ahead(i, u) = BufCnt - 1
      BY <1>2, <3>3, AheadFacts
    <3>5. ASSUME NEW j \in Bufs
          PROVE  Ahead(i, j) <= Ahead(i, u) /\ (Ahead(i, j) < Ahead(i, u) => Used(j))
      <4>1. Ahead(i, j) \in 0 .. BufCnt - 1
        BY AheadFacts
      <4>2. Ahead(i, j) < Ahead(i, u) => j # u
        BY <4>1, <3>4, LoggerAssumption
      <4>3. QED
        BY <2>3, <3>4, <4>1, <4>2, LoggerAssumption DEF Around
    <3>6. QED
      BY <3>5
  <2>4. QED
    BY <2>1, <2>2, <2>3 DEF Ring
<1>9. InRow'
  BY <1>5, <1>7, <1>8 DEF InRow, Picked, Ahead
<1>10. QED
  BY <1>5, <1>6, <1>9

\* The types.
LEMMA TypeKept ==
  ASSUME LoggerInv, Next
  PROVE  TypeOK'
<1>0. TypeOK /\ Filled /\ Ring
  BY DEF LoggerInv
<1>1. CASE \E t \in Threads : Call(t) \/ Again(t)
  BY <1>0, <1>1, LogFacts
<1>2. ASSUME NEW t \in Threads, Logged(t) \/ Block(t) \/ Wake(t)
      PROVE  TypeOK'
  <2>1. CASE Logged(t)
    BY <1>0, <2>1 DEF TypeOK, Logged
  <2>2. CASE Block(t)
    BY <1>0, <2>2 DEF TypeOK, Block
  <2>3. CASE Wake(t)
    BY <1>0, <2>3 DEF TypeOK, Wake
  <2>4. QED
    BY <1>2, <2>1, <2>2, <2>3
<1>3. CASE WorkerWake
  BY <1>0, <1>3, LoggerAssumption DEF TypeOK, WorkerWake, LastFlushes
<1>4. CASE FlushNothing \/ AfterFlush
  <2>1. CASE FlushNothing
    BY <1>0, <2>1 DEF TypeOK, FlushNothing, Flushed
  <2>2. CASE AfterFlush
    <3>1. left' \in Nat /\ wpc' \in {"sem_wait", "ended", "flush"}
      BY <1>0, <2>2 DEF TypeOK, AfterFlush
    <3>2. fd' \in BOOLEAN /\ change_flag' \in BOOLEAN
      BY <1>0, <2>2 DEF TypeOK, AfterFlush
    <3>3. QED
      BY <1>0, <2>2, <3>1, <3>2 DEF TypeOK, AfterFlush
  <2>3. QED
    BY <1>4, <2>1, <2>2
<1>5. CASE FlushPick
  BY <1>0, <1>5, PickFacts
<1>6. CASE Write
  <2>1. disk' \in Seq(Line)
    BY <1>0, <1>6, ConcatLines DEF TypeOK, Write, Buffer
  <2>2. QED
    BY <1>0, <1>6, <2>1 DEF TypeOK, Write
<1>7. CASE WriteError
  <2>1. disk' \in Seq(Line) /\ fd' \in BOOLEAN
    <3>1. disk \in Seq(Line) /\ buf[worker_idx].lines \in Seq(Line) /\ fd \in BOOLEAN
      BY <1>0 DEF TypeOK, Buffer
    <3>2. ASSUME NEW n \in 0 .. Len(buf[worker_idx].lines) - 1
          PROVE  disk \o SubSeq(buf[worker_idx].lines, 1, n) \in Seq(Line)
      <4>1. SubSeq(buf[worker_idx].lines, 1, n) \in Seq(Line)
        BY <3>1, FirstLines
      <4>2. QED
        BY <3>1, <4>1, ConcatLines
    <3>3. QED
      BY <1>7, <3>1, <3>2 DEF WriteError
  <2>2. QED
    BY <1>0, <1>7, <2>1 DEF TypeOK, WriteError
<1>8. EmptyBuf \in Buffer /\ 0 \in Bufs
  BY LoggerAssumption DEF EmptyBuf, Buffer, Bufs
<1>9. CASE Clear \/ DropAll
  <2>1. CASE Clear
    BY <1>0, <1>8, <2>1 DEF TypeOK, Clear, Flushed
  <2>2. CASE DropAll
    BY <1>0, <1>8, <2>2 DEF TypeOK, DropAll, Flushed
  <2>3. QED
    BY <1>9, <2>1, <2>2
<1>10. CASE ChangeLogFile \/ Detach \/ PauseEnds
  <2>1. CASE ChangeLogFile
    BY <1>0, <2>1 DEF TypeOK, ChangeLogFile
  <2>2. CASE Detach
    BY <1>0, <2>2 DEF TypeOK, Detach
  <2>3. CASE PauseEnds
    BY <1>0, <2>3 DEF TypeOK, PauseEnds
  <2>4. QED
    BY <1>10, <2>1, <2>2, <2>3
<1>11. QED
  BY <1>1, <1>2, <1>3, <1>4, <1>5, <1>6, <1>7, <1>9, <1>10 DEF Next, UserStep, WorkerStep

-----------------------------------------------------------------------------
(* Printing a line. *)

\* The buffers in use, after esq_log printed.
LEMMA PrintFilled ==
  ASSUME LoggerInv, NEW i \in Bufs, Printed(i)
  PROVE  Filled' /\ \A j \in Bufs : Used(j)' <=> Used(j) \/ j = i
<1>0. TypeOK /\ Filled
  BY DEF LoggerInv
<1>1. \A j \in Bufs : Used(j)' <=> Used(j) \/ j = i
  BY DEF Printed, Used
<1>2. /\ buf'[i].offset = 0 <=> buf'[i].lines = <<>>
      /\ ~refused' => ~refused /\ buf'[i].lines # <<>>
  <2>1. buf[i].offset \in Nat /\ buf[i].lines \in Seq(Line)
    BY <1>0 DEF TypeOK, Buffer
  <2>2. CASE /\ buf'[i].lines = buf[i].lines /\ buf'[i].offset = buf[i].offset
             /\ refused' \/ (refused' = refused /\ buf[i].offset # 0)
    BY <1>0, <2>2 DEF Filled
  <2>3. ASSUME NEW l \in Line, l.size > 0, buf'[i].lines = Append(buf[i].lines, l),
               buf'[i].offset = buf[i].offset + l.size, refused' = refused
        PROVE  /\ buf'[i].offset # 0 /\ buf'[i].lines # <<>>
               /\ ~refused' => ~refused
    <3>1. l.size \in Nat
      BY DEF Line
    <3>2. buf'[i].offset # 0
      BY <2>1, <2>3, <3>1
    <3>3. buf'[i].lines # <<>>
      BY <2>1, <2>3, AppendLine
    <3>4. QED
      BY <2>3, <3>2, <3>3
  <2>4. QED
    BY <2>2, <2>3 DEF Printed
<1>3. QED
  BY <1>0, <1>1, <1>2 DEF Filled, Printed

\* The ring goes on, or the users have gone round to the worker's buffer.
LEMMA PrintRing ==
  ASSUME LoggerInv, NEW i \in Bufs, Printed(i), UNCHANGED <<worker_idx, wpc>>
  PROVE  Ring'
<1> DEFINE u == user_idx
           w == worker_idx
<1>0. /\ TypeOK /\ Ring /\ u \in Bufs /\ w \in Bufs
      /\ \A j \in Bufs : Used(j)' <=> Used(j) \/ j = i
  BY PrintFilled DEF LoggerInv, TypeOK
<1>1. wpc' \in {"write", "clear", "drop"} => i # w /\ buf'[w].state = "FULL" /\ InRow
  BY <1>0 DEF Ring, Printed, Used
<1>2. CASE i = u
  <2>1. user_idx' = u
    BY <1>2 DEF Printed
  <2>2. ASSUME InRow  PROVE InRow'
    <3>1. \A j \in Bufs : Used(j)' => Ahead(w, j) <= Ahead(w, u)
      <4>1. Ahead(w, u) <= Ahead(w, u)
        BY <1>0, AheadFacts, LoggerAssumption
      <4>2. QED
        BY <1>0, <1>2, <2>2, <4>1 DEF InRow
    <3>2. \A j \in Bufs : 0 < Ahead(w, j) /\ Ahead(w, j) < Ahead(w, u) => Used(j)'
      BY <1>0, <2>2 DEF InRow
    <3>3. QED
      BY <2>1, <3>1, <3>2 DEF InRow, Ahead
  <2>3. Around => Around'
    BY <1>0, <1>2, <2>1 DEF Around
  <2>4. QED
    BY <1>0, <1>1, <2>2, <2>3 DEF Ring
<1>3. CASE i = NextIdx(u) /\ Used(u) /\ ~Used(i)
  <2>0. user_idx' = i
    BY DEF Printed
  <2>1. InRow
    BY <1>0, <1>3, AheadFacts DEF Ring, Around
  <2>2. \A j \in Bufs : /\ Ahead(w, j) \in 0 .. BufCnt - 1
                        /\ Ahead(w, j) = 0 <=> w = j
                        /\ Ahead(w, j) = Ahead(w, u) => j = u
    BY <1>0, AheadFacts, AheadSum
  <2>3. CASE i # w
    <3>1. Ahead(w, i) = Ahead(w, u) + 1
      BY <1>0, <1>3, <2>3, AheadFacts
    <3>2. ASSUME NEW j \in Bufs, Used(j)'
          PROVE  Ahead(w, j) <= Ahead(w, i)
      BY <1>0, <2>1, <2>2, <3>1, <3>2, LoggerAssumption DEF InRow
    <3>3. ASSUME NEW j \in Bufs, 0 < Ahead(w, j), Ahead(w, j) < Ahead(w, i)
          PROVE  Used(j)'
      <4>1. Ahead(w, j) < Ahead(w, u) \/ Ahead(w, j) = Ahead(w, u)
        BY <1>0, <2>2, <3>1, <3>3, LoggerAssumption
      <4>2. QED
        BY <1>0, <1>3, <2>1, <2>2, <3>3, <4>1 DEF InRow
    <3>4. InRow'
      BY <2>0, <3>2, <3>3 DEF InRow, Ahead
    <3>5. QED
      BY <1>1, <3>4 DEF Ring
  <2>4. CASE i = w
    <3>1. Ahead(w, u) = BufCnt - 1
      <4>1. NextIdx(u) = w
        BY <1>3, <2>4
      <4>2. QED
        BY <1>0, <4>1, AheadFacts
    <3>2. ASSUME NEW j \in Bufs \ {w}
          PROVE  Used(j)
      <4>1. 0 < Ahead(w, j) /\ (Ahead(w, j) < Ahead(w, u) \/ Ahead(w, j) = Ahead(w, u))
        BY <2>2, <3>1, LoggerAssumption
      <4>2. QED
        BY <1>3, <2>1, <2>2, <4>1 DEF InRow
    <3>3. Around'
      BY <1>0, <2>0, <2>4, <3>2 DEF Around
    <3>4. QED
      BY <1>1, <2>4, <3>3 DEF Ring
  <2>5. QED
    BY <2>3, <2>4
<1>4. QED
  BY <1>2, <1>3 DEF Printed, Used

\* The numbers of the lines.
LEMMA PrintNumbers ==
  ASSUME LoggerInv, NEW i \in Bufs, Printed(i), UNCHANGED disk
  PROVE  Numbered'
<1>0. /\ TypeOK /\ Numbered /\ accepted \in Seq(Line) /\ Len(accepted) \in Nat
      /\ disk \in Seq(Line) /\ \A j \in Bufs : buf[j].lines \in Seq(Line)
  BY DEF LoggerInv, TypeOK, Buffer
<1>1. CASE buf'[i].lines = buf[i].lines /\ accepted' = accepted
  <2>1. \A j \in Bufs : buf'[j].lines = buf[j].lines
    BY <1>1 DEF Printed
  <2>2. QED
    BY <1>0, <1>1, <2>1 DEF Numbered, Accepted
<1>2. ASSUME NEW l \in Line, l.id = Len(accepted) + 1, buf'[i].lines = Append(buf[i].lines, l),
             accepted' = Append(accepted, l)
      PROVE  Numbered'
  <2>1. /\ Len(accepted') = Len(accepted) + 1
        /\ \A k \in 1 .. Len(accepted) : accepted'[k] = accepted[k]
        /\ accepted'[Len(accepted) + 1] = l
    BY <1>0, <1>2, AppendLine
  <2>2. \A k \in 1 .. Len(accepted') : accepted'[k].id = k
    BY <1>0, <1>2, <2>1 DEF Numbered
  <2>3. ASSUME NEW q \in Seq(Line), Accepted(q)
        PROVE  \A a \in 1 .. Len(q) : q[a].id \in 1 .. Len(accepted') /\ q[a] = accepted'[q[a].id]
    BY <1>0, <2>1, <2>3 DEF Accepted
  <2>4. Accepted(disk)'
    BY <1>0, <2>3 DEF Numbered, Accepted
  <2>5. ASSUME NEW j \in Bufs
        PROVE  Accepted(buf[j].lines)'
    <3>1. CASE j # i
      <4>1. buf'[j] = buf[j]
        BY <3>1 DEF Printed
      <4>2. \A a \in 1 .. Len(buf[j].lines) :
              /\ buf[j].lines[a].id \in 1 .. Len(accepted')
              /\ buf[j].lines[a] = accepted'[buf[j].lines[a].id]
        BY <1>0, <2>3 DEF Numbered
      <4>3. QED
        BY <4>1, <4>2 DEF Accepted
    <3>2. CASE j = i
      <4>1. /\ Len(buf'[i].lines) = Len(buf[i].lines) + 1
            /\ \A a \in 1 .. Len(buf[i].lines) : buf'[i].lines[a] = buf[i].lines[a]
            /\ buf'[i].lines[Len(buf[i].lines) + 1] = l
            /\ Len(buf[i].lines) \in Nat
        BY <1>0, <1>2, AppendLine
      <4>2. l.id \in 1 .. Len(accepted') /\ l = accepted'[l.id]
        BY <1>0, <1>2, <2>1
      <4>3. \A a \in 1 .. Len(buf[i].lines) :
              /\ buf[i].lines[a].id \in 1 .. Len(accepted')
              /\ buf[i].lines[a] = accepted'[buf[i].lines[a].id]
        BY <1>0, <2>3 DEF Numbered
      <4>4. ASSUME NEW a \in 1 .. Len(buf'[i].lines)
            PROVE  /\ buf'[i].lines[a].id \in 1 .. Len(accepted')
                   /\ buf'[i].lines[a] = accepted'[buf'[i].lines[a].id]
        <5>1. CASE a \in 1 .. Len(buf[i].lines)
          BY <4>1, <4>3, <5>1
        <5>2. CASE a = Len(buf[i].lines) + 1
          BY <4>1, <4>2, <5>2
        <5>3. QED
          BY <4>1, <5>1, <5>2
      <4>5. QED
        BY <3>2, <4>4 DEF Accepted
    <3>3. QED
      BY <3>1, <3>2
  <2>6. QED
    BY <2>2, <2>4, <2>5 DEF Numbered
<1>3. QED
  BY <1>1, <1>2 DEF Printed

\* The lines stay in order.
LEMMA PrintOrder ==
  ASSUME LoggerInv, NEW i \in Bufs, Printed(i), UNCHANGED <<worker_idx, wpc, disk>>
  PROVE  Ordered'
<1> DEFINE u == user_idx
           w == worker_idx
           L(j) == buf[j].lines
<1>0. /\ TypeOK /\ Filled /\ Ring /\ Numbered /\ Ordered /\ u \in Bufs /\ w \in Bufs
      /\ disk \in Seq(Line) /\ \A j \in Bufs : L(j) \in Seq(Line) /\ Len(L(j)) \in Nat
      /\ accepted \in Seq(Line) /\ Len(accepted) \in Nat
  BY DEF LoggerInv, TypeOK, Buffer
<1>1. /\ user_idx' = i
      /\ \A j \in Bufs \ {i} : buf'[j].lines = L(j)
      /\ i = u \/ (i = NextIdx(u) /\ L(i) = <<>>)
  BY <1>0 DEF Printed, Filled
\* What is before the new line.
<1>2. \A a \in 1 .. Len(buf'[i].lines) :
        \/ a \in 1 .. Len(L(i)) /\ buf'[i].lines[a] = L(i)[a]
        \/ a = Len(L(i)) + 1 /\ buf'[i].lines[a].id = Len(accepted) + 1
  <2>1. ASSUME NEW l \in Line, l.id = Len(accepted) + 1, buf'[i].lines = Append(L(i), l)
        PROVE  \A a \in 1 .. Len(buf'[i].lines) :
                 \/ a \in 1 .. Len(L(i)) /\ buf'[i].lines[a] = L(i)[a]
                 \/ a = Len(L(i)) + 1 /\ buf'[i].lines[a].id = Len(accepted) + 1
    <3>1. /\ Len(buf'[i].lines) = Len(L(i)) + 1
          /\ \A a \in 1 .. Len(L(i)) : buf'[i].lines[a] = L(i)[a]
          /\ buf'[i].lines[Len(L(i)) + 1] = l
      BY <1>0, <2>1, AppendLine
    <3>2. QED
      BY <1>0, <2>1, <3>1
  <2>2. QED
    BY <2>1 DEF Printed
\* Every line there is has a lower number.
<1>3. /\ \A j \in Bufs : \A a \in 1 .. Len(L(j)) : L(j)[a].id \in Nat /\ L(j)[a].id <= Len(accepted)
      /\ \A a \in 1 .. Len(disk) : disk[a].id \in Nat /\ disk[a].id <= Len(accepted)
  BY <1>0 DEF Numbered, Accepted
<1>4. Rising(buf'[i].lines)
  <2> SUFFICES ASSUME NEW a \in 1 .. Len(buf'[i].lines), NEW b \in 1 .. Len(buf'[i].lines), a < b
               PROVE  buf'[i].lines[a].id < buf'[i].lines[b].id
    BY DEF Rising
  <2>1. CASE b \in 1 .. Len(L(i)) /\ buf'[i].lines[b] = L(i)[b]
    <3>1. a \in 1 .. Len(L(i)) /\ buf'[i].lines[a] = L(i)[a]
      BY <1>0, <1>2, <2>1
    <3>2. QED
      BY <1>0, <2>1, <3>1 DEF Ordered, Rising
  <2>2. CASE b = Len(L(i)) + 1 /\ buf'[i].lines[b].id = Len(accepted) + 1
    <3>1. a \in 1 .. Len(L(i)) /\ buf'[i].lines[a] = L(i)[a]
      BY <1>0, <1>2, <2>2
    <3>2. QED
      BY <1>0, <1>3, <2>2, <3>1
  <2>3. QED
    BY <1>2, <2>1, <2>2
<1>5. ASSUME NEW q \in Seq(Line), Older(q, L(i)),
             \A a \in 1 .. Len(q) : q[a].id \in Nat /\ q[a].id <= Len(accepted)
      PROVE  Older(q, buf'[i].lines)
  <2> SUFFICES ASSUME NEW a \in 1 .. Len(q), NEW b \in 1 .. Len(buf'[i].lines)
               PROVE  q[a].id < buf'[i].lines[b].id
    BY DEF Older
  <2>1. CASE b \in 1 .. Len(L(i)) /\ buf'[i].lines[b] = L(i)[b]
    BY <1>5, <2>1 DEF Older
  <2>2. CASE b = Len(L(i)) + 1 /\ buf'[i].lines[b].id = Len(accepted) + 1
    BY <1>0, <1>5, <2>2
  <2>3. QED
    BY <1>2, <2>1, <2>2
<1>6. ASSUME NEW j \in Bufs, NEW k \in Bufs, Ahead(j, i) > Ahead(k, i)
      PROVE  Older(buf'[j].lines, buf'[k].lines)
  <2>1. j # i
    BY <1>6, AheadFacts, LoggerAssumption
  <2>2. CASE k = i
    <3>1. Older(L(j), L(i))
      <4>1. CASE i = u
        BY <1>0, <1>6, <2>2, <4>1 DEF Ordered
      <4>2. CASE L(i) = <<>>
        BY <4>2 DEF Older
      <4>3. QED
        BY <1>1, <4>1, <4>2
    <3>2. QED
      BY <1>0, <1>1, <1>3, <1>5, <2>1, <2>2, <3>1
  <2>3. CASE k # i
    <3>1. Ahead(j, u) > Ahead(k, u)
      <4>1. CASE i = u
        BY <1>6, <4>1
      <4>2. CASE i = NextIdx(u)
        <5>1. Ahead(j, i) = Ahead(j, u) + 1 /\ Ahead(k, i) = Ahead(k, u) + 1
          <6>1. NextIdx(u) # j /\ NextIdx(u) # k
            BY <2>1, <2>3, <4>2
          <6>2. Ahead(j, NextIdx(u)) = Ahead(j, u) + 1
            BY <1>0, <6>1, AheadFacts
          <6>3. Ahead(k, NextIdx(u)) = Ahead(k, u) + 1
            BY <1>0, <6>1, AheadFacts
          <6>4. QED
            BY <4>2, <6>2, <6>3
        <5>2. Ahead(j, u) \in Nat /\ Ahead(k, u) \in Nat
          <6>1. \A v \in Bufs : Ahead(v, u) \in Nat
            BY <1>0, AheadFacts
          <6>2. QED
            BY <6>1
        <5>3. QED
          BY <1>6, <5>1, <5>2
      <4>3. QED
        BY <1>1, <4>1, <4>2
    <3>2. QED
      BY <1>0, <1>1, <2>1, <2>3, <3>1 DEF Ordered
  <2>4. QED
    BY <2>2, <2>3
<1>7. ASSUME NEW j \in Bufs, Unwritten(j)
      PROVE  Older(disk, buf'[j].lines)
  <2>1. Older(disk, L(j))
    BY <1>0, <1>7 DEF Ordered
  <2>2. QED
    BY <1>0, <1>1, <1>3, <1>5, <2>1
<1>8. \A j \in Bufs : Rising(buf'[j].lines)
  BY <1>0, <1>1, <1>4 DEF Ordered
<1>9. Rising(disk)
  BY <1>0 DEF Ordered
<1>10. \A j \in Bufs : Unwritten(j)' => Unwritten(j)
  BY DEF Unwritten
<1>11. QED
  BY <1>1, <1>6, <1>7, <1>8, <1>9, <1>10 DEF Ordered, Rising, Older, Ahead

\* No line vanishes.
LEMMA PrintKept ==
  ASSUME LoggerInv, NEW i \in Bufs, Printed(i),
         UNCHANGED <<worker_idx, wpc, disk, dropped, io_error>>
  PROVE  Kept'
<1>0. /\ TypeOK /\ Filled /\ Ring /\ Kept /\ worker_idx \in Bufs
      /\ accepted \in Seq(Line) /\ Len(accepted) \in Nat
      /\ \A j \in Bufs : buf[j].lines \in Seq(Line)
  BY DEF LoggerInv, TypeOK, Buffer
<1>1. ASSUME NEW j \in Bufs, NEW m, Has(buf[j].lines, m)
      PROVE  Has(buf'[j].lines, m)
  <2>1. CASE buf'[j].lines = buf[j].lines
    BY <1>1, <2>1
  <2>2. ASSUME NEW l \in Line, buf'[j].lines = Append(buf[j].lines, l)
        PROVE  Has(buf'[j].lines, m)
    BY <1>0, <1>1, <2>2, AppendLine
  <2>3. QED
    BY <2>1, <2>2 DEF Printed
<1>2. ASSUME NEW k \in 1 .. Len(accepted')
      PROVE  \/ Has(disk, accepted'[k]) \/ accepted'[k] \in dropped
             \/ \E j \in Bufs : Has(buf'[j].lines, accepted'[k])
  <2>1. CASE k \in 1 .. Len(accepted) /\ accepted'[k] = accepted[k]
    BY <1>0, <1>1, <2>1 DEF Kept
  <2>2. ASSUME NEW l \in Line, buf'[i].lines = Append(buf[i].lines, l),
               accepted' = Append(accepted, l)
        PROVE  \/ k \in 1 .. Len(accepted) /\ accepted'[k] = accepted[k]
               \/ Has(buf'[i].lines, accepted'[k])
    <3>1. /\ Len(accepted') = Len(accepted) + 1
          /\ \A a \in 1 .. Len(accepted) : accepted'[a] = accepted[a]
          /\ accepted'[Len(accepted) + 1] = l
      BY <1>0, <2>2, AppendLine
    <3>2. Has(buf'[i].lines, l)
      BY <1>0, <2>2, AppendLine
    <3>3. k \in 1 .. Len(accepted) \/ k = Len(accepted) + 1
      BY <1>0, <3>1
    <3>4. QED
      BY <3>1, <3>2, <3>3
  <2>3. CASE accepted' = accepted
    BY <2>1, <2>3
  <2>4. QED
    BY <2>1, <2>2, <2>3 DEF Printed
<1>3. wpc = "clear" => buf'[worker_idx] = buf[worker_idx]
  BY <1>0 DEF Ring, Printed, Used
<1>4. QED
  BY <1>0, <1>2, <1>3 DEF Kept, Has

-----------------------------------------------------------------------------
(* What the worker does. *)

\* The parts that are about buffers and lines.
Parts == Filled /\ Ring /\ Numbered /\ Ordered /\ Kept

\* The buffer the worker holds is older than all others with lines.
LEMMA HeldIsOldest ==
  ASSUME LoggerInv, wpc \in {"write", "clear", "drop"}, NEW j \in Bufs \ {worker_idx}
  PROVE  Older(buf[worker_idx].lines, buf[j].lines)
<1> DEFINE u == user_idx
           w == worker_idx
<1>0. u \in Bufs /\ w \in Bufs /\ InRow /\ Filled /\ Ordered
  BY DEF LoggerInv, TypeOK, Ring
<1>1. CASE buf[j].lines = <<>>
  BY <1>1 DEF Older
<1>2. CASE Used(j)
  <2>1. Ahead(w, j) <= Ahead(w, u)
    BY <1>0, <1>2 DEF InRow
  <2>2. Ahead(w, u) = Ahead(w, j) + Ahead(j, u)
    BY <1>0, <2>1, AheadSum
  <2>3. Ahead(w, j) \in Nat /\ Ahead(w, j) # 0
    BY <1>0, AheadFacts
  <2>4. Ahead(j, u) \in Nat
    BY <1>0, AheadFacts
  <2>5. Ahead(w, u) > Ahead(j, u)
    BY <2>2, <2>3, <2>4
  <2>6. QED
    BY <1>0, <2>5 DEF Ordered
<1>3. QED
  BY <1>0, <1>1, <1>2 DEF Filled

\* Picking a buffer moves no line.
LEMMA PickKeeps ==
  ASSUME LoggerInv, FlushPick
  PROVE  Parts'
<1>0. TypeOK /\ Filled /\ Ring /\ Numbered /\ Ordered /\ Kept
  BY DEF LoggerInv
<1>1. PICK i \in Bufs : Picked(i)
  BY <1>0, PickFacts
<1>2. InRow'
  BY <1>0, PickFacts
<1>3. /\ \A j \in Bufs : /\ buf'[j].lines = buf[j].lines /\ buf'[j].offset = buf[j].offset
                         /\ Used(j)' <=> Used(j)
      /\ user_idx' = user_idx /\ worker_idx' = i /\ buf'[i].state = "FULL"
  BY <1>1 DEF Picked, Used
<1>4. /\ UNCHANGED <<disk, accepted, dropped, refused, io_error>>
      /\ wpc = "flush" /\ wpc' \in {"flushed", "write"}
  BY <1>1 DEF Picked, FlushPick
<1>5. Filled'
  BY <1>0, <1>3, <1>4 DEF Filled
<1>6. Ring'
  BY <1>2, <1>3 DEF Ring
<1>7. Numbered'
  BY <1>0, <1>3, <1>4 DEF Numbered, Accepted
<1>8. Ordered'
  <2>1. \A j \in Bufs : Older(disk, buf[j].lines)
    BY <1>0, <1>4 DEF Ordered, Unwritten
  <2>2. /\ Rising(disk) /\ \A j \in Bufs : Rising(buf[j].lines)
        /\ \A j, k \in Bufs : Ahead(j, user_idx) > Ahead(k, user_idx)
                                => Older(buf[j].lines, buf[k].lines)
    BY <1>0 DEF Ordered
  <2>3. QED
    BY <1>3, <1>4, <2>1, <2>2 DEF Ordered, Rising, Older, Ahead
<1>9. Kept'
  <2>1. ASSUME NEW k \in 1 .. Len(accepted)
        PROVE  \/ Has(disk, accepted[k]) \/ accepted[k] \in dropped
               \/ \E j \in Bufs : Has(buf'[j].lines, accepted[k])
    BY <1>0, <1>3 DEF Kept
  <2>2. io_error = "none" => dropped = {}
    BY <1>0 DEF Kept
  <2>3. QED
    BY <1>4, <2>1, <2>2 DEF Kept, Has
<1>10. QED
  BY <1>5, <1>6, <1>7, <1>8, <1>9 DEF Parts

\* Lines of the held buffer, all or the first of them, are added to the file.
LEMMA AddToFile ==
  ASSUME LoggerInv, wpc = "write", NEW n \in 0 .. Len(buf[worker_idx].lines),
         disk' = disk \o SubSeq(buf[worker_idx].lines, 1, n),
         UNCHANGED <<buf, user_idx, worker_idx, accepted>>, wpc' \in {"clear", "drop"}
  PROVE  Numbered' /\ Ordered' /\ \A l : Has(disk, l) => Has(disk', l)
<1> DEFINE L(j) == buf[j].lines
           w == worker_idx
           q == SubSeq(L(w), 1, n)
<1>0. /\ Numbered /\ Ordered /\ w \in Bufs /\ disk \in Seq(Line)
      /\ \A j \in Bufs : L(j) \in Seq(Line)
  BY DEF LoggerInv, TypeOK, Buffer
<1>1. /\ q \in Seq(Line) /\ (Rising(L(w)) => Rising(q)) /\ (Accepted(L(w)) => Accepted(q))
      /\ \A s \in Seq(Line) : (Older(s, L(w)) => Older(s, q)) /\ (Older(L(w), s) => Older(q, s))
  BY <1>0, FirstLines
<1>2. Unwritten(w)
  BY DEF Unwritten
<1>3. Rising(L(w)) /\ Rising(disk) /\ Older(disk, L(w)) /\ Accepted(disk) /\ Accepted(L(w))
  BY <1>0, <1>2 DEF Ordered, Numbered
<1> HIDE DEF q
<1>4. Rising(q) /\ Accepted(q) /\ Older(disk, q)
  BY <1>0, <1>1, <1>3
<1>5. Rising(disk \o q) /\ Accepted(disk \o q)
  BY <1>0, <1>1, <1>3, <1>4, ConcatLines
<1>6. ASSUME NEW j \in Bufs \ {w}
      PROVE  Older(disk \o q, L(j))
  <2>1. Older(L(w), L(j))
    BY HeldIsOldest
  <2>2. Older(disk, L(j))
    BY <1>0 DEF Ordered, Unwritten
  <2>3. Older(q, L(j))
    BY <1>0, <1>1, <2>1
  <2>4. QED
    BY <1>0, <1>1, <2>2, <2>3, ConcatLines
<1>7. disk' = disk \o q
  BY DEF q
<1>8. Numbered'
  BY <1>0, <1>5, <1>7 DEF Numbered, Accepted
<1>9. Ordered'
  <2>1. \A j \in Bufs : Unwritten(j)' => j # w
    BY DEF Unwritten
  <2>2. QED
    BY <1>0, <1>5, <1>6, <1>7, <2>1 DEF Ordered, Rising, Older, Ahead
<1>10. ASSUME NEW l, Has(disk, l)  PROVE Has(disk', l)
  BY <1>0, <1>1, <1>7, <1>10, ConcatLines
<1>11. QED
  BY <1>8, <1>9, <1>10

\* The whole buffer is written.
LEMMA WriteKeeps ==
  ASSUME LoggerInv, Write
  PROVE  Parts'
<1> DEFINE w == worker_idx
           q == buf[w].lines
<1>0. /\ Filled /\ Ring /\ Kept /\ q \in Seq(Line) /\ disk \in Seq(Line) /\ Len(q) \in Nat
  BY DEF LoggerInv, TypeOK, Buffer
<1>1. /\ wpc = "write" /\ wpc' = "clear" /\ disk' = disk \o q
      /\ UNCHANGED <<buf, user_idx, worker_idx, accepted, dropped, refused, io_error>>
  BY DEF Write
<1>2. SubSeq(q, 1, Len(q)) = q /\ Len(q) \in 0 .. Len(q)
  BY <1>0
<1>3. Numbered' /\ Ordered' /\ \A l : Has(disk, l) => Has(disk', l)
  BY <1>0, <1>1, <1>2, AddToFile
<1>4. ASSUME NEW a \in 1 .. Len(q)  PROVE Has(disk', q[a])
  <2>1. Has(q, q[a])
    BY DEF Has
  <2>2. Has(disk \o q, q[a])
    BY <1>0, <2>1, ConcatLines
  <2>3. QED
    BY <1>1, <2>2
<1>5. Kept'
  <2>1. ASSUME NEW k \in 1 .. Len(accepted)
        PROVE  \/ Has(disk', accepted[k]) \/ accepted[k] \in dropped
               \/ \E j \in Bufs : Has(buf[j].lines, accepted[k])
    BY <1>0, <1>3 DEF Kept
  <2>2. io_error = "none" => dropped = {}
    BY <1>0 DEF Kept
  <2>3. QED
    BY <1>1, <1>4, <2>1, <2>2 DEF Kept, Has
<1>6. Filled' /\ Ring'
  BY <1>0, <1>1 DEF Filled, Ring, InRow, Around, Used, Ahead
<1>7. QED
  BY <1>3, <1>5, <1>6 DEF Parts

\* Some of it is written, or nothing.
LEMMA WriteErrorKeeps ==
  ASSUME LoggerInv, WriteError
  PROVE  Parts'
<1> DEFINE w == worker_idx
           q == buf[w].lines
<1>0. /\ Filled /\ Ring /\ Numbered /\ Ordered /\ Kept
      /\ q \in Seq(Line) /\ disk \in Seq(Line) /\ Len(q) \in Nat
  BY DEF LoggerInv, TypeOK, Buffer
<1>1. /\ wpc = "write" /\ wpc' = "drop" /\ io_error' = "recent"
      /\ UNCHANGED <<buf, user_idx, worker_idx, accepted, dropped, refused>>
  BY DEF WriteError
<1>2. Numbered' /\ Ordered' /\ \A l : Has(disk, l) => Has(disk', l)
  <2>1. CASE disk' = disk
    <3>1. \A j \in Bufs : Unwritten(j)
      BY <1>1 DEF Unwritten
    <3>2. QED
      BY <1>0, <1>1, <2>1, <3>1 DEF Numbered, Accepted, Ordered, Rising, Older, Ahead
  <2>2. ASSUME NEW n \in 0 .. Len(q) - 1, disk' = disk \o SubSeq(q, 1, n)
        PROVE  Numbered' /\ Ordered' /\ \A l : Has(disk, l) => Has(disk', l)
    <3>1. n \in 0 .. Len(q)
      BY <1>0
    <3>2. QED
      BY <1>1, <2>2, <3>1, AddToFile
  <2>3. QED
    BY <2>1, <2>2 DEF WriteError
<1>3. Kept'
  <2>1. ASSUME NEW k \in 1 .. Len(accepted)
        PROVE  \/ Has(disk', accepted[k]) \/ accepted[k] \in dropped
               \/ \E j \in Bufs : Has(buf[j].lines, accepted[k])
    BY <1>0, <1>2 DEF Kept
  <2>2. QED
    BY <1>1, <2>1 DEF Kept, Has
<1>4. Filled' /\ Ring'
  BY <1>0, <1>1 DEF Filled, Ring, InRow, Around, Used, Ahead
<1>5. QED
  BY <1>2, <1>3, <1>4 DEF Parts

\* The written buffer is given back.
LEMMA ClearKeeps ==
  ASSUME LoggerInv, Clear
  PROVE  Parts'
<1> DEFINE w == worker_idx
<1>0. /\ TypeOK /\ Filled /\ Ring /\ Numbered /\ Ordered /\ Kept
      /\ w \in Bufs /\ user_idx \in Bufs
  BY DEF LoggerInv, TypeOK
<1>1. /\ wpc = "clear" /\ wpc' = "flushed"
      /\ UNCHANGED <<user_idx, worker_idx, disk, accepted, dropped, refused, io_error>>
  BY DEF Clear, Flushed
<1>2. /\ \A j \in Bufs \ {w} : buf'[j] = buf[j]
      /\ buf'[w].state = "EMPTY" /\ buf'[w].offset = 0 /\ buf'[w].lines = <<>>
  BY <1>0 DEF Clear, EmptyBuf, TypeOK
<1>3. \A j \in Bufs : Used(j)' <=> Used(j) /\ j # w
  BY <1>0, <1>2 DEF Used
<1>4. Filled'
  BY <1>0, <1>1, <1>2, <1>3 DEF Filled
<1>5. Ring'
  <2>1. InRow
    BY <1>0, <1>1 DEF Ring
  <2>2. \A j \in Bufs : Used(j)' => Ahead(w, j) <= Ahead(w, user_idx)
    BY <1>3, <2>1 DEF InRow
  <2>3. Ahead(w, w) = 0
    BY <1>0, AheadFacts
  <2>4. \A j \in Bufs : 0 < Ahead(w, j) /\ Ahead(w, j) < Ahead(w, user_idx) => Used(j)'
    BY <1>3, <2>1, <2>3 DEF InRow
  <2>5. InRow'
    BY <1>1, <2>2, <2>4 DEF InRow, Ahead
  <2>6. QED
    BY <1>1, <2>5 DEF Ring
<1>6. Numbered'
  BY <1>0, <1>1, <1>2 DEF Numbered, Accepted
<1>7. Ordered'
  <2>1. \A j \in Bufs : Older(disk, buf'[j].lines)
    <3>1. ASSUME NEW j \in Bufs \ {w}  PROVE Older(disk, buf'[j].lines)
      BY <1>0, <1>2 DEF Ordered, Unwritten
    <3>2. Older(disk, buf'[w].lines)
      BY <1>2 DEF Older
    <3>3. QED
      BY <3>1, <3>2
  <2>2. \A j \in Bufs : Rising(buf'[j].lines)
    BY <1>0, <1>2 DEF Ordered, Rising
  <2>3. ASSUME NEW j \in Bufs, NEW k \in Bufs, Ahead(j, user_idx) > Ahead(k, user_idx)
        PROVE  Older(buf'[j].lines, buf'[k].lines)
    <3>1. CASE j = w \/ k = w
      BY <1>2, <3>1 DEF Older
    <3>2. CASE j # w /\ k # w
      BY <1>0, <1>2, <2>3, <3>2 DEF Ordered
    <3>3. QED
      BY <3>1, <3>2
  <2>4. Rising(disk)
    BY <1>0 DEF Ordered
  <2>5. QED
    BY <1>1, <2>1, <2>2, <2>3, <2>4 DEF Ordered, Rising, Older, Ahead
<1>8. Kept'
  <2>1. ASSUME NEW j \in Bufs, NEW l, Has(buf[j].lines, l)
        PROVE  Has(disk, l) \/ Has(buf'[j].lines, l)
    <3>1. CASE j = w
      BY <1>0, <1>1, <2>1, <3>1 DEF Kept, Has
    <3>2. CASE j # w
      BY <1>2, <2>1, <3>2
    <3>3. QED
      BY <3>1, <3>2
  <2>2. ASSUME NEW k \in 1 .. Len(accepted)
        PROVE  \/ Has(disk, accepted[k]) \/ accepted[k] \in dropped
               \/ \E j \in Bufs : Has(buf'[j].lines, accepted[k])
    BY <1>0, <2>1 DEF Kept
  <2>3. QED
    BY <1>0, <1>1, <2>2 DEF Kept, Has
<1>9. QED
  BY <1>4, <1>5, <1>6, <1>7, <1>8 DEF Parts

\* All buffers are thrown away.
LEMMA DropKeeps ==
  ASSUME LoggerInv, DropAll
  PROVE  Parts'
<1>0. /\ TypeOK /\ Numbered /\ Ordered /\ Kept /\ 0 \in Bufs
      /\ \A j \in Bufs : buf[j].lines \in Seq(Line)
  BY LoggerAssumption DEF LoggerInv, TypeOK, Buffer, Bufs
<1>1. /\ wpc' = "flushed" /\ user_idx' = 0 /\ worker_idx' = 0
      /\ UNCHANGED <<disk, accepted, refused, io_error>>
      /\ dropped' = dropped \cup UNION {Range(buf[i].lines) : i \in Bufs}
  BY DEF DropAll, Flushed
<1>2. \A j \in Bufs : buf'[j].state = "EMPTY" /\ buf'[j].offset = 0 /\ buf'[j].lines = <<>>
  BY DEF DropAll, EmptyBuf
<1>3. \A j \in Bufs : ~Used(j)'
  BY <1>2 DEF Used
<1>4. Filled'
  BY <1>2, <1>3 DEF Filled
<1>5. Ring'
  <2>1. Ahead(0, 0) = 0 /\ \A j \in Bufs : Ahead(0, j) \in Nat
    BY <1>0, AheadFacts
  <2>2. \A j \in Bufs : ~(0 < Ahead(0, j) /\ Ahead(0, j) < Ahead(0, 0))
    BY <2>1
  <2>3. InRow'
    BY <1>1, <1>3, <2>2 DEF InRow, Ahead
  <2>4. QED
    BY <1>1, <2>3 DEF Ring
<1>6. Numbered'
  BY <1>0, <1>1, <1>2 DEF Numbered, Accepted
<1>7. Ordered'
  BY <1>0, <1>1, <1>2 DEF Ordered, Rising, Older
<1>8. Kept'
  <2>1. ASSUME NEW j \in Bufs, NEW l, Has(buf[j].lines, l)
        PROVE  l \in dropped'
    <3>1. l \in Range(buf[j].lines)
      BY <1>0, <2>1, RangeEquality DEF Has
    <3>2. QED
      BY <1>1, <3>1
  <2>2. \A k \in 1 .. Len(accepted) : Has(disk, accepted[k]) \/ accepted[k] \in dropped'
    BY <1>0, <1>1, <2>1 DEF Kept
  <2>3. io_error # "none"
    BY <1>0 DEF DropAll, PauseIsOver, Kept
  <2>4. QED
    BY <1>1, <2>2, <2>3 DEF Kept, Has
<1>9. QED
  BY <1>4, <1>5, <1>6, <1>7, <1>8 DEF Parts

\* Steps that leave buffers and lines alone.
Quiet ==
  /\ UNCHANGED <<buf, user_idx, worker_idx, disk, accepted, dropped, refused>>
  /\ wpc' = wpc \/ (wpc' \notin {"write", "clear", "drop"} /\ wpc \notin {"write", "clear", "drop"})
  /\ io_error' = "none" => io_error = "none"

\* They keep all parts of the invariant.
LEMMA QuietKeeps ==
  ASSUME LoggerInv, Quiet
  PROVE  Parts'
<1>0. Filled /\ Ring /\ Numbered /\ Ordered /\ Kept
  BY DEF LoggerInv
<1>1. Filled' /\ Ring'
  BY <1>0 DEF Filled, Ring, InRow, Around, Used, Ahead, Quiet
<1>2. Numbered'
  BY <1>0 DEF Numbered, Accepted, Quiet
<1>3. Ordered'
  <2>1. \A j \in Bufs : Unwritten(j)' => Unwritten(j)
    BY DEF Quiet, Unwritten
  <2>2. QED
    BY <1>0, <2>1 DEF Ordered, Rising, Older, Ahead, Quiet
<1>4. Kept'
  BY <1>0 DEF Kept, Has, Quiet
<1>5. QED
  BY <1>1, <1>2, <1>3, <1>4 DEF Parts

\* Every step.
LEMMA PartsKept ==
  ASSUME LoggerInv, Next
  PROVE  Parts'
<1>0. TypeOK /\ Filled
  BY DEF LoggerInv
<1>1. ASSUME NEW t \in Threads, Call(t) \/ Again(t)
      PROVE  Parts'
  <2>1. /\ UNCHANGED <<worker_idx, stop_flag, disk, io_error, wpc, left, dropped>>
        /\ (\E i \in Bufs : Printed(i)) \/ UNCHANGED <<buf, user_idx, accepted, refused>>
    BY <1>0, <1>1, LogFacts
  <2>2. ASSUME NEW i \in Bufs, Printed(i)
        PROVE  Parts'
    BY <2>1, <2>2, PrintFilled, PrintRing, PrintNumbers, PrintOrder, PrintKept DEF Parts
  <2>3. CASE UNCHANGED <<buf, user_idx, accepted, refused>>
    BY <2>1, <2>3, QuietKeeps DEF Quiet
  <2>4. QED
    BY <2>1, <2>2, <2>3
<1>2. ASSUME NEW t \in Threads, Logged(t) \/ Block(t) \/ Wake(t)
      PROVE  Quiet
  BY <1>2 DEF Quiet, Logged, Block, Wake
<1>3. CASE WorkerWake \/ FlushNothing
  BY <1>3, QuietKeeps DEF Quiet, WorkerWake, FlushNothing, Flushed
<1>4. CASE AfterFlush
  <2>1. wpc' \in {"sem_wait", "ended", "flush"}
    BY <1>0, <1>4 DEF AfterFlush, TypeOK
  <2>2. QED
    BY <1>4, <2>1, QuietKeeps DEF Quiet, AfterFlush
<1>5. CASE ChangeLogFile \/ Detach \/ PauseEnds
  BY <1>5, QuietKeeps DEF Quiet, ChangeLogFile, Detach, PauseEnds
<1>6. QED
  BY <1>1, <1>2, <1>3, <1>4, <1>5, QuietKeeps, PickKeeps, WriteKeeps, WriteErrorKeeps, ClearKeeps,
     DropKeeps DEF Next, UserStep, WorkerStep

-----------------------------------------------------------------------------
(* The last flushes. *)

\* There are no more buffers in use than there are buffers.
LEMMA InUseFacts ==
  /\ IsFiniteSet(InUseSet) /\ Cardinality(InUseSet) \in Nat /\ Cardinality(InUseSet) <= BufCnt
  /\ Cardinality(InUseSet) = 0 <=> InUseSet = {}
<1>1. IsFiniteSet(Bufs) /\ Cardinality(Bufs) = BufCnt
  <2>1. 0 \in Int /\ BufCnt - 1 \in Int /\ ~(0 > BufCnt - 1) /\ BufCnt - 1 - 0 + 1 = BufCnt
    BY LoggerAssumption
  <2>2. QED
    BY <2>1, FS_Interval DEF Bufs
<1>2. InUseSet \in SUBSET Bufs
  BY DEF InUseSet
<1>3. IsFiniteSet(InUseSet) /\ Cardinality(InUseSet) <= BufCnt
  BY <1>1, <1>2, FS_Subset
<1>4. QED
  BY <1>3, FS_CardinalityType, FS_EmptySet

\* While the logger is not stopped there is nothing to show.
LEMMA NotStopping ==
  ASSUME LoggerInv, ~stop_flag, UNCHANGED <<left, wpc>>
  PROVE  /\ left' = 0 /\ wpc' # "ended"
         /\ (stop_flag' => \A t \in Threads : pc'[t] = "out") => LastOnes'
<1>1. left \in Nat /\ left = 0 /\ wpc # "ended"
  BY DEF LoggerInv, LastOnes, TypeOK
<1>2. QED
  BY <1>1 DEF LastOnes

\* The worker's steps, one for each way of its flush.
LEMMA LastOnesKept ==
  ASSUME LoggerInv, Next
  PROVE  LastOnes'
<1> DEFINE n == Cardinality(InUseSet)
           good == io_error = "none" /\ ~refused
<1>0. /\ TypeOK /\ Filled /\ Ring /\ Kept /\ LastOnes /\ left \in Nat
      /\ stop_flag \in BOOLEAN /\ refused \in BOOLEAN
  BY DEF LoggerInv, TypeOK
<1>1. /\ stop_flag => \A t \in Threads : pc[t] = "out"
      /\ left > 0 => stop_flag /\ wpc \in {"flush", "write", "clear", "drop", "flushed"}
      /\ wpc = "ended" => stop_flag
      /\ good => /\ left > 0 => n <= IF wpc = "flushed" THEN left - 1 ELSE left
                 /\ wpc = "ended" => InUseSet = {}
  BY <1>0 DEF LastOnes
<1>2. n \in Nat /\ n <= BufCnt /\ (n = 0 <=> InUseSet = {}) /\ IsFiniteSet(InUseSet)
  BY InUseFacts
<1> HIDE DEF n
<1>3. ASSUME NEW t \in Threads, Call(t) \/ Again(t)
      PROVE  LastOnes'
  BY <1>0, <1>3, LogFacts, NotStopping
<1>4. ASSUME NEW t \in Threads, Logged(t) \/ Block(t) \/ Wake(t)
      PROVE  LastOnes'
  <2>1. pc[t] # "out" /\ UNCHANGED <<left, wpc, stop_flag>>
    BY <1>4 DEF Logged, Block, Wake
  <2>2. QED
    BY <1>1, <2>1, NotStopping
<1>5. ASSUME UNCHANGED <<stop_flag, pc>>, buf' = buf
      PROVE  /\ InUseSet' = InUseSet /\ n' = n
             /\ stop_flag' => \A t \in Threads : pc'[t] = "out"
  BY <1>1, <1>5 DEF InUseSet, Used, n
<1>6. CASE WorkerWake
  <2>1. /\ wpc = "sem_wait" /\ wpc' = "flush" /\ left' = IF stop_flag THEN BufCnt ELSE 0
        /\ UNCHANGED <<stop_flag, pc, io_error, refused, buf>>
    BY <1>6 DEF WorkerWake, LastFlushes
  <2>2. /\ stop_flag' => \A t \in Threads : pc'[t] = "out"
        /\ n' <= BufCnt
    BY <1>2, <1>5, <2>1
  <2>3. QED
    BY <2>1, <2>2 DEF LastOnes, n
<1>7. CASE FlushNothing
  <2>1. /\ wpc = "flush" /\ wpc' = "flushed" /\ left' = left
        /\ UNCHANGED <<stop_flag, pc, io_error, refused, buf>>
        /\ \A i \in Bufs : ~Used(i)
    BY <1>7 DEF FlushNothing, Flushed, Flushable, Used
  <2>2. /\ stop_flag' => \A t \in Threads : pc'[t] = "out"
        /\ n' = 0
    <3>1. InUseSet = {}
      BY <2>1 DEF InUseSet
    <3>2. QED
      BY <1>2, <1>5, <2>1, <3>1
  <2>3. left > 0 => 0 <= left - 1
    BY <1>0
  <2>4. QED
    BY <1>1, <2>1, <2>2, <2>3 DEF LastOnes, n
<1>8. CASE FlushPick
  <2>1. PICK i \in Bufs : Picked(i)
    BY <1>0, <1>8, PickFacts
  <2>2. wpc = "flush" /\ UNCHANGED <<left, stop_flag, pc, io_error, refused>>
    BY <1>8 DEF FlushPick
  <2>3. \A j \in Bufs : Used(j)' <=> Used(j)
    BY <2>1 DEF Picked, Used
  <2>4. InUseSet' = InUseSet
    BY <2>3 DEF InUseSet
  <2>5. wpc' \in {"flushed", "write"} /\ (~refused => wpc' = "write")
    BY <1>0, <2>1 DEF Picked, Filled
  <2>6. /\ stop_flag' => \A t \in Threads : pc'[t] = "out"
        /\ good' => wpc' = "write"
        /\ Cardinality(InUseSet)' = n
    BY <1>1, <2>2, <2>4, <2>5 DEF n
  <2>7. QED
    BY <1>1, <2>2, <2>5, <2>6 DEF LastOnes
<1>9. CASE Write
  <2>1. /\ wpc = "write" /\ wpc' = "clear"
        /\ UNCHANGED <<left, stop_flag, pc, io_error, refused, buf>>
    BY <1>9 DEF Write
  <2>2. QED
    BY <1>1, <1>5, <2>1 DEF LastOnes, n
<1>10. CASE WriteError
  <2>1. /\ wpc = "write" /\ wpc' = "drop" /\ io_error' # "none"
        /\ UNCHANGED <<left, stop_flag, pc>>
    BY <1>10 DEF WriteError
  <2>2. QED
    BY <1>1, <2>1 DEF LastOnes
<1>11. CASE Clear
  <2>1. /\ wpc = "clear" /\ wpc' = "flushed"
        /\ UNCHANGED <<left, stop_flag, pc, io_error, refused>>
    BY <1>11 DEF Clear, Flushed
  <2>2. worker_idx \in InUseSet
    BY <1>0, <2>1 DEF Ring, InUseSet, Used, TypeOK
  <2>3. InUseSet' = InUseSet \ {worker_idx}
    <3>1. \A j \in Bufs : Used(j)' <=> Used(j) /\ j # worker_idx
      BY <1>0, <1>11 DEF Clear, EmptyBuf, TypeOK, Used
    <3>2. QED
      BY <3>1 DEF InUseSet
  <2>4. Cardinality(InUseSet)' = n - 1
    BY <1>2, <2>2, <2>3, FS_RemoveElement DEF n
  <2>5. good /\ left > 0 => n - 1 <= left - 1
    BY <1>0, <1>1, <1>2, <2>1
  <2>6. QED
    BY <1>1, <2>1, <2>4, <2>5 DEF LastOnes
<1>12. CASE DropAll
  <2>1. /\ wpc \in {"drop", "flush"} /\ wpc' = "flushed" /\ io_error' # "none"
        /\ UNCHANGED <<left, stop_flag, pc>>
    BY <1>0, <1>12 DEF DropAll, Flushed, PauseIsOver, Kept
  <2>2. QED
    BY <1>1, <2>1 DEF LastOnes
<1>13. CASE AfterFlush
  <2>1. /\ wpc = "flushed" /\ left' = IF left = 0 THEN 0 ELSE left - 1
        /\ UNCHANGED <<stop_flag, pc, io_error, refused, buf>>
    BY <1>13 DEF AfterFlush
  <2>2. /\ left = 0 => wpc' = "sem_wait"
        /\ left = 1 => wpc' = "ended"
        /\ left # 0 /\ left # 1 => wpc' = "flush"
    BY <1>13 DEF AfterFlush
  <2>3. CASE left = 0
    BY <1>5, <2>1, <2>2, <2>3 DEF LastOnes
  <2>4. CASE left = 1
    <3>1. good => InUseSet = {}
      BY <1>1, <1>2, <2>1, <2>4
    <3>2. QED
      BY <1>1, <1>5, <2>1, <2>2, <2>4, <3>1 DEF LastOnes
  <2>5. CASE left # 0 /\ left # 1
    <3>1. left > 0 /\ (good => n <= left - 1)
      BY <1>0, <1>1, <2>1, <2>5
    <3>2. QED
      BY <1>1, <1>5, <2>1, <2>2, <2>5, <3>1 DEF LastOnes, n
  <2>6. QED
    BY <2>3, <2>4, <2>5
<1>14. CASE ChangeLogFile \/ PauseEnds
  <2>1. /\ UNCHANGED <<left, wpc, stop_flag, pc, refused, buf>>
        /\ io_error' = "none" => io_error = "none"
    BY <1>14 DEF ChangeLogFile, PauseEnds
  <2>2. QED
    BY <1>1, <1>5, <2>1 DEF LastOnes, n
<1>15. CASE Detach
  <2>1. /\ ~stop_flag /\ UNCHANGED <<left, wpc, pc>> /\ \A t \in Threads : pc[t] = "out"
    BY <1>15 DEF Detach
  <2>2. QED
    BY <2>1, NotStopping
<1>16. QED
  BY <1>3, <1>4, <1>6, <1>7, <1>8, <1>9, <1>10, <1>11, <1>12, <1>13, <1>14, <1>15
     DEF Next, UserStep, WorkerStep

-----------------------------------------------------------------------------
(* The invariant, and what follows from it. *)

\* A logger that starts has nothing in its buffers.
LEMMA InitHolds ==
  ASSUME Init
  PROVE  LoggerInv
<1>1. 0 \in Bufs /\ \A i \in Bufs : buf[i] = EmptyBuf
  BY LoggerAssumption DEF Init, Bufs
<1>2. EmptyBuf \in Buffer /\ <<>> \in Seq(Line) /\ Len(<<>>) = 0 /\ 1 .. 0 = {}
  BY DEF EmptyBuf, Buffer
<1>3. TypeOK
  BY <1>1, <1>2 DEF Init, TypeOK
<1>4. \A i \in Bufs : ~Used(i) /\ buf[i].lines = <<>> /\ buf[i].offset = 0
  BY <1>1 DEF Used, EmptyBuf
<1>5. Filled
  BY <1>4 DEF Filled
<1>6. Ring
  <2>1. Ahead(0, 0) = 0 /\ \A j \in Bufs : Ahead(0, j) \in Nat
    BY <1>1, AheadFacts
  <2>2. \A j \in Bufs : ~(0 < Ahead(0, j) /\ Ahead(0, j) < Ahead(0, 0))
    BY <2>1
  <2>3. InRow
    BY <1>4, <2>2 DEF Init, InRow
  <2>4. QED
    BY <2>3 DEF Init, Ring
<1>7. Numbered
  BY <1>2, <1>4 DEF Init, Numbered, Accepted
<1>8. Ordered
  BY <1>2, <1>4 DEF Init, Ordered, Rising, Older
<1>9. Kept
  BY <1>2 DEF Init, Kept
<1>10. LastOnes
  BY DEF Init, LastOnes
<1>11. QED
  BY <1>3, <1>5, <1>6, <1>7, <1>8, <1>9, <1>10 DEF LoggerInv

\* Every step keeps the invariant.
LEMMA NextKeeps ==
  ASSUME LoggerInv, [Next]_vars
  PROVE  LoggerInv'
<1>1. CASE Next
  BY <1>1, TypeKept, PartsKept, LastOnesKept DEF LoggerInv, Parts
<1>2. CASE UNCHANGED vars
  <2>1. TypeOK'
    BY <1>2 DEF LoggerInv, TypeOK, vars
  <2>2. Parts'
    BY <1>2, QuietKeeps DEF Quiet, vars
  <2>3. LastOnes'
    BY <1>2 DEF LoggerInv, LastOnes, InUseSet, Used, vars
  <2>4. QED
    BY <2>1, <2>2, <2>3 DEF LoggerInv, Parts
<1>3. QED
  BY <1>1, <1>2

\* The buffers in use are always those between the worker and the users, in the
\* order of the lines they hold (src/logger.c:152-172, 283-305).
THEOREM LoggerInvariance == Spec => []LoggerInv
<1>1. Init => LoggerInv
  BY InitHolds
<1>2. LoggerInv /\ [Next]_vars => LoggerInv'
  BY NextKeeps
<1>3. QED
  BY <1>1, <1>2, PTL DEF Spec

\* Whatever the threads, the worker and the errors do, the files hold lines in the
\* order in which esq_log accepted them, each once, and no line is lost but by an
\* error (src/logger.c:183-199, 214-220).
THEOREM LinesTheorem == Spec => []LinesAreKept
<1>1. LoggerInv => LinesAreKept
  <2>1. SUFFICES ASSUME LoggerInv  PROVE LinesAreKept
    OBVIOUS
  <2>2. /\ disk \in Seq(Line) /\ accepted \in Seq(Line) /\ Ordered /\ Kept
        /\ \A i \in Bufs : buf[i].lines \in Seq(Line)
    BY <2>1 DEF LoggerInv, TypeOK, Buffer
  <2>3. WrittenOnceInOrder
    BY <2>2 DEF Ordered, Rising, WrittenOnceInOrder
  <2>4. \A q \in Seq(Line) : \A l : l \in Range(q) <=> Has(q, l)
    <3>1. ASSUME NEW q \in Seq(Line)  PROVE \A l : l \in Range(q) <=> Has(q, l)
      <4>1. Range(q) = {q[a] : a \in 1 .. Len(q)}
        BY RangeEquality
      <4>2. QED
        BY <4>1 DEF Has
    <3>2. QED
      BY <3>1
  <2>5. ASSUME NEW l \in Range(accepted)
        PROVE  \/ l \in Range(disk) \/ l \in dropped
               \/ \E i \in Bufs : l \in Range(buf[i].lines)
    <3>1. PICK k \in 1 .. Len(accepted) : accepted[k] = l
      BY <2>2, <2>4 DEF Has
    <3>2. \/ Has(disk, l) \/ l \in dropped \/ \E i \in Bufs : Has(buf[i].lines, l)
      BY <2>2, <3>1 DEF Kept
    <3>3. QED
      BY <2>2, <2>4, <3>2
  <2>6. QED
    BY <2>3, <2>5 DEF LinesAreKept, NoLineVanishes
<1>2. QED
  BY <1>1, LoggerInvariance, PTL

Counting(d, m, n) ==
  /\ d \in [1 .. m -> 1 .. n]
  /\ \A a, b \in 1 .. m : a < b => d[a] < d[b]
  /\ \A k \in 1 .. n : \E a \in 1 .. m : d[a] = k

\* A rising sequence of numbers that takes every value from 1 to n counts them.
LEMMA RisingOnto ==
  ASSUME NEW m \in Nat, NEW n \in Nat, NEW d, Counting(d, m, n)
  PROVE  m = n /\ \A a \in 1 .. m : d[a] = a
<1> USE DEF Counting
<1>0. ASSUME NEW S \in SUBSET (1 .. m), NEW T, NEW f \in [S -> T], \A a \in S : f[a] = d[a]
      PROVE  f \in Injection(S, T)
  <2>1. \A a, b \in S : f[a] = f[b] => a = b
    <3>1. ASSUME NEW a \in S, NEW b \in S, f[a] = f[b]  PROVE a = b
      <4>1. a \in 1 .. m /\ b \in 1 .. m /\ d[a] = d[b] /\ d[a] \in 1 .. n /\ d[b] \in 1 .. n
        BY <1>0, <3>1
      <4>2. ~(d[a] < d[b]) /\ ~(d[b] < d[a])
        BY <4>1
      <4>3. ~(a < b) /\ ~(b < a)
        BY <4>1, <4>2
      <4>4. QED
        BY <4>1, <4>3
    <3>2. QED
      BY <3>1
  <2>2. QED
    BY <2>1, Fun_IsInj
<1>1. m = n
  <2>1. d \in Injection(1 .. m, 1 .. n)
    BY <1>0
  <2>2. d \in Surjection(1 .. m, 1 .. n)
    BY Fun_IsSurj
  <2>3. Cardinality(1 .. m) = Cardinality(1 .. n)
    BY <2>1, <2>2, FS_Injection, FS_Interval
  <2>4. Cardinality(1 .. m) = m /\ Cardinality(1 .. n) = n
    BY FS_Interval
  <2>5. QED
    BY <2>3, <2>4
<1>2. ASSUME NEW a \in 1 .. m
      PROVE  a <= d[a]
  <2> DEFINE f == [b \in 1 .. a |-> d[b]]
  <2>0. a \in Int /\ d[a] \in 1 .. n /\ d[a] \in Int /\ 1 .. a \in SUBSET (1 .. m) /\ a >= 1
    OBVIOUS
  <2>1. f \in [1 .. a -> 1 .. d[a]]
    <3>1. ASSUME NEW b \in 1 .. a  PROVE d[b] \in 1 .. d[a]
      <4>1. b \in 1 .. m /\ d[b] \in 1 .. n /\ (b < a \/ b = a)
        BY <2>0
      <4>2. d[b] < d[a] \/ d[b] = d[a]
        BY <4>1
      <4>3. QED
        BY <2>0, <4>1, <4>2
    <3>2. QED
      BY <3>1
  <2>2. f \in Injection(1 .. a, 1 .. d[a])
    BY <1>0, <2>0, <2>1
  <2>3. Cardinality(1 .. a) <= Cardinality(1 .. d[a])
    BY <2>0, <2>2, FS_Injection, FS_Interval
  <2>4. Cardinality(1 .. a) = a /\ Cardinality(1 .. d[a]) = d[a]
    BY <2>0, FS_Interval
  <2>5. QED
    BY <2>3, <2>4
<1>3. ASSUME NEW a \in 1 .. m
      PROVE  d[a] <= a
  <2> DEFINE f == [b \in a .. m |-> d[b]]
  <2>0. /\ a \in Int /\ d[a] \in 1 .. n /\ d[a] \in Int /\ a .. m \in SUBSET (1 .. m) /\ a <= m
        /\ d[a] <= n
    OBVIOUS
  <2>1. f \in [a .. m -> d[a] .. n]
    <3>1. ASSUME NEW b \in a .. m  PROVE d[b] \in d[a] .. n
      <4>1. b \in 1 .. m /\ d[b] \in 1 .. n /\ (a < b \/ b = a)
        BY <2>0
      <4>2. d[a] < d[b] \/ d[b] = d[a]
        BY <4>1
      <4>3. QED
        BY <2>0, <4>1, <4>2
    <3>2. QED
      BY <3>1
  <2>2. f \in Injection(a .. m, d[a] .. n)
    BY <1>0, <2>0, <2>1
  <2>3. Cardinality(a .. m) <= Cardinality(d[a] .. n)
    BY <2>0, <2>2, FS_Injection, FS_Interval
  <2>4. Cardinality(a .. m) = m - a + 1 /\ Cardinality(d[a] .. n) = n - d[a] + 1
    BY <2>0, FS_Interval
  <2>5. QED
    BY <1>1, <2>0, <2>3, <2>4
<1>4. ASSUME NEW a \in 1 .. m
      PROVE  d[a] = a
  <2>1. d[a] \in Int /\ a \in Int
    OBVIOUS
  <2>2. QED
    BY <1>2, <1>3, <2>1
<1>5. QED
  BY <1>1, <1>4

\* When the worker has ended after neither an error nor a refused call, the files
\* hold exactly the accepted lines: BufCnt flushes are enough to empty the buffers
\* whatever was in them (src/logger.c:310-317).
THEOREM EndTheorem == Spec => []AllWrittenAtEnd
<1>1. LoggerInv => AllWrittenAtEnd
  <2>1. SUFFICES ASSUME LoggerInv, wpc = "ended", io_error = "none", ~refused
                 PROVE  disk = accepted
    BY DEF AllWrittenAtEnd
  <2>2. /\ disk \in Seq(Line) /\ accepted \in Seq(Line)
        /\ Filled /\ Numbered /\ Ordered /\ Kept /\ LastOnes
        /\ Len(disk) \in Nat /\ Len(accepted) \in Nat
    BY <2>1 DEF LoggerInv, TypeOK
  <2>3. InUseSet = {} /\ dropped = {}
    BY <2>1, <2>2 DEF LastOnes, Kept
  <2>4. \A i \in Bufs : buf[i].lines = <<>>
    BY <2>2, <2>3 DEF InUseSet, Filled
  <2>5. \A k \in 1 .. Len(accepted) : Has(disk, accepted[k])
    <3>1. \A i \in Bufs : \A l : ~Has(buf[i].lines, l)
      BY <2>4 DEF Has
    <3>2. QED
      BY <2>2, <2>3, <3>1 DEF Kept
  <2> DEFINE d == [a \in 1 .. Len(disk) |-> disk[a].id]
  <2>6. d \in [1 .. Len(disk) -> 1 .. Len(accepted)]
    <3>1. \A a \in 1 .. Len(disk) : disk[a].id \in 1 .. Len(accepted)
      BY <2>2 DEF Numbered, Accepted
    <3>2. QED
      BY <3>1
  <2>7. \A a, b \in 1 .. Len(disk) : a < b => d[a] < d[b]
    BY <2>2 DEF Ordered, Rising
  <2>8. \A k \in 1 .. Len(accepted) : \E a \in 1 .. Len(disk) : d[a] = k
    <3>1. ASSUME NEW k \in 1 .. Len(accepted)
          PROVE  \E a \in 1 .. Len(disk) : d[a] = k
      <4>1. PICK a \in 1 .. Len(disk) : disk[a] = accepted[k]
        BY <2>5 DEF Has
      <4>2. accepted[k].id = k
        BY <2>2 DEF Numbered
      <4>3. QED
        BY <4>1, <4>2
    <3>2. QED
      BY <3>1
  <2>9. \A a \in 1 .. Len(disk) : disk[a] = accepted[d[a]]
    BY <2>2 DEF Numbered, Accepted
  <2> HIDE DEF d
  <2>10. Len(disk) = Len(accepted) /\ \A a \in 1 .. Len(disk) : d[a] = a
    <3>1. Counting(d, Len(disk), Len(accepted))
      BY <2>6, <2>7, <2>8 DEF Counting
    <3>2. QED
      BY <2>2, <3>1, RisingOnto
  <2>11. \A a \in 1 .. Len(disk) : disk[a] = accepted[a]
    BY <2>9, <2>10
  <2>12. QED
    BY <2>2, <2>10, <2>11, SeqEqual
<1>2. QED
  BY <1>1, LoggerInvariance, PTL
=============================================================================
