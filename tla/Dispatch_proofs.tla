--------------------------- MODULE Dispatch_proofs ---------------------------
(***************************************************************************)
(* For any number of processors and sessions: signals neither stop the     *)
(* server nor make its start give up early, the list of contexts and the   *)
(* pointer of the round robin hold living threads only, a stop leaves      *)
(* nothing behind, and a posted session is neglected only by the race.     *)
(***************************************************************************)
EXTENDS Dispatch, SequenceTheorems, FiniteSetTheorems, TLAPS

(* Where threads and sessions can be. *)
WPC == {"none", "start", "handler", "listed", "ready", "dead", "opened", "loop", "posted",
        "notified", "purposed", "chat", "picking", "looked", "waiting", "after", "leaving",
        "left", "gone"}
MPC == {"begin", "create", "nothreads", "handlers", "notify", "open", "sleep8", "check8",
        "failed", "configure", "posted", "sleep100", "check100", "stopping", "count", "sleep1",
        "over"}
SPC == {"unborn", "new", "asleep", "active", "over"}

\* The worker has no context in the list: not yet, or no more.
NotYet == {"none", "start", "handler"}
NoMore == {"left", "gone"}

\* The worker has sent no signal to the master yet, and never will if its
\* thread died.
Silent == NotYet \cup {"listed", "ready", "opened", "dead"}

\* The worker is in its loop, where it may hold sessions.
InLoop == {"loop", "posted", "notified", "purposed", "chat", "picking", "looked", "waiting",
           "after"}

\* The worker looks at the list of new sessions before it waits.
Looking == {"ready", "opened"} \cup (InLoop \ {"looked", "waiting"})

\* The master is in esq_start_worker_threads.
Early == {"begin", "create", "nothreads", "handlers", "notify", "open", "sleep8", "check8",
          "failed"}

-----------------------------------------------------------------------------
(* The inductive invariant. *)

TypeOK ==
  /\ list \in Seq(Workers) /\ rr \in Workers \cup {NoWorker} /\ new \in Seq(Sessions)
  /\ stop \in BOOLEAN /\ usr1 \in {"default", "stop", "dummy"}
  /\ wpc \in [Workers -> WPC] /\ wpend \subseteq Workers /\ wflag \subseteq Workers
  /\ mpc \in MPC /\ mmask \in BOOLEAN /\ mpend \subseteq {"usr1", "term"}
  /\ tries \in Nat /\ full \in Nat
  /\ ss \in [Sessions -> SPC] /\ at \in [Sessions -> Workers \cup {NoWorker}]
  /\ told \subseteq Sessions
  /\ asked \in BOOLEAN /\ late \subseteq Sessions /\ missed \subseteq Workers

\* The list holds each context once, and those of the threads that are
\* between esq_worker_ctx_init and esq_worker_ctx_detach.
Distinct(q) == \A i, j \in 1 .. Len(q) : q[i] = q[j] => i = j
In(x, q) == \E i \in 1 .. Len(q) : q[i] = x

Contexts ==
  /\ Distinct(list)
  /\ \A w \in Workers : In(w, list) <=> wpc[w] \notin NotYet \cup NoMore
  /\ rr # NoWorker => In(rr, list)

\* A new session is in the global list, one that is under way has a worker,
\* and that worker is in its loop.
Placed ==
  /\ Distinct(new)
  /\ \A s \in Sessions : ss[s] = "new" <=> In(s, new)
  /\ \A s \in Sessions : at[s] = NoWorker <=> ss[s] \in {"unborn", "new", "over"}
  /\ \A s \in Sessions : at[s] # NoWorker => wpc[at[s]] \in InLoop

\* While the master waits for the workers there is nothing to do for them.
QuietStart == mpc \in Early =>
  /\ \A s \in Sessions : ss[s] = "unborn"
  /\ wpend = {}
  /\ \A w \in Workers : wpc[w] \notin {"posted", "notified", "purposed", "chat", "picking"}

\* The stop flag, and the signals that could set it.
Signals ==
  /\ usr1 = "stop" => mpc = "notify"
  /\ mmask <=> mpc \in {"create", "nothreads", "handlers", "notify", "open"}
  /\ "term" \in mpend => asked
  /\ stop => asked
  /\ ~stop => \A w \in Workers : wpc[w] \notin {"leaving", "left", "gone"}

\* A sleep of eight seconds that did not run its time was cut short by a
\* worker that had not signalled before.
Told == {w \in Workers : wpc[w] \notin Silent}
Counted ==
  /\ ~asked /\ mpc \in Early =>
       tries + (IF mpc = "check8" THEN 1 ELSE 0) <= full + Cardinality(Told)
  /\ mpc = "failed" => tries >= Patience

\* The master leaves esq_start_worker_threads when every worker has joined,
\* and main() returns when every worker has left.
Joining ==
  /\ mpc \notin Early => \A w \in Workers : wpc[w] \notin NotYet
  /\ mpc = "over" => list = <<>>

\* Somebody is left to pick up what was posted in time.
LeavesLast == \A s \in Sessions :
  In(s, new) /\ s \notin late => \E w \in Workers : wpc[w] \notin {"leaving", "left", "gone"}

\* Somebody will look at the list of new sessions, or a signal was missed.
Noticed(w) == wpc[w] \in Looking \/ (wpc[w] = "listed" /\ w \in wpend)
WillLook == ~stop /\ new # <<>> /\ mpc # "posted" =>
  missed # {} \/ \E w \in Workers : Noticed(w)

DispatchInv ==
  /\ TypeOK /\ Contexts /\ Placed /\ QuietStart /\ Signals /\ Counted /\ Joining
  /\ LeavesLast /\ WillLook

-----------------------------------------------------------------------------
(* Lists without duplicates. *)

\* Taking one place out of a list takes out what stood there, and that only.
LEMMA RemoveFacts ==
  ASSUME NEW S, NEW q \in Seq(S), Distinct(q), NEW i \in 1 .. Len(q)
  PROVE  /\ RemoveAt(q, i) \in Seq(S)
         /\ Distinct(RemoveAt(q, i))
         /\ \A x : In(x, RemoveAt(q, i)) <=> In(x, q) /\ x # q[i]
<1> DEFINE a == SubSeq(q, 1, i - 1)
           b == SubSeq(q, i + 1, Len(q))
           r == RemoveAt(q, i)
<1>1. /\ a \in Seq(S) /\ Len(a) = i - 1
      /\ \A k \in 1 .. i - 1 : a[k] = q[k]
  <2>1. 1 \in Int /\ i - 1 \in Int /\ \A k \in 1 .. i - 1 : q[k] \in S
    OBVIOUS
  <2>2. /\ SubSeq(q, 1, i - 1) \in Seq(S)
        /\ Len(SubSeq(q, 1, i - 1)) = IF 1 <= i - 1 THEN i - 1 - 1 + 1 ELSE 0
        /\ \A k \in 1 .. i - 1 - 1 + 1 : SubSeq(q, 1, i - 1)[k] = q[1 + k - 1]
    BY <2>1, SubSeqProperties
  <2>3. QED
    BY <2>2
<1>2. /\ b \in Seq(S) /\ Len(b) = Len(q) - i
      /\ \A k \in 1 .. Len(q) - i : b[k] = q[i + k]
  <2>1. i + 1 \in Int /\ Len(q) \in Int /\ \A k \in i + 1 .. Len(q) : q[k] \in S
    OBVIOUS
  <2>2. /\ SubSeq(q, i + 1, Len(q)) \in Seq(S)
        /\ Len(SubSeq(q, i + 1, Len(q))) = IF i + 1 <= Len(q) THEN Len(q) - (i + 1) + 1 ELSE 0
        /\ \A k \in 1 .. Len(q) - (i + 1) + 1 : SubSeq(q, i + 1, Len(q))[k] = q[i + 1 + k - 1]
    BY <2>1, SubSeqProperties
  <2>3. QED
    BY <2>2
<1>3. r = a \o b
  BY DEF RemoveAt
<1> HIDE DEF a, b, r
<1>4. /\ r \in Seq(S) /\ Len(r) = Len(q) - 1
      /\ \A k \in 1 .. Len(q) - 1 : r[k] = IF k < i THEN q[k] ELSE q[k + 1]
  <2>1. /\ a \o b \in Seq(S) /\ Len(a \o b) = Len(a) + Len(b)
        /\ \A k \in 1 .. Len(a) + Len(b) :
             (a \o b)[k] = IF k <= Len(a) THEN a[k] ELSE b[k - Len(a)]
    BY <1>1, <1>2, ConcatProperties
  <2>2. QED
    BY <1>1, <1>2, <1>3, <2>1
<1>5. Distinct(r)
  BY <1>4 DEF Distinct
<1>6. ASSUME NEW x
      PROVE  In(x, r) <=> In(x, q) /\ x # q[i]
  <2>1. ASSUME In(x, r)  PROVE In(x, q) /\ x # q[i]
    BY <1>4, <2>1 DEF In, Distinct
  <2>2. ASSUME In(x, q), x # q[i]  PROVE In(x, r)
    <3>1. PICK k \in 1 .. Len(q) : q[k] = x
      BY <2>2 DEF In
    <3>2. CASE k < i
      <4>1. k \in 1 .. Len(r) /\ r[k] = x
        BY <1>4, <3>1, <3>2
      <4>2. QED
        BY <4>1 DEF In
    <3>3. CASE k > i
      <4>1. k - 1 \in 1 .. Len(r) /\ r[k - 1] = x
        BY <1>4, <3>1, <3>3
      <4>2. QED
        BY <4>1 DEF In
    <3>4. QED
      BY <2>2, <3>1, <3>2, <3>3
  <2>3. QED
    BY <2>1, <2>2
<1>7. QED
  BY <1>4, <1>5, <1>6 DEF r

\* A list gets one member more at its head ...
LEMMA ConsFacts ==
  ASSUME NEW S, NEW q \in Seq(S), Distinct(q), NEW x \in S, ~In(x, q)
  PROVE  /\ <<x>> \o q \in Seq(S)
         /\ Distinct(<<x>> \o q)
         /\ \A y : In(y, <<x>> \o q) <=> In(y, q) \/ y = x
<1> DEFINE r == <<x>> \o q
<1>1. /\ r \in Seq(S) /\ Len(r) = Len(q) + 1 /\ r[1] = x
      /\ \A k \in 2 .. Len(r) : r[k] = q[k - 1]
  <2>1. <<x>> \in Seq(S) /\ Len(<<x>>) = 1 /\ <<x>>[1] = x
    OBVIOUS
  <2>2. /\ r \in Seq(S) /\ Len(r) = Len(<<x>>) + Len(q)
        /\ \A k \in 1 .. Len(<<x>>) + Len(q) :
             r[k] = IF k <= Len(<<x>>) THEN <<x>>[k] ELSE q[k - Len(<<x>>)]
    BY <2>1, ConcatProperties
  <2>3. QED
    BY <2>1, <2>2
<1> HIDE DEF r
<1>2. Distinct(r)
  <2> SUFFICES ASSUME NEW i \in 1 .. Len(r), NEW j \in 1 .. Len(r), r[i] = r[j], i # j
               PROVE  FALSE
    BY DEF Distinct
  <2>1. CASE i = 1
    BY <1>1, <2>1 DEF In
  <2>2. CASE j = 1
    BY <1>1, <2>2 DEF In
  <2>3. CASE i # 1 /\ j # 1
    BY <1>1, <2>3 DEF Distinct
  <2>4. QED
    BY <2>1, <2>2, <2>3
<1>3. ASSUME NEW y
      PROVE  In(y, r) <=> In(y, q) \/ y = x
  <2>1. ASSUME In(y, r), y # x  PROVE In(y, q)
    <3>1. PICK k \in 1 .. Len(r) : r[k] = y
      BY <2>1 DEF In
    <3>2. k - 1 \in 1 .. Len(q) /\ q[k - 1] = y
      BY <1>1, <2>1, <3>1
    <3>3. QED
      BY <3>2 DEF In
  <2>2. ASSUME In(y, q)  PROVE In(y, r)
    <3>1. PICK k \in 1 .. Len(q) : q[k] = y
      BY <2>2 DEF In
    <3>2. k + 1 \in 1 .. Len(r) /\ r[k + 1] = y
      BY <1>1, <3>1
    <3>3. QED
      BY <3>2 DEF In
  <2>3. ASSUME y = x  PROVE In(y, r)
    <3>1. 1 \in 1 .. Len(r) /\ r[1] = y
      BY <1>1, <2>3
    <3>2. QED
      BY <3>1 DEF In
  <2>4. QED
    BY <2>1, <2>2, <2>3
<1>4. QED
  BY <1>1, <1>2, <1>3 DEF r

\* ... or at its end ...
LEMMA AppendFacts ==
  ASSUME NEW S, NEW q \in Seq(S), Distinct(q), NEW x \in S, ~In(x, q)
  PROVE  /\ Append(q, x) \in Seq(S)
         /\ Distinct(Append(q, x))
         /\ \A y : In(y, Append(q, x)) <=> In(y, q) \/ y = x
<1> DEFINE r == Append(q, x)
<1>1. /\ r \in Seq(S) /\ Len(r) = Len(q) + 1 /\ r[Len(r)] = x
      /\ \A k \in 1 .. Len(q) : r[k] = q[k]
  BY AppendProperties
<1> HIDE DEF r
<1>2. Distinct(r)
  <2> SUFFICES ASSUME NEW i \in 1 .. Len(r), NEW j \in 1 .. Len(r), r[i] = r[j], i # j
               PROVE  FALSE
    BY DEF Distinct
  <2>1. CASE i = Len(r)
    BY <1>1, <2>1 DEF In
  <2>2. CASE j = Len(r)
    BY <1>1, <2>2 DEF In
  <2>3. CASE i # Len(r) /\ j # Len(r)
    BY <1>1, <2>3 DEF Distinct
  <2>4. QED
    BY <2>1, <2>2, <2>3
<1>3. ASSUME NEW y
      PROVE  In(y, r) <=> In(y, q) \/ y = x
  <2>1. ASSUME In(y, r), y # x  PROVE In(y, q)
    BY <1>1, <2>1 DEF In
  <2>2. ASSUME In(y, q)  PROVE In(y, r)
    BY <1>1, <2>2 DEF In
  <2>3. ASSUME y = x  PROVE In(y, r)
    <3>1. Len(r) \in 1 .. Len(r)
      BY <1>1
    <3>2. QED
      BY <1>1, <2>3, <3>1 DEF In
  <2>4. QED
    BY <2>1, <2>2, <2>3
<1>4. QED
  BY <1>1, <1>2, <1>3 DEF r

\* ... and loses its head.
LEMMA TailFacts ==
  ASSUME NEW S, NEW q \in Seq(S), Distinct(q), q # <<>>
  PROVE  /\ Tail(q) \in Seq(S) /\ Head(q) \in S /\ In(Head(q), q)
         /\ Distinct(Tail(q))
         /\ \A y : In(y, Tail(q)) <=> In(y, q) /\ y # Head(q)
<1> DEFINE r == Tail(q)
<1>1. /\ r \in Seq(S) /\ Len(r) = Len(q) - 1 /\ Len(q) \in Nat \ {0} /\ q[1] = Head(q)
      /\ \A k \in 1 .. Len(r) : r[k] = q[k + 1]
      /\ Head(q) \in S
  BY HeadTailProperties
<1> HIDE DEF r
<1>2. Distinct(r)
  BY <1>1 DEF Distinct
<1>3. In(Head(q), q)
  <2>1. 1 \in 1 .. Len(q)
    BY <1>1
  <2>2. QED
    BY <1>1, <2>1 DEF In
<1>4. ASSUME NEW y
      PROVE  In(y, r) <=> In(y, q) /\ y # Head(q)
  <2>1. ASSUME In(y, r)  PROVE In(y, q) /\ y # Head(q)
    <3>1. PICK k \in 1 .. Len(r) : r[k] = y
      BY <2>1 DEF In
    <3>2. k + 1 \in 1 .. Len(q) /\ q[k + 1] = y /\ 1 \in 1 .. Len(q) /\ k + 1 # 1
      BY <1>1, <3>1
    <3>3. QED
      BY <1>1, <3>2 DEF In, Distinct
  <2>2. ASSUME In(y, q), y # Head(q)  PROVE In(y, r)
    <3>1. PICK k \in 1 .. Len(q) : q[k] = y
      BY <2>2 DEF In
    <3>2. k - 1 \in 1 .. Len(r) /\ r[k - 1] = y
      BY <1>1, <2>2, <3>1
    <3>3. QED
      BY <3>2 DEF In
  <2>3. QED
    BY <2>1, <2>2
<1>5. QED
  BY <1>1, <1>2, <1>3, <1>4 DEF r

\* The members of a list.
LEMMA RangeFacts ==
  ASSUME NEW S, NEW q \in Seq(S)
  PROVE  /\ Range(q) \subseteq S
         /\ \A x : x \in Range(q) <=> In(x, q)
  BY RangeEquality, RangeOfSeq DEF In

\* A list without duplicates that has as many members as a finite set has
\* them all.
LEMMA FullList ==
  ASSUME NEW S, IsFiniteSet(S), NEW q \in Seq(S), Distinct(q), Len(q) = Cardinality(S)
  PROVE  \A x \in S : In(x, q)
<1> DEFINE D == 1 .. Len(q)
<1>1. q \in [D -> S] /\ Len(q) \in Nat
  OBVIOUS
<1>2. q \in Injection(D, S)
  BY <1>1 DEF Injection, IsInjective, Distinct
<1>3. IsFiniteSet(D) /\ Cardinality(D) = Len(q)
  <2>1. 1 \in Int /\ Len(q) \in Int
    BY <1>1
  <2>2. Cardinality(D) = IF 1 > Len(q) THEN 0 ELSE Len(q) - 1 + 1
    BY <2>1, FS_Interval
  <2>3. QED
    BY <1>1, <2>1, <2>2, FS_Interval
<1>4. q \in Surjection(D, S)
  BY <1>2, <1>3, FS_Injection
<1>5. QED
  BY <1>4 DEF Surjection, In

-----------------------------------------------------------------------------
(* Signals. *)

\* What pthread_kill(.., SIGUSR1) does to the threads it reaches: it ends a
\* wait or a blocking read, and changes the place of no other thread.
LEMMA KillFacts ==
  ASSUME TypeOK, NEW K \in SUBSET Workers, NEW w \in Workers \cup {NoWorker}, NEW pc \in WPC,
         Kill(K, w, pc)
  PROVE  /\ wpc' \in [Workers -> WPC]
         /\ wpend' \subseteq Workers /\ missed' \subseteq Workers /\ stop' \in BOOLEAN
         /\ \A v \in Workers : v = w => wpc'[v] = pc
         /\ \A v \in Workers \ {w} :
              \/ wpc'[v] = wpc[v] /\ (v \in K => wpc[v] \notin {"waiting", "chat"})
              \/ v \in K /\ wpc[v] = "waiting" /\ wpc'[v] = "after"
              \/ v \in K /\ wpc[v] = "chat" /\ wpc'[v] = "loop"
<1>1. \A v \in Workers : Interrupted(wpc[v]) \in WPC
  BY DEF TypeOK, Interrupted, WPC
<1>2. wpc' \in [Workers -> WPC]
  BY <1>1 DEF Kill, TypeOK
<1>3. wpend' \subseteq Workers /\ missed' \subseteq Workers /\ stop' \in BOOLEAN
  BY DEF Kill, TypeOK
<1>4. \A v \in Workers : v = w => wpc'[v] = pc
  BY DEF Kill
<1>5. ASSUME NEW v \in Workers \ {w}
      PROVE  \/ wpc'[v] = wpc[v] /\ (v \in K => wpc[v] \notin {"waiting", "chat"})
             \/ v \in K /\ wpc[v] = "waiting" /\ wpc'[v] = "after"
             \/ v \in K /\ wpc[v] = "chat" /\ wpc'[v] = "loop"
  BY DEF Kill, Interrupted
<1>6. QED
  BY <1>2, <1>3, <1>4, <1>5

\* The place of a context that is in the list.
LEMMA PlaceFacts ==
  ASSUME NEW w, In(w, list)
  PROVE  Place(w) \in 1 .. Len(list) /\ list[Place(w)] = w
  BY DEF In, Place

\* esq_wake_up_worker_thread_rr signals a context of the list, if there is
\* one, and leaves the pointer at NULL or at another one.
LEMMA WakeRrFacts ==
  ASSUME TypeOK, Contexts, NEW w, NEW pc, WakeRr(w, pc)
  PROVE  /\ \E K \in SUBSET Workers :
              Kill(K, w, pc) /\ (\A v \in K : In(v, list)) /\ (list # <<>> => K # {})
         /\ rr' \in Workers \cup {NoWorker}
         /\ rr' # NoWorker => In(rr', list)
<1> DEFINE t == RrTarget
<1>1. list \in Seq(Workers) /\ Len(list) \in Nat /\ NoWorker \notin Workers
  BY WorkersAssumption DEF TypeOK
<1>2. CASE t = NoWorker
  <2>1. list = <<>>
    BY <1>1, <1>2, HeadTailProperties DEF RrTarget, TypeOK
  <2>2. Kill({}, w, pc) /\ rr' = NoWorker
    <3>1. {t} \ {NoWorker} = {}
      BY <1>2
    <3>2. QED
      BY <1>2, <3>1 DEF WakeRr
  <2>3. QED
    BY <2>1, <2>2
<1>3. CASE t # NoWorker
  <2>1. In(t, list)
    <3>1. CASE rr = NoWorker
      <4>1. list # <<>> /\ t = Head(list)
        BY <1>3, <3>1 DEF RrTarget
      <4>2. QED
        BY <1>1, <4>1, TailFacts DEF Contexts
    <3>2. CASE rr # NoWorker
      BY <3>2 DEF RrTarget, Contexts
    <3>3. QED
      BY <3>1, <3>2
  <2>2. t \in Workers
    BY <1>1, <2>1 DEF In
  <2>3. Kill({t}, w, pc) /\ rr' = NextOf(t)
    <3>1. {t} \ {NoWorker} = {t}
      BY <1>3
    <3>2. QED
      BY <1>3, <3>1 DEF WakeRr
  <2>4. NextOf(t) \in Workers \cup {NoWorker} /\ (NextOf(t) # NoWorker => In(NextOf(t), list))
    <3>1. Place(t) \in 1 .. Len(list)
      BY <2>1, PlaceFacts
    <3>2. CASE Place(t) = Len(list)
      BY <3>2 DEF NextOf
    <3>3. CASE Place(t) # Len(list)
      <4>1. NextOf(t) = list[Place(t) + 1]
        BY <3>3 DEF NextOf
      <4>2. Place(t) + 1 \in 1 .. Len(list)
        BY <1>1, <3>1, <3>3
      <4>3. QED
        BY <1>1, <4>1, <4>2 DEF In
    <3>4. QED
      BY <3>2, <3>3
  <2> HIDE DEF t
  <2>5. QED
    BY <2>1, <2>2, <2>3, <2>4
<1>4. QED
  BY <1>2, <1>3

\* esq_wake_up_master_thread ends the sleep the master is in, and sets the
\* stop flag only through a signal that is bound to it.
LEMMA SignalMasterFacts ==
  ASSUME TypeOK, NEW sig \in {"usr1", "term"}, SignalMaster(sig)
  PROVE  /\ mpc' \in MPC /\ stop' \in BOOLEAN /\ mpend' \subseteq {"usr1", "term"}
         /\ \/ mpc' = mpc
            \/ ~mmask /\ mpc = "sleep8" /\ mpc' = "check8"
            \/ ~mmask /\ mpc = "sleep100" /\ mpc' = "check100"
            \/ ~mmask /\ mpc = "sleep1" /\ mpc' = "stopping"
         /\ stop => stop'
         /\ sig = "usr1" /\ ~(~mmask /\ usr1 = "stop") => stop' = stop
         /\ sig = "usr1" => ("term" \in mpend' => "term" \in mpend)
<1>1. CASE mmask
  <2>1. mpend' = mpend \cup {sig} /\ mpc' = mpc /\ stop' = stop
    BY <1>1 DEF SignalMaster
  <2>2. mpc \in MPC /\ stop \in BOOLEAN /\ mpend \subseteq {"usr1", "term"}
    BY DEF TypeOK
  <2>3. sig = "usr1" => ("term" \in mpend' => "term" \in mpend)
    BY <2>1
  <2>4. QED
    BY <2>1, <2>2, <2>3
<1>2. CASE ~mmask
  <2>1. /\ mpc' = IF mpc \in DOMAIN AfterSleep THEN AfterSleep[mpc] ELSE mpc
        /\ stop' = (stop \/ sig = "term" \/ usr1 = "stop")
        /\ mpend' = mpend
    BY <1>2 DEF SignalMaster
  <2>2. \/ mpc' = mpc
        \/ mpc = "sleep8" /\ mpc' = "check8"
        \/ mpc = "sleep100" /\ mpc' = "check100"
        \/ mpc = "sleep1" /\ mpc' = "stopping"
    BY <2>1 DEF AfterSleep
  <2>3. mpc' \in MPC
    BY <2>2 DEF MPC, TypeOK
  <2>4. QED
    BY <1>2, <2>1, <2>2, <2>3 DEF TypeOK
<1>3. QED
  BY <1>1, <1>2

-----------------------------------------------------------------------------
(* The inductive invariant is kept, part by part. *)

\* Of the functions that an action updates in one place.
LEMMA GotoFacts ==
  ASSUME TypeOK, NEW w \in Workers, NEW from, NEW to \in WPC, Goto(w, from, to)
  PROVE  /\ wpc' \in [Workers -> WPC] /\ wpc[w] = from /\ wpc'[w] = to
         /\ \A v \in Workers \ {w} : wpc'[v] = wpc[v]
  BY DEF TypeOK, Goto

\* The session the program makes next.
LEMMA FreshFacts ==
  ASSUME Unborn # {}
  PROVE  Fresh \in Sessions /\ ss[Fresh] = "unborn"
  BY DEF Unborn, Fresh

\* The steps of the master keep the types ...
LEMMA TypeMaster ==
  ASSUME DispatchInv, MasterStep \/ Interrupt \/ MasterPosts
  PROVE  TypeOK'
<1> USE DEF shared, signals, sessions, history
<1>0. TypeOK /\ Contexts /\ Placed
  BY DEF DispatchInv
<1>1. CASE MaskSignals
  BY <1>0, <1>1 DEF TypeOK, MaskSignals, MasterMask, MPC
<1>2. CASE CreateWorker
  <2>1. wpc' \in [Workers -> WPC]
    BY <1>0, <1>2 DEF TypeOK, CreateWorker, WPC
  <2>2. QED
    BY <1>0, <1>2, <2>1 DEF TypeOK, CreateWorker, MPC
<1>3. CASE BindStop \/ BindNotify
  BY <1>0, <1>3 DEF TypeOK, BindStop, BindNotify, MPC
<1>4. CASE OpenSignals
  BY <1>0, <1>4 DEF TypeOK, OpenSignals, MPC
<1>5. CASE SleepEnds
  <2>1. mpc' \in MPC
    BY <1>5 DEF SleepEnds, AfterSleep, MPC
  <2>2. QED
    BY <1>0, <1>5, <2>1 DEF TypeOK, SleepEnds
<1>6. CASE CountStarted
  BY <1>0, <1>6 DEF TypeOK, CountStarted, MPC
<1>7. CASE MasterWakes
  <2>1. PICK K \in SUBSET Workers : Kill(K, NoWorker, "none")
    BY <1>0, <1>7, WakeRrFacts DEF MasterWakes
  <2>2. "none" \in WPC
    BY DEF WPC
  <2>3. /\ wpc' \in [Workers -> WPC] /\ wpend' \subseteq Workers /\ missed' \subseteq Workers
        /\ stop' \in BOOLEAN
    BY <1>0, <2>1, <2>2, KillFacts
  <2>4. rr' \in Workers \cup {NoWorker}
    BY <1>0, <1>7, WakeRrFacts DEF MasterWakes
  <2>5. QED
    BY <1>0, <1>7, <2>3, <2>4 DEF TypeOK, MasterWakes, MPC
<1>8. CASE WakeToStop
  <2>1. Kill(Range(list), NoWorker, "none") /\ Range(list) \in SUBSET Workers
    BY <1>0, <1>8, RangeFacts DEF WakeToStop, WakeAll, TypeOK
  <2>2. "none" \in WPC
    BY DEF WPC
  <2>3. /\ wpc' \in [Workers -> WPC] /\ wpend' \subseteq Workers /\ missed' \subseteq Workers
        /\ stop' \in BOOLEAN
    BY <1>0, <2>1, <2>2, KillFacts
  <2>4. QED
    BY <1>0, <1>8, <2>3 DEF TypeOK, WakeToStop, MPC
<1>9. CASE Configured \/ LookAtStop \/ CountLeft
  BY <1>0, <1>9 DEF TypeOK, Configured, LookAtStop, CountLeft, MPC
<1>10. CASE Interrupt
  <2>1. mpc' \in MPC /\ stop' \in BOOLEAN /\ mpend' \subseteq {"usr1", "term"}
    BY <1>0, <1>10, SignalMasterFacts DEF Interrupt
  <2>2. QED
    BY <1>0, <1>10, <2>1 DEF TypeOK, Interrupt
<1>11. CASE MasterPosts
  <2>1. Fresh \in Sessions /\ ss[Fresh] = "unborn"
    BY <1>11, FreshFacts DEF MasterPosts
  <2>2. new' \in Seq(Sessions)
    BY <1>0, <1>11, <2>1 DEF TypeOK, MasterPosts, Joined
  <2>3. ss' \in [Sessions -> SPC] /\ late' \subseteq Sessions
    BY <1>0, <1>11, <2>1 DEF TypeOK, MasterPosts, SPC
  <2>4. QED
    BY <1>0, <1>11, <2>2, <2>3 DEF TypeOK, MasterPosts, MPC
<1>12. QED
  BY <1>1, <1>2, <1>3, <1>4, <1>5, <1>6, <1>7, <1>8, <1>9, <1>10, <1>11 DEF MasterStep

\* ... and so do the steps of a worker.
LEMMA TypeWorker ==
  ASSUME DispatchInv, NEW w \in Workers, WorkerStep(w) \/ WorkerChoice(w)
  PROVE  TypeOK'
<1> USE DEF shared, signals, sessions, history
<1>0. TypeOK /\ Contexts /\ Placed
  BY DEF DispatchInv
<1>1. CASE InstallNotify(w)
  BY <1>0, <1>1 DEF TypeOK, InstallNotify, Goto, WPC
<1>2. CASE JoinContexts(w)
  <2>1. list' \in Seq(Workers)
    BY <1>0, <1>2 DEF TypeOK, JoinContexts
  <2>2. QED
    BY <1>0, <1>2, <2>1 DEF TypeOK, JoinContexts, Goto, WPC
<1>3. CASE MakeRing(w)
  BY <1>0, <1>3 DEF TypeOK, MakeRing, Goto, WPC
<1>4. CASE OpenWorker(w)
  BY <1>0, <1>4 DEF TypeOK, OpenWorker, Goto, WPC
<1>5. CASE TellMaster(w)
  <2>1. mpc' \in MPC /\ stop' \in BOOLEAN /\ mpend' \subseteq {"usr1", "term"}
    BY <1>0, <1>5, SignalMasterFacts DEF TellMaster
  <2>2. wpc' \in [Workers -> WPC]
    BY <1>0, <1>5 DEF TypeOK, TellMaster, Goto, WPC
  <2>3. QED
    BY <1>0, <1>5, <2>1, <2>2 DEF TypeOK, TellMaster
<1>6. CASE WorkerWakes(w)
  <2>1. PICK K \in SUBSET Workers : Kill(K, w, "loop")
    BY <1>0, <1>6, WakeRrFacts DEF WorkerWakes
  <2>2. "loop" \in WPC
    BY DEF WPC
  <2>3. /\ wpc' \in [Workers -> WPC] /\ wpend' \subseteq Workers /\ missed' \subseteq Workers
        /\ stop' \in BOOLEAN
    BY <1>0, <2>1, <2>2, KillFacts
  <2>4. rr' \in Workers \cup {NoWorker}
    BY <1>0, <1>6, WakeRrFacts DEF WorkerWakes
  <2>5. QED
    BY <1>0, <1>6, <2>3, <2>4 DEF TypeOK, WorkerWakes
<1>7. CASE WakeNotified(w)
  <2>1. Kill(Range(list), w, "loop") /\ Range(list) \in SUBSET Workers
    BY <1>0, <1>7, RangeFacts DEF WakeNotified, WakeAll, TypeOK
  <2>2. "loop" \in WPC
    BY DEF WPC
  <2>3. /\ wpc' \in [Workers -> WPC] /\ wpend' \subseteq Workers /\ missed' \subseteq Workers
        /\ stop' \in BOOLEAN
    BY <1>0, <2>1, <2>2, KillFacts
  <2>4. QED
    BY <1>0, <1>7, <2>3 DEF TypeOK, WakeNotified
<1>8. CASE LooksForNew(w) \/ PickedUpAll(w) \/ FindsNothing(w) \/ Waits(w) \/ CommandArrives(w)
  BY <1>0, <1>8 DEF TypeOK, LooksForNew, PickedUpAll, FindsNothing, Waits, CommandArrives, Goto,
                    WPC
<1>9. CASE PicksUp(w)
  <2>1. Head(new) \in Sessions /\ new' \in Seq(Sessions)
    BY <1>0, <1>9, TailFacts DEF TypeOK, Placed, PicksUp, WithoutHead
  <2>2. ss' \in [Sessions -> SPC] /\ at' \in [Sessions -> Workers \cup {NoWorker}]
    BY <1>0, <1>9, <2>1 DEF TypeOK, PicksUp, SPC
  <2>3. QED
    BY <1>0, <1>9, <2>1, <2>2 DEF TypeOK, PicksUp
<1>10. CASE ObeysFlag(w) \/ AfterWait(w)
  <2>1. ss' \in [Sessions -> SPC] /\ told' \subseteq Sessions
    BY <1>0, <1>10 DEF TypeOK, ObeysFlag, AfterWait, TellExit, Mine, SPC
  <2>2. wpc' \in [Workers -> WPC]
    BY <1>0, <1>10 DEF TypeOK, ObeysFlag, AfterWait, Goto, WPC
  <2>3. QED
    BY <1>0, <1>10, <2>1, <2>2 DEF TypeOK, ObeysFlag, AfterWait
<1>11. CASE Detach(w)
  <2>1. In(w, list)
    BY <1>0, <1>11 DEF Contexts, Detach, Goto, NotYet, NoMore
  <2>2. list' \in Seq(Workers)
    <3>1. Place(w) \in 1 .. Len(list)
      BY <2>1, PlaceFacts
    <3>2. QED
      BY <1>0, <1>11, <3>1, RemoveFacts DEF TypeOK, Contexts, Detach, LeaveContexts
  <2>3. QED
    BY <1>0, <1>11, <2>2 DEF TypeOK, Detach, LeaveContexts, Goto, WPC
<1>12. ASSUME NEW s \in Sessions, Callback(w, s) \/ Ends(w, s)
       PROVE  TypeOK'
  <2>1. /\ ss' \in [Sessions -> SPC] /\ at' \in [Sessions -> Workers \cup {NoWorker}]
        /\ told' \subseteq Sessions
    BY <1>0, <1>12 DEF TypeOK, Callback, Ends, Freed, SPC
  <2>2. QED
    BY <1>0, <1>12, <2>1 DEF TypeOK, Callback, Ends
<1>13. ASSUME NEW s \in Sessions, NotifyExitToAll(w, s)
       PROVE  TypeOK'
  <2>1. Range(list) \subseteq Workers
    BY <1>0, RangeFacts DEF TypeOK
  <2>2. QED
    BY <1>0, <1>13, <2>1 DEF TypeOK, NotifyExitToAll, Goto, WPC, SPC
<1>14. ASSUME NEW s \in Sessions, StopOnPurpose(w, s) \/ Chat(w, s) \/ WaitEnds(w, s)
       PROVE  TypeOK'
  BY <1>0, <1>14 DEF TypeOK, StopOnPurpose, Chat, WaitEnds, Goto, WPC, SPC
<1>15. ASSUME NEW s \in Sessions, WorkerPosts(w, s)
       PROVE  TypeOK'
  <2>1. Fresh \in Sessions /\ ss[Fresh] = "unborn"
    BY <1>15, FreshFacts DEF WorkerPosts
  <2>2. new' \in Seq(Sessions)
    BY <1>0, <1>15, <2>1 DEF TypeOK, WorkerPosts, Joined
  <2>3. QED
    BY <1>0, <1>15, <2>1, <2>2 DEF TypeOK, WorkerPosts, Goto, WPC, SPC
<1>16. QED
  BY <1>1, <1>2, <1>3, <1>4, <1>5, <1>6, <1>7, <1>8, <1>9, <1>10, <1>11, <1>12, <1>13, <1>14,
     <1>15 DEF WorkerStep, WorkerChoice

\* Every step.
LEMMA TypeKept ==
  ASSUME DispatchInv, Next
  PROVE  TypeOK'
<1>1. CASE Finished
  BY <1>1 DEF DispatchInv, TypeOK, Finished, vars, shared, signals, sessions, history
<1>2. QED
  BY <1>1, TypeMaster, TypeWorker DEF Next

-----------------------------------------------------------------------------
(* How a worker moves, and under which conditions. *)

Moved(v) ==
  \/ wpc'[v] = wpc[v]
  \/ wpc[v] = "none" /\ wpc'[v] = "start"
  \/ wpc[v] = "start" /\ wpc'[v] = "handler"
  \/ wpc[v] = "handler" /\ wpc'[v] = "listed" /\ JoinContexts(v)
  \/ wpc[v] = "listed" /\ wpc'[v] \in {"ready", "dead"}
  \/ wpc[v] = "ready" /\ wpc'[v] = "opened"
  \/ wpc[v] = "opened" /\ wpc'[v] = "loop"
  \/ /\ wpc[v] \in InLoop /\ wpc'[v] \in InLoop
     /\ wpc'[v] \in {"posted", "notified", "purposed", "chat"} => Active(v) # {}
     /\ wpc'[v] = "picking" => new # <<>>
  \/ wpc[v] = "after" /\ wpc'[v] = "leaving" /\ stop /\ ~WorkToDo(v)
  \/ wpc[v] = "leaving" /\ wpc'[v] = "left" /\ Detach(v)
  \/ wpc[v] = "left" /\ wpc'[v] = "gone"

\* The only way around from being created to being gone.
LEMMA Moves ==
  ASSUME DispatchInv, Next, NEW v \in Workers
  PROVE  Moved(v)
<1> USE DEF shared, signals, sessions, history
<1>0. TypeOK /\ Contexts
  BY DEF DispatchInv
<1>a. ASSUME NEW K \in SUBSET Workers, NEW w \in Workers \cup {NoWorker}, NEW pc \in {"none", "loop"},
             Kill(K, w, pc), v # w \/ (wpc[v] \in InLoop /\ pc = "loop")
      PROVE  Moved(v)
  <2>1. pc \in WPC
    BY DEF WPC
  <2>2. CASE v = w
    <3>1. wpc'[v] = "loop" /\ wpc[v] \in InLoop
      BY <1>0, <1>a, <2>1, <2>2, KillFacts
    <3>2. QED
      BY <3>1 DEF Moved, InLoop
  <2>3. CASE v # w
    <3>1. \/ wpc'[v] = wpc[v]
          \/ wpc[v] = "waiting" /\ wpc'[v] = "after"
          \/ wpc[v] = "chat" /\ wpc'[v] = "loop"
      BY <1>0, <1>a, <2>1, <2>3, KillFacts
    <3>2. QED
      BY <3>1 DEF Moved, InLoop
  <2>4. QED
    BY <2>2, <2>3
<1>1. CASE MaskSignals \/ BindStop \/ BindNotify \/ OpenSignals \/ SleepEnds \/ CountStarted
           \/ Configured \/ LookAtStop \/ CountLeft \/ Interrupt \/ MasterPosts \/ Finished
  BY <1>1 DEF Moved, MaskSignals, BindStop, BindNotify, OpenSignals, SleepEnds, CountStarted,
              Configured, LookAtStop, CountLeft, Interrupt, MasterPosts, Finished, vars
<1>2. CASE CreateWorker
  BY <1>0, <1>2 DEF TypeOK, CreateWorker, Moved
<1>3. CASE MasterWakes
  <2>1. PICK K \in SUBSET Workers : Kill(K, NoWorker, "none")
    BY <1>0, <1>3, WakeRrFacts DEF MasterWakes
  <2>2. QED
    BY <1>a, <2>1, WorkersAssumption
<1>4. CASE WakeToStop
  <2>1. Kill(Range(list), NoWorker, "none") /\ Range(list) \in SUBSET Workers
    BY <1>0, <1>4, RangeFacts DEF WakeToStop, WakeAll, TypeOK
  <2>2. QED
    BY <1>a, <2>1, WorkersAssumption
<1>5. ASSUME NEW w \in Workers, WorkerStep(w) \/ WorkerChoice(w)
      PROVE  Moved(v)
  <2>1. CASE v # w /\ ~WorkerWakes(w) /\ ~WakeNotified(w)
    <3>1. wpc'[v] = wpc[v]
      <4>1. CASE \E s \in Sessions : \/ Callback(w, s) \/ Ends(w, s) \/ NotifyExitToAll(w, s)
                                     \/ StopOnPurpose(w, s) \/ Chat(w, s) \/ WaitEnds(w, s)
                                     \/ WorkerPosts(w, s)
        BY <1>0, <2>1, <4>1 DEF TypeOK, Callback, Ends, NotifyExitToAll, StopOnPurpose, Chat,
                                WaitEnds, WorkerPosts, Goto
      <4>2. CASE \/ InstallNotify(w) \/ JoinContexts(w) \/ MakeRing(w) \/ OpenWorker(w)
                 \/ TellMaster(w) \/ Detach(w) \/ CommandArrives(w)
        BY <1>0, <2>1, <4>2 DEF TypeOK, InstallNotify, JoinContexts, MakeRing, OpenWorker,
                                TellMaster, Detach, CommandArrives, Goto
      <4>3. CASE \/ LooksForNew(w) \/ PicksUp(w) \/ PickedUpAll(w) \/ FindsNothing(w)
                 \/ ObeysFlag(w) \/ Waits(w) \/ AfterWait(w)
        BY <1>0, <2>1, <4>3 DEF TypeOK, LooksForNew, PicksUp, PickedUpAll, FindsNothing, ObeysFlag,
                                Waits, AfterWait, Goto
      <4>4. QED
        BY <1>5, <2>1, <4>1, <4>2, <4>3 DEF WorkerStep, WorkerChoice
    <3>2. QED
      BY <3>1 DEF Moved
  <2>2. CASE WorkerWakes(w)
    <3>1. PICK K \in SUBSET Workers : Kill(K, w, "loop")
      BY <1>0, <2>2, WakeRrFacts DEF WorkerWakes
    <3>2. wpc[w] \in InLoop
      BY <2>2 DEF WorkerWakes, InLoop
    <3>3. QED
      BY <1>a, <3>1, <3>2
  <2>3. CASE WakeNotified(w)
    <3>1. Kill(Range(list), w, "loop") /\ Range(list) \in SUBSET Workers
      BY <1>0, <2>3, RangeFacts DEF WakeNotified, WakeAll, TypeOK
    <3>2. wpc[w] \in InLoop
      BY <2>3 DEF WakeNotified, InLoop
    <3>3. QED
      BY <1>a, <3>1, <3>2
  <2>4. CASE v = w /\ \E s \in Sessions :
               Callback(w, s) \/ Ends(w, s) \/ WaitEnds(w, s)
    BY <1>0, <2>4 DEF TypeOK, Callback, Ends, WaitEnds, Goto, Moved, InLoop
  <2>5. CASE v = w /\ \E s \in Sessions :
               \/ NotifyExitToAll(w, s) \/ StopOnPurpose(w, s) \/ Chat(w, s) \/ WorkerPosts(w, s)
    <3>1. Active(w) # {} /\ wpc[w] = "loop"
          /\ wpc'[w] \in {"notified", "purposed", "chat", "posted"}
      BY <1>0, <2>5 DEF TypeOK, NotifyExitToAll, StopOnPurpose, Chat, WorkerPosts, Goto
    <3>2. QED
      BY <2>5, <3>1 DEF Moved, InLoop
  <2>6. CASE v = w /\ (InstallNotify(w) \/ JoinContexts(w) \/ MakeRing(w) \/ OpenWorker(w))
    BY <1>0, <2>6 DEF TypeOK, InstallNotify, JoinContexts, MakeRing, OpenWorker, Goto, Moved
  <2>7. CASE v = w /\ (TellMaster(w) \/ Detach(w) \/ CommandArrives(w))
    BY <1>0, <2>7 DEF TypeOK, TellMaster, Detach, CommandArrives, Goto, Moved, InLoop
  <2>8. CASE v = w /\ (LooksForNew(w) \/ PicksUp(w) \/ PickedUpAll(w) \/ FindsNothing(w))
    BY <1>0, <2>8 DEF TypeOK, LooksForNew, PicksUp, PickedUpAll, FindsNothing, Goto, Moved, InLoop
  <2>9. CASE v = w /\ (ObeysFlag(w) \/ Waits(w) \/ AfterWait(w))
    BY <1>0, <2>9 DEF TypeOK, ObeysFlag, Waits, AfterWait, Goto, Moved, InLoop
  <2>10. QED
    BY <1>5, <2>1, <2>2, <2>3, <2>4, <2>5, <2>6, <2>7, <2>8, <2>9 DEF WorkerStep, WorkerChoice
<1>6. QED
  BY <1>1, <1>2, <1>3, <1>4, <1>5 DEF Next, MasterStep

\* Only joining and leaving change the list of contexts.
LEMMA ListFrame ==
  ASSUME DispatchInv, Next
  PROVE  \/ list' = list /\ (rr' = rr \/ (rr' # NoWorker => In(rr', list)))
         \/ \E w \in Workers : JoinContexts(w) \/ Detach(w)
<1> USE DEF shared, signals, sessions, history
<1>0. TypeOK /\ Contexts
  BY DEF DispatchInv
<1>1. CASE MasterWakes
  BY <1>0, <1>1, WakeRrFacts DEF MasterWakes
<1>2. CASE \E w \in Workers : WorkerWakes(w)
  BY <1>0, <1>2, WakeRrFacts DEF WorkerWakes
<1>3. CASE \/ MaskSignals \/ BindStop \/ BindNotify \/ OpenSignals \/ SleepEnds \/ CountStarted
           \/ Configured \/ LookAtStop \/ CountLeft \/ Interrupt \/ MasterPosts \/ Finished
           \/ CreateWorker \/ WakeToStop
  BY <1>3 DEF MaskSignals, BindStop, BindNotify, OpenSignals, SleepEnds, CountStarted,
              Configured, LookAtStop, CountLeft, Interrupt, MasterPosts, Finished, vars,
              CreateWorker, WakeToStop
<1>4. CASE \E w \in Workers, s \in Sessions :
             \/ Callback(w, s) \/ Ends(w, s) \/ NotifyExitToAll(w, s) \/ StopOnPurpose(w, s)
             \/ Chat(w, s) \/ WaitEnds(w, s) \/ WorkerPosts(w, s)
  BY <1>4 DEF Callback, Ends, NotifyExitToAll, StopOnPurpose, Chat, WaitEnds, WorkerPosts
<1>5. CASE \E w \in Workers :
             \/ InstallNotify(w) \/ MakeRing(w) \/ OpenWorker(w) \/ TellMaster(w)
             \/ WakeNotified(w) \/ LooksForNew(w) \/ PicksUp(w) \/ PickedUpAll(w)
             \/ FindsNothing(w) \/ ObeysFlag(w) \/ Waits(w) \/ AfterWait(w) \/ CommandArrives(w)
  BY <1>5 DEF InstallNotify, MakeRing, OpenWorker, TellMaster, WakeNotified, LooksForNew, PicksUp,
              PickedUpAll, FindsNothing, ObeysFlag, Waits, AfterWait, CommandArrives
<1>6. QED
  BY <1>1, <1>2, <1>3, <1>4, <1>5 DEF Next, MasterStep, WorkerStep, WorkerChoice

\* The list of contexts.
LEMMA ContextsKept ==
  ASSUME DispatchInv, Next
  PROVE  Contexts'
<1> USE DEF shared, signals, sessions, history
<1>0. TypeOK /\ Contexts /\ TypeOK' /\ NoWorker \notin Workers
  BY TypeKept, WorkersAssumption DEF DispatchInv
<1>1. ASSUME NEW w \in Workers, JoinContexts(w)
      PROVE  Contexts'
  <2>1. /\ wpc[w] = "handler" /\ wpc'[w] = "listed" /\ \A v \in Workers \ {w} : wpc'[v] = wpc[v]
        /\ list' = <<w>> \o list /\ rr' = rr
    BY <1>0, <1>1 DEF TypeOK, JoinContexts, Goto
  <2>2. ~In(w, list)
    BY <1>0, <2>1 DEF Contexts, NotYet
  <2>3. Distinct(list') /\ \A y : In(y, list') <=> In(y, list) \/ y = w
    BY <1>0, <2>1, <2>2, ConsFacts DEF TypeOK, Contexts
  <2>4. \A v \in Workers : In(v, list') <=> wpc'[v] \notin NotYet \cup NoMore
    BY <1>0, <2>1, <2>3 DEF Contexts, NotYet, NoMore
  <2>5. rr' # NoWorker => In(rr', list')
    BY <1>0, <2>1, <2>3 DEF Contexts
  <2>6. QED
    BY <2>3, <2>4, <2>5 DEF Contexts, In, Distinct
<1>2. ASSUME NEW w \in Workers, Detach(w)
      PROVE  Contexts'
  <2>1. /\ wpc[w] = "leaving" /\ wpc'[w] = "left" /\ \A v \in Workers \ {w} : wpc'[v] = wpc[v]
        /\ list' = RemoveAt(list, Place(w)) /\ rr' = NoWorker
    BY <1>0, <1>2 DEF TypeOK, Detach, LeaveContexts, Goto
  <2>2. Place(w) \in 1 .. Len(list) /\ list[Place(w)] = w
    BY <1>0, <2>1, PlaceFacts DEF Contexts, NotYet, NoMore
  <2>3. Distinct(list') /\ \A y : In(y, list') <=> In(y, list) /\ y # w
    BY <1>0, <2>1, <2>2, RemoveFacts DEF TypeOK, Contexts
  <2>4. \A v \in Workers : In(v, list') <=> wpc'[v] \notin NotYet \cup NoMore
    BY <1>0, <2>1, <2>3 DEF Contexts, NotYet, NoMore
  <2>5. QED
    BY <2>1, <2>3, <2>4 DEF Contexts, In, Distinct
<1>3. CASE ~\E w \in Workers : JoinContexts(w) \/ Detach(w)
  <2>1. list' = list /\ (rr' = rr \/ (rr' # NoWorker => In(rr', list)))
    BY <1>3, ListFrame
  <2>2. ASSUME NEW v \in Workers
        PROVE  wpc'[v] \in NotYet \cup NoMore <=> wpc[v] \in NotYet \cup NoMore
    BY <1>3, Moves DEF Moved, NotYet, NoMore, InLoop
  <2>3. \A v \in Workers : In(v, list') <=> wpc'[v] \notin NotYet \cup NoMore
    BY <1>0, <2>1, <2>2 DEF Contexts
  <2>4. QED
    BY <1>0, <2>1, <2>3 DEF Contexts, In, Distinct
<1>4. QED
  BY <1>1, <1>2, <1>3

\* What changes the places of sessions.
SessionMoves(w, s) ==
  \/ Callback(w, s) \/ Ends(w, s) \/ NotifyExitToAll(w, s) \/ StopOnPurpose(w, s) \/ Chat(w, s)
  \/ WaitEnds(w, s) \/ WorkerPosts(w, s)

\* The steps that move sessions are these; every other step leaves all sessions where they are.
LEMMA SessionFrame ==
  ASSUME Next
  PROVE  \/ UNCHANGED <<new, ss, at>>
         \/ MasterPosts
         \/ \E w \in Workers : PicksUp(w) \/ ObeysFlag(w) \/ AfterWait(w)
         \/ \E w \in Workers, s \in Sessions : SessionMoves(w, s)
<1> USE DEF shared, signals, sessions, history
<1>1. CASE \/ MaskSignals \/ BindStop \/ BindNotify \/ OpenSignals \/ SleepEnds \/ CountStarted
           \/ Configured \/ LookAtStop \/ CountLeft \/ Interrupt \/ Finished
           \/ CreateWorker \/ WakeToStop \/ MasterWakes
  BY <1>1 DEF MaskSignals, BindStop, BindNotify, OpenSignals, SleepEnds, CountStarted,
              Configured, LookAtStop, CountLeft, Interrupt, Finished, vars,
              CreateWorker, WakeToStop, MasterWakes
<1>2. CASE \E w \in Workers :
             \/ InstallNotify(w) \/ MakeRing(w) \/ OpenWorker(w) \/ TellMaster(w)
             \/ WakeNotified(w) \/ LooksForNew(w) \/ PickedUpAll(w)
             \/ FindsNothing(w) \/ Waits(w) \/ CommandArrives(w) \/ JoinContexts(w) \/ Detach(w)
             \/ WorkerWakes(w)
  BY <1>2 DEF InstallNotify, MakeRing, OpenWorker, TellMaster, WakeNotified, LooksForNew,
              PickedUpAll, FindsNothing, Waits, CommandArrives, JoinContexts, Detach, WorkerWakes
<1>3. QED
  BY <1>1, <1>2 DEF Next, MasterStep, WorkerStep, WorkerChoice, SessionMoves

\* The lists of sessions, before the workers come into it.
LEMMA ListsKept ==
  ASSUME DispatchInv, Next
  PROVE  /\ Distinct(new')
         /\ \A s \in Sessions : ss'[s] = "new" <=> In(s, new')
         /\ \A s \in Sessions : at'[s] = NoWorker <=> ss'[s] \in {"unborn", "new", "over"}
         /\ \A s \in Sessions : \/ at'[s] = at[s] \/ at'[s] = NoWorker
                                \/ \E w \in Workers : PicksUp(w) /\ at'[s] = w
<1> USE DEF shared, signals, sessions, history
<1>0. TypeOK /\ Placed /\ NoWorker \notin Workers
  BY WorkersAssumption DEF DispatchInv
<1>1. CASE UNCHANGED <<new, ss, at>>
  BY <1>0, <1>1 DEF Placed, Distinct, In
<1>2. ASSUME NEW s \in Sessions, ss[s] = "unborn", new' = Append(new, s), UNCHANGED at,
             ss'[s] = "new",
             \A r \in Sessions \ {s} : ss'[r] = ss[r] \/ (ss[r] = "active" /\ ss'[r] = "asleep")
      PROVE  /\ Distinct(new')
             /\ \A r \in Sessions : ss'[r] = "new" <=> In(r, new')
             /\ \A r \in Sessions : at'[r] = NoWorker <=> ss'[r] \in {"unborn", "new", "over"}
  <2>1. ~In(s, new)
    BY <1>0, <1>2 DEF Placed
  <2>2. Distinct(new') /\ \A r : In(r, new') <=> In(r, new) \/ r = s
    BY <1>0, <1>2, <2>1, AppendFacts DEF TypeOK, Placed
  <2>3. \A r \in Sessions : ss'[r] = "new" <=> In(r, new')
    BY <1>0, <1>2, <2>2 DEF Placed
  <2>4. \A r \in Sessions : at'[r] = NoWorker <=> ss'[r] \in {"unborn", "new", "over"}
    BY <1>0, <1>2 DEF Placed
  <2>5. QED
    BY <2>2, <2>3, <2>4
<1>3. CASE MasterPosts
  <2>1. Fresh \in Sessions /\ ss[Fresh] = "unborn"
    BY <1>3, FreshFacts DEF MasterPosts
  <2>2. /\ new' = Append(new, Fresh) /\ at' = at /\ ss'[Fresh] = "new"
        /\ \A r \in Sessions \ {Fresh} : ss'[r] = ss[r]
    BY <1>0, <1>3, <2>1 DEF TypeOK, MasterPosts, Joined
  <2>3. QED
    BY <1>2, <2>1, <2>2
<1>4. ASSUME NEW w \in Workers, PicksUp(w)
      PROVE  /\ Distinct(new')
             /\ \A s \in Sessions : ss'[s] = "new" <=> In(s, new')
             /\ \A s \in Sessions : at'[s] = NoWorker <=> ss'[s] \in {"unborn", "new", "over"}
             /\ \A s \in Sessions : at'[s] = at[s] \/ at'[s] = w
  <2> DEFINE h == Head(new)
  <2>1. /\ h \in Sessions /\ In(h, new)
        /\ Distinct(new') /\ \A r : In(r, new') <=> In(r, new) /\ r # h
    BY <1>0, <1>4, TailFacts DEF TypeOK, Placed, PicksUp, WithoutHead
  <2>2. /\ ss'[h] = "asleep" /\ \A r \in Sessions \ {h} : ss'[r] = ss[r]
        /\ at'[h] = w /\ \A r \in Sessions \ {h} : at'[r] = at[r]
    BY <1>0, <1>4, <2>1 DEF TypeOK, PicksUp
  <2> HIDE DEF h
  <2>3. QED
    BY <1>0, <2>1, <2>2 DEF Placed
<1>5. ASSUME UNCHANGED new, \A s \in Sessions : \/ ss'[s] = ss[s] /\ at'[s] = at[s]
                                                \/ /\ at[s] # NoWorker /\ at'[s] = at[s]
                                                   /\ ss'[s] \in {"active", "asleep"}
                                                \/ /\ at[s] # NoWorker /\ at'[s] = NoWorker
                                                   /\ ss'[s] = "over"
      PROVE  /\ Distinct(new')
             /\ \A s \in Sessions : ss'[s] = "new" <=> In(s, new')
             /\ \A s \in Sessions : at'[s] = NoWorker <=> ss'[s] \in {"unborn", "new", "over"}
             /\ \A s \in Sessions : at'[s] = at[s] \/ at'[s] = NoWorker
  BY <1>0, <1>5 DEF Placed, In, Distinct
<1>6. ASSUME NEW w \in Workers, ObeysFlag(w) \/ AfterWait(w)
      PROVE  UNCHANGED new /\ \A s \in Sessions : \/ ss'[s] = ss[s] /\ at'[s] = at[s]
                                                  \/ /\ at[s] # NoWorker /\ at'[s] = at[s]
                                                     /\ ss'[s] \in {"active", "asleep"}
  BY <1>0, <1>6 DEF ObeysFlag, AfterWait, TellExit, Mine
<1>7. ASSUME NEW w \in Workers, NEW s \in Sessions, SessionMoves(w, s), ~WorkerPosts(w, s)
      PROVE  UNCHANGED new /\ \A r \in Sessions : \/ ss'[r] = ss[r] /\ at'[r] = at[r]
                                                  \/ /\ at[r] # NoWorker /\ at'[r] = at[r]
                                                     /\ ss'[r] \in {"active", "asleep"}
                                                  \/ /\ at[r] # NoWorker /\ at'[r] = NoWorker
                                                     /\ ss'[r] = "over"
  <2>1. at[s] # NoWorker
    BY <1>0, <1>7 DEF SessionMoves, Callback, Ends, NotifyExitToAll, StopOnPurpose, Chat, WaitEnds,
                      Active, Mine
  <2>2. CASE Callback(w, s) \/ Ends(w, s)
    BY <1>0, <2>1, <2>2 DEF TypeOK, Callback, Ends, Freed
  <2>3. CASE NotifyExitToAll(w, s) \/ StopOnPurpose(w, s) \/ Chat(w, s) \/ WaitEnds(w, s)
    BY <1>0, <2>1, <2>3 DEF TypeOK, NotifyExitToAll, StopOnPurpose, Chat, WaitEnds
  <2>4. QED
    BY <1>7, <2>2, <2>3 DEF SessionMoves
<1>8. ASSUME NEW w \in Workers, NEW s \in Sessions, WorkerPosts(w, s)
      PROVE  /\ Distinct(new')
             /\ \A r \in Sessions : ss'[r] = "new" <=> In(r, new')
             /\ \A r \in Sessions : at'[r] = NoWorker <=> ss'[r] \in {"unborn", "new", "over"}
             /\ UNCHANGED at
  <2>1. Fresh \in Sessions /\ ss[Fresh] = "unborn"
    BY <1>8, FreshFacts DEF WorkerPosts
  <2>2. /\ new' = Append(new, Fresh) /\ at' = at /\ ss[s] = "active"
        /\ ss' = [ss EXCEPT ![s] = "asleep", ![Fresh] = "new"]
    BY <1>8 DEF WorkerPosts, Joined, Active
  <2>3. /\ ss'[Fresh] = "new"
        /\ \A r \in Sessions \ {Fresh} : ss'[r] = ss[r] \/ (ss[r] = "active" /\ ss'[r] = "asleep")
    BY <1>0, <2>1, <2>2 DEF TypeOK
  <2>4. QED
    BY <1>2, <2>1, <2>2, <2>3
<1>9. QED
  <2>1. CASE \E w \in Workers, s \in Sessions : SessionMoves(w, s)
    BY <1>5, <1>7, <1>8, <2>1
  <2>2. CASE \E w \in Workers : ObeysFlag(w) \/ AfterWait(w)
    BY <1>5, <1>6, <2>2
  <2>3. CASE \E w \in Workers : PicksUp(w)
    BY <1>4, <2>3
  <2>4. CASE MasterPosts
    <3>1. UNCHANGED at
      BY <2>4 DEF MasterPosts
    <3>2. QED
      BY <1>3, <2>4, <3>1
  <2>5. CASE UNCHANGED <<new, ss, at>>
    BY <1>1, <2>5
  <2>6. QED
    BY <2>1, <2>2, <2>3, <2>4, <2>5, SessionFrame

\* Every session is where its state says, and its worker is in its loop.
LEMMA PlacedKept ==
  ASSUME DispatchInv, Next
  PROVE  Placed'
<1>0. TypeOK /\ Placed /\ TypeOK'
  BY TypeKept DEF DispatchInv
<1>1. ASSUME NEW s \in Sessions, at'[s] # NoWorker
      PROVE  wpc'[at'[s]] \in InLoop
  <2>1. CASE at'[s] = at[s]
    <3>1. at[s] \in Workers /\ wpc[at[s]] \in InLoop /\ WorkToDo(at[s])
      BY <1>0, <1>1, <2>1 DEF TypeOK, Placed, WorkToDo, Mine
    <3>2. Moved(at[s])
      BY <3>1, Moves
    <3>3. wpc'[at[s]] \in InLoop
      BY <3>1, <3>2 DEF Moved, InLoop
    <3>4. QED
      BY <2>1, <3>3
  <2>2. ASSUME NEW w \in Workers, PicksUp(w), at'[s] = w
        PROVE  wpc'[at'[s]] \in InLoop
    BY <2>2 DEF PicksUp, InLoop, signals
  <2>3. QED
    BY <1>1, <2>1, <2>2, ListsKept
<1>2. QED
  BY <1>1, ListsKept DEF Placed, Distinct, In

\* Nobody signals, posts or picks up before the workers are counted.
LEMMA QuietKept ==
  ASSUME DispatchInv, Next
  PROVE  QuietStart'
<1> USE DEF shared, signals, sessions, history
<1>0. TypeOK /\ Placed /\ QuietStart /\ NoWorker \notin Workers
  BY WorkersAssumption DEF DispatchInv
<1> SUFFICES ASSUME mpc' \in Early
             PROVE  /\ \A s \in Sessions : ss'[s] = "unborn"
                    /\ wpend' = {}
                    /\ \A w \in Workers :
                         wpc'[w] \notin {"posted", "notified", "purposed", "chat", "picking"}
  BY DEF QuietStart
<1>1. mpc \in Early /\ ~MasterWakes /\ ~WakeToStop /\ ~MasterPosts
  <2>1. CASE MaskSignals \/ BindStop \/ BindNotify \/ OpenSignals \/ CountStarted
    BY <2>1 DEF MaskSignals, BindStop, BindNotify, OpenSignals, CountStarted,
                MasterWakes, WakeToStop, MasterPosts, Early
  <2>2. CASE Configured \/ LookAtStop \/ CountLeft \/ CreateWorker \/ WakeToStop \/ MasterWakes
             \/ MasterPosts
    BY <2>2 DEF Configured, LookAtStop, CountLeft, CreateWorker, WakeToStop, MasterWakes,
                MasterPosts, Early
  <2>3. CASE SleepEnds
    <3>1. mpc = "sleep8"
      BY <2>3 DEF SleepEnds, AfterSleep, Early
    <3>2. QED
      BY <3>1 DEF MasterWakes, WakeToStop, MasterPosts, Early
  <2>4. ASSUME mpc' = mpc
        PROVE  mpc \in Early /\ ~MasterWakes /\ ~WakeToStop /\ ~MasterPosts
    BY <2>4 DEF MasterWakes, WakeToStop, MasterPosts, Early
  <2>5. ASSUME NEW sig \in {"usr1", "term"}, SignalMaster(sig)
        PROVE  mpc \in Early /\ ~MasterWakes /\ ~WakeToStop /\ ~MasterPosts
    BY <1>0, <2>5, SignalMasterFacts DEF MasterWakes, WakeToStop, MasterPosts, Early
  <2>6. CASE Interrupt \/ \E w \in Workers : TellMaster(w)
    BY <2>5, <2>6 DEF Interrupt, TellMaster
  <2>7. CASE \E w \in Workers :
             \/ InstallNotify(w) \/ MakeRing(w) \/ OpenWorker(w)
             \/ WakeNotified(w) \/ LooksForNew(w) \/ PickedUpAll(w)
             \/ FindsNothing(w) \/ Waits(w) \/ CommandArrives(w) \/ JoinContexts(w) \/ Detach(w)
             \/ WorkerWakes(w) \/ PicksUp(w) \/ ObeysFlag(w) \/ AfterWait(w)
    BY <2>4, <2>7 DEF InstallNotify, MakeRing, OpenWorker, WakeNotified, LooksForNew,
              PickedUpAll, FindsNothing, Waits, CommandArrives, JoinContexts, Detach, WorkerWakes,
              PicksUp, ObeysFlag, AfterWait
  <2>8. CASE Finished \/ \E w \in Workers, s \in Sessions : SessionMoves(w, s)
    BY <2>4, <2>8 DEF Finished, vars, SessionMoves, Callback, Ends, NotifyExitToAll, StopOnPurpose,
                      Chat, WaitEnds, WorkerPosts
  <2>9. QED
    BY <2>1, <2>2, <2>3, <2>6, <2>7, <2>8
       DEF Next, MasterStep, WorkerStep, WorkerChoice, SessionMoves
<1>2. /\ \A s \in Sessions : ss[s] = "unborn" /\ at[s] = NoWorker
      /\ new = <<>> /\ wpend = {}
      /\ \A w \in Workers : wpc[w] \notin {"posted", "notified", "purposed", "chat", "picking"}
  <2>1. /\ \A s \in Sessions : ss[s] = "unborn" /\ at[s] = NoWorker
        /\ wpend = {}
        /\ \A w \in Workers : wpc[w] \notin {"posted", "notified", "purposed", "chat", "picking"}
    BY <1>0, <1>1 DEF QuietStart, Placed
  <2>2. new = <<>>
    <3>1. ASSUME new # <<>>  PROVE FALSE
      <4>1. Head(new) \in Sessions /\ In(Head(new), new)
        BY <1>0, <3>1, TailFacts DEF TypeOK, Placed
      <4>2. QED
        BY <1>0, <2>1, <4>1 DEF Placed
    <3>2. QED
      BY <3>1
  <2>3. QED
    BY <2>1, <2>2
<1>3. \A w \in Workers : Mine(w) = {} /\ Active(w) = {}
  BY <1>0, <1>2 DEF Mine, Active
<1>4. ASSUME NEW w \in Workers
      PROVE  wpc'[w] \notin {"posted", "notified", "purposed", "chat", "picking"}
  <2>1. Moved(w)
    BY Moves
  <2>2. QED
    BY <1>2, <1>3, <2>1 DEF Moved
<1>5. ~\E w \in Workers, s \in Sessions : SessionMoves(w, s)
  BY <1>3 DEF SessionMoves, Callback, Ends, NotifyExitToAll, StopOnPurpose, Chat, WaitEnds,
              WorkerPosts
<1>6. \A s \in Sessions : ss'[s] = "unborn"
  BY <1>1, <1>2, <1>3, <1>5, SessionFrame DEF PicksUp, ObeysFlag, AfterWait, TellExit
<1>7. wpend' = {}
  <2>1. CASE MaskSignals \/ BindStop \/ BindNotify \/ OpenSignals \/ CountStarted \/ SleepEnds
             \/ Configured \/ LookAtStop \/ CountLeft \/ CreateWorker \/ Interrupt \/ Finished
    BY <1>2, <2>1 DEF MaskSignals, BindStop, BindNotify, OpenSignals, CountStarted, SleepEnds,
                      Configured, LookAtStop, CountLeft, CreateWorker, Interrupt, Finished, vars
  <2>2. CASE \E w \in Workers :
             \/ InstallNotify(w) \/ MakeRing(w) \/ OpenWorker(w) \/ TellMaster(w)
             \/ WakeNotified(w) \/ LooksForNew(w) \/ PickedUpAll(w)
             \/ FindsNothing(w) \/ Waits(w) \/ CommandArrives(w) \/ JoinContexts(w) \/ Detach(w)
             \/ WorkerWakes(w) \/ PicksUp(w) \/ ObeysFlag(w) \/ AfterWait(w)
    BY <1>2, <2>2 DEF InstallNotify, MakeRing, OpenWorker, TellMaster, WakeNotified, LooksForNew,
              PickedUpAll, FindsNothing, Waits, CommandArrives, JoinContexts, Detach, WorkerWakes,
              PicksUp, ObeysFlag, AfterWait
  <2>3. QED
    BY <1>1, <1>5, <2>1, <2>2 DEF Next, MasterStep, WorkerStep, WorkerChoice, SessionMoves
<1>8. QED
  BY <1>4, <1>6, <1>7

\* The stop flag is set only when somebody asked for it, and never cleared.
LEMMA SignalsKept ==
  ASSUME DispatchInv, Next
  PROVE  Signals' /\ (stop => stop')
<1> USE DEF shared, signals, sessions, history
<1>0. TypeOK /\ Contexts /\ QuietStart /\ Signals /\ NoWorker \notin Workers
  BY WorkersAssumption DEF DispatchInv
<1> DEFINE Masking == {"create", "nothreads", "handlers", "notify", "open"}
           Sig == /\ usr1 = "stop" => mpc = "notify"
                  /\ mmask <=> mpc \in Masking
                  /\ "term" \in mpend => asked
                  /\ stop => asked
<1>1. Sig
  BY <1>0 DEF Signals
<1>2. Sig' /\ (stop => stop')
  <2>1. CASE MaskSignals
    BY <1>1, <2>1 DEF MaskSignals, MasterMask
  <2>2. CASE CreateWorker \/ BindStop \/ BindNotify
    BY <1>1, <2>2 DEF CreateWorker, BindStop, BindNotify
  <2>3. CASE OpenSignals
    BY <1>1, <2>3 DEF OpenSignals
  <2>4. CASE SleepEnds
    <3>1. mpc \in {"sleep8", "sleep100", "sleep1"} /\ mpc' \in {"check8", "check100", "stopping"}
      BY <2>4 DEF SleepEnds, AfterSleep
    <3>2. QED
      BY <1>1, <2>4, <3>1 DEF SleepEnds
  <2>5. CASE CountStarted \/ Configured \/ LookAtStop \/ CountLeft \/ MasterPosts \/ Finished
    BY <1>1, <2>5 DEF CountStarted, Configured, LookAtStop, CountLeft, MasterPosts, Finished, vars
  <2>6. ASSUME NEW K, NEW w, NEW pc, Kill(K, w, pc), usr1 # "stop"
        PROVE  stop' = stop
    BY <1>0, <2>6 DEF Kill, TypeOK
  <2>7. CASE MasterWakes
    <3>1. stop' = stop
      BY <1>1, <2>6, <2>7 DEF MasterWakes, WakeRr
    <3>2. QED
      BY <1>1, <2>7, <3>1 DEF MasterWakes
  <2>8. CASE WakeToStop
    <3>1. stop' = stop
      BY <1>1, <2>6, <2>8 DEF WakeToStop, WakeAll
    <3>2. QED
      BY <1>1, <2>8, <3>1 DEF WakeToStop
  <2>9. CASE \E w \in Workers : WorkerWakes(w) \/ WakeNotified(w)
    <3>1. mpc \notin Early
      BY <1>0, <2>9 DEF QuietStart, WorkerWakes, WakeNotified
    <3>2. usr1 # "stop"
      BY <1>1, <3>1 DEF Early
    <3>3. stop' = stop
      BY <2>6, <2>9, <3>2 DEF WorkerWakes, WakeNotified, WakeRr, WakeAll
    <3>4. QED
      BY <1>1, <2>9, <3>3 DEF WorkerWakes, WakeNotified
  <2>10. CASE Interrupt
    <3>1. asked' = TRUE /\ usr1' = usr1 /\ mmask' = mmask
      BY <2>10 DEF Interrupt
    <3>2. /\ stop => stop'
          /\ \/ mpc' = mpc
             \/ mpc = "sleep8" /\ mpc' = "check8"
             \/ mpc = "sleep100" /\ mpc' = "check100"
             \/ mpc = "sleep1" /\ mpc' = "stopping"
      BY <1>0, <2>10, SignalMasterFacts DEF Interrupt
    <3>3. QED
      BY <1>1, <3>1, <3>2
  <2>11. CASE \E w \in Workers : TellMaster(w)
    <3>1. asked' = asked /\ usr1' = usr1 /\ mmask' = mmask
      BY <2>11 DEF TellMaster
    <3>2. /\ ~(~mmask /\ usr1 = "stop") => stop' = stop
          /\ "term" \in mpend' => "term" \in mpend
          /\ \/ mpc' = mpc
             \/ mpc = "sleep8" /\ mpc' = "check8"
             \/ mpc = "sleep100" /\ mpc' = "check100"
             \/ mpc = "sleep1" /\ mpc' = "stopping"
      BY <1>0, <2>11, SignalMasterFacts DEF TellMaster
    <3>3. QED
      BY <1>1, <3>1, <3>2
  <2>12. CASE \E w \in Workers : OpenWorker(w)
    <3>1. PICK w \in Workers : OpenWorker(w)
      BY <2>12
    <3>2. stop' = stop
      <4>1. CASE usr1 = "stop"
        <5>1. wpend = {}
          BY <1>0, <1>1, <4>1 DEF QuietStart, Early
        <5>2. QED
          BY <1>0, <3>1, <5>1 DEF OpenWorker, TypeOK
      <4>2. CASE usr1 # "stop"
        BY <1>0, <3>1, <4>2 DEF OpenWorker, TypeOK
      <4>3. QED
        BY <4>1, <4>2
    <3>3. QED
      BY <1>1, <3>1, <3>2 DEF OpenWorker
  <2>13. CASE \E w \in Workers : InstallNotify(w)
    BY <1>1, <2>13 DEF InstallNotify
  <2>14. CASE \E w \in Workers :
             \/ MakeRing(w) \/ LooksForNew(w) \/ PickedUpAll(w) \/ FindsNothing(w) \/ Waits(w)
             \/ CommandArrives(w) \/ JoinContexts(w) \/ Detach(w) \/ PicksUp(w) \/ ObeysFlag(w)
             \/ AfterWait(w)
    BY <1>1, <2>14 DEF MakeRing, LooksForNew, PickedUpAll, FindsNothing, Waits, CommandArrives,
              JoinContexts, Detach, PicksUp, ObeysFlag, AfterWait
  <2>15. CASE \E w \in Workers, s \in Sessions : SessionMoves(w, s)
    BY <1>1, <2>15 DEF SessionMoves, Callback, Ends, NotifyExitToAll, StopOnPurpose, Chat,
                       WaitEnds, WorkerPosts
  <2>16. QED
    BY <2>1, <2>2, <2>3, <2>4, <2>5, <2>7, <2>8, <2>9, <2>10, <2>11, <2>12, <2>13, <2>14, <2>15
       DEF Next, MasterStep, WorkerStep, WorkerChoice, SessionMoves
<1>3. ASSUME ~stop', NEW v \in Workers
      PROVE  wpc'[v] \notin {"leaving", "left", "gone"}
  <2>1. ~stop
    BY <1>2, <1>3
  <2>2. wpc[v] \notin {"leaving", "left", "gone"}
    BY <1>0, <2>1 DEF Signals
  <2>3. Moved(v)
    BY Moves
  <2>4. QED
    BY <2>1, <2>2, <2>3 DEF Moved, InLoop
<1>4. QED
  BY <1>2, <1>3 DEF Signals

\* How the master moves.
LEMMA MasterFrame ==
  ASSUME Next
  PROVE  \/ mpc' = mpc /\ UNCHANGED <<tries, full>> /\ (asked => asked') /\ (mpc = "over" => list' = list)
         \/ mpc \in Early /\ mpc' \in Early \ {"check8", "failed"} /\ UNCHANGED <<tries, full, asked>>
         \/ mpc \notin Early /\ mpc' \notin Early \cup {"over"} /\ (mpc = "posted" => MasterWakes)
         \/ SleepEnds \/ CountStarted \/ CountLeft
         \/ Interrupt \/ \E w \in Workers : TellMaster(w)
<1> USE DEF shared, signals, sessions, history
<1>1. CASE Finished
  BY <1>1 DEF Finished, vars
<1>2. CASE MaskSignals \/ CreateWorker \/ BindStop \/ BindNotify \/ OpenSignals
  BY <1>2 DEF MaskSignals, CreateWorker, BindStop, BindNotify, OpenSignals, Early
<1>3. CASE MasterWakes \/ WakeToStop \/ Configured \/ LookAtStop \/ MasterPosts
  BY <1>3 DEF MasterWakes, WakeToStop, Configured, LookAtStop, MasterPosts, Early
<1>4. CASE Up /\ \E w \in Workers :
             \/ InstallNotify(w) \/ MakeRing(w) \/ OpenWorker(w)
             \/ WakeNotified(w) \/ LooksForNew(w) \/ PickedUpAll(w)
             \/ FindsNothing(w) \/ Waits(w) \/ CommandArrives(w) \/ JoinContexts(w) \/ Detach(w)
             \/ WorkerWakes(w) \/ PicksUp(w) \/ ObeysFlag(w) \/ AfterWait(w)
  BY <1>4 DEF Up, InstallNotify, MakeRing, OpenWorker, WakeNotified, LooksForNew,
              PickedUpAll, FindsNothing, Waits, CommandArrives, JoinContexts, Detach, WorkerWakes,
              PicksUp, ObeysFlag, AfterWait
<1>5. CASE Up /\ \E w \in Workers, s \in Sessions : SessionMoves(w, s)
  BY <1>5 DEF Up, SessionMoves, Callback, Ends, NotifyExitToAll, StopOnPurpose, Chat, WaitEnds,
              WorkerPosts
<1>6. QED
  BY <1>1, <1>2, <1>3, <1>4, <1>5 DEF Next, MasterStep, WorkerStep, WorkerChoice, SessionMoves

\* The number of workers that have signalled the master.
LEMMA ToldFacts ==
  /\ Cardinality(Told) \in Nat /\ IsFiniteSet(Told) /\ Cardinality(Told) <= Cpus
  /\ Cpus \in Nat
<1>1. Told \in SUBSET Workers
  BY DEF Told
<1>2. QED
  BY <1>1, WorkersAssumption, FS_Subset, FS_CardinalityType DEF Cpus

\* It never falls.
LEMMA ToldGrows ==
  ASSUME DispatchInv, Next
  PROVE  /\ Told \subseteq Told' /\ IsFiniteSet(Told')
         /\ Cardinality(Told') \in Nat /\ Cardinality(Told) <= Cardinality(Told')
<1>1. Told' \in SUBSET Workers
  BY DEF Told
<1>2. IsFiniteSet(Told')
  BY <1>1, WorkersAssumption, FS_Subset
<1>3. Told \in SUBSET Told'
  <2>1. ASSUME NEW v \in Told
        PROVE  v \in Told'
    <3>1. v \in Workers /\ wpc[v] \notin Silent
      BY DEF Told
    <3>2. Moved(v)
      BY <3>1, Moves
    <3>3. wpc'[v] \notin Silent
      BY <3>1, <3>2 DEF Moved, Silent, NotYet, InLoop
    <3>4. QED
      BY <3>1, <3>3 DEF Told
  <2>2. QED
    BY <2>1
<1>4. QED
  BY <1>2, <1>3, FS_Subset, FS_CardinalityType

\* The count of sleeps.
LEMMA CountedKept ==
  ASSUME DispatchInv, Next
  PROVE  Counted'
<1> USE DEF shared, signals, sessions, history
<1>0. /\ TypeOK /\ QuietStart /\ Signals /\ Counted
      /\ tries \in Nat /\ full \in Nat /\ Cpus \in Nat /\ Patience = 2 * Cpus
      /\ Cardinality(Told) \in Nat /\ Cardinality(Told') \in Nat
      /\ Cardinality(Told) <= Cardinality(Told')
  BY ToldFacts, ToldGrows DEF DispatchInv, TypeOK, Patience
<1> DEFINE Bound == tries + (IF mpc = "check8" THEN 1 ELSE 0) <= full + Cardinality(Told)
<1>1. /\ ~asked /\ mpc \in Early => Bound
      /\ mpc = "failed" => tries >= Patience
  BY <1>0 DEF Counted
<1> SUFFICES /\ ~asked' /\ mpc' \in Early =>
                  tries' + (IF mpc' = "check8" THEN 1 ELSE 0) <= full' + Cardinality(Told')
             /\ mpc' = "failed" => tries' >= Patience
  BY DEF Counted, Patience, Cpus
<1>2. CASE mpc' = mpc /\ UNCHANGED <<tries, full>> /\ (asked => asked')
  BY <1>0, <1>1, <1>2
<1>3. CASE /\ mpc \in Early /\ mpc' \in Early \ {"check8", "failed"}
           /\ UNCHANGED <<tries, full, asked>>
  BY <1>0, <1>1, <1>3
<1>4. CASE mpc \notin Early /\ mpc' \notin Early \cup {"over"}
  BY <1>4 DEF Early
<1>5. CASE SleepEnds
  <2>1. \/ mpc = "sleep8" /\ mpc' = "check8" /\ full' = full + 1
        \/ mpc' \in {"check100", "stopping"}
    BY <1>5 DEF SleepEnds, AfterSleep
  <2>2. tries' = tries /\ asked' = asked
    BY <1>5 DEF SleepEnds
  <2>3. QED
    BY <1>0, <1>1, <2>1, <2>2 DEF Early
<1>6. CASE CountStarted
  <2>1. /\ mpc = "check8" /\ asked' = asked
        /\ \/ mpc' = "configure"
           \/ /\ mpc' = IF tries + 1 < Patience THEN "sleep8" ELSE "failed"
              /\ tries' = tries + 1 /\ full' = full
    BY <1>6 DEF CountStarted
  <2>2. QED
    BY <1>0, <1>1, <2>1 DEF Early
<1>7. CASE CountLeft
  BY <1>7 DEF CountLeft, Early
<1>8. CASE Interrupt
  <2>1. asked' = TRUE /\ tries' = tries
    BY <1>8 DEF Interrupt
  <2>2. mpc' = "failed" => mpc = "failed"
    BY <1>0, <1>8, SignalMasterFacts DEF Interrupt
  <2>3. QED
    BY <1>0, <1>1, <2>1, <2>2
<1>9. ASSUME NEW w \in Workers, TellMaster(w)
      PROVE  /\ ~asked' /\ mpc' \in Early =>
                  tries' + (IF mpc' = "check8" THEN 1 ELSE 0) <= full' + Cardinality(Told')
             /\ mpc' = "failed" => tries' >= Patience
  <2>1. tries' = tries /\ full' = full /\ asked' = asked
    BY <1>9 DEF TellMaster
  <2>2. \/ mpc' = mpc
        \/ mpc = "sleep8" /\ mpc' = "check8"
        \/ mpc' \in {"check100", "stopping"}
    BY <1>0, <1>9, SignalMasterFacts DEF TellMaster
  <2>3. CASE mpc' = mpc
    BY <1>0, <1>1, <2>1, <2>3
  <2>4. CASE mpc' \in {"check100", "stopping"}
    BY <2>4 DEF Early
  <2>5. CASE mpc = "sleep8" /\ mpc' = "check8" /\ ~asked
    <3>1. wpc[w] = "opened" /\ wpc'[w] = "loop"
      <4>1. wpc[w] # "purposed"
        BY <1>0, <2>5 DEF QuietStart, Early
      <4>2. wpc[w] # "left"
        BY <1>0, <2>5 DEF Signals
      <4>3. QED
        BY <1>0, <1>9, <4>1, <4>2 DEF TypeOK, TellMaster, Goto
    <3>2. w \notin Told /\ w \in Told'
      BY <3>1 DEF Told, Silent, NotYet
    <3>3. Told \cup {w} \in SUBSET Told'
      BY <3>2, ToldGrows
    <3>4. Cardinality(Told \cup {w}) = Cardinality(Told) + 1
      BY <3>2, ToldFacts, FS_AddElement
    <3>5. Cardinality(Told \cup {w}) <= Cardinality(Told')
      BY <3>3, ToldGrows, FS_Subset
    <3>6. QED
      BY <1>0, <1>1, <2>1, <2>5, <3>4, <3>5 DEF Early
  <2>6. QED
    BY <2>1, <2>2, <2>3, <2>4, <2>5
<1>10. QED
  BY <1>2, <1>3, <1>4, <1>5, <1>6, <1>7, <1>8, <1>9, MasterFrame

\* Everybody is there when the start ends, and nobody when main() returns.
LEMMA JoiningKept ==
  ASSUME DispatchInv, Next
  PROVE  Joining'
<1> USE DEF shared, signals, sessions, history
<1>0. TypeOK /\ Contexts /\ Joining
  BY DEF DispatchInv
<1>a. ASSUME mpc \notin Early, NEW v \in Workers
      PROVE  wpc'[v] \notin NotYet
  <2>1. Moved(v) /\ wpc[v] \notin NotYet
    BY <1>0, <1>a, Moves DEF Joining
  <2>2. QED
    BY <2>1 DEF Moved, NotYet, InLoop
<1>b. ASSUME NEW sig \in {"usr1", "term"}, SignalMaster(sig), list' = list
      PROVE  Joining'
  <2>1. mpc' \notin Early => mpc \notin Early
    BY <1>0, <1>b, SignalMasterFacts DEF Early
  <2>2. mpc' = "over" => mpc = "over"
    BY <1>0, <1>b, SignalMasterFacts
  <2>3. QED
    BY <1>0, <1>a, <1>b, <2>1, <2>2 DEF Joining
<1>1. CASE mpc' = mpc /\ (mpc = "over" => list' = list)
  BY <1>0, <1>1, <1>a DEF Joining
<1>2. CASE mpc' \in Early
  BY <1>2 DEF Joining, Early
<1>3. CASE mpc \notin Early /\ mpc' \notin Early \cup {"over"}
  BY <1>3, <1>a DEF Joining
<1>4. CASE SleepEnds
  <2>1. mpc' # "over" /\ (mpc' \notin Early => mpc \notin Early)
    BY <1>4 DEF SleepEnds, AfterSleep, Early
  <2>2. QED
    BY <1>a, <2>1 DEF Joining
<1>5. CASE CountStarted
  <2>1. CASE mpc' \in Early
    BY <1>2, <2>1
  <2>2. CASE Len(list) = Cpus
    <3>1. \A v \in Workers : In(v, list)
      BY <1>0, <2>2, FullList, WorkersAssumption DEF TypeOK, Contexts, Cpus
    <3>2. mpc' # "over" /\ wpc' = wpc
      BY <1>5 DEF CountStarted
    <3>3. QED
      BY <1>0, <3>1, <3>2 DEF Contexts, Joining
  <2>3. QED
    BY <1>5, <2>1, <2>2 DEF CountStarted, Early
<1>6. CASE CountLeft
  BY <1>6, <1>a DEF CountLeft, NobodyLeft, Joining, Early
<1>7. CASE Interrupt \/ \E w \in Workers : TellMaster(w)
  BY <1>b, <1>7 DEF Interrupt, TellMaster
<1>8. QED
  BY <1>1, <1>2, <1>3, <1>4, <1>5, <1>6, <1>7, MasterFrame

\* A session joins the global list only through the master and a callback.
LEMMA NewFrame ==
  ASSUME DispatchInv, Next, NEW s \in Sessions, In(s, new'), s \notin late'
  PROVE  \/ In(s, new) /\ s \notin late
         \/ MasterPosts /\ ~stop
         \/ \E w \in Workers : wpc'[w] = "posted"
<1> USE DEF shared, signals, sessions, history
<1>0. TypeOK /\ Placed
  BY DEF DispatchInv
<1>1. late \subseteq late'
  <2>1. CASE MasterPosts
    BY <2>1 DEF MasterPosts
  <2>2. CASE \/ MaskSignals \/ BindStop \/ BindNotify \/ OpenSignals \/ SleepEnds \/ CountStarted
             \/ Configured \/ LookAtStop \/ CountLeft \/ Interrupt \/ Finished
             \/ CreateWorker \/ WakeToStop \/ MasterWakes
    BY <2>2 DEF MaskSignals, BindStop, BindNotify, OpenSignals, SleepEnds, CountStarted,
                Configured, LookAtStop, CountLeft, Interrupt, Finished, vars,
                CreateWorker, WakeToStop, MasterWakes
  <2>3. CASE \E w \in Workers :
             \/ InstallNotify(w) \/ MakeRing(w) \/ OpenWorker(w) \/ TellMaster(w)
             \/ WakeNotified(w) \/ LooksForNew(w) \/ PickedUpAll(w)
             \/ FindsNothing(w) \/ Waits(w) \/ CommandArrives(w) \/ JoinContexts(w) \/ Detach(w)
             \/ WorkerWakes(w) \/ PicksUp(w) \/ ObeysFlag(w) \/ AfterWait(w)
    BY <2>3 DEF InstallNotify, MakeRing, OpenWorker, TellMaster, WakeNotified, LooksForNew,
              PickedUpAll, FindsNothing, Waits, CommandArrives, JoinContexts, Detach, WorkerWakes,
              PicksUp, ObeysFlag, AfterWait
  <2>4. CASE \E w \in Workers, r \in Sessions : SessionMoves(w, r)
    BY <2>4 DEF SessionMoves, Callback, Ends, NotifyExitToAll, StopOnPurpose, Chat, WaitEnds,
                WorkerPosts
  <2>5. QED
    BY <2>1, <2>2, <2>3, <2>4 DEF Next, MasterStep, WorkerStep, WorkerChoice, SessionMoves
<1>2. CASE UNCHANGED new
  BY <1>1, <1>2 DEF In
<1>3. CASE MasterPosts
  <2>1. Fresh \in Sessions /\ ss[Fresh] = "unborn" /\ ~In(Fresh, new)
    BY <1>0, <1>3, FreshFacts DEF MasterPosts, Placed
  <2>2. \A y : In(y, new') <=> In(y, new) \/ y = Fresh
    BY <1>0, <1>3, <2>1, AppendFacts DEF TypeOK, Placed, MasterPosts, Joined
  <2>3. stop => Fresh \in late'
    BY <1>3 DEF MasterPosts
  <2>4. QED
    BY <1>1, <1>3, <2>2, <2>3
<1>4. CASE \E w \in Workers : PicksUp(w)
  <2>1. \A y : In(y, new') <=> In(y, new) /\ y # Head(new)
    BY <1>0, <1>4, TailFacts DEF TypeOK, Placed, PicksUp, WithoutHead
  <2>2. QED
    BY <1>1, <2>1
<1>5. CASE \E w \in Workers, r \in Sessions : WorkerPosts(w, r)
  BY <1>0, <1>5 DEF TypeOK, WorkerPosts, Goto
<1>6. CASE \E w \in Workers : ObeysFlag(w) \/ AfterWait(w)
  BY <1>2, <1>6 DEF ObeysFlag, AfterWait
<1>7. CASE \E w \in Workers, r \in Sessions : SessionMoves(w, r) /\ ~WorkerPosts(w, r)
  BY <1>2, <1>7 DEF SessionMoves, Callback, Ends, NotifyExitToAll, StopOnPurpose, Chat, WaitEnds
<1>8. QED
  BY <1>2, <1>3, <1>4, <1>5, <1>6, <1>7, SessionFrame

\* Nobody leaves while there is a new session.
LEMMA LeavesLastKept ==
  ASSUME DispatchInv, Next
  PROVE  LeavesLast'
<1>0. TypeOK /\ LeavesLast /\ Signals /\ Workers # {}
  BY WorkersAssumption DEF DispatchInv
<1> SUFFICES ASSUME NEW s \in Sessions, In(s, new'), s \notin late'
             PROVE  \E w \in Workers : wpc'[w] \notin {"leaving", "left", "gone"}
  BY DEF LeavesLast, In
<1>1. CASE In(s, new) /\ s \notin late
  <2>1. PICK v \in Workers : wpc[v] \notin {"leaving", "left", "gone"}
    BY <1>0, <1>1 DEF LeavesLast
  <2>2. Moved(v) /\ new # <<>>
    BY <1>1, Moves DEF In
  <2>3. wpc'[v] \notin {"leaving", "left", "gone"}
    BY <2>1, <2>2 DEF Moved, WorkToDo, InLoop
  <2>4. QED
    BY <2>3
<1>2. CASE MasterPosts /\ ~stop
  <2>1. wpc' = wpc
    BY <1>2 DEF MasterPosts
  <2>2. QED
    BY <1>0, <1>2, <2>1 DEF Signals
<1>3. CASE \E w \in Workers : wpc'[w] = "posted"
  BY <1>3
<1>4. QED
  BY <1>1, <1>2, <1>3, NewFrame

\* A signal is seen by the worker it is sent to, or counted as missed; and one
\* that somebody missed stays missed until that worker wakes up.
LEMMA KillIsNoticed ==
  ASSUME TypeOK, NEW K \in SUBSET Workers, NEW w \in Workers \cup {NoWorker}, NEW pc \in WPC,
         Kill(K, w, pc), w \in Workers => pc = "loop"
  PROVE  /\ \/ missed' # {} \/ \E v \in Workers : Noticed(v)'
            \/ missed = {} /\ \A v \in Workers : ~Noticed(v)
         /\ K # {} /\ (\A v \in K : wpc[v] \notin {"none", "start", "handler", "left", "gone"}) =>
              missed' # {} \/ \E v \in Workers : Noticed(v)'
<1>a. w \in Workers => wpc'[w] = "loop"
  <2>1. \A v \in Workers : v = w => wpc'[v] = pc
    BY KillFacts
  <2>2. QED
    BY <2>1
<1>b. ASSUME NEW v \in Workers, v # w
      PROVE  \/ wpc'[v] = wpc[v] /\ (v \in K => wpc[v] \notin {"waiting", "chat"})
             \/ wpc[v] = "waiting" /\ wpc'[v] = "after"
             \/ wpc[v] = "chat" /\ wpc'[v] = "loop"
  <2>1. \A u \in Workers \ {w} :
          \/ wpc'[u] = wpc[u] /\ (u \in K => wpc[u] \notin {"waiting", "chat"})
          \/ u \in K /\ wpc[u] = "waiting" /\ wpc'[u] = "after"
          \/ u \in K /\ wpc[u] = "chat" /\ wpc'[u] = "loop"
    BY KillFacts
  <2>2. QED
    BY <1>b, <2>1
<1>1. ASSUME NEW v \in Workers, Noticed(v)
      PROVE  Noticed(v)'
  <2>1. CASE v = w
    BY <1>a, <1>1, <2>1 DEF Noticed, Looking, InLoop
  <2>2. CASE v # w
    <3>1. wpend \subseteq wpend'
      BY DEF Kill
    <3>2. \/ wpc'[v] = wpc[v]
          \/ wpc[v] = "waiting" /\ wpc'[v] = "after"
          \/ wpc[v] = "chat" /\ wpc'[v] = "loop"
      BY <1>b, <2>2
    <3>3. QED
      BY <1>1, <3>1, <3>2 DEF Noticed, Looking, InLoop
  <2>3. QED
    BY <2>1, <2>2
<1>2. ASSUME NEW v \in missed
      PROVE  missed' # {} \/ \E u \in Workers : Noticed(u)'
  <2>1. CASE v \in missed'
    BY <2>1
  <2>2. CASE v \notin missed'
    <3>1. v \in Workers /\ v \in K /\ wpc[v] = "waiting"
      BY <1>2, <2>2 DEF Kill, TypeOK
    <3>2. wpc'[v] \in {"after", "loop"}
      <4>1. CASE v = w
        BY <1>a, <3>1, <4>1
      <4>2. CASE v # w
        BY <1>b, <3>1, <4>2
      <4>3. QED
        BY <4>1, <4>2
    <3>3. Noticed(v)'
      BY <3>2 DEF Noticed, Looking, InLoop
    <3>4. QED
      BY <3>1, <3>3
  <2>3. QED
    BY <2>1, <2>2
<1>3. ASSUME NEW v \in K, wpc[v] \notin {"none", "start", "handler", "left", "gone"}
      PROVE  missed' # {} \/ \E u \in Workers : Noticed(u)'
  <2>1. CASE wpc[v] \in {"looked", "leaving", "dead"}
    BY <2>1 DEF Kill
  <2>2. CASE v = w
    BY <1>a, <2>2 DEF Noticed, Looking, InLoop
  <2>3. CASE v # w /\ wpc[v] = "listed"
    <3>1. wpc'[v] = "listed" /\ v \in wpend'
      BY <1>b, <2>3 DEF Kill, Masked
    <3>2. QED
      BY <3>1 DEF Noticed
  <2>4. CASE v # w /\ wpc[v] \notin {"looked", "leaving", "dead", "listed"}
    <3>1. wpc[v] \in Looking \cup {"waiting"}
      BY <1>3, <2>4 DEF TypeOK, WPC, Looking, InLoop
    <3>2. \/ wpc'[v] = wpc[v] /\ wpc[v] # "waiting"
          \/ wpc'[v] = "after"
          \/ wpc'[v] = "loop"
      BY <1>b, <2>4
    <3>3. Noticed(v)'
      BY <3>1, <3>2 DEF Noticed, Looking, InLoop
    <3>4. QED
      BY <3>3
  <2>5. QED
    BY <2>1, <2>2, <2>3, <2>4
<1>4. QED
  BY <1>1, <1>2, <1>3

\* Somebody looks at the list of new sessions, or a signal was missed.
LEMMA WillLookKept ==
  ASSUME DispatchInv, Next
  PROVE  WillLook'
<1> USE DEF shared, signals, sessions, history
<1>0. /\ TypeOK /\ Contexts /\ Placed /\ QuietStart /\ Signals /\ Joining /\ WillLook
      /\ NoWorker \notin Workers /\ Workers # {} /\ "none" \in WPC /\ "loop" \in WPC
  BY WorkersAssumption DEF DispatchInv, WPC
<1> SUFFICES ASSUME ~stop', new' # <<>>, mpc' # "posted"
             PROVE  missed' # {} \/ \E w \in Workers : Noticed(w)'
  BY DEF WillLook, Noticed
<1>1. ~stop
  BY SignalsKept
<1>2. CASE MasterWakes
  <2>1. PICK K \in SUBSET Workers :
          Kill(K, NoWorker, "none") /\ (\A v \in K : In(v, list)) /\ (list # <<>> => K # {})
    BY <1>0, <1>2, WakeRrFacts DEF MasterWakes
  <2>2. \A v \in Workers : In(v, list)
    <3>1. mpc \notin Early
      BY <1>2 DEF MasterWakes, Early
    <3>2. \A v \in Workers : wpc[v] \notin NotYet \cup NoMore
      BY <1>0, <1>1, <3>1 DEF Joining, Signals, NoMore
    <3>3. QED
      BY <1>0, <3>2 DEF Contexts
  <2>3. K # {}
    <3>1. list # <<>>
      BY <1>0, <2>2 DEF In
    <3>2. QED
      BY <2>1, <3>1
  <2>4. \A v \in K : wpc[v] \notin {"none", "start", "handler", "left", "gone"}
    BY <1>0, <2>1 DEF Contexts, NotYet, NoMore
  <2>5. QED
    BY <1>0, <2>1, <2>3, <2>4, KillIsNoticed
<1>3. ASSUME ~MasterWakes, new # <<>>, mpc # "posted"
      PROVE  missed' # {} \/ \E w \in Workers : Noticed(w)'
  <2>0. missed # {} \/ \E v \in Workers : Noticed(v)
    BY <1>0, <1>1, <1>3 DEF WillLook
  <2>1. ASSUME NEW w \in Workers, WorkerWakes(w)
        PROVE  missed' # {} \/ \E v \in Workers : Noticed(v)'
    <3>1. PICK K \in SUBSET Workers : Kill(K, w, "loop")
      BY <1>0, <2>1, WakeRrFacts DEF WorkerWakes
    <3>2. QED
      BY <1>0, <2>0, <3>1, KillIsNoticed
  <2>2. ASSUME NEW w \in Workers, WakeNotified(w)
        PROVE  missed' # {} \/ \E v \in Workers : Noticed(v)'
    <3>1. Kill(Range(list), w, "loop") /\ Range(list) \in SUBSET Workers
      BY <1>0, <2>2, RangeFacts DEF WakeNotified, WakeAll, TypeOK
    <3>2. QED
      BY <1>0, <2>0, <3>1, KillIsNoticed
  <2>3. CASE WakeToStop
    <3>1. Kill(Range(list), NoWorker, "none") /\ Range(list) \in SUBSET Workers
      BY <1>0, <2>3, RangeFacts DEF WakeToStop, WakeAll, TypeOK
    <3>2. QED
      BY <1>0, <2>0, <3>1, KillIsNoticed
  <2>4. ASSUME missed \subseteq missed', \A v \in Workers : Noticed(v) => Noticed(v)'
        PROVE  missed' # {} \/ \E v \in Workers : Noticed(v)'
    BY <2>0, <2>4
  <2>5. CASE \/ MaskSignals \/ BindStop \/ BindNotify \/ OpenSignals \/ SleepEnds \/ CountStarted
             \/ Configured \/ LookAtStop \/ CountLeft \/ Interrupt \/ MasterPosts \/ Finished
    <3>1. missed' = missed /\ wpc' = wpc /\ wpend' = wpend
      BY <2>5 DEF MaskSignals, BindStop, BindNotify, OpenSignals, SleepEnds, CountStarted,
                  Configured, LookAtStop, CountLeft, Interrupt, MasterPosts, Finished, vars
    <3>2. QED
      BY <2>4, <3>1 DEF Noticed
  <2>6. CASE CreateWorker
    <3>1. missed' = missed /\ wpend' = wpend
      BY <2>6 DEF CreateWorker
    <3>2. \A v \in Workers : wpc'[v] = wpc[v] \/ wpc[v] = "none"
      BY <1>0, <2>6 DEF TypeOK, CreateWorker
    <3>3. QED
      BY <2>4, <3>1, <3>2 DEF Noticed, Looking, InLoop
  <2>7. ASSUME NEW w \in Workers, MakeRing(w)
        PROVE  missed' # {} \/ \E v \in Workers : Noticed(v)'
    <3>1. /\ wpend' = wpend /\ missed \subseteq missed' /\ \A v \in Workers \ {w} : wpc'[v] = wpc[v]
          /\ wpc[w] = "listed"
          /\ wpc'[w] = "ready" \/ (wpc'[w] = "dead" /\ (w \in wpend => w \in missed'))
      BY <1>0, <2>7 DEF TypeOK, MakeRing, Goto
    <3>2. QED
      BY <2>0, <3>1 DEF Noticed, Looking, InLoop
  <2>8. ASSUME NEW w \in Workers, OpenWorker(w)
        PROVE  missed' # {} \/ \E v \in Workers : Noticed(v)'
    <3>1. wpc'[w] = "opened"
      BY <1>0, <2>8 DEF TypeOK, OpenWorker, Goto
    <3>2. QED
      BY <3>1 DEF Noticed, Looking
  <2>9. ASSUME NEW w \in Workers, NEW from, NEW to, Goto(w, from, to), UNCHANGED <<missed, wpend>>,
               to \in Looking \/ from \notin Looking \cup {"listed"}
        PROVE  missed' # {} \/ \E v \in Workers : Noticed(v)'
    <3>1. wpc[w] = from /\ wpc'[w] = to /\ \A v \in Workers \ {w} : wpc'[v] = wpc[v]
      BY <1>0, <2>9 DEF TypeOK, Goto
    <3>2. \A v \in Workers : Noticed(v) => Noticed(v)'
      BY <2>9, <3>1 DEF Noticed
    <3>3. QED
      BY <2>4, <2>9, <3>2
  <2>10. ASSUME NEW w \in Workers, \/ InstallNotify(w) \/ JoinContexts(w)
                                   \/ TellMaster(w) \/ Waits(w) \/ Detach(w)
         PROVE  missed' # {} \/ \E v \in Workers : Noticed(v)'
    <3>1. "loop" \in Looking /\ \A p \in {"start", "handler", "left", "looked", "leaving"} :
                                  p \notin Looking \cup {"listed"}
      BY DEF Looking, InLoop
    <3>2. QED
      BY <2>9, <2>10, <3>1 DEF InstallNotify, JoinContexts, TellMaster, Waits, Detach
  <2>11. ASSUME NEW w \in Workers, \/ CommandArrives(w) \/ LooksForNew(w) \/ PickedUpAll(w)
                                   \/ ObeysFlag(w) \/ AfterWait(w)
         PROVE  missed' # {} \/ \E v \in Workers : Noticed(v)'
    <3>1. "loop" \in Looking /\ "picking" \in Looking
      BY DEF Looking, InLoop
    <3>2. QED
      BY <1>1, <2>9, <2>11, <3>1 DEF CommandArrives, LooksForNew, PickedUpAll, ObeysFlag, AfterWait
  <2>12. ASSUME NEW w \in Workers, FindsNothing(w)
         PROVE  FALSE
    BY <1>3, <2>12 DEF FindsNothing
  <2>13. ASSUME NEW w \in Workers, PicksUp(w)
         PROVE  missed' # {} \/ \E v \in Workers : Noticed(v)'
    <3>1. wpc'[w] = "picking"
      BY <2>13 DEF PicksUp
    <3>2. QED
      BY <3>1 DEF Noticed, Looking, InLoop
  <2>14. ASSUME NEW w \in Workers, NEW s \in Sessions, SessionMoves(w, s)
         PROVE  missed' # {} \/ \E v \in Workers : Noticed(v)'
    <3>1. wpc'[w] \in {"loop", "notified", "purposed", "chat", "after", "posted"}
      BY <1>0, <2>14 DEF TypeOK, SessionMoves, Callback, Ends, NotifyExitToAll, StopOnPurpose, Chat,
                         WaitEnds, WorkerPosts, Goto
    <3>2. QED
      BY <3>1 DEF Noticed, Looking, InLoop
  <2>15. QED
    BY <1>3, <2>1, <2>2, <2>3, <2>5, <2>6, <2>7, <2>8, <2>10, <2>11, <2>12, <2>13, <2>14
       DEF Next, MasterStep, WorkerStep, WorkerChoice, SessionMoves
<1>4. CASE new = <<>>
  <2>1. \E w \in Workers, s \in Sessions : WorkerPosts(w, s)
    BY <1>4, SessionFrame DEF MasterPosts, PicksUp, ObeysFlag, AfterWait, SessionMoves, Callback,
                              Ends, NotifyExitToAll, StopOnPurpose, Chat, WaitEnds
  <2>2. PICK w \in Workers : wpc'[w] = "posted"
    BY <1>0, <2>1 DEF TypeOK, WorkerPosts, Goto
  <2>3. QED
    BY <2>2 DEF Noticed, Looking, InLoop
<1>5. CASE mpc = "posted" /\ ~MasterWakes
  <2>1. mpc' = mpc
    <3>1. ~SleepEnds /\ ~CountStarted /\ ~CountLeft
      BY <1>5 DEF SleepEnds, AfterSleep, CountStarted, CountLeft
    <3>2. CASE Interrupt \/ \E w \in Workers : TellMaster(w)
      BY <1>0, <1>5, <3>2, SignalMasterFacts DEF Interrupt, TellMaster
    <3>3. QED
      BY <1>5, <3>1, <3>2, MasterFrame DEF Early
  <2>2. QED
    BY <1>5, <2>1
<1>6. QED
  BY <1>2, <1>3, <1>4, <1>5

-----------------------------------------------------------------------------
(* The theorems. *)

\* The start of the program.
LEMMA InitInv ==
  ASSUME Init
  PROVE  DispatchInv
<1> USE DEF Init
<1>1. TypeOK
  <2>1. list \in Seq(Workers) /\ new \in Seq(Sessions)
    OBVIOUS
  <2>2. wpc \in [Workers -> WPC] /\ ss \in [Sessions -> SPC] /\ mpc \in MPC
    BY DEF WPC, MPC, SPC
  <2>3. QED
    BY <2>1, <2>2 DEF TypeOK
<1>2. Contexts /\ LeavesLast
  BY DEF Contexts, LeavesLast, Distinct, In, NotYet
<1>3. Placed
  BY WorkersAssumption DEF Placed, Distinct, In
<1>4. QuietStart /\ Signals /\ Joining
  BY DEF QuietStart, Signals, Joining, Early
<1>5. Counted
  BY ToldFacts DEF Counted
<1>6. WillLook
  BY DEF WillLook
<1>7. QED
  BY <1>1, <1>2, <1>3, <1>4, <1>5, <1>6 DEF DispatchInv

\* Every step of the master and of the workers, and the end.
LEMMA NextInv ==
  ASSUME DispatchInv, [Next]_vars
  PROVE  DispatchInv'
<1>1. CASE Next
  BY <1>1, TypeKept, ContextsKept, PlacedKept, QuietKept, SignalsKept, CountedKept, JoiningKept,
     LeavesLastKept, WillLookKept DEF DispatchInv
<1>2. CASE UNCHANGED vars
  BY <1>2 DEF DispatchInv, vars, shared, signals, sessions, history, TypeOK, Contexts, Placed,
     QuietStart, Signals, Counted, Told, Patience, Cpus, Joining, LeavesLast, WillLook, Noticed,
     In, Distinct
<1>3. QED
  BY <1>1, <1>2

\* The inductive invariant holds for any number of processors and sessions.
THEOREM DispatchInvariance == Spec => []DispatchInv
<1>1. Init => DispatchInv
  BY InitInv
<1>2. DispatchInv /\ [Next]_vars => DispatchInv'
  BY NextInv
<1>3. QED
  BY <1>1, <1>2, PTL DEF Spec

\* The signals of the workers only wake the master: they never set the stop
\* flag, and the start gives up only after eight full seconds per processor
\* (signals.c, esq_start_worker_threads).
THEOREM SignalsTheorem == Spec => []SignalsOnlyWake
<1>1. DispatchInv => SignalsOnlyWake
  <2> SUFFICES ASSUME DispatchInv
               PROVE  SignalsOnlyWake
    OBVIOUS
  <2>1. StopOnlyWhenAsked
    BY DEF DispatchInv, Signals, StopOnlyWhenAsked
  <2>2. ASSUME mpc = "failed", ~asked
        PROVE  full >= Cpus
    <3>1. tries + 0 <= full + Cardinality(Told) /\ tries >= 2 * Cpus
      BY <2>2 DEF DispatchInv, Counted, Early, Patience
    <3>2. tries \in Nat /\ full \in Nat
      BY DEF DispatchInv, TypeOK
    <3>3. QED
      BY <3>1, <3>2, ToldFacts
  <2>3. QED
    BY <2>1, <2>2 DEF SignalsOnlyWake, GivesUpLate
<1>2. QED
  BY <1>1, DispatchInvariance, PTL

\* The list of contexts and the pointer of the round robin hold contexts of
\* threads that are in their loop, or whose ring could not be made
\* (esq_worker_ctx_init, esq_worker_ctx_detach).
THEOREM ContextsTheorem == Spec => []ContextsAlive
<1>1. DispatchInv => ContextsAlive
  <2> SUFFICES ASSUME DispatchInv, NEW w \in Range(list) \cup ({rr} \ {NoWorker})
               PROVE  wpc[w] \notin {"none", "start", "handler", "left", "gone"}
    BY DEF ContextsAlive
  <2>1. TypeOK /\ Contexts
    BY DEF DispatchInv
  <2>2. In(w, list) /\ w \in Workers
    BY <2>1, RangeFacts DEF TypeOK, Contexts
  <2>3. QED
    BY <2>1, <2>2 DEF Contexts, NotYet, NoMore
<1>2. QED
  BY <1>1, DispatchInvariance, PTL

\* When main() returns every worker has left, and every session is over but
\* those the master posted during the stop (esq_stop_worker_threads).
THEOREM StopTheorem == Spec => []StopLeavesNothing
<1>1. DispatchInv => StopLeavesNothing
  <2> SUFFICES ASSUME DispatchInv, mpc = "over"
               PROVE  /\ \A w \in Workers : wpc[w] \in {"left", "gone"}
                      /\ \A s \in Sessions \ late : ss[s] \in {"unborn", "over"}
    BY DEF StopLeavesNothing
  <2>0. TypeOK /\ Contexts /\ Placed /\ Joining /\ LeavesLast
    BY DEF DispatchInv
  <2>1. \A w \in Workers : wpc[w] \in {"left", "gone"}
    <3>1. list = <<>> /\ \A w \in Workers : wpc[w] \notin NotYet
      BY <2>0 DEF Joining, Early
    <3>2. \A w \in Workers : ~In(w, list)
      BY <3>1 DEF In
    <3>3. QED
      BY <2>0, <3>1, <3>2 DEF Contexts, NotYet, NoMore
  <2>2. ASSUME NEW s \in Sessions \ late
        PROVE  ss[s] \in {"unborn", "over"}
    <3>1. at[s] = NoWorker
      BY <2>0, <2>1 DEF Placed, TypeOK, InLoop
    <3>2. ~In(s, new)
      BY <2>0, <2>1 DEF LeavesLast
    <3>3. QED
      BY <2>0, <3>1, <3>2 DEF Placed
  <2>3. QED
    BY <2>1, <2>2
<1>2. QED
  BY <1>1, DispatchInvariance, PTL

\* A posted session is left waiting only when the signal for it came between a
\* worker's look at the list and its wait, or went to a thread that had died
\* (esq_session_wind_up_rr, esq_worker_loop).
THEOREM NeglectTheorem == Spec => []NeglectOnlyByRace
<1>1. DispatchInv => NeglectOnlyByRace
  BY DEF DispatchInv, WillLook, Noticed, Looking, InLoop, NeglectOnlyByRace
<1>2. QED
  BY <1>1, DispatchInvariance, PTL
=============================================================================
