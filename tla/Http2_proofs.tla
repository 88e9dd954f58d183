---------------------------- MODULE Http2_proofs ----------------------------
(***************************************************************************)
(* For any number of connections, streams and descriptors: a descriptor    *)
(* that somebody holds is his own, none is left behind but by the          *)
(* exception in the code, and what is sent and stored for a stream is its  *)
(* own file.                                                               *)
(***************************************************************************)
EXTENDS Http2, WellFoundedInduction, SequenceTheorems, TLAPS

Descs ==
  [kind : {"sock"}, of : Conns, pos : Nat] \cup [kind : {"file", "dir", "post"}, of : Streams, pos : Nat]

Ctx ==
  [alloc : {TRUE}, fd : Fds \cup {NoFd}, dir : Fds \cup {NoFd}, post_fd : Fds \cup {NoFd},
   post_state : {"INIT", "OPEN", "RECV", "ERROR", "FINISHED"}, path : BOOLEAN]

Elements == {"BOUNDARY", "PART", "FILE_PART", "EMPTY_FILE_PART", "VALUE", "FINISH"}

Stream ==
  [st : {"idle", "open", "answering", "gone"}, conn : Conns \cup {NoConn},
   path : Paths \cup {"missing"}, post : BOOLEAN, svc : BOOLEAN, ctx : Ctx \cup {NoCtx},
   rst : BOOLEAN, last : Elements \cup {"VOID"}, values : Nat, done : BOOLEAN, mixed : BOOLEAN,
   sent : Seq(Streams \X Nat), refused : BOOLEAN]

Worlds ==
  [strm : [Streams -> Stream], fds : [Fds -> Descs \cup {Free}],
   heap : SUBSET ({"ctx", "path"} \X Streams), disk : Seq(Streams \cup {Hole}), ok : BOOLEAN]

Connection == [cb : {"none", "alpn", "sch", "fd", "closed"}, fd : Fds \cup {NoFd}]

\* A descriptor opened for owner o.
Is(e, kind, o) == e.kind = kind /\ e.of = o

\* Among the descriptors t, those in the context x of stream s are its own.
Holds(s, x, t) ==
  /\ x.fd # NoFd => Is(t[x.fd], "file", s)
  /\ x.dir # NoFd => Is(t[x.dir], "dir", s)
  /\ x.post_fd # NoFd => Is(t[x.post_fd], "post", s)

\* How far an upload has come.
PostFits(x) ==
  /\ x.ctx.post_state = "INIT" => x.ctx.post_fd = NoFd /\ x.values = 0 /\ ~x.done
  /\ x.ctx.post_state = "OPEN" => ~x.done
  /\ x.ctx.post_state = "RECV" => ~x.done /\ x.ctx.post_fd # NoFd
  /\ x.ctx.post_state \in {"ERROR", "FINISHED"} => x.ctx.post_fd = NoFd

\* A stream x has a file on the disk: one that is open, or one that is finished.
Upload(x) == x.ctx.alloc /\ x.ctx.post_fd # NoFd

\* What holds of stream s, which is x, with the descriptors t: its place, its context,
\* every descriptor that was opened for it, and the file that it sends.
Fits(s, x, t) ==
  /\ x.st \in {"open", "answering"} => x.conn \in Conns
  /\ x.st = "idle" => x = NewStream
  /\ x.ctx.alloc => x.svc /\ x.st \in {"open", "answering"} /\ Holds(s, x.ctx, t) /\ PostFits(x)
  /\ x.st = "open" /\ x.ctx.alloc => x.ctx.fd = NoFd /\ x.ctx.dir = NoFd /\ ~x.ctx.path
  /\ x.st = "open" => x.sent = <<>>
  /\ x.st = "open" /\ ~x.ctx.alloc /\ ~x.refused => x.values = 0 /\ ~x.done
  /\ \A f \in Fds : t[f] # Free /\ t[f].kind # "sock" /\ t[f].of = s =>
       f \in CtxFds(x.ctx) \/ (t[f].kind = "post" /\ x.refused)
  /\ \A i \in 1 .. Len(x.sent) : x.sent[i] = <<s, i - 1>>
  /\ x.ctx.alloc /\ x.ctx.fd # NoFd => t[x.ctx.fd].pos = Len(x.sent)

\* The blocks of stream s among the heap h.
Blocks(s, x, h) ==
  /\ <<"ctx", s>> \in h => x.ctx.alloc \/ (x.refused /\ "browse" \in flags)
  /\ <<"path", s>> \in h => x.ctx.alloc /\ x.ctx.path

\* An upload of stream s nobody interfered with is on the disk d.
Stored(s, x, t, d) ==
  /\ x.done => ~Upload(x)
  /\ Upload(x) => t[x.ctx.post_fd].pos = x.values
  /\ (Upload(x) \/ x.done) /\ ~x.mixed => d = [i \in 1 .. x.values |-> s]

\* The sockets of the connections cn are those among the descriptors.
Sockets(t, cn) ==
  /\ \A c \in Conns : cn[c].fd # NoFd => Is(t[cn[c].fd], "sock", c)
  /\ \A f \in Fds : t[f] # Free /\ t[f].kind = "sock" => cn[t[f].of].fd = f

\* Uploads that were open at the same time, or after one that was finished, are known.
Mixes(m) ==
  \A x, y \in Streams : x # y /\ (Upload(m[x]) \/ m[x].done) /\ Upload(m[y]) => m[x].mixed

\* What every callback keeps, in whatever state of the work it is.
Sound(w, cn) ==
  /\ w \in Worlds /\ cn \in [Conns -> Connection]
  /\ Sockets(w.fds, cn) /\ Mixes(w.strm)
  /\ \A s \in Streams :
       Fits(s, w.strm[s], w.fds) /\ Blocks(s, w.strm[s], w.heap) /\ Stored(s, w.strm[s], w.fds, w.disk)

\* Between the callbacks.
Http2Inv ==
  /\ flags \in SUBSET {"browse", "upload", "send_index"}
  /\ Sound(World, conn)
  /\ \A c \in Conns : conn[c].cb = "none" => conn[c].fd = NoFd
  /\ \A s \in Streams : strm[s].st = "open" => ~strm[s].refused
-----------------------------------------------------------------------------
(* Descriptors. *)

\* Numbers of descriptors.
LEMMA FdFacts == Fds \subseteq Nat /\ NoFd \notin Fds /\ NoFd \in Int /\ MaxFd \in Nat
BY Http2Assumption DEF Fds, NoFd

\* open hands out a free number.
LEMMA LowestFacts ==
  ASSUME NEW t, CanOpen(t)
  PROVE  Lowest(t) \in Fds /\ t[Lowest(t)] = Free
<1> DEFINE S == {f \in Fds : t[f] = Free}
<1>1. S \subseteq Nat /\ S # {}
  BY FdFacts DEF CanOpen
<1>2. PICK m \in S : \A n \in S : ~(<<n, m>> \in OpToRel(<, Nat))
  BY <1>1, NatLessThanWellFounded, WFMin
<1>3. \A n \in S : ~(n < m)
  BY <1>1, <1>2 DEF OpToRel
<1>4. \A n \in S : m <= n
  BY <1>1, <1>3
<1>5. Min(S) \in S
  BY <1>4 DEF Min
<1>6. QED
  BY <1>5 DEF Lowest

\* close
LEMMA CloseFacts ==
  ASSUME NEW t \in [Fds -> Descs \cup {Free}], NEW S
  PROVE  /\ Close(t, S) \in [Fds -> Descs \cup {Free}]
         /\ \A f \in Fds : Close(t, S)[f] = IF f \in S THEN Free ELSE t[f]
BY DEF Close

\* What is open has a kind that free numbers have not.
LEMMA DescFacts ==
  /\ Free.kind = "free" /\ Free \notin Descs
  /\ \A e \in Descs : /\ e.kind \in {"sock", "file", "dir", "post"} /\ e.pos \in Nat
                      /\ e.kind = "sock" => e.of \in Conns
                      /\ e.kind # "sock" => e.of \in Streams
  /\ \A k \in {"file", "dir", "post"}, s \in Streams :
       /\ Desc(k, s) \in Descs /\ Is(Desc(k, s), k, s) /\ Desc(k, s).pos = 0
       /\ \A e \in Descs \cup {Free} : Is(e, k, s) => e \in Descs /\ e # Free /\ e.kind # "sock"
  /\ \A c \in Conns :
       /\ Desc("sock", c) \in Descs /\ Is(Desc("sock", c), "sock", c)
       /\ \A e \in Descs \cup {Free} : Is(e, "sock", c) => e \in Descs /\ e # Free
<1>1. Free.kind = "free"
  BY DEF Free
<1>2. \A e \in Descs : /\ e.kind \in {"sock", "file", "dir", "post"} /\ e.pos \in Nat
                       /\ e.kind = "sock" => e.of \in Conns
                       /\ e.kind # "sock" => e.of \in Streams
  BY DEF Descs
<1>3. Free \notin Descs
  BY <1>1, <1>2
<1>4. ASSUME NEW k \in {"file", "dir", "post"}, NEW s \in Streams
      PROVE  /\ Desc(k, s) \in Descs /\ Is(Desc(k, s), k, s) /\ Desc(k, s).pos = 0
             /\ \A e \in Descs \cup {Free} : Is(e, k, s) => e \in Descs /\ e # Free /\ e.kind # "sock"
  <2>1. Desc(k, s) \in Descs /\ Is(Desc(k, s), k, s) /\ Desc(k, s).pos = 0
    BY DEF Desc, Descs, Is
  <2>2. QED
    BY <1>1, <2>1 DEF Is
<1>5. ASSUME NEW c \in Conns
      PROVE  /\ Desc("sock", c) \in Descs /\ Is(Desc("sock", c), "sock", c)
             /\ \A e \in Descs \cup {Free} : Is(e, "sock", c) => e \in Descs /\ e # Free
  <2>1. Desc("sock", c) \in Descs /\ Is(Desc("sock", c), "sock", c)
    BY DEF Desc, Descs, Is
  <2>2. QED
    BY <1>1, <2>1 DEF Is
<1>6. QED
  BY <1>1, <1>2, <1>3, <1>4, <1>5

-----------------------------------------------------------------------------
(* The world. *)

\* A world and one of its streams.
LEMMA WorldFacts ==
  ASSUME NEW w, NEW cn, Sound(w, cn), NEW s \in Streams
  PROVE  /\ w \in Worlds
         /\ w.strm \in [Streams -> Stream] /\ w.fds \in [Fds -> Descs \cup {Free}]
         /\ w.heap \in SUBSET ({"ctx", "path"} \X Streams) /\ w.disk \in Seq(Streams \cup {Hole})
         /\ w.strm[s] \in Stream
         /\ w.strm[s].ctx \in Ctx \cup {NoCtx}
         /\ w.strm[s].ctx.alloc => w.strm[s].ctx \in Ctx
         /\ ~w.strm[s].ctx.alloc => w.strm[s].ctx = NoCtx
         /\ w.strm[s].values \in Nat /\ w.strm[s].sent \in Seq(Streams \X Nat)
         /\ Fits(s, w.strm[s], w.fds) /\ Blocks(s, w.strm[s], w.heap)
         /\ Stored(s, w.strm[s], w.fds, w.disk)
         /\ Sockets(w.fds, cn) /\ Mixes(w.strm)
<1>1. /\ w \in Worlds /\ Sockets(w.fds, cn) /\ Mixes(w.strm)
      /\ Fits(s, w.strm[s], w.fds) /\ Blocks(s, w.strm[s], w.heap)
      /\ Stored(s, w.strm[s], w.fds, w.disk)
  BY DEF Sound
<1>2. /\ w.strm \in [Streams -> Stream] /\ w.fds \in [Fds -> Descs \cup {Free}]
      /\ w.heap \in SUBSET ({"ctx", "path"} \X Streams) /\ w.disk \in Seq(Streams \cup {Hole})
  BY <1>1 DEF Worlds
<1>3. w.strm[s] \in Stream
  BY <1>2
<1>4. /\ w.strm[s].ctx \in Ctx \cup {NoCtx} /\ w.strm[s].values \in Nat
      /\ w.strm[s].sent \in Seq(Streams \X Nat)
  BY <1>3 DEF Stream
<1>5. NoCtx.alloc = FALSE /\ \A e \in Ctx : e.alloc = TRUE
  BY DEF NoCtx, Ctx
<1>6. QED
  BY <1>1, <1>2, <1>3, <1>4, <1>5

\* A descriptor changes from a to b on behalf of stream s.
Mine(s, a, b) ==
  /\ a = Free \/ (a.kind # "sock" /\ a.of = s)
  /\ b = Free \/ (b.kind # "sock" /\ b.of = s)

\* A step from w to v changes stream s, descriptors and blocks of its own, and the
\* disk if no upload of another stream stands on it.
Own(w, v, s) ==
  /\ \A y \in Streams \ {s} : v.strm[y] = w.strm[y]
  /\ \A f \in Fds : v.fds[f] = w.fds[f] \/ Mine(s, w.fds[f], v.fds[f])
  /\ \A y \in Streams \ {s} : /\ <<"ctx", y>> \in v.heap => <<"ctx", y>> \in w.heap
                              /\ <<"path", y>> \in v.heap => <<"path", y>> \in w.heap
  /\ \/ v.disk = w.disk
     \/ \A y \in Streams \ {s} : Upload(w.strm[y]) \/ w.strm[y].done => w.strm[y].mixed

\* Such a step leaves the others as they were.
LEMMA OneStream ==
  ASSUME NEW w, NEW cn, Sound(w, cn), NEW v \in Worlds, NEW s \in Streams, Own(w, v, s),
         Mixes(v.strm),
         Fits(s, v.strm[s], v.fds), Blocks(s, v.strm[s], v.heap),
         Stored(s, v.strm[s], v.fds, v.disk)
  PROVE  Sound(v, cn)
<1> USE DEF Own
<1>0. /\ cn \in [Conns -> Connection] /\ w \in Worlds
      /\ w.fds \in [Fds -> Descs \cup {Free}] /\ v.fds \in [Fds -> Descs \cup {Free}]
  BY DEF Sound, Worlds
<1>1. Sockets(v.fds, cn)
  <2>1. Sockets(w.fds, cn)
    BY DEF Sound
  <2>2. ASSUME NEW c \in Conns, cn[c].fd # NoFd
        PROVE  Is(v.fds[cn[c].fd], "sock", c)
    <3>1. cn[c].fd \in Fds /\ Is(w.fds[cn[c].fd], "sock", c)
      BY <1>0, <2>1, <2>2 DEF Sockets, Connection
    <3>2. ~Mine(s, w.fds[cn[c].fd], v.fds[cn[c].fd])
      BY <1>0, <3>1, DescFacts DEF Mine, Is
    <3>3. QED
      BY <3>1, <3>2
  <2>3. ASSUME NEW f \in Fds, v.fds[f] # Free, v.fds[f].kind = "sock"
        PROVE  cn[v.fds[f].of].fd = f
    <3>1. v.fds[f] = w.fds[f]
      BY <2>3 DEF Mine
    <3>2. QED
      BY <2>1, <2>3, <3>1 DEF Sockets
  <2>4. QED
    BY <2>2, <2>3 DEF Sockets
<1>2. ASSUME NEW y \in Streams \ {s}
      PROVE  /\ Fits(y, v.strm[y], v.fds) /\ Blocks(y, v.strm[y], v.heap)
             /\ Stored(y, v.strm[y], v.fds, v.disk)
  <2> DEFINE x == w.strm[y]
  <2>1. v.strm[y] = x
    OBVIOUS
  <2>2. /\ x.ctx.alloc => x.ctx \in Ctx
        /\ Fits(y, x, w.fds) /\ Blocks(y, x, w.heap) /\ Stored(y, x, w.fds, w.disk)
    BY WorldFacts
  <2> HIDE DEF x
  <2>3. ASSUME NEW f \in Fds, NEW k \in {"file", "dir", "post"}, Is(w.fds[f], k, y)
        PROVE  v.fds[f] = w.fds[f]
    <3>1. ~Mine(s, w.fds[f], v.fds[f])
      BY <1>0, <2>3, DescFacts DEF Mine, Is
    <3>2. QED
      BY <3>1
  <2>4. ASSUME x.ctx.alloc
        PROVE  /\ Holds(y, x.ctx, v.fds)
               /\ x.ctx.fd # NoFd => v.fds[x.ctx.fd] = w.fds[x.ctx.fd]
               /\ x.ctx.post_fd # NoFd => v.fds[x.ctx.post_fd] = w.fds[x.ctx.post_fd]
    <3>1. /\ x.ctx.fd \in Fds \cup {NoFd} /\ x.ctx.dir \in Fds \cup {NoFd}
          /\ x.ctx.post_fd \in Fds \cup {NoFd} /\ Holds(y, x.ctx, w.fds)
      BY <2>2, <2>4 DEF Ctx, Fits
    <3>2. QED
      BY <2>3, <3>1 DEF Holds
  <2>5. ASSUME NEW f \in Fds, v.fds[f] # Free, v.fds[f].kind # "sock", v.fds[f].of = y
        PROVE  f \in CtxFds(x.ctx) \/ (v.fds[f].kind = "post" /\ x.refused)
    <3>1. v.fds[f] = w.fds[f]
      BY <2>5 DEF Mine
    <3>2. QED
      BY <2>2, <2>5, <3>1 DEF Fits
  <2>6. Fits(y, x, v.fds)
    BY <2>2, <2>4, <2>5 DEF Fits
  <2>7. Blocks(y, x, v.heap)
    <3>1. /\ <<"ctx", y>> \in v.heap => <<"ctx", y>> \in w.heap
          /\ <<"path", y>> \in v.heap => <<"path", y>> \in w.heap
      OBVIOUS
    <3>2. QED
      BY <2>2, <3>1, Zenon DEF Blocks
  <2>8. Stored(y, x, v.fds, v.disk)
    <3>1. (Upload(x) \/ x.done) /\ ~x.mixed => v.disk = w.disk
      BY DEF x
    <3>2. QED
      BY <2>2, <2>4, <3>1 DEF Stored, Upload
  <2>9. QED
    BY <2>1, <2>6, <2>7, <2>8
<1>3. QED
  BY <1>0, <1>1, <1>2 DEF Sound

\* A stream that does not begin an upload mixes with no other.
LEMMA NoNewUpload ==
  ASSUME NEW m, Mixes(m), NEW n, NEW s \in Streams, \A y \in Streams \ {s} : n[y] = m[y],
         Upload(n[s]) => Upload(m[s]), n[s].done => Upload(m[s]) \/ m[s].done, n[s].mixed = m[s].mixed
  PROVE  Mixes(n)
BY DEF Mixes

\* What a callback that serves stream s makes of a world: it may refuse to answer
\* only if it fails.
Callback(w, v, s, cn) ==
  /\ Sound(v, cn)
  /\ v.strm[s].conn = w.strm[s].conn
  /\ v.strm[s].refused => w.strm[s].refused \/ ~v.ok
  /\ \A y \in Streams \ {s} : v.strm[y].st = w.strm[y].st /\ v.strm[y].refused = w.strm[y].refused

\* One callback after another, the first of which does not refuse.
LEMMA CallbackThen ==
  ASSUME NEW u, NEW w, NEW v, NEW s, NEW cn, Callback(u, w, s, cn), Callback(w, v, s, cn),
         w.strm[s].refused = u.strm[s].refused
  PROVE  Callback(u, v, s, cn)
BY DEF Callback

\* Changes of a stream that concern nothing of its own.
LEMMA AlikeSound ==
  ASSUME NEW w, NEW cn, Sound(w, cn), NEW s \in Streams, NEW v \in Worlds, NEW y \in Stream,
         v.strm = [w.strm EXCEPT ![s] = y], v.fds = w.fds, v.heap = w.heap, v.disk = w.disk,
         w.strm[s].st # "idle", y.st = w.strm[s].st \/ (w.strm[s].st = "open" /\ y.st = "answering"),
         y.conn = w.strm[s].conn, y.ctx = w.strm[s].ctx, w.strm[s].svc => y.svc,
         y.values = w.strm[s].values, y.done = w.strm[s].done, y.mixed = w.strm[s].mixed,
         y.sent = w.strm[s].sent, y.refused = w.strm[s].refused
  PROVE  Callback(w, v, s, cn)
<1> DEFINE x == w.strm[s]
<1>1. /\ Fits(s, x, w.fds) /\ Blocks(s, x, w.heap) /\ Stored(s, x, w.fds, w.disk)
      /\ w.strm \in [Streams -> Stream] /\ Mixes(w.strm)
  BY WorldFacts
<1>2. v.strm[s] = y /\ \A z \in Streams \ {s} : v.strm[z] = w.strm[z]
  BY <1>1
<1>3. Fits(s, y, w.fds)
  <2>1. PostFits(x) => PostFits(y)
    BY DEF PostFits
  <2>2. QED
    BY <1>1, <2>1 DEF Fits
<1>4. Blocks(s, y, w.heap) /\ Stored(s, y, w.fds, w.disk)
  <2> HIDE DEF x
  <2>1. /\ x.ctx = y.ctx /\ x.refused = y.refused /\ x.done = y.done /\ x.mixed = y.mixed
        /\ x.values = y.values
    BY DEF x
  <2>2. Blocks(s, y, w.heap)
    BY <1>1, <2>1, Zenon DEF Blocks
  <2>3. Stored(s, y, w.fds, w.disk)
    BY <1>1, <2>1 DEF Stored, Upload
  <2>4. QED
    BY <2>2, <2>3
<1>5. Mixes(v.strm)
  <2>1. (Upload(y) => Upload(x)) /\ y.done = x.done /\ y.mixed = x.mixed
    BY DEF Upload
  <2>2. QED
    BY <1>1, <1>2, <2>1, NoNewUpload
<1>6. Sound(v, cn)
  <2>1. Own(w, v, s)
    BY <1>2 DEF Own
  <2>2. QED
    BY <1>2, <1>3, <1>4, <1>5, <2>1, OneStream
<1>7. QED
  BY <1>2, <1>6 DEF Callback

\* A service is looked up; an error is returned; RST_STREAM is submitted; the parser
\* notes the element it has passed on.
LEMMA LookedUp ==
  ASSUME NEW w, NEW cn, Sound(w, cn), NEW s \in Streams, w.strm[s].st # "idle"
  PROVE  LET v == [w EXCEPT !.strm[s].svc = TRUE]
         IN /\ Callback(w, v, s, cn) /\ v.strm[s] = [w.strm[s] EXCEPT !.svc = TRUE] /\ v.ok = w.ok
            /\ v.disk = w.disk /\ v.heap = w.heap /\ v.fds = w.fds
<1> DEFINE v == [w EXCEPT !.strm[s].svc = TRUE]
           y == [w.strm[s] EXCEPT !.svc = TRUE]
<1>1. w \in Worlds /\ w.strm \in [Streams -> Stream] /\ w.strm[s] \in Stream
  BY WorldFacts
<1>2. y \in Stream /\ y = [w.strm[s] EXCEPT !.svc = TRUE]
  BY <1>1 DEF Stream
<1>3. /\ y.st = w.strm[s].st /\ y.conn = w.strm[s].conn /\ y.ctx = w.strm[s].ctx /\ y.svc
      /\ y.values = w.strm[s].values /\ y.done = w.strm[s].done /\ y.mixed = w.strm[s].mixed
      /\ y.sent = w.strm[s].sent /\ y.refused = w.strm[s].refused
  BY <1>1 DEF Stream
<1>4. /\ v.strm = [w.strm EXCEPT ![s] = y] /\ v.fds = w.fds /\ v.heap = w.heap /\ v.disk = w.disk
      /\ v.ok = w.ok
  BY <1>1 DEF Worlds
<1> HIDE DEF y
<1>5. v \in Worlds
  <2>1. [w.strm EXCEPT ![s] = y] \in [Streams -> Stream]
    BY <1>1, <1>2
  <2>2. v = [w EXCEPT !.strm = [w.strm EXCEPT ![s] = y]]
    BY DEF y
  <2>3. QED
    BY <1>1, <2>1, <2>2 DEF Worlds
<1> HIDE DEF v
<1>6. Callback(w, v, s, cn)
  BY <1>2, <1>3, <1>4, <1>5, AlikeSound
<1>7. v.strm[s] = y
  BY <1>1, <1>4
<1>8. QED
  BY <1>2, <1>4, <1>6, <1>7 DEF v

\* Only the result of the callback changes.
LEMMA FailSound ==
  ASSUME NEW w, NEW cn, Sound(w, cn), NEW o \in BOOLEAN
  PROVE  LET v == [w EXCEPT !.ok = o]
         IN /\ Sound(v, cn) /\ v.ok = o /\ v.strm = w.strm /\ v.fds = w.fds /\ v.heap = w.heap
            /\ v.disk = w.disk
<1> DEFINE v == [w EXCEPT !.ok = o]
<1>1. w \in Worlds
  BY DEF Sound
<1>2. /\ v \in Worlds /\ v.ok = o /\ v.strm = w.strm /\ v.fds = w.fds /\ v.heap = w.heap
      /\ v.disk = w.disk
  BY <1>1 DEF Worlds
<1> HIDE DEF v
<1>3. Sound(v, cn)
  BY <1>2 DEF Sound
<1>4. QED
  BY <1>2, <1>3 DEF v

\* A world with another stream in the place of s.
LEMMA PutFacts ==
  ASSUME NEW w \in Worlds, NEW s \in Streams, NEW y \in Stream
  PROVE  LET v == [w EXCEPT !.strm = [@ EXCEPT ![s] = y]]
         IN /\ v \in Worlds /\ v.strm = [w.strm EXCEPT ![s] = y] /\ v.strm[s] = y
            /\ \A z \in Streams \ {s} : v.strm[z] = w.strm[z]
            /\ v.fds = w.fds /\ v.heap = w.heap /\ v.disk = w.disk /\ v.ok = w.ok
<1>1. w.strm \in [Streams -> Stream]
  BY DEF Worlds
<1> DEFINE m == [w.strm EXCEPT ![s] = y]
<1>2. m \in [Streams -> Stream] /\ m[s] = y /\ \A z \in Streams \ {s} : m[z] = w.strm[z]
  BY <1>1
<1> HIDE DEF m
<1>3. [w EXCEPT !.strm = m] \in Worlds
  BY <1>2 DEF Worlds
<1>4. LET v == [w EXCEPT !.strm = m]
      IN v.strm = m /\ v.fds = w.fds /\ v.heap = w.heap /\ v.disk = w.disk /\ v.ok = w.ok
  BY DEF Worlds
<1>5. QED
  BY <1>2, <1>3, <1>4 DEF m

\* RST_STREAM is submitted.
LEMMA ResetSound ==
  ASSUME NEW w, NEW cn, Sound(w, cn), NEW s \in Streams, w.strm[s].st # "idle"
  PROVE  Callback(w, Reset(w, s), s, cn) /\ Reset(w, s).ok = w.ok
<1> DEFINE y == [w.strm[s] EXCEPT !.rst = TRUE]
           v == [w EXCEPT !.strm = [@ EXCEPT ![s] = y]]
<1>1. w \in Worlds /\ w.strm[s] \in Stream
  BY WorldFacts
<1>2. y \in Stream
  BY <1>1 DEF Stream
<1>3. /\ y.st = w.strm[s].st /\ y.conn = w.strm[s].conn /\ y.ctx = w.strm[s].ctx
      /\ y.svc = w.strm[s].svc
      /\ y.values = w.strm[s].values /\ y.done = w.strm[s].done /\ y.mixed = w.strm[s].mixed
      /\ y.sent = w.strm[s].sent /\ y.refused = w.strm[s].refused
  BY <1>1 DEF Stream
<1>4. Reset(w, s) = v
  BY DEF Reset
<1> HIDE DEF y
<1>5. /\ v \in Worlds /\ v.strm = [w.strm EXCEPT ![s] = y] /\ v.fds = w.fds /\ v.heap = w.heap
      /\ v.disk = w.disk /\ v.ok = w.ok
  BY <1>1, <1>2, PutFacts
<1> HIDE DEF v
<1>6. Callback(w, v, s, cn)
  BY <1>2, <1>3, <1>5, AlikeSound
<1>7. QED
  BY <1>4, <1>5, <1>6

\* The parser notes the element it has passed on.
LEMMA NotedSound ==
  ASSUME NEW w, NEW cn, Sound(w, cn), NEW s \in Streams, w.strm[s].st # "idle", NEW el \in Elements
  PROVE  LET v == [w EXCEPT !.strm[s].last = el]
         IN Callback(w, v, s, cn) /\ v.ok = w.ok /\ v.strm[s].refused = w.strm[s].refused
<1> DEFINE y == [w.strm[s] EXCEPT !.last = el]
           v == [w EXCEPT !.strm = [@ EXCEPT ![s] = y]]
<1>1. w \in Worlds /\ w.strm[s] \in Stream
  BY WorldFacts
<1>2. y \in Stream
  BY <1>1 DEF Stream
<1>3. /\ y.st = w.strm[s].st /\ y.conn = w.strm[s].conn /\ y.ctx = w.strm[s].ctx
      /\ y.svc = w.strm[s].svc
      /\ y.values = w.strm[s].values /\ y.done = w.strm[s].done /\ y.mixed = w.strm[s].mixed
      /\ y.sent = w.strm[s].sent /\ y.refused = w.strm[s].refused
  BY <1>1 DEF Stream
<1>4. [w EXCEPT !.strm[s].last = el] = v
  OBVIOUS
<1> HIDE DEF y
<1>5. /\ v \in Worlds /\ v.strm = [w.strm EXCEPT ![s] = y] /\ v.fds = w.fds /\ v.heap = w.heap
      /\ v.disk = w.disk /\ v.ok = w.ok /\ v.strm[s] = y
  BY <1>1, <1>2, PutFacts
<1> HIDE DEF v
<1>6. Callback(w, v, s, cn)
  BY <1>2, <1>3, <1>5, AlikeSound
<1>7. QED
  BY <1>3, <1>4, <1>5, <1>6

\* sfs_new_ctx, for a stream that is being read.
LEMMA WithCtxSound ==
  ASSUME NEW w, NEW cn, Sound(w, cn), NEW s \in Streams, w.strm[s].st = "open", w.strm[s].svc,
         ~w.strm[s].refused
  PROVE  LET v == WithCtx(w, s)
         IN /\ Callback(w, v, s, cn) /\ v.ok = w.ok /\ v.strm[s].refused = w.strm[s].refused
            /\ v.strm[s].ctx.alloc /\ v.strm[s].st = "open" /\ v.strm[s].path = w.strm[s].path
            /\ v.strm[s].last = w.strm[s].last
<1> DEFINE x == w.strm[s]
           y == [x EXCEPT !.ctx = NewCtx]
           v == [w EXCEPT !.strm[s].ctx = NewCtx, !.heap = @ \cup {<<"ctx", s>>}]
<1>1. /\ w \in Worlds /\ w.strm \in [Streams -> Stream] /\ w.fds \in [Fds -> Descs \cup {Free}]
      /\ w.heap \in SUBSET ({"ctx", "path"} \X Streams)
      /\ x \in Stream /\ (~x.ctx.alloc => x.ctx = NoCtx)
      /\ Fits(s, x, w.fds) /\ Blocks(s, x, w.heap) /\ Stored(s, x, w.fds, w.disk) /\ Mixes(w.strm)
  BY WorldFacts
<1>2. CASE x.ctx.alloc
  BY <1>2 DEF WithCtx, Callback
<1>3. CASE ~x.ctx.alloc
  <2>1. WithCtx(w, s) = v
    BY <1>3 DEF WithCtx
  <2>2. NewCtx \in Ctx /\ NewCtx.alloc
    BY DEF NewCtx, Ctx
  <2>3. y \in Stream
    BY <1>1, <2>2 DEF Stream
  <2>4. /\ y.st = "open" /\ y.conn = x.conn /\ y.ctx = NewCtx /\ y.svc = x.svc
        /\ y.values = x.values /\ y.done = x.done /\ y.mixed = x.mixed
        /\ y.sent = x.sent /\ y.refused = x.refused /\ y.path = x.path /\ y.last = x.last
    BY <1>1 DEF Stream
  <2>5. /\ v.strm = [w.strm EXCEPT ![s] = y] /\ v.fds = w.fds /\ v.heap = w.heap \cup {<<"ctx", s>>}
        /\ v.disk = w.disk /\ v.ok = w.ok
    BY <1>1 DEF Worlds
  <2> HIDE DEF y
  <2>6. /\ v.strm \in [Streams -> Stream] /\ v.strm[s] = y
        /\ \A z \in Streams \ {s} : v.strm[z] = w.strm[z]
    BY <1>1, <2>3, <2>5
  <2>7. v.heap \in SUBSET ({"ctx", "path"} \X Streams)
    BY <1>1, <2>5
  <2>8. v \in Worlds
    BY <1>1, <2>5, <2>6, <2>7 DEF Worlds
  <2> HIDE DEF v
  <2>9. NewCtx.fd = NoFd /\ NewCtx.dir = NoFd /\ NewCtx.post_fd = NoFd /\ ~NewCtx.path
        /\ NewCtx.post_state = "INIT"
    BY DEF NewCtx
  <2>10. Fits(s, y, v.fds)
    <3>1. Holds(s, y.ctx, v.fds)
      BY <2>4, <2>9 DEF Holds
    <3>2. x.values = 0 /\ ~x.done /\ x.sent = <<>> /\ x.conn \in Conns
      BY <1>1, <1>3 DEF Fits
    <3>3. PostFits(y)
      BY <2>4, <2>9, <3>2 DEF PostFits
    <3>4. ASSUME NEW f \in Fds, v.fds[f] # Free, v.fds[f].kind # "sock", v.fds[f].of = s
          PROVE  FALSE
      BY <1>1, <1>3, <2>5, <3>4 DEF Fits, CtxFds
    <3>5. QED
      BY <1>1, <2>4, <2>9, <3>1, <3>2, <3>3, <3>4 DEF Fits
  <2>11. Blocks(s, y, v.heap)
    <3>1. <<"path", s>> \notin w.heap
      BY <1>1, <1>3 DEF Blocks
    <3>2. <<"path", s>> \notin v.heap
      BY <2>5, <3>1
    <3>3. QED
      BY <2>2, <2>4, <3>2 DEF Blocks
  <2>12. Stored(s, y, v.fds, v.disk) /\ ~Upload(y)
    BY <1>1, <1>3, <2>4, <2>9 DEF Stored, Upload, Fits
  <2>13. Mixes(v.strm)
    BY <1>1, <2>4, <2>6, <2>12, NoNewUpload
  <2>14. Own(w, v, s)
    <3>1. \A z \in Streams \ {s} : /\ <<"ctx", z>> \in v.heap => <<"ctx", z>> \in w.heap
                                   /\ <<"path", z>> \in v.heap => <<"path", z>> \in w.heap
      BY <2>5
    <3>2. QED
      BY <2>5, <2>6, <3>1 DEF Own
  <2>15. Sound(v, cn)
    BY <2>6, <2>8, <2>10, <2>11, <2>12, <2>13, <2>14, OneStream
  <2>16. QED
    BY <2>1, <2>2, <2>4, <2>5, <2>6, <2>15 DEF Callback
<1>4. QED
  BY <1>2, <1>3

\* The descriptors in a context are those of its stream.
LEMMA CtxFdFacts ==
  ASSUME NEW w, NEW cn, Sound(w, cn), NEW s \in Streams, NEW f \in CtxFds(w.strm[s].ctx)
  PROVE  /\ w.strm[s].ctx.alloc /\ w.strm[s].svc /\ f \in Fds
         /\ \E k \in {"file", "dir", "post"} : Is(w.fds[f], k, s)
<1> DEFINE x == w.strm[s]
<1>1. x.ctx.alloc /\ f \in {x.ctx.fd, x.ctx.dir, x.ctx.post_fd} /\ f # NoFd
  BY DEF CtxFds
<1>2. x.ctx \in Ctx /\ Fits(s, x, w.fds)
  BY <1>1, WorldFacts
<1>3. /\ x.ctx.fd \in Fds \cup {NoFd} /\ x.ctx.dir \in Fds \cup {NoFd} /\ x.ctx.post_fd \in Fds \cup {NoFd}
  BY <1>2 DEF Ctx
<1>4. x.svc /\ Holds(s, x.ctx, w.fds)
  BY <1>1, <1>2 DEF Fits
<1>5. \E k \in {"file", "dir", "post"} : Is(w.fds[f], k, s)
  BY <1>1, <1>4 DEF Holds
<1>6. QED
  BY <1>1, <1>3, <1>4, <1>5

\* h2esq_stream_close, of any streams at once.
LEMMA ClosedSound ==
  ASSUME NEW w, NEW cn, Sound(w, cn), NEW S \in SUBSET Streams
  PROVE  LET v == StreamsClosed(w, S)
         IN /\ Sound(v, cn) /\ \A s \in S : v.strm[s].st = "gone"
            /\ \A s \in Streams \ S : v.strm[s] = w.strm[s]
<1> DEFINE v == StreamsClosed(w, S)
           U == UNION {ClosedFor(w.strm[s]) : s \in S}
           H == UNION {FreedFor(w.strm[s], s) : s \in S}
           m == [s \in Streams |-> IF s \in S THEN Gone(w.strm[s]) ELSE w.strm[s]]
<1>0. /\ w \in Worlds /\ w.strm \in [Streams -> Stream] /\ w.fds \in [Fds -> Descs \cup {Free}]
      /\ w.heap \in SUBSET ({"ctx", "path"} \X Streams) /\ Sockets(w.fds, cn) /\ Mixes(w.strm)
      /\ cn \in [Conns -> Connection]
  BY DEF Sound, Worlds
<1>1. ASSUME NEW x \in Stream
      PROVE  /\ Gone(x) \in Stream /\ Gone(x).st = "gone" /\ Gone(x).ctx = NoCtx
             /\ Gone(x).values = x.values /\ Gone(x).done = x.done /\ Gone(x).mixed = x.mixed
             /\ Gone(x).sent = x.sent /\ Gone(x).refused = x.refused
  BY DEF Gone, Stream
<1>2. m \in [Streams -> Stream]
  BY <1>0, <1>1
<1>3. /\ \A s \in S : m[s] = Gone(w.strm[s])
      /\ \A s \in Streams \ S : m[s] = w.strm[s]
  OBVIOUS
<1> HIDE DEF m
<1>4. Close(w.fds, U) \in [Fds -> Descs \cup {Free}]
      /\ \A f \in Fds : Close(w.fds, U)[f] = IF f \in U THEN Free ELSE w.fds[f]
  BY <1>0, CloseFacts
<1>5. v = [w EXCEPT !.fds = Close(w.fds, U), !.heap = w.heap \ H, !.strm = m]
  BY DEF StreamsClosed, m
<1>6. ASSUME NEW f \in U
      PROVE  \E s \in S, k \in {"file", "dir", "post"} : Is(w.fds[f], k, s)
  <2>1. PICK s \in S : f \in ClosedFor(w.strm[s])
    OBVIOUS
  <2>2. f \in CtxFds(w.strm[s].ctx)
    BY <2>1 DEF ClosedFor
  <2>3. QED
    BY <2>2, CtxFdFacts
<1>7. ASSUME NEW s \in S, NEW f \in CtxFds(w.strm[s].ctx)
      PROVE  f \in U
  BY <1>7, CtxFdFacts DEF ClosedFor
<1>8. ASSUME NEW s \in S, w.strm[s].ctx.alloc
      PROVE  <<"ctx", s>> \in H /\ (w.strm[s].ctx.path => <<"path", s>> \in H)
  <2>1. w.strm[s].svc
    BY <1>8, WorldFacts DEF Fits
  <2>2. <<"ctx", s>> \in FreedFor(w.strm[s], s)
        /\ (w.strm[s].ctx.path => <<"path", s>> \in FreedFor(w.strm[s], s))
    BY <1>8, <2>1 DEF FreedFor
  <2>3. QED
    BY <2>2
<1> HIDE DEF U, H, v
<1>9. v.fds = Close(w.fds, U) /\ v.heap = w.heap \ H /\ v.strm = m /\ v.disk = w.disk
  BY <1>0, <1>5 DEF Worlds
<1>10. v \in Worlds
  <2>1. w.heap \ H \in SUBSET ({"ctx", "path"} \X Streams)
    BY <1>0
  <2>2. QED
    BY <1>0, <1>2, <1>4, <1>5, <2>1 DEF Worlds
<1>11. ASSUME NEW f \in U
       PROVE  w.fds[f].kind # "sock" /\ w.fds[f].of \in S
  BY <1>6, <1>11 DEF Is
<1>12. Sockets(v.fds, cn)
  <2>1. ASSUME NEW c \in Conns, cn[c].fd # NoFd
        PROVE  Is(v.fds[cn[c].fd], "sock", c)
    <3>1. cn[c].fd \in Fds /\ Is(w.fds[cn[c].fd], "sock", c)
      BY <1>0, <2>1 DEF Sockets, Connection
    <3>2. cn[c].fd \notin U
      BY <1>11, <3>1 DEF Is
    <3>3. QED
      BY <1>4, <1>9, <3>1, <3>2
  <2>2. ASSUME NEW f \in Fds, v.fds[f] # Free, v.fds[f].kind = "sock"
        PROVE  cn[v.fds[f].of].fd = f
    BY <1>0, <1>4, <1>9, <2>2 DEF Sockets
  <2>3. QED
    BY <2>1, <2>2 DEF Sockets
<1>13. ASSUME NEW s \in S
       PROVE  /\ Fits(s, v.strm[s], v.fds) /\ Blocks(s, v.strm[s], v.heap)
              /\ Stored(s, v.strm[s], v.fds, v.disk)
  <2> DEFINE x == w.strm[s]
             y == v.strm[s]
  <2>1. /\ x \in Stream /\ Fits(s, x, w.fds) /\ Blocks(s, x, w.heap) /\ Stored(s, x, w.fds, w.disk)
        /\ x.ctx.alloc \/ x.ctx = NoCtx
    BY WorldFacts
  <2>2. /\ y.st = "gone" /\ y.ctx = NoCtx /\ ~y.ctx.alloc /\ CtxFds(y.ctx) = {}
        /\ y.values = x.values /\ y.done = x.done /\ y.mixed = x.mixed
        /\ y.sent = x.sent /\ y.refused = x.refused
    BY <1>1, <1>3, <1>9, <2>1 DEF NoCtx, CtxFds
  <2> HIDE DEF y
  <2>3. ASSUME NEW f \in Fds, v.fds[f] # Free, v.fds[f].kind # "sock", v.fds[f].of = s
        PROVE  v.fds[f].kind = "post" /\ y.refused
    <3>1. v.fds[f] = w.fds[f] /\ f \notin U
      BY <1>4, <1>9, <2>3
    <3>2. f \notin CtxFds(x.ctx)
      BY <1>7, <3>1
    <3>3. QED
      BY <2>1, <2>2, <2>3, <3>1, <3>2 DEF Fits
  <2>4. Fits(s, y, v.fds)
    BY <2>1, <2>2, <2>3 DEF Fits
  <2>5. Blocks(s, y, v.heap)
    <3>1. CASE x.ctx.alloc
      <4>1. <<"ctx", s>> \notin v.heap
        BY <1>8, <1>9, <3>1
      <4>2. <<"path", s>> \notin v.heap
        <5>1. CASE x.ctx.path
          BY <1>8, <1>9, <3>1, <5>1
        <5>2. CASE ~x.ctx.path
          BY <1>9, <2>1, <5>2 DEF Blocks
        <5>3. QED
          BY <5>1, <5>2
      <4>3. QED
        BY <4>1, <4>2 DEF Blocks
    <3>2. CASE ~x.ctx.alloc
      <4>1. v.heap \subseteq w.heap
        BY <1>9
      <4>2. QED
        BY <2>1, <2>2, <3>2, <4>1 DEF Blocks
    <3>3. QED
      BY <3>1, <3>2
  <2>6. Stored(s, y, v.fds, v.disk)
    BY <1>9, <2>1, <2>2 DEF Stored, Upload
  <2>7. QED
    BY <2>4, <2>5, <2>6 DEF y
<1>14. ASSUME NEW s \in Streams \ S
       PROVE  /\ Fits(s, v.strm[s], v.fds) /\ Blocks(s, v.strm[s], v.heap)
              /\ Stored(s, v.strm[s], v.fds, v.disk)
  <2> DEFINE x == w.strm[s]
  <2>1. /\ x \in Stream /\ Fits(s, x, w.fds) /\ Blocks(s, x, w.heap) /\ Stored(s, x, w.fds, w.disk)
        /\ x.ctx.alloc => x.ctx \in Ctx
    BY WorldFacts
  <2>2. v.strm[s] = x
    BY <1>3, <1>9
  <2> HIDE DEF x
  <2>3. ASSUME NEW f \in Fds, NEW k \in {"file", "dir", "post"}, Is(w.fds[f], k, s)
        PROVE  v.fds[f] = w.fds[f]
    <3>1. f \notin U
      BY <1>11, <2>3 DEF Is
    <3>2. QED
      BY <1>4, <1>9, <3>1
  <2>4. ASSUME x.ctx.alloc
        PROVE  /\ Holds(s, x.ctx, v.fds)
               /\ x.ctx.fd # NoFd => v.fds[x.ctx.fd] = w.fds[x.ctx.fd]
               /\ x.ctx.post_fd # NoFd => v.fds[x.ctx.post_fd] = w.fds[x.ctx.post_fd]
    <3>1. /\ x.ctx.fd \in Fds \cup {NoFd} /\ x.ctx.dir \in Fds \cup {NoFd}
          /\ x.ctx.post_fd \in Fds \cup {NoFd} /\ Holds(s, x.ctx, w.fds)
      BY <2>1, <2>4 DEF Ctx, Fits
    <3>2. QED
      BY <2>3, <3>1 DEF Holds
  <2>5. ASSUME NEW f \in Fds, v.fds[f] # Free, v.fds[f].kind # "sock", v.fds[f].of = s
        PROVE  f \in CtxFds(x.ctx) \/ (v.fds[f].kind = "post" /\ x.refused)
    <3>1. v.fds[f] = w.fds[f]
      BY <1>4, <1>9, <2>5
    <3>2. QED
      BY <2>1, <2>5, <3>1 DEF Fits
  <2>6. Fits(s, x, v.fds)
    BY <2>1, <2>4, <2>5 DEF Fits
  <2>7. Blocks(s, x, v.heap)
    <3>1. v.heap \subseteq w.heap
      BY <1>9
    <3>2. QED
      BY <2>1, <3>1 DEF Blocks
  <2>8. Stored(s, x, v.fds, v.disk)
    BY <1>9, <2>1, <2>4 DEF Stored, Upload
  <2>9. QED
    BY <2>2, <2>6, <2>7, <2>8
<1>15. \A s \in S : v.strm[s].st = "gone" /\ ~Upload(v.strm[s])
                    /\ v.strm[s].done = w.strm[s].done /\ v.strm[s].mixed = w.strm[s].mixed
  <2>1. ASSUME NEW s \in S
        PROVE  v.strm[s].st = "gone" /\ ~Upload(v.strm[s])
               /\ v.strm[s].done = w.strm[s].done /\ v.strm[s].mixed = w.strm[s].mixed
    <3>1. w.strm[s] \in Stream /\ v.strm[s] = Gone(w.strm[s])
      BY <1>0, <1>3, <1>9
    <3>2. ~NoCtx.alloc
      BY DEF NoCtx
    <3>3. QED
      BY <1>1, <3>1, <3>2 DEF Upload
  <2>2. QED
    BY <2>1
<1>16. \A s \in Streams \ S : v.strm[s] = w.strm[s]
  BY <1>3, <1>9
<1>17. Mixes(v.strm)
  BY <1>0, <1>15, <1>16 DEF Mixes
<1>18. Sound(v, cn)
  BY <1>0, <1>10, <1>12, <1>13, <1>14, <1>17 DEF Sound
<1>19. QED
  BY <1>15, <1>16, <1>18 DEF v

-----------------------------------------------------------------------------
(* Uploads. *)

\* What is known of the context of a stream that is being read.
LEMMA PostFacts ==
  ASSUME NEW w, NEW cn, Sound(w, cn), NEW s \in Streams, w.strm[s].st = "open", w.strm[s].ctx.alloc
  PROVE  LET x == w.strm[s]
         IN /\ x.ctx \in Ctx /\ x.svc /\ x.conn \in Conns /\ x.ctx.fd = NoFd /\ x.ctx.dir = NoFd
            /\ ~x.ctx.path /\ x.sent = <<>> /\ Holds(s, x.ctx, w.fds) /\ PostFits(x)
            /\ x.ctx.post_fd \in Fds \cup {NoFd}
            /\ CtxFds(x.ctx) = {x.ctx.post_fd} \ {NoFd}
            /\ \A f \in Fds : w.fds[f] # Free /\ w.fds[f].kind # "sock" /\ w.fds[f].of = s =>
                 f = x.ctx.post_fd \/ (w.fds[f].kind = "post" /\ x.refused)
<1> DEFINE x == w.strm[s]
<1>1. x.ctx \in Ctx /\ Fits(s, x, w.fds)
  BY WorldFacts
<1>2. /\ x.svc /\ x.conn \in Conns /\ x.ctx.fd = NoFd /\ x.ctx.dir = NoFd
      /\ ~x.ctx.path /\ x.sent = <<>> /\ Holds(s, x.ctx, w.fds) /\ PostFits(x)
  BY <1>1 DEF Fits
<1>3. x.ctx.post_fd \in Fds \cup {NoFd}
  BY <1>1 DEF Ctx
<1>4. CtxFds(x.ctx) = {x.ctx.post_fd} \ {NoFd}
  BY <1>2 DEF CtxFds
<1>5. \A f \in Fds : w.fds[f] # Free /\ w.fds[f].kind # "sock" /\ w.fds[f].of = s =>
        f = x.ctx.post_fd \/ (w.fds[f].kind = "post" /\ x.refused)
  BY <1>1, <1>4 DEF Fits
<1>6. QED
  BY <1>1, <1>2, <1>3, <1>4, <1>5

\* A stream that is being read and has a context.
LEMMA OpenFits ==
  ASSUME NEW s, NEW y, NEW t, y.st = "open", y.conn \in Conns, y.svc, y.ctx.alloc,
         Holds(s, y.ctx, t), PostFits(y), y.ctx.fd = NoFd, y.ctx.dir = NoFd, ~y.ctx.path,
         y.sent = <<>>,
         \A f \in Fds : t[f] # Free /\ t[f].kind # "sock" /\ t[f].of = s =>
           f \in CtxFds(y.ctx) \/ (t[f].kind = "post" /\ y.refused)
  PROVE  Fits(s, y, t)
<1>1. \A i \in 1 .. Len(y.sent) : y.sent[i] = <<s, i - 1>>
  OBVIOUS
<1>2. QED
  BY <1>1 DEF Fits

\* The file of an upload is closed, because of an error or because it is finished.
LEMMA PostClosed ==
  ASSUME NEW w, NEW cn, Sound(w, cn), NEW s \in Streams, w.strm[s].st = "open", w.strm[s].ctx.alloc,
         NEW v \in Worlds, NEW y \in Stream, NEW q \in {"ERROR", "FINISHED"},
         v.strm = [w.strm EXCEPT ![s] = y], v.fds = Close(w.fds, {w.strm[s].ctx.post_fd}),
         v.heap = w.heap, v.disk = w.disk,
         y.ctx = [w.strm[s].ctx EXCEPT !.post_fd = NoFd, !.post_state = q],
         y.st = w.strm[s].st, y.conn = w.strm[s].conn, y.svc = w.strm[s].svc,
         y.values = w.strm[s].values, y.mixed = w.strm[s].mixed,
         y.sent = w.strm[s].sent, y.refused = w.strm[s].refused,
         y.done => w.strm[s].done \/ Upload(w.strm[s])
  PROVE  Callback(w, v, s, cn)
<1> DEFINE x == w.strm[s]
<1>1. /\ w.strm \in [Streams -> Stream] /\ w.fds \in [Fds -> Descs \cup {Free}] /\ Mixes(w.strm)
      /\ Blocks(s, x, w.heap) /\ Stored(s, x, w.fds, w.disk)
  BY WorldFacts
<1>2. /\ x.ctx \in Ctx /\ x.svc /\ x.conn \in Conns /\ x.ctx.fd = NoFd /\ x.ctx.dir = NoFd
      /\ ~x.ctx.path /\ x.sent = <<>> /\ Holds(s, x.ctx, w.fds)
      /\ x.ctx.post_fd \in Fds \cup {NoFd}
      /\ \A f \in Fds : w.fds[f] # Free /\ w.fds[f].kind # "sock" /\ w.fds[f].of = s =>
           f = x.ctx.post_fd \/ (w.fds[f].kind = "post" /\ x.refused)
  BY PostFacts
<1>3. v.strm[s] = y /\ \A z \in Streams \ {s} : v.strm[z] = w.strm[z]
  BY <1>1
<1>4. \A f \in Fds : v.fds[f] = IF f = x.ctx.post_fd THEN Free ELSE w.fds[f]
  BY <1>1, CloseFacts
<1>5. /\ y.ctx.alloc /\ y.ctx.fd = NoFd /\ y.ctx.dir = NoFd /\ ~y.ctx.path /\ y.ctx.post_fd = NoFd
      /\ y.ctx.post_state = q
  BY <1>2 DEF Ctx
<1> HIDE DEF x
<1>6. y.st = "open" /\ y.conn = x.conn /\ y.svc = x.svc /\ y.sent = x.sent /\ y.refused = x.refused
      /\ y.values = x.values /\ y.mixed = x.mixed /\ (y.done => x.done \/ Upload(x))
  BY DEF x
<1>7. Fits(s, y, v.fds)
  <2>1. Holds(s, y.ctx, v.fds) /\ PostFits(y)
    BY <1>5 DEF Holds, PostFits
  <2>2. ASSUME NEW f \in Fds, v.fds[f] # Free, v.fds[f].kind # "sock", v.fds[f].of = s
        PROVE  v.fds[f].kind = "post" /\ y.refused
    <3>1. v.fds[f] = w.fds[f] /\ f # x.ctx.post_fd
      BY <1>4, <2>2
    <3>2. w.fds[f].kind = "post" /\ x.refused
      BY <1>2, <2>2, <3>1
    <3>3. QED
      BY <1>6, <3>1, <3>2
  <2>3. y.conn \in Conns /\ y.svc /\ y.sent = <<>> /\ y.st = "open"
    BY <1>2, <1>6
  <2>4. QED
    BY <1>5, <2>1, <2>2, <2>3, OpenFits
<1>8. Blocks(s, y, v.heap)
  <2>1. <<"path", s>> \notin v.heap
    BY <1>1, <1>2 DEF Blocks
  <2>2. QED
    BY <1>5, <2>1 DEF Blocks
<1>9. ~Upload(y)
  BY <1>5 DEF Upload
<1>10. Stored(s, y, v.fds, v.disk)
  <2>1. y.done /\ ~y.mixed => v.disk = [i \in 1 .. y.values |-> s]
    BY <1>1, <1>6 DEF Stored
  <2>2. QED
    BY <1>9, <2>1 DEF Stored
<1>11. Mixes(v.strm)
  BY <1>1, <1>3, <1>6, <1>9, NoNewUpload DEF x
<1>12. Own(w, v, s)
  <2>1. ASSUME NEW f \in Fds, v.fds[f] # w.fds[f]
        PROVE  Mine(s, w.fds[f], v.fds[f])
    <3>1. f = x.ctx.post_fd /\ v.fds[f] = Free
      BY <1>4, <2>1
    <3>2. f # NoFd
      BY FdFacts
    <3>3. w.fds[f].kind = "post" /\ w.fds[f].of = s
      BY <1>2, <3>1, <3>2 DEF Holds, Is
    <3>4. QED
      BY <3>1, <3>3 DEF Mine
  <2>2. QED
    BY <1>3, <2>1 DEF Own
<1>13. Sound(v, cn)
  BY <1>3, <1>7, <1>8, <1>10, <1>11, <1>12, OneStream
<1>14. QED
  BY <1>3, <1>6, <1>13 DEF Callback, x

\* The label __exx.
LEMMA PostErrorSound ==
  ASSUME NEW w, NEW cn, Sound(w, cn), NEW s \in Streams, w.strm[s].st = "open", w.strm[s].ctx.alloc
  PROVE  LET v == PostError(w, s)
         IN Callback(w, v, s, cn) /\ v.strm[s].st = "open" /\ v.strm[s].refused = w.strm[s].refused
<1> DEFINE x == w.strm[s]
           y == [x EXCEPT !.ctx.post_fd = NoFd, !.ctx.post_state = "ERROR"]
           v == PostError(w, s)
<1>1. w \in Worlds /\ w.strm \in [Streams -> Stream] /\ w.fds \in [Fds -> Descs \cup {Free}]
      /\ x \in Stream
  BY WorldFacts
<1>2. x.ctx \in Ctx
  BY PostFacts
<1>3. y.ctx = [x.ctx EXCEPT !.post_fd = NoFd, !.post_state = "ERROR"]
  BY <1>1 DEF Stream
<1>4. y.ctx \in Ctx
  <2> HIDE DEF y
  <2>1. [x.ctx EXCEPT !.post_fd = NoFd, !.post_state = "ERROR"] \in Ctx
    BY <1>2 DEF Ctx
  <2>2. QED
    BY <1>3, <2>1
<1>5. y \in Stream
  BY <1>1, <1>3, <1>4 DEF Stream
<1>6. /\ y.st = x.st /\ y.conn = x.conn /\ y.svc = x.svc /\ y.values = x.values /\ y.done = x.done
      /\ y.mixed = x.mixed /\ y.sent = x.sent /\ y.refused = x.refused
  BY <1>1 DEF Stream
<1>7. v = [w EXCEPT !.fds = Close(w.fds, {x.ctx.post_fd}), !.strm = [w.strm EXCEPT ![s] = y],
                    !.ok = FALSE]
  BY <1>1 DEF PostError, Fail, Worlds
<1> HIDE DEF y, v
<1>8. /\ v.strm = [w.strm EXCEPT ![s] = y] /\ v.fds = Close(w.fds, {x.ctx.post_fd})
      /\ v.heap = w.heap /\ v.disk = w.disk
  BY <1>1, <1>7 DEF Worlds
<1>9. v \in Worlds
  <2>1. [w.strm EXCEPT ![s] = y] \in [Streams -> Stream]
    BY <1>1, <1>5
  <2>2. Close(w.fds, {x.ctx.post_fd}) \in [Fds -> Descs \cup {Free}]
    BY <1>1, CloseFacts
  <2>3. QED
    BY <1>1, <1>7, <2>1, <2>2 DEF Worlds
<1>10. Callback(w, v, s, cn)
  BY <1>3, <1>5, <1>6, <1>8, <1>9, PostClosed
<1>11. v.strm[s] = y
  BY <1>1, <1>8
<1>12. QED
  BY <1>6, <1>10, <1>11 DEF v

\* The upload is finished.
LEMMA FinishPostFileSound ==
  ASSUME NEW w, NEW cn, Sound(w, cn), NEW s \in Streams, w.strm[s].st = "open", w.strm[s].ctx.alloc,
         w.strm[s].ctx.post_state = "RECV"
  PROVE  LET v == FinishPostFile(w, s)
         IN Callback(w, v, s, cn) /\ v.strm[s].st = "open" /\ v.strm[s].refused = w.strm[s].refused
<1> DEFINE x == w.strm[s]
           y == [x EXCEPT !.ctx.post_fd = NoFd, !.ctx.post_state = "FINISHED", !.done = TRUE]
           v == FinishPostFile(w, s)
<1>1. w \in Worlds /\ w.strm \in [Streams -> Stream] /\ w.fds \in [Fds -> Descs \cup {Free}]
      /\ x \in Stream
  BY WorldFacts
<1>2. x.ctx \in Ctx /\ PostFits(x)
  BY PostFacts
<1>3. y.ctx = [x.ctx EXCEPT !.post_fd = NoFd, !.post_state = "FINISHED"]
  BY <1>1 DEF Stream
<1>4. y.ctx \in Ctx
  <2> HIDE DEF y
  <2>1. [x.ctx EXCEPT !.post_fd = NoFd, !.post_state = "FINISHED"] \in Ctx
    BY <1>2 DEF Ctx
  <2>2. QED
    BY <1>3, <2>1
<1>5. y \in Stream
  BY <1>1, <1>3, <1>4 DEF Stream
<1>6. /\ y.st = x.st /\ y.conn = x.conn /\ y.svc = x.svc /\ y.values = x.values
      /\ y.mixed = x.mixed /\ y.sent = x.sent /\ y.refused = x.refused
  BY <1>1 DEF Stream
<1>7. v = [w EXCEPT !.fds = Close(w.fds, {x.ctx.post_fd}), !.strm = [w.strm EXCEPT ![s] = y]]
  BY <1>1 DEF FinishPostFile, Worlds
<1> HIDE DEF y, v
<1>8. /\ v.strm = [w.strm EXCEPT ![s] = y] /\ v.fds = Close(w.fds, {x.ctx.post_fd})
      /\ v.heap = w.heap /\ v.disk = w.disk
  BY <1>1, <1>7 DEF Worlds
<1>9. v \in Worlds
  <2>1. [w.strm EXCEPT ![s] = y] \in [Streams -> Stream]
    BY <1>1, <1>5
  <2>2. Close(w.fds, {x.ctx.post_fd}) \in [Fds -> Descs \cup {Free}]
    BY <1>1, CloseFacts
  <2>3. QED
    BY <1>1, <1>7, <2>1, <2>2 DEF Worlds
<1>10. Upload(x)
  BY <1>2 DEF Upload, PostFits
<1>11. Callback(w, v, s, cn)
  BY <1>3, <1>5, <1>6, <1>8, <1>9, <1>10, PostClosed
<1>12. v.strm[s] = y
  BY <1>1, <1>8
<1>13. QED
  BY <1>6, <1>11, <1>12 DEF v

\* Streams learn that they no longer have the file alone.
Raised(w, v) ==
  \A z \in Streams : \E b \in BOOLEAN :
    /\ v.strm[z] = [w.strm[z] EXCEPT !.mixed = b]
    /\ w.strm[z].mixed => b
    /\ w.strm[z].st = "idle" => b = w.strm[z].mixed

\* That changes nothing else.
LEMMA MixedSound ==
  ASSUME NEW w, NEW cn, Sound(w, cn), NEW v \in Worlds, v.fds = w.fds, v.heap = w.heap, v.disk = w.disk,
         Raised(w, v)
  PROVE  /\ Sound(v, cn)
         /\ \A z \in Streams :
              /\ v.strm[z].st = w.strm[z].st /\ v.strm[z].refused = w.strm[z].refused
              /\ v.strm[z].ctx = w.strm[z].ctx /\ v.strm[z].done = w.strm[z].done
<1>1. ASSUME NEW z \in Streams
      PROVE  LET x == w.strm[z]
                 y == v.strm[z]
             IN /\ y.st = x.st /\ y.conn = x.conn /\ y.svc = x.svc /\ y.ctx = x.ctx
                /\ y.values = x.values /\ y.done = x.done /\ y.sent = x.sent /\ y.refused = x.refused
                /\ (x.mixed => y.mixed) /\ (x.st = "idle" => y = x)
                /\ Fits(z, x, w.fds) /\ Blocks(z, x, w.heap) /\ Stored(z, x, w.fds, w.disk)
  <2> DEFINE x == w.strm[z]
             y == v.strm[z]
  <2>1. PICK b \in BOOLEAN : /\ y = [x EXCEPT !.mixed = b] /\ (x.mixed => b)
                             /\ (x.st = "idle" => b = x.mixed)
    BY DEF Raised
  <2>2. x \in Stream /\ Fits(z, x, w.fds) /\ Blocks(z, x, w.heap) /\ Stored(z, x, w.fds, w.disk)
    BY WorldFacts
  <2> HIDE DEF x, y
  <2>3. /\ y.st = x.st /\ y.conn = x.conn /\ y.svc = x.svc /\ y.ctx = x.ctx
        /\ y.values = x.values /\ y.done = x.done /\ y.sent = x.sent /\ y.refused = x.refused
        /\ y.mixed = b
    BY <2>1, <2>2 DEF Stream
  <2>4. x.st = "idle" => y = x
    BY <2>1, <2>2 DEF Stream
  <2>5. QED
    BY <2>1, <2>2, <2>3, <2>4 DEF x, y
<1>2. ASSUME NEW z \in Streams
      PROVE  /\ Fits(z, v.strm[z], v.fds) /\ Blocks(z, v.strm[z], v.heap)
             /\ Stored(z, v.strm[z], v.fds, v.disk)
  <2> DEFINE x == w.strm[z]
             y == v.strm[z]
  <2>1. /\ y.st = x.st /\ y.conn = x.conn /\ y.svc = x.svc /\ y.ctx = x.ctx
        /\ y.values = x.values /\ y.done = x.done /\ y.sent = x.sent /\ y.refused = x.refused
        /\ (x.mixed => y.mixed) /\ (x.st = "idle" => y = x)
        /\ Fits(z, x, v.fds) /\ Blocks(z, x, v.heap) /\ Stored(z, x, v.fds, v.disk)
    BY <1>1
  <2> HIDE DEF x, y
  <2>2. PostFits(x) => PostFits(y)
    BY <2>1 DEF PostFits
  <2>3. Fits(z, y, v.fds)
    BY <2>1, <2>2 DEF Fits
  <2>4. Blocks(z, y, v.heap)
    BY <2>1, Zenon DEF Blocks
  <2>5. Stored(z, y, v.fds, v.disk)
    BY <2>1 DEF Stored, Upload
  <2>6. QED
    BY <2>3, <2>4, <2>5 DEF y
<1>3. cn \in [Conns -> Connection] /\ Sockets(v.fds, cn) /\ Mixes(w.strm)
  BY DEF Sound
<1>4. Mixes(v.strm)
  <2>1. \A z \in Streams : /\ Upload(v.strm[z]) = Upload(w.strm[z]) /\ v.strm[z].done = w.strm[z].done
                           /\ (w.strm[z].mixed => v.strm[z].mixed)
    BY <1>1 DEF Upload
  <2>2. QED
    BY <1>3, <2>1 DEF Mixes
<1>5. Sound(v, cn)
  BY <1>2, <1>3, <1>4 DEF Sound
<1>6. QED
  BY <1>1, <1>5

\* Descriptor f is opened for the upload of stream s, which becomes y.
Opened(w, v, s, y, f) ==
  /\ v.strm[s] = y /\ \A z \in Streams \ {s} : v.strm[z] = w.strm[z]
  /\ v.fds = [w.fds EXCEPT ![f] = Desc("post", s)] /\ v.heap = w.heap /\ v.disk = <<>>
  /\ y.ctx = [w.strm[s].ctx EXCEPT !.post_fd = f, !.post_state = "OPEN"]
  /\ y.st = w.strm[s].st /\ y.conn = w.strm[s].conn /\ y.svc = w.strm[s].svc
  /\ y.values = w.strm[s].values /\ y.done = w.strm[s].done
  /\ y.sent = w.strm[s].sent /\ y.refused = w.strm[s].refused
  /\ \A z \in Streams \ {s} : Upload(w.strm[z]) => y.mixed
  /\ \A z \in Streams \ {s} : Upload(w.strm[z]) \/ w.strm[z].done => w.strm[z].mixed

\* It may be, once the others know.
LEMMA PostOpened ==
  ASSUME NEW w, NEW cn, Sound(w, cn), NEW s \in Streams, w.strm[s].st = "open", w.strm[s].ctx.alloc,
         w.strm[s].ctx.post_state = "INIT", NEW f \in Fds, w.fds[f] = Free,
         NEW v \in Worlds, NEW y \in Stream, Opened(w, v, s, y, f)
  PROVE  Sound(v, cn)
<1> USE DEF Opened
<1> DEFINE x == w.strm[s]
<1>1. /\ w.strm \in [Streams -> Stream] /\ w.fds \in [Fds -> Descs \cup {Free}] /\ Mixes(w.strm)
      /\ Blocks(s, x, w.heap)
  BY WorldFacts
<1>2. /\ x.ctx \in Ctx /\ x.svc /\ x.conn \in Conns /\ x.ctx.fd = NoFd /\ x.ctx.dir = NoFd
      /\ ~x.ctx.path /\ x.sent = <<>> /\ PostFits(x)
      /\ \A g \in Fds : w.fds[g] # Free /\ w.fds[g].kind # "sock" /\ w.fds[g].of = s =>
           g = x.ctx.post_fd \/ (w.fds[g].kind = "post" /\ x.refused)
  BY PostFacts
<1>3. x.ctx.post_fd = NoFd /\ x.values = 0 /\ ~x.done
  BY <1>2 DEF PostFits
<1>4. \A g \in Fds : v.fds[g] = IF g = f THEN Desc("post", s) ELSE w.fds[g]
  BY <1>1
<1>5. /\ y.ctx.alloc /\ y.ctx.fd = NoFd /\ y.ctx.dir = NoFd /\ ~y.ctx.path /\ y.ctx.post_fd = f
      /\ y.ctx.post_state = "OPEN"
  BY <1>2 DEF Ctx
<1>6. f # NoFd
  BY FdFacts
<1>7. Desc("post", s) # Free /\ Is(Desc("post", s), "post", s) /\ Desc("post", s).pos = 0
  BY DescFacts
<1>8. y.st = "open" /\ y.conn \in Conns /\ y.svc /\ y.sent = <<>> /\ y.refused = x.refused
      /\ y.values = 0 /\ ~y.done
  BY <1>2, <1>3
<1>9. Fits(s, y, v.fds)
  <2>1. Holds(s, y.ctx, v.fds) /\ PostFits(y)
    BY <1>4, <1>5, <1>6, <1>7, <1>8 DEF Holds, PostFits
  <2>2. ASSUME NEW g \in Fds, v.fds[g] # Free, v.fds[g].kind # "sock", v.fds[g].of = s
        PROVE  g \in CtxFds(y.ctx) \/ (v.fds[g].kind = "post" /\ y.refused)
    <3>1. CASE g = f
      BY <1>5, <1>6, <3>1 DEF CtxFds
    <3>2. CASE g # f
      <4>1. v.fds[g] = w.fds[g]
        BY <1>4, <3>2
      <4>2. g # x.ctx.post_fd
        BY <1>3, FdFacts
      <4>3. QED
        BY <1>2, <1>8, <2>2, <4>1, <4>2
    <3>3. QED
      BY <3>1, <3>2
  <2>3. QED
    BY <1>5, <1>8, <2>1, <2>2, OpenFits
<1>10. Blocks(s, y, v.heap)
  <2>1. <<"path", s>> \notin v.heap
    BY <1>1, <1>2 DEF Blocks
  <2>2. QED
    BY <1>5, <2>1 DEF Blocks
<1>11. Stored(s, y, v.fds, v.disk)
  <2>1. v.disk = [i \in 1 .. 0 |-> s]
    OBVIOUS
  <2>2. v.fds[y.ctx.post_fd].pos = y.values
    BY <1>4, <1>5, <1>7, <1>8
  <2>3. QED
    BY <1>8, <2>1, <2>2 DEF Stored
<1>12. Mixes(v.strm)
  BY <1>1, <1>8 DEF Mixes
<1>13. Own(w, v, s)
  <2>1. ASSUME NEW g \in Fds, v.fds[g] # w.fds[g]
        PROVE  Mine(s, w.fds[g], v.fds[g])
    <3>1. g = f /\ v.fds[g] = Desc("post", s)
      BY <1>4, <2>1
    <3>2. v.fds[g].kind # "sock" /\ v.fds[g].of = s
      BY <1>7, <3>1 DEF Is
    <3>3. QED
      BY <3>1, <3>2 DEF Mine
  <2>2. QED
    BY <2>1 DEF Own
<1>14. QED
  BY <1>9, <1>10, <1>11, <1>12, <1>13, OneStream

\* The file of an upload is opened.
LEMMA OpenPostFileSound ==
  ASSUME NEW w, NEW cn, Sound(w, cn), NEW s \in Streams, w.strm[s].st = "open", w.strm[s].ctx.alloc,
         w.strm[s].ctx.post_state = "INIT", CanOpen(w.fds)
  PROVE  LET v == OpenPostFile(w, s)
         IN Callback(w, v, s, cn) /\ v.strm[s].st = "open" /\ v.strm[s].refused = w.strm[s].refused
<1> DEFINE x == w.strm[s]
           f == Lowest(w.fds)
           b == \E z \in Streams \ {s} : Uploading(w, z)
           y == [x EXCEPT !.ctx.post_fd = f, !.ctx.post_state = "OPEN", !.mixed = b]
           M(z) == w.strm[z].mixed \/ HasUpload(w, z)
           m == [z \in Streams |-> IF z = s THEN x ELSE [w.strm[z] EXCEPT !.mixed = M(z)]]
           n == [z \in Streams |-> IF z = s THEN y ELSE [w.strm[z] EXCEPT !.mixed = M(z)]]
           u == [w EXCEPT !.strm = m]
           v == OpenPostFile(w, s)
           t == [w.fds EXCEPT ![f] = Desc("post", s)]
<1>1. w \in Worlds /\ w.strm \in [Streams -> Stream] /\ w.fds \in [Fds -> Descs \cup {Free}]
      /\ x \in Stream /\ x.mixed \in BOOLEAN /\ Mixes(w.strm)
  <2>1. w \in Worlds /\ w.strm \in [Streams -> Stream] /\ w.fds \in [Fds -> Descs \cup {Free}]
        /\ x \in Stream /\ Mixes(w.strm)
    BY WorldFacts
  <2>2. QED
    BY <2>1 DEF Stream
<1>2. x.ctx \in Ctx /\ PostFits(x)
  BY PostFacts
<1>3. f \in Fds /\ w.fds[f] = Free
  BY LowestFacts
<1>4. v = [w EXCEPT !.fds = t, !.disk = <<>>, !.strm = n]
  BY DEF OpenPostFile
<1>5. \A z \in Streams : M(z) \in BOOLEAN /\ [w.strm[z] EXCEPT !.mixed = M(z)] \in Stream
  <2>1. ASSUME NEW z \in Streams
        PROVE  M(z) \in BOOLEAN
    OBVIOUS
  <2>2. ASSUME NEW z \in Streams
        PROVE  [w.strm[z] EXCEPT !.mixed = M(z)] \in Stream
    <3> DEFINE k == w.strm[z]
               e == M(z)
    <3>1. k \in Stream /\ e \in BOOLEAN
      BY <1>1, <2>1
    <3> HIDE DEF k, e
    <3>2. [k EXCEPT !.mixed = e] \in Stream
      BY <3>1 DEF Stream
    <3>3. QED
      BY <3>2 DEF k, e
  <2>3. QED
    BY <2>1, <2>2
<1>6. y.ctx = [x.ctx EXCEPT !.post_fd = f, !.post_state = "OPEN"]
  BY <1>1 DEF Stream
<1>7. [x.ctx EXCEPT !.post_fd = f, !.post_state = "OPEN"] \in Ctx
  BY <1>2, <1>3 DEF Ctx
<1>8. b \in BOOLEAN
  OBVIOUS
<1>9. y \in Stream
  <2> HIDE DEF f, b
  <2>1. QED
    BY <1>1, <1>6, <1>7, <1>8 DEF Stream
<1>10. /\ y.st = x.st /\ y.conn = x.conn /\ y.svc = x.svc /\ y.values = x.values /\ y.done = x.done
       /\ y.mixed = b /\ y.sent = x.sent /\ y.refused = x.refused
  BY <1>1, <1>8 DEF Stream
<1> HIDE DEF y, b
<1>11. m \in [Streams -> Stream] /\ n \in [Streams -> Stream]
  <2> HIDE DEF M, x
  <2>1. QED
    BY <1>1, <1>5, <1>9
<1>12. /\ u \in Worlds /\ u.strm = m /\ u.fds = w.fds /\ u.heap = w.heap /\ u.disk = w.disk
  <2> HIDE DEF m
  <2>1. QED
    BY <1>1, <1>11 DEF Worlds
<1>13. \A z \in Streams \ {s} : m[z] = [w.strm[z] EXCEPT !.mixed = M(z)] /\ n[z] = m[z]
  OBVIOUS
<1>14. m[s] = x /\ n[s] = y
  OBVIOUS
<1> HIDE DEF m, n
<1>15. ASSUME NEW z \in Streams
       PROVE  \E e \in BOOLEAN : /\ u.strm[z] = [w.strm[z] EXCEPT !.mixed = e]
                                 /\ w.strm[z].mixed => e
                                 /\ w.strm[z].st = "idle" => e = w.strm[z].mixed
  <2>1. CASE z = s
    <3>1. x = [x EXCEPT !.mixed = x.mixed]
      BY <1>1 DEF Stream
    <3>2. QED
      BY <1>1, <1>12, <1>14, <2>1, <3>1
  <2>2. CASE z # s
    <3>1. u.strm[z] = [w.strm[z] EXCEPT !.mixed = M(z)]
      BY <1>12, <1>13, <2>2
    <3>2. w.strm[z].st = "idle" => ~HasUpload(w, z)
      <4>1. ~NewStream.ctx.alloc /\ ~NewStream.done
        BY DEF NewStream, NoCtx
      <4>2. w.strm[z].st = "idle" => w.strm[z] = NewStream
        BY WorldFacts DEF Fits
      <4>3. QED
        BY <4>1, <4>2 DEF HasUpload, Uploading
    <3>3. w.strm[z].mixed \in BOOLEAN
      BY <1>1 DEF Stream
    <3>4. QED
      BY <3>1, <3>2, <3>3
  <2>3. QED
    BY <2>1, <2>2
<1> HIDE DEF u
<1>16. Sound(u, cn) /\ \A z \in Streams :
              /\ u.strm[z].st = w.strm[z].st /\ u.strm[z].refused = w.strm[z].refused
              /\ u.strm[z].ctx = w.strm[z].ctx /\ u.strm[z].done = w.strm[z].done
  <2>1. Raised(w, u)
    BY <1>15 DEF Raised
  <2>2. QED
    BY <1>12, <2>1, MixedSound
<1>17. ASSUME NEW z \in Streams \ {s}, Upload(u.strm[z]) \/ u.strm[z].done
       PROVE  u.strm[z].mixed
  <2>1. HasUpload(w, z)
    BY <1>16, <1>17 DEF HasUpload, Uploading, Upload
  <2>2. w.strm[z] \in Stream
    BY <1>1
  <2>3. u.strm[z] = [w.strm[z] EXCEPT !.mixed = M(z)]
    BY <1>12, <1>13
  <2>4. u.strm[z].mixed = M(z)
    <3> HIDE DEF M
    <3>1. QED
      BY <2>2, <2>3 DEF Stream
  <2>5. QED
    BY <2>1, <2>4
<1>18. ASSUME NEW z \in Streams \ {s}, Upload(u.strm[z])
       PROVE  y.mixed
  <2>1. Uploading(w, z)
    BY <1>16, <1>18 DEF Uploading, Upload
  <2>2. QED
    BY <1>10, <2>1 DEF b
<1>19. /\ v.strm = n /\ v.fds = t /\ v.heap = w.heap /\ v.disk = <<>>
  BY <1>1, <1>4 DEF Worlds
<1>20. v \in Worlds
  <2>1. t \in [Fds -> Descs \cup {Free}]
    <3>1. Desc("post", s) \in Descs
      BY DescFacts
    <3>2. QED
      BY <1>1, <1>3, <3>1
  <2>2. <<>> \in Seq(Streams \cup {Hole})
    OBVIOUS
  <2> HIDE DEF t
  <2>3. QED
    BY <1>1, <1>4, <1>11, <2>1, <2>2 DEF Worlds
<1> HIDE DEF v, M
<1>21. u.strm[s] = x
  BY <1>12, <1>14
<1>22. v.strm[s] = y /\ \A z \in Streams \ {s} : v.strm[z] = u.strm[z]
  BY <1>12, <1>13, <1>14, <1>19
<1>23. v.fds = [u.fds EXCEPT ![f] = Desc("post", s)] /\ v.heap = u.heap /\ u.fds[f] = Free
  BY <1>3, <1>12, <1>19
<1> HIDE DEF f, x
<1>24. u.strm[s].st = "open" /\ u.strm[s].ctx.alloc /\ u.strm[s].ctx.post_state = "INIT"
  BY <1>21 DEF x
<1>25. /\ y.ctx = [u.strm[s].ctx EXCEPT !.post_fd = f, !.post_state = "OPEN"]
       /\ y.st = u.strm[s].st /\ y.conn = u.strm[s].conn /\ y.svc = u.strm[s].svc
       /\ y.values = u.strm[s].values /\ y.done = u.strm[s].done
       /\ y.sent = u.strm[s].sent /\ y.refused = u.strm[s].refused
  BY <1>6, <1>10, <1>21
<1>26. Sound(v, cn)
  <2>1. Opened(u, v, s, y, f)
    BY <1>17, <1>18, <1>19, <1>22, <1>23, <1>25 DEF Opened
  <2>2. QED
    BY <1>3, <1>9, <1>16, <1>20, <1>23, <1>24, <2>1, PostOpened
<1>27. \A z \in Streams \ {s} : v.strm[z].st = w.strm[z].st /\ v.strm[z].refused = w.strm[z].refused
  BY <1>16, <1>22
<1>28. Callback(w, v, s, cn)
  BY <1>10, <1>22, <1>26, <1>27 DEF Callback, x
<1>29. QED
  BY <1>10, <1>22, <1>28 DEF v, x

\* A piece of data is written at the offset of the descriptor.
LEMMA WritePostFileSound ==
  ASSUME NEW w, NEW cn, Sound(w, cn), NEW s \in Streams, w.strm[s].st = "open", w.strm[s].ctx.alloc,
         w.strm[s].ctx.post_fd # NoFd
  PROVE  LET v == WritePostFile(w, s)
         IN Callback(w, v, s, cn) /\ v.strm[s].st = "open" /\ v.strm[s].refused = w.strm[s].refused
<1> DEFINE x == w.strm[s]
           f == x.ctx.post_fd
           p == w.fds[f].pos + 1
           len == IF p > Len(w.disk) THEN p ELSE Len(w.disk)
           d == [i \in 1 .. len |-> IF i = p THEN s ELSE IF i <= Len(w.disk) THEN w.disk[i] ELSE Hole]
           e == [w.fds[f] EXCEPT !.pos = p]
           t == [w.fds EXCEPT ![f] = e]
           y == [x EXCEPT !.ctx.post_state = "RECV", !.values = x.values + 1]
           v == WritePostFile(w, s)
<1>1. /\ w \in Worlds /\ w.strm \in [Streams -> Stream] /\ w.fds \in [Fds -> Descs \cup {Free}]
      /\ x \in Stream /\ x.values \in Nat /\ Mixes(w.strm) /\ w.disk \in Seq(Streams \cup {Hole})
      /\ Blocks(s, x, w.heap) /\ Stored(s, x, w.fds, w.disk)
  BY WorldFacts
<1>2. /\ x.ctx \in Ctx /\ x.svc /\ x.conn \in Conns /\ x.ctx.fd = NoFd /\ x.ctx.dir = NoFd
      /\ ~x.ctx.path /\ x.sent = <<>> /\ Holds(s, x.ctx, w.fds) /\ PostFits(x)
      /\ f \in Fds /\ CtxFds(x.ctx) = {f}
      /\ \A g \in Fds : w.fds[g] # Free /\ w.fds[g].kind # "sock" /\ w.fds[g].of = s =>
           g = f \/ (w.fds[g].kind = "post" /\ x.refused)
  <2>1. f \in Fds \cup {NoFd} /\ CtxFds(x.ctx) = {f} \ {NoFd}
    BY PostFacts
  <2>2. f \in Fds /\ CtxFds(x.ctx) = {f}
    BY <2>1
  <2>3. QED
    BY <2>2, PostFacts
<1>3. Upload(x)
  BY DEF Upload
<1>4. Is(w.fds[f], "post", s) /\ w.fds[f] \in Descs /\ w.fds[f].pos = x.values
  <2>1. Is(w.fds[f], "post", s) /\ w.fds[f].pos = x.values
    BY <1>1, <1>2, <1>3 DEF Holds, Stored
  <2>2. QED
    BY <1>1, <1>2, <2>1, DescFacts
<1>5. /\ e \in Descs /\ Is(e, "post", s) /\ e.pos = x.values + 1
  <2> DEFINE k == w.fds[f]
  <2>1. k \in Descs /\ k.kind = "post" /\ k.of = s /\ p \in Nat /\ p = x.values + 1
    BY <1>1, <1>4 DEF Is
  <2> HIDE DEF k, p
  <2>2. k \in [kind : {"file", "dir", "post"}, of : Streams, pos : Nat]
    BY <2>1 DEF Descs
  <2>3. [k EXCEPT !.pos = p] \in [kind : {"file", "dir", "post"}, of : Streams, pos : Nat]
        /\ [k EXCEPT !.pos = p].kind = k.kind /\ [k EXCEPT !.pos = p].of = k.of
        /\ [k EXCEPT !.pos = p].pos = p
    BY <2>1, <2>2
  <2>4. QED
    BY <2>1, <2>3 DEF Is, Descs, k
<1>6. /\ p \in Nat /\ p = x.values + 1 /\ d \in Seq(Streams \cup {Hole})
  <2>1. p \in Nat /\ p = x.values + 1 /\ Len(w.disk) \in Nat
    BY <1>1, <1>4
  <2>2. len \in Nat
    BY <2>1
  <2> HIDE DEF p, len
  <2>3. \A i \in 1 .. len : d[i] \in Streams \cup {Hole}
    BY <1>1, <2>1, <2>2
  <2>4. QED
    BY <2>1, <2>2, <2>3
<1>7. ~x.mixed => d = [i \in 1 .. x.values + 1 |-> s]
  <2>1. SUFFICES ASSUME ~x.mixed
                 PROVE  d = [i \in 1 .. x.values + 1 |-> s]
    OBVIOUS
  <2>2. w.disk = [i \in 1 .. x.values |-> s]
    BY <1>1, <1>3, <2>1 DEF Stored
  <2>3. Len(w.disk) = x.values
    BY <1>1, <2>2
  <2>4. len = x.values + 1 /\ p = x.values + 1
    <3>1. p = x.values + 1
      BY <1>4
    <3> HIDE DEF p
    <3>2. QED
      BY <1>1, <2>3, <3>1
  <2> HIDE DEF p, len
  <2>5. \A i \in 1 .. x.values + 1 :
          (IF i = p THEN s ELSE IF i <= Len(w.disk) THEN w.disk[i] ELSE Hole) = s
    BY <1>1, <2>2, <2>3, <2>4
  <2>6. d = [i \in 1 .. x.values + 1 |->
              IF i = p THEN s ELSE IF i <= Len(w.disk) THEN w.disk[i] ELSE Hole]
    BY <2>4
  <2> HIDE DEF d
  <2>7. QED
    BY <2>5, <2>6, Zenon
<1>8. t \in [Fds -> Descs \cup {Free}] /\ \A g \in Fds : t[g] = IF g = f THEN e ELSE w.fds[g]
  <2> HIDE DEF e
  <2>1. QED
    BY <1>1, <1>2, <1>5
<1>9. y.ctx = [x.ctx EXCEPT !.post_state = "RECV"]
  BY <1>1 DEF Stream
<1>10. y.ctx \in Ctx
  <2> HIDE DEF y
  <2>1. [x.ctx EXCEPT !.post_state = "RECV"] \in Ctx
    BY <1>2 DEF Ctx
  <2>2. QED
    BY <1>9, <2>1
<1>11. y \in Stream
  <2> DEFINE k == [x.ctx EXCEPT !.post_state = "RECV"]
             n == x.values + 1
  <2>1. y = [x EXCEPT !.ctx = k, !.values = n] /\ k \in Ctx /\ n \in Nat
    BY <1>1, <1>9, <1>10
  <2> HIDE DEF y, k, n, x
  <2>2. QED
    BY <1>1, <2>1 DEF Stream
<1>12. /\ y.st = x.st /\ y.conn = x.conn /\ y.svc = x.svc /\ y.values = x.values + 1
       /\ y.done = x.done /\ y.mixed = x.mixed /\ y.sent = x.sent /\ y.refused = x.refused
  BY <1>1 DEF Stream
<1>13. v = [w EXCEPT !.fds = t, !.disk = d, !.strm = [w.strm EXCEPT ![s] = y]]
  BY <1>1 DEF WritePostFile, Worlds
<1> HIDE DEF y, v, d, t, e, p, len
<1>14. /\ v.strm = [w.strm EXCEPT ![s] = y] /\ v.fds = t /\ v.heap = w.heap /\ v.disk = d
  BY <1>1, <1>13 DEF Worlds
<1>15. v \in Worlds
  <2>1. [w.strm EXCEPT ![s] = y] \in [Streams -> Stream]
    BY <1>1, <1>11
  <2>2. QED
    BY <1>1, <1>6, <1>8, <1>13, <2>1 DEF Worlds
<1>16. v.strm[s] = y /\ \A z \in Streams \ {s} : v.strm[z] = w.strm[z]
  BY <1>1, <1>14
<1>17. /\ y.ctx.alloc /\ y.ctx.fd = NoFd /\ y.ctx.dir = NoFd /\ ~y.ctx.path /\ y.ctx.post_fd = f
       /\ y.ctx.post_state = "RECV"
  BY <1>2, <1>9 DEF Ctx
<1>18. ~x.done
  BY <1>1, <1>3 DEF Stored
<1>19. Fits(s, y, v.fds)
  <2>1. Holds(s, y.ctx, v.fds) /\ PostFits(y)
    <3>1. v.fds[f] = e
      BY <1>2, <1>8, <1>14
    <3>2. QED
      BY <1>5, <1>12, <1>17, <1>18, <3>1 DEF Holds, PostFits
  <2>2. ASSUME NEW g \in Fds, v.fds[g] # Free, v.fds[g].kind # "sock", v.fds[g].of = s
        PROVE  g \in CtxFds(y.ctx) \/ (v.fds[g].kind = "post" /\ y.refused)
    <3>1. CASE g = f
      BY <1>17, <3>1 DEF CtxFds
    <3>2. CASE g # f
      <4>1. v.fds[g] = w.fds[g]
        BY <1>8, <1>14, <3>2
      <4>2. QED
        BY <1>2, <1>12, <2>2, <3>2, <4>1
    <3>3. QED
      BY <3>1, <3>2
  <2>3. y.st = "open" /\ y.conn \in Conns /\ y.svc /\ y.sent = <<>>
    BY <1>2, <1>12
  <2>4. QED
    BY <1>17, <2>1, <2>2, <2>3, OpenFits
<1>20. Blocks(s, y, v.heap)
  <2>1. <<"path", s>> \notin v.heap
    BY <1>1, <1>2, <1>14 DEF Blocks
  <2>2. QED
    BY <1>17, <2>1 DEF Blocks
<1>21. Stored(s, y, v.fds, v.disk)
  <2>1. v.fds[y.ctx.post_fd].pos = y.values
    BY <1>2, <1>5, <1>8, <1>12, <1>14, <1>17
  <2>2. ~y.mixed => v.disk = [i \in 1 .. y.values |-> s]
    BY <1>7, <1>12, <1>14
  <2>3. QED
    BY <1>12, <1>18, <2>1, <2>2 DEF Stored
<1>22. Mixes(v.strm)
  BY <1>1, <1>3, <1>12, <1>16, NoNewUpload
<1>23. Own(w, v, s)
  <2>1. ASSUME NEW g \in Fds, v.fds[g] # w.fds[g]
        PROVE  Mine(s, w.fds[g], v.fds[g])
    <3>1. g = f /\ v.fds[g] = e
      BY <1>8, <1>14, <2>1
    <3>2. QED
      BY <1>4, <1>5, <3>1 DEF Mine, Is
  <2>2. \A z \in Streams \ {s} : Upload(w.strm[z]) \/ w.strm[z].done => w.strm[z].mixed
    BY <1>1, <1>3 DEF Mixes
  <2>3. QED
    BY <1>14, <1>16, <2>1, <2>2 DEF Own
<1>24. Sound(v, cn)
  BY <1>15, <1>16, <1>19, <1>20, <1>21, <1>22, <1>23, OneStream
<1>25. Callback(w, v, s, cn)
  BY <1>12, <1>16, <1>24 DEF Callback
<1>26. QED
  BY <1>12, <1>16, <1>25 DEF v

\* A part without a file name is passed over.
LEMMA EmptyPartSound ==
  ASSUME NEW w, NEW cn, Sound(w, cn), NEW s \in Streams, w.strm[s].st = "open", w.strm[s].ctx.alloc,
         w.strm[s].ctx.post_state = "INIT"
  PROVE  LET v == [w EXCEPT !.strm[s].ctx.post_state = "OPEN"]
         IN Callback(w, v, s, cn) /\ v.strm[s].st = "open" /\ v.strm[s].refused = w.strm[s].refused
<1> DEFINE x == w.strm[s]
           y == [x EXCEPT !.ctx.post_state = "OPEN"]
           v == [w EXCEPT !.strm = [@ EXCEPT ![s] = y]]
<1>1. /\ w \in Worlds /\ w.strm \in [Streams -> Stream] /\ w.fds \in [Fds -> Descs \cup {Free}]
      /\ x \in Stream /\ Mixes(w.strm)
      /\ Blocks(s, x, w.heap) /\ Stored(s, x, w.fds, w.disk) /\ Fits(s, x, w.fds)
  BY WorldFacts
<1>2. /\ x.ctx \in Ctx /\ PostFits(x) /\ Holds(s, x.ctx, w.fds)
      /\ x.svc /\ x.conn \in Conns /\ x.ctx.fd = NoFd /\ x.ctx.dir = NoFd /\ ~x.ctx.path
      /\ x.sent = <<>>
  BY PostFacts
<1>3. y.ctx = [x.ctx EXCEPT !.post_state = "OPEN"]
  BY <1>1 DEF Stream
<1>4. y.ctx \in Ctx
  <2> HIDE DEF y
  <2>1. [x.ctx EXCEPT !.post_state = "OPEN"] \in Ctx
    BY <1>2 DEF Ctx
  <2>2. QED
    BY <1>3, <2>1
<1>5. y \in Stream
  BY <1>1, <1>3, <1>4 DEF Stream
<1>6. /\ y.st = x.st /\ y.conn = x.conn /\ y.svc = x.svc /\ y.values = x.values
      /\ y.done = x.done /\ y.mixed = x.mixed /\ y.sent = x.sent /\ y.refused = x.refused
  BY <1>1 DEF Stream
<1>7. [w EXCEPT !.strm[s].ctx.post_state = "OPEN"] = v
  OBVIOUS
<1> HIDE DEF y
<1>8. /\ v \in Worlds /\ v.strm[s] = y /\ (\A z \in Streams \ {s} : v.strm[z] = w.strm[z])
      /\ v.fds = w.fds /\ v.heap = w.heap /\ v.disk = w.disk
  BY <1>1, <1>5, PutFacts
<1> HIDE DEF v
<1>9. /\ y.ctx.alloc /\ y.ctx.fd = NoFd /\ y.ctx.dir = NoFd /\ ~y.ctx.path
      /\ y.ctx.post_fd = x.ctx.post_fd /\ y.ctx.post_state = "OPEN"
  BY <1>2, <1>3 DEF Ctx
<1>10. x.ctx.post_fd = NoFd /\ ~x.done
  BY <1>2 DEF PostFits
<1>11. CtxFds(x.ctx) = {} /\ CtxFds(y.ctx) = {}
  BY <1>2, <1>9, <1>10 DEF CtxFds
<1>12. Fits(s, y, v.fds)
  <2>1. Holds(s, y.ctx, v.fds) /\ PostFits(y)
    BY <1>6, <1>9, <1>10 DEF Holds, PostFits
  <2>2. y.st = "open" /\ y.conn \in Conns /\ y.svc /\ y.sent = <<>>
    BY <1>2, <1>6
  <2>3. \A f \in Fds : v.fds[f] # Free /\ v.fds[f].kind # "sock" /\ v.fds[f].of = s =>
          f \in CtxFds(y.ctx) \/ (v.fds[f].kind = "post" /\ y.refused)
    BY <1>1, <1>6, <1>8, <1>11 DEF Fits
  <2>4. QED
    BY <1>9, <2>1, <2>2, <2>3, OpenFits
<1>13. Blocks(s, y, v.heap)
  <2>1. <<"path", s>> \notin v.heap
    BY <1>1, <1>2, <1>8 DEF Blocks
  <2>2. QED
    BY <1>9, <2>1 DEF Blocks
<1>14. ~Upload(y) /\ ~y.done
  BY <1>6, <1>9, <1>10 DEF Upload
<1>15. Stored(s, y, v.fds, v.disk)
  BY <1>14 DEF Stored
<1>16. Mixes(v.strm)
  BY <1>1, <1>6, <1>8, <1>14, NoNewUpload
<1>17. Own(w, v, s)
  BY <1>8 DEF Own
<1>18. Sound(v, cn)
  BY <1>8, <1>12, <1>13, <1>15, <1>16, <1>17, OneStream
<1>19. QED
  BY <1>6, <1>7, <1>8, <1>18 DEF Callback

\* A callback that does nothing, or only returns an error.
LEMMA NothingDone ==
  ASSUME NEW w, NEW cn, Sound(w, cn), NEW s
  PROVE  /\ Callback(w, w, s, cn)
         /\ Callback(w, Fail(w), s, cn) /\ Fail(w).strm = w.strm /\ ~Fail(w).ok
BY FailSound DEF Callback, Fail

\* sfs_post_data_parser_cb, whatever the element.
LEMMA PostElementSound ==
  ASSUME NEW w, NEW cn, Sound(w, cn), NEW s \in Streams, w.strm[s].st = "open", w.strm[s].ctx.alloc,
         NEW el, NEW fault \in BOOLEAN
  PROVE  LET v == PostElement(w, s, el, fault)
         IN Callback(w, v, s, cn) /\ v.strm[s].st = "open" /\ v.strm[s].refused = w.strm[s].refused
<1> DEFINE G(v) == Callback(w, v, s, cn) /\ v.strm[s].st = "open" /\ v.strm[s].refused = w.strm[s].refused
           ctx == w.strm[s].ctx
           st == ctx.post_state
<1>1. G(w) /\ G(Fail(w))
  BY NothingDone
<1>2. G(PostError(w, s))
  BY PostErrorSound
<1>3. st \in {"INIT", "OPEN", "RECV", "ERROR", "FINISHED"}
  BY PostFacts DEF Ctx
<1>4. st = "INIT" /\ CanOpen(w.fds) => G(OpenPostFile(w, s))
  BY OpenPostFileSound
<1>5. st = "INIT" => G([w EXCEPT !.strm[s].ctx.post_state = "OPEN"])
  BY EmptyPartSound
<1>6. ctx.post_fd # NoFd => G(WritePostFile(w, s))
  BY WritePostFileSound
<1>7. st = "RECV" => G(FinishPostFile(w, s))
  BY FinishPostFileSound
<1> HIDE DEF G
<1>8. G(PostElement(w, s, el, fault))
  <2>1. CASE "upload" \notin flags
    BY <1>1, <2>1 DEF PostElement
  <2>2. CASE "upload" \in flags /\ st \in {"ERROR", "FINISHED"}
    BY <1>1, <2>2 DEF PostElement
  <2>3. CASE "upload" \in flags /\ st \in {"INIT", "OPEN", "RECV"}
    <3> DEFINE R ==
          CASE el = "FILE_PART" /\ st = "INIT" -> IF fault \/ ~CanOpen(w.fds) THEN Fail(w) ELSE OpenPostFile(w, s)
            [] el = "EMPTY_FILE_PART" /\ st = "INIT" -> [w EXCEPT !.strm[s].ctx.post_state = "OPEN"]
            [] el \in {"FILE_PART", "EMPTY_FILE_PART"} /\ st # "INIT" -> PostError(w, s)
            [] el = "VALUE" /\ st # "INIT" ->
                 IF fault \/ ctx.post_fd = NoFd THEN PostError(w, s) ELSE WritePostFile(w, s)
            [] el = "BOUNDARY" /\ st = "RECV" -> FinishPostFile(w, s)
            [] el \notin {"FILE_PART", "EMPTY_FILE_PART", "VALUE", "BOUNDARY"} /\ st = "RECV" -> PostError(w, s)
            [] OTHER -> w
    <3>1. PostElement(w, s, el, fault) = R
      BY <2>3 DEF PostElement
    <3> HIDE DEF st, ctx
    <3>2. CASE el = "FILE_PART"
      <4>1. CASE st = "INIT"
        <5>1. R = IF fault \/ ~CanOpen(w.fds) THEN Fail(w) ELSE OpenPostFile(w, s)
          BY <3>2, <4>1
        <5>2. QED
          BY <1>1, <1>4, <3>1, <4>1, <5>1
      <4>2. CASE st # "INIT"
        BY <1>2, <3>1, <3>2, <4>2
      <4>3. QED
        BY <4>1, <4>2
    <3>3. CASE el = "EMPTY_FILE_PART"
      <4>1. CASE st = "INIT"
        <5>1. R = [w EXCEPT !.strm[s].ctx.post_state = "OPEN"]
          BY <3>3, <4>1
        <5>2. QED
          BY <1>5, <3>1, <4>1, <5>1
      <4>2. CASE st # "INIT"
        BY <1>2, <3>1, <3>3, <4>2
      <4>3. QED
        BY <4>1, <4>2
    <3>4. CASE el = "VALUE"
      <4>1. R = IF st = "INIT" THEN w
                ELSE IF fault \/ ctx.post_fd = NoFd THEN PostError(w, s) ELSE WritePostFile(w, s)
        BY <3>4
      <4>2. QED
        BY <1>1, <1>2, <1>6, <3>1, <4>1
    <3>5. CASE el = "BOUNDARY"
      <4>1. R = IF st = "RECV" THEN FinishPostFile(w, s) ELSE w
        BY <3>5
      <4>2. QED
        BY <1>1, <1>7, <3>1, <4>1
    <3>6. CASE el \notin {"FILE_PART", "EMPTY_FILE_PART", "VALUE", "BOUNDARY"}
      <4>1. R = IF st = "RECV" THEN PostError(w, s) ELSE w
        BY <3>6
      <4>2. QED
        BY <1>1, <1>2, <3>1, <4>1
    <3>7. QED
      BY <3>2, <3>3, <3>4, <3>5, <3>6
  <2>4. QED
    BY <1>3, <2>1, <2>2, <2>3
<1>9. QED
  BY <1>8 DEF G

\* post_data_parser with one element of the body.
LEMMA ElementSound ==
  ASSUME NEW w, NEW cn, Sound(w, cn), NEW s \in Streams, w.strm[s].st = "open", w.strm[s].ctx.alloc,
         NEW el, NEW fault \in BOOLEAN
  PROVE  LET v == Element(w, s, el, fault)
         IN Callback(w, v, s, cn) /\ v.strm[s].refused = w.strm[s].refused
<1> DEFINE r == PostElement(w, s, el, fault)
           n == [r EXCEPT !.strm[s].last = el]
           q == PostElement(w, s, "ERROR", FALSE)
<1>1. w.strm[s].last \in Elements \cup {"VOID"}
  BY WorldFacts DEF Stream
<1>2. CASE el \in Follow(w.strm[s].last)
  <2>1. el \in Elements
    BY <1>1, <1>2 DEF Follow, Elements
  <2>2. /\ Callback(w, r, s, cn) /\ r.strm[s].st = "open" /\ r.strm[s].refused = w.strm[s].refused
    BY PostElementSound
  <2> HIDE DEF r
  <2>3. CASE el = "FINISH"
    <3> DEFINE o == [r EXCEPT !.ok = TRUE]
               v == [o EXCEPT !.strm[s].last = el]
    <3>1. Element(w, s, el, fault) = v
      BY <1>2, <2>3 DEF Element, r
    <3>2. Sound(o, cn) /\ o.strm = r.strm
      BY <2>2, FailSound DEF Callback
    <3>3. Callback(w, o, s, cn) /\ o.strm[s].refused = w.strm[s].refused /\ o.strm[s].st # "idle"
      BY <2>2, <3>2 DEF Callback
    <3> HIDE DEF o
    <3>4. Callback(o, v, s, cn) /\ v.strm[s].refused = o.strm[s].refused
      BY <2>1, <3>2, <3>3, NotedSound
    <3> HIDE DEF v
    <3>5. Callback(w, v, s, cn)
      BY <3>3, <3>4, CallbackThen
    <3>6. QED
      BY <3>1, <3>3, <3>4, <3>5
  <2>4. CASE el # "FINISH"
    <3>1. Element(w, s, el, fault) = n
      BY <1>2, <2>4 DEF Element, r
    <3>2. Sound(r, cn) /\ r.strm[s].st # "idle"
      BY <2>2 DEF Callback
    <3>3. Callback(r, n, s, cn) /\ n.strm[s].refused = r.strm[s].refused
      BY <2>1, <3>2, NotedSound
    <3> HIDE DEF n
    <3>4. Callback(w, n, s, cn)
      BY <2>2, <3>3, CallbackThen
    <3>5. QED
      BY <2>2, <3>1, <3>3, <3>4
  <2>5. QED
    BY <2>3, <2>4
<1>3. CASE el \notin Follow(w.strm[s].last)
  <2>1. Callback(w, q, s, cn) /\ q.strm[s].refused = w.strm[s].refused
    BY PostElementSound
  <2>2. Element(w, s, el, fault) = Fail(q)
    BY <1>3 DEF Element
  <2> HIDE DEF q
  <2>3. Sound(q, cn)
    BY <2>1 DEF Callback
  <2>4. Callback(q, Fail(q), s, cn) /\ Fail(q).strm = q.strm
    BY <2>3, NothingDone
  <2>5. Callback(w, Fail(q), s, cn)
    BY <2>1, <2>4, CallbackThen
  <2>6. QED
    BY <2>1, <2>2, <2>4, <2>5
<1>4. QED
  BY <1>2, <1>3

-----------------------------------------------------------------------------
(* Answers. *)

\* Stream s becomes y, which has no context any more; of its blocks only the context
\* may stay, if folders may be looked at.
Refuses(w, v, s, y) ==
  /\ v.strm[s] = y /\ \A z \in Streams \ {s} : v.strm[z] = w.strm[z]
  /\ v.fds = w.fds /\ v.disk = w.disk /\ v.heap \subseteq w.heap
  /\ <<"ctx", s>> \in v.heap => "browse" \in flags
  /\ y.ctx = NoCtx /\ y.refused
  /\ y.st = w.strm[s].st /\ y.conn = w.strm[s].conn /\ y.values = w.strm[s].values
  /\ y.done = w.strm[s].done /\ y.mixed = w.strm[s].mixed /\ y.sent = w.strm[s].sent

\* A service that cannot give its answer lets go of the context.
LEMMA Refused ==
  ASSUME NEW w, NEW cn, Sound(w, cn), NEW s \in Streams, w.strm[s].st = "open", w.strm[s].ctx.alloc,
         NEW v \in Worlds, NEW y \in Stream, Refuses(w, v, s, y)
  PROVE  Sound(v, cn)
<1> USE DEF Refuses
<1> DEFINE x == w.strm[s]
<1>1. /\ Mixes(w.strm) /\ Blocks(s, x, w.heap) /\ Stored(s, x, w.fds, w.disk)
  BY WorldFacts
<1>2. /\ x.conn \in Conns /\ ~x.ctx.path /\ x.sent = <<>> /\ Holds(s, x.ctx, w.fds)
      /\ \A g \in Fds : w.fds[g] # Free /\ w.fds[g].kind # "sock" /\ w.fds[g].of = s =>
           g = x.ctx.post_fd \/ (w.fds[g].kind = "post" /\ x.refused)
  BY PostFacts
<1> HIDE DEF x
<1>3. ~y.ctx.alloc /\ ~Upload(y)
  BY DEF NoCtx, Upload
<1>4. Fits(s, y, v.fds)
  <2>1. ASSUME NEW g \in Fds, v.fds[g] # Free, v.fds[g].kind # "sock", v.fds[g].of = s
        PROVE  v.fds[g].kind = "post" /\ y.refused
    <3>1. CASE g = x.ctx.post_fd
      <4>1. g # NoFd
        BY FdFacts
      <4>2. QED
        BY <1>2, <3>1, <4>1 DEF Holds, Is
    <3>2. CASE g # x.ctx.post_fd
      BY <1>2, <2>1, <3>2
    <3>3. QED
      BY <3>1, <3>2
  <2>2. y.st = "open" /\ y.conn \in Conns /\ y.sent = <<>> /\ y.refused
    BY <1>2 DEF x
  <2>3. \A i \in 1 .. Len(y.sent) : y.sent[i] = <<s, i - 1>>
    BY <2>2
  <2>4. QED
    BY <1>3, <2>1, <2>2, <2>3 DEF Fits
<1>5. Blocks(s, y, v.heap)
  <2>1. <<"path", s>> \notin v.heap
    BY <1>1, <1>2 DEF Blocks
  <2>2. QED
    BY <2>1 DEF Blocks
<1>6. Stored(s, y, v.fds, v.disk)
  BY <1>1, <1>3 DEF Stored, x
<1>7. Mixes(v.strm)
  BY <1>1, <1>3, NoNewUpload DEF x
<1>8. Own(w, v, s)
  BY DEF Own
<1>9. QED
  BY <1>4, <1>5, <1>6, <1>7, <1>8, OneStream

\* Stream s becomes y, which answers from descriptor f: a file or a folder, of which the
\* path is kept.
Answers(w, v, s, y, k, f) ==
  /\ v.strm[s] = y /\ \A z \in Streams \ {s} : v.strm[z] = w.strm[z]
  /\ v.fds = [w.fds EXCEPT ![f] = Desc(k, s)] /\ v.disk = w.disk
  /\ v.heap = w.heap \cup {<<"path", s>>}
  /\ \/ k = "file" /\ y.ctx = [w.strm[s].ctx EXCEPT !.fd = f, !.path = TRUE]
     \/ k = "dir" /\ y.ctx = [w.strm[s].ctx EXCEPT !.dir = f, !.path = TRUE]
  /\ y.st = "answering" /\ y.conn = w.strm[s].conn /\ y.svc = w.strm[s].svc
  /\ y.values = w.strm[s].values /\ y.refused = w.strm[s].refused
  /\ y.done = w.strm[s].done /\ y.mixed = w.strm[s].mixed /\ y.sent = w.strm[s].sent

\* A service gives its answer.
LEMMA Answered ==
  ASSUME NEW w, NEW cn, Sound(w, cn), NEW s \in Streams, w.strm[s].st = "open", w.strm[s].ctx.alloc,
         NEW f \in Fds, w.fds[f] = Free, NEW k \in {"file", "dir"},
         NEW v \in Worlds, NEW y \in Stream, Answers(w, v, s, y, k, f)
  PROVE  Sound(v, cn)
<1> USE DEF Answers
<1> DEFINE x == w.strm[s]
           t == w.fds
<1>1. /\ t \in [Fds -> Descs \cup {Free}] /\ Mixes(w.strm) /\ Blocks(s, x, w.heap) /\ Stored(s, x, t, w.disk)
  BY WorldFacts
<1>2. /\ x.ctx \in Ctx /\ x.svc /\ x.conn \in Conns /\ x.ctx.fd = NoFd /\ x.ctx.dir = NoFd
      /\ ~x.ctx.path /\ x.sent = <<>> /\ Holds(s, x.ctx, t) /\ PostFits(x)
      /\ x.ctx.post_fd \in Fds \cup {NoFd}
      /\ \A g \in Fds : t[g] # Free /\ t[g].kind # "sock" /\ t[g].of = s =>
           g = x.ctx.post_fd \/ (t[g].kind = "post" /\ x.refused)
  BY PostFacts
<1>3. \A g \in Fds : v.fds[g] = IF g = f THEN Desc(k, s) ELSE t[g]
  BY <1>1
<1>4. Desc(k, s) \in Descs /\ Is(Desc(k, s), k, s) /\ Desc(k, s).pos = 0
  BY DescFacts
<1>5. /\ y.ctx.alloc /\ y.ctx.path /\ y.ctx.post_fd = x.ctx.post_fd
      /\ y.ctx.post_state = x.ctx.post_state
      /\ y.ctx.fd = (IF k = "file" THEN f ELSE NoFd) /\ y.ctx.dir = (IF k = "dir" THEN f ELSE NoFd)
  BY <1>2 DEF Ctx
<1>6. f # NoFd
  BY FdFacts
<1> HIDE DEF x, t
<1>7. x.ctx.post_fd # NoFd => x.ctx.post_fd # f
  <2>1. Free.kind = "free"
    BY DescFacts
  <2>2. QED
    BY <1>2, <2>1 DEF Holds, Is, t
<1>8. /\ y.st = "answering" /\ y.conn \in Conns /\ y.svc /\ y.values = x.values
      /\ y.refused = x.refused /\ y.done = x.done /\ y.mixed = x.mixed /\ y.sent = <<>>
  BY <1>2 DEF x
<1>9. x.ctx.post_fd # NoFd => v.fds[x.ctx.post_fd] = t[x.ctx.post_fd]
  BY <1>2, <1>3, <1>7
<1>10. Fits(s, y, v.fds)
  <2>1. Holds(s, y.ctx, v.fds)
    BY <1>2, <1>3, <1>4, <1>5, <1>6, <1>9 DEF Holds
  <2>2. PostFits(y)
    BY <1>2, <1>5, <1>8 DEF PostFits
  <2>3. CtxFds(y.ctx) = {f, x.ctx.post_fd} \ {NoFd}
    BY <1>5, <1>6 DEF CtxFds
  <2>4. ASSUME NEW g \in Fds, v.fds[g] # Free, v.fds[g].kind # "sock", v.fds[g].of = s
        PROVE  g \in CtxFds(y.ctx) \/ (v.fds[g].kind = "post" /\ y.refused)
    <3>1. CASE g = f
      BY <1>6, <2>3, <3>1
    <3>2. CASE g # f
      <4>1. v.fds[g] = t[g] /\ g # NoFd
        BY <1>3, <3>2, FdFacts
      <4>2. g = x.ctx.post_fd \/ (t[g].kind = "post" /\ x.refused)
        BY <1>2, <2>4, <4>1
      <4>3. QED
        BY <1>8, <2>3, <4>1, <4>2
    <3>3. QED
      BY <3>1, <3>2
  <2>5. y.ctx.fd # NoFd => v.fds[y.ctx.fd].pos = Len(y.sent)
    BY <1>3, <1>4, <1>5, <1>8
  <2>6. \A i \in 1 .. Len(y.sent) : y.sent[i] = <<s, i - 1>>
    BY <1>8
  <2>7. QED
    BY <1>5, <1>8, <2>1, <2>2, <2>4, <2>5, <2>6 DEF Fits
<1>11. Blocks(s, y, v.heap)
  BY <1>5 DEF Blocks
<1>12. Upload(y) = Upload(x)
  <2>1. x.ctx.alloc
    BY DEF x
  <2>2. QED
    BY <1>5, <2>1 DEF Upload
<1>13. Stored(s, y, v.fds, v.disk)
  <2>1. Upload(x) => v.fds[y.ctx.post_fd].pos = y.values
    BY <1>1, <1>5, <1>8, <1>9 DEF Stored, Upload
  <2>2. v.disk = w.disk
    OBVIOUS
  <2>3. QED
    BY <1>1, <1>8, <1>12, <2>1, <2>2 DEF Stored
<1>14. Mixes(v.strm)
  BY <1>1, <1>8, <1>12, NoNewUpload DEF x
<1>15. Own(w, v, s)
  <2>1. ASSUME NEW g \in Fds, v.fds[g] # w.fds[g]
        PROVE  Mine(s, w.fds[g], v.fds[g])
    <3>1. g = f /\ v.fds[g] = Desc(k, s)
      BY <1>3, <2>1 DEF t
    <3>2. v.fds[g].kind # "sock" /\ v.fds[g].of = s
      BY <1>4, <3>1 DEF Is
    <3>3. QED
      BY <3>1, <3>2 DEF Mine
  <2>2. \A z \in Streams \ {s} : /\ <<"ctx", z>> \in v.heap => <<"ctx", z>> \in w.heap
                                 /\ <<"path", z>> \in v.heap => <<"path", z>> \in w.heap
    OBVIOUS
  <2>3. QED
    BY <2>1, <2>2 DEF Own
<1>16. QED
  BY <1>10, <1>11, <1>13, <1>14, <1>15, OneStream

\* What a service that cannot answer makes of a world, with h left on the heap.
LEMMA RefusedWorld ==
  ASSUME NEW w, NEW cn, Sound(w, cn), NEW s \in Streams, w.strm[s].st = "open", w.strm[s].ctx.alloc,
         NEW v \in Worlds, v.strm = [w.strm EXCEPT ![s] = [@ EXCEPT !.ctx = NoCtx, !.refused = TRUE]],
         v.fds = w.fds, v.disk = w.disk, v.ok = FALSE, v.heap \subseteq w.heap,
         <<"ctx", s>> \in v.heap => "browse" \in flags
  PROVE  Callback(w, v, s, cn)
<1> DEFINE x == w.strm[s]
           y == [x EXCEPT !.ctx = NoCtx, !.refused = TRUE]
<1>1. w.strm \in [Streams -> Stream] /\ x \in Stream
  BY WorldFacts
<1>2. y \in Stream
  BY <1>1 DEF Stream
<1>3. /\ y.st = x.st /\ y.conn = x.conn /\ y.values = x.values /\ y.done = x.done
      /\ y.mixed = x.mixed /\ y.sent = x.sent /\ y.ctx = NoCtx /\ y.refused
  BY <1>1 DEF Stream
<1>4. v.strm = [w.strm EXCEPT ![s] = y]
  OBVIOUS
<1> HIDE DEF y
<1>5. v.strm[s] = y /\ \A z \in Streams \ {s} : v.strm[z] = w.strm[z]
  BY <1>1, <1>4
<1>6. Refuses(w, v, s, y)
  BY <1>3, <1>5 DEF Refuses, x
<1>7. Sound(v, cn)
  BY <1>2, <1>6, Refused
<1>8. QED
  BY <1>3, <1>5, <1>7 DEF Callback

\* What a service that answers makes of a world.
Answering(w, s, k, f, c) ==
  [w EXCEPT !.fds = [@ EXCEPT ![f] = Desc(k, s)], !.heap = @ \cup {<<"path", s>>},
            !.strm[s] = [@ EXCEPT !.st = "answering", !.ctx = c]]

\* That keeps it sound.
LEMMA AnsweredWorld ==
  ASSUME NEW w, NEW cn, Sound(w, cn), NEW s \in Streams, w.strm[s].st = "open", w.strm[s].ctx.alloc,
         NEW f \in Fds, w.fds[f] = Free, NEW k \in {"file", "dir"}, NEW c \in Ctx,
         \/ k = "file" /\ c = [w.strm[s].ctx EXCEPT !.fd = f, !.path = TRUE]
         \/ k = "dir" /\ c = [w.strm[s].ctx EXCEPT !.dir = f, !.path = TRUE]
  PROVE  Callback(w, Answering(w, s, k, f, c), s, cn)
<1> DEFINE x == w.strm[s]
           y == [x EXCEPT !.st = "answering", !.ctx = c]
           m == [w.strm EXCEPT ![s] = y]
           t == [w.fds EXCEPT ![f] = Desc(k, s)]
           h == w.heap \cup {<<"path", s>>}
           v == Answering(w, s, k, f, c)
<1>1. /\ w \in Worlds /\ w.strm \in [Streams -> Stream] /\ w.fds \in [Fds -> Descs \cup {Free}]
      /\ w.heap \in SUBSET ({"ctx", "path"} \X Streams) /\ x \in Stream
  BY WorldFacts
<1>2. y \in Stream
  BY <1>1 DEF Stream
<1>3. /\ y.st = "answering" /\ y.conn = x.conn /\ y.svc = x.svc /\ y.values = x.values /\ y.done = x.done
      /\ y.mixed = x.mixed /\ y.sent = x.sent /\ y.refused = x.refused /\ y.ctx = c
  BY <1>1 DEF Stream
<1>4. v = [w EXCEPT !.fds = t, !.heap = h, !.strm = m]
  BY <1>1 DEF Answering, Worlds
<1> HIDE DEF y
<1>5. m \in [Streams -> Stream] /\ m[s] = y /\ \A z \in Streams \ {s} : m[z] = w.strm[z]
  BY <1>1, <1>2
<1>6. t \in [Fds -> Descs \cup {Free}]
  <2>1. Desc(k, s) \in Descs
    BY DescFacts
  <2>2. QED
    BY <1>1, <2>1
<1>7. h \in SUBSET ({"ctx", "path"} \X Streams)
  BY <1>1
<1> HIDE DEF m, t, h, v
<1>8. v \in Worlds
  BY <1>1, <1>4, <1>5, <1>6, <1>7 DEF Worlds
<1>9. v.strm = m /\ v.fds = t /\ v.heap = h /\ v.disk = w.disk
  BY <1>1, <1>4 DEF Worlds
<1>10. Answers(w, v, s, y, k, f)
  BY <1>3, <1>5, <1>9 DEF Answers, x, t, h
<1>11. Sound(v, cn)
  BY <1>2, <1>8, <1>10, Answered
<1>12. Callback(w, v, s, cn)
  BY <1>3, <1>5, <1>9, <1>11 DEF Callback
<1>13. QED
  BY <1>12 DEF v

\* sfs_file.
LEMMA SfsFileSound ==
  ASSUME NEW w, NEW cn, Sound(w, cn), NEW s \in Streams, w.strm[s].st = "open", w.strm[s].svc,
         ~w.strm[s].refused, NEW fault \in BOOLEAN
  PROVE  Callback(w, SfsFile(w, s, fault), s, cn)
<1> DEFINE r == WithCtx(w, s)
           f == Lowest(r.fds)
           x == r.strm[s]
           no == [x EXCEPT !.ctx = NoCtx, !.refused = TRUE]
           v == SfsFile(w, s, fault)
<1>1. /\ Callback(w, r, s, cn) /\ r.strm[s].refused = w.strm[s].refused
      /\ r.strm[s].ctx.alloc /\ r.strm[s].st = "open"
  BY WithCtxSound
<1>2. v = IF fault \/ ~CanOpen(r.fds)
          THEN Fail([r EXCEPT !.strm[s] = [@ EXCEPT !.ctx = NoCtx, !.refused = TRUE], !.heap = @ \ {<<"ctx", s>>}])
          ELSE [r EXCEPT !.fds = [@ EXCEPT ![f] = Desc("file", s)], !.heap = @ \cup {<<"path", s>>},
                       !.strm[s] = [@ EXCEPT !.st = "answering", !.ctx.fd = f, !.ctx.path = TRUE]]
  BY DEF SfsFile
<1> HIDE DEF r, v
<1>3. Sound(r, cn)
  BY <1>1 DEF Callback
<1>4. r \in Worlds /\ r.strm \in [Streams -> Stream] /\ x \in Stream /\ x.ctx \in Ctx
      /\ r.heap \in SUBSET ({"ctx", "path"} \X Streams)
  BY <1>1, <1>3, WorldFacts
<1>5. SUFFICES Callback(w, v, s, cn)
  BY DEF v
<1>6. CASE fault \/ ~CanOpen(r.fds)
  <2> DEFINE m == [r.strm EXCEPT ![s] = no]
             h == r.heap \ {<<"ctx", s>>}
  <2>1. v = [r EXCEPT !.strm = m, !.heap = h, !.ok = FALSE]
    BY <1>2, <1>4, <1>6 DEF Fail, Worlds
  <2>2. no \in Stream
    BY <1>4 DEF Stream
  <2> HIDE DEF no
  <2>3. m \in [Streams -> Stream]
    BY <1>4, <2>2
  <2>4. h \in SUBSET ({"ctx", "path"} \X Streams) /\ h \subseteq r.heap /\ <<"ctx", s>> \notin h
    BY <1>4
  <2> HIDE DEF m, h
  <2>5. v \in Worlds
    BY <1>4, <2>1, <2>3, <2>4 DEF Worlds
  <2>6. v.strm = m /\ v.fds = r.fds /\ v.heap = h /\ v.disk = r.disk /\ v.ok = FALSE
    BY <1>4, <2>1 DEF Worlds
  <2>7. Callback(r, v, s, cn)
    <3>1. v.strm = [r.strm EXCEPT ![s] = [@ EXCEPT !.ctx = NoCtx, !.refused = TRUE]]
      BY <2>6 DEF m, no
    <3>2. QED
      BY <1>1, <1>3, <1>6, <2>4, <2>5, <2>6, <3>1, RefusedWorld
  <2>8. QED
    BY <1>1, <2>7, CallbackThen
<1>7. CASE ~(fault \/ ~CanOpen(r.fds))
  <2> DEFINE c == [x.ctx EXCEPT !.fd = f, !.path = TRUE]
  <2>1. f \in Fds /\ r.fds[f] = Free
    BY <1>7, LowestFacts
  <2> HIDE DEF f
  <2>2. c \in Ctx
    BY <1>4, <2>1 DEF Ctx
  <2>3. [x EXCEPT !.st = "answering", !.ctx = c] = [x EXCEPT !.st = "answering", !.ctx.fd = f, !.ctx.path = TRUE]
    BY <1>4 DEF Stream
  <2>4. v = Answering(r, s, "file", f, c)
    BY <1>2, <1>4, <1>7, <2>3 DEF Answering, Worlds
  <2>5. Callback(r, v, s, cn)
    <3>1. c = [r.strm[s].ctx EXCEPT !.fd = f, !.path = TRUE]
      OBVIOUS
    <3> HIDE DEF c
    <3>2. QED
      BY <1>1, <1>3, <2>1, <2>2, <2>4, <3>1, AnsweredWorld
  <2>6. QED
    BY <1>1, <2>5, CallbackThen
<1>8. QED
  BY <1>6, <1>7

\* sfs_folder.
LEMMA SfsFolderSound ==
  ASSUME NEW w, NEW cn, Sound(w, cn), NEW s \in Streams, w.strm[s].st = "open", w.strm[s].svc,
         ~w.strm[s].refused, NEW fault \in BOOLEAN
  PROVE  Callback(w, SfsFolder(w, s, fault), s, cn)
<1> DEFINE r == WithCtx(w, s)
           f == Lowest(r.fds)
           x == r.strm[s]
           no == [x EXCEPT !.ctx = NoCtx, !.refused = TRUE]
           v == SfsFolder(w, s, fault)
<1>1. /\ Callback(w, r, s, cn) /\ r.strm[s].refused = w.strm[s].refused
      /\ r.strm[s].ctx.alloc /\ r.strm[s].st = "open"
  BY WithCtxSound
<1>2. v = IF "browse" \notin flags THEN Fail(w)
          ELSE IF ~CanOpen(r.fds) THEN Fail(r)
          ELSE IF fault THEN Fail([r EXCEPT !.strm[s] = [@ EXCEPT !.ctx = NoCtx, !.refused = TRUE]])
          ELSE [r EXCEPT !.fds = [@ EXCEPT ![f] = Desc("dir", s)], !.heap = @ \cup {<<"path", s>>},
                       !.strm[s] = [@ EXCEPT !.st = "answering", !.ctx.dir = f, !.ctx.path = TRUE]]
  BY DEF SfsFolder
<1> HIDE DEF r, v
<1>3. Sound(r, cn)
  BY <1>1 DEF Callback
<1>4. r \in Worlds /\ r.strm \in [Streams -> Stream] /\ x \in Stream /\ x.ctx \in Ctx
      /\ r.heap \in SUBSET ({"ctx", "path"} \X Streams)
  BY <1>1, <1>3, WorldFacts
<1>5. SUFFICES Callback(w, v, s, cn)
  BY DEF v
<1>6. CASE "browse" \notin flags
  BY <1>2, <1>6, NothingDone
<1>7. CASE "browse" \in flags /\ ~CanOpen(r.fds)
  <2>1. v = Fail(r)
    BY <1>2, <1>7
  <2>2. Callback(r, Fail(r), s, cn)
    BY <1>3, NothingDone
  <2>3. QED
    BY <1>1, <2>1, <2>2, CallbackThen
<1>8. CASE "browse" \in flags /\ CanOpen(r.fds) /\ fault
  <2> DEFINE m == [r.strm EXCEPT ![s] = no]
  <2>1. v = [r EXCEPT !.strm = m, !.ok = FALSE]
    BY <1>2, <1>4, <1>8 DEF Fail, Worlds
  <2>2. no \in Stream
    BY <1>4 DEF Stream
  <2> HIDE DEF no
  <2>3. m \in [Streams -> Stream]
    BY <1>4, <2>2
  <2>4. r.heap \subseteq r.heap
    OBVIOUS
  <2> HIDE DEF m
  <2>5. v \in Worlds
    BY <1>4, <2>1, <2>3, <2>4 DEF Worlds
  <2>6. v.strm = m /\ v.fds = r.fds /\ v.heap = r.heap /\ v.disk = r.disk /\ v.ok = FALSE
    BY <1>4, <2>1 DEF Worlds
  <2>7. Callback(r, v, s, cn)
    <3>1. v.strm = [r.strm EXCEPT ![s] = [@ EXCEPT !.ctx = NoCtx, !.refused = TRUE]]
      BY <2>6 DEF m, no
    <3>2. QED
      BY <1>1, <1>3, <1>8, <2>4, <2>5, <2>6, <3>1, RefusedWorld
  <2>8. QED
    BY <1>1, <2>7, CallbackThen
<1>9. CASE "browse" \in flags /\ CanOpen(r.fds) /\ ~fault
  <2> DEFINE c == [x.ctx EXCEPT !.dir = f, !.path = TRUE]
  <2>1. f \in Fds /\ r.fds[f] = Free
    BY <1>9, LowestFacts
  <2> HIDE DEF f
  <2>2. c \in Ctx
    BY <1>4, <2>1 DEF Ctx
  <2>3. [x EXCEPT !.st = "answering", !.ctx = c] = [x EXCEPT !.st = "answering", !.ctx.dir = f, !.ctx.path = TRUE]
    BY <1>4 DEF Stream
  <2>4. v = Answering(r, s, "dir", f, c)
    BY <1>2, <1>4, <1>9, <2>3 DEF Answering, Worlds
  <2>5. Callback(r, v, s, cn)
    <3>1. c = [r.strm[s].ctx EXCEPT !.dir = f, !.path = TRUE]
      OBVIOUS
    <3> HIDE DEF c
    <3>2. QED
      BY <1>1, <1>3, <2>1, <2>2, <2>4, <3>1, AnsweredWorld
  <2>6. QED
    BY <1>1, <2>5, CallbackThen
<1>10. QED
  BY <1>6, <1>7, <1>8, <1>9

\* sfs_handler, whatever the path.
LEMMA SfsHandlerSound ==
  ASSUME NEW w, NEW cn, Sound(w, cn), NEW s \in Streams, w.strm[s].st = "open", w.strm[s].svc,
         ~w.strm[s].refused, NEW fault \in BOOLEAN
  PROVE  Callback(w, SfsHandler(w, s, fault), s, cn)
<1> DEFINE G(v) == Callback(w, v, s, cn)
           p == w.strm[s].path
<1>1. G(Fail(w)) /\ G(SfsFile(w, s, fault)) /\ G(SfsFolder(w, s, fault))
  BY NothingDone, SfsFileSound, SfsFolderSound
<1>2. w.strm[s].path \in Paths \cup {"missing"}
  BY WorldFacts DEF Stream
<1>3. p \in {"unbound", "unsafe", "missing", "special", "file", "dir", "index"}
  BY <1>2, Http2Assumption
<1> HIDE DEF G
<1>4. G(SfsHandler(w, s, fault))
  <2> DEFINE R ==
        CASE p \in {"unbound", "unsafe", "missing", "special"} -> Fail(w)
          [] p = "file" \/ (p = "index" /\ "send_index" \in flags) -> SfsFile(w, s, fault)
          [] p = "dir" \/ (p = "index" /\ "send_index" \notin flags) -> SfsFolder(w, s, fault)
  <2>1. SfsHandler(w, s, fault) = R
    BY DEF SfsHandler
  <2> HIDE DEF p
  <2>2. R \in {Fail(w), SfsFile(w, s, fault), SfsFolder(w, s, fault)}
    BY <1>3
  <2> HIDE DEF R
  <2>3. QED
    BY <1>1, <2>1, <2>2
<1>5. QED
  BY <1>4 DEF G

\* A piece of the file has been read and passed on.
LEMMA PieceSent ==
  ASSUME NEW w, NEW cn, Sound(w, cn), NEW s \in Streams, w.strm[s].st = "answering", w.strm[s].ctx.alloc,
         w.strm[s].ctx.fd # NoFd
  PROVE  LET f == w.strm[s].ctx.fd
         IN Callback(w, [w EXCEPT !.strm[s].sent = Append(@, <<w.fds[f].of, w.fds[f].pos>>),
                                  !.fds[f].pos = @ + 1], s, cn)
<1> DEFINE x == w.strm[s]
           f == x.ctx.fd
           n == Len(x.sent)
           q == Append(x.sent, <<w.fds[f].of, w.fds[f].pos>>)
           p == w.fds[f].pos + 1
           e == [w.fds[f] EXCEPT !.pos = p]
           t == [w.fds EXCEPT ![f] = e]
           y == [x EXCEPT !.sent = q]
           m == [w.strm EXCEPT ![s] = y]
           v == [strm |-> m, fds |-> t, heap |-> w.heap, disk |-> w.disk, ok |-> w.ok]
<1>1. /\ w \in Worlds /\ w.strm \in [Streams -> Stream] /\ w.fds \in [Fds -> Descs \cup {Free}]
      /\ w.heap \in SUBSET ({"ctx", "path"} \X Streams) /\ w.disk \in Seq(Streams \cup {Hole})
      /\ x \in Stream /\ x.ctx \in Ctx /\ x.sent \in Seq(Streams \X Nat) /\ Mixes(w.strm)
      /\ Fits(s, x, w.fds) /\ Blocks(s, x, w.heap) /\ Stored(s, x, w.fds, w.disk)
  BY WorldFacts
<1>2. /\ x.svc /\ x.conn \in Conns /\ Holds(s, x.ctx, w.fds) /\ PostFits(x)
      /\ w.fds[f].pos = n /\ Is(w.fds[f], "file", s)
      /\ \A i \in 1 .. n : x.sent[i] = <<s, i - 1>>
      /\ \A g \in Fds : w.fds[g] # Free /\ w.fds[g].kind # "sock" /\ w.fds[g].of = s =>
           g \in CtxFds(x.ctx) \/ (w.fds[g].kind = "post" /\ x.refused)
  <2>1. /\ x.svc /\ x.conn \in Conns /\ Holds(s, x.ctx, w.fds) /\ PostFits(x) /\ w.fds[f].pos = n
        /\ \A i \in 1 .. n : x.sent[i] = <<s, i - 1>>
        /\ \A g \in Fds : w.fds[g] # Free /\ w.fds[g].kind # "sock" /\ w.fds[g].of = s =>
             g \in CtxFds(x.ctx) \/ (w.fds[g].kind = "post" /\ x.refused)
    BY <1>1 DEF Fits
  <2>2. QED
    BY <2>1 DEF Holds
<1>3. f \in Fds /\ n \in Nat
  <2>1. f \in Fds \cup {NoFd}
    BY <1>1 DEF Ctx
  <2>2. n \in Nat
    BY <1>1
  <2>3. QED
    BY <2>1, <2>2
<1>4. w.fds[f] \in Descs
  BY <1>1, <1>2, <1>3, DescFacts
<1>5. e \in Descs /\ Is(e, "file", s) /\ e.pos = n + 1
  <2> DEFINE k == w.fds[f]
  <2>1. k \in Descs /\ k.kind = "file" /\ k.of = s /\ p \in Nat /\ e = [k EXCEPT !.pos = p] /\ p = n + 1
    BY <1>2, <1>3, <1>4 DEF Is
  <2> HIDE DEF k, p
  <2>2. k \in [kind : {"file", "dir", "post"}, of : Streams, pos : Nat]
    BY <2>1 DEF Descs
  <2>3. [k EXCEPT !.pos = p] \in [kind : {"file", "dir", "post"}, of : Streams, pos : Nat]
        /\ [k EXCEPT !.pos = p].kind = k.kind /\ [k EXCEPT !.pos = p].of = k.of
        /\ [k EXCEPT !.pos = p].pos = p
    BY <2>1, <2>2
  <2> HIDE DEF e
  <2>4. QED
    BY <2>1, <2>3 DEF Is, Descs
<1>6. /\ q \in Seq(Streams \X Nat) /\ Len(q) = n + 1 /\ \A i \in 1 .. n + 1 : q[i] = <<s, i - 1>>
  <2>1. q = Append(x.sent, <<s, n>>)
    BY <1>2 DEF Is
  <2>2. <<s, n>> \in Streams \X Nat
    BY <1>3
  <2>3. /\ q \in Seq(Streams \X Nat) /\ Len(q) = n + 1 /\ q[n + 1] = <<s, n>>
        /\ \A i \in 1 .. n : q[i] = x.sent[i]
    <3> HIDE DEF q, x
    <3>1. QED
      BY <1>1, <2>1, <2>2
  <2>4. \A i \in 1 .. n : x.sent[i] = <<s, i - 1>>
    BY <1>2
  <2>5. n \in Nat
    BY <1>3
  <2> HIDE DEF q, n, x
  <2>6. ASSUME NEW i \in 1 .. n + 1
        PROVE  q[i] = <<s, i - 1>>
    <3>1. CASE i = n + 1
      <4>1. i - 1 = n
        BY <2>5, <3>1
      <4>2. QED
        BY <2>3, <3>1, <4>1
    <3>2. CASE i # n + 1
      <4>1. i \in 1 .. n
        BY <2>5, <3>2
      <4>2. QED
        BY <2>3, <2>4, <4>1
    <3>3. QED
      BY <3>1, <3>2
  <2>7. QED
    BY <2>3, <2>6
<1> HIDE DEF q, e, n
<1>7. y \in Stream
  BY <1>1, <1>6 DEF Stream
<1>8. /\ y.st = "answering" /\ y.conn = x.conn /\ y.svc = x.svc /\ y.values = x.values /\ y.done = x.done
      /\ y.mixed = x.mixed /\ y.sent = q /\ y.refused = x.refused /\ y.ctx = x.ctx
  BY <1>1 DEF Stream
<1> HIDE DEF y
<1>9. m \in [Streams -> Stream] /\ m[s] = y /\ \A z \in Streams \ {s} : m[z] = w.strm[z]
  BY <1>1, <1>7
<1>10. t \in [Fds -> Descs \cup {Free}] /\ \A g \in Fds : t[g] = IF g = f THEN e ELSE w.fds[g]
  BY <1>1, <1>3, <1>5
<1>11. [w EXCEPT !.strm[s].sent = q, !.fds[f].pos = p] = v
  <2> DEFINE u == [w EXCEPT !.strm[s].sent = q]
  <2>1. u = [w EXCEPT !.strm = m]
    BY DEF y
  <2> HIDE DEF f, p, m
  <2>2. /\ u.fds = w.fds
        /\ u = [strm |-> m, fds |-> w.fds, heap |-> w.heap, disk |-> w.disk, ok |-> w.ok]
    BY <1>1, <2>1 DEF Worlds
  <2>3. [w EXCEPT !.strm[s].sent = q, !.fds[f].pos = p] = [u EXCEPT !.fds[f].pos = p]
    OBVIOUS
  <2> HIDE DEF u
  <2>4. [u EXCEPT !.fds[f].pos = p] = [u EXCEPT !.fds = t]
    BY <2>2 DEF e
  <2> HIDE DEF t
  <2>5. [u EXCEPT !.fds = t] = v
    BY <2>2
  <2>6. QED
    BY <2>3, <2>4, <2>5
<1> HIDE DEF m, t
<1>12. v \in Worlds
  BY <1>1, <1>9, <1>10 DEF Worlds
<1>13. v.strm = m /\ v.fds = t /\ v.heap = w.heap /\ v.disk = w.disk
  OBVIOUS
<1> HIDE DEF v, x, f, p
<1>14. f # NoFd
  BY DEF f, x
<1>15. x.ctx.alloc /\ f = x.ctx.fd
  BY DEF f, x
<1>16. \A g \in Fds, k \in {"dir", "post"} : Is(w.fds[g], k, s) => v.fds[g] = w.fds[g]
  <2>1. ~Is(w.fds[f], "dir", s) /\ ~Is(w.fds[f], "post", s)
    BY <1>2 DEF Is
  <2>2. QED
    BY <1>10, <1>13, <2>1
<1>17. /\ x.ctx.dir \in Fds \cup {NoFd} /\ x.ctx.post_fd \in Fds \cup {NoFd}
  BY <1>1 DEF Ctx
<1>18. v.fds[f] = e
  BY <1>3, <1>10, <1>13
<1>19. Fits(s, y, v.fds)
  <2>1. Holds(s, y.ctx, v.fds)
    <3>1. Is(v.fds[x.ctx.fd], "file", s)
      BY <1>5, <1>15, <1>18
    <3>2. x.ctx.dir # NoFd => Is(v.fds[x.ctx.dir], "dir", s)
      BY <1>2, <1>16, <1>17 DEF Holds
    <3>3. x.ctx.post_fd # NoFd => Is(v.fds[x.ctx.post_fd], "post", s)
      BY <1>2, <1>16, <1>17 DEF Holds
    <3>4. QED
      BY <1>8, <3>1, <3>2, <3>3 DEF Holds
  <2>2. PostFits(y)
    BY <1>2, <1>8 DEF PostFits
  <2>3. ASSUME NEW g \in Fds, v.fds[g] # Free, v.fds[g].kind # "sock", v.fds[g].of = s
        PROVE  g \in CtxFds(y.ctx) \/ (v.fds[g].kind = "post" /\ y.refused)
    <3>1. CASE g = f
      BY <1>8, <1>14, <1>15, <3>1 DEF CtxFds
    <3>2. CASE g # f
      <4>1. v.fds[g] = w.fds[g]
        BY <1>10, <1>13, <3>2
      <4>2. QED
        BY <1>2, <1>8, <2>3, <4>1
    <3>3. QED
      BY <3>1, <3>2
  <2>4. y.ctx.fd # NoFd => v.fds[y.ctx.fd].pos = Len(y.sent)
    BY <1>5, <1>6, <1>8, <1>15, <1>18
  <2>5. \A i \in 1 .. Len(y.sent) : y.sent[i] = <<s, i - 1>>
    BY <1>6, <1>8
  <2>6. QED
    BY <1>2, <1>8, <2>1, <2>2, <2>3, <2>4, <2>5 DEF Fits
<1>20. Blocks(s, y, v.heap)
  BY <1>1, <1>8, <1>13, Zenon DEF Blocks
<1>21. Stored(s, y, v.fds, v.disk) /\ Upload(y) = Upload(x)
  <2>1. Upload(y) = Upload(x)
    BY <1>8 DEF Upload
  <2>2. Upload(x) => v.fds[x.ctx.post_fd].pos = x.values
    <3>1. Upload(x) => v.fds[x.ctx.post_fd] = w.fds[x.ctx.post_fd]
      BY <1>2, <1>16, <1>17 DEF Holds, Upload
    <3>2. QED
      BY <1>1, <3>1 DEF Stored
  <2>3. QED
    BY <1>1, <1>8, <1>13, <2>1, <2>2 DEF Stored
<1>22. Mixes(v.strm)
  BY <1>1, <1>8, <1>9, <1>13, <1>21, NoNewUpload DEF x
<1>23. Own(w, v, s)
  <2>1. ASSUME NEW g \in Fds, v.fds[g] # w.fds[g]
        PROVE  Mine(s, w.fds[g], v.fds[g])
    <3>1. g = f /\ v.fds[g] = e
      BY <1>10, <1>13, <2>1
    <3>2. QED
      BY <1>2, <1>5, <3>1 DEF Mine, Is
  <2>2. QED
    BY <1>9, <1>13, <2>1 DEF Own
<1>24. Sound(v, cn)
  BY <1>9, <1>12, <1>13, <1>19, <1>20, <1>21, <1>22, <1>23, OneStream
<1>25. Callback(w, v, s, cn)
  BY <1>8, <1>9, <1>13, <1>24 DEF Callback, x
<1>26. Callback(w, [w EXCEPT !.strm[s].sent = q, !.fds[f].pos = p], s, cn)
  BY <1>11, <1>25
<1>27. QED
  BY <1>26 DEF q, p, f, x

\* Streams are closed, or served by a callback, so that none that is being read was refused.
LEMMA FileReadSound ==
  ASSUME NEW w, NEW cn, Sound(w, cn), NEW s \in Streams, w.strm[s].st = "answering", w.strm[s].ctx.alloc,
         w.strm[s].ctx.fd # NoFd, NEW fault \in BOOLEAN,
         \A z \in Streams : w.strm[z].st = "open" => ~w.strm[z].refused
  PROVE  LET v == FileRead(w, s, fault)
         IN Sound(v, cn) /\ \A z \in Streams : v.strm[z].st = "open" => ~v.strm[z].refused
<1> DEFINE f == w.strm[s].ctx.fd
           a == [w EXCEPT !.strm[s].sent = Append(@, <<w.fds[f].of, w.fds[f].pos>>), !.fds[f].pos = @ + 1]
           G(v) == Sound(v, cn) /\ \A z \in Streams : v.strm[z].st = "open" => ~v.strm[z].refused
<1>1. G(Reset(w, s))
  <2>1. Callback(w, Reset(w, s), s, cn)
    BY ResetSound
  <2>2. Reset(w, s).strm[s].st = "answering"
    <3>1. w \in Worlds /\ w.strm \in [Streams -> Stream] /\ w.strm[s] \in Stream
      BY WorldFacts
    <3>2. Reset(w, s).strm[s] = [w.strm[s] EXCEPT !.rst = TRUE]
      BY <3>1 DEF Reset, Worlds
    <3>3. QED
      BY <3>1, <3>2 DEF Stream
  <2>3. QED
    BY <2>1, <2>2 DEF Callback
<1>2. G(StreamClosed(w, s))
  <2>1. /\ Sound(StreamClosed(w, s), cn) /\ StreamClosed(w, s).strm[s].st = "gone"
        /\ \A z \in Streams \ {s} : StreamClosed(w, s).strm[z] = w.strm[z]
    BY ClosedSound DEF StreamClosed
  <2>2. QED
    BY <2>1
<1>3. G(a)
  <2>1. Callback(w, a, s, cn)
    BY PieceSent
  <2>2. a.strm[s].st = "answering"
    <3>1. w \in Worlds /\ w.strm \in [Streams -> Stream] /\ w.strm[s] \in Stream
      BY WorldFacts
    <3>2. a.strm[s].st = w.strm[s].st
      BY <3>1 DEF Worlds, Stream
    <3>3. QED
      BY <3>2
  <2> HIDE DEF a
  <2>3. QED
    BY <2>1, <2>2 DEF Callback
<1> HIDE DEF G
<1>4. FileRead(w, s, fault) \in {Reset(w, s), StreamClosed(w, s), a}
  BY DEF FileRead
<1> HIDE DEF a
<1>5. G(FileRead(w, s, fault))
  BY <1>1, <1>2, <1>3, <1>4
<1>6. QED
  BY <1>5 DEF G

-----------------------------------------------------------------------------
(* The steps of the service. *)

\* A state, seen as the world of a callback.
LEMMA StateFacts ==
  /\ World.strm = strm /\ World.fds = fds /\ World.heap = heap /\ World.disk = disk /\ World.ok = TRUE
BY DEF World

\* A world that is sound becomes the state.
LEMMA Committed ==
  ASSUME NEW w, Commit(w), Sound(w, conn'), flags' = flags
  PROVE  Sound(World, conn)'
<1>1. w \in Worlds
  BY DEF Sound
<1> DEFINE v == [strm |-> w.strm, fds |-> w.fds, heap |-> w.heap, disk |-> w.disk, ok |-> TRUE]
<1>2. World' = v
  BY DEF Commit, World
<1>3. v \in Worlds /\ v.strm = w.strm /\ v.fds = w.fds /\ v.heap = w.heap /\ v.disk = w.disk
  BY <1>1 DEF Worlds
<1> HIDE DEF v
<1>4. Sound(v, conn')
  BY <1>3 DEF Sound
<1>5. /\ v \in Worlds /\ conn' \in [Conns -> Connection]
      /\ Sockets(v.fds, conn') /\ Mixes(v.strm)
      /\ \A s \in Streams :
           Fits(s, v.strm[s], v.fds) /\ Blocks(s, v.strm[s], v.heap) /\ Stored(s, v.strm[s], v.fds, v.disk)
  BY <1>4 DEF Sound
<1>6. ASSUME NEW s \in Streams
      PROVE  Blocks(s, World.strm[s], World.heap)'
  <2>1. Blocks(s, v.strm[s], v.heap)
    BY <1>5
  <2>2. QED
    BY <1>2, <2>1 DEF Blocks
<1>7. QED
  BY <1>2, <1>5, <1>6 DEF Sound

\* Only sockets are opened or closed.
SocketsOnly(t, u) ==
  \A f \in Fds : \/ u[f] = t[f]
                 \/ (t[f] = Free \/ t[f].kind = "sock") /\ (u[f] = Free \/ u[f].kind = "sock")

\* That concerns no stream.
LEMMA SocketStep ==
  ASSUME NEW w, NEW cn, Sound(w, cn), NEW v \in Worlds, NEW dn \in [Conns -> Connection],
         v.strm = w.strm, v.heap = w.heap, v.disk = w.disk, SocketsOnly(w.fds, v.fds),
         Sockets(v.fds, dn)
  PROVE  Sound(v, dn)
<1>1. Mixes(v.strm) /\ w.fds \in [Fds -> Descs \cup {Free}]
  BY DEF Sound, Worlds
<1>2. ASSUME NEW s \in Streams
      PROVE  /\ Fits(s, v.strm[s], v.fds) /\ Blocks(s, v.strm[s], v.heap)
             /\ Stored(s, v.strm[s], v.fds, v.disk)
  <2> DEFINE x == w.strm[s]
  <2>1. /\ x.ctx.alloc => x.ctx \in Ctx
        /\ Fits(s, x, w.fds) /\ Blocks(s, x, v.heap) /\ Stored(s, x, w.fds, v.disk)
    BY WorldFacts
  <2>2. v.strm[s] = x
    OBVIOUS
  <2> HIDE DEF x
  <2>3. ASSUME NEW f \in Fds, NEW k \in {"file", "dir", "post"}, Is(w.fds[f], k, s)
        PROVE  v.fds[f] = w.fds[f]
    <3>1. w.fds[f] # Free /\ w.fds[f].kind # "sock"
      BY <1>1, <2>3, DescFacts
    <3>2. QED
      BY <3>1 DEF SocketsOnly
  <2>4. ASSUME x.ctx.alloc
        PROVE  /\ Holds(s, x.ctx, v.fds)
               /\ x.ctx.fd # NoFd => v.fds[x.ctx.fd] = w.fds[x.ctx.fd]
               /\ x.ctx.post_fd # NoFd => v.fds[x.ctx.post_fd] = w.fds[x.ctx.post_fd]
    <3>1. /\ x.ctx.fd \in Fds \cup {NoFd} /\ x.ctx.dir \in Fds \cup {NoFd}
          /\ x.ctx.post_fd \in Fds \cup {NoFd} /\ Holds(s, x.ctx, w.fds)
      BY <2>1, <2>4 DEF Ctx, Fits
    <3>2. QED
      BY <2>3, <3>1 DEF Holds
  <2>5. ASSUME NEW f \in Fds, v.fds[f] # Free, v.fds[f].kind # "sock", v.fds[f].of = s
        PROVE  f \in CtxFds(x.ctx) \/ (v.fds[f].kind = "post" /\ x.refused)
    <3>1. v.fds[f] = w.fds[f]
      BY <2>5 DEF SocketsOnly
    <3>2. QED
      BY <2>1, <2>5, <3>1 DEF Fits
  <2>6. Fits(s, x, v.fds)
    BY <2>1, <2>4, <2>5 DEF Fits
  <2>7. Stored(s, x, v.fds, v.disk)
    BY <2>1, <2>4 DEF Stored, Upload
  <2>8. QED
    BY <2>1, <2>2, <2>6, <2>7
<1>3. QED
  BY <1>1, <1>2 DEF Sound

\* What holds between the callbacks besides the soundness of the world.
Rest(cn, m) ==
  /\ \A c \in Conns : cn[c].cb = "none" => cn[c].fd = NoFd
  /\ \A s \in Streams : m[s].st = "open" => ~m[s].refused

\* A sound world becomes the state, and the invariant holds.
LEMMA CommitStep ==
  ASSUME NEW w, Commit(w), Sound(w, conn'), flags' = flags, Rest(conn', w.strm),
         flags \in SUBSET {"browse", "upload", "send_index"}
  PROVE  Http2Inv'
<1>1. Sound(World, conn)'
  BY Committed
<1>2. strm' = w.strm
  BY DEF Commit
<1>3. (\A s \in Streams : strm[s].st = "open" => ~strm[s].refused)'
  BY <1>2 DEF Rest
<1>4. (\A c \in Conns : conn[c].cb = "none" => conn[c].fd = NoFd)'
  BY DEF Rest
<1>5. QED
  BY <1>1, <1>3, <1>4 DEF Http2Inv

\* __exx: all streams of a connection are closed, then its socket.
LEMMA ConnClosedStep ==
  ASSUME Http2Inv, NEW w, Sound(w, conn), NEW c \in Conns, ConnClosed(w, c), flags' = flags,
         \A z \in Streams : w.strm[z].st = "open" /\ w.strm[z].refused => w.strm[z].conn = c
  PROVE  Http2Inv'
<1> DEFINE r == StreamsClosed(w, StreamsOf(w, c))
           t == Close(r.fds, {conn[c].fd})
           v == [r EXCEPT !.fds = t]
           k == [cb |-> "closed", fd |-> NoFd]
           dn == [conn EXCEPT ![c] = k]
<1>1. /\ Sound(r, conn) /\ \A s \in StreamsOf(w, c) : r.strm[s].st = "gone"
      /\ \A s \in Streams \ StreamsOf(w, c) : r.strm[s] = w.strm[s]
  <2>1. StreamsOf(w, c) \in SUBSET Streams
    BY DEF StreamsOf
  <2>2. QED
    BY <2>1, ClosedSound
<1>2. Commit(v) /\ conn' = dn
  BY DEF ConnClosed
<1> HIDE DEF r
<1>3. /\ r \in Worlds /\ r.fds \in [Fds -> Descs \cup {Free}] /\ conn \in [Conns -> Connection]
      /\ Sockets(r.fds, conn)
  BY <1>1 DEF Sound, Worlds
<1>4. t \in [Fds -> Descs \cup {Free}] /\ \A f \in Fds : t[f] = IF f = conn[c].fd THEN Free ELSE r.fds[f]
  BY <1>3, CloseFacts
<1> HIDE DEF t
<1>5. v \in Worlds /\ v.strm = r.strm /\ v.heap = r.heap /\ v.disk = r.disk /\ v.fds = t
  BY <1>3, <1>4 DEF Worlds
<1> HIDE DEF v
<1>6. k \in Connection /\ k.cb = "closed" /\ k.fd = NoFd
  BY DEF Connection
<1> HIDE DEF k
<1>7. dn \in [Conns -> Connection] /\ dn[c] = k /\ \A d \in Conns \ {c} : dn[d] = conn[d]
  BY <1>3, <1>6
<1> HIDE DEF dn
<1>8. SocketsOnly(r.fds, v.fds)
  <2>1. ASSUME NEW f \in Fds, v.fds[f] # r.fds[f]
        PROVE  r.fds[f].kind = "sock" /\ v.fds[f] = Free
    <3>1. f = conn[c].fd /\ v.fds[f] = Free
      BY <1>4, <1>5, <2>1
    <3>2. f # NoFd
      BY FdFacts
    <3>3. QED
      BY <1>3, <3>1, <3>2 DEF Sockets, Is
  <2>2. QED
    BY <2>1 DEF SocketsOnly
<1>9. Sockets(v.fds, dn)
  <2>1. ASSUME NEW d \in Conns, dn[d].fd # NoFd
        PROVE  Is(v.fds[dn[d].fd], "sock", d)
    <3>1. d # c /\ dn[d] = conn[d]
      BY <1>6, <1>7, <2>1
    <3>2. conn[d].fd \in Fds /\ Is(r.fds[conn[d].fd], "sock", d)
      BY <1>3, <2>1, <3>1 DEF Sockets, Connection
    <3>3. conn[c].fd # conn[d].fd
      <4>1. SUFFICES ASSUME conn[c].fd = conn[d].fd
                     PROVE  FALSE
        OBVIOUS
      <4>2. Is(r.fds[conn[d].fd], "sock", c)
        BY <1>3, <2>1, <3>1, <4>1 DEF Sockets
      <4>3. QED
        BY <3>1, <3>2, <4>2 DEF Is
    <3>4. QED
      BY <1>4, <1>5, <3>1, <3>2, <3>3
  <2>2. ASSUME NEW f \in Fds, v.fds[f] # Free, v.fds[f].kind = "sock"
        PROVE  dn[v.fds[f].of].fd = f
    <3>1. v.fds[f] = r.fds[f] /\ f # conn[c].fd
      BY <1>4, <1>5, <2>2
    <3>2. conn[r.fds[f].of].fd = f /\ r.fds[f].of \in Conns
      BY <1>3, <2>2, <3>1, DescFacts DEF Sockets
    <3>3. QED
      BY <1>7, <3>1, <3>2
  <2>3. QED
    BY <2>1, <2>2 DEF Sockets
<1>10. Sound(v, dn)
  BY <1>1, <1>5, <1>7, <1>8, <1>9, SocketStep
<1>11. Rest(dn, v.strm)
  <2>1. \A d \in Conns : dn[d].cb = "none" => dn[d].fd = NoFd
    BY <1>6, <1>7 DEF Http2Inv
  <2>2. ASSUME NEW s \in Streams, v.strm[s].st = "open"
        PROVE  ~v.strm[s].refused
    <3>1. s \notin StreamsOf(w, c)
      BY <1>1, <1>5, <2>2
    <3>2. w.strm[s].conn # c
      BY <3>1 DEF StreamsOf
    <3>3. v.strm[s] = w.strm[s]
      BY <1>1, <1>5, <3>1
    <3>4. QED
      BY <2>2, <3>2, <3>3
  <2>3. QED
    BY <2>1, <2>2 DEF Rest
<1>12. QED
  BY <1>2, <1>10, <1>11, CommitStep DEF Http2Inv

\* A callback that serves a stream which is being read returns.
LEMMA ReturnedStep ==
  ASSUME Http2Inv, NEW s \in Streams, strm[s].st = "open", NEW w, Callback(World, w, s, conn),
         Returned(w, strm[s].conn), flags' = flags
  PROVE  Http2Inv'
<1>1. Sound(World, conn) /\ ~strm[s].refused
      /\ \A z \in Streams : strm[z].st = "open" => ~strm[z].refused
  BY DEF Http2Inv
<1>2. strm[s].conn \in Conns
  BY <1>1, WorldFacts, StateFacts DEF Fits
<1>3. /\ Sound(w, conn) /\ w.strm[s].conn = strm[s].conn /\ (w.strm[s].refused => ~w.ok)
      /\ \A z \in Streams \ {s} : w.strm[z].st = strm[z].st /\ w.strm[z].refused = strm[z].refused
  BY <1>1, StateFacts DEF Callback
<1>4. CASE w.ok
  <2>1. Commit(w) /\ conn' = conn
    BY <1>4 DEF Returned
  <2>2. Rest(conn, w.strm)
    BY <1>1, <1>3, <1>4 DEF Rest, Http2Inv
  <2>3. Sound(w, conn') /\ Rest(conn', w.strm)
    BY <1>3, <2>1, <2>2
  <2>4. QED
    BY <2>1, <2>3, CommitStep DEF Http2Inv
<1>5. CASE ~w.ok
  <2>1. ConnClosed(w, strm[s].conn)
    BY <1>5 DEF Returned
  <2>2. \A z \in Streams : w.strm[z].st = "open" /\ w.strm[z].refused => w.strm[z].conn = strm[s].conn
    BY <1>1, <1>3
  <2>3. QED
    BY <1>2, <1>3, <2>1, <2>2, ConnClosedStep
<1>6. QED
  BY <1>4, <1>5

\* Nothing that the invariant speaks of changes.
LEMMA SameStep ==
  ASSUME Http2Inv, UNCHANGED <<flags, conn, strm, fds, heap, disk>>
  PROVE  Http2Inv'
<1>1. Commit(World)
  BY StateFacts DEF Commit
<1>2. Sound(World, conn') /\ Rest(conn', World.strm)
  BY StateFacts DEF Http2Inv, Rest
<1>3. QED
  BY <1>1, <1>2, CommitStep DEF Http2Inv

\* A service is called.
LEMMA ServeStep ==
  ASSUME Http2Inv, NEW s \in Streams, strm[s].st = "open", NEW w, Callback(World, w, s, conn),
         Serve(strm[s].conn, s, w)
  PROVE  Http2Inv'
<1>1. CASE service = "bound"
  BY <1>1, ReturnedStep DEF Serve
<1>2. CASE service # "bound"
  BY <1>2, SameStep DEF Serve
<1>3. QED
  BY <1>1, <1>2

-----------------------------------------------------------------------------
(* The actions. *)

\* At first nothing is open.
LEMMA InitInv == Init => Http2Inv
<1> SUFFICES ASSUME Init PROVE Http2Inv
  OBVIOUS
<1> DEFINE t == [f \in Fds |-> Free]
           k == [cb |-> "none", fd |-> NoFd]
           w == World
<1>1. NewStream \in Stream
  BY DEF NewStream, Stream, NoCtx
<1>2. /\ NewStream.st = "idle" /\ ~NewStream.ctx.alloc /\ NewStream.sent = <<>> /\ ~NewStream.done
      /\ ~NewStream.refused
  BY DEF NewStream, NoCtx
<1>3. k \in Connection /\ k.cb = "none" /\ k.fd = NoFd
  BY DEF Connection
<1> HIDE DEF k
<1>4. conn = [c \in Conns |-> k]
  BY DEF Init, k
<1>5. conn \in [Conns -> Connection] /\ \A c \in Conns : conn[c].fd = NoFd
  BY <1>3, <1>4
<1>6. /\ w.strm = [s \in Streams |-> NewStream] /\ w.fds = t /\ w.heap = {} /\ w.disk = <<>>
  BY StateFacts DEF Init
<1>7. w \in Worlds
  <2>1. [s \in Streams |-> NewStream] \in [Streams -> Stream]
    BY <1>1
  <2>2. t \in [Fds -> Descs \cup {Free}]
    OBVIOUS
  <2>3. {} \in SUBSET ({"ctx", "path"} \X Streams) /\ <<>> \in Seq(Streams \cup {Hole})
    OBVIOUS
  <2> HIDE DEF t
  <2>4. w = [strm |-> [s \in Streams |-> NewStream], fds |-> t, heap |-> {}, disk |-> <<>>, ok |-> TRUE]
    BY DEF World, Init, t
  <2>5. QED
    BY <2>1, <2>2, <2>3, <2>4 DEF Worlds
<1>8. \A f \in Fds : w.fds[f] = Free
  BY <1>6
<1> HIDE DEF w, t
<1>9. Sockets(w.fds, conn)
  BY <1>5, <1>8 DEF Sockets
<1>10. \A s \in Streams : w.strm[s] = NewStream
  BY <1>6
<1>11. Mixes(w.strm)
  BY <1>2, <1>10 DEF Mixes, Upload
<1>12. ASSUME NEW s \in Streams
       PROVE  /\ Fits(s, w.strm[s], w.fds) /\ Blocks(s, w.strm[s], w.heap)
              /\ Stored(s, w.strm[s], w.fds, w.disk)
  <2>1. Fits(s, NewStream, w.fds)
    <3>1. \A i \in 1 .. Len(NewStream.sent) : NewStream.sent[i] = <<s, i - 1>>
      BY <1>2
    <3>2. QED
      BY <1>2, <1>8, <3>1 DEF Fits
  <2>2. Blocks(s, NewStream, w.heap)
    BY <1>6 DEF Blocks
  <2>3. Stored(s, NewStream, w.fds, w.disk)
    BY <1>2 DEF Stored, Upload
  <2>4. QED
    BY <1>10, <2>1, <2>2, <2>3
<1>13. Sound(World, conn)
  BY <1>5, <1>7, <1>9, <1>11, <1>12 DEF Sound, w
<1>14. flags \in SUBSET {"browse", "upload", "send_index"}
  BY DEF Init, FlagsOf
<1>15. \A s \in Streams : strm[s].st = "open" => ~strm[s].refused
  BY <1>2 DEF Init
<1>16. QED
  BY <1>5, <1>13, <1>14, <1>15 DEF Http2Inv

\* A connection is accepted.
LEMMA AcceptInv ==
  ASSUME Http2Inv, NEW c \in Conns, Accept(c)
  PROVE  Http2Inv'
<1> DEFINE f == Lowest(fds)
           t == [fds EXCEPT ![f] = Desc("sock", c)]
           v == [strm |-> strm, fds |-> t, heap |-> heap, disk |-> disk, ok |-> TRUE]
           k == [cb |-> "alpn", fd |-> f]
           dn == [conn EXCEPT ![c] = k]
<1>1. /\ CanOpen(fds) /\ conn[c].cb = "none" /\ fds' = t /\ conn' = dn /\ flags' = flags
      /\ UNCHANGED <<strm, heap, disk>>
  BY DEF Accept
<1>2. f \in Fds /\ fds[f] = Free
  BY <1>1, LowestFacts
<1> HIDE DEF f
<1>3. Sound(World, conn) /\ conn[c].fd = NoFd
  BY <1>1 DEF Http2Inv
<1>4. /\ World \in Worlds /\ fds \in [Fds -> Descs \cup {Free}] /\ strm \in [Streams -> Stream]
      /\ heap \in SUBSET ({"ctx", "path"} \X Streams) /\ disk \in Seq(Streams \cup {Hole})
      /\ conn \in [Conns -> Connection] /\ Sockets(fds, conn)
  <2>1. World \in Worlds /\ conn \in [Conns -> Connection] /\ Sockets(World.fds, conn)
    BY <1>3 DEF Sound
  <2>2. QED
    BY <2>1, StateFacts DEF Worlds
<1>5. Desc("sock", c) \in Descs /\ Is(Desc("sock", c), "sock", c)
  BY DescFacts
<1>6. t \in [Fds -> Descs \cup {Free}] /\ \A g \in Fds : t[g] = IF g = f THEN Desc("sock", c) ELSE fds[g]
  BY <1>2, <1>4, <1>5
<1>7. k \in Connection /\ k.cb = "alpn" /\ k.fd = f
  BY <1>2 DEF Connection
<1> HIDE DEF t, k
<1>8. v \in Worlds /\ v.strm = strm /\ v.heap = heap /\ v.disk = disk /\ v.fds = t
  BY <1>4, <1>6 DEF Worlds
<1>9. Commit(v)
  BY <1>1, <1>8 DEF Commit
<1> HIDE DEF v
<1>10. dn \in [Conns -> Connection] /\ dn[c] = k /\ \A d \in Conns \ {c} : dn[d] = conn[d]
  BY <1>4, <1>7
<1> HIDE DEF dn
<1>11. SocketsOnly(World.fds, v.fds)
  BY <1>2, <1>5, <1>6, <1>8, StateFacts DEF SocketsOnly, Is
<1>12. Sockets(v.fds, dn)
  <2>1. ASSUME NEW d \in Conns, dn[d].fd # NoFd
        PROVE  Is(v.fds[dn[d].fd], "sock", d)
    <3>1. CASE d = c
      BY <1>2, <1>5, <1>6, <1>7, <1>8, <1>10, <3>1
    <3>2. CASE d # c
      <4>1. dn[d] = conn[d] /\ conn[d].fd \in Fds /\ Is(fds[conn[d].fd], "sock", d)
        BY <1>4, <1>10, <2>1, <3>2 DEF Sockets, Connection
      <4>2. fds[conn[d].fd] # Free
        BY <1>4, <4>1, DescFacts
      <4>3. QED
        BY <1>2, <1>6, <1>8, <4>1, <4>2
    <3>3. QED
      BY <3>1, <3>2
  <2>2. ASSUME NEW g \in Fds, v.fds[g] # Free, v.fds[g].kind = "sock"
        PROVE  dn[v.fds[g].of].fd = g
    <3>1. CASE g = f
      BY <1>5, <1>6, <1>7, <1>8, <1>10, <3>1 DEF Is
    <3>2. CASE g # f
      <4>1. v.fds[g] = fds[g]
        BY <1>6, <1>8, <3>2
      <4>2. conn[fds[g].of].fd = g /\ fds[g].of \in Conns
        BY <1>4, <2>2, <4>1, DescFacts DEF Sockets
      <4>3. fds[g].of # c
        BY <1>3, <4>2, FdFacts
      <4>4. QED
        BY <1>10, <4>1, <4>2, <4>3
    <3>3. QED
      BY <3>1, <3>2
  <2>3. QED
    BY <2>1, <2>2 DEF Sockets
<1>13. Sound(v, dn)
  BY <1>3, <1>8, <1>10, <1>11, <1>12, SocketStep, StateFacts
<1>14. Rest(dn, v.strm)
  BY <1>7, <1>8, <1>10 DEF Rest, Http2Inv
<1>15. QED
  BY <1>1, <1>9, <1>13, <1>14, CommitStep DEF Http2Inv

\* A handshake goes on: only the callback of a connection changes.
LEMMA HandshakeInv ==
  ASSUME Http2Inv, NEW c \in Conns, NEW b \in {"sch", "fd"}, conn[c].cb # "none",
         conn' = [conn EXCEPT ![c].cb = b], UNCHANGED <<flags, strm, fds, heap, disk>>
  PROVE  Http2Inv'
<1> DEFINE k == [conn[c] EXCEPT !.cb = b]
           dn == [conn EXCEPT ![c] = k]
<1>1. conn \in [Conns -> Connection] /\ Sound(World, conn) /\ World \in Worlds /\ Sockets(World.fds, conn)
  BY DEF Http2Inv, Sound
<1>2. k \in Connection /\ k.cb = b /\ k.fd = conn[c].fd
  BY <1>1 DEF Connection
<1>3. conn' = dn
  OBVIOUS
<1> HIDE DEF k
<1>4. dn \in [Conns -> Connection] /\ dn[c] = k /\ \A d \in Conns \ {c} : dn[d] = conn[d]
  BY <1>1, <1>2
<1> HIDE DEF dn
<1>5. \A d \in Conns : dn[d].fd = conn[d].fd /\ (dn[d].cb = "none" => conn[d].cb = "none")
  BY <1>2, <1>4
<1>6. Sockets(World.fds, dn)
  <2>1. ASSUME NEW f \in Fds, World.fds[f] # Free, World.fds[f].kind = "sock"
        PROVE  dn[World.fds[f].of].fd = f
    <3>1. World.fds[f].of \in Conns
      <4>1. World.fds \in [Fds -> Descs \cup {Free}]
        BY <1>1 DEF Worlds
      <4>2. QED
        BY <2>1, <4>1, DescFacts
    <3>2. QED
      BY <1>1, <1>5, <2>1, <3>1 DEF Sockets
  <2>2. QED
    BY <1>1, <1>5, <2>1 DEF Sockets
<1>7. Sound(World, dn)
  BY <1>1, <1>4, <1>6, SocketStep DEF SocketsOnly
<1>8. Rest(dn, World.strm)
  BY <1>5, StateFacts DEF Rest, Http2Inv
<1>9. Commit(World)
  BY StateFacts DEF Commit
<1>10. QED
  BY <1>3, <1>7, <1>8, <1>9, CommitStep DEF Http2Inv

\* A stream begins.
LEMMA HeadersInv ==
  ASSUME Http2Inv, NEW c \in Conns, NEW s \in Streams, NEW path \in Paths, NEW post \in BOOLEAN,
         Headers(c, s, path, post)
  PROVE  Http2Inv'
<1> DEFINE y == [NewStream EXCEPT !.st = "open", !.conn = c, !.path = path, !.post = post]
           v == [World EXCEPT !.strm = [@ EXCEPT ![s] = y]]
<1>1. strm[s].st = "idle" /\ strm' = [strm EXCEPT ![s] = y] /\ UNCHANGED <<flags, conn, fds, heap, disk>>
  BY DEF Headers
<1>2. NewStream \in Stream /\ ~NewStream.ctx.alloc /\ ~NewStream.refused /\ CtxFds(NewStream.ctx) = {}
  BY DEF NewStream, Stream, NoCtx, CtxFds
<1>3. y \in Stream
  <2>1. QED
    BY <1>2 DEF Stream
<1>4. /\ y.st = "open" /\ y.conn = c /\ ~y.ctx.alloc /\ y.values = 0 /\ ~y.done /\ y.sent = <<>>
      /\ ~y.refused
  BY DEF NewStream, NoCtx
<1> HIDE DEF y
<1>5. Sound(World, conn)
  BY DEF Http2Inv
<1>6. /\ World \in Worlds /\ Fits(s, strm[s], fds) /\ Blocks(s, strm[s], heap) /\ Mixes(strm)
  BY <1>5, WorldFacts, StateFacts
<1>7. strm[s] = NewStream
  BY <1>1, <1>6 DEF Fits
<1>8. /\ v \in Worlds /\ v.strm = [strm EXCEPT ![s] = y] /\ v.strm[s] = y
      /\ (\A z \in Streams \ {s} : v.strm[z] = strm[z])
      /\ v.fds = fds /\ v.heap = heap /\ v.disk = disk
  BY <1>3, <1>6, PutFacts, StateFacts
<1> HIDE DEF v
<1>9. Fits(s, y, v.fds)
  <2>1. \A f \in Fds : ~(fds[f] # Free /\ fds[f].kind # "sock" /\ fds[f].of = s)
    BY <1>2, <1>6, <1>7 DEF Fits
  <2>2. \A i \in 1 .. Len(y.sent) : y.sent[i] = <<s, i - 1>>
    BY <1>4
  <2>3. QED
    BY <1>4, <1>8, <2>1, <2>2 DEF Fits
<1>10. Blocks(s, y, v.heap)
  BY <1>2, <1>6, <1>7, <1>8 DEF Blocks
<1>11. ~Upload(y) /\ Stored(s, y, v.fds, v.disk)
  BY <1>4 DEF Upload, Stored
<1>12. Mixes(v.strm)
  BY <1>4, <1>6, <1>8, <1>11 DEF Mixes
<1>13. Own(World, v, s)
  BY <1>8, StateFacts DEF Own
<1>14. Sound(v, conn)
  BY <1>5, <1>8, <1>9, <1>10, <1>11, <1>12, <1>13, OneStream
<1>15. Rest(conn, v.strm)
  BY <1>4, <1>8 DEF Rest, Http2Inv
<1>16. Commit(v)
  BY <1>1, <1>8 DEF Commit
<1>17. Sound(v, conn') /\ Rest(conn', v.strm)
  BY <1>1, <1>14, <1>15
<1>18. QED
  BY <1>1, <1>16, <1>17, CommitStep DEF Http2Inv

\* A stream is closed, by the peer or at the end of the answer.
LEMMA StreamClosedInv ==
  ASSUME Http2Inv, NEW s \in Streams, Commit(StreamClosed(World, s)), UNCHANGED <<flags, conn>>
  PROVE  Http2Inv'
<1> DEFINE v == StreamClosed(World, s)
<1>1. Sound(World, conn)
  BY DEF Http2Inv
<1>2. /\ Sound(v, conn) /\ v.strm[s].st = "gone"
      /\ \A z \in Streams \ {s} : v.strm[z] = World.strm[z]
  BY <1>1, ClosedSound DEF StreamClosed
<1> HIDE DEF v
<1>3. Rest(conn, v.strm)
  BY <1>2, StateFacts DEF Rest, Http2Inv
<1>4. Sound(v, conn') /\ Rest(conn', v.strm) /\ Commit(v)
  BY <1>2, <1>3 DEF v
<1>5. QED
  BY <1>4, CommitStep DEF Http2Inv

\* A connection ends while nothing else is under way.
LEMMA ConnEndsInv ==
  ASSUME Http2Inv, NEW c \in Conns, ConnClosed(World, c), flags' = flags
  PROVE  Http2Inv'
BY ConnClosedStep, StateFacts DEF Http2Inv

\* A piece of the body comes in.
LEMMA DataInv ==
  ASSUME Http2Inv, NEW s \in Streams, NEW el, NEW fault \in BOOLEAN, Data(s, el, fault)
  PROVE  Http2Inv'
<1> DEFINE c == strm[s].conn
           u == [World EXCEPT !.strm[s].svc = TRUE]
           w == WithCtx(u, s)
           v == Element(w, s, el, fault)
<1>1. strm[s].st = "open" /\ Sound(World, conn) /\ ~strm[s].refused /\ strm[s].post \in BOOLEAN
  <2>1. strm[s].st = "open" /\ Sound(World, conn) /\ ~strm[s].refused
    BY DEF Data, Http2Inv
  <2>2. strm[s] \in Stream
    BY <2>1, WorldFacts, StateFacts
  <2>3. QED
    BY <2>1, <2>2 DEF Stream
<1>2. CASE ~strm[s].post
  <2>1. Returned(Fail(World), c) /\ flags' = flags
    BY <1>2 DEF Data
  <2>2. Callback(World, Fail(World), s, conn)
    BY <1>1, NothingDone
  <2>3. QED
    BY <1>1, <2>1, <2>2, ReturnedStep
<1>3. CASE strm[s].post /\ ~Found(s)
  <2>1. Returned(Reset(World, s), c) /\ flags' = flags
    BY <1>3 DEF Data
  <2>2. Callback(World, Reset(World, s), s, conn)
    BY <1>1, ResetSound, StateFacts
  <2>3. QED
    BY <1>1, <2>1, <2>2, ReturnedStep
<1>4. CASE strm[s].post /\ Found(s)
  <2>1. Serve(c, s, v)
    BY <1>4 DEF Data
  <2>2. Callback(World, u, s, conn) /\ u.strm[s] = [strm[s] EXCEPT !.svc = TRUE]
    <3>1. World.strm[s].st # "idle"
      BY <1>1, StateFacts
    <3>2. Callback(World, u, s, conn) /\ u.strm[s] = [World.strm[s] EXCEPT !.svc = TRUE]
      BY <1>1, <3>1, LookedUp
    <3> HIDE DEF u
    <3>3. QED
      BY <3>2, StateFacts
  <2>3. strm[s] \in Stream
    BY <1>1, WorldFacts, StateFacts
  <2> HIDE DEF u
  <2>4. u.strm[s].st = "open" /\ u.strm[s].svc /\ ~u.strm[s].refused /\ u.strm[s].refused = strm[s].refused
    BY <1>1, <2>2, <2>3 DEF Stream
  <2>5. Sound(u, conn)
    BY <2>2 DEF Callback
  <2>6. /\ Callback(u, w, s, conn) /\ w.strm[s].refused = u.strm[s].refused
        /\ w.strm[s].ctx.alloc /\ w.strm[s].st = "open"
    BY <2>4, <2>5, WithCtxSound
  <2> HIDE DEF w
  <2>7. Callback(World, w, s, conn)
    BY <2>2, <2>4, <2>6, CallbackThen, StateFacts
  <2>8. Sound(w, conn)
    BY <2>6 DEF Callback
  <2>9. Callback(w, v, s, conn)
    BY <2>6, <2>8, ElementSound
  <2> HIDE DEF v
  <2>10. Callback(World, v, s, conn)
    BY <2>4, <2>6, <2>7, <2>9, CallbackThen, StateFacts
  <2>11. QED
    BY <1>1, <2>1, <2>10, ServeStep
<1>5. QED
  BY <1>1, <1>2, <1>3, <1>4

\* The request has come in and is answered.
LEMMA EndStreamInv ==
  ASSUME Http2Inv, NEW s \in Streams, NEW fault \in BOOLEAN, EndStream(s, fault)
  PROVE  Http2Inv'
<1> DEFINE c == strm[s].conn
           u == [World EXCEPT !.strm[s].svc = TRUE]
           v == SfsHandler(u, s, fault)
<1>1. strm[s].st = "open" /\ Sound(World, conn) /\ ~strm[s].refused
  BY DEF EndStream, Http2Inv
<1>2. strm[s] \in Stream /\ World \in Worlds
  BY <1>1, WorldFacts, StateFacts
<1>3. CASE Found(s)
  <2>1. Serve(c, s, v)
    BY <1>3 DEF EndStream
  <2>2. Callback(World, u, s, conn) /\ u.strm[s] = [strm[s] EXCEPT !.svc = TRUE]
    <3>1. World.strm[s].st # "idle"
      BY <1>1, StateFacts
    <3>2. Callback(World, u, s, conn) /\ u.strm[s] = [World.strm[s] EXCEPT !.svc = TRUE]
      BY <1>1, <3>1, LookedUp
    <3> HIDE DEF u
    <3>3. QED
      BY <3>2, StateFacts
  <2> HIDE DEF u
  <2>3. u.strm[s].st = "open" /\ u.strm[s].svc /\ ~u.strm[s].refused /\ u.strm[s].refused = strm[s].refused
    BY <1>1, <1>2, <2>2 DEF Stream
  <2>4. Sound(u, conn)
    BY <2>2 DEF Callback
  <2>5. Callback(u, v, s, conn)
    BY <2>3, <2>4, SfsHandlerSound
  <2> HIDE DEF v
  <2>6. Callback(World, v, s, conn)
    BY <2>2, <2>3, <2>5, CallbackThen, StateFacts
  <2>7. QED
    BY <1>1, <2>1, <2>6, ServeStep
<1>4. CASE ~Found(s)
  <2> DEFINE y == [strm[s] EXCEPT !.st = "answering"]
             a == [World EXCEPT !.strm = [@ EXCEPT ![s] = y]]
  <2>1. Returned(Reset(a, s), c) /\ flags' = flags
    <3>1. [World EXCEPT !.strm[s].st = "answering"] = a
      BY StateFacts
    <3>2. QED
      BY <1>4, <3>1 DEF EndStream
  <2>2. y \in Stream
    BY <1>2 DEF Stream
  <2>3. /\ y.st = "answering" /\ y.conn = strm[s].conn /\ y.ctx = strm[s].ctx /\ y.svc = strm[s].svc
        /\ y.values = strm[s].values /\ y.done = strm[s].done /\ y.mixed = strm[s].mixed
        /\ y.sent = strm[s].sent /\ y.refused = strm[s].refused
    BY <1>2 DEF Stream
  <2> HIDE DEF y
  <2>4. /\ a \in Worlds /\ a.strm = [World.strm EXCEPT ![s] = y] /\ a.fds = World.fds /\ a.heap = World.heap
        /\ a.disk = World.disk /\ a.strm[s] = y
    BY <1>2, <2>2, PutFacts
  <2> HIDE DEF a
  <2>5. Callback(World, a, s, conn)
    BY <1>1, <2>2, <2>3, <2>4, AlikeSound, StateFacts
  <2>6. Sound(a, conn)
    BY <2>5 DEF Callback
  <2>7. Callback(a, Reset(a, s), s, conn)
    BY <2>3, <2>4, <2>6, ResetSound
  <2>8. Callback(World, Reset(a, s), s, conn)
    BY <2>3, <2>4, <2>5, <2>7, CallbackThen, StateFacts
  <2>9. QED
    BY <1>1, <2>1, <2>8, ReturnedStep
<1>5. QED
  BY <1>3, <1>4

\* A piece of a file is read for a stream.
LEMMA SendFileInv ==
  ASSUME Http2Inv, NEW s \in Streams, NEW fault \in BOOLEAN, SendFile(s, fault)
  PROVE  Http2Inv'
<1> DEFINE v == FileRead(World, s, fault)
<1>1. /\ strm[s].st = "answering" /\ strm[s].ctx.alloc /\ strm[s].ctx.fd # NoFd /\ Commit(v)
      /\ conn' = conn /\ flags' = flags
  BY DEF SendFile
<1>2. Sound(World, conn) /\ \A z \in Streams : World.strm[z].st = "open" => ~World.strm[z].refused
  BY StateFacts DEF Http2Inv
<1>3. Sound(v, conn) /\ \A z \in Streams : v.strm[z].st = "open" => ~v.strm[z].refused
  BY <1>1, <1>2, FileReadSound, StateFacts
<1> HIDE DEF v
<1>4. Sound(v, conn') /\ Rest(conn', v.strm)
  BY <1>1, <1>3 DEF Rest, Http2Inv
<1>5. QED
  BY <1>1, <1>4, CommitStep DEF Http2Inv

\* Every step keeps the invariant.
LEMMA NextInv == Http2Inv /\ [Next]_vars => Http2Inv'
<1> SUFFICES ASSUME Http2Inv, [Next]_vars PROVE Http2Inv'
  OBVIOUS
<1>1. CASE BindBegins \/ BindEnds
  BY <1>1, SameStep DEF BindBegins, BindEnds
<1>2. ASSUME NEW c \in Conns, Accept(c) \/ Alpn(c) \/ Sch(c) \/ ConnEnds(c)
      PROVE  Http2Inv'
  <2>1. CASE Accept(c)
    BY <2>1, AcceptInv
  <2>2. CASE Alpn(c)
    <3>1. conn[c].cb # "none" /\ conn' = [conn EXCEPT ![c].cb = "sch"] /\ UNCHANGED <<flags, strm, fds, heap, disk>>
      BY <2>2 DEF Alpn
    <3>2. QED
      BY <3>1, HandshakeInv
  <2>3. CASE Sch(c)
    <3>1. conn[c].cb # "none" /\ conn' = [conn EXCEPT ![c].cb = "fd"] /\ UNCHANGED <<flags, strm, fds, heap, disk>>
      BY <2>3 DEF Sch
    <3>2. QED
      BY <3>1, HandshakeInv
  <2>4. CASE ConnEnds(c)
    BY <2>4, ConnEndsInv DEF ConnEnds
  <2>5. QED
    BY <1>2, <2>1, <2>2, <2>3, <2>4
<1>3. ASSUME NEW c \in Conns, NEW s \in Streams, NEW p \in Paths, NEW post \in BOOLEAN, Headers(c, s, p, post)
      PROVE  Http2Inv'
  BY <1>3, HeadersInv
<1>4. ASSUME NEW s \in Streams, Trailers(s) \/ ResetByPeer(s) \/ SendReset(s) \/ SendFolder(s)
      PROVE  Http2Inv'
  <2>1. CASE Trailers(s)
    <3>1. strm[s].st = "open" /\ ConnClosed(World, strm[s].conn) /\ flags' = flags
      BY <2>1 DEF Trailers
    <3>2. strm[s].conn \in Conns
      BY <3>1, WorldFacts, StateFacts DEF Fits, Http2Inv
    <3>3. QED
      BY <3>1, <3>2, ConnEndsInv
  <2>2. CASE ResetByPeer(s) \/ SendReset(s) \/ SendFolder(s)
    <3>1. Commit(StreamClosed(World, s)) /\ UNCHANGED <<flags, conn>>
      BY <2>2 DEF ResetByPeer, SendReset, SendFolder
    <3>2. QED
      BY <3>1, StreamClosedInv
  <2>3. QED
    BY <1>4, <2>1, <2>2
<1>5. ASSUME NEW s \in Streams, NEW el, NEW fault \in BOOLEAN, Data(s, el, fault)
      PROVE  Http2Inv'
  BY <1>5, DataInv
<1>6. ASSUME NEW s \in Streams, NEW fault \in BOOLEAN, EndStream(s, fault) \/ SendFile(s, fault)
      PROVE  Http2Inv'
  BY <1>6, EndStreamInv, SendFileInv
<1>7. CASE UNCHANGED vars
  BY <1>7, SameStep DEF vars
<1>8. QED
  BY <1>1, <1>2, <1>3, <1>4, <1>5, <1>6, <1>7 DEF Next
-----------------------------------------------------------------------------
(* The theorems. *)

\* The invariant says what is held.
LEMMA HeldFact == Http2Inv => HeldIsOwn
<1> SUFFICES ASSUME Http2Inv PROVE HeldIsOwn
  OBVIOUS
<1>1. Sound(World, conn)
  BY DEF Http2Inv
<1>2. Sockets(fds, conn)
  BY <1>1, StateFacts DEF Sound
<1>3. ASSUME NEW s \in Streams, strm[s].ctx.alloc
      PROVE  Holds(s, strm[s].ctx, fds)
  BY <1>1, <1>3, WorldFacts, StateFacts DEF Fits
<1>4. QED
  BY <1>2, <1>3 DEF HeldIsOwn, Owns, Sockets, Holds, Is

\* The invariant says what may be left behind.
LEMMA LeftFact == Http2Inv => NothingLeftBehind
<1> SUFFICES ASSUME Http2Inv PROVE NothingLeftBehind
  OBVIOUS
<1>1. Sound(World, conn)
  BY DEF Http2Inv
<1>2. /\ Sockets(fds, conn) /\ fds \in [Fds -> Descs \cup {Free}]
      /\ heap \in SUBSET ({"ctx", "path"} \X Streams)
  BY <1>1, StateFacts DEF Sound, Worlds
<1>3. \A s \in Streams : Fits(s, strm[s], fds) /\ Blocks(s, strm[s], heap)
  BY <1>1, StateFacts DEF Sound
<1>4. ASSUME NEW f \in Fds, fds[f] # Free, f \notin HeldFds
      PROVE  fds[f].kind = "post" /\ strm[fds[f].of].refused
  <2>1. fds[f] \in Descs
    BY <1>2, <1>4
  <2>2. fds[f].kind # "sock"
    <3>1. SUFFICES ASSUME fds[f].kind = "sock"
                   PROVE  FALSE
      OBVIOUS
    <3>2. fds[f].of \in Conns /\ conn[fds[f].of].fd = f
      BY <1>2, <1>4, <2>1, <3>1, DescFacts DEF Sockets
    <3>3. QED
      BY <1>4, <3>2 DEF HeldFds
  <2>3. fds[f].of \in Streams
    BY <2>1, <2>2, DescFacts
  <2>4. f \notin CtxFds(strm[fds[f].of].ctx)
    BY <1>4, <2>3 DEF HeldFds
  <2>5. QED
    BY <1>3, <1>4, <2>2, <2>3, <2>4 DEF Fits
<1>5. ASSUME NEW b \in heap
      PROVE  strm[b[2]].ctx.alloc \/ (b[1] = "ctx" /\ strm[b[2]].refused /\ "browse" \in flags)
  <2>1. PICK k \in {"ctx", "path"}, s \in Streams : b = <<k, s>>
    BY <1>2
  <2>2. Blocks(s, strm[s], heap)
    BY <1>3
  <2>3. QED
    BY <2>1, <2>2 DEF Blocks
<1>6. QED
  BY <1>4, <1>5 DEF NothingLeftBehind

\* The invariant says whose files are sent and stored.
LEMMA FilesFact == Http2Inv => FilesAreOwn
<1> SUFFICES ASSUME Http2Inv PROVE FilesAreOwn
  OBVIOUS
<1>1. Sound(World, conn)
  BY DEF Http2Inv
<1>2. \A s \in Streams : Fits(s, strm[s], fds) /\ Stored(s, strm[s], fds, disk)
  BY <1>1, StateFacts DEF Sound
<1>3. SendsOwnFile
  BY <1>2 DEF SendsOwnFile, Fits
<1>4. UploadIsWhole
  BY <1>2 DEF UploadIsWhole, Stored
<1>5. QED
  BY <1>3, <1>4 DEF FilesAreOwn

\* The inductive invariant: every descriptor and every block of memory belongs to the
\* connection or the stream that it was opened for, in every order of handshakes, uploads,
\* answers, resets and ends of connections (nghttp2_wrapper and the simple file service).
THEOREM Http2Invariance == Spec => []Http2Inv
BY InitInv, NextInv, PTL DEF Spec

\* A number that a connection or a context holds is open and stands for what was opened
\* for it (sfs_on_stream_close, __exx of the callbacks, post-parser.c).
THEOREM HeldTheorem == Spec => []HeldIsOwn
BY Http2Invariance, HeldFact, PTL

\* No descriptor and no block is left behind but by a service that cannot give its answer
\* (sfs_file, sfs_folder).
THEOREM NothingLeftTheorem == Spec => []NothingLeftBehind
BY Http2Invariance, LeftFact, PTL

\* What is sent for a stream is its own file without a gap, and an upload that had the file
\* alone is on the disk as it came (sfs_read_local_file_cb, sfs_write_post_file).
THEOREM FilesTheorem == Spec => []FilesAreOwn
BY Http2Invariance, FilesFact, PTL
=============================================================================
