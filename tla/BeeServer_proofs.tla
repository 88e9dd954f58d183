-------------------------- MODULE BeeServer_proofs --------------------------
(***************************************************************************)
(* For any number of servers, keys, requests and failures: the read lock   *)
(* is released on every path, a write is forwarded once and acknowledged   *)
(* only when it reached every other server of its range, a look-up finds   *)
(* what the server showed while it ran, and shifting a bucket never brings *)
(* back an older value.                                                    *)
(***************************************************************************)
EXTENDS BeeServer, SequenceTheorems, TLAPS

Busy == {"get", "getbase", "local", "sync"}

Conn ==
  [bee : Bees, req : Request, from : Nat, total : Nat, sent : Nat, took : Nat, hungup : BOOLEAN,
   pc : Busy \cup {"backlog", "poll", "ready", "exec", "reply", "closed"},
   want : SUBSET {"READ", "WRITE"}, ev : SUBSET {"READ", "WRITE", "FD_CLOSE", "END"},
   lc : {"header", "payload"}, offset : Nat,
   heap : SUBSET {"ctx", "recv_buf", "reply_ptr"}, run : Payload \cup {NoPayload},
   i : Nat, r : Codes, found : Stored, reply : Codes \cup Uninitialised \cup {NoReply},
   seen : SUBSET Stored, done : SUBSET Bees]

TypeOK ==
  /\ conns \in Seq(Conn)
  /\ kcdb \in [Bees -> [Bees -> Bucket]]
  /\ readers \in [Bees -> SUBSET Nat]
  /\ configs \in Nat
  /\ last \in [Bees -> [Keys -> Stored]]
  /\ age \in [Bees -> [Keys -> Nat]]

\* How far a session has read: never beyond what arrived, and into recv_buf never
\* beyond its end.
Reads(x) ==
  /\ x.took <= x.sent
  /\ x.offset < IF x.lc = "header" THEN HeaderLen ELSE PayloadLen

\* A look-up under way, over the server's own bucket d: what the server shows, and
\* what the base shows once the patch has been passed over, is among what was seen.
Looks(x, d) ==
  /\ Visible(Find(d, x.run.key)) \in x.seen
  /\ x.pc = "getbase" => d.base # NoDb /\ Visible(d.base[x.run.key]) \in x.seen
  /\ (\E j \in DOMAIN Chain[x.bee] : j < x.i /\ Chain[x.bee][j] = x.bee) => Absent \in x.seen
  /\ x.found = Absent /\ x.req.op = "DB_GET"

\* The nodes before the one a write is at have been seen to.
Stores(x, ds) ==
  \A j \in DOMAIN Chain[x.bee] :
    j < x.i /\ ds[Chain[x.bee][j]] # Unregistered => Chain[x.bee][j] \in x.done

Syncs(x, ds) ==
  /\ NeedSync(x.req.op)
  /\ \A j \in DOMAIN Chain[x.bee] :
       /\ ds[Chain[x.bee][j]] # Unregistered => Chain[x.bee][j] \in x.done
       /\ j < x.i /\ Chain[x.bee][j] # x.bee => Chain[x.bee][j] \in x.done

\* What holds of a connection x at a server with the buckets ds.
Good(x, ds) ==
  /\ Reads(x)
  /\ x.i > 0
  /\ x.from # Pony => ~NeedSync(x.req.op)
  /\ x.pc \in Busy => x.run # NoPayload
  /\ x.pc \notin {"get", "getbase", "reply"} => x.seen = {} /\ x.found = Absent
  /\ x.pc \in {"get", "getbase"} => Looks(x, ds[x.bee])
  /\ x.pc = "local" => Stores(x, ds)
  /\ x.pc = "sync" => Syncs(x, ds)
  /\ /\ x.pc = "reply" /\ x.seen # {}
     /\ \E j \in DOMAIN Chain[x.bee] : Chain[x.bee][j] = x.bee
     => x.found \in x.seen
  /\ x.pc = "reply" /\ x.r = "OK" /\ NeedSync(x.req.op) =>
       \A j \in DOMAIN Chain[x.bee] : Chain[x.bee][j] # x.bee => Chain[x.bee][j] \in x.done

AllGood == \A c \in DOMAIN conns : Good(conns[c], kcdb[conns[c].bee])

\* The read lock is held by exactly the operations under way.
Locks ==
  \A b \in Bees, c \in Nat :
    c \in readers[b] <=> c \in DOMAIN conns /\ conns[c].bee = b /\ conns[c].pc \in Busy

\* A forwarded request comes from a write of pony that has come to the node it was
\* sent to, and there is one for each node.
Sends ==
  \A d \in DOMAIN conns : conns[d].from # Pony =>
    LET f == conns[d].from
    IN /\ f \in DOMAIN conns /\ conns[f].from = Pony
       /\ conns[f].pc \in {"sync", "reply", "closed"}
       /\ conns[f].pc = "sync" => \E j \in DOMAIN Chain[conns[f].bee] :
                                    j < conns[f].i /\ Chain[conns[f].bee][j] = conns[d].bee
       /\ \A e \in DOMAIN conns : conns[e].from = f /\ conns[e].bee = conns[d].bee => e = d

\* A key written since the last shift is in the patch, if there is one; the last
\* write is shown until the second shift.
Shows ==
  \A b \in Bees, k \in Keys :
    LET d == kcdb[b][b]
    IN /\ age[b][k] = 0 /\ d.patch # NoDb => d.patch[k] # Absent
       /\ IF age[b][k] <= 1 THEN Visible(Newest(d, k)) = last[b][k]
          ELSE Visible(Newest(d, k)) \in {last[b][k], Absent}

BeeInv == TypeOK /\ AllGood /\ Locks /\ Sends /\ Shows

-----------------------------------------------------------------------------
(* The step of one session. *)

\* The read lock after a step that leaves session c as y.
LockStep(c, y) ==
  /\ readers' \in [Bees -> SUBSET Nat]
  /\ \A b \in Bees, e \in Nat :
       e \in readers'[b] <=> IF e = c THEN b = y.bee /\ y.pc \in Busy ELSE e \in readers[b]

\* Session c goes from x to y and nothing else changes but the lock.
Moved(c, y) ==
  LET x == conns[c]
  IN /\ conns' = [conns EXCEPT ![c] = y]
     /\ y \in Conn /\ y.bee = x.bee /\ y.from = x.from /\ y.req = x.req
     /\ x.pc = "sync" => y.pc \in {"sync", "reply"} /\ x.i <= y.i
     /\ x.pc \in {"reply", "closed"} => y.pc \in {"reply", "closed"}
     /\ Good(y, kcdb[x.bee])
     /\ LockStep(c, y)
     /\ UNCHANGED <<kcdb, configs, last, age>>

\* What the invariant says of one connection.
LEMMA OneConn ==
  ASSUME BeeInv, NEW c \in DOMAIN conns
  PROVE  /\ conns \in Seq(Conn) /\ DOMAIN conns = 1 .. Len(conns) /\ Len(conns) \in Nat /\ c \in Nat
         /\ conns[c] \in Conn /\ Good(conns[c], kcdb[conns[c].bee])
         /\ conns[c].bee \in Bees /\ kcdb[conns[c].bee] \in [Bees -> Bucket]
         /\ Chain[conns[c].bee] \in Seq(Bees)
         /\ DOMAIN Chain[conns[c].bee] = 1 .. Len(Chain[conns[c].bee])
         /\ Len(Chain[conns[c].bee]) \in Nat
         /\ readers \in [Bees -> SUBSET Nat]
         /\ c \in readers[conns[c].bee] <=> conns[c].pc \in Busy
<1>1. /\ conns \in Seq(Conn) /\ DOMAIN conns = 1 .. Len(conns) /\ Len(conns) \in Nat /\ c \in Nat
      /\ conns[c] \in Conn /\ Good(conns[c], kcdb[conns[c].bee])
  BY DEF BeeInv, TypeOK, AllGood
<1>2. conns[c].bee \in Bees
  BY <1>1 DEF Conn
<1>3. kcdb[conns[c].bee] \in [Bees -> Bucket] /\ readers \in [Bees -> SUBSET Nat]
  BY <1>2 DEF BeeInv, TypeOK
<1>4. Chain[conns[c].bee] \in Seq(Bees)
  BY <1>2, BeeServerAssumption
<1>5. c \in readers[conns[c].bee] <=> conns[c].pc \in Busy
  BY <1>1, <1>2 DEF BeeInv, Locks
<1>6. QED
  BY <1>1, <1>2, <1>3, <1>4, <1>5

\* The ways in which an action handles the lock.
LEMMA LockSteps ==
  ASSUME BeeInv, NEW c \in DOMAIN conns, NEW y, y.bee = conns[c].bee,
         \/ UNCHANGED readers /\ (conns[c].pc \in Busy <=> y.pc \in Busy)
         \/ Unlock(c) /\ y.pc \notin Busy
         \/ readers' = [readers EXCEPT ![y.bee] = @ \cup {c}] /\ y.pc \in Busy
  PROVE  LockStep(c, y)
<1> DEFINE x == conns[c]
<1>1. /\ c \in Nat /\ x.bee \in Bees /\ readers \in [Bees -> SUBSET Nat]
      /\ c \in readers[x.bee] <=> x.pc \in Busy
  BY OneConn
<1>2. \A b \in Bees : c \in readers[b] => b = x.bee
  BY <1>1 DEF BeeInv, Locks
<1> HIDE DEF x
<1>3. y.bee = x.bee
  BY DEF x
<1>4. CASE UNCHANGED readers /\ (x.pc \in Busy <=> y.pc \in Busy)
  BY <1>1, <1>2, <1>3, <1>4 DEF LockStep
<1>5. CASE Unlock(c) /\ y.pc \notin Busy
  <2>1. readers' = [readers EXCEPT ![x.bee] = @ \ {c}]
    BY <1>5 DEF Unlock, x
  <2>2. readers' \in [Bees -> SUBSET Nat]
    BY <1>1, <2>1
  <2>3. \A b \in Bees : readers'[b] = IF b = x.bee THEN readers[b] \ {c} ELSE readers[b]
    BY <1>1, <2>1
  <2>4. QED
    BY <1>2, <1>3, <1>5, <2>2, <2>3 DEF LockStep
<1>6. CASE readers' = [readers EXCEPT ![y.bee] = @ \cup {c}] /\ y.pc \in Busy
  <2>1. \A b \in Bees : readers'[b] = IF b = x.bee THEN readers[b] \cup {c} ELSE readers[b]
    BY <1>1, <1>3, <1>6
  <2>2. readers' \in [Bees -> SUBSET Nat]
    BY <1>1, <1>3, <1>6
  <2>3. QED
    BY <1>2, <1>3, <1>6, <2>1, <2>2 DEF LockStep
<1>7. QED
  BY <1>4, <1>5, <1>6 DEF x

\* The connections after a step of one of them.
LEMMA OneChanges ==
  ASSUME conns \in Seq(Conn), NEW c \in DOMAIN conns, NEW y \in Conn,
         conns' = [conns EXCEPT ![c] = y]
  PROVE  /\ conns' \in Seq(Conn) /\ DOMAIN conns' = DOMAIN conns /\ Len(conns') = Len(conns)
         /\ conns'[c] = y /\ \A d \in DOMAIN conns \ {c} : conns'[d] = conns[d]
<1>1. c \in 1 .. Len(conns) /\ DOMAIN conns = 1 .. Len(conns)
  OBVIOUS
<1>2. conns' \in Seq(Conn) /\ Len(conns') = Len(conns)
  BY <1>1, ExceptSeq
<1>3. QED
  BY <1>1, <1>2

\* A step of one session keeps the invariant if it keeps what holds of that session.
LEMMA MovedKeeps ==
  ASSUME BeeInv, NEW c \in DOMAIN conns, NEW y, Moved(c, y)
  PROVE  BeeInv'
<1> DEFINE x == conns[c]
<1>0. /\ conns \in Seq(Conn) /\ DOMAIN conns \subseteq Nat /\ x \in Conn /\ x.bee \in Bees
  BY OneConn
<1>1. /\ conns' = [conns EXCEPT ![c] = y]
      /\ y \in Conn /\ y.bee = x.bee /\ y.from = x.from /\ y.req = x.req
      /\ x.pc = "sync" => y.pc \in {"sync", "reply"} /\ x.i <= y.i
      /\ x.pc \in {"reply", "closed"} => y.pc \in {"reply", "closed"}
      /\ Good(y, kcdb[x.bee]) /\ LockStep(c, y)
      /\ UNCHANGED <<kcdb, configs, last, age>>
  BY DEF Moved
<1>2. /\ conns' \in Seq(Conn) /\ DOMAIN conns' = DOMAIN conns
      /\ conns'[c] = y /\ \A d \in DOMAIN conns \ {c} : conns'[d] = conns[d]
  BY <1>0, <1>1, OneChanges
<1>3. TypeOK'
  BY <1>1, <1>2 DEF BeeInv, TypeOK, LockStep
<1>4. AllGood'
  <2>1. \A d \in DOMAIN conns : Good(conns'[d], kcdb[conns'[d].bee])
    BY <1>1, <1>2 DEF BeeInv, AllGood
  <2>2. QED
    BY <1>1, <1>2, <2>1 DEF AllGood
<1>5. Locks'
  <2>1. ASSUME NEW b \in Bees, NEW e \in Nat
        PROVE  e \in readers'[b] <=> e \in DOMAIN conns /\ conns'[e].bee = b /\ conns'[e].pc \in Busy
    <3>1. CASE e = c
      BY <1>1, <1>2, <3>1 DEF LockStep
    <3>2. CASE e # c
      BY <1>1, <1>2, <3>2 DEF LockStep, BeeInv, Locks
    <3>3. QED
      BY <3>1, <3>2
  <2>2. QED
    BY <1>2, <2>1 DEF Locks
<1>6. Sends'
  <2>0. \A d \in DOMAIN conns : conns'[d].from = conns[d].from /\ conns'[d].bee = conns[d].bee
    BY <1>1, <1>2
  <2>1. ASSUME NEW d \in DOMAIN conns, conns[d].from # Pony
        PROVE  LET f == conns[d].from
               IN /\ f \in DOMAIN conns /\ conns[f].from = Pony
                  /\ conns'[f].pc \in {"sync", "reply", "closed"}
                  /\ conns'[f].pc = "sync" => \E j \in DOMAIN Chain[conns[f].bee] :
                                         j < conns'[f].i /\ Chain[conns[f].bee][j] = conns[d].bee
                  /\ \A e \in DOMAIN conns : conns[e].from = f /\ conns[e].bee = conns[d].bee => e = d
    <3> DEFINE f == conns[d].from
    <3>1. /\ f \in DOMAIN conns /\ conns[f].from = Pony
          /\ conns[f].pc \in {"sync", "reply", "closed"}
          /\ conns[f].pc = "sync" => \E j \in DOMAIN Chain[conns[f].bee] :
                                       j < conns[f].i /\ Chain[conns[f].bee][j] = conns[d].bee
          /\ \A e \in DOMAIN conns : conns[e].from = f /\ conns[e].bee = conns[d].bee => e = d
      BY <2>1 DEF BeeInv, Sends
    <3>2. CASE f # c
      BY <1>2, <3>1, <3>2
    <3>3. CASE f = c
      <4>1. conns'[f] = y /\ conns[f] = x /\ x.i \in Nat /\ y.i \in Nat
        BY <1>0, <1>1, <1>2, <3>3 DEF Conn
      <4>2. y.pc \in {"sync", "reply", "closed"} /\ (y.pc = "sync" => x.pc = "sync" /\ x.i <= y.i)
        BY <1>1, <3>1, <4>1
      <4>3. ASSUME y.pc = "sync"
            PROVE  \E j \in DOMAIN Chain[x.bee] : j < y.i /\ Chain[x.bee][j] = conns[d].bee
        <5>1. PICK j \in DOMAIN Chain[x.bee] : j < x.i /\ Chain[x.bee][j] = conns[d].bee
          BY <3>1, <4>1, <4>2, <4>3
        <5>2. j \in Nat
          BY <1>0, BeeServerAssumption
        <5>3. j < y.i
          BY <4>1, <4>2, <4>3, <5>1, <5>2
        <5>4. QED
          BY <5>1, <5>3
      <4>4. QED
        BY <3>1, <4>1, <4>2, <4>3
    <3>4. QED
      BY <3>2, <3>3
  <2>2. QED
    BY <1>2, <2>0, <2>1 DEF Sends
<1>7. Shows'
  BY <1>1 DEF BeeInv, Shows
<1>8. QED
  BY <1>3, <1>4, <1>5, <1>6, <1>7 DEF BeeInv

-----------------------------------------------------------------------------
(* The socket and the reading of a request. *)

\* What holds of a connection depends on a part of it only.
LEMMA AlikeGood ==
  ASSUME NEW x, NEW y, NEW ds, Good(x, ds), Reads(y), y.bee = x.bee, y.req = x.req, y.from = x.from,
         y.pc = x.pc, y.i = x.i, y.r = x.r, y.run = x.run, y.found = x.found, y.seen = x.seen,
         y.done = x.done
  PROVE  Good(y, ds)
BY DEF Good, Looks, Stores, Syncs

\* Before its operation a session has little to keep.
LEMMA IdleGood ==
  ASSUME NEW x, NEW y, NEW ds, Good(x, ds), Reads(y), y.req = x.req, y.from = x.from,
         y.pc \in {"backlog", "poll", "ready", "exec", "closed"}, y.seen = {}, y.found = Absent,
         y.i > 0
  PROVE  Good(y, ds)
BY DEF Good, Busy

\* An idle session moves: most of what Moved asks for.
LEMMA IdleMoves ==
  ASSUME BeeInv, NEW c \in DOMAIN conns, NEW y \in Conn, conns' = [conns EXCEPT ![c] = y],
         UNCHANGED <<kcdb, readers, configs, last, age>>,
         y.bee = conns[c].bee, y.from = conns[c].from, y.req = conns[c].req, Reads(y),
         conns[c].pc \in {"backlog", "poll", "ready", "exec", "reply"},
         conns[c].pc = "reply" => y.pc = "closed",
         y.pc \in {"backlog", "poll", "ready", "exec", "closed"}, y.seen = {}, y.found = Absent,
         y.i > 0
  PROVE  Moved(c, y)
<1>1. Good(conns[c], kcdb[conns[c].bee])
  BY OneConn
<1>2. Good(y, kcdb[conns[c].bee])
  BY <1>1, IdleGood
<1>3. conns[c].pc \notin Busy /\ y.pc \notin Busy /\ conns[c].pc # "sync" /\ conns[c].pc # "closed"
  BY DEF Busy
<1>4. LockStep(c, y)
  BY <1>3, LockSteps
<1>5. QED
  BY <1>2, <1>3, <1>4 DEF Moved

\* More of a request arrives, or the other end closes.
LEMMA ArriveMoves ==
  ASSUME BeeInv, NEW c \in DOMAIN conns, Arrive(c) \/ HangUp(c)
  PROVE  \E y : Moved(c, y)
<1> DEFINE x == conns[c]
<1>0. x \in Conn /\ Good(x, kcdb[x.bee]) /\ conns \in Seq(Conn)
  BY OneConn
<1>1. PICK y \in Conn :
        /\ conns' = [conns EXCEPT ![c] = y] /\ UNCHANGED <<kcdb, readers, configs, last, age>>
        /\ y.bee = x.bee /\ y.req = x.req /\ y.from = x.from /\ y.pc = x.pc /\ y.i = x.i /\ y.r = x.r
        /\ y.run = x.run /\ y.found = x.found /\ y.seen = x.seen /\ y.done = x.done
        /\ y.took = x.took /\ y.sent >= x.sent /\ y.offset = x.offset /\ y.lc = x.lc
  <2>1. CASE Arrive(c)
    <3>1. PICK n \in (x.sent + 1)..x.total : conns' = [conns EXCEPT ![c].sent = n]
      BY <2>1 DEF Arrive
    <3> DEFINE y == [x EXCEPT !.sent = n]
    <3>2. x.sent \in Nat /\ x.total \in Nat /\ n \in Nat /\ n >= x.sent
      <4>1. x.sent \in Nat /\ x.total \in Nat
        BY <1>0 DEF Conn
      <4>2. QED
        BY <4>1
    <3>3. y \in Conn
      BY <1>0, <3>2 DEF Conn
    <3>4. conns' = [conns EXCEPT ![c] = y]
      BY <3>1
    <3>5. /\ y.bee = x.bee /\ y.req = x.req /\ y.from = x.from /\ y.pc = x.pc /\ y.i = x.i /\ y.r = x.r
          /\ y.run = x.run /\ y.found = x.found /\ y.seen = x.seen /\ y.done = x.done
          /\ y.took = x.took /\ y.sent = n /\ y.offset = x.offset /\ y.lc = x.lc
      BY <1>0 DEF Conn
    <3> HIDE DEF y
    <3>6. QED
      BY <2>1, <3>2, <3>3, <3>4, <3>5 DEF Arrive
  <2>2. CASE HangUp(c)
    <3> DEFINE y == [x EXCEPT !.hungup = TRUE]
    <3>1. y \in Conn /\ x.sent \in Nat
      BY <1>0 DEF Conn
    <3>2. conns' = [conns EXCEPT ![c] = y]
      BY <2>2 DEF HangUp
    <3>3. /\ y.bee = x.bee /\ y.req = x.req /\ y.from = x.from /\ y.pc = x.pc /\ y.i = x.i /\ y.r = x.r
          /\ y.run = x.run /\ y.found = x.found /\ y.seen = x.seen /\ y.done = x.done
          /\ y.took = x.took /\ y.sent = x.sent /\ y.offset = x.offset /\ y.lc = x.lc
      BY <1>0 DEF Conn
    <3> HIDE DEF y
    <3>4. UNCHANGED <<kcdb, readers, configs, last, age>> /\ y.sent >= x.sent
      BY <2>2, <3>1, <3>3 DEF HangUp
    <3>5. QED
      BY <3>1, <3>2, <3>3, <3>4
  <2>3. QED
    BY <2>1, <2>2
<1>2. Reads(y)
  <2>1. Reads(x) /\ x.took \in Nat /\ x.sent \in Nat /\ y.sent \in Nat
    BY <1>0, <1>1 DEF Good, Conn
  <2>2. QED
    BY <1>1, <2>1 DEF Reads
<1>3. Good(y, kcdb[x.bee])
  BY <1>0, <1>1, <1>2, AlikeGood
<1>4. LockStep(c, y)
  BY <1>1, LockSteps
<1>5. x.i <= y.i
  BY <1>0, <1>1 DEF Conn
<1>6. QED
  BY <1>1, <1>3, <1>4, <1>5 DEF Moved

\* A session that is closed.
LEMMA ClosedFacts ==
  ASSUME NEW x \in Conn
  PROVE  /\ Closed(x) \in Conn /\ Reads(Closed(x)) /\ Closed(x).pc = "closed" /\ Closed(x).seen = {}
         /\ Closed(x).found = Absent
         /\ Closed(x).i = 1 /\ Closed(x).bee = x.bee /\ Closed(x).from = x.from /\ Closed(x).req = x.req
<1>1. Closed(x) \in Conn
  BY DEF Closed, Conn, Stored
<1>2. /\ Closed(x).pc = "closed" /\ Closed(x).seen = {} /\ Closed(x).found = Absent
      /\ Closed(x).i = 1 /\ Closed(x).bee = x.bee /\ Closed(x).from = x.from /\ Closed(x).req = x.req
      /\ Closed(x).took = 0 /\ Closed(x).sent = 0 /\ Closed(x).offset = 0 /\ Closed(x).lc = "header"
  BY DEF Closed, Conn
<1>3. Reads(Closed(x))
  BY <1>2, BeeServerAssumption DEF Reads
<1>4. QED
  BY <1>1, <1>2, <1>3

\* Closing a session that is not at its operation.
LEMMA ClosedMoves ==
  ASSUME BeeInv, NEW c \in DOMAIN conns, conns' = [conns EXCEPT ![c] = Closed(conns[c])],
         UNCHANGED <<kcdb, readers, configs, last, age>>,
         conns[c].pc \in {"backlog", "poll", "ready", "exec", "reply"}
  PROVE  \E y : Moved(c, y)
<1> DEFINE x == conns[c]
           y == Closed(x)
<1>0. x \in Conn
  BY OneConn
<1>1. /\ y \in Conn /\ Reads(y) /\ y.pc = "closed" /\ y.seen = {}
      /\ y.found = Absent /\ y.i = 1 /\ y.bee = x.bee /\ y.from = x.from /\ y.req = x.req
  BY <1>0, ClosedFacts
<1>2. conns' = [conns EXCEPT ![c] = y]
  OBVIOUS
<1> HIDE DEF y
<1>3. y.i > 0
  BY <1>1
<1>4. Moved(c, y)
  BY <1>1, <1>2, <1>3, IdleMoves
<1>5. QED
  BY <1>4

\* bee_create_new_session, and the end of a poll.
LEMMA SocketMoves ==
  ASSUME BeeInv, NEW c \in DOMAIN conns, Accept(c) \/ Poll(c) \/ Expire(c)
  PROVE  \E y : Moved(c, y)
<1> DEFINE x == conns[c]
<1>0. x \in Conn /\ Good(x, kcdb[x.bee]) /\ conns \in Seq(Conn)
  BY OneConn
<1>1. /\ x.pc \in {"backlog", "poll"} /\ UNCHANGED <<kcdb, readers, configs, last, age>>
  BY DEF Accept, Poll, Expire
<1>2. x.seen = {} /\ x.found = Absent /\ x.i > 0 /\ Reads(x)
  BY <1>0, <1>1 DEF Good
<1>3. ASSUME NEW y \in Conn, conns' = [conns EXCEPT ![c] = y],
             y.pc \in {"poll", "ready"}, y.bee = x.bee, y.from = x.from, y.req = x.req,
             y.seen = x.seen, y.found = x.found, y.i = x.i, y.took = x.took, y.sent = x.sent,
             y.offset = x.offset, y.lc = x.lc
      PROVE  Moved(c, y)
  <2>1. Reads(y)
    BY <1>2, <1>3 DEF Reads
  <2>2. QED
    BY <1>1, <1>2, <1>3, <2>1, IdleMoves
<1>4. CASE Poll(c) \/ Expire(c)
  <2>1. PICK bits \in SUBSET {"READ", "WRITE", "FD_CLOSE", "END"} :
          conns' = [conns EXCEPT ![c].pc = "ready", ![c].ev = bits]
    <3>1. x.want \cap {"WRITE"} \subseteq {"WRITE"} /\ x.want \cap {"READ"} \subseteq {"READ"}
      OBVIOUS
    <3>2. CASE Expire(c)
      BY <3>2 DEF Expire
    <3>3. CASE Poll(c)
      BY <3>1, <3>3 DEF Poll
    <3>4. QED
      BY <1>4, <3>2, <3>3
  <2> DEFINE y == [x EXCEPT !.pc = "ready", !.ev = bits]
  <2>2. conns' = [conns EXCEPT ![c] = y]
    BY <2>1
  <2>3. y \in Conn
    BY <1>0 DEF Conn
  <2>4. /\ y.pc = "ready" /\ y.bee = x.bee /\ y.from = x.from /\ y.req = x.req
        /\ y.seen = x.seen /\ y.found = x.found /\ y.i = x.i /\ y.took = x.took /\ y.sent = x.sent
        /\ y.offset = x.offset /\ y.lc = x.lc
    BY <1>0 DEF Conn
  <2>5. QED
    BY <1>3, <2>2, <2>3, <2>4
<1>5. CASE Accept(c)
  <2>1. CASE conns' = [conns EXCEPT ![c].pc = "poll", ![c].want = {"READ", "WRITE"}, ![c].heap = {"ctx"}]
    <3> DEFINE y == [x EXCEPT !.pc = "poll", !.want = {"READ", "WRITE"}, !.heap = {"ctx"}]
    <3>2. conns' = [conns EXCEPT ![c] = y]
      BY <2>1
    <3>3. y \in Conn
      BY <1>0 DEF Conn
    <3>4. /\ y.pc = "poll" /\ y.bee = x.bee /\ y.from = x.from /\ y.req = x.req
          /\ y.seen = x.seen /\ y.found = x.found /\ y.i = x.i /\ y.took = x.took /\ y.sent = x.sent
          /\ y.offset = x.offset /\ y.lc = x.lc
      BY <1>0 DEF Conn
    <3>5. QED
      BY <1>3, <3>2, <3>3, <3>4
  <2>2. CASE conns' = [conns EXCEPT ![c] = Closed(@)]
    <3>1. conns' = [conns EXCEPT ![c] = Closed(x)]
      BY <2>2
    <3>2. QED
      BY <1>1, <3>1, ClosedMoves
  <2>3. QED
    BY <1>5, <2>1, <2>2 DEF Accept
<1>6. QED
  BY <1>4, <1>5

\* The lesser of two numbers.
LEMMA MinFacts ==
  ASSUME NEW a \in Int, NEW b \in Int
  PROVE  /\ Min({a, b}) \in {a, b}
         /\ Min({a, b}) <= a /\ Min({a, b}) <= b
<1>1. \E m \in {a, b} : \A n \in {a, b} : m <= n
  BY a <= b \/ b <= a
<1>2. QED
  BY <1>1 DEF Min

\* What one call of the callback makes of a session that reads.
Read(x, y) ==
  /\ y \in Conn /\ Reads(y) /\ y.seen = {} /\ y.found = Absent /\ y.i > 0
  /\ y.bee = x.bee /\ y.from = x.from /\ y.req = x.req
  /\ y.pc \in {"poll", "exec", "closed"}

\* Label __read_again.
LEMMA RearmedFacts ==
  ASSUME NEW x \in Conn, Reads(x), x.seen = {}, x.found = Absent, x.i > 0, NEW n \in Nat, n <= Unread(x),
         n < (IF x.lc = "header" THEN HeaderLen ELSE PayloadLen) - x.offset,
         NEW y \in Rearmed(x, n)
  PROVE  Read(x, y)
<1>1. x.sent \in Nat /\ x.took \in Nat /\ x.offset \in Nat
  BY DEF Conn
<1>2. CASE y = Closed(x)
  BY <1>2, ClosedFacts DEF Read
<1>3. CASE y = [x EXCEPT !.pc = "poll", !.want = {"READ"}, !.ev = {}, !.offset = @ + n, !.took = @ + n]
  <2>1. x.offset + n \in Nat /\ x.took + n \in Nat
    BY <1>1
  <2>2. y \in Conn
    BY <1>3, <2>1 DEF Conn
  <2>3. /\ y.pc = "poll" /\ y.bee = x.bee /\ y.from = x.from /\ y.req = x.req /\ y.seen = x.seen
        /\ y.found = x.found
        /\ y.i = x.i /\ y.sent = x.sent /\ y.lc = x.lc
        /\ y.offset = x.offset + n /\ y.took = x.took + n
    BY <1>3 DEF Conn
  <2>4. x.took + n <= x.sent
    BY <1>1 DEF Unread
  <2>5. x.offset + n < IF x.lc = "header" THEN HeaderLen ELSE PayloadLen
    BY <1>1, BeeServerAssumption
  <2>6. QED
    BY <2>2, <2>3, <2>4, <2>5 DEF Read, Reads
<1>4. QED
  BY <1>2, <1>3 DEF Rearmed

\* What may be in memory that was given back.
LEMMA StaleFacts ==
  ASSUME BeeInv, NEW b
  PROVE  Stale(b) \subseteq Payload \cup {NoPayload}
<1>1. \A d \in DOMAIN conns : conns[d].run \in Payload \cup {NoPayload}
  BY OneConn DEF Conn
<1>2. QED
  BY <1>1 DEF Stale

\* From the second PT_SET.
LEMMA PayloadFacts ==
  ASSUME BeeInv, NEW x \in Conn, Reads(x), x.seen = {}, x.found = Absent, x.i > 0, x.lc = "payload",
         NEW y \in PayloadPart(x)
  PROVE  Read(x, y)
<1> DEFINE n == Min({Unread(x), PayloadLen - x.offset})
<1>1. x.sent \in Nat /\ x.took \in Nat /\ x.offset \in Nat /\ x.req \in Request
  BY DEF Conn
<1>2. Unread(x) \in Nat /\ PayloadLen - x.offset \in Nat /\ PayloadLen \in Nat
  BY <1>1, BeeServerAssumption DEF Unread, Reads
<1>3. n \in Nat /\ n <= Unread(x) /\ n <= PayloadLen - x.offset
  <2> DEFINE a == Unread(x)
             b == PayloadLen - x.offset
  <2>1. a \in Int /\ b \in Int /\ a \in Nat /\ b \in Nat
    BY <1>2
  <2> HIDE DEF a, b
  <2>2. Min({a, b}) \in {a, b} /\ Min({a, b}) <= a /\ Min({a, b}) <= b
    BY <2>1, MinFacts
  <2>3. QED
    BY <2>1, <2>2 DEF a, b
<1>4. CASE y = Closed(x)
  BY <1>4, ClosedFacts DEF Read
<1>5. ASSUME NEW p \in Stale(x.bee), y = [x EXCEPT !.pc = "exec", !.run = p]
      PROVE  Read(x, y)
  <2>1. p \in Payload \cup {NoPayload}
    BY StaleFacts
  <2>2. y \in Conn
    BY <1>5, <2>1 DEF Conn
  <2>3. /\ y.pc = "exec" /\ y.bee = x.bee /\ y.from = x.from /\ y.req = x.req /\ y.seen = x.seen
        /\ y.found = x.found
        /\ y.i = x.i /\ y.sent = x.sent /\ y.lc = x.lc /\ y.offset = x.offset /\ y.took = x.took
    BY <1>5 DEF Conn
  <2>4. QED
    BY <2>2, <2>3 DEF Read, Reads
<1>6. CASE y \in Rearmed(x, n) /\ n < PayloadLen - x.offset
  <2> HIDE DEF n
  <2>1. n < (IF x.lc = "header" THEN HeaderLen ELSE PayloadLen) - x.offset
    BY <1>6
  <2>2. QED
    BY <1>3, <1>6, <2>1, RearmedFacts
<1>7. CASE y = [x EXCEPT !.pc = "exec", !.took = @ + n, !.run = [key |-> x.req.key, val |-> x.req.val]]
  <2>1. x.took + n \in Nat /\ x.took + n <= x.sent
    BY <1>1, <1>3 DEF Unread
  <2>2. [key |-> x.req.key, val |-> x.req.val] \in Payload
    BY <1>1 DEF Payload, Request
  <2>3. y \in Conn
    BY <1>7, <2>1, <2>2 DEF Conn
  <2>4. /\ y.pc = "exec" /\ y.bee = x.bee /\ y.from = x.from /\ y.req = x.req /\ y.seen = x.seen
        /\ y.found = x.found
        /\ y.i = x.i /\ y.sent = x.sent /\ y.lc = x.lc /\ y.offset = x.offset /\ y.took = x.took + n
    BY <1>7 DEF Conn
  <2>5. QED
    BY <2>1, <2>3, <2>4 DEF Read, Reads
<1>8. QED
  BY <1>4, <1>5, <1>6, <1>7 DEF PayloadPart

\* From the first PT_SET.
LEMMA HeaderFacts ==
  ASSUME BeeInv, NEW x \in Conn, Reads(x), x.seen = {}, x.found = Absent, x.i > 0, x.lc = "header",
         NEW y \in HeaderPart(x)
  PROVE  Read(x, y)
<1> DEFINE n == Min({Unread(x), HeaderLen - x.offset})
           z == [x EXCEPT !.lc = "payload", !.offset = 0, !.took = @ + n, !.heap = @ \cup {"recv_buf"}]
<1>1. x.sent \in Nat /\ x.took \in Nat /\ x.offset \in Nat
      /\ x.heap \cup {"recv_buf"} \in SUBSET {"ctx", "recv_buf", "reply_ptr"}
  BY DEF Conn
<1>2. Unread(x) \in Nat /\ HeaderLen - x.offset \in Nat /\ HeaderLen \in Nat
  BY <1>1, BeeServerAssumption DEF Unread, Reads
<1>3. n \in Nat /\ n <= Unread(x) /\ n <= HeaderLen - x.offset
  <2> DEFINE a == Unread(x)
             b == HeaderLen - x.offset
  <2>1. a \in Int /\ b \in Int /\ a \in Nat /\ b \in Nat
    BY <1>2
  <2> HIDE DEF a, b
  <2>2. Min({a, b}) \in {a, b} /\ Min({a, b}) <= a /\ Min({a, b}) <= b
    BY <2>1, MinFacts
  <2>3. QED
    BY <2>1, <2>2 DEF a, b
<1>4. CASE y = Closed(x)
  BY <1>4, ClosedFacts DEF Read
<1>5. CASE y \in Rearmed(x, n) /\ n < HeaderLen - x.offset
  <2> HIDE DEF n
  <2>1. n < (IF x.lc = "header" THEN HeaderLen ELSE PayloadLen) - x.offset
    BY <1>5
  <2>2. QED
    BY <1>3, <1>5, <2>1, RearmedFacts
<1>6. CASE y \in PayloadPart(z)
  <2>1. x.took + n \in Nat /\ x.took + n <= x.sent
    BY <1>1, <1>3 DEF Unread
  <2>2. z \in Conn
    BY <1>1, <2>1 DEF Conn
  <2>3. /\ z.bee = x.bee /\ z.from = x.from /\ z.req = x.req
        /\ z.seen = x.seen /\ z.found = x.found /\ z.i = x.i
        /\ z.sent = x.sent /\ z.lc = "payload" /\ z.offset = 0 /\ z.took = x.took + n
    BY DEF Conn
  <2> HIDE DEF z
  <2>4. Reads(z)
    BY <2>1, <2>3, BeeServerAssumption DEF Reads
  <2>5. Read(z, y)
    BY <1>6, <2>2, <2>3, <2>4, PayloadFacts
  <2>6. QED
    BY <2>3, <2>5 DEF Read
<1>7. QED
  BY <1>4, <1>5, <1>6 DEF HeaderPart

\* bee_session_receive_request, up to the operation.
LEMMA ReceiveMoves ==
  ASSUME BeeInv, NEW c \in DOMAIN conns, ReceiveRequest(c)
  PROVE  \E y : Moved(c, y)
<1> DEFINE x == conns[c]
<1>0. x \in Conn /\ Good(x, kcdb[x.bee])
  BY OneConn
<1>1. x.pc = "ready" /\ UNCHANGED <<kcdb, readers, configs, last, age>>
  BY DEF ReceiveRequest
<1>2. x.seen = {} /\ x.found = Absent /\ x.i > 0 /\ Reads(x) /\ x.lc \in {"header", "payload"}
  BY <1>0, <1>1 DEF Good, Conn
<1>3. PICK y : /\ conns' = [conns EXCEPT ![c] = y]
               /\ y \in IF x.ev \cap EndBits # {} THEN {Closed(x)}
                        ELSE IF x.lc = "header" THEN HeaderPart(x) ELSE PayloadPart(x)
  BY DEF ReceiveRequest
<1>4. CASE y = Closed(x)
  BY <1>1, <1>3, <1>4, ClosedMoves
<1>5. CASE Read(x, y)
  BY <1>1, <1>3, <1>5, IdleMoves DEF Read
<1>6. CASE y \in HeaderPart(x) /\ x.lc = "header"
  BY <1>0, <1>2, <1>5, <1>6, HeaderFacts
<1>7. CASE y \in PayloadPart(x) /\ x.lc = "payload"
  BY <1>0, <1>2, <1>5, <1>7, PayloadFacts
<1>8. QED
  BY <1>2, <1>3, <1>4, <1>6, <1>7

-----------------------------------------------------------------------------
(* The operations. *)

ChainHas(b) == \E j \in DOMAIN Chain[b] : Chain[b][j] = b
AllDone(x) == \A j \in DOMAIN Chain[x.bee] : Chain[x.bee][j] # x.bee => Chain[x.bee][j] \in x.done

\* An operation that ends has what its reply needs.
LEMMA EndGood ==
  ASSUME NEW x, NEW y, NEW ds, Good(x, ds), Reads(y), y.req = x.req, y.from = x.from, y.bee = x.bee,
         y.pc = "reply", y.i > 0,
         y.seen # {} /\ ChainHas(y.bee) => y.found \in y.seen,
         y.r = "OK" /\ NeedSync(y.req.op) => AllDone(y)
  PROVE  Good(y, ds)
BY DEF Good, Busy, ChainHas, AllDone

\* Finish, on every path that leads to it.
LEMMA FinishMoves ==
  ASSUME BeeInv, NEW c \in DOMAIN conns, NEW r \in Codes, Finish(c, r),
         UNCHANGED <<kcdb, configs, last, age>>,
         \/ conns[c].pc = "exec" /\ UNCHANGED readers
         \/ conns[c].pc \in Busy /\ Unlock(c),
         conns[c].pc \in {"get", "getbase"} /\ ChainHas(conns[c].bee) =>
           conns[c].found \in conns[c].seen,
         r = "OK" /\ NeedSync(conns[c].req.op) => AllDone(conns[c])
  PROVE  \E y : Moved(c, y)
<1> DEFINE x == conns[c]
           y == [x EXCEPT !.pc = "reply", !.r = r]
<1>0. /\ x \in Conn /\ Good(x, kcdb[x.bee]) /\ x.i \in Nat
  BY OneConn DEF Conn
<1>1. conns' = [conns EXCEPT ![c] = y]
  BY DEF Finish
<1>2. y \in Conn
  BY <1>0 DEF Conn
<1>3. /\ y.pc = "reply" /\ y.r = r /\ y.bee = x.bee /\ y.from = x.from /\ y.req = x.req
      /\ y.seen = x.seen /\ y.found = x.found /\ y.done = x.done /\ y.i = x.i
      /\ y.took = x.took /\ y.sent = x.sent /\ y.offset = x.offset /\ y.lc = x.lc
  BY <1>0 DEF Conn
<1> HIDE DEF y
<1>4. Reads(y) /\ y.i > 0
  BY <1>0, <1>3 DEF Good, Reads
<1>5. y.seen # {} /\ ChainHas(y.bee) => y.found \in y.seen
  <2>1. x.pc \notin {"get", "getbase"} => x.seen = {}
    BY <1>0 DEF Good, Busy
  <2>2. QED
    BY <1>3, <2>1
<1>6. y.r = "OK" /\ NeedSync(y.req.op) => AllDone(y)
  BY <1>3 DEF AllDone
<1>7. Good(y, kcdb[x.bee])
  BY <1>0, <1>3, <1>4, <1>5, <1>6, EndGood
<1>8. LockStep(c, y)
  <2>1. y.pc \notin Busy /\ "exec" \notin Busy
    BY <1>3 DEF Busy
  <2>2. QED
    BY <1>3, <2>1, LockSteps
<1>9. x.pc = "sync" => y.pc \in {"sync", "reply"} /\ x.i <= y.i
  BY <1>0, <1>3
<1>10. Moved(c, y)
  BY <1>1, <1>2, <1>3, <1>7, <1>8, <1>9 DEF Moved
<1>11. QED
  BY <1>10

\* The branches that need no bucket.
LEMMA ExecuteMoves ==
  ASSUME BeeInv, NEW c \in DOMAIN conns, Execute(c)
  PROVE  \E y : Moved(c, y)
<1> DEFINE x == conns[c]
<1>0. /\ x \in Conn /\ Good(x, kcdb[x.bee])
  BY OneConn
<1>1. x.pc = "exec" /\ UNCHANGED <<kcdb, readers, configs, last, age>>
  BY DEF Execute
<1>2. x.seen = {} /\ x.i > 0 /\ Reads(x) /\ x.pc \notin {"get", "getbase"} /\ x.pc \notin Busy
  BY <1>0, <1>1 DEF Good, Busy
<1>3. ASSUME NEW r \in Codes, Finish(c, r), r = "OK" => ~NeedSync(x.req.op)
      PROVE  \E y : Moved(c, y)
  BY <1>1, <1>2, <1>3, FinishMoves
<1>4. CASE conns' = [conns EXCEPT ![c].pc = "reply", ![c].r = "NOTFOUND",
                                      ![c].heap = @ \cup {"reply_ptr"}]
  <2> DEFINE y == [x EXCEPT !.pc = "reply", !.r = "NOTFOUND", !.heap = @ \cup {"reply_ptr"}]
  <2>1. conns' = [conns EXCEPT ![c] = y]
    BY <1>4
  <2>2. x.heap \cup {"reply_ptr"} \in SUBSET {"ctx", "recv_buf", "reply_ptr"}
    BY <1>0 DEF Conn
  <2>3. y \in Conn
    BY <1>0, <2>2 DEF Conn, Codes
  <2>4. /\ y.pc = "reply" /\ y.r = "NOTFOUND" /\ y.bee = x.bee /\ y.from = x.from /\ y.req = x.req
        /\ y.seen = x.seen /\ y.i = x.i
        /\ y.took = x.took /\ y.sent = x.sent /\ y.offset = x.offset /\ y.lc = x.lc
    BY <1>0 DEF Conn
  <2> HIDE DEF y
  <2>5. Reads(y)
    BY <1>2, <2>4 DEF Reads
  <2>6. Good(y, kcdb[x.bee])
    BY <1>0, <1>2, <2>4, <2>5, EndGood
  <2>7. LockStep(c, y)
    <3>1. y.pc \notin Busy
      BY <2>4 DEF Busy
    <3>2. QED
      BY <1>1, <1>2, <2>4, <3>1, LockSteps
  <2>8. Moved(c, y)
    BY <1>1, <2>1, <2>3, <2>4, <2>6, <2>7 DEF Moved
  <2>9. QED
    BY <2>8
<1>5. {"OK", "PARAM", "NOTFOUND", "MEMORY"} \subseteq Codes /\ ~NeedSync("FILE")
  BY DEF Codes, NeedSync
<1>6. QED
  BY <1>3, <1>4, <1>5 DEF Execute

\* The reply is written, and the session is closed.
LEMMA ReplyMoves ==
  ASSUME BeeInv, NEW c \in DOMAIN conns, Reply(c)
  PROVE  \E y : Moved(c, y)
<1> DEFINE x == conns[c]
<1>0. x \in Conn
  BY OneConn
<1>1. x.pc = "reply" /\ UNCHANGED <<kcdb, readers, configs, last, age>>
  BY DEF Reply
<1>2. PICK code \in Codes \cup Uninitialised :
        conns' = [conns EXCEPT ![c] = [Closed(x) EXCEPT !.reply = code]]
  <2>1. x.r \in Codes
    BY <1>0 DEF Conn
  <2>2. QED
    BY <2>1 DEF Reply
<1> DEFINE z == Closed(x)
           y == [z EXCEPT !.reply = code]
<1>3. /\ z \in Conn /\ Reads(z) /\ z.pc = "closed" /\ z.seen = {}
      /\ z.found = Absent /\ z.i = 1 /\ z.bee = x.bee /\ z.from = x.from /\ z.req = x.req
  BY <1>0, ClosedFacts
<1>4. conns' = [conns EXCEPT ![c] = y]
  BY <1>2
<1> HIDE DEF z
<1>5. y \in Conn
  BY <1>3 DEF Conn
<1>6. /\ y.found = Absent
      /\ y.pc = "closed" /\ y.seen = {} /\ y.i = 1 /\ y.bee = x.bee /\ y.from = x.from /\ y.req = x.req
      /\ y.took = z.took /\ y.sent = z.sent /\ y.offset = z.offset /\ y.lc = z.lc
  BY <1>3 DEF Conn
<1> HIDE DEF y
<1>7. Reads(y) /\ y.i > 0
  BY <1>3, <1>6 DEF Reads
<1>8. Moved(c, y)
  BY <1>1, <1>4, <1>5, <1>6, <1>7, IdleMoves
<1>9. QED
  BY <1>8

\* What a bucket holds and shows.
LEMMA BucketFacts ==
  ASSUME NEW d \in Bucket, NEW k \in Keys
  PROVE  /\ d.base \in Db \cup {NoDb} /\ d.patch \in Db \cup {NoDb}
         /\ d.base # NoDb => d.base \in Db /\ d.base[k] \in Stored
         /\ d.patch # NoDb => d.patch \in Db /\ d.patch[k] \in Stored
         /\ Newest(d, k) \in Stored /\ Find(d, k) \in Stored
         /\ Visible(Absent) = Absent /\ \A s \in Stored : Visible(s) \in Stored
         /\ d # Unregistered <=> d.base # NoDb \/ d.patch # NoDb
<1>1. d.base \in Db \cup {NoDb} /\ d.patch \in Db \cup {NoDb}
  BY DEF Bucket
<1>2. /\ d.base # NoDb => d.base \in Db /\ d.base[k] \in Stored
      /\ d.patch # NoDb => d.patch \in Db /\ d.patch[k] \in Stored
  BY <1>1 DEF Db
<1>3. Absent \in Stored
  BY DEF Stored
<1>4. Newest(d, k) \in Stored /\ Find(d, k) \in Stored
  BY <1>2, <1>3 DEF Newest, Find
<1>5. Visible(Absent) = Absent /\ \A s \in Stored : Visible(s) \in Stored
  BY <1>3, BucketAssumption DEF Visible
<1>6. d # Unregistered <=> d.base # NoDb \/ d.patch # NoDb
  BY DEF Bucket, Unregistered
<1>7. QED
  BY <1>1, <1>2, <1>4, <1>5, <1>6

\* A session at an operation knows its key.
LEMMA KeyFacts ==
  ASSUME BeeInv, NEW c \in DOMAIN conns, conns[c].pc \in Busy \/ Served(conns[c])
  PROVE  conns[c].run \in Payload /\ conns[c].run.key \in Keys /\ conns[c].run.val \in Vals \cup {Tomb}
<1>1. conns[c] \in Conn /\ conns[c].run # NoPayload
  BY OneConn DEF Good, Served
<1>2. conns[c].run \in Payload
  BY <1>1 DEF Conn
<1>3. QED
  BY <1>2 DEF Payload

\* bee_db_get, up to bee_db_get_local.
LEMMA StartGetMoves ==
  ASSUME BeeInv, NEW c \in DOMAIN conns, StartGet(c)
  PROVE  \E y : Moved(c, y)
<1> DEFINE x == conns[c]
           k == x.run.key
           v == View(x.bee, k)
           y == [x EXCEPT !.pc = "get", !.i = 1, !.heap = @ \cup {"reply_ptr"}, !.seen = {v}]
<1>0. /\ x \in Conn /\ Good(x, kcdb[x.bee]) /\ x.bee \in Bees /\ kcdb[x.bee] \in [Bees -> Bucket]
      /\ x.pc = "exec" /\ Served(x) /\ DOMAIN Chain[x.bee] \subseteq Nat
      /\ DOMAIN Chain[x.bee] = 1 .. Len(Chain[x.bee])
  BY OneConn DEF StartGet
<1>1. k \in Keys /\ x.run # NoPayload
  BY <1>0, KeyFacts DEF Served
<1>2. v \in Stored
  BY <1>0, <1>1, BucketFacts DEF View
<1>3. conns' = [conns EXCEPT ![c] = y]
  BY DEF StartGet
<1> HIDE DEF v
<1>4. y \in Conn
  <2>1. x.heap \cup {"reply_ptr"} \in SUBSET {"ctx", "recv_buf", "reply_ptr"} /\ {v} \in SUBSET Stored
    BY <1>0, <1>2 DEF Conn
  <2>2. QED
    BY <1>0, <2>1 DEF Conn, Busy
<1>5. /\ y.pc = "get" /\ y.bee = x.bee /\ y.from = x.from /\ y.req = x.req
      /\ y.seen = {v} /\ y.i = 1 /\ y.run = x.run
      /\ y.took = x.took /\ y.sent = x.sent /\ y.offset = x.offset /\ y.lc = x.lc
  BY <1>0 DEF Conn
<1>6. y.found = x.found
  BY <1>0 DEF Conn
<1> HIDE DEF y
<1>7. x.found = Absent /\ Reads(x) /\ (x.from # Pony => ~NeedSync(x.req.op))
  BY <1>0 DEF Good, Busy
<1>8. Good(y, kcdb[x.bee])
  <2>1. Looks(y, kcdb[x.bee][x.bee])
    <3>1. v = Visible(Find(kcdb[x.bee][x.bee], k))
      BY DEF v, View
    <3>2. \A j \in DOMAIN Chain[x.bee] : ~(j < 1)
      BY <1>0
    <3>3. x.req.op = "DB_GET"
      BY DEF StartGet
    <3>4. QED
      BY <1>5, <1>6, <1>7, <3>1, <3>2, <3>3 DEF Looks
  <2>2. Reads(y)
    BY <1>5, <1>7 DEF Reads
  <2>3. y.i > 0 /\ y.run # NoPayload
    BY <1>1, <1>5
  <2>4. QED
    BY <1>5, <1>7, <2>1, <2>2, <2>3 DEF Good, Busy
<1>9. LockStep(c, y)
  <2>1. y.pc \in Busy /\ readers' = [readers EXCEPT ![y.bee] = @ \cup {c}]
    BY <1>5 DEF Busy, StartGet
  <2>2. QED
    BY <1>5, <2>1, LockSteps
<1>10. Moved(c, y)
  BY <1>0, <1>3, <1>4, <1>5, <1>8, <1>9 DEF Moved, StartGet
<1>11. QED
  BY <1>10

\* A look-up ends with a record.
LEMMA GetFoundMoves ==
  ASSUME BeeInv, NEW c \in DOMAIN conns, NEW s \in Stored, GetFound(c, s),
         UNCHANGED <<kcdb, configs, last, age>>, conns[c].pc \in {"get", "getbase"},
         conns[c].req.op = "DB_GET", Visible(s) \in conns[c].seen
  PROVE  \E y : Moved(c, y)
<1> DEFINE x == conns[c]
           r == IF s = Tomb THEN "NOTFOUND" ELSE "OK"
           y == [x EXCEPT !.pc = "reply", !.found = Visible(s), !.r = r]
<1>0. /\ x \in Conn /\ Good(x, kcdb[x.bee]) /\ x.i \in Nat
  BY OneConn DEF Conn
<1>1. conns' = [conns EXCEPT ![c] = y] /\ Unlock(c)
  BY DEF GetFound
<1>2. Visible(s) \in Stored
  BY DEF Visible, Stored
<1>3. y \in Conn
  BY <1>0, <1>2 DEF Conn, Codes
<1>4. /\ y.pc = "reply" /\ y.bee = x.bee /\ y.from = x.from /\ y.req = x.req
      /\ y.seen = x.seen /\ y.found = Visible(s) /\ y.i = x.i
      /\ y.took = x.took /\ y.sent = x.sent /\ y.offset = x.offset /\ y.lc = x.lc
  BY <1>0 DEF Conn
<1> HIDE DEF y
<1>5. Reads(y) /\ y.i > 0
  BY <1>0, <1>4 DEF Good, Reads
<1>6. ~NeedSync(y.req.op)
  BY <1>4 DEF NeedSync
<1>7. Good(y, kcdb[x.bee])
  BY <1>0, <1>4, <1>5, <1>6, EndGood
<1>8. LockStep(c, y)
  <2>1. y.pc \notin Busy
    BY <1>4 DEF Busy
  <2>2. QED
    BY <1>1, <1>4, <2>1, LockSteps
<1>9. Moved(c, y)
  BY <1>1, <1>3, <1>4, <1>7, <1>8 DEF Moved
<1>10. QED
  BY <1>9

\* A look-up goes on, at the next node or at the base.
LEMMA GetGoesOn ==
  ASSUME BeeInv, NEW c \in DOMAIN conns, conns[c].pc \in {"get", "getbase"}, NEW y \in Conn,
         conns' = [conns EXCEPT ![c] = y], UNCHANGED <<kcdb, readers, configs, last, age>>,
         y.pc \in {"get", "getbase"}, y.bee = conns[c].bee, y.from = conns[c].from,
         y.req = conns[c].req, y.run = conns[c].run, y.i >= conns[c].i, y.took = conns[c].took,
         y.sent = conns[c].sent, y.offset = conns[c].offset, y.lc = conns[c].lc,
         Looks(y, kcdb[y.bee][y.bee])
  PROVE  Moved(c, y)
<1> DEFINE x == conns[c]
<1>0. /\ x \in Conn /\ Good(x, kcdb[x.bee]) /\ x.i \in Nat /\ y.i \in Nat
  BY OneConn DEF Conn
<1>1. Reads(x) /\ x.i > 0 /\ (x.from # Pony => ~NeedSync(x.req.op)) /\ x.run # NoPayload
  BY <1>0 DEF Good, Busy
<1>2. Reads(y) /\ y.i > 0
  BY <1>0, <1>1 DEF Reads
<1>3. Good(y, kcdb[x.bee])
  BY <1>1, <1>2 DEF Good, Busy
<1>4. LockStep(c, y)
  <2>1. x.pc \in Busy /\ y.pc \in Busy
    BY DEF Busy
  <2>2. QED
    BY <2>1, LockSteps
<1>5. QED
  BY <1>3, <1>4 DEF Moved

\* bee_db_get_local at one node.
LEMMA GetNodeMoves ==
  ASSUME BeeInv, NEW c \in DOMAIN conns, GetNode(c)
  PROVE  \E y : Moved(c, y)
<1> DEFINE x == conns[c]
           b == x.bee
           d == kcdb[b][b]
           k == x.run.key
<1>0. /\ x \in Conn /\ Good(x, kcdb[b]) /\ b \in Bees /\ kcdb[b] \in [Bees -> Bucket]
      /\ DOMAIN Chain[b] = 1 .. Len(Chain[b]) /\ Len(Chain[b]) \in Nat /\ x.i \in Nat
      /\ x.pc = "get" /\ UNCHANGED <<kcdb, configs, last, age>> /\ x.pc \in Busy
  BY OneConn DEF GetNode, Conn, Busy
<1>1. Looks(x, d)
  BY <1>0 DEF Good
<1>2. k \in Keys /\ d \in Bucket
  BY <1>0, KeyFacts
<1>3. Visible(Absent) = Absent
  BY <1>2, BucketFacts
<1>4. CASE x.i > Len(Chain[b]) /\ Finish(c, "NOTFOUND") /\ Unlock(c)
  <2>1. ChainHas(b) => x.found \in x.seen
    <3>1. \A j \in DOMAIN Chain[b] : j < x.i
      BY <1>0, <1>4
    <3>2. QED
      BY <1>1, <3>1 DEF ChainHas, Looks
  <2>2. "NOTFOUND" \in Codes
    BY DEF Codes
  <2>3. QED
    BY <1>0, <1>4, <2>1, <2>2, FinishMoves
<1>5. CASE /\ x.i <= Len(Chain[b]) /\ (Chain[b][x.i] # b \/ d.base = NoDb)
           /\ conns' = [conns EXCEPT ![c].i = @ + 1] /\ UNCHANGED readers
  <2> DEFINE y == [x EXCEPT !.i = @ + 1]
  <2>1. conns' = [conns EXCEPT ![c] = y]
    BY <1>5
  <2>2. y \in Conn
    <3>1. x.i + 1 \in Nat
      BY <1>0
    <3>2. QED
      BY <1>0, <3>1 DEF Conn
  <2>3. /\ y.pc = x.pc /\ y.bee = b /\ y.from = x.from /\ y.req = x.req /\ y.run = x.run
        /\ y.i = x.i + 1 /\ y.seen = x.seen /\ y.found = x.found
        /\ y.took = x.took /\ y.sent = x.sent /\ y.offset = x.offset /\ y.lc = x.lc
    BY <1>0 DEF Conn
  <2> HIDE DEF y
  <2>4. Looks(y, d)
    <3>1. ASSUME NEW j \in DOMAIN Chain[b], j < x.i + 1, Chain[b][j] = b
          PROVE  Absent \in x.seen
      <4>1. CASE j < x.i
        BY <1>1, <3>1, <4>1 DEF Looks
      <4>2. CASE j = x.i
        <5>1. d.base = NoDb
          BY <1>5, <3>1, <4>2
        <5>2. Find(d, k) = Absent
          BY <5>1 DEF Find
        <5>3. QED
          BY <1>1, <1>3, <5>2 DEF Looks
      <4>3. QED
        BY <1>0, <3>1, <4>1, <4>2
    <3>2. QED
      BY <1>0, <1>1, <2>3, <3>1 DEF Looks
  <2>5. y.i >= x.i
    BY <1>0, <2>3
  <2>6. Moved(c, y)
    BY <1>0, <1>5, <2>1, <2>2, <2>3, <2>4, <2>5, GetGoesOn
  <2>7. QED
    BY <2>6
<1>6. CASE /\ d.base # NoDb /\ d.patch # NoDb /\ d.patch[k] # Absent /\ GetFound(c, d.patch[k])
  <2>1. Find(d, k) = d.patch[k] /\ d.patch[k] \in Stored
    BY <1>2, <1>6, BucketFacts DEF Find, Newest
  <2>2. Visible(d.patch[k]) \in x.seen /\ x.req.op = "DB_GET"
    BY <1>1, <2>1 DEF Looks
  <2>3. QED
    BY <1>0, <1>6, <2>1, <2>2, GetFoundMoves
<1>7. CASE /\ d.base # NoDb /\ ~(d.patch # NoDb /\ d.patch[k] # Absent)
           /\ conns' = [conns EXCEPT ![c].pc = "getbase"] /\ UNCHANGED readers
  <2> DEFINE y == [x EXCEPT !.pc = "getbase"]
  <2>1. conns' = [conns EXCEPT ![c] = y]
    BY <1>7
  <2>2. y \in Conn
    BY <1>0 DEF Conn, Busy
  <2>3. /\ y.pc = "getbase" /\ y.bee = b /\ y.from = x.from /\ y.req = x.req /\ y.run = x.run
        /\ y.i = x.i /\ y.seen = x.seen /\ y.found = x.found
        /\ y.took = x.took /\ y.sent = x.sent /\ y.offset = x.offset /\ y.lc = x.lc
    BY <1>0 DEF Conn
  <2> HIDE DEF y
  <2>4. Find(d, k) = d.base[k]
    BY <1>7 DEF Find, Newest
  <2>5. Looks(y, d)
    BY <1>1, <1>7, <2>3, <2>4 DEF Looks
  <2>6. y.i >= x.i
    BY <1>0, <2>3
  <2>7. Moved(c, y)
    BY <1>0, <1>7, <2>1, <2>2, <2>3, <2>5, <2>6, GetGoesOn
  <2>8. QED
    BY <2>7
<1>8. QED
  <2>1. x.i > Len(Chain[b]) \/ x.i <= Len(Chain[b])
    BY <1>0
  <2>2. QED
    BY <1>4, <1>5, <1>6, <1>7, <2>1 DEF GetNode

\* The base is read after the patch.
LEMMA GetBaseMoves ==
  ASSUME BeeInv, NEW c \in DOMAIN conns, GetBase(c)
  PROVE  \E y : Moved(c, y)
<1> DEFINE x == conns[c]
           b == x.bee
           d == kcdb[b][b]
           k == x.run.key
           s == d.base[k]
<1>0. /\ x \in Conn /\ Good(x, kcdb[b]) /\ b \in Bees /\ kcdb[b] \in [Bees -> Bucket]
      /\ x.i \in Nat
      /\ x.pc = "getbase" /\ UNCHANGED <<kcdb, configs, last, age>> /\ x.pc \in Busy
  BY OneConn DEF GetBase, Conn, Busy
<1>1. Looks(x, d)
  BY <1>0 DEF Good
<1>2. k \in Keys /\ d \in Bucket
  BY <1>0, KeyFacts
<1>3. s \in Stored /\ Visible(s) \in x.seen /\ Visible(Absent) = Absent
  BY <1>0, <1>1, <1>2, BucketFacts DEF Looks
<1>4. CASE s # Absent /\ GetFound(c, s)
  <2>1. x.req.op = "DB_GET"
    BY <1>1 DEF Looks
  <2>2. QED
    BY <1>0, <1>3, <1>4, <2>1, GetFoundMoves
<1>5. CASE s = Absent /\ conns' = [conns EXCEPT ![c].pc = "get", ![c].i = @ + 1] /\ UNCHANGED readers
  <2> DEFINE y == [x EXCEPT !.pc = "get", !.i = @ + 1]
  <2>1. conns' = [conns EXCEPT ![c] = y]
    BY <1>5
  <2>2. y \in Conn
    <3>1. x.i + 1 \in Nat
      BY <1>0
    <3>2. QED
      BY <1>0, <3>1 DEF Conn, Busy
  <2>3. /\ y.pc = "get" /\ y.bee = b /\ y.from = x.from /\ y.req = x.req /\ y.run = x.run
        /\ y.i = x.i + 1 /\ y.seen = x.seen /\ y.found = x.found
        /\ y.took = x.took /\ y.sent = x.sent /\ y.offset = x.offset /\ y.lc = x.lc
    BY <1>0 DEF Conn
  <2> HIDE DEF y
  <2>4. Absent \in x.seen
    BY <1>3, <1>5
  <2>5. Looks(y, d)
    BY <1>1, <2>3, <2>4 DEF Looks
  <2>6. y.i >= x.i
    BY <1>0, <2>3
  <2>7. Moved(c, y)
    BY <1>0, <1>5, <2>1, <2>2, <2>3, <2>5, <2>6, GetGoesOn
  <2>8. QED
    BY <2>7
<1>6. QED
  BY <1>4, <1>5 DEF GetBase

\* A write goes on, in the bucket of the next node or to the next server.
LEMMA WriteGoesOn ==
  ASSUME BeeInv, NEW c \in DOMAIN conns, conns[c].pc \in {"exec", "local", "sync"}, NEW y \in Conn,
         conns' = [conns EXCEPT ![c] = y], UNCHANGED <<kcdb, configs, last, age>>,
         \/ conns[c].pc \in Busy /\ UNCHANGED readers
         \/ conns[c].pc = "exec" /\ readers' = [readers EXCEPT ![y.bee] = @ \cup {c}],
         y.pc \in {"local", "sync"}, y.bee = conns[c].bee, y.from = conns[c].from,
         y.req = conns[c].req, y.run = conns[c].run, y.i > 0, y.took = conns[c].took,
         y.sent = conns[c].sent, y.offset = conns[c].offset, y.lc = conns[c].lc,
         y.seen = conns[c].seen, y.found = conns[c].found, y.run # NoPayload,
         conns[c].pc = "sync" => y.pc = "sync" /\ conns[c].i <= y.i,
         y.pc = "local" => Stores(y, kcdb[y.bee]), y.pc = "sync" => Syncs(y, kcdb[y.bee])
  PROVE  Moved(c, y)
<1> DEFINE x == conns[c]
<1>0. x \in Conn /\ Good(x, kcdb[x.bee])
  BY OneConn
<1>1. /\ Reads(x) /\ (x.from # Pony => ~NeedSync(x.req.op)) /\ x.seen = {} /\ x.found = Absent
  BY <1>0 DEF Good
<1>2. Reads(y)
  BY <1>1 DEF Reads
<1>3. Good(y, kcdb[x.bee])
  BY <1>1, <1>2 DEF Good, Busy
<1>4. LockStep(c, y)
  <2>1. y.pc \in Busy
    BY DEF Busy
  <2>2. QED
    BY <2>1, LockSteps
<1>5. QED
  BY <1>3, <1>4 DEF Moved

\* bee_db_set and bee_db_del, up to the first node.
LEMMA StartWriteMoves ==
  ASSUME BeeInv, NEW c \in DOMAIN conns, StartWrite(c)
  PROVE  \E y : Moved(c, y)
<1> DEFINE x == conns[c]
           r == IF x.req.op \in {"DB_SET", "INTERNAL_SET"} THEN "NOTFOUND" ELSE "OK"
           y == [x EXCEPT !.pc = "local", !.i = 1, !.r = r]
<1>0. /\ x \in Conn /\ Good(x, kcdb[x.bee]) /\ x.pc = "exec" /\ Served(x)
      /\ DOMAIN Chain[x.bee] = 1 .. Len(Chain[x.bee]) /\ Len(Chain[x.bee]) \in Nat
      /\ UNCHANGED <<kcdb, configs, last, age>>
  BY OneConn DEF StartWrite
<1>1. conns' = [conns EXCEPT ![c] = y]
  BY DEF StartWrite
<1>2. y \in Conn
  BY <1>0 DEF Conn, Busy, Codes
<1>3. /\ y.pc = "local" /\ y.bee = x.bee /\ y.from = x.from /\ y.req = x.req /\ y.run = x.run
      /\ y.i = 1 /\ y.seen = x.seen /\ y.found = x.found
      /\ y.took = x.took /\ y.sent = x.sent /\ y.offset = x.offset /\ y.lc = x.lc
  BY <1>0 DEF Conn
<1> HIDE DEF y
<1>4. Stores(y, kcdb[y.bee])
  <2>1. \A j \in DOMAIN Chain[x.bee] : ~(j < 1)
    BY <1>0
  <2>2. QED
    BY <1>3, <2>1 DEF Stores
<1>5. y.run # NoPayload /\ y.i > 0
  BY <1>0, <1>3 DEF Served
<1>6. readers' = [readers EXCEPT ![y.bee] = @ \cup {c}]
  BY <1>3 DEF StartWrite
<1>7. Moved(c, y)
  BY <1>0, <1>1, <1>2, <1>3, <1>4, <1>5, <1>6, WriteGoesOn
<1>8. QED
  BY <1>7

\* A node without a bucket, or the end of the local part.
LEMMA LocalStepMoves ==
  ASSUME BeeInv, NEW c \in DOMAIN conns, LocalStep(c)
  PROVE  \E y : Moved(c, y)
<1> DEFINE x == conns[c]
           b == x.bee
           ch == Chain[b]
<1>0. /\ x \in Conn /\ Good(x, kcdb[b]) /\ b \in Bees
      /\ DOMAIN ch = 1 .. Len(ch) /\ Len(ch) \in Nat /\ x.i \in Nat /\ x.r \in Codes
      /\ x.pc = "local" /\ UNCHANGED <<kcdb, configs, last, age>> /\ x.pc \in Busy
  BY OneConn DEF LocalStep, Conn, Busy
<1>1. Stores(x, kcdb[b]) /\ x.run # NoPayload
  BY <1>0 DEF Good
<1>2. CASE /\ x.i <= Len(ch) /\ ~Registered(b, ch[x.i])
           /\ conns' = [conns EXCEPT ![c].i = @ + 1] /\ UNCHANGED readers
  <2> DEFINE y == [x EXCEPT !.i = @ + 1]
  <2>1. conns' = [conns EXCEPT ![c] = y]
    BY <1>2
  <2>2. y \in Conn
    <3>1. x.i + 1 \in Nat
      BY <1>0
    <3>2. QED
      BY <1>0, <3>1 DEF Conn
  <2>3. /\ y.pc = "local" /\ y.bee = b /\ y.from = x.from /\ y.req = x.req /\ y.run = x.run
        /\ y.i = x.i + 1 /\ y.seen = x.seen /\ y.found = x.found /\ y.done = x.done
        /\ y.took = x.took /\ y.sent = x.sent /\ y.offset = x.offset /\ y.lc = x.lc
    BY <1>0 DEF Conn
  <2> HIDE DEF y
  <2>4. Stores(y, kcdb[b])
    <3>1. ASSUME NEW j \in DOMAIN ch, j < x.i + 1, kcdb[b][ch[j]] # Unregistered
          PROVE  ch[j] \in x.done
      <4>1. j # x.i
        BY <1>2, <3>1 DEF Registered
      <4>2. j < x.i
        BY <1>0, <3>1, <4>1
      <4>3. QED
        BY <1>1, <3>1, <4>2 DEF Stores
    <3>2. QED
      BY <2>3, <3>1 DEF Stores
  <2>5. y.i > 0
    BY <1>0, <2>3
  <2>6. Moved(c, y)
    BY <1>0, <1>1, <1>2, <2>1, <2>2, <2>3, <2>4, <2>5, WriteGoesOn
  <2>7. QED
    BY <2>6
<1>3. CASE (x.r # "OK" \/ ~NeedSync(x.req.op)) /\ Finish(c, x.r) /\ Unlock(c)
  BY <1>0, <1>3, FinishMoves
<1>4. CASE /\ x.i > Len(ch) /\ NeedSync(x.req.op)
           /\ conns' = [conns EXCEPT ![c].pc = "sync", ![c].i = 1] /\ UNCHANGED readers
  <2> DEFINE y == [x EXCEPT !.pc = "sync", !.i = 1]
  <2>1. conns' = [conns EXCEPT ![c] = y]
    BY <1>4
  <2>2. y \in Conn
    BY <1>0 DEF Conn, Busy
  <2>3. /\ y.pc = "sync" /\ y.bee = b /\ y.from = x.from /\ y.req = x.req /\ y.run = x.run
        /\ y.i = 1 /\ y.seen = x.seen /\ y.found = x.found /\ y.done = x.done
        /\ y.took = x.took /\ y.sent = x.sent /\ y.offset = x.offset /\ y.lc = x.lc
    BY <1>0 DEF Conn
  <2> HIDE DEF y
  <2>4. Syncs(y, kcdb[b])
    <3>1. \A j \in DOMAIN ch : j < x.i /\ ~(j < 1)
      BY <1>0, <1>4
    <3>2. \A j \in DOMAIN ch : kcdb[b][ch[j]] # Unregistered => ch[j] \in x.done
      BY <1>1, <3>1 DEF Stores
    <3>3. QED
      BY <1>4, <2>3, <3>1, <3>2 DEF Syncs
  <2>5. y.i > 0
    BY <2>3
  <2>6. Moved(c, y)
    BY <1>0, <1>1, <1>4, <2>1, <2>2, <2>3, <2>4, <2>5, WriteGoesOn
  <2>7. QED
    BY <2>6
<1>5. QED
  <2>1. x.i > Len(ch) \/ x.i <= Len(ch)
    BY <1>0
  <2>2. QED
    BY <1>2, <1>3, <1>4, <2>1 DEF LocalStep

\* A server that needs no forwarded request, or the end of the operation.
LEMMA SyncStepMoves ==
  ASSUME BeeInv, NEW c \in DOMAIN conns, SyncStep(c)
  PROVE  \E y : Moved(c, y)
<1> DEFINE x == conns[c]
           b == x.bee
           ch == Chain[b]
<1>0. /\ x \in Conn /\ Good(x, kcdb[b]) /\ b \in Bees
      /\ DOMAIN ch = 1 .. Len(ch) /\ Len(ch) \in Nat /\ x.i \in Nat
      /\ x.pc = "sync" /\ UNCHANGED <<kcdb, configs, last, age>> /\ x.pc \in Busy
  BY OneConn DEF SyncStep, Conn, Busy
<1>1. Syncs(x, kcdb[b]) /\ x.run # NoPayload
  BY <1>0 DEF Good
<1>2. CASE /\ x.i <= Len(ch) /\ ~Remote(b, ch[x.i])
           /\ conns' = [conns EXCEPT ![c].i = @ + 1] /\ UNCHANGED readers
  <2> DEFINE y == [x EXCEPT !.i = @ + 1]
  <2>1. conns' = [conns EXCEPT ![c] = y]
    BY <1>2
  <2>2. y \in Conn
    <3>1. x.i + 1 \in Nat
      BY <1>0
    <3>2. QED
      BY <1>0, <3>1 DEF Conn
  <2>3. /\ y.pc = "sync" /\ y.bee = b /\ y.from = x.from /\ y.req = x.req /\ y.run = x.run
        /\ y.i = x.i + 1 /\ y.seen = x.seen /\ y.found = x.found /\ y.done = x.done
        /\ y.took = x.took /\ y.sent = x.sent /\ y.offset = x.offset /\ y.lc = x.lc
    BY <1>0 DEF Conn
  <2> HIDE DEF y
  <2>4. Syncs(y, kcdb[b])
    <3>1. ASSUME NEW j \in DOMAIN ch, j < x.i + 1, ch[j] # b
          PROVE  ch[j] \in x.done
      <4>1. CASE j < x.i
        BY <1>1, <3>1, <4>1 DEF Syncs
      <4>2. CASE j = x.i
        BY <1>1, <1>2, <3>1, <4>2 DEF Syncs, Remote, Registered
      <4>3. QED
        BY <1>0, <3>1, <4>1, <4>2
    <3>2. QED
      BY <1>1, <2>3, <3>1 DEF Syncs
  <2>5. y.i > 0 /\ x.i <= y.i
    BY <1>0, <2>3
  <2>6. Moved(c, y)
    BY <1>0, <1>1, <1>2, <2>1, <2>2, <2>3, <2>4, <2>5, WriteGoesOn
  <2>7. QED
    BY <2>6
<1>3. CASE x.i > Len(ch) /\ Finish(c, "OK") /\ Unlock(c)
  <2>1. AllDone(x)
    <3>1. \A j \in DOMAIN ch : j < x.i
      BY <1>0, <1>3
    <3>2. QED
      BY <1>1, <3>1 DEF Syncs, AllDone
  <2>2. "OK" \in Codes
    BY DEF Codes
  <2>3. QED
    BY <1>0, <1>3, <2>1, <2>2, FinishMoves
<1>4. QED
  <2>1. x.i > Len(ch) \/ x.i <= Len(ch)
    BY <1>0
  <2>2. QED
    BY <1>2, <1>3, <2>1 DEF SyncStep

-----------------------------------------------------------------------------
(* Storing a write. *)

\* Bucket d becomes e when key k is written, and shows v for it then.
Written(d, e, k, v) ==
  /\ e \in Bucket /\ e # Unregistered
  /\ (e.base = NoDb <=> d.base = NoDb) /\ (e.patch = NoDb <=> d.patch = NoDb)
  /\ d.patch # NoDb => e.base = d.base /\ e.patch[k] # Absent
  /\ \A m \in Keys \ {k} : e.base[m] = d.base[m] /\ e.patch[m] = d.patch[m]
  /\ Visible(Newest(e, k)) = v

\* bee_bucket_set and bee_bucket_del.
LEMMA WriteBucket ==
  ASSUME NEW d \in Bucket, d # Unregistered, NEW k \in Keys, NEW u \in Vals \cup {Tomb}
  PROVE  /\ Written(d, BucketSet(d, k, u), k, Visible(u))
         /\ Written(d, BucketDel(d, k), k, Absent)
<1>1. /\ d.base \in Db \cup {NoDb} /\ d.patch \in Db \cup {NoDb} /\ NoDb \notin Db
      /\ d.base # NoDb \/ d.patch # NoDb
  BY BucketFacts, BucketAssumption
<1>2. u \in Stored /\ Tomb \in Stored /\ Absent \in Stored /\ u # Absent /\ Tomb # Absent
  BY BucketAssumption DEF Stored
<1>3. Visible(Absent) = Absent /\ Visible(Tomb) = Absent
  BY DEF Visible
<1>4. ASSUME NEW t \in Stored, d.patch # NoDb, t # Absent
      PROVE  Written(d, [d EXCEPT !.patch[k] = t], k, Visible(t))
  <2> DEFINE e == [d EXCEPT !.patch[k] = t]
             q == [d.patch EXCEPT ![k] = t]
  <2>1. d.patch \in Db
    BY <1>1, <1>4
  <2>2. q \in Db /\ q[k] = t /\ \A m \in Keys \ {k} : q[m] = d.patch[m]
    BY <2>1 DEF Db
  <2>3. e.base = d.base /\ e.patch = q /\ e \in Bucket
    BY <2>2 DEF Bucket
  <2> HIDE DEF e, q
  <2>4. e.patch # NoDb /\ e # Unregistered
    BY <1>1, <2>2, <2>3 DEF Unregistered
  <2>5. Newest(e, k) = t
    BY <1>4, <2>2, <2>3, <2>4 DEF Newest
  <2>6. Written(d, e, k, Visible(t))
    BY <1>4, <2>2, <2>3, <2>4, <2>5 DEF Written
  <2>7. QED
    BY <2>6 DEF e
<1>5. ASSUME NEW t \in Stored, d.patch = NoDb
      PROVE  Written(d, [d EXCEPT !.base[k] = t], k, Visible(t))
  <2> DEFINE e == [d EXCEPT !.base[k] = t]
             q == [d.base EXCEPT ![k] = t]
  <2>1. d.base \in Db
    BY <1>1, <1>5
  <2>2. q \in Db /\ q[k] = t /\ \A m \in Keys \ {k} : q[m] = d.base[m]
    BY <2>1 DEF Db
  <2>3. e.patch = d.patch /\ e.base = q /\ e \in Bucket
    BY <2>2 DEF Bucket
  <2> HIDE DEF e, q
  <2>4. e.base # NoDb /\ e # Unregistered /\ d.base # NoDb
    BY <1>1, <2>1, <2>2, <2>3 DEF Unregistered
  <2>5. Newest(e, k) = t
    BY <1>5, <2>2, <2>3, <2>4 DEF Newest
  <2>6. Written(d, e, k, Visible(t))
    BY <1>5, <2>2, <2>3, <2>4, <2>5 DEF Written
  <2>7. QED
    BY <2>6 DEF e
<1>6. Written(d, BucketSet(d, k, u), k, Visible(u))
  BY <1>2, <1>4, <1>5 DEF BucketSet
<1>7. Written(d, BucketDel(d, k), k, Absent)
  <2>1. CASE d.patch # NoDb
    BY <1>2, <1>3, <1>4, <2>1 DEF BucketDel
  <2>2. CASE d.patch = NoDb
    BY <1>2, <1>3, <1>5, <2>2 DEF BucketDel
  <2>3. QED
    BY <2>1, <2>2
<1>8. QED
  BY <1>6, <1>7

\* Other keys are shown as before.
LEMMA OtherKeys ==
  ASSUME NEW d, NEW e, NEW k, NEW v, Written(d, e, k, v), NEW m \in Keys \ {k}
  PROVE  /\ Newest(e, m) = Newest(d, m) /\ Find(e, m) = Find(d, m)
         /\ e.base[m] = d.base[m] /\ e.patch[m] = d.patch[m]
BY DEF Written, Newest, Find

\* What a look-up has seen once a write is in.
LEMMA SeenKeeps ==
  ASSUME NEW d, NEW e, NEW k \in Keys, NEW v, Written(d, e, k, v),
         NEW w, w.run.key \in Keys, Looks(w, d), NEW z, z.run = w.run, z.pc = w.pc, z.bee = w.bee,
         z.i = w.i, z.found = w.found, z.req = w.req,
         z.seen = IF w.run.key = k THEN w.seen \cup {Visible(Find(e, k))} ELSE w.seen
  PROVE  Looks(z, e)
<1>1. CASE w.run.key # k
  <2>1. Find(e, w.run.key) = Find(d, w.run.key) /\ e.base[w.run.key] = d.base[w.run.key]
    BY <1>1, OtherKeys
  <2>2. e.base = NoDb <=> d.base = NoDb
    BY DEF Written
  <2>3. QED
    BY <1>1, <2>1, <2>2 DEF Looks
<1>2. CASE w.run.key = k
  <2>1. e.base = NoDb <=> d.base = NoDb
    BY DEF Written
  <2>2. ASSUME z.pc = "getbase"
        PROVE  Visible(e.base[k]) \in z.seen
    <3>1. d.base # NoDb /\ Visible(d.base[k]) \in w.seen
      BY <1>2, <2>2 DEF Looks
    <3>2. CASE d.patch # NoDb
      BY <1>2, <3>1, <3>2 DEF Written
    <3>3. CASE d.patch = NoDb
      <4>1. Find(e, k) = e.base[k]
        BY <2>1, <3>1, <3>3 DEF Written, Find, Newest
      <4>2. QED
        BY <1>2, <4>1
    <3>4. QED
      BY <3>2, <3>3
  <2>3. QED
    BY <1>2, <2>1, <2>2 DEF Looks
<1>3. QED
  BY <1>1, <1>2

\* What holds of a connection if the same buckets are there.
LEMMA SameBuckets ==
  ASSUME NEW w \in Conn, NEW z, NEW ds, NEW es, Good(w, ds),
         \A p \in Bees : es[p] # Unregistered <=> ds[p] # Unregistered,
         z.bee = w.bee, z.req = w.req, z.from = w.from, z.pc = w.pc, z.i = w.i, z.r = w.r,
         z.run = w.run, z.found = w.found, z.done = w.done, Reads(z),
         w.pc \notin {"get", "getbase"} => z.seen = w.seen,
         w.pc \in {"get", "getbase"} => Looks(z, es[w.bee])
  PROVE  Good(z, es)
<1>0. \A j \in DOMAIN Chain[w.bee] : Chain[w.bee][j] \in Bees
  <2>1. w.bee \in Bees
    BY DEF Conn
  <2>2. Chain[w.bee] \in Seq(Bees)
    BY <2>1, BeeServerAssumption
  <2>3. QED
    BY <2>2
<1>1. w.pc = "local" => Stores(z, es)
  BY <1>0 DEF Good, Stores
<1>2. w.pc = "sync" => Syncs(z, es)
  BY <1>0 DEF Good, Syncs
<1>3. QED
  BY <1>1, <1>2 DEF Good

\* Steps after which every session is where it was.
LEMMA PlacesKept ==
  ASSUME BeeInv, TypeOK', DOMAIN conns' = DOMAIN conns, UNCHANGED readers, Shows',
         \A e \in DOMAIN conns :
           /\ conns'[e].bee = conns[e].bee /\ conns'[e].from = conns[e].from
           /\ conns'[e].pc = conns[e].pc /\ (conns[e].pc = "sync" => conns'[e].i = conns[e].i)
           /\ Good(conns'[e], kcdb'[conns[e].bee])
  PROVE  BeeInv'
<1>1. AllGood'
  BY DEF AllGood
<1>2. Locks'
  BY DEF BeeInv, Locks
<1>3. Sends'
  <2>1. ASSUME NEW d \in DOMAIN conns, conns[d].from # Pony
        PROVE  LET f == conns[d].from
               IN /\ f \in DOMAIN conns /\ conns'[f].from = Pony
                  /\ conns'[f].pc \in {"sync", "reply", "closed"}
                  /\ conns'[f].pc = "sync" => \E j \in DOMAIN Chain[conns'[f].bee] :
                                        j < conns'[f].i /\ Chain[conns'[f].bee][j] = conns[d].bee
                  /\ \A e \in DOMAIN conns : conns[e].from = f /\ conns[e].bee = conns[d].bee => e = d
    BY <2>1 DEF BeeInv, Sends
  <2>2. QED
    BY <2>1 DEF Sends
<1>4. QED
  BY <1>1, <1>2, <1>3 DEF BeeInv

\* The connections after a write of k that the look-ups of b have witnessed.
LEMMA WitnessedFacts ==
  ASSUME NEW cs \in Seq(Conn), NEW b, NEW k, NEW v \in Stored
  PROVE  LET ws == Witnessed(cs, b, k, v)
         IN /\ ws \in Seq(Conn) /\ DOMAIN ws = DOMAIN cs
            /\ \A e \in DOMAIN cs :
                 ws[e] = IF cs[e].bee = b /\ cs[e].pc \in {"get", "getbase"} /\ cs[e].run.key = k
                         THEN [cs[e] EXCEPT !.seen = @ \cup {v}] ELSE cs[e]
<1> DEFINE ws == Witnessed(cs, b, k, v)
<1>1. DOMAIN cs = 1 .. Len(cs) /\ Len(cs) \in Nat /\ \A e \in DOMAIN cs : cs[e] \in Conn
  OBVIOUS
<1>2. \A x \in Conn : [x EXCEPT !.seen = @ \cup {v}] \in Conn
  <2>1. ASSUME NEW x \in Conn  PROVE [x EXCEPT !.seen = @ \cup {v}] \in Conn
    <3>1. x.seen \cup {v} \in SUBSET Stored
      BY DEF Conn
    <3>2. QED
      BY <3>1 DEF Conn
  <2>2. QED
    BY <2>1
<1>3. DOMAIN ws = DOMAIN cs
  BY DEF Witnessed
<1>4. ASSUME NEW e \in DOMAIN cs
      PROVE  ws[e] = IF cs[e].bee = b /\ cs[e].pc \in {"get", "getbase"} /\ cs[e].run.key = k
                     THEN [cs[e] EXCEPT !.seen = @ \cup {v}] ELSE cs[e]
  BY DEF Witnessed
<1>5. \A e \in 1 .. Len(cs) : ws[e] \in Conn
  BY <1>1, <1>2, <1>4
<1>6. ws = [e \in 1 .. Len(cs) |-> ws[e]]
  BY <1>1, <1>3 DEF Witnessed
<1> HIDE DEF ws
<1>7. ws \in [1 .. Len(cs) -> Conn]
  BY <1>5, <1>6
<1>8. ws \in Seq(Conn)
  BY <1>1, <1>7, SeqDef
<1>9. QED
  BY <1>3, <1>4, <1>8 DEF ws

\* A write is stored for one node.
LEMMA StoreKeeps ==
  ASSUME BeeInv, NEW c \in DOMAIN conns, Store(c)
  PROVE  BeeInv'
<1> DEFINE x == conns[c]
           b == x.bee
           p == Chain[b][x.i]
           k == x.run.key
           del == x.req.op \in {"DB_DEL", "INTERNAL_DEL"}
           d == IF del THEN BucketDel(kcdb[b][p], k) ELSE BucketSet(kcdb[b][p], k, x.run.val)
           v == IF del THEN Absent ELSE Visible(x.run.val)
           y == [x EXCEPT !.i = @ + 1, !.r = "OK", !.done = @ \cup {p}]
           stored == [conns EXCEPT ![c].i = @ + 1, ![c].r = "OK", ![c].done = @ \cup {p}]
<1>0. /\ conns \in Seq(Conn) /\ x \in Conn /\ Good(x, kcdb[b]) /\ b \in Bees
      /\ kcdb \in [Bees -> [Bees -> Bucket]] /\ kcdb[b] \in [Bees -> Bucket]
      /\ DOMAIN Chain[b] = 1 .. Len(Chain[b]) /\ Len(Chain[b]) \in Nat /\ x.i \in Nat
      /\ Chain[b] \in Seq(Bees)
      /\ x.pc = "local" /\ x.i <= Len(Chain[b]) /\ x.pc \in Busy /\ UNCHANGED configs
  BY OneConn DEF Store, Conn, Busy, BeeInv, TypeOK
<1>1. Stores(x, kcdb[b]) /\ x.run # NoPayload /\ x.i > 0 /\ Reads(x) /\ x.seen = {} /\ x.found = Absent
      /\ (x.from # Pony => ~NeedSync(x.req.op))
  BY <1>0 DEF Good
<1>2. k \in Keys /\ x.run.val \in Vals \cup {Tomb}
  BY <1>0, KeyFacts
<1>3. x.i \in DOMAIN Chain[b] /\ p \in Bees /\ kcdb[b][p] \in Bucket /\ kcdb[b][p] # Unregistered
  BY <1>0, <1>1 DEF Store, Registered
<1>4. CASE Finish(c, "LIBCALL") /\ Unlock(c) /\ UNCHANGED <<kcdb, last, age>>
  <2>1. "LIBCALL" \in Codes
    BY DEF Codes
  <2>2. \E z : Moved(c, z)
    BY <1>0, <1>4, <2>1, FinishMoves
  <2>3. QED
    BY <2>2, MovedKeeps
<1>5. CASE /\ kcdb' = [kcdb EXCEPT ![b][p] = d] /\ UNCHANGED readers
           /\ IF p = b
              THEN /\ last' = [last EXCEPT ![b][k] = v]
                   /\ age' = [age EXCEPT ![b][k] = 0]
                   /\ conns' = Witnessed(stored, b, k, Visible(Find(d, k)))
              ELSE UNCHANGED <<last, age>> /\ conns' = stored
  <2>1. Written(kcdb[b][p], d, k, v)
    BY <1>2, <1>3, WriteBucket
  <2>2. stored = [conns EXCEPT ![c] = y]
    OBVIOUS
  <2>3. y \in Conn
    <3>1. x.i + 1 \in Nat /\ x.done \cup {p} \in SUBSET Bees
      <4>1. x.done \in SUBSET Bees
        BY <1>0 DEF Conn
      <4>2. QED
        BY <1>0, <1>3, <4>1
    <3>2. QED
      BY <1>0, <3>1 DEF Conn, Codes
  <2>4. /\ y.pc = "local" /\ y.bee = b /\ y.from = x.from /\ y.req = x.req /\ y.run = x.run
        /\ y.i = x.i + 1 /\ y.seen = x.seen /\ y.found = x.found /\ y.done = x.done \cup {p}
        /\ y.took = x.took /\ y.sent = x.sent /\ y.offset = x.offset /\ y.lc = x.lc
    BY <1>0 DEF Conn
  <2> HIDE DEF y
  <2>5. /\ stored \in Seq(Conn) /\ DOMAIN stored = DOMAIN conns /\ stored[c] = y
        /\ \A e \in DOMAIN conns \ {c} : stored[e] = conns[e]
    <3>1. c \in 1 .. Len(conns) /\ DOMAIN conns = 1 .. Len(conns)
      BY <1>0
    <3>2. stored \in Seq(Conn)
      BY <1>0, <2>2, <2>3, <3>1, ExceptSeq
    <3>3. QED
      BY <2>2, <3>1, <3>2
  <2> HIDE DEF stored
  <2> HIDE DEF d, v
  <2>6. d \in Bucket /\ d # Unregistered /\ Visible(Find(d, k)) \in Stored
    BY <1>2, <2>1, BucketFacts DEF Written
  <2>7. /\ kcdb' \in [Bees -> [Bees -> Bucket]] /\ kcdb'[b][p] = d
        /\ \A q \in Bees \ {p} : kcdb'[b][q] = kcdb[b][q]
        /\ \A a \in Bees \ {b} : kcdb'[a] = kcdb[a]
    BY <1>0, <1>3, <1>5, <2>6
  <2>8. \A a \in Bees : \A q \in Bees : kcdb'[a][q] # Unregistered <=> kcdb[a][q] # Unregistered
    BY <1>3, <2>6, <2>7
  <2>9. /\ conns' \in Seq(Conn) /\ DOMAIN conns' = DOMAIN conns /\ conns'[c] = y
        /\ \A e \in DOMAIN conns \ {c} :
             conns'[e] = IF /\ p = b /\ conns[e].bee = b /\ conns[e].pc \in {"get", "getbase"}
                            /\ conns[e].run.key = k
                         THEN [conns[e] EXCEPT !.seen = @ \cup {Visible(Find(d, k))}] ELSE conns[e]
    <3>1. CASE p # b
      BY <1>5, <2>5, <3>1
    <3>2. CASE p = b
      <4> DEFINE u == Visible(Find(d, k))
      <4>1. conns' = Witnessed(stored, b, k, u) /\ u \in Stored
        BY <1>5, <2>6, <3>2
      <4> HIDE DEF u
      <4>2. /\ conns' \in Seq(Conn) /\ DOMAIN conns' = DOMAIN stored
            /\ \A e \in DOMAIN stored :
                 conns'[e] = IF /\ stored[e].bee = b /\ stored[e].pc \in {"get", "getbase"}
                                /\ stored[e].run.key = k
                             THEN [stored[e] EXCEPT !.seen = @ \cup {u}] ELSE stored[e]
        BY <2>5, <4>1, WitnessedFacts
      <4>3. conns'[c] = y
        BY <2>4, <2>5, <4>2
      <4>4. QED
        BY <2>5, <3>2, <4>2, <4>3 DEF u
    <3>3. QED
      BY <3>1, <3>2
  <2>10. Good(y, kcdb'[b])
    <3>1. Stores(y, kcdb'[b])
      <4>1. ASSUME NEW j \in DOMAIN Chain[b], j < x.i + 1, kcdb'[b][Chain[b][j]] # Unregistered
            PROVE  Chain[b][j] \in x.done \cup {p}
        <5>1. Chain[b][j] \in Bees /\ kcdb[b][Chain[b][j]] # Unregistered
          BY <1>0, <2>8, <4>1
        <5>2. CASE j < x.i
          BY <1>1, <5>1, <5>2 DEF Stores
        <5>3. CASE j = x.i
          BY <5>3
        <5>4. QED
          BY <1>0, <4>1, <5>2, <5>3
      <4>2. QED
        BY <2>4, <4>1 DEF Stores
    <3>2. Reads(y) /\ y.i > 0
      BY <1>0, <1>1, <2>4 DEF Reads
    <3>3. QED
      BY <1>1, <2>4, <3>1, <3>2 DEF Good
  <2>11. ASSUME NEW e \in DOMAIN conns \ {c}
         PROVE  /\ conns'[e].bee = conns[e].bee /\ conns'[e].from = conns[e].from
                /\ conns'[e].pc = conns[e].pc /\ conns'[e].i = conns[e].i
                /\ Good(conns'[e], kcdb'[conns[e].bee])
    <3> DEFINE w == conns[e]
               z == conns'[e]
    <3>1. w \in Conn /\ Good(w, kcdb[w.bee]) /\ w.bee \in Bees
      BY OneConn
    <3>2. /\ z.bee = w.bee /\ z.req = w.req /\ z.from = w.from /\ z.pc = w.pc /\ z.i = w.i
          /\ z.r = w.r /\ z.run = w.run /\ z.found = w.found /\ z.done = w.done
          /\ z.took = w.took /\ z.sent = w.sent /\ z.offset = w.offset /\ z.lc = w.lc
          /\ z.seen = IF p = b /\ w.bee = b /\ w.pc \in {"get", "getbase"} /\ w.run.key = k
                      THEN w.seen \cup {Visible(Find(d, k))} ELSE w.seen
      <4> DEFINE hit == p = b /\ w.bee = b /\ w.pc \in {"get", "getbase"} /\ w.run.key = k
                 u == Visible(Find(d, k))
      <4>1. z = IF hit THEN [w EXCEPT !.seen = @ \cup {u}] ELSE w
        BY <2>9
      <4> HIDE DEF hit, u, z
      <4>2. CASE hit
        BY <3>1, <4>1, <4>2 DEF Conn, hit, u
      <4>3. CASE ~hit
        BY <4>1, <4>3 DEF hit
      <4>4. QED
        BY <4>2, <4>3
    <3> HIDE DEF z
    <3>3. Reads(z)
      BY <3>1, <3>2 DEF Good, Reads
    <3>4. ASSUME w.pc \in {"get", "getbase"}
          PROVE  Looks(z, kcdb'[w.bee][w.bee])
      <4>1. Looks(w, kcdb[w.bee][w.bee]) /\ w.run.key \in Keys
        BY <3>1, <3>4, KeyFacts DEF Good, Busy
      <4>2. CASE p = b /\ w.bee = b
        <5> DEFINE o == kcdb[w.bee][w.bee]
        <5>1. Written(o, d, k, v) /\ kcdb'[w.bee][w.bee] = d /\ Looks(w, o)
          BY <2>1, <2>7, <4>1, <4>2
        <5>2. z.seen = IF w.run.key = k THEN w.seen \cup {Visible(Find(d, k))} ELSE w.seen
          BY <3>2, <3>4, <4>2
        <5>3. /\ k \in Keys /\ w.run.key \in Keys /\ z.run = w.run /\ z.pc = w.pc /\ z.bee = w.bee
              /\ z.i = w.i /\ z.found = w.found /\ z.req = w.req
          BY <1>2, <3>2, <4>1
        <5> HIDE DEF o, k, w
        <5>4. Looks(z, d)
          BY <5>1, <5>2, <5>3, SeenKeeps
        <5>5. QED
          BY <5>1, <5>4 DEF w
      <4>3. CASE ~(p = b /\ w.bee = b)
        <5>1. kcdb'[w.bee][w.bee] = kcdb[w.bee][w.bee]
          BY <1>0, <2>7, <3>1, <4>3
        <5>2. QED
          BY <3>2, <4>1, <4>3, <5>1 DEF Looks
      <4>4. QED
        BY <4>2, <4>3
    <3>5. Good(z, kcdb'[w.bee])
      BY <2>8, <3>1, <3>2, <3>3, <3>4, SameBuckets
    <3>6. QED
      BY <3>2, <3>5 DEF z
  <2>12. v \in Stored
    BY <1>2, BucketAssumption DEF v, Visible, Stored
  <2>13. /\ last' \in [Bees -> [Keys -> Stored]] /\ age' \in [Bees -> [Keys -> Nat]]
         /\ p = b => last'[b][k] = v /\ age'[b][k] = 0
         /\ \A a \in Bees, m \in Keys :
              ~(p = b /\ a = b /\ m = k) => last'[a][m] = last[a][m] /\ age'[a][m] = age[a][m]
    <3>1. last \in [Bees -> [Keys -> Stored]] /\ age \in [Bees -> [Keys -> Nat]]
      BY DEF BeeInv, TypeOK
    <3>2. CASE p # b
      BY <1>5, <3>1, <3>2
    <3>3. CASE p = b
      <4>1. last' = [last EXCEPT ![b][k] = v] /\ age' = [age EXCEPT ![b][k] = 0]
        BY <1>5, <3>3
      <4>2. /\ last' \in [Bees -> [Keys -> Stored]] /\ last'[b][k] = v
            /\ \A a \in Bees, m \in Keys : ~(a = b /\ m = k) => last'[a][m] = last[a][m]
        BY <1>0, <1>2, <2>12, <3>1, <4>1
      <4>3. /\ age' \in [Bees -> [Keys -> Nat]] /\ age'[b][k] = 0
            /\ \A a \in Bees, m \in Keys : ~(a = b /\ m = k) => age'[a][m] = age[a][m]
        BY <1>0, <1>2, <3>1, <4>1
      <4>4. QED
        BY <3>3, <4>2, <4>3
    <3>4. QED
      BY <3>2, <3>3
  <2>14. TypeOK'
    BY <1>0, <1>5, <2>7, <2>9, <2>13 DEF BeeInv, TypeOK
  <2>15. Shows'
    <3>1. ASSUME NEW a \in Bees, NEW m \in Keys
          PROVE  LET e == kcdb'[a][a]
                 IN /\ age'[a][m] = 0 /\ e.patch # NoDb => e.patch[m] # Absent
                    /\ IF age'[a][m] <= 1 THEN Visible(Newest(e, m)) = last'[a][m]
                       ELSE Visible(Newest(e, m)) \in {last'[a][m], Absent}
      <4>0. LET e == kcdb[a][a]
            IN /\ age[a][m] = 0 /\ e.patch # NoDb => e.patch[m] # Absent
               /\ IF age[a][m] <= 1 THEN Visible(Newest(e, m)) = last[a][m]
                  ELSE Visible(Newest(e, m)) \in {last[a][m], Absent}
        BY DEF BeeInv, Shows
      <4>1. CASE ~(p = b /\ a = b)
        <5>1. kcdb'[a][a] = kcdb[a][a]
          BY <1>0, <2>7, <4>1
        <5>2. QED
          BY <2>13, <4>0, <4>1, <5>1
      <4>2. CASE p = b /\ a = b /\ m = k
        BY <2>1, <2>7, <2>13, <4>2 DEF Written
      <4>3. CASE p = b /\ a = b /\ m # k
        <5>1. kcdb'[a][a] = d /\ Written(kcdb[a][a], d, k, v)
          BY <2>1, <2>7, <4>3
        <5>2. /\ Newest(d, m) = Newest(kcdb[a][a], m) /\ d.patch[m] = kcdb[a][a].patch[m]
              /\ d.patch = NoDb <=> kcdb[a][a].patch = NoDb
          <6>1. m \in Keys \ {k}
            BY <4>3
          <6>2. d.patch = NoDb <=> kcdb[a][a].patch = NoDb
            BY <5>1 DEF Written
          <6>3. QED
            BY <5>1, <6>1, <6>2, OtherKeys
        <5>3. QED
          BY <2>13, <4>0, <4>3, <5>1, <5>2
      <4>4. QED
        BY <4>1, <4>2, <4>3
    <3>2. QED
      BY <3>1 DEF Shows
  <2>16. QED
    BY <1>0, <1>5, <2>4, <2>9, <2>10, <2>11, <2>14, <2>15, PlacesKept
<1>6. QED
  BY <1>4, <1>5 DEF Store

-----------------------------------------------------------------------------
(* New connections. *)

\* A connection as it arrives.
LEMMA NewConnFacts ==
  ASSUME NEW b \in Bees, NEW q \in Request, NEW f \in Nat, NEW n \in Nat,
         f # Pony => ~NeedSync(q.op), NEW ds
  PROVE  LET z == NewConn(b, q, f, n)
         IN /\ z \in Conn /\ z.bee = b /\ z.from = f /\ z.pc = "backlog" /\ Good(z, ds)
<1> DEFINE z == NewConn(b, q, f, n)
<1>1. z \in Conn
  BY DEF NewConn, Conn, Stored, Codes
<1>2. /\ z.bee = b /\ z.from = f /\ z.req = q /\ z.pc = "backlog" /\ z.seen = {} /\ z.found = Absent
      /\ z.i = 1 /\ z.took = 0 /\ z.sent = 0 /\ z.offset = 0 /\ z.lc = "header"
  BY DEF NewConn
<1> HIDE DEF z
<1>3. Reads(z)
  BY <1>2, BeeServerAssumption DEF Reads
<1>4. Good(z, ds)
  BY <1>2, <1>3 DEF Good, Busy
<1>5. QED
  BY <1>1, <1>2, <1>4 DEF z

\* The connections are cs after what the step did to one of them, and z is new.
LEMMA JoinKeeps ==
  ASSUME BeeInv, NEW cs \in Seq(Conn), DOMAIN cs = DOMAIN conns, NEW z \in Conn,
         conns' = Append(cs, z), UNCHANGED <<kcdb, configs, last, age>>,
         readers' \in [Bees -> SUBSET Nat],
         \A b \in Bees, e \in Nat :
           e \in readers'[b] <=> e \in DOMAIN conns /\ conns[e].bee = b /\ cs[e].pc \in Busy,
         \A e \in DOMAIN conns :
           /\ cs[e].bee = conns[e].bee /\ cs[e].from = conns[e].from
           /\ Good(cs[e], kcdb[conns[e].bee])
           /\ conns[e].pc \in {"sync", "reply", "closed"} =>
                /\ cs[e].pc \in {"sync", "reply", "closed"}
                /\ cs[e].pc = "sync" => conns[e].pc = "sync" /\ conns[e].i <= cs[e].i,
         z.pc = "backlog", Good(z, kcdb[z.bee]),
         z.from # Pony =>
           /\ z.from \in DOMAIN conns /\ conns[z.from].from = Pony
           /\ cs[z.from].pc \in {"sync", "reply", "closed"}
           /\ cs[z.from].pc = "sync" => \E j \in DOMAIN Chain[conns[z.from].bee] :
                 j < cs[z.from].i /\ Chain[conns[z.from].bee][j] = z.bee
           /\ \A e \in DOMAIN conns : ~(conns[e].from = z.from /\ conns[e].bee = z.bee)
  PROVE  BeeInv'
<1> DEFINE n == Len(cs) + 1
<1>0. /\ conns \in Seq(Conn) /\ DOMAIN conns = 1 .. Len(cs) /\ Len(cs) \in Nat
      /\ n \notin DOMAIN conns /\ n \in Nat
  BY DEF BeeInv, TypeOK
<1>1. /\ conns' \in Seq(Conn) /\ DOMAIN conns' = DOMAIN conns \cup {n} /\ conns'[n] = z
      /\ \A e \in DOMAIN conns : conns'[e] = cs[e]
  <2>1. /\ conns' \in Seq(Conn) /\ Len(conns') = n /\ conns'[n] = z
        /\ \A e \in 1 .. Len(cs) : conns'[e] = cs[e]
    BY AppendProperties
  <2>2. DOMAIN conns' = 1 .. n
    BY <2>1
  <2>3. 1 .. n = 1 .. Len(cs) \cup {n}
    BY <1>0
  <2>4. QED
    BY <1>0, <2>1, <2>2, <2>3
<1> HIDE DEF n
<1>2. TypeOK'
  BY <1>1 DEF BeeInv, TypeOK
<1>3. AllGood'
  <2>1. \A e \in DOMAIN conns \cup {n} : Good(conns'[e], kcdb[conns'[e].bee])
    BY <1>0, <1>1
  <2>2. QED
    BY <1>1, <2>1 DEF AllGood
<1>4. Locks'
  <2>1. z.pc \notin Busy
    BY DEF Busy
  <2>2. QED
    BY <1>0, <1>1, <2>1 DEF Locks
<1>5. Shows'
  BY DEF BeeInv, Shows
<1>6. Sends'
  <2> DEFINE Sent(d, f) ==
               /\ f \in DOMAIN conns' /\ conns'[f].from = Pony
               /\ conns'[f].pc \in {"sync", "reply", "closed"}
               /\ conns'[f].pc = "sync" => \E j \in DOMAIN Chain[conns'[f].bee] :
                                      j < conns'[f].i /\ Chain[conns'[f].bee][j] = conns'[d].bee
               /\ \A e \in DOMAIN conns' : conns'[e].from = f /\ conns'[e].bee = conns'[d].bee => e = d
  <2>1. ASSUME NEW d \in DOMAIN conns, conns[d].from # Pony
        PROVE  Sent(d, conns[d].from)
    <3> DEFINE f == conns[d].from
    <3>1. /\ f \in DOMAIN conns /\ conns[f].from = Pony
          /\ conns[f].pc \in {"sync", "reply", "closed"}
          /\ conns[f].pc = "sync" => \E j \in DOMAIN Chain[conns[f].bee] :
                                       j < conns[f].i /\ Chain[conns[f].bee][j] = conns[d].bee
          /\ \A e \in DOMAIN conns : conns[e].from = f /\ conns[e].bee = conns[d].bee => e = d
      BY <2>1 DEF BeeInv, Sends
    <3>2. conns'[f] = cs[f] /\ conns'[d] = cs[d] /\ cs[d].bee = conns[d].bee /\ cs[f].bee = conns[f].bee
          /\ cs[f].from = conns[f].from
      BY <1>1, <3>1
    <3>3. ASSUME cs[f].pc = "sync"
          PROVE  \E j \in DOMAIN Chain[conns[f].bee] :
                   j < cs[f].i /\ Chain[conns[f].bee][j] = conns[d].bee
      <4>1. PICK j \in DOMAIN Chain[conns[f].bee] :
              j < conns[f].i /\ Chain[conns[f].bee][j] = conns[d].bee
        BY <3>1, <3>3
      <4>2. j \in Nat /\ conns[f].i \in Nat
        <5>1. conns[f] \in Conn /\ DOMAIN Chain[conns[f].bee] = 1 .. Len(Chain[conns[f].bee])
          BY <3>1, OneConn
        <5>2. conns[f].i \in Nat
          BY <5>1 DEF Conn
        <5>3. QED
          BY <5>1, <5>2
      <4>3. cs[f].i \in Nat /\ conns[f].i <= cs[f].i
        <5>1. cs[f] \in Conn
          BY <3>1
        <5>2. cs[f].i \in Nat
          BY <5>1 DEF Conn
        <5>3. QED
          BY <3>1, <3>3, <5>2
      <4>4. j < cs[f].i
        BY <4>1, <4>2, <4>3
      <4>5. QED
        BY <4>1, <4>4
    <3>4. ASSUME NEW e \in DOMAIN conns', conns'[e].from = f, conns'[e].bee = conns'[d].bee
          PROVE  e = d
      <4>1. CASE e \in DOMAIN conns
        BY <1>1, <3>1, <3>2, <3>4, <4>1
      <4>2. CASE e = n
        <5>1. z.from = f /\ z.bee = conns[d].bee
          BY <1>1, <3>2, <3>4, <4>2
        <5>2. QED
          BY <2>1, <5>1
      <4>3. QED
        BY <1>1, <4>1, <4>2
    <3>5. f \in DOMAIN conns' /\ cs[f].pc \in {"sync", "reply", "closed"}
      BY <1>1, <3>1
    <3>6. QED
      BY <3>1, <3>2, <3>3, <3>4, <3>5
  <2>2. ASSUME z.from # Pony
        PROVE  Sent(n, z.from)
    <3> DEFINE f == z.from
    <3>1. /\ f \in DOMAIN conns /\ conns[f].from = Pony
          /\ cs[f].pc \in {"sync", "reply", "closed"}
          /\ cs[f].pc = "sync" => \E j \in DOMAIN Chain[conns[f].bee] :
                                    j < cs[f].i /\ Chain[conns[f].bee][j] = z.bee
          /\ \A e \in DOMAIN conns : ~(conns[e].from = f /\ conns[e].bee = z.bee)
      BY <2>2
    <3>2. /\ conns'[f] = cs[f] /\ f \in DOMAIN conns' /\ cs[f].bee = conns[f].bee
          /\ cs[f].from = conns[f].from /\ conns'[n] = z
      BY <1>1, <3>1
    <3>3. ASSUME NEW e \in DOMAIN conns', conns'[e].from = f, conns'[e].bee = conns'[n].bee
          PROVE  e = n
      <4>1. CASE e \in DOMAIN conns
        <5>1. conns[e].from = f /\ conns[e].bee = z.bee
          BY <1>1, <3>2, <3>3, <4>1
        <5>2. QED
          BY <3>1, <4>1, <5>1
      <4>2. QED
        BY <1>1, <4>1
    <3>4. QED
      BY <3>1, <3>2, <3>3
  <2> HIDE DEF Sent
  <2>3. ASSUME NEW d \in DOMAIN conns', conns'[d].from # Pony
        PROVE  Sent(d, conns'[d].from)
    <3>1. CASE d \in DOMAIN conns
      <4>1. conns'[d].from = conns[d].from
        BY <1>1, <3>1
      <4>2. QED
        BY <2>1, <2>3, <3>1, <4>1
    <3>2. CASE d = n
      BY <1>1, <2>2, <2>3, <3>2
    <3>3. QED
      BY <1>1, <3>1, <3>2
  <2>4. QED
    BY <2>3 DEF Sends, Sent
<1>7. QED
  BY <1>2, <1>3, <1>4, <1>5, <1>6 DEF BeeInv

\* pony connects.
LEMMA PonyConnectKeeps ==
  ASSUME BeeInv, NEW b \in Bees, NEW q \in Requests, PonyConnect(b, q)
  PROVE  BeeInv'
<1> DEFINE z == NewConn(b, q, Pony, HeaderLen + PayloadLen)
<1>1. q \in Request /\ Pony \in Nat /\ HeaderLen + PayloadLen \in Nat
  BY BeeServerAssumption DEF Pony
<1>2. z \in Conn /\ z.bee = b /\ z.from = Pony /\ z.pc = "backlog" /\ Good(z, kcdb[b])
  BY <1>1, NewConnFacts
<1>3. conns' = Append(conns, z) /\ UNCHANGED <<kcdb, readers, configs, last, age>>
  BY DEF PonyConnect
<1> HIDE DEF z
<1>4. /\ conns \in Seq(Conn) /\ readers \in [Bees -> SUBSET Nat]
      /\ \A a \in Bees, e \in Nat :
           e \in readers[a] <=> e \in DOMAIN conns /\ conns[e].bee = a /\ conns[e].pc \in Busy
  BY DEF BeeInv, TypeOK, Locks
<1>5. \A e \in DOMAIN conns : Good(conns[e], kcdb[conns[e].bee]) /\ conns[e].i <= conns[e].i
  <2>1. ASSUME NEW e \in DOMAIN conns
        PROVE  Good(conns[e], kcdb[conns[e].bee]) /\ conns[e].i <= conns[e].i
    <3>1. Good(conns[e], kcdb[conns[e].bee]) /\ conns[e].i \in Nat
      BY OneConn DEF Conn
    <3>2. QED
      BY <3>1
  <2>2. QED
    BY <2>1
<1>6. QED
  BY <1>2, <1>3, <1>4, <1>5, JoinKeeps

\* bee_db_forward_to_node, to a server that got none of this write before.
LEMMA ForwardKeeps ==
  ASSUME BeeInv, NEW c \in DOMAIN conns, Forward(c)
  PROVE  BeeInv'
<1> DEFINE x == conns[c]
           b == x.bee
           ch == Chain[b]
           p == ch[x.i]
           q == Forwarded(x)
           full == HeaderLen + PayloadLen
<1>0. /\ conns \in Seq(Conn) /\ x \in Conn /\ Good(x, kcdb[b]) /\ b \in Bees /\ c \in Nat
      /\ ch \in Seq(Bees) /\ DOMAIN ch = 1 .. Len(ch) /\ Len(ch) \in Nat /\ x.i \in Nat
      /\ x.pc = "sync" /\ x.i <= Len(ch) /\ x.pc \in Busy /\ p # b
      /\ UNCHANGED <<kcdb, configs, last, age>>
  BY OneConn DEF Forward, Remote, Conn, Busy
<1>1. /\ Syncs(x, kcdb[b]) /\ x.i > 0 /\ Reads(x) /\ NeedSync(x.req.op) /\ x.from = Pony
      /\ x.run # NoPayload /\ x.seen = {} /\ x.found = Absent
  BY <1>0 DEF Good, Syncs
<1>2. x.i \in DOMAIN ch /\ p \in Bees
  BY <1>0, <1>1
<1>3. q \in Request /\ ~NeedSync(q.op)
  <2>1. x.run \in Payload /\ x.req \in Request
    BY <1>0, KeyFacts DEF Conn
  <2>2. q \in Request
    BY <2>1 DEF Forwarded, Request, Payload, Ops
  <2>3. q.op \in {"INTERNAL_SET", "INTERNAL_DEL"}
    BY <2>1 DEF Forwarded, Request
  <2>4. QED
    BY <2>2, <2>3 DEF NeedSync
<1>4. \A e \in DOMAIN conns : ~(conns[e].from = c /\ conns[e].bee = p)
  <2>1. ASSUME NEW e \in DOMAIN conns, conns[e].from = c, conns[e].bee = p
        PROVE  FALSE
    <3>1. c # Pony
      BY <1>0 DEF Pony
    <3>2. PICK j \in DOMAIN ch : j < x.i /\ ch[j] = p
      BY <1>0, <2>1, <3>1 DEF BeeInv, Sends
    <3>3. IsInjective(ch)
      BY <1>0, BeeServerAssumption
    <3>4. j = x.i
      BY <1>2, <3>2, <3>3 DEF IsInjective
    <3>5. QED
      BY <1>0, <3>2, <3>4
  <2>2. QED
    BY <2>1
<1>5. CASE Finish(c, "LIBCALL") /\ Unlock(c)
  <2>1. "LIBCALL" \in Codes
    BY DEF Codes
  <2>2. \E y : Moved(c, y)
    BY <1>0, <1>5, <2>1, FinishMoves
  <2>3. QED
    BY <2>2, MovedKeeps
<1>6. ASSUME NEW y \in Conn, NEW n \in Nat,
             conns' = Append([conns EXCEPT ![c] = y], NewConn(p, q, c, n)),
             y.bee = b, y.from = x.from, Good(y, kcdb[b]), LockStep(c, y),
             y.pc \in {"sync", "reply"}, y.pc = "sync" => y.i = x.i + 1
      PROVE  BeeInv'
  <2> DEFINE cs == [conns EXCEPT ![c] = y]
             z == NewConn(p, q, c, n)
  <2>1. /\ cs \in Seq(Conn) /\ DOMAIN cs = DOMAIN conns /\ cs[c] = y
        /\ \A e \in DOMAIN conns \ {c} : cs[e] = conns[e]
    <3>1. c \in 1 .. Len(conns) /\ DOMAIN conns = 1 .. Len(conns)
      BY <1>0
    <3>2. cs \in Seq(Conn)
      BY <1>0, <3>1, ExceptSeq
    <3>3. QED
      BY <3>1, <3>2
  <2>2. z \in Conn /\ z.bee = p /\ z.from = c /\ z.pc = "backlog" /\ Good(z, kcdb[p])
    BY <1>0, <1>2, <1>3, NewConnFacts
  <2>3. conns' = Append(cs, z)
    BY <1>6
  <2> HIDE DEF cs, z
  <2>4. /\ readers' \in [Bees -> SUBSET Nat]
        /\ \A a \in Bees, e \in Nat :
             e \in readers'[a] <=> e \in DOMAIN conns /\ conns[e].bee = a /\ cs[e].pc \in Busy
    <3>1. ASSUME NEW a \in Bees, NEW e \in Nat
          PROVE  e \in readers'[a] <=> e \in DOMAIN conns /\ conns[e].bee = a /\ cs[e].pc \in Busy
      <4>1. CASE e = c
        BY <1>6, <2>1, <4>1 DEF LockStep
      <4>2. CASE e # c
        BY <1>6, <2>1, <4>2 DEF LockStep, BeeInv, Locks
      <4>3. QED
        BY <4>1, <4>2
    <3>2. QED
      BY <1>6, <3>1 DEF LockStep
  <2>5. ASSUME NEW e \in DOMAIN conns
        PROVE  /\ cs[e].bee = conns[e].bee /\ cs[e].from = conns[e].from
               /\ Good(cs[e], kcdb[conns[e].bee])
               /\ conns[e].pc \in {"sync", "reply", "closed"} =>
                    /\ cs[e].pc \in {"sync", "reply", "closed"}
                    /\ cs[e].pc = "sync" => conns[e].pc = "sync" /\ conns[e].i <= cs[e].i
    <3>1. CASE e = c
      <4>1. y.pc = "sync" => x.i <= y.i
        BY <1>0, <1>6
      <4>2. QED
        BY <1>0, <1>6, <2>1, <3>1, <4>1
    <3>2. CASE e # c
      <4>1. Good(conns[e], kcdb[conns[e].bee]) /\ conns[e].i \in Nat
        BY OneConn DEF Conn
      <4>2. conns[e].i <= conns[e].i
        BY <4>1
      <4>3. QED
        BY <2>1, <3>2, <4>1, <4>2
    <3>3. QED
      BY <3>1, <3>2
  <2>6. /\ z.from \in DOMAIN conns /\ conns[z.from].from = Pony
        /\ cs[z.from].pc \in {"sync", "reply", "closed"}
        /\ cs[z.from].pc = "sync" => \E j \in DOMAIN Chain[conns[z.from].bee] :
                 j < cs[z.from].i /\ Chain[conns[z.from].bee][j] = z.bee
        /\ \A e \in DOMAIN conns : ~(conns[e].from = z.from /\ conns[e].bee = z.bee)
    <3>1. y.pc = "sync" => x.i < y.i
      BY <1>0, <1>6
    <3>2. QED
      BY <1>1, <1>2, <1>4, <1>6, <2>1, <2>2, <3>1
  <2>7. QED
    BY <1>0, <2>1, <2>2, <2>3, <2>4, <2>5, <2>6, JoinKeeps
<1>7. full \in Nat
  BY BeeServerAssumption
<1>8. CASE /\ conns' = Append([conns EXCEPT ![c].i = @ + 1, ![c].done = @ \cup {p}],
                              NewConn(p, q, c, full))
           /\ UNCHANGED readers
  <2> DEFINE y == [x EXCEPT !.i = @ + 1, !.done = @ \cup {p}]
  <2>1. [conns EXCEPT ![c].i = @ + 1, ![c].done = @ \cup {p}] = [conns EXCEPT ![c] = y]
    OBVIOUS
  <2>2. y \in Conn
    <3>1. x.done \in SUBSET Bees
      BY <1>0 DEF Conn
    <3>2. x.i + 1 \in Nat /\ x.done \cup {p} \in SUBSET Bees
      BY <1>0, <1>2, <3>1
    <3>3. QED
      BY <1>0, <3>2 DEF Conn
  <2>3. /\ y.pc = "sync" /\ y.bee = b /\ y.from = x.from /\ y.req = x.req /\ y.run = x.run
        /\ y.i = x.i + 1 /\ y.seen = x.seen /\ y.found = x.found /\ y.done = x.done \cup {p}
        /\ y.took = x.took /\ y.sent = x.sent /\ y.offset = x.offset /\ y.lc = x.lc
    BY <1>0 DEF Conn
  <2>4. conns' = Append([conns EXCEPT ![c] = y], NewConn(p, q, c, full))
    BY <1>8, <2>1
  <2> HIDE DEF y
  <2>5. Syncs(y, kcdb[b])
    <3>1. ASSUME NEW j \in DOMAIN ch, j < x.i + 1, ch[j] # b
          PROVE  ch[j] \in x.done \cup {p}
      <4>1. CASE j < x.i
        BY <1>1, <3>1, <4>1 DEF Syncs
      <4>2. CASE j = x.i
        BY <4>2
      <4>3. QED
        BY <1>0, <3>1, <4>1, <4>2
    <3>2. QED
      BY <1>1, <2>3, <3>1 DEF Syncs
  <2>6. Reads(y) /\ y.i > 0
    BY <1>0, <1>1, <2>3 DEF Reads
  <2>7. Good(y, kcdb[b])
    BY <1>1, <2>3, <2>5, <2>6 DEF Good
  <2>8. LockStep(c, y)
    <3>1. y.pc \in Busy
      BY <2>3 DEF Busy
    <3>2. QED
      BY <1>0, <1>8, <2>3, <3>1, LockSteps
  <2>9. QED
    BY <1>6, <1>7, <2>2, <2>3, <2>4, <2>7, <2>8
<1>9. CASE /\ \E n \in 1 .. (full - 1) :
                conns' = Append([conns EXCEPT ![c].pc = "reply", ![c].r = "LIBCALL"],
                                NewConn(p, q, c, n))
           /\ Unlock(c)
  <2> DEFINE y == [x EXCEPT !.pc = "reply", !.r = "LIBCALL"]
  <2>0. PICK n \in 1 .. (full - 1) :
          conns' = Append([conns EXCEPT ![c].pc = "reply", ![c].r = "LIBCALL"], NewConn(p, q, c, n))
    BY <1>9
  <2>1. n \in Nat
    BY <1>7
  <2>2. y \in Conn
    BY <1>0 DEF Conn, Codes
  <2>3. /\ y.pc = "reply" /\ y.bee = b /\ y.from = x.from /\ y.req = x.req
        /\ y.i = x.i /\ y.seen = x.seen /\ y.r = "LIBCALL"
        /\ y.took = x.took /\ y.sent = x.sent /\ y.offset = x.offset /\ y.lc = x.lc
    BY <1>0 DEF Conn
  <2>4. conns' = Append([conns EXCEPT ![c] = y], NewConn(p, q, c, n))
    <3>1. [conns EXCEPT ![c].pc = "reply", ![c].r = "LIBCALL"] = [conns EXCEPT ![c] = y]
      OBVIOUS
    <3>2. QED
      BY <2>0, <3>1
  <2> HIDE DEF y
  <2>5. Reads(y) /\ y.i > 0
    BY <1>1, <2>3 DEF Reads
  <2>6. Good(y, kcdb[b])
    BY <1>0, <1>1, <2>3, <2>5, EndGood
  <2>7. LockStep(c, y)
    <3>1. y.pc \notin Busy
      BY <2>3 DEF Busy
    <3>2. QED
      BY <1>9, <2>3, <3>1, LockSteps
  <2>8. QED
    BY <1>6, <2>1, <2>2, <2>3, <2>4, <2>6, <2>7
<1>10. \/ /\ conns' = Append([conns EXCEPT ![c].i = @ + 1, ![c].done = @ \cup {p}],
                            NewConn(p, q, c, full))
          /\ UNCHANGED readers
       \/ Finish(c, "LIBCALL") /\ Unlock(c)
       \/ /\ \E n \in 1 .. (full - 1) :
               conns' = Append([conns EXCEPT ![c].pc = "reply", ![c].r = "LIBCALL"],
                               NewConn(p, q, c, n))
          /\ Unlock(c)
  BY Zenon DEF Forward
<1>11. QED
  BY <1>5, <1>8, <1>9, <1>10
-----------------------------------------------------------------------------
(* The commands.  They have the write lock, so no operation is under way. *)

\* What Shows says of a key k of the bucket d, written last with l, n shifts ago.
Shown(d, k, n, l) ==
  /\ n = 0 /\ d.patch # NoDb => d.patch[k] # Absent
  /\ IF n <= 1 THEN Visible(Newest(d, k)) = l ELSE Visible(Newest(d, k)) \in {l, Absent}

\* Without an operation under way a bucket of the server may change.
LEMMA BucketChanges ==
  ASSUME BeeInv, NEW b \in Bees, NEW p \in Bees, NEW d \in Bucket, CanConfigure(b),
         kcdb' = [kcdb EXCEPT ![b][p] = d], configs' = configs + 1, UNCHANGED <<conns, readers>>,
         last' \in [Bees -> [Keys -> Stored]], age' \in [Bees -> [Keys -> Nat]],
         \A a \in Bees, k \in Keys :
           ~(a = b /\ p = b) => last'[a][k] = last[a][k] /\ age'[a][k] = age[a][k],
         p = b => \A k \in Keys : Shown(d, k, age'[b][k], last'[b][k])
  PROVE  BeeInv'
<1>1. kcdb \in [Bees -> [Bees -> Bucket]] /\ configs \in Nat /\ readers[b] = {}
  BY DEF BeeInv, TypeOK, CanConfigure
<1>2. /\ kcdb' \in [Bees -> [Bees -> Bucket]] /\ kcdb'[b][p] = d
      /\ \A q \in Bees \ {p} : kcdb'[b][q] = kcdb[b][q]
      /\ \A a \in Bees \ {b} : kcdb'[a] = kcdb[a]
  BY <1>1
<1>3. TypeOK'
  <2>1. configs' \in Nat
    BY <1>1
  <2>2. QED
    BY <1>2, <2>1 DEF BeeInv, TypeOK
<1>4. Shows'
  <2>1. ASSUME NEW a \in Bees, NEW k \in Keys
        PROVE  Shown(kcdb'[a][a], k, age'[a][k], last'[a][k])
    <3>1. CASE a = b /\ p = b
      BY <1>2, <3>1
    <3>2. CASE ~(a = b /\ p = b)
      <4>1. kcdb'[a][a] = kcdb[a][a] /\ last'[a][k] = last[a][k] /\ age'[a][k] = age[a][k]
        BY <1>2, <3>2
      <4>2. Shown(kcdb[a][a], k, age[a][k], last[a][k])
        BY DEF BeeInv, Shows, Shown
      <4>3. QED
        BY <4>1, <4>2
    <3>3. QED
      BY <3>1, <3>2
  <2>2. QED
    BY <2>1 DEF Shows, Shown
<1>5. ASSUME NEW e \in DOMAIN conns
      PROVE  Good(conns[e], kcdb'[conns[e].bee])
  <2> DEFINE w == conns[e]
  <2>1. w \in Conn /\ w.bee \in Bees /\ Good(w, kcdb[w.bee]) /\ (e \in readers[w.bee] <=> w.pc \in Busy)
    BY OneConn
  <2>2. CASE w.bee # b
    BY <1>2, <2>1, <2>2
  <2>3. CASE w.bee = b
    <3>1. w.pc \notin Busy
      BY <1>1, <2>1, <2>3
    <3>2. QED
      BY <2>1, <3>1 DEF Good, Busy
  <2>4. QED
    BY <2>2, <2>3
<1>6. QED
  BY <1>3, <1>4, <1>5, PlacesKept

\* A bucket with one of its databases opened.
LEMMA OpenFacts ==
  ASSUME NEW d \in Bucket, NEW idx \in {"base", "patch"}, NEW f \in Files
  PROVE  BucketOpen(d, idx, f) \in Bucket
<1>1. f \in Db
  BY BeeServerAssumption
<1>2. CASE idx = "base"
  BY <1>1, <1>2 DEF BucketOpen, Bucket
<1>3. CASE idx = "patch"
  BY <1>1, <1>3 DEF BucketOpen, Bucket
<1>4. QED
  BY <1>2, <1>3

\* AddDiskBucket.
LEMMA AddDiskBucketKeeps ==
  ASSUME BeeInv, NEW b \in Bees, NEW idx \in {"base", "patch"}, NEW f \in Files,
         AddDiskBucket(b, idx, f)
  PROVE  BeeInv'
<1> DEFINE d == BucketOpen(kcdb[b][b], idx, f)
<1>1. d \in Bucket
  <2>1. kcdb[b][b] \in Bucket
    BY DEF BeeInv, TypeOK
  <2>2. QED
    BY <2>1, OpenFacts
<1>2. Reopened(b, d) /\ CanConfigure(b) /\ configs' = configs + 1 /\ UNCHANGED <<conns, readers>>
  BY DEF AddDiskBucket
<1> HIDE DEF d
<1> DEFINE l == [k \in Keys |-> Visible(Newest(d, k))]
           g == [k \in Keys |-> IF d.patch # NoDb /\ d.patch[k] = Absent THEN 1 ELSE 0]
<1>3. last \in [Bees -> [Keys -> Stored]] /\ age \in [Bees -> [Keys -> Nat]]
  BY DEF BeeInv, TypeOK
<1>4. l \in [Keys -> Stored] /\ g \in [Keys -> Nat]
  <2>1. \A k \in Keys : Visible(Newest(d, k)) \in Stored
    BY <1>1, BucketFacts
  <2>2. QED
    BY <2>1
<1>5. \A k \in Keys : Shown(d, k, g[k], l[k])
  BY DEF Shown
<1>6. last' = [last EXCEPT ![b] = l] /\ age' = [age EXCEPT ![b] = g]
      /\ kcdb' = [kcdb EXCEPT ![b][b] = d]
  BY <1>2 DEF Reopened
<1> HIDE DEF l, g
<1>7. /\ last' \in [Bees -> [Keys -> Stored]] /\ last'[b] = l
      /\ \A a \in Bees \ {b} : last'[a] = last[a]
  BY <1>3, <1>4, <1>6
<1>8. /\ age' \in [Bees -> [Keys -> Nat]] /\ age'[b] = g
      /\ \A a \in Bees \ {b} : age'[a] = age[a]
  BY <1>3, <1>4, <1>6
<1>9. \A k \in Keys : Shown(d, k, age'[b][k], last'[b][k])
  BY <1>5, <1>7, <1>8
<1>10. \A a \in Bees \ {b}, k \in Keys : last'[a][k] = last[a][k] /\ age'[a][k] = age[a][k]
  BY <1>7, <1>8
<1>11. QED
  BY <1>1, <1>2, <1>6, <1>7, <1>8, <1>9, <1>10, BucketChanges

\* AddRemotePatchBucket.
LEMMA AddRemotePatchBucketKeeps ==
  ASSUME BeeInv, NEW b \in Bees, NEW p \in Bees, NEW f \in Files, AddRemotePatchBucket(b, p, f)
  PROVE  BeeInv'
<1> DEFINE d == BucketOpen(kcdb[b][p], "patch", f)
<1>1. d \in Bucket
  <2>1. kcdb[b][p] \in Bucket
    BY DEF BeeInv, TypeOK
  <2>2. QED
    BY <2>1, OpenFacts
<1>2. kcdb' = [kcdb EXCEPT ![b][p] = d]
  BY DEF AddRemotePatchBucket
<1> HIDE DEF d
<1>3. /\ CanConfigure(b) /\ p # b /\ configs' = configs + 1
      /\ UNCHANGED <<conns, readers, last, age>>
  BY DEF AddRemotePatchBucket
<1>4. last' \in [Bees -> [Keys -> Stored]] /\ age' \in [Bees -> [Keys -> Nat]]
  BY <1>3 DEF BeeInv, TypeOK
<1>5. \A a \in Bees, k \in Keys : last'[a][k] = last[a][k] /\ age'[a][k] = age[a][k]
  BY <1>3
<1>6. QED
  BY <1>1, <1>2, <1>3, <1>4, <1>5, BucketChanges

\* What a bucket shows after a shift: what it showed, or nothing if the record was
\* in the base under a patch.
LEMMA ShiftFacts ==
  ASSUME NEW d \in Bucket, NEW k \in Keys, NEW n \in Nat, NEW l \in Stored, Shown(d, k, n, l)
  PROVE  BucketShift(d) \in Bucket /\ Shown(BucketShift(d), k, n + 1, l)
<1> DEFINE s == BucketShift(d)
<1>1. Empty \in Db /\ Empty[k] = Absent /\ Empty # NoDb
  BY BucketAssumption DEF Empty, Db, Stored
<1>2. /\ d.base \in Db \cup {NoDb} /\ d.patch \in Db \cup {NoDb} /\ Visible(Absent) = Absent
      /\ d \in [base : Db \cup {NoDb}, patch : Db \cup {NoDb}]
  BY BucketFacts DEF Bucket
<1>3. s \in Bucket /\ s.base # NoDb
      /\ Newest(s, k) = IF d.base # NoDb /\ d.patch # NoDb THEN d.patch[k] ELSE Newest(d, k)
  <2>1. CASE d.base = NoDb
    <3>1. s = [d EXCEPT !.base = Empty]
      BY <2>1 DEF BucketShift
    <3>2. s.base = Empty /\ s.patch = d.patch
      BY <1>2, <3>1
    <3>3. s \in Bucket
      BY <1>1, <1>2, <3>1 DEF Bucket
    <3>4. QED
      BY <1>1, <2>1, <3>2, <3>3 DEF Newest
  <2>2. CASE d.base # NoDb /\ d.patch = NoDb
    <3>1. s = [d EXCEPT !.patch = Empty]
      BY <2>2 DEF BucketShift
    <3>2. s.base = d.base /\ s.patch = Empty
      BY <1>2, <3>1
    <3>3. s \in Bucket
      BY <1>1, <1>2, <3>1 DEF Bucket
    <3>4. QED
      BY <1>1, <2>2, <3>2, <3>3 DEF Newest
  <2>3. CASE d.base # NoDb /\ d.patch # NoDb
    <3>1. s = [base |-> d.patch, patch |-> Empty]
      BY <2>3 DEF BucketShift
    <3>2. s.base = d.patch /\ s.patch = Empty
      BY <3>1
    <3>3. s \in Bucket
      BY <1>1, <1>2, <3>1 DEF Bucket
    <3>4. QED
      BY <1>1, <2>3, <3>2, <3>3 DEF Newest
  <2>4. QED
    BY <2>1, <2>2, <2>3
<1> HIDE DEF s
<1>4. CASE ~(d.base # NoDb /\ d.patch # NoDb)
  BY <1>3, <1>4 DEF Shown, s
<1>5. CASE d.base # NoDb /\ d.patch # NoDb
  <2>1. CASE d.patch[k] # Absent
    <3>1. Newest(s, k) = Newest(d, k)
      BY <1>3, <1>5, <2>1 DEF Newest
    <3>2. QED
      BY <1>3, <3>1 DEF Shown, s
  <2>2. CASE d.patch[k] = Absent
    <3>1. n > 0 /\ Visible(Newest(s, k)) = Absent
      BY <1>2, <1>3, <1>5, <2>2 DEF Shown
    <3>2. n + 1 > 1
      BY <3>1
    <3>3. QED
      BY <1>3, <3>1, <3>2 DEF Shown, s
  <2>3. QED
    BY <2>1, <2>2
<1>6. QED
  BY <1>4, <1>5

\* ShiftMemBucket.
LEMMA ShiftMemBucketKeeps ==
  ASSUME BeeInv, NEW b \in Bees, ShiftMemBucket(b)
  PROVE  BeeInv'
<1> DEFINE o == kcdb[b][b]
           d == BucketShift(o)
           g == [k \in Keys |-> age[b][k] + 1]
<1>1. /\ last \in [Bees -> [Keys -> Stored]] /\ age \in [Bees -> [Keys -> Nat]]
      /\ kcdb \in [Bees -> [Bees -> Bucket]] /\ o \in Bucket
  BY DEF BeeInv, TypeOK
<1>2. /\ kcdb' = [kcdb EXCEPT ![b][b] = d] /\ age' = [age EXCEPT ![b] = g]
      /\ CanConfigure(b) /\ configs' = configs + 1 /\ UNCHANGED <<conns, readers, last>>
  BY <1>1 DEF ShiftMemBucket
<1>3. ASSUME NEW k \in Keys
      PROVE  d \in Bucket /\ Shown(d, k, age[b][k] + 1, last[b][k])
  <2>1. Shown(o, k, age[b][k], last[b][k])
    BY DEF BeeInv, Shows, Shown
  <2>2. age[b][k] \in Nat /\ last[b][k] \in Stored
    BY <1>1
  <2> HIDE DEF o
  <2>3. QED
    BY <1>1, <2>1, <2>2, ShiftFacts
<1>4. d \in Bucket
  <2>1. Empty \in Db
    BY DEF Empty, Db, Stored
  <2>2. o.base \in Db \cup {NoDb} /\ o.patch \in Db \cup {NoDb}
    BY <1>1 DEF Bucket
  <2> HIDE DEF o
  <2>3. QED
    BY <1>1, <2>1, <2>2 DEF BucketShift, Bucket
<1>5. g \in [Keys -> Nat]
  <2>1. \A k \in Keys : age[b][k] + 1 \in Nat
    BY <1>1
  <2>2. QED
    BY <2>1
<1>6. \A k \in Keys : g[k] = age[b][k] + 1
  OBVIOUS
<1> HIDE DEF g, d, o
<1>7. /\ age' \in [Bees -> [Keys -> Nat]] /\ age'[b] = g
      /\ \A a \in Bees \ {b} : age'[a] = age[a]
  BY <1>1, <1>2, <1>5
<1>8. last' \in [Bees -> [Keys -> Stored]] /\ last' = last
  BY <1>1, <1>2
<1>9. \A k \in Keys : Shown(d, k, age'[b][k], last'[b][k])
  BY <1>3, <1>6, <1>7, <1>8
<1>10. \A a \in Bees \ {b}, k \in Keys : last'[a][k] = last[a][k] /\ age'[a][k] = age[a][k]
  BY <1>7, <1>8
<1>11. QED
  BY <1>2, <1>4, <1>7, <1>8, <1>9, <1>10, BucketChanges

-----------------------------------------------------------------------------
(* The invariant and what follows from it. *)

\* No connection, no bucket, no lock.
LEMMA InitKeeps == Init => BeeInv
<1> SUFFICES ASSUME Init PROVE BeeInv
  OBVIOUS
<1>1. conns = << >> /\ DOMAIN conns = {}
  BY DEF Init
<1>2. Unregistered \in Bucket /\ Absent \in Stored
  BY DEF Unregistered, Bucket, Stored
<1>3. TypeOK
  BY <1>1, <1>2 DEF Init, TypeOK
<1>4. AllGood /\ Sends
  BY <1>1 DEF AllGood, Sends
<1>5. Locks
  BY <1>1 DEF Init, Locks
<1>6. Shows
  <2>1. ASSUME NEW b \in Bees, NEW k \in Keys
        PROVE  Shown(kcdb[b][b], k, age[b][k], last[b][k])
    <3>1. kcdb[b][b] = Unregistered /\ age[b][k] = 0 /\ last[b][k] = Absent
      BY DEF Init
    <3>2. Unregistered.patch = NoDb /\ Unregistered.base = NoDb
      BY DEF Unregistered
    <3>3. Newest(Unregistered, k) = Absent /\ Visible(Absent) = Absent
      BY <3>2, BucketAssumption DEF Newest, Visible
    <3>4. QED
      BY <3>1, <3>2, <3>3 DEF Shown
  <2>2. QED
    BY <2>1 DEF Shows, Shown
<1>7. QED
  BY <1>3, <1>4, <1>5, <1>6 DEF BeeInv

\* The step of a session.
LEMMA SessionKeeps ==
  ASSUME BeeInv, NEW c \in DOMAIN conns, SessionStep(c)
  PROVE  BeeInv'
<1>1. CASE Store(c)
  BY <1>1, StoreKeeps
<1>2. CASE Forward(c)
  BY <1>2, ForwardKeeps
<1>3. CASE Accept(c) \/ Poll(c) \/ Expire(c)
  BY <1>3, SocketMoves, MovedKeeps
<1>4. CASE ReceiveRequest(c)
  BY <1>4, ReceiveMoves, MovedKeeps
<1>5. CASE Execute(c)
  BY <1>5, ExecuteMoves, MovedKeeps
<1>6. CASE StartGet(c)
  BY <1>6, StartGetMoves, MovedKeeps
<1>7. CASE GetNode(c)
  BY <1>7, GetNodeMoves, MovedKeeps
<1>8. CASE GetBase(c)
  BY <1>8, GetBaseMoves, MovedKeeps
<1>9. CASE StartWrite(c)
  BY <1>9, StartWriteMoves, MovedKeeps
<1>10. CASE LocalStep(c)
  BY <1>10, LocalStepMoves, MovedKeeps
<1>11. CASE SyncStep(c)
  BY <1>11, SyncStepMoves, MovedKeeps
<1>12. CASE Reply(c)
  BY <1>12, ReplyMoves, MovedKeeps
<1>13. QED
  BY <1>1, <1>2, <1>3, <1>4, <1>5, <1>6, <1>7, <1>8, <1>9, <1>10, <1>11, <1>12 DEF SessionStep

\* Every step keeps the invariant.
LEMMA NextKeeps == BeeInv /\ [Next]_vars => BeeInv'
<1> SUFFICES ASSUME BeeInv, [Next]_vars PROVE BeeInv'
  OBVIOUS
<1>1. CASE Serve
  BY <1>1, SessionKeeps DEF Serve
<1>2. ASSUME NEW c \in DOMAIN conns, Arrive(c) \/ HangUp(c)
      PROVE  BeeInv'
  BY <1>2, ArriveMoves, MovedKeeps
<1>3. ASSUME NEW b \in Bees, Configure(b)
      PROVE  BeeInv'
  BY <1>3, AddDiskBucketKeeps, AddRemotePatchBucketKeeps, ShiftMemBucketKeeps DEF Configure
<1>4. ASSUME NEW b \in Bees, NEW q \in Requests, PonyConnect(b, q)
      PROVE  BeeInv'
  BY <1>4, PonyConnectKeeps
<1>5. CASE UNCHANGED vars
  BY <1>5 DEF vars, BeeInv, TypeOK, AllGood, Locks, Sends, Shows
<1>6. QED
  BY <1>1, <1>2, <1>3, <1>4, <1>5 DEF Next

\* The invariant of the servers.
THEOREM BeeInvariance == Spec => []BeeInv
BY InitKeeps, NextKeeps, PTL DEF Spec

\* Every path of every operation gives the read lock back: what holds it is at a
\* step between range_map_find_and_lock and range_map_unlock, so a command that
\* waits for the write lock is not shut out for good.
THEOREM LockTheorem == Spec => []LockIsReleased
<1>1. BeeInv => LockIsReleased
  <2> SUFFICES ASSUME BeeInv, NEW b \in Bees, NEW c \in readers[b]
               PROVE  conns[c].pc \in {"get", "getbase", "local", "sync"}
    BY DEF LockIsReleased
  <2>1. c \in Nat
    BY DEF BeeInv, TypeOK
  <2>2. QED
    BY <2>1 DEF BeeInv, Locks, Busy
<1>2. QED
  BY <1>1, BeeInvariance, PTL

\* need_sync: a server forwards the writes of pony and no others, and each of them
\* to each server once, whatever fails on the way.
THEOREM ForwardTheorem == Spec => []ForwardedOnce
<1>1. BeeInv => ForwardedOnce
  BY DEF BeeInv, Sends, ForwardedOnce
<1>2. QED
  BY <1>1, BeeInvariance, PTL

\* bee_db_set, bee_db_del and bee_db_sync_to_remote: pony is told that a write has
\* succeeded only if it was stored for or sent to every other server of the range.
THEOREM AckedTheorem == Spec => []AckedReachesAll
<1>1. BeeInv => AckedReachesAll
  <2> SUFFICES ASSUME BeeInv, NEW c \in DOMAIN conns,
                      NeedSync(conns[c].req.op), conns[c].pc = "reply", conns[c].r = "OK"
               PROVE  \A i \in DOMAIN Chain[conns[c].bee] :
                        Chain[conns[c].bee][i] # conns[c].bee => Chain[conns[c].bee][i] \in conns[c].done
    BY DEF AckedReachesAll, NeedSync
  <2>1. Good(conns[c], kcdb[conns[c].bee])
    BY OneConn
  <2>2. QED
    BY <2>1 DEF Good
<1>2. QED
  BY <1>1, BeeInvariance, PTL

\* bee_db_get_local and bee_bucket_get: patch and base are read one after the other
\* while others write, and what is found is still what the server showed at some
\* moment of the look-up.
THEOREM FreshTheorem == Spec => []GetIsFresh
<1>1. BeeInv => GetIsFresh
  <2>1. BeeInv => \A c \in DOMAIN conns : Good(conns[c], kcdb[conns[c].bee])
    BY DEF BeeInv, AllGood
  <2>2. QED
    BY <2>1 DEF Good, GetIsFresh
<1>2. QED
  BY <1>1, BeeInvariance, PTL

\* bee_shift_mem_bucket and the time stamps that bee_bucket_del leaves in a patch:
\* what was overwritten or deleted never comes back, and the last write is shown
\* until the second shift after it.
THEOREM ShowsTheorem == Spec => []ShowsLastWrite
<1>1. BeeInv => ShowsLastWrite
  BY DEF BeeInv, Shows, ShowsLastWrite, View, Find
<1>2. QED
  BY <1>1, BeeInvariance, PTL
=============================================================================
