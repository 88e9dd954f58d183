----------------------------- MODULE BeeServer ------------------------------
(***************************************************************************)
(* The key-value servers of bee/: the sessions that read requests          *)
(* (bee/session.c, bee/instance.c), the operations (bee/db.c) on the       *)
(* buckets of one range, and the requests a server forwards to the others. *)
(* Requests come from pony (src/pony.c) or from another server.            *)
(*                                                                         *)
(* A callback of a session runs without a yield up to the operation, so it *)
(* is one step; its event bits were taken earlier, when the kernel         *)
(* reported the socket.  The operations take the read lock of the range    *)
(* map and are steps of their own at each database call and each forwarded *)
(* request; the commands that open or shift a bucket take the write lock.  *)
(*                                                                         *)
(* Not here: BEE_OP_SYNC and BEE_OP_MONKEY.                                *)
(***************************************************************************)
EXTENDS Naturals, Sequences, FiniteSets, SequencesExt, FiniteSetsExt, BeeBucket

CONSTANTS
  Bees,        \* servers
  Chain,       \* at each server, the nodes that serve the range of the keys
  Requests,    \* what pony asks: records of op, key, val and buf
  HeaderLen, PayloadLen,   \* of a request, in the units the network delivers
  Files,       \* what a database file may hold when it is opened
  Faults,      \* whether allocations, database calls and connections may fail
  PonyMax,     \* bound: requests of pony
  ConfigMax,   \* bound: commands that open or shift a bucket
  NoPayload,   \* recv_buf holds no name of a range map
  NoReply

\* BEE_OP_*, with the FILE_* and SCRIPT operations, which do nothing, as one and
\* every number that is no operation as another.
Ops == {"DB_SET", "DB_GET", "DB_DEL", "INTERNAL_SET", "INTERNAL_DEL", "FILE", "INVALID"}

\* What recv_buf holds after a request: the key, and a value or an empty one.
Payload == [key : Keys, val : Vals \cup {Tomb}]

Request == [op : Ops, key : Keys, val : Vals \cup {Tomb}, buf : BOOLEAN]

\* A range has a node once: range_map_add_node refuses the second.
ASSUME BeeServerAssumption ==
  /\ Chain \in [Bees -> Seq(Bees)]
  /\ \A b \in Bees : IsInjective(Chain[b])
  /\ Requests \subseteq Request
  /\ HeaderLen \in Nat \ {0} /\ PayloadLen \in Nat \ {0}
  /\ Files \subseteq Db
  /\ Faults \in BOOLEAN
  /\ PonyMax \in Nat /\ ConfigMax \in Nat
  /\ NoPayload \notin Payload

Writes == {"DB_SET", "DB_DEL", "INTERNAL_SET", "INTERNAL_DEL"}

\* need_sync
NeedSync(op) == op \in {"DB_SET", "DB_DEL"}

Codes == {"OK", "PARAM", "MEMORY", "LIBCALL", "NOTFOUND"}

\* What a return_code that was never assigned may look like.
Uninitialised == {"OK", "NOTFOUND", "JUNK"}

\* Event bits that end a session; "END" is ERROR, TIMEOUT or EXIT.
EndBits == {"FD_CLOSE", "END"}

\* Where a connection comes from: pony, or the connection whose write it forwards.
Pony == 0

VARIABLES
  conns,     \* the connections, in the order they were opened
  kcdb,      \* kcdb[b][p]: the bucket at b of the node p
  readers,   \* at each server, the sessions that hold the read lock
  configs,   \* commands so far (bounded by ConfigMax)
  last,      \* the last write of each key at each server (history)
  age        \* shifts of the server's own bucket since then (history)

vars == <<conns, kcdb, readers, configs, last, age>>

Registered(b, p) == kcdb[b][p] # Unregistered

View(b, k) == Visible(Find(kcdb[b][b], k))

\* A connection that arrives: the request, and how much of it will.
NewConn(b, q, from, total) ==
  [bee |-> b, req |-> q, from |-> from, total |-> total,
   sent |-> 0,         \* units that have arrived
   took |-> 0,         \* units that have been read
   hungup |-> FALSE,   \* the other end has closed
   pc |-> "backlog",
   want |-> {},        \* events the socket is polled for
   ev |-> {},          \* event bits of the callback
   lc |-> "header",    \* ctx->lc
   offset |-> 0,       \* ctx->offset
   heap |-> {},        \* what the session has allocated
   run |-> NoPayload,  \* the key and value in recv_buf
   i |-> 1,            \* the node the operation is at
   r |-> "OK",         \* its result
   found |-> Absent,   \* what DB_GET found
   reply |-> NoReply,  \* return_code of what was written first
   seen |-> {},        \* what DB_GET might have found (history)
   done |-> {}]        \* the nodes a write was stored for or sent to (history)

Init ==
  /\ conns = <<>>
  /\ kcdb = [b \in Bees |-> [p \in Bees |-> Unregistered]]
  /\ readers = [b \in Bees |-> {}]
  /\ configs = 0
  /\ last = [b \in Bees |-> [k \in Keys |-> Absent]]
  /\ age = [b \in Bees |-> [k \in Keys |-> 0]]

------------------------------------------------------------------------------
(* The other end of a connection. *)

\* pony opens a connection and sends a header and a payload; it may give up.
PonyConnect(b, q) ==
  /\ Cardinality({c \in DOMAIN conns : conns[c].from = Pony}) < PonyMax
  /\ conns' = Append(conns, NewConn(b, q, Pony, HeaderLen + PayloadLen))
  /\ UNCHANGED <<kcdb, readers, configs, last, age>>

\* More of a request arrives.
Arrive(c) ==
  /\ conns[c].pc # "closed" /\ ~conns[c].hungup
  /\ \E n \in (conns[c].sent + 1)..conns[c].total : conns' = [conns EXCEPT ![c].sent = n]
  /\ UNCHANGED <<kcdb, readers, configs, last, age>>

\* A server that forwards closes when it has written; pony may at any time.
HangUp(c) ==
  /\ conns[c].pc # "closed" /\ ~conns[c].hungup
  /\ conns[c].from = Pony \/ conns[c].sent = conns[c].total
  /\ conns' = [conns EXCEPT ![c].hungup = TRUE]
  /\ UNCHANGED <<kcdb, readers, configs, last, age>>

------------------------------------------------------------------------------
(* The session: bee_create_new_session and bee_session_receive_request. *)

\* Label __exx, and the failure of __read_again: the connection and all of ctx
\* are gone, but what was in recv_buf is still in the memory it was in.
Closed(x) ==
  [x EXCEPT !.pc = "closed", !.heap = {}, !.want = {}, !.sent = 0, !.took = 0, !.lc = "header",
            !.offset = 0, !.i = 1, !.found = Absent, !.seen = {}, !.done = {}]

\* bee_create_new_session
Accept(c) ==
  /\ conns[c].pc = "backlog"
  /\ \/ conns' = [conns EXCEPT ![c].pc = "poll", ![c].want = {"READ", "WRITE"}, ![c].heap = {"ctx"}]
     \/ Faults /\ conns' = [conns EXCEPT ![c] = Closed(@)]
  /\ UNCHANGED <<kcdb, readers, configs, last, age>>

Unread(x) == x.sent - x.took

\* The poll of the socket completes.
Poll(c) ==
  LET x == conns[c]
      bits == (x.want \cap {"WRITE"})
              \cup (IF Unread(x) > 0 \/ x.hungup THEN x.want \cap {"READ"} ELSE {})
              \cup (IF x.hungup THEN {"FD_CLOSE"} ELSE {})
  IN
  /\ x.pc = "poll" /\ bits # {}
  /\ conns' = [conns EXCEPT ![c].pc = "ready", ![c].ev = bits]
  /\ UNCHANGED <<kcdb, readers, configs, last, age>>

\* Mutant: once the header has been read the socket is polled without a timeout.
ExpireHeaderOnly(c) ==
  /\ conns[c].pc = "poll" /\ conns[c].lc = "header"
  /\ conns' = [conns EXCEPT ![c].pc = "ready", ![c].ev = {"END"}]
  /\ UNCHANGED <<kcdb, readers, configs, last, age>>

\* The two seconds pass, the socket fails, or the server stops.
Expire(c) ==
  /\ conns[c].pc = "poll"
  /\ conns' = [conns EXCEPT ![c].pc = "ready", ![c].ev = {"END"}]
  /\ UNCHANGED <<kcdb, readers, configs, last, age>>

\* Label __read_again, after n units.
Rearmed(x, n) ==
  {[x EXCEPT !.pc = "poll", !.want = {"READ"}, !.ev = {}, !.offset = @ + n, !.took = @ + n]}
    \cup (IF Faults THEN {Closed(x)} ELSE {})

\* What recv_buf may hold when nothing has been read into it: no name of a map,
\* or the payload of an earlier request, whose buffer it was.
Stale(b) ==
  {NoPayload} \cup {conns[d].run : d \in {d \in DOMAIN conns : conns[d].bee = b /\ conns[d].pc = "closed"}}

\* From the second PT_SET: the payload is read if the event was READ.  Without
\* it the contents of recv_buf are taken as they are, if the end of the name of
\* the map is where it should be.
PayloadPart(x) ==
  LET n == Min({Unread(x), PayloadLen - x.offset})
  IN
  IF "READ" \notin x.ev
  THEN {Closed(x)} \cup {[x EXCEPT !.pc = "exec", !.run = p] : p \in Stale(x.bee)}
  ELSE IF n = 0 /\ x.hungup THEN {Closed(x)}
  ELSE IF n < PayloadLen - x.offset THEN Rearmed(x, n)
  ELSE {[x EXCEPT !.pc = "exec", !.took = @ + n, !.run = [key |-> x.req.key, val |-> x.req.val]]}

\* From the first PT_SET.  os_read_nb returns 0 for an empty socket too.
HeaderPart(x) ==
  LET n == Min({Unread(x), HeaderLen - x.offset})
  IN
  IF n = 0 THEN {Closed(x)}
  ELSE IF n < HeaderLen - x.offset THEN Rearmed(x, n)
  ELSE PayloadPart([x EXCEPT !.lc = "payload", !.offset = 0, !.took = @ + n,
                              !.heap = @ \cup {"recv_buf"}])
         \cup (IF Faults THEN {Closed(x)} ELSE {})

\* bee_session_receive_request, up to the operation.
ReceiveRequest(c) ==
  LET x == conns[c]
  IN
  /\ x.pc = "ready"
  /\ \E y \in IF x.ev \cap EndBits # {} THEN {Closed(x)}
              ELSE IF x.lc = "header" THEN HeaderPart(x) ELSE PayloadPart(x) :
       conns' = [conns EXCEPT ![c] = y]
  /\ UNCHANGED <<kcdb, readers, configs, last, age>>

------------------------------------------------------------------------------
(* The operations. *)

\* The operation ends with result r and its session will write the reply.
Finish(c, r) == conns' = [conns EXCEPT ![c].pc = "reply", ![c].r = r]

Unlock(c) == readers' = [readers EXCEPT ![conns[c].bee] = @ \ {c}]

\* range_map_find_and_lock: the range is found if recv_buf names its map.
Served(x) == x.run # NoPayload /\ Chain[x.bee] # <<>>

\* The branches that need no bucket.
Execute(c) ==
  LET x == conns[c]
  IN
  /\ x.pc = "exec"
  /\ \/ x.req.op = "FILE" /\ Finish(c, "OK")
     \/ x.req.op = "INVALID" /\ Finish(c, "PARAM")
     \/ x.req.op \in Writes /\ ~Served(x) /\ Finish(c, "NOTFOUND")
     \/ x.req.op = "DB_GET" /\ ~x.req.buf /\ Finish(c, "PARAM")
     \/ x.req.op = "DB_GET" /\ x.req.buf /\ Faults /\ Finish(c, "MEMORY")
     \/ /\ x.req.op = "DB_GET" /\ x.req.buf /\ ~Served(x)
        /\ conns' = [conns EXCEPT ![c].pc = "reply", ![c].r = "NOTFOUND", ![c].heap = @ \cup {"reply_ptr"}]
  /\ UNCHANGED <<kcdb, readers, configs, last, age>>

\* bee_db_get, up to bee_db_get_local
StartGet(c) ==
  LET x == conns[c]
  IN
  /\ x.pc = "exec" /\ x.req.op = "DB_GET" /\ x.req.buf /\ Served(x)
  /\ conns' = [conns EXCEPT ![c].pc = "get", ![c].i = 1, ![c].heap = @ \cup {"reply_ptr"},
                            ![c].seen = {View(x.bee, x.run.key)}]
  /\ readers' = [readers EXCEPT ![x.bee] = @ \cup {c}]
  /\ UNCHANGED <<kcdb, configs, last, age>>

\* A record that was found ends bee_db_get_local, and bee_db_get if it is only
\* a time stamp.
GetFound(c, s) ==
  /\ conns' = [conns EXCEPT ![c].pc = "reply", ![c].found = Visible(s),
                            ![c].r = IF s = Tomb THEN "NOTFOUND" ELSE "OK"]
  /\ Unlock(c)

\* bee_db_get_local at one node: the bucket is read if the node is this server
\* (RM_NODE_ME), the patch before the base.
GetNode(c) ==
  LET x == conns[c]
      b == x.bee
      d == kcdb[b][b]
      k == x.run.key
  IN
  /\ x.pc = "get"
  /\ IF x.i > Len(Chain[b])
     THEN Finish(c, "NOTFOUND") /\ Unlock(c)
     ELSE IF Chain[b][x.i] # b \/ d.base = NoDb
     THEN conns' = [conns EXCEPT ![c].i = @ + 1] /\ UNCHANGED readers
     ELSE IF d.patch # NoDb /\ d.patch[k] # Absent
     THEN GetFound(c, d.patch[k])
     ELSE conns' = [conns EXCEPT ![c].pc = "getbase"] /\ UNCHANGED readers
  /\ UNCHANGED <<kcdb, configs, last, age>>

\* Mutant: the base is left out when there is a patch.
GetBaseNever(c) ==
  LET x == conns[c]
  IN
  /\ x.pc = "getbase"
  /\ IF kcdb[x.bee][x.bee].patch = NoDb /\ kcdb[x.bee][x.bee].base[x.run.key] # Absent
     THEN GetFound(c, kcdb[x.bee][x.bee].base[x.run.key])
     ELSE conns' = [conns EXCEPT ![c].pc = "get", ![c].i = @ + 1] /\ UNCHANGED readers
  /\ UNCHANGED <<kcdb, configs, last, age>>

GetBase(c) ==
  LET x == conns[c]
      s == kcdb[x.bee][x.bee].base[x.run.key]
  IN
  /\ x.pc = "getbase"
  /\ IF s # Absent THEN GetFound(c, s)
     ELSE conns' = [conns EXCEPT ![c].pc = "get", ![c].i = @ + 1] /\ UNCHANGED readers
  /\ UNCHANGED <<kcdb, configs, last, age>>

\* bee_db_set and bee_db_del, up to bee_db_set_local and bee_db_del_local.  With
\* no bucket to store in, a set has not found one and a deletion succeeds.
StartWrite(c) ==
  LET x == conns[c]
  IN
  /\ x.pc = "exec" /\ x.req.op \in Writes /\ Served(x)
  /\ conns' = [conns EXCEPT ![c].pc = "local", ![c].i = 1,
                 ![c].r = IF x.req.op \in {"DB_SET", "INTERNAL_SET"} THEN "NOTFOUND" ELSE "OK"]
  /\ readers' = [readers EXCEPT ![x.bee] = @ \cup {c}]
  /\ UNCHANGED <<kcdb, configs, last, age>>

\* A write of key k at b as seen by the look-ups that are under way.
Witnessed(cs, b, k, v) ==
  [d \in DOMAIN cs |->
    IF cs[d].bee = b /\ cs[d].pc \in {"get", "getbase"} /\ cs[d].run.key = k
    THEN [cs[d] EXCEPT !.seen = @ \cup {v}] ELSE cs[d]]

\* bee_db_set_local and bee_db_del_local at the bucket of one node.
Store(c) ==
  LET x == conns[c]
      b == x.bee
      p == Chain[b][x.i]
      k == x.run.key
      del == x.req.op \in {"DB_DEL", "INTERNAL_DEL"}
      d == IF del THEN BucketDel(kcdb[b][p], k) ELSE BucketSet(kcdb[b][p], k, x.run.val)
      v == IF del THEN Absent ELSE Visible(x.run.val)
      stored == [conns EXCEPT ![c].i = @ + 1, ![c].r = "OK", ![c].done = @ \cup {p}]
  IN
  /\ x.pc = "local" /\ x.i <= Len(Chain[b]) /\ Registered(b, p)
  /\ \/ /\ del => CanDel(kcdb[b][p], k)
        /\ kcdb' = [kcdb EXCEPT ![b][p] = d]
        /\ IF p = b
           THEN /\ last' = [last EXCEPT ![b][k] = v]
                /\ age' = [age EXCEPT ![b][k] = 0]
                /\ conns' = Witnessed(stored, b, k, Visible(Find(d, k)))
           ELSE UNCHANGED <<last, age>> /\ conns' = stored
        /\ UNCHANGED readers
     \/ /\ Faults \/ (del /\ ~CanDel(kcdb[b][p], k))
        /\ Finish(c, "LIBCALL") /\ Unlock(c)
        /\ UNCHANGED <<kcdb, last, age>>
  /\ UNCHANGED configs

\* Mutant: the error of bee_db_set_local returns without range_map_unlock.
LocalStepKeepsLock(c) ==
  LET x == conns[c]
  IN
  /\ x.pc = "local"
  /\ IF x.i <= Len(Chain[x.bee])
     THEN /\ ~Registered(x.bee, Chain[x.bee][x.i])
          /\ conns' = [conns EXCEPT ![c].i = @ + 1] /\ UNCHANGED readers
     ELSE IF x.r # "OK" THEN Finish(c, x.r) /\ UNCHANGED readers
     ELSE IF ~NeedSync(x.req.op) THEN Finish(c, x.r) /\ Unlock(c)
     ELSE conns' = [conns EXCEPT ![c].pc = "sync", ![c].i = 1] /\ UNCHANGED readers
  /\ UNCHANGED <<kcdb, configs, last, age>>

\* Mutant: a write that came from another server is forwarded as well.
LocalStepAlwaysSyncs(c) ==
  LET x == conns[c]
  IN
  /\ x.pc = "local"
  /\ IF x.i <= Len(Chain[x.bee])
     THEN /\ ~Registered(x.bee, Chain[x.bee][x.i])
          /\ conns' = [conns EXCEPT ![c].i = @ + 1] /\ UNCHANGED readers
     ELSE IF x.r # "OK" THEN Finish(c, x.r) /\ Unlock(c)
     ELSE conns' = [conns EXCEPT ![c].pc = "sync", ![c].i = 1] /\ UNCHANGED readers
  /\ UNCHANGED <<kcdb, configs, last, age>>

\* A node without a bucket is passed over; after the last one the write is
\* forwarded if it came from pony.
LocalStep(c) ==
  LET x == conns[c]
  IN
  /\ x.pc = "local"
  /\ IF x.i <= Len(Chain[x.bee])
     THEN /\ ~Registered(x.bee, Chain[x.bee][x.i])
          /\ conns' = [conns EXCEPT ![c].i = @ + 1] /\ UNCHANGED readers
     ELSE IF x.r # "OK" \/ ~NeedSync(x.req.op) THEN Finish(c, x.r) /\ Unlock(c)
     ELSE conns' = [conns EXCEPT ![c].pc = "sync", ![c].i = 1] /\ UNCHANGED readers
  /\ UNCHANGED <<kcdb, configs, last, age>>

\* The request bee_db_forward_to_node sends: recv_buf under another opcode.
Forwarded(x) ==
  [x.req EXCEPT !.op = IF x.req.op = "DB_SET" THEN "INTERNAL_SET" ELSE "INTERNAL_DEL",
                !.key = x.run.key, !.val = x.run.val]

\* The other servers a write is sent to: their node has no bucket here.
Remote(b, p) == p # b /\ ~Registered(b, p)

\* Mutant: the error of one forwarded request is overwritten by the next.
ForwardGoesOn(c) ==
  LET x == conns[c]
      p == Chain[x.bee][x.i]
      full == HeaderLen + PayloadLen
  IN
  /\ x.pc = "sync" /\ x.i <= Len(Chain[x.bee]) /\ Remote(x.bee, p)
  /\ \/ /\ conns' = Append([conns EXCEPT ![c].i = @ + 1, ![c].done = @ \cup {p}],
                           NewConn(p, Forwarded(x), c, full))
        /\ UNCHANGED readers
     \/ /\ Faults
        /\ conns' = [conns EXCEPT ![c].i = @ + 1]
        /\ UNCHANGED readers
  /\ UNCHANGED <<kcdb, configs, last, age>>

\* bee_db_forward_to_node: a blocking socket, ten seconds, closed when all has
\* been written.  It fails before it connects or after a part.
Forward(c) ==
  LET x == conns[c]
      p == Chain[x.bee][x.i]
      full == HeaderLen + PayloadLen
  IN
  /\ x.pc = "sync" /\ x.i <= Len(Chain[x.bee]) /\ Remote(x.bee, p)
  /\ \/ /\ conns' = Append([conns EXCEPT ![c].i = @ + 1, ![c].done = @ \cup {p}],
                           NewConn(p, Forwarded(x), c, full))
        /\ UNCHANGED readers
     \/ /\ Faults
        /\ Finish(c, "LIBCALL") /\ Unlock(c)
     \/ /\ Faults
        /\ \E n \in 1..(full - 1) :
             conns' = Append([conns EXCEPT ![c].pc = "reply", ![c].r = "LIBCALL"],
                             NewConn(p, Forwarded(x), c, n))
        /\ Unlock(c)
  /\ UNCHANGED <<kcdb, configs, last, age>>

\* bee_db_sync_to_remote passes over this server and the nodes with a bucket.
SyncStep(c) ==
  LET x == conns[c]
  IN
  /\ x.pc = "sync"
  /\ IF x.i <= Len(Chain[x.bee])
     THEN /\ ~Remote(x.bee, Chain[x.bee][x.i])
          /\ conns' = [conns EXCEPT ![c].i = @ + 1] /\ UNCHANGED readers
     ELSE Finish(c, "OK") /\ Unlock(c)
  /\ UNCHANGED <<kcdb, configs, last, age>>

\* The end of bee_session_receive_request.  bee_db_get leaves reply_ptr set when
\* it fails after allocating it, with nothing assigned to what it points to.
Reply(c) ==
  LET x == conns[c]
  IN
  /\ x.pc = "reply"
  /\ \E code \in IF "reply_ptr" \in x.heap /\ x.r # "OK" THEN Uninitialised ELSE {x.r} :
       conns' = [conns EXCEPT ![c] = [Closed(x) EXCEPT !.reply = code]]
  /\ UNCHANGED <<kcdb, readers, configs, last, age>>

------------------------------------------------------------------------------
(* The commands that change a bucket, under the write lock. *)

CanConfigure(b) == configs < ConfigMax /\ readers[b] = {}

\* The server's own bucket changes to d; what it holds then is what counts as
\* the last write, and under a patch as shifted once.
Reopened(b, d) ==
  /\ kcdb' = [kcdb EXCEPT ![b][b] = d]
  /\ last' = [last EXCEPT ![b] = [k \in Keys |-> Visible(Newest(d, k))]]
  /\ age' = [age EXCEPT ![b] = [k \in Keys |->
                 IF d.patch # NoDb /\ d.patch[k] = Absent THEN 1 ELSE 0]]

\* OpenDiskBucketFromFolder, AddDiskBucket
AddDiskBucket(b, idx, f) ==
  /\ CanConfigure(b) /\ CanOpen(kcdb[b][b], idx)
  /\ Reopened(b, BucketOpen(kcdb[b][b], idx, f))
  /\ configs' = configs + 1
  /\ UNCHANGED <<conns, readers>>

\* AddRemotePatchBucket: always the patch.
AddRemotePatchBucket(b, p, f) ==
  /\ CanConfigure(b) /\ p # b /\ CanOpen(kcdb[b][p], "patch")
  /\ kcdb' = [kcdb EXCEPT ![b][p] = BucketOpen(@, "patch", f)]
  /\ configs' = configs + 1
  /\ UNCHANGED <<conns, readers, last, age>>

\* ShiftMemBucket
ShiftMemBucket(b) ==
  /\ CanConfigure(b)
  /\ kcdb' = [kcdb EXCEPT ![b][b] = BucketShift(@)]
  /\ age' = [age EXCEPT ![b] = [k \in Keys |-> @[k] + 1]]
  /\ configs' = configs + 1
  /\ UNCHANGED <<conns, readers, last>>

------------------------------------------------------------------------------
SessionStep(c) ==
  \/ Accept(c) \/ Poll(c) \/ Expire(c) \/ ReceiveRequest(c)
  \/ Execute(c) \/ StartGet(c) \/ GetNode(c) \/ GetBase(c)
  \/ StartWrite(c) \/ Store(c) \/ LocalStep(c) \/ Forward(c) \/ SyncStep(c)
  \/ Reply(c)

Configure(b) ==
  \/ \E idx \in {"base", "patch"}, f \in Files : AddDiskBucket(b, idx, f)
  \/ \E p \in Bees, f \in Files : AddRemotePatchBucket(b, p, f)
  \/ ShiftMemBucket(b)

Serve == \E c \in DOMAIN conns : SessionStep(c)

Next ==
  \/ Serve
  \/ \E c \in DOMAIN conns : Arrive(c) \/ HangUp(c)
  \/ \E b \in Bees : Configure(b)
  \/ \E b \in Bees, q \in Requests : PonyConnect(b, q)

\* The workers run the sessions that can run, and their timers.
Spec == Init /\ [][Next]_vars /\ WF_vars(Serve)

------------------------------------------------------------------------------
(* Properties *)

\* Shifting a bucket never brings back what was overwritten or deleted: a server
\* shows the last write of a key or nothing, and the last write until the second
\* shift after it (bee_shift_mem_bucket with the tombstones of bee_bucket_del).
ShowsLastWrite ==
  \A b \in Bees, k \in Keys :
    kcdb[b][b].base # NoDb =>
      IF age[b][k] <= 1 THEN View(b, k) = last[b][k] ELSE View(b, k) \in {last[b][k], Absent}

\* What DB_GET finds in patch and base, read one after the other while other
\* sessions write, is what the server showed at some moment of the look-up
\* (bee_db_get_local, bee_bucket_get).
GetIsFresh ==
  \A c \in DOMAIN conns :
    /\ conns[c].pc = "reply" /\ conns[c].seen # {}
    /\ \E i \in DOMAIN Chain[conns[c].bee] : Chain[conns[c].bee][i] = conns[c].bee
    => conns[c].found \in conns[c].seen

\* A write that pony is told has succeeded was stored for or sent to every other
\* server of the range: the first failure of several is not lost
\* (bee_db_set, bee_db_del, bee_db_sync_to_remote).
AckedReachesAll ==
  \A c \in DOMAIN conns :
    LET x == conns[c] IN
    x.req.op \in {"DB_SET", "DB_DEL"} /\ x.pc = "reply" /\ x.r = "OK" =>
      \A i \in DOMAIN Chain[x.bee] : Chain[x.bee][i] # x.bee => Chain[x.bee][i] \in x.done

\* A write is forwarded by the server that pony asked and by no other, to each
\* server once (need_sync).
ForwardedOnce ==
  \A d \in DOMAIN conns : conns[d].from # Pony =>
    /\ conns[conns[d].from].from = Pony
    /\ \A e \in DOMAIN conns :
         conns[e].from = conns[d].from /\ conns[e].bee = conns[d].bee => e = d

\* The read lock is held by operations under way only: no path of an operation
\* returns with it, which would shut the commands out for good.
LockIsReleased ==
  \A b \in Bees : \A c \in readers[b] : conns[c].pc \in {"get", "getbase", "local", "sync"}

\* Every connection is closed in the end, whatever the other end does: the
\* timeout is armed again with every incomplete read.
AllClosed == <>[](\A c \in DOMAIN conns : conns[c].pc = "closed")
=============================================================================
