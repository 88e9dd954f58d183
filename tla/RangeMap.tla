----------------------------- MODULE RangeMap ------------------------------
(***************************************************************************)
(* The range maps of src/range-map.c.  A map says which servers are        *)
(* responsible for the keys whose hash starts with a prefix: its nodes are *)
(* pairs of a server's address and a prefix.  A look-up returns a chain of *)
(* nodes, threaded through the nodes themselves: first the servers of the  *)
(* longest prefix, then those of the next shorter one.  The chains are     *)
(* rebuilt when a map is flushed or a node is deleted.                     *)
(*                                                                         *)
(* Nodes also point to the bucket of bee (bee/bucket.c) with their data.   *)
(* Here a bucket is its key in esq_bucket_rb and which of its two database *)
(* handles are open.  The read-write lock is explicit: a reader that has   *)
(* found a node keeps it locked until range_map_unlock.                    *)
(***************************************************************************)
EXTENDS Integers, Sequences, FiniteSets, SequencesExt, FiniteSetsExt

CONSTANTS
  Maps,      \* names of maps
  MapMax,    \* RANGE_MAP_MAX
  Hashes,    \* prefixes of nodes: sequences of bytes
  Keys,      \* hashes of keys: sequences of bytes, no shorter than a prefix
  Addrs,     \* addresses (IP and port) of servers
  MyAddrs,   \* those that are this server's once it has its port
  Buckets,   \* keys of buckets: map, text of the prefix, address
  Flags,     \* flags AppendRangeMap is called with
  Readers,   \* threads that look keys up
  NodeMax,   \* bound: nodes of one map
  Local,     \* the address (ip 0, port 0) of local buckets
  NoNode, NoBucket

ASSUME RangeMapAssumption ==
  /\ MapMax \in Nat /\ NodeMax \in Nat
  /\ MyAddrs \subseteq Addrs /\ Local \notin Addrs
  /\ IsFiniteSet(Addrs) /\ IsFiniteSet(Hashes)
  /\ \A h \in Hashes : h \in Seq(0..255)
  /\ \A h \in Hashes, k \in Keys : Len(h) <= Len(k)
  /\ \A k \in Keys : k \in Seq(0..255)
  /\ Flags \subseteq SUBSET {"main", "delete"}
  /\ NoBucket \notin Buckets

\* A node is known by its address and its prefix: range_map_add_node refuses a
\* second one.
Node == [addr : Addrs, hash : Hashes]

ASSUME NoNodeAssumption == NoNode \notin Node

VARIABLES
  made,      \* maps that exist
  list,      \* all_list of each map
  flags,     \* RM_NODE_* of each node of each map
  bucket,    \* the bucket each node points to
  rb,        \* the nodes in rb_by_length: one of each prefix
  next,      \* the chains
  longest,   \* of each map
  dbs,       \* the open kcdb[] of each bucket; {} when it is not registered
  port,      \* whether bee_server_instance has a port, and nodes know of it
  walk,      \* the map and node each reader is at, while it has the read lock
  shown      \* all_list when the chains of the map were last built (not a
             \* variable of the program)

vars == <<made, list, flags, bucket, rb, next, longest, dbs, port, walk, shown>>

Init ==
  /\ made = {}
  /\ list = [m \in Maps |-> <<>>]
  /\ flags = [m \in Maps |-> [n \in Node |-> {}]]
  /\ bucket = [m \in Maps |-> [n \in Node |-> NoBucket]]
  /\ rb = [m \in Maps |-> {}]
  /\ next = [m \in Maps |-> [n \in Node |-> NoNode]]
  /\ longest = [m \in Maps |-> 0]
  /\ dbs = [b \in Buckets |-> {}]
  /\ port = "unset"
  /\ walk = [t \in Readers |-> <<>>]
  /\ shown = [m \in Maps |-> <<>>]

----------------------------------------------------------------------------
(* range_map_clean, range_map_load                                         *)

\* Where k steps along the pointers nx lead to from n.
Steps(nx, n) ==
  LET at[k \in 0..Cardinality(Node)] ==
        IF k = 0 THEN n ELSE IF at[k - 1] = NoNode THEN NoNode ELSE nx[at[k - 1]]
  IN  at

\* The nodes met from n on.
Follow(nx, n) ==
  LET at == Steps(nx, n)
      met == {k \in 1..(Cardinality(Node) + 1) : at[k - 1] # NoNode}
  IN  [k \in 1..Max({0} \cup met) |-> at[k - 1]]

\* RB_FIND in rb_by_length[Len(h)].
InRb(heads, h) ==
  IF \E n \in heads : n.hash = h THEN CHOOSE n \in heads : n.hash = h ELSE NoNode

\* range_map_load_node: the first node of a prefix enters the tree, the others
\* are appended to its chain.
LoadNode(s, p) ==
  LET first == InRb(s.rb, p.hash) IN
  IF first = NoNode THEN [s EXCEPT !.rb = @ \cup {p}]
  ELSE [s EXCEPT !.next[Last(Follow(s.next, first))] = p]

\* range_map_link_short_match: the longest prefix of h, of at most l bytes, in
\* the tree.
ShortMatch(heads, h, l) ==
  LET found == {k \in 0..l : InRb(heads, SubSeq(h, 1, k)) # NoNode}
  IN  IF found = {} THEN NoNode ELSE InRb(heads, SubSeq(h, 1, Max(found)))

\* range_map_build_cross_depth_reference, for the nodes of one length: the end
\* of each chain is linked to the chain of the next shorter prefix.
\* Mutant: the start of the chain is linked, and the rest of it is lost.
LinkLengthFirst(s, l) ==
  LET firsts == {n \in s.rb : Len(n.hash) = l} IN
  [s EXCEPT !.next = [n \in Node |-> IF n \in firsts THEN ShortMatch(s.rb, n.hash, l - 1) ELSE @[n]]]
LinkLength(s, l) ==
  LET ends == {Last(Follow(s.next, n)) : n \in {x \in s.rb : Len(x.hash) = l}} IN
  [s EXCEPT !.next = [n \in Node |-> IF n \in ends THEN ShortMatch(s.rb, n.hash, l - 1) ELSE @[n]]]

LongestOf(heads) == Max({0} \cup {Len(n.hash) : n \in heads})

\* Tree and chains of the nodes in l: the nodes enter one by one, then the chains
\* are linked, those of the longest prefixes first.
LoadNodes(l) ==
  LET load[i \in 0..Len(l)] ==
        IF i = 0 THEN [rb |-> {}, next |-> [n \in Node |-> NoNode]]
        ELSE LoadNode(load[i - 1], l[i])
  IN  load[Len(l)]

LinkLengths(s, depth) ==
  LET link[k \in 0..(depth + 1)] ==
        IF k = 0 THEN s ELSE LinkLength(link[k - 1], depth + 1 - k)
  IN  link[depth + 1]

Loaded(l) == LinkLengths(LoadNodes(l), LongestOf(Range(l)))

\* The walk of range_map_clean over the list: what is left of it.
Undeleted(l, f) ==
  LET keep[i \in 0..Len(l)] ==
        IF i = 0 THEN <<>>
        ELSE IF "delete" \in f[l[i]] THEN keep[i - 1] ELSE Append(keep[i - 1], l[i])
  IN  keep[Len(l)]

\* range_map_clean and range_map_load of map m, whose nodes have flags f.
Rebuild(m, f) ==
  LET kept == Undeleted(list[m], f)
      new  == Loaded(kept)
      gone == Range(list[m]) \ Range(kept) IN
  /\ list' = [list EXCEPT ![m] = kept]
  /\ shown' = [shown EXCEPT ![m] = kept]
  /\ flags' = [flags EXCEPT ![m] = [n \in Node |-> IF n \in gone THEN {} ELSE f[n]]]
  /\ bucket' = [bucket EXCEPT ![m] = [n \in Node |-> IF n \in gone THEN NoBucket ELSE @[n]]]
  /\ rb' = [rb EXCEPT ![m] = new.rb]
  /\ next' = [next EXCEPT ![m] = new.next]
  /\ longest' = [longest EXCEPT ![m] = LongestOf(new.rb)]
  /\ UNCHANGED <<made, dbs, port, walk>>

----------------------------------------------------------------------------
(* Operations of the control interface.  They hold the write lock.         *)

\* RM_WLOCK: no reader is inside.
\* Mutant: the lock is not taken.
NoLock == TRUE
WLock == \A t \in Readers : walk[t] = <<>>

\* range_map_new
New(m) ==
  /\ WLock
  /\ m \notin made
  /\ Cardinality(made) < MapMax
  /\ made' = made \cup {m}
  /\ UNCHANGED <<list, flags, bucket, rb, next, longest, dbs, port, walk, shown>>

\* esq_bee_find_bucket
FindBucket(m, text, addr) ==
  LET b == [map |-> m, text |-> text, addr |-> addr]
  IN  IF b \in Buckets /\ dbs[b] # {} THEN b ELSE NoBucket

\* os_ip_address_is_me && bee_server_is_my_port
IsMe(addr) == port # "unset" /\ addr \in MyAddrs

\* The hexadecimal text a prefix is given in; "x" ends it.
Digit(d) == IF d < 10 THEN 48 + d ELSE 87 + d
Text(h) == [i \in 1..(2 * Len(h)) |->
              LET byte == h[(i + 1) \div 2]
              IN  Digit(IF i % 2 = 1 THEN byte \div 16 ELSE byte % 16)]
EndMark == 120

\* range_map_add_node.  The node is not in the tree before the next flush.  The
\* bucket is looked up by the text of the prefix, with its end mark.
AddNode(m, n, f) ==
  LET mine == IsMe(n.addr) IN
  /\ WLock
  /\ m \in made
  /\ n \notin Range(list[m]) /\ Len(list[m]) < NodeMax
  /\ list' = [list EXCEPT ![m] = <<n>> \o @]
  /\ flags' = [flags EXCEPT ![m][n] = f \cup (IF mine THEN {"me"} ELSE {})]
  /\ bucket' = [bucket EXCEPT ![m][n] =
                  FindBucket(m, Append(Text(n.hash), EndMark), IF mine THEN Local ELSE n.addr)]
  /\ UNCHANGED <<made, rb, next, longest, dbs, port, walk, shown>>

\* range_map_del_node
DelNode(m, n) ==
  /\ WLock
  /\ m \in made
  /\ n \in Range(list[m])
  /\ Rebuild(m, [flags[m] EXCEPT ![n] = @ \cup {"delete"}])

\* range_map_del_all_node
DelAllNode(m) ==
  /\ WLock
  /\ m \in made
  /\ Rebuild(m, [n \in Node |-> flags[m][n] \cup {"delete"}])

\* range_map_flush
Flush(m) ==
  /\ WLock
  /\ m \in made
  /\ Rebuild(m, flags[m])

----------------------------------------------------------------------------
(* Buckets and the port of the server                                      *)

\* range_map_notify_bucket_online
Serves(b, m, n) ==
  /\ m = b.map /\ m \in made /\ n \in Range(list[m])
  /\ n.hash = b.text
  /\ IF b.addr = Local THEN "me" \in flags[m][n] ELSE "me" \notin flags[m][n] /\ n.addr = b.addr

NotifyOnline(b) ==
  bucket' = [m \in Maps |-> [n \in Node |-> IF Serves(b, m, n) THEN b ELSE bucket[m][n]]]

\* bee_open_disk_bucket: only a bucket that was not registered is announced.
OpenDiskBucket(b, idx) ==
  /\ WLock
  /\ idx \notin dbs[b]
  /\ dbs' = [dbs EXCEPT ![b] = @ \cup {idx}]
  /\ IF dbs[b] = {} THEN NotifyOnline(b) ELSE UNCHANGED bucket
  /\ UNCHANGED <<made, list, flags, rb, next, longest, port, walk, shown>>

\* bee_shift_mem_bucket: a new database in memory becomes the base of the
\* bucket or its patch; the old patch becomes the base.
ShiftMemBucket(b) ==
  /\ WLock
  /\ b.addr = Local
  /\ dbs' = [dbs EXCEPT ![b] = IF 0 \in @ THEN {0, 1} ELSE @ \cup {0}]
  /\ IF 0 \in dbs[b] THEN UNCHANGED bucket ELSE NotifyOnline(b)
  /\ UNCHANGED <<made, list, flags, rb, next, longest, port, walk, shown>>

\* bee_server_start_instance: the port is set without the lock, then all nodes
\* are told.
SetPort ==
  /\ port = "unset"
  /\ port' = "set"
  /\ UNCHANGED <<made, list, flags, bucket, rb, next, longest, dbs, walk, shown>>

\* esq_range_map_flush_range_node_bucket_connection.  The bucket is looked up by
\* the bytes of the prefix.
\* Mutant: the flag is not set.
Unflagged(m, n) == flags[m][n]
Reflagged(m, n) == IF IsMe(n.addr) THEN flags[m][n] \cup {"me"} ELSE flags[m][n] \ {"me"}

SelfPortSetup ==
  /\ WLock
  /\ port = "set"
  /\ port' = "known"
  /\ flags' = [m \in Maps |-> [n \in Node |->
                 IF n \in Range(list[m]) THEN Reflagged(m, n) ELSE flags[m][n]]]
  /\ bucket' = [m \in Maps |-> [n \in Node |->
                 IF n \in Range(list[m])
                 THEN FindBucket(m, n.hash, IF IsMe(n.addr) THEN Local ELSE n.addr)
                 ELSE bucket[m][n]]]
  /\ UNCHANGED <<made, list, rb, next, longest, dbs, walk, shown>>

----------------------------------------------------------------------------
(* Readers                                                                 *)

\* The node range_map_find_and_lock finds for a key.
Found(m, key) == IF m \in made THEN ShortMatch(rb[m], key, longest[m]) ELSE NoNode

\* range_map_find_and_lock; when nothing is found the lock is released at once.
Find(t, m, key) ==
  /\ walk[t] = <<>>
  /\ Found(m, key) # NoNode
  /\ walk' = [walk EXCEPT ![t] = <<m, Found(m, key)>>]
  /\ UNCHANGED <<made, list, flags, bucket, rb, next, longest, dbs, port, shown>>

\* range_map_node_get_next
GetNext(t) ==
  /\ walk[t] # <<>>
  /\ next[walk[t][1]][walk[t][2]] # NoNode
  /\ walk' = [walk EXCEPT ![t][2] = next[walk[t][1]][@]]
  /\ UNCHANGED <<made, list, flags, bucket, rb, next, longest, dbs, port, shown>>

\* range_map_unlock
Unlock(t) ==
  /\ walk[t] # <<>>
  /\ walk' = [walk EXCEPT ![t] = <<>>]
  /\ UNCHANGED <<made, list, flags, bucket, rb, next, longest, dbs, port, shown>>

\* range_map_get_main_address: its result and the address it has stored.
\* Mutant: the walk goes on to the last main node.
GetLastMainAddress(m, key) ==
  LET met == Follow(next[m], Found(m, key))
      mains == {i \in 1..Len(met) : "main" \in flags[m][met[i]]} IN
  IF Found(m, key) = NoNode THEN [r |-> 0, address |-> {}]
  ELSE IF mains = {} THEN [r |-> -1, address |-> {}]
  ELSE [r |-> 0, address |-> {met[Max(mains)].addr}]
GetMainAddress(m, key) ==
  LET met == Follow(next[m], Found(m, key))
      mains == {i \in 1..Len(met) : "main" \in flags[m][met[i]]} IN
  IF Found(m, key) = NoNode THEN [r |-> 0, address |-> {}]
  ELSE IF mains = {} THEN [r |-> -1, address |-> {}]
  ELSE [r |-> 0, address |-> {met[Min(mains)].addr}]

Next ==
  \/ \E m \in Maps : New(m) \/ DelAllNode(m) \/ Flush(m)
  \/ \E m \in Maps, n \in Node : DelNode(m, n) \/ \E f \in Flags : AddNode(m, n, f)
  \/ \E b \in Buckets : ShiftMemBucket(b) \/ \E idx \in {0, 1} : OpenDiskBucket(b, idx)
  \/ SetPort \/ SelfPortSetup
  \/ \E t \in Readers :
       \/ GetNext(t) \/ Unlock(t)
       \/ \E m \in Maps, key \in Keys : Find(t, m, key)

Spec == Init /\ [][Next]_vars

----------------------------------------------------------------------------
(* Properties                                                              *)

\* The nodes responsible for a key, by definition: all nodes whose prefix the
\* key has.
Responsible(m, key) == {n \in Range(shown[m]) : IsPrefix(n.hash, key)}

\* They are asked in this order: longer prefixes first, and the nodes of one
\* prefix as they are in the list.
Precedes(l, x, y) ==
  \/ Len(x.hash) > Len(y.hash)
  \/ Len(x.hash) = Len(y.hash) /\ \E i, j \in 1..Len(l) : i < j /\ l[i] = x /\ l[j] = y

\* What range_map_find_and_lock and range_map_node_get_next deliver for any key
\* are the nodes responsible for it when the map was last flushed, in order: none
\* is missing, none is met twice, and the chains shared by several prefixes end.
LookupIsLongestPrefix ==
  \A m \in made, key \in Keys :
    LET met == Follow(next[m], Found(m, key)) IN
    /\ Range(met) = Responsible(m, key)
    /\ \A i, j \in 1..Len(met) : i < j => met[i] # met[j] /\ Precedes(shown[m], met[i], met[j])

\* A reader, however long it takes, is at a node that was not freed, and so is
\* all that it can still reach.
ReaderOnLivingNodes ==
  \A t \in Readers : walk[t] # <<>> =>
    Range(Follow(next[walk[t][1]], walk[t][2])) \subseteq Range(list[walk[t][1]])

\* Once the port of the server is known, RM_NODE_ME is set for the nodes with
\* its address and no others, whether they were added before, while or after
\* the port was set.
MeMeansMine ==
  port = "known" => \A m \in Maps : \A n \in Range(list[m]) :
    "me" \in flags[m][n] <=> n.addr \in MyAddrs

\* The bucket of a node is registered and of its map, and it is a local one if
\* and only if the node is this server.
LinkedBucketFits ==
  \A m \in Maps : \A n \in Range(list[m]) :
    LET b == bucket[m][n] IN
    b # NoBucket => /\ dbs[b] # {} /\ b.map = m
                    /\ (b.addr = Local) <=> ("me" \in flags[m][n])

\* Nodes, buckets and the port agree, in whatever order they came.
LinksFit == MeMeansMine /\ LinkedBucketFits

\* range_map_get_main_address stores the address of a main node whose prefix is
\* the longest among the main nodes responsible for the key.  It stores nothing
\* and still reports success, which pony.c takes for an address, for keys no node is
\* responsible for, and for those only.
MainAddressIsNearest ==
  \A m \in Maps, key \in Keys :
    LET got == GetMainAddress(m, key)
        fit == IF m \in made THEN Responsible(m, key) ELSE {}
        mains == {n \in fit : "main" \in flags[m][n]}
    IN  /\ got.r = 0 /\ got.address = {} <=> fit = {}
        /\ got.r = -1 <=> fit # {} /\ mains = {}
        /\ got.address # {} => \E n \in mains :
             /\ got.address = {n.addr}
             /\ \A k \in mains : Len(k.hash) <= Len(n.hash)
=============================================================================
