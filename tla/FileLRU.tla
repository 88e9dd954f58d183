------------------------------ MODULE FileLRU ------------------------------
(***************************************************************************)
(* The file cache of utils/file-lru.c: worker threads borrow the content   *)
(* of a file and give it back later; entries are evicted from the tail of  *)
(* a list when the configured size is exceeded, and an administrator may   *)
(* purge the whole cache at any time.                                      *)
(*                                                                         *)
(* An entry that is evicted while it is on loan leaves the tree and the    *)
(* list but stays allocated on the "purged" list until its last loan is    *)
(* returned.  All list and counter updates happen under file_lru_lock, so  *)
(* each critical section is one action; the disk is read without the lock, *)
(* which is why a miss takes three steps.                                  *)
(***************************************************************************)
EXTENDS Integers, Sequences

CONSTANTS
  Threads,   \* threads that call the cache (workers, host control)
  Names,     \* file names
  Size,      \* size in bytes of each file on disk
  Limits,    \* values FileLRUSetup gives to lru_size_max; <= 0 is "no limit"
  Objs,      \* addresses malloc can return for a file_lru_t
  MaxLoans,  \* bound: loans outstanding at the same time on one entry
  MaxTotal,  \* bound: lru_size_total stays below it (far below INT_MAX)
  NoFile,    \* no file name
  NoObj      \* the NULL pointer

ASSUME ConstantsAssumption ==
  /\ Size \in [Names -> Nat \ {0}]
  /\ Limits \subseteq Int /\ Limits # {}
  /\ MaxLoans \in Nat /\ MaxTotal \in Nat
  /\ NoFile \notin Names /\ NoObj \notin Objs

VARIABLES
  state,     \* where the file_lru_t at address o is: freed, being loaded, in the
             \* tree and the list, or on the purged list (FILE_LRU_FLAGS_PURGED)
  fname,     \* its file_name
  cnt,       \* its borrow_cnt
  lru,       \* file_lru_head .. file_lru_tail; the same entries are in file_lru_rb
  total,     \* lru_size_total
  sizeMax,   \* lru_size_max
  bloom,     \* names lru_bloom_filter lets through; {} without a filter
  pc,        \* where each thread is in file_lru_borrow / file_lru_purge_all
  want,      \* the name a thread is loading
  mine,      \* the entry a thread has loaded and not inserted yet
  loans      \* how many callers hold the pointer to o (not a variable of the
             \* program: it is what the callers know)

vars == <<state, fname, cnt, lru, total, sizeMax, bloom, pc, want, mine, loans>>

EntryState == {"unused", "private", "cached", "purged"}
ThreadState == {"idle", "load", "insert", "purge"}

Init ==
  /\ state = [o \in Objs |-> "unused"]
  /\ fname = [o \in Objs |-> NoFile]
  /\ cnt = [o \in Objs |-> 0]
  /\ lru = <<>>
  /\ total = 0
  /\ sizeMax \in Limits
  /\ bloom = {}
  /\ pc = [t \in Threads |-> "idle"]
  /\ want = [t \in Threads |-> NoFile]
  /\ mine = [t \in Threads |-> NoObj]
  /\ loans = [o \in Objs |-> 0]

----------------------------------------------------------------------------
Cached(n) == {o \in Objs : state[o] = "cached" /\ fname[o] = n}

SizeOf(o) == Size[fname[o]]

\* The sums of the first k numbers of s, for each k.
Sums(s) ==
  LET sum[k \in 0..Len(s)] == IF k = 0 THEN 0 ELSE sum[k - 1] + s[k]
  IN  sum

\* The bytes held by the first k entries of the list, for each k, and by those
\* behind them.
Bytes == Sums([i \in 1..Len(lru) |-> SizeOf(lru[i])])
BytesBehind(k) == Bytes[Len(lru)] - Bytes[k]

\* DOUBLE_LL_LEFT then DOUBLE_LL_JOIN_HEAD of the entry at position i.
\* Mutant: the entry joins the head without leaving its place.
JoinHeadAgain(s, i) == <<s[i]>> \o s
MoveToHead(s, i) == <<s[i]>> \o SubSeq(s, 1, i - 1) \o SubSeq(s, i + 1, Len(s))

\* What becomes of an entry that leaves the tree and the list: it is freed,
\* or parked on the purged list while somebody still uses it.
\* Mutant: it is freed although somebody uses it.
DetachedFreed(o) == "unused"
Detached(o) == IF cnt[o] > 0 THEN "purged" ELSE "unused"

\* One more caller holds o, an entry of the tree.
\* Mutant: borrow_cnt is not incremented.
LendUncounted(o) ==
  /\ cnt' = cnt
  /\ loans' = [loans EXCEPT ![o] = @ + 1]
Lend(o) ==
  /\ cnt' = [cnt EXCEPT ![o] = @ + 1]
  /\ loans' = [loans EXCEPT ![o] = @ + 1]

----------------------------------------------------------------------------
\* file_lru_borrow, first critical section, the name is in the tree.  (The
\* entry keeps its place in the list.)
BorrowHit(t, n) ==
  /\ pc[t] = "idle"
  /\ n \in bloom
  /\ \E o \in Cached(n) :
       /\ loans[o] < MaxLoans
       /\ Lend(o)
  /\ UNCHANGED <<state, fname, lru, total, sizeMax, bloom, pc, want, mine>>

\* file_lru_borrow, first critical section, the name is not in the tree: the
\* lock is released and the file is going to be read.  A name the filter
\* blocks returns NULL and changes nothing.
BorrowMiss(t, n) ==
  /\ pc[t] = "idle"
  /\ n \in bloom
  /\ Cached(n) = {}
  /\ pc' = [pc EXCEPT ![t] = "load"]
  /\ want' = [want EXCEPT ![t] = n]
  /\ UNCHANGED <<state, fname, cnt, lru, total, sizeMax, bloom, mine, loans>>

\* file_lru_load_from_disk: malloc, fill in the name and read the data.
Load(t) ==
  /\ pc[t] = "load"
  /\ sizeMax > 0 => Size[want[t]] <= sizeMax
  /\ \E o \in Objs :
       /\ state[o] = "unused"
       /\ state' = [state EXCEPT ![o] = "private"]
       /\ fname' = [fname EXCEPT ![o] = want[t]]
       /\ cnt' = [cnt EXCEPT ![o] = 0]
       /\ mine' = [mine EXCEPT ![t] = o]
  /\ pc' = [pc EXCEPT ![t] = "insert"]
  /\ UNCHANGED <<lru, total, sizeMax, bloom, want, loans>>

\* Any of the error returns of file_lru_load_from_disk (no such file, too
\* big, out of memory, short read): file_lru_borrow returns NULL.
LoadFail(t) ==
  /\ pc[t] = "load"
  /\ pc' = [pc EXCEPT ![t] = "idle"]
  /\ want' = [want EXCEPT ![t] = NoFile]
  /\ UNCHANGED <<state, fname, cnt, lru, total, sizeMax, bloom, mine, loans>>

\* file_lru_borrow, second critical section: somebody else has inserted the
\* same name in the meantime, so its entry is lent and ours is freed.
InsertRaced(t) ==
  /\ pc[t] = "insert"
  /\ \E i \in 1..Len(lru) :
       /\ fname[lru[i]] = want[t]
       /\ loans[lru[i]] < MaxLoans
       /\ Lend(lru[i])
       /\ lru' = MoveToHead(lru, i)
  /\ state' = [state EXCEPT ![mine[t]] = "unused"]
  /\ pc' = [pc EXCEPT ![t] = "idle"]
  /\ want' = [want EXCEPT ![t] = NoFile]
  /\ mine' = [mine EXCEPT ![t] = NoObj]
  /\ UNCHANGED <<fname, total, sizeMax, bloom>>

\* The while condition of __file_lru_purge once the first k entries are left.
\* Mutant: off by one.
FitsAlmost(k, size) == sizeMax - (total - BytesBehind(k)) >= size - 1
Fits(k, size) == sizeMax - (total - BytesBehind(k)) >= size

\* How many entries of the list survive: file_lru_borrow calls
\* __file_lru_purge only when there is a limit and it would be exceeded;
\* __file_lru_purge evicts from the tail until the new file fits, or until
\* nothing is left.
Survivors(k, size) ==
  IF sizeMax <= 0 \/ total + size <= sizeMax
  THEN k = Len(lru)
  ELSE /\ k = 0 \/ Fits(k, size)
       /\ \A j \in (k + 1)..Len(lru) : ~Fits(j, size)

\* lru_size_total after the eviction of all but the first k entries and the
\* insertion of a file of this size.
TotalAfter(k, size) == total - BytesBehind(k) + size

\* The second look at the tree, under the lock again, finds nothing.
StillMissing(n) == Cached(n) = {}

\* file_lru_borrow, second critical section: make room and insert.
Insert(t) ==
  LET p == mine[t]  size == SizeOf(p) IN
  /\ pc[t] = "insert"
  /\ StillMissing(want[t])
  /\ \E k \in 0..Len(lru) :
       LET out == {lru[j] : j \in (k + 1)..Len(lru)} IN
       /\ Survivors(k, size)
       /\ total + size <= MaxTotal
       /\ state' = [o \in Objs |-> IF o = p THEN "cached"
                                   ELSE IF o \in out THEN Detached(o)
                                   ELSE state[o]]
       /\ total' = TotalAfter(k, size)
       /\ lru' = <<p>> \o SubSeq(lru, 1, k)
  /\ Lend(p)
  /\ pc' = [pc EXCEPT ![t] = "idle"]
  /\ want' = [want EXCEPT ![t] = NoFile]
  /\ mine' = [mine EXCEPT ![t] = NoObj]
  /\ UNCHANGED <<fname, sizeMax, bloom>>

\* file_lru_return by one of the holders of o.
Return(o) ==
  /\ loans[o] > 0
  /\ cnt' = [cnt EXCEPT ![o] = @ - 1]
  /\ state' = [state EXCEPT ![o] = IF @ = "purged" /\ cnt[o] = 1 THEN "unused" ELSE @]
  /\ loans' = [loans EXCEPT ![o] = @ - 1]
  /\ UNCHANGED <<fname, lru, total, sizeMax, bloom, pc, want, mine>>

\* FileLRUPurge: a thread enters file_lru_purge_all.
PurgeAll(t) ==
  /\ pc[t] = "idle"
  /\ pc' = [pc EXCEPT ![t] = "purge"]
  /\ UNCHANGED <<state, fname, cnt, lru, total, sizeMax, bloom, want, mine, loans>>

\* One critical section of file_lru_purge_all: entries are taken off the head
\* until one that nobody uses is met; the lock is released to free that one.
\* The function returns when the list is empty.  lru_size_total is not
\* touched by this function.
PurgeStep(t) ==
  /\ pc[t] = "purge"
  /\ \E k \in 0..Len(lru) :
       LET out == {lru[j] : j \in 1..k} IN
       /\ \A j \in 1..(k - 1) : cnt[lru[j]] > 0
       /\ \/ k > 0 /\ cnt[lru[k]] = 0 /\ pc' = pc
          \/ /\ k = Len(lru)
             /\ k > 0 => cnt[lru[k]] > 0
             /\ pc' = [pc EXCEPT ![t] = "idle"]
       /\ state' = [o \in Objs |-> IF o \in out THEN Detached(o) ELSE state[o]]
       /\ lru' = SubSeq(lru, k + 1, Len(lru))
  /\ UNCHANGED <<fname, cnt, total, sizeMax, bloom, want, mine, loans>>

\* FileLRUSetup: the new limit applies from the next insertion on.
Setup(m) ==
  /\ sizeMax' = m
  /\ UNCHANGED <<state, fname, cnt, lru, total, bloom, pc, want, mine, loans>>

\* FileLRUUpdateBloomFilter: a filter of the files now on disk replaces the
\* old one; a Bloom filter may let further names through.
UpdateBloomFilter(names) ==
  /\ bloom' = names
  /\ UNCHANGED <<state, fname, cnt, lru, total, sizeMax, pc, want, mine, loans>>

\* FileLRURemoveBloomFilter: without a filter every name is blocked.
RemoveBloomFilter ==
  /\ bloom # {}
  /\ bloom' = {}
  /\ UNCHANGED <<state, fname, cnt, lru, total, sizeMax, pc, want, mine, loans>>

Next ==
  \/ \E t \in Threads :
       \/ \E n \in Names : BorrowHit(t, n) \/ BorrowMiss(t, n)
       \/ Load(t) \/ LoadFail(t)
       \/ InsertRaced(t) \/ Insert(t)
       \/ PurgeAll(t) \/ PurgeStep(t)
  \/ \E o \in Objs : Return(o)
  \/ \E m \in Limits : Setup(m)
  \/ \E names \in SUBSET Names : UpdateBloomFilter(names)
  \/ RemoveBloomFilter

Spec == Init /\ [][Next]_vars

----------------------------------------------------------------------------
\* The variables have their types (file_lru_t, the lists and the counters).
TypeOK ==
  /\ state \in [Objs -> EntryState]
  /\ fname \in [Objs -> Names \cup {NoFile}]
  /\ cnt \in [Objs -> Nat]
  /\ lru \in Seq(Objs)
  /\ sizeMax \in Limits
  /\ bloom \subseteq Names
  /\ pc \in [Threads -> ThreadState]
  /\ want \in [Threads -> Names \cup {NoFile}]
  /\ mine \in [Threads -> Objs \cup {NoObj}]
  /\ loans \in [Objs -> Nat]

\* The counter of an entry is the number of callers that hold its pointer, so
\* file_lru_return never drives it below zero, and an entry somebody holds is
\* never freed by an eviction, a purge or the loser of an insertion race.
LoansAreCounted ==
  \A o \in Objs :
    /\ cnt[o] = loans[o]
    /\ loans[o] > 0 => state[o] \in {"cached", "purged"}

\* No leak: an entry waits on the purged list only for callers that will
\* return it; nothing else would ever free it.
PurgedAwaitsReturn ==
  \A o \in Objs : state[o] = "purged" => loans[o] > 0

\* The list links each cached entry once, and nothing else.
ListIsCache ==
  /\ \A i, j \in 1..Len(lru) : lru[i] = lru[j] => i = j
  /\ \A o \in Objs : state[o] = "cached" <=> \E i \in 1..Len(lru) : lru[i] = o

\* The tree has one entry per name: two threads that miss on the same name, and
\* both read it from the disk, never both insert it.
OneEntryPerName ==
  \A o, q \in Objs :
    /\ state[o] = "cached" /\ state[q] = "cached"
    /\ fname[o] = fname[q]
    => o = q

\* An entry being loaded is reached by the loading thread alone.
PrivateIsMine ==
  /\ \A t \in Threads : pc[t] = "insert" <=> mine[t] # NoObj
  /\ \A t \in Threads : pc[t] = "insert" =>
       /\ state[mine[t]] = "private"
       /\ fname[mine[t]] = want[t]
  /\ \A t, u \in Threads : mine[t] = mine[u] /\ mine[t] # NoObj => t = u
  /\ \A t \in Threads : pc[t] \in {"load", "insert"} => want[t] \in Names

\* lru_size_total never understates what is cached: an eviction subtracts the
\* sizes of the entries it removes, and a purge, which subtracts nothing, leaves too
\* much.
TotalCovers ==
  /\ total \in Nat
  /\ \A i \in 1..Len(lru) : fname[lru[i]] \in Names
  /\ Bytes[Len(lru)] <= total

\* Tree, list and loans fit each other.
EntriesFit ==
  /\ TypeOK
  /\ LoansAreCounted
  /\ PurgedAwaitsReturn
  /\ ListIsCache
  /\ OneEntryPerName
  /\ PrivateIsMine

\* The inductive invariant.
IInv == EntriesFit /\ TotalCovers

\* An insertion leaves the cache within the limit in force, unless the new
\* file alone exceeds a limit that was lowered while it was being read.
WithinLimitAfterInsert ==
  [][ (sizeMax > 0 /\ total' # total) =>
        \/ Bytes'[Len(lru')] <= sizeMax
        \/ Len(lru') = 1 ]_vars

\* Callers of the cache see the promise of FileLoans: an entry that is not
\* held shows no content.
Promise == INSTANCE FileLoans WITH
  holders <- loans,
  content <- [o \in Objs |-> IF loans[o] > 0 THEN fname[o] ELSE NoFile]

\* A pointer handed out by file_lru_borrow stands for the file asked for until
\* its last holder has called file_lru_return, whatever is evicted, purged or
\* raced in between.
LoansKept == Promise!Spec
=============================================================================
