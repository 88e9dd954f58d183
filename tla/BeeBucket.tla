----------------------------- MODULE BeeBucket ------------------------------
(***************************************************************************)
(* A bucket of bee/bucket.c.  It has two Kyoto Cabinet databases, a base   *)
(* (kcdb[0]) and a patch over it (kcdb[1]), and either may be missing.  A  *)
(* database maps keys to what was stored: a value, or the time stamp of a  *)
(* deletion.                                                               *)
(***************************************************************************)
CONSTANTS
  Keys,
  Vals,      \* stored values
  Tomb,      \* a stored time stamp with no data behind it
  Absent,    \* the key has no record
  NoDb       \* the kcdb[] pointer is NULL

Stored == Vals \cup {Tomb, Absent}

Db == [Keys -> Stored]

\* The three marks are none of the things they stand beside.
ASSUME BucketAssumption == Absent \notin Vals /\ Absent # Tomb /\ NoDb \notin Db

Empty == [k \in Keys |-> Absent]

Bucket == [base : Db \cup {NoDb}, patch : Db \cup {NoDb}]

\* A bucket is in esq_bucket_rb, and its node points to it, from when its first
\* database is opened.
Unregistered == [base |-> NoDb, patch |-> NoDb]

\* The newest record of a key: a patch lies over the base.
Newest(d, k) ==
  IF d.patch # NoDb /\ d.patch[k] # Absent THEN d.patch[k]
  ELSE IF d.base # NoDb THEN d.base[k] ELSE Absent

\* bee_bucket_get: what a look-up that nobody disturbs finds.  A bucket without a
\* base finds nothing.
Find(d, k) == IF d.base = NoDb THEN Absent ELSE Newest(d, k)

\* bee_db_get: a record with no data behind its time stamp is not found.
Visible(s) == IF s = Tomb THEN Absent ELSE s

\* bee_bucket_set, on a bucket that is registered.
BucketSet(d, k, v) ==
  IF d.patch # NoDb THEN [d EXCEPT !.patch[k] = v] ELSE [d EXCEPT !.base[k] = v]

\* Mutant: with a patch, the record is removed from it.
BucketDelForgets(d, k) ==
  IF d.patch # NoDb THEN [d EXCEPT !.patch[k] = Absent] ELSE [d EXCEPT !.base[k] = Absent]

\* bee_bucket_del: a patch remembers the deletion, a base forgets the key.
BucketDel(d, k) ==
  IF d.patch # NoDb THEN [d EXCEPT !.patch[k] = Tomb] ELSE [d EXCEPT !.base[k] = Absent]

\* kcdbremove fails on a key that has no record.
CanDel(d, k) == d.patch = NoDb => d.base[k] # Absent

\* bee_open_disk_bucket: idx chooses the database; one that is open stays.
CanOpen(d, idx) == d[idx] = NoDb

BucketOpen(d, idx, content) == [d EXCEPT ![idx] = content]

\* bee_shift_mem_bucket: a new database in memory becomes the base, or the
\* patch; the patch it replaces becomes the base and the old base is closed.
BucketShift(d) ==
  IF d.base = NoDb THEN [d EXCEPT !.base = Empty]
  ELSE IF d.patch = NoDb THEN [d EXCEPT !.patch = Empty]
  ELSE [base |-> d.patch, patch |-> Empty]
=============================================================================
