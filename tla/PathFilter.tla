----------------------------- MODULE PathFilter -----------------------------
(* The filter for paths of the file cache (libs/path-bloom-filter): the paths   *)
(* of the files that exist are added, the cache asks for the one it wants. The  *)
(* three hashes of a path have 12 bits; a hash selects a byte by its upper nine *)
(* bits and a bit by its lower two: the third lowest is not used.               *)
EXTENDS Integers

CONSTANTS FilterPaths,  \* paths: sequences of bytes
          Hash(_, _)    \* path_bloom_hash0, path_bloom_hash1 and path_bloom_hash2

VARIABLES added, bloom

filterVars == <<added, bloom>>

FilterInit == added = {} /\ bloom = {}

\* Mutant: the bit by its lower three bits where it is looked up.
BitByThree(h) == <<h \div 8, h % 8>>
BitSet(h) == <<h \div 8, h % 4>>
BitSeen(h) == <<h \div 8, h % 4>>

\* path_bloom_filter_add_path; an empty path is refused.
AddPath(p) ==
  /\ added' = added \cup {p}
  /\ bloom' = IF p = <<>> THEN bloom ELSE bloom \cup {<<i, BitSet(Hash(i, p))>> : i \in 0 .. 2}

AddToFilter == \E p \in FilterPaths : AddPath(p)

FilterSpec == FilterInit /\ [][AddToFilter]_filterVars

\* path_bloom_filter_check_exist
CheckExist(p) == p # <<>> /\ \A i \in 0 .. 2 : <<i, BitSeen(Hash(i, p))>> \in bloom

\* The filter never says of a path, not empty, that was added that it does not exist: the file
\* cache answers without looking at the disk then (file-lru.c:297).
NoFalseNegative == \A p \in added \ {<<>>} : CheckExist(p)
=============================================================================
