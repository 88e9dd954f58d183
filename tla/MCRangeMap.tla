---------------------------- MODULE MCRangeMap -----------------------------
(* Small instances of RangeMap.  The byte 170 is the text "aa", and "a" is  *)
(* the byte 97: a prefix of bytes may read like the text of another prefix. *)
EXTENDS RangeMap, TLC

CONSTANTS a1, a2, m1, m2

\* Prefixes of the keys below, and one that is no prefix of another.
MCHashes == {<<>>, <<1>>, <<1, 1>>, <<1, 2>>}
MCKeys == {<<1, 1, 1>>, <<1, 2, 1>>, <<1, 3, 1>>, <<2, 1, 1>>}

LinkHashes == {<<>>, <<97, 97>>}
LinkKeys == {<<97, 97, 1>>, <<1, 1, 1>>}
LinkBuckets == {[map |-> m1, text |-> Text(<<>>), addr |-> Local],
                [map |-> m1, text |-> Text(<<170>>), addr |-> Local],
                [map |-> m1, text |-> Text(<<>>), addr |-> a2]}
MainFlags == {{}, {"main"}}
Symmetry == Permutations(Maps) \cup Permutations(Addrs)
=============================================================================
