------------------------------- MODULE MCLibs -------------------------------
(* Small alphabets for the libraries: the bytes at which each of them branches. *)
EXTENDS TextLibs

SeqsUpTo(s, n) == UNION {[1 .. k -> s] : k \in 0 .. n}

MCPatterns == (SeqsUpTo({1, 2, 200}, 2) \ {<<>>}) \cup {<<1, 1, 1>>, <<1, 2, 1>>}
MCStrings == SeqsUpTo({1, 2, 200}, 3)

\* % . / \ a 2 e, and the two bytes of a code of UTF-8
MCPathBytes == {37, 46, 47, 92, 97, 50, 101, 195, 169}
MCUrlBytes == {37, 61, 63, 97}
MCAddrBytes == {32, 46, 50, 53, 120}
MCNumberBytes == {32, 49, 57, 120}
MCHashBytes == {32, 48, 97, 103, 120}

MCFilterPaths == {<<>>, <<97>>, <<47, 97>>, <<97, 47, 98>>, <<255, 254, 253, 252, 251>>, <<97, 98, 99, 100, 101, 102, 103, 104, 105>>}

\* Data that looks like half a boundary, and no data.
MCUploads == {<<>>, <<"v1">>, <<"v1", "v2">>, <<"b1", "v1">>, <<"b2", "b1">>, <<"b2", "b1", "v1">>}

\* Folders of up to EntryLen entries. Their names tell them apart.
EntryLen == 3
MCNames == {"dir", "file", "hidden"} \X (1 .. EntryLen)
MCFolders ==
  LET named(f) == [i \in DOMAIN f |-> [kind |-> f[i][1], size |-> f[i][2], name |-> <<f[i][1], i>>]]
  IN {named(f) : f \in SeqsUpTo({"dir", "file", "hidden"} \X (1 .. 6), EntryLen)}
MCOffers == 1 .. EntryLen + 1

MCTimeouts == {<<1, 0>>, <<0, 3>>, <<0, 100>>, <<10, 0>>, <<1, 5>>}
=============================================================================
