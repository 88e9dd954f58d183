------------------------------ MODULE MCHttp2 -------------------------------
(* Two connections and two streams on four descriptors: the number of a file   *)
(* or a connection that is closed is handed out again, and opening may fail.   *)
EXTENDS Http2, TLC

CONSTANTS c1, c2, s1, s2

MCConns == {c1, c2}
MCStreams == {s1, s2}
MCPaths == {"unbound", "file", "index"}
MCArgSets == {{"remove"}, {"send_index"}}
MCSymmetry == Permutations(MCConns) \cup Permutations(MCStreams)
=============================================================================
