---------------------------- MODULE MCBeeServer -----------------------------
(* Instances of BeeServer for TLC: one server that shifts its bucket, two      *)
(* servers that forward to each other.                                         *)
EXTENDS BeeServer, TLC

CONSTANTS b1, b2, k1, v1, v2

OneChain == b1 :> <<b1>>

TwoChains == b1 :> <<b1, b2>> @@ b2 :> <<b1, b2>>

Ask(op, v) == [op |-> op, key |-> k1, val |-> v, buf |-> TRUE]

StoreRequests == {Ask("DB_SET", v1), Ask("DB_SET", v2), Ask("DB_DEL", v1), Ask("DB_GET", v1)}

ForwardRequests == {Ask("DB_SET", v1), Ask("DB_DEL", v1), [Ask("DB_GET", v1) EXCEPT !.buf = FALSE],
                    Ask("FILE", v1), Ask("INVALID", v1)}

EmptyFile == {Empty}

OldFile == {Empty, [k \in Keys |-> v1]}
=============================================================================
