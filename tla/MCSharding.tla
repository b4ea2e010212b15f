----------------------------- MODULE MCSharding -----------------------------
(* Four peers with two partitions each (one when all four are in a list);  *)
(* the partitions of the peers are interleaved in hash order.              *)
EXTENDS Sharding

MCUHash == [p \in (1..4) \X (1..2) |-> (7 * p[1] + 11 * p[2]) % 23]
=============================================================================
