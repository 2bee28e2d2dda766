------------------------------- MODULE MCShard -------------------------------
(* Constants for the runs of Shard. *)
EXTENDS Shard, TLC

CONSTANTS p1, p2, p3     \* payloads of one, two and three bytes

MCPayloadLen ==
    [v \in Payloads |-> CASE v = p1 -> 1 [] v = p2 -> 2 [] v = p3 -> 3]

MCSymmetry == Permutations(Keys) \cup Permutations(Clients)

(* No step reads the reply of an earlier call or the bytes stored.         *)
WithoutBytes == <<indexVars, sizeVars, now, op, fault, mux, caller, sweep>>

(* Bound on the free index, as in MCShardStore: without one it grows for   *)
(* ever, by a block of no bytes with each failed set that is evicted.      *)
MaxFreeBlocks == 3
FewFreeBlocks == Len(idx_free) <= MaxFreeBlocks
=============================================================================
