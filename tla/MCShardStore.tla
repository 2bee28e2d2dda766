---------------------------- MODULE MCShardStore ----------------------------
(* Constants for the runs of ShardStore. *)
EXTENDS ShardStore, TLC

CONSTANTS p0, p1, p2, p3     \* payloads of zero, one, two and three bytes

MCPayloadLen ==
    [v \in Payloads |-> CASE v = p0 -> 0 [] v = p1 -> 1 [] v = p2 -> 2 [] v = p3 -> 3]

KeySymmetry == Permutations(Keys)

(* No step reads the reply of an earlier call: states that differ in it    *)
(* only have the same future.                                              *)
WithoutReply == <<indexVars, sizeVars, mem, now, op, given, fault>>

(* Bound on the free index.  Each failed set that is evicted adds a block  *)
(* of no bytes to it, so without a bound the index grows for ever.         *)
MaxFreeBlocks == 3
FewFreeBlocks == Len(idx_free) <= MaxFreeBlocks
=============================================================================
