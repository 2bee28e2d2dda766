---------------------------- MODULE ExpireCycle ----------------------------
(***************************************************************************)
(* What the expiration of a cache promises, without its threads: in cycles *)
(* that do not overlap, each shard is swept exactly once per cycle, in any *)
(* order and in parallel; a shard is deleted only when no cycle will begin *)
(* any more.  BigCache implements this with supervisors, child threads,    *)
(* stop signals and joins.                                                 *)
(***************************************************************************)
EXTENDS Naturals

CONSTANT Counts     \* the numbers of shards that a cache may have

VARIABLES
    count,      \* the number of shards
    live,       \* the shards that exist
    pending,    \* the shards that the cycle has still to sweep
    phase       \* "idle", "cycle", or "over": no cycle will begin any more

cycleVars == <<count, live, pending, phase>>

AllShards == 0..(count - 1)

CycleInit ==
    /\ count \in Counts
    /\ live = AllShards
    /\ pending = {}
    /\ phase = "idle"

Begin ==
    /\ phase = "idle"
    /\ phase' = "cycle"
    /\ pending' = AllShards
    /\ UNCHANGED <<count, live>>

SweepShard(i) ==
    /\ phase = "cycle" /\ i \in pending /\ i \in live
    /\ pending' = pending \ {i}
    /\ UNCHANGED <<count, live, phase>>

End ==
    /\ phase = "cycle" /\ pending = {}
    /\ phase' \in {"idle", "over"}
    /\ UNCHANGED <<count, live, pending>>

Delete ==
    /\ phase = "over"
    /\ live' \in SUBSET live
    /\ UNCHANGED <<count, pending, phase>>

CycleNext == Begin \/ End \/ Delete \/ \E i \in AllShards : SweepShard(i)

CycleSpec == CycleInit /\ [][CycleNext]_cycleVars
=============================================================================
