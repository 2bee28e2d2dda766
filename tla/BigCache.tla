------------------------------ MODULE BigCache ------------------------------
(***************************************************************************)
(* The threads of one BigCache: the two supervisors (expire_ctl,           *)
(* vacuum_ctl), the child threads of their cycles (expire_shard,           *)
(* expire_shard_singe and the two of the vacuum, whose work is commented   *)
(* out), and the owner of the cache, who may call freeze and destroys it.  *)
(*                                                                         *)
(* What a child does to a shard is module Shard; here a call of            *)
(* bulk_expire returns, or never does.  The calls of set, get and evict    *)
(* do not meet the supervisors outside the shards and are left out.        *)
(*                                                                         *)
(* A definition named Bug... is its neighbour with a plausible mistake in  *)
(* it, as in ShardStore.                                                   *)
(***************************************************************************)
EXTENDS Integers, Sequences, FiniteSets

CONSTANTS
    Counts,     \* the shards_cnt that the cache may be configured with
    GroupFrom,  \* with this many shards a child gets a group of them: 16
    GroupSize,  \* shards of a group: 4
    Period,     \* [Supervisors -> expire_ns, vacuum_ns]
    Instants,   \* readings of the system clock, which may be set back
    Word        \* 2^64, scaled down

Supervisors == {"expire", "vacuum"}

ASSUME BigCacheAssumption ==
    /\ Counts \subseteq Nat \ {0}
    /\ {GroupFrom, GroupSize} \subseteq Nat \ {0}
    \* shards_cnt is a power of two: from 16 shards on, a multiple of four
    /\ \A n \in Counts : n >= GroupFrom => n % GroupSize = 0
    /\ Word \in Nat \ {0}
    /\ Period \in [Supervisors -> 0..(Word - 1)]
    /\ Instants \subseteq 0..(Word - 1)
    /\ Instants # {}

VARIABLES
    shards_cnt,
    shards,     \* the shards that exist
    stop_sig,   \* [Supervisors -> expire_thr_stop_sig, vacuum_thr_stop_sig]
    thr,        \* [Supervisors -> where the supervisor thread is]
    thr_c_pool, \* [Supervisors -> the child threads of its cycle]
    cntr,       \* [Supervisors -> expire_cntr, vacuum_cntr]
    owner,      \* the thread that calls freeze and deletes the cache
    swept,      \* history: [shard -> calls of bulk_expire ended this cycle]
    late        \* history: [Supervisors -> cycles begun after its stop signal]

bigVars == <<shards_cnt, shards, stop_sig, thr, thr_c_pool, cntr, owner, swept, late>>

BugSignedSub(a, b) == a - b
U64Sub(a, b) == IF a >= b THEN a - b ELSE a - b + Word

Thread == [pc : {"top", "sleep", "spawn", "join", "exit"},
           took : 0..(Word - 1),    \* prev_took
           skip : BOOLEAN,
           since : 0..(Word - 1),   \* time_s
           next : Nat]              \* the shard, or the child, that is next
Child == [stage : {"new", "in", "hung", "ended"}, todo : Seq(Nat)]

BigInit ==
    /\ shards_cnt \in Counts
    /\ shards = 0..(shards_cnt - 1)
    /\ stop_sig = [s \in Supervisors |-> FALSE]
    /\ thr = [s \in Supervisors |->
                [pc |-> "top", took |-> 0, skip |-> FALSE, since |-> 0, next |-> 0]]
    /\ thr_c_pool = [s \in Supervisors |-> <<>>]
    /\ cntr = [s \in Supervisors |-> 0]
    /\ owner = [pc |-> "free", deleting |-> FALSE]
    /\ swept = [i \in shards |-> 0]
    /\ late = [s \in Supervisors |-> 0]

-----------------------------------------------------------------------------
(* A supervisor.  It sleeps for the rest of its period; after a cycle that *)
(* took longer than the period it sleeps a whole period more.              *)

At(s, pc) == thr[s].pc = pc

BugGoToSleep(s) ==
    /\ At(s, "top")
    /\ thr' = [thr EXCEPT ![s] = [@ EXCEPT !.pc = "sleep", !.skip = thr[s].took > Period[s]]]
    /\ UNCHANGED <<shards_cnt, shards, stop_sig, thr_c_pool, cntr, owner, swept, late>>

GoToSleep(s) ==
    /\ At(s, "top")
    /\ thr' = [thr EXCEPT ![s] =
                 IF @.took > Period[s]
                 THEN [@ EXCEPT !.pc = "sleep", !.skip = TRUE, !.took = 0]
                 ELSE [@ EXCEPT !.pc = "sleep", !.skip = FALSE]]
    /\ UNCHANGED <<shards_cnt, shards, stop_sig, thr_c_pool, cntr, owner, swept, late>>

Pause(s) == U64Sub(Period[s], thr[s].took)

WakeAndSkip(s) ==
    /\ At(s, "sleep") /\ thr[s].skip
    /\ thr' = [thr EXCEPT ![s] = [@ EXCEPT !.pc = "top", !.skip = FALSE]]
    /\ UNCHANGED <<shards_cnt, shards, stop_sig, thr_c_pool, cntr, owner, swept, late>>

WakeAndStart(s) ==
    /\ At(s, "sleep") /\ ~thr[s].skip
    /\ \E t \in Instants :
          thr' = [thr EXCEPT ![s] = [@ EXCEPT !.pc = "spawn", !.since = t, !.next = 0]]
    /\ swept' = IF s = "expire" THEN [i \in DOMAIN swept |-> 0] ELSE swept
    /\ late' = [late EXCEPT ![s] = IF stop_sig[s] THEN @ + 1 ELSE @]
    /\ UNCHANGED <<shards_cnt, shards, stop_sig, thr_c_pool, cntr, owner>>

(* The shards of the child that is started at shard i.                     *)
Step == IF shards_cnt >= GroupFrom THEN GroupSize ELSE 1
BugGroup(i) == [n \in 1..(Step - 1) |-> i + n - 1]
Group(i) == [n \in 1..Step |-> i + n - 1]

Spawn(s) ==
    /\ At(s, "spawn") /\ thr[s].next < shards_cnt
    /\ thr_c_pool' = [thr_c_pool EXCEPT ![s] = Append(@,
         [stage |-> "new", todo |-> IF s = "expire" THEN Group(thr[s].next) ELSE <<>>])]
    /\ thr' = [thr EXCEPT ![s].next = @ + Step]
    /\ UNCHANGED <<shards_cnt, shards, stop_sig, cntr, owner, swept, late>>

StartJoining(s) ==
    /\ At(s, "spawn") /\ thr[s].next >= shards_cnt
    /\ thr' = [thr EXCEPT ![s] = [@ EXCEPT !.pc = "join", !.next = 1]]
    /\ UNCHANGED <<shards_cnt, shards, stop_sig, thr_c_pool, cntr, owner, swept, late>>

BugJoin(s) ==
    /\ At(s, "join") /\ thr[s].next <= Len(thr_c_pool[s])
    /\ thr' = [thr EXCEPT ![s].next = @ + 1]
    /\ UNCHANGED <<shards_cnt, shards, stop_sig, thr_c_pool, cntr, owner, swept, late>>

Join(s) ==
    /\ At(s, "join") /\ thr[s].next <= Len(thr_c_pool[s])
    /\ thr_c_pool[s][thr[s].next].stage = "ended"
    /\ thr' = [thr EXCEPT ![s].next = @ + 1]
    /\ UNCHANGED <<shards_cnt, shards, stop_sig, thr_c_pool, cntr, owner, swept, late>>

(* The last child is joined.  time_e - time_s is unsigned: a clock that    *)
(* was set back makes it huge.                                             *)
FinishCycle(s, pc) ==
    /\ At(s, "join") /\ thr[s].next > Len(thr_c_pool[s])
    /\ \E t \in Instants :
          thr' = [thr EXCEPT ![s] = [pc |-> pc, took |-> U64Sub(t, thr[s].since),
                                     skip |-> FALSE, since |-> 0, next |-> 0]]
    /\ thr_c_pool' = [thr_c_pool EXCEPT ![s] = <<>>]
    /\ UNCHANGED <<shards_cnt, shards, stop_sig, cntr, owner, swept, late>>

BugEndCycle(s) == FinishCycle(s, "top")
EndCycle(s) == FinishCycle(s, IF stop_sig[s] THEN "exit" ELSE "top")

Supervise(s) ==
    \/ GoToSleep(s) \/ WakeAndSkip(s) \/ WakeAndStart(s)
    \/ Spawn(s) \/ StartJoining(s) \/ Join(s) \/ EndCycle(s)

-----------------------------------------------------------------------------
(* A child: inc, bulk_expire of each of its shards, dec.  For the log it   *)
(* also reads the index of its shards, before inc and once more behind     *)
(* dec; the join waits for that too, so it is part of Enter and Leave.     *)

Children(s) == DOMAIN thr_c_pool[s]
InStage(s, c, stage) == thr_c_pool[s][c].stage = stage

Enter(s, c) ==
    /\ InStage(s, c, "new")
    /\ thr_c_pool' = [thr_c_pool EXCEPT ![s][c].stage = "in"]
    /\ cntr' = [cntr EXCEPT ![s] = @ + 1]
    /\ UNCHANGED <<shards_cnt, shards, stop_sig, thr, owner, swept, late>>

Sweep(s, c) ==
    /\ InStage(s, c, "in") /\ thr_c_pool[s][c].todo # <<>>
    /\ swept' = [swept EXCEPT ![Head(thr_c_pool[s][c].todo)] = @ + 1]
    /\ thr_c_pool' = [thr_c_pool EXCEPT ![s][c].todo = Tail(@)]
    /\ UNCHANGED <<shards_cnt, shards, stop_sig, thr, cntr, owner, late>>

(* bulk_expire that locks its mutex twice (Shard!NoSelfDeadlock).          *)
SweepHangs(s, c) ==
    /\ InStage(s, c, "in") /\ thr_c_pool[s][c].todo # <<>>
    /\ thr_c_pool' = [thr_c_pool EXCEPT ![s][c].stage = "hung"]
    /\ UNCHANGED <<shards_cnt, shards, stop_sig, thr, cntr, owner, swept, late>>

Leave(s, c) ==
    /\ InStage(s, c, "in") /\ thr_c_pool[s][c].todo = <<>>
    /\ thr_c_pool' = [thr_c_pool EXCEPT ![s][c].stage = "ended"]
    /\ cntr' = [cntr EXCEPT ![s] = @ - 1]
    /\ UNCHANGED <<shards_cnt, shards, stop_sig, thr, owner, swept, late>>

RunChild(s) ==
    \E c \in Children(s) : Enter(s, c) \/ Sweep(s, c) \/ SweepHangs(s, c) \/ Leave(s, c)

-----------------------------------------------------------------------------
(* The owner: freeze sets the two flags, one after the other; the          *)
(* destructor calls it, joins the supervisors and deletes the shards.  A   *)
(* second freeze changes nothing and is left out.                          *)

Owner(pc) == owner.pc = pc
Goes(pc) == owner' = [owner EXCEPT !.pc = pc]

CallFreeze ==
    /\ Owner("free") /\ ~stop_sig["expire"]
    /\ Goes("freeze")
    /\ UNCHANGED <<shards_cnt, shards, stop_sig, thr, thr_c_pool, cntr, swept, late>>

CallDelete ==
    /\ Owner("free")
    /\ owner' = [pc |-> "freeze", deleting |-> TRUE]
    /\ UNCHANGED <<shards_cnt, shards, stop_sig, thr, thr_c_pool, cntr, swept, late>>

StopExpire ==
    /\ Owner("freeze")
    /\ stop_sig' = [stop_sig EXCEPT !["expire"] = TRUE]
    /\ Goes("freeze_vacuum")
    /\ UNCHANGED <<shards_cnt, shards, thr, thr_c_pool, cntr, swept, late>>

BugStopVacuum ==
    /\ Owner("freeze_vacuum")
    /\ stop_sig' = [stop_sig EXCEPT !["expire"] = TRUE]
    /\ Goes(IF owner.deleting THEN "join_expire" ELSE "free")
    /\ UNCHANGED <<shards_cnt, shards, thr, thr_c_pool, cntr, swept, late>>

StopVacuum ==
    /\ Owner("freeze_vacuum")
    /\ stop_sig' = [stop_sig EXCEPT !["vacuum"] = TRUE]
    /\ Goes(IF owner.deleting THEN "join_expire" ELSE "free")
    /\ UNCHANGED <<shards_cnt, shards, thr, thr_c_pool, cntr, swept, late>>

BugJoinExpire ==
    /\ Owner("join_expire")
    /\ Goes("join_vacuum")
    /\ UNCHANGED <<shards_cnt, shards, stop_sig, thr, thr_c_pool, cntr, swept, late>>

JoinExpire ==
    /\ Owner("join_expire") /\ At("expire", "exit")
    /\ Goes("join_vacuum")
    /\ UNCHANGED <<shards_cnt, shards, stop_sig, thr, thr_c_pool, cntr, swept, late>>

JoinVacuum ==
    /\ Owner("join_vacuum") /\ At("vacuum", "exit")
    /\ Goes("delete")
    /\ UNCHANGED <<shards_cnt, shards, stop_sig, thr, thr_c_pool, cntr, swept, late>>

DeleteShard ==
    /\ Owner("delete") /\ shards # {}
    /\ shards' = {i \in shards : \E j \in shards : j < i}   \* the first one
    /\ UNCHANGED <<shards_cnt, stop_sig, thr, thr_c_pool, cntr, owner, swept, late>>

DeleteCounters ==
    /\ Owner("delete") /\ shards = {}
    /\ Goes("deleted")
    /\ UNCHANGED <<shards_cnt, shards, stop_sig, thr, thr_c_pool, cntr, swept, late>>

Destroy == StopExpire \/ StopVacuum \/ JoinExpire \/ JoinVacuum
             \/ DeleteShard \/ DeleteCounters

BigNext ==
    \/ \E s \in Supervisors : Supervise(s) \/ RunChild(s)
    \/ CallFreeze \/ CallDelete \/ Destroy

BigSpec == BigInit /\ [][BigNext]_bigVars

(* Every thread that can run is scheduled; nobody has to call freeze or    *)
(* to delete the cache.                                                    *)
FairBigSpec ==
    /\ BigSpec
    /\ \A s \in Supervisors : WF_bigVars(Supervise(s)) /\ WF_bigVars(RunChild(s))
    /\ WF_bigVars(Destroy)

-----------------------------------------------------------------------------
(* Properties. *)

BigTypeOK ==
    /\ shards_cnt \in Counts
    /\ shards \subseteq 0..(shards_cnt - 1)
    /\ stop_sig \in [Supervisors -> BOOLEAN]
    /\ thr \in [Supervisors -> Thread]
    /\ thr_c_pool \in [Supervisors -> Seq(Child)]
    /\ cntr \in [Supervisors -> Nat]
    /\ owner.pc \in {"free", "freeze", "freeze_vacuum", "join_expire",
                     "join_vacuum", "delete", "deleted"}
    /\ owner.deleting \in BOOLEAN
    /\ swept \in [0..(shards_cnt - 1) -> Nat]
    /\ late \in [Supervisors -> Nat]

Alive(s, c) == ~InStage(s, c, "ended")
Todo(s, c) == {thr_c_pool[s][c].todo[i] : i \in DOMAIN thr_c_pool[s][c].todo}

(* The destructor never pulls a shard, or a counter, away from a child     *)
(* thread that still has to sweep it or to count itself out, whenever the  *)
(* cache is deleted: before a cycle, between two spawns or in mid-sweep.   *)
NothingDeletedInUse ==
    \A s \in Supervisors : \A c \in Children(s) :
        Alive(s, c) => owner.pc # "deleted" /\ Todo(s, c) \subseteq shards

(* The children that are between inc and dec, where bulk_expire is called. *)
Running(s) == {c \in Children(s) : thr_c_pool[s][c].stage \in {"in", "hung"}}

(* At most one thread is ever in bulk_expire of a shard, which Shard takes *)
(* for granted.  The children of a cycle have different shards, groups or  *)
(* no groups.  And none is left of an earlier cycle: whoever may call      *)
(* bulk_expire has counted itself into expire_cntr, which no cycle resets, *)
(* and that is the number of the present children alone.                   *)
OneSweeper ==
    /\ \A c, d \in Children("expire") :
          c # d => Todo("expire", c) \cap Todo("expire", d) = {}
    /\ cntr["expire"] = Cardinality(Running("expire"))

(* A cycle that ends has swept every shard exactly once, whether the       *)
(* children had one shard each or a group.                                 *)
EverySweptOnce ==
    [][ EndCycle("expire") => \A i \in 0..(shards_cnt - 1) : swept[i] = 1 ]_bigVars

(* The expiration as ExpireCycle describes it.  The shards that a cycle    *)
(* has still to sweep are those that no child has been started for and     *)
(* those that the children have still to do.                               *)
NotSpawned == IF At("expire", "spawn") THEN thr["expire"].next .. (shards_cnt - 1) ELSE {}
Pending == NotSpawned \cup UNION {Todo("expire", c) : c \in Children("expire")}
Phase == CASE thr["expire"].pc \in {"top", "sleep"}  -> "idle"
           [] thr["expire"].pc \in {"spawn", "join"} -> "cycle"
           [] thr["expire"].pc = "exit"              -> "over"

Cycle == INSTANCE ExpireCycle WITH
            count <- shards_cnt, live <- shards, pending <- Pending, phase <- Phase

(* The threads of the expiration implement its cycles: a shard is swept    *)
(* once, and only while it exists; a cycle is over only when all children  *)
(* are done; the destructor takes shards away only behind the last cycle.  *)
(* Starting, counting and joining threads change nothing of this.          *)
ImplementsCycle == Cycle!CycleSpec

(* A supervisor never sleeps longer than its period: the unsigned          *)
(* expire_ns - prev_took does not wrap, after cycles of any length and     *)
(* even when the system clock was set back during one.                     *)
PauseWithinPeriod ==
    \A s \in Supervisors : At(s, "sleep") => Pause(s) <= Period[s]

(* "This flag only forbids the further running of expiration operations"  *)
(* (bigcache.h:155-156, and 179-180 of the vacuuming): once the flag is    *)
(* set, no cycle begins.                                                   *)
NoCycleAfterStop == \A s \in Supervisors : late[s] = 0

(* What the code keeps of that claim, which it breaks (a supervisor reads  *)
(* its flag only at the end of a cycle): after the flag is set a whole     *)
(* cycle may still begin, but never a second one.                          *)
OneCycleAfterStop == \A s \in Supervisors : late[s] <= 1

SomeoneHangs == \E s \in Supervisors : \E c \in Children(s) : InStage(s, c, "hung")

(* The destructor returns: both supervisors see their flag and end, unless *)
(* a bulk_expire hangs, which keeps it waiting for ever.                   *)
DestructorReturns == owner.deleting ~> (Owner("deleted") \/ SomeoneHangs)

(* Until freeze the expiration goes on: over-long cycles, after which a    *)
(* period is skipped, never silence it for good.                           *)
ExpirationGoesOn == []<>(At("expire", "join") \/ stop_sig["expire"] \/ SomeoneHangs)
=============================================================================
