------------------------------- MODULE Config -------------------------------
(***************************************************************************)
(* The configuration of a cache: the Config of the Go wrapper as it is     *)
(* written to JSON (config.go), what the constructor of BigCache makes of  *)
(* the values that it finds (bigcache.cpp), the routing of keys to shards  *)
(* and the geometry of a shard that follow from it.                        *)
(***************************************************************************)
EXTENDS Helpers, Sequences

CONSTANTS
    MinShards, MaxShards, DefShards,
    MinExpire, DefExpire,
    MinVacuum, DefVacuum,
    DefMaxSize,
    MaxVerbose, DefVerbose,     \* VERBOSE_LVL_DBG3, VERBOSE_LVL_ERR
    PagePrcnt,                  \* DEF_SHARD_PAGE_SIZE_PRCNT
    Avail                       \* half of the memory that sysinfo says is free

ASSUME ConfigAssumption ==
    /\ {MinShards, MaxShards, DefShards} \subseteq 1..(Word32 - 1)
    /\ DefShards \in MinShards..MaxShards
    /\ {MinExpire, DefExpire, MinVacuum, DefVacuum, DefMaxSize} \subseteq 1..(Half - 1)
    /\ MinExpire <= DefExpire
    /\ MinVacuum <= DefVacuum
    /\ {MaxVerbose, DefVerbose} \subseteq 0..(Word32 - 1)
    /\ MaxVerbose >= 2 /\ DefVerbose <= MaxVerbose
    /\ PagePrcnt \in 1..50 /\ 100 % PagePrcnt = 0
    /\ Avail \in 0..(Half - 1)

ASSUME DefaultIsPow2 == IsPow2(DefShards)

-----------------------------------------------------------------------------
(* Config.Marshal: uint64 numbers, and times in nanoseconds, taken from    *)
(* the durations (signed) unless they are given.  A member is its name,    *)
(* its type and its value.  The code also leaves both times in the Config  *)
(* of the caller, where a second Marshal finds them given; one call is all *)
(* that is modelled, so the Config itself does not change.                 *)

Uint64 == 0..(Word64 - 1)
GoConfig == [Shards : Uint64, ForceSet : BOOLEAN, Expire : Int64, ExpireNs : Uint64,
             Vacuum : Int64, VacuumNs : Uint64, MaxSize : Uint64, VerboseLevel : Uint64]

Nanoseconds(ns, duration) == IF ns = 0 THEN U64(duration) ELSE ns

BugMarshalled(c) ==
    << <<"shards_cnt", "i", c.Shards>>,
       <<"force_set", "b", c.ForceSet>>,
       <<"expire_ns", "i", c.ExpireNs>>,
       <<"vacuum_ns", "i", Nanoseconds(c.VacuumNs, c.Vacuum)>>,
       <<"max_size", "i", c.MaxSize>>,
       <<"verbose_lvl", "i", c.VerboseLevel>> >>
Marshalled(c) ==
    << <<"shards_cnt", "i", c.Shards>>,
       <<"force_set", "b", c.ForceSet>>,
       <<"expire_ns", "i", Nanoseconds(c.ExpireNs, c.Expire)>>,
       <<"vacuum_ns", "i", Nanoseconds(c.VacuumNs, c.Vacuum)>>,
       <<"max_size", "i", c.MaxSize>>,
       <<"verbose_lvl", "i", c.VerboseLevel>> >>

-----------------------------------------------------------------------------
(* The constructor: `asked' is what it has looked up, signed 64-bit        *)
(* numbers; they are converted to uint and uint64 before they are checked. *)

Asked == [verbose_lvl : Int64, shards_cnt : Int64, force_set : BOOLEAN,
          max_size : Int64, expire_ns : Int64, vacuum_ns : Int64]

BugShards(n) == IF ~IsPow2(n) \/ n > MaxShards THEN DefShards ELSE n
Shards(n) == IF n \notin MinShards..MaxShards \/ ~IsPow2(n) THEN DefShards ELSE n
AtLeast(n, min, def) == IF n < min THEN def ELSE n

Constructed(asked) ==
    [verbose_lvl |-> IF U32(asked.verbose_lvl) > MaxVerbose THEN 0 ELSE U32(asked.verbose_lvl),
     shards_cnt |-> Shards(U32(asked.shards_cnt)),
     force_set |-> asked.force_set,
     max_size |-> AtLeast(U64(asked.max_size), 1, DefMaxSize),
     expire_ns |-> AtLeast(U64(asked.expire_ns), MinExpire, DefExpire),
     vacuum_ns |-> AtLeast(U64(asked.vacuum_ns), MinVacuum, DefVacuum)]

(* Without a configuration the members keep their initial values.          *)
Initial == [verbose_lvl |-> MaxVerbose - 2, shards_cnt |-> DefShards, force_set |-> FALSE,
            max_size |-> DefMaxSize, expire_ns |-> DefExpire, vacuum_ns |-> DefVacuum]

-----------------------------------------------------------------------------
(* What follows from the parameters.                                       *)

Mask(p) == p.shards_cnt - 1
ShardIndices(p) == 0..(p.shards_cnt - 1)

(* get_shard, by the hash of the key.                                      *)
ShardOf(p, hash) == BitAnd(hash, Mask(p))

ShardSize(p) == p.max_size \div p.shards_cnt

(* The constructor of Shard: pages of a tenth of the shard, and one more   *)
(* than ten of them.                                                       *)
PageSize(n) == (n * PagePrcnt) \div 100
BugPages == 100 \div PagePrcnt
Pages == 100 \div PagePrcnt + 1

-----------------------------------------------------------------------------
(* What is expected of the parameters.                                     *)

Valid(p) ==
    /\ p.shards_cnt \in MinShards..MaxShards /\ IsPow2(p.shards_cnt)
    /\ p.expire_ns \in MinExpire..(Word64 - 1)
    /\ p.vacuum_ns \in MinVacuum..(Word64 - 1)
    /\ p.max_size \in 1..(Word64 - 1)
    /\ p.verbose_lvl \in 0..MaxVerbose

(* From this size on the pages together hold the shard, although their     *)
(* size is rounded down: with 10 %, from 90 bytes on.                      *)
PageNumber == 100 \div PagePrcnt
EnoughForPages(n) == n >= PageNumber * (PageNumber - 1)
PagesHold(n) == Pages * PageSize(n) >= n
=============================================================================
