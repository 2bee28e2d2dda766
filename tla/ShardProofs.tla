---------------------------- MODULE ShardProofs ----------------------------
(***************************************************************************)
(* Theorems about module Shard, for every number of clients: every step of *)
(* every thread is a step of the storage, so that what is proved of the    *)
(* storage holds under every interleaving, and the reverse iterator that   *)
(* bulk_expire keeps across lock() stays valid.                            *)
(***************************************************************************)
EXTENDS Shard, StoreBytesProofs, WellFoundedInduction, FiniteSetTheorems

-----------------------------------------------------------------------------
(* The iterator.  A bounded set of naturals that is not empty has a        *)
(* maximum, so `Cur' and `Stepped' are buckets.                            *)

LEMMA MaxOfBounded ==
    ASSUME NEW S \in SUBSET Nat, NEW n \in Nat, \A x \in S : x <= n, S # {}
    PROVE  Max(S) \in S /\ \A y \in S : Max(S) >= y
<1> DEFINE R == OpToRel(<, Nat)
           T == {d \in Nat : n - d \in S}
<1>1. IsWellFoundedOn(R, Nat)
  BY NatLessThanWellFounded
<1>2. T \subseteq Nat
  OBVIOUS
<1>3. \A x \in S : n - x \in T
  <2> SUFFICES ASSUME NEW x \in S PROVE n - x \in Nat /\ n - (n - x) \in S
    OBVIOUS
  <2> QED
    OBVIOUS
<1>4. T # {}
  BY <1>3
<1>5. \A c, d \in Nat : c < d => <<c, d>> \in R
  BY DEF OpToRel
<1> HIDE DEF R
<1>6. PICK m \in T : \A d \in T : ~(<<d, m>> \in R)
  <2> HIDE DEF T
  <2> QED
    BY <1>1, <1>2, <1>4, WFMin
<1>7. \A d \in T : m <= d
  <2> SUFFICES ASSUME NEW d \in T PROVE m <= d
    OBVIOUS
  <2>1. m \in Nat /\ d \in Nat
    BY <1>2, <1>6
  <2>2. ~(d < m)
    BY <1>5, <1>6, <2>1
  <2> QED
    BY <2>1, <2>2
<1>8. \A y \in S : n - m >= y
  <2> SUFFICES ASSUME NEW y \in S PROVE n - m >= y
    OBVIOUS
  <2>1. m <= n - y
    BY <1>3, <1>7
  <2>2. m \in Nat /\ y \in Nat
    BY <1>6
  <2> QED
    BY <2>1, <2>2
<1>9. n - m \in S
  BY <1>6
<1> QED
  BY <1>8, <1>9 DEF Max

LEMMA CurType ==
    ASSUME DOMAIN idx_expire \subseteq Nat, sweep.base \in Nat, Before(sweep.base) # {}
    PROVE  Cur \in DOMAIN idx_expire /\ Cur \in Nat /\ Cur < sweep.base
<1>1. \A x \in Before(sweep.base) : x \in Nat /\ x <= sweep.base
  BY DEF Before
<1>2. Cur \in Before(sweep.base)
  BY <1>1, MaxOfBounded DEF Cur
<1> QED
  BY <1>2 DEF Before

LEMMA SteppedType ==
    ASSUME DOMAIN idx_expire \subseteq Nat, sweep.base \in Nat, Before(sweep.base) # {},
           0 \in DOMAIN idx_expire, Cur # 0
    PROVE  Stepped(Cur) \in DOMAIN idx_expire \ {Cur}
<1>1. Cur \in Nat /\ Cur < sweep.base
  BY CurType
<1> DEFINE S == Before(sweep.base) \ {Cur}
<1>2. S \in SUBSET Nat /\ \A x \in S : x <= sweep.base
  BY DEF Before
<1>3. 0 \in S
  BY <1>1 DEF Before
<1> HIDE DEF S
<1>4. Max(S) \in S
  BY <1>2, <1>3, MaxOfBounded
<1> QED
  BY <1>4 DEF Stepped, S, Before

-----------------------------------------------------------------------------
(* The invariant.  A set that is between two of its steps has its caller   *)
(* inside the mutex, and the sweep has evicted what is missing from todo.  *)

SetInside == op # Idle => \E c \in Clients : caller[c].stage = "within"

BucketInHand ==
    sweep.pc = "evict" =>
        /\ Cur # 0
        /\ sweep.todo \subseteq idx_expire[Cur]
        /\ \A k \in idx_expire[Cur] \ sweep.todo : ~IsEntry(k)

IndexInv == IteratorValid /\ 0 \in DOMAIN idx_expire

ShardInv == TypeInv /\ ShardTypeOK /\ IndexInv /\ SetInside /\ BucketInHand

LEMMA SweepType ==
    ASSUME ShardTypeOK
    PROVE  /\ sweep.since \in Nat /\ sweep.base \in Nat
           /\ sweep.held \in BOOLEAN
           /\ sweep.pc \in {"idle", "walk", "lock", "raced", "evict"}
           /\ sweep.pc = "evict" => sweep.held /\ sweep.todo \subseteq Keys
           /\ sweep.pc # "evict" => sweep.todo = {}
           /\ sweep.pc = "idle" => ~sweep.held
BY DEF ShardTypeOK, Walker

(* Without a race, a client and the sweep are not both inside.             *)
LEMMA Alone ==
    ASSUME ShardTypeOK, ~Racing, NEW c \in Clients, caller[c] # NoCall
    PROVE  ~sweep.held
<1> SUFFICES ASSUME sweep.held PROVE FALSE
  OBVIOUS
<1>1. Inside \subseteq Clients \cup {Sweeper} /\ c \in Inside /\ Sweeper \in Inside
  BY DEF Inside
<1>2. IsFiniteSet(Clients \cup {Sweeper})
  BY ShardAssumption, FS_AddElement
<1>3. IsFiniteSet(Inside) /\ Cardinality(Inside) \in Nat
  BY <1>1, <1>2, FS_Subset, FS_CardinalityType
<1>4. c # Sweeper
  BY ShardAssumption
<1>5. IsFiniteSet({c}) /\ Cardinality({c}) = 1
  BY FS_Singleton
<1>6. Cardinality({c} \cup {Sweeper}) = 2
  BY <1>4, <1>5, FS_AddElement
<1>7. {c} \cup {Sweeper} \subseteq Inside
  BY <1>1
<1>8. Cardinality({c} \cup {Sweeper}) <= Cardinality(Inside)
  BY <1>3, <1>7, FS_Subset
<1> QED
  BY <1>3, <1>6, <1>8 DEF Racing

(* When no client is inside, no set is in progress.                        *)
LEMMA NoneInside ==
    ASSUME ShardTypeOK, SetInside, \A c \in Clients : caller[c] = NoCall
    PROVE  op = Idle
BY DEF SetInside, NoCall

LEMMA CallType ==
    ASSUME ShardTypeOK, NEW c \in Clients, caller[c].stage # "out"
    PROVE  caller[c] \in Calls /\ caller[c] # NoCall
BY DEF ShardTypeOK, NoCall, Calls

-----------------------------------------------------------------------------
(* Every step of a thread is a step of the storage or leaves it alone.     *)

LEMMA ClientImplements ==
    ASSUME ShardInv, NEW c \in Clients, ClientStep(c)
    PROVE  StoreNext \/ UNCHANGED storeVars
<1>1. CASE BeginSet(c)
  <2>1. caller[c].key \in Keys
    BY <1>1, CallType DEF BeginSet, At, ShardInv, Calls
  <2>2. (caller[c].kind = "fset") \in BOOLEAN
    OBVIOUS
  <2> QED
    BY <1>1, <2>1, <2>2 DEF BeginSet, StoreNext
<1>2. CASE ContinueSet(c)
  BY <1>2 DEF ContinueSet, StoreNext
<1>3. CASE RunGet(c)
  <2>1. caller[c].key \in Keys
    BY <1>3, CallType DEF RunGet, At, ShardInv, Calls
  <2> QED
    BY <1>3, <2>1 DEF RunGet, StoreNext
<1>4. CASE RunEvict(c)
  <2>1. caller[c].key \in Keys
    BY <1>4, CallType DEF RunEvict, At, ShardInv, Calls
  <2> QED
    BY <1>4, <2>1 DEF RunEvict, StoreNext
<1>5. CASE Unlock(c)
  BY <1>5 DEF Unlock
<1> QED
  BY <1>1, <1>2, <1>3, <1>4, <1>5 DEF ClientStep

(* The sweep removes a bucket only with the mutex to itself and none of    *)
(* the bucket's keys in use.                                               *)
LEMMA LockImplements ==
    ASSUME ShardInv, SweepLock
    PROVE  (\E b \in DOMAIN idx_expire : EraseBucket(b)) \/ UNCHANGED storeVars
<1>1. CASE UNCHANGED idx_expire
  BY <1>1 DEF SweepLock, storeVars, indexVars
<1>2. CASE Inside = {} /\ Cur # 0 /\ idx_expire[Cur] = {} /\ DropBucket(Cur)
  <2>1. \A c \in Clients : caller[c] = NoCall
    BY <1>2 DEF Inside
  <2>2. op = Idle /\ fault = "none"
    BY <2>1, NoneInside DEF ShardInv, SweepLock, Running
  <2>3. Cur \in DOMAIN idx_expire
    <3>1. sweep.pc = "lock"
      BY DEF SweepLock
    <3> QED
      BY <3>1, CurType, SweepType DEF ShardInv, IndexInv, IteratorValid, TypeInv, TypeOK
  <2>4. EraseBucket(Cur)
    BY <1>2, <2>2, <2>3 DEF SweepLock, EraseBucket, Ready
  <2> QED
    BY <2>3, <2>4
<1> QED
  BY <1>1, <1>2 DEF SweepLock

LEMMA AloneInEvict ==
    ASSUME ShardInv, Running, sweep.pc = "evict"
    PROVE  /\ Ready
           /\ Cur \in DOMAIN idx_expire \ {0}
           /\ \A c \in Clients : caller[c] = NoCall
<1>1. sweep.held
  BY SweepType DEF ShardInv
<1>2. \A c \in Clients : caller[c] = NoCall
  BY <1>1, Alone DEF ShardInv, Running
<1>3. op = Idle
  BY <1>2, NoneInside DEF ShardInv
<1>4. Cur \in DOMAIN idx_expire /\ Cur # 0
  BY CurType, SweepType DEF ShardInv, IndexInv, IteratorValid, BucketInHand, TypeInv, TypeOK
<1> QED
  BY <1>2, <1>3, <1>4 DEF Ready, Running

LEMMA SweepImplements ==
    ASSUME ShardInv, SweepStep
    PROVE  StoreNext \/ UNCHANGED storeVars
<1>1. CASE SweepSkip \/ SweepWant \/ SweepDone
  BY <1>1 DEF SweepSkip, SweepWant, SweepDone
<1>2. CASE SweepLock
  BY <1>2, LockImplements DEF StoreNext
<1>3. CASE SweepEvict
  <2>1. Ready /\ Cur \in DOMAIN idx_expire
    BY <1>3, AloneInEvict DEF SweepEvict
  <2>2. PICK k \in sweep.todo : EvictKey(k, TRUE)
    BY <1>3 DEF SweepEvict
  <2>3. k \in Keys /\ k \in idx_expire[Cur]
    BY <1>3, <2>2, SweepType DEF SweepEvict, ShardInv, BucketInHand
  <2>4. ExpireKey(k)
    BY <1>3, <2>1, <2>2, <2>3 DEF SweepEvict, ExpireKey
  <2> QED
    BY <2>3, <2>4 DEF StoreNext
<1>4. CASE SweepErase
  <2>1. Ready /\ Cur \in DOMAIN idx_expire \ {0}
    BY <1>4, AloneInEvict DEF SweepErase
  <2>2. \A k \in idx_expire[Cur] : ~IsEntry(k)
    BY <1>4 DEF SweepErase, ShardInv, BucketInHand
  <2>3. EraseBucket(Cur)
    BY <1>4, <2>1, <2>2 DEF SweepErase, EraseBucket
  <2> QED
    BY <2>1, <2>3 DEF StoreNext
<1> QED
  BY <1>1, <1>2, <1>3, <1>4 DEF SweepStep

LEMMA StepImplements == ShardInv /\ [ShardNext]_shardVars => [StoreNext]_storeVars
<1> SUFFICES ASSUME ShardInv, [ShardNext]_shardVars PROVE StoreNext \/ UNCHANGED storeVars
  OBVIOUS
<1>1. ASSUME NEW c \in Clients, NEW kind \in Kinds, NEW k \in Keys, Lock(c, kind, k)
      PROVE  UNCHANGED storeVars
  BY <1>1 DEF Lock
<1>2. CASE SweepStart \/ SweepRaces \/ UNCHANGED shardVars
  BY <1>2 DEF SweepStart, SweepRaces, shardVars
<1>3. CASE Clock
  BY <1>3 DEF Clock, StoreNext
<1> QED
  BY <1>1, <1>2, <1>3, ClientImplements, SweepImplements DEF ShardNext

-----------------------------------------------------------------------------
(* The invariant is kept.  What the steps of the storage do to the indices:*)

(* No step of a call removes a bucket.                                     *)
LEMMA EvictDomain ==
    ASSUME NEW k \in Keys, NEW skip \in BOOLEAN, EvictKey(k, skip)
    PROVE  /\ DOMAIN idx_expire \subseteq DOMAIN idx_expire'
           /\ skip => idx_expire' = idx_expire
BY DEF EvictKey, EvictNode, EvictEntry, WithBucket

LEMMA ClientDomain ==
    ASSUME ShardInv, NEW c \in Clients, ClientStep(c)
    PROVE  DOMAIN idx_expire \subseteq DOMAIN idx_expire'
<1>1. CASE BeginSet(c)
  <2>1. caller[c].key \in Keys
    BY <1>1, CallType DEF BeginSet, At, ShardInv, Calls
  <2>2. idx_expire' = idx_expire \/ EvictKey(caller[c].key, FALSE)
    BY <1>1 DEF BeginSet, SetRefused, SetAccepted, indexVars
  <2> QED
    BY <2>1, <2>2, EvictDomain
<1>2. CASE ContinueSet(c)
  BY <1>2 DEF ContinueSet, SetStep, SetNoSpace, SetNewPage, SetInPlace, SetOutOfBlocks,
              CopyBlock, SetBalance, MakeRoot, RegExpire, WithBucket, indexVars
<1>3. CASE RunGet(c)
  BY <1>3 DEF RunGet, Get, GetNull, GetFails, GetData, indexVars
<1>4. CASE RunEvict(c)
  <2>1. caller[c].key \in Keys
    BY <1>4, CallType DEF RunEvict, At, ShardInv, Calls
  <2>2. idx_expire' = idx_expire \/ EvictKey(caller[c].key, FALSE)
    BY <1>4 DEF RunEvict, Evict, EvictMiss, EvictHit, indexVars
  <2> QED
    BY <2>1, <2>2, EvictDomain
<1>5. CASE Unlock(c)
  BY <1>5 DEF Unlock, storeVars, indexVars
<1> QED
  BY <1>1, <1>2, <1>3, <1>4, <1>5 DEF ClientStep

(* An iterator that is not touched stays valid as long as no bucket goes.  *)
LEMMA IteratorKept ==
    ASSUME IndexInv, UNCHANGED sweep, DOMAIN idx_expire \subseteq DOMAIN idx_expire'
    PROVE  IndexInv'
BY DEF IndexInv, IteratorValid, Before, End

LEMMA BucketKept ==
    ASSUME BucketInHand, UNCHANGED <<idx_used, idx_expire, sweep>>
    PROVE  BucketInHand'
BY DEF BucketInHand, Cur, Before, IsEntry, Max

(* A client moves on to the next stage of its call, and nobody else does.  *)
LEMMA GoToType ==
    ASSUME ShardTypeOK, NEW c \in Clients, caller[c] \in Calls,
           NEW stage \in {"begin", "within", "done"}, GoTo(c, stage)
    PROVE  /\ ShardTypeOK'
           /\ caller'[c].stage = stage
           /\ \A d \in Clients \ {c} : caller'[d] = caller[d]
<1>1. [caller[c] EXCEPT !.stage = stage] \in Calls
  BY DEF Calls
<1>2. /\ caller' = [caller EXCEPT ![c] = [caller[c] EXCEPT !.stage = stage]]
      /\ UNCHANGED <<mux, sweep>>
  BY DEF GoTo
<1>3. [caller[c] EXCEPT !.stage = stage].stage = stage
  BY DEF Calls
<1> QED
  BY <1>1, <1>2, <1>3 DEF ShardTypeOK, Walker

LEMMA ClientInvariant ==
    ASSUME ShardInv, NEW c \in Clients, ClientStep(c)
    PROVE  ShardTypeOK' /\ IndexInv' /\ SetInside' /\ BucketInHand'
<1>1. Running /\ caller[c] \in Calls /\ caller[c] # NoCall
  BY CallType DEF ClientStep, BeginSet, ContinueSet, RunGet, RunEvict, Unlock, At, ShardInv
<1>2. UNCHANGED sweep
  BY DEF ClientStep, BeginSet, ContinueSet, RunGet, RunEvict, Unlock, GoTo
<1>3. IndexInv'
  BY <1>2, ClientDomain, IteratorKept DEF ShardInv
<1>4. BucketInHand'
  <2>1. sweep.pc # "evict"
    BY <1>1, AloneInEvict
  <2> QED
    BY <1>2, <2>1 DEF BucketInHand
<1>5. CASE Unlock(c)
  <2>1. ShardTypeOK'
    BY <1>5 DEF Unlock, ShardInv, ShardTypeOK, Walker, NoCall, Calls
  <2>2. SetInside'
    <3>1. caller[c].stage = "done" /\ op' = op
      BY <1>5 DEF Unlock, At, storeVars
    <3>2. \A d \in Clients \ {c} : caller'[d] = caller[d]
      BY <1>5 DEF Unlock, ShardInv, ShardTypeOK
    <3> QED
      BY <3>1, <3>2 DEF ShardInv, SetInside, Idle
  <2> QED
    BY <1>3, <1>4, <2>1, <2>2
<1>6. ASSUME NEW stage \in {"within", "done"}, GoTo(c, stage), op' # Idle => stage = "within"
      PROVE  ShardTypeOK' /\ SetInside'
  <2>1. ShardTypeOK' /\ caller'[c].stage = stage
    BY <1>1, <1>6, GoToType DEF ShardInv
  <2> QED
    BY <1>6, <2>1 DEF SetInside, Idle
<1>7. CASE BeginSet(c)
  <2>1. \/ GoTo(c, "within")
        \/ GoTo(c, "done") /\ op' = Idle
    BY <1>7 DEF BeginSet, SetRefused, Ready
  <2> QED
    BY <1>3, <1>4, <1>6, <2>1
<1>8. CASE ContinueSet(c)
  <2> DEFINE stage == IF op' = Idle THEN "done" ELSE "within"
  <2>1. GoTo(c, stage)
    BY <1>8 DEF ContinueSet
  <2>2. (GoTo(c, "done") /\ op' = Idle) \/ GoTo(c, "within")
    BY <2>1
  <2> QED
    BY <1>3, <1>4, <1>6, <2>2
<1>9. CASE RunGet(c) \/ RunEvict(c)
  <2>1. GoTo(c, "done")
    BY <1>9 DEF RunGet, RunEvict
  <2>2. op' = Idle
    BY <1>9 DEF RunGet, RunEvict, Get, GetNull, GetFails, GetData, Evict, EvictMiss,
                EvictHit, Ready
  <2> QED
    BY <1>3, <1>4, <1>6, <2>1, <2>2
<1> QED
  BY <1>3, <1>4, <1>5, <1>7, <1>8, <1>9 DEF ClientStep

(* The walk.  Where it removes a bucket, its iterator moves to another one.*)
LEMMA SweepInvariant ==
    ASSUME ShardInv, SweepStart \/ SweepStep \/ SweepRaces
    PROVE  ShardTypeOK' /\ IndexInv' /\ SetInside' /\ BucketInHand'
<1>1. /\ DOMAIN idx_expire \subseteq Nat /\ now \in Nat
      /\ 0 \in DOMAIN idx_expire
      /\ \A b \in DOMAIN idx_expire : idx_expire[b] \subseteq Keys
      /\ sweep.base = End \/ sweep.base \in DOMAIN idx_expire
  BY DEF ShardInv, IndexInv, IteratorValid, TypeInv, TypeOK
<1>2. /\ sweep.since \in Nat /\ sweep.base \in Nat /\ sweep.held \in BOOLEAN
      /\ sweep.pc \in {"idle", "walk", "lock", "raced", "evict"}
      /\ sweep.pc = "evict" => sweep.held /\ sweep.todo \subseteq Keys
      /\ sweep.pc # "evict" => sweep.todo = {}
  BY SweepType DEF ShardInv
<1>3. End \in Nat
  BY StoreAssumption DEF End
<1>4. UNCHANGED <<op, caller>>
  BY DEF SweepStart, SweepStep, SweepRaces, SweepSkip, SweepWant, SweepLock, SweepEvict,
         SweepErase, SweepDone, storeVars
<1>5. SetInside'
  BY <1>4 DEF SetInside, ShardInv
<1>6. SUFFICES ShardTypeOK' /\ IndexInv' /\ BucketInHand'
  BY <1>5
<1>7. ShardTypeOK /\ mux \in Clients \cup {Sweeper, Nobody}
  BY DEF ShardInv, ShardTypeOK
<1>8. CASE SweepStart \/ SweepDone
  <2>1. /\ \/ sweep' = SweepIdle
           \/ sweep' = [SweepIdle EXCEPT !.pc = "walk", !.since = now]
        /\ mux' \in {mux, Nobody}
        /\ idx_expire' = idx_expire
    BY <1>8 DEF SweepStart, SweepDone, storeVars, indexVars
  <2>2. \/ sweep' = [pc |-> "idle", since |-> 0, base |-> End, todo |-> {}, held |-> FALSE]
        \/ sweep' = [pc |-> "walk", since |-> now, base |-> End, todo |-> {}, held |-> FALSE]
    BY <2>1 DEF SweepIdle
  <2>3. ShardTypeOK' /\ sweep'.pc \in {"idle", "walk"} /\ sweep'.base = End
    <3>1. /\ \/ sweep' \in Walker({"idle"}, {{}}, {FALSE})
             \/ sweep' \in Walker({"walk", "lock", "raced"}, {{}}, BOOLEAN)
          /\ sweep'.pc \in {"idle", "walk"} /\ sweep'.base = End
      <4> DEFINE w(p, t) == [pc |-> p, since |-> t, base |-> End, todo |-> {}, held |-> FALSE]
      <4>1. /\ w("idle", 0) \in Walker({"idle"}, {{}}, {FALSE})
            /\ w("idle", 0).pc = "idle" /\ w("idle", 0).base = End
        BY <1>3 DEF Walker
      <4>2. /\ w("walk", now) \in Walker({"walk", "lock", "raced"}, {{}}, BOOLEAN)
            /\ w("walk", now).pc = "walk" /\ w("walk", now).base = End
        BY <1>1, <1>3 DEF Walker
      <4>3. sweep' = w("idle", 0) \/ sweep' = w("walk", now)
        BY <2>2
      <4> HIDE DEF w
      <4> QED
        BY <4>1, <4>2, <4>3
    <3>2. mux' \in Clients \cup {Sweeper, Nobody} /\ caller' = caller
      BY <1>4, <1>7, <2>1
    <3>3. caller \in [Clients -> {NoCall} \cup Calls]
      BY <1>7 DEF ShardTypeOK
    <3> QED
      BY <3>1, <3>2, <3>3 DEF ShardTypeOK, Walker
  <2>4. IndexInv' /\ BucketInHand'
    BY <1>1, <2>1, <2>3 DEF IndexInv, IteratorValid, BucketInHand, End
  <2> QED
    BY <2>3, <2>4
<1>9. CASE SweepSkip
  <2>1. Cur \in DOMAIN idx_expire /\ Cur \in Nat
    BY <1>1, <1>2, <1>9, CurType DEF SweepSkip
  <2>2. /\ sweep' = [sweep EXCEPT !.base = Cur] /\ sweep.pc = "walk"
        /\ UNCHANGED <<mux, idx_expire>>
    BY <1>9 DEF SweepSkip, storeVars, indexVars
  <2>3. sweep'.pc = "walk" /\ sweep'.base = Cur
    BY <1>7, <2>2 DEF ShardTypeOK, Walker
  <2>4. ShardTypeOK'
    BY <1>4, <1>7, <2>1, <2>2 DEF ShardTypeOK, Walker
  <2> QED
    BY <1>1, <2>1, <2>2, <2>3, <2>4 DEF IndexInv, IteratorValid, BucketInHand
<1>10. CASE SweepWant \/ SweepRaces
  <2>1. /\ sweep.pc = "walk"
        /\ \/ sweep' = [sweep EXCEPT !.pc = "lock"] /\ Before(sweep.base) # {}
           \/ sweep' = [sweep EXCEPT !.pc = "raced"]
        /\ UNCHANGED <<mux, idx_expire>>
    BY <1>10 DEF SweepWant, SweepRaces, storeVars, indexVars
  <2>2. /\ sweep'.base = sweep.base
        /\ \/ sweep'.pc = "lock" /\ Before(sweep.base) # {}
           \/ sweep'.pc = "raced"
    BY <1>7, <2>1 DEF ShardTypeOK, Walker
  <2>3. ShardTypeOK'
    BY <1>4, <1>7, <2>1 DEF ShardTypeOK, Walker
  <2> QED
    BY <1>1, <2>1, <2>2, <2>3 DEF IndexInv, IteratorValid, BucketInHand, Before, End
<1>11. CASE SweepLock
  <2>1. /\ sweep.pc = "lock" /\ mux' = Sweeper /\ idx_used' = idx_used
        /\ Before(sweep.base) # {}
    BY <1>11 DEF SweepLock, ShardInv, IndexInv, IteratorValid
  <2>2. Cur \in DOMAIN idx_expire /\ Cur \in Nat
    BY <1>1, <1>2, <2>1, CurType
  <2>3. CASE sweep' = [sweep EXCEPT !.held = TRUE] /\ UNCHANGED idx_expire
    <3>1. sweep'.pc = "lock" /\ sweep'.base = sweep.base
      BY <1>7, <2>1, <2>3 DEF ShardTypeOK, Walker
    <3>2. ShardTypeOK'
      BY <1>4, <1>7, <2>1, <2>3 DEF ShardTypeOK, Walker
    <3> QED
      BY <1>1, <2>1, <2>3, <3>1, <3>2 DEF IndexInv, IteratorValid, BucketInHand, Before, End
  <2>4. CASE /\ sweep' = [sweep EXCEPT !.held = TRUE, !.pc = "walk", !.base = Cur]
             /\ UNCHANGED idx_expire
    <3>1. sweep'.pc = "walk" /\ sweep'.base = Cur
      BY <1>7, <2>1, <2>4 DEF ShardTypeOK, Walker
    <3>2. ShardTypeOK'
      BY <1>4, <1>7, <2>1, <2>2, <2>4 DEF ShardTypeOK, Walker
    <3> QED
      BY <1>1, <2>2, <2>4, <3>1, <3>2 DEF IndexInv, IteratorValid, BucketInHand
  <2>5. CASE /\ Cur # 0 /\ DropBucket(Cur)
             /\ sweep' = [sweep EXCEPT !.held = TRUE, !.pc = "walk", !.base = Stepped(Cur)]
    <3>1. Stepped(Cur) \in DOMAIN idx_expire \ {Cur}
      BY <1>1, <1>2, <2>1, <2>5, SteppedType
    <3>2. sweep'.pc = "walk" /\ sweep'.base = Stepped(Cur)
      BY <1>7, <2>1, <2>5 DEF ShardTypeOK, Walker
    <3>3. ShardTypeOK'
      BY <1>1, <1>4, <1>7, <2>1, <2>5, <3>1 DEF ShardTypeOK, Walker
    <3>4. DOMAIN idx_expire' = DOMAIN idx_expire \ {Cur}
      BY <2>5 DEF DropBucket
    <3> QED
      BY <1>1, <2>5, <3>1, <3>2, <3>3, <3>4 DEF IndexInv, IteratorValid, BucketInHand
  <2>6. CASE /\ Cur # 0 /\ UNCHANGED idx_expire
             /\ sweep' = [sweep EXCEPT !.held = TRUE, !.pc = "evict", !.todo = idx_expire[Cur]]
    <3>1. sweep'.pc = "evict" /\ sweep'.base = sweep.base /\ sweep'.todo = idx_expire[Cur]
      BY <1>7, <2>1, <2>6 DEF ShardTypeOK, Walker
    <3>2. ShardTypeOK'
      BY <1>1, <1>4, <1>7, <2>1, <2>2, <2>6 DEF ShardTypeOK, Walker
    <3>3. IndexInv'
      BY <1>1, <2>1, <2>6, <3>1 DEF IndexInv, IteratorValid, Before, End
    <3>4. Cur' = Cur
      BY <2>6, <3>1 DEF Cur, Before, Max
    <3> QED
      BY <2>6, <3>1, <3>2, <3>3, <3>4 DEF BucketInHand
  <2> QED
    BY <1>11, <2>3, <2>4, <2>5, <2>6 DEF SweepLock
<1>12. CASE SweepEvict
  <2>1. PICK k \in sweep.todo : /\ EvictKey(k, TRUE)
                                /\ sweep' = [sweep EXCEPT !.todo = @ \ {k}]
    BY <1>12 DEF SweepEvict
  <2>2. sweep.pc = "evict" /\ mux' = mux /\ k \in Keys
    BY <1>2, <1>12 DEF SweepEvict
  <2>3. idx_expire' = idx_expire
    BY <2>1, <2>2, EvictDomain
  <2>4. ~IsEntry(k)' /\ \A l \in Keys : IsEntry(l)' => IsEntry(l)
    BY <2>1, <2>2 DEF EvictKey, EvictNode, EvictEntry, IsEntry, Absent, Null,
                      ShardInv, TypeInv, TypeOK
  <2>5. sweep'.pc = "evict" /\ sweep'.base = sweep.base /\ sweep'.todo = sweep.todo \ {k}
    BY <1>7, <2>1, <2>2 DEF ShardTypeOK, Walker
  <2>6. ShardTypeOK'
    BY <1>4, <1>7, <2>1, <2>2 DEF ShardTypeOK, Walker
  <2>7. IndexInv'
    BY <2>3, <2>5, <2>2 DEF ShardInv, IndexInv, IteratorValid, Before, End
  <2>8. Cur' = Cur
    BY <2>3, <2>5 DEF Cur, Before, Max
  <2>9. Cur \in DOMAIN idx_expire
    BY <1>1, <1>2, <2>2, CurType DEF ShardInv, IndexInv, IteratorValid
  <2>10. BucketInHand'
    BY <1>1, <2>2, <2>3, <2>4, <2>5, <2>8, <2>9 DEF BucketInHand, ShardInv
  <2> QED
    BY <2>6, <2>7, <2>10
<1>13. CASE SweepErase
  <2>1. /\ sweep.pc = "evict" /\ DropBucket(Cur) /\ mux' = Nobody /\ sweep.todo = {}
        /\ sweep' = [sweep EXCEPT !.held = FALSE, !.pc = "walk", !.base = Stepped(Cur)]
    BY <1>13 DEF SweepErase
  <2>2. Before(sweep.base) # {} /\ Cur # 0
    BY <2>1 DEF ShardInv, IndexInv, IteratorValid, BucketInHand
  <2>3. Stepped(Cur) \in DOMAIN idx_expire \ {Cur}
    BY <1>1, <1>2, <2>2, SteppedType
  <2>4. sweep'.pc = "walk" /\ sweep'.base = Stepped(Cur)
    BY <1>7, <2>1 DEF ShardTypeOK, Walker
  <2>5. ShardTypeOK'
    BY <1>1, <1>4, <1>7, <2>1, <2>3 DEF ShardTypeOK, Walker
  <2>6. DOMAIN idx_expire' = DOMAIN idx_expire \ {Cur}
    BY <2>1 DEF DropBucket
  <2> QED
    BY <1>1, <2>2, <2>3, <2>4, <2>5, <2>6 DEF IndexInv, IteratorValid, BucketInHand
<1> QED
  BY <1>8, <1>9, <1>10, <1>11, <1>12, <1>13 DEF SweepStep

LEMMA ShardStep == ShardInv /\ [ShardNext]_shardVars => ShardInv'
<1> SUFFICES ASSUME ShardInv, [ShardNext]_shardVars PROVE ShardInv'
  OBVIOUS
<1>1. TypeInv'
  BY StepImplements, TypeStep DEF ShardInv
<1> SUFFICES ShardTypeOK' /\ IndexInv' /\ SetInside' /\ BucketInHand'
  BY <1>1 DEF ShardInv
<1>2. ASSUME UNCHANGED <<idx_used, idx_expire, op, mux, caller, sweep>>
      PROVE  ShardTypeOK' /\ IndexInv' /\ SetInside' /\ BucketInHand'
  <2>1. IndexInv' /\ BucketInHand'
    BY <1>2, IteratorKept, BucketKept DEF ShardInv
  <2> QED
    BY <1>2, <2>1 DEF ShardInv, ShardTypeOK, Walker, SetInside
<1>3. ASSUME NEW c \in Clients, NEW kind \in Kinds, NEW k \in Keys, Lock(c, kind, k)
      PROVE  ShardTypeOK' /\ IndexInv' /\ SetInside' /\ BucketInHand'
  <2>1. /\ caller' = [caller EXCEPT ![c] = [stage |-> "begin", kind |-> kind, key |-> k]]
        /\ mux' = c /\ caller[c] = NoCall
        /\ UNCHANGED <<idx_used, idx_expire, op, sweep>>
    BY <1>3 DEF Lock, storeVars, indexVars
  <2>2. [stage |-> "begin", kind |-> kind, key |-> k] \in Calls
    BY DEF Calls
  <2>3. ShardTypeOK'
    BY <2>1, <2>2 DEF ShardInv, ShardTypeOK, Walker
  <2>4. SetInside'
    <3>1. \A d \in Clients \ {c} : caller'[d] = caller[d]
      BY <2>1 DEF ShardInv, ShardTypeOK
    <3>2. caller[c].stage = "out"
      BY <2>1 DEF NoCall
    <3> QED
      BY <2>1, <3>1, <3>2 DEF SetInside, ShardInv
  <2>5. IndexInv' /\ BucketInHand'
    BY <2>1, IteratorKept, BucketKept DEF ShardInv
  <2> QED
    BY <2>3, <2>4, <2>5
<1>4. CASE Clock \/ UNCHANGED shardVars
  BY <1>2, <1>4 DEF Clock, Tick, shardVars, storeVars, indexVars
<1> QED
  BY <1>3, <1>4, ClientInvariant, SweepInvariant DEF ShardNext

LEMMA ShardInitInv == ShardInit => ShardInv
<1> SUFFICES ASSUME ShardInit PROVE ShardInv
  OBVIOUS
<1>1. TypeInv
  BY TypeInit DEF ShardInit
<1>2. ShardTypeOK
  BY StoreAssumption DEF ShardInit, ShardTypeOK, Walker, SweepIdle, End
<1>3. IndexInv
  BY DEF ShardInit, StoreInit, IndexInv, IteratorValid, SweepIdle
<1>4. SetInside /\ BucketInHand
  BY DEF ShardInit, StoreInit, SetInside, BucketInHand, SweepIdle
<1> QED
  BY <1>1, <1>2, <1>3, <1>4 DEF ShardInv

(* The mutex, the calls and the walk are well typed in every state; in     *)
(* particular the sweep evicts with the mutex held (bulk_expire).          *)
THEOREM ShardTypeCorrect == ShardSpec => []ShardTypeOK
<1>1. ShardInv => ShardTypeOK
  BY DEF ShardInv
<1> QED
  BY <1>1, ShardInitInv, ShardStep, PTL DEF ShardSpec

(* The reverse iterator that bulk_expire keeps across lock() and across    *)
(* its own erasures is never left on an erased bucket, for any number of   *)
(* clients that change the index meanwhile.                                *)
THEOREM IteratorStaysValid == ShardSpec => []IteratorValid
<1>1. ShardInv => IteratorValid
  BY DEF ShardInv, IndexInv
<1> QED
  BY <1>1, ShardInitInv, ShardStep, PTL DEF ShardSpec

(* A shard with its threads implements the storage that is called by one   *)
(* thread at a time: each step of set, fset, get, evict and bulk_expire,   *)
(* in every interleaving up to a data race, is a step of the storage.      *)
THEOREM ShardImplementsStore == ShardSpec => StoreSpec
<1>1. ShardInit => StoreInit
  BY DEF ShardInit
<1> QED
  BY <1>1, ShardInitInv, ShardStep, StepImplements, PTL DEF ShardSpec, StoreSpec

(* So the storage of a shard stays a partition, isolated entry by entry,   *)
(* and the expiration index complete, whatever the threads do up to a data *)
(* race.                                                                   *)
THEOREM ThreadsKeepTheStore ==
    ShardSpec => [](NoOverlap /\ NoLeak /\ Isolation /\ Registered)
BY ShardImplementsStore, BlocksNeverOverlap, NothingLeaks, EntriesAreIsolated,
   AlwaysRegistered, PTL

(* If pages fill the shard and no payload exceeds one, then set, fset, get *)
(* and evict of any number of threads, and bulk_expire beside them, answer *)
(* and change what is stored as if each call were one step of the map of   *)
(* CacheSpec, in every interleaving up to a data race.                     *)
THEOREM ThreadsImplementCache ==
    ASSUME Aligned
    PROVE  ShardSpec => ImplementsCache
BY ShardImplementsStore, StoreImplementsCache, PTL

(* And there the counters of the shard stay exact, no set runs out of free *)
(* blocks, and none ends with ERR_INTERNAL, however many threads there are.*)
THEOREM ThreadsKeepTheCounts ==
    ASSUME Aligned
    PROVE  ShardSpec => [](Accounting /\ CopyFits /\ NoSpaceReported)
BY ShardImplementsStore, AccountingIsExact, CopyAlwaysFits, NoSpaceAlwaysReported, PTL

-----------------------------------------------------------------------------
(* Shards that are only used through set and get.  There bulk_expire alone *)
(* removes entries, and each removal takes the registration with it, so    *)
(* that a registration names an entry until the sweep has evicted it, no   *)
(* null node is ever made, no bucket but 0 is found empty, and the mutex   *)
(* is kept across `continue' only at the bucket 0, the end of the walk.    *)

OnlySetGet == Kinds \subseteq {"set", "get"}

InStep ==
    /\ \A b \in DOMAIN idx_expire : \A k \in idx_expire[b] :
          Evicted(b, k) \/ (IsEntry(k) /\ Bucket(idx_used[k].expire) = b)
    /\ \A b \in DOMAIN idx_expire \ {0} : idx_expire[b] # {}
NoNullNode == \A k \in Keys : idx_used[k] # Null
KeptAtEnd == sweep.held /\ sweep.pc = "walk" => sweep.base = 0

SetGetInv ==
    /\ ShardInv /\ LeakInv /\ InStep /\ NoNullNode /\ MissIsReported
    /\ KeptAtEnd /\ NoSelfDeadlock

(* Outside the loop of evictions, every registration names an entry.       *)
LEMMA InStepOutside ==
    ASSUME sweep.pc # "evict"
    PROVE  InStep <=>
             /\ \A b \in DOMAIN idx_expire : \A k \in idx_expire[b] :
                   IsEntry(k) /\ Bucket(idx_used[k].expire) = b
             /\ \A b \in DOMAIN idx_expire \ {0} : idx_expire[b] # {}
BY DEF InStep, Evicted

(* What a call of set or get does to the two indices: nothing, or it       *)
(* registers a new entry, or it extends the entry that it has made.        *)
LEMMA MakeRootInStep ==
    ASSUME TypeInv, InStep, NoNullNode, sweep.pc # "evict", UNCHANGED sweep,
           op.pc = "reserve", Unrooted, MakeRoot
    PROVE  InStep' /\ NoNullNode'
<1>1. op \in Call /\ op.key \in Keys
  BY DEF TypeInv, TypeOK, Idle, Call
<1> DEFINE expire == now + ExpireNs
           root == [node |-> "entry", total_len |-> 0, expire |-> expire,
                    chain |-> <<>>, open |-> TRUE]
<1>2. idx_used' = [idx_used EXCEPT ![op.key] = root]
  BY DEF MakeRoot
<1>3. idx_expire' = WithBucket(Bucket(expire), KeysAt(Bucket(expire)) \cup {op.key})
  BY DEF MakeRoot, RegExpire
<1>4. idx_used \in [Keys -> {Absent, Null} \cup Entry]
  BY DEF TypeInv, TypeOK
<1>5. /\ idx_used'[op.key] = root
      /\ \A k \in Keys \ {op.key} : idx_used'[k] = idx_used[k]
  BY <1>1, <1>2, <1>4
<1>6. root.node = "entry" /\ root.expire = expire /\ root # Null
  BY DEF Null
<1> HIDE DEF root
<1>7. \A b \in DOMAIN idx_expire : \A k \in idx_expire[b] :
         k \in Keys \ {op.key} /\ IsEntry(k) /\ Bucket(idx_used[k].expire) = b
  BY InStepOutside DEF Unrooted, TypeInv, TypeOK
<1>8. \A b \in DOMAIN idx_expire' : \A k \in idx_expire'[b] :
         IsEntry(k)' /\ Bucket(idx_used'[k].expire) = b
  <2> SUFFICES ASSUME NEW b \in DOMAIN idx_expire', NEW k \in idx_expire'[b]
               PROVE  IsEntry(k)' /\ Bucket(idx_used'[k].expire) = b
    OBVIOUS
  <2>1. CASE k = op.key
    <3>1. IsEntry(k)' /\ idx_used'[k].expire = expire
      BY <1>5, <1>6, <2>1 DEF IsEntry
    <3>2. b = Bucket(expire)
      <4> SUFFICES ASSUME b # Bucket(expire) PROVE FALSE
        OBVIOUS
      <4>1. b \in DOMAIN idx_expire /\ k \in idx_expire[b]
        BY <1>3 DEF WithBucket
      <4> QED
        BY <1>7, <2>1, <4>1
    <3> QED
      BY <3>1, <3>2
  <2>2. CASE k # op.key
    <3>1. b \in DOMAIN idx_expire /\ k \in idx_expire[b]
      BY <1>3, <2>2 DEF WithBucket, KeysAt
    <3> QED
      BY <1>5, <1>7, <3>1 DEF IsEntry
  <2> QED
    BY <2>1, <2>2
<1>9. \A b \in DOMAIN idx_expire' \ {0} : idx_expire'[b] # {}
  BY <1>3, InStepOutside DEF WithBucket
<1>10. NoNullNode'
  BY <1>5, <1>6 DEF NoNullNode
<1> QED
  BY <1>8, <1>9, <1>10 DEF InStep

LEMMA CopyInStep ==
    ASSUME TypeInv, InStep, NoNullNode, sweep.pc # "evict", UNCHANGED sweep, CopyBlock
    PROVE  InStep' /\ NoNullNode'
<1>1. /\ op \in Call /\ op.key \in Keys
      /\ idx_expire' = idx_expire
      /\ idx_used \in [Keys -> {Absent, Null} \cup Entry]
  BY DEF TypeInv, TypeOK, Idle, Call, CopyBlock, Copying
<1>2. PICK used, left : idx_used' = [idx_used EXCEPT ![op.key] = Extended(@, used, left)]
  BY DEF CopyBlock
<1>3. /\ idx_used'[op.key] = Extended(idx_used[op.key], used, left)
      /\ \A k \in Keys \ {op.key} : idx_used'[k] = idx_used[k]
  BY <1>1, <1>2
<1>4. /\ idx_used'[op.key].node = "entry"
      /\ idx_used'[op.key].expire = idx_used[op.key].expire
  BY <1>3 DEF Extended
<1>5. \A b \in DOMAIN idx_expire : idx_expire[b] \subseteq Keys
  BY DEF TypeInv, TypeOK
<1>6. \A b \in DOMAIN idx_expire' : \A k \in idx_expire'[b] :
         IsEntry(k)' /\ Bucket(idx_used'[k].expire) = b
  <2> SUFFICES ASSUME NEW b \in DOMAIN idx_expire, NEW k \in idx_expire[b]
               PROVE  IsEntry(k)' /\ Bucket(idx_used'[k].expire) = b
    BY <1>1
  <2>1. k \in Keys /\ IsEntry(k) /\ Bucket(idx_used[k].expire) = b
    BY <1>5, InStepOutside
  <2>2. idx_used'[k].node = "entry" /\ idx_used'[k].expire = idx_used[k].expire
    BY <1>3, <1>4, <2>1 DEF IsEntry
  <2> QED
    BY <2>1, <2>2 DEF IsEntry
<1>7. NoNullNode'
  BY <1>3, <1>4 DEF NoNullNode, Null
<1>8. \A b \in DOMAIN idx_expire' \ {0} : idx_expire'[b] # {}
  BY <1>1 DEF InStep
<1> QED
  BY <1>6, <1>7, <1>8 DEF InStep

(* Steps that leave both indices and the sweep alone.                      *)
LEMMA InStepKept ==
    ASSUME InStep, NoNullNode, UNCHANGED <<idx_used, idx_expire>>,
           (sweep.pc # "evict" /\ sweep'.pc # "evict") \/ UNCHANGED sweep
    PROVE  InStep' /\ NoNullNode'
<1>1. NoNullNode'
  BY DEF NoNullNode
<1>2. CASE sweep.pc # "evict" /\ sweep'.pc # "evict"
  <2>1. \A b \in DOMAIN idx_expire : \A k \in idx_expire[b] :
           IsEntry(k) /\ Bucket(idx_used[k].expire) = b
    BY <1>2, InStepOutside
  <2>2. \A b \in DOMAIN idx_expire' : \A k \in idx_expire'[b] :
           IsEntry(k)' /\ Bucket(idx_used'[k].expire) = b
    BY <2>1 DEF IsEntry
  <2> QED
    BY <1>1, <2>2 DEF InStep
<1>3. CASE UNCHANGED sweep
  <2>1. Cur' = Cur
    BY <1>3 DEF Cur, Before, Max
  <2>2. \A b, k : Evicted(b, k)' <=> Evicted(b, k)
    BY <1>3, <2>1 DEF Evicted
  <2> QED
    BY <1>1, <2>2 DEF InStep, IsEntry
<1> QED
  BY <1>2, <1>3

LEMMA ClientInStep ==
    ASSUME OnlySetGet, SetGetInv, NEW c \in Clients, ClientStep(c)
    PROVE  InStep' /\ NoNullNode' /\ MissIsReported'
<1>1. /\ Running /\ sweep.pc # "evict" /\ UNCHANGED sweep
      /\ caller[c] \in Calls /\ caller[c].kind \in {"set", "get"}
  <2>1. Running /\ UNCHANGED sweep /\ caller[c] \in Calls /\ caller[c] # NoCall
    BY CallType DEF ClientStep, BeginSet, ContinueSet, RunGet, RunEvict, Unlock, At, GoTo,
                    SetGetInv, ShardInv
  <2>2. sweep.pc # "evict"
    BY <2>1, AloneInEvict DEF SetGetInv
  <2> QED
    BY <2>1, <2>2 DEF OnlySetGet, Calls
<1>2. TypeInv /\ InStep /\ NoNullNode /\ Unrooted /\ fault = "none"
  BY <1>1 DEF SetGetInv, ShardInv, LeakInv, Running
<1>3. ASSUME UNCHANGED <<idx_used, idx_expire>>, fault' # "null_root"
      PROVE  InStep' /\ NoNullNode' /\ MissIsReported'
  BY <1>1, <1>2, <1>3, InStepKept DEF MissIsReported
<1>4. CASE BeginSet(c)
  <2>1. caller[c].kind # "fset"
    BY <1>1
  <2>2. PICK v \in Payloads : \/ SetRefused(caller[c].key, v, FALSE)
                              \/ SetAccepted(caller[c].key, v, FALSE)
    BY <1>4, <2>1 DEF BeginSet
  <2>3. UNCHANGED <<idx_used, idx_expire, fault>>
    BY <2>2 DEF SetRefused, SetAccepted, indexVars
  <2> QED
    BY <1>2, <1>3, <2>3
<1>5. CASE ContinueSet(c)
  <2>1. CASE SetNoSpace \/ SetOutOfBlocks \/ SetBalance
    <3>1. UNCHANGED <<idx_used, idx_expire, fault>>
      BY <2>1 DEF SetNoSpace, SetOutOfBlocks, SetBalance, indexVars
    <3> QED
      BY <1>2, <1>3, <3>1
  <2>2. CASE SetNewPage \/ SetInPlace
    <3>1. op.pc = "reserve" /\ fault' # "null_root"
      BY <1>2, <2>2 DEF SetNewPage, SetInPlace, Reserving
    <3>2. \/ UNCHANGED <<idx_used, idx_expire>>
          \/ MakeRoot
      BY <2>2 DEF SetNewPage, SetInPlace
    <3> QED
      BY <1>1, <1>2, <1>3, <3>1, <3>2, MakeRootInStep DEF MissIsReported
  <2>3. CASE CopyBlock
    <3>1. fault' = fault
      BY <2>3 DEF CopyBlock
    <3> QED
      BY <1>1, <1>2, <2>3, <3>1, CopyInStep DEF MissIsReported
  <2> QED
    BY <1>5, <2>1, <2>2, <2>3 DEF ContinueSet, SetStep
<1>6. CASE RunGet(c)
  <2>1. caller[c].key \in Keys
    BY <1>1 DEF Calls
  <2>2. PICK len \in BufLens : Get(caller[c].key, len)
    BY <1>6 DEF RunGet
  <2>3. UNCHANGED <<idx_used, idx_expire>> /\ fault' # "null_root"
    BY <1>2, <2>1, <2>2 DEF Get, GetNull, GetFails, GetData, NoNullNode, indexVars
  <2> QED
    BY <1>3, <2>3
<1>7. CASE RunEvict(c)
  BY <1>1, <1>7 DEF RunEvict, At
<1>8. CASE Unlock(c)
  BY <1>2, <1>3, <1>8 DEF Unlock, storeVars, indexVars
<1> QED
  BY <1>4, <1>5, <1>6, <1>7, <1>8 DEF ClientStep


(* The loop of evictions.  A key in hand has an entry, since no other than *)
(* the sweep removes one; once it is evicted, no other bucket names it.    *)
LEMMA EvictInStep ==
    ASSUME SetGetInv, SweepEvict
    PROVE  InStep' /\ NoNullNode' /\ MissIsReported'
<1>1. PICK k \in sweep.todo : /\ EvictKey(k, TRUE)
                              /\ sweep' = [sweep EXCEPT !.todo = @ \ {k}]
  BY DEF SweepEvict
<1>2. /\ sweep.pc = "evict" /\ sweep.todo \subseteq Keys
      /\ Cur \in DOMAIN idx_expire /\ sweep.todo \subseteq idx_expire[Cur]
  BY SweepType, AloneInEvict DEF SweepEvict, SetGetInv, ShardInv, BucketInHand
<1>3. IsEntry(k) /\ Bucket(idx_used[k].expire) = Cur
  BY <1>1, <1>2 DEF SetGetInv, InStep, Evicted
<1>4. EvictEntry(k, TRUE)
  BY <1>1, <1>3 DEF EvictKey, EvictNode
<1>5. /\ idx_expire' = idx_expire /\ fault' # "null_root"
      /\ idx_used' = [idx_used EXCEPT ![k] = Absent]
  BY <1>4 DEF EvictEntry
<1>6. idx_used \in [Keys -> {Absent, Null} \cup Entry]
  BY DEF SetGetInv, ShardInv, TypeInv, TypeOK
<1>7. \A l \in Keys \ {k} : idx_used'[l] = idx_used[l]
  BY <1>5, <1>6
<1>8. sweep'.pc = "evict" /\ sweep'.base = sweep.base /\ sweep'.todo = sweep.todo \ {k}
  BY <1>1, <1>2 DEF SetGetInv, ShardInv, ShardTypeOK, Walker
<1>9. Cur' = Cur
  BY <1>5, <1>8 DEF Cur, Before, Max
<1>10. \A b \in DOMAIN idx_expire : idx_expire[b] \subseteq Keys
  BY DEF SetGetInv, ShardInv, TypeInv, TypeOK
<1>11. \A b \in DOMAIN idx_expire' : \A l \in idx_expire'[b] :
          Evicted(b, l)' \/ (IsEntry(l)' /\ Bucket(idx_used'[l].expire) = b)
  <2> SUFFICES ASSUME NEW b \in DOMAIN idx_expire, NEW l \in idx_expire[b]
               PROVE  Evicted(b, l)' \/ (IsEntry(l)' /\ Bucket(idx_used'[l].expire) = b)
    BY <1>5
  <2>1. l \in Keys
    BY <1>10
  <2>2. CASE Evicted(b, l)
    BY <1>8, <1>9, <2>2 DEF Evicted
  <2>3. CASE ~Evicted(b, l) /\ l = k
    <3>1. b = Cur
      BY <1>3, <2>3 DEF SetGetInv, InStep
    <3> QED
      BY <1>8, <1>9, <2>3, <3>1 DEF Evicted
  <2>4. CASE ~Evicted(b, l) /\ l # k
    <3>1. IsEntry(l) /\ Bucket(idx_used[l].expire) = b
      BY <2>4 DEF SetGetInv, InStep
    <3> QED
      BY <1>7, <2>1, <2>4, <3>1 DEF IsEntry
  <2> QED
    BY <2>2, <2>3, <2>4
<1>12. NoNullNode'
  BY <1>2, <1>5, <1>6, <1>7 DEF SetGetInv, NoNullNode, Absent, Null
<1>13. \A b \in DOMAIN idx_expire' \ {0} : idx_expire'[b] # {}
  BY <1>5 DEF SetGetInv, InStep
<1> QED
  BY <1>5, <1>11, <1>12, <1>13 DEF InStep, MissIsReported

(* A bucket that is erased takes its own registrations only.               *)
LEMMA EraseInStep ==
    ASSUME SetGetInv, SweepErase
    PROVE  InStep' /\ NoNullNode'
<1>1. /\ DropBucket(Cur) /\ idx_used' = idx_used
      /\ sweep' = [sweep EXCEPT !.held = FALSE, !.pc = "walk", !.base = Stepped(Cur)]
  BY DEF SweepErase
<1>2. sweep'.pc = "walk"
  BY <1>1 DEF SetGetInv, ShardInv, ShardTypeOK, Walker
<1>3. /\ DOMAIN idx_expire' = DOMAIN idx_expire \ {Cur}
      /\ \A b \in DOMAIN idx_expire \ {Cur} : idx_expire'[b] = idx_expire[b]
  BY <1>1 DEF DropBucket
<1>4. \A b \in DOMAIN idx_expire' : \A k \in idx_expire'[b] :
         IsEntry(k)' /\ Bucket(idx_used'[k].expire) = b
  BY <1>1, <1>3 DEF SetGetInv, InStep, Evicted, IsEntry
<1>5. \A b \in DOMAIN idx_expire' \ {0} : idx_expire'[b] # {}
  BY <1>3 DEF SetGetInv, InStep
<1> QED
  BY <1>1, <1>4, <1>5 DEF InStep, SetGetInv, NoNullNode

LEMMA SweepInStep ==
    ASSUME SetGetInv, SweepStart \/ SweepStep \/ SweepRaces
    PROVE  InStep' /\ NoNullNode' /\ MissIsReported'
<1> USE DEF SetGetInv
<1>1. ShardTypeOK /\ InStep /\ NoNullNode /\ MissIsReported
  BY DEF ShardInv
<1>2. CASE SweepStart \/ SweepDone \/ SweepSkip \/ SweepWant \/ SweepRaces
  <2>1. sweep.pc # "evict" /\ UNCHANGED <<idx_used, idx_expire, fault>>
    BY <1>2 DEF SweepStart, SweepDone, SweepSkip, SweepWant, SweepRaces, storeVars, indexVars
  <2>2. CASE SweepStart \/ SweepDone
    <3>1. sweep' = SweepIdle \/ sweep' = [SweepIdle EXCEPT !.pc = "walk", !.since = now]
      BY <2>2 DEF SweepStart, SweepDone
    <3>2. /\ SweepIdle.pc # "evict"
          /\ [SweepIdle EXCEPT !.pc = "walk", !.since = now].pc # "evict"
      BY DEF SweepIdle
    <3>3. sweep'.pc # "evict"
      BY <3>1, <3>2
    <3> QED
      BY <1>1, <2>1, <3>3, InStepKept DEF MissIsReported
  <2>3. CASE SweepSkip
    <3>1. sweep' = [sweep EXCEPT !.base = Cur]
      BY <2>3 DEF SweepSkip
    <3>2. sweep'.pc # "evict"
      BY <1>1, <2>1, <3>1 DEF ShardTypeOK, Walker
    <3> QED
      BY <1>1, <2>1, <3>2, InStepKept DEF MissIsReported
  <2>4. CASE SweepWant \/ SweepRaces
    <3>1. sweep' = [sweep EXCEPT !.pc = "lock"] \/ sweep' = [sweep EXCEPT !.pc = "raced"]
      BY <2>4 DEF SweepWant, SweepRaces
    <3>2. sweep'.pc # "evict"
      BY <1>1, <3>1 DEF ShardTypeOK, Walker
    <3> QED
      BY <1>1, <2>1, <3>2, InStepKept DEF MissIsReported
  <2> QED
    BY <1>2, <2>2, <2>3, <2>4
<1>3. CASE SweepLock
  <2>1. sweep.pc = "lock" /\ UNCHANGED <<idx_used, fault>>
    BY <1>3 DEF SweepLock
  <2>2. ASSUME sweep'.pc # "evict", UNCHANGED idx_expire
        PROVE  InStep' /\ NoNullNode' /\ MissIsReported'
    BY <1>1, <2>1, <2>2, InStepKept DEF MissIsReported
  <2>3. CASE sweep' = [sweep EXCEPT !.held = TRUE] /\ UNCHANGED idx_expire
    <3>1. sweep'.pc # "evict"
      BY <1>1, <2>1, <2>3 DEF ShardTypeOK, Walker
    <3> QED
      BY <2>2, <2>3, <3>1
  <2>4. CASE /\ sweep' = [sweep EXCEPT !.held = TRUE, !.pc = "walk", !.base = Cur]
             /\ UNCHANGED idx_expire
    <3>1. sweep'.pc # "evict"
      BY <1>1, <2>1, <2>4 DEF ShardTypeOK, Walker
    <3> QED
      BY <2>2, <2>4, <3>1
  <2>5. CASE Cur # 0 /\ idx_expire[Cur] = {}
    <3>1. Cur \in DOMAIN idx_expire
      BY <2>1, CurType, SweepType DEF ShardInv, IndexInv, IteratorValid, TypeInv, TypeOK
    <3> QED
      BY <1>1, <2>5, <3>1 DEF InStep
  <2>6. CASE /\ UNCHANGED idx_expire
             /\ sweep' = [sweep EXCEPT !.held = TRUE, !.pc = "evict", !.todo = idx_expire[Cur]]
    <3>1. sweep'.base = sweep.base /\ sweep'.todo = idx_expire[Cur]
      BY <1>1, <2>1, <2>6 DEF ShardTypeOK, Walker
    <3>2. \A b \in DOMAIN idx_expire : \A k \in idx_expire[b] :
             IsEntry(k) /\ Bucket(idx_used[k].expire) = b
      BY <1>1, <2>1, InStepOutside
    <3>3. \A b \in DOMAIN idx_expire' : \A k \in idx_expire'[b] :
             IsEntry(k)' /\ Bucket(idx_used'[k].expire) = b
      BY <2>1, <2>6, <3>2 DEF IsEntry
    <3> QED
      BY <1>1, <2>1, <2>6, <3>3 DEF InStep, NoNullNode, MissIsReported
  <2> QED
    BY <1>3, <2>3, <2>4, <2>5, <2>6 DEF SweepLock
<1>4. CASE SweepErase
  <2>1. fault' = fault
    BY <1>4 DEF SweepErase
  <2> QED
    BY <1>1, <1>4, <2>1, EraseInStep DEF MissIsReported
<1> QED
  BY <1>2, <1>3, <1>4, EvictInStep DEF SweepStep

(* The mutex.  Whoever is inside when the sweep takes it makes a race.     *)
LEMMA RaceAtLock ==
    ASSUME ShardTypeOK, ShardTypeOK', ~sweep.held, Inside # {}, sweep'.held, UNCHANGED caller
    PROVE  Racing'
<1>1. PICK c \in Clients : caller[c] # NoCall
  BY DEF Inside
<1>2. caller'[c] # NoCall
  BY <1>1
<1>3. SUFFICES ASSUME ~Racing' PROVE FALSE
  OBVIOUS
<1>4. Inside' = {d \in Clients : caller'[d] # NoCall} \cup (IF sweep'.held THEN {Sweeper} ELSE {})
  BY DEF Inside
<1>5. Inside' \subseteq Clients \cup {Sweeper} /\ c \in Inside' /\ Sweeper \in Inside'
  BY <1>2, <1>4
<1>6. IsFiniteSet(Inside') /\ Cardinality(Inside') \in Nat
  <2>1. IsFiniteSet(Clients \cup {Sweeper})
    BY ShardAssumption, FS_AddElement
  <2> QED
    BY <1>5, <2>1, FS_Subset, FS_CardinalityType
<1>7. Cardinality({c} \cup {Sweeper}) = 2
  <2>1. IsFiniteSet({c}) /\ Cardinality({c}) = 1
    BY FS_Singleton
  <2>2. c # Sweeper
    BY ShardAssumption
  <2> QED
    BY <2>1, <2>2, FS_AddElement
<1>8. Cardinality({c} \cup {Sweeper}) <= Cardinality(Inside')
  BY <1>5, <1>6, FS_Subset
<1> QED
  BY <1>3, <1>6, <1>7, <1>8 DEF Racing

LEMMA MutexStep ==
    ASSUME SetGetInv, ShardInv', [ShardNext]_shardVars
    PROVE  KeptAtEnd' /\ NoSelfDeadlock'
<1>1. ShardTypeOK /\ ShardTypeOK' /\ KeptAtEnd /\ NoSelfDeadlock
  BY DEF SetGetInv, ShardInv
<1>2. CASE UNCHANGED shardVars
  <2>1. Racing' <=> Racing
    BY <1>2 DEF shardVars, Racing, Inside
  <2> QED
    BY <1>1, <1>2, <2>1 DEF shardVars, KeptAtEnd, NoSelfDeadlock
<1>3. ASSUME ~(sweep.pc = "lock" /\ sweep.held), UNCHANGED sweep
      PROVE  KeptAtEnd' /\ NoSelfDeadlock'
  BY <1>1, <1>3 DEF KeptAtEnd, NoSelfDeadlock
<1>4. ASSUME NEW c \in Clients, NEW kind \in Kinds, NEW k \in Keys, Lock(c, kind, k)
      PROVE  KeptAtEnd' /\ NoSelfDeadlock'
  BY <1>1, <1>3, <1>4 DEF Lock, Running, NoSelfDeadlock
<1>5. ASSUME NEW c \in Clients, ClientStep(c)
      PROVE  KeptAtEnd' /\ NoSelfDeadlock'
  BY <1>1, <1>3, <1>5 DEF ClientStep, BeginSet, ContinueSet, RunGet, RunEvict, Unlock, At, GoTo,
                          Running, NoSelfDeadlock
<1>6. CASE Clock
  BY <1>1, <1>3, <1>6 DEF Clock, Running, NoSelfDeadlock
<1>7. ASSUME sweep'.pc \in {"idle", "evict", "raced"} \/ ~sweep'.held
      PROVE  KeptAtEnd' /\ NoSelfDeadlock'
  BY <1>7 DEF KeptAtEnd, NoSelfDeadlock
<1>8. CASE SweepStart \/ SweepDone
  <2>1. sweep' = SweepIdle \/ sweep' = [SweepIdle EXCEPT !.pc = "walk", !.since = now]
    BY <1>8 DEF SweepStart, SweepDone
  <2>2. /\ ~SweepIdle.held
        /\ ~[SweepIdle EXCEPT !.pc = "walk", !.since = now].held
    BY DEF SweepIdle
  <2> QED
    BY <1>7, <2>1, <2>2
\* an iterator whose base is the bucket 0 is at its end
<1>9. CASE SweepSkip \/ SweepWant
  <2>1. /\ sweep.pc = "walk" /\ Before(sweep.base) # {}
        /\ \/ sweep' = [sweep EXCEPT !.base = Cur]
           \/ sweep' = [sweep EXCEPT !.pc = "lock"]
    BY <1>9 DEF SweepSkip, SweepWant
  <2>2. sweep.base # 0
    BY <2>1 DEF Before, SetGetInv, ShardInv, TypeInv, TypeOK
  <2>3. ~sweep.held
    BY <1>1, <2>1, <2>2 DEF KeptAtEnd
  <2>4. sweep'.held = sweep.held
    BY <1>1, <2>1 DEF ShardTypeOK, Walker
  <2> QED
    BY <1>7, <2>3, <2>4
<1>10. CASE SweepLock
  <2>1. sweep.pc = "lock" /\ ~Racing /\ UNCHANGED caller
    BY <1>10 DEF SweepLock, Running
  <2>2. ~sweep.held
    BY <1>1, <2>1 DEF NoSelfDeadlock
  <2>3. CASE Inside # {} /\ sweep' = [sweep EXCEPT !.held = TRUE]
    <3>1. sweep'.held /\ sweep'.pc = "lock"
      BY <1>1, <2>1, <2>3 DEF ShardTypeOK, Walker
    <3>2. Racing'
      BY <1>1, <2>1, <2>2, <2>3, <3>1, RaceAtLock
    <3> QED
      BY <3>1, <3>2 DEF KeptAtEnd, NoSelfDeadlock
  <2>4. CASE Cur = 0 /\ sweep' = [sweep EXCEPT !.held = TRUE, !.pc = "walk", !.base = Cur]
    <3>1. sweep'.pc = "walk" /\ sweep'.base = Cur
      BY <1>1, <2>1, <2>4 DEF ShardTypeOK, Walker
    <3> QED
      BY <2>4, <3>1 DEF KeptAtEnd, NoSelfDeadlock
  <2>5. CASE Cur # 0 /\ idx_expire[Cur] = {}
    <3>1. Cur \in DOMAIN idx_expire
      BY <2>1, CurType, SweepType
         DEF SetGetInv, ShardInv, IndexInv, IteratorValid, TypeInv, TypeOK
    <3> QED
      BY <2>5, <3>1 DEF SetGetInv, InStep
  <2>6. CASE sweep' = [sweep EXCEPT !.held = TRUE, !.pc = "evict", !.todo = idx_expire[Cur]]
    <3>1. sweep'.pc = "evict"
      BY <1>1, <2>1, <2>6 DEF ShardTypeOK, Walker
    <3> QED
      BY <1>7, <3>1
  <2> QED
    BY <1>10, <2>3, <2>4, <2>5, <2>6 DEF SweepLock
<1>11. CASE SweepEvict \/ SweepErase \/ SweepRaces
  <2>1. CASE SweepEvict
    <3>1. sweep.pc = "evict" /\ \E k \in sweep.todo : sweep' = [sweep EXCEPT !.todo = @ \ {k}]
      BY <2>1 DEF SweepEvict
    <3>2. sweep'.pc = "evict"
      BY <1>1, <3>1 DEF ShardTypeOK, Walker
    <3> QED
      BY <1>7, <3>2
  <2>2. CASE SweepErase
    <3>1. sweep' = [sweep EXCEPT !.held = FALSE, !.pc = "walk", !.base = Stepped(Cur)]
      BY <2>2 DEF SweepErase
    <3>2. ~sweep'.held
      BY <1>1, <3>1 DEF ShardTypeOK, Walker
    <3> QED
      BY <1>7, <3>2
  <2>3. CASE SweepRaces
    <3>1. sweep' = [sweep EXCEPT !.pc = "raced"]
      BY <2>3 DEF SweepRaces
    <3>2. sweep'.pc = "raced"
      BY <1>1, <3>1 DEF ShardTypeOK, Walker
    <3> QED
      BY <1>7, <3>2
  <2> QED
    BY <1>11, <2>1, <2>2, <2>3
<1> QED
  BY <1>2, <1>4, <1>5, <1>6, <1>8, <1>9, <1>10, <1>11 DEF ShardNext, SweepStep

LEMMA SetGetStep ==
    ASSUME OnlySetGet, SetGetInv, [ShardNext]_shardVars
    PROVE  SetGetInv'
<1>1. ShardInv'
  BY ShardStep DEF SetGetInv
<1>2. LeakInv'
  BY StepImplements, LeakStep DEF SetGetInv, ShardInv
<1>3. KeptAtEnd' /\ NoSelfDeadlock'
  BY <1>1, MutexStep
<1>4. ASSUME UNCHANGED <<idx_used, idx_expire, sweep, fault>>
      PROVE  InStep' /\ NoNullNode' /\ MissIsReported'
  BY <1>4, InStepKept DEF SetGetInv, MissIsReported
<1>5. InStep' /\ NoNullNode' /\ MissIsReported'
  <2>1. ASSUME NEW c \in Clients, NEW kind \in Kinds, NEW k \in Keys, Lock(c, kind, k)
        PROVE  InStep' /\ NoNullNode' /\ MissIsReported'
    BY <1>4, <2>1 DEF Lock, storeVars, indexVars
  <2>2. CASE Clock \/ UNCHANGED shardVars
    BY <1>4, <2>2 DEF Clock, Tick, shardVars, storeVars, indexVars
  <2> QED
    BY <2>1, <2>2, ClientInStep, SweepInStep DEF ShardNext
<1> QED
  BY <1>1, <1>2, <1>3, <1>5 DEF SetGetInv

LEMMA SetGetInit == ASSUME ShardInit PROVE SetGetInv
<1>1. ShardInv /\ LeakInv
  BY ShardInitInv, LeakInit DEF ShardInit
<1>2. /\ idx_used = [k \in Keys |-> Absent] /\ idx_expire = [b \in {0} |-> {}]
      /\ fault = "none" /\ sweep = SweepIdle
  BY DEF ShardInit, StoreInit
<1>3. sweep.pc = "idle" /\ ~sweep.held
  BY <1>2 DEF SweepIdle
<1>4. InStep /\ NoNullNode /\ MissIsReported
  BY <1>2 DEF InStep, NoNullNode, Absent, Null, MissIsReported
<1>5. KeptAtEnd /\ NoSelfDeadlock
  BY <1>3 DEF KeptAtEnd, NoSelfDeadlock
<1> QED
  BY <1>1, <1>4, <1>5 DEF SetGetInv

LEMMA SetGetAlways == ASSUME OnlySetGet PROVE ShardSpec => []SetGetInv
<1>1. SetGetInv /\ [ShardNext]_shardVars => SetGetInv'
  BY SetGetStep
<1>2. ShardInit => SetGetInv
  BY SetGetInit
<1> QED
  BY <1>1, <1>2, PTL DEF ShardSpec

(* In a shard that is only used through set and get, the two indices stay  *)
(* in step under every interleaving of any number of clients and the       *)
(* expiration thread: bulk_expire finds each entry where it is registered, *)
(* no registration outlives its entry, and no bucket but 0 stays empty.    *)
THEOREM RegistrationIsExact ==
    ASSUME OnlySetGet
    PROVE  ShardSpec => []ExactRegistration
<1>1. SetGetInv => ExactRegistration
  BY DEF SetGetInv, InStep, ExactRegistration
<1> QED
  BY <1>1, SetGetAlways, PTL

(* There a get on a key that is not in the cache reports that: __evict     *)
(* never leaves a null pointer in the place of an entry.                   *)
THEOREM MissIsAlwaysReported ==
    ASSUME OnlySetGet
    PROVE  ShardSpec => []MissIsReported
<1>1. SetGetInv => MissIsReported
  BY DEF SetGetInv
<1> QED
  BY <1>1, SetGetAlways, PTL

(* And bulk_expire never calls lock() on the mutex it holds: `continue'    *)
(* keeps the mutex only at the bucket 0, behind which nothing is left.     *)
THEOREM SweepNeverLocksTwice ==
    ASSUME OnlySetGet
    PROVE  ShardSpec => []NoSelfDeadlock
<1>1. SetGetInv => NoSelfDeadlock
  BY DEF SetGetInv
<1> QED
  BY <1>1, SetGetAlways, PTL

-----------------------------------------------------------------------------
(* What bulk_expire takes there.  Its `now' is read before the walk, and a *)
(* bucket is found due without the mutex.  When the mutex is taken, every  *)
(* bucket behind the iterator is due by that `now', or is new: it holds    *)
(* entries that were made since, with a whole lifetime before them.        *)

DueOrFresh(b) ==
    \/ b + ExpireNs <= sweep.since
    \/ \A k \in idx_expire[b] : IsEntry(k) => idx_used[k].expire >= sweep.since + ExpireNs
WalkInv ==
    /\ sweep.pc \in {"walk", "lock", "evict"} => sweep.since <= now
    /\ sweep.pc \in {"lock", "evict"} => \A b \in Before(sweep.base) : DueOrFresh(b)

(* A bucket is not before the times that are rounded up to it.             *)
LEMMA BucketIsLater == ASSUME NEW e \in Nat PROVE e <= Bucket(e)
<1> DEFINE n == e + Second - 1
           q == n \div Second
<1>1. Second \in Nat \ {0} /\ n \in Nat
  BY StoreAssumption
<1>2. n = Second * q + (n % Second) /\ n % Second \in 0..(Second - 1) /\ q \in Nat
  BY <1>1, Z3
<1>3. Bucket(e) = q * Second
  BY DEF Bucket
<1>4. q * Second = Second * q
  BY <1>1, <1>2
<1>5. Second * q \in Nat
  BY <1>1, <1>2
<1> HIDE DEF q
<1> QED
  BY <1>1, <1>2, <1>3, <1>4, <1>5

(* What a call of set or get does, once more, as far as the walk sees it.  *)
LEMMA SetGetClient ==
    ASSUME OnlySetGet, SetGetInv, NEW c \in Clients, ClientStep(c)
    PROVE  /\ sweep.pc # "evict" /\ UNCHANGED <<sweep, now>>
           /\ \/ UNCHANGED <<idx_used, idx_expire>>
              \/ op.pc = "reserve" /\ MakeRoot
              \/ CopyBlock
<1>1. /\ Running /\ UNCHANGED sweep /\ caller[c] \in Calls /\ caller[c] # NoCall
  BY CallType DEF ClientStep, BeginSet, ContinueSet, RunGet, RunEvict, Unlock, At, GoTo,
                  SetGetInv, ShardInv
<1>2. sweep.pc # "evict"
  BY <1>1, AloneInEvict DEF SetGetInv
<1>3. caller[c].kind \in {"set", "get"}
  BY <1>1 DEF OnlySetGet, Calls
<1>4. CASE BeginSet(c)
  <2>1. PICK v \in Payloads : \/ SetRefused(caller[c].key, v, FALSE)
                              \/ SetAccepted(caller[c].key, v, FALSE)
    BY <1>3, <1>4 DEF BeginSet
  <2>2. UNCHANGED <<idx_used, idx_expire, now>>
    BY <2>1 DEF SetRefused, SetAccepted, indexVars
  <2> QED
    BY <1>1, <1>2, <2>2
<1>5. CASE ContinueSet(c)
  <2>1. CASE SetNoSpace \/ SetOutOfBlocks \/ SetBalance
    BY <1>1, <1>2, <2>1 DEF SetNoSpace, SetOutOfBlocks, SetBalance, indexVars
  <2>2. CASE SetNewPage \/ SetInPlace
    BY <1>1, <1>2, <2>2 DEF SetNewPage, SetInPlace, Reserving
  <2>3. CASE CopyBlock
    BY <1>1, <1>2, <2>3 DEF CopyBlock
  <2> QED
    BY <1>5, <2>1, <2>2, <2>3 DEF ContinueSet, SetStep
<1>6. CASE RunGet(c)
  BY <1>1, <1>2, <1>6 DEF RunGet, Get, GetNull, GetFails, GetData, indexVars
<1>7. CASE RunEvict(c)
  BY <1>3, <1>7 DEF RunEvict, At
<1>8. CASE Unlock(c)
  BY <1>1, <1>2, <1>8 DEF Unlock, storeVars, indexVars
<1> QED
  BY <1>4, <1>5, <1>6, <1>7, <1>8 DEF ClientStep

(* No call removes an entry or changes its lifetime, and a key that a call *)
(* registers has a whole lifetime before it.                               *)
LEMMA EntriesStay ==
    ASSUME OnlySetGet, SetGetInv, NEW c \in Clients, ClientStep(c)
    PROVE  /\ \A k \in Keys : IsEntry(k) =>
                 IsEntry(k)' /\ idx_used'[k].expire = idx_used[k].expire
           /\ \A b \in DOMAIN idx_expire' : \A k \in idx_expire'[b] :
                 \/ b \in DOMAIN idx_expire /\ k \in idx_expire[b]
                 \/ idx_used'[k].expire = now + ExpireNs
<1>1. /\ idx_used \in [Keys -> {Absent, Null} \cup Entry]
      /\ op.pc = "reserve" => ~IsEntry(op.key)
      /\ op.pc \in {"reserve", "copy"} => op.key \in Keys
  BY DEF SetGetInv, ShardInv, LeakInv, Unrooted, TypeInv, TypeOK, Idle, Call
<1>2. CASE UNCHANGED <<idx_used, idx_expire>>
  BY <1>2 DEF IsEntry
<1>3. CASE op.pc = "reserve" /\ MakeRoot
  <2> DEFINE expire == now + ExpireNs
             root == [node |-> "entry", total_len |-> 0, expire |-> expire,
                      chain |-> <<>>, open |-> TRUE]
  <2>1. /\ idx_used' = [idx_used EXCEPT ![op.key] = root]
        /\ idx_expire' = WithBucket(Bucket(expire), KeysAt(Bucket(expire)) \cup {op.key})
    BY <1>3 DEF MakeRoot, RegExpire
  <2>2. root.expire = expire
    OBVIOUS
  <2> HIDE DEF root
  <2>3. idx_used'[op.key].expire = expire /\ \A k \in Keys \ {op.key} : idx_used'[k] = idx_used[k]
    BY <1>1, <1>3, <2>1, <2>2
  <2>4. \A k \in Keys : IsEntry(k) => k # op.key
    BY <1>1, <1>3
  <2>5. \A b \in DOMAIN idx_expire' : \A k \in idx_expire'[b] :
           (b \in DOMAIN idx_expire /\ k \in idx_expire[b]) \/ k = op.key
    BY <2>1 DEF WithBucket, KeysAt
  <2> QED
    BY <2>3, <2>4, <2>5 DEF IsEntry
<1>4. CASE CopyBlock
  <2>1. PICK used, left : idx_used' = [idx_used EXCEPT ![op.key] = Extended(@, used, left)]
    BY <1>4 DEF CopyBlock
  <2>2. op.key \in Keys /\ idx_expire' = idx_expire
    BY <1>1, <1>4 DEF CopyBlock, Copying
  <2>3. /\ idx_used'[op.key] = Extended(idx_used[op.key], used, left)
        /\ \A k \in Keys \ {op.key} : idx_used'[k] = idx_used[k]
    BY <1>1, <2>1, <2>2
  <2>4. idx_used'[op.key].node = "entry" /\ idx_used'[op.key].expire = idx_used[op.key].expire
    BY <2>3 DEF Extended
  <2> QED
    BY <2>2, <2>3, <2>4 DEF IsEntry
<1> QED
  BY <1>2, <1>3, <1>4, SetGetClient

LEMMA WalkKept ==
    ASSUME WalkInv, UNCHANGED <<idx_used, idx_expire, sweep>>,
           now \in Nat, now' \in Nat, now <= now', ShardTypeOK
    PROVE  WalkInv'
<1>1. sweep.since \in Nat
  BY SweepType
<1> QED
  BY <1>1 DEF WalkInv, Before, DueOrFresh, IsEntry

LEMMA ClientWalk ==
    ASSUME OnlySetGet, SetGetInv, WalkInv, NEW c \in Clients, ClientStep(c)
    PROVE  WalkInv'
<1>1. sweep.pc # "evict" /\ UNCHANGED <<sweep, now>>
  BY SetGetClient
<1>2. /\ now \in Nat /\ ExpireNs \in Nat /\ sweep.since \in Nat
      /\ \A b \in DOMAIN idx_expire : idx_expire[b] \subseteq Keys
  BY SweepType, StoreAssumption DEF SetGetInv, ShardInv, TypeInv, TypeOK
<1>3. \A b \in DOMAIN idx_expire : \A k \in idx_expire[b] : IsEntry(k)
  BY <1>1, InStepOutside DEF SetGetInv
<1>4. SUFFICES ASSUME sweep.pc = "lock", NEW b \in DOMAIN idx_expire', b < sweep.base
               PROVE  DueOrFresh(b)'
  BY <1>1 DEF WalkInv, Before
<1>5. sweep.since <= now
  BY <1>4 DEF WalkInv
<1>6. b \in DOMAIN idx_expire => DueOrFresh(b)
  BY <1>4 DEF WalkInv, Before
<1>7. CASE b \in DOMAIN idx_expire /\ b + ExpireNs <= sweep.since
  BY <1>1, <1>7 DEF DueOrFresh
<1>8. CASE ~(b \in DOMAIN idx_expire /\ b + ExpireNs <= sweep.since)
  <2>1. ASSUME NEW k \in idx_expire'[b]
        PROVE  idx_used'[k].expire >= sweep.since + ExpireNs
    <3>1. CASE idx_used'[k].expire = now + ExpireNs
      BY <1>2, <1>5, <3>1
    <3>2. CASE b \in DOMAIN idx_expire /\ k \in idx_expire[b]
      <4>1. k \in Keys /\ IsEntry(k)
        BY <1>2, <1>3, <3>2
      <4>2. idx_used[k].expire >= sweep.since + ExpireNs
        BY <1>6, <1>8, <3>2, <4>1 DEF DueOrFresh
      <4> QED
        BY <4>1, <4>2, EntriesStay
    <3> QED
      BY <1>4, <3>1, <3>2, EntriesStay
  <2> QED
    BY <1>1, <2>1 DEF DueOrFresh
<1> QED
  BY <1>7, <1>8

(* The walk goes from the last bucket down: if one is due, so are those    *)
(* behind it.                                                              *)
LEMMA SweepWalk ==
    ASSUME SetGetInv, WalkInv, SweepStart \/ SweepStep \/ SweepRaces
    PROVE  WalkInv'
<1>1. /\ ShardTypeOK /\ ShardTypeOK' /\ DOMAIN idx_expire \subseteq Nat
      /\ now \in Nat /\ ExpireNs \in Nat /\ sweep.since \in Nat /\ sweep.base \in Nat
  BY SweepType, SweepInvariant, StoreAssumption DEF SetGetInv, ShardInv, TypeInv, TypeOK
<1>2. now' = now
  BY DEF SweepStart, SweepStep, SweepRaces, SweepSkip, SweepWant, SweepLock, SweepEvict,
         SweepErase, SweepDone, EvictKey, storeVars
<1>3. ASSUME sweep'.pc = "walk", sweep.pc \in {"walk", "lock", "evict"},
             sweep'.since = sweep.since
      PROVE  WalkInv'
  BY <1>2, <1>3 DEF WalkInv
<1>4. ASSUME sweep'.pc \in {"idle", "raced"}
      PROVE  WalkInv'
  BY <1>4 DEF WalkInv
<1>5. CASE SweepStart
  <2>1. sweep'.pc = "walk" /\ sweep'.since = now
    BY <1>5 DEF SweepStart, SweepIdle
  <2> QED
    BY <1>1, <1>2, <2>1 DEF WalkInv
<1>6. CASE SweepDone
  BY <1>4, <1>6 DEF SweepDone, SweepIdle
<1>7. CASE SweepRaces
  <2>1. sweep'.pc = "raced"
    BY <1>1, <1>7 DEF SweepRaces, ShardTypeOK, Walker
  <2> QED
    BY <1>4, <2>1
<1>8. CASE SweepSkip
  <2>1. sweep.pc = "walk" /\ sweep'.pc = "walk" /\ sweep'.since = sweep.since
    BY <1>1, <1>8 DEF SweepSkip, ShardTypeOK, Walker
  <2> QED
    BY <1>3, <2>1
<1>9. CASE SweepWant
  <2>1. /\ sweep.pc = "walk" /\ Before(sweep.base) # {} /\ Cur + ExpireNs <= sweep.since
        /\ UNCHANGED <<idx_used, idx_expire>>
    BY <1>9 DEF SweepWant, Due, storeVars, indexVars
  <2>2. sweep'.pc = "lock" /\ sweep'.since = sweep.since /\ sweep'.base = sweep.base
    BY <1>1, <1>9 DEF SweepWant, ShardTypeOK, Walker
  <2>3. Before(sweep.base) \in SUBSET Nat /\ \A x \in Before(sweep.base) : x <= sweep.base
    BY <1>1 DEF Before
  <2>4. Cur \in Nat /\ \A b \in Before(sweep.base) : Cur >= b
    BY <2>1, <2>3, <1>1, MaxOfBounded DEF Cur
  <2>5. \A b \in Before(sweep.base) : b + ExpireNs <= sweep.since
    BY <1>1, <2>1, <2>3, <2>4
  <2> QED
    BY <1>2, <2>1, <2>2, <2>5 DEF WalkInv, DueOrFresh, Before
<1>10. CASE SweepLock
  <2>1. sweep.pc = "lock" /\ UNCHANGED idx_used
    BY <1>10 DEF SweepLock
  <2>2. /\ sweep'.since = sweep.since
        /\ sweep'.pc = "walk" \/ (sweep'.base = sweep.base /\ UNCHANGED idx_expire)
    <3>1. CASE sweep' = [sweep EXCEPT !.held = TRUE] /\ UNCHANGED idx_expire
      BY <1>1, <2>1, <3>1 DEF ShardTypeOK, Walker
    <3>2. CASE sweep' = [sweep EXCEPT !.held = TRUE, !.pc = "walk", !.base = Cur]
      BY <1>1, <2>1, <3>2 DEF ShardTypeOK, Walker
    <3>3. CASE sweep' = [sweep EXCEPT !.held = TRUE, !.pc = "walk", !.base = Stepped(Cur)]
      BY <1>1, <2>1, <3>3 DEF ShardTypeOK, Walker
    <3>4. CASE /\ sweep' = [sweep EXCEPT !.held = TRUE, !.pc = "evict",
                                         !.todo = idx_expire[Cur]]
               /\ UNCHANGED idx_expire
      BY <1>1, <2>1, <3>4 DEF ShardTypeOK, Walker
    <3> QED
      BY <1>10, <3>1, <3>2, <3>3, <3>4 DEF SweepLock
  <2>3. CASE sweep'.base = sweep.base /\ UNCHANGED idx_expire
    BY <1>2, <2>1, <2>2, <2>3 DEF WalkInv, DueOrFresh, Before, IsEntry
  <2> QED
    BY <1>3, <2>1, <2>2, <2>3
<1>11. CASE SweepEvict
  <2>1. PICK k \in sweep.todo : /\ EvictKey(k, TRUE)
                                /\ sweep' = [sweep EXCEPT !.todo = @ \ {k}]
    BY <1>11 DEF SweepEvict
  <2>2. sweep.pc = "evict" /\ k \in Keys
    BY <1>1, <1>11, SweepType DEF SweepEvict
  <2>3. sweep'.pc = "evict" /\ sweep'.since = sweep.since /\ sweep'.base = sweep.base
    BY <1>1, <2>1, <2>2 DEF ShardTypeOK, Walker
  <2>4. idx_expire' = idx_expire
    BY <2>1, <2>2, EvictDomain
  <2>5. \A l \in Keys : IsEntry(l)' => IsEntry(l) /\ idx_used'[l].expire = idx_used[l].expire
    <3>1. idx_used \in [Keys -> {Absent, Null} \cup Entry]
      BY DEF SetGetInv, ShardInv, TypeInv, TypeOK
    <3>2. /\ idx_used'[k].node # "entry"
          /\ \A l \in Keys \ {k} : idx_used'[l] = idx_used[l]
      BY <2>1, <2>2, <3>1 DEF EvictKey, EvictNode, EvictEntry, Absent, Null
    <3> QED
      BY <3>2 DEF IsEntry
  <2>6. \A b \in DOMAIN idx_expire : idx_expire[b] \subseteq Keys
    BY DEF SetGetInv, ShardInv, TypeInv, TypeOK
  <2>7. ASSUME NEW b \in Before(sweep.base), DueOrFresh(b)
        PROVE  DueOrFresh(b)'
    <3>1. b \in DOMAIN idx_expire
      BY <2>7 DEF Before
    <3> QED
      BY <2>3, <2>4, <2>5, <2>6, <2>7, <3>1 DEF DueOrFresh
  <2>8. Before(sweep.base)' = Before(sweep.base)
    BY <2>3, <2>4 DEF Before
  <2> QED
    BY <1>2, <2>2, <2>3, <2>7, <2>8 DEF WalkInv
<1>12. CASE SweepErase
  <2>1. sweep.pc = "evict"
    BY <1>12 DEF SweepErase
  <2>2. sweep'.pc = "walk" /\ sweep'.since = sweep.since
    BY <1>1, <1>12, <2>1 DEF SweepErase, ShardTypeOK, Walker
  <2> QED
    BY <1>3, <2>1, <2>2
<1> QED
  BY <1>5, <1>6, <1>7, <1>8, <1>9, <1>10, <1>11, <1>12 DEF SweepStep

LEMMA WalkStep ==
    ASSUME OnlySetGet, SetGetInv, WalkInv, [ShardNext]_shardVars
    PROVE  WalkInv'
<1>1. ShardTypeOK /\ now \in Nat
  BY DEF SetGetInv, ShardInv, TypeInv, TypeOK
<1>2. ASSUME NEW c \in Clients, NEW kind \in Kinds, NEW k \in Keys, Lock(c, kind, k)
      PROVE  WalkInv'
  BY <1>1, <1>2, WalkKept DEF Lock, storeVars, indexVars
<1>3. CASE Clock \/ UNCHANGED shardVars
  BY <1>1, <1>3, WalkKept DEF Clock, Tick, shardVars, storeVars, indexVars
<1> QED
  BY <1>2, <1>3, ClientWalk, SweepWalk DEF ShardNext

(* The only step that removes an entry is an eviction of the sweep, of a   *)
(* key from the last bucket behind the iterator.                           *)
LEMMA TakenStep ==
    ASSUME OnlySetGet, SetGetInv, WalkInv, [ShardNext]_shardVars,
           NEW k \in Keys, IsEntry(k), ~IsEntry(k)'
    PROVE  \/ idx_used[k].expire < now
           \/ idx_used[k].expire >= sweep.since + ExpireNs
<1>1. SweepEvict
  <2>1. ASSUME UNCHANGED idx_used PROVE FALSE
    BY <2>1 DEF IsEntry
  <2>2. ASSUME NEW c \in Clients, ClientStep(c) PROVE FALSE
    BY <2>2, EntriesStay
  <2>3. ASSUME NEW c \in Clients, NEW kind \in Kinds, NEW l \in Keys, Lock(c, kind, l)
        PROVE  FALSE
    BY <2>1, <2>3 DEF Lock, storeVars, indexVars
  <2> QED
    BY <2>1, <2>2, <2>3
       DEF ShardNext, SweepStart, SweepStep, SweepRaces, SweepSkip, SweepWant, SweepLock,
           SweepErase, SweepDone, Clock, Tick, shardVars, storeVars, indexVars
<1>2. PICK l \in sweep.todo : EvictKey(l, TRUE)
  BY <1>1 DEF SweepEvict
<1>3. /\ sweep.pc = "evict" /\ sweep.todo \subseteq Keys
      /\ Cur \in DOMAIN idx_expire /\ sweep.todo \subseteq idx_expire[Cur]
  BY <1>1, SweepType, AloneInEvict DEF SweepEvict, SetGetInv, ShardInv, BucketInHand
<1>4. /\ idx_used \in [Keys -> {Absent, Null} \cup Entry]
      /\ DOMAIN idx_expire \subseteq Nat
      /\ now \in Nat /\ ExpireNs \in Nat /\ ExpireNs > 0
      /\ sweep.since \in Nat /\ sweep.base \in Nat
  BY SweepType, StoreAssumption DEF SetGetInv, ShardInv, TypeInv, TypeOK
<1>5. l = k
  <2>1. \A m \in Keys \ {l} : idx_used'[m] = idx_used[m]
    BY <1>2, <1>3, <1>4 DEF EvictKey, EvictNode, EvictEntry
  <2> QED
    BY <2>1 DEF IsEntry
<1>6. Bucket(idx_used[k].expire) = Cur /\ idx_used[k].expire \in Nat
  BY <1>3, <1>4, <1>5 DEF SetGetInv, InStep, Evicted, IsEntry, Absent, Null, Entry
<1>7. idx_used[k].expire <= Cur
  BY <1>6, BucketIsLater
<1>8. Cur \in Before(sweep.base)
  <2>1. Before(sweep.base) # {}
    BY <1>3 DEF SetGetInv, ShardInv, IndexInv, IteratorValid
  <2> QED
    BY <1>4, <2>1, CurType DEF Before
<1>9. DueOrFresh(Cur) /\ sweep.since <= now
  BY <1>3, <1>8 DEF WalkInv
<1>10. CASE Cur + ExpireNs <= sweep.since
  <2>1. Cur \in Nat
    BY <1>3, <1>4
  <2> QED
    BY <1>4, <1>6, <1>7, <1>9, <1>10, <2>1
<1> QED
  BY <1>3, <1>5, <1>9, <1>10 DEF DueOrFresh

(* In a shard that is only used through set and get, an entry goes only    *)
(* when its time is up, unless it was made since the sweep began, however  *)
(* the clients change the index between the look at a bucket and lock().   *)
THEOREM SweepTakesOnlyExpired ==
    ASSUME OnlySetGet
    PROVE  ShardSpec => TakesOnlyExpired
<1>1. ShardInit => WalkInv
  BY DEF ShardInit, SweepIdle, WalkInv
<1>2. SetGetInv /\ WalkInv /\ [ShardNext]_shardVars => WalkInv'
  BY WalkStep
<1>3. SetGetInv /\ WalkInv /\ [ShardNext]_shardVars =>
         [\A k \in Keys : IsEntry(k) /\ ~IsEntry(k)' =>
             \/ idx_used[k].expire < now
             \/ idx_used[k].expire >= sweep.since + ExpireNs]_shardVars
  BY TakenStep
<1> QED
  BY <1>1, <1>2, <1>3, SetGetAlways, PTL DEF ShardSpec, TakesOnlyExpired
============================================================================
