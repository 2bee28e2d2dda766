-------------------------------- MODULE Shard --------------------------------
(***************************************************************************)
(* One shard as its threads see it: the mutex `mux', the client threads in *)
(* set, fset, get and evict, and the expiration thread in bulk_expire.     *)
(*                                                                         *)
(* set, fset, get and evict take the mutex, run the private function and   *)
(* give the mutex back.  bulk_expire walks the expiration index from the   *)
(* last bucket down WITHOUT the mutex and takes it for each bucket that is *)
(* due.  A reverse_iterator is kept as its base, the bucket above the one  *)
(* it denotes, which is looked up again each time the iterator is used.    *)
(*                                                                         *)
(* Two threads inside the mutex, or a read of the index during a write to  *)
(* it, are data races: the behaviour ends there (Racing).                  *)
(***************************************************************************)
EXTENDS ShardStore, FiniteSetsExt

CONSTANTS
    Clients,    \* threads of the application
    Sweeper,    \* the thread that runs bulk_expire for this shard
    Nobody,
    Kinds       \* the calls the clients make: "set", "fset", "get", "evict"

ASSUME ShardAssumption ==
    /\ IsFiniteSet(Clients)
    /\ Sweeper \notin Clients
    /\ Nobody \notin Clients \cup {Sweeper}
    /\ Kinds \subseteq {"set", "fset", "get", "evict"}

VARIABLES
    mux,        \* who locked the mutex
    caller,     \* [Clients -> the call that runs inside the mutex, or NoCall]
    sweep       \* bulk_expire: pc, its `now', its iterator, the keys to evict

shardVars == <<storeVars, mux, caller, sweep>>

NoCall == [stage |-> "out"]
Calls == [stage : {"begin", "within", "done"}, kind : Kinds, key : Keys]

(* `held': the sweep has taken the mutex and not yet given it back.        *)
End == MaxNow + ExpireNs + Second      \* base of rbegin(), above any bucket
SweepIdle == [pc |-> "idle", since |-> 0, base |-> End, todo |-> {}, held |-> FALSE]

ShardInit ==
    /\ StoreInit
    /\ mux = Nobody
    /\ caller = [c \in Clients |-> NoCall]
    /\ sweep = SweepIdle

Inside == {c \in Clients : caller[c] # NoCall}
            \cup (IF sweep.held THEN {Sweeper} ELSE {})
Racing == Cardinality(Inside) > 1 \/ sweep.pc = "raced"
Running == ~Racing /\ fault = "none"

-----------------------------------------------------------------------------
(* set, fset, get and evict of the class. *)

Lock(c, kind, k) ==
    /\ Running /\ mux = Nobody /\ caller[c] = NoCall
    /\ mux' = c
    /\ caller' = [caller EXCEPT ![c] = [stage |-> "begin", kind |-> kind, key |-> k]]
    /\ UNCHANGED <<storeVars, sweep>>

At(c, stage, kinds) == Running /\ caller[c].stage = stage /\ caller[c].kind \in kinds
GoTo(c, stage) ==
    /\ caller' = [caller EXCEPT ![c].stage = stage]
    /\ UNCHANGED <<mux, sweep>>

BeginSet(c) ==
    /\ At(c, "begin", {"set", "fset"})
    /\ \E v \in Payloads :
          LET force == caller[c].kind = "fset"
          IN  \/ SetRefused(caller[c].key, v, force) /\ GoTo(c, "done")
              \/ SetAccepted(caller[c].key, v, force) /\ GoTo(c, "within")

ContinueSet(c) ==
    /\ At(c, "within", {"set", "fset"})
    /\ SetStep
    /\ GoTo(c, IF op' = Idle THEN "done" ELSE "within")

RunGet(c) ==
    /\ At(c, "begin", {"get"})
    /\ \E len \in BufLens : Get(caller[c].key, len)
    /\ GoTo(c, "done")

RunEvict(c) ==
    /\ At(c, "begin", {"evict"})
    /\ Evict(caller[c].key)
    /\ GoTo(c, "done")

Unlock(c) ==
    /\ At(c, "done", Kinds)
    /\ mux' = Nobody
    /\ caller' = [caller EXCEPT ![c] = NoCall]
    /\ UNCHANGED <<storeVars, sweep>>

ClientStep(c) == BeginSet(c) \/ ContinueSet(c) \/ RunGet(c) \/ RunEvict(c) \/ Unlock(c)

-----------------------------------------------------------------------------
(* bulk_expire. *)

(* The buckets before the iterator's base, and the one it denotes.         *)
Before(base) == {b \in DOMAIN idx_expire : b < base}
Cur == Max(Before(sweep.base))
BugDueAtOnce == Cur <= sweep.since
Due == Cur + ExpireNs <= sweep.since

(* ++it after the bucket `gone' was erased: the base moves down to what is *)
(* then the bucket before it, so that bucket is passed over.               *)
BugStepsOntoErased(gone) == Max(Before(sweep.base))
Stepped(gone) == Max(Before(sweep.base) \ {gone})

SweepStart ==
    /\ Running /\ sweep.pc = "idle"
    /\ sweep' = [SweepIdle EXCEPT !.pc = "walk", !.since = now]
    /\ UNCHANGED <<storeVars, mux, caller>>

SweepSkip ==                           \* this bucket is not due
    /\ Running /\ sweep.pc = "walk"
    /\ Before(sweep.base) # {} /\ ~Due
    /\ sweep' = [sweep EXCEPT !.base = Cur]
    /\ UNCHANGED <<storeVars, mux, caller>>

SweepWant ==                           \* it is: call lock()
    /\ Running /\ sweep.pc = "walk"
    /\ Before(sweep.base) # {} /\ Due
    /\ sweep' = [sweep EXCEPT !.pc = "lock"]
    /\ UNCHANGED <<storeVars, mux, caller>>

(* The iterator is used again once the mutex is taken.  A bucket without   *)
(* keys is erased, the bucket 0 is left; both continue with the mutex held.*)
SweepLock ==
    /\ Running /\ sweep.pc = "lock" /\ mux = Nobody
    /\ mux' = Sweeper
    /\ \/ /\ Inside # {}               \* someone is still inside: a race
          /\ sweep' = [sweep EXCEPT !.held = TRUE]
          /\ UNCHANGED idx_expire
       \/ /\ Inside = {} /\ Cur = 0
          /\ sweep' = [sweep EXCEPT !.held = TRUE, !.pc = "walk", !.base = Cur]
          /\ UNCHANGED idx_expire
       \/ /\ Inside = {} /\ Cur # 0 /\ idx_expire[Cur] = {}
          /\ DropBucket(Cur)
          /\ sweep' = [sweep EXCEPT !.held = TRUE, !.pc = "walk", !.base = Stepped(Cur)]
       \/ /\ Inside = {} /\ Cur # 0 /\ idx_expire[Cur] # {}
          /\ sweep' = [sweep EXCEPT !.held = TRUE, !.pc = "evict", !.todo = idx_expire[Cur]]
          /\ UNCHANGED idx_expire
    /\ UNCHANGED <<idx_used, idx_free, sizeVars, mem, now, op, reply, given, fault, caller>>

SweepEvict ==                          \* one __evict of the loop
    /\ Running /\ sweep.pc = "evict"
    /\ \E k \in sweep.todo :
          /\ EvictKey(k, TRUE)
          /\ sweep' = [sweep EXCEPT !.todo = @ \ {k}]
    /\ UNCHANGED <<op, reply, mux, caller>>

(* Variants of the end of the loop: the bucket is kept; the loop is left   *)
(* early; the mutex is not given back.                                     *)
BugErase(drop, early, owner) ==
    /\ Running /\ sweep.pc = "evict" /\ (sweep.todo = {} \/ early)
    /\ IF drop THEN DropBucket(Cur) ELSE UNCHANGED idx_expire
    /\ mux' = owner
    /\ sweep' = [sweep EXCEPT !.held = owner # Nobody, !.pc = "walk", !.base = Stepped(Cur)]
    /\ UNCHANGED <<idx_used, idx_free, sizeVars, mem, now, op, reply, given, fault, caller>>
BugEraseForgotten == BugErase(FALSE, FALSE, Nobody)
BugEraseEarly == BugErase(TRUE, TRUE, Nobody)
BugUnlockForgotten == BugErase(TRUE, FALSE, mux)

SweepErase ==                          \* the loop is over: erase, unlock, ++it
    /\ Running /\ sweep.pc = "evict" /\ sweep.todo = {}
    /\ DropBucket(Cur)
    /\ mux' = Nobody
    /\ sweep' = [sweep EXCEPT !.held = FALSE, !.pc = "walk", !.base = Stepped(Cur)]
    /\ UNCHANGED <<idx_used, idx_free, sizeVars, mem, now, op, reply, given, fault, caller>>

SweepDone ==                           \* rend(): unlock, locked or not
    /\ Running /\ sweep.pc = "walk" /\ Before(sweep.base) = {}
    /\ mux' = Nobody
    /\ sweep' = SweepIdle
    /\ UNCHANGED <<storeVars, caller>>

(* The walk reads the index while a client may be changing it.             *)
SweepRaces ==
    /\ Running /\ sweep.pc = "walk" /\ ~sweep.held
    /\ \E c \in Clients : /\ caller[c].stage \in {"begin", "within"}
                          /\ caller[c].kind # "get"
    /\ sweep' = [sweep EXCEPT !.pc = "raced"]
    /\ UNCHANGED <<storeVars, mux, caller>>

SweepStep == SweepSkip \/ SweepWant \/ SweepLock \/ SweepEvict \/ SweepErase \/ SweepDone

Clock == Running /\ Tick /\ UNCHANGED <<mux, caller, sweep>>

ShardNext ==
    \/ \E c \in Clients, kind \in Kinds, k \in Keys : Lock(c, kind, k)
    \/ \E c \in Clients : ClientStep(c)
    \/ SweepStart \/ SweepStep \/ SweepRaces
    \/ Clock

ShardSpec == ShardInit /\ [][ShardNext]_shardVars

(* A thread that has started a call, or a sweep, goes on.  No promise is   *)
(* made that a call is ever made, or that a contended mutex is won.        *)
FairShardSpec ==
    /\ ShardSpec
    /\ \A c \in Clients : WF_shardVars(ClientStep(c))
    /\ WF_shardVars(SweepStep)

-----------------------------------------------------------------------------
(* Properties. *)

Walker(pcs, todos, helds) ==
    [pc : pcs, since : Nat, base : Nat, todo : todos, held : helds]

ShardTypeOK ==
    /\ mux \in Clients \cup {Sweeper, Nobody}
    /\ caller \in [Clients -> {NoCall} \cup Calls]
    /\ sweep \in Walker({"idle"}, {{}}, {FALSE})
                \cup Walker({"walk", "lock", "raced"}, {{}}, BOOLEAN)
                \cup Walker({"evict"}, SUBSET Keys, {TRUE})

(* Although set and evict change the expiration index between two steps of *)
(* the walk, and the walk itself erases buckets, the reverse_iterator that *)
(* bulk_expire keeps is never left on an erased bucket, and it denotes an  *)
(* existing one whenever it is used after lock().                          *)
IteratorValid ==
    /\ sweep.base = End \/ sweep.base \in DOMAIN idx_expire
    /\ sweep.pc \in {"lock", "evict"} => Before(sweep.base) # {}

(* In a shard that is only used through set and get, bulk_expire is the    *)
(* one that removes entries, and the two indices stay in step: a key is    *)
(* registered exactly while it has an entry, in the bucket of that entry,  *)
(* and no bucket but 0 is empty.                                           *)
Evicted(b, k) == sweep.pc = "evict" /\ b = Cur /\ k \notin sweep.todo
ExactRegistration ==
    ~Racing =>
        /\ \A b \in DOMAIN idx_expire : \A k \in idx_expire[b] :
              Evicted(b, k) \/ (IsEntry(k) /\ Bucket(idx_used[k].expire) = b)
        /\ \A b \in DOMAIN idx_expire \ {0} : idx_expire[b] # {}

(* There an entry goes only when it has expired, or when it was set after  *)
(* the sweep began: the bucket that bulk_expire found due before lock() is *)
(* looked up again behind it, and may be a newer one by then.              *)
TakesOnlyExpired ==
    [][ \A k \in Keys : IsEntry(k) /\ ~IsEntry(k)' =>
          \/ idx_used[k].expire < now
          \/ idx_used[k].expire >= sweep.since + ExpireNs ]_shardVars

(* The mutex always becomes free again: no thread keeps it for ever, and   *)
(* none waits for the mutex that it holds itself.                          *)
LockComesFree == []<>(mux = Nobody \/ ~Running)

(* A set that is inside its loop over the free index comes out again: the  *)
(* loop, which appends to that index, ends whatever it finds there, and    *)
(* also when it finds nothing more (shard.cpp:133-182).                    *)
SetReturns == []<>(op = Idle \/ ~Running)

(* "Mutex to acquire access to write in the shard": two threads are never  *)
(* between lock() and unlock() at the same time.                           *)
MutualExclusion == Cardinality(Inside) <= 1

(* bulk_expire never calls lock() on the mutex it holds: it comes to its   *)
(* end and returns an error code.  (A race leaves it at lock() as well.)   *)
NoSelfDeadlock == sweep.pc = "lock" /\ sweep.held => Racing
=============================================================================
