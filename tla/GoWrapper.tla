----------------------------- MODULE GoWrapper -----------------------------
(***************************************************************************)
(* The Go wrapper (cbigcache.go): goroutines that call Set, Get and Free   *)
(* of one CBigCache, which keeps two fields without any synchronisation:   *)
(* `alive', and `maxBufSize', from which Get takes the size of its buffer. *)
(*                                                                         *)
(* A call goes on in steps wherever another goroutine can come between:    *)
(* the test of `alive', the reading of `maxBufSize', the call into C and   *)
(* the update.  The C++ cache behind export.cpp is one map here, and each  *)
(* call of it one step, as the mutex of a shard makes it; of an entry only *)
(* its length is kept (ShardStore has the bytes).  The null node that the  *)
(* expiration of a stale registration leaves, and that crashes the next    *)
(* call for its key, is left to Shard (its run ShardMiss).                 *)
(***************************************************************************)
EXTENDS Naturals, FiniteSets

CONSTANTS
    Goroutines,
    Keys,
    Slices,     \* the []byte values that are stored
    SliceLen,   \* len() of each
    ByteLens    \* what byte_len may find: the place of the first zero byte in
                \* the slice, or, if it has none, in the memory behind it

ASSUME GoAssumption ==
    /\ IsFiniteSet(Goroutines)
    /\ SliceLen \in [Slices -> Nat]
    /\ ByteLens \in [Slices -> SUBSET Nat]

VARIABLES
    alive,
    maxBufSize,
    calls,      \* the call that each goroutine is in
    object,     \* the BigCache: "live", "deleting" or "deleted"
    force_set,  \* its configuration
    entries,    \* what it holds
    result,     \* what the last call of each goroutine returned
    racing,     \* history: "set" if two Sets have overlapped, "get" if a Get
                \* has with a Set, "free" if a Free has with any call
    fault       \* "none", or the undefined behaviour that was reached

goVars == <<alive, maxBufSize, calls, object, force_set, entries, result, racing, fault>>

Absent == [node |-> "absent"]
Entry == [node : {"entry"}, len : Nat, slice : Slices, whole : BOOLEAN]
Present(k) == entries[k] # Absent

NoCall == [pc |-> "out"]
SetPcs == {"set", "test", "update"}
GetPcs == {"alloc", "get"}
FreePcs == {"free", "delete", "join"}
Call == {NoCall} \cup [pc : SetPcs, key : Keys, slice : Slices] \cup [pc : {"alloc"}, key : Keys]
          \cup [pc : {"get"}, key : Keys, lenMax : Nat \ {0, 1}] \cup [pc : FreePcs]
Busy(pcs) == {g \in Goroutines : calls[g].pc \in pcs}

GoInit ==
    /\ alive = TRUE
    /\ maxBufSize = 1
    /\ calls = [g \in Goroutines |-> NoCall]
    /\ object = "live"
    /\ force_set \in BOOLEAN
    /\ entries = [k \in Keys |-> Absent]
    /\ result = [g \in Goroutines |-> [err |-> "OK", len |-> 0]]
    /\ racing = {}
    /\ fault = "none"

-----------------------------------------------------------------------------
(* Beginning and end of a call.                                            *)

At(g, pc) == fault = "none" /\ calls[g].pc = pc
GoTo(g, pc) == calls' = [calls EXCEPT ![g].pc = pc]
Return(g, err, len) ==
    /\ calls' = [calls EXCEPT ![g] = NoCall]
    /\ result' = [result EXCEPT ![g] = [err |-> err, len |-> len]]

(* Every method tests `alive' first.                                       *)
Begin(g, call, races) ==
    /\ At(g, "out") /\ alive
    /\ calls' = [calls EXCEPT ![g] = call]
    /\ racing' = racing \cup races
    /\ UNCHANGED <<force_set, alive, maxBufSize, object, entries, result, fault>>

Refused(g) ==
    /\ At(g, "out") /\ ~alive
    /\ Return(g, "CACHE_IS_DEAD", 0)
    /\ UNCHANGED <<force_set, alive, maxBufSize, object, entries, racing, fault>>

(* A call that overlaps with others.  A Free is met until it has cleared   *)
(* the flag.                                                               *)
Meets(kind, pcs) == IF Busy(pcs) # {} THEN {kind} ELSE {}

(* A call into C with the handler of a deleted cache.                      *)
UsesDeleted(g) ==
    /\ object = "deleted"
    /\ fault' = "deleted"
    /\ UNCHANGED <<force_set, alive, maxBufSize, calls, object, entries, result, racing>>

-----------------------------------------------------------------------------
(* Set.                                                                    *)

SetBegin(g, k, s) ==
    /\ SliceLen[s] > 0
    /\ Begin(g, [pc |-> "set", key |-> k, slice |-> s],
             Meets("set", SetPcs) \cup Meets("get", GetPcs) \cup Meets("free", {"free"}))

(* &data[0] of an empty slice panics.                                      *)
SetPanics(g, s) ==
    /\ At(g, "out") /\ alive /\ SliceLen[s] = 0
    /\ Return(g, "PANIC", 0)
    /\ UNCHANGED <<force_set, alive, maxBufSize, object, entries, racing, fault>>

(* cbc_set: refused, stored, or failed.  A failed forced set has evicted   *)
(* the old entry; one that runs out of blocks leaves an entry of the bytes *)
(* that it could copy, maybe none.                                         *)
Lengths(g) == ByteLens[calls[g].slice] \ {0}

SetEmpty(g) ==
    /\ 0 \in ByteLens[calls[g].slice]
    /\ Return(g, "BUF_LEN_LOW", 0)
    /\ UNCHANGED <<force_set, alive, maxBufSize, object, entries, racing, fault>>

SetExists(g) ==
    /\ ~force_set /\ Present(calls[g].key)
    /\ Return(g, "KEY_EXISTS", 0)
    /\ UNCHANGED <<force_set, alive, maxBufSize, object, entries, racing, fault>>

SetNoSpace(g) ==
    /\ force_set \/ ~Present(calls[g].key)
    /\ entries' = [entries EXCEPT ![calls[g].key] = Absent]
    /\ Return(g, "NO_SPACE", 0)
    /\ UNCHANGED <<force_set, alive, maxBufSize, object, racing, fault>>

(* The entry of a set that is accepted.                                    *)
Made(g, len, whole) ==
    /\ force_set \/ ~Present(calls[g].key)
    /\ entries' = [entries EXCEPT ![calls[g].key] =
                     [node |-> "entry", len |-> len, slice |-> calls[g].slice, whole |-> whole]]

(* The free blocks run out before the last byte.                           *)
SetInternal(g) ==
    /\ \E n \in Lengths(g) : \E len \in 0..(n - 1) : Made(g, len, FALSE)
    /\ Return(g, "INTERNAL", 0)
    /\ UNCHANGED <<force_set, alive, maxBufSize, object, racing, fault>>

SetStored(g) ==
    /\ \E n \in Lengths(g) : Made(g, n, TRUE)
    /\ GoTo(g, "test")
    /\ UNCHANGED <<force_set, alive, maxBufSize, object, result, racing, fault>>

SetInC(g) ==
    /\ At(g, "set")
    /\ \/ UsesDeleted(g)
       \/ object # "deleted" /\ SetEmpty(g)
       \/ /\ object # "deleted" /\ Lengths(g) # {}
          /\ SetExists(g) \/ SetNoSpace(g) \/ SetInternal(g) \/ SetStored(g)

BugSetTest(g) ==
    /\ At(g, "test")
    /\ GoTo(g, "update")
    /\ UNCHANGED <<force_set, alive, maxBufSize, object, entries, result, racing, fault>>

(* The maximum is tested, and then written.                                *)
SetTest(g) ==
    /\ At(g, "test")
    /\ IF SliceLen[calls[g].slice] > maxBufSize
       THEN GoTo(g, "update") /\ UNCHANGED result
       ELSE Return(g, "OK", 0)
    /\ UNCHANGED <<force_set, alive, maxBufSize, object, entries, racing, fault>>

SetUpdate(g) ==
    /\ At(g, "update")
    /\ maxBufSize' = SliceLen[calls[g].slice]
    /\ Return(g, "OK", 0)
    /\ UNCHANGED <<force_set, alive, object, entries, racing, fault>>

-----------------------------------------------------------------------------
(* Get.                                                                    *)

GetBegin(g, k) ==
    Begin(g, [pc |-> "alloc", key |-> k], Meets("get", SetPcs) \cup Meets("free", {"free"}))

BugGetAlloc(g) ==
    /\ At(g, "alloc")
    /\ calls' = [calls EXCEPT ![g] = [pc |-> "get", key |-> @.key, lenMax |-> maxBufSize]]
    /\ UNCHANGED <<force_set, alive, maxBufSize, object, entries, result, racing, fault>>

(* One byte more than the maximum, for the zero byte.                      *)
GetAlloc(g) ==
    /\ At(g, "alloc")
    /\ calls' = [calls EXCEPT ![g] = [pc |-> "get", key |-> @.key, lenMax |-> maxBufSize + 1]]
    /\ UNCHANGED <<force_set, alive, maxBufSize, object, entries, result, racing, fault>>

GetError(k, len) ==
    IF ~Present(k) \/ entries[k].len = 0 THEN {"KEY_NOT_FOUND"}
    ELSE {"KEY_EXPIRED", IF entries[k].len > len THEN "BUF_LEN_LOW" ELSE "OK"}

(* cbc_get: the bytes and a zero byte behind them, which does not fit when *)
(* the entry is as long as the buffer.  The slice returned ends before the *)
(* first zero byte.                                                        *)
GetFails(g) ==
    /\ \E err \in GetError(calls[g].key, calls[g].lenMax) \ {"OK"} : Return(g, err, 0)
    /\ UNCHANGED <<force_set, alive, maxBufSize, object, entries, racing, fault>>

GetData(g) ==
    /\ "OK" \in GetError(calls[g].key, calls[g].lenMax)
    /\ LET len == entries[calls[g].key].len IN
       IF len < calls[g].lenMax
       THEN Return(g, "OK", len) /\ UNCHANGED fault
       ELSE fault' = "spill" /\ UNCHANGED <<calls, result>>
    /\ UNCHANGED <<force_set, alive, maxBufSize, object, entries, racing>>

GetInC(g) ==
    /\ At(g, "get")
    /\ \/ UsesDeleted(g)
       \/ object # "deleted" /\ (GetFails(g) \/ GetData(g))

-----------------------------------------------------------------------------
(* Free: the flag first, then the destructor, which takes its time to join *)
(* its threads.                                                            *)

FreeBegin(g) ==
    Begin(g, [pc |-> "free"], Meets("free", SetPcs \cup GetPcs \cup FreePcs))

BugFreeClear(g) ==
    /\ At(g, "free")
    /\ GoTo(g, "delete")
    /\ UNCHANGED <<force_set, alive, maxBufSize, object, entries, result, racing, fault>>

FreeClear(g) ==
    /\ At(g, "free")
    /\ alive' = FALSE
    /\ GoTo(g, "delete")
    /\ UNCHANGED <<force_set, maxBufSize, object, entries, result, racing, fault>>

FreeDelete(g) ==
    /\ At(g, "delete")
    /\ \/ /\ object = "live"
          /\ object' = "deleting"
          /\ GoTo(g, "join")
          /\ UNCHANGED fault
       \/ /\ object # "live"
          /\ fault' = "deleted"
          /\ UNCHANGED <<object, calls>>
    /\ UNCHANGED <<force_set, alive, maxBufSize, entries, result, racing>>

FreeReturn(g) ==
    /\ At(g, "join")
    /\ object' = "deleted"
    /\ Return(g, "OK", 0)
    /\ UNCHANGED <<force_set, alive, maxBufSize, entries, racing, fault>>

-----------------------------------------------------------------------------
(* The cache evicts an entry that has expired.                             *)
Expire(k) ==
    /\ fault = "none" /\ object # "deleted" /\ Present(k)
    /\ entries' = [entries EXCEPT ![k] = Absent]
    /\ UNCHANGED <<force_set, alive, maxBufSize, calls, object, result, racing, fault>>

GoStep(g) ==
    \/ Refused(g)
    \/ \E s \in Slices : SetPanics(g, s) \/ \E k \in Keys : SetBegin(g, k, s)
    \/ \E k \in Keys : GetBegin(g, k)
    \/ FreeBegin(g)
    \/ SetInC(g) \/ SetTest(g) \/ SetUpdate(g)
    \/ GetAlloc(g) \/ GetInC(g)
    \/ FreeClear(g) \/ FreeDelete(g) \/ FreeReturn(g)

GoNext == (\E g \in Goroutines : GoStep(g)) \/ (\E k \in Keys : Expire(k))

GoSpec == GoInit /\ [][GoNext]_goVars

-----------------------------------------------------------------------------
(* The fields hold what they are for; a buffer has at least two bytes.     *)
GoTypeOK ==
    /\ alive \in BOOLEAN
    /\ maxBufSize \in Nat \ {0}
    /\ calls \in [Goroutines -> Call]
    /\ object \in {"live", "deleting", "deleted"}
    /\ force_set \in BOOLEAN
    /\ entries \in [Keys -> {Absent} \cup Entry]
    /\ racing \subseteq {"set", "get", "free"}
    /\ fault \in {"none", "deleted", "spill"}

(* What an entry of an ordinary set is: stored completely, and byte_len    *)
(* found a zero byte in the slice or right behind it.                      *)
Ordinary(e) == e # Absent /\ e.whole /\ e.len <= SliceLen[e.slice]

(* When no two Sets ever overlap, the buffer of a Get is large enough for  *)
(* every ordinary entry whose Set has returned, without the byte for the   *)
(* terminator (cbigcache.go:77: the maximum is tested and written without  *)
(* synchronisation, so of two Sets the smaller may win).                   *)
BufferIsEnough ==
    "set" \notin racing =>
      \A k \in Keys : Ordinary(entries[k]) =>
        \/ entries[k].len <= maxBufSize
        \/ \E g \in Busy({"test", "update"}) : calls[g].slice = entries[k].slice

(* The terminator of a Get lands behind its buffer (shard.cpp:245) only if *)
(* Sets have overlapped with it or with each other, or if the entry is     *)
(* not an ordinary one.                                                    *)
SpillNeedsRace ==
    fault = "spill" =>
      \/ racing \cap {"set", "get"} # {}
      \/ \E g \in Busy({"get"}) : ~Ordinary(entries[calls[g].key])

(* An application that lets its other calls return before it calls Free,   *)
(* once, never uses the deleted cache, not even with calls made while the  *)
(* destructor waits for its threads, or later (cbigcache.go:53: the flag   *)
(* is cleared before the cache is deleted, but nothing waits for calls).   *)
FreeIsSafeAlone == fault = "deleted" => "free" \in racing
=============================================================================
