----------------------------- MODULE ShardStore -----------------------------
(***************************************************************************)
(* The storage of one cache shard (class Shard): the pages, the used index *)
(* with its linked lists of blocks, the FIFO index of free blocks, the     *)
(* expiration index, the size counters, and the private functions that     *)
(* change them (__set, __get, __evict, reg_expire, page_reserve).  The     *)
(* caller holds the mutex, so one call is in progress at a time; module    *)
(* Shard adds the mutex, the threads and the walk of bulk_expire.          *)
(*                                                                         *)
(* __set runs in steps (check, reserve, one step per copied block,         *)
(* balance): `op' is the call in progress.  A step that has undefined      *)
(* behaviour or kills the process sets `fault', and nothing follows it.    *)
(*                                                                         *)
(* A definition named Bug... is its neighbour with a plausible mistake in  *)
(* it.  The specification does not use it; putting it in place shows which *)
(* property notices.                                                       *)
(***************************************************************************)
EXTENDS Integers, Sequences, FiniteSets

CONSTANTS
    Keys,        \* the hashes of the keys that map to this shard
    Payloads,    \* the byte strings that are stored
    PayloadLen,  \* byte_len of each of them: the place of its first zero byte
    BufLens,     \* the buffer lengths that __get is called with
    SzMax,       \* sz_max, the size of the shard
    PagePrcnt,   \* DEF_SHARD_PAGE_SIZE_PRCNT, 10 in the code
    ExpireNs,    \* expire_ns, the lifetime of an entry
    Second,      \* the ticks of one second, to which buckets are rounded
    Epoch,       \* the clock when the shard is constructed
    MaxNow,      \* bound on the clock
    Word         \* 2^64, scaled down

SzPage  == (SzMax * PagePrcnt) \div 100   \* sz_page

BugPageCntExact == 100 \div PagePrcnt
PageCnt == 100 \div PagePrcnt + 1         \* pages prepared by the constructor

ASSUME StoreAssumption ==
    /\ PayloadLen \in [Payloads -> Nat]
    /\ BufLens \subseteq Nat
    /\ SzMax \in Nat
    /\ PagePrcnt \in 1..100
    /\ SzPage > 0              \* in a smaller shard the first set divides by zero
    /\ {ExpireNs, Epoch, MaxNow} \subseteq Nat
    /\ Second \in Nat \ {0}
    /\ ExpireNs >= Second      \* MIN_EXPIRE_NS is one second
    /\ Epoch >= ExpireNs       \* the UNIX epoch is further away than a lifetime
    /\ Word \in Nat
    /\ Word > SzMax            \* the size of a shard is a uint64
    \* no sum of sizes comes near 2^64
    /\ \A v \in Payloads : PageCnt * SzPage + SzMax + PayloadLen[v] < Word

VARIABLES
    idx_used,       \* [Keys -> no node, a node with nullptr, or an entry]
    idx_free,       \* sequence of free blocks, taken at the front
    idx_expire,     \* [bucket time -> keys registered there]
    sz_used,        \* uint64 counters
    sz_free,
    sz_alloc,       \* also addr_hi: the two grow together
    page_init_cnt,  \* pages reserved so far
    mem,            \* the bytes at the shard's internal addresses
    now,            \* unix_time_now_ns()
    op,             \* the __set in progress, or Idle
    reply,          \* what the last finished call returned
    given,          \* history: the payload of the latest entry made for a key
    fault           \* "none", or the undefined behaviour that was reached

indexVars == <<idx_used, idx_free, idx_expire>>
sizeVars  == <<sz_used, sz_free, sz_alloc, page_init_cnt>>
storeVars == <<indexVars, sizeVars, mem, now, op, reply, given, fault>>

-----------------------------------------------------------------------------
(* Sizes, addresses and 64-bit arithmetic. *)

BugSignedSub(a, b) == a - b
U64Sub(a, b) == IF a >= b THEN a - b ELSE a - b + Word
U64Add(a, b) == IF a + b < Word THEN a + b ELSE a + b - Word

Addr == 0..(SzMax - 1)

Block == [offset : Nat, len : Nat]
Cells(b) == b.offset .. (b.offset + b.len - 1)

(* set_byte and get_byte ignore an address in a page not yet reserved; a   *)
(* new page is not initialised, its bytes are Junk until they are written. *)
Reserved(a) == a \div SzPage < page_init_cnt
Junk == <<"junk">>
Zero == <<"zero">>
GetByte(a) == IF Reserved(a) THEN mem[a] ELSE Zero

(* Byte j of payload v. *)
PayloadByte(v, j) == <<v, j>>

-----------------------------------------------------------------------------
(* The used index.  A key has no node, a node whose pointer is null (left  *)
(* by operator[] of the map), or an entry.  `open' tells that the last     *)
(* node of the entry's list is allocated but not filled in.                *)

Absent == [node |-> "absent"]
Null   == [node |-> "null"]
Entry  == [node : {"entry"}, total_len : Nat, expire : Nat,
           chain : Seq(Block), open : BOOLEAN]

Counted(k) == idx_used[k] # Absent          \* idx_used.count(key) > 0
IsEntry(k) == idx_used[k].node = "entry"

(* The expiration index: a map from a time to the keys registered at it.   *)
(* The code rounds up in a double, which drops the last hundreds of        *)
(* nanoseconds of today's times: a time just behind a full second may be   *)
(* put under that second.  Here the rounding is exact.                     *)
Bucket(e) == ((e + Second - 1) \div Second) * Second   \* ceil to a second
KeysAt(e) == IF e \in DOMAIN idx_expire THEN idx_expire[e] ELSE {}
WithBucket(e, ks) == [b \in DOMAIN idx_expire \cup {e} |->
                        IF b = e THEN ks ELSE idx_expire[b]]

BugRegExpireResets(e, k) == idx_expire' = WithBucket(Bucket(e), {k})
RegExpire(e, k) == idx_expire' = WithBucket(Bucket(e), KeysAt(Bucket(e)) \cup {k})

Idle == [pc |-> "idle"]
Call == [pc : {"reserve", "copy", "balance"}, key : Keys, val : Payloads,
         remained : Nat]

Errors == {"OK", "NO_SPACE", "INTERNAL", "KEY_NOT_FOUND", "KEY_EXPIRED",
           "KEY_EXISTS", "BUF_LEN_LOW"}
Reply(k, err) ==
    reply' = [key |-> k, err |-> err, data |-> <<>>, spill |-> FALSE]

StoreInit ==
    /\ idx_used = [k \in Keys |-> Absent]
    /\ idx_free = << [offset |-> 0, len |-> SzMax] >>
    /\ idx_expire = [b \in {0} |-> {}]      \* std::map{{}} has one element, 0
    /\ sz_used = 0
    /\ sz_free = SzMax
    /\ sz_alloc = SzPage                    \* page_reserve()
    /\ page_init_cnt = 1
    /\ mem = [a \in Addr |-> Junk]
    /\ now = Epoch
    /\ op = Idle
    /\ reply \in [key : Keys, err : {"OK"}, data : {<<>>}, spill : {FALSE}]
    /\ given = [k \in Keys |-> Junk]
    /\ fault = "none"

-----------------------------------------------------------------------------
(* __evict after its existence check.  Without an entry operator[] leaves  *)
(* a null node.  With one, the balances are corrected, the registration is *)
(* looked up under the exact expiration time, and the blocks go to the end *)
(* of the free index.  The unfilled node of an open list holds whatever    *)
(* the allocator left in it: zeroes, or garbage that the walk follows.     *)
BlankBlock == [offset |-> 0, len |-> 0]

EvictNode(k) ==
    /\ ~IsEntry(k)
    /\ idx_used' = [idx_used EXCEPT ![k] = Null]
    /\ UNCHANGED <<idx_free, idx_expire, sz_used, sz_free, fault>>

EvictEntry(k, skip_idx_clear) ==
    /\ IsEntry(k)
    /\ LET root == idx_used[k]
       IN  /\ sz_used' = U64Sub(sz_used, root.total_len)
           /\ sz_free' = U64Add(sz_free, root.total_len)
           /\ idx_expire' = IF skip_idx_clear THEN idx_expire
                            ELSE WithBucket(root.expire, KeysAt(root.expire) \ {k})
           /\ idx_free' = idx_free \o (IF root.open THEN Append(root.chain, BlankBlock)
                                       ELSE root.chain)
           /\ fault' \in (IF root.open THEN {"none", "garbage_node"} ELSE {"none"})
    /\ idx_used' = [idx_used EXCEPT ![k] = Absent]

EvictKey(k, skip_idx_clear) ==
    /\ EvictNode(k) \/ EvictEntry(k, skip_idx_clear)
    /\ UNCHANGED <<sz_alloc, page_init_cnt, mem, now, given>>

-----------------------------------------------------------------------------
(* __set, first part: the length and the existence of the key. *)

Ready == op = Idle /\ fault = "none"

SetRefused(k, v, force) ==
    /\ Ready
    /\ \/ PayloadLen[v] = 0 /\ Reply(k, "BUF_LEN_LOW")
       \/ PayloadLen[v] > 0 /\ Counted(k) /\ ~force /\ Reply(k, "KEY_EXISTS")
    /\ UNCHANGED <<indexVars, sizeVars, mem, now, op, given, fault>>

SetAccepted(k, v, force) ==
    /\ Ready
    /\ PayloadLen[v] > 0
    /\ \/ ~Counted(k) /\ UNCHANGED <<indexVars, sizeVars, mem, now, given, fault>>
       \/ Counted(k) /\ force /\ EvictKey(k, FALSE)
    /\ op' = [pc |-> "reserve", key |-> k, val |-> v, remained |-> PayloadLen[v]]
    /\ UNCHANGED reply

(* Second part: at most one new page, the root, its registration. *)

Room == U64Sub(sz_alloc, sz_used)
BugExceededWithout == sz_used > SzMax
Exceeded == U64Add(sz_used, op.remained) > SzMax

MakeRoot ==
    LET expire == now + ExpireNs
    IN  /\ idx_used' = [idx_used EXCEPT ![op.key] =
                          [node |-> "entry", total_len |-> 0, expire |-> expire,
                           chain |-> <<>>, open |-> TRUE]]
        /\ RegExpire(expire, op.key)
        /\ given' = [given EXCEPT ![op.key] = op.val]
        /\ op' = [op EXCEPT !.pc = "copy"]

PageReserve ==
    /\ sz_alloc' = sz_alloc + SzPage
    /\ page_init_cnt' = page_init_cnt + 1

Reserving == op.pc = "reserve" /\ fault = "none"

SetNoSpace ==
    /\ Reserving /\ Room < op.remained /\ Exceeded
    /\ Reply(op.key, "NO_SPACE")
    /\ op' = Idle
    /\ UNCHANGED <<indexVars, sizeVars, mem, now, given, fault>>

SetNewPage ==
    /\ Reserving /\ Room < op.remained /\ ~Exceeded
    /\ IF page_init_cnt < PageCnt
       THEN PageReserve /\ MakeRoot /\ UNCHANGED fault
       ELSE /\ fault' = "no_page"           \* data[] yields a null page
            /\ UNCHANGED <<sz_alloc, page_init_cnt, idx_used, idx_expire, given, op>>
    /\ UNCHANGED <<idx_free, sz_used, sz_free, mem, now, reply>>

SetInPlace ==
    /\ Reserving /\ Room >= op.remained
    /\ MakeRoot
    /\ UNCHANGED <<idx_free, sizeVars, mem, now, reply, fault>>

(* Third part, one iteration: the front free block is used up, or its rest *)
(* goes to the end of the free index.  front() of the empty list reads its *)
(* size field, 0, as the pointer: the nullptr test sees it and throws.     *)

Copying == op.pc = "copy" /\ fault = "none"

BugWaitsForBlock == Copying /\ idx_free = <<>> /\ UNCHANGED storeVars
SetOutOfBlocks ==
    /\ Copying /\ idx_free = <<>>
    /\ Reply(op.key, "INTERNAL")
    /\ op' = Idle
    /\ UNCHANGED <<indexVars, sizeVars, mem, now, given, fault>>

Taken == IF op.remained > Head(idx_free).len THEN Head(idx_free).len ELSE op.remained

BugRestAtFront ==
    [offset |-> Head(idx_free).offset, len |-> Head(idx_free).len - Taken]
BugRestTooShort ==
    [offset |-> Head(idx_free).offset + Taken + 1, len |-> Head(idx_free).len - Taken - 1]
Rest == LET f == Head(idx_free)
        IN  [offset |-> f.offset + Taken, len |-> f.len - Taken]

BugKeepsFront ==
    IF Head(idx_free).len > Taken THEN Append(idx_free, Rest) ELSE Tail(idx_free)
FreeAfter ==
    IF Head(idx_free).len > Taken THEN Append(Tail(idx_free), Rest) ELSE Tail(idx_free)

Extended(root, used, left) ==
    [node |-> "entry", total_len |-> root.total_len + used.len, expire |-> root.expire,
     chain |-> Append(root.chain, used), open |-> left > 0]

(* while (remained > 0), with an unsigned remained.                        *)
AfterBlock(left) == IF left > 0 THEN "copy" ELSE "balance"

CopyBlock ==
    /\ Copying /\ idx_free # <<>>
    /\ LET f    == Head(idx_free)
           used == [offset |-> f.offset, len |-> Taken]
           left == op.remained - Taken
       IN  /\ idx_used' = [idx_used EXCEPT ![op.key] = Extended(@, used, left)]
           /\ mem' = [a \in Addr |-> IF a \in Cells(used) /\ Reserved(a)
                                     THEN PayloadByte(op.val, a - f.offset)
                                     ELSE mem[a]]
           /\ idx_free' = FreeAfter
           /\ op' = [op EXCEPT !.remained = left,
                               !.pc = AfterBlock(left)]
    /\ UNCHANGED <<idx_expire, sizeVars, now, reply, given, fault>>

BugBalanceOfRemained ==
    /\ op.pc = "balance" /\ fault = "none"
    /\ sz_free' = U64Sub(sz_free, op.remained)
    /\ sz_used' = U64Add(sz_used, op.remained)
    /\ Reply(op.key, "OK")
    /\ op' = Idle
    /\ UNCHANGED <<indexVars, sz_alloc, page_init_cnt, mem, now, given, fault>>

SetBalance ==
    /\ op.pc = "balance" /\ fault = "none"
    /\ sz_free' = U64Sub(sz_free, PayloadLen[op.val])
    /\ sz_used' = U64Add(sz_used, PayloadLen[op.val])
    /\ Reply(op.key, "OK")
    /\ op' = Idle
    /\ UNCHANGED <<indexVars, sz_alloc, page_init_cnt, mem, now, given, fault>>

SetStep == \/ SetNoSpace \/ SetNewPage \/ SetInPlace
           \/ SetOutOfBlocks \/ CopyBlock \/ SetBalance

-----------------------------------------------------------------------------
(* __get: the checks, then the blocks of the list one after the other and  *)
(* a zero byte behind them.  reply.data has one segment per block.         *)

BugGetErrorTooSoon(k, len) ==
    LET root == idx_used[k]
    IN  IF ~Counted(k) THEN "KEY_NOT_FOUND"
        ELSE IF root.total_len = 0 THEN "KEY_NOT_FOUND"
        ELSE IF root.expire <= now THEN "KEY_EXPIRED"
        ELSE IF root.total_len > len THEN "BUF_LEN_LOW"
        ELSE "OK"
GetError(k, len) ==
    LET root == idx_used[k]
    IN  IF ~Counted(k) THEN "KEY_NOT_FOUND"
        ELSE IF root.total_len = 0 THEN "KEY_NOT_FOUND"
        ELSE IF root.expire < now THEN "KEY_EXPIRED"
        ELSE IF root.total_len > len THEN "BUF_LEN_LOW"
        ELSE "OK"

Content(k) ==
    LET chain == idx_used[k].chain
    IN  [i \in 1..Len(chain) |->
            [j \in 1..chain[i].len |-> GetByte(chain[i].offset + j - 1)]]

GetNull(k) ==                               \* root->total_len of a null root
    /\ Ready /\ idx_used[k] = Null
    /\ fault' = "null_root"
    /\ UNCHANGED <<indexVars, sizeVars, mem, now, op, reply, given>>

GetFails(k, len) ==
    /\ Ready /\ idx_used[k] # Null /\ GetError(k, len) # "OK"
    /\ Reply(k, GetError(k, len))
    /\ UNCHANGED <<indexVars, sizeVars, mem, now, op, given, fault>>

GetData(k, len) ==
    /\ Ready /\ idx_used[k] # Null /\ GetError(k, len) = "OK"
    /\ reply' = [key |-> k, err |-> "OK", data |-> Content(k),
                 spill |-> idx_used[k].total_len >= len]
    /\ fault' \in (IF idx_used[k].open THEN {"none", "garbage_node"} ELSE {"none"})
    /\ UNCHANGED <<indexVars, sizeVars, mem, now, op, given>>

Get(k, len) == GetNull(k) \/ GetFails(k, len) \/ GetData(k, len)

-----------------------------------------------------------------------------
(* evict, with the existence check of __evict. *)

EvictMiss(k) ==
    /\ Ready /\ ~Counted(k)
    /\ Reply(k, "KEY_NOT_FOUND")
    /\ UNCHANGED <<indexVars, sizeVars, mem, now, op, given, fault>>

EvictHit(k) ==
    /\ Ready /\ Counted(k)
    /\ EvictKey(k, FALSE)
    /\ Reply(k, IF IsEntry(k) THEN "OK" ELSE "KEY_NOT_FOUND")
    /\ UNCHANGED op

Evict(k) == EvictMiss(k) \/ EvictHit(k)

(* The two things bulk_expire does to the store: __evict of a key that it  *)
(* found in a bucket, without check and index clearing, and the removal of *)
(* a bucket none of whose keys is left.  The bucket 0 is never removed.    *)
(* Which buckets, and when, is decided by the walk in module Shard.        *)

DropBucket(b) == idx_expire' = [e \in DOMAIN idx_expire \ {b} |-> idx_expire[e]]

ExpireKey(k) ==
    /\ Ready
    /\ \E b \in DOMAIN idx_expire : k \in idx_expire[b]
    /\ EvictKey(k, TRUE)
    /\ UNCHANGED <<op, reply>>

EraseBucket(b) ==
    /\ Ready
    /\ b \in DOMAIN idx_expire \ {0}
    /\ \A k \in idx_expire[b] : ~IsEntry(k)
    /\ DropBucket(b)
    /\ UNCHANGED <<idx_used, idx_free, sizeVars, mem, now, op, reply, given, fault>>

Tick ==
    /\ fault = "none" /\ now < MaxNow
    /\ now' = now + 1
    /\ UNCHANGED <<indexVars, sizeVars, mem, op, reply, given, fault>>

StoreNext ==
    \/ \E k \in Keys, v \in Payloads, force \in BOOLEAN :
          SetRefused(k, v, force) \/ SetAccepted(k, v, force)
    \/ SetStep
    \/ \E k \in Keys, len \in BufLens : Get(k, len)
    \/ \E k \in Keys : Evict(k) \/ ExpireKey(k)
    \/ \E b \in DOMAIN idx_expire : EraseBucket(b)
    \/ Tick

StoreSpec == StoreInit /\ [][StoreNext]_storeVars

-----------------------------------------------------------------------------
(* Properties. *)

TypeOK ==
    /\ idx_used \in [Keys -> {Absent, Null} \cup Entry]
    /\ idx_free \in Seq(Block)
    /\ DOMAIN idx_expire \subseteq Nat
    /\ idx_expire \in [DOMAIN idx_expire -> SUBSET Keys]
    /\ {sz_used, sz_free} \subseteq 0..(Word - 1)
    /\ {sz_alloc, page_init_cnt, now} \subseteq Nat
    /\ DOMAIN mem = Addr
    /\ op \in {Idle} \cup Call
    /\ reply.err \in Errors
    /\ given \in [Keys -> Payloads \cup {Junk}]
    /\ fault \in {"none", "no_page", "null_root", "garbage_node"}

Chain(k) == IF IsEntry(k) THEN idx_used[k].chain ELSE <<>>
Disjoint(b, c) == Cells(b) \cap Cells(c) = {}

(* No byte of the shard belongs to two blocks, free or used, of one list   *)
(* or of two: __set never hands out an address that an entry still owns,   *)
(* however sets, forced sets, evictions, expirations and sets that failed  *)
(* half-way have cut up and recycled the free index.                       *)
NoOverlap ==
    /\ \A i, j \in DOMAIN idx_free : i # j => Disjoint(idx_free[i], idx_free[j])
    /\ \A k \in Keys : \A i \in DOMAIN Chain(k), j \in DOMAIN idx_free :
          Disjoint(Chain(k)[i], idx_free[j])
    /\ \A k, l \in Keys : \A i \in DOMAIN Chain(k), j \in DOMAIN Chain(l) :
          <<k, i>> # <<l, j>> => Disjoint(Chain(k)[i], Chain(l)[j])

UsedAddrs == {a \in Addr : \E k \in Keys : \E i \in DOMAIN Chain(k) :
                              a \in Cells(Chain(k)[i])}
FreeAddrs == {a \in Addr : \E i \in DOMAIN idx_free : a \in Cells(idx_free[i])}

(* No byte of the shard is lost: every address lies in a block of the free *)
(* index or of an entry, so evicting everything always makes the whole     *)
(* shard available again.                                                  *)
NoLeak == UsedAddrs \cup FreeAddrs = Addr

(* Whatever happens to the addresses under an entry, __get on one key      *)
(* never returns a byte that was stored under another key or by an earlier *)
(* set of this key: a byte of a block is the byte of the payload its entry *)
(* was made for at that place of the block, or was never written at all.   *)
Isolation ==
    \A k \in Keys : \A i \in DOMAIN Chain(k) :
        \A a \in Cells(Chain(k)[i]) :
            mem[a] \in {PayloadByte(given[k], a - Chain(k)[i].offset), Junk}

(* The expiration index forgets no entry: each is registered in the bucket *)
(* of its expiration time, where bulk_expire will find it, although evict  *)
(* looks registrations up under another time than reg_expire writes them.  *)
Registered ==
    \A k \in Keys : IsEntry(k) => k \in KeysAt(Bucket(idx_used[k].expire))

(* The constructor prepares enough pages: page_reserve never indexes past  *)
(* them, although __set asks for a page whenever the allocated space, not  *)
(* the page count, runs short.                                             *)
PagesSuffice == fault # "no_page"

(* Between calls sz_used counts the bytes that entries own and sz_free the *)
(* rest of the shard ("Usage size of the shard", "Free size on shard").    *)
Accounting ==
    op = Idle /\ fault = "none" =>
        /\ sz_used = Cardinality(UsedAddrs)
        /\ sz_free = SzMax - sz_used

(* A set that has passed the space check finds the bytes it needs in the   *)
(* free index: it never runs out of blocks half-way, with ERR_INTERNAL, a  *)
(* partial entry and a list that ends in an unfilled node.                 *)
CopyFits == op.pc = "copy" => op.remained <= Cardinality(FreeAddrs)

(* "sent and received data isn't equal": what __get copies out for an      *)
(* entry that was set completely is the payload that was set, from its     *)
(* first byte to its last.  (A byte that was dropped is not looked at.)    *)
Start(k, i) == LET sum[j \in 1..i] ==
                     IF j = 1 THEN 0 ELSE sum[j - 1] + Chain(k)[j - 1].len
               IN  sum[i]
ReadBack ==
    \A k \in Keys : IsEntry(k) /\ ~idx_used[k].open =>
        \A i \in DOMAIN Chain(k) : \A j \in DOMAIN Content(k)[i] :
            Content(k)[i][j] \in {PayloadByte(given[k], Start(k, i) + j - 1), Junk, Zero}

(* "Max size limit exceeded or failed alloc": a set for which the shard    *)
(* has no room is refused with ERR_NO_SPACE, not half done and then ended  *)
(* with the exception of the copying loop, ERR_INTERNAL.                   *)
NoSpaceReported == reply.err # "INTERNAL"

(* "Key not found in the cache": a get on a key that is not in the cache   *)
(* reports that, and does not follow the null pointer kept in its place.   *)
MissIsReported == fault # "null_root"

(* What a shard promises to its callers, the map of CacheSpec.  A set that *)
(* has made its root counts as done: nothing can stop it any more.         *)
Seen(k) ==
    IF IsEntry(k) THEN [is |-> "entry", val |-> given[k], expire |-> idx_used[k].expire]
    ELSE [is |-> IF Counted(k) THEN "blocked" ELSE "none"]
Contents == [k \in Keys |-> Seen(k)]
Answered ==
    IF op.pc \in {"copy", "balance"}
    THEN [key |-> op.key, err |-> "OK", data |-> <<>>, spill |-> FALSE]
    ELSE reply

Cache == INSTANCE CacheSpec WITH
            Size <- SzMax, Lifetime <- ExpireNs,
            entry <- Contents, reply <- Answered

(* If pages fill the shard and no payload exceeds one, a shard is that map *)
(* to its callers: a set is refused for lack of space only if the entries  *)
(* and the payload exceed the shard, an entry that was answered for is     *)
(* stored whole, and get tells its absence, its expiration and its length. *)
ImplementsCache == Cache!CacheSpec
=============================================================================
