-------------------------- MODULE ShardStoreProofs --------------------------
(***************************************************************************)
(* Theorems about module ShardStore, for every set of keys and payloads,   *)
(* every size, page percentage, lifetime and bound of the clock.           *)
(***************************************************************************)
EXTENDS ShardStore, SequenceTheorems, TLAPS

-----------------------------------------------------------------------------
(* Type correctness.  TypeOK is not inductive: that the unsigned counters  *)
(* stay in their range when an entry is given back needs the entry to be   *)
(* shorter than the range, and for that the bytes that the copying loop    *)
(* has recorded and those that remain must add up to the payload.          *)

Lengths ==
    /\ \A k \in Keys : IsEntry(k) => idx_used[k].total_len < Word
    /\ op.pc = "reserve" => op.remained = PayloadLen[op.val]
    /\ op.pc = "copy" => /\ IsEntry(op.key)
                         /\ idx_used[op.key].total_len + op.remained = PayloadLen[op.val]

TypeInv == TypeOK /\ Lengths

LEMMA PageType == SzPage \in Nat /\ PageCnt \in Nat \ {0}
<1>1. SzMax * PagePrcnt \in Nat
  BY StoreAssumption
<1>2. 100 \div PagePrcnt \in Nat
  BY StoreAssumption
<1> QED
  BY <1>1, <1>2 DEF SzPage, PageCnt

LEMMA PayloadBound == \A v \in Payloads : PayloadLen[v] \in Nat /\ PayloadLen[v] < Word
<1>1. PageCnt * SzPage \in Nat
  BY PageType
<1>2. \A v \in Payloads : PayloadLen[v] \in Nat /\ SzMax \in Nat /\ Word \in Nat
  BY StoreAssumption
<1> QED
  BY <1>1, <1>2, StoreAssumption

(* The 64-bit operations stay in range.                                    *)
LEMMA U64Range ==
    ASSUME NEW a \in 0..(Word - 1), NEW b \in 0..(Word - 1)
    PROVE  U64Sub(a, b) \in 0..(Word - 1) /\ U64Add(a, b) \in 0..(Word - 1)
BY StoreAssumption DEF U64Sub, U64Add

(* An expiration time is rounded to a natural number.                      *)
LEMMA BucketType == ASSUME NEW e \in Nat PROVE Bucket(e) \in Nat
BY StoreAssumption DEF Bucket

LEMMA TypeInit == StoreInit => TypeInv
<1>1. SzMax \in Nat /\ SzPage \in Nat /\ Word \in Nat /\ SzMax < Word
  BY StoreAssumption DEF SzPage
<1>2. Epoch \in Nat
  BY StoreAssumption
<1> QED
  BY <1>1, <1>2 DEF StoreInit, TypeInv, TypeOK, Lengths, Absent, Block, Idle, Errors, IsEntry

(* What __evict does keeps the types.                                      *)
LEMMA EvictType ==
    ASSUME TypeInv, NEW k \in Keys, NEW skip \in BOOLEAN, EvictKey(k, skip)
    PROVE  /\ idx_used' \in [Keys -> {Absent, Null} \cup Entry]
           /\ idx_free' \in Seq(Block)
           /\ DOMAIN idx_expire' \subseteq Nat
           /\ idx_expire' \in [DOMAIN idx_expire' -> SUBSET Keys]
           /\ {sz_used', sz_free'} \subseteq 0..(Word - 1)
           /\ fault' \in {"none", "garbage_node"} \cup {fault}
           /\ \A l \in Keys : IsEntry(l)' => idx_used[l].total_len < Word
           /\ \A l \in Keys : IsEntry(l)' => IsEntry(l) /\ idx_used'[l] = idx_used[l]
<1>1. CASE EvictNode(k)
  BY <1>1 DEF EvictNode, TypeInv, TypeOK, Lengths, Null, IsEntry
<1>2. CASE EvictEntry(k, skip)
  <2>1. /\ idx_used[k].total_len \in 0..(Word - 1)
        /\ idx_used[k].chain \in Seq(Block)
        /\ idx_used[k].expire \in Nat
    <3>1. IsEntry(k) /\ idx_used[k] \in Entry
      BY <1>2 DEF EvictEntry, TypeInv, TypeOK, IsEntry, Absent, Null
    <3>2. idx_used[k].total_len < Word
      BY <3>1 DEF TypeInv, Lengths
    <3> QED
      BY <3>1, <3>2, StoreAssumption DEF Entry
  <2>2. {sz_used', sz_free'} \subseteq 0..(Word - 1)
    BY <1>2, <2>1, U64Range DEF EvictEntry, TypeInv, TypeOK
  <2>3. idx_free' \in Seq(Block)
    <3>1. BlankBlock \in Block
      BY DEF BlankBlock, Block
    <3>2. Append(idx_used[k].chain, BlankBlock) \in Seq(Block)
      BY <2>1, <3>1
    <3>3. idx_free \in Seq(Block)
      BY DEF TypeInv, TypeOK
    <3> QED
      BY <1>2, <2>1, <3>2, <3>3, ConcatProperties DEF EvictEntry
  <2>4. DOMAIN idx_expire' \subseteq Nat /\ idx_expire' \in [DOMAIN idx_expire' -> SUBSET Keys]
    BY <1>2, <2>1 DEF EvictEntry, TypeInv, TypeOK, WithBucket, KeysAt
  <2>5. /\ idx_used' \in [Keys -> {Absent, Null} \cup Entry]
        /\ fault' \in {"none", "garbage_node"}
        /\ \A l \in Keys : IsEntry(l)' => l # k /\ idx_used'[l] = idx_used[l]
    BY <1>2 DEF EvictEntry, TypeInv, TypeOK, IsEntry, Absent
  <2> QED
    BY <2>2, <2>3, <2>4, <2>5 DEF TypeInv, TypeOK, Lengths, IsEntry
<1> QED
  BY <1>1, <1>2 DEF EvictKey

(* The bytes taken from the front block, and the rest that is put back.    *)
LEMMA TakenType ==
    ASSUME TypeInv, Copying, idx_free # <<>>
    PROVE  /\ op \in Call
           /\ Head(idx_free) \in Block
           /\ Taken \in Nat /\ Taken <= op.remained /\ Taken <= Head(idx_free).len
           /\ Rest \in Block
<1>1. op \in Call
  BY DEF Copying, TypeInv, TypeOK, Idle
<1>2. op.remained \in Nat
  BY <1>1 DEF Call
<1>3. Head(idx_free) \in Block
  BY HeadTailProperties DEF TypeInv, TypeOK
<1>4. Taken \in Nat /\ Taken <= op.remained /\ Taken <= Head(idx_free).len
  BY <1>2, <1>3 DEF Taken, Block
<1> QED
  BY <1>1, <1>3, <1>4 DEF Rest, Block

LEMMA FreeAfterType ==
    ASSUME TypeInv, Copying, idx_free # <<>>
    PROVE  FreeAfter \in Seq(Block)
<1>1. Rest \in Block /\ Tail(idx_free) \in Seq(Block)
  BY TakenType, HeadTailProperties DEF TypeInv, TypeOK
<1> QED
  BY <1>1 DEF FreeAfter

(* The three steps that change the indices of the store in __set.          *)
LEMMA MakeRootType ==
    ASSUME TypeInv, Reserving, MakeRoot
    PROVE  /\ idx_used' \in [Keys -> {Absent, Null} \cup Entry]
           /\ DOMAIN idx_expire' \subseteq Nat
           /\ idx_expire' \in [DOMAIN idx_expire' -> SUBSET Keys]
           /\ op' \in Call
           /\ given' \in [Keys -> Payloads \cup {Junk}]
           /\ Lengths'
<1>1. op \in Call
  BY DEF Reserving, TypeInv, TypeOK, Idle
<1>2. now + ExpireNs \in Nat
  BY StoreAssumption DEF TypeInv, TypeOK
<1>3. Bucket(now + ExpireNs) \in Nat
  BY <1>2, BucketType
<1>4. op' \in Call /\ op'.pc = "copy" /\ op'.key = op.key /\ op'.val = op.val
        /\ op'.remained = op.remained
  BY <1>1 DEF MakeRoot, Call
<1>5. DOMAIN idx_expire' \subseteq Nat /\ idx_expire' \in [DOMAIN idx_expire' -> SUBSET Keys]
  BY <1>1, <1>3 DEF MakeRoot, RegExpire, WithBucket, KeysAt, TypeInv, TypeOK, Call
<1>6. idx_used' \in [Keys -> {Absent, Null} \cup Entry]
  BY <1>1, <1>2 DEF MakeRoot, TypeInv, TypeOK, Entry, Call
<1>7. given' \in [Keys -> Payloads \cup {Junk}]
  BY <1>1 DEF MakeRoot, TypeInv, TypeOK, Call
<1>8. Lengths'
  <2>1. /\ IsEntry(op.key)' /\ idx_used'[op.key].total_len = 0
        /\ \A l \in Keys \ {op.key} : idx_used'[l] = idx_used[l]
    BY <1>1 DEF MakeRoot, TypeInv, TypeOK, IsEntry, Call
  <2>2. op.remained = PayloadLen[op.val] /\ op.remained \in Nat /\ op.key \in Keys
    BY <1>1 DEF Reserving, TypeInv, Lengths, Call
  <2>3. 0 < Word
    BY StoreAssumption
  <2> QED
    BY <1>4, <2>1, <2>2, <2>3 DEF TypeInv, Lengths, IsEntry
<1> QED
  BY <1>4, <1>5, <1>6, <1>7, <1>8

LEMMA ExtendedType ==
    ASSUME NEW root \in Entry, NEW used \in Block, NEW left \in Nat
    PROVE  /\ Extended(root, used, left) \in Entry
           /\ Extended(root, used, left).node = "entry"
           /\ Extended(root, used, left).total_len = root.total_len + used.len
           /\ Extended(root, used, left).expire = root.expire
           /\ Extended(root, used, left).chain = Append(root.chain, used)
<1>1. root.total_len + used.len \in Nat /\ root.expire \in Nat
  BY DEF Entry, Block
<1>2. Append(root.chain, used) \in Seq(Block)
  BY DEF Entry
<1> QED
  BY <1>1, <1>2 DEF Entry, Extended

LEMMA CopyBlockType ==
    ASSUME TypeInv, CopyBlock
    PROVE  TypeInv'
<1> DEFINE k == op.key
<1>1. Copying /\ idx_free # <<>>
  BY DEF CopyBlock
<1>2. /\ op \in Call /\ k \in Keys
      /\ Head(idx_free) \in Block
      /\ Taken \in Nat /\ Taken <= op.remained /\ op.remained - Taken \in Nat
  BY <1>1, TakenType DEF Call
<1>3. IsEntry(k) /\ idx_used[k] \in Entry
  BY <1>1, <1>2 DEF Copying, TypeInv, TypeOK, Lengths, IsEntry, Absent, Null
<1>4. [offset |-> Head(idx_free).offset, len |-> Taken] \in Block
  BY <1>2 DEF Block
<1>5. /\ idx_used' \in [Keys -> {Absent, Null} \cup Entry]
      /\ idx_used'[k].node = "entry"
      /\ idx_used'[k].total_len = idx_used[k].total_len + Taken
      /\ \A l \in Keys \ {k} : idx_used'[l] = idx_used[l]
  <2> DEFINE used == [offset |-> Head(idx_free).offset, len |-> Taken]
             e == Extended(idx_used[k], used, op.remained - Taken)
  <2>1. idx_used' = [idx_used EXCEPT ![k] = e]
    BY DEF CopyBlock
  <2>2. e \in Entry /\ e.total_len = idx_used[k].total_len + Taken
    BY <1>2, <1>3, <1>4, ExtendedType
  <2> QED
    BY <1>2, <2>1, <2>2 DEF TypeInv, TypeOK, Entry
<1>6. /\ op' \in Call /\ op'.key = k /\ op'.val = op.val
      /\ op'.remained = op.remained - Taken /\ op'.pc # "reserve"
  BY <1>2 DEF CopyBlock, AfterBlock, Call
<1>7. idx_free' \in Seq(Block)
  BY <1>1, FreeAfterType DEF CopyBlock
<1>8. DOMAIN mem' = Addr
  BY DEF CopyBlock
<1>9. Lengths'
  <2>1. idx_used[k].total_len + op.remained = PayloadLen[op.val]
    BY <1>1 DEF Copying, TypeInv, Lengths
  <2>2. PayloadLen[op.val] \in Nat /\ PayloadLen[op.val] < Word
    BY <1>2, PayloadBound DEF Call
  <2>3. idx_used[k].total_len \in Nat /\ op.remained \in Nat /\ Word \in Nat
    BY <1>2, <1>3, StoreAssumption DEF Entry, Call
  <2> QED
    BY <1>2, <1>5, <1>6, <2>1, <2>2, <2>3 DEF TypeInv, Lengths, IsEntry
<1> QED
  BY <1>5, <1>6, <1>7, <1>8, <1>9 DEF CopyBlock, TypeInv, TypeOK, sizeVars

LEMMA TypeStep == TypeInv /\ [StoreNext]_storeVars => TypeInv'
<1> SUFFICES ASSUME TypeInv, [StoreNext]_storeVars PROVE TypeInv'
  OBVIOUS
<1> USE DEF indexVars, sizeVars
<1>1. ASSUME NEW k \in Keys, NEW v \in Payloads, NEW force \in BOOLEAN, SetRefused(k, v, force)
      PROVE  TypeInv'
  BY <1>1 DEF SetRefused, Reply, Errors, TypeInv, TypeOK, Lengths, IsEntry
<1>2. ASSUME NEW k \in Keys, NEW v \in Payloads, NEW force \in BOOLEAN, SetAccepted(k, v, force)
      PROVE  TypeInv'
  <2>1. /\ op' \in Call /\ op'.pc = "reserve" /\ op'.remained = PayloadLen[op'.val]
        /\ reply' = reply
    BY <1>2, PayloadBound DEF SetAccepted, Call
  <2>2. CASE ~Counted(k) /\ UNCHANGED <<indexVars, sizeVars, mem, now, given, fault>>
    BY <2>1, <2>2 DEF TypeInv, TypeOK, Lengths, IsEntry
  <2>3. CASE EvictKey(k, FALSE)
    BY <2>1, <2>3, EvictType DEF EvictKey, TypeInv, TypeOK, Lengths
  <2> QED
    BY <1>2, <2>2, <2>3 DEF SetAccepted
<1>3. CASE SetNoSpace \/ SetOutOfBlocks
  BY <1>3 DEF SetNoSpace, SetOutOfBlocks, Reply, Errors, Idle, TypeInv, TypeOK, Lengths, IsEntry
<1>4. CASE SetNewPage
  <2>1. CASE page_init_cnt < PageCnt
    <3>1. /\ Reserving /\ MakeRoot /\ PageReserve
          /\ UNCHANGED <<idx_free, sz_used, sz_free, mem, now, reply, fault>>
      BY <1>4, <2>1 DEF SetNewPage
    <3>2. sz_alloc' \in Nat /\ page_init_cnt' \in Nat
      BY <3>1, PageType DEF PageReserve, TypeInv, TypeOK
    <3> QED
      BY <3>1, <3>2, MakeRootType DEF TypeInv, TypeOK
  <2>2. CASE ~(page_init_cnt < PageCnt)
    BY <1>4, <2>2 DEF SetNewPage, TypeInv, TypeOK, Lengths, IsEntry
  <2> QED
    BY <2>1, <2>2
<1>5. CASE SetInPlace
  BY <1>5, MakeRootType DEF SetInPlace, TypeInv, TypeOK
<1>6. CASE CopyBlock
  BY <1>6, CopyBlockType
<1>7. CASE SetBalance
  <2>1. op \in Call /\ PayloadLen[op.val] \in 0..(Word - 1)
    BY <1>7, PayloadBound, StoreAssumption DEF SetBalance, TypeInv, TypeOK, Idle, Call
  <2>2. {sz_used', sz_free'} \subseteq 0..(Word - 1)
    BY <1>7, <2>1, U64Range DEF SetBalance, TypeInv, TypeOK
  <2> QED
    BY <1>7, <2>2 DEF SetBalance, Reply, Errors, Idle, TypeInv, TypeOK, Lengths, IsEntry
<1>8. ASSUME NEW k \in Keys, NEW len \in BufLens, Get(k, len) PROVE TypeInv'
  <2>1. reply'.err \in Errors
    BY <1>8 DEF Get, GetNull, GetFails, GetData, GetError, Reply, Errors, TypeInv, TypeOK
  <2>2. fault' \in {"null_root", "none", "garbage_node"} \cup {fault}
    BY <1>8 DEF Get, GetNull, GetFails, GetData
  <2>3. UNCHANGED <<indexVars, sizeVars, mem, now, op, given>>
    BY <1>8 DEF Get, GetNull, GetFails, GetData
  <2> QED
    BY <2>1, <2>2, <2>3 DEF TypeInv, TypeOK, Lengths, IsEntry
<1>9. ASSUME NEW k \in Keys, Evict(k) \/ ExpireKey(k) PROVE TypeInv'
  <2>1. CASE EvictMiss(k)
    BY <2>1 DEF EvictMiss, Reply, Errors, TypeInv, TypeOK, Lengths, IsEntry
  <2>2. CASE EvictHit(k) \/ ExpireKey(k)
    <3>1. /\ Ready
          /\ EvictKey(k, FALSE) \/ EvictKey(k, TRUE)
          /\ op' = op
      BY <2>2 DEF EvictHit, ExpireKey
    <3>3. reply'.err \in Errors
      <4>1. CASE EvictHit(k)
        <5>1. Reply(k, IF IsEntry(k) THEN "OK" ELSE "KEY_NOT_FOUND")
          BY <4>1 DEF EvictHit
        <5> QED
          BY <5>1 DEF Reply, Errors
      <4>2. CASE ExpireKey(k)
        BY <4>2 DEF ExpireKey, TypeInv, TypeOK
      <4> QED
        BY <2>2, <4>1, <4>2
    <3>2. UNCHANGED <<sz_alloc, page_init_cnt, mem, now, given>>
      BY <3>1 DEF EvictKey
    <3> QED
      BY <3>1, <3>2, <3>3, EvictType DEF Ready, Idle, TypeInv, TypeOK, Lengths
  <2> QED
    BY <1>9, <2>1, <2>2 DEF Evict
<1>10. ASSUME NEW b \in DOMAIN idx_expire, EraseBucket(b) PROVE TypeInv'
  BY <1>10 DEF EraseBucket, DropBucket, TypeInv, TypeOK, Lengths, IsEntry
<1>11. CASE Tick
  BY <1>11 DEF Tick, TypeInv, TypeOK, Lengths, IsEntry
<1>12. CASE UNCHANGED storeVars
  BY <1>12 DEF storeVars, TypeInv, TypeOK, Lengths, IsEntry
<1> QED
  BY <1>1, <1>2, <1>3, <1>4, <1>5, <1>6, <1>7, <1>8, <1>9, <1>10, <1>11, <1>12
  DEF StoreNext, SetStep

(* Every state of the storage is well typed; in particular the unsigned    *)
(* counters sz_used and sz_free stay in their range although sets that     *)
(* fail half-way leave them out of step with the blocks (__set, __evict).  *)
THEOREM TypeCorrect == StoreSpec => []TypeOK
<1>1. TypeInv => TypeOK
  BY DEF TypeInv
<1> QED
  BY <1>1, TypeInit, TypeStep, PTL DEF StoreSpec

-----------------------------------------------------------------------------
(* Pages.  A page is only asked for when the counters say that the         *)
(* allocated space does not hold the payload and the shard would.  The     *)
(* counter sz_used is not trusted: the argument holds for any value of it, *)
(* wrapped round or not, because both tests use the same value.            *)

PagesInv ==
    /\ sz_alloc = page_init_cnt * SzPage
    /\ page_init_cnt \in 1..PageCnt
    /\ PagesSuffice

(* With every page reserved, a payload that passes the second test of      *)
(* __set has not failed the first.                                         *)
LEMMA FullIsExceeded ==
    ASSUME PageCnt * SzPage >= SzMax, TypeInv, PagesInv, Reserving,
           Room < op.remained, ~Exceeded
    PROVE  page_init_cnt < PageCnt
<1> SUFFICES ASSUME page_init_cnt = PageCnt PROVE FALSE
  BY PageType DEF PagesInv
<1> DEFINE alloc == PageCnt * SzPage
<1>1. alloc \in Nat /\ sz_alloc = alloc
  BY PageType DEF PagesInv
<1>2. sz_used \in 0..(Word - 1) /\ SzMax \in Nat /\ Word \in Nat
  BY StoreAssumption DEF TypeInv, TypeOK
<1>3. op.remained \in Nat /\ alloc + SzMax + op.remained < Word
  <2>1. op \in Call /\ op.remained = PayloadLen[op.val]
    BY DEF Reserving, TypeInv, TypeOK, Lengths, Idle
  <2> QED
    BY <2>1, StoreAssumption DEF Call
<1>4. alloc >= SzMax
  OBVIOUS
<1> HIDE DEF alloc
<1>5. CASE sz_used <= alloc
  BY <1>1, <1>2, <1>3, <1>4, <1>5 DEF Room, Exceeded, U64Sub, U64Add
<1>6. CASE sz_used > alloc
  BY <1>1, <1>2, <1>3, <1>4, <1>6 DEF Room, Exceeded, U64Sub, U64Add
<1> QED
  BY <1>1, <1>2, <1>5, <1>6

LEMMA PagesStep ==
    ASSUME PageCnt * SzPage >= SzMax
    PROVE  TypeInv /\ PagesInv /\ [StoreNext]_storeVars => PagesInv'
<1> SUFFICES ASSUME TypeInv, PagesInv, [StoreNext]_storeVars PROVE PagesInv'
  OBVIOUS
<1> USE DEF sizeVars
<1>1. CASE SetNewPage
  <2>1. page_init_cnt < PageCnt
    BY <1>1, FullIsExceeded DEF SetNewPage
  <2>2. PageReserve /\ UNCHANGED fault
    BY <1>1, <2>1 DEF SetNewPage
  <2>3. page_init_cnt \in Nat /\ page_init_cnt + 1 \in 1..PageCnt
    BY <2>1, PageType DEF PagesInv
  <2>4. (page_init_cnt + 1) * SzPage = page_init_cnt * SzPage + SzPage
    BY <2>3, PageType
  <2> QED
    BY <2>2, <2>3, <2>4 DEF PageReserve, PagesInv, PagesSuffice
<1>2. ASSUME StoreNext, ~SetNewPage PROVE UNCHANGED <<sz_alloc, page_init_cnt>> /\ fault' # "no_page"
  <2>1. ASSUME NEW k \in Keys, NEW v \in Payloads, NEW force \in BOOLEAN,
               SetRefused(k, v, force) \/ SetAccepted(k, v, force)
        PROVE  UNCHANGED <<sz_alloc, page_init_cnt>> /\ fault' # "no_page"
    BY <2>1 DEF SetRefused, SetAccepted, EvictKey, EvictNode, EvictEntry, PagesInv, PagesSuffice
  <2>2. CASE SetStep
    BY <1>2, <2>2 DEF SetStep, SetNoSpace, SetInPlace, SetOutOfBlocks, CopyBlock,
                      SetBalance, PagesInv, PagesSuffice
  <2>3. ASSUME NEW k \in Keys, NEW len \in BufLens, Get(k, len)
        PROVE  UNCHANGED <<sz_alloc, page_init_cnt>> /\ fault' # "no_page"
    BY <2>3 DEF Get, GetNull, GetFails, GetData, PagesInv, PagesSuffice
  <2>4. ASSUME NEW k \in Keys, Evict(k) \/ ExpireKey(k)
        PROVE  UNCHANGED <<sz_alloc, page_init_cnt>> /\ fault' # "no_page"
    BY <2>4 DEF Evict, EvictMiss, EvictHit, ExpireKey, EvictKey, EvictNode, EvictEntry,
                PagesInv, PagesSuffice
  <2>5. ASSUME NEW b \in DOMAIN idx_expire, EraseBucket(b)
        PROVE  UNCHANGED <<sz_alloc, page_init_cnt>> /\ fault' # "no_page"
    BY <2>5 DEF EraseBucket, PagesInv, PagesSuffice
  <2>6. CASE Tick
    BY <2>6 DEF Tick, PagesInv, PagesSuffice
  <2> QED
    BY <1>2, <2>1, <2>2, <2>3, <2>4, <2>5, <2>6 DEF StoreNext
<1>3. CASE UNCHANGED storeVars
  BY <1>3 DEF storeVars, PagesInv, PagesSuffice
<1> QED
  BY <1>1, <1>2, <1>3 DEF PagesInv, PagesSuffice

(* page_reserve never runs past the pages that the constructor prepares,   *)
(* provided that these cover the shard: whatever the counters have drifted *)
(* to, no history of sets and evictions asks for one page too many.        *)
THEOREM PagesAlwaysSuffice ==
    ASSUME PageCnt * SzPage >= SzMax
    PROVE  StoreSpec => []PagesSuffice
<1>1. StoreInit => PagesInv
  BY PageType DEF StoreInit, PagesInv, PagesSuffice
<1>2. PagesInv => PagesSuffice
  BY DEF PagesInv
<1> QED
  BY <1>1, <1>2, TypeInit, TypeStep, PagesStep, PTL DEF StoreSpec

-----------------------------------------------------------------------------
(* Registration.  evict clears the index under the exact expiration time,  *)
(* which is in general not the bucket of any entry; where it is, only the  *)
(* evicted key is removed from it.                                         *)

LEMMA RegisteredStep == TypeInv /\ Registered /\ [StoreNext]_storeVars => Registered'
<1> SUFFICES ASSUME TypeInv, Registered, [StoreNext]_storeVars PROVE Registered'
  OBVIOUS
<1>1. ASSUME UNCHANGED <<idx_used, idx_expire>> PROVE Registered'
  BY <1>1 DEF Registered, IsEntry, KeysAt
<1>2. ASSUME NEW k \in Keys, NEW skip \in BOOLEAN, EvictKey(k, skip) PROVE Registered'
  <2>1. CASE EvictNode(k)
    BY <1>2, <2>1 DEF EvictNode, Registered, IsEntry, KeysAt, Null, TypeInv, TypeOK
  <2>2. CASE EvictEntry(k, skip)
    <3>1. ASSUME NEW l \in Keys, IsEntry(l)'
          PROVE  l # k /\ IsEntry(l) /\ idx_used'[l] = idx_used[l]
      BY <2>2, <3>1 DEF EvictEntry, IsEntry, Absent, TypeInv, TypeOK
    <3>2. ASSUME NEW b PROVE KeysAt(b) \ {k} \subseteq KeysAt(b)'
      BY <2>2 DEF EvictEntry, WithBucket, KeysAt
    <3>3. ASSUME NEW l \in Keys, IsEntry(l)'
          PROVE  l \in KeysAt(Bucket(idx_used[l].expire))'
      <4> DEFINE b == Bucket(idx_used[l].expire)
      <4>1. b' = Bucket(idx_used[l].expire)
        BY <3>1, <3>3 DEF Bucket
      <4>2. l \in KeysAt(b) /\ l # k
        BY <3>1, <3>3 DEF Registered
      <4> HIDE DEF b
      <4> QED
        BY <3>2, <4>1, <4>2 DEF b
    <3> QED
      BY <3>3 DEF Registered
  <2> QED
    BY <1>2, <2>1, <2>2 DEF EvictKey
<1>3. ASSUME op.key \in Keys, MakeRoot PROVE Registered'
  <2> DEFINE e == now + ExpireNs
  <2>1. /\ idx_used'[op.key].expire = e
        /\ \A l \in Keys \ {op.key} : idx_used'[l] = idx_used[l]
    BY <1>3 DEF MakeRoot, TypeInv, TypeOK
  <2>2. ASSUME NEW b, b = Bucket(e) PROVE op.key \in KeysAt(b)'
    BY <1>3, <2>2 DEF MakeRoot, RegExpire, WithBucket, KeysAt
  <2>3. ASSUME NEW b PROVE KeysAt(b) \subseteq KeysAt(b)'
    BY <1>3 DEF MakeRoot, RegExpire, WithBucket, KeysAt
  <2>4. ASSUME NEW l \in Keys, IsEntry(l)' PROVE l \in KeysAt(Bucket(idx_used[l].expire))'
    <3>1. CASE l = op.key
      <4>1. Bucket(idx_used[l].expire)' = Bucket(e)
        BY <2>1, <3>1 DEF Bucket
      <4> QED
        BY <2>2, <3>1, <4>1 DEF KeysAt
    <3>2. CASE l # op.key
      <4>1. l \in KeysAt(Bucket(idx_used[l].expire)) /\ idx_used'[l] = idx_used[l]
        BY <2>1, <2>4, <3>2 DEF Registered, IsEntry
      <4> QED
        BY <2>3, <4>1 DEF Bucket, KeysAt
    <3> QED
      BY <3>1, <3>2
  <2> QED
    BY <2>4 DEF Registered
<1>4. CASE CopyBlock
  <2>1. /\ Copying /\ idx_free # <<>>
        /\ idx_expire' = idx_expire
    BY <1>4 DEF CopyBlock
  <2>2. op \in Call /\ Taken \in Nat /\ op.remained - Taken \in Nat
        /\ [offset |-> Head(idx_free).offset, len |-> Taken] \in Block
    BY <2>1, TakenType DEF Call, Block
  <2>3. IsEntry(op.key) /\ idx_used[op.key] \in Entry /\ op.key \in Keys
    BY <2>1, <2>2 DEF Copying, TypeInv, TypeOK, Lengths, IsEntry, Absent, Null, Call
  <2>4. \A l \in Keys : IsEntry(l)' => IsEntry(l) /\ idx_used'[l].expire = idx_used[l].expire
    <3> DEFINE used == [offset |-> Head(idx_free).offset, len |-> Taken]
               e == Extended(idx_used[op.key], used, op.remained - Taken)
    <3>1. idx_used' = [idx_used EXCEPT ![op.key] = e]
      BY <1>4 DEF CopyBlock
    <3>2. e.expire = idx_used[op.key].expire
      BY <2>2, <2>3, ExtendedType
    <3> HIDE DEF e
    <3> QED
      BY <2>3, <3>1, <3>2 DEF IsEntry, TypeInv, TypeOK
  <2> QED
    BY <2>1, <2>4 DEF Registered, KeysAt, Bucket
<1>5. ASSUME NEW b \in DOMAIN idx_expire, EraseBucket(b) PROVE Registered'
  <2>1. idx_used' = idx_used /\ idx_expire' = [e \in DOMAIN idx_expire \ {b} |-> idx_expire[e]]
    BY <1>5 DEF EraseBucket, DropBucket
  <2>2. \A l \in Keys : IsEntry(l) => l \notin idx_expire[b]
    BY <1>5 DEF EraseBucket, TypeInv, TypeOK
  <2>3. ASSUME NEW l \in Keys, IsEntry(l)' PROVE l \in KeysAt(Bucket(idx_used[l].expire))'
    <3> DEFINE c == Bucket(idx_used[l].expire)
    <3>1. IsEntry(l) /\ l \in KeysAt(c) /\ c' = c
      BY <2>1, <2>3 DEF Registered, IsEntry, Bucket
    <3>2. c \in DOMAIN idx_expire /\ l \in idx_expire[c] /\ c # b
      BY <2>2, <3>1 DEF KeysAt
    <3> HIDE DEF c
    <3> QED
      BY <2>1, <3>1, <3>2 DEF KeysAt, c
  <2> QED
    BY <2>3 DEF Registered
<1>6. CASE SetNewPage \/ SetInPlace
  <2>1. op \in Call
    BY <1>6 DEF SetNewPage, SetInPlace, Reserving, TypeInv, TypeOK, Idle
  <2>2. MakeRoot \/ UNCHANGED <<idx_used, idx_expire>>
    BY <1>6 DEF SetNewPage, SetInPlace
  <2> QED
    BY <1>1, <1>3, <2>1, <2>2 DEF Call
<1>7. CASE SetNoSpace \/ SetOutOfBlocks \/ SetBalance \/ Tick \/ UNCHANGED storeVars
  BY <1>1, <1>7 DEF SetNoSpace, SetOutOfBlocks, SetBalance, Tick, storeVars, indexVars
<1>8. ASSUME NEW k \in Keys, NEW v \in Payloads, NEW force \in BOOLEAN,
             SetRefused(k, v, force) \/ SetAccepted(k, v, force)
      PROVE  Registered'
  <2>1. EvictKey(k, FALSE) \/ UNCHANGED <<idx_used, idx_expire>>
    BY <1>8 DEF SetRefused, SetAccepted, indexVars
  <2> QED
    BY <1>1, <1>2, <2>1
<1>9. ASSUME NEW k \in Keys, NEW len \in BufLens, Get(k, len) PROVE Registered'
  BY <1>1, <1>9 DEF Get, GetNull, GetFails, GetData, indexVars
<1>10. ASSUME NEW k \in Keys, Evict(k) \/ ExpireKey(k) PROVE Registered'
  <2>1. EvictKey(k, FALSE) \/ EvictKey(k, TRUE) \/ UNCHANGED <<idx_used, idx_expire>>
    BY <1>10 DEF Evict, EvictMiss, EvictHit, ExpireKey, indexVars
  <2> QED
    BY <1>1, <1>2, <2>1
<1> QED
  BY <1>4, <1>5, <1>6, <1>7, <1>8, <1>9, <1>10 DEF StoreNext, SetStep

(* bulk_expire can find every entry: whatever sets, forced sets, evictions *)
(* and expirations came before, an entry is registered in the bucket of    *)
(* its expiration time (reg_expire, __evict, bulk_expire).                 *)
THEOREM AlwaysRegistered == StoreSpec => []Registered
<1>1. StoreInit => Registered
  BY DEF StoreInit, Registered, IsEntry, Absent
<1> QED
  BY <1>1, TypeInit, TypeStep, RegisteredStep, PTL DEF StoreSpec
=============================================================================
