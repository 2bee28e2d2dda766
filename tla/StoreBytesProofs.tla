--------------------------- MODULE StoreBytesProofs ---------------------------
(***************************************************************************)
(* The bytes of a shard, for every set of keys and payloads and every      *)
(* size: Isolation of module ShardStore (__get never hands out the bytes   *)
(* of another entry), and, where pages and payloads fit together,          *)
(* Accounting (the counters say how many bytes are in use), CopyFits (a    *)
(* set that has begun to copy finds the room it needs), and ImplementsCache*)
(* (to its callers the shard is the map of module CacheSpec).              *)
(***************************************************************************)
EXTENDS StoreBlockProofs, FiniteSetTheorems

-----------------------------------------------------------------------------
(* Isolation, block by block.  A block that the copying loop fills is in   *)
(* no other list (NoOverlap), so the bytes of the other entries stay; and  *)
(* a byte that is dropped, its page not being reserved, was never written. *)

Holds(k, b) ==
    \A a \in Cells(b) : mem[a] \in {PayloadByte(given[k], a - b.offset), Junk}

Bounded == \A a : Owned(a) => a \in Addr
Unwritten == \A a \in Addr : ~Reserved(a) => mem[a] = Junk
GivenIsCopied == op.pc = "copy" => given[op.key] = op.val

IsolationInv == Isolation /\ Bounded /\ Unwritten /\ GivenIsCopied

LEMMA IsolationByBlock ==
    Isolation <=> \A k \in Keys : \A i \in DOMAIN Chain(k) : Holds(k, Chain(k)[i])
BY DEF Isolation, Holds

LEMMA OnConcat ==
    ASSUME NEW s \in Seq(Block), NEW t \in Seq(Block), NEW a, On(a, s \o t)
    PROVE  On(a, s) \/ On(a, t)
BY ConcatPositions DEF On

LEMMA OnOne == ASSUME NEW b \in Block, NEW a, On(a, <<b>>) PROVE a \in Cells(b)
BY OneBlock DEF On

(* A step that owns no new address and leaves the bytes and the payloads   *)
(* of the blocks it keeps alone.                                           *)
LEMMA KeptBlocks ==
    ASSUME Isolation, NEW kept \in SUBSET Keys, UNCHANGED mem,
           \A l \in kept : Chain(l)' = Chain(l) /\ given'[l] = given[l],
           \A l \in Keys \ kept : Chain(l)' = <<>>
    PROVE  Isolation'
<1>1. ASSUME NEW l \in kept, NEW i \in DOMAIN Chain(l)' PROVE Holds(l, Chain(l)[i])'
  <2>1. i \in DOMAIN Chain(l) /\ Chain(l)'[i] = Chain(l)[i] /\ Holds(l, Chain(l)[i])
    BY <1>1, IsolationByBlock
  <2> QED
    BY <2>1 DEF Holds, Cells, PayloadByte, Junk
<1>2. ASSUME NEW l \in Keys \ kept, NEW i \in DOMAIN Chain(l)' PROVE FALSE
  BY <1>2
<1> QED
  BY <1>1, <1>2 DEF Isolation, Holds

LEMMA EvictIsolation ==
    ASSUME TypeInv, Isolation, NEW k \in Keys, NEW skip \in BOOLEAN, EvictKey(k, skip)
    PROVE  Isolation' /\ \A a : Owned(a)' => Owned(a)
<1>1. UNCHANGED <<mem, given>>
  BY DEF EvictKey
<1>2. CASE EvictNode(k)
  <2>1. idx_free' = idx_free /\ \A l \in Keys : Chain(l)' = Chain(l)
    BY <1>2 DEF EvictNode, Chain, IsEntry, Null, TypeInv, TypeOK
  <2> QED
    BY <1>1, <2>1, KeptBlocks DEF Owned
<1>3. CASE EvictEntry(k, skip)
  <2>1. /\ Chain(k)' = <<>>
        /\ \A l \in Keys \ {k} : Chain(l)' = Chain(l)
    BY <1>3 DEF EvictEntry, Chain, IsEntry, Absent, TypeInv, TypeOK
  <2>2. Isolation'
    BY <1>1, <2>1, KeptBlocks
  <2>3. /\ idx_free \in Seq(Block) /\ Chain(k) \in Seq(Block)
        /\ BlankBlock \in Block /\ <<BlankBlock>> \in Seq(Block)
    BY ChainType DEF BlankBlock, Block, TypeInv, TypeOK
  <2>4. \A a : ~On(a, <<BlankBlock>>)
    <3>1. Cells(BlankBlock) = {}
      BY DEF Cells, BlankBlock
    <3> QED
      BY <2>3, <3>1, OnOne
  <2>5. \A a : On(a, idx_free') => On(a, idx_free) \/ On(a, Chain(k))
    <3> DEFINE longer == Chain(k) \o <<BlankBlock>>
    <3>1. longer \in Seq(Block) /\ longer = Append(Chain(k), BlankBlock)
      BY <2>3, AppendConcat, ConcatProperties
    <3>2. \A a : On(a, longer) => On(a, Chain(k))
      BY <2>3, <2>4, OnConcat
    <3>3. \/ idx_free' = idx_free \o Chain(k)
          \/ idx_free' = idx_free \o longer
      BY <1>3, <3>1 DEF EvictEntry, Chain
    <3> HIDE DEF longer
    <3> QED
      BY <2>3, <3>1, <3>2, <3>3, OnConcat
  <2>6. \A a : ~On(a, <<>>)
    BY DEF On
  <2>7. ASSUME NEW a, Owned(a)' PROVE Owned(a)
    <3>1. On(a, idx_free') \/ \E l \in Keys : On(a, Chain(l)')
      BY <2>7 DEF Owned, On, Cells
    <3> QED
      BY <2>1, <2>5, <2>6, <3>1 DEF Owned
  <2> QED
    BY <2>2, <2>7
<1> QED
  BY <1>2, <1>3 DEF EvictKey

LEMMA MakeRootIsolation ==
    ASSUME TypeInv, Isolation, NEW k \in Keys, k = op.key, op \in Call, MakeRoot,
           UNCHANGED <<idx_free, mem>>
    PROVE  Isolation' /\ GivenIsCopied' /\ \A a : Owned(a)' => Owned(a)
<1>1. /\ Chain(k)' = <<>>
      /\ \A l \in Keys \ {k} : Chain(l)' = Chain(l) /\ given'[l] = given[l]
  BY DEF MakeRoot, Chain, IsEntry, TypeInv, TypeOK
<1>2. Isolation'
  BY <1>1, KeptBlocks
<1>3. GivenIsCopied'
  BY DEF GivenIsCopied, MakeRoot, Call, TypeInv, TypeOK
<1>4. \A a : ~On(a, <<>>)
  BY DEF On
<1>5. ASSUME NEW a, Owned(a)' PROVE Owned(a)
  <2>1. On(a, idx_free) \/ \E l \in Keys : On(a, Chain(l)')
    BY <1>5 DEF Owned, On, Cells
  <2> QED
    BY <1>1, <1>4, <2>1 DEF Owned
<1> QED
  BY <1>2, <1>3, <1>5

LEMMA CopyIsolation ==
    ASSUME TypeInv, BlocksApart, IsolationInv, CopyBlock
    PROVE  IsolationInv'
<1> SUFFICES ASSUME NEW k, k = op.key, NEW used,
                    used = [offset |-> Head(idx_free).offset, len |-> Taken]
             PROVE  IsolationInv'
  OBVIOUS
<1> DEFINE f == Head(idx_free)
           t == Tail(idx_free)
           r == Rest
<1>1. /\ k \in Keys
      /\ Chain(k)' = Chain(k) \o <<used>>
      /\ \A l \in Keys \ {k} : Chain(l)' = Chain(l)
      /\ idx_free' = t \o <<r>> \/ idx_free' = t
  BY CopyLists
<1>2. Copying /\ idx_free # <<>> /\ idx_free \in Seq(Block)
  BY DEF CopyBlock, TypeInv, TypeOK
<1>3. /\ f \in Block /\ t \in Seq(Block) /\ used \in Block /\ r \in Block
      /\ <<used>> \in Seq(Block) /\ <<r>> \in Seq(Block)
  BY <1>2, TakenType, HeadTailProperties, CutApart, OneBlock
<1>4. Cells(used) \subseteq Cells(f) /\ Cells(r) \subseteq Cells(f)
  BY <1>2, CutApart
<1>5. /\ Apart(<<f>>, t)
      /\ \A u : Apart(idx_free, u) => Apart(<<f>>, u)
      /\ 1 \in DOMAIN idx_free /\ f = idx_free[1]
      /\ \A a : On(a, t) => On(a, idx_free)
  <2>1. \A i \in DOMAIN t : i + 1 \in DOMAIN idx_free /\ t[i] = idx_free[i + 1]
    <3>1. /\ t \in Seq(Block) /\ Len(t) = Len(idx_free) - 1
          /\ \A i \in 1..Len(t) : t[i] = idx_free[i + 1]
      BY <1>2, HeadTailProperties
    <3> QED
      BY <1>2, <3>1, DomainIsLen
  <2> QED
    BY <1>2, <2>1, FrontAndTail DEF BlocksApart, On
<1>6. mem' = [a \in Addr |-> IF a \in Cells(used) /\ Reserved(a)
                             THEN PayloadByte(op.val, a - used.offset)
                             ELSE mem[a]]
  BY DEF CopyBlock
<1>7. UNCHANGED <<given, page_init_cnt>> /\ given[k] = op.val
  BY <1>2 DEF CopyBlock, Copying, IsolationInv, GivenIsCopied, sizeVars
<1> HIDE DEF f, t, r
<1>8. ASSUME NEW a, Owned(a)' PROVE Owned(a)
  <2>1. On(a, idx_free') \/ \E l \in Keys : On(a, Chain(l)')
    BY <1>8 DEF Owned, On, Cells
  <2>2. \A b \in Cells(f) : On(b, idx_free)
    BY <1>5 DEF On
  <2>3. On(a, idx_free') => On(a, idx_free)
    BY <1>1, <1>3, <1>4, <1>5, <2>2, OnConcat, OnOne
  <2>4. \A l \in Keys : On(a, Chain(l)') => On(a, Chain(l)) \/ On(a, idx_free)
    BY <1>1, <1>3, <1>4, <2>2, ChainType, OnConcat, OnOne
  <2> QED
    BY <2>1, <2>3, <2>4 DEF Owned
<1>9. Bounded'
  BY <1>8 DEF Bounded, IsolationInv, Addr
<1>10. Unwritten'
  BY <1>6, <1>7 DEF Unwritten, IsolationInv, Reserved, Addr, Junk
<1>11. GivenIsCopied'
  <2>1. op \in Call
    BY <1>2, TakenType
  <2>2. op'.key = op.key /\ op'.val = op.val
    BY <2>1 DEF CopyBlock, Call
  <2> QED
    BY <1>7, <2>2 DEF GivenIsCopied
<1>12. ASSUME NEW l \in Keys, NEW b, b \in Block, Holds(l, b), Cells(b) \subseteq Addr,
              Disjoint(b, used)
       PROVE  Holds(l, b)'
  <2>1. \A a \in Cells(b) : mem'[a] = mem[a]
    BY <1>6, <1>12 DEF Disjoint
  <2> QED
    BY <1>7, <1>12, <2>1 DEF Holds, Cells, PayloadByte, Junk
<1>13. Cells(used) \subseteq Addr
  BY <1>4, <1>5 DEF IsolationInv, Bounded, Owned, On
<1>14. Holds(k, used)'
  <2> SUFFICES ASSUME NEW a \in Cells(used)
               PROVE  mem'[a] \in {PayloadByte(given[k], a - used.offset), Junk}
    BY <1>7 DEF Holds, Cells, PayloadByte, Junk
  <2> QED
    BY <1>6, <1>7, <1>13 DEF IsolationInv, Unwritten
<1>15. ASSUME NEW l \in Keys, NEW i \in DOMAIN Chain(l), NEW b, b = Chain(l)[i]
       PROVE  Holds(l, b)'
  <2>1. b \in Block
    BY <1>15, ChainType, DomainIsLen
  <2>2. Holds(l, b)
    BY <1>15, IsolationByBlock DEF IsolationInv
  <2>3. Cells(b) \subseteq Addr
    BY <1>15 DEF IsolationInv, Bounded, Owned, On
  <2>4. Disjoint(b, used)
    <3>1. Apart(<<used>>, Chain(l))
      BY <1>4, <1>5, PartOfBlock, ApartSymmetric DEF BlocksApart
    <3> QED
      BY <1>3, <1>15, <3>1, OneBlock DEF Apart, Disjoint
  <2> QED
    BY <1>12, <2>1, <2>2, <2>3, <2>4
<1>16. Isolation'
  <2>1. ASSUME NEW l \in Keys, NEW i \in DOMAIN Chain(l)', NEW b, b = Chain(l)'[i]
        PROVE  Holds(l, b)'
    <3>1. CASE l = k
      <4>1. \/ i \in DOMAIN Chain(k) /\ b = Chain(k)[i]
            \/ \E n \in DOMAIN <<used>> : b = <<used>>[n]
        BY <1>1, <1>3, <2>1, <3>1, ChainType, ConcatPositions
      <4>2. CASE i \in DOMAIN Chain(k) /\ b = Chain(k)[i]
        BY <1>15, <3>1, <4>2
      <4>3. CASE b = used
        BY <1>14, <3>1, <4>3
      <4> QED
        BY <1>3, <4>1, <4>2, <4>3, OneBlock
    <3>2. CASE l # k
      BY <1>1, <1>15, <2>1, <3>2
    <3> QED
      BY <3>1, <3>2
  <2> QED
    BY <2>1 DEF Isolation, Holds
<1> QED
  BY <1>9, <1>10, <1>11, <1>16 DEF IsolationInv

LEMMA IsolationStep ==
    TypeInv /\ BlocksApart /\ IsolationInv /\ [StoreNext]_storeVars => IsolationInv'
<1> SUFFICES ASSUME TypeInv, BlocksApart, IsolationInv, [StoreNext]_storeVars
             PROVE  IsolationInv'
  OBVIOUS
(* The parts, from what a step leaves alone.                               *)
<1>1. ASSUME Isolation', GivenIsCopied', UNCHANGED <<mem, page_init_cnt>>,
             \A a : Owned(a)' => Owned(a)
      PROVE  IsolationInv'
  BY <1>1 DEF IsolationInv, Bounded, Unwritten, Reserved, Addr, Junk
<1>2. ASSUME UNCHANGED <<idx_used, idx_free, mem, given>>
      PROVE  Isolation' /\ \A a : Owned(a)' => Owned(a)
  BY <1>2, SameLists, KeptBlocks DEF Owned, IsolationInv
<1>3. ASSUME op' = Idle PROVE GivenIsCopied'
  BY <1>3 DEF GivenIsCopied, Idle
<1>4. ASSUME UNCHANGED <<op, given>> PROVE GivenIsCopied'
  BY <1>4 DEF GivenIsCopied, IsolationInv
<1>5. CASE CopyBlock
  BY <1>5, CopyIsolation
<1>6. CASE SetNewPage \/ SetInPlace
  <2>1. op \in Call /\ op.key \in Keys
    BY <1>6 DEF SetNewPage, SetInPlace, Reserving, TypeInv, TypeOK, Idle, Call
  <2>2. UNCHANGED <<idx_free, mem>>
    BY <1>6 DEF SetNewPage, SetInPlace
  <2>3. Isolation' /\ GivenIsCopied' /\ \A a : Owned(a)' => Owned(a)
    <3>1. CASE MakeRoot
      BY <2>1, <2>2, <3>1, MakeRootIsolation DEF IsolationInv
    <3>2. CASE UNCHANGED <<idx_used, given, op>>
      BY <1>2, <1>4, <2>2, <3>2
    <3> QED
      BY <1>6, <3>1, <3>2 DEF SetNewPage, SetInPlace
  <2>4. page_init_cnt' = page_init_cnt \/ page_init_cnt' = page_init_cnt + 1
    BY <1>6 DEF SetNewPage, SetInPlace, PageReserve, sizeVars
  <2>5. Unwritten'
    <3>1. page_init_cnt \in Nat
      BY DEF TypeInv, TypeOK
    <3>2. ASSUME NEW a \in Addr, ~Reserved(a)' PROVE ~Reserved(a)
      <4>1. a \div SzPage \in Int
        BY PageType, StoreAssumption DEF Addr
      <4>2. ~(a \div SzPage < page_init_cnt')
        BY <3>2 DEF Reserved, SzPage
      <4> QED
        BY <2>4, <3>1, <4>1, <4>2 DEF Reserved
    <3> QED
      BY <2>2, <3>2 DEF Unwritten, IsolationInv, Addr, Junk
  <2>6. Bounded'
    BY <2>3 DEF Bounded, IsolationInv, Addr
  <2> QED
    BY <2>3, <2>5, <2>6 DEF IsolationInv
<1>7. CASE SetNoSpace \/ SetOutOfBlocks \/ SetBalance
  BY <1>1, <1>2, <1>3, <1>7 DEF SetNoSpace, SetOutOfBlocks, SetBalance, indexVars, sizeVars
<1>8. CASE Tick \/ UNCHANGED storeVars
  BY <1>1, <1>2, <1>4, <1>8 DEF Tick, storeVars, indexVars, sizeVars
<1>9. ASSUME NEW k \in Keys, NEW v \in Payloads, NEW force \in BOOLEAN,
             SetRefused(k, v, force)
      PROVE  IsolationInv'
  BY <1>1, <1>2, <1>4, <1>9 DEF SetRefused, indexVars, sizeVars
<1>10. ASSUME NEW k \in Keys, NEW v \in Payloads, NEW force \in BOOLEAN,
              SetAccepted(k, v, force)
       PROVE  IsolationInv'
  <2>1. op'.pc # "copy"
    BY <1>10 DEF SetAccepted
  <2>2. CASE UNCHANGED <<indexVars, sizeVars, mem, now, given, fault>>
    BY <1>1, <1>2, <2>1, <2>2 DEF GivenIsCopied, indexVars, sizeVars
  <2>3. CASE EvictKey(k, FALSE)
    BY <1>1, <2>1, <2>3, EvictIsolation DEF GivenIsCopied, EvictKey, IsolationInv
  <2> QED
    BY <1>10, <2>2, <2>3 DEF SetAccepted
<1>11. ASSUME NEW k \in Keys, NEW len \in BufLens, Get(k, len) PROVE IsolationInv'
  BY <1>1, <1>2, <1>4, <1>11 DEF Get, GetNull, GetFails, GetData, indexVars, sizeVars
<1>12. ASSUME NEW k \in Keys, Evict(k) \/ ExpireKey(k) PROVE IsolationInv'
  <2>1. op' = Idle
    BY <1>12 DEF Evict, EvictMiss, EvictHit, ExpireKey, Ready
  <2>2. CASE EvictKey(k, FALSE) \/ EvictKey(k, TRUE)
    BY <1>1, <1>3, <2>1, <2>2, EvictIsolation DEF EvictKey, IsolationInv
  <2>3. CASE EvictMiss(k)
    BY <1>1, <1>2, <1>3, <2>1, <2>3 DEF EvictMiss, indexVars, sizeVars
  <2> QED
    BY <1>12, <2>2, <2>3 DEF Evict, EvictHit, ExpireKey
<1>13. ASSUME NEW b \in DOMAIN idx_expire, EraseBucket(b) PROVE IsolationInv'
  BY <1>1, <1>2, <1>4, <1>13 DEF EraseBucket, sizeVars
<1> QED
  BY <1>5, <1>6, <1>7, <1>8, <1>9, <1>10, <1>11, <1>12, <1>13 DEF StoreNext, SetStep

LEMMA IsolationInit == StoreInit => IsolationInv
<1> SUFFICES ASSUME StoreInit PROVE IsolationInv
  OBVIOUS
<1> DEFINE b == [offset |-> 0, len |-> SzMax]
<1>1. b \in Block /\ Cells(b) = Addr
  BY WholeShard
<1>2. idx_free = <<b>> /\ \A k \in Keys : Chain(k) = <<>>
  BY DEF StoreInit, Chain, IsEntry, Absent
<1> HIDE DEF b
<1>3. \A a : ~On(a, <<>>)
  BY DEF On
<1>4. Bounded
  BY <1>1, <1>2, <1>3, OnOne DEF Bounded, Owned
<1>5. Isolation
  BY <1>2 DEF Isolation
<1>6. Unwritten /\ GivenIsCopied
  BY DEF StoreInit, Unwritten, GivenIsCopied, Idle
<1> QED
  BY <1>4, <1>5, <1>6 DEF IsolationInv

(* What __get copies out of an entry never holds a byte of another key or  *)
(* of an earlier set of the key, however its blocks were recycled (__set,  *)
(* __get, set_byte, get_byte).                                             *)
THEOREM EntriesAreIsolated == StoreSpec => []Isolation
<1>1. IsolationInv => Isolation
  BY DEF IsolationInv
<1> QED
  BY <1>1, ApartInit, ApartStep, IsolationInit, IsolationStep, TypeInit, TypeStep, PTL
  DEF StoreSpec

-----------------------------------------------------------------------------
(* Accounting.  The counters are only corrected at the end of a set, and a *)
(* set that ends half-way is never counted, although its blocks are taken  *)
(* off the counters when its entry is evicted.  So they are exact only if  *)
(* no set ends half-way, and for that every set needs at most the one page *)
(* it may reserve, and the last page must not reach beyond the shard.      *)

Aligned ==
    /\ \E pages \in Nat : SzMax = pages * SzPage
    /\ \A v \in Payloads : PayloadLen[v] <= SzPage

CellsOf(k) == {a \in Addr : On(a, Chain(k))}

(* What the set in progress has copied, and what it will count at the end. *)
InSet  == op.pc \in {"copy", "balance"}
Copied == IF InSet THEN PayloadLen[op.val] - op.remained ELSE 0
InHand == IF InSet THEN PayloadLen[op.val] ELSE 0

EntriesMeasured ==
    \A k \in Keys : IsEntry(k) => Cardinality(CellsOf(k)) = idx_used[k].total_len
UsedIsCounted == Cardinality(UsedAddrs) = sz_used + Copied
FreeIsRest    == sz_free = SzMax - sz_used
AllocIsPages  == sz_alloc = page_init_cnt * SzPage /\ sz_alloc <= SzMax
AllocSuffices == sz_used + InHand <= sz_alloc
Unfinished    == /\ op.pc \in {"reserve", "copy"} => op.remained > 0
                 /\ op.pc = "balance" => op.remained = 0

SizeInv ==
    /\ EntriesMeasured /\ UsedIsCounted /\ FreeIsRest
    /\ AllocIsPages /\ AllocSuffices /\ Unfinished

LEMMA AddrFinite == IsFiniteSet(Addr) /\ Cardinality(Addr) = SzMax
<1>1. SzMax \in Nat /\ SzMax - 1 \in Int
  BY StoreAssumption
<1>2. IsFiniteSet(0..(SzMax - 1)) /\
      Cardinality(0..(SzMax - 1)) = IF 0 > SzMax - 1 THEN 0 ELSE SzMax - 1 - 0 + 1
  BY <1>1, FS_Interval
<1> QED
  BY <1>1, <1>2 DEF Addr

LEMMA AddrSubset ==
    ASSUME NEW S \in SUBSET Addr
    PROVE  IsFiniteSet(S) /\ Cardinality(S) \in Nat /\ Cardinality(S) <= SzMax
BY AddrFinite, FS_Subset, FS_CardinalityType

LEMMA CellsCounted ==
    ASSUME NEW b \in Block
    PROVE  IsFiniteSet(Cells(b)) /\ Cardinality(Cells(b)) = b.len
<1> DEFINE last == b.offset + b.len - 1
<1>1. b.offset \in Int /\ last \in Int /\ b.len \in Nat
  BY DEF Block
<1>2. /\ IsFiniteSet(b.offset .. last)
      /\ Cardinality(b.offset .. last) = IF b.offset > last THEN 0 ELSE last - b.offset + 1
  BY <1>1, FS_Interval
<1> QED
  BY <1>1, <1>2 DEF Cells

LEMMA UsedByEntry == UsedAddrs = {a \in Addr : \E k \in Keys : On(a, Chain(k))}
BY DEF UsedAddrs, On

LEMMA ApartOn ==
    ASSUME NEW s, NEW t, Apart(s, t), NEW a, On(a, s)
    PROVE  ~On(a, t)
BY DEF Apart, On, Disjoint

(* An address is free or used, and not both.                               *)
LEMMA FreeCounted ==
    ASSUME BlocksApart, AllOwned
    PROVE  Cardinality(FreeAddrs) = SzMax - Cardinality(UsedAddrs)
<1>1. UsedAddrs \cup FreeAddrs = Addr
  BY AllOwnedIsNoLeak DEF NoLeak
<1>2. UsedAddrs \cap FreeAddrs = {}
  BY UsedByEntry, ApartOn DEF BlocksApart, FreeAddrs, On
<1>3. /\ IsFiniteSet(UsedAddrs) /\ Cardinality(UsedAddrs) \in Nat
      /\ IsFiniteSet(FreeAddrs) /\ Cardinality(FreeAddrs) \in Nat
  BY AddrSubset DEF UsedAddrs, FreeAddrs
<1>4. SzMax = Cardinality(UsedAddrs) + Cardinality(FreeAddrs)
  BY <1>1, <1>2, <1>3, AddrFinite, FS_Union, FS_EmptySet
<1> QED
  BY <1>3, <1>4

(* Entries that are evicted take their own addresses with them.            *)
LEMMA EvictCells ==
    ASSUME TypeInv, BlocksApart, NEW k \in Keys, NEW skip \in BOOLEAN, EvictKey(k, skip)
    PROVE  /\ UsedAddrs' = UsedAddrs \ CellsOf(k)
           /\ CellsOf(k) \subseteq UsedAddrs
           /\ \A l \in Keys : IsEntry(l)' => /\ IsEntry(l)
                                             /\ idx_used'[l] = idx_used[l]
                                             /\ CellsOf(l)' = CellsOf(l)
<1>1. /\ Chain(k)' = <<>>
      /\ \A l \in Keys \ {k} : Chain(l)' = Chain(l)
  BY DEF EvictKey, EvictNode, EvictEntry, Chain, IsEntry, Absent, Null, TypeInv, TypeOK
<1>2. \A a : ~On(a, <<>>)
  BY DEF On
<1>3. \A a : \A l \in Keys \ {k} : On(a, Chain(l)) => ~On(a, Chain(k))
  BY ApartOn DEF BlocksApart
<1>4. UsedAddrs' = {a \in Addr : \E l \in Keys : On(a, Chain(l)')}
  BY DEF UsedAddrs, On, Cells, Addr
<1>5. UsedAddrs' = UsedAddrs \ CellsOf(k)
  BY <1>1, <1>2, <1>3, <1>4, UsedByEntry DEF CellsOf
<1>6. \A l \in Keys : IsEntry(l)' => IsEntry(l) /\ idx_used'[l] = idx_used[l] /\ l # k
  BY DEF EvictKey, EvictNode, EvictEntry, IsEntry, Absent, Null, TypeInv, TypeOK
<1>7. \A l \in Keys \ {k} : CellsOf(l)' = CellsOf(l)
  BY <1>1 DEF CellsOf, On, Cells, Addr
<1> QED
  BY <1>5, <1>6, <1>7, UsedByEntry DEF CellsOf

(* A block that is copied to was free.                                     *)
LEMMA CopyCells ==
    ASSUME TypeInv, BlocksApart, Bounded, CopyBlock, NEW k, k = op.key, NEW used,
           used = [offset |-> Head(idx_free).offset, len |-> Taken]
    PROVE  /\ k \in Keys
           /\ CellsOf(k)' = CellsOf(k) \cup Cells(used)
           /\ \A l \in Keys \ {k} : CellsOf(l)' = CellsOf(l)
           /\ UsedAddrs' = UsedAddrs \cup Cells(used)
           /\ UsedAddrs \cap Cells(used) = {}
           /\ IsFiniteSet(Cells(used)) /\ Cardinality(Cells(used)) = Taken
<1>1. Copying /\ idx_free # <<>> /\ idx_free \in Seq(Block)
  BY DEF CopyBlock, TypeInv, TypeOK
<1>2. /\ k \in Keys
      /\ Chain(k)' = Chain(k) \o <<used>>
      /\ \A l \in Keys \ {k} : Chain(l)' = Chain(l)
  BY CopyLists
<1>3. used \in Block /\ Cells(used) \subseteq Cells(Head(idx_free)) /\ <<used>> \in Seq(Block)
  BY <1>1, CutApart, OneBlock
<1>4. \A a \in Cells(used) : On(a, idx_free)
  <2>1. 1 \in DOMAIN idx_free /\ Head(idx_free) = idx_free[1]
    BY <1>1, HeadTailProperties, DomainIsLen
  <2> QED
    BY <1>3, <2>1 DEF On
<1>5. Cells(used) \subseteq Addr
  BY <1>4 DEF Bounded, Owned
<1>6. \A a : On(a, Chain(k)') <=> On(a, Chain(k)) \/ a \in Cells(used)
  <2>1. Chain(k) \in Seq(Block)
    BY <1>2, ChainType
  <2>2. \A a : On(a, <<used>>) <=> a \in Cells(used)
    BY <1>3, OneOn, OnOne
  <2>3. \A a : On(a, Chain(k) \o <<used>>) <=> On(a, Chain(k)) \/ On(a, <<used>>)
    BY <1>3, <2>1, ConcatOn, OnConcat
  <2> QED
    BY <1>2, <2>2, <2>3
<1>7. UsedAddrs' = {a \in Addr : \E l \in Keys : On(a, Chain(l)')}
  BY DEF UsedAddrs, On, Cells, Addr
<1>8. CellsOf(k)' = CellsOf(k) \cup Cells(used)
  <2>1. CellsOf(k)' = {a \in Addr : On(a, Chain(k)')}
    BY DEF CellsOf, On, Cells, Addr
  <2> QED
    BY <1>5, <1>6, <2>1 DEF CellsOf
<1>9. \A l \in Keys \ {k} : CellsOf(l)' = CellsOf(l)
  BY <1>2 DEF CellsOf, On, Cells, Addr
<1>10. UsedAddrs' = UsedAddrs \cup Cells(used)
  BY <1>2, <1>5, <1>6, <1>7, UsedByEntry
<1>11. UsedAddrs \cap Cells(used) = {}
  BY <1>4, UsedByEntry, ApartOn DEF BlocksApart
<1>12. Taken \in Nat /\ used.len = Taken
  BY <1>1, TakenType
<1>13. IsFiniteSet(Cells(used)) /\ Cardinality(Cells(used)) = Taken
  BY <1>3, <1>12, CellsCounted
<1> QED
  BY <1>2, <1>8, <1>9, <1>10, <1>11, <1>13

(* Multiples are ordered as their factors are.                             *)
LEMMA MoreOfSame ==
    ASSUME NEW m \in Nat, NEW n \in Nat, NEW p \in Nat
    PROVE  /\ m <= n => m * p <= n * p
           /\ m * p < n * p => m < n
<1>1. ASSUME NEW a \in Nat, NEW b \in Nat, a <= b PROVE a * p <= b * p
  <2>1. b = a + (b - a) /\ b - a \in Nat
    BY <1>1
  <2>2. b * p = a * p + (b - a) * p
    BY <2>1
  <2>3. (b - a) * p \in Nat /\ a * p \in Nat
    BY <2>1
  <2> QED
    BY <2>2, <2>3
<1>2. m * p \in Nat /\ n * p \in Nat
  OBVIOUS
<1>3. n <= m \/ m < n
  OBVIOUS
<1> QED
  BY <1>1, <1>2, <1>3

(* What each kind of step does to the sizes.                               *)
LEMMA SizesKept ==
    ASSUME SizeInv,
           UNCHANGED <<idx_used, sz_used, sz_free, sz_alloc, page_init_cnt>>,
           \/ op' = op
           \/ op' = Idle /\ op.pc \notin {"copy", "balance"}
           \/ /\ op.pc \notin {"copy", "balance"}
              /\ op'.pc = "reserve" /\ op'.remained > 0
    PROVE  SizeInv'
<1>1. /\ UsedAddrs' = UsedAddrs
      /\ \A k \in Keys : CellsOf(k)' = CellsOf(k)
  BY DEF UsedAddrs, CellsOf, On, Cells, Chain, IsEntry, Addr
<1>2. EntriesMeasured'
  BY <1>1 DEF SizeInv, EntriesMeasured, IsEntry
<1>3. op'.pc \in {"reserve", "copy"} => op'.remained > 0
  BY DEF SizeInv, Unfinished, Idle
<1>4. op'.pc = "balance" => op'.remained = 0
  BY DEF SizeInv, Unfinished, Idle
<1>5. InHand' = InHand /\ Copied' = Copied
  BY DEF InHand, Copied, InSet, Idle
<1>6. UsedIsCounted' /\ FreeIsRest' /\ AllocIsPages' /\ AllocSuffices'
  BY <1>1, <1>5 DEF SizeInv, UsedIsCounted, FreeIsRest, AllocIsPages, AllocSuffices, SzPage
<1> QED
  BY <1>2, <1>3, <1>4, <1>6 DEF SizeInv, Unfinished

(* The counters as numbers.                                                *)
LEMMA SizeTypes ==
    ASSUME TypeInv, SizeInv
    PROVE  /\ sz_used \in Nat /\ sz_free \in Nat /\ sz_alloc \in Nat /\ SzMax \in Nat
           /\ Word \in Nat /\ SzMax < Word
           /\ sz_used <= sz_alloc /\ sz_alloc <= SzMax
           /\ InHand \in Nat /\ sz_used + InHand <= SzMax
           /\ ~InSet => InHand = 0 /\ Copied = 0 /\ sz_used = Cardinality(UsedAddrs)
<1>1. /\ sz_used \in Nat /\ sz_free \in Nat /\ sz_alloc \in Nat /\ SzMax \in Nat
      /\ Word \in Nat /\ SzMax < Word
  BY StoreAssumption DEF TypeInv, TypeOK
<1>2. InHand \in Nat
  <2>1. CASE InSet
    <3>1. op \in Call
      BY <2>1 DEF InSet, TypeInv, TypeOK, Idle
    <3> QED
      BY <2>1, <3>1, PayloadBound DEF InHand, Call
  <2>2. CASE ~InSet
    BY <2>2 DEF InHand
  <2> QED
    BY <2>1, <2>2
<1>3. sz_used + InHand <= sz_alloc /\ sz_alloc <= SzMax
  BY DEF SizeInv, AllocSuffices, AllocIsPages
<1>4. ~InSet => InHand = 0 /\ Copied = 0
  BY DEF InHand, Copied
<1>5. Cardinality(UsedAddrs) = sz_used + Copied
  BY DEF SizeInv, UsedIsCounted
<1> QED
  BY <1>1, <1>2, <1>3, <1>4, <1>5

(* An entry that is evicted gives back what it had taken, no more.         *)
LEMMA EvictSizes ==
    ASSUME TypeInv, BlocksApart, SizeInv, NEW k \in Keys, NEW skip \in BOOLEAN,
           EvictKey(k, skip), ~InSet,
           op' = Idle \/ (op'.pc = "reserve" /\ op'.remained > 0)
    PROVE  SizeInv'
<1>1. CASE EvictNode(k)
  <2>1. UNCHANGED <<sz_used, sz_free, sz_alloc, page_init_cnt>>
    BY <1>1 DEF EvictKey, EvictNode
  <2>2. /\ UsedAddrs' = UsedAddrs \ CellsOf(k)
        /\ \A l \in Keys : IsEntry(l)' => IsEntry(l) /\ idx_used'[l] = idx_used[l]
                                          /\ CellsOf(l)' = CellsOf(l)
    BY EvictCells
  <2>3. CellsOf(k) = {}
    BY <1>1 DEF EvictNode, CellsOf, Chain, On
  <2>4. EntriesMeasured' /\ UsedAddrs' = UsedAddrs
    BY <2>2, <2>3 DEF SizeInv, EntriesMeasured
  <2>5. InHand' = InHand /\ Copied' = Copied /\ Unfinished'
    BY DEF InHand, Copied, InSet, Idle, Unfinished
  <2> QED
    BY <2>1, <2>4, <2>5 DEF SizeInv, UsedIsCounted, FreeIsRest, AllocIsPages, AllocSuffices, SzPage
<1>2. CASE EvictEntry(k, skip)
  <2> DEFINE n == idx_used[k].total_len
  <2>1. IsEntry(k) /\ sz_used' = U64Sub(sz_used, n) /\ sz_free' = U64Add(sz_free, n)
    BY <1>2 DEF EvictEntry
  <2>2. UNCHANGED <<sz_alloc, page_init_cnt>>
    BY DEF EvictKey
  <2>3. /\ UsedAddrs' = UsedAddrs \ CellsOf(k)
        /\ CellsOf(k) \subseteq UsedAddrs
        /\ \A l \in Keys : IsEntry(l)' => IsEntry(l) /\ idx_used'[l] = idx_used[l]
                                          /\ CellsOf(l)' = CellsOf(l)
    BY EvictCells
  <2>4. Cardinality(CellsOf(k)) = n
    BY <2>1 DEF SizeInv, EntriesMeasured
  <2>5. /\ IsFiniteSet(UsedAddrs) /\ Cardinality(UsedAddrs) \in Nat
        /\ Cardinality(UsedAddrs) <= SzMax
    BY AddrSubset DEF UsedAddrs
  <2>6. n \in Nat /\ n <= Cardinality(UsedAddrs)
    BY <2>3, <2>4, <2>5, FS_Subset, FS_CardinalityType
  <2>7. Cardinality(UsedAddrs') = Cardinality(UsedAddrs) - n
    <3>1. UsedAddrs \cap CellsOf(k) = CellsOf(k)
      BY <2>3
    <3>2. Cardinality(UsedAddrs \ CellsOf(k))
            = Cardinality(UsedAddrs) - Cardinality(UsedAddrs \cap CellsOf(k))
      BY <2>5, FS_Difference
    <3> QED
      BY <2>3, <2>4, <3>1, <3>2
  <2> HIDE DEF n
  <2>8. sz_used = Cardinality(UsedAddrs) /\ SzMax \in Nat /\ SzMax < Word /\ Word \in Nat
    BY SizeTypes
  <2>9. sz_used' = sz_used - n
    BY <2>1, <2>5, <2>6, <2>8 DEF U64Sub
  <2>10. sz_free = SzMax - sz_used
    BY DEF SizeInv, FreeIsRest
  <2>11. sz_free' = SzMax - sz_used'
    BY <2>1, <2>5, <2>6, <2>8, <2>9, <2>10 DEF U64Add
  <2>12. InHand' = 0 /\ Copied' = 0 /\ Unfinished'
    BY DEF InHand, Copied, InSet, Idle, Unfinished
  <2>13. UsedIsCounted'
    BY <2>5, <2>6, <2>7, <2>8, <2>9, <2>12 DEF UsedIsCounted
  <2>14. AllocIsPages'
    BY <2>2 DEF SizeInv, AllocIsPages, SzPage
  <2>15. AllocSuffices'
    <3>1. sz_used <= sz_alloc /\ sz_alloc \in Nat /\ sz_used \in Nat
      BY SizeTypes
    <3> QED
      BY <2>2, <2>6, <2>9, <2>12, <3>1 DEF AllocSuffices
  <2>16. EntriesMeasured'
    BY <2>3 DEF SizeInv, EntriesMeasured
  <2> QED
    BY <2>11, <2>12, <2>13, <2>14, <2>15, <2>16 DEF SizeInv, FreeIsRest
<1> QED
  BY <1>1, <1>2 DEF EvictKey

(* A set that passes the space check has room within the allocated pages,  *)
(* with the one that it may add.                                           *)
LEMMA ReserveSizes ==
    ASSUME Aligned, TypeInv, Unrooted, SizeInv, SetNewPage \/ SetInPlace
    PROVE  SizeInv'
<1>1. /\ op \in Call /\ op.pc = "reserve" /\ op.remained = PayloadLen[op.val]
      /\ op.remained \in Nat /\ op.remained > 0 /\ op.key \in Keys
  BY DEF SetNewPage, SetInPlace, Reserving, TypeInv, TypeOK, Lengths, Idle, Call,
         SizeInv, Unfinished
<1>2. /\ sz_used \in Nat /\ sz_alloc \in Nat /\ SzMax \in Nat /\ Word \in Nat
      /\ sz_used <= sz_alloc /\ sz_alloc <= SzMax /\ SzMax < Word
      /\ sz_used = Cardinality(UsedAddrs)
  BY <1>1, SizeTypes DEF InSet
<1>3. SzPage \in Nat /\ page_init_cnt \in Nat /\ op.remained <= SzPage
  BY <1>1, PageType DEF Aligned, TypeInv, TypeOK, Call
<1>4. Room = sz_alloc - sz_used
  BY <1>2 DEF Room, U64Sub
<1>5. SzMax + op.remained < Word
  <2>1. PageCnt * SzPage \in Nat
    BY PageType
  <2>2. PageCnt * SzPage + SzMax + op.remained < Word
    BY <1>1, StoreAssumption DEF Call
  <2> QED
    BY <1>1, <1>2, <2>1, <2>2
<1>6. ~MakeRoot => SizeInv'
  <2> SUFFICES ASSUME ~MakeRoot PROVE SizeInv'
    OBVIOUS
  <2>1. UNCHANGED <<idx_used, sz_used, sz_free, sz_alloc, page_init_cnt, op>>
    BY DEF SetNewPage, SetInPlace, sizeVars
  <2> QED
    BY <2>1, SizesKept
<1>7. ASSUME MakeRoot,
             sz_used + op.remained <= sz_alloc', sz_alloc' <= SzMax,
             sz_alloc' = page_init_cnt' * SzPage
      PROVE  SizeInv'
  <2>1. UNCHANGED <<sz_used, sz_free>>
    BY DEF SetNewPage, SetInPlace, sizeVars
  <2>2. op'.pc = "copy" /\ op'.remained = op.remained /\ op'.val = op.val
    BY <1>1, <1>7 DEF MakeRoot, Call
  <2>3. \A k \in Keys : Chain(k)' = Chain(k)
    BY <1>1, <1>7 DEF MakeRoot, Chain, IsEntry, TypeInv, TypeOK, Unrooted
  <2>4. UsedAddrs' = UsedAddrs /\ \A k \in Keys : CellsOf(k)' = CellsOf(k)
    BY <2>3 DEF UsedAddrs, CellsOf, On, Cells, Addr
  <2>5. /\ idx_used'[op.key].total_len = 0
        /\ \A k \in Keys \ {op.key} : idx_used'[k] = idx_used[k]
    BY <1>1, <1>7 DEF MakeRoot, TypeInv, TypeOK
  <2>6. Cardinality(CellsOf(op.key)) = 0
    <3>1. CellsOf(op.key) = {}
      BY <1>1 DEF CellsOf, Chain, Unrooted, On
    <3> QED
      BY <3>1, FS_EmptySet
  <2>7. EntriesMeasured'
    BY <1>1, <2>4, <2>5, <2>6 DEF SizeInv, EntriesMeasured, IsEntry
  <2>8. InHand' = op.remained /\ Copied' = 0
    BY <1>1, <2>2 DEF InHand, Copied, InSet
  <2>9. UsedIsCounted'
    BY <1>2, <2>1, <2>4, <2>8 DEF UsedIsCounted
  <2>10. FreeIsRest' /\ AllocIsPages' /\ AllocSuffices' /\ Unfinished'
    BY <1>1, <1>7, <2>1, <2>2, <2>8
       DEF SizeInv, FreeIsRest, AllocIsPages, AllocSuffices, Unfinished, SzPage
  <2> QED
    BY <2>7, <2>9, <2>10 DEF SizeInv
<1>8. CASE SetInPlace /\ MakeRoot
  <2>1. sz_alloc' = sz_alloc /\ page_init_cnt' = page_init_cnt /\ Room >= op.remained
    BY <1>8 DEF SetInPlace, sizeVars
  <2>2. sz_alloc = page_init_cnt * SzPage
    BY DEF SizeInv, AllocIsPages
  <2>3. sz_used + op.remained <= sz_alloc
    BY <1>1, <1>2, <1>4, <2>1
  <2> QED
    BY <1>2, <1>7, <1>8, <2>1, <2>2, <2>3
<1>9. CASE SetNewPage /\ MakeRoot
  <2>1. /\ sz_alloc' = sz_alloc + SzPage /\ page_init_cnt' = page_init_cnt + 1
        /\ Room < op.remained /\ ~Exceeded
    <3>1. op' # op
      BY <1>1, <1>9 DEF MakeRoot, Call
    <3> QED
      BY <1>9, <3>1 DEF SetNewPage, PageReserve
  <2>2. sz_used + op.remained <= SzMax
    BY <1>1, <1>2, <1>5, <2>1 DEF Exceeded, U64Add
  <2>3. sz_used + op.remained <= sz_alloc + SzPage
    BY <1>1, <1>2, <1>3
  <2>4. sz_alloc < SzMax
    BY <1>1, <1>2, <1>4, <2>1, <2>2
  <2>5. PICK pages \in Nat : SzMax = pages * SzPage
    BY DEF Aligned
  <2>6. sz_alloc = page_init_cnt * SzPage
    BY DEF SizeInv, AllocIsPages
  <2>7. page_init_cnt < pages
    BY <1>3, <2>4, <2>5, <2>6, MoreOfSame
  <2>8. (page_init_cnt + 1) * SzPage <= pages * SzPage
    BY <1>3, <2>7, MoreOfSame
  <2>9. (page_init_cnt + 1) * SzPage = page_init_cnt * SzPage + SzPage
    BY <1>3
  <2> QED
    BY <1>2, <1>3, <1>7, <1>9, <2>1, <2>3, <2>5, <2>6, <2>8, <2>9
<1> QED
  BY <1>6, <1>8, <1>9

(* A block that is copied counts at once as used, and once all is copied   *)
(* the payload is added to the counter.                                    *)
LEMMA CopySizes ==
    ASSUME TypeInv, BlocksApart, Bounded, SizeInv, CopyBlock
    PROVE  SizeInv'
<1> SUFFICES ASSUME NEW k, k = op.key, NEW used,
                    used = [offset |-> Head(idx_free).offset, len |-> Taken]
             PROVE  SizeInv'
  OBVIOUS
<1>1. Copying /\ idx_free # <<>>
  BY DEF CopyBlock
<1>2. /\ op \in Call /\ op.pc = "copy" /\ op.remained \in Nat /\ IsEntry(k)
      /\ Taken \in Nat /\ Taken <= op.remained
  BY <1>1, TakenType DEF Copying, TypeInv, Lengths, Call
<1> DEFINE left == op.remained - Taken
<1>3. left \in Nat
  BY <1>2
<1>4. /\ k \in Keys
      /\ CellsOf(k)' = CellsOf(k) \cup Cells(used)
      /\ \A l \in Keys \ {k} : CellsOf(l)' = CellsOf(l)
      /\ UsedAddrs' = UsedAddrs \cup Cells(used)
      /\ UsedAddrs \cap Cells(used) = {}
      /\ IsFiniteSet(Cells(used)) /\ Cardinality(Cells(used)) = Taken
  BY CopyCells
<1>5. /\ UNCHANGED <<sz_used, sz_free, sz_alloc, page_init_cnt>>
      /\ idx_used' = [idx_used EXCEPT ![k] = Extended(idx_used[k], used, left)]
      /\ op' = [op EXCEPT !.remained = left, !.pc = AfterBlock(left)]
  BY DEF CopyBlock, sizeVars
<1> HIDE DEF left
<1>6. /\ op'.remained = left /\ op'.pc = AfterBlock(left) /\ op'.val = op.val
  BY <1>2, <1>5 DEF Call
<1>7. /\ idx_used'[k] = Extended(idx_used[k], used, left)
      /\ \A l \in Keys \ {k} : idx_used'[l] = idx_used[l]
  BY <1>4, <1>5 DEF TypeInv, TypeOK
<1>8. idx_used'[k].total_len = idx_used[k].total_len + Taken
  BY <1>7 DEF Extended
<1>9. ASSUME NEW S \in SUBSET UsedAddrs, NEW n \in Int, Cardinality(S) = n
      PROVE  Cardinality(S \cup Cells(used)) = n + Taken
  <2>1. IsFiniteSet(S)
    BY AddrSubset, FS_Subset DEF UsedAddrs
  <2>2. S \cap Cells(used) = {}
    BY <1>4
  <2>3. Cardinality(S \cup Cells(used))
          = Cardinality(S) + Cardinality(Cells(used)) - Cardinality(S \cap Cells(used))
    BY <1>4, <2>1, FS_Union
  <2>4. Cardinality(S \cap Cells(used)) = 0
    BY <2>2, FS_EmptySet
  <2> QED
    BY <1>2, <1>4, <1>9, <2>3, <2>4
<1>10. EntriesMeasured'
  <2>1. CellsOf(k) \subseteq UsedAddrs
    BY <1>4, UsedByEntry DEF CellsOf
  <2>2. Cardinality(CellsOf(k)) = idx_used[k].total_len /\ Cardinality(CellsOf(k)) \in Nat
    BY <1>2, <1>4, AddrSubset DEF SizeInv, EntriesMeasured, CellsOf
  <2>3. Cardinality(CellsOf(k) \cup Cells(used)) = idx_used[k].total_len + Taken
    BY <1>9, <2>1, <2>2
  <2>4. Cardinality(CellsOf(k)') = idx_used'[k].total_len
    BY <1>4, <1>8, <2>3
  <2> QED
    BY <1>4, <1>7, <2>4 DEF SizeInv, EntriesMeasured, IsEntry
<1>11. PayloadLen[op.val] \in Nat
  BY <1>2, PayloadBound DEF Call
<1>12. Copied = PayloadLen[op.val] - op.remained /\ InHand = PayloadLen[op.val]
  BY <1>2 DEF Copied, InHand, InSet
<1>13. Copied' = PayloadLen[op.val] - left /\ InHand' = PayloadLen[op.val]
  BY <1>6 DEF Copied, InHand, InSet, AfterBlock
<1>14. UsedIsCounted'
  <2>1. Cardinality(UsedAddrs) = sz_used + Copied /\ sz_used \in Nat
    BY SizeTypes DEF SizeInv, UsedIsCounted
  <2>2. Cardinality(UsedAddrs') = sz_used + Copied + Taken
    BY <1>2, <1>4, <1>9, <1>11, <1>12, <2>1
  <2>3. Copied' = Copied + Taken
    BY <1>2, <1>11, <1>12, <1>13 DEF left
  <2> QED
    BY <1>2, <1>5, <1>11, <1>12, <2>1, <2>2, <2>3 DEF UsedIsCounted
<1>15. FreeIsRest' /\ AllocIsPages' /\ AllocSuffices'
  BY <1>5, <1>12, <1>13 DEF SizeInv, FreeIsRest, AllocIsPages, AllocSuffices, SzPage
<1>16. Unfinished'
  BY <1>3, <1>6 DEF Unfinished, AfterBlock
<1> QED
  BY <1>10, <1>14, <1>15, <1>16 DEF SizeInv

LEMMA BalanceSizes ==
    ASSUME TypeInv, SizeInv, SetBalance
    PROVE  SizeInv'
<1> DEFINE n == PayloadLen[op.val]
<1>1. op \in Call /\ op.pc = "balance" /\ op.remained = 0
  BY DEF SetBalance, TypeInv, TypeOK, Idle, SizeInv, Unfinished
<1>2. n \in Nat /\ InHand = n /\ Copied = n
  BY <1>1, PayloadBound DEF InHand, Copied, InSet, Call
<1>3. /\ sz_free' = U64Sub(sz_free, n) /\ sz_used' = U64Add(sz_used, n) /\ op' = Idle
      /\ UNCHANGED <<idx_used, sz_alloc, page_init_cnt>>
  BY DEF SetBalance, indexVars
<1> HIDE DEF n
<1>4. /\ sz_used \in Nat /\ SzMax \in Nat /\ Word \in Nat /\ SzMax < Word
      /\ sz_used + n <= SzMax /\ sz_free = SzMax - sz_used
  BY <1>2, SizeTypes DEF SizeInv, FreeIsRest
<1>5. sz_used' = sz_used + n /\ sz_free' = SzMax - sz_used'
  BY <1>2, <1>3, <1>4 DEF U64Sub, U64Add
<1>6. /\ UsedAddrs' = UsedAddrs
      /\ \A k \in Keys : CellsOf(k)' = CellsOf(k)
  BY <1>3 DEF UsedAddrs, CellsOf, On, Cells, Chain, IsEntry, Addr
<1>7. InHand' = 0 /\ Copied' = 0 /\ Unfinished'
  BY <1>3 DEF InHand, Copied, InSet, Unfinished, Idle
<1>8. EntriesMeasured'
  BY <1>3, <1>6 DEF SizeInv, EntriesMeasured, IsEntry
<1>9. UsedIsCounted' /\ AllocSuffices'
  BY <1>2, <1>3, <1>4, <1>5, <1>6, <1>7 DEF SizeInv, UsedIsCounted, AllocSuffices
<1>10. AllocIsPages'
  BY <1>3 DEF SizeInv, AllocIsPages, SzPage
<1> QED
  BY <1>5, <1>7, <1>8, <1>9, <1>10 DEF SizeInv, FreeIsRest

(* A set that copies finds the room it needs, so it does not run out of    *)
(* blocks.                                                                 *)
LEMMA RoomToCopy ==
    ASSUME TypeInv, BlocksApart, AllOwned, SizeInv, op.pc = "copy"
    PROVE  op.remained <= Cardinality(FreeAddrs) /\ idx_free # <<>>
<1>1. op \in Call /\ op.remained \in Nat /\ op.remained > 0
  BY DEF TypeInv, TypeOK, Idle, Call, SizeInv, Unfinished
<1>2. PayloadLen[op.val] \in Nat
  BY <1>1, PayloadBound DEF Call
<1>3. Cardinality(UsedAddrs) = sz_used + (PayloadLen[op.val] - op.remained)
  BY DEF SizeInv, UsedIsCounted, Copied, InSet
<1>4. InHand = PayloadLen[op.val]
  BY DEF InHand, InSet
<1>5. sz_used \in Nat /\ SzMax \in Nat /\ sz_used + PayloadLen[op.val] <= SzMax
  BY <1>4, SizeTypes
<1>6. Cardinality(FreeAddrs) = SzMax - Cardinality(UsedAddrs)
  BY FreeCounted
<1>7. op.remained <= Cardinality(FreeAddrs)
  BY <1>1, <1>2, <1>3, <1>5, <1>6
<1>8. ASSUME idx_free = <<>> PROVE FALSE
  <2>1. FreeAddrs = {}
    BY <1>8 DEF FreeAddrs
  <2> QED
    BY <1>1, <1>7, <2>1, FS_EmptySet
<1> QED
  BY <1>7, <1>8

SizedInv == TypeInv /\ BlocksApart /\ LeakInv /\ IsolationInv /\ SizeInv /\ NoSpaceReported

LEMMA SizedStep ==
    ASSUME Aligned, SizedInv, [StoreNext]_storeVars
    PROVE  SizeInv' /\ NoSpaceReported'
<1> USE DEF SizedInv, LeakInv, IsolationInv
<1>1. ASSUME UNCHANGED <<idx_used, sizeVars>>,
             \/ op' = op
             \/ op' = Idle /\ op.pc \notin {"copy", "balance"}
             \/ /\ op.pc \notin {"copy", "balance"}
                /\ op'.pc = "reserve" /\ op'.remained > 0
      PROVE  SizeInv'
  BY <1>1, SizesKept DEF sizeVars
<1>2. ASSUME reply' = reply \/ reply'.err # "INTERNAL" PROVE NoSpaceReported'
  BY <1>2 DEF NoSpaceReported
<1>3. CASE CopyBlock
  BY <1>2, <1>3, CopySizes DEF CopyBlock
<1>4. CASE SetNewPage \/ SetInPlace
  BY <1>2, <1>4, ReserveSizes DEF SetNewPage, SetInPlace
<1>5. CASE SetBalance
  BY <1>2, <1>5, BalanceSizes DEF SetBalance, Reply
<1>6. CASE SetOutOfBlocks
  BY <1>6, RoomToCopy DEF SetOutOfBlocks, Copying
<1>7. CASE SetNoSpace
  BY <1>1, <1>2, <1>7 DEF SetNoSpace, Reserving, Reply, indexVars
<1>8. CASE Tick \/ UNCHANGED storeVars
  BY <1>1, <1>2, <1>8 DEF Tick, storeVars, indexVars
<1>9. ASSUME NEW k \in Keys, NEW v \in Payloads, NEW force \in BOOLEAN,
             SetRefused(k, v, force)
      PROVE  SizeInv' /\ NoSpaceReported'
  BY <1>1, <1>2, <1>9 DEF SetRefused, Reply, indexVars
<1>10. ASSUME NEW k \in Keys, NEW v \in Payloads, NEW force \in BOOLEAN,
              SetAccepted(k, v, force)
       PROVE  SizeInv' /\ NoSpaceReported'
  <2>1. op'.pc = "reserve" /\ op'.remained > 0 /\ reply' = reply /\ op = Idle
    BY <1>10 DEF SetAccepted, Ready
  <2>2. op.pc \notin {"copy", "balance"} /\ ~InSet
    BY <2>1 DEF Idle, InSet
  <2>3. CASE UNCHANGED <<indexVars, sizeVars, mem, now, given, fault>>
    BY <1>1, <1>2, <2>1, <2>2, <2>3 DEF indexVars
  <2>4. CASE EvictKey(k, FALSE)
    BY <1>2, <2>1, <2>2, <2>4, EvictSizes
  <2> QED
    BY <1>10, <2>3, <2>4 DEF SetAccepted
<1>11. ASSUME NEW k \in Keys, NEW len \in BufLens, Get(k, len)
       PROVE  SizeInv' /\ NoSpaceReported'
  <2>1. UNCHANGED <<idx_used, sizeVars, op>>
    BY <1>11 DEF Get, GetNull, GetFails, GetData, indexVars
  <2>2. reply' = reply \/ reply'.err # "INTERNAL"
    BY <1>11 DEF Get, GetNull, GetFails, GetData, Reply, GetError
  <2> QED
    BY <1>1, <1>2, <2>1, <2>2
<1>12. ASSUME NEW k \in Keys, Evict(k) \/ ExpireKey(k)
       PROVE  SizeInv' /\ NoSpaceReported'
  <2>1. op = Idle /\ op' = Idle
    BY <1>12 DEF Evict, EvictMiss, EvictHit, ExpireKey, Ready
  <2>2. ~InSet
    BY <2>1 DEF Idle, InSet
  <2>3. reply' = reply \/ reply'.err # "INTERNAL"
    <3>1. \/ reply' = reply
          \/ Reply(k, "KEY_NOT_FOUND")
          \/ Reply(k, "OK")
      BY <1>12 DEF Evict, EvictMiss, EvictHit, ExpireKey
    <3> QED
      BY <3>1 DEF Reply
  <2>4. ASSUME NEW skip \in BOOLEAN, EvictKey(k, skip) PROVE SizeInv' /\ NoSpaceReported'
    BY <1>2, <2>1, <2>2, <2>3, <2>4, EvictSizes
  <2>5. CASE EvictMiss(k)
    BY <1>1, <1>2, <2>3, <2>5 DEF EvictMiss, indexVars
  <2> QED
    BY <1>12, <2>4, <2>5 DEF Evict, EvictHit, ExpireKey
<1>13. ASSUME NEW b \in DOMAIN idx_expire, EraseBucket(b)
       PROVE  SizeInv' /\ NoSpaceReported'
  BY <1>1, <1>2, <1>13 DEF EraseBucket
<1> QED
  BY <1>3, <1>4, <1>5, <1>6, <1>7, <1>8, <1>9, <1>10, <1>11, <1>12, <1>13
  DEF StoreNext, SetStep

LEMMA SizedInit == ASSUME Aligned, StoreInit PROVE SizedInv
<1>1. TypeInv /\ BlocksApart /\ LeakInv /\ IsolationInv
  BY TypeInit, ApartInit, LeakInit, IsolationInit
<1>2. \A k \in Keys : ~IsEntry(k) /\ Chain(k) = <<>>
  BY DEF StoreInit, Chain, IsEntry, Absent
<1>3. UsedAddrs = {}
  BY <1>2 DEF UsedAddrs
<1>4. /\ sz_used = 0 /\ sz_free = SzMax /\ sz_alloc = SzPage /\ page_init_cnt = 1
      /\ op = Idle /\ reply.err = "OK"
  BY DEF StoreInit
<1>5. InHand = 0 /\ Copied = 0 /\ Unfinished /\ NoSpaceReported
  BY <1>4 DEF InHand, Copied, InSet, Unfinished, NoSpaceReported, Idle
<1>6. SzPage \in Nat /\ SzPage > 0 /\ SzMax \in Nat
  BY PageType, StoreAssumption
<1>7. UsedIsCounted /\ FreeIsRest
  BY <1>3, <1>4, <1>5, <1>6, FS_EmptySet DEF UsedIsCounted, FreeIsRest
<1>8. SzPage <= SzMax
  <2>1. PICK pages \in Nat : SzMax = pages * SzPage
    BY DEF Aligned
  <2>2. pages # 0
    <3> SUFFICES ASSUME SzMax = 0 PROVE SzPage = 0
      BY <1>6, <2>1
    <3>1. SzMax * PagePrcnt = 0
      BY StoreAssumption
    <3> QED
      BY <3>1 DEF SzPage
  <2>3. 1 * SzPage <= pages * SzPage
    BY <1>6, <2>2, MoreOfSame
  <2> QED
    BY <1>6, <2>1, <2>3
<1>9. AllocIsPages /\ AllocSuffices
  BY <1>4, <1>5, <1>6, <1>8 DEF AllocIsPages, AllocSuffices
<1> QED
  BY <1>1, <1>2, <1>5, <1>7, <1>9 DEF SizedInv, SizeInv, EntriesMeasured

LEMMA SizedKept == ASSUME Aligned PROVE SizedInv /\ [StoreNext]_storeVars => SizedInv'
BY SizedStep, TypeStep, ApartStep, LeakStep, IsolationStep DEF SizedInv

LEMMA SizedAlways == ASSUME Aligned PROVE StoreSpec => []SizedInv
<1>1. StoreInit => SizedInv
  BY SizedInit
<1> QED
  BY <1>1, SizedKept, PTL DEF StoreSpec

(* Between calls the counters of a shard are exact: sz_used is the number  *)
(* of bytes that entries own and sz_free that of the others, after every   *)
(* history of sets, forced sets, evictions and expirations, if the size of *)
(* the shard is a multiple of the page size and no entry exceeds a page.   *)
THEOREM AccountingIsExact ==
    ASSUME Aligned
    PROVE  StoreSpec => []Accounting
<1>1. SizedInv => Accounting
  <2> SUFFICES ASSUME SizedInv, op = Idle PROVE /\ sz_used = Cardinality(UsedAddrs)
                                                /\ sz_free = SzMax - sz_used
    BY DEF Accounting
  <2>1. ~InSet
    BY DEF InSet, Idle
  <2> QED
    BY <2>1, SizeTypes DEF SizedInv, SizeInv, FreeIsRest
<1> QED
  BY <1>1, SizedAlways, PTL

(* There a set that has passed the space check of __set never comes to an  *)
(* empty free index in its copying loop.                                   *)
THEOREM CopyAlwaysFits ==
    ASSUME Aligned
    PROVE  StoreSpec => []CopyFits
<1>1. SizedInv => CopyFits
  BY RoomToCopy DEF SizedInv, LeakInv, CopyFits
<1> QED
  BY <1>1, SizedAlways, PTL

(* So there no set is half done and ends with ERR_INTERNAL: one for which  *)
(* the shard has no room is refused with ERR_NO_SPACE before it begins.    *)
THEOREM NoSpaceAlwaysReported ==
    ASSUME Aligned
    PROVE  StoreSpec => []NoSpaceReported
<1>1. SizedInv => NoSpaceReported
  BY DEF SizedInv
<1> QED
  BY <1>1, SizedAlways, PTL

-----------------------------------------------------------------------------
(* What the callers see of a shard.  Held is what the map of CacheSpec     *)
(* counts, a column of bytes for each entry; an entry that is not being    *)
(* copied is whole, and the payload of a set counts as soon as it has made *)
(* its root, while sz_used is corrected at the end.                        *)

Column(k, v) == {k} \X (1..PayloadLen[v])
Held == UNION {Column(k, given[k]) : k \in {l \in Keys : IsEntry(l)}}

Whole(k) == /\ ~idx_used[k].open /\ given[k] \in Payloads
            /\ idx_used[k].total_len = PayloadLen[given[k]] /\ PayloadLen[given[k]] > 0
EntriesWhole ==
    \A k \in Keys : IsEntry(k) => Whole(k) \/ (InSet /\ op.key = k)
SetGoesOn ==
    /\ InSet => /\ IsEntry(op.key) /\ given[op.key] = op.val
                /\ idx_used[op.key].total_len + op.remained = PayloadLen[op.val]
                /\ op.pc = "balance" => ~idx_used[op.key].open
    /\ op # Idle => PayloadLen[op.val] > 0
HeldIsCounted == IsFiniteSet(Held) /\ Cardinality(Held) = sz_used + InHand

CallerInv == EntriesWhole /\ SetGoesOn /\ HeldIsCounted

LEMMA ColumnCounted ==
    ASSUME NEW k, NEW v \in Payloads
    PROVE  IsFiniteSet(Column(k, v)) /\ Cardinality(Column(k, v)) = PayloadLen[v]
<1>1. PayloadLen[v] \in Nat
  BY PayloadBound
<1>2. /\ IsFiniteSet(1..PayloadLen[v])
      /\ Cardinality(1..PayloadLen[v]) = IF 1 > PayloadLen[v] THEN 0 ELSE PayloadLen[v] - 1 + 1
  BY <1>1, FS_Interval
<1>3. Cardinality(1..PayloadLen[v]) = PayloadLen[v]
  BY <1>1, <1>2
<1>4. IsFiniteSet({k}) /\ Cardinality({k}) = 1
  BY FS_Singleton
<1>5. /\ IsFiniteSet({k} \X (1..PayloadLen[v]))
      /\ Cardinality({k} \X (1..PayloadLen[v])) = Cardinality({k}) * Cardinality(1..PayloadLen[v])
  BY <1>2, <1>4, FS_Product
<1> QED
  BY <1>1, <1>3, <1>4, <1>5 DEF Column

LEMMA HeldIs ==
    \A p : p \in Held <=> \E k \in Keys : IsEntry(k) /\ p \in Column(k, given[k])
BY DEF Held

LEMMA HeldNextIs ==
    \A p : p \in Held' <=> \E k \in Keys : IsEntry(k)' /\ p \in Column(k, given'[k])
BY DEF Held, Column

LEMMA OwnColumn ==
    \A k, l, v, w : k # l => Column(k, v) \cap Column(l, w) = {}
BY DEF Column

(* Steps that neither make nor remove an entry.                            *)
LEMMA HeldKept ==
    ASSUME given' = given, \A k \in Keys : IsEntry(k)' <=> IsEntry(k)
    PROVE  Held' = Held
BY HeldIs, HeldNextIs

(* Steps that leave the entries alone.                                     *)
LEMMA CallerKept ==
    ASSUME CallerInv, UNCHANGED <<idx_used, given, sz_used>>,
           \/ op' = op
           \/ op' = Idle /\ ~InSet
           \/ ~InSet /\ op'.pc = "reserve" /\ op' # Idle /\ PayloadLen[op'.val] > 0
    PROVE  CallerInv'
<1>1. \A k \in Keys : (IsEntry(k)' <=> IsEntry(k)) /\ (Whole(k)' <=> Whole(k))
  BY DEF IsEntry, Whole
<1>2. Held' = Held
  BY <1>1, HeldKept
<1>3. CASE op' = op
  BY <1>1, <1>2, <1>3 DEF CallerInv, EntriesWhole, SetGoesOn, HeldIsCounted, InSet, InHand, IsEntry
<1>4. CASE ~InSet /\ op' # op
  <2>1. ~InSet' /\ InHand' = 0 /\ InHand = 0
    BY <1>4 DEF InSet, InHand, Idle
  <2> QED
    BY <1>1, <1>2, <1>4, <2>1 DEF CallerInv, EntriesWhole, SetGoesOn, HeldIsCounted
<1> QED
  BY <1>3, <1>4

LEMMA CallerEvict ==
    ASSUME TypeInv, SizeInv, CallerInv, NEW k \in Keys, NEW skip \in BOOLEAN,
           EvictKey(k, skip), ~InSet,
           op' = Idle \/ (op'.pc = "reserve" /\ op' # Idle /\ PayloadLen[op'.val] > 0)
    PROVE  CallerInv'
<1>1. ~InSet' /\ InHand' = 0 /\ InHand = 0
  BY DEF InSet, InHand, Idle
<1>2. given' = given
  BY DEF EvictKey
<1>3. CASE EvictNode(k)
  <2>1. \A l \in Keys : (IsEntry(l)' <=> IsEntry(l)) /\ (IsEntry(l) => (Whole(l)' <=> Whole(l)))
    BY <1>2, <1>3 DEF EvictNode, IsEntry, Null, Whole, TypeInv, TypeOK
  <2>2. Held' = Held /\ sz_used' = sz_used
    BY <1>2, <1>3, <2>1, HeldKept DEF EvictNode
  <2> QED
    BY <1>1, <2>1, <2>2 DEF CallerInv, EntriesWhole, SetGoesOn, HeldIsCounted
<1>4. CASE EvictEntry(k, skip)
  <2>1. /\ IsEntry(k) /\ ~IsEntry(k)'
        /\ \A l \in Keys \ {k} : idx_used'[l] = idx_used[l]
    BY <1>4 DEF EvictEntry, IsEntry, Absent, TypeInv, TypeOK
  <2>2. Whole(k)
    BY <1>1, <2>1 DEF CallerInv, EntriesWhole
  <2>3. Held' = Held \ Column(k, given[k])
    <3>1. \A l \in Keys \ {k} : IsEntry(l)' <=> IsEntry(l)
      BY <2>1 DEF IsEntry
    <3> QED
      BY <1>2, <2>1, <3>1, HeldIs, HeldNextIs, OwnColumn
  <2>4. Column(k, given[k]) \subseteq Held
    BY <2>1, HeldIs
  <2>5. IsFiniteSet(Column(k, given[k])) /\ Cardinality(Column(k, given[k])) = PayloadLen[given[k]]
    BY <2>2, ColumnCounted DEF Whole
  <2>6. Held \cap Column(k, given[k]) = Column(k, given[k])
    BY <2>4
  <2>7. /\ IsFiniteSet(Held')
        /\ Cardinality(Held') = Cardinality(Held) - PayloadLen[given[k]]
    <3>1. /\ IsFiniteSet(Held \ Column(k, given[k]))
          /\ Cardinality(Held \ Column(k, given[k]))
                = Cardinality(Held) - Cardinality(Held \cap Column(k, given[k]))
      BY FS_Difference DEF CallerInv, HeldIsCounted
    <3> QED
      BY <2>3, <2>5, <2>6, <3>1
  <2>8. PayloadLen[given[k]] <= Cardinality(Held)
    BY <2>4, <2>5, FS_Subset DEF CallerInv, HeldIsCounted
  <2>9. sz_used' = U64Sub(sz_used, PayloadLen[given[k]])
    BY <1>4, <2>2 DEF EvictEntry, Whole
  <2>10. sz_used \in Nat /\ PayloadLen[given[k]] \in Nat /\ Cardinality(Held) = sz_used
    BY <1>1, <2>2, SizeTypes, PayloadBound DEF CallerInv, HeldIsCounted, Whole
  <2>11. Cardinality(Held') = sz_used' + InHand'
    BY <1>1, <2>7, <2>8, <2>9, <2>10 DEF U64Sub
  <2>12. \A l \in Keys : IsEntry(l)' => Whole(l)'
    BY <1>1, <1>2, <2>1 DEF CallerInv, EntriesWhole, IsEntry, Whole
  <2> QED
    BY <1>1, <2>7, <2>11, <2>12 DEF CallerInv, EntriesWhole, SetGoesOn, HeldIsCounted
<1> QED
  BY <1>3, <1>4 DEF EvictKey

LEMMA CallerReserve ==
    ASSUME TypeInv, LeakInv, SizeInv, CallerInv, op.pc = "reserve", MakeRoot, sz_used' = sz_used
    PROVE  CallerInv'
<1>1. op \in Call /\ op.key \in Keys /\ op.val \in Payloads /\ op # Idle
  BY DEF TypeInv, TypeOK, Idle, Call
<1>2. op.remained = PayloadLen[op.val]
  BY DEF TypeInv, Lengths
<1>3. op' = [op EXCEPT !.pc = "copy"]
  BY DEF MakeRoot
<1>4. /\ op'.pc = "copy" /\ op'.key = op.key /\ op'.val = op.val /\ op'.remained = op.remained
      /\ InSet' /\ ~InSet /\ InHand' = PayloadLen[op.val] /\ InHand = 0
  BY <1>1, <1>3 DEF InSet, InHand, Call
<1>5. /\ IsEntry(op.key)' /\ idx_used'[op.key].total_len = 0 /\ given'[op.key] = op.val
      /\ \A l \in Keys \ {op.key} : idx_used'[l] = idx_used[l] /\ given'[l] = given[l]
  BY <1>1 DEF MakeRoot, IsEntry, TypeInv, TypeOK
<1>6. ~IsEntry(op.key)
  BY DEF LeakInv, Unrooted
<1>7. Held' = Held \cup Column(op.key, op.val)
  <2>1. \A l \in Keys \ {op.key} : IsEntry(l)' <=> IsEntry(l)
    BY <1>5 DEF IsEntry
  <2>2. ASSUME NEW p, p \in Held' PROVE p \in Held \cup Column(op.key, op.val)
    <3>1. PICK l \in Keys : IsEntry(l)' /\ p \in Column(l, given'[l])
      BY <2>2, HeldNextIs
    <3>2. CASE l = op.key
      BY <1>5, <3>1, <3>2
    <3>3. CASE l # op.key
      <4>1. IsEntry(l) /\ p \in Column(l, given[l])
        BY <1>5, <2>1, <3>1, <3>3
      <4> QED
        BY <4>1, HeldIs
    <3> QED
      BY <3>2, <3>3
  <2>3. ASSUME NEW p, p \in Held PROVE p \in Held'
    <3>1. PICK l \in Keys : IsEntry(l) /\ p \in Column(l, given[l])
      BY <2>3, HeldIs
    <3>2. l # op.key
      BY <1>6, <3>1
    <3>3. IsEntry(l)' /\ p \in Column(l, given'[l])
      BY <1>5, <2>1, <3>1, <3>2
    <3> QED
      BY <3>3, HeldNextIs
  <2>4. ASSUME NEW p, p \in Column(op.key, op.val) PROVE p \in Held'
    <3>1. p \in Column(op.key, given'[op.key])
      BY <1>5, <2>4
    <3> QED
      BY <1>1, <1>4, <1>5, <3>1, HeldNextIs
  <2> QED
    BY <2>2, <2>3, <2>4
<1>8. Held \cap Column(op.key, op.val) = {}
  BY <1>6, HeldIs, OwnColumn
<1>9. /\ IsFiniteSet(Held')
      /\ Cardinality(Held') = Cardinality(Held) + PayloadLen[op.val] - 0
  BY <1>1, <1>7, <1>8, ColumnCounted, FS_Union, FS_EmptySet DEF CallerInv, HeldIsCounted
<1>10. Cardinality(Held') = sz_used' + InHand'
  BY <1>1, <1>4, <1>9, SizeTypes, PayloadBound DEF CallerInv, HeldIsCounted
<1>11. \A l \in Keys : IsEntry(l)' => Whole(l)' \/ l = op.key
  BY <1>4, <1>5 DEF CallerInv, EntriesWhole, IsEntry, Whole
<1>12. SetGoesOn'
  <2>1. PayloadLen[op.val] \in Nat /\ PayloadLen[op.val] > 0
    BY <1>1, PayloadBound DEF CallerInv, SetGoesOn
  <2> QED
    BY <1>2, <1>4, <1>5, <2>1 DEF SetGoesOn
<1> QED
  BY <1>4, <1>9, <1>10, <1>11, <1>12 DEF CallerInv, EntriesWhole, HeldIsCounted

LEMMA CallerCopy ==
    ASSUME TypeInv, SizeInv, CallerInv, CopyBlock
    PROVE  CallerInv'
<1> DEFINE k == op.key
           left == op.remained - Taken
           used == [offset |-> Head(idx_free).offset, len |-> Taken]
<1>1. op \in Call /\ k \in Keys /\ op.pc = "copy" /\ InSet /\ op # Idle
  BY DEF CopyBlock, Copying, TypeInv, TypeOK, Idle, Call, InSet
<1>2. /\ idx_used' = [idx_used EXCEPT ![k] = Extended(@, used, left)]
      /\ op' = [op EXCEPT !.remained = left, !.pc = AfterBlock(left)]
      /\ UNCHANGED <<given, sz_used>>
  BY DEF CopyBlock, sizeVars
<1>3. /\ op'.remained = left /\ op'.pc = AfterBlock(left) /\ op'.key = k /\ op'.val = op.val
      /\ InSet' /\ InHand' = InHand
  BY <1>1, <1>2 DEF Call, AfterBlock, InSet, InHand
<1>4. /\ idx_used'[k].total_len = idx_used[k].total_len + Taken /\ IsEntry(k)'
      /\ idx_used'[k].open = (left > 0)
      /\ \A l \in Keys \ {k} : idx_used'[l] = idx_used[l]
  BY <1>1, <1>2 DEF Extended, IsEntry, TypeInv, TypeOK
<1>5. IsEntry(k) /\ idx_used[k] \in Entry /\ idx_used[k].total_len \in Nat
  BY <1>1 DEF CallerInv, SetGoesOn, TypeInv, TypeOK, IsEntry, Absent, Null, Entry
<1>6. Taken \in Nat /\ op.remained \in Nat
  <2>1. idx_free \in Seq(Block) /\ idx_free # <<>>
    BY DEF CopyBlock, TypeInv, TypeOK
  <2>2. Head(idx_free) \in Block
    BY <2>1
  <2> QED
    BY <1>1, <2>2 DEF Taken, Block, Call
<1>7. Held' = Held
  BY <1>2, <1>4, <1>5, HeldKept DEF IsEntry
<1>8. \A l \in Keys : IsEntry(l)' => Whole(l)' \/ l = k
  BY <1>1, <1>2, <1>4 DEF CallerInv, EntriesWhole, IsEntry, Whole
<1>9. SetGoesOn'
  <2>1. /\ given[k] = op.val /\ idx_used[k].total_len + op.remained = PayloadLen[op.val]
        /\ PayloadLen[op.val] > 0
    BY <1>1 DEF CallerInv, SetGoesOn
  <2>2. idx_used'[k].total_len + left = PayloadLen[op.val]
    BY <1>4, <1>5, <1>6, <2>1
  <2>3. op'.pc = "balance" => ~(left > 0)
    BY <1>3 DEF AfterBlock
  <2> QED
    BY <1>2, <1>3, <1>4, <2>1, <2>2, <2>3 DEF SetGoesOn
<1> QED
  BY <1>2, <1>3, <1>7, <1>8, <1>9 DEF CallerInv, EntriesWhole, HeldIsCounted

LEMMA CallerBalance ==
    ASSUME TypeInv, SizeInv, CallerInv, SetBalance
    PROVE  CallerInv'
<1>1. op \in Call /\ op.key \in Keys /\ op.val \in Payloads /\ op.pc = "balance" /\ InSet /\ op # Idle
  BY DEF SetBalance, TypeInv, TypeOK, Idle, Call, InSet
<1>2. /\ op' = Idle /\ ~InSet' /\ InHand' = 0 /\ InHand = PayloadLen[op.val]
      /\ UNCHANGED <<idx_used, given>>
  BY <1>1 DEF SetBalance, InSet, InHand, Idle, indexVars
<1>3. op.remained = 0 /\ Whole(op.key)
  <2>1. op.remained = 0
    BY <1>1 DEF SizeInv, Unfinished
  <2>2. idx_used[op.key].total_len \in Nat
    BY <1>1 DEF CallerInv, SetGoesOn, TypeInv, TypeOK, IsEntry, Absent, Null, Entry
  <2> QED
    BY <1>1, <2>1, <2>2 DEF CallerInv, SetGoesOn, Whole
<1>4. \A k \in Keys : (IsEntry(k)' <=> IsEntry(k)) /\ (Whole(k)' <=> Whole(k))
  BY <1>2 DEF IsEntry, Whole
<1>5. \A k \in Keys : IsEntry(k)' => Whole(k)'
  BY <1>3, <1>4 DEF CallerInv, EntriesWhole
<1>6. sz_used' = U64Add(sz_used, PayloadLen[op.val])
  BY DEF SetBalance
<1>7. sz_used \in Nat /\ PayloadLen[op.val] \in Nat /\ sz_used + PayloadLen[op.val] < Word
  BY <1>1, <1>2, SizeTypes, PayloadBound
<1>8. sz_used' = sz_used + PayloadLen[op.val]
  BY <1>6, <1>7 DEF U64Add
<1>9. Held' = Held
  BY <1>2, <1>4, HeldKept
<1>10. HeldIsCounted'
  BY <1>2, <1>7, <1>8, <1>9 DEF CallerInv, HeldIsCounted
<1> QED
  BY <1>2, <1>5, <1>10 DEF CallerInv, EntriesWhole, SetGoesOn

LEMMA CallerStep ==
    ASSUME Aligned, SizedInv, CallerInv, [StoreNext]_storeVars
    PROVE  CallerInv'
<1> USE DEF SizedInv
<1>1. CASE CopyBlock
  BY <1>1, CallerCopy
<1>2. CASE SetNewPage \/ SetInPlace
  <2>1. op.pc = "reserve" /\ sz_used' = sz_used
    BY <1>2 DEF SetNewPage, SetInPlace, Reserving, sizeVars
  <2>2. CASE MakeRoot
    BY <2>1, <2>2, CallerReserve
  <2>3. CASE ~MakeRoot
    BY <1>2, <2>3, CallerKept DEF SetNewPage, SetInPlace
  <2> QED
    BY <2>2, <2>3
<1>3. CASE SetBalance
  BY <1>3, CallerBalance
<1>4. CASE SetOutOfBlocks
  BY <1>4, RoomToCopy DEF SetOutOfBlocks, Copying, LeakInv
<1>5. CASE SetNoSpace
  <2>1. ~InSet
    BY <1>5 DEF SetNoSpace, Reserving, InSet
  <2> QED
    BY <1>5, <2>1, CallerKept DEF SetNoSpace, indexVars, sizeVars
<1>6. CASE Tick \/ UNCHANGED storeVars
  BY <1>6, CallerKept DEF Tick, storeVars, indexVars, sizeVars
<1>7. ASSUME NEW k \in Keys, NEW v \in Payloads, NEW force \in BOOLEAN, SetRefused(k, v, force)
      PROVE  CallerInv'
  BY <1>7, CallerKept DEF SetRefused, indexVars, sizeVars
<1>8. ASSUME NEW k \in Keys, NEW v \in Payloads, NEW force \in BOOLEAN, SetAccepted(k, v, force)
      PROVE  CallerInv'
  <2>1. ~InSet /\ op'.pc = "reserve" /\ op' # Idle /\ PayloadLen[op'.val] > 0
    BY <1>8 DEF SetAccepted, Ready, Idle, InSet
  <2>2. CASE UNCHANGED <<indexVars, sizeVars, mem, now, given, fault>>
    BY <2>1, <2>2, CallerKept DEF indexVars, sizeVars
  <2>3. CASE EvictKey(k, FALSE)
    BY <2>1, <2>3, CallerEvict
  <2> QED
    BY <1>8, <2>2, <2>3 DEF SetAccepted
<1>9. ASSUME NEW k \in Keys, NEW len \in BufLens, Get(k, len) PROVE CallerInv'
  BY <1>9, CallerKept DEF Get, GetNull, GetFails, GetData, indexVars, sizeVars
<1>10. ASSUME NEW k \in Keys, Evict(k) \/ ExpireKey(k) PROVE CallerInv'
  <2>0. op = Idle /\ op' = Idle
    BY <1>10 DEF Evict, EvictMiss, EvictHit, ExpireKey, Ready
  <2>1. op = Idle /\ op' = Idle /\ ~InSet
    BY <2>0 DEF InSet, Idle
  <2>2. CASE EvictMiss(k)
    BY <2>2, CallerKept DEF EvictMiss, indexVars, sizeVars
  <2>3. ASSUME NEW skip \in BOOLEAN, EvictKey(k, skip) PROVE CallerInv'
    BY <2>1, <2>3, CallerEvict
  <2> QED
    BY <1>10, <2>2, <2>3 DEF Evict, EvictHit, ExpireKey
<1>11. ASSUME NEW b \in DOMAIN idx_expire, EraseBucket(b) PROVE CallerInv'
  BY <1>11, CallerKept DEF EraseBucket, sizeVars
<1> QED
  BY <1>1, <1>2, <1>3, <1>4, <1>5, <1>6, <1>7, <1>8, <1>9, <1>10, <1>11 DEF StoreNext, SetStep

LEMMA CallerInit == StoreInit => CallerInv
<1> SUFFICES ASSUME StoreInit PROVE CallerInv
  OBVIOUS
<1>1. \A k \in Keys : ~IsEntry(k)
  BY DEF StoreInit, IsEntry, Absent
<1>2. Held = {}
  BY <1>1, HeldIs
<1>3. op = Idle /\ ~InSet /\ InHand = 0 /\ sz_used = 0
  BY DEF StoreInit, InSet, InHand, Idle
<1> QED
  BY <1>1, <1>2, <1>3, FS_EmptySet DEF CallerInv, EntriesWhole, SetGoesOn, HeldIsCounted

-----------------------------------------------------------------------------
(* The map of CacheSpec.                                                   *)

LEMMA ContentsAre ==
    ASSUME TypeInv, NEW k \in Keys
    PROVE  /\ Contents[k] = Seen(k)
           /\ Cache!Present(k) <=> IsEntry(k)
           /\ IsEntry(k) => /\ Contents[k].val = given[k]
                            /\ Contents[k].expire = idx_used[k].expire
                            /\ Cache!Length(k) = PayloadLen[given[k]]
           /\ Contents[k] = Cache!NoEntry <=> idx_used[k] = Absent
           /\ ~IsEntry(k) => idx_used[k] \in {Absent, Null}
<1>1. Contents[k] = Seen(k)
  BY DEF Contents
<1>2. /\ idx_used[k] \in {Absent, Null} \cup Entry
      /\ Absent.node = "absent" /\ Null.node = "null"
      /\ \A e \in Entry : e.node = "entry"
  BY DEF TypeInv, TypeOK, Absent, Null, Entry
<1>3. CASE IsEntry(k)
  <2>1. Contents[k] = [is |-> "entry", val |-> given[k], expire |-> idx_used[k].expire]
    BY <1>1, <1>3 DEF Seen
  <2>2. Contents[k].is = "entry" /\ Cache!NoEntry.is = "none"
    BY <2>1 DEF Cache!NoEntry
  <2>3. idx_used[k] # Absent
    BY <1>2, <1>3 DEF IsEntry
  <2> QED
    BY <1>1, <1>3, <2>1, <2>2, <2>3 DEF Cache!Present, Cache!Length
<1>4. CASE ~IsEntry(k)
  <2>1. idx_used[k] \in {Absent, Null}
    BY <1>2, <1>4 DEF IsEntry
  <2>2. Contents[k] = [is |-> IF idx_used[k] # Absent THEN "blocked" ELSE "none"]
    BY <1>1, <1>4 DEF Seen, Counted
  <2> QED
    BY <1>1, <1>4, <2>1, <2>2 DEF Cache!Present, Cache!NoEntry
<1> QED
  BY <1>3, <1>4

(* The Cardinality that CacheSpec extends is that of this module.          *)
LEMMA SameCardinality == \A S : Cache!Cardinality(S) = Cardinality(S)
BY DEF Cache!Cardinality, Cardinality

LEMMA FitsIs ==
    ASSUME TypeInv, SizeInv, CallerInv, ~InSet, NEW v \in Payloads
    PROVE  Cache!Fits(v) <=> sz_used + PayloadLen[v] <= SzMax
<1>1. {l \in Keys : Cache!Present(l)} = {l \in Keys : IsEntry(l)}
  BY ContentsAre
<1>2. \A k \in {l \in Keys : IsEntry(l)} :
         {k} \X (1..Cache!Length(k)) = {k} \X (1..PayloadLen[given[k]])
  BY ContentsAre
<1>3. Cache!Bytes = Held
  BY <1>1, <1>2 DEF Cache!Bytes, Held, Column
<1>4. Cardinality(Held) = sz_used
  BY SizeTypes DEF CallerInv, HeldIsCounted
<1>5. Cardinality(Cache!Bytes) = sz_used
  BY <1>3, <1>4
<1>6. Cache!Fits(v) <=> Cardinality(Cache!Bytes) + PayloadLen[v] <= SzMax
  BY SameCardinality DEF Cache!Fits
<1> QED
  BY <1>5, <1>6

(* Steps under which the map and the answer stay what they are.            *)
LEMMA ContentsKept ==
    ASSUME UNCHANGED <<idx_used, given>>
    PROVE  Contents' = Contents
BY DEF Contents, Seen, IsEntry, Counted

LEMMA CacheStutters ==
    ASSUME Contents' = Contents, now' = now, Answered' = Answered
    PROVE  UNCHANGED Cache!cacheVars
BY DEF Cache!cacheVars

LEMMA ContentsEvict ==
    ASSUME TypeInv, NEW k \in Keys, NEW skip \in BOOLEAN, EvictKey(k, skip)
    PROVE  /\ Contents' = [Contents EXCEPT ![k] = IF Cache!Present(k) THEN Cache!NoEntry
                                                  ELSE Cache!Blocked]
           /\ now' = now
<1>1. given' = given /\ now' = now
  BY DEF EvictKey
<1>2. \A l \in Keys \ {k} : idx_used'[l] = idx_used[l]
  BY DEF EvictKey, EvictNode, EvictEntry, TypeInv, TypeOK
<1>3. idx_used'[k] = IF IsEntry(k) THEN Absent ELSE Null
  BY DEF EvictKey, EvictNode, EvictEntry, TypeInv, TypeOK
<1>4. \A l \in Keys \ {k} : Seen(l)' = Seen(l)
  BY <1>1, <1>2 DEF Seen, IsEntry, Counted
<1>5. Seen(k)' = IF IsEntry(k) THEN Cache!NoEntry ELSE Cache!Blocked
  BY <1>3 DEF Seen, IsEntry, Counted, Absent, Null, Cache!NoEntry, Cache!Blocked
<1>6. Contents' = [l \in Keys |-> Seen(l)'] /\ Contents = [l \in Keys |-> Seen(l)]
  BY DEF Contents
<1>7. Cache!Present(k) <=> IsEntry(k)
  BY ContentsAre
<1> QED
  BY <1>1, <1>4, <1>5, <1>6, <1>7

(* What __get copies out for a whole entry: each of its addresses once.    *)
LEMMA ContentIsCopied ==
    ASSUME SizedInv, NEW k \in Keys, IsEntry(k), Whole(k)
    PROVE  Cache!Copied(Content(k), given[k])
<1> DEFINE v == given[k]
           c == Chain(k)
           D == Content(k)
           places == {p \in (DOMAIN D) \X (1..PayloadLen[v]) : p[2] \in DOMAIN D[p[1]]}
           f == [p \in places |-> c[p[1]].offset + p[2] - 1]
<1> USE DEF SizedInv
<1>1. /\ c \in Seq(Block) /\ c = idx_used[k].chain
      /\ DOMAIN c = 1..Len(c) /\ \A i \in DOMAIN c : c[i] \in Block
  BY ChainType, DomainIsLen DEF Chain
<1>2. /\ DOMAIN D = DOMAIN c
      /\ \A i \in DOMAIN c : /\ DOMAIN D[i] = 1..c[i].len
                             /\ \A j \in DOMAIN D[i] : D[i][j] = GetByte(c[i].offset + j - 1)
  BY <1>1 DEF Content
<1>3. /\ IsFiniteSet(CellsOf(k)) /\ Cardinality(CellsOf(k)) = PayloadLen[v]
      /\ v \in Payloads /\ PayloadLen[v] \in Nat
  BY AddrSubset, PayloadBound DEF Whole, SizeInv, EntriesMeasured, CellsOf
<1>4. \A i \in DOMAIN c : Cells(c[i]) \subseteq CellsOf(k)
  BY DEF IsolationInv, Bounded, Owned, On, CellsOf
<1>5. \A i \in DOMAIN c : c[i].len \in Nat /\ c[i].offset \in Nat /\ c[i].len <= PayloadLen[v]
  <2> TAKE i \in DOMAIN c
  <2>1. c[i] \in Block /\ Cardinality(Cells(c[i])) = c[i].len
    BY <1>1, CellsCounted
  <2>2. Cardinality(Cells(c[i])) <= Cardinality(CellsOf(k))
    BY <1>3, <1>4, FS_Subset
  <2> QED
    BY <1>3, <2>1, <2>2 DEF Block
<1>6. \A i \in DOMAIN c : \A j \in 1..c[i].len :
         /\ c[i].offset + j - 1 \in Cells(c[i])
         /\ <<i, j>> \in places
  BY <1>2, <1>3, <1>5 DEF Cells
<1>7. ASSUME NEW p \in places
      PROVE  /\ p = <<p[1], p[2]>> /\ p[1] \in DOMAIN c /\ p[2] \in 1..c[p[1]].len
             /\ f[p] = c[p[1]].offset + p[2] - 1 /\ f[p] \in Cells(c[p[1]])
  <2>1. p \in (DOMAIN D) \X (1..PayloadLen[v]) /\ p[2] \in DOMAIN D[p[1]]
    OBVIOUS
  <2>2. p = <<p[1], p[2]>> /\ p[1] \in DOMAIN D
    BY <2>1
  <2>3. p = <<p[1], p[2]>> /\ p[1] \in DOMAIN c /\ p[2] \in 1..c[p[1]].len
    BY <1>2, <2>1, <2>2
  <2> QED
    BY <1>6, <2>3
<1> HIDE DEF c, D, f
<1>8. f \in Injection(places, CellsOf(k))
  <2>1. f \in [places -> CellsOf(k)]
    BY <1>4, <1>7 DEF f
  <2>2. ASSUME NEW p \in places, NEW q \in places, f[p] = f[q] PROVE p = q
    <3>1. p[1] = q[1]
      <4>1. Spread(c)
        BY DEF BlocksApart, c
      <4> QED
        BY <1>7, <2>2, <4>1 DEF Spread, Disjoint
    <3>2. p[2] \in Nat /\ q[2] \in Nat /\ c[p[1]].offset \in Nat
      BY <1>5, <1>7
    <3>3. p[2] = q[2]
      BY <1>7, <2>2, <3>1, <3>2
    <3> QED
      BY <1>7, <3>1, <3>3
  <2> QED
    <3>1. DOMAIN f = places
      BY <2>1
    <3> QED
      BY <2>1, <2>2, <3>1 DEF Injection, IsInjective
<1>9. f \in Surjection(places, CellsOf(k))
  <2>1. ASSUME NEW a \in CellsOf(k) PROVE \E p \in places : f[p] = a
    <3>1. PICK i \in DOMAIN c : a \in Cells(c[i])
      BY DEF CellsOf, On, c
    <3>2. c[i].offset \in Nat /\ c[i].len \in Nat
      BY <1>5
    <3>3. a - c[i].offset + 1 \in 1..c[i].len /\ a = c[i].offset + (a - c[i].offset + 1) - 1
      BY <3>1, <3>2 DEF Cells
    <3>4. <<i, a - c[i].offset + 1>> \in places
      BY <1>6, <3>3
    <3>5. f[<<i, a - c[i].offset + 1>>] = c[i].offset + (a - c[i].offset + 1) - 1
      BY <3>4 DEF f
    <3> QED
      BY <3>3, <3>4, <3>5
  <2>2. f \in [places -> CellsOf(k)]
    BY <1>8 DEF Injection
  <2> QED
    BY <2>1, <2>2 DEF Surjection
<1>10. Cardinality(places) = PayloadLen[v]
  BY <1>3, <1>8, <1>9, FS_Injection
<1>11. ASSUME NEW i \in DOMAIN D, NEW j \in DOMAIN D[i]
       PROVE  \/ D[i][j] \in {<<v, m>> : m \in 0..(PayloadLen[v] - 1)}
              \/ D[i][j] \in {<<"junk">>, <<"zero">>}
  <2> DEFINE a == c[i].offset + j - 1
  <2>1. /\ i \in DOMAIN c /\ j \in 1..c[i].len /\ D[i][j] = GetByte(a)
        /\ c[i].offset \in Nat /\ c[i].len \in Nat /\ c[i].len <= PayloadLen[v]
    BY <1>2, <1>5
  <2>2. a \in Cells(c[i])
    BY <1>6, <2>1
  <2>3. mem[a] \in {PayloadByte(v, a - c[i].offset), Junk}
    BY <2>1, <2>2 DEF IsolationInv, Isolation, c
  <2>4. a - c[i].offset \in 0..(PayloadLen[v] - 1)
    BY <1>3, <2>1
  <2> QED
    BY <2>1, <2>3, <2>4 DEF GetByte, PayloadByte, Junk, Zero
<1>12. Cache!Cardinality(places) = PayloadLen[v]
  BY <1>10, SameCardinality
<1> QED
  BY <1>11, <1>12 DEF Cache!Copied, D

LEMMA AnsweredIs ==
    /\ ~InSet => Answered = reply
    /\ ~InSet' => Answered' = reply'
    /\ InSet => Answered = [key |-> op.key, err |-> "OK", data |-> <<>>, spill |-> FALSE]
    /\ InSet' => Answered' = [key |-> op'.key, err |-> "OK", data |-> <<>>, spill |-> FALSE]
BY DEF Answered, InSet

(* The steps of the specification of the map, one for each kind of call.   *)
LEMMA CacheRefuse ==
    ASSUME TypeInv, NEW k \in Keys, NEW v \in Payloads, NEW force \in BOOLEAN,
           SetRefused(k, v, force)
    PROVE  Cache!Refuse(k, v)
<1>1. ~InSet /\ ~InSet'
  BY DEF SetRefused, Ready, Idle, InSet
<1>2. Answered' = reply' /\ Contents' = Contents /\ now' = now
  BY <1>1, AnsweredIs, ContentsKept DEF SetRefused, indexVars
<1>3. Counted(k) => Contents[k] # Cache!NoEntry
  BY ContentsAre DEF Counted
<1> QED
  BY <1>2, <1>3 DEF SetRefused, Reply, Cache!Refuse, Cache!Answer

LEMMA CacheNoSpace ==
    ASSUME SizedInv, CallerInv, SetNoSpace
    PROVE  op.key \in Keys /\ op.val \in Payloads /\ Cache!Refuse(op.key, op.val)
<1> USE DEF SizedInv
<1>1. op \in Call /\ op.key \in Keys /\ op.val \in Payloads /\ op # Idle /\ op.pc = "reserve"
  BY DEF SetNoSpace, Reserving, TypeInv, TypeOK, Idle, Call
<1>2. ~InSet /\ ~InSet'
  BY <1>1 DEF SetNoSpace, Idle, InSet
<1>3. Answered' = reply' /\ Contents' = Contents /\ now' = now
  BY <1>2, AnsweredIs, ContentsKept DEF SetNoSpace, indexVars
<1>4. op.remained = PayloadLen[op.val] /\ PayloadLen[op.val] > 0 /\ PayloadLen[op.val] \in Nat
  BY <1>1, PayloadBound DEF TypeInv, Lengths, CallerInv, SetGoesOn
<1>5. ~Cache!Present(op.key)
  BY <1>1, ContentsAre DEF LeakInv, Unrooted
<1>6. U64Add(sz_used, PayloadLen[op.val]) > SzMax
  BY <1>4 DEF SetNoSpace, Exceeded
<1>7. sz_used + PayloadLen[op.val] > SzMax
  BY <1>4, <1>6, SizeTypes DEF U64Add
<1>8. ~Cache!Fits(op.val)
  BY <1>1, <1>2, <1>4, <1>7, FitsIs, SizeTypes
<1> QED
  BY <1>1, <1>3, <1>4, <1>5, <1>8 DEF SetNoSpace, Reply, Cache!Refuse, Cache!Answer

LEMMA CacheStore ==
    ASSUME SizedInv, CallerInv, SetNewPage \/ SetInPlace, MakeRoot
    PROVE  op.key \in Keys /\ op.val \in Payloads /\ Cache!Store(op.key, op.val)
<1> USE DEF SizedInv
<1> DEFINE k == op.key
           v == op.val
<1>1. op \in Call /\ k \in Keys /\ v \in Payloads /\ op # Idle /\ op.pc = "reserve"
  BY DEF SetNewPage, SetInPlace, Reserving, TypeInv, TypeOK, Idle, Call
<1>2. ~InSet
  BY <1>1 DEF InSet
<1>3. InSet' /\ op'.key = k
  BY <1>1 DEF MakeRoot, InSet, Call
<1>4. op.remained = PayloadLen[v] /\ PayloadLen[v] > 0 /\ PayloadLen[v] \in Nat
  BY <1>1, PayloadBound DEF TypeInv, Lengths, CallerInv, SetGoesOn
<1>5. ~Cache!Present(k)
  BY <1>1, ContentsAre DEF LeakInv, Unrooted
<1>6. sz_used + PayloadLen[v] <= SzMax
  <2>1. CASE SetNewPage
    <3>1. ~(U64Add(sz_used, PayloadLen[v]) > SzMax)
      BY <1>4, <2>1 DEF SetNewPage, Exceeded
    <3>2. sz_used + PayloadLen[v] < Word
      <4>1. PageCnt * SzPage + SzMax + PayloadLen[v] < Word
        BY <1>1, StoreAssumption
      <4>2. PageCnt * SzPage \in Nat
        BY PageType
      <4> QED
        BY <1>4, <4>1, <4>2, SizeTypes
    <3> QED
      BY <1>4, <3>1, <3>2, SizeTypes DEF U64Add
  <2>2. CASE SetInPlace
    <3>1. U64Sub(sz_alloc, sz_used) >= PayloadLen[v]
      BY <1>4, <2>2 DEF SetInPlace, Room
    <3> QED
      BY <1>4, <3>1, SizeTypes DEF U64Sub
  <2> QED
    BY <2>1, <2>2
<1>7. Cache!Fits(v)
  BY <1>1, <1>2, <1>6, FitsIs
<1>8. Contents' = [Contents EXCEPT ![k] = Cache!EntryOf(v, now + ExpireNs)]
  <2>1. /\ idx_used'[k].node = "entry" /\ idx_used'[k].expire = now + ExpireNs /\ given'[k] = v
        /\ \A l \in Keys \ {k} : idx_used'[l] = idx_used[l] /\ given'[l] = given[l]
    BY <1>1 DEF MakeRoot, TypeInv, TypeOK
  <2>2. Seen(k)' = Cache!EntryOf(v, now + ExpireNs)
    BY <1>3, <2>1 DEF Seen, IsEntry, Cache!EntryOf
  <2>3. \A l \in Keys \ {k} : Seen(l)' = Seen(l)
    BY <2>1 DEF Seen, IsEntry, Counted
  <2>4. Contents' = [l \in Keys |-> Seen(l)'] /\ Contents = [l \in Keys |-> Seen(l)]
    BY DEF Contents
  <2> QED
    BY <1>1, <1>3, <2>2, <2>3, <2>4
<1>9. now' = now
  BY DEF SetNewPage, SetInPlace
<1>10. Cache!Answer(k, "OK")
  BY <1>3, AnsweredIs DEF Cache!Answer
<1> QED
  BY <1>1, <1>4, <1>5, <1>7, <1>8, <1>9, <1>10 DEF Cache!Store

LEMMA CacheGet ==
    ASSUME SizedInv, CallerInv, NEW k \in Keys, NEW len \in BufLens, Get(k, len)
    PROVE  Cache!Hit(k, len) \/ Cache!Miss(k, len) \/ UNCHANGED Cache!cacheVars
<1> USE DEF SizedInv
<1>1. op = Idle /\ op' = Idle
  BY DEF Get, GetNull, GetFails, GetData, Ready
<1>2. ~InSet /\ ~InSet'
  BY <1>1 DEF InSet, Idle
<1>3. Contents' = Contents /\ now' = now /\ Answered' = reply' /\ Answered = reply
  BY <1>2, AnsweredIs, ContentsKept DEF Get, GetNull, GetFails, GetData, indexVars
<1>4. CASE GetNull(k)
  BY <1>3, <1>4, CacheStutters DEF GetNull
<1>5. ASSUME idx_used[k] # Null, Counted(k)
      PROVE  /\ IsEntry(k) /\ Whole(k) /\ Cache!Present(k)
             /\ Contents[k].val = given[k] /\ Contents[k].expire = idx_used[k].expire
             /\ Cache!Length(k) = idx_used[k].total_len
             /\ idx_used[k].total_len \in Nat /\ idx_used[k].total_len > 0
  <2>1. IsEntry(k)
    BY <1>5, ContentsAre DEF Counted
  <2>2. Whole(k)
    BY <1>2, <2>1 DEF CallerInv, EntriesWhole
  <2> QED
    BY <2>1, <2>2, ContentsAre, PayloadBound DEF Whole
<1>6. len \in Nat
  BY StoreAssumption
<1>7. CASE GetFails(k, len)
  <2>1. /\ idx_used[k] # Null /\ GetError(k, len) # "OK"
        /\ Cache!Answer(k, GetError(k, len))
    BY <1>3, <1>7 DEF GetFails, Reply, Cache!Answer
  <2>2. CASE ~Counted(k)
    <3>1. Contents[k] = Cache!NoEntry
      BY <2>2, ContentsAre DEF Counted
    <3>2. GetError(k, len) = "KEY_NOT_FOUND"
      BY <2>2 DEF GetError
    <3> QED
      BY <1>3, <2>1, <3>1, <3>2 DEF Cache!Miss
  <2>3. CASE Counted(k)
    <3>1. /\ Cache!Present(k) /\ Contents[k].expire = idx_used[k].expire
          /\ Cache!Length(k) = idx_used[k].total_len /\ idx_used[k].total_len # 0
          /\ idx_used[k].expire \in Nat /\ now \in Nat
      <4>1. IsEntry(k) /\ idx_used[k] \in Entry
        BY <1>5, <2>1, <2>3 DEF TypeInv, TypeOK, IsEntry, Absent, Null
      <4> QED
        BY <1>5, <2>1, <2>3, <4>1 DEF Entry, TypeInv, TypeOK
    <3>2. \/ GetError(k, len) = "KEY_EXPIRED" /\ idx_used[k].expire < now
          \/ /\ GetError(k, len) = "BUF_LEN_LOW"
             /\ idx_used[k].total_len > len /\ ~(idx_used[k].expire < now)
      BY <2>1, <2>3, <3>1 DEF GetError
    <3>3. CASE GetError(k, len) = "KEY_EXPIRED" /\ idx_used[k].expire < now
      BY <1>3, <2>1, <3>1, <3>3 DEF Cache!Miss
    <3>4. CASE /\ GetError(k, len) = "BUF_LEN_LOW"
               /\ idx_used[k].total_len > len /\ ~(idx_used[k].expire < now)
      <4>1. Contents[k].expire >= now /\ Cache!Length(k) > len
        BY <3>1, <3>4
      <4> QED
        BY <1>3, <2>1, <3>1, <3>4, <4>1 DEF Cache!Miss
    <3> QED
      BY <3>2, <3>3, <3>4
  <2> QED
    BY <2>2, <2>3
<1>8. CASE GetData(k, len)
  <2>1. idx_used[k] # Null /\ GetError(k, len) = "OK"
    BY <1>8 DEF GetData
  <2>2. Counted(k) /\ ~(idx_used[k].expire < now) /\ ~(idx_used[k].total_len > len)
    BY <2>1 DEF GetError
  <2>3. idx_used[k].expire \in Nat /\ now \in Nat
    <3>1. IsEntry(k) /\ idx_used[k] \in Entry
      BY <1>5, <2>1, <2>2 DEF TypeInv, TypeOK, IsEntry, Absent, Null
    <3> QED
      BY <3>1 DEF Entry, TypeInv, TypeOK
  <2>4. Cache!Present(k) /\ Contents[k].expire >= now /\ Cache!Length(k) <= len
    BY <1>5, <1>6, <2>1, <2>2, <2>3
  <2>5. Answered' = [key |-> k, err |-> "OK", data |-> Content(k),
                     spill |-> Cache!Length(k) = len]
    <3>1. idx_used[k].total_len >= len <=> Cache!Length(k) = len
      BY <1>5, <1>6, <2>1, <2>2
    <3> QED
      BY <1>3, <1>8, <3>1 DEF GetData
  <2>6. Cache!Copied(Answered'.data, Contents[k].val)
    BY <1>5, <2>1, <2>2, <2>5, ContentIsCopied
  <2>7. Answered' = [key |-> k, err |-> "OK", data |-> Answered'.data,
                     spill |-> Cache!Length(k) = len]
    BY <2>5
  <2> QED
    BY <1>3, <2>4, <2>6, <2>7 DEF Cache!Hit
<1> QED
  BY <1>4, <1>7, <1>8 DEF Get

LEMMA CacheEvict ==
    ASSUME SizedInv, NEW k \in Keys, Evict(k)
    PROVE  Cache!Evict(k)
<1> USE DEF SizedInv
<1>1. op = Idle /\ op' = Idle
  BY DEF Evict, EvictMiss, EvictHit, Ready
<1>2. ~InSet /\ ~InSet'
  BY <1>1 DEF InSet, Idle
<1>3. Answered' = reply'
  BY <1>2, AnsweredIs
<1>4. CASE EvictMiss(k)
  <2>1. Contents' = Contents /\ now' = now /\ ~Cache!Present(k)
    BY <1>4, ContentsKept, ContentsAre DEF EvictMiss, indexVars, Counted, IsEntry, Absent
  <2>2. Cache!Answer(k, "KEY_NOT_FOUND")
    BY <1>3, <1>4 DEF EvictMiss, Reply, Cache!Answer
  <2> QED
    BY <2>1, <2>2 DEF Cache!Evict
<1>5. CASE EvictHit(k)
  <2>1. /\ Contents' = [Contents EXCEPT ![k] = IF Cache!Present(k) THEN Cache!NoEntry
                                               ELSE Cache!Blocked]
        /\ now' = now
    BY <1>5, ContentsEvict DEF EvictHit
  <2>2. Cache!Answer(k, IF Cache!Present(k) THEN "OK" ELSE "KEY_NOT_FOUND")
    BY <1>3, <1>5, ContentsAre DEF EvictHit, Reply, Cache!Answer
  <2>3. CASE Cache!Present(k)
    BY <2>1, <2>2, <2>3 DEF Cache!Evict
  <2>4. CASE ~Cache!Present(k)
    <3>1. idx_used[k] = Null
      BY <1>5, <2>4, ContentsAre DEF EvictHit, Counted
    <3>2. Contents[k] = Cache!Blocked
      <4>1. Null # Absent /\ ~IsEntry(k)
        BY <3>1, ContentsAre, <2>4 DEF Null, Absent
      <4>2. Contents[k] = Seen(k)
        BY ContentsAre
      <4> QED
        BY <3>1, <4>1, <4>2 DEF Seen, Counted, Cache!Blocked
    <3>3. Contents' = Contents
      BY <2>1, <2>4, <3>2 DEF Contents
    <3> QED
      BY <2>1, <2>2, <2>4, <3>3 DEF Cache!Evict
  <2> QED
    BY <2>3, <2>4
<1> QED
  BY <1>4, <1>5 DEF Evict

LEMMA CacheStep ==
    ASSUME SizedInv, CallerInv, [StoreNext]_storeVars
    PROVE  [Cache!CacheNext]_(Cache!cacheVars)
<1> USE DEF SizedInv
<1>1. ASSUME NEW k \in Keys, NEW v \in Payloads, NEW force \in BOOLEAN, SetRefused(k, v, force)
      PROVE  Cache!CacheNext
  BY <1>1, CacheRefuse DEF Cache!CacheNext
<1>2. ASSUME NEW k \in Keys, NEW v \in Payloads, NEW force \in BOOLEAN, SetAccepted(k, v, force)
      PROVE  [Cache!CacheNext]_(Cache!cacheVars)
  <2>1. ~InSet /\ ~InSet' /\ reply' = reply
    BY <1>2 DEF SetAccepted, Ready, Idle, InSet
  <2>2. Answered' = Answered
    BY <2>1, AnsweredIs
  <2>3. CASE UNCHANGED <<indexVars, sizeVars, mem, now, given, fault>>
    BY <2>2, <2>3, ContentsKept, CacheStutters DEF indexVars
  <2>4. CASE EvictKey(k, FALSE)
    BY <2>2, <2>4, ContentsEvict DEF Cache!CacheNext, Cache!Expire
  <2> QED
    BY <1>2, <2>3, <2>4 DEF SetAccepted
<1>3. CASE SetNoSpace
  BY <1>3, CacheNoSpace DEF Cache!CacheNext
<1>4. CASE (SetNewPage \/ SetInPlace) /\ MakeRoot
  BY <1>4, CacheStore DEF Cache!CacheNext
<1>5. CASE (SetNewPage \/ SetInPlace) /\ ~MakeRoot
  <2>1. UNCHANGED <<idx_used, given, now, op, reply>>
    BY <1>5 DEF SetNewPage, SetInPlace
  <2> QED
    BY <2>1, ContentsKept, CacheStutters DEF Answered
<1>6. CASE SetOutOfBlocks
  BY <1>6, RoomToCopy DEF SetOutOfBlocks, Copying, LeakInv
<1>7. CASE CopyBlock
  <2> DEFINE k == op.key
  <2>1. op \in Call /\ k \in Keys /\ InSet /\ IsEntry(k)
    BY <1>7 DEF CopyBlock, Copying, TypeInv, TypeOK, Idle, Call, InSet, CallerInv, SetGoesOn
  <2>2. op'.key = k /\ InSet'
    BY <1>7, <2>1 DEF CopyBlock, Call, AfterBlock, InSet
  <2>3. /\ given' = given /\ now' = now
        /\ idx_used'[k].node = "entry" /\ idx_used'[k].expire = idx_used[k].expire
        /\ \A l \in Keys \ {k} : idx_used'[l] = idx_used[l]
    BY <1>7, <2>1 DEF CopyBlock, Extended, TypeInv, TypeOK
  <2>4. \A l \in Keys : Seen(l)' = Seen(l)
    BY <2>1, <2>3 DEF Seen, IsEntry, Counted
  <2>5. Contents' = Contents
    BY <2>4 DEF Contents
  <2>6. Answered' = Answered
    BY <2>1, <2>2, AnsweredIs
  <2> QED
    BY <2>3, <2>5, <2>6, CacheStutters
<1>8. CASE SetBalance
  <2>1. InSet /\ ~InSet'
    BY <1>8 DEF SetBalance, Idle, InSet
  <2>2. Answered' = Answered
    BY <1>8, <2>1, AnsweredIs DEF SetBalance, Reply
  <2> QED
    BY <1>8, <2>2, ContentsKept, CacheStutters DEF SetBalance, indexVars
<1>9. ASSUME NEW k \in Keys, NEW len \in BufLens, Get(k, len)
      PROVE  [Cache!CacheNext]_(Cache!cacheVars)
  BY <1>9, CacheGet DEF Cache!CacheNext
<1>10. ASSUME NEW k \in Keys, Evict(k) PROVE Cache!CacheNext
  BY <1>10, CacheEvict DEF Cache!CacheNext
<1>11. ASSUME NEW k \in Keys, ExpireKey(k) PROVE Cache!CacheNext
  <2>1. Answered' = Answered
    BY <1>11 DEF ExpireKey, Answered
  <2>2. Cache!Expire(k)
    BY <1>11, <2>1, ContentsEvict DEF ExpireKey, Cache!Expire
  <2> QED
    BY <2>2 DEF Cache!CacheNext
<1>12. ASSUME NEW b \in DOMAIN idx_expire, EraseBucket(b) PROVE UNCHANGED Cache!cacheVars
  BY <1>12, ContentsKept, CacheStutters DEF EraseBucket, Answered
<1>13. CASE Tick
  <2>1. Answered' = Answered /\ Contents' = Contents
    BY <1>13, ContentsKept DEF Tick, Answered, indexVars
  <2> QED
    BY <1>13, <2>1 DEF Tick, Cache!Tick, Cache!CacheNext
<1>14. CASE UNCHANGED storeVars
  BY <1>14, ContentsKept, CacheStutters DEF storeVars, indexVars, Answered
<1> QED
  BY <1>1, <1>2, <1>3, <1>4, <1>5, <1>6, <1>7, <1>8, <1>9, <1>10, <1>11, <1>12, <1>13, <1>14
     DEF StoreNext, SetStep

LEMMA CacheBegins == StoreInit => Cache!CacheInit
<1> SUFFICES ASSUME StoreInit PROVE Cache!CacheInit
  OBVIOUS
<1>1. \A k \in Keys : Seen(k) = Cache!NoEntry
  BY DEF StoreInit, Seen, IsEntry, Counted, Absent, Cache!NoEntry
<1>2. Contents = [k \in Keys |-> Cache!NoEntry]
  BY <1>1 DEF Contents
<1>3. now = Epoch /\ Answered = reply
  BY DEF StoreInit, Answered, Idle
<1>4. \E k \in Keys : reply = [key |-> k, err |-> "OK", data |-> <<>>, spill |-> FALSE]
  BY DEF StoreInit
<1> QED
  BY <1>2, <1>3, <1>4 DEF Cache!CacheInit

(* If pages fill the shard and no payload exceeds one, __set, __get and    *)
(* evict are what they promise, for every number and size of entries and   *)
(* every history of the free index: a set fails only if its payload does   *)
(* not fit beside the entries that are there, what it has stored is copied *)
(* out whole until it is evicted or expires, and a get is refused only if  *)
(* there is no entry, or it has expired, or the buffer is too short.       *)
THEOREM StoreImplementsCache ==
    ASSUME Aligned
    PROVE  StoreSpec => ImplementsCache
<1>1. StoreInit => SizedInv /\ CallerInv /\ Cache!CacheInit
  BY SizedInit, CallerInit, CacheBegins
<1>2. SizedInv /\ CallerInv /\ [StoreNext]_storeVars => SizedInv' /\ CallerInv'
  BY SizedKept, CallerStep
<1>3. SizedInv /\ CallerInv /\ [StoreNext]_storeVars => [Cache!CacheNext]_(Cache!cacheVars)
  BY CacheStep
<1> QED
  BY <1>1, <1>2, <1>3, PTL DEF StoreSpec, ImplementsCache, Cache!CacheSpec
=============================================================================
