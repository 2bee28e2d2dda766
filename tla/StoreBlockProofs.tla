-------------------------- MODULE StoreBlockProofs --------------------------
(***************************************************************************)
(* The blocks of a shard are a partition of it, for every set of keys and  *)
(* payloads and every size: NoOverlap and NoLeak of module ShardStore.     *)
(***************************************************************************)
EXTENDS ShardStoreProofs

-----------------------------------------------------------------------------
(* Sequences of blocks: no two blocks of s meet; no block of s meets one   *)
(* of t.                                                                   *)

Spread(s) == \A i, j \in DOMAIN s : i # j => Disjoint(s[i], s[j])
Apart(s, t) == \A i \in DOMAIN s, j \in DOMAIN t : Disjoint(s[i], t[j])

LEMMA ApartSymmetric == \A s, t : Apart(s, t) <=> Apart(t, s)
BY DEF Apart, Disjoint

LEMMA ApartEmpty == \A s : Apart(s, <<>>) /\ Apart(<<>>, s)
BY DEF Apart

LEMMA DomainIsLen == \A s \in Seq(Block) : Len(s) \in Nat /\ DOMAIN s = 1..Len(s)
BY LenProperties

(* The positions of a concatenation.                                       *)
LEMMA ConcatPositions ==
    ASSUME NEW s \in Seq(Block), NEW t \in Seq(Block), NEW i \in DOMAIN (s \o t)
    PROVE  \/ i \in DOMAIN s /\ (s \o t)[i] = s[i]
           \/ i - Len(s) \in DOMAIN t /\ (s \o t)[i] = t[i - Len(s)] /\ i \notin DOMAIN s
<1>1. /\ Len(s) \in Nat /\ DOMAIN s = 1..Len(s)
      /\ Len(t) \in Nat /\ DOMAIN t = 1..Len(t)
  BY DomainIsLen
<1>2. /\ s \o t \in Seq(Block) /\ Len(s \o t) = Len(s) + Len(t)
      /\ \A n \in 1..(Len(s) + Len(t)) : (s \o t)[n] = IF n <= Len(s) THEN s[n] ELSE t[n - Len(s)]
  BY ConcatProperties
<1>3. i \in 1..(Len(s) + Len(t))
  BY <1>2, DomainIsLen
<1>4. CASE i <= Len(s)
  BY <1>1, <1>2, <1>3, <1>4
<1>5. CASE ~(i <= Len(s))
  BY <1>1, <1>2, <1>3, <1>5
<1> QED
  BY <1>4, <1>5

LEMMA ConcatApart ==
    ASSUME NEW s \in Seq(Block), NEW t \in Seq(Block), NEW u, Apart(s, u), Apart(t, u)
    PROVE  Apart(s \o t, u)
<1> SUFFICES ASSUME NEW i \in DOMAIN (s \o t), NEW j \in DOMAIN u
             PROVE  Disjoint((s \o t)[i], u[j])
  BY DEF Apart
<1> QED
  BY ConcatPositions DEF Apart

LEMMA ConcatSpread ==
    ASSUME NEW s \in Seq(Block), NEW t \in Seq(Block), Spread(s), Spread(t), Apart(s, t)
    PROVE  Spread(s \o t)
<1> SUFFICES ASSUME NEW i \in DOMAIN (s \o t), NEW j \in DOMAIN (s \o t), i # j
             PROVE  Disjoint((s \o t)[i], (s \o t)[j])
  BY DEF Spread
<1>1. i \in Int /\ j \in Int /\ Len(s) \in Nat
  BY ConcatProperties, DomainIsLen
<1>2. \/ i \in DOMAIN s /\ (s \o t)[i] = s[i]
      \/ i - Len(s) \in DOMAIN t /\ (s \o t)[i] = t[i - Len(s)]
  BY ConcatPositions
<1>3. \/ j \in DOMAIN s /\ (s \o t)[j] = s[j]
      \/ j - Len(s) \in DOMAIN t /\ (s \o t)[j] = t[j - Len(s)]
  BY ConcatPositions
<1>4. i - Len(s) # j - Len(s)
  BY <1>1
<1>5. Apart(t, s)
  BY ApartSymmetric
<1> QED
  BY <1>2, <1>3, <1>4, <1>5 DEF Spread, Apart

(* One block.                                                              *)
LEMMA OneBlock ==
    ASSUME NEW b \in Block
    PROVE  <<b>> \in Seq(Block) /\ DOMAIN <<b>> = {1} /\ <<b>>[1] = b /\ Spread(<<b>>)
<1>1. <<b>> \in Seq(Block) /\ DOMAIN <<b>> = {1} /\ <<b>>[1] = b
  OBVIOUS
<1> QED
  BY <1>1 DEF Spread

LEMMA AppendConcat ==
    ASSUME NEW s \in Seq(Block), NEW b \in Block
    PROVE  Append(s, b) = s \o <<b>>
BY AppendIsConcat

(* The front of a list and the rest.                                       *)
LEMMA FrontOrTail ==
    ASSUME NEW s \in Seq(Block), s # <<>>, NEW i \in DOMAIN s
    PROVE  \/ s[i] = Head(s)
           \/ i - 1 \in DOMAIN Tail(s) /\ s[i] = Tail(s)[i - 1]
<1>1. /\ Tail(s) \in Seq(Block) /\ Len(Tail(s)) = Len(s) - 1 /\ Head(s) = s[1]
      /\ \A n \in 1..Len(Tail(s)) : Tail(s)[n] = s[n + 1]
  BY HeadTailProperties
<1>2. /\ Len(s) \in Nat /\ DOMAIN s = 1..Len(s) /\ DOMAIN Tail(s) = 1..(Len(s) - 1)
  BY <1>1, DomainIsLen
<1> QED
  BY <1>1, <1>2

LEMMA FrontAndTail ==
    ASSUME NEW s \in Seq(Block), s # <<>>, Spread(s)
    PROVE  /\ Head(s) \in Block /\ Tail(s) \in Seq(Block) /\ 1 \in DOMAIN s /\ Head(s) = s[1]
           /\ Spread(Tail(s))
           /\ Apart(<<Head(s)>>, Tail(s))
           /\ \A u : Apart(s, u) => Apart(<<Head(s)>>, u) /\ Apart(Tail(s), u)
<1>1. /\ Head(s) \in Block /\ Tail(s) \in Seq(Block) /\ Len(Tail(s)) = Len(s) - 1
      /\ \A i \in 1..Len(Tail(s)) : Tail(s)[i] = s[i + 1]
  BY HeadTailProperties
<1>2. /\ Len(s) \in Nat /\ DOMAIN s = 1..Len(s) /\ DOMAIN Tail(s) = 1..(Len(s) - 1)
  BY <1>1, DomainIsLen
<1>3. Len(s) # 0 /\ 1 \in DOMAIN s /\ Head(s) = s[1]
  BY <1>2, EmptySeq, SeqEqual
<1>4. \A i \in DOMAIN Tail(s) : i + 1 \in DOMAIN s /\ i + 1 # 1 /\ Tail(s)[i] = s[i + 1]
  BY <1>1, <1>2, <1>3
<1>5. Spread(Tail(s))
  <2>1. \A i, j \in DOMAIN Tail(s) : i # j => i + 1 # j + 1
    BY <1>2
  <2> QED
    BY <1>4, <2>1 DEF Spread
<1>6. DOMAIN <<Head(s)>> = {1} /\ <<Head(s)>>[1] = s[1]
  BY <1>1, <1>3, OneBlock
<1>7. Apart(<<Head(s)>>, Tail(s))
  BY <1>3, <1>4, <1>6 DEF Apart, Spread
<1>8. \A u : Apart(s, u) => Apart(<<Head(s)>>, u) /\ Apart(Tail(s), u)
  BY <1>3, <1>4, <1>6 DEF Apart
<1> QED
  BY <1>1, <1>3, <1>5, <1>7, <1>8

(* A block that lies inside the front block meets nothing that the front   *)
(* block did not meet.                                                     *)
LEMMA PartOfBlock ==
    ASSUME NEW f, NEW b, Cells(b) \subseteq Cells(f), NEW u, Apart(<<f>>, u)
    PROVE  Apart(<<b>>, u)
BY DEF Apart, Disjoint

LEMMA BlankApart == \A u : Apart(<<BlankBlock>>, u)
<1>1. Cells(BlankBlock) = {}
  BY DEF Cells, BlankBlock
<1> QED
  BY <1>1 DEF Apart, Disjoint

-----------------------------------------------------------------------------
(* NoOverlap, list by list.  It is inductive with the types.               *)

BlocksApart ==
    /\ Spread(idx_free)
    /\ \A k \in Keys : Spread(Chain(k)) /\ Apart(Chain(k), idx_free)
    /\ \A k, l \in Keys : k # l => Apart(Chain(k), Chain(l))

LEMMA BlocksApartIsNoOverlap == BlocksApart <=> NoOverlap
BY DEF BlocksApart, NoOverlap, Spread, Apart

LEMMA ChainType == TypeInv => \A k \in Keys : Chain(k) \in Seq(Block)
BY DEF TypeInv, TypeOK, Chain, IsEntry, Entry, Absent, Null

(* __evict appends the list of the entry to the free index.                *)
LEMMA EvictApart ==
    ASSUME TypeInv, BlocksApart, NEW k \in Keys, NEW skip \in BOOLEAN, EvictKey(k, skip)
    PROVE  BlocksApart'
<1>1. CASE EvictNode(k)
  <2>1. idx_free' = idx_free /\ \A l \in Keys : Chain(l)' = Chain(l)
    BY <1>1 DEF EvictNode, Chain, IsEntry, Null, TypeInv, TypeOK
  <2> QED
    BY <2>1 DEF BlocksApart
<1>2. CASE EvictEntry(k, skip)
  <2>1. PICK moved \in Seq(Block) :
          /\ idx_free' = idx_free \o moved
          /\ Spread(moved)
          /\ \A u : Apart(Chain(k), u) => Apart(moved, u)
    <3>1. Chain(k) \in Seq(Block) /\ Spread(Chain(k))
      BY ChainType DEF BlocksApart
    <3>2. BlankBlock \in Block
      BY DEF BlankBlock, Block
    <3>3. <<BlankBlock>> \in Seq(Block) /\ Spread(<<BlankBlock>>)
      BY <3>2, OneBlock
    <3> DEFINE longer == Chain(k) \o <<BlankBlock>>
    <3>4. longer \in Seq(Block) /\ longer = Append(Chain(k), BlankBlock)
      BY <3>1, <3>2, <3>3, AppendConcat, ConcatProperties
    <3>5. Spread(longer)
      BY <3>1, <3>3, BlankApart, ApartSymmetric, ConcatSpread
    <3>6. \A u : Apart(Chain(k), u) => Apart(longer, u)
      BY <3>1, <3>3, BlankApart, ConcatApart
    <3>7. \/ idx_free' = idx_free \o Chain(k)
          \/ idx_free' = idx_free \o longer
      BY <1>2, <3>4 DEF EvictEntry, Chain
    <3> HIDE DEF longer
    <3> QED
      BY <3>1, <3>4, <3>5, <3>6, <3>7
  <2>2. idx_free \in Seq(Block)
    BY DEF TypeInv, TypeOK
  <2>3. /\ Chain(k)' = <<>>
        /\ \A l \in Keys \ {k} : Chain(l)' = Chain(l)
    BY <1>2 DEF EvictEntry, Chain, IsEntry, Absent, TypeInv, TypeOK
  <2>4. Spread(idx_free')
    BY <2>1, <2>2, ApartSymmetric, ConcatSpread DEF BlocksApart
  <2>5. \A l \in Keys \ {k} : Apart(Chain(l), idx_free')
    BY <2>1, <2>2, ApartSymmetric, ConcatApart DEF BlocksApart
  <2>6. Spread(<<>>)
    BY DEF Spread
  <2>7. \A l \in Keys : Spread(Chain(l)') /\ Apart(Chain(l)', idx_free')
    BY <2>3, <2>5, <2>6, ApartEmpty DEF BlocksApart
  <2>8. \A l, m \in Keys : l # m => Apart(Chain(l)', Chain(m)')
    BY <2>3, ApartEmpty DEF BlocksApart
  <2> QED
    BY <2>4, <2>7, <2>8 DEF BlocksApart, Spread, Apart, Disjoint, Cells
<1> QED
  BY <1>1, <1>2 DEF EvictKey

(* The root that __set makes has no block yet; that of the same key, if    *)
(* there was one, has been evicted or was left by a failed set.            *)
LEMMA MakeRootApart ==
    ASSUME TypeInv, BlocksApart, NEW k \in Keys, k = op.key, MakeRoot, idx_free' = idx_free
    PROVE  BlocksApart'
<1>1. /\ Chain(k)' = <<>>
      /\ \A l \in Keys \ {k} : Chain(l)' = Chain(l)
  BY DEF MakeRoot, Chain, IsEntry, TypeInv, TypeOK
<1>2. Spread(<<>>)
  BY DEF Spread
<1>3. \A l \in Keys : Spread(Chain(l)') /\ Apart(Chain(l)', idx_free')
  BY <1>1, <1>2, ApartEmpty DEF BlocksApart
<1>4. \A l, m \in Keys : l # m => Apart(Chain(l)', Chain(m)')
  BY <1>1, ApartEmpty DEF BlocksApart
<1> QED
  BY <1>3, <1>4 DEF BlocksApart, Spread, Apart, Disjoint, Cells

(* The front block is cut in two: the bytes taken and the rest.            *)
LEMMA CutInterval ==
    ASSUME NEW o \in Nat, NEW n \in Nat, NEW t \in Nat, t <= n
    PROVE  /\ (o .. (o + t - 1)) \cap ((o + t) .. (o + t + (n - t) - 1)) = {}
           /\ (o .. (o + t - 1)) \cup ((o + t) .. (o + t + (n - t) - 1)) = o .. (o + n - 1)
OBVIOUS

LEMMA CutApart ==
    ASSUME TypeInv, Copying, idx_free # <<>>, NEW used,
           used = [offset |-> Head(idx_free).offset, len |-> Taken]
    PROVE  /\ used \in Block
           /\ Cells(used) \subseteq Cells(Head(idx_free))
           /\ Cells(Rest) \subseteq Cells(Head(idx_free))
           /\ Disjoint(used, Rest)
           /\ Cells(used) \cup Cells(Rest) = Cells(Head(idx_free))
<1>1. /\ Head(idx_free).offset \in Nat /\ Head(idx_free).len \in Nat
      /\ Taken \in Nat /\ Taken <= Head(idx_free).len
  BY TakenType DEF Block
<1>2. used \in Block
  BY <1>1 DEF Block
<1>3. /\ Cells(used) = Head(idx_free).offset .. (Head(idx_free).offset + Taken - 1)
      /\ Cells(Rest) = (Head(idx_free).offset + Taken) ..
                         (Head(idx_free).offset + Taken + (Head(idx_free).len - Taken) - 1)
      /\ Cells(Head(idx_free)) = Head(idx_free).offset ..
                         (Head(idx_free).offset + Head(idx_free).len - 1)
  BY DEF Cells, Rest
<1>4. /\ Cells(used) \cap Cells(Rest) = {}
      /\ Cells(used) \cup Cells(Rest) = Cells(Head(idx_free))
  BY <1>1, <1>3, CutInterval
<1> QED
  BY <1>2, <1>4 DEF Disjoint

(* What one iteration of the copying loop does to the lists.               *)
LEMMA CopyLists ==
    ASSUME TypeInv, CopyBlock, NEW k, k = op.key, NEW used,
           used = [offset |-> Head(idx_free).offset, len |-> Taken]
    PROVE  /\ k \in Keys
           /\ Chain(k)' = Chain(k) \o <<used>>
           /\ \A l \in Keys \ {k} : Chain(l)' = Chain(l)
           /\ \/ idx_free' = Tail(idx_free) \o <<Rest>>
              \/ idx_free' = Tail(idx_free) /\ Head(idx_free).len = Taken
<1>1. Copying /\ idx_free # <<>> /\ idx_free' = FreeAfter
  BY DEF CopyBlock
<1>2. /\ op \in Call /\ k \in Keys /\ op.remained - Taken \in Nat
      /\ Head(idx_free) \in Block /\ Taken \in Nat /\ Taken <= Head(idx_free).len
      /\ Rest \in Block /\ Tail(idx_free) \in Seq(Block)
  BY <1>1, TakenType, HeadTailProperties DEF Call, TypeInv, TypeOK
<1>3. IsEntry(k) /\ idx_used[k] \in Entry
  BY <1>1, <1>2 DEF Copying, TypeInv, TypeOK, Lengths, IsEntry, Absent, Null
<1>4. used \in Block
  BY <1>1, CutApart
<1> DEFINE e == Extended(idx_used[k], used, op.remained - Taken)
<1>5. idx_used' = [idx_used EXCEPT ![k] = e]
  BY DEF CopyBlock
<1>6. e.node = "entry" /\ e.chain = Append(idx_used[k].chain, used)
  BY <1>2, <1>3, <1>4, ExtendedType
<1> HIDE DEF e
<1>7. Chain(k)' = Append(Chain(k), used) /\ \A l \in Keys \ {k} : Chain(l)' = Chain(l)
  BY <1>2, <1>3, <1>5, <1>6 DEF Chain, IsEntry, TypeInv, TypeOK
<1>8. Append(Chain(k), used) = Chain(k) \o <<used>>
  BY <1>2, <1>4, ChainType, AppendConcat
<1>9. Append(Tail(idx_free), Rest) = Tail(idx_free) \o <<Rest>>
  BY <1>2, AppendConcat
<1>10. Head(idx_free).len > Taken \/ Head(idx_free).len = Taken
  BY <1>2 DEF Block
<1> QED
  BY <1>1, <1>2, <1>7, <1>8, <1>9, <1>10 DEF FreeAfter, Block

LEMMA CopyApart == ASSUME TypeInv, BlocksApart, CopyBlock PROVE BlocksApart'
<1> SUFFICES ASSUME NEW k, k = op.key, NEW used,
                    used = [offset |-> Head(idx_free).offset, len |-> Taken]
             PROVE  BlocksApart'
  OBVIOUS
<1> DEFINE f == Head(idx_free)
           t == Tail(idx_free)
           r == Rest
<1>1. /\ k \in Keys
      /\ Chain(k)' = Chain(k) \o <<used>>
      /\ \A l \in Keys \ {k} : Chain(l)' = Chain(l)
      /\ idx_free' = t \o <<r>> \/ idx_free' = t
  BY CopyLists
<1>2. Copying /\ idx_free # <<>> /\ idx_free \in Seq(Block)
  BY DEF CopyBlock, TypeInv, TypeOK
<1>3. f \in Block /\ t \in Seq(Block) /\ used \in Block /\ r \in Block
  BY <1>2, TakenType, HeadTailProperties, CutApart
<1>4. /\ Spread(t)
      /\ Apart(<<f>>, t)
      /\ \A u : Apart(idx_free, u) => Apart(<<f>>, u) /\ Apart(t, u)
  BY <1>2, FrontAndTail DEF BlocksApart
<1>5. /\ Cells(used) \subseteq Cells(f) /\ Cells(r) \subseteq Cells(f)
      /\ Disjoint(used, r)
  BY <1>2, CutApart
<1> HIDE DEF f, t, r
<1>6. /\ <<used>> \in Seq(Block) /\ Spread(<<used>>)
      /\ <<r>> \in Seq(Block) /\ Spread(<<r>>)
      /\ Apart(<<used>>, <<r>>)
  BY <1>3, <1>5, OneBlock DEF Apart
<1>7. \A u : Apart(idx_free, u) => Apart(<<used>>, u) /\ Apart(<<r>>, u) /\ Apart(t, u)
  BY <1>4, <1>5, PartOfBlock
<1>8. Apart(<<used>>, t) /\ Apart(<<r>>, t)
  BY <1>4, <1>5, PartOfBlock
<1>9. Spread(idx_free') /\ idx_free' \in Seq(Block)
  <2>1. Spread(t \o <<r>>) /\ t \o <<r>> \in Seq(Block)
    BY <1>3, <1>4, <1>6, <1>8, ApartSymmetric, ConcatSpread, ConcatProperties
  <2> QED
    BY <1>1, <1>3, <1>4, <2>1
<1>10. \A u : Apart(idx_free, u) /\ Apart(<<r>>, u) => Apart(idx_free', u)
  BY <1>1, <1>3, <1>6, <1>7, ConcatApart
<1>11. Apart(idx_free', <<used>>)
  BY <1>1, <1>3, <1>6, <1>8, ApartSymmetric, ConcatApart
<1>12. \A l \in Keys : Chain(l) \in Seq(Block) /\ Spread(Chain(l)) /\ Apart(idx_free, Chain(l))
  BY ChainType, ApartSymmetric DEF BlocksApart
<1>13. \A l \in Keys : Apart(<<used>>, Chain(l)) /\ Apart(Chain(l), <<used>>)
  BY <1>7, <1>12, ApartSymmetric
<1>14. \A l \in Keys : Apart(Chain(l), idx_free')
  BY <1>7, <1>10, <1>12, ApartSymmetric
<1>15. Spread(Chain(k)') /\ Apart(Chain(k)', idx_free')
  BY <1>1, <1>6, <1>11, <1>12, <1>13, <1>14, ApartSymmetric, ConcatSpread, ConcatApart
<1>16. \A l \in Keys \ {k} : Apart(Chain(k)', Chain(l)') /\ Apart(Chain(l)', Chain(k)')
  <2>1. \A l \in Keys \ {k} : Apart(Chain(k), Chain(l))
    BY <1>1 DEF BlocksApart
  <2> QED
    BY <1>1, <1>6, <1>12, <1>13, <2>1, ApartSymmetric, ConcatApart
<1>17. \A l \in Keys : Spread(Chain(l)') /\ Apart(Chain(l)', idx_free')
  BY <1>1, <1>12, <1>14, <1>15
<1>18. \A l, m \in Keys : l # m => Apart(Chain(l)', Chain(m)')
  BY <1>1, <1>16 DEF BlocksApart
<1> QED
  BY <1>9, <1>17, <1>18 DEF BlocksApart, Spread, Apart, Disjoint, Cells

(* Every other step leaves the lists alone.                                *)
LEMMA SameLists ==
    ASSUME UNCHANGED <<idx_used, idx_free>>
    PROVE  \A k \in Keys : Chain(k)' = Chain(k)
BY DEF Chain, IsEntry

LEMMA ApartStep == TypeInv /\ BlocksApart /\ [StoreNext]_storeVars => BlocksApart'
<1> SUFFICES ASSUME TypeInv, BlocksApart, [StoreNext]_storeVars PROVE BlocksApart'
  OBVIOUS
<1>1. ASSUME UNCHANGED <<idx_used, idx_free>> PROVE BlocksApart'
  BY <1>1, SameLists DEF BlocksApart
<1>2. CASE CopyBlock
  BY <1>2, CopyApart
<1>3. CASE SetNewPage \/ SetInPlace
  <2>1. op \in Call
    BY <1>3 DEF SetNewPage, SetInPlace, Reserving, TypeInv, TypeOK, Idle
  <2>2. op.key \in Keys /\ idx_free' = idx_free
    BY <1>3, <2>1 DEF SetNewPage, SetInPlace, Call
  <2>3. MakeRoot \/ UNCHANGED idx_used
    BY <1>3 DEF SetNewPage, SetInPlace
  <2> QED
    BY <1>1, <2>2, <2>3, MakeRootApart
<1>4. CASE SetNoSpace \/ SetOutOfBlocks \/ SetBalance \/ Tick \/ UNCHANGED storeVars
  BY <1>1, <1>4 DEF SetNoSpace, SetOutOfBlocks, SetBalance, Tick, storeVars, indexVars
<1>5. ASSUME NEW k \in Keys, NEW v \in Payloads, NEW force \in BOOLEAN,
             SetRefused(k, v, force) \/ SetAccepted(k, v, force)
      PROVE  BlocksApart'
  <2>1. EvictKey(k, FALSE) \/ UNCHANGED <<idx_used, idx_free>>
    BY <1>5 DEF SetRefused, SetAccepted, indexVars
  <2> QED
    BY <1>1, <2>1, EvictApart
<1>6. ASSUME NEW k \in Keys, NEW len \in BufLens, Get(k, len) PROVE BlocksApart'
  BY <1>1, <1>6 DEF Get, GetNull, GetFails, GetData, indexVars
<1>7. ASSUME NEW k \in Keys, Evict(k) \/ ExpireKey(k) PROVE BlocksApart'
  <2>1. EvictKey(k, FALSE) \/ EvictKey(k, TRUE) \/ UNCHANGED <<idx_used, idx_free>>
    BY <1>7 DEF Evict, EvictMiss, EvictHit, ExpireKey, indexVars
  <2> QED
    BY <1>1, <2>1, EvictApart
<1>8. ASSUME NEW b \in DOMAIN idx_expire, EraseBucket(b) PROVE BlocksApart'
  BY <1>1, <1>8 DEF EraseBucket
<1> QED
  BY <1>2, <1>3, <1>4, <1>5, <1>6, <1>7, <1>8 DEF StoreNext, SetStep

LEMMA ApartInit == StoreInit => BlocksApart
<1> SUFFICES ASSUME StoreInit PROVE BlocksApart
  OBVIOUS
<1>1. \A k \in Keys : Chain(k) = <<>>
  BY DEF StoreInit, Chain, IsEntry, Absent
<1>2. [offset |-> 0, len |-> SzMax] \in Block
  BY StoreAssumption DEF Block
<1>3. Spread(idx_free)
  BY <1>2, OneBlock DEF StoreInit
<1>4. Spread(<<>>)
  BY DEF Spread
<1> QED
  BY <1>1, <1>3, <1>4, ApartEmpty DEF BlocksApart

(* No byte belongs to two blocks, whatever sequence of sets, forced sets,  *)
(* evictions, expirations and sets that failed half-way has cut up and     *)
(* recycled the free index (__set, __evict, bulk_expire).                  *)
THEOREM BlocksNeverOverlap == StoreSpec => []NoOverlap
<1>1. BlocksApart => NoOverlap
  BY BlocksApartIsNoOverlap
<1> QED
  BY <1>1, ApartInit, ApartStep, TypeInit, TypeStep, PTL DEF StoreSpec

-----------------------------------------------------------------------------
(* NoLeak, address by address.  It needs that __set makes a root only for  *)
(* a key that has no entry: the blocks of another root would be lost.      *)

On(a, s) == \E i \in DOMAIN s : a \in Cells(s[i])

Owned(a) == On(a, idx_free) \/ \E k \in Keys : On(a, Chain(k))
AllOwned == \A a \in Addr : Owned(a)

Unrooted == op.pc = "reserve" => ~IsEntry(op.key)

LeakInv == AllOwned /\ Unrooted

LEMMA AllOwnedIsNoLeak == AllOwned <=> NoLeak
BY DEF AllOwned, Owned, On, NoLeak, UsedAddrs, FreeAddrs

LEMMA ConcatOn ==
    ASSUME NEW s \in Seq(Block), NEW t \in Seq(Block), NEW a, On(a, s) \/ On(a, t)
    PROVE  On(a, s \o t)
<1>1. /\ Len(s) \in Nat /\ DOMAIN s = 1..Len(s)
      /\ Len(t) \in Nat /\ DOMAIN t = 1..Len(t)
  BY DomainIsLen
<1>2. /\ DOMAIN (s \o t) = 1..(Len(s) + Len(t))
      /\ \A n \in 1..(Len(s) + Len(t)) : (s \o t)[n] = IF n <= Len(s) THEN s[n] ELSE t[n - Len(s)]
  BY ConcatProperties, DomainIsLen
<1>3. CASE On(a, s)
  <2>1. PICK i \in DOMAIN s : a \in Cells(s[i])
    BY <1>3 DEF On
  <2>2. i \in DOMAIN (s \o t) /\ (s \o t)[i] = s[i]
    BY <1>1, <1>2
  <2> QED
    BY <2>1, <2>2 DEF On
<1>4. CASE On(a, t)
  <2>1. PICK i \in DOMAIN t : a \in Cells(t[i])
    BY <1>4 DEF On
  <2>2. i + Len(s) \in DOMAIN (s \o t) /\ (s \o t)[i + Len(s)] = t[i]
    BY <1>1, <1>2
  <2> QED
    BY <2>1, <2>2 DEF On
<1> QED
  BY <1>3, <1>4

LEMMA OneOn == ASSUME NEW b \in Block, NEW a \in Cells(b) PROVE On(a, <<b>>)
BY OneBlock DEF On

LEMMA EvictLeak ==
    ASSUME TypeInv, AllOwned, NEW k \in Keys, NEW skip \in BOOLEAN, EvictKey(k, skip)
    PROVE  AllOwned' /\ ~IsEntry(k)'
<1>1. CASE EvictNode(k)
  <2>1. /\ idx_free' = idx_free
        /\ \A l \in Keys : Chain(l)' = Chain(l)
        /\ ~IsEntry(k)'
    BY <1>1 DEF EvictNode, Chain, IsEntry, Null, TypeInv, TypeOK
  <2> QED
    BY <2>1 DEF AllOwned, Owned, Addr
<1>2. CASE EvictEntry(k, skip)
  <2>1. idx_free \in Seq(Block) /\ Chain(k) \in Seq(Block) /\ <<BlankBlock>> \in Seq(Block)
    BY ChainType DEF BlankBlock, Block, TypeInv, TypeOK
  <2>2. PICK moved \in Seq(Block) :
          /\ idx_free' = idx_free \o moved
          /\ \A a : On(a, Chain(k)) => On(a, moved)
    <3>1. BlankBlock \in Block
      BY DEF BlankBlock, Block
    <3> DEFINE longer == Chain(k) \o <<BlankBlock>>
    <3>2. longer \in Seq(Block) /\ longer = Append(Chain(k), BlankBlock)
      BY <2>1, <3>1, AppendConcat, ConcatProperties
    <3>3. \A a : On(a, Chain(k)) => On(a, longer)
      BY <2>1, ConcatOn
    <3>4. \/ idx_free' = idx_free \o Chain(k)
          \/ idx_free' = idx_free \o longer
      BY <1>2, <3>2 DEF EvictEntry, Chain
    <3> HIDE DEF longer
    <3> QED
      BY <2>1, <3>2, <3>3, <3>4
  <2>3. /\ ~IsEntry(k)'
        /\ \A l \in Keys \ {k} : Chain(l)' = Chain(l)
    BY <1>2 DEF EvictEntry, Chain, IsEntry, Absent, TypeInv, TypeOK
  <2>4. ASSUME NEW a \in Addr PROVE On(a, idx_free') \/ \E l \in Keys : On(a, Chain(l)')
    <3>1. Owned(a)
      BY DEF AllOwned
    <3>2. CASE On(a, idx_free) \/ On(a, Chain(k))
      BY <2>1, <2>2, <3>2, ConcatOn
    <3>3. ASSUME NEW l \in Keys \ {k}, On(a, Chain(l)) PROVE On(a, Chain(l)')
      BY <2>3, <3>3
    <3> QED
      BY <3>1, <3>2, <3>3 DEF Owned
  <2> QED
    BY <2>3, <2>4 DEF AllOwned, Owned, Addr, On, Cells
<1> QED
  BY <1>1, <1>2 DEF EvictKey

LEMMA MakeRootLeak ==
    ASSUME TypeInv, AllOwned, NEW k \in Keys, k = op.key, ~IsEntry(k), MakeRoot,
           idx_free' = idx_free
    PROVE  AllOwned'
<1>1. \A l \in Keys : Chain(l)' = Chain(l)
  BY DEF MakeRoot, Chain, IsEntry, TypeInv, TypeOK
<1> QED
  BY <1>1 DEF AllOwned, Owned, Addr

LEMMA CopyLeak == ASSUME TypeInv, AllOwned, CopyBlock PROVE AllOwned'
<1> SUFFICES ASSUME NEW k, k = op.key, NEW used,
                    used = [offset |-> Head(idx_free).offset, len |-> Taken]
             PROVE  AllOwned'
  OBVIOUS
<1> DEFINE f == Head(idx_free)
           t == Tail(idx_free)
           r == Rest
<1>1. /\ k \in Keys
      /\ Chain(k)' = Chain(k) \o <<used>>
      /\ \A l \in Keys \ {k} : Chain(l)' = Chain(l)
      /\ idx_free' = t \o <<r>> \/ (idx_free' = t /\ f.len = Taken)
  BY CopyLists
<1>2. Copying /\ idx_free # <<>> /\ idx_free \in Seq(Block)
  BY DEF CopyBlock, TypeInv, TypeOK
<1>3. f \in Block /\ t \in Seq(Block) /\ used \in Block /\ r \in Block
  BY <1>2, TakenType, HeadTailProperties, CutApart
<1>4. Cells(used) \cup Cells(r) = Cells(f) /\ (f.len = Taken => Cells(r) = {})
  <2>1. Cells(used) \cup Cells(r) = Cells(f)
    BY <1>2, CutApart
  <2>2. ASSUME f.len = Taken PROVE Cells(r) = {}
    BY <1>3, <2>2 DEF Rest, Cells, Block
  <2> QED
    BY <2>1, <2>2
<1>5. ASSUME NEW a, On(a, idx_free) PROVE a \in Cells(f) \/ On(a, t)
  <2>1. PICK i \in DOMAIN idx_free : a \in Cells(idx_free[i])
    BY <1>5 DEF On
  <2>2. \/ idx_free[i] = f
        \/ i - 1 \in DOMAIN t /\ idx_free[i] = t[i - 1]
    BY <1>2, <2>1, FrontOrTail
  <2> QED
    BY <2>1, <2>2 DEF On
<1> HIDE DEF f, t, r
<1>6. <<used>> \in Seq(Block) /\ <<r>> \in Seq(Block)
  BY <1>3, OneBlock
<1>7. \A a : On(a, t) => On(a, idx_free')
  BY <1>1, <1>3, <1>6, ConcatOn
<1>8. \A a \in Cells(r) : On(a, idx_free')
  BY <1>1, <1>3, <1>4, <1>6, OneOn, ConcatOn
<1>9. \A a \in Cells(used) : On(a, Chain(k)')
  BY <1>1, <1>3, <1>6, ChainType, OneOn, ConcatOn
<1>10. \A a : \A l \in Keys : On(a, Chain(l)) => On(a, Chain(l)')
  BY <1>1, <1>6, ChainType, ConcatOn
<1>11. ASSUME NEW a \in Addr PROVE On(a, idx_free') \/ \E l \in Keys : On(a, Chain(l)')
  <2>1. On(a, idx_free) \/ \E l \in Keys : On(a, Chain(l))
    BY DEF AllOwned, Owned
  <2> QED
    BY <1>1, <1>4, <1>5, <1>7, <1>8, <1>9, <1>10, <2>1
<1> QED
  BY <1>11 DEF AllOwned, Owned, Addr, On, Cells

LEMMA LeakStep == TypeInv /\ LeakInv /\ [StoreNext]_storeVars => LeakInv'
<1> SUFFICES ASSUME TypeInv, AllOwned, Unrooted, [StoreNext]_storeVars
             PROVE  AllOwned' /\ Unrooted'
  BY DEF LeakInv
<1>1. ASSUME UNCHANGED <<idx_used, idx_free>> PROVE AllOwned'
  BY <1>1, SameLists DEF AllOwned, Owned, Addr
<1>2. ASSUME op' = Idle PROVE Unrooted'
  BY <1>2 DEF Unrooted, Idle
<1>3. CASE CopyBlock
  <2>1. op'.pc # "reserve"
    <3>1. op \in Call
      BY <1>3 DEF CopyBlock, Copying, TypeInv, TypeOK, Idle
    <3> QED
      BY <1>3, <3>1 DEF CopyBlock, AfterBlock, Call
  <2> QED
    BY <1>3, <2>1, CopyLeak DEF Unrooted
<1>4. CASE SetNewPage \/ SetInPlace
  <2>1. op \in Call /\ ~IsEntry(op.key)
    BY <1>4 DEF SetNewPage, SetInPlace, Reserving, TypeInv, TypeOK, Idle, Unrooted
  <2>2. op.key \in Keys /\ idx_free' = idx_free
    BY <1>4, <2>1 DEF SetNewPage, SetInPlace, Call
  <2>3. CASE MakeRoot
    <3>1. op'.pc = "copy"
      BY <2>1, <2>3 DEF MakeRoot, Call
    <3> QED
      BY <2>1, <2>2, <2>3, <3>1, MakeRootLeak DEF Unrooted
  <2>4. CASE UNCHANGED <<idx_used, op>>
    BY <1>1, <2>2, <2>4 DEF Unrooted, IsEntry
  <2> QED
    BY <1>4, <2>3, <2>4 DEF SetNewPage, SetInPlace
<1>5. CASE SetNoSpace \/ SetOutOfBlocks \/ SetBalance
  BY <1>1, <1>2, <1>5 DEF SetNoSpace, SetOutOfBlocks, SetBalance, indexVars
<1>6. CASE Tick \/ UNCHANGED storeVars
  BY <1>1, <1>6 DEF Tick, storeVars, indexVars, Unrooted, IsEntry
<1>7. ASSUME NEW k \in Keys, NEW v \in Payloads, NEW force \in BOOLEAN,
             SetRefused(k, v, force)
      PROVE  AllOwned' /\ Unrooted'
  BY <1>1, <1>7 DEF SetRefused, indexVars, Unrooted, IsEntry
<1>8. ASSUME NEW k \in Keys, NEW v \in Payloads, NEW force \in BOOLEAN,
             SetAccepted(k, v, force)
      PROVE  AllOwned' /\ Unrooted'
  <2>1. op'.key = k
    BY <1>8 DEF SetAccepted
  <2>2. CASE ~Counted(k) /\ UNCHANGED <<indexVars, sizeVars, mem, now, given, fault>>
    BY <1>1, <2>1, <2>2 DEF Counted, Absent, indexVars, Unrooted, IsEntry
  <2>3. CASE EvictKey(k, FALSE)
    <3>1. AllOwned' /\ ~IsEntry(k)'
      BY <2>3, EvictLeak
    <3> QED
      BY <2>1, <3>1 DEF Unrooted, IsEntry
  <2> QED
    BY <1>8, <2>2, <2>3 DEF SetAccepted
<1>9. ASSUME NEW k \in Keys, NEW len \in BufLens, Get(k, len) PROVE AllOwned' /\ Unrooted'
  BY <1>1, <1>9 DEF Get, GetNull, GetFails, GetData, indexVars, Unrooted, IsEntry
<1>10. ASSUME NEW k \in Keys, Evict(k) \/ ExpireKey(k) PROVE AllOwned' /\ Unrooted'
  <2>1. op' = Idle
    BY <1>10 DEF Evict, EvictMiss, EvictHit, ExpireKey, Ready
  <2>2. EvictKey(k, FALSE) \/ EvictKey(k, TRUE) \/ UNCHANGED <<idx_used, idx_free>>
    BY <1>10 DEF Evict, EvictMiss, EvictHit, ExpireKey, indexVars
  <2> QED
    BY <1>1, <1>2, <2>1, <2>2, EvictLeak
<1>11. ASSUME NEW b \in DOMAIN idx_expire, EraseBucket(b) PROVE AllOwned' /\ Unrooted'
  BY <1>1, <1>11 DEF EraseBucket, Unrooted, IsEntry
<1> QED
  BY <1>3, <1>4, <1>5, <1>6, <1>7, <1>8, <1>9, <1>10, <1>11 DEF StoreNext, SetStep

(* The one block of a new shard.                                           *)
LEMMA WholeShard ==
    [offset |-> 0, len |-> SzMax] \in Block /\ Cells([offset |-> 0, len |-> SzMax]) = Addr
<1>1. 0 + SzMax - 1 = SzMax - 1
  BY StoreAssumption
<1> QED
  BY <1>1, StoreAssumption DEF Block, Cells, Addr

LEMMA LeakInit == StoreInit => LeakInv
<1> SUFFICES ASSUME StoreInit PROVE LeakInv
  OBVIOUS
<1> DEFINE b == [offset |-> 0, len |-> SzMax]
<1>1. b \in Block /\ Cells(b) = Addr
  BY WholeShard
<1>2. idx_free = <<b>>
  BY DEF StoreInit
<1> HIDE DEF b
<1>3. AllOwned
  BY <1>1, <1>2, OneOn DEF AllOwned, Owned
<1> QED
  BY <1>3 DEF LeakInv, Unrooted, StoreInit, Idle

(* No byte is lost: whatever sets, evictions, expirations and half-done    *)
(* sets came before, each address is in a free block or in the block of    *)
(* an entry that can be evicted (__set, __evict, bulk_expire).             *)
THEOREM NothingLeaks == StoreSpec => []NoLeak
<1>1. LeakInv => NoLeak
  BY AllOwnedIsNoLeak DEF LeakInv
<1> QED
  BY <1>1, LeakInit, LeakStep, TypeInit, TypeStep, PTL DEF StoreSpec
=============================================================================
