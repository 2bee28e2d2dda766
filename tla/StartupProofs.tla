--------------------------- MODULE StartupProofs ---------------------------
(***************************************************************************)
(* Theorems about Startup, for every set of configuration texts and every  *)
(* limit and width that the assumptions admit: the parameters of a cache   *)
(* are in range and those that a Go application asks for, its shards have  *)
(* pages enough and divide the hashes evenly; a document of any number of  *)
(* members is read back as it is written, and so is what marshal writes.   *)
(***************************************************************************)
EXTENDS Startup, SequenceTheorems, FiniteSetTheorems, TLAPS

(* An integer that does not fit is cut off.                                *)
LEMMA CutOff == \A n : Atoi64(n) \in Int64
<1>1. Half \in Nat \ {0} /\ Word64 = 2 * Half
  BY HelpersAssumption DEF Half
<1> QED  BY <1>1 DEF Atoi64, Int64

LEMMA Unsigned == \A x \in Int : U32(x) \in 0..(Word32 - 1) /\ U64(x) \in 0..(Word64 - 1)
BY HelpersAssumption DEF U32, U64

(* Lookups: an integer that is found, or the default.                      *)
LEMMA Lookup ==
    ASSUME IntsFit(json), NEW name, NEW def \in Int
    PROVE  Get(json, "i", <<name>>, def) \in Int
<1> DEFINE holders == {o \in Holders(json, <<name>>) : <<"i", name>> \in DOMAIN o}
<1>1. Holders(json, <<name>>) = {json}
  BY DEF Holders
<1>2. Get(json, "i", <<name>>, def) =
        IF holders = {} THEN def ELSE (CHOOSE o \in holders : TRUE)[<<"i", name>>]
  BY DEF Get
<1>3. CASE holders = {}
  BY <1>2, <1>3
<1>4. CASE holders # {}
  <2>1. (CHOOSE o \in holders : TRUE) = json /\ <<"i", name>> \in DOMAIN json
    BY <1>1, <1>4
  <2>2. json[<<"i", name>>] \in Int64
    BY <2>1 DEF IntsFit
  <2>3. json[<<"i", name>>] \in Int
    BY <2>2, HelpersAssumption DEF Int64, Half
  <2> HIDE DEF holders
  <2> QED  BY <1>2, <1>4, <2>1, <2>3
<1> QED  BY <1>3, <1>4

LEMMA LookupNonZero ==
    ASSUME IntsFit(json), NEW name, NEW def \in Int
    PROVE  GetInz(json, <<name>>, def) \in Int
BY Lookup DEF GetInz

(* The constructor checks every parameter after its conversion.            *)
LEMMA ConstructedIsValid ==
    ASSUME NEW asked, asked.verbose_lvl \in Int, asked.shards_cnt \in Int,
           asked.max_size \in Int, asked.expire_ns \in Int, asked.vacuum_ns \in Int
    PROVE  Valid(Constructed(asked))
<1>1. U32(asked.verbose_lvl) \in Nat /\ U32(asked.shards_cnt) \in Nat
  BY Unsigned, HelpersAssumption
<1>2. /\ U64(asked.max_size) \in 0..(Word64 - 1)
      /\ U64(asked.expire_ns) \in 0..(Word64 - 1)
      /\ U64(asked.vacuum_ns) \in 0..(Word64 - 1)
  BY Unsigned
<1>3. Half \in Nat /\ Word64 = 2 * Half
  BY HelpersAssumption DEF Half
<1>4. Shards(U32(asked.shards_cnt)) \in MinShards..MaxShards
        /\ IsPow2(Shards(U32(asked.shards_cnt)))
  BY ConfigAssumption, DefaultIsPow2 DEF Shards
<1>5. AtLeast(U64(asked.expire_ns), MinExpire, DefExpire) \in MinExpire..(Word64 - 1)
  BY <1>2, <1>3, ConfigAssumption, HelpersAssumption DEF AtLeast
<1>6. AtLeast(U64(asked.vacuum_ns), MinVacuum, DefVacuum) \in MinVacuum..(Word64 - 1)
  BY <1>2, <1>3, ConfigAssumption, HelpersAssumption DEF AtLeast
<1>7. AtLeast(U64(asked.max_size), 1, DefMaxSize) \in 1..(Word64 - 1)
  BY <1>2, <1>3, ConfigAssumption, HelpersAssumption DEF AtLeast
<1> QED  BY <1>1, <1>4, <1>5, <1>6, <1>7, ConfigAssumption, HelpersAssumption
         DEF Valid, Constructed

LEMMA InitialIsValid == Valid(Initial)
<1>1. Half \in Nat /\ Word64 = 2 * Half
  BY HelpersAssumption DEF Half
<1> QED  BY <1>1, ConfigAssumption, DefaultIsPow2, HelpersAssumption DEF Valid, Initial

-----------------------------------------------------------------------------
(* Whatever the text, what the parser files is a map of finitely many keys *)
(* of five types, whose integers fit, since Atoi64 cuts them off.  The     *)
(* invariant is about the frames in progress and the result.               *)

KeyTypes == {"s", "i", "f", "b", "o"}
IsFcn(data) == data = [key \in DOMAIN data |-> data[key]]
FlatOK(data) ==
    /\ IsFcn(data) /\ IsFiniteSet(DOMAIN data) /\ IntsFit(data)
    /\ \A key \in DOMAIN data : key = <<key[1], key[2]>> /\ key[1] \in KeyTypes
DataOK(data) == FlatOK(data) /\ \A key \in DOMAIN data : key[1] = "o" => FlatOK(data[key])

FrameOK(frame) ==
    /\ {"data", "offset", "i", "captured_len"} \subseteq DOMAIN frame
    /\ DataOK(frame.data)
    /\ frame.offset \in Nat \ {0} /\ frame.i \in Nat /\ frame.captured_len \in Nat
    /\ frame.offset <= frame.i
Opens(offset) == offset <= Len(text) /\ Type(text[offset]) = "{"
FramesFit ==
    /\ \E S : frames \in Seq(S)
    /\ \A n \in 1..Len(frames) : FrameOK(frames[n])
    /\ \A n \in 2..Len(frames) :
          frames[n - 1].offset < frames[n].offset /\ Opens(frames[n].offset)

LEMMA WithFits ==
    ASSUME NEW data, DataOK(data), NEW type \in KeyTypes, NEW name, NEW value,
           type = "i" => value \in Int64, type = "o" => FlatOK(value)
    PROVE  DataOK(With(data, <<type, name>>, value))
<1> DEFINE key == <<type, name>>
           new == With(data, key, value)
<1>1. key[1] = type /\ key[2] = name
  OBVIOUS
<1>2. FlatOK(data)
  BY DEF DataOK
<1> HIDE DEF key
<1>3. /\ IsFcn(new) /\ DOMAIN new = DOMAIN data \cup {key} /\ new[key] = value
      /\ \A k \in DOMAIN data : k # key => new[k] = data[k]
  BY DEF With, IsFcn
<1>4. IsFiniteSet(DOMAIN new)
  <2>1. IsFiniteSet(DOMAIN data \cup {key})
    BY <1>2, FS_AddElement DEF FlatOK
  <2> QED  BY <1>3, <2>1
<1>5. \A k \in DOMAIN new : k = <<k[1], k[2]>> /\ k[1] \in KeyTypes
  <2>1. key = <<key[1], key[2]>>
    BY <1>1 DEF key
  <2> QED  BY <1>1, <1>2, <1>3, <2>1 DEF FlatOK
<1> HIDE DEF new
<1>6. IntsFit(new)
  BY <1>1, <1>2, <1>3 DEF IntsFit, FlatOK
<1>7. \A k \in DOMAIN new : k[1] = "o" => FlatOK(new[k])
  BY <1>1, <1>3 DEF DataOK
<1>8. FlatOK(new)
  BY <1>3, <1>4, <1>5, <1>6 DEF FlatOK
<1>9. DataOK(new)
  BY <1>7, <1>8 DEF DataOK
<1> QED  BY <1>9 DEF new, key

LEMMA IntegersAreCut == \A right : RightType(right) = "i" => RightValue(right) \in Int64
<1> SUFFICES ASSUME NEW right, RightType(right) = "i"
             PROVE  RightValue(right) \in Int64
  OBVIOUS
<1>1. RightValue(right) = Atoi64(right[1][2])
  BY DEF RightValue
<1> QED  BY <1>1, CutOff

LEMMA NextIsFrame ==
    ASSUME NEW frame, FrameOK(frame)
    PROVE  /\ FrameOK(Next1(frame)) /\ Next1(frame).data = frame.data
           /\ Next1(frame).offset = frame.offset
BY DEF FrameOK, Next1

LEMMA FiledIsFrame ==
    ASSUME NEW frame, FrameOK(frame)
    PROVE  FrameOK(Filed(frame)) /\ Filed(frame).offset = frame.offset
<1> DEFINE type == RightType(frame.right)
           value == RightValue(frame.right)
           next == Next1(frame)
           key == <<type, Name(frame.left)>>
           data == IF type = "null" THEN next.data ELSE With(next.data, key, value)
<1>1. FrameOK(next) /\ next.offset = frame.offset
  BY NextIsFrame
<1>2. type = "i" => value \in Int64
  BY IntegersAreCut
<1>3. type \in KeyTypes \cup {"null"} /\ type # "o"
  BY DEF RightType, KeyTypes
<1>4. DataOK(data)
  <2>1. DataOK(next.data)
    BY <1>1 DEF FrameOK
  <2> HIDE DEF type, value, next
  <2>2. type # "null" => DataOK(With(next.data, key, value))
    BY <1>2, <1>3, <2>1, WithFits
  <2> QED  BY <2>1, <2>2
<1>5. Filed(frame) = [next EXCEPT !.data = data, !.l = TRUE, !.left = <<>>, !.right = <<>>]
  BY DEF Filed
<1> HIDE DEF data, next
<1> QED  BY <1>1, <1>4, <1>5 DEF FrameOK

LEMMA SetTopFits ==
    ASSUME FramesFit, NEW frame, FrameOK(frame), frame.offset = Top.offset,
           SetTop(frame), UNCHANGED text
    PROVE  FramesFit'
<1>1. PICK S : frames \in Seq(S)
  BY DEF FramesFit
<1>2. frames' = [frames EXCEPT ![Len(frames)] = frame]
  BY DEF SetTop
<1>3. frames' \in Seq(S \cup {frame}) /\ Len(frames') = Len(frames)
  <2>1. Len(frames) \in Nat /\ frames \in [1..Len(frames) -> S \cup {frame}]
    BY <1>1
  <2>2. frames' \in [1..Len(frames) -> S \cup {frame}]
    BY <1>2, <2>1
  <2> QED  BY <2>1, <2>2
<1>4. \A n \in 1..Len(frames) : frames'[n] = IF n = Len(frames) THEN frame ELSE frames[n]
  BY <1>1, <1>2
<1>5. \A n \in 1..Len(frames') : FrameOK(frames'[n])
  BY <1>3, <1>4 DEF FramesFit
<1>6. \A n \in 1..Len(frames') : frames'[n].offset = frames[n].offset
  BY <1>3, <1>4 DEF Top
<1>7. \A n \in 2..Len(frames') : frames'[n - 1].offset < frames'[n].offset
                                 /\ Opens(frames'[n].offset)
  <2> SUFFICES ASSUME NEW n \in 2..Len(frames)
               PROVE  frames'[n - 1].offset < frames'[n].offset /\ Opens(frames'[n].offset)
    BY <1>3
  <2>1. n \in 1..Len(frames') /\ n - 1 \in 1..Len(frames')
    BY <1>1, <1>3
  <2> QED  BY <1>6, <2>1 DEF FramesFit
<1> QED  BY <1>3, <1>5, <1>7 DEF FramesFit, FrameOK, DataOK, Opens

LEMMA Longer ==
    ASSUME NEW S, NEW s \in Seq(S), NEW e \in S
    PROVE  /\ Append(s, e) \in Seq(S)
           /\ Len(Append(s, e)) = Len(s) + 1
           /\ \A j \in 1..Len(Append(s, e)) :
                Append(s, e)[j] = IF j = Len(s) + 1 THEN e ELSE s[j]
<1> DEFINE t == Append(s, e)
<1>1. Len(s) \in Nat /\ Len(t) = Len(s) + 1 /\ t \in Seq(S)
  BY LenProperties, AppendProperties
<1>2. \A j \in 1..Len(s) : t[j] = s[j]
  BY AppendProperties
<1>3. t[Len(s) + 1] = e
  BY AppendProperties
<1> HIDE DEF t
<1>4. \A j \in 1..(Len(s) + 1) : j = Len(s) + 1 \/ j \in 1..Len(s)
  BY <1>1
<1>5. \A j \in 1..Len(t) : t[j] = IF j = Len(s) + 1 THEN e ELSE s[j]
  BY <1>1, <1>2, <1>3, <1>4
<1> QED  BY <1>1, <1>5 DEF t

(* A frame is pushed or popped, with another in its caller's place.        *)
LEMMA CallFits ==
    ASSUME FramesFit, Len(frames) >= 1, UNCHANGED text,
           NEW caller, FrameOK(caller), caller.offset = Top.offset,
           NEW frame, FrameOK(frame), Top.offset < frame.offset, Opens(frame.offset),
           frames' = Append([frames EXCEPT ![Len(frames)] = caller], frame)
    PROVE  FramesFit'
<1>1. PICK S : frames \in Seq(S)
  BY DEF FramesFit
<1> DEFINE T == S \cup {frame, caller}
           held == [frames EXCEPT ![Len(frames)] = caller]
<1>2. frames \in Seq(T) /\ Len(frames) \in 1..Len(frames)
  BY <1>1
<1>3. /\ held \in Seq(T)
      /\ Len(held) = Len(frames)
      /\ \A j \in 1..Len(frames) : held[j] = IF j = Len(frames) THEN caller ELSE frames[j]
  BY <1>2, ExceptSeq
<1> HIDE DEF held, T
<1>4. \A j \in 1..Len(held) : FrameOK(held[j])
  BY <1>3 DEF FramesFit
<1>5. frames' = Append(held, frame) /\ frame \in T
  BY DEF held, T
<1>6. frames' \in Seq(T) /\ Len(frames') = Len(held) + 1
      /\ \A j \in 1..Len(frames') : frames'[j] = IF j = Len(held) + 1 THEN frame ELSE held[j]
  <2> DEFINE longer == Append(held, frame)
  <2>1. /\ longer \in Seq(T)
        /\ Len(longer) = Len(held) + 1
        /\ \A j \in 1..Len(longer) : longer[j] = IF j = Len(held) + 1 THEN frame ELSE held[j]
    BY <1>3, <1>5, Longer, Zenon
  <2>2. frames' = longer
    BY <1>5
  <2> HIDE DEF longer
  <2> QED  BY <2>1, <2>2, Zenon
<1>7. \A j \in 1..Len(frames') : FrameOK(frames'[j])
  BY <1>2, <1>3, <1>4, <1>6
<1>8. \A n \in 2..Len(frames') : frames'[n - 1].offset < frames'[n].offset
                                 /\ Opens(frames'[n].offset)
  <2> SUFFICES ASSUME NEW n \in 2..(Len(frames) + 1)
               PROVE  frames'[n - 1].offset < frames'[n].offset /\ Opens(frames'[n].offset)
    BY <1>3, <1>6
  <2>1. Len(frames) \in Nat /\ n - 1 \in 1..Len(frames)
    BY <1>1
  <2>2. frames'[n - 1].offset = frames[n - 1].offset
    BY <1>3, <1>6, <2>1 DEF Top
  <2>3. CASE n = Len(frames) + 1
    BY <1>3, <1>6, <2>1, <2>2, <2>3 DEF Top
  <2>4. CASE n \in 2..Len(frames)
    <3>1. frames'[n].offset = frames[n].offset
      BY <1>3, <1>6, <2>1, <2>4 DEF Top
    <3> QED  BY <2>2, <2>4, <3>1 DEF FramesFit
  <2> QED  BY <2>1, <2>3, <2>4
<1> QED  BY <1>6, <1>7, <1>8 DEF FramesFit, FrameOK, DataOK, Opens

LEMMA TwoOrMore ==
    \A n \in Nat \ {0} : n # 1 => /\ n \in Nat /\ n >= 2 /\ n - 2 \in Int
                                  /\ 1 <= n - 2 \/ n - 2 = 0
OBVIOUS

LEMMA ReturnFits ==
    ASSUME FramesFit, DataOK(json), frames # <<>>, NEW frame, FrameOK(frame), Return(frame)
    PROVE  FramesFit' /\ DataOK(json)'
<1>1. PICK S : frames \in Seq(S)
  BY DEF FramesFit
<1>2. Len(frames) \in Nat \ {0}
  BY <1>1, EmptySeq
<1>3. CASE Len(frames) = 1
  <2>1. json' = frame.data /\ frames' = <<>>
    BY <1>3 DEF Return
  <2>2. \E R : frames' \in Seq(R)
    BY <2>1
  <2>3. Len(frames') = 0
    BY <2>1
  <2>4. FramesFit'
    BY <2>2, <2>3 DEF FramesFit
  <2>5. DataOK(frame.data) /\ frame = frame
    BY DEF FrameOK
  <2> QED  BY <2>1, <2>4, <2>5 DEF DataOK
<1>4. CASE Len(frames) # 1
  <2>1. Len(frames) \in Nat /\ Len(frames) >= 2
    BY <1>2, <1>4, TwoOrMore, Zenon
  <2> DEFINE n == Len(frames)
             caller == frames[n - 1]
             data == With(caller.data, <<"o", Name(caller.left)>>, frame.data)
             resumed == [caller EXCEPT !.data = data, !.i = @ + frame.captured_len + 1]
             below == SubSeq(frames, 1, n - 2)
             T == S \cup {resumed}
  <2>2. FrameOK(caller)
    BY <2>1 DEF FramesFit
  <2>3. FrameOK(resumed) /\ resumed.offset = caller.offset
    <3>1. DataOK(data)
      <4>1. DataOK(caller.data)
        BY <2>2 DEF FrameOK
      <4>2. FlatOK(frame.data)
        BY DEF FrameOK, DataOK
      <4> HIDE DEF caller
      <4> QED  BY <4>1, <4>2, WithFits DEF KeyTypes
    <3> HIDE DEF data, caller
    <3> QED  BY <2>2, <3>1 DEF FrameOK
  <2>4. frames' = Append(below, resumed) /\ UNCHANGED <<json, text>>
    BY <1>4 DEF Return
  <2>5. /\ below \in Seq(S) /\ Len(below) = n - 2
        /\ \A j \in 1..Len(below) : j \in 1..n /\ below[j] = frames[j]
    <3>1. n \in Nat /\ n - 2 \in Int /\ (1 <= n - 2 \/ n - 2 = 0)
      BY <1>2, <1>4, TwoOrMore, Zenon
    <3>2. \A j \in 1..(n - 2) : frames[j] \in S
      BY <1>1, <3>1
    <3>3. /\ below \in Seq(S)
          /\ Len(below) = IF 1 <= n - 2 THEN (n - 2) - 1 + 1 ELSE 0
          /\ \A j \in 1..((n - 2) - 1 + 1) : below[j] = frames[1 + j - 1]
      BY <3>1, <3>2, SubSeqProperties
    <3> HIDE DEF below
    <3> QED  BY <3>1, <3>3
  <2> HIDE DEF below, resumed
  <2>6. frames' \in Seq(T) /\ Len(frames') = Len(below) + 1
        /\ \A j \in 1..Len(frames') : frames'[j] = IF j = Len(below) + 1 THEN resumed ELSE below[j]
    <3>1. below \in Seq(T) /\ resumed \in T
      BY <2>5
    <3> HIDE DEF T
    <3> QED  BY <2>4, <3>1, Longer
  <2>7. \A j \in 1..Len(below) : FrameOK(below[j])
    BY <2>5 DEF FramesFit
  <2>8. \A j \in 1..Len(frames') : FrameOK(frames'[j])
    <3>1. Len(below) \in Nat
      BY <2>5
    <3> QED  BY <2>3, <2>6, <2>7, <3>1
  <2>9. \A j \in 1..(n - 1) : frames'[j].offset = frames[j].offset
    <3> SUFFICES ASSUME NEW j \in 1..(n - 1) PROVE frames'[j].offset = frames[j].offset
      OBVIOUS
    <3>1. j \in 1..Len(frames') /\ (j = n - 1 \/ j \in 1..Len(below))
      BY <2>1, <2>5, <2>6
    <3>2. j = n - 1 => frames'[j] = resumed
      BY <2>1, <2>5, <2>6, <3>1
    <3>3. j \in 1..Len(below) => frames'[j] = frames[j]
      BY <2>1, <2>5, <2>6, <3>1
    <3> QED  BY <2>3, <3>1, <3>2, <3>3
  <2>10. \A j \in 2..Len(frames') : frames'[j - 1].offset < frames'[j].offset
                                   /\ Opens(frames'[j].offset)
    <3> SUFFICES ASSUME NEW j \in 2..(n - 1)
                 PROVE  frames'[j - 1].offset < frames'[j].offset /\ Opens(frames'[j].offset)
      BY <2>1, <2>5, <2>6
    <3>1. j - 1 \in 1..(n - 1) /\ j \in 1..(n - 1) /\ j \in 2..Len(frames)
      BY <2>1
    <3> QED  BY <2>9, <3>1 DEF FramesFit
  <2> QED  BY <2>4, <2>6, <2>8, <2>10 DEF FramesFit, FrameOK, DataOK, Opens
<1> QED  BY <1>3, <1>4

LEMMA NoDataOK == DataOK(NoData)
<1>1. DOMAIN NoData = {} /\ IsFcn(NoData)
  BY DEF NoData, IsFcn
<1>2. IsFiniteSet(DOMAIN NoData)
  BY <1>1, FS_EmptySet
<1> QED  BY <1>1, <1>2 DEF DataOK, FlatOK, IntsFit

LEMMA NewIsFrame == \A n \in Nat \ {0} : FrameOK(Frame(n)) /\ Frame(n).offset = n
BY NoDataOK DEF FrameOK, Frame

LEMMA TopIsFrame ==
    ASSUME FramesFit, frames # <<>>
    PROVE  Len(frames) >= 1 /\ FrameOK(Top)
<1>1. Len(frames) \in Nat \ {0}
  BY EmptySeq DEF FramesFit
<1>2. Len(frames) \in 1..Len(frames) /\ Len(frames) >= 1
  BY <1>1
<1> QED  BY <1>2 DEF FramesFit, Top

-----------------------------------------------------------------------------
(* The invariant: calls in progress while there is text to parse, and a    *)
(* valid cache once it is there.                                           *)

StartupInv ==
    /\ stage \in {"none", "parse", "parsed", "reparse", "reparsed"}
    /\ FramesFit
    /\ DataOK(json)
    /\ stage \in {"parse", "reparse"} => frames # <<>>
    /\ ParamsInRange

LEMMA StartupInvInit == StartupInit => StartupInv
<1> SUFFICES ASSUME StartupInit PROVE StartupInv
  OBVIOUS
<1>1. DataOK(json)
  BY NoDataOK DEF StartupInit
<1>2. CASE frames = <<Frame(1)>>
  <2>1. frames \in Seq({Frame(1)}) /\ Len(frames) = 1 /\ frames[1] = Frame(1)
    BY <1>2
  <2>2. FramesFit
    BY <2>1, NewIsFrame DEF FramesFit
  <2> QED  BY <1>1, <1>2, <2>2 DEF StartupInv, StartupInit, ParamsInRange
<1>3. CASE frames = <<>> /\ stage = "none"
  <2>1. frames \in Seq({}) /\ Len(frames) = 0
    BY <1>3
  <2>2. FramesFit
    BY <2>1 DEF FramesFit
  <2> QED  BY <1>1, <1>3, <2>2 DEF StartupInv, StartupInit, ParamsInRange
<1> QED  BY <1>2, <1>3 DEF StartupInit

LEMMA ParseKeepsFit ==
    ASSUME FramesFit, DataOK(json), stage \in {"parse", "reparse"} => frames # <<>>, ParseStep
    PROVE  FramesFit' /\ DataOK(json)' /\ (stage \in {"parse", "reparse"} => frames # <<>>)'
<1>1. frames # <<>> /\ stage \in {"parse", "reparse"}
  BY DEF ParseStep, SkipSpace, ReadColon, EnterOwn, CallNested, ReadComma, ReadBrace,
         EndOfText, Collect, Reads, More
<1>2. Len(frames) >= 1 /\ FrameOK(Top)
  BY <1>1, TopIsFrame
<1>3. ASSUME NEW frame, FrameOK(frame), frame.offset = Top.offset,
             SetTop(frame), UNCHANGED text
      PROVE  FramesFit' /\ frames' # <<>>
  <2>1. FramesFit'
    BY <1>3, SetTopFits
  <2>2. DOMAIN frames' = DOMAIN frames
    BY <1>3 DEF SetTop
  <2>3. frames[Len(frames)] = frames[Len(frames)] /\ DOMAIN frames # {}
    <3>1. PICK S : frames \in Seq(S)
      BY DEF FramesFit
    <3>2. Len(frames) \in Nat \ {0} /\ DOMAIN frames = 1..Len(frames)
      BY <1>1, <3>1, EmptySeq, LenProperties
    <3> QED  BY <3>2
  <2> QED  BY <2>1, <2>2, <2>3
<1>4. FrameOK(Next1(Top)) /\ Next1(Top).offset = Top.offset
  BY <1>2, NextIsFrame
<1>5. CASE SkipSpace
  BY <1>3, <1>4, <1>5 DEF SkipSpace, DataOK
<1>6. CASE ReadColon
  <2> DEFINE frame == [Next1(Top) EXCEPT !.l = FALSE]
  <2>1. FrameOK(frame) /\ frame.offset = Top.offset
    BY <1>4 DEF FrameOK
  <2> QED  BY <1>3, <1>6, <2>1 DEF ReadColon, DataOK
<1>7. CASE EnterOwn
  BY <1>3, <1>4, <1>7 DEF EnterOwn, DataOK
<1>8. CASE CallNested
  <2> DEFINE caller == [Top EXCEPT !.captured_len = @ + 1]
  <2>1. FrameOK(caller) /\ caller.offset = Top.offset
    BY <1>2 DEF FrameOK
  <2>2. frames' = Append([frames EXCEPT ![Len(frames)] = caller], Frame(Top.i))
    BY <1>8 DEF CallNested, Top
  <2>3. /\ FrameOK(Frame(Top.i)) /\ Top.offset < Frame(Top.i).offset
        /\ Opens(Frame(Top.i).offset)
    <3>1. Top.i \in Nat \ {0} /\ Top.offset < Top.i
      <4>1. Top.i # Top.offset
        BY <1>8 DEF CallNested
      <4>2. Top.i \in Nat /\ Top.offset \in Nat \ {0} /\ Top.offset <= Top.i
        BY <1>2 DEF FrameOK
      <4> QED  BY <4>1, <4>2
    <3>2. Opens(Top.i)
      BY <1>8 DEF CallNested, Reads, More, Opens
    <3> QED  BY <3>1, <3>2, NewIsFrame
  <2> HIDE DEF caller
  <2>4. FramesFit'
    BY <1>2, <1>8, <2>1, <2>2, <2>3, CallFits DEF CallNested
  <2>5. frames' # <<>>
    <3>1. PICK S : frames' \in Seq(S)
      BY <2>4 DEF FramesFit
    <3> QED  BY <1>2, <2>2
  <2> QED  BY <1>8, <2>4, <2>5 DEF CallNested, DataOK
<1>9. CASE ReadComma
  <2>1. FrameOK(Filed(Top)) /\ Filed(Top).offset = Top.offset
    BY <1>2, FiledIsFrame
  <2> QED  BY <1>3, <1>9, <2>1 DEF ReadComma, DataOK
<1>10. ASSUME NEW frame, FrameOK(frame), Return(frame)
       PROVE  FramesFit' /\ DataOK(json)' /\ (stage \in {"parse", "reparse"} => frames # <<>>)'
  <2>1. FramesFit' /\ DataOK(json)'
    BY <1>1, <1>10, ReturnFits
  <2>2. stage' \in {"parse", "reparse"} => frames' # <<>>
    BY <1>10 DEF Return
  <2> QED  BY <2>1, <2>2
<1>11. CASE ReadBrace
  <2>1. FrameOK(Filed(Top))
    BY <1>2, FiledIsFrame
  <2> QED  BY <1>10, <1>11, <2>1 DEF ReadBrace
<1>12. CASE EndOfText
  BY <1>2, <1>10, <1>12 DEF EndOfText
<1>13. CASE Collect
  <2> DEFINE frame == IF Top.l THEN [Next1(Top) EXCEPT !.left = Append(@, text[Top.i])]
                      ELSE [Next1(Top) EXCEPT !.right = Append(@, text[Top.i])]
  <2>1. FrameOK(frame) /\ frame.offset = Top.offset
    BY <1>4 DEF FrameOK
  <2>2. SetTop(frame) /\ UNCHANGED <<json, text>>
    BY <1>13 DEF Collect
  <2> HIDE DEF frame
  <2> QED  BY <1>3, <2>1, <2>2 DEF DataOK
<1> QED  BY <1>5, <1>6, <1>7, <1>8, <1>9, <1>11, <1>12, <1>13 DEF ParseStep

LEMMA FoundFits ==
    ASSUME IntsFit(json)
    PROVE  /\ Found.verbose_lvl \in Int /\ Found.shards_cnt \in Int
           /\ Found.max_size \in Int /\ Found.expire_ns \in Int /\ Found.vacuum_ns \in Int
<1>1. DefVerbose \in Int /\ DefShards \in Int /\ Avail \in Int /\ DefExpire \in Int
        /\ DefVacuum \in Int
  BY ConfigAssumption
<1>2. Get(json, "i", <<"verbose_lvl">>, DefVerbose) \in Int
  BY <1>1, Lookup
<1>3. GetInz(json, <<"shards_cnt">>, DefShards) \in Int
  BY <1>1, LookupNonZero
<1>4. GetInz(json, <<"max_size">>, Avail) \in Int
  BY <1>1, LookupNonZero
<1>5. Get(json, "i", <<"expire_ns">>, DefExpire) \in Int
  BY <1>1, Lookup
<1>6. Get(json, "i", <<"vacuum_ns">>, DefVacuum) \in Int
  BY <1>1, Lookup
<1> QED  BY <1>2, <1>3, <1>4, <1>5, <1>6 DEF Found

LEMMA StartupInvStep == StartupInv /\ [StartupNext]_startupVars => StartupInv'
<1> SUFFICES ASSUME StartupInv, [StartupNext]_startupVars
             PROVE  StartupInv'
  OBVIOUS
<1>1. CASE Parse
  <2>1. /\ FramesFit' /\ DataOK(json)'
        /\ (stage \in {"parse", "reparse"} => frames # <<>>)'
    BY <1>1, ParseKeepsFit DEF Parse, StartupInv
  <2>2. UNCHANGED cache /\ stage' \in {stage, "parsed", "reparsed"}
    BY <1>1 DEF Parse, ParseStep, SkipSpace, ReadColon, EnterOwn, CallNested, ReadComma,
                ReadBrace, EndOfText, Collect, Return
  <2>3. ParamsInRange'
    BY <2>2 DEF StartupInv, ParamsInRange, Valid, NoCache
  <2> QED  BY <2>1, <2>2, <2>3 DEF StartupInv
<1>2. CASE Construct
  <2>1. Valid(Constructed(Found))
    BY FoundFits, ConstructedIsValid DEF StartupInv, DataOK, FlatOK
  <2>2. cache' = Constructed(Found) /\ UNCHANGED jsonVars
    BY <1>2 DEF Construct
  <2>3. ParamsInRange'
    BY <2>1, <2>2 DEF ParamsInRange, Valid
  <2> QED  BY <2>2, <2>3 DEF StartupInv, jsonVars, FramesFit, FrameOK, DataOK, Opens
<1>3. CASE ConstructPlain
  <2>1. ParamsInRange'
    BY <1>3, InitialIsValid DEF ConstructPlain, ParamsInRange, Valid
  <2> QED  BY <1>3, <2>1 DEF ConstructPlain, StartupInv, jsonVars, FramesFit, FrameOK, DataOK,
      Opens
<1>4. CASE RoundTrip
  <2>1. frames' = <<Frame(1)>> /\ stage' = "reparse" /\ UNCHANGED <<json, cache>>
    BY <1>4 DEF RoundTrip, Reparse
  <2>2. frames' \in Seq({Frame(1)}) /\ Len(frames') = 1 /\ frames'[1] = Frame(1)
    BY <2>1
  <2>3. FramesFit'
    BY <2>2, NewIsFrame DEF FramesFit, FrameOK, DataOK, Opens
  <2> QED  BY <2>1, <2>3 DEF StartupInv, DataOK, ParamsInRange, Valid, NoCache
<1>5. CASE UNCHANGED startupVars
  BY <1>5 DEF startupVars, jsonVars, StartupInv, FramesFit, FrameOK, DataOK, Opens, ParamsInRange,
              Valid, NoCache
<1> QED  BY <1>1, <1>2, <1>3, <1>4, <1>5 DEF StartupNext

(* Whatever the configuration says, down to texts that are no JSON at all, *)
(* the parameters of the cache are in range (bigcache.cpp:26-56): the      *)
(* parser files only integers that fit into 64 bits, and the constructor   *)
(* checks each parameter after its conversion.                             *)
THEOREM ParamsAlwaysInRange == StartupSpec => []ParamsInRange
<1>1. StartupInv => ParamsInRange
  BY DEF StartupInv
<1> QED  BY <1>1, StartupInvInit, StartupInvStep, PTL DEF StartupSpec

(* What unmarshal (json.cpp) keeps in its members and local variables, for *)
(* every text: numbers within 64 bits, cut by strtol, and calls that are   *)
(* nested as the objects of the text are.                                  *)
THEOREM StartupTypeCorrect == StartupSpec => []StartupTypeOK
<1>1. StartupInv => StartupTypeOK
  <2> SUFFICES ASSUME StartupInv PROVE StartupTypeOK
    OBVIOUS
  <2>1. DOMAIN frames = 1..Len(frames) /\ Len(frames) \in Nat
    BY DEF StartupInv, FramesFit
  <2>2. \A n \in 2..Len(frames) : /\ frames[n - 1].offset < frames[n].offset
                                  /\ Opens(frames[n].offset)
    BY DEF StartupInv, FramesFit
  <2>3. IntsFit(json) /\ \A n \in 1..Len(frames) : IntsFit(frames[n].data)
    BY DEF StartupInv, FramesFit, FrameOK, DataOK, FlatOK
  <2> QED  BY <2>1, <2>2, <2>3 DEF StartupInv, StartupTypeOK, Opens
<1> QED  BY <1>1, StartupInvInit, StartupInvStep, PTL DEF StartupSpec

-----------------------------------------------------------------------------
(* Sizes.                                                                  *)

LEMMA DivMod ==
    ASSUME NEW a \in Nat, NEW b \in Nat \ {0}
    PROVE  a \div b \in Nat /\ b * (a \div b) <= a /\ a < b * (a \div b) + b
OBVIOUS

(* A page is an exact fraction of the shard, rounded down.                 *)
LEMMA PageIsFraction ==
    /\ PageNumber \in Nat \ {0}
    /\ \A n \in Nat : PageSize(n) = n \div PageNumber
<1>1. PagePrcnt \in 1..50 /\ 100 % PagePrcnt = 0
  BY ConfigAssumption
<1>2. PagePrcnt \in {1, 2, 4, 5, 10, 20, 25, 50}
  BY <1>1
<1> QED  BY <1>2 DEF PageNumber, PageSize

(* What the constructor of Shard prepares: one page more than the exact    *)
(* fractions makes up for rounding as soon as a page is as large as the    *)
(* number of pages (shard.cpp:23, :32).                                    *)
LEMMA PreparedPagesHold ==
    ASSUME NEW n \in Nat, EnoughForPages(n)
    PROVE  PageSize(n) >= 1 /\ PagesHold(n)
<1> DEFINE k == PageNumber
           q == n \div k
<1>1. k \in Nat \ {0} /\ PageSize(n) = q
  BY PageIsFraction
<1>2. q \in Nat /\ k * q <= n /\ n < k * q + k
  BY <1>1, DivMod
<1>3. k >= 2
  BY ConfigAssumption DEF PageNumber
<1>4. n >= k * (k - 1)
  BY DEF EnoughForPages
<1>5. Pages * PageSize(n) = (k + 1) * q
  BY <1>1 DEF Pages, PageNumber
<1> HIDE DEF k, q
<1>6. q >= k - 1
  <2> SUFFICES ASSUME q <= k - 2
               PROVE  FALSE
    BY <1>1, <1>2
  <2>1. k * q <= k * (k - 2)
    BY <1>1, <1>2
  <2>2. k * (k - 2) + k = k * (k - 1)
    BY <1>1
  <2> QED  BY <1>1, <1>2, <1>4, <2>1, <2>2
<1>7. (k + 1) * q = k * q + q
  BY <1>1, <1>2
<1>8. (k + 1) * q >= n
  BY <1>1, <1>2, <1>6, <1>7
<1> QED  BY <1>1, <1>2, <1>3, <1>5, <1>6, <1>8 DEF PagesHold

(* The space of a cache: its shards together stay within its size, and     *)
(* each shard from 90 bytes on (with pages of 10 %) has pages to hold it.  *)
(* This is the condition under which PagesAlwaysSuffice (ShardStoreProofs) *)
(* says that no set runs out of prepared pages.                            *)
THEOREM SpaceIsAlwaysHeld == StartupSpec => []SpaceIsHeld
<1>1. ParamsInRange => SpaceIsHeld
  <2> SUFFICES ASSUME ParamsInRange, cache # NoCache
               PROVE  SpaceIsHeld
    BY DEF SpaceIsHeld
  <2>1. cache.shards_cnt \in Nat \ {0} /\ cache.max_size \in Nat
    BY ConfigAssumption, HelpersAssumption DEF ParamsInRange, Valid
  <2>2. ShardSize(cache) \in Nat /\ cache.shards_cnt * ShardSize(cache) <= cache.max_size
    BY <2>1, DivMod DEF ShardSize
  <2> QED  BY <2>2, PreparedPagesHold DEF SpaceIsHeld
<1> QED  BY <1>1, ParamsAlwaysInRange, PTL

-----------------------------------------------------------------------------
(* The operator &.  Induction: a set of naturals that contains a number    *)
(* whenever it contains all smaller ones contains all.                     *)

LEMMA Induction ==
    ASSUME NEW Set, \A n \in Nat : (\A m \in 0..(n - 1) : m \in Set) => n \in Set
    PROVE  \A n \in Nat : n \in Set
<1> DEFINE R == OpToRel(<, Nat)
           T == Nat \ Set
<1>1. IsWellFoundedOn(R, Nat)
  BY NatLessThanWellFounded
<1>2. \A c, d \in Nat : c < d => <<c, d>> \in R
  BY DEF OpToRel
<1> SUFFICES ASSUME T # {} PROVE FALSE
  OBVIOUS
<1>3. T \subseteq Nat
  OBVIOUS
<1> HIDE DEF R
<1>4. PICK n \in T : \A m \in T : ~(<<m, n>> \in R)
  <2> HIDE DEF T
  <2> QED  BY <1>1, <1>3, WFMin
<1>5. \A m \in 0..(n - 1) : m \in Set
  <2> SUFFICES ASSUME NEW m \in 0..(n - 1) PROVE m \in Set
    OBVIOUS
  <2>1. n \in Nat /\ m \in Nat /\ m < n
    OBVIOUS
  <2>2. <<m, n>> \in R
    BY <1>2, <2>1
  <2> QED  BY <1>4, <2>1, <2>2
<1> QED  BY <1>4, <1>5

(* The equation of And at one pair of arguments.                           *)
Rhs(g, a, b) == IF a = 0 \/ b = 0 THEN 0
                ELSE 2 * g[a \div 2][b \div 2] + (a % 2) * (b % 2)
UpTo(k) == {g \in [Nat -> [Nat -> Nat]] : \A a \in 0..k, b \in Nat : g[a][b] = Rhs(g, a, b)}

LEMMA Halves ==
    ASSUME NEW n \in Nat
    PROVE  /\ n \div 2 \in Nat /\ n % 2 \in {0, 1} /\ n = 2 * (n \div 2) + (n % 2)
           /\ n > 0 => n \div 2 < n
OBVIOUS

LEMMA SomeUpTo == \A k \in Nat : UpTo(k) # {}
<1> DEFINE S == {k \in Nat : UpTo(k) # {}}
<1>1. ASSUME NEW k \in Nat, \A m \in 0..(k - 1) : m \in S
      PROVE  k \in S
  <2>1. PICK g \in [Nat -> [Nat -> Nat]] :
               \A a \in 0..(k - 1), b \in Nat : g[a][b] = Rhs(g, a, b)
    <3>1. CASE k = 0
      <4> DEFINE g == [a \in Nat |-> [b \in Nat |-> 0]]
      <4>1. g \in [Nat -> [Nat -> Nat]]
        OBVIOUS
      <4> HIDE DEF g
      <4>2. 0..(k - 1) = {}
        BY <3>1
      <4> QED  BY <4>1, <4>2
    <3>2. CASE k > 0
      <4>1. k - 1 \in 0..(k - 1)
        BY <3>2
      <4>2. UpTo(k - 1) # {}
        BY <1>1, <4>1
      <4> QED  BY <4>2 DEF UpTo
    <3>3. k = 0 \/ k > 0
      OBVIOUS
    <3> QED  BY <3>1, <3>2, <3>3, Zenon
  <2> DEFINE h == [a \in Nat |-> IF a = k THEN [b \in Nat |-> Rhs(g, k, b)] ELSE g[a]]
  <2>2. \A b \in Nat : Rhs(g, k, b) \in Nat
    <3> SUFFICES ASSUME NEW b \in Nat PROVE Rhs(g, k, b) \in Nat
      OBVIOUS
    <3>1. g[k \div 2][b \div 2] \in Nat
      <4>1. k \div 2 \in Nat /\ b \div 2 \in Nat
        BY Halves
      <4> QED  BY <4>1
    <3>2. (k % 2) * (b % 2) \in Nat
      <4>1. k % 2 \in {0, 1} /\ b % 2 \in {0, 1}
        BY Halves
      <4> QED  BY <4>1
    <3> DEFINE p == (k % 2) * (b % 2)
               q == g[k \div 2][b \div 2]
    <3>3. Rhs(g, k, b) = IF k = 0 \/ b = 0 THEN 0 ELSE 2 * q + p
      BY DEF Rhs
    <3> HIDE DEF p, q
    <3>4. p \in Nat /\ q \in Nat
      BY <3>1, <3>2 DEF p, q
    <3> QED  BY <3>3, <3>4
  <2>3. h \in [Nat -> [Nat -> Nat]]
    BY <2>2
  <2>4. \A a \in Nat, b \in Nat : h[a][b] = IF a = k THEN Rhs(g, k, b) ELSE g[a][b]
    OBVIOUS
  <2> HIDE DEF h
  <2>5. \A a \in 0..k, b \in Nat : Rhs(h, a, b) = Rhs(g, a, b)
    <3> SUFFICES ASSUME NEW a \in 0..k, NEW b \in Nat PROVE Rhs(h, a, b) = Rhs(g, a, b)
      OBVIOUS
    <3>1. CASE a = 0
      BY <3>1 DEF Rhs
    <3>2. CASE a > 0
      <4>1. a \div 2 \in Nat /\ b \div 2 \in Nat /\ a \div 2 # k
        BY <3>2, Halves
      <4>2. h[a \div 2][b \div 2] = g[a \div 2][b \div 2]
        BY <2>4, <4>1
      <4> QED  BY <4>2 DEF Rhs
    <3> QED  BY <3>1, <3>2
  <2>6. \A a \in 0..k, b \in Nat : h[a][b] = Rhs(h, a, b)
    <3> SUFFICES ASSUME NEW a \in 0..k, NEW b \in Nat PROVE h[a][b] = Rhs(g, a, b)
      BY <2>5
    <3>1. a = k \/ a \in 0..(k - 1)
      OBVIOUS
    <3>2. a \in Nat /\ b \in Nat
      OBVIOUS
    <3>3. h[a][b] = IF a = k THEN Rhs(g, k, b) ELSE g[a][b]
      BY <2>4, <3>2
    <3> QED  BY <2>1, <3>1, <3>3
  <2> QED  BY <2>3, <2>6 DEF UpTo
<1> HIDE DEF S
<1>2. \A k \in Nat : k \in S
  BY <1>1, Induction
<1> QED  BY <1>2 DEF S

LEMMA UpToAgree ==
    ASSUME NEW k \in Nat, NEW l \in Nat, NEW g \in UpTo(k), NEW h \in UpTo(l)
    PROVE  \A a \in Nat, b \in Nat : a <= k /\ a <= l => g[a][b] = h[a][b]
<1> DEFINE S == {a \in Nat : \A b \in Nat : a <= k /\ a <= l => g[a][b] = h[a][b]}
<1>1. ASSUME NEW a \in Nat, \A m \in 0..(a - 1) : m \in S
      PROVE  a \in S
  <2> SUFFICES ASSUME NEW b \in Nat, a <= k, a <= l PROVE g[a][b] = h[a][b]
    OBVIOUS
  <2>1. g[a][b] = Rhs(g, a, b) /\ h[a][b] = Rhs(h, a, b)
    BY DEF UpTo
  <2>2. CASE a = 0
    BY <2>1, <2>2 DEF Rhs
  <2>3. CASE a > 0
    <3>1. a \div 2 \in 0..(a - 1) /\ b \div 2 \in Nat
      BY <2>3, Halves
    <3>2. a \div 2 \in S
      BY <1>1, <3>1
    <3>3. g[a \div 2][b \div 2] = h[a \div 2][b \div 2]
      BY <3>1, <3>2
    <3> QED  BY <2>1, <3>3 DEF Rhs
  <2> QED  BY <2>2, <2>3
<1> HIDE DEF S
<1>2. \A a \in Nat : a \in S
  BY <1>1, Induction
<1> QED  BY <1>2 DEF S

(* The equation has a solution, so And is one.                             *)
LEMMA AndIs == \A a \in Nat, b \in Nat : And[a][b] = Rhs(And, a, b)
<1> DEFINE g(k) == CHOOSE h \in UpTo(k) : TRUE
           f == [a \in Nat |-> g(a)[a]]
<1>1. \A k \in Nat : g(k) \in UpTo(k)
  BY SomeUpTo
<1> HIDE DEF g
<1>2. \A a \in Nat, b \in Nat : f[a][b] = g(a)[a][b]
  OBVIOUS
<1>3. f \in [Nat -> [Nat -> Nat]]
  <2>1. \A a \in Nat : g(a)[a] \in [Nat -> Nat]
    <3> SUFFICES ASSUME NEW a \in Nat PROVE g(a)[a] \in [Nat -> Nat]
      OBVIOUS
    <3>1. g(a) \in [Nat -> [Nat -> Nat]]
      BY <1>1 DEF UpTo
    <3> QED  BY <3>1
  <2> QED  BY <2>1
<1> HIDE DEF f
<1>4. ASSUME NEW a \in Nat, NEW b \in Nat PROVE f[a][b] = Rhs(f, a, b)
  <2>1. f[a][b] = Rhs(g(a), a, b)
    <3>1. g(a) \in UpTo(a) /\ a \in 0..a
      BY <1>1
    <3>2. g(a)[a][b] = Rhs(g(a), a, b)
      BY <3>1 DEF UpTo
    <3> QED  BY <1>2, <3>2
  <2>2. CASE a = 0
    BY <2>1, <2>2 DEF Rhs
  <2>3. CASE a > 0
    <3>1. a \div 2 \in Nat /\ b \div 2 \in Nat /\ a \div 2 <= a
      BY Halves
    <3>2. g(a)[a \div 2][b \div 2] = g(a \div 2)[a \div 2][b \div 2]
      BY <1>1, <3>1, UpToAgree
    <3>3. f[a \div 2][b \div 2] = g(a)[a \div 2][b \div 2]
      BY <1>2, <3>1, <3>2
    <3> QED  BY <2>1, <3>3 DEF Rhs
  <2> QED  BY <2>2, <2>3
<1>5. f = [a \in Nat |-> [b \in Nat |-> Rhs(f, a, b)]]
  BY <1>3, <1>4
<1>6. And = CHOOSE h : h = [a \in Nat |-> [b \in Nat |-> Rhs(h, a, b)]]
  BY DEF And, Rhs
<1>7. And = [a \in Nat |-> [b \in Nat |-> Rhs(And, a, b)]]
  BY <1>5, <1>6
<1>8. \A a \in Nat, b \in Nat : And[a][b] = Rhs(And, a, b)
  BY <1>7
<1> QED  BY <1>8

(* The equation, with the last bits of both numbers split off.             *)
LEMMA AndBits ==
    ASSUME NEW a \in Nat, NEW b \in Nat
    PROVE  /\ BitAnd(a, b) \in 0..b
           /\ a = 0 \/ b = 0 => BitAnd(a, b) = 0
           /\ a # 0 /\ b # 0 =>
                BitAnd(a, b) = 2 * BitAnd(a \div 2, b \div 2)
                                 + (IF a % 2 = 1 /\ b % 2 = 1 THEN 1 ELSE 0)
<1> DEFINE Bit(x, y) == IF x % 2 = 1 /\ y % 2 = 1 THEN 1 ELSE 0
           P == {x \in Nat : \A y \in Nat : BitAnd(x, y) \in 0..y}
<1>1. \A x, y \in Nat : (x % 2) * (y % 2) = Bit(x, y)
  BY Halves
<1>2. \A x, y \in Nat :
        /\ x = 0 \/ y = 0 => BitAnd(x, y) = 0
        /\ x # 0 /\ y # 0 => BitAnd(x, y) = 2 * BitAnd(x \div 2, y \div 2) + Bit(x, y)
  <2> SUFFICES ASSUME NEW x \in Nat, NEW y \in Nat
               PROVE  BitAnd(x, y) = IF x = 0 \/ y = 0 THEN 0
                                     ELSE 2 * BitAnd(x \div 2, y \div 2) + Bit(x, y)
    OBVIOUS
  <2>1. And[x][y] = Rhs(And, x, y)
    BY AndIs
  <2>2. (x % 2) * (y % 2) = Bit(x, y)
    BY <1>1
  <2> HIDE DEF Bit
  <2> QED  BY <2>1, <2>2 DEF BitAnd, Rhs
<1>3. ASSUME NEW x \in Nat, \A m \in 0..(x - 1) : m \in P
      PROVE  x \in P
  <2> SUFFICES ASSUME NEW y \in Nat PROVE BitAnd(x, y) \in 0..y
    OBVIOUS
  <2>1. CASE x = 0 \/ y = 0
    BY <1>2, <2>1
  <2>2. CASE x # 0 /\ y # 0
    <3> DEFINE r == BitAnd(x \div 2, y \div 2)
    <3>1. x \div 2 \in 0..(x - 1) /\ y \div 2 \in Nat /\ y = 2 * (y \div 2) + (y % 2)
          /\ y % 2 \in {0, 1}
      BY <2>2, Halves
    <3>2. r \in 0..(y \div 2)
      BY <1>3, <3>1
    <3>3. BitAnd(x, y) = 2 * r + Bit(x, y)
      BY <1>2, <2>2
    <3> HIDE DEF r
    <3> QED  BY <3>1, <3>2, <3>3
  <2> QED  BY <2>1, <2>2
<1> HIDE DEF P
<1>4. \A x \in Nat : x \in P
  BY <1>3, Induction
<1>5. BitAnd(a, b) \in 0..b
  BY <1>4 DEF P
<1> QED  BY <1>2, <1>5

(* A power of two is one, or twice a power of two.                         *)
Pow2(n) == n \in Nat \ {0} /\ BitAnd(n, n - 1) = 0

LEMMA AndSelf == \A n \in Nat \ {0} : BitAnd(n, n) # 0
<1> DEFINE P == {n \in Nat : n # 0 => BitAnd(n, n) # 0}
<1>1. ASSUME NEW n \in Nat, \A m \in 0..(n - 1) : m \in P
      PROVE  n \in P
  <2> SUFFICES ASSUME n # 0 PROVE BitAnd(n, n) # 0
    OBVIOUS
  <2> DEFINE h == n \div 2
  <2>1. h \in 0..(n - 1) /\ n = 2 * h + (n % 2) /\ n % 2 \in {0, 1}
    BY Halves
  <2>2. BitAnd(h, h) \in Nat
    BY <2>1, AndBits
  <2>3. BitAnd(n, n) = 2 * BitAnd(h, h) + (IF n % 2 = 1 THEN 1 ELSE 0)
    BY AndBits
  <2>4. h # 0 => BitAnd(h, h) # 0
    BY <1>1, <2>1
  <2> HIDE DEF h
  <2> QED  BY <2>1, <2>2, <2>3, <2>4
<1> HIDE DEF P
<1>2. \A n \in Nat : n \in P
  BY <1>1, Induction
<1> QED  BY <1>2 DEF P

LEMMA Pow2Halves ==
    ASSUME NEW n, Pow2(n), n # 1
    PROVE  n = 2 * (n \div 2) /\ Pow2(n \div 2)
<1> DEFINE h == n \div 2
           k == (n - 1) \div 2
<1>1. n \in Nat /\ n >= 2 /\ n - 1 \in Nat
  BY DEF Pow2
<1>2. h \in Nat \ {0} /\ n = 2 * h + (n % 2) /\ n % 2 \in {0, 1}
  BY <1>1
<1>3. k \in Nat /\ n - 1 = 2 * k + ((n - 1) % 2) /\ (n - 1) % 2 \in {0, 1}
  BY <1>1
<1> DEFINE c == n - 1
           r == BitAnd(h, k)
<1>4. r \in Nat /\ BitAnd(n, c) = 0
  <2>1. r \in 0..k
    BY <1>2, <1>3, AndBits
  <2> QED  BY <1>3, <2>1 DEF Pow2
<1>5. BitAnd(h, k) = 0
  <2>1. c \in Nat /\ c # 0 /\ k = c \div 2 /\ n # 0
    BY <1>1
  <2> HIDE DEF c, k
  <2>2. BitAnd(n, c) = 2 * r + (IF n % 2 = 1 /\ c % 2 = 1 THEN 1 ELSE 0)
    BY <1>1, <2>1, AndBits
  <2> HIDE DEF r
  <2>3. r = 0
    BY <1>4, <2>2
  <2> QED  BY <2>3 DEF r
<1> HIDE DEF h, k, r, c
<1>6. n % 2 = 0
  <2> SUFFICES ASSUME n % 2 = 1 PROVE FALSE
    BY <1>2
  <2>1. k = h
    BY <1>2, <1>3
  <2> QED  BY <1>2, <1>5, <2>1, AndSelf
<1>7. k = h - 1
  BY <1>2, <1>3, <1>6
<1> QED  BY <1>2, <1>5, <1>6, <1>7 DEF Pow2, h

-----------------------------------------------------------------------------
(* A mask of a power of two takes the remainder.                           *)

LEMMA Remainder ==
    ASSUME NEW n \in Nat \ {0}, NEW q \in Nat, NEW r \in 0..(n - 1)
    PROVE  (n * q + r) % n = r
<1> DEFINE h == n * q + r
           p == h \div n
           s == h % n
<1>1. h \in Nat
  OBVIOUS
<1>2. h = n * p + s /\ p \in Int /\ s \in 0..(n - 1)
  <2> HIDE DEF h
  <2> QED  BY <1>1
<1> HIDE DEF p, s
<1>3. n * (p - q) = r - s
  BY <1>2
<1>4. p = q
  <2> DEFINE d == p - q
  <2>1. d \in Int /\ n * d = r - s /\ -n < r - s /\ r - s < n
    BY <1>2, <1>3
  <2> HIDE DEF d
  <2>2. d >= 1 => n * d >= n
    BY <2>1
  <2>3. d <= -1 => n * d <= -n
    BY <2>1
  <2>4. d = 0
    BY <1>2, <2>1, <2>2, <2>3
  <2> QED  BY <1>2, <2>4 DEF d
<1>5. s = r
  BY <1>2, <1>4
<1> QED  BY <1>5 DEF s

LEMMA MaskIsRemainder ==
    ASSUME NEW n, Pow2(n), NEW h \in Nat
    PROVE  BitAnd(h, n - 1) = h % n
<1> DEFINE P == {k \in Nat : Pow2(k) => \A x \in Nat : BitAnd(x, k - 1) = x % k}
<1>1. ASSUME NEW k \in Nat, \A m \in 0..(k - 1) : m \in P
      PROVE  k \in P
  <2> SUFFICES ASSUME Pow2(k), NEW x \in Nat PROVE BitAnd(x, k - 1) = x % k
    OBVIOUS
  <2>1. CASE k = 1
    <3>1. BitAnd(x, 0) = 0
      BY AndBits
    <3>2. x % 1 = 0
      OBVIOUS
    <3> QED  BY <2>1, <3>1, <3>2
  <2>2. CASE k # 1
    <3> DEFINE m == k \div 2
               y == x \div 2
               b == x % 2
               c == k - 1
    <3>1. k = 2 * m /\ Pow2(m)
      BY <2>2, Pow2Halves
    <3>2. m \in 0..(k - 1) /\ m \in Nat \ {0}
      BY <3>1 DEF Pow2
    <3>3. \A z \in Nat : BitAnd(z, m - 1) = z % m
      BY <1>1, <3>1, <3>2
    <3>4. y \in Nat /\ b \in {0, 1} /\ x = 2 * y + b
      BY Halves
    <3>5. c \in Nat /\ c # 0 /\ c % 2 = 1 /\ c \div 2 = m - 1
      <4> HIDE DEF m
      <4> QED  BY <3>1, <3>2
    <3>6. BitAnd(x, c) = 2 * (y % m) + b
      <4>1. CASE x = 0
        <5>1. y = 0 /\ b = 0 /\ 0 % m = 0
          BY <3>2, <4>1
        <5>2. BitAnd(x, c) = 0
          BY <3>5, <4>1, AndBits
        <5> QED  BY <5>1, <5>2
      <4>2. CASE x # 0
        <5>1. BitAnd(x, c) = 2 * BitAnd(y, c \div 2) + (IF x % 2 = 1 /\ c % 2 = 1 THEN 1 ELSE 0)
          BY <3>5, <4>2, AndBits
        <5>2. BitAnd(y, c \div 2) = y % m
          BY <3>3, <3>4, <3>5
        <5> QED  BY <3>4, <3>5, <5>1, <5>2
      <4> QED  BY <4>1, <4>2
    <3>7. x % k = 2 * (y % m) + b
      <4> DEFINE q == y \div m
                 r == y % m
      <4> HIDE DEF m, y, b, c
      <4>1. y = m * q + r /\ q \in Nat /\ r \in 0..(m - 1)
        BY <3>2, <3>4
      <4> HIDE DEF q
      <4>2. r \in 0..(m - 1)
        BY <4>1
      <4> HIDE DEF r
      <4>3. x = k * q + (2 * r + b) /\ 2 * r + b \in 0..(k - 1) /\ k \in Nat \ {0}
        BY <3>1, <3>2, <3>4, <4>1, <4>2
      <4>4. x % k = 2 * r + b
        BY <4>1, <4>3, Remainder
      <4> QED  BY <4>4 DEF r
    <3> QED  BY <3>6, <3>7
  <2> QED  BY <2>1, <2>2
<1> HIDE DEF P
<1>2. \A k \in Nat : k \in P
  BY <1>1, Induction
<1> QED  BY <1>2 DEF P, Pow2

(* Powers of two divide each other.                                        *)
LEMMA Pow2Divides ==
    ASSUME NEW n, Pow2(n), NEW w, Pow2(w), n <= w
    PROVE  \E k \in Nat : w = n * k
<1> DEFINE P == {m \in Nat : Pow2(m) =>
                   \A v \in Nat : Pow2(v) /\ m <= v => \E k \in Nat : v = m * k}
<1>1. ASSUME NEW m \in Nat, \A l \in 0..(m - 1) : l \in P
      PROVE  m \in P
  <2> SUFFICES ASSUME Pow2(m), NEW v \in Nat, Pow2(v), m <= v
               PROVE  \E k \in Nat : v = m * k
    OBVIOUS
  <2>1. CASE m = 1
    BY <2>1
  <2>2. CASE m # 1
    <3> DEFINE a == m \div 2
               b == v \div 2
    <3>1. m = 2 * a /\ Pow2(a)
      BY <2>2, Pow2Halves
    <3>2. v # 1
      BY <2>2 DEF Pow2
    <3>3. v = 2 * b /\ Pow2(b)
      BY <3>2, Pow2Halves
    <3> HIDE DEF a, b
    <3>4. a \in 0..(m - 1) /\ b \in Nat /\ a <= b
      BY <3>1, <3>3 DEF Pow2
    <3>5. PICK k \in Nat : b = a * k
      BY <1>1, <3>1, <3>3, <3>4
    <3>6. v = m * k
      BY <3>1, <3>3, <3>4, <3>5
    <3> QED  BY <3>6
  <2> QED  BY <2>1, <2>2
<1> HIDE DEF P
<1>2. \A m \in Nat : m \in P
  BY <1>1, Induction
<1> QED  BY <1>2 DEF P, Pow2

LEMMA Pow2Fours ==
    ASSUME NEW n, Pow2(n), n >= 4
    PROVE  n % 4 = 0
<1> DEFINE h == n \div 2
           g == h \div 2
<1>1. n = 2 * h /\ Pow2(h)
  BY Pow2Halves
<1>2. h # 1
  BY <1>1
<1>3. h = 2 * g /\ Pow2(g)
  BY <1>1, <1>2, Pow2Halves
<1> HIDE DEF h, g
<1> QED  BY <1>1, <1>3 DEF Pow2

(* Each remainder is that of as many numbers.                              *)
LEMMA RemaindersAreEven ==
    ASSUME NEW n \in Nat \ {0}, NEW k \in Nat, NEW i \in 0..(n - 1)
    PROVE  Cardinality({h \in 0..(n * k - 1) : h % n = i}) = k
<1> DEFINE S == 0..(k - 1)
           T == {h \in 0..(n * k - 1) : h % n = i}
           f == [q \in S |-> n * q + i]
<1>1. \A q \in S : n * q + i \in 0..(n * k - 1) /\ (n * q + i) % n = i
  <2> SUFFICES ASSUME NEW q \in S
               PROVE  n * q + i \in 0..(n * k - 1) /\ (n * q + i) % n = i
    OBVIOUS
  <2>1. n * q \in Nat /\ n * k \in Nat /\ n * (q + 1) = n * q + n
    OBVIOUS
  <2>2. n * (q + 1) <= n * k
    OBVIOUS
  <2>3. (n * q + i) % n = i
    BY Remainder
  <2> QED  BY <2>1, <2>2, <2>3
<1>2. f \in [S -> T]
  BY <1>1
<1>3. \A a, b \in S : f[a] = f[b] => a = b
  <2> SUFFICES ASSUME NEW a \in S, NEW b \in S, n * a + i = n * b + i
               PROVE  a = b
    OBVIOUS
  <2> QED  OBVIOUS
<1>4. \A h \in T : \E q \in S : f[q] = h
  <2> SUFFICES ASSUME NEW h \in T PROVE \E q \in S : n * q + i = h
    OBVIOUS
  <2> DEFINE q == h \div n
  <2>1. h \in Nat /\ h < n * k /\ h % n = i
    OBVIOUS
  <2>2. h = n * q + i /\ q \in Nat
    BY <2>1
  <2> HIDE DEF q
  <2>3. q < k
    <3> SUFFICES ASSUME q >= k PROVE FALSE
      BY <2>2
    <3>1. n * q >= n * k
      BY <2>2
    <3> QED  BY <2>1, <2>2, <3>1
  <2> QED  BY <2>2, <2>3
<1>5. f \in Bijection(S, T)
  BY <1>2, <1>3, <1>4 DEF Bijection, Injection, Surjection, IsInjective
<1>6. IsFiniteSet(S) /\ Cardinality(S) = k
  <2>1. IsFiniteSet(S) /\ Cardinality(S) = IF 0 > k - 1 THEN 0 ELSE (k - 1) - 0 + 1
    BY FS_Interval
  <2> QED  BY <2>1
<1> QED  BY <1>5, <1>6, FS_Bijection DEF ExistsBijection

(* get_shard of bigcache.cpp finds a shard for every hash, and the same    *)
(* number of hashes for every shard; and a cache with groups of shards has *)
(* no shards left over: what is_pow2 lets through divides 2^64.            *)
THEOREM RoutingIsEven == StartupSpec => []Routing
<1>1. ParamsInRange => Routing
  <2> SUFFICES ASSUME ParamsInRange, cache # NoCache
               PROVE  /\ \A hash \in 0..(Word64 - 1) : ShardOf(cache, hash) \in ShardIndices(cache)
                      /\ \A i \in ShardIndices(cache) :
                           Cardinality({hash \in 0..(Word64 - 1) : ShardOf(cache, hash) = i})
                             * cache.shards_cnt = Word64
                      /\ cache.shards_cnt >= 4 => cache.shards_cnt % 4 = 0
    BY DEF Routing
  <2> DEFINE n == cache.shards_cnt
  <2>1. n \in MinShards..MaxShards /\ IsPow2(n)
    BY DEF ParamsInRange, Valid
  <2>2. Word32 \in Nat /\ Word64 \in Nat \ {0} /\ Word32 <= Word64
    BY HelpersAssumption
  <2>3. n \in Nat \ {0} /\ n < Word32
    BY <2>1, <2>2, ConfigAssumption
  <2> HIDE DEF n
  <2>4. U32(n - 1) = n - 1
    BY <2>2, <2>3 DEF U32
  <2>5. Pow2(n)
    BY <2>1, <2>3, <2>4 DEF Pow2, IsPow2
  <2>6. Pow2(Word64)
    BY <2>2, WordIsPow2 DEF Pow2
  <2>7. PICK k \in Nat : Word64 = n * k
    BY <2>2, <2>3, <2>5, <2>6, Pow2Divides
  <2>8. \A hash \in 0..(Word64 - 1) : ShardOf(cache, hash) = hash % n
    BY <2>2, <2>5, MaskIsRemainder DEF ShardOf, Mask, n
  <2>9. \A hash \in 0..(Word64 - 1) : hash % n \in 0..(n - 1)
    BY <2>2, <2>3
  <2>10. ShardIndices(cache) = 0..(n - 1)
    BY DEF ShardIndices, n
  <2>11. ASSUME NEW i \in 0..(n - 1)
         PROVE  Cardinality({hash \in 0..(Word64 - 1) : ShardOf(cache, hash) = i}) * n = Word64
    <3>1. {hash \in 0..(Word64 - 1) : ShardOf(cache, hash) = i}
            = {hash \in 0..(n * k - 1) : hash % n = i}
      BY <2>7, <2>8
    <3>2. Cardinality({hash \in 0..(n * k - 1) : hash % n = i}) = k
      BY <2>3, RemaindersAreEven
    <3>3. k * n = Word64
      BY <2>3, <2>7
    <3> QED  BY <3>1, <3>2, <3>3
  <2>12. n >= 4 => n % 4 = 0
    BY <2>5, Pow2Fours
  <2> QED  BY <2>8, <2>9, <2>10, <2>11, <2>12 DEF n
<1> QED  BY <1>1, ParamsAlwaysInRange, PTL

(* The signs, by names: what is in quotes is nothing for the SMT solver.   *)
Opening == Sign("{")
Closing == Sign("}")
Colon == Sign(":")
Comma == Sign(",")
Space == Sign(" ")

NameOf(member) == Word("s", member[1])
ValueOf(member) == Word(member[2], member[3])

LEMMA TypeOfToken ==
    \A type, value : Type(Word(type, value)) = type /\ Type(Sign(type)) = type
BY DEF Type, Word, Sign

LEMMA TypeOfSign ==
    /\ Type(Opening) = "{" /\ Type(Closing) = "}" /\ Type(Colon) = ":" /\ Type(Comma) = ","
    /\ Type(Space) = " "
BY TypeOfToken, Zenon DEF Opening, Closing, Colon, Comma, Space

-----------------------------------------------------------------------------
(* One step of the parser: what it does to the innermost frame.            *)

IsFrame(f) ==
    {"offset", "i", "captured_len", "l", "left", "right", "data"} \subseteq DOMAIN f
Quiet == UNCHANGED <<text, json, stage>>
Counted(f, g) ==
    /\ IsFrame(g) /\ g.offset = f.offset
    /\ g.i = f.i + 1 /\ g.captured_len = f.captured_len + 1
Becomes(f, g, l, left, right) ==
    Counted(f, g) /\ g.data = f.data /\ g.l = l /\ g.left = left /\ g.right = right

LEMMA NextFrame ==
    ASSUME NEW f, IsFrame(f)
    PROVE  /\ Becomes(f, Next1(f), f.l, f.left, f.right)
           /\ Becomes(f, [Next1(f) EXCEPT !.l = FALSE], FALSE, f.left, f.right)
           /\ \A token :
                /\ Becomes(f, [Next1(f) EXCEPT !.left = Append(@, token)],
                           f.l, Append(f.left, token), f.right)
                /\ Becomes(f, [Next1(f) EXCEPT !.right = Append(@, token)],
                           f.l, f.left, Append(f.right, token))
BY DEF IsFrame, Next1, Counted, Becomes

FiledAs(f, g) ==
    LET type == RightType(f.right) IN
    /\ Counted(f, g) /\ g.l = TRUE /\ g.left = <<>> /\ g.right = <<>>
    /\ g.data = IF type = "null" THEN f.data
                ELSE With(f.data, <<type, Name(f.left)>>, RightValue(f.right))

LEMMA FiledFrame ==
    ASSUME NEW f, IsFrame(f)
    PROVE  FiledAs(f, Filed(f))
<1> DEFINE type == RightType(f.right)
           next == Next1(f)
           data == IF type = "null" THEN f.data
                   ELSE With(f.data, <<type, Name(f.left)>>, RightValue(f.right))
<1>1. Becomes(f, next, f.l, f.left, f.right)
  BY NextFrame
<1>2. Filed(f) = [next EXCEPT !.data = data, !.l = TRUE, !.left = <<>>, !.right = <<>>]
  <2>1. next.data = f.data
    BY <1>1 DEF Becomes
  <2>2. Filed(f) = [next EXCEPT !.data = IF type = "null" THEN next.data
                       ELSE With(next.data, <<type, Name(f.left)>>, RightValue(f.right)),
                     !.l = TRUE, !.left = <<>>, !.right = <<>>]
    BY DEF Filed
  <2> HIDE DEF next, type
  <2> QED  BY <2>1, <2>2
<1> DEFINE is == data
<1>3. is = data
  OBVIOUS
<1> HIDE DEF next, is
<1>4. Filed(f) = [next EXCEPT !.data = is, !.l = TRUE, !.left = <<>>, !.right = <<>>]
  BY <1>2, <1>3
<1>5. /\ Counted(f, Filed(f)) /\ Filed(f).l = TRUE
      /\ Filed(f).left = <<>> /\ Filed(f).right = <<>> /\ Filed(f).data = is
  BY <1>1, <1>4 DEF Becomes, Counted, IsFrame
<1> QED  BY <1>3, <1>5 DEF FiledAs

(* Which step a token allows, and what it does to the frame.               *)
LEMMA TokenRead ==
    ASSUME ParseStep, IsFrame(Top), ~(Top.i > Len(text))
    PROVE  LET f == Top
               token == text[f.i]
               type == Type(token) IN
           /\ type = " " \/ (type = "{" /\ f.i = f.offset) =>
                Quiet /\ \E g : SetTop(g) /\ Becomes(f, g, f.l, f.left, f.right)
           /\ type = "{" /\ f.i # f.offset => CallNested
           /\ type = ":" /\ f.l =>
                Quiet /\ \E g : SetTop(g) /\ Becomes(f, g, FALSE, f.left, f.right)
           /\ type \notin {" ", "{", "}", ",", ":"} /\ f.l =>
                Quiet /\ \E g : SetTop(g) /\ Becomes(f, g, f.l, Append(f.left, token), f.right)
           /\ type \notin {" ", "{", "}", ","} /\ ~f.l =>
                Quiet /\ \E g : SetTop(g) /\ Becomes(f, g, f.l, f.left, Append(f.right, token))
           /\ type = "," => Quiet /\ \E g : SetTop(g) /\ FiledAs(f, g)
           /\ type = "}" => \E g : Return(g) /\ FiledAs(f, g)
<1> DEFINE f == Top
           token == text[f.i]
           type == Type(token)
<1>0. \/ SkipSpace \/ ReadColon \/ EnterOwn \/ CallNested \/ ReadComma \/ ReadBrace
      \/ EndOfText \/ Collect
  BY DEF ParseStep
<1>1. ASSUME type = " " \/ (type = "{" /\ f.i = f.offset)
      PROVE  Quiet /\ \E g : SetTop(g) /\ Becomes(f, g, f.l, f.left, f.right)
  <2>1. SkipSpace \/ EnterOwn
    BY <1>0, <1>1, Zenon DEF ReadColon, CallNested, ReadComma, ReadBrace, EndOfText, Collect, Reads
  <2>2. SetTop(Next1(f)) /\ Quiet
    BY <2>1, Zenon DEF SkipSpace, EnterOwn, Quiet
  <2> QED  BY <2>2, NextFrame, Zenon
<1>2. ASSUME type = "{", f.i # f.offset PROVE CallNested
  BY <1>0, <1>2, Zenon DEF SkipSpace, ReadColon, EnterOwn, ReadComma, ReadBrace, EndOfText, Collect, Reads
<1>3. ASSUME type = ":", f.l
      PROVE  Quiet /\ \E g : SetTop(g) /\ Becomes(f, g, FALSE, f.left, f.right)
  <2>1. ReadColon
    BY <1>0, <1>3, Zenon
    DEF SkipSpace, EnterOwn, CallNested, ReadComma, ReadBrace, EndOfText, Collect, Reads
  <2>2. SetTop([Next1(f) EXCEPT !.l = FALSE]) /\ Quiet
    BY <2>1, Zenon DEF ReadColon, Quiet
  <2> QED  BY <2>2, NextFrame, Zenon
<1>4. ASSUME type \notin {" ", "{", "}", ","}, type = ":" => ~f.l
      PROVE  Quiet /\ SetTop(IF f.l THEN [Next1(f) EXCEPT !.left = Append(@, token)]
                             ELSE [Next1(f) EXCEPT !.right = Append(@, token)])
  <2>1. Collect
    BY <1>0, <1>4, Zenon
    DEF SkipSpace, EnterOwn, CallNested, ReadComma, ReadBrace, EndOfText, ReadColon, Reads
  <2> QED  BY <2>1, Zenon DEF Collect, Quiet
<1>5. ASSUME type \notin {" ", "{", "}", ",", ":"}, f.l
      PROVE  Quiet /\ \E g : SetTop(g) /\ Becomes(f, g, f.l, Append(f.left, token), f.right)
  <2>1. type \notin {" ", "{", "}", ","} /\ (type = ":" => ~f.l)
    BY <1>5, Zenon
  <2>2. Quiet /\ SetTop([Next1(f) EXCEPT !.left = Append(@, token)])
    BY <1>4, <1>5, <2>1, Zenon
  <2> QED  BY <2>2, NextFrame, Zenon
<1>6. ASSUME type \notin {" ", "{", "}", ","}, ~f.l
      PROVE  Quiet /\ \E g : SetTop(g) /\ Becomes(f, g, f.l, f.left, Append(f.right, token))
  <2>1. Quiet /\ SetTop([Next1(f) EXCEPT !.right = Append(@, token)])
    BY <1>4, <1>6, Zenon
  <2> QED  BY <2>1, NextFrame, Zenon
<1>7. ASSUME type = "," PROVE Quiet /\ \E g : SetTop(g) /\ FiledAs(f, g)
  <2>1. ReadComma
    BY <1>0, <1>7, Zenon
    DEF SkipSpace, EnterOwn, CallNested, ReadColon, ReadBrace, EndOfText, Collect, Reads
  <2> QED  BY <2>1, FiledFrame, Zenon DEF ReadComma, Quiet
<1>8. ASSUME type = "}" PROVE \E g : Return(g) /\ FiledAs(f, g)
  <2>1. ReadBrace
    BY <1>0, <1>8, Zenon
    DEF SkipSpace, EnterOwn, CallNested, ReadColon, ReadComma, EndOfText, Collect, Reads
  <2> QED  BY <2>1, FiledFrame, Zenon DEF ReadBrace
<1> QED  BY <1>1, <1>2, <1>3, <1>5, <1>6, <1>7, <1>8, Zenon

-----------------------------------------------------------------------------
(* Where the tokens of a text are, with a space behind each or without,    *)
(* and a frame that stands before one.                                     *)

Place(p, sp) == IF sp THEN 2 * p - 1 ELSE p
Token(t, p, sp, token) ==
    /\ Place(p, sp) <= Len(t) /\ t[Place(p, sp)] = token
    /\ sp => 2 * p <= Len(t) /\ t[2 * p] = Space
Before(t, i, p, sp) ==
    \/ i = Place(p, sp)
    \/ sp /\ i = Place(p, sp) - 1 /\ i <= Len(t) /\ t[i] = Space
Stands(f, t, sp, p, l, left, right) ==
    /\ IsFrame(f) /\ Before(t, f.i, p, sp)
    /\ f.l = l /\ f.left = left /\ f.right = right
Goes(f, sp, p, l, left, right) ==
    /\ Quiet
    /\ \E g : SetTop(g) /\ Counted(f, g) /\ g.data = f.data
              /\ Stands(g, text, sp, p, l, left, right)

LEMMA BehindToken ==
    ASSUME NEW t, NEW sp \in BOOLEAN, NEW p \in Nat \ {0}, NEW token, Token(t, p, sp, token)
    PROVE  Before(t, Place(p, sp) + 1, p + 1, sp)
<1>1. CASE sp
  BY <1>1 DEF Token, Before, Place
<1>2. CASE ~sp
  BY <1>2 DEF Before, Place
<1> QED  BY <1>1, <1>2

(* The space before a token is skipped, or the token is read.              *)
LEMMA TokenPassed ==
    ASSUME ParseStep, NEW f, Top = f, Len(text) \in Nat,
           NEW sp \in BOOLEAN, NEW p \in Nat \ {0}, NEW token, Token(text, p, sp, token),
           NEW l \in BOOLEAN, NEW left, NEW right, Stands(f, text, sp, p, l, left, right)
    PROVE  LET type == Type(token) IN
           \/ Goes(f, sp, p, l, left, right)
           \/ /\ type = "{" /\ Place(p, sp) = f.offset => Goes(f, sp, p + 1, l, left, right)
              /\ type = "{" /\ Place(p, sp) # f.offset => f.i = Place(p, sp) /\ CallNested
              /\ type = ":" /\ l => Goes(f, sp, p + 1, FALSE, left, right)
              /\ type \notin {" ", "{", "}", ",", ":"} /\ l =>
                   Goes(f, sp, p + 1, l, Append(left, token), right)
              /\ type \notin {" ", "{", "}", ","} /\ ~l =>
                   Goes(f, sp, p + 1, l, left, Append(right, token))
              /\ type = "," =>
                   Quiet /\ \E g : SetTop(g) /\ FiledAs(f, g)
                                   /\ Stands(g, text, sp, p + 1, TRUE, <<>>, <<>>)
              /\ type = "}" =>
                   f.i = Place(p, sp) /\ \E g : Return(g) /\ FiledAs(f, g)
<1> DEFINE type == Type(token)
           Here(q, k, m, r) == Stands(f, text, sp, q, k, m, r)
<1>1. IsFrame(f) /\ f.l = l /\ f.left = left /\ f.right = right
  BY DEF Stands
<1>2. f.i = Place(p, sp) \/ (f.i # Place(p, sp) /\ sp /\ f.i = Place(p, sp) - 1
                             /\ f.i <= Len(text) /\ text[f.i] = Space)
  BY DEF Stands, Before
<1>3. CASE f.i # Place(p, sp)
  <2>1. sp /\ f.i = Place(p, sp) - 1 /\ f.i <= Len(text) /\ text[f.i] = Space
    BY <1>2, <1>3
  <2>2. Type(text[Top.i]) = " "
    BY <2>1, TypeOfSign
  <2>3. Place(p, sp) \in Int /\ f.i + 1 = Place(p, sp) /\ ~(Top.i > Len(text))
    BY <2>1 DEF Place
  <2>4. PICK g : Quiet /\ SetTop(g) /\ Becomes(f, g, f.l, f.left, f.right)
    BY <1>1, <2>2, <2>3, TokenRead, Zenon
  <2>5. Stands(g, text, sp, p, l, left, right)
    BY <1>1, <2>3, <2>4 DEF Becomes, Counted, Stands, Before
  <2> QED  BY <2>4, <2>5 DEF Becomes, Goes
<1>4. CASE f.i = Place(p, sp)
  <2>1. text[Top.i] = token /\ ~(Top.i > Len(text)) /\ f.i \in Nat
    BY <1>4 DEF Token, Place
  <2>2. Before(text, f.i + 1, p + 1, sp)
    BY <1>4, BehindToken
  <2>3. ASSUME NEW k, NEW m, NEW r, Quiet, \E g : SetTop(g) /\ Becomes(f, g, k, m, r)
        PROVE  Goes(f, sp, p + 1, k, m, r)
    <3>1. PICK g : SetTop(g) /\ Becomes(f, g, k, m, r)
      BY <2>3
    <3>2. Stands(g, text, sp, p + 1, k, m, r)
      BY <2>2, <3>1 DEF Becomes, Counted, Stands
    <3> QED  BY <2>3, <3>1, <3>2 DEF Goes, Becomes
  <2>4. type = "{" /\ Place(p, sp) = f.offset => Goes(f, sp, p + 1, l, left, right)
    BY <1>1, <1>4, <2>1, <2>3, TokenRead, Zenon
  <2>5. type = "{" /\ Place(p, sp) # f.offset => f.i = Place(p, sp) /\ CallNested
    BY <1>1, <1>4, <2>1, TokenRead, Zenon
  <2>6. type = ":" /\ l => Goes(f, sp, p + 1, FALSE, left, right)
    BY <1>1, <2>1, <2>3, TokenRead, Zenon
  <2>7. type \notin {" ", "{", "}", ",", ":"} /\ l =>
          Goes(f, sp, p + 1, l, Append(left, token), right)
    BY <1>1, <2>1, <2>3, TokenRead, Zenon
  <2>8. type \notin {" ", "{", "}", ","} /\ ~l =>
          Goes(f, sp, p + 1, l, left, Append(right, token))
    BY <1>1, <2>1, <2>3, TokenRead, Zenon
  <2>9. ASSUME type = ","
        PROVE  Quiet /\ \E g : SetTop(g) /\ FiledAs(f, g)
                               /\ Stands(g, text, sp, p + 1, TRUE, <<>>, <<>>)
    <3>1. PICK g : Quiet /\ SetTop(g) /\ FiledAs(f, g)
      BY <1>1, <2>1, <2>9, TokenRead, Zenon
    <3>2. Stands(g, text, sp, p + 1, TRUE, <<>>, <<>>)
      BY <2>2, <3>1 DEF FiledAs, Counted, Stands
    <3> QED  BY <3>1, <3>2
  <2>10. type = "}" => f.i = Place(p, sp) /\ \E g : Return(g) /\ FiledAs(f, g)
    BY <1>1, <1>4, <2>1, TokenRead, Zenon
  <2> QED  BY <2>4, <2>5, <2>6, <2>7, <2>8, <2>9, <2>10, Zenon
<1> QED  BY <1>3, <1>4

-----------------------------------------------------------------------------
(* The members of an object, as they are in a text: the n-th has its name  *)
(* at token b[n].  The object itself opens at token o.  A value that is    *)
(* "none" is not even there.                                               *)

Words(member) == IF member[2] = "none" THEN <<>> ELSE <<ValueOf(member)>>
IsScalar(member) == member[2] \in {"s", "i", "f", "b", "null", "none"}

MemberLaid(t, member, sp, p, next) ==
    /\ Token(t, p, sp, NameOf(member)) /\ Token(t, p + 1, sp, Colon)
    /\ IF IsObject(member) THEN next >= p + 5 /\ Token(t, p + 2, sp, Opening)
       ELSE /\ IsScalar(member)
            /\ IF member[2] = "none" THEN next = p + 3
               ELSE next = p + 4 /\ Token(t, p + 2, sp, ValueOf(member))
Laid(t, ms, sp, o, b) ==
    /\ Len(t) \in Nat /\ sp \in BOOLEAN /\ o \in Nat \ {0} /\ Len(ms) \in Nat \ {0}
    /\ \A n \in 1..(Len(ms) + 1) : b[n] \in Nat /\ b[n] > o
    /\ b[1] = o + 1 /\ Token(t, o, sp, Opening)
    /\ \A n \in 1..Len(ms) :
         /\ MemberLaid(t, ms[n], sp, b[n], b[n + 1])
         /\ Token(t, b[n + 1] - 1, sp, IF n = Len(ms) THEN Closing ELSE Comma)

(* What has been read of the first n members.  In a text without spaces    *)
(* the member behind an object is lost; an object that is followed by      *)
(* another sign than a space or the end leaves a stray string.             *)
Type1(member) == RightType(Words(member))
RealKey(member) == IF IsObject(member) THEN <<"o", member[1]>> ELSE <<Type1(member), member[1]>>
Files(member) == IsObject(member) \/ Type1(member) # "null"
Behind(ms, sp, n) == ~sp /\ n > 1 /\ IsObject(ms[n - 1])
Stray(member) == <<"s", member[1]>>
CanStray(ms, sp, m) == IsObject(ms[m]) /\ (sp \/ m < Len(ms))
Distinct(ms, sp) ==
    /\ \A m, n \in 1..Len(ms) : m # n => RealKey(ms[m]) # RealKey(ms[n])
    /\ \A m, n \in 1..Len(ms) : CanStray(ms, sp, m) => Stray(ms[m]) # RealKey(ms[n])

ScalarRead(data, member) ==
    Files(member) => /\ RealKey(member) \in DOMAIN data
                     /\ data[RealKey(member)] = RightValue(Words(member))
ScalarsRead(data, ms) ==
    /\ IsFcn(data)
    /\ \A n \in 1..Len(ms) : ScalarRead(data, ms[n])
    /\ \A key \in DOMAIN data : \E n \in 1..Len(ms) : Files(ms[n]) /\ key = RealKey(ms[n])
MemberRead(data, member) ==
    IF IsObject(member)
    THEN RealKey(member) \in DOMAIN data /\ ScalarsRead(data[RealKey(member)], member[3])
    ELSE ScalarRead(data, member)
KeyKnown(data, ms, sp, n, key) ==
    \E m \in 1..n : \/ ~Behind(ms, sp, m) /\ Files(ms[m]) /\ key = RealKey(ms[m])
                    \/ CanStray(ms, sp, m) /\ key = Stray(ms[m])
Known(data, ms, sp, n) ==
    /\ IsFcn(data)
    /\ \A m \in 1..n : ~Behind(ms, sp, m) => MemberRead(data, ms[m])
    /\ \A key \in DOMAIN data : KeyKnown(data, ms, sp, n, key)

(* A member filed under its own key, a stray string, a member lost.        *)
LEMMA KnownWith ==
    ASSUME NEW ms, NEW sp, Len(ms) \in Nat, Distinct(ms, sp), NEW n \in 1..Len(ms),
           NEW data, Known(data, ms, sp, n - 1), ~Behind(ms, sp, n), NEW value, Files(ms[n]),
           IF IsObject(ms[n]) THEN ScalarsRead(value, ms[n][3])
           ELSE value = RightValue(Words(ms[n]))
    PROVE  Known(With(data, RealKey(ms[n]), value), ms, sp, n)
<1> DEFINE key == RealKey(ms[n])
<1>0. PICK new : new = With(data, key, value)
  OBVIOUS
<1>1. /\ IsFcn(new) /\ DOMAIN new = DOMAIN data \cup {key} /\ new[key] = value
      /\ \A k \in DOMAIN data : k # key => new[k] = data[k]
  BY <1>0 DEF With, IsFcn
<1>2. ASSUME NEW m \in 1..n, ~Behind(ms, sp, m) PROVE MemberRead(new, ms[m])
  <2>1. CASE m = n
    BY <1>1, <2>1 DEF MemberRead, ScalarRead
  <2>2. CASE m # n
    <3>1. m \in 1..(n - 1) /\ m \in 1..Len(ms)
      BY <2>2
    <3>2. MemberRead(data, ms[m]) /\ RealKey(ms[m]) # key
      BY <1>2, <2>2, <3>1 DEF Known, Distinct
    <3> QED  BY <1>1, <3>2 DEF MemberRead, ScalarRead
  <2> QED  BY <2>1, <2>2
<1>3. ASSUME NEW k \in DOMAIN new PROVE KeyKnown(new, ms, sp, n, k)
  <2>1. CASE k = key
    BY <2>1 DEF KeyKnown
  <2>2. CASE k # key
    <3>1. KeyKnown(data, ms, sp, n - 1, k) /\ new[k] = data[k]
      BY <1>1, <2>2 DEF Known
    <3>2. \A m \in 1..(n - 1) : m \in 1..n
      OBVIOUS
    <3> QED  BY <3>1, <3>2 DEF KeyKnown
  <2> QED  BY <2>1, <2>2
<1> QED  BY <1>0, <1>1, <1>2, <1>3 DEF Known

LEMMA KnownStray ==
    ASSUME NEW ms, NEW sp, Len(ms) \in Nat, Distinct(ms, sp), NEW n \in 1..Len(ms),
           NEW data, Known(data, ms, sp, n), NEW m \in 1..n, CanStray(ms, sp, m),
           NEW value
    PROVE  Known(With(data, Stray(ms[m]), value), ms, sp, n)
<1> DEFINE key == Stray(ms[m])
<1>0. PICK new : new = With(data, key, value)
  OBVIOUS
<1>1. /\ IsFcn(new) /\ DOMAIN new = DOMAIN data \cup {key} /\ new[key] = value
      /\ \A k \in DOMAIN data : k # key => new[k] = data[k]
  BY <1>0 DEF With, IsFcn
<1>2. ASSUME NEW j \in 1..n, ~Behind(ms, sp, j) PROVE MemberRead(new, ms[j])
  <2>1. MemberRead(data, ms[j]) /\ RealKey(ms[j]) # key
    <3>1. m \in 1..Len(ms) /\ j \in 1..Len(ms)
      OBVIOUS
    <3> QED  BY <1>2, <3>1 DEF Known, Distinct
  <2> QED  BY <1>1, <2>1 DEF MemberRead, ScalarRead
<1>3. ASSUME NEW k \in DOMAIN new PROVE KeyKnown(new, ms, sp, n, k)
  <2>1. CASE k = key
    BY <1>1, <2>1 DEF KeyKnown
  <2>2. CASE k # key
    <3>1. KeyKnown(data, ms, sp, n, k) /\ new[k] = data[k]
      BY <1>1, <2>2 DEF Known
    <3> QED  BY <3>1 DEF KeyKnown
  <2> QED  BY <2>1, <2>2
<1> QED  BY <1>0, <1>1, <1>2, <1>3 DEF Known

LEMMA KnownLost ==
    ASSUME NEW ms, NEW sp, NEW n \in Nat \ {0}, NEW data, Known(data, ms, sp, n - 1),
           Behind(ms, sp, n) \/ ~Files(ms[n])
    PROVE  Known(data, ms, sp, n)
<1>1. \A m \in 1..n : m \in 1..(n - 1) \/ m = n
  OBVIOUS
<1>2. \A m \in 1..(n - 1) : m \in 1..n
  OBVIOUS
<1>3. \A m \in 1..n : ~Behind(ms, sp, m) => MemberRead(data, ms[m])
  <2>1. ~Files(ms[n]) => MemberRead(data, ms[n])
    BY DEF MemberRead, Files, ScalarRead
  <2> QED  BY <1>1, <2>1 DEF Known
<1>4. \A key \in DOMAIN data : KeyKnown(data, ms, sp, n, key)
  BY <1>2 DEF Known, KeyKnown
<1> QED  BY <1>3, <1>4 DEF Known

-----------------------------------------------------------------------------
(* A call of unmarshal halfway through an object.                          *)

Plain(ms) == \A n \in 1..Len(ms) : ~IsObject(ms[n])
Apart(ms, sp) == \A n \in 1..Len(ms) : ~(Behind(ms, sp, n) /\ IsObject(ms[n]))

InStart(f, t, ms, sp, o) == Stands(f, t, sp, o, TRUE, <<>>, <<>>) /\ f.data = NoData
InName(f, t, ms, sp, b, n) ==
    /\ ~Behind(ms, sp, n) /\ Known(f.data, ms, sp, n - 1)
    /\ Stands(f, t, sp, b[n], TRUE, <<>>, <<>>)
InColon(f, t, ms, sp, b, n) ==
    /\ ~Behind(ms, sp, n) /\ Known(f.data, ms, sp, n - 1)
    /\ Stands(f, t, sp, b[n] + 1, TRUE, <<NameOf(ms[n])>>, <<>>)
InValue(f, t, ms, sp, b, n) ==
    /\ ~Behind(ms, sp, n) /\ Known(f.data, ms, sp, n - 1) /\ ms[n][2] # "none"
    /\ Stands(f, t, sp, b[n] + 2, FALSE, <<NameOf(ms[n])>>, <<>>)
InEnd(f, t, ms, sp, b, n) ==
    /\ ~Behind(ms, sp, n) /\ Known(f.data, ms, sp, n - 1) /\ ~IsObject(ms[n])
    /\ Stands(f, t, sp, b[n + 1] - 1, FALSE, <<NameOf(ms[n])>>, Words(ms[n]))
(* Behind an object: nothing resets what it is that is being read.         *)
InLost(f, t, ms, sp, b, n) ==
    /\ Behind(ms, sp, n) /\ Known(f.data, ms, sp, n - 1)
    /\ LET left == <<NameOf(ms[n - 1])>> IN
       \/ Stands(f, t, sp, b[n], FALSE, left, <<>>)
       \/ Stands(f, t, sp, b[n] + 1, FALSE, left, <<NameOf(ms[n])>>)
       \/ /\ ms[n][2] # "none"
          /\ Stands(f, t, sp, b[n] + 2, FALSE, left, Append(<<NameOf(ms[n])>>, Colon))
InStray(f, t, ms, sp, b, n) ==
    /\ Known(f.data, ms, sp, n) /\ (sp \/ ~IsObject(ms[n]))
    /\ \E m \in 1..n : \E right :
         /\ CanStray(ms, sp, m) /\ (right = <<>> \/ Len(right) >= 2)
         /\ Stands(f, t, sp, b[n + 1] - 1, FALSE, <<NameOf(ms[m])>>, right)
InOver(f, t, ms, sp) ==
    IsObject(ms[Len(ms)]) /\ IsFrame(f) /\ f.i \in Int /\ f.i > Len(t) /\ Known(f.data, ms, sp, Len(ms))

Inside(f, t, ms, sp, o, b) ==
    \/ InStart(f, t, ms, sp, o) \/ InOver(f, t, ms, sp)
    \/ \E n \in 1..Len(ms) :
         \/ InName(f, t, ms, sp, b, n) \/ InColon(f, t, ms, sp, b, n)
         \/ InValue(f, t, ms, sp, b, n) \/ InEnd(f, t, ms, sp, b, n)
         \/ InLost(f, t, ms, sp, b, n) \/ InStray(f, t, ms, sp, b, n)
Midway(f, t, ms, sp, o, b) ==
    /\ IsFrame(f) /\ f.offset = Place(o, sp) /\ f.offset \in Int
    /\ Plain(ms) => f.i \in Int /\ f.captured_len = f.i - f.offset
    /\ Inside(f, t, ms, sp, o, b)

GoesOn(ms, sp, o, b) == Quiet /\ \E g : SetTop(g) /\ Midway(g, text, ms, sp, o, b)
Returns(ms, sp, o, b) ==
    \E g : /\ Return(g) /\ Known(g.data, ms, sp, Len(ms))
           /\ Plain(ms) =>
                g.captured_len = Place(b[Len(ms) + 1] - 1, sp) + 1 - Place(o, sp)

(* One token further, and nothing filed.                                   *)
LEMMA GoesInside ==
    ASSUME NEW f, NEW ms, NEW sp, NEW o, NEW b, Midway(f, text, ms, sp, o, b),
           NEW p, NEW l, NEW left, NEW right, Goes(f, sp, p, l, left, right),
           \A g : Stands(g, text, sp, p, l, left, right) /\ g.data = f.data
                    => Inside(g, text, ms, sp, o, b)
    PROVE  GoesOn(ms, sp, o, b)
<1>1. PICK g : /\ SetTop(g) /\ Counted(f, g) /\ g.data = f.data
               /\ Stands(g, text, sp, p, l, left, right)
  BY DEF Goes
<1>2. Inside(g, text, ms, sp, o, b)
  BY <1>1
<1>3. Midway(g, text, ms, sp, o, b)
  BY <1>1, <1>2 DEF Midway, Counted
<1> QED  BY <1>1, <1>3 DEF GoesOn, Goes

(* A member filed, its comma or the brace read.                            *)
LEMMA FiledInside ==
    ASSUME NEW f, NEW ms, NEW sp, NEW o, NEW b, Midway(f, text, ms, sp, o, b),
           NEW n \in 1..Len(ms), Len(ms) \in Nat,
           ~Behind(ms, sp, n + 1), \A g : FiledAs(f, g) => Known(g.data, ms, sp, n)
    PROVE  /\ n # Len(ms) =>
                \A g : /\ FiledAs(f, g) /\ Stands(g, text, sp, b[n + 1], TRUE, <<>>, <<>>)
                       /\ Quiet /\ SetTop(g)
                       => GoesOn(ms, sp, o, b)
           /\ n = Len(ms) =>
                \A g : FiledAs(f, g) /\ f.i = Place(b[n + 1] - 1, sp) /\ Return(g)
                       => Returns(ms, sp, o, b)
<1>1. ASSUME n # Len(ms), NEW g, FiledAs(f, g), Quiet, SetTop(g),
             Stands(g, text, sp, b[n + 1], TRUE, <<>>, <<>>)
      PROVE  GoesOn(ms, sp, o, b)
  <2>0. Known(g.data, ms, sp, n)
    BY <1>1, Zenon
  <2>1. Known(g.data, ms, sp, n) /\ n + 1 \in 1..Len(ms) /\ (n + 1) - 1 = n
    BY <1>1, <2>0
  <2>2. InName(g, text, ms, sp, b, n + 1)
    BY <1>1, <2>1 DEF InName
  <2>3. Midway(g, text, ms, sp, o, b)
    BY <1>1, <2>1, <2>2 DEF Midway, FiledAs, Counted, Inside
  <2> QED  BY <1>1, <2>3 DEF GoesOn
<1>2. ASSUME n = Len(ms), NEW g, FiledAs(f, g), Return(g), f.i = Place(b[n + 1] - 1, sp)
      PROVE  Returns(ms, sp, o, b)
  <2>1. Known(g.data, ms, sp, Len(ms))
    BY <1>2
  <2>2. Plain(ms) => g.captured_len = Place(b[Len(ms) + 1] - 1, sp) + 1 - Place(o, sp)
    BY <1>2 DEF Midway, FiledAs, Counted
  <2> QED  BY <1>2, <2>1, <2>2 DEF Returns
<1> QED  BY <1>1, <1>2

(* What the parser reads next of a member of an object.                    *)
LEMMA LaidTokens ==
    ASSUME NEW ms, NEW sp, NEW o, NEW b, Laid(text, ms, sp, o, b), NEW n \in 1..Len(ms)
    PROVE  /\ Len(text) \in Nat /\ sp \in BOOLEAN /\ Len(ms) \in Nat \ {0}
           /\ b[n] \in Nat \ {0} /\ b[n] + 1 \in Nat \ {0} /\ b[n] + 2 \in Nat \ {0}
           /\ b[n + 1] - 1 \in Nat \ {0} /\ (b[n + 1] - 1) + 1 = b[n + 1]
           /\ (b[n] + 1) + 1 = b[n] + 2
           /\ Place(b[n] + 2, sp) # Place(o, sp)
           /\ Token(text, b[n], sp, NameOf(ms[n])) /\ Token(text, b[n] + 1, sp, Colon)
           /\ IsObject(ms[n]) => Token(text, b[n] + 2, sp, Opening)
           /\ ~IsObject(ms[n]) =>
                /\ IsScalar(ms[n])
                /\ ms[n][2] = "none" => b[n + 1] - 1 = b[n] + 2
                /\ ms[n][2] # "none" => /\ b[n + 1] - 1 = (b[n] + 2) + 1
                                        /\ Token(text, b[n] + 2, sp, ValueOf(ms[n]))
           /\ Token(text, b[n + 1] - 1, sp, IF n = Len(ms) THEN Closing ELSE Comma)
<1>1. b[n] \in Nat /\ b[n] > o /\ b[n + 1] \in Nat /\ b[n + 1] > o /\ o \in Nat \ {0}
  <2>1. n \in 1..(Len(ms) + 1) /\ n + 1 \in 1..(Len(ms) + 1)
    BY DEF Laid
  <2> QED  BY <2>1 DEF Laid
<1>2. Len(text) \in Nat /\ sp \in BOOLEAN /\ Len(ms) \in Nat \ {0}
  BY DEF Laid
<1>3. MemberLaid(text, ms[n], sp, b[n], b[n + 1])
  BY DEF Laid
<1>4. Token(text, b[n + 1] - 1, sp, IF n = Len(ms) THEN Closing ELSE Comma)
  BY DEF Laid
<1>5. Place(b[n] + 2, sp) # Place(o, sp)
  BY <1>1, <1>2 DEF Place
<1>6. /\ b[n] \in Nat \ {0} /\ b[n] + 1 \in Nat \ {0} /\ b[n] + 2 \in Nat \ {0}
      /\ b[n + 1] - 1 \in Nat \ {0} /\ (b[n + 1] - 1) + 1 = b[n + 1]
      /\ (b[n] + 1) + 1 = b[n] + 2
  BY <1>1
<1>7. /\ Token(text, b[n], sp, NameOf(ms[n])) /\ Token(text, b[n] + 1, sp, Colon)
      /\ IsObject(ms[n]) => Token(text, b[n] + 2, sp, Opening)
      /\ ~IsObject(ms[n]) =>
           /\ IsScalar(ms[n])
           /\ ms[n][2] = "none" => b[n + 1] = b[n] + 3
           /\ ms[n][2] # "none" => b[n + 1] = b[n] + 4 /\ Token(text, b[n] + 2, sp, ValueOf(ms[n]))
  BY <1>3, Zenon DEF MemberLaid
<1>8. /\ b[n + 1] = b[n] + 3 => b[n + 1] - 1 = b[n] + 2
      /\ b[n + 1] = b[n] + 4 => b[n + 1] - 1 = (b[n] + 2) + 1
  BY <1>1
<1> QED  BY <1>2, <1>4, <1>5, <1>6, <1>7, <1>8, Zenon

LEMMA TypesOfWords ==
    ASSUME NEW member
    PROVE  /\ Type(NameOf(member)) \notin {" ", "{", "}", ",", ":"}
           /\ IsScalar(member) => Type(ValueOf(member)) \notin {" ", "{", "}", ",", ":"}
           /\ Type(Colon) \notin {" ", "{", "}", ","}
<1>1. Type(NameOf(member)) = "s" /\ Type(ValueOf(member)) = member[2] /\ Type(Colon) = ":"
  BY TypeOfToken, TypeOfSign DEF NameOf, ValueOf
<1>2. "s" \notin {" ", "{", "}", ",", ":"} /\ ":" \notin {" ", "{", "}", ","}
  OBVIOUS
<1>3. IsScalar(member) => member[2] \notin {" ", "{", "}", ",", ":"}
  BY DEF IsScalar
<1> QED  BY <1>1, <1>2, <1>3

LEMMA StartStep ==
    ASSUME NEW f, NEW ms, NEW sp, NEW o, NEW b, Laid(text, ms, sp, o, b),
           ParseStep, Top = f, Midway(f, text, ms, sp, o, b), InStart(f, text, ms, sp, o)
    PROVE  GoesOn(ms, sp, o, b)
<1>1. /\ Len(text) \in Nat /\ sp \in BOOLEAN /\ o \in Nat \ {0} /\ Len(ms) \in Nat \ {0}
      /\ b[1] = o + 1 /\ Token(text, o, sp, Opening)
  BY DEF Laid
<1>2. Goes(f, sp, o, TRUE, <<>>, <<>>) \/ Goes(f, sp, o + 1, TRUE, <<>>, <<>>)
  <2>1. Stands(f, text, sp, o, TRUE, <<>>, <<>>) /\ f.offset = Place(o, sp)
    BY DEF InStart, Midway
  <2> QED  BY <1>1, <2>1, TokenPassed, TypeOfSign, Zenon
<1>3. CASE Goes(f, sp, o, TRUE, <<>>, <<>>)
  <2>1. \A g : Stands(g, text, sp, o, TRUE, <<>>, <<>>) /\ g.data = f.data
                 => Inside(g, text, ms, sp, o, b)
    BY DEF InStart, Inside
  <2> QED  BY <1>3, <2>1, GoesInside, Zenon
<1>4. CASE Goes(f, sp, o + 1, TRUE, <<>>, <<>>)
  <2>1. Known(f.data, ms, sp, 1 - 1) /\ ~Behind(ms, sp, 1) /\ 1 \in 1..Len(ms)
    BY <1>1 DEF InStart, Known, NoData, IsFcn, Behind
  <2>2. \A g : Stands(g, text, sp, o + 1, TRUE, <<>>, <<>>) /\ g.data = f.data
                 => InName(g, text, ms, sp, b, 1)
    BY <1>1, <2>1 DEF InName
  <2>3. \A g : Stands(g, text, sp, o + 1, TRUE, <<>>, <<>>) /\ g.data = f.data
                 => Inside(g, text, ms, sp, o, b)
    BY <2>1, <2>2 DEF Inside
  <2> QED  BY <1>4, <2>3, GoesInside, Zenon
<1> QED  BY <1>2, <1>3, <1>4

LEMMA NameStep ==
    ASSUME NEW f, NEW ms, NEW sp, NEW o, NEW b, Laid(text, ms, sp, o, b),
           ParseStep, Top = f, Midway(f, text, ms, sp, o, b),
           NEW n \in 1..Len(ms), InName(f, text, ms, sp, b, n)
    PROVE  GoesOn(ms, sp, o, b)
<1> DEFINE p == b[n]
           left == <<NameOf(ms[n])>>
<1>1. /\ Stands(f, text, sp, p, TRUE, <<>>, <<>>)
      /\ ~Behind(ms, sp, n) /\ Known(f.data, ms, sp, n - 1)
  BY DEF InName
<1>2. Goes(f, sp, p, TRUE, <<>>, <<>>) \/ Goes(f, sp, p + 1, TRUE, left, <<>>)
  <2>1. Append(<<>>, NameOf(ms[n])) = left
    OBVIOUS
  <2> HIDE DEF p, left
  <2>2. \/ Goes(f, sp, p, TRUE, <<>>, <<>>)
        \/ Goes(f, sp, p + 1, TRUE, Append(<<>>, NameOf(ms[n])), <<>>)
    <3>1. /\ Len(text) \in Nat /\ sp \in BOOLEAN /\ p \in Nat \ {0}
          /\ Token(text, p, sp, NameOf(ms[n]))
      BY LaidTokens DEF p
    <3> QED  BY <1>1, <3>1, TokenPassed, TypesOfWords, Zenon
  <2> QED  BY <2>1, <2>2
<1>3. \A g : Stands(g, text, sp, p, TRUE, <<>>, <<>>) /\ g.data = f.data
               => Inside(g, text, ms, sp, o, b)
  BY <1>1 DEF InName, Inside
<1>4. \A g : Stands(g, text, sp, p + 1, TRUE, left, <<>>) /\ g.data = f.data
               => Inside(g, text, ms, sp, o, b)
  BY <1>1 DEF InColon, Inside
<1> QED  BY <1>2, <1>3, <1>4, GoesInside, Zenon

LEMMA ColonStep ==
    ASSUME NEW f, NEW ms, NEW sp, NEW o, NEW b, Laid(text, ms, sp, o, b),
           ParseStep, Top = f, Midway(f, text, ms, sp, o, b),
           NEW n \in 1..Len(ms), InColon(f, text, ms, sp, b, n)
    PROVE  GoesOn(ms, sp, o, b)
<1> DEFINE p == b[n] + 1
           left == <<NameOf(ms[n])>>
<1>1. /\ Stands(f, text, sp, p, TRUE, left, <<>>)
      /\ ~Behind(ms, sp, n) /\ Known(f.data, ms, sp, n - 1)
  BY DEF InColon
<1>2. Goes(f, sp, p, TRUE, left, <<>>) \/ Goes(f, sp, p + 1, FALSE, left, <<>>)
  <2> HIDE DEF p, left
  <2>1. /\ Len(text) \in Nat /\ sp \in BOOLEAN /\ p \in Nat \ {0}
        /\ Token(text, p, sp, Colon)
    BY LaidTokens DEF p
  <2> QED  BY <1>1, <2>1, TokenPassed, TypeOfSign, Zenon
<1>3. \A g : Stands(g, text, sp, p, TRUE, left, <<>>) /\ g.data = f.data
               => Inside(g, text, ms, sp, o, b)
  BY <1>1 DEF InColon, Inside
<1>4. \A g : Stands(g, text, sp, p + 1, FALSE, left, <<>>) /\ g.data = f.data
               => Inside(g, text, ms, sp, o, b)
  <2> SUFFICES ASSUME NEW g, Stands(g, text, sp, p + 1, FALSE, left, <<>>), g.data = f.data
               PROVE  Inside(g, text, ms, sp, o, b)
    OBVIOUS
  <2>1. CASE ms[n][2] = "none"
    <3>1. p + 1 = b[n + 1] - 1 /\ Words(ms[n]) = <<>> /\ ~IsObject(ms[n])
      BY <2>1, LaidTokens DEF Words, IsObject
    <3>2. InEnd(g, text, ms, sp, b, n)
      BY <1>1, <3>1 DEF InEnd
    <3> QED  BY <3>2 DEF Inside
  <2>2. CASE ms[n][2] # "none"
    <3>1. p + 1 = b[n] + 2
      BY LaidTokens
    <3>2. InValue(g, text, ms, sp, b, n)
      BY <1>1, <2>2, <3>1 DEF InValue
    <3> QED  BY <3>2 DEF Inside
  <2> QED  BY <2>1, <2>2
<1> QED  BY <1>2, <1>3, <1>4, GoesInside, Zenon

(* The value is a word or an object.                                       *)
Calls(f, ms, sp, b, n) ==
    IsObject(ms[n]) /\ f.i = Place(b[n] + 2, sp) /\ CallNested

LEMMA ValueStep ==
    ASSUME NEW f, NEW ms, NEW sp, NEW o, NEW b, Laid(text, ms, sp, o, b),
           ParseStep, Top = f, Midway(f, text, ms, sp, o, b),
           NEW n \in 1..Len(ms), InValue(f, text, ms, sp, b, n)
    PROVE  GoesOn(ms, sp, o, b) \/ Calls(f, ms, sp, b, n)
<1> DEFINE p == b[n] + 2
           left == <<NameOf(ms[n])>>
           right == <<ValueOf(ms[n])>>
<1>1. /\ Stands(f, text, sp, p, FALSE, left, <<>>) /\ ms[n][2] # "none"
      /\ ~Behind(ms, sp, n) /\ Known(f.data, ms, sp, n - 1)
      /\ f.offset = Place(o, sp)
  BY DEF InValue, Midway
<1>2. \A g : Stands(g, text, sp, p, FALSE, left, <<>>) /\ g.data = f.data
               => Inside(g, text, ms, sp, o, b)
  BY <1>1 DEF InValue, Inside
<1>3. CASE IsObject(ms[n])
  <2>1. Goes(f, sp, p, FALSE, left, <<>>) \/ (f.i = Place(p, sp) /\ CallNested)
    <3>1. Place(p, sp) # f.offset
      BY <1>1, LaidTokens
    <3> HIDE DEF p, left
    <3>2. /\ Len(text) \in Nat /\ sp \in BOOLEAN /\ p \in Nat \ {0}
          /\ Token(text, p, sp, Opening)
      BY <1>3, LaidTokens DEF p
    <3> QED  BY <1>1, <3>1, <3>2, TokenPassed, TypeOfSign, Zenon
  <2> QED  BY <1>2, <1>3, <2>1, GoesInside, Zenon DEF Calls
<1>4. CASE ~IsObject(ms[n])
  <2>1. Goes(f, sp, p, FALSE, left, <<>>) \/ Goes(f, sp, p + 1, FALSE, left, right)
    <3>1. Append(<<>>, ValueOf(ms[n])) = right
      OBVIOUS
    <3> HIDE DEF p, left, right
    <3>2. \/ Goes(f, sp, p, FALSE, left, <<>>)
          \/ Goes(f, sp, p + 1, FALSE, left, Append(<<>>, ValueOf(ms[n])))
      <4>1. /\ Len(text) \in Nat /\ sp \in BOOLEAN /\ p \in Nat \ {0}
            /\ Token(text, p, sp, ValueOf(ms[n])) /\ IsScalar(ms[n])
        BY <1>1, <1>4, LaidTokens DEF p
      <4> QED  BY <1>1, <4>1, TokenPassed, TypesOfWords, Zenon
    <3> QED  BY <3>1, <3>2
  <2>2. \A g : Stands(g, text, sp, p + 1, FALSE, left, right) /\ g.data = f.data
                 => Inside(g, text, ms, sp, o, b)
    <3>1. p + 1 = b[n + 1] - 1 /\ right = Words(ms[n])
      BY <1>1, <1>4, LaidTokens DEF Words
    <3> HIDE DEF p, right
    <3> QED  BY <1>1, <1>4, <3>1 DEF InEnd, Inside
  <2> QED  BY <1>2, <2>1, <2>2, GoesInside, Zenon
<1> QED  BY <1>3, <1>4

(* The comma or the brace behind a member.                                 *)
LEMMA SignStep ==
    ASSUME NEW f, NEW ms, NEW sp, NEW o, NEW b, Laid(text, ms, sp, o, b),
           ParseStep, Top = f, Midway(f, text, ms, sp, o, b),
           NEW n \in 1..Len(ms), NEW left, NEW right,
           Stands(f, text, sp, b[n + 1] - 1, FALSE, left, right),
           \A g : Stands(g, text, sp, b[n + 1] - 1, FALSE, left, right) /\ g.data = f.data
                    => Inside(g, text, ms, sp, o, b),
           ~Behind(ms, sp, n + 1), \A g : FiledAs(f, g) => Known(g.data, ms, sp, n)
    PROVE  GoesOn(ms, sp, o, b) \/ Returns(ms, sp, o, b)
<1> DEFINE p == b[n + 1] - 1
           token == IF n = Len(ms) THEN Closing ELSE Comma
<1>1. /\ Len(text) \in Nat /\ sp \in BOOLEAN /\ p \in Nat \ {0} /\ p + 1 = b[n + 1]
      /\ Token(text, p, sp, token) /\ Len(ms) \in Nat
  BY LaidTokens
<1>2. Type(token) = IF n = Len(ms) THEN "}" ELSE ","
  BY TypeOfSign, Zenon
<1> HIDE DEF p, token
<1>3. \/ Goes(f, sp, p, FALSE, left, right)
      \/ n # Len(ms) /\ Quiet /\ \E g : SetTop(g) /\ FiledAs(f, g)
                                    /\ Stands(g, text, sp, p + 1, TRUE, <<>>, <<>>)
      \/ n = Len(ms) /\ f.i = Place(p, sp) /\ \E g : Return(g) /\ FiledAs(f, g)
  <2>1. Stands(f, text, sp, p, FALSE, left, right)
    BY DEF p
  <2>2. CASE n = Len(ms)
    <3>1. Type(token) = "}"
      BY <1>2, <2>2
    <3> QED  BY <1>1, <2>1, <2>2, <3>1, TokenPassed, Zenon
  <2>3. CASE n # Len(ms)
    <3>1. Type(token) = ","
      BY <1>2, <2>3
    <3> QED  BY <1>1, <2>1, <2>3, <3>1, TokenPassed, Zenon
  <2> QED  BY <2>2, <2>3
<1>4. CASE Goes(f, sp, p, FALSE, left, right)
  <2>1. GoesOn(ms, sp, o, b)
    BY <1>4, GoesInside, Zenon DEF p
  <2> QED  BY <2>1
<1>5. ASSUME n # Len(ms), Quiet, NEW g, SetTop(g), FiledAs(f, g),
             Stands(g, text, sp, p + 1, TRUE, <<>>, <<>>)
      PROVE  GoesOn(ms, sp, o, b)
  <2>1. Stands(g, text, sp, b[n + 1], TRUE, <<>>, <<>>)
    BY <1>1, <1>5
  <2> QED  BY <1>1, <1>5, <2>1, FiledInside, Zenon
<1>6. ASSUME n = Len(ms), f.i = Place(p, sp), NEW g, Return(g), FiledAs(f, g)
      PROVE  Returns(ms, sp, o, b)
  BY <1>1, <1>6, FiledInside, Zenon DEF p
<1> QED  BY <1>3, <1>4, <1>5, <1>6

LEMMA EndStep ==
    ASSUME NEW f, NEW ms, NEW sp, NEW o, NEW b, Laid(text, ms, sp, o, b), Distinct(ms, sp),
           ParseStep, Top = f, Midway(f, text, ms, sp, o, b),
           NEW n \in 1..Len(ms), InEnd(f, text, ms, sp, b, n)
    PROVE  GoesOn(ms, sp, o, b) \/ Returns(ms, sp, o, b)
<1> DEFINE left == <<NameOf(ms[n])>>
           right == Words(ms[n])
<1>1. /\ Stands(f, text, sp, b[n + 1] - 1, FALSE, left, right) /\ ~IsObject(ms[n])
      /\ ~Behind(ms, sp, n) /\ Known(f.data, ms, sp, n - 1)
  BY DEF InEnd
<1>2. Len(ms) \in Nat
  BY LaidTokens
<1>3. ~Behind(ms, sp, n + 1)
  <2>1. (n + 1) - 1 = n
    OBVIOUS
  <2> QED  BY <1>1, <2>1 DEF Behind
<1>4. ASSUME NEW g, FiledAs(f, g) PROVE Known(g.data, ms, sp, n)
  <2>1. f.left = left /\ f.right = right
    BY <1>1 DEF Stands
  <2>2. RightType(f.right) = Type1(ms[n]) /\ Name(f.left) = ms[n][1]
    BY <2>1 DEF Type1, Name, NameOf, Word
  <2>3. g.data = IF Type1(ms[n]) = "null" THEN f.data
                 ELSE With(f.data, RealKey(ms[n]), RightValue(Words(ms[n])))
    BY <1>1, <1>4, <2>1, <2>2, Zenon DEF FiledAs, RealKey
  <2>4. CASE Type1(ms[n]) = "null"
    <3>1. ~Files(ms[n]) /\ g.data = f.data
      BY <1>1, <2>3, <2>4 DEF Files
    <3> QED  BY <1>1, <1>2, <3>1, KnownLost
  <2>5. CASE Type1(ms[n]) # "null"
    <3>1. Files(ms[n]) /\ g.data = With(f.data, RealKey(ms[n]), RightValue(Words(ms[n])))
      BY <2>3, <2>5 DEF Files
    <3>2. Known(With(f.data, RealKey(ms[n]), RightValue(Words(ms[n]))), ms, sp, n)
      BY <1>1, <1>2, <3>1, KnownWith
    <3> QED  BY <3>1, <3>2
  <2> QED  BY <2>4, <2>5
<1>5. \A g : Stands(g, text, sp, b[n + 1] - 1, FALSE, left, right) /\ g.data = f.data
               => Inside(g, text, ms, sp, o, b)
  BY <1>1 DEF InEnd, Inside
<1> HIDE DEF left, right
<1> QED  BY <1>1, <1>3, <1>4, <1>5, SignStep, Zenon

LEMMA StrayStep ==
    ASSUME NEW f, NEW ms, NEW sp, NEW o, NEW b, Laid(text, ms, sp, o, b), Distinct(ms, sp),
           ParseStep, Top = f, Midway(f, text, ms, sp, o, b),
           NEW n \in 1..Len(ms), InStray(f, text, ms, sp, b, n)
    PROVE  GoesOn(ms, sp, o, b) \/ Returns(ms, sp, o, b)
<1>0. PICK m \in 1..n : \E right :
        /\ CanStray(ms, sp, m) /\ (right = <<>> \/ Len(right) >= 2)
        /\ Stands(f, text, sp, b[n + 1] - 1, FALSE, <<NameOf(ms[m])>>, right)
  BY Zenon DEF InStray
<1>1. PICK right :
        /\ CanStray(ms, sp, m) /\ (right = <<>> \/ Len(right) >= 2)
        /\ Stands(f, text, sp, b[n + 1] - 1, FALSE, <<NameOf(ms[m])>>, right)
  BY <1>0, Zenon
<1>2. Known(f.data, ms, sp, n) /\ (sp \/ ~IsObject(ms[n]))
  BY DEF InStray
<1> DEFINE left == <<NameOf(ms[m])>>
<1>3. Len(ms) \in Nat
  BY LaidTokens
<1>4. ~Behind(ms, sp, n + 1)
  <2>1. (n + 1) - 1 = n
    OBVIOUS
  <2> QED  BY <1>2, <2>1 DEF Behind
<1>5. ASSUME NEW g, FiledAs(f, g) PROVE Known(g.data, ms, sp, n)
  <2>1. f.left = left /\ f.right = right
    BY <1>1 DEF Stands
  <2>2. Len(right) # 1
    <3>1. Len(<<>>) = 0
      OBVIOUS
    <3>2. right = <<>> => Len(right) = 0
      BY <3>1, Zenon
    <3>3. Len(right) = 0 \/ Len(right) >= 2
      BY <1>1, <3>2, Zenon
    <3> QED  BY <3>3
  <2>3. RightType(right) = "s" /\ Name(left) = ms[m][1]
    BY <2>2 DEF RightType, Name, NameOf, Word
  <2>4. g.data = With(f.data, Stray(ms[m]), RightValue(right))
    BY <1>5, <2>1, <2>3, Zenon DEF FiledAs, Stray
  <2>5. Known(With(f.data, Stray(ms[m]), RightValue(right)), ms, sp, n)
    BY <1>1, <1>2, <1>3, KnownStray
  <2> QED  BY <2>4, <2>5
<1>6. \A g : Stands(g, text, sp, b[n + 1] - 1, FALSE, left, right) /\ g.data = f.data
               => Inside(g, text, ms, sp, o, b)
  BY <1>1, <1>2 DEF InStray, Inside
<1>7. Stands(f, text, sp, b[n + 1] - 1, FALSE, left, right)
  BY <1>1
<1> HIDE DEF left
<1> QED  BY <1>4, <1>5, <1>6, <1>7, SignStep, Zenon

LEMMA ThreeAppended ==
    \A x, y, z : /\ Append(<<>>, x) = <<x>>
                 /\ Len(Append(<<x>>, y)) >= 2 /\ Len(Append(Append(<<x>>, y), z)) >= 2
<1> SUFFICES ASSUME NEW x, NEW y, NEW z
             PROVE  /\ Append(<<>>, x) = <<x>>
                    /\ Len(Append(<<x>>, y)) >= 2 /\ Len(Append(Append(<<x>>, y), z)) >= 2
  OBVIOUS
<1> DEFINE S == {x, y, z}
           one == <<x>>
           two == Append(one, y)
<1>1. one \in Seq(S) /\ Len(one) = 1 /\ Append(<<>>, x) = one /\ y \in S /\ z \in S
  OBVIOUS
<1> HIDE DEF one, S
<1>2. two \in Seq(S) /\ Len(two) = Len(one) + 1
  BY <1>1, Longer, Zenon
<1> HIDE DEF two
<1>3. Len(Append(two, z)) = Len(two) + 1
  BY <1>1, <1>2, Longer, Zenon
<1> QED  BY <1>1, <1>2, <1>3 DEF one, two

LEMMA LostStep ==
    ASSUME NEW f, NEW ms, NEW sp, NEW o, NEW b, Laid(text, ms, sp, o, b), Apart(ms, sp),
           ParseStep, Top = f, Midway(f, text, ms, sp, o, b),
           NEW n \in 1..Len(ms), InLost(f, text, ms, sp, b, n)
    PROVE  GoesOn(ms, sp, o, b)
<1> DEFINE p == b[n]
           left == <<NameOf(ms[n - 1])>>
           one == <<NameOf(ms[n])>>
           two == Append(one, Colon)
           three == Append(two, ValueOf(ms[n]))
           Here(g, q, right) == Stands(g, text, sp, q, FALSE, left, right) /\ g.data = f.data
<1>1. Behind(ms, sp, n) /\ Known(f.data, ms, sp, n - 1) /\ ~IsObject(ms[n])
  BY DEF InLost, Apart
<1>2. Append(<<>>, NameOf(ms[n])) = one /\ Len(two) >= 2 /\ Len(three) >= 2
  BY ThreeAppended
<1>3. /\ Len(text) \in Nat /\ sp \in BOOLEAN /\ Len(ms) \in Nat
      /\ p \in Nat \ {0} /\ p + 1 \in Nat \ {0} /\ p + 2 \in Nat \ {0} /\ (p + 1) + 1 = p + 2
      /\ Token(text, p, sp, NameOf(ms[n])) /\ Token(text, p + 1, sp, Colon)
      /\ ms[n][2] = "none" => b[n + 1] - 1 = p + 2
      /\ ms[n][2] # "none" => b[n + 1] - 1 = (p + 2) + 1 /\ Token(text, p + 2, sp, ValueOf(ms[n]))
      /\ IsScalar(ms[n])
  BY <1>1, LaidTokens
<1>4. Known(f.data, ms, sp, n)
  BY <1>1, <1>3, KnownLost
<1>5. ASSUME NEW g, NEW right, Here(g, b[n + 1] - 1, right), Len(right) >= 2
      PROVE  Inside(g, text, ms, sp, o, b)
  <2>1. n - 1 \in 1..n /\ CanStray(ms, sp, n - 1)
    BY <1>1, <1>3 DEF Behind, CanStray
  <2>2. InStray(g, text, ms, sp, b, n)
    BY <1>1, <1>4, <1>5, <2>1 DEF InStray
  <2> QED  BY <2>2 DEF Inside
<1>6. \A g : Here(g, p, <<>>) => Inside(g, text, ms, sp, o, b)
  BY <1>1 DEF InLost, Inside
<1>7. \A g : Here(g, p + 1, one) => Inside(g, text, ms, sp, o, b)
  BY <1>1 DEF InLost, Inside
<1>8. \A g : Here(g, p + 2, two) => Inside(g, text, ms, sp, o, b)
  <2>1. CASE ms[n][2] = "none"
    <3>1. p + 2 = b[n + 1] - 1 /\ Len(two) >= 2
      BY <1>2, <1>3, <2>1
    <3> HIDE DEF two, Here, p
    <3>2. \A g : Here(g, p + 2, two) => Here(g, b[n + 1] - 1, two)
      BY <3>1
    <3> QED  BY <1>5, <3>1, <3>2, Zenon
  <2>2. CASE ms[n][2] # "none"
    BY <1>1, <2>2 DEF InLost, Inside
  <2> QED  BY <2>1, <2>2
<1>9. ms[n][2] # "none" => \A g : Here(g, (p + 2) + 1, three) => Inside(g, text, ms, sp, o, b)
  <2>1. ms[n][2] # "none" => (p + 2) + 1 = b[n + 1] - 1
    BY <1>3
  <2>2. Len(three) >= 2
    BY <1>2
  <2> HIDE DEF three, Here, p
  <2>3. ms[n][2] # "none" => \A g : Here(g, (p + 2) + 1, three) => Here(g, b[n + 1] - 1, three)
    BY <2>1
  <2> QED  BY <1>5, <2>2, <2>3, Zenon
<1> HIDE DEF p, left, one, two, three
<1>10. CASE Stands(f, text, sp, p, FALSE, left, <<>>)
  <2>1. \/ Goes(f, sp, p, FALSE, left, <<>>)
        \/ Goes(f, sp, p + 1, FALSE, left, Append(<<>>, NameOf(ms[n])))
    BY <1>3, <1>10, TokenPassed, TypesOfWords, Zenon
  <2> QED  BY <1>2, <1>6, <1>7, <2>1, GoesInside, Zenon
<1>11. CASE Stands(f, text, sp, p + 1, FALSE, left, one)
  <2>1. \/ Goes(f, sp, p + 1, FALSE, left, one)
        \/ Goes(f, sp, (p + 1) + 1, FALSE, left, Append(one, Colon))
    BY <1>3, <1>11, TokenPassed, TypesOfWords, Zenon
  <2>2. Goes(f, sp, p + 1, FALSE, left, one) \/ Goes(f, sp, p + 2, FALSE, left, two)
    BY <1>3, <2>1 DEF two
  <2> QED  BY <1>7, <1>8, <2>2, GoesInside, Zenon
<1>12. CASE ms[n][2] # "none" /\ Stands(f, text, sp, p + 2, FALSE, left, two)
  <2>1. \/ Goes(f, sp, p + 2, FALSE, left, two)
        \/ Goes(f, sp, (p + 2) + 1, FALSE, left, Append(two, ValueOf(ms[n])))
    BY <1>3, <1>12, TokenPassed, TypesOfWords, Zenon
  <2> QED  BY <1>8, <1>9, <1>12, <2>1, GoesInside, Zenon DEF three
<1> QED  BY <1>10, <1>11, <1>12 DEF InLost, p, left, one, two

LEMMA OverStep ==
    ASSUME NEW f, NEW ms, NEW sp, NEW o, NEW b, Laid(text, ms, sp, o, b),
           ParseStep, Top = f, InOver(f, text, ms, sp)
    PROVE  Returns(ms, sp, o, b)
<1>1. Return(f)
  <2>1. ~(f.i <= Len(text))
    BY DEF InOver, Laid
  <2> QED  BY <2>1, Zenon DEF ParseStep, SkipSpace, ReadColon, EnterOwn, CallNested, ReadComma,
                              ReadBrace, EndOfText, Collect, Reads, More
<1>2. ~Plain(ms)
  <2>1. Len(ms) \in 1..Len(ms)
    BY DEF Laid
  <2> QED  BY <2>1 DEF Plain, InOver
<1> QED  BY <1>1, <1>2 DEF Returns, InOver

LEMMA MidwayStep ==
    ASSUME NEW f, NEW ms, NEW sp, NEW o, NEW b, Laid(text, ms, sp, o, b), Distinct(ms, sp),
           Apart(ms, sp), ParseStep, Top = f, Midway(f, text, ms, sp, o, b)
    PROVE  \/ GoesOn(ms, sp, o, b) \/ Returns(ms, sp, o, b)
           \/ \E n \in 1..Len(ms) : InValue(f, text, ms, sp, b, n) /\ Calls(f, ms, sp, b, n)
<1>1. CASE InStart(f, text, ms, sp, o)
  BY <1>1, StartStep
<1>2. CASE InOver(f, text, ms, sp)
  BY <1>2, OverStep
<1>3. ASSUME NEW n \in 1..Len(ms), InName(f, text, ms, sp, b, n) PROVE GoesOn(ms, sp, o, b)
  BY <1>3, NameStep
<1>4. ASSUME NEW n \in 1..Len(ms), InColon(f, text, ms, sp, b, n) PROVE GoesOn(ms, sp, o, b)
  BY <1>4, ColonStep
<1>5. ASSUME NEW n \in 1..Len(ms), InValue(f, text, ms, sp, b, n)
      PROVE  GoesOn(ms, sp, o, b) \/ Calls(f, ms, sp, b, n)
  BY <1>5, ValueStep
<1>6. ASSUME NEW n \in 1..Len(ms), InEnd(f, text, ms, sp, b, n)
      PROVE  GoesOn(ms, sp, o, b) \/ Returns(ms, sp, o, b)
  BY <1>6, EndStep
<1>7. ASSUME NEW n \in 1..Len(ms), InLost(f, text, ms, sp, b, n) PROVE GoesOn(ms, sp, o, b)
  BY <1>7, LostStep
<1>8. ASSUME NEW n \in 1..Len(ms), InStray(f, text, ms, sp, b, n)
      PROVE  GoesOn(ms, sp, o, b) \/ Returns(ms, sp, o, b)
  BY <1>8, StrayStep
<1>9. Inside(f, text, ms, sp, o, b)
  BY DEF Midway
<1> QED  BY <1>1, <1>2, <1>3, <1>4, <1>5, <1>6, <1>7, <1>8, <1>9, Zenon DEF Inside

-----------------------------------------------------------------------------
(* A document with its objects, and the calls that are reading it.         *)

InnerLaid(t, ms, sp, b, n, c) ==
    LET inner == ms[n][3] IN
    /\ Laid(t, inner, sp, b[n] + 2, c) /\ Plain(inner) /\ Distinct(inner, sp)
    /\ c[Len(inner) + 1] = b[n + 1] - 1
AllLaid(t, ms, sp, b) ==
    /\ Laid(t, ms, sp, 1, b) /\ Distinct(ms, sp) /\ Apart(ms, sp)
    /\ ~sp => Len(t) = b[Len(ms) + 1] - 1
    /\ \A n \in 1..Len(ms) : IsObject(ms[n]) => \E c : InnerLaid(t, ms, sp, b, n, c)

Alone(fs, t, ms, sp, b) == \E f : fs = <<f>> /\ Midway(f, t, ms, sp, 1, b)
Calling(f, t, ms, sp, b, n) ==
    /\ IsObject(ms[n]) /\ f.offset = 1 /\ f.i = Place(b[n] + 2, sp)
    /\ InValue(f, t, ms, sp, b, n)
Nested(fs, t, ms, sp, b) ==
    \E n \in 1..Len(ms) : \E f, g, c :
      /\ fs = <<f, g>> /\ Calling(f, t, ms, sp, b, n)
      /\ InnerLaid(t, ms, sp, b, n, c) /\ Midway(g, t, ms[n][3], sp, b[n] + 2, c)
Parsing(fs, t, ms, sp, b) == Alone(fs, t, ms, sp, b) \/ Nested(fs, t, ms, sp, b)
Done(ms, sp) ==
    /\ Known(json', ms, sp, Len(ms)) /\ UNCHANGED text
    /\ stage' = IF stage = "parse" THEN "parsed" ELSE "reparsed"

LEMMA AppendedTwo == ASSUME NEW f, NEW h PROVE Append(<<f>>, h) = <<f, h>>
<1> DEFINE S == {f, h}
           s == Append(<<f>>, h)
           t == <<f, h>>
<1>1. <<f>> \in Seq(S) /\ h \in S /\ Len(<<f>>) = 1 /\ <<f>>[1] = f
  OBVIOUS
<1>2. s \in Seq(S) /\ Len(s) = 2 /\ s[1] = f /\ s[2] = h
  BY <1>1, AppendProperties
<1>3. t \in Seq(S) /\ Len(t) = 2 /\ t[1] = f /\ t[2] = h
  OBVIOUS
<1> HIDE DEF s, S, t
<1>4. \A i \in 1..Len(s) : s[i] = t[i]
  <2>1. \A i \in 1..2 : i = 1 \/ i = 2
    OBVIOUS
  <2> QED  BY <1>2, <1>3, <2>1
<1>5. s = t
  BY <1>2, <1>3, <1>4, SeqEqual
<1> QED  BY <1>5 DEF s, t

LEMMA OneFrame ==
    ASSUME NEW f, frames = <<f>>
    PROVE  Top = f /\ Len(frames) = 1 /\ \A g : SetTop(g) => frames' = <<g>>
BY DEF SetTop, Top

LEMMA TwoFrames ==
    ASSUME NEW f, NEW g, frames = <<f, g>>
    PROVE  Top = g /\ Len(frames) = 2 /\ frames[1] = f /\ \A h : SetTop(h) => frames' = <<f, h>>
BY DEF SetTop, Top

LEMMA AloneStep ==
    ASSUME NEW ms, NEW sp, NEW b, AllLaid(text, ms, sp, b), Alone(frames, text, ms, sp, b),
           ParseStep
    PROVE  (Quiet /\ Parsing(frames', text, ms, sp, b)) \/ Done(ms, sp)
<1>1. PICK f : frames = <<f>> /\ Midway(f, text, ms, sp, 1, b)
  BY DEF Alone
<1>2. Top = f /\ Len(frames) = 1 /\ \A g : SetTop(g) => frames' = <<g>>
  BY <1>1, OneFrame
<1>3. Laid(text, ms, sp, 1, b) /\ Distinct(ms, sp) /\ Apart(ms, sp)
  BY DEF AllLaid
<1>4. CASE GoesOn(ms, sp, 1, b)
  <2>1. PICK g : Quiet /\ SetTop(g) /\ Midway(g, text, ms, sp, 1, b)
    BY <1>4, Zenon DEF GoesOn
  <2> QED  BY <1>2, <2>1, Zenon DEF Parsing, Alone
<1>5. CASE Returns(ms, sp, 1, b)
  <2>1. PICK g : Return(g) /\ Known(g.data, ms, sp, Len(ms))
    BY <1>5, Zenon DEF Returns
  <2>2. json' = g.data /\ UNCHANGED text
        /\ stage' = IF stage = "parse" THEN "parsed" ELSE "reparsed"
    BY <1>2, <2>1, Zenon DEF Return
  <2> QED  BY <2>1, <2>2 DEF Done
<1>6. ASSUME NEW n \in 1..Len(ms), InValue(f, text, ms, sp, b, n), Calls(f, ms, sp, b, n)
      PROVE  Quiet /\ Nested(frames', text, ms, sp, b)
  <2> DEFINE h == [f EXCEPT !.captured_len = @ + 1]
             g == Frame(f.i)
  <2>1. IsObject(ms[n]) /\ f.i = Place(b[n] + 2, sp) /\ CallNested
    BY <1>6 DEF Calls
  <2>2. Quiet /\ frames' = Append([frames EXCEPT ![1].captured_len = @ + 1], g)
    BY <1>2, <2>1, Zenon DEF CallNested, Quiet
  <2>3. [frames EXCEPT ![1].captured_len = @ + 1] = <<h>>
    BY <1>1
  <2>4. frames' = <<h, g>>
    BY <2>2, <2>3, AppendedTwo
  <2>5. f.offset = 1 /\ IsFrame(f)
    <3>1. sp \in BOOLEAN
      BY <1>3 DEF Laid
    <3> QED  BY <1>1, <3>1 DEF Midway, Place
  <2>6. Calling(h, text, ms, sp, b, n)
    <3>1. /\ IsFrame(h) /\ h.offset = 1 /\ h.i = f.i /\ h.data = f.data
          /\ h.l = f.l /\ h.left = f.left /\ h.right = f.right
      BY <2>5 DEF IsFrame
    <3> HIDE DEF h
    <3> QED  BY <1>6, <2>1, <3>1 DEF Calling, InValue, Stands
  <2>7. PICK c : InnerLaid(text, ms, sp, b, n, c)
    BY <2>1 DEF AllLaid
  <2>8. Midway(g, text, ms[n][3], sp, b[n] + 2, c)
    <3>1. /\ IsFrame(g) /\ g.offset = f.i /\ g.i = f.i /\ g.captured_len = 0 /\ g.l = TRUE
          /\ g.left = <<>> /\ g.right = <<>> /\ g.data = NoData
      BY DEF Frame, IsFrame
    <3>2. f.i \in Int
      <4>1. b[n] \in Nat /\ sp \in BOOLEAN
        BY <1>3, LaidTokens
      <4> QED  BY <2>1, <4>1 DEF Place
    <3> HIDE DEF g
    <3>3. InStart(g, text, ms[n][3], sp, b[n] + 2)
      BY <2>1, <3>1 DEF InStart, Stands, Before
    <3> QED  BY <2>1, <3>1, <3>2, <3>3 DEF Midway, Inside
  <2> HIDE DEF g, h
  <2> QED  BY <2>2, <2>4, <2>6, <2>7, <2>8 DEF Nested
<1>7. \/ GoesOn(ms, sp, 1, b) \/ Returns(ms, sp, 1, b)
      \/ \E n \in 1..Len(ms) : InValue(f, text, ms, sp, b, n) /\ Calls(f, ms, sp, b, n)
  BY <1>1, <1>2, <1>3, MidwayStep
<1> QED  BY <1>4, <1>5, <1>6, <1>7 DEF Parsing

(* The caller of a call that returns has the object and is one token       *)
(* behind its closing brace, or two.                                       *)
LEMMA ReturnNested ==
    ASSUME NEW ms, NEW sp, NEW b, AllLaid(text, ms, sp, b), NEW n \in 1..Len(ms),
           NEW f, Calling(f, text, ms, sp, b, n), NEW c, InnerLaid(text, ms, sp, b, n, c),
           NEW data, NEW captured, ScalarsRead(data, ms[n][3]),
           captured = Place(c[Len(ms[n][3]) + 1] - 1, sp) + 1 - Place(b[n] + 2, sp),
           NEW g, g = [f EXCEPT !.data = With(@, <<"o", Name(f.left)>>, data),
                                !.i = @ + captured + 1]
    PROVE  Midway(g, text, ms, sp, 1, b)
<1>1. /\ IsObject(ms[n]) /\ f.offset = 1 /\ f.i = Place(b[n] + 2, sp) /\ IsFrame(f)
      /\ f.l = FALSE /\ f.left = <<NameOf(ms[n])>> /\ f.right = <<>>
      /\ ~Behind(ms, sp, n) /\ Known(f.data, ms, sp, n - 1)
  BY DEF Calling, InValue, Stands
<1>2. /\ Len(text) \in Nat /\ sp \in BOOLEAN /\ Len(ms) \in Nat /\ Distinct(ms, sp)
      /\ b[n] \in Nat /\ b[n + 1] - 1 \in Nat /\ (b[n + 1] - 1) + 1 = b[n + 1]
      /\ ~sp => Len(text) = b[Len(ms) + 1] - 1
  BY LaidTokens DEF AllLaid
<1>3. Name(f.left) = ms[n][1]
  BY <1>1 DEF Name, NameOf, Word
<1>4. /\ IsFrame(g) /\ g.offset = 1 /\ g.l = FALSE /\ g.left = <<NameOf(ms[n])>>
      /\ g.right = <<>> /\ g.i = f.i + captured + 1
      /\ g.data = With(f.data, <<"o", Name(f.left)>>, data)
  BY <1>1 DEF IsFrame
<1>5. Known(g.data, ms, sp, n)
  <2>1. RealKey(ms[n]) = <<"o", Name(f.left)>> /\ Files(ms[n])
    BY <1>1, <1>3 DEF RealKey, Files
  <2>2. Known(With(f.data, RealKey(ms[n]), data), ms, sp, n)
    BY <1>1, <1>2, <2>1, KnownWith
  <2> QED  BY <1>4, <2>1, <2>2
<1>6. g.i = Place((b[n + 1] - 1) - 1, sp) + 2
  <2>1. c[Len(ms[n][3]) + 1] = b[n + 1] - 1
    BY DEF InnerLaid
  <2>2. Place(b[n] + 2, sp) \in Int /\ Place((b[n + 1] - 1) - 1, sp) \in Int
    <3>1. \A p \in Int : Place(p, sp) \in Int
      BY DEF Place
    <3>2. b[n] + 2 \in Int /\ (b[n + 1] - 1) - 1 \in Int
      BY <1>2
    <3> QED  BY <3>1, <3>2
  <2> QED  BY <1>1, <1>4, <2>1, <2>2
<1>7. Inside(g, text, ms, sp, 1, b)
  <2>1. CASE sp
    <3>1. g.i = Place(b[n + 1] - 1, sp)
      BY <1>2, <1>6, <2>1 DEF Place
    <3>2. Stands(g, text, sp, b[n + 1] - 1, FALSE, <<NameOf(ms[n])>>, <<>>)
      BY <1>4, <3>1 DEF Stands, Before
    <3>3. CanStray(ms, sp, n) /\ n \in 1..n
      BY <1>1, <2>1 DEF CanStray
    <3>4. InStray(g, text, ms, sp, b, n)
      BY <1>5, <2>1, <3>2, <3>3 DEF InStray
    <3> QED  BY <3>4 DEF Inside
  <2>2. CASE ~sp
    <3>1. g.i = b[n + 1]
      BY <1>2, <1>6, <2>2 DEF Place
    <3>2. CASE n = Len(ms)
      <4>1. g.i \in Int /\ g.i > Len(text)
        BY <1>2, <2>2, <3>1, <3>2
      <4>2. InOver(g, text, ms, sp)
        BY <1>1, <1>4, <1>5, <3>2, <4>1 DEF InOver
      <4> QED  BY <4>2 DEF Inside
    <3>3. CASE n # Len(ms)
      <4>1. n + 1 \in 1..Len(ms) /\ (n + 1) - 1 = n /\ n + 1 > 1
        BY <1>2, <3>3
      <4>2. Behind(ms, sp, n + 1)
        BY <1>1, <2>2, <4>1 DEF Behind
      <4>3. Stands(g, text, sp, b[n + 1], FALSE, <<NameOf(ms[n])>>, <<>>)
        BY <1>4, <2>2, <3>1 DEF Stands, Before, Place
      <4>4. InLost(g, text, ms, sp, b, n + 1)
        BY <1>5, <4>1, <4>2, <4>3 DEF InLost
      <4> QED  BY <4>1, <4>4 DEF Inside
    <3> QED  BY <3>2, <3>3
  <2> QED  BY <2>1, <2>2, <1>2
<1>8. ~Plain(ms) /\ Place(1, sp) = 1
  BY <1>1, <1>2 DEF Plain, Place
<1> QED  BY <1>4, <1>7, <1>8 DEF Midway

LEMMA NestedStep ==
    ASSUME NEW ms, NEW sp, NEW b, AllLaid(text, ms, sp, b), Nested(frames, text, ms, sp, b),
           ParseStep
    PROVE  Quiet /\ Parsing(frames', text, ms, sp, b)
<1>0. PICK n \in 1..Len(ms) : \E f, g, c :
        /\ frames = <<f, g>> /\ Calling(f, text, ms, sp, b, n)
        /\ InnerLaid(text, ms, sp, b, n, c) /\ Midway(g, text, ms[n][3], sp, b[n] + 2, c)
  BY Zenon DEF Nested
<1>1. PICK f, g, c :
        /\ frames = <<f, g>> /\ Calling(f, text, ms, sp, b, n)
        /\ InnerLaid(text, ms, sp, b, n, c) /\ Midway(g, text, ms[n][3], sp, b[n] + 2, c)
  BY <1>0, Zenon
<1> DEFINE inner == ms[n][3]
           o == b[n] + 2
<1>2. /\ Top = g /\ Len(frames) = 2 /\ frames[1] = f
      /\ \A h : SetTop(h) => frames' = <<f, h>>
  BY <1>1, TwoFrames
<1>3. /\ Laid(text, inner, sp, o, c) /\ Plain(inner) /\ Distinct(inner, sp)
      /\ c[Len(inner) + 1] = b[n + 1] - 1
  BY <1>1 DEF InnerLaid
<1>4. Midway(g, text, inner, sp, o, c)
  BY <1>1
<1>5. Apart(inner, sp)
  BY <1>3 DEF Apart, Plain
<1> HIDE DEF inner, o
<1>6. \/ GoesOn(inner, sp, o, c) \/ Returns(inner, sp, o, c)
      \/ \E m \in 1..Len(inner) : InValue(g, text, inner, sp, c, m) /\ Calls(g, inner, sp, c, m)
  BY <1>2, <1>3, <1>4, <1>5, MidwayStep
<1>7. CASE GoesOn(inner, sp, o, c)
  <2>1. PICK h : Quiet /\ SetTop(h) /\ Midway(h, text, inner, sp, o, c)
    BY <1>7, Zenon DEF GoesOn
  <2>2. frames' = <<f, h>>
    BY <1>2, <2>1, Zenon
  <2> QED  BY <1>1, <2>1, <2>2, Zenon DEF Parsing, Nested, inner, o
<1>8. CASE Returns(inner, sp, o, c)
  <2>1. PICK h : /\ Return(h) /\ Known(h.data, inner, sp, Len(inner))
                 /\ h.captured_len = Place(c[Len(inner) + 1] - 1, sp) + 1 - Place(o, sp)
    BY <1>3, <1>8, Zenon DEF Returns
  <2> DEFINE new == [f EXCEPT !.data = With(@, <<"o", Name(f.left)>>, h.data),
                              !.i = @ + h.captured_len + 1]
  <2>2. Quiet /\ frames' = Append(SubSeq(frames, 1, 2 - 2), new)
    <3>1. Len(frames) # 1 /\ Len(frames) - 1 = 1 /\ frames[Len(frames) - 1] = f
      BY <1>2
    <3> QED  BY <1>2, <2>1, <3>1 DEF Return, Quiet
  <2>3. frames' = <<new>>
    <3> HIDE DEF new
    <3>1. SubSeq(<<f, g>>, 1, 2 - 2) = <<>> /\ Append(<<>>, new) = <<new>>
      OBVIOUS
    <3> QED  BY <1>1, <2>2, <3>1
  <2>4. ScalarsRead(h.data, inner)
    <3>1. \A m \in 1..Len(inner) : ~IsObject(inner[m]) /\ ~CanStray(inner, sp, m)
      BY <1>3 DEF Plain, CanStray
    <3>2. \A m \in 1..Len(inner) : ~Behind(inner, sp, m)
      <4>1. Len(inner) \in Nat
        BY <1>3 DEF Laid
      <4>2. \A m \in 1..Len(inner) : m > 1 => m - 1 \in 1..Len(inner)
        BY <4>1
      <4> QED  BY <3>1, <4>2 DEF Behind
    <3> QED  BY <2>1, <3>1, <3>2 DEF Known, KeyKnown, ScalarsRead, MemberRead
  <2>5. Midway(new, text, ms, sp, 1, b)
    BY <1>1, <2>1, <2>4, ReturnNested DEF inner, o
  <2> HIDE DEF new
  <2> QED  BY <2>2, <2>3, <2>5 DEF Parsing, Alone
<1>9. ~\E m \in 1..Len(inner) : Calls(g, inner, sp, c, m)
  BY <1>3 DEF Plain, Calls
<1> QED  BY <1>6, <1>7, <1>8, <1>9

-----------------------------------------------------------------------------
(* FlattenSeq, whose partial results are a recursive function: the i-th is *)
(* `seqs' up to its i-th element, one behind the other.                    *)
Joined(seqs, f, i) == IF i = 1 THEN seqs[i] ELSE f[i - 1] \o seqs[i]
Joins(seqs, T, n, f) == f \in [1..n -> Seq(T)] /\ \A i \in 1..n : f[i] = Joined(seqs, f, i)

LEMMA SomeJoined ==
    ASSUME NEW T, NEW n \in Nat, NEW seqs \in [1..n -> Seq(T)]
    PROVE  \E f : Joins(seqs, T, n, f)
<1> DEFINE Part(k, f) == f \in [1..k -> Seq(T)] /\ \A i \in 1..k : f[i] = Joined(seqs, f, i)
           S == {k \in Nat : k <= n => \E f : Part(k, f)}
<1>1. ASSUME NEW k \in Nat, \A m \in 0..(k - 1) : m \in S
      PROVE  k \in S
  <2> SUFFICES ASSUME k <= n PROVE \E f : Part(k, f)
    OBVIOUS
  <2>1. CASE k = 0
    <3> DEFINE f == [i \in 1..0 |-> <<>>]
    <3>1. Part(0, f)
      OBVIOUS
    <3> QED  BY <2>1, <3>1
  <2>2. CASE k > 0
    <3>1. k - 1 \in 0..(k - 1) /\ k - 1 <= n
      BY <2>2
    <3>2. PICK g : Part(k - 1, g)
      BY <1>1, <3>1
    <3> DEFINE f == [i \in 1..k |-> IF i = k THEN Joined(seqs, g, k) ELSE g[i]]
    <3>3. Joined(seqs, g, k) \in Seq(T)
      <4>1. seqs[k] \in Seq(T)
        BY <2>2
      <4>2. k # 1 => g[k - 1] \in Seq(T)
        BY <2>2, <3>2
      <4> QED  BY <4>1, <4>2, ConcatProperties DEF Joined
    <3>4. \A i \in 1..k : i # k => i \in 1..(k - 1)
      OBVIOUS
    <3>5. f \in [1..k -> Seq(T)]
      BY <3>2, <3>3, <3>4
    <3>6. \A i \in 1..k : f[i] = IF i = k THEN Joined(seqs, g, k) ELSE g[i]
      OBVIOUS
    <3> HIDE DEF f
    <3>7. \A i \in 1..k : Joined(seqs, f, i) = Joined(seqs, g, i)
      <4> SUFFICES ASSUME NEW i \in 1..k, i # 1 PROVE f[i - 1] = g[i - 1]
        BY DEF Joined
      <4> QED  BY <3>6
    <3>8. \A i \in 1..k : f[i] = Joined(seqs, f, i)
      BY <3>2, <3>4, <3>6, <3>7
    <3> QED  BY <3>5, <3>8
  <2>3. k = 0 \/ k > 0
    OBVIOUS
  <2> QED  BY <2>1, <2>2, <2>3, Zenon
<1> HIDE DEF S
<1>2. \A k \in Nat : k \in S
  BY <1>1, Induction
<1>3. \E f : Part(n, f)
  BY <1>2 DEF S
<1> QED  BY <1>3 DEF Joins

OneAfter(u, s, t) ==
    /\ Len(u) = Len(s) + Len(t)
    /\ \A p \in 1..(Len(s) + Len(t)) : u[p] = IF p <= Len(s) THEN s[p] ELSE t[p - Len(s)]

LEMMA ConcatIsOneAfter ==
    ASSUME NEW T, NEW s \in Seq(T), NEW t \in Seq(T)
    PROVE  s \o t \in Seq(T) /\ OneAfter(s \o t, s, t)
BY ConcatProperties DEF OneAfter

EndsAt(seqs, n, end) ==
    end[1] = Len(seqs[1]) /\ \A i \in 2..n : end[i] = end[i - 1] + Len(seqs[i])

LaidEnd(T, flat, seqs, n, end) ==
    /\ flat \in Seq(T) /\ Len(flat) = end[n]
    /\ \A j \in 1..n : \A r \in 1..Len(seqs[j]) : flat[(end[j] - Len(seqs[j])) + r] = seqs[j][r]

LEMMA FlattenedEnds ==
    ASSUME NEW T, NEW n \in Nat \ {0}, NEW seqs \in [1..n -> Seq(T)],
           NEW end \in [1..n -> Nat], EndsAt(seqs, n, end)
    PROVE  LaidEnd(T, FlattenSeq(seqs), seqs, n, end)
<1>0. end[1] = Len(seqs[1]) /\ \A i \in 2..n : end[i] = end[i - 1] + Len(seqs[i])
  BY Zenon DEF EndsAt
<1> USE <1>0
<1> DEFINE Is(f) == f = [i \in 1..n |-> IF i = 1 THEN seqs[i] ELSE f[i - 1] \o seqs[i]]
           g == CHOOSE f : Is(f)
<1>1. FlattenSeq(seqs) = g[n]
  <2>1. Len(seqs) = n
    OBVIOUS
  <2> QED  BY <2>1 DEF FlattenSeq
<1>2. Is(g)
  <2>1. PICK f : Joins(seqs, T, n, f)
    BY SomeJoined
  <2>2. Is(f)
    BY <2>1 DEF Joins, Joined
  <2> HIDE DEF Is
  <2> QED  BY <2>2
<1> HIDE DEF g
<1>3. \A i \in 1..n : g[i] = Joined(seqs, g, i)
  BY <1>2 DEF Joined
<1> HIDE DEF Is
<1> DEFINE Right(i) ==
             /\ g[i] \in Seq(T) /\ Len(g[i]) = end[i]
             /\ \A j \in 1..i : \A r \in 1..Len(seqs[j]) :
                   g[i][(end[j] - Len(seqs[j])) + r] = seqs[j][r]
             /\ \A j \in 1..i : end[j] <= end[i]
           S == {i \in Nat : i \in 1..n => Right(i)}
<1>4. ASSUME NEW i \in Nat, \A m \in 0..(i - 1) : m \in S
      PROVE  i \in S
  <2> SUFFICES ASSUME i \in 1..n PROVE Right(i)
    OBVIOUS
  <2>1. \A j \in 1..n : seqs[j] \in Seq(T) /\ Len(seqs[j]) \in Nat /\ end[j] \in Nat
    OBVIOUS
  <2>2. CASE i = 1
    <3>1. g[1] = seqs[1]
      BY <1>3, <2>2 DEF Joined
    <3>2. \A j \in 1..1 : j = 1
      OBVIOUS
    <3>3. (end[1] - Len(seqs[1])) = 0
      BY <2>1
    <3>4. \A r \in 1..Len(seqs[1]) : g[1][(end[1] - Len(seqs[1])) + r] = seqs[1][r]
      BY <2>1, <3>1, <3>3
    <3> QED  BY <2>1, <2>2, <3>1, <3>2, <3>4
  <2>3. CASE i # 1
    <3>1. Right(i - 1)
      <4>1. i - 1 \in 0..(i - 1) /\ i - 1 \in 1..n
        BY <2>3
      <4> QED  BY <1>4, <4>1
    <3>2. g[i] = g[i - 1] \o seqs[i] /\ i \in 2..n
      <4>1. g[i] = Joined(seqs, g, i)
        BY <1>3
      <4>2. g[i] = g[i - 1] \o seqs[i]
        BY <2>3, <4>1 DEF Joined
      <4>3. i \in 2..n
        BY <2>3
      <4> QED  BY <4>2, <4>3
    <3>3. /\ g[i] \in Seq(T) /\ Len(g[i]) = end[i - 1] + Len(seqs[i])
          /\ \A p \in 1..(end[i - 1] + Len(seqs[i])) :
                g[i][p] = IF p <= end[i - 1] THEN g[i - 1][p] ELSE seqs[i][p - end[i - 1]]
      <4>1. g[i - 1] \in Seq(T) /\ seqs[i] \in Seq(T) /\ Len(g[i - 1]) = end[i - 1]
        BY <2>1, <3>1
      <4> DEFINE s1 == g[i - 1]
                 s2 == seqs[i]
      <4>2. s1 \in Seq(T) /\ s2 \in Seq(T) /\ Len(s1) = end[i - 1] /\ g[i] = s1 \o s2
        BY <3>2, <4>1
      <4> HIDE DEF s1, s2
      <4>3. g[i] \in Seq(T) /\ OneAfter(g[i], s1, s2)
        BY <4>2, ConcatIsOneAfter
      <4>4. /\ g[i] \in Seq(T) /\ Len(g[i]) = end[i - 1] + Len(s2)
            /\ \A p \in 1..(end[i - 1] + Len(s2)) :
                  g[i][p] = IF p <= end[i - 1] THEN s1[p] ELSE s2[p - end[i - 1]]
        BY <4>2, <4>3 DEF OneAfter
      <4> QED  BY <4>4 DEF s1, s2
    <3>4. end[i] = end[i - 1] + Len(seqs[i]) /\ end[i - 1] \in Nat /\ i - 1 \in 1..n
      BY <3>2, <2>1
    <3>5. ASSUME NEW j \in 1..(i - 1), NEW r \in 1..Len(seqs[j])
          PROVE  g[i][(end[j] - Len(seqs[j])) + r] = seqs[j][r]
      <4> DEFINE p == (end[j] - Len(seqs[j])) + r
      <4>1. p \in 1..end[i - 1]
        <5>1. end[j] <= end[i - 1] /\ j \in 1..n
          BY <3>1
        <5>2. end[j] \in Nat /\ end[j] - Len(seqs[j]) \in Nat
          <6>1. j = 1 => end[j] - Len(seqs[j]) = 0
            BY <2>1, <5>1
          <6>2. j # 1 => end[j] - Len(seqs[j]) = end[j - 1] /\ j - 1 \in 1..n
            <7>1. j # 1 => j \in 2..n
              BY <5>1
            <7>2. j # 1 => end[j] = end[j - 1] + Len(seqs[j]) /\ j - 1 \in 1..n
              BY <5>1, <7>1
            <7> QED  BY <2>1, <5>1, <7>2
          <6> QED  BY <2>1, <5>1, <6>1, <6>2
        <5>3. Len(seqs[j]) \in Nat
          BY <2>1, <5>1
        <5> DEFINE e == end[j]
                   l == Len(seqs[j])
        <5>4. e \in Nat /\ l \in Nat /\ e - l \in Nat /\ e <= end[i - 1] /\ r \in 1..l
          BY <5>1, <5>2, <5>3
        <5> HIDE DEF e, l
        <5>5. (e - l) + r \in 1..end[i - 1]
          BY <3>4, <5>4
        <5> QED  BY <5>5 DEF e, l
      <4>2. g[i - 1][p] = seqs[j][r]
        BY <3>1
      <4>3. p \in 1..(end[i - 1] + Len(seqs[i])) /\ p <= end[i - 1]
        BY <2>1, <3>4, <4>1
      <4> HIDE DEF p
      <4>4. g[i][p] = g[i - 1][p]
        BY <3>3, <4>3
      <4> QED  BY <4>2, <4>4 DEF p
    <3>6. ASSUME NEW r \in 1..Len(seqs[i])
          PROVE  g[i][(end[i] - Len(seqs[i])) + r] = seqs[i][r]
      <4>1. (end[i] - Len(seqs[i])) + r = end[i - 1] + r
        BY <2>1, <3>4
      <4>2. end[i - 1] + r \in 1..(end[i - 1] + Len(seqs[i])) /\ ~(end[i - 1] + r <= end[i - 1])
            /\ (end[i - 1] + r) - end[i - 1] = r
        BY <2>1, <3>4
      <4> QED  BY <3>3, <4>1, <4>2
    <3>7. \A j \in 1..i : j = i \/ j \in 1..(i - 1)
      OBVIOUS
    <3>8. \A j \in 1..i : end[j] <= end[i]
      <4>1. \A j \in 1..(i - 1) : end[j] <= end[i - 1] /\ end[j] \in Nat
        <5>1. \A j \in 1..(i - 1) : j \in 1..n
          BY <3>4
        <5> QED  BY <2>1, <3>1, <5>1
      <4>2. Len(seqs[i]) \in Nat /\ end[i] \in Nat
        BY <2>1
      <4> SUFFICES ASSUME NEW j \in 1..i PROVE end[j] <= end[i]
        OBVIOUS
      <4>3. CASE j = i
        BY <4>2, <4>3
      <4>4. CASE j \in 1..(i - 1)
        BY <3>4, <4>1, <4>2, <4>4
      <4> QED  BY <3>7, <4>3, <4>4
    <3> QED  BY <3>3, <3>4, <3>5, <3>6, <3>7, <3>8
  <2> QED  BY <2>2, <2>3
<1> HIDE DEF S
<1>5. \A i \in Nat : i \in S
  BY <1>4, Induction
<1>6. Right(n)
  <2>1. n \in S /\ n \in 1..n
    BY <1>5
  <2> HIDE DEF Right
  <2> QED  BY <2>1 DEF S
<1>7. LaidEnd(T, g[n], seqs, n, end)
  BY <1>6, Zenon DEF LaidEnd
<1> QED  BY <1>1, <1>7, Zenon

LEMMA SomeEnds ==
    ASSUME NEW T, NEW n \in Nat \ {0}, NEW seqs \in [1..n -> Seq(T)]
    PROVE  \E end \in [1..n -> Nat] :
             /\ end[1] = Len(seqs[1])
             /\ \A i \in 2..n : end[i] = end[i - 1] + Len(seqs[i])
<1>1. PICK f : Joins(seqs, T, n, f)
  BY SomeJoined
<1> DEFINE end == [i \in 1..n |-> Len(f[i])]
<1>2. f \in [1..n -> Seq(T)] /\ \A i \in 1..n : f[i] = Joined(seqs, f, i)
  BY <1>1 DEF Joins
<1>3. end \in [1..n -> Nat]
  BY <1>2
<1>4. end[1] = Len(seqs[1])
  BY <1>2 DEF Joined
<1>5. ASSUME NEW i \in 2..n PROVE end[i] = end[i - 1] + Len(seqs[i])
  <2>1. i \in 1..n /\ i - 1 \in 1..n /\ i # 1
    OBVIOUS
  <2>2. f[i - 1] \in Seq(T) /\ seqs[i] \in Seq(T) /\ f[i] = f[i - 1] \o seqs[i]
    BY <1>2, <2>1 DEF Joined
  <2>3. Len(f[i - 1] \o seqs[i]) = Len(f[i - 1]) + Len(seqs[i])
    BY <2>2, ConcatIsOneAfter, Zenon DEF OneAfter
  <2> QED  BY <2>1, <2>2, <2>3
<1> QED  BY <1>3, <1>4, <1>5

LEMMA EndsGrow ==
    ASSUME NEW T, NEW N \in Nat \ {0}, NEW s \in [1..N -> Seq(T)], NEW end \in [1..N -> Nat],
           \A i \in 2..N : end[i] = end[i - 1] + Len(s[i]), NEW n \in 1..N
    PROVE  end[n] <= end[N]
<1> DEFINE Q == {k \in Nat : n + k <= N => end[n] <= end[n + k]}
<1>1. ASSUME NEW k \in Nat, \A m \in 0..(k - 1) : m \in Q
      PROVE  k \in Q
  <2> SUFFICES ASSUME n + k <= N PROVE end[n] <= end[n + k]
    OBVIOUS
  <2>1. end[n] \in Nat
    OBVIOUS
  <2>2. CASE k = 0
    BY <2>1, <2>2
  <2>3. CASE k # 0
    <3>1. k - 1 \in 0..(k - 1) /\ n + (k - 1) <= N /\ n + k \in 2..N
          /\ n + (k - 1) = (n + k) - 1 /\ (n + k) - 1 \in 1..N
      BY <2>3
    <3>2. end[n] <= end[(n + k) - 1]
      <4>1. k - 1 \in Q
        BY <1>1, <3>1
      <4> QED  BY <3>1, <4>1
    <3>3. Len(s[n + k]) \in Nat /\ end[(n + k) - 1] \in Nat
      BY <3>1
    <3>4. end[n + k] = end[(n + k) - 1] + Len(s[n + k])
      BY <3>1
    <3> QED  BY <2>1, <3>2, <3>3, <3>4
  <2> QED  BY <2>2, <2>3
<1> HIDE DEF Q
<1>2. \A k \in Nat : k \in Q
  BY <1>1, Induction
<1>3. N - n \in Nat /\ n + (N - n) = N
  OBVIOUS
<1>4. N - n \in Q
  BY <1>2, <1>3
<1> QED  BY <1>3, <1>4 DEF Q

(* Members in braces: the n-th begins at b[n].                             *)
BracesAround(t, seqs, N, b) ==
    /\ b \in [1..(N + 1) -> Nat] /\ b[1] = 2 /\ t[1] = Opening /\ Len(t) = b[N + 1] - 1
    /\ \A n \in 1..N :
         /\ b[n] >= 2 /\ b[n + 1] = b[n] + Len(seqs[n]) + 1
         /\ \A r \in 1..Len(seqs[n]) : t[(b[n] - 1) + r] = seqs[n][r]
         /\ t[b[n + 1] - 1] = IF n = N THEN Closing ELSE Comma

LEMMA BracedIs ==
    ASSUME NEW T, NEW N \in Nat \ {0}, NEW seqs \in [1..N -> Seq(T)],
           {Opening, Closing, Comma} \subseteq T
    PROVE  Braced(seqs) \in Seq(T) /\ \E b : BracesAround(Braced(seqs), seqs, N, b)
<1> DEFINE S(n) == IF n = 1 THEN seqs[n] ELSE <<Comma>> \o seqs[n]
           s == [n \in 1..N |-> S(n)]
           flat == FlattenSeq(s)
           t == Braced(seqs)
<1>1. t = <<Opening>> \o flat \o <<Closing>>
  <2>1. DOMAIN seqs = 1..N
    OBVIOUS
  <2>2. Separated(seqs) = FlattenSeq([n \in DOMAIN seqs |->
                            IF n = 1 THEN seqs[n] ELSE <<Comma>> \o seqs[n]])
    BY Zenon DEF Separated, Comma
  <2>3. Separated(seqs) = flat
    BY <2>1, <2>2
  <2> QED  BY <2>3, Zenon DEF Braced, Opening, Closing
<1>2. ASSUME NEW n \in 1..N
      PROVE  /\ S(n) \in Seq(T) /\ Len(seqs[n]) \in Nat
             /\ n = 1 => S(n) = seqs[n]
             /\ n # 1 => /\ Len(S(n)) = Len(seqs[n]) + 1 /\ S(n)[1] = Comma
                         /\ \A r \in 1..Len(seqs[n]) : S(n)[r + 1] = seqs[n][r]
  <2>1. <<Comma>> \in Seq(T) /\ seqs[n] \in Seq(T) /\ Len(<<Comma>>) = 1 /\ <<Comma>>[1] = Comma
    OBVIOUS
  <2>2. Len(seqs[n]) \in Nat
    BY <2>1
  <2> DEFINE u == <<Comma>> \o seqs[n]
             one == <<Comma>>
             q == seqs[n]
  <2>3. u \in Seq(T) /\ OneAfter(u, one, q)
    BY <2>1, ConcatIsOneAfter
  <2>4. /\ u \in Seq(T) /\ Len(u) = 1 + Len(q)
        /\ \A p \in 1..(1 + Len(q)) : u[p] = IF p <= 1 THEN one[p] ELSE q[p - 1]
    BY <2>1, <2>3 DEF OneAfter
  <2> HIDE DEF u
  <2>5. u[1] = Comma
    BY <2>1, <2>2, <2>4
  <2>6. \A r \in 1..Len(q) : u[r + 1] = q[r]
    BY <2>2, <2>4
  <2> QED  BY <2>1, <2>2, <2>4, <2>5, <2>6 DEF u
<1> HIDE DEF S
<1>3. s \in [1..N -> Seq(T)] /\ \A n \in 1..N : s[n] = S(n)
  BY <1>2
<1> HIDE DEF s
<1>4. PICK end \in [1..N -> Nat] : /\ end[1] = Len(s[1])
                                   /\ \A i \in 2..N : end[i] = end[i - 1] + Len(s[i])
  BY <1>3, SomeEnds
<1>5. /\ flat \in Seq(T) /\ Len(flat) = end[N]
      /\ \A j \in 1..N : \A r \in 1..Len(s[j]) : flat[(end[j] - Len(s[j])) + r] = s[j][r]
  <2>1. \A i \in 2..N : end[i] = end[i - 1] + Len(s[i])
    BY <1>4
  <2>2. end[1] = Len(s[1])
    BY <1>4
  <2>3. s \in [1..N -> Seq(T)]
    BY <1>3
  <2> HIDE DEF flat
  <2>4. EndsAt(s, N, end)
    BY <2>1, <2>2, Zenon DEF EndsAt
  <2>5. LaidEnd(T, FlattenSeq(s), s, N, end)
    BY <2>3, <2>4, FlattenedEnds
  <2> QED  BY <2>5, Zenon DEF flat, LaidEnd
<1> HIDE DEF flat
<1>6. t \in Seq(T) /\ Len(t) = end[N] + 2 /\ t[1] = Opening /\ t[end[N] + 2] = Closing
      /\ \A p \in 1..end[N] : t[p + 1] = flat[p]
  <2> DEFINE one == <<Opening>>
             two == <<Closing>>
             u == one \o flat
  <2>1. /\ one \in Seq(T) /\ Len(one) = 1 /\ one[1] = Opening
        /\ two \in Seq(T) /\ Len(two) = 1 /\ two[1] = Closing
    OBVIOUS
  <2>2. end[N] \in Nat
    BY <1>4
  <2> HIDE DEF one, two
  <2>3. u \in Seq(T) /\ OneAfter(u, one, flat)
    BY <1>5, <2>1, ConcatIsOneAfter
  <2> HIDE DEF u
  <2>4. u \o two \in Seq(T) /\ OneAfter(u \o two, u, two)
    BY <2>1, <2>3, ConcatIsOneAfter
  <2>5. t = u \o two
    BY <1>1 DEF u, one, two
  <2>6. /\ Len(u) = 1 + end[N]
        /\ \A p \in 1..(1 + end[N]) : u[p] = IF p <= 1 THEN one[p] ELSE flat[p - 1]
    BY <1>5, <2>1, <2>3 DEF OneAfter
  <2>7. /\ Len(t) = (1 + end[N]) + 1
        /\ \A p \in 1..((1 + end[N]) + 1) :
              t[p] = IF p <= 1 + end[N] THEN u[p] ELSE two[p - (1 + end[N])]
    BY <2>1, <2>4, <2>5, <2>6 DEF OneAfter
  <2> HIDE DEF t
  <2>8. t[1] = Opening
    <3>1. 1 \in 1..((1 + end[N]) + 1) /\ 1 \in 1..(1 + end[N]) /\ 1 <= 1 + end[N]
      BY <2>2
    <3> QED  BY <2>1, <2>6, <2>7, <3>1
  <2>9. t[end[N] + 2] = Closing
    <3>1. end[N] + 2 \in 1..((1 + end[N]) + 1) /\ ~(end[N] + 2 <= 1 + end[N])
          /\ (end[N] + 2) - (1 + end[N]) = 1
      BY <2>2
    <3> QED  BY <2>1, <2>7, <3>1
  <2>10. \A p \in 1..end[N] : t[p + 1] = flat[p]
    <3> SUFFICES ASSUME NEW p \in 1..end[N] PROVE t[p + 1] = flat[p]
      OBVIOUS
    <3>1. /\ p + 1 \in 1..((1 + end[N]) + 1) /\ p + 1 <= 1 + end[N]
          /\ p + 1 \in 1..(1 + end[N]) /\ ~(p + 1 <= 1) /\ (p + 1) - 1 = p
      BY <2>2
    <3> QED  BY <2>6, <2>7, <3>1
  <2>11. (1 + end[N]) + 1 = end[N] + 2
    BY <2>2
  <2>12. t \in Seq(T)
    BY <2>4, <2>5
  <2> QED  BY <2>7, <2>8, <2>9, <2>10, <2>11, <2>12
<1> HIDE DEF t
<1> DEFINE b == [n \in 1..(N + 1) |-> IF n = 1 THEN 2 ELSE end[n - 1] + 3]
<1>7. b \in [1..(N + 1) -> Nat] /\ b[1] = 2 /\ \A n \in 1..N : b[n + 1] = end[n] + 3
  <2>1. \A n \in 1..(N + 1) : n # 1 => n - 1 \in 1..N
    OBVIOUS
  <2>2. \A n \in 1..N : n + 1 \in 1..(N + 1) /\ n + 1 # 1 /\ (n + 1) - 1 = n
    OBVIOUS
  <2> QED  BY <1>4, <2>1, <2>2
<1> HIDE DEF b
<1>8. ASSUME NEW n \in 1..N
      PROVE  /\ b[n] >= 2 /\ b[n + 1] = b[n] + Len(seqs[n]) + 1
             /\ \A r \in 1..Len(seqs[n]) : t[(b[n] - 1) + r] = seqs[n][r]
             /\ t[b[n + 1] - 1] = IF n = N THEN Closing ELSE Comma
  <2> DEFINE l == Len(seqs[n])
  <2>1. l \in Nat /\ end[n] \in Nat /\ b[n + 1] = end[n] + 3
    BY <1>2, <1>4, <1>7
  <2> HIDE DEF l
  <2>2. b[n] >= 2 /\ end[n] = (b[n] - 2) + l /\ b[n] \in Nat
        /\ \A r \in 1..l : flat[(b[n] - 2) + r] = seqs[n][r]
    <3>1. CASE n = 1
      <4>1. s[1] = seqs[1]
        BY <1>2, <1>3, <3>1
      <4>2. end[1] = l /\ b[1] = 2
        BY <1>4, <1>7, <3>1, <4>1 DEF l
      <4>3. ASSUME NEW r \in 1..l PROVE flat[(b[n] - 2) + r] = seqs[n][r]
        <5>1. flat[(end[1] - Len(s[1])) + r] = s[1][r]
          BY <1>5, <3>1, <4>1 DEF l
        <5>2. (end[1] - Len(s[1])) + r = (b[n] - 2) + r
          BY <2>1, <3>1, <4>1, <4>2 DEF l
        <5> QED  BY <3>1, <4>1, <5>1, <5>2
      <4> QED  BY <2>1, <3>1, <4>2, <4>3
    <3>2. CASE n # 1
      <4>1. n - 1 \in 1..N /\ n \in 2..N /\ (n - 1) + 1 = n
        BY <3>2
      <4>2. s[n] = S(n) /\ Len(s[n]) = l + 1 /\ \A r \in 1..l : s[n][r + 1] = seqs[n][r]
        BY <1>2, <1>3, <3>2 DEF l
      <4>3. b[n] = end[n - 1] + 3 /\ end[n - 1] \in Nat
        BY <1>4, <1>7, <4>1
      <4>4. end[n] = end[n - 1] + (l + 1)
        BY <1>4, <4>1, <4>2
      <4>5. ASSUME NEW r \in 1..l PROVE flat[(b[n] - 2) + r] = seqs[n][r]
        <5>1. r + 1 \in 1..Len(s[n])
          BY <2>1, <4>2
        <5>2. flat[(end[n] - Len(s[n])) + (r + 1)] = s[n][r + 1]
          BY <1>5, <5>1
        <5>3. (end[n] - Len(s[n])) + (r + 1) = (b[n] - 2) + r
          <6> DEFINE e == end[n - 1]
          <6>1. e \in Nat /\ l \in Nat /\ r \in Nat /\ end[n] = e + (l + 1) /\ b[n] = e + 3
                /\ Len(s[n]) = l + 1
            BY <2>1, <4>2, <4>3, <4>4
          <6> HIDE DEF e
          <6> QED  BY <6>1
        <5> QED  BY <4>2, <5>2, <5>3
      <4>6. b[n] >= 2 /\ end[n] = (b[n] - 2) + l /\ b[n] \in Nat
        <5> DEFINE e == end[n - 1]
        <5>1. e \in Nat /\ l \in Nat /\ end[n] = e + (l + 1) /\ b[n] = e + 3
          BY <2>1, <4>3, <4>4
        <5> HIDE DEF e
        <5> QED  BY <5>1
      <4> QED  BY <4>5, <4>6
    <3> QED  BY <3>1, <3>2
  <2>3. end[n] <= end[N]
    BY <1>3, <1>4, EndsGrow
  <2>4. end[N] \in Nat
    BY <1>4
  <2>5. ASSUME NEW r \in 1..l PROVE t[(b[n] - 1) + r] = seqs[n][r]
    <3>1. (b[n] - 2) + r \in 1..end[N] /\ ((b[n] - 2) + r) + 1 = (b[n] - 1) + r
      <4>1. b[n] >= 2 /\ end[n] = (b[n] - 2) + l /\ b[n] \in Nat /\ end[n] \in Nat
            /\ l \in Nat /\ r \in 1..l /\ end[n] <= end[N] /\ end[N] \in Nat
        BY <2>1, <2>2, <2>3, <2>4
      <4> DEFINE x == b[n]
                 e == end[n]
                 m == end[N]
      <4>2. x >= 2 /\ e = (x - 2) + l /\ x \in Nat /\ e \in Nat /\ m \in Nat /\ e <= m
        BY <4>1
      <4> HIDE DEF x, e, m
      <4>3. (x - 2) + r \in 1..m /\ ((x - 2) + r) + 1 = (x - 1) + r
        BY <4>1, <4>2
      <4> QED  BY <4>3 DEF x, m
    <3> QED  BY <1>6, <2>2, <3>1
  <2>6. t[b[n + 1] - 1] = IF n = N THEN Closing ELSE Comma
    <3>1. b[n + 1] - 1 = end[n] + 2
      BY <2>1
    <3>2. CASE n = N
      BY <1>6, <3>1, <3>2
    <3>3. CASE n # N
      <4>1. n + 1 \in 1..N /\ n + 1 \in 2..N /\ n + 1 # 1 /\ (n + 1) - 1 = n
        BY <3>3
      <4>2. s[n + 1][1] = Comma /\ Len(s[n + 1]) \in Nat /\ Len(s[n + 1]) >= 1
        BY <1>2, <1>3, <4>1
      <4>3. end[n + 1] = end[n] + Len(s[n + 1])
        BY <1>4, <4>1
      <4>4. flat[(end[n + 1] - Len(s[n + 1])) + 1] = Comma
        BY <1>5, <4>1, <4>2
      <4>5. (end[n + 1] - Len(s[n + 1])) + 1 = end[n] + 1
        BY <2>1, <4>2, <4>3
      <4>6. end[n] + 1 \in 1..end[N] /\ (end[n] + 1) + 1 = end[n] + 2
        <5>1. end[n + 1] <= end[N]
          BY <1>3, <1>4, <4>1, EndsGrow
        <5> DEFINE e == end[n + 1]
                   k == Len(s[n + 1])
        <5>2. e = end[n] + k /\ k \in Nat /\ k >= 1 /\ e <= end[N] /\ end[n] \in Nat
              /\ end[N] \in Nat
          BY <2>1, <2>4, <4>2, <4>3, <5>1
        <5> HIDE DEF e, k
        <5> QED  BY <5>2
      <4> QED  BY <1>6, <3>1, <3>3, <4>4, <4>5, <4>6
    <3> QED  BY <3>2, <3>3
  <2>7. b[n + 1] = b[n] + l + 1
    BY <2>1, <2>2
  <2> QED  BY <2>2, <2>5, <2>6, <2>7 DEF l
<1>9. Len(t) = b[N + 1] - 1
  <2>1. N \in 1..N /\ end[N] \in Nat
    BY <1>4
  <2> QED  BY <1>6, <1>7, <2>1
<1>10. BracesAround(t, seqs, N, b)
  BY <1>6, <1>7, <1>8, <1>9 DEF BracesAround
<1> QED  BY <1>6, <1>10 DEF t

-----------------------------------------------------------------------------
(* The text of a document.  The tokens of a member, alone and in an object. *)

MemberIs(seq, member) ==
    /\ Len(seq) \in Nat /\ seq[1] = NameOf(member) /\ seq[2] = Colon
    /\ IF IsObject(member) THEN Len(seq) >= 4 /\ seq[3] = Opening
       ELSE /\ IsScalar(member)
            /\ IF member[2] = "none" THEN Len(seq) = 2
               ELSE Len(seq) = 3 /\ seq[3] = ValueOf(member)

(* What is in braces is laid out from token d + 1 of a text on.             *)
Copied(t, u, d) == d + Len(u) <= Len(t) /\ \A r \in 1..Len(u) : t[d + r] = u[r]

BracesInText(ms, N, seqs, u, b0, t, d, o, b) ==
    /\ N \in Nat \ {0} /\ Len(ms) = N /\ BracesAround(u, seqs, N, b0)
    /\ \A n \in 1..N : MemberIs(seqs[n], ms[n])
    /\ Len(t) \in Nat /\ d \in Nat /\ Copied(t, u, d) /\ o = d + 1
    /\ \A n \in 1..(N + 1) : b[n] = d + b0[n]

LEMMA BracedIsLaid ==
    ASSUME NEW ms, NEW N, NEW seqs, NEW u, NEW b0, NEW t, NEW d, NEW o, NEW b,
           BracesInText(ms, N, seqs, u, b0, t, d, o, b)
    PROVE  Laid(t, ms, FALSE, o, b)
<1>0. /\ N \in Nat \ {0} /\ Len(ms) = N /\ BracesAround(u, seqs, N, b0)
      /\ \A n \in 1..N : MemberIs(seqs[n], ms[n])
      /\ Len(t) \in Nat /\ d \in Nat /\ Copied(t, u, d) /\ o = d + 1
      /\ \A n \in 1..(N + 1) : b[n] = d + b0[n]
  BY Zenon DEF BracesInText
<1> USE <1>0
<1>1. /\ b0 \in [1..(N + 1) -> Nat] /\ b0[1] = 2 /\ u[1] = Opening /\ Len(u) = b0[N + 1] - 1
      /\ \A n \in 1..N :
           /\ b0[n] >= 2 /\ b0[n + 1] = b0[n] + Len(seqs[n]) + 1
           /\ \A r \in 1..Len(seqs[n]) : u[(b0[n] - 1) + r] = seqs[n][r]
           /\ u[b0[n + 1] - 1] = IF n = N THEN Closing ELSE Comma
  BY Zenon DEF BracesAround
<1>2. \A n \in 1..(N + 1) : b0[n] \in Nat /\ b[n] = d + b0[n] /\ b0[n] >= 2
  <2>1. \A n \in 1..(N + 1) : b0[n] \in Nat /\ b[n] = d + b0[n]
    BY <1>1
  <2>2. N \in 1..N /\ Len(seqs[N]) \in Nat /\ b0[N] \in Nat
    BY <1>1 DEF MemberIs
  <2>3. b0[N + 1] >= 2
    BY <1>1, <2>2
  <2>4. \A n \in 1..(N + 1) : n \in 1..N \/ n = N + 1
    OBVIOUS
  <2> QED  BY <1>1, <2>1, <2>3, <2>4
<1>3. Copied(t, u, d) /\ Len(u) \in Nat /\ d + Len(u) <= Len(t)
      /\ \A r \in 1..Len(u) : t[d + r] = u[r]
  <2>1. N + 1 \in 1..(N + 1)
    OBVIOUS
  <2>2. b0[N + 1] - 1 \in Nat
    BY <1>2, <2>1
  <2> QED  BY <1>1, <2>2 DEF Copied
<1>4. \A p \in 1..Len(u) : Place(d + p, FALSE) = d + p /\ Token(t, d + p, FALSE, u[p])
  BY <1>3 DEF Token, Place
<1>5. \A n \in 1..N : b0[n + 1] <= Len(u) + 1
  <2> DEFINE Q == {k \in Nat : k < N => b0[(N - k) + 1] <= Len(u) + 1}
  <2>1. ASSUME NEW k \in Nat, \A m \in 0..(k - 1) : m \in Q
        PROVE  k \in Q
    <3> SUFFICES ASSUME k < N PROVE b0[(N - k) + 1] <= Len(u) + 1
      OBVIOUS
    <3>1. CASE k = 0
      <4>1. N - k = N /\ N + 1 \in 1..(N + 1)
        BY <3>1
      <4>2. b0[N + 1] \in Nat
        BY <1>2, <4>1
      <4> QED  BY <1>1, <4>1, <4>2
    <3>2. CASE k # 0
      <4> DEFINE n == (N - k) + 1
      <4>1. n \in 1..N /\ k - 1 \in 0..(k - 1) /\ k - 1 < N /\ (N - (k - 1)) + 1 = n + 1
            /\ n \in 1..(N + 1) /\ n + 1 \in 1..(N + 1)
        BY <3>2
      <4>2. k - 1 \in Q
        BY <2>1, <4>1
      <4> HIDE DEF n
      <4>3. b0[n + 1] <= Len(u) + 1
        BY <4>1, <4>2
      <4>4. b0[n] \in Nat /\ b0[n + 1] \in Nat /\ Len(seqs[n]) \in Nat
        BY <1>2, <4>1 DEF MemberIs
      <4>5. b0[n + 1] = b0[n] + Len(seqs[n]) + 1
        BY <1>1, <4>1
      <4>6. b0[n] <= Len(u) + 1
        BY <1>3, <4>3, <4>4, <4>5
      <4> QED  BY <4>6 DEF n
    <3> QED  BY <3>1, <3>2
  <2> HIDE DEF Q
  <2>2. \A k \in Nat : k \in Q
    BY <2>1, Induction
  <2> SUFFICES ASSUME NEW n \in 1..N PROVE b0[n + 1] <= Len(u) + 1
    OBVIOUS
  <2>3. N - n \in Nat /\ N - n < N /\ N - (N - n) = n
    OBVIOUS
  <2>4. N - n \in Q
    BY <2>2, <2>3
  <2> QED  BY <2>3, <2>4 DEF Q
<1>6. ASSUME NEW n \in 1..N
      PROVE  /\ MemberLaid(t, ms[n], FALSE, b[n], b[n + 1])
             /\ Token(t, b[n + 1] - 1, FALSE, IF n = N THEN Closing ELSE Comma)
  <2> DEFINE l == Len(seqs[n])
             a == b0[n]
             z == b0[n + 1]
  <2>1. n \in 1..(N + 1) /\ n + 1 \in 1..(N + 1)
    OBVIOUS
  <2>2. /\ a \in Nat /\ z \in Nat /\ a >= 2 /\ z >= 2 /\ b[n] = d + a /\ b[n + 1] = d + z
    BY <1>2, <2>1
  <2>3. l \in Nat /\ l >= 2
    BY DEF MemberIs
  <2>4. z = a + l + 1 /\ z <= Len(u) + 1
    BY <1>1, <1>5
  <2>5. \A r \in 1..l : u[(a - 1) + r] = seqs[n][r]
    BY <1>1
  <2>6. u[z - 1] = IF n = N THEN Closing ELSE Comma
    BY <1>1
  <2> HIDE DEF a, z, l
  <2>7. \A r \in 1..l : \A p : p = (d + a) + (r - 1) => Token(t, p, FALSE, seqs[n][r])
    <3> SUFFICES ASSUME NEW r \in 1..l PROVE Token(t, (d + a) + (r - 1), FALSE, seqs[n][r])
      OBVIOUS
    <3>1. (a - 1) + r \in 1..Len(u) /\ d + ((a - 1) + r) = (d + a) + (r - 1)
      BY <1>3, <2>2, <2>3, <2>4
    <3> QED  BY <1>4, <2>5, <3>1
  <2>8. Token(t, (d + z) - 1, FALSE, IF n = N THEN Closing ELSE Comma)
    <3>1. z - 1 \in 1..Len(u) /\ d + (z - 1) = (d + z) - 1
      BY <1>3, <2>2, <2>4
    <3> QED  BY <1>4, <2>6, <3>1
  <2>9. /\ Token(t, d + a, FALSE, seqs[n][1]) /\ Token(t, (d + a) + 1, FALSE, seqs[n][2])
        /\ l >= 3 => Token(t, (d + a) + 2, FALSE, seqs[n][3])
    <3>1. d + a = (d + a) + (1 - 1) /\ (d + a) + 1 = (d + a) + (2 - 1)
          /\ (d + a) + 2 = (d + a) + (3 - 1)
      BY <2>2
    <3>2. 1 \in 1..l /\ 2 \in 1..l /\ (l >= 3 => 3 \in 1..l)
      BY <2>3
    <3> QED  BY <2>7, <3>1, <3>2
  <2>10. MemberIs(seqs[n], ms[n]) /\ l = Len(seqs[n])
    BY DEF l
  <2>11. MemberLaid(t, ms[n], FALSE, d + a, d + z)
    <3>1. /\ d + a \in Nat /\ d + z = (d + a) + (l + 1)
      BY <2>2, <2>3, <2>4
    <3>2. /\ seqs[n][1] = NameOf(ms[n]) /\ seqs[n][2] = Colon
          /\ IF IsObject(ms[n]) THEN l >= 4 /\ seqs[n][3] = Opening
             ELSE /\ IsScalar(ms[n])
                  /\ IF ms[n][2] = "none" THEN l = 2 ELSE l = 3 /\ seqs[n][3] = ValueOf(ms[n])
      BY <2>10, Zenon DEF MemberIs
    <3>3. /\ l >= 4 => d + z >= (d + a) + 5 /\ l >= 3
          /\ l = 2 => d + z = (d + a) + 3
          /\ l = 3 => d + z = (d + a) + 4 /\ l >= 3
      BY <2>3, <3>1
    <3> DEFINE m == ms[n]
               p == d + a
               next == d + z
    <3>4. Token(t, p, FALSE, NameOf(m)) /\ Token(t, p + 1, FALSE, Colon)
      BY <2>9, <3>2
    <3>5. CASE IsObject(m)
      <4>1. next >= p + 5 /\ Token(t, p + 2, FALSE, Opening)
        BY <2>9, <3>2, <3>3, <3>5
      <4> HIDE DEF m, p, next
      <4>2. MemberLaid(t, m, FALSE, p, next)
        BY <3>4, <3>5, <4>1 DEF MemberLaid
      <4> QED  BY <4>2 DEF m, p, next
    <3>6. CASE ~IsObject(m)
      <4>1. IsScalar(m) /\ IF m[2] = "none" THEN next = p + 3
                           ELSE next = p + 4 /\ Token(t, p + 2, FALSE, ValueOf(m))
        BY <2>9, <3>2, <3>3, <3>6
      <4> HIDE DEF m, p, next
      <4>2. MemberLaid(t, m, FALSE, p, next)
        BY <3>4, <3>6, <4>1 DEF MemberLaid
      <4> QED  BY <4>2 DEF m, p, next
    <3> QED  BY <3>5, <3>6
  <2> QED  BY <2>2, <2>8, <2>11
<1>7. Token(t, d + 1, FALSE, Opening)
  <2>1. 1 \in 1..Len(u)
    <3>1. N + 1 \in 1..(N + 1) /\ N \in 1..N /\ N \in 1..(N + 1)
      OBVIOUS
    <3>2. b0[N + 1] \in Nat /\ b0[N] \in Nat /\ Len(seqs[N]) \in Nat /\ b0[N] >= 2
      BY <1>2, <3>1 DEF MemberIs
    <3>3. b0[N + 1] = b0[N] + Len(seqs[N]) + 1
      BY <1>1, <3>1
    <3> QED  BY <1>1, <3>2, <3>3
  <2> QED  BY <1>1, <1>4, <2>1
<1>8. /\ \A n \in 1..(N + 1) : b[n] \in Nat /\ b[n] > d + 1
      /\ b[1] = (d + 1) + 1
  <2>1. 1 \in 1..(N + 1)
    OBVIOUS
  <2> QED  BY <1>1, <1>2, <2>1
<1>9. Laid(t, ms, FALSE, d + 1, b)
  <2>1. d + 1 \in Nat \ {0} /\ FALSE \in BOOLEAN
    OBVIOUS
  <2> QED  BY <1>6, <1>7, <1>8, <2>1, Zenon DEF Laid
<1> QED  BY <1>9

(* The tokens of a member: its name, a colon, the value.                   *)
Named(u, member, value) ==
    /\ Len(u) = 2 + Len(value) /\ u[1] = NameOf(member) /\ u[2] = Colon
    /\ \A r \in 1..Len(value) : u[2 + r] = value[r]

LEMMA MemberIsSeq ==
    ASSUME NEW T, Colon \in T, NEW member, NameOf(member) \in T, NEW value \in Seq(T)
    PROVE  Member(member[1], value) \in Seq(T) /\ Named(Member(member[1], value), member, value)
<1> DEFINE two == <<NameOf(member), Colon>>
           u == two \o value
<1>1. Member(member[1], value) = u
  BY Zenon DEF Member, NameOf, Colon
<1>2. two \in Seq(T) /\ Len(two) = 2 /\ two[1] = NameOf(member) /\ two[2] = Colon
  OBVIOUS
<1>3. Len(value) \in Nat
  OBVIOUS
<1> HIDE DEF two
<1>4. u \in Seq(T) /\ OneAfter(u, two, value)
  BY <1>2, ConcatIsOneAfter
<1>5. /\ Len(u) = 2 + Len(value)
      /\ \A p \in 1..(2 + Len(value)) : u[p] = IF p <= 2 THEN two[p] ELSE value[p - 2]
  BY <1>2, <1>4 DEF OneAfter
<1> HIDE DEF u
<1>6. u[1] = NameOf(member) /\ u[2] = Colon
  BY <1>2, <1>3, <1>5
<1>7. \A r \in 1..Len(value) : u[2 + r] = value[r]
  BY <1>3, <1>5
<1>8. Named(u, member, value)
  BY <1>5, <1>6, <1>7 DEF Named
<1> QED  BY <1>1, <1>4, <1>8

LEMMA ScalarIsSeq ==
    ASSUME NEW T, Colon \in T, NEW member, NameOf(member) \in T, ValueOf(member) \in T,
           IsScalar(member), ~IsObject(member), member[2] # "none"
    PROVE  /\ ScalarTokens(member) \in Seq(T) /\ Len(ScalarTokens(member)) = 3
           /\ MemberIs(ScalarTokens(member), member)
<1> DEFINE value == <<ValueOf(member)>>
           u == Member(member[1], value)
<1>1. ScalarTokens(member) = u
  BY Zenon DEF ScalarTokens, ValueOf
<1>2. value \in Seq(T) /\ Len(value) = 1 /\ value[1] = ValueOf(member)
  OBVIOUS
<1> HIDE DEF value
<1>3. /\ u \in Seq(T) /\ Len(u) = 2 + Len(value) /\ u[1] = NameOf(member) /\ u[2] = Colon
      /\ \A r \in 1..Len(value) : u[2 + r] = value[r]
  <2>1. u \in Seq(T) /\ Named(u, member, value)
    BY <1>2, MemberIsSeq
  <2> QED  BY <2>1 DEF Named
<1> HIDE DEF u
<1>4. Len(u) = 3 /\ u[3] = ValueOf(member)
  <2>1. 1 \in 1..Len(value) /\ 2 + 1 = 3
    BY <1>2
  <2> QED  BY <1>2, <1>3, <2>1
<1>5. MemberIs(u, member)
  <2>1. Len(u) \in Nat
    BY <1>4
  <2> QED  BY <1>3, <1>4, <2>1, Zenon DEF MemberIs
<1> QED  BY <1>1, <1>3, <1>4, <1>5

(* An object of scalars, its tokens and where they are.                    *)
ScalarSeqs(ms) == [n \in DOMAIN ms |-> ScalarTokens(ms[n])]
Scalarly(T, ms) ==
    \A n \in 1..Len(ms) : /\ NameOf(ms[n]) \in T /\ ValueOf(ms[n]) \in T
                          /\ IsScalar(ms[n]) /\ ~IsObject(ms[n]) /\ ms[n][2] # "none"

LEMMA InnerBraced ==
    ASSUME NEW T, {Opening, Closing, Colon, Comma} \subseteq T,
           NEW ms, Len(ms) \in Nat \ {0}, DOMAIN ms = 1..Len(ms), Scalarly(T, ms)
    PROVE  LET u == Braced(ScalarSeqs(ms)) IN
           /\ u \in Seq(T) /\ Len(u) >= 2
           /\ u[1] = Opening
           /\ \E b0 : BracesAround(u, ScalarSeqs(ms), Len(ms), b0)
           /\ \A n \in 1..Len(ms) : MemberIs(ScalarSeqs(ms)[n], ms[n])
<1> DEFINE seqs == ScalarSeqs(ms)
           u == Braced(seqs)
           N == Len(ms)
<1>1. \A n \in 1..N : /\ seqs[n] = ScalarTokens(ms[n]) /\ ScalarTokens(ms[n]) \in Seq(T)
                      /\ MemberIs(ScalarTokens(ms[n]), ms[n])
  BY ScalarIsSeq DEF Scalarly, ScalarSeqs
<1>2. seqs \in [1..N -> Seq(T)]
  BY <1>1 DEF ScalarSeqs
<1> HIDE DEF seqs
<1>3. u \in Seq(T) /\ \E b0 : BracesAround(u, seqs, N, b0)
  BY <1>2, BracedIs
<1>4. PICK b0 : BracesAround(u, seqs, N, b0)
  BY <1>3
<1> HIDE DEF u
<1>5. Len(u) >= 2 /\ u[1] = Opening
  <2>1. /\ b0 \in [1..(N + 1) -> Nat] /\ u[1] = Opening /\ Len(u) = b0[N + 1] - 1
        /\ \A n \in 1..N : b0[n] >= 2 /\ b0[n + 1] = b0[n] + Len(seqs[n]) + 1
    BY <1>4 DEF BracesAround
  <2>2. N \in 1..N /\ Len(seqs[N]) \in Nat /\ N \in 1..(N + 1)
    BY <1>2
  <2>3. b0[N] \in Nat /\ b0[N] >= 2 /\ b0[N + 1] = b0[N] + Len(seqs[N]) + 1
    BY <2>1, <2>2
  <2> QED  BY <2>1, <2>2, <2>3
<1>6. \A n \in 1..N : MemberIs(seqs[n], ms[n])
  BY <1>1
<1> QED  BY <1>3, <1>5, <1>6 DEF u, seqs

(* Where the members are, and the members of objects.                      *)
ObjectLaid(t, ms, sp, o, end) == \E c : Laid(t, ms, sp, o, c) /\ c[Len(ms) + 1] = end
TextLaid(t, ms, sp, b) ==
    /\ Laid(t, ms, sp, 1, b)
    /\ ~sp => Len(t) = b[Len(ms) + 1] - 1
    /\ \A n \in 1..Len(ms) : IsObject(ms[n]) =>
         ObjectLaid(t, ms[n][3], sp, b[n] + 2, b[n + 1] - 1)

ProperMembers(ms) ==
    /\ Members(ms, ScalarTypes \cup {"o"})
    /\ \A n \in DOMAIN ms : IsObject(ms[n]) => Members(ms[n][3], ScalarTypes)

LEMMA MembersAre ==
    ASSUME NEW ms, NEW types, Members(ms, types)
    PROVE  /\ Len(ms) \in Nat \ {0} /\ DOMAIN ms = 1..Len(ms)
           /\ \A n \in 1..Len(ms) : ms[n][2] \in types
           /\ \A n, k \in 1..Len(ms) : ms[n][1] = ms[k][1] => n = k
<1>1. ms \in Seq(Range(ms)) /\ ms # <<>>
  BY DEF Members
<1>2. DOMAIN ms = 1..Len(ms) /\ Len(ms) \in Nat
  BY <1>1
<1>3. Len(ms) # 0
  BY <1>1, EmptySeq
<1> QED  BY <1>2, <1>3 DEF Members

(* All that matters for where the tokens are.                              *)
Listed(ms, types) ==
    /\ Len(ms) \in Nat \ {0} /\ DOMAIN ms = 1..Len(ms)
    /\ \A n \in 1..Len(ms) : ms[n][2] \in types
Shaped(ms) ==
    /\ Listed(ms, ScalarTypes \cup {"o"})
    /\ \A n \in 1..Len(ms) : IsObject(ms[n]) => Listed(ms[n][3], ScalarTypes)

LEMMA ProperIsShaped ==
    ASSUME NEW ms, ProperMembers(ms)
    PROVE  Shaped(ms)
<1>1. Listed(ms, ScalarTypes \cup {"o"})
  BY MembersAre DEF ProperMembers, Listed
<1>2. ASSUME NEW n \in 1..Len(ms), IsObject(ms[n]) PROVE Listed(ms[n][3], ScalarTypes)
  <2>1. DOMAIN ms = 1..Len(ms)
    BY <1>1 DEF Listed
  <2>2. Members(ms[n][3], ScalarTypes)
    BY <1>2, <2>1 DEF ProperMembers
  <2> QED  BY <2>2, MembersAre DEF Listed
<1> QED  BY <1>1, <1>2 DEF Shaped

LEMMA ScalarTyped ==
    ASSUME NEW member
    PROVE  /\ member[2] \in ScalarTypes \cup {"o"} /\ ~IsObject(member) =>
                IsScalar(member) /\ member[2] # "none"
           /\ member[2] \in ScalarTypes =>
                IsScalar(member) /\ ~IsObject(member) /\ member[2] # "none"
BY Zenon DEF ScalarTypes, IsScalar, IsObject

(* The tokens of an object: its name and the braces around its members.    *)
ObjectIs(T, seq, member) ==
    \E u \in Seq(T) : \E b0 :
      /\ Named(seq, member, u)
      /\ BracesAround(u, ScalarSeqs(member[3]), Len(member[3]), b0)

LEMMA ObjectIsSeq ==
    ASSUME NEW T, {Opening, Closing, Colon, Comma} \subseteq T,
           NEW member, IsObject(member), NameOf(member) \in T,
           Len(member[3]) \in Nat \ {0}, DOMAIN member[3] = 1..Len(member[3]),
           Scalarly(T, member[3])
    PROVE  /\ MemberTokens(member) \in Seq(T) /\ MemberIs(MemberTokens(member), member)
           /\ ObjectIs(T, MemberTokens(member), member)
<1> DEFINE inner == member[3]
           u == Braced(ScalarSeqs(inner))
           seq == Member(member[1], u)
<1>1. MemberTokens(member) = seq
  BY Zenon DEF MemberTokens, IsObject, ScalarSeqs
<1>2. /\ u \in Seq(T) /\ Len(u) >= 2 /\ u[1] = Opening
      /\ \E b0 : BracesAround(u, ScalarSeqs(inner), Len(inner), b0)
  <2> HIDE DEF inner
  <2>1. Len(inner) \in Nat \ {0} /\ DOMAIN inner = 1..Len(inner) /\ Scalarly(T, inner)
    BY DEF inner
  <2> QED  BY <2>1, InnerBraced
<1> HIDE DEF u, inner
<1>3. seq \in Seq(T) /\ Named(seq, member, u)
  BY <1>2, MemberIsSeq
<1> HIDE DEF seq
<1>4. ObjectIs(T, seq, member)
  BY <1>2, <1>3 DEF ObjectIs, inner
<1>5. MemberIs(seq, member)
  <2>1. /\ Len(seq) = 2 + Len(u) /\ seq[1] = NameOf(member) /\ seq[2] = Colon
        /\ \A r \in 1..Len(u) : seq[2 + r] = u[r]
    BY <1>3 DEF Named
  <2>2. Len(u) \in Nat
    BY <1>2
  <2>3. Len(seq) >= 4 /\ Len(seq) \in Nat
    BY <1>2, <2>1, <2>2
  <2>4. 1 \in 1..Len(u) /\ 2 + 1 = 3
    BY <1>2, <2>2
  <2>5. seq[3] = Opening
    BY <1>2, <2>1, <2>4
  <2> QED  BY <2>1, <2>3, <2>5, Zenon DEF MemberIs
<1> QED  BY <1>1, <1>3, <1>4, <1>5

AllMembers(ms) ==
    {ms[n] : n \in 1..Len(ms)}
      \cup UNION {{ms[n][3][k] : k \in 1..Len(ms[n][3])} : n \in 1..Len(ms)}
AllTokens(ms) ==
    {Opening, Closing, Colon, Comma} \cup {NameOf(member) : member \in AllMembers(ms)}
      \cup {ValueOf(member) : member \in AllMembers(ms)}

LEMMA TokensOfMembers ==
    ASSUME NEW ms, Shaped(ms), NEW T, T = AllTokens(ms)
    PROVE  /\ {Opening, Closing, Colon, Comma} \subseteq T
           /\ Len(ms) \in Nat \ {0} /\ DOMAIN ms = 1..Len(ms)
           /\ \A n \in 1..Len(ms) :
                /\ MemberTokens(ms[n]) \in Seq(T) /\ MemberIs(MemberTokens(ms[n]), ms[n])
                /\ IsObject(ms[n]) =>
                     /\ ObjectIs(T, MemberTokens(ms[n]), ms[n])
                     /\ Len(ms[n][3]) \in Nat \ {0} /\ Scalarly(T, ms[n][3])
<1>1. /\ Len(ms) \in Nat \ {0} /\ DOMAIN ms = 1..Len(ms)
      /\ \A n \in 1..Len(ms) : ms[n][2] \in ScalarTypes \cup {"o"}
  BY DEF Shaped, Listed
<1>2. {Opening, Closing, Colon, Comma} \subseteq T
  BY DEF AllTokens
<1>3. ASSUME NEW n \in 1..Len(ms)
      PROVE  /\ MemberTokens(ms[n]) \in Seq(T) /\ MemberIs(MemberTokens(ms[n]), ms[n])
             /\ IsObject(ms[n]) =>
                  /\ ObjectIs(T, MemberTokens(ms[n]), ms[n])
                  /\ Len(ms[n][3]) \in Nat \ {0} /\ Scalarly(T, ms[n][3])
  <2>1. ms[n] \in AllMembers(ms)
    BY DEF AllMembers
  <2>2. NameOf(ms[n]) \in T /\ ValueOf(ms[n]) \in T
    BY <2>1 DEF AllTokens
  <2>3. CASE ~IsObject(ms[n])
    <3>1. IsScalar(ms[n]) /\ ms[n][2] # "none"
      BY <1>1, <2>3, ScalarTyped
    <3>2. MemberTokens(ms[n]) = ScalarTokens(ms[n])
      BY <2>3, Zenon DEF MemberTokens, IsObject
    <3>3. Colon \in T
      BY <1>2
    <3>4. ScalarTokens(ms[n]) \in Seq(T) /\ MemberIs(ScalarTokens(ms[n]), ms[n])
      BY <2>2, <2>3, <3>1, <3>3, ScalarIsSeq
    <3> QED  BY <2>3, <3>2, <3>4
  <2>4. CASE IsObject(ms[n])
    <3> DEFINE inner == ms[n][3]
    <3>1. Listed(inner, ScalarTypes)
      BY <1>1, <2>4 DEF Shaped
    <3>2. \A k \in 1..Len(inner) : inner[k] \in AllMembers(ms)
      BY DEF AllMembers
    <3> HIDE DEF inner
    <3>3. /\ Len(inner) \in Nat \ {0} /\ DOMAIN inner = 1..Len(inner)
          /\ \A k \in 1..Len(inner) : inner[k][2] \in ScalarTypes
      BY <3>1 DEF Listed
    <3>4. Scalarly(T, inner)
      <4>1. \A member \in AllMembers(ms) : NameOf(member) \in T /\ ValueOf(member) \in T
        BY DEF AllTokens
      <4> QED  BY <3>2, <3>3, <4>1, ScalarTyped DEF Scalarly
    <3>5. /\ MemberTokens(ms[n]) \in Seq(T) /\ MemberIs(MemberTokens(ms[n]), ms[n])
          /\ ObjectIs(T, MemberTokens(ms[n]), ms[n])
      BY <1>2, <2>2, <2>4, <3>3, <3>4, ObjectIsSeq DEF inner
    <3> QED  BY <3>3, <3>4, <3>5 DEF inner
  <2> QED  BY <2>3, <2>4
<1> QED  BY <1>1, <1>2, <1>3

ObjectInText(T, seq, member, t, p, o, next) ==
    /\ ObjectIs(T, seq, member) /\ Len(seq) \in Nat
    /\ Len(member[3]) \in Nat \ {0} /\ DOMAIN member[3] = 1..Len(member[3])
    /\ Scalarly(T, member[3]) /\ Colon \in T
    /\ Len(t) \in Nat /\ p \in Nat /\ p + Len(seq) <= Len(t)
    /\ \A r \in 1..Len(seq) : t[p + r] = seq[r]
    /\ o = p + 3 /\ next = p + Len(seq) + 1

LEMMA ObjectInside ==
    ASSUME NEW T, NEW seq, NEW member, NEW t, NEW p, NEW o, NEW next,
           ObjectInText(T, seq, member, t, p, o, next)
    PROVE  ObjectLaid(t, member[3], FALSE, o, next)
<1>0. /\ ObjectIs(T, seq, member) /\ Len(seq) \in Nat
      /\ Len(member[3]) \in Nat \ {0} /\ DOMAIN member[3] = 1..Len(member[3])
      /\ Scalarly(T, member[3]) /\ Colon \in T
      /\ Len(t) \in Nat /\ p \in Nat /\ p + Len(seq) <= Len(t)
      /\ \A r \in 1..Len(seq) : t[p + r] = seq[r]
      /\ o = p + 3 /\ next = p + Len(seq) + 1
  BY Zenon DEF ObjectInText
<1> USE <1>0
<1> DEFINE inner == member[3]
           seqs == ScalarSeqs(inner)
           N == Len(inner)
           d == p + 2
<1>1. PICK u \in Seq(T) :
        Named(seq, member, u) /\ \E b0 : BracesAround(u, seqs, N, b0)
  BY Zenon DEF ObjectIs
<1>10. PICK b0 : BracesAround(u, seqs, N, b0)
  BY <1>1
<1>2. \A n \in 1..N : MemberIs(seqs[n], inner[n])
  BY ScalarIsSeq DEF Scalarly, ScalarSeqs
<1>3. Len(u) \in Nat /\ Len(seq) = 2 + Len(u) /\ \A r \in 1..Len(u) : seq[2 + r] = u[r]
  BY <1>1 DEF Named
<1>4. Copied(t, u, d)
  <2>1. d + Len(u) <= Len(t)
    BY <1>3
  <2> SUFFICES ASSUME NEW r \in 1..Len(u) PROVE t[d + r] = u[r]
    BY <2>1 DEF Copied
  <2>2. 2 + r \in 1..Len(seq) /\ p + (2 + r) = d + r
    BY <1>3
  <2> QED  BY <1>3, <2>2
<1>5. d \in Nat /\ N \in Nat \ {0} /\ d + 1 = p + 3
  OBVIOUS
<1> DEFINE c == [n \in 1..(N + 1) |-> d + b0[n]]
<1>6. Laid(t, inner, FALSE, d + 1, c)
  <2>1. Len(inner) = N /\ \A n \in 1..(N + 1) : c[n] = d + b0[n]
    OBVIOUS
  <2> DEFINE o1 == d + 1
  <2>2. o1 = d + 1
    OBVIOUS
  <2> HIDE DEF inner, seqs, d, c, N, o1
  <2>3. BracesInText(inner, N, seqs, u, b0, t, d, o1, c)
    BY <1>10, <1>2, <1>4, <1>5, <2>1, <2>2, Zenon DEF BracesInText
  <2>4. Laid(t, inner, FALSE, o1, c)
    BY <2>3, BracedIsLaid, Zenon
  <2> QED  BY <2>2, <2>4
<1>7. c[N + 1] = p + Len(seq) + 1
  <2>1. b0 \in [1..(N + 1) -> Nat] /\ Len(u) = b0[N + 1] - 1
    BY <1>10 DEF BracesAround
  <2>2. N + 1 \in 1..(N + 1)
    BY <1>5
  <2>3. c[N + 1] = d + b0[N + 1] /\ b0[N + 1] \in Nat
    BY <2>1, <2>2
  <2> HIDE DEF c, N
  <2>4. b0[N + 1] = Len(u) + 1
    BY <1>3, <2>1, <2>3
  <2> QED  BY <1>3, <2>3, <2>4
<1> QED  BY <1>5, <1>6, <1>7 DEF ObjectLaid

LEMMA TokensLaid ==
    ASSUME NEW ms, Shaped(ms)
    PROVE  Tokens(ms) \in Seq(AllTokens(ms)) /\ \E b : TextLaid(Tokens(ms), ms, FALSE, b)
<1> DEFINE T == AllTokens(ms)
           N == Len(ms)
           seqs == [n \in 1..N |-> MemberTokens(ms[n])]
           t == Tokens(ms)
<1>1. /\ {Opening, Closing, Colon, Comma} \subseteq T
      /\ N \in Nat \ {0} /\ DOMAIN ms = 1..N
      /\ \A n \in 1..N :
           /\ MemberTokens(ms[n]) \in Seq(T) /\ MemberIs(MemberTokens(ms[n]), ms[n])
           /\ IsObject(ms[n]) =>
                /\ ObjectIs(T, MemberTokens(ms[n]), ms[n])
                /\ Len(ms[n][3]) \in Nat \ {0} /\ Scalarly(T, ms[n][3])
  BY TokensOfMembers
<1>2. t = Braced(seqs)
  BY <1>1, Zenon DEF Tokens
<1> HIDE DEF T, t
<1>3. seqs \in [1..N -> Seq(T)] /\ \A n \in 1..N : seqs[n] = MemberTokens(ms[n])
  BY <1>1
<1> HIDE DEF seqs
<1>4. t \in Seq(T) /\ \E b : BracesAround(t, seqs, N, b)
  BY <1>1, <1>2, <1>3, BracedIs
<1>5. PICK b : BracesAround(t, seqs, N, b)
  BY <1>4
<1>6. /\ b \in [1..(N + 1) -> Nat] /\ Len(t) = b[N + 1] - 1
      /\ \A n \in 1..N :
           /\ b[n] >= 2 /\ b[n + 1] = b[n] + Len(seqs[n]) + 1
           /\ \A r \in 1..Len(seqs[n]) : t[(b[n] - 1) + r] = seqs[n][r]
  BY <1>5 DEF BracesAround
<1>7. Len(t) \in Nat
  BY <1>4
<1>8. Laid(t, ms, FALSE, 1, b)
  <2>1. \A n \in 1..(N + 1) : b[n] = 0 + b[n]
    BY <1>6
  <2>2. \A n \in 1..N : MemberIs(seqs[n], ms[n])
    BY <1>1, <1>3
  <2>3. Copied(t, t, 0) /\ 0 \in Nat /\ 0 + 1 = 1
    BY <1>7 DEF Copied
  <2>4. Laid(t, ms, FALSE, 0 + 1, b)
    <3>1. Len(ms) = N
      OBVIOUS
    <3> DEFINE o == 0 + 1
    <3>2. o = 0 + 1
      OBVIOUS
    <3> HIDE DEF N, o
    <3>3. BracesInText(ms, N, seqs, t, b, t, 0, o, b)
      BY <1>1, <1>5, <1>7, <2>1, <2>2, <2>3, <3>1, <3>2, Zenon DEF BracesInText
    <3>4. Laid(t, ms, FALSE, o, b)
      BY <3>3, BracedIsLaid, Zenon
    <3> QED  BY <3>2, <3>4
  <2> QED  BY <2>1, <2>3, <2>4
<1>9. ASSUME NEW n \in 1..N, IsObject(ms[n])
      PROVE  ObjectLaid(t, ms[n][3], FALSE, b[n] + 2, b[n + 1] - 1)
  <2> DEFINE seq == seqs[n]
             p == b[n] - 1
  <2>1. /\ ObjectIs(T, seq, ms[n]) /\ Len(ms[n][3]) \in Nat \ {0} /\ Scalarly(T, ms[n][3])
        /\ seq \in Seq(T) /\ Len(seq) \in Nat
    BY <1>1, <1>3, <1>9
  <2>2. DOMAIN ms[n][3] = 1..Len(ms[n][3])
    BY <1>1, <1>9 DEF Shaped, Listed
  <2>3. b[n] \in Nat /\ b[n] >= 2 /\ b[n + 1] = b[n] + Len(seq) + 1 /\ b[n + 1] \in Nat
    <3>1. n \in 1..(N + 1) /\ n + 1 \in 1..(N + 1)
      BY <1>1
    <3> QED  BY <1>6, <3>1
  <2>4. b[n + 1] - 1 <= Len(t)
    <3>1. Laid(t, ms, FALSE, 1, b) /\ n \in 1..Len(ms)
      BY <1>8
    <3>2. \E sign : Token(t, b[n + 1] - 1, FALSE, sign)
      BY <3>1, Zenon DEF Laid
    <3> QED  BY <3>2 DEF Token, Place
  <2>5. \A r \in 1..Len(seq) : t[p + r] = seq[r]
    BY <1>6
  <2> HIDE DEF seq
  <2>6. p \in Nat /\ p + Len(seq) <= Len(t) /\ p + 3 = b[n] + 2
        /\ p + Len(seq) + 1 = b[n + 1] - 1
    BY <1>7, <2>1, <2>3, <2>4
  <2> HIDE DEF p
  <2> DEFINE o == b[n] + 2
             next == b[n + 1] - 1
  <2>7. o = p + 3 /\ next = p + Len(seq) + 1
    BY <2>6
  <2> HIDE DEF o, next
  <2>8. ObjectLaid(t, ms[n][3], FALSE, o, next)
    <3>1. Colon \in T
      BY <1>1
    <3>2. ObjectInText(T, seq, ms[n], t, p, o, next)
      BY <1>7, <2>1, <2>2, <2>5, <2>6, <2>7, <3>1, Zenon DEF ObjectInText
    <3> QED  BY <3>2, ObjectInside
  <2> QED  BY <2>8 DEF o, next
<1>10. TextLaid(t, ms, FALSE, b)
  BY <1>6, <1>8, <1>9 DEF TextLaid
<1> QED  BY <1>4, <1>10 DEF T, t

(* A space behind each token.                                              *)
Spacing(u, t) ==
    /\ Len(u) = 2 * Len(t)
    /\ \A p \in 1..Len(t) : u[2 * p - 1] = t[p] /\ u[2 * p] = Space

LEMMA SpacedIs ==
    ASSUME NEW T, NEW t \in Seq(T), Len(t) > 0
    PROVE  Spacing(Spaced(t), t)
<1> DEFINE n == Len(t)
           U == T \cup {Space}
           seqs == [p \in 1..n |-> <<t[p], Space>>]
           end == [p \in 1..n |-> 2 * p]
           u == Spaced(t)
<1>1. n \in Nat \ {0} /\ DOMAIN t = 1..n /\ \A p \in 1..n : t[p] \in T
  OBVIOUS
<1>2. u = FlattenSeq(seqs)
  BY <1>1, Zenon DEF Spaced, Space
<1>3. \A p \in 1..n : <<t[p], Space>> \in Seq(U)
  BY <1>1
<1>4. /\ seqs \in [1..n -> Seq(U)]
      /\ \A p \in 1..n : Len(seqs[p]) = 2 /\ seqs[p][1] = t[p] /\ seqs[p][2] = Space
  BY <1>3
<1> HIDE DEF n, seqs, U
<1>5. end \in [1..n -> Nat] /\ \A p \in 1..n : end[p] = 2 * p
  BY <1>1
<1> HIDE DEF end
<1>6. EndsAt(seqs, n, end)
  <2>1. 1 \in 1..n /\ \A p \in 2..n : p \in 1..n /\ p - 1 \in 1..n
    BY <1>1
  <2>2. end[1] = Len(seqs[1])
    <3>1. end[1] = 2 * 1
      BY <1>5, <2>1, Zenon
    <3>2. Len(seqs[1]) = 2
      BY <1>4, <2>1, Zenon
    <3> QED  BY <3>1, <3>2
  <2>3. ASSUME NEW i \in 2..n PROVE end[i] = end[i - 1] + Len(seqs[i])
    <3>1. end[i] = 2 * i /\ end[i - 1] = 2 * (i - 1) /\ Len(seqs[i]) = 2 /\ i \in Nat
      BY <1>1, <1>4, <1>5, <2>1
    <3> QED  BY <3>1
  <2> QED  BY <2>2, <2>3 DEF EndsAt
<1>7. LaidEnd(U, FlattenSeq(seqs), seqs, n, end)
  BY <1>1, <1>4, <1>5, <1>6, FlattenedEnds
<1> HIDE DEF u
<1>8. /\ Len(u) = end[n]
      /\ \A j \in 1..n : \A r \in 1..Len(seqs[j]) : u[(end[j] - Len(seqs[j])) + r] = seqs[j][r]
  BY <1>2, <1>7, Zenon DEF LaidEnd
<1>9. Len(u) = 2 * n
  <2>1. n \in 1..n
    BY <1>1
  <2> QED  BY <1>5, <1>8, <2>1
<1>10. ASSUME NEW p \in 1..n
       PROVE  u[2 * p - 1] = t[p] /\ u[2 * p] = Space
  <2>1. \A r \in 1..2 : u[(2 * p - 2) + r] = seqs[p][r]
    <3>1. Len(seqs[p]) = 2 /\ end[p] = 2 * p
      BY <1>4, <1>5
    <3>2. \A r \in 1..Len(seqs[p]) : u[(end[p] - Len(seqs[p])) + r] = seqs[p][r]
      BY <1>8
    <3> QED  BY <3>1, <3>2
  <2>2. 1 \in 1..2 /\ 2 \in 1..2 /\ (2 * p - 2) + 1 = 2 * p - 1 /\ (2 * p - 2) + 2 = 2 * p
    OBVIOUS
  <2>3. u[2 * p - 1] = seqs[p][1] /\ u[2 * p] = seqs[p][2]
    BY <2>1, <2>2
  <2> QED  BY <1>4, <2>3
<1> QED  BY <1>9, <1>10 DEF Spacing, n, u

LEMMA SpacedToken ==
    ASSUME NEW u, NEW t, Spacing(u, t), Len(t) \in Nat, NEW p \in Nat \ {0}, NEW token,
           Token(t, p, FALSE, token)
    PROVE  Token(u, p, TRUE, token)
<1>1. p \in 1..Len(t) /\ t[p] = token
  BY DEF Token, Place
<1>2. u[2 * p - 1] = token /\ u[2 * p] = Space /\ Len(u) = 2 * Len(t)
  BY <1>1 DEF Spacing
<1> QED  BY <1>1, <1>2 DEF Token, Place

LEMMA SpacedLaid ==
    ASSUME NEW u, NEW t, Spacing(u, t), NEW ms, NEW o, NEW b, Laid(t, ms, FALSE, o, b)
    PROVE  Laid(u, ms, TRUE, o, b)
<1>1. /\ Len(t) \in Nat /\ o \in Nat \ {0} /\ Len(ms) \in Nat \ {0}
      /\ \A n \in 1..(Len(ms) + 1) : b[n] \in Nat /\ b[n] > o
      /\ b[1] = o + 1 /\ Token(t, o, FALSE, Opening)
      /\ \A n \in 1..Len(ms) :
           /\ MemberLaid(t, ms[n], FALSE, b[n], b[n + 1])
           /\ Token(t, b[n + 1] - 1, FALSE, IF n = Len(ms) THEN Closing ELSE Comma)
  BY Zenon DEF Laid
<1>2. Len(u) \in Nat /\ TRUE \in BOOLEAN
  BY <1>1 DEF Spacing
<1>3. \A p \in Nat \ {0} : \A token : Token(t, p, FALSE, token) => Token(u, p, TRUE, token)
  BY <1>1, SpacedToken
<1>4. ASSUME NEW n \in 1..Len(ms)
      PROVE  /\ MemberLaid(u, ms[n], TRUE, b[n], b[n + 1])
             /\ Token(u, b[n + 1] - 1, TRUE, IF n = Len(ms) THEN Closing ELSE Comma)
  <2>1. n \in 1..(Len(ms) + 1) /\ n + 1 \in 1..(Len(ms) + 1)
    BY <1>1
  <2>2. b[n] \in Nat /\ b[n] > o /\ b[n + 1] \in Nat /\ b[n + 1] > o
    BY <1>1, <2>1
  <2>3. /\ b[n] \in Nat \ {0} /\ b[n] + 1 \in Nat \ {0} /\ b[n] + 2 \in Nat \ {0}
        /\ b[n + 1] - 1 \in Nat \ {0}
    BY <1>1, <2>2
  <2>4. /\ MemberLaid(t, ms[n], FALSE, b[n], b[n + 1])
        /\ Token(t, b[n + 1] - 1, FALSE, IF n = Len(ms) THEN Closing ELSE Comma)
    BY <1>1
  <2>5. MemberLaid(u, ms[n], TRUE, b[n], b[n + 1])
    BY <1>3, <2>3, <2>4, Zenon DEF MemberLaid
  <2>6. Token(u, b[n + 1] - 1, TRUE, IF n = Len(ms) THEN Closing ELSE Comma)
    BY <1>3, <2>3, <2>4, Zenon
  <2> QED  BY <2>5, <2>6
<1>5. Token(u, o, TRUE, Opening)
  BY <1>1, <1>3
<1> QED  BY <1>1, <1>2, <1>4, <1>5, Zenon DEF Laid

LEMMA SpacedText ==
    ASSUME NEW u, NEW t, Spacing(u, t), NEW ms, NEW b, TextLaid(t, ms, FALSE, b)
    PROVE  TextLaid(u, ms, TRUE, b)
<1>1. Laid(u, ms, TRUE, 1, b)
  BY SpacedLaid DEF TextLaid
<1>2. ASSUME NEW n \in 1..Len(ms), IsObject(ms[n])
      PROVE  ObjectLaid(u, ms[n][3], TRUE, b[n] + 2, b[n + 1] - 1)
  <2>1. ObjectLaid(t, ms[n][3], FALSE, b[n] + 2, b[n + 1] - 1)
    BY <1>2 DEF TextLaid
  <2> DEFINE inner == ms[n][3]
             o == b[n] + 2
             end == b[n + 1] - 1
  <2> HIDE DEF inner, o, end
  <2>2. PICK c : Laid(t, inner, FALSE, o, c) /\ c[Len(inner) + 1] = end
    BY <2>1 DEF ObjectLaid, inner, o, end
  <2>3. Laid(u, inner, TRUE, o, c)
    BY <2>2, SpacedLaid
  <2>4. ObjectLaid(u, inner, TRUE, o, end)
    BY <2>2, <2>3 DEF ObjectLaid
  <2> QED  BY <2>4 DEF inner, o, end
<1> QED  BY <1>1, <1>2 DEF TextLaid

(* Different names make different keys.                                    *)
LEMMA NamesAreDistinct ==
    ASSUME NEW ms, NEW sp, \A n, k \in 1..Len(ms) : ms[n][1] = ms[k][1] => n = k
    PROVE  Distinct(ms, sp)
<1>1. \A n \in 1..Len(ms) : RealKey(ms[n])[2] = ms[n][1] /\ Stray(ms[n])[2] = ms[n][1]
  BY DEF RealKey, Stray
<1>2. \A m, n \in 1..Len(ms) : m # n => RealKey(ms[m]) # RealKey(ms[n])
  BY <1>1
<1>3. ASSUME NEW m \in 1..Len(ms), NEW n \in 1..Len(ms), CanStray(ms, sp, m)
      PROVE  Stray(ms[m]) # RealKey(ms[n])
  <2>1. CASE m # n
    BY <1>1, <2>1
  <2>2. CASE m = n
    <3>1. RealKey(ms[n]) = <<"o", ms[n][1]>>
      BY <1>3, <2>2, Zenon DEF CanStray, RealKey
    <3>2. RealKey(ms[n])[1] = "o" /\ Stray(ms[m])[1] = "s"
      BY <3>1 DEF Stray
    <3> QED  BY <3>2
  <2> QED  BY <2>1, <2>2
<1> QED  BY <1>2, <1>3 DEF Distinct

LEMMA ShapedLaid ==
    ASSUME NEW ms, Shaped(ms), NEW sp, Apart(ms, sp), Distinct(ms, sp),
           \A n \in 1..Len(ms) : IsObject(ms[n]) => Distinct(ms[n][3], sp),
           NEW t, NEW b, TextLaid(t, ms, sp, b)
    PROVE  AllLaid(t, ms, sp, b)
<1>1. Laid(t, ms, sp, 1, b) /\ (~sp => Len(t) = b[Len(ms) + 1] - 1)
  BY DEF TextLaid
<1>2. ASSUME NEW n \in 1..Len(ms), IsObject(ms[n])
      PROVE  \E c : InnerLaid(t, ms, sp, b, n, c)
  <2> DEFINE inner == ms[n][3]
  <2>1. Listed(inner, ScalarTypes) /\ Distinct(inner, sp)
    BY <1>2 DEF Shaped
  <2>2. PICK c : Laid(t, inner, sp, b[n] + 2, c) /\ c[Len(inner) + 1] = b[n + 1] - 1
    BY <1>2, Zenon DEF TextLaid, ObjectLaid
  <2> HIDE DEF inner
  <2>3. Plain(inner)
    BY <2>1, ScalarTyped DEF Plain, Listed
  <2>4. InnerLaid(t, ms, sp, b, n, c)
    BY <2>1, <2>2, <2>3, Zenon DEF InnerLaid, inner
  <2> QED  BY <2>4
<1> QED  BY <1>1, <1>2 DEF AllLaid

LEMMA ProperLaid ==
    ASSUME NEW ms, ProperMembers(ms), NEW sp, Apart(ms, sp),
           NEW t, NEW b, TextLaid(t, ms, sp, b)
    PROVE  AllLaid(t, ms, sp, b)
<1>1. Shaped(ms) /\ DOMAIN ms = 1..Len(ms)
  BY ProperIsShaped, MembersAre DEF ProperMembers
<1>2. Distinct(ms, sp)
  BY MembersAre, NamesAreDistinct DEF ProperMembers
<1>3. \A n \in 1..Len(ms) : IsObject(ms[n]) => Distinct(ms[n][3], sp)
  BY <1>1, MembersAre, NamesAreDistinct DEF ProperMembers
<1> QED  BY <1>1, <1>2, <1>3, ShapedLaid

LEMMA DocumentLaid ==
    ASSUME NEW s, s.kind = "document", Proper(s), Apart(s.members, s.spaced)
    PROVE  \E b : AllLaid(s.text, s.members, s.spaced, b)
<1> DEFINE ms == s.members
           sp == s.spaced
           t == Tokens(ms)
<1>1. sp \in BOOLEAN /\ s = Document(ms, sp) /\ ProperMembers(ms)
  BY Zenon DEF Proper, ProperMembers
<1>2. s.text = IF sp THEN Spaced(t) ELSE t
  <2>1. Document(ms, sp).text = IF sp THEN Spaced(t) ELSE t
    BY DEF Document
  <2> QED  BY <1>1, <2>1, Zenon
<1>3. PICK b : TextLaid(t, ms, FALSE, b)
  BY <1>1, ProperIsShaped, TokensLaid
<1>4. t \in Seq(AllTokens(ms))
  BY <1>1, ProperIsShaped, TokensLaid
<1> HIDE DEF t, ms, sp
<1>5. CASE sp
  <2>1. Len(t) > 0
    <3>1. Token(t, 1, FALSE, Opening)
      BY <1>3, Zenon DEF TextLaid, Laid
    <3>2. Len(t) \in Nat
      BY <1>4
    <3> QED  BY <3>1, <3>2 DEF Token, Place
  <2>2. Spacing(Spaced(t), t)
    BY <1>4, <2>1, SpacedIs
  <2>3. TextLaid(Spaced(t), ms, TRUE, b)
    BY <1>3, <2>2, SpacedText
  <2>4. sp = TRUE
    BY <1>1, <1>5
  <2>5. AllLaid(Spaced(t), ms, sp, b)
    BY <1>1, <2>3, <2>4, ProperLaid DEF ms, sp
  <2>6. s.text = Spaced(t)
    BY <1>2, <1>5
  <2> QED  BY <2>5, <2>6 DEF ms, sp
<1>6. CASE ~sp
  <2>1. sp = FALSE
    BY <1>1, <1>6
  <2>2. AllLaid(t, ms, sp, b)
    BY <1>1, <1>3, <2>1, ProperLaid DEF ms, sp
  <2>3. s.text = t
    BY <1>2, <1>6
  <2> QED  BY <2>2, <2>3 DEF ms, sp
<1> QED  BY <1>5, <1>6

-----------------------------------------------------------------------------
(* The texts of the Go wrapper.                                            *)

LEMMA GoMembers ==
    ASSUME NEW c
    PROVE  /\ Len(Marshalled(c)) = 6
           /\ \A n \in 1..6 : Marshalled(c)[n][2] \in {"i", "b"}
           /\ \A m, n \in 1..6 : Marshalled(c)[m][1] = Marshalled(c)[n][1] => m = n
<1> DEFINE ms == Marshalled(c)
<1>1. Len(ms) = 6
  BY DEF Marshalled
<1>2. /\ ms[1][1] = "shards_cnt" /\ ms[2][1] = "force_set" /\ ms[3][1] = "expire_ns"
      /\ ms[4][1] = "vacuum_ns" /\ ms[5][1] = "max_size" /\ ms[6][1] = "verbose_lvl"
  BY DEF Marshalled
<1>3. \A n \in 1..6 : n \in {1, 2, 3, 4, 5, 6}
  OBVIOUS
<1>4. \A n \in 1..6 : ms[n][2] \in {"i", "b"}
  BY <1>3 DEF Marshalled
<1> HIDE DEF ms
<1>5. \A m, n \in 1..6 : ms[m][1] = ms[n][1] => m = n
  BY <1>2, <1>3
<1> QED  BY <1>1, <1>4, <1>5 DEF ms

LEMMA GoTokens ==
    ASSUME NEW c
    PROVE  LET ms == Marshalled(c)
               t == GoText(ms) IN
           /\ Len(t) = 25
           /\ t[1] = Opening
           /\ \A k \in 1..6 : /\ t[4 * k - 2] = NameOf(ms[k])
                              /\ t[4 * k - 1] = Colon
                              /\ t[4 * k] = ValueOf(ms[k])
                              /\ t[4 * k + 1] = IF k = 6 THEN Closing ELSE Comma
<1> DEFINE ms == Marshalled(c)
           t == GoText(ms)
<1>1. Len(ms) = 6
  BY GoMembers
<1> HIDE DEF ms
<1>2. t = [p \in 1..(4 * Len(ms) + 1) |->
             CASE p = 1                 -> Opening
               [] p % 4 = 2             -> NameOf(ms[(p + 2) \div 4])
               [] p % 4 = 3             -> Colon
               [] p % 4 = 0             -> ValueOf(ms[(p + 2) \div 4])
               [] p = 4 * Len(ms) + 1   -> Closing
               [] OTHER                 -> Comma]
  BY Zenon DEF GoText, Opening, Closing, Colon, Comma, NameOf, ValueOf
<1>3. 4 * Len(ms) + 1 = 25
  BY <1>1
<1> HIDE DEF t
<1>4. Len(t) = 25
  BY <1>2, <1>3
<1>5. \A p \in 1..25 :
        t[p] = CASE p = 1       -> Opening
                 [] p % 4 = 2   -> NameOf(ms[(p + 2) \div 4])
                 [] p % 4 = 3   -> Colon
                 [] p % 4 = 0   -> ValueOf(ms[(p + 2) \div 4])
                 [] p = 25      -> Closing
                 [] OTHER       -> Comma
  BY <1>2, <1>3
<1>6. t[1] = Opening
  BY <1>5
<1>7. ASSUME NEW k \in 1..6
      PROVE  /\ t[4 * k - 2] = NameOf(ms[k])
             /\ t[4 * k - 1] = Colon
             /\ t[4 * k] = ValueOf(ms[k])
             /\ t[4 * k + 1] = IF k = 6 THEN Closing ELSE Comma
  <2> DEFINE p == 4 * k - 2
  <2>1. p \in 1..25 /\ p # 1 /\ p % 4 = 2 /\ (p + 2) \div 4 = k
    OBVIOUS
  <2>2. p + 1 \in 1..25 /\ p + 1 # 1 /\ (p + 1) % 4 = 3
    OBVIOUS
  <2>3. p + 2 \in 1..25 /\ p + 2 # 1 /\ (p + 2) % 4 = 0 /\ ((p + 2) + 2) \div 4 = k
    OBVIOUS
  <2>4. p + 3 \in 1..25 /\ p + 3 # 1 /\ (p + 3) % 4 = 1 /\ (p + 3 = 25) = (k = 6)
    OBVIOUS
  <2>5. p + 1 = 4 * k - 1 /\ p + 2 = 4 * k /\ p + 3 = 4 * k + 1
    OBVIOUS
  <2> HIDE DEF p
  <2>6. t[p] = NameOf(ms[k])
    BY <1>5, <2>1
  <2>7. t[p + 1] = Colon
    BY <1>5, <2>2
  <2>8. t[p + 2] = ValueOf(ms[k])
    BY <1>5, <2>3
  <2>9. t[p + 3] = IF k = 6 THEN Closing ELSE Comma
    BY <1>5, <2>4
  <2> QED  BY <2>5, <2>6, <2>7, <2>8, <2>9 DEF p
<1> QED  BY <1>4, <1>6, <1>7 DEF ms, t

LEMMA GoLaid ==
    ASSUME NEW c
    PROVE  \E b : AllLaid(GoText(Marshalled(c)), Marshalled(c), FALSE, b)
<1> DEFINE ms == Marshalled(c)
           t == GoText(ms)
           b == [n \in 1..7 |-> 4 * n - 2]
<1>1. /\ Len(ms) = 6 /\ \A n \in 1..6 : ms[n][2] \in {"i", "b"}
      /\ \A m, n \in 1..6 : ms[m][1] = ms[n][1] => m = n
  BY GoMembers
<1>2. \A n \in 1..6 : ~IsObject(ms[n]) /\ IsScalar(ms[n]) /\ ms[n][2] # "none"
  BY <1>1 DEF IsObject, IsScalar
<1>3. /\ Len(t) = 25 /\ t[1] = Opening
      /\ \A k \in 1..6 : /\ t[4 * k - 2] = NameOf(ms[k]) /\ t[4 * k - 1] = Colon
                         /\ t[4 * k] = ValueOf(ms[k])
                         /\ t[4 * k + 1] = IF k = 6 THEN Closing ELSE Comma
  BY GoTokens
<1> HIDE DEF ms, t
<1>4. \A p \in 1..25 : Token(t, p, FALSE, t[p])
  BY <1>3 DEF Token, Place
<1>5. ASSUME NEW n \in 1..6
      PROVE  /\ MemberLaid(t, ms[n], FALSE, b[n], b[n + 1])
             /\ Token(t, b[n + 1] - 1, FALSE, IF n = 6 THEN Closing ELSE Comma)
  <2> DEFINE p == 4 * n - 2
  <2>1. b[n] = p /\ b[n + 1] = p + 4 /\ (p + 4) - 1 = p + 3
    OBVIOUS
  <2>2. /\ p \in 1..25 /\ p + 1 \in 1..25 /\ p + 2 \in 1..25 /\ p + 3 \in 1..25
        /\ p + 1 = 4 * n - 1 /\ p + 2 = 4 * n /\ p + 3 = 4 * n + 1
    OBVIOUS
  <2>3. /\ t[p] = NameOf(ms[n]) /\ t[p + 1] = Colon /\ t[p + 2] = ValueOf(ms[n])
        /\ t[p + 3] = IF n = 6 THEN Closing ELSE Comma
    BY <1>3, <2>2
  <2> HIDE DEF p
  <2>4. /\ Token(t, p, FALSE, NameOf(ms[n])) /\ Token(t, p + 1, FALSE, Colon)
        /\ Token(t, p + 2, FALSE, ValueOf(ms[n]))
        /\ Token(t, p + 3, FALSE, IF n = 6 THEN Closing ELSE Comma)
    BY <1>4, <2>2, <2>3
  <2>5. MemberLaid(t, ms[n], FALSE, p, p + 4)
    BY <1>2, <2>4 DEF MemberLaid
  <2> HIDE DEF b
  <2> QED  BY <2>1, <2>4, <2>5
<1>6. \A n \in 1..7 : b[n] \in Nat /\ b[n] > 1
  OBVIOUS
<1>7. b[1] = 2 /\ b[7] = 26
  OBVIOUS
<1> HIDE DEF b
<1>8. Laid(t, ms, FALSE, 1, b)
  <2>1. Token(t, 1, FALSE, Opening)
    <3>1. 1 \in 1..25 /\ t[1] = Opening
      BY <1>3
    <3>2. Token(t, 1, FALSE, t[1])
      BY <1>4, <3>1, Zenon
    <3> QED  BY <3>1, <3>2, Zenon
  <2>2. Len(t) \in Nat /\ 1 \in Nat \ {0} /\ Len(ms) \in Nat \ {0} /\ FALSE \in BOOLEAN
    BY <1>1, <1>3
  <2>3. b[1] = 1 + 1
    <3>1. 1 + 1 = 2
      OBVIOUS
    <3> QED  BY <1>7, <3>1, Zenon
  <2>4. \A n \in 1..(Len(ms) + 1) : b[n] \in Nat /\ b[n] > 1
    <3>1. Len(ms) + 1 = 7
      BY <1>1
    <3> QED  BY <1>6, <3>1, Zenon
  <2>5. \A n \in 1..Len(ms) :
          /\ MemberLaid(t, ms[n], FALSE, b[n], b[n + 1])
          /\ Token(t, b[n + 1] - 1, FALSE, IF n = Len(ms) THEN Closing ELSE Comma)
    BY <1>1, <1>5
  <2> QED  BY <2>1, <2>2, <2>3, <2>4, <2>5, Zenon DEF Laid
<1>9. Distinct(ms, FALSE)
  <2>1. \A m, n \in 1..Len(ms) : ms[m][1] = ms[n][1] => m = n
    BY <1>1
  <2> QED  BY <2>1, NamesAreDistinct
<1>10. Apart(ms, FALSE)
  BY <1>1, <1>2 DEF Apart
<1>11. AllLaid(t, ms, FALSE, b)
  <2>1. Len(t) = b[Len(ms) + 1] - 1
    <3>1. Len(ms) + 1 = 7
      BY <1>1
    <3> QED  BY <1>3, <1>7, <3>1
  <2>2. \A n \in 1..Len(ms) : ~IsObject(ms[n])
    BY <1>1, <1>2
  <2> QED  BY <1>8, <1>9, <1>10, <2>1, <2>2, Zenon DEF AllLaid
<1> QED  BY <1>11 DEF ms, t

-----------------------------------------------------------------------------
(* A text that is being parsed, and what has come of it.                   *)

LEMMA FirstFrame ==
    ASSUME NEW ms, NEW sp \in BOOLEAN, NEW t, NEW b
    PROVE  Parsing(<<Frame(1)>>, t, ms, sp, b)
<1> DEFINE f == Frame(1)
<1>1. /\ IsFrame(f) /\ f.offset = 1 /\ f.i = 1 /\ f.captured_len = 0 /\ f.l = TRUE
      /\ f.left = <<>> /\ f.right = <<>> /\ f.data = NoData
  BY DEF Frame, IsFrame
<1> HIDE DEF f
<1>2. Place(1, sp) = 1
  BY DEF Place
<1>3. InStart(f, t, ms, sp, 1)
  BY <1>1, <1>2 DEF InStart, Stands, Before
<1>4. Midway(f, t, ms, sp, 1, b)
  BY <1>1, <1>2, <1>3 DEF Midway, Inside
<1> QED  BY <1>4 DEF Parsing, Alone, f

ReadsInv ==
    source # NoSource /\ Proper(source) /\ Apart(source.members, source.spaced) =>
      LET ms == source.members
          sp == source.spaced IN
      /\ stage = "parse" =>
           \E b : AllLaid(text, ms, sp, b) /\ Parsing(frames, text, ms, sp, b)
      /\ stage = "parsed" => Known(json, ms, sp, Len(ms))

LEMMA ReadsInvInit == StartupInit => ReadsInv
<1> SUFFICES ASSUME StartupInit, source # NoSource, Proper(source),
                    Apart(source.members, source.spaced)
             PROVE  ReadsInv
  BY DEF ReadsInv
<1>1. source \in Sources /\ text = source.text /\ frames = <<Frame(1)>> /\ stage = "parse"
  BY DEF StartupInit
<1>2. \E b : AllLaid(text, source.members, source.spaced, b)
  <2>1. source.kind \in {"document", "go"}
    BY <1>1, SourcesAssumption
  <2>2. CASE source.kind = "document"
    BY <1>1, <2>2, DocumentLaid
  <2>3. CASE source.kind = "go"
    <3> DEFINE c == source.config
    <3>1. source = GoSource(c)
      BY <1>1, <2>3, SourcesAssumption
    <3> HIDE DEF c
    <3>2. /\ source.text = GoText(Marshalled(c)) /\ source.members = Marshalled(c)
          /\ source.spaced = FALSE
      <4>1. /\ GoSource(c).text = GoText(Marshalled(c)) /\ GoSource(c).members = Marshalled(c)
            /\ GoSource(c).spaced = FALSE
        BY DEF GoSource
      <4> QED  BY <3>1, <4>1, Zenon
    <3>3. \E b : AllLaid(GoText(Marshalled(c)), Marshalled(c), FALSE, b)
      BY GoLaid
    <3> QED  BY <1>1, <3>2, <3>3
  <2> QED  BY <2>1, <2>2, <2>3
<1>3. PICK b : AllLaid(text, source.members, source.spaced, b)
  BY <1>2
<1>4. source.spaced \in BOOLEAN
  BY <1>3 DEF AllLaid, Laid
<1>5. Parsing(frames, text, source.members, source.spaced, b)
  BY <1>1, <1>4, FirstFrame
<1> QED  BY <1>1, <1>3, <1>5 DEF ReadsInv

LEMMA ReadsInvStep == ReadsInv /\ [StartupNext]_startupVars => ReadsInv'
<1> SUFFICES ASSUME ReadsInv, [StartupNext]_startupVars,
                    source' # NoSource, Proper(source'), Apart(source'.members, source'.spaced)
             PROVE  ReadsInv'
  BY DEF ReadsInv, Proper, Apart, Document, Members, NoSource
<1>0. source' = source
  BY DEF StartupNext, Parse, Construct, ConstructPlain, RoundTrip, startupVars
<1> DEFINE ms == source.members
           sp == source.spaced
<1>1. /\ stage = "parse" =>
           \E b : AllLaid(text, ms, sp, b) /\ Parsing(frames, text, ms, sp, b)
      /\ stage = "parsed" => Known(json, ms, sp, Len(ms))
  BY <1>0 DEF ReadsInv
<1>2. SUFFICES /\ stage' = "parse" =>
                    \E b : AllLaid(text', ms, sp, b) /\ Parsing(frames', text', ms, sp, b)
               /\ stage' = "parsed" => Known(json', ms, sp, Len(ms))
  BY <1>0 DEF ReadsInv
<1> HIDE DEF ms, sp
<1>3. CASE Parse
  <2>1. ParseStep
    BY <1>3 DEF Parse
  <2>2. CASE stage = "parse"
    <3>1. PICK b : AllLaid(text, ms, sp, b) /\ Parsing(frames, text, ms, sp, b)
      BY <1>1, <2>2
    <3>2. (Quiet /\ Parsing(frames', text, ms, sp, b)) \/ Done(ms, sp)
      BY <2>1, <3>1, AloneStep, NestedStep DEF Parsing
    <3>3. CASE Quiet /\ Parsing(frames', text, ms, sp, b)
      BY <2>2, <3>1, <3>3 DEF Quiet
    <3>4. CASE Done(ms, sp)
      BY <2>2, <3>4 DEF Done
    <3> QED  BY <3>2, <3>3, <3>4
  <2>3. CASE stage # "parse"
    <3>1. stage = "reparse" /\ stage' \in {"reparse", "reparsed"}
      BY <2>1, <2>3, Zenon
      DEF ParseStep, SkipSpace, ReadColon, EnterOwn, CallNested, ReadComma, ReadBrace, EndOfText,
          Collect, Reads, More, Return
    <3> QED  BY <3>1
  <2> QED  BY <2>2, <2>3
<1>4. CASE Construct \/ ConstructPlain \/ UNCHANGED startupVars
  <2>1. UNCHANGED <<text, frames, json, stage>>
    BY <1>4 DEF Construct, ConstructPlain, startupVars, jsonVars
  <2> QED  BY <1>1, <2>1
<1>5. CASE RoundTrip
  BY <1>5 DEF RoundTrip, Reparse
<1> QED  BY <1>3, <1>4, <1>5 DEF StartupNext

LEMMA ReadsAlways == StartupSpec => []ReadsInv
BY ReadsInvInit, ReadsInvStep, PTL DEF StartupSpec

(* What is known of the data is what ReadsBack says of it.                 *)
LEMMA ReadWord ==
    ASSUME NEW member, member[2] \in ScalarTypes
    PROVE  /\ Type1(member) = member[2] /\ ~IsObject(member)
           /\ Files(member) = (member[2] # "null") /\ RealKey(member) = <<member[2], member[1]>>
           /\ RightValue(Words(member)) = Value(member[2], member[3])
<1> DEFINE word == ValueOf(member)
           words == <<word>>
<1>1. IsScalar(member) /\ ~IsObject(member) /\ member[2] # "none"
  BY ScalarTyped
<1>2. Words(member) = words
  BY <1>1, Zenon DEF Words
<1>3. Type(word) = member[2] /\ word[2] = member[3] /\ Len(words) = 1 /\ words[1] = word
  BY DEF ValueOf, Word, Type
<1> HIDE DEF words, word
<1>4. RightType(words) = member[2]
  <2>1. CASE member[2] = "s"
    BY <1>3, <2>1 DEF RightType
  <2>2. CASE member[2] # "s"
    <3>1. member[2] \in {"i", "f", "b", "null"}
      BY <2>2, Zenon DEF ScalarTypes
    <3> QED  BY <1>3, <3>1 DEF RightType
  <2> QED  BY <2>1, <2>2
<1>5. Type1(member) = member[2]
  BY <1>2, <1>4 DEF Type1
<1>6. RealKey(member) = <<member[2], member[1]>>
  BY <1>1, <1>5, Zenon DEF RealKey
<1>7. Files(member) = (member[2] # "null")
  BY <1>1, <1>5 DEF Files
<1>8. RightValue(words) = Value(member[2], member[3])
  <2>1. CASE member[2] = "s"
    <3>1. RightValue(words) = words
      <4>1. words # <<>>
        BY <1>3
      <4> QED  BY <1>4, <2>1, <4>1, Zenon DEF RightValue
    <3>2. words = <<Word("s", member[3])>>
      BY <2>1, Zenon DEF words, word, ValueOf
    <3>3. Value(member[2], member[3]) = <<Word("s", member[3])>>
      BY <2>1, Zenon DEF Value
    <3> QED  BY <3>1, <3>2, <3>3
  <2>2. CASE member[2] = "i"
    <3>1. RightValue(words) = Atoi64(member[3])
      BY <1>3, <1>4, <2>2 DEF RightValue
    <3> QED  BY <2>2, <3>1 DEF Value
  <2>3. CASE member[2] # "s" /\ member[2] # "i"
    <3>1. RightValue(words) = member[3]
      BY <1>3, <1>4, <2>3 DEF RightValue
    <3> QED  BY <2>3, <3>1 DEF Value
  <2> QED  BY <2>1, <2>2, <2>3
<1> QED  BY <1>1, <1>2, <1>5, <1>6, <1>7, <1>8

LEMMA OneHolder == ASSUME NEW name PROVE Holders(json, <<name>>) = {json}
BY DEF Holders

LEMMA TwoHolders ==
    ASSUME NEW outer, NEW name, <<"o", outer>> \in DOMAIN json
    PROVE  json[<<"o", outer>>] \in Holders(json, <<outer, name>>)
<1> DEFINE path == <<outer, name>>
<1>1. Len(path) = 2 /\ path[1] = outer
  OBVIOUS
<1>2. Holders(json, path) = {json[key] : key \in {<<"o", path[1]>>} \cap DOMAIN json}
  BY <1>1 DEF Holders
<1> HIDE DEF path
<1>3. <<"o", outer>> \in {<<"o", path[1]>>} \cap DOMAIN json
  BY <1>1
<1> QED  BY <1>2, <1>3 DEF path

LEMMA KeptScalar ==
    ASSUME NEW member, member[2] \in ScalarTypes, NEW path, NEW holder,
           holder \in Holders(json, path), path[Len(path)] = member[1],
           ScalarRead(holder, member)
    PROVE  Kept(member, path)
<1> SUFFICES ASSUME member[2] # "null" PROVE Holds(path, member[2], member[3])
  BY Zenon DEF Kept
<1>1. /\ RealKey(member) \in DOMAIN holder
      /\ holder[RealKey(member)] = RightValue(Words(member))
  BY ReadWord DEF ScalarRead
<1>2. RealKey(member) = <<member[2], path[Len(path)]>>
  BY ReadWord
<1>3. RightValue(Words(member)) = Value(member[2], member[3])
  BY ReadWord
<1> QED  BY <1>1, <1>2, <1>3, Zenon DEF Holds

LEMMA MemberReadsBack ==
    ASSUME NEW member, member[2] \in ScalarTypes \cup {"o"},
           IsObject(member) => Members(member[3], ScalarTypes), MemberRead(json, member)
    PROVE  ReadBack(member)
<1>1. CASE ~IsObject(member)
  <2> DEFINE path == <<member[1]>>
  <2>1. member[2] \in ScalarTypes
    BY <1>1, Zenon DEF IsObject
  <2>2. path[Len(path)] = member[1]
    OBVIOUS
  <2>3. json \in Holders(json, path)
    BY OneHolder
  <2>4. ScalarRead(json, member)
    BY <1>1, Zenon DEF MemberRead
  <2> HIDE DEF path
  <2>5. Kept(member, path)
    BY <2>1, <2>2, <2>3, <2>4, KeptScalar
  <2> QED  BY <1>1, <2>5, Zenon DEF ReadBack, path
<1>2. CASE IsObject(member)
  <2> DEFINE holder == json[<<"o", member[1]>>]
             inner == member[3]
  <2>1. RealKey(member) = <<"o", member[1]>>
    BY <1>2, Zenon DEF RealKey
  <2>2. <<"o", member[1]>> \in DOMAIN json /\ ScalarsRead(holder, inner)
    BY <1>2, <2>1, Zenon DEF MemberRead
  <2>3. DOMAIN inner = 1..Len(inner) /\ \A n \in 1..Len(inner) : inner[n][2] \in ScalarTypes
    BY <1>2, MembersAre
  <2>4. ASSUME NEW n \in DOMAIN inner
        PROVE  Kept(inner[n], <<member[1], inner[n][1]>>)
    <3> DEFINE path == <<member[1], inner[n][1]>>
               m == inner[n]
    <3>1. path[Len(path)] = m[1]
      OBVIOUS
    <3>2. holder \in Holders(json, path)
      BY <2>2, TwoHolders
    <3>3. ScalarRead(holder, m) /\ m[2] \in ScalarTypes
      BY <2>2, <2>3 DEF ScalarsRead
    <3> HIDE DEF path, m, holder
    <3>4. Kept(m, path)
      BY <3>1, <3>2, <3>3, KeptScalar
    <3> QED  BY <3>4 DEF m, path
  <2> QED  BY <1>2, <2>4, Zenon DEF ReadBack
<1> QED  BY <1>1, <1>2

LEMMA KeyReadsBack ==
    ASSUME NEW ms, NEW sp, \A n \in 1..Len(ms) : ms[n][2] \in ScalarTypes \cup {"o"},
           NEW data, NEW key, NEW N, KeyKnown(data, ms, sp, N, key), N = Len(ms)
    PROVE  \E n \in 1..Len(ms) : \/ key = <<ms[n][2], ms[n][1]>>
                                 \/ IsObject(ms[n]) /\ key = <<"s", ms[n][1]>>
<1>1. PICK m \in 1..N : \/ Files(ms[m]) /\ key = RealKey(ms[m])
                        \/ CanStray(ms, sp, m) /\ key = Stray(ms[m])
  BY Zenon DEF KeyKnown
<1>2. CASE CanStray(ms, sp, m) /\ key = Stray(ms[m])
  BY <1>2, Zenon DEF CanStray, Stray
<1>3. CASE key = RealKey(ms[m])
  <2>1. CASE IsObject(ms[m])
    BY <1>3, <2>1, Zenon DEF RealKey, IsObject
  <2>2. CASE ~IsObject(ms[m])
    <3>1. ms[m][2] \in ScalarTypes
      BY <2>2, Zenon DEF IsObject
    <3> QED  BY <1>3, <3>1, ReadWord
  <2> QED  BY <2>1, <2>2
<1> QED  BY <1>1, <1>2, <1>3

LEMMA ProperSource ==
    ASSUME NEW s, s.kind \in {"document", "go"}, Proper(s),
           s.kind = "go" => s = GoSource(s.config)
    PROVE  ProperMembers(s.members)
<1>1. CASE s.kind = "document"
  BY <1>1, Zenon DEF Proper, ProperMembers
<1>2. CASE s.kind = "go"
  <2> DEFINE c == s.config
             ms == Marshalled(c)
  <2>1. s.members = ms
    <3> HIDE DEF c
    <3>1. GoSource(c).members = ms
      BY DEF GoSource
    <3> QED  BY <1>2, <3>1, Zenon DEF c
  <2>2. /\ Len(ms) = 6 /\ \A n \in 1..6 : ms[n][2] \in {"i", "b"}
        /\ \A m, n \in 1..6 : ms[m][1] = ms[n][1] => m = n
    BY GoMembers
  <2>3. ms \in Seq(Range(ms)) /\ DOMAIN ms = 1..6
    <3>1. DOMAIN ms = 1..6
      BY DEF Marshalled
    <3>2. \A n \in 1..6 : ms[n] \in Range(ms)
      BY <3>1, Zenon DEF Range
    <3> QED  BY <3>1, <3>2 DEF Marshalled
  <2> HIDE DEF ms
  <2>4. ms # <<>>
    BY <2>2
  <2>5. \A n \in 1..6 : ms[n][2] \in ScalarTypes /\ ~IsObject(ms[n])
    BY <2>2 DEF ScalarTypes, IsObject
  <2> QED  BY <2>1, <2>2, <2>3, <2>4, <2>5 DEF ProperMembers, Members
<1> QED  BY <1>1, <1>2

SourceInv == source # NoSource => source \in Sources

LEMMA SourceAlways == StartupSpec => []SourceInv
<1>1. StartupInit => SourceInv
  BY DEF StartupInit, SourceInv
<1>2. SourceInv /\ [StartupNext]_startupVars => SourceInv'
  <2> SUFFICES ASSUME SourceInv, [StartupNext]_startupVars PROVE SourceInv'
    OBVIOUS
  <2>1. source' = source
    BY DEF StartupNext, Parse, Construct, ConstructPlain, RoundTrip, startupVars
  <2> QED  BY <2>1 DEF SourceInv, NoSource
<1> QED  BY <1>1, <1>2, PTL DEF StartupSpec

(* Json::unmarshal, its nested calls and what it gets wrong behind an      *)
(* object: a document of any number of members, in both layouts, is parsed *)
(* to its members and no others, with the exceptions ReadsBack names.      *)
THEOREM DocumentsReadBack == StartupSpec => []ReadsBack
<1>1. ReadsInv /\ SourceInv => ReadsBack
  <2> SUFFICES ASSUME ReadsInv, SourceInv, stage = "parsed", source # NoSource, Proper(source),
                      \A n \in DOMAIN source.members :
                        ~(~source.spaced /\ n > 1 /\ IsObject(source.members[n - 1])
                            /\ IsObject(source.members[n]))
               PROVE  /\ \A n \in DOMAIN source.members :
                           (~source.spaced /\ n > 1 /\ IsObject(source.members[n - 1]))
                             \/ ReadBack(source.members[n])
                      /\ \A key \in DOMAIN json :
                           \E n \in DOMAIN source.members :
                             \/ key = <<source.members[n][2], source.members[n][1]>>
                             \/ /\ IsObject(source.members[n])
                                /\ key = <<"s", source.members[n][1]>>
    BY DEF ReadsBack
  <2> DEFINE ms == source.members
             sp == source.spaced
  <2>1. source.kind \in {"document", "go"} /\ (source.kind = "go" => source = GoSource(source.config))
    BY SourcesAssumption DEF SourceInv
  <2>2. ProperMembers(ms)
    BY <2>1, ProperSource
  <2>3. /\ Len(ms) \in Nat \ {0} /\ DOMAIN ms = 1..Len(ms)
        /\ \A n \in 1..Len(ms) : ms[n][2] \in ScalarTypes \cup {"o"}
        /\ \A n \in 1..Len(ms) : IsObject(ms[n]) => Members(ms[n][3], ScalarTypes)
    BY <2>2, MembersAre DEF ProperMembers
  <2>4. Apart(ms, sp)
    BY <2>3 DEF Apart, Behind
  <2>5. Known(json, ms, sp, Len(ms))
    BY <2>4 DEF ReadsInv
  <2> HIDE DEF ms, sp
  <2>6. /\ \A m \in 1..Len(ms) : ~Behind(ms, sp, m) => MemberRead(json, ms[m])
        /\ \A key \in DOMAIN json : KeyKnown(json, ms, sp, Len(ms), key)
    BY <2>5, Zenon DEF Known
  <2>7. \A n \in DOMAIN ms : (~sp /\ n > 1 /\ IsObject(ms[n - 1])) \/ ReadBack(ms[n])
    BY <2>3, <2>6, MemberReadsBack DEF Behind
  <2>8. \A key \in DOMAIN json :
          \E n \in DOMAIN ms : \/ key = <<ms[n][2], ms[n][1]>>
                               \/ IsObject(ms[n]) /\ key = <<"s", ms[n][1]>>
    BY <2>3, <2>6, KeyReadsBack
  <2> QED  BY <2>7, <2>8 DEF ms, sp
<1> QED  BY <1>1, ReadsAlways, SourceAlways, PTL

-----------------------------------------------------------------------------
(* What the constructor finds of a Config, and what it makes of it.        *)

GoRead(c) == Known(json, Marshalled(c), FALSE, 6)

LEMMA GoLookup ==
    ASSUME NEW c, GoRead(c), NEW n \in 1..6, NEW def
    PROVE  Get(json, Marshalled(c)[n][2], <<Marshalled(c)[n][1]>>, def)
             = IF Marshalled(c)[n][2] = "i" THEN Atoi64(Marshalled(c)[n][3])
               ELSE Marshalled(c)[n][3]
<1> DEFINE member == Marshalled(c)[n]
           path == <<member[1]>>
           key == <<member[2], path[Len(path)]>>
           holders == {o \in Holders(json, path) : key \in DOMAIN o}
<1>1. /\ \A m \in 1..6 : Marshalled(c)[m][2] \in {"i", "b"}
      /\ n # 1 => n - 1 \in 1..6
  BY GoMembers
<1>2. member[2] \in {"i", "b"} /\ member[2] \in ScalarTypes /\ member[2] # "null"
  BY <1>1 DEF ScalarTypes
<1>3. ~Behind(Marshalled(c), FALSE, n)
  <2>1. n # 1 => ~IsObject(Marshalled(c)[n - 1])
    BY <1>1 DEF IsObject
  <2>2. n > 1 => n # 1
    OBVIOUS
  <2> QED  BY <2>1, <2>2, Zenon DEF Behind
<1>4. MemberRead(json, member)
  BY <1>3, Zenon DEF GoRead, Known
<1> HIDE DEF member
<1>5. /\ <<member[2], member[1]>> \in DOMAIN json
      /\ json[<<member[2], member[1]>>] = Value(member[2], member[3])
  BY <1>2, <1>4, ReadWord, Zenon DEF MemberRead, ScalarRead
<1>6. key = <<member[2], member[1]>> /\ Holders(json, path) = {json}
  BY OneHolder
<1>7. Get(json, member[2], path, def) =
        IF holders = {} THEN def ELSE (CHOOSE o \in holders : TRUE)[key]
  BY DEF Get
<1>8. holders # {} /\ (CHOOSE o \in holders : TRUE) = json
  BY <1>5, <1>6
<1> HIDE DEF holders, key, path
<1>9. Get(json, member[2], path, def) = Value(member[2], member[3])
  BY <1>5, <1>6, <1>7, <1>8
<1>10. Value(member[2], member[3]) = IF member[2] = "i" THEN Atoi64(member[3]) ELSE member[3]
  BY <1>2 DEF Value
<1> QED  BY <1>9, <1>10 DEF member, path

LEMMA GoFound ==
    ASSUME NEW c, GoRead(c)
    PROVE  /\ Found.shards_cnt =
                IF Atoi64(c.Shards) = 0 THEN DefShards ELSE Atoi64(c.Shards)
           /\ Found.force_set = c.ForceSet
           /\ Found.max_size = IF Atoi64(c.MaxSize) = 0 THEN Avail ELSE Atoi64(c.MaxSize)
           /\ Found.expire_ns = Atoi64(Nanoseconds(c.ExpireNs, c.Expire))
           /\ Found.vacuum_ns = Atoi64(Nanoseconds(c.VacuumNs, c.Vacuum))
<1> DEFINE ms == Marshalled(c)
<1>1. /\ ms[1] = <<"shards_cnt", "i", c.Shards>>
      /\ ms[2] = <<"force_set", "b", c.ForceSet>>
      /\ ms[3] = <<"expire_ns", "i", Nanoseconds(c.ExpireNs, c.Expire)>>
      /\ ms[4] = <<"vacuum_ns", "i", Nanoseconds(c.VacuumNs, c.Vacuum)>>
      /\ ms[5] = <<"max_size", "i", c.MaxSize>>
  BY DEF Marshalled
<1> HIDE DEF ms
<1>2. \A n \in 1..6 : \A def :
        Get(json, ms[n][2], <<ms[n][1]>>, def) = IF ms[n][2] = "i" THEN Atoi64(ms[n][3])
                                                 ELSE ms[n][3]
  BY GoLookup DEF ms
<1>3. Get(json, "i", <<"shards_cnt">>, 0) = Atoi64(c.Shards)
  BY <1>1, <1>2
<1>4. \A def : Get(json, "b", <<"force_set">>, def) = c.ForceSet
  BY <1>1, <1>2
<1>5. Get(json, "i", <<"expire_ns">>, DefExpire) = Atoi64(Nanoseconds(c.ExpireNs, c.Expire))
  BY <1>1, <1>2
<1>6. Get(json, "i", <<"vacuum_ns">>, DefVacuum) = Atoi64(Nanoseconds(c.VacuumNs, c.Vacuum))
  BY <1>1, <1>2
<1>7. Get(json, "i", <<"max_size">>, 0) = Atoi64(c.MaxSize)
  BY <1>1, <1>2
<1> QED  BY <1>3, <1>4, <1>5, <1>6, <1>7 DEF Found, GetInz

(* A number from 0 on is cut to the half that is positive, and converts to *)
(* itself.                                                                 *)
LEMMA CutToPositive ==
    \A n \in Uint64 : /\ Atoi64(n) \in 0..(Half - 1)
                      /\ n < Half => Atoi64(n) = n
                      /\ n >= Half => Atoi64(n) = Half - 1
<1>1. Half \in Nat \ {0} /\ Word64 = 2 * Half
  BY HelpersAssumption DEF Half
<1> QED  BY <1>1 DEF Atoi64, Int64, Uint64

LEMMA PositiveStays ==
    \A n \in 0..(Half - 1) : U64(n) = n /\ I64(n) = n
<1>1. Half \in Nat \ {0} /\ Word64 = 2 * Half
  BY HelpersAssumption DEF Half
<1>2. \A n \in 0..(Half - 1) : U64(n) = n
  BY <1>1 DEF U64
<1> QED  BY <1>1, <1>2 DEF I64

LEMMA PeriodObeyed ==
    ASSUME NEW ns \in Uint64, NEW duration \in Int64,
           NEW min \in 1..(Half - 1), NEW def \in min..(Half - 1)
    PROVE  LET used == AtLeast(U64(Atoi64(Nanoseconds(ns, duration))), min, def) IN
           TakenOver(ns, duration, min, used) /\ I64(used) >= min
<1> DEFINE asked == Nanoseconds(ns, duration)
           cut == Atoi64(asked)
           used == AtLeast(U64(cut), min, def)
<1>1. Half \in Nat \ {0} /\ Word64 = 2 * Half
  BY HelpersAssumption DEF Half
<1>2. duration \in Int
  BY <1>1 DEF Int64
<1>3. asked \in Uint64
  BY <1>1, <1>2, Unsigned DEF Nanoseconds, Uint64
<1>4. /\ ns \in min..(Half - 1) => asked = ns
      /\ ns = 0 /\ duration \in min..(Half - 1) => asked = duration
  BY <1>1, PositiveStays DEF Nanoseconds
<1> HIDE DEF asked
<1>5. cut \in 0..(Half - 1) /\ (asked < Half => cut = asked)
  BY <1>3, CutToPositive
<1> HIDE DEF cut
<1>6. U64(cut) = cut
  BY <1>5, PositiveStays
<1>7. used = IF cut < min THEN def ELSE cut
  BY <1>6 DEF AtLeast
<1> HIDE DEF used
<1>8. used \in min..(Half - 1)
  BY <1>1, <1>5, <1>7
<1>9. I64(used) = used
  BY <1>1, <1>8, PositiveStays
<1>10. TakenOver(ns, duration, min, used)
  BY <1>1, <1>4, <1>5, <1>7 DEF TakenOver
<1> QED  BY <1>1, <1>8, <1>9, <1>10 DEF asked, cut, used

GoObeyed(c, p) ==
    /\ c.Shards \in MinShards..MaxShards /\ IsPow2(c.Shards) => p.shards_cnt = c.Shards
    /\ c.Shards = 0 => p.shards_cnt = DefShards
    /\ p.force_set = c.ForceSet
    /\ TakenOver(c.ExpireNs, c.Expire, MinExpire, p.expire_ns)
    /\ TakenOver(c.VacuumNs, c.Vacuum, MinVacuum, p.vacuum_ns)
    /\ c.MaxSize \in 1..(Half - 1) => p.max_size = c.MaxSize
    /\ c.MaxSize = 0 /\ Avail > 0 => p.max_size = Avail
GoPositive(p) == I64(p.expire_ns) >= MinExpire /\ I64(p.vacuum_ns) >= MinVacuum

LEMMA GoConstructed ==
    ASSUME NEW c \in GoConfig, GoRead(c)
    PROVE  GoObeyed(c, Constructed(Found)) /\ GoPositive(Constructed(Found))
<1> DEFINE p == Constructed(Found)
           shards == Atoi64(c.Shards)
           size == Atoi64(c.MaxSize)
<1>1. /\ c.Shards \in Uint64 /\ c.ExpireNs \in Uint64 /\ c.VacuumNs \in Uint64
      /\ c.MaxSize \in Uint64 /\ c.Expire \in Int64 /\ c.Vacuum \in Int64
  BY DEF GoConfig
<1>2. Half \in Nat \ {0} /\ Word64 = 2 * Half /\ Word32 \in Nat \ {0} /\ Word32 <= Half
  BY HelpersAssumption DEF Half
<1>3. /\ p.shards_cnt = Shards(U32(Found.shards_cnt))
      /\ p.force_set = Found.force_set
      /\ p.max_size = AtLeast(U64(Found.max_size), 1, DefMaxSize)
      /\ p.expire_ns = AtLeast(U64(Found.expire_ns), MinExpire, DefExpire)
      /\ p.vacuum_ns = AtLeast(U64(Found.vacuum_ns), MinVacuum, DefVacuum)
  BY DEF Constructed
<1> HIDE DEF p
<1>4. TakenOver(c.ExpireNs, c.Expire, MinExpire, p.expire_ns) /\ I64(p.expire_ns) >= MinExpire
  <2>1. MinExpire \in 1..(Half - 1) /\ DefExpire \in MinExpire..(Half - 1)
    BY <1>2, ConfigAssumption
  <2> QED  BY <1>1, <1>3, <2>1, GoFound, PeriodObeyed
<1>5. TakenOver(c.VacuumNs, c.Vacuum, MinVacuum, p.vacuum_ns) /\ I64(p.vacuum_ns) >= MinVacuum
  <2>1. MinVacuum \in 1..(Half - 1) /\ DefVacuum \in MinVacuum..(Half - 1)
    BY <1>2, ConfigAssumption
  <2> QED  BY <1>1, <1>3, <2>1, GoFound, PeriodObeyed
<1>6. \A n \in 0..(Word32 - 1) : U32(n) = n
  BY <1>2 DEF U32
<1>7. c.Shards \in MinShards..MaxShards /\ IsPow2(c.Shards) => p.shards_cnt = c.Shards
  <2> SUFFICES ASSUME c.Shards \in MinShards..MaxShards, IsPow2(c.Shards)
               PROVE  p.shards_cnt = c.Shards
    OBVIOUS
  <2>1. c.Shards \in 1..(Word32 - 1) /\ c.Shards < Half
    BY <1>2, ConfigAssumption
  <2>2. Found.shards_cnt = c.Shards
    BY <1>1, <2>1, CutToPositive, GoFound
  <2>3. U32(c.Shards) = c.Shards
    BY <1>2, <1>6, <2>1
  <2> QED  BY <1>3, <2>2, <2>3 DEF Shards
<1>8. c.Shards = 0 => p.shards_cnt = DefShards
  <2> SUFFICES ASSUME c.Shards = 0 PROVE p.shards_cnt = DefShards
    OBVIOUS
  <2>1. Found.shards_cnt = DefShards
    BY <1>1, <1>2, CutToPositive, GoFound
  <2>2. U32(DefShards) = DefShards
    BY <1>2, <1>6, ConfigAssumption
  <2> QED  BY <1>3, <2>1, <2>2 DEF Shards
<1>9. p.force_set = c.ForceSet
  BY <1>3, GoFound
<1>10. c.MaxSize \in 1..(Half - 1) => p.max_size = c.MaxSize
  <2> SUFFICES ASSUME c.MaxSize \in 1..(Half - 1) PROVE p.max_size = c.MaxSize
    OBVIOUS
  <2>1. Found.max_size = c.MaxSize
    BY <1>1, <1>2, CutToPositive, GoFound
  <2>2. U64(c.MaxSize) = c.MaxSize
    BY <1>2, PositiveStays
  <2> QED  BY <1>2, <1>3, <2>1, <2>2 DEF AtLeast
<1>11. c.MaxSize = 0 /\ Avail > 0 => p.max_size = Avail
  <2> SUFFICES ASSUME c.MaxSize = 0, Avail > 0 PROVE p.max_size = Avail
    OBVIOUS
  <2>1. Found.max_size = Avail
    BY <1>1, <1>2, CutToPositive, GoFound
  <2>2. Avail \in 1..(Half - 1) /\ U64(Avail) = Avail
    BY <1>2, ConfigAssumption, PositiveStays
  <2> QED  BY <1>2, <1>3, <2>1, <2>2 DEF AtLeast
<1> QED  BY <1>4, <1>5, <1>7, <1>8, <1>9, <1>10, <1>11 DEF GoObeyed, GoPositive, p

(* The cache has what the Config of the Go wrapper says, as the text that  *)
(* is made of it is parsed to its members.                                 *)
GoInv ==
    source.kind = "go" =>
      LET c == source.config IN
      /\ c \in GoConfig /\ source = GoSource(c)
      /\ cache # NoCache => GoObeyed(c, cache) /\ GoPositive(cache)
      /\ stage # "none"

LEMMA GoInvInit == StartupInit => GoInv
<1> SUFFICES ASSUME StartupInit, source.kind = "go" PROVE GoInv
  BY DEF GoInv
<1>1. source # NoSource
  BY DEF NoSource
<1>2. source \in Sources /\ stage = "parse" /\ cache = NoCache
  BY <1>1 DEF StartupInit
<1>3. source.config \in GoConfig /\ source = GoSource(source.config)
  BY <1>2, SourcesAssumption
<1> QED  BY <1>2, <1>3 DEF GoInv

LEMMA GoIsRead ==
    ASSUME ReadsInv, NEW c, source = GoSource(c), stage = "parsed"
    PROVE  GoRead(c)
<1>1. /\ source.kind = "go" /\ source.members = Marshalled(c) /\ source.spaced = FALSE
  <2>1. /\ GoSource(c).kind = "go" /\ GoSource(c).members = Marshalled(c)
        /\ GoSource(c).spaced = FALSE
    BY DEF GoSource
  <2> QED  BY <2>1, Zenon
<1>2. source # NoSource /\ Proper(source)
  BY <1>1 DEF NoSource, Proper
<1>3. \A n \in 1..Len(source.members) : ~IsObject(source.members[n])
  BY <1>1, GoMembers DEF IsObject
<1>4. Apart(source.members, source.spaced)
  BY <1>3 DEF Apart
<1>5. Known(json, source.members, source.spaced, Len(source.members))
  BY <1>2, <1>4, Zenon DEF ReadsInv
<1>6. Len(Marshalled(c)) = 6
  BY GoMembers
<1> QED  BY <1>1, <1>5, <1>6, Zenon DEF GoRead

LEMMA GoInvStep == ReadsInv /\ GoInv /\ [StartupNext]_startupVars => GoInv'
<1> SUFFICES ASSUME ReadsInv, GoInv, [StartupNext]_startupVars, source.kind' = "go"
             PROVE  GoInv'
  BY DEF GoInv
<1>0. source' = source
  BY DEF StartupNext, Parse, Construct, ConstructPlain, RoundTrip, startupVars
<1> DEFINE c == source.config
<1>1. /\ c \in GoConfig /\ source = GoSource(c) /\ stage # "none"
      /\ cache # NoCache => GoObeyed(c, cache) /\ GoPositive(cache)
  BY <1>0 DEF GoInv
<1>2. SUFFICES /\ cache' # NoCache => GoObeyed(c, cache') /\ GoPositive(cache')
               /\ stage' # "none"
  BY <1>0, <1>1, Zenon DEF GoInv, GoObeyed, GoPositive, NoCache, TakenOver
<1> HIDE DEF c
<1>3. CASE Parse
  <2>1. stage' # "none"
    BY <1>1, <1>3, Zenon
    DEF Parse, ParseStep, SkipSpace, ReadColon, EnterOwn, CallNested, ReadComma, ReadBrace,
        EndOfText, Collect, Return
  <2> QED  BY <1>1, <1>3, <2>1 DEF Parse
<1>4. CASE Construct
  <2>1. stage = "parsed" /\ cache' = Constructed(Found) /\ stage' = stage
    BY <1>4 DEF Construct, jsonVars
  <2>2. GoObeyed(c, Constructed(Found)) /\ GoPositive(Constructed(Found))
    BY <1>1, <2>1, GoIsRead, GoConstructed
  <2> QED  BY <1>1, <2>1, <2>2
<1>5. CASE ConstructPlain
  BY <1>1, <1>5 DEF ConstructPlain
<1>6. CASE RoundTrip
  BY <1>1, <1>6 DEF RoundTrip, Reparse
<1>7. CASE UNCHANGED startupVars
  BY <1>1, <1>7 DEF startupVars, jsonVars
<1> QED  BY <1>3, <1>4, <1>5, <1>6, <1>7 DEF StartupNext

LEMMA GoAlways == StartupSpec => []GoInv
BY GoInvInit, GoInvStep, ReadsAlways, PTL DEF StartupSpec

(* Config.Marshal of config.go, the parser and the constructor of          *)
(* bigcache.cpp together: a valid parameter of the Go application is what  *)
(* the cache works with, and a default is there for one that is not given. *)
THEOREM GoConfigIsObeyed == StartupSpec => []ValidIsObeyed
<1>1. GoInv => ValidIsObeyed
  BY DEF GoInv, ValidIsObeyed, GoObeyed
<1> QED  BY <1>1, GoAlways, PTL

(* The supervisors of a cache that the Go application makes sleep for a    *)
(* positive number of nanoseconds, whatever durations it gives: what       *)
(* config.go makes of a negative one is cut off by strtol.                 *)
THEOREM GoPeriodsArePositive == StartupSpec => []GoPeriodsPositive
<1>1. GoInv => GoPeriodsPositive
  BY DEF GoInv, GoPeriodsPositive, GoPositive
<1> QED  BY <1>1, GoAlways, PTL

-----------------------------------------------------------------------------
(* What marshal writes.  It takes the keys of a type in any order there    *)
(* is, so the text is that of some list of the data's members; with one    *)
(* object, which comes last, nothing in the text is lost or strays, and    *)
(* what is read of the list is the data again.                             *)

(* A sequence that has every element of a set once, and the sequence of    *)
(* what a function makes of them.                                          *)
Enumerates(ks, K) ==
    /\ ks \in Seq(K) /\ \A m, n \in 1..Len(ks) : ks[m] = ks[n] => m = n
    /\ \A k \in K : \E n \in 1..Len(ks) : ks[n] = k
Says(seqs, ks, tok, K) == Enumerates(ks, K) /\ seqs = [n \in 1..Len(ks) |-> tok[ks[n]]]

LEMMA Enumerated ==
    ASSUME NEW S, IsFiniteSet(S)
    PROVE  Enumerates(SetToSeq(S), S)
<1> DEFINE N == Cardinality(S)
           s == SetToSeq(S)
<1>1. N \in Nat /\ ExistsBijection(1..N, S)
  BY FS_CardinalityType
<1>2. PICK f \in [1..N -> S] : IsInjective(f)
  BY <1>1 DEF ExistsBijection, Bijection, Injection, IsInjective
<1>3. s \in [1..N -> S] /\ IsInjective(s)
  BY <1>2, Zenon DEF SetToSeq
<1> HIDE DEF s
<1>4. s \in Injection(1..N, S)
  BY <1>3 DEF Injection, IsInjective
<1>5. IsFiniteSet(1..N) /\ Cardinality(1..N) = N
  BY <1>1, FS_Interval
<1>6. s \in Surjection(1..N, S)
  BY <1>4, <1>5, FS_Injection
<1>7. s \in Seq(S) /\ Len(s) = N
  BY <1>1, <1>3
<1>8. \A k \in S : \E n \in 1..N : s[n] = k
  BY <1>6 DEF Surjection
<1> QED  BY <1>3, <1>7, <1>8 DEF Enumerates, IsInjective, s

LEMMA SaysBoth ==
    ASSUME NEW tok, NEW K, NEW L, K \cap L = {}, NEW s, NEW ks, Says(s, ks, tok, K),
           NEW t, NEW ls, Says(t, ls, tok, L)
    PROVE  /\ Says(s \o t, ks \o ls, tok, K \cup L) /\ OneAfter(ks \o ls, ks, ls)
           /\ Len(ks) \in Nat /\ Len(ls) \in Nat
<1> DEFINE M == K \cup L
           R == {tok[k] : k \in M}
           js == ks \o ls
           u == s \o t
<1>1. /\ ks \in Seq(M) /\ ls \in Seq(M) /\ Len(ks) \in Nat /\ Len(ls) \in Nat
      /\ \A n \in 1..Len(ks) : ks[n] \in K
      /\ \A n \in 1..Len(ls) : ls[n] \in L
  BY DEF Says, Enumerates
<1>2. js \in Seq(M) /\ OneAfter(js, ks, ls)
  BY <1>1, ConcatIsOneAfter
<1>3. s \in Seq(R) /\ t \in Seq(R) /\ Len(s) = Len(ks) /\ Len(t) = Len(ls)
  BY <1>1 DEF Says
<1>4. u \in Seq(R) /\ OneAfter(u, s, t)
  <2> HIDE DEF R
  <2> QED  BY <1>3, ConcatIsOneAfter
<1> HIDE DEF js, u, M
<1>5. /\ Len(js) = Len(ks) + Len(ls)
      /\ \A p \in 1..Len(js) : js[p] = IF p <= Len(ks) THEN ks[p] ELSE ls[p - Len(ks)]
  BY <1>2 DEF OneAfter
<1>6. \A p \in 1..Len(js) : IF p <= Len(ks) THEN p \in 1..Len(ks) ELSE p - Len(ks) \in 1..Len(ls)
  BY <1>1, <1>5
<1>7. Enumerates(js, M)
  <2>1. ASSUME NEW m \in 1..Len(js), NEW n \in 1..Len(js), js[m] = js[n] PROVE m = n
    <3>1. /\ \A i, j \in 1..Len(ks) : ks[i] = ks[j] => i = j
          /\ \A i, j \in 1..Len(ls) : ls[i] = ls[j] => i = j
          /\ \A i \in 1..Len(ks), j \in 1..Len(ls) : ks[i] # ls[j]
      BY <1>1 DEF Says, Enumerates
    <3>2. CASE m <= Len(ks) /\ n <= Len(ks)
      BY <1>5, <1>6, <2>1, <3>1, <3>2
    <3>3. CASE ~(m <= Len(ks)) /\ ~(n <= Len(ks))
      <4>1. m - Len(ks) = n - Len(ks)
        BY <1>5, <1>6, <2>1, <3>1, <3>3
      <4> QED  BY <1>1, <4>1
    <3>4. (m <= Len(ks)) = (n <= Len(ks))
      BY <1>5, <1>6, <2>1, <3>1
    <3> QED  BY <3>2, <3>3, <3>4
  <2>2. ASSUME NEW k \in M PROVE \E n \in 1..Len(js) : js[n] = k
    <3>1. CASE k \in K
      <4>1. PICK n \in 1..Len(ks) : ks[n] = k
        BY <3>1 DEF Says, Enumerates
      <4>2. n \in 1..Len(js) /\ n <= Len(ks)
        BY <1>1, <1>5
      <4> QED  BY <1>5, <4>1, <4>2
    <3>2. CASE k \in L
      <4>1. PICK n \in 1..Len(ls) : ls[n] = k
        BY <3>2 DEF Says, Enumerates
      <4>2. Len(ks) + n \in 1..Len(js) /\ ~(Len(ks) + n <= Len(ks)) /\ (Len(ks) + n) - Len(ks) = n
        BY <1>1, <1>5
      <4>3. js[Len(ks) + n] = k
        BY <1>5, <4>1, <4>2
      <4> QED  BY <4>2, <4>3
    <3> QED  BY <3>1, <3>2 DEF M
  <2> QED  BY <1>2, <2>1, <2>2 DEF Enumerates
<1>8. u = [n \in 1..Len(js) |-> tok[js[n]]]
  <2> DEFINE v == [n \in 1..Len(js) |-> tok[js[n]]]
  <2>1. v \in Seq(R) /\ Len(v) = Len(js) /\ \A n \in 1..Len(js) : v[n] = tok[js[n]]
    <3>1. \A n \in 1..Len(js) : js[n] \in M
      BY <1>2
    <3>2. Len(js) \in Nat
      BY <1>1, <1>5
    <3> QED  BY <3>1, <3>2
  <2> HIDE DEF v
  <2>2. /\ Len(u) = Len(js)
        /\ \A p \in 1..Len(js) : u[p] = IF p <= Len(ks) THEN s[p] ELSE t[p - Len(ks)]
    BY <1>3, <1>4, <1>5 DEF OneAfter
  <2>3. \A n \in 1..Len(ks) : s[n] = tok[ks[n]]
    BY DEF Says
  <2>4. \A n \in 1..Len(ls) : t[n] = tok[ls[n]]
    BY DEF Says
  <2>5. ASSUME NEW p \in 1..Len(u) PROVE u[p] = v[p]
    <3>1. CASE p <= Len(ks)
      BY <1>5, <1>6, <2>1, <2>2, <2>3, <3>1
    <3>2. CASE ~(p <= Len(ks))
      BY <1>5, <1>6, <2>1, <2>2, <2>4, <3>2
    <3> QED  BY <3>1, <3>2
  <2> HIDE DEF R
  <2>6. u = v
    BY <1>4, <2>1, <2>2, <2>5, SeqEqual
  <2> QED  BY <2>6 DEF v
<1> QED  BY <1>1, <1>2, <1>7, <1>8 DEF Says, js, u, M

(* Four sequences, one behind the other.                                   *)
LEMMA FourFlat ==
    ASSUME NEW T, NEW seqs \in [1..4 -> Seq(T)]
    PROVE  FlattenSeq(seqs) = ((seqs[1] \o seqs[2]) \o seqs[3]) \o seqs[4]
<1> DEFINE Is(f) == f = [i \in 1..4 |-> IF i = 1 THEN seqs[i] ELSE f[i - 1] \o seqs[i]]
           g == CHOOSE f : Is(f)
<1>1. FlattenSeq(seqs) = g[4]
  <2>1. Len(seqs) = 4
    OBVIOUS
  <2> QED  BY <2>1 DEF FlattenSeq
<1>2. Is(g)
  <2>1. PICK f : Joins(seqs, T, 4, f)
    BY SomeJoined
  <2>2. Is(f)
    BY <2>1 DEF Joins, Joined
  <2> HIDE DEF Is
  <2> QED  BY <2>2
<1> HIDE DEF g
<1>3. /\ g[1] = seqs[1] /\ g[2] = g[1] \o seqs[2] /\ g[3] = g[2] \o seqs[3]
      /\ g[4] = g[3] \o seqs[4]
  <2>1. \A i \in 1..4 : g[i] = Joined(seqs, g, i)
    BY <1>2 DEF Joined
  <2>2. g[1] = seqs[1]
    <3>1. g[1] = Joined(seqs, g, 1)
      BY <2>1
    <3> QED  BY <3>1 DEF Joined
  <2>3. ASSUME NEW i \in 1..4, NEW j \in 1..4, j + 1 = i PROVE g[i] = g[j] \o seqs[i]
    <3>1. j = i - 1 /\ i # 1
      BY <2>3
    <3>2. g[i] = Joined(seqs, g, i)
      BY <2>1
    <3> QED  BY <3>1, <3>2, Zenon DEF Joined
  <2>4. {1, 2, 3, 4} \subseteq 1..4 /\ 1 + 1 = 2 /\ 2 + 1 = 3 /\ 3 + 1 = 4
    OBVIOUS
  <2>5. g[2] = g[1] \o seqs[2] /\ g[3] = g[2] \o seqs[3] /\ g[4] = g[3] \o seqs[4]
    <3>1. 1 \in 1..4 /\ 2 \in 1..4 /\ 3 \in 1..4 /\ 4 \in 1..4
      OBVIOUS
    <3> QED  BY <2>3, <2>4, <3>1, Zenon
  <2> QED  BY <2>2, <2>5
<1> QED  BY <1>1, <1>3, Zenon

(* What marshal makes of the members that are no objects.                  *)
ScalarOf(data, key) ==
    IF key[1] = "f" THEN <<key[2], Type(Stream(data[key])), Stream(data[key])[2]>>
    ELSE <<key[2], key[1], IF key[1] = "s" THEN data[key][1][2] ELSE data[key]>>
ScalarKeys(data) == {key \in DOMAIN data : key[1] # "o"}
ScalarTok(data) == [key \in DOMAIN data |-> ScalarTokens(ScalarOf(data, key))]
KeysOf(data, type) == {key \in DOMAIN data : key[1] = type}

(* What a float is written as is one word, which is never null.            *)
LEMMA StreamedWord ==
    ASSUME NEW x
    PROVE  /\ Stream(x) = Word(Type(Stream(x)), Stream(x)[2])
           /\ Type(Stream(x)) \in {"f", "i", "s"}
<1>1. CASE x \in DOMAIN Streamed
  <2>1. Stream(x) = Streamed[x]
    BY <1>1, Zenon DEF Stream
  <2> QED  BY <1>1, <2>1, StreamedAssumption, Zenon
<1>2. CASE x \notin DOMAIN Streamed
  <2>1. Stream(x) = <<"f", x>>
    BY <1>2, Zenon DEF Stream, Word
  <2>2. Stream(x)[1] = "f" /\ Stream(x)[2] = x
    BY <2>1
  <2> QED  BY <2>1, <2>2, Zenon DEF Word, Type
<1> QED  BY <1>1, <1>2

LEMMA ScalarIsWritten ==
    ASSUME NEW data, Written(data), NEW key \in DOMAIN data
    PROVE  ScalarTok(data)[key] = Member(key[2], Shown(data, key))
<1> DEFINE m == ScalarOf(data, key)
<1>1. ScalarTok(data)[key] = Member(m[1], <<Word(m[2], m[3])>>)
  BY DEF ScalarTok, ScalarTokens
<1>2. m[1] = key[2] /\ <<Word(m[2], m[3])>> = Shown(data, key)
  <2>1. CASE key[1] = "f"
    <3>1. m[1] = key[2] /\ m[2] = Type(Stream(data[key])) /\ m[3] = Stream(data[key])[2]
      BY <2>1 DEF ScalarOf
    <3>2. key[1] # "s"
      BY <2>1
    <3>3. Shown(data, key) = <<Stream(data[key])>>
      BY <2>1, <3>2, Zenon DEF Shown
    <3> HIDE DEF m
    <3>4. Stream(data[key]) = Word(m[2], m[3])
      BY <3>1, StreamedWord, Zenon
    <3> QED  BY <3>1, <3>3, <3>4, Zenon
  <2>2. CASE key[1] = "s"
    <3>1. key[1] # "f"
      BY <2>2
    <3>2. m[1] = key[2] /\ m[2] = "s" /\ m[3] = data[key][1][2]
      BY <2>2, <3>1 DEF ScalarOf
    <3>3. data[key] = <<Word("s", data[key][1][2])>>
      BY <2>2, Zenon DEF Written
    <3>4. Shown(data, key) = data[key]
      BY <2>2, <3>1, Zenon DEF Shown
    <3> HIDE DEF m
    <3> QED  BY <3>2, <3>3, <3>4, Zenon
  <2>3. CASE key[1] # "f" /\ key[1] # "s"
    <3>1. m[1] = key[2] /\ m[2] = key[1] /\ m[3] = data[key]
      BY <2>3 DEF ScalarOf
    <3>2. Shown(data, key) = <<Word(key[1], data[key])>>
      BY <2>3, Zenon DEF Shown
    <3> HIDE DEF m
    <3> QED  BY <3>1, <3>2, Zenon
  <2> QED  BY <2>1, <2>2, <2>3
<1> QED  BY <1>1, <1>2, Zenon

LEMMA OfTypeSaid ==
    ASSUME NEW data, FlatOK(data), NEW type, NEW tok, NEW seq,
           seq = [m \in DOMAIN OfType(data, type) |-> tok[OfType(data, type)[m]]]
    PROVE  Says(seq, OfType(data, type), tok, KeysOf(data, type))
<1> DEFINE S == KeysOf(data, type)
           keys == OfType(data, type)
<1>1. IsFiniteSet(S)
  <2>1. S \subseteq DOMAIN data /\ IsFiniteSet(DOMAIN data)
    BY DEF KeysOf, FlatOK
  <2> QED  BY <2>1, FS_Subset
<1>2. keys = SetToSeq(S)
  BY Zenon DEF OfType, KeysOf
<1> HIDE DEF S, keys
<1>3. Enumerates(keys, S)
  BY <1>1, <1>2, Enumerated
<1>4. DOMAIN keys = 1..Len(keys)
  BY <1>3 DEF Enumerates
<1> QED  BY <1>3, <1>4 DEF Says, S, keys

LEMMA ScalarsAreSaid ==
    ASSUME NEW data, FlatOK(data), Written(data)
    PROVE  \E ks : Says(Scalars(data), ks, ScalarTok(data), ScalarKeys(data))
<1> DEFINE types == <<"s", "i", "f", "b">>
           tok == ScalarTok(data)
           K(n) == KeysOf(data, types[n])
           S(n) == [m \in DOMAIN OfType(data, types[n]) |->
                      Member(OfType(data, types[n])[m][2],
                             Shown(data, OfType(data, types[n])[m]))]
           seqs == [n \in 1..4 |-> S(n)]
<1>1. Scalars(data) = FlattenSeq(seqs)
  BY Zenon DEF Scalars
<1>2. types[1] = "s" /\ types[2] = "i" /\ types[3] = "f" /\ types[4] = "b"
  OBVIOUS
<1> HIDE DEF types, tok
<1>3. ASSUME NEW n \in 1..4
      PROVE  Says(seqs[n], OfType(data, types[n]), tok, K(n))
  <2> DEFINE keys == OfType(data, types[n])
             seq == [m \in DOMAIN keys |-> tok[keys[m]]]
  <2>1. Says(seq, keys, tok, K(n))
    BY OfTypeSaid
  <2>2. \A m \in DOMAIN keys : keys[m] \in DOMAIN data /\ keys[m][1] = types[n]
    <3> HIDE DEF keys
    <3>1. keys \in Seq(K(n))
      BY <2>1 DEF Says, Enumerates
    <3>2. \A m \in DOMAIN keys : keys[m] \in K(n)
      BY <3>1
    <3> QED  BY <3>2 DEF KeysOf
  <2>3. \A m \in DOMAIN keys : tok[keys[m]] = Member(keys[m][2], Shown(data, keys[m]))
    BY <2>2, ScalarIsWritten DEF tok
  <2>4. seqs[n] = seq
    BY <2>3
  <2> QED  BY <2>1, <2>4, Zenon
<1>4. seqs \in [1..4 -> Seq({tok[key] : key \in DOMAIN data})]
  <2> SUFFICES ASSUME NEW n \in 1..4 PROVE S(n) \in Seq({tok[key] : key \in DOMAIN data})
    OBVIOUS
  <2>1. seqs[n] = S(n)
    OBVIOUS
  <2> DEFINE keys == OfType(data, types[n])
  <2> HIDE DEF seqs
  <2>2. /\ keys \in Seq(K(n)) /\ S(n) = [m \in 1..Len(keys) |-> tok[keys[m]]]
    BY <1>3, <2>1, Zenon DEF Says, Enumerates
  <2> HIDE DEF keys, S
  <2>3. Len(keys) \in Nat /\ \A m \in 1..Len(keys) : keys[m] \in DOMAIN data
    BY <2>2 DEF KeysOf
  <2> QED  BY <2>2, <2>3
<1>5. \A n \in 1..4 : Says(seqs[n], OfType(data, types[n]), tok, K(n))
  BY <1>3
<1> HIDE DEF seqs
<1>6. Scalars(data) = ((seqs[1] \o seqs[2]) \o seqs[3]) \o seqs[4]
  BY <1>1, <1>4, FourFlat
<1>7. K(1) \cap K(2) = {} /\ (K(1) \cup K(2)) \cap K(3) = {}
      /\ ((K(1) \cup K(2)) \cup K(3)) \cap K(4) = {}
  BY <1>2 DEF KeysOf
<1>8. ((K(1) \cup K(2)) \cup K(3)) \cup K(4) = ScalarKeys(data)
  BY <1>2 DEF KeysOf, ScalarKeys, FlatOK, KeyTypes
<1> HIDE DEF K
<1>9. /\ Says(seqs[1], OfType(data, types[1]), tok, K(1))
      /\ Says(seqs[2], OfType(data, types[2]), tok, K(2))
      /\ Says(seqs[3], OfType(data, types[3]), tok, K(3))
      /\ Says(seqs[4], OfType(data, types[4]), tok, K(4))
  <2>1. 1 \in 1..4 /\ 2 \in 1..4 /\ 3 \in 1..4 /\ 4 \in 1..4
    OBVIOUS
  <2> QED  BY <1>5, <2>1, Zenon
<1>10. PICK ks2 : Says(seqs[1] \o seqs[2], ks2, tok, K(1) \cup K(2))
  BY <1>7, <1>9, SaysBoth, Zenon
<1>11. PICK ks3 : Says((seqs[1] \o seqs[2]) \o seqs[3], ks3, tok, (K(1) \cup K(2)) \cup K(3))
  BY <1>7, <1>9, <1>10, SaysBoth, Zenon
<1>12. PICK ks4 : Says(((seqs[1] \o seqs[2]) \o seqs[3]) \o seqs[4], ks4, tok,
                       ((K(1) \cup K(2)) \cup K(3)) \cup K(4))
  BY <1>7, <1>9, <1>11, SaysBoth, Zenon
<1> QED  BY <1>6, <1>8, <1>12, Zenon DEF tok

(* The members that marshal writes, in the order that it happens to take.  *)
ScalarOrder(data) == CHOOSE ks : Says(Scalars(data), ks, ScalarTok(data), ScalarKeys(data))
ScalarMembers(data) ==
    [n \in 1..Len(ScalarOrder(data)) |-> ScalarOf(data, ScalarOrder(data)[n])]
MemberOf(data, key) ==
    IF key[1] = "o" THEN <<key[2], "o", ScalarMembers(data[key])>> ELSE ScalarOf(data, key)

IsFlat(data) ==
    FlatOK(data) /\ Written(data) /\ OneForOne(data) /\ \A key \in DOMAIN data : key[1] # "o"
Lists(ms, data) ==
    /\ \A n \in 1..Len(ms) : \E key \in DOMAIN data : ms[n] = MemberOf(data, key)
    /\ \A key \in DOMAIN data : \E n \in 1..Len(ms) : ms[n] = MemberOf(data, key)

(* A member that was written under a key is read under that key, with the  *)
(* value that was written; a float under the type of its text.             *)
LEMMA ScalarOfKey ==
    ASSUME NEW data, FlatOK(data), Written(data), NEW key \in DOMAIN data, key[1] # "o",
           NEW m, m = ScalarOf(data, key)
    PROVE  /\ m[2] \in ScalarTypes /\ ~IsObject(m) /\ Files(m)
           /\ RealKey(m) = PrintedKey(data, key)
           /\ RightValue(Words(m)) = PrintedValue(data, key)
<1>1. key = <<key[1], key[2]>> /\ key[1] \in KeyTypes
  BY DEF FlatOK
<1>2. /\ m[2] \in ScalarTypes /\ m[2] # "null"
      /\ PrintedKey(data, key) = <<m[2], m[1]>>
      /\ PrintedValue(data, key) = Value(m[2], m[3])
  <2>1. CASE key[1] = "f"
    <3>1. m[1] = key[2] /\ m[2] = Type(Stream(data[key])) /\ m[3] = Stream(data[key])[2]
      BY <2>1 DEF ScalarOf
    <3>2. m[2] \in {"f", "i", "s"}
      BY <3>1, StreamedWord
    <3>3. m[2] \in ScalarTypes /\ m[2] # "null"
      BY <3>2 DEF ScalarTypes
    <3> QED  BY <2>1, <3>1, <3>3, Zenon DEF PrintedKey, PrintedValue
  <2>2. CASE key[1] # "f"
    <3>1. m[1] = key[2] /\ m[2] = key[1]
          /\ m[3] = IF key[1] = "s" THEN data[key][1][2] ELSE data[key]
      BY <2>2 DEF ScalarOf
    <3>2. m[2] \in ScalarTypes /\ m[2] # "null"
      BY <1>1, <3>1 DEF KeyTypes, ScalarTypes
    <3>3. PrintedKey(data, key) = <<m[2], m[1]>> /\ PrintedValue(data, key) = data[key]
      BY <1>1, <2>2, <3>1, Zenon DEF PrintedKey, PrintedValue
    <3>4. Value(m[2], m[3]) = data[key]
      <4>1. CASE key[1] = "s"
        <5>1. data[key] = <<Word("s", data[key][1][2])>>
          BY <4>1, Zenon DEF Written
        <5>2. m[2] = "s" /\ m[3] = data[key][1][2]
          BY <3>1, <4>1
        <5> QED  BY <5>1, <5>2, Zenon DEF Value
      <4>2. CASE key[1] = "i"
        <5>1. m[2] = "i" /\ m[3] = data[key]
          BY <3>1, <4>2
        <5>2. data[key] \in Int64
          BY <4>2 DEF FlatOK, IntsFit
        <5>3. Atoi64(data[key]) = data[key]
          BY <5>2, HelpersAssumption DEF Atoi64, Int64, Half
        <5>4. Value("i", data[key]) = Atoi64(data[key])
          BY DEF Value
        <5> QED  BY <5>1, <5>3, <5>4, Zenon
      <4>3. CASE key[1] # "s" /\ key[1] # "i"
        <5>1. m[2] # "s" /\ m[2] # "i" /\ m[3] = data[key]
          BY <3>1, <4>3
        <5> QED  BY <5>1, Zenon DEF Value
      <4> QED  BY <4>1, <4>2, <4>3
    <3> QED  BY <3>2, <3>3, <3>4, Zenon
  <2> QED  BY <2>1, <2>2
<1>3. /\ ~IsObject(m) /\ Files(m) /\ RealKey(m) = <<m[2], m[1]>>
      /\ RightValue(Words(m)) = Value(m[2], m[3])
  BY <1>2, ReadWord
<1> QED  BY <1>2, <1>3, Zenon

LEMMA ScalarsListed ==
    ASSUME NEW data, IsFlat(data), NEW ms, ms = ScalarMembers(data)
    PROVE  /\ Lists(ms, data) /\ Listed(ms, ScalarTypes) /\ Distinct(ms, FALSE)
           /\ Scalars(data) = ScalarSeqs(ms)
<1> DEFINE ks == ScalarOrder(data)
<1>1. Says(Scalars(data), ks, ScalarTok(data), ScalarKeys(data))
  BY ScalarsAreSaid, Zenon DEF ScalarOrder, IsFlat
<1>2. ScalarKeys(data) = DOMAIN data /\ DOMAIN data # {}
  BY DEF ScalarKeys, IsFlat, Written
<1>3. ms = [n \in 1..Len(ks) |-> ScalarOf(data, ks[n])]
  BY DEF ScalarMembers
<1> HIDE DEF ks
<1>4. /\ Scalars(data) = [n \in 1..Len(ks) |-> ScalarTok(data)[ks[n]]]
      /\ ks \in Seq(DOMAIN data) /\ Len(ks) \in Nat
      /\ \A m, n \in 1..Len(ks) : ks[m] = ks[n] => m = n
      /\ \A key \in DOMAIN data : \E n \in 1..Len(ks) : ks[n] = key
  <2>1. Says(Scalars(data), ks, ScalarTok(data), DOMAIN data)
    BY <1>1, <1>2
  <2>2. /\ Scalars(data) = [n \in 1..Len(ks) |-> ScalarTok(data)[ks[n]]]
        /\ ks \in Seq(DOMAIN data)
        /\ \A m, n \in 1..Len(ks) : ks[m] = ks[n] => m = n
        /\ \A key \in DOMAIN data : \E n \in 1..Len(ks) : ks[n] = key
    BY <2>1, Zenon DEF Says, Enumerates
  <2>3. Len(ks) \in Nat
    BY <2>2
  <2> QED  BY <2>2, <2>3, Zenon
<1>5. Len(ms) = Len(ks) /\ DOMAIN ms = 1..Len(ks) /\ Len(ks) # 0
  <2>1. Len(ks) # 0
    <3>1. PICK key : key \in DOMAIN data
      BY <1>2
    <3>2. PICK n \in 1..Len(ks) : ks[n] = key
      BY <1>4, <3>1
    <3> QED  BY <1>4
  <2>2. Len(ks) \in Nat
    BY <1>4
  <2>3. Len(ms) = Len(ks) /\ DOMAIN ms = 1..Len(ks)
    BY <1>3, <2>2
  <2> QED  BY <2>1, <2>3
<1>6. \A n \in 1..Len(ks) : ks[n] \in DOMAIN data /\ ks[n][1] # "o" /\ ms[n] = ScalarOf(data, ks[n])
  BY <1>3, <1>4 DEF IsFlat
<1>7. \A n \in 1..Len(ks) : /\ ms[n][2] \in ScalarTypes /\ ~IsObject(ms[n])
                           /\ RealKey(ms[n]) = PrintedKey(data, ks[n])
  BY <1>6, ScalarOfKey DEF IsFlat
<1>8. Listed(ms, ScalarTypes)
  BY <1>4, <1>5, <1>7 DEF Listed
<1>9. Distinct(ms, FALSE)
  <2>1. \A m, n \in 1..Len(ms) : RealKey(ms[m]) = RealKey(ms[n]) => m = n
    <3> SUFFICES ASSUME NEW m \in 1..Len(ks), NEW n \in 1..Len(ks),
                        RealKey(ms[m]) = RealKey(ms[n])
                 PROVE  m = n
      BY <1>5
    <3>1. PrintedKey(data, ks[m]) = PrintedKey(data, ks[n])
      BY <1>7
    <3>2. ks[m] = ks[n]
      BY <1>6, <3>1, Zenon DEF IsFlat, OneForOne
    <3> QED  BY <1>4, <3>2, Zenon
  <2>2. \A m \in 1..Len(ms) : ~CanStray(ms, FALSE, m)
    BY <1>5, <1>7, Zenon DEF CanStray
  <2> QED  BY <2>1, <2>2, Zenon DEF Distinct
<1>10. \A key \in DOMAIN data : MemberOf(data, key) = ScalarOf(data, key)
  BY Zenon DEF MemberOf, IsFlat
<1>11. Lists(ms, data)
  BY <1>4, <1>5, <1>6, <1>10 DEF Lists
<1>12. Scalars(data) = ScalarSeqs(ms)
  <2>1. \A n \in 1..Len(ks) : ScalarTok(data)[ks[n]] = ScalarTokens(ms[n])
    BY <1>6 DEF ScalarTok
  <2> QED  BY <1>4, <1>5, <2>1 DEF ScalarSeqs
<1> QED  BY <1>8, <1>9, <1>11, <1>12

(* What has been read of the members is what << has made of the data.      *)
LEMMA FlatIsKept ==
    ASSUME NEW data, IsFlat(data), NEW new, ScalarsRead(new, ScalarMembers(data))
    PROVE  Reprinted(data, new)
<1> DEFINE ms == ScalarMembers(data)
<1>1. Lists(ms, data)
  BY ScalarsListed
<1>2. ScalarsRead(new, ms)
  OBVIOUS
<1> HIDE DEF ms
<1>3. \A key \in DOMAIN data : MemberOf(data, key) = ScalarOf(data, key)
  BY Zenon DEF MemberOf, IsFlat
<1>4. ASSUME NEW key \in DOMAIN data
      PROVE  /\ PrintedKey(data, key) \in DOMAIN new
             /\ new[PrintedKey(data, key)] = PrintedValue(data, key)
  <2>1. PICK n \in 1..Len(ms) : ms[n] = ScalarOf(data, key)
    BY <1>1, <1>3 DEF Lists
  <2>2. /\ Files(ms[n]) /\ RealKey(ms[n]) = PrintedKey(data, key)
        /\ RightValue(Words(ms[n])) = PrintedValue(data, key)
    BY <2>1, ScalarOfKey DEF IsFlat
  <2>3. ScalarRead(new, ms[n])
    BY <1>2 DEF ScalarsRead
  <2> QED  BY <2>2, <2>3 DEF ScalarRead
<1>5. ASSUME NEW key \in DOMAIN new
      PROVE  \E k \in DOMAIN data : key = PrintedKey(data, k)
  <2>1. PICK n \in 1..Len(ms) : key = RealKey(ms[n])
    BY <1>2 DEF ScalarsRead
  <2>2. PICK k \in DOMAIN data : ms[n] = ScalarOf(data, k)
    BY <1>1, <1>3 DEF Lists
  <2>3. RealKey(ms[n]) = PrintedKey(data, k)
    BY <2>2, ScalarOfKey DEF IsFlat
  <2> QED  BY <2>1, <2>3
<1>6. DOMAIN new = {PrintedKey(data, key) : key \in DOMAIN data}
  BY <1>4, <1>5, Zenon
<1> QED  BY <1>4, <1>6, Zenon DEF Reprinted

(* What Reparse marshals, and what MarshalKeeps asks for beside it.        *)
Printable(data) ==
    /\ Written(data)
    /\ \A k \in DOMAIN data :
         k[1] = "o" => Written(data[k]) /\ \A l \in DOMAIN data[k] : l[1] # "o"
Separate(data) ==
    OneForOne(data) /\ \A k \in DOMAIN data : k[1] = "o" => OneForOne(data[k])
OneObject(data) == \A k, l \in DOMAIN data : k[1] = "o" /\ l[1] = "o" => k = l
Marshallable(data) == Printable(data) /\ Separate(data)
ObjectsLast(ms) ==
    \A n \in 1..Len(ms) : IsObject(ms[n]) => n = Len(ms) /\ Distinct(ms[n][3], FALSE)

MemberTok(data) == [key \in DOMAIN data |-> MemberTokens(MemberOf(data, key))]
ObjectSeqs(data) ==
    [m \in DOMAIN OfType(data, "o") |->
       Member(OfType(data, "o")[m][2], Braced(Scalars(data[OfType(data, "o")[m]])))]

LEMMA MemberOfKey ==
    ASSUME NEW data, DataOK(data), Marshallable(data), NEW key \in DOMAIN data,
           NEW m, m = MemberOf(data, key)
    PROVE  /\ Files(m) /\ RealKey(m) = PrintedKey(data, key)
           /\ (IsObject(m) <=> key[1] = "o")
           /\ m[2] \in ScalarTypes \cup {"o"}
           /\ ~IsObject(m) => /\ RightValue(Words(m)) = PrintedValue(data, key)
                              /\ MemberTok(data)[key] = ScalarTok(data)[key]
           /\ IsObject(m) =>
                /\ IsFlat(data[key]) /\ m[3] = ScalarMembers(data[key])
                /\ MemberTok(data)[key] = Member(key[2], Braced(Scalars(data[key])))
<1>0. MemberTok(data)[key] = MemberTokens(m)
  BY DEF MemberTok
<1>1. CASE key[1] = "o"
  <2>1. m = <<key[2], "o", ScalarMembers(data[key])>>
    BY <1>1, Zenon DEF MemberOf
  <2>2. m[1] = key[2] /\ m[2] = "o" /\ m[3] = ScalarMembers(data[key])
    BY <2>1
  <2>3. IsObject(m) /\ Files(m)
    BY <2>2, Zenon DEF IsObject, Files
  <2>4. RealKey(m) = PrintedKey(data, key)
    <3>0. PrintedKey(data, key) = key
      <4>1. key[1] # "f"
        BY <1>1
      <4> QED  BY <4>1, Zenon DEF PrintedKey
    <3>1. RealKey(m) = <<"o", m[1]>>
      BY <2>3, Zenon DEF RealKey
    <3>2. key = <<key[1], key[2]>>
      BY DEF DataOK, FlatOK
    <3> QED  BY <1>1, <2>2, <3>0, <3>1, <3>2, Zenon
  <2>5. IsFlat(data[key])
    BY <1>1, Zenon DEF IsFlat, DataOK, Marshallable, Printable, Separate
  <2>6. MemberTokens(m) = Member(key[2], Braced(Scalars(data[key])))
    <3>1. Scalars(data[key]) = ScalarSeqs(m[3])
      BY <2>2, <2>5, ScalarsListed
    <3>2. MemberTokens(m) = Member(m[1], Braced(ScalarSeqs(m[3])))
      BY <2>2, Zenon DEF MemberTokens, ScalarSeqs
    <3> QED  BY <2>2, <3>1, <3>2, Zenon
  <2>7. m[2] \in ScalarTypes \cup {"o"}
    BY <2>2
  <2> QED  BY <1>0, <1>1, <2>2, <2>3, <2>4, <2>5, <2>6, <2>7, Zenon
<1>2. CASE key[1] # "o"
  <2>1. m = ScalarOf(data, key)
    BY <1>2, Zenon DEF MemberOf
  <2>2. /\ m[2] \in ScalarTypes /\ ~IsObject(m) /\ Files(m)
        /\ RealKey(m) = PrintedKey(data, key)
        /\ RightValue(Words(m)) = PrintedValue(data, key)
    BY <1>2, <2>1, ScalarOfKey, Zenon DEF DataOK, Marshallable, Printable
  <2>3. MemberTokens(m) = ScalarTokens(m)
    BY <2>2, Zenon DEF MemberTokens, IsObject
  <2>4. ScalarTok(data)[key] = ScalarTokens(m)
    BY <2>1 DEF ScalarTok
  <2>5. m[2] \in ScalarTypes \cup {"o"}
    BY <2>2
  <2> QED  BY <1>0, <1>2, <2>2, <2>3, <2>4, <2>5, Zenon
<1> QED  BY <1>1, <1>2

LEMMA ScalarsAreMembers ==
    ASSUME NEW data, DataOK(data), Marshallable(data)
    PROVE  \E ks : Says(Scalars(data), ks, MemberTok(data), ScalarKeys(data))
<1>1. PICK ks : Says(Scalars(data), ks, ScalarTok(data), ScalarKeys(data))
  BY ScalarsAreSaid, Zenon DEF DataOK, Marshallable, Printable
<1>2. Enumerates(ks, ScalarKeys(data))
      /\ Scalars(data) = [n \in 1..Len(ks) |-> ScalarTok(data)[ks[n]]]
  BY <1>1, Zenon DEF Says
<1>3. \A n \in 1..Len(ks) : ks[n] \in ScalarKeys(data)
  <2>1. ks \in Seq(ScalarKeys(data))
    BY <1>2, Zenon DEF Enumerates
  <2> QED  BY <2>1
<1>4. \A n \in 1..Len(ks) : MemberTok(data)[ks[n]] = ScalarTok(data)[ks[n]]
  <2> SUFFICES ASSUME NEW n \in 1..Len(ks)
               PROVE  MemberTok(data)[ks[n]] = ScalarTok(data)[ks[n]]
    OBVIOUS
  <2>1. ks[n] \in DOMAIN data /\ ks[n][1] # "o"
    BY <1>3 DEF ScalarKeys
  <2> QED  BY <2>1, MemberOfKey
<1>5. Scalars(data) = [n \in 1..Len(ks) |-> MemberTok(data)[ks[n]]]
  BY <1>2, <1>4
<1> QED  BY <1>2, <1>5, Zenon DEF Says

LEMMA ObjectsAreMembers ==
    ASSUME NEW data, DataOK(data), Marshallable(data)
    PROVE  Says(ObjectSeqs(data), OfType(data, "o"), MemberTok(data), KeysOf(data, "o"))
<1> DEFINE keys == OfType(data, "o")
           seq == [m \in DOMAIN keys |-> MemberTok(data)[keys[m]]]
<1>1. FlatOK(data)
  BY DEF DataOK
<1>2. Says(seq, keys, MemberTok(data), KeysOf(data, "o"))
  BY <1>1, OfTypeSaid, Zenon
<1>3. \A m \in DOMAIN keys : keys[m] \in DOMAIN data /\ keys[m][1] = "o"
  <2> HIDE DEF keys
  <2>1. keys \in Seq(KeysOf(data, "o"))
    BY <1>2, Zenon DEF Says, Enumerates
  <2>2. \A m \in DOMAIN keys : keys[m] \in KeysOf(data, "o")
    BY <2>1
  <2> QED  BY <2>2 DEF KeysOf
<1>4. ObjectSeqs(data) = [m \in DOMAIN keys |-> Member(keys[m][2], Braced(Scalars(data[keys[m]])))]
  BY Zenon DEF ObjectSeqs
<1> HIDE DEF keys
<1>5. \A m \in DOMAIN keys :
        MemberTok(data)[keys[m]] = Member(keys[m][2], Braced(Scalars(data[keys[m]])))
  <2> SUFFICES ASSUME NEW m \in DOMAIN keys
               PROVE  MemberTok(data)[keys[m]]
                        = Member(keys[m][2], Braced(Scalars(data[keys[m]])))
    OBVIOUS
  <2> DEFINE key == keys[m]
             member == MemberOf(data, key)
  <2>1. key \in DOMAIN data /\ key[1] = "o"
    BY <1>3
  <2> HIDE DEF key
  <2>2. /\ IsObject(member) <=> key[1] = "o"
        /\ IsObject(member) => MemberTok(data)[key] = Member(key[2], Braced(Scalars(data[key])))
    BY <2>1, MemberOfKey, Zenon
  <2> QED  BY <2>1, <2>2, Zenon DEF key
<1>6. ObjectSeqs(data) = seq
  BY <1>4, <1>5
<1> QED  BY <1>2, <1>6, Zenon DEF keys

LEMMA MarshalSays ==
    ASSUME NEW data, DataOK(data), Marshallable(data), OneObject(data)
    PROVE  \E ms : /\ Marshal(data) = Tokens(ms) /\ Lists(ms, data)
                   /\ Shaped(ms) /\ Distinct(ms, FALSE) /\ ObjectsLast(ms)
<1> DEFINE tok == MemberTok(data)
           s == Scalars(data)
           t == ObjectSeqs(data)
           ls == OfType(data, "o")
<1>1. Marshal(data) = Braced(s \o t)
  BY Zenon DEF Marshal, ObjectSeqs
<1>2. Says(t, ls, tok, KeysOf(data, "o"))
  BY ObjectsAreMembers
<1>3. PICK ks : Says(s, ks, tok, ScalarKeys(data))
  BY ScalarsAreMembers
<1> HIDE DEF tok, s, t, ls
<1>4. ScalarKeys(data) \cap KeysOf(data, "o") = {}
      /\ ScalarKeys(data) \cup KeysOf(data, "o") = DOMAIN data
  BY DEF ScalarKeys, KeysOf
<1> DEFINE js == ks \o ls
<1>5. /\ Says(s \o t, js, tok, ScalarKeys(data) \cup KeysOf(data, "o"))
      /\ OneAfter(js, ks, ls) /\ Len(ks) \in Nat /\ Len(ls) \in Nat
  BY <1>2, <1>3, <1>4, SaysBoth
<1> HIDE DEF js
<1>6. Says(s \o t, js, tok, DOMAIN data)
  BY <1>4, <1>5
<1>7. /\ s \o t = [n \in 1..Len(js) |-> tok[js[n]]] /\ js \in Seq(DOMAIN data)
      /\ \A m, n \in 1..Len(js) : js[m] = js[n] => m = n
      /\ \A key \in DOMAIN data : \E n \in 1..Len(js) : js[n] = key
  BY <1>6, Zenon DEF Says, Enumerates
<1>8. Len(js) \in Nat /\ \A n \in 1..Len(js) : js[n] \in DOMAIN data
  BY <1>7
<1> DEFINE ms == [n \in 1..Len(js) |-> MemberOf(data, js[n])]
<1>9. /\ Len(ms) = Len(js) /\ DOMAIN ms = 1..Len(js)
      /\ \A n \in 1..Len(js) : ms[n] = MemberOf(data, js[n])
  BY <1>8
<1> HIDE DEF ms
<1>10. Lists(ms, data)
  BY <1>7, <1>8, <1>9 DEF Lists
<1>11. \A n \in 1..Len(js) :
         /\ RealKey(ms[n]) = PrintedKey(data, js[n]) /\ ms[n][2] \in ScalarTypes \cup {"o"}
         /\ IsObject(ms[n]) =>
              js[n][1] = "o" /\ IsFlat(data[js[n]]) /\ ms[n][3] = ScalarMembers(data[js[n]])
  <2> SUFFICES ASSUME NEW n \in 1..Len(js)
               PROVE  /\ RealKey(ms[n]) = PrintedKey(data, js[n])
                      /\ ms[n][2] \in ScalarTypes \cup {"o"}
                      /\ IsObject(ms[n]) =>
                           /\ js[n][1] = "o" /\ IsFlat(data[js[n]])
                           /\ ms[n][3] = ScalarMembers(data[js[n]])
    OBVIOUS
  <2>1. js[n] \in DOMAIN data /\ ms[n] = MemberOf(data, js[n])
    BY <1>8, <1>9
  <2> DEFINE key == js[n]
             m == ms[n]
  <2>2. key \in DOMAIN data /\ m = MemberOf(data, key)
    BY <2>1
  <2> HIDE DEF key, m
  <2>3. /\ RealKey(m) = PrintedKey(data, key) /\ m[2] \in ScalarTypes \cup {"o"}
        /\ IsObject(m) => key[1] = "o" /\ IsFlat(data[key]) /\ m[3] = ScalarMembers(data[key])
    <3>1. RealKey(m) = PrintedKey(data, key) /\ m[2] \in ScalarTypes \cup {"o"}
      BY <2>2, MemberOfKey
    <3>2. ASSUME IsObject(m)
          PROVE  key[1] = "o" /\ IsFlat(data[key]) /\ m[3] = ScalarMembers(data[key])
      BY <2>2, <3>2, MemberOfKey
    <3> QED  BY <3>1, <3>2
  <2> QED  BY <2>3, Zenon DEF key, m
<1>12. Len(js) # 0
  <2>1. DOMAIN data # {}
    BY DEF Marshallable, Printable, Written
  <2>2. PICK key : key \in DOMAIN data
    BY <2>1
  <2>3. PICK n \in 1..Len(js) : js[n] = key
    BY <1>7, <2>2
  <2> QED  BY <1>8
<1>13. \A n \in 1..Len(ms) : IsObject(ms[n]) =>
         Listed(ms[n][3], ScalarTypes) /\ Distinct(ms[n][3], FALSE)
  BY <1>9, <1>11, ScalarsListed
<1>14. Shaped(ms)
  <2>1. Listed(ms, ScalarTypes \cup {"o"})
    BY <1>8, <1>9, <1>11, <1>12 DEF Listed
  <2> QED  BY <1>13, <2>1 DEF Shaped
<1>15. \A n \in 1..Len(js) : js[n][1] = "o" => n = Len(js)
  <2> SUFFICES ASSUME NEW n \in 1..Len(js), js[n][1] = "o" PROVE n = Len(js)
    OBVIOUS
  <2>1. /\ Len(js) = Len(ks) + Len(ls)
        /\ \A p \in 1..Len(js) : js[p] = IF p <= Len(ks) THEN ks[p] ELSE ls[p - Len(ks)]
    BY <1>5 DEF OneAfter
  <2>2. ks \in Seq(ScalarKeys(data))
    BY <1>3, Zenon DEF Says, Enumerates
  <2>3. ls \in Seq(KeysOf(data, "o")) /\ \A i, j \in 1..Len(ls) : ls[i] = ls[j] => i = j
    BY <1>2, Zenon DEF Says, Enumerates
  <2>4. ~(n <= Len(ks))
    <3> SUFFICES ASSUME n <= Len(ks) PROVE FALSE
      OBVIOUS
    <3>1. n \in 1..Len(ks) /\ js[n] = ks[n]
      BY <1>5, <2>1
    <3>2. ks[n] \in ScalarKeys(data)
      BY <2>2, <3>1
    <3> QED  BY <3>1, <3>2 DEF ScalarKeys
  <2>5. \A i, j \in 1..Len(ls) : i = j
    <3>1. \A i \in 1..Len(ls) : ls[i] \in KeysOf(data, "o")
      BY <2>3
    <3>2. \A i, j \in 1..Len(ls) : ls[i] = ls[j]
      BY <3>1 DEF KeysOf, OneObject
    <3> QED  BY <2>3, <3>2
  <2>6. n - Len(ks) \in 1..Len(ls) /\ Len(ls) \in 1..Len(ls)
    BY <1>5, <2>1, <2>4
  <2>7. n - Len(ks) = Len(ls)
    BY <2>5, <2>6
  <2> QED  BY <1>5, <2>1, <2>7
<1>16. ObjectsLast(ms)
  BY <1>9, <1>11, <1>13, <1>15 DEF ObjectsLast
<1>17. Distinct(ms, FALSE)
  <2>1. \A m, n \in 1..Len(ms) : RealKey(ms[m]) = RealKey(ms[n]) => m = n
    <3> SUFFICES ASSUME NEW m \in 1..Len(js), NEW n \in 1..Len(js),
                        RealKey(ms[m]) = RealKey(ms[n])
                 PROVE  m = n
      BY <1>9
    <3>1. PrintedKey(data, js[m]) = PrintedKey(data, js[n])
      BY <1>11
    <3>2. js[m] = js[n]
      BY <1>8, <3>1, Zenon DEF Marshallable, Separate, OneForOne
    <3> QED  BY <1>7, <3>2, Zenon
  <2>2. \A m \in 1..Len(ms) : ~CanStray(ms, FALSE, m)
    <3> SUFFICES ASSUME NEW m \in 1..Len(ms), IsObject(ms[m]) PROVE ~(m < Len(ms))
      BY Zenon DEF CanStray
    <3>1. m = Len(ms)
      BY <1>16 DEF ObjectsLast
    <3> QED  BY <3>1, <1>8, <1>9
  <2> QED  BY <2>1, <2>2, Zenon DEF Distinct
<1>18. Marshal(data) = Tokens(ms)
  <2>1. \A n \in 1..Len(js) : tok[js[n]] = MemberTokens(ms[n])
    BY <1>8, <1>9 DEF tok, MemberTok
  <2>2. s \o t = [n \in DOMAIN ms |-> MemberTokens(ms[n])]
    BY <1>7, <1>9, <2>1
  <2> QED  BY <1>1, <2>2, Zenon DEF Tokens
<1> QED  BY <1>10, <1>14, <1>16, <1>17, <1>18

LEMMA MarshalLaid ==
    ASSUME NEW data, DataOK(data), Marshallable(data), OneObject(data)
    PROVE  \E ms, b : /\ AllLaid(Marshal(data), ms, FALSE, b)
                      /\ Lists(ms, data) /\ ObjectsLast(ms)
<1>1. PICK ms : /\ Marshal(data) = Tokens(ms) /\ Lists(ms, data)
                /\ Shaped(ms) /\ Distinct(ms, FALSE) /\ ObjectsLast(ms)
  BY MarshalSays
<1>2. Len(ms) \in Nat
  BY <1>1 DEF Shaped, Listed
<1>3. Apart(ms, FALSE)
  <2> SUFFICES ASSUME NEW n \in 1..Len(ms), Behind(ms, FALSE, n) PROVE FALSE
    BY Zenon DEF Apart
  <2>1. n - 1 \in 1..Len(ms) /\ IsObject(ms[n - 1])
    BY <1>2 DEF Behind
  <2>2. n - 1 = Len(ms)
    BY <1>1, <2>1 DEF ObjectsLast
  <2> QED  BY <1>2, <2>2
<1>4. \A n \in 1..Len(ms) : IsObject(ms[n]) => Distinct(ms[n][3], FALSE)
  BY <1>1, Zenon DEF ObjectsLast
<1>5. PICK b : TextLaid(Tokens(ms), ms, FALSE, b)
  BY <1>1, TokensLaid
<1>6. AllLaid(Tokens(ms), ms, FALSE, b)
  BY <1>1, <1>3, <1>4, <1>5, ShapedLaid
<1> QED  BY <1>1, <1>6

LEMMA AllIsKept ==
    ASSUME NEW data, DataOK(data), Marshallable(data), NEW ms, Lists(ms, data),
           ObjectsLast(ms), Len(ms) \in Nat, NEW new, Known(new, ms, FALSE, Len(ms))
    PROVE  /\ Reprinted(data, new)
           /\ \A key \in ObjectKeys(data) : Reprinted(data[key], new[key])
<1>1. ASSUME NEW n \in 1..Len(ms) PROVE ~Behind(ms, FALSE, n) /\ ~CanStray(ms, FALSE, n)
  <2>1. ~Behind(ms, FALSE, n)
    <3> SUFFICES ASSUME Behind(ms, FALSE, n) PROVE FALSE
      OBVIOUS
    <3>1. n - 1 \in 1..Len(ms) /\ IsObject(ms[n - 1])
      BY DEF Behind
    <3>2. n - 1 = Len(ms)
      BY <3>1 DEF ObjectsLast
    <3> QED  BY <3>2
  <2>2. ~CanStray(ms, FALSE, n)
    <3> SUFFICES ASSUME IsObject(ms[n]) PROVE ~(n < Len(ms))
      BY Zenon DEF CanStray
    <3>1. n = Len(ms)
      BY DEF ObjectsLast
    <3> QED  BY <3>1
  <2> QED  BY <2>1, <2>2
<1>2. ASSUME NEW key \in DOMAIN data
      PROVE  /\ PrintedKey(data, key) \in DOMAIN new
             /\ key[1] # "o" => new[PrintedKey(data, key)] = PrintedValue(data, key)
             /\ key[1] = "o" => Reprinted(data[key], new[key])
  <2>1. PICK n \in 1..Len(ms) : ms[n] = MemberOf(data, key)
    BY DEF Lists
  <2>2. MemberRead(new, ms[n])
    BY <1>1 DEF Known
  <2> DEFINE m == ms[n]
  <2>3. m = MemberOf(data, key)
    BY <2>1
  <2> HIDE DEF m
  <2>4. Files(m) /\ RealKey(m) = PrintedKey(data, key) /\ (IsObject(m) <=> key[1] = "o")
    BY <2>3, MemberOfKey
  <2>5. CASE IsObject(m)
    <3>1. IsFlat(data[key]) /\ m[3] = ScalarMembers(data[key])
      BY <2>3, <2>5, MemberOfKey
    <3>2. RealKey(m) \in DOMAIN new /\ ScalarsRead(new[RealKey(m)], m[3])
      BY <2>2, <2>4, <2>5, Zenon DEF MemberRead, m
    <3>3. PrintedKey(data, key) = key
      <4>1. key[1] # "f"
        BY <2>4, <2>5
      <4> QED  BY <4>1, Zenon DEF PrintedKey
    <3>4. Reprinted(data[key], new[key])
      BY <2>4, <3>1, <3>2, <3>3, FlatIsKept
    <3> QED  BY <2>4, <2>5, <3>2, <3>4, Zenon
  <2>6. CASE ~IsObject(m)
    <3>1. RightValue(Words(m)) = PrintedValue(data, key)
      BY <2>3, <2>6, MemberOfKey
    <3>2. ScalarRead(new, m)
      BY <2>2, <2>6, Zenon DEF MemberRead, m
    <3> QED  BY <2>4, <2>6, <3>1, <3>2 DEF ScalarRead
  <2> QED  BY <2>5, <2>6
<1>3. ASSUME NEW key \in DOMAIN new
      PROVE  \E k \in DOMAIN data : key = PrintedKey(data, k)
  <2>1. KeyKnown(new, ms, FALSE, Len(ms), key)
    BY DEF Known
  <2>2. PICK n \in 1..Len(ms) : key = RealKey(ms[n])
    BY <1>1, <2>1 DEF KeyKnown
  <2>3. PICK k \in DOMAIN data : ms[n] = MemberOf(data, k)
    BY DEF Lists
  <2>4. RealKey(ms[n]) = PrintedKey(data, k)
    BY <2>3, MemberOfKey
  <2> QED  BY <2>2, <2>4
<1>4. DOMAIN new = {PrintedKey(data, key) : key \in DOMAIN data}
  BY <1>2, <1>3, Zenon
<1> QED  BY <1>2, <1>4, Zenon DEF Reprinted, ObjectKeys

LEMMA AtMostOne ==
    ASSUME NEW data, DataOK(data), Cardinality(ObjectKeys(data)) <= 1
    PROVE  OneObject(data)
<1> DEFINE S == ObjectKeys(data)
<1>1. IsFiniteSet(S)
  <2>1. S \subseteq DOMAIN data /\ IsFiniteSet(DOMAIN data)
    BY DEF DataOK, FlatOK, ObjectKeys
  <2> QED  BY <2>1, FS_Subset
<1>2. Cardinality(S) <= 1
  OBVIOUS
<1>3. \A k, l \in S : k = l
  <2> HIDE DEF S
  <2> SUFFICES ASSUME NEW k \in S, NEW l \in S, k # l PROVE FALSE
    OBVIOUS
  <2>1. Cardinality(S \ {k}) = Cardinality(S) - 1 /\ IsFiniteSet(S \ {k})
    BY <1>1, FS_RemoveElement
  <2>2. Cardinality((S \ {k}) \ {l}) = Cardinality(S \ {k}) - 1
        /\ IsFiniteSet((S \ {k}) \ {l})
    <3>1. l \in S \ {k}
      OBVIOUS
    <3> QED  BY <2>1, <3>1, FS_RemoveElement
  <2>3. Cardinality((S \ {k}) \ {l}) \in Nat /\ Cardinality(S) \in Nat
    BY <1>1, <2>2, FS_CardinalityType
  <2> QED  BY <1>2, <2>1, <2>2, <2>3
<1> QED  BY <1>3 DEF OneObject, ObjectKeys

(* The second parse is of the members that marshal has written.            *)
WritesInv ==
    stage = "reparse" =>
      /\ Printable(json)
      /\ OneObject(json) /\ Separate(json) =>
           \E ms, b : /\ AllLaid(text, ms, FALSE, b) /\ Parsing(frames, text, ms, FALSE, b)
                      /\ Lists(ms, json) /\ ObjectsLast(ms)

LEMMA ReparseStep ==
    ASSUME stage = "reparse", OneObject(json), Separate(json), WritesInv, ParseStep
    PROVE  \/ Quiet /\ WritesInv'
           \/ \E ms : /\ Done(ms, FALSE) /\ Lists(ms, json) /\ ObjectsLast(ms)
                      /\ Len(ms) \in Nat
<1>1. PICK ms, b : /\ AllLaid(text, ms, FALSE, b) /\ Parsing(frames, text, ms, FALSE, b)
                   /\ Lists(ms, json) /\ ObjectsLast(ms)
  BY Zenon DEF WritesInv
<1>2. Printable(json)
  BY Zenon DEF WritesInv
<1>3. Len(ms) \in Nat
  BY <1>1 DEF AllLaid, Laid
<1>4. (Quiet /\ Parsing(frames', text, ms, FALSE, b)) \/ Done(ms, FALSE)
  BY <1>1, AloneStep, NestedStep DEF Parsing
<1>5. CASE Quiet /\ Parsing(frames', text, ms, FALSE, b)
  <2>1. text' = text /\ json' = json /\ stage' = stage
    BY <1>5 DEF Quiet
  <2>2. AllLaid(text', ms, FALSE, b) /\ Parsing(frames', text', ms, FALSE, b)
        /\ Lists(ms, json') /\ Printable(json')
    BY <1>1, <1>2, <1>5, <2>1
  <2>3. WritesInv'
    BY <1>1, <2>2 DEF WritesInv
  <2> QED  BY <1>5, <2>3
<1>6. CASE Done(ms, FALSE)
  BY <1>1, <1>3, <1>6
<1> QED  BY <1>4, <1>5, <1>6

LEMMA ResultComesLast ==
    ASSUME ParseStep, stage' = "reparse"
    PROVE  stage = "reparse" /\ json' = json
<1>1. stage \in {"parse", "reparse"}
  BY Zenon DEF ParseStep, SkipSpace, ReadColon, EnterOwn, CallNested, ReadComma, ReadBrace,
               EndOfText, Collect, Reads, More
<1>2. \/ UNCHANGED <<json, stage>>
      \/ stage' = IF stage = "parse" THEN "parsed" ELSE "reparsed"
  BY Zenon DEF ParseStep, SkipSpace, ReadColon, EnterOwn, CallNested, ReadComma, ReadBrace,
               EndOfText, Collect, Return
<1> QED  BY <1>1, <1>2

LEMMA WritesInvStep == StartupInv /\ WritesInv /\ [StartupNext]_startupVars => WritesInv'
<1> SUFFICES ASSUME StartupInv, WritesInv, [StartupNext]_startupVars, stage' = "reparse"
             PROVE  WritesInv'
  BY DEF WritesInv
<1>1. CASE Parse
  <2>1. ParseStep
    BY <1>1 DEF Parse
  <2>2. stage = "reparse" /\ json' = json
    BY <2>1, ResultComesLast
  <2>3. CASE OneObject(json) /\ Separate(json)
    <3>1. ~\E ms : Done(ms, FALSE)
      BY <2>2 DEF Done
    <3> QED  BY <2>1, <2>2, <2>3, <3>1, ReparseStep
  <2>4. CASE ~(OneObject(json) /\ Separate(json))
    <3>1. Printable(json') /\ ~(OneObject(json') /\ Separate(json'))
      BY <2>2, <2>4 DEF WritesInv
    <3> QED  BY <3>1 DEF WritesInv
  <2> QED  BY <2>3, <2>4
<1>2. CASE RoundTrip
  <2>1. /\ text' = Marshal(json) /\ frames' = <<Frame(1)>> /\ json' = json
        /\ Printable(json)
    BY <1>2, Zenon DEF RoundTrip, Reparse, Printable
  <2>2. ASSUME OneObject(json), Separate(json)
        PROVE  \E ms, b : /\ AllLaid(text', ms, FALSE, b)
                          /\ Parsing(frames', text', ms, FALSE, b)
                          /\ Lists(ms, json) /\ ObjectsLast(ms)
    <3>1. PICK ms, b : /\ AllLaid(Marshal(json), ms, FALSE, b)
                       /\ Lists(ms, json) /\ ObjectsLast(ms)
      BY <2>1, <2>2, MarshalLaid DEF StartupInv, Marshallable
    <3>2. Parsing(<<Frame(1)>>, text', ms, FALSE, b)
      BY FirstFrame
    <3> QED  BY <2>1, <3>1, <3>2
  <2>3. /\ Printable(json') /\ (OneObject(json') <=> OneObject(json))
        /\ Separate(json') <=> Separate(json)
    BY <2>1
  <2> QED  BY <2>1, <2>2, <2>3 DEF WritesInv
<1>3. CASE Construct \/ ConstructPlain \/ UNCHANGED startupVars
  <2>1. UNCHANGED <<text, frames, json, stage>>
    BY <1>3 DEF Construct, ConstructPlain, startupVars, jsonVars
  <2> QED  BY <2>1 DEF WritesInv
<1> QED  BY <1>1, <1>2, <1>3 DEF StartupNext

(* The round trip of tests/test_json.cpp: data that marshal has written,   *)
(* with no more than one object, are the same when the text is parsed,     *)
(* whatever their members, their number and the order of the keys; but a   *)
(* float is what the stream has written for it, under the type of that.    *)
THEOREM MarshalIsKept == StartupSpec => MarshalKeeps
<1> DEFINE Result == /\ Reprinted(json, json')
                    /\ \A key \in ObjectKeys(json) : Reprinted(json[key], json'[key])
           Keeps == /\ stage = "reparse" /\ stage' = "reparsed"
                    /\ Cardinality(ObjectKeys(json)) <= 1
                    /\ OneForOne(json) /\ \A key \in ObjectKeys(json) : OneForOne(json[key])
                    => Result
<1>1. StartupInit => WritesInv
  BY DEF StartupInit, WritesInv
<1>2. ASSUME StartupInv, WritesInv, [StartupNext]_startupVars PROVE Keeps
  <2> SUFFICES ASSUME stage = "reparse", stage' = "reparsed",
                      Cardinality(ObjectKeys(json)) <= 1,
                      OneForOne(json), \A key \in ObjectKeys(json) : OneForOne(json[key])
               PROVE  Result
    OBVIOUS
  <2>1. ParseStep
    BY <1>2 DEF StartupNext, Parse, Construct, ConstructPlain, RoundTrip, Reparse, startupVars,
                jsonVars
  <2>2. DataOK(json) /\ Printable(json) /\ Separate(json)
    BY <1>2 DEF StartupInv, WritesInv, Separate, ObjectKeys
  <2>3. OneObject(json) /\ Marshallable(json)
    BY <2>2, AtMostOne DEF Marshallable
  <2>4. ~Quiet
    BY DEF Quiet
  <2>5. PICK ms : /\ Done(ms, FALSE) /\ Lists(ms, json) /\ ObjectsLast(ms)
                  /\ Len(ms) \in Nat
    BY <1>2, <2>1, <2>2, <2>3, <2>4, ReparseStep
  <2>6. Known(json', ms, FALSE, Len(ms))
    BY <2>5 DEF Done
  <2> QED  BY <2>2, <2>3, <2>5, <2>6, AllIsKept
<1>3. StartupInv /\ WritesInv /\ [StartupNext]_startupVars => [Keeps]_startupVars
  BY <1>2
<1>4. StartupSpec => []StartupInv
  BY StartupInvInit, StartupInvStep, PTL DEF StartupSpec
<1> QED  BY <1>1, <1>3, <1>4, WritesInvStep, PTL DEF StartupSpec, MarshalKeeps
=============================================================================
