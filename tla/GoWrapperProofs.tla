-------------------------- MODULE GoWrapperProofs --------------------------
(***************************************************************************)
(* The properties of GoWrapper, for any number of goroutines and of keys   *)
(* and for all slices.                                                     *)
(***************************************************************************)
EXTENDS GoWrapper, TLAPS

-----------------------------------------------------------------------------
(* Calls.                                                                  *)

SetCall == [pc : SetPcs, key : Keys, slice : Slices]
AllocCall == [pc : {"alloc"}, key : Keys]
GetCall == [pc : {"get"}, key : Keys, lenMax : Nat \ {0, 1}]
FreeCall == [pc : FreePcs]

(* What a call is follows from where it stands.                            *)
LEMMA CallKinds ==
    ASSUME NEW c \in Call
    PROVE  /\ c.pc \in {"out"} \cup SetPcs \cup GetPcs \cup FreePcs
           /\ c.pc = "out" => c = NoCall
           /\ c.pc \in SetPcs => c \in SetCall
           /\ c.pc = "alloc" => c \in AllocCall
           /\ c.pc = "get" => c \in GetCall
           /\ c.pc \in FreePcs => c \in FreeCall
<1>1. c \in {NoCall} \cup SetCall \cup AllocCall \cup GetCall \cup FreeCall
  BY DEF Call, SetCall, AllocCall, GetCall, FreeCall
<1>2. CASE c = NoCall
  BY <1>2 DEF NoCall, SetPcs, FreePcs
<1>3. CASE c \in SetCall
  BY <1>3 DEF SetCall, SetPcs, FreePcs
<1>4. CASE c \in AllocCall
  BY <1>4 DEF AllocCall, SetPcs, GetPcs, FreePcs
<1>5. CASE c \in GetCall
  BY <1>5 DEF GetCall, SetPcs, GetPcs, FreePcs
<1>6. CASE c \in FreeCall
  BY <1>6 DEF FreeCall, SetPcs, FreePcs
<1> QED
  BY <1>1, <1>2, <1>3, <1>4, <1>5, <1>6

(* A call moves on within its kind.                                        *)
LEMMA CallMoves ==
    ASSUME NEW c \in Call, NEW pc
    PROVE  /\ c.pc \in SetPcs /\ pc \in SetPcs =>
                LET d == [c EXCEPT !.pc = pc] IN
                d \in SetCall /\ d \in Call /\ d.pc = pc /\ d.key = c.key /\ d.slice = c.slice
           /\ c.pc \in FreePcs /\ pc \in FreePcs =>
                LET d == [c EXCEPT !.pc = pc] IN d \in Call /\ d.pc = pc
<1>1. ASSUME c \in SetCall, pc \in SetPcs
      PROVE  LET d == [c EXCEPT !.pc = pc] IN
             d \in SetCall /\ d.pc = pc /\ d.key = c.key /\ d.slice = c.slice
  BY <1>1 DEF SetCall
<1>2. ASSUME c \in FreeCall, pc \in FreePcs
      PROVE  LET d == [c EXCEPT !.pc = pc] IN d \in FreeCall /\ d.pc = pc
  BY <1>2 DEF FreeCall
<1>3. SetCall \subseteq Call /\ FreeCall \subseteq Call
  BY DEF Call, SetCall, FreeCall
<1> QED
  BY <1>1, <1>2, <1>3, CallKinds

-----------------------------------------------------------------------------
(* The invariants.  Unless a Free has met another call, it is alone from   *)
(* its beginning to its end; once the flag is clear nobody is inside.      *)

Inside == SetPcs \cup GetPcs \cup {"free"}

FreeInv ==
    /\ \A g \in Goroutines : calls[g].pc \in {"delete", "join"} => ~alive
    /\ "free" \notin racing =>
         /\ \A g, h \in Goroutines : calls[g].pc \in FreePcs /\ h # g => calls[h].pc = "out"
         /\ ~alive => \A g \in Goroutines : calls[g].pc \notin Inside
         /\ object # "live" => ~alive /\ \A g \in Goroutines : calls[g].pc # "delete"

(* The slice of a Set has bytes.                                           *)
SliceInv == \A g \in Goroutines : calls[g].pc \in SetPcs => SliceLen[calls[g].slice] > 0

(* Unless two Sets have met, one Set at a time tests and writes.           *)
SetInv ==
    "set" \notin racing =>
      /\ \A g, h \in Goroutines : calls[g].pc \in SetPcs /\ calls[h].pc \in SetPcs => g = h
      /\ \A g \in Goroutines : calls[g].pc = "update" => SliceLen[calls[g].slice] > maxBufSize

(* Unless a Get has met a Set, its buffer has the size of the maximum.     *)
GetInv ==
    "get" \notin racing =>
      \A g \in Goroutines : calls[g].pc \in GetPcs =>
        /\ \A h \in Goroutines : calls[h].pc \notin SetPcs
        /\ calls[g].pc = "get" => calls[g].lenMax = maxBufSize + 1

GoInv ==
    /\ GoTypeOK /\ FreeInv /\ SliceInv /\ SetInv /\ GetInv
    /\ BufferIsEnough /\ SpillNeedsRace /\ FreeIsSafeAlone

(* What a step of one goroutine does to the calls.                         *)
Moved(g, c) == calls' = [calls EXCEPT ![g] = c]

LEMMA OthersStay ==
    ASSUME GoTypeOK, NEW g \in Goroutines, NEW c \in Call, Moved(g, c)
    PROVE  /\ calls' \in [Goroutines -> Call]
           /\ calls'[g] = c
           /\ \A h \in Goroutines : h # g => calls'[h] = calls[h]
  BY DEF GoTypeOK, Moved

LEMMA GoInitInv == ASSUME GoInit PROVE GoInv
<1> USE DEF GoInit
<1>1. GoTypeOK
  BY DEF GoTypeOK, Call
<1>2. FreeInv /\ SliceInv /\ SetInv /\ GetInv
  BY DEF FreeInv, SliceInv, SetInv, GetInv, NoCall, Inside, SetPcs, GetPcs, FreePcs
<1>3. BufferIsEnough /\ SpillNeedsRace /\ FreeIsSafeAlone
  BY DEF BufferIsEnough, Ordinary, SpillNeedsRace, FreeIsSafeAlone
<1> QED
  BY <1>1, <1>2, <1>3 DEF GoInv

-----------------------------------------------------------------------------
(* Steps of several actions.                                               *)

(* Entries are only taken away, or replaced by ones that are not ordinary. *)
EntriesShrink ==
    \A k \in Keys : Ordinary(entries[k])' => entries'[k] = entries[k]

(* A call returns.  If it has stored a value, the maximum covers it.       *)
LEMMA Leaves ==
    ASSUME GoInv, NEW g \in Goroutines, fault = "none",
           Moved(g, NoCall), EntriesShrink,
           entries' \in [Keys -> {Absent} \cup Entry],
           UNCHANGED <<force_set, alive, maxBufSize, object, racing, fault>>,
           calls[g].pc \in {"test", "update"} => SliceLen[calls[g].slice] <= maxBufSize
    PROVE  GoInv'
<1>1. NoCall \in Call /\ NoCall.pc = "out"
  BY DEF Call, NoCall
<1>2. GoTypeOK /\ calls' \in [Goroutines -> Call] /\ calls'[g] = NoCall
      /\ \A h \in Goroutines : h # g => calls'[h] = calls[h]
  BY <1>1, OthersStay DEF GoInv
<1>3. GoTypeOK'
  BY <1>2 DEF GoTypeOK
<1>4. \A h \in Goroutines : calls'[h].pc = "out" \/ (h # g /\ calls'[h] = calls[h])
  BY <1>1, <1>2
<1>5. FreeInv'
  BY <1>1, <1>4 DEF GoInv, FreeInv, Inside, SetPcs, GetPcs, FreePcs
<1>6. SliceInv' /\ SetInv'
  BY <1>1, <1>4 DEF GoInv, SliceInv, SetInv, SetPcs
<1>7. GetInv'
  BY <1>1, <1>4 DEF GoInv, GetInv, SetPcs, GetPcs
<1>8. BufferIsEnough'
  <2> SUFFICES ASSUME "set" \notin racing, NEW k \in Keys, Ordinary(entries[k])'
               PROVE  \/ entries[k].len <= maxBufSize
                      \/ \E h \in Busy({"test", "update"})' : calls'[h].slice = entries[k].slice
    BY DEF BufferIsEnough, EntriesShrink
  <2>1. entries'[k] = entries[k] /\ Ordinary(entries[k]) /\ entries[k] \in Entry
    BY <1>2 DEF EntriesShrink, Ordinary, GoTypeOK
  <2>2. CASE entries[k].len <= maxBufSize
    BY <2>2
  <2>3. CASE \E h \in Busy({"test", "update"}) : calls[h].slice = entries[k].slice
    <3>1. PICK h \in Busy({"test", "update"}) : calls[h].slice = entries[k].slice
      BY <2>3
    <3>2. CASE h = g
      <4>1. SliceLen[entries[k].slice] <= maxBufSize
        BY <3>1, <3>2 DEF Busy
      <4>2. entries[k].len \in Nat /\ SliceLen[entries[k].slice] \in Nat /\ maxBufSize \in Nat
        BY <1>2, <2>1, GoAssumption DEF Entry, GoTypeOK
      <4> QED
        BY <2>1, <4>1, <4>2 DEF Ordinary
    <3>3. CASE h # g
      BY <1>2, <3>1, <3>3 DEF Busy
    <3> QED
      BY <3>2, <3>3
  <2> QED
    BY <2>1, <2>2, <2>3 DEF GoInv, BufferIsEnough
<1>9. SpillNeedsRace' /\ FreeIsSafeAlone'
  BY DEF SpillNeedsRace, FreeIsSafeAlone
<1> QED
  BY <1>3, <1>5, <1>6, <1>7, <1>8, <1>9 DEF GoInv

(* The undefined behaviour is reached: the use of a deleted cache.         *)
LEMMA Faults ==
    ASSUME GoInv, fault = "none", fault' = "deleted", "free" \in racing,
           UNCHANGED <<force_set, alive, maxBufSize, calls, object, entries, racing>>
    PROVE  GoInv'
<1>1. GoTypeOK' /\ SpillNeedsRace' /\ FreeIsSafeAlone'
  BY DEF GoInv, GoTypeOK, SpillNeedsRace, FreeIsSafeAlone
<1>2. FreeInv' /\ SliceInv' /\ SetInv' /\ GetInv'
  BY DEF GoInv, FreeInv, SliceInv, SetInv, GetInv
<1>3. BufferIsEnough'
  BY DEF GoInv, BufferIsEnough, Busy, Ordinary
<1> QED
  BY <1>1, <1>2, <1>3 DEF GoInv

LEMMA RefusedStep == ASSUME GoInv, NEW g \in Goroutines, Refused(g) PROVE GoInv'
  BY Leaves DEF Refused, At, Return, Moved, EntriesShrink, GoInv, GoTypeOK

LEMMA SetPanicsStep ==
    ASSUME GoInv, NEW g \in Goroutines, NEW s \in Slices, SetPanics(g, s) PROVE GoInv'
  BY Leaves DEF SetPanics, At, Return, Moved, EntriesShrink, GoInv, GoTypeOK

(* A call begins: it meets the calls in progress.                          *)
LEMMA BeginStep ==
    ASSUME GoInv, NEW g \in Goroutines, NEW c \in Call, NEW races \in SUBSET {"set", "get", "free"},
           Begin(g, c, races), c.pc \in {"set", "alloc", "free"},
           c.pc = "set" => /\ SliceLen[c.slice] > 0
                           /\ Busy(SetPcs) # {} => "set" \in races
                           /\ Busy(GetPcs) # {} => "get" \in races,
           c.pc = "alloc" => (Busy(SetPcs) # {} => "get" \in races),
           c.pc = "free" => (Busy(SetPcs \cup GetPcs \cup FreePcs) # {} => "free" \in races),
           Busy({"free"}) # {} => "free" \in races
    PROVE  GoInv'
<1>1. GoTypeOK /\ calls' \in [Goroutines -> Call] /\ calls'[g] = c
      /\ (\A h \in Goroutines : h # g => calls'[h] = calls[h])
  BY OthersStay DEF GoInv, Begin, Moved
<1>2. /\ racing' = racing \cup races /\ alive /\ fault = "none" /\ calls[g].pc = "out"
      /\ UNCHANGED <<force_set, alive, maxBufSize, object, entries, fault>>
  BY DEF Begin, At
<1>3. GoTypeOK'
  BY <1>1, <1>2 DEF GoTypeOK
<1>4. \A h \in Goroutines : calls[h].pc \in {"out"} \cup SetPcs \cup GetPcs \cup FreePcs
  BY <1>1, CallKinds DEF GoTypeOK
<1>5. FreeInv'
  <2>1. ASSUME "free" \notin racing', NEW h \in Goroutines, NEW i \in Goroutines,
               calls'[h].pc \in FreePcs, i # h
        PROVE  calls'[i].pc = "out"
    <3>1. "free" \notin racing /\ Busy({"free"}) = {}
      BY <1>2, <2>1
    <3>2. CASE h = g
      <4>1. c.pc = "free"
        BY <1>1, <2>1, <3>2 DEF FreePcs
      <4>2. Busy(SetPcs \cup GetPcs \cup FreePcs) = {}
        BY <1>2, <2>1, <4>1
      <4> QED
        BY <1>1, <1>4, <2>1, <3>2, <4>2 DEF Busy
    <3>3. CASE h # g
      <4>1. calls[h].pc \in FreePcs /\ calls[h].pc # "free"
        BY <1>1, <2>1, <3>1, <3>3 DEF Busy
      <4> QED
        BY <1>2, <4>1 DEF GoInv, FreeInv, FreePcs
    <3> QED
      BY <3>2, <3>3
  <2>2. \A h \in Goroutines : calls'[h].pc \in {"delete", "join"} => ~alive
    BY <1>1 DEF GoInv, FreeInv
  <2>3. "free" \notin racing' => object = "live"
    BY <1>2 DEF GoInv, FreeInv
  <2> QED
    BY <1>2, <2>1, <2>2, <2>3 DEF FreeInv
<1>6. SetInv'
  <2>1. ASSUME "set" \notin racing', NEW h \in Goroutines, NEW i \in Goroutines,
               calls'[h].pc \in SetPcs, calls'[i].pc \in SetPcs
        PROVE  h = i
    <3>1. "set" \notin racing
      BY <1>2, <2>1
    <3>2. CASE c.pc = "set"
      <4>1. Busy(SetPcs) = {}
        BY <1>2, <2>1, <3>2
      <4> QED
        BY <1>1, <2>1, <4>1 DEF Busy
    <3>3. CASE c.pc # "set"
      <4>1. c.pc \notin SetPcs
        BY <3>3 DEF SetPcs
      <4> QED
        BY <1>1, <2>1, <3>1, <4>1 DEF GoInv, SetInv
    <3> QED
      BY <3>2, <3>3
  <2>2. \A h \in Goroutines : calls'[h].pc = "update" => calls[h].pc = "update" /\ calls'[h] = calls[h]
    BY <1>1
  <2> QED
    BY <1>2, <2>1, <2>2 DEF GoInv, SetInv
<1>7. GetInv'
  <2> SUFFICES ASSUME "get" \notin racing', NEW h \in Goroutines, calls'[h].pc \in GetPcs
               PROVE  /\ \A i \in Goroutines : calls'[i].pc \notin SetPcs
                      /\ calls'[h].pc = "get" => calls'[h].lenMax = maxBufSize + 1
    BY <1>2 DEF GetInv
  <2>1. "get" \notin racing
    BY <1>2
  <2>2. CASE c.pc = "set"
    <3>1. Busy(GetPcs) = {}
      BY <1>2, <2>2
    <3> QED
      BY <1>1, <2>2, <3>1 DEF Busy, GetPcs
  <2>3. CASE c.pc = "alloc"
    <3>1. Busy(SetPcs) = {}
      BY <1>2, <2>3
    <3>2. \A i \in Goroutines : calls'[i].pc \notin SetPcs
      BY <1>1, <2>3, <3>1 DEF Busy, SetPcs
    <3>3. calls'[h].pc = "get" => calls'[h] = calls[h] /\ calls[h].pc \in GetPcs
      BY <1>1, <2>3 DEF GetPcs
    <3> QED
      BY <2>1, <3>2, <3>3 DEF GoInv, GetInv
  <2>4. CASE c.pc = "free"
    <3>1. h # g /\ calls'[h] = calls[h] /\ c.pc \notin SetPcs
      BY <1>1, <2>4 DEF GetPcs, SetPcs
    <3> QED
      BY <1>1, <2>1, <3>1 DEF GoInv, GetInv
  <2> QED
    BY <2>2, <2>3, <2>4
<1>8. BufferIsEnough'
  <2> SUFFICES ASSUME "set" \notin racing, NEW k \in Keys, Ordinary(entries[k])
               PROVE  \/ entries[k].len <= maxBufSize
                      \/ \E h \in Busy({"test", "update"})' : calls'[h].slice = entries[k].slice
    BY <1>2 DEF BufferIsEnough, Ordinary
  <2>1. CASE \E h \in Busy({"test", "update"}) : calls[h].slice = entries[k].slice
    BY <1>1, <1>2, <2>1 DEF Busy
  <2> QED
    BY <2>1 DEF GoInv, BufferIsEnough
<1>9. SliceInv'
  BY <1>1 DEF GoInv, SliceInv, SetPcs
<1>10. SpillNeedsRace' /\ FreeIsSafeAlone'
  BY <1>2 DEF SpillNeedsRace, FreeIsSafeAlone
<1> QED
  BY <1>3, <1>5, <1>6, <1>7, <1>8, <1>9, <1>10 DEF GoInv

LEMMA SetBeginStep ==
    ASSUME GoInv, NEW g \in Goroutines, NEW k \in Keys, NEW s \in Slices, SetBegin(g, k, s)
    PROVE  GoInv'
<1> DEFINE c == [pc |-> "set", key |-> k, slice |-> s]
           races == Meets("set", SetPcs) \cup Meets("get", GetPcs) \cup Meets("free", {"free"})
<1>1. c \in Call /\ c.pc = "set" /\ SliceLen[c.slice] > 0
  BY DEF Call, SetPcs, SetBegin
<1>2. /\ races \in SUBSET {"set", "get", "free"}
      /\ Busy(SetPcs) # {} => "set" \in races
      /\ Busy(GetPcs) # {} => "get" \in races
      /\ Busy({"free"}) # {} => "free" \in races
  BY DEF Meets
<1>3. Begin(g, c, races)
  BY DEF SetBegin
<1> HIDE DEF c, races
<1> QED
  BY <1>1, <1>2, <1>3, BeginStep

LEMMA GetBeginStep ==
    ASSUME GoInv, NEW g \in Goroutines, NEW k \in Keys, GetBegin(g, k)
    PROVE  GoInv'
<1> DEFINE c == [pc |-> "alloc", key |-> k]
           races == Meets("get", SetPcs) \cup Meets("free", {"free"})
<1>1. c \in Call /\ c.pc = "alloc"
  BY DEF Call
<1>2. /\ races \in SUBSET {"set", "get", "free"}
      /\ Busy(SetPcs) # {} => "get" \in races
      /\ Busy({"free"}) # {} => "free" \in races
  BY DEF Meets
<1>3. Begin(g, c, races)
  BY DEF GetBegin
<1> HIDE DEF c, races
<1> QED
  BY <1>1, <1>2, <1>3, BeginStep

LEMMA FreeBeginStep ==
    ASSUME GoInv, NEW g \in Goroutines, FreeBegin(g)
    PROVE  GoInv'
<1> DEFINE c == [pc |-> "free"]
           races == Meets("free", SetPcs \cup GetPcs \cup FreePcs)
<1>1. c \in Call /\ c.pc = "free"
  BY DEF Call, FreePcs
<1>2. /\ races \in SUBSET {"set", "get", "free"}
      /\ Busy(SetPcs \cup GetPcs \cup FreePcs) # {} => "free" \in races
      /\ Busy({"free"}) # {} => "free" \in races
  BY DEF Meets, Busy, FreePcs
<1>3. Begin(g, c, races)
  BY DEF FreeBegin
<1> HIDE DEF c, races
<1> QED
  BY <1>1, <1>2, <1>3, BeginStep

-----------------------------------------------------------------------------
(* Set.                                                                    *)

LEMMA UsesDeletedStep ==
    ASSUME GoInv, NEW g \in Goroutines, fault = "none", calls[g].pc \in Inside, UsesDeleted(g)
    PROVE  GoInv'
<1>1. "free" \in racing
  BY DEF UsesDeleted, GoInv, FreeInv
<1> QED
  BY <1>1, Faults DEF UsesDeleted

LEMMA SetEmptyStep ==
    ASSUME GoInv, NEW g \in Goroutines, At(g, "set"), SetEmpty(g)
    PROVE  GoInv'
  BY Leaves DEF SetEmpty, At, Return, Moved, EntriesShrink, GoInv, GoTypeOK

LEMMA SetExistsStep ==
    ASSUME GoInv, NEW g \in Goroutines, At(g, "set"), SetExists(g)
    PROVE  GoInv'
  BY Leaves DEF SetExists, At, Return, Moved, EntriesShrink, GoInv, GoTypeOK

LEMMA SetNoSpaceStep ==
    ASSUME GoInv, NEW g \in Goroutines, At(g, "set"), SetNoSpace(g)
    PROVE  GoInv'
<1>1. entries' \in [Keys -> {Absent} \cup Entry] /\ EntriesShrink
  BY DEF GoInv, GoTypeOK, SetNoSpace, EntriesShrink, Ordinary
<1> QED
  BY <1>1, Leaves DEF SetNoSpace, At, Return, Moved

(* The entry that cbc_set leaves.                                          *)
LEMMA MadeEntry ==
    ASSUME GoInv, NEW g \in Goroutines, At(g, "set"),
           NEW len \in Nat, NEW whole \in BOOLEAN, Made(g, len, whole)
    PROVE  /\ calls[g] \in SetCall
           /\ entries' \in [Keys -> {Absent} \cup Entry]
           /\ \A k \in Keys : k # calls[g].key => entries'[k] = entries[k]
           /\ entries'[calls[g].key] \in Entry
           /\ entries'[calls[g].key].slice = calls[g].slice
           /\ entries'[calls[g].key].whole = whole
<1>1. calls[g] \in SetCall /\ calls[g].key \in Keys /\ calls[g].slice \in Slices
  BY CallKinds DEF GoInv, GoTypeOK, At, SetPcs, SetCall
<1>2. [node |-> "entry", len |-> len, slice |-> calls[g].slice, whole |-> whole] \in Entry
  BY <1>1 DEF Entry
<1> QED
  BY <1>1, <1>2 DEF Made, GoInv, GoTypeOK

LEMMA LengthsAreNat ==
    ASSUME GoInv, NEW g \in Goroutines, At(g, "set")
    PROVE  Lengths(g) \subseteq Nat
<1>1. calls[g].slice \in Slices
  BY CallKinds DEF GoInv, GoTypeOK, At, SetPcs, SetCall
<1> QED
  BY <1>1, GoAssumption DEF Lengths

LEMMA SetInternalStep ==
    ASSUME GoInv, NEW g \in Goroutines, At(g, "set"), SetInternal(g)
    PROVE  GoInv'
<1>1. PICK n \in Lengths(g) : \E len \in 0..(n - 1) : Made(g, len, FALSE)
  BY DEF SetInternal
<1>2. PICK len \in 0..(n - 1) : Made(g, len, FALSE)
  BY <1>1
<1>3. len \in Nat /\ FALSE \in BOOLEAN
  OBVIOUS
<1>4. entries' \in [Keys -> {Absent} \cup Entry] /\ EntriesShrink
  BY <1>2, <1>3, MadeEntry DEF EntriesShrink, Ordinary
<1> QED
  BY <1>4, Leaves DEF SetInternal, At, Return, Moved

(* A Set goes on.                                                          *)
LEMMA SetGoesOn ==
    ASSUME GoInv, NEW g \in Goroutines, NEW pc \in SetPcs, fault = "none",
           calls[g].pc \in {"set", "test"}, GoTo(g, pc),
           pc = "update" => SliceLen[calls[g].slice] > maxBufSize,
           entries' \in [Keys -> {Absent} \cup Entry],
           UNCHANGED <<force_set, alive, maxBufSize, object, racing, fault>>
    PROVE  /\ GoTypeOK' /\ FreeInv' /\ SliceInv' /\ SetInv' /\ GetInv'
           /\ SpillNeedsRace' /\ FreeIsSafeAlone'
           /\ calls'[g].pc = pc /\ calls'[g].slice = calls[g].slice
           /\ \A h \in Goroutines : h # g => calls'[h] = calls[h]
<1> DEFINE c == [calls[g] EXCEPT !.pc = pc]
<1>1. calls[g] \in Call /\ calls[g].pc \in SetPcs
  BY DEF GoInv, GoTypeOK, SetPcs
<1>2. c \in Call /\ c.pc = pc /\ c.slice = calls[g].slice
  BY <1>1, CallMoves
<1>3. Moved(g, c)
  BY DEF GoTo, Moved
<1> HIDE DEF c
<1>4. calls' \in [Goroutines -> Call] /\ calls'[g] = c
      /\ \A h \in Goroutines : h # g => calls'[h] = calls[h]
  BY <1>2, <1>3, OthersStay DEF GoInv
<1>5. GoTypeOK'
  BY <1>4 DEF GoInv, GoTypeOK
<1>6. FreeInv'
  BY <1>1, <1>2, <1>4 DEF GoInv, FreeInv, Inside, SetPcs, GetPcs, FreePcs
<1>7. SliceInv' /\ SetInv'
  BY <1>1, <1>2, <1>4 DEF GoInv, SliceInv, SetInv
<1>8. GetInv'
  BY <1>1, <1>2, <1>4 DEF GoInv, GetInv, SetPcs, GetPcs
<1>9. SpillNeedsRace' /\ FreeIsSafeAlone'
  BY DEF SpillNeedsRace, FreeIsSafeAlone
<1> QED
  BY <1>2, <1>4, <1>5, <1>6, <1>7, <1>8, <1>9

LEMMA SetStoredStep ==
    ASSUME GoInv, NEW g \in Goroutines, At(g, "set"), SetStored(g)
    PROVE  GoInv'
<1>1. /\ calls[g] \in SetCall
      /\ entries' \in [Keys -> {Absent} \cup Entry]
      /\ \A k \in Keys : k # calls[g].key => entries'[k] = entries[k]
      /\ entries'[calls[g].key].slice = calls[g].slice
  <2>1. PICK n \in Lengths(g) : Made(g, n, TRUE)
    BY DEF SetStored
  <2>2. n \in Nat /\ TRUE \in BOOLEAN
    BY LengthsAreNat
  <2> QED
    BY <2>1, <2>2, MadeEntry
<1>2. /\ GoTypeOK' /\ FreeInv' /\ SliceInv' /\ SetInv' /\ GetInv'
      /\ SpillNeedsRace' /\ FreeIsSafeAlone'
      /\ calls'[g].pc = "test" /\ calls'[g].slice = calls[g].slice
      /\ \A h \in Goroutines : h # g => calls'[h] = calls[h]
  <2>1. "test" \in SetPcs /\ calls[g].pc \in {"set", "test"} /\ fault = "none"
    BY DEF SetPcs, At
  <2> QED
    BY <1>1, <2>1, SetGoesOn DEF SetStored
<1>3. BufferIsEnough'
  <2> SUFFICES ASSUME "set" \notin racing, NEW k \in Keys, Ordinary(entries[k])'
               PROVE  \/ entries'[k].len <= maxBufSize
                      \/ \E h \in Busy({"test", "update"})' : calls'[h].slice = entries'[k].slice
    BY DEF SetStored, BufferIsEnough
  <2>1. CASE k = calls[g].key
    BY <1>1, <1>2, <2>1 DEF Busy
  <2>2. CASE k # calls[g].key
    <3>1. entries'[k] = entries[k] /\ Ordinary(entries[k])
      BY <1>1, <2>2 DEF Ordinary
    <3>2. CASE \E h \in Busy({"test", "update"}) : calls[h].slice = entries[k].slice
      BY <1>2, <3>1, <3>2 DEF Busy, At
    <3> QED
      BY <3>1, <3>2 DEF GoInv, BufferIsEnough
  <2> QED
    BY <2>1, <2>2
<1> QED
  BY <1>2, <1>3 DEF GoInv

LEMMA SetTestStep ==
    ASSUME GoInv, NEW g \in Goroutines, SetTest(g)
    PROVE  GoInv'
<1>1. /\ calls[g] \in SetCall /\ calls[g].pc = "test" /\ fault = "none"
      /\ SliceLen[calls[g].slice] \in Nat /\ maxBufSize \in Nat
  BY CallKinds, GoAssumption DEF SetTest, At, GoInv, GoTypeOK, SetPcs, SetCall
<1>2. entries' \in [Keys -> {Absent} \cup Entry] /\ EntriesShrink
  BY DEF SetTest, GoInv, GoTypeOK, EntriesShrink
<1>3. CASE SliceLen[calls[g].slice] > maxBufSize
  <2>1. /\ GoTypeOK' /\ FreeInv' /\ SliceInv' /\ SetInv' /\ GetInv'
        /\ SpillNeedsRace' /\ FreeIsSafeAlone'
        /\ calls'[g].pc = "update" /\ calls'[g].slice = calls[g].slice
        /\ \A h \in Goroutines : h # g => calls'[h] = calls[h]
    <3>1. "update" \in SetPcs /\ calls[g].pc \in {"set", "test"}
      BY <1>1 DEF SetPcs
    <3>2. GoTo(g, "update") /\ UNCHANGED <<force_set, alive, maxBufSize, object, racing, fault>>
      BY <1>3 DEF SetTest
    <3> QED
      BY <1>1, <1>2, <1>3, <3>1, <3>2, SetGoesOn
  <2>2. BufferIsEnough'
    <3> SUFFICES ASSUME "set" \notin racing, NEW k \in Keys, Ordinary(entries[k])
                 PROVE  \/ entries[k].len <= maxBufSize
                        \/ \E h \in Busy({"test", "update"})' : calls'[h].slice = entries[k].slice
      BY DEF SetTest, BufferIsEnough, Ordinary
    <3>1. CASE \E h \in Busy({"test", "update"}) : calls[h].slice = entries[k].slice
      BY <2>1, <3>1 DEF Busy
    <3> QED
      BY <3>1 DEF GoInv, BufferIsEnough
  <2> QED
    BY <2>1, <2>2 DEF GoInv
<1>4. CASE ~(SliceLen[calls[g].slice] > maxBufSize)
  <2>1. SliceLen[calls[g].slice] <= maxBufSize /\ Moved(g, NoCall)
    BY <1>1, <1>4 DEF SetTest, Return, Moved
  <2>2. UNCHANGED <<force_set, alive, maxBufSize, object, racing, fault>>
    BY DEF SetTest
  <2> QED
    BY <1>1, <1>2, <2>1, <2>2, Leaves
<1> QED
  BY <1>3, <1>4

LEMMA SetUpdateStep ==
    ASSUME GoInv, NEW g \in Goroutines, SetUpdate(g)
    PROVE  GoInv'
<1>1. /\ calls[g] \in SetCall /\ calls[g].pc = "update" /\ fault = "none"
      /\ SliceLen[calls[g].slice] \in Nat /\ maxBufSize \in Nat \ {0} /\ GoTypeOK
  BY CallKinds, GoAssumption DEF SetUpdate, At, GoInv, GoTypeOK, SetPcs, SetCall
<1>2. maxBufSize' = SliceLen[calls[g].slice] /\ Moved(g, NoCall)
      /\ UNCHANGED <<force_set, alive, object, entries, racing, fault>>
  BY DEF SetUpdate, Return, Moved
<1>3. NoCall \in Call /\ NoCall.pc = "out"
  BY DEF Call, NoCall
<1>4. calls' \in [Goroutines -> Call] /\ calls'[g] = NoCall
      /\ \A h \in Goroutines : h # g => calls'[h] = calls[h]
  BY <1>1, <1>2, <1>3, OthersStay
<1>5. /\ SliceLen[calls[g].slice] > 0
      /\ \A h \in Goroutines : calls'[h].pc = "out" \/ (h # g /\ calls'[h] = calls[h])
  BY <1>1, <1>3, <1>4 DEF GoInv, SliceInv, SetPcs
<1>6. GoTypeOK' /\ SliceInv'
  BY <1>1, <1>2, <1>4, <1>5 DEF GoInv, GoTypeOK, SliceInv, SetPcs
<1>7. FreeInv'
  BY <1>2, <1>5 DEF GoInv, FreeInv, Inside, SetPcs, GetPcs, FreePcs
<1>8. SetInv'
  BY <1>1, <1>2, <1>4, <1>5 DEF GoInv, SetInv, SetPcs
<1>9. GetInv'
  BY <1>1, <1>2, <1>5 DEF GoInv, GetInv, SetPcs, GetPcs
<1>10. BufferIsEnough'
  <2> SUFFICES ASSUME "set" \notin racing, NEW k \in Keys, Ordinary(entries[k])
               PROVE  \/ entries[k].len <= maxBufSize'
                      \/ \E h \in Busy({"test", "update"})' : calls'[h].slice = entries[k].slice
    BY <1>2 DEF BufferIsEnough, Ordinary
  <2>1. /\ entries[k] \in Entry /\ entries[k].len \in Nat
        /\ SliceLen[calls[g].slice] > maxBufSize
    BY <1>1 DEF GoInv, GoTypeOK, SetInv, Ordinary, Entry
  <2>2. CASE entries[k].len <= maxBufSize
    BY <1>1, <1>2, <2>1, <2>2
  <2>3. CASE \E h \in Busy({"test", "update"}) : calls[h].slice = entries[k].slice
    <3>1. PICK h \in Busy({"test", "update"}) : calls[h].slice = entries[k].slice
      BY <2>3
    <3>2. h = g
      BY <1>1, <3>1 DEF GoInv, SetInv, Busy, SetPcs
    <3> QED
      BY <1>2, <3>1, <3>2 DEF Ordinary
  <2> QED
    BY <2>2, <2>3 DEF GoInv, BufferIsEnough
<1>11. SpillNeedsRace' /\ FreeIsSafeAlone'
  BY <1>1, <1>2 DEF SpillNeedsRace, FreeIsSafeAlone
<1> QED
  BY <1>6, <1>7, <1>8, <1>9, <1>10, <1>11 DEF GoInv

-----------------------------------------------------------------------------
(* Get.                                                                    *)

LEMMA GetAllocStep ==
    ASSUME GoInv, NEW g \in Goroutines, GetAlloc(g)
    PROVE  GoInv'
<1> DEFINE c == [pc |-> "get", key |-> calls[g].key, lenMax |-> maxBufSize + 1]
<1>1. /\ calls[g] \in AllocCall /\ calls[g].pc = "alloc" /\ fault = "none" /\ GoTypeOK
      /\ maxBufSize \in Nat \ {0}
  BY CallKinds DEF GetAlloc, At, GoInv, GoTypeOK
<1>2. c \in Call /\ c.pc = "get" /\ c.lenMax = maxBufSize + 1
  BY <1>1 DEF Call, AllocCall
<1>3. Moved(g, c) /\ UNCHANGED <<force_set, alive, maxBufSize, object, entries, racing, fault>>
  BY DEF GetAlloc, Moved
<1> HIDE DEF c
<1>4. calls' \in [Goroutines -> Call] /\ calls'[g] = c
      /\ \A h \in Goroutines : h # g => calls'[h] = calls[h]
  BY <1>1, <1>2, <1>3, OthersStay
<1>5. GoTypeOK' /\ SpillNeedsRace' /\ FreeIsSafeAlone'
  BY <1>1, <1>3, <1>4 DEF GoTypeOK, SpillNeedsRace, FreeIsSafeAlone
<1>6. FreeInv'
  BY <1>1, <1>2, <1>3, <1>4 DEF GoInv, FreeInv, Inside, SetPcs, GetPcs, FreePcs
<1>7. SliceInv' /\ SetInv'
  BY <1>2, <1>3, <1>4 DEF GoInv, SliceInv, SetInv, SetPcs
<1>8. GetInv'
  BY <1>1, <1>2, <1>3, <1>4 DEF GoInv, GetInv, SetPcs, GetPcs
<1>9. BufferIsEnough'
  <2> SUFFICES ASSUME "set" \notin racing, NEW k \in Keys, Ordinary(entries[k])
               PROVE  \/ entries[k].len <= maxBufSize
                      \/ \E h \in Busy({"test", "update"})' : calls'[h].slice = entries[k].slice
    BY <1>3 DEF BufferIsEnough, Ordinary
  <2>1. CASE \E h \in Busy({"test", "update"}) : calls[h].slice = entries[k].slice
    BY <1>1, <1>4, <2>1 DEF Busy
  <2> QED
    BY <2>1 DEF GoInv, BufferIsEnough
<1> QED
  BY <1>5, <1>6, <1>7, <1>8, <1>9 DEF GoInv

LEMMA GetFailsStep ==
    ASSUME GoInv, NEW g \in Goroutines, At(g, "get"), GetFails(g)
    PROVE  GoInv'
  BY Leaves DEF GetFails, At, Return, Moved, EntriesShrink, GoInv, GoTypeOK

(* The terminator lands behind the buffer.                                 *)
LEMMA SpillStep ==
    ASSUME GoInv, NEW g \in Goroutines, At(g, "get"), fault' = "spill",
           ~(entries[calls[g].key].len < calls[g].lenMax),
           UNCHANGED <<force_set, alive, maxBufSize, calls, object, entries, racing>>
    PROVE  GoInv'
<1>1. /\ calls[g] \in GetCall /\ calls[g].pc = "get" /\ GoTypeOK
      /\ calls[g].key \in Keys /\ maxBufSize \in Nat
  BY CallKinds DEF At, GoInv, GoTypeOK, GetCall
<1>2. SpillNeedsRace'
  <2> SUFFICES ASSUME "set" \notin racing, "get" \notin racing, Ordinary(entries[calls[g].key])
               PROVE  FALSE
    BY <1>1 DEF SpillNeedsRace, Busy, Ordinary
  <2>1. entries[calls[g].key].len \in Nat
    BY <1>1 DEF Ordinary, GoTypeOK, Entry
  <2>2. calls[g].lenMax = maxBufSize + 1 /\ \A h \in Goroutines : calls[h].pc \notin SetPcs
    BY <1>1 DEF GoInv, GetInv, GetPcs
  <2>3. entries[calls[g].key].len <= maxBufSize
    BY <1>1, <2>2 DEF GoInv, BufferIsEnough, Busy, SetPcs
  <2> QED
    BY <1>1, <2>1, <2>2, <2>3
<1>3. GoTypeOK' /\ FreeIsSafeAlone'
  BY <1>1 DEF GoTypeOK, FreeIsSafeAlone
<1>4. FreeInv' /\ SliceInv' /\ SetInv' /\ GetInv'
  BY DEF GoInv, FreeInv, SliceInv, SetInv, GetInv
<1>5. BufferIsEnough'
  BY DEF GoInv, BufferIsEnough, Busy, Ordinary
<1> QED
  BY <1>2, <1>3, <1>4, <1>5 DEF GoInv

LEMMA GetDataStep ==
    ASSUME GoInv, NEW g \in Goroutines, At(g, "get"), GetData(g)
    PROVE  GoInv'
<1>1. CASE entries[calls[g].key].len < calls[g].lenMax
  BY <1>1, Leaves DEF GetData, At, Return, Moved, EntriesShrink, GoInv, GoTypeOK
<1>2. CASE ~(entries[calls[g].key].len < calls[g].lenMax)
  BY <1>2, SpillStep DEF GetData
<1> QED
  BY <1>1, <1>2

-----------------------------------------------------------------------------
(* Free.                                                                   *)

(* A Free goes on: it clears the flag, or begins to delete the cache.      *)
LEMMA FreeGoesOn ==
    ASSUME GoInv, NEW g \in Goroutines, NEW pc \in FreePcs, fault = "none",
           \/ calls[g].pc = "free" /\ pc = "delete" /\ alive' = FALSE /\ object' = object
           \/ /\ calls[g].pc = "delete" /\ pc = "join" /\ UNCHANGED alive
              /\ object = "live" /\ object' = "deleting",
           GoTo(g, pc), UNCHANGED <<force_set, maxBufSize, entries, racing, fault>>
    PROVE  GoInv'
<1> DEFINE c == [calls[g] EXCEPT !.pc = pc]
<1>1. calls[g] \in Call /\ calls[g].pc \in FreePcs /\ GoTypeOK
  BY DEF GoInv, GoTypeOK, FreePcs
<1>2. c \in Call /\ c.pc = pc
  BY <1>1, CallMoves
<1>3. Moved(g, c)
  BY DEF GoTo, Moved
<1> HIDE DEF c
<1>4. calls' \in [Goroutines -> Call] /\ calls'[g].pc = pc
      /\ \A h \in Goroutines : h # g => calls'[h] = calls[h]
  BY <1>1, <1>2, <1>3, OthersStay
<1>5. GoTypeOK' /\ SpillNeedsRace' /\ FreeIsSafeAlone'
  BY <1>1, <1>4 DEF GoTypeOK, SpillNeedsRace, FreeIsSafeAlone
<1>6. ~alive'
  BY DEF GoInv, FreeInv
<1>7. FreeInv'
  <2>1. ASSUME "free" \notin racing
        PROVE  /\ \A h, i \in Goroutines : calls'[h].pc \in FreePcs /\ i # h => calls'[i].pc = "out"
               /\ \A h \in Goroutines : h # g => calls'[h].pc = "out"
    BY <1>1, <1>4, <2>1 DEF GoInv, FreeInv, FreePcs
  <2>2. pc \notin Inside
    BY DEF Inside, SetPcs, GetPcs
  <2>3. ASSUME "free" \notin racing
        PROVE  object' # "live" => pc # "delete"
    BY <2>3 DEF GoInv, FreeInv, Inside
  <2>4. ASSUME "free" \notin racing, NEW h \in Goroutines
        PROVE  calls'[h].pc \notin Inside /\ (object' # "live" => calls'[h].pc # "delete")
    BY <1>4, <2>1, <2>2, <2>3, <2>4 DEF Inside, SetPcs, GetPcs
  <2> QED
    BY <1>6, <2>1, <2>4 DEF FreeInv
<1>8. SliceInv' /\ SetInv'
  BY <1>4 DEF GoInv, SliceInv, SetInv, SetPcs, FreePcs
<1>9. GetInv'
  BY <1>4 DEF GoInv, GetInv, SetPcs, GetPcs, FreePcs
<1>10. BufferIsEnough'
  <2> SUFFICES ASSUME "set" \notin racing, NEW k \in Keys, Ordinary(entries[k])
               PROVE  \/ entries[k].len <= maxBufSize
                      \/ \E h \in Busy({"test", "update"})' : calls'[h].slice = entries[k].slice
    BY DEF BufferIsEnough, Ordinary
  <2>1. CASE \E h \in Busy({"test", "update"}) : calls[h].slice = entries[k].slice
    BY <1>1, <1>4, <2>1 DEF Busy, FreePcs
  <2> QED
    BY <2>1 DEF GoInv, BufferIsEnough
<1> QED
  BY <1>5, <1>7, <1>8, <1>9, <1>10 DEF GoInv

LEMMA FreeClearStep == ASSUME GoInv, NEW g \in Goroutines, FreeClear(g) PROVE GoInv'
<1>1. "delete" \in FreePcs
  BY DEF FreePcs
<1> QED
  BY <1>1, FreeGoesOn DEF FreeClear, At

LEMMA FreeDeleteStep == ASSUME GoInv, NEW g \in Goroutines, FreeDelete(g) PROVE GoInv'
<1>1. CASE object = "live"
  <2>1. "join" \in FreePcs
    BY DEF FreePcs
  <2> QED
    BY <1>1, <2>1, FreeGoesOn DEF FreeDelete, At
<1>2. CASE object # "live"
  <2>1. "free" \in racing
    BY <1>2 DEF FreeDelete, At, GoInv, FreeInv
  <2> QED
    BY <1>2, <2>1, Faults DEF FreeDelete, At
<1> QED
  BY <1>1, <1>2

LEMMA FreeReturnStep == ASSUME GoInv, NEW g \in Goroutines, FreeReturn(g) PROVE GoInv'
<1>1. /\ calls[g].pc = "join" /\ fault = "none" /\ GoTypeOK /\ ~alive
      /\ object' = "deleted" /\ Moved(g, NoCall)
      /\ UNCHANGED <<force_set, alive, maxBufSize, entries, racing, fault>>
  BY DEF FreeReturn, At, Return, Moved, GoInv, FreeInv
<1>2. NoCall \in Call /\ NoCall.pc = "out"
  BY DEF Call, NoCall
<1>3. calls' \in [Goroutines -> Call]
      /\ \A h \in Goroutines : calls'[h].pc = "out" \/ (h # g /\ calls'[h] = calls[h])
  BY <1>1, <1>2, OthersStay
<1>4. GoTypeOK' /\ SpillNeedsRace' /\ FreeIsSafeAlone'
  BY <1>1, <1>3 DEF GoTypeOK, SpillNeedsRace, FreeIsSafeAlone
<1>5. FreeInv'
  <2>1. ASSUME "free" \notin racing, NEW h \in Goroutines
        PROVE  calls'[h].pc = "out"
    BY <1>1, <1>3, <2>1 DEF GoInv, FreeInv, FreePcs
  <2>2. "out" \notin Inside
    BY DEF Inside, SetPcs, GetPcs
  <2>3. \A h \in Goroutines : calls'[h].pc \in {"delete", "join"} => ~alive'
    BY <1>1
  <2> QED
    BY <1>1, <2>1, <2>2, <2>3 DEF FreeInv
<1>6. SliceInv' /\ SetInv'
  BY <1>1, <1>3 DEF GoInv, SliceInv, SetInv, SetPcs
<1>7. GetInv'
  BY <1>1, <1>3 DEF GoInv, GetInv, SetPcs, GetPcs
<1>8. BufferIsEnough'
  <2> SUFFICES ASSUME "set" \notin racing, NEW k \in Keys, Ordinary(entries[k])
               PROVE  \/ entries[k].len <= maxBufSize
                      \/ \E h \in Busy({"test", "update"})' : calls'[h].slice = entries[k].slice
    BY <1>1 DEF BufferIsEnough, Ordinary
  <2>1. CASE \E h \in Busy({"test", "update"}) : calls[h].slice = entries[k].slice
    <3>1. PICK h \in Busy({"test", "update"}) : calls[h].slice = entries[k].slice
      BY <2>1
    <3>2. h # g
      BY <1>1, <3>1 DEF Busy
    <3>3. calls'[h] = calls[h]
      BY <1>1, <1>2, <3>1, <3>2, OthersStay DEF Busy
    <3> QED
      BY <3>1, <3>3 DEF Busy
  <2> QED
    BY <2>1 DEF GoInv, BufferIsEnough
<1> QED
  BY <1>4, <1>5, <1>6, <1>7, <1>8 DEF GoInv

-----------------------------------------------------------------------------
(* The steps together.                                                     *)

LEMMA ExpireStep == ASSUME GoInv, NEW k \in Keys, Expire(k) PROVE GoInv'
<1>1. GoTypeOK' /\ SpillNeedsRace' /\ FreeIsSafeAlone'
  BY DEF Expire, GoInv, GoTypeOK, SpillNeedsRace, FreeIsSafeAlone
<1>2. FreeInv' /\ SliceInv' /\ SetInv' /\ GetInv'
  BY DEF Expire, GoInv, FreeInv, SliceInv, SetInv, GetInv
<1>3. BufferIsEnough'
  <2> SUFFICES ASSUME "set" \notin racing, NEW l \in Keys, Ordinary(entries[l])'
               PROVE  \/ entries'[l].len <= maxBufSize
                      \/ \E h \in Busy({"test", "update"}) : calls[h].slice = entries'[l].slice
    BY DEF Expire, BufferIsEnough, Busy
  <2>1. entries'[l] = entries[l] /\ Ordinary(entries[l])
    BY DEF Expire, GoInv, GoTypeOK, Ordinary
  <2> QED
    BY <2>1 DEF GoInv, BufferIsEnough
<1> QED
  BY <1>1, <1>2, <1>3 DEF GoInv

LEMMA GoStepInv == ASSUME GoInv, NEW g \in Goroutines, GoStep(g) PROVE GoInv'
<1>1. CASE SetInC(g)
  <2>1. At(g, "set") /\ fault = "none" /\ calls[g].pc \in Inside
    BY <1>1 DEF SetInC, At, Inside, SetPcs
  <2> QED
    BY <1>1, <2>1, UsesDeletedStep, SetEmptyStep, SetExistsStep, SetNoSpaceStep,
       SetInternalStep, SetStoredStep DEF SetInC
<1>2. CASE GetInC(g)
  <2>1. At(g, "get") /\ fault = "none" /\ calls[g].pc \in Inside
    BY <1>2 DEF GetInC, At, Inside, GetPcs
  <2> QED
    BY <1>2, <2>1, UsesDeletedStep, GetFailsStep, GetDataStep DEF GetInC
<1>3. CASE SetTest(g) \/ SetUpdate(g) \/ GetAlloc(g)
  BY <1>3, SetTestStep, SetUpdateStep, GetAllocStep
<1>4. CASE FreeClear(g) \/ FreeDelete(g) \/ FreeReturn(g)
  BY <1>4, FreeClearStep, FreeDeleteStep, FreeReturnStep
<1> QED
  BY <1>1, <1>2, <1>3, <1>4, RefusedStep, SetPanicsStep, SetBeginStep, GetBeginStep, FreeBeginStep
     DEF GoStep

LEMMA GoStutter == ASSUME GoInv, UNCHANGED goVars PROVE GoInv'
<1> USE DEF goVars
<1>1. GoTypeOK' /\ SpillNeedsRace' /\ FreeIsSafeAlone'
  BY DEF GoInv, GoTypeOK, SpillNeedsRace, FreeIsSafeAlone, Busy, Ordinary
<1>2. FreeInv' /\ SliceInv' /\ SetInv' /\ GetInv'
  BY DEF GoInv, FreeInv, SliceInv, SetInv, GetInv
<1>3. BufferIsEnough'
  BY DEF GoInv, BufferIsEnough, Busy, Ordinary
<1> QED
  BY <1>1, <1>2, <1>3 DEF GoInv

LEMMA GoInvInductive == GoSpec => []GoInv
<1>1. GoInit => GoInv
  BY GoInitInv
<1>2. GoInv /\ [GoNext]_goVars => GoInv'
  BY GoStepInv, ExpireStep, GoStutter DEF GoNext
<1> QED
  BY <1>1, <1>2, PTL DEF GoSpec

-----------------------------------------------------------------------------
(* The theorems.                                                           *)

(* The fields of the wrapper hold what they are for (cbigcache.go:21-28).  *)
THEOREM GoTypeCorrect == GoSpec => []GoTypeOK
<1>1. GoInv => GoTypeOK
  BY DEF GoInv
<1> QED
  BY <1>1, GoInvInductive, PTL

(* Without overlapping Sets, the buffer of a Get holds every ordinary      *)
(* entry whose Set has returned (cbigcache.go:77).                         *)
THEOREM BufferIsAlwaysEnough == GoSpec => []BufferIsEnough
<1>1. GoInv => BufferIsEnough
  BY DEF GoInv
<1> QED
  BY <1>1, GoInvInductive, PTL

(* The terminator lands behind the buffer of a Get only after a race or    *)
(* with an entry that is not ordinary (shard.cpp:245).                     *)
THEOREM SpillAlwaysNeedsRace == GoSpec => []SpillNeedsRace
<1>1. GoInv => SpillNeedsRace
  BY DEF GoInv
<1> QED
  BY <1>1, GoInvInductive, PTL

(* A Free that overlaps with no other call never leads to the use of a     *)
(* deleted cache, however many calls follow (cbigcache.go:53).             *)
THEOREM FreeIsAlwaysSafeAlone == GoSpec => []FreeIsSafeAlone
<1>1. GoInv => FreeIsSafeAlone
  BY DEF GoInv
<1> QED
  BY <1>1, GoInvInductive, PTL
=============================================================================
