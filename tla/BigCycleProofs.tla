--------------------------- MODULE BigCycleProofs ---------------------------
(***************************************************************************)
(* BigCache implements ExpireCycle, for every number of shards, every      *)
(* period and every behaviour of the system clock; and a cycle that ends   *)
(* has swept each shard exactly once.                                      *)
(***************************************************************************)
EXTENDS BigCacheProofs, FiniteSetTheorems

-----------------------------------------------------------------------------
(* What the children of a pool have still to do.                           *)

RangeOf(t) == {t[i] : i \in DOMAIN t}
NoRepeat(t) == \A i, j \in DOMAIN t : t[i] = t[j] => i = j
ToDo(p) == UNION {RangeOf(p[c].todo) : c \in DOMAIN p}

LEMMA TailDropsHead ==
    ASSUME NEW t \in Seq(Nat), t # <<>>, NoRepeat(t)
    PROVE  /\ Head(t) \in RangeOf(t)
           /\ RangeOf(Tail(t)) = RangeOf(t) \ {Head(t)}
           /\ NoRepeat(Tail(t))
<1>1. /\ Tail(t) \in Seq(Nat) /\ Len(Tail(t)) = Len(t) - 1 /\ Head(t) = t[1]
      /\ \A j \in 1..Len(Tail(t)) : Tail(t)[j] = t[j + 1]
  BY HeadTailProperties
<1>2. /\ Len(t) \in Nat \ {0} /\ DOMAIN t = 1..Len(t) /\ DOMAIN Tail(t) = 1..(Len(t) - 1)
  BY <1>1, LenProperties, EmptySeq
<1>3. 1 \in DOMAIN t /\ Head(t) \in RangeOf(t)
  BY <1>1, <1>2 DEF RangeOf
<1>4. \A i \in DOMAIN Tail(t) : i + 1 \in DOMAIN t /\ i + 1 # 1 /\ Tail(t)[i] = t[i + 1]
  BY <1>1, <1>2
<1>5. RangeOf(Tail(t)) \subseteq RangeOf(t) \ {Head(t)}
  <2> SUFFICES ASSUME NEW i \in DOMAIN Tail(t)
               PROVE  Tail(t)[i] \in RangeOf(t) /\ Tail(t)[i] # t[1]
    BY <1>1 DEF RangeOf
  <2> QED
    BY <1>3, <1>4 DEF RangeOf, NoRepeat
<1>6. RangeOf(t) \ {Head(t)} \subseteq RangeOf(Tail(t))
  <2> SUFFICES ASSUME NEW i \in DOMAIN t, t[i] # t[1]
               PROVE  t[i] \in RangeOf(Tail(t))
    BY <1>1 DEF RangeOf
  <2>1. i # 1 /\ i - 1 \in DOMAIN Tail(t) /\ Tail(t)[i - 1] = t[i]
    BY <1>1, <1>2
  <2> QED
    BY <2>1 DEF RangeOf
<1>7. NoRepeat(Tail(t))
  <2> SUFFICES ASSUME NEW i \in DOMAIN Tail(t), NEW j \in DOMAIN Tail(t),
                      Tail(t)[i] = Tail(t)[j]
               PROVE  i = j
    BY DEF NoRepeat
  <2>1. i + 1 = j + 1
    BY <1>4 DEF NoRepeat
  <2>2. i \in Int /\ j \in Int
    BY <1>2
  <2> QED
    BY <2>1, <2>2
<1> QED
  BY <1>3, <1>5, <1>6, <1>7

LEMMA EmptyToDo == ToDo(<<>>) = {} /\ RangeOf(<<>>) = {} /\ NoRepeat(<<>>)
<1>1. DOMAIN <<>> = {}
  OBVIOUS
<1> QED
  BY <1>1 DEF ToDo, RangeOf, NoRepeat

(* A child that stays in its place with the same shards changes nothing.   *)
LEMMA ToDoStays ==
    ASSUME NEW p \in Seq(Child), NEW q \in Seq(Child), Len(q) = Len(p),
           \A d \in 1..Len(p) : q[d].todo = p[d].todo
    PROVE  ToDo(q) = ToDo(p)
<1>1. DOMAIN p = 1..Len(p) /\ DOMAIN q = 1..Len(p)
  BY LenProperties
<1> QED
  BY <1>1 DEF ToDo

(* A child that sweeps a shard takes it, and no other, from what is to do. *)
LEMMA ToDoShrinks ==
    ASSUME NEW p \in Seq(Child), NEW q \in Seq(Child), Len(q) = Len(p),
           NEW c \in 1..Len(p), NEW h \in RangeOf(p[c].todo),
           \A d \in 1..Len(p) : RangeOf(q[d].todo) = RangeOf(p[d].todo) \ {h}
    PROVE  ToDo(q) = ToDo(p) \ {h} /\ h \in ToDo(p)
<1>1. DOMAIN p = 1..Len(p) /\ DOMAIN q = 1..Len(p)
  BY LenProperties
<1>2. \A x : x \in ToDo(q) <=> \E d \in 1..Len(p) : x \in RangeOf(q[d].todo)
  BY <1>1 DEF ToDo
<1>3. \A x : x \in ToDo(p) <=> \E d \in 1..Len(p) : x \in RangeOf(p[d].todo)
  BY <1>1 DEF ToDo
<1>4. \A x : x \in ToDo(q) <=> x \in ToDo(p) /\ x # h
  BY <1>2, <1>3
<1>5. h \in ToDo(p)
  BY <1>3
<1> QED
  BY <1>4, <1>5

LEMMA ToDoGrows ==
    ASSUME NEW p \in Seq(Child), NEW child \in Child
    PROVE  ToDo(Append(p, child)) = ToDo(p) \cup RangeOf(child.todo)
<1>1. /\ Append(p, child) \in Seq(Child) /\ Len(Append(p, child)) = Len(p) + 1
      /\ \A d \in 1..Len(p) : Append(p, child)[d] = p[d]
      /\ Append(p, child)[Len(p) + 1] = child
  BY AppendProperties
<1>2. DOMAIN p = 1..Len(p) /\ DOMAIN Append(p, child) = 1..(Len(p) + 1) /\ Len(p) \in Nat
  BY <1>1, LenProperties
<1>3. 1..(Len(p) + 1) = (1..Len(p)) \cup {Len(p) + 1}
  BY <1>2
<1> QED
  BY <1>1, <1>2, <1>3 DEF ToDo

-----------------------------------------------------------------------------
(* The invariants.  A child that has ended has nothing left to do; joins   *)
(* go through the children in order; the children of the vacuum sweep      *)
(* nothing.  In a cycle a shard has been swept once or is still pending.   *)

Pool == thr_c_pool["expire"]

ChildrenInv ==
    /\ \A c \in DOMAIN Pool : /\ Pool[c].stage = "ended" => Pool[c].todo = <<>>
                              /\ NoRepeat(Pool[c].todo)
    /\ \A c \in DOMAIN thr_c_pool["vacuum"] : thr_c_pool["vacuum"][c].todo = <<>>
    /\ At("expire", "join") =>
          \A c \in DOMAIN Pool : c < thr["expire"].next => Pool[c].stage = "ended"

SweptInv ==
    /\ swept \in [0..(shards_cnt - 1) -> Nat]
    /\ Phase = "cycle" =>
          \A i \in 0..(shards_cnt - 1) : swept[i] = IF i \in Pending THEN 0 ELSE 1

CycleInv == BigInv /\ ChildrenInv /\ SweptInv

LEMMA PendingIs == Pending = NotSpawned \cup ToDo(Pool)
BY DEF Pending, ToDo, RangeOf, Todo, Children, Pool

LEMMA PhaseIs ==
    ASSUME BigInv
    PROVE  /\ At("expire", "top") \/ At("expire", "sleep") => Phase = "idle"
           /\ At("expire", "spawn") \/ At("expire", "join") => Phase = "cycle"
           /\ At("expire", "exit") => Phase = "over"
           /\ At("expire", "top") \/ At("expire", "sleep") \/ At("expire", "spawn")
              \/ At("expire", "join") \/ At("expire", "exit")
BY DEF Phase, At, BigInv, SupervisorsOK, Thread, Supervisors

(* Outside a cycle nothing is pending.                                     *)
LEMMA NothingPending ==
    ASSUME BigInv, Phase # "cycle"
    PROVE  Pending = {} /\ Pool = <<>>
<1>1. ~At("expire", "spawn") /\ ~At("expire", "join")
  BY PhaseIs
<1>2. Pool = <<>>
  BY <1>1, PhaseIs DEF BigInv, PoolInv, At, Pool, Supervisors
<1> QED
  BY <1>1, <1>2, PendingIs, EmptyToDo DEF NotSpawned

(* Steps that touch neither the supervisor of the expiration nor its pool. *)
LEMMA OthersKeepTheCycle ==
    ASSUME UNCHANGED <<shards_cnt, thr["expire"], thr_c_pool["expire"]>>
    PROVE  Pending' = Pending /\ Phase' = Phase
<1>1. NotSpawned' = NotSpawned /\ Phase' = Phase
  BY DEF NotSpawned, Phase, At
<1>2. ToDo(Pool)' = ToDo(Pool)
  BY DEF ToDo, Pool
<1>3. Pending' = NotSpawned' \cup ToDo(Pool)'
  BY DEF Pending, ToDo, RangeOf, Todo, Children, Pool
<1> QED
  BY <1>1, <1>2, <1>3, PendingIs

-----------------------------------------------------------------------------
(* The supervisor of the expiration.                                       *)

CycleStep == [Cycle!CycleNext]_(Cycle!cycleVars)

LEMMA ExpireThread ==
    ASSUME BigInv, Supervise("expire")
    PROVE  /\ UNCHANGED <<shards_cnt, shards, thr["vacuum"]>>
           /\ thr_c_pool'["vacuum"] = thr_c_pool["vacuum"]
<1>1. "expire" \in Supervisors /\ "vacuum" \in Supervisors \ {"expire"}
  BY DEF Supervisors
<1>2. SupervisorsOK /\ PoolInv
  BY DEF BigInv
<1>3. UNCHANGED <<shards_cnt, shards, thr["vacuum"]>>
  BY <1>1, <1>2, SuperviseStep
<1>4. thr_c_pool'["vacuum"] = thr_c_pool["vacuum"]
  BY <1>1, <1>2 DEF Supervise, GoToSleep, WakeAndSkip, WakeAndStart, Spawn, StartJoining,
                    Join, EndCycle, FinishCycle, PoolInv
<1> QED
  BY <1>3, <1>4

LEMMA StartBegins ==
    ASSUME CycleInv, WakeAndStart("expire")
    PROVE  CycleStep /\ ChildrenInv' /\ SweptInv'
<1>1. /\ At("expire", "sleep") /\ thr_c_pool' = thr_c_pool
      /\ UNCHANGED <<shards_cnt, shards, owner>>
      /\ swept' = [i \in DOMAIN swept |-> 0]
  BY DEF WakeAndStart
<1>2. thr'["expire"].pc = "spawn" /\ thr'["expire"].next = 0
  BY DEF WakeAndStart, CycleInv, BigInv, SupervisorsOK, Thread, Supervisors
<1>3. Phase = "idle" /\ Phase' = "cycle"
  BY <1>1, <1>2, PhaseIs DEF CycleInv, Phase, At
<1>4. Pool = <<>> /\ Pending = {}
  BY <1>3, NothingPending DEF CycleInv
<1>5. Pending' = 0..(shards_cnt - 1)
  <2>1. NotSpawned' = 0..(shards_cnt - 1)
    BY <1>1, <1>2 DEF NotSpawned, At
  <2>2. ToDo(Pool)' = {}
    BY <1>1, <1>4, EmptyToDo DEF Pool
  <2>3. Pending' = NotSpawned' \cup ToDo(Pool)'
    BY DEF Pending, ToDo, RangeOf, Todo, Children, Pool
  <2> QED
    BY <2>1, <2>2, <2>3
<1>6. Cycle!Begin
  BY <1>1, <1>3, <1>5 DEF Cycle!Begin, Cycle!AllShards
<1>7. ChildrenInv'
  BY <1>1, <1>2, <1>4 DEF ChildrenInv, CycleInv, Pool, At
<1>8. SweptInv'
  BY <1>1, <1>5 DEF SweptInv, CycleInv
<1> QED
  BY <1>6, <1>7, <1>8 DEF CycleStep, Cycle!CycleNext

LEMMA SpawnKeeps ==
    ASSUME CycleInv, Spawn("expire")
    PROVE  CycleStep /\ ChildrenInv' /\ SweptInv'
<1> DEFINE n == Len(Pool)
           next == thr["expire"].next
           child == [stage |-> "new", todo |-> Group(next)]
<1>1. /\ At("expire", "spawn") /\ next < shards_cnt
      /\ thr_c_pool' = [thr_c_pool EXCEPT !["expire"] = Append(Pool, child)]
      /\ thr' = [thr EXCEPT !["expire"] = [thr["expire"] EXCEPT !.next = next + Step]]
      /\ UNCHANGED <<shards_cnt, shards, swept>>
  <2>1. thr_c_pool' = [thr_c_pool EXCEPT !["expire"] = Append(thr_c_pool["expire"], child)]
    BY DEF Spawn
  <2>2. thr' = [thr EXCEPT !["expire"] = [thr["expire"] EXCEPT !.next = next + Step]]
    BY DEF Spawn
  <2>3. At("expire", "spawn") /\ next < shards_cnt /\ UNCHANGED <<shards_cnt, shards, swept>>
    BY DEF Spawn
  <2> HIDE DEF child, next
  <2> QED
    BY <2>1, <2>2, <2>3 DEF Pool
<1>2. /\ "expire" \in Supervisors /\ Pool \in Seq(Child) /\ n \in Nat
      /\ thr_c_pool \in [Supervisors -> Seq(Child)]
      /\ shards_cnt \in Counts /\ shards_cnt \in Nat
  BY LenProperties, BigCacheAssumption
  DEF CycleInv, BigInv, PoolInv, SupervisorsOK, Supervisors, Pool
<1>3. next = n * Step /\ next \in Nat
  BY <1>1, <1>2, StepType DEF CycleInv, BigInv, PoolInv, Pool
<1>4. /\ thr'["expire"].pc = "spawn" /\ thr'["expire"].next = next + Step
  BY <1>1, <1>2 DEF CycleInv, BigInv, SupervisorsOK, Thread, At
<1>5. next + Step <= shards_cnt /\ Step \in Nat \ {0}
  BY <1>1, <1>2, <1>3, PartFits, StepType
<1>6. child \in Child /\ child.todo = Group(next) /\ child.stage = "new"
  BY <1>2, <1>3, GroupType DEF Child
<1>7. RangeOf(Group(next)) = next .. (next + Step - 1) /\ NoRepeat(Group(next))
  <2> DEFINE st == Step  b == next
  <2>1. st \in Nat \ {0} /\ b \in Nat /\ Group(b) = [i \in 1..st |-> b + i - 1]
    BY <1>3, <1>5 DEF Group
  <2> HIDE DEF st, b
  <2>2. DOMAIN Group(b) = 1..st /\ \A i \in 1..st : Group(b)[i] = b + i - 1
    BY <2>1
  <2>3. NoRepeat(Group(b))
    BY <2>1, <2>2 DEF NoRepeat
  <2>4. \A x \in b .. (b + st - 1) : x - b + 1 \in 1..st /\ b + (x - b + 1) - 1 = x
    BY <2>1
  <2> DEFINE g == Group(b)
  <2> HIDE DEF g
  <2>5. RangeOf(g) \subseteq b .. (b + st - 1)
    <3>1. \A i \in 1..st : g[i] \in b .. (b + st - 1)
      BY <2>1, <2>2 DEF g
    <3> QED
      BY <2>2, <3>1 DEF RangeOf, g
  <2>6. b .. (b + st - 1) \subseteq RangeOf(g)
    <3> SUFFICES ASSUME NEW x \in b .. (b + st - 1) PROVE x \in RangeOf(g)
      OBVIOUS
    <3>1. x - b + 1 \in DOMAIN g /\ g[x - b + 1] = x
      BY <2>1, <2>2, <2>4 DEF g
    <3> QED
      BY <3>1 DEF RangeOf
  <2>7. RangeOf(Group(b)) = b .. (b + st - 1)
    BY <2>5, <2>6 DEF g
  <2> QED
    BY <2>3, <2>7 DEF st, b
<1> HIDE DEF child, next
<1>8. Pool' = Append(Pool, child) /\ thr_c_pool'["vacuum"] = thr_c_pool["vacuum"]
  BY <1>1, <1>2 DEF Pool, Supervisors
<1>9. Pending' = Pending
  <2>1. NotSpawned = next .. (shards_cnt - 1)
    BY <1>1 DEF NotSpawned, next
  <2>2. NotSpawned' = (next + Step) .. (shards_cnt - 1)
    BY <1>1, <1>4 DEF NotSpawned, At
  <2>3. ToDo(Pool)' = ToDo(Pool) \cup (next .. (next + Step - 1))
    <3>1. ToDo(Append(Pool, child)) = ToDo(Pool) \cup RangeOf(child.todo)
      BY <1>2, <1>6, ToDoGrows
    <3> QED
      BY <1>6, <1>7, <1>8, <3>1
  <2>4. next .. (shards_cnt - 1)
          = (next .. (next + Step - 1)) \cup ((next + Step) .. (shards_cnt - 1))
    BY <1>2, <1>3, <1>5
  <2>5. Pending' = NotSpawned' \cup ToDo(Pool)'
    BY DEF Pending, ToDo, RangeOf, Todo, Children, Pool
  <2> QED
    BY <2>1, <2>2, <2>3, <2>4, <2>5, PendingIs
<1>10. Phase' = "cycle" /\ Phase = "cycle"
  BY <1>1, <1>4, PhaseIs DEF CycleInv, Phase, At
<1>11. ChildrenInv'
  <2>1. /\ Append(Pool, child) \in Seq(Child) /\ Len(Append(Pool, child)) = n + 1
        /\ \A d \in 1..n : Append(Pool, child)[d] = Pool[d]
        /\ Append(Pool, child)[n + 1] = child
    BY <1>2, <1>6, AppendProperties
  <2>2. DOMAIN Pool = 1..n /\ DOMAIN Append(Pool, child) = 1..(n + 1)
    BY <1>2, <2>1, LenProperties
  <2>3. \A c \in 1..(n + 1) : LET x == Append(Pool, child)[c] IN
           (x.stage = "ended" => x.todo = <<>>) /\ NoRepeat(x.todo)
    <3> SUFFICES ASSUME NEW c \in 1..(n + 1)
                 PROVE  LET x == Append(Pool, child)[c] IN
                          (x.stage = "ended" => x.todo = <<>>) /\ NoRepeat(x.todo)
      OBVIOUS
    <3>1. CASE c = n + 1
      BY <1>6, <1>7, <2>1, <3>1
    <3>2. CASE c # n + 1
      <4>1. c \in 1..n
        BY <1>2, <3>2
      <4> QED
        BY <2>1, <2>2, <4>1 DEF CycleInv, ChildrenInv
    <3> QED
      BY <3>1, <3>2
  <2>4. ~At("expire", "join")'
    BY <1>4 DEF At
  <2> QED
    BY <1>8, <2>2, <2>3, <2>4 DEF ChildrenInv, CycleInv
<1>12. SweptInv'
  BY <1>1, <1>9, <1>10 DEF SweptInv, CycleInv
<1> QED
  BY <1>1, <1>9, <1>10, <1>11, <1>12 DEF CycleStep, Cycle!cycleVars

(* Steps of the supervisor that leave the shards of its cycle as they are. *)
LEMMA QuietSteps ==
    ASSUME CycleInv,
           GoToSleep("expire") \/ WakeAndSkip("expire") \/ StartJoining("expire")
           \/ Join("expire")
    PROVE  CycleStep /\ ChildrenInv' /\ SweptInv'
<1>1. /\ thr_c_pool' = thr_c_pool /\ UNCHANGED <<shards_cnt, shards, swept>>
      /\ \/ /\ At("expire", "top") \/ At("expire", "sleep")
            /\ thr'["expire"].pc \in {"top", "sleep"}
         \/ /\ At("expire", "spawn") /\ thr["expire"].next >= shards_cnt
            /\ thr'["expire"].pc = "join" /\ thr'["expire"].next = 1
         \/ /\ At("expire", "join") /\ thr["expire"].next <= Len(Pool)
            /\ Pool[thr["expire"].next].stage = "ended"
            /\ thr'["expire"].pc = "join"
            /\ thr'["expire"].next = thr["expire"].next + 1
  <2>1. DOMAIN thr = Supervisors /\ "expire" \in Supervisors
        /\ DOMAIN thr["expire"] = {"pc", "took", "skip", "since", "next"}
    BY DEF CycleInv, BigInv, SupervisorsOK, Thread, Supervisors
  <2>2. CASE GoToSleep("expire")
    BY <2>1, <2>2 DEF GoToSleep
  <2>3. CASE WakeAndSkip("expire")
    BY <2>1, <2>3 DEF WakeAndSkip
  <2>4. CASE StartJoining("expire")
    BY <2>1, <2>4 DEF StartJoining
  <2>5. CASE Join("expire")
    BY <2>1, <2>5 DEF Join, At, Pool
  <2> QED
    BY <2>2, <2>3, <2>4, <2>5
<1>2. /\ Pool \in Seq(Child) /\ Len(Pool) \in Nat /\ DOMAIN Pool = 1..Len(Pool)
      /\ thr["expire"].next \in Nat /\ shards_cnt \in Nat
  BY LenProperties, BigCacheAssumption
  DEF CycleInv, BigInv, PoolInv, SupervisorsOK, Supervisors, Thread, Pool
<1>3. Phase' = Phase
  BY <1>1 DEF Phase, At
<1>4. Pending' = Pending
  <2>1. NotSpawned' = NotSpawned
    <3>1. CASE At("expire", "spawn") /\ thr["expire"].next >= shards_cnt /\ thr'["expire"].pc = "join"
      BY <1>2, <3>1 DEF NotSpawned, At
    <3>2. CASE ~At("expire", "spawn") /\ thr'["expire"].pc # "spawn"
      BY <3>2 DEF NotSpawned, At
    <3> QED
      BY <1>1, <3>1, <3>2 DEF At
  <2>2. ToDo(Pool)' = ToDo(Pool)
    BY <1>1 DEF ToDo, Pool
  <2>3. Pending' = NotSpawned' \cup ToDo(Pool)'
    BY DEF Pending, ToDo, RangeOf, Todo, Children, Pool
  <2> QED
    BY <2>1, <2>2, <2>3, PendingIs
<1>5. thr'["expire"].pc = "join" =>
         \A c \in DOMAIN Pool : c < thr'["expire"].next => Pool[c].stage = "ended"
  BY <1>1, <1>2 DEF CycleInv, ChildrenInv, At
<1>6. ChildrenInv'
  BY <1>1, <1>5 DEF CycleInv, ChildrenInv, Pool, At
<1>7. SweptInv'
  BY <1>1, <1>3, <1>4 DEF CycleInv, SweptInv
<1> QED
  BY <1>1, <1>3, <1>4, <1>6, <1>7 DEF CycleStep, Cycle!cycleVars

(* When all children are joined, no shard is pending.                      *)
LEMMA JoinedIsSwept ==
    ASSUME CycleInv, EndCycle("expire")
    PROVE  Phase = "cycle" /\ Pending = {}
<1>1. At("expire", "join") /\ thr["expire"].next > Len(Pool)
  BY DEF EndCycle, FinishCycle, Pool
<1>2. /\ Pool \in Seq(Child) /\ Len(Pool) \in Nat /\ DOMAIN Pool = 1..Len(Pool)
      /\ thr["expire"].next \in Nat
  BY LenProperties
  DEF CycleInv, BigInv, PoolInv, SupervisorsOK, Supervisors, Thread, Pool
<1>3. \A c \in DOMAIN Pool : Pool[c].todo = <<>>
  BY <1>1, <1>2 DEF CycleInv, ChildrenInv
<1>4. ToDo(Pool) = {} /\ NotSpawned = {}
  BY <1>1, <1>3, EmptyToDo DEF ToDo, NotSpawned, At
<1> QED
  BY <1>1, <1>4, PendingIs, PhaseIs DEF CycleInv

LEMMA EndEnds ==
    ASSUME CycleInv, EndCycle("expire")
    PROVE  CycleStep /\ ChildrenInv' /\ SweptInv'
<1>1. Phase = "cycle" /\ Pending = {}
  BY JoinedIsSwept
<1>2. /\ DOMAIN thr = Supervisors /\ DOMAIN thr_c_pool = Supervisors
      /\ "expire" \in Supervisors /\ "vacuum" \in Supervisors
  BY DEF CycleInv, BigInv, SupervisorsOK, PoolInv, Supervisors
<1>3. /\ thr'["expire"].pc = (IF stop_sig["expire"] THEN "exit" ELSE "top")
      /\ UNCHANGED <<shards_cnt, shards, swept>>
  BY <1>2 DEF EndCycle, FinishCycle
<1>4. Pool' = <<>> /\ thr_c_pool'["vacuum"] = thr_c_pool["vacuum"]
  BY <1>2 DEF EndCycle, FinishCycle, Pool
<1>5. Phase' \in {"idle", "over"}
  BY <1>3 DEF Phase, At
<1>6. Pending' = {}
  <2>1. NotSpawned' = {} /\ ToDo(Pool)' = {}
    BY <1>3, <1>4, EmptyToDo DEF NotSpawned, At
  <2>2. Pending' = NotSpawned' \cup ToDo(Pool)'
    BY DEF Pending, ToDo, RangeOf, Todo, Children, Pool
  <2> QED
    BY <2>1, <2>2
<1>7. Cycle!End
  BY <1>1, <1>3, <1>5, <1>6 DEF Cycle!End
<1>8. ChildrenInv'
  BY <1>3, <1>4 DEF CycleInv, ChildrenInv, At
<1>9. SweptInv'
  BY <1>3, <1>5 DEF CycleInv, SweptInv
<1> QED
  BY <1>7, <1>8, <1>9 DEF CycleStep, Cycle!CycleNext

LEMMA ExpireSupervises ==
    ASSUME CycleInv, Supervise("expire")
    PROVE  CycleStep /\ ChildrenInv' /\ SweptInv'
BY StartBegins, SpawnKeeps, QuietSteps, EndEnds DEF Supervise

-----------------------------------------------------------------------------
(* The supervisor of the vacuum, and the owner.                            *)

LEMMA VacuumSupervises ==
    ASSUME CycleInv, Supervise("vacuum")
    PROVE  CycleStep /\ ChildrenInv' /\ SweptInv'
<1>1. /\ "vacuum" \in Supervisors /\ "expire" \in Supervisors \ {"vacuum"}
      /\ SupervisorsOK /\ thr_c_pool \in [Supervisors -> Seq(Child)]
  BY DEF Supervisors, CycleInv, BigInv, PoolInv
<1>2. UNCHANGED <<shards_cnt, shards, thr["expire"]>>
  BY <1>1, SuperviseStep
<1>3. swept' = swept /\ thr_c_pool'["expire"] = thr_c_pool["expire"]
  BY <1>1 DEF Supervise, GoToSleep, WakeAndSkip, WakeAndStart, Spawn, StartJoining,
              Join, EndCycle, FinishCycle
<1>4. \A c \in DOMAIN thr_c_pool'["vacuum"] : thr_c_pool'["vacuum"][c].todo = <<>>
  <2>1. thr_c_pool["vacuum"] \in Seq(Child) /\ DOMAIN thr_c_pool = Supervisors
    BY <1>1
  <2>2. CASE Spawn("vacuum")
    <3> DEFINE child == [stage |-> "new", todo |-> <<>>]
               pool == thr_c_pool["vacuum"]
    <3>1. thr_c_pool' = [thr_c_pool EXCEPT !["vacuum"] = Append(pool, child)]
      BY <2>2 DEF Spawn
    <3>2. child \in Child /\ child.todo = <<>>
      BY DEF Child
    <3> HIDE DEF child
    <3>3. /\ Append(pool, child) \in Seq(Child) /\ Len(Append(pool, child)) = Len(pool) + 1
          /\ \A d \in 1..Len(pool) : Append(pool, child)[d] = pool[d]
          /\ Append(pool, child)[Len(pool) + 1] = child
      BY <2>1, <3>2, AppendProperties
    <3>4. DOMAIN pool = 1..Len(pool) /\ DOMAIN Append(pool, child) = 1..(Len(pool) + 1)
          /\ Len(pool) \in Nat
      BY <2>1, <3>3, LenProperties
    <3>5. thr_c_pool'["vacuum"] = Append(pool, child)
      BY <1>1, <2>1, <3>1
    <3>6. \A c \in DOMAIN pool : pool[c].todo = <<>>
      BY DEF CycleInv, ChildrenInv
    <3> HIDE DEF pool
    <3>7. \A c \in 1..(Len(pool) + 1) : c = Len(pool) + 1 \/ c \in 1..Len(pool)
      BY <3>4
    <3> QED
      BY <3>2, <3>3, <3>4, <3>5, <3>6, <3>7
  <2>3. CASE EndCycle("vacuum")
    <3>1. thr_c_pool'["vacuum"] = <<>>
      BY <1>1, <2>1, <2>3 DEF EndCycle, FinishCycle
    <3> QED
      BY <3>1
  <2>4. CASE ~Spawn("vacuum") /\ ~EndCycle("vacuum")
    <3>1. thr_c_pool' = thr_c_pool
      BY <2>4 DEF Supervise, GoToSleep, WakeAndSkip, WakeAndStart, StartJoining, Join
    <3> QED
      BY <3>1 DEF CycleInv, ChildrenInv
  <2> QED
    BY <2>2, <2>3, <2>4
<1>5. Pending' = Pending /\ Phase' = Phase
  BY <1>2, <1>3, OthersKeepTheCycle
<1>6. ChildrenInv'
  BY <1>2, <1>3, <1>4 DEF CycleInv, ChildrenInv, Pool, At
<1>7. SweptInv'
  BY <1>2, <1>3, <1>5 DEF CycleInv, SweptInv
<1> QED
  BY <1>2, <1>5, <1>6, <1>7 DEF CycleStep, Cycle!cycleVars

LEMMA OwnerActs ==
    ASSUME CycleInv, Own
    PROVE  CycleStep /\ ChildrenInv' /\ SweptInv'
<1>1. UNCHANGED <<shards_cnt, thr, thr_c_pool>>
  BY OwnerStep DEF CycleInv, BigInv
<1>2. swept' = swept
  BY DEF Own, CallFreeze, CallDelete, Destroy, StopExpire, StopVacuum, JoinExpire,
         JoinVacuum, DeleteShard, DeleteCounters
<1>3. Pending' = Pending /\ Phase' = Phase
  BY <1>1, OthersKeepTheCycle
<1>4. ChildrenInv' /\ SweptInv'
  BY <1>1, <1>2, <1>3 DEF CycleInv, ChildrenInv, SweptInv, Pool, At
<1>5. CASE DeleteShard
  <2>1. At("expire", "exit")
    BY <1>5 DEF DeleteShard, Owner, CycleInv, BigInv, OwnerInv
  <2>2. Phase = "over"
    BY <2>1, PhaseIs DEF CycleInv
  <2>3. shards' \in SUBSET shards
    BY <1>5 DEF DeleteShard
  <2>4. Cycle!Delete
    BY <1>1, <1>3, <2>2, <2>3 DEF Cycle!Delete
  <2> QED
    BY <1>4, <2>4 DEF CycleStep, Cycle!CycleNext
<1>6. CASE ~DeleteShard
  <2>1. shards' = shards
    BY <1>6 DEF Own, CallFreeze, CallDelete, Destroy, StopExpire, StopVacuum, JoinExpire,
                JoinVacuum, DeleteCounters
  <2> QED
    BY <1>1, <1>3, <1>4, <2>1 DEF CycleStep, Cycle!cycleVars
<1> QED
  BY <1>5, <1>6

-----------------------------------------------------------------------------
(* The children.                                                           *)

(* A child of the expiration sweeps the first shard it still has to do, or *)
(* changes only how far it is.                                             *)
LEMMA ExpireChildRuns ==
    ASSUME CycleInv, RunChild("expire")
    PROVE  CycleStep /\ ChildrenInv' /\ SweptInv'
<1>1. PICK c \in DOMAIN Pool : Enter("expire", c) \/ Sweep("expire", c)
                               \/ SweepHangs("expire", c) \/ Leave("expire", c)
  BY DEF RunChild, Children, Pool
<1>2. /\ Pool \in Seq(Child) /\ Len(Pool) \in Nat /\ DOMAIN Pool = 1..Len(Pool)
      /\ Pool[c] \in Child /\ Pool[c].todo \in Seq(Nat) /\ c \in 1..Len(Pool)
      /\ "expire" \in Supervisors /\ "vacuum" \in Supervisors
      /\ DOMAIN thr_c_pool = Supervisors
  <2>1. /\ Pool \in Seq(Child) /\ "expire" \in Supervisors /\ "vacuum" \in Supervisors
        /\ DOMAIN thr_c_pool = Supervisors
    BY DEF CycleInv, BigInv, PoolInv, Supervisors, Pool
  <2>2. Len(Pool) \in Nat /\ DOMAIN Pool = 1..Len(Pool) /\ c \in DOMAIN Pool
    BY <1>1, <2>1, LenProperties
  <2>3. Pool[c] \in Child
    BY <2>1, <2>2, ElementOfSeq
  <2>4. Pool[c].todo \in Seq(Nat)
    BY <2>3 DEF Child
  <2> QED
    BY <2>1, <2>2, <2>3, <2>4
<1>3. UNCHANGED <<shards_cnt, shards, thr, owner>>
  BY <1>1 DEF Enter, Sweep, SweepHangs, Leave
<1>4. thr_c_pool'["vacuum"] = thr_c_pool["vacuum"]
  BY <1>1, <1>2 DEF Enter, Sweep, SweepHangs, Leave
<1>5. Pool # <<>> /\ Phase = "cycle" /\ Phase' = Phase /\ NotSpawned' = NotSpawned
  <2>1. Pool # <<>>
    BY <1>1
  <2>2. Phase = "cycle"
    BY <2>1, NothingPending DEF CycleInv
  <2> QED
    BY <1>3, <2>1, <2>2 DEF Phase, NotSpawned, At
<1>6. Pending' = NotSpawned' \cup ToDo(Pool)'
  BY DEF Pending, ToDo, RangeOf, Todo, Children, Pool
<1>7. CASE Sweep("expire", c)
  <2> DEFINE h == Head(Pool[c].todo)
             child == [Pool[c] EXCEPT !.todo = Tail(Pool[c].todo)]
             q == [Pool EXCEPT ![c] = child]
  <2>1. /\ Pool[c].todo # <<>> /\ Pool[c].stage = "in"
        /\ thr_c_pool' = [thr_c_pool EXCEPT !["expire"] = q]
        /\ swept' = [swept EXCEPT ![h] = @ + 1]
    BY <1>7 DEF Sweep, InStage, Pool
  <2>2. /\ h \in RangeOf(Pool[c].todo)
        /\ RangeOf(Tail(Pool[c].todo)) = RangeOf(Pool[c].todo) \ {h}
        /\ NoRepeat(Tail(Pool[c].todo)) /\ Tail(Pool[c].todo) \in Seq(Nat)
    BY <1>2, <2>1, TailDropsHead, HeadTailProperties DEF CycleInv, ChildrenInv
  <2>3. child \in Child /\ child.todo = Tail(Pool[c].todo) /\ child.stage = "in"
    BY <1>2, <2>1, <2>2 DEF Child
  <2> HIDE DEF child
  <2>4. /\ q \in Seq(Child) /\ Len(q) = Len(Pool) /\ DOMAIN q = DOMAIN Pool
        /\ \A d \in 1..Len(Pool) : q[d] = IF d = c THEN child ELSE Pool[d]
    BY <1>2, <2>3, ExceptSeq, LenProperties
  <2>5. Pool' = q
    BY <1>2, <2>1 DEF Pool
  <2> HIDE DEF q, h
  <2>6. \A d \in 1..Len(Pool) : RangeOf(Pool[d].todo) \subseteq Part(d)
    BY <1>2 DEF CycleInv, BigInv, PoolInv, Todo, RangeOf, Children, Pool
  <2>7. \A d \in 1..Len(Pool) : d # c => q[d] = Pool[d] /\ h \notin RangeOf(Pool[d].todo)
    <3> SUFFICES ASSUME NEW d \in 1..Len(Pool), d # c
                 PROVE  h \notin RangeOf(Pool[d].todo)
      BY <2>4
    <3>1. shards_cnt \in Counts /\ d \in Nat \ {0} /\ c \in Nat \ {0}
      BY <1>2 DEF CycleInv, BigInv, SupervisorsOK
    <3>2. Part(c) \cap Part(d) = {}
      BY <3>1, PartsAreDisjoint
    <3> QED
      BY <1>2, <2>2, <2>6, <3>2
  <2>8. ToDo(q) = ToDo(Pool) \ {h} /\ h \in ToDo(Pool)
    <3>1. \A d \in 1..Len(Pool) : RangeOf(q[d].todo) = RangeOf(Pool[d].todo) \ {h}
      <4> SUFFICES ASSUME NEW d \in 1..Len(Pool)
                   PROVE  RangeOf(q[d].todo) = RangeOf(Pool[d].todo) \ {h}
        OBVIOUS
      <4>1. CASE d = c
        BY <2>2, <2>3, <2>4, <4>1
      <4>2. CASE d # c
        BY <2>7, <4>2
      <4> QED
        BY <4>1, <4>2
    <3>2. q \in Seq(Child) /\ Len(q) = Len(Pool) /\ Pool \in Seq(Child) /\ c \in 1..Len(Pool)
      BY <1>2, <2>4
    <3>3. h \in RangeOf(Pool[c].todo)
      BY <2>2
    <3> QED
      BY <3>1, <3>2, <3>3, ToDoShrinks
  <2>9. h \notin NotSpawned /\ h \in 0..(shards_cnt - 1)
    <3>1. h \in Part(c) /\ c * Step <= shards_cnt
      BY <1>2, <2>2, <2>6 DEF CycleInv, BigInv, PoolInv, Children, Pool
    <3>2. Step \in Nat /\ c \in Nat \ {0} /\ shards_cnt \in Nat
      BY <1>2, StepType, BigCacheAssumption DEF CycleInv, BigInv, SupervisorsOK
    <3>3. At("expire", "spawn") => c * Step <= thr["expire"].next
      <4> SUFFICES ASSUME At("expire", "spawn") PROVE c * Step <= thr["expire"].next
        OBVIOUS
      <4>1. thr["expire"].next = Len(Pool) * Step
        BY <1>2 DEF CycleInv, BigInv, PoolInv, Pool
      <4> DEFINE st == Step  n == Len(Pool)
      <4>2. st \in Nat /\ n \in Nat /\ c <= n /\ c \in Nat
        BY <1>2, <3>2
      <4> HIDE DEF st, n
      <4>3. c * st <= n * st
        BY <4>2
      <4> QED
        BY <4>1, <4>3 DEF st, n
    <3> DEFINE e == c * Step  b == (c - 1) * Step
    <3>4. e \in Nat /\ b \in Nat /\ h \in b .. (e - 1)
      BY <3>1, <3>2 DEF Part
    <3>5. At("expire", "spawn") => e <= thr["expire"].next /\ thr["expire"].next \in Nat
      BY <1>2, <3>3 DEF CycleInv, BigInv, SupervisorsOK, Thread
    <3>6. e <= shards_cnt
      BY <3>1
    <3> HIDE DEF e, b
    <3> QED
      BY <3>2, <3>4, <3>5, <3>6 DEF NotSpawned
  <2>10. Pending' = Pending \ {h} /\ h \in Pending
    BY <1>5, <1>6, <2>5, <2>8, <2>9, PendingIs
  <2>11. h \in shards
    <3>1. ~At("expire", "exit")
      BY <1>5, PhaseIs DEF CycleInv
    <3>2. shards = 0..(shards_cnt - 1)
      BY <3>1 DEF CycleInv, BigInv, OwnerInv
    <3> QED
      BY <2>9, <3>2
  <2>12. Cycle!SweepShard(h) /\ h \in Cycle!AllShards
    BY <1>3, <1>5, <2>9, <2>10, <2>11 DEF Cycle!SweepShard, Cycle!AllShards
  <2>13. \A d \in DOMAIN Pool' : /\ Pool'[d].stage = "ended" => Pool'[d].todo = <<>>
                                 /\ NoRepeat(Pool'[d].todo)
    <3> SUFFICES ASSUME NEW d \in 1..Len(Pool)
                 PROVE  /\ q[d].stage = "ended" => q[d].todo = <<>>
                        /\ NoRepeat(q[d].todo)
      BY <1>2, <2>4, <2>5
    <3>1. CASE d = c
      BY <2>2, <2>3, <2>4, <3>1
    <3>2. CASE d # c
      BY <1>2, <2>4, <3>2 DEF CycleInv, ChildrenInv
    <3> QED
      BY <3>1, <3>2
  <2>14. At("expire", "join")' =>
            \A d \in DOMAIN Pool' : d < thr'["expire"].next => Pool'[d].stage = "ended"
    <3> SUFFICES ASSUME At("expire", "join"), NEW d \in 1..Len(Pool), d < thr["expire"].next
                 PROVE  q[d].stage = "ended"
      BY <1>2, <1>3, <2>4, <2>5 DEF At
    <3>1. Pool[d].stage = "ended"
      BY <1>2 DEF CycleInv, ChildrenInv
    <3>2. d # c
      BY <2>1, <3>1
    <3> QED
      BY <2>4, <3>1, <3>2
  <2>15. ChildrenInv'
    BY <1>4, <2>13, <2>14 DEF CycleInv, ChildrenInv
  <2>16. SweptInv'
    <3>1. /\ swept \in [0..(shards_cnt - 1) -> Nat]
          /\ \A i \in 0..(shards_cnt - 1) : swept[i] = IF i \in Pending THEN 0 ELSE 1
      BY <1>5 DEF CycleInv, SweptInv
    <3>2. swept' \in [0..(shards_cnt - 1) -> Nat]
      BY <2>1, <2>9, <3>1
    <3>3. \A i \in 0..(shards_cnt - 1) : swept'[i] = IF i \in Pending' THEN 0 ELSE 1
      BY <2>1, <2>9, <2>10, <3>1
    <3> QED
      BY <1>3, <3>2, <3>3 DEF SweptInv
  <2> QED
    BY <2>12, <2>15, <2>16 DEF CycleStep, Cycle!CycleNext
<1>8. CASE Enter("expire", c) \/ SweepHangs("expire", c) \/ Leave("expire", c)
  <2>1. PICK stage \in {"in", "hung", "ended"} :
          /\ thr_c_pool' = [thr_c_pool EXCEPT !["expire"] =
                              [Pool EXCEPT ![c] = [Pool[c] EXCEPT !.stage = stage]]]
          /\ stage = "ended" => Pool[c].todo = <<>>
          /\ Pool[c].stage # "ended"
    BY <1>8 DEF Enter, SweepHangs, Leave, InStage, Pool
  <2>2. swept' = swept
    BY <1>8 DEF Enter, SweepHangs, Leave
  <2> DEFINE child == [Pool[c] EXCEPT !.stage = stage]
             q == [Pool EXCEPT ![c] = child]
  <2>3. child \in Child /\ child.todo = Pool[c].todo /\ child.stage = stage
    BY <1>2, <2>1 DEF Child
  <2>4. thr_c_pool' = [thr_c_pool EXCEPT !["expire"] = q]
    BY <2>1
  <2> HIDE DEF child
  <2>5. /\ q \in Seq(Child) /\ Len(q) = Len(Pool) /\ DOMAIN q = DOMAIN Pool
        /\ \A d \in 1..Len(Pool) : q[d] = IF d = c THEN child ELSE Pool[d]
    BY <1>2, <2>3, ExceptSeq, LenProperties
  <2>6. Pool' = q
    BY <1>2, <2>4 DEF Pool
  <2> HIDE DEF q
  <2>7. \A d \in 1..Len(Pool) : q[d].todo = Pool[d].todo
    BY <2>3, <2>5
  <2>8. Pending' = Pending
    <3>1. ToDo(q) = ToDo(Pool)
      BY <1>2, <2>5, <2>7, ToDoStays
    <3> QED
      BY <1>5, <1>6, <2>6, <3>1, PendingIs
  <2>9. \A d \in 1..Len(Pool) : /\ q[d].stage = "ended" => q[d].todo = <<>>
                                /\ NoRepeat(q[d].todo)
                                /\ Pool[d].stage = "ended" => q[d].stage = "ended"
    <3> SUFFICES ASSUME NEW d \in 1..Len(Pool)
                 PROVE  /\ q[d].stage = "ended" => q[d].todo = <<>>
                        /\ NoRepeat(q[d].todo)
                        /\ Pool[d].stage = "ended" => q[d].stage = "ended"
      OBVIOUS
    <3>1. NoRepeat(q[d].todo)
      BY <1>2, <2>7 DEF CycleInv, ChildrenInv
    <3>2. CASE d = c
      BY <2>1, <2>3, <2>5, <3>1, <3>2
    <3>3. CASE d # c
      BY <1>2, <2>5, <3>1, <3>3 DEF CycleInv, ChildrenInv
    <3> QED
      BY <3>2, <3>3
  <2>10. ChildrenInv'
    BY <1>2, <1>3, <1>4, <2>5, <2>6, <2>9 DEF CycleInv, ChildrenInv, At
  <2>11. SweptInv'
    BY <1>3, <1>5, <2>2, <2>8 DEF CycleInv, SweptInv
  <2> QED
    BY <1>3, <1>5, <2>8, <2>10, <2>11 DEF CycleStep, Cycle!cycleVars
<1> QED
  BY <1>1, <1>7, <1>8

(* A child of the vacuum only counts itself in and out.                    *)
LEMMA VacuumChildRuns ==
    ASSUME CycleInv, RunChild("vacuum")
    PROVE  CycleStep /\ ChildrenInv' /\ SweptInv'
<1> DEFINE pool == thr_c_pool["vacuum"]
<1>1. PICK c \in DOMAIN pool : Enter("vacuum", c) \/ Sweep("vacuum", c)
                               \/ SweepHangs("vacuum", c) \/ Leave("vacuum", c)
  BY DEF RunChild, Children
<1>2. pool[c].todo = <<>>
  BY <1>1 DEF CycleInv, ChildrenInv
<1>3. Enter("vacuum", c) \/ Leave("vacuum", c)
  BY <1>1, <1>2 DEF Sweep, SweepHangs
<1>4. UNCHANGED <<shards_cnt, shards, thr, owner, swept>>
  BY <1>3 DEF Enter, Leave
<1>5. PICK stage \in {"in", "ended"} :
         thr_c_pool' = [thr_c_pool EXCEPT !["vacuum"] =
                          [pool EXCEPT ![c] = [pool[c] EXCEPT !.stage = stage]]]
  BY <1>3 DEF Enter, Leave
<1>6. /\ "expire" \in Supervisors \ {"vacuum"} /\ "vacuum" \in Supervisors
      /\ thr_c_pool \in [Supervisors -> Seq(Child)] /\ pool \in Seq(Child)
      /\ pool[c] \in Child
  BY <1>1, LenProperties DEF Supervisors, CycleInv, BigInv, PoolInv
<1>7. thr_c_pool'["expire"] = thr_c_pool["expire"]
  BY <1>5, <1>6
<1> DEFINE child == [pool[c] EXCEPT !.stage = stage]
<1>8. child.todo = <<>>
  BY <1>2, <1>6 DEF Child
<1>9. thr_c_pool'["vacuum"] = [pool EXCEPT ![c] = child]
  BY <1>5, <1>6
<1> HIDE DEF child, pool
<1>10. \A d \in DOMAIN thr_c_pool'["vacuum"] : thr_c_pool'["vacuum"][d].todo = <<>>
  BY <1>8, <1>9 DEF CycleInv, ChildrenInv, pool
<1>11. Pending' = Pending /\ Phase' = Phase
  BY <1>4, <1>7, OthersKeepTheCycle
<1>12. ChildrenInv' /\ SweptInv'
  BY <1>4, <1>7, <1>10, <1>11 DEF CycleInv, ChildrenInv, SweptInv, Pool, At
<1> QED
  BY <1>4, <1>11, <1>12 DEF CycleStep, Cycle!cycleVars

-----------------------------------------------------------------------------
(* The theorems.                                                           *)

LEMMA CycleInvInit == BigInit => CycleInv /\ Cycle!CycleInit
<1> SUFFICES ASSUME BigInit PROVE CycleInv /\ Cycle!CycleInit
  OBVIOUS
<1>1. /\ thr["expire"].pc = "top" /\ Pool = <<>> /\ thr_c_pool["vacuum"] = <<>>
      /\ shards_cnt \in Counts /\ shards = 0..(shards_cnt - 1)
      /\ swept = [i \in shards |-> 0]
  BY DEF BigInit, Supervisors, Pool
<1>2. Phase = "idle"
  BY <1>1 DEF Phase
<1>3. BigInv /\ Pending = {}
  BY <1>2, BigInvInit, NothingPending
<1>4. ChildrenInv /\ SweptInv
  BY <1>1, <1>2 DEF ChildrenInv, SweptInv, At
<1>5. Cycle!CycleInit
  BY <1>1, <1>2, <1>3 DEF Cycle!CycleInit, Cycle!AllShards
<1> QED
  BY <1>3, <1>4, <1>5 DEF CycleInv

LEMMA CycleInvStep == CycleInv /\ [BigNext]_bigVars => CycleInv' /\ CycleStep
<1> SUFFICES ASSUME CycleInv, [BigNext]_bigVars PROVE CycleInv' /\ CycleStep
  OBVIOUS
<1>1. BigInv'
  BY BigInvStep DEF CycleInv
<1>2. CASE UNCHANGED bigVars
  <2>1. Pending' = Pending /\ Phase' = Phase
    BY <1>2, OthersKeepTheCycle DEF bigVars
  <2> QED
    BY <1>1, <1>2, <2>1
    DEF bigVars, CycleInv, ChildrenInv, SweptInv, Pool, At, CycleStep, Cycle!cycleVars
<1>3. CASE \E s \in Supervisors : Supervise(s) \/ RunChild(s)
  BY <1>1, <1>3, ExpireSupervises, VacuumSupervises, ExpireChildRuns, VacuumChildRuns
  DEF CycleInv, Supervisors
<1>4. CASE Own
  BY <1>1, <1>4, OwnerActs DEF CycleInv
<1> QED
  BY <1>2, <1>3, <1>4 DEF BigNext, Own

LEMMA CycleInvariant == BigSpec => []CycleInv
BY CycleInvInit, CycleInvStep, PTL DEF BigSpec

(* The supervisors, child threads and joins of bigcache.cpp implement the  *)
(* cycles of ExpireCycle: each shard once, only while it exists, and no    *)
(* shard taken away before the last cycle is over.                         *)
THEOREM ExpirationImplementsCycle == BigSpec => ImplementsCycle
<1>1. CycleInv /\ [BigNext]_bigVars => [Cycle!CycleNext]_(Cycle!cycleVars)
  BY CycleInvStep DEF CycleStep
<1>2. BigInit => Cycle!CycleInit
  BY CycleInvInit
<1> QED
  BY <1>1, <1>2, CycleInvariant, PTL DEF BigSpec, ImplementsCycle, Cycle!CycleSpec

(* When expire_ctl has joined the last child of a cycle, bulk_expire has   *)
(* run exactly once for every shard.                                       *)
THEOREM EveryShardIsSweptOnce == BigSpec => EverySweptOnce
<1>1. CycleInv /\ [BigNext]_bigVars =>
        [EndCycle("expire") => \A i \in 0..(shards_cnt - 1) : swept[i] = 1]_bigVars
  BY JoinedIsSwept DEF CycleInv, SweptInv
<1> QED
  BY <1>1, CycleInvariant, PTL DEF BigSpec, EverySweptOnce

-----------------------------------------------------------------------------
(* Every supervisor's counter is the number of its children between inc    *)
(* and dec: a dec never meets a zero, and a cycle ends with a zero.        *)

Joined(s) ==
    At(s, "join") =>
        \A c \in Children(s) : c < thr[s].next => InStage(s, c, "ended")

CountInv ==
    /\ cntr \in [Supervisors -> Nat]
    /\ \A s \in Supervisors : cntr[s] = Cardinality(Running(s)) /\ Joined(s)

TypedInv == CycleInv /\ CountInv /\ shards \subseteq 0..(shards_cnt - 1)

LEMMA RunningFinite ==
    ASSUME BigInv, NEW s \in Supervisors
    PROVE  /\ Children(s) = 1..Len(thr_c_pool[s]) /\ Len(thr_c_pool[s]) \in Nat
           /\ IsFiniteSet(Running(s)) /\ Cardinality(Running(s)) \in Nat
<1>1. Children(s) = 1..Len(thr_c_pool[s]) /\ Len(thr_c_pool[s]) \in Nat
  BY LenProperties DEF BigInv, PoolInv, Children
<1>2. Running(s) \subseteq 1..Len(thr_c_pool[s])
  BY <1>1 DEF Running
<1>3. IsFiniteSet(1..Len(thr_c_pool[s]))
  BY <1>1, FS_Interval
<1> QED
  BY <1>1, <1>2, <1>3, FS_Subset, FS_CardinalityType

(* A thread whose pool and place are the same counts the same.             *)
LEMMA CountStays ==
    ASSUME CountInv, NEW s \in Supervisors,
           UNCHANGED <<thr[s], thr_c_pool[s], cntr[s]>>
    PROVE  cntr'[s] = Cardinality(Running(s)') /\ Joined(s)'
BY DEF CountInv, Running, Joined, Children, InStage, At

(* No supervisor touches a counter.  A child that is appended has not      *)
(* counted itself in, and the pool that is cleared holds none that has.    *)
LEMMA SupervisorCounts ==
    ASSUME BigInv, CountInv, NEW s \in Supervisors, Supervise(s)
    PROVE  CountInv'
<1>1. cntr' = cntr
  BY DEF Supervise, GoToSleep, WakeAndSkip, WakeAndStart, Spawn, StartJoining, Join,
         EndCycle, FinishCycle
<1>2. /\ thr \in [Supervisors -> Thread] /\ thr_c_pool \in [Supervisors -> Seq(Child)]
      /\ thr[s] \in Thread
      /\ DOMAIN thr = Supervisors /\ DOMAIN thr_c_pool = Supervisors
      /\ DOMAIN thr[s] = {"pc", "took", "skip", "since", "next"}
  BY DEF BigInv, SupervisorsOK, PoolInv, Thread
<1>3. /\ Children(s) = 1..Len(thr_c_pool[s]) /\ Len(thr_c_pool[s]) \in Nat
      /\ cntr[s] = Cardinality(Running(s)) /\ Joined(s) /\ cntr[s] \in Nat
  BY RunningFinite DEF CountInv
<1>4. \A r \in Supervisors \ {s} : thr'[r] = thr[r] /\ thr_c_pool'[r] = thr_c_pool[r]
  BY <1>2 DEF Supervise, GoToSleep, WakeAndSkip, WakeAndStart, Spawn, StartJoining, Join,
              EndCycle, FinishCycle
<1>5. SUFFICES cntr'[s] = Cardinality(Running(s)') /\ Joined(s)'
  <2>1. \A r \in Supervisors \ {s} : cntr'[r] = Cardinality(Running(r)') /\ Joined(r)'
    BY <1>1, <1>4, CountStays
  <2> QED
    BY <1>1, <2>1 DEF CountInv
<1>6. CASE GoToSleep(s) \/ WakeAndSkip(s) \/ WakeAndStart(s)
  <2>1. ~At(s, "join")' /\ thr_c_pool' = thr_c_pool
    <3>1. CASE GoToSleep(s)
      BY <1>2, <3>1 DEF GoToSleep, At
    <3>2. CASE WakeAndSkip(s)
      BY <1>2, <3>2 DEF WakeAndSkip, At
    <3>3. CASE WakeAndStart(s)
      BY <1>2, <3>3 DEF WakeAndStart, At
    <3> QED
      BY <1>6, <3>1, <3>2, <3>3
  <2> QED
    BY <1>1, <1>3, <2>1 DEF Running, Children, Joined
<1>7. CASE Spawn(s)
  <2>1. PICK todo :
          thr_c_pool' = [thr_c_pool EXCEPT ![s] =
                           Append(thr_c_pool[s], [stage |-> "new", todo |-> todo])]
    BY <1>7 DEF Spawn
  <2> DEFINE child == [stage |-> "new", todo |-> todo]
             n == Len(thr_c_pool[s])
  <2>2. thr_c_pool'[s] = Append(thr_c_pool[s], child) /\ child.stage = "new"
    BY <1>2, <2>1
  <2> HIDE DEF child
  <2>3. /\ DOMAIN Append(thr_c_pool[s], child) = 1..(n + 1)
        /\ \A c \in 1..n : Append(thr_c_pool[s], child)[c] = thr_c_pool[s][c]
        /\ Append(thr_c_pool[s], child)[n + 1] = child
    BY <1>2, <1>3
  <2>4. Running(s)' = Running(s)
    BY <1>3, <2>2, <2>3 DEF Running, Children
  <2>5. ~At(s, "join")'
    BY <1>2, <1>7 DEF Spawn, At
  <2> QED
    BY <1>1, <1>3, <2>4, <2>5 DEF Joined
<1>8. CASE StartJoining(s)
  <2>1. thr'[s].next = 1 /\ thr_c_pool' = thr_c_pool
    BY <1>2, <1>8 DEF StartJoining
  <2>2. Running(s)' = Running(s) /\ Children(s)' = Children(s)
    BY <2>1 DEF Running, Children
  <2>3. Joined(s)'
    BY <1>3, <2>1, <2>2 DEF Joined
  <2> QED
    BY <1>1, <1>3, <2>2, <2>3
<1>9. CASE Join(s)
  <2>1. /\ thr'[s].next = thr[s].next + 1 /\ thr_c_pool' = thr_c_pool
        /\ At(s, "join") /\ InStage(s, thr[s].next, "ended") /\ thr[s].next \in Nat
    BY <1>2, <1>9 DEF Join, InStage, Thread
  <2>2. Running(s)' = Running(s) /\ Children(s)' = Children(s)
    BY <2>1 DEF Running, Children
  <2>3. Joined(s)'
    BY <1>3, <2>1, <2>2 DEF Joined, InStage
  <2> QED
    BY <1>1, <1>3, <2>2, <2>3
<1>10. CASE EndCycle(s)
  <2>1. /\ At(s, "join") /\ thr[s].next > Len(thr_c_pool[s])
        /\ thr_c_pool'[s] = <<>> /\ thr[s].next \in Nat
    BY <1>2, <1>10 DEF EndCycle, FinishCycle, Thread
  <2>2. \A c \in Children(s) : thr_c_pool[s][c].stage = "ended"
    BY <1>3, <2>1 DEF Joined, InStage
  <2>3. Running(s) = {} /\ Running(s)' = {} /\ Children(s)' = {}
    BY <2>1, <2>2 DEF Running, Children
  <2> QED
    BY <1>1, <1>3, <2>3 DEF Joined
<1> QED
  BY <1>6, <1>7, <1>8, <1>9, <1>10 DEF Supervise

(* A child counts itself in once, and out once.                            *)
LEMMA ChildCounts ==
    ASSUME BigInv, CountInv, NEW s \in Supervisors, RunChild(s)
    PROVE  CountInv'
<1>1. /\ thr' = thr /\ thr_c_pool \in [Supervisors -> Seq(Child)]
      /\ DOMAIN thr_c_pool = Supervisors
      /\ cntr \in [Supervisors -> Nat]
  BY ChildStep DEF BigInv, PoolInv, CountInv
<1>2. /\ Children(s) = 1..Len(thr_c_pool[s]) /\ IsFiniteSet(Running(s))
      /\ cntr[s] = Cardinality(Running(s)) /\ Joined(s) /\ cntr[s] \in Nat
  BY RunningFinite DEF CountInv
<1>3. PICK c \in Children(s) : Enter(s, c) \/ Sweep(s, c) \/ SweepHangs(s, c) \/ Leave(s, c)
  BY DEF RunChild
<1> DEFINE pool == thr_c_pool[s]
<1>4. pool \in Seq(Child) /\ c \in DOMAIN pool /\ pool[c] \in Child
  BY <1>1, <1>2, <1>3 DEF Children
<1>5. PICK child :
        /\ thr_c_pool' = [thr_c_pool EXCEPT ![s] = [pool EXCEPT ![c] = child]]
        /\ \/ pool[c].stage = "new" /\ child.stage = "in"
              /\ cntr' = [cntr EXCEPT ![s] = @ + 1]
           \/ pool[c].stage = "in" /\ child.stage \in {"in", "hung"} /\ cntr' = cntr
           \/ pool[c].stage = "in" /\ child.stage = "ended"
              /\ cntr' = [cntr EXCEPT ![s] = @ - 1]
  <2>1. DOMAIN pool[c] = {"stage", "todo"}
    BY <1>4 DEF Child
  <2>2. CASE Enter(s, c)
    <3> DEFINE child == [pool[c] EXCEPT !.stage = "in"]
    <3>1. child.stage = "in"
      BY <1>4, <2>1
    <3> QED
      BY <2>2, <3>1 DEF Enter, InStage
  <2>3. CASE Sweep(s, c)
    <3> DEFINE child == [pool[c] EXCEPT !.todo = Tail(pool[c].todo)]
    <3>1. child.stage = "in"
      BY <1>4, <2>1, <2>3 DEF Sweep, InStage
    <3> QED
      BY <2>3, <3>1 DEF Sweep, InStage
  <2>4. CASE SweepHangs(s, c)
    <3> DEFINE child == [pool[c] EXCEPT !.stage = "hung"]
    <3>1. child.stage = "hung"
      BY <1>4, <2>1
    <3> QED
      BY <2>4, <3>1 DEF SweepHangs, InStage
  <2>5. CASE Leave(s, c)
    <3> DEFINE child == [pool[c] EXCEPT !.stage = "ended"]
    <3>1. child.stage = "ended"
      BY <1>4, <2>1
    <3> QED
      BY <2>5, <3>1 DEF Leave, InStage
  <2> QED
    BY <1>3, <2>2, <2>3, <2>4, <2>5
<1>6. /\ DOMAIN thr_c_pool'[s] = DOMAIN pool
      /\ thr_c_pool'[s][c] = child
      /\ \A d \in DOMAIN pool \ {c} : thr_c_pool'[s][d] = pool[d]
      /\ \A r \in Supervisors \ {s} : thr_c_pool'[r] = thr_c_pool[r] /\ cntr'[r] = cntr[r]
  BY <1>1, <1>4, <1>5
<1>7. c \notin DOMAIN pool \ {c} /\ Children(s) = DOMAIN pool /\ Children(s)' = DOMAIN pool
  BY <1>6 DEF Children
<1>8. pool[c].stage # "ended"
  BY <1>5
<1>9. Joined(s)'
  BY <1>1, <1>2, <1>6, <1>7, <1>8 DEF Joined, InStage, At
<1>10. cntr'[s] = Cardinality(Running(s)') /\ cntr'[s] \in Nat
  <2>1. CASE pool[c].stage = "new" /\ child.stage = "in" /\ cntr' = [cntr EXCEPT ![s] = @ + 1]
    <3>1. Running(s)' = Running(s) \cup {c} /\ c \notin Running(s)
      BY <1>4, <1>6, <1>7, <2>1 DEF Running
    <3>2. Cardinality(Running(s)') = Cardinality(Running(s)) + 1
      BY <1>2, <3>1, FS_AddElement
    <3>3. cntr'[s] = cntr[s] + 1
      BY <1>1, <2>1
    <3> QED
      BY <1>2, <3>2, <3>3
  <2>2. CASE pool[c].stage = "in" /\ child.stage \in {"in", "hung"} /\ cntr' = cntr
    <3>1. Running(s)' = Running(s)
      BY <1>4, <1>6, <1>7, <2>2 DEF Running
    <3> QED
      BY <1>2, <2>2, <3>1
  <2>3. CASE pool[c].stage = "in" /\ child.stage = "ended" /\ cntr' = [cntr EXCEPT ![s] = @ - 1]
    <3>1. Running(s)' = Running(s) \ {c} /\ c \in Running(s)
      BY <1>4, <1>6, <1>7, <2>3 DEF Running
    <3>2. IsFiniteSet(Running(s)')
      BY <1>2, <3>1, FS_RemoveElement
    <3> QED
      BY <1>1, <1>2, <2>3, <3>1, <3>2, FS_RemoveElement, FS_CardinalityType
  <2> QED
    BY <1>5, <2>1, <2>2, <2>3
<1>11. cntr' \in [Supervisors -> Nat]
  BY <1>1, <1>5, <1>6, <1>10
<1>12. \A r \in Supervisors \ {s} : cntr'[r] = Cardinality(Running(r)') /\ Joined(r)'
  BY <1>1, <1>6, CountStays
<1> QED
  BY <1>9, <1>10, <1>11, <1>12 DEF CountInv

LEMMA TypedInit == BigInit => TypedInv
<1> SUFFICES ASSUME BigInit PROVE TypedInv
  OBVIOUS
<1>1. CycleInv /\ shards = 0..(shards_cnt - 1)
  BY CycleInvInit DEF BigInit
<1>2. \A s \in Supervisors : cntr[s] = 0 /\ Children(s) = {} /\ Running(s) = {}
  BY DEF BigInit, Children, Running
<1>3. \A s \in Supervisors : Joined(s) /\ cntr[s] = Cardinality(Running(s))
  BY <1>2, FS_EmptySet DEF Joined
<1> QED
  BY <1>1, <1>3 DEF TypedInv, CountInv, BigInit

LEMMA TypedStep == TypedInv /\ [BigNext]_bigVars => TypedInv'
<1> SUFFICES ASSUME TypedInv, [BigNext]_bigVars PROVE TypedInv'
  OBVIOUS
<1>1. CycleInv' /\ BigInv
  BY CycleInvStep DEF TypedInv, CycleInv
<1>2. CountInv'
  <2>1. CASE \E s \in Supervisors : Supervise(s) \/ RunChild(s)
    BY <1>1, <2>1, SupervisorCounts, ChildCounts DEF TypedInv
  <2>2. CASE Own \/ UNCHANGED bigVars
    <3>1. UNCHANGED <<thr, thr_c_pool, cntr>>
      BY <2>2 DEF bigVars, Own, CallFreeze, CallDelete, Destroy, StopExpire, StopVacuum,
                  JoinExpire, JoinVacuum, DeleteShard, DeleteCounters
    <3>2. \A s \in Supervisors : cntr'[s] = Cardinality(Running(s)') /\ Joined(s)'
      BY <3>1, CountStays DEF TypedInv
    <3> QED
      BY <3>1, <3>2 DEF TypedInv, CountInv
  <2> QED
    BY <2>1, <2>2 DEF BigNext, Own
<1>3. shards_cnt' = shards_cnt /\ shards' \subseteq shards
  <2>1. CASE \E s \in Supervisors : Supervise(s) \/ RunChild(s)
    BY <1>1, <2>1, SuperviseStep, ChildStep DEF BigInv
  <2>2. CASE Own \/ UNCHANGED bigVars
    BY <2>2 DEF bigVars, Own, CallFreeze, CallDelete, Destroy, StopExpire, StopVacuum,
                JoinExpire, JoinVacuum, DeleteShard, DeleteCounters
  <2> QED
    BY <2>1, <2>2 DEF BigNext, Own
<1> QED
  BY <1>1, <1>2, <1>3 DEF TypedInv

(* In every state of the supervisors, their children and the owner the     *)
(* variables have their types; above all the counters that the children    *)
(* of expire_ctl and vacuum_ctl inc and dec never go below zero, since     *)
(* they are the numbers of children between the two.                       *)
THEOREM BigTypeCorrect == BigSpec => []BigTypeOK
<1>1. TypedInv => BigTypeOK
  BY DEF TypedInv, CycleInv, BigInv, SupervisorsOK, PoolInv, SweptInv, CountInv, BigTypeOK
<1> QED
  BY <1>1, TypedInit, TypedStep, PTL DEF BigSpec

(* bulk_expire of a shard is called by one thread at a time: the children  *)
(* of a cycle have no shard in common, and none is left of an earlier one, *)
(* since the counter that no cycle resets is the number of the present     *)
(* children between inc and dec.                                           *)
THEOREM OneSweeperAlways == BigSpec => []OneSweeper
<1>1. TypedInv => OneSweeper
  <2>1. "expire" \in Supervisors
    BY DEF Supervisors
  <2>2. TypedInv => cntr["expire"] = Cardinality(Running("expire"))
    BY <2>1 DEF TypedInv, CountInv
  <2>3. TypedInv => \A c, d \in Children("expire") :
                       c # d => Todo("expire", c) \cap Todo("expire", d) = {}
    BY ChildrenShareNothing DEF TypedInv, CycleInv
  <2> QED
    BY <2>2, <2>3 DEF OneSweeper
<1> QED
  BY <1>1, TypedInit, TypedStep, PTL DEF BigSpec
=============================================================================
