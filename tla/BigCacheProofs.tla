--------------------------- MODULE BigCacheProofs ---------------------------
(***************************************************************************)
(* Theorems about module BigCache, for every number of shards, every       *)
(* period and every behaviour of the system clock.                         *)
(***************************************************************************)
EXTENDS BigCache, SequenceTheorems, TLAPS

-----------------------------------------------------------------------------
(* 64-bit differences.                                                     *)

LEMMA U64Type ==
    ASSUME NEW a \in 0..(Word - 1), NEW b \in 0..(Word - 1)
    PROVE  U64Sub(a, b) \in 0..(Word - 1)
BY BigCacheAssumption DEF U64Sub

LEMMA InstantType == \A t \in Instants : t \in 0..(Word - 1)
BY BigCacheAssumption

LEMMA PeriodType == \A s \in Supervisors : Period[s] \in 0..(Word - 1)
BY BigCacheAssumption

-----------------------------------------------------------------------------
(* The supervisors' own state, without the children.                       *)

SupervisorsOK ==
    /\ shards_cnt \in Counts
    /\ stop_sig \in [Supervisors -> BOOLEAN]
    /\ thr \in [Supervisors -> Thread]
    /\ owner.pc \in {"free", "freeze", "freeze_vacuum", "join_expire",
                     "join_vacuum", "delete", "deleted"}
    /\ owner.deleting \in BOOLEAN
    /\ DOMAIN owner = {"pc", "deleting"}
    /\ late \in [Supervisors -> Nat]

(* What the next sleep subtracts never exceeds the period.                 *)
SleepInv == \A s \in Supervisors : At(s, "sleep") => thr[s].took <= Period[s]

(* A cycle begun after the signal is the last one.                         *)
StopInv ==
    \A s \in Supervisors :
        /\ ~stop_sig[s] => late[s] = 0
        /\ late[s] <= 1
        /\ At(s, "top") \/ At(s, "sleep") => late[s] = 0

(* The thread s after each step of the supervisor.                         *)
LEMMA SuperviseStep ==
    ASSUME SupervisorsOK, NEW s \in Supervisors, Supervise(s)
    PROVE  /\ thr' \in [Supervisors -> Thread]
           /\ \A r \in Supervisors \ {s} : thr'[r] = thr[r]
           /\ \/ /\ At(s, "top") /\ thr'[s].pc = "sleep"
                 /\ thr'[s].took <= Period[s]
              \/ At(s, "sleep") /\ thr'[s].pc = "top"
              \/ At(s, "sleep") /\ thr'[s].pc = "spawn"
              \/ At(s, "spawn") /\ thr'[s].pc = "spawn"
              \/ At(s, "spawn") /\ thr'[s].pc = "join"
              \/ At(s, "join") /\ thr'[s].pc = "join"
              \/ At(s, "join") /\ thr'[s].pc = (IF stop_sig[s] THEN "exit" ELSE "top")
           /\ late' = IF thr'[s].pc = "spawn" /\ At(s, "sleep") /\ stop_sig[s]
                      THEN [late EXCEPT ![s] = @ + 1] ELSE late
           /\ UNCHANGED <<shards_cnt, shards, stop_sig, owner>>
<1>1. thr[s] \in Thread /\ thr \in [Supervisors -> Thread]
  BY DEF SupervisorsOK
<1>2. /\ Period[s] \in Nat /\ thr[s].took \in 0..(Word - 1) /\ thr[s].next \in Nat
      /\ thr[s].since \in 0..(Word - 1) /\ Word \in Nat /\ 0 \in 0..(Word - 1)
  BY <1>1, PeriodType, BigCacheAssumption DEF Thread
<1>3. CASE GoToSleep(s)
  <2> DEFINE t == IF thr[s].took > Period[s]
                  THEN [thr[s] EXCEPT !.pc = "sleep", !.skip = TRUE, !.took = 0]
                  ELSE [thr[s] EXCEPT !.pc = "sleep", !.skip = FALSE]
  <2>1. thr' = [thr EXCEPT ![s] = t] /\ At(s, "top")
    BY <1>3 DEF GoToSleep
  <2>2. t \in Thread /\ t.pc = "sleep" /\ t.took <= Period[s]
    <3>1. CASE thr[s].took > Period[s]
      <4>1. t = [thr[s] EXCEPT !.pc = "sleep", !.skip = TRUE, !.took = 0]
        BY <3>1
      <4> HIDE DEF t
      <4>2. t.pc = "sleep" /\ t.took = 0
        BY <1>1, <4>1 DEF Thread
      <4>3. t \in Thread
        BY <1>1, <1>2, <4>1 DEF Thread
      <4> QED
        BY <1>2, <4>2, <4>3
    <3>2. CASE ~(thr[s].took > Period[s])
      <4>1. t = [thr[s] EXCEPT !.pc = "sleep", !.skip = FALSE]
        BY <3>2
      <4>2. thr[s].took <= Period[s]
        BY <1>2, <3>2
      <4> HIDE DEF t
      <4> QED
        BY <1>1, <1>2, <4>1, <4>2 DEF Thread
    <3> QED
      BY <3>1, <3>2
  <2> HIDE DEF t
  <2> QED
    BY <1>1, <1>3, <2>1, <2>2 DEF GoToSleep
<1>4. CASE WakeAndSkip(s)
  <2> DEFINE t == [thr[s] EXCEPT !.pc = "top", !.skip = FALSE]
  <2>1. thr' = [thr EXCEPT ![s] = t] /\ At(s, "sleep")
    BY <1>4 DEF WakeAndSkip
  <2>2. t \in Thread /\ t.pc = "top"
    BY <1>1 DEF Thread
  <2> HIDE DEF t
  <2> QED
    BY <1>1, <1>4, <2>1, <2>2 DEF WakeAndSkip
<1>5. CASE WakeAndStart(s)
  <2>1. PICK i \in Instants :
          thr' = [thr EXCEPT ![s] = [thr[s] EXCEPT !.pc = "spawn", !.since = i, !.next = 0]]
    BY <1>5 DEF WakeAndStart
  <2> DEFINE t == [thr[s] EXCEPT !.pc = "spawn", !.since = i, !.next = 0]
  <2>2. t \in Thread /\ t.pc = "spawn"
    BY <1>1, InstantType DEF Thread
  <2> HIDE DEF t
  <2>3. thr' = [thr EXCEPT ![s] = t] /\ At(s, "sleep")
    BY <1>5, <2>1 DEF WakeAndStart, t
  <2>4. late' = IF stop_sig[s] THEN [late EXCEPT ![s] = @ + 1] ELSE late
    BY <1>5 DEF WakeAndStart, SupervisorsOK
  <2> QED
    BY <1>1, <1>5, <2>2, <2>3, <2>4 DEF WakeAndStart
<1>6. CASE Spawn(s)
  <2> DEFINE t == [thr[s] EXCEPT !.next = thr[s].next + Step]
  <2>1. thr' = [thr EXCEPT ![s] = t] /\ At(s, "spawn")
    BY <1>6 DEF Spawn
  <2>2. t \in Thread /\ t.pc = thr[s].pc
    <3>1. Step \in Nat
      BY BigCacheAssumption DEF Step
    <3> QED
      BY <1>1, <1>2, <3>1 DEF Thread
  <2> HIDE DEF t
  <2> QED
    BY <1>1, <1>6, <2>1, <2>2 DEF Spawn, At
<1>7. CASE StartJoining(s)
  <2> DEFINE t == [thr[s] EXCEPT !.pc = "join", !.next = 1]
  <2>1. thr' = [thr EXCEPT ![s] = t] /\ At(s, "spawn")
    BY <1>7 DEF StartJoining
  <2>2. t \in Thread /\ t.pc = "join"
    BY <1>1 DEF Thread
  <2> HIDE DEF t
  <2> QED
    BY <1>1, <1>7, <2>1, <2>2 DEF StartJoining
<1>8. CASE Join(s)
  <2> DEFINE t == [thr[s] EXCEPT !.next = thr[s].next + 1]
  <2>1. thr' = [thr EXCEPT ![s] = t] /\ At(s, "join")
    BY <1>8 DEF Join
  <2>2. t \in Thread /\ t.pc = thr[s].pc
    BY <1>1, <1>2 DEF Thread
  <2> HIDE DEF t
  <2> QED
    BY <1>1, <1>8, <2>1, <2>2 DEF Join, At
<1>9. CASE EndCycle(s)
  <2> DEFINE pc == IF stop_sig[s] THEN "exit" ELSE "top"
  <2>1. PICK i \in Instants :
          thr' = [thr EXCEPT ![s] = [pc |-> pc, took |-> U64Sub(i, thr[s].since),
                                     skip |-> FALSE, since |-> 0, next |-> 0]]
    BY <1>9 DEF EndCycle, FinishCycle
  <2> DEFINE t == [pc |-> pc, took |-> U64Sub(i, thr[s].since),
                   skip |-> FALSE, since |-> 0, next |-> 0]
  <2>2. U64Sub(i, thr[s].since) \in 0..(Word - 1)
    BY <1>2, InstantType, U64Type
  <2>3. t \in Thread /\ t.pc = pc
    BY <1>2, <2>2 DEF Thread
  <2>4. thr' = [thr EXCEPT ![s] = t] /\ At(s, "join")
    BY <1>9, <2>1 DEF EndCycle, FinishCycle
  <2>5. UNCHANGED <<shards_cnt, shards, stop_sig, owner, late>>
    BY <1>9 DEF EndCycle, FinishCycle
  <2> HIDE DEF t
  <2> QED
    BY <1>1, <2>3, <2>4, <2>5
<1> QED
  BY <1>3, <1>4, <1>5, <1>6, <1>7, <1>8, <1>9 DEF Supervise

-----------------------------------------------------------------------------
(* The children.  The c-th child of a cycle has shards of the c-th part,   *)
(* and the parts divide the shards.                                        *)

Part(c) == ((c - 1) * Step) .. (c * Step - 1)

PoolInv ==
    /\ thr_c_pool \in [Supervisors -> Seq(Child)]
    /\ \A s \in Supervisors :
          /\ thr[s].pc \in {"top", "sleep", "exit"} => thr_c_pool[s] = <<>>
          /\ At(s, "spawn") => thr[s].next = Len(thr_c_pool[s]) * Step
          /\ \A c \in Children(s) : /\ Todo(s, c) \subseteq Part(c)
                                    /\ c * Step <= shards_cnt

LEMMA Division ==
    ASSUME NEW n \in Nat, NEW g \in Nat \ {0}, n % g = 0
    PROVE  \E p \in Nat : n = p * g
<1>1. n = g * (n \div g) + (n % g)
  OBVIOUS
<1>2. n \div g \in Nat
  OBVIOUS
<1> DEFINE p == n \div g
<1>3. n = p * g /\ p \in Nat
  BY <1>1, <1>2
<1> QED
  BY <1>3

LEMMA StepType ==
    ASSUME shards_cnt \in Counts
    PROVE  Step \in Nat \ {0} /\ \E p \in Nat : shards_cnt = p * Step
<1>1. shards_cnt \in Nat \ {0} /\ GroupSize \in Nat \ {0} /\ GroupFrom \in Nat
  BY BigCacheAssumption
<1>2. CASE shards_cnt >= GroupFrom
  <2>1. shards_cnt % GroupSize = 0
    BY <1>2, BigCacheAssumption
  <2> QED
    BY <1>1, <1>2, <2>1, Division DEF Step
<1>3. CASE ~(shards_cnt >= GroupFrom)
  BY <1>1, <1>3 DEF Step
<1> QED
  BY <1>2, <1>3

(* The next part is inside as long as its first shard is.                  *)
LEMMA PartFits ==
    ASSUME shards_cnt \in Counts, NEW n \in Nat, n * Step < shards_cnt
    PROVE  (n + 1) * Step <= shards_cnt /\ (n + 1) * Step = n * Step + Step
<1>1. PICK p \in Nat : shards_cnt = p * Step
  BY StepType
<1> DEFINE st == Step
<1>2. st \in Nat \ {0} /\ shards_cnt = p * st
  BY <1>1, StepType
<1> HIDE DEF st
<1>3. n < p
  <2> SUFFICES ASSUME p <= n PROVE FALSE
    OBVIOUS
  <2>1. p * st <= n * st
    BY <1>2
  <2> QED
    BY <1>2, <2>1 DEF st
<1>4. (n + 1) * st <= p * st /\ (n + 1) * st = n * st + st
  BY <1>2, <1>3
<1> QED
  BY <1>2, <1>4 DEF st

LEMMA GroupType ==
    ASSUME shards_cnt \in Counts, NEW n \in Nat
    PROVE  /\ Group(n * Step) \in Seq(Nat)
           /\ {Group(n * Step)[i] : i \in DOMAIN Group(n * Step)} \subseteq Part(n + 1)
<1> DEFINE st == Step
           g == [i \in 1..st |-> n * st + i - 1]
<1>1. st \in Nat /\ n * st \in Nat /\ (n + 1) * st = n * st + st
  BY StepType
<1>2. g = Group(n * Step)
  BY DEF Group
<1>3. Part(n + 1) = (n * st) .. (n * st + st - 1)
  BY <1>1 DEF Part
<1> DEFINE b == n * st
<1>4. b \in Nat /\ g = [i \in 1..st |-> b + i - 1] /\ Part(n + 1) = b .. (b + st - 1)
  BY <1>1, <1>3
<1> HIDE DEF st, b, g
<1>5. \A i \in 1..st : g[i] \in Nat /\ g[i] \in b .. (b + st - 1)
  BY <1>1, <1>4
<1>6. DOMAIN g = 1..st /\ g \in Seq(Nat)
  <2>1. g \in [1..st -> Nat]
    BY <1>4, <1>5
  <2> QED
    BY <1>1, <2>1, SeqDef
<1> QED
  BY <1>2, <1>4, <1>5, <1>6

(* What a step of a child does to the pool: its own place, with less to do.*)
LEMMA ChildStep ==
    ASSUME SupervisorsOK, PoolInv, NEW s \in Supervisors, RunChild(s)
    PROVE  /\ thr_c_pool' \in [Supervisors -> Seq(Child)]
           /\ \A r \in Supervisors : Len(thr_c_pool'[r]) = Len(thr_c_pool[r])
           /\ \A r \in Supervisors : \A c \in DOMAIN thr_c_pool'[r] :
                 c \in DOMAIN thr_c_pool[r] /\ Todo(r, c)' \subseteq Todo(r, c)
           /\ UNCHANGED <<shards_cnt, shards, stop_sig, thr, owner, late>>
<1>1. PICK c \in Children(s) : Enter(s, c) \/ Sweep(s, c) \/ SweepHangs(s, c) \/ Leave(s, c)
  BY DEF RunChild
<1>2. /\ thr_c_pool[s] \in Seq(Child) /\ c \in 1..Len(thr_c_pool[s])
      /\ thr_c_pool[s][c] \in Child
  BY <1>1, LenProperties DEF PoolInv, Children
<1>3. PICK child \in Child :
        /\ thr_c_pool' = [thr_c_pool EXCEPT ![s] = [thr_c_pool[s] EXCEPT ![c] = child]]
        /\ \/ child.todo = thr_c_pool[s][c].todo
           \/ thr_c_pool[s][c].todo # <<>> /\ child.todo = Tail(thr_c_pool[s][c].todo)
  <2>1. CASE Enter(s, c)
    <3> DEFINE child == [thr_c_pool[s][c] EXCEPT !.stage = "in"]
    <3>1. child \in Child /\ child.todo = thr_c_pool[s][c].todo
      BY <1>2 DEF Child
    <3> QED
      BY <2>1, <3>1 DEF Enter
  <2>2. CASE Sweep(s, c)
    <3> DEFINE child == [thr_c_pool[s][c] EXCEPT !.todo = Tail(thr_c_pool[s][c].todo)]
    <3>1. thr_c_pool[s][c].todo # <<>>
      BY <2>2 DEF Sweep
    <3>2. Tail(thr_c_pool[s][c].todo) \in Seq(Nat)
      BY <1>2, <3>1, HeadTailProperties DEF Child
    <3>3. child \in Child /\ child.todo = Tail(thr_c_pool[s][c].todo)
      BY <1>2, <3>2 DEF Child
    <3> QED
      BY <2>2, <3>1, <3>3 DEF Sweep
  <2>3. CASE SweepHangs(s, c)
    <3> DEFINE child == [thr_c_pool[s][c] EXCEPT !.stage = "hung"]
    <3>1. child \in Child /\ child.todo = thr_c_pool[s][c].todo
      BY <1>2 DEF Child
    <3> QED
      BY <2>3, <3>1 DEF SweepHangs
  <2>4. CASE Leave(s, c)
    <3> DEFINE child == [thr_c_pool[s][c] EXCEPT !.stage = "ended"]
    <3>1. child \in Child /\ child.todo = thr_c_pool[s][c].todo
      BY <1>2 DEF Child
    <3> QED
      BY <2>4, <3>1 DEF Leave
  <2> QED
    BY <1>1, <2>1, <2>2, <2>3, <2>4
<1> DEFINE pool == [thr_c_pool[s] EXCEPT ![c] = child]
<1>4. /\ pool \in Seq(Child) /\ Len(pool) = Len(thr_c_pool[s])
      /\ \A d \in 1..Len(thr_c_pool[s]) : pool[d] = IF d = c THEN child ELSE thr_c_pool[s][d]
  BY <1>2, ExceptSeq
<1> HIDE DEF pool
<1>5. thr_c_pool \in [Supervisors -> Seq(Child)] /\ thr_c_pool' = [thr_c_pool EXCEPT ![s] = pool]
  BY <1>3 DEF PoolInv, pool
<1>6. /\ thr_c_pool' \in [Supervisors -> Seq(Child)]
      /\ thr_c_pool'[s] = pool
      /\ \A r \in Supervisors \ {s} : thr_c_pool'[r] = thr_c_pool[r]
  BY <1>4, <1>5
<1>7. \A t \in Seq(Nat) : t # <<>> =>
         {Tail(t)[i] : i \in DOMAIN Tail(t)} \subseteq {t[i] : i \in DOMAIN t}
  <2> SUFFICES ASSUME NEW t \in Seq(Nat), t # <<>>, NEW i \in DOMAIN Tail(t)
               PROVE  \E j \in DOMAIN t : t[j] = Tail(t)[i]
    OBVIOUS
  <2>1. /\ Tail(t) \in Seq(Nat) /\ Len(Tail(t)) = Len(t) - 1
        /\ \A j \in 1..Len(Tail(t)) : Tail(t)[j] = t[j + 1]
    BY HeadTailProperties
  <2>2. /\ Len(t) \in Nat /\ DOMAIN t = 1..Len(t) /\ DOMAIN Tail(t) = 1..Len(Tail(t))
    BY <2>1, LenProperties
  <2> QED
    BY <2>1, <2>2
<1>8. \A d \in DOMAIN pool : d \in DOMAIN thr_c_pool[s]
        /\ {pool[d].todo[i] : i \in DOMAIN pool[d].todo} \subseteq Todo(s, d)
  <2> SUFFICES ASSUME NEW d \in DOMAIN pool
               PROVE  d \in DOMAIN thr_c_pool[s]
                      /\ {pool[d].todo[i] : i \in DOMAIN pool[d].todo} \subseteq Todo(s, d)
    OBVIOUS
  <2>1. d \in 1..Len(thr_c_pool[s]) /\ d \in DOMAIN thr_c_pool[s]
    BY <1>2, <1>4, LenProperties
  <2>2. CASE d = c
    <3>1. pool[d] = child /\ thr_c_pool[s][c].todo \in Seq(Nat)
      BY <1>2, <1>4, <2>1, <2>2 DEF Child
    <3> QED
      BY <1>3, <1>7, <2>1, <2>2, <3>1 DEF Todo
  <2>3. CASE d # c
    BY <1>4, <2>1, <2>3 DEF Todo
  <2> QED
    BY <2>2, <2>3, <2>1
<1>9. UNCHANGED <<shards_cnt, shards, stop_sig, thr, owner, late>>
  BY <1>1 DEF Enter, Sweep, SweepHangs, Leave
<1>10. \A r \in Supervisors : Len(thr_c_pool'[r]) = Len(thr_c_pool[r])
  BY <1>4, <1>6
<1>11. \A r \in Supervisors : \A d \in DOMAIN thr_c_pool'[r] :
          d \in DOMAIN thr_c_pool[r] /\ Todo(r, d)' \subseteq Todo(r, d)
  <2> SUFFICES ASSUME NEW r \in Supervisors, NEW d \in DOMAIN thr_c_pool'[r]
               PROVE  d \in DOMAIN thr_c_pool[r] /\ Todo(r, d)' \subseteq Todo(r, d)
    OBVIOUS
  <2>1. CASE r = s
    <3>1. d \in DOMAIN pool /\ thr_c_pool'[r][d] = pool[d]
      BY <1>6, <2>1
    <3>2. Todo(r, d)' = {pool[d].todo[i] : i \in DOMAIN pool[d].todo}
      BY <3>1 DEF Todo
    <3> QED
      BY <1>8, <2>1, <3>1, <3>2
  <2>2. CASE r # s
    <3>1. thr_c_pool'[r] = thr_c_pool[r]
      BY <1>6, <2>2
    <3> QED
      BY <3>1 DEF Todo
  <2> QED
    BY <2>1, <2>2
<1> QED
  BY <1>6, <1>9, <1>10, <1>11

(* What a step of a supervisor does to the pools: it adds the next child   *)
(* to its own, or empties it at the end of a cycle, or changes none.       *)
LEMMA PoolStep ==
    ASSUME SupervisorsOK, PoolInv, NEW s \in Supervisors, Supervise(s)
    PROVE  \/ /\ At(s, "spawn") /\ thr[s].next < shards_cnt
              /\ thr'[s].pc = "spawn" /\ thr'[s].next = thr[s].next + Step
              /\ \E child \in [stage : {"new"}, todo : {Group(thr[s].next), <<>>}] :
                    thr_c_pool' = [thr_c_pool EXCEPT ![s] = Append(thr_c_pool[s], child)]
           \/ /\ thr_c_pool' = [thr_c_pool EXCEPT ![s] = <<>>]
              /\ thr'[s].pc \in {"top", "exit"}
           \/ /\ thr_c_pool' = thr_c_pool
              /\ \/ thr'[s].pc = "join"
                 \/ At(s, "top") /\ thr'[s].pc = "sleep"
                 \/ At(s, "sleep") /\ thr'[s].pc = "top"
                 \/ At(s, "sleep") /\ thr'[s].pc = "spawn" /\ thr'[s].next = 0
<1>1. thr[s] \in Thread /\ thr \in [Supervisors -> Thread]
  BY DEF SupervisorsOK
<1>2. /\ DOMAIN thr = Supervisors
      /\ DOMAIN thr[s] = {"pc", "took", "skip", "since", "next"}
  BY <1>1 DEF Thread
<1>3. CASE GoToSleep(s)
  <2>1. thr'[s].pc = "sleep" /\ At(s, "top") /\ thr_c_pool' = thr_c_pool
    BY <1>1, <1>2, <1>3 DEF GoToSleep
  <2> QED
    BY <2>1
<1>4. CASE WakeAndSkip(s)
  <2>1. thr'[s].pc = "top" /\ At(s, "sleep") /\ thr_c_pool' = thr_c_pool
    BY <1>2, <1>4 DEF WakeAndSkip
  <2> QED
    BY <2>1
<1>5. CASE WakeAndStart(s)
  <2>1. thr'[s].pc = "spawn" /\ thr'[s].next = 0 /\ At(s, "sleep") /\ thr_c_pool' = thr_c_pool
    BY <1>2, <1>5 DEF WakeAndStart
  <2> QED
    BY <2>1
<1>6. CASE Spawn(s)
  <2>1. thr' = [thr EXCEPT ![s] = [thr[s] EXCEPT !.next = thr[s].next + Step]]
    BY <1>6 DEF Spawn
  <2>2. thr'[s].pc = "spawn" /\ thr'[s].next = thr[s].next + Step
    BY <1>2, <1>6, <2>1 DEF Spawn, At
  <2>3. \E child \in [stage : {"new"}, todo : {Group(thr[s].next), <<>>}] :
           thr_c_pool' = [thr_c_pool EXCEPT ![s] = Append(thr_c_pool[s], child)]
    <3> DEFINE todo == IF s = "expire" THEN Group(thr[s].next) ELSE <<>>
               child == [stage |-> "new", todo |-> todo]
    <3>1. todo \in {Group(thr[s].next), <<>>}
      OBVIOUS
    <3>2. thr_c_pool' = [thr_c_pool EXCEPT ![s] = Append(thr_c_pool[s], child)]
      BY <1>6 DEF Spawn
    <3> HIDE DEF todo
    <3>3. child \in [stage : {"new"}, todo : {Group(thr[s].next), <<>>}]
      BY <3>1
    <3> QED
      BY <3>2, <3>3
  <2>4. At(s, "spawn") /\ thr[s].next < shards_cnt
    BY <1>6 DEF Spawn
  <2> QED
    BY <2>2, <2>3, <2>4
<1>7. CASE StartJoining(s)
  <2>1. thr'[s].pc = "join" /\ thr_c_pool' = thr_c_pool
    BY <1>2, <1>7 DEF StartJoining
  <2> QED
    BY <2>1
<1>8. CASE Join(s)
  <2>1. thr'[s].pc = "join" /\ thr_c_pool' = thr_c_pool
    BY <1>2, <1>8 DEF Join, At
  <2> QED
    BY <2>1
<1>9. CASE EndCycle(s)
  <2>1. thr'[s].pc = (IF stop_sig[s] THEN "exit" ELSE "top")
    BY <1>2, <1>9 DEF EndCycle, FinishCycle
  <2>2. thr_c_pool' = [thr_c_pool EXCEPT ![s] = <<>>]
    BY <1>9 DEF EndCycle, FinishCycle
  <2> QED
    BY <2>1, <2>2
<1> QED
  BY <1>3, <1>4, <1>5, <1>6, <1>7, <1>8, <1>9 DEF Supervise

-----------------------------------------------------------------------------
(* The owner goes past a join only when that supervisor has ended, and     *)
(* deletes shards only past both.                                          *)

OwnerInv ==
    /\ owner.pc \in {"join_vacuum", "delete", "deleted"} => At("expire", "exit")
    /\ owner.pc \in {"delete", "deleted"} => At("vacuum", "exit")
    /\ owner.pc \notin {"delete", "deleted"} => shards = 0..(shards_cnt - 1)

Own == CallFreeze \/ CallDelete \/ Destroy

LEMMA OwnerStep ==
    ASSUME SupervisorsOK, OwnerInv, Own
    PROVE  /\ UNCHANGED <<shards_cnt, thr, thr_c_pool, late>>
           /\ stop_sig' \in [Supervisors -> BOOLEAN]
           /\ \A s \in Supervisors : stop_sig[s] => stop_sig'[s]
           /\ owner'.pc \in {"free", "freeze", "freeze_vacuum", "join_expire",
                             "join_vacuum", "delete", "deleted"}
           /\ owner'.deleting \in BOOLEAN /\ DOMAIN owner' = {"pc", "deleting"}
           /\ OwnerInv'
<1>1. /\ owner.deleting \in BOOLEAN /\ DOMAIN owner = {"pc", "deleting"}
      /\ stop_sig \in [Supervisors -> BOOLEAN]
  BY DEF SupervisorsOK
<1>2. CASE CallFreeze
  <2>1. owner'.pc = "freeze" /\ owner.pc = "free"
    BY <1>1, <1>2 DEF CallFreeze, Goes, Owner
  <2>2. owner'.deleting = owner.deleting /\ DOMAIN owner' = {"pc", "deleting"}
    BY <1>1, <1>2 DEF CallFreeze, Goes
  <2>3. UNCHANGED <<shards_cnt, shards, stop_sig, thr, thr_c_pool, late>>
    BY <1>2 DEF CallFreeze
  <2> QED
    BY <1>1, <2>1, <2>2, <2>3 DEF OwnerInv, At
<1>3. CASE CallDelete
  <2>1. owner' = [pc |-> "freeze", deleting |-> TRUE] /\ owner.pc = "free"
    BY <1>3 DEF CallDelete, Owner
  <2>2. owner'.pc = "freeze"
    BY <2>1
  <2>3. owner'.deleting \in BOOLEAN /\ DOMAIN owner' = {"pc", "deleting"}
    BY <2>1
  <2>4. UNCHANGED <<shards_cnt, shards, stop_sig, thr, thr_c_pool, late>>
    BY <1>3 DEF CallDelete
  <2> QED
    BY <1>1, <2>1, <2>2, <2>3, <2>4 DEF OwnerInv, At
<1>4. CASE StopExpire
  <2>1. owner'.pc = "freeze_vacuum" /\ owner.pc = "freeze"
    BY <1>1, <1>4 DEF StopExpire, Goes, Owner
  <2>2. owner'.deleting = owner.deleting /\ DOMAIN owner' = {"pc", "deleting"}
    BY <1>1, <1>4 DEF StopExpire, Goes
  <2>3. UNCHANGED <<shards_cnt, shards, thr, thr_c_pool, late>>
    BY <1>4 DEF StopExpire
  <2>4. stop_sig' = [stop_sig EXCEPT !["expire"] = TRUE]
    BY <1>4 DEF StopExpire
  <2>5. /\ stop_sig' \in [Supervisors -> BOOLEAN]
        /\ \A s \in Supervisors : stop_sig[s] => stop_sig'[s]
    BY <1>1, <2>4
  <2> QED
    BY <1>1, <2>1, <2>2, <2>3, <2>5 DEF OwnerInv, At
<1>5. CASE StopVacuum
  <2>1. owner'.pc \in {"join_expire", "free"} /\ owner.pc = "freeze_vacuum"
    <3>1. owner'.pc = (IF owner.deleting THEN "join_expire" ELSE "free")
      BY <1>1, <1>5 DEF StopVacuum, Goes
    <3> QED
      BY <1>5, <3>1 DEF StopVacuum, Owner
  <2>2. owner'.deleting = owner.deleting /\ DOMAIN owner' = {"pc", "deleting"}
    BY <1>1, <1>5 DEF StopVacuum, Goes
  <2>3. UNCHANGED <<shards_cnt, shards, thr, thr_c_pool, late>>
    BY <1>5 DEF StopVacuum
  <2>4. stop_sig' = [stop_sig EXCEPT !["vacuum"] = TRUE]
    BY <1>5 DEF StopVacuum
  <2>5. /\ stop_sig' \in [Supervisors -> BOOLEAN]
        /\ \A s \in Supervisors : stop_sig[s] => stop_sig'[s]
    BY <1>1, <2>4
  <2> QED
    BY <1>1, <2>1, <2>2, <2>3, <2>5 DEF OwnerInv, At
<1>6. CASE JoinExpire
  <2>1. owner'.pc = "join_vacuum" /\ owner.pc = "join_expire"
    BY <1>1, <1>6 DEF JoinExpire, Goes, Owner
  <2>2. owner'.deleting = owner.deleting /\ DOMAIN owner' = {"pc", "deleting"}
    BY <1>1, <1>6 DEF JoinExpire, Goes
  <2>3. UNCHANGED <<shards_cnt, shards, stop_sig, thr, thr_c_pool, late>>
    BY <1>6 DEF JoinExpire
  <2>4. At("expire", "exit")
    BY <1>6 DEF JoinExpire
  <2> QED
    BY <1>1, <2>1, <2>2, <2>3, <2>4 DEF OwnerInv, At
<1>7. CASE JoinVacuum
  <2>1. owner'.pc = "delete" /\ owner.pc = "join_vacuum"
    BY <1>1, <1>7 DEF JoinVacuum, Goes, Owner
  <2>2. owner'.deleting = owner.deleting /\ DOMAIN owner' = {"pc", "deleting"}
    BY <1>1, <1>7 DEF JoinVacuum, Goes
  <2>3. UNCHANGED <<shards_cnt, shards, stop_sig, thr, thr_c_pool, late>>
    BY <1>7 DEF JoinVacuum
  <2>4. At("vacuum", "exit")
    BY <1>7 DEF JoinVacuum
  <2> QED
    BY <1>1, <2>1, <2>2, <2>3, <2>4 DEF OwnerInv, At
<1>8. CASE DeleteShard
  <2>1. owner' = owner /\ owner.pc = "delete"
    BY <1>8 DEF DeleteShard, Owner
  <2>2. UNCHANGED <<shards_cnt, stop_sig, thr, thr_c_pool, late>>
    BY <1>8 DEF DeleteShard
  <2> QED
    BY <1>1, <2>1, <2>2 DEF OwnerInv, At
<1>9. CASE DeleteCounters
  <2>1. owner'.pc = "deleted" /\ owner.pc = "delete"
    BY <1>1, <1>9 DEF DeleteCounters, Goes, Owner
  <2>2. owner'.deleting = owner.deleting /\ DOMAIN owner' = {"pc", "deleting"}
    BY <1>1, <1>9 DEF DeleteCounters, Goes
  <2>3. UNCHANGED <<shards_cnt, shards, stop_sig, thr, thr_c_pool, late>>
    BY <1>9 DEF DeleteCounters
  <2> QED
    BY <1>1, <2>1, <2>2, <2>3 DEF OwnerInv, At
<1> QED
  BY <1>2, <1>3, <1>4, <1>5, <1>6, <1>7, <1>8, <1>9 DEF Own, Destroy

-----------------------------------------------------------------------------
(* The inductive invariant.                                                *)

BigInv == SupervisorsOK /\ SleepInv /\ StopInv /\ PoolInv /\ OwnerInv

LEMMA BigInvInit == BigInit => BigInv
<1> SUFFICES ASSUME BigInit PROVE BigInv
  OBVIOUS
<1> DEFINE t == [pc |-> "top", took |-> 0, skip |-> FALSE, since |-> 0, next |-> 0]
<1>1. t \in Thread /\ t.pc = "top" /\ t.next = 0
  BY BigCacheAssumption DEF Thread
<1>2. thr = [s \in Supervisors |-> t]
  BY DEF BigInit
<1> HIDE DEF t
<1>3. \A s \in Supervisors : thr[s] \in Thread /\ thr[s].pc = "top"
  BY <1>1, <1>2
<1>4. thr_c_pool = [s \in Supervisors |-> <<>>] /\ <<>> \in Seq(Child)
  BY DEF BigInit
<1>5. owner.pc = "free" /\ owner.deleting = FALSE /\ DOMAIN owner = {"pc", "deleting"}
  BY DEF BigInit
<1>6. SupervisorsOK
  BY <1>1, <1>2, <1>5 DEF BigInit, SupervisorsOK
<1>7. SleepInv /\ StopInv
  BY <1>3 DEF BigInit, SleepInv, StopInv, At
<1>8. PoolInv
  <2>1. \A s \in Supervisors : thr_c_pool[s] = <<>> /\ Children(s) = {}
    BY <1>4 DEF Children
  <2> QED
    BY <1>3, <1>4, <2>1 DEF PoolInv, At
<1>9. OwnerInv
  BY <1>5 DEF BigInit, OwnerInv
<1> QED
  BY <1>6, <1>7, <1>8, <1>9 DEF BigInv

(* A step of a supervisor.                                                 *)
LEMMA SupervisorKeeps ==
    ASSUME BigInv, NEW s \in Supervisors, Supervise(s)
    PROVE  BigInv'
<1> USE DEF BigInv
<1>1. /\ thr' \in [Supervisors -> Thread]
      /\ \A r \in Supervisors \ {s} : thr'[r] = thr[r]
      /\ UNCHANGED <<shards_cnt, shards, stop_sig, owner>>
  BY SuperviseStep
<1>2. late' = IF thr'[s].pc = "spawn" /\ At(s, "sleep") /\ stop_sig[s]
              THEN [late EXCEPT ![s] = @ + 1] ELSE late
  BY SuperviseStep
<1>3. \/ /\ At(s, "top") /\ thr'[s].pc = "sleep"
         /\ thr'[s].took <= Period[s]
      \/ At(s, "sleep") /\ thr'[s].pc = "top"
      \/ At(s, "sleep") /\ thr'[s].pc = "spawn"
      \/ At(s, "spawn") /\ thr'[s].pc = "spawn"
      \/ At(s, "spawn") /\ thr'[s].pc = "join"
      \/ At(s, "join") /\ thr'[s].pc = "join"
      \/ At(s, "join") /\ thr'[s].pc = (IF stop_sig[s] THEN "exit" ELSE "top")
  BY SuperviseStep
<1>4. late \in [Supervisors -> Nat] /\ late' \in [Supervisors -> Nat]
  BY <1>2 DEF SupervisorsOK
<1>5. SupervisorsOK'
  BY <1>1, <1>4 DEF SupervisorsOK
<1>6. SleepInv'
  BY <1>1, <1>3 DEF SleepInv, At
<1>7. StopInv'
  <2> SUFFICES ASSUME NEW r \in Supervisors
               PROVE  /\ ~stop_sig[r] => late'[r] = 0
                      /\ late'[r] <= 1
                      /\ thr'[r].pc \in {"top", "sleep"} => late'[r] = 0
    BY <1>1 DEF StopInv, At
  <2>1. /\ ~stop_sig[r] => late[r] = 0
        /\ late[r] <= 1
        /\ thr[r].pc \in {"top", "sleep"} => late[r] = 0
    BY DEF StopInv, At
  <2>2. CASE r # s
    BY <1>1, <1>2, <1>4, <2>1, <2>2
  <2>3. CASE r = s
    BY <1>2, <1>3, <1>4, <2>1, <2>3 DEF At
  <2> QED
    BY <2>2, <2>3
<1>8. OwnerInv'
  <2>1. \A r \in Supervisors : At(r, "exit") => At(r, "exit")'
    BY <1>1, <1>3 DEF At
  <2> QED
    BY <1>1, <2>1 DEF OwnerInv, Supervisors
<1>9. PoolInv'
  <2>1. shards_cnt \in Counts /\ Step' = Step /\ \A c : Part(c)' = Part(c)
    BY <1>1 DEF SupervisorsOK, Step, Part
  <2>2. thr_c_pool \in [Supervisors -> Seq(Child)]
    BY DEF PoolInv
  <2> DEFINE Fine(r) ==
        /\ thr'[r].pc \in {"top", "sleep", "exit"} => thr_c_pool'[r] = <<>>
        /\ thr'[r].pc = "spawn" => thr'[r].next = Len(thr_c_pool'[r]) * Step
        /\ \A c \in DOMAIN thr_c_pool'[r] :
              /\ {thr_c_pool'[r][c].todo[i] : i \in DOMAIN thr_c_pool'[r][c].todo} \subseteq Part(c)
              /\ c * Step <= shards_cnt
  <2>3. SUFFICES /\ thr_c_pool' \in [Supervisors -> Seq(Child)]
                 /\ \A r \in Supervisors : Fine(r)
    BY <1>1, <2>1 DEF PoolInv, At, Children, Todo
  <2>4. \A r \in Supervisors : /\ thr'[r] = thr[r]
                               /\ thr_c_pool'[r] = thr_c_pool[r]
                               => Fine(r)
    BY DEF PoolInv, At, Children, Todo
  <2>5. CASE /\ At(s, "spawn") /\ thr[s].next < shards_cnt
             /\ thr'[s].pc = "spawn" /\ thr'[s].next = thr[s].next + Step
             /\ \E child \in [stage : {"new"}, todo : {Group(thr[s].next), <<>>}] :
                   thr_c_pool' = [thr_c_pool EXCEPT ![s] = Append(thr_c_pool[s], child)]
    <3>1. PICK child \in [stage : {"new"}, todo : {Group(thr[s].next), <<>>}] :
                   thr_c_pool' = [thr_c_pool EXCEPT ![s] = Append(thr_c_pool[s], child)]
      BY <2>5
    <3> DEFINE n == Len(thr_c_pool[s])
               pool == Append(thr_c_pool[s], child)
    <3>2. thr_c_pool[s] \in Seq(Child) /\ n \in Nat /\ DOMAIN thr_c_pool[s] = 1..n
      BY <2>2, LenProperties
    <3>3. thr[s].next = n * Step
      BY <2>5 DEF PoolInv
    <3>4. (n + 1) * Step <= shards_cnt /\ (n + 1) * Step = n * Step + Step
      BY <2>1, <2>5, <3>2, <3>3, PartFits
    <3>5. /\ child \in Child
          /\ {child.todo[i] : i \in DOMAIN child.todo} \subseteq Part(n + 1)
      <4>1. /\ Group(n * Step) \in Seq(Nat) /\ <<>> \in Seq(Nat)
            /\ {Group(n * Step)[i] : i \in DOMAIN Group(n * Step)} \subseteq Part(n + 1)
        BY <2>1, <3>2, GroupType
      <4>2. child.todo \in {Group(n * Step), <<>>} /\ child.stage = "new"
        BY <3>3
      <4>3. child.todo \in Seq(Nat)
        BY <4>1, <4>2
      <4>4. child \in Child
        BY <4>2, <4>3 DEF Child
      <4>5. {child.todo[i] : i \in DOMAIN child.todo} \subseteq Part(n + 1)
        BY <4>1, <4>2
      <4> QED
        BY <4>4, <4>5
    <3>6. /\ pool \in Seq(Child) /\ Len(pool) = n + 1 /\ DOMAIN pool = 1..(n + 1)
          /\ \A c \in 1..n : pool[c] = thr_c_pool[s][c]
          /\ pool[n + 1] = child
      BY <3>2, <3>5, AppendProperties, LenProperties
    <3> HIDE DEF pool, n
    <3>7. thr_c_pool' = [thr_c_pool EXCEPT ![s] = pool]
      BY <3>1 DEF pool
    <3>8. /\ thr_c_pool' \in [Supervisors -> Seq(Child)] /\ thr_c_pool'[s] = pool
          /\ \A r \in Supervisors \ {s} : thr_c_pool'[r] = thr_c_pool[r]
      BY <2>2, <3>6, <3>7
    <3>9. \A c \in 1..(n + 1) :
            /\ {pool[c].todo[i] : i \in DOMAIN pool[c].todo} \subseteq Part(c)
            /\ c * Step <= shards_cnt
      <4>1. \A c \in 1..n : /\ Todo(s, c) \subseteq Part(c)
                            /\ c * Step <= shards_cnt
        BY <3>2 DEF PoolInv, Children
      <4>2. \A c \in 1..n : pool[c].todo = thr_c_pool[s][c].todo
        BY <3>6
      <4>3. \A c \in 1..(n + 1) : c \in 1..n \/ c = n + 1
        BY <3>2
      <4> QED
        BY <3>4, <3>5, <3>6, <4>1, <4>2, <4>3 DEF Todo
    <3>10. Fine(s)
      <4>1. thr'[s].next = Len(thr_c_pool'[s]) * Step
        BY <2>5, <3>3, <3>4, <3>6, <3>8
      <4> QED
        BY <2>5, <3>6, <3>8, <3>9, <4>1
    <3> QED
      BY <1>1, <2>4, <3>8, <3>10
  <2>6. CASE /\ thr_c_pool' = [thr_c_pool EXCEPT ![s] = <<>>]
             /\ thr'[s].pc \in {"top", "exit"}
    <3>1. /\ thr_c_pool' \in [Supervisors -> Seq(Child)] /\ thr_c_pool'[s] = <<>>
          /\ \A r \in Supervisors \ {s} : thr_c_pool'[r] = thr_c_pool[r]
      BY <2>2, <2>6
    <3>2. Fine(s)
      BY <2>6, <3>1
    <3> QED
      BY <1>1, <2>4, <3>1, <3>2
  <2>7. CASE /\ thr_c_pool' = thr_c_pool
             /\ \/ thr'[s].pc = "join"
                \/ At(s, "top") /\ thr'[s].pc = "sleep"
                \/ At(s, "sleep") /\ thr'[s].pc = "top"
                \/ At(s, "sleep") /\ thr'[s].pc = "spawn" /\ thr'[s].next = 0
    <3>1. \A c \in DOMAIN thr_c_pool'[s] :
            /\ {thr_c_pool'[s][c].todo[i] : i \in DOMAIN thr_c_pool'[s][c].todo} \subseteq Part(c)
            /\ c * Step <= shards_cnt
      BY <2>7 DEF PoolInv, Children, Todo
    <3>2. thr[s].pc \in {"top", "sleep"} => thr_c_pool'[s] = <<>> /\ Len(thr_c_pool'[s]) = 0
      BY <2>7 DEF PoolInv
    <3>3. 0 = 0 * Step
      BY <2>1, StepType
    <3>4. Fine(s)
      BY <2>7, <3>1, <3>2, <3>3 DEF At
    <3> QED
      BY <1>1, <2>2, <2>4, <2>7, <3>4
  <2> QED
    BY <2>5, <2>6, <2>7, PoolStep
<1> QED
  BY <1>5, <1>6, <1>7, <1>8, <1>9

(* A step of a child.                                                      *)
LEMMA ChildKeeps ==
    ASSUME BigInv, NEW s \in Supervisors, RunChild(s)
    PROVE  BigInv'
<1> USE DEF BigInv
<1>1. /\ thr_c_pool' \in [Supervisors -> Seq(Child)]
      /\ \A r \in Supervisors : Len(thr_c_pool'[r]) = Len(thr_c_pool[r])
      /\ \A r \in Supervisors : \A c \in DOMAIN thr_c_pool'[r] :
            c \in DOMAIN thr_c_pool[r] /\ Todo(r, c)' \subseteq Todo(r, c)
      /\ UNCHANGED <<shards_cnt, shards, stop_sig, thr, owner, late>>
  BY ChildStep
<1>2. SupervisorsOK' /\ SleepInv' /\ StopInv' /\ OwnerInv'
  BY <1>1 DEF SupervisorsOK, SleepInv, StopInv, OwnerInv, At
<1>3. PoolInv'
  <2>1. Step' = Step /\ \A c : Part(c)' = Part(c)
    BY <1>1 DEF Step, Part
  <2>2. \A r \in Supervisors : thr_c_pool[r] = <<>> => thr_c_pool'[r] = <<>>
    <3> SUFFICES ASSUME NEW r \in Supervisors, thr_c_pool[r] = <<>>
                 PROVE  thr_c_pool'[r] = <<>>
      OBVIOUS
    <3>1. thr_c_pool'[r] \in Seq(Child) /\ Len(thr_c_pool'[r]) = 0
      BY <1>1
    <3> QED
      BY <3>1, EmptySeq
  <2>3. \A r \in Supervisors : \A c \in Children(r)' :
          /\ Todo(r, c)' \subseteq Part(c)
          /\ c * Step <= shards_cnt
    BY <1>1 DEF PoolInv, Children
  <2> QED
    BY <1>1, <2>1, <2>2, <2>3 DEF PoolInv, At
<1> QED
  BY <1>2, <1>3

(* A step of the owner.                                                    *)
LEMMA OwnerKeeps == ASSUME BigInv, Own PROVE BigInv'
<1> USE DEF BigInv
<1>1. /\ UNCHANGED <<shards_cnt, thr, thr_c_pool, late>>
      /\ stop_sig' \in [Supervisors -> BOOLEAN]
      /\ \A s \in Supervisors : stop_sig[s] => stop_sig'[s]
  BY OwnerStep
<1>2. SupervisorsOK'
  BY <1>1, OwnerStep DEF SupervisorsOK
<1>3. SleepInv' /\ StopInv'
  BY <1>1 DEF SleepInv, StopInv, At
<1>4. PoolInv'
  BY <1>1 DEF PoolInv, At, Children, Todo, Part, Step
<1>5. OwnerInv'
  BY OwnerStep
<1> QED
  BY <1>2, <1>3, <1>4, <1>5

LEMMA BigInvStep == BigInv /\ [BigNext]_bigVars => BigInv'
<1> SUFFICES ASSUME BigInv, [BigNext]_bigVars PROVE BigInv'
  OBVIOUS
<1>1. CASE \E s \in Supervisors : Supervise(s) \/ RunChild(s)
  BY <1>1, SupervisorKeeps, ChildKeeps
<1>2. CASE CallFreeze \/ CallDelete \/ Destroy
  BY <1>2, OwnerKeeps DEF Own
<1>3. CASE UNCHANGED bigVars
  BY <1>3 DEF bigVars, BigInv, SupervisorsOK, SleepInv, StopInv, PoolInv, OwnerInv,
              At, Children, Todo, Part, Step
<1> QED
  BY <1>1, <1>2, <1>3 DEF BigNext

LEMMA BigInvariant == BigSpec => []BigInv
BY BigInvInit, BigInvStep, PTL DEF BigSpec

-----------------------------------------------------------------------------
(* The theorems.                                                           *)

(* A supervisor never sleeps longer than its period, however long a cycle  *)
(* took and however the clock was set back: expire_ctl, vacuum_ctl of       *)
(* bigcache.cpp subtract prev_took only when it is not above the period.   *)
THEOREM PausesAreBounded == BigSpec => []PauseWithinPeriod
<1>1. BigInv => PauseWithinPeriod
  <2> SUFFICES ASSUME BigInv, NEW s \in Supervisors, At(s, "sleep")
               PROVE  Pause(s) <= Period[s]
    BY DEF PauseWithinPeriod
  <2>1. thr[s].took <= Period[s] /\ thr[s].took \in 0..(Word - 1)
    BY DEF BigInv, SleepInv, SupervisorsOK, Thread
  <2>2. Period[s] \in 0..(Word - 1) /\ Word \in Nat
    BY PeriodType, BigCacheAssumption
  <2> QED
    BY <2>1, <2>2 DEF Pause, U64Sub
<1> QED
  BY <1>1, BigInvariant, PTL

(* After freeze, whenever it is called, a supervisor starts at most one    *)
(* more cycle: it reads its stop signal at the end of every cycle.         *)
THEOREM StopIsObeyed == BigSpec => []OneCycleAfterStop
<1>1. BigInv => OneCycleAfterStop
  BY DEF BigInv, StopInv, OneCycleAfterStop
<1> QED
  BY <1>1, BigInvariant, PTL

(* The parts of two children have no shard in common.                      *)
LEMMA PartsAreDisjoint ==
    ASSUME shards_cnt \in Counts, NEW c \in Nat \ {0}, NEW d \in Nat \ {0}, c # d
    PROVE  Part(c) \cap Part(d) = {}
<1> DEFINE st == Step
<1>1. st \in Nat \ {0}
  BY StepType
<1> HIDE DEF st
<1>2. \A a, b \in Nat \ {0} : a < b => a * st <= (b - 1) * st
  <2> SUFFICES ASSUME NEW a \in Nat \ {0}, NEW b \in Nat \ {0}, a < b
               PROVE  a * st <= (b - 1) * st
    OBVIOUS
  <2>1. a <= b - 1 /\ b - 1 \in Nat
    OBVIOUS
  <2> QED
    BY <1>1, <2>1
<1>3. \A a, b \in Nat \ {0} : a < b =>
         (((a - 1) * st) .. (a * st - 1)) \cap (((b - 1) * st) .. (b * st - 1)) = {}
  <2> SUFFICES ASSUME NEW a \in Nat \ {0}, NEW b \in Nat \ {0}, a < b,
                      NEW i \in ((a - 1) * st) .. (a * st - 1),
                      i \in ((b - 1) * st) .. (b * st - 1)
               PROVE  FALSE
    OBVIOUS
  <2> DEFINE x == a * st
             y == (b - 1) * st
  <2>1. x \in Int /\ y \in Int /\ x <= y
    BY <1>1, <1>2
  <2>2. i \in Int /\ i <= x - 1 /\ y <= i
    OBVIOUS
  <2> HIDE DEF x, y
  <2> QED
    BY <2>1, <2>2
<1>4. c < d \/ d < c
  OBVIOUS
<1> QED
  BY <1>3, <1>4 DEF Part, st

(* The children of the expiration's cycle have no shard in common.         *)
LEMMA ChildrenShareNothing ==
    ASSUME BigInv, NEW c \in Children("expire"), NEW d \in Children("expire"), c # d
    PROVE  Todo("expire", c) \cap Todo("expire", d) = {}
<1>1. "expire" \in Supervisors /\ thr_c_pool["expire"] \in Seq(Child)
  BY DEF Supervisors, BigInv, PoolInv
<1>2. c \in Nat \ {0} /\ d \in Nat \ {0}
  BY <1>1, LenProperties DEF Children
<1>3. Todo("expire", c) \subseteq Part(c) /\ Todo("expire", d) \subseteq Part(d)
  BY <1>1 DEF BigInv, PoolInv
<1>4. Part(c) \cap Part(d) = {}
  BY <1>2, PartsAreDisjoint DEF BigInv, SupervisorsOK
<1> QED
  BY <1>3, <1>4

(* The destructor deletes no shard that a child still has to sweep, and    *)
(* the counters only after the last child has ended: it joins the two      *)
(* supervisors first, and a supervisor ends with no child running.         *)
THEOREM NothingIsDeletedInUse == BigSpec => []NothingDeletedInUse
<1>1. BigInv => NothingDeletedInUse
  <2> SUFFICES ASSUME BigInv, NEW s \in Supervisors, NEW c \in Children(s)
               PROVE  owner.pc # "deleted" /\ Todo(s, c) \subseteq shards
    BY DEF NothingDeletedInUse
  <2>1. thr_c_pool[s] \in Seq(Child) /\ thr_c_pool[s] # <<>> /\ c \in Nat \ {0}
    BY LenProperties DEF BigInv, PoolInv, Children
  <2>2. ~At(s, "exit")
    BY <2>1 DEF BigInv, PoolInv, At
  <2>3. owner.pc \notin {"delete", "deleted"}
    BY <2>2 DEF BigInv, OwnerInv, Supervisors
  <2>4. shards = 0..(shards_cnt - 1)
    BY <2>3 DEF BigInv, OwnerInv
  <2>5. Todo(s, c) \subseteq Part(c) /\ c * Step <= shards_cnt
    BY DEF BigInv, PoolInv
  <2>6. Part(c) \subseteq 0..(shards_cnt - 1)
    <3> DEFINE x == c * Step
               y == (c - 1) * Step
    <3>1. shards_cnt \in Nat /\ Step \in Nat
      BY StepType, BigCacheAssumption DEF BigInv, SupervisorsOK
    <3>2. x \in Nat /\ y \in Nat /\ x <= shards_cnt
      <4>1. c - 1 \in Nat
        BY <2>1
      <4> QED
        BY <2>1, <2>5, <3>1, <4>1
    <3>3. Part(c) = y .. (x - 1)
      BY DEF Part
    <3> HIDE DEF x, y
    <3> QED
      BY <3>1, <3>2, <3>3
  <2> QED
    BY <2>3, <2>4, <2>5, <2>6
<1> QED
  BY <1>1, BigInvariant, PTL
=============================================================================
