----------------------------- MODULE HartsProof -----------------------------
(***************************************************************************)
(* Proofs about Harts, for every number of harts.  The counters are        *)
(* compared with numbers of harts: Moved says how one instruction changes  *)
(* such a number.                                                          *)
(***************************************************************************)
EXTENDS Harts, FiniteSetTheorems, TLAPS

(* Hart h goes to label l, seen from the harts that are in L. *)
MovedTo(L, h, l) ==
  /\ At(L)' = IF l \in L THEN At(L) \cup {h} ELSE At(L) \ {h}
  /\ Cardinality(At(L)) \in Nat
  /\ Cardinality(At(L)') = Cardinality(At(L)) + (IF l \in L THEN 1 ELSE 0)
                             - (IF pc[h] \in L THEN 1 ELSE 0)

Moves(h, l) ==
  /\ MovedTo(ArrivedM, h, l) /\ MovedTo(ArrivedS, h, l)
  /\ MovedTo(Holding3, h, l) /\ MovedTo(Holding5, h, l)

(* There are N harts. *)
LEMMA HartCount == IsFiniteSet(Hart) /\ Cardinality(Hart) = N /\ 0 \in Hart
<1>1. 0 \in Int /\ N - 1 \in Int /\ ~(0 > N - 1) /\ N - 1 - 0 + 1 = N
  BY HartsAssumption
<1> QED
  BY <1>1, FS_Interval DEF Hart

(* The harts that are in L are finitely many. *)
LEMMA AtFinite ==
  ASSUME NEW L
  PROVE  IsFiniteSet(At(L)) /\ Cardinality(At(L)) \in Nat
<1> USE Zenon
<1>1. At(L) \in SUBSET Hart
  BY DEF At
<1> QED
  BY <1>1, HartCount, FS_Subset, FS_CardinalityType

(* One hart moves: a set of labels gains it, loses it, or neither. *)
LEMMA Moved ==
  ASSUME NEW h \in Hart, NEW l \in Label, NEW L,
         pc \in [Hart -> Label], pc' = [pc EXCEPT ![h] = l]
  PROVE  MovedTo(L, h, l)
<1> USE Zenon
<1>1. At(L)' = IF l \in L THEN At(L) \cup {h} ELSE At(L) \ {h}
  BY DEF At
<1>2. h \in At(L) <=> pc[h] \in L
  BY DEF At
<1>3. IsFiniteSet(At(L)) /\ Cardinality(At(L)) \in Nat
  BY AtFinite
<1>4. Cardinality(At(L) \cup {h}) = IF h \in At(L) THEN Cardinality(At(L)) ELSE Cardinality(At(L)) + 1
  BY <1>3, FS_AddElement
<1>5. Cardinality(At(L) \ {h}) = IF h \in At(L) THEN Cardinality(At(L)) - 1 ELSE Cardinality(At(L))
  BY <1>3, FS_RemoveElement
<1> QED
  BY SMT, <1>1, <1>2, <1>3, <1>4, <1>5 DEF MovedTo

(* A hart that goes on to a label is there, and nobody else moves. *)
LEMMA AllMoved ==
  ASSUME NEW h \in Hart, NEW l \in Label,
         pc \in [Hart -> Label], pc' = [pc EXCEPT ![h] = l]
  PROVE  Moves(h, l)
<1> QED
  BY Zenon, Moved DEF Moves

(* As many harts as there are: all of them. *)
LEMMA Full ==
  ASSUME NEW S \in SUBSET Hart, Cardinality(S) >= N
  PROVE  S = Hart
<1>1. Cardinality(S) <= N /\ Cardinality(S) \in Nat
  BY Zenon, HartCount, FS_Subset, FS_CardinalityType
<1>2. Cardinality(S) = N
  BY <1>1, HartsAssumption
<1> QED
  BY Zenon, <1>2, HartCount, FS_Subset

(* A hart that does not go back keeps a full barrier full, and it may leave *)
(* a barrier that is full.                                                  *)
LEMMA ArrivedKept ==
  ASSUME NEW h \in Hart, NEW l \in Label, ControlOK, AllArrived,
         pc' = [pc EXCEPT ![h] = l], Moves(h, l),
         pc[h] \in ArrivedM => l \in ArrivedM,
         pc[h] \in ArrivedS => l \in ArrivedS,
         l \in LeftM => (pc[h] \in LeftM \/ At(ArrivedM)' = Hart),
         l \in LeftS => (pc[h] \in LeftS \/ At(ArrivedS)' = Hart)
  PROVE  AllArrived'
<1> USE Zenon
<1>1. At(ArrivedM) = Hart => At(ArrivedM)' = Hart
  BY DEF Moves, MovedTo, At
<1>2. At(ArrivedS) = Hart => At(ArrivedS)' = Hart
  BY DEF Moves, MovedTo, At
<1>3. ASSUME NEW g \in Hart
      PROVE  /\ pc'[g] \in LeftM => At(ArrivedM)' = Hart
             /\ pc'[g] \in LeftS => At(ArrivedS)' = Hart
  <2>1. pc'[g] = IF g = h THEN l ELSE pc[g]
    BY DEF ControlOK
  <2>2. /\ pc[g] \in LeftM => At(ArrivedM) = Hart
        /\ pc[g] \in LeftS => At(ArrivedS) = Hart
    BY DEF AllArrived
  <2> QED
    BY <1>1, <1>2, <2>1, <2>2
<1> QED
  BY <1>3 DEF AllArrived

-----------------------------------------------------------------------------
(* An instruction takes hart h to label l, in step with the counters: this *)
(* is all the invariant needs to know of it.                               *)

In(l, L) == IF l \in L THEN 1 ELSE 0

InStep(h, l) ==
  /\ l \in Label
  /\ pc' = [pc EXCEPT ![h] = l]
  /\ count' = count + In(l, ArrivedM) - In(pc[h], ArrivedM)
  /\ barrier' = barrier + In(l, ArrivedS) - In(pc[h], ArrivedS)
  /\ count_3' = count_3 - In(l, Holding3) + In(pc[h], Holding3)
  /\ count_5' = count_5 - In(l, Holding5) + In(pc[h], Holding5)

Forward(h, l) ==
  /\ pc[h] \in ArrivedM => l \in ArrivedM
  /\ pc[h] \in ArrivedS => l \in ArrivedS
  /\ pc[h] \in LeftM => l \in LeftM
  /\ pc[h] \in LeftS => l \in LeftS
  /\ l \in LeftM => (pc[h] \in LeftM \/ count' >= N)
  /\ l \in LeftS => (pc[h] \in LeftS \/ barrier' >= N)

\* What hart 0 has set up by the time it reaches l.
Ready(h, l) ==
  /\ up \subseteq up'
  /\ h = 0 /\ l # "m_start" => "host" \in up'
  /\ h = 0 /\ l \in LeftM \ {"s_start"} => "kernel" \in up'

(* Such an instruction preserves the invariant. *)
LEMMA Kept ==
  ASSUME IInv, NEW h \in Hart, NEW l, ControlOK', InStep(h, l), Forward(h, l), Ready(h, l)
  PROVE  IInv'
<1> USE Zenon
<1>0. l \in Label /\ pc \in [Hart -> Label] /\ pc' = [pc EXCEPT ![h] = l]
  BY DEF InStep, IInv, ControlOK
<1>1. Moves(h, l)
  BY <1>0, AllMoved
<1>2. Counted'
  BY <1>1 DEF IInv, Counted, Moves, MovedTo, InStep, In
<1>3. SemBalance'
  BY SMT, <1>1 DEF IInv, SemBalance, Moves, MovedTo, InStep, In
<1>4. ASSUME count' >= N PROVE At(ArrivedM)' = Hart
  <2>1. At(ArrivedM)' \in SUBSET Hart /\ Cardinality(At(ArrivedM)') >= N
    BY <1>2, <1>4 DEF Counted, At
  <2> QED
    BY <2>1, Full
<1>5. ASSUME barrier' >= N PROVE At(ArrivedS)' = Hart
  <2>1. At(ArrivedS)' \in SUBSET Hart /\ Cardinality(At(ArrivedS)') >= N
    BY <1>2, <1>5 DEF Counted, At
  <2> QED
    BY <2>1, Full
<1>6. AllArrived'
  BY <1>0, <1>1, <1>4, <1>5, ArrivedKept DEF IInv, Forward
<1>7. WorkDone'
  <2>1. pc'[0] = IF h = 0 THEN l ELSE pc[0]
    BY <1>0, HartCount
  <2> QED
    BY <2>1 DEF IInv, WorkDone, Ready
<1> QED
  BY <1>2, <1>3, <1>6, <1>7 DEF IInv

-----------------------------------------------------------------------------
(* The instructions, one by one. *)
LEMMA StepShape ==
  ASSUME IInv, NEW h \in Hart, Step(h)
  PROVE  ControlOK' /\ \E l : InStep(h, l) /\ Forward(h, l) /\ Ready(h, l)
<1> USE Zenon
<1> USE DEF Label, ArrivedM, LeftM, ArrivedS, LeftS, Holding3, Holding5, In, Goto,
            sync, pages, queue
<1>0. ControlOK /\ WorkDone /\ Counted
  BY DEF IInv
<1>1. CASE MStart(h)
  <2>1. ControlOK'
    BY <1>0, <1>1, HartsAssumption DEF ControlOK, MStart
  <2>2. InStep(h, "m_add") /\ Forward(h, "m_add") /\ Ready(h, "m_add")
    BY SMT, <1>0, <1>1 DEF ControlOK, WorkDone, InStep, Forward, Ready, MStart
  <2> QED
    BY <2>1, <2>2
<1>2. CASE MAdd(h)
  <2>1. ControlOK'
    BY SMT, <1>0, <1>2, HartsAssumption DEF ControlOK, MAdd, AfterAdd
  <2>2. CASE count + 1 < N
    <3>1. InStep(h, "m_spin") /\ Forward(h, "m_spin") /\ Ready(h, "m_spin")
      BY SMT, <1>0, <1>2, <2>2 DEF ControlOK, WorkDone, InStep, Forward, Ready, MAdd, AfterAdd
    <3> QED
      BY <2>1, <3>1
  <2>3. CASE ~(count + 1 < N)
    <3>1. InStep(h, "s_start") /\ Forward(h, "s_start") /\ Ready(h, "s_start")
      BY SMT, <1>0, <1>2, <2>3, HartsAssumption
      DEF ControlOK, WorkDone, InStep, Forward, Ready, MAdd, AfterAdd
    <3> QED
      BY <2>1, <3>1
  <2> QED
    BY <2>2, <2>3
<1>3. CASE MSpin(h)
  <2>1. ControlOK'
    BY <1>0, <1>3, HartsAssumption DEF ControlOK, MSpin, SpinEnds
  <2>2. InStep(h, "s_start") /\ Forward(h, "s_start") /\ Ready(h, "s_start")
    BY SMT, <1>0, <1>3 DEF ControlOK, WorkDone, InStep, Forward, Ready, MSpin, SpinEnds
  <2> QED
    BY <2>1, <2>2
<1>4. CASE SStart(h)
  <2>1. ControlOK'
    BY <1>0, <1>4, HartsAssumption DEF ControlOK, SStart
  <2>2. InStep(h, "s_add") /\ Forward(h, "s_add") /\ Ready(h, "s_add")
    BY SMT, <1>0, <1>4 DEF ControlOK, WorkDone, InStep, Forward, Ready, SStart
  <2> QED
    BY <2>1, <2>2
<1>5. CASE SAdd(h)
  <2>1. ControlOK'
    BY SMT, <1>0, <1>5, HartsAssumption DEF ControlOK, SAdd, AfterAdd
  <2>2. CASE barrier + 1 < N
    <3>1. InStep(h, "s_spin") /\ Forward(h, "s_spin") /\ Ready(h, "s_spin")
      BY SMT, <1>0, <1>5, <2>2 DEF ControlOK, WorkDone, InStep, Forward, Ready, SAdd, AfterAdd
    <3> QED
      BY <2>1, <3>1
  <2>3. CASE ~(barrier + 1 < N)
    <3>1. InStep(h, "P3") /\ Forward(h, "P3") /\ Ready(h, "P3")
      BY SMT, <1>0, <1>5, <2>3, HartsAssumption
      DEF ControlOK, WorkDone, InStep, Forward, Ready, SAdd, AfterAdd
    <3> QED
      BY <2>1, <3>1
  <2> QED
    BY <2>2, <2>3
<1>6. CASE SSpin(h)
  <2>1. ControlOK'
    BY <1>0, <1>6, HartsAssumption DEF ControlOK, SSpin, SpinEnds
  <2>2. InStep(h, "P3") /\ Forward(h, "P3") /\ Ready(h, "P3")
    BY SMT, <1>0, <1>6 DEF ControlOK, WorkDone, InStep, Forward, Ready, SSpin, SpinEnds
  <2> QED
    BY <2>1, <2>2
<1>7. CASE P3(h)
  <2>1. ControlOK'
    BY <1>0, <1>7, HartsAssumption DEF ControlOK, P3
  <2>2. InStep(h, "sub3") /\ Forward(h, "sub3") /\ Ready(h, "sub3")
    BY SMT, <1>0, <1>7 DEF ControlOK, WorkDone, InStep, Forward, Ready, P3
  <2> QED
    BY <2>1, <2>2
<1>8. CASE Sub3(h)
  <2>1. ControlOK'
    BY SMT, <1>0, <1>8, HartsAssumption DEF ControlOK, Sub3
  <2>2. InStep(h, "search") /\ Forward(h, "search") /\ Ready(h, "search")
    BY SMT, <1>0, <1>8 DEF ControlOK, WorkDone, InStep, Forward, Ready, Sub3
  <2> QED
    BY <2>1, <2>2
<1>9. CASE Search(h)
  <2>1. ControlOK'
    BY <1>0, <1>9, HartsAssumption DEF ControlOK, Search
  <2>2. InStep(h, "P5") /\ Forward(h, "P5") /\ Ready(h, "P5")
    BY SMT, <1>0, <1>9 DEF ControlOK, WorkDone, InStep, Forward, Ready, Search
  <2> QED
    BY <2>1, <2>2
<1>10. CASE P5(h, "P5", "sub5")
  <2>1. ControlOK'
    BY <1>0, <1>10, HartsAssumption DEF ControlOK, P5
  <2>2. InStep(h, "sub5") /\ Forward(h, "sub5") /\ Ready(h, "sub5")
    BY SMT, <1>0, <1>10 DEF ControlOK, WorkDone, InStep, Forward, Ready, P5
  <2> QED
    BY <2>1, <2>2
<1>11. CASE Sub5(h, "sub5", "take")
  <2>1. ControlOK'
    BY SMT, <1>0, <1>11, HartsAssumption DEF ControlOK, Sub5
  <2>2. InStep(h, "take") /\ Forward(h, "take") /\ Ready(h, "take")
    BY SMT, <1>0, <1>11 DEF ControlOK, WorkDone, InStep, Forward, Ready, Sub5
  <2> QED
    BY <2>1, <2>2
<1>12. CASE Take(h, "take", "put")
  <2>1. ControlOK'
    BY <1>0, <1>12, HartsAssumption DEF ControlOK, Take
  <2>2. InStep(h, "put") /\ Forward(h, "put") /\ Ready(h, "put")
    BY SMT, <1>0, <1>12 DEF ControlOK, WorkDone, InStep, Forward, Ready, Take
  <2> QED
    BY <2>1, <2>2
<1>13. CASE Put(h, "put", "V5")
  <2>1. ControlOK'
    <3>1. page[h] + 1 \in 0 .. Pages + Image
      BY SMT, <1>0, <1>13, HartsAssumption DEF ControlOK, Put
    <3>2. page' \in [Hart -> 0 .. Pages + Image]
      BY <1>0, <1>13, <3>1 DEF ControlOK, Put
    <3> QED
      BY SMT, <1>0, <1>13, <3>2, HartsAssumption DEF ControlOK, Put
  <2>2. InStep(h, "V5") /\ Forward(h, "V5") /\ Ready(h, "V5")
    BY SMT, <1>0, <1>13 DEF ControlOK, WorkDone, InStep, Forward, Ready, Put
  <2> QED
    BY <2>1, <2>2
<1>14. CASE V5(h, "V5", "P5", "mark", Pages)
  <2>1. ControlOK'
    BY SMT, <1>0, <1>14, HartsAssumption DEF ControlOK, V5
  <2>2. CASE page[h] < Pages
    <3>1. InStep(h, "P5") /\ Forward(h, "P5") /\ Ready(h, "P5")
      BY SMT, <1>0, <1>14, <2>2 DEF ControlOK, WorkDone, InStep, Forward, Ready, V5
    <3> QED
      BY <2>1, <3>1
  <2>3. CASE ~(page[h] < Pages)
    <3>1. InStep(h, "mark") /\ Forward(h, "mark") /\ Ready(h, "mark")
      BY SMT, <1>0, <1>14, <2>3, HartsAssumption
      DEF ControlOK, WorkDone, InStep, Forward, Ready, V5
    <3> QED
      BY <2>1, <3>1
  <2> QED
    BY <2>2, <2>3
<1>15. CASE Mark(h)
  <2>1. ControlOK'
    BY <1>0, <1>15, HartsAssumption DEF ControlOK, Mark
  <2>2. InStep(h, "V3") /\ Forward(h, "V3") /\ Ready(h, "V3")
    BY SMT, <1>0, <1>15 DEF ControlOK, WorkDone, InStep, Forward, Ready, Mark
  <2> QED
    BY <2>1, <2>2
<1>16. CASE V3(h)
  <2>1. ControlOK'
    BY SMT, <1>0, <1>16, HartsAssumption DEF ControlOK, V3
  <2>2. InStep(h, "load") /\ Forward(h, "load") /\ Ready(h, "load")
    BY SMT, <1>0, <1>16 DEF ControlOK, WorkDone, InStep, Forward, Ready, V3
  <2> QED
    BY <2>1, <2>2
<1>17. CASE P5(h, "load", "load_sub")
  <2>1. ControlOK'
    BY <1>0, <1>17, HartsAssumption DEF ControlOK, P5
  <2>2. InStep(h, "load_sub") /\ Forward(h, "load_sub") /\ Ready(h, "load_sub")
    BY SMT, <1>0, <1>17 DEF ControlOK, WorkDone, InStep, Forward, Ready, P5
  <2> QED
    BY <2>1, <2>2
<1>18. CASE Sub5(h, "load_sub", "load_take")
  <2>1. ControlOK'
    BY SMT, <1>0, <1>18, HartsAssumption DEF ControlOK, Sub5
  <2>2. InStep(h, "load_take") /\ Forward(h, "load_take") /\ Ready(h, "load_take")
    BY SMT, <1>0, <1>18 DEF ControlOK, WorkDone, InStep, Forward, Ready, Sub5
  <2> QED
    BY <2>1, <2>2
<1>19. CASE Take(h, "load_take", "load_put")
  <2>1. ControlOK'
    BY <1>0, <1>19, HartsAssumption DEF ControlOK, Take
  <2>2. InStep(h, "load_put") /\ Forward(h, "load_put") /\ Ready(h, "load_put")
    BY SMT, <1>0, <1>19 DEF ControlOK, WorkDone, InStep, Forward, Ready, Take
  <2> QED
    BY <2>1, <2>2
<1>20. CASE Put(h, "load_put", "load_V")
  <2>1. ControlOK'
    <3>1. page[h] + 1 \in 0 .. Pages + Image
      BY SMT, <1>0, <1>20, HartsAssumption DEF ControlOK, Put
    <3>2. page' \in [Hart -> 0 .. Pages + Image]
      BY <1>0, <1>20, <3>1 DEF ControlOK, Put
    <3> QED
      BY SMT, <1>0, <1>20, <3>2, HartsAssumption DEF ControlOK, Put
  <2>2. InStep(h, "load_V") /\ Forward(h, "load_V") /\ Ready(h, "load_V")
    BY SMT, <1>0, <1>20 DEF ControlOK, WorkDone, InStep, Forward, Ready, Put
  <2> QED
    BY <2>1, <2>2
<1>21. CASE V5(h, "load_V", "load", "insert", Pages + Image)
  <2>1. ControlOK'
    BY SMT, <1>0, <1>21, HartsAssumption DEF ControlOK, V5
  <2>2. CASE page[h] < Pages + Image
    <3>1. InStep(h, "load") /\ Forward(h, "load") /\ Ready(h, "load")
      BY SMT, <1>0, <1>21, <2>2 DEF ControlOK, WorkDone, InStep, Forward, Ready, V5
    <3> QED
      BY <2>1, <3>1
  <2>3. CASE ~(page[h] < Pages + Image)
    <3>1. InStep(h, "insert") /\ Forward(h, "insert") /\ Ready(h, "insert")
      BY SMT, <1>0, <1>21, <2>3, HartsAssumption
      DEF ControlOK, WorkDone, InStep, Forward, Ready, V5
    <3> QED
      BY <2>1, <3>1
  <2> QED
    BY <2>2, <2>3
<1>22. CASE Insert(h)
  <2>1. ControlOK'
    BY SMT, <1>0, <1>22, HartsAssumption DEF ControlOK, Insert
  <2>2. CASE proc[h] \in InQueue
    <3>1. InStep(h, "schedule") /\ Forward(h, "schedule") /\ Ready(h, "schedule")
      BY SMT, <1>0, <1>22, <2>2 DEF ControlOK, WorkDone, InStep, Forward, Ready, Insert
    <3> QED
      BY <2>1, <3>1
  <2>3. CASE ~(proc[h] \in InQueue)
    <3>1. InStep(h, "link") /\ Forward(h, "link") /\ Ready(h, "link")
      BY SMT, <1>0, <1>22, <2>3, HartsAssumption
      DEF ControlOK, WorkDone, InStep, Forward, Ready, Insert
    <3> QED
      BY <2>1, <3>1
  <2> QED
    BY <2>2, <2>3
<1>23. CASE LinkIn(h)
  <2>1. ControlOK'
    BY <1>0, <1>23, HartsAssumption DEF ControlOK, LinkIn
  <2>2. InStep(h, "schedule") /\ Forward(h, "schedule") /\ Ready(h, "schedule")
    BY SMT, <1>0, <1>23 DEF ControlOK, WorkDone, InStep, Forward, Ready, LinkIn
  <2> QED
    BY <2>1, <2>2
<1>24. CASE Schedule(h)
  <2>1. ControlOK'
    BY <1>0, <1>24, HartsAssumption DEF ControlOK, Schedule
  <2>2. InStep(h, "pop") /\ Forward(h, "pop") /\ Ready(h, "pop")
    BY SMT, <1>0, <1>24 DEF ControlOK, WorkDone, InStep, Forward, Ready, Schedule
  <2> QED
    BY <2>1, <2>2
<1>25. CASE Pop(h)
  <2>1. ControlOK'
    BY <1>0, <1>25, HartsAssumption DEF ControlOK, Pop
  <2>2. InStep(h, "user") /\ Forward(h, "user") /\ Ready(h, "user")
    BY SMT, <1>0, <1>25 DEF ControlOK, WorkDone, InStep, Forward, Ready, Pop
  <2> QED
    BY <2>1, <2>2
<1> QED
  BY <1>1, <1>2, <1>3, <1>4, <1>5, <1>6, <1>7, <1>8, <1>9, <1>10, <1>11,
     <1>12, <1>13, <1>14, <1>15, <1>16, <1>17, <1>18, <1>19, <1>20, <1>21,
     <1>22, <1>23, <1>24, <1>25
  DEF Step, Instruction, AllocProcess, LoadElf

LEMMA InductiveStep ==
  ASSUME IInv, NEW h \in Hart, Step(h)
  PROVE  IInv'
<1> QED
  BY Zenon, StepShape, Kept

(* The invariant holds when the harts start. *)
LEMMA Initially == Init => IInv
<1> USE Zenon
<1> SUFFICES ASSUME Init PROVE IInv
  OBVIOUS
<1> USE DEF Init
<1>1. At(ArrivedM) = {} /\ At(ArrivedS) = {} /\ At(Holding3) = {} /\ At(Holding5) = {}
  BY DEF At, Label, ArrivedM, ArrivedS, LeftM, Holding3, Holding5
<1>2. Counted /\ SemBalance
  BY SMT, <1>1, FS_EmptySet DEF Counted, SemBalance
<1>3. ControlOK
  BY SMT, HartsAssumption DEF ControlOK, Label
<1>4. AllArrived /\ WorkDone
  BY HartCount DEF AllArrived, WorkDone, LeftM, LeftS, ArrivedM, ArrivedS, Label
<1> QED
  BY <1>2, <1>3, <1>4 DEF IInv

(* The invariant is about the variables only. *)
LEMMA NothingMoves == IInv /\ UNCHANGED vars => IInv'
<1> QED
  BY Zenon DEF IInv, ControlOK, Counted, AllArrived, WorkDone, SemBalance, At, vars, sync, pages

(* Every step of the machine preserves it. *)
LEMMA Inductive == IInv /\ [Next]_vars => IInv'
<1> QED
  BY Zenon, InductiveStep, NothingMoves DEF Next

(* Whatever the number of harts, no instruction of m_start, s_start or     *)
(* alloc_process breaks the invariant that ties the counters of            *)
(* sync_utils.h to where the harts are.                                    *)
THEOREM Invariance == Spec => []IInv
<1> QED
  BY Initially, Inductive, PTL DEF Spec

(* No hart runs ahead of the initialisation that hart 0 does before the    *)
(* barriers of m_start and s_start.                                        *)
THEOREM BootInOrder == Spec => []BootOrder
<1>1. IInv => BootOrder
  <2> SUFFICES ASSUME IInv, NEW h \in Hart
               PROVE  /\ pc[h] \in LeftM => "host" \in up
                      /\ pc[h] \in LeftS => "kernel" \in up
    BY Zenon DEF BootOrder
  <2>1. ASSUME pc[h] \in LeftM PROVE "host" \in up
    <3>1. 0 \in At(ArrivedM)
      BY Zenon, <2>1, HartCount DEF IInv, AllArrived
    <3> QED
      BY Zenon, <3>1 DEF IInv, WorkDone, At, ArrivedM
  <2>2. ASSUME pc[h] \in LeftS PROVE "kernel" \in up
    <3>1. 0 \in At(ArrivedS)
      BY Zenon, <2>2, HartCount DEF IInv, AllArrived
    <3> QED
      BY Zenon, <3>1 DEF IInv, WorkDone, At, ArrivedS
  <2> QED
    BY Zenon, <2>1, <2>2
<1> QED
  BY <1>1, Invariance, PTL

(* sem_P and sem_V of alloc_process and alloc_page are balanced on every   *)
(* path, and in every interleaving of their loads and additions.           *)
THEOREM SemaphoresBalanced == Spec => []SemBalance
<1>1. IInv => SemBalance
  BY Zenon DEF IInv
<1> QED
  BY <1>1, Invariance, PTL

-----------------------------------------------------------------------------
(* The barriers *)

(* The step of a barrier at which the harts in A have arrived and those in *)
(* L have left.                                                            *)
BarrierStep(A, L) ==
  \E h \in Hart :
    \/ h \notin At(A) /\ At(A)' = At(A) \cup {h} /\ At(L)' = At(L)
    \/ h \notin At(L) /\ At(A) = Hart /\ At(L)' = At(L) \cup {h} /\ At(A)' = At(A)
    \/ h \notin At(A) /\ At(A)' = At(A) \cup {h} /\ At(A)' = Hart /\ At(L)' = At(L) \cup {h}

(* A hart that moves forward takes such a step, or none. *)
LEMMA MovesAtBarrier ==
  ASSUME NEW h \in Hart, NEW l \in Label, NEW A, NEW L \in SUBSET A,
         pc \in [Hart -> Label], pc' = [pc EXCEPT ![h] = l],
         pc[h] \in A => l \in A, pc[h] \in L => l \in L,
         l \in L => At(A)' = Hart
  PROVE  BarrierStep(A, L) \/ (At(A)' = At(A) /\ At(L)' = At(L))
<1> USE Zenon
<1>0. MovedTo(A, h, l) /\ MovedTo(L, h, l)
  BY Moved
<1>1. /\ At(A)' = IF l \in A THEN At(A) \cup {h} ELSE At(A) \ {h}
      /\ At(L)' = IF l \in L THEN At(L) \cup {h} ELSE At(L) \ {h}
  BY <1>0 DEF MovedTo
<1>2. (h \in At(A) <=> pc[h] \in A) /\ (h \in At(L) <=> pc[h] \in L)
  BY DEF At
<1>3. CASE l \notin A
  <2>1. At(A)' = At(A) /\ At(L)' = At(L)
    BY <1>1, <1>2, <1>3
  <2> QED
    BY <2>1
<1>4. CASE l \in A /\ l \notin L
  <2>1. At(L)' = At(L)
    BY <1>1, <1>2, <1>4
  <2>2. At(A)' = At(A) \cup {h}
    BY <1>1, <1>4
  <2> QED
    BY <2>1, <2>2 DEF BarrierStep
<1>5. CASE l \in L
  <2>1. At(A)' = At(A) \cup {h} /\ At(L)' = At(L) \cup {h} /\ At(A)' = Hart
    BY <1>1, <1>5
  <2>2. CASE h \notin At(A)
    BY <2>1, <2>2 DEF BarrierStep
  <2>3. CASE h \in At(A)
    <3>1. At(A) = Hart /\ At(A)' = At(A)
      BY <2>1, <2>3
    <3> QED
      BY <2>1, <3>1 DEF BarrierStep
  <2> QED
    BY <2>2, <2>3
<1> QED
  BY <1>3, <1>4, <1>5

(* sync_barrier, in m_start and in s_start, implements the barrier: the    *)
(* harts that have passed its amoadd and those that have passed its loop   *)
(* change as a barrier allows, for every number of harts.                  *)
THEOREM BarriersImplemented == Spec => ImplementsBarriers
<1>1. Init => MBarrier!Init /\ SBarrier!Init
  BY Zenon DEF Init, MBarrier!Init, SBarrier!Init, At, Label, ArrivedM, LeftM, ArrivedS, LeftS
<1>2. ASSUME IInv, IInv', [Next]_vars
      PROVE  /\ MBarrier!Next \/ (At(ArrivedM)' = At(ArrivedM) /\ At(LeftM)' = At(LeftM))
             /\ SBarrier!Next \/ (At(ArrivedS)' = At(ArrivedS) /\ At(LeftS)' = At(LeftS))
  <2>1. CASE UNCHANGED vars
    BY Zenon, <2>1 DEF vars, At
  <2>2. CASE Next
    <3>1. PICK h \in Hart : Step(h)
      BY Zenon, <2>2 DEF Next
    <3>2. PICK l : InStep(h, l) /\ Forward(h, l)
      BY Zenon, <1>2, <3>1, StepShape
    <3>3. /\ l \in Label /\ pc \in [Hart -> Label] /\ pc' = [pc EXCEPT ![h] = l]
          /\ pc'[h] = l
      BY Zenon, <1>2, <3>2 DEF InStep, IInv, ControlOK
    <3>4. (l \in LeftM => At(ArrivedM)' = Hart) /\ (l \in LeftS => At(ArrivedS)' = Hart)
      BY Zenon, <1>2, <3>3 DEF IInv, AllArrived
    <3>5. LeftM \in SUBSET ArrivedM /\ LeftS \in SUBSET ArrivedS
      BY Zenon DEF LeftM, LeftS
    <3>6. BarrierStep(ArrivedM, LeftM) \/ (At(ArrivedM)' = At(ArrivedM) /\ At(LeftM)' = At(LeftM))
      BY Zenon, <3>2, <3>3, <3>4, <3>5, MovesAtBarrier DEF Forward
    <3>7. BarrierStep(ArrivedS, LeftS) \/ (At(ArrivedS)' = At(ArrivedS) /\ At(LeftS)' = At(LeftS))
      BY Zenon, <3>2, <3>3, <3>4, <3>5, MovesAtBarrier DEF Forward
    <3>8. BarrierStep(ArrivedM, LeftM) => MBarrier!Next
      BY Zenon DEF BarrierStep, MBarrier!Next, MBarrier!Arrive, MBarrier!Leave, MBarrier!ArriveLast
    <3>9. BarrierStep(ArrivedS, LeftS) => SBarrier!Next
      BY Zenon DEF BarrierStep, SBarrier!Next, SBarrier!Arrive, SBarrier!Leave, SBarrier!ArriveLast
    <3> QED
      BY Zenon, <3>6, <3>7, <3>8, <3>9
  <2> QED
    BY Zenon, <1>2, <2>1, <2>2
<1>3. IInv /\ IInv' /\ [Next]_vars
        => /\ [MBarrier!Next]_<<At(ArrivedM), At(LeftM)>>
           /\ [SBarrier!Next]_<<At(ArrivedS), At(LeftS)>>
  BY Zenon, <1>2
<1> QED
  BY <1>1, <1>3, Invariance, PTL DEF Spec, ImplementsBarriers, MBarrier!Spec, SBarrier!Spec
-----------------------------------------------------------------------------
(* Who has which entry and which pages *)

(* What the pointers may be. *)
LEMMA Nulls ==
  /\ NULL \in Page /\ NULL \in Pointer /\ NULL \notin Nat /\ NULL \notin Entry
  /\ Entry \subseteq Pointer /\ Nat \subseteq Page /\ Entry \subseteq Nat
<1> QED
  BY SMT, HartsAssumption DEF NULL, Page, Pointer, Entry

(* An instruction leaves every variable of its type. *)
LEMMA DataType ==
  ASSUME TypeOK, ControlOK', NEW h \in Hart, Step(h)
  PROVE  TypeOK'
<1> USE Zenon
<1> USE DEF sync, pages, queue
<1>1. raced' = (raced \/ Crowded') /\ raced' \in BOOLEAN
  BY DEF Step, Instruction, AllocProcess, LoadElf, Goto, MStart, MAdd, MSpin, SStart, SAdd, SSpin,
         P3, Sub3, Search, P5, Sub5, Take, Put, V5, Mark, V3, Insert, LinkIn, Schedule, Pop
<1>2. CASE MStart(h) \/ MAdd(h) \/ MSpin(h) \/ SStart(h) \/ SAdd(h) \/ SSpin(h)
  BY <1>1, <1>2 DEF TypeOK, MStart, MAdd, MSpin, SStart, SAdd, SSpin
<1>3. CASE P3(h) \/ Sub3(h) \/ V3(h)
  BY <1>1, <1>3 DEF TypeOK, P3, Sub3, V3
<1>4. ASSUME NEW at, NEW next, P5(h, at, next) \/ Sub5(h, at, next) PROVE TypeOK'
  BY <1>1, <1>4 DEF TypeOK, P5, Sub5
<1>5. ASSUME NEW at, NEW again, NEW next, NEW all, V5(h, at, again, next, all) PROVE TypeOK'
  BY <1>1, <1>5 DEF TypeOK, V5
<1>6. ASSUME NEW at, NEW next, Take(h, at, next) PROVE TypeOK'
  BY <1>1, <1>6 DEF TypeOK, Take
<1>7. ASSUME NEW at, NEW next, Put(h, at, next) PROVE TypeOK'
  <2>1. n[h] \in Page /\ mine[h] \in SUBSET Page
    BY DEF TypeOK
  <2>2. mine' \in [Hart -> SUBSET Page]
    BY <1>7, <2>1 DEF TypeOK, Put
  <2>3. n' \in [Hart -> Page]
    BY <1>7, Nulls DEF TypeOK, Put
  <2>4. g_free_mem_list' \in Page
    <3>1. CASE n[h] = NULL
      BY <1>7, <3>1 DEF TypeOK, Put
    <3>2. CASE n[h] # NULL
      <4>1. n[h] + 1 \in Page
        BY SMT, <2>1, <3>2 DEF Page, NULL
      <4>2. g_free_mem_list' \in {n[h] + 1, NULL}
        BY <1>7, <3>2 DEF Put, NextPage
      <4> QED
        BY <4>1, <4>2, Nulls
    <3> QED
      BY <3>1, <3>2
  <2>5. machine' \in {"on", "stopped"}
    BY <1>7 DEF TypeOK, Put, StopIf
  <2> QED
    BY <1>1, <1>7, <2>2, <2>3, <2>4, <2>5 DEF TypeOK, Put
<1>8. CASE Search(h)
  <2>1. proc' \in [Hart -> Pointer] /\ machine' \in {"on", "stopped"}
    BY <1>8 DEF TypeOK, Search, StopIf
  <2> QED
    BY <1>1, <1>8, <2>1 DEF TypeOK, Search
<1>9. CASE Mark(h)
  <2>1. status' \in [Entry -> Status]
    BY <1>9 DEF TypeOK, Mark, Status
  <2> QED
    BY <1>1, <1>9, <2>1 DEF TypeOK, Mark
<1>10. CASE Insert(h)
  <2>1. last' \in [Hart -> Pointer]
    BY <1>10 DEF TypeOK, Insert
  <2> QED
    BY <1>1, <1>10, <2>1 DEF TypeOK, Insert
<1>11. CASE LinkIn(h)
  <2>1. status' \in [Entry -> Status] /\ last' \in [Hart -> Pointer]
    BY <1>11, Nulls DEF TypeOK, LinkIn, Status
  <2>2. queue_next' \in [Entry -> Pointer] /\ ready_queue_head' \in Pointer
    BY <1>11, Nulls DEF TypeOK, LinkIn
  <2> QED
    BY <1>1, <1>11, <2>1, <2>2 DEF TypeOK, LinkIn
<1>12. CASE Schedule(h)
  BY <1>1, <1>12 DEF TypeOK, Schedule, StopIf
<1>13. CASE Pop(h)
  <2>1. ready_queue_head' \in Pointer
    BY <1>13, Nulls DEF TypeOK, Pop, Pointer
  <2>2. status' \in [Entry -> Status] /\ machine' \in {"on", "stopped"}
    BY <1>13 DEF TypeOK, Pop, Status, StopIf
  <2> QED
    BY <1>1, <1>13, <2>1, <2>2 DEF TypeOK, Pop
<1> QED
  BY <1>2, <1>3, <1>4, <1>5, <1>6, <1>7, <1>8, <1>9, <1>10, <1>11, <1>12, <1>13
  DEF Step, Instruction, AllocProcess, LoadElf

(* A hart in a section is there alone. *)
LEMMA Alone ==
  ASSUME ~Crowded, NEW g \in Hart, NEW h \in Hart, g # h
  PROVE  /\ ~(pc[g] \in Holding3 /\ pc[h] \in Holding3)
         /\ ~(pc[g] \in Holding5 /\ pc[h] \in Holding5)
         /\ ~(pc[g] \in Queueing /\ pc[h] \in Queueing)
<1> QED
  BY Zenon DEF Crowded, At

(* The same after a step. *)
LEMMA AloneThen ==
  ASSUME ~Crowded', NEW g \in Hart, NEW h \in Hart, g # h
  PROVE  ~(pc'[g] \in Queueing /\ pc'[h] \in Queueing)
<1> QED
  BY Zenon DEF Crowded, At

OwnData == machine = "on" /\ PagesOwn /\ EntriesOwn /\ QueueOwn

(* Hart h goes to label l. *)
Goes(h, l) == /\ l \in Label /\ pc' = [pc EXCEPT ![h] = l]
              /\ pc'[h] = l /\ \A g \in Hart : g # h => pc'[g] = pc[g]

LEMMA GoesTo ==
  ASSUME TypeOK, NEW h \in Hart, NEW l \in Label, Goto(h, l)
  PROVE  Goes(h, l)
<1> QED
  BY Zenon DEF TypeOK, ControlOK, Goto, Goes

(* Labels at which a hart knows the same of its entry. *)
Alike(k, l) ==
  /\ k \in Found <=> l \in Found
  /\ k \in Found => StatusAt(k) = StatusAt(l)

(* What a step does not touch it keeps. *)
LEMMA PagesKept ==
  ASSUME PagesOwn, NEW h \in Hart, NEW l, Goes(h, l), l \notin {"put", "load_put"},
         UNCHANGED <<g_free_mem_list, n, mine>>
  PROVE  PagesOwn'
<1> USE Zenon
<1>1. \A g \in Hart : pc'[g] \in {"put", "load_put"} => pc'[g] = pc[g]
  BY DEF Goes
<1> QED
  BY <1>1 DEF PagesOwn

LEMMA EntriesKept ==
  ASSUME EntriesOwn, NEW h \in Hart, NEW l, Goes(h, l), Alike(pc[h], l),
         UNCHANGED <<status, proc>>
  PROVE  EntriesOwn'
<1> USE Zenon
<1>1. ASSUME NEW g \in Hart
      PROVE  IF pc'[g] \in Found THEN proc'[g] \in Entry /\ status'[proc'[g]] = StatusAt(pc'[g])
                                 ELSE proc'[g] = NULL
  <2>0. IF pc[g] \in Found THEN proc[g] \in Entry /\ status[proc[g]] = StatusAt(pc[g])
                           ELSE proc[g] = NULL
    BY DEF EntriesOwn
  <2>1. CASE g = h
    <3>1. pc'[g] = l /\ Alike(pc[g], l)
      BY <2>1 DEF Goes
    <3> QED
      BY <2>0, <3>1 DEF Alike
  <2>2. CASE g # h
    BY <2>0, <2>2 DEF Goes
  <2> QED
    BY <2>1, <2>2
<1> QED
  BY <1>1 DEF EntriesOwn

LEMMA QueueKept ==
  ASSUME QueueOwn, NEW h \in Hart, NEW l, Goes(h, l),
         pc[h] \notin Queueing \cup {"user"}, l \notin Queueing \cup {"user"},
         \A g \in Hart : g # h => proc'[g] = proc[g],
         UNCHANGED queue
  PROVE  QueueOwn'
<1> USE Zenon
<1>1. At({"schedule", "pop"})' = At({"schedule", "pop"})
  BY DEF At, Goes, Queueing
<1>2. ASSUME NEW g \in Hart
      PROVE  /\ pc'[g] \in {"schedule", "pop"} =>
                  ready_queue_head' = proc'[g] /\ queue_next'[proc'[g]] = NULL
             /\ pc'[g] = "link" => last'[g] = NULL
             /\ pc'[g] \in {"pop", "user"} => current'[g] = proc'[g]
  <2>1. CASE g = h
    BY <2>1 DEF Goes, Queueing
  <2>2. CASE g # h
    BY <2>2 DEF QueueOwn, Goes, queue
  <2> QED
    BY <2>1, <2>2
<1> QED
  BY <1>1, <1>2 DEF QueueOwn, queue

(* The instructions that only move the hart: those of the barriers and of  *)
(* the semaphores.                                                         *)
QuietStep(h) ==
  \/ MStart(h) \/ MAdd(h) \/ MSpin(h) \/ SStart(h) \/ SAdd(h) \/ SSpin(h)
  \/ P3(h) \/ Sub3(h) \/ P5(h, "P5", "sub5") \/ Sub5(h, "sub5", "take")
  \/ V5(h, "V5", "P5", "mark", Pages) \/ V3(h)
  \/ P5(h, "load", "load_sub") \/ Sub5(h, "load_sub", "load_take")
  \/ V5(h, "load_V", "load", "insert", Pages + Image)

Mild(k, l) ==
  /\ l \in Label /\ l \notin {"put", "load_put"} /\ Alike(k, l)
  /\ k \notin Queueing \cup {"user"} /\ l \notin Queueing \cup {"user"}

(* Where these lead. *)
LEMMA QuietLabels ==
  ASSUME NEW h \in Hart, QuietStep(h)
  PROVE  \E l : Goto(h, l) /\ Mild(pc[h], l)
<1> USE DEF Mild, Alike, Found, StatusAt, Holding3, Queueing, LeftS, ArrivedS, LeftM, ArrivedM, Label
<1>1. CASE MStart(h)
  <2>1. Goto(h, "m_add")
    BY Zenon, <1>1 DEF MStart
  <2>2. Mild(pc[h], "m_add")
    BY <1>1 DEF MStart
  <2> QED
    BY Zenon, <2>1, <2>2
<1>2. CASE MAdd(h)
  <2>1. Goto(h, "m_spin") \/ Goto(h, "s_start")
    BY Zenon, <1>2 DEF MAdd, AfterAdd
  <2>2. Mild(pc[h], "m_spin") /\ Mild(pc[h], "s_start")
    BY <1>2 DEF MAdd
  <2> QED
    BY Zenon, <2>1, <2>2
<1>3. CASE MSpin(h)
  <2>1. Goto(h, "s_start")
    BY Zenon, <1>3 DEF MSpin
  <2>2. Mild(pc[h], "s_start")
    BY <1>3 DEF MSpin
  <2> QED
    BY Zenon, <2>1, <2>2
<1>4. CASE SStart(h)
  <2>1. Goto(h, "s_add")
    BY Zenon, <1>4 DEF SStart
  <2>2. Mild(pc[h], "s_add")
    BY <1>4 DEF SStart
  <2> QED
    BY Zenon, <2>1, <2>2
<1>5. CASE SAdd(h)
  <2>1. Goto(h, "s_spin") \/ Goto(h, "P3")
    BY Zenon, <1>5 DEF SAdd, AfterAdd
  <2>2. Mild(pc[h], "s_spin") /\ Mild(pc[h], "P3")
    BY <1>5 DEF SAdd
  <2> QED
    BY Zenon, <2>1, <2>2
<1>6. CASE SSpin(h)
  <2>1. Goto(h, "P3")
    BY Zenon, <1>6 DEF SSpin
  <2>2. Mild(pc[h], "P3")
    BY <1>6 DEF SSpin
  <2> QED
    BY Zenon, <2>1, <2>2
<1>7. CASE P3(h)
  <2>1. Goto(h, "sub3")
    BY Zenon, <1>7 DEF P3
  <2>2. Mild(pc[h], "sub3")
    BY <1>7 DEF P3
  <2> QED
    BY Zenon, <2>1, <2>2
<1>8. CASE Sub3(h)
  <2>1. Goto(h, "search")
    BY Zenon, <1>8 DEF Sub3
  <2>2. Mild(pc[h], "search")
    BY <1>8 DEF Sub3
  <2> QED
    BY Zenon, <2>1, <2>2
<1>9. CASE P5(h, "P5", "sub5")
  <2>1. Goto(h, "sub5")
    BY Zenon, <1>9 DEF P5
  <2>2. Mild(pc[h], "sub5")
    BY <1>9 DEF P5
  <2> QED
    BY Zenon, <2>1, <2>2
<1>10. CASE Sub5(h, "sub5", "take")
  <2>1. Goto(h, "take")
    BY Zenon, <1>10 DEF Sub5
  <2>2. Mild(pc[h], "take")
    BY <1>10 DEF Sub5
  <2> QED
    BY Zenon, <2>1, <2>2
<1>11. CASE V5(h, "V5", "P5", "mark", Pages)
  <2>1. Goto(h, "P5") \/ Goto(h, "mark")
    BY Zenon, <1>11 DEF V5
  <2>2. Mild(pc[h], "P5") /\ Mild(pc[h], "mark")
    BY <1>11 DEF V5
  <2> QED
    BY Zenon, <2>1, <2>2
<1>12. CASE V3(h)
  <2>1. Goto(h, "load")
    BY Zenon, <1>12 DEF V3
  <2>2. Mild(pc[h], "load")
    BY <1>12 DEF V3
  <2> QED
    BY Zenon, <2>1, <2>2
<1>13. CASE P5(h, "load", "load_sub")
  <2>1. Goto(h, "load_sub")
    BY Zenon, <1>13 DEF P5
  <2>2. Mild(pc[h], "load_sub")
    BY <1>13 DEF P5
  <2> QED
    BY Zenon, <2>1, <2>2
<1>14. CASE Sub5(h, "load_sub", "load_take")
  <2>1. Goto(h, "load_take")
    BY Zenon, <1>14 DEF Sub5
  <2>2. Mild(pc[h], "load_take")
    BY <1>14 DEF Sub5
  <2> QED
    BY Zenon, <2>1, <2>2
<1>15. CASE V5(h, "load_V", "load", "insert", Pages + Image)
  <2>1. Goto(h, "load") \/ Goto(h, "insert")
    BY Zenon, <1>15 DEF V5
  <2>2. Mild(pc[h], "load") /\ Mild(pc[h], "insert")
    BY <1>15 DEF V5
  <2> QED
    BY Zenon, <2>1, <2>2
<1> QED
  BY Zenon, <1>1, <1>2, <1>3, <1>4, <1>5, <1>6, <1>7, <1>8, <1>9, <1>10, <1>11,
     <1>12, <1>13, <1>14, <1>15
  DEF QuietStep

LEMMA QuietOwn ==
  ASSUME TypeOK, OwnData, NEW h \in Hart, QuietStep(h)
  PROVE  OwnData'
<1> USE Zenon
<1>1. UNCHANGED <<g_free_mem_list, n, mine, status, proc, queue, machine>>
  BY DEF QuietStep, MStart, MAdd, MSpin, SStart, SAdd, SSpin, P3, Sub3, P5, Sub5, V5, V3, pages
<1>2. PICK l : Goto(h, l) /\ Mild(pc[h], l)
  BY QuietLabels
<1>3. Goes(h, l)
  BY <1>2, GoesTo DEF Mild
<1> QED
  BY <1>1, <1>2, <1>3, PagesKept, EntriesKept, QueueKept DEF OwnData, Mild

(* alloc_page reads the head of the free list. *)
LEMMA TakeOwn ==
  ASSUME TypeOK, OwnData, NEW h \in Hart, NEW at, NEW next, Take(h, at, next),
         next \in {"put", "load_put"}, next \in Label, Alike(at, next),
         at \notin Queueing \cup {"user"}, next \notin Queueing \cup {"user"}
  PROVE  OwnData'
<1> USE Zenon
<1>1. Goes(h, next) /\ pc[h] = at
  BY GoesTo DEF Take
<1>2. UNCHANGED <<g_free_mem_list, mine, status, proc, queue, machine>>
  BY DEF Take
<1>3. PagesOwn'
  <2>1. n'[h] = g_free_mem_list /\ \A g \in Hart : g # h => n'[g] = n[g]
    BY DEF TypeOK, Take
  <2>2. ASSUME NEW g \in Hart, pc'[g] \in {"put", "load_put"} PROVE n'[g] = g_free_mem_list
    <3>1. CASE g = h
      BY <2>1, <3>1
    <3>2. CASE g # h
      BY <1>1, <2>1, <2>2, <3>2 DEF Goes, OwnData, PagesOwn
    <3> QED
      BY <3>1, <3>2
  <2> QED
    BY <1>2, <2>2 DEF OwnData, PagesOwn
<1> QED
  BY <1>1, <1>2, <1>3, EntriesKept, QueueKept DEF OwnData

(* alloc_page takes the page it has read off the free list.  Nobody has it. *)
LEMMA PutOwn ==
  ASSUME TypeOK, OwnData, ~Crowded, NEW h \in Hart, NEW at, NEW next, Put(h, at, next),
         at \in {"put", "load_put"}, next \notin {"put", "load_put"},
         next \in Label, Alike(at, next),
         at \notin Queueing \cup {"user"}, next \notin Queueing \cup {"user"}
  PROVE  OwnData'
<1> USE Zenon
<1>1. Goes(h, next) /\ pc[h] = at
  BY GoesTo DEF Put
<1>2. UNCHANGED <<status, proc, queue>>
  BY DEF Put
<1>3. n[h] = g_free_mem_list /\ g_free_mem_list \in Nat
  BY <1>1 DEF OwnData, PagesOwn
<1>4. n[h] # NULL /\ machine' = machine
  BY <1>3, Nulls DEF Put, StopIf
<1>5. \A g \in Hart : mine[g] \subseteq 0 .. g_free_mem_list - 1
  BY DEF OwnData, PagesOwn
<1>6. g_free_mem_list \notin 0 .. g_free_mem_list - 1
  BY SMT, <1>3
<1>7. ~\E g \in Hart : n[h] \in mine[g]
  BY <1>3, <1>5, <1>6
<1>8. g_free_mem_list' = g_free_mem_list + 1
  BY <1>3, <1>4, <1>7 DEF Put, NextPage
<1>9. /\ g_free_mem_list' \in Nat
      /\ 0 .. g_free_mem_list - 1 \subseteq 0 .. g_free_mem_list' - 1
      /\ g_free_mem_list \in 0 .. g_free_mem_list' - 1
  BY SMT, <1>3, <1>8
<1>10. mine'[h] = mine[h] \cup {g_free_mem_list} /\ \A g \in Hart : g # h => mine'[g] = mine[g]
  BY <1>3 DEF TypeOK, Put
<1>11. PagesOwn'
  <2>1. ASSUME NEW g \in Hart PROVE mine'[g] \subseteq 0 .. g_free_mem_list' - 1
    <3>1. CASE g = h
      BY <1>5, <1>9, <1>10, <3>1
    <3>2. CASE g # h
      BY <1>5, <1>9, <1>10, <3>2
    <3> QED
      BY <3>1, <3>2
  <2>2. ASSUME NEW g \in Hart PROVE pc'[g] \notin {"put", "load_put"}
    <3>1. CASE g = h
      BY <1>1, <3>1 DEF Goes
    <3>2. CASE g # h
      <4>1. pc[h] \in Holding5 /\ ~(pc[g] \in Holding5 /\ pc[h] \in Holding5)
        BY <1>1, <3>2, Alone DEF Holding5
      <4> QED
        BY <1>1, <3>2, <4>1 DEF Goes, Holding5
    <3> QED
      BY <3>1, <3>2
  <2>3. ASSUME NEW f \in Hart, NEW g \in Hart, f # g PROVE mine'[f] \cap mine'[g] = {}
    <3>0. mine[f] \cap mine[g] = {} /\ g_free_mem_list \notin mine[f] /\ g_free_mem_list \notin mine[g]
      BY <1>5, <1>6, <2>3 DEF OwnData, PagesOwn
    <3>1. CASE f = h
      BY <1>10, <2>3, <3>0, <3>1
    <3>2. CASE g = h
      BY <1>10, <2>3, <3>0, <3>2
    <3>3. CASE f # h /\ g # h
      BY <1>10, <3>0, <3>3
    <3> QED
      BY <3>1, <3>2, <3>3
  <2> QED
    BY <1>9, <2>1, <2>2, <2>3 DEF PagesOwn
<1> QED
  BY <1>1, <1>2, <1>4, <1>11, EntriesKept, QueueKept DEF OwnData

(* There is a FREE entry for a hart that has none: the others have fewer    *)
(* than NPROC.                                                              *)
LEMMA FreeEntry ==
  ASSUME EntriesOwn, NEW h \in Hart, proc[h] = NULL
  PROVE  \E i \in Entry : status[i] = "FREE"
<1> USE Zenon
<1> SUFFICES ASSUME \A i \in Entry : status[i] # "FREE" PROVE FALSE
  OBVIOUS
<1>1. ASSUME NEW i \in Entry PROVE \E g \in Hart \ {h} : proc[g] = i
  <2>1. PICK g \in Hart : proc[g] = i
    BY DEF EntriesOwn
  <2> QED
    BY <2>1, Nulls
<1>2. PICK owner \in [Entry -> Hart \ {h}] : \A i \in Entry : proc[owner[i]] = i
  <2> DEFINE f == [i \in Entry |-> CHOOSE g \in Hart \ {h} : proc[g] = i]
  <2>1. \A i \in Entry : f[i] \in Hart \ {h} /\ proc[f[i]] = i
    BY <1>1
  <2> QED
    BY <2>1
<1>3. IsFiniteSet(Entry) /\ Cardinality(Entry) = NPROC
  <2>1. 0 \in Int /\ NPROC - 1 \in Int /\ ~(0 > NPROC - 1) /\ NPROC - 1 - 0 + 1 = NPROC
    BY SMT, HartsAssumption
  <2> QED
    BY <2>1, FS_Interval DEF Entry
<1>4. IsFiniteSet(Hart \ {h}) /\ Cardinality(Hart \ {h}) = N - 1
  BY HartCount, FS_RemoveElement
<1>5. Cardinality(Hart \ {h}) < Cardinality(Entry)
  BY SMT, <1>3, <1>4, HartsAssumption
<1>6. \E i, j \in Entry : i # j /\ owner[i] = owner[j]
  BY SMT, <1>3, <1>4, <1>5, FS_PigeonHole
<1> QED
  BY <1>2, <1>6

(* alloc_process finds an entry that nobody has. *)
LEMMA SearchOwn ==
  ASSUME TypeOK, OwnData, ~Crowded, NEW h \in Hart, Search(h)
  PROVE  OwnData'
<1> USE Zenon
<1>1. Goes(h, "P5") /\ pc[h] = "search"
  <2>1. "P5" \in Label
    BY DEF Label
  <2> QED
    BY <2>1, GoesTo DEF Search
<1>2. proc[h] = NULL
  BY <1>1 DEF OwnData, EntriesOwn, Found
<1>3. PICK i \in Pointer : /\ \A j \in Entry : (i = NULL \/ j < i) => status[j] # "FREE"
                           /\ i # NULL => status[i] = "FREE"
                           /\ proc' = [proc EXCEPT ![h] = i]
                           /\ StopIf(i = NULL)
  BY DEF Search
<1>4. i # NULL
  BY <1>2, <1>3, FreeEntry DEF OwnData
<1>5. i \in Entry /\ status[i] = "FREE"
  BY <1>3, <1>4 DEF Pointer
<1>6. proc'[h] = i /\ \A g \in Hart : g # h => proc'[g] = proc[g]
  BY <1>3 DEF TypeOK
<1>7. UNCHANGED <<g_free_mem_list, n, mine, status, queue, machine>>
  BY <1>3, <1>4 DEF Search, StopIf, pages
<1>8. ASSUME NEW g \in Hart, g # h PROVE proc[g] # i
  <2>1. CASE pc[g] \in Found
    <3>1. status[proc[g]] = StatusAt(pc[g])
      BY <2>1 DEF OwnData, EntriesOwn
    <3>2. pc[g] \notin Holding3
      BY <1>1, <1>8, Alone DEF Holding3
    <3>3. StatusAt(pc[g]) # "FREE"
      BY <3>2 DEF StatusAt
    <3> QED
      BY <1>5, <3>1, <3>3
  <2>2. CASE pc[g] \notin Found
    BY <1>4, <2>2 DEF OwnData, EntriesOwn
  <2> QED
    BY <2>1, <2>2
<1>9. EntriesOwn'
  <2>1. ASSUME NEW g \in Hart
        PROVE  IF pc'[g] \in Found THEN proc'[g] \in Entry /\ status'[proc'[g]] = StatusAt(pc'[g])
                                   ELSE proc'[g] = NULL
    <3>1. CASE g = h
      <4>1. "P5" \in Found /\ StatusAt("P5") = "FREE"
        BY SMT DEF Found, LeftS, ArrivedS, LeftM, ArrivedM, Label, StatusAt, Holding3
      <4> QED
        BY <1>1, <1>5, <1>6, <1>7, <3>1, <4>1 DEF Goes
    <3>2. CASE g # h
      <4>1. IF pc[g] \in Found THEN proc[g] \in Entry /\ status[proc[g]] = StatusAt(pc[g])
                               ELSE proc[g] = NULL
        BY DEF OwnData, EntriesOwn
      <4>2. pc'[g] = pc[g] /\ proc'[g] = proc[g] /\ status' = status
        BY <1>1, <1>6, <1>7, <3>2 DEF Goes
      <4> QED
        BY <4>1, <4>2
    <3> QED
      BY <3>1, <3>2
  <2>2. ASSUME NEW f \in Hart, NEW g \in Hart, f # g, proc'[f] = proc'[g] PROVE proc'[f] = NULL
    <3>1. f # h /\ g # h
      BY <1>6, <1>8, <2>2
    <3> QED
      BY <1>6, <2>2, <3>1 DEF OwnData, EntriesOwn
  <2>3. ASSUME NEW j \in Entry, status'[j] # "FREE" PROVE \E g \in Hart : proc'[g] = j
    <3>1. PICK g \in Hart : proc[g] = j
      BY <1>7, <2>3 DEF OwnData, EntriesOwn
    <3>2. g # h
      BY <1>2, <3>1, Nulls
    <3> QED
      BY <1>6, <3>1, <3>2
  <2> QED
    BY <2>1, <2>2, <2>3 DEF EntriesOwn
<1>10. PagesOwn' /\ QueueOwn'
  BY <1>1, <1>6, <1>7, PagesKept, QueueKept DEF OwnData, Queueing
<1> QED
  BY <1>7, <1>9, <1>10 DEF OwnData

(* The hart sets the status of its own entry, and goes where this is known. *)
LEMMA StatusSet ==
  ASSUME TypeOK, EntriesOwn, NEW h \in Hart, NEW l, Goes(h, l), pc[h] \in Found, l \in Found,
         NEW new, new # "FREE", new = StatusAt(l),
         status' = [status EXCEPT ![proc[h]] = new], proc' = proc
  PROVE  EntriesOwn'
<1> USE Zenon
<1>1. proc[h] \in Entry
  BY DEF EntriesOwn
<1>2. status'[proc[h]] = new /\ \A i \in Entry : i # proc[h] => status'[i] = status[i]
  BY <1>1 DEF TypeOK
<1>3. ASSUME NEW g \in Hart
      PROVE  IF pc'[g] \in Found THEN proc'[g] \in Entry /\ status'[proc'[g]] = StatusAt(pc'[g])
                                 ELSE proc'[g] = NULL
  <2>1. CASE g = h
    BY <1>1, <1>2, <2>1 DEF Goes
  <2>2. CASE g # h /\ pc[g] \in Found
    <3>1. proc[g] \in Entry /\ status[proc[g]] = StatusAt(pc[g])
      BY <2>2 DEF EntriesOwn
    <3>2. proc[g] # proc[h]
      BY <1>1, <2>2, Nulls DEF EntriesOwn
    <3> QED
      BY <1>2, <2>2, <3>1, <3>2 DEF Goes
  <2>3. CASE g # h /\ pc[g] \notin Found
    BY <2>3 DEF EntriesOwn, Goes
  <2> QED
    BY <2>1, <2>2, <2>3
<1>4. ASSUME NEW i \in Entry, status'[i] # "FREE" PROVE \E g \in Hart : proc'[g] = i
  BY <1>2, <1>4 DEF EntriesOwn
<1> QED
  BY <1>3, <1>4 DEF EntriesOwn

LEMMA MarkOwn ==
  ASSUME TypeOK, OwnData, NEW h \in Hart, Mark(h)
  PROVE  OwnData'
<1> USE Zenon
<1>1. /\ "V3" \in Label /\ "V3" \in Found /\ "mark" \in Found /\ StatusAt("V3") = "USED"
      /\ {"mark", "V3"} \cap (Queueing \cup {"user"}) = {}
  BY SMT DEF Found, LeftS, ArrivedS, LeftM, ArrivedM, Label, StatusAt, Holding3, Queueing
<1>2. Goes(h, "V3") /\ pc[h] = "mark"
  BY <1>1, GoesTo DEF Mark
<1>3. /\ UNCHANGED <<g_free_mem_list, n, mine, proc, queue, machine>>
      /\ status' = [status EXCEPT ![proc[h]] = "USED"]
  BY DEF Mark, pages
<1>4. EntriesOwn'
  BY <1>1, <1>2, <1>3, StatusSet DEF OwnData
<1> QED
  BY <1>1, <1>2, <1>3, <1>4, PagesKept, QueueKept DEF OwnData

(* The ready queue is empty when insert_to_ready_queue looks at it, unless  *)
(* another hart is between there and schedule.                              *)
LEMMA InsertOwn ==
  ASSUME TypeOK, OwnData, NEW h \in Hart, Insert(h), ~Crowded'
  PROVE  OwnData'
<1> USE Zenon
<1>1. /\ {"link", "schedule"} \subseteq Label \cap Queueing
      /\ {"link", "schedule"} \cap {"put", "load_put"} = {} /\ Alike("insert", "link")
      /\ {"schedule", "pop"} \subseteq Queueing
  BY SMT DEF Alike, Found, LeftS, ArrivedS, LeftM, ArrivedM, Label, StatusAt, Holding3, Queueing
<1>2. PICK l \in {"link", "schedule"} : Goto(h, l)
  BY DEF Insert
<1>3. pc[h] = "insert" /\ Goes(h, l)
  BY <1>1, <1>2, GoesTo DEF Insert
<1>4. At({"schedule", "pop"}) = {}
  <2> SUFFICES ASSUME NEW g \in Hart, pc[g] \in {"schedule", "pop"} PROVE FALSE
    BY DEF At
  <2>1. g # h
    BY <1>3
  <2>2. pc'[g] \in Queueing /\ pc'[h] \in Queueing
    BY <1>1, <1>3, <2>1 DEF Goes
  <2> QED
    BY <2>1, <2>2, AloneThen
<1>5. ready_queue_head = NULL /\ InQueue = {}
  BY <1>4 DEF OwnData, QueueOwn, InQueue
<1>6. l = "link" /\ last' = [last EXCEPT ![h] = NULL]
  <2>1. Goto(h, "link") /\ last' = [last EXCEPT ![h] = NULL]
    BY <1>5 DEF Insert
  <2>2. pc'[h] = "link"
    BY <1>1, <2>1, GoesTo DEF Goes
  <2> QED
    BY <1>3, <2>1, <2>2 DEF Goes
<1>7. UNCHANGED <<g_free_mem_list, n, mine, status, proc, ready_queue_head, queue_next, current, machine>>
  BY DEF Insert, pages
<1>8. QueueOwn'
  <2>1. last'[h] = NULL /\ \A g \in Hart : g # h => last'[g] = last[g]
    BY <1>6 DEF TypeOK
  <2>2. ASSUME NEW g \in Hart
        PROVE  /\ pc'[g] \notin {"schedule", "pop"}
               /\ pc'[g] = "link" => last'[g] = NULL
               /\ pc'[g] \in {"pop", "user"} => current'[g] = proc'[g]
    <3>1. CASE g = h
      BY <1>3, <1>6, <2>1, <3>1 DEF Goes
    <3>2. CASE g # h
      <4>1. pc'[g] = pc[g] /\ last'[g] = last[g]
        BY <1>3, <2>1, <3>2 DEF Goes
      <4>2. pc[g] \notin {"schedule", "pop"}
        BY <1>4 DEF At
      <4> QED
        BY <1>7, <4>1, <4>2 DEF OwnData, QueueOwn
    <3> QED
      BY <3>1, <3>2
  <2> QED
    BY <1>5, <1>7, <2>2 DEF QueueOwn
<1>9. PagesOwn' /\ EntriesOwn'
  BY <1>1, <1>3, <1>6, <1>7, PagesKept, EntriesKept DEF OwnData
<1> QED
  BY <1>7, <1>8, <1>9 DEF OwnData

LEMMA LinkOwn ==
  ASSUME TypeOK, OwnData, ~Crowded, NEW h \in Hart, LinkIn(h)
  PROVE  OwnData'
<1> USE Zenon
<1>1. /\ "schedule" \in Label /\ "schedule" \in Found /\ "link" \in Found
      /\ StatusAt("schedule") = "READY"
      /\ {"link", "schedule", "pop"} = Queueing
  BY SMT DEF Found, LeftS, ArrivedS, LeftM, ArrivedM, Label, StatusAt, Holding3, Queueing
<1>2. pc[h] = "link" /\ Goes(h, "schedule")
  BY <1>1, GoesTo DEF LinkIn
<1>3. last[h] = NULL /\ proc[h] \in Entry
  BY <1>1, <1>2 DEF OwnData, QueueOwn, EntriesOwn
<1>4. /\ ready_queue_head' = proc[h] /\ last' = [last EXCEPT ![h] = NULL]
      /\ status' = [status EXCEPT ![proc[h]] = "READY"]
      /\ UNCHANGED <<g_free_mem_list, n, mine, proc, current, machine>>
  BY <1>3 DEF LinkIn, pages
<1>5. queue_next'[proc[h]] = NULL
  BY <1>3 DEF LinkIn, TypeOK
<1>6. QueueOwn'
  <2>1. h \in At({"schedule", "pop"})'
    BY <1>2 DEF At, Goes
  <2>2. ASSUME NEW g \in Hart
        PROVE  /\ pc'[g] \in {"schedule", "pop"} =>
                    ready_queue_head' = proc'[g] /\ queue_next'[proc'[g]] = NULL
               /\ pc'[g] = "link" => last'[g] = NULL
               /\ pc'[g] \in {"pop", "user"} => current'[g] = proc'[g]
    <3>1. CASE g = h
      BY <1>2, <1>4, <1>5, <3>1 DEF Goes
    <3>2. CASE g # h
      <4>1. pc'[g] = pc[g] /\ pc[g] \notin Queueing
        BY <1>1, <1>2, <3>2, Alone DEF Goes
      <4>2. pc[g] \in {"pop", "user"} => current[g] = proc[g]
        BY DEF OwnData, QueueOwn
      <4> QED
        BY <1>1, <1>4, <4>1, <4>2
    <3> QED
      BY <3>1, <3>2
  <2> QED
    BY <2>1, <2>2 DEF QueueOwn
<1>7. PagesOwn' /\ EntriesOwn'
  BY <1>1, <1>2, <1>4, PagesKept, StatusSet DEF OwnData
<1> QED
  BY <1>4, <1>6, <1>7 DEF OwnData

LEMMA ScheduleOwn ==
  ASSUME TypeOK, OwnData, ~Crowded, NEW h \in Hart, Schedule(h)
  PROVE  OwnData'
<1> USE Zenon
<1>1. /\ {"schedule", "pop"} \subseteq Label \cap Found /\ Alike("schedule", "pop")
      /\ StatusAt("schedule") = "READY"
      /\ {"link", "schedule", "pop"} = Queueing
  BY SMT DEF Alike, Found, LeftS, ArrivedS, LeftM, ArrivedM, Label, StatusAt, Holding3, Queueing
<1>2. pc[h] = "schedule" /\ Goes(h, "pop")
  BY <1>1, GoesTo DEF Schedule
<1>3. proc[h] \in Entry /\ status[proc[h]] = "READY"
  BY <1>1, <1>2 DEF OwnData, EntriesOwn
<1>4. ready_queue_head = proc[h] /\ queue_next[proc[h]] = NULL
  BY <1>2 DEF OwnData, QueueOwn
<1>5. ready_queue_head # NULL
  BY <1>3, <1>4, Nulls
<1>6. /\ current' = [current EXCEPT ![h] = proc[h]]
      /\ UNCHANGED <<g_free_mem_list, n, mine, status, proc, ready_queue_head, queue_next, last, machine>>
  BY <1>3, <1>4, <1>5 DEF Schedule, StopIf, pages
<1>7. QueueOwn'
  <2>0. current'[h] = proc[h] /\ \A g \in Hart : g # h => current'[g] = current[g]
    BY <1>6 DEF TypeOK
  <2>1. h \in At({"schedule", "pop"})'
    BY <1>2 DEF At, Goes
  <2>2. ASSUME NEW g \in Hart
        PROVE  /\ pc'[g] \in {"schedule", "pop"} =>
                    ready_queue_head' = proc'[g] /\ queue_next'[proc'[g]] = NULL
               /\ pc'[g] = "link" => last'[g] = NULL
               /\ pc'[g] \in {"pop", "user"} => current'[g] = proc'[g]
    <3>1. CASE g = h
      BY <1>2, <1>4, <1>6, <2>0, <3>1 DEF Goes
    <3>2. CASE g # h
      <4>1. pc'[g] = pc[g] /\ pc[g] \notin Queueing
        BY <1>1, <1>2, <3>2, Alone DEF Goes
      <4>2. pc[g] \in {"pop", "user"} => current[g] = proc[g]
        BY DEF OwnData, QueueOwn
      <4> QED
        BY <1>1, <1>6, <2>0, <3>2, <4>1, <4>2
    <3> QED
      BY <3>1, <3>2
  <2> QED
    BY <2>1, <2>2 DEF QueueOwn
<1>8. PagesOwn' /\ EntriesOwn'
  BY <1>1, <1>2, <1>6, PagesKept, EntriesKept DEF OwnData
<1> QED
  BY <1>6, <1>7, <1>8 DEF OwnData

LEMMA PopOwn ==
  ASSUME TypeOK, OwnData, ~Crowded, NEW h \in Hart, Pop(h)
  PROVE  OwnData'
<1> USE Zenon
<1>1. /\ "user" \in Label /\ {"pop", "user"} \subseteq Found
      /\ StatusAt("user") = "RUNNING"
      /\ {"link", "schedule", "pop"} = Queueing /\ "user" \notin Queueing
  BY SMT DEF Found, LeftS, ArrivedS, LeftM, ArrivedM, Label, StatusAt, Holding3, Queueing
<1>2. pc[h] = "pop" /\ Goes(h, "user")
  BY <1>1, GoesTo DEF Pop
<1>3. proc[h] \in Entry /\ proc[h] # NULL
  BY <1>1, <1>2, Nulls DEF OwnData, EntriesOwn
<1>4. ready_queue_head = proc[h] /\ queue_next[proc[h]] = NULL /\ current[h] = proc[h]
  BY <1>2 DEF OwnData, QueueOwn
<1>5. /\ ready_queue_head' = NULL
      /\ status' = [status EXCEPT ![proc[h]] = "RUNNING"]
      /\ UNCHANGED <<g_free_mem_list, n, mine, proc, queue_next, last, current, machine>>
  BY <1>3, <1>4 DEF Pop, StopIf, pages
<1>6. QueueOwn'
  <2>2. ASSUME NEW g \in Hart
        PROVE  pc'[g] \notin Queueing /\ (pc'[g] = "user" => current'[g] = proc'[g])
    <3>1. CASE g = h
      BY <1>1, <1>2, <1>4, <1>5, <3>1 DEF Goes
    <3>2. CASE g # h
      <4>1. pc'[g] = pc[g] /\ pc[g] \notin Queueing
        BY <1>1, <1>2, <3>2, Alone DEF Goes
      <4>2. pc[g] = "user" => current[g] = proc[g]
        BY DEF OwnData, QueueOwn
      <4> QED
        BY <1>5, <4>1, <4>2
    <3> QED
      BY <3>1, <3>2
  <2>3. ASSUME NEW g \in Hart
        PROVE  /\ pc'[g] \notin {"schedule", "pop"} /\ pc'[g] # "link"
               /\ pc'[g] \in {"pop", "user"} => current'[g] = proc'[g]
    BY <1>1, <2>2
  <2> QED
    BY <1>5, <2>3 DEF QueueOwn
<1>7. PagesOwn' /\ EntriesOwn'
  BY <1>1, <1>2, <1>5, PagesKept, StatusSet DEF OwnData
<1> QED
  BY <1>5, <1>6, <1>7 DEF OwnData

(* An instruction of a hart, when no two harts are or come into one section. *)
LEMMA StepOwn ==
  ASSUME TypeOK, OwnData, ~Crowded, ~Crowded', NEW h \in Hart, Step(h)
  PROVE  OwnData'
<1> USE Zenon
<1>1. /\ {"put", "load_put", "V5", "load_V"} \subseteq Label
      /\ {"take", "put", "V5", "load_take", "load_put", "load_V"} \cap (Queueing \cup {"user"}) = {}
      /\ Alike("take", "put") /\ Alike("put", "V5")
      /\ Alike("load_take", "load_put") /\ Alike("load_put", "load_V")
  BY SMT DEF Alike, Found, LeftS, ArrivedS, LeftM, ArrivedM, Label, StatusAt, Holding3, Queueing
<1>2. CASE QuietStep(h)
  BY <1>2, QuietOwn
<1>3. CASE Search(h)
  BY <1>3, SearchOwn
<1>4. CASE Take(h, "take", "put")
  BY <1>1, <1>4, TakeOwn
<1>5. CASE Put(h, "put", "V5")
  BY <1>1, <1>5, PutOwn
<1>6. CASE Mark(h)
  BY <1>6, MarkOwn
<1>7. CASE Take(h, "load_take", "load_put")
  BY <1>1, <1>7, TakeOwn
<1>8. CASE Put(h, "load_put", "load_V")
  BY <1>1, <1>8, PutOwn
<1>9. CASE Insert(h)
  BY <1>9, InsertOwn
<1>10. CASE LinkIn(h)
  BY <1>10, LinkOwn
<1>11. CASE Schedule(h)
  BY <1>11, ScheduleOwn
<1>12. CASE Pop(h)
  BY <1>12, PopOwn
<1> QED
  BY <1>2, <1>3, <1>4, <1>5, <1>6, <1>7, <1>8, <1>9, <1>10, <1>11, <1>12
  DEF Step, Instruction, AllocProcess, LoadElf, QuietStep

(* Every instruction keeps a record of two harts in one section. *)
LEMMA RacedStep ==
  ASSUME NEW h \in Hart, Step(h)
  PROVE  raced' = (raced \/ Crowded')
<1> QED
  BY Zenon DEF Step, Instruction, AllocProcess, LoadElf, Goto, MStart, MAdd, MSpin, SStart, SAdd,
     SSpin, P3, Sub3, Search, P5, Sub5, Take, Put, V5, Mark, V3, Insert, LinkIn, Schedule, Pop

LEMMA OwnInvStep == ASSUME IInv', OwnInv, [Next]_vars PROVE OwnInv'
<1> USE Zenon
<1>1. CASE UNCHANGED vars
  BY <1>1 DEF OwnInv, TypeOK, ControlOK, Crowded, At, PagesOwn, EntriesOwn, QueueOwn, InQueue,
     vars, sync, pages, queue
<1>2. CASE Next
  <2>1. PICK h \in Hart : Step(h)
    BY <1>2 DEF Next
  <2>2. raced' = (raced \/ Crowded')
    BY <2>1, RacedStep
  <2>3. TypeOK'
    BY <2>1, DataType DEF OwnInv, IInv
  <2>4. ASSUME ~raced' PROVE OwnData'
    BY <2>1, <2>2, <2>4, StepOwn DEF OwnInv, OwnData
  <2> QED
    BY <2>2, <2>3, <2>4 DEF OwnInv, OwnData
<1> QED
  BY <1>1, <1>2

LEMMA OwnInvInit == Init => OwnInv
<1> SUFFICES ASSUME Init PROVE OwnInv
  OBVIOUS
<1>1. IInv
  BY Initially
<1>2. /\ "m_start" \notin Holding3 \cup Holding5 \cup Queueing \cup Found
      /\ "m_start" \notin {"schedule", "pop", "link", "user", "put", "load_put"}
  BY SMT DEF Found, LeftS, ArrivedS, LeftM, ArrivedM, Label, Holding3, Holding5, Queueing
<1>3. TypeOK
  BY Zenon, <1>1, Nulls DEF Init, TypeOK, IInv, Status, Page
<1>4. ~Crowded
  BY Zenon, <1>2 DEF Init, Crowded, At
<1>5. PagesOwn /\ machine = "on"
  BY <1>2 DEF Init, PagesOwn
<1>6. EntriesOwn
  BY Zenon, <1>2 DEF Init, EntriesOwn
<1>7. QueueOwn
  BY Zenon, <1>2 DEF Init, QueueOwn
<1> QED
  BY <1>3, <1>4, <1>5, <1>6, <1>7 DEF OwnInv

(* As long as the sections of alloc_process, alloc_page and the ready queue *)
(* have kept the harts apart, the free list, procs[] and the queue are what *)
(* each hart takes them for.                                                *)
THEOREM OwnInvariance == Spec => []OwnInv
<1>1. IInv /\ IInv' /\ OwnInv /\ [Next]_vars => OwnInv'
  BY OwnInvStep
<1> QED
  BY <1>1, OwnInvInit, Invariance, PTL DEF Spec

(* The harts stay at the instructions of the start, and alloc_process and  *)
(* elf_load take no page more than they need.                              *)
THEOREM TypeCorrect == Spec => []TypeOK
<1>1. OwnInv => TypeOK
  BY Zenon DEF OwnInv
<1> QED
  BY <1>1, OwnInvariance, PTL

(* Where sem_P and the time between two harts keep them apart, every hart   *)
(* has its own entry of procs[] and its own pages, and runs that entry, for *)
(* any number of harts.                                                     *)
THEOREM ProcessesOwned == Spec => []OwnProcess
<1>1. OwnInv => OwnProcess
  BY Zenon DEF OwnInv, OwnProcess, PagesOwn, EntriesOwn, QueueOwn
<1> QED
  BY <1>1, OwnInvariance, PTL

=============================================================================
