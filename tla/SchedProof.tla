----------------------------- MODULE SchedProof -----------------------------
(***************************************************************************)
(* Proofs, for every NPROC, TIME_SLICE_LEN, MaxSem and MaxVal, that IInv   *)
(* is an inductive invariant of Sched and implies its safety properties.   *)
(***************************************************************************)
EXTENDS SchedInv, TLAPS

-----------------------------------------------------------------------------
(* Sequences without repetitions.                                         *)

(* Part of a sequence. *)
LEMMA Slice ==
  ASSUME NEW S, NEW q \in Seq(S), NEW m \in 1 .. Len(q) + 1, NEW n \in m - 1 .. Len(q)
  PROVE  /\ SubSeq(q, m, n) \in Seq(S)
         /\ Len(SubSeq(q, m, n)) = n - m + 1
         /\ DOMAIN SubSeq(q, m, n) = 1 .. n - m + 1
         /\ \A i \in 1 .. n - m + 1 : SubSeq(q, m, n)[i] = q[m + i - 1]
<1>1. Len(q) \in Nat /\ m \in Int /\ n \in Int
  OBVIOUS
<1>2. \A i \in m .. n : q[i] \in S
  BY <1>1
<1>3. /\ SubSeq(q, m, n) \in Seq(S)
      /\ Len(SubSeq(q, m, n)) = IF m <= n THEN n - m + 1 ELSE 0
      /\ \A i \in 1 .. n - m + 1 : SubSeq(q, m, n)[i] = q[m + i - 1]
  BY <1>1, <1>2
<1>4. Len(SubSeq(q, m, n)) = n - m + 1
  BY <1>1, <1>3
<1> QED  BY <1>3, <1>4

(* A new element at the end of a sequence without repetitions. *)
LEMMA AppendQueue ==
  ASSUME NEW S, NEW q \in Seq(S), NEW x \in S,
         IsInjective(q), x \notin Range(q)
  PROVE  /\ Append(q, x) \in Seq(S)
         /\ Append(q, x) # <<>>
         /\ IsInjective(Append(q, x))
         /\ Range(Append(q, x)) = Range(q) \union {x}
<1> DEFINE r == Append(q, x)
<1>1. /\ r \in Seq(S) /\ Len(r) = Len(q) + 1 /\ r # <<>>
      /\ DOMAIN r = 1 .. Len(q) + 1 /\ DOMAIN q = 1 .. Len(q)
      /\ r[Len(q) + 1] = x
      /\ \A i \in 1 .. Len(q) : r[i] = q[i]
  OBVIOUS
<1>2. Len(q) \in Nat
  OBVIOUS
<1> HIDE DEF r
<1>3. Range(r) = Range(q) \union {x}
  <2>1. \A i \in 1 .. Len(q) + 1 : i \in 1 .. Len(q) \/ i = Len(q) + 1
    BY <1>2
  <2>2. 1 .. Len(q) \subseteq 1 .. Len(q) + 1 /\ Len(q) + 1 \in 1 .. Len(q) + 1
    BY <1>2
  <2> QED  BY Zenon, <1>1, <2>1, <2>2 DEF Range
<1>4. IsInjective(r)
  <2> SUFFICES ASSUME NEW a \in 1 .. Len(q) + 1, NEW b \in 1 .. Len(q) + 1, r[a] = r[b]
               PROVE  a = b
    BY Zenon, <1>1 DEF IsInjective
  <2>1. \A i \in 1 .. Len(q) : q[i] # x
    BY Zenon, <1>1 DEF Range
  <2> QED  BY <1>1, <1>2, <2>1 DEF IsInjective
<1> QED  BY Zenon, <1>1, <1>3, <1>4 DEF r

(* The head of a sequence without repetitions is gone from its tail. *)
LEMMA TailQueue ==
  ASSUME NEW S, NEW q \in Seq(S), q # <<>>, IsInjective(q)
  PROVE  /\ Head(q) \in S
         /\ Head(q) \in Range(q)
         /\ Tail(q) \in Seq(S)
         /\ IsInjective(Tail(q))
         /\ Range(Tail(q)) = Range(q) \ {Head(q)}
<1> DEFINE r == Tail(q)
<1>1. /\ r \in Seq(S) /\ Len(q) \in Nat /\ Len(q) # 0
      /\ DOMAIN q = 1 .. Len(q) /\ DOMAIN r = 1 .. Len(q) - 1
      /\ \A i \in 1 .. Len(q) - 1 : r[i] = q[i + 1]
      /\ Head(q) = q[1] /\ Head(q) \in S
  OBVIOUS
<1> HIDE DEF r
<1>2. 1 \in DOMAIN q
  BY <1>1
<1>3. Range(r) = Range(q) \ {q[1]}
  <2>1. ASSUME NEW i \in DOMAIN r
        PROVE  r[i] \in Range(q) /\ r[i] # q[1]
    <3>1. i + 1 \in DOMAIN q /\ i + 1 # 1 /\ r[i] = q[i + 1]
      BY <1>1
    <3> QED  BY Zenon, <1>2, <3>1 DEF Range, IsInjective
  <2>2. ASSUME NEW i \in DOMAIN q, q[i] # q[1]
        PROVE  i - 1 \in DOMAIN r /\ r[i - 1] = q[i]
    <3>1. i # 1 /\ i \in 1 .. Len(q)
      BY Zenon, <1>1, <2>2
    <3>2. i - 1 \in 1 .. Len(q) - 1 /\ (i - 1) + 1 = i
      BY <1>1, <3>1
    <3> QED  BY Zenon, <1>1, <3>2
  <2> QED  BY <2>1, <2>2 DEF Range
<1>4. IsInjective(r)
  <2> SUFFICES ASSUME NEW a \in DOMAIN r, NEW b \in DOMAIN r, r[a] = r[b]
               PROVE  a = b
    BY Zenon DEF IsInjective
  <2>1. a + 1 \in DOMAIN q /\ b + 1 \in DOMAIN q /\ q[a + 1] = q[b + 1]
    BY <1>1
  <2>2. a + 1 = b + 1
    BY Zenon, <2>1 DEF IsInjective
  <2> QED  BY <2>2, <1>1
<1> QED  BY Zenon, <1>1, <1>2, <1>3, <1>4 DEF r, Range

(* A new element at the front of a sequence without repetitions. *)
LEMMA ConsQueue ==
  ASSUME NEW S, NEW q \in Seq(S), NEW x \in S,
         IsInjective(q), x \notin Range(q)
  PROVE  /\ <<x>> \o q \in Seq(S)
         /\ IsInjective(<<x>> \o q)
         /\ Range(<<x>> \o q) = Range(q) \union {x}
<1> DEFINE r == <<x>> \o q
<1>1. /\ r \in Seq(S) /\ Len(q) \in Nat
      /\ DOMAIN q = 1 .. Len(q) /\ DOMAIN r = 1 .. Len(q) + 1
      /\ r[1] = x
      /\ \A i \in 2 .. Len(q) + 1 : r[i] = q[i - 1]
  OBVIOUS
<1> HIDE DEF r
<1>2. \A i \in DOMAIN q : i + 1 \in DOMAIN r /\ r[i + 1] = q[i] /\ q[i] # x
  BY <1>1 DEF Range
<1>3. \A i \in DOMAIN r : i = 1 \/ (i - 1 \in DOMAIN q /\ r[i] = q[i - 1])
  BY <1>1
<1>4. Range(r) = Range(q) \union {x}
  BY <1>1, <1>2, <1>3, 1 \in DOMAIN r DEF Range
<1>5. IsInjective(r)
  <2> SUFFICES ASSUME NEW a \in DOMAIN r, NEW b \in DOMAIN r, r[a] = r[b]
               PROVE  a = b
    BY Zenon DEF IsInjective
  <2> QED  BY SMTT(30), <1>1, <1>2, <1>3 DEF IsInjective
<1> QED  BY Zenon, <1>1, <1>4, <1>5 DEF r

-----------------------------------------------------------------------------
USE NPROCAssumption

(***************************************************************************)
(* Taking one element out of a queue without repetitions.                  *)
(***************************************************************************)
LEMMA RemoveQueue ==
  ASSUME NEW S, NEW q \in Seq(S), NEW i \in DOMAIN q, IsInjective(q)
  PROVE  /\ q[i] \in S
         /\ q[i] \in Range(q)
         /\ Unlink(q, i) \in Seq(S)
         /\ IsInjective(Unlink(q, i))
         /\ Range(Unlink(q, i)) = Range(q) \ {q[i]}
<1> DEFINE r == Unlink(q, i)
<1>1. /\ Len(q) \in Nat /\ i \in 1 .. Len(q) /\ DOMAIN q = 1 .. Len(q)
      /\ q[i] \in S
  OBVIOUS
<1> DEFINE u == SubSeq(q, 1, i - 1)
           v == SubSeq(q, i + 1, Len(q))
<1>2. /\ u \in Seq(S) /\ Len(u) = i - 1
      /\ \A j \in 1 .. i - 1 : u[j] = q[j]
  <2>1. 1 \in 1 .. Len(q) + 1 /\ i - 1 \in 1 - 1 .. Len(q)
    BY <1>1
  <2>2. /\ SubSeq(q, 1, i - 1) \in Seq(S)
        /\ Len(SubSeq(q, 1, i - 1)) = i - 1 - 1 + 1
        /\ DOMAIN SubSeq(q, 1, i - 1) = 1 .. i - 1 - 1 + 1
        /\ \A j \in 1 .. i - 1 - 1 + 1 : SubSeq(q, 1, i - 1)[j] = q[1 + j - 1]
    BY <2>1, Slice
  <2>3. i - 1 - 1 + 1 = i - 1 /\ \A j \in Int : 1 + j - 1 = j
    BY <1>1
  <2> QED  BY <1>1, <2>2, <2>3
<1>3. /\ v \in Seq(S) /\ Len(v) = Len(q) - i
      /\ \A j \in 1 .. Len(q) - i : v[j] = q[i + j]
  <2>1. i + 1 \in 1 .. Len(q) + 1 /\ Len(q) \in i + 1 - 1 .. Len(q)
    BY <1>1
  <2>2. /\ SubSeq(q, i + 1, Len(q)) \in Seq(S)
        /\ Len(SubSeq(q, i + 1, Len(q))) = Len(q) - (i + 1) + 1
        /\ DOMAIN SubSeq(q, i + 1, Len(q)) = 1 .. Len(q) - (i + 1) + 1
        /\ \A j \in 1 .. Len(q) - (i + 1) + 1 : SubSeq(q, i + 1, Len(q))[j] = q[i + 1 + j - 1]
    BY <2>1, Slice
  <2>3. Len(q) - (i + 1) + 1 = Len(q) - i /\ \A j \in Int : i + 1 + j - 1 = i + j
    BY <1>1
  <2>4. v \in Seq(S) /\ Len(v) = Len(q) - i
    BY Zenon, <2>2, <2>3
  <2>5. ASSUME NEW j \in 1 .. Len(q) - i
        PROVE  v[j] = q[i + j]
    <3>1. j \in 1 .. Len(q) - (i + 1) + 1 /\ i + 1 + j - 1 = i + j
      BY <2>3
    <3>2. SubSeq(q, i + 1, Len(q))[j] = q[i + 1 + j - 1]
      BY Zenon, <2>2, <3>1
    <3>3. q[i + 1 + j - 1] = q[i + j]
      BY Zenon, <3>1
    <3> QED  BY Zenon, <3>2, <3>3
  <2> QED  BY Zenon, <2>4, <2>5
<1> HIDE DEF u, v
<1>4. /\ r \in Seq(S)
      /\ DOMAIN r = 1 .. Len(q) - 1
      /\ \A j \in 1 .. Len(q) - 1 : r[j] = IF j < i THEN q[j] ELSE q[j + 1]
  <2>1. r = u \o v
    BY Zenon DEF Unlink, u, v
  <2> HIDE DEF r
  <2>2. /\ r \in Seq(S) /\ Len(r) = Len(u) + Len(v)
        /\ \A j \in 1 .. Len(u) + Len(v) :
             r[j] = IF j <= Len(u) THEN u[j] ELSE v[j - Len(u)]
    <3>1. u \in Seq(S) /\ v \in Seq(S)
      BY Zenon, <1>2, <1>3
    <3> QED  BY <2>1, <3>1
  <2>3. ASSUME NEW j \in 1 .. Len(q) - 1
        PROVE  r[j] = IF j < i THEN q[j] ELSE q[j + 1]
    <3>1. CASE j < i
      BY SMTT(30), <1>1, <1>2, <1>3, <2>2, <3>1, j \in 1 .. i - 1
    <3>2. CASE ~(j < i)
      <4>1. j - (i - 1) \in 1 .. Len(q) - i /\ i + (j - (i - 1)) = j + 1
        BY <1>1, <3>2
      <4>2. j \in 1 .. Len(u) + Len(v) /\ ~(j <= Len(u)) /\ Len(u) = i - 1
        BY <1>1, <1>2, <1>3, <3>2
      <4>3. r[j] = v[j - (i - 1)]
        BY Zenon, <2>2, <4>2
      <4>4. v[j - (i - 1)] = q[j + 1]
        BY Zenon, <1>3, <4>1
      <4> QED  BY Zenon, <3>2, <4>3, <4>4
    <3> QED  BY Zenon, <3>1, <3>2
  <2> QED  BY <1>1, <1>2, <1>3, <2>2, <2>3
<1> HIDE DEF r
<1>5. Range(r) = Range(q) \ {q[i]}
  <2>1. ASSUME NEW j \in DOMAIN r
        PROVE  r[j] \in Range(q) /\ r[j] # q[i]
    <3>1. CASE j < i
      BY <1>1, <1>4, <3>1, j \in DOMAIN q DEF Range, IsInjective
    <3>2. CASE ~(j < i)
      BY <1>1, <1>4, <3>2, j + 1 \in DOMAIN q, j + 1 # i DEF Range, IsInjective
    <3> QED  BY Zenon, <3>1, <3>2
  <2>2. ASSUME NEW j \in DOMAIN q, q[j] # q[i]
        PROVE  \E k \in DOMAIN r : r[k] = q[j]
    <3>1. CASE j < i
      BY <1>1, <1>4, <3>1, j \in DOMAIN r
    <3>2. CASE j > i
      BY <1>1, <1>4, <3>2, j - 1 \in DOMAIN r
    <3> QED  BY <1>1, <2>2, <3>1, <3>2
  <2> QED  BY <2>1, <2>2 DEF Range
<1>6. IsInjective(r)
  <2> SUFFICES ASSUME NEW a \in DOMAIN r, NEW b \in DOMAIN r, r[a] = r[b]
               PROVE  a = b
    BY Zenon DEF IsInjective
  <2> DEFINE at(j) == IF j < i THEN j ELSE j + 1
  <2>1. at(a) \in DOMAIN q /\ at(b) \in DOMAIN q /\ q[at(a)] = q[at(b)]
    BY <1>1, <1>4
  <2>2. at(a) = at(b)
    BY Zenon, <2>1 DEF IsInjective
  <2> QED  BY <2>2, <1>1, <1>4
<1> QED  BY Zenon, <1>1, <1>4, <1>5, <1>6 DEF r, Range

(* Entries of procs[], copies and NULL are different numbers. *)
LEMMA Numbers ==
  /\ Slot \subseteq PCB
  /\ NULL \notin Slot /\ NULL \notin PCB
  /\ \A k \in Slot : Copy(k) \in PCB /\ Copy(k) \notin Slot
  /\ \A j, k \in Slot : Copy(j) = Copy(k) => j = k
  /\ 0 \in Slot
BY DEF Slot, PCB, NULL, Copy

(***************************************************************************)
(* Moving live processes between the queues and the hart, and giving them  *)
(* another active status, keeps the bookkeeping consistent.                *)
(***************************************************************************)
LEMMA Restatus ==
  ASSUME NEW st \in [PCB -> Status], NEW pd, NEW pa, NEW cx,
         NEW R, NEW W, NEW C,
         Consistent(st, pd, pa, cx, R, W, C),
         NEW st2 \in [PCB -> Status], NEW R2, NEW W2, NEW C2,
         R2 \union W2 \union C2 = R \union W \union C,
         QueuesOK(st2, R2, W2, C2),
         \A i \in PCB : st2[i] # st[i] => i \in R \union W \union C /\ st2[i] \in Active
  PROVE  Consistent(st2, pd, pa, cx, R2, W2, C2)
<1> USE Zenon
<1> DEFINE L == R \union W \union C
<1>1. /\ Identity(pd, cx, L) /\ FreeFresh(st, pd, pa, cx, L)
      /\ Accounted(st, pd, pa, L) /\ Parents(pd, pa, L)
      /\ R2 \union W2 \union C2 = L
  BY DEF Consistent
<1>2. \A i \in PCB : st2[i] # st[i] => i \in L /\ st2[i] \in Active
  OBVIOUS
<1> HIDE DEF L
<1>3. FreeFresh(st2, pd, pa, cx, L)
  BY <1>1, <1>2, Numbers DEF FreeFresh, Active
<1>4. Accounted(st2, pd, pa, L)
  <2>1. \A p \in L : st2[pd[p]] \notin {"FREE", "ZOMBIE"}
    BY <1>1, <1>2, Numbers DEF Accounted, Identity, Active
  <2>2. \A i \in Slot : st2[i] \in Active => \E p \in L : pd[p] = pd[i]
    BY <1>1, <1>2, Numbers DEF Accounted
  <2>3. \A i \in Slot : st2[i] \in Active =>
          \A p \in L : pd[p] = pd[i] => pa[p] = pa[i]
    BY ZenonT(40), <1>1, <1>2, Numbers DEF Accounted, Identity
  <2>4. \A i \in Slot : st2[i] = "USED" => pa[i] = NULL
    BY <1>1, <1>2, Numbers DEF Accounted, Active
  <2> QED  BY <2>1, <2>2, <2>3, <2>4 DEF Accounted
<1> QED  BY <1>1, <1>3, <1>4 DEF Consistent

(***************************************************************************)
(* The two ends of schedule(): a dispatch of the ready queue's head, and   *)
(* the decision between shutdown and panic when there is none.             *)
(***************************************************************************)
Scheduled(pd, pa, cx, W, L) ==
  /\ machine' \in Machine \ {"assert"}
  /\ status' \in [PCB -> Status] /\ current' \in PCB
  /\ readyQ' \in Seq(PCB) /\ IsInjective(readyQ')
  /\ QueuesOK(status', Range(readyQ'), W, {})
  /\ InUser' =>
       /\ Consistent(status', pd, pa, cx, Range(readyQ'), W, {current'})
       /\ Range(readyQ') \union W \union {current'} = L

(* schedule() from its dispatch of the ready queue's head on. *)
LEMMA RunHeadOK ==
  ASSUME NEW st \in [PCB -> Status], NEW pd, NEW pa, NEW cx,
         NEW rq \in Seq(PCB), IsInjective(rq), NEW W,
         Consistent(st, pd, pa, cx, Range(rq), W, {}),
         InUser, current \in PCB, RunHead(st, rq)
  PROVE  Scheduled(pd, pa, cx, W, Range(rq) \union W)
<1> USE Zenon
<1>1. CASE rq = <<>> /\ Stop("null_ready", st, rq)
  BY <1>1 DEF Stop, InUser, Consistent, QueuesOK, Scheduled, Machine
<1>2. ASSUME rq # <<>>
      PROVE  /\ Head(rq) \in PCB /\ Head(rq) \in Range(rq)
             /\ Tail(rq) \in Seq(PCB) /\ IsInjective(Tail(rq))
             /\ Range(Tail(rq)) = Range(rq) \ {Head(rq)}
             /\ st[Head(rq)] = "READY"
  <2>1. /\ Head(rq) \in PCB /\ Head(rq) \in Range(rq)
        /\ Tail(rq) \in Seq(PCB) /\ IsInjective(Tail(rq))
        /\ Range(Tail(rq)) = Range(rq) \ {Head(rq)}
    BY <1>2, TailQueue
  <2> QED  BY <2>1 DEF Consistent, QueuesOK
<1>3. ASSUME rq # <<>>, current' = Head(rq), readyQ' = Tail(rq),
             status' = [st EXCEPT ![Head(rq)] = "RUNNING"], UNCHANGED machine
      PROVE  /\ machine' \in {"user", "null_ready"}
             /\ status' \in [PCB -> Status] /\ current' \in PCB
             /\ readyQ' \in Seq(PCB) /\ IsInjective(readyQ')
             /\ QueuesOK(status', Range(readyQ'), W, {current'})
             /\ Range(readyQ') \union W \union {current'} = Range(rq) \union W
             /\ \A i \in PCB : status'[i] # st[i] =>
                  i \in Range(rq) \union W \union {} /\ status'[i] \in Active
  <2> DEFINE h == Head(rq)
             R == Range(rq)
  <2>1. /\ h \in PCB /\ h \in R /\ Tail(rq) \in Seq(PCB)
        /\ IsInjective(Tail(rq)) /\ Range(Tail(rq)) = R \ {h} /\ st[h] = "READY"
    BY <1>2, <1>3
  <2>2. QueuesOK(st, R, W, {})
    BY DEF Consistent
  <2>3. status' = [st EXCEPT ![h] = "RUNNING"] /\ current' = h /\ Range(readyQ') = R \ {h}
    BY <1>3, <2>1
  <2>4. readyQ' \in Seq(PCB) /\ IsInjective(readyQ') /\ machine' \in {"user", "null_ready"}
    BY <1>3, <2>1 DEF InUser
  <2> HIDE DEF h, R
  <2>5. status' \in [PCB -> Status]
    BY <2>1, <2>3 DEF Status
  <2>6. QueuesOK(status', R \ {h}, W, {h})
    BY <2>1, <2>2, <2>3 DEF QueuesOK
  <2>7. (R \ {h}) \union W \union {h} = R \union W
    BY <2>1
  <2>8. \A i \in PCB : status'[i] # st[i] => i \in R /\ status'[i] \in Active
    BY <2>1, <2>3 DEF Active
  <2> QED  BY <2>1, <2>3, <2>4, <2>5, <2>6, <2>7, <2>8 DEF R
<1>4. CASE /\ rq # <<>>
           /\ current' = Head(rq) /\ readyQ' = Tail(rq)
           /\ status' = [st EXCEPT ![Head(rq)] = "RUNNING"] /\ UNCHANGED machine
  <2>1. Consistent(status', pd, pa, cx, Range(readyQ'), W, {current'})
    <3> DEFINE R == Range(rq)
               R2 == Range(readyQ')
    <3>1. /\ status' \in [PCB -> Status]
          /\ QueuesOK(status', R2, W, {current'})
          /\ R2 \union W \union {current'} = R \union W \union {}
          /\ \A i \in PCB : status'[i] # st[i] =>
               i \in R \union W \union {} /\ status'[i] \in Active
          /\ Consistent(st, pd, pa, cx, R, W, {})
      BY <1>3, <1>4
    <3> HIDE DEF R, R2
    <3>2. Consistent(status', pd, pa, cx, R2, W, {current'})
      BY SMT, <3>1, Restatus
    <3> QED  BY <3>2 DEF R2
  <2>2. QueuesOK(status', Range(readyQ'), W, {})
    BY <2>1 DEF Consistent, QueuesOK
  <2> QED  BY <1>3, <1>4, <2>1, <2>2 DEF Scheduled, Machine
<1> QED  BY <1>1, <1>2, <1>4 DEF RunHead

(* All of schedule(0). *)
LEMMA DispatchOK ==
  ASSUME NEW st \in [PCB -> Status], NEW pd, NEW pa, NEW cx,
         NEW rq \in Seq(PCB), IsInjective(rq), NEW W,
         Consistent(st, pd, pa, cx, Range(rq), W, {}),
         InUser, current \in PCB, Dispatch(st, rq)
  PROVE  Scheduled(pd, pa, cx, W, Range(rq) \union W)
<1> USE Zenon
<1>1. CASE rq = <<>>
  <2>1. Stop(IF AllGone(st) THEN "shutdown" ELSE "panic", st, rq)
    BY <1>1 DEF Dispatch
  <2>2. QueuesOK(st, Range(rq), W, {})
    BY DEF Consistent
  <2> QED  BY <1>1, <2>1, <2>2 DEF Stop, InUser, Machine, Scheduled
<1>2. CASE rq # <<>>
  <2>1. RunHead(st, rq)
    BY <1>2 DEF Dispatch
  <2> QED  BY <2>1, RunHeadOK
<1> QED  BY <1>1, <1>2

(* Only an empty ready queue with all entries FREE or ZOMBIE shuts down. *)
LEMMA NoShutdown ==
  ASSUME InUser, NEW st, NEW rq
  PROVE  /\ RunHead(st, rq) => machine' # "shutdown"
         /\ Dispatch(st, rq) /\ (rq # <<>> \/ ~AllGone(st)) => machine' # "shutdown"
BY Zenon DEF RunHead, Dispatch, Stop, InUser

(* insert_to_ready_queue and insert_to_wait_queue of a process that is not queued. *)
LEMMA EnqueueOK ==
  ASSUME NEW q \in Seq(PCB), IsInjective(q), NEW x \in PCB, x \notin Range(q)
  PROVE  /\ Enqueue(q, x) \in Seq(PCB) /\ Enqueue(q, x) # <<>>
         /\ IsInjective(Enqueue(q, x))
         /\ Range(Enqueue(q, x)) = Range(q) \union {x}
         /\ \A st, s : Marked(st, q, x, s) = [st EXCEPT ![x] = s]
BY AppendQueue DEF Enqueue, Marked

(***************************************************************************)
(* What IInv says while a process runs.                                    *)
(***************************************************************************)
LEMMA InUserFacts ==
  ASSUME IInv, InUser
  PROVE  /\ Consistent(status, pid, parent, ctx, Range(readyQ), Range(waitQ), {current})
         /\ current \in PCB /\ current \notin Range(readyQ) /\ current \notin Range(waitQ)
         /\ pid[current] \in Slot /\ ctx[current] \in Slot
         /\ \A p \in Range(readyQ) \union Range(waitQ) :
              /\ p \in PCB /\ pid[p] \in Slot /\ ctx[p] \in Slot
              /\ pid[p] # pid[current] /\ ctx[p] # ctx[current]
<1> USE Zenon
<1>1. Consistent(status, pid, parent, ctx, Range(readyQ), Range(waitQ), {current})
  BY DEF IInv
<1>2. QueuesOK(status, Range(readyQ), Range(waitQ), {current})
  BY <1>1 DEF Consistent
<1>3. Identity(pid, ctx, Range(readyQ) \union Range(waitQ) \union {current})
  BY <1>1 DEF Consistent
<1> QED  BY <1>1, <1>2, <1>3 DEF QueuesOK, Identity

(* Awaited depends only on the registers of the processes that wait. *)
LEMMA AwaitedKept ==
  ASSUME IInv, InUser, NEW reg,
         \A k \in Slot : k # ctx[current] => reg[k] = a0[k]
  PROVE  Awaited(pid, parent, ctx, reg, Range(waitQ),
                 Range(readyQ) \union Range(waitQ) \union {current})
<1> USE Zenon
<1>1. Awaited(pid, parent, ctx, a0, Range(waitQ),
              Range(readyQ) \union Range(waitQ) \union {current})
  BY DEF IInv
<1> QED  BY <1>1, InUserFacts DEF Awaited

(* Giving up the hart: yield and the end of a time slice. *)
LEMMA GiveUpOK ==
  ASSUME IInv, InUser, GiveUp,
         a0' \in [Slot -> Int], tick' \in [PCB -> 0 .. TIME_SLICE_LEN - 1],
         \A k \in Slot : k # ctx[current] => a0'[k] = a0[k]
  PROVE  IInv'
<1> USE Zenon
<1> DEFINE R == Range(readyQ)
           W == Range(waitQ)
           rq == Enqueue(readyQ, current)
           st == [status EXCEPT ![current] = "READY"]
<1>1. TypeOK /\ IsInjective(readyQ) /\ IsInjective(waitQ)
  BY DEF IInv
<1>2. /\ rq \in Seq(PCB) /\ rq # <<>> /\ IsInjective(rq)
      /\ Range(rq) = R \union {current}
      /\ Marked(status, readyQ, current, "READY") = st
  <2>1. readyQ \in Seq(PCB) /\ current \in PCB /\ current \notin Range(readyQ)
    BY <1>1, InUserFacts DEF TypeOK
  <2> QED  BY SMT, <1>1, <2>1, EnqueueOK
<1>3. Dispatch(st, rq) /\ UNCHANGED <<ids, sem, waitQ, sems>>
  BY <1>2 DEF GiveUp
<1>4. Consistent(st, pid, parent, ctx, Range(rq), W, {})
  <2>1. Consistent(status, pid, parent, ctx, R, W, {current})
    BY InUserFacts
  <2>2. QueuesOK(status, R, W, {current})
    BY <2>1 DEF Consistent
  <2>3. status \in [PCB -> Status] /\ st \in [PCB -> Status] /\ current \in PCB
    BY <1>1, InUserFacts DEF TypeOK, Status
  <2>4. /\ QueuesOK(st, R \union {current}, W, {})
        /\ \A i \in PCB : st[i] # status[i] =>
             i \in R \union W \union {current} /\ st[i] \in Active
    <3> HIDE DEF R, W
    <3> QED  BY <2>2, <2>3 DEF QueuesOK, Active
  <2>5. (R \union {current}) \union W \union {} = R \union W \union {current}
    OBVIOUS
  <2> HIDE DEF R, W, st
  <2>6. Consistent(st, pid, parent, ctx, R \union {current}, W, {})
    BY SMT, <2>1, <2>3, <2>4, <2>5, Restatus
  <2> QED  BY <1>2, <2>6
<1>5. st \in [PCB -> Status] /\ current \in PCB
  BY <1>1 DEF TypeOK, Status
<1>6. Awaited(pid, parent, ctx, a0', W, R \union W \union {current})
  BY AwaitedKept
<1>7. R \union W \union {current} = Range(rq) \union W
  BY <1>2
<1> HIDE DEF R, rq, st
<1>8. Scheduled(pid, parent, ctx, W, Range(rq) \union W)
  BY <1>2, <1>3, <1>4, <1>5, DispatchOK
<1>9. machine' # "shutdown"
  BY <1>2, <1>3, NoShutdown
<1>10. TypeOK'
  BY <1>1, <1>3, <1>8 DEF TypeOK, ids, sems, Scheduled
<1> QED  BY <1>1, <1>3, <1>6, <1>7, <1>8, <1>9, <1>10
         DEF IInv, ids, ShutdownOnlyWhenDone, Scheduled

(* Blocking: wait and P. *)
LEMMA BlockOK ==
  ASSUME IInv, InUser, NEW number \in Int, Block(number),
         sem' \in [PCB -> 0 .. MaxSem], l' \in [Sem -> Int], len' \in 0 .. MaxSem,
         number = SYS_user_wait =>
           \E c \in Range(readyQ) \union Range(waitQ) :
             parent[c] # NULL /\ pid[parent[c]] = pid[current]
  PROVE  IInv'
<1> USE Zenon
<1> DEFINE R == Range(readyQ)
           W == Range(waitQ)
           wq == Enqueue(waitQ, current)
           st == [status EXCEPT ![current] = "BLOCKED"]
<1>1. TypeOK /\ IsInjective(readyQ) /\ IsInjective(waitQ)
  BY DEF IInv
<1>2. /\ wq \in Seq(PCB) /\ IsInjective(wq) /\ Range(wq) = W \union {current}
      /\ Marked(status, waitQ, current, "BLOCKED") = st
  <2>1. waitQ \in Seq(PCB) /\ current \in PCB /\ current \notin Range(waitQ)
    BY <1>1, InUserFacts DEF TypeOK
  <2> QED  BY SMT, <1>1, <2>1, EnqueueOK
<1>3. /\ waitQ' = wq /\ Dispatch(st, readyQ) /\ UNCHANGED <<ids, tick>>
      /\ a0' = [a0 EXCEPT ![ctx[current]] = number]
  BY <1>2 DEF Block
<1>4. Consistent(st, pid, parent, ctx, R, W \union {current}, {})
  <2>1. Consistent(status, pid, parent, ctx, R, W, {current})
    BY InUserFacts
  <2>2. QueuesOK(status, R, W, {current})
    BY <2>1 DEF Consistent
  <2>3. status \in [PCB -> Status] /\ st \in [PCB -> Status] /\ current \in PCB
    BY <1>1, InUserFacts DEF TypeOK, Status
  <2>4. /\ QueuesOK(st, R, W \union {current}, {})
        /\ \A i \in PCB : st[i] # status[i] =>
             i \in R \union W \union {current} /\ st[i] \in Active
    <3> HIDE DEF R, W
    <3> QED  BY <2>2, <2>3 DEF QueuesOK, Active
  <2>5. R \union (W \union {current}) \union {} = R \union W \union {current}
    OBVIOUS
  <2> HIDE DEF R, W, st
  <2> QED  BY SMT, <2>1, <2>3, <2>4, <2>5, Restatus
<1>5. st \in [PCB -> Status] /\ current \in PCB /\ readyQ \in Seq(PCB)
  BY <1>1 DEF TypeOK, Status
<1>6. Awaited(pid, parent, ctx, a0', W \union {current}, R \union W \union {current})
  <2>1. \A k \in Slot : k # ctx[current] => a0'[k] = a0[k]
    BY <1>1, <1>3 DEF TypeOK
  <2>2. Awaited(pid, parent, ctx, a0', W, R \union W \union {current})
    BY <2>1, AwaitedKept
  <2>3. a0'[ctx[current]] = number
    BY <1>1, <1>3, InUserFacts DEF TypeOK
  <2>4. current \notin R /\ current \notin W
    BY InUserFacts
  <2> HIDE DEF R, W
  <2>5. number = SYS_user_wait =>
          \E c \in R \union W : parent[c] # NULL /\ pid[parent[c]] = pid[current]
    BY DEF R, W
  <2> QED  BY ZenonT(40), <2>2, <2>3, <2>4, <2>5 DEF Awaited
<1>7. ~AllGone(st)
  <2>1. /\ Accounted(status, pid, parent, R \union W \union {current})
        /\ pid[current] \in Slot /\ pid[current] \in PCB
    BY InUserFacts, Numbers DEF Consistent
  <2>2. status[pid[current]] \notin {"FREE", "ZOMBIE"}
    <3> HIDE DEF R, W
    <3> QED  BY <2>1 DEF Accounted
  <2>3. st[pid[current]] \notin {"FREE", "ZOMBIE"}
    BY <1>1, <2>1, <2>2 DEF TypeOK
  <2> QED  BY <2>1, <2>3 DEF AllGone
<1> HIDE DEF wq, st
<1>8. Scheduled(pid, parent, ctx, W \union {current}, R \union (W \union {current}))
  BY <1>1, <1>2, <1>3, <1>4, <1>5, DispatchOK
<1>9. machine' # "shutdown"
  BY <1>3, <1>7, NoShutdown
<1>10. TypeOK'
  BY <1>1, <1>2, <1>3, <1>8 DEF TypeOK, ids, Scheduled
<1>11. R \union (W \union {current}) = R \union W \union {current}
  OBVIOUS
<1> HIDE DEF R, W
<1> QED  BY <1>2, <1>3, <1>6, <1>8, <1>9, <1>10, <1>11
         DEF IInv, ids, ShutdownOnlyWhenDone, Scheduled

(***************************************************************************)
(* Handlers after which the caller goes on and at most the process that a  *)
(* V has woken changes queue.                                              *)
(***************************************************************************)
LEMMA ResumeOK ==
  ASSUME IInv, InUser, Resume, UNCHANGED <<status, readyQ, waitQ>>,
         a0' \in [Slot -> Int], \A k \in Slot : k # ctx[current] => a0'[k] = a0[k],
         sem' \in [PCB -> 0 .. MaxSem], l' \in [Sem -> Int], len' \in 0 .. MaxSem
  PROVE  IInv'
<1> USE Zenon
<1>1. Awaited(pid, parent, ctx, a0', Range(waitQ),
              Range(readyQ) \union Range(waitQ) \union {current})
  BY AwaitedKept
<1>2. TypeOK'
  BY DEF IInv, TypeOK, Resume, ids
<1> QED  BY <1>1, <1>2 DEF IInv, Resume, ids, InUser, ShutdownOnlyWhenDone

(* handle_syscall writes the a0 of the caller only. *)
LEMMA ReturnOK ==
  ASSUME IInv, InUser, NEW value \in Int, Return(value)
  PROVE  /\ a0' \in [Slot -> Int]
         /\ \A k \in Slot : k # ctx[current] => a0'[k] = a0[k]
BY Zenon, InUserFacts DEF IInv, TypeOK, Return

(* sys_user_yield preserves the invariant. *)
LEMMA YieldOK ==
  ASSUME IInv, Yield
  PROVE  IInv'
<1> USE Zenon
<1>1. InUser /\ GiveUp /\ a0' = [a0 EXCEPT ![ctx[current]] = SYS_user_yield] /\ tick' = tick
  BY DEF Yield
<1>2. TypeOK /\ ctx[current] \in Slot
  BY <1>1, InUserFacts DEF IInv
<1>3. /\ a0' \in [Slot -> Int] /\ tick' \in [PCB -> 0 .. TIME_SLICE_LEN - 1]
      /\ \A k \in Slot : k # ctx[current] => a0'[k] = a0[k]
  BY SMT, <1>1, <1>2 DEF TypeOK, SYS_user_yield
<1> QED  BY <1>1, <1>3, GiveUpOK

(* The timer trap (rrsched) preserves it. *)
LEMMA TickOK ==
  ASSUME IInv, Tick
  PROVE  IInv'
<1> USE Zenon
<1>1. InUser /\ TypeOK /\ a0' = a0
  BY DEF Tick, IInv
<1>2. a0' \in [Slot -> Int] /\ \A k \in Slot : k # ctx[current] => a0'[k] = a0[k]
  BY <1>1 DEF TypeOK
<1>3. CASE tick' = [tick EXCEPT ![current] = 0] /\ GiveUp
  <2>1. tick' \in [PCB -> 0 .. TIME_SLICE_LEN - 1]
    BY SMT, <1>1, <1>3, SliceAssumption DEF TypeOK
  <2> QED  BY <1>1, <1>2, <1>3, <2>1, GiveUpOK
<1>4. CASE /\ tick[current] + 1 < TIME_SLICE_LEN
           /\ tick' = [tick EXCEPT ![current] = @ + 1]
           /\ UNCHANGED <<machine, status, ids, sem, readyQ, waitQ, current, sems>>
  <2>1. tick' \in [PCB -> 0 .. TIME_SLICE_LEN - 1]
    BY SMT, <1>1, <1>4, SliceAssumption DEF TypeOK
  <2>2. TypeOK'
    BY <1>1, <1>4, <2>1 DEF TypeOK, ids, sems
  <2> QED  BY <1>1, <1>4, <2>2 DEF IInv, ids, InUser, ShutdownOnlyWhenDone
<1> QED  BY <1>3, <1>4 DEF Tick

(* wait: what it matches and has not ended is a live child of the caller. *)
LEMMA WaitOK ==
  ASSUME IInv, NEW arg \in -1 .. NPROC - 1, Wait(arg)
  PROVE  IInv'
<1> USE Zenon
<1>1. InUser /\ TypeOK /\ sem' = sem /\ l' = l /\ len' = len
  BY DEF Wait, IInv, sems
<1>2. sem' \in [PCB -> 0 .. MaxSem] /\ l' \in [Sem -> Int] /\ len' \in 0 .. MaxSem
  BY <1>1 DEF TypeOK
<1>3. CASE Return(-1) /\ Resume /\ UNCHANGED <<status, readyQ, waitQ>>
  <2>1. a0' \in [Slot -> Int] /\ \A k \in Slot : k # ctx[current] => a0'[k] = a0[k]
    BY SMT, <1>1, <1>3, InUserFacts DEF Return, TypeOK
  <2> QED  BY <1>1, <1>2, <1>3, <2>1, ResumeOK
<1>4. ASSUME NEW i \in Slot, Return(pid[i]), Resume, UNCHANGED <<status, readyQ, waitQ>>
      PROVE  IInv'
  <2>1. pid[i] \in Int
    BY SMTT(20), <1>1, Numbers DEF TypeOK, Slot, NULL
  <2> QED  BY <1>1, <1>2, <1>4, <2>1, ReturnOK, ResumeOK
<1>5. ASSUME NEW i \in Slot, FirstMatch(arg, i), status[i] # "ZOMBIE", Block(SYS_user_wait)
      PROVE  IInv'
  <2> DEFINE R == Range(readyQ)
             W == Range(waitQ)
  <2>1. parent[i] # NULL /\ pid[parent[i]] = pid[current]
    BY <1>5 DEF FirstMatch, Matches
  <2>2. /\ FreeFresh(status, pid, parent, ctx, R \union W \union {current})
        /\ Accounted(status, pid, parent, R \union W \union {current})
        /\ Parents(pid, parent, R \union W \union {current})
    BY <1>1, InUserFacts DEF Consistent
  <2> HIDE DEF R, W
  <2>3. status[i] \in Active
    <3>1. status[i] \in Status
      BY <1>1, Numbers DEF TypeOK
    <3> QED  BY <1>5, <2>1, <2>2, <3>1 DEF FreeFresh, Accounted, Status, Active
  <2>4. PICK p \in R \union W \union {current} : pid[p] = pid[i]
    BY <2>2, <2>3 DEF Accounted
  <2>5. parent[p] = parent[i]
    BY <2>2, <2>3, <2>4 DEF Accounted
  <2>6. p # current
    BY <2>1, <2>2, <2>5 DEF Parents
  <2>7. \E c \in Range(readyQ) \union Range(waitQ) :
          parent[c] # NULL /\ pid[parent[c]] = pid[current]
    BY <2>1, <2>4, <2>5, <2>6 DEF R, W
  <2> QED  BY SMT, <1>1, <1>2, <1>5, <2>7, BlockOK DEF SYS_user_wait
<1> QED  BY <1>3, <1>4, <1>5 DEF Wait

(* sys_user_sem_new preserves it. *)
LEMMA SemNewOK ==
  ASSUME IInv, NEW value \in {0, 1}, SemNew(value)
  PROVE  IInv'
<1> USE Zenon
<1>1. /\ InUser /\ TypeOK /\ Return(len + 1) /\ Resume
      /\ UNCHANGED <<status, sem, readyQ, waitQ>>
      /\ len < MaxSem /\ len' = len + 1 /\ l' = [l EXCEPT ![len + 1] = value]
  BY DEF SemNew, IInv
<1>2. len + 1 \in Int /\ len' \in 0 .. MaxSem
  BY SMT, <1>1, MaxSemAssumption DEF TypeOK
<1>3. l' \in [Sem -> Int] /\ sem' \in [PCB -> 0 .. MaxSem]
  <2>1. l \in [Sem -> Int] /\ sem \in [PCB -> 0 .. MaxSem] /\ value \in Int
    BY SMT, <1>1 DEF TypeOK
  <2>2. l' = [l EXCEPT ![len + 1] = value] /\ sem' = sem
    BY <1>1
  <2>3. [l EXCEPT ![len + 1] = value] \in [Sem -> Int]
    BY <2>1
  <2> QED  BY <2>1, <2>2, <2>3
<1> QED  BY <1>1, <1>2, <1>3, ReturnOK, ResumeOK

(* sys_user_sem_P, blocking or not, preserves it. *)
LEMMA SemPOK ==
  ASSUME IInv, NEW s \in 1 .. len, SemP(s)
  PROVE  IInv'
<1>1. InUser /\ TypeOK /\ l' = [l EXCEPT ![s] = @ - 1] /\ len' = len
  BY Zenon DEF SemP, IInv
<1>2. s \in Sem /\ s \in 0 .. MaxSem
  BY <1>1, MaxSemAssumption DEF TypeOK, Sem
<1>3. l' \in [Sem -> Int] /\ len' \in 0 .. MaxSem
  BY <1>1, <1>2 DEF TypeOK
<1>4. CASE Return(1) /\ Resume /\ UNCHANGED <<status, sem, readyQ, waitQ>>
  <2>1. sem' \in [PCB -> 0 .. MaxSem]
    BY Zenon, <1>1, <1>4 DEF TypeOK
  <2> QED  BY <1>1, <1>3, <1>4, <2>1, ReturnOK, ResumeOK
<1>5. CASE sem' = [sem EXCEPT ![current] = s] /\ Block(SYS_user_sem_P)
  <2>1. sem' \in [PCB -> 0 .. MaxSem]
    BY Zenon, <1>1, <1>2, <1>5 DEF TypeOK
  <2>2. SYS_user_sem_P \in Int /\ SYS_user_sem_P # SYS_user_wait
    BY DEF SYS_user_sem_P, SYS_user_wait
  <2> QED  BY Zenon, <1>1, <1>3, <1>5, <2>1, <2>2, BlockOK
<1> QED  BY Zenon, <1>4, <1>5 DEF SemP

(* sys_user_sem_V with wake_wait_queue preserves it. *)
LEMMA SemVOK ==
  ASSUME IInv, NEW s \in 1 .. len, SemV(s)
  PROVE  IInv'
<1> USE Zenon
<1>1. /\ InUser /\ TypeOK /\ l' = [l EXCEPT ![s] = @ + 1] /\ len' = len /\ sem' = sem
      /\ WakeSleeper(s, l[s] + 1) /\ Return(1) /\ Resume
  BY DEF SemV, IInv
<1>2. s \in Sem
  BY SMT, <1>1, MaxSemAssumption DEF TypeOK, Sem
<1>3. /\ l' \in [Sem -> Int] /\ len' \in 0 .. MaxSem /\ sem' \in [PCB -> 0 .. MaxSem]
      /\ a0' \in [Slot -> Int] /\ \A k \in Slot : k # ctx[current] => a0'[k] = a0[k]
  BY SMT, <1>1, <1>2, ReturnOK DEF TypeOK
<1>4. CASE UNCHANGED <<status, readyQ, waitQ>>
  BY <1>1, <1>3, <1>4, ResumeOK
<1>5. ASSUME NEW i \in DOMAIN waitQ, waitQ' = Unlink(waitQ, i),
             readyQ' = <<waitQ[i]>> \o readyQ,
             status' = [status EXCEPT ![waitQ[i]] = "READY"]
      PROVE  IInv'
  <2> DEFINE R == Range(readyQ)
             W == Range(waitQ)
             w == waitQ[i]
  <2>1. readyQ \in Seq(PCB) /\ waitQ \in Seq(PCB) /\ IsInjective(readyQ) /\ IsInjective(waitQ)
    BY <1>1 DEF IInv, TypeOK
  <2>2. /\ w \in PCB /\ w \in W /\ waitQ' \in Seq(PCB) /\ IsInjective(waitQ')
        /\ Range(waitQ') = W \ {w}
    BY <1>5, <2>1, RemoveQueue
  <2>3. Consistent(status, pid, parent, ctx, R, W, {current})
    BY <1>1, InUserFacts
  <2>4. QueuesOK(status, R, W, {current})
    BY <2>3 DEF Consistent
  <2>5. w \notin R
    <3> HIDE DEF R, W, w
    <3> QED  BY <2>2, <2>4 DEF QueuesOK
  <2>6. readyQ' \in Seq(PCB) /\ IsInjective(readyQ') /\ Range(readyQ') = R \union {w}
    BY SMT, <1>5, <2>1, <2>2, <2>5, ConsQueue
  <2>7. status \in [PCB -> Status] /\ status' = [status EXCEPT ![w] = "READY"]
    BY <1>1, <1>5 DEF TypeOK
  <2>8. Awaited(pid, parent, ctx, a0', W, R \union W \union {current})
    BY <1>1, <1>3, AwaitedKept
  <2>9. TypeOK'
    <3>1. status' \in [PCB -> Status]
      BY <2>2, <2>7 DEF Status
    <3> QED  BY <1>1, <1>3, <2>2, <2>6, <3>1 DEF TypeOK, Resume, ids
  <2> HIDE DEF R, W, w
  <2>10. /\ status' \in [PCB -> Status]
         /\ QueuesOK(status', R \union {w}, W \ {w}, {current})
         /\ QueuesOK(status', R \union {w}, W \ {w}, {})
         /\ \A j \in PCB : status'[j] # status[j] =>
              j \in R \union W \union {current} /\ status'[j] \in Active
         /\ (R \union {w}) \union (W \ {w}) \union {current} = R \union W \union {current}
    <3>1. status' \in [PCB -> Status]
      BY <2>2, <2>7 DEF Status
    <3>2. QueuesOK(status', R \union {w}, W \ {w}, {current})
      BY <2>2, <2>4, <2>7 DEF QueuesOK
    <3>3. QueuesOK(status', R \union {w}, W \ {w}, {})
      BY <3>2 DEF QueuesOK
    <3>4. \A j \in PCB : status'[j] # status[j] =>
            j \in R \union W \union {current} /\ status'[j] \in Active
      BY <2>2, <2>7 DEF Active
    <3>5. (R \union {w}) \union (W \ {w}) \union {current} = R \union W \union {current}
      BY <2>2
    <3> QED  BY <3>1, <3>2, <3>3, <3>4, <3>5
  <2>11. Consistent(status', pid, parent, ctx, R \union {w}, W \ {w}, {current})
    <3> DEFINE R2 == R \union {w}
               W2 == W \ {w}
    <3>1. /\ status' \in [PCB -> Status] /\ status \in [PCB -> Status]
          /\ QueuesOK(status', R2, W2, {current})
          /\ \A j \in PCB : status'[j] # status[j] =>
               j \in R \union W \union {current} /\ status'[j] \in Active
          /\ R2 \union W2 \union {current} = R \union W \union {current}
      BY <2>7, <2>10
    <3> HIDE DEF R2, W2
    <3>2. Consistent(status', pid, parent, ctx, R2, W2, {current})
      BY SMT, <2>3, <3>1, Restatus
    <3> QED  BY <3>2 DEF R2, W2
  <2>12. Awaited(pid, parent, ctx, a0', W \ {w}, R \union W \union {current})
    BY <2>8 DEF Awaited
  <2> QED  BY <1>1, <2>2, <2>6, <2>9, <2>10, <2>11, <2>12
           DEF IInv, Resume, ids, InUser, ShutdownOnlyWhenDone
<1> QED  BY <1>1, <1>4, <1>5 DEF WakeSleeper

(* fork: everything about a FREE entry is fresh. *)
LEMMA ForkOK ==
  ASSUME IInv, Fork
  PROVE  IInv'
<1> USE Zenon
<1>1. InUser /\ TypeOK /\ IsInjective(readyQ) /\ IsInjective(waitQ)
  BY DEF Fork, IInv
<1>2. CASE Stop("panic", status, readyQ) /\ UNCHANGED <<ids, sem, tick, a0, waitQ, sems>>
  <2>1. TypeOK'
    BY <1>1, <1>2 DEF TypeOK, Stop, ids, sems, Machine
  <2> QED  BY <1>1, <1>2, <2>1 DEF IInv, Stop, InUser, ShutdownOnlyWhenDone
<1>3. ASSUME NEW child \in Slot, FirstFree(child),
             status' = [status EXCEPT ![child] = "READY"],
             parent' = [parent EXCEPT ![child] = current],
             readyQ' = Enqueue(readyQ, child),
             a0' = [a0 EXCEPT ![ctx[child]] = 0, ![ctx[current]] = pid[child]],
             UNCHANGED <<machine, current, pid, ctx, sem, tick, waitQ, sems>>
      PROVE  IInv'
  <2> DEFINE R == Range(readyQ)
             W == Range(waitQ)
             L == R \union W \union {current}
  <2>1. /\ QueuesOK(status, R, W, {current}) /\ Identity(pid, ctx, L)
        /\ FreeFresh(status, pid, parent, ctx, L)
        /\ Accounted(status, pid, parent, L) /\ Parents(pid, parent, L)
        /\ Awaited(pid, parent, ctx, a0, W, L)
    BY <1>1 DEF IInv, Consistent
  <2>2. status[child] = "FREE" /\ child \in PCB /\ current \in PCB
    BY <1>1, <1>3, Numbers DEF FirstFree, TypeOK
  <2>3. child \notin L
    BY <2>1, <2>2 DEF FreeFresh
  <2>4. /\ readyQ' \in Seq(PCB) /\ IsInjective(readyQ') /\ Range(readyQ') = R \union {child}
    BY <1>1, <1>3, <2>2, <2>3, EnqueueOK DEF TypeOK
  <2>5. TypeOK'
    <3>1. /\ status' \in [PCB -> Status] /\ parent' \in [PCB -> PCB \union {NULL}]
          /\ a0' \in [Slot -> Int]
      <4>1. pid[child] \in Int
        BY SMT, <1>1, <2>2 DEF TypeOK, Slot, NULL
      <4>2. a0 \in [Slot -> Int] /\ 0 \in Int
        BY SMT, <1>1 DEF TypeOK
      <4>3. a0' \in [Slot -> Int]
        BY <1>3, <4>1, <4>2
      <4>4. status' \in [PCB -> Status] /\ parent' \in [PCB -> PCB \union {NULL}]
        BY <1>1, <1>3, <2>2 DEF TypeOK, Status
      <4> QED  BY <4>3, <4>4
    <3> QED  BY <1>1, <1>3, <2>4, <3>1 DEF TypeOK, sems
  <2>6. /\ status \in [PCB -> Status] /\ parent \in [PCB -> PCB \union {NULL}]
        /\ a0 \in [Slot -> Int]
    BY <1>1 DEF TypeOK
  <2>7. L \union {child} = Range(readyQ') \union W \union {current}
    BY <2>4
  <2>8. L \subseteq PCB
    BY <2>1, <2>2 DEF QueuesOK
  <2>9. current \in L /\ W \subseteq L
    OBVIOUS
  <2> HIDE DEF L, R, W
  <2>10. /\ pid[child] = child /\ ctx[child] = child /\ parent[child] = NULL
         /\ pid[Copy(child)] = NULL
         /\ \A q \in PCB : (q # child => pid[q] # child) /\ parent[q] # child
         /\ \A p \in L : ctx[p] # child
    BY <2>1, <2>2 DEF FreeFresh
  <2>11. QueuesOK(status', R \union {child}, W, {current})
    BY ZenonT(40), <1>3, <2>1, <2>2, <2>3, <2>6, <2>9 DEF QueuesOK, L
  <2>12. Identity(pid, ctx, L \union {child})
    BY ZenonT(40), <2>1, <2>3, <2>8, <2>10 DEF Identity
  <2>13. FreeFresh(status', pid, parent', ctx, L \union {child})
    BY SMT, <1>3, <2>1, <2>2, <2>3, <2>6, <2>9, <2>10, Numbers DEF FreeFresh
  <2>14. Accounted(status', pid, parent', L \union {child})
    <3>1. \A p \in L \union {child} : status'[pid[p]] \notin {"FREE", "ZOMBIE"}
      BY ZenonT(40), <1>3, <2>1, <2>2, <2>6, <2>8, <2>10, Numbers DEF Accounted, Identity
    <3>2. \A i \in Slot : status'[i] \in Active =>
            \E p \in L \union {child} : pid[p] = pid[i]
      BY <1>3, <2>1, <2>2, <2>6, Numbers DEF Accounted
    <3>3. \A i \in Slot : status'[i] \in Active =>
            \A p \in L \union {child} : pid[p] = pid[i] => parent'[p] = parent'[i]
      BY SMT, <1>3, <2>1, <2>2, <2>3, <2>6, <2>8, <2>10, Numbers DEF Accounted
    <3>4. \A i \in Slot : status'[i] = "USED" => parent'[i] = NULL
      BY <1>3, <2>1, <2>2, <2>6, Numbers DEF Accounted
    <3> QED  BY <3>1, <3>2, <3>3, <3>4 DEF Accounted
  <2>15. Parents(pid, parent', L \union {child})
    BY SMT, <1>3, <2>1, <2>2, <2>3, <2>6, <2>8, <2>9, <2>10 DEF Parents, Identity
  <2>16. Awaited(pid, parent', ctx, a0', W, L \union {child})
    <3>1. \A p \in W : a0'[ctx[p]] = a0[ctx[p]]
      <4>1. \A p \in W : p # current
        BY <2>1 DEF QueuesOK
      <4> QED  BY ZenonT(40), <1>3, <2>1, <2>6, <2>9, <2>10, <4>1 DEF Identity
    <3>2. \A c \in L : parent'[c] = parent[c]
      BY <1>3, <2>3, <2>6, <2>8
    <3>3. SUFFICES ASSUME NEW p \in W, a0'[ctx[p]] = SYS_user_wait
                   PROVE  \E c \in L \union {child} :
                            c # p /\ parent'[c] # NULL /\ pid[parent'[c]] = pid[p]
      BY DEF Awaited
    <3>4. PICK c \in L : c # p /\ parent[c] # NULL /\ pid[parent[c]] = pid[p]
      BY <2>1, <3>1, <3>3 DEF Awaited
    <3> QED  BY <3>2, <3>4
  <2>17. Consistent(status', pid, parent', ctx, R \union {child}, W, {current})
    <3>1. (R \union {child}) \union W \union {current} = L \union {child}
      BY DEF L
    <3> QED  BY <2>11, <2>12, <2>13, <2>14, <2>15, <3>1 DEF Consistent
  <2>18. QueuesOK(status', R \union {child}, W, {})
    BY <2>11 DEF QueuesOK
  <2> QED  BY <1>1, <1>3, <2>4, <2>5, <2>7, <2>16, <2>17, <2>18
           DEF IInv, InUser, ShutdownOnlyWhenDone, W
<1> QED  BY <1>2, <1>3 DEF Fork

(* exec: the caller leaves its pid and pages for those of a FREE entry. *)
LEMMA ExecMid ==
  ASSUME IInv, InUser, NEW e \in Slot, status[e] = "FREE",
         NEW st2, st2 = FreeP([status EXCEPT ![e] = "USED"], current),
         NEW cx2, cx2 = [ctx EXCEPT ![current] = ctx[e]],
         NEW pd2, pd2 = [pid EXCEPT ![current] = pid[e]],
         NEW reg2, reg2 = [a0 EXCEPT ![ctx[e]] = 1],
         NEW R, R = Range(readyQ), NEW W, W = Range(waitQ),
         NEW L, L = R \union W \union {current}
  PROVE  /\ e \in PCB /\ pid[e] \in Slot /\ ctx[e] \in Slot
         /\ QueuesOK(st2, R, W, {current}) /\ Identity(pd2, cx2, L)
         /\ FreeFresh(st2, pd2, parent, cx2, L)
         /\ Accounted(st2, pd2, parent, L) /\ Parents(pd2, parent, L)
         /\ Awaited(pd2, parent, cx2, reg2, W, L)
<1> USE Zenon
<1>1. /\ QueuesOK(status, R, W, {current}) /\ Identity(pid, ctx, L)
      /\ FreeFresh(status, pid, parent, ctx, L)
      /\ Accounted(status, pid, parent, L) /\ Parents(pid, parent, L)
      /\ Awaited(pid, parent, ctx, a0, W, L)
  BY DEF IInv, Consistent
<1>2. /\ status \in [PCB -> Status] /\ pid \in [PCB -> Slot \union {NULL}]
      /\ ctx \in [PCB -> Slot \union {NULL}] /\ a0 \in [Slot -> Int]
      /\ parent \in [PCB -> PCB \union {NULL}]
      /\ current \in PCB /\ e \in PCB
  BY Numbers DEF IInv, TypeOK
<1>3. L \subseteq PCB /\ current \in L /\ W \subseteq L /\ R \subseteq L
      /\ current \notin R /\ current \notin W
  BY <1>1, <1>2 DEF QueuesOK
<1>4. /\ pid[e] = e /\ ctx[e] = e /\ parent[e] = NULL /\ e \notin L
      /\ pid[Copy(e)] = NULL
      /\ \A q \in PCB : (q # e => pid[q] # e) /\ parent[q] # e
      /\ \A p \in L : ctx[p] # e
  BY <1>1 DEF FreeFresh
<1>5. /\ \A q \in PCB : q # current => pd2[q] = pid[q] /\ cx2[q] = ctx[q]
      /\ pd2[current] = e /\ cx2[current] = e
      /\ \A k \in Slot : k # e => reg2[k] = a0[k]
  BY <1>2, <1>4
<1>6. /\ \A q \in PCB \ Slot : st2[q] = status[q]
      /\ \A q \in Slot : st2[q] = IF pid[q] = pid[current] THEN "ZOMBIE"
                                   ELSE IF q = e THEN "USED" ELSE status[q]
  <2>1. st2 = [q \in PCB |-> IF q \in Slot /\ pid[q] = pid[current] THEN "ZOMBIE"
                             ELSE [status EXCEPT ![e] = "USED"][q]]
    BY DEF FreeP
  <2>2. \A q \in PCB : [status EXCEPT ![e] = "USED"][q] = IF q = e THEN "USED" ELSE status[q]
    BY <1>2
  <2> QED  BY <2>1, <2>2, Numbers
<1>7. st2[e] = "USED" /\ \A q \in PCB : st2[q] # status[q] => q = e \/ pid[q] = pid[current]
  <2>1. pid[e] # pid[current]
    BY <1>2, <1>3, <1>4
  <2>2. st2[e] = "USED"
    BY <1>6, <2>1
  <2>3. ASSUME NEW q \in PCB, q # e, pid[q] # pid[current]
        PROVE  st2[q] = status[q]
    BY <1>6, <2>3
  <2> QED  BY <2>2, <2>3
<1>8. \A p \in L : p # current =>
        pid[p] \in Slot /\ ctx[p] \in Slot /\ pid[p] # pid[current] /\ p # e /\ pid[p] # e
  BY ZenonT(40), <1>1, <1>3, <1>4 DEF Identity
<1>9. pid[current] \in Slot /\ ctx[current] \in Slot /\ pid[pid[current]] = pid[current]
  BY <1>1, <1>3 DEF Identity
<1>10. QueuesOK(st2, R, W, {current})
  BY <1>1, <1>3, <1>7, <1>8 DEF QueuesOK
<1>11. Identity(pd2, cx2, L)
  <2>1. \A p \in Slot \union L : pd2[p] \in Slot /\ cx2[p] \in Slot
    BY SMT, <1>1, <1>3, <1>5, Numbers DEF Identity
  <2>2. \A p, q \in L : p # q => pd2[p] # pd2[q] /\ cx2[p] # cx2[q]
    BY SMTT(20), <1>1, <1>3, <1>4, <1>5, <1>8 DEF Identity
  <2>3. \A p \in L : pd2[Copy(cx2[p])] = NULL
    <3>1. \A k \in Slot : pid[Copy(k)] = NULL => Copy(k) \in PCB /\ Copy(k) # current
      BY <1>9, Numbers
    <3> QED  BY SMT, <1>1, <1>3, <1>4, <1>5, <1>8, <3>1 DEF Identity
  <2>4. \A p \in L : pd2[pd2[p]] = pd2[p]
    <3>1. ASSUME NEW p \in L, p # current
          PROVE  pd2[pd2[p]] = pd2[p]
      <4>1. pd2[p] = pid[p] /\ pid[p] \in PCB /\ pid[pid[p]] = pid[p]
        BY <1>1, <1>3, <1>5, <1>8, <3>1, Numbers DEF Identity
      <4>2. pid[p] # current
        BY <1>8, <3>1, <4>1
      <4> QED  BY <1>5, <4>1, <4>2
    <3>2. pd2[pd2[current]] = pd2[current]
      BY ZenonT(40), <1>2, <1>3, <1>4, <1>5
    <3> QED  BY <3>1, <3>2
  <2> QED  BY <2>1, <2>2, <2>3, <2>4 DEF Identity
<1>12. FreeFresh(st2, pd2, parent, cx2, L)
  <2> SUFFICES ASSUME NEW i \in Slot, st2[i] = "FREE"
               PROVE  /\ pd2[i] = i /\ cx2[i] = i /\ parent[i] = NULL
                      /\ i \notin L
                      /\ pd2[Copy(i)] = NULL
                      /\ \A q \in PCB : (q # i => pd2[q] # i) /\ parent[q] # i
                      /\ \A p \in L : cx2[p] # i
    BY DEF FreeFresh
  <2>1. status[i] = "FREE" /\ i # e /\ i \in PCB
    BY <1>6, <1>7, Numbers
  <2>2. /\ pid[i] = i /\ ctx[i] = i /\ parent[i] = NULL /\ i \notin L
        /\ pid[Copy(i)] = NULL
        /\ \A q \in PCB : (q # i => pid[q] # i) /\ parent[q] # i
        /\ \A p \in L : ctx[p] # i
    BY <1>1, <2>1 DEF FreeFresh
  <2>3. i # current /\ Copy(i) \in PCB /\ Copy(i) # current
    BY <1>3, <1>9, <2>2, Numbers
  <2> QED  BY ZenonT(40), <1>3, <1>5, <2>1, <2>2, <2>3
<1>13. Accounted(st2, pd2, parent, L)
  <2>1. \A p \in L : st2[pd2[p]] \notin {"FREE", "ZOMBIE"}
    <3>1. ASSUME NEW p \in L, p # current
          PROVE  st2[pd2[p]] \notin {"FREE", "ZOMBIE"}
      <4>1. pd2[p] = pid[p] /\ pid[p] \in Slot /\ pid[pid[p]] = pid[p]
        BY <1>1, <1>3, <1>5, <1>8, <3>1 DEF Identity
      <4>2. st2[pid[p]] = status[pid[p]]
        BY <1>6, <1>8, <3>1, <4>1
      <4> QED  BY ZenonT(40), <1>1, <4>1, <4>2 DEF Accounted
    <3> QED  BY ZenonT(40), <1>5, <1>7, <3>1
  <2>2. ASSUME NEW i \in Slot, st2[i] \in Active
        PROVE  /\ status[i] \in Active /\ i # current /\ i # e /\ pid[i] # pid[current]
               /\ pd2[i] = pid[i] /\ pid[i] # e
    BY <1>4, <1>5, <1>6, <2>2, Numbers DEF Active
  <2>3. \A i \in Slot : st2[i] \in Active => \E p \in L : pd2[p] = pd2[i]
    BY SMTT(20), <1>1, <1>3, <1>5, <2>2 DEF Accounted
  <2>4. \A i \in Slot : st2[i] \in Active =>
          \A p \in L : pd2[p] = pd2[i] => parent[p] = parent[i]
    BY SMT, <1>1, <1>3, <1>5, <2>2 DEF Accounted
  <2>5. \A i \in Slot : st2[i] = "USED" => parent[i] = NULL
    BY ZenonT(40), <1>1, <1>4, <1>6 DEF Accounted
  <2> QED  BY <2>1, <2>3, <2>4, <2>5 DEF Accounted
<1>14. Parents(pd2, parent, L)
  <2>1. ASSUME NEW q \in PCB, parent[q] # NULL
        PROVE  pd2[parent[q]] \in Slot
    BY SMT, <1>1, <1>2, <1>5, <2>1 DEF Parents
  <2>2. ASSUME NEW p \in L, parent[p] # NULL
        PROVE  pd2[parent[p]] # pd2[p]
    BY SMTT(20), <1>1, <1>2, <1>3, <1>4, <1>5, <1>8, <2>2 DEF Parents
  <2> QED  BY <2>1, <2>2 DEF Parents
<1>15. Awaited(pd2, parent, cx2, reg2, W, L)
  <2> SUFFICES ASSUME NEW p \in W, reg2[cx2[p]] = SYS_user_wait
               PROVE  \E c \in L : c # p /\ parent[c] # NULL /\ pd2[parent[c]] = pd2[p]
    BY DEF Awaited
  <2>1. p # current /\ p \in L /\ pd2[p] = pid[p] /\ cx2[p] = ctx[p] /\ a0[ctx[p]] = SYS_user_wait
    BY ZenonT(40), <1>3, <1>4, <1>5, <1>8
  <2>2. PICK c \in L : c # p /\ parent[c] # NULL /\ pid[parent[c]] = pid[p]
    BY <1>1, <2>1 DEF Awaited
  <2>3. parent[c] # current /\ parent[c] \in PCB
    BY <1>2, <1>3, <1>8, <2>1, <2>2
  <2> QED  BY <1>5, <2>1, <2>2, <2>3
<1> QED  BY <1>2, <1>4, <1>10, <1>11, <1>12, <1>13, <1>14, <1>15

(* do_exec, with the entry that free_p leaves behind, preserves it. *)
LEMMA ExecOK ==
  ASSUME IInv, NEW found \in BOOLEAN, Exec(found)
  PROVE  IInv'
<1> USE Zenon
<1>1. InUser /\ TypeOK /\ IsInjective(readyQ) /\ IsInjective(waitQ)
  BY DEF Exec, IInv
<1>2. CASE Stop("panic", status, readyQ) /\ UNCHANGED <<ids, sem, tick, a0, waitQ, sems>>
  <2>1. TypeOK'
    BY <1>1, <1>2 DEF TypeOK, Stop, ids, sems, Machine
  <2> QED  BY <1>1, <1>2, <2>1 DEF IInv, Stop, InUser, ShutdownOnlyWhenDone
<1>3. ASSUME NEW e \in Slot, FirstFree(e),
             Stop("null_file", [status EXCEPT ![e] = "USED"], readyQ),
             UNCHANGED <<ids, sem, tick, a0, waitQ, sems>>
      PROVE  IInv'
  <2>1. TypeOK'
    BY <1>1, <1>3 DEF TypeOK, Stop, ids, sems, Machine, Status
  <2>2. QueuesOK(status', Range(readyQ), Range(waitQ), {})
    <3>1. QueuesOK(status, Range(readyQ), Range(waitQ), {})
      BY DEF IInv
    <3>2. status' = [status EXCEPT ![e] = "USED"] /\ status[e] = "FREE" /\ status \in [PCB -> Status]
      BY <1>1, <1>3 DEF Stop, FirstFree, TypeOK
    <3> QED  BY <3>1, <3>2 DEF QueuesOK
  <2> QED  BY <1>1, <1>3, <2>1, <2>2 DEF IInv, Stop, InUser, ShutdownOnlyWhenDone
<1>4. ASSUME NEW e \in Slot, FirstFree(e),
             status' = FreeP([status EXCEPT ![e] = "USED"], current),
             ctx' = [ctx EXCEPT ![current] = ctx[e]],
             tick' = [tick EXCEPT ![current] = tick[e]],
             pid' = [pid EXCEPT ![current] = pid[e]],
             a0' = [a0 EXCEPT ![ctx[e]] = 1],
             UNCHANGED <<machine, current, parent, sem, readyQ, waitQ, sems>>
      PROVE  IInv'
  <2> DEFINE R == Range(readyQ)
             W == Range(waitQ)
             L == R \union W \union {current}
  <2>1. /\ e \in PCB /\ pid[e] \in Slot /\ ctx[e] \in Slot
        /\ QueuesOK(status', R, W, {current}) /\ Identity(pid', ctx', L)
        /\ FreeFresh(status', pid', parent, ctx', L)
        /\ Accounted(status', pid', parent, L) /\ Parents(pid', parent, L)
        /\ Awaited(pid', parent, ctx', a0', W, L)
    <3>1. status[e] = "FREE"
      BY <1>4 DEF FirstFree
    <3> QED  BY <1>1, <1>4, <3>1, ExecMid
  <2>2. TypeOK'
    <3>1. status' \in [PCB -> Status]
      <4>1. [status EXCEPT ![e] = "USED"] \in [PCB -> Status]
        BY <1>1 DEF TypeOK, Status
      <4> QED  BY <1>4, <4>1 DEF FreeP, Status
    <3>2. /\ ctx' \in [PCB -> Slot \union {NULL}] /\ pid' \in [PCB -> Slot \union {NULL}]
          /\ tick' \in [PCB -> 0 .. TIME_SLICE_LEN - 1]
      <4>1. /\ ctx \in [PCB -> Slot \union {NULL}] /\ pid \in [PCB -> Slot \union {NULL}]
            /\ tick \in [PCB -> 0 .. TIME_SLICE_LEN - 1]
        BY <1>1 DEF TypeOK
      <4>2. tick' \in [PCB -> 0 .. TIME_SLICE_LEN - 1]
        BY <1>4, <2>1, <4>1
      <4>3. ctx' \in [PCB -> Slot \union {NULL}] /\ pid' \in [PCB -> Slot \union {NULL}]
        BY <1>4, <2>1, <4>1
      <4> QED  BY <4>2, <4>3
    <3>3. a0' \in [Slot -> Int]
      <4>1. a0 \in [Slot -> Int] /\ 1 \in Int
        BY SMT, <1>1 DEF TypeOK
      <4> QED  BY <1>4, <4>1
    <3> QED  BY <1>1, <1>4, <3>1, <3>2, <3>3 DEF TypeOK, sems
  <2>3. QueuesOK(status', R, W, {})
    BY <2>1 DEF QueuesOK
  <2>4. Consistent(status', pid', parent, ctx', R, W, {current})
    BY <2>1 DEF Consistent
  <2> QED  BY <1>1, <1>4, <2>1, <2>2, <2>3, <2>4 DEF IInv, InUser, ShutdownOnlyWhenDone
<1> QED  BY <1>2, <1>3, <1>4 DEF Exec

(* exit: after free_process the caller is gone and nobody else is hurt. *)
LEMMA ExitMid ==
  ASSUME IInv, InUser, NEW st, st = FreeProcess(status, current),
         NEW R, R = Range(readyQ), NEW W, W = Range(waitQ)
  PROVE  /\ st \in [PCB -> Status]
         /\ Consistent(st, pid, parent, ctx, R, W, {})
<1> USE Zenon
<1> DEFINE L == R \union W \union {current}
           G == R \union W \union {}
<1>1. /\ QueuesOK(status, R, W, {current}) /\ Identity(pid, ctx, L)
      /\ FreeFresh(status, pid, parent, ctx, L)
      /\ Accounted(status, pid, parent, L) /\ Parents(pid, parent, L)
  BY DEF IInv, Consistent
<1>2. status \in [PCB -> Status] /\ current \in PCB
  BY DEF IInv, TypeOK
<1>3. /\ L \subseteq PCB /\ current \in L /\ G \subseteq L /\ current \notin G
      /\ \A p \in L : p # current => p \in G
  BY <1>1, <1>2 DEF QueuesOK
<1>4. /\ st \in [PCB -> Status]
      /\ \A q \in PCB : st[q] # "ZOMBIE" =>
           st[q] = status[q] /\ q # current /\ (q \in Slot => pid[q] # pid[current])
      /\ \A q \in PCB : q # current /\ (q \in Slot => pid[q] # pid[current]) =>
           st[q] = status[q]
  <2>1. st = [[q \in PCB |-> IF q \in Slot /\ pid[q] = pid[current] THEN "ZOMBIE"
                             ELSE status[q]] EXCEPT ![current] = "ZOMBIE"]
    BY DEF FreeProcess, FreeP
  <2>2. st = [q \in PCB |-> IF q = current \/ (q \in Slot /\ pid[q] = pid[current])
                            THEN "ZOMBIE" ELSE status[q]]
    BY <1>2, <2>1
  <2>3. st \in [PCB -> Status]
    BY <1>2, <2>2 DEF Status
  <2> QED  BY <2>2, <2>3
<1> HIDE DEF L, G
<1>5. \A p \in G : pid[p] \in Slot /\ pid[p] # pid[current] /\ pid[pid[p]] = pid[p]
  BY <1>1, <1>3 DEF Identity
<1>6. QueuesOK(st, R, W, {})
  <2>1. \A p \in R \union W : p \in G
    BY DEF G
  <2>2. \A p \in R \union W : st[p] = status[p]
    BY <1>3, <1>4, <1>5, <2>1
  <2>3. /\ R \subseteq PCB /\ W \subseteq PCB /\ R \intersect W = {}
        /\ \A p \in R : status[p] = "READY"
        /\ \A p \in W : status[p] = "BLOCKED"
    BY <1>1 DEF QueuesOK
  <2> QED  BY <2>2, <2>3 DEF QueuesOK
<1>7. Identity(pid, ctx, G)
  BY <1>1, <1>3 DEF Identity
<1>8. FreeFresh(st, pid, parent, ctx, G)
  BY ZenonT(40), <1>1, <1>3, <1>4, Numbers DEF FreeFresh
<1>9. Accounted(st, pid, parent, G)
  <2>1. \A p \in G : st[pid[p]] \notin {"FREE", "ZOMBIE"}
    <3> SUFFICES ASSUME NEW p \in G PROVE st[pid[p]] \notin {"FREE", "ZOMBIE"}
      OBVIOUS
    <3>1. pid[p] \in Slot /\ pid[p] \in PCB /\ pid[p] # current /\ pid[pid[p]] # pid[current]
      BY <1>5, Numbers
    <3> QED  BY <1>1, <1>3, <1>4, <3>1 DEF Accounted
  <2>2. \A i \in Slot : st[i] \in Active => status[i] \in Active /\ pid[i] # pid[current]
    BY <1>4, Numbers DEF Active
  <2>3. \A i \in Slot : st[i] \in Active => \E p \in G : pid[p] = pid[i]
    <3> SUFFICES ASSUME NEW i \in Slot, st[i] \in Active PROVE \E p \in G : pid[p] = pid[i]
      OBVIOUS
    <3>1. PICK p \in L : pid[p] = pid[i]
      BY <1>1, <2>2 DEF Accounted
    <3>2. p # current
      BY <2>2, <3>1
    <3> QED  BY <1>3, <3>1, <3>2
  <2>4. \A i \in Slot : st[i] \in Active =>
          \A p \in G : pid[p] = pid[i] => parent[p] = parent[i]
    BY <1>1, <1>3, <2>2 DEF Accounted
  <2>5. \A i \in Slot : st[i] = "USED" => parent[i] = NULL
    BY <1>1, <1>4, Numbers DEF Accounted
  <2> QED  BY <2>1, <2>3, <2>4, <2>5 DEF Accounted
<1>10. Parents(pid, parent, G)
  BY <1>1, <1>3 DEF Parents
<1> QED  BY <1>4, <1>6, <1>7, <1>8, <1>9, <1>10 DEF Consistent, G

(* exit: the waiting parent goes on as the copy on the caller's stack. *)
Woken(st2, pd2, pa2, cx2, R, W, w, t, L) ==
  /\ t \in PCB /\ t \notin R /\ t \notin W /\ st2 \in [PCB -> Status]
  /\ QueuesOK(st2, R, W \ {w}, {t})
  /\ Identity(pd2, cx2, L) /\ FreeFresh(st2, pd2, pa2, cx2, L)
  /\ Accounted(st2, pd2, pa2, L) /\ Parents(pd2, pa2, L)
  /\ Awaited(pd2, pa2, cx2, a0, W \ {w}, L)

(* The state between the copy of the parent's control block and its dispatch. *)
LEMMA WakeMid ==
  ASSUME IInv, InUser, NEW st, st = FreeProcess(status, current),
         NEW R, R = Range(readyQ), NEW W, W = Range(waitQ),
         NEW w \in W, parent[current] # NULL, pid[w] = pid[parent[current]],
         NEW t, t = Copy(ctx[current]),
         NEW pd2, pd2 = [pid EXCEPT ![t] = pid[w]],
         NEW pa2, pa2 = [parent EXCEPT ![t] = parent[w]],
         NEW cx2, cx2 = [ctx EXCEPT ![t] = ctx[w]],
         NEW s \in Active, NEW st2, st2 = [st EXCEPT ![t] = s],
         NEW L, L = R \union (W \ {w}) \union {t}
  PROVE  Woken(st2, pd2, pa2, cx2, R, W, w, t, L)
<1> USE Zenon
<1> DEFINE G == R \union W
<1>1. st \in [PCB -> Status] /\ Consistent(st, pid, parent, ctx, R, W, {})
  BY ExitMid
<1>2. /\ QueuesOK(st, R, W, {}) /\ Identity(pid, ctx, G)
      /\ FreeFresh(st, pid, parent, ctx, G)
      /\ Accounted(st, pid, parent, G) /\ Parents(pid, parent, G)
  <2>1. R \union W \union {} = G
    OBVIOUS
  <2> QED  BY <1>1, <2>1 DEF Consistent
<1>3. /\ pid \in [PCB -> Slot \union {NULL}] /\ ctx \in [PCB -> Slot \union {NULL}]
      /\ parent \in [PCB -> PCB \union {NULL}] /\ current \in PCB
  BY DEF IInv, TypeOK
<1>4. /\ Identity(pid, ctx, G \union {current}) /\ current \notin G
      /\ FreeFresh(status, pid, parent, ctx, G \union {current})
      /\ Awaited(pid, parent, ctx, a0, W, G \union {current})
  BY InUserFacts DEF IInv, Consistent
<1>5. G \subseteq PCB /\ w \in G /\ w \in PCB /\ w \notin R
  BY <1>2 DEF QueuesOK
<1>6. \A p \in L : p = t \/ (p \in G /\ p # w)
  BY <1>2 DEF QueuesOK
<1>7. W \ {w} \subseteq G /\ (\A p \in G : p # w => p \in L) /\ t \in L
  OBVIOUS
<1> HIDE DEF G
<1>8. ctx[current] \in Slot /\ pid[current] \in Slot /\ pid[t] = NULL
  BY <1>4 DEF Identity
<1>9. /\ t \in PCB /\ t \notin Slot /\ t \notin G
      /\ \A k \in Slot : k # ctx[current] => Copy(k) # t /\ Copy(k) \in PCB
  BY <1>2, <1>8, Numbers DEF Identity
<1>10. /\ \A q \in PCB : q # t =>
            pd2[q] = pid[q] /\ pa2[q] = parent[q] /\ cx2[q] = ctx[q] /\ st2[q] = st[q]
       /\ pd2[t] = pid[w] /\ pa2[t] = parent[w] /\ cx2[t] = ctx[w] /\ st2[t] = s
  BY <1>1, <1>3, <1>9
<1>11. \A p \in G : /\ p # t /\ p \in PCB /\ pid[p] \in Slot /\ ctx[p] \in Slot
                    /\ ctx[p] # ctx[current] /\ pid[p] # pid[current]
                    /\ pd2[p] = pid[p] /\ pa2[p] = parent[p] /\ cx2[p] = ctx[p]
  BY SMTT(20), <1>4, <1>5, <1>9, <1>10 DEF Identity
<1>12. \A i \in Slot : /\ i \in PCB /\ i # t /\ st2[i] = st[i]
                       /\ pd2[i] = pid[i] /\ pa2[i] = parent[i] /\ cx2[i] = ctx[i]
  BY <1>9, <1>10, Numbers
<1>13. st2 \in [PCB -> Status]
  BY <1>1, <1>9 DEF Active, Status
<1>14. QueuesOK(st2, R, W \ {w}, {t})
  BY SMT, <1>2, <1>9, <1>10 DEF QueuesOK, G
<1>15. Identity(pd2, cx2, L)
  <2>1. \A p \in Slot \union L : pd2[p] \in Slot /\ cx2[p] \in Slot
    BY SMTT(20), <1>2, <1>5, <1>6, <1>10, <1>11, <1>12 DEF Identity
  <2>2. \A p, q \in L : p # q => pd2[p] # pd2[q] /\ cx2[p] # cx2[q]
    BY SMT, <1>2, <1>5, <1>6, <1>10, <1>11 DEF Identity
  <2>3. \A p \in L : pd2[Copy(cx2[p])] = NULL
    <3>1. \A p \in G : pd2[Copy(ctx[p])] = NULL
      BY ZenonT(40), <1>2, <1>9, <1>10, <1>11 DEF Identity
    <3> QED  BY SMTT(20), <1>5, <1>6, <1>10, <1>11, <3>1
  <2>4. \A p \in L : pd2[pd2[p]] = pd2[p]
    <3>1. \A p \in G : pd2[pid[p]] = pid[p]
      BY ZenonT(40), <1>2, <1>11, <1>12 DEF Identity
    <3> QED  BY SMTT(20), <1>5, <1>6, <1>10, <1>11, <3>1
  <2> QED  BY <2>1, <2>2, <2>3, <2>4 DEF Identity
<1>16. FreeFresh(st2, pd2, pa2, cx2, L)
  <2> SUFFICES ASSUME NEW i \in Slot, st2[i] = "FREE"
               PROVE  /\ pd2[i] = i /\ cx2[i] = i /\ pa2[i] = NULL
                      /\ i \notin L
                      /\ pd2[Copy(i)] = NULL
                      /\ \A q \in PCB : (q # i => pd2[q] # i) /\ pa2[q] # i
                      /\ \A p \in L : cx2[p] # i
    BY DEF FreeFresh
  <2>1. /\ pid[i] = i /\ ctx[i] = i /\ parent[i] = NULL /\ i \notin G
        /\ pid[Copy(i)] = NULL
        /\ \A q \in PCB : (q # i => pid[q] # i) /\ parent[q] # i
        /\ \A p \in G : ctx[p] # i
    BY ZenonT(40), <1>2, <1>12 DEF FreeFresh
  <2>2. ctx[current] # i
    <3>1. st[i] = "FREE"
      BY <1>12
    <3>2. status[i] = "FREE"
      BY <1>12, <3>1 DEF FreeProcess, FreeP
    <3> QED  BY <1>4, <3>2 DEF FreeFresh
  <2>3. Copy(i) \in PCB /\ Copy(i) # t /\ w # i
    BY <1>5, <1>9, <2>1, <2>2
  <2> QED  BY SMT, <1>5, <1>6, <1>10, <1>11, <1>12, <2>1, <2>3
<1>17. Accounted(st2, pd2, pa2, L)
  <2>1. \A p \in L : st2[pd2[p]] \notin {"FREE", "ZOMBIE"}
    <3>1. \A p \in G : st2[pid[p]] \notin {"FREE", "ZOMBIE"}
      BY <1>2, <1>11, <1>12 DEF Accounted
    <3> QED  BY SMT, <1>5, <1>6, <1>10, <1>11, <3>1
  <2>2. \A i \in Slot : st2[i] \in Active => \E p \in L : pd2[p] = pd2[i]
    BY SMTT(20), <1>2, <1>7, <1>10, <1>11, <1>12 DEF Accounted
  <2>3. \A i \in Slot : st2[i] \in Active =>
          \A p \in L : pd2[p] = pd2[i] => pa2[p] = pa2[i]
    BY SMT, <1>2, <1>5, <1>6, <1>10, <1>11, <1>12 DEF Accounted
  <2>4. \A i \in Slot : st2[i] = "USED" => pa2[i] = NULL
    BY ZenonT(40), <1>2, <1>12 DEF Accounted
  <2> QED  BY <2>1, <2>2, <2>3, <2>4 DEF Accounted
<1>18. \A q \in PCB : parent[q] # NULL =>
         parent[q] \in PCB /\ parent[q] # t /\ pd2[parent[q]] = pid[parent[q]]
  BY SMT, <1>2, <1>3, <1>8, <1>10, Numbers DEF Parents
<1>19. Parents(pd2, pa2, L)
  <2>1. ASSUME NEW q \in PCB, pa2[q] # NULL
        PROVE  pd2[pa2[q]] \in Slot
    BY SMTT(20), <1>2, <1>5, <1>10, <1>18, <2>1 DEF Parents
  <2>2. ASSUME NEW p \in L, pa2[p] # NULL
        PROVE  pd2[pa2[p]] # pd2[p]
    BY SMTT(20), <1>2, <1>5, <1>6, <1>10, <1>11, <1>18, <2>2 DEF Parents
  <2> QED  BY <2>1, <2>2 DEF Parents
<1>20. Awaited(pd2, pa2, cx2, a0, W \ {w}, L)
  <2> SUFFICES ASSUME NEW p \in W \ {w}, a0[cx2[p]] = SYS_user_wait
               PROVE  \E c \in L : c # p /\ pa2[c] # NULL /\ pd2[pa2[c]] = pd2[p]
    BY DEF Awaited
  <2>1. p \in G /\ p # t /\ p # w /\ cx2[p] = ctx[p] /\ pd2[p] = pid[p] /\ pid[p] # pid[w]
    BY <1>2, <1>5, <1>7, <1>11 DEF Identity
  <2>2. PICK c \in G \union {current} : c # p /\ parent[c] # NULL /\ pid[parent[c]] = pid[p]
    BY <1>4, <2>1 DEF Awaited
  <2>3. c # current /\ c \in G /\ c \in PCB
    BY <1>5, <2>1, <2>2
  <2>4. pd2[parent[c]] = pid[p]
    BY <1>18, <2>2, <2>3
  <2> QED  BY SMT, <1>7, <1>10, <1>11, <2>1, <2>2, <2>3, <2>4
<1> QED  BY <1>9, <1>13, <1>14, <1>15, <1>16, <1>17, <1>19, <1>20 DEF G, Woken

(* The cases of exit in which no parent is waiting. *)
LEMMA ExitAlone ==
  ASSUME IInv, InUser, UNCHANGED <<a0, sems, ids, sem, tick, waitQ>>,
         \A i \in DOMAIN waitQ : ~ParentAt(i),
         \/ waitQ = <<>> /\ Dispatch(FreeProcess(status, current), readyQ)
         \/ RunHead(FreeProcess(status, current), readyQ)
  PROVE  IInv'
<1> USE Zenon
<1> DEFINE R == Range(readyQ)
           W == Range(waitQ)
           st == FreeProcess(status, current)
<1>1. /\ TypeOK /\ IsInjective(readyQ) /\ IsInjective(waitQ)
      /\ readyQ \in Seq(PCB) /\ waitQ \in Seq(PCB) /\ current \in PCB
  BY DEF IInv, TypeOK
<1>2. st \in [PCB -> Status] /\ Consistent(st, pid, parent, ctx, R, W, {})
  BY ExitMid
<1>3. Awaited(pid, parent, ctx, a0, W, R \union W)
  <2>1. Awaited(pid, parent, ctx, a0, W, R \union W \union {current})
    BY DEF IInv
  <2>2. ASSUME NEW p \in W, parent[current] # NULL
        PROVE  pid[parent[current]] # pid[p]
    <3>1. PICK i \in DOMAIN waitQ : waitQ[i] = p
      BY DEF Range
    <3>2. /\ \A j \in DOMAIN waitQ : waitQ[j] \in W
          /\ \A j \in DOMAIN waitQ : waitQ[j] = p => j = i
          /\ i \in Nat /\ DOMAIN waitQ = 1 .. Len(waitQ) /\ Len(waitQ) \in Nat
      BY SMT, <1>1, <3>1 DEF Range, IsInjective
    <3>3. \A q \in W : q # p => pid[q] # pid[p]
      <4>1. Identity(pid, ctx, R \union W \union {})
        BY <1>2 DEF Consistent
      <4> HIDE DEF R, W
      <4> QED  BY <4>1 DEF Identity
    <3>4. \A j \in 1 .. i - 1 : j \in DOMAIN waitQ /\ waitQ[j] # p
      BY SMT, <3>2
    <3>5. \A j \in 1 .. i - 1 : pid[waitQ[j]] # pid[p]
      BY <3>2, <3>3, <3>4
    <3> QED  BY <2>2, <3>1, <3>5 DEF ParentAt
  <2> HIDE DEF R, W
  <2> QED  BY <2>1, <2>2 DEF Awaited
<1> HIDE DEF st
<1>4. Scheduled(pid, parent, ctx, W, R \union W)
  <2>1. CASE Dispatch(st, readyQ)
    BY <1>1, <1>2, <2>1, DispatchOK
  <2>2. CASE RunHead(st, readyQ)
    BY <1>1, <1>2, <2>2, RunHeadOK
  <2> QED  BY <2>1, <2>2 DEF st
<1>5. machine' = "shutdown" => waitQ' = <<>> /\ readyQ' = <<>>
  <2>1. RunHead(st, readyQ) => machine' # "shutdown"
    BY NoShutdown
  <2>2. Dispatch(st, readyQ) /\ readyQ # <<>> => machine' # "shutdown"
    BY NoShutdown
  <2>3. Dispatch(st, readyQ) /\ readyQ = <<>> => readyQ' = <<>>
    BY DEF Dispatch, Stop
  <2> QED  BY <2>1, <2>2, <2>3 DEF st
<1>6. TypeOK'
  BY <1>1, <1>4 DEF TypeOK, ids, sems, Scheduled
<1> QED  BY <1>1, <1>3, <1>4, <1>5, <1>6 DEF IInv, ids, ShutdownOnlyWhenDone, Scheduled

(* schedule(1) of a process whose parent is in the wait queue. *)
LEMMA ExitWakes ==
  ASSUME IInv, InUser, UNCHANGED <<a0, sems>>,
         NEW i \in DOMAIN waitQ, ParentAt(i),
         WakeParent(i, FreeProcess(status, current))
  PROVE  IInv'
<1> USE Zenon
<1> DEFINE R == Range(readyQ)
           W == Range(waitQ)
           w == waitQ[i]
           t == Copy(ctx[current])
           st == FreeProcess(status, current)
           L == R \union (W \ {w}) \union {t}
<1>1. /\ TypeOK /\ IsInjective(readyQ) /\ IsInjective(waitQ)
      /\ readyQ \in Seq(PCB) /\ waitQ \in Seq(PCB) /\ current \in PCB
  BY DEF IInv, TypeOK
<1>2. /\ waitQ' = Unlink(waitQ, i)
      /\ pid' = [pid EXCEPT ![t] = pid[w]] /\ parent' = [parent EXCEPT ![t] = parent[w]]
      /\ sem' = [sem EXCEPT ![t] = sem[w]] /\ tick' = [tick EXCEPT ![t] = tick[w]]
      /\ ctx' = [ctx EXCEPT ![t] = ctx[w]]
      /\ \/ /\ readyQ # <<>>
            /\ RunHead(Marked([st EXCEPT ![t] = st[w]], readyQ, t, "READY"),
                       Enqueue(readyQ, t))
         \/ /\ readyQ = <<>>
            /\ current' = t
            /\ status' = [st EXCEPT ![t] = "RUNNING"]
            /\ UNCHANGED <<machine, readyQ>>
  BY DEF WakeParent
<1>3. /\ w \in PCB /\ w \in W /\ waitQ' \in Seq(PCB) /\ IsInjective(waitQ')
      /\ Range(waitQ') = W \ {w}
  BY <1>1, <1>2, RemoveQueue
<1>4. parent[current] # NULL /\ pid[w] = pid[parent[current]]
  BY DEF ParentAt
<1>5. ASSUME NEW s \in Active
      PROVE  Woken([st EXCEPT ![t] = s], pid', parent', ctx', R, W, w, t, L)
  <2> HIDE DEF R, W, w, t, st, L
  <2>1. /\ st = FreeProcess(status, current) /\ R = Range(readyQ) /\ W = Range(waitQ)
        /\ t = Copy(ctx[current]) /\ L = R \union (W \ {w}) \union {t}
    BY DEF R, W, t, st, L
  <2> QED  BY <1>2, <1>3, <1>4, <2>1, WakeMid
<1>6. /\ pid' \in [PCB -> Slot \union {NULL}] /\ ctx' \in [PCB -> Slot \union {NULL}]
      /\ parent' \in [PCB -> PCB \union {NULL}] /\ sem' \in [PCB -> 0 .. MaxSem]
      /\ tick' \in [PCB -> 0 .. TIME_SLICE_LEN - 1]
  <2> HIDE DEF w, t
  <2>1. pid' \in [PCB -> Slot \union {NULL}] /\ ctx' \in [PCB -> Slot \union {NULL}]
    BY <1>1, <1>2, <1>3 DEF TypeOK
  <2>2. parent' \in [PCB -> PCB \union {NULL}] /\ sem' \in [PCB -> 0 .. MaxSem]
    BY <1>1, <1>2, <1>3 DEF TypeOK
  <2>3. tick' \in [PCB -> 0 .. TIME_SLICE_LEN - 1]
    BY <1>1, <1>2, <1>3 DEF TypeOK
  <2> QED  BY <2>1, <2>2, <2>3
<1>7. /\ l' \in [Sem -> Int] /\ len' \in 0 .. MaxSem /\ a0' \in [Slot -> Int] /\ a0' = a0
  BY <1>1 DEF TypeOK, sems
<1>8. st \in [PCB -> Status]
  BY ExitMid
<1> HIDE DEF st, t, w
<1>9. CASE /\ readyQ # <<>>
           /\ RunHead(Marked([st EXCEPT ![t] = st[w]], readyQ, t, "READY"),
                      Enqueue(readyQ, t))
  <2> DEFINE st2 == [st EXCEPT ![t] = "READY"]
             rq == Enqueue(readyQ, t)
             W2 == W \ {w}
  <2>1. /\ t \in PCB /\ t \notin R /\ st2 \in [PCB -> Status]
        /\ QueuesOK(st2, R, W2, {t})
        /\ Identity(pid', ctx', L) /\ FreeFresh(st2, pid', parent', ctx', L)
        /\ Accounted(st2, pid', parent', L) /\ Parents(pid', parent', L)
        /\ Awaited(pid', parent', ctx', a0, W2, L)
    BY <1>5 DEF Active, Woken
  <2>2. /\ rq \in Seq(PCB) /\ IsInjective(rq) /\ Range(rq) = R \union {t}
        /\ Marked([st EXCEPT ![t] = st[w]], readyQ, t, "READY")
             = [[st EXCEPT ![t] = st[w]] EXCEPT ![t] = "READY"]
    <3>1. rq \in Seq(PCB) /\ IsInjective(rq) /\ Range(rq) = R \union {t}
      BY <1>1, <2>1, EnqueueOK
    <3> QED  BY <2>1, <3>1 DEF Marked
  <2>3. [[st EXCEPT ![t] = st[w]] EXCEPT ![t] = "READY"] = st2
    BY <1>8, <2>1
  <2>4. RunHead(st2, rq)
    BY <1>9, <2>2, <2>3
  <2>5. L = Range(rq) \union W2 /\ L = Range(rq) \union W2 \union {}
    BY <2>2
  <2> HIDE DEF L, rq, W2
  <2>6. QueuesOK(st2, Range(rq), W2, {})
    <3> HIDE DEF R
    <3> QED  BY <1>8, <2>1, <2>2 DEF QueuesOK
  <2> HIDE DEF st2
  <2>7. Consistent(st2, pid', parent', ctx', Range(rq), W2, {})
    BY <2>1, <2>5, <2>6 DEF Consistent
  <2>8. Scheduled(pid', parent', ctx', W2, Range(rq) \union W2)
    BY <1>1, <2>1, <2>2, <2>4, <2>7, RunHeadOK
  <2>9. machine' # "shutdown"
    BY <2>4, NoShutdown
  <2>10. TypeOK'
    BY <1>3, <1>6, <1>7, <2>8 DEF TypeOK, Scheduled
  <2>11. Range(waitQ') = W2
    BY <1>3 DEF W2
  <2> QED  BY <1>3, <1>7, <2>1, <2>5, <2>8, <2>9, <2>10, <2>11
           DEF IInv, ShutdownOnlyWhenDone, Scheduled
<1>10. CASE /\ readyQ = <<>> /\ current' = t
            /\ status' = [st EXCEPT ![t] = "RUNNING"] /\ UNCHANGED <<machine, readyQ>>
  <2> DEFINE W2 == W \ {w}
  <2>1. /\ t \in PCB /\ status' \in [PCB -> Status]
        /\ QueuesOK(status', R, W2, {t})
        /\ Identity(pid', ctx', L) /\ FreeFresh(status', pid', parent', ctx', L)
        /\ Accounted(status', pid', parent', L) /\ Parents(pid', parent', L)
        /\ Awaited(pid', parent', ctx', a0, W2, L)
    BY <1>5, <1>10 DEF Active, Woken
  <2>2. L = R \union W2 \union {t}
    OBVIOUS
  <2>3. Range(readyQ') = R /\ Range(waitQ') = W2 /\ IsInjective(readyQ')
    BY <1>1, <1>3, <1>10
  <2>4. TypeOK'
    BY <1>1, <1>3, <1>6, <1>7, <1>10, <2>1 DEF TypeOK
  <2> HIDE DEF R, W2, L
  <2>5. Consistent(status', pid', parent', ctx', R, W2, {t})
    BY <2>1, <2>2 DEF Consistent
  <2>6. QueuesOK(status', R, W2, {})
    BY <2>1 DEF QueuesOK
  <2> QED  BY <1>3, <1>7, <1>10, <2>1, <2>2, <2>3, <2>4, <2>5, <2>6
           DEF IInv, ShutdownOnlyWhenDone, InUser
<1> QED  BY <1>2, <1>9, <1>10 DEF st, t, w

(* sys_user_exit, whoever waits, preserves the invariant. *)
LEMMA ExitOK ==
  ASSUME IInv, Exit
  PROVE  IInv'
<1> USE Zenon
<1>1. InUser /\ UNCHANGED <<a0, sems>>
  BY DEF Exit
<1>2. CASE /\ waitQ = <<>> /\ Dispatch(FreeProcess(status, current), readyQ)
           /\ UNCHANGED <<ids, sem, tick, waitQ>>
  <2>1. \A i \in DOMAIN waitQ : ~ParentAt(i)
    BY SMT, <1>2
  <2> QED  BY <1>1, <1>2, <2>1, ExitAlone
<1>3. ASSUME NEW i \in DOMAIN waitQ, ParentAt(i), WakeParent(i, FreeProcess(status, current))
      PROVE  IInv'
  BY <1>1, <1>3, ExitWakes
<1>4. CASE /\ \A i \in DOMAIN waitQ : ~ParentAt(i)
           /\ RunHead(FreeProcess(status, current), readyQ)
           /\ UNCHANGED <<ids, sem, tick, waitQ>>
  BY <1>1, <1>4, ExitAlone
<1> QED  BY <1>2, <1>3, <1>4 DEF Exit

-----------------------------------------------------------------------------
(* The invariant holds when the first process starts. *)
LEMMA InitOK == Init => IInv
<1> USE Zenon
<1> SUFFICES ASSUME Init PROVE IInv
  OBVIOUS
<1>1. Range(readyQ) = {} /\ Range(waitQ) = {} /\ IsInjective(readyQ) /\ IsInjective(waitQ)
  BY SMT DEF Init, Range, IsInjective
<1>2. TypeOK
  BY SMT, SliceAssumption, MaxSemAssumption, Numbers DEF Init, TypeOK, Machine, Status
<1>3. /\ \A p \in PCB : status[p] = IF p = 0 THEN "RUNNING" ELSE "FREE"
      /\ \A p \in PCB : /\ pid[p] = IF p \in Slot THEN p ELSE NULL
                        /\ ctx[p] = IF p \in Slot THEN p ELSE NULL
                        /\ parent[p] = NULL
      /\ current = 0
  BY DEF Init
<1>4. QueuesOK(status, {}, {}, {current}) /\ QueuesOK(status, {}, {}, {})
  BY <1>3, Numbers DEF QueuesOK
<1>5. Identity(pid, ctx, {current})
  BY ZenonT(40), <1>3, Numbers DEF Identity
<1>6. FreeFresh(status, pid, parent, ctx, {current})
  BY ZenonT(40), <1>3, Numbers DEF FreeFresh
<1>7. Accounted(status, pid, parent, {current})
  BY <1>3, Numbers DEF Accounted, Active
<1>8. Parents(pid, parent, {current})
  BY <1>3, Numbers DEF Parents
<1>9. {} \union {} \union {current} = {current}
  OBVIOUS
<1>10. Consistent(status, pid, parent, ctx, {}, {}, {current})
  BY <1>4, <1>5, <1>6, <1>7, <1>8, <1>9 DEF Consistent
<1>11. Awaited(pid, parent, ctx, a0, {}, {} \union {} \union {current})
  BY DEF Awaited
<1> QED  BY <1>1, <1>2, <1>4, <1>10, <1>11 DEF IInv, Init, ShutdownOnlyWhenDone

(* Every step of the kernel preserves it. *)
LEMMA NextOK == IInv /\ [Next]_vars => IInv'
<1> USE Zenon
<1> SUFFICES ASSUME IInv, [Next]_vars PROVE IInv'
  OBVIOUS
<1>1. CASE Yield
  BY <1>1, YieldOK
<1>2. CASE Tick
  BY <1>2, TickOK
<1>3. CASE Fork
  BY <1>3, ForkOK
<1>4. ASSUME NEW found \in BOOLEAN, Exec(found) PROVE IInv'
  BY <1>4, ExecOK
<1>5. ASSUME NEW arg \in -1 .. NPROC - 1, Wait(arg) PROVE IInv'
  BY <1>5, WaitOK
<1>6. CASE Exit
  BY <1>6, ExitOK
<1>7. CASE Semaphores
  <2>1. ASSUME NEW value \in {0, 1}, SemNew(value) PROVE IInv'
    BY <2>1, SemNewOK
  <2>2. ASSUME NEW s \in 1 .. len, SemP(s) PROVE IInv'
    BY <2>2, SemPOK
  <2>3. ASSUME NEW s \in 1 .. len, SemV(s) PROVE IInv'
    BY <2>3, SemVOK
  <2> QED  BY <1>7, <2>1, <2>2, <2>3 DEF Semaphores
<1>8. CASE UNCHANGED vars
  BY <1>8 DEF vars, IInv, TypeOK, ShutdownOnlyWhenDone, InUser
<1> QED  BY <1>1, <1>2, <1>3, <1>4, <1>5, <1>6, <1>7, <1>8 DEF Next

(* What the invariant says about queues, copies, pids and waiters. *)
LEMMA IInvImplies ==
  ASSUME IInv
  PROVE  /\ QueueDiscipline /\ ReadyAssertHolds /\ DistinctLive /\ StackCopySafe
         /\ NoProcessLost /\ WaiterHasChild
<1> USE Zenon
<1> DEFINE R == Range(readyQ)
           W == Range(waitQ)
           L == R \union W \union {current}
<1>1. QueuesOK(status, R, W, {}) /\ IsInjective(readyQ) /\ IsInjective(waitQ)
      /\ machine # "assert"
  BY DEF IInv
<1>2. QueueDiscipline
  <2>1. R \intersect W = {}
    BY <1>1 DEF QueuesOK
  <2> QED  BY <1>1, <2>1, InUserFacts DEF QueueDiscipline
<1>3. ReadyAssertHolds
  <2>1. (\A i \in DOMAIN readyQ : readyQ[i] \in R) /\ (\A i \in DOMAIN waitQ : waitQ[i] \in W)
    BY DEF Range
  <2> HIDE DEF R, W
  <2> QED  BY <1>1, <2>1 DEF ReadyAssertHolds, QueuesOK
<1>4. CASE ~InUser
  BY <1>2, <1>3, <1>4 DEF Live, DistinctLive, StackCopySafe, NoProcessLost, WaiterHasChild
<1>5. CASE InUser
  <2>1. /\ Identity(pid, ctx, L) /\ Accounted(status, pid, parent, L)
        /\ Awaited(pid, parent, ctx, a0, W, L)
    BY <1>5 DEF IInv, Consistent
  <2>2. Live = L
    BY <1>5 DEF Live
  <2>3. W \subseteq L
    OBVIOUS
  <2> HIDE DEF L, W
  <2>4. DistinctLive
    BY <2>1, <2>2 DEF DistinctLive, Identity
  <2>5. StackCopySafe
    BY SMTT(20), <2>1, <2>2, Numbers DEF StackCopySafe, Identity
  <2>6. NoProcessLost
    BY <2>1, <2>2 DEF NoProcessLost, Accounted, Active
  <2>7. WaiterHasChild
    BY <2>1, <2>2 DEF WaiterHasChild, Awaited, BlockedInWait, ChildOf, W
  <2> QED  BY <1>2, <1>3, <2>4, <2>5, <2>6, <2>7
<1> QED  BY <1>4, <1>5

(***************************************************************************)
(* Process management keeps the whole inductive invariant: at every return *)
(* to user mode the queues, the pids, the contexts and the parent pointers *)
(* are consistent (kernel/process.c, kernel/sched.c, kernel/syscall.c).    *)
(***************************************************************************)
THEOREM Invariance == Spec => []IInv
BY InitOK, NextOK, PTL DEF Spec

(* Every variable of process management keeps its type, for any NPROC. *)
THEOREM TypeCorrect == Spec => []TypeOK
<1>1. IInv => TypeOK
  BY Zenon DEF IInv
<1> QED  BY <1>1, Invariance, PTL

(* The field queue_next never serves two queues at once (sched.c). *)
THEOREM QueuesSafe == Spec => []QueueDiscipline
<1>1. IInv => QueueDiscipline
  BY Zenon, IInvImplies
<1> QED  BY <1>1, Invariance, PTL

(* The assert on READY in schedule() never fails (sched.c:156, :201). *)
THEOREM AssertSafe == Spec => []ReadyAssertHolds
<1>1. IInv => ReadyAssertHolds
  BY Zenon, IInvImplies
<1> QED  BY <1>1, Invariance, PTL

(* Live processes never share a pid or a context (do_exec, schedule(1)). *)
THEOREM IdentitySafe == Spec => []DistinctLive
<1>1. IInv => DistinctLive
  BY Zenon, IInvImplies
<1> QED  BY <1>1, Invariance, PTL

(* The copy of a control block on a kernel stack is safe while in use. *)
THEOREM CopySafe == Spec => []StackCopySafe
<1>1. IInv => StackCopySafe
  BY Zenon, IInvImplies
<1> QED  BY <1>1, Invariance, PTL

(* schedule() shuts down only when no process is left (sched.c:183-198). *)
THEOREM ShutdownSafe == Spec => []ShutdownOnlyWhenDone
<1>1. IInv => ShutdownOnlyWhenDone
  BY Zenon DEF IInv
<1> QED  BY <1>1, Invariance, PTL

(* No process is dropped by fork, exec, wait, exit or the semaphores. *)
THEOREM NothingLost == Spec => []NoProcessLost
<1>1. IInv => NoProcessLost
  BY Zenon, IInvImplies
<1> QED  BY <1>1, Invariance, PTL

(* wait() never blocks a process that no exit will wake (process_wait). *)
THEOREM WaitSafe == Spec => []WaiterHasChild
<1>1. IInv => WaiterHasChild
  BY Zenon, IInvImplies
<1> QED  BY <1>1, Invariance, PTL
=============================================================================
