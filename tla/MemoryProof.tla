---------------------------- MODULE MemoryProof ----------------------------
(***************************************************************************)
(* Proofs about Memory, for any number of pages, processes, heap and stack *)
(* pages and for segments of one page and of two.                          *)
(*                                                                         *)
(* Inv is inductive for Spec, whatever the processes do.  Beside it, Apart *)
(* is inductive for UnsharedSpec: a page has one owner as long as a        *)
(* process frees a page, or loads over its image, only while no other one  *)
(* shares the page.                                                        *)
(***************************************************************************)
EXTENDS Memory, TLAPS

-----------------------------------------------------------------------------
(* Sequences without repetitions: the free list.                          *)

(* The elements and the indices of a sequence. *)
LEMMA RangeIn ==
  ASSUME NEW S, NEW q \in Seq(S)
  PROVE  Range(q) \subseteq S /\ DOMAIN q = 1 .. Len(q) /\ Len(q) \in Nat
BY DEF Range

(* Part of a sequence. *)
LEMMA Slice ==
  ASSUME NEW S, NEW q \in Seq(S), NEW m \in 1 .. Len(q) + 1, NEW n \in m - 1 .. Len(q)
  PROVE  /\ SubSeq(q, m, n) \in Seq(S)
         /\ Len(SubSeq(q, m, n)) = n - m + 1
         /\ DOMAIN SubSeq(q, m, n) = 1 .. n - m + 1
         /\ \A i \in 1 .. n - m + 1 : SubSeq(q, m, n)[i] = q[m + i - 1]
<1>1. Len(q) \in Nat /\ m \in Int /\ n \in Int
  OBVIOUS
<1>2. \A i \in m .. n : q[i] \in S
  BY <1>1
<1>3. /\ SubSeq(q, m, n) \in Seq(S)
      /\ Len(SubSeq(q, m, n)) = IF m <= n THEN n - m + 1 ELSE 0
      /\ \A i \in 1 .. n - m + 1 : SubSeq(q, m, n)[i] = q[m + i - 1]
  BY <1>1, <1>2
<1>4. Len(SubSeq(q, m, n)) = n - m + 1
  BY <1>1, <1>3
<1> QED  BY <1>3, <1>4

(* Part of a sequence without repetitions has none, and lacks what is outside it. *)
LEMMA SliceQueue ==
  ASSUME NEW S, NEW q \in Seq(S), IsInjective(q),
         NEW m \in 1 .. Len(q) + 1, NEW n \in m - 1 .. Len(q)
  PROVE  /\ IsInjective(SubSeq(q, m, n))
         /\ Range(SubSeq(q, m, n)) = {q[i] : i \in m .. n}
         /\ \A i \in (1 .. Len(q)) \ (m .. n) : q[i] \notin Range(SubSeq(q, m, n))
<1> USE Zenon
<1> DEFINE r == SubSeq(q, m, n)
<1>1. /\ DOMAIN r = 1 .. n - m + 1
      /\ \A i \in 1 .. n - m + 1 : r[i] = q[m + i - 1]
  BY SMT, Slice
<1>2. Len(q) \in Nat /\ DOMAIN q = 1 .. Len(q)
  BY SMT
<1>3. \A i \in 1 .. n - m + 1 : m + i - 1 \in m .. n /\ m + i - 1 \in DOMAIN q
  BY SMT, <1>2
<1>4. \A i \in m .. n : i - m + 1 \in 1 .. n - m + 1 /\ m + (i - m + 1) - 1 = i
  BY SMT, <1>2
<1> HIDE DEF r
<1>5. Range(r) = {q[i] : i \in m .. n}
  <2>1. \A i \in DOMAIN r : r[i] \in {q[j] : j \in m .. n}
    BY <1>1, <1>3
  <2>2. ASSUME NEW i \in m .. n
        PROVE  q[i] \in Range(r)
    <3>1. i - m + 1 \in DOMAIN r
      BY <1>1, <1>4
    <3>2. r[i - m + 1] = q[i]
      BY <1>1, <1>4
    <3> QED  BY <3>1, <3>2 DEF Range
  <2> QED  BY <2>1, <2>2 DEF Range
<1>6. IsInjective(r)
  <2> SUFFICES ASSUME NEW a \in DOMAIN r, NEW b \in DOMAIN r, r[a] = r[b]
               PROVE  a = b
    BY DEF IsInjective
  <2>1. m + a - 1 = m + b - 1
    BY ZenonT(40), <1>1, <1>3 DEF IsInjective
  <2> QED  BY SMT, <1>1, <1>2, <2>1
<1>7. \A i \in (1 .. Len(q)) \ (m .. n) : q[i] \notin {q[j] : j \in m .. n}
  <2> SUFFICES ASSUME NEW i \in (1 .. Len(q)) \ (m .. n), NEW j \in m .. n, q[i] = q[j]
               PROVE  FALSE
    OBVIOUS
  <2>1. i \in DOMAIN q /\ j \in DOMAIN q
    BY SMT, <1>2
  <2> QED  BY <2>1 DEF IsInjective
<1> QED  BY <1>5, <1>6, <1>7 DEF r

(* Two sequences without repetitions and without a common element. *)
LEMMA JoinQueue ==
  ASSUME NEW S, NEW q \in Seq(S), NEW r \in Seq(S), IsInjective(q), IsInjective(r),
         Range(q) \cap Range(r) = {}
  PROVE  /\ q \o r \in Seq(S)
         /\ IsInjective(q \o r)
         /\ Range(q \o r) = Range(q) \cup Range(r)
<1> DEFINE t == q \o r
<1>1. /\ t \in Seq(S) /\ Len(t) = Len(q) + Len(r)
      /\ \A i \in 1 .. Len(q) + Len(r) : t[i] = IF i <= Len(q) THEN q[i] ELSE r[i - Len(q)]
  OBVIOUS
<1>2. Len(q) \in Nat /\ Len(r) \in Nat /\ DOMAIN q = 1 .. Len(q) /\ DOMAIN r = 1 .. Len(r)
  OBVIOUS
<1>3. DOMAIN t = 1 .. Len(q) + Len(r)
  BY <1>1
<1> HIDE DEF t
<1>4. Range(t) = Range(q) \cup Range(r)
  <2>1. \A i \in DOMAIN q : i \in DOMAIN t /\ t[i] = q[i]
    BY <1>1, <1>2, <1>3
  <2>2. \A i \in DOMAIN r : Len(q) + i \in DOMAIN t /\ t[Len(q) + i] = r[i]
    BY <1>1, <1>2, <1>3
  <2>3. ASSUME NEW i \in DOMAIN t
        PROVE  t[i] \in Range(q) \cup Range(r)
    <3>1. CASE i <= Len(q)
      BY <1>1, <1>2, <1>3, <3>1 DEF Range
    <3>2. CASE ~(i <= Len(q))
      <4>1. i - Len(q) \in DOMAIN r /\ t[i] = r[i - Len(q)]
        BY <1>1, <1>2, <1>3, <3>2
      <4> QED  BY Zenon, <4>1 DEF Range
    <3> QED  BY Zenon, <3>1, <3>2
  <2> QED  BY <2>1, <2>2, <2>3 DEF Range
<1>5. IsInjective(t)
  <2> SUFFICES ASSUME NEW a \in DOMAIN t, NEW b \in DOMAIN t, t[a] = t[b]
               PROVE  a = b
    BY Zenon DEF IsInjective
  <2>1. ASSUME NEW i \in DOMAIN t
        PROVE  \/ i \in DOMAIN q /\ t[i] = q[i]
               \/ i - Len(q) \in DOMAIN r /\ t[i] = r[i - Len(q)]
    BY <1>1, <1>2, <1>3
  <2>2. \A i \in DOMAIN q, j \in DOMAIN r : q[i] # r[j]
    BY Zenon DEF Range
  <2>3. CASE a \in DOMAIN q /\ t[a] = q[a]
    BY Zenon, <2>1, <2>2, <2>3 DEF IsInjective
  <2>4. CASE a - Len(q) \in DOMAIN r /\ t[a] = r[a - Len(q)]
    <3>1. b - Len(q) \in DOMAIN r /\ t[b] = r[b - Len(q)]
      BY Zenon, <2>1, <2>2, <2>4
    <3>2. a - Len(q) = b - Len(q)
      BY Zenon, <2>4, <3>1 DEF IsInjective
    <3> QED  BY <3>2, <1>2, <1>3
  <2> QED  BY Zenon, <2>1, <2>3, <2>4
<1> QED  BY Zenon, <1>1, <1>4, <1>5 DEF t

(* A new element at the end of a sequence without repetitions. *)
LEMMA AppendQueue ==
  ASSUME NEW S, NEW q \in Seq(S), NEW x \in S,
         IsInjective(q), x \notin Range(q)
  PROVE  /\ Append(q, x) \in Seq(S)
         /\ Append(q, x) # <<>>
         /\ IsInjective(Append(q, x))
         /\ Range(Append(q, x)) = Range(q) \union {x}
<1> DEFINE r == Append(q, x)
<1>1. /\ r \in Seq(S) /\ Len(r) = Len(q) + 1 /\ r # <<>>
      /\ DOMAIN r = 1 .. Len(q) + 1 /\ DOMAIN q = 1 .. Len(q)
      /\ r[Len(q) + 1] = x
      /\ \A i \in 1 .. Len(q) : r[i] = q[i]
  OBVIOUS
<1>2. Len(q) \in Nat
  OBVIOUS
<1> HIDE DEF r
<1>3. Range(r) = Range(q) \union {x}
  <2>1. \A i \in 1 .. Len(q) + 1 : i \in 1 .. Len(q) \/ i = Len(q) + 1
    BY <1>2
  <2>2. 1 .. Len(q) \subseteq 1 .. Len(q) + 1 /\ Len(q) + 1 \in 1 .. Len(q) + 1
    BY <1>2
  <2> QED  BY Zenon, <1>1, <2>1, <2>2 DEF Range
<1>4. IsInjective(r)
  <2> SUFFICES ASSUME NEW a \in 1 .. Len(q) + 1, NEW b \in 1 .. Len(q) + 1, r[a] = r[b]
               PROVE  a = b
    BY Zenon, <1>1 DEF IsInjective
  <2>1. \A i \in 1 .. Len(q) : q[i] # x
    BY Zenon, <1>1 DEF Range
  <2> QED  BY <1>1, <1>2, <2>1 DEF IsInjective
<1> QED  BY Zenon, <1>1, <1>3, <1>4 DEF r

(* The head of a sequence without repetitions is gone from its tail. *)
LEMMA TailQueue ==
  ASSUME NEW S, NEW q \in Seq(S), q # <<>>, IsInjective(q)
  PROVE  /\ Head(q) \in S
         /\ Head(q) \in Range(q)
         /\ Tail(q) \in Seq(S)
         /\ IsInjective(Tail(q))
         /\ Range(Tail(q)) = Range(q) \ {Head(q)}
<1> DEFINE r == Tail(q)
<1>1. /\ r \in Seq(S) /\ Len(q) \in Nat /\ Len(q) # 0
      /\ DOMAIN q = 1 .. Len(q) /\ DOMAIN r = 1 .. Len(q) - 1
      /\ \A i \in 1 .. Len(q) - 1 : r[i] = q[i + 1]
      /\ Head(q) = q[1] /\ Head(q) \in S
  OBVIOUS
<1> HIDE DEF r
<1>2. 1 \in DOMAIN q
  BY <1>1
<1>3. Range(r) = Range(q) \ {q[1]}
  <2>1. ASSUME NEW i \in DOMAIN r
        PROVE  r[i] \in Range(q) /\ r[i] # q[1]
    <3>1. i + 1 \in DOMAIN q /\ i + 1 # 1 /\ r[i] = q[i + 1]
      BY <1>1
    <3> QED  BY Zenon, <1>2, <3>1 DEF Range, IsInjective
  <2>2. ASSUME NEW i \in DOMAIN q, q[i] # q[1]
        PROVE  i - 1 \in DOMAIN r /\ r[i - 1] = q[i]
    <3>1. i # 1 /\ i \in 1 .. Len(q)
      BY Zenon, <1>1, <2>2
    <3>2. i - 1 \in 1 .. Len(q) - 1 /\ (i - 1) + 1 = i
      BY <1>1, <3>1
    <3> QED  BY Zenon, <1>1, <3>2
  <2> QED  BY <2>1, <2>2 DEF Range
<1>4. IsInjective(r)
  <2> SUFFICES ASSUME NEW a \in DOMAIN r, NEW b \in DOMAIN r, r[a] = r[b]
               PROVE  a = b
    BY Zenon DEF IsInjective
  <2>1. a + 1 \in DOMAIN q /\ b + 1 \in DOMAIN q /\ q[a + 1] = q[b + 1]
    BY <1>1
  <2>2. a + 1 = b + 1
    BY Zenon, <2>1 DEF IsInjective
  <2> QED  BY <2>2, <1>1
<1> QED  BY Zenon, <1>1, <1>2, <1>3, <1>4 DEF r, Range

(* A new element at the front of a sequence without repetitions. *)
LEMMA ConsQueue ==
  ASSUME NEW S, NEW q \in Seq(S), NEW x \in S,
         IsInjective(q), x \notin Range(q)
  PROVE  /\ <<x>> \o q \in Seq(S)
         /\ IsInjective(<<x>> \o q)
         /\ Range(<<x>> \o q) = Range(q) \union {x}
<1> DEFINE r == <<x>> \o q
<1>1. /\ r \in Seq(S) /\ Len(q) \in Nat
      /\ DOMAIN q = 1 .. Len(q) /\ DOMAIN r = 1 .. Len(q) + 1
      /\ r[1] = x
      /\ \A i \in 2 .. Len(q) + 1 : r[i] = q[i - 1]
  OBVIOUS
<1> HIDE DEF r
<1>2. \A i \in DOMAIN q : i + 1 \in DOMAIN r /\ r[i + 1] = q[i] /\ q[i] # x
  BY <1>1 DEF Range
<1>3. \A i \in DOMAIN r : i = 1 \/ (i - 1 \in DOMAIN q /\ r[i] = q[i - 1])
  BY <1>1
<1>4. Range(r) = Range(q) \union {x}
  BY <1>1, <1>2, <1>3, 1 \in DOMAIN r DEF Range
<1>5. IsInjective(r)
  <2> SUFFICES ASSUME NEW a \in DOMAIN r, NEW b \in DOMAIN r, r[a] = r[b]
               PROVE  a = b
    BY Zenon DEF IsInjective
  <2> QED  BY SMTT(30), <1>1, <1>2, <1>3 DEF IsInjective
<1> QED  BY Zenon, <1>1, <1>4, <1>5 DEF r

-----------------------------------------------------------------------------
USE PagesAssumption, ImageAssumption, BoundsAssumption, HeapAssumption

(* The heap manager (tp, fr) of a process agrees with its page table t. *)
HeapOK(t, tp, fr) ==
  /\ IsInjective(fr) /\ Range(fr) \subseteq 0 .. tp - 1
  /\ \A i \in 0 .. MaxHeap - 1 :
       /\ t[Heap(i)].v => i < tp /\ i \notin Range(fr)
       /\ i < tp /\ i \notin Range(fr) /\ i < Cleared => t[Heap(i)].v

(* What fork copies and exec1 frees is always there. *)
Anchored(t) ==
  /\ t[Code(0)].v /\ t[Code(0)].pa # NULL
  /\ \A va \in {Stack(0), Data(0)} : t[va].v /\ t[va].w /\ t[va].pa # NULL

Inv ==
  /\ TypeOK
  /\ \A p \in alive : Anchored(pt[p]) /\ HeapOK(pt[p], top[p], freed[p])

-----------------------------------------------------------------------------
(* The addresses of the four regions differ. *)
LEMMA Addresses ==
  /\ \A i \in 0 .. MaxHeap - 1 : Heap(i) \in VA
  /\ {Stack(0), Code(0), Code(1), Data(0), Data(1)} \subseteq VA
  /\ \A i : Heap(i)[1] = "heap" /\ Heap(i)[2] = i
  /\ \A i : Stack(i)[1] = "stack" /\ Stack(i)[2] = i
  /\ \A i : Code(i)[1] = "code" /\ Code(i)[2] = i
  /\ \A i : Data(i)[1] = "data" /\ Data(i)[2] = i
  /\ \A va \in VA :
       \/ va[1] = "heap" /\ va[2] \in 0 .. MaxHeap - 1 /\ va = Heap(va[2])
       \/ va[1] = "stack" /\ va[2] \in 0 .. MaxStack - 1 /\ va = Stack(va[2])
       \/ va[1] = "code" /\ va[2] \in 0 .. 1 /\ va = Code(va[2])
       \/ va[1] = "data" /\ va[2] \in 0 .. 1 /\ va = Data(va[2])
BY DEF VA, Heap, Stack, Code, Data

(* What map_pages writes to a page table entry, and what an entry holds. *)
LEMMA Entries ==
  /\ Unmapped \in PTE /\ ~Unmapped.v
  /\ \A pa \in Page \union {NULL} :
       /\ Mapping(pa, TRUE) \in PTE /\ Mapping(pa, FALSE) \in PTE
       /\ Mapping(pa, TRUE).v /\ Mapping(pa, TRUE).w /\ Mapping(pa, TRUE).pa = pa
       /\ Mapping(pa, FALSE).v /\ ~Mapping(pa, FALSE).w /\ Mapping(pa, FALSE).pa = pa
  /\ NULL \notin Page
  /\ \A e \in PTE : e.v \in BOOLEAN /\ e.w \in BOOLEAN /\ e.pa \in Page \union {NULL}
BY DEF Unmapped, Mapping, PTE, NULL, Page

(* The entry of a page mapped for its owner. *)
LEMMA Fresh ==
  ASSUME NEW pa \in Page
  PROVE  /\ Mapping(pa, TRUE) \in PTE
         /\ Mapping(pa, TRUE).v /\ Mapping(pa, TRUE).w /\ Mapping(pa, TRUE).pa = pa
         /\ pa # NULL
BY Zenon, Entries

(* The entry of a page mapped read only. *)
LEMMA Borrowed ==
  ASSUME NEW pa \in Page \union {NULL}
  PROVE  /\ Mapping(pa, FALSE) \in PTE
         /\ Mapping(pa, FALSE).v /\ ~Mapping(pa, FALSE).w /\ Mapping(pa, FALSE).pa = pa
BY Zenon, Entries

(***************************************************************************)
(* elf_alloc_mb takes its pages out of the list it is given.               *)
(***************************************************************************)
LEMMA Taken ==
  ASSUME NEW fr \in Seq(Page), NEW c \in TakeImage(fr), IsInjective(fr)
  PROVE  /\ c.rest \in Seq(Page) /\ IsInjective(c.rest)
         /\ \A i \in 0 .. ImagePages - 1 : c.pages[i + 1] \in Range(fr) \ Range(c.rest)
         /\ \A i, j \in 0 .. ImagePages - 1 : c.pages[i + 1] = c.pages[j + 1] => i = j
         /\ Range(c.rest) \subseteq Range(fr)
         /\ Range(fr) \subseteq Page
<1> USE Zenon
<1>1. Range(fr) \subseteq Page /\ Len(fr) \in Nat /\ DOMAIN fr = 1 .. Len(fr)
  BY RangeIn
<1>2. CASE ImagePages = 1
  <2>1. 1 \in DOMAIN fr /\ c = [pages |-> <<fr[1], NULL>>, rest |-> Tail(fr)]
    BY <1>2 DEF TakeImage
  <2>2. fr # <<>> /\ Head(fr) = fr[1]
    BY SMT, <2>1
  <2>3. /\ Tail(fr) \in Seq(Page) /\ IsInjective(Tail(fr))
        /\ Head(fr) \in Range(fr) /\ Range(Tail(fr)) = Range(fr) \ {Head(fr)}
    BY <2>2, TailQueue
  <2>4. c.rest = Tail(fr) /\ c.pages[1] = fr[1]
    BY <2>1
  <2>5. \A i \in 0 .. ImagePages - 1 : i = 0 /\ i + 1 = 1
    BY SMT, <1>2
  <2> QED  BY <1>1, <2>2, <2>3, <2>4, <2>5
<1>3. CASE ImagePages = 2
  <2>1. PICK i \in DOMAIN fr :
          /\ PairAt(fr, i)
          /\ c = [pages |-> <<fr[i + 1], fr[i]>>,
                  rest |-> SubSeq(fr, 1, i - 1) \o SubSeq(fr, i + 2, Len(fr))]
    <3>1. TakeImage(fr) =
            {[pages |-> <<fr[i + 1], fr[i]>>,
              rest |-> SubSeq(fr, 1, i - 1) \o SubSeq(fr, i + 2, Len(fr))] :
               i \in {j \in DOMAIN fr : PairAt(fr, j) /\ \A k \in 1 .. j - 1 : ~PairAt(fr, k)}}
      BY SMT, <1>3 DEF TakeImage
    <3> QED  BY <3>1
  <2>2. i \in 2 .. Len(fr) - 1
    BY <2>1 DEF PairAt
  <2> DEFINE u == SubSeq(fr, 1, i - 1)
             v == SubSeq(fr, i + 2, Len(fr))
  <2>3. /\ 1 \in 1 .. Len(fr) + 1 /\ i - 1 \in 1 - 1 .. Len(fr)
        /\ i + 2 \in 1 .. Len(fr) + 1 /\ Len(fr) \in (i + 2) - 1 .. Len(fr)
    BY SMT, <1>1, <2>2
  <2>4. /\ u \in Seq(Page) /\ IsInjective(u) /\ Range(u) = {fr[k] : k \in 1 .. i - 1}
        /\ \A k \in (1 .. Len(fr)) \ (1 .. i - 1) : fr[k] \notin Range(u)
    <3>1. u \in Seq(Page)
      BY <2>3, Slice
    <3> QED  BY <2>3, <3>1, SliceQueue
  <2>5. /\ v \in Seq(Page) /\ IsInjective(v) /\ Range(v) = {fr[k] : k \in i + 2 .. Len(fr)}
        /\ \A k \in (1 .. Len(fr)) \ (i + 2 .. Len(fr)) : fr[k] \notin Range(v)
    <3>1. v \in Seq(Page)
      BY <2>3, Slice
    <3> QED  BY <2>3, <3>1, SliceQueue
  <2>6. c.rest = u \o v /\ c.pages[1] = fr[i + 1] /\ c.pages[2] = fr[i]
    BY <2>1
  <2> HIDE DEF u, v
  <2>7. Range(u) \cap Range(v) = {}
    <3>1. \A k \in 1 .. i - 1 : k \in (1 .. Len(fr)) \ (i + 2 .. Len(fr))
      BY SMT, <1>1, <2>2
    <3> QED  BY <2>4, <2>5, <3>1
  <2>8. /\ c.rest \in Seq(Page) /\ IsInjective(c.rest)
        /\ Range(c.rest) = Range(u) \union Range(v)
    <3>1. u \in Seq(Page) /\ v \in Seq(Page) /\ IsInjective(u) /\ IsInjective(v)
      BY <2>4, <2>5
    <3>2. u \o v \in Seq(Page) /\ IsInjective(u \o v) /\ Range(u \o v) = Range(u) \cup Range(v)
      BY SMT, <2>7, <3>1, JoinQueue
    <3> QED  BY <2>6, <3>2
  <2>9. Range(c.rest) \subseteq Range(fr)
    <3>1. 1 .. i - 1 \subseteq DOMAIN fr /\ i + 2 .. Len(fr) \subseteq DOMAIN fr
      BY SMT, <1>1, <2>2
    <3> QED  BY <2>4, <2>5, <2>8, <3>1 DEF Range
  <2>10. \A k \in {i, i + 1} : fr[k] \in Range(fr) \ Range(c.rest)
    <3>1. \A k \in {i, i + 1} : /\ k \in DOMAIN fr
                                /\ k \in (1 .. Len(fr)) \ (1 .. i - 1)
                                /\ k \in (1 .. Len(fr)) \ (i + 2 .. Len(fr))
      BY SMT, <1>1, <2>2
    <3> QED  BY <2>4, <2>5, <2>8, <3>1 DEF Range
  <2>11. fr[i] # fr[i + 1]
    <3>1. i + 1 \in DOMAIN fr /\ i # i + 1
      BY SMT, <1>1, <2>2
    <3> QED  BY <3>1 DEF IsInjective
  <2>12. \A j \in 0 .. ImagePages - 1 : (j = 0 /\ j + 1 = 1) \/ (j = 1 /\ j + 1 = 2)
    BY SMT, <1>3
  <2> QED  BY ZenonT(40), <1>1, <2>6, <2>8, <2>9, <2>10, <2>11, <2>12
<1> QED  BY <1>2, <1>3

(* Whatever the list: the types of the result. *)
LEMMA TakenType ==
  ASSUME NEW fr \in Seq(Page), NEW c \in TakeImage(fr)
  PROVE  /\ c.rest \in Seq(Page)
         /\ \A i \in 0 .. ImagePages - 1 : c.pages[i + 1] \in Page
<1> USE Zenon
<1>1. Len(fr) \in Nat /\ DOMAIN fr = 1 .. Len(fr) /\ \A i \in DOMAIN fr : fr[i] \in Page
  BY SMT
<1>2. CASE ImagePages = 1
  <2>1. 1 \in DOMAIN fr /\ c = [pages |-> <<fr[1], NULL>>, rest |-> Tail(fr)]
    BY <1>2 DEF TakeImage
  <2>2. fr # <<>>
    BY SMT, <2>1
  <2>3. Tail(fr) \in Seq(Page)
    BY SMT, <2>2
  <2>4. \A i \in 0 .. ImagePages - 1 : i + 1 = 1
    BY SMT, <1>2
  <2>5. c.rest = Tail(fr) /\ c.pages[1] = fr[1]
    BY <2>1
  <2> QED  BY <1>1, <2>1, <2>3, <2>4, <2>5
<1>3. CASE ImagePages = 2
  <2>1. PICK i \in DOMAIN fr :
          /\ PairAt(fr, i)
          /\ c = [pages |-> <<fr[i + 1], fr[i]>>,
                  rest |-> SubSeq(fr, 1, i - 1) \o SubSeq(fr, i + 2, Len(fr))]
    <3>1. TakeImage(fr) =
            {[pages |-> <<fr[i + 1], fr[i]>>,
              rest |-> SubSeq(fr, 1, i - 1) \o SubSeq(fr, i + 2, Len(fr))] :
               i \in {j \in DOMAIN fr : PairAt(fr, j) /\ \A k \in 1 .. j - 1 : ~PairAt(fr, k)}}
      BY SMT, <1>3 DEF TakeImage
    <3> QED  BY <3>1
  <2>2. i \in 2 .. Len(fr) - 1
    BY <2>1 DEF PairAt
  <2>3. /\ 1 \in 1 .. Len(fr) + 1 /\ i - 1 \in 1 - 1 .. Len(fr)
        /\ i + 2 \in 1 .. Len(fr) + 1 /\ Len(fr) \in (i + 2) - 1 .. Len(fr)
        /\ i + 1 \in DOMAIN fr
    BY SMT, <1>1, <2>2
  <2>4. SubSeq(fr, 1, i - 1) \in Seq(Page) /\ SubSeq(fr, i + 2, Len(fr)) \in Seq(Page)
    BY <2>3, Slice
  <2>5. SubSeq(fr, 1, i - 1) \o SubSeq(fr, i + 2, Len(fr)) \in Seq(Page)
    BY SMT, <2>4
  <2>6. \A j \in 0 .. ImagePages - 1 : (j + 1 = 1) \/ (j + 1 = 2)
    BY SMT, <1>3
  <2>7. c.pages[1] = fr[i + 1] /\ c.pages[2] = fr[i]
        /\ c.rest = SubSeq(fr, 1, i - 1) \o SubSeq(fr, i + 2, Len(fr))
    BY <2>1
  <2>8. fr[i + 1] \in Page /\ fr[i] \in Page
    BY <1>1, <2>1, <2>3
  <2>9. c.rest \in Seq(Page)
    BY <2>5, <2>7
  <2>10. \A j \in 0 .. ImagePages - 1 : c.pages[j + 1] \in Page
    BY <2>6, <2>7, <2>8
  <2> QED  BY <2>9, <2>10
<1> QED  BY <1>2, <1>3

(* The entries of a program segment of one or two pages. *)
LEMMA Segments ==
  ASSUME NEW pages, \A i \in 0 .. ImagePages - 1 : pages[i + 1] \in Page
  PROVE  \A i \in 0 .. 1 :
           /\ Segment(pages, i) \in PTE
           /\ Segment(pages, i).v <=> i \in 0 .. ImagePages - 1
           /\ Segment(pages, i).v => /\ Segment(pages, i).w
                                     /\ Segment(pages, i).pa = pages[i + 1]
                                     /\ Segment(pages, i).pa # NULL
<1> USE Zenon
<1> TAKE i \in 0 .. 1
<1>1. i < ImagePages <=> i \in 0 .. ImagePages - 1
  BY SMT
<1>2. CASE i < ImagePages
  <2>1. pages[i + 1] \in Page /\ Segment(pages, i) = Mapping(pages[i + 1], TRUE)
    BY <1>1, <1>2 DEF Segment
  <2>2. /\ Segment(pages, i) \in PTE /\ Segment(pages, i).v /\ Segment(pages, i).w
        /\ Segment(pages, i).pa = pages[i + 1] /\ Segment(pages, i).pa # NULL
    BY <2>1, Fresh
  <2> QED  BY <1>1, <1>2, <2>2
<1>3. CASE ~(i < ImagePages)
  <2>1. Segment(pages, i) = Unmapped
    BY <1>3 DEF Segment
  <2>2. Segment(pages, i) \in PTE /\ ~Segment(pages, i).v
    BY <2>1, Entries
  <2> QED  BY <1>1, <1>3, <2>2
<1> QED  BY <1>2, <1>3

(* The address space that alloc_process and elf_load make. *)
SpaceOf(t, stack, c, d) ==
  t = [va \in VA |->
         CASE va = Stack(0) -> Mapping(stack, TRUE)
           [] va[1] = "code" -> Segment(c.pages, va[2])
           [] va[1] = "data" -> Segment(d.pages, va[2])
           [] OTHER -> Unmapped]

(* The page table that alloc_process and elf_load build. *)
LEMMA SpaceIs ==
  ASSUME NEW t, NEW stack \in Page, NEW c, NEW d, SpaceOf(t, stack, c, d),
         \A i \in 0 .. ImagePages - 1 : c.pages[i + 1] \in Page /\ d.pages[i + 1] \in Page
  PROVE  /\ t \in [VA -> PTE]
         /\ Anchored(t)
         /\ \A i \in 0 .. MaxHeap - 1 : ~t[Heap(i)].v
         /\ \A va \in VA : t[va].v =>
              /\ t[va].w /\ t[va].pa # NULL
              /\ \/ va = Stack(0) /\ t[va].pa = stack
                 \/ /\ va[1] = "code" /\ va[2] \in 0 .. ImagePages - 1
                    /\ va = Code(va[2]) /\ t[va].pa = c.pages[va[2] + 1]
                 \/ /\ va[1] = "data" /\ va[2] \in 0 .. ImagePages - 1
                    /\ va = Data(va[2]) /\ t[va].pa = d.pages[va[2] + 1]
<1> USE Zenon
<1>1. t[Stack(0)] = Mapping(stack, TRUE)
  BY Addresses DEF SpaceOf
<1>2. \A va \in VA : va[1] = "code" => t[va] = Segment(c.pages, va[2])
  BY Addresses DEF SpaceOf
<1>3. \A va \in VA : va[1] = "data" => t[va] = Segment(d.pages, va[2])
  BY Addresses DEF SpaceOf
<1>4. \A va \in VA : va # Stack(0) /\ va[1] \in {"heap", "stack"} => t[va] = Unmapped
  BY Addresses DEF SpaceOf
<1>5. \A i \in 0 .. 1 : Segment(c.pages, i) \in PTE /\ Segment(d.pages, i) \in PTE
  BY Segments
<1>6. t \in [VA -> PTE]
  <2>1. t = [va \in VA |-> t[va]]
    BY SMT DEF SpaceOf
  <2>2. \A va \in VA : t[va] \in PTE
    <3> TAKE va \in VA
    <3>1. CASE va = Stack(0)
      BY ZenonT(40), <1>1, <3>1, Entries
    <3>2. CASE va # Stack(0) /\ va[1] \in {"heap", "stack"}
      BY <1>4, <3>2, Entries
    <3>3. CASE va[1] \in {"code", "data"}
      <4>1. va[2] \in 0 .. 1
        BY <3>3, Addresses
      <4> QED  BY <1>2, <1>3, <1>5, <3>3, <4>1
    <3>4. va[1] \in {"heap", "stack", "code", "data"}
      BY Addresses
    <3> QED  BY <3>1, <3>2, <3>3, <3>4
  <2> QED  BY <2>1, <2>2
<1>7. \A i \in 0 .. MaxHeap - 1 : ~t[Heap(i)].v
  <2> TAKE i \in 0 .. MaxHeap - 1
  <2>1. Heap(i) \in VA /\ Heap(i) # Stack(0) /\ Heap(i)[1] = "heap"
    BY Addresses
  <2>2. t[Heap(i)] = Unmapped
    BY <1>4, <2>1
  <2> QED  BY <2>2, Entries
<1>8. \A va \in VA : t[va].v =>
        /\ t[va].w /\ t[va].pa # NULL
        /\ \/ va = Stack(0) /\ t[va].pa = stack
           \/ /\ va[1] = "code" /\ va[2] \in 0 .. ImagePages - 1
              /\ va = Code(va[2]) /\ t[va].pa = c.pages[va[2] + 1]
           \/ /\ va[1] = "data" /\ va[2] \in 0 .. ImagePages - 1
              /\ va = Data(va[2]) /\ t[va].pa = d.pages[va[2] + 1]
  <2> SUFFICES ASSUME NEW va \in VA, t[va].v
               PROVE  /\ t[va].w /\ t[va].pa # NULL
                      /\ \/ va = Stack(0) /\ t[va].pa = stack
                         \/ /\ va[1] = "code" /\ va[2] \in 0 .. ImagePages - 1
                            /\ va = Code(va[2]) /\ t[va].pa = c.pages[va[2] + 1]
                         \/ /\ va[1] = "data" /\ va[2] \in 0 .. ImagePages - 1
                            /\ va = Data(va[2]) /\ t[va].pa = d.pages[va[2] + 1]
    OBVIOUS
  <2>1. CASE va = Stack(0)
    <3>1. t[va].w /\ t[va].pa = stack /\ t[va].pa # NULL
      BY <1>1, <2>1, Fresh
    <3> QED  BY <2>1, <3>1
  <2>2. CASE va[1] = "code"
    <3>1. va[2] \in 0 .. 1 /\ va = Code(va[2]) /\ t[va] = Segment(c.pages, va[2])
      BY <1>2, <2>2, Addresses
    <3> QED  BY SMT, <2>2, <3>1, Segments
  <2>3. CASE va[1] = "data"
    <3>1. va[2] \in 0 .. 1 /\ va = Data(va[2]) /\ t[va] = Segment(d.pages, va[2])
      BY <1>3, <2>3, Addresses
    <3> QED  BY SMT, <2>3, <3>1, Segments
  <2>4. CASE va # Stack(0) /\ va[1] \in {"heap", "stack"}
    <3>1. t[va] = Unmapped
      BY <1>4, <2>4
    <3>2. ~t[va].v
      BY <3>1, Entries
    <3> QED  BY <3>2
  <2>5. va[1] \in {"heap", "stack", "code", "data"}
    BY Addresses
  <2> QED  BY <2>1, <2>2, <2>3, <2>4, <2>5
<1>9. Anchored(t)
  <2>1. 0 \in 0 .. 1 /\ 0 \in 0 .. ImagePages - 1
    BY SMT
  <2>2. t[Code(0)] = Segment(c.pages, 0) /\ t[Data(0)] = Segment(d.pages, 0)
    BY SMT, <1>2, <1>3, Addresses
  <2>3. t[Code(0)].v /\ t[Data(0)].v
    BY <2>1, <2>2, Segments
  <2>4. t[Stack(0)].v
    BY <1>1, Entries
  <2>5. Stack(0) \in VA /\ Code(0) \in VA /\ Data(0) \in VA
    BY Addresses
  <2> QED  BY <1>8, <2>3, <2>4, <2>5 DEF Anchored
<1> QED  BY <1>6, <1>7, <1>8, <1>9

(* Where the pages of a new address space come from. *)
LEMMA NewSpacesFrom ==
  ASSUME NEW fr \in Seq(Page), NEW s \in NewSpaces(fr)
  PROVE  /\ KPages < Len(fr) /\ Len(fr) \in Nat
         /\ \E c \in TakeImage(SubSeq(fr, KPages + 2, Len(fr))) : \E d \in TakeImage(c.rest) :
              SpaceOf(s.pt, fr[KPages + 1], c, d) /\ s.rest = d.rest
<1> USE Zenon
<1> DEFINE T(c, d) == [va \in VA |->
                         CASE va = Stack(0) -> Mapping(fr[KPages + 1], TRUE)
                           [] va[1] = "code" -> Segment(c.pages, va[2])
                           [] va[1] = "data" -> Segment(d.pages, va[2])
                           [] OTHER -> Unmapped]
<1>1. ~(Len(fr) <= KPages)
  BY DEF NewSpaces
<1>2. NewSpaces(fr) =
        UNION {{[pt |-> T(c, d), rest |-> d.rest] : d \in TakeImage(c.rest)}
               : c \in TakeImage(SubSeq(fr, KPages + 2, Len(fr)))}
  BY <1>1 DEF NewSpaces
<1>3. \A c, d : SpaceOf(T(c, d), fr[KPages + 1], c, d)
  BY DEF SpaceOf
<1> HIDE DEF T
<1>4. PICK c \in TakeImage(SubSeq(fr, KPages + 2, Len(fr))) : \E d \in TakeImage(c.rest) :
        s = [pt |-> T(c, d), rest |-> d.rest]
  BY <1>2
<1>5. PICK d \in TakeImage(c.rest) : s = [pt |-> T(c, d), rest |-> d.rest]
  BY <1>4
<1>6. s.pt = T(c, d) /\ s.rest = d.rest
  BY <1>5
<1>7. SpaceOf(s.pt, fr[KPages + 1], c, d)
  BY <1>3, <1>6
<1>8. KPages < Len(fr) /\ Len(fr) \in Nat
  BY SMT, <1>1
<1> QED  BY <1>6, <1>7, <1>8

(* A new address space has its anchor pages and no heap. *)
LEMMA NewSpacesType ==
  ASSUME NEW fr \in Seq(Page), NEW s \in NewSpaces(fr)
  PROVE  /\ s.rest \in Seq(Page)
         /\ s.pt \in [VA -> PTE] /\ Anchored(s.pt)
         /\ \A i \in 0 .. MaxHeap - 1 : ~s.pt[Heap(i)].v
<1> USE Zenon
<1>1. KPages < Len(fr) /\ Len(fr) \in Nat
  BY NewSpacesFrom
<1>2. PICK c \in TakeImage(SubSeq(fr, KPages + 2, Len(fr))) : \E d \in TakeImage(c.rest) :
        SpaceOf(s.pt, fr[KPages + 1], c, d) /\ s.rest = d.rest
  BY NewSpacesFrom
<1>3. PICK d \in TakeImage(c.rest) : SpaceOf(s.pt, fr[KPages + 1], c, d) /\ s.rest = d.rest
  BY <1>2
<1>4. SubSeq(fr, KPages + 2, Len(fr)) \in Seq(Page)
  BY SMT, <1>1, Slice, KPages + 2 \in 1 .. Len(fr) + 1, Len(fr) \in (KPages + 2) - 1 .. Len(fr)
<1>5. c.rest \in Seq(Page) /\ \A i \in 0 .. ImagePages - 1 : c.pages[i + 1] \in Page
  BY <1>4, TakenType
<1>6. d.rest \in Seq(Page) /\ \A i \in 0 .. ImagePages - 1 : d.pages[i + 1] \in Page
  BY <1>5, TakenType
<1>7. fr[KPages + 1] \in Page
  BY SMT, <1>1, KPages + 1 \in 1 .. Len(fr)
<1> QED  BY <1>3, <1>5, <1>6, <1>7, SpaceIs

(* Its pages come out of the list, each for one address. *)
LEMMA NewSpacesApart ==
  ASSUME NEW fr \in Seq(Page), NEW s \in NewSpaces(fr), IsInjective(fr)
  PROVE  /\ s.rest \in Seq(Page) /\ IsInjective(s.rest) /\ Range(s.rest) \subseteq Range(fr)
         /\ \A va \in VA : s.pt[va].v => s.pt[va].pa \in Range(fr) \ Range(s.rest)
         /\ \A va, vb \in VA :
              s.pt[va].v /\ s.pt[vb].v /\ s.pt[va].pa = s.pt[vb].pa => va = vb
<1> USE Zenon
<1> DEFINE fr2 == SubSeq(fr, KPages + 2, Len(fr))
           stack == fr[KPages + 1]
           t == s.pt
<1>1. KPages < Len(fr) /\ Len(fr) \in Nat
  BY NewSpacesFrom
<1>2. PICK c \in TakeImage(fr2) : \E d \in TakeImage(c.rest) :
        SpaceOf(t, stack, c, d) /\ s.rest = d.rest
  BY NewSpacesFrom
<1>3. PICK d \in TakeImage(c.rest) : SpaceOf(t, stack, c, d) /\ s.rest = d.rest
  BY <1>2
<1>4. KPages + 2 \in 1 .. Len(fr) + 1 /\ Len(fr) \in (KPages + 2) - 1 .. Len(fr)
  BY SMT, <1>1
<1>5. fr2 \in Seq(Page)
  BY <1>4, Slice
<1>6. /\ IsInjective(fr2) /\ Range(fr2) = {fr[i] : i \in KPages + 2 .. Len(fr)}
      /\ \A i \in (1 .. Len(fr)) \ (KPages + 2 .. Len(fr)) : fr[i] \notin Range(fr2)
  BY <1>4, SliceQueue
<1>7. Range(fr2) \subseteq Range(fr) /\ stack \in Range(fr) \ Range(fr2) /\ stack \in Page
  <2>1. DOMAIN fr = 1 .. Len(fr) /\ KPages + 2 .. Len(fr) \subseteq 1 .. Len(fr)
    BY SMT, <1>1
  <2>2. KPages + 1 \in (1 .. Len(fr)) \ (KPages + 2 .. Len(fr))
    BY SMT, <1>1
  <2>3. Range(fr2) \subseteq Range(fr)
    BY <1>6, <2>1 DEF Range
  <2> QED  BY SMT, <1>6, <2>1, <2>2, <2>3 DEF Range
<1> HIDE DEF fr2, stack, t
<1>8. /\ c.rest \in Seq(Page) /\ IsInjective(c.rest)
      /\ \A i \in 0 .. ImagePages - 1 : c.pages[i + 1] \in Range(fr2) \ Range(c.rest)
      /\ \A i, j \in 0 .. ImagePages - 1 : c.pages[i + 1] = c.pages[j + 1] => i = j
      /\ Range(c.rest) \subseteq Range(fr2)
      /\ Range(fr2) \subseteq Page
  BY <1>5, <1>6, Taken
<1>9. /\ d.rest \in Seq(Page) /\ IsInjective(d.rest)
      /\ \A i \in 0 .. ImagePages - 1 : d.pages[i + 1] \in Range(c.rest) \ Range(d.rest)
      /\ \A i, j \in 0 .. ImagePages - 1 : d.pages[i + 1] = d.pages[j + 1] => i = j
      /\ Range(d.rest) \subseteq Range(c.rest)
      /\ Range(c.rest) \subseteq Page
  BY <1>8, Taken
<1>10. \A va \in VA : t[va].v =>
         \/ va = Stack(0) /\ t[va].pa = stack
         \/ /\ va[1] = "code" /\ va[2] \in 0 .. ImagePages - 1
            /\ va = Code(va[2]) /\ t[va].pa = c.pages[va[2] + 1]
         \/ /\ va[1] = "data" /\ va[2] \in 0 .. ImagePages - 1
            /\ va = Data(va[2]) /\ t[va].pa = d.pages[va[2] + 1]
  <2>1. \A i \in 0 .. ImagePages - 1 : c.pages[i + 1] \in Page /\ d.pages[i + 1] \in Page
    BY <1>8, <1>9
  <2>2. SpaceOf(t, stack, c, d)
    BY <1>3
  <2> QED  BY SMT, <1>7, <2>1, <2>2, SpaceIs
<1>11. ASSUME NEW va \in VA, t[va].v
       PROVE  t[va].pa \in Range(fr) \ Range(d.rest)
  <2>1. CASE t[va].pa = stack
    BY <1>7, <1>8, <1>9, <2>1
  <2>2. CASE va[2] \in 0 .. ImagePages - 1 /\ t[va].pa = c.pages[va[2] + 1]
    BY <1>7, <1>8, <1>9, <2>2
  <2>3. CASE va[2] \in 0 .. ImagePages - 1 /\ t[va].pa = d.pages[va[2] + 1]
    BY <1>7, <1>8, <1>9, <2>3
  <2> QED  BY <1>10, <1>11, <2>1, <2>2, <2>3
<1>12. ASSUME NEW va \in VA, NEW vb \in VA, t[va].v, t[vb].v, t[va].pa = t[vb].pa
       PROVE  va = vb
  <2> DEFINE isStack(x) == x = Stack(0) /\ t[x].pa = stack
             isCode(x) == /\ x[1] = "code" /\ x[2] \in 0 .. ImagePages - 1
                          /\ x = Code(x[2]) /\ t[x].pa = c.pages[x[2] + 1]
             isData(x) == /\ x[1] = "data" /\ x[2] \in 0 .. ImagePages - 1
                          /\ x = Data(x[2]) /\ t[x].pa = d.pages[x[2] + 1]
  <2>1. (isStack(va) \/ isCode(va) \/ isData(va)) /\ (isStack(vb) \/ isCode(vb) \/ isData(vb))
    BY <1>10, <1>12
  <2>2. \A x \in VA : /\ isStack(x) => t[x].pa \notin Range(fr2)
                      /\ isCode(x) => t[x].pa \in Range(fr2) \ Range(c.rest)
                      /\ isData(x) => t[x].pa \in Range(c.rest)
    BY <1>7, <1>8, <1>9
  <2>3. isCode(va) /\ isCode(vb) => va = vb
    BY <1>8, <1>12
  <2>4. isData(va) /\ isData(vb) => va = vb
    BY <1>9, <1>12
  <2>5. isStack(va) /\ isStack(vb) => va = vb
    OBVIOUS
  <2> HIDE DEF isStack, isCode, isData
  <2> QED  BY <1>8, <1>12, <2>1, <2>2, <2>3, <2>4, <2>5
<1> QED  BY <1>3, <1>7, <1>8, <1>9, <1>11, <1>12 DEF t

-----------------------------------------------------------------------------
(* Inv is inductive. *)

(* What elf_load leaves in a page is a value of a page. *)
LEMMA ImageVal == Image \in Val
BY Zenon, ValAssumption DEF Image

(* lookup_pa answers from the page table entry. *)
LEMMA LookupType ==
  ASSUME TypeOK, NEW p \in Proc, NEW va \in VA
  PROVE  /\ pt[p][va] \in PTE
         /\ lookup_pa(p, va) \in Page \union {NULL}
         /\ lookup_pa(p, va) # NULL => pt[p][va].v /\ lookup_pa(p, va) = pt[p][va].pa
         /\ pt[p][va].v => lookup_pa(p, va) = pt[p][va].pa
<1> USE Zenon
<1>1. pt[p][va] \in PTE
  BY DEF TypeOK
<1> QED  BY <1>1, Entries DEF lookup_pa, NULL

(* alloc_page gives a page of the list or NULL. *)
LEMMA AllocType ==
  ASSUME free \in Seq(Page)
  PROVE  alloc_page \in Page \union {NULL} /\ Rest \in Seq(Page)
BY DEF alloc_page, Rest

(* A step that stops the machine changes nothing else. *)
LEMMA StopInv ==
  ASSUME Inv, NEW how \in {"nomem", "remap", "fault", "overflow", "corrupt"}, Stop(how)
  PROVE  Inv'
<1> USE Zenon
<1>1. TypeOK'
  BY DEF Inv, Stop, TypeOK
<1>2. \A p \in alive' : Anchored(pt'[p]) /\ HeapOK(pt'[p], top'[p], freed'[p])
  BY DEF Inv, Stop
<1> QED  BY <1>1, <1>2 DEF Inv

(* A step that changes the space of one process. *)
LEMMA OneSpace ==
  ASSUME Inv, TypeOK', NEW p \in Proc, alive' \subseteq alive \union {p},
         \A q \in alive \ {p} : pt'[q] = pt[q] /\ top'[q] = top[q] /\ freed'[q] = freed[q],
         Anchored(pt'[p]), HeapOK(pt'[p], top'[p], freed'[p])
  PROVE  Inv'
<1> USE Zenon
<1>1. \A q \in alive' : Anchored(pt'[q]) /\ HeapOK(pt'[q], top'[q], freed'[q])
  <2> TAKE q \in alive'
  <2>1. CASE q = p
    BY <2>1
  <2>2. CASE q # p
    <3>1. q \in alive \ {p}
      BY <2>2
    <3> QED  BY <3>1 DEF Inv
  <2> QED  BY <2>1, <2>2
<1> QED  BY <1>1 DEF Inv

(* The page table and the heap manager of a live process. *)
LEMMA LiveType ==
  ASSUME TypeOK, NEW p \in alive
  PROVE  /\ p \in Proc /\ pt[p] \in [VA -> PTE] /\ top[p] \in 0 .. MaxHeap
         /\ freed[p] \in Seq(0 .. MaxHeap - 1)
<1>1. p \in Proc
  BY DEF TypeOK, Proc
<1> QED  BY Zenon, <1>1 DEF TypeOK

(* Two entries of a page table are updated separately. *)
LEMMA EntrySet ==
  ASSUME TypeOK, NEW p \in Proc, NEW va \in VA, NEW e \in PTE,
         pt' = [pt EXCEPT ![p][va] = e]
  PROVE  /\ pt' \in [Proc -> [VA -> PTE]]
         /\ pt'[p][va] = e
         /\ \A vb \in VA \ {va} : pt'[p][vb] = pt[p][vb]
         /\ \A q \in Proc \ {p} : pt'[q] = pt[q]
BY Zenon DEF TypeOK

(* Anchored depends on three entries. *)
LEMMA AnchoredKept ==
  ASSUME NEW t, NEW u, Anchored(t),
         \A va \in {Code(0), Stack(0), Data(0)} :
           u[va] = t[va] \/ (u[va].v /\ u[va].w /\ u[va].pa # NULL)
  PROVE  Anchored(u)
<1> USE Zenon
<1>1. u[Code(0)].v /\ u[Code(0)].pa # NULL
  BY DEF Anchored
<1>2. ASSUME NEW va \in {Stack(0), Data(0)}
      PROVE  u[va].v /\ u[va].w /\ u[va].pa # NULL
  BY DEF Anchored
<1> QED  BY <1>1, <1>2 DEF Anchored

(* The address reclaimed last is taken off the list. *)
LEMMA LastOut ==
  ASSUME NEW S, NEW s \in Seq(S), IsInjective(s), s # <<>>
  PROVE  /\ Last(s) \in Range(s) /\ Last(s) \in S
         /\ Front(s) \in Seq(S) /\ IsInjective(Front(s))
         /\ Range(Front(s)) = Range(s) \ {Last(s)}
<1>1. Len(s) \in Nat /\ Len(s) >= 1 /\ DOMAIN s = 1 .. Len(s)
  OBVIOUS
<1>2. 1 \in 1 .. Len(s) + 1 /\ Len(s) - 1 \in 1 - 1 .. Len(s)
  BY <1>1
<1>3. Front(s) \in Seq(S)
  BY Zenon, <1>2, Slice DEF Front
<1>4. /\ IsInjective(Front(s)) /\ Range(Front(s)) = {s[i] : i \in 1 .. Len(s) - 1}
      /\ \A i \in (1 .. Len(s)) \ (1 .. Len(s) - 1) : s[i] \notin Range(Front(s))
  BY Zenon, <1>2, SliceQueue DEF Front
<1>5. Last(s) \in Range(s) /\ Last(s) \in S
  BY <1>1 DEF Last, Range
<1>6. Last(s) \notin Range(Front(s))
  <2>1. Len(s) \in (1 .. Len(s)) \ (1 .. Len(s) - 1)
    BY <1>1
  <2> QED  BY Zenon, <1>4, <2>1 DEF Last
<1>7. Range(s) = {s[i] : i \in 1 .. Len(s)}
  BY Zenon, <1>1 DEF Range
<1>8. 1 .. Len(s) = (1 .. Len(s) - 1) \union {Len(s)}
  BY <1>1
<1>9. Range(s) = Range(Front(s)) \union {Last(s)}
  BY Zenon, <1>4, <1>7, <1>8 DEF Last
<1> QED  BY <1>3, <1>4, <1>5, <1>6, <1>9

(* The heap grows by a page. *)
LEMMA HeapGrows ==
  ASSUME NEW t, NEW u, NEW tp \in 0 .. MaxHeap - 1, HeapOK(t, tp, <<>>),
         u[Heap(tp)].v, \A j \in 0 .. MaxHeap - 1 : j # tp => u[Heap(j)] = t[Heap(j)]
  PROVE  HeapOK(u, tp + 1, <<>>)
<1>1. Range(<<>>) = {}
  BY DEF Range
<1>2. ASSUME NEW j \in 0 .. MaxHeap - 1
      PROVE  /\ u[Heap(j)].v => j < tp + 1 /\ j \notin Range(<<>>)
             /\ j < tp + 1 /\ j \notin Range(<<>>) /\ j < Cleared => u[Heap(j)].v
  <2>1. CASE j = tp
    BY <1>1, <2>1
  <2>2. CASE j # tp
    <3>1. u[Heap(j)].v = t[Heap(j)].v
      BY Zenon, <2>2
    <3>2. j < tp + 1 <=> j < tp
      BY <2>2
    <3> QED  BY Zenon, <1>1, <3>1, <3>2 DEF HeapOK
  <2> QED  BY Zenon, <2>1, <2>2
<1>3. IsInjective(<<>>) /\ Range(<<>>) \subseteq 0 .. (tp + 1) - 1
  BY <1>1 DEF IsInjective
<1> QED  BY Zenon, <1>2, <1>3 DEF HeapOK

(* The address reclaimed last is used again. *)
LEMMA HeapReuses ==
  ASSUME NEW t, NEW u, NEW tp \in 0 .. MaxHeap, NEW fr \in Seq(0 .. MaxHeap - 1), fr # <<>>,
         HeapOK(t, tp, fr), u[Heap(Last(fr))].v,
         \A j \in 0 .. MaxHeap - 1 : j # Last(fr) => u[Heap(j)] = t[Heap(j)]
  PROVE  HeapOK(u, tp, Front(fr)) /\ Last(fr) < tp
<1> USE Zenon
<1>1. IsInjective(fr) /\ Range(fr) \subseteq 0 .. tp - 1
  BY DEF HeapOK
<1>2. /\ Last(fr) \in Range(fr) /\ Last(fr) \in 0 .. MaxHeap - 1
      /\ IsInjective(Front(fr)) /\ Range(Front(fr)) = Range(fr) \ {Last(fr)}
  BY <1>1, LastOut
<1>3. Last(fr) < tp
  BY SMT, <1>1, <1>2
<1>4. ASSUME NEW j \in 0 .. MaxHeap - 1
      PROVE  /\ u[Heap(j)].v => j < tp /\ j \notin Range(Front(fr))
             /\ j < tp /\ j \notin Range(Front(fr)) /\ j < Cleared => u[Heap(j)].v
  <2>1. CASE j = Last(fr)
    BY <1>2, <1>3, <2>1
  <2>2. CASE j # Last(fr)
    <3>1. u[Heap(j)].v = t[Heap(j)].v
      BY <2>2
    <3>2. j \in Range(Front(fr)) <=> j \in Range(fr)
      BY <1>2, <2>2
    <3> QED  BY <3>1, <3>2 DEF HeapOK
  <2> QED  BY <2>1, <2>2
<1> QED  BY <1>1, <1>2, <1>3, <1>4 DEF HeapOK

(* A mapped page is reclaimed. *)
LEMMA HeapReclaims ==
  ASSUME NEW t, NEW u, NEW tp \in 0 .. MaxHeap, NEW fr \in Seq(0 .. MaxHeap - 1),
         NEW i \in 0 .. MaxHeap - 1, HeapOK(t, tp, fr), t[Heap(i)].v, ~u[Heap(i)].v,
         \A j \in 0 .. MaxHeap - 1 : j # i => u[Heap(j)] = t[Heap(j)]
  PROVE  HeapOK(u, tp, Append(fr, i)) /\ Append(fr, i) \in Seq(0 .. MaxHeap - 1)
<1> USE Zenon
<1>1. IsInjective(fr) /\ Range(fr) \subseteq 0 .. tp - 1 /\ i < tp /\ i \notin Range(fr)
  BY DEF HeapOK
<1>2. /\ Append(fr, i) \in Seq(0 .. MaxHeap - 1) /\ IsInjective(Append(fr, i))
      /\ Range(Append(fr, i)) = Range(fr) \union {i}
  BY SMT, <1>1, AppendQueue
<1>3. ASSUME NEW j \in 0 .. MaxHeap - 1
      PROVE  /\ u[Heap(j)].v => j < tp /\ j \notin Range(Append(fr, i))
             /\ j < tp /\ j \notin Range(Append(fr, i)) /\ j < Cleared => u[Heap(j)].v
  <2>1. CASE j = i
    BY <1>2, <2>1
  <2>2. CASE j # i
    <3>1. u[Heap(j)].v = t[Heap(j)].v
      BY <2>2
    <3>2. j \in Range(Append(fr, i)) <=> j \in Range(fr)
      BY <1>2, <2>2
    <3> QED  BY <3>1, <3>2 DEF HeapOK
  <2> QED  BY <2>1, <2>2
<1>4. Range(Append(fr, i)) \subseteq 0 .. tp - 1
  BY SMT, <1>1, <1>2
<1> QED  BY <1>2, <1>3, <1>4 DEF HeapOK

(* HeapOK depends on which heap pages are mapped. *)
LEMMA HeapKept ==
  ASSUME NEW t, NEW u, NEW tp, NEW fr, HeapOK(t, tp, fr),
         \A j \in 0 .. MaxHeap - 1 : u[Heap(j)].v = t[Heap(j)].v
  PROVE  HeapOK(u, tp, fr)
BY Zenon DEF HeapOK

(***************************************************************************)
(* sys_user_allocate_page.  HeapOK is why it never panics.                 *)
(***************************************************************************)
LEMMA MallocStep ==
  ASSUME Inv, NEW p \in Proc, Malloc(p)
  PROVE  \E i \in 0 .. MaxHeap - 1 :
           /\ p \in alive /\ machine = "run" /\ ~pt[p][Heap(i)].v
           /\ pt' = [pt EXCEPT ![p][Heap(i)] = Mapping(alloc_page, TRUE)]
           /\ free' = Rest
           /\ \/ /\ freed[p] = <<>> /\ i = top[p]
                 /\ freed' = freed /\ top' = [top EXCEPT ![p] = @ + 1]
              \/ /\ freed[p] # <<>> /\ i = Last(freed[p])
                 /\ freed' = [freed EXCEPT ![p] = Front(@)] /\ top' = top
           /\ UNCHANGED <<machine, mem, depth, reloaded, born, alive>>
<1> USE Zenon
<1> DEFINE reuse == freed[p] # <<>>
           i == IF reuse THEN Last(freed[p]) ELSE top[p]
           bad == (reuse /\ i >= top[p]) \/ pt[p][Heap(i)].v
<1>1. p \in alive /\ machine = "run" /\ i < MaxHeap
  BY DEF Malloc, Running
<1>2. /\ top[p] \in 0 .. MaxHeap /\ freed[p] \in Seq(0 .. MaxHeap - 1)
      /\ HeapOK(pt[p], top[p], freed[p])
  BY <1>1, LiveType DEF Inv
<1>3. i \in 0 .. MaxHeap - 1 /\ (reuse => i \in Range(freed[p]))
  <2>1. reuse => Last(freed[p]) \in 0 .. MaxHeap - 1 /\ Last(freed[p]) \in Range(freed[p])
    BY <1>2, LastOut DEF HeapOK
  <2> QED  BY SMT, <1>1, <1>2, <2>1
<1>4. ~bad
  <2>1. reuse => i < top[p]
    BY SMT, <1>2, <1>3 DEF HeapOK
  <2>2. ~pt[p][Heap(i)].v
    <3>1. pt[p][Heap(i)].v => i < top[p] /\ i \notin Range(freed[p])
      BY <1>2, <1>3 DEF HeapOK
    <3>2. ~reuse => ~(i < top[p])
      BY SMT, <1>2
    <3> QED  BY <1>3, <3>1, <3>2
  <2> QED  BY SMT, <1>2, <1>3, <2>1, <2>2
<1>5. /\ pt' = [pt EXCEPT ![p][Heap(i)] = Mapping(alloc_page, TRUE)]
      /\ free' = Rest
      /\ freed' = IF reuse THEN [freed EXCEPT ![p] = Front(@)] ELSE freed
      /\ top' = IF reuse THEN top ELSE [top EXCEPT ![p] = @ + 1]
      /\ UNCHANGED <<machine, mem, depth, reloaded, born, alive>>
  BY <1>4 DEF Malloc
<1>6. ~pt[p][Heap(i)].v
  BY <1>4
<1>7. \/ /\ freed[p] = <<>> /\ i = top[p]
         /\ freed' = freed /\ top' = [top EXCEPT ![p] = @ + 1]
      \/ /\ freed[p] # <<>> /\ i = Last(freed[p])
         /\ freed' = [freed EXCEPT ![p] = Front(@)] /\ top' = top
  BY <1>5
<1> HIDE DEF i, bad
<1> QED  BY <1>1, <1>3, <1>5, <1>6, <1>7

(* sys_user_allocate_page preserves the invariant. *)
LEMMA MallocInv ==
  ASSUME Inv, NEW p \in Proc, Malloc(p)
  PROVE  Inv'
<1> USE Zenon
<1>1. PICK i \in 0 .. MaxHeap - 1 :
           /\ p \in alive /\ machine = "run" /\ ~pt[p][Heap(i)].v
           /\ pt' = [pt EXCEPT ![p][Heap(i)] = Mapping(alloc_page, TRUE)]
           /\ free' = Rest
           /\ \/ /\ freed[p] = <<>> /\ i = top[p]
                 /\ freed' = freed /\ top' = [top EXCEPT ![p] = @ + 1]
              \/ /\ freed[p] # <<>> /\ i = Last(freed[p])
                 /\ freed' = [freed EXCEPT ![p] = Front(@)] /\ top' = top
           /\ UNCHANGED <<machine, mem, depth, reloaded, born, alive>>
  BY MallocStep
<1>2. /\ TypeOK /\ pt[p] \in [VA -> PTE] /\ top[p] \in 0 .. MaxHeap
      /\ freed[p] \in Seq(0 .. MaxHeap - 1)
      /\ Anchored(pt[p]) /\ HeapOK(pt[p], top[p], freed[p])
  BY <1>1, LiveType DEF Inv
<1>3. /\ alloc_page \in Page \union {NULL} /\ Rest \in Seq(Page)
      /\ Mapping(alloc_page, TRUE) \in PTE /\ Mapping(alloc_page, TRUE).v
  BY <1>2, AllocType, Entries DEF TypeOK
<1>4. /\ pt' \in [Proc -> [VA -> PTE]]
      /\ pt'[p][Heap(i)] = Mapping(alloc_page, TRUE)
      /\ \A vb \in VA \ {Heap(i)} : pt'[p][vb] = pt[p][vb]
      /\ \A q \in Proc \ {p} : pt'[q] = pt[q]
  BY <1>1, <1>2, <1>3, Addresses, EntrySet
<1>5. pt'[p][Heap(i)].v
  BY <1>3, <1>4
<1>6. \A j \in 0 .. MaxHeap - 1 : j # i => pt'[p][Heap(j)] = pt[p][Heap(j)]
  <2>1. \A j \in 0 .. MaxHeap - 1 : j # i => Heap(j) \in VA \ {Heap(i)}
    BY SMT, Addresses
  <2> QED  BY <1>4, <2>1
<1>7. /\ top' \in [Proc -> 0 .. MaxHeap] /\ freed' \in [Proc -> Seq(0 .. MaxHeap - 1)]
      /\ HeapOK(pt'[p], top'[p], freed'[p])
      /\ \A q \in Proc \ {p} : top'[q] = top[q] /\ freed'[q] = freed[q]
  <2>1. CASE /\ freed[p] = <<>> /\ i = top[p]
             /\ freed' = freed /\ top' = [top EXCEPT ![p] = @ + 1]
    <3>1. /\ top' \in [Proc -> 0 .. MaxHeap] /\ top'[p] = top[p] + 1
          /\ freed' \in [Proc -> Seq(0 .. MaxHeap - 1)] /\ freed'[p] = <<>>
          /\ \A q \in Proc \ {p} : top'[q] = top[q] /\ freed'[q] = freed[q]
      BY SMT, <1>2, <2>1 DEF TypeOK
    <3>2. HeapOK(pt'[p], i + 1, <<>>)
      BY ZenonT(40), <1>2, <1>5, <1>6, <2>1, HeapGrows
    <3> QED  BY <2>1, <3>1, <3>2
  <2>2. CASE /\ freed[p] # <<>> /\ i = Last(freed[p])
             /\ freed' = [freed EXCEPT ![p] = Front(@)] /\ top' = top
    <3>1. HeapOK(pt'[p], top[p], Front(freed[p]))
      BY <1>2, <1>5, <1>6, <2>2, HeapReuses
    <3>2. Front(freed[p]) \in Seq(0 .. MaxHeap - 1)
      BY <1>2, <2>2, LastOut DEF HeapOK
    <3>3. /\ top' \in [Proc -> 0 .. MaxHeap]
          /\ freed' \in [Proc -> Seq(0 .. MaxHeap - 1)] /\ freed'[p] = Front(freed[p])
          /\ \A q \in Proc \ {p} : top'[q] = top[q] /\ freed'[q] = freed[q]
      BY <1>2, <2>2, <3>2 DEF TypeOK
    <3> QED  BY <2>2, <3>1, <3>3
  <2> QED  BY <1>1, <2>1, <2>2
<1>8. Anchored(pt'[p])
  <2>1. \A va \in {Code(0), Stack(0), Data(0)} : va \in VA \ {Heap(i)}
    BY SMT, Addresses
  <2> QED  BY SMT, <1>2, <1>4, <2>1, AnchoredKept
<1>9. TypeOK'
  BY <1>1, <1>2, <1>3, <1>4, <1>7 DEF TypeOK
<1>10. alive' = alive /\ \A q \in alive \ {p} : q \in Proc \ {p}
  BY <1>1, <1>2, LiveType
<1> QED  BY <1>4, <1>7, <1>8, <1>9, <1>10, OneSpace

(* Free has two outcomes. *)
LEMMA FreeStep ==
  ASSUME Inv, NEW p \in Proc, NEW i \in 0 .. MaxHeap - 1, Free(p, i)
  PROVE  /\ p \in alive /\ machine = "run"
         /\ \/ \E how \in {"fault", "corrupt", "overflow"} :
                 Stop(how) /\ (how = "corrupt" => lookup_pa(p, Heap(i)) \in Range(free))
            \/ /\ lookup_pa(p, Heap(i)) \in Page \ Range(free)
               /\ pt[p][Heap(i)].v /\ lookup_pa(p, Heap(i)) = pt[p][Heap(i)].pa
               /\ free' = <<lookup_pa(p, Heap(i))>> \o free
               /\ pt' = [pt EXCEPT ![p][Heap(i)] = [pt[p][Heap(i)] EXCEPT !.v = FALSE]]
               /\ freed' = [freed EXCEPT ![p] = Append(@, i)]
               /\ UNCHANGED <<machine, mem, top, depth, reloaded, born, alive>>
<1> USE Zenon
<1> DEFINE pa == lookup_pa(p, Heap(i))
<1>1. p \in alive /\ machine = "run"
  BY DEF Free, Running
<1>2. \/ Stop("fault")
      \/ pa \in Range(free) /\ Stop("corrupt")
      \/ Stop("overflow")
      \/ /\ pa # NULL /\ pa \notin Range(free)
         /\ free' = <<pa>> \o free
         /\ pt' = [pt EXCEPT ![p][Heap(i)].v = FALSE]
         /\ freed' = [freed EXCEPT ![p] = Append(@, i)]
         /\ UNCHANGED <<machine, mem, top, depth, reloaded, born, alive>>
  BY DEF Free
<1>3. /\ pa \in Page \union {NULL}
      /\ pa # NULL => pt[p][Heap(i)].v /\ pa = pt[p][Heap(i)].pa
  BY SMT, Addresses, LookupType DEF Inv
<1>4. [pt EXCEPT ![p][Heap(i)].v = FALSE]
        = [pt EXCEPT ![p][Heap(i)] = [pt[p][Heap(i)] EXCEPT !.v = FALSE]]
  BY Addresses DEF Inv, TypeOK
<1> HIDE DEF pa
<1>5. CASE /\ pa # NULL /\ pa \notin Range(free)
           /\ free' = <<pa>> \o free
           /\ pt' = [pt EXCEPT ![p][Heap(i)].v = FALSE]
           /\ freed' = [freed EXCEPT ![p] = Append(@, i)]
           /\ UNCHANGED <<machine, mem, top, depth, reloaded, born, alive>>
  BY <1>1, <1>3, <1>4, <1>5 DEF pa
<1>6. CASE Stop("fault") \/ (pa \in Range(free) /\ Stop("corrupt")) \/ Stop("overflow")
  BY <1>1, <1>6 DEF pa
<1> QED  BY <1>2, <1>5, <1>6

(* sys_user_free_page preserves it. *)
LEMMA FreeInv ==
  ASSUME Inv, NEW p \in Proc, NEW i \in 0 .. MaxHeap - 1, Free(p, i)
  PROVE  Inv'
<1> USE Zenon
<1> DEFINE pa == lookup_pa(p, Heap(i))
           e == [pt[p][Heap(i)] EXCEPT !.v = FALSE]
<1>1. CASE \E how \in {"fault", "corrupt", "overflow"} : Stop(how)
  BY <1>1, StopInv
<1>2. CASE /\ pa \in Page /\ pt[p][Heap(i)].v
           /\ free' = <<pa>> \o free
           /\ pt' = [pt EXCEPT ![p][Heap(i)] = e]
           /\ freed' = [freed EXCEPT ![p] = Append(@, i)]
           /\ UNCHANGED <<machine, mem, top, depth, reloaded, born, alive>>
  <2>1. p \in alive
    BY FreeStep
  <2>2. /\ TypeOK /\ pt[p] \in [VA -> PTE] /\ top[p] \in 0 .. MaxHeap
        /\ freed[p] \in Seq(0 .. MaxHeap - 1)
        /\ Anchored(pt[p]) /\ HeapOK(pt[p], top[p], freed[p])
    BY <2>1, LiveType DEF Inv
  <2>3. e \in PTE /\ ~e.v
    <3>1. pt[p][Heap(i)] \in PTE
      BY SMT, <2>2, Addresses
    <3> QED  BY <3>1 DEF PTE
  <2>4. /\ pt' \in [Proc -> [VA -> PTE]]
        /\ pt'[p][Heap(i)] = e
        /\ \A vb \in VA \ {Heap(i)} : pt'[p][vb] = pt[p][vb]
        /\ \A q \in Proc \ {p} : pt'[q] = pt[q]
    <3> HIDE DEF e
    <3> QED  BY <1>2, <2>2, <2>3, Addresses, EntrySet
  <2>5. ~pt'[p][Heap(i)].v
    BY <2>3, <2>4
  <2>6. \A j \in 0 .. MaxHeap - 1 : j # i => pt'[p][Heap(j)] = pt[p][Heap(j)]
    <3>1. \A j \in 0 .. MaxHeap - 1 : j # i => Heap(j) \in VA \ {Heap(i)}
      BY SMT, Addresses
    <3> QED  BY <2>4, <3>1
  <2>7. HeapOK(pt'[p], top[p], Append(freed[p], i)) /\ Append(freed[p], i) \in Seq(0 .. MaxHeap - 1)
    BY <1>2, <2>2, <2>5, <2>6, HeapReclaims
  <2>8. /\ freed' \in [Proc -> Seq(0 .. MaxHeap - 1)] /\ freed'[p] = Append(freed[p], i)
        /\ \A q \in Proc \ {p} : freed'[q] = freed[q]
    BY <1>2, <2>2, <2>7 DEF TypeOK
  <2>9. Anchored(pt'[p])
    <3>1. \A va \in {Code(0), Stack(0), Data(0)} : va \in VA \ {Heap(i)}
      BY SMT, Addresses
    <3> QED  BY SMT, <2>2, <2>4, <3>1, AnchoredKept
  <2>10. TypeOK'
    <3>1. <<pa>> \o free \in Seq(Page)
      BY SMT, <1>2, <2>2 DEF TypeOK
    <3> QED  BY <1>2, <2>2, <2>4, <2>8, <3>1 DEF TypeOK
  <2>11. alive' = alive /\ top' = top /\ \A q \in alive \ {p} : q \in Proc \ {p}
    BY <1>2, <2>2, LiveType
  <2> QED  BY ZenonT(40), <2>4, <2>7, <2>8, <2>9, <2>10, <2>11, OneSpace
<1> HIDE DEF pa, e
<1> QED  BY <1>1, <1>2, FreeStep DEF pa, e

(***************************************************************************)
(* The child's space: its stack page and data page are new, its code page  *)
(* and heap pages are its parent's, read only, at the same addresses.      *)
(***************************************************************************)
ChildOf(t, p, stackPa, dataPa) ==
  \A va \in VA : t[va].v =>
    \/ va = Stack(0) /\ t[va].pa = stackPa
    \/ va = Data(0) /\ t[va].pa = dataPa
    \/ va[1] \in {"heap", "code"} /\ ~t[va].w /\ t[va].pa = lookup_pa(p, va)

(* The page table do_fork builds for the child. *)
LEMMA ChildIs ==
  ASSUME TypeOK, NEW p \in alive, Anchored(pt[p]), HeapOK(pt[p], top[p], freed[p]),
         NEW dirty \in SUBSET Uncleared(p), NEW stackPa \in Page, NEW dataPa \in Page,
         NEW t, t = ChildPT(p, Range(freed[p]) \union dirty, stackPa, dataPa)
  PROVE  /\ t \in [VA -> PTE] /\ Anchored(t) /\ HeapOK(t, top[p], freed[p])
         /\ ChildOf(t, p, stackPa, dataPa)
<1> USE Zenon
<1> DEFINE skip == Range(freed[p]) \union dirty
           inUse(i) == i < top[p] /\ i \notin skip
<1>0. p \in Proc /\ top[p] \in 0 .. MaxHeap
  BY LiveType
<1>1. \A va \in VA : lookup_pa(p, va) \in Page \union {NULL}
  BY <1>0, LookupType
<1>2. t[Stack(0)] = Mapping(stackPa, TRUE)
  BY Addresses DEF ChildPT
<1>3. t[Data(0)] = Mapping(dataPa, TRUE)
  BY ZenonT(40), Addresses DEF ChildPT
<1>4. t[Code(0)] = Mapping(lookup_pa(p, Code(0)), FALSE)
  BY ZenonT(40), Addresses DEF ChildPT
<1>5. \A i \in 0 .. MaxHeap - 1 :
        t[Heap(i)] = IF inUse(i) THEN Mapping(lookup_pa(p, Heap(i)), FALSE) ELSE Unmapped
  <2> SUFFICES ASSUME NEW i \in 0 .. MaxHeap - 1
               PROVE  t[Heap(i)] = IF inUse(i) THEN Mapping(lookup_pa(p, Heap(i)), FALSE)
                                                ELSE Unmapped
    OBVIOUS
  <2>1. /\ Heap(i) \in VA /\ Heap(i)[1] = "heap" /\ Heap(i)[2] = i
        /\ Heap(i) # Stack(0) /\ Heap(i) # Code(0) /\ Heap(i) # Data(0)
    BY Addresses
  <2>2. CASE inUse(i)
    BY <2>1, <2>2 DEF ChildPT
  <2>3. CASE ~inUse(i)
    BY <2>1, <2>3 DEF ChildPT
  <2> QED  BY <2>2, <2>3
<1>6. \A va \in VA : va[1] # "heap" /\ va \notin {Stack(0), Data(0), Code(0)} => t[va] = Unmapped
  BY Addresses DEF ChildPT
<1>7. t = [va \in VA |-> t[va]]
  BY SMT DEF ChildPT
<1> HIDE DEF inUse
<1>8. ASSUME NEW va \in VA
      PROVE  /\ t[va] \in PTE
             /\ t[va].v =>
                  \/ va = Stack(0) /\ t[va].pa = stackPa
                  \/ va = Data(0) /\ t[va].pa = dataPa
                  \/ va[1] \in {"heap", "code"} /\ ~t[va].w /\ t[va].pa = lookup_pa(p, va)
  <2>1. CASE va = Stack(0)
    <3>1. t[va] \in PTE /\ t[va].pa = stackPa
      BY <1>2, <2>1, Fresh
    <3> QED  BY <2>1, <3>1
  <2>2. CASE va = Data(0)
    <3>1. t[va] \in PTE /\ t[va].pa = dataPa
      BY <1>3, <2>2, Fresh
    <3> QED  BY <2>2, <3>1
  <2>3. CASE t[va] = Mapping(lookup_pa(p, va), FALSE) /\ va[1] \in {"heap", "code"}
    <3>1. t[va] \in PTE /\ ~t[va].w /\ t[va].pa = lookup_pa(p, va)
      BY <1>1, <2>3, Borrowed
    <3> QED  BY <2>3, <3>1
  <2>4. CASE t[va] = Unmapped
    <3>1. t[va] \in PTE /\ ~t[va].v
      BY <2>4, Entries
    <3> QED  BY <3>1
  <2>5. CASE va[1] = "heap"
    <3>1. PICK i \in 0 .. MaxHeap - 1 : va = Heap(i)
      BY <2>5, Addresses
    <3>2. t[va] = Mapping(lookup_pa(p, va), FALSE) \/ t[va] = Unmapped
      BY <1>5, <3>1
    <3> QED  BY <2>3, <2>4, <2>5, <3>2
  <2>6. CASE va = Code(0)
    BY <1>4, <2>3, <2>6, Addresses
  <2> QED  BY <1>6, <2>1, <2>2, <2>4, <2>5, <2>6
<1>9. t \in [VA -> PTE]
  BY <1>7, <1>8
<1>10. Anchored(t)
  <2>1. t[Stack(0)].v /\ t[Stack(0)].w /\ t[Stack(0)].pa # NULL
    BY ZenonT(40), <1>2, Fresh
  <2>2. t[Data(0)].v /\ t[Data(0)].w /\ t[Data(0)].pa # NULL
    BY ZenonT(40), <1>3, Fresh
  <2>3. lookup_pa(p, Code(0)) \in Page \union {NULL} /\ lookup_pa(p, Code(0)) # NULL
    <3>1. Code(0) \in VA
      BY Addresses
    <3>2. pt[p][Code(0)].v /\ pt[p][Code(0)].pa # NULL
      BY DEF Anchored
    <3> QED  BY <1>0, <1>1, <3>1, <3>2, LookupType
  <2>4. t[Code(0)].v /\ t[Code(0)].pa = lookup_pa(p, Code(0))
    BY ZenonT(40), <1>4, <2>3, Entries
  <2> QED  BY <2>1, <2>2, <2>3, <2>4 DEF Anchored
<1>11. HeapOK(t, top[p], freed[p])
  <2>1. IsInjective(freed[p]) /\ Range(freed[p]) \subseteq 0 .. top[p] - 1
    BY DEF HeapOK
  <2>2. ASSUME NEW i \in 0 .. MaxHeap - 1
        PROVE  /\ t[Heap(i)].v => i < top[p] /\ i \notin Range(freed[p])
               /\ i < top[p] /\ i \notin Range(freed[p]) /\ i < Cleared => t[Heap(i)].v
    <3>1. inUse(i) => t[Heap(i)].v
      <4> SUFFICES ASSUME inUse(i)  PROVE t[Heap(i)].v
        OBVIOUS
      <4>1. t[Heap(i)] = Mapping(lookup_pa(p, Heap(i)), FALSE)
        BY <1>5
      <4>2. lookup_pa(p, Heap(i)) \in Page \union {NULL}
        BY <1>1, Addresses
      <4> QED  BY ZenonT(40), <4>1, <4>2, Entries
    <3>2. ~inUse(i) => ~t[Heap(i)].v
      <4> SUFFICES ASSUME ~inUse(i)  PROVE ~t[Heap(i)].v
        OBVIOUS
      <4>1. t[Heap(i)] = Unmapped
        BY <1>5
      <4> QED  BY <4>1, Entries
    <3>3. inUse(i) => i < top[p] /\ i \notin Range(freed[p])
      BY DEF inUse
    <3>4. i < top[p] /\ i \notin Range(freed[p]) /\ i < Cleared => inUse(i)
      BY SMT DEF inUse, Uncleared
    <3> QED  BY <3>1, <3>2, <3>3, <3>4
  <2> QED  BY <2>1, <2>2 DEF HeapOK
<1> QED  BY <1>8, <1>9, <1>10, <1>11 DEF ChildOf

(* What do_fork does, case by case. *)
LEMMA ForkStep ==
  ASSUME Inv, NEW p \in Proc, Fork(p)
  PROVE  /\ p \in alive /\ machine = "run"
         /\ \/ \E how \in {"nomem", "remap"} : Stop(how)
            \/ /\ Len(free) >= KPages + 2
               /\ born \in Proc /\ born \notin alive
               /\ free[KPages + 1] \in Page /\ free[KPages + 2] \in Page
               /\ free' = SubSeq(free, KPages + 3, Len(free))
               /\ \E dirty \in SUBSET Uncleared(p) :
                    pt' = [pt EXCEPT ![born] =
                             ChildPT(p, Range(freed[p]) \union dirty,
                                     free[KPages + 1], free[KPages + 2])]
               /\ mem' = [mem EXCEPT ![free[KPages + 1]] = mem[lookup_pa(p, Stack(0))],
                                     ![free[KPages + 2]] = mem[lookup_pa(p, Data(0))]]
               /\ top' = [top EXCEPT ![born] = top[p]]
               /\ freed' = [freed EXCEPT ![born] = freed[p]]
               /\ depth' = [depth EXCEPT ![born] = depth[p]]
               /\ alive' = alive \union {born}
               /\ born' = born + 1
               /\ UNCHANGED <<machine, reloaded>>
<1> USE Zenon
<1>1. p \in alive /\ machine = "run" /\ born < MaxProc
  BY DEF Fork, Running
<1>2. born \in Proc /\ born \notin alive
  <2>1. born \in 1 .. MaxProc /\ alive \subseteq 0 .. born - 1
    BY DEF Inv, TypeOK
  <2>2. born \notin 0 .. born - 1
    BY SMT, <2>1
  <2> QED  BY SMT, <1>1, <2>1, <2>2 DEF Proc
<1>3. CASE Stop("nomem") \/ Stop("remap")
  BY <1>1, <1>3
<1>4. CASE ~(Stop("nomem") \/ Stop("remap"))
  <2>1. Len(free) >= KPages + 2
    BY <1>4 DEF Fork
  <2>2. free[KPages + 1] \in Page /\ free[KPages + 2] \in Page
    BY SMT, <2>1 DEF Inv, TypeOK
  <2> QED  BY <1>1, <1>2, <1>4, <2>1, <2>2 DEF Fork
<1> QED  BY <1>3, <1>4

(* do_fork preserves the invariant. *)
LEMMA ForkInv ==
  ASSUME Inv, NEW p \in Proc, Fork(p)
  PROVE  Inv'
<1> USE Zenon
<1>1. CASE \E how \in {"nomem", "remap"} : Stop(how)
  BY <1>1, StopInv
<1>2. CASE ~ \E how \in {"nomem", "remap"} : Stop(how)
  <2> DEFINE stackPa == free[KPages + 1]
             dataPa == free[KPages + 2]
  <2>1. /\ p \in alive
        /\ Len(free) >= KPages + 2
        /\ born \in Proc /\ born \notin alive
        /\ stackPa \in Page /\ dataPa \in Page
        /\ free' = SubSeq(free, KPages + 3, Len(free))
        /\ mem' = [mem EXCEPT ![stackPa] = mem[lookup_pa(p, Stack(0))],
                              ![dataPa] = mem[lookup_pa(p, Data(0))]]
        /\ top' = [top EXCEPT ![born] = top[p]]
        /\ freed' = [freed EXCEPT ![born] = freed[p]]
        /\ depth' = [depth EXCEPT ![born] = depth[p]]
        /\ alive' = alive \union {born}
        /\ born' = born + 1
        /\ UNCHANGED <<machine, reloaded>>
    BY <1>2, ForkStep
  <2>2. PICK dirty \in SUBSET Uncleared(p) :
          pt' = [pt EXCEPT ![born] =
                   ChildPT(p, Range(freed[p]) \union dirty, stackPa, dataPa)]
    BY <1>2, ForkStep
  <2> DEFINE t == ChildPT(p, Range(freed[p]) \union dirty, stackPa, dataPa)
  <2> HIDE DEF stackPa, dataPa, t
  <2>3. /\ TypeOK /\ top[p] \in 0 .. MaxHeap /\ freed[p] \in Seq(0 .. MaxHeap - 1)
        /\ Anchored(pt[p]) /\ HeapOK(pt[p], top[p], freed[p])
    BY <2>1, LiveType DEF Inv
  <2>4. t \in [VA -> PTE] /\ Anchored(t) /\ HeapOK(t, top[p], freed[p])
    BY <2>1, <2>2, <2>3, ChildIs DEF t
  <2>5. /\ pt' \in [Proc -> [VA -> PTE]] /\ pt'[born] = t
        /\ \A q \in Proc \ {born} : pt'[q] = pt[q]
    BY <2>1, <2>2, <2>3, <2>4 DEF TypeOK, t
  <2>6. /\ top' \in [Proc -> 0 .. MaxHeap] /\ top'[born] = top[p]
        /\ freed' \in [Proc -> Seq(0 .. MaxHeap - 1)] /\ freed'[born] = freed[p]
        /\ depth' \in [Proc -> 1 .. MaxStack]
        /\ \A q \in Proc \ {born} : top'[q] = top[q] /\ freed'[q] = freed[q]
    BY <2>1, <2>3 DEF TypeOK
  <2>7. mem' \in [Page -> Val]
    <3>1. lookup_pa(p, Stack(0)) \in Page /\ lookup_pa(p, Data(0)) \in Page
      <4>1. Stack(0) \in VA /\ Data(0) \in VA
        BY Addresses
      <4>2. /\ pt[p][Stack(0)].v /\ pt[p][Stack(0)].pa # NULL
            /\ pt[p][Data(0)].v /\ pt[p][Data(0)].pa # NULL
        BY <2>3 DEF Anchored
      <4> QED  BY ZenonT(40), <2>3, <4>1, <4>2, LookupType
    <3> QED  BY <2>1, <2>3, <3>1 DEF TypeOK
  <2>8. free' \in Seq(Page)
    <3>1. /\ free \in Seq(Page)
          /\ KPages + 3 \in 1 .. Len(free) + 1 /\ Len(free) \in (KPages + 3) - 1 .. Len(free)
      BY SMT, <2>1, <2>3 DEF TypeOK
    <3> QED  BY <2>1, <3>1, Slice
  <2>9. born' \in 1 .. MaxProc /\ alive' \subseteq 0 .. born' - 1 /\ reloaded' \subseteq 0 .. born' - 1
    <3>1. born \in 1 .. MaxProc - 1 /\ 0 .. born - 1 \subseteq 0 .. born /\ born \in 0 .. born
      BY SMT, <2>1, <2>3 DEF TypeOK, Proc
    <3>2. born' - 1 = born
      BY SMT, <2>1, <3>1
    <3> QED  BY SMTT(30), <2>1, <2>3, <3>1, <3>2 DEF TypeOK
  <2>10. machine' = machine
    BY <2>1
  <2>11. TypeOK'
    BY <2>3, <2>5, <2>6, <2>7, <2>8, <2>9, <2>10 DEF TypeOK
  <2>12. \A q \in alive \ {born} : q \in Proc \ {born}
    BY <2>3, LiveType
  <2> QED  BY <2>1, <2>4, <2>5, <2>6, <2>11, <2>12, OneSpace
<1> QED  BY <1>1, <1>2

(* Loading a program leaves values in the pages. *)
LEMMA LoadedType ==
  ASSUME TypeOK, NEW pages, Loaded(pages)
  PROVE  mem' \in [Page -> Val]
BY Zenon, ImageVal DEF TypeOK, Loaded

(* What do_exec does, case by case. *)
LEMMA ExecStep ==
  ASSUME Inv, NEW p \in Proc, Exec(p)
  PROVE  /\ p \in alive /\ machine = "run"
         /\ \/ Stop("nomem")
            \/ \E s \in NewSpaces(free) :
                 /\ s.rest # <<>>
                 /\ free' = Tail(s.rest)
                 /\ pt' = [pt EXCEPT ![p] = [s.pt EXCEPT ![Heap(0)] = Mapping(Head(s.rest), TRUE)]]
                 /\ top' = [top EXCEPT ![p] = 1]
                 /\ freed' = [freed EXCEPT ![p] = <<>>]
                 /\ depth' = [depth EXCEPT ![p] = 1]
                 /\ reloaded' = reloaded \ {p}
                 /\ Loaded({s.pt[va].pa : va \in ImageVA} \union {Head(s.rest)})
                 /\ UNCHANGED <<machine, born, alive>>
<1> USE Zenon
<1>1. p \in alive /\ machine = "run"
  BY DEF Exec, Running
<1> QED  BY <1>1 DEF Exec

(* The new space with its first heap page. *)
LEMMA ExecSpace ==
  ASSUME free \in Seq(Page), NEW s \in NewSpaces(free), s.rest # <<>>,
         NEW t, t = [s.pt EXCEPT ![Heap(0)] = Mapping(Head(s.rest), TRUE)]
  PROVE  /\ t \in [VA -> PTE] /\ Anchored(t) /\ HeapOK(t, 1, <<>>)
         /\ t[Heap(0)] = Mapping(Head(s.rest), TRUE) /\ Head(s.rest) \in Page
         /\ \A va \in VA \ {Heap(0)} : t[va] = s.pt[va]
<1>1. /\ s.rest \in Seq(Page)
      /\ s.pt \in [VA -> PTE] /\ Anchored(s.pt)
      /\ \A i \in 0 .. MaxHeap - 1 : ~s.pt[Heap(i)].v
  BY Zenon, NewSpacesType
<1>2. Head(s.rest) \in Page
  BY <1>1
<1>3. Mapping(Head(s.rest), TRUE) \in PTE /\ Mapping(Head(s.rest), TRUE).v
  BY Zenon, <1>2, Fresh
<1>4. 0 \in 0 .. MaxHeap - 1 /\ Heap(0) \in VA
  BY Addresses
<1>5. /\ t \in [VA -> PTE]
      /\ t[Heap(0)] = Mapping(Head(s.rest), TRUE)
      /\ \A va \in VA \ {Heap(0)} : t[va] = s.pt[va]
  BY Zenon, <1>1, <1>3, <1>4
<1>6. Anchored(t)
  <2>1. \A va \in {Code(0), Stack(0), Data(0)} : va \in VA \ {Heap(0)}
    BY Addresses
  <2> QED  BY <1>1, <1>5, <2>1, AnchoredKept
<1>7. HeapOK(s.pt, 0, <<>>)
  <2>1. Range(<<>>) = {} /\ IsInjective(<<>>)
    BY DEF Range, IsInjective
  <2>2. \A i \in 0 .. MaxHeap - 1 : ~(i < 0)
    OBVIOUS
  <2> QED  BY Zenon, <1>1, <2>1, <2>2 DEF HeapOK
<1>8. HeapOK(t, 0 + 1, <<>>)
  <2>1. t[Heap(0)].v
    BY Zenon, <1>3, <1>5
  <2>2. \A j \in 0 .. MaxHeap - 1 : j # 0 => t[Heap(j)] = s.pt[Heap(j)]
    <3>1. \A j \in 0 .. MaxHeap - 1 : j # 0 => Heap(j) \in VA \ {Heap(0)}
      BY Addresses
    <3> QED  BY Zenon, <1>5, <3>1
  <2> QED  BY Zenon, <1>4, <1>7, <2>1, <2>2, HeapGrows
<1>9. HeapOK(t, 1, <<>>)
  <2>1. 0 + 1 = 1
    OBVIOUS
  <2> QED  BY Zenon, <1>8, <2>1
<1> QED  BY Zenon, <1>2, <1>5, <1>6, <1>9

(* do_exec preserves the invariant. *)
LEMMA ExecInv ==
  ASSUME Inv, NEW p \in Proc, Exec(p)
  PROVE  Inv'
<1> USE Zenon
<1>1. CASE Stop("nomem")
  BY <1>1, StopInv
<1>2. CASE ~Stop("nomem")
  <2>1. p \in alive
    BY ExecStep
  <2>2. PICK s \in NewSpaces(free) :
                 /\ s.rest # <<>>
                 /\ free' = Tail(s.rest)
                 /\ pt' = [pt EXCEPT ![p] = [s.pt EXCEPT ![Heap(0)] = Mapping(Head(s.rest), TRUE)]]
                 /\ top' = [top EXCEPT ![p] = 1]
                 /\ freed' = [freed EXCEPT ![p] = <<>>]
                 /\ depth' = [depth EXCEPT ![p] = 1]
                 /\ reloaded' = reloaded \ {p}
                 /\ Loaded({s.pt[va].pa : va \in ImageVA} \union {Head(s.rest)})
                 /\ UNCHANGED <<machine, born, alive>>
    BY <1>2, ExecStep
  <2> DEFINE t == [s.pt EXCEPT ![Heap(0)] = Mapping(Head(s.rest), TRUE)]
  <2>3. TypeOK /\ free \in Seq(Page)
    BY DEF Inv, TypeOK
  <2>4. t \in [VA -> PTE] /\ Anchored(t) /\ HeapOK(t, 1, <<>>)
    BY <2>2, <2>3, ExecSpace
  <2>5. pt' = [pt EXCEPT ![p] = t]
    BY <2>2
  <2> HIDE DEF t
  <2>6. /\ pt' \in [Proc -> [VA -> PTE]] /\ pt'[p] = t
        /\ \A q \in Proc \ {p} : pt'[q] = pt[q]
    BY <2>3, <2>4, <2>5 DEF TypeOK
  <2>7. /\ top' \in [Proc -> 0 .. MaxHeap] /\ top'[p] = 1
        /\ depth' \in [Proc -> 1 .. MaxStack]
        /\ \A q \in Proc \ {p} : top'[q] = top[q]
    BY SMT, <2>2, <2>3 DEF TypeOK
  <2>8. /\ freed' \in [Proc -> Seq(0 .. MaxHeap - 1)] /\ freed'[p] = <<>>
        /\ \A q \in Proc \ {p} : freed'[q] = freed[q]
    BY SMT, <2>2, <2>3 DEF TypeOK
  <2>9. mem' \in [Page -> Val]
    BY <2>2, <2>3, LoadedType
  <2>10. free' \in Seq(Page)
    <3>1. s.rest \in Seq(Page)
      BY <2>3, NewSpacesType
    <3> QED  BY SMT, <2>2, <3>1
  <2>11. machine' = machine /\ born' = born /\ alive' = alive /\ reloaded' \subseteq reloaded
    BY <2>2
  <2>12. TypeOK'
    BY <2>3, <2>6, <2>7, <2>8, <2>9, <2>10, <2>11 DEF TypeOK
  <2>13. \A q \in alive \ {p} : q \in Proc \ {p}
    BY <2>3, LiveType
  <2> QED  BY <2>4, <2>6, <2>7, <2>8, <2>11, <2>12, <2>13, OneSpace
<1> QED  BY <1>1, <1>2

(* The space after exec1: u with the two segments replaced. *)
Reload(u, c, d) ==
  [va \in VA |-> CASE va[1] = "code" -> Segment(c.pages, va[2])
                   [] va[1] = "data" -> Segment(d.pages, va[2])
                   [] OTHER -> u[va]]

(* The page table after a load over the caller's image. *)
LEMMA ReloadIs ==
  ASSUME NEW u \in [VA -> PTE], Anchored(u), NEW c, NEW d,
         \A i \in 0 .. ImagePages - 1 : c.pages[i + 1] \in Page /\ d.pages[i + 1] \in Page,
         NEW t, t = Reload(u, c, d)
  PROVE  /\ t \in [VA -> PTE] /\ Anchored(t)
         /\ \A va \in VA : va[1] \notin {"code", "data"} => t[va] = u[va]
         /\ \A va \in VA : va[1] = "code" /\ t[va].v =>
              va[2] \in 0 .. ImagePages - 1 /\ va = Code(va[2]) /\ t[va].pa = c.pages[va[2] + 1]
         /\ \A va \in VA : va[1] = "data" /\ t[va].v =>
              va[2] \in 0 .. ImagePages - 1 /\ va = Data(va[2]) /\ t[va].pa = d.pages[va[2] + 1]
<1> USE Zenon
<1>1. \A va \in VA : va[1] = "code" => t[va] = Segment(c.pages, va[2])
  BY DEF Reload
<1>2. \A va \in VA : va[1] = "data" => t[va] = Segment(d.pages, va[2])
  BY DEF Reload
<1>3. \A va \in VA : va[1] \notin {"code", "data"} => t[va] = u[va]
  BY DEF Reload
<1>4. \A va \in VA : va[1] \in {"code", "data"} => va[2] \in 0 .. 1
  BY Addresses
<1>5. \A i \in 0 .. 1 :
        /\ Segment(c.pages, i) \in PTE
        /\ Segment(c.pages, i).v <=> i \in 0 .. ImagePages - 1
        /\ Segment(c.pages, i).v => /\ Segment(c.pages, i).w
                                    /\ Segment(c.pages, i).pa = c.pages[i + 1]
                                    /\ Segment(c.pages, i).pa # NULL
  BY Segments
<1>6. \A i \in 0 .. 1 :
        /\ Segment(d.pages, i) \in PTE
        /\ Segment(d.pages, i).v <=> i \in 0 .. ImagePages - 1
        /\ Segment(d.pages, i).v => /\ Segment(d.pages, i).w
                                    /\ Segment(d.pages, i).pa = d.pages[i + 1]
                                    /\ Segment(d.pages, i).pa # NULL
  BY Segments
<1>7. t \in [VA -> PTE]
  <2>1. t = [va \in VA |-> t[va]]
    BY DEF Reload
  <2>2. \A va \in VA : t[va] \in PTE
    <3> TAKE va \in VA
    <3>1. CASE va[1] \in {"code", "data"}
      BY ZenonT(40), <1>1, <1>2, <1>4, <1>5, <1>6, <3>1
    <3>2. CASE va[1] \notin {"code", "data"}
      BY <1>3, <3>2
    <3> QED  BY <3>1, <3>2
  <2> QED  BY <2>1, <2>2
<1>8. ASSUME NEW va \in VA, va[1] = "code", t[va].v
      PROVE  va[2] \in 0 .. ImagePages - 1 /\ va = Code(va[2]) /\ t[va].pa = c.pages[va[2] + 1]
  <2>1. va[2] \in 0 .. 1 /\ va = Code(va[2])
    BY <1>8, Addresses
  <2>2. t[va] = Segment(c.pages, va[2])
    BY <1>1, <1>8
  <2> QED  BY <1>5, <1>8, <2>1, <2>2
<1>9. ASSUME NEW va \in VA, va[1] = "data", t[va].v
      PROVE  va[2] \in 0 .. ImagePages - 1 /\ va = Data(va[2]) /\ t[va].pa = d.pages[va[2] + 1]
  <2>1. va[2] \in 0 .. 1 /\ va = Data(va[2])
    BY <1>9, Addresses
  <2>2. t[va] = Segment(d.pages, va[2])
    BY <1>2, <1>9
  <2> QED  BY <1>6, <1>9, <2>1, <2>2
<1>10. Anchored(t)
  <2>1. 0 \in 0 .. 1 /\ 0 \in 0 .. ImagePages - 1
    BY SMT
  <2>2. t[Code(0)] = Segment(c.pages, 0) /\ t[Data(0)] = Segment(d.pages, 0)
    BY SMT, <1>1, <1>2, Addresses
  <2>3. t[Stack(0)] = u[Stack(0)]
    BY <1>3, Addresses
  <2>4. t[Code(0)].v /\ t[Code(0)].pa # NULL
    BY <1>5, <2>1, <2>2
  <2>5. t[Data(0)].v /\ t[Data(0)].w /\ t[Data(0)].pa # NULL
    BY <1>6, <2>1, <2>2
  <2>6. t[Stack(0)].v /\ t[Stack(0)].w /\ t[Stack(0)].pa # NULL
    BY <2>3 DEF Anchored
  <2> QED  BY <2>4, <2>5, <2>6 DEF Anchored
<1> QED  BY <1>3, <1>7, <1>8, <1>9, <1>10

(* What sys_user_exec1 does, case by case. *)
LEMMA Exec1Step ==
  ASSUME Inv, NEW p \in Proc, Exec1(p)
  PROVE  /\ p \in alive /\ machine = "run"
         /\ lookup_pa(p, Code(0)) \in Page /\ lookup_pa(p, Code(0)) = pt[p][Code(0)].pa
         /\ lookup_pa(p, Data(0)) \in Page /\ lookup_pa(p, Data(0)) = pt[p][Data(0)].pa
         /\ \/ /\ Stop("corrupt")
               /\ lookup_pa(p, Code(0)) \in Range(free) \/ lookup_pa(p, Data(0)) \in Range(free)
            \/ Stop("remap")
            \/ /\ lookup_pa(p, Code(0)) \notin Range(free)
               /\ lookup_pa(p, Data(0)) \notin Range(free)
               /\ \E c \in TakeImage(<<lookup_pa(p, Code(0))>> \o free) :
                    \E d \in TakeImage(<<lookup_pa(p, Data(0))>> \o c.rest) :
                      /\ free' = d.rest
                      /\ pt' = [pt EXCEPT ![p] = Reload(pt[p], c, d)]
                      /\ Loaded(Range(c.pages) \union Range(d.pages))
               /\ reloaded' = reloaded \union {p}
               /\ UNCHANGED <<machine, heaps, depth, born, alive>>
<1> USE Zenon
<1>1. p \in alive /\ machine = "run"
  BY DEF Exec1, Running
<1>2. /\ Code(0) \in VA /\ Data(0) \in VA
      /\ pt[p][Code(0)].v /\ pt[p][Code(0)].pa # NULL
      /\ pt[p][Data(0)].v /\ pt[p][Data(0)].pa # NULL
  BY <1>1, Addresses DEF Inv, Anchored
<1>3. /\ lookup_pa(p, Code(0)) \in Page /\ lookup_pa(p, Code(0)) = pt[p][Code(0)].pa
      /\ lookup_pa(p, Data(0)) \in Page /\ lookup_pa(p, Data(0)) = pt[p][Data(0)].pa
  BY ZenonT(40), <1>2, LookupType DEF Inv
<1> DEFINE x == lookup_pa(p, Code(0))
           y == lookup_pa(p, Data(0))
<1>4. \/ {x, y} \intersect Range(free) # {} /\ Stop("corrupt")
      \/ Stop("remap")
      \/ /\ {x, y} \intersect Range(free) = {}
         /\ \E c \in TakeImage(<<x>> \o free) :
              \E d \in TakeImage(<<y>> \o c.rest) :
                /\ free' = d.rest
                /\ pt' = [pt EXCEPT ![p] = [va \in VA |->
                             CASE va[1] = "code" -> Segment(c.pages, va[2])
                               [] va[1] = "data" -> Segment(d.pages, va[2])
                               [] OTHER -> pt[p][va]]]
                /\ Loaded(Range(c.pages) \union Range(d.pages))
         /\ reloaded' = reloaded \union {p}
         /\ UNCHANGED <<machine, heaps, depth, born, alive>>
  BY DEF Exec1
<1> HIDE DEF x, y
<1>5. CASE {x, y} \intersect Range(free) # {} /\ Stop("corrupt")
  <2>1. x \in Range(free) \/ y \in Range(free)
    BY <1>5
  <2> QED  BY <1>1, <1>3, <1>5, <2>1 DEF x, y
<1>6. CASE Stop("remap")
  BY <1>1, <1>3, <1>6
<1>7. CASE /\ {x, y} \intersect Range(free) = {}
           /\ \E c \in TakeImage(<<x>> \o free) :
                \E d \in TakeImage(<<y>> \o c.rest) :
                  /\ free' = d.rest
                  /\ pt' = [pt EXCEPT ![p] = [va \in VA |->
                               CASE va[1] = "code" -> Segment(c.pages, va[2])
                                 [] va[1] = "data" -> Segment(d.pages, va[2])
                                 [] OTHER -> pt[p][va]]]
                  /\ Loaded(Range(c.pages) \union Range(d.pages))
           /\ reloaded' = reloaded \union {p}
           /\ UNCHANGED <<machine, heaps, depth, born, alive>>
  <2>1. x \notin Range(free) /\ y \notin Range(free)
    BY <1>7
  <2>2. \E c \in TakeImage(<<x>> \o free) :
          \E d \in TakeImage(<<y>> \o c.rest) :
            /\ free' = d.rest
            /\ pt' = [pt EXCEPT ![p] = Reload(pt[p], c, d)]
            /\ Loaded(Range(c.pages) \union Range(d.pages))
    BY <1>7 DEF Reload
  <2>3. reloaded' = reloaded \union {p} /\ UNCHANGED <<machine, heaps, depth, born, alive>>
    BY <1>7
  <2> QED  BY <1>1, <1>3, <2>1, <2>2, <2>3 DEF x, y
<1> QED  BY <1>4, <1>5, <1>6, <1>7

(* sys_user_exec1 preserves the invariant. *)
LEMMA Exec1Inv ==
  ASSUME Inv, NEW p \in Proc, Exec1(p)
  PROVE  Inv'
<1> USE Zenon
<1>1. CASE Stop("corrupt") \/ Stop("remap")
  BY <1>1, StopInv
<1>2. CASE ~(Stop("corrupt") \/ Stop("remap"))
  <2> DEFINE x == lookup_pa(p, Code(0))
             y == lookup_pa(p, Data(0))
  <2>1. /\ p \in alive /\ x \in Page /\ y \in Page
        /\ reloaded' = reloaded \union {p}
        /\ UNCHANGED <<machine, heaps, depth, born, alive>>
    BY <1>2, Exec1Step
  <2>2. PICK c \in TakeImage(<<x>> \o free) :
          \E d \in TakeImage(<<y>> \o c.rest) :
            /\ free' = d.rest
            /\ pt' = [pt EXCEPT ![p] = Reload(pt[p], c, d)]
            /\ Loaded(Range(c.pages) \union Range(d.pages))
    BY <1>2, Exec1Step
  <2>3. PICK d \in TakeImage(<<y>> \o c.rest) :
            /\ free' = d.rest
            /\ pt' = [pt EXCEPT ![p] = Reload(pt[p], c, d)]
            /\ Loaded(Range(c.pages) \union Range(d.pages))
    BY <2>2
  <2> HIDE DEF x, y
  <2>4. /\ TypeOK /\ free \in Seq(Page) /\ pt[p] \in [VA -> PTE]
        /\ Anchored(pt[p]) /\ HeapOK(pt[p], top[p], freed[p])
    BY <2>1, LiveType DEF Inv, TypeOK
  <2>5. c.rest \in Seq(Page) /\ \A i \in 0 .. ImagePages - 1 : c.pages[i + 1] \in Page
    <3>1. <<x>> \o free \in Seq(Page)
      BY SMT, <2>1, <2>4
    <3> QED  BY <3>1, TakenType
  <2>6. d.rest \in Seq(Page) /\ \A i \in 0 .. ImagePages - 1 : d.pages[i + 1] \in Page
    <3>1. <<y>> \o c.rest \in Seq(Page)
      BY SMTT(30), <2>1, <2>5
    <3> QED  BY <3>1, TakenType
  <2> DEFINE t == Reload(pt[p], c, d)
  <2>7. /\ t \in [VA -> PTE] /\ Anchored(t)
        /\ \A va \in VA : va[1] \notin {"code", "data"} => t[va] = pt[p][va]
    <3>1. \A i \in 0 .. ImagePages - 1 : c.pages[i + 1] \in Page /\ d.pages[i + 1] \in Page
      BY <2>5, <2>6
    <3> HIDE DEF t
    <3>2. t = Reload(pt[p], c, d)
      BY DEF t
    <3> QED  BY SMT, <2>4, <3>1, <3>2, ReloadIs
  <2>8. pt' = [pt EXCEPT ![p] = t]
    BY <2>3
  <2> HIDE DEF t
  <2>9. /\ pt' \in [Proc -> [VA -> PTE]] /\ pt'[p] = t
        /\ \A q \in Proc \ {p} : pt'[q] = pt[q]
    BY <2>4, <2>7, <2>8 DEF TypeOK
  <2>10. HeapOK(t, top[p], freed[p])
    <3>1. \A j \in 0 .. MaxHeap - 1 : t[Heap(j)] = pt[p][Heap(j)]
      BY <2>7, Addresses
    <3> QED  BY <2>4, <3>1, HeapKept
  <2>11. mem' \in [Page -> Val]
    BY <2>3, <2>4, LoadedType
  <2>12. /\ machine' = machine /\ top' = top /\ freed' = freed /\ depth' = depth
         /\ born' = born /\ alive' = alive /\ free' \in Seq(Page)
    BY <2>1, <2>3, <2>6 DEF heaps
  <2>13. reloaded' \subseteq 0 .. born - 1
    BY <2>1, <2>4 DEF TypeOK
  <2>14. TypeOK'
    BY <2>4, <2>9, <2>11, <2>12, <2>13 DEF TypeOK
  <2>15. \A q \in alive \ {p} : q \in Proc \ {p}
    BY <2>4, LiveType
  <2> QED  BY <2>7, <2>9, <2>10, <2>12, <2>14, <2>15, OneSpace
<1> QED  BY <1>1, <1>2

(* sys_user_exit preserves it. *)
LEMMA ExitInv ==
  ASSUME Inv, NEW p \in Proc, Exit(p)
  PROVE  Inv'
<1> USE Zenon
<1>1. TypeOK' /\ alive' \subseteq alive
  BY DEF Inv, TypeOK, Exit
<1>2. \A q \in alive' : Anchored(pt'[q]) /\ HeapOK(pt'[q], top'[q], freed'[q])
  BY <1>1 DEF Inv, Exit
<1> QED  BY <1>1, <1>2 DEF Inv

(* A move of the stack pointer preserves it. *)
LEMMA MoveStackInv ==
  ASSUME Inv, NEW p \in Proc, MoveStack(p)
  PROVE  Inv'
<1> USE Zenon
<1>1. TypeOK'
  BY DEF Inv, TypeOK, MoveStack, heaps
<1>2. \A q \in alive' : Anchored(pt'[q]) /\ HeapOK(pt'[q], top'[q], freed'[q])
  BY DEF Inv, MoveStack, heaps
<1> QED  BY <1>1, <1>2 DEF Inv

(* A store preserves it. *)
LEMMA StoreInv ==
  ASSUME Inv, NEW p \in Proc, NEW va \in VA, NEW x \in Val, Store(p, va, x)
  PROVE  Inv'
<1> USE Zenon
<1>1. CASE Stop("fault") \/ Stop("corrupt")
  BY <1>1, StopInv
<1>2. CASE /\ mem' = [mem EXCEPT ![pt[p][va].pa] = x]
           /\ UNCHANGED <<machine, free, pt, heaps, depth, reloaded, born, alive>>
  <2>1. mem' \in [Page -> Val]
    BY <1>2 DEF Inv, TypeOK
  <2>2. TypeOK'
    BY <1>2, <2>1 DEF Inv, TypeOK, heaps
  <2>3. \A q \in alive' : Anchored(pt'[q]) /\ HeapOK(pt'[q], top'[q], freed'[q])
    BY <1>2 DEF Inv, heaps
  <2> QED  BY <2>2, <2>3 DEF Inv
<1> QED  BY <1>1, <1>2 DEF Store

(* What handle_user_page_fault does for a store, case by case. *)
LEMMA StoreFaultStep ==
  ASSUME Inv, NEW p \in Proc, NEW va \in Writable, StoreFault(p, va)
  PROVE  /\ p \in alive /\ machine = "run" /\ va \in VA
         /\ \/ Stop("fault")
            \/ /\ va \notin {Code(0), Stack(0), Data(0)}
               /\ va[1] = "heap" => pt[p][va].v
               /\ pt' = [pt EXCEPT ![p][va] = Mapping(alloc_page, TRUE)]
               /\ free' = Rest
               /\ UNCHANGED <<machine, mem, heaps, depth, reloaded, born, alive>>
<1> USE Zenon
<1>1. p \in alive /\ machine = "run" /\ va \in VA /\ va[1] # "code"
  BY DEF StoreFault, Running, Writable
<1>2. va \notin {Stack(0), Data(0)}
  BY <1>1 DEF StoreFault, Inv, Anchored
<1>3. va # Code(0)
  BY <1>1, Addresses
<1>4. CASE Stop("fault")
  BY <1>1, <1>4
<1>5. CASE ~Stop("fault")
  <2>1. ~BelowStack(p, va) \/ lookup_pa(p, va) # NULL
    BY <1>5 DEF StoreFault
  <2>2. va[1] = "heap" => pt[p][va].v
    BY <1>1, <2>1, LookupType DEF BelowStack, Inv
  <2> QED  BY <1>1, <1>2, <1>3, <1>5, <2>2 DEF StoreFault
<1> QED  BY <1>4, <1>5

(* handle_user_page_fault preserves the invariant. *)
LEMMA StoreFaultInv ==
  ASSUME Inv, NEW p \in Proc, NEW va \in Writable, StoreFault(p, va)
  PROVE  Inv'
<1> USE Zenon
<1>1. CASE Stop("fault")
  BY <1>1, StopInv
<1>2. CASE ~Stop("fault")
  <2>1. /\ p \in alive /\ va \in VA /\ va \notin {Code(0), Stack(0), Data(0)}
        /\ va[1] = "heap" => pt[p][va].v
        /\ pt' = [pt EXCEPT ![p][va] = Mapping(alloc_page, TRUE)]
        /\ free' = Rest
        /\ UNCHANGED <<machine, mem, heaps, depth, reloaded, born, alive>>
    BY <1>2, StoreFaultStep
  <2>2. /\ TypeOK /\ pt[p] \in [VA -> PTE]
        /\ Anchored(pt[p]) /\ HeapOK(pt[p], top[p], freed[p])
    BY <2>1, LiveType DEF Inv
  <2>3. /\ alloc_page \in Page \union {NULL} /\ Rest \in Seq(Page)
        /\ Mapping(alloc_page, TRUE) \in PTE /\ Mapping(alloc_page, TRUE).v
    BY <2>2, AllocType, Entries DEF TypeOK
  <2>4. /\ pt' \in [Proc -> [VA -> PTE]]
        /\ pt'[p][va] = Mapping(alloc_page, TRUE)
        /\ \A vb \in VA \ {va} : pt'[p][vb] = pt[p][vb]
        /\ \A q \in Proc \ {p} : pt'[q] = pt[q]
    BY <2>1, <2>2, <2>3, EntrySet
  <2>5. HeapOK(pt'[p], top[p], freed[p])
    <3>1. ASSUME NEW j \in 0 .. MaxHeap - 1
          PROVE  pt'[p][Heap(j)].v = pt[p][Heap(j)].v
      <4>1. Heap(j) \in VA /\ Heap(j)[1] = "heap"
        BY Addresses
      <4>2. CASE Heap(j) # va
        BY <2>4, <4>1, <4>2
      <4>3. CASE Heap(j) = va
        <5>1. pt[p][va].v = TRUE
          BY <2>1, <2>2, <4>1, <4>3, Entries
        <5>2. pt'[p][va].v = TRUE
          BY SMT, <2>4 DEF Mapping
        <5> QED  BY <4>3, <5>1, <5>2
      <4> QED  BY <4>2, <4>3
    <3> QED  BY <2>2, <3>1, HeapKept
  <2>6. Anchored(pt'[p])
    <3>1. \A vb \in {Code(0), Stack(0), Data(0)} : vb \in VA \ {va}
      BY SMT, <2>1, Addresses
    <3>2. \A vb \in {Code(0), Stack(0), Data(0)} : pt'[p][vb] = pt[p][vb]
      BY <2>4, <3>1
    <3> QED  BY <2>2, <3>2, AnchoredKept
  <2>7. /\ machine' = machine /\ mem' = mem /\ top' = top /\ freed' = freed /\ depth' = depth
        /\ reloaded' = reloaded /\ born' = born /\ alive' = alive /\ free' \in Seq(Page)
    BY <2>1, <2>3 DEF heaps
  <2>8. TypeOK'
    BY <2>2, <2>4, <2>7 DEF TypeOK
  <2>9. \A q \in alive \ {p} : q \in Proc \ {p}
    BY <2>2, LiveType
  <2> QED  BY <2>4, <2>5, <2>6, <2>7, <2>8, <2>9, OneSpace
<1> QED  BY <1>1, <1>2

(* create_freepage_list's list. *)
LEMMA InitialListIs ==
  InitialList \in Seq(Page) /\ IsInjective(InitialList) /\ Range(InitialList) = Page
<1>1. InitialList \in [1 .. NPages -> Page]
  BY DEF InitialList, Page
<1>2. InitialList \in Seq(Page)
  BY <1>1
<1>3. IsInjective(InitialList)
  BY DEF InitialList, IsInjective, Page
<1>4. Page \subseteq Range(InitialList)
  <2> SUFFICES ASSUME NEW x \in Page  PROVE x \in Range(InitialList)
    BY Zenon
  <2>1. NPages + 1 - x \in Page /\ NPages + 1 - (NPages + 1 - x) = x
    BY DEF Page
  <2>2. InitialList[NPages + 1 - x] = x /\ NPages + 1 - x \in DOMAIN InitialList
    BY Zenon, <2>1 DEF InitialList
  <2> QED  BY Zenon, <2>2 DEF Range
<1> QED  BY Zenon, <1>1, <1>2, <1>3, <1>4 DEF Range

(* The invariant holds when the first program is loaded. *)
LEMMA InitInv ==
  ASSUME Init
  PROVE  Inv
<1> USE Zenon
<1>1. PICK s \in NewSpaces(InitialList) :
    /\ machine = "run"
    /\ free = s.rest
    /\ mem = [pa \in Page |-> Image]
    /\ pt = [p \in Proc |-> IF p = 0 THEN s.pt ELSE [va \in VA |-> Unmapped]]
    /\ top = [p \in Proc |-> 0]
    /\ freed = [p \in Proc |-> <<>>]
    /\ depth = [p \in Proc |-> 1]
    /\ reloaded = {}
    /\ born = 1
    /\ alive = {0}
  BY DEF Init
<1>2. /\ s.rest \in Seq(Page)
      /\ s.pt \in [VA -> PTE] /\ Anchored(s.pt)
      /\ \A i \in 0 .. MaxHeap - 1 : ~s.pt[Heap(i)].v
  BY InitialListIs, NewSpacesType
<1>3. 0 \in Proc /\ pt[0] = s.pt /\ top[0] = 0 /\ freed[0] = <<>>
  BY SMT, <1>1 DEF Proc
<1>4. pt \in [Proc -> [VA -> PTE]]
  <2>1. [va \in VA |-> Unmapped] \in [VA -> PTE]
    BY Entries
  <2> QED  BY <1>1, <1>2, <2>1
<1>5. HeapOK(s.pt, 0, <<>>)
  <2>1. Range(<<>>) = {} /\ IsInjective(<<>>)
    BY SMT DEF Range, IsInjective
  <2>2. \A i \in 0 .. MaxHeap - 1 : ~(i < 0)
    BY SMT
  <2> QED  BY <1>2, <2>1, <2>2 DEF HeapOK
<1>6. mem \in [Page -> Val]
  BY <1>1, ImageVal
<1>7. /\ top \in [Proc -> 0 .. MaxHeap] /\ depth \in [Proc -> 1 .. MaxStack]
      /\ freed \in [Proc -> Seq(0 .. MaxHeap - 1)]
      /\ born \in 1 .. MaxProc /\ alive \subseteq 0 .. born - 1 /\ reloaded \subseteq 0 .. born - 1
  BY SMT, <1>1
<1>8. TypeOK
  BY <1>1, <1>2, <1>4, <1>6, <1>7 DEF TypeOK
<1> QED  BY <1>1, <1>2, <1>3, <1>5, <1>8 DEF Inv

(* The invariant is about the variables only. *)
LEMMA InvStutter ==
  ASSUME Inv, UNCHANGED vars
  PROVE  Inv'
<1> USE Zenon
<1>1. TypeOK'
  BY DEF Inv, vars, TypeOK
<1>2. \A p \in alive' : Anchored(pt'[p]) /\ HeapOK(pt'[p], top'[p], freed'[p])
  BY DEF Inv, vars
<1> QED  BY <1>1, <1>2 DEF Inv

(* All steps but exec1 and free. *)
LEMMA OrdinaryInv ==
  ASSUME Inv, NEW p \in Proc, Ordinary(p)
  PROVE  Inv'
<1> USE Zenon
<1>1. CASE Malloc(p)
  BY <1>1, MallocInv
<1>2. CASE Fork(p)
  BY <1>2, ForkInv
<1>3. CASE Exec(p)
  BY <1>3, ExecInv
<1>4. CASE Exit(p)
  BY <1>4, ExitInv
<1>5. CASE MoveStack(p)
  BY <1>5, MoveStackInv
<1>6. CASE \E va \in Writable : StoreFault(p, va) \/ \E x \in Val : Store(p, va, x)
  <2>1. PICK va \in Writable : StoreFault(p, va) \/ \E x \in Val : Store(p, va, x)
    BY <1>6
  <2>2. va \in VA
    BY DEF Writable
  <2> QED  BY <2>1, <2>2, StoreFaultInv, StoreInv
<1> QED  BY <1>1, <1>2, <1>3, <1>4, <1>5, <1>6 DEF Ordinary

(* Every step preserves the invariant. *)
LEMMA InvStep ==
  ASSUME Inv, [Next]_vars
  PROVE  Inv'
<1> USE Zenon
<1>1. CASE Next
  <2>1. PICK p \in Proc : Ordinary(p) \/ Exec1(p) \/ \E i \in 0 .. MaxHeap - 1 : Free(p, i)
    BY <1>1 DEF Next
  <2> QED  BY <2>1, OrdinaryInv, Exec1Inv, FreeInv
<1>2. CASE UNCHANGED vars
  BY <1>2, InvStutter
<1> QED  BY <1>1, <1>2

(***************************************************************************)
(* Whatever the processes do, shared pages freed or not, every variable    *)
(* keeps its type: a page table entry holds a page or 0, the free list     *)
(* holds pages.                                                            *)
(***************************************************************************)
THEOREM TypeCorrect == Spec => []TypeOK
<1>1. Inv => TypeOK
  BY Zenon DEF Inv
<1> QED  BY <1>1, InitInv, InvStep, PTL DEF Spec

(***************************************************************************)
(* Whatever the processes do, the heap manager of a live process and its   *)
(* page table agree: fork copies both alike, malloc and free change both.  *)
(***************************************************************************)
THEOREM HeapConsistent == Spec => []HeapAgrees
<1>1. Inv => HeapAgrees
  BY Zenon DEF Inv, HeapOK, HeapAgrees
<1> QED  BY <1>1, InitInv, InvStep, PTL DEF Spec

(***************************************************************************)
(* sys_user_allocate_page never panics: no malloc step stops the machine,  *)
(* with "map_pages fails!" or otherwise.                                   *)
(***************************************************************************)
THEOREM MallocSafe == Spec => [][\A p \in Proc : Malloc(p) => machine' = "run"]_vars
<1>1. ASSUME Inv, [Next]_vars
      PROVE  [\A p \in Proc : Malloc(p) => machine' = "run"]_vars
  <2>1. ASSUME NEW p \in Proc, Malloc(p)
        PROVE  machine' = "run"
    BY Zenon, <1>1, <2>1, MallocStep
  <2> QED  BY Zenon, <2>1
<1> QED  BY <1>1, InitInv, InvStep, PTL DEF Spec

----------------------------------------------------------------------------
(* A page has one owner.                                                   *)

(***************************************************************************)
(* Two mappings of a page are at one address in two processes, and are of  *)
(* heap or code: do_fork shares nothing else.                              *)
(***************************************************************************)
SamePlace ==
  \A p, q \in alive, va, vb \in VA :
    pt[p][va].v /\ pt[p][va].pa # NULL /\ Maps(q, vb, pt[p][va].pa)
      => va = vb /\ (p = q \/ va[1] \in {"heap", "code"})

Apart == FreeUnmapped /\ OneWriter /\ SamePlace

(* Apart, for the pages of the free list instead of its indices. *)
LEMMA FreeSet ==
  ASSUME Inv, Apart, NEW q \in alive, NEW va \in VA, pt[q][va].v
  PROVE  pt[q][va].pa \notin Range(free)
BY Zenon DEF Apart, FreeUnmapped, Maps, Range

(* A process has a page at one address only. *)
LEMMA OneAddress ==
  ASSUME Apart, NEW p \in alive, NEW va \in VA, NEW vb \in VA,
         pt[p][va].v, pt[p][va].pa # NULL, pt[p][vb].v, pt[p][va].pa = pt[p][vb].pa
  PROVE  va = vb
BY DEF Apart, SamePlace, Maps

(* Nothing changes but the content of pages, or a process leaves. *)
LEMMA ApartSame ==
  ASSUME Apart, machine' # "corrupt", free' = free, pt' = pt, alive' \subseteq alive
  PROVE  Apart'
<1>1. FreeUnmapped'
  BY Zenon DEF Apart, FreeUnmapped, Maps
<1>2. OneWriter'
  BY DEF Apart, OneWriter, Maps
<1>3. SamePlace'
  BY ZenonT(40) DEF Apart, SamePlace, Maps
<1> QED  BY Zenon, <1>1, <1>2, <1>3 DEF Apart

(***************************************************************************)
(* Process p gets a new page table.  Its pages are pages of Tk, which no   *)
(* other process maps, or its own, at the same addresses, or heap or code  *)
(* pages of another process, at the same addresses and read only.          *)
(***************************************************************************)
NewTable(p, Tk) ==
  /\ machine' # "corrupt" /\ alive' \subseteq alive \union {p}
  /\ \A q \in alive \ {p} : pt'[q] = pt[q]
  /\ IsInjective(free')
  /\ \A q \in alive \ {p}, vb \in VA : pt[q][vb].v => pt[q][vb].pa \notin Tk \union Range(free')
  /\ \A va \in VA : pt'[p][va].v => pt'[p][va].pa \notin Range(free')
  /\ \A va \in VA : pt'[p][va].v /\ pt'[p][va].pa # NULL =>
       \/ pt'[p][va].pa \in Tk
       \/ p \in alive /\ pt'[p][va] = pt[p][va]
       \/ /\ ~pt'[p][va].w /\ va[1] \in {"heap", "code"}
          /\ \E r \in alive \ {p} : pt[r][va].v /\ pt[r][va].pa = pt'[p][va].pa
  /\ \A va, vb \in VA :
       pt'[p][va].v /\ pt'[p][va].pa # NULL /\ pt'[p][vb].v /\ pt'[p][va].pa = pt'[p][vb].pa
         => va = vb

(* A new page table made of own and of free pages keeps owners apart. *)
LEMMA ApartStep ==
  ASSUME Apart, NEW p, NEW Tk, NewTable(p, Tk)
  PROVE  Apart'
<1> USE Zenon
<1>1. ASSUME NEW q \in alive \ {p}, NEW va \in VA, NEW vb \in VA,
             pt'[p][va].v, pt'[p][va].pa # NULL, pt[q][vb].v, pt'[p][va].pa = pt[q][vb].pa
      PROVE  va = vb /\ va[1] \in {"heap", "code"} /\ ~(pt'[p][va].w /\ pt[q][vb].w)
  <2>1. pt'[p][va].pa \notin Tk
    BY <1>1 DEF NewTable
  <2>2. CASE p \in alive /\ pt'[p][va] = pt[p][va]
    <3>1. pt[p][va].v /\ pt[p][va].pa # NULL /\ pt[p][va].pa = pt[q][vb].pa /\ p # q
      BY <1>1, <2>2
    <3>2. va = vb /\ va[1] \in {"heap", "code"}
      BY ZenonT(40), <1>1, <2>2, <3>1 DEF Apart, SamePlace, Maps
    <3>3. ~(pt[p][va].w /\ pt[q][vb].w)
      BY <1>1, <2>2, <3>1 DEF Apart, OneWriter, Maps
    <3> QED  BY <2>2, <3>2, <3>3
  <2>3. CASE /\ ~pt'[p][va].w /\ va[1] \in {"heap", "code"}
             /\ \E r \in alive \ {p} : pt[r][va].v /\ pt[r][va].pa = pt'[p][va].pa
    <3>1. PICK r \in alive \ {p} : pt[r][va].v /\ pt[r][va].pa = pt'[p][va].pa
      BY <2>3
    <3>2. va = vb
      BY SMT, <1>1, <3>1 DEF Apart, SamePlace, Maps
    <3> QED  BY <2>3, <3>2
  <2> QED  BY <1>1, <2>1, <2>2, <2>3 DEF NewTable
<1>2. \A q \in alive' : q = p \/ (q \in alive \ {p} /\ pt'[q] = pt[q])
  BY DEF NewTable
<1>3. ASSUME NEW q \in alive', NEW va \in VA, pt'[q][va].v
      PROVE  pt'[q][va].pa \notin Range(free')
  <2>1. CASE q = p
    BY <1>3, <2>1 DEF NewTable
  <2>2. CASE q \in alive \ {p} /\ pt'[q] = pt[q]
    BY <1>3, <2>2 DEF NewTable
  <2> QED  BY <1>2, <2>1, <2>2
<1>4. FreeUnmapped'
  <2>1. \A i \in DOMAIN free' : free'[i] \in Range(free')
    BY DEF Range
  <2> QED  BY SMT, <1>3, <2>1 DEF FreeUnmapped, Maps, NewTable
<1>5. ASSUME NEW q \in alive', NEW r \in alive', NEW va \in VA, NEW vb \in VA,
             pt'[q][va].v, pt'[q][va].pa # NULL, pt'[r][vb].v, pt'[r][vb].pa = pt'[q][va].pa
      PROVE  /\ va = vb /\ (q = r \/ va[1] \in {"heap", "code"})
             /\ pt'[q][va].w /\ pt'[r][vb].w => q = r
  <2>1. CASE q = p /\ r = p
    BY <1>5, <2>1 DEF NewTable
  <2>2. CASE q = p /\ r # p
    <3>1. r \in alive \ {p} /\ pt'[r] = pt[r]
      BY <1>2, <2>2
    <3> QED  BY SMT, <1>1, <1>5, <2>2, <3>1
  <2>3. CASE q # p /\ r = p
    <3>1. q \in alive \ {p} /\ pt'[q] = pt[q]
      BY <1>2, <2>3
    <3>2. vb = va /\ vb[1] \in {"heap", "code"} /\ ~(pt'[p][vb].w /\ pt[q][va].w)
      BY SMT, <1>1, <1>5, <2>3, <3>1
    <3> QED  BY <2>3, <3>1, <3>2
  <2>4. CASE q # p /\ r # p
    <3>1. q \in alive /\ r \in alive /\ pt'[q] = pt[q] /\ pt'[r] = pt[r]
      BY <1>2, <2>4
    <3>2. va = vb /\ (q = r \/ va[1] \in {"heap", "code"})
      BY SMT, <1>5, <3>1 DEF Apart, SamePlace, Maps
    <3>3. pt[q][va].w /\ pt[r][vb].w => q = r
      BY ZenonT(40), <1>5, <3>1 DEF Apart, OneWriter, Maps
    <3> QED  BY <3>1, <3>2, <3>3
  <2> QED  BY <2>1, <2>2, <2>3, <2>4
<1>6. OneWriter'
  BY SMT, <1>5 DEF OneWriter, Maps
<1>7. SamePlace'
  BY SMT, <1>5 DEF SamePlace, Maps
<1> QED  BY <1>4, <1>6, <1>7 DEF Apart

(* A page of the list, or none when it is empty, is mapped at one address. *)
LEMMA ApartAlloc ==
  ASSUME Inv, Apart, Inv', NEW p \in alive, NEW va \in VA,
         pt' = [pt EXCEPT ![p][va] = Mapping(alloc_page, TRUE)],
         free' = Rest, alive' = alive, machine' = machine
  PROVE  Apart'
<1> USE Zenon
<1>1. TypeOK /\ p \in Proc /\ free \in Seq(Page) /\ IsInjective(free)
  BY LiveType DEF Inv, TypeOK, Apart, FreeUnmapped
<1>2. /\ alloc_page \in Page \union {NULL} /\ Mapping(alloc_page, TRUE) \in PTE
      /\ Mapping(alloc_page, TRUE).pa = alloc_page
  BY <1>1, AllocType, Entries
<1>3. /\ pt'[p][va] = Mapping(alloc_page, TRUE)
      /\ \A vb \in VA \ {va} : pt'[p][vb] = pt[p][vb]
      /\ \A q \in Proc \ {p} : pt'[q] = pt[q]
  BY ZenonT(40), <1>1, <1>2, EntrySet
<1>4. pt'[p][va].pa = alloc_page
  BY <1>2, <1>3
<1>5. /\ IsInjective(free') /\ Range(free') \subseteq Range(free)
      /\ alloc_page # NULL => alloc_page \in Range(free)
      /\ alloc_page \notin Range(free')
  <2>1. CASE free = <<>>
    BY SMT, <1>1, <2>1 DEF Rest, alloc_page, Range, NULL
  <2>2. CASE free # <<>>
    <3>1. /\ Head(free) \in Range(free) /\ IsInjective(Tail(free))
          /\ Range(Tail(free)) = Range(free) \ {Head(free)}
      BY <1>1, <2>2, TailQueue
    <3> QED  BY <2>2, <3>1 DEF Rest, alloc_page
  <2> QED  BY <2>1, <2>2
<1> DEFINE Tk == {alloc_page} \ {NULL}
<1>6. \A q \in alive \ {p}, vb \in VA : pt[q][vb].v => pt[q][vb].pa \notin Tk \union Range(free')
  BY ZenonT(40), <1>5, FreeSet
<1>7. ASSUME NEW vb \in VA, pt'[p][vb].v
      PROVE  pt'[p][vb].pa \notin Range(free')
  <2>1. CASE vb = va
    BY <1>4, <1>5, <2>1
  <2>2. CASE vb # va
    <3>1. pt'[p][vb] = pt[p][vb]
      BY <1>3, <2>2
    <3> QED  BY <1>5, <1>7, <3>1, FreeSet
  <2> QED  BY <2>1, <2>2
<1>8. ASSUME NEW vb \in VA, pt'[p][vb].v, pt'[p][vb].pa # NULL
      PROVE  \/ pt'[p][vb].pa \in Tk
             \/ p \in alive /\ pt'[p][vb] = pt[p][vb]
  BY <1>3, <1>4, <1>8
<1>9. ASSUME NEW vb \in VA, NEW vc \in VA,
             pt'[p][vb].v, pt'[p][vb].pa # NULL, pt'[p][vc].v, pt'[p][vb].pa = pt'[p][vc].pa
      PROVE  vb = vc
  <2>1. \A vd \in VA \ {va} : pt'[p][vd].v => pt'[p][vd].pa # alloc_page \/ alloc_page = NULL
    BY SMT, <1>3, <1>5, FreeSet
  <2>2. CASE vb # va /\ vc # va
    BY ZenonT(40), <1>3, <1>9, <2>2, OneAddress
  <2> QED  BY <1>4, <1>9, <2>1, <2>2
<1>10. /\ machine' # "corrupt" /\ alive' \subseteq alive \union {p}
       /\ \A q \in alive \ {p} : pt'[q] = pt[q]
  BY <1>1, <1>3, LiveType DEF Apart, FreeUnmapped
<1> HIDE DEF Tk
<1>11. IsInjective(free') /\ p \in Proc
  BY <1>1, <1>5
<1>12. NewTable(p, Tk)
  BY <1>6, <1>7, <1>8, <1>9, <1>10, <1>11 DEF NewTable
<1> QED  BY <1>12, ApartStep

(* sys_user_allocate_page maps a page that nobody had. *)
LEMMA MallocApart ==
  ASSUME Inv, Apart, Inv', NEW p \in Proc, Malloc(p)
  PROVE  Apart'
<1> USE Zenon
<1>1. PICK i \in 0 .. MaxHeap - 1 :
           /\ p \in alive
           /\ pt' = [pt EXCEPT ![p][Heap(i)] = Mapping(alloc_page, TRUE)]
           /\ free' = Rest
           /\ UNCHANGED <<machine, mem, depth, reloaded, born, alive>>
  BY MallocStep
<1>2. Heap(i) \in VA
  BY Addresses
<1> QED  BY <1>1, <1>2, ApartAlloc

(* handle_user_page_fault maps a page that nobody had. *)
LEMMA StoreFaultApart ==
  ASSUME Inv, Apart, Inv', NEW p \in Proc, NEW va \in Writable, StoreFault(p, va)
  PROVE  Apart'
<1> USE Zenon
<1>1. CASE Stop("fault")
  BY <1>1, ApartSame DEF Stop
<1>2. CASE ~Stop("fault")
  <2>1. /\ p \in alive /\ va \in VA
        /\ pt' = [pt EXCEPT ![p][va] = Mapping(alloc_page, TRUE)]
        /\ free' = Rest
        /\ UNCHANGED <<machine, mem, heaps, depth, reloaded, born, alive>>
    BY <1>2, StoreFaultStep
  <2> QED  BY <2>1, ApartAlloc
<1> QED  BY <1>1, <1>2

(* A store never hits a free page. *)
LEMMA StoreApart ==
  ASSUME Inv, Apart, NEW p \in Proc, NEW va \in VA, NEW x \in Val, Store(p, va, x)
  PROVE  Apart'
<1> USE Zenon
<1>1. p \in alive /\ pt[p][va].v /\ machine # "corrupt"
  BY DEF Store, Running
<1>2. pt[p][va].pa \notin Range(free)
  BY <1>1, FreeSet
<1>3. CASE Stop("fault")
  BY <1>3, ApartSame DEF Stop
<1>4. CASE UNCHANGED <<machine, free, pt, heaps, depth, reloaded, born, alive>>
  BY <1>1, <1>4, ApartSame
<1> QED  BY <1>2, <1>3, <1>4 DEF Store

(* sys_user_free_page of a page that nobody shares frees it for good. *)
LEMMA FreeApart ==
  ASSUME Inv, Apart, NEW p \in Proc, NEW i \in 0 .. MaxHeap - 1,
         Unshared(p, Heap(i)), Free(p, i)
  PROVE  Apart'
<1> USE Zenon
<1> DEFINE pa == lookup_pa(p, Heap(i))
           e == [pt[p][Heap(i)] EXCEPT !.v = FALSE]
<1>1. p \in alive /\ machine = "run" /\ Heap(i) \in VA
  BY FreeStep, Addresses
<1>2. TypeOK /\ free \in Seq(Page) /\ IsInjective(free)
  BY DEF Inv, TypeOK, Apart, FreeUnmapped
<1>3. pa \notin Range(free)
  <2>1. pa # NULL => pt[p][Heap(i)].v /\ pa = pt[p][Heap(i)].pa
    BY <1>1, <1>2, LookupType
  <2>2. NULL \notin Range(free)
    BY <1>2, RangeIn, Entries
  <2> QED  BY <1>1, <2>1, <2>2, FreeSet
<1>4. CASE \E how \in {"fault", "overflow"} : Stop(how)
  BY <1>4, ApartSame DEF Stop
<1>5. CASE /\ pa \in Page \ Range(free)
           /\ pt[p][Heap(i)].v /\ pa = pt[p][Heap(i)].pa
           /\ free' = <<pa>> \o free
           /\ pt' = [pt EXCEPT ![p][Heap(i)] = e]
           /\ UNCHANGED <<machine, mem, top, depth, reloaded, born, alive>>
  <2>1. /\ IsInjective(<<pa>> \o free) /\ Range(<<pa>> \o free) = Range(free) \union {pa}
    <3> HIDE DEF pa
    <3> QED  BY ZenonT(40), <1>2, <1>5, ConsQueue
  <2>2. e \in PTE /\ ~e.v
    <3>1. pt[p][Heap(i)] \in PTE
      BY <1>1, <1>2, LookupType
    <3> QED  BY <3>1 DEF PTE
  <2> HIDE DEF e
  <2>3. /\ pt' \in [Proc -> [VA -> PTE]]
        /\ pt'[p][Heap(i)] = e
        /\ \A vb \in VA \ {Heap(i)} : pt'[p][vb] = pt[p][vb]
        /\ \A q \in Proc \ {p} : pt'[q] = pt[q]
    <3>1. pt' = [pt EXCEPT ![p][Heap(i)] = e]
      BY <1>5
    <3> HIDE DEF pa
    <3> QED  BY <1>1, <1>2, <2>2, <3>1, EntrySet
  <2>4. ~pt'[p][Heap(i)].v
    BY <2>2, <2>3
  <2>5. pa # NULL
    BY SMT, <1>5, Entries
  <2>6. \A q \in alive \ {p}, vb \in VA : pt[q][vb].v => pt[q][vb].pa # pa
    BY DEF Unshared, Maps
  <2> HIDE DEF pa
  <2>7. \A vb \in VA : pt'[p][vb].v => vb # Heap(i) /\ pt'[p][vb] = pt[p][vb] /\ pt[p][vb].v
    BY <2>3, <2>4
  <2>8. ASSUME NEW vb \in VA, pt'[p][vb].v
        PROVE  pt'[p][vb].pa \notin Range(free')
    <3>1. vb # Heap(i) /\ pt'[p][vb] = pt[p][vb] /\ pt[p][vb].v
      BY <2>7, <2>8
    <3>2. pt[p][vb].pa \notin Range(free)
      BY <1>1, <3>1, FreeSet
    <3>3. pt[p][vb].pa # pa
      BY <1>1, <1>5, <2>5, <3>1, OneAddress
    <3> QED  BY <1>5, <2>1, <3>1, <3>2, <3>3
  <2>9. \A q \in alive \ {p}, vb \in VA : pt[q][vb].v => pt[q][vb].pa \notin {} \union Range(free')
    BY <1>5, <2>1, <2>6, FreeSet
  <2>10. \A q \in alive \ {p} : pt'[q] = pt[q]
    BY <1>2, <2>3, LiveType
  <2>11. ASSUME NEW vb \in VA, NEW vc \in VA,
                pt'[p][vb].v, pt'[p][vb].pa # NULL, pt'[p][vc].v, pt'[p][vb].pa = pt'[p][vc].pa
         PROVE  vb = vc
    BY ZenonT(40), <1>1, <2>7, <2>11, OneAddress
  <2>12. NewTable(p, {})
    BY <1>1, <1>5, <2>1, <2>7, <2>8, <2>9, <2>10, <2>11 DEF NewTable
  <2> QED  BY <2>12, ApartStep
<1> HIDE DEF pa, e
<1> QED  BY <1>3, <1>4, <1>5, FreeStep DEF pa, e

(* do_fork shares pages read only and takes new ones for the rest. *)
LEMMA ForkApart ==
  ASSUME Inv, Apart, NEW p \in Proc, Fork(p)
  PROVE  Apart'
<1> USE Zenon
<1>1. CASE \E how \in {"nomem", "remap"} : Stop(how)
  BY <1>1, ApartSame DEF Stop
<1>2. CASE ~ \E how \in {"nomem", "remap"} : Stop(how)
  <2> DEFINE stackPa == free[KPages + 1]
             dataPa == free[KPages + 2]
  <2>1. /\ p \in alive /\ machine = "run"
        /\ Len(free) >= KPages + 2
        /\ born \in Proc /\ born \notin alive
        /\ stackPa \in Page /\ dataPa \in Page
        /\ free' = SubSeq(free, KPages + 3, Len(free))
        /\ alive' = alive \union {born}
        /\ machine' = machine
    BY <1>2, ForkStep
  <2>2. PICK dirty \in SUBSET Uncleared(p) :
          pt' = [pt EXCEPT ![born] =
                   ChildPT(p, Range(freed[p]) \union dirty, stackPa, dataPa)]
    BY <1>2, ForkStep
  <2> DEFINE t == ChildPT(p, Range(freed[p]) \union dirty, stackPa, dataPa)
  <2>3. /\ TypeOK /\ free \in Seq(Page) /\ IsInjective(free)
        /\ Anchored(pt[p]) /\ HeapOK(pt[p], top[p], freed[p])
    BY <2>1 DEF Inv, TypeOK, Apart, FreeUnmapped
  <2>4. /\ Len(free) \in Nat
        /\ KPages + 3 \in 1 .. Len(free) + 1 /\ Len(free) \in (KPages + 3) - 1 .. Len(free)
        /\ KPages + 1 \in (1 .. Len(free)) \ (KPages + 3 .. Len(free))
        /\ KPages + 2 \in (1 .. Len(free)) \ (KPages + 3 .. Len(free))
        /\ KPages + 1 # KPages + 2
        /\ KPages + 3 .. Len(free) \subseteq 1 .. Len(free)
        /\ DOMAIN free = 1 .. Len(free)
    <3>1. Len(free) \in Nat /\ DOMAIN free = 1 .. Len(free)
      BY SMT, <2>3
    <3>2. Len(free) >= KPages + 2 /\ KPages \in Nat
      BY <2>1
    <3> QED  BY SMT, <3>1, <3>2
  <2>5. /\ IsInjective(free') /\ Range(free') = {free[i] : i \in KPages + 3 .. Len(free)}
        /\ \A i \in (1 .. Len(free)) \ (KPages + 3 .. Len(free)) : free[i] \notin Range(free')
    BY ZenonT(40), <2>1, <2>3, <2>4, SliceQueue
  <2>6. /\ Range(free') \subseteq Range(free)
        /\ stackPa \in Range(free) \ Range(free') /\ dataPa \in Range(free) \ Range(free')
        /\ stackPa # dataPa
    <3>1. Range(free') \subseteq Range(free)
      BY <2>4, <2>5 DEF Range
    <3>2. stackPa \notin Range(free') /\ dataPa \notin Range(free')
      BY <2>4, <2>5
    <3>3. stackPa \in Range(free) /\ dataPa \in Range(free)
      BY <2>4 DEF Range
    <3>4. stackPa # dataPa
      BY <2>3, <2>4 DEF IsInjective
    <3> QED  BY <3>1, <3>2, <3>3, <3>4
  <2>7. pt' = [pt EXCEPT ![born] = t]
    BY <2>2
  <2> HIDE DEF stackPa, dataPa, t
  <2>8. \A va \in VA : t[va].v =>
          \/ va = Stack(0) /\ t[va].pa = stackPa
          \/ va = Data(0) /\ t[va].pa = dataPa
          \/ va[1] \in {"heap", "code"} /\ ~t[va].w /\ t[va].pa = lookup_pa(p, va)
    <3>1. ChildOf(t, p, stackPa, dataPa)
      BY <2>1, <2>3, ChildIs DEF t
    <3> QED  BY <3>1 DEF ChildOf
  <2>9. pt'[born] = t /\ \A q \in Proc \ {born} : pt'[q] = pt[q]
    BY <2>1, <2>3, <2>7 DEF TypeOK
  <2>10. \A q \in alive \ {born} : pt'[q] = pt[q]
    BY <2>3, <2>9, LiveType
  <2> DEFINE Tk == {stackPa, dataPa}
  <2>11. \A q \in alive \ {born}, vb \in VA :
           pt[q][vb].v => pt[q][vb].pa \notin Tk \union Range(free')
    BY ZenonT(40), <2>6, FreeSet
  <2>12. ASSUME NEW va \in VA, t[va].v, va[1] \in {"heap", "code"},
                ~t[va].w, t[va].pa = lookup_pa(p, va), t[va].pa # NULL
         PROVE  pt[p][va].v /\ pt[p][va].pa = t[va].pa /\ t[va].pa \notin Range(free)
    <3>1. pt[p][va].v /\ pt[p][va].pa = t[va].pa
      BY <2>3, <2>12, LookupType
    <3> QED  BY <2>1, <3>1, FreeSet
  <2>13. ASSUME NEW va \in VA, t[va].v
         PROVE  t[va].pa \notin Range(free')
    <3>1. NULL \notin Range(free')
      BY <2>3, <2>6, RangeIn, Entries
    <3> QED  BY <2>6, <2>8, <2>12, <2>13, <3>1
  <2>14. ASSUME NEW va \in VA, t[va].v, t[va].pa # NULL
         PROVE  \/ t[va].pa \in Tk
                \/ /\ ~t[va].w /\ va[1] \in {"heap", "code"}
                   /\ \E r \in alive \ {born} : pt[r][va].v /\ pt[r][va].pa = t[va].pa
    <3>1. p \in alive \ {born}
      BY <2>1
    <3> QED  BY <2>8, <2>12, <2>14, <3>1
  <2>15. ASSUME NEW va \in VA, NEW vb \in VA,
                t[va].v, t[va].pa # NULL, t[vb].v, t[va].pa = t[vb].pa
         PROVE  va = vb
    <3> DEFINE own(x) == x[1] \in {"heap", "code"} /\ ~t[x].w /\ t[x].pa = lookup_pa(p, x)
    <3>1. own(va) => pt[p][va].v /\ pt[p][va].pa = t[va].pa /\ t[va].pa \notin Range(free)
      BY <2>12, <2>15
    <3>2. own(vb) => pt[p][vb].v /\ pt[p][vb].pa = t[vb].pa /\ t[vb].pa \notin Range(free)
      BY <2>12, <2>15
    <3>3. CASE own(va) /\ own(vb)
      BY <2>1, <2>15, <3>1, <3>2, <3>3, OneAddress
    <3>4. \/ va = Stack(0) /\ t[va].pa = stackPa
          \/ va = Data(0) /\ t[va].pa = dataPa
          \/ own(va)
      BY <2>8, <2>15
    <3>5. \/ vb = Stack(0) /\ t[vb].pa = stackPa
          \/ vb = Data(0) /\ t[vb].pa = dataPa
          \/ own(vb)
      BY <2>8, <2>15
    <3> HIDE DEF own
    <3> QED  BY SMT, <2>6, <2>15, <3>1, <3>2, <3>3, <3>4, <3>5
  <2> HIDE DEF Tk
  <2>16. NewTable(born, Tk)
    BY <2>1, <2>5, <2>9, <2>10, <2>11, <2>13, <2>14, <2>15 DEF NewTable
  <2> QED  BY <2>16, ApartStep
<1> QED  BY <1>1, <1>2

(* do_exec takes pages that nobody had. *)
LEMMA ExecApart ==
  ASSUME Inv, Apart, NEW p \in Proc, Exec(p)
  PROVE  Apart'
<1> USE Zenon
<1>1. CASE Stop("nomem")
  BY <1>1, ApartSame DEF Stop
<1>2. CASE ~Stop("nomem")
  <2>1. p \in alive /\ machine = "run"
    BY ExecStep
  <2>2. PICK s \in NewSpaces(free) :
                 /\ s.rest # <<>>
                 /\ free' = Tail(s.rest)
                 /\ pt' = [pt EXCEPT ![p] = [s.pt EXCEPT ![Heap(0)] = Mapping(Head(s.rest), TRUE)]]
                 /\ UNCHANGED <<machine, born, alive>>
    BY <1>2, ExecStep
  <2> DEFINE t == [s.pt EXCEPT ![Heap(0)] = Mapping(Head(s.rest), TRUE)]
             h == Head(s.rest)
  <2>3. TypeOK /\ free \in Seq(Page) /\ IsInjective(free)
    BY DEF Inv, TypeOK, Apart, FreeUnmapped
  <2>4. /\ s.rest \in Seq(Page) /\ IsInjective(s.rest) /\ Range(s.rest) \subseteq Range(free)
        /\ \A va \in VA : s.pt[va].v => s.pt[va].pa \in Range(free) \ Range(s.rest)
        /\ \A va, vb \in VA :
             s.pt[va].v /\ s.pt[vb].v /\ s.pt[va].pa = s.pt[vb].pa => va = vb
    BY <2>3, NewSpacesApart
  <2>5. /\ h \in Range(s.rest) /\ IsInjective(free') /\ Range(free') = Range(s.rest) \ {h}
    BY <2>2, <2>4, TailQueue
  <2>6. /\ t[Heap(0)] = Mapping(h, TRUE) /\ h \in Page
        /\ \A va \in VA \ {Heap(0)} : t[va] = s.pt[va]
    BY ZenonT(40), <2>2, <2>3, ExecSpace
  <2>7. pt' = [pt EXCEPT ![p] = t]
    BY <2>2
  <2> HIDE DEF t, h
  <2>8. pt'[p] = t /\ \A q \in Proc \ {p} : pt'[q] = pt[q]
    BY <2>3, <2>7 DEF TypeOK
  <2>9. \A q \in alive \ {p} : pt'[q] = pt[q]
    BY <2>3, <2>8, LiveType
  <2>10. t[Heap(0)].pa = h
    BY <2>6, Fresh
  <2>11. ASSUME NEW va \in VA, t[va].v
         PROVE  /\ va = Heap(0) => t[va].pa = h
                /\ va # Heap(0) => s.pt[va].v /\ t[va].pa = s.pt[va].pa
                                   /\ t[va].pa \in Range(free) \ Range(s.rest)
    BY <2>4, <2>6, <2>10, <2>11
  <2>12. ASSUME NEW va \in VA, t[va].v
         PROVE  t[va].pa \in Range(free) /\ t[va].pa \notin Range(free')
    BY ZenonT(40), <2>4, <2>5, <2>11, <2>12
  <2>13. ASSUME NEW va \in VA, NEW vb \in VA, t[va].v, t[vb].v, t[va].pa = t[vb].pa
         PROVE  va = vb
    BY ZenonT(40), <2>4, <2>5, <2>11, <2>13
  <2>14. \A q \in alive \ {p}, vb \in VA :
           pt[q][vb].v => pt[q][vb].pa \notin Range(free) \union Range(free')
    BY <2>4, <2>5, FreeSet
  <2>15. machine' # "corrupt" /\ alive' \subseteq alive \union {p}
    BY <2>1, <2>2
  <2>16. NewTable(p, Range(free))
    BY <2>5, <2>8, <2>9, <2>12, <2>13, <2>14, <2>15 DEF NewTable
  <2> QED  BY <2>16, ApartStep
<1> QED  BY <1>1, <1>2

(* sys_user_exec1 over an image that nobody shares gives back only own pages. *)
LEMMA Exec1Apart ==
  ASSUME Inv, Apart, NEW p \in Proc, Unshared(p, Code(0)), Exec1(p)
  PROVE  Apart'
<1> USE Zenon
<1> DEFINE x == lookup_pa(p, Code(0))
           y == lookup_pa(p, Data(0))
<1>1. /\ p \in alive /\ machine = "run"
      /\ x \in Page /\ x = pt[p][Code(0)].pa /\ y \in Page /\ y = pt[p][Data(0)].pa
      /\ Code(0) \in VA /\ Data(0) \in VA
  BY Exec1Step, Addresses
<1>2. pt[p][Code(0)].v /\ pt[p][Data(0)].v
  BY <1>1 DEF Inv, Anchored
<1>3. x \notin Range(free) /\ y \notin Range(free)
  BY <1>1, <1>2, FreeSet
<1>4. x # NULL /\ y # NULL /\ x # y
  <2>1. x # NULL /\ y # NULL
    BY <1>1, Entries
  <2>2. Code(0) # Data(0)
    BY ZenonT(40), Addresses
  <2> QED  BY <1>1, <1>2, <2>1, <2>2, OneAddress
<1>5. CASE Stop("remap")
  BY <1>5, ApartSame DEF Stop
<1>6. CASE ~Stop("remap")
  <2>1. UNCHANGED <<machine, heaps, depth, born, alive>>
    BY <1>3, <1>6, Exec1Step
  <2>2. PICK c \in TakeImage(<<x>> \o free) :
          \E d \in TakeImage(<<y>> \o c.rest) :
            /\ free' = d.rest
            /\ pt' = [pt EXCEPT ![p] = Reload(pt[p], c, d)]
            /\ Loaded(Range(c.pages) \union Range(d.pages))
    BY <1>3, <1>6, Exec1Step
  <2>3. PICK d \in TakeImage(<<y>> \o c.rest) :
            free' = d.rest /\ pt' = [pt EXCEPT ![p] = Reload(pt[p], c, d)]
    BY <2>2
  <2>4. /\ TypeOK /\ free \in Seq(Page) /\ IsInjective(free)
        /\ pt[p] \in [VA -> PTE] /\ Anchored(pt[p])
    BY <1>1, LiveType DEF Inv, TypeOK, Apart, FreeUnmapped
  <2>5. \A q \in alive \ {p}, vb \in VA : pt[q][vb].v => pt[q][vb].pa # x
    BY DEF Unshared, Maps
  <2>6. ASSUME NEW q \in alive \ {p}, NEW vb \in VA, pt[q][vb].v
        PROVE  pt[q][vb].pa # y
    <3>1. Data(0)[1] = "data"
      BY Addresses
    <3> QED  BY SMT, <1>1, <1>2, <1>4, <2>6, <3>1 DEF Apart, SamePlace, Maps
  <2> HIDE DEF x, y
  <2>7. /\ <<x>> \o free \in Seq(Page) /\ IsInjective(<<x>> \o free)
        /\ Range(<<x>> \o free) = Range(free) \union {x}
    BY ZenonT(40), <1>1, <1>3, <2>4, ConsQueue
  <2>8. /\ c.rest \in Seq(Page) /\ IsInjective(c.rest)
        /\ \A i \in 0 .. ImagePages - 1 : c.pages[i + 1] \in (Range(free) \union {x}) \ Range(c.rest)
        /\ \A i, j \in 0 .. ImagePages - 1 : c.pages[i + 1] = c.pages[j + 1] => i = j
        /\ Range(c.rest) \subseteq Range(free) \union {x}
    BY <2>7, Taken
  <2>9. y \notin Range(c.rest)
    BY <1>3, <1>4, <2>8
  <2>10. /\ <<y>> \o c.rest \in Seq(Page) /\ IsInjective(<<y>> \o c.rest)
         /\ Range(<<y>> \o c.rest) = Range(c.rest) \union {y}
    BY SMT, <1>1, <2>8, <2>9, ConsQueue
  <2>11. /\ d.rest \in Seq(Page) /\ IsInjective(d.rest)
         /\ \A i \in 0 .. ImagePages - 1 : d.pages[i + 1] \in (Range(c.rest) \union {y}) \ Range(d.rest)
         /\ \A i, j \in 0 .. ImagePages - 1 : d.pages[i + 1] = d.pages[j + 1] => i = j
         /\ Range(d.rest) \subseteq Range(c.rest) \union {y}
    BY ZenonT(40), <2>10, Taken
  <2>12. \A i \in 0 .. ImagePages - 1 : c.pages[i + 1] \in Page /\ d.pages[i + 1] \in Page
    BY <2>7, <2>10, TakenType
  <2> DEFINE t == Reload(pt[p], c, d)
             Tk == Range(free) \union {x, y}
  <2>13. /\ \A va \in VA : va[1] \notin {"code", "data"} => t[va] = pt[p][va]
         /\ \A va \in VA : va[1] = "code" /\ t[va].v =>
              va[2] \in 0 .. ImagePages - 1 /\ va = Code(va[2]) /\ t[va].pa = c.pages[va[2] + 1]
         /\ \A va \in VA : va[1] = "data" /\ t[va].v =>
              va[2] \in 0 .. ImagePages - 1 /\ va = Data(va[2]) /\ t[va].pa = d.pages[va[2] + 1]
    BY SMT, <2>4, <2>12, ReloadIs
  <2>14. pt' = [pt EXCEPT ![p] = t] /\ free' = d.rest
    BY <2>3
  <2> HIDE DEF t
  <2>15. pt'[p] = t /\ \A q \in Proc \ {p} : pt'[q] = pt[q]
    BY <2>4, <2>14 DEF TypeOK
  <2>16. \A q \in alive \ {p} : pt'[q] = pt[q]
    BY <2>4, <2>15, LiveType
  <2>17. \A q \in alive \ {p}, vb \in VA : pt[q][vb].v => pt[q][vb].pa \notin Tk \union Range(free')
    <3>1. Range(free') \subseteq Tk
      BY <2>8, <2>11, <2>14
    <3> QED  BY <2>5, <2>6, <3>1, FreeSet
  <2> DEFINE old(va) == /\ va[1] \notin {"code", "data"} /\ t[va] = pt[p][va]
                        /\ t[va].pa \notin Tk
             code(va) == /\ va[1] = "code" /\ va[2] \in 0 .. ImagePages - 1
                         /\ va = Code(va[2]) /\ t[va].pa = c.pages[va[2] + 1]
             data(va) == /\ va[1] = "data" /\ va[2] \in 0 .. ImagePages - 1
                         /\ va = Data(va[2]) /\ t[va].pa = d.pages[va[2] + 1]
  <2>18. ASSUME NEW va \in VA, t[va].v
         PROVE  old(va) \/ code(va) \/ data(va)
    <3>1. CASE va[1] \notin {"code", "data"}
      <4>1. t[va] = pt[p][va]
        BY <2>13, <3>1
      <4>2. pt[p][va].pa \notin Range(free)
        BY <1>1, <2>18, <4>1, FreeSet
      <4>3. va # Code(0) /\ va # Data(0)
        BY <3>1, Addresses
      <4>4. pt[p][va].pa # x /\ pt[p][va].pa # y
        BY <1>1, <1>2, <1>4, <2>18, <4>1, <4>3, OneAddress
      <4> QED  BY <3>1, <4>1, <4>2, <4>4
    <3>2. CASE va[1] = "code"
      BY <2>13, <2>18, <3>2
    <3>3. CASE va[1] = "data"
      BY <2>13, <2>18, <3>3
    <3> QED  BY <3>1, <3>2, <3>3
  <2>19. \A va \in VA : code(va) =>
           /\ t[va].pa \in Range(free) \union {x}
           /\ t[va].pa \notin Range(c.rest) \union {y}
    BY ZenonT(40), <1>3, <1>4, <2>8
  <2>20. \A va \in VA : data(va) =>
           t[va].pa \in Range(c.rest) \union {y} /\ t[va].pa \notin Range(d.rest)
    BY <2>11
  <2>21. \A va, vb \in VA : code(va) /\ code(vb) /\ t[va].pa = t[vb].pa => va = vb
    BY <2>8
  <2>22. \A va, vb \in VA : data(va) /\ data(vb) /\ t[va].pa = t[vb].pa => va = vb
    BY <2>11
  <2>23. \A va \in VA : /\ old(va) => t[va] = pt[p][va] /\ t[va].pa \notin Tk
                        /\ data(va) => t[va].pa \in Tk
                        /\ code(va) => t[va].pa \in Tk
    BY <2>8, <2>19, <2>20
  <2> HIDE DEF old, code, data
  <2>24. ASSUME NEW va \in VA, t[va].v
         PROVE  t[va].pa \notin Range(free')
    <3>1. Range(free') \subseteq Range(c.rest) \union {y} /\ Range(free') \subseteq Tk
      BY <2>8, <2>11, <2>14
    <3> HIDE DEF Tk
    <3> QED  BY <2>14, <2>18, <2>19, <2>20, <2>23, <2>24, <3>1
  <2>25. ASSUME NEW va \in VA, t[va].v
         PROVE  t[va].pa \in Tk \/ (p \in alive /\ t[va] = pt[p][va])
    BY <1>1, <2>18, <2>23, <2>25
  <2>26. ASSUME NEW va \in VA, NEW vb \in VA,
                t[va].v, t[va].pa # NULL, t[vb].v, t[va].pa = t[vb].pa
         PROVE  va = vb
    <3> HIDE DEF Tk
    <3>1. (old(va) \/ code(va) \/ data(va)) /\ (old(vb) \/ code(vb) \/ data(vb))
      BY <2>18, <2>26
    <3>2. CASE old(va) /\ old(vb)
      <4>1. t[va] = pt[p][va] /\ t[vb] = pt[p][vb]
        BY <2>23, <3>2
      <4> QED  BY <1>1, <2>26, <4>1, OneAddress
    <3> QED  BY <2>19, <2>20, <2>21, <2>22, <2>23, <2>26, <3>1, <3>2
  <2>27. machine' # "corrupt" /\ alive' \subseteq alive \union {p} /\ IsInjective(free')
    BY <1>1, <2>1, <2>11, <2>14
  <2> HIDE DEF Tk
  <2>28. NewTable(p, Tk)
    BY <2>15, <2>16, <2>17, <2>24, <2>25, <2>26, <2>27 DEF NewTable
  <2> QED  BY <2>28, ApartStep
<1> QED  BY <1>5, <1>6

(* The first program has pages of its own. *)
LEMMA InitApart ==
  ASSUME Init
  PROVE  Apart
<1>1. PICK s \in NewSpaces(InitialList) :
    /\ machine = "run"
    /\ free = s.rest
    /\ pt = [p \in Proc |-> IF p = 0 THEN s.pt ELSE [va \in VA |-> Unmapped]]
    /\ alive = {0}
  BY Zenon DEF Init
<1>2. /\ IsInjective(s.rest)
      /\ \A va \in VA : s.pt[va].v => s.pt[va].pa \notin Range(s.rest)
      /\ \A va, vb \in VA : s.pt[va].v /\ s.pt[vb].v /\ s.pt[va].pa = s.pt[vb].pa => va = vb
  BY Zenon, InitialListIs, NewSpacesApart
<1>3. pt[0] = s.pt
  BY <1>1 DEF Proc
<1>4. FreeUnmapped
  <2>1. \A i \in DOMAIN free : free[i] \in Range(s.rest)
    BY Zenon, <1>1 DEF Range
  <2> QED  BY <1>1, <1>2, <1>3, <2>1 DEF FreeUnmapped, Maps
<1>5. OneWriter
  BY SMTT(30), <1>1, <1>2, <1>3 DEF OneWriter, Maps
<1>6. SamePlace
  BY <1>1, <1>2, <1>3 DEF SamePlace, Maps
<1> QED  BY Zenon, <1>4, <1>5, <1>6 DEF Apart

(* All steps but exec1 and free keep owners apart. *)
LEMMA OrdinaryApart ==
  ASSUME Inv, Inv', Apart, NEW p \in Proc, Ordinary(p)
  PROVE  Apart'
<1> USE Zenon
<1>1. CASE Malloc(p)
  BY <1>1, MallocApart
<1>2. CASE Fork(p)
  BY <1>2, ForkApart
<1>3. CASE Exec(p)
  BY <1>3, ExecApart
<1>4. CASE Exit(p)
  BY <1>4, ApartSame DEF Exit, Running
<1>5. CASE MoveStack(p)
  BY <1>5, ApartSame DEF MoveStack, Running
<1>6. CASE \E va \in Writable : StoreFault(p, va) \/ \E x \in Val : Store(p, va, x)
  <2>1. PICK va \in Writable : StoreFault(p, va) \/ \E x \in Val : Store(p, va, x)
    BY <1>6
  <2>2. va \in VA
    BY DEF Writable
  <2> QED  BY <2>1, <2>2, StoreFaultApart, StoreApart
<1> QED  BY <1>1, <1>2, <1>3, <1>4, <1>5, <1>6 DEF Ordinary

(* Every step under the discipline keeps owners apart. *)
LEMMA ApartNext ==
  ASSUME Inv, Apart, [NextUnshared]_vars
  PROVE  Inv' /\ Apart'
<1> USE Zenon
<1>1. CASE NextUnshared
  <2>1. PICK p \in Proc :
          \/ Ordinary(p)
          \/ Unshared(p, Code(0)) /\ Exec1(p)
          \/ \E i \in 0 .. MaxHeap - 1 : Unshared(p, Heap(i)) /\ Free(p, i)
    BY <1>1 DEF NextUnshared
  <2>2. Inv'
    BY <2>1, OrdinaryInv, Exec1Inv, FreeInv
  <2> QED  BY <2>1, <2>2, OrdinaryApart, Exec1Apart, FreeApart
<1>2. CASE UNCHANGED vars
  <2>1. machine' # "corrupt" /\ free' = free /\ pt' = pt /\ alive' \subseteq alive
    BY <1>2 DEF vars, Apart, FreeUnmapped
  <2> QED  BY <1>2, <2>1, InvStutter, ApartSame
<1> QED  BY <1>1, <1>2

(***************************************************************************)
(* While the processes keep the discipline, the free list never holds a    *)
(* page twice nor a page that a live process has mapped, and no page of    *)
(* the list is written or freed: malloc, copy on write, fork and exec take *)
(* pages off the list before they map them, free unmaps before it puts one *)
(* back.  Proved for any number of pages and processes.                    *)
(***************************************************************************)
THEOREM FreeListSound == UnsharedSpec => []FreeUnmapped
<1>1. Apart => FreeUnmapped
  BY Zenon DEF Apart
<1>2. Init => Inv /\ Apart
  BY Zenon, InitInv, InitApart
<1> QED  BY <1>1, <1>2, ApartNext, PTL DEF UnsharedSpec

(***************************************************************************)
(* While the processes keep the discipline, a page that can be written at  *)
(* one address cannot be written at another: what do_fork shares is read   *)
(* only in the child, and handle_user_page_fault gives a writer a page of  *)
(* its own.                                                                *)
(***************************************************************************)
THEOREM CopyOnWriteSound == UnsharedSpec => []OneWriter
<1>1. Apart => OneWriter
  BY Zenon DEF Apart
<1>2. Init => Inv /\ Apart
  BY Zenon, InitInv, InitApart
<1> QED  BY <1>1, <1>2, ApartNext, PTL DEF UnsharedSpec
=============================================================================
