---------------------------- MODULE NucleusProofs ----------------------------
(****************************************************************************)
(* What the queue operations of ProcQ return, element by element, and that  *)
(* the operations of Asl keep the types of its variables and the accounting *)
(* of the semaphore descriptors.  With that, that Nucleus keeps its types   *)
(* and that accounting; that its lists keep their discipline, and the       *)
(* processes that run are live ones, when nobody terminates an ancestor of  *)
(* the caller.  Then the order of the ready queue, aging, idle and halting. *)
(****************************************************************************)
EXTENDS Nucleus, SequenceTheorems, WellFoundedInduction, FiniteSetTheorems, TLAPS

------------------------------------------------------------------------------
(* The process queues and the semaphore descriptors.                        *)

(* The library's Min is a least element of a set of positions.              *)
LEMMA MinOfPositions ==
  ASSUME NEW I, I \subseteq Nat, I # {}
  PROVE  Min(I) \in I /\ \A j \in I : Min(I) <= j
<1>. DEFINE LT == {ss \in Nat \X Nat : ss[1] < ss[2]}
<1>1. IsWellFoundedOn(LT, Nat)
  BY NatLessThanWellFounded DEF OpToRel
<1>2. PICK x \in I : \A y \in I : ~ (<<y, x>> \in LT)
  <2>. HIDE DEF LT
  <2>. QED
    BY <1>1, WFMin
<1>3. \A y \in I : x <= y
  <2>1. \A m, n \in Nat : m < n => <<m, n>> \in LT
    OBVIOUS
  <2>. HIDE DEF LT
  <2>2. ASSUME NEW y \in I PROVE ~ (y < x)
    BY <1>2, <2>1
  <2>. QED
    BY <2>2
<1>. QED
  BY <1>3 DEF Min

(* The first position whose element is in a set T, 0 if there is none.      *)
FirstIn(q, T) ==
  LET I == {i \in 1 .. Len(q) : q[i] \in T} IN IF I # {} THEN Min(I) ELSE 0

LEMMA FirstPosition ==
  ASSUME NEW S, NEW q \in Seq(S), NEW T
  PROVE  /\ FirstIn(q, T) \in 0 .. Len(q)
         /\ FirstIn(q, T) # 0 => q[FirstIn(q, T)] \in T
         /\ \A j \in 1 .. Len(q) : FirstIn(q, T) = 0 \/ j < FirstIn(q, T) => q[j] \notin T
<1>. DEFINE I == {i \in 1 .. Len(q) : q[i] \in T}
<1>1. Len(q) \in Nat
  BY LenProperties
<1>2. CASE I = {}
  BY <1>1, <1>2 DEF FirstIn
<1>3. CASE I # {}
  <2>1. I \subseteq Nat
    BY <1>1
  <2>2. Min(I) \in I /\ \A j \in I : Min(I) <= j
    <3>. HIDE DEF I
    <3>. QED
      BY <2>1, <1>3, MinOfPositions
  <2>3. FirstIn(q, T) = Min(I)
    BY <1>3 DEF FirstIn
  <2>4. \A j \in 1 .. Len(q) : j < Min(I) => q[j] \notin T
    BY <2>1, <2>2, <1>1
  <2>5. Min(I) \in 1 .. Len(q) /\ q[Min(I)] \in T
    BY <2>2
  <2>. HIDE DEF I
  <2>. QED
    BY <1>1, <2>3, <2>4, <2>5
<1>. QED
  BY <1>2, <1>3

(* A PCB inserted at position i moves the elements from i on one place.     *)
LEMMA InsertAtElements ==
  ASSUME NEW S, NEW q \in Seq(S), NEW p \in S, NEW i \in 1 .. Len(q)
  PROVE  /\ InsertAt(q, i, p) \in Seq(S)
         /\ Len(InsertAt(q, i, p)) = Len(q) + 1
         /\ \A j \in 1 .. Len(q) + 1 : InsertAt(q, i, p)[j] =
              IF j < i THEN q[j] ELSE IF j = i THEN p ELSE q[j - 1]
<1>. DEFINE a == SubSeq(q, 1, i - 1)
            b == SubSeq(q, i, Len(q))
            c == a \o <<p>>
<1>1. Len(q) \in Nat /\ q \in [1 .. Len(q) -> S]
  BY LenProperties
<1>2. a \in Seq(S) /\ Len(a) = i - 1 /\ \A j \in 1 .. i - 1 : a[j] = q[j]
  BY <1>1, SubSeqProperties
<1>3. b \in Seq(S) /\ Len(b) = Len(q) - i + 1 /\ \A j \in 1 .. Len(q) - i + 1 : b[j] = q[i + j - 1]
  BY <1>1, SubSeqProperties
<1>4. <<p>> \in Seq(S) /\ Len(<<p>>) = 1 /\ <<p>>[1] = p
  OBVIOUS
<1>. HIDE DEF a, b
<1>5. /\ c \in Seq(S)
      /\ Len(c) = i
      /\ \A j \in 1 .. i : c[j] = IF j <= i - 1 THEN a[j] ELSE <<p>>[j - (i - 1)]
  BY <1>1, <1>2, <1>4, ConcatProperties
<1>. HIDE DEF c
<1>6. /\ c \o b \in Seq(S)
      /\ Len(c \o b) = Len(c) + Len(b)
      /\ \A j \in 1 .. Len(c) + Len(b) :
           (c \o b)[j] = IF j <= Len(c) THEN c[j] ELSE b[j - Len(c)]
  BY <1>3, <1>5, ConcatProperties
<1>7. InsertAt(q, i, p) = c \o b
  BY DEF InsertAt, a, b, c
<1>8. Len(c) + Len(b) = Len(q) + 1 /\ Len(c) = i
  BY <1>1, <1>3, <1>5
<1>. DEFINE d == c \o b
<1>9. ASSUME NEW j \in 1 .. Len(q) + 1
      PROVE  d[j] = IF j < i THEN q[j] ELSE IF j = i THEN p ELSE q[j - 1]
  <2>0. d[j] = IF j <= i THEN c[j] ELSE b[j - i]
    BY <1>6, <1>8
  <2>. HIDE DEF d
  <2>1. CASE j < i
    BY <2>0, <2>1, <1>1, <1>2, <1>5
  <2>2. CASE j = i
    BY <2>0, <2>2, <1>1, <1>4, <1>5
  <2>3. CASE j > i
    <3>1. j - i \in 1 .. Len(q) - i + 1 /\ i + (j - i) - 1 = j - 1
      BY <2>3, <1>1
    <3>. QED
      BY <2>0, <2>3, <3>1, <1>1, <1>3
  <2>4. j < i \/ j = i \/ j > i
    BY <1>1
  <2>. QED
    BY <2>1, <2>2, <2>3, <2>4
<1>. QED
  BY <1>6, <1>7, <1>8, <1>9

(* insertProcQ puts p at the position i it stops at: nothing before i has a *)
(* strictly lower priority than p, and the element it goes in front of has. *)
LEMMA InsertProcQ ==
  ASSUME NEW S, NEW q \in Seq(S), NEW p \in S, NEW prio
  PROVE  \E i \in 1 .. Len(q) + 1 :
           /\ insertProcQ(q, p, prio) \in Seq(S)
           /\ Len(insertProcQ(q, p, prio)) = Len(q) + 1
           /\ \A j \in 1 .. Len(q) + 1 : insertProcQ(q, p, prio)[j] =
                IF j < i THEN q[j] ELSE IF j = i THEN p ELSE q[j - 1]
           /\ \A j \in 1 .. i - 1 : ~ (prio[q[j]] < prio[p])
           /\ i <= Len(q) => prio[q[i]] < prio[p]
<1>. DEFINE T == {r \in S : prio[r] < prio[p]}
            f == FirstIn(q, T)
<1>1. Len(q) \in Nat /\ q \in [1 .. Len(q) -> S]
  BY LenProperties
<1>2. {i \in 1 .. Len(q) : prio[q[i]] < prio[p]} = {i \in 1 .. Len(q) : q[i] \in T}
  BY <1>1
<1>3. insertProcQ(q, p, prio) = IF f = 0 THEN Append(q, p) ELSE InsertAt(q, f, p)
  BY <1>2 DEF insertProcQ, SelectInSeq, FirstIn
<1>4. /\ f \in 0 .. Len(q)
      /\ f # 0 => q[f] \in T
      /\ \A j \in 1 .. Len(q) : f = 0 \/ j < f => q[j] \notin T
  <2>. HIDE DEF T
  <2>. QED
    BY FirstPosition
<1>5. \A j \in 1 .. Len(q) : q[j] \notin T => ~ (prio[q[j]] < prio[p])
  BY <1>1
<1>6. f # 0 => prio[q[f]] < prio[p]
  BY <1>4
<1>. HIDE DEF f, T
<1>7. CASE f = 0
  <2>1. \A j \in 1 .. Len(q) + 1 : Append(q, p)[j] =
          IF j < Len(q) + 1 THEN q[j] ELSE IF j = Len(q) + 1 THEN p ELSE q[j - 1]
    BY <1>1, AppendProperties
  <2>2. Append(q, p) \in Seq(S) /\ Len(Append(q, p)) = Len(q) + 1
    BY AppendProperties
  <2>3. \A j \in 1 .. (Len(q) + 1) - 1 : ~ (prio[q[j]] < prio[p])
    BY <1>1, <1>4, <1>5, <1>7
  <2>. QED
    BY <1>1, <1>3, <1>7, <2>1, <2>2, <2>3
<1>8. CASE f # 0
  <2>1. f \in 1 .. Len(q)
    BY <1>1, <1>4, <1>8
  <2>2. \A j \in 1 .. f - 1 : ~ (prio[q[j]] < prio[p])
    BY <1>1, <1>4, <1>5, <2>1
  <2>3. /\ insertProcQ(q, p, prio) \in Seq(S)
        /\ Len(insertProcQ(q, p, prio)) = Len(q) + 1
        /\ \A j \in 1 .. Len(q) + 1 : insertProcQ(q, p, prio)[j] =
             IF j < f THEN q[j] ELSE IF j = f THEN p ELSE q[j - 1]
    BY <1>3, <1>8, <2>1, InsertAtElements
  <2>4. f \in 1 .. Len(q) + 1
    BY <1>1, <2>1
  <2>. QED
    BY <1>6, <1>8, <2>2, <2>3, <2>4
<1>. QED
  BY <1>7, <1>8

(* outProcQ takes out the one element it finds and moves the following ones *)
(* up; a queue without p is left alone.                                     *)
LEMMA OutProcQ ==
  ASSUME NEW S, NEW q \in Seq(S), NEW p, getProc(q, p)
  PROVE  \E i \in 1 .. Len(q) :
           /\ q[i] = p
           /\ outProcQ(q, p) \in Seq(S)
           /\ Len(outProcQ(q, p)) = Len(q) - 1
           /\ \A j \in 1 .. Len(q) - 1 : outProcQ(q, p)[j] = IF j < i THEN q[j] ELSE q[j + 1]
<1>. DEFINE f == FirstIn(q, {p})
            a == SubSeq(q, 1, f - 1)
            b == SubSeq(q, f + 1, Len(q))
            d == a \o b
<1>1. Len(q) \in Nat /\ q \in [1 .. Len(q) -> S] /\ DOMAIN q = 1 .. Len(q)
  BY LenProperties
<1>2. {i \in 1 .. Len(q) : q[i] = p} = {i \in 1 .. Len(q) : q[i] \in {p}}
  OBVIOUS
<1>3. \E i \in 1 .. Len(q) : q[i] = p
  BY <1>1 DEF getProc
<1>4. outProcQ(q, p) = d
  BY <1>2, <1>3 DEF outProcQ, RemoveFirst, RemoveAt, SelectInSeq, FirstIn
<1>5. f \in 1 .. Len(q) /\ q[f] = p
  <2>1. /\ f \in 0 .. Len(q)
        /\ f # 0 => q[f] \in {p}
        /\ \A j \in 1 .. Len(q) : f = 0 \/ j < f => q[j] \notin {p}
    BY FirstPosition
  <2>. HIDE DEF f
  <2>. QED
    BY <1>1, <1>3, <2>1
<1>. HIDE DEF f
<1>6. a \in Seq(S) /\ Len(a) = f - 1 /\ \A j \in 1 .. f - 1 : a[j] = q[j]
  BY <1>1, <1>5, SubSeqProperties
<1>7. b \in Seq(S) /\ Len(b) = Len(q) - f /\ \A j \in 1 .. Len(q) - f : b[j] = q[f + j]
  <2>1. /\ b \in Seq(S)
        /\ Len(b) = IF f + 1 <= Len(q) THEN Len(q) - (f + 1) + 1 ELSE 0
        /\ \A j \in 1 .. Len(q) - (f + 1) + 1 : b[j] = q[f + 1 + j - 1]
    BY <1>1, <1>5, SubSeqProperties
  <2>. HIDE DEF b
  <2>2. Len(b) = Len(q) - f
    <3>1. f \in Nat /\ f <= Len(q) /\ Len(q) \in Nat
      BY <1>1, <1>5
    <3>2. Len(b) = IF f + 1 <= Len(q) THEN Len(q) - (f + 1) + 1 ELSE 0
      BY <2>1
    <3>. QED
      BY <3>1, <3>2
  <2>3. ASSUME NEW j \in 1 .. Len(q) - f PROVE b[j] = q[f + j]
    <3>1. j \in 1 .. Len(q) - (f + 1) + 1 /\ f + 1 + j - 1 = f + j
      BY <1>1, <1>5
    <3>. QED
      BY <2>1, <3>1
  <2>. QED
    BY <2>1, <2>2, <2>3
<1>. HIDE DEF a, b
<1>8. /\ d \in Seq(S)
      /\ Len(d) = Len(a) + Len(b)
      /\ \A j \in 1 .. Len(a) + Len(b) : d[j] = IF j <= Len(a) THEN a[j] ELSE b[j - Len(a)]
  BY <1>6, <1>7, ConcatProperties
<1>. HIDE DEF d
<1>9. Len(a) + Len(b) = Len(q) - 1
  BY <1>1, <1>5, <1>6, <1>7
<1>10. ASSUME NEW j \in 1 .. Len(q) - 1
       PROVE  d[j] = IF j < f THEN q[j] ELSE q[j + 1]
  <2>0. d[j] = IF j <= f - 1 THEN a[j] ELSE b[j - (f - 1)]
    BY <1>6, <1>8, <1>9
  <2>1. CASE j < f
    BY <2>0, <2>1, <1>1, <1>5, <1>6
  <2>2. CASE ~ (j < f)
    <3>1. j - (f - 1) \in 1 .. Len(q) - f /\ f + (j - (f - 1)) = j + 1
      BY <2>2, <1>1, <1>5
    <3>2. b[j - (f - 1)] = q[j + 1]
      BY <3>1, <1>7
    <3>. QED
      BY <2>0, <2>2, <3>2, <1>1, <1>5
  <2>. QED
    BY <2>1, <2>2
<1>. QED
  BY <1>4, <1>5, <1>8, <1>9, <1>10

LEMMA OutProcQAbsent ==
  ASSUME NEW S, NEW q \in Seq(S), NEW p, ~ getProc(q, p)
  PROVE  outProcQ(q, p) = q
<1>1. DOMAIN q = 1 .. Len(q)
  BY LenProperties
<1>. QED
  BY <1>1 DEF getProc, outProcQ, RemoveFirst

------------------------------------------------------------------------------
(* The same, as facts about which PCBs a queue holds and that it holds each *)
(* of them once.                                                            *)
LEMMA GetProcLen ==
  ASSUME NEW S, NEW q \in Seq(S), NEW p
  PROVE  getProc(q, p) <=> \E i \in 1 .. Len(q) : q[i] = p
  BY LenProperties DEF getProc

LEMMA InjectiveLen ==
  ASSUME NEW S, NEW q \in Seq(S)
  PROVE  IsInjective(q) <=> \A i, j \in 1 .. Len(q) : q[i] = q[j] => i = j
  BY LenProperties DEF IsInjective

LEMMA InsertProcQMembers ==
  ASSUME NEW S, NEW q \in Seq(S), NEW p \in S, NEW prio
  PROVE  /\ insertProcQ(q, p, prio) \in Seq(S)
         /\ \A r : getProc(insertProcQ(q, p, prio), r) <=> r = p \/ getProc(q, r)
         /\ IsInjective(q) /\ ~ getProc(q, p) => IsInjective(insertProcQ(q, p, prio))
<1>. DEFINE t == insertProcQ(q, p, prio)
<1>1. PICK i \in 1 .. Len(q) + 1 :
        /\ t \in Seq(S)
        /\ Len(t) = Len(q) + 1
        /\ \A j \in 1 .. Len(q) + 1 : t[j] = IF j < i THEN q[j] ELSE IF j = i THEN p ELSE q[j - 1]
  BY InsertProcQ
<1>. HIDE DEF t
<1>2. Len(q) \in Nat
  BY LenProperties
<1>3. ASSUME NEW j \in 1 .. Len(t), j < i
      PROVE  j \in 1 .. Len(q) /\ t[j] = q[j]
  BY <1>1, <1>2, <1>3
<1>4. i \in 1 .. Len(t) /\ t[i] = p
  BY <1>1
<1>5. ASSUME NEW j \in 1 .. Len(t), j > i
      PROVE  j - 1 \in 1 .. Len(q) /\ t[j] = q[j - 1]
  BY <1>1, <1>2, <1>5
<1>6. \A j \in 1 .. Len(t) : j < i \/ j = i \/ j > i
  BY <1>1, <1>2
<1>7. t \in Seq(S)
  BY <1>1
<1>8. ASSUME NEW r, getProc(t, r) PROVE r = p \/ getProc(q, r)
  <2>1. PICK j \in 1 .. Len(t) : t[j] = r
    BY <1>7, <1>8, GetProcLen
  <2>2. CASE j < i
    BY <1>3, <2>1, <2>2, GetProcLen
  <2>3. CASE j = i
    BY <1>4, <2>1, <2>3
  <2>4. CASE j > i
    BY <1>5, <2>1, <2>4, GetProcLen
  <2>. QED
    BY <1>6, <2>2, <2>3, <2>4
<1>9. ASSUME NEW r, r = p \/ getProc(q, r) PROVE getProc(t, r)
  <2>1. \A j \in 1 .. Len(t) : t[j] = r => getProc(t, r)
    BY <1>7, GetProcLen
  <2>2. CASE r = p
    BY <1>4, <2>1, <2>2
  <2>3. CASE getProc(q, r)
    <3>1. PICK j \in 1 .. Len(q) : q[j] = r
      BY <2>3, GetProcLen
    <3>2. CASE j < i
      <4>1. j \in 1 .. Len(t)
        BY <1>1, <1>2
      <4>. QED
        BY <1>3, <2>1, <3>1, <3>2, <4>1
    <3>3. CASE ~ (j < i)
      <4>1. j + 1 \in 1 .. Len(t) /\ j + 1 > i /\ (j + 1) - 1 = j
        BY <1>1, <1>2, <3>3
      <4>2. t[j + 1] = q[(j + 1) - 1]
        BY <1>5, <4>1
      <4>. QED
        BY <2>1, <3>1, <4>1, <4>2
    <3>. QED
      BY <3>2, <3>3
  <2>. QED
    BY <1>9, <2>2, <2>3
<1>10. ASSUME IsInjective(q), ~ getProc(q, p) PROVE IsInjective(t)
  <2>1. \A j, m \in 1 .. Len(q) : q[j] = q[m] => j = m
    BY <1>10, InjectiveLen
  <2>2. \A j \in 1 .. Len(q) : q[j] # p
    BY <1>10, GetProcLen
  <2>3. ASSUME NEW j \in 1 .. Len(t), NEW m \in 1 .. Len(t), t[j] = t[m]
        PROVE  j = m
    <3>1. CASE j < i
      <4>1. j \in 1 .. Len(q) /\ t[j] = q[j] /\ q[j] # p
        BY <1>3, <2>2, <3>1
      <4>2. CASE m < i
        BY <1>3, <2>1, <2>3, <4>1, <4>2
      <4>3. CASE m = i
        BY <1>4, <2>3, <4>1, <4>3
      <4>4. CASE m > i
        <5>1. m - 1 \in 1 .. Len(q) /\ t[m] = q[m - 1]
          BY <1>5, <4>4
        <5>2. j = m - 1
          BY <2>1, <2>3, <4>1, <5>1
        <5>. QED
          BY <1>1, <1>2, <3>1, <4>4, <5>2
      <4>. QED
        BY <1>6, <4>2, <4>3, <4>4
    <3>2. CASE j = i
      <4>1. CASE m < i
        BY <1>3, <1>4, <2>2, <2>3, <3>2, <4>1
      <4>2. CASE m > i
        BY <1>4, <1>5, <2>2, <2>3, <3>2, <4>2
      <4>. QED
        BY <1>6, <3>2, <4>1, <4>2
    <3>3. CASE j > i
      <4>1. j - 1 \in 1 .. Len(q) /\ t[j] = q[j - 1] /\ q[j - 1] # p
        BY <1>5, <2>2, <3>3
      <4>2. CASE m < i
        <5>1. m \in 1 .. Len(q) /\ t[m] = q[m]
          BY <1>3, <4>2
        <5>2. m = j - 1
          BY <2>1, <2>3, <4>1, <5>1
        <5>. QED
          BY <1>1, <1>2, <3>3, <4>2, <5>2
      <4>3. CASE m = i
        BY <1>4, <2>3, <4>1, <4>3
      <4>4. CASE m > i
        <5>1. m - 1 \in 1 .. Len(q) /\ t[m] = q[m - 1]
          BY <1>5, <4>4
        <5>2. j - 1 = m - 1
          BY <2>1, <2>3, <4>1, <5>1
        <5>. QED
          BY <1>1, <1>2, <5>2
      <4>. QED
        BY <1>6, <4>2, <4>3, <4>4
    <3>. QED
      BY <1>6, <3>1, <3>2, <3>3
  <2>. QED
    BY <1>7, <2>3, InjectiveLen
<1>. QED
  BY <1>7, <1>8, <1>9, <1>10 DEF t

LEMMA OutProcQMembers ==
  ASSUME NEW S, NEW q \in Seq(S), NEW p, IsInjective(q)
  PROVE  /\ outProcQ(q, p) \in Seq(S)
         /\ \A r : getProc(outProcQ(q, p), r) <=> r # p /\ getProc(q, r)
         /\ IsInjective(outProcQ(q, p))
         /\ Len(outProcQ(q, p)) = IF getProc(q, p) THEN Len(q) - 1 ELSE Len(q)
<1>1. CASE ~ getProc(q, p)
  BY <1>1, OutProcQAbsent
<1>2. CASE getProc(q, p)
  <2>. DEFINE t == outProcQ(q, p)
  <2>1. PICK i \in 1 .. Len(q) :
          /\ q[i] = p
          /\ t \in Seq(S)
          /\ Len(t) = Len(q) - 1
          /\ \A j \in 1 .. Len(q) - 1 : t[j] = IF j < i THEN q[j] ELSE q[j + 1]
    BY <1>2, OutProcQ
  <2>. HIDE DEF t
  <2>2. Len(q) \in Nat
    BY LenProperties
  <2>3. \A j, m \in 1 .. Len(q) : q[j] = q[m] => j = m
    BY InjectiveLen
  <2>4. ASSUME NEW r PROVE getProc(t, r) <=> r # p /\ getProc(q, r)
    <3>1. CASE getProc(t, r)
      <4>1. PICK j \in 1 .. Len(q) - 1 : t[j] = r
        BY <2>1, <3>1, GetProcLen
      <4>2. CASE j < i
        <5>1. j \in 1 .. Len(q) /\ q[j] = r /\ j # i
          BY <2>1, <2>2, <4>1, <4>2
        <5>. QED
          BY <2>1, <2>3, <3>1, <5>1, GetProcLen
      <4>3. CASE ~ (j < i)
        <5>1. j + 1 \in 1 .. Len(q) /\ q[j + 1] = r /\ j + 1 # i
          BY <2>1, <2>2, <4>1, <4>3
        <5>. QED
          BY <2>1, <2>3, <3>1, <5>1, GetProcLen
      <4>. QED
        BY <4>2, <4>3
    <3>2. CASE r # p /\ getProc(q, r)
      <4>1. PICK j \in 1 .. Len(q) : q[j] = r
        BY <3>2, GetProcLen
      <4>2. CASE j < i
        <5>1. j \in 1 .. Len(q) - 1 /\ t[j] = r
          BY <2>1, <2>2, <4>1, <4>2
        <5>. QED
          BY <2>1, <3>2, <5>1, GetProcLen
      <4>3. CASE j > i
        <5>1. j - 1 \in 1 .. Len(q) - 1 /\ ~ (j - 1 < i) /\ (j - 1) + 1 = j
          BY <2>1, <2>2, <4>3
        <5>2. t[j - 1] = r
          BY <2>1, <4>1, <5>1
        <5>. QED
          BY <2>1, <3>2, <5>1, <5>2, GetProcLen
      <4>4. j # i
        BY <2>1, <3>2, <4>1
      <4>. QED
        BY <2>2, <4>2, <4>3, <4>4
    <3>. QED
      BY <3>1, <3>2
  <2>5. IsInjective(t)
    <3>1. ASSUME NEW j \in 1 .. Len(t), NEW m \in 1 .. Len(t), t[j] = t[m] PROVE j = m
      <4>. DEFINE a == IF j < i THEN j ELSE j + 1
                  b == IF m < i THEN m ELSE m + 1
      <4>1. a \in 1 .. Len(q) /\ b \in 1 .. Len(q) /\ t[j] = q[a] /\ t[m] = q[b]
        BY <2>1, <2>2
      <4>2. a = b
        BY <2>3, <3>1, <4>1
      <4>. QED
        BY <2>1, <2>2, <4>2
    <3>. QED
      BY <2>1, <3>1, InjectiveLen
  <2>. QED
    BY <1>2, <2>1, <2>4, <2>5 DEF t
<1>. QED
  BY <1>1, <1>2

LEMMA AppendMembers ==
  ASSUME NEW S, NEW q \in Seq(S), NEW p \in S
  PROVE  /\ \A r : getProc(Append(q, p), r) <=> r = p \/ getProc(q, r)
         /\ IsInjective(q) /\ ~ getProc(q, p) => IsInjective(Append(q, p))
<1>. DEFINE t == Append(q, p)
<1>1. /\ t \in Seq(S)
      /\ Len(t) = Len(q) + 1
      /\ \A i \in 1 .. Len(q) : t[i] = q[i]
      /\ t[Len(q) + 1] = p
  BY AppendProperties
<1>. HIDE DEF t
<1>2. Len(q) \in Nat
  BY LenProperties
<1>3. \A i \in 1 .. Len(t) : i \in 1 .. Len(q) \/ i = Len(q) + 1
  BY <1>1, <1>2
<1>4. \A i \in 1 .. Len(q) : i \in 1 .. Len(t)
  BY <1>1, <1>2
<1>5. Len(q) + 1 \in 1 .. Len(t)
  BY <1>1, <1>2
<1>6. ASSUME NEW r PROVE getProc(t, r) <=> r = p \/ getProc(q, r)
  <2>1. getProc(t, r) <=> \E i \in 1 .. Len(t) : t[i] = r
    BY <1>1, GetProcLen
  <2>2. getProc(q, r) <=> \E i \in 1 .. Len(q) : q[i] = r
    BY GetProcLen
  <2>. QED
    BY <1>1, <1>3, <1>4, <1>5, <2>1, <2>2
<1>7. ASSUME IsInjective(q), ~ getProc(q, p) PROVE IsInjective(t)
  <2>1. \A i, j \in 1 .. Len(q) : q[i] = q[j] => i = j
    BY <1>7, InjectiveLen
  <2>2. \A i \in 1 .. Len(q) : q[i] # p
    BY <1>7, GetProcLen
  <2>3. \A i, j \in 1 .. Len(t) : t[i] = t[j] => i = j
    BY <1>1, <1>3, <2>1, <2>2
  <2>. QED
    BY <1>1, <2>3, InjectiveLen
<1>. QED
  BY <1>6, <1>7 DEF t

LEMMA TailMembers ==
  ASSUME NEW S, NEW q \in Seq(S), q # <<>>, IsInjective(q)
  PROVE  /\ Tail(q) \in Seq(S) /\ Head(q) \in S
         /\ getProc(q, Head(q))
         /\ \A r : getProc(Tail(q), r) <=> r # Head(q) /\ getProc(q, r)
         /\ IsInjective(Tail(q))
<1>. DEFINE t == Tail(q)
<1>1. /\ Head(q) \in S
      /\ t \in Seq(S)
      /\ Len(t) = Len(q) - 1
      /\ \A i \in 1 .. Len(t) : t[i] = q[i + 1]
  BY HeadTailProperties
<1>2. Len(q) \in Nat \ {0}
  BY EmptySeq
<1>3. Head(q) = q[1]
  OBVIOUS
<1>. HIDE DEF t
<1>4. \A i, j \in 1 .. Len(q) : q[i] = q[j] => i = j
  BY InjectiveLen
<1>5. 1 \in 1 .. Len(q)
  BY <1>2
<1>6. getProc(q, Head(q))
  BY <1>3, <1>5, GetProcLen
<1>7. \A i \in 1 .. Len(t) : i + 1 \in 1 .. Len(q) /\ i + 1 # 1
  BY <1>1, <1>2
<1>8. ASSUME NEW r PROVE getProc(t, r) <=> r # Head(q) /\ getProc(q, r)
  <2>1. getProc(t, r) <=> \E i \in 1 .. Len(t) : t[i] = r
    BY <1>1, GetProcLen
  <2>2. getProc(q, r) <=> \E i \in 1 .. Len(q) : q[i] = r
    BY GetProcLen
  <2>3. CASE getProc(t, r)
    BY <1>1, <1>3, <1>4, <1>5, <1>7, <2>1, <2>2, <2>3
  <2>4. CASE r # Head(q) /\ getProc(q, r)
    <3>1. PICK i \in 1 .. Len(q) : q[i] = r
      BY <2>2, <2>4
    <3>2. i - 1 \in 1 .. Len(t) /\ (i - 1) + 1 = i
      BY <1>1, <1>2, <1>3, <2>4, <3>1
    <3>. QED
      BY <1>1, <2>1, <2>4, <3>1, <3>2
  <2>. QED
    BY <2>3, <2>4
<1>9. IsInjective(t)
  <2>1. \A i, j \in 1 .. Len(t) : t[i] = t[j] => i + 1 = j + 1
    BY <1>1, <1>4, <1>7
  <2>2. \A i, j \in 1 .. Len(t) : i + 1 = j + 1 => i = j
    OBVIOUS
  <2>. QED
    BY <1>1, <2>1, <2>2, InjectiveLen
<1>. QED
  BY <1>1, <1>6, <1>8, <1>9 DEF t

------------------------------------------------------------------------------

(* What holds of the semaphores alone, between any two calls of asl.c.      *)
AslInv ==
  /\ AslTypeOK
  /\ IsFiniteSet(asl)
  /\ SemdAccounting

LEMMA MaxProcNat == MAXPROC \in Nat
  BY TableAssumption, FS_CardinalityType

LEMMA InitAslInv ==
  ASSUME initASL
  PROVE  AslInv
<1>1. IsFiniteSet({}) /\ Cardinality({}) = 0
  BY FS_EmptySet
<1>2. <<>> \in Seq(PCB)
  OBVIOUS
<1>3. AslTypeOK
  BY <1>2, MaxProcNat DEF initASL, AslTypeOK
<1>4. SemdAccounting
  BY <1>1, MaxProcNat DEF initASL, SemdAccounting
<1>. QED
  BY <1>1, <1>3, <1>4 DEF initASL, AslInv

LEMMA InsertBlockedInv ==
  ASSUME AslInv, NEW STATE k, k \in Key, NEW STATE p, p \in PCB, insertBlocked(k, p)
  PROVE  AslInv'
<1>. USE DEF AslInv
<1>1. CASE k \notin asl /\ semdFree = 0
  BY <1>1 DEF insertBlocked, aslVars, AslTypeOK, SemdAccounting
<1>2. CASE ~ (k \notin asl /\ semdFree = 0)
  <2>. DEFINE r == IF k \in asl THEN s_procQ[k] ELSE <<>>
              q == Append(r, p)
  <2>1. /\ s_procQ' = [s_procQ EXCEPT ![k] = q]
        /\ p_semkey' = [p_semkey EXCEPT ![p] = k]
        /\ asl' = asl \cup {k}
        /\ semdFree' = IF k \in asl THEN semdFree ELSE semdFree - 1
    BY <1>2 DEF insertBlocked
  <2>2. q \in Seq(PCB) /\ q # <<>>
    <3>1. r \in Seq(PCB)
      BY DEF AslTypeOK
    <3>. HIDE DEF r
    <3>. QED
      BY <3>1, AppendProperties
  <2>. HIDE DEF q
  <2>3. /\ IsFiniteSet(asl')
        /\ Cardinality(asl') = IF k \in asl THEN Cardinality(asl) ELSE Cardinality(asl) + 1
    BY <2>1, FS_AddElement
  <2>4. Cardinality(asl) \in Nat
    BY FS_CardinalityType
  <2>5. semdFree' \in 0 .. MAXPROC /\ semdFree' + Cardinality(asl') = MAXPROC
    BY <1>2, <2>1, <2>3, <2>4, MaxProcNat DEF AslTypeOK, SemdAccounting
  <2>6. AslTypeOK'
    BY <2>1, <2>2, <2>5 DEF AslTypeOK
  <2>7. asl' = {j \in Key : s_procQ'[j] # <<>>}
    BY <2>1, <2>2 DEF AslTypeOK, SemdAccounting
  <2>. QED
    BY <2>3, <2>5, <2>6, <2>7 DEF SemdAccounting
<1>. QED
  BY <1>1, <1>2

LEMMA UnblockInv ==
  ASSUME AslInv, NEW STATE k, k \in asl, NEW STATE p, p \in PCB, unblock(k, p)
  PROVE  AslInv'
<1>. USE DEF AslInv
<1>. DEFINE q == outProcQ(s_procQ[k], p)
<1>1. k \in Key /\ s_procQ[k] \in Seq(PCB) /\ s_procQ[k] # <<>>
  BY DEF AslTypeOK, SemdAccounting
<1>2. q \in Seq(PCB)
  BY <1>1, OutProcQ, OutProcQAbsent
<1>3. /\ s_procQ' = [s_procQ EXCEPT ![k] = q]
      /\ p_semkey' = [p_semkey EXCEPT ![p] = NULL]
      /\ IF q = <<>>
         THEN asl' = asl \ {k} /\ semdFree' = semdFree + 1
         ELSE UNCHANGED <<asl, semdFree>>
  BY DEF unblock
<1>. HIDE DEF q
<1>4. Cardinality(asl) \in Nat
  BY FS_CardinalityType
<1>5. /\ IsFiniteSet(asl')
      /\ semdFree' \in 0 .. MAXPROC
      /\ semdFree' + Cardinality(asl') = MAXPROC
  <2>1. CASE q = <<>>
    <3>1. IsFiniteSet(asl') /\ Cardinality(asl') = Cardinality(asl) - 1
      BY <1>3, <2>1, FS_RemoveElement
    <3>2. Cardinality(asl') \in Nat
      BY <3>1, FS_CardinalityType
    <3>. QED
      BY <1>3, <1>4, <2>1, <3>1, <3>2, MaxProcNat DEF AslTypeOK, SemdAccounting
  <2>2. CASE q # <<>>
    BY <1>3, <2>2 DEF AslTypeOK, SemdAccounting
  <2>. QED
    BY <2>1, <2>2
<1>6. AslTypeOK'
  BY <1>1, <1>2, <1>3, <1>5 DEF AslTypeOK
<1>7. asl' = {j \in Key : s_procQ'[j] # <<>>}
  BY <1>1, <1>3 DEF AslTypeOK, SemdAccounting
<1>. QED
  BY <1>5, <1>6, <1>7 DEF SemdAccounting

LEMMA RemoveBlockedInv ==
  ASSUME AslInv, NEW STATE k, k \in Key, removeBlocked(k)
  PROVE  AslInv' /\ headBlocked(k) \in PCB \cup {NULL}
<1>1. CASE headBlocked(k) = NULL
  BY <1>1 DEF removeBlocked, aslVars, AslInv, AslTypeOK, SemdAccounting
<1>2. CASE headBlocked(k) # NULL
  <2>1. k \in asl /\ headBlocked(k) = Head(s_procQ[k]) /\ s_procQ[k] # <<>>
    BY <1>2 DEF headBlocked
  <2>2. headBlocked(k) \in PCB
    BY <2>1, HeadTailProperties DEF AslInv, AslTypeOK
  <2>3. unblock(k, headBlocked(k))
    BY <1>2 DEF removeBlocked
  <2>. QED
    BY <2>1, <2>2, <2>3, UnblockInv
<1>. QED
  BY <1>1, <1>2

LEMMA OutBlockedInv ==
  ASSUME AslInv, NEW STATE p, p \in PCB, outBlocked(p)
  PROVE  AslInv'
<1>1. CASE p_semkey[p] \in asl
  BY <1>1, UnblockInv DEF outBlocked
<1>2. CASE p_semkey[p] \notin asl
  BY <1>2 DEF outBlocked, aslVars, AslInv, AslTypeOK, SemdAccounting
<1>. QED
  BY <1>1, <1>2
------------------------------------------------------------------------------
(* A process is queued on the semaphore its p_semkey names, once, and on no *)
(* other.                                                                   *)
BlockedOnKey ==
  \A k \in Key : /\ IsInjective(s_procQ[k])
                 /\ \A p \in PCB : getProc(s_procQ[k], p) <=> p_semkey[p] = k

(* While some process is not blocked there is a descriptor left: every one  *)
(* in use has a first waiter of its own, and the table of descriptors is as *)
(* long as that of the PCBs.                                                *)
LEMMA DescriptorLeft ==
  ASSUME AslInv, BlockedOnKey, NEW STATE p, p \in PCB, p_semkey[p] = NULL
  PROVE  semdFree # 0
<1>. DEFINE f == [k \in asl |-> Head(s_procQ[k])]
            T == PCB \ {p}
<1>1. IsFiniteSet(PCB) /\ MAXPROC = Cardinality(PCB) /\ NULL \notin Key
  BY TableAssumption
<1>2. Cardinality(PCB) \in Nat
  BY <1>1, FS_CardinalityType
<1>3. IsFiniteSet(T) /\ Cardinality(T) = Cardinality(PCB) - 1
  BY <1>1, FS_RemoveElement
<1>4. ASSUME NEW k \in asl
      PROVE  k \in Key /\ Head(s_procQ[k]) \in PCB /\ p_semkey[Head(s_procQ[k])] = k
  <2>1. k \in Key /\ s_procQ[k] \in Seq(PCB) /\ s_procQ[k] # <<>>
    BY DEF AslInv, AslTypeOK, SemdAccounting
  <2>2. Head(s_procQ[k]) \in PCB /\ getProc(s_procQ[k], Head(s_procQ[k]))
    BY <2>1, TailMembers DEF BlockedOnKey
  <2>. QED
    BY <2>1, <2>2 DEF BlockedOnKey
<1>5. \A k \in asl : f[k] \in T
  BY <1>1, <1>4
<1>6. \A k, j \in asl : f[k] = f[j] => k = j
  BY <1>4
<1>7. f \in [asl -> T]
  BY <1>5
<1>. HIDE DEF f, T
<1>8. f \in Injection(asl, T)
  BY <1>6, <1>7 DEF Injection, IsInjective
<1>9. Cardinality(asl) <= Cardinality(T)
  BY <1>3, <1>8, FS_Injection
<1>10. Cardinality(asl) \in Nat
  BY FS_CardinalityType DEF AslInv
<1>. QED
  BY <1>1, <1>2, <1>3, <1>9, <1>10 DEF AslInv, SemdAccounting

LEMMA InsertBlockedQueues ==
  ASSUME AslInv, BlockedOnKey, NEW STATE k, k \in Key, NEW STATE p, p \in PCB,
         p_semkey[p] = NULL, insertBlocked(k, p)
  PROVE  /\ BlockedOnKey'
         /\ p_semkey' = [p_semkey EXCEPT ![p] = k]
         /\ \A j \in Key : Len(s_procQ'[j]) = IF j = k THEN Len(s_procQ[j]) + 1 ELSE Len(s_procQ[j])
<1>. DEFINE q == Append(s_procQ[k], p)
<1>1. k \notin asl => s_procQ[k] = <<>>
  BY DEF AslInv, SemdAccounting
<1>2. /\ s_procQ' = [s_procQ EXCEPT ![k] = q]
      /\ p_semkey' = [p_semkey EXCEPT ![p] = k]
  BY <1>1, DescriptorLeft DEF insertBlocked
<1>3. s_procQ[k] \in Seq(PCB) /\ IsInjective(s_procQ[k]) /\ ~ getProc(s_procQ[k], p)
  BY TableAssumption DEF BlockedOnKey, AslInv, AslTypeOK
<1>4. /\ \A r : getProc(q, r) <=> r = p \/ getProc(s_procQ[k], r)
      /\ IsInjective(q)
      /\ Len(q) = Len(s_procQ[k]) + 1
  BY <1>3, AppendMembers, AppendProperties
<1>. HIDE DEF q
<1>5. s_procQ \in [Key -> Seq(PCB)] /\ p_semkey \in [PCB -> Key \cup {NULL}] /\ NULL \notin Key
  BY TableAssumption DEF AslInv, AslTypeOK
<1>6. \A j \in Key : s_procQ'[j] = IF j = k THEN q ELSE s_procQ[j]
  BY <1>2, <1>5
<1>7. \A r \in PCB : p_semkey'[r] = IF r = p THEN k ELSE p_semkey[r]
  BY <1>2, <1>5
<1>8. ASSUME NEW j \in Key
      PROVE  /\ IsInjective(s_procQ'[j])
             /\ \A r \in PCB : getProc(s_procQ'[j], r) <=> p_semkey'[r] = j
  <2>1. CASE j = k
    BY <1>4, <1>6, <1>7, <2>1 DEF BlockedOnKey
  <2>2. CASE j # k
    BY <1>5, <1>6, <1>7, <2>2 DEF BlockedOnKey
  <2>. QED
    BY <2>1, <2>2
<1>9. BlockedOnKey'
  BY <1>8 DEF BlockedOnKey
<1>. QED
  BY <1>2, <1>4, <1>6, <1>9

LEMMA UnblockQueues ==
  ASSUME AslInv, BlockedOnKey, NEW STATE k, k \in Key, NEW STATE p, p \in PCB,
         p_semkey[p] = k, unblock(k, p)
  PROVE  /\ BlockedOnKey'
         /\ p_semkey' = [p_semkey EXCEPT ![p] = NULL]
         /\ \A j \in Key : Len(s_procQ'[j]) = IF j = k THEN Len(s_procQ[j]) - 1 ELSE Len(s_procQ[j])
<1>. DEFINE q == outProcQ(s_procQ[k], p)
<1>1. /\ s_procQ' = [s_procQ EXCEPT ![k] = q]
      /\ p_semkey' = [p_semkey EXCEPT ![p] = NULL]
  BY DEF unblock
<1>2. s_procQ[k] \in Seq(PCB) /\ IsInjective(s_procQ[k]) /\ getProc(s_procQ[k], p)
  BY DEF BlockedOnKey, AslInv, AslTypeOK
<1>3. /\ \A r : getProc(q, r) <=> r # p /\ getProc(s_procQ[k], r)
      /\ IsInjective(q)
      /\ Len(q) = Len(s_procQ[k]) - 1
  BY <1>2, OutProcQMembers
<1>. HIDE DEF q
<1>4. s_procQ \in [Key -> Seq(PCB)] /\ p_semkey \in [PCB -> Key \cup {NULL}] /\ NULL \notin Key
  BY TableAssumption DEF AslInv, AslTypeOK
<1>5. \A j \in Key : s_procQ'[j] = IF j = k THEN q ELSE s_procQ[j]
  BY <1>1, <1>4
<1>6. \A r \in PCB : p_semkey'[r] = IF r = p THEN NULL ELSE p_semkey[r]
  BY <1>1, <1>4
<1>7. BlockedOnKey'
  BY <1>3, <1>4, <1>5, <1>6 DEF BlockedOnKey
<1>. QED
  BY <1>1, <1>3, <1>5, <1>7

LEMMA RemoveBlockedQueues ==
  ASSUME AslInv, BlockedOnKey, NEW STATE k, k \in Key, headBlocked(k) # NULL, removeBlocked(k)
  PROVE  /\ headBlocked(k) \in PCB /\ p_semkey[headBlocked(k)] = k
         /\ unblock(k, headBlocked(k))
<1>1. s_procQ[k] \in Seq(PCB) /\ s_procQ[k] # <<>> /\ headBlocked(k) = Head(s_procQ[k])
  BY DEF headBlocked, AslInv, AslTypeOK
<1>2. Head(s_procQ[k]) \in PCB /\ getProc(s_procQ[k], Head(s_procQ[k]))
  BY <1>1, TailMembers DEF BlockedOnKey
<1>. QED
  BY <1>1, <1>2 DEF BlockedOnKey, removeBlocked

LEMMA OutBlockedQueues ==
  ASSUME AslInv, BlockedOnKey, NEW STATE p, p \in PCB, p_semkey[p] # NULL, outBlocked(p)
  PROVE  p_semkey[p] \in Key /\ unblock(p_semkey[p], p)
<1>1. p_semkey[p] \in Key
  BY DEF AslInv, AslTypeOK
<1>2. getProc(s_procQ[p_semkey[p]], p)
  BY <1>1 DEF BlockedOnKey
<1>3. s_procQ[p_semkey[p]] # <<>>
  BY <1>2 DEF getProc
<1>4. p_semkey[p] \in asl
  BY <1>1, <1>3 DEF AslInv, SemdAccounting
<1>. QED
  BY <1>1, <1>4 DEF outBlocked

------------------------------------------------------------------------------
(* The nucleus.                                                             *)

(* TypeOK needs the accounting of the descriptors, which bounds semdFree,   *)
(* and that a process runs whenever a system call can be made.              *)
TypeInv ==
  /\ TypeOK
  /\ AslInv
  /\ mode \in {"user", "term"} => selected \in PCB

(* A V the kernel does while a process runs, be it for verhogen or, in      *)
(* KernelIO, for the handler of device interrupts.                          *)
Wake(k) ==
  /\ mode = "user"
  /\ semval' = [semval EXCEPT ![k] = @ + 1]
  /\ removeBlocked(k)
  /\ readyQueue' = IF headBlocked(k) = NULL
                   THEN readyQueue
                   ELSE insertProcQ(readyQueue, headBlocked(k), priority)
  /\ UNCHANGED <<priority, original_priority, selected, n_proc, mode, pcbFree, treeVars, passup, termVars>>

(* What the invariants below are proved for: the steps of the nucleus alone *)
(* and those it takes for the devices.                                      *)
Step == Next \/ \E k \in Key : Wake(k)

LEMMA NextIsStep == [Next]_vars => [Step]_vars
  BY DEF Step

LEMMA VerhogenWakes == \A k : verhogen(k) => Wake(k)
  BY DEF verhogen, Caller, Wake

LEMMA SchedulingType ==
  ASSUME TypeInv, NEW STATE q, q \in Seq(PCB), scheduling(q)
  PROVE  /\ readyQueue' \in Seq(PCB)
         /\ priority' \in [PCB -> Int]
         /\ selected' \in PCB \cup {NULL}
         /\ mode' \in {"user", "halt"}
         /\ mode' = "user" => selected' \in PCB
<1>1. CASE q # <<>> /\ n_proc > 0
  <2>. DEFINE next == headProcQ(q)
              restored == [priority EXCEPT ![next] = original_priority[next]]
              aged == aging(removeProcQ(q), restored)
  <2>1. /\ selected' = next
        /\ priority' = aged
        /\ readyQueue' = insertProcQ(removeProcQ(q), next, aged)
        /\ mode' = "user"
    BY <1>1 DEF scheduling
  <2>2. next \in PCB /\ removeProcQ(q) \in Seq(PCB)
    BY <1>1, HeadTailProperties DEF headProcQ, removeProcQ
  <2>3. restored \in [PCB -> Int]
    BY <2>2 DEF TypeInv, TypeOK
  <2>4. aged \in [PCB -> Int]
    BY <2>3 DEF aging
  <2>. HIDE DEF next, aged
  <2>5. insertProcQ(removeProcQ(q), next, aged) \in Seq(PCB)
    BY <2>2, InsertProcQ
  <2>. QED
    BY <2>1, <2>2, <2>4, <2>5
<1>2. CASE ~ (q # <<>> /\ n_proc > 0)
  BY <1>2 DEF scheduling, TypeInv, TypeOK
<1>. QED
  BY <1>1, <1>2

LEMMA OutReadyType ==
  ASSUME TypeInv, NEW STATE p, p \in PCB
  PROVE  outProcQ(readyQueue, p) \in Seq(PCB)
  BY OutProcQ, OutProcQAbsent DEF TypeInv, TypeOK

LEMMA AslUnchanged ==
  ASSUME AslInv, UNCHANGED aslVars
  PROVE  AslInv'
  BY DEF aslVars, AslInv, AslTypeOK, SemdAccounting

LEMMA InitTypeInv == Init => TypeInv
<1>. SUFFICES ASSUME Init PROVE TypeInv
  OBVIOUS
<1>1. AslInv
  BY InitAslInv DEF Init
<1>2. pcb_test \in PCB /\ idle \in PCB
  BY NucleusAssumption
<1>3. <<pcb_test, idle>> \in Seq(PCB)
  BY <1>2
<1>4. [Key -> 0 .. SemBound] \subseteq [Key -> Int]
  BY NucleusAssumption
<1>. QED
  BY <1>1, <1>3, <1>4, NucleusAssumption
  DEF Init, TypeInv, TypeOK, AslInv, Mode, DEFAULT_PRIORITY, IDLE_PRIORITY

LEMMA TermProcessType ==
  ASSUME TypeInv, NEW STATE p, p \in PCB, NEW then \in {"resume", "scheduling"},
         mode = "user", term_process(p, then)
  PROVE  TypeInv'
<1>1. CASE ~ getProc(readyQueue, p) /\ p_semkey[p] = NULL /\ then = "scheduling"
  <2>1. scheduling(readyQueue)
    BY <1>1 DEF term_process
  <2>2. /\ readyQueue' \in Seq(PCB)
        /\ priority' \in [PCB -> Int]
        /\ selected' \in PCB \cup {NULL}
        /\ mode' \in {"user", "halt"}
        /\ mode' = "user" => selected' \in PCB
    BY <2>1, SchedulingType DEF TypeInv, TypeOK
  <2>3. UNCHANGED <<aslVars, original_priority, n_proc, semval, pcbFree, treeVars, passup, termVars>>
    BY <1>1 DEF term_process
  <2>. QED
    BY <2>2, <2>3, AslUnchanged DEF TypeInv, TypeOK, AslInv, Mode, treeVars, termVars
<1>2. CASE ~ getProc(readyQueue, p) /\ p_semkey[p] = NULL /\ then # "scheduling"
  BY <1>2, AslUnchanged DEF term_process, TypeInv, TypeOK, AslInv, treeVars, termVars
<1>3. CASE ~ (~ getProc(readyQueue, p) /\ p_semkey[p] = NULL)
  BY <1>3, AslUnchanged DEF term_process, TypeInv, TypeOK, AslInv, Mode, treeVars
<1>. QED
  BY <1>1, <1>2, <1>3

LEMMA NextTypeInv == TypeInv /\ [Step]_vars => TypeInv'
<1>. SUFFICES ASSUME TypeInv, [Step]_vars PROVE TypeInv'
  OBVIOUS
<1>0. TypeOK /\ AslInv
  BY DEF TypeInv
<1>1. CASE Boot
  <2>1. /\ readyQueue' \in Seq(PCB)
        /\ priority' \in [PCB -> Int]
        /\ selected' \in PCB \cup {NULL}
        /\ mode' \in {"user", "halt"}
        /\ mode' = "user" => selected' \in PCB
    BY <1>0, <1>1, SchedulingType DEF Boot, TypeOK
  <2>. QED
    BY <1>0, <1>1, <2>1, AslUnchanged DEF Boot, TypeInv, TypeOK, AslInv, Mode, treeVars, termVars
<1>2. ASSUME NEW v \in Priority, create_process(v)
      PROVE  TypeInv'
  <2>1. v \in Int /\ selected \in PCB /\ mode = "user"
    BY <1>2, NucleusAssumption DEF create_process, Caller, TypeInv
  <2>2. n_proc' \in Int
    BY <1>0, <1>2 DEF create_process, TypeOK
  <2>3. ASSUME NEW new \in pcbFree,
               priority' = [priority EXCEPT ![new] = v],
               original_priority' = [original_priority EXCEPT ![new] = v],
               allocPcb(new),
               readyQueue' = insertProcQ(readyQueue, new, priority'),
               insertChild(selected, new)
        PROVE  TypeInv'
    <3>1. new \in PCB
      BY <1>0, <2>3 DEF TypeOK
    <3>2. readyQueue' \in Seq(PCB)
      BY <1>0, <2>3, <3>1, InsertProcQ DEF TypeOK
    <3>3. p_parent' \in [PCB -> PCB \cup {NULL}] /\ p_child' \in [PCB -> SUBSET PCB]
      BY <1>0, <2>1, <2>3, <3>1 DEF TypeOK, insertChild
    <3>4. AslInv'
      BY <1>0, <1>2, <2>3 DEF create_process, allocPcb, AslInv, AslTypeOK, SemdAccounting
    <3>. QED
      BY <1>0, <1>2, <2>1, <2>2, <2>3, <3>2, <3>3, <3>4
      DEF create_process, allocPcb, TypeInv, TypeOK, AslInv, termVars
  <2>4. CASE UNCHANGED <<readyQueue, priority, original_priority, p_semkey, pcbFree, treeVars, passup>>
    <3>1. AslInv'
      BY <1>0, <1>2, <2>4, AslUnchanged DEF create_process, aslVars
    <3>. QED
      BY <1>0, <1>2, <2>1, <2>2, <2>4, <3>1
      DEF create_process, TypeInv, TypeOK, AslInv, treeVars, termVars
  <2>. QED
    BY <1>2, <2>3, <2>4 DEF create_process
<1>3. CASE TerminateSelf
  BY <1>3, TermProcessType DEF TerminateSelf, Caller, TypeInv
<1>4. ASSUME NEW p \in PCB, TerminatePid(p)
      PROVE  TypeInv'
  BY <1>4, TermProcessType DEF TerminatePid, Caller
<1>5. ASSUME NEW p \in PCB, delete_ric(p)
      PROVE  TypeInv'
  <2>1. AslInv' /\ readyQueue' \in Seq(PCB) /\ semval' \in [Key -> Int]
    <3>1. CASE p_semkey[p] = NULL
      BY <1>0, <1>5, <3>1, OutReadyType, AslUnchanged DEF delete_ric, unlink, TypeOK
    <3>2. CASE p_semkey[p] # NULL
      <4>1. outBlocked(p) /\ semval' = [semval EXCEPT ![p_semkey[p]] = @ + 1] /\ readyQueue' = readyQueue
        BY <1>5, <3>2 DEF delete_ric, unlink
      <4>2. p_semkey[p] \in Key
        BY <1>0, <3>2 DEF AslInv, AslTypeOK
      <4>3. semval' \in [Key -> Int]
        BY <1>0, <4>1, <4>2 DEF TypeOK
      <4>. QED
        BY <1>0, <4>1, <4>3, OutBlockedInv DEF TypeOK
    <3>. QED
      BY <3>1, <3>2
  <2>2. progeny(p) \subseteq PCB
    BY <1>0 DEF progeny, TypeOK
  <2>. QED
    BY <1>0, <1>5, <2>1, <2>2 DEF delete_ric, freePcb, TypeInv, TypeOK, AslInv, Mode, treeVars
<1>6. CASE TermDone
  <2>1. p_parent' \in [PCB -> PCB \cup {NULL}] /\ p_child' \in [PCB -> SUBSET PCB]
    <3>1. CASE p_parent[victim] = NULL
      BY <1>0, <1>6, <3>1 DEF TermDone, outChild, TypeOK, treeVars
    <3>2. CASE p_parent[victim] # NULL
      <4>1. /\ p_child' = [p_child EXCEPT ![p_parent[victim]] = @ \ {victim}]
            /\ p_parent' = [p_parent EXCEPT ![victim] = NULL]
        BY <1>6, <3>2 DEF TermDone, outChild
      <4>2. \A p \in PCB : p_child[p] \in SUBSET PCB /\ p_child[p] \ {victim} \in SUBSET PCB
        BY <1>0 DEF TypeOK
      <4>. QED
        BY <1>0, <4>1, <4>2 DEF TypeOK
    <3>. QED
      BY <3>1, <3>2
  <2>2. /\ readyQueue' \in Seq(PCB)
        /\ priority' \in [PCB -> Int]
        /\ selected' \in PCB \cup {NULL}
        /\ mode' \in {"user", "halt"}
        /\ mode' = "user" => selected' \in PCB
    <3>1. CASE after = "scheduling"
      BY <1>0, <1>6, <3>1, SchedulingType DEF TermDone, TypeOK
    <3>2. CASE after # "scheduling"
      BY <1>0, <1>6, <3>2 DEF TermDone, TypeOK, TypeInv
    <3>. QED
      BY <3>1, <3>2
  <2>. QED
    BY <1>0, <1>6, <2>1, <2>2, AslUnchanged DEF TermDone, TypeInv, TypeOK, AslInv, Mode
<1>7. ASSUME NEW k \in Key, Wake(k)
      PROVE  TypeInv'
  <2>1. AslInv' /\ headBlocked(k) \in PCB \cup {NULL}
    BY <1>0, <1>7, RemoveBlockedInv DEF Wake
  <2>2. readyQueue' \in Seq(PCB)
    BY <1>0, <1>7, <2>1, InsertProcQ DEF Wake, TypeOK
  <2>3. semval' \in [Key -> Int]
    BY <1>0, <1>7 DEF Wake, TypeOK
  <2>. QED
    BY <1>0, <1>7, <2>1, <2>2, <2>3 DEF Wake, TypeInv, TypeOK, AslInv, treeVars, termVars
<1>8. ASSUME NEW k \in Key, passeren(k)
      PROVE  TypeInv'
  <2>1. selected \in PCB /\ mode = "user"
    BY <1>8 DEF passeren, Caller, TypeInv
  <2>2. semval' \in [Key -> Int]
    BY <1>0, <1>8 DEF passeren, TypeOK
  <2>3. CASE UNCHANGED <<aslVars, readyQueue, priority, selected>> /\ mode' \in {"user", "corrupt"}
    BY <1>0, <1>8, <2>1, <2>2, <2>3, AslUnchanged
    DEF passeren, TypeInv, TypeOK, AslInv, Mode, treeVars, termVars
  <2>4. CASE insertBlocked(k, selected) /\ scheduling(outProcQ(readyQueue, selected))
    <3>1. AslInv'
      BY <1>0, <2>1, <2>4, InsertBlockedInv
    <3>2. outProcQ(readyQueue, selected) \in Seq(PCB)
      BY <2>1, OutReadyType
    <3>3. /\ readyQueue' \in Seq(PCB)
          /\ priority' \in [PCB -> Int]
          /\ selected' \in PCB \cup {NULL}
          /\ mode' \in {"user", "halt"}
          /\ mode' = "user" => selected' \in PCB
      BY <2>4, <3>2, SchedulingType
    <3>. QED
      BY <1>0, <1>8, <2>2, <3>1, <3>3
      DEF passeren, TypeInv, TypeOK, AslInv, Mode, treeVars, termVars
  <2>. QED
    BY <1>8, <2>1, <2>3, <2>4 DEF passeren
<1>9. ASSUME NEW t \in PassType, specpassup(t)
      PROVE  TypeInv'
  <2>1. selected \in PCB /\ mode = "user"
    BY <1>9 DEF specpassup, Caller, TypeInv
  <2>2. CASE t \in PassType \ passup[selected]
    <3>1. /\ passup' = [passup EXCEPT ![selected] = @ \cup {t}]
          /\ UNCHANGED <<aslVars, schedVars, semval, pcbFree, treeVars, termVars>>
      BY <1>9, <2>2 DEF specpassup
    <3>2. passup' \in [PCB -> SUBSET PassType]
      BY <1>0, <2>1, <3>1 DEF TypeOK
    <3>3. AslInv'
      BY <1>0, <3>1, AslUnchanged
    <3>4. /\ UNCHANGED <<readyQueue, priority, original_priority, selected, n_proc, mode>>
          /\ UNCHANGED <<semval, pcbFree, p_parent, p_child, doomed, victim, after>>
      BY <3>1 DEF schedVars, treeVars, termVars
    <3>5. TypeOK'
      BY <1>0, <3>2, <3>3, <3>4 DEF TypeOK, AslInv
    <3>. QED
      BY <2>1, <3>3, <3>4, <3>5 DEF TypeInv
  <2>3. CASE t \notin PassType \ passup[selected]
    BY <1>9, <2>1, <2>3, TermProcessType DEF specpassup
  <2>. QED
    BY <2>2, <2>3
<1>10. CASE UnknownSyscall \/ tlb_H \/ trap_H
  BY <1>10, TermProcessType DEF UnknownSyscall, tlb_H, trap_H, PassUpOrDie, Caller, TypeInv
<1>11. CASE TimerInterrupt
  <2>1. /\ readyQueue' \in Seq(PCB)
        /\ priority' \in [PCB -> Int]
        /\ selected' \in PCB \cup {NULL}
        /\ mode' \in {"user", "halt"}
        /\ mode' = "user" => selected' \in PCB
    BY <1>0, <1>11, SchedulingType DEF TimerInterrupt, TypeOK
  <2>. QED
    BY <1>0, <1>11, <2>1, AslUnchanged
    DEF TimerInterrupt, TypeInv, TypeOK, AslInv, Mode, treeVars, termVars
<1>12. CASE UNCHANGED vars
  <2>1. UNCHANGED <<aslVars, schedVars, semval, pcbFree, treeVars, passup, termVars>>
    BY <1>12 DEF vars
  <2>2. AslInv'
    BY <1>0, <2>1, AslUnchanged
  <2>3. /\ UNCHANGED <<readyQueue, priority, original_priority, selected, n_proc, mode>>
        /\ UNCHANGED <<semval, pcbFree, p_parent, p_child, passup, doomed, victim, after>>
    BY <2>1 DEF schedVars, treeVars, termVars
  <2>4. TypeOK'
    BY <1>0, <2>2, <2>3 DEF TypeOK, AslInv
  <2>. QED
    BY <2>2, <2>3, <2>4 DEF TypeInv
<1>13. CASE Stopped
  BY <1>12, <1>13 DEF Stopped
<1>. QED
  BY <1>1, <1>2, <1>3, <1>4, <1>5, <1>6, <1>7, <1>8, <1>9, <1>10, <1>11, <1>12, <1>13,
     VerhogenWakes DEF Next, Step

(* Whatever processes do, killing themselves and their ancestors included,  *)
(* every variable keeps its type.                                           *)
THEOREM TypeCorrect == Spec => []TypeOK
<1>1. TypeInv => TypeOK
  BY DEF TypeInv
<1>. QED
  BY <1>1, InitTypeInv, NextTypeInv, NextIsStep, PTL DEF Spec

(* The pool of semaphore descriptors balances in every reachable state.     *)
THEOREM DescriptorsAccounted == Spec => []SemdAccounting
<1>1. TypeInv => SemdAccounting
  BY DEF TypeInv, AslInv
<1>. QED
  BY <1>1, InitTypeInv, NextTypeInv, NextIsStep, PTL DEF Spec

------------------------------------------------------------------------------

(* The ready queue against the free list.                                   *)
ReadyOrFree ==
  /\ IsInjective(readyQueue)
  /\ \A p \in PCB : p \in pcbFree <=> ~ getProc(readyQueue, p) /\ p_semkey[p] = NULL
  /\ \A p \in PCB : ~ (getProc(readyQueue, p) /\ p_semkey[p] # NULL)

(* The process that runs, or is to go on when term_process returns, is      *)
(* ready and out of the family that is being deleted.                       *)
SelectedReady ==
  /\ mode = "user" => getProc(readyQueue, selected)
  /\ mode = "term" /\ after = "resume" =>
       getProc(readyQueue, selected) /\ selected \notin Family(victim)

QueueInv == ReadyOrFree /\ BlockedOnKey /\ mode # "corrupt" /\ SelectedReady

(* The processes form a forest, which a rank that grows from parent to      *)
(* child witnesses.  delete_ric walks it down from the victim: the only     *)
(* freed PCB a live process may still have for a child is the victim, and   *)
(* what is left to delete hangs from a freed PCB.                           *)
Forest(r) ==
  /\ \A p \in live : \A c \in p_child[p] : p_parent[c] = p /\ r[p] < r[c]
  /\ \A p \in live : \A c \in p_child[p] : c \in live \/ (mode = "term" /\ c = victim)
  /\ mode = "term" =>
       /\ victim \in PCB
       /\ doomed \subseteq live \cap Family(victim)
       /\ \A d \in doomed : (d = victim \/ p_parent[d] \notin live) /\ r[victim] <= r[d]

TreeInv == \E r \in [PCB -> Nat] : Forest(r)

ListInv == TypeInv /\ QueueInv /\ TreeInv

LEMMA QueueInvIsListDiscipline ==
  QueueInv => ListDiscipline /\ RunningIsReady
  BY DEF QueueInv, ReadyOrFree, BlockedOnKey, SelectedReady, ListDiscipline, RunningIsReady, Blocked

LEMMA FamilyClosed ==
  ASSUME NEW STATE p, p \in PCB, \A q \in PCB : p_child[q] \subseteq PCB
  PROVE  /\ p \in Family(p)
         /\ \A q \in Family(p) : p_child[q] \subseteq Family(p)
  BY DEF Family

(* scheduling dispatches a member of the queue, and keeps all of them on.   *)
LEMMA SchedulingMembers ==
  ASSUME TypeInv, NEW STATE q, q \in Seq(PCB), IsInjective(q), scheduling(q)
  PROVE  /\ IsInjective(readyQueue')
         /\ \A r : getProc(readyQueue', r) <=> getProc(q, r)
         /\ mode' \in {"user", "halt"}
         /\ mode' = "user" => getProc(readyQueue', selected')
<1>1. CASE q # <<>> /\ n_proc > 0
  <2>. DEFINE next == headProcQ(q)
              prio == aging(removeProcQ(q), [priority EXCEPT ![next] = original_priority[next]])
  <2>1. /\ selected' = next
        /\ readyQueue' = insertProcQ(removeProcQ(q), next, prio)
        /\ mode' = "user"
    BY <1>1 DEF scheduling
  <2>. HIDE DEF prio
  <2>2. /\ next \in PCB
        /\ removeProcQ(q) \in Seq(PCB)
        /\ getProc(q, next)
        /\ \A r : getProc(removeProcQ(q), r) <=> r # next /\ getProc(q, r)
        /\ IsInjective(removeProcQ(q))
    BY <1>1, TailMembers DEF headProcQ, removeProcQ
  <2>. HIDE DEF next
  <2>3. /\ \A r : getProc(readyQueue', r) <=> r = next \/ getProc(removeProcQ(q), r)
        /\ IsInjective(readyQueue')
    BY <2>1, <2>2, InsertProcQMembers
  <2>. QED
    BY <2>1, <2>2, <2>3
<1>2. CASE ~ (q # <<>> /\ n_proc > 0)
  BY <1>2 DEF scheduling
<1>. QED
  BY <1>1, <1>2

(* A step that only schedules.                                              *)
LEMMA RescheduleQueues ==
  ASSUME TypeInv, QueueInv, scheduling(readyQueue), UNCHANGED <<aslVars, pcbFree>>
  PROVE  QueueInv'
<1>1. readyQueue \in Seq(PCB) /\ IsInjective(readyQueue)
  BY DEF TypeInv, TypeOK, QueueInv, ReadyOrFree
<1>2. /\ IsInjective(readyQueue')
      /\ \A r : getProc(readyQueue', r) <=> getProc(readyQueue, r)
      /\ mode' \in {"user", "halt"}
      /\ mode' = "user" => getProc(readyQueue', selected')
  BY <1>1, SchedulingMembers
<1>3. UNCHANGED <<s_procQ, p_semkey, pcbFree>>
  BY DEF aslVars
<1>4. ReadyOrFree'
  BY <1>2, <1>3 DEF QueueInv, ReadyOrFree
<1>5. BlockedOnKey'
  BY <1>3 DEF QueueInv, BlockedOnKey
<1>. QED
  BY <1>2, <1>4, <1>5 DEF QueueInv, SelectedReady

LEMMA TermProcessQueues ==
  ASSUME TypeInv, QueueInv, NEW STATE p, p \in PCB, NEW then \in {"resume", "scheduling"},
         mode = "user", then = "resume" => selected \notin Family(p), term_process(p, then)
  PROVE  QueueInv'
<1>1. CASE ~ getProc(readyQueue, p) /\ p_semkey[p] = NULL /\ then = "scheduling"
  BY <1>1, RescheduleQueues DEF term_process
<1>2. CASE ~ (~ getProc(readyQueue, p) /\ p_semkey[p] = NULL /\ then = "scheduling")
  <2>1. /\ UNCHANGED <<readyQueue, pcbFree, s_procQ, p_semkey, selected>>
        /\ UNCHANGED p_child
        /\ \/ mode' = mode
           \/ mode' = "term" /\ victim' = p /\ after' = then
    BY <1>2 DEF term_process, aslVars, treeVars
  <2>2. ReadyOrFree' /\ BlockedOnKey'
    BY <2>1 DEF QueueInv, ReadyOrFree, BlockedOnKey
  <2>3. getProc(readyQueue, selected)
    BY DEF QueueInv, SelectedReady
  <2>4. SelectedReady'
    <3>1. CASE mode' = mode
      BY <2>1, <2>3, <3>1 DEF SelectedReady
    <3>2. CASE mode' = "term" /\ victim' = p /\ after' = then
      <4>1. Family(victim)' = {q \in PCB : \A S \in SUBSET PCB :
                p \in S /\ (\A r \in S : p_child[r] \subseteq S) => q \in S}
        BY <2>1, <3>2 DEF Family
      <4>2. Family(victim)' = Family(p)
        BY <4>1 DEF Family
      <4>. QED
        BY <2>1, <2>3, <3>2, <4>2 DEF SelectedReady
    <3>. QED
      BY <2>1, <3>1, <3>2
  <2>. QED
    BY <2>1, <2>2, <2>4 DEF QueueInv
<1>. QED
  BY <1>1, <1>2

(* The PCB delete_ric is called on is a live member of the family.          *)
LEMMA DoomedLive ==
  ASSUME TypeInv, TreeInv, NEW STATE p, p \in doomed, mode = "term"
  PROVE  p \in PCB /\ p \notin pcbFree /\ p \in Family(victim)
  BY DEF TreeInv, Forest, live

LEMMA DeleteRicQueues ==
  ASSUME ListInv, NEW STATE p, p \in PCB, delete_ric(p)
  PROVE  QueueInv'
<1>. USE DEF ListInv
<1>1. p \notin pcbFree /\ p \in Family(victim)
  BY DoomedLive DEF delete_ric
<1>2. /\ mode = "term" /\ mode' = "term"
      /\ pcbFree' = pcbFree \cup {p}
      /\ UNCHANGED <<selected, p_child, victim, after>>
  BY <1>1 DEF delete_ric, freePcb, treeVars
<1>3. /\ BlockedOnKey'
      /\ IsInjective(readyQueue')
      /\ \A r \in PCB : getProc(readyQueue', r) <=> r # p /\ getProc(readyQueue, r)
      /\ \A r \in PCB : p_semkey'[r] = IF r = p THEN NULL ELSE p_semkey[r]
  <2>1. readyQueue \in Seq(PCB) /\ IsInjective(readyQueue)
    BY DEF TypeInv, TypeOK, QueueInv, ReadyOrFree
  <2>2. CASE p_semkey[p] = NULL
    <3>1. readyQueue' = outProcQ(readyQueue, p) /\ UNCHANGED <<s_procQ, p_semkey>>
      BY <2>2 DEF delete_ric, unlink, aslVars
    <3>. QED
      BY <2>1, <2>2, <3>1, OutProcQMembers DEF QueueInv, BlockedOnKey
  <2>3. CASE p_semkey[p] # NULL
    <3>1. outBlocked(p) /\ readyQueue' = readyQueue
      BY <2>3 DEF delete_ric, unlink
    <3>2. p_semkey[p] \in Key /\ unblock(p_semkey[p], p)
      BY <2>3, <3>1, OutBlockedQueues DEF TypeInv, QueueInv
    <3>3. BlockedOnKey' /\ p_semkey' = [p_semkey EXCEPT ![p] = NULL]
      BY <3>2, UnblockQueues DEF TypeInv, QueueInv
    <3>4. ~ getProc(readyQueue, p)
      BY <2>3 DEF QueueInv, ReadyOrFree
    <3>. QED
      BY <2>1, <3>1, <3>3, <3>4 DEF TypeInv, AslInv, AslTypeOK
  <2>. QED
    BY <2>2, <2>3
<1>4. ReadyOrFree'
  BY <1>2, <1>3 DEF QueueInv, ReadyOrFree
<1>5. SelectedReady'
  <2>1. Family(victim)' = Family(victim)
    BY <1>2 DEF Family
  <2>2. ASSUME after = "resume"
        PROVE  getProc(readyQueue', selected) /\ selected \notin Family(victim)
    BY <1>1, <1>2, <1>3, <2>2 DEF QueueInv, SelectedReady, TypeInv
  <2>. QED
    BY <1>2, <2>1, <2>2 DEF SelectedReady
<1>. QED
  BY <1>2, <1>3, <1>4, <1>5 DEF QueueInv

LEMMA CreateProcessQueues ==
  ASSUME TypeInv, QueueInv, NEW STATE v, create_process(v)
  PROVE  QueueInv'
<1>1. UNCHANGED <<s_procQ, selected, mode>> /\ mode = "user"
  BY DEF create_process, Caller
<1>2. /\ readyQueue \in Seq(PCB)
      /\ IsInjective(readyQueue)
      /\ getProc(readyQueue, selected)
  BY <1>1 DEF TypeInv, TypeOK, QueueInv, ReadyOrFree, SelectedReady
<1>3. CASE UNCHANGED <<readyQueue, p_semkey, pcbFree>>
  BY <1>1, <1>3 DEF QueueInv, ReadyOrFree, BlockedOnKey, SelectedReady
<1>4. ASSUME NEW new \in pcbFree, allocPcb(new),
             readyQueue' = insertProcQ(readyQueue, new, priority')
      PROVE  QueueInv'
  <2>1. new \in PCB /\ ~ getProc(readyQueue, new) /\ p_semkey[new] = NULL
    BY <1>4 DEF TypeInv, TypeOK, QueueInv, ReadyOrFree
  <2>2. /\ \A r : getProc(readyQueue', r) <=> r = new \/ getProc(readyQueue, r)
        /\ IsInjective(readyQueue')
    BY <1>2, <1>4, <2>1, InsertProcQMembers
  <2>3. p_semkey' = p_semkey /\ pcbFree' = pcbFree \ {new}
    BY <1>4, <2>1 DEF allocPcb, TypeInv, AslInv, AslTypeOK
  <2>4. ReadyOrFree'
    BY <2>1, <2>2, <2>3 DEF QueueInv, ReadyOrFree
  <2>5. BlockedOnKey'
    BY <1>1, <2>3 DEF QueueInv, BlockedOnKey
  <2>. QED
    BY <1>1, <1>2, <2>2, <2>4, <2>5 DEF QueueInv, SelectedReady
<1>. QED
  BY <1>3, <1>4 DEF create_process

LEMMA WakeQueues ==
  ASSUME TypeInv, QueueInv, NEW STATE k, k \in Key, Wake(k)
  PROVE  QueueInv'
<1>1. UNCHANGED <<selected, mode, pcbFree>> /\ mode = "user"
  BY DEF Wake
<1>2. /\ readyQueue \in Seq(PCB)
      /\ IsInjective(readyQueue)
      /\ getProc(readyQueue, selected)
  BY <1>1 DEF TypeInv, TypeOK, QueueInv, ReadyOrFree, SelectedReady
<1>3. CASE headBlocked(k) = NULL
  <2>1. UNCHANGED <<readyQueue, s_procQ, p_semkey>>
    BY <1>3 DEF Wake, removeBlocked, aslVars
  <2>. QED
    BY <1>1, <2>1 DEF QueueInv, ReadyOrFree, BlockedOnKey, SelectedReady
<1>4. CASE headBlocked(k) # NULL
  <2>. DEFINE p == headBlocked(k)
  <2>1. p \in PCB /\ p_semkey[p] = k /\ unblock(k, p)
    BY <1>4, RemoveBlockedQueues DEF Wake, TypeInv, QueueInv
  <2>2. readyQueue' = insertProcQ(readyQueue, p, priority)
    BY <1>4 DEF Wake
  <2>. HIDE DEF p
  <2>3. BlockedOnKey' /\ p_semkey' = [p_semkey EXCEPT ![p] = NULL]
    BY <2>1, UnblockQueues DEF TypeInv, QueueInv
  <2>4. ~ getProc(readyQueue, p) /\ p \notin pcbFree
    BY <2>1, TableAssumption DEF QueueInv, ReadyOrFree
  <2>5. /\ \A r : getProc(readyQueue', r) <=> r = p \/ getProc(readyQueue, r)
        /\ IsInjective(readyQueue')
    BY <1>2, <2>1, <2>2, <2>4, InsertProcQMembers
  <2>6. \A r \in PCB : p_semkey'[r] = IF r = p THEN NULL ELSE p_semkey[r]
    BY <2>3 DEF TypeInv, AslInv, AslTypeOK
  <2>7. ReadyOrFree'
    BY <1>1, <2>1, <2>4, <2>5, <2>6 DEF QueueInv, ReadyOrFree
  <2>. QED
    BY <1>1, <1>2, <2>3, <2>5, <2>7 DEF QueueInv, SelectedReady
<1>. QED
  BY <1>3, <1>4

(* The caller of passeren is live, so that it blocks, and it is not         *)
(* blocked, so that there is a descriptor for its semaphore.                *)
LEMMA PasserenQueues ==
  ASSUME TypeInv, QueueInv, NEW STATE k, k \in Key, passeren(k)
  PROVE  QueueInv'
<1>1. UNCHANGED pcbFree /\ mode = "user"
  BY DEF passeren, Caller
<1>2. /\ readyQueue \in Seq(PCB)
      /\ IsInjective(readyQueue)
      /\ selected \in PCB
      /\ getProc(readyQueue, selected)
      /\ p_semkey[selected] = NULL
      /\ selected \notin pcbFree
  BY <1>1 DEF TypeInv, TypeOK, QueueInv, ReadyOrFree, SelectedReady
<1>3. CASE UNCHANGED <<aslVars, readyQueue, priority, selected, mode>>
  <2>1. UNCHANGED <<s_procQ, p_semkey, readyQueue, selected, mode>>
    BY <1>3 DEF aslVars
  <2>. QED
    BY <1>1, <2>1 DEF QueueInv, ReadyOrFree, BlockedOnKey, SelectedReady
<1>4. CASE insertBlocked(k, selected) /\ scheduling(outProcQ(readyQueue, selected))
  <2>. DEFINE q == outProcQ(readyQueue, selected)
  <2>1. BlockedOnKey' /\ p_semkey' = [p_semkey EXCEPT ![selected] = k]
    BY <1>2, <1>4, InsertBlockedQueues DEF TypeInv, QueueInv
  <2>2. /\ q \in Seq(PCB)
        /\ \A r : getProc(q, r) <=> r # selected /\ getProc(readyQueue, r)
        /\ IsInjective(q)
    BY <1>2, OutProcQMembers
  <2>3. scheduling(q)
    BY <1>4
  <2>. HIDE DEF q
  <2>4. /\ IsInjective(readyQueue')
        /\ \A r : getProc(readyQueue', r) <=> r # selected /\ getProc(readyQueue, r)
        /\ mode' \in {"user", "halt"}
        /\ mode' = "user" => getProc(readyQueue', selected')
    BY <2>2, <2>3, SchedulingMembers
  <2>5. \A r \in PCB : p_semkey'[r] = IF r = selected THEN k ELSE p_semkey[r]
    BY <1>2, <2>1 DEF TypeInv, AslInv, AslTypeOK
  <2>6. ReadyOrFree'
    BY <1>1, <1>2, <2>4, <2>5, TableAssumption DEF QueueInv, ReadyOrFree
  <2>. QED
    BY <2>1, <2>4, <2>6 DEF QueueInv, SelectedReady
<1>. QED
  BY <1>2, <1>3, <1>4 DEF passeren

LEMMA TermDoneQueues ==
  ASSUME TypeInv, QueueInv, TermDone
  PROVE  QueueInv'
<1>1. CASE after = "scheduling"
  BY <1>1, RescheduleQueues DEF TermDone
<1>2. CASE after # "scheduling"
  <2>1. UNCHANGED <<s_procQ, p_semkey, pcbFree, readyQueue, selected>> /\ mode' = "user"
    BY <1>2 DEF TermDone, aslVars
  <2>2. getProc(readyQueue, selected)
    BY <1>2 DEF TermDone, QueueInv, SelectedReady, TypeInv, TypeOK
  <2>. QED
    BY <2>1, <2>2 DEF QueueInv, ReadyOrFree, BlockedOnKey, SelectedReady
<1>. QED
  BY <1>1, <1>2

LEMMA NextQueueInv ==
  ASSUME ~ KillsOwnAncestry, ListInv, [Step]_vars
  PROVE  QueueInv'
<1>. USE DEF ListInv
<1>1. CASE Boot
  BY <1>1, RescheduleQueues DEF Boot
<1>2. ASSUME NEW v \in Priority, create_process(v)
      PROVE  QueueInv'
  BY <1>2, CreateProcessQueues
<1>3. CASE TerminateSelf
  BY <1>3, TermProcessQueues DEF TerminateSelf, Caller, TypeInv
<1>4. ASSUME NEW p \in PCB, TerminatePid(p)
      PROVE  QueueInv'
  BY <1>4, TermProcessQueues DEF TerminatePid, Caller
<1>5. ASSUME NEW p \in PCB, delete_ric(p)
      PROVE  QueueInv'
  BY <1>5, DeleteRicQueues
<1>6. CASE TermDone
  BY <1>6, TermDoneQueues
<1>7. ASSUME NEW k \in Key, Wake(k) \/ passeren(k)
      PROVE  QueueInv'
  BY <1>7, WakeQueues, PasserenQueues
<1>8. CASE UNCHANGED <<aslVars, schedVars, pcbFree, treeVars, termVars>>
  <2>1. UNCHANGED <<readyQueue, pcbFree, s_procQ, p_semkey, selected, mode, after, victim, p_child>>
    BY <1>8 DEF aslVars, schedVars, treeVars, termVars
  <2>2. Family(victim)' = Family(victim)
    BY <2>1 DEF Family
  <2>. QED
    BY <2>1, <2>2 DEF QueueInv, ReadyOrFree, BlockedOnKey, SelectedReady
<1>9. ASSUME NEW t \in PassType, specpassup(t)
      PROVE  QueueInv'
  <2>1. CASE t \in PassType \ passup[selected]
    BY <1>8, <1>9, <2>1 DEF specpassup
  <2>2. CASE t \notin PassType \ passup[selected]
    BY <1>9, <2>2, TermProcessQueues DEF specpassup, Caller, TypeInv
  <2>. QED
    BY <2>1, <2>2
<1>10. CASE UnknownSyscall \/ tlb_H \/ trap_H
  BY <1>10, TermProcessQueues DEF UnknownSyscall, tlb_H, trap_H, PassUpOrDie, Caller, TypeInv
<1>11. CASE TimerInterrupt
  BY <1>11, RescheduleQueues DEF TimerInterrupt
<1>12. CASE UNCHANGED vars \/ Stopped
  BY <1>8, <1>12 DEF Stopped, vars
<1>. QED
  BY <1>1, <1>2, <1>3, <1>4, <1>5, <1>6, <1>7, <1>9, <1>10, <1>11, <1>12,
     VerhogenWakes DEF Next, Step
------------------------------------------------------------------------------
LEMMA ForestKept ==
  ASSUME TreeInv, UNCHANGED <<pcbFree, p_parent, p_child>>, mode # "term", mode' # "term"
  PROVE  TreeInv'
<1>1. PICK r \in [PCB -> Nat] : Forest(r)
  BY DEF TreeInv
<1>2. Forest(r)'
  BY <1>1 DEF Forest, live
<1>. QED
  BY <1>2 DEF TreeInv

LEMMA TermProcessForest ==
  ASSUME TypeInv, QueueInv, TreeInv, NEW STATE p, p \in PCB, NEW then, mode = "user",
         term_process(p, then)
  PROVE  TreeInv'
<1>1. CASE ~ getProc(readyQueue, p) /\ p_semkey[p] = NULL
  <2>1. UNCHANGED <<pcbFree, treeVars>>
    BY <1>1 DEF term_process
  <2>2. mode' # "term"
    <3>1. CASE then = "scheduling"
      BY <1>1, <3>1 DEF term_process, scheduling
    <3>2. CASE then # "scheduling"
      BY <1>1, <3>2 DEF term_process
    <3>. QED
      BY <3>1, <3>2
  <2>. QED
    BY <2>1, <2>2, ForestKept DEF treeVars
<1>2. CASE ~ (~ getProc(readyQueue, p) /\ p_semkey[p] = NULL)
  <2>1. PICK r \in [PCB -> Nat] : Forest(r)
    BY DEF TreeInv
  <2>2. /\ UNCHANGED <<pcbFree, p_parent, p_child>>
        /\ mode' = "term" /\ doomed' = {p} /\ victim' = p
    BY <1>2 DEF term_process, treeVars
  <2>3. p \notin pcbFree
    BY <1>2 DEF QueueInv, ReadyOrFree
  <2>4. Family(victim)' = {q \in PCB : \A S \in SUBSET PCB :
            p \in S /\ (\A d \in S : p_child[d] \subseteq S) => q \in S}
    BY <2>2 DEF Family
  <2>5. p \in Family(victim)'
    BY <2>4
  <2>6. Forest(r)'
    <3>1. /\ \A q \in live' : \A c \in p_child'[q] : p_parent'[c] = q /\ r[q] < r[c]
          /\ \A q \in live' : \A c \in p_child'[q] : c \in live'
      BY <2>1, <2>2 DEF Forest, live
    <3>2. doomed' \subseteq live' \cap Family(victim)'
      BY <2>2, <2>3, <2>5 DEF live
    <3>3. r[p] \in Nat /\ \A d \in doomed' : d = victim' /\ r[victim'] <= r[d]
      BY <2>2
    <3>. QED
      BY <2>2, <3>1, <3>2, <3>3 DEF Forest
  <2>. QED
    BY <2>6 DEF TreeInv
<1>. QED
  BY <1>1, <1>2

LEMMA CreateProcessForest ==
  ASSUME TypeInv, QueueInv, TreeInv, NEW STATE v, create_process(v)
  PROVE  TreeInv'
<1>1. UNCHANGED <<mode, selected>> /\ mode = "user"
  BY DEF create_process, Caller
<1>2. CASE UNCHANGED <<pcbFree, treeVars>>
  BY <1>1, <1>2, ForestKept DEF treeVars
<1>3. ASSUME NEW new \in pcbFree, allocPcb(new), insertChild(selected, new)
      PROVE  TreeInv'
  <2>1. PICK r \in [PCB -> Nat] : Forest(r)
    BY DEF TreeInv
  <2>2. selected \in live /\ new \in PCB /\ new \notin live
    BY <1>1, <1>3 DEF TypeInv, TypeOK, QueueInv, ReadyOrFree, SelectedReady, live
  <2>3. selected # new /\ selected \in PCB
    BY <2>2 DEF live
  <2>4. PICK depth \in [PCB -> Nat] : /\ \A q \in PCB : q # new => depth[q] = r[q]
                                     /\ depth[new] = r[selected] + 1
    <3>. DEFINE d == [r EXCEPT ![new] = r[selected] + 1]
    <3>1. /\ d \in [PCB -> Nat]
          /\ \A q \in PCB : q # new => d[q] = r[q]
          /\ d[new] = r[selected] + 1
      BY <2>2, <2>3
    <3>. HIDE DEF d
    <3>. QED
      BY <3>1
  <2>5. /\ \A q \in PCB : p_parent'[q] = IF q = new THEN selected ELSE p_parent[q]
        /\ \A q \in PCB : p_child'[q] = IF q = new THEN {}
                                        ELSE IF q = selected THEN p_child[q] \cup {new}
                                        ELSE p_child[q]
    BY <1>3, <2>2, <2>3 DEF insertChild, TypeInv, TypeOK
  <2>6. live' = live \cup {new}
    BY <1>3, <2>2 DEF allocPcb, live
  <2>7. \A q \in live : q \in PCB /\ \A c \in p_child[q] : c \in live /\ c \in PCB
    BY <1>1, <2>1 DEF Forest, live
  <2>8. ASSUME NEW q \in live', NEW c \in p_child'[q]
        PROVE  p_parent'[c] = q /\ depth[q] < depth[c] /\ c \in live'
    <3>1. q # new /\ q \in live
      BY <2>2, <2>5, <2>6, <2>8
    <3>2. CASE c = new
      <4>1. q = selected
        BY <2>2, <2>5, <2>7, <2>8, <3>1, <3>2
      <4>2. depth[q] < depth[c]
        BY <2>3, <2>4, <3>2, <4>1
      <4>. QED
        BY <2>2, <2>5, <2>6, <3>2, <4>1, <4>2
    <3>3. CASE c # new
      <4>1. c \in p_child[q]
        BY <2>5, <2>7, <2>8, <3>1, <3>3
      <4>2. p_parent[c] = q /\ r[q] < r[c]
        BY <2>1, <3>1, <4>1 DEF Forest
      <4>. QED
        BY <2>4, <2>5, <2>6, <2>7, <3>1, <3>3, <4>1, <4>2
    <3>. QED
      BY <3>2, <3>3
  <2>9. Forest(depth)'
    BY <1>1, <2>8 DEF Forest
  <2>. QED
    BY <2>4, <2>9 DEF TreeInv
<1>. QED
  BY <1>2, <1>3 DEF create_process

LEMMA DeleteRicForest ==
  ASSUME TypeInv, TreeInv, NEW STATE p, p \in PCB, delete_ric(p)
  PROVE  TreeInv'
<1>1. PICK r \in [PCB -> Nat] : Forest(r)
  BY DEF TreeInv
<1>2. p \in live /\ p \in Family(victim) /\ p \in doomed /\ mode = "term"
  BY <1>1 DEF delete_ric, Forest
<1>3. /\ UNCHANGED <<p_parent, p_child, victim>>
      /\ mode' = "term"
      /\ live' = live \ {p}
      /\ doomed' = (doomed \ {p}) \cup p_child[p]
  BY <1>2 DEF delete_ric, freePcb, progeny, treeVars, live
<1>4. /\ \A q \in PCB : p_child[q] \subseteq PCB
      /\ live \subseteq PCB
      /\ victim \in PCB
  BY <1>1, <1>2 DEF TypeInv, TypeOK, live, Forest
<1>5. \A q \in PCB : r[q] \in Nat
  OBVIOUS
<1>6. ASSUME NEW q \in live', NEW c \in p_child'[q]
      PROVE  p_parent'[c] = q /\ r[q] < r[c] /\ (c \in live' \/ c = victim')
  <2>1. q \in live /\ c \in p_child[q]
    BY <1>3, <1>6
  <2>2. p_parent[c] = q /\ r[q] < r[c] /\ (c \in live \/ c = victim)
    BY <1>1, <2>1 DEF Forest
  <2>3. c = p => c = victim
    BY <1>1, <1>2, <2>1, <2>2 DEF Forest
  <2>. QED
    BY <1>3, <2>2, <2>3
<1>7. ASSUME NEW d \in doomed'
      PROVE  /\ d \in live' /\ d \in Family(victim)
             /\ d = victim' \/ p_parent'[d] \notin live'
             /\ r[victim'] <= r[d]
  <2>1. CASE d \in doomed \ {p}
    BY <1>1, <1>2, <1>3, <2>1 DEF Forest
  <2>2. CASE d \in p_child[p]
    <3>1. p_parent[d] = p /\ r[p] < r[d] /\ (d \in live \/ d = victim) /\ r[victim] <= r[p]
      BY <1>1, <1>2, <2>2 DEF Forest
    <3>2. d # victim /\ d # p /\ r[victim] <= r[d]
      BY <1>2, <1>4, <1>5, <2>2, <3>1
    <3>3. d \in Family(victim)
      BY <1>2, <1>4, <2>2, FamilyClosed
    <3>. QED
      BY <1>3, <3>1, <3>2, <3>3
  <2>. QED
    BY <1>3, <2>1, <2>2
<1>8. Family(victim)' = Family(victim)
  BY <1>3 DEF Family
<1>9. Forest(r)'
  BY <1>3, <1>4, <1>6, <1>7, <1>8 DEF Forest
<1>. QED
  BY <1>9 DEF TreeInv

LEMMA TermDoneForest ==
  ASSUME TypeInv, TreeInv, TermDone
  PROVE  TreeInv'
<1>1. PICK r \in [PCB -> Nat] : Forest(r)
  BY DEF TreeInv
<1>2. mode = "term" /\ UNCHANGED pcbFree
  BY DEF TermDone
<1>3. mode' # "term"
  <2>1. CASE after = "scheduling"
    BY <2>1 DEF TermDone, scheduling
  <2>2. CASE after # "scheduling"
    BY <2>2 DEF TermDone
  <2>. QED
    BY <2>1, <2>2
<1>4. live' = live /\ live \subseteq PCB /\ victim \in PCB
  BY <1>1, <1>2 DEF live, Forest
<1>5. ASSUME NEW q \in live, NEW c, c \in p_child'[q]
      PROVE  c \in p_child[q] /\ c # victim /\ p_parent'[c] = p_parent[c]
  <2>1. CASE p_parent[victim] = NULL
    <3>1. UNCHANGED <<p_parent, p_child>>
      BY <2>1 DEF TermDone, outChild, treeVars
    <3>2. p_parent[c] = q /\ q # NULL
      BY <1>1, <1>4, <1>5, <3>1, TableAssumption DEF Forest
    <3>. QED
      BY <1>5, <2>1, <3>1, <3>2
  <2>2. CASE p_parent[victim] # NULL
    <3>1. /\ p_child' = [p_child EXCEPT ![p_parent[victim]] = @ \ {victim}]
          /\ p_parent' = [p_parent EXCEPT ![victim] = NULL]
      BY <2>2 DEF TermDone, outChild
    <3>2. c \in p_child[q] /\ (q = p_parent[victim] => c # victim)
      BY <1>4, <1>5, <3>1 DEF TypeInv, TypeOK
    <3>3. p_parent[c] = q /\ c \in PCB
      BY <1>1, <1>4, <3>2 DEF Forest, TypeInv, TypeOK
    <3>4. c # victim
      BY <3>2, <3>3
    <3>. QED
      BY <3>1, <3>2, <3>3, <3>4 DEF TypeInv, TypeOK
  <2>. QED
    BY <2>1, <2>2
<1>6. Forest(r)'
  BY <1>1, <1>3, <1>4, <1>5 DEF Forest
<1>. QED
  BY <1>6 DEF TreeInv

LEMMA NextTreeInv ==
  ASSUME ListInv, [Step]_vars
  PROVE  TreeInv'
<1>. USE DEF ListInv
<1>1. ASSUME scheduling(readyQueue), UNCHANGED <<pcbFree, treeVars>>, mode # "term"
      PROVE  TreeInv'
  BY <1>1, ForestKept DEF scheduling, treeVars
<1>2. CASE Boot \/ TimerInterrupt
  BY <1>1, <1>2 DEF Boot, TimerInterrupt
<1>3. ASSUME NEW v \in Priority, create_process(v)
      PROVE  TreeInv'
  BY <1>3, CreateProcessForest
<1>4. CASE TerminateSelf
  BY <1>4, TermProcessForest DEF TerminateSelf, Caller, TypeInv
<1>5. ASSUME NEW p \in PCB, TerminatePid(p)
      PROVE  TreeInv'
  BY <1>5, TermProcessForest DEF TerminatePid, Caller
<1>6. ASSUME NEW p \in PCB, delete_ric(p)
      PROVE  TreeInv'
  BY <1>6, DeleteRicForest
<1>7. CASE TermDone
  BY <1>7, TermDoneForest
<1>8. ASSUME NEW k \in Key, Wake(k) \/ passeren(k)
      PROVE  TreeInv'
  <2>1. mode = "user" /\ UNCHANGED <<pcbFree, treeVars>>
    BY <1>8 DEF Wake, passeren, Caller
  <2>2. mode' # "term"
    BY <1>8, <2>1 DEF Wake, passeren, scheduling
  <2>. QED
    BY <2>1, <2>2, ForestKept DEF treeVars
<1>9. ASSUME NEW t \in PassType, specpassup(t)
      PROVE  TreeInv'
  <2>1. CASE t \in PassType \ passup[selected]
    BY <1>9, <2>1, ForestKept DEF specpassup, Caller, treeVars, schedVars
  <2>2. CASE t \notin PassType \ passup[selected]
    BY <1>9, <2>2, TermProcessForest DEF specpassup, Caller, TypeInv
  <2>. QED
    BY <2>1, <2>2
<1>10. CASE UnknownSyscall \/ tlb_H \/ trap_H
  BY <1>10, TermProcessForest DEF UnknownSyscall, tlb_H, trap_H, PassUpOrDie, Caller, TypeInv
<1>11. CASE UNCHANGED vars \/ Stopped
  <2>1. UNCHANGED <<schedVars, pcbFree, treeVars, termVars>>
    BY <1>11 DEF Stopped, vars
  <2>2. UNCHANGED <<mode, pcbFree, p_parent, p_child, doomed, victim>>
    BY <2>1 DEF schedVars, treeVars, termVars
  <2>3. PICK r \in [PCB -> Nat] : Forest(r)
    BY DEF TreeInv
  <2>4. Family(victim)' = Family(victim)
    BY <2>2 DEF Family
  <2>5. Forest(r)'
    BY <2>2, <2>3, <2>4 DEF Forest, live
  <2>. QED
    BY <2>5 DEF TreeInv
<1>. QED
  BY <1>2, <1>3, <1>4, <1>5, <1>6, <1>7, <1>8, <1>9, <1>10, <1>11,
     VerhogenWakes DEF Next, Step
------------------------------------------------------------------------------
LEMMA InitListInv == Init => ListInv
<1>. SUFFICES ASSUME Init PROVE ListInv
  OBVIOUS
<1>1. /\ idle \in PCB /\ pcb_test \in PCB /\ idle # pcb_test
      /\ NULL \notin PCB /\ NULL \notin Key
  BY NucleusAssumption, TableAssumption
<1>2. /\ \A p : getProc(<<pcb_test, idle>>, p) <=> p = pcb_test \/ p = idle
      /\ IsInjective(<<pcb_test, idle>>)
      /\ \A p : ~ getProc(<<>>, p)
      /\ IsInjective(<<>>)
  BY <1>1 DEF getProc, IsInjective
<1>3. ReadyOrFree
  BY <1>1, <1>2 DEF Init, initASL, ReadyOrFree
<1>4. BlockedOnKey
  BY <1>1, <1>2 DEF Init, initASL, BlockedOnKey
<1>5. QueueInv
  BY <1>3, <1>4 DEF Init, QueueInv, SelectedReady
<1>6. TreeInv
  <2>1. [p \in PCB |-> 0] \in [PCB -> Nat]
    OBVIOUS
  <2>2. \A r : Forest(r)
    BY DEF Init, Forest, live
  <2>. QED
    BY <2>1, <2>2 DEF TreeInv
<1>. QED
  BY <1>5, <1>6, InitTypeInv DEF ListInv

LEMMA NextListInv ==
  ASSUME ~ KillsOwnAncestry
  PROVE  ListInv /\ [Step]_vars => ListInv'
  BY NextTypeInv, NextQueueInv, NextTreeInv DEF ListInv

(* As long as no process terminates itself or an ancestor by pid, every PCB *)
(* is on exactly one of the free list, the ready queue and the queue of the *)
(* semaphore it names, at all times of any run.                             *)
THEOREM ListsDisciplined ==
  ASSUME ~ KillsOwnAncestry
  PROVE  Spec => []ListDiscipline
<1>1. ListInv => ListDiscipline
  BY QueueInvIsListDiscipline DEF ListInv
<1>. QED
  BY <1>1, InitListInv, NextListInv, NextIsStep, PTL DEF Spec

(* ... the process that runs is on the ready queue.                         *)
THEOREM RunningStaysReady ==
  ASSUME ~ KillsOwnAncestry
  PROVE  Spec => []RunningIsReady
<1>1. ListInv => RunningIsReady
  BY QueueInvIsListDiscipline DEF ListInv
<1>. QED
  BY <1>1, InitListInv, NextListInv, NextIsStep, PTL DEF Spec

(* ... and only the family of the process being terminated is freed: a      *)
(* termination reaches nobody else, in whatever order it walks the tree.    *)
THEOREM TerminationStaysInFamily ==
  ASSUME ~ KillsOwnAncestry
  PROVE  Spec => OnlyFamilyDies
<1>1. ASSUME ListInv, [Next]_vars, NEW p \in live, p \in pcbFree'
      PROVE  p \in Family(victim)
  <2>1. p \in PCB /\ p \notin pcbFree
    BY <1>1 DEF live
  <2>2. PICK d \in PCB : delete_ric(d)
    <3>1. pcbFree' # pcbFree
      BY <1>1, <2>1
    <3>2. \/ \E v \in Priority : create_process(v)
          \/ \E d \in PCB : delete_ric(d)
      BY <1>1, <3>1
      DEF Next, vars, Boot, TerminateSelf, TerminatePid, TermDone, verhogen, passeren,
          specpassup, UnknownSyscall, tlb_H, trap_H, PassUpOrDie, term_process,
          TimerInterrupt, Stopped
    <3>3. ASSUME NEW v \in Priority, create_process(v)
          PROVE  FALSE
      BY <1>1, <2>1, <3>3 DEF create_process, allocPcb
    <3>. QED
      BY <3>2, <3>3
  <2>3. p = d
    BY <1>1, <2>1, <2>2 DEF delete_ric, freePcb
  <2>. QED
    BY <1>1, <2>2, <2>3, DoomedLive DEF delete_ric, ListInv
<1>2. ListInv /\ [Next]_vars => [\A p \in live : p \in pcbFree' => p \in Family(victim)]_vars
  BY <1>1
<1>. QED
  BY <1>2, InitListInv, NextListInv, NextIsStep, PTL DEF Spec, OnlyFamilyDies

(* ... and is a live one, as the comment on term_process has it: finding 3  *)
(* needs a process that terminates its own ancestry.                        *)
THEOREM OnlyTheLiveRun ==
  ASSUME ~ KillsOwnAncestry
  PROVE  Spec => []DeadDoNotRun
<1>1. ListInv => DeadDoNotRun
  BY DEF ListInv, TypeInv, TypeOK, QueueInv, ReadyOrFree, SelectedReady, DeadDoNotRun, live
<1>. QED
  BY <1>1, InitListInv, NextListInv, NextIsStep, PTL DEF Spec
------------------------------------------------------------------------------
(* One V on semaphore k, or the deletion of a process waiting on it.         *)
LEMMA CountUp ==
  ASSUME TypeInv, SemaphoreCount, NEW STATE k, k \in Key,
         semval' = [semval EXCEPT ![k] = @ + 1],
         \A j \in Key : Len(s_procQ'[j]) =
           IF j = k /\ semval[k] < 0 THEN Len(s_procQ[j]) - 1 ELSE Len(s_procQ[j])
  PROVE  SemaphoreCount'
<1>1. \A j \in Key : /\ semval[j] \in Int
                     /\ semval'[j] = IF j = k THEN semval[j] + 1 ELSE semval[j]
  BY DEF TypeInv, TypeOK
<1>2. ASSUME NEW j \in Key
      PROVE  Len(s_procQ'[j]) = IF semval'[j] < 0 THEN - semval'[j] ELSE 0
  <2>1. Len(s_procQ[j]) = (IF semval[j] < 0 THEN - semval[j] ELSE 0)
    BY DEF SemaphoreCount
  <2>2. Len(s_procQ'[j]) = IF j = k /\ semval[j] < 0 THEN Len(s_procQ[j]) - 1 ELSE Len(s_procQ[j])
    OBVIOUS
  <2>3. CASE j = k
    BY <1>1, <2>1, <2>2, <2>3
  <2>4. CASE j # k
    BY <1>1, <2>1, <2>2, <2>4
  <2>. QED
    BY <2>3, <2>4
<1>. QED
  BY <1>2 DEF SemaphoreCount

(* One P on semaphore k.                                                    *)
LEMMA CountDown ==
  ASSUME TypeInv, SemaphoreCount, NEW STATE k, k \in Key,
         semval' = [semval EXCEPT ![k] = @ - 1],
         \A j \in Key : Len(s_procQ'[j]) =
           IF j = k /\ semval[k] <= 0 THEN Len(s_procQ[j]) + 1 ELSE Len(s_procQ[j])
  PROVE  SemaphoreCount'
<1>1. \A j \in Key : /\ semval[j] \in Int
                     /\ semval'[j] = IF j = k THEN semval[j] - 1 ELSE semval[j]
  BY DEF TypeInv, TypeOK
<1>2. ASSUME NEW j \in Key
      PROVE  Len(s_procQ'[j]) = IF semval'[j] < 0 THEN - semval'[j] ELSE 0
  <2>1. Len(s_procQ[j]) = (IF semval[j] < 0 THEN - semval[j] ELSE 0)
    BY DEF SemaphoreCount
  <2>2. Len(s_procQ'[j]) = IF j = k /\ semval[j] <= 0 THEN Len(s_procQ[j]) + 1 ELSE Len(s_procQ[j])
    OBVIOUS
  <2>3. CASE j = k
    BY <1>1, <2>1, <2>2, <2>3
  <2>4. CASE j # k
    BY <1>1, <2>1, <2>2, <2>4
  <2>. QED
    BY <2>3, <2>4
<1>. QED
  BY <1>2 DEF SemaphoreCount

(* A queue is empty exactly when its semaphore is not negative.             *)
LEMMA EmptyQueue ==
  ASSUME TypeInv, SemaphoreCount, NEW STATE k, k \in Key
  PROVE  s_procQ[k] = <<>> <=> ~ (semval[k] < 0)
<1>1. s_procQ[k] \in Seq(PCB) /\ semval[k] \in Int
  BY DEF TypeInv, TypeOK, AslTypeOK
<1>2. Len(s_procQ[k]) = 0 <=> s_procQ[k] = <<>>
  BY <1>1, EmptySeq
<1>. QED
  BY <1>1, <1>2 DEF SemaphoreCount

LEMMA NextSemaphoreCount ==
  ASSUME ListInv, SemaphoreCount, [Step]_vars
  PROVE  SemaphoreCount'
<1>. USE DEF ListInv
<1>1. CASE UNCHANGED <<s_procQ, semval>>
  BY <1>1 DEF SemaphoreCount
<1>2. ASSUME NEW k \in Key, Wake(k)
      PROVE  SemaphoreCount'
  <2>1. semval' = [semval EXCEPT ![k] = @ + 1]
    BY <1>2 DEF Wake
  <2>2. s_procQ[k] \in Seq(PCB) /\ NULL \notin PCB
    BY TableAssumption DEF TypeInv, TypeOK, AslTypeOK
  <2>3. CASE headBlocked(k) = NULL
    <3>1. s_procQ' = s_procQ
      BY <1>2, <2>3 DEF Wake, removeBlocked, aslVars
    <3>2. s_procQ[k] = <<>>
      BY <2>2, <2>3, HeadTailProperties DEF headBlocked, TypeInv, AslInv, SemdAccounting
    <3>3. ~ (semval[k] < 0)
      BY <3>2, EmptyQueue
    <3>. QED
      BY <2>1, <3>1, <3>3, CountUp
  <2>4. CASE headBlocked(k) # NULL
    <3>1. \A j \in Key : Len(s_procQ'[j]) = IF j = k THEN Len(s_procQ[j]) - 1 ELSE Len(s_procQ[j])
      BY <1>2, <2>4, RemoveBlockedQueues, UnblockQueues DEF Wake, TypeInv, QueueInv
    <3>2. semval[k] < 0
      BY <2>4, EmptyQueue DEF headBlocked
    <3>. QED
      BY <2>1, <3>1, <3>2, CountUp
  <2>. QED
    BY <2>3, <2>4
<1>3. ASSUME NEW k \in Key, passeren(k)
      PROVE  SemaphoreCount'
  <2>1. /\ semval' = [semval EXCEPT ![k] = @ - 1]
        /\ semval[k] \in Int
    BY <1>3 DEF passeren, TypeInv, TypeOK
  <2>2. CASE semval[k] > 0 /\ UNCHANGED aslVars
    <3>1. s_procQ' = s_procQ /\ ~ (semval[k] <= 0)
      BY <2>1, <2>2 DEF aslVars
    <3>. QED
      BY <2>1, <3>1, CountDown
  <2>3. CASE semval[k] <= 0 /\ insertBlocked(k, selected)
    <3>1. selected \in PCB /\ p_semkey[selected] = NULL
      BY <1>3 DEF passeren, Caller, TypeInv, TypeOK, QueueInv, ReadyOrFree, SelectedReady
    <3>2. \A j \in Key : Len(s_procQ'[j]) = IF j = k THEN Len(s_procQ[j]) + 1 ELSE Len(s_procQ[j])
      BY <2>3, <3>1, InsertBlockedQueues DEF TypeInv, QueueInv
    <3>. QED
      BY <2>1, <2>3, <3>2, CountDown
  <2>4. selected \notin pcbFree
    BY <1>3 DEF passeren, Caller, TypeInv, TypeOK, QueueInv, ReadyOrFree, SelectedReady
  <2>. QED
    BY <1>3, <2>2, <2>3, <2>4 DEF passeren
<1>4. ASSUME NEW p \in PCB, delete_ric(p)
      PROVE  SemaphoreCount'
  <2>1. CASE p_semkey[p] = NULL
    BY <1>1, <1>4, <2>1 DEF delete_ric, unlink, aslVars
  <2>2. CASE p_semkey[p] # NULL
    <3>. DEFINE k == p_semkey[p]
    <3>1. outBlocked(p) /\ semval' = [semval EXCEPT ![k] = @ + 1]
      BY <1>4, <2>2 DEF delete_ric, unlink
    <3>2. k \in Key /\ unblock(k, p)
      BY <2>2, <3>1, OutBlockedQueues DEF TypeInv, QueueInv
    <3>3. \A j \in Key : Len(s_procQ'[j]) = IF j = k THEN Len(s_procQ[j]) - 1 ELSE Len(s_procQ[j])
      BY <3>2, UnblockQueues DEF TypeInv, QueueInv
    <3>4. s_procQ[k] # <<>>
      BY <3>2 DEF QueueInv, BlockedOnKey, getProc
    <3>5. semval[k] < 0
      BY <3>2, <3>4, EmptyQueue
    <3>. QED
      BY <3>1, <3>2, <3>3, <3>5, CountUp
  <2>. QED
    BY <2>1, <2>2
<1>5. CASE UNCHANGED vars \/ Stopped
  BY <1>1, <1>5 DEF Stopped, vars, aslVars
<1>6. ASSUME NEW v \in Priority, create_process(v)
      PROVE  SemaphoreCount'
  BY <1>1, <1>6 DEF create_process
<1>7. CASE Boot \/ TermDone \/ TimerInterrupt
  BY <1>1, <1>7 DEF Boot, TermDone, TimerInterrupt, aslVars
<1>8. ASSUME NEW p, NEW then, term_process(p, then)
      PROVE  SemaphoreCount'
  BY <1>1, <1>8 DEF term_process, aslVars
<1>9. ASSUME NEW t \in PassType, specpassup(t)
      PROVE  SemaphoreCount'
  BY <1>1, <1>8, <1>9 DEF specpassup, aslVars
<1>10. ASSUME NEW p \in PCB, TerminatePid(p)
       PROVE  SemaphoreCount'
  BY <1>8, <1>10 DEF TerminatePid
<1>11. CASE TerminateSelf \/ UnknownSyscall \/ tlb_H \/ trap_H
  BY <1>8, <1>11 DEF TerminateSelf, UnknownSyscall, tlb_H, trap_H, PassUpOrDie
<1>. QED
  BY <1>2, <1>3, <1>4, <1>5, <1>6, <1>7, <1>9, <1>10, <1>11,
     VerhogenWakes DEF Next, Step

(* A negative semaphore counts its waiters and the others have none, for    *)
(* any number of processes and semaphores and any initial values not        *)
(* negative.                                                                *)
THEOREM SemaphoresCount ==
  ASSUME ~ KillsOwnAncestry
  PROVE  Spec => []SemaphoreCount
<1>1. Init => SemaphoreCount
  <2>1. \A n \in 0 .. SemBound : ~ (n < 0)
    BY NucleusAssumption
  <2>. QED
    BY <2>1 DEF Init, initASL, SemaphoreCount
<1>2. ListInv /\ SemaphoreCount /\ [Step]_vars => SemaphoreCount'
  BY NextSemaphoreCount
<1>. QED
  BY <1>1, <1>2, InitListInv, NextListInv, NextIsStep, PTL DEF Spec
------------------------------------------------------------------------------
(* The order of the ready queue, aging, idle and halting, when nobody       *)
(* terminates an ancestor of the caller.  What depends on the order is      *)
(* proved for processes whose priority is above that of idle.               *)

PrioritiesAboveIdle == \A v \in Priority : IDLE_PRIORITY < v

(* idle is always ready, belongs to nobody's family, makes no call and has  *)
(* its priority for ever.                                                   *)
IdleInv ==
  /\ getProc(readyQueue, idle)
  /\ idle \notin doomed
  /\ \A p \in live : idle \notin p_child[p]
  /\ mode = "term" => selected # idle
  /\ priority[idle] = IDLE_PRIORITY
  /\ original_priority[idle] = IDLE_PRIORITY

(* n_proc is the number of processes, idle left out, and of CREATEPROCESS   *)
(* that have failed.                                                        *)
CountInv ==
  /\ n_proc - Cardinality(live \ {idle}) \in 0 .. MaxFailedCreates
  /\ mode = "user" /\ selected = idle => n_proc > 0

CountedInv == ListInv /\ IdleInv /\ CountInv /\ HaltOnlyWhenDone

(* A process only ages while it is ready and does not run: one that runs    *)
(* or is blocked has its original priority.                                 *)
PriorityInv ==
  /\ \A p \in live \ {idle} :
       /\ IDLE_PRIORITY < original_priority[p]
       /\ original_priority[p] <= priority[p]
       /\ original_priority[p] <= MaxPriority
       /\ p_semkey[p] # NULL => priority[p] = original_priority[p]
  /\ mode = "user" \/ (mode = "term" /\ after = "resume") =>
       priority[selected] = original_priority[selected]

OrderInv == CountedInv /\ PriorityInv /\ ReadySorted /\ BoundedAging /\ IdleOnlyAlone
------------------------------------------------------------------------------
(* No PCB on q has a priority that exceeds b when its place is added.       *)
Within(q, prio, b) == \A i \in DOMAIN q : prio[q[i]] + i <= b

(* Insertion keeps a queue sorted and bounded: all that it moves back has a *)
(* lower priority than what is inserted.                                    *)
LEMMA InsertProcQOrder ==
  ASSUME NEW S, NEW q \in Seq(S), NEW p \in S, NEW prio, NEW b \in Int,
         \A r \in S : prio[r] \in Int,
         Descending(q, prio), Within(q, prio, b), prio[p] + Len(q) + 1 <= b
  PROVE  /\ Descending(insertProcQ(q, p, prio), prio)
         /\ Within(insertProcQ(q, p, prio), prio, b)
<1>. DEFINE t == insertProcQ(q, p, prio)
<1>1. PICK i \in 1 .. Len(q) + 1 :
        /\ t \in Seq(S)
        /\ Len(t) = Len(q) + 1
        /\ \A j \in 1 .. Len(q) + 1 : t[j] = IF j < i THEN q[j] ELSE IF j = i THEN p ELSE q[j - 1]
        /\ \A j \in 1 .. i - 1 : ~ (prio[q[j]] < prio[p])
        /\ i <= Len(q) => prio[q[i]] < prio[p]
  BY InsertProcQ
<1>. HIDE DEF t
<1>2. /\ Len(q) \in Nat
      /\ DOMAIN q = 1 .. Len(q) /\ DOMAIN t = 1 .. Len(q) + 1
      /\ \A j \in 1 .. Len(q) : q[j] \in S /\ prio[q[j]] \in Int
      /\ prio[p] \in Int
  BY <1>1, LenProperties, ElementOfSeq
<1>3. \A j, k \in 1 .. Len(q) : j < k => prio[q[k]] <= prio[q[j]]
  BY <1>2 DEF Descending
<1>4. \A j \in 1 .. i - 1 : prio[p] <= prio[q[j]]
  BY <1>1, <1>2
<1>5. \A j \in i .. Len(q) : prio[q[j]] < prio[p]
  <2>. SUFFICES ASSUME NEW j \in i .. Len(q) PROVE prio[q[j]] < prio[p]
    OBVIOUS
  <2>1. i \in 1 .. Len(q) /\ j \in 1 .. Len(q) /\ (i < j \/ i = j) /\ i <= Len(q)
    BY <1>2
  <2>2. prio[q[i]] < prio[p]
    BY <1>1, <2>1
  <2>3. prio[q[j]] <= prio[q[i]] \/ j = i
    BY <1>3, <2>1
  <2>4. prio[q[i]] \in Int /\ prio[q[j]] \in Int /\ prio[p] \in Int
    BY <1>2, <2>1
  <2>. QED
    BY <2>2, <2>3, <2>4
<1>6. Descending(t, prio)
  <2>. SUFFICES ASSUME NEW j \in 1 .. Len(q) + 1, NEW k \in 1 .. Len(q) + 1, j < k
                PROVE  prio[t[k]] <= prio[t[j]]
    BY <1>2 DEF Descending
  <2>1. CASE k < i
    BY <1>1, <1>2, <1>3, <2>1
  <2>2. CASE k = i
    BY <1>1, <1>2, <1>4, <2>2
  <2>3. CASE k > i /\ j < i
    <3>1. t[j] = q[j] /\ t[k] = q[k - 1] /\ j \in 1 .. Len(q) /\ k - 1 \in 1 .. Len(q) /\ j < k - 1
      BY <1>1, <1>2, <2>3
    <3>. QED
      BY <1>3, <3>1
  <2>4. CASE k > i /\ j = i
    <3>1. t[j] = p /\ t[k] = q[k - 1] /\ k - 1 \in i .. Len(q)
      BY <1>1, <1>2, <2>4
    <3>2. prio[q[k - 1]] < prio[p]
      BY <1>5, <3>1
    <3>. QED
      BY <1>2, <3>1, <3>2
  <2>5. CASE k > i /\ j > i
    <3>1. /\ t[j] = q[j - 1] /\ t[k] = q[k - 1]
          /\ j - 1 \in 1 .. Len(q) /\ k - 1 \in 1 .. Len(q) /\ j - 1 < k - 1
      BY <1>1, <1>2, <2>5
    <3>. QED
      BY <1>3, <3>1
  <2>. QED
    BY <2>1, <2>2, <2>3, <2>4, <2>5
<1>7. Within(t, prio, b)
  <2>. SUFFICES ASSUME NEW j \in 1 .. Len(q) + 1
                PROVE  prio[t[j]] + j <= b
    BY <1>2 DEF Within
  <2>1. CASE j < i
    BY <1>1, <1>2, <2>1 DEF Within
  <2>2. CASE j = i
    BY <1>1, <1>2, <2>2
  <2>3. CASE j > i
    <3>1. t[j] = q[j - 1] /\ j - 1 \in i .. Len(q)
      BY <1>1, <1>2, <2>3
    <3>2. prio[q[j - 1]] < prio[p] /\ prio[q[j - 1]] \in Int
      BY <1>2, <1>5, <3>1
    <3>. QED
      BY <1>2, <3>1, <3>2
  <2>. QED
    BY <2>1, <2>2, <2>3
<1>. QED
  BY <1>6, <1>7 DEF t

(* So does the removal of p.                                                *)
LEMMA OutProcQOrder ==
  ASSUME NEW S, NEW q \in Seq(S), NEW p, NEW prio, NEW b \in Int,
         \A r \in S : prio[r] \in Int,
         Descending(q, prio), Within(q, prio, b)
  PROVE  /\ Descending(outProcQ(q, p), prio)
         /\ Within(outProcQ(q, p), prio, b)
<1>. DEFINE t == outProcQ(q, p)
<1>1. CASE ~ getProc(q, p)
  BY <1>1, OutProcQAbsent
<1>2. CASE getProc(q, p)
  <2>1. PICK i \in 1 .. Len(q) :
          /\ q[i] = p
          /\ t \in Seq(S)
          /\ Len(t) = Len(q) - 1
          /\ \A j \in 1 .. Len(q) - 1 : t[j] = IF j < i THEN q[j] ELSE q[j + 1]
    BY <1>2, OutProcQ
  <2>. HIDE DEF t
  <2>2. /\ Len(q) \in Nat
        /\ DOMAIN q = 1 .. Len(q) /\ DOMAIN t = 1 .. Len(q) - 1
        /\ \A j \in 1 .. Len(q) : q[j] \in S /\ prio[q[j]] \in Int /\ prio[q[j]] + j <= b
    BY <2>1, LenProperties, ElementOfSeq DEF Within
  <2>3. \A j, k \in 1 .. Len(q) : j < k => prio[q[k]] <= prio[q[j]]
    BY <2>2 DEF Descending
  <2>4. \A j \in 1 .. Len(q) - 1 :
          t[j] = (IF j < i THEN q[j] ELSE q[j + 1]) /\ j \in 1 .. Len(q) /\ j + 1 \in 1 .. Len(q)
    BY <2>1, <2>2
  <2>5. ASSUME NEW j \in 1 .. Len(q) - 1, NEW k \in 1 .. Len(q) - 1, j < k
        PROVE  prio[t[k]] <= prio[t[j]]
    <3>1. PICK m \in 1 .. Len(q), n \in 1 .. Len(q) : t[j] = q[m] /\ t[k] = q[n] /\ m < n
      BY <2>2, <2>4, <2>5
    <3>. QED
      BY <2>3, <3>1
  <2>6. ASSUME NEW j \in 1 .. Len(q) - 1
        PROVE  prio[t[j]] + j <= b
    <3>1. PICK m \in 1 .. Len(q) : t[j] = q[m] /\ j <= m
      BY <2>2, <2>4
    <3>2. prio[q[m]] \in Int /\ prio[q[m]] + m <= b
      BY <2>2
    <3>. QED
      BY <2>2, <3>1, <3>2
  <2>. QED
    BY <2>2, <2>5, <2>6 DEF t, Descending, Within
<1>. QED
  BY <1>1, <1>2

(* The queue without its head, after all of it but low has aged: each moves *)
(* up one place and gains one, and low, below all others, stays below them. *)
LEMMA AgedTailOrder ==
  ASSUME NEW S, NEW q \in Seq(S), q # <<>>, IsInjective(q), NEW low \in S,
         NEW prio, NEW aged, NEW b \in Int,
         \A r \in S : prio[r] \in Int,
         \A r \in S : getProc(Tail(q), r) => aged[r] = IF r = low THEN prio[r] ELSE prio[r] + 1,
         \A r \in S \ {low} : getProc(q, r) => prio[low] < prio[r],
         Descending(q, prio), Within(q, prio, b)
  PROVE  Descending(Tail(q), aged) /\ Within(Tail(q), aged, b)
<1>. DEFINE t == Tail(q)
<1>1. /\ t \in Seq(S)
      /\ Len(t) = Len(q) - 1
      /\ \A i \in 1 .. Len(t) : t[i] = q[i + 1]
  BY HeadTailProperties
<1>. HIDE DEF t
<1>2. /\ Len(q) \in Nat
      /\ DOMAIN q = 1 .. Len(q) /\ DOMAIN t = 1 .. Len(t)
      /\ \A j \in 1 .. Len(q) : q[j] \in S /\ prio[q[j]] \in Int /\ prio[q[j]] + j <= b
      /\ \A j, k \in 1 .. Len(q) : q[j] = q[k] => j = k
  BY <1>1, LenProperties, ElementOfSeq, InjectiveLen DEF Within
<1>3. \A j, k \in 1 .. Len(q) : j < k => prio[q[k]] <= prio[q[j]]
  BY <1>2 DEF Descending
<1>4. ASSUME NEW i \in 1 .. Len(t)
      PROVE  /\ aged[t[i]] = IF q[i + 1] = low THEN prio[q[i + 1]] ELSE prio[q[i + 1]] + 1
             /\ q[i + 1] # low => prio[low] < prio[q[i + 1]]
  <2>1. t[i] = q[i + 1] /\ t[i] \in S /\ i + 1 \in 1 .. Len(q)
    BY <1>1, <1>2
  <2>2. getProc(t, t[i]) /\ getProc(q, q[i + 1])
    BY <1>2, <2>1 DEF getProc
  <2>. QED
    BY <2>1, <2>2 DEF t
<1>5. ASSUME NEW i \in 1 .. Len(t), NEW j \in 1 .. Len(t), i < j
      PROVE  aged[t[j]] <= aged[t[i]]
  <2>1. /\ prio[q[j + 1]] <= prio[q[i + 1]] /\ q[i + 1] # q[j + 1]
        /\ prio[q[j + 1]] \in Int /\ prio[q[i + 1]] \in Int /\ prio[low] \in Int
    BY <1>1, <1>2, <1>3, <1>5
  <2>2. q[i + 1] # low
    BY <1>4, <2>1
  <2>3. aged[t[i]] = prio[q[i + 1]] + 1
    BY <1>4, <2>2
  <2>4. CASE q[j + 1] = low
    <3>1. aged[t[j]] = prio[q[j + 1]]
      BY <1>4, <2>4
    <3>. QED
      BY <2>1, <2>3, <3>1
  <2>5. CASE q[j + 1] # low
    <3>1. aged[t[j]] = prio[q[j + 1]] + 1
      BY <1>4, <2>5
    <3>. QED
      BY <2>1, <2>3, <3>1
  <2>. QED
    BY <2>4, <2>5
<1>6. ASSUME NEW i \in 1 .. Len(t)
      PROVE  aged[t[i]] + i <= b
  <2>1. i + 1 \in 1 .. Len(q) /\ i \in Int
    BY <1>1, <1>2
  <2>2. prio[q[i + 1]] \in Int /\ prio[q[i + 1]] + (i + 1) <= b
    BY <1>2, <2>1
  <2>3. aged[t[i]] \in {prio[q[i + 1]], prio[q[i + 1]] + 1}
    BY <1>4
  <2>. QED
    BY <2>1, <2>2, <2>3
<1>. QED
  BY <1>2, <1>5, <1>6 DEF Descending, Within, t

(* A queue that holds each PCB once is no longer than the table of PCBs.    *)
LEMMA QueueFits ==
  ASSUME NEW q \in Seq(PCB), IsInjective(q)
  PROVE  Len(q) \in 0 .. MAXPROC
<1>1. IsFiniteSet(PCB) /\ MAXPROC = Cardinality(PCB)
  BY TableAssumption
<1>2. Len(q) \in Nat /\ DOMAIN q = 1 .. Len(q) /\ \A i \in 1 .. Len(q) : q[i] \in PCB
  BY LenProperties, ElementOfSeq
<1>3. q \in [1 .. Len(q) -> PCB]
  BY <1>2, LenProperties
<1>4. q \in Injection(1 .. Len(q), PCB)
  BY <1>2, <1>3 DEF Injection, IsInjective
<1>5. Cardinality(1 .. Len(q)) = Len(q)
  <2>1. Len(q) \in Int /\ 1 \in Int
    BY <1>2
  <2>2. Cardinality(1 .. Len(q)) = IF 1 > Len(q) THEN 0 ELSE Len(q) - 1 + 1
    BY ONLY <2>1, FS_Interval
  <2>. QED
    BY <1>2, <2>2
<1>6. Cardinality(1 .. Len(q)) <= Cardinality(PCB)
  BY <1>1, <1>4, FS_Injection
<1>. QED
  BY <1>1, <1>2, <1>5, <1>6, MaxProcNat

(* A dispatch, in a queue that is in order: the process that runs has its   *)
(* original priority, the others on q but idle have aged.                   *)
LEMMA SchedulingOrder ==
  ASSUME TypeInv, NEW STATE q, q \in Seq(PCB), IsInjective(q), getProc(q, idle),
         Descending(q, priority), Within(q, priority, MaxPriority + MAXPROC),
         priority[idle] = IDLE_PRIORITY, original_priority[idle] = IDLE_PRIORITY,
         \A p \in PCB : getProc(q, p) =>
           (p = idle \/ IDLE_PRIORITY < priority[p]) /\ original_priority[p] <= MaxPriority,
         scheduling(q)
  PROVE  /\ ReadySorted' /\ BoundedAging' /\ IdleOnlyAlone'
         /\ mode' \in {"user", "halt"}
         /\ mode' = "user" <=> 0 < n_proc
         /\ \A p \in PCB : priority'[p] =
              IF mode' = "user" /\ p = selected' THEN original_priority[p]
              ELSE IF mode' = "user" /\ getProc(q, p) /\ p # idle THEN priority[p] + 1
              ELSE priority[p]
<1>. DEFINE b == MaxPriority + MAXPROC
            next == headProcQ(q)
            reset == [priority EXCEPT ![next] = original_priority[next]]
            aged == aging(removeProcQ(q), reset)
<1>1. /\ priority \in [PCB -> Int] /\ original_priority \in [PCB -> Int]
      /\ n_proc \in Int /\ idle \in PCB /\ MaxPriority \in Int /\ MAXPROC \in Nat
      /\ b \in Int
  BY NucleusAssumption, MaxProcNat DEF TypeInv, TypeOK
<1>2. q # <<>>
  BY DEF getProc
<1>3. CASE ~ (0 < n_proc)
  <2>1. mode' = "halt" /\ readyQueue' = q /\ UNCHANGED <<selected, priority>>
    BY <1>3 DEF scheduling
  <2>. QED
    BY <1>1, <1>3, <2>1 DEF ReadySorted, BoundedAging, IdleOnlyAlone, Within
<1>4. CASE 0 < n_proc
  <2>1. /\ selected' = next
        /\ priority' = aged
        /\ readyQueue' = insertProcQ(removeProcQ(q), next, aged)
        /\ mode' = "user"
    BY <1>2, <1>4 DEF scheduling
  <2>2. /\ next \in PCB /\ next = Head(q)
        /\ removeProcQ(q) = Tail(q) /\ Tail(q) \in Seq(PCB)
        /\ getProc(q, next)
        /\ \A r : getProc(Tail(q), r) <=> r # next /\ getProc(q, r)
        /\ IsInjective(Tail(q))
    BY <1>2, TailMembers DEF headProcQ, removeProcQ
  <2>3. /\ aged \in [PCB -> Int]
        /\ \A p \in PCB : aged[p] = IF p = next THEN original_priority[p]
                                    ELSE IF getProc(q, p) /\ p # idle THEN priority[p] + 1
                                    ELSE priority[p]
    BY <1>1, <2>2 DEF aging
  <2>. HIDE DEF next, reset, aged, b
  <2>4. Descending(Tail(q), aged) /\ Within(Tail(q), aged, b)
    <3>1. \A r \in PCB : getProc(Tail(q), r) => aged[r] = IF r = idle THEN priority[r] ELSE priority[r] + 1
      BY <2>2, <2>3
    <3>2. \A r \in PCB \ {idle} : getProc(q, r) => priority[idle] < priority[r]
      OBVIOUS
    <3>3. Within(q, priority, b)
      BY DEF b
    <3>. QED
      BY <1>1, <1>2, <3>1, <3>2, <3>3, AgedTailOrder
  <2>5. aged[next] + Len(Tail(q)) + 1 <= b
    <3>1. aged[next] <= MaxPriority /\ aged[next] \in Int
      BY <2>2, <2>3
    <3>2. Len(Tail(q)) = Len(q) - 1
      BY <1>2, HeadTailProperties
    <3>3. Len(q) \in 0 .. MAXPROC
      BY QueueFits
    <3>4. b = MaxPriority + MAXPROC /\ MaxPriority \in Int /\ MAXPROC \in Nat
      BY <1>1 DEF b
    <3>5. Len(q) - 1 + 1 <= MAXPROC
      BY <3>3, <3>4
    <3>. HIDE DEF b
    <3>. QED
      BY ONLY <3>1, <3>2, <3>3, <3>4, <3>5
  <2>6. ReadySorted' /\ BoundedAging'
    <3>1. \A r \in PCB : aged[r] \in Int
      BY <2>3
    <3>2. /\ Descending(insertProcQ(Tail(q), next, aged), aged)
          /\ Within(insertProcQ(Tail(q), next, aged), aged, b)
      BY <1>1, <2>2, <2>4, <2>5, <3>1, InsertProcQOrder
    <3>3. b' = b
      BY DEF b
    <3>. QED
      BY <2>1, <2>2, <3>2 DEF ReadySorted, BoundedAging, Within, b
  <2>7. ASSUME next = idle
        PROVE  readyQueue' = <<idle>>
    <3>1. Len(q) \in Nat /\ DOMAIN q = 1 .. Len(q) /\ q[1] = idle /\ Len(q) >= 1
      BY <1>2, <2>2, <2>7, HeadTailProperties, LenProperties, EmptySeq
    <3>2. ASSUME Len(q) > 1
          PROVE  FALSE
      <4>1. q[2] \in PCB /\ getProc(q, q[2]) /\ priority[q[2]] <= priority[idle]
        BY <3>1, <3>2, ElementOfSeq DEF getProc, Descending
      <4>2. q[2] # idle
        BY <3>1, <3>2, InjectiveLen
      <4>. QED
        BY <1>1, <4>1, <4>2
    <3>3. Len(Tail(q)) = 0
      BY <1>2, <3>1, <3>2, HeadTailProperties
    <3>5. /\ readyQueue' \in Seq(PCB) /\ Len(readyQueue') = 1
          /\ getProc(readyQueue', idle)
      <4>1. readyQueue' = insertProcQ(Tail(q), idle, aged)
        BY <2>1, <2>2, <2>7
      <4>2. Len(insertProcQ(Tail(q), idle, aged)) = Len(Tail(q)) + 1
        <5>1. \E i \in 1 .. Len(Tail(q)) + 1 :
                Len(insertProcQ(Tail(q), idle, aged)) = Len(Tail(q)) + 1
          <6>. DEFINE t == Tail(q)
          <6>1. t \in Seq(PCB)
            BY <2>2
          <6>. HIDE DEF t
          <6>2. \E i \in 1 .. Len(t) + 1 : Len(insertProcQ(t, idle, aged)) = Len(t) + 1
            BY <1>1, <6>1, InsertProcQ
          <6>. QED
            BY <6>2 DEF t
        <5>. QED
          BY <5>1
      <4>3. /\ insertProcQ(Tail(q), idle, aged) \in Seq(PCB)
            /\ getProc(insertProcQ(Tail(q), idle, aged), idle)
        BY <1>1, <2>2, InsertProcQMembers
      <4>. QED
        BY <3>3, <4>1, <4>2, <4>3
    <3>. QED
      BY <3>5, LenProperties DEF getProc
  <2>8. IdleOnlyAlone'
    BY <2>1, <2>7 DEF IdleOnlyAlone
  <2>. QED
    BY <1>4, <2>1, <2>3, <2>6, <2>8
<1>. QED
  BY <1>3, <1>4
------------------------------------------------------------------------------
LEMMA IdleLive ==
  ASSUME CountedInv
  PROVE  idle \in PCB /\ idle \notin pcbFree /\ p_semkey[idle] = NULL
  BY NucleusAssumption DEF CountedInv, ListInv, QueueInv, ReadyOrFree, IdleInv

LEMMA InitCountedInv == Init => CountedInv
<1>. SUFFICES ASSUME Init PROVE CountedInv
  OBVIOUS
<1>1. ListInv
  BY InitListInv
<1>2. idle \in PCB /\ pcb_test \in PCB /\ idle # pcb_test /\ MaxFailedCreates \in Nat
  BY NucleusAssumption
<1>3. IdleInv
  <2>1. readyQueue[2] = idle /\ 2 \in DOMAIN readyQueue
    BY DEF Init
  <2>2. priority[idle] = IDLE_PRIORITY /\ original_priority[idle] = IDLE_PRIORITY
    BY <1>2 DEF Init
  <2>3. \A p \in live : idle \notin p_child[p]
    BY DEF Init, live
  <2>. QED
    BY <2>1, <2>2, <2>3 DEF Init, IdleInv, getProc
<1>4. CountInv
  <2>1. live \ {idle} = {pcb_test}
    BY <1>2 DEF Init, live
  <2>2. Cardinality(live \ {idle}) = 1
    BY <2>1, FS_Singleton
  <2>. QED
    BY <1>2, <2>2 DEF Init, CountInv
<1>. QED
  BY <1>1, <1>3, <1>4 DEF CountedInv, HaltOnlyWhenDone, Init

(* A step that dispatches from a queue idle is on.                          *)
LEMMA ScheduleCounted ==
  ASSUME CountedInv, NEW STATE q, q \in Seq(PCB), IsInjective(q), getProc(q, idle), scheduling(q),
         UNCHANGED <<pcbFree, n_proc, original_priority, doomed>>,
         \A p \in PCB : p_child'[p] \subseteq p_child[p]
  PROVE  IdleInv' /\ CountInv' /\ HaltOnlyWhenDone'
<1>1. /\ idle \in PCB /\ n_proc \in Int /\ MaxFailedCreates \in Nat
      /\ priority \in [PCB -> Int] /\ original_priority \in [PCB -> Int]
  BY NucleusAssumption DEF CountedInv, ListInv, TypeInv, TypeOK
<1>2. /\ getProc(readyQueue', idle)
      /\ mode' \in {"user", "halt"}
  BY SchedulingMembers DEF CountedInv, ListInv
<1>3. q # <<>>
  BY DEF getProc
<1>4. priority'[idle] = IDLE_PRIORITY /\ original_priority'[idle] = IDLE_PRIORITY
  BY <1>1, <1>3 DEF CountedInv, IdleInv, scheduling, aging
<1>5. mode' = "user" <=> n_proc > 0
  BY <1>3 DEF scheduling
<1>6. live' = live /\ live \subseteq PCB
  BY DEF live
<1>7. IdleInv'
  BY <1>2, <1>4, <1>6 DEF CountedInv, IdleInv
<1>8. CountInv'
  BY <1>5, <1>6 DEF CountedInv, CountInv
<1>9. HaltOnlyWhenDone'
  <2>. SUFFICES ASSUME ~ (n_proc > 0) PROVE live = {idle}
    BY <1>2, <1>5, <1>6 DEF HaltOnlyWhenDone
  <2>1. IsFiniteSet(live \ {idle})
    BY <1>6, TableAssumption, FS_Subset
  <2>2. Cardinality(live \ {idle}) \in Nat
    BY <2>1, FS_CardinalityType
  <2>3. Cardinality(live \ {idle}) = 0
    BY <1>1, <2>2 DEF CountedInv, CountInv
  <2>4. live \ {idle} = {}
    BY <2>1, <2>3, FS_EmptySet
  <2>. QED
    BY <2>4, IdleLive DEF live
<1>. QED
  BY <1>7, <1>8, <1>9

LEMMA RescheduleCounted ==
  ASSUME CountedInv, scheduling(readyQueue),
         UNCHANGED <<pcbFree, n_proc, original_priority, doomed>>,
         \A p \in PCB : p_child'[p] \subseteq p_child[p]
  PROVE  IdleInv' /\ CountInv' /\ HaltOnlyWhenDone'
<1>1. readyQueue \in Seq(PCB) /\ IsInjective(readyQueue) /\ getProc(readyQueue, idle)
  BY DEF CountedInv, ListInv, TypeInv, TypeOK, QueueInv, ReadyOrFree, IdleInv
<1>. QED
  BY <1>1, ScheduleCounted

LEMMA TermProcessCounted ==
  ASSUME CountedInv, Caller, NEW STATE p, p \in PCB, p # idle, NEW then, term_process(p, then)
  PROVE  IdleInv' /\ CountInv' /\ HaltOnlyWhenDone'
<1>1. CASE ~ getProc(readyQueue, p) /\ p_semkey[p] = NULL /\ then = "scheduling"
  <2>1. /\ scheduling(readyQueue)
        /\ UNCHANGED <<pcbFree, n_proc, original_priority, doomed, p_child>>
    BY <1>1 DEF term_process, termVars, treeVars
  <2>. QED
    BY <2>1, RescheduleCounted
<1>2. CASE ~ (~ getProc(readyQueue, p) /\ p_semkey[p] = NULL /\ then = "scheduling")
  <2>1. /\ UNCHANGED <<selected, pcbFree, n_proc, readyQueue, priority, original_priority, p_child>>
        /\ (mode' = mode /\ doomed' = doomed) \/ (mode' = "term" /\ doomed' = {p})
    BY <1>2 DEF term_process, termVars, treeVars
  <2>2. mode = "user" /\ selected # idle
    BY DEF Caller
  <2>3. live' = live
    BY <2>1 DEF live
  <2>. QED
    BY <2>1, <2>2, <2>3 DEF CountedInv, IdleInv, CountInv, HaltOnlyWhenDone
<1>. QED
  BY <1>1, <1>2

LEMMA CreateProcessCounted ==
  ASSUME CountedInv, NEW STATE v, v \in Priority, create_process(v)
  PROVE  IdleInv' /\ CountInv' /\ HaltOnlyWhenDone'
<1>1. /\ UNCHANGED <<selected, mode, doomed>> /\ mode = "user" /\ selected # idle
      /\ n_proc' = n_proc + 1
  BY DEF create_process, Caller, termVars
<1>2. /\ n_proc \in Int /\ MaxFailedCreates \in Nat /\ readyQueue \in Seq(PCB)
      /\ pcbFree \subseteq PCB /\ live \subseteq PCB
      /\ priority \in [PCB -> Int] /\ original_priority \in [PCB -> Int]
  BY NucleusAssumption DEF CountedInv, ListInv, TypeInv, TypeOK, live
<1>3. IsFiniteSet(live \ {idle}) /\ Cardinality(live \ {idle}) \in Nat
  BY <1>2, TableAssumption, FS_Subset, FS_CardinalityType
<1>4. HaltOnlyWhenDone'
  BY <1>1 DEF HaltOnlyWhenDone
<1>5. CASE /\ n_proc - Cardinality(live \ {idle}) < MaxFailedCreates
           /\ UNCHANGED <<readyQueue, priority, original_priority, pcbFree, treeVars>>
  <2>1. live' = live /\ p_child' = p_child
    BY <1>5 DEF live, treeVars
  <2>2. IdleInv'
    BY <1>1, <1>5, <2>1 DEF CountedInv, IdleInv
  <2>3. CountInv'
    BY <1>1, <1>2, <1>3, <1>5, <2>1 DEF CountedInv, CountInv
  <2>. QED
    BY <1>4, <2>2, <2>3
<1>6. ASSUME NEW new \in pcbFree,
             allocPcb(new),
             priority' = [priority EXCEPT ![new] = v],
             original_priority' = [original_priority EXCEPT ![new] = v],
             readyQueue' = insertProcQ(readyQueue, new, priority'),
             insertChild(selected, new)
      PROVE  IdleInv' /\ CountInv' /\ HaltOnlyWhenDone'
  <2>1. new \in PCB /\ new # idle /\ new \notin live /\ live' = live \cup {new}
    BY <1>2, <1>6, IdleLive DEF live, allocPcb
  <2>2. getProc(readyQueue', idle)
    BY <1>2, <1>6, <2>1, InsertProcQMembers DEF CountedInv, IdleInv
  <2>3. IdleInv'
    <3>1. \A p \in live' : idle \notin p_child'[p]
      <4>1. selected \in PCB /\ p_child \in [PCB -> SUBSET PCB]
        BY <1>1 DEF CountedInv, ListInv, TypeInv, TypeOK
      <4>2. p_child' = [p_child EXCEPT ![new] = {}, ![selected] = @ \cup {new}]
        BY <1>6 DEF insertChild
      <4>3. \A p \in PCB : idle \in p_child'[p] => p # new /\ idle \in p_child[p]
        <5>1. CASE selected = new
          <6>1. getProc(readyQueue, selected)
            BY <1>1 DEF CountedInv, ListInv, QueueInv, SelectedReady
          <6>. QED
            BY <1>6, <2>1, <5>1, <6>1 DEF CountedInv, ListInv, QueueInv, ReadyOrFree
        <5>2. CASE selected # new
          BY <2>1, <4>1, <4>2, <5>2
        <5>. QED
          BY <5>1, <5>2
      <4>. QED
        BY <1>2, <2>1, <4>3 DEF CountedInv, IdleInv
    <3>2. priority'[idle] = priority[idle] /\ original_priority'[idle] = original_priority[idle]
      BY <1>2, <1>6, <2>1
    <3>. QED
      BY <1>1, <2>2, <3>1, <3>2 DEF CountedInv, IdleInv
  <2>4. CountInv'
    <3>1. live' \ {idle} = (live \ {idle}) \cup {new} /\ new \notin live \ {idle}
      BY <2>1
    <3>2. Cardinality(live' \ {idle}) = Cardinality(live \ {idle}) + 1
      BY <1>3, <3>1, FS_AddElement
    <3>. QED
      BY <1>1, <1>2, <1>3, <3>2 DEF CountedInv, CountInv
  <2>. QED
    BY <1>4, <2>3, <2>4
<1>. QED
  BY <1>5, <1>6 DEF create_process

(* delete_ric never comes to idle, nor to a PCB that is free already.       *)
LEMMA DeleteRicCounted ==
  ASSUME CountedInv, NEW STATE p, p \in PCB, delete_ric(p)
  PROVE  IdleInv' /\ CountInv' /\ HaltOnlyWhenDone'
<1>1. p \in live /\ p # idle /\ p \notin pcbFree
  BY DoomedLive DEF delete_ric, CountedInv, ListInv, IdleInv, live
<1>2. /\ mode = "term" /\ mode' = "term"
      /\ n_proc' = n_proc - 1
      /\ live' = live \ {p}
      /\ doomed' = (doomed \ {p}) \cup p_child[p]
      /\ UNCHANGED <<selected, priority, original_priority, p_child>>
  BY <1>1 DEF delete_ric, freePcb, progeny, treeVars, live
<1>3. getProc(readyQueue', idle)
  <2>1. readyQueue \in Seq(PCB) /\ IsInjective(readyQueue) /\ getProc(readyQueue, idle)
    BY DEF CountedInv, ListInv, TypeInv, TypeOK, QueueInv, ReadyOrFree, IdleInv
  <2>2. readyQueue' = readyQueue \/ readyQueue' = outProcQ(readyQueue, p)
    BY DEF delete_ric, unlink
  <2>. QED
    BY <1>1, <2>1, <2>2, OutProcQMembers
<1>4. IdleInv'
  BY <1>1, <1>2, <1>3 DEF CountedInv, IdleInv
<1>5. CountInv'
  <2>1. live' \ {idle} = (live \ {idle}) \ {p} /\ p \in live \ {idle}
    BY <1>1, <1>2
  <2>2. IsFiniteSet(live \ {idle}) /\ Cardinality(live \ {idle}) \in Nat
    BY TableAssumption, FS_Subset, FS_CardinalityType DEF live
  <2>3. Cardinality(live' \ {idle}) = Cardinality(live \ {idle}) - 1
    BY <2>1, <2>2, FS_RemoveElement
  <2>4. n_proc \in Int /\ MaxFailedCreates \in Nat
    BY NucleusAssumption DEF CountedInv, ListInv, TypeInv, TypeOK
  <2>. QED
    BY <1>2, <2>2, <2>3, <2>4 DEF CountedInv, CountInv
<1>. QED
  BY <1>2, <1>4, <1>5 DEF HaltOnlyWhenDone

LEMMA WakeCounted ==
  ASSUME CountedInv, NEW STATE k, k \in Key, Wake(k)
  PROVE  IdleInv' /\ CountInv' /\ HaltOnlyWhenDone'
<1>1. /\ UNCHANGED <<priority, original_priority, selected, n_proc, mode, pcbFree, p_child, doomed>>
      /\ mode = "user"
  BY DEF Wake, treeVars, termVars
<1>2. getProc(readyQueue', idle)
  <2>1. readyQueue \in Seq(PCB) /\ getProc(readyQueue, idle)
    BY DEF CountedInv, ListInv, TypeInv, TypeOK, IdleInv
  <2>2. CASE headBlocked(k) = NULL
    BY <2>1, <2>2 DEF Wake
  <2>3. CASE headBlocked(k) # NULL
    <3>1. headBlocked(k) \in PCB
      BY <2>3, RemoveBlockedQueues DEF Wake, CountedInv, ListInv, TypeInv, QueueInv
    <3>. QED
      BY <2>1, <2>3, <3>1, InsertProcQMembers DEF Wake
  <2>. QED
    BY <2>2, <2>3
<1>3. live' = live
  BY <1>1 DEF live
<1>. QED
  BY <1>1, <1>2, <1>3 DEF CountedInv, IdleInv, CountInv, HaltOnlyWhenDone

LEMMA PasserenCounted ==
  ASSUME CountedInv, NEW STATE k, k \in Key, passeren(k)
  PROVE  IdleInv' /\ CountInv' /\ HaltOnlyWhenDone'
<1>1. /\ UNCHANGED <<original_priority, n_proc, pcbFree, p_child, doomed>>
      /\ mode = "user" /\ selected # idle
  BY DEF passeren, Caller, treeVars, termVars
<1>2. /\ readyQueue \in Seq(PCB) /\ IsInjective(readyQueue) /\ getProc(readyQueue, idle)
      /\ selected \in PCB /\ selected \notin pcbFree
  BY <1>1 DEF CountedInv, ListInv, TypeInv, TypeOK, QueueInv, ReadyOrFree, SelectedReady, IdleInv
<1>3. CASE UNCHANGED <<readyQueue, priority, selected, mode>>
  <2>1. live' = live
    BY <1>1 DEF live
  <2>. QED
    BY <1>1, <1>3, <2>1 DEF CountedInv, IdleInv, CountInv, HaltOnlyWhenDone
<1>4. CASE scheduling(outProcQ(readyQueue, selected))
  <2>. DEFINE q == outProcQ(readyQueue, selected)
  <2>1. q \in Seq(PCB) /\ IsInjective(q) /\ getProc(q, idle)
    BY <1>1, <1>2, OutProcQMembers
  <2>2. scheduling(q)
    BY <1>4
  <2>. HIDE DEF q
  <2>. QED
    BY <1>1, <2>1, <2>2, ScheduleCounted
<1>. QED
  BY <1>2, <1>3, <1>4 DEF passeren

LEMMA TermDoneCounted ==
  ASSUME CountedInv, TermDone
  PROVE  IdleInv' /\ CountInv' /\ HaltOnlyWhenDone'
<1>1. /\ UNCHANGED <<original_priority, n_proc, pcbFree, doomed>>
      /\ mode = "term" /\ selected # idle
  BY DEF TermDone, CountedInv, IdleInv
<1>2. \A p \in PCB : p_child'[p] \subseteq p_child[p]
  BY DEF TermDone, outChild, treeVars, CountedInv, ListInv, TypeInv, TypeOK
<1>3. CASE after = "scheduling"
  BY <1>1, <1>2, <1>3, RescheduleCounted DEF TermDone
<1>4. CASE after # "scheduling"
  <2>1. mode' = "user" /\ UNCHANGED <<selected, priority, readyQueue>>
    BY <1>4 DEF TermDone
  <2>2. live' = live /\ live \subseteq PCB
    BY <1>1 DEF live
  <2>. QED
    BY <1>1, <1>2, <2>1, <2>2 DEF CountedInv, IdleInv, CountInv, HaltOnlyWhenDone
<1>. QED
  BY <1>3, <1>4

LEMMA NextCountedInv ==
  ASSUME ~ KillsOwnAncestry, CountedInv, [Step]_vars
  PROVE  CountedInv'
<1>. DEFINE Goal == IdleInv' /\ CountInv' /\ HaltOnlyWhenDone'
<1>. SUFFICES Goal
  BY NextListInv DEF CountedInv
<1>0. Caller => selected \in PCB
  BY DEF Caller, CountedInv, ListInv, TypeInv
<1>1. CASE Boot \/ TimerInterrupt
  BY <1>1, RescheduleCounted DEF Boot, TimerInterrupt, treeVars, termVars
<1>2. ASSUME NEW v \in Priority, create_process(v) PROVE Goal
  BY <1>2, CreateProcessCounted
<1>3. CASE TerminateSelf
  BY <1>0, <1>3, TermProcessCounted DEF TerminateSelf, Caller
<1>4. ASSUME NEW p \in PCB, TerminatePid(p) PROVE Goal
  BY <1>4, TermProcessCounted DEF TerminatePid
<1>5. ASSUME NEW p \in PCB, delete_ric(p) PROVE Goal
  BY <1>5, DeleteRicCounted
<1>6. CASE TermDone
  BY <1>6, TermDoneCounted
<1>7. ASSUME NEW k \in Key, Wake(k) \/ passeren(k) PROVE Goal
  BY <1>7, WakeCounted, PasserenCounted
<1>8. CASE UNCHANGED <<schedVars, pcbFree, treeVars, termVars>>
  <2>1. UNCHANGED <<readyQueue, pcbFree, priority, original_priority, selected, n_proc, mode,
                    p_child, doomed>>
    BY <1>8 DEF schedVars, treeVars, termVars
  <2>2. live' = live
    BY <2>1 DEF live
  <2>. QED
    BY <2>1, <2>2 DEF CountedInv, IdleInv, CountInv, HaltOnlyWhenDone
<1>9. ASSUME NEW t \in PassType, specpassup(t) PROVE Goal
  <2>1. CASE t \in PassType \ passup[selected]
    BY <1>8, <1>9, <2>1 DEF specpassup
  <2>2. CASE t \notin PassType \ passup[selected]
    BY <1>0, <1>9, <2>2, TermProcessCounted DEF specpassup, Caller
  <2>. QED
    BY <2>1, <2>2
<1>10. CASE UnknownSyscall \/ tlb_H \/ trap_H
  BY <1>0, <1>10, TermProcessCounted DEF UnknownSyscall, tlb_H, trap_H, PassUpOrDie, Caller
<1>11. CASE UNCHANGED vars \/ Stopped
  BY <1>8, <1>11 DEF Stopped, vars
<1>. QED
  BY <1>1, <1>2, <1>3, <1>4, <1>5, <1>6, <1>7, <1>9, <1>10, <1>11,
     VerhogenWakes DEF Next, Step

(* As long as no process terminates itself or an ancestor by pid, the       *)
(* machine halts only when the last process is gone.                        *)
THEOREM HaltsOnlyWhenDone ==
  ASSUME ~ KillsOwnAncestry
  PROVE  Spec => []HaltOnlyWhenDone
<1>1. CountedInv => HaltOnlyWhenDone
  BY DEF CountedInv
<1>2. CountedInv /\ [Step]_vars => CountedInv'
  BY NextCountedInv
<1>. QED
  BY <1>1, <1>2, InitCountedInv, NextIsStep, PTL DEF Spec
------------------------------------------------------------------------------
LEMMA OrderFacts ==
  ASSUME OrderInv
  PROVE  /\ readyQueue \in Seq(PCB) /\ IsInjective(readyQueue) /\ getProc(readyQueue, idle)
         /\ \A p \in PCB : getProc(readyQueue, p) => p \in live /\ p_semkey[p] = NULL
         /\ \A p \in PCB : p_semkey[p] # NULL => p \in live /\ p # idle
         /\ priority \in [PCB -> Int] /\ original_priority \in [PCB -> Int]
         /\ \A p \in PCB : priority[p] \in Int /\ original_priority[p] \in Int
         /\ Descending(readyQueue, priority)
         /\ Within(readyQueue, priority, MaxPriority + MAXPROC)
         /\ MaxPriority \in Int /\ MAXPROC \in Nat /\ MaxPriority + MAXPROC \in Int
         /\ IDLE_PRIORITY < MaxPriority
<1>1. MaxPriority \in Int /\ DEFAULT_PRIORITY <= MaxPriority /\ MAXPROC \in Nat
  BY NucleusAssumption, MaxProcNat
<1>2. MaxPriority + MAXPROC \in Int /\ IDLE_PRIORITY < MaxPriority
  BY <1>1 DEF DEFAULT_PRIORITY, IDLE_PRIORITY
<1>3. Descending(readyQueue, priority) /\ Within(readyQueue, priority, MaxPriority + MAXPROC)
  BY DEF OrderInv, ReadySorted, BoundedAging, Within
<1>4. /\ readyQueue \in Seq(PCB) /\ IsInjective(readyQueue) /\ getProc(readyQueue, idle)
      /\ \A p \in PCB : getProc(readyQueue, p) => p \in live /\ p_semkey[p] = NULL
      /\ \A p \in PCB : p_semkey[p] # NULL => p \in live /\ p # idle
  BY DEF OrderInv, CountedInv, ListInv, TypeInv, TypeOK, QueueInv, ReadyOrFree, IdleInv, live
<1>5. priority \in [PCB -> Int] /\ original_priority \in [PCB -> Int]
  BY DEF OrderInv, CountedInv, ListInv, TypeInv, TypeOK
<1>. QED
  BY <1>1, <1>2, <1>3, <1>4, <1>5

LEMMA InitOrderInv == Init => OrderInv
<1>. SUFFICES ASSUME Init PROVE OrderInv
  OBVIOUS
<1>1. CountedInv
  BY InitCountedInv
<1>2. /\ idle \in PCB /\ pcb_test \in PCB /\ idle # pcb_test
      /\ MaxPriority \in Int /\ 1 <= MaxPriority
  BY NucleusAssumption DEF DEFAULT_PRIORITY
<1>3. /\ readyQueue = <<pcb_test, idle>> /\ original_priority = priority
      /\ priority[pcb_test] = 1 /\ priority[idle] = 0
  BY <1>2 DEF Init, DEFAULT_PRIORITY, IDLE_PRIORITY
<1>4. DOMAIN readyQueue = {1, 2} /\ readyQueue[1] = pcb_test /\ readyQueue[2] = idle
  BY <1>3
<1>5. MAXPROC \in Nat /\ 2 <= MAXPROC
  <2>1. readyQueue \in Seq(PCB) /\ IsInjective(readyQueue) /\ Len(readyQueue) = 2
    BY <1>1, <1>3 DEF CountedInv, ListInv, TypeInv, TypeOK, QueueInv, ReadyOrFree
  <2>2. Len(readyQueue) \in 0 .. MAXPROC
    BY <2>1, QueueFits
  <2>. QED
    BY <2>1, <2>2, MaxProcNat
<1>6. ReadySorted
  <2>. SUFFICES ASSUME NEW i \in {1, 2}, NEW j \in {1, 2}, i < j
                PROVE  priority[readyQueue[j]] <= priority[readyQueue[i]]
    BY <1>4 DEF ReadySorted, Descending
  <2>1. i = 1 /\ j = 2
    OBVIOUS
  <2>. QED
    BY <1>3, <1>4, <2>1
<1>7. BoundedAging
  <2>. SUFFICES ASSUME NEW i \in {1, 2}
                PROVE  priority[readyQueue[i]] + i <= MaxPriority + MAXPROC
    BY <1>4 DEF BoundedAging
  <2>1. priority[readyQueue[1]] = 1 /\ priority[readyQueue[2]] = 0
    BY <1>3, <1>4
  <2>. QED
    BY <1>2, <1>5, <2>1
<1>8. PriorityInv
  <2>1. live \ {idle} = {pcb_test} /\ p_semkey = [p \in PCB |-> NULL] /\ mode = "boot"
    BY <1>2 DEF Init, initASL, live
  <2>. QED
    BY <1>2, <1>3, <2>1 DEF PriorityInv, IDLE_PRIORITY
<1>9. IdleOnlyAlone
  BY DEF Init, IdleOnlyAlone
<1>. QED
  BY <1>1, <1>6, <1>7, <1>8, <1>9 DEF OrderInv

(* What a dispatch keeps of PriorityInv: who stays blocked does not age.    *)
LEMMA ScheduleOrder ==
  ASSUME OrderInv, NEW STATE q, q \in Seq(PCB), IsInjective(q), getProc(q, idle),
         Descending(q, priority), Within(q, priority, MaxPriority + MAXPROC),
         \A p \in PCB : getProc(q, p) => p \in live /\ p_semkey'[p] = NULL,
         \A p \in PCB : p_semkey'[p] # NULL => priority[p] = original_priority[p],
         scheduling(q), UNCHANGED <<pcbFree, original_priority>>
  PROVE  PriorityInv' /\ ReadySorted' /\ BoundedAging' /\ IdleOnlyAlone'
<1>1. TypeInv /\ priority[idle] = IDLE_PRIORITY /\ original_priority[idle] = IDLE_PRIORITY
  BY DEF OrderInv, CountedInv, ListInv, IdleInv
<1>2. /\ \A p \in PCB : priority[p] \in Int /\ original_priority[p] \in Int
      /\ IDLE_PRIORITY < MaxPriority /\ MaxPriority \in Int
  BY OrderFacts
<1>3. \A p \in live \ {idle} : /\ p \in PCB
                              /\ IDLE_PRIORITY < original_priority[p]
                              /\ original_priority[p] <= priority[p]
                              /\ original_priority[p] <= MaxPriority
  BY DEF OrderInv, PriorityInv, live
<1>4. \A p \in PCB : getProc(q, p) =>
        (p = idle \/ IDLE_PRIORITY < priority[p]) /\ original_priority[p] <= MaxPriority
  <2>. SUFFICES ASSUME NEW p \in PCB, getProc(q, p), p # idle
                PROVE  IDLE_PRIORITY < priority[p] /\ original_priority[p] <= MaxPriority
    BY <1>1, <1>2 DEF IDLE_PRIORITY
  <2>. QED
    BY <1>2, <1>3 DEF IDLE_PRIORITY
<1>5. /\ ReadySorted' /\ BoundedAging' /\ IdleOnlyAlone'
      /\ mode' \in {"user", "halt"}
      /\ \A p \in PCB : priority'[p] =
           IF mode' = "user" /\ p = selected' THEN original_priority[p]
           ELSE IF mode' = "user" /\ getProc(q, p) /\ p # idle THEN priority[p] + 1
           ELSE priority[p]
  BY <1>1, <1>4, SchedulingOrder
<1>6. mode' = "user" => selected' \in PCB
  BY <1>1, SchedulingType
<1>7. live' = live
  BY DEF live
<1>8. ASSUME NEW p \in live \ {idle}
      PROVE  /\ IDLE_PRIORITY < original_priority[p]
             /\ original_priority[p] <= priority'[p]
             /\ original_priority[p] <= MaxPriority
             /\ p_semkey'[p] # NULL => priority'[p] = original_priority[p]
  <2>1. priority'[p] \in {original_priority[p], priority[p], priority[p] + 1}
    BY <1>3, <1>5
  <2>2. original_priority[p] <= priority'[p]
    BY <1>2, <1>3, <2>1
  <2>. QED
    BY <1>3, <1>5, <2>2
<1>. QED
  BY <1>5, <1>6, <1>7, <1>8 DEF PriorityInv

LEMMA RescheduleOrder ==
  ASSUME OrderInv, scheduling(readyQueue), UNCHANGED <<pcbFree, original_priority, p_semkey>>
  PROVE  PriorityInv' /\ ReadySorted' /\ BoundedAging' /\ IdleOnlyAlone'
<1>1. \A p \in PCB : p_semkey[p] # NULL => priority[p] = original_priority[p]
  BY OrderFacts DEF OrderInv, PriorityInv
<1>. QED
  BY <1>1, OrderFacts, ScheduleOrder

LEMMA TermProcessOrder ==
  ASSUME OrderInv, Caller, NEW STATE p, NEW then, term_process(p, then)
  PROVE  PriorityInv' /\ ReadySorted' /\ BoundedAging' /\ IdleOnlyAlone'
<1>1. CASE ~ getProc(readyQueue, p) /\ p_semkey[p] = NULL /\ then = "scheduling"
  BY <1>1, RescheduleOrder DEF term_process, aslVars
<1>2. CASE ~ (~ getProc(readyQueue, p) /\ p_semkey[p] = NULL /\ then = "scheduling")
  <2>1. /\ UNCHANGED <<selected, pcbFree, readyQueue, priority, original_priority, p_semkey>>
        /\ mode' \in {"user", "term"} /\ mode = "user" /\ selected # idle
    BY <1>2 DEF term_process, aslVars, Caller
  <2>2. live' = live
    BY <2>1 DEF live
  <2>. QED
    BY <2>1, <2>2 DEF OrderInv, PriorityInv, ReadySorted, BoundedAging, IdleOnlyAlone
<1>. QED
  BY <1>1, <1>2

(* A new process, or one that is woken up, p, joins the ready queue.        *)
LEMMA JoinOrder ==
  ASSUME OrderInv, readyQueue' \in Seq(PCB), IsInjective(readyQueue'),
         NEW STATE p, p \in PCB, priority' \in [PCB -> Int], priority'[p] <= MaxPriority,
         \A r \in PCB : getProc(readyQueue, r) => priority'[r] = priority[r],
         readyQueue' = insertProcQ(readyQueue, p, priority')
  PROVE  ReadySorted' /\ BoundedAging'
<1>. DEFINE b == MaxPriority + MAXPROC
            prio == priority'
<1>1. /\ readyQueue \in Seq(PCB) /\ b \in Int /\ MaxPriority \in Int /\ MAXPROC \in Nat
      /\ Descending(readyQueue, priority) /\ Within(readyQueue, priority, b)
  BY OrderFacts
<1>2. \A i \in DOMAIN readyQueue : prio[readyQueue[i]] = priority[readyQueue[i]]
  BY <1>1, ElementOfSeq, LenProperties DEF getProc
<1>3. Descending(readyQueue, prio) /\ Within(readyQueue, prio, b)
  BY <1>1, <1>2 DEF Descending, Within
<1>4. \A r \in PCB : prio[r] \in Int
  OBVIOUS
<1>5. prio[p] + Len(readyQueue) + 1 <= b
  <2>1. Len(readyQueue') \in 0 .. MAXPROC
    BY QueueFits
  <2>2. Len(readyQueue') = Len(readyQueue) + 1 /\ Len(readyQueue) \in Nat
    BY <1>1, InsertProcQ, LenProperties
  <2>. QED
    BY <1>1, <1>4, <2>1, <2>2
<1>. HIDE DEF b
<1>6. /\ Descending(insertProcQ(readyQueue, p, prio), prio)
      /\ Within(insertProcQ(readyQueue, p, prio), prio, b)
  <2>. HIDE DEF prio
  <2>. QED
    BY <1>1, <1>3, <1>4, <1>5, InsertProcQOrder
<1>. QED
  BY <1>6 DEF ReadySorted, BoundedAging, Within, b

LEMMA CreateProcessOrder ==
  ASSUME PrioritiesAboveIdle, OrderInv, CountedInv', NEW STATE v, v \in Priority, create_process(v)
  PROVE  PriorityInv' /\ ReadySorted' /\ BoundedAging' /\ IdleOnlyAlone'
<1>1. /\ UNCHANGED <<selected, mode>> /\ mode = "user" /\ selected # idle
      /\ getProc(readyQueue, selected) /\ selected \in PCB
  BY DEF create_process, Caller, OrderInv, CountedInv, ListInv, QueueInv, SelectedReady, TypeInv
<1>2. IdleOnlyAlone'
  BY <1>1 DEF IdleOnlyAlone
<1>3. CASE UNCHANGED <<readyQueue, priority, original_priority, p_semkey, pcbFree>>
  <2>1. live' = live
    BY <1>3 DEF live
  <2>. QED
    BY <1>1, <1>2, <1>3, <2>1 DEF OrderInv, PriorityInv, ReadySorted, BoundedAging
<1>4. ASSUME NEW new \in pcbFree,
             allocPcb(new),
             priority' = [priority EXCEPT ![new] = v],
             original_priority' = [original_priority EXCEPT ![new] = v],
             readyQueue' = insertProcQ(readyQueue, new, priority')
      PROVE  PriorityInv' /\ ReadySorted' /\ BoundedAging' /\ IdleOnlyAlone'
  <2>1. new \in PCB /\ new \notin live /\ ~ getProc(readyQueue, new) /\ live' = live \cup {new}
    BY <1>4 DEF OrderInv, CountedInv, ListInv, TypeInv, TypeOK, QueueInv, ReadyOrFree, live, allocPcb
  <2>2. v \in Int /\ v <= MaxPriority /\ IDLE_PRIORITY < v
    BY NucleusAssumption DEF PrioritiesAboveIdle
  <2>3. /\ priority' \in [PCB -> Int]
        /\ \A p \in PCB : priority'[p] = IF p = new THEN v ELSE priority[p]
        /\ \A p \in PCB : original_priority'[p] = IF p = new THEN v ELSE original_priority[p]
    BY <1>4, <2>1, <2>2, OrderFacts
  <2>4. ReadySorted' /\ BoundedAging'
    <3>1. readyQueue' \in Seq(PCB) /\ IsInjective(readyQueue')
      BY DEF CountedInv, ListInv, TypeInv, TypeOK, QueueInv, ReadyOrFree
    <3>2. priority'[new] <= MaxPriority
      BY <2>1, <2>2, <2>3
    <3>3. \A r \in PCB : getProc(readyQueue, r) => priority'[r] = priority[r]
      BY <2>1, <2>3
    <3>. QED
      BY <1>4, <2>1, <2>3, <3>1, <3>2, <3>3, JoinOrder
  <2>5. PriorityInv'
    <3>1. \A p \in PCB : p_semkey'[p] # NULL => p # new /\ p_semkey[p] # NULL
      BY <1>4, <2>1 DEF allocPcb, OrderInv, CountedInv, ListInv, TypeInv, AslInv, AslTypeOK
    <3>2. ASSUME NEW p \in live' \ {idle}
          PROVE  /\ IDLE_PRIORITY < original_priority'[p]
                 /\ original_priority'[p] <= priority'[p]
                 /\ original_priority'[p] <= MaxPriority
                 /\ p_semkey'[p] # NULL => priority'[p] = original_priority'[p]
      <4>1. p \in PCB
        BY <2>1 DEF live
      <4>2. CASE p = new
        BY <2>2, <2>3, <3>1, <4>1, <4>2
      <4>3. CASE p # new
        BY <2>1, <2>3, <3>1, <4>1, <4>3 DEF OrderInv, PriorityInv
      <4>. QED
        BY <4>2, <4>3
    <3>3. priority'[selected] = original_priority'[selected]
      BY <1>1, <2>1, <2>3 DEF OrderInv, PriorityInv
    <3>. QED
      BY <1>1, <3>2, <3>3 DEF PriorityInv
  <2>. QED
    BY <1>2, <2>4, <2>5
<1>. QED
  BY <1>3, <1>4 DEF create_process

(* A process that is woken up has not aged while it was blocked.            *)
LEMMA VerhogenOrder ==
  ASSUME OrderInv, CountedInv', NEW STATE k, k \in Key, verhogen(k)
  PROVE  PriorityInv' /\ ReadySorted' /\ BoundedAging' /\ IdleOnlyAlone'
<1>1. /\ UNCHANGED <<priority, original_priority, selected, mode, pcbFree>>
      /\ mode = "user" /\ selected # idle /\ live' = live
  BY DEF verhogen, Caller, live
<1>2. IdleOnlyAlone'
  BY <1>1 DEF IdleOnlyAlone
<1>3. CASE headBlocked(k) = NULL
  BY <1>1, <1>2, <1>3 DEF verhogen, removeBlocked, aslVars, OrderInv, PriorityInv, ReadySorted, BoundedAging
<1>4. CASE headBlocked(k) # NULL
  <2>. DEFINE p == headBlocked(k)
  <2>1. p \in PCB /\ p_semkey[p] = k /\ unblock(k, p)
    BY <1>4, RemoveBlockedQueues DEF verhogen, OrderInv, CountedInv, ListInv, TypeInv, QueueInv
  <2>2. readyQueue' = insertProcQ(readyQueue, p, priority')
    BY <1>1, <1>4 DEF verhogen
  <2>. HIDE DEF p
  <2>3. priority[p] <= MaxPriority
    <3>1. p_semkey[p] # NULL
      BY <2>1, TableAssumption
    <3>2. p \in live \ {idle}
      BY <2>1, <3>1, OrderFacts
    <3>. QED
      BY <3>1, <3>2 DEF OrderInv, PriorityInv
  <2>4. readyQueue' \in Seq(PCB) /\ IsInjective(readyQueue') /\ priority' \in [PCB -> Int]
    BY DEF CountedInv, ListInv, TypeInv, TypeOK, QueueInv, ReadyOrFree
  <2>5. ReadySorted' /\ BoundedAging'
    BY <1>1, <2>1, <2>2, <2>3, <2>4, JoinOrder
  <2>6. \A r \in PCB : p_semkey'[r] # NULL => p_semkey[r] # NULL
    BY <2>1 DEF unblock, OrderInv, CountedInv, ListInv, TypeInv, AslInv, AslTypeOK
  <2>7. PriorityInv'
    BY <1>1, <2>6 DEF OrderInv, PriorityInv, live
  <2>. QED
    BY <1>2, <2>5, <2>7
<1>. QED
  BY <1>3, <1>4

(* The caller leaves the queue with its original priority.                  *)
LEMMA PasserenOrder ==
  ASSUME OrderInv, NEW STATE k, k \in Key, passeren(k)
  PROVE  PriorityInv' /\ ReadySorted' /\ BoundedAging' /\ IdleOnlyAlone'
<1>1. /\ UNCHANGED <<original_priority, pcbFree>>
      /\ mode = "user" /\ selected # idle
  BY DEF passeren, Caller
<1>2. /\ selected \in PCB /\ getProc(readyQueue, selected)
      /\ selected \notin pcbFree /\ p_semkey[selected] = NULL
      /\ priority[selected] = original_priority[selected]
  BY <1>1 DEF OrderInv, CountedInv, ListInv, TypeInv, TypeOK, QueueInv, ReadyOrFree, SelectedReady,
              PriorityInv
<1>3. CASE UNCHANGED <<aslVars, readyQueue, priority, selected, mode>>
  <2>1. live' = live /\ p_semkey' = p_semkey
    BY <1>1, <1>3 DEF live, aslVars
  <2>. QED
    BY <1>1, <1>3, <2>1 DEF OrderInv, PriorityInv, ReadySorted, BoundedAging, IdleOnlyAlone
<1>4. CASE insertBlocked(k, selected) /\ scheduling(outProcQ(readyQueue, selected))
  <2>. DEFINE q == outProcQ(readyQueue, selected)
  <2>1. p_semkey' = [p_semkey EXCEPT ![selected] = k]
    BY <1>2, <1>4, InsertBlockedQueues DEF OrderInv, CountedInv, ListInv, TypeInv, QueueInv
  <2>2. /\ q \in Seq(PCB) /\ IsInjective(q)
        /\ \A r : getProc(q, r) <=> r # selected /\ getProc(readyQueue, r)
    BY <1>2, OutProcQMembers, OrderFacts
  <2>3. Descending(q, priority) /\ Within(q, priority, MaxPriority + MAXPROC)
    BY OutProcQOrder, OrderFacts
  <2>4. scheduling(q)
    BY <1>4
  <2>. HIDE DEF q
  <2>5. \A p \in PCB : p_semkey'[p] = IF p = selected THEN k ELSE p_semkey[p]
    BY <1>2, <2>1 DEF OrderInv, CountedInv, ListInv, TypeInv, AslInv, AslTypeOK
  <2>6. \A p \in PCB : getProc(q, p) => p \in live /\ p_semkey'[p] = NULL
    BY <2>2, <2>5, OrderFacts
  <2>7. \A p \in PCB : p_semkey'[p] # NULL => priority[p] = original_priority[p]
    BY <1>2, <2>5, OrderFacts DEF OrderInv, PriorityInv
  <2>8. getProc(q, idle)
    BY <1>1, <2>2, OrderFacts
  <2>. QED
    BY <1>1, <2>2, <2>3, <2>4, <2>6, <2>7, <2>8, ScheduleOrder
<1>. QED
  BY <1>2, <1>3, <1>4 DEF passeren

LEMMA DeleteRicOrder ==
  ASSUME OrderInv, NEW STATE p, p \in PCB, delete_ric(p)
  PROVE  PriorityInv' /\ ReadySorted' /\ BoundedAging' /\ IdleOnlyAlone'
<1>1. p \notin pcbFree
  BY DoomedLive DEF delete_ric, OrderInv, CountedInv, ListInv
<1>2. /\ UNCHANGED <<priority, original_priority, selected, after>>
      /\ mode = "term" /\ mode' = "term"
      /\ live' \subseteq live
  BY <1>1 DEF delete_ric, freePcb, live
<1>3. readyQueue' = readyQueue \/ readyQueue' = outProcQ(readyQueue, p)
  BY DEF delete_ric, unlink
<1>4. ReadySorted' /\ BoundedAging'
  <2>1. /\ Descending(outProcQ(readyQueue, p), priority)
        /\ Within(outProcQ(readyQueue, p), priority, MaxPriority + MAXPROC)
    BY OutProcQOrder, OrderFacts
  <2>2. /\ Descending(readyQueue', priority)
        /\ Within(readyQueue', priority, MaxPriority + MAXPROC)
    BY <1>3, <2>1, OrderFacts
  <2>. QED
    BY <1>2, <2>2 DEF ReadySorted, BoundedAging, Within
<1>5. \A r \in PCB : p_semkey'[r] # NULL => p_semkey[r] # NULL
  BY DEF delete_ric, unlink, outBlocked, unblock, aslVars, OrderInv, CountedInv, ListInv, TypeInv,
         AslInv, AslTypeOK
<1>6. PriorityInv'
  BY <1>2, <1>5 DEF OrderInv, PriorityInv, live
<1>. QED
  BY <1>2, <1>4, <1>6 DEF IdleOnlyAlone

LEMMA TermDoneOrder ==
  ASSUME OrderInv, TermDone
  PROVE  PriorityInv' /\ ReadySorted' /\ BoundedAging' /\ IdleOnlyAlone'
<1>1. /\ UNCHANGED <<original_priority, pcbFree, p_semkey>>
      /\ mode = "term" /\ selected # idle
      /\ after \in {"resume", "scheduling"}
  BY DEF TermDone, aslVars, OrderInv, CountedInv, ListInv, TypeInv, TypeOK, IdleInv
<1>2. CASE after = "scheduling"
  BY <1>1, <1>2, RescheduleOrder DEF TermDone
<1>3. CASE after = "resume"
  <2>1. mode' = "user" /\ UNCHANGED <<selected, priority, readyQueue>> /\ live' = live
    BY <1>1, <1>3 DEF TermDone, live
  <2>. QED
    BY <1>1, <1>3, <2>1 DEF OrderInv, PriorityInv, ReadySorted, BoundedAging, IdleOnlyAlone
<1>. QED
  BY <1>1, <1>2, <1>3

LEMMA NextOrderInv ==
  ASSUME ~ KillsOwnAncestry, PrioritiesAboveIdle, OrderInv, [Next]_vars
  PROVE  OrderInv'
<1>. DEFINE Goal == PriorityInv' /\ ReadySorted' /\ BoundedAging' /\ IdleOnlyAlone'
<1>0. CountedInv'
  BY NextCountedInv DEF OrderInv, Step
<1>. SUFFICES Goal
  BY <1>0 DEF OrderInv
<1>1. CASE Boot \/ TimerInterrupt
  BY <1>1, RescheduleOrder DEF Boot, TimerInterrupt, aslVars
<1>2. ASSUME NEW v \in Priority, create_process(v) PROVE Goal
  BY <1>0, <1>2, CreateProcessOrder
<1>3. CASE TerminateSelf
  BY <1>3, TermProcessOrder DEF TerminateSelf
<1>4. ASSUME NEW p \in PCB, TerminatePid(p) PROVE Goal
  BY <1>4, TermProcessOrder DEF TerminatePid
<1>5. ASSUME NEW p \in PCB, delete_ric(p) PROVE Goal
  BY <1>5, DeleteRicOrder
<1>6. CASE TermDone
  BY <1>6, TermDoneOrder
<1>7. ASSUME NEW k \in Key, verhogen(k) \/ passeren(k) PROVE Goal
  BY <1>0, <1>7, VerhogenOrder, PasserenOrder
<1>8. CASE UNCHANGED <<aslVars, schedVars, pcbFree, termVars>>
  <2>1. UNCHANGED <<readyQueue, pcbFree, priority, original_priority, selected, mode, p_semkey, after>>
    BY <1>8 DEF aslVars, schedVars, termVars
  <2>2. live' = live
    BY <2>1 DEF live
  <2>. QED
    BY <2>1, <2>2 DEF OrderInv, PriorityInv, ReadySorted, BoundedAging, IdleOnlyAlone
<1>9. ASSUME NEW t \in PassType, specpassup(t) PROVE Goal
  <2>1. CASE t \in PassType \ passup[selected]
    BY <1>8, <1>9, <2>1 DEF specpassup
  <2>2. CASE t \notin PassType \ passup[selected]
    BY <1>9, <2>2, TermProcessOrder DEF specpassup
  <2>. QED
    BY <2>1, <2>2
<1>10. CASE UnknownSyscall \/ tlb_H \/ trap_H
  BY <1>10, TermProcessOrder DEF UnknownSyscall, tlb_H, trap_H, PassUpOrDie
<1>11. CASE UNCHANGED vars \/ Stopped
  BY <1>8, <1>11 DEF Stopped, vars
<1>. QED
  BY <1>1, <1>2, <1>3, <1>4, <1>5, <1>6, <1>7, <1>9, <1>10, <1>11 DEF Next

LEMMA AlwaysOrderInv ==
  ASSUME ~ KillsOwnAncestry, PrioritiesAboveIdle
  PROVE  Spec => []OrderInv
<1>1. OrderInv /\ [Next]_vars => OrderInv'
  BY NextOrderInv
<1>. QED
  BY <1>1, InitOrderInv, PTL DEF Spec

(* With every process created above idle, and nobody killing an ancestor of *)
(* the caller, the ready queue is sorted after every system call and        *)
(* interrupt: the head is always a process of highest priority.             *)
THEOREM ReadyStaysSorted ==
  ASSUME ~ KillsOwnAncestry, PrioritiesAboveIdle
  PROVE  Spec => []ReadySorted
<1>1. OrderInv => ReadySorted
  BY DEF OrderInv
<1>. QED
  BY <1>1, AlwaysOrderInv, PTL

(* ... aging is bounded by the highest priority created and the number of   *)
(* PCBs, however long a process waits: it is dispatched before that.        *)
THEOREM AgingIsBounded ==
  ASSUME ~ KillsOwnAncestry, PrioritiesAboveIdle
  PROVE  Spec => []BoundedAging
<1>1. OrderInv => BoundedAging
  BY DEF OrderInv
<1>. QED
  BY <1>1, AlwaysOrderInv, PTL

(* ... and idle runs only when it is alone on the ready queue.              *)
THEOREM IdleRunsAlone ==
  ASSUME ~ KillsOwnAncestry, PrioritiesAboveIdle
  PROVE  Spec => []IdleOnlyAlone
<1>1. OrderInv => IdleOnlyAlone
  BY DEF OrderInv
<1>. QED
  BY <1>1, AlwaysOrderInv, PTL

(* If moreover no CREATEPROCESS fails, so that n_proc counts the processes, *)
(* idle only runs while some process is blocked: otherwise the machine has  *)
(* halted.                                                                  *)
THEOREM IdleWaitsForSomebody ==
  ASSUME ~ KillsOwnAncestry, PrioritiesAboveIdle, MaxFailedCreates = 0
  PROVE  Spec => []HaltsWhenDone
<1>1. OrderInv => HaltsWhenDone
  <2>. SUFFICES ASSUME OrderInv, mode = "user", selected = idle
                PROVE  \E p \in PCB : Blocked(p)
    BY DEF HaltsWhenDone
  <2>1. n_proc - Cardinality(live \ {idle}) = 0 /\ n_proc > 0
    BY DEF OrderInv, CountedInv, CountInv
  <2>2. live \ {idle} # {}
    <3>1. n_proc \in Int /\ Cardinality({}) = 0
      BY FS_EmptySet DEF OrderInv, CountedInv, ListInv, TypeInv, TypeOK
    <3>. QED
      BY <2>1, <3>1
  <2>3. PICK p \in live \ {idle} : TRUE
    BY <2>2
  <2>4. readyQueue = <<idle>>
    BY DEF OrderInv, IdleOnlyAlone
  <2>5. ~ getProc(readyQueue, p)
    BY <2>3, <2>4 DEF getProc
  <2>. QED
    BY <2>3, <2>5 DEF OrderInv, CountedInv, ListInv, QueueInv, ReadyOrFree, live, Blocked
<1>. QED
  BY <1>1, AlwaysOrderInv, PTL
==============================================================================
