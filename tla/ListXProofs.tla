------------------------------ MODULE ListXProofs ------------------------------
(****************************************************************************)
(* What the functions of listx.h do to the circular lists of a heap, in     *)
(* terms of sequences: for any heap and lists of any length.                *)
(****************************************************************************)
EXTENDS ListX, SequenceTheorems, WellFoundedInduction, FiniteSetTheorems, TLAPS

(* Heaps over the nodes N; a field that was never set may hold anything     *)
(* in P.                                                                    *)
HeapOver(N, P) == [next : [N -> P], prev : [N -> P]]

turn(s, i) == IF i = Len(s) THEN 1 ELSE i + 1

(* In h the nodes of s, its head the first of them, are one circular list,  *)
(* linked in both directions.                                               *)
Ring(h, s) ==
  /\ \A i, j \in 1 .. Len(s) : s[i] = s[j] => i = j
  /\ \A i \in 1 .. Len(s) : h.next[s[i]] = s[turn(s, i)] /\ h.prev[s[turn(s, i)]] = s[i]

On(s, n) == \E i \in 1 .. Len(s) : s[i] = n

(* The lists that share no node with s are in g what they were in h.        *)
Spares(N, h, g, s) ==
  \A u \in Seq(N) : Ring(h, u) /\ (\A n : ~ (On(u, n) /\ On(s, n))) => Ring(g, u)

(* The elements of two sequences put together.                              *)
LEMMA JoinElements ==
  ASSUME NEW N, NEW s \in Seq(N), NEW t \in Seq(N)
  PROVE  /\ s \o t \in Seq(N) /\ Len(s) \in Nat /\ Len(t) \in Nat
         /\ Len(s \o t) = Len(s) + Len(t)
         /\ \A j \in 1 .. Len(s) + Len(t) : (s \o t)[j] = IF j <= Len(s) THEN s[j] ELSE t[j - Len(s)]
  OBVIOUS

(* A sequence with one element more in the middle.                          *)
LEMMA SpliceElements ==
  ASSUME NEW N, NEW s \in Seq(N), NEW t \in Seq(N), NEW n \in N
  PROVE  /\ s \o <<n>> \o t \in Seq(N)
         /\ Len(s \o <<n>> \o t) = Len(s) + Len(t) + 1
         /\ \A j \in 1 .. Len(s) + Len(t) + 1 : (s \o <<n>> \o t)[j] =
              IF j <= Len(s) THEN s[j] ELSE IF j = Len(s) + 1 THEN n ELSE t[j - Len(s) - 1]
<1>. DEFINE sn == s \o <<n>>
<1>1. /\ sn \in Seq(N) /\ Len(sn) = Len(s) + 1 /\ Len(s) \in Nat /\ Len(t) \in Nat
      /\ \A j \in 1 .. Len(s) + 1 : sn[j] = IF j <= Len(s) THEN s[j] ELSE n
  BY <<n>> \in Seq(N), JoinElements
<1>. HIDE DEF sn
<1>2. /\ sn \o t \in Seq(N) /\ Len(sn \o t) = Len(sn) + Len(t)
      /\ \A j \in 1 .. Len(sn) + Len(t) : (sn \o t)[j] = IF j <= Len(sn) THEN sn[j] ELSE t[j - Len(sn)]
  BY <1>1, JoinElements
<1>3. /\ sn \o t \in Seq(N) /\ Len(sn \o t) = Len(s) + Len(t) + 1
      /\ \A j \in 1 .. Len(s) + Len(t) + 1 : (sn \o t)[j] =
           IF j <= Len(s) THEN s[j] ELSE IF j = Len(s) + 1 THEN n ELSE t[j - Len(s) - 1]
  BY <1>1, <1>2
<1>. QED
  BY <1>3 DEF sn

(* An entry put on a circular list between two neighbours.                  *)
LEMMA BetweenRing ==
  ASSUME NEW N, NEW P, N \subseteq P, NEW h \in HeapOver(N, P),
         NEW s \in Seq(N), NEW t \in Seq(N), s # <<>>, Ring(h, s \o t),
         NEW new \in N, ~ On(s \o t, new)
  PROVE  LET behind == IF t = <<>> THEN s[1] ELSE t[1]
             g == list_add_between(h, new, s[Len(s)], behind)
         IN  /\ behind = h.next[s[Len(s)]] /\ s[Len(s)] = h.prev[behind]
             /\ g \in HeapOver(N, P)
             /\ Ring(g, s \o <<new>> \o t)
             /\ Spares(N, h, g, s \o <<new>> \o t)
<1>. DEFINE r == s \o t
            q == s \o <<new>> \o t
            before == s[Len(s)]
            behind == IF t = <<>> THEN s[1] ELSE t[1]
            g == list_add_between(h, new, before, behind)
            a == Len(s)
            b == Len(t)
<1>1. a \in Nat /\ b \in Nat /\ a > 0 /\ (t = <<>> <=> b = 0)
  OBVIOUS
<1>2. /\ r \in Seq(N) /\ Len(r) = a + b
      /\ \A j \in 1 .. a + b : r[j] = IF j <= a THEN s[j] ELSE t[j - a]
  BY JoinElements
<1>3. /\ q \in Seq(N) /\ Len(q) = a + b + 1
      /\ \A j \in 1 .. a + b + 1 :
           q[j] = IF j <= a THEN s[j] ELSE IF j = a + 1 THEN new ELSE t[j - a - 1]
  BY SpliceElements
<1>4. /\ h.next \in [N -> P] /\ h.prev \in [N -> P]
      /\ g.next = [h.next EXCEPT ![new] = behind, ![before] = new]
      /\ g.prev = [h.prev EXCEPT ![behind] = new, ![new] = before]
      /\ g = [next |-> g.next, prev |-> g.prev]
  BY DEF HeapOver, list_add_between
<1>0. Ring(h, r) /\ ~ On(r, new)
  OBVIOUS
<1>. HIDE DEF g, r, q
<1>5. /\ before = r[a] /\ behind = r[turn(r, a)] /\ before \in N /\ behind \in N
      /\ turn(r, a) \in 1 .. a + b /\ a \in 1 .. a + b
  <2>1. before = r[a] /\ before \in N /\ a \in 1 .. a + b
    BY <1>1, <1>2
  <2>2. CASE b = 0
    <3>1. turn(r, a) = 1 /\ r[1] = s[1]
      BY <1>1, <1>2, <2>2 DEF turn
    <3>. QED
      BY <1>1, <2>1, <2>2, <3>1
  <2>3. CASE b > 0
    <3>1. turn(r, a) = a + 1 /\ a + 1 \in 1 .. a + b
      BY <1>1, <1>2, <2>3 DEF turn
    <3>2. r[a + 1] = t[1] /\ t[1] \in N
      BY <1>1, <1>2, <2>3
    <3>. QED
      BY <1>1, <2>1, <2>3, <3>1, <3>2
  <2>. QED
    BY <1>1, <2>2, <2>3
<1>6. /\ \A i, j \in 1 .. a + b : r[i] = r[j] => i = j
      /\ \A i \in 1 .. a + b : h.next[r[i]] = r[turn(r, i)] /\ h.prev[r[turn(r, i)]] = r[i]
      /\ \A i \in 1 .. a + b : r[i] # new /\ r[i] \in N
  BY <1>0, <1>2 DEF Ring, On
<1>7. before # new /\ behind # new /\ behind = h.next[before] /\ before = h.prev[behind]
  BY <1>5, <1>6
<1>8. g \in HeapOver(N, P)
  <2>1. g.next \in [N -> P] /\ g.prev \in [N -> P]
    BY <1>4, <1>5
  <2>. HIDE DEF before, behind
  <2>. QED
    BY <1>4, <2>1 DEF HeapOver
<1>9. /\ g.next[new] = behind /\ g.next[before] = new
      /\ g.prev[behind] = new /\ g.prev[new] = before
      /\ \A n \in N : n # new /\ n # before => g.next[n] = h.next[n]
      /\ \A n \in N : n # new /\ n # behind => g.prev[n] = h.prev[n]
  BY <1>4, <1>5, <1>7
<1>10. \A j \in 1 .. a + b + 1 :
         /\ j <= a => j \in 1 .. a + b /\ q[j] = r[j]
         /\ j = a + 1 => q[j] = new
         /\ j > a + 1 => j - 1 \in 1 .. a + b /\ q[j] = r[j - 1]
  <2>1. \A j \in 1 .. a + b + 1 : j <= a => j \in 1 .. a + b /\ q[j] = r[j]
    BY <1>1, <1>2, <1>3
  <2>2. q[a + 1] = new
    <3>1. a + 1 \in 1 .. a + b + 1 /\ ~ (a + 1 <= a)
      BY <1>1
    <3>. QED
      BY <1>3, <3>1
  <2>3. ASSUME NEW j \in 1 .. a + b + 1, j > a + 1
        PROVE  j - 1 \in 1 .. a + b /\ q[j] = r[j - 1]
    <3>1. q[j] = t[j - a - 1]
      BY <1>1, <1>3, <2>3
    <3>2. j - 1 \in 1 .. a + b /\ ~ (j - 1 <= a) /\ j - 1 - a = j - a - 1
      BY <1>1, <2>3
    <3>3. r[j - 1] = t[j - 1 - a]
      BY <1>2, <3>2
    <3>. QED
      BY <3>1, <3>2, <3>3
  <2>. QED
    BY <2>1, <2>2, <2>3
<1>11. \A i, j \in 1 .. a + b + 1 : q[i] = q[j] => i = j
  <2>. DEFINE place(j) == IF j <= a THEN j ELSE j - 1
  <2>1. ASSUME NEW j \in 1 .. a + b + 1, j # a + 1
        PROVE  place(j) \in 1 .. a + b /\ q[j] = r[place(j)]
    BY <1>1, <1>10, <2>1
  <2>2. \A i, j \in 1 .. a + b + 1 : i # a + 1 /\ j # a + 1 /\ place(i) = place(j) => i = j
    BY <1>1
  <2>. HIDE DEF place
  <2>3. q[a + 1] = new /\ a + 1 \in 1 .. a + b + 1
    BY <1>1, <1>10
  <2>4. ASSUME NEW i \in 1 .. a + b + 1, NEW j \in 1 .. a + b + 1, q[i] = q[j]
        PROVE  i = j
    <3>1. CASE i # a + 1 /\ j # a + 1
      BY <1>6, <2>1, <2>2, <2>4, <3>1
    <3>2. CASE i = a + 1 \/ j = a + 1
      BY <1>6, <2>1, <2>3, <2>4, <3>2
    <3>. QED
      BY <3>1, <3>2
  <2>. QED
    BY <2>4
<1>12. ASSUME NEW i \in 1 .. a + b + 1
       PROVE  g.next[q[i]] = q[turn(q, i)] /\ g.prev[q[turn(q, i)]] = q[i]
  <2>1. CASE i = a
    <3>1. turn(q, i) = a + 1 /\ q[i] = before /\ q[a + 1] = new
      BY <1>1, <1>3, <1>5, <1>10, <2>1 DEF turn
    <3>. QED
      BY <1>9, <3>1
  <2>2. CASE i = a + 1
    <3>1. q[i] = new /\ q[turn(q, i)] = behind
      BY <1>1, <1>2, <1>3, <1>5, <1>10, <2>2 DEF turn
    <3>. QED
      BY <1>9, <3>1
  <2>3. CASE i < a
    <3>1. /\ turn(q, i) = i + 1 /\ turn(r, i) = i + 1 /\ i \in 1 .. a + b /\ i + 1 \in 1 .. a + b
          /\ q[i] = r[i] /\ q[i + 1] = r[i + 1]
      BY <1>1, <1>2, <1>3, <1>10, <2>3 DEF turn
    <3>2. r[i] # before
      BY <1>5, <1>6, <2>3, <3>1
    <3>3. r[i + 1] # behind
      <4>1. turn(r, a) # i + 1
        BY <1>1, <1>2, <2>3 DEF turn
      <4>. QED
        BY <1>5, <1>6, <3>1, <4>1
    <3>. QED
      BY <1>6, <1>9, <3>1, <3>2, <3>3
  <2>4. CASE i > a + 1
    <3>1. i - 1 \in 1 .. a + b /\ q[i] = r[i - 1] /\ i - 1 > a
      BY <1>1, <1>10, <2>4
    <3>2. q[turn(q, i)] = r[turn(r, i - 1)] /\ turn(r, i - 1) \in 1 .. a + b
      <4>1. CASE i = a + b + 1
        <5>1. turn(q, i) = 1 /\ turn(r, i - 1) = 1
          BY <1>1, <1>2, <1>3, <4>1 DEF turn
        <5>2. q[1] = r[1] /\ 1 \in 1 .. a + b
          BY <1>1, <1>10
        <5>. QED
          BY <5>1, <5>2
      <4>2. CASE i # a + b + 1
        <5>1. turn(q, i) = i + 1 /\ turn(r, i - 1) = i /\ i \in 1 .. a + b
          <6>. HIDE DEF a, b
          <6>1. i \in 1 .. a + b /\ i # Len(q) /\ i - 1 # Len(r) /\ (i - 1) + 1 = i
            BY <1>1, <1>2, <1>3, <2>4, <4>2
          <6>. QED
            BY <6>1 DEF turn
        <5>2. i + 1 \in 1 .. a + b + 1 /\ i + 1 > a + 1 /\ (i + 1) - 1 = i
          BY <1>1, <2>4, <5>1
        <5>3. q[i + 1] = r[i]
          BY <1>10, <5>2
        <5>. QED
          BY <5>1, <5>3
      <4>. QED
        BY <4>1, <4>2
    <3>3. r[i - 1] # before
      BY <1>1, <1>5, <1>6, <3>1
    <3>4. r[turn(r, i - 1)] # behind
      <4>1. turn(r, i - 1) # turn(r, a)
        BY <1>1, <1>2, <3>1 DEF turn
      <4>. QED
        BY <1>5, <1>6, <3>2, <4>1
    <3>. QED
      BY <1>6, <1>9, <3>1, <3>2, <3>3, <3>4
  <2>. QED
    BY <1>1, <2>1, <2>2, <2>3, <2>4
<1>13. Ring(g, q)
  BY <1>3, <1>11, <1>12 DEF Ring
<1>14. ASSUME NEW u \in Seq(N), Ring(h, u), \A n : ~ (On(u, n) /\ On(q, n))
       PROVE  Ring(g, u)
  <2>1. On(q, before) /\ On(q, new) /\ On(q, behind)
    <3>1. a \in 1 .. a + b + 1 /\ a + 1 \in 1 .. a + b + 1 /\ turn(q, a + 1) \in 1 .. a + b + 1
      BY <1>1, <1>3 DEF turn
    <3>2. q[a] = before /\ q[a + 1] = new
      BY <1>5, <1>10, <3>1
    <3>3. q[turn(q, a + 1)] = behind
      BY <1>9, <1>12, <3>1, <3>2
    <3>. QED
      BY <1>3, <3>1, <3>2, <3>3 DEF On
  <2>2. \A i \in 1 .. Len(u) : u[i] \in N /\ turn(u, i) \in 1 .. Len(u)
    BY <1>14 DEF turn
  <2>3. \A i \in 1 .. Len(u) : u[i] # before /\ u[i] # behind /\ u[i] # new
    BY <1>14, <2>1 DEF On
  <2>. QED
    BY <1>9, <1>14, <2>2, <2>3 DEF Ring
<1>. QED
  BY <1>7, <1>8, <1>13, <1>14 DEF g, r, q, Spares

(* An entry taken off a circular list.                                      *)
LEMMA RemovedRing ==
  ASSUME NEW N, NEW P, N \subseteq P, NEW h \in HeapOver(N, P),
         NEW s \in Seq(N), NEW t \in Seq(N), s # <<>>, NEW entry \in N,
         Ring(h, s \o <<entry>> \o t)
  PROVE  LET g == list_del(h, entry)
         IN  /\ g \in HeapOver(N, P)
             /\ Ring(g, s \o t)
             /\ g.next[entry] = h.next[entry] /\ g.prev[entry] = h.prev[entry]
             /\ Spares(N, h, g, s \o <<entry>> \o t)
<1>. DEFINE r == s \o t
            q == s \o <<entry>> \o t
            before == h.prev[entry]
            behind == h.next[entry]
            g == list_del(h, entry)
            a == Len(s)
            b == Len(t)
<1>1. a \in Nat /\ b \in Nat /\ a > 0
  OBVIOUS
<1>2. /\ r \in Seq(N) /\ Len(r) = a + b
      /\ \A j \in 1 .. a + b : r[j] = IF j <= a THEN s[j] ELSE t[j - a]
  BY JoinElements
<1>3. /\ q \in Seq(N) /\ Len(q) = a + b + 1
      /\ \A j \in 1 .. a + b + 1 :
           q[j] = IF j <= a THEN s[j] ELSE IF j = a + 1 THEN entry ELSE t[j - a - 1]
  BY SpliceElements
<1>4. /\ h.next \in [N -> P] /\ h.prev \in [N -> P]
      /\ g.next = [h.next EXCEPT ![before] = behind]
      /\ g.prev = [h.prev EXCEPT ![behind] = before]
      /\ g = [next |-> g.next, prev |-> g.prev]
  BY DEF HeapOver, list_del, list_del_between
<1>0. Ring(h, q)
  OBVIOUS
<1>. HIDE DEF g, r, q
<1>5. /\ \A i, j \in 1 .. a + b + 1 : q[i] = q[j] => i = j
      /\ \A i \in 1 .. a + b + 1 : /\ h.next[q[i]] = q[turn(q, i)] /\ h.prev[q[turn(q, i)]] = q[i]
                                   /\ q[i] \in N
  BY <1>0, <1>3 DEF Ring
<1>6. /\ a \in 1 .. a + b + 1 /\ a + 1 \in 1 .. a + b + 1 /\ turn(q, a) = a + 1
      /\ turn(q, a + 1) \in 1 .. a + b + 1 /\ turn(q, a + 1) # a + 1
  BY <1>1, <1>3 DEF turn
<1>7. q[a + 1] = entry /\ q[a] = before /\ q[turn(q, a + 1)] = behind
  <2>1. q[a + 1] = entry
    BY <1>1, <1>3, <1>6
  <2>. QED
    BY <1>5, <1>6, <2>1
<1>8. before \in N /\ behind \in N /\ before # entry /\ behind # entry
  <2>1. a # a + 1
    BY <1>1
  <2>. QED
    BY <1>5, <1>6, <1>7, <2>1
<1>9. /\ g.next[before] = behind /\ g.prev[behind] = before
      /\ \A n \in N : n # before => g.next[n] = h.next[n]
      /\ \A n \in N : n # behind => g.prev[n] = h.prev[n]
  BY <1>4, <1>8
<1>10. g \in HeapOver(N, P)
  <2>1. g.next \in [N -> P] /\ g.prev \in [N -> P]
    BY <1>4, <1>8
  <2>. HIDE DEF before, behind
  <2>. QED
    BY <1>4, <2>1 DEF HeapOver
(* The places the elements of r had in q.                                   *)
<1>. DEFINE was(j) == IF j <= a THEN j ELSE j + 1
<1>11. \A j \in 1 .. a + b : was(j) \in 1 .. a + b + 1 /\ was(j) # a + 1 /\ r[j] = q[was(j)]
  <2>1. ASSUME NEW j \in 1 .. a + b, j <= a
        PROVE  j \in 1 .. a + b + 1 /\ j # a + 1 /\ r[j] = q[j]
    BY <1>1, <1>2, <1>3, <2>1
  <2>2. ASSUME NEW j \in 1 .. a + b, ~ (j <= a)
        PROVE  j + 1 \in 1 .. a + b + 1 /\ j + 1 # a + 1 /\ r[j] = q[j + 1]
    <3>1. /\ j + 1 \in 1 .. a + b + 1 /\ ~ (j + 1 <= a) /\ j + 1 # a + 1
          /\ (j + 1) - a - 1 = j - a
      BY <1>1, <2>2
    <3>2. r[j] = t[j - a]
      BY <1>2, <2>2
    <3>3. q[j + 1] = t[(j + 1) - a - 1]
      BY <1>3, <3>1
    <3>. QED
      BY <3>1, <3>2, <3>3
  <2>. QED
    BY <2>1, <2>2
<1>12. \A i, j \in 1 .. a + b : was(i) = was(j) => i = j
  BY <1>1
<1>13. \A i \in 1 .. a + b : turn(r, i) \in 1 .. a + b /\ a \in 1 .. a + b
  BY <1>1, <1>2 DEF turn
<1>14. was(a) = a /\ was(turn(r, a)) = turn(q, a + 1)
  <2>. HIDE DEF a, b
  <2>. QED
    BY <1>1, <1>2, <1>3 DEF turn
<1>15. \A i \in 1 .. a + b : i # a => was(turn(r, i)) = turn(q, was(i))
  <2>. HIDE DEF a, b
  <2>. QED
    BY <1>1, <1>2, <1>3 DEF turn
<1>16. \A i \in 1 .. a + b : i # a => turn(r, i) # turn(r, a)
  <2>. HIDE DEF a, b
  <2>. QED
    BY <1>1, <1>2 DEF turn
<1>. HIDE DEF was
<1>17. \A i, j \in 1 .. a + b : r[i] = r[j] => i = j
  BY <1>5, <1>11, <1>12
<1>18. r[a] = before /\ r[turn(r, a)] = behind /\ a \in 1 .. a + b
  <2>1. a \in 1 .. a + b
    BY <1>1
  <2>. QED
    BY <1>7, <1>11, <1>13, <1>14, <2>1
<1>19. ASSUME NEW i \in 1 .. a + b
       PROVE  g.next[r[i]] = r[turn(r, i)] /\ g.prev[r[turn(r, i)]] = r[i]
  <2>1. CASE i = a
    BY <1>9, <1>18, <2>1
  <2>2. CASE i # a
    <3>1. r[i] = q[was(i)] /\ r[turn(r, i)] = q[turn(q, was(i))] /\ r[i] \in N /\ r[turn(r, i)] \in N
      BY <1>5, <1>11, <1>13, <1>15, <2>2
    <3>2. r[i] # before /\ r[turn(r, i)] # behind
      BY <1>13, <1>16, <1>17, <1>18, <2>2
    <3>3. was(i) \in 1 .. a + b + 1
      BY <1>11
    <3>4. h.next[r[i]] = r[turn(r, i)] /\ h.prev[r[turn(r, i)]] = r[i]
      BY <1>5, <3>1, <3>3
    <3>5. g.next[r[i]] = h.next[r[i]] /\ g.prev[r[turn(r, i)]] = h.prev[r[turn(r, i)]]
      BY <1>9, <3>1, <3>2
    <3>. QED
      BY <3>4, <3>5
  <2>. QED
    BY <2>1, <2>2
<1>20. Ring(g, r)
  BY <1>2, <1>17, <1>19 DEF Ring
<1>21. ASSUME NEW u \in Seq(N), Ring(h, u), \A n : ~ (On(u, n) /\ On(q, n))
       PROVE  Ring(g, u)
  <2>1. On(q, before) /\ On(q, behind)
    BY <1>3, <1>6, <1>7 DEF On
  <2>2. \A i \in 1 .. Len(u) : u[i] \in N /\ turn(u, i) \in 1 .. Len(u)
    BY <1>21 DEF turn
  <2>3. \A i \in 1 .. Len(u) : u[i] # before /\ u[i] # behind
    BY <1>21, <2>1 DEF On
  <2>. QED
    BY <1>9, <1>21, <2>2, <2>3 DEF Ring
<1>22. g.next[entry] = h.next[entry] /\ g.prev[entry] = h.prev[entry]
  BY <1>8, <1>9
<1>. QED
  BY <1>10, <1>20, <1>21, <1>22 DEF g, r, q, Spares

(* Nothing put behind a sequence leaves it alone.                           *)
LEMMA ConcatNone ==
  ASSUME NEW N, NEW s \in Seq(N)
  PROVE  s \o <<>> = s
  OBVIOUS
------------------------------------------------------------------------------
(* INIT_LIST_HEAD makes an empty list of any node, whatever its fields held.*)
THEOREM NewList ==
  ASSUME NEW N, NEW P, N \subseteq P, NEW h \in HeapOver(N, P), NEW list \in N
  PROVE  LET g == INIT_LIST_HEAD(h, list)
         IN  g \in HeapOver(N, P) /\ Ring(g, <<list>>) /\ Spares(N, h, g, <<list>>)
<1>. DEFINE g == INIT_LIST_HEAD(h, list)
<1>1. /\ h.next \in [N -> P] /\ h.prev \in [N -> P]
      /\ g = [next |-> g.next, prev |-> g.prev]
      /\ g.next = [h.next EXCEPT ![list] = list] /\ g.prev = [h.prev EXCEPT ![list] = list]
  BY DEF HeapOver, INIT_LIST_HEAD
<1>. HIDE DEF g
<1>2. g.next \in [N -> P] /\ g.prev \in [N -> P]
  BY <1>1
<1>3. g \in HeapOver(N, P)
  BY <1>1, <1>2 DEF HeapOver
<1>4. Ring(g, <<list>>)
  BY <1>1 DEF Ring, turn
<1>5. ASSUME NEW u \in Seq(N), Ring(h, u), \A n : ~ (On(u, n) /\ On(<<list>>, n))
      PROVE  Ring(g, u)
  <2>1. On(<<list>>, list)
    BY DEF On
  <2>2. \A i \in 1 .. Len(u) : u[i] \in N /\ turn(u, i) \in 1 .. Len(u)
    BY <1>5 DEF turn
  <2>3. \A i \in 1 .. Len(u) : u[i] # list
    BY <1>5, <2>1 DEF On
  <2>. QED
    BY <1>1, <1>5, <2>2, <2>3 DEF Ring
<1>. QED
  BY <1>3, <1>4, <1>5 DEF g, Spares

(* list_add puts an entry behind the node it is given, wherever on its list *)
(* that is (insertProcQ), and no other list is touched.                     *)
THEOREM AddBehind ==
  ASSUME NEW N, NEW P, N \subseteq P, NEW h \in HeapOver(N, P),
         NEW s \in Seq(N), NEW t \in Seq(N), NEW node \in N, Ring(h, s \o <<node>> \o t),
         NEW new \in N, ~ On(s \o <<node>> \o t, new)
  PROVE  LET g == list_add(h, new, node)
         IN  /\ g \in HeapOver(N, P)
             /\ Ring(g, s \o <<node>> \o <<new>> \o t)
             /\ Spares(N, h, g, s \o <<node>> \o <<new>> \o t)
<1>. DEFINE sn == s \o <<node>>
<1>1. /\ sn \in Seq(N) /\ Len(sn) = Len(s) + 1 /\ Len(s) \in Nat
      /\ sn[Len(s) + 1] = node
  BY <<node>> \in Seq(N), JoinElements
<1>2. sn # <<>> /\ sn[Len(sn)] = node
  BY <1>1
<1>3. Ring(h, sn \o t) /\ ~ On(sn \o t, new)
  OBVIOUS
<1>. HIDE DEF sn
<1>4. LET behind == IF t = <<>> THEN sn[1] ELSE t[1]
          g == list_add_between(h, new, sn[Len(sn)], behind)
      IN  /\ behind = h.next[sn[Len(sn)]] /\ sn[Len(sn)] = h.prev[behind]
          /\ g \in HeapOver(N, P)
          /\ Ring(g, sn \o <<new>> \o t)
          /\ Spares(N, h, g, sn \o <<new>> \o t)
  BY <1>1, <1>2, <1>3, BetweenRing
<1>5. LET g == list_add_between(h, new, node, h.next[node])
      IN  /\ g \in HeapOver(N, P)
          /\ Ring(g, sn \o <<new>> \o t)
          /\ Spares(N, h, g, sn \o <<new>> \o t)
  BY <1>2, <1>4
<1>. QED
  BY <1>5 DEF list_add, sn

(* list_add_tail puts an entry at the end of the list with the head it is   *)
(* given (the queues of semaphores), and no other list is touched.          *)
THEOREM AddAtTail ==
  ASSUME NEW N, NEW P, N \subseteq P, NEW h \in HeapOver(N, P),
         NEW t \in Seq(N), NEW head \in N, Ring(h, <<head>> \o t),
         NEW new \in N, ~ On(<<head>> \o t, new)
  PROVE  LET g == list_add_tail(h, new, head)
         IN  /\ g \in HeapOver(N, P)
             /\ Ring(g, <<head>> \o t \o <<new>>)
             /\ Spares(N, h, g, <<head>> \o t \o <<new>>)
<1>. DEFINE s == <<head>> \o t
<1>1. /\ s \in Seq(N) /\ Len(s) = 1 + Len(t) /\ Len(t) \in Nat /\ s[1] = head
  BY <<head>> \in Seq(N), JoinElements
<1>2. s # <<>> /\ <<>> \in Seq(N) /\ s \o <<>> = s /\ s \o <<new>> \in Seq(N)
  BY <1>1, ConcatNone
<1>3. s \o <<new>> \o <<>> = s \o <<new>>
  BY <1>2, ConcatNone
<1>4. Ring(h, s \o <<>>) /\ ~ On(s \o <<>>, new)
  BY <1>2
<1>. HIDE DEF s
<1>. DEFINE none == <<>>
<1>5. none \in Seq(N) /\ Ring(h, s \o none) /\ ~ On(s \o none, new)
  BY <1>2, <1>4
<1>6. (IF none = <<>> THEN s[1] ELSE none[1]) = head
  BY <1>1
<1>. HIDE DEF none
<1>7. LET behind == IF none = <<>> THEN s[1] ELSE none[1]
          g == list_add_between(h, new, s[Len(s)], behind)
      IN  /\ behind = h.next[s[Len(s)]] /\ s[Len(s)] = h.prev[behind]
          /\ g \in HeapOver(N, P)
          /\ Ring(g, s \o <<new>> \o none)
          /\ Spares(N, h, g, s \o <<new>> \o none)
  BY <1>1, <1>2, <1>5, BetweenRing
<1>8. LET g == list_add_between(h, new, h.prev[head], head)
      IN  /\ g \in HeapOver(N, P)
          /\ Ring(g, s \o <<new>> \o none)
          /\ Spares(N, h, g, s \o <<new>> \o none)
  BY <1>6, <1>7
<1>9. s \o <<new>> \o none = <<head>> \o t \o <<new>>
  BY <1>3 DEF none, s
<1>. QED
  BY <1>8, <1>9 DEF list_add_tail

(* list_del takes an entry off the list it is on, whichever that is, and no *)
(* other list is touched.  The fields of the entry still lead into the      *)
(* list, which the loop of outProcQ relies on.                              *)
THEOREM DeleteEntry ==
  ASSUME NEW N, NEW P, N \subseteq P, NEW h \in HeapOver(N, P),
         NEW s \in Seq(N), NEW t \in Seq(N), s # <<>>, NEW entry \in N,
         Ring(h, s \o <<entry>> \o t)
  PROVE  LET g == list_del(h, entry)
         IN  /\ g \in HeapOver(N, P)
             /\ Ring(g, s \o t) /\ On(s \o t, g.next[entry])
             /\ Spares(N, h, g, s \o <<entry>> \o t)
<1>. DEFINE r == s \o t
            q == s \o <<entry>> \o t
<1>1. /\ Len(s) \in Nat /\ Len(t) \in Nat /\ Len(s) > 0
      /\ Len(r) = Len(s) + Len(t) /\ Len(q) = Len(s) + Len(t) + 1
      /\ \A j \in 1 .. Len(s) + Len(t) : r[j] = IF j <= Len(s) THEN s[j] ELSE t[j - Len(s)]
      /\ \A j \in 1 .. Len(s) + Len(t) + 1 :
           q[j] = IF j <= Len(s) THEN s[j] ELSE IF j = Len(s) + 1 THEN entry ELSE t[j - Len(s) - 1]
  BY JoinElements, SpliceElements
<1>2. Ring(h, q)
  OBVIOUS
<1>6. LET g == list_del(h, entry)
      IN  /\ g \in HeapOver(N, P) /\ Ring(g, r)
          /\ g.next[entry] = h.next[entry] /\ Spares(N, h, g, q)
  BY RemovedRing
<1>. HIDE DEF r, q
<1>3. Len(s) + 1 \in 1 .. Len(q) /\ q[Len(s) + 1] = entry
  BY <1>1
<1>4. h.next[entry] = q[turn(q, Len(s) + 1)]
  BY <1>2, <1>3 DEF Ring
<1>5. On(r, q[turn(q, Len(s) + 1)])
  <2>1. CASE Len(t) = 0
    BY <1>1, <2>1 DEF turn, On
  <2>2. CASE Len(t) > 0
    <3>1. turn(q, Len(s) + 1) = Len(s) + 2
      BY <1>1, <2>2 DEF turn
    <3>2. q[Len(s) + 2] = t[1]
      BY <1>1, <2>2
    <3>3. Len(s) + 1 \in 1 .. Len(r) /\ r[Len(s) + 1] = t[1]
      BY <1>1, <2>2
    <3>. QED
      BY <3>1, <3>2, <3>3 DEF On
  <2>. QED
    BY <1>1, <2>1, <2>2
<1>. QED
  BY <1>4, <1>5, <1>6 DEF r, q

(* list_empty is true of the head of an empty list only, and list_is_last   *)
(* of the last node.                                                        *)
THEOREM EmptyAndLast ==
  ASSUME NEW N, NEW h, NEW t \in Seq(N), NEW head \in N, Ring(h, <<head>> \o t)
  PROVE  /\ list_empty(h, head) <=> t = <<>>
         /\ \A i \in 1 .. Len(t) : list_is_last(h, t[i], head) <=> i = Len(t)
<1>. DEFINE s == <<head>> \o t
<1>1. /\ s \in Seq(N) /\ Len(s) = 1 + Len(t) /\ Len(t) \in Nat /\ s[1] = head
      /\ \A i \in 1 .. Len(t) : s[i + 1] = t[i]
  <2>1. \A j \in 1 .. 1 + Len(t) : s[j] = IF j <= 1 THEN head ELSE t[j - 1]
    BY <<head>> \in Seq(N), JoinElements
  <2>2. ASSUME NEW i \in 1 .. Len(t) PROVE s[i + 1] = t[i]
    BY <2>1
  <2>. QED
    BY <2>1, <2>2, <<head>> \in Seq(N), JoinElements
<1>2. Ring(h, s)
  OBVIOUS
<1>. HIDE DEF s
<1>3. \A i \in 1 .. 1 + Len(t) : h.next[s[i]] = head <=> i = 1 + Len(t)
  <2>1. ASSUME NEW i \in 1 .. 1 + Len(t)
        PROVE  h.next[s[i]] = s[1] <=> turn(s, i) = 1
    <3>1. turn(s, i) \in 1 .. Len(s) /\ 1 \in 1 .. Len(s)
      BY <1>1 DEF turn
    <3>. QED
      BY <1>1, <1>2, <3>1 DEF Ring
  <2>2. \A i \in 1 .. 1 + Len(t) : turn(s, i) = 1 <=> i = 1 + Len(t)
    BY <1>1 DEF turn
  <2>. QED
    BY <1>1, <2>1, <2>2
<1>4. t = <<>> <=> 1 = 1 + Len(t)
  OBVIOUS
<1>5. list_empty(h, head) <=> t = <<>>
  BY <1>1, <1>3, <1>4 DEF list_empty
<1>6. ASSUME NEW i \in 1 .. Len(t)
      PROVE  list_is_last(h, t[i], head) <=> i = Len(t)
  <2>1. i + 1 \in 1 .. 1 + Len(t) /\ (i + 1 = 1 + Len(t) <=> i = Len(t)) /\ t[i] = s[i + 1]
    BY <1>1
  <2>. QED
    BY <1>3, <2>1 DEF list_is_last
<1>. QED
  BY <1>5, <1>6

------------------------------------------------------------------------------
(* What list_for_each computes.                                             *)

(* Induction over the members of a set of naturals.                         *)
LEMMA FromZero ==
  ASSUME NEW S, S \subseteq Nat, 0 \in S, \A n \in S : n + 1 \in S
  PROVE  S = Nat
<1>. DEFINE I == Nat \ S
            LT == {ss \in Nat \X Nat : ss[1] < ss[2]}
<1>1. IsWellFoundedOn(LT, Nat)
  BY NatLessThanWellFounded DEF OpToRel
<1>2. CASE I # {}
  <2>1. PICK x \in I : \A y \in I : ~ (<<y, x>> \in LT)
    <3>1. I \subseteq Nat
      OBVIOUS
    <3>. HIDE DEF LT, I
    <3>. QED
      BY <1>1, <1>2, <3>1, WFMin
  <2>2. \A m, n \in Nat : m < n => <<m, n>> \in LT
    OBVIOUS
  <2>. HIDE DEF LT
  <2>3. x \in Nat /\ x # 0 /\ x - 1 \in Nat /\ x - 1 < x
    BY <2>1
  <2>4. x - 1 \in S
    BY <2>1, <2>2, <2>3
  <2>5. (x - 1) + 1 = x
    BY <2>3
  <2>. QED
    BY <2>1, <2>4, <2>5
<1>. QED
  BY <1>2

(* One call of list_for_each's recursion from each node.                    *)
Walks(h, head, before) ==
  [n \in DOMAIN h.next |-> IF n = head THEN <<>> ELSE <<n>> \o before[h.next[n]]]

(* f is the recursion of list_for_each.                                     *)
Unfolds(f, h, head) ==
  f = [turns \in Nat |-> [n \in DOMAIN h.next |->
        IF n = head \/ turns = 0 THEN <<>> ELSE <<n>> \o f[turns - 1][h.next[n]]]]

(* The recursion is defined however often it is unfolded.                   *)
LEMMA WalksDefined ==
  ASSUME NEW h, NEW head
  PROVE  \E f : Unfolds(f, h, head)
<1>. DEFINE none == [n \in DOMAIN h.next |-> <<>>]
            Upto(k, g) == g[0] = none /\ \A i \in 1 .. k : g[i] = Walks(h, head, g[i - 1])
<1>1. \A k \in Nat : \E g : Upto(k, g)
  <2>. DEFINE S == {k \in Nat : \E g : Upto(k, g)}
  <2>1. 0 \in S
    <3>1. Upto(0, [i \in {0} |-> none])
      OBVIOUS
    <3>. QED
      BY <3>1
  <2>2. ASSUME NEW k \in S PROVE k + 1 \in S
    <3>1. PICK g : Upto(k, g)
      OBVIOUS
    <3>2. k \in Nat
      OBVIOUS
    <3>. DEFINE g1 == [i \in 0 .. k + 1 |-> IF i = k + 1 THEN Walks(h, head, g[k]) ELSE g[i]]
    <3>3. g1[0] = none
      BY <3>1, <3>2
    <3>4. ASSUME NEW i \in 1 .. k + 1 PROVE g1[i] = Walks(h, head, g1[i - 1])
      <4>1. CASE i = k + 1
        BY <3>2, <4>1
      <4>2. CASE i # k + 1
        <5>1. i \in 1 .. k
          BY <3>2, <4>2
        <5>2. g1[i] = g[i] /\ g1[i - 1] = g[i - 1]
          BY <3>2, <5>1
        <5>. QED
          BY <3>1, <5>1, <5>2
      <4>. QED
        BY <4>1, <4>2
    <3>5. Upto(k + 1, g1)
      BY <3>3, <3>4
    <3>. HIDE DEF Upto, g1
    <3>. QED
      BY <3>2, <3>5
  <2>. HIDE DEF Upto
  <2>3. S = Nat
    <3>1. S \subseteq Nat
      OBVIOUS
    <3>. HIDE DEF S
    <3>. QED
      BY <2>1, <2>2, <3>1, FromZero
  <2>. QED
    BY <2>3
<1>2. ASSUME NEW k \in Nat, NEW m \in Nat, NEW g, NEW g1, Upto(k, g), Upto(m, g1)
      PROVE  \A i \in Nat : i <= k /\ i <= m => g[i] = g1[i]
  <2>. DEFINE S == {i \in Nat : i <= k /\ i <= m => g[i] = g1[i]}
  <2>1. 0 \in S
    BY <1>2
  <2>2. ASSUME NEW i \in S PROVE i + 1 \in S
    <3>1. i \in Nat
      OBVIOUS
    <3>2. CASE i + 1 <= k /\ i + 1 <= m
      <4>1. /\ g[i] = g1[i] /\ i + 1 \in 1 .. k /\ i + 1 \in 1 .. m /\ (i + 1) - 1 = i
        BY <3>1, <3>2
      <4>2. /\ g[i + 1] = Walks(h, head, g[(i + 1) - 1])
            /\ g1[i + 1] = Walks(h, head, g1[(i + 1) - 1])
        BY <1>2, <4>1
      <4>3. g[i + 1] = g1[i + 1]
        BY <4>1, <4>2
      <4>. QED
        BY <3>1, <4>3
    <3>. QED
      BY <3>1, <3>2
  <2>3. S = Nat
    <3>1. S \subseteq Nat
      OBVIOUS
    <3>. HIDE DEF S
    <3>. QED
      BY <2>1, <2>2, <3>1, FromZero
  <2>. QED
    BY <2>3
<1>. DEFINE at(k) == CHOOSE g : Upto(k, g)
            f == [k \in Nat |-> at(k)[k]]
<1>3. \A k \in Nat : Upto(k, at(k))
  <2>. HIDE DEF Upto
  <2>. QED
    BY <1>1
<1>. HIDE DEF at
<1>4. f[0] = none
  BY <1>3
<1>5. ASSUME NEW k \in Nat, k # 0 PROVE f[k] = Walks(h, head, f[k - 1])
  <2>1. k - 1 \in Nat /\ k \in 1 .. k
    BY <1>5
  <2>2. at(k)[k] = Walks(h, head, at(k)[k - 1])
    BY <1>3, <2>1
  <2>3. at(k)[k - 1] = at(k - 1)[k - 1]
    <3>. HIDE DEF Upto
    <3>. QED
      BY <1>2, <1>3, <2>1
  <2>. QED
    BY <2>1, <2>2, <2>3
<1>6. f = [turns \in Nat |-> IF turns = 0 THEN none ELSE Walks(h, head, f[turns - 1])]
  <2>. DEFINE r == [turns \in Nat |-> IF turns = 0 THEN none ELSE Walks(h, head, f[turns - 1])]
  <2>1. \A k \in Nat : f[k] = r[k]
    <3>. HIDE DEF f
    <3>. QED
      BY <1>4, <1>5
  <2>2. f = [k \in Nat |-> f[k]]
    OBVIOUS
  <2>. HIDE DEF f
  <2>. QED
    BY <2>1, <2>2
<1>. HIDE DEF f
<1>7. \A turns \in Nat :
        (IF turns = 0 THEN none ELSE Walks(h, head, f[turns - 1]))
          = [n \in DOMAIN h.next |->
               IF n = head \/ turns = 0 THEN <<>> ELSE <<n>> \o f[turns - 1][h.next[n]]]
  <2>1. ASSUME NEW turns \in Nat, turns = 0
        PROVE  none = [n \in DOMAIN h.next |->
                 IF n = head \/ turns = 0 THEN <<>> ELSE <<n>> \o f[turns - 1][h.next[n]]]
    BY <2>1
  <2>2. ASSUME NEW turns \in Nat, turns # 0
        PROVE  Walks(h, head, f[turns - 1]) = [n \in DOMAIN h.next |->
                 IF n = head \/ turns = 0 THEN <<>> ELSE <<n>> \o f[turns - 1][h.next[n]]]
    BY <2>2 DEF Walks
  <2>. HIDE DEF none
  <2>. QED
    BY <2>1, <2>2
<1>8. Unfolds(f, h, head)
  BY <1>6, <1>7 DEF Unfolds
<1>. QED
  BY <1>8

(* list_for_each visits the nodes of the circular list of its head, in      *)
(* order and all of them: the bound on its turns never cuts it off.         *)
THEOREM ListForEach ==
  ASSUME NEW N, NEW P, IsFiniteSet(N), N \subseteq P, NEW h \in HeapOver(N, P),
         NEW t \in Seq(N), NEW head \in N, Ring(h, <<head>> \o t)
  PROVE  list_for_each(h, head) = t
<1>. DEFINE s == <<head>> \o t
            m == Len(t)
            from == CHOOSE f : Unfolds(f, h, head)
<1>1. DOMAIN h.next = N
  BY DEF HeapOver
<1>2. Unfolds(from, h, head)
  BY WalksDefined
<1>3. list_for_each(h, head) = from[Cardinality(N)][h.next[head]]
  BY <1>1 DEF list_for_each, Unfolds
<1>. HIDE DEF from
<1>4. ASSUME NEW k \in Nat, NEW n \in N
      PROVE  from[k][n] = IF n = head \/ k = 0 THEN <<>> ELSE <<n>> \o from[k - 1][h.next[n]]
  <2>1. from[k] = [j \in N |->
                     IF j = head \/ k = 0 THEN <<>> ELSE <<j>> \o from[k - 1][h.next[j]]]
    BY <1>1, <1>2 DEF Unfolds
  <2>. QED
    BY <2>1
<1>5. /\ m \in Nat /\ Len(s) = m + 1 /\ s \in Seq(N) /\ s[1] = head
      /\ \A j \in 1 .. m : s[j + 1] = t[j] /\ t[j] \in N
  <2>1. \A j \in 1 .. 1 + m : s[j] = IF j <= 1 THEN head ELSE t[j - 1]
    BY <<head>> \in Seq(N), JoinElements
  <2>2. ASSUME NEW j \in 1 .. m PROVE s[j + 1] = t[j]
    BY <2>1
  <2>. QED
    BY <2>1, <2>2, <<head>> \in Seq(N), JoinElements
<1>6. Ring(h, s)
  OBVIOUS
<1>. HIDE DEF s, m
<1>7. /\ \A i, j \in 1 .. m + 1 : s[i] = s[j] => i = j
      /\ \A i \in 1 .. m : h.next[s[i]] = s[i + 1]
      /\ h.next[s[m + 1]] = head
  <2>1. /\ turn(s, m + 1) = 1
        /\ \A i \in 1 .. m : turn(s, i) = i + 1 /\ i \in 1 .. m + 1
        /\ m + 1 \in 1 .. m + 1
    BY <1>5 DEF turn
  <2>2. /\ \A i, j \in 1 .. m + 1 : s[i] = s[j] => i = j
        /\ \A i \in 1 .. m + 1 : h.next[s[i]] = s[turn(s, i)]
    BY <1>5, <1>6 DEF Ring
  <2>. QED
    BY <1>5, <2>1, <2>2
(* From the node j places before the end on.                                *)
<1>. DEFINE at(j) == IF j = 0 THEN head ELSE t[m - j + 1]
            S == {j \in Nat : j <= m => \A k \in Nat : k >= j => from[k][at(j)] = SubSeq(t, m - j + 1, m)}
<1>8. S = Nat
  <2>1. 0 \in S
    <3>1. SubSeq(t, m - 0 + 1, m) = <<>>
      BY <1>5, SubSeqEmpty
    <3>. QED
      BY <1>4, <3>1
  <2>2. ASSUME NEW j \in S PROVE j + 1 \in S
    <3>1. j \in Nat
      OBVIOUS
    <3>2. ASSUME j + 1 <= m, NEW k \in Nat, k >= j + 1
          PROVE  from[k][at(j + 1)] = SubSeq(t, m - (j + 1) + 1, m)
      <4>1. m - j \in 1 .. m /\ k - 1 \in Nat /\ k - 1 >= j /\ k # 0
        BY <1>5, <3>1, <3>2
      <4>2. at(j + 1) = t[m - j]
        <5>1. j + 1 # 0 /\ m - (j + 1) + 1 = m - j
          BY <1>5, <3>1
        <5>. QED
          BY <5>1
      <4>3. t[m - j] = s[m - j + 1] /\ t[m - j] \in N
        BY <1>5, <4>1
      <4>4. t[m - j] # head
        <5>1. m - j + 1 \in 1 .. m + 1 /\ 1 \in 1 .. m + 1 /\ m - j + 1 # 1
          BY <1>5, <4>1
        <5>. QED
          BY <1>5, <1>7, <4>3, <5>1
      <4>5. h.next[t[m - j]] = at(j)
        <5>1. CASE j = 0
          BY <1>5, <1>7, <4>3, <5>1
        <5>2. CASE j # 0
          <6>1. m - j + 1 \in 1 .. m
            BY <1>5, <3>1, <4>1, <5>2
          <6>2. h.next[s[m - j + 1]] = s[(m - j + 1) + 1] /\ s[(m - j + 1) + 1] = t[m - j + 1]
            BY <1>5, <1>7, <6>1
          <6>. QED
            BY <4>3, <5>2, <6>2
        <5>. QED
          BY <5>1, <5>2
      <4>6. from[k - 1][at(j)] = SubSeq(t, m - j + 1, m)
        <5>1. j <= m
          BY <1>5, <3>1, <3>2
        <5>. QED
          BY <4>1, <5>1
      <4>7. from[k][t[m - j]] = <<t[m - j]>> \o SubSeq(t, m - j + 1, m)
        <5>1. k \in Nat /\ t[m - j] \in N /\ ~ (t[m - j] = head \/ k = 0)
          BY <4>1, <4>3, <4>4
        <5>2. from[k][t[m - j]] = <<t[m - j]>> \o from[k - 1][h.next[t[m - j]]]
          BY <1>4, <5>1
        <5>. HIDE DEF at, S
        <5>. QED
          BY <4>5, <4>6, <5>2
      <4>8. SubSeq(t, m - j, m) = <<t[m - j]>> \o SubSeq(t, m - j + 1, m)
        <5>1. m - j \in 1 .. Len(t) /\ m \in (m - j) .. Len(t)
          BY <1>5, <3>1, <4>1 DEF m
        <5>. QED
          BY <5>1, SubSeqRecursiveFirst
      <4>9. m - (j + 1) + 1 = m - j
        BY <1>5, <3>1
      <4>. QED
        BY <4>2, <4>7, <4>8, <4>9
    <3>. QED
      BY <3>1, <3>2
  <2>3. S \subseteq Nat
    OBVIOUS
  <2>. HIDE DEF S
  <2>. QED
    BY <2>1, <2>2, <2>3, FromZero
<1>9. m <= Cardinality(N) /\ Cardinality(N) \in Nat
  <2>1. t \in [1 .. m -> N]
    BY <1>5, LenProperties DEF m
  <2>2. \A i, j \in 1 .. m : t[i] = t[j] => i = j
    <3>1. ASSUME NEW i \in 1 .. m, NEW j \in 1 .. m, t[i] = t[j] PROVE i = j
      <4>1. s[i + 1] = s[j + 1] /\ i + 1 \in 1 .. m + 1 /\ j + 1 \in 1 .. m + 1
        BY <1>5, <3>1
      <4>2. i + 1 = j + 1
        BY <1>7, <4>1
      <4>. QED
        BY <1>5, <4>2
    <3>. QED
      BY <3>1
  <2>3. t \in Injection(1 .. m, N)
    BY <2>1, <2>2 DEF Injection, IsInjective
  <2>4. Cardinality(1 .. m) <= Cardinality(N)
    BY <2>3, FS_Injection
  <2>5. Cardinality(1 .. m) = m
    BY <1>5, FS_Interval
  <2>. QED
    BY <2>4, <2>5, FS_CardinalityType
<1>10. h.next[head] = at(m)
  <2>1. CASE m = 0
    BY <1>5, <1>7, <2>1
  <2>2. CASE m # 0
    <3>1. 1 \in 1 .. m /\ m - m + 1 = 1 /\ s[2] = t[1]
      BY <1>5, <2>2
    <3>2. h.next[s[1]] = s[1 + 1]
      BY <1>7, <3>1
    <3>. QED
      BY <1>5, <2>2, <3>1, <3>2
  <2>. QED
    BY <2>1, <2>2
<1>11. from[Cardinality(N)][at(m)] = SubSeq(t, m - m + 1, m)
  <2>1. m \in S /\ m <= m
    <3>. HIDE DEF S
    <3>. QED
      BY <1>5, <1>8
  <2>. HIDE DEF at
  <2>. QED
    BY <1>9, <2>1
<1>12. SubSeq(t, m - m + 1, m) = t
  <2>1. m - m + 1 = 1
    BY <1>5
  <2>. QED
    BY <2>1, SubSeqFull DEF m
<1>. HIDE DEF at
<1>. QED
  BY <1>3, <1>10, <1>11, <1>12

------------------------------------------------------------------------------
(* Lists with their heads, several in one heap.                             *)

(* A list with its head, and other ways to compose sequences: named, so that*)
(* the provers need not look inside.                                        *)
WithHead(a, t) == <<a>> \o t
Splice(s, n, u) == s \o <<n>> \o u
Splice2(s, n, m, u) == s \o <<n>> \o <<m>> \o u
IsTail(t, s) == \A j \in 1 .. Len(t) : s[j + 1] = t[j]
UpTo(r, i) == SubSeq(r, 1, i)
After(r, i) == SubSeq(r, i + 1, Len(r))

(* ListForEach with the head named apart.                                   *)
LEMMA ForEach ==
  ASSUME NEW N, NEW P, IsFiniteSet(N), N \subseteq P, NEW h \in HeapOver(N, P),
         NEW t \in Seq(N), NEW head \in N, Ring(h, WithHead(head, t))
  PROVE  list_for_each(h, head) = t
  BY ListForEach DEF WithHead

(* The elements of a list behind its head.                                  *)
LEMMA WithHeadElements ==
  ASSUME NEW N, NEW a \in N, NEW t \in Seq(N)
  PROVE  /\ WithHead(a, t) \in Seq(N) /\ Len(WithHead(a, t)) = Len(t) + 1 /\ Len(t) \in Nat
         /\ WithHead(a, t)[1] = a
         /\ \A j \in 1 .. Len(t) : WithHead(a, t)[j + 1] = t[j] /\ t[j] \in N
         /\ \A n : On(WithHead(a, t), n) <=> n = a \/ On(t, n)
<1>. DEFINE s == <<a>> \o t
<1>1. /\ s \in Seq(N) /\ Len(s) = Len(t) + 1 /\ Len(t) \in Nat
      /\ \A j \in 1 .. 1 + Len(t) : s[j] = IF j <= 1 THEN a ELSE t[j - 1]
  BY <<a>> \in Seq(N), JoinElements
<1>2. s[1] = a /\ \A j \in 1 .. Len(t) : s[j + 1] = t[j] /\ t[j] \in N
  <2>1. ASSUME NEW j \in 1 .. Len(t) PROVE s[j + 1] = t[j]
    BY <1>1
  <2>. QED
    BY <1>1, <2>1
<1>. HIDE DEF s
<1>3. ASSUME NEW n PROVE On(s, n) <=> n = a \/ On(t, n)
  <2>1. ASSUME NEW j \in 1 .. Len(s) PROVE s[j] = a \/ On(t, s[j])
    <3>1. CASE j = 1
      BY <1>2, <3>1
    <3>2. CASE j # 1
      <4>1. j - 1 \in 1 .. Len(t) /\ (j - 1) + 1 = j
        BY <1>1, <3>2
      <4>. QED
        BY <1>2, <4>1 DEF On
    <3>. QED
      BY <3>1, <3>2
  <2>2. On(s, a) /\ \A j \in 1 .. Len(t) : On(s, t[j])
    <3>1. 1 \in 1 .. Len(s) /\ \A j \in 1 .. Len(t) : j + 1 \in 1 .. Len(s)
      BY <1>1
    <3>. QED
      BY <1>2, <3>1 DEF On
  <2>. QED
    BY <2>1, <2>2 DEF On
<1>. QED
  BY <1>1, <1>2, <1>3 DEF s, WithHead

(* WithHead makes a sequence, one longer.                                   *)
LEMMA WithHeadType ==
  ASSUME NEW N, NEW a, NEW t, a \in N, t \in Seq(N)
  PROVE  /\ WithHead(a, t) \in Seq(N) /\ Len(WithHead(a, t)) = Len(t) + 1 /\ Len(t) \in Nat
         /\ WithHead(a, t)[1] = a
  BY WithHeadElements

(* The elements keep their order behind the head.                           *)
LEMMA WithHeadEach ==
  ASSUME NEW N, NEW a, NEW t, a \in N, t \in Seq(N)
  PROVE  IsTail(t, WithHead(a, t))
  BY WithHeadElements DEF IsTail

(* What is on a list with its head.                                         *)
LEMMA OnWithHead ==
  ASSUME NEW N, NEW a, NEW t, NEW n, a \in N, t \in Seq(N)
  PROVE  On(WithHead(a, t), n) <=> n = a \/ On(t, n)
  BY WithHeadElements

(* The nodes A of h are the heads of disjoint circular lists.               *)
WellLinked(N, P, h, A) ==
  /\ IsFiniteSet(N) /\ N \subseteq P /\ h \in HeapOver(N, P) /\ A \subseteq N
  /\ \A a \in A : list_for_each(h, a) \in Seq(N) /\ Ring(h, WithHead(a, list_for_each(h, a)))
  /\ \A a, b \in A : a # b =>
       \A n : ~ (On(WithHead(a, list_for_each(h, a)), n) /\ On(WithHead(b, list_for_each(h, b)), n))

(* n is neither the head nor a node of the list with head b.                *)
Off(h, b, n) == n # b /\ ~ On(list_for_each(h, b), n)

(* The lists with heads in B are in g what they are in h.                   *)
SameLists(h, g, B) == \A b \in B : list_for_each(g, b) = list_for_each(h, b)

(* Off, in terms of the circular list.                                      *)
LEMMA OffRing ==
  ASSUME NEW N, NEW P, NEW h, NEW A, NEW b, NEW n, WellLinked(N, P, h, A), b \in A
  PROVE  On(WithHead(b, list_for_each(h, b)), n) <=> ~ Off(h, b, n)
  BY WithHeadElements DEF WellLinked, Off

(* Some of the lists are well linked if all are.                            *)
LEMMA FewerHeads ==
  ASSUME NEW N, NEW P, NEW h, NEW A, NEW B, WellLinked(N, P, h, A), B \subseteq A
  PROVE  WellLinked(N, P, h, B)
  BY DEF WellLinked

(* Of all lists only that of a has one of the nodes a, those of t and of q. *)
Apart(h, A, a, t, q) ==
  \A n : n = a \/ On(t, n) \/ On(q, n) => \A b \in A \ {a} : Off(h, b, n)

(* g is h with the list of a replaced by t, q the nodes written to.         *)
Rewrites(N, P, h, g, A, a, t, q) ==
  /\ g \in HeapOver(N, P) /\ q \in Seq(N) /\ Spares(N, h, g, q)
  /\ a \in N /\ t \in Seq(N) /\ Ring(g, WithHead(a, t))
  /\ Apart(h, A, a, t, q)

(* One list rewritten in a heap of many: the others stay, and all are       *)
(* disjoint still.                                                          *)
LEMMA Relinked ==
  ASSUME NEW N, NEW P, NEW h, NEW A, NEW g, NEW a, NEW t, NEW q,
         WellLinked(N, P, h, A), Rewrites(N, P, h, g, A, a, t, q)
  PROVE  /\ WellLinked(N, P, g, A \cup {a})
         /\ list_for_each(g, a) = t
         /\ SameLists(h, g, A \ {a})
<1>0. /\ IsFiniteSet(N) /\ N \subseteq P
      /\ g \in HeapOver(N, P) /\ q \in Seq(N) /\ Spares(N, h, g, q)
      /\ a \in N /\ t \in Seq(N) /\ Ring(g, WithHead(a, t))
      /\ Apart(h, A, a, t, q)
  BY DEF Rewrites, WellLinked
<1>1. list_for_each(g, a) = t
  BY <1>0, ForEach
<1>2. ASSUME NEW b \in A \ {a}
      PROVE  /\ Ring(g, WithHead(b, list_for_each(h, b)))
             /\ list_for_each(g, b) = list_for_each(h, b)
  <2>1. /\ b \in N /\ list_for_each(h, b) \in Seq(N)
        /\ Ring(h, WithHead(b, list_for_each(h, b)))
    BY DEF WellLinked
  <2>2. WithHead(b, list_for_each(h, b)) \in Seq(N)
    BY <2>1, WithHeadElements
  <2>3. \A n : ~ (On(WithHead(b, list_for_each(h, b)), n) /\ On(q, n))
    BY <1>0, OffRing DEF Apart
  <2>4. Ring(g, WithHead(b, list_for_each(h, b)))
    BY <1>0, <2>1, <2>2, <2>3 DEF Spares
  <2>. QED
    BY <1>0, <2>1, <2>4, ForEach
<1>3. \A n : On(WithHead(a, t), n) => n = a \/ On(t, n)
  BY <1>0, WithHeadElements
<1>4. \A b \in A \ {a} : \A n : ~ (On(WithHead(b, list_for_each(h, b)), n) /\ On(WithHead(a, t), n))
  BY <1>0, <1>3, OffRing DEF Apart
<1>5. \A b, c \in A : b # c =>
       \A n : ~ (On(WithHead(b, list_for_each(h, b)), n) /\ On(WithHead(c, list_for_each(h, c)), n))
  BY DEF WellLinked
<1>6. \A b \in A : b \in N /\ list_for_each(h, b) \in Seq(N)
  BY DEF WellLinked
<1>7. WellLinked(N, P, g, A \cup {a})
  <2>1. \A b \in A \cup {a} : /\ b \in N /\ list_for_each(g, b) \in Seq(N)
                              /\ Ring(g, WithHead(b, list_for_each(g, b)))
    BY <1>0, <1>1, <1>2, <1>6
  <2>2. ASSUME NEW b \in A \cup {a}, NEW c \in A \cup {a}, b # c, NEW n
        PROVE  ~ (On(WithHead(b, list_for_each(g, b)), n) /\ On(WithHead(c, list_for_each(g, c)), n))
    <3>1. CASE b = a
      BY <1>1, <1>2, <1>4, <2>2, <3>1
    <3>2. CASE c = a
      BY <1>1, <1>2, <1>4, <2>2, <3>2
    <3>3. CASE b # a /\ c # a
      BY <1>2, <1>5, <2>2, <3>3
    <3>. QED
      BY <3>1, <3>2, <3>3
  <2>. QED
    BY <1>0, <2>1, <2>2 DEF WellLinked
<1>. QED
  BY <1>1, <1>2, <1>7 DEF SameLists

(* INIT_LIST_HEAD of a node on no list: one more list, an empty one.        *)
THEOREM NewHead ==
  ASSUME NEW N, NEW P, NEW h, NEW A, NEW a,
         WellLinked(N, P, h, A), a \in N, \A b \in A : Off(h, b, a)
  PROVE  LET g == INIT_LIST_HEAD(h, a)
         IN  /\ WellLinked(N, P, g, A \cup {a})
             /\ list_for_each(g, a) = <<>>
             /\ SameLists(h, g, A)
<1>. DEFINE g == INIT_LIST_HEAD(h, a)
<1>1. N \subseteq P /\ h \in HeapOver(N, P)
  BY DEF WellLinked
<1>2. g \in HeapOver(N, P) /\ Ring(g, <<a>>) /\ Spares(N, h, g, <<a>>)
  BY <1>1, NewList
<1>3. a \notin A
  BY DEF Off
<1>4. <<a>> \in Seq(N) /\ <<>> \in Seq(N) /\ WithHead(a, <<>>) = <<a>>
  BY ConcatNone DEF WithHead
<1>5. \A n : On(<<a>>, n) <=> n = a
  BY DEF On
<1>6. \A n : ~ On(<<>>, n)
  BY DEF On
<1>. HIDE DEF g
<1>7. Apart(h, A, a, <<>>, <<a>>)
  BY <1>5, <1>6 DEF Apart
<1>8. /\ WellLinked(N, P, g, A \cup {a})
      /\ list_for_each(g, a) = <<>>
      /\ SameLists(h, g, A \ {a})
  <2>. DEFINE q == <<a>>
              t == <<>>
  <2>1. Rewrites(N, P, h, g, A, a, t, q)
    BY <1>2, <1>4, <1>7 DEF Rewrites
  <2>. HIDE DEF q, t
  <2>2. /\ WellLinked(N, P, g, A \cup {a})
        /\ list_for_each(g, a) = t
        /\ SameLists(h, g, A \ {a})
    BY <2>1, Relinked
  <2>. QED
    BY <2>2 DEF t
<1>. QED
  BY <1>3, <1>8 DEF g, SameLists

------------------------------------------------------------------------------
(* Sequences with an element put in or taken out.                           *)

(* The sequence t with n put behind its i-th element, and without it.       *)
Inserted(t, i, n) ==
  [j \in 1 .. Len(t) + 1 |-> IF j <= i THEN t[j] ELSE IF j = i + 1 THEN n ELSE t[j - 1]]
Without(t, i) == [j \in 1 .. Len(t) - 1 |-> IF j < i THEN t[j] ELSE t[j + 1]]

(* What Inserted makes of a sequence.                                       *)
LEMMA InsertedElements ==
  ASSUME NEW N, NEW t \in Seq(N), NEW i \in 0 .. Len(t), NEW n \in N
  PROVE  /\ Inserted(t, i, n) \in Seq(N) /\ Len(Inserted(t, i, n)) = Len(t) + 1
         /\ \A j \in 1 .. Len(t) + 1 : Inserted(t, i, n)[j] =
              IF j <= i THEN t[j] ELSE IF j = i + 1 THEN n ELSE t[j - 1]
         /\ \A m : On(Inserted(t, i, n), m) <=> m = n \/ On(t, m)
<1>. DEFINE u == Inserted(t, i, n)
<1>1. Len(t) \in Nat /\ \A j \in 1 .. Len(t) : t[j] \in N
  OBVIOUS
<1>2. \A j \in 1 .. Len(t) + 1 : u[j] =
        IF j <= i THEN t[j] ELSE IF j = i + 1 THEN n ELSE t[j - 1]
  BY DEF Inserted
<1>3. u \in [1 .. Len(t) + 1 -> N]
  <2>1. ASSUME NEW j \in 1 .. Len(t) + 1
        PROVE  (IF j <= i THEN t[j] ELSE IF j = i + 1 THEN n ELSE t[j - 1]) \in N
    <3>1. CASE j <= i
      BY <1>1, <3>1
    <3>2. CASE j > i + 1
      <4>1. j - 1 \in 1 .. Len(t)
        BY <1>1, <3>2
      <4>. QED
        BY <1>1, <3>2, <4>1
    <3>. QED
      BY <3>1, <3>2
  <2>. QED
    BY <2>1 DEF Inserted
<1>4. u \in Seq(N) /\ Len(u) = Len(t) + 1
  BY <1>1, <1>3
<1>. HIDE DEF u
<1>5. ASSUME NEW m, On(u, m) PROVE m = n \/ On(t, m)
  <2>1. PICK j \in 1 .. Len(t) + 1 : u[j] = m
    BY <1>4, <1>5 DEF On
  <2>2. CASE j <= i
    <3>1. j \in 1 .. Len(t) /\ t[j] = m
      BY <1>1, <1>2, <2>1, <2>2
    <3>. QED
      BY <3>1 DEF On
  <2>3. CASE j > i + 1
    <3>1. j - 1 \in 1 .. Len(t) /\ t[j - 1] = m
      BY <1>1, <1>2, <2>1, <2>3
    <3>. QED
      BY <3>1 DEF On
  <2>4. CASE j = i + 1
    BY <1>1, <1>2, <2>1, <2>4
  <2>. QED
    BY <2>2, <2>3, <2>4
<1>6. On(u, n)
  <2>1. i + 1 \in 1 .. Len(t) + 1 /\ ~ (i + 1 <= i)
    BY <1>1
  <2>. QED
    BY <1>2, <1>4, <2>1 DEF On
<1>7. ASSUME NEW m, On(t, m) PROVE On(u, m)
  <2>1. PICK j \in 1 .. Len(t) : t[j] = m
    BY <1>7 DEF On
  <2>2. CASE j <= i
    <3>1. j \in 1 .. Len(t) + 1 /\ u[j] = m
      BY <1>1, <1>2, <2>1, <2>2
    <3>. QED
      BY <1>4, <3>1 DEF On
  <2>3. CASE ~ (j <= i)
    <3>1. j + 1 \in 1 .. Len(t) + 1 /\ ~ (j + 1 <= i) /\ j + 1 # i + 1 /\ (j + 1) - 1 = j
      BY <1>1, <2>3
    <3>2. u[j + 1] = m
      BY <1>2, <2>1, <3>1
    <3>. QED
      BY <1>4, <3>1, <3>2 DEF On
  <2>. QED
    BY <2>2, <2>3
<1>. QED
  BY <1>2, <1>4, <1>5, <1>6, <1>7 DEF u

(* What Without makes of a sequence.                                        *)
LEMMA WithoutElements ==
  ASSUME NEW N, NEW t \in Seq(N), NEW i \in 1 .. Len(t)
  PROVE  /\ Without(t, i) \in Seq(N) /\ Len(Without(t, i)) = Len(t) - 1
         /\ \A j \in 1 .. Len(t) - 1 : Without(t, i)[j] = IF j < i THEN t[j] ELSE t[j + 1]
         /\ \A m : On(Without(t, i), m) => On(t, m)
         /\ \A m : On(t, m) /\ m # t[i] => On(Without(t, i), m)
         /\ IsInjective(t) => ~ On(Without(t, i), t[i]) /\ IsInjective(Without(t, i))
<1>. DEFINE u == Without(t, i)
<1>1. Len(t) \in Nat /\ DOMAIN t = 1 .. Len(t) /\ \A j \in 1 .. Len(t) : t[j] \in N
  OBVIOUS
<1>2. \A j \in 1 .. Len(t) - 1 : u[j] = IF j < i THEN t[j] ELSE t[j + 1]
  BY DEF Without
<1>3. u \in [1 .. Len(t) - 1 -> N]
  <2>1. ASSUME NEW j \in 1 .. Len(t) - 1
        PROVE  (IF j < i THEN t[j] ELSE t[j + 1]) \in N
    <3>1. j \in 1 .. Len(t) /\ j + 1 \in 1 .. Len(t)
      BY <1>1
    <3>. QED
      BY <1>1, <3>1
  <2>. QED
    BY <2>1 DEF Without
<1>4. u \in Seq(N) /\ Len(u) = Len(t) - 1 /\ DOMAIN u = 1 .. Len(t) - 1
  <2>1. Len(t) - 1 \in Nat
    BY <1>1
  <2>. QED
    BY <1>3, <2>1
<1>. HIDE DEF u
(* The place each of its elements had in t.                                 *)
<1>. DEFINE was(j) == IF j < i THEN j ELSE j + 1
<1>5. \A j \in 1 .. Len(t) - 1 : was(j) \in 1 .. Len(t) /\ was(j) # i /\ u[j] = t[was(j)]
  BY <1>1, <1>2
<1>6. \A j, k \in 1 .. Len(t) - 1 : was(j) = was(k) => j = k
  BY <1>1
<1>. HIDE DEF was
<1>7. \A m : On(u, m) => On(t, m)
  BY <1>4, <1>5 DEF On
<1>8. ASSUME NEW m, On(t, m), m # t[i] PROVE On(u, m)
  <2>1. PICK j \in 1 .. Len(t) : t[j] = m
    BY <1>8 DEF On
  <2>2. CASE j < i
    <3>1. j \in 1 .. Len(t) - 1 /\ u[j] = m
      BY <1>1, <1>2, <2>1, <2>2
    <3>. QED
      BY <1>4, <3>1 DEF On
  <2>3. CASE ~ (j < i)
    <3>1. j # i
      BY <1>8, <2>1
    <3>2. j - 1 \in 1 .. Len(t) - 1 /\ ~ (j - 1 < i) /\ (j - 1) + 1 = j
      BY <1>1, <2>3, <3>1
    <3>3. u[j - 1] = m
      BY <1>2, <2>1, <3>2
    <3>. QED
      BY <1>4, <3>2, <3>3 DEF On
  <2>. QED
    BY <2>2, <2>3
<1>9. ASSUME IsInjective(t) PROVE ~ On(u, t[i]) /\ IsInjective(u)
  <2>1. \A j, k \in 1 .. Len(t) : t[j] = t[k] => j = k
    BY <1>1, <1>9 DEF IsInjective
  <2>2. ASSUME NEW j \in 1 .. Len(t) - 1 PROVE u[j] # t[i]
    BY <1>5, <2>1
  <2>3. ASSUME NEW j \in 1 .. Len(t) - 1, NEW k \in 1 .. Len(t) - 1, u[j] = u[k] PROVE j = k
    <3>1. was(j) = was(k)
      BY <1>5, <2>1, <2>3
    <3>. QED
      BY <1>6, <3>1
  <2>. QED
    BY <1>4, <2>2, <2>3 DEF IsInjective, On
<1>. QED
  BY <1>2, <1>4, <1>7, <1>8, <1>9 DEF u

(* A sequence cut at its i-th element.                                      *)
LEMMA CutAt ==
  ASSUME NEW N, NEW r \in Seq(N), NEW i \in 1 .. Len(r)
  PROVE  LET s == SubSeq(r, 1, i - 1)
             t == SubSeq(r, i + 1, Len(r))
         IN  /\ s \in Seq(N) /\ Len(s) = i - 1 /\ \A j \in 1 .. i - 1 : s[j] = r[j]
             /\ t \in Seq(N) /\ Len(t) = Len(r) - i /\ \A j \in 1 .. Len(r) - i : t[j] = r[i + j]
             /\ r[i] \in N /\ s \o <<r[i]>> \o t = r
<1>. DEFINE s == SubSeq(r, 1, i - 1)
            t == SubSeq(r, i + 1, Len(r))
            q == s \o <<r[i]>> \o t
<1>1. Len(r) \in Nat /\ r \in [1 .. Len(r) -> N]
  BY LenProperties
<1>2. s \in Seq(N) /\ Len(s) = i - 1 /\ \A j \in 1 .. i - 1 : s[j] = r[j]
  BY <1>1, SubSeqProperties
<1>3. t \in Seq(N) /\ Len(t) = Len(r) - i /\ \A j \in 1 .. Len(r) - i : t[j] = r[i + j]
  <2>1. /\ t \in Seq(N)
        /\ Len(t) = IF i + 1 <= Len(r) THEN Len(r) - (i + 1) + 1 ELSE 0
        /\ \A j \in 1 .. Len(r) - (i + 1) + 1 : t[j] = r[i + 1 + j - 1]
    BY <1>1, SubSeqProperties
  <2>. HIDE DEF t
  <2>2. ASSUME NEW j \in 1 .. Len(r) - i PROVE t[j] = r[i + j]
    <3>1. j \in 1 .. Len(r) - (i + 1) + 1 /\ i + 1 + j - 1 = i + j
      BY <1>1
    <3>. QED
      BY <2>1, <3>1
  <2>3. Len(t) = Len(r) - i
    <3>1. i + 1 <= Len(r) => Len(r) - (i + 1) + 1 = Len(r) - i
      BY <1>1
    <3>2. ~ (i + 1 <= Len(r)) => Len(r) - i = 0
      <4>. DEFINE m == Len(r)
      <4>1. m \in Nat /\ i \in 1 .. m
        BY <1>1
      <4>. HIDE DEF m
      <4>2. ~ (i + 1 <= m) => m - i = 0
        BY <4>1
      <4>. QED
        BY <4>2 DEF m
    <3>. QED
      BY <2>1, <3>1, <3>2
  <2>. QED
    BY <2>1, <2>2, <2>3
<1>4. r[i] \in N
  BY <1>1
<1>. HIDE DEF s, t
<1>5. /\ q \in Seq(N) /\ Len(q) = Len(s) + Len(t) + 1
      /\ \A j \in 1 .. Len(s) + Len(t) + 1 : q[j] =
           IF j <= Len(s) THEN s[j] ELSE IF j = Len(s) + 1 THEN r[i] ELSE t[j - Len(s) - 1]
  <2>. DEFINE n == r[i]
  <2>1. n \in N /\ s \in Seq(N) /\ t \in Seq(N)
    BY <1>2, <1>3, <1>4
  <2>. HIDE DEF n
  <2>2. /\ s \o <<n>> \o t \in Seq(N) /\ Len(s \o <<n>> \o t) = Len(s) + Len(t) + 1
        /\ \A j \in 1 .. Len(s) + Len(t) + 1 : (s \o <<n>> \o t)[j] =
             IF j <= Len(s) THEN s[j] ELSE IF j = Len(s) + 1 THEN n ELSE t[j - Len(s) - 1]
    BY <2>1, SpliceElements
  <2>. QED
    BY <2>2 DEF n
<1>6. Len(s) + Len(t) + 1 = Len(r) /\ Len(s) = i - 1
  BY <1>1, <1>2, <1>3
<1>. HIDE DEF q
<1>7. ASSUME NEW j \in 1 .. Len(r) PROVE q[j] = r[j]
  <2>1. q[j] = IF j <= i - 1 THEN s[j] ELSE IF j = i THEN r[i] ELSE t[j - i]
    <3>1. (i - 1) + 1 = i /\ j - (i - 1) - 1 = j - i
      BY <1>1
    <3>. QED
      BY <1>5, <1>6, <3>1
  <2>2. CASE j <= i - 1
    BY <1>1, <1>2, <2>1, <2>2
  <2>3. CASE j = i
    BY <1>1, <2>1, <2>3
  <2>4. CASE j > i
    <3>1. j - i \in 1 .. Len(r) - i /\ i + (j - i) = j
      BY <1>1, <2>4
    <3>. QED
      BY <1>1, <1>3, <2>1, <2>4, <3>1
  <2>. QED
    BY <1>1, <2>2, <2>3, <2>4
<1>8. q = r
  BY <1>5, <1>6, <1>7, SeqEqual
<1>. QED
  BY <1>2, <1>3, <1>4, <1>8 DEF q, s, t

(* Inserted makes a sequence, one longer.                                   *)
LEMMA InsertedType ==
  ASSUME NEW N, NEW t, NEW i, NEW n, t \in Seq(N), i \in 0 .. Len(t), n \in N
  PROVE  Inserted(t, i, n) \in Seq(N) /\ Len(Inserted(t, i, n)) = Len(t) + 1
  BY InsertedElements

(* The elements of Inserted.                                                *)
LEMMA OnInserted ==
  ASSUME NEW N, NEW t, NEW i, NEW n, NEW m, t \in Seq(N), i \in 0 .. Len(t), n \in N
  PROVE  On(Inserted(t, i, n), m) <=> m = n \/ On(t, m)
  BY InsertedElements

(* Without makes a sequence, one shorter.                                   *)
LEMMA WithoutType ==
  ASSUME NEW N, NEW t, NEW i, t \in Seq(N), i \in 1 .. Len(t)
  PROVE  Without(t, i) \in Seq(N) /\ Len(Without(t, i)) = Len(t) - 1
  BY WithoutElements

(* The elements of Without, if none is in the sequence twice.               *)
LEMMA OnWithout ==
  ASSUME NEW N, NEW t, NEW i, NEW m, t \in Seq(N), i \in 1 .. Len(t), IsInjective(t)
  PROVE  On(Without(t, i), m) <=> On(t, m) /\ m # t[i]
  BY WithoutElements

(* Taking the first element.                                                *)
LEMMA TailIsWithout ==
  ASSUME NEW N, NEW t, t \in Seq(N), 1 \in 1 .. Len(t)
  PROVE  t # <<>> /\ Head(t) = t[1] /\ Tail(t) = Without(t, 1)
<1>1. Len(t) \in Nat /\ Len(t) # 0
  OBVIOUS
<1>2. t # <<>> /\ Head(t) = t[1]
  BY <1>1
<1>3. /\ Tail(t) \in Seq(N) /\ Len(Tail(t)) = Len(t) - 1
      /\ \A j \in 1 .. Len(t) - 1 : Tail(t)[j] = t[j + 1]
  BY <1>1, <1>2
<1>4. /\ Without(t, 1) \in Seq(N) /\ Len(Without(t, 1)) = Len(t) - 1
  BY WithoutType
<1>5. \A j \in 1 .. Len(t) - 1 : Without(t, 1)[j] = t[j + 1]
  BY <1>1 DEF Without
<1>6. Tail(t) = Without(t, 1)
  <2>. DEFINE u == Tail(t)
              w == Without(t, 1)
  <2>1. \A j \in 1 .. Len(u) : u[j] = w[j]
    BY <1>3, <1>5
  <2>2. u \in Seq(N) /\ w \in Seq(N) /\ Len(u) = Len(w)
    BY <1>3, <1>4
  <2>. HIDE DEF u, w
  <2>3. u = w
    BY <2>1, <2>2, SeqEqual
  <2>. QED
    BY <2>3 DEF u, w
<1>. QED
  BY <1>2, <1>6

(* Putting an element at the end.                                           *)
LEMMA AppendIsInserted ==
  ASSUME NEW N, NEW t, NEW n, t \in Seq(N), n \in N
  PROVE  Append(t, n) = Inserted(t, Len(t), n)
<1>. DEFINE u == Append(t, n)
            w == Inserted(t, Len(t), n)
<1>1. Len(t) \in Nat /\ Len(t) \in 0 .. Len(t)
  OBVIOUS
<1>2. u \in Seq(N) /\ Len(u) = Len(t) + 1 /\ \A j \in 1 .. Len(t) + 1 : u[j] = IF j = Len(t) + 1 THEN n ELSE t[j]
  BY <1>1
<1>3. w \in Seq(N) /\ Len(w) = Len(t) + 1
  BY <1>1, InsertedType
<1>4. \A j \in 1 .. Len(t) + 1 : w[j] = IF j <= Len(t) THEN t[j] ELSE IF j = Len(t) + 1 THEN n ELSE t[j - 1]
  BY <1>1 DEF Inserted
<1>. HIDE DEF u, w
<1>5. \A j \in 1 .. Len(u) : u[j] = w[j]
  BY <1>1, <1>2, <1>4
<1>6. u = w
  BY <1>2, <1>3, <1>5, SeqEqual
<1>. QED
  BY <1>6 DEF u, w

(* Putting an element at the front.                                         *)
LEMMA FrontIsInserted ==
  ASSUME NEW N, NEW t, NEW n, t \in Seq(N), n \in N
  PROVE  <<n>> \o t = Inserted(t, 0, n)
<1>. DEFINE u == WithHead(n, t)
            w == Inserted(t, 0, n)
<1>1. Len(t) \in Nat /\ 0 \in 0 .. Len(t)
  OBVIOUS
<1>2. u \in Seq(N) /\ Len(u) = Len(t) + 1 /\ u[1] = n
  BY WithHeadType
<1>3. \A j \in 1 .. Len(t) : u[j + 1] = t[j]
  BY WithHeadEach DEF IsTail
<1>4. w \in Seq(N) /\ Len(w) = Len(t) + 1
  BY <1>1, InsertedType
<1>5. \A j \in 1 .. Len(t) + 1 : w[j] = IF j <= 0 THEN t[j] ELSE IF j = 0 + 1 THEN n ELSE t[j - 1]
  BY <1>1 DEF Inserted
<1>. HIDE DEF u, w
<1>6. ASSUME NEW j \in 1 .. Len(t) + 1 PROVE u[j] = w[j]
  <2>1. CASE j = 1
    BY <1>1, <1>2, <1>5, <2>1
  <2>2. CASE j # 1
    <3>1. j - 1 \in 1 .. Len(t) /\ (j - 1) + 1 = j /\ ~ (j <= 0)
      BY <1>1, <2>2
    <3>. QED
      BY <1>3, <1>5, <2>2, <3>1
  <2>. QED
    BY <2>1, <2>2
<1>7. u = w
  BY <1>2, <1>4, <1>6, SeqEqual
<1>. QED
  BY <1>7 DEF u, w, WithHead

(* Whose nodes those of t are.                                              *)
OwnersOf(t) == [i \in DOMAIN t |-> container_of(t[i])]

(* The owners of a list without one node.                                   *)
LEMMA OwnersWithout ==
  ASSUME NEW N, NEW t, NEW i, t \in Seq(N), i \in 1 .. Len(t)
  PROVE  OwnersOf(Without(t, i)) = Without(OwnersOf(t), i)
<1>. DEFINE u == OwnersOf(t)
            w == Without(t, i)
<1>1. /\ Len(t) \in Nat /\ DOMAIN t = 1 .. Len(t)
  OBVIOUS
<1>2. DOMAIN u = 1 .. Len(t) /\ \A j \in 1 .. Len(t) : u[j] = container_of(t[j])
  BY <1>1 DEF OwnersOf
<1>3. Len(u) = Len(t)
  <2>1. u = [j \in 1 .. Len(t) |-> container_of(t[j])]
    BY <1>1 DEF OwnersOf
  <2>. QED
    BY <1>1, <2>1
<1>4. DOMAIN w = 1 .. Len(t) - 1 /\ \A j \in 1 .. Len(t) - 1 : w[j] = IF j < i THEN t[j] ELSE t[j + 1]
  BY DEF Without
<1>5. OwnersOf(w) = [j \in 1 .. Len(t) - 1 |-> container_of(w[j])]
  BY <1>4 DEF OwnersOf
<1>6. Without(u, i) = [j \in 1 .. Len(t) - 1 |-> IF j < i THEN u[j] ELSE u[j + 1]]
  BY <1>3 DEF Without
<1>7. \A j \in 1 .. Len(t) - 1 : j \in 1 .. Len(t) /\ j + 1 \in 1 .. Len(t)
  BY <1>1
<1>. HIDE DEF u, w
<1>8. \A j \in 1 .. Len(t) - 1 : container_of(w[j]) = IF j < i THEN u[j] ELSE u[j + 1]
  BY <1>2, <1>4, <1>7
<1>9. OwnersOf(w) = Without(u, i)
  BY <1>5, <1>6, <1>8
<1>. QED
  BY <1>9 DEF u, w

(* The owners of a list with one node more.                                 *)
LEMMA OwnersInserted ==
  ASSUME NEW N, NEW t, NEW i, NEW n, t \in Seq(N), i \in 0 .. Len(t)
  PROVE  OwnersOf(Inserted(t, i, n)) = Inserted(OwnersOf(t), i, container_of(n))
<1>. DEFINE u == OwnersOf(t)
            w == Inserted(t, i, n)
            v == container_of(n)
<1>1. /\ Len(t) \in Nat /\ DOMAIN t = 1 .. Len(t)
  OBVIOUS
<1>2. DOMAIN u = 1 .. Len(t) /\ \A j \in 1 .. Len(t) : u[j] = container_of(t[j])
  BY <1>1 DEF OwnersOf
<1>3. Len(u) = Len(t)
  <2>1. u = [j \in 1 .. Len(t) |-> container_of(t[j])]
    BY <1>1 DEF OwnersOf
  <2>. QED
    BY <1>1, <2>1
<1>4. /\ DOMAIN w = 1 .. Len(t) + 1
      /\ \A j \in 1 .. Len(t) + 1 : w[j] = IF j <= i THEN t[j] ELSE IF j = i + 1 THEN n ELSE t[j - 1]
  BY DEF Inserted
<1>5. OwnersOf(w) = [j \in 1 .. Len(t) + 1 |-> container_of(w[j])]
  BY <1>4 DEF OwnersOf
<1>6. Inserted(u, i, v) =
        [j \in 1 .. Len(t) + 1 |-> IF j <= i THEN u[j] ELSE IF j = i + 1 THEN v ELSE u[j - 1]]
  BY <1>3 DEF Inserted
<1>7. \A j \in 1 .. Len(t) + 1 : /\ j <= i => j \in 1 .. Len(t)
                                 /\ ~ (j <= i) /\ j # i + 1 => j - 1 \in 1 .. Len(t)
  BY <1>1
<1>. HIDE DEF u, w
<1>8. \A j \in 1 .. Len(t) + 1 :
        container_of(w[j]) = IF j <= i THEN u[j] ELSE IF j = i + 1 THEN v ELSE u[j - 1]
  BY <1>2, <1>4, <1>7
<1>. HIDE DEF v
<1>9. OwnersOf(w) = Inserted(u, i, v)
  BY <1>5, <1>6, <1>8
<1>. QED
  BY <1>9 DEF u, w, v

------------------------------------------------------------------------------
(* What the functions do to one of several lists.                           *)

(* What next leads to, along a list and back to its head.                   *)
THEOREM NextOnList ==
  ASSUME NEW N, NEW P, NEW h, NEW A, WellLinked(N, P, h, A), NEW a \in A
  PROVE  LET t == list_for_each(h, a)
         IN  /\ t \in Seq(N) /\ IsInjective(t) /\ ~ On(t, a)
             /\ h.next[a] = IF t = <<>> THEN a ELSE t[1]
             /\ \A i \in 1 .. Len(t) : h.next[t[i]] = IF i = Len(t) THEN a ELSE t[i + 1]
             /\ list_empty(h, a) <=> t = <<>>
             /\ \A n : n = a \/ On(t, n) => h.prev[h.next[n]] = n
<1>. DEFINE t == list_for_each(h, a)
            s == WithHead(a, t)
            m == Len(t)
<1>1. t \in Seq(N) /\ a \in N /\ Ring(h, s)
  BY DEF WellLinked
<1>. HIDE DEF t
<1>2. /\ s \in Seq(N) /\ Len(s) = m + 1 /\ m \in Nat /\ s[1] = a
      /\ \A j \in 1 .. m : s[j + 1] = t[j] /\ t[j] \in N
      /\ \A n : On(s, n) <=> n = a \/ On(t, n)
  BY <1>1, WithHeadElements
<1>. HIDE DEF s
<1>3. /\ \A i, j \in 1 .. m + 1 : s[i] = s[j] => i = j
      /\ \A i \in 1 .. m + 1 : h.next[s[i]] = s[turn(s, i)] /\ h.prev[s[turn(s, i)]] = s[i]
  BY <1>1, <1>2 DEF Ring
<1>4. IsInjective(t)
  <2>1. ASSUME NEW i \in 1 .. m, NEW j \in 1 .. m, t[i] = t[j] PROVE i = j
    <3>1. s[i + 1] = s[j + 1] /\ i + 1 \in 1 .. m + 1 /\ j + 1 \in 1 .. m + 1
      BY <1>2, <2>1
    <3>2. i + 1 = j + 1
      BY <1>3, <3>1
    <3>. QED
      BY <1>2, <3>2
  <2>2. DOMAIN t = 1 .. m
    BY <1>1
  <2>. QED
    BY <2>1, <2>2 DEF IsInjective
<1>5. ~ On(t, a)
  <2>1. ASSUME NEW j \in 1 .. m PROVE t[j] # a
    <3>1. j + 1 \in 1 .. m + 1 /\ 1 \in 1 .. m + 1 /\ j + 1 # 1
      BY <1>2
    <3>. QED
      BY <1>2, <1>3, <3>1
  <2>. QED
    BY <2>1 DEF On
<1>6. ASSUME NEW i \in 1 .. m
      PROVE  h.next[t[i]] = IF i = m THEN a ELSE t[i + 1]
  <2>1. i + 1 \in 1 .. m + 1 /\ (i = m => turn(s, i + 1) = 1)
        /\ (i # m => turn(s, i + 1) = (i + 1) + 1 /\ i + 1 \in 1 .. m)
    BY <1>2 DEF turn
  <2>2. h.next[t[i]] = s[turn(s, i + 1)]
    BY <1>2, <1>3, <2>1
  <2>. QED
    BY <1>2, <2>1, <2>2
<1>7. h.next[a] = IF t = <<>> THEN a ELSE t[1]
  <2>1. 1 \in 1 .. m + 1 /\ (m = 0 => turn(s, 1) = 1) /\ (m # 0 => turn(s, 1) = 2 /\ 1 \in 1 .. m)
    BY <1>2 DEF turn
  <2>2. h.next[a] = s[turn(s, 1)]
    BY <1>2, <1>3, <2>1
  <2>3. t = <<>> <=> m = 0
    BY <1>1
  <2>4. m # 0 => s[1 + 1] = t[1]
    BY <1>2, <2>1
  <2>. QED
    BY <1>2, <2>1, <2>2, <2>3, <2>4
<1>8. list_empty(h, a) <=> t = <<>>
  <2>1. t # <<>> => 1 \in 1 .. m
    BY <1>1
  <2>. QED
    BY <1>5, <1>7, <2>1 DEF list_empty, On
<1>9. ASSUME NEW n, n = a \/ On(t, n) PROVE h.prev[h.next[n]] = n
  <2>1. PICK i \in 1 .. m + 1 : s[i] = n
    BY <1>2, <1>9 DEF On
  <2>. QED
    BY <1>3, <2>1
<1>. QED
  BY <1>1, <1>4, <1>5, <1>6, <1>7, <1>8, <1>9 DEF t

(* An insertion as the cut that AddBehind makes.                            *)
LEMMA WithHeadInserted ==
  ASSUME NEW N, NEW a, NEW t, NEW i, NEW n,
         a \in N, t \in Seq(N), i \in 0 .. Len(t), n \in N
  PROVE  Splice2(UpTo(WithHead(a, t), i), WithHead(a, t)[i + 1], n, After(WithHead(a, t), i + 1))
           = WithHead(a, Inserted(t, i, n))
<1>. DEFINE r == WithHead(a, t)
            s == SubSeq(r, 1, i)
            node == r[i + 1]
            u == SubSeq(r, i + 2, Len(r))
            sn == s \o <<node>>
            q == sn \o <<n>> \o u
            v == Inserted(t, i, n)
            w == WithHead(a, v)
<1>1. /\ r \in Seq(N) /\ Len(r) = Len(t) + 1 /\ Len(t) \in Nat /\ r[1] = a
      /\ \A j \in 1 .. Len(t) : r[j + 1] = t[j] /\ t[j] \in N
  BY WithHeadElements
<1>2. i + 1 \in 1 .. Len(r) /\ (i + 1) - 1 = i /\ (i + 1) + 1 = i + 2
  BY <1>1
<1>3. /\ s \in Seq(N) /\ Len(s) = i /\ \A j \in 1 .. i : s[j] = r[j]
      /\ u \in Seq(N) /\ Len(u) = Len(r) - (i + 1)
      /\ \A j \in 1 .. Len(r) - (i + 1) : u[j] = r[(i + 1) + j]
      /\ node \in N
  <2>. DEFINE k == i + 1
  <2>1. k \in 1 .. Len(r)
    BY <1>2
  <2>. HIDE DEF r, k
  <2>2. LET s1 == SubSeq(r, 1, k - 1)
            t1 == SubSeq(r, k + 1, Len(r))
        IN  /\ s1 \in Seq(N) /\ Len(s1) = k - 1 /\ \A j \in 1 .. k - 1 : s1[j] = r[j]
            /\ t1 \in Seq(N) /\ Len(t1) = Len(r) - k
            /\ \A j \in 1 .. Len(r) - k : t1[j] = r[k + j]
            /\ r[k] \in N /\ s1 \o <<r[k]>> \o t1 = r
    BY <1>1, <2>1, CutAt
  <2>. QED
    BY <1>2, <2>2 DEF k
<1>4. /\ v \in Seq(N) /\ Len(v) = Len(t) + 1
      /\ \A j \in 1 .. Len(t) + 1 : v[j] = IF j <= i THEN t[j] ELSE IF j = i + 1 THEN n ELSE t[j - 1]
  BY InsertedElements, SMTT(60)
<1>. HIDE DEF s, u, v, r, node
<1>5. w \in Seq(N) /\ Len(w) = Len(t) + 2 /\ w[1] = a /\ \A j \in 1 .. Len(t) + 1 : w[j + 1] = v[j]
  <2>1. w \in Seq(N) /\ Len(w) = Len(v) + 1 /\ w[1] = a
    BY <1>4, WithHeadType
  <2>3. ASSUME NEW j \in 1 .. Len(v) PROVE w[j + 1] = v[j]
    <3>1. IsTail(v, WithHead(a, v))
      BY <1>4, WithHeadEach
    <3>. QED
      BY <3>1 DEF IsTail
  <2>2. Len(v) + 1 = Len(t) + 2
    BY <1>1, <1>4
  <2>. QED
    BY <1>4, <2>1, <2>2, <2>3
<1>6. /\ sn \in Seq(N) /\ Len(sn) = i + 1
      /\ \A j \in 1 .. i + 1 : sn[j] = r[j]
  <2>1. /\ sn \in Seq(N) /\ Len(sn) = Len(s) + 1
        /\ \A j \in 1 .. Len(s) + 1 : sn[j] = IF j <= Len(s) THEN s[j] ELSE node
    BY <1>3, <<node>> \in Seq(N), JoinElements
  <2>. QED
    BY <1>1, <1>3, <2>1 DEF node
<1>. HIDE DEF sn
<1>7. /\ q \in Seq(N) /\ Len(q) = Len(t) + 2
      /\ \A j \in 1 .. Len(t) + 2 : q[j] =
           IF j <= i + 1 THEN r[j] ELSE IF j = i + 2 THEN n ELSE r[j - 1]
  <2>1. /\ q \in Seq(N) /\ Len(q) = Len(sn) + Len(u) + 1
        /\ \A j \in 1 .. Len(sn) + Len(u) + 1 : q[j] =
             IF j <= Len(sn) THEN sn[j] ELSE IF j = Len(sn) + 1 THEN n ELSE u[j - Len(sn) - 1]
    <3>1. sn \in Seq(N) /\ u \in Seq(N) /\ n \in N
      BY <1>3, <1>6
    <3>. HIDE DEF q, w
    <3>2. /\ sn \o <<n>> \o u \in Seq(N) /\ Len(sn \o <<n>> \o u) = Len(sn) + Len(u) + 1
          /\ \A j \in 1 .. Len(sn) + Len(u) + 1 : (sn \o <<n>> \o u)[j] =
               IF j <= Len(sn) THEN sn[j] ELSE IF j = Len(sn) + 1 THEN n ELSE u[j - Len(sn) - 1]
      BY <3>1, SpliceElements
    <3>. QED
      BY <3>2 DEF q
  <2>2. Len(sn) + Len(u) + 1 = Len(t) + 2 /\ Len(sn) = i + 1
    BY <1>1, <1>3, <1>6
  <2>. HIDE DEF q
  <2>3. ASSUME NEW j \in 1 .. Len(t) + 2
        PROVE  q[j] = IF j <= i + 1 THEN r[j] ELSE IF j = i + 2 THEN n ELSE r[j - 1]
    <3>0. q[j] = IF j <= i + 1 THEN sn[j] ELSE IF j = i + 2 THEN n ELSE u[j - (i + 1) - 1]
      <4>1. (i + 1) + 1 = i + 2
        BY <1>1
      <4>. QED
        BY <2>1, <2>2, <4>1
    <3>1. CASE j <= i + 1
      BY <1>1, <1>6, <3>0, <3>1
    <3>2. CASE j = i + 2
      BY <1>1, <3>0, <3>2
    <3>3. CASE j > i + 2
      <4>1. j - (i + 1) - 1 \in 1 .. Len(r) - (i + 1) /\ (i + 1) + (j - (i + 1) - 1) = j - 1
        BY <1>1, <3>3
      <4>2. ~ (j <= i + 1) /\ j # i + 2
        BY <1>1, <3>3
      <4>. QED
        BY <1>3, <3>0, <4>1, <4>2
    <3>. QED
      BY <1>1, <3>1, <3>2, <3>3
  <2>. QED
    BY <2>1, <2>2, <2>3
<1>. HIDE DEF q, w
<1>8. ASSUME NEW j \in 1 .. Len(t) + 2 PROVE q[j] = w[j]
  <2>1. CASE j = 1
    BY <1>1, <1>5, <1>7, <2>1
  <2>2. CASE j # 1
    <3>1. j - 1 \in 1 .. Len(t) + 1 /\ (j - 1) + 1 = j
      BY <1>1, <2>2
    <3>2. w[j] = IF j - 1 <= i THEN t[j - 1] ELSE IF j - 1 = i + 1 THEN n ELSE t[(j - 1) - 1]
      BY <1>4, <1>5, <3>1
    <3>3. CASE j <= i + 1
      <4>1. j - 1 \in 1 .. Len(t) /\ j - 1 <= i
        BY <1>1, <3>1, <3>3
      <4>. QED
        BY <1>1, <1>7, <3>1, <3>2, <3>3, <4>1
    <3>4. CASE j = i + 2
      <4>1. ~ (j - 1 <= i) /\ j - 1 = i + 1 /\ ~ (j <= i + 1)
        BY <1>1, <3>4
      <4>. QED
        BY <1>7, <3>2, <3>4, <4>1
    <3>5. CASE j > i + 2
      <4>1. /\ ~ (j - 1 <= i) /\ j - 1 # i + 1 /\ ~ (j <= i + 1) /\ j # i + 2
            /\ (j - 1) - 1 \in 1 .. Len(t) /\ ((j - 1) - 1) + 1 = j - 1
        BY <1>1, <3>5
      <4>. QED
        BY <1>1, <1>7, <3>2, <4>1
    <3>. QED
      BY <1>1, <3>3, <3>4, <3>5
  <2>. QED
    BY <2>1, <2>2
<1>9. q = w
  BY <1>5, <1>7, <1>8, SeqEqual
<1>10. After(r, i + 1) = u
  BY <1>2 DEF After, u
<1>. QED
  BY <1>9, <1>10 DEF q, sn, s, u, node, r, w, v, UpTo, Splice2

(* A removal as the cut that DeleteEntry makes.                             *)
LEMMA WithHeadWithout ==
  ASSUME NEW N, NEW a, NEW t, NEW i, a \in N, t \in Seq(N), i \in 1 .. Len(t)
  PROVE  UpTo(WithHead(a, t), i) \o After(WithHead(a, t), i + 1) = WithHead(a, Without(t, i))
<1>. DEFINE r == WithHead(a, t)
            s == SubSeq(r, 1, i)
            u == SubSeq(r, i + 2, Len(r))
            q == s \o u
            v == Without(t, i)
            w == WithHead(a, v)
<1>1. /\ r \in Seq(N) /\ Len(r) = Len(t) + 1 /\ Len(t) \in Nat /\ r[1] = a
      /\ \A j \in 1 .. Len(t) : r[j + 1] = t[j] /\ t[j] \in N
  BY WithHeadElements
<1>2. i + 1 \in 1 .. Len(r) /\ (i + 1) - 1 = i /\ (i + 1) + 1 = i + 2
  BY <1>1
<1>3. /\ s \in Seq(N) /\ Len(s) = i /\ \A j \in 1 .. i : s[j] = r[j]
      /\ u \in Seq(N) /\ Len(u) = Len(r) - (i + 1)
      /\ \A j \in 1 .. Len(r) - (i + 1) : u[j] = r[(i + 1) + j]
  <2>. DEFINE k == i + 1
  <2>1. k \in 1 .. Len(r)
    BY <1>2
  <2>. HIDE DEF r, k
  <2>2. LET s1 == SubSeq(r, 1, k - 1)
            t1 == SubSeq(r, k + 1, Len(r))
        IN  /\ s1 \in Seq(N) /\ Len(s1) = k - 1 /\ \A j \in 1 .. k - 1 : s1[j] = r[j]
            /\ t1 \in Seq(N) /\ Len(t1) = Len(r) - k
            /\ \A j \in 1 .. Len(r) - k : t1[j] = r[k + j]
            /\ r[k] \in N /\ s1 \o <<r[k]>> \o t1 = r
    BY <1>1, <2>1, CutAt
  <2>. QED
    BY <1>2, <2>2 DEF k
<1>4. v \in Seq(N) /\ Len(v) = Len(t) - 1
  BY WithoutElements
<1>40. \A j \in 1 .. Len(t) - 1 : v[j] = IF j < i THEN t[j] ELSE t[j + 1]
  BY DEF Without
<1>. HIDE DEF s, u, v, r
<1>5. w \in Seq(N) /\ Len(w) = Len(t) /\ w[1] = a /\ \A j \in 1 .. Len(t) - 1 : w[j + 1] = v[j]
  <2>1. w \in Seq(N) /\ Len(w) = Len(v) + 1 /\ w[1] = a
    BY <1>4, WithHeadType
  <2>3. ASSUME NEW j \in 1 .. Len(v) PROVE w[j + 1] = v[j]
    <3>1. IsTail(v, WithHead(a, v))
      BY <1>4, WithHeadEach
    <3>. QED
      BY <3>1 DEF IsTail
  <2>2. Len(v) + 1 = Len(t)
    BY <1>1, <1>4
  <2>. QED
    BY <1>4, <2>1, <2>2, <2>3
<1>7. /\ q \in Seq(N) /\ Len(q) = Len(t)
      /\ \A j \in 1 .. Len(t) : q[j] = IF j <= i THEN r[j] ELSE r[j + 1]
  <2>1. /\ q \in Seq(N) /\ Len(q) = Len(s) + Len(u)
        /\ \A j \in 1 .. Len(s) + Len(u) : q[j] =
             IF j <= Len(s) THEN s[j] ELSE u[j - Len(s)]
    BY <1>3, JoinElements
  <2>2. Len(s) + Len(u) = Len(t) /\ Len(s) = i
    BY <1>1, <1>3
  <2>. HIDE DEF q
  <2>3. ASSUME NEW j \in 1 .. Len(t)
        PROVE  q[j] = IF j <= i THEN r[j] ELSE r[j + 1]
    <3>0. q[j] = IF j <= i THEN s[j] ELSE u[j - i]
      BY <2>1, <2>2
    <3>1. CASE j <= i
      BY <1>1, <1>3, <3>0, <3>1
    <3>3. CASE j > i
      <4>1. j - i \in 1 .. Len(r) - (i + 1) /\ (i + 1) + (j - i) = j + 1
        BY <1>1, <3>3
      <4>2. ~ (j <= i)
        BY <1>1, <3>3
      <4>. QED
        BY <1>3, <3>0, <4>1, <4>2
    <3>. QED
      BY <1>1, <3>1, <3>3
  <2>. QED
    BY <2>1, <2>2, <2>3
<1>. HIDE DEF q, w
<1>8. ASSUME NEW j \in 1 .. Len(t) PROVE q[j] = w[j]
  <2>1. CASE j = 1
    BY <1>1, <1>5, <1>7, <2>1
  <2>2. CASE j # 1
    <3>1. j - 1 \in 1 .. Len(t) - 1 /\ (j - 1) + 1 = j /\ (j - 1 < i <=> j <= i)
          /\ j - 1 \in 1 .. Len(t)
      BY <1>1, <2>2
    <3>2. w[j] = IF j <= i THEN t[j - 1] ELSE t[j]
      BY <1>40, <1>5, <3>1
    <3>3. r[j] = t[j - 1] /\ r[j + 1] = t[j]
      BY <1>1, <3>1
    <3>. QED
      BY <1>7, <3>2, <3>3
  <2>. QED
    BY <2>1, <2>2
<1>9. q = w
  BY <1>5, <1>7, <1>8, SeqEqual
<1>10. After(r, i + 1) = u
  BY <1>2 DEF After, u
<1>. QED
  BY <1>9, <1>10 DEF q, s, u, r, w, v, UpTo

(* The sequence r with node in its place i + 1, cut there.                  *)
CutsAt(N, r, i, node) ==
  /\ UpTo(r, i) \in Seq(N) /\ After(r, i + 1) \in Seq(N) /\ node \in N
  /\ r[i + 1] = node /\ Splice(UpTo(r, i), node, After(r, i + 1)) = r

(* A list with its head, cut behind the head or the i-th node.              *)
LEMMA ListCut ==
  ASSUME NEW N, NEW a, NEW t, NEW i, a \in N, t \in Seq(N), i \in 0 .. Len(t)
  PROVE  CutsAt(N, WithHead(a, t), i, IF i = 0 THEN a ELSE t[i])
<1>. DEFINE r == WithHead(a, t)
<1>1. r \in Seq(N) /\ Len(r) = Len(t) + 1 /\ Len(t) \in Nat /\ r[1] = a
  BY WithHeadType
<1>2. i + 1 \in 1 .. Len(r) /\ (i + 1) - 1 = i
  BY <1>1
<1>3. r[i + 1] = IF i = 0 THEN a ELSE t[i]
  <2>1. CASE i = 0
    BY <1>1, <2>1
  <2>2. CASE i # 0
    <3>1. i \in 1 .. Len(t)
      BY <2>2
    <3>2. WithHead(a, t)[i + 1] = t[i]
      <4>1. IsTail(t, WithHead(a, t))
        BY WithHeadEach
      <4>. QED
        BY <3>1, <4>1 DEF IsTail
    <3>. QED
      BY <2>2, <3>2
  <2>. QED
    BY <2>1, <2>2
<1>. HIDE DEF r
<1>4. LET s == SubSeq(r, 1, (i + 1) - 1)
          u == SubSeq(r, (i + 1) + 1, Len(r))
      IN  /\ s \in Seq(N) /\ Len(s) = (i + 1) - 1
          /\ u \in Seq(N) /\ r[i + 1] \in N /\ s \o <<r[i + 1]>> \o u = r
  BY <1>1, <1>2, CutAt
<1>5. /\ UpTo(r, i) \in Seq(N) /\ Len(UpTo(r, i)) = i /\ After(r, i + 1) \in Seq(N)
      /\ r[i + 1] \in N /\ Splice(UpTo(r, i), r[i + 1], After(r, i + 1)) = r
  BY <1>2, <1>4 DEF UpTo, After, Splice
<1>. QED
  BY <1>3, <1>5 DEF r, CutsAt

(* The same at a node, which is never the first of the circular list.       *)
LEMMA ListCutAt ==
  ASSUME NEW N, NEW a, NEW t, NEW i, a \in N, t \in Seq(N), i \in 1 .. Len(t)
  PROVE  CutsAt(N, WithHead(a, t), i, t[i]) /\ UpTo(WithHead(a, t), i) # <<>>
<1>1. i \in 0 .. Len(t) /\ i # 0
  OBVIOUS
<1>2. CutsAt(N, WithHead(a, t), i, IF i = 0 THEN a ELSE t[i])
  BY <1>1, ListCut
<1>3. CutsAt(N, WithHead(a, t), i, t[i])
  BY <1>1, <1>2
<1>4. UpTo(WithHead(a, t), i) # <<>>
  <2>. DEFINE r == WithHead(a, t)
  <2>1. r \in Seq(N) /\ Len(r) = Len(t) + 1 /\ Len(t) \in Nat
    BY WithHeadType
  <2>. HIDE DEF r
  <2>2. \A k \in 1 .. i : r[k] \in N
    BY <2>1
  <2>3. Len(SubSeq(r, 1, i)) = i
    BY <1>1, <2>1, <2>2, SubSeqProperties
  <2>4. Len(<<>>) = 0
    OBVIOUS
  <2>5. UpTo(r, i) # <<>>
    BY <1>1, <2>3, <2>4 DEF UpTo
  <2>. QED
    BY <2>5 DEF r
<1>. QED
  BY <1>3, <1>4

(* list_add behind the head or a node of the list of a.                     *)
THEOREM AddNode ==
  ASSUME NEW N, NEW P, NEW h, NEW A, NEW a, NEW i, NEW new,
         WellLinked(N, P, h, A), a \in A, i \in 0 .. Len(list_for_each(h, a)),
         new \in N, \A b \in A : Off(h, b, new)
  PROVE  LET t == list_for_each(h, a)
             g == list_add(h, new, IF i = 0 THEN a ELSE t[i])
         IN  /\ WellLinked(N, P, g, A)
             /\ list_for_each(g, a) = Inserted(t, i, new)
             /\ SameLists(h, g, A \ {a})
<1>. DEFINE t == list_for_each(h, a)
            r == WithHead(a, t)
            node == IF i = 0 THEN a ELSE t[i]
            g == list_add(h, new, node)
            s == UpTo(r, i)
            u == After(r, i + 1)
            v == Inserted(t, i, new)
            q == WithHead(a, v)
<1>1. /\ t \in Seq(N) /\ a \in N /\ Ring(h, r) /\ h \in HeapOver(N, P) /\ Off(h, a, new)
      /\ i \in 0 .. Len(t) /\ N \subseteq P
  BY DEF WellLinked
<1>2. On(r, new) <=> new = a \/ On(t, new)
  <2>. HIDE DEF t
  <2>. QED
    BY <1>1, OnWithHead
<1>3. ~ On(r, new)
  BY <1>1, <1>2 DEF Off
<1>. HIDE DEF t
<1>4. /\ s \in Seq(N) /\ u \in Seq(N) /\ node \in N /\ Splice(s, node, u) = r
      /\ r[i + 1] = node
  <2>. HIDE DEF s, u, v, q, g
  <2>1. CutsAt(N, r, i, node)
    BY <1>1, ListCut
  <2>. QED
    BY <2>1 DEF CutsAt, s, u
<1>5. Splice2(s, node, new, u) = q
  <2>1. Splice2(s, r[i + 1], new, u) = q
    BY <1>1, WithHeadInserted
  <2>. QED
    BY <1>4, <2>1
<1>6. v \in Seq(N)
  BY <1>1, InsertedType
<1>7. q \in Seq(N)
  BY <1>1, <1>6, WithHeadType
<1>. HIDE DEF g, s, u, v, r, node, q
<1>8. /\ g \in HeapOver(N, P) /\ Ring(g, q) /\ Spares(N, h, g, q)
  <2>1. Ring(h, s \o <<node>> \o u) /\ ~ On(s \o <<node>> \o u, new)
    BY <1>1, <1>3, <1>4 DEF Splice
  <2>2. LET g1 == list_add(h, new, node)
        IN  /\ g1 \in HeapOver(N, P)
            /\ Ring(g1, s \o <<node>> \o <<new>> \o u)
            /\ Spares(N, h, g1, s \o <<node>> \o <<new>> \o u)
    BY <1>1, <1>4, <2>1, AddBehind
  <2>. QED
    BY <1>5, <2>2 DEF g, Splice2
<1>9. Apart(h, A, a, v, q)
  <2>1. ASSUME NEW n, n = a \/ On(t, n), NEW b \in A \ {a} PROVE Off(h, b, n)
    <3>1. On(r, n)
      BY <1>1, <2>1, OnWithHead DEF r
    <3>2. ~ On(WithHead(b, list_for_each(h, b)), n)
      BY <3>1 DEF WellLinked, r, t
    <3>. QED
      BY <3>2, OffRing
  <2>2. \A n : On(v, n) <=> n = new \/ On(t, n)
    BY <1>1, OnInserted DEF v
  <2>3. \A n : On(q, n) <=> n = a \/ On(v, n)
    BY <1>1, <1>6, OnWithHead DEF q
  <2>. QED
    BY <2>1, <2>2, <2>3 DEF Apart
<1>10. Rewrites(N, P, h, g, A, a, v, q)
  BY <1>1, <1>6, <1>7, <1>8, <1>9 DEF Rewrites, q
<1>11. /\ WellLinked(N, P, g, A \cup {a})
       /\ list_for_each(g, a) = v
       /\ SameLists(h, g, A \ {a})
  BY <1>10, Relinked
<1>12. A \cup {a} = A
  OBVIOUS
<1>. QED
  BY <1>11, <1>12 DEF g, v, t, node

(* list_add_tail on the list with head a.                                   *)
THEOREM AddLast ==
  ASSUME NEW N, NEW P, NEW h, NEW A, NEW a, NEW new,
         WellLinked(N, P, h, A), a \in A, new \in N, \A b \in A : Off(h, b, new)
  PROVE  LET t == list_for_each(h, a)
             g == list_add_tail(h, new, a)
         IN  /\ WellLinked(N, P, g, A)
             /\ list_for_each(g, a) = Inserted(t, Len(t), new)
             /\ SameLists(h, g, A \ {a})
<1>. DEFINE t == list_for_each(h, a)
            r == WithHead(a, t)
            g == list_add_tail(h, new, a)
            i == Len(t)
            v == Inserted(t, i, new)
            q == WithHead(a, v)
            s == UpTo(r, i)
            node == IF i = 0 THEN a ELSE t[i]
            u == After(r, i + 1)
<1>1. /\ t \in Seq(N) /\ a \in N /\ Ring(h, r) /\ h \in HeapOver(N, P) /\ Off(h, a, new)
      /\ N \subseteq P
  BY DEF WellLinked
<1>2. On(r, new) <=> new = a \/ On(t, new)
  <2>. HIDE DEF t
  <2>. QED
    BY <1>1, OnWithHead
<1>3. ~ On(r, new)
  BY <1>1, <1>2 DEF Off
<1>. HIDE DEF t
<1>4. i \in 0 .. Len(t) /\ Len(t) \in Nat
  BY <1>1
<1>5. /\ s \in Seq(N) /\ u \in Seq(N) /\ node \in N /\ Splice(s, node, u) = r
      /\ r[i + 1] = node
  <2>. HIDE DEF s, u, v, q, g, i
  <2>1. CutsAt(N, r, i, node)
    BY <1>1, <1>4, ListCut
  <2>. QED
    BY <2>1 DEF CutsAt, s, u
<1>6. Splice2(s, node, new, u) = q
  <2>1. Splice2(s, r[i + 1], new, u) = q
    BY <1>1, <1>4, WithHeadInserted
  <2>. QED
    BY <1>5, <2>1
<1>7. v \in Seq(N)
  BY <1>1, <1>4, InsertedType
<1>8. q \in Seq(N)
  BY <1>1, <1>7, WithHeadType
<1>9. u = <<>>
  <2>1. Len(r) = Len(t) + 1 /\ i + 1 = Len(t) + 1
    BY <1>1, WithHeadType
  <2>. HIDE DEF r, i
  <2>2. (i + 1) + 1 \in Int /\ Len(r) \in Int /\ Len(r) < (i + 1) + 1
    BY <1>4, <2>1
  <2>. QED
    BY <2>2, SubSeqEmpty DEF After
<1>. HIDE DEF g, s, u, v, r, node, q, i
<1>10. q = r \o <<new>>
  <2>1. s \o <<node>> \o <<>> = r /\ q = s \o <<node>> \o <<new>> \o <<>>
    BY <1>5, <1>6, <1>9 DEF Splice, Splice2
  <2>. DEFINE sn == s \o <<node>>
  <2>2. sn \in Seq(N) /\ <<new>> \in Seq(N)
    BY <1>5, <<node>> \in Seq(N), JoinElements
  <2>. HIDE DEF sn
  <2>3. sn \o <<>> = sn /\ sn \o <<new>> \in Seq(N)
    BY <2>2, ConcatNone, JoinElements
  <2>4. sn \o <<new>> \o <<>> = sn \o <<new>>
    BY <2>3, ConcatNone
  <2>. QED
    BY <2>1, <2>3, <2>4 DEF sn
<1>11. /\ g \in HeapOver(N, P) /\ Ring(g, q) /\ Spares(N, h, g, q)
  <2>1. r = <<a>> \o t
    BY DEF r, WithHead
  <2>2. Ring(h, <<a>> \o t) /\ ~ On(<<a>> \o t, new)
    BY <1>1, <1>3, <2>1
  <2>3. LET g1 == list_add_tail(h, new, a)
        IN  /\ g1 \in HeapOver(N, P)
            /\ Ring(g1, <<a>> \o t \o <<new>>)
            /\ Spares(N, h, g1, <<a>> \o t \o <<new>>)
    BY <1>1, <2>2, AddAtTail
  <2>. QED
    BY <1>10, <2>1, <2>3 DEF g
<1>12. Apart(h, A, a, v, q)
  <2>1. ASSUME NEW n, n = a \/ On(t, n), NEW b \in A \ {a} PROVE Off(h, b, n)
    <3>1. On(r, n)
      BY <1>1, <2>1, OnWithHead DEF r
    <3>2. ~ On(WithHead(b, list_for_each(h, b)), n)
      BY <3>1 DEF WellLinked, r, t
    <3>. QED
      BY <3>2, OffRing
  <2>2. \A n : On(v, n) <=> n = new \/ On(t, n)
    BY <1>1, <1>4, OnInserted DEF v
  <2>3. \A n : On(q, n) <=> n = a \/ On(v, n)
    BY <1>1, <1>7, OnWithHead DEF q
  <2>. QED
    BY <2>1, <2>2, <2>3 DEF Apart
<1>13. Rewrites(N, P, h, g, A, a, v, q)
  BY <1>1, <1>7, <1>8, <1>11, <1>12 DEF Rewrites, q
<1>14. /\ WellLinked(N, P, g, A \cup {a})
       /\ list_for_each(g, a) = v
       /\ SameLists(h, g, A \ {a})
  BY <1>13, Relinked
<1>15. A \cup {a} = A
  OBVIOUS
<1>. QED
  BY <1>14, <1>15 DEF g, v, t, i

(* From h to g the list of a loses its i-th node, which goes on leading     *)
(* where it led.                                                            *)
Unlinks(N, P, h, g, A, a, i) ==
  LET t == list_for_each(h, a)
  IN  /\ WellLinked(N, P, g, A)
      /\ list_for_each(g, a) = Without(t, i)
      /\ SameLists(h, g, A \ {a})
      /\ g.next[t[i]] = h.next[t[i]]

(* list_del of the i-th node of the list of a.                              *)
THEOREM DeleteNode ==
  ASSUME NEW N, NEW P, NEW h, NEW A, NEW a, NEW i,
         WellLinked(N, P, h, A), a \in A, i \in 1 .. Len(list_for_each(h, a))
  PROVE  Unlinks(N, P, h, list_del(h, list_for_each(h, a)[i]), A, a, i)
<1>. DEFINE t == list_for_each(h, a)
            r == WithHead(a, t)
            node == t[i]
            g == list_del(h, node)
            s == UpTo(r, i)
            u == After(r, i + 1)
            v == Without(t, i)
<1>1. /\ t \in Seq(N) /\ a \in N /\ Ring(h, r) /\ h \in HeapOver(N, P)
      /\ i \in 1 .. Len(t) /\ N \subseteq P
  BY DEF WellLinked
<1>. HIDE DEF t
<1>3. /\ s \in Seq(N) /\ u \in Seq(N) /\ node \in N /\ Splice(s, node, u) = r
      /\ s # <<>>
  <2>. HIDE DEF u, v, g
  <2>1. CutsAt(N, r, i, node) /\ s # <<>>
    BY <1>1, ListCutAt
  <2>. QED
    BY <2>1 DEF CutsAt, s, u
<1>4. s \o u = WithHead(a, v)
  <2>1. a \in N /\ t \in Seq(N) /\ i \in 1 .. Len(t)
    BY <1>1
  <2>. QED
    BY <2>1, WithHeadWithout, SMTT(30)
<1>5. v \in Seq(N)
  BY <1>1, WithoutType
<1>6. r \in Seq(N)
  BY <1>1, WithHeadType
<1>7. \A n : On(v, n) => On(t, n)
  BY <1>1, WithoutElements
<1>. HIDE DEF g, s, u, v, r, node
<1>8. /\ g \in HeapOver(N, P) /\ Ring(g, WithHead(a, v)) /\ Spares(N, h, g, r)
      /\ g.next[node] = h.next[node]
  <2>1. Ring(h, s \o <<node>> \o u)
    BY <1>1, <1>3 DEF g, Splice
  <2>2. LET g1 == list_del(h, node)
        IN  /\ g1 \in HeapOver(N, P)
            /\ Ring(g1, s \o u)
            /\ g1.next[node] = h.next[node] /\ g1.prev[node] = h.prev[node]
            /\ Spares(N, h, g1, s \o <<node>> \o u)
    BY <1>1, <1>3, <2>1, RemovedRing
  <2>. QED
    BY <1>3, <1>4, <2>2 DEF g, Splice
<1>9. Apart(h, A, a, v, r)
  <2>1. ASSUME NEW n, n = a \/ On(t, n), NEW b \in A \ {a} PROVE Off(h, b, n)
    <3>1. On(r, n)
      BY <1>1, <2>1, OnWithHead DEF r
    <3>2. ~ On(WithHead(b, list_for_each(h, b)), n)
      BY <3>1 DEF WellLinked, r, t
    <3>. QED
      BY <3>2, OffRing
  <2>2. \A n : On(r, n) <=> n = a \/ On(t, n)
    BY <1>1, OnWithHead DEF r
  <2>. QED
    BY <1>7, <2>1, <2>2 DEF Apart
<1>10. Rewrites(N, P, h, g, A, a, v, r)
  BY <1>1, <1>5, <1>6, <1>8, <1>9 DEF Rewrites
<1>11. /\ WellLinked(N, P, g, A \cup {a})
       /\ list_for_each(g, a) = v
       /\ SameLists(h, g, A \ {a})
  BY <1>10, Relinked
<1>12. A \cup {a} = A
  OBVIOUS
<1>. QED
  BY <1>8, <1>11, <1>12 DEF g, v, t, node, Unlinks
==============================================================================
