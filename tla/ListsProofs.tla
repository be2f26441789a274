------------------------------- MODULE ListsProofs ---------------------------
(****************************************************************************)
(* The lists of pcb.c and asl.c for tables of any size: an inductive        *)
(* invariant of Lists, its safety properties, and that Lists implements     *)
(* Tables.  A heap and the variables are parameters of most lemmas, so that *)
(* they can be used before and after a step.                                *)
(****************************************************************************)
EXTENDS Lists, ListXProofs

(* The nodes: links of PCBs and of siblings, places in the lists of         *)
(* descriptors, heads of lists of children and of queues, and the four      *)
(* heads there always are.                                                  *)
Links == {link(p) : p \in PCB}
Sibs == {sib(p) : p \in PCB}
Nexts == {s_next(s) : s \in Semd}
Children == {child(p) : p \in PCB}
ProcQs == {procQ(s) : s \in Semd}
Fixed == {readyQueue_h, pcbfree_h, semd_h, semdFree_h}

(* Every node that is the head of a list at some time.                      *)
AllHeads == Fixed \cup Children \cup ProcQs

(* The nodes that may be on the list with head a.                           *)
Kind(a) ==
  IF a \in Children THEN Sibs ELSE IF a \in {semd_h, semdFree_h} THEN Nexts ELSE Links

(* The nodes are heads, links, siblings and places in lists of descriptors, *)
(* and no node is two of these.                                             *)
LEMMA NodeKinds ==
  /\ Node = AllHeads \cup Links \cup Sibs \cup Nexts
  /\ AllHeads \cap (Links \cup Sibs \cup Nexts) = {}
  /\ Links \cap Sibs = {} /\ Links \cap Nexts = {} /\ Sibs \cap Nexts = {}
  /\ Fixed \cap Children = {} /\ Fixed \cap ProcQs = {} /\ Children \cap ProcQs = {}
<1>1. Node = AllHeads \cup Links \cup Sibs \cup Nexts
  BY DEF Node, AllHeads, Fixed, Links, Sibs, Nexts, Children, ProcQs
<1>2. /\ \A n \in AllHeads : n[1] \in {"head", "p_child", "s_procQ"}
      /\ \A n \in Links : n[1] = "link"
      /\ \A n \in Sibs : n[1] = "p_sib"
      /\ \A n \in Nexts : n[1] = "s_next"
      /\ \A n \in Fixed : n[1] = "head"
      /\ \A n \in Children : n[1] = "p_child"
      /\ \A n \in ProcQs : n[1] = "s_procQ"
  BY DEF AllHeads, Fixed, Links, Sibs, Nexts, Children, ProcQs, link, sib, s_next, child, procQ,
         readyQueue_h, pcbfree_h, semd_h, semdFree_h
<1>. QED
  BY <1>1, <1>2

(* container_of finds the PCB or descriptor a node is a field of.           *)
LEMMA Owner ==
  /\ \A p \in PCB : /\ container_of(link(p)) = p /\ link(p) \in Links
                    /\ container_of(sib(p)) = p /\ sib(p) \in Sibs
                    /\ container_of(child(p)) = p /\ child(p) \in Children
  /\ \A s \in Semd : /\ container_of(s_next(s)) = s /\ s_next(s) \in Nexts
                     /\ container_of(procQ(s)) = s /\ procQ(s) \in ProcQs
  /\ \A n \in Links : container_of(n) \in PCB /\ n = link(container_of(n))
  /\ \A n \in Sibs : container_of(n) \in PCB /\ n = sib(container_of(n))
  /\ \A n \in Nexts : container_of(n) \in Semd /\ n = s_next(container_of(n))
  BY DEF container_of, link, sib, child, s_next, procQ, Links, Sibs, Nexts, Children, ProcQs

(* The four heads there always are.                                         *)
LEMMA FixedHeads ==
  /\ Fixed = {readyQueue_h, pcbfree_h, semd_h, semdFree_h} /\ Fixed \subseteq AllHeads
  /\ readyQueue_h # pcbfree_h /\ readyQueue_h # semd_h /\ readyQueue_h # semdFree_h
  /\ pcbfree_h # semd_h /\ pcbfree_h # semdFree_h /\ semd_h # semdFree_h
  BY DEF Fixed, AllHeads, readyQueue_h, pcbfree_h, semd_h, semdFree_h

(* The kind of nodes each list is made of.                                  *)
LEMMA KindOf ==
  /\ Kind(readyQueue_h) = Links /\ Kind(pcbfree_h) = Links
  /\ Kind(semd_h) = Nexts /\ Kind(semdFree_h) = Nexts
  /\ \A p \in PCB : Kind(child(p)) = Sibs
  /\ \A s \in Semd : Kind(procQ(s)) = Links
  /\ \A a \in AllHeads : Kind(a) \in {Links, Sibs, Nexts} /\ a \in Node /\ a \notin Kind(a)
                         /\ Kind(a) \subseteq Node
  BY NodeKinds, FixedHeads, Owner DEF Kind, AllHeads

(* What a finite set is mapped onto is finite.                              *)
LEMMA FiniteImage ==
  ASSUME NEW S, NEW T, NEW f, IsFiniteSet(S), f \in Surjection(S, T)
  PROVE  IsFiniteSet(T)
  BY FS_Surjection

(* There are finitely many nodes.                                           *)
LEMMA NodeFinite == IsFiniteSet(Node)
<1>1. IsFiniteSet(PCB) /\ IsFiniteSet(Semd)
  BY ListsAssumption, FS_CardinalityType, FS_Interval DEF Semd
<1>2. IsFiniteSet(Links)
  <2>1. [p \in PCB |-> link(p)] \in Surjection(PCB, Links)
    BY DEF Links, Surjection
  <2>. QED
    BY <1>1, <2>1, FiniteImage
<1>3. IsFiniteSet(Sibs)
  <2>1. [p \in PCB |-> sib(p)] \in Surjection(PCB, Sibs)
    BY DEF Sibs, Surjection
  <2>. QED
    BY <1>1, <2>1, FiniteImage
<1>4. IsFiniteSet(Children)
  <2>1. [p \in PCB |-> child(p)] \in Surjection(PCB, Children)
    BY DEF Children, Surjection
  <2>. QED
    BY <1>1, <2>1, FiniteImage
<1>5. IsFiniteSet(Nexts)
  <2>1. [s \in Semd |-> s_next(s)] \in Surjection(Semd, Nexts)
    BY DEF Nexts, Surjection
  <2>. QED
    BY <1>1, <2>1, FiniteImage
<1>6. IsFiniteSet(ProcQs)
  <2>1. [s \in Semd |-> procQ(s)] \in Surjection(Semd, ProcQs)
    BY DEF ProcQs, Surjection
  <2>. QED
    BY <1>1, <2>1, FiniteImage
<1>7. IsFiniteSet(Fixed)
  <2>1. Fixed = {readyQueue_h} \cup {pcbfree_h} \cup {semd_h} \cup {semdFree_h}
    BY DEF Fixed
  <2>. QED
    BY <2>1, FS_Singleton, FS_Union
<1>. QED
  BY <1>2, <1>3, <1>4, <1>5, <1>6, <1>7, NodeKinds, FS_Union DEF AllHeads

------------------------------------------------------------------------------
(* Several lists of one heap, each of its kind of nodes.                    *)

Queued(h, a, n) == On(list_for_each(h, a), n)

(* n is on none of the lists with heads in A.                               *)
Loose(h, A, n) == \A b \in A : ~ Queued(h, b, n)

(* The lists of h with heads in A are disjoint and each of its kind.        *)
Proper(h, A) ==
  /\ WellLinked(Node, Node \cup {NULL}, h, A)
  /\ A \subseteq AllHeads
  /\ \A a \in A : \A n : Queued(h, a, n) => n \in Kind(a)

(* All that changes from h to g is that n comes on the list of a, or that   *)
(* it goes from the list it is on.                                          *)
Gains(h, g, A, a, n) ==
  \A b \in A : \A m : Queued(g, b, m) <=> Queued(h, b, m) \/ (b = a /\ m = n)
Loses(h, g, A, n) == \A b \in A : \A m : Queued(g, b, m) <=> Queued(h, b, m) /\ m # n

(* A node on no list, and no head, is off each of them.                     *)
LEMMA LooseOff ==
  ASSUME NEW h, NEW A, NEW n, Proper(h, A), Loose(h, A, n), n \notin A
  PROVE  \A b \in A : Off(h, b, n)
  BY DEF Off, Loose, Queued

(* The nodes of a list are no heads.                                        *)
LEMMA HeadOrNot ==
  ASSUME NEW h, NEW A, Proper(h, A), NEW a \in A, NEW n \in Kind(a)
  PROVE  n \in Node /\ n \notin A /\ n \notin AllHeads
  BY KindOf, NodeKinds DEF Proper

(* Some of the lists are proper if all are.                                 *)
LEMMA FewerLists ==
  ASSUME NEW h, NEW A, NEW B, Proper(h, A), B \subseteq A
  PROVE  Proper(h, B)
  BY FewerHeads DEF Proper

(* No node is on two lists.                                                 *)
LEMMA Apartness ==
  ASSUME NEW h, NEW A, Proper(h, A), NEW a \in A, NEW b \in A, NEW n,
         Queued(h, a, n), Queued(h, b, n)
  PROVE  a = b
<1>1. WellLinked(Node, Node \cup {NULL}, h, A)
  BY DEF Proper
<1>2. SUFFICES ASSUME a # b PROVE FALSE
  OBVIOUS
<1>3. ~ (On(WithHead(a, list_for_each(h, a)), n) /\ On(WithHead(b, list_for_each(h, b)), n))
  BY <1>1, <1>2 DEF WellLinked
<1>4. list_for_each(h, a) \in Seq(Node) /\ list_for_each(h, b) \in Seq(Node) /\ a \in Node /\ b \in Node
  BY <1>1 DEF WellLinked
<1>. QED
  BY <1>3, <1>4, OnWithHead DEF Queued

(* A list is a sequence of different nodes.                                 *)
LEMMA ListType ==
  ASSUME NEW h, NEW A, NEW a, Proper(h, A), a \in A
  PROVE  /\ list_for_each(h, a) \in Seq(Node) /\ Len(list_for_each(h, a)) \in Nat
         /\ IsInjective(list_for_each(h, a))
<1>1. WellLinked(Node, Node \cup {NULL}, h, A)
  BY DEF Proper
<1>2. list_for_each(h, a) \in Seq(Node) /\ IsInjective(list_for_each(h, a))
  BY <1>1, NextOnList
<1>. QED
  BY <1>2

(* Where the head of a list leads.                                          *)
LEMMA HeadNext ==
  ASSUME NEW h, NEW A, NEW a, Proper(h, A), a \in A
  PROVE  /\ list_empty(h, a) <=> list_for_each(h, a) = <<>>
         /\ list_for_each(h, a) # <<>> =>
              h.next[a] = list_for_each(h, a)[1] /\ 1 \in 1 .. Len(list_for_each(h, a))
<1>1. WellLinked(Node, Node \cup {NULL}, h, A)
  BY DEF Proper
<1>2. /\ list_empty(h, a) <=> list_for_each(h, a) = <<>>
      /\ h.next[a] = IF list_for_each(h, a) = <<>> THEN a ELSE list_for_each(h, a)[1]
      /\ list_for_each(h, a) \in Seq(Node)
  BY <1>1, NextOnList
<1>. DEFINE t == list_for_each(h, a)
<1>. HIDE DEF t
<1>3. t \in Seq(Node) /\ t # <<>> => 1 \in 1 .. Len(t)
  OBVIOUS
<1>. QED
  BY <1>2, <1>3 DEF t

(* Where the nodes of a list lead.                                          *)
LEMMA NodeNext ==
  ASSUME NEW h, NEW A, NEW a, NEW i, Proper(h, A), a \in A, i \in 1 .. Len(list_for_each(h, a))
  PROVE  h.next[list_for_each(h, a)[i]] =
           IF i = Len(list_for_each(h, a)) THEN a ELSE list_for_each(h, a)[i + 1]
<1>1. WellLinked(Node, Node \cup {NULL}, h, A)
  BY DEF Proper
<1>. QED
  BY <1>1, NextOnList

(* next and prev agree.                                                     *)
LEMMA PrevNext ==
  ASSUME NEW h, NEW A, NEW a, NEW n, Proper(h, A), a \in A, n = a \/ Queued(h, a, n)
  PROVE  h.prev[h.next[n]] = n
<1>1. WellLinked(Node, Node \cup {NULL}, h, A)
  BY DEF Proper
<1>. QED
  BY <1>1, NextOnList DEF Queued

(* A list is empty if nothing is on it.                                     *)
LEMMA EmptyList ==
  ASSUME NEW h, NEW A, NEW a, Proper(h, A), a \in A
  PROVE  list_empty(h, a) <=> \A n : ~ Queued(h, a, n)
<1>. DEFINE t == list_for_each(h, a)
<1>1. (list_empty(h, a) <=> t = <<>>) /\ (t # <<>> => 1 \in 1 .. Len(t))
  BY HeadNext
<1>2. t = <<>> => \A n : ~ On(t, n)
  BY DEF On
<1>3. 1 \in 1 .. Len(t) => On(t, t[1])
  BY DEF On
<1>. QED
  BY <1>1, <1>2, <1>3 DEF Queued

(* From h to g, n comes behind the head or the i-th node of the list of a.  *)
AddsTo(h, g, A, a, i, n) ==
  /\ Proper(g, A) /\ Gains(h, g, A, a, n)
  /\ list_for_each(g, a) = Inserted(list_for_each(h, a), i, n)
  /\ SameLists(h, g, A \ {a})

(* The i-th node goes from the list of a, and n does, wherever it is there. *)
TakesAt(h, g, A, a, i) ==
  LET t == list_for_each(h, a)
  IN  /\ Proper(g, A) /\ Loses(h, g, A, t[i]) /\ Loose(g, A, t[i])
      /\ list_for_each(g, a) = Without(t, i)
      /\ SameLists(h, g, A \ {a})
      /\ g.next[t[i]] = h.next[t[i]]
Takes(h, g, A, a, n) ==
  \E i \in 1 .. Len(list_for_each(h, a)) :
    list_for_each(h, a)[i] = n /\ TakesAt(h, g, A, a, i)

(* There is one list more, an empty one.                                    *)
Opens(h, g, A, a) ==
  /\ Proper(g, A \cup {a}) /\ SameLists(h, g, A)
  /\ list_for_each(g, a) = <<>> /\ \A n : ~ Queued(g, a, n)

(* list_add of a node that is on no list.                                   *)
LEMMA Added ==
  ASSUME NEW h, NEW A, NEW a, NEW i, NEW n, Proper(h, A), a \in A,
         i \in 0 .. Len(list_for_each(h, a)), n \in Kind(a), Loose(h, A, n)
  PROVE  AddsTo(h, list_add(h, n, IF i = 0 THEN a ELSE list_for_each(h, a)[i]), A, a, i, n)
<1>. DEFINE t == list_for_each(h, a)
            g == list_add(h, n, IF i = 0 THEN a ELSE t[i])
<1>1. n \in Node /\ n \notin A
  BY HeadOrNot
<1>2. \A b \in A : Off(h, b, n)
  BY <1>1, LooseOff
<1>3. WellLinked(Node, Node \cup {NULL}, h, A)
  BY DEF Proper
<1>4. /\ WellLinked(Node, Node \cup {NULL}, g, A)
      /\ list_for_each(g, a) = Inserted(t, i, n)
      /\ SameLists(h, g, A \ {a})
  BY <1>1, <1>2, <1>3, AddNode
<1>5. t \in Seq(Node)
  BY ListType
<1>. HIDE DEF t, g
<1>6. i \in 0 .. Len(t)
  BY DEF t
<1>7. \A m : On(Inserted(t, i, n), m) <=> m = n \/ On(t, m)
  BY <1>1, <1>5, <1>6, OnInserted
<1>8. Gains(h, g, A, a, n)
  BY <1>4, <1>7 DEF Gains, Queued, SameLists, t
<1>9. Proper(g, A)
  BY <1>4, <1>8 DEF Proper, Gains
<1>. QED
  BY <1>4, <1>8, <1>9 DEF t, g, AddsTo

(* list_add behind the head.                                                *)
LEMMA AddedFirst ==
  ASSUME NEW h, NEW A, NEW a, NEW n, Proper(h, A), a \in A, n \in Kind(a), Loose(h, A, n)
  PROVE  AddsTo(h, list_add(h, n, a), A, a, 0, n)
<1>. DEFINE i == 0
            node == IF i = 0 THEN a ELSE list_for_each(h, a)[i]
<1>1. i \in 0 .. Len(list_for_each(h, a)) /\ node = a
  BY ListType
<1>. HIDE DEF i
<1>2. AddsTo(h, list_add(h, n, node), A, a, i, n)
  BY <1>1, Added
<1>. HIDE DEF node
<1>3. AddsTo(h, list_add(h, n, a), A, a, i, n)
  BY <1>1, <1>2
<1>. QED
  BY <1>3 DEF i

(* list_add_tail.                                                           *)
LEMMA AddedLast ==
  ASSUME NEW h, NEW A, NEW a, NEW n, Proper(h, A), a \in A, n \in Kind(a), Loose(h, A, n)
  PROVE  AddsTo(h, list_add_tail(h, n, a), A, a, Len(list_for_each(h, a)), n)
<1>. DEFINE t == list_for_each(h, a)
            g == list_add_tail(h, n, a)
            i == Len(t)
<1>1. n \in Node /\ n \notin A
  BY HeadOrNot
<1>2. \A b \in A : Off(h, b, n)
  BY <1>1, LooseOff
<1>3. WellLinked(Node, Node \cup {NULL}, h, A)
  BY DEF Proper
<1>4. /\ WellLinked(Node, Node \cup {NULL}, g, A)
      /\ list_for_each(g, a) = Inserted(t, i, n)
      /\ SameLists(h, g, A \ {a})
  BY <1>1, <1>2, <1>3, AddLast
<1>5. t \in Seq(Node) /\ Len(t) \in Nat
  BY ListType
<1>. HIDE DEF t, g
<1>6. i \in 0 .. Len(t)
  BY <1>5
<1>. HIDE DEF i
<1>7. \A m : On(Inserted(t, i, n), m) <=> m = n \/ On(t, m)
  BY <1>1, <1>5, <1>6, OnInserted
<1>8. Gains(h, g, A, a, n)
  BY <1>4, <1>7 DEF Gains, Queued, SameLists, t
<1>9. Proper(g, A)
  BY <1>4, <1>8 DEF Proper, Gains
<1>. QED
  BY <1>4, <1>8, <1>9 DEF t, g, i, AddsTo

(* list_del of the i-th node of a list.                                     *)
LEMMA Deleted ==
  ASSUME NEW h, NEW A, NEW a, NEW i, Proper(h, A), a \in A, i \in 1 .. Len(list_for_each(h, a))
  PROVE  TakesAt(h, list_del(h, list_for_each(h, a)[i]), A, a, i)
<1>. DEFINE t == list_for_each(h, a)
            g == list_del(h, t[i])
<1>3. WellLinked(Node, Node \cup {NULL}, h, A)
  BY DEF Proper
<1>4. /\ WellLinked(Node, Node \cup {NULL}, g, A)
      /\ list_for_each(g, a) = Without(t, i)
      /\ SameLists(h, g, A \ {a})
      /\ g.next[t[i]] = h.next[t[i]]
  <2>1. Unlinks(Node, Node \cup {NULL}, h, list_del(h, list_for_each(h, a)[i]), A, a, i)
    BY <1>3, DeleteNode
  <2>. QED
    BY <2>1 DEF Unlinks
<1>5. t \in Seq(Node) /\ IsInjective(t)
  BY ListType
<1>10. \A b \in A \ {a} : ~ Queued(h, b, t[i])
  <2>1. Queued(h, a, t[i])
    BY DEF Queued, On
  <2>. HIDE DEF t
  <2>. QED
    BY <2>1, Apartness
<1>. HIDE DEF t, g
<1>6. i \in 1 .. Len(t)
  BY DEF t
<1>7. \A m : On(Without(t, i), m) <=> On(t, m) /\ m # t[i]
  BY <1>5, <1>6, OnWithout
<1>8. Loses(h, g, A, t[i])
  <2>1. ASSUME NEW m PROVE Queued(g, a, m) <=> Queued(h, a, m) /\ m # t[i]
    BY <1>4, <1>7 DEF Queued, t
  <2>2. ASSUME NEW b \in A \ {a}, NEW m PROVE Queued(g, b, m) <=> Queued(h, b, m) /\ m # t[i]
    BY <1>4, <1>10 DEF Queued, SameLists
  <2>. QED
    BY <2>1, <2>2 DEF Loses
<1>9. Proper(g, A) /\ Loose(g, A, t[i])
  BY <1>4, <1>8 DEF Proper, Loses, Loose
<1>. QED
  BY <1>4, <1>8, <1>9 DEF t, g, TakesAt

(* The same for a node known to be on the list.                             *)
LEMMA DeletedNode ==
  ASSUME NEW h, NEW A, NEW a, NEW n, Proper(h, A), a \in A, Queued(h, a, n)
  PROVE  Takes(h, list_del(h, n), A, a, n)
<1>1. PICK i \in 1 .. Len(list_for_each(h, a)) : list_for_each(h, a)[i] = n
  BY DEF Queued, On
<1>2. TakesAt(h, list_del(h, list_for_each(h, a)[i]), A, a, i)
  BY Deleted
<1>. QED
  BY <1>1, <1>2 DEF Takes

(* What a node taken from its list leaves.                                  *)
LEMMA TakenSets ==
  ASSUME NEW h, NEW g, NEW A, NEW a, NEW n, Takes(h, g, A, a, n)
  PROVE  /\ Proper(g, A) /\ Loses(h, g, A, n) /\ Loose(g, A, n)
         /\ SameLists(h, g, A \ {a}) /\ g.next[n] = h.next[n]
  BY DEF Takes, TakesAt

(* INIT_LIST_HEAD of a head that was none.                                  *)
LEMMA NewOne ==
  ASSUME NEW h, NEW A, NEW a, Proper(h, A), a \in AllHeads \ A
  PROVE  Opens(h, INIT_LIST_HEAD(h, a), A, a)
<1>. DEFINE g == INIT_LIST_HEAD(h, a)
<1>1. WellLinked(Node, Node \cup {NULL}, h, A)
  BY DEF Proper
<1>2. a \in Node /\ \A b \in A : a \notin Kind(b)
  BY NodeKinds, KindOf DEF Proper
<1>3. \A b \in A : Off(h, b, a)
  BY <1>2 DEF Off, Proper, Queued
<1>4. /\ WellLinked(Node, Node \cup {NULL}, g, A \cup {a})
      /\ list_for_each(g, a) = <<>>
      /\ SameLists(h, g, A)
  BY <1>1, <1>2, <1>3, NewHead
<1>. HIDE DEF g
<1>5. \A n : ~ Queued(g, a, n)
  BY <1>4 DEF Queued, On
<1>6. Proper(g, A \cup {a})
  BY <1>4, <1>5 DEF Proper, SameLists, Queued
<1>. QED
  BY <1>4, <1>5, <1>6 DEF g, Opens

(* A node that is on no list may be set to lead to itself.                  *)
LEMMA SetApart ==
  ASSUME NEW h, NEW A, NEW n, Proper(h, A), n \in Node \ A, Loose(h, A, n)
  PROVE  Proper(INIT_LIST_HEAD(h, n), A) /\ SameLists(h, INIT_LIST_HEAD(h, n), A)
<1>. DEFINE g == INIT_LIST_HEAD(h, n)
<1>1. WellLinked(Node, Node \cup {NULL}, h, A)
  BY DEF Proper
<1>2. \A b \in A : Off(h, b, n)
  BY LooseOff
<1>3. WellLinked(Node, Node \cup {NULL}, g, A \cup {n}) /\ SameLists(h, g, A)
  BY <1>1, <1>2, NewHead
<1>. HIDE DEF g
<1>4. WellLinked(Node, Node \cup {NULL}, g, A)
  BY <1>3, FewerHeads
<1>5. Proper(g, A)
  BY <1>3, <1>4 DEF Proper, SameLists, Queued
<1>. QED
  BY <1>3, <1>5 DEF g

------------------------------------------------------------------------------
(* The lists of Lists: which there are in a heap, and what ties them to the *)
(* variables.                                                               *)

Free(h, p) == Queued(h, pcbfree_h, link(p))
Active(h, s) == Queued(h, semd_h, s_next(s))

(* The heads of the lists there are in h.                                   *)
ListHeads(h) ==
  Fixed \cup {child(p) : p \in {q \in PCB : ~ Free(h, q)}}
        \cup {procQ(s) : s \in {r \in Semd : Active(h, r)}}

Shape(h) ==
  /\ Proper(h, ListHeads(h))
  /\ Len(list_for_each(h, semd_h)) + Len(list_for_each(h, semdFree_h)) = MAXPROC

(* Descriptors have keys of their own, and the processes on their queues    *)
(* are those that wait for the key, one at least.                           *)
Queues(h, semkey, key) ==
  /\ \A s \in Semd : Active(h, s) => key[s] \in Key /\ \E p \in PCB : semkey[p] = key[s]
  /\ \A s, r \in Semd : Active(h, s) /\ Active(h, r) /\ key[s] = key[r] => s = r
  /\ \A s \in Semd, p \in PCB : Active(h, s) => (Queued(h, procQ(s), link(p)) <=> semkey[p] = key[s])
  /\ \A p \in PCB : semkey[p] # NULL => \E s \in Semd : Active(h, s) /\ key[s] = semkey[p]

(* The children of an allocated PCB have it as their parent.                *)
Tree(h, parent) ==
  \A q, c \in PCB : ~ Free(h, q) /\ Queued(h, child(q), sib(c)) => parent[c] = q

(* Which heads there are.                                                   *)
LEMMA ListHeadsAre ==
  ASSUME NEW h
  PROVE  /\ Fixed \subseteq ListHeads(h) /\ ListHeads(h) \subseteq AllHeads
         /\ readyQueue_h \in ListHeads(h) /\ pcbfree_h \in ListHeads(h)
         /\ semd_h \in ListHeads(h) /\ semdFree_h \in ListHeads(h)
         /\ \A p \in PCB : child(p) \in ListHeads(h) <=> ~ Free(h, p)
         /\ \A s \in Semd : procQ(s) \in ListHeads(h) <=> Active(h, s)
<1>1. /\ Fixed \subseteq ListHeads(h) /\ ListHeads(h) \subseteq AllHeads
      /\ readyQueue_h \in ListHeads(h) /\ pcbfree_h \in ListHeads(h)
      /\ semd_h \in ListHeads(h) /\ semdFree_h \in ListHeads(h)
  BY Owner, FixedHeads DEF ListHeads, AllHeads
<1>2. \A p \in PCB : child(p) \in ListHeads(h) <=> ~ Free(h, p)
  <2>1. ASSUME NEW p \in PCB, child(p) \in ListHeads(h) PROVE ~ Free(h, p)
    <3>1. child(p) \notin Fixed /\ child(p) \notin ProcQs
      BY NodeKinds, Owner
    <3>2. PICK q \in {q \in PCB : ~ Free(h, q)} : child(p) = child(q)
      BY <2>1, <3>1, Owner DEF ListHeads
    <3>. QED
      BY <3>2, Owner
  <2>. QED
    BY <2>1 DEF ListHeads
<1>3. \A s \in Semd : procQ(s) \in ListHeads(h) <=> Active(h, s)
  <2>1. ASSUME NEW s \in Semd, procQ(s) \in ListHeads(h) PROVE Active(h, s)
    <3>1. procQ(s) \notin Fixed /\ procQ(s) \notin Children
      BY NodeKinds, Owner
    <3>2. PICK r \in {r \in Semd : Active(h, r)} : procQ(s) = procQ(r)
      BY <2>1, <3>1, Owner DEF ListHeads
    <3>. QED
      BY <3>2, Owner
  <2>. QED
    BY <2>1 DEF ListHeads
<1>. QED
  BY <1>1, <1>2, <1>3

(* A head is one of these.                                                  *)
LEMMA WhichHead ==
  ASSUME NEW h, NEW a \in ListHeads(h)
  PROVE  \/ a \in Fixed
         \/ \E p \in PCB : a = child(p) /\ ~ Free(h, p)
         \/ \E s \in Semd : a = procQ(s) /\ Active(h, s)
  BY DEF ListHeads

(* The heads change only with the free PCBs and the active descriptors.     *)
LEMMA SameHeads ==
  ASSUME NEW h, NEW g, \A p \in PCB : Free(g, p) <=> Free(h, p),
         \A s \in Semd : Active(g, s) <=> Active(h, s)
  PROVE  ListHeads(g) = ListHeads(h)
  BY DEF ListHeads

(* The owners of a list.                                                    *)
LEMMA OwnersAre ==
  ASSUME NEW h, NEW A, NEW a, Proper(h, A), a \in A
  PROVE  /\ Len(Owners(h, a)) = Len(list_for_each(h, a))
         /\ DOMAIN Owners(h, a) = 1 .. Len(list_for_each(h, a))
         /\ \A i \in 1 .. Len(list_for_each(h, a)) :
              Owners(h, a)[i] = container_of(list_for_each(h, a)[i])
<1>. DEFINE t == list_for_each(h, a)
<1>1. t \in Seq(Node) /\ Len(t) \in Nat
  BY ListType
<1>2. Owners(h, a) = [i \in DOMAIN t |-> container_of(t[i])]
  BY DEF Owners
<1>. HIDE DEF t
<1>3. DOMAIN t = 1 .. Len(t)
  BY <1>1
<1>. DEFINE u == [i \in 1 .. Len(t) |-> container_of(t[i])]
<1>5. Len(u) = Len(t) /\ DOMAIN u = 1 .. Len(t)
  BY <1>1
<1>6. Owners(h, a) = u
  BY <1>2, <1>3
<1>. QED
  BY <1>5, <1>6 DEF t

(* The owners of a list, as a set.                                          *)
LEMMA OwnersSet ==
  ASSUME NEW h, NEW A, NEW a, Proper(h, A), a \in A
  PROVE  ToSet(Owners(h, a)) = {container_of(n) : n \in {m \in Kind(a) : Queued(h, a, m)}}
<1>. DEFINE t == list_for_each(h, a)
<1>1. /\ DOMAIN Owners(h, a) = 1 .. Len(t)
      /\ \A i \in 1 .. Len(t) : Owners(h, a)[i] = container_of(t[i])
  BY OwnersAre
<1>2. \A n : Queued(h, a, n) => n \in Kind(a)
  BY DEF Proper
<1>3. \A n : Queued(h, a, n) <=> \E i \in 1 .. Len(t) : t[i] = n
  BY DEF Queued, On
<1>. HIDE DEF t
<1>. QED
  BY <1>1, <1>2, <1>3 DEF ToSet

(* The same for a queue.                                                    *)
LEMMA LinkOwners ==
  ASSUME NEW h, NEW A, NEW a, Proper(h, A), a \in A, Kind(a) = Links
  PROVE  ToSet(Owners(h, a)) = {p \in PCB : Queued(h, a, link(p))}
  BY OwnersSet, Owner

(* The same for a list of children.                                         *)
LEMMA SibOwners ==
  ASSUME NEW h, NEW A, NEW a, Proper(h, A), a \in A, Kind(a) = Sibs
  PROVE  ToSet(Owners(h, a)) = {p \in PCB : Queued(h, a, sib(p))}
  BY OwnersSet, Owner

(* The same for a list of descriptors.                                      *)
LEMMA NextOwners ==
  ASSUME NEW h, NEW A, NEW a, Proper(h, A), a \in A, Kind(a) = Nexts
  PROVE  ToSet(Owners(h, a)) = {s \in Semd : Queued(h, a, s_next(s))}
  BY OwnersSet, Owner

(* The same for every list of Lists.                                        *)
LEMMA ShapeOwners ==
  ASSUME NEW h, Shape(h)
  PROVE  /\ ToSet(Owners(h, pcbfree_h)) = {p \in PCB : Free(h, p)}
         /\ ToSet(Owners(h, readyQueue_h)) = {p \in PCB : Queued(h, readyQueue_h, link(p))}
         /\ ToSet(Owners(h, semd_h)) = {s \in Semd : Active(h, s)}
         /\ \A p \in PCB : ~ Free(h, p) =>
              ToSet(Owners(h, child(p))) = {c \in PCB : Queued(h, child(p), sib(c))}
         /\ \A s \in Semd : Active(h, s) =>
              ToSet(Owners(h, procQ(s))) = {p \in PCB : Queued(h, procQ(s), link(p))}
<1>1. Proper(h, ListHeads(h))
  BY DEF Shape
<1>2. /\ ToSet(Owners(h, pcbfree_h)) = {p \in PCB : Free(h, p)}
      /\ ToSet(Owners(h, readyQueue_h)) = {p \in PCB : Queued(h, readyQueue_h, link(p))}
  BY <1>1, LinkOwners, ListHeadsAre, KindOf DEF Free
<1>3. ToSet(Owners(h, semd_h)) = {s \in Semd : Active(h, s)}
  BY <1>1, NextOwners, ListHeadsAre, KindOf DEF Active
<1>4. ASSUME NEW p \in PCB, ~ Free(h, p)
      PROVE  ToSet(Owners(h, child(p))) = {c \in PCB : Queued(h, child(p), sib(c))}
  BY <1>1, <1>4, SibOwners, ListHeadsAre, KindOf
<1>5. ASSUME NEW s \in Semd, Active(h, s)
      PROVE  ToSet(Owners(h, procQ(s))) = {p \in PCB : Queued(h, procQ(s), link(p))}
  BY <1>1, <1>5, LinkOwners, ListHeadsAre, KindOf
<1>. QED
  BY <1>2, <1>3, <1>4, <1>5
------------------------------------------------------------------------------

(* A set of naturals has a least element.                                   *)
LEMMA LeastIn ==
  ASSUME NEW S, S \subseteq Nat, S # {}
  PROVE  \E i \in S : \A j \in S : i <= j
<1>. DEFINE LT == {ss \in Nat \X Nat : ss[1] < ss[2]}
<1>1. IsWellFoundedOn(LT, Nat)
  BY NatLessThanWellFounded DEF OpToRel
<1>2. \A m, n \in Nat : m < n => <<m, n>> \in LT
  OBVIOUS
<1>. HIDE DEF LT
<1>3. PICK x \in S : \A y \in S : ~ (<<y, x>> \in LT)
  BY <1>1, WFMin
<1>4. x \in Nat /\ \A y \in S : y \in Nat /\ ~ (y < x)
  BY <1>2, <1>3
<1>5. \A y \in S : x <= y
  BY <1>4
<1>. QED
  BY <1>3, <1>5

(* getSemd for any heap and keys.                                           *)
SemdOf(h, key, k) ==
  LET active == Owners(h, semd_h)
      found(i) == key[active[i]] = k
  IN  IF \E i \in DOMAIN active : found(i)
      THEN active[CHOOSE i \in DOMAIN active : found(i) /\ \A j \in 1 .. i - 1 : ~ found(j)]
      ELSE 0

(* getSemd finds an active descriptor of the key, or none if there is none. *)
LEMMA GetSemd ==
  ASSUME NEW h, NEW key, NEW k, Shape(h)
  PROVE  \/ SemdOf(h, key, k) = 0 /\ \A s \in Semd : Active(h, s) => key[s] # k
         \/ /\ SemdOf(h, key, k) \in Semd /\ SemdOf(h, key, k) # 0
            /\ Active(h, SemdOf(h, key, k)) /\ key[SemdOf(h, key, k)] = k
<1>. DEFINE active == Owners(h, semd_h)
            found(i) == key[active[i]] = k
            first == CHOOSE i \in DOMAIN active : found(i) /\ \A j \in 1 .. i - 1 : ~ found(j)
<1>1. ToSet(active) = {s \in Semd : Active(h, s)}
  BY ShapeOwners
<1>2. DOMAIN active = 1 .. Len(list_for_each(h, semd_h)) /\ Len(list_for_each(h, semd_h)) \in Nat
  BY OwnersAre, ListType, ListHeadsAre DEF Shape
<1>3. SemdOf(h, key, k) = IF \E i \in DOMAIN active : found(i) THEN active[first] ELSE 0
  BY DEF SemdOf
<1>4. 0 \notin Semd
  BY ListsAssumption, FS_CardinalityType DEF Semd
<1>. HIDE DEF active
<1>5. \A s \in Semd : Active(h, s) <=> \E i \in DOMAIN active : active[i] = s
  BY <1>1 DEF ToSet
<1>6. \A i \in DOMAIN active : active[i] \in Semd /\ Active(h, active[i])
  BY <1>1 DEF ToSet
<1>7. CASE \E i \in DOMAIN active : found(i)
  <2>. DEFINE S == {i \in DOMAIN active : found(i)}
  <2>1. S \subseteq Nat /\ S # {}
    BY <1>2, <1>7
  <2>2. PICK i \in S : \A j \in S : i <= j
    <3>. HIDE DEF S
    <3>. QED
      BY <2>1, LeastIn
  <2>3. i \in DOMAIN active /\ found(i) /\ \A j \in 1 .. i - 1 : ~ found(j)
    <3>1. ASSUME NEW j \in 1 .. i - 1, found(j) PROVE FALSE
      <4>1. i \in 1 .. Len(list_for_each(h, semd_h))
        BY <1>2, <2>2
      <4>2. j \in DOMAIN active /\ ~ (i <= j)
        BY <1>2, <4>1
      <4>. QED
        BY <2>2, <3>1, <4>2
    <3>. HIDE DEF found
    <3>. QED
      BY <2>2, <3>1
  <2>4. first \in DOMAIN active /\ found(first)
    <3>. HIDE DEF found
    <3>. QED
      BY <2>3
  <2>. HIDE DEF first
  <2>. QED
    BY <1>3, <1>4, <1>6, <1>7, <2>4
<1>8. CASE ~ \E i \in DOMAIN active : found(i)
  BY <1>3, <1>5, <1>8
<1>. QED
  BY <1>7, <1>8

(* SemdOf is getSemd.                                                       *)
LEMMA GetSemdOf ==
  ASSUME NEW h, NEW k
  PROVE  getSemd(h, k) = SemdOf(h, s_key, k)
  BY DEF getSemd, SemdOf

(* Keys are on one descriptor, so that is the one found.                    *)
LEMMA SemdFound ==
  ASSUME NEW h, NEW semkey, NEW key, NEW s, Shape(h), Queues(h, semkey, key),
         s \in Semd, Active(h, s)
  PROVE  SemdOf(h, key, key[s]) = s
<1>1. \A r \in Semd : Active(h, r) /\ key[r] = key[s] => r = s
  BY DEF Queues
<1>. QED
  BY <1>1, GetSemd

(* A process that is nowhere: not free, not ready and waiting for nothing.  *)
LEMMA HeldLoose ==
  ASSUME NEW h, NEW semkey, NEW key, NEW p \in PCB, Shape(h), Queues(h, semkey, key),
         ~ Free(h, p), ~ Queued(h, readyQueue_h, link(p)), semkey[p] = NULL
  PROVE  Loose(h, ListHeads(h), link(p))
<1>1. Proper(h, ListHeads(h))
  BY DEF Shape
<1>2. SUFFICES ASSUME NEW a \in ListHeads(h), Queued(h, a, link(p)) PROVE FALSE
  BY DEF Loose
<1>3. link(p) \in Kind(a) /\ link(p) \in Links /\ link(p) \notin Sibs /\ link(p) \notin Nexts
  BY <1>1, <1>2, Owner, NodeKinds DEF Proper
<1>4. CASE a \in Fixed
  BY <1>2, <1>3, <1>4, KindOf, FixedHeads DEF Free
<1>5. CASE \E q \in PCB : a = child(q)
  BY <1>3, <1>5, KindOf
<1>6. CASE \E s \in Semd : a = procQ(s) /\ Active(h, s)
  <2>1. PICK s \in Semd : a = procQ(s) /\ Active(h, s)
    BY <1>6
  <2>2. semkey[p] = key[s] /\ key[s] \in Key
    BY <1>2, <2>1 DEF Queues
  <2>. QED
    BY <2>2, ListsAssumption
<1>. QED
  BY <1>4, <1>5, <1>6, WhichHead

(* A process that is a child of nobody.                                     *)
LEMMA SibLoose ==
  ASSUME NEW h, NEW c \in PCB, Shape(h),
         \A q \in PCB : ~ Free(h, q) => ~ Queued(h, child(q), sib(c))
  PROVE  Loose(h, ListHeads(h), sib(c))
<1>1. Proper(h, ListHeads(h))
  BY DEF Shape
<1>2. SUFFICES ASSUME NEW a \in ListHeads(h), Queued(h, a, sib(c)) PROVE FALSE
  BY DEF Loose
<1>3. sib(c) \in Kind(a) /\ sib(c) \in Sibs /\ sib(c) \notin Links /\ sib(c) \notin Nexts
  BY <1>1, <1>2, Owner, NodeKinds DEF Proper
<1>4. CASE a \in Fixed
  BY <1>2, <1>3, <1>4, KindOf, FixedHeads
<1>5. CASE \E q \in PCB : a = child(q) /\ ~ Free(h, q)
  BY <1>2, <1>5
<1>6. CASE \E s \in Semd : a = procQ(s) /\ Active(h, s)
  BY <1>3, <1>6, KindOf
<1>. QED
  BY <1>4, <1>5, <1>6, WhichHead

------------------------------------------------------------------------------
(* What each function does to the heap.                                     *)

(* From h to g no PCB is allocated or freed, and no descriptor.             *)
Frame(h, g) ==
  /\ Shape(g) /\ ListHeads(g) = ListHeads(h)
  /\ \A p \in PCB : Free(g, p) <=> Free(h, p)
  /\ \A s \in Semd : Active(g, s) <=> Active(h, s)

(* The queues of blocked processes, and the lists of children, are in g     *)
(* what they are in h, as sets.                                             *)
SameQueues(h, g) ==
  \A s \in Semd, p \in PCB : Active(h, s) =>
    (Queued(g, procQ(s), link(p)) <=> Queued(h, procQ(s), link(p)))
SameChildren(h, g) ==
  \A q, c \in PCB : ~ Free(h, q) => (Queued(g, child(q), sib(c)) <=> Queued(h, child(q), sib(c)))

(* Nothing is allocated or freed if the lists of free PCBs and of           *)
(* descriptors stay.                                                        *)
LEMMA FrameOf ==
  ASSUME NEW h, NEW g, Shape(h), Proper(g, ListHeads(h)),
         list_for_each(g, pcbfree_h) = list_for_each(h, pcbfree_h),
         list_for_each(g, semd_h) = list_for_each(h, semd_h),
         list_for_each(g, semdFree_h) = list_for_each(h, semdFree_h)
  PROVE  Frame(h, g)
<1>1. /\ \A p \in PCB : Free(g, p) <=> Free(h, p)
      /\ \A s \in Semd : Active(g, s) <=> Active(h, s)
  BY DEF Free, Active, Queued
<1>2. ListHeads(g) = ListHeads(h)
  BY <1>1, SameHeads
<1>. QED
  BY <1>1, <1>2 DEF Frame, Shape

(* Putting a node on any other list allocates and frees nothing.            *)
LEMMA FrameAdd ==
  ASSUME NEW h, NEW g, NEW a, NEW i, NEW n, Shape(h), AddsTo(h, g, ListHeads(h), a, i, n),
         a \notin {pcbfree_h, semd_h, semdFree_h}
  PROVE  Frame(h, g)
  BY FrameOf, ListHeadsAre DEF AddsTo, SameLists

(* Nor does taking one from it.                                             *)
LEMMA FrameTake ==
  ASSUME NEW h, NEW g, NEW a, NEW n, Shape(h), Takes(h, g, ListHeads(h), a, n),
         a \notin {pcbfree_h, semd_h, semdFree_h}
  PROVE  Frame(h, g)
<1>1. Proper(g, ListHeads(h)) /\ SameLists(h, g, ListHeads(h) \ {a})
  BY TakenSets
<1>. QED
  BY <1>1, FrameOf, ListHeadsAre DEF SameLists

(* Queues that stay remain right.                                           *)
LEMMA QueuesFrame ==
  ASSUME NEW h, NEW g, NEW semkey, NEW key, Frame(h, g), SameQueues(h, g), Queues(h, semkey, key)
  PROVE  Queues(g, semkey, key)
  BY DEF Frame, SameQueues, Queues

(* Lists of children that stay remain right.                                *)
LEMMA TreeFrame ==
  ASSUME NEW h, NEW g, NEW parent, Frame(h, g), SameChildren(h, g), Tree(h, parent)
  PROVE  Tree(g, parent)
  BY DEF Frame, SameChildren, Tree

(* What is added to or taken from one kind of lists leaves the others.      *)
LEMMA AddsElsewhere ==
  ASSUME NEW h, NEW g, NEW a, NEW i, NEW n, AddsTo(h, g, ListHeads(h), a, i, n)
  PROVE  /\ a \notin ProcQs \/ n \notin Links => SameQueues(h, g)
         /\ a \notin Children \/ n \notin Sibs => SameChildren(h, g)
<1>1. Gains(h, g, ListHeads(h), a, n)
  BY DEF AddsTo
<1>2. ASSUME NEW s \in Semd, NEW p \in PCB, Active(h, s), a \notin ProcQs \/ n \notin Links
      PROVE  Queued(g, procQ(s), link(p)) <=> Queued(h, procQ(s), link(p))
  <2>1. procQ(s) \in ListHeads(h) /\ procQ(s) \in ProcQs /\ link(p) \in Links
    BY <1>2, ListHeadsAre, Owner
  <2>. QED
    BY <1>1, <1>2, <2>1 DEF Gains
<1>3. ASSUME NEW q \in PCB, NEW c \in PCB, ~ Free(h, q), a \notin Children \/ n \notin Sibs
      PROVE  Queued(g, child(q), sib(c)) <=> Queued(h, child(q), sib(c))
  <2>1. child(q) \in ListHeads(h) /\ child(q) \in Children /\ sib(c) \in Sibs
    BY <1>3, ListHeadsAre, Owner
  <2>. QED
    BY <1>1, <1>3, <2>1 DEF Gains
<1>. QED
  BY <1>2, <1>3 DEF SameQueues, SameChildren

(* The same for a node taken.                                               *)
LEMMA TakesElsewhere ==
  ASSUME NEW h, NEW g, NEW a, NEW n, a \in ListHeads(h), Shape(h), Takes(h, g, ListHeads(h), a, n)
  PROVE  /\ a \notin ProcQs => SameQueues(h, g)
         /\ a \notin Children => SameChildren(h, g)
<1>1. SameLists(h, g, ListHeads(h) \ {a})
  BY TakenSets
<1>2. ASSUME NEW s \in Semd, NEW p \in PCB, Active(h, s), a \notin ProcQs
      PROVE  Queued(g, procQ(s), link(p)) <=> Queued(h, procQ(s), link(p))
  <2>1. procQ(s) \in ListHeads(h) /\ procQ(s) \in ProcQs
    BY <1>2, ListHeadsAre, Owner
  <2>. QED
    BY <1>1, <1>2, <2>1 DEF SameLists, Queued
<1>3. ASSUME NEW q \in PCB, NEW c \in PCB, ~ Free(h, q), a \notin Children
      PROVE  Queued(g, child(q), sib(c)) <=> Queued(h, child(q), sib(c))
  <2>1. child(q) \in ListHeads(h) /\ child(q) \in Children
    BY <1>3, ListHeadsAre, Owner
  <2>. QED
    BY <1>1, <1>3, <2>1 DEF SameLists, Queued
<1>. QED
  BY <1>2, <1>3 DEF SameQueues, SameChildren

(* The lists of a heap of the right shape.                                  *)
LEMMA ShapeProper ==
  ASSUME NEW h, Shape(h)
  PROVE  Proper(h, ListHeads(h))
  BY DEF Shape

(* allocPcb.                                                                *)
Unfree(h, p) ==
  INIT_LIST_HEAD(INIT_LIST_HEAD(INIT_LIST_HEAD(list_del(h, link(p)), link(p)), child(p)), sib(p))

(* From h to g the PCB p is taken from the free list and gets a list of     *)
(* children, an empty one.                                                  *)
Allocates(h, g, p) ==
  /\ Shape(g)
  /\ ListHeads(g) = ListHeads(h) \cup {child(p)}
  /\ \A q \in PCB : Free(g, q) <=> Free(h, q) /\ q # p
  /\ list_for_each(g, child(p)) = <<>> /\ \A n : ~ Queued(g, child(p), n)
  /\ SameLists(h, g, ListHeads(h) \ {pcbfree_h})
  /\ \E i \in 1 .. Len(list_for_each(h, pcbfree_h)) :
       /\ list_for_each(h, pcbfree_h)[i] = link(p)
       /\ list_for_each(g, pcbfree_h) = Without(list_for_each(h, pcbfree_h), i)

(* What allocPcb does to the heap.                                          *)
LEMMA AllocHeap ==
  ASSUME NEW h, NEW p \in PCB, Shape(h), Free(h, p), Loose(h, ListHeads(h), sib(p))
  PROVE  Allocates(h, Unfree(h, p), p)
<1>. DEFINE A == ListHeads(h)
            h1 == list_del(h, link(p))
            h2 == INIT_LIST_HEAD(h1, link(p))
            h3 == INIT_LIST_HEAD(h2, child(p))
            g == INIT_LIST_HEAD(h3, sib(p))
            B == A \cup {child(p)}
<1>1. Proper(h, A) /\ pcbfree_h \in A /\ child(p) \notin A /\ child(p) \in AllHeads
  BY ListHeadsAre, Owner DEF Shape, AllHeads
<1>2. Takes(h, h1, A, pcbfree_h, link(p))
  BY <1>1, DeletedNode DEF Free
<1>3. /\ Proper(h1, A) /\ Loses(h, h1, A, link(p)) /\ Loose(h1, A, link(p))
      /\ SameLists(h, h1, A \ {pcbfree_h})
  BY <1>2, TakenSets
<1>4. link(p) \in Node \ A /\ sib(p) \in Node \ B /\ A \subseteq AllHeads
  BY <1>1, ListHeadsAre, NodeKinds, Owner
<1>. HIDE DEF A, h1, h2, h3, g
<1>5. Proper(h2, A) /\ SameLists(h1, h2, A)
  BY <1>3, <1>4, SetApart DEF h2
<1>6. Opens(h2, h3, A, child(p))
  BY <1>1, <1>5, NewOne DEF h3
<1>7. /\ Proper(h3, B) /\ SameLists(h2, h3, A)
      /\ list_for_each(h3, child(p)) = <<>> /\ \A n : ~ Queued(h3, child(p), n)
  BY <1>6 DEF Opens
<1>8. Loose(h3, B, sib(p))
  <2>1. \A b \in A : ~ Queued(h, b, sib(p))
    BY DEF Loose, A
  <2>2. \A b \in A : ~ Queued(h1, b, sib(p))
    BY <1>3, <2>1 DEF Loses
  <2>3. \A b \in A : ~ Queued(h3, b, sib(p))
    BY <1>5, <1>7, <2>2 DEF SameLists, Queued
  <2>. QED
    BY <1>7, <2>3 DEF Loose
<1>. HIDE DEF B
<1>9. Proper(g, B) /\ SameLists(h3, g, B)
  BY <1>4, <1>7, <1>8, SetApart DEF g
<1>10. /\ \A b \in A : list_for_each(g, b) = list_for_each(h1, b)
       /\ list_for_each(g, child(p)) = <<>> /\ \A n : ~ Queued(g, child(p), n)
  BY <1>5, <1>7, <1>9 DEF SameLists, B, Queued
<1>11. SameLists(h, g, A \ {pcbfree_h})
  BY <1>3, <1>10 DEF SameLists
<1>12. \A q \in PCB : Free(g, q) <=> Free(h, q) /\ q # p
  BY <1>1, <1>3, <1>10, Owner DEF Free, Loses, Queued
<1>13. \A s \in Semd : Active(g, s) <=> Active(h, s)
  BY <1>11, ListHeadsAre, FixedHeads DEF Active, Queued, SameLists, A
<1>14. ListHeads(g) = B
  BY <1>12, <1>13 DEF ListHeads, A, B
<1>15. /\ list_for_each(g, semd_h) = list_for_each(h, semd_h)
       /\ list_for_each(g, semdFree_h) = list_for_each(h, semdFree_h)
  BY <1>11, ListHeadsAre, FixedHeads DEF SameLists, A
<1>16. Shape(g)
  BY <1>9, <1>14, <1>15 DEF Shape
<1>17. \E i \in 1 .. Len(list_for_each(h, pcbfree_h)) :
         /\ list_for_each(h, pcbfree_h)[i] = link(p)
         /\ list_for_each(g, pcbfree_h) = Without(list_for_each(h, pcbfree_h), i)
  BY <1>1, <1>2, <1>10 DEF Takes, TakesAt
<1>18. Allocates(h, g, p)
  BY <1>10, <1>11, <1>12, <1>14, <1>16, <1>17 DEF Allocates, A, B
<1>. QED
  BY <1>18 DEF g, h3, h2, h1, Unfree

(* Inserted is one longer.                                                  *)
LEMMA LenInserted ==
  ASSUME NEW N, NEW t, NEW i, NEW n, t \in Seq(N), i \in 0 .. Len(t), n \in N
  PROVE  Len(Inserted(t, i, n)) = Len(t) + 1
  BY InsertedType

(* Without is one shorter.                                                  *)
LEMMA LenWithout ==
  ASSUME NEW N, NEW t, NEW i, t \in Seq(N), i \in 1 .. Len(t)
  PROVE  Len(Without(t, i)) = Len(t) - 1
  BY WithoutType

(* How the length of a list changes.                                        *)
LEMMA AddsLen ==
  ASSUME NEW h, NEW g, NEW A, NEW a, NEW n, Proper(h, A), a \in A, n \in Kind(a),
         AddsTo(h, g, A, a, 0, n)
  PROVE  Len(list_for_each(g, a)) = Len(list_for_each(h, a)) + 1
<1>1. list_for_each(h, a) \in Seq(Node) /\ Len(list_for_each(h, a)) \in Nat /\ n \in Node
  BY ListType, HeadOrNot
<1>2. 0 \in 0 .. Len(list_for_each(h, a))
  BY <1>1
<1>3. list_for_each(g, a) = Inserted(list_for_each(h, a), 0, n)
  BY DEF AddsTo
<1>. QED
  BY <1>1, <1>2, <1>3, LenInserted

(* The same for a node taken.                                               *)
LEMMA TakesLen ==
  ASSUME NEW h, NEW g, NEW A, NEW a, NEW n, Proper(h, A), a \in A, Takes(h, g, A, a, n)
  PROVE  Len(list_for_each(g, a)) = Len(list_for_each(h, a)) - 1
<1>1. list_for_each(h, a) \in Seq(Node)
  BY ListType
<1>2. PICK i \in 1 .. Len(list_for_each(h, a)) : list_for_each(g, a) = Without(list_for_each(h, a), i)
  BY DEF Takes, TakesAt
<1>. QED
  BY <1>1, <1>2, LenWithout

(* freePcb: p goes to the front of the free list, and its children are no   *)
(* longer a list.                                                           *)
Releases(h, g, p) ==
  /\ Shape(g)
  /\ ListHeads(g) = ListHeads(h) \ {child(p)}
  /\ \A q \in PCB : Free(g, q) <=> Free(h, q) \/ q = p
  /\ SameLists(h, g, ListHeads(h) \ {pcbfree_h})
  /\ list_for_each(g, pcbfree_h) = Inserted(list_for_each(h, pcbfree_h), 0, link(p))

(* What freePcb does to the heap.                                           *)
LEMMA FreeHeap ==
  ASSUME NEW h, NEW p \in PCB, Shape(h), Loose(h, ListHeads(h), link(p))
  PROVE  Releases(h, list_add(h, link(p), pcbfree_h), p)
<1>. DEFINE A == ListHeads(h)
            g == list_add(h, link(p), pcbfree_h)
<1>1. Proper(h, A) /\ pcbfree_h \in A /\ link(p) \in Kind(pcbfree_h)
  BY ListHeadsAre, Owner, KindOf DEF Shape
<1>2. AddsTo(h, g, A, pcbfree_h, 0, link(p))
  BY <1>1, AddedFirst
<1>. HIDE DEF A, g
<1>3. /\ Proper(g, A) /\ Gains(h, g, A, pcbfree_h, link(p))
      /\ list_for_each(g, pcbfree_h) = Inserted(list_for_each(h, pcbfree_h), 0, link(p))
      /\ SameLists(h, g, A \ {pcbfree_h})
  BY <1>2 DEF AddsTo
<1>4. \A q \in PCB : Free(g, q) <=> Free(h, q) \/ q = p
  BY <1>1, <1>3, Owner DEF Free, Gains
<1>5. /\ list_for_each(g, semd_h) = list_for_each(h, semd_h)
      /\ list_for_each(g, semdFree_h) = list_for_each(h, semdFree_h)
  BY <1>3, ListHeadsAre, FixedHeads DEF SameLists, A
<1>6. \A s \in Semd : Active(g, s) <=> Active(h, s)
  BY <1>5 DEF Active, Queued
<1>7. ListHeads(g) = A \ {child(p)}
  <2>1. ASSUME NEW a PROVE a \in ListHeads(g) <=> a \in A /\ a # child(p)
    <3>1. CASE a \in Fixed
      BY <3>1, ListHeadsAre, NodeKinds, Owner DEF A
    <3>2. CASE a \in Children
      <4>1. PICK q \in PCB : a = child(q)
        BY <3>2 DEF Children
      <4>2. (a \in ListHeads(g) <=> ~ Free(g, q)) /\ (a \in A <=> ~ Free(h, q))
        BY <4>1, ListHeadsAre DEF A
      <4>3. a = child(p) <=> q = p
        BY <4>1, Owner
      <4>. QED
        BY <1>4, <4>2, <4>3
    <3>3. CASE a \in ProcQs
      <4>1. PICK s \in Semd : a = procQ(s)
        BY <3>3 DEF ProcQs
      <4>2. (a \in ListHeads(g) <=> Active(g, s)) /\ (a \in A <=> Active(h, s))
        BY <4>1, ListHeadsAre DEF A
      <4>3. a # child(p)
        BY <3>3, NodeKinds, Owner
      <4>. QED
        BY <1>6, <4>2, <4>3
    <3>4. a \in ListHeads(g) \/ a \in A => a \in AllHeads
      BY ListHeadsAre DEF A
    <3>. QED
      BY <3>1, <3>2, <3>3, <3>4 DEF AllHeads
  <2>. QED
    BY <2>1
<1>8. Proper(g, ListHeads(g))
  BY <1>3, <1>7, FewerLists
<1>9. Shape(g)
  BY <1>5, <1>8 DEF Shape
<1>. QED
  BY <1>3, <1>4, <1>7, <1>9 DEF Releases, g, A

(* insertBlocked with a new descriptor.                                     *)
Claim(h, new, p) ==
  list_add(list_add(INIT_LIST_HEAD(list_del(h, s_next(new)), procQ(new)), s_next(new), semd_h),
           link(p), procQ(new))

(* From h to g descriptor new comes into use, with p alone on its queue.    *)
Claims(h, g, new, p) ==
  /\ Shape(g)
  /\ ListHeads(g) = ListHeads(h) \cup {procQ(new)}
  /\ \A s \in Semd : Active(g, s) <=> Active(h, s) \/ s = new
  /\ \A n : Queued(g, procQ(new), n) <=> n = link(p)
  /\ list_for_each(g, procQ(new)) = Inserted(<<>>, 0, link(p))
  /\ SameLists(h, g, ListHeads(h) \ {semd_h, semdFree_h})
  /\ Len(list_for_each(g, semdFree_h)) = Len(list_for_each(h, semdFree_h)) - 1

(* What insertBlocked does to the heap when the semaphore has no            *)
(* descriptor.                                                              *)
LEMMA ClaimHeap ==
  ASSUME NEW h, NEW new \in Semd, NEW p \in PCB, Shape(h),
         Queued(h, semdFree_h, s_next(new)), Loose(h, ListHeads(h), link(p))
  PROVE  Claims(h, Claim(h, new, p), new, p)
<1>. DEFINE A == ListHeads(h)
            B == A \cup {procQ(new)}
            h1 == list_del(h, s_next(new))
            h2 == INIT_LIST_HEAD(h1, procQ(new))
            h3 == list_add(h2, s_next(new), semd_h)
            g == list_add(h3, link(p), procQ(new))
<1>1. Proper(h, A) /\ semd_h \in A /\ semdFree_h \in A /\ A \subseteq AllHeads
  BY ListHeadsAre DEF Shape
<1>2. procQ(new) \in AllHeads \ A
  <2>1. ~ Active(h, new)
    BY <1>1, Apartness, FixedHeads DEF Active
  <2>. QED
    BY <2>1, ListHeadsAre, Owner DEF AllHeads
<1>3. /\ s_next(new) \in Kind(semd_h) /\ link(p) \in Kind(procQ(new)) /\ s_next(new) # link(p)
      /\ procQ(new) # semd_h
  BY Owner, KindOf, NodeKinds, FixedHeads
<1>4. Takes(h, h1, A, semdFree_h, s_next(new))
  BY <1>1, DeletedNode
<1>. HIDE DEF A, h1, h2, h3, g
<1>5. /\ Proper(h1, A) /\ Loses(h, h1, A, s_next(new)) /\ Loose(h1, A, s_next(new))
      /\ SameLists(h, h1, A \ {semdFree_h})
  BY <1>4, TakenSets
<1>6. Len(list_for_each(h1, semdFree_h)) = Len(list_for_each(h, semdFree_h)) - 1
  BY <1>1, <1>4, TakesLen
<1>7. Opens(h1, h2, A, procQ(new))
  BY <1>2, <1>5, NewOne DEF h2
<1>8. /\ Proper(h2, B) /\ SameLists(h1, h2, A)
      /\ list_for_each(h2, procQ(new)) = <<>> /\ \A n : ~ Queued(h2, procQ(new), n)
  BY <1>7 DEF Opens
<1>9. Loose(h2, B, s_next(new))
  BY <1>5, <1>8 DEF Loose, SameLists, Queued
<1>10. semd_h \in B /\ procQ(new) \in B /\ semdFree_h \in B
  BY <1>1
<1>. HIDE DEF B
<1>11. AddsTo(h2, h3, B, semd_h, 0, s_next(new))
  BY <1>3, <1>8, <1>9, <1>10, AddedFirst DEF h3
<1>12. /\ Proper(h3, B) /\ Gains(h2, h3, B, semd_h, s_next(new))
       /\ SameLists(h2, h3, B \ {semd_h})
  BY <1>11 DEF AddsTo
<1>13. Loose(h3, B, link(p))
  <2>1. \A b \in A : ~ Queued(h1, b, link(p))
    BY <1>5 DEF Loose, Loses, A
  <2>2. \A b \in B : ~ Queued(h2, b, link(p))
    BY <1>8, <2>1 DEF SameLists, Queued, B
  <2>. QED
    BY <1>3, <1>12, <2>2 DEF Loose, Gains
<1>14. AddsTo(h3, g, B, procQ(new), 0, link(p))
  BY <1>3, <1>10, <1>12, <1>13, AddedFirst DEF g
<1>15. /\ Proper(g, B) /\ Gains(h3, g, B, procQ(new), link(p))
       /\ list_for_each(g, procQ(new)) = Inserted(list_for_each(h3, procQ(new)), 0, link(p))
       /\ SameLists(h3, g, B \ {procQ(new)})
  BY <1>14 DEF AddsTo
<1>16. list_for_each(h3, procQ(new)) = <<>>
  BY <1>3, <1>8, <1>10, <1>12 DEF SameLists
<1>17. \A n : Queued(g, procQ(new), n) <=> n = link(p)
  BY <1>8, <1>3, <1>10, <1>12, <1>15 DEF Gains
<1>18. SameLists(h, g, A \ {semd_h, semdFree_h})
  <2>1. ASSUME NEW b \in A \ {semd_h, semdFree_h}
        PROVE  list_for_each(g, b) = list_for_each(h, b)
    <3>1. b \in B /\ b # procQ(new)
      BY <1>2 DEF B
    <3>. QED
      BY <1>5, <1>8, <1>12, <1>15, <3>1 DEF SameLists
  <2>. QED
    BY <2>1 DEF SameLists
<1>19. list_for_each(g, semdFree_h) = list_for_each(h1, semdFree_h)
  <2>1. semdFree_h # semd_h /\ semdFree_h # procQ(new)
    BY <1>1, <1>2, FixedHeads
  <2>. QED
    BY <1>1, <1>8, <1>10, <1>12, <1>15, <2>1 DEF SameLists
<1>20. Len(list_for_each(g, semd_h)) = Len(list_for_each(h, semd_h)) + 1
  <2>1. Len(list_for_each(h3, semd_h)) = Len(list_for_each(h2, semd_h)) + 1
    BY <1>3, <1>8, <1>10, <1>11, AddsLen
  <2>2. list_for_each(h2, semd_h) = list_for_each(h, semd_h)
    BY <1>1, <1>5, <1>8, FixedHeads DEF SameLists
  <2>3. list_for_each(g, semd_h) = list_for_each(h3, semd_h)
    BY <1>3, <1>10, <1>15 DEF SameLists
  <2>. QED
    BY <2>1, <2>2, <2>3
<1>21. \A s \in Semd : Active(g, s) <=> Active(h, s) \/ s = new
  <2>1. ASSUME NEW s \in Semd PROVE Queued(g, semd_h, s_next(s)) <=> Queued(h, semd_h, s_next(s)) \/ s = new
    <3>1. Queued(g, semd_h, s_next(s)) <=> Queued(h3, semd_h, s_next(s))
      BY <1>3, <1>10, <1>15 DEF Gains
    <3>2. Queued(h3, semd_h, s_next(s)) <=> Queued(h2, semd_h, s_next(s)) \/ s = new
      BY <1>10, <1>12, Owner DEF Gains
    <3>3. list_for_each(h2, semd_h) = list_for_each(h, semd_h)
      BY <1>1, <1>5, <1>8, FixedHeads DEF SameLists
    <3>. QED
      BY <3>1, <3>2, <3>3 DEF Queued
  <2>. QED
    BY <2>1 DEF Active
<1>22. \A q \in PCB : Free(g, q) <=> Free(h, q)
  BY <1>18, ListHeadsAre, FixedHeads DEF Free, Queued, SameLists, A
<1>23. ListHeads(g) = B
  BY <1>21, <1>22 DEF ListHeads, A, B
<1>24. Shape(g)
  <2>1. Proper(g, ListHeads(g))
    BY <1>15, <1>23
  <2>2. /\ Len(list_for_each(h, semd_h)) + Len(list_for_each(h, semdFree_h)) = MAXPROC
        /\ Len(list_for_each(h, semd_h)) \in Nat /\ Len(list_for_each(h, semdFree_h)) \in Nat
    BY <1>1, ListType DEF Shape
  <2>3. Len(list_for_each(g, semd_h)) + Len(list_for_each(g, semdFree_h)) = MAXPROC
    BY <1>6, <1>19, <1>20, <2>2
  <2>. QED
    BY <2>1, <2>3 DEF Shape
<1>25. Claims(h, g, new, p)
  BY <1>6, <1>15, <1>16, <1>17, <1>18, <1>19, <1>21, <1>23, <1>24 DEF Claims, A, B
<1>. QED
  BY <1>25 DEF g, h3, h2, h1, Claim

(* From h to g descriptor s, on whose queue p was alone, goes out of use.   *)
Retires(h, g, s, p) ==
  /\ Shape(g)
  /\ ListHeads(g) = ListHeads(h) \ {procQ(s)}
  /\ \A r \in Semd : Active(g, r) <=> Active(h, r) /\ r # s
  /\ \A n : Queued(h, procQ(s), n) <=> n = link(p)
  /\ SameLists(h, g, ListHeads(h) \ {procQ(s), semd_h, semdFree_h})
  /\ Len(list_for_each(g, semdFree_h)) = Len(list_for_each(h, semdFree_h)) + 1

(* What the end of the last wait for a semaphore does to the heap.          *)
LEMMA RetireHeap ==
  ASSUME NEW h, NEW s \in Semd, NEW p \in PCB, Shape(h), Active(h, s),
         Queued(h, procQ(s), link(p)), list_empty(list_del(h, link(p)), procQ(s))
  PROVE  Retires(h, list_add(list_del(list_del(h, link(p)), s_next(s)), s_next(s), semdFree_h), s, p)
<1>. DEFINE A == ListHeads(h)
            h1 == list_del(h, link(p))
            h2 == list_del(h1, s_next(s))
            g == list_add(h2, s_next(s), semdFree_h)
<1>1. /\ Proper(h, A) /\ semd_h \in A /\ semdFree_h \in A /\ procQ(s) \in A /\ pcbfree_h \in A
      /\ A \subseteq AllHeads
  BY ListHeadsAre DEF Shape
<1>2. /\ s_next(s) \in Kind(semdFree_h) /\ s_next(s) # link(p)
      /\ procQ(s) \notin Fixed /\ semd_h \in Fixed /\ semdFree_h \in Fixed /\ pcbfree_h \in Fixed
  BY Owner, KindOf, NodeKinds, FixedHeads
<1>3. Takes(h, h1, A, procQ(s), link(p))
  BY <1>1, DeletedNode
<1>. HIDE DEF A, h1, h2, g
<1>4. /\ Proper(h1, A) /\ Loses(h, h1, A, link(p)) /\ SameLists(h, h1, A \ {procQ(s)})
  BY <1>3, TakenSets
<1>5. \A n : Queued(h, procQ(s), n) <=> n = link(p)
  <2>1. \A n : ~ Queued(h1, procQ(s), n)
    BY <1>1, <1>4, EmptyList DEF h1
  <2>. QED
    BY <1>1, <1>4, <2>1 DEF Loses
<1>6. Queued(h1, semd_h, s_next(s))
  BY <1>1, <1>2, <1>4 DEF SameLists, Queued, Active
<1>7. Takes(h1, h2, A, semd_h, s_next(s))
  BY <1>1, <1>4, <1>6, DeletedNode DEF h2
<1>8. /\ Proper(h2, A) /\ Loses(h1, h2, A, s_next(s)) /\ Loose(h2, A, s_next(s))
      /\ SameLists(h1, h2, A \ {semd_h})
  BY <1>7, TakenSets
<1>9. AddsTo(h2, g, A, semdFree_h, 0, s_next(s))
  BY <1>1, <1>2, <1>8, AddedFirst DEF g
<1>10. Proper(g, A) /\ Gains(h2, g, A, semdFree_h, s_next(s)) /\ SameLists(h2, g, A \ {semdFree_h})
  BY <1>9 DEF AddsTo
<1>11. SameLists(h, g, A \ {procQ(s), semd_h, semdFree_h})
  BY <1>4, <1>8, <1>10 DEF SameLists
<1>12. Len(list_for_each(g, semdFree_h)) = Len(list_for_each(h, semdFree_h)) + 1
  <2>1. Len(list_for_each(g, semdFree_h)) = Len(list_for_each(h2, semdFree_h)) + 1
    BY <1>1, <1>2, <1>8, <1>9, AddsLen
  <2>2. list_for_each(h2, semdFree_h) = list_for_each(h, semdFree_h)
    BY <1>1, <1>2, <1>4, <1>8, FixedHeads DEF SameLists
  <2>. QED
    BY <2>1, <2>2
<1>13. Len(list_for_each(g, semd_h)) = Len(list_for_each(h, semd_h)) - 1
  <2>1. Len(list_for_each(h2, semd_h)) = Len(list_for_each(h1, semd_h)) - 1
    BY <1>1, <1>4, <1>7, TakesLen
  <2>2. list_for_each(h1, semd_h) = list_for_each(h, semd_h)
    BY <1>1, <1>2, <1>4 DEF SameLists
  <2>3. list_for_each(g, semd_h) = list_for_each(h2, semd_h)
    BY <1>1, <1>10, FixedHeads DEF SameLists
  <2>. QED
    BY <2>1, <2>2, <2>3
<1>14. \A r \in Semd : Active(g, r) <=> Active(h, r) /\ r # s
  <2>1. ASSUME NEW r \in Semd
        PROVE  Queued(g, semd_h, s_next(r)) <=> Queued(h, semd_h, s_next(r)) /\ r # s
    <3>1. Queued(g, semd_h, s_next(r)) <=> Queued(h2, semd_h, s_next(r))
      BY <1>1, <1>10, FixedHeads DEF Gains
    <3>2. Queued(h2, semd_h, s_next(r)) <=> Queued(h1, semd_h, s_next(r)) /\ r # s
      BY <1>1, <1>8, Owner DEF Loses
    <3>3. list_for_each(h1, semd_h) = list_for_each(h, semd_h)
      BY <1>1, <1>2, <1>4 DEF SameLists
    <3>. QED
      BY <3>1, <3>2, <3>3 DEF Queued
  <2>. QED
    BY <2>1 DEF Active
<1>15. \A q \in PCB : Free(g, q) <=> Free(h, q)
  BY <1>1, <1>2, <1>11, FixedHeads DEF Free, Queued, SameLists
<1>16. ListHeads(g) = A \ {procQ(s)}
  <2>1. ASSUME NEW a PROVE a \in ListHeads(g) <=> a \in A /\ a # procQ(s)
    <3>1. CASE a \in Fixed
      BY <3>1, <1>2, ListHeadsAre DEF A
    <3>2. CASE a \in Children
      <4>1. PICK q \in PCB : a = child(q)
        BY <3>2 DEF Children
      <4>2. (a \in ListHeads(g) <=> ~ Free(g, q)) /\ (a \in A <=> ~ Free(h, q))
        BY <4>1, ListHeadsAre DEF A
      <4>3. a # procQ(s)
        BY <3>2, NodeKinds, Owner
      <4>. QED
        BY <1>15, <4>2, <4>3
    <3>3. CASE a \in ProcQs
      <4>1. PICK r \in Semd : a = procQ(r)
        BY <3>3 DEF ProcQs
      <4>2. (a \in ListHeads(g) <=> Active(g, r)) /\ (a \in A <=> Active(h, r))
        BY <4>1, ListHeadsAre DEF A
      <4>3. a = procQ(s) <=> r = s
        BY <4>1, Owner
      <4>. QED
        BY <1>14, <4>2, <4>3
    <3>4. a \in ListHeads(g) \/ a \in A => a \in AllHeads
      BY ListHeadsAre DEF A
    <3>. QED
      BY <3>1, <3>2, <3>3, <3>4 DEF AllHeads
  <2>. QED
    BY <2>1
<1>17. Shape(g)
  <2>1. Proper(g, ListHeads(g))
    BY <1>10, <1>16, FewerLists
  <2>2. /\ Len(list_for_each(h, semd_h)) + Len(list_for_each(h, semdFree_h)) = MAXPROC
        /\ Len(list_for_each(h, semd_h)) \in Nat /\ Len(list_for_each(h, semdFree_h)) \in Nat
    BY <1>1, ListType DEF Shape
  <2>3. Len(list_for_each(g, semd_h)) + Len(list_for_each(g, semdFree_h)) = MAXPROC
    BY <1>12, <1>13, <2>2
  <2>. QED
    BY <2>1, <2>3 DEF Shape
<1>18. Retires(h, g, s, p)
  BY <1>5, <1>11, <1>12, <1>14, <1>16, <1>17 DEF Retires, A
<1>. QED
  BY <1>18 DEF g, h2, h1

(* unlinked for any heap, keys and process.                                 *)
Unlink(h, key, k, p) ==
  LET s == SemdOf(h, key, k)
      left == list_del(h, link(p))
  IN  IF list_empty(left, procQ(s))
      THEN list_add(list_del(left, s_next(s)), s_next(s), semdFree_h)
      ELSE left

(* Unlink is unlinked.                                                      *)
LEMMA UnlinkedOf ==
  ASSUME NEW h, NEW p
  PROVE  unlinked(h, p) = Unlink(h, s_key, p_semkey[p], p)
  BY GetSemdOf DEF unlinked, Unlink

(* p goes from the queue of s, and s with it if that leaves nobody.         *)
Leaves(h, g, s, p) ==
  \/ /\ Takes(h, g, ListHeads(h), procQ(s), link(p)) /\ Frame(h, g)
     /\ ~ list_empty(g, procQ(s))
  \/ Retires(h, g, s, p)

(* What the end of a wait does to the heap.                                 *)
LEMMA UnlinkHeap ==
  ASSUME NEW h, NEW semkey, NEW key, NEW p \in PCB, Shape(h), Queues(h, semkey, key),
         semkey[p] # NULL
  PROVE  LET s == SemdOf(h, key, semkey[p])
         IN  /\ s \in Semd /\ s # 0 /\ Active(h, s) /\ key[s] = semkey[p] /\ Queued(h, procQ(s), link(p))
             /\ Leaves(h, Unlink(h, key, semkey[p], p), s, p)
<1>. DEFINE s == SemdOf(h, key, semkey[p])
            g == Unlink(h, key, semkey[p], p)
            left == list_del(h, link(p))
<1>1. s \in Semd /\ s # 0 /\ Active(h, s) /\ key[s] = semkey[p]
  <2>1. \E r \in Semd : Active(h, r) /\ key[r] = semkey[p]
    BY DEF Queues
  <2>. QED
    BY <2>1, GetSemd
<1>2. g = IF list_empty(left, procQ(s))
          THEN list_add(list_del(left, s_next(s)), s_next(s), semdFree_h) ELSE left
  BY DEF Unlink
<1>. HIDE DEF s, g
<1>3. Queued(h, procQ(s), link(p))
  BY <1>1 DEF Queues
<1>4. CASE list_empty(left, procQ(s))
  <2>1. Retires(h, g, s, p)
    BY <1>1, <1>2, <1>3, <1>4, RetireHeap
  <2>. QED
    BY <1>1, <1>3, <2>1 DEF Leaves, s, g
<1>5. CASE ~ list_empty(left, procQ(s))
  <2>1. Proper(h, ListHeads(h)) /\ procQ(s) \in ListHeads(h)
    BY <1>1, ListHeadsAre DEF Shape
  <2>2. Takes(h, g, ListHeads(h), procQ(s), link(p))
    BY <1>2, <1>3, <1>5, <2>1, DeletedNode
  <2>3. procQ(s) \notin {pcbfree_h, semd_h, semdFree_h}
    BY <1>1, Owner, NodeKinds, FixedHeads
  <2>4. Frame(h, g)
    BY <2>2, <2>3, FrameTake
  <2>. QED
    BY <1>1, <1>2, <1>3, <1>5, <2>2, <2>4 DEF Leaves, s, g
<1>. QED
  BY <1>4, <1>5

(* The lists p is not on.                                                   *)
LEMMA LeavesOthers ==
  ASSUME NEW h, NEW g, NEW s \in Semd, NEW p \in PCB, Shape(h), Active(h, s), Leaves(h, g, s, p)
  PROVE  /\ SameLists(h, g, ListHeads(h) \ {procQ(s), semd_h, semdFree_h})
         /\ \A q \in PCB : Free(g, q) <=> Free(h, q)
         /\ list_for_each(g, readyQueue_h) = list_for_each(h, readyQueue_h)
         /\ list_for_each(g, pcbfree_h) = list_for_each(h, pcbfree_h)
         /\ SameChildren(h, g)
<1>1. SameLists(h, g, ListHeads(h) \ {procQ(s), semd_h, semdFree_h})
  <2>1. CASE Takes(h, g, ListHeads(h), procQ(s), link(p))
    BY <2>1, TakenSets DEF SameLists
  <2>2. CASE Retires(h, g, s, p)
    BY <2>2 DEF Retires
  <2>. QED
    BY <2>1, <2>2 DEF Leaves
<1>2. procQ(s) \notin Fixed /\ procQ(s) \notin Children
  BY Owner, NodeKinds
<1>3. /\ list_for_each(g, readyQueue_h) = list_for_each(h, readyQueue_h)
      /\ list_for_each(g, pcbfree_h) = list_for_each(h, pcbfree_h)
  BY <1>1, <1>2, ListHeadsAre, FixedHeads DEF SameLists
<1>4. \A q \in PCB : ~ Free(h, q) => list_for_each(g, child(q)) = list_for_each(h, child(q))
  <2>1. ASSUME NEW q \in PCB, ~ Free(h, q)
        PROVE  list_for_each(g, child(q)) = list_for_each(h, child(q))
    <3>1. child(q) \in ListHeads(h) /\ child(q) \in Children
      BY <2>1, ListHeadsAre, Owner
    <3>2. child(q) \notin {procQ(s), semd_h, semdFree_h}
      BY <1>2, <3>1, NodeKinds, FixedHeads
    <3>. QED
      BY <1>1, <3>1, <3>2 DEF SameLists
  <2>. QED
    BY <2>1
<1>. QED
  BY <1>1, <1>3, <1>4 DEF SameChildren, Free, Queued

(* The queues are right when p waits no longer.                             *)
LEMMA LeavesQueues ==
  ASSUME NEW h, NEW g, NEW semkey, NEW key, NEW s \in Semd, NEW p \in PCB,
         semkey \in [PCB -> Key \cup {NULL}], Shape(h), Queues(h, semkey, key), Active(h, s),
         key[s] = semkey[p], Leaves(h, g, s, p)
  PROVE  Shape(g) /\ Queues(g, [semkey EXCEPT ![p] = NULL], key)
<1>. DEFINE k1 == [semkey EXCEPT ![p] = NULL]
<1>1. \A q \in PCB : k1[q] = IF q = p THEN NULL ELSE semkey[q]
  OBVIOUS
<1>2. NULL \notin Key /\ key[s] \in Key
  BY ListsAssumption DEF Queues
<1>. HIDE DEF k1
<1>3. CASE Takes(h, g, ListHeads(h), procQ(s), link(p)) /\ Frame(h, g) /\ ~ list_empty(g, procQ(s))
  <2>1. Loses(h, g, ListHeads(h), link(p)) /\ Proper(g, ListHeads(h))
    BY <1>3, TakenSets
  <2>2. /\ Shape(g) /\ ListHeads(g) = ListHeads(h)
        /\ \A r \in Semd : Active(g, r) <=> Active(h, r)
    BY <1>3 DEF Frame
  <2>3. \A r \in Semd, q \in PCB : Active(h, r) =>
          (Queued(g, procQ(r), link(q)) <=> Queued(h, procQ(r), link(q)) /\ q # p)
    BY <2>1, ListHeadsAre, Owner DEF Loses
  <2>4. \E q \in PCB : Queued(g, procQ(s), link(q))
    <3>1. procQ(s) \in ListHeads(h) /\ Kind(procQ(s)) = Links
      BY ListHeadsAre, KindOf
    <3>2. PICK n : Queued(g, procQ(s), n)
      BY <1>3, <2>1, <3>1, EmptyList
    <3>3. n \in Links
      BY <2>1, <3>1, <3>2 DEF Proper
    <3>. QED
      BY <3>2, <3>3, Owner
  <2>5. \A r \in Semd, q \in PCB : Active(h, r) => (Queued(g, procQ(r), link(q)) <=> k1[q] = key[r])
    BY <1>1, <1>2, <2>3 DEF Queues
  <2>6. ASSUME NEW r \in Semd, Active(h, r) PROVE key[r] \in Key /\ \E q \in PCB : k1[q] = key[r]
    <3>1. CASE r = s
      BY <1>2, <2>4, <2>5, <3>1
    <3>2. CASE r # s
      <4>1. PICK q \in PCB : semkey[q] = key[r]
        BY <2>6 DEF Queues
      <4>2. q # p
        BY <2>6, <3>2, <4>1 DEF Queues
      <4>. QED
        BY <1>1, <2>6, <4>1, <4>2 DEF Queues
    <3>. QED
      BY <3>1, <3>2
  <2>7. \A q \in PCB : k1[q] # NULL => \E r \in Semd : Active(h, r) /\ key[r] = k1[q]
    BY <1>1 DEF Queues
  <2>8. \A r, t \in Semd : Active(h, r) /\ Active(h, t) /\ key[r] = key[t] => r = t
    BY DEF Queues
  <2>9. Queues(g, k1, key)
    BY <2>2, <2>5, <2>6, <2>7, <2>8 DEF Queues
  <2>. QED
    BY <2>2, <2>9 DEF k1
<1>4. CASE Retires(h, g, s, p)
  <2>1. /\ Shape(g)
        /\ \A r \in Semd : Active(g, r) <=> Active(h, r) /\ r # s
        /\ \A n : Queued(h, procQ(s), n) <=> n = link(p)
        /\ SameLists(h, g, ListHeads(h) \ {procQ(s), semd_h, semdFree_h})
    BY <1>4 DEF Retires
  <2>2. \A q \in PCB : semkey[q] = key[s] => q = p
    BY <2>1, Owner DEF Queues
  <2>3. \A r \in Semd, q \in PCB : Active(h, r) /\ r # s =>
          (Queued(g, procQ(r), link(q)) <=> Queued(h, procQ(r), link(q)))
    <3>1. ASSUME NEW r \in Semd, Active(h, r), r # s
          PROVE  list_for_each(g, procQ(r)) = list_for_each(h, procQ(r))
      <4>1. procQ(r) \in ListHeads(h) /\ procQ(r) # procQ(s) /\ procQ(r) \notin Fixed
        BY <3>1, ListHeadsAre, Owner, NodeKinds
      <4>. QED
        BY <2>1, <4>1, FixedHeads DEF SameLists
    <3>. QED
      BY <3>1 DEF Queued
  <2>4. \A r \in Semd : Active(h, r) /\ r # s => key[r] # key[s]
    BY DEF Queues
  <2>5. \A r \in Semd, q \in PCB : Active(h, r) /\ r # s =>
          (Queued(g, procQ(r), link(q)) <=> k1[q] = key[r])
    BY <1>1, <1>2, <2>3, <2>4 DEF Queues
  <2>6. ASSUME NEW r \in Semd, Active(h, r), r # s
        PROVE  key[r] \in Key /\ \E q \in PCB : k1[q] = key[r]
    <3>1. PICK q \in PCB : semkey[q] = key[r]
      BY <2>6 DEF Queues
    <3>2. q # p
      BY <2>4, <2>6, <3>1
    <3>. QED
      BY <1>1, <2>6, <3>1, <3>2 DEF Queues
  <2>7. ASSUME NEW q \in PCB, k1[q] # NULL PROVE \E r \in Semd : Active(g, r) /\ key[r] = k1[q]
    <3>1. q # p /\ k1[q] = semkey[q]
      BY <1>1, <2>7
    <3>2. PICK r \in Semd : Active(h, r) /\ key[r] = semkey[q]
      BY <2>7, <3>1 DEF Queues
    <3>3. r # s
      BY <2>2, <3>1, <3>2
    <3>. QED
      BY <2>1, <3>1, <3>2, <3>3
  <2>8. \A r, t \in Semd : Active(h, r) /\ Active(h, t) /\ key[r] = key[t] => r = t
    BY DEF Queues
  <2>9. Queues(g, k1, key)
    BY <2>1, <2>5, <2>6, <2>7, <2>8 DEF Queues
  <2>. QED
    BY <2>1, <2>9 DEF k1
<1>. QED
  BY <1>3, <1>4 DEF Leaves

------------------------------------------------------------------------------
(* The inductive invariant and the steps: for each function a lemma that    *)
(* says what its step does, Step..., and one that says that it preserves    *)
(* the invariant, Inv...                                                    *)

ListsTypeOK ==
  /\ scope \in Scope
  /\ p_parent \in [PCB -> PCB \cup {NULL}]
  /\ p_semkey \in [PCB -> Key \cup {NULL}]
  /\ s_key \in [Semd -> Key \cup {NULL}]

(* The inductive invariant.                                                 *)
ListsInv ==
  /\ ListsTypeOK
  /\ Shape(heap)
  /\ Queues(heap, p_semkey, s_key)
  /\ Tree(heap, p_parent)
  /\ pos # NULL => Queued(heap, readyQueue_h, pos)

(* allocated and Held, in terms of the lists.                               *)
LEMMA AllocatedAre ==
  ASSUME Shape(heap)
  PROVE  /\ allocated = {p \in PCB : ~ Free(heap, p)}
         /\ \A p \in PCB : Held(p) <=>
              p_semkey[p] = NULL /\ ~ Free(heap, p) /\ ~ Queued(heap, readyQueue_h, link(p))
  BY ShapeOwners DEF allocated, Held

(* A process held by a handler is in no queue.                              *)
LEMMA HeldIsLoose ==
  ASSUME ListsInv, NEW p \in PCB, Held(p)
  PROVE  Loose(heap, ListHeads(heap), link(p)) /\ ~ Free(heap, p) /\ p_semkey[p] = NULL
  BY AllocatedAre, HeldLoose DEF ListsInv

(* Whatever is first on a list.                                             *)
LEMMA FirstOn ==
  ASSUME NEW h, NEW A, NEW a, Proper(h, A), a \in A, ~ list_empty(h, a)
  PROVE  /\ 1 \in 1 .. Len(list_for_each(h, a)) /\ h.next[a] = list_for_each(h, a)[1]
         /\ Queued(h, a, h.next[a]) /\ h.next[a] \in Kind(a)
<1>. DEFINE t == list_for_each(h, a)
<1>1. 1 \in 1 .. Len(t) /\ h.next[a] = t[1]
  BY HeadNext
<1>2. Queued(h, a, h.next[a])
  BY <1>1 DEF Queued, On
<1>. QED
  BY <1>1, <1>2 DEF Proper

(* Whatever is first on a queue.                                            *)
LEMMA FirstLink ==
  ASSUME NEW h, NEW A, NEW a, Proper(h, A), a \in A, ~ list_empty(h, a), Kind(a) = Links
  PROVE  /\ container_of(h.next[a]) \in PCB /\ h.next[a] = link(container_of(h.next[a]))
         /\ Queued(h, a, link(container_of(h.next[a])))
  BY FirstOn, Owner

(* Whatever is first on a list of descriptors.                              *)
LEMMA FirstNext ==
  ASSUME NEW h, NEW A, NEW a, Proper(h, A), a \in A, ~ list_empty(h, a), Kind(a) = Nexts
  PROVE  /\ container_of(h.next[a]) \in Semd /\ h.next[a] = s_next(container_of(h.next[a]))
         /\ Queued(h, a, s_next(container_of(h.next[a])))
  BY FirstOn, Owner

(* Whatever is first on a list of children.                                 *)
LEMMA FirstSib ==
  ASSUME NEW h, NEW A, NEW a, Proper(h, A), a \in A, ~ list_empty(h, a), Kind(a) = Sibs
  PROVE  /\ container_of(h.next[a]) \in PCB /\ h.next[a] = sib(container_of(h.next[a]))
         /\ Queued(h, a, sib(container_of(h.next[a])))
  BY FirstOn, Owner

(* The step of allocPcb.                                                    *)
LEMMA StepAllocPcb ==
  ASSUME ListsInv, allocPcb
  PROVE  LET p == container_of(heap.next[pcbfree_h])
         IN  p \in PCB /\ Free(heap, p) /\ heap.next[pcbfree_h] = link(p)
             /\ Allocates(heap, heap', p)
<1>. DEFINE p == container_of(heap.next[pcbfree_h])
<1>1. Shape(heap) /\ Proper(heap, ListHeads(heap)) /\ pcbfree_h \in ListHeads(heap)
  BY ListHeadsAre DEF ListsInv, Shape
<1>2. ~ list_empty(heap, pcbfree_h)
  BY DEF allocPcb
<1>3. p \in PCB /\ heap.next[pcbfree_h] = link(p) /\ Free(heap, p)
  BY <1>1, <1>2, FirstLink, KindOf DEF Free
<1>4. heap' = Unfree(heap, p)
  BY <1>3 DEF allocPcb, Unfree
<1>. HIDE DEF p
<1>5. \A q \in PCB : ~ Free(heap, q) => ~ Queued(heap, child(q), sib(p))
  <2>1. \A q \in allocated : ToSet(Owners(heap, child(q))) \subseteq allocated
    BY DEF allocPcb
  <2>. QED
    BY <1>1, <1>3, <2>1, AllocatedAre, ShapeOwners
<1>6. Loose(heap, ListHeads(heap), sib(p))
  BY <1>1, <1>3, <1>5, SibLoose
<1>7. Allocates(heap, Unfree(heap, p), p)
  BY <1>1, <1>3, <1>6, AllocHeap
<1>. QED
  BY <1>3, <1>4, <1>7 DEF p

(* allocPcb preserves the invariant.                                        *)
LEMMA InvAllocPcb ==
  ASSUME ListsInv, allocPcb
  PROVE  ListsInv'
<1>. DEFINE p == container_of(heap.next[pcbfree_h])
<1>1. p \in PCB /\ Free(heap, p) /\ Allocates(heap, heap', p)
  BY StepAllocPcb
<1>2. /\ p_parent' = [p_parent EXCEPT ![p] = NULL]
      /\ p_semkey' = [p_semkey EXCEPT ![p] = NULL]
      /\ UNCHANGED <<scope, s_key, pos>> /\ pos = NULL
  BY DEF allocPcb, Called
<1>. HIDE DEF p
<1>3. /\ Shape(heap') /\ \A q \in PCB : Free(heap', q) <=> Free(heap, q) /\ q # p
      /\ SameLists(heap, heap', ListHeads(heap) \ {pcbfree_h})
      /\ \A n : ~ Queued(heap', child(p), n)
  BY <1>1 DEF Allocates
<1>4. Proper(heap, ListHeads(heap)) /\ Queues(heap, p_semkey, s_key) /\ Tree(heap, p_parent)
  BY DEF ListsInv, Shape
<1>5. /\ \A s \in Semd : Active(heap', s) <=> Active(heap, s)
      /\ \A s \in Semd : Active(heap, s) =>
           \A q \in PCB : Queued(heap', procQ(s), link(q)) <=> Queued(heap, procQ(s), link(q))
      /\ \A q \in PCB : ~ Free(heap, q) =>
           \A c \in PCB : Queued(heap', child(q), sib(c)) <=> Queued(heap, child(q), sib(c))
  <2>1. list_for_each(heap', semd_h) = list_for_each(heap, semd_h)
    BY <1>3, ListHeadsAre, FixedHeads DEF SameLists
  <2>2. ASSUME NEW a \in ListHeads(heap), a \notin Fixed
        PROVE  list_for_each(heap', a) = list_for_each(heap, a)
    BY <1>3, <2>2, FixedHeads DEF SameLists
  <2>3. \A s \in Semd : Active(heap, s) => procQ(s) \in ListHeads(heap) /\ procQ(s) \notin Fixed
    BY ListHeadsAre, Owner, NodeKinds
  <2>4. \A q \in PCB : ~ Free(heap, q) => child(q) \in ListHeads(heap) /\ child(q) \notin Fixed
    BY ListHeadsAre, Owner, NodeKinds
  <2>. QED
    BY <2>1, <2>2, <2>3, <2>4 DEF Active, Queued
<1>6. p_semkey[p] = NULL
  <2>1. SUFFICES ASSUME p_semkey[p] # NULL PROVE FALSE
    OBVIOUS
  <2>2. PICK s \in Semd : Active(heap, s) /\ s_key[s] = p_semkey[p]
    BY <1>1, <1>4, <2>1 DEF Queues
  <2>3. Queued(heap, procQ(s), link(p)) /\ procQ(s) \in ListHeads(heap)
    BY <1>1, <1>4, <2>2, ListHeadsAre DEF Queues
  <2>4. procQ(s) = pcbfree_h
    BY <1>1, <1>4, <2>3, Apartness, ListHeadsAre DEF Free
  <2>. QED
    BY <2>4, Owner, NodeKinds, FixedHeads
<1>7. p_semkey' = p_semkey
  BY <1>2, <1>6 DEF ListsInv, ListsTypeOK
<1>8. Queues(heap', p_semkey', s_key')
  BY <1>2, <1>4, <1>5, <1>7 DEF Queues
<1>9. Tree(heap', p_parent')
  <2>1. \A q \in PCB : p_parent'[q] = IF q = p THEN NULL ELSE p_parent[q]
    BY <1>2 DEF ListsInv, ListsTypeOK
  <2>2. ASSUME NEW q \in PCB, NEW c \in PCB, ~ Free(heap', q), Queued(heap', child(q), sib(c))
        PROVE  p_parent'[c] = q
    <3>1. q # p
      BY <1>3, <2>2
    <3>2. ~ Free(heap, q) /\ Queued(heap, child(q), sib(c))
      BY <1>3, <1>5, <2>2, <3>1
    <3>3. c # p
      BY <1>1, <3>2, AllocatedAre, ShapeOwners DEF allocPcb, ListsInv
    <3>. QED
      BY <1>4, <2>1, <3>2, <3>3 DEF Tree
  <2>. QED
    BY <2>2 DEF Tree
<1>10. ListsTypeOK'
  BY <1>2, <1>7 DEF ListsInv, ListsTypeOK
<1>. QED
  BY <1>2, <1>3, <1>8, <1>9, <1>10 DEF ListsInv

(* The least of a set of positions is one of them.                          *)
LEMMA LeastPosition ==
  ASSUME NEW I, I \subseteq Nat, I # {}
  PROVE  Min(I) \in I /\ \A j \in I : Min(I) <= j
<1>1. \E i \in I : \A j \in I : i <= j
  BY LeastIn
<1>. QED
  BY <1>1 DEF Min

(* Where the loop of insertProcQ ends: at the first place it may.           *)
InsertedAt(t, prio, v, i) ==
  /\ i \in 1 .. Len(t) + 1
  /\ \A j \in 1 .. i - 1 : ~ (prio[container_of(t[j])] < v)
  /\ i <= Len(t) => prio[container_of(t[i])] < v

(* The step of insertProcQ: its loop ends behind those of the same or a     *)
(* higher priority.                                                         *)
LEMMA StepInsertProcQ ==
  ASSUME ListsInv, NEW p \in PCB, insertProcQ(p)
  PROVE  \E v \in scope.priorities :
           /\ priority' = [priority EXCEPT ![p] = v]
           /\ \E i \in 1 .. Len(List(readyQueue_h)) + 1 :
                /\ InsertedAt(List(readyQueue_h), priority, v, i)
                /\ AddsTo(heap, heap', ListHeads(heap), readyQueue_h, i - 1, link(p))
<1>. DEFINE t == list_for_each(heap, readyQueue_h)
            passed == <<readyQueue_h>> \o t
<1>1. /\ Shape(heap) /\ Proper(heap, ListHeads(heap)) /\ readyQueue_h \in ListHeads(heap)
      /\ Held(p)
  BY ListHeadsAre DEF ListsInv, Shape, insertProcQ
<1>2. PICK v \in scope.priorities :
        /\ priority' = [priority EXCEPT ![p] = v]
        /\ heap' = list_add(heap, link(p),
             passed[SelectInSeq(passed, LAMBDA n : stops(heap, n, priority, v))])
  BY DEF insertProcQ, List
<1>3. t \in Seq(Node) /\ Len(t) \in Nat /\ readyQueue_h \in Node
  BY <1>1, ListType, FixedHeads, NodeKinds
<1>. DEFINE stop(j) == stops(heap, passed[j], priority, v)
            I == {j \in 1 .. Len(passed) : stop(j)}
            i == Min(I)
<1>4. SelectInSeq(passed, LAMBDA n : stops(heap, n, priority, v)) = IF I # {} THEN i ELSE 0
  BY DEF SelectInSeq
<1>. HIDE DEF t
<1>5. /\ Len(passed) = Len(t) + 1 /\ passed[1] = readyQueue_h
      /\ \A j \in 1 .. Len(t) : passed[j + 1] = t[j]
  <2>1. passed = WithHead(readyQueue_h, t)
    BY DEF WithHead
  <2>. HIDE DEF passed
  <2>2. Len(passed) = Len(t) + 1 /\ passed[1] = readyQueue_h
    BY <1>3, <2>1, WithHeadType
  <2>3. IsTail(t, passed)
    BY <1>3, <2>1, WithHeadEach
  <2>. QED
    BY <2>2, <2>3 DEF IsTail
<1>. HIDE DEF passed
<1>6. \A j \in 1 .. Len(t) + 1 : heap.next[passed[j]] = IF j = Len(t) + 1 THEN readyQueue_h ELSE t[j]
  <2>1. /\ list_empty(heap, readyQueue_h) <=> t = <<>>
        /\ t # <<>> => heap.next[readyQueue_h] = t[1]
    BY <1>1, HeadNext DEF t
  <2>2. \A j \in 1 .. Len(t) : heap.next[t[j]] = IF j = Len(t) THEN readyQueue_h ELSE t[j + 1]
    BY <1>1, NodeNext DEF t
  <2>3. t = <<>> <=> Len(t) = 0
    BY <1>3
  <2>4. ASSUME NEW j \in 1 .. Len(t) + 1
        PROVE  heap.next[passed[j]] = IF j = Len(t) + 1 THEN readyQueue_h ELSE t[j]
    <3>1. CASE j = 1
      <4>1. CASE Len(t) = 0
        BY <1>5, <2>1, <2>3, <3>1, <4>1 DEF list_empty
      <4>2. CASE Len(t) # 0
        <5>1. j # Len(t) + 1
          BY <1>3, <3>1, <4>2
        <5>. QED
          BY <1>5, <2>1, <2>3, <3>1, <4>2, <5>1
      <4>. QED
        BY <4>1, <4>2
    <3>2. CASE j # 1
      <4>1. j - 1 \in 1 .. Len(t) /\ (j - 1) + 1 = j /\ (j - 1 = Len(t) <=> j = Len(t) + 1)
        BY <1>3, <3>2
      <4>2. passed[j] = t[j - 1]
        BY <1>5, <4>1
      <4>. QED
        BY <2>2, <4>1, <4>2
    <3>. QED
      BY <3>1, <3>2
  <2>. QED
    BY <2>4
<1>7. \A j \in 1 .. Len(t) : t[j] # readyQueue_h
  BY <1>1, FixedHeads, KindOf DEF t, Proper, Queued, On
<1>8. \A j \in 1 .. Len(t) + 1 : stop(j) <=> j = Len(t) + 1 \/ priority[container_of(t[j])] < v
  <2>1. ASSUME NEW j \in 1 .. Len(t) + 1
        PROVE  stop(j) <=> j = Len(t) + 1 \/ priority[container_of(t[j])] < v
    <3>1. stop(j) <=> heap.next[passed[j]] = readyQueue_h
                      \/ priority[container_of(heap.next[passed[j]])] < v
      BY DEF stops, list_is_last
    <3>2. CASE j = Len(t) + 1
      BY <1>6, <3>1, <3>2
    <3>3. CASE j # Len(t) + 1
      <4>1. j \in 1 .. Len(t)
        BY <1>3, <3>3
      <4>. QED
        BY <1>6, <1>7, <3>1, <3>3, <4>1
    <3>. QED
      BY <3>2, <3>3
  <2>. QED
    BY <2>1
<1>. HIDE DEF stop
<1>9. I # {} /\ I \subseteq Nat
  BY <1>3, <1>5, <1>8
<1>10. i \in I /\ \A j \in I : i <= j
  <2>. HIDE DEF I
  <2>. QED
    BY <1>9, LeastPosition
<1>. HIDE DEF i
<1>11. i \in 1 .. Len(t) + 1 /\ stop(i) /\ \A j \in 1 .. i - 1 : ~ stop(j)
  <2>1. i \in 1 .. Len(t) + 1 /\ stop(i)
    BY <1>5, <1>10
  <2>2. ASSUME NEW j \in 1 .. i - 1, stop(j) PROVE FALSE
    <3>1. j \in 1 .. Len(t) + 1 /\ ~ (i <= j)
      BY <1>3, <2>1
    <3>. QED
      BY <1>5, <1>10, <2>2, <3>1
  <2>. QED
    BY <2>1, <2>2
<1>12. InsertedAt(t, priority, v, i)
  <2>1. \A j \in 1 .. i - 1 : j \in 1 .. Len(t) + 1 /\ j # Len(t) + 1
    BY <1>3, <1>11
  <2>2. i <= Len(t) => i # Len(t) + 1
    BY <1>3, <1>11
  <2>. QED
    BY <1>8, <1>11, <2>1, <2>2 DEF InsertedAt
<1>13. heap' = list_add(heap, link(p), passed[i])
  BY <1>2, <1>4, <1>9
<1>14. passed[i] = IF i - 1 = 0 THEN readyQueue_h ELSE t[i - 1]
  <2>1. CASE i = 1
    BY <1>5, <2>1
  <2>2. CASE i # 1
    <3>1. i - 1 \in 1 .. Len(t) /\ (i - 1) + 1 = i /\ i - 1 # 0
      BY <1>3, <1>11, <2>2
    <3>. QED
      BY <1>5, <3>1
  <2>. QED
    BY <2>1, <2>2
<1>15. AddsTo(heap, heap', ListHeads(heap), readyQueue_h, i - 1, link(p))
  <2>. DEFINE k == i - 1
  <2>1. k \in 0 .. Len(t)
    BY <1>3, <1>11
  <2>2. link(p) \in Kind(readyQueue_h) /\ Loose(heap, ListHeads(heap), link(p))
    BY <1>1, HeldIsLoose, KindOf, Owner
  <2>. HIDE DEF k
  <2>3. AddsTo(heap, list_add(heap, link(p), IF k = 0 THEN readyQueue_h ELSE list_for_each(heap, readyQueue_h)[k]),
               ListHeads(heap), readyQueue_h, k, link(p))
    BY <1>1, <2>1, <2>2, Added DEF t
  <2>. QED
    BY <1>13, <1>14, <2>3 DEF k, t
<1>. QED
  BY <1>2, <1>11, <1>12, <1>15 DEF t, List

(* The step of freePcb.                                                     *)
LEMMA StepFreePcb ==
  ASSUME ListsInv, NEW p \in PCB, freePcb(p)
  PROVE  Releases(heap, heap', p) /\ ~ Free(heap, p)
  BY HeldIsLoose, FreeHeap DEF freePcb, ListsInv

(* freePcb preserves the invariant.                                         *)
LEMMA InvFreePcb ==
  ASSUME ListsInv, NEW p \in PCB, freePcb(p)
  PROVE  ListsInv'
<1>1. Releases(heap, heap', p)
  BY StepFreePcb
<1>2. UNCHANGED <<scope, p_parent, p_semkey, s_key, pos>> /\ pos = NULL
  BY DEF freePcb, Called
<1>3. /\ Shape(heap') /\ \A q \in PCB : Free(heap', q) <=> Free(heap, q) \/ q = p
      /\ SameLists(heap, heap', ListHeads(heap) \ {pcbfree_h})
  BY <1>1 DEF Releases
<1>4. Queues(heap, p_semkey, s_key) /\ Tree(heap, p_parent)
  BY DEF ListsInv
<1>5. /\ \A s \in Semd : Active(heap', s) <=> Active(heap, s)
      /\ \A s \in Semd : Active(heap, s) =>
           \A q \in PCB : Queued(heap', procQ(s), link(q)) <=> Queued(heap, procQ(s), link(q))
      /\ \A q \in PCB : ~ Free(heap, q) =>
           \A c \in PCB : Queued(heap', child(q), sib(c)) <=> Queued(heap, child(q), sib(c))
  <2>1. list_for_each(heap', semd_h) = list_for_each(heap, semd_h)
    BY <1>3, ListHeadsAre, FixedHeads DEF SameLists
  <2>2. ASSUME NEW a \in ListHeads(heap), a \notin Fixed
        PROVE  list_for_each(heap', a) = list_for_each(heap, a)
    BY <1>3, <2>2, FixedHeads DEF SameLists
  <2>3. \A s \in Semd : Active(heap, s) => procQ(s) \in ListHeads(heap) /\ procQ(s) \notin Fixed
    BY ListHeadsAre, Owner, NodeKinds
  <2>4. \A q \in PCB : ~ Free(heap, q) => child(q) \in ListHeads(heap) /\ child(q) \notin Fixed
    BY ListHeadsAre, Owner, NodeKinds
  <2>. QED
    BY <2>1, <2>2, <2>3, <2>4 DEF Active, Queued
<1>6. Queues(heap', p_semkey', s_key')
  BY <1>2, <1>4, <1>5 DEF Queues
<1>7. Tree(heap', p_parent')
  BY <1>2, <1>3, <1>4, <1>5 DEF Tree
<1>8. ListsTypeOK'
  BY <1>2 DEF ListsInv, ListsTypeOK
<1>. QED
  BY <1>2, <1>3, <1>6, <1>7, <1>8 DEF ListsInv

(* An action that only puts a node on the ready queue or takes one off it.  *)
LEMMA InvReady ==
  ASSUME ListsInv, UNCHANGED <<scope, p_parent, p_semkey, s_key>>,
         Frame(heap, heap'), SameQueues(heap, heap'), SameChildren(heap, heap'),
         pos' # NULL => Queued(heap', readyQueue_h, pos')
  PROVE  ListsInv'
<1>1. Queues(heap', p_semkey', s_key') /\ Tree(heap', p_parent')
  BY QueuesFrame, TreeFrame DEF ListsInv
<1>2. ListsTypeOK' /\ Shape(heap')
  BY DEF ListsInv, ListsTypeOK, Frame
<1>. QED
  BY <1>1, <1>2 DEF ListsInv

(* insertProcQ preserves the invariant.                                     *)
LEMMA InvInsertProcQ ==
  ASSUME ListsInv, NEW p \in PCB, insertProcQ(p)
  PROVE  ListsInv'
<1>1. PICK i : AddsTo(heap, heap', ListHeads(heap), readyQueue_h, i - 1, link(p))
  BY StepInsertProcQ
<1>. DEFINE k == i - 1
<1>. HIDE DEF k
<1>2. AddsTo(heap, heap', ListHeads(heap), readyQueue_h, k, link(p))
  BY <1>1 DEF k
<1>3. readyQueue_h \notin ProcQs /\ readyQueue_h \notin Children
      /\ readyQueue_h \notin {pcbfree_h, semd_h, semdFree_h}
  BY FixedHeads, NodeKinds
<1>4. Frame(heap, heap') /\ SameQueues(heap, heap') /\ SameChildren(heap, heap')
  BY <1>2, <1>3, FrameAdd, AddsElsewhere DEF ListsInv
<1>5. UNCHANGED <<scope, p_parent, p_semkey, s_key, pos>> /\ pos = NULL
  BY DEF insertProcQ, Called
<1>. QED
  BY <1>4, <1>5, InvReady

(* A process taken from the ready queue.                                    *)
LEMMA ReadyTake ==
  ASSUME NEW h, NEW n, Shape(h), Queued(h, readyQueue_h, n)
  PROVE  /\ Takes(h, list_del(h, n), ListHeads(h), readyQueue_h, n)
         /\ Frame(h, list_del(h, n)) /\ SameQueues(h, list_del(h, n))
         /\ SameChildren(h, list_del(h, n))
<1>. DEFINE g == list_del(h, n)
<1>1. Proper(h, ListHeads(h)) /\ readyQueue_h \in ListHeads(h)
  BY ListHeadsAre DEF Shape
<1>2. Takes(h, g, ListHeads(h), readyQueue_h, n)
  BY <1>1, DeletedNode
<1>. HIDE DEF g
<1>3. readyQueue_h \notin ProcQs /\ readyQueue_h \notin Children
      /\ readyQueue_h \notin {pcbfree_h, semd_h, semdFree_h}
  BY FixedHeads, NodeKinds
<1>4. Frame(h, g) /\ SameQueues(h, g) /\ SameChildren(h, g)
  BY <1>1, <1>2, <1>3, FrameTake, TakesElsewhere
<1>. QED
  BY <1>2, <1>4 DEF g

(* The step of removeProcQ takes the first.                                 *)
LEMMA StepRemoveProcQ ==
  ASSUME ListsInv, removeProcQ
  PROVE  LET n == heap.next[readyQueue_h]
         IN  /\ 1 \in 1 .. Len(list_for_each(heap, readyQueue_h))
             /\ n = list_for_each(heap, readyQueue_h)[1]
             /\ Queued(heap, readyQueue_h, n)
             /\ heap' = list_del(heap, n)
<1>1. Proper(heap, ListHeads(heap)) /\ readyQueue_h \in ListHeads(heap)
  BY ListHeadsAre DEF Shape, ListsInv
<1>. QED
  BY <1>1, FirstOn DEF removeProcQ

(* removeProcQ preserves the invariant.                                     *)
LEMMA InvRemoveProcQ ==
  ASSUME ListsInv, removeProcQ
  PROVE  ListsInv'
<1>1. PICK n : Queued(heap, readyQueue_h, n) /\ heap' = list_del(heap, n)
  BY StepRemoveProcQ
<1>2. Frame(heap, heap') /\ SameQueues(heap, heap') /\ SameChildren(heap, heap')
  BY <1>1, ReadyTake DEF ListsInv
<1>3. UNCHANGED <<scope, p_parent, p_semkey, s_key, pos>> /\ pos = NULL
  BY DEF removeProcQ, Called
<1>. QED
  BY <1>2, <1>3, InvReady

(* outProcQ preserves the invariant.                                        *)
LEMMA InvOutProcQ ==
  ASSUME ListsInv, NEW p \in PCB, outProcQ(p)
  PROVE  ListsInv'
<1>1. Proper(heap, ListHeads(heap)) /\ readyQueue_h \in ListHeads(heap)
  BY ListHeadsAre DEF Shape, ListsInv
<1>2. /\ pos' = heap.next[readyQueue_h] /\ ~ list_empty(heap, readyQueue_h)
      /\ UNCHANGED <<scope, heap, p_parent, p_semkey, s_key>>
  BY DEF outProcQ
<1>3. Queued(heap', readyQueue_h, pos')
  BY <1>1, <1>2, FirstOn
<1>. QED
  BY <1>2, <1>3 DEF ListsInv, ListsTypeOK

(* The element outProcQ stands on leads to the rest of the queue, removed   *)
(* or not.                                                                  *)
LEMMA NextReady ==
  ASSUME NEW h, NEW g, NEW n, Shape(h), Queued(h, readyQueue_h, n),
         g = h \/ g = list_del(h, n), g.next[n] # readyQueue_h
  PROVE  Queued(g, readyQueue_h, g.next[n])
<1>. DEFINE t == list_for_each(h, readyQueue_h)
<1>1. Proper(h, ListHeads(h)) /\ readyQueue_h \in ListHeads(h)
  BY ListHeadsAre DEF Shape
<1>2. PICK i \in 1 .. Len(t) : t[i] = n
  BY DEF Queued, On
<1>3. h.next[n] = IF i = Len(t) THEN readyQueue_h ELSE t[i + 1]
  BY <1>1, <1>2, NodeNext
<1>4. t \in Seq(Node) /\ Len(t) \in Nat /\ IsInjective(t)
  BY <1>1, ListType
<1>5. Takes(h, list_del(h, n), ListHeads(h), readyQueue_h, n)
  BY ReadyTake
<1>6. /\ Loses(h, list_del(h, n), ListHeads(h), n)
      /\ list_del(h, n).next[n] = h.next[n]
  <2>. DEFINE g1 == list_del(h, n)
  <2>1. Takes(h, g1, ListHeads(h), readyQueue_h, n)
    BY <1>5
  <2>. HIDE DEF g1
  <2>2. PICK j \in 1 .. Len(list_for_each(h, readyQueue_h)) :
          /\ list_for_each(h, readyQueue_h)[j] = n
          /\ TakesAt(h, g1, ListHeads(h), readyQueue_h, j)
    BY <2>1 DEF Takes
  <2>3. g1.next[n] = h.next[n]
    BY <2>2 DEF TakesAt
  <2>4. Loses(h, g1, ListHeads(h), n)
    BY <2>2 DEF TakesAt
  <2>. QED
    BY <2>3, <2>4 DEF g1
<1>. HIDE DEF t
<1>7. g.next[n] = h.next[n]
  BY <1>6
<1>8. i + 1 \in 1 .. Len(t) /\ g.next[n] = t[i + 1]
  BY <1>2, <1>3, <1>4, <1>7
<1>9. t[i + 1] # n
  <2>1. DOMAIN t = 1 .. Len(t)
    BY <1>4
  <2>. QED
    BY <1>2, <1>4, <1>8, <2>1 DEF IsInjective
<1>10. Queued(h, readyQueue_h, g.next[n])
  BY <1>8 DEF Queued, On, t
<1>. QED
  BY <1>1, <1>6, <1>8, <1>9, <1>10 DEF Loses

(* outProcQ_loop preserves the invariant.                                   *)
LEMMA InvOutProcQLoop ==
  ASSUME ListsInv, outProcQ_loop
  PROVE  ListsInv'
<1>1. /\ Shape(heap) /\ Queued(heap, readyQueue_h, pos) /\ pos # NULL
      /\ UNCHANGED <<scope, p_parent, p_semkey, s_key>>
      /\ heap' = heap \/ heap' = list_del(heap, pos)
      /\ pos' = IF heap'.next[pos] = readyQueue_h THEN NULL ELSE heap'.next[pos]
  BY DEF ListsInv, outProcQ_loop
<1>2. pos' # NULL => Queued(heap', readyQueue_h, pos')
  BY <1>1, NextReady
<1>3. CASE heap' = heap
  BY <1>1, <1>2, <1>3 DEF ListsInv, ListsTypeOK
<1>4. CASE heap' = list_del(heap, pos)
  <2>1. Frame(heap, heap') /\ SameQueues(heap, heap') /\ SameChildren(heap, heap')
    BY <1>1, <1>4, ReadyTake
  <2>. QED
    BY <1>1, <1>2, <2>1, InvReady
<1>. QED
  BY <1>1, <1>3, <1>4

(* insertBlocked finds the descriptor s of k or takes a new one.            *)
LEMMA StepInsertBlocked ==
  ASSUME ListsInv, NEW p \in PCB, NEW k \in Key, insertBlocked(k, p)
  PROVE  /\ p_semkey[p] = NULL
         /\ \/ \E s \in Semd :
                 /\ s = SemdOf(heap, s_key, k) /\ s # 0 /\ Active(heap, s) /\ s_key[s] = k
                 /\ AddsTo(heap, heap', ListHeads(heap), procQ(s),
                           Len(list_for_each(heap, procQ(s))), link(p))
                 /\ s_key' = s_key
            \/ \E new \in Semd :
                 /\ SemdOf(heap, s_key, k) = 0
                 /\ \A s \in Semd : Active(heap, s) => s_key[s] # k
                 /\ ~ Active(heap, new)
                 /\ Claims(heap, heap', new, p)
                 /\ s_key' = [s_key EXCEPT ![new] = k]
<1>1. /\ Shape(heap) /\ Proper(heap, ListHeads(heap)) /\ semdFree_h \in ListHeads(heap)
      /\ semd_h \in ListHeads(heap)
  BY ListHeadsAre DEF ListsInv, Shape
<1>2. Held(p)
  BY DEF insertBlocked
<1>3. p_semkey[p] = NULL /\ Loose(heap, ListHeads(heap), link(p))
  BY <1>2, HeldIsLoose
<1>4. CASE getSemd(heap, k) # 0
  <2>. DEFINE s == SemdOf(heap, s_key, k)
  <2>1. s = getSemd(heap, k)
    BY GetSemdOf
  <2>2. s \in Semd /\ s # 0 /\ Active(heap, s) /\ s_key[s] = k
    BY <1>1, <1>4, <2>1, GetSemd
  <2>3. heap' = list_add_tail(heap, link(p), procQ(s)) /\ s_key' = s_key
    BY <1>4, <2>1 DEF insertBlocked
  <2>. HIDE DEF s
  <2>4. procQ(s) \in ListHeads(heap) /\ link(p) \in Kind(procQ(s))
    BY <2>2, ListHeadsAre, KindOf, Owner
  <2>5. AddsTo(heap, list_add_tail(heap, link(p), procQ(s)), ListHeads(heap), procQ(s),
               Len(list_for_each(heap, procQ(s))), link(p))
    BY <1>1, <1>3, <2>4, AddedLast
  <2>. QED
    BY <1>3, <2>2, <2>3, <2>5 DEF s
<1>5. CASE getSemd(heap, k) = 0
  <2>. DEFINE new == container_of(heap.next[semdFree_h])
  <2>1. SemdOf(heap, s_key, k) = 0 /\ \A s \in Semd : Active(heap, s) => s_key[s] # k
    BY <1>1, <1>5, GetSemd, GetSemdOf
  <2>2. /\ ~ list_empty(heap, semdFree_h)
        /\ s_key' = [s_key EXCEPT ![new] = k]
        /\ heap' = Claim(heap, new, p)
    BY <1>5 DEF insertBlocked, Claim
  <2>3. new \in Semd /\ Queued(heap, semdFree_h, s_next(new))
    BY <1>1, <2>2, FirstNext, KindOf
  <2>. HIDE DEF new
  <2>4. Claims(heap, heap', new, p)
    BY <1>1, <1>3, <2>2, <2>3, ClaimHeap
  <2>5. ~ Active(heap, new)
    BY <1>1, <2>3, Apartness, FixedHeads DEF Active
  <2>. QED
    BY <1>3, <2>1, <2>2, <2>3, <2>4, <2>5
<1>. QED
  BY <1>4, <1>5

(* insertBlocked preserves the invariant.                                   *)
LEMMA InvInsertBlocked ==
  ASSUME ListsInv, NEW p \in PCB, NEW k \in Key, insertBlocked(k, p)
  PROVE  ListsInv'
<1>1. /\ p_semkey' = [p_semkey EXCEPT ![p] = k]
      /\ UNCHANGED <<scope, p_parent, pos>> /\ pos = NULL
  BY DEF insertBlocked, Called
<1>2. \A q \in PCB : p_semkey'[q] = IF q = p THEN k ELSE p_semkey[q]
  BY <1>1 DEF ListsInv, ListsTypeOK
<1>3. p_semkey[p] = NULL /\ NULL \notin Key
  BY StepInsertBlocked, ListsAssumption
<1>4. Shape(heap) /\ Queues(heap, p_semkey, s_key) /\ Tree(heap, p_parent)
  BY DEF ListsInv
<1>5. ListsTypeOK' <=> s_key' \in [Semd -> Key \cup {NULL}]
  BY <1>1 DEF ListsInv, ListsTypeOK
<1>6. ASSUME NEW s \in Semd, Active(heap, s), s_key[s] = k, s_key' = s_key,
             AddsTo(heap, heap', ListHeads(heap), procQ(s),
                    Len(list_for_each(heap, procQ(s))), link(p))
      PROVE  ListsInv'
  <2>1. /\ procQ(s) \in ListHeads(heap) /\ procQ(s) \notin Children
        /\ procQ(s) \notin {pcbfree_h, semd_h, semdFree_h}
    BY <1>6, ListHeadsAre, Owner, NodeKinds, FixedHeads
  <2>2. Frame(heap, heap') /\ SameChildren(heap, heap')
    BY <1>4, <1>6, <2>1, FrameAdd, AddsElsewhere
  <2>3. /\ Shape(heap') /\ \A r \in Semd : Active(heap', r) <=> Active(heap, r)
    BY <2>2 DEF Frame
  <2>4. Gains(heap, heap', ListHeads(heap), procQ(s), link(p))
    BY <1>6 DEF AddsTo
  <2>5. \A r \in Semd, q \in PCB : Active(heap, r) =>
          (Queued(heap', procQ(r), link(q)) <=> Queued(heap, procQ(r), link(q)) \/ (r = s /\ q = p))
    BY <2>4, ListHeadsAre, Owner DEF Gains
  <2>6. \A r \in Semd : Active(heap, r) /\ s_key[r] = k => r = s
    BY <1>4, <1>6 DEF Queues
  <2>7. \A r \in Semd : Active(heap, r) => s_key[r] \in Key /\ \E q \in PCB : p_semkey'[q] = s_key[r]
    <3>1. ASSUME NEW r \in Semd, Active(heap, r)
          PROVE  s_key[r] \in Key /\ \E q \in PCB : p_semkey'[q] = s_key[r]
      <4>1. PICK q \in PCB : p_semkey[q] = s_key[r] /\ s_key[r] \in Key
        BY <1>4, <3>1 DEF Queues
      <4>2. q # p
        BY <1>3, <4>1
      <4>. QED
        BY <1>2, <4>1, <4>2
    <3>. QED
      BY <3>1
  <2>8. \A r \in Semd, q \in PCB : Active(heap, r) =>
          (Queued(heap', procQ(r), link(q)) <=> p_semkey'[q] = s_key[r])
    <3>1. ASSUME NEW r \in Semd, NEW q \in PCB, Active(heap, r)
          PROVE  Queued(heap', procQ(r), link(q)) <=> p_semkey'[q] = s_key[r]
      <4>1. s_key[r] \in Key /\ (Queued(heap, procQ(r), link(q)) <=> p_semkey[q] = s_key[r])
        BY <1>4, <3>1 DEF Queues
      <4>. QED
        BY <1>2, <1>3, <1>6, <2>5, <2>6, <3>1, <4>1
    <3>. QED
      BY <3>1
  <2>9. \A q \in PCB : p_semkey'[q] # NULL => \E r \in Semd : Active(heap, r) /\ s_key[r] = p_semkey'[q]
    BY <1>2, <1>4, <1>6 DEF Queues
  <2>10. \A r, t \in Semd : Active(heap, r) /\ Active(heap, t) /\ s_key[r] = s_key[t] => r = t
    BY <1>4 DEF Queues
  <2>11. Queues(heap', p_semkey', s_key')
    BY <1>6, <2>3, <2>7, <2>8, <2>9, <2>10 DEF Queues
  <2>12. Tree(heap', p_parent')
    BY <1>1, <1>4, <2>2, TreeFrame
  <2>13. ListsTypeOK'
    BY <1>5, <1>6 DEF ListsInv, ListsTypeOK
  <2>. QED
    BY <1>1, <2>3, <2>11, <2>12, <2>13 DEF ListsInv
<1>7. ASSUME NEW new \in Semd, ~ Active(heap, new), Claims(heap, heap', new, p),
             \A s \in Semd : Active(heap, s) => s_key[s] # k,
             s_key' = [s_key EXCEPT ![new] = k]
      PROVE  ListsInv'
  <2>1. /\ Shape(heap')
        /\ \A r \in Semd : Active(heap', r) <=> Active(heap, r) \/ r = new
        /\ \A n : Queued(heap', procQ(new), n) <=> n = link(p)
        /\ SameLists(heap, heap', ListHeads(heap) \ {semd_h, semdFree_h})
    BY <1>7 DEF Claims
  <2>2. \A r \in Semd : s_key'[r] = IF r = new THEN k ELSE s_key[r]
    BY <1>7 DEF ListsInv, ListsTypeOK
  <2>3. ASSUME NEW a \in ListHeads(heap), a \notin Fixed
        PROVE  list_for_each(heap', a) = list_for_each(heap, a)
    BY <2>1, <2>3, FixedHeads DEF SameLists
  <2>4. \A r \in Semd : Active(heap, r) => procQ(r) \in ListHeads(heap) /\ procQ(r) \notin Fixed
    BY ListHeadsAre, Owner, NodeKinds
  <2>5. \A q \in PCB : ~ Free(heap, q) => child(q) \in ListHeads(heap) /\ child(q) \notin Fixed
    BY ListHeadsAre, Owner, NodeKinds
  <2>6. \A r \in Semd, q \in PCB : Active(heap, r) =>
          (Queued(heap', procQ(r), link(q)) <=> Queued(heap, procQ(r), link(q)))
    BY <2>3, <2>4 DEF Queued
  <2>7. \A r \in Semd, q \in PCB : Active(heap', r) =>
          (Queued(heap', procQ(r), link(q)) <=> p_semkey'[q] = s_key'[r])
    <3>1. ASSUME NEW r \in Semd, NEW q \in PCB, Active(heap', r)
          PROVE  Queued(heap', procQ(r), link(q)) <=> p_semkey'[q] = s_key'[r]
      <4>1. CASE r = new
        <5>1. \A s \in Semd : Active(heap, s) => s_key[s] # k
          BY <1>7
        <5>2. p_semkey[q] # k
          <6>1. SUFFICES ASSUME p_semkey[q] = k PROVE FALSE
            OBVIOUS
          <6>. QED
            BY <1>3, <1>4, <5>1, <6>1 DEF Queues
        <5>. QED
          BY <1>2, <2>1, <2>2, <4>1, <5>2, Owner
      <4>2. CASE r # new
        <5>1. Active(heap, r) /\ s_key'[r] = s_key[r] /\ s_key[r] # k
          BY <1>7, <2>1, <2>2, <3>1, <4>2
        <5>2. s_key[r] \in Key /\ (Queued(heap, procQ(r), link(q)) <=> p_semkey[q] = s_key[r])
          BY <1>4, <5>1 DEF Queues
        <5>. QED
          BY <1>2, <1>3, <2>6, <5>1, <5>2
      <4>. QED
        BY <4>1, <4>2
    <3>. QED
      BY <3>1
  <2>8. ASSUME NEW r \in Semd, Active(heap', r)
        PROVE  s_key'[r] \in Key /\ \E q \in PCB : p_semkey'[q] = s_key'[r]
    <3>1. CASE r = new
      BY <1>2, <2>2, <3>1
    <3>2. CASE r # new
      <4>1. Active(heap, r) /\ s_key'[r] = s_key[r]
        BY <2>1, <2>2, <2>8, <3>2
      <4>2. PICK q \in PCB : p_semkey[q] = s_key[r] /\ s_key[r] \in Key
        BY <1>4, <4>1 DEF Queues
      <4>3. q # p
        BY <1>3, <4>2
      <4>. QED
        BY <1>2, <4>1, <4>2, <4>3
    <3>. QED
      BY <3>1, <3>2
  <2>9. ASSUME NEW q \in PCB, p_semkey'[q] # NULL
        PROVE  \E r \in Semd : Active(heap', r) /\ s_key'[r] = p_semkey'[q]
    <3>1. CASE q = p
      BY <1>2, <2>1, <2>2, <3>1
    <3>2. CASE q # p
      <4>1. PICK r \in Semd : Active(heap, r) /\ s_key[r] = p_semkey[q]
        BY <1>2, <1>4, <2>9, <3>2 DEF Queues
      <4>2. r # new
        BY <1>7, <4>1
      <4>. QED
        BY <1>2, <2>1, <2>2, <3>2, <4>1, <4>2
    <3>. QED
      BY <3>1, <3>2
  <2>10. ASSUME NEW r \in Semd, NEW t \in Semd, Active(heap', r), Active(heap', t), s_key'[r] = s_key'[t]
         PROVE  r = t
    <3>1. CASE r = new \/ t = new
      BY <1>7, <2>1, <2>2, <2>10, <3>1
    <3>2. CASE r # new /\ t # new
      BY <1>4, <2>1, <2>2, <2>10, <3>2 DEF Queues
    <3>. QED
      BY <3>1, <3>2
  <2>11. Queues(heap', p_semkey', s_key')
    BY <2>7, <2>8, <2>9, <2>10 DEF Queues
  <2>12. Tree(heap', p_parent')
    <3>1. \A q \in PCB : Free(heap', q) <=> Free(heap, q)
      BY <2>1, ListHeadsAre, FixedHeads DEF Free, Queued, SameLists
    <3>. QED
      BY <1>1, <1>4, <2>3, <2>5, <3>1 DEF Tree, Queued
  <2>13. ListsTypeOK'
    BY <1>5, <1>7 DEF ListsInv, ListsTypeOK
  <2>. QED
    BY <1>1, <2>1, <2>11, <2>12, <2>13 DEF ListsInv
<1>8. CASE \E s \in Semd :
             /\ Active(heap, s) /\ s_key[s] = k /\ s_key' = s_key
             /\ AddsTo(heap, heap', ListHeads(heap), procQ(s),
                       Len(list_for_each(heap, procQ(s))), link(p))
  BY <1>6, <1>8
<1>9. CASE \E new \in Semd :
             /\ ~ Active(heap, new) /\ Claims(heap, heap', new, p)
             /\ \A s \in Semd : Active(heap, s) => s_key[s] # k
             /\ s_key' = [s_key EXCEPT ![new] = k]
  BY <1>7, <1>9
<1>. QED
  BY <1>8, <1>9, StepInsertBlocked

(* The step of unblock, for a process that waits.                           *)
LEMMA StepUnblock ==
  ASSUME ListsInv, NEW p \in PCB, p_semkey[p] # NULL, unblock(p)
  PROVE  \E s \in Semd :
           /\ s = SemdOf(heap, s_key, p_semkey[p]) /\ s # 0 /\ Active(heap, s)
           /\ s_key[s] = p_semkey[p] /\ Queued(heap, procQ(s), link(p))
           /\ Leaves(heap, heap', s, p)
<1>1. Shape(heap) /\ Queues(heap, p_semkey, s_key)
  BY DEF ListsInv
<1>2. heap' = Unlink(heap, s_key, p_semkey[p], p)
  BY UnlinkedOf DEF unblock
<1>. DEFINE s == SemdOf(heap, s_key, p_semkey[p])
<1>3. /\ s \in Semd /\ s # 0 /\ Active(heap, s) /\ s_key[s] = p_semkey[p]
      /\ Queued(heap, procQ(s), link(p))
      /\ Leaves(heap, Unlink(heap, s_key, p_semkey[p], p), s, p)
  BY <1>1, UnlinkHeap
<1>. QED
  BY <1>2, <1>3

(* unblock preserves the invariant.                                         *)
LEMMA InvUnblock ==
  ASSUME ListsInv, NEW p \in PCB, p_semkey[p] # NULL, unblock(p), Called
  PROVE  ListsInv'
<1>1. PICK s \in Semd : Active(heap, s) /\ s_key[s] = p_semkey[p] /\ Leaves(heap, heap', s, p)
  BY StepUnblock
<1>2. /\ p_semkey' = [p_semkey EXCEPT ![p] = NULL]
      /\ UNCHANGED <<scope, p_parent, s_key, pos>> /\ pos = NULL
  BY DEF unblock, Called
<1>3. /\ Shape(heap) /\ Queues(heap, p_semkey, s_key) /\ Tree(heap, p_parent)
      /\ p_semkey \in [PCB -> Key \cup {NULL}]
  BY DEF ListsInv, ListsTypeOK
<1>4. Shape(heap') /\ Queues(heap', [p_semkey EXCEPT ![p] = NULL], s_key)
  BY <1>1, <1>3, LeavesQueues
<1>5. SameChildren(heap, heap') /\ \A q \in PCB : Free(heap', q) <=> Free(heap, q)
  BY <1>1, <1>3, LeavesOthers
<1>6. Tree(heap', p_parent')
  BY <1>2, <1>3, <1>5 DEF Tree, SameChildren
<1>7. ListsTypeOK'
  BY <1>2 DEF ListsInv, ListsTypeOK
<1>. QED
  BY <1>2, <1>4, <1>6, <1>7 DEF ListsInv

(* The step of removeBlocked is that of unblock for the first process on    *)
(* the queue.                                                               *)
LEMMA StepRemoveBlocked ==
  ASSUME ListsInv, NEW k \in Key, removeBlocked(k)
  PROVE  LET s == getSemd(heap, k)
             p == container_of(heap.next[procQ(s)])
         IN  /\ s \in Semd /\ Active(heap, s) /\ s_key[s] = k
             /\ p \in PCB /\ p_semkey[p] = k /\ unblock(p)
             /\ 1 \in 1 .. Len(list_for_each(heap, procQ(s)))
             /\ list_for_each(heap, procQ(s))[1] = link(p)
<1>. DEFINE s == getSemd(heap, k)
            p == container_of(heap.next[procQ(s)])
<1>1. Shape(heap) /\ Queues(heap, p_semkey, s_key) /\ Proper(heap, ListHeads(heap))
  BY DEF ListsInv, Shape
<1>2. s # 0 /\ ~ list_empty(heap, procQ(s)) /\ unblock(p)
  BY DEF removeBlocked
<1>3. s \in Semd /\ Active(heap, s) /\ s_key[s] = k
  BY <1>1, <1>2, GetSemd, GetSemdOf
<1>. HIDE DEF s
<1>4. procQ(s) \in ListHeads(heap) /\ Kind(procQ(s)) = Links
  BY <1>3, ListHeadsAre, KindOf
<1>5. /\ p \in PCB /\ heap.next[procQ(s)] = link(p)
      /\ Queued(heap, procQ(s), link(p))
  BY <1>1, <1>2, <1>4, FirstLink
<1>6. 1 \in 1 .. Len(list_for_each(heap, procQ(s))) /\ list_for_each(heap, procQ(s))[1] = link(p)
  BY <1>1, <1>2, <1>4, <1>5, FirstOn
<1>. HIDE DEF p
<1>7. p_semkey[p] = k
  BY <1>1, <1>3, <1>5 DEF Queues
<1>. QED
  BY <1>2, <1>3, <1>5, <1>6, <1>7 DEF s, p

(* removeBlocked preserves the invariant.                                   *)
LEMMA InvRemoveBlocked ==
  ASSUME ListsInv, NEW k \in Key, removeBlocked(k)
  PROVE  ListsInv'
<1>1. PICK p \in PCB : p_semkey[p] = k /\ unblock(p)
  BY StepRemoveBlocked
<1>2. p_semkey[p] # NULL /\ Called
  BY <1>1, ListsAssumption DEF removeBlocked
<1>. QED
  BY <1>1, <1>2, InvUnblock

(* outBlocked takes a process that waits.                                   *)
LEMMA StepOutBlocked ==
  ASSUME ListsInv, NEW p \in PCB, getSemd(heap, p_semkey[p]) # 0
  PROVE  p_semkey[p] # NULL
<1>1. Shape(heap) /\ Queues(heap, p_semkey, s_key)
  BY DEF ListsInv
<1>2. PICK s \in Semd : Active(heap, s) /\ s_key[s] = p_semkey[p]
  BY <1>1, GetSemd, GetSemdOf
<1>. QED
  BY <1>1, <1>2, ListsAssumption DEF Queues

(* outBlocked preserves the invariant.                                      *)
LEMMA InvOutBlocked ==
  ASSUME ListsInv, NEW p \in PCB, outBlocked(p)
  PROVE  ListsInv'
  BY StepOutBlocked, InvUnblock DEF outBlocked

(* The step of insertChild.                                                 *)
LEMMA StepInsertChild ==
  ASSUME ListsInv, NEW prnt \in PCB, NEW p \in PCB, insertChild(prnt, p)
  PROVE  /\ AddsTo(heap, heap', ListHeads(heap), child(prnt),
                   Len(list_for_each(heap, child(prnt))), sib(p))
         /\ child(prnt) \in ListHeads(heap) /\ ~ Free(heap, prnt) /\ ~ Free(heap, p)
<1>1. /\ Shape(heap) /\ Tree(heap, p_parent) /\ Proper(heap, ListHeads(heap))
      /\ p_parent[p] = NULL /\ ~ Free(heap, prnt) /\ ~ Free(heap, p)
      /\ heap' = list_add_tail(heap, sib(p), child(prnt))
  BY AllocatedAre DEF ListsInv, Shape, insertChild
<1>2. \A q \in PCB : ~ Free(heap, q) => ~ Queued(heap, child(q), sib(p))
  BY <1>1, ListsAssumption DEF Tree
<1>3. Loose(heap, ListHeads(heap), sib(p))
  BY <1>1, <1>2, SibLoose
<1>4. child(prnt) \in ListHeads(heap) /\ sib(p) \in Kind(child(prnt))
  BY <1>1, ListHeadsAre, KindOf, Owner
<1>5. AddsTo(heap, list_add_tail(heap, sib(p), child(prnt)), ListHeads(heap), child(prnt),
             Len(list_for_each(heap, child(prnt))), sib(p))
  BY <1>1, <1>3, <1>4, AddedLast
<1>. QED
  BY <1>1, <1>4, <1>5

(* insertChild preserves the invariant.                                     *)
LEMMA InvInsertChild ==
  ASSUME ListsInv, NEW prnt \in PCB, NEW p \in PCB, insertChild(prnt, p)
  PROVE  ListsInv'
<1>. DEFINE i == Len(list_for_each(heap, child(prnt)))
<1>1. /\ AddsTo(heap, heap', ListHeads(heap), child(prnt), i, sib(p))
      /\ child(prnt) \in ListHeads(heap) /\ ~ Free(heap, prnt)
  BY StepInsertChild
<1>. HIDE DEF i
<1>2. child(prnt) \in Children /\ child(prnt) \notin ProcQs /\ child(prnt) \notin Fixed
      /\ child(prnt) \notin {pcbfree_h, semd_h, semdFree_h}
  BY Owner, NodeKinds, FixedHeads
<1>3. /\ Shape(heap) /\ Queues(heap, p_semkey, s_key) /\ Tree(heap, p_parent)
  BY DEF ListsInv
<1>4. Frame(heap, heap') /\ SameQueues(heap, heap')
  BY <1>1, <1>2, <1>3, FrameAdd, AddsElsewhere
<1>5. /\ p_parent' = [p_parent EXCEPT ![p] = prnt] /\ p_parent[p] = NULL
      /\ UNCHANGED <<scope, p_semkey, s_key, pos>> /\ pos = NULL
  BY DEF insertChild, Called
<1>6. \A c \in PCB : p_parent'[c] = IF c = p THEN prnt ELSE p_parent[c]
  BY <1>5 DEF ListsInv, ListsTypeOK
<1>7. \A q, c \in PCB : ~ Free(heap, q) =>
        (Queued(heap', child(q), sib(c)) <=> Queued(heap, child(q), sib(c)) \/ (q = prnt /\ c = p))
  BY <1>1, ListHeadsAre, Owner DEF AddsTo, Gains
<1>8. Tree(heap', p_parent')
  <2>1. ASSUME NEW q \in PCB, NEW c \in PCB, ~ Free(heap', q), Queued(heap', child(q), sib(c))
        PROVE  p_parent'[c] = q
    <3>1. ~ Free(heap, q)
      BY <1>4, <2>1 DEF Frame
    <3>2. CASE q = prnt /\ c = p
      BY <1>6, <3>2
    <3>3. CASE ~ (q = prnt /\ c = p)
      <4>1. p_parent[c] = q
        BY <1>3, <1>7, <2>1, <3>1, <3>3 DEF Tree
      <4>2. c # p
        BY <1>5, <4>1, ListsAssumption
      <4>. QED
        BY <1>6, <4>1, <4>2
    <3>. QED
      BY <3>2, <3>3
  <2>. QED
    BY <2>1 DEF Tree
<1>9. Queues(heap', p_semkey', s_key')
  BY <1>3, <1>4, <1>5, QueuesFrame
<1>10. ListsTypeOK'
  BY <1>5 DEF ListsInv, ListsTypeOK
<1>. QED
  BY <1>4, <1>5, <1>8, <1>9, <1>10 DEF ListsInv, Frame

(* c goes from the children of q, of which it is one.                       *)
LEMMA ChildTake ==
  ASSUME NEW h, NEW q \in PCB, NEW c \in PCB, Shape(h), ~ Free(h, q), Queued(h, child(q), sib(c))
  PROVE  /\ Takes(h, list_del(h, sib(c)), ListHeads(h), child(q), sib(c))
         /\ Frame(h, list_del(h, sib(c))) /\ SameQueues(h, list_del(h, sib(c)))
<1>. DEFINE g == list_del(h, sib(c))
<1>1. Proper(h, ListHeads(h)) /\ child(q) \in ListHeads(h)
  BY ListHeadsAre DEF Shape
<1>2. Takes(h, g, ListHeads(h), child(q), sib(c))
  BY <1>1, DeletedNode
<1>. HIDE DEF g
<1>3. child(q) \notin ProcQs /\ child(q) \notin {pcbfree_h, semd_h, semdFree_h}
  BY FixedHeads, NodeKinds, Owner
<1>4. Frame(h, g) /\ SameQueues(h, g)
  BY <1>1, <1>2, <1>3, FrameTake, TakesElsewhere
<1>. QED
  BY <1>2, <1>4 DEF g

(* The invariant is preserved when a child goes.                            *)
LEMMA InvChildTake ==
  ASSUME ListsInv, NEW q \in PCB, NEW c \in PCB, ~ Free(heap, q), Queued(heap, child(q), sib(c)),
         heap' = list_del(heap, sib(c)), p_parent' = [p_parent EXCEPT ![c] = NULL],
         UNCHANGED <<p_semkey, s_key>>, Called
  PROVE  ListsInv'
<1>1. /\ Shape(heap) /\ Queues(heap, p_semkey, s_key) /\ Tree(heap, p_parent)
      /\ Proper(heap, ListHeads(heap))
  BY DEF ListsInv, Shape
<1>2. /\ Takes(heap, heap', ListHeads(heap), child(q), sib(c))
      /\ Frame(heap, heap') /\ SameQueues(heap, heap')
  BY <1>1, ChildTake
<1>3. Loses(heap, heap', ListHeads(heap), sib(c))
  BY <1>2 DEF Takes, TakesAt
<1>4. \A d \in PCB : p_parent'[d] = IF d = c THEN NULL ELSE p_parent[d]
  BY DEF ListsInv, ListsTypeOK
<1>5. Tree(heap', p_parent')
  <2>1. ASSUME NEW r \in PCB, NEW d \in PCB, ~ Free(heap', r), Queued(heap', child(r), sib(d))
        PROVE  p_parent'[d] = r
    <3>1. ~ Free(heap, r) /\ child(r) \in ListHeads(heap)
      BY <1>2, <2>1, ListHeadsAre DEF Frame
    <3>2. Queued(heap, child(r), sib(d)) /\ sib(d) # sib(c)
      BY <1>3, <2>1, <3>1 DEF Loses
    <3>. QED
      BY <1>1, <1>4, <3>1, <3>2 DEF Tree
  <2>. QED
    BY <2>1 DEF Tree
<1>6. Queues(heap', p_semkey', s_key')
  BY <1>1, <1>2, QueuesFrame
<1>7. ListsTypeOK' /\ pos' = NULL
  BY DEF ListsInv, ListsTypeOK, Called
<1>. QED
  BY <1>2, <1>5, <1>6, <1>7 DEF ListsInv, Frame

(* The step of removeChild takes the first child.                           *)
LEMMA StepRemoveChild ==
  ASSUME ListsInv, NEW q \in PCB, removeChild(q)
  PROVE  LET c == container_of(heap.next[child(q)])
         IN  /\ ~ Free(heap, q) /\ c \in PCB /\ Queued(heap, child(q), sib(c))
             /\ heap' = list_del(heap, sib(c)) /\ p_parent' = [p_parent EXCEPT ![c] = NULL]
             /\ 1 \in 1 .. Len(list_for_each(heap, child(q)))
             /\ list_for_each(heap, child(q))[1] = sib(c)
<1>1. Shape(heap) /\ Proper(heap, ListHeads(heap)) /\ ~ Free(heap, q)
  BY AllocatedAre DEF ListsInv, Shape, removeChild
<1>2. child(q) \in ListHeads(heap) /\ Kind(child(q)) = Sibs /\ ~ list_empty(heap, child(q))
  BY <1>1, ListHeadsAre, KindOf DEF removeChild
<1>. DEFINE c == container_of(heap.next[child(q)])
<1>3. c \in PCB /\ heap.next[child(q)] = sib(c) /\ Queued(heap, child(q), sib(c))
  BY <1>1, <1>2, FirstSib
<1>4. 1 \in 1 .. Len(list_for_each(heap, child(q))) /\ list_for_each(heap, child(q))[1] = sib(c)
  BY <1>1, <1>2, <1>3, FirstOn
<1>5. heap' = list_del(heap, sib(c)) /\ p_parent' = [p_parent EXCEPT ![c] = NULL]
  BY <1>3 DEF removeChild
<1>. QED
  BY <1>1, <1>3, <1>4, <1>5

(* removeChild preserves the invariant.                                     *)
LEMMA InvRemoveChild ==
  ASSUME ListsInv, NEW q \in PCB, removeChild(q)
  PROVE  ListsInv'
<1>1. PICK c \in PCB :
        /\ ~ Free(heap, q) /\ Queued(heap, child(q), sib(c))
        /\ heap' = list_del(heap, sib(c)) /\ p_parent' = [p_parent EXCEPT ![c] = NULL]
  BY StepRemoveChild
<1>2. UNCHANGED <<p_semkey, s_key>> /\ Called
  BY DEF removeChild
<1>. QED
  BY <1>1, <1>2, InvChildTake

(* The step of outChild takes a child from its parent.                      *)
LEMMA StepOutChild ==
  ASSUME ListsInv, NEW c \in PCB, outChild(c)
  PROVE  /\ p_parent[c] \in PCB /\ ~ Free(heap, p_parent[c])
         /\ Queued(heap, child(p_parent[c]), sib(c))
         /\ heap' = list_del(heap, sib(c)) /\ p_parent' = [p_parent EXCEPT ![c] = NULL]
  BY AllocatedAre, ShapeOwners DEF ListsInv, outChild, Listed

(* outChild preserves the invariant.                                        *)
LEMMA InvOutChild ==
  ASSUME ListsInv, NEW c \in PCB, outChild(c)
  PROVE  ListsInv'
<1>1. UNCHANGED <<p_semkey, s_key>> /\ Called
  BY DEF outChild
<1>. QED
  BY <1>1, StepOutChild, InvChildTake

------------------------------------------------------------------------------
(* The queues as sequences, and outChildBlocked, which takes processes off  *)
(* one after the other.                                                     *)

(* Owners, of the list as a sequence.                                       *)
LEMMA OwnersList ==
  ASSUME NEW h, NEW a
  PROVE  Owners(h, a) = OwnersOf(list_for_each(h, a))
  BY DEF Owners, OwnersOf

(* The processes waiting for k, as Tables has them.                         *)
QueueOf(h, key, k) ==
  LET s == SemdOf(h, key, k) IN IF s = 0 THEN <<>> ELSE Owners(h, procQ(s))

(* 0 is no descriptor.                                                      *)
LEMMA ZeroNoSemd == 0 \notin Semd
  BY DEF Semd

(* The queue of the key of an active descriptor.                            *)
LEMMA QueueOfActive ==
  ASSUME NEW h, NEW semkey, NEW key, NEW s \in Semd, Shape(h), Queues(h, semkey, key), Active(h, s)
  PROVE  QueueOf(h, key, key[s]) = Owners(h, procQ(s))
  BY SemdFound, ZeroNoSemd DEF QueueOf

(* The queue of a key without a descriptor.                                 *)
LEMMA QueueOfNone ==
  ASSUME NEW h, NEW key, NEW k, Shape(h), \A s \in Semd : Active(h, s) => key[s] # k
  PROVE  SemdOf(h, key, k) = 0 /\ QueueOf(h, key, k) = <<>>
  BY GetSemd DEF QueueOf

(* The queue of each semaphore is a sequence of different processes.        *)
LEMMA QueueOfType ==
  ASSUME NEW h, NEW semkey, NEW key, NEW k, Shape(h), Queues(h, semkey, key), k # NULL
  PROVE  /\ QueueOf(h, key, k) \in Seq(PCB) /\ IsInjective(QueueOf(h, key, k))
         /\ \A p \in PCB : On(QueueOf(h, key, k), p) <=> semkey[p] = k
<1>. DEFINE s == SemdOf(h, key, k)
<1>1. CASE s = 0
  <2>1. \A r \in Semd : Active(h, r) => key[r] # k
    BY <1>1, GetSemd
  <2>2. \A p \in PCB : semkey[p] # k
    BY <2>1 DEF Queues
  <2>3. QueueOf(h, key, k) = <<>>
    BY <1>1 DEF QueueOf
  <2>. QED
    BY <2>2, <2>3 DEF IsInjective, On
<1>2. CASE s # 0
  <2>1. s \in Semd /\ Active(h, s) /\ key[s] = k
    BY <1>2, GetSemd
  <2>2. QueueOf(h, key, k) = Owners(h, procQ(s))
    BY <1>2 DEF QueueOf
  <2>. HIDE DEF s
  <2>3. Proper(h, ListHeads(h)) /\ procQ(s) \in ListHeads(h) /\ Kind(procQ(s)) = Links
    BY <2>1, ListHeadsAre, KindOf DEF Shape
  <2>. DEFINE t == list_for_each(h, procQ(s))
              q == Owners(h, procQ(s))
  <2>4. /\ t \in Seq(Node) /\ Len(t) \in Nat /\ IsInjective(t) /\ DOMAIN t = 1 .. Len(t)
    BY <2>3, ListType
  <2>5. /\ Len(q) = Len(t) /\ DOMAIN q = 1 .. Len(t)
        /\ \A i \in 1 .. Len(t) : q[i] = container_of(t[i])
    BY <2>3, OwnersAre
  <2>6. \A i \in 1 .. Len(t) : t[i] \in Links
    BY <2>3 DEF Proper, Queued, On
  <2>7. q \in Seq(PCB)
    <3>1. \A i \in 1 .. Len(t) : q[i] \in PCB
      BY <2>5, <2>6, Owner
    <3>2. q = [i \in 1 .. Len(t) |-> container_of(t[i])]
      BY <2>4 DEF Owners
    <3>. HIDE DEF t
    <3>. QED
      BY <2>4, <2>5, <3>1, <3>2
  <2>. HIDE DEF t, q
  <2>8. \A i \in 1 .. Len(t) : t[i] = link(q[i])
    BY <2>5, <2>6, Owner
  <2>9. IsInjective(q)
    BY <2>4, <2>5, <2>8 DEF IsInjective
  <2>10. \A p \in PCB : On(q, p) <=> Queued(h, procQ(s), link(p))
    BY <2>5, <2>6, <2>8, Owner DEF On, Queued, t
  <2>11. \A p \in PCB : On(q, p) <=> semkey[p] = k
    BY <2>1, <2>10 DEF Queues
  <2>. QED
    BY <2>2, <2>7, <2>9, <2>11 DEF q
<1>. QED
  BY <1>1, <1>2

(* What Leaves means for the queues as sequences.                           *)
LEMMA LeavesQueueOf ==
  ASSUME NEW h, NEW g, NEW semkey, NEW key, NEW s \in Semd, NEW p \in PCB,
         semkey \in [PCB -> Key \cup {NULL}], Shape(h), Queues(h, semkey, key), Active(h, s),
         key[s] = semkey[p], Leaves(h, g, s, p)
  PROVE  /\ \A k \in Key : k # key[s] => QueueOf(g, key, k) = QueueOf(h, key, k)
         /\ \E i \in 1 .. Len(QueueOf(h, key, key[s])) :
              /\ QueueOf(h, key, key[s])[i] = p
              /\ QueueOf(g, key, key[s]) = Without(QueueOf(h, key, key[s]), i)
<1>. DEFINE k1 == [semkey EXCEPT ![p] = NULL]
<1>1. Shape(g) /\ Queues(g, k1, key)
  BY LeavesQueues
<1>. HIDE DEF k1
<1>2. SameLists(h, g, ListHeads(h) \ {procQ(s), semd_h, semdFree_h})
  BY LeavesOthers
<1>3. \A r \in Semd : r # s => (Active(g, r) <=> Active(h, r))
  BY DEF Leaves, Frame, Retires
<1>4. \A r \in Semd : Active(h, r) /\ key[r] = key[s] => r = s
  BY DEF Queues
<1>5. ASSUME NEW k \in Key, k # key[s] PROVE QueueOf(g, key, k) = QueueOf(h, key, k)
  <2>1. CASE \E r \in Semd : Active(h, r) /\ key[r] = k
    <3>1. PICK r \in Semd : Active(h, r) /\ key[r] = k
      BY <2>1
    <3>2. r # s /\ Active(g, r)
      BY <1>3, <1>5, <3>1
    <3>3. QueueOf(h, key, k) = Owners(h, procQ(r)) /\ QueueOf(g, key, k) = Owners(g, procQ(r))
      BY <1>1, <3>1, <3>2, QueueOfActive
    <3>4. procQ(r) \in ListHeads(h) /\ procQ(r) # procQ(s) /\ procQ(r) \notin {semd_h, semdFree_h}
      BY <3>1, <3>2, ListHeadsAre, Owner, NodeKinds, FixedHeads
    <3>5. list_for_each(g, procQ(r)) = list_for_each(h, procQ(r))
      BY <1>2, <3>4 DEF SameLists
    <3>. QED
      BY <3>3, <3>5 DEF Owners
  <2>2. CASE ~ \E r \in Semd : Active(h, r) /\ key[r] = k
    <3>1. \A r \in Semd : Active(g, r) => key[r] # k
      BY <1>3, <1>5, <2>2
    <3>. QED
      BY <1>1, <2>2, <3>1, QueueOfNone
  <2>. QED
    BY <2>1, <2>2
<1>6. QueueOf(h, key, key[s]) = Owners(h, procQ(s))
  BY QueueOfActive
<1>7. Proper(h, ListHeads(h)) /\ procQ(s) \in ListHeads(h)
  BY ListHeadsAre DEF Shape
<1>. DEFINE t == list_for_each(h, procQ(s))
<1>8. t \in Seq(Node) /\ Len(t) \in Nat /\ IsInjective(t)
  BY <1>7, ListType
<1>9. /\ Len(Owners(h, procQ(s))) = Len(t)
      /\ \A i \in 1 .. Len(t) : Owners(h, procQ(s))[i] = container_of(t[i])
  BY <1>7, OwnersAre
<1>10. CASE Takes(h, g, ListHeads(h), procQ(s), link(p)) /\ Frame(h, g)
  <2>1. PICK i \in 1 .. Len(t) : t[i] = link(p) /\ TakesAt(h, g, ListHeads(h), procQ(s), i)
    BY <1>10 DEF Takes
  <2>2. list_for_each(g, procQ(s)) = Without(t, i)
    BY <2>1 DEF TakesAt
  <2>3. Active(g, s)
    BY <1>10 DEF Frame
  <2>4. QueueOf(g, key, key[s]) = Owners(g, procQ(s))
    BY <1>1, <2>3, QueueOfActive
  <2>. HIDE DEF t
  <2>5. Owners(g, procQ(s)) = OwnersOf(Without(t, i)) /\ Owners(h, procQ(s)) = OwnersOf(t)
    BY <2>2, OwnersList DEF t
  <2>6. OwnersOf(Without(t, i)) = Without(OwnersOf(t), i)
    BY <1>8, OwnersWithout
  <2>7. Owners(h, procQ(s))[i] = p
    BY <1>9, <2>1, Owner
  <2>. QED
    BY <1>5, <1>6, <1>9, <2>4, <2>5, <2>6, <2>7
<1>11. CASE Retires(h, g, s, p)
  <2>1. /\ \A n : Queued(h, procQ(s), n) <=> n = link(p)
        /\ ~ Active(g, s)
    BY <1>11 DEF Retires
  <2>2. \A r \in Semd : Active(g, r) => key[r] # key[s]
    BY <1>3, <1>4, <2>1
  <2>3. QueueOf(g, key, key[s]) = <<>>
    BY <1>1, <2>2, QueueOfNone
  <2>4. \A i \in 1 .. Len(t) : t[i] = link(p)
    BY <2>1 DEF Queued, On
  <2>5. \E i \in 1 .. Len(t) : t[i] = link(p)
    BY <2>1 DEF Queued, On
  <2>. HIDE DEF t
  <2>6. Len(t) = 1 /\ t[1] = link(p)
    <3>1. DOMAIN t = 1 .. Len(t)
      BY <1>8
    <3>2. 1 \in 1 .. Len(t)
      BY <1>8, <2>5
    <3>3. ASSUME 2 \in 1 .. Len(t) PROVE FALSE
      BY <1>8, <2>4, <3>1, <3>2, <3>3 DEF IsInjective
    <3>4. Len(t) = 1
      <4>. DEFINE m == Len(t)
      <4>1. m \in Nat /\ 1 \in 1 .. m /\ ~ (2 \in 1 .. m)
        BY <1>8, <3>2, <3>3
      <4>. HIDE DEF m
      <4>2. m = 1
        BY <4>1
      <4>. QED
        BY <4>2 DEF m
    <3>. QED
      BY <2>4, <3>2, <3>4
  <2>7. Without(Owners(h, procQ(s)), 1) = <<>>
    BY <1>9, <2>6 DEF Without
  <2>8. Owners(h, procQ(s))[1] = p
    BY <1>9, <2>6, Owner
  <2>. QED
    BY <1>5, <1>6, <1>9, <2>3, <2>6, <2>7, <2>8
<1>. QED
  BY <1>10, <1>11 DEF Leaves

(* The heaps that outChildBlocked goes through.                             *)
Unlinkings(f, h, m, order) ==
  f = [i \in 0 .. m |-> IF i = 0 THEN h ELSE unlinked(f[i - 1], order[i])]

(* The recursion of outChildBlocked over its order is defined.              *)
LEMMA UnlinkingsDefined ==
  ASSUME NEW h, NEW m \in Nat, NEW order
  PROVE  \E f : Unlinkings(f, h, m, order)
<1>. DEFINE Upto(k, g) == g[0] = h /\ \A i \in 1 .. k : g[i] = unlinked(g[i - 1], order[i])
            S == {k \in Nat : \E g : Upto(k, g)}
<1>1. 0 \in S
  <2>1. Upto(0, [i \in {0} |-> h])
    OBVIOUS
  <2>. QED
    BY <2>1
<1>2. ASSUME NEW k \in S PROVE k + 1 \in S
  <2>1. PICK g : Upto(k, g)
    OBVIOUS
  <2>2. k \in Nat
    OBVIOUS
  <2>. DEFINE g1 == [i \in 0 .. k + 1 |-> IF i = k + 1 THEN unlinked(g[k], order[k + 1]) ELSE g[i]]
  <2>3. g1[0] = h
    BY <2>1, <2>2
  <2>4. ASSUME NEW i \in 1 .. k + 1 PROVE g1[i] = unlinked(g1[i - 1], order[i])
    <3>1. CASE i = k + 1
      BY <2>2, <3>1
    <3>2. CASE i # k + 1
      <4>1. i \in 1 .. k
        BY <2>2, <3>2
      <4>2. g1[i] = g[i] /\ g1[i - 1] = g[i - 1]
        BY <2>2, <4>1
      <4>. QED
        BY <2>1, <4>1, <4>2
    <3>. QED
      BY <3>1, <3>2
  <2>5. Upto(k + 1, g1)
    BY <2>3, <2>4
  <2>. HIDE DEF Upto, g1
  <2>. QED
    BY <2>2, <2>5
<1>3. S = Nat
  <2>1. S \subseteq Nat
    OBVIOUS
  <2>. HIDE DEF S
  <2>. QED
    BY <1>1, <1>2, <2>1, FromZero
<1>4. PICK g : Upto(m, g)
  <2>. HIDE DEF Upto
  <2>. QED
    BY <1>3
<1>. DEFINE f == [i \in 0 .. m |-> g[i]]
<1>5. \A i \in 0 .. m : g[i] = IF i = 0 THEN h ELSE unlinked(f[i - 1], order[i])
  BY <1>4
<1>6. Unlinkings(f, h, m, order)
  <2>. DEFINE r == [i \in 0 .. m |-> IF i = 0 THEN h ELSE unlinked(f[i - 1], order[i])]
  <2>1. f = r
    <3>. HIDE DEF S, Upto
    <3>. QED
      BY <1>5
  <2>. QED
    BY <2>1 DEF Unlinkings
<1>. QED
  BY <1>6

(* order lists the elements of S, each of them once.                        *)
LEMMA Ordered ==
  ASSUME NEW S, IsFiniteSet(S), NEW order \in SetToSeqs(S)
  PROVE  /\ order \in Seq(S) /\ Len(order) = Cardinality(S) /\ Len(order) \in Nat
         /\ \A i \in 1 .. Len(order) : order[i] \in S
         /\ \A i, j \in 1 .. Len(order) : order[i] = order[j] => i = j
         /\ \A q \in S : \E i \in 1 .. Len(order) : order[i] = q
<1>. DEFINE m == Cardinality(S)
<1>1. m \in Nat
  BY FS_CardinalityType
<1>2. order \in [1 .. m -> S] /\ \A i, j \in 1 .. m : i # j => order[i] # order[j]
  BY DEF SetToSeqs
<1>3. IsFiniteSet(1 .. m) /\ Cardinality(1 .. m) = m
  BY <1>1, FS_Interval
<1>4. order \in Injection(1 .. m, S)
  BY <1>2 DEF Injection, IsInjective
<1>5. order \in Surjection(1 .. m, S)
  BY <1>3, <1>4, FS_Injection
<1>. HIDE DEF m
<1>6. order \in Seq(S) /\ Len(order) = m
  BY <1>1, <1>2
<1>7. \A q \in S : \E i \in 1 .. m : order[i] = q
  BY <1>5 DEF Surjection
<1>. QED
  BY <1>1, <1>2, <1>6, <1>7 DEF m

(* Before, in terms of positions.                                           *)
LEMMA BeforeIs ==
  ASSUME NEW N, NEW t, t \in Seq(N)
  PROVE  \A o : o \in Model!Before(t) <=>
           \E a, b \in 1 .. Len(t) : a <= b /\ o = <<t[a], t[b]>>
<1>1. Len(t) \in Nat /\ DOMAIN t = 1 .. Len(t)
  OBVIOUS
<1>2. Model!Before(t) = {o \in ToSet(t) \X ToSet(t) :
        \E a, b \in 1 .. Len(t) : a <= b /\ o = <<t[a], t[b]>>}
  BY <1>1 DEF Model!Before, Model!ToSet, ToSet
<1>3. \A a \in 1 .. Len(t) : t[a] \in ToSet(t)
  BY <1>1 DEF ToSet
<1>. QED
  BY <1>2, <1>3

(* Taking one element leaves the order of the others.                       *)
LEMMA BeforeWithout ==
  ASSUME NEW N, NEW t, NEW i, t \in Seq(N), IsInjective(t), i \in 1 .. Len(t)
  PROVE  Model!Before(Without(t, i)) = {o \in Model!Before(t) : o[1] # t[i] /\ o[2] # t[i]}
<1>. DEFINE w == Without(t, i)
<1>1. w \in Seq(N) /\ Len(w) = Len(t) - 1 /\ Len(t) \in Nat /\ DOMAIN t = 1 .. Len(t)
  BY WithoutType
<1>2. \A j \in 1 .. Len(t) - 1 : w[j] = IF j < i THEN t[j] ELSE t[j + 1]
  BY DEF Without
<1>. HIDE DEF w
<1>3. \A o : o \in Model!Before(w) <=> \E a, b \in 1 .. Len(w) : a <= b /\ o = <<w[a], w[b]>>
  BY <1>1, BeforeIs
<1>4. \A o : o \in Model!Before(t) <=> \E a, b \in 1 .. Len(t) : a <= b /\ o = <<t[a], t[b]>>
  BY BeforeIs
<1>5. \A j \in 1 .. Len(t) : t[j] = t[i] => j = i
  BY <1>1 DEF IsInjective
<1>6. ASSUME NEW o, o \in Model!Before(w) PROVE o \in Model!Before(t) /\ o[1] # t[i] /\ o[2] # t[i]
  <2>1. PICK a \in 1 .. Len(w), b \in 1 .. Len(w) : a <= b /\ o = <<w[a], w[b]>>
    BY <1>3, <1>6
  <2>. DEFINE c == IF a < i THEN a ELSE a + 1
              d == IF b < i THEN b ELSE b + 1
  <2>2. /\ c \in 1 .. Len(t) /\ d \in 1 .. Len(t) /\ c <= d /\ c # i /\ d # i
        /\ a \in 1 .. Len(t) - 1 /\ b \in 1 .. Len(t) - 1
    BY <1>1, <2>1
  <2>3. w[a] = t[c] /\ w[b] = t[d]
    BY <1>2, <2>2
  <2>. HIDE DEF c, d
  <2>4. o = <<t[c], t[d]>>
    BY <2>1, <2>3
  <2>. QED
    BY <1>4, <1>5, <2>2, <2>4
<1>7. ASSUME NEW o, o \in Model!Before(t), o[1] # t[i], o[2] # t[i] PROVE o \in Model!Before(w)
  <2>1. PICK a \in 1 .. Len(t), b \in 1 .. Len(t) : a <= b /\ o = <<t[a], t[b]>>
    BY <1>4, <1>7
  <2>2. a # i /\ b # i
    BY <1>7, <2>1
  <2>. DEFINE c == IF a < i THEN a ELSE a - 1
              d == IF b < i THEN b ELSE b - 1
  <2>3. /\ c \in 1 .. Len(t) - 1 /\ d \in 1 .. Len(t) - 1 /\ c <= d
    BY <1>1, <2>1, <2>2
  <2>4. w[c] = t[a] /\ w[d] = t[b]
    BY <1>1, <1>2, <2>2, <2>3
  <2>. HIDE DEF c, d
  <2>. QED
    BY <1>1, <1>3, <2>1, <2>3, <2>4
<1>8. Model!Before(w) = {o \in Model!Before(t) : o[1] # t[i] /\ o[2] # t[i]}
  BY <1>6, <1>7
<1>. QED
  BY <1>8 DEF w

(* From h to g processes went off the queues they waited in, those in gone. *)
Thinned(h, g, semkey, key, gone) ==
  /\ Shape(g) /\ Queues(g, [q \in PCB |-> IF q \in gone THEN NULL ELSE semkey[q]], key)
  /\ SameChildren(h, g) /\ \A q \in PCB : Free(g, q) <=> Free(h, q)
  /\ list_for_each(g, readyQueue_h) = list_for_each(h, readyQueue_h)
  /\ list_for_each(g, pcbfree_h) = list_for_each(h, pcbfree_h)
  /\ \A q \in PCB : ~ Free(h, q) => list_for_each(g, child(q)) = list_for_each(h, child(q))
  /\ \A k \in Key : Model!Before(QueueOf(g, key, k)) =
       {o \in Model!Before(QueueOf(h, key, k)) : o[1] \notin gone /\ o[2] \notin gone}

(* Nobody has gone yet.                                                     *)
LEMMA ThinnedNone ==
  ASSUME NEW h, NEW semkey, NEW key, Shape(h), Queues(h, semkey, key), semkey \in [PCB -> Key \cup {NULL}]
  PROVE  Thinned(h, h, semkey, key, {})
<1>1. [q \in PCB |-> IF q \in {} THEN NULL ELSE semkey[q]] = semkey
  OBVIOUS
<1>. QED
  BY <1>1 DEF Thinned, SameChildren

(* One more goes.                                                           *)
LEMMA ThinnedOne ==
  ASSUME NEW h, NEW f, NEW semkey, NEW key, NEW gone, NEW p \in PCB,
         Shape(h), semkey \in [PCB -> Key \cup {NULL}],
         Thinned(h, f, semkey, key, gone), p \notin gone, semkey[p] # NULL
  PROVE  Thinned(h, Unlink(f, key, semkey[p], p), semkey, key, gone \cup {p})
<1>. DEFINE k1 == [q \in PCB |-> IF q \in gone THEN NULL ELSE semkey[q]]
            k2 == [q \in PCB |-> IF q \in gone \cup {p} THEN NULL ELSE semkey[q]]
            g == Unlink(f, key, semkey[p], p)
            s == SemdOf(f, key, k1[p])
<1>1. k1 \in [PCB -> Key \cup {NULL}] /\ k1[p] = semkey[p] /\ k2 = [k1 EXCEPT ![p] = NULL]
  OBVIOUS
<1>2. Shape(f) /\ Queues(f, k1, key)
  BY DEF Thinned
<1>. HIDE DEF k1, k2
<1>3. /\ s \in Semd /\ s # 0 /\ Active(f, s) /\ key[s] = k1[p] /\ Queued(f, procQ(s), link(p))
      /\ Leaves(f, Unlink(f, key, k1[p], p), s, p)
  BY <1>1, <1>2, UnlinkHeap
<1>4. Leaves(f, g, s, p)
  BY <1>1, <1>3
<1>. HIDE DEF g, s
<1>5. Shape(g) /\ Queues(g, k2, key)
  BY <1>1, <1>2, <1>3, <1>4, LeavesQueues
<1>6. /\ SameLists(f, g, ListHeads(f) \ {procQ(s), semd_h, semdFree_h})
      /\ \A q \in PCB : Free(g, q) <=> Free(f, q)
      /\ list_for_each(g, readyQueue_h) = list_for_each(f, readyQueue_h)
      /\ list_for_each(g, pcbfree_h) = list_for_each(f, pcbfree_h)
      /\ SameChildren(f, g)
  BY <1>2, <1>3, <1>4, LeavesOthers
<1>7. /\ SameChildren(h, f) /\ \A q \in PCB : Free(f, q) <=> Free(h, q)
      /\ list_for_each(f, readyQueue_h) = list_for_each(h, readyQueue_h)
      /\ list_for_each(f, pcbfree_h) = list_for_each(h, pcbfree_h)
      /\ \A q \in PCB : ~ Free(h, q) => list_for_each(f, child(q)) = list_for_each(h, child(q))
      /\ \A k \in Key : Model!Before(QueueOf(f, key, k)) =
           {o \in Model!Before(QueueOf(h, key, k)) : o[1] \notin gone /\ o[2] \notin gone}
  BY DEF Thinned
<1>8. \A q \in PCB : ~ Free(h, q) => list_for_each(g, child(q)) = list_for_each(h, child(q))
  <2>1. ASSUME NEW q \in PCB, ~ Free(h, q)
        PROVE  list_for_each(g, child(q)) = list_for_each(h, child(q))
    <3>1. child(q) \in ListHeads(f)
      BY <1>7, <2>1, ListHeadsAre
    <3>2. child(q) # procQ(s) /\ child(q) \notin {semd_h, semdFree_h}
      BY <1>3, Owner, NodeKinds, FixedHeads
    <3>. QED
      BY <1>6, <1>7, <2>1, <3>1, <3>2 DEF SameLists
  <2>. QED
    BY <2>1
<1>9. SameChildren(h, g)
  BY <1>8 DEF SameChildren, Queued
<1>10. /\ \A k \in Key : k # key[s] => QueueOf(g, key, k) = QueueOf(f, key, k)
       /\ \E i \in 1 .. Len(QueueOf(f, key, key[s])) :
            /\ QueueOf(f, key, key[s])[i] = p
            /\ QueueOf(g, key, key[s]) = Without(QueueOf(f, key, key[s]), i)
  BY <1>1, <1>2, <1>3, <1>4, LeavesQueueOf
<1>11. key[s] \in Key
  BY <1>1, <1>3
<1>12. \A k \in Key : Model!Before(QueueOf(g, key, k)) =
         {o \in Model!Before(QueueOf(f, key, k)) : o[1] # p /\ o[2] # p}
  <2>1. ASSUME NEW k \in Key, k = key[s]
        PROVE  Model!Before(QueueOf(g, key, k)) =
                 {o \in Model!Before(QueueOf(f, key, k)) : o[1] # p /\ o[2] # p}
    <3>. DEFINE t == QueueOf(f, key, k)
    <3>1. t \in Seq(PCB) /\ IsInjective(t)
      BY <1>2, <2>1, QueueOfType, ListsAssumption
    <3>2. PICK i \in 1 .. Len(t) : t[i] = p /\ QueueOf(g, key, k) = Without(t, i)
      BY <1>10, <2>1
    <3>. HIDE DEF t
    <3>3. Model!Before(Without(t, i)) = {o \in Model!Before(t) : o[1] # t[i] /\ o[2] # t[i]}
      BY <3>1, BeforeWithout
    <3>. QED
      BY <3>2, <3>3 DEF t
  <2>2. ASSUME NEW k \in Key, k # key[s]
        PROVE  Model!Before(QueueOf(g, key, k)) =
                 {o \in Model!Before(QueueOf(f, key, k)) : o[1] # p /\ o[2] # p}
    <3>. DEFINE t == QueueOf(f, key, k)
    <3>1. t \in Seq(PCB) /\ \A q \in PCB : On(t, q) <=> k1[q] = k
      BY <1>2, <2>2, QueueOfType, ListsAssumption
    <3>2. ~ On(t, p)
      BY <1>3, <2>2, <3>1
    <3>3. QueueOf(g, key, k) = t
      BY <1>10, <2>2
    <3>. HIDE DEF t
    <3>4. \A o : o \in Model!Before(t) <=> \E a, b \in 1 .. Len(t) : a <= b /\ o = <<t[a], t[b]>>
      BY <3>1, BeforeIs
    <3>5. \A o \in Model!Before(t) : o[1] # p /\ o[2] # p
      BY <3>2, <3>4 DEF On
    <3>. QED
      BY <3>3, <3>5 DEF t
  <2>. QED
    BY <2>1, <2>2
<1>13. \A k \in Key : Model!Before(QueueOf(g, key, k)) =
         {o \in Model!Before(QueueOf(h, key, k)) : o[1] \notin gone \cup {p} /\ o[2] \notin gone \cup {p}}
  BY <1>7, <1>12
<1>. QED
  BY <1>5, <1>6, <1>7, <1>8, <1>9, <1>13 DEF Thinned, k2, g

(* outChildBlocked takes all those it evicts off their queues.              *)
LEMMA StepOutChildBlocked ==
  ASSUME ListsInv, NEW p \in PCB, outChildBlocked(p)
  PROVE  /\ Thinned(heap, heap', p_semkey, s_key, evicted(p))
         /\ evicted(p) \subseteq PCB
<1>. DEFINE out == evicted(p)
<1>1. /\ Shape(heap) /\ Queues(heap, p_semkey, s_key) /\ p_semkey \in [PCB -> Key \cup {NULL}]
  BY DEF ListsInv, ListsTypeOK
<1>2. out \subseteq PCB /\ \A q \in out : getSemd(heap, p_semkey[q]) # 0
  BY DEF evicted
<1>3. PICK order \in SetToSeqs(out) :
        heap' = LET left[i \in 0 .. Len(order)] ==
                      IF i = 0 THEN heap ELSE unlinked(left[i - 1], order[i])
                IN  left[Len(order)]
  BY DEF outChildBlocked
<1>4. \A q \in out : p_semkey[q] # NULL
  BY <1>2, StepOutBlocked
<1>5. IsFiniteSet(out)
  BY <1>2, FS_Subset, ListsAssumption
<1>. HIDE DEF out
<1>6. /\ Len(order) \in Nat
      /\ \A i \in 1 .. Len(order) : order[i] \in out
      /\ \A i, j \in 1 .. Len(order) : order[i] = order[j] => i = j
      /\ \A q \in out : \E i \in 1 .. Len(order) : order[i] = q
  BY <1>5, Ordered
<1>. DEFINE m == Len(order)
            left == CHOOSE f : Unlinkings(f, heap, m, order)
            gone(i) == {order[j] : j \in 1 .. i}
            S == {i \in Nat : i <= m => Thinned(heap, left[i], p_semkey, s_key, gone(i))}
<1>7. Unlinkings(left, heap, m, order)
  BY <1>6, UnlinkingsDefined
<1>8. heap' = left[m]
  BY <1>3 DEF Unlinkings
<1>. HIDE DEF left
<1>9. \A i \in 0 .. m : left[i] = IF i = 0 THEN heap ELSE unlinked(left[i - 1], order[i])
  BY <1>7 DEF Unlinkings
<1>. HIDE DEF m
<1>10. m \in Nat
  BY <1>6 DEF m
<1>11. 0 \in S
  <2>1. left[0] = heap /\ gone(0) = {}
    BY <1>9, <1>10
  <2>2. Thinned(heap, heap, p_semkey, s_key, {})
    BY <1>1, ThinnedNone
  <2>. QED
    BY <2>1, <2>2
<1>12. ASSUME NEW i \in S PROVE i + 1 \in S
  <2>1. i \in Nat
    OBVIOUS
  <2>2. SUFFICES ASSUME i + 1 <= m
                 PROVE  Thinned(heap, left[i + 1], p_semkey, s_key, gone(i + 1))
    BY <2>1
  <2>3. Thinned(heap, left[i], p_semkey, s_key, gone(i)) /\ i + 1 \in 1 .. m /\ (i + 1) - 1 = i
    BY <1>10, <2>1, <2>2
  <2>. DEFINE q == order[i + 1]
              gn == gone(i)
  <2>4. q \in out /\ q \in PCB /\ p_semkey[q] # NULL
    BY <1>2, <1>4, <1>6, <2>3 DEF m
  <2>5. q \notin gn
    <3>1. SUFFICES ASSUME NEW j \in 1 .. i, order[j] = q PROVE FALSE
      OBVIOUS
    <3>2. j \in 1 .. m /\ j # i + 1
      BY <1>10, <2>1, <2>2
    <3>. QED
      BY <1>6, <2>3, <3>1, <3>2 DEF m
  <2>6. gone(i + 1) = gn \cup {q}
    <3>1. 1 .. i + 1 = (1 .. i) \cup {i + 1}
      BY <2>1
    <3>. QED
      BY <3>1
  <2>7. left[i + 1] = Unlink(left[i], s_key, p_semkey[q], q)
    <3>1. left[i + 1] = unlinked(left[i], q)
      BY <1>9, <1>10, <2>1, <2>3
    <3>. QED
      BY <3>1, UnlinkedOf
  <2>. HIDE DEF q, gn
  <2>8. Thinned(heap, left[i], p_semkey, s_key, gn)
    BY <2>3 DEF gn
  <2>9. Thinned(heap, Unlink(left[i], s_key, p_semkey[q], q), p_semkey, s_key, gn \cup {q})
    BY <1>1, <2>4, <2>5, <2>8, ThinnedOne
  <2>. QED
    BY <2>6, <2>7, <2>9
<1>13. S = Nat
  <2>1. S \subseteq Nat
    OBVIOUS
  <2>. HIDE DEF S
  <2>. QED
    BY <1>11, <1>12, <2>1, FromZero
<1>14. Thinned(heap, left[m], p_semkey, s_key, gone(m))
  BY <1>10, <1>13
<1>15. gone(m) = out
  BY <1>6 DEF m
<1>. QED
  BY <1>2, <1>8, <1>14, <1>15 DEF out

(* outChildBlocked preserves the invariant.                                 *)
LEMMA InvOutChildBlocked ==
  ASSUME ListsInv, NEW p \in PCB, outChildBlocked(p)
  PROVE  ListsInv'
<1>. DEFINE out == evicted(p)
            k1 == [q \in PCB |-> IF q \in out THEN NULL ELSE p_semkey[q]]
<1>1. /\ p_semkey' = k1
      /\ UNCHANGED <<scope, p_parent, s_key, pos>> /\ pos = NULL
  BY DEF outChildBlocked, Called
<1>2. Thinned(heap, heap', p_semkey, s_key, out)
  BY StepOutChildBlocked
<1>3. ListsTypeOK'
  BY <1>1 DEF ListsInv, ListsTypeOK
<1>4. Tree(heap, p_parent)
  BY DEF ListsInv
<1>. HIDE DEF out
<1>5. /\ Shape(heap') /\ Queues(heap', k1, s_key) /\ SameChildren(heap, heap')
      /\ \A q \in PCB : Free(heap', q) <=> Free(heap, q)
  BY <1>2 DEF Thinned
<1>6. Tree(heap', p_parent')
  BY <1>1, <1>4, <1>5 DEF Tree, SameChildren
<1>. HIDE DEF k1
<1>. QED
  BY <1>1, <1>3, <1>5, <1>6 DEF ListsInv

------------------------------------------------------------------------------
(* The initial states and the theorems.                                     *)

(* Every step preserves the invariant.                                      *)
LEMMA InvNext ==
  ASSUME ListsInv, [ListsNext]_listVars
  PROVE  ListsInv'
<1>1. CASE UNCHANGED listVars
  BY <1>1 DEF listVars, ListsInv, ListsTypeOK
<1>2. CASE ListsNext
  <2>1. scope.keys \subseteq Key
    BY ListsAssumption DEF ListsInv, ListsTypeOK
  <2>2. CASE allocPcb
    BY <2>2, InvAllocPcb
  <2>3. CASE removeProcQ
    BY <2>3, InvRemoveProcQ
  <2>4. CASE outProcQ_loop
    BY <2>4, InvOutProcQLoop
  <2>5. ASSUME NEW p \in PCB, freePcb(p) \/ insertProcQ(p) \/ outProcQ(p)
        PROVE  ListsInv'
    BY <2>5, InvFreePcb, InvInsertProcQ, InvOutProcQ
  <2>6. ASSUME NEW p \in PCB, outBlocked(p) \/ outChildBlocked(p) \/ outChild(p) \/ removeChild(p)
        PROVE  ListsInv'
    BY <2>6, InvOutBlocked, InvOutChildBlocked, InvOutChild, InvRemoveChild
  <2>7. ASSUME NEW p \in PCB, NEW k \in scope.keys, insertBlocked(k, p)
        PROVE  ListsInv'
    BY <2>1, <2>7, InvInsertBlocked
  <2>8. ASSUME NEW p \in PCB, NEW prnt \in PCB, insertChild(prnt, p)
        PROVE  ListsInv'
    BY <2>8, InvInsertChild
  <2>9. ASSUME NEW k \in scope.keys, removeBlocked(k)
        PROVE  ListsInv'
    BY <2>1, <2>9, InvRemoveBlocked
  <2>. QED
    BY <1>2, <2>2, <2>3, <2>4, <2>5, <2>6, <2>7, <2>8, <2>9 DEF ListsNext
<1>. QED
  BY <1>1, <1>2

(* The heaps that the loops of initPcbs and initASL go through.             *)
Fillings(f, h, head, nodes, m) ==
  f = [i \in 0 .. m |-> IF i = 0 THEN INIT_LIST_HEAD(h, head)
                                 ELSE list_add(f[i - 1], nodes[i], head)]

(* The recursion of Filled is defined.                                      *)
LEMMA FillingsDefined ==
  ASSUME NEW h, NEW head, NEW nodes, NEW m \in Nat
  PROVE  \E f : Fillings(f, h, head, nodes, m)
<1>. DEFINE Upto(k, g) == /\ g[0] = INIT_LIST_HEAD(h, head)
                          /\ \A i \in 1 .. k : g[i] = list_add(g[i - 1], nodes[i], head)
            S == {k \in Nat : \E g : Upto(k, g)}
<1>1. 0 \in S
  <2>1. Upto(0, [i \in {0} |-> INIT_LIST_HEAD(h, head)])
    OBVIOUS
  <2>. QED
    BY <2>1
<1>2. ASSUME NEW k \in S PROVE k + 1 \in S
  <2>1. PICK g : Upto(k, g)
    OBVIOUS
  <2>2. k \in Nat
    OBVIOUS
  <2>. DEFINE g1 == [i \in 0 .. k + 1 |->
                       IF i = k + 1 THEN list_add(g[k], nodes[k + 1], head) ELSE g[i]]
  <2>3. g1[0] = INIT_LIST_HEAD(h, head)
    BY <2>1, <2>2
  <2>4. ASSUME NEW i \in 1 .. k + 1 PROVE g1[i] = list_add(g1[i - 1], nodes[i], head)
    <3>1. CASE i = k + 1
      BY <2>2, <3>1
    <3>2. CASE i # k + 1
      <4>1. i \in 1 .. k
        BY <2>2, <3>2
      <4>2. g1[i] = g[i] /\ g1[i - 1] = g[i - 1]
        BY <2>2, <4>1
      <4>. QED
        BY <2>1, <4>1, <4>2
    <3>. QED
      BY <3>1, <3>2
  <2>5. Upto(k + 1, g1)
    BY <2>3, <2>4
  <2>. HIDE DEF Upto, g1
  <2>. QED
    BY <2>2, <2>5
<1>3. S = Nat
  <2>1. S \subseteq Nat
    OBVIOUS
  <2>. HIDE DEF S
  <2>. QED
    BY <1>1, <1>2, <2>1, FromZero
<1>4. PICK g : Upto(m, g)
  <2>. HIDE DEF Upto
  <2>. QED
    BY <1>3
<1>. DEFINE f == [i \in 0 .. m |-> g[i]]
<1>5. \A i \in 0 .. m : g[i] = IF i = 0 THEN INIT_LIST_HEAD(h, head)
                               ELSE list_add(f[i - 1], nodes[i], head)
  BY <1>4
<1>6. Fillings(f, h, head, nodes, m)
  <2>. DEFINE r == [i \in 0 .. m |-> IF i = 0 THEN INIT_LIST_HEAD(h, head)
                                     ELSE list_add(f[i - 1], nodes[i], head)]
  <2>1. f = r
    <3>. HIDE DEF S, Upto
    <3>. QED
      BY <1>5
  <2>. QED
    BY <2>1 DEF Fillings
<1>. QED
  BY <1>6

(* From h to g there is one list more, that of a, with the elements of nodes. *)
Fills(h, g, A, a, nodes) ==
  /\ Proper(g, A \cup {a}) /\ SameLists(h, g, A)
  /\ Len(list_for_each(g, a)) = Len(nodes)
  /\ \A n : Queued(g, a, n) <=> On(nodes, n)

(* What the loops of initPcbs and initASL leave.                            *)
LEMMA FilledList ==
  ASSUME NEW h, NEW A, NEW a, NEW nodes, Proper(h, A), a \in AllHeads \ A,
         nodes \in Seq(Kind(a)), IsInjective(nodes),
         \A n \in Kind(a) : Loose(h, A, n)
  PROVE  Fills(h, Filled(h, a, nodes), A, a, nodes)
<1>. DEFINE m == Len(nodes)
            done == CHOOSE f : Fillings(f, h, a, nodes, m)
            B == A \cup {a}
            InFirst(n, i) == \E j \in 1 .. i : nodes[j] = n
            S == {i \in Nat : i <= m =>
                    /\ Proper(done[i], B) /\ SameLists(h, done[i], A)
                    /\ Len(list_for_each(done[i], a)) = i
                    /\ \A n : Queued(done[i], a, n) <=> InFirst(n, i)}
<1>1. m \in Nat /\ DOMAIN nodes = 1 .. m /\ \A i \in 1 .. m : nodes[i] \in Kind(a)
  OBVIOUS
<1>2. \A i, j \in 1 .. m : nodes[i] = nodes[j] => i = j
  BY <1>1 DEF IsInjective
<1>3. Fillings(done, h, a, nodes, m)
  BY <1>1, FillingsDefined
<1>4. Filled(h, a, nodes) = done[m]
  BY DEF Filled, Fillings
<1>. HIDE DEF done
<1>5. \A i \in 0 .. m : done[i] = IF i = 0 THEN INIT_LIST_HEAD(h, a)
                                  ELSE list_add(done[i - 1], nodes[i], a)
  BY <1>3 DEF Fillings
<1>. HIDE DEF m
<1>6. 0 \in S
  <2>1. Opens(h, INIT_LIST_HEAD(h, a), A, a)
    BY NewOne
  <2>2. done[0] = INIT_LIST_HEAD(h, a)
    BY <1>1, <1>5
  <2>3. Opens(h, done[0], A, a)
    BY <2>1, <2>2
  <2>4. /\ Proper(done[0], B) /\ SameLists(h, done[0], A)
        /\ list_for_each(done[0], a) = <<>> /\ \A n : ~ Queued(done[0], a, n)
    BY <2>3 DEF Opens
  <2>. QED
    BY <2>4
<1>7. ASSUME NEW i \in S PROVE i + 1 \in S
  <2>1. i \in Nat
    OBVIOUS
  <2>2. SUFFICES ASSUME i + 1 <= m
                 PROVE  /\ Proper(done[i + 1], B) /\ SameLists(h, done[i + 1], A)
                        /\ Len(list_for_each(done[i + 1], a)) = i + 1
                        /\ \A n : Queued(done[i + 1], a, n) <=> InFirst(n, i + 1)
    BY <2>1
  <2>. DEFINE f == done[i]
              g == done[i + 1]
              new == nodes[i + 1]
  <2>3. /\ Proper(f, B) /\ SameLists(h, f, A) /\ Len(list_for_each(f, a)) = i
        /\ \A n : Queued(f, a, n) <=> InFirst(n, i)
    BY <1>1, <2>1, <2>2
  <2>4. i + 1 \in 1 .. m /\ (i + 1) - 1 = i /\ new \in Kind(a)
    BY <1>1, <2>1, <2>2
  <2>5. g = list_add(f, new, a)
    BY <1>1, <1>5, <2>1, <2>4
  <2>6. ~ Queued(f, a, new)
    <3>1. \A j \in 1 .. i : j \in 1 .. m /\ j # i + 1
      BY <1>1, <2>1, <2>2
    <3>. QED
      BY <1>2, <2>3, <2>4, <3>1
  <2>7. \A n : InFirst(n, i + 1) <=> InFirst(n, i) \/ n = new
    <3>1. 1 .. i + 1 = (1 .. i) \cup {i + 1}
      BY <2>1
    <3>. QED
      BY <3>1
  <2>. HIDE DEF f, g, new, InFirst
  <2>8. Loose(f, B, new)
    BY <2>3, <2>4, <2>6 DEF Loose, SameLists, Queued
  <2>9. AddsTo(f, list_add(f, new, a), B, a, 0, new)
    BY <2>3, <2>4, <2>8, AddedFirst
  <2>10. AddsTo(f, g, B, a, 0, new)
    BY <2>5, <2>9
  <2>11. Len(list_for_each(g, a)) = i + 1
    BY <2>3, <2>4, <2>10, AddsLen
  <2>12. Proper(g, B) /\ Gains(f, g, B, a, new) /\ SameLists(f, g, B \ {a})
    BY <2>10 DEF AddsTo
  <2>13. SameLists(h, g, A)
    BY <2>3, <2>12 DEF SameLists
  <2>14. \A n : Queued(g, a, n) <=> InFirst(n, i + 1)
    BY <2>3, <2>7, <2>12 DEF Gains
  <2>. QED
    BY <2>11, <2>12, <2>13, <2>14 DEF g
<1>8. S = Nat
  <2>1. S \subseteq Nat
    OBVIOUS
  <2>. HIDE DEF S
  <2>. QED
    BY <1>6, <1>7, <2>1, FromZero
<1>9. /\ Proper(done[m], B) /\ SameLists(h, done[m], A)
      /\ Len(list_for_each(done[m], a)) = m
      /\ \A n : Queued(done[m], a, n) <=> InFirst(n, m)
  <2>1. m \in S
    <3>. HIDE DEF S
    <3>. QED
      BY <1>1, <1>8
  <2>. HIDE DEF B, InFirst
  <2>2. m <= m
    BY <1>1
  <2>. QED
    BY <2>1, <2>2
<1>10. \A n : Queued(done[m], a, n) <=> On(nodes, n)
  BY <1>9 DEF On, m
<1>. QED
  BY <1>4, <1>9, <1>10 DEF Fills, m

(* The heap ListsInit leaves: every PCB free, in some order, every          *)
(* descriptor on the free list, nothing queued.                             *)
Empty(h) ==
  /\ Proper(h, Fixed)
  /\ \A n : Queued(h, pcbfree_h, n) <=> n \in Links
  /\ \A n : ~ Queued(h, semd_h, n) /\ ~ Queued(h, readyQueue_h, n)
  /\ list_for_each(h, semd_h) = <<>>
  /\ list_for_each(h, readyQueue_h) = <<>>
  /\ Len(list_for_each(h, semdFree_h)) = MAXPROC
  /\ Len(list_for_each(h, pcbfree_h)) = MAXPROC

(* The heap ListsInit leaves is that.                                       *)
LEMMA InitHeap ==
  ASSUME ListsInit
  PROVE  Empty(heap)
<1>. DEFINE zeros == [next |-> [n \in Node |-> NULL], prev |-> [n \in Node |-> NULL]]
            ready == INIT_LIST_HEAD(zeros, readyQueue_h)
            active == INIT_LIST_HEAD(ready, semd_h)
            nexts == [s \in Semd |-> s_next(s)]
            semds == Filled(active, semdFree_h, nexts)
            links(table) == [i \in DOMAIN table |-> link(table[i])]
            A1 == {readyQueue_h}
            A2 == A1 \cup {semd_h}
            A3 == A2 \cup {semdFree_h}
<1>1. PICK table \in SetToSeqs(PCB) : heap = Filled(semds, pcbfree_h, links(table))
  BY DEF ListsInit
<1>2. /\ IsFiniteSet(PCB) /\ MAXPROC = Cardinality(PCB) /\ MAXPROC \in Nat
  BY ListsAssumption, FS_CardinalityType
<1>3. Proper(zeros, {})
  <2>1. zeros \in HeapOver(Node, Node \cup {NULL})
    BY DEF HeapOver
  <2>. HIDE DEF zeros
  <2>. QED
    BY <2>1, NodeFinite DEF Proper, WellLinked
<1>. HIDE DEF zeros
<1>4. Proper(ready, A1) /\ list_for_each(ready, readyQueue_h) = <<>>
  <2>1. readyQueue_h \in AllHeads \ {} /\ {} \cup {readyQueue_h} = A1
    BY FixedHeads
  <2>2. Opens(zeros, INIT_LIST_HEAD(zeros, readyQueue_h), {}, readyQueue_h)
    BY <1>3, <2>1, NewOne
  <2>. QED
    BY <2>1, <2>2 DEF Opens
<1>. HIDE DEF ready
<1>5. /\ Proper(active, A2) /\ list_for_each(active, semd_h) = <<>>
      /\ list_for_each(active, readyQueue_h) = <<>>
  <2>1. semd_h \in AllHeads \ A1
    BY FixedHeads
  <2>2. Opens(ready, INIT_LIST_HEAD(ready, semd_h), A1, semd_h)
    BY <1>4, <2>1, NewOne
  <2>3. Opens(ready, active, A1, semd_h)
    BY <2>2
  <2>. HIDE DEF active
  <2>4. SameLists(ready, active, A1)
    BY <2>3 DEF Opens
  <2>. QED
    BY <1>4, <2>3, <2>4 DEF Opens, SameLists
<1>. HIDE DEF active
<1>6. \A n : ~ Queued(active, semd_h, n) /\ ~ Queued(active, readyQueue_h, n)
  BY <1>5 DEF Queued, On
<1>7. /\ nexts \in Seq(Nexts) /\ Len(nexts) = MAXPROC /\ IsInjective(nexts)
      /\ \A n : On(nexts, n) <=> n \in Nexts
  <2>1. DOMAIN nexts = 1 .. MAXPROC
    BY DEF Semd
  <2>2. \A s \in 1 .. MAXPROC : nexts[s] = s_next(s) /\ nexts[s] \in Nexts /\ container_of(nexts[s]) = s
    BY Owner DEF Semd
  <2>3. nexts = [s \in 1 .. MAXPROC |-> nexts[s]]
    BY DEF Semd
  <2>. HIDE DEF nexts
  <2>4. nexts \in Seq(Nexts) /\ Len(nexts) = MAXPROC
    BY <1>2, <2>1, <2>2, <2>3
  <2>5. IsInjective(nexts)
    BY <2>1, <2>2 DEF IsInjective
  <2>6. \A n : On(nexts, n) <=> n \in Nexts
    BY <2>2, <2>4, Owner DEF On, Nexts, Semd
  <2>. QED
    BY <2>4, <2>5, <2>6
<1>. HIDE DEF nexts
<1>8. /\ Proper(semds, A3) /\ SameLists(active, semds, A2)
      /\ Len(list_for_each(semds, semdFree_h)) = MAXPROC
      /\ \A n : Queued(semds, semdFree_h, n) <=> n \in Nexts
  <2>1. semdFree_h \in AllHeads \ A2 /\ Kind(semdFree_h) = Nexts
    BY FixedHeads, KindOf
  <2>2. \A n \in Kind(semdFree_h) : Loose(active, A2, n)
    BY <1>6 DEF Loose
  <2>3. nexts \in Seq(Kind(semdFree_h))
    BY <1>7, <2>1
  <2>. HIDE DEF A2
  <2>4. Fills(active, Filled(active, semdFree_h, nexts), A2, semdFree_h, nexts)
    BY <1>5, <1>7, <2>1, <2>2, <2>3, FilledList
  <2>5. Fills(active, semds, A2, semdFree_h, nexts)
    BY <2>4
  <2>. HIDE DEF semds
  <2>. QED
    BY <1>7, <2>5 DEF Fills
<1>. HIDE DEF semds
<1>. DEFINE nodes == links(table)
<1>9. /\ nodes \in Seq(Links) /\ Len(nodes) = MAXPROC /\ IsInjective(nodes)
      /\ \A n : On(nodes, n) <=> n \in Links
  <2>1. /\ table \in Seq(PCB) /\ Len(table) = MAXPROC
        /\ \A i \in 1 .. Len(table) : table[i] \in PCB
        /\ \A i, j \in 1 .. Len(table) : table[i] = table[j] => i = j
        /\ \A q \in PCB : \E i \in 1 .. Len(table) : table[i] = q
    BY <1>2, Ordered
  <2>2. DOMAIN nodes = 1 .. MAXPROC /\ \A i \in 1 .. MAXPROC : nodes[i] = link(table[i])
    BY <2>1
  <2>3. nodes = [i \in 1 .. MAXPROC |-> nodes[i]]
    BY <2>1
  <2>. HIDE DEF nodes
  <2>4. \A i \in 1 .. MAXPROC : nodes[i] \in Links /\ container_of(nodes[i]) = table[i]
    BY <2>1, <2>2, Owner
  <2>5. nodes \in Seq(Links) /\ Len(nodes) = MAXPROC
    BY <1>2, <2>2, <2>3, <2>4
  <2>6. IsInjective(nodes)
    BY <2>1, <2>2, <2>4 DEF IsInjective
  <2>7. \A n : On(nodes, n) <=> n \in Links
    <3>1. ASSUME NEW n \in Links PROVE On(nodes, n)
      <4>1. container_of(n) \in PCB /\ n = link(container_of(n))
        BY Owner
      <4>2. PICK i \in 1 .. MAXPROC : table[i] = container_of(n)
        BY <2>1, <4>1
      <4>. QED
        BY <2>2, <2>5, <4>1, <4>2 DEF On
    <3>2. ASSUME NEW n, On(nodes, n) PROVE n \in Links
      BY <2>4, <2>5, <3>2 DEF On
    <3>. QED
      BY <3>1, <3>2
  <2>. QED
    BY <2>5, <2>6, <2>7
<1>. HIDE DEF nodes
<1>10. Fills(semds, heap, A3, pcbfree_h, nodes)
  <2>1. pcbfree_h \in AllHeads \ A3 /\ Kind(pcbfree_h) = Links
    BY FixedHeads, KindOf
  <2>2. \A n \in Kind(pcbfree_h) : Loose(semds, A3, n)
    BY <1>6, <1>8, <2>1, NodeKinds DEF Loose, SameLists, Queued
  <2>3. nodes \in Seq(Kind(pcbfree_h))
    BY <1>9, <2>1
  <2>. HIDE DEF A3
  <2>4. Fills(semds, Filled(semds, pcbfree_h, nodes), A3, pcbfree_h, nodes)
    BY <1>8, <1>9, <2>1, <2>2, <2>3, FilledList
  <2>. QED
    BY <1>1, <2>4 DEF nodes
<1>11. /\ Proper(heap, A3 \cup {pcbfree_h}) /\ SameLists(semds, heap, A3)
       /\ Len(list_for_each(heap, pcbfree_h)) = MAXPROC
       /\ \A n : Queued(heap, pcbfree_h, n) <=> n \in Links
  BY <1>9, <1>10 DEF Fills
<1>12. A3 \cup {pcbfree_h} = Fixed
  BY DEF Fixed
<1>13. /\ list_for_each(heap, semd_h) = <<>> /\ list_for_each(heap, readyQueue_h) = <<>>
       /\ Len(list_for_each(heap, semdFree_h)) = MAXPROC
  BY <1>5, <1>8, <1>11 DEF SameLists
<1>14. \A n : ~ Queued(heap, semd_h, n) /\ ~ Queued(heap, readyQueue_h, n)
  BY <1>13 DEF Queued, On
<1>15. Empty(heap)
  BY <1>11, <1>12, <1>13, <1>14 DEF Empty
<1>. QED
  BY <1>15

(* The initial states satisfy the invariant.                                *)
LEMMA InitInv ==
  ASSUME ListsInit
  PROVE  ListsInv
<1>1. Empty(heap)
  BY InitHeap
<1>2. /\ Proper(heap, Fixed)
      /\ \A n : Queued(heap, pcbfree_h, n) <=> n \in Links
      /\ \A n : ~ Queued(heap, semd_h, n) /\ ~ Queued(heap, readyQueue_h, n)
      /\ list_for_each(heap, semd_h) = <<>>
      /\ Len(list_for_each(heap, semdFree_h)) = MAXPROC
  BY <1>1 DEF Empty
<1>3. /\ scope \in Scope /\ p_parent = [p \in PCB |-> NULL] /\ p_semkey = [p \in PCB |-> NULL]
      /\ s_key = [s \in Semd |-> NULL] /\ pos = NULL
  BY DEF ListsInit
<1>4. ListsTypeOK
  BY <1>3 DEF ListsTypeOK
<1>5. (\A p \in PCB : Free(heap, p)) /\ (\A s \in Semd : ~ Active(heap, s))
  BY <1>2, Owner DEF Free, Active
<1>6. ListHeads(heap) = Fixed
  BY <1>5 DEF ListHeads
<1>7. Shape(heap)
  <2>1. MAXPROC \in Nat
    BY ListsAssumption, FS_CardinalityType
  <2>. QED
    BY <1>2, <1>6, <2>1 DEF Shape
<1>8. Queues(heap, p_semkey, s_key)
  BY <1>3, <1>5 DEF Queues
<1>9. Tree(heap, p_parent)
  BY <1>5 DEF Tree
<1>. QED
  BY <1>3, <1>4, <1>7, <1>8, <1>9 DEF ListsInv

(* The inductive invariant holds: lists are circular, disjoint and of one   *)
(* kind of nodes each, no descriptor is lost, a process is on the queue of  *)
(* the semaphore its p_semkey names and there is a descriptor for it,       *)
(* children have their parent, and outProcQ stands on an element of the     *)
(* ready queue.                                                             *)
THEOREM ListsInvariant == ListsSpec => []ListsInv
<1>. QED
  BY InitInv, InvNext, PTL DEF ListsSpec

(* The heads of Linked are those of the invariant.                          *)
LEMMA HeadsAre ==
  ASSUME Shape(heap)
  PROVE  Heads = ListHeads(heap)
<1>1. allocated = {p \in PCB : ~ Free(heap, p)}
  BY AllocatedAre
<1>2. ToSet(Owners(heap, semd_h)) = {s \in Semd : Active(heap, s)}
  BY ShapeOwners
<1>. QED
  BY <1>1, <1>2 DEF Heads, ListHeads, Fixed

(* What is on a list, as a set.                                             *)
LEMMA OnListIs ==
  ASSUME NEW h, NEW A, NEW a, Proper(h, A), a \in A
  PROVE  \A n : n \in ToSet(list_for_each(h, a)) <=> Queued(h, a, n)
<1>1. list_for_each(h, a) \in Seq(Node)
  BY ListType
<1>. QED
  BY <1>1 DEF ToSet, Queued, On

(* The invariant implies Linked.                                            *)
LEMMA InvLinked ==
  ASSUME ListsInv
  PROVE  Linked
<1>1. /\ Shape(heap) /\ Queues(heap, p_semkey, s_key) /\ Proper(heap, ListHeads(heap))
      /\ Heads = ListHeads(heap)
  BY HeadsAre DEF ListsInv, Shape
<1>2. \A a \in Heads : \A n : n \in ToSet(List(a)) <=> Queued(heap, a, n)
  BY <1>1, OnListIs DEF List
<1>3. \A a \in Heads : \A n \in {a} \cup ToSet(List(a)) : heap.prev[heap.next[n]] = n
  BY <1>1, <1>2, PrevNext
<1>4. \A a, b \in Heads : a # b => ToSet(List(a)) \cap ToSet(List(b)) = {}
  BY <1>1, <1>2, Apartness
<1>5. Len(List(semd_h)) + Len(List(semdFree_h)) = MAXPROC
  BY <1>1 DEF Shape, List
<1>6. ASSUME NEW p \in PCB PROVE Held(p) \/ \E a \in Heads : link(p) \in ToSet(List(a))
  <2>1. CASE Free(heap, p)
    BY <1>1, <1>2, <2>1, ListHeadsAre DEF Free
  <2>2. CASE Queued(heap, readyQueue_h, link(p))
    BY <1>1, <1>2, <2>2, ListHeadsAre
  <2>3. CASE p_semkey[p] # NULL
    <3>1. PICK s \in Semd : Active(heap, s) /\ s_key[s] = p_semkey[p]
      BY <1>1, <2>3 DEF Queues
    <3>2. Queued(heap, procQ(s), link(p)) /\ procQ(s) \in Heads
      BY <1>1, <3>1, ListHeadsAre DEF Queues
    <3>. QED
      BY <1>2, <3>2
  <2>4. CASE ~ Free(heap, p) /\ ~ Queued(heap, readyQueue_h, link(p)) /\ p_semkey[p] = NULL
    BY <1>1, <2>4, AllocatedAre
  <2>. QED
    BY <2>1, <2>2, <2>3, <2>4
<1>. QED
  BY <1>3, <1>4, <1>5, <1>6 DEF Linked

(* Whatever pcb.c and asl.c do, every list leads back to its head in both   *)
(* directions, no node is on two lists, no PCB and no descriptor is lost.   *)
THEOREM ListsLinked == ListsSpec => []Linked
<1>. QED
  BY ListsInvariant, InvLinked, PTL

(* The invariant implies OutProcQStaysOnQueue.                              *)
LEMMA InvStays ==
  ASSUME ListsInv
  PROVE  OutProcQStaysOnQueue
<1>1. Proper(heap, ListHeads(heap)) /\ readyQueue_h \in ListHeads(heap)
  BY ListHeadsAre DEF ListsInv, Shape
<1>2. \A n : n \in ToSet(List(readyQueue_h)) <=> Queued(heap, readyQueue_h, n)
  BY <1>1, OnListIs DEF List
<1>. QED
  BY <1>2 DEF ListsInv, OutProcQStaysOnQueue

(* outProcQ, which reads the next field of an element after its removal,    *)
(* never leaves the ready queue.                                            *)
THEOREM ListsOutProcQStaysOnQueue == ListsSpec => []OutProcQStaysOnQueue
<1>. QED
  BY ListsInvariant, InvStays, PTL

------------------------------------------------------------------------------
(* The refinement: the operators of Tables in terms of Inserted and         *)
(* Without, the mapping in terms of the heap, and for each function a lemma *)
(* that says that its step is a step of Tables, Ref...                      *)

(* SequencesExt's RemoveAt, in terms of Without.                            *)
LEMMA RemoveAtIs ==
  ASSUME NEW N, NEW t, NEW i, t \in Seq(N), i \in 1 .. Len(t)
  PROVE  SubSeq(t, 1, i - 1) \o SubSeq(t, i + 1, Len(t)) = Without(t, i)
<1>. DEFINE s == SubSeq(t, 1, i - 1)
            r == SubSeq(t, i + 1, Len(t))
            u == s \o r
            w == Without(t, i)
<1>1. Len(t) \in Nat
  OBVIOUS
<1>2. /\ s \in Seq(N) /\ Len(s) = i - 1 /\ \A j \in 1 .. i - 1 : s[j] = t[j]
      /\ r \in Seq(N) /\ Len(r) = Len(t) - i /\ \A j \in 1 .. Len(t) - i : r[j] = t[i + j]
  BY CutAt
<1>. HIDE DEF s, r
<1>3. /\ u \in Seq(N) /\ Len(u) = Len(s) + Len(r)
      /\ \A j \in 1 .. Len(s) + Len(r) : u[j] = IF j <= Len(s) THEN s[j] ELSE r[j - Len(s)]
  BY <1>2, JoinElements
<1>4. w \in Seq(N) /\ Len(w) = Len(t) - 1
  BY WithoutType
<1>5. \A j \in 1 .. Len(t) - 1 : w[j] = IF j < i THEN t[j] ELSE t[j + 1]
  BY DEF Without
<1>. HIDE DEF u, w
<1>6. Len(u) = Len(t) - 1
  BY <1>1, <1>2, <1>3
<1>7. ASSUME NEW j \in 1 .. Len(t) - 1 PROVE u[j] = w[j]
  <2>1. CASE j < i
    <3>1. j \in 1 .. i - 1 /\ j \in 1 .. Len(s) + Len(r) /\ j <= Len(s)
      BY <1>1, <1>2, <2>1
    <3>. QED
      BY <1>2, <1>3, <1>5, <2>1, <3>1
  <2>2. CASE ~ (j < i)
    <3>1. /\ j - Len(s) \in 1 .. Len(t) - i /\ i + (j - Len(s)) = j + 1
          /\ j \in 1 .. Len(s) + Len(r) /\ ~ (j <= Len(s))
      BY <1>1, <1>2, <2>2
    <3>2. u[j] = r[j - Len(s)]
      BY <1>3, <3>1
    <3>3. r[j - Len(s)] = t[i + (j - Len(s))]
      BY <1>2, <3>1
    <3>. QED
      BY <1>5, <2>2, <3>1, <3>2, <3>3
  <2>. QED
    BY <2>1, <2>2
<1>8. u = w
  BY <1>3, <1>4, <1>6, <1>7, SeqEqual
<1>. QED
  BY <1>8 DEF u, w, s, r

(* outProcQ of ProcQ takes the element, which is there once.                *)
LEMMA RemoveFirstIs ==
  ASSUME NEW N, NEW t, NEW i, t \in Seq(N), IsInjective(t), i \in 1 .. Len(t)
  PROVE  Model!outProcQ(t, t[i]) = Without(t, i)
<1>1. Len(t) \in Nat /\ DOMAIN t = 1 .. Len(t)
  OBVIOUS
<1>2. {j \in 1 .. Len(t) : t[j] = t[i]} = {i}
  BY <1>1 DEF IsInjective
<1>3. Model!Min({i}) = i
  BY <1>1 DEF Model!Min
<1>4. Model!SelectInSeq(t, LAMBDA v : v = t[i]) = i
  BY <1>2, <1>3 DEF Model!SelectInSeq
<1>5. Model!outProcQ(t, t[i]) = Model!RemoveAt(t, i)
  BY <1>4 DEF Model!outProcQ, Model!RemoveFirst
<1>6. Model!RemoveAt(t, i) = SubSeq(t, 1, i - 1) \o SubSeq(t, i + 1, Len(t))
  BY DEF Model!RemoveAt
<1>. QED
  BY <1>5, <1>6, RemoveAtIs

(* SequencesExt's InsertAt, in terms of Inserted.                           *)
LEMMA InsertAtIs ==
  ASSUME NEW N, NEW t, NEW i, NEW n, t \in Seq(N), i \in 1 .. Len(t), n \in N
  PROVE  Model!InsertAt(t, i, n) = Inserted(t, i - 1, n)
<1>. DEFINE s == SubSeq(t, 1, i - 1)
            r == SubSeq(t, i, Len(t))
            v == s \o <<n>>
            u == v \o r
            w == Inserted(t, i - 1, n)
<1>1. Len(t) \in Nat /\ i - 1 \in 0 .. Len(t)
  OBVIOUS
<1>2. /\ s \in Seq(N) /\ Len(s) = i - 1 /\ \A j \in 1 .. i - 1 : s[j] = t[j]
  BY CutAt
<1>3. /\ r \in Seq(N) /\ Len(r) = Len(t) - i + 1
      /\ \A j \in 1 .. Len(t) - i + 1 : r[j] = t[j + i - 1]
  <2>1. r = [j \in 1 .. Len(t) - i + 1 |-> t[j + i - 1]]
    BY <1>1
  <2>2. \A j \in 1 .. Len(t) - i + 1 : j + i - 1 \in 1 .. Len(t)
    BY <1>1
  <2>3. Len(t) - i + 1 \in Nat
    BY <1>1
  <2>. HIDE DEF r
  <2>4. \A j \in 1 .. Len(t) - i + 1 : r[j] = t[j + i - 1] /\ t[j + i - 1] \in N
    BY <2>1, <2>2
  <2>. QED
    BY <2>1, <2>3, <2>4
<1>4. <<n>> \in Seq(N) /\ Len(<<n>>) = 1 /\ <<n>>[1] = n
  OBVIOUS
<1>. HIDE DEF s, r
<1>5. /\ v \in Seq(N) /\ Len(v) = Len(s) + 1
      /\ \A j \in 1 .. Len(s) + 1 : v[j] = IF j <= Len(s) THEN s[j] ELSE <<n>>[j - Len(s)]
  BY <1>2, <1>4, JoinElements
<1>6. Len(v) = i /\ \A j \in 1 .. i : v[j] = IF j < i THEN t[j] ELSE n
  <2>1. Len(v) = i
    BY <1>1, <1>2, <1>5
  <2>2. ASSUME NEW j \in 1 .. i PROVE v[j] = IF j < i THEN t[j] ELSE n
    <3>1. CASE j = i
      <4>1. ~ (j <= Len(s)) /\ j - Len(s) = 1 /\ j \in 1 .. Len(s) + 1
        BY <1>1, <1>2, <3>1
      <4>. QED
        BY <1>4, <1>5, <3>1, <4>1
    <3>2. CASE j # i
      <4>1. j <= Len(s) /\ j < i /\ j \in 1 .. i - 1 /\ j \in 1 .. Len(s) + 1
        BY <1>1, <1>2, <3>2
      <4>. QED
        BY <1>2, <1>5, <4>1
    <3>. QED
      BY <3>1, <3>2
  <2>. QED
    BY <2>1, <2>2
<1>. HIDE DEF v
<1>7. /\ u \in Seq(N) /\ Len(u) = Len(v) + Len(r)
      /\ \A j \in 1 .. Len(v) + Len(r) : u[j] = IF j <= Len(v) THEN v[j] ELSE r[j - Len(v)]
  BY <1>3, <1>5, JoinElements
<1>8. w \in Seq(N) /\ Len(w) = Len(t) + 1
  BY <1>1, InsertedType
<1>9. \A j \in 1 .. Len(t) + 1 :
        w[j] = IF j <= i - 1 THEN t[j] ELSE IF j = (i - 1) + 1 THEN n ELSE t[j - 1]
  BY DEF Inserted
<1>. HIDE DEF u, w
<1>10. Len(u) = Len(t) + 1
  BY <1>1, <1>3, <1>6, <1>7
<1>11. ASSUME NEW j \in 1 .. Len(t) + 1 PROVE u[j] = w[j]
  <2>1. CASE j <= i
    <3>1. j \in 1 .. i /\ j \in 1 .. Len(v) + Len(r) /\ j <= Len(v) /\ (j < i <=> j <= i - 1) /\ (i - 1) + 1 = i
      BY <1>1, <1>3, <1>6, <2>1
    <3>. QED
      BY <1>6, <1>7, <1>9, <2>1, <3>1
  <2>2. CASE ~ (j <= i)
    <3>1. /\ j - Len(v) \in 1 .. Len(t) - i + 1 /\ (j - Len(v)) + i - 1 = j - 1
          /\ j \in 1 .. Len(v) + Len(r) /\ ~ (j <= Len(v)) /\ ~ (j <= i - 1) /\ j # (i - 1) + 1
      BY <1>1, <1>3, <1>6, <2>2
    <3>2. u[j] = r[j - Len(v)]
      BY <1>7, <3>1
    <3>3. r[j - Len(v)] = t[j - 1]
      BY <1>3, <3>1
    <3>. QED
      BY <1>9, <3>1, <3>2, <3>3
  <2>. QED
    BY <2>1, <2>2
<1>12. u = w
  BY <1>7, <1>8, <1>10, <1>11, SeqEqual
<1>13. Model!InsertAt(t, i, n) = u
  BY DEF Model!InsertAt, u, v, s, r
<1>. QED
  BY <1>12, <1>13 DEF w

(* The loop of insertProcQ goes past the elements before the i-th.          *)
EndsAt(t, prio, p, i) ==
  /\ i \in 1 .. Len(t) + 1
  /\ \A j \in 1 .. i - 1 : ~ (prio[t[j]] < prio[p])
  /\ i <= Len(t) => prio[t[i]] < prio[p]

(* insertProcQ of ProcQ puts the element where the loop ends.               *)
LEMMA InsertProcQIs ==
  ASSUME NEW N, NEW t, NEW i, NEW p, NEW prio, t \in Seq(N), p \in N, EndsAt(t, prio, p, i)
  PROVE  Model!insertProcQ(t, p, prio) = Inserted(t, i - 1, p)
<1>0. /\ i \in 1 .. Len(t) + 1
      /\ \A j \in 1 .. i - 1 : ~ (prio[t[j]] < prio[p])
      /\ i <= Len(t) => prio[t[i]] < prio[p]
  BY DEF EndsAt
<1>. DEFINE I == {j \in 1 .. Len(t) : prio[t[j]] < prio[p]}
            at == Model!SelectInSeq(t, LAMBDA r : prio[r] < prio[p])
<1>1. Len(t) \in Nat
  OBVIOUS
<1>2. at = IF I # {} THEN Model!Min(I) ELSE 0
  BY DEF Model!SelectInSeq
<1>3. Model!insertProcQ(t, p, prio) = IF at = 0 THEN Append(t, p) ELSE Model!InsertAt(t, at, p)
  BY DEF Model!insertProcQ
<1>. HIDE DEF at
<1>4. \A j \in I : j \in Nat /\ i <= j
  BY <1>0, <1>1
<1>5. CASE i = Len(t) + 1
  <2>1. I = {}
    <3>1. ASSUME NEW j \in 1 .. Len(t) PROVE ~ (prio[t[j]] < prio[p])
      <4>1. j \in 1 .. i - 1
        BY <1>0, <1>1, <1>5
      <4>. QED
        BY <1>0, <4>1
    <3>. QED
      BY <3>1
  <2>2. i - 1 = Len(t)
    BY <1>0, <1>1, <1>5
  <2>. QED
    BY <1>2, <1>3, <2>1, <2>2, AppendIsInserted
<1>6. CASE i # Len(t) + 1
  <2>1. i \in 1 .. Len(t) /\ i # 0
    BY <1>0, <1>1, <1>6
  <2>2. i \in I
    BY <1>0, <2>1
  <2>. HIDE DEF I
  <2>3. Model!Min(I) = i
    <3>1. \A x \in I : (\A y \in I : x <= y) => x = i
      BY <1>4, <2>1, <2>2
    <3>2. \A y \in I : i <= y
      BY <1>4
    <3>. QED
      BY <2>2, <3>1, <3>2 DEF Model!Min
  <2>4. Model!insertProcQ(t, p, prio) = Model!InsertAt(t, i, p)
    BY <1>2, <1>3, <2>1, <2>2, <2>3
  <2>. QED
    BY <2>1, <2>4, InsertAtIs
<1>. QED
  BY <1>5, <1>6

(* The variables of Tables for any heap and keys.                           *)
KeysOf(h, key) == {key[s] : s \in {r \in Semd : Active(h, r)}}
QueuesOf(h, key) == [k \in Key |-> QueueOf(h, key, k)]
KidsOf(h) == [p \in PCB |-> IF Free(h, p) THEN <<>> ELSE Owners(h, child(p))]

Mapped ==
  /\ asl = KeysOf(heap, s_key)
  /\ semdFree = Len(list_for_each(heap, semdFree_h))
  /\ s_procQ = QueuesOf(heap, s_key)
  /\ pcbFree = Owners(heap, pcbfree_h)
  /\ readyQueue = Owners(heap, readyQueue_h)
  /\ p_child = KidsOf(heap)
  /\ Model!allocated = {p \in PCB : ~ Free(heap, p)}
  /\ allocated = {p \in PCB : ~ Free(heap, p)}

(* The refinement mapping, in terms of the heap.                            *)
LEMMA InvMapped == ListsInv => Mapped
<1>. SUFFICES ASSUME ListsInv PROVE Mapped
  OBVIOUS
<1>1. Shape(heap)
  BY DEF ListsInv
<1>2. asl = KeysOf(heap, s_key)
  BY <1>1, ShapeOwners DEF asl, KeysOf
<1>3. s_procQ = QueuesOf(heap, s_key)
  BY GetSemdOf DEF s_procQ, QueuesOf, QueueOf
<1>4. allocated = {p \in PCB : ~ Free(heap, p)}
  BY <1>1, AllocatedAre
<1>5. p_child = KidsOf(heap)
  BY <1>4 DEF p_child, KidsOf
<1>6. Model!allocated = allocated
  BY DEF Model!allocated, Model!ToSet, ToSet, allocated, pcbFree
<1>. QED
  BY <1>2, <1>3, <1>4, <1>5, <1>6 DEF Mapped, semdFree, pcbFree, readyQueue, List

(* The same after a step.                                                   *)
LEMMA InvMappedNext == ListsInv' => Mapped'
<1>. QED
  BY InvMapped, PTL

(* The keys with a descriptor stay if the active descriptors do.            *)
LEMMA SameKeysOf ==
  ASSUME NEW h, NEW g, NEW key, \A s \in Semd : Active(g, s) <=> Active(h, s)
  PROVE  KeysOf(g, key) = KeysOf(h, key)
  BY DEF KeysOf

(* The queue of a semaphore stays if its descriptor and the list of that    *)
(* do.                                                                      *)
LEMMA SameQueueOf ==
  ASSUME NEW h, NEW g, NEW semkey, NEW semkey1, NEW key, NEW key1, NEW k,
         Shape(h), Queues(h, semkey, key), Shape(g), Queues(g, semkey1, key1),
         \A s \in Semd : Active(h, s) /\ key[s] = k <=> Active(g, s) /\ key1[s] = k,
         \A s \in Semd : Active(h, s) /\ key[s] = k =>
           list_for_each(g, procQ(s)) = list_for_each(h, procQ(s))
  PROVE  QueueOf(g, key1, k) = QueueOf(h, key, k)
<1>1. CASE \E s \in Semd : Active(h, s) /\ key[s] = k
  <2>1. PICK s \in Semd : Active(h, s) /\ key[s] = k
    BY <1>1
  <2>2. QueueOf(h, key, k) = Owners(h, procQ(s)) /\ QueueOf(g, key1, k) = Owners(g, procQ(s))
    BY <2>1, QueueOfActive
  <2>. QED
    BY <2>1, <2>2 DEF Owners
<1>2. CASE ~ \E s \in Semd : Active(h, s) /\ key[s] = k
  BY <1>2, QueueOfNone
<1>. QED
  BY <1>1, <1>2

(* The children stay if their lists do.                                     *)
LEMMA SameKids ==
  ASSUME NEW h, NEW g, \A p \in PCB : Free(g, p) <=> Free(h, p),
         \A p \in PCB : ~ Free(h, p) => list_for_each(g, child(p)) = list_for_each(h, child(p))
  PROVE  KidsOf(g) = KidsOf(h)
  BY DEF KidsOf, Owners

(* Only the list of a changes.                                              *)
LEMMA OneChanges ==
  ASSUME NEW h, NEW g, NEW semkey, NEW semkey1, NEW key, NEW a,
         Shape(h), Frame(h, g), Queues(h, semkey, key), Queues(g, semkey1, key),
         SameLists(h, g, ListHeads(h) \ {a}), a \notin {pcbfree_h, semd_h, semdFree_h}
  PROVE  /\ KeysOf(g, key) = KeysOf(h, key)
         /\ list_for_each(g, semdFree_h) = list_for_each(h, semdFree_h)
         /\ Owners(g, pcbfree_h) = Owners(h, pcbfree_h)
         /\ a # readyQueue_h => Owners(g, readyQueue_h) = Owners(h, readyQueue_h)
         /\ a \notin ProcQs => QueuesOf(g, key) = QueuesOf(h, key)
         /\ a \notin Children => KidsOf(g) = KidsOf(h)
<1>1. /\ \A s \in Semd : Active(g, s) <=> Active(h, s)
      /\ \A p \in PCB : Free(g, p) <=> Free(h, p)
      /\ Shape(g)
  BY DEF Frame
<1>2. KeysOf(g, key) = KeysOf(h, key)
  BY <1>1, SameKeysOf
<1>3. /\ list_for_each(g, semdFree_h) = list_for_each(h, semdFree_h)
      /\ list_for_each(g, pcbfree_h) = list_for_each(h, pcbfree_h)
      /\ a # readyQueue_h => list_for_each(g, readyQueue_h) = list_for_each(h, readyQueue_h)
  BY ListHeadsAre DEF SameLists
<1>4. ASSUME a \notin ProcQs PROVE QueuesOf(g, key) = QueuesOf(h, key)
  <2>1. \A s \in Semd : Active(h, s) => list_for_each(g, procQ(s)) = list_for_each(h, procQ(s))
    BY <1>4, ListHeadsAre, Owner DEF SameLists
  <2>2. \A k \in Key : QueueOf(g, key, k) = QueueOf(h, key, k)
    BY <1>1, <2>1, SameQueueOf
  <2>. QED
    BY <2>2 DEF QueuesOf
<1>5. ASSUME a \notin Children PROVE KidsOf(g) = KidsOf(h)
  <2>1. \A p \in PCB : ~ Free(h, p) => list_for_each(g, child(p)) = list_for_each(h, child(p))
    BY <1>5, ListHeadsAre, Owner DEF SameLists
  <2>. QED
    BY <1>1, <2>1, SameKids
<1>. QED
  BY <1>2, <1>3, <1>4, <1>5 DEF Owners

(* The owners of a list of links or of siblings.                            *)
LEMMA OwnersType ==
  ASSUME NEW h, NEW A, NEW a, Proper(h, A), a \in A, Kind(a) \in {Links, Sibs}
  PROVE  Owners(h, a) \in Seq(PCB) /\ IsInjective(Owners(h, a))
<1>. DEFINE t == list_for_each(h, a)
            q == Owners(h, a)
<1>1. t \in Seq(Node) /\ Len(t) \in Nat /\ IsInjective(t) /\ DOMAIN t = 1 .. Len(t)
  BY ListType
<1>2. /\ Len(q) = Len(t) /\ DOMAIN q = 1 .. Len(t)
      /\ \A i \in 1 .. Len(t) : q[i] = container_of(t[i])
  BY OwnersAre
<1>3. \A i \in 1 .. Len(t) : t[i] \in Kind(a)
  BY DEF Proper, Queued, On
<1>4. \A i \in 1 .. Len(t) : q[i] \in PCB
  BY <1>2, <1>3, Owner
<1>5. q = [i \in 1 .. Len(t) |-> container_of(t[i])]
  BY <1>1 DEF Owners
<1>. HIDE DEF t
<1>6. q \in Seq(PCB)
  BY <1>1, <1>2, <1>4, <1>5
<1>. HIDE DEF q
<1>7. \A i, j \in 1 .. Len(t) : q[i] = q[j] => t[i] = t[j]
  BY <1>2, <1>3, Owner
<1>8. IsInjective(q)
  BY <1>1, <1>2, <1>7 DEF IsInjective
<1>. QED
  BY <1>6, <1>8 DEF q

(* A node taken, in terms of the owners.                                    *)
LEMMA TakesOwners ==
  ASSUME NEW h, NEW g, NEW A, NEW a, NEW n, Proper(h, A), a \in A, Takes(h, g, A, a, n)
  PROVE  \E i \in 1 .. Len(Owners(h, a)) :
           /\ list_for_each(h, a)[i] = n
           /\ Owners(h, a)[i] = container_of(n)
           /\ Owners(g, a) = Without(Owners(h, a), i)
<1>. DEFINE t == list_for_each(h, a)
<1>1. t \in Seq(Node) /\ Len(Owners(h, a)) = Len(t)
      /\ \A i \in 1 .. Len(t) : Owners(h, a)[i] = container_of(t[i])
  BY ListType, OwnersAre
<1>2. PICK i \in 1 .. Len(t) : t[i] = n /\ list_for_each(g, a) = Without(t, i)
  BY DEF Takes, TakesAt
<1>3. Owners(g, a) = OwnersOf(Without(t, i)) /\ Owners(h, a) = OwnersOf(t)
  BY <1>2, OwnersList
<1>. HIDE DEF t
<1>4. OwnersOf(Without(t, i)) = Without(OwnersOf(t), i)
  BY <1>1, OwnersWithout
<1>5. Owners(g, a) = Without(Owners(h, a), i)
  BY <1>3, <1>4
<1>. QED
  BY <1>1, <1>2, <1>5 DEF t

(* A node put on a list, in terms of the owners.                            *)
LEMMA AddsOwners ==
  ASSUME NEW h, NEW g, NEW A, NEW a, NEW i, NEW n, Proper(h, A), a \in A,
         i \in 0 .. Len(list_for_each(h, a)), AddsTo(h, g, A, a, i, n)
  PROVE  Owners(g, a) = Inserted(Owners(h, a), i, container_of(n))
<1>. DEFINE t == list_for_each(h, a)
<1>1. t \in Seq(Node)
  BY ListType
<1>2. list_for_each(g, a) = Inserted(t, i, n)
  BY DEF AddsTo
<1>3. Owners(g, a) = OwnersOf(Inserted(t, i, n)) /\ Owners(h, a) = OwnersOf(t)
  BY <1>2, OwnersList
<1>. HIDE DEF t
<1>4. OwnersOf(Inserted(t, i, n)) = Inserted(OwnersOf(t), i, container_of(n))
  BY <1>1, OwnersInserted DEF t
<1>. QED
  BY <1>3, <1>4

(* All but the queue of the list of a stays.                                *)
Others ==
  /\ asl' = asl /\ semdFree' = semdFree /\ pcbFree' = pcbFree
  /\ Model!allocated = allocated

(* What of the variables of Tables stays when one list changes.             *)
LEMMA OthersKept ==
  ASSUME ListsInv, ListsInv', NEW a, Frame(heap, heap'), s_key' = s_key,
         SameLists(heap, heap', ListHeads(heap) \ {a}), a \notin {pcbfree_h, semd_h, semdFree_h}
  PROVE  /\ Others
         /\ a # readyQueue_h => readyQueue' = readyQueue
         /\ a \notin ProcQs => s_procQ' = s_procQ
         /\ a \notin Children => p_child' = p_child
<1>1. Mapped /\ Mapped'
  BY InvMapped, InvMappedNext
<1>2. /\ Shape(heap) /\ Queues(heap, p_semkey, s_key) /\ Queues(heap', p_semkey', s_key)
  BY DEF ListsInv
<1>3. /\ KeysOf(heap', s_key) = KeysOf(heap, s_key)
      /\ list_for_each(heap', semdFree_h) = list_for_each(heap, semdFree_h)
      /\ Owners(heap', pcbfree_h) = Owners(heap, pcbfree_h)
      /\ a # readyQueue_h => Owners(heap', readyQueue_h) = Owners(heap, readyQueue_h)
      /\ a \notin ProcQs => QueuesOf(heap', s_key) = QueuesOf(heap, s_key)
      /\ a \notin Children => KidsOf(heap') = KidsOf(heap)
  BY <1>2, OneChanges
<1>. QED
  BY <1>1, <1>3 DEF Mapped, Others

(* The ready queue, as a list and as a sequence.                            *)
LEMMA ReadyFacts ==
  ASSUME ListsInv
  PROVE  /\ Proper(heap, ListHeads(heap)) /\ readyQueue_h \in ListHeads(heap)
         /\ readyQueue \in Seq(PCB) /\ IsInjective(readyQueue)
         /\ Owners(heap, readyQueue_h) = readyQueue
         /\ readyQueue_h \notin Children /\ readyQueue_h \notin ProcQs
         /\ readyQueue_h \notin {pcbfree_h, semd_h, semdFree_h}
         /\ Shape(heap)
<1>1. Proper(heap, ListHeads(heap)) /\ readyQueue_h \in ListHeads(heap) /\ Shape(heap)
  BY ListHeadsAre DEF ListsInv, Shape
<1>2. Kind(readyQueue_h) = Links
  BY KindOf
<1>3. /\ readyQueue_h \notin Children /\ readyQueue_h \notin ProcQs
      /\ readyQueue_h \notin {pcbfree_h, semd_h, semdFree_h}
  BY FixedHeads, NodeKinds
<1>. QED
  BY <1>1, <1>2, <1>3, OwnersType DEF readyQueue

(* removeProcQ implements removeReady of Tables.                            *)
LEMMA RefRemoveProcQ ==
  ASSUME ListsInv, ListsInv', removeProcQ
  PROVE  Model!removeReady
<1>. DEFINE n == heap.next[readyQueue_h]
<1>1. /\ 1 \in 1 .. Len(list_for_each(heap, readyQueue_h))
      /\ n = list_for_each(heap, readyQueue_h)[1]
      /\ Queued(heap, readyQueue_h, n) /\ heap' = list_del(heap, n)
  BY StepRemoveProcQ
<1>. HIDE DEF n
<1>2. /\ Takes(heap, heap', ListHeads(heap), readyQueue_h, n)
      /\ Frame(heap, heap')
  BY <1>1, ReadyTake, ReadyFacts
<1>3. UNCHANGED <<p_parent, p_semkey, s_key, priority>>
  BY DEF removeProcQ
<1>4. SameLists(heap, heap', ListHeads(heap) \ {readyQueue_h})
  BY <1>2 DEF Takes, TakesAt
<1>5. Others /\ s_procQ' = s_procQ /\ p_child' = p_child
  BY <1>2, <1>3, <1>4, OthersKept, ReadyFacts
<1>6. PICK i \in 1 .. Len(readyQueue) :
        /\ list_for_each(heap, readyQueue_h)[i] = n
        /\ Owners(heap', readyQueue_h) = Without(readyQueue, i)
  BY <1>2, TakesOwners, ReadyFacts
<1>7. i = 1
  <2>. DEFINE t == list_for_each(heap, readyQueue_h)
  <2>1. t \in Seq(Node) /\ IsInjective(t) /\ Len(t) = Len(readyQueue) /\ DOMAIN t = 1 .. Len(t)
    BY ReadyFacts, ListType, OwnersAre
  <2>2. i \in DOMAIN t /\ 1 \in DOMAIN t /\ t[i] = t[1]
    BY <1>1, <1>6, <2>1
  <2>. QED
    BY <2>1, <2>2 DEF IsInjective
<1>8. 1 \in 1 .. Len(readyQueue) /\ readyQueue' = Without(readyQueue, 1)
  BY <1>6, <1>7 DEF readyQueue
<1>9. readyQueue # <<>> /\ readyQueue' = Tail(readyQueue)
  BY <1>8, TailIsWithout, ReadyFacts
<1>. QED
  BY <1>3, <1>5, <1>9 DEF Others, Model!removeReady, Model!removeProcQ, Model!aslVars

(* The start of outProcQ is no step of Tables.                              *)
LEMMA RefOutProcQ ==
  ASSUME ListsInv, ListsInv', NEW p \in PCB, outProcQ(p)
  PROVE  UNCHANGED Model!tableVars
<1>1. UNCHANGED <<heap, p_parent, p_semkey, s_key, priority>>
  BY DEF outProcQ
<1>2. Mapped /\ Mapped'
  BY InvMapped, InvMappedNext
<1>3. UNCHANGED <<asl, semdFree, s_procQ, pcbFree, readyQueue, p_child>>
  BY <1>1, <1>2 DEF Mapped
<1>. QED
  BY <1>1, <1>3 DEF Model!tableVars, Model!aslVars

(* A turn of its loop removes the process or is no step of Tables.          *)
LEMMA RefOutProcQLoop ==
  ASSUME ListsInv, ListsInv', outProcQ_loop
  PROVE  (\E p \in PCB : Model!outReady(p)) \/ UNCHANGED Model!tableVars
<1>1. /\ pos # NULL /\ UNCHANGED <<p_parent, p_semkey, s_key, priority>>
      /\ heap' = IF container_of(pos) = current THEN list_del(heap, pos) ELSE heap
  BY DEF outProcQ_loop
<1>2. Mapped /\ Mapped'
  BY InvMapped, InvMappedNext
<1>3. CASE container_of(pos) # current
  <2>1. UNCHANGED <<asl, semdFree, s_procQ, pcbFree, readyQueue, p_child>>
    BY <1>1, <1>2, <1>3 DEF Mapped
  <2>. QED
    BY <1>1, <2>1 DEF Model!tableVars, Model!aslVars
<1>4. CASE container_of(pos) = current
  <2>1. Queued(heap, readyQueue_h, pos) /\ heap' = list_del(heap, pos)
    BY <1>1, <1>4 DEF ListsInv
  <2>2. Takes(heap, heap', ListHeads(heap), readyQueue_h, pos) /\ Frame(heap, heap')
    BY <2>1, ReadyTake, ReadyFacts
  <2>3. SameLists(heap, heap', ListHeads(heap) \ {readyQueue_h})
    BY <2>2 DEF Takes, TakesAt
  <2>4. Others /\ s_procQ' = s_procQ /\ p_child' = p_child
    BY <1>1, <2>2, <2>3, OthersKept, ReadyFacts
  <2>5. PICK i \in 1 .. Len(readyQueue) :
          /\ readyQueue[i] = container_of(pos)
          /\ Owners(heap', readyQueue_h) = Without(readyQueue, i)
    BY <2>2, TakesOwners, ReadyFacts
  <2>6. readyQueue' = Without(readyQueue, i) /\ readyQueue[i] = current /\ current \in PCB
    BY <1>4, <2>5, ReadyFacts DEF readyQueue
  <2>7. readyQueue' = Model!outProcQ(readyQueue, current)
    BY <2>5, <2>6, RemoveFirstIs, ReadyFacts
  <2>8. Model!outReady(current)
    BY <1>1, <2>4, <2>7 DEF Others, Model!outReady, Model!aslVars
  <2>. QED
    BY <2>6, <2>8
<1>. QED
  BY <1>3, <1>4

(* Held means the same in Tables.                                           *)
LEMMA RefHeld ==
  ASSUME ListsInv, NEW p \in PCB, Held(p)
  PROVE  Model!Held(p) /\ ~ On(readyQueue, p)
<1>1. Mapped
  BY InvMapped
<1>2. p_semkey[p] = NULL /\ p \in allocated \ ToSet(readyQueue)
  BY DEF Held, readyQueue
<1>3. Model!Held(p)
  BY <1>1, <1>2 DEF Mapped, Model!Held, Model!ToSet, ToSet
<1>4. readyQueue \in Seq(PCB)
  BY ReadyFacts
<1>5. ~ On(readyQueue, p)
  BY <1>2, <1>4 DEF On, ToSet
<1>. QED
  BY <1>3, <1>5

(* insertProcQ implements insertReady of Tables.                            *)
LEMMA RefInsertProcQ ==
  ASSUME ListsInv, ListsInv', NEW p \in PCB, insertProcQ(p), priority \in [PCB -> Int]
  PROVE  Model!insertReady(p)
<1>. DEFINE t == list_for_each(heap, readyQueue_h)
<1>1. PICK v \in scope.priorities :
        /\ priority' = [priority EXCEPT ![p] = v]
        /\ \E i \in 1 .. Len(t) + 1 :
             /\ InsertedAt(t, priority, v, i)
             /\ AddsTo(heap, heap', ListHeads(heap), readyQueue_h, i - 1, link(p))
  BY StepInsertProcQ DEF List
<1>2. PICK i \in 1 .. Len(t) + 1 :
        /\ InsertedAt(t, priority, v, i)
        /\ AddsTo(heap, heap', ListHeads(heap), readyQueue_h, i - 1, link(p))
  BY <1>1
<1>3. /\ t \in Seq(Node) /\ Len(t) \in Nat /\ Len(readyQueue) = Len(t)
      /\ \A j \in 1 .. Len(t) : readyQueue[j] = container_of(t[j])
  BY ReadyFacts, ListType, OwnersAre
<1>4. v \in Priority
  BY ListsAssumption DEF ListsInv, ListsTypeOK
<1>5. UNCHANGED <<p_parent, p_semkey, s_key>> /\ Held(p)
  BY DEF insertProcQ
<1>6. Model!Held(p) /\ ~ On(readyQueue, p)
  BY <1>5, RefHeld
<1>. HIDE DEF t
<1>7. Frame(heap, heap')
  BY <1>2, FrameAdd, ReadyFacts
<1>8. SameLists(heap, heap', ListHeads(heap) \ {readyQueue_h})
  BY <1>2 DEF AddsTo
<1>9. Others /\ s_procQ' = s_procQ /\ p_child' = p_child
  BY <1>5, <1>7, <1>8, OthersKept, ReadyFacts
<1>10. readyQueue' = Inserted(readyQueue, i - 1, p)
  <2>. DEFINE k == i - 1
  <2>1. k \in 0 .. Len(t)
    BY <1>3
  <2>2. AddsTo(heap, heap', ListHeads(heap), readyQueue_h, k, link(p))
    BY <1>2
  <2>. HIDE DEF k
  <2>3. Owners(heap', readyQueue_h) = Inserted(Owners(heap, readyQueue_h), k, container_of(link(p)))
    BY <2>1, <2>2, AddsOwners, ReadyFacts DEF t
  <2>. QED
    BY <2>3, ReadyFacts, Owner DEF k, readyQueue
<1>11. \A r \in PCB : priority'[r] = IF r = p THEN v ELSE priority[r]
  BY <1>1
<1>12. \A j \in 1 .. Len(readyQueue) : readyQueue[j] \in PCB /\ readyQueue[j] # p
  BY <1>6, ReadyFacts DEF On
<1>13. \A j \in 1 .. Len(t) : priority'[readyQueue[j]] = priority[container_of(t[j])]
  BY <1>3, <1>11, <1>12
<1>14. priority'[p] = v
  BY <1>11
<1>15. /\ \A j \in 1 .. i - 1 : ~ (priority'[readyQueue[j]] < priority'[p])
       /\ i <= Len(readyQueue) => priority'[readyQueue[i]] < priority'[p]
  <2>1. \A j \in 1 .. i - 1 : j \in 1 .. Len(t)
    BY <1>3
  <2>2. i <= Len(t) => i \in 1 .. Len(t)
    BY <1>3
  <2>. QED
    BY <1>2, <1>3, <1>13, <1>14, <2>1, <2>2 DEF InsertedAt
<1>16. readyQueue' = Model!insertProcQ(readyQueue, p, priority')
  <2>. DEFINE prio == priority'
              q == readyQueue
  <2>1. q \in Seq(PCB) /\ EndsAt(q, prio, p, i)
    BY <1>3, <1>15, ReadyFacts DEF EndsAt
  <2>. HIDE DEF prio, q
  <2>2. Model!insertProcQ(q, p, prio) = Inserted(q, i - 1, p)
    BY <2>1, InsertProcQIs
  <2>. QED
    BY <1>10, <2>2 DEF prio, q
<1>. QED
  BY <1>1, <1>4, <1>5, <1>6, <1>9, <1>16 DEF Others, Model!insertReady, Model!aslVars

(* Only the children of q change.                                           *)
LEMMA KidsChange ==
  ASSUME ListsInv, ListsInv', NEW q \in PCB, ~ Free(heap, q), Frame(heap, heap'),
         SameLists(heap, heap', ListHeads(heap) \ {child(q)})
  PROVE  p_child' = [p_child EXCEPT ![q] = Owners(heap', child(q))]
<1>1. Mapped /\ Mapped'
  BY InvMapped, InvMappedNext
<1>2. p_child = KidsOf(heap) /\ p_child' = KidsOf(heap')
  BY <1>1 DEF Mapped
<1>3. \A p \in PCB : Free(heap', p) <=> Free(heap, p)
  BY DEF Frame
<1>4. \A p \in PCB : p # q => child(p) # child(q)
  BY Owner
<1>5. \A p \in PCB : ~ Free(heap, p) /\ p # q =>
        list_for_each(heap', child(p)) = list_for_each(heap, child(p))
  BY <1>4, ListHeadsAre DEF SameLists
<1>. QED
  BY <1>2, <1>3, <1>5 DEF KidsOf, Owners

(* The children of an allocated PCB, as a list and as a sequence.           *)
LEMMA KidsFacts ==
  ASSUME ListsInv, NEW q \in PCB, ~ Free(heap, q)
  PROVE  /\ Proper(heap, ListHeads(heap)) /\ child(q) \in ListHeads(heap)
         /\ p_child[q] = Owners(heap, child(q))
         /\ p_child[q] \in Seq(PCB) /\ IsInjective(p_child[q])
         /\ child(q) \notin ProcQs /\ child(q) # readyQueue_h
         /\ child(q) \notin {pcbfree_h, semd_h, semdFree_h}
<1>1. Proper(heap, ListHeads(heap)) /\ child(q) \in ListHeads(heap)
  BY ListHeadsAre DEF ListsInv, Shape
<1>2. Kind(child(q)) = Sibs
  BY KindOf
<1>3. /\ child(q) \notin ProcQs /\ child(q) # readyQueue_h
      /\ child(q) \notin {pcbfree_h, semd_h, semdFree_h}
  BY FixedHeads, NodeKinds, Owner
<1>4. p_child[q] = Owners(heap, child(q))
  BY InvMapped DEF Mapped, KidsOf
<1>5. Owners(heap, child(q)) \in Seq(PCB) /\ IsInjective(Owners(heap, child(q)))
  BY <1>1, <1>2, OwnersType
<1>. QED
  BY <1>1, <1>3, <1>4, <1>5

(* insertChild implements insertChild of Tables.                            *)
LEMMA RefInsertChild ==
  ASSUME ListsInv, ListsInv', NEW prnt \in PCB, NEW p \in PCB, insertChild(prnt, p)
  PROVE  Model!insertChild(prnt, p)
<1>1. /\ {prnt, p} \subseteq allocated /\ prnt # p /\ p_parent[p] = NULL
      /\ list_empty(heap, child(p)) /\ p_parent' = [p_parent EXCEPT ![p] = prnt]
      /\ UNCHANGED <<p_semkey, s_key, priority>>
  BY DEF insertChild
<1>2. Mapped
  BY InvMapped
<1>. DEFINE i == Len(list_for_each(heap, child(prnt)))
<1>3. /\ AddsTo(heap, heap', ListHeads(heap), child(prnt), i, sib(p))
      /\ child(prnt) \in ListHeads(heap) /\ ~ Free(heap, prnt) /\ ~ Free(heap, p)
  BY StepInsertChild
<1>4. i \in 0 .. Len(list_for_each(heap, child(prnt))) /\ Len(p_child[prnt]) = i
  BY <1>3, KidsFacts, ListType, OwnersAre
<1>. HIDE DEF i
<1>5. Frame(heap, heap')
  BY <1>3, FrameAdd, KidsFacts DEF ListsInv
<1>6. SameLists(heap, heap', ListHeads(heap) \ {child(prnt)})
  BY <1>3 DEF AddsTo
<1>7. Others /\ readyQueue' = readyQueue /\ s_procQ' = s_procQ
  BY <1>1, <1>3, <1>5, <1>6, OthersKept, KidsFacts
<1>8. p_child' = [p_child EXCEPT ![prnt] = Owners(heap', child(prnt))]
  BY <1>3, <1>5, <1>6, KidsChange
<1>9. Owners(heap', child(prnt)) = Inserted(p_child[prnt], i, p)
  BY <1>3, <1>4, AddsOwners, KidsFacts, Owner
<1>10. Owners(heap', child(prnt)) = Append(p_child[prnt], p)
  BY <1>3, <1>4, <1>9, AppendIsInserted, KidsFacts
<1>11. p_child[p] = <<>>
  <2>1. list_for_each(heap, child(p)) = <<>>
    BY <1>1, <1>3, HeadNext, KidsFacts
  <2>2. Len(p_child[p]) = 0 /\ p_child[p] \in Seq(PCB)
    BY <1>3, <2>1, KidsFacts, OwnersAre
  <2>. QED
    BY <2>2
<1>12. Model!allocated = allocated
  BY <1>2 DEF Mapped
<1>. QED
  BY <1>1, <1>7, <1>8, <1>10, <1>11, <1>12 DEF Others, Model!insertChild, Model!aslVars

(* c, a child of q, is no longer one.                                       *)
LEMMA RefChildTake ==
  ASSUME ListsInv, ListsInv', NEW q \in PCB, NEW c \in PCB, ~ Free(heap, q),
         Queued(heap, child(q), sib(c)), heap' = list_del(heap, sib(c)),
         p_parent' = [p_parent EXCEPT ![c] = NULL], UNCHANGED <<p_semkey, s_key, priority>>
  PROVE  Model!outChild(c) /\ p_parent[c] = q
<1>1. /\ Takes(heap, heap', ListHeads(heap), child(q), sib(c)) /\ Frame(heap, heap')
  BY ChildTake DEF ListsInv
<1>2. SameLists(heap, heap', ListHeads(heap) \ {child(q)})
  BY <1>1 DEF Takes, TakesAt
<1>3. Others /\ readyQueue' = readyQueue /\ s_procQ' = s_procQ
  BY <1>1, <1>2, OthersKept, KidsFacts
<1>4. p_child' = [p_child EXCEPT ![q] = Owners(heap', child(q))]
  BY <1>1, <1>2, KidsChange
<1>5. p_parent[c] = q /\ q # NULL
  BY ListsAssumption DEF ListsInv, Tree
<1>6. PICK i \in 1 .. Len(p_child[q]) :
        p_child[q][i] = c /\ Owners(heap', child(q)) = Without(p_child[q], i)
  BY <1>1, TakesOwners, KidsFacts, Owner
<1>7. Owners(heap', child(q)) = Model!outProcQ(p_child[q], c)
  <2>. DEFINE t == p_child[q]
  <2>1. t \in Seq(PCB) /\ IsInjective(t)
    BY KidsFacts
  <2>. HIDE DEF t
  <2>2. Model!outProcQ(t, t[i]) = Without(t, i)
    BY <1>6, <2>1, RemoveFirstIs DEF t
  <2>. QED
    BY <1>6, <2>2 DEF t
<1>8. c \in Model!ToSet(p_child[q])
  <2>1. p_child[q] \in Seq(PCB)
    BY KidsFacts
  <2>. QED
    BY <1>6, <2>1 DEF Model!ToSet
<1>9. Model!outChild(c)
  BY <1>3, <1>4, <1>5, <1>7, <1>8 DEF Others, Model!outChild, Model!outProcQ, Model!aslVars
<1>. QED
  BY <1>5, <1>9

(* outChild implements outChild of Tables.                                  *)
LEMMA RefOutChild ==
  ASSUME ListsInv, ListsInv', NEW c \in PCB, outChild(c)
  PROVE  Model!outChild(c)
<1>1. UNCHANGED <<p_semkey, s_key, priority>>
  BY DEF outChild
<1>. QED
  BY <1>1, StepOutChild, RefChildTake

(* removeChild implements removeChild of Tables.                            *)
LEMMA RefRemoveChild ==
  ASSUME ListsInv, ListsInv', NEW q \in PCB, removeChild(q)
  PROVE  Model!removeChild(q)
<1>1. PICK c \in PCB :
        /\ ~ Free(heap, q) /\ Queued(heap, child(q), sib(c))
        /\ heap' = list_del(heap, sib(c)) /\ p_parent' = [p_parent EXCEPT ![c] = NULL]
        /\ 1 \in 1 .. Len(list_for_each(heap, child(q)))
        /\ list_for_each(heap, child(q))[1] = sib(c)
  BY StepRemoveChild
<1>2. UNCHANGED <<p_semkey, s_key, priority>>
  BY DEF removeChild
<1>3. Model!outChild(c)
  BY <1>1, <1>2, RefChildTake
<1>4. 1 \in 1 .. Len(p_child[q]) /\ p_child[q][1] = c
  BY <1>1, KidsFacts, OwnersAre, Owner
<1>5. p_child[q] # <<>> /\ Head(p_child[q]) = c
  <2>. DEFINE t == p_child[q]
  <2>1. t \in Seq(PCB) /\ 1 \in 1 .. Len(t) /\ t[1] = c
    BY <1>1, <1>4, KidsFacts
  <2>. HIDE DEF t
  <2>2. t # <<>> /\ Head(t) = c
    BY <2>1, TailIsWithout
  <2>. QED
    BY <2>2 DEF t
<1>. QED
  BY <1>3, <1>5 DEF Model!removeChild

(* Only the list of free PCBs changes, and whose child lists there are.     *)
LEMMA FreeListChanges ==
  ASSUME NEW h, NEW g, NEW semkey, NEW key, Shape(h), Shape(g),
         Queues(h, semkey, key), Queues(g, semkey, key),
         SameLists(h, g, ListHeads(h) \ {pcbfree_h})
  PROVE  /\ KeysOf(g, key) = KeysOf(h, key)
         /\ list_for_each(g, semdFree_h) = list_for_each(h, semdFree_h)
         /\ Owners(g, readyQueue_h) = Owners(h, readyQueue_h)
         /\ QueuesOf(g, key) = QueuesOf(h, key)
         /\ \A q \in PCB : ~ Free(h, q) => Owners(g, child(q)) = Owners(h, child(q))
<1>1. /\ list_for_each(g, semd_h) = list_for_each(h, semd_h)
      /\ list_for_each(g, semdFree_h) = list_for_each(h, semdFree_h)
      /\ list_for_each(g, readyQueue_h) = list_for_each(h, readyQueue_h)
  BY ListHeadsAre, FixedHeads DEF SameLists
<1>2. \A s \in Semd : Active(g, s) <=> Active(h, s)
  BY <1>1 DEF Active, Queued
<1>3. \A s \in Semd : Active(h, s) => list_for_each(g, procQ(s)) = list_for_each(h, procQ(s))
  <2>1. ASSUME NEW s \in Semd, Active(h, s)
        PROVE  procQ(s) \in ListHeads(h) \ {pcbfree_h}
    BY <2>1, ListHeadsAre, Owner, NodeKinds, FixedHeads
  <2>. QED
    BY <2>1 DEF SameLists
<1>4. \A q \in PCB : ~ Free(h, q) => list_for_each(g, child(q)) = list_for_each(h, child(q))
  <2>1. ASSUME NEW q \in PCB, ~ Free(h, q)
        PROVE  child(q) \in ListHeads(h) \ {pcbfree_h}
    BY <2>1, ListHeadsAre, Owner, NodeKinds, FixedHeads
  <2>. QED
    BY <2>1 DEF SameLists
<1>5. QueuesOf(g, key) = QueuesOf(h, key)
  <2>1. \A k \in Key : QueueOf(g, key, k) = QueueOf(h, key, k)
    BY <1>2, <1>3, SameQueueOf
  <2>. QED
    BY <2>1 DEF QueuesOf
<1>. QED
  BY <1>1, <1>2, <1>4, <1>5, SameKeysOf DEF Owners

(* The free PCBs, as a list and as a sequence.                              *)
LEMMA FreeFacts ==
  ASSUME ListsInv
  PROVE  /\ Proper(heap, ListHeads(heap)) /\ pcbfree_h \in ListHeads(heap)
         /\ pcbFree \in Seq(PCB) /\ IsInjective(pcbFree) /\ Len(pcbFree) \in Nat
         /\ Len(pcbFree) = Len(list_for_each(heap, pcbfree_h))
         /\ OwnersOf(list_for_each(heap, pcbfree_h)) = pcbFree
         /\ pcbFree' = OwnersOf(list_for_each(heap', pcbfree_h))
<1>1. Proper(heap, ListHeads(heap)) /\ pcbfree_h \in ListHeads(heap)
  BY ListHeadsAre DEF ListsInv, Shape
<1>2. Kind(pcbfree_h) = Links
  BY KindOf
<1>3. Owners(heap, pcbfree_h) \in Seq(PCB) /\ IsInjective(Owners(heap, pcbfree_h))
  BY <1>1, <1>2, OwnersType
<1>4. Len(pcbFree) = Len(list_for_each(heap, pcbfree_h))
  BY <1>1, OwnersAre DEF pcbFree
<1>. QED
  BY <1>1, <1>3, <1>4, OwnersList, ListType DEF pcbFree

(* A free PCB waits for nothing.                                            *)
LEMMA FreeNotBlocked ==
  ASSUME ListsInv, NEW p \in PCB, Free(heap, p)
  PROVE  p_semkey[p] = NULL
<1>1. SUFFICES ASSUME p_semkey[p] # NULL PROVE FALSE
  OBVIOUS
<1>2. Proper(heap, ListHeads(heap)) /\ Queues(heap, p_semkey, s_key)
  BY DEF ListsInv, Shape
<1>3. PICK s \in Semd : Active(heap, s) /\ s_key[s] = p_semkey[p]
  BY <1>1, <1>2 DEF Queues
<1>4. Queued(heap, procQ(s), link(p)) /\ procQ(s) \in ListHeads(heap)
  BY <1>2, <1>3, ListHeadsAre DEF Queues
<1>5. procQ(s) = pcbfree_h
  BY <1>2, <1>4, Apartness, ListHeadsAre DEF Free
<1>. QED
  BY <1>5, Owner, NodeKinds, FixedHeads

(* allocPcb implements allocPcb of Tables.                                  *)
LEMMA RefAllocPcb ==
  ASSUME ListsInv, ListsInv', allocPcb
  PROVE  Model!allocPcb
<1>. DEFINE p == container_of(heap.next[pcbfree_h])
            t == list_for_each(heap, pcbfree_h)
<1>1. /\ p \in PCB /\ Free(heap, p) /\ heap.next[pcbfree_h] = link(p)
      /\ Allocates(heap, heap', p)
  BY StepAllocPcb
<1>2. /\ p_parent' = [p_parent EXCEPT ![p] = NULL]
      /\ p_semkey' = [p_semkey EXCEPT ![p] = NULL]
      /\ priority' = [priority EXCEPT ![p] = 0]
      /\ UNCHANGED s_key
  BY DEF allocPcb
<1>3. 1 \in 1 .. Len(t) /\ t[1] = link(p)
  BY <1>1, FreeFacts, FirstOn DEF allocPcb
<1>. HIDE DEF p
<1>4. /\ Shape(heap') /\ \A q \in PCB : Free(heap', q) <=> Free(heap, q) /\ q # p
      /\ SameLists(heap, heap', ListHeads(heap) \ {pcbfree_h})
      /\ list_for_each(heap', child(p)) = <<>>
  BY <1>1 DEF Allocates
<1>5. PICK i \in 1 .. Len(t) :
        t[i] = link(p) /\ list_for_each(heap', pcbfree_h) = Without(t, i)
  BY <1>1 DEF Allocates
<1>6. t \in Seq(Node) /\ IsInjective(t) /\ DOMAIN t = 1 .. Len(t)
  BY FreeFacts, ListType
<1>7. i = 1
  BY <1>3, <1>5, <1>6 DEF IsInjective
<1>8. pcbFree' = Without(pcbFree, 1)
  <2>. HIDE DEF t
  <2>1. OwnersOf(Without(t, 1)) = Without(OwnersOf(t), 1)
    BY <1>3, <1>6, OwnersWithout
  <2>. QED
    BY <1>5, <1>7, <2>1, FreeFacts DEF t
<1>9. 1 \in 1 .. Len(pcbFree) /\ pcbFree[1] = p
  <2>1. pcbFree[1] = container_of(t[1])
    BY <1>3, FreeFacts, OwnersAre DEF pcbFree
  <2>. QED
    BY <1>1, <1>3, <2>1, FreeFacts, Owner
<1>10. pcbFree # <<>> /\ pcbFree' = Tail(pcbFree) /\ Head(pcbFree) = p
  BY <1>8, <1>9, TailIsWithout, FreeFacts
<1>11. p_semkey' = p_semkey
  <2>1. p_semkey[p] = NULL
    BY <1>1, FreeNotBlocked
  <2>. QED
    BY <1>2, <2>1 DEF ListsInv, ListsTypeOK
<1>12. Mapped /\ Mapped'
  BY InvMapped, InvMappedNext
<1>13. Shape(heap) /\ Queues(heap, p_semkey, s_key) /\ Queues(heap', p_semkey, s_key)
  <2>1. Queues(heap', p_semkey', s_key')
    BY DEF ListsInv
  <2>. QED
    BY <1>2, <1>11, <2>1 DEF ListsInv
<1>14. /\ KeysOf(heap', s_key) = KeysOf(heap, s_key)
       /\ list_for_each(heap', semdFree_h) = list_for_each(heap, semdFree_h)
       /\ Owners(heap', readyQueue_h) = Owners(heap, readyQueue_h)
       /\ QueuesOf(heap', s_key) = QueuesOf(heap, s_key)
       /\ \A q \in PCB : ~ Free(heap, q) => Owners(heap', child(q)) = Owners(heap, child(q))
  BY <1>4, <1>13, FreeListChanges
<1>15. Owners(heap', child(p)) = <<>>
  BY <1>4 DEF Owners
<1>16. KidsOf(heap') = KidsOf(heap)
  BY <1>1, <1>4, <1>14, <1>15 DEF KidsOf
<1>17. UNCHANGED <<asl, semdFree, s_procQ, readyQueue, p_child>>
  BY <1>2, <1>12, <1>14, <1>16 DEF Mapped
<1>18. \A q \in Model!allocated :
         /\ p_parent[q] \in Model!allocated \cup {NULL}
         /\ Model!ToSet(p_child[q]) \subseteq Model!allocated
  <2>1. Model!allocated = allocated /\ \A q \in allocated : q \in PCB /\ p_child[q] = Owners(heap, child(q))
    BY <1>12 DEF Mapped, KidsOf
  <2>2. \A q \in allocated : /\ p_parent[q] \in allocated \cup {NULL}
                             /\ ToSet(Owners(heap, child(q))) \subseteq allocated
    BY DEF allocPcb
  <2>. QED
    BY <2>1, <2>2 DEF Model!ToSet, ToSet
<1>. QED
  BY <1>2, <1>10, <1>11, <1>17, <1>18 DEF Model!allocPcb, Model!aslVars

(* freePcb implements freePcb of Tables.                                    *)
LEMMA RefFreePcb ==
  ASSUME ListsInv, ListsInv', NEW p \in PCB, freePcb(p)
  PROVE  Model!freePcb(p)
<1>. DEFINE t == list_for_each(heap, pcbfree_h)
<1>1. Releases(heap, heap', p) /\ ~ Free(heap, p)
  BY StepFreePcb
<1>2. UNCHANGED <<p_parent, p_semkey, s_key, priority>> /\ Held(p)
  BY DEF freePcb
<1>3. /\ Shape(heap') /\ \A q \in PCB : Free(heap', q) <=> Free(heap, q) \/ q = p
      /\ SameLists(heap, heap', ListHeads(heap) \ {pcbfree_h})
      /\ list_for_each(heap', pcbfree_h) = Inserted(t, 0, link(p))
  BY <1>1 DEF Releases
<1>4. Mapped /\ Mapped'
  BY InvMapped, InvMappedNext
<1>5. Shape(heap) /\ Queues(heap, p_semkey, s_key) /\ Queues(heap', p_semkey, s_key)
  <2>1. Queues(heap', p_semkey', s_key')
    BY DEF ListsInv
  <2>. QED
    BY <1>2, <2>1 DEF ListsInv
<1>6. /\ KeysOf(heap', s_key) = KeysOf(heap, s_key)
      /\ list_for_each(heap', semdFree_h) = list_for_each(heap, semdFree_h)
      /\ Owners(heap', readyQueue_h) = Owners(heap, readyQueue_h)
      /\ QueuesOf(heap', s_key) = QueuesOf(heap, s_key)
      /\ \A q \in PCB : ~ Free(heap, q) => Owners(heap', child(q)) = Owners(heap, child(q))
  BY <1>3, <1>5, FreeListChanges
<1>7. UNCHANGED <<asl, semdFree, s_procQ, readyQueue>>
  BY <1>2, <1>4, <1>6 DEF Mapped
<1>8. p_child' = [p_child EXCEPT ![p] = <<>>]
  <2>1. KidsOf(heap') = [KidsOf(heap) EXCEPT ![p] = <<>>]
    BY <1>3, <1>6 DEF KidsOf
  <2>. QED
    BY <1>4, <2>1 DEF Mapped
<1>9. pcbFree' = <<p>> \o pcbFree
  <2>1. t \in Seq(Node) /\ 0 \in 0 .. Len(t)
    BY FreeFacts, ListType
  <2>. HIDE DEF t
  <2>2. OwnersOf(Inserted(t, 0, link(p))) = Inserted(OwnersOf(t), 0, container_of(link(p)))
    BY <2>1, OwnersInserted
  <2>3. pcbFree' = Inserted(pcbFree, 0, p)
    BY <1>3, <2>2, FreeFacts, Owner DEF t
  <2>. QED
    BY <2>3, FrontIsInserted, FreeFacts
<1>10. Model!Held(p)
  BY <1>2, RefHeld
<1>. QED
  BY <1>2, <1>7, <1>8, <1>9, <1>10 DEF Model!freePcb, Model!aslVars

(* The semaphores with a descriptor and their queues.                       *)
LEMMA SemdFacts ==
  ASSUME ListsInv
  PROVE  /\ Shape(heap) /\ Queues(heap, p_semkey, s_key) /\ Proper(heap, ListHeads(heap))
         /\ \A k : k \in asl <=> \E s \in Semd : Active(heap, s) /\ s_key[s] = k
         /\ asl \subseteq Key /\ NULL \notin asl
         /\ semdFree \in Nat /\ semdFree = Len(list_for_each(heap, semdFree_h))
         /\ s_procQ = QueuesOf(heap, s_key)
         /\ \A k \in Key : s_procQ[k] = QueueOf(heap, s_key, k)
         /\ \A k \in Key : s_procQ[k] \in Seq(PCB) /\ IsInjective(s_procQ[k])
         /\ \A k \in Key : \A p \in PCB : On(s_procQ[k], p) <=> p_semkey[p] = k
         /\ \A k \in Key : s_procQ[k] = <<>> <=> k \notin asl
         /\ p_semkey \in [PCB -> Key \cup {NULL}]
<1>1. /\ Shape(heap) /\ Queues(heap, p_semkey, s_key) /\ Proper(heap, ListHeads(heap))
      /\ p_semkey \in [PCB -> Key \cup {NULL}]
  BY DEF ListsInv, ListsTypeOK, Shape
<1>2. Mapped
  BY InvMapped
<1>3. \A k : k \in asl <=> \E s \in Semd : Active(heap, s) /\ s_key[s] = k
  BY <1>2 DEF Mapped, KeysOf
<1>4. asl \subseteq Key /\ NULL \notin asl
  BY <1>1, <1>3, ListsAssumption DEF Queues
<1>5. semdFree \in Nat /\ semdFree = Len(list_for_each(heap, semdFree_h))
  BY <1>1, <1>2, ListType, ListHeadsAre DEF Mapped
<1>6. s_procQ = QueuesOf(heap, s_key) /\ \A k \in Key : s_procQ[k] = QueueOf(heap, s_key, k)
  BY <1>2 DEF Mapped, QueuesOf
<1>7. \A k \in Key : /\ s_procQ[k] \in Seq(PCB) /\ IsInjective(s_procQ[k])
                     /\ \A p \in PCB : On(s_procQ[k], p) <=> p_semkey[p] = k
  BY <1>1, <1>6, QueueOfType, ListsAssumption
<1>8. ASSUME NEW k \in Key PROVE s_procQ[k] = <<>> <=> k \notin asl
  <2>1. CASE k \in asl
    <3>1. PICK p \in PCB : p_semkey[p] = k
      BY <1>1, <1>3, <2>1 DEF Queues
    <3>2. On(s_procQ[k], p)
      BY <1>7, <3>1
    <3>. QED
      BY <2>1, <3>2 DEF On
  <2>2. CASE k \notin asl
    BY <1>1, <1>3, <1>6, <2>2, QueueOfNone
  <2>. QED
    BY <2>1, <2>2
<1>. QED
  BY <1>1, <1>3, <1>4, <1>5, <1>6, <1>7, <1>8

(* The same after a step.                                                   *)
LEMMA SemdFactsNext ==
  ASSUME ListsInv'
  PROVE  /\ Shape(heap') /\ Queues(heap', p_semkey', s_key')
         /\ asl' = KeysOf(heap', s_key')
         /\ semdFree' = Len(list_for_each(heap', semdFree_h)) /\ semdFree' \in Nat
         /\ s_procQ' = QueuesOf(heap', s_key')
<1>1. Mapped'
  BY InvMappedNext
<1>2. Shape(heap') /\ Queues(heap', p_semkey', s_key') /\ Proper(heap', ListHeads(heap'))
  BY DEF ListsInv, Shape
<1>3. Len(list_for_each(heap', semdFree_h)) \in Nat
  BY <1>2, ListType, ListHeadsAre
<1>. QED
  BY <1>1, <1>2, <1>3 DEF Mapped

(* What a change of the queues of blocked processes leaves alone.           *)
LEMMA RestKept ==
  ASSUME ListsInv, ListsInv', SameLists(heap, heap', ListHeads(heap) \ (ProcQs \cup {semd_h, semdFree_h}))
  PROVE  pcbFree' = pcbFree /\ readyQueue' = readyQueue /\ p_child' = p_child
<1>1. Mapped /\ Mapped'
  BY InvMapped, InvMappedNext
<1>2. /\ list_for_each(heap', pcbfree_h) = list_for_each(heap, pcbfree_h)
      /\ list_for_each(heap', readyQueue_h) = list_for_each(heap, readyQueue_h)
  BY ListHeadsAre, FixedHeads, NodeKinds DEF SameLists
<1>3. \A q \in PCB : Free(heap', q) <=> Free(heap, q)
  BY <1>2 DEF Free, Queued
<1>4. \A q \in PCB : ~ Free(heap, q) => list_for_each(heap', child(q)) = list_for_each(heap, child(q))
  <2>1. ASSUME NEW q \in PCB, ~ Free(heap, q)
        PROVE  child(q) \in ListHeads(heap) \ (ProcQs \cup {semd_h, semdFree_h})
    BY <2>1, ListHeadsAre, Owner, NodeKinds, FixedHeads
  <2>. QED
    BY <2>1 DEF SameLists
<1>5. KidsOf(heap') = KidsOf(heap)
  BY <1>3, <1>4, SameKids
<1>. QED
  BY <1>1, <1>2, <1>5 DEF Mapped, Owners

(* p behind those who wait for k already.                                   *)
LEMMA RefBlockMore ==
  ASSUME ListsInv, ListsInv', NEW p \in PCB, NEW k \in Key, NEW s \in Semd,
         Active(heap, s), s_key[s] = k,
         AddsTo(heap, heap', ListHeads(heap), procQ(s),
                Len(list_for_each(heap, procQ(s))), link(p)),
         s_key' = s_key
  PROVE  /\ k \in asl /\ asl' = asl /\ semdFree' = semdFree
         /\ s_procQ' = [s_procQ EXCEPT ![k] = Append(s_procQ[k], p)]
         /\ pcbFree' = pcbFree /\ readyQueue' = readyQueue /\ p_child' = p_child
<1>. DEFINE n == Len(list_for_each(heap, procQ(s)))
<1>1. /\ Shape(heap) /\ Queues(heap, p_semkey, s_key) /\ Proper(heap, ListHeads(heap))
      /\ k \in asl /\ Shape(heap') /\ Queues(heap', p_semkey', s_key)
  BY SemdFacts, SemdFactsNext
<1>2. /\ procQ(s) \in ListHeads(heap) /\ procQ(s) \notin Children /\ procQ(s) # readyQueue_h
      /\ procQ(s) \notin {pcbfree_h, semd_h, semdFree_h}
  BY ListHeadsAre, FixedHeads, Owner, NodeKinds
<1>3. n \in 0 .. n /\ n \in Nat
  BY <1>1, <1>2, ListType
<1>4. AddsTo(heap, heap', ListHeads(heap), procQ(s), n, link(p))
  OBVIOUS
<1>. HIDE DEF n
<1>5. Frame(heap, heap')
  BY <1>1, <1>2, <1>4, FrameAdd
<1>6. SameLists(heap, heap', ListHeads(heap) \ {procQ(s)})
  BY <1>4 DEF AddsTo
<1>7. Others /\ readyQueue' = readyQueue /\ p_child' = p_child
  BY <1>2, <1>5, <1>6, OthersKept
<1>8. \A r \in Semd : Active(heap', r) <=> Active(heap, r)
  BY <1>5 DEF Frame
<1>9. ASSUME NEW j \in Key, j # k PROVE QueueOf(heap', s_key, j) = QueueOf(heap, s_key, j)
  <2>1. ASSUME NEW r \in Semd, Active(heap, r), s_key[r] = j
        PROVE  list_for_each(heap', procQ(r)) = list_for_each(heap, procQ(r))
    <3>1. procQ(r) # procQ(s)
      BY <1>9, <2>1, Owner
    <3>. QED
      BY <1>6, <2>1, <3>1, ListHeadsAre DEF SameLists
  <2>. QED
    BY <1>1, <1>8, <2>1, SameQueueOf
<1>10. QueueOf(heap', s_key, k) = Owners(heap', procQ(s)) /\ s_procQ[k] = Owners(heap, procQ(s))
  <2>1. Active(heap', s) /\ s_procQ[k] = QueueOf(heap, s_key, k)
    BY <1>8, SemdFacts
  <2>. QED
    BY <1>1, <2>1, QueueOfActive
<1>11. QueueOf(heap', s_key, k) = Append(s_procQ[k], p)
  <2>1. Owners(heap', procQ(s)) = Inserted(Owners(heap, procQ(s)), n, p)
    BY <1>1, <1>2, <1>3, <1>4, AddsOwners, Owner DEF n
  <2>2. Len(Owners(heap, procQ(s))) = n
    BY <1>1, <1>2, OwnersAre DEF n
  <2>3. s_procQ[k] \in Seq(PCB)
    BY SemdFacts
  <2>. QED
    BY <1>10, <2>1, <2>2, <2>3, AppendIsInserted
<1>12. s_procQ' = QueuesOf(heap', s_key) /\ s_procQ = QueuesOf(heap, s_key)
  BY SemdFacts, SemdFactsNext
<1>13. s_procQ' = [s_procQ EXCEPT ![k] = Append(s_procQ[k], p)]
  BY <1>9, <1>11, <1>12 DEF QueuesOf
<1>. QED
  BY <1>1, <1>7, <1>13 DEF Others

(* p is the first one to wait for k.                                        *)
LEMMA RefBlockFirst ==
  ASSUME ListsInv, ListsInv', NEW p \in PCB, NEW k \in Key, NEW new \in Semd,
         ~ Active(heap, new), Claims(heap, heap', new, p),
         \A s \in Semd : Active(heap, s) => s_key[s] # k,
         s_key' = [s_key EXCEPT ![new] = k]
  PROVE  /\ k \notin asl /\ asl' = asl \cup {k}
         /\ semdFree # 0 /\ semdFree' = semdFree - 1
         /\ s_procQ' = [s_procQ EXCEPT ![k] = Append(<<>>, p)]
         /\ pcbFree' = pcbFree /\ readyQueue' = readyQueue /\ p_child' = p_child
<1>1. /\ Shape(heap) /\ Queues(heap, p_semkey, s_key) /\ Proper(heap, ListHeads(heap))
      /\ k \notin asl /\ Shape(heap') /\ Queues(heap', p_semkey', s_key')
  BY SemdFacts, SemdFactsNext
<1>2. /\ \A s \in Semd : Active(heap', s) <=> Active(heap, s) \/ s = new
      /\ list_for_each(heap', procQ(new)) = Inserted(<<>>, 0, link(p))
      /\ SameLists(heap, heap', ListHeads(heap) \ {semd_h, semdFree_h})
      /\ Len(list_for_each(heap', semdFree_h)) = Len(list_for_each(heap, semdFree_h)) - 1
  BY DEF Claims
<1>3. \A r \in Semd : s_key'[r] = IF r = new THEN k ELSE s_key[r]
  BY DEF ListsInv, ListsTypeOK
<1>4. asl' = asl \cup {k}
  <2>1. \A j : j \in asl' <=> \E s \in Semd : Active(heap', s) /\ s_key'[s] = j
    BY SemdFactsNext DEF KeysOf
  <2>2. \A j : j \in asl <=> \E s \in Semd : Active(heap, s) /\ s_key[s] = j
    BY SemdFacts
  <2>3. \A j : j \in asl' <=> j \in asl \/ j = k
    BY <1>2, <1>3, <2>1, <2>2
  <2>. QED
    BY <2>3
<1>5. semdFree # 0 /\ semdFree' = semdFree - 1
  <2>1. semdFree \in Nat /\ semdFree' \in Nat /\ semdFree' = semdFree - 1
    BY <1>2, SemdFacts, SemdFactsNext
  <2>. QED
    BY <2>1
<1>6. ASSUME NEW j \in Key, j # k PROVE QueueOf(heap', s_key', j) = QueueOf(heap, s_key, j)
  <2>1. ASSUME NEW r \in Semd, Active(heap, r)
        PROVE  list_for_each(heap', procQ(r)) = list_for_each(heap, procQ(r))
    <3>1. procQ(r) \in ListHeads(heap) \ {semd_h, semdFree_h}
      BY <2>1, ListHeadsAre, Owner, NodeKinds, FixedHeads
    <3>. QED
      BY <1>2, <3>1 DEF SameLists
  <2>2. \A r \in Semd : Active(heap, r) /\ s_key[r] = j <=> Active(heap', r) /\ s_key'[r] = j
    BY <1>2, <1>3, <1>6
  <2>. DEFINE g == heap'
              semkey1 == p_semkey'
              key1 == s_key'
  <2>3. /\ Shape(g) /\ Queues(g, semkey1, key1) /\ Shape(heap) /\ Queues(heap, p_semkey, s_key)
        /\ \A r \in Semd : Active(heap, r) /\ s_key[r] = j <=> Active(g, r) /\ key1[r] = j
        /\ \A r \in Semd : Active(heap, r) /\ s_key[r] = j =>
             list_for_each(g, procQ(r)) = list_for_each(heap, procQ(r))
    BY <1>1, <2>1, <2>2
  <2>. HIDE DEF g, semkey1, key1
  <2>4. QueueOf(g, key1, j) = QueueOf(heap, s_key, j)
    BY <2>3, SameQueueOf
  <2>. QED
    BY <2>4 DEF g, key1
<1>7. QueueOf(heap', s_key', k) = Append(<<>>, p)
  <2>1. Active(heap', new) /\ s_key'[new] = k
    BY <1>2, <1>3
  <2>2. QueueOf(heap', s_key', k) = Owners(heap', procQ(new))
    BY <1>1, <2>1, QueueOfActive
  <2>3. /\ Proper(heap', ListHeads(heap')) /\ procQ(new) \in ListHeads(heap')
        /\ Kind(procQ(new)) = Links
    BY <1>1, <2>1, ListHeadsAre, KindOf DEF Shape
  <2>4. Len(list_for_each(heap', procQ(new))) = 1 /\ list_for_each(heap', procQ(new))[1] = link(p)
    BY <1>2 DEF Inserted
  <2>5. Owners(heap', procQ(new)) \in Seq(PCB) /\ Len(Owners(heap', procQ(new))) = 1
        /\ Owners(heap', procQ(new))[1] = p
    BY <2>3, <2>4, OwnersType, OwnersAre, Owner
  <2>6. Owners(heap', procQ(new)) = <<p>>
    BY <2>5
  <2>. QED
    BY <2>2, <2>6
<1>8. s_procQ' = QueuesOf(heap', s_key') /\ s_procQ = QueuesOf(heap, s_key)
  BY SemdFacts, SemdFactsNext
<1>9. s_procQ' = [s_procQ EXCEPT ![k] = Append(<<>>, p)]
  BY <1>6, <1>7, <1>8 DEF QueuesOf
<1>10. pcbFree' = pcbFree /\ readyQueue' = readyQueue /\ p_child' = p_child
  <2>1. SameLists(heap, heap', ListHeads(heap) \ (ProcQs \cup {semd_h, semdFree_h}))
    BY <1>2 DEF SameLists
  <2>. QED
    BY <2>1, RestKept
<1>. QED
  BY <1>1, <1>4, <1>5, <1>9, <1>10

(* insertBlocked implements blockOn of Tables.                              *)
LEMMA RefInsertBlocked ==
  ASSUME ListsInv, ListsInv', NEW p \in PCB, NEW k \in Key, insertBlocked(k, p)
  PROVE  Model!blockOn(k, p)
<1>1. UNCHANGED <<p_parent, priority>> /\ p_semkey' = [p_semkey EXCEPT ![p] = k] /\ Held(p)
  BY DEF insertBlocked
<1>2. Model!Held(p)
  BY <1>1, RefHeld
<1>3. CASE \E s \in Semd :
             /\ Active(heap, s) /\ s_key[s] = k /\ s_key' = s_key
             /\ AddsTo(heap, heap', ListHeads(heap), procQ(s),
                       Len(list_for_each(heap, procQ(s))), link(p))
  <2>1. /\ k \in asl /\ asl' = asl /\ semdFree' = semdFree
        /\ s_procQ' = [s_procQ EXCEPT ![k] = Append(s_procQ[k], p)]
        /\ pcbFree' = pcbFree /\ readyQueue' = readyQueue /\ p_child' = p_child
    BY <1>3, RefBlockMore
  <2>. QED
    BY <1>1, <1>2, <2>1 DEF Model!blockOn, Model!insertBlocked
<1>4. CASE \E new \in Semd :
             /\ ~ Active(heap, new) /\ Claims(heap, heap', new, p)
             /\ \A s \in Semd : Active(heap, s) => s_key[s] # k
             /\ s_key' = [s_key EXCEPT ![new] = k]
  <2>1. /\ k \notin asl /\ asl' = asl \cup {k}
        /\ semdFree # 0 /\ semdFree' = semdFree - 1
        /\ s_procQ' = [s_procQ EXCEPT ![k] = Append(<<>>, p)]
        /\ pcbFree' = pcbFree /\ readyQueue' = readyQueue /\ p_child' = p_child
    BY <1>4, RefBlockFirst
  <2>. QED
    BY <1>1, <1>2, <2>1 DEF Model!blockOn, Model!insertBlocked
<1>. QED
  BY <1>3, <1>4, StepInsertBlocked

(* A semaphore has a descriptor while somebody waits.                       *)
LEMMA SemdEmpty == ListsInv => \A k \in Key : s_procQ[k] = <<>> <=> k \notin asl
  BY SemdFacts

(* The same after a step.                                                   *)
LEMMA SemdEmptyNext == ListsInv' => \A k \in Key : s_procQ'[k] = <<>> <=> k \notin asl'
<1>1. (ListsInv => \A k \in Key : s_procQ[k] = <<>> <=> k \notin asl)'
  BY SemdEmpty, PTL
<1>. QED
  BY <1>1

(* p leaves the queue of k, whose descriptor goes with the last one.        *)
LEMMA RefUnblock ==
  ASSUME ListsInv, ListsInv', NEW p \in PCB, NEW k \in Key, p_semkey[p] = k, unblock(p)
  PROVE  /\ k \in asl /\ Model!unblock(k, p)
         /\ UNCHANGED <<pcbFree, readyQueue, priority, p_parent, p_child>>
<1>1. UNCHANGED <<p_parent, s_key, priority>> /\ p_semkey' = [p_semkey EXCEPT ![p] = NULL]
  BY DEF unblock
<1>2. p_semkey[p] # NULL
  BY ListsAssumption
<1>3. PICK s \in Semd :
        Active(heap, s) /\ s_key[s] = p_semkey[p] /\ Leaves(heap, heap', s, p)
  BY <1>2, StepUnblock
<1>4. /\ Shape(heap) /\ Queues(heap, p_semkey, s_key) /\ Proper(heap, ListHeads(heap))
      /\ p_semkey \in [PCB -> Key \cup {NULL}] /\ s_procQ = QueuesOf(heap, s_key)
      /\ s_procQ[k] \in Seq(PCB) /\ IsInjective(s_procQ[k])
      /\ \A j \in Key : s_procQ[j] = QueueOf(heap, s_key, j)
      /\ semdFree = Len(list_for_each(heap, semdFree_h))
      /\ \A j : j \in asl <=> \E r \in Semd : Active(heap, r) /\ s_key[r] = j
  BY SemdFacts
<1>5. /\ Shape(heap') /\ s_procQ' = QueuesOf(heap', s_key) /\ asl' = KeysOf(heap', s_key)
      /\ semdFree' = Len(list_for_each(heap', semdFree_h))
  BY <1>1, SemdFactsNext
<1>6. /\ \A j \in Key : j # s_key[s] => QueueOf(heap', s_key, j) = QueueOf(heap, s_key, j)
      /\ \E i \in 1 .. Len(QueueOf(heap, s_key, s_key[s])) :
           /\ QueueOf(heap, s_key, s_key[s])[i] = p
           /\ QueueOf(heap', s_key, s_key[s]) = Without(QueueOf(heap, s_key, s_key[s]), i)
  BY <1>3, <1>4, LeavesQueueOf
<1>7. PICK i \in 1 .. Len(s_procQ[k]) :
        s_procQ[k][i] = p /\ QueueOf(heap', s_key, k) = Without(s_procQ[k], i)
  BY <1>3, <1>4, <1>6
<1>8. QueueOf(heap', s_key, k) = Model!outProcQ(s_procQ[k], p)
  <2>. DEFINE t == s_procQ[k]
  <2>1. t \in Seq(PCB) /\ IsInjective(t) /\ i \in 1 .. Len(t) /\ t[i] = p
    BY <1>4, <1>7
  <2>. HIDE DEF t
  <2>2. Model!outProcQ(t, t[i]) = Without(t, i)
    BY <2>1, RemoveFirstIs
  <2>. QED
    BY <1>7, <2>1, <2>2 DEF t
<1>9. s_procQ' = [s_procQ EXCEPT ![k] = Model!outProcQ(s_procQ[k], p)]
  BY <1>3, <1>4, <1>5, <1>6, <1>8 DEF QueuesOf
<1>10. s_procQ'[k] = Model!outProcQ(s_procQ[k], p)
  BY <1>5, <1>8 DEF QueuesOf
<1>11. s_procQ'[k] = <<>> <=> k \notin asl'
  BY SemdEmptyNext
<1>12. \A j : j \in asl' <=> \E r \in Semd : Active(heap', r) /\ s_key[r] = j
  BY <1>5 DEF KeysOf
<1>13. /\ Model!outProcQ(s_procQ[k], p) = <<>> => asl' = asl \ {k} /\ semdFree' = semdFree + 1
       /\ Model!outProcQ(s_procQ[k], p) # <<>> => asl' = asl /\ semdFree' = semdFree
  <2>1. CASE Takes(heap, heap', ListHeads(heap), procQ(s), link(p)) /\ Frame(heap, heap')
    <3>1. \A r \in Semd : Active(heap', r) <=> Active(heap, r)
      BY <2>1 DEF Frame
    <3>2. \A j : j \in asl' <=> j \in asl
      BY <1>4, <1>12, <3>1
    <3>3. k \in asl' /\ asl' = asl
      BY <1>3, <1>4, <3>2
    <3>4. SameLists(heap, heap', ListHeads(heap) \ {procQ(s)})
      BY <2>1, TakenSets
    <3>5. semdFree_h \in ListHeads(heap) \ {procQ(s)}
      BY ListHeadsAre, FixedHeads, Owner, NodeKinds
    <3>6. semdFree' = semdFree
      BY <1>4, <1>5, <3>4, <3>5 DEF SameLists
    <3>. QED
      BY <1>10, <1>11, <3>3, <3>6
  <2>2. CASE Retires(heap, heap', s, p)
    <3>1. /\ \A r \in Semd : Active(heap', r) <=> Active(heap, r) /\ r # s
          /\ Len(list_for_each(heap', semdFree_h)) = Len(list_for_each(heap, semdFree_h)) + 1
      BY <2>2 DEF Retires
    <3>2. \A r \in Semd : Active(heap, r) /\ s_key[r] = k => r = s
      BY <1>3, <1>4 DEF Queues
    <3>3. \A j : j \in asl' <=> j \in asl /\ j # k
      BY <1>3, <1>4, <1>12, <3>1, <3>2
    <3>4. k \notin asl' /\ asl' = asl \ {k}
      BY <3>3
    <3>. QED
      BY <1>4, <1>5, <1>10, <1>11, <3>1, <3>4
  <2>. QED
    BY <1>3, <2>1, <2>2 DEF Leaves
<1>14. k \in asl
  BY <1>3, <1>4
<1>15. Model!unblock(k, p)
  BY <1>1, <1>9, <1>13 DEF Model!unblock
<1>16. pcbFree' = pcbFree /\ readyQueue' = readyQueue /\ p_child' = p_child
  <2>1. SameLists(heap, heap', ListHeads(heap) \ {procQ(s), semd_h, semdFree_h})
    BY <1>3, <1>4, LeavesOthers
  <2>2. procQ(s) \in ProcQs
    BY Owner
  <2>3. SameLists(heap, heap', ListHeads(heap) \ (ProcQs \cup {semd_h, semdFree_h}))
    BY <2>1, <2>2 DEF SameLists
  <2>. QED
    BY <2>3, RestKept
<1>. QED
  BY <1>1, <1>14, <1>15, <1>16

(* removeBlocked implements wakeOn of Tables.                               *)
LEMMA RefRemoveBlocked ==
  ASSUME ListsInv, ListsInv', NEW k \in Key, removeBlocked(k)
  PROVE  Model!wakeOn(k)
<1>. DEFINE s == getSemd(heap, k)
            p == container_of(heap.next[procQ(s)])
<1>1. /\ s \in Semd /\ Active(heap, s) /\ s_key[s] = k
      /\ p \in PCB /\ p_semkey[p] = k /\ unblock(p)
      /\ 1 \in 1 .. Len(list_for_each(heap, procQ(s)))
      /\ list_for_each(heap, procQ(s))[1] = link(p)
  BY StepRemoveBlocked
<1>. HIDE DEF s, p
<1>2. /\ k \in asl /\ Model!unblock(k, p)
      /\ UNCHANGED <<pcbFree, readyQueue, priority, p_parent, p_child>>
  BY <1>1, RefUnblock
<1>3. /\ Shape(heap) /\ Queues(heap, p_semkey, s_key) /\ Proper(heap, ListHeads(heap))
      /\ s_procQ[k] = QueueOf(heap, s_key, k) /\ s_procQ[k] \in Seq(PCB)
  BY SemdFacts
<1>4. s_procQ[k] = Owners(heap, procQ(s)) /\ procQ(s) \in ListHeads(heap)
  BY <1>1, <1>3, QueueOfActive, ListHeadsAre
<1>5. 1 \in 1 .. Len(s_procQ[k]) /\ s_procQ[k][1] = p
  BY <1>1, <1>3, <1>4, OwnersAre, Owner
<1>6. s_procQ[k] # <<>> /\ Head(s_procQ[k]) = p
  <2>. DEFINE t == s_procQ[k]
  <2>1. t \in Seq(PCB) /\ 1 \in 1 .. Len(t) /\ t[1] = p
    BY <1>3, <1>5
  <2>. HIDE DEF t
  <2>2. t # <<>> /\ Head(t) = p
    BY <2>1, TailIsWithout
  <2>. QED
    BY <2>2 DEF t
<1>7. Model!headBlocked(k) = p /\ p # NULL
  BY <1>1, <1>2, <1>6, ListsAssumption DEF Model!headBlocked
<1>8. Model!removeBlocked(k)
  BY <1>2, <1>7 DEF Model!removeBlocked
<1>. QED
  BY <1>2, <1>8 DEF Model!wakeOn

(* outBlocked implements unblockOf of Tables.                               *)
LEMMA RefOutBlocked ==
  ASSUME ListsInv, ListsInv', NEW p \in PCB, outBlocked(p)
  PROVE  Model!unblockOf(p)
<1>1. unblock(p) /\ p_semkey[p] # NULL
  BY StepOutBlocked DEF outBlocked
<1>2. p_semkey[p] \in Key
  BY <1>1 DEF ListsInv, ListsTypeOK
<1>. DEFINE k == p_semkey[p]
<1>3. /\ k \in asl /\ Model!unblock(k, p)
      /\ UNCHANGED <<pcbFree, readyQueue, priority, p_parent, p_child>>
  BY <1>1, <1>2, RefUnblock
<1>. QED
  BY <1>3 DEF Model!unblockOf, Model!outBlocked

(* Each descriptor on the ASL has a key of its own.                         *)
LEMMA KeysCounted ==
  ASSUME NEW h, NEW semkey, NEW key, Shape(h), Queues(h, semkey, key)
  PROVE  /\ IsFiniteSet(KeysOf(h, key))
         /\ Cardinality(KeysOf(h, key)) = Len(list_for_each(h, semd_h))
<1>. DEFINE t == list_for_each(h, semd_h)
            n == Len(t)
            f == [i \in 1 .. n |-> key[container_of(t[i])]]
            K == KeysOf(h, key)
<1>1. Proper(h, ListHeads(h)) /\ semd_h \in ListHeads(h) /\ Kind(semd_h) = Nexts
  BY ListHeadsAre, KindOf DEF Shape
<1>2. t \in Seq(Node) /\ n \in Nat /\ IsInjective(t) /\ DOMAIN t = 1 .. n
  BY <1>1, ListType
<1>3. \A i \in 1 .. n : /\ container_of(t[i]) \in Semd /\ Active(h, container_of(t[i]))
                        /\ t[i] = s_next(container_of(t[i]))
  <2>1. \A i \in 1 .. n : Queued(h, semd_h, t[i])
    BY DEF Queued, On
  <2>2. \A i \in 1 .. n : t[i] \in Nexts
    BY <1>1, <2>1 DEF Proper
  <2>. QED
    BY <2>1, <2>2, Owner DEF Active
<1>4. \A s \in Semd : Active(h, s) => \E i \in 1 .. n : container_of(t[i]) = s
  BY Owner DEF Active, Queued, On
<1>5. \A s \in Semd : Active(h, s) => key[s] \in K
  BY DEF KeysOf
<1>6. \A k \in K : \E s \in Semd : Active(h, s) /\ key[s] = k
  BY DEF KeysOf
<1>7. \A s, r \in Semd : Active(h, s) /\ Active(h, r) /\ key[s] = key[r] => s = r
  BY DEF Queues
<1>. HIDE DEF t, n, K
<1>8. f \in [1 .. n -> K]
  BY <1>3, <1>5
<1>9. \A i, j \in 1 .. n : f[i] = f[j] => i = j
  <2>1. SUFFICES ASSUME NEW i \in 1 .. n, NEW j \in 1 .. n, f[i] = f[j] PROVE i = j
    OBVIOUS
  <2>2. container_of(t[i]) = container_of(t[j])
    BY <1>3, <1>7, <2>1
  <2>3. t[i] = t[j]
    BY <1>3, <2>2
  <2>. QED
    BY <1>2, <2>3 DEF IsInjective
<1>10. \A k \in K : \E i \in 1 .. n : f[i] = k
  BY <1>4, <1>6
<1>. HIDE DEF f
<1>11. f \in Bijection(1 .. n, K)
  BY <1>8, <1>9, <1>10 DEF Bijection, Injection, Surjection, IsInjective
<1>12. ExistsBijection(1 .. n, K)
  BY <1>11 DEF ExistsBijection
<1>13. IsFiniteSet(1 .. n) /\ Cardinality(1 .. n) = n
  BY <1>2, FS_Interval
<1>14. IsFiniteSet(K) /\ Cardinality(K) = n
  BY <1>12, <1>13, FS_Bijection
<1>. QED
  BY <1>14 DEF K, n, t

(* The descriptors of the semaphores that have none any more are free.      *)
LEMMA SemdReturned ==
  ASSUME ListsInv, ListsInv', asl' \subseteq asl
  PROVE  semdFree' = semdFree + Cardinality(asl \ asl')
<1>1. /\ Shape(heap) /\ Queues(heap, p_semkey, s_key) /\ asl = KeysOf(heap, s_key)
      /\ semdFree = Len(list_for_each(heap, semdFree_h)) /\ semdFree \in Nat
      /\ Proper(heap, ListHeads(heap))
  BY SemdFacts, InvMapped DEF Mapped
<1>2. /\ Shape(heap') /\ Queues(heap', p_semkey', s_key') /\ asl' = KeysOf(heap', s_key')
      /\ semdFree' = Len(list_for_each(heap', semdFree_h)) /\ semdFree' \in Nat
  BY SemdFactsNext
<1>3. IsFiniteSet(asl) /\ Cardinality(asl) = Len(list_for_each(heap, semd_h))
  BY <1>1, KeysCounted
<1>4. Cardinality(asl') = Len(list_for_each(heap', semd_h))
  BY <1>2, KeysCounted
<1>5. Cardinality(asl \ asl') = Cardinality(asl) - Cardinality(asl')
  <2>. DEFINE S == asl
              T == asl'
  <2>1. IsFiniteSet(S) /\ S \cap T = T
    BY <1>3
  <2>. HIDE DEF S, T
  <2>2. Cardinality(S \ T) = Cardinality(S) - Cardinality(T)
    BY <2>1, FS_Difference
  <2>. QED
    BY <2>2 DEF S, T
<1>6. /\ Len(list_for_each(heap, semd_h)) + Len(list_for_each(heap, semdFree_h)) = MAXPROC
      /\ Len(list_for_each(heap', semd_h)) + Len(list_for_each(heap', semdFree_h)) = MAXPROC
  BY <1>1, <1>2 DEF Shape
<1>7. Len(list_for_each(heap, semd_h)) \in Nat /\ Len(list_for_each(heap', semd_h)) \in Nat
  BY <1>1, <1>2, ListType, ListHeadsAre DEF Shape
<1>. HIDE DEF asl, semdFree
<1>. QED
  BY <1>1, <1>2, <1>3, <1>4, <1>5, <1>6, <1>7

(* The queues of blocked processes are sequences of different processes.    *)
LEMMA QueueTypes == ListsInv => \A k \in Key : s_procQ[k] \in Seq(PCB) /\ IsInjective(s_procQ[k])
  BY SemdFacts

(* The same after a step.                                                   *)
LEMMA QueueTypesNext ==
  ListsInv' => \A k \in Key : s_procQ'[k] \in Seq(PCB) /\ IsInjective(s_procQ'[k])
<1>1. (ListsInv => \A k \in Key : s_procQ[k] \in Seq(PCB) /\ IsInjective(s_procQ[k]))'
  BY QueueTypes, PTL
<1>. QED
  BY <1>1

(* The instance of Tables counts as this module does.                       *)
LEMMA CardinalityIs == \A S : Model!Cardinality(S) = Cardinality(S)
  BY Zenon DEF Cardinality, Model!Cardinality

(* outChildBlocked evicts the same processes.                               *)
LEMMA RefEvicted ==
  ASSUME ListsInv, NEW p \in PCB
  PROVE  Model!evicted(p) = evicted(p)
<1>. DEFINE w1 == {q \in PCB : p_semkey[q] \in asl}
            w2 == {q \in PCB : getSemd(heap, p_semkey[q]) # 0}
<1>1. w1 = w2
  <2>1. Shape(heap) /\ \A k : k \in asl <=> \E s \in Semd : Active(heap, s) /\ s_key[s] = k
    BY SemdFacts
  <2>2. ASSUME NEW k PROVE getSemd(heap, k) # 0 <=> k \in asl
    BY <2>1, GetSemd, GetSemdOf, ZeroNoSemd
  <2>. QED
    BY <2>2
<1>2. \A r \in w2 : p_child[r] = Owners(heap, child(r))
  <2>1. ASSUME NEW r \in w2 PROVE p_child[r] = Owners(heap, child(r))
    <3>1. r \in PCB /\ p_semkey[r] # NULL
      BY <2>1, StepOutBlocked
    <3>2. ~ Free(heap, r)
      BY <3>1, FreeNotBlocked
    <3>. QED
      BY <3>1, <3>2, KidsFacts
  <2>. QED
    BY <2>1
<1>. HIDE DEF w1, w2
<1>3. Model!evicted(p) =
        {q \in w1 : \A S \in SUBSET PCB :
           /\ p \in S
           /\ \A r \in S \cap w1 : Model!ToSet(p_child[r]) \subseteq S
           => q \in S}
  BY DEF Model!evicted, w1
<1>4. evicted(p) =
        {q \in w2 : \A S \in SUBSET PCB :
           /\ p \in S
           /\ \A r \in S \cap w2 : ToSet(Owners(heap, child(r))) \subseteq S
           => q \in S}
  BY DEF evicted, w2
<1>5. \A r \in w2 : Model!ToSet(p_child[r]) = ToSet(Owners(heap, child(r)))
  BY <1>2 DEF Model!ToSet, ToSet
<1>. QED
  BY <1>1, <1>3, <1>4, <1>5

(* outChildBlocked implements outChildBlocked of Tables.                    *)
LEMMA RefOutChildBlocked ==
  ASSUME ListsInv, ListsInv', NEW p \in PCB, outChildBlocked(p)
  PROVE  Model!outChildBlocked(p)
<1>. DEFINE out == evicted(p)
<1>1. Thinned(heap, heap', p_semkey, s_key, out)
  BY StepOutChildBlocked
<1>2. /\ p_semkey' = [q \in PCB |-> IF q \in out THEN NULL ELSE p_semkey[q]]
      /\ UNCHANGED <<p_parent, s_key, priority>>
  BY DEF outChildBlocked
<1>3. Model!evicted(p) = out
  BY RefEvicted
<1>. HIDE DEF out
<1>4. /\ \A q \in PCB : Free(heap', q) <=> Free(heap, q)
      /\ list_for_each(heap', readyQueue_h) = list_for_each(heap, readyQueue_h)
      /\ list_for_each(heap', pcbfree_h) = list_for_each(heap, pcbfree_h)
      /\ \A q \in PCB : ~ Free(heap, q) =>
           list_for_each(heap', child(q)) = list_for_each(heap, child(q))
      /\ \A k \in Key : Model!Before(QueueOf(heap', s_key, k)) =
           {o \in Model!Before(QueueOf(heap, s_key, k)) : o[1] \notin out /\ o[2] \notin out}
  BY <1>1 DEF Thinned
<1>5. Mapped /\ Mapped'
  BY InvMapped, InvMappedNext
<1>6. pcbFree' = pcbFree /\ readyQueue' = readyQueue /\ p_child' = p_child
  <2>1. KidsOf(heap') = KidsOf(heap)
    BY <1>4, SameKids
  <2>. QED
    BY <1>4, <1>5, <2>1 DEF Mapped, Owners
<1>7. s_procQ' = QueuesOf(heap', s_key) /\ s_procQ = QueuesOf(heap, s_key)
  BY <1>2, SemdFacts, SemdFactsNext
<1>8. \A k \in Key : s_procQ'[k] = QueueOf(heap', s_key, k) /\ s_procQ[k] = QueueOf(heap, s_key, k)
  BY <1>7 DEF QueuesOf
<1>9. \A k \in Key : s_procQ'[k] \in Seq(PCB) /\ IsInjective(s_procQ'[k])
  BY QueueTypesNext
<1>10. s_procQ' \in [Key -> Seq(PCB)]
  <2>1. s_procQ' = [k \in Key |-> s_procQ'[k]]
    BY <1>7 DEF QueuesOf
  <2>. QED
    BY <1>9, <2>1
<1>11. \A k \in Key : /\ Model!IsInjective(s_procQ'[k])
                      /\ Model!Before(s_procQ'[k]) =
                           {o \in Model!Before(s_procQ[k]) : o[1] \notin out /\ o[2] \notin out}
  BY <1>4, <1>8, <1>9 DEF IsInjective, Model!IsInjective
<1>12. asl' \subseteq asl /\ asl' \subseteq Key
  <2>1. Queues(heap', p_semkey', s_key') /\ asl' = KeysOf(heap', s_key')
    BY SemdFactsNext
  <2>2. \A k \in asl' : k \in Key /\ \E q \in PCB : p_semkey'[q] = k
    BY <2>1 DEF Queues, KeysOf
  <2>3. \A k \in asl' : k \in Key /\ \E q \in PCB : p_semkey[q] = k
    BY <1>2, <2>2, ListsAssumption
  <2>4. \A k \in Key : \A q \in PCB : p_semkey[q] = k => k \in asl
    <3>1. Queues(heap, p_semkey, s_key) /\ \A k : k \in asl <=> \E s \in Semd : Active(heap, s) /\ s_key[s] = k
      BY SemdFacts
    <3>. QED
      BY <3>1, ListsAssumption DEF Queues
  <2>. QED
    BY <2>3, <2>4
<1>13. asl' = {k \in asl : s_procQ'[k] # <<>>}
  <2>1. asl \subseteq Key /\ \A k \in Key : s_procQ'[k] = <<>> <=> k \notin asl'
    BY SemdFacts, SemdEmptyNext
  <2>. QED
    BY <1>12, <2>1
<1>14. semdFree' = semdFree + Cardinality(asl \ asl')
  BY <1>12, SemdReturned
<1>15. p_semkey' = [q \in PCB |-> IF q \in Model!evicted(p) THEN NULL ELSE p_semkey[q]]
  BY <1>2, <1>3
<1>16. \A k \in Key : /\ Model!IsInjective(s_procQ'[k])
                      /\ Model!Before(s_procQ'[k]) =
                           {o \in Model!Before(s_procQ[k]) :
                              o[1] \notin Model!evicted(p) /\ o[2] \notin Model!evicted(p)}
  BY <1>3, <1>11
<1>17. UNCHANGED <<pcbFree, readyQueue, priority, p_parent, p_child>>
  BY <1>2, <1>6
<1>. QED
  BY <1>10, <1>13, <1>14, <1>15, <1>16, <1>17, CardinalityIs, Zenon DEF Model!outChildBlocked

(* The initial states are initial states of Tables.                         *)
LEMMA RefInit ==
  ASSUME ListsInit, ListsInv
  PROVE  Model!TablesInit
<1>1. Empty(heap)
  BY InitHeap
<1>2. /\ Proper(heap, Fixed)
      /\ \A n : Queued(heap, pcbfree_h, n) <=> n \in Links
      /\ \A n : ~ Queued(heap, semd_h, n)
      /\ list_for_each(heap, readyQueue_h) = <<>>
      /\ Len(list_for_each(heap, semdFree_h)) = MAXPROC
      /\ Len(list_for_each(heap, pcbfree_h)) = MAXPROC
  BY <1>1 DEF Empty
<1>3. /\ p_parent = [p \in PCB |-> NULL] /\ p_semkey = [p \in PCB |-> NULL]
      /\ priority = [p \in PCB |-> 0]
  BY DEF ListsInit
<1>4. (\A p \in PCB : Free(heap, p)) /\ (\A s \in Semd : ~ Active(heap, s))
  BY <1>2, Owner DEF Free, Active
<1>5. asl = {} /\ semdFree = MAXPROC
  BY <1>2, <1>4, SemdFacts
<1>6. s_procQ = [k \in Key |-> <<>>]
  <2>1. \A k \in Key : s_procQ[k] = <<>>
    BY <1>5, SemdFacts
  <2>2. s_procQ = [k \in Key |-> s_procQ[k]]
    BY SemdFacts DEF QueuesOf
  <2>. QED
    BY <2>1, <2>2
<1>7. readyQueue = <<>>
  BY <1>2 DEF readyQueue, Owners
<1>8. p_child = [p \in PCB |-> <<>>]
  BY <1>4, InvMapped DEF Mapped, KidsOf
<1>9. pcbFree \in Model!SetToSeqs(PCB)
  <2>1. pcbFree \in Seq(PCB) /\ IsInjective(pcbFree) /\ Len(pcbFree) = MAXPROC
    BY <1>2, FreeFacts
  <2>2. pcbFree \in [1 .. MAXPROC -> PCB] /\ DOMAIN pcbFree = 1 .. MAXPROC
    BY <2>1
  <2>3. \A i, j \in 1 .. MAXPROC : i # j => pcbFree[i] # pcbFree[j]
    BY <2>1, <2>2 DEF IsInjective
  <2>4. Model!Cardinality(PCB) = MAXPROC
    BY CardinalityIs, ListsAssumption
  <2>. QED
    BY <2>2, <2>3, <2>4 DEF Model!SetToSeqs
<1>. QED
  BY <1>3, <1>5, <1>6, <1>7, <1>8, <1>9 DEF Model!TablesInit, Model!initASL

PriorityOK == priority \in [PCB -> Int]

(* Priorities are integers.                                                 *)
LEMMA PriorityKept ==
  ASSUME ListsInv, PriorityOK, [ListsNext]_listVars
  PROVE  PriorityOK'
<1>1. CASE allocPcb
  <2>1. \E p : priority' = [priority EXCEPT ![p] = 0]
    BY <1>1 DEF allocPcb
  <2>. QED
    <3>1. PICK p : priority' = [priority EXCEPT ![p] = 0]
      BY <2>1
    <3>2. \A q \in PCB : priority'[q] \in Int
      BY <3>1 DEF PriorityOK
    <3>. QED
      BY <3>1, <3>2 DEF PriorityOK
<1>2. ASSUME NEW p \in PCB, insertProcQ(p) PROVE PriorityOK'
  <2>1. PICK v \in scope.priorities : priority' = [priority EXCEPT ![p] = v]
    BY <1>2 DEF insertProcQ
  <2>2. v \in Int
    BY ListsAssumption DEF ListsInv, ListsTypeOK
  <2>. QED
    BY <2>1, <2>2 DEF PriorityOK
<1>3. CASE priority' = priority
  BY <1>3 DEF PriorityOK
<1>. QED
  BY <1>1, <1>2, <1>3 DEF ListsNext, listVars, removeProcQ, outProcQ_loop, freePcb, outProcQ,
       outBlocked, unblock, outChildBlocked, outChild, removeChild, insertBlocked, insertChild,
       removeBlocked

(* Every step is a step of Tables or leaves its variables unchanged.        *)
LEMMA RefNext ==
  ASSUME ListsInv, ListsInv', PriorityOK, [ListsNext]_listVars
  PROVE  [Model!TablesNext]_(Model!tableVars)
<1>1. scope.keys \subseteq Key
  BY ListsAssumption DEF ListsInv, ListsTypeOK
<1>2. CASE UNCHANGED listVars
  <2>1. Mapped /\ Mapped'
    BY InvMapped, InvMappedNext
  <2>2. UNCHANGED <<heap, p_parent, p_semkey, s_key, priority>>
    BY <1>2 DEF listVars
  <2>3. UNCHANGED <<asl, semdFree, s_procQ, pcbFree, readyQueue, p_child>>
    BY <2>1, <2>2 DEF Mapped
  <2>. QED
    BY <2>2, <2>3 DEF Model!tableVars, Model!aslVars
<1>3. CASE allocPcb
  <2>1. Model!allocPcb
    BY <1>3, RefAllocPcb
  <2>. QED
    BY <2>1 DEF Model!TablesNext
<1>4. CASE removeProcQ
  <2>1. Model!removeReady
    BY <1>4, RefRemoveProcQ
  <2>. QED
    BY <2>1 DEF Model!TablesNext
<1>5. CASE outProcQ_loop
  <2>1. (\E p \in PCB : Model!outReady(p)) \/ UNCHANGED Model!tableVars
    BY <1>5, RefOutProcQLoop
  <2>. QED
    BY <2>1 DEF Model!TablesNext
<1>6. ASSUME NEW p \in PCB, outProcQ(p) PROVE [Model!TablesNext]_(Model!tableVars)
  BY <1>6, RefOutProcQ
<1>7. ASSUME NEW p \in PCB, freePcb(p) \/ insertProcQ(p)
      PROVE  [Model!TablesNext]_(Model!tableVars)
  <2>1. Model!freePcb(p) \/ Model!insertReady(p)
    BY <1>7, RefFreePcb, RefInsertProcQ DEF PriorityOK
  <2>. QED
    BY <2>1 DEF Model!TablesNext
<1>8. ASSUME NEW p \in PCB, outBlocked(p) \/ outChild(p) \/ removeChild(p)
      PROVE  [Model!TablesNext]_(Model!tableVars)
  <2>1. Model!unblockOf(p) \/ Model!outChild(p) \/ Model!removeChild(p)
    BY <1>8, RefOutBlocked, RefOutChild, RefRemoveChild
  <2>. QED
    BY <2>1 DEF Model!TablesNext
<1>9. ASSUME NEW p \in PCB, outChildBlocked(p) PROVE [Model!TablesNext]_(Model!tableVars)
  <2>1. Model!outChildBlocked(p)
    BY <1>9, RefOutChildBlocked
  <2>. QED
    BY <2>1 DEF Model!TablesNext
<1>10. ASSUME NEW p \in PCB, NEW k \in scope.keys, insertBlocked(k, p)
       PROVE  [Model!TablesNext]_(Model!tableVars)
  <2>1. k \in Key /\ Model!blockOn(k, p)
    BY <1>1, <1>10, RefInsertBlocked
  <2>. QED
    BY <2>1 DEF Model!TablesNext
<1>11. ASSUME NEW p \in PCB, NEW prnt \in PCB, insertChild(prnt, p)
       PROVE  [Model!TablesNext]_(Model!tableVars)
  <2>1. Model!insertChild(prnt, p)
    BY <1>11, RefInsertChild
  <2>. QED
    BY <2>1 DEF Model!TablesNext
<1>12. ASSUME NEW k \in scope.keys, removeBlocked(k)
       PROVE  [Model!TablesNext]_(Model!tableVars)
  <2>1. k \in Key /\ Model!wakeOn(k)
    BY <1>1, <1>12, RefRemoveBlocked
  <2>. QED
    BY <2>1 DEF Model!TablesNext
<1>. QED
  BY <1>2, <1>3, <1>4, <1>5, <1>6, <1>7, <1>8, <1>9, <1>10, <1>11, <1>12 DEF ListsNext

(* The pointers of pcb.c and asl.c implement the sequences and sets of      *)
(* Tables, from which every other module is built: queues keep their order, *)
(* the free PCBs are a stack, a descriptor exists while a process waits for *)
(* its semaphore, and outChildBlocked keeps the others where they are in    *)
(* their queues.                                                            *)
THEOREM ListsImplementsTables == ListsSpec => ImplementsTables
<1>1. ListsInit => PriorityOK
  BY DEF ListsInit, PriorityOK
<1>2. ListsSpec => []PriorityOK
  BY <1>1, PriorityKept, ListsInvariant, PTL DEF ListsSpec
<1>3. ListsInit /\ ListsInv => Model!TablesInit
  BY RefInit
<1>. QED
  BY <1>2, <1>3, RefNext, ListsInvariant, PTL DEF ListsSpec, ImplementsTables, Model!TablesSpec
==============================================================================
