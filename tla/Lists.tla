--------------------------------- MODULE Lists ---------------------------------
(****************************************************************************)
(* pcb.c and asl.c over the pointers of listx.h: the tables of PCBs and     *)
(* semaphore descriptors threaded on their free lists, the ready queue, the *)
(* ASL, the queues of blocked processes and the lists of siblings.  Each    *)
(* function is one action, except outProcQ, whose loop goes on from the     *)
(* element it has removed and takes one step per element.                   *)
(****************************************************************************)
EXTENDS ListX

CONSTANTS
  PCB, Key, NULL, MAXPROC, Priority,
  Scope   \* what the callers make use of, as records of
          \*   keys: semaphores processes are blocked on
          \*   priorities: those they are queued with
          \*   children: PCBs that get a parent

ASSUME ListsAssumption ==
  /\ IsFiniteSet(PCB) /\ MAXPROC = Cardinality(PCB)
  /\ NULL \notin PCB /\ NULL \notin Key
  /\ Priority \subseteq Int
  /\ Scope \subseteq
       [keys : SUBSET Key, priorities : SUBSET Priority, children : SUBSET PCB]

Semd == 1 .. MAXPROC

link(p) == <<"link", p>>
child(p) == <<"p_child", p>>
sib(p) == <<"p_sib", p>>
s_next(s) == <<"s_next", s>>
procQ(s) == <<"s_procQ", s>>
readyQueue_h == <<"head", "readyQueue">>
pcbfree_h == <<"head", "pcbFree">>
semd_h == <<"head", "ASL">>
semdFree_h == <<"head", "semdFree">>

Node ==
  {readyQueue_h, pcbfree_h, semd_h, semdFree_h}
    \cup {link(p) : p \in PCB} \cup {child(p) : p \in PCB} \cup {sib(p) : p \in PCB}
    \cup {s_next(s) : s \in Semd} \cup {procQ(s) : s \in Semd}

VARIABLES
  scope,      \* what is made use of
  heap,       \* the fields next and prev of every list_head
  p_parent,
  p_semkey,
  s_key,      \* key of each descriptor, by its place in semd_table
  priority,
  pos,        \* element the loop of outProcQ stands on, NULL outside of it
  current     \* the PCB it looks for, NULL outside of it

listVars == <<scope, heap, p_parent, p_semkey, s_key, priority, pos, current>>

(* The PCBs or descriptors on a list.                                       *)
Owners(h, head) ==
  LET list == list_for_each(h, head) IN [i \in DOMAIN list |-> container_of(list[i])]

List(head) == list_for_each(heap, head)

(* The loops of initPcbs and initASL.                                       *)
Filled(h, head, nodes) ==
  LET done[i \in 0 .. Len(nodes)] ==
        IF i = 0 THEN INIT_LIST_HEAD(h, head) ELSE list_add(done[i - 1], nodes[i], head)
  IN  done[Len(nodes)]

(* initPcbs, initASL and the queue set up by main(), in tables of zeros.  In *)
(* which order the PCBs are in their table makes no difference.             *)
ListsInit ==
  /\ scope \in Scope
  /\ LET zeros == [next |-> [n \in Node |-> NULL], prev |-> [n \in Node |-> NULL]]
         ready == INIT_LIST_HEAD(zeros, readyQueue_h)
         semds == Filled(INIT_LIST_HEAD(ready, semd_h), semdFree_h,
                         [s \in Semd |-> s_next(s)])
     IN  \E table \in SetToSeqs(PCB) :
           heap = Filled(semds, pcbfree_h, [i \in DOMAIN table |-> link(table[i])])
  /\ p_parent = [p \in PCB |-> NULL]
  /\ p_semkey = [p \in PCB |-> NULL]
  /\ s_key = [s \in Semd |-> NULL]
  /\ priority = [p \in PCB |-> 0]
  /\ pos = NULL /\ current = NULL
------------------------------------------------------------------------------
allocated == PCB \ ToSet(Owners(heap, pcbfree_h))

Held(p) == p_semkey[p] = NULL /\ p \in allocated \ ToSet(Owners(heap, readyQueue_h))

(* No loop is under way.                                                    *)
Called == pos = NULL /\ UNCHANGED <<scope, pos, current>>

(* create_process, which finds the PCBs terminated before all unrelated to  *)
(* those in use.                                                            *)
allocPcb ==
  /\ Called
  /\ \A q \in allocated : /\ p_parent[q] \in allocated \cup {NULL}
                           /\ ToSet(Owners(heap, child(q))) \subseteq allocated
  /\ ~ list_empty(heap, pcbfree_h)
  /\ LET p == container_of(heap.next[pcbfree_h])
         taken == list_del(heap, heap.next[pcbfree_h])
     IN  /\ heap' = INIT_LIST_HEAD(INIT_LIST_HEAD(INIT_LIST_HEAD(taken, link(p)), child(p)),
                                   sib(p))
         /\ p_parent' = [p_parent EXCEPT ![p] = NULL]
         /\ p_semkey' = [p_semkey EXCEPT ![p] = NULL]
         /\ priority' = [priority EXCEPT ![p] = 0]
  /\ UNCHANGED s_key

(* delete_ric frees a PCB before its children and before term_process takes *)
(* it from its parent.                                                      *)
freePcb(p) ==
  /\ Called
  /\ Held(p)
  /\ heap' = list_add(heap, link(p), pcbfree_h)
  /\ UNCHANGED <<p_parent, p_semkey, s_key, priority>>

(* Does the loop of insertProcQ end at node?  The priority after the last   *)
(* element is read from a head, which is no PCB; either way the loop ends.  *)
stops(h, node, prio, v) ==
  list_is_last(h, node, readyQueue_h) \/ prio[container_of(h.next[node])] < v

(* On the ready queue, with the priority the caller gave p.                 *)
insertProcQ(p) ==
  /\ Called
  /\ Held(p)
  /\ \E v \in scope.priorities :
       /\ priority' = [priority EXCEPT ![p] = v]
       /\ LET passed == <<readyQueue_h>> \o List(readyQueue_h)
              i == SelectInSeq(passed, LAMBDA n : stops(heap, n, priority, v))
          IN  heap' = list_add(heap, link(p), passed[i])
  /\ UNCHANGED <<p_parent, p_semkey, s_key>>

removeProcQ ==
  /\ Called
  /\ ~ list_empty(heap, readyQueue_h)
  /\ heap' = list_del(heap, heap.next[readyQueue_h])
  /\ UNCHANGED <<p_parent, p_semkey, s_key, priority>>

outProcQ(p) ==
  /\ pos = NULL
  /\ p \in allocated
  /\ ~ list_empty(heap, readyQueue_h)
  /\ pos' = heap.next[readyQueue_h]
  /\ current' = p
  /\ UNCHANGED <<scope, heap, p_parent, p_semkey, s_key, priority>>

(* One turn of its loop; the next field is read after the removal.          *)
outProcQ_loop ==
  /\ pos # NULL
  /\ heap' = IF container_of(pos) = current THEN list_del(heap, pos) ELSE heap
  /\ IF heap'.next[pos] = readyQueue_h
     THEN pos' = NULL /\ current' = NULL
     ELSE pos' = heap'.next[pos] /\ UNCHANGED current
  /\ UNCHANGED <<scope, p_parent, p_semkey, s_key, priority>>
------------------------------------------------------------------------------
(* The descriptor of key k, 0 if there is none.                             *)
getSemd(h, k) ==
  LET active == Owners(h, semd_h)
      found(i) == s_key[active[i]] = k
  IN  IF \E i \in DOMAIN active : found(i)
      THEN active[CHOOSE i \in DOMAIN active : found(i) /\ \A j \in 1 .. i - 1 : ~ found(j)]
      ELSE 0

(* Faulty variant: a semaphore with a descriptor gets another one.          *)
insertBlocked_again(k, p) ==
  /\ Called
  /\ Held(p)
  /\ ~ list_empty(heap, semdFree_h)
  /\ LET new == container_of(heap.next[semdFree_h])
         active == list_add(list_del(heap, s_next(new)), s_next(new), semd_h)
     IN  /\ s_key' = [s_key EXCEPT ![new] = k]
         /\ heap' = list_add(INIT_LIST_HEAD(active, procQ(new)), link(p), procQ(new))
  /\ p_semkey' = [p_semkey EXCEPT ![p] = k]
  /\ UNCHANGED <<p_parent, priority>>

insertBlocked(k, p) ==
  /\ Called
  /\ Held(p)
  /\ \/ /\ getSemd(heap, k) # 0
        /\ heap' = list_add_tail(heap, link(p), procQ(getSemd(heap, k)))
        /\ p_semkey' = [p_semkey EXCEPT ![p] = k]
        /\ UNCHANGED s_key
     \/ /\ getSemd(heap, k) = 0
        /\ ~ list_empty(heap, semdFree_h)
        /\ LET new == container_of(heap.next[semdFree_h])
               taken == list_del(heap, s_next(new))
               active == list_add(INIT_LIST_HEAD(taken, procQ(new)), s_next(new), semd_h)
           IN  /\ s_key' = [s_key EXCEPT ![new] = k]
               /\ heap' = list_add(active, link(p), procQ(new))
        /\ p_semkey' = [p_semkey EXCEPT ![p] = k]
  /\ UNCHANGED <<p_parent, priority>>

(* The heap after p is taken off the queue it waits in, whose descriptor is *)
(* freed if that empties it: the common tail of removeBlocked and outBlocked. *)
unlinked(h, p) ==
  LET s == getSemd(h, p_semkey[p])
      left == list_del(h, link(p))
  IN  IF list_empty(left, procQ(s))
      THEN list_add(list_del(left, s_next(s)), s_next(s), semdFree_h)
      ELSE left

unblock(p) ==
  /\ heap' = unlinked(heap, p)
  /\ p_semkey' = [p_semkey EXCEPT ![p] = NULL]
  /\ UNCHANGED <<p_parent, s_key, priority>>

removeBlocked(k) ==
  /\ Called
  /\ getSemd(heap, k) # 0
  /\ ~ list_empty(heap, procQ(getSemd(heap, k)))
  /\ unblock(container_of(heap.next[procQ(getSemd(heap, k))]))

outBlocked(p) ==
  /\ Called
  /\ p \in allocated
  /\ getSemd(heap, p_semkey[p]) # 0
  /\ unblock(p)

(* The processes a call of outChildBlocked takes off their queues: the      *)
(* recursion goes on with the children of those that wait for something.    *)
evicted(p) ==
  LET waiting == {q \in PCB : getSemd(heap, p_semkey[q]) # 0}
  IN  {q \in waiting : \A S \in SUBSET PCB :
         /\ p \in S
         /\ \A r \in S \cap waiting : ToSet(Owners(heap, child(r))) \subseteq S
         => q \in S}

(* In any order, which decides only in which order descriptors are freed;   *)
(* what the recursion does on its way does not change who waits where among *)
(* the others.                                                              *)
outChildBlocked(p) ==
  /\ Called
  /\ p \in allocated
  /\ LET out == evicted(p)
     IN  /\ \E order \in SetToSeqs(out) :
              heap' = LET left[i \in 0 .. Len(order)] ==
                            IF i = 0 THEN heap ELSE unlinked(left[i - 1], order[i])
                      IN  left[Len(order)]
         /\ p_semkey' = [q \in PCB |-> IF q \in out THEN NULL ELSE p_semkey[q]]
  /\ UNCHANGED <<p_parent, s_key, priority>>
------------------------------------------------------------------------------
insertChild(prnt, p) ==
  /\ Called
  /\ {prnt, p} \subseteq allocated /\ prnt # p
  /\ p \in scope.children
  /\ p_parent[p] = NULL /\ list_empty(heap, child(p))
  /\ p_parent' = [p_parent EXCEPT ![p] = prnt]
  /\ heap' = list_add_tail(heap, sib(p), child(prnt))
  /\ UNCHANGED <<p_semkey, s_key, priority>>

removeChild(p) ==
  /\ Called
  /\ p \in allocated
  /\ ~ list_empty(heap, child(p))
  /\ heap' = list_del(heap, heap.next[child(p)])
  /\ p_parent' = [p_parent EXCEPT ![container_of(heap.next[child(p)])] = NULL]
  /\ UNCHANGED <<p_semkey, s_key, priority>>

(* Is p in the list of children of a process?                               *)
Listed(p) == p_parent[p] \in allocated /\ p \in ToSet(Owners(heap, child(p_parent[p])))

(* term_process, when p is free already.                                    *)
outChild(p) ==
  /\ Called
  /\ Listed(p)
  /\ heap' = list_del(heap, sib(p))
  /\ p_parent' = [p_parent EXCEPT ![p] = NULL]
  /\ UNCHANGED <<p_semkey, s_key, priority>>

ListsNext ==
  \/ allocPcb \/ removeProcQ \/ outProcQ_loop
  \/ \E p \in PCB :
       \/ freePcb(p) \/ insertProcQ(p) \/ outProcQ(p)
       \/ outBlocked(p) \/ outChildBlocked(p) \/ outChild(p) \/ removeChild(p)
       \/ \E k \in scope.keys : insertBlocked(k, p)
       \/ \E prnt \in PCB : insertChild(prnt, p)
  \/ \E k \in scope.keys : removeBlocked(k)

ListsSpec == ListsInit /\ [][ListsNext]_listVars
------------------------------------------------------------------------------
(* The heads of the lists there are.                                        *)
Heads ==
  {readyQueue_h, pcbfree_h, semd_h, semdFree_h}
    \cup {child(p) : p \in allocated} \cup {procQ(s) : s \in ToSet(Owners(heap, semd_h))}

(* Whatever was removed from wherever, every list leads back to its head in *)
(* both directions through the same nodes, no node is on two lists, and     *)
(* neither table loses an entry.                                            *)
Linked ==
  /\ \A h \in Heads : \A n \in {h} \cup ToSet(List(h)) : heap.prev[heap.next[n]] = n
  /\ \A h, g \in Heads : h # g => ToSet(List(h)) \cap ToSet(List(g)) = {}
  /\ Len(List(semd_h)) + Len(List(semdFree_h)) = MAXPROC
  /\ \A p \in PCB : Held(p) \/ \E h \in Heads : link(p) \in ToSet(List(h))

(* outProcQ, which goes on from an element it has taken out of the queue,   *)
(* never loses its way: it always stands on an element still queued, so     *)
(* that it comes to the end.                                                *)
OutProcQStaysOnQueue == pos # NULL => pos \in ToSet(List(readyQueue_h))

(* The sequences and sets of Tables in terms of the pointers.               *)
asl == {s_key[s] : s \in ToSet(Owners(heap, semd_h))}
semdFree == Len(List(semdFree_h))
s_procQ == [k \in Key |-> LET s == getSemd(heap, k)
                          IN  IF s = 0 THEN <<>> ELSE Owners(heap, procQ(s))]
pcbFree == Owners(heap, pcbfree_h)
readyQueue == Owners(heap, readyQueue_h)
p_child ==
  LET parents == allocated
  IN  [p \in PCB |-> IF p \in parents THEN Owners(heap, child(p)) ELSE <<>>]

Model == INSTANCE Tables

(* The pointers implement the sequences and sets the other modules are      *)
(* built on: queues keep their order of arrival and priority, a descriptor  *)
(* exists while a process waits, the free PCBs are a stack.                 *)
ImplementsTables == Model!TablesSpec
==============================================================================
