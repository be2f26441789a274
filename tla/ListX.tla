--------------------------------- MODULE ListX ---------------------------------
(****************************************************************************)
(* The circular doubly linked lists of listx.h.  A heap h holds the fields  *)
(* next and prev of every struct list_head; each function is the heap it    *)
(* leaves.  A list_head is <<field, owner>>, so that container_of is its    *)
(* second component.                                                        *)
(****************************************************************************)
EXTENDS Integers, SequencesExt

container_of(node) == node[2]

INIT_LIST_HEAD(h, list) ==
  [next |-> [h.next EXCEPT ![list] = list], prev |-> [h.prev EXCEPT ![list] = list]]

(* __list_add: four assignments, in this order.                             *)
list_add_between(h, new, before, behind) ==
  [next |-> [h.next EXCEPT ![new] = behind, ![before] = new],
   prev |-> [h.prev EXCEPT ![behind] = new, ![new] = before]]

list_add(h, new, head) == list_add_between(h, new, head, h.next[head])

list_add_tail(h, new, head) == list_add_between(h, new, h.prev[head], head)

(* Faulty variant: only one of the two pointers is moved.                   *)
list_del_half(h, before, behind) == [h EXCEPT !.next[before] = behind]

list_del_between(h, before, behind) ==
  [next |-> [h.next EXCEPT ![before] = behind], prev |-> [h.prev EXCEPT ![behind] = before]]

(* Faulty variant: the entry is made a list of its own.                     *)
list_del_init(h, entry) ==
  INIT_LIST_HEAD(list_del_between(h, h.prev[entry], h.next[entry]), entry)

(* The fields of entry are left as they are.                                *)
list_del(h, entry) == list_del_between(h, h.prev[entry], h.next[entry])

list_is_last(h, list, head) == h.next[list] = head

list_empty(h, head) == h.next[head] = head

(* The nodes list_for_each and the loops written out in pcb.c and asl.c     *)
(* visit, in their order, cut off when it can only be going in circles: from *)
(* each node on, in so many turns.                                          *)
list_for_each(h, head) ==
  LET nodes == DOMAIN h.next
      from[turns \in Nat] ==
        [n \in nodes |-> IF n = head \/ turns = 0 THEN <<>>
                         ELSE <<n>> \o from[turns - 1][h.next[n]]]
  IN  from[Cardinality(nodes)][h.next[head]]
==============================================================================
