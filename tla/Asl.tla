--------------------------------- MODULE Asl ---------------------------------
(****************************************************************************)
(* The active semaphore list of asl.c: which semaphores have a descriptor,  *)
(* how many descriptors are left, and the processes queued on each.         *)
(*                                                                          *)
(* A semaphore is the address of its counter, a member of Key.  The ASL is  *)
(* the set of keys that own a descriptor (getSemd finds a descriptor by its *)
(* key; the order of the list is never observed) and semdFree the number of *)
(* descriptors on the free list.  The operators below are the functions of  *)
(* asl.c as fragments of the actions of the modules that call them.         *)
(****************************************************************************)
EXTENDS ProcQ

CONSTANTS
  PCB,      \* the entries of pcbFree_table
  Key,      \* semaphore addresses
  NULL,
  MAXPROC   \* size of pcbFree_table and of semd_table (20 in const.h)

ASSUME TableAssumption ==
  /\ IsFiniteSet(PCB)
  /\ MAXPROC = Cardinality(PCB)
  /\ NULL \notin PCB
  /\ NULL \notin Key

VARIABLES
  asl,       \* keys of the descriptors on the list ASL
  semdFree,  \* number of descriptors on the list semdFree
  s_procQ,   \* queue of blocked processes, by key
  p_semkey   \* semaphore a PCB is blocked on, or NULL

aslVars == <<asl, semdFree, s_procQ, p_semkey>>

AslTypeOK ==
  /\ asl \in SUBSET Key
  /\ semdFree \in 0 .. MAXPROC
  /\ s_procQ \in [Key -> Seq(PCB)]
  /\ p_semkey \in [PCB -> Key \cup {NULL}]

initASL ==
  /\ asl = {}
  /\ semdFree = MAXPROC
  /\ s_procQ = [k \in Key |-> <<>>]
  /\ p_semkey = [p \in PCB |-> NULL]

(* Appends p to the queue of k, taking a descriptor for k if it has none.   *)
(* With none left the code returns TRUE, having done nothing.               *)
insertBlocked(k, p) ==
  IF k \notin asl /\ semdFree = 0
  THEN UNCHANGED aslVars
  ELSE /\ p_semkey' = [p_semkey EXCEPT ![p] = k]
       /\ s_procQ' = [s_procQ EXCEPT ![k] = Append(IF k \in asl THEN @ ELSE <<>>, p)]
       /\ asl' = asl \cup {k}
       /\ semdFree' = IF k \in asl THEN semdFree ELSE semdFree - 1

(* Faulty variants of unblock: the descriptor is put on the free list even  *)
(* when it stays in use; it is never given back; p still names the          *)
(* semaphore.                                                               *)
unblock_alwaysFrees(k, p) ==
  /\ s_procQ' = [s_procQ EXCEPT ![k] = outProcQ(@, p)]
  /\ p_semkey' = [p_semkey EXCEPT ![p] = NULL]
  /\ asl' = IF outProcQ(s_procQ[k], p) = <<>> THEN asl \ {k} ELSE asl
  /\ semdFree' = semdFree + 1

unblock_neverFrees(k, p) ==
  /\ s_procQ' = [s_procQ EXCEPT ![k] = outProcQ(@, p)]
  /\ p_semkey' = [p_semkey EXCEPT ![p] = NULL]
  /\ UNCHANGED <<asl, semdFree>>

unblock_keepsKey(k, p) ==
  /\ s_procQ' = [s_procQ EXCEPT ![k] = outProcQ(@, p)]
  /\ UNCHANGED p_semkey
  /\ IF outProcQ(s_procQ[k], p) = <<>>
     THEN asl' = asl \ {k} /\ semdFree' = semdFree + 1
     ELSE UNCHANGED <<asl, semdFree>>

(* Takes p off the queue of k and gives the descriptor back if that empties *)
(* the queue: the common tail of removeBlocked and outBlocked.              *)
unblock(k, p) ==
  /\ p_semkey' = [p_semkey EXCEPT ![p] = NULL]
  /\ s_procQ' = [s_procQ EXCEPT ![k] = outProcQ(@, p)]
  /\ IF outProcQ(s_procQ[k], p) = <<>>
     THEN asl' = asl \ {k} /\ semdFree' = semdFree + 1
     ELSE UNCHANGED <<asl, semdFree>>

headBlocked(k) ==
  IF k \notin asl \/ s_procQ[k] = <<>> THEN NULL ELSE Head(s_procQ[k])

removeBlocked(k) ==
  IF headBlocked(k) # NULL THEN unblock(k, headBlocked(k)) ELSE UNCHANGED aslVars

outBlocked(p) ==
  IF p_semkey[p] \in asl THEN unblock(p_semkey[p], p) ELSE UNCHANGED aslVars
------------------------------------------------------------------------------
Blocked(p) == p_semkey[p] # NULL

(* The descriptors are exactly those of the semaphores with a waiting       *)
(* process and none is leaked: the conservation insertBlocked, removeBlocked*)
(* and outBlocked keep between ASL and semdFree.                            *)
SemdAccounting ==
  /\ asl = {k \in Key : s_procQ[k] # <<>>}
  /\ semdFree + Cardinality(asl) = MAXPROC
==============================================================================
