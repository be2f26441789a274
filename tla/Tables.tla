-------------------------------- MODULE Tables --------------------------------
(****************************************************************************)
(* What pcb.c and asl.c promise their callers, syscall.c, scheduler.c and   *)
(* interrupt.c: the free PCBs, the ready queue, the tree of processes and   *)
(* the blocked processes of Asl, as sequences and sets.  One action per     *)
(* function; the guards say when the callers call it.                       *)
(****************************************************************************)
EXTENDS Asl

CONSTANT Priority   \* priorities processes are queued with

VARIABLES
  pcbFree,      \* free PCBs, the next one to be allocated first
  readyQueue,
  priority,
  p_parent,
  p_child       \* children of each PCB, first come first

tableVars == <<aslVars, pcbFree, readyQueue, priority, p_parent, p_child>>

allocated == PCB \ ToSet(pcbFree)

(* Is p in no queue, between two calls of the handler that has it?          *)
Held(p) == p_semkey[p] = NULL /\ p \in allocated \ ToSet(readyQueue)

TablesInit ==
  /\ initASL
  /\ pcbFree \in SetToSeqs(PCB)
  /\ readyQueue = <<>>
  /\ priority = [p \in PCB |-> 0]
  /\ p_parent = [p \in PCB |-> NULL]
  /\ p_child = [p \in PCB |-> <<>>]
------------------------------------------------------------------------------
(* create_process, which finds the PCBs terminated before all unrelated to  *)
(* those in use.                                                            *)
allocPcb ==
  /\ pcbFree # <<>>
  /\ pcbFree' = Tail(pcbFree)
  /\ \A q \in allocated :
       p_parent[q] \in allocated \cup {NULL} /\ ToSet(p_child[q]) \subseteq allocated
  /\ priority' = [priority EXCEPT ![Head(pcbFree)] = 0]
  /\ p_parent' = [p_parent EXCEPT ![Head(pcbFree)] = NULL]
  /\ UNCHANGED <<aslVars, readyQueue, p_child>>

(* delete_ric frees a PCB before its children and before term_process takes *)
(* it from its parent; the children of a free PCB are not observed.         *)
freePcb(p) ==
  /\ Held(p)
  /\ pcbFree' = <<p>> \o pcbFree
  /\ p_child' = [p_child EXCEPT ![p] = <<>>]
  /\ UNCHANGED <<aslVars, readyQueue, priority, p_parent>>

insertReady(p) ==
  /\ Held(p)
  /\ \E v \in Priority :
       /\ priority' = [priority EXCEPT ![p] = v]
       /\ readyQueue' = insertProcQ(readyQueue, p, priority')
  /\ UNCHANGED <<aslVars, pcbFree, p_parent, p_child>>

removeReady ==
  /\ readyQueue # <<>>
  /\ readyQueue' = removeProcQ(readyQueue)
  /\ UNCHANGED <<aslVars, pcbFree, priority, p_parent, p_child>>

outReady(p) ==
  /\ readyQueue' = outProcQ(readyQueue, p)
  /\ UNCHANGED <<aslVars, pcbFree, priority, p_parent, p_child>>

blockOn(k, p) ==
  /\ Held(p)
  /\ insertBlocked(k, p)
  /\ UNCHANGED <<pcbFree, readyQueue, priority, p_parent, p_child>>

wakeOn(k) ==
  /\ removeBlocked(k)
  /\ UNCHANGED <<pcbFree, readyQueue, priority, p_parent, p_child>>

unblockOf(p) ==
  /\ outBlocked(p)
  /\ UNCHANGED <<pcbFree, readyQueue, priority, p_parent, p_child>>

(* The processes a call of outChildBlocked takes off their queues: the      *)
(* recursion goes on with the children of those that wait for something.    *)
evicted(p) ==
  LET waiting == {q \in PCB : p_semkey[q] \in asl}
  IN  {q \in waiting : \A S \in SUBSET PCB :
         /\ p \in S
         /\ \A r \in S \cap waiting : ToSet(p_child[r]) \subseteq S
         => q \in S}

(* Who comes before whom in a queue, or is the same.                        *)
Before(q) == {o \in ToSet(q) \X ToSet(q) :
                \E i, j \in DOMAIN q : i <= j /\ o = <<q[i], q[j]>>}

(* The others stay where they are in their queues.                          *)
outChildBlocked(p) ==
  /\ LET out == evicted(p)
     IN  /\ p_semkey' = [q \in PCB |-> IF q \in out THEN NULL ELSE p_semkey[q]]
         /\ s_procQ' \in [Key -> Seq(PCB)]
         /\ \A k \in Key : /\ IsInjective(s_procQ'[k])
                            /\ Before(s_procQ'[k]) = {o \in Before(s_procQ[k]) : o[1] \notin out /\ o[2] \notin out}
  /\ asl' = {k \in asl : s_procQ'[k] # <<>>}
  /\ semdFree' = semdFree + Cardinality(asl \ asl')
  /\ UNCHANGED <<pcbFree, readyQueue, priority, p_parent, p_child>>

(* create_process makes a new PCB a child.                                  *)
insertChild(prnt, p) ==
  /\ prnt # p /\ p_parent[p] = NULL
  /\ p_parent' = [p_parent EXCEPT ![p] = prnt]
  /\ {prnt, p} \subseteq allocated /\ p_child[p] = <<>>
  /\ p_child' = [p_child EXCEPT ![prnt] = Append(@, p)]
  /\ UNCHANGED <<aslVars, pcbFree, readyQueue, priority>>

(* term_process, when p is free already.                                    *)
outChild(p) ==
  /\ p_parent[p] # NULL
  /\ p_parent' = [p_parent EXCEPT ![p] = NULL]
  /\ p \in ToSet(p_child[p_parent[p]])
  /\ p_child' = [p_child EXCEPT ![p_parent[p]] = RemoveFirst(@, p)]
  /\ UNCHANGED <<aslVars, pcbFree, readyQueue, priority>>

removeChild(p) == p_child[p] # <<>> /\ outChild(Head(p_child[p]))

TablesNext ==
  \/ allocPcb \/ removeReady
  \/ \E p \in PCB :
       \/ freePcb(p) \/ insertReady(p) \/ outReady(p)
       \/ unblockOf(p) \/ outChild(p) \/ removeChild(p)
       \/ \E k \in Key : blockOn(k, p)
       \/ \E prnt \in PCB : insertChild(prnt, p)
  \/ \E k \in Key : wakeOn(k)
  \/ \E p \in PCB : outChildBlocked(p)

TablesSpec == TablesInit /\ [][TablesNext]_tableVars
==============================================================================
