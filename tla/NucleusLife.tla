------------------------------ MODULE NucleusLife ------------------------------
(****************************************************************************)
(* The nucleus implements ProcessLife.  A termination happens, for the      *)
(* processes, when term_process is called: those delete_ric has still to    *)
(* reach count as dead, and as having given back what they waited for.      *)
(****************************************************************************)
EXTENDS Nucleus

condemned == IF mode = "term" THEN live \cap Family(victim) ELSE {}

survivors == live \ ({idle} \cup condemned)

ancestorsSeen == [p \in survivors |-> {q \in survivors : p \in Family(q)}]

valueSeen == [k \in Key |-> semval[k] + Cardinality({p \in condemned : p_semkey[p] = k})]

waitingSeen == [k \in Key |-> {p \in survivors : p_semkey[p] = k}]

(* Is p in front of r on q?                                                 *)
Precedes(q, p, r) == \E i, j \in DOMAIN q : i < j /\ q[i] = p /\ q[j] = r

aheadSeen == {w \in survivors \X survivors : \E k \in Key : Precedes(s_procQ[k], w[1], w[2])}

Life == INSTANCE ProcessLife WITH
  Process <- PCB \ {idle}, first <- pcb_test, Device <- {},
  ancestors <- ancestorsSeen, value <- valueSeen, waiting <- waitingSeen, ahead <- aheadSeen

(* Seen from the processes, the nucleus does what ProcessLife promises: the *)
(* many steps of a recursive termination, interleaved with the bookkeeping  *)
(* of queues and descriptors, amount to one atomic step, and dispatching,   *)
(* aging and a CREATEPROCESS without PCBs to none.                          *)
ImplementsLife == Life!LifeSpec
==============================================================================
