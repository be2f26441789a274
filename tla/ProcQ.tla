-------------------------------- MODULE ProcQ --------------------------------
(****************************************************************************)
(* The process queues of pcb.c.  A queue is the sequence of the PCBs whose  *)
(* "link" field is threaded on one sentinel, head first; the priorities are *)
(* a function from PCBs to integers, read through the pointer by the code.  *)
(****************************************************************************)
EXTENDS Integers, SequencesExt

(* Faulty variant: priorities are not looked at.                            *)
insertProcQ_tail(q, p, prio) == Append(q, p)

(* A PCB goes in front of the first element of strictly lower priority, so  *)
(* that the queue is FIFO among equals.                                     *)
insertProcQ(q, p, prio) ==
  LET i == SelectInSeq(q, LAMBDA r : prio[r] < prio[p])
  IN  IF i = 0 THEN Append(q, p) ELSE InsertAt(q, i, p)

headProcQ(q) == Head(q)

removeProcQ(q) == Tail(q)

(* The loop of the code goes on after a removal, but a PCB has one link and *)
(* occurs at most once.                                                     *)
outProcQ(q, p) == RemoveFirst(q, p)

getProc(q, p) == \E i \in DOMAIN q : q[i] = p

(* A queue in which no PCB is followed by one of higher priority.           *)
Descending(q, prio) ==
  \A i, j \in DOMAIN q : i < j => prio[q[j]] <= prio[q[i]]
==============================================================================
