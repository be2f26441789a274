------------------------------ MODULE Scheduler ------------------------------
(****************************************************************************)
(* scheduler.c: the ready queue, the running process and the aging of the   *)
(* waiting ones.  The running process stays on the ready queue.             *)
(****************************************************************************)
EXTENDS ProcQ

CONSTANT idle

IDLE_PRIORITY == 0

VARIABLES
  readyQueue,
  priority,           \* current priority, by PCB
  original_priority,  \* priority restored each time the PCB is dispatched
  selected,           \* the running process, NULL before the first dispatch
  n_proc,             \* count of processes, idle left out
  mode                \* what the machine is doing, see Nucleus

schedVars == <<readyQueue, priority, original_priority, selected, n_proc, mode>>

(* Faulty variants of aging: idle ages too; nobody ages.                    *)
aging_idleToo(q, prio) ==
  [p \in DOMAIN prio |-> IF getProc(q, p) THEN prio[p] + 1 ELSE prio[p]]

aging_none(q, prio) == prio

(* The priorities after every process on q but idle has aged.               *)
aging(q, prio) ==
  [p \in DOMAIN prio |-> IF getProc(q, p) /\ p # idle THEN prio[p] + 1 ELSE prio[p]]

(* Faulty variants of scheduling: the priority is not restored; the process *)
(* is not put back on the queue; idle is taken for one of n_proc.           *)
scheduling_keepsPriority(q) ==
  IF q # <<>> /\ n_proc > 0
  THEN LET next == headProcQ(q)
       IN  /\ selected' = next
           /\ priority' = aging(removeProcQ(q), priority)
           /\ readyQueue' = insertProcQ(removeProcQ(q), next, priority')
           /\ mode' = "user"
  ELSE mode' = "halt" /\ readyQueue' = q /\ UNCHANGED <<selected, priority>>

scheduling_dropsHead(q) ==
  IF q # <<>> /\ n_proc > 0
  THEN /\ selected' = headProcQ(q)
       /\ priority' = aging(removeProcQ(q),
                            [priority EXCEPT ![headProcQ(q)] = original_priority[headProcQ(q)]])
       /\ readyQueue' = removeProcQ(q)
       /\ mode' = "user"
  ELSE mode' = "halt" /\ readyQueue' = q /\ UNCHANGED <<selected, priority>>

scheduling_countsIdle(q) ==
  IF q # <<>> /\ n_proc > 1
  THEN /\ selected' = headProcQ(q)
       /\ UNCHANGED priority
       /\ readyQueue' = insertProcQ(removeProcQ(q), headProcQ(q), priority)
       /\ mode' = "user"
  ELSE mode' = "halt" /\ readyQueue' = q /\ UNCHANGED <<selected, priority>>

(* scheduling(), called when the ready queue is q: the head is dispatched   *)
(* with its original priority restored, the others age, and the head goes   *)
(* back on the queue.  Without processes the machine halts.                 *)
scheduling(q) ==
  IF q # <<>> /\ n_proc > 0
  THEN LET next == headProcQ(q)
           aged == aging(removeProcQ(q),
                         [priority EXCEPT ![next] = original_priority[next]])
       IN  /\ selected' = next
           /\ priority' = aged
           /\ readyQueue' = insertProcQ(removeProcQ(q), next, aged)
           /\ mode' = "user"
  ELSE /\ mode' = "halt"
       /\ readyQueue' = q
       /\ UNCHANGED <<selected, priority>>
==============================================================================
