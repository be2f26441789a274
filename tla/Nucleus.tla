------------------------------- MODULE Nucleus -------------------------------
(****************************************************************************)
(* The BiKaya nucleus: main.c, syscall.c, the exception handlers of         *)
(* handler.c and the timer half of interrupt.c, over the process table,     *)
(* the semaphores and the scheduler.                                        *)
(*                                                                          *)
(* Handlers run with interrupts disabled on one processor, so each of them  *)
(* is one action, taken by the process that runs (selected) or by the       *)
(* timer.  Only term_process takes several: delete_ric deletes one PCB per  *)
(* step, in any order of the family tree, and nothing else runs meanwhile   *)
(* (mode = "term").  Handing the processor back is mode = "user".           *)
(*                                                                          *)
(* Semaphores are the user's integers; device semaphores, the devices and   *)
(* the CPU time fields of a PCB have no counterpart here, and the values    *)
(* left in reg_v0 are not observed.                                         *)
(****************************************************************************)
EXTENDS Asl, Scheduler

CONSTANTS
  pcb_test,           \* the process of the test, started by main
  Priority,           \* priorities CREATEPROCESS is called with
  MaxPriority,        \* the largest of them
  PassType,           \* exception classes processes specify handlers for or raise
  SemBound,           \* processes do not V a semaphore above this value
  MaxFailedCreates,   \* CREATEPROCESS calls made with no PCB left
  KillsOwnAncestry    \* does TERMINATEPROCESS name the caller or an ancestor?

DEFAULT_PRIORITY == 1

ASSUME NucleusAssumption ==
  /\ idle \in PCB /\ pcb_test \in PCB /\ idle # pcb_test
  /\ Priority \subseteq Int
  /\ MaxPriority \in Int /\ DEFAULT_PRIORITY <= MaxPriority
  /\ \A v \in Priority : v <= MaxPriority
  /\ PassType \subseteq {"sys", "tlb", "trap"}
  /\ SemBound \in Nat
  /\ MaxFailedCreates \in Nat
  /\ KillsOwnAncestry \in BOOLEAN

VARIABLES
  semval,     \* value of each semaphore
  pcbFree,    \* PCBs on the free list; the order of reuse is left open
  p_parent,   \* parent of a PCB, or NULL
  p_child,    \* children of a PCB, the sibling order left out
  passup,     \* classes whose handler the process has specified
  doomed,     \* PCBs delete_ric is still to be called on
  victim,     \* PCB term_process was called on
  after       \* what the caller of term_process does next

treeVars == <<p_parent, p_child>>
termVars == <<doomed, victim, after>>
vars == <<aslVars, schedVars, semval, pcbFree, treeVars, passup, termVars>>

Mode == {"boot", "user", "term", "halt", "corrupt"}

TypeOK ==
  /\ AslTypeOK
  /\ readyQueue \in Seq(PCB)
  /\ priority \in [PCB -> Int]
  /\ original_priority \in [PCB -> Int]
  /\ selected \in PCB \cup {NULL}
  /\ n_proc \in Int
  /\ mode \in Mode
  /\ semval \in [Key -> Int]
  /\ pcbFree \in SUBSET PCB
  /\ p_parent \in [PCB -> PCB \cup {NULL}]
  /\ p_child \in [PCB -> SUBSET PCB]
  /\ passup \in [PCB -> SUBSET PassType]
  /\ doomed \in SUBSET PCB
  /\ victim \in PCB \cup {NULL}
  /\ after \in {"resume", "scheduling"}

(* main() up to its call of scheduling().                                   *)
Init ==
  /\ initASL
  /\ readyQueue = <<pcb_test, idle>>
  /\ priority = [p \in PCB |-> IF p = pcb_test THEN DEFAULT_PRIORITY ELSE IDLE_PRIORITY]
  /\ original_priority = priority
  /\ selected = NULL
  /\ n_proc = 1
  /\ mode = "boot"
  /\ semval \in [Key -> 0 .. SemBound]
  /\ pcbFree = PCB \ {pcb_test, idle}
  /\ p_parent = [p \in PCB |-> NULL]
  /\ p_child = [p \in PCB |-> {}]
  /\ passup = [p \in PCB |-> {}]
  /\ doomed = {} /\ victim = NULL /\ after = "resume"

(* The process running when a system call or an exception is raised: idle   *)
(* only loops.                                                              *)
Caller == mode = "user" /\ selected # idle

(* PCBs in use.                                                             *)
live == PCB \ pcbFree

(* p and its descendants: the least set with p closed under p_child.        *)
Family(p) == {q \in PCB : \A S \in SUBSET PCB :
                p \in S /\ (\A r \in S : p_child[r] \subseteq S) => q \in S}
------------------------------------------------------------------------------
Boot ==
  /\ mode = "boot"
  /\ scheduling(readyQueue)
  /\ UNCHANGED <<aslVars, original_priority, n_proc, semval, pcbFree, treeVars, passup, termVars>>

(* new, whose fields have just been zeroed, becomes a child of prnt.        *)
insertChild(prnt, new) ==
  /\ p_parent' = [p_parent EXCEPT ![new] = prnt]
  /\ p_child' = [p_child EXCEPT ![new] = {}, ![prnt] = @ \cup {new}]

(* Faulty variant: p stays on the list of its parent.                       *)
outChild_forgets(p) == UNCHANGED treeVars

outChild(p) ==
  IF p_parent[p] = NULL
  THEN UNCHANGED treeVars
  ELSE /\ p_child' = [p_child EXCEPT ![p_parent[p]] = @ \ {p}]
       /\ p_parent' = [p_parent EXCEPT ![p] = NULL]

(* Faulty variant: the fields are left as the last process had them.        *)
allocPcb_dirty(new) ==
  /\ pcbFree' = pcbFree \ {new}
  /\ UNCHANGED <<p_semkey, passup>>

(* A free PCB is taken and its fields zeroed (those of the family tree with *)
(* insertChild, which follows).                                             *)
allocPcb(new) ==
  /\ pcbFree' = pcbFree \ {new}
  /\ p_semkey' = [p_semkey EXCEPT ![new] = NULL]
  /\ passup' = [passup EXCEPT ![new] = {}]

freePcb(p) == pcbFree' = pcbFree \cup {p}

(* CREATEPROCESS.  The count goes up before the outcome of allocPcb is      *)
(* looked at; a failure only shows in reg_v0.                               *)
create_process(v) ==
  /\ Caller
  /\ n_proc' = n_proc + 1
  /\ \/ \E new \in pcbFree :
          /\ allocPcb(new)
          /\ priority' = [priority EXCEPT ![new] = v]
          /\ original_priority' = [original_priority EXCEPT ![new] = v]
          /\ readyQueue' = insertProcQ(readyQueue, new, priority')
          /\ insertChild(selected, new)
     \/ /\ pcbFree = {}
        /\ n_proc - Cardinality(live \ {idle}) < MaxFailedCreates
        /\ UNCHANGED <<readyQueue, priority, original_priority, p_semkey, pcbFree, treeVars, passup>>
  /\ UNCHANGED <<asl, semdFree, s_procQ, selected, mode, semval, termVars>>

(* term_process(p), then what its caller does when it returns.  A PCB that  *)
(* is neither ready nor blocked is refused.                                 *)
term_process(p, then) ==
  IF ~ getProc(readyQueue, p) /\ p_semkey[p] = NULL
  THEN /\ IF then = "scheduling"
          THEN scheduling(readyQueue)
          ELSE UNCHANGED <<selected, priority, readyQueue, mode>>
       /\ UNCHANGED <<aslVars, original_priority, n_proc, semval, pcbFree, treeVars, passup, termVars>>
  ELSE /\ mode' = "term"
       /\ doomed' = {p} /\ victim' = p /\ after' = then
       /\ UNCHANGED <<aslVars, readyQueue, priority, original_priority, selected,
                      n_proc, semval, pcbFree, treeVars, passup>>

TerminateSelf == Caller /\ term_process(selected, "scheduling")

TerminatePid(p) ==
  /\ Caller
  /\ p # idle
  /\ KillsOwnAncestry \/ selected \notin Family(p)
  /\ term_process(p, "resume")

(* Faulty variant: the semaphore is not given back the unit p waits for.    *)
unlink_noV(p) ==
  IF p_semkey[p] = NULL
  THEN readyQueue' = outProcQ(readyQueue, p) /\ UNCHANGED <<aslVars, semval>>
  ELSE outBlocked(p) /\ UNCHANGED <<readyQueue, semval>>

(* The first half of delete_ric: p leaves the queue it is on.               *)
unlink(p) ==
  IF p_semkey[p] = NULL
  THEN /\ readyQueue' = outProcQ(readyQueue, p)
       /\ UNCHANGED <<aslVars, semval>>
  ELSE /\ semval' = [semval EXCEPT ![p_semkey[p]] = @ + 1]
       /\ outBlocked(p)
       /\ UNCHANGED readyQueue

(* Faulty variant: the siblings are deleted too.                            *)
progeny_siblings(p) ==
  p_child[p] \cup (IF p_parent[p] = NULL THEN {} ELSE p_child[p_parent[p]] \ {p})

(* The PCBs the loop of delete_ric calls it on.                             *)
progeny(p) == p_child[p]

(* Faulty variant: n_proc is not decremented.                               *)
delete_ric_noCount(p) ==
  /\ mode = "term" /\ p \in doomed
  /\ unlink(p)
  /\ freePcb(p)
  /\ doomed' = (doomed \ {p}) \cup progeny(p)
  /\ UNCHANGED <<n_proc, mode, priority, original_priority, selected, treeVars, passup, victim, after>>

(* One call of delete_ric; the calls it makes in turn are left in doomed.   *)
(* Freeing a PCB that is free already breaks the list of free PCBs.         *)
delete_ric(p) ==
  /\ mode = "term"
  /\ p \in doomed
  /\ n_proc' = n_proc - 1
  /\ unlink(p)
  /\ freePcb(p)
  /\ doomed' = (doomed \ {p}) \cup progeny(p)
  /\ mode' = IF p \in pcbFree THEN "corrupt" ELSE mode
  /\ UNCHANGED <<priority, original_priority, selected, treeVars, passup, victim, after>>

(* The rest of term_process, and the return to a process.                   *)
TermDone ==
  /\ mode = "term"
  /\ doomed = {}
  /\ outChild(victim)
  /\ IF after = "scheduling"
     THEN scheduling(readyQueue)
     ELSE mode' = "user" /\ UNCHANGED <<selected, priority, readyQueue>>
  /\ victim' = NULL /\ after' = "resume"
  /\ UNCHANGED <<aslVars, original_priority, n_proc, semval, pcbFree, passup, doomed>>

verhogen(k) ==
  /\ Caller
  /\ semval[k] < SemBound
  /\ semval' = [semval EXCEPT ![k] = @ + 1]
  /\ removeBlocked(k)
  /\ readyQueue' = IF headBlocked(k) = NULL
                   THEN readyQueue
                   ELSE insertProcQ(readyQueue, headBlocked(k), priority)
  /\ UNCHANGED <<priority, original_priority, selected, n_proc, mode, pcbFree, treeVars, passup, termVars>>

(* The caller leaves the ready queue for the semaphore's when the value     *)
(* becomes negative.  A caller whose PCB has been freed takes its link off  *)
(* no queue, so that the list of free PCBs runs into the semaphore's.       *)
passeren(k) ==
  /\ Caller
  /\ semval' = [semval EXCEPT ![k] = @ - 1]
  /\ \/ /\ semval[k] > 0
        /\ UNCHANGED <<aslVars, readyQueue, priority, selected, mode>>
     \/ /\ semval[k] <= 0
        /\ selected \notin pcbFree
        /\ insertBlocked(k, selected)
        /\ scheduling(outProcQ(readyQueue, selected))
     \/ /\ semval[k] <= 0
        /\ selected \in pcbFree
        /\ mode' = "corrupt"
        /\ UNCHANGED <<aslVars, readyQueue, priority, selected>>
  /\ UNCHANGED <<original_priority, n_proc, pcbFree, treeVars, passup, termVars>>

(* SPECPASSUP, with both areas given.  A type whose handler is specified     *)
(* already, or an unknown one, terminates the caller.                        *)
specpassup(t) ==
  /\ Caller
  /\ IF t \in PassType \ passup[selected]
     THEN /\ passup' = [passup EXCEPT ![selected] = @ \cup {t}]
          /\ UNCHANGED <<aslVars, schedVars, semval, pcbFree, treeVars, termVars>>
     ELSE term_process(selected, "scheduling")

(* An exception the nucleus does not handle: fatal, unless passed up to the *)
(* handler of the process, which then just goes on running.                 *)
PassUpOrDie(t) ==
  /\ Caller
  /\ t \in PassType
  /\ t \notin passup[selected]
  /\ term_process(selected, "scheduling")

UnknownSyscall == PassUpOrDie("sys")
tlb_H == PassUpOrDie("tlb")
trap_H == PassUpOrDie("trap")

(* interrupt_H when the timer is the only line that asks for attention.     *)
TimerInterrupt ==
  /\ mode = "user"
  /\ scheduling(readyQueue)
  /\ UNCHANGED <<aslVars, original_priority, n_proc, semval, pcbFree, treeVars, passup, termVars>>

(* HALT(), or lists that no longer mean anything.                           *)
Stopped == mode \in {"halt", "corrupt"} /\ UNCHANGED vars

Next ==
  \/ Boot
  \/ \E v \in Priority : create_process(v)
  \/ TerminateSelf
  \/ \E p \in PCB : TerminatePid(p)
  \/ \E p \in PCB : delete_ric(p)
  \/ TermDone
  \/ \E k \in Key : verhogen(k) \/ passeren(k)
  \/ \E t \in PassType : specpassup(t)
  \/ UnknownSyscall \/ tlb_H \/ trap_H
  \/ TimerInterrupt
  \/ Stopped

Spec == Init /\ [][Next]_vars
------------------------------------------------------------------------------
(* Every PCB is on exactly one list at its proper place: free, ready, or    *)
(* queued on the semaphore its p_semkey names.  No step of create, block,   *)
(* wake-up or of a half done recursive termination loses, duplicates or     *)
(* cross-links a PCB.                                                       *)
ListDiscipline ==
  /\ mode # "corrupt"
  /\ IsInjective(readyQueue)
  /\ \A p \in PCB : p \in pcbFree <=> ~ getProc(readyQueue, p) /\ ~ Blocked(p)
  /\ \A p \in PCB : ~ (getProc(readyQueue, p) /\ Blocked(p))
  /\ \A k \in Key : /\ IsInjective(s_procQ[k])
                    /\ \A p \in PCB : getProc(s_procQ[k], p) <=> p_semkey[p] = k

(* A negative semaphore counts the processes waiting on it and nobody waits *)
(* on another one, whichever mix of P, V and terminations led there.        *)
SemaphoreCount ==
  \A k \in Key : Len(s_procQ[k]) = IF semval[k] < 0 THEN - semval[k] ELSE 0

(* The ready queue stays sorted while processes age, come and go, so that   *)
(* its head is a process of highest priority.                               *)
ReadySorted == Descending(readyQueue, priority)

(* Aging is bounded: a process that has waited long enough is dispatched,   *)
(* which resets it, before its priority grows past this value.  Every       *)
(* dispatch of another process adds 1, so that this also bounds the number  *)
(* of dispatches a ready process can be passed over.                        *)
BoundedAging ==
  \A i \in DOMAIN readyQueue : priority[readyQueue[i]] + i <= MaxPriority + MAXPROC

(* idle has the processor only when no process is ready.                    *)
IdleOnlyAlone == mode = "user" /\ selected = idle => readyQueue = <<idle>>

(* The process that runs is a live one and still on the ready queue, where  *)
(* passeren and delete_ric will look for it.                                *)
RunningIsReady == mode = "user" => getProc(readyQueue, selected)

(* The machine halts only when the last process is gone.                    *)
HaltOnlyWhenDone == mode = "halt" => live = {idle}

(* The processes are those of the family of the first one, and none of them *)
(* survives it.                                                             *)
FamilyTree == mode = "user" => live \ {idle} \in {{}, Family(pcb_test)}

(* A process disappears only by the termination of one of its ancestors or  *)
(* of itself.                                                               *)
OnlyFamilyDies == [][\A p \in live : p \in pcbFree' => p \in Family(victim)]_vars

(* A process starts with a clean PCB, whatever the process that used it     *)
(* before left there: no handlers, no children, not blocked.                *)
CleanPcb ==
  [][\A p \in pcbFree : p \notin pcbFree' =>
       passup'[p] = {} /\ p_child'[p] = {} /\ p_semkey'[p] = NULL]_vars

(* A terminated process does not run (comment on term_process: it removes   *)
(* the process and its progeny from the ready processes).                   *)
DeadDoNotRun == mode = "user" => selected \in live

(* When idle runs, it waits for a process that is blocked: with no process  *)
(* left the machine has halted.                                             *)
HaltsWhenDone == mode = "user" /\ selected = idle => \E p \in PCB : Blocked(p)
==============================================================================
