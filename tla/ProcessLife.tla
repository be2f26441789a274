------------------------------ MODULE ProcessLife ------------------------------
(****************************************************************************)
(* What the nucleus promises its processes: a tree of processes that create *)
(* and terminate one another and meet on counting semaphores.  Which one of *)
(* the ready processes runs, the tables of PCBs and of descriptors and the  *)
(* steps of a recursive termination are hidden: a system call is one step.  *)
(****************************************************************************)
EXTENDS Integers, FiniteSets

CONSTANTS
  Process,   \* names processes may get
  Key,       \* semaphores
  Device,    \* those a device gives units to
  first      \* the process there is at the beginning

VARIABLES
  ancestors,   \* each live process with its ancestors
  value,       \* value of each semaphore
  waiting,     \* processes waiting on each semaphore
  ahead        \* pairs of them, the first of which came first

lifeVars == <<ancestors, value, waiting, ahead>>

alive == DOMAIN ancestors

Ready(p) == p \in alive /\ \A k \in Key : p \notin waiting[k]

(* p and its descendants.                                                   *)
Offspring(p) == {q \in alive : p \in ancestors[q]}

LifeInit ==
  /\ ancestors = [p \in {first} |-> {first}]
  /\ value \in [Key -> Nat]
  /\ waiting = [k \in Key |-> {}]
  /\ ahead = {}
------------------------------------------------------------------------------
(* CREATEPROCESS; it fails, changing nothing, when no name is left.         *)
Create(p, new) ==
  /\ Ready(p)
  /\ new \in Process \ alive
  /\ ancestors' = [q \in alive \cup {new} |->
                     IF q = new THEN ancestors[p] \cup {new} ELSE ancestors[q]]
  /\ UNCHANGED <<value, waiting, ahead>>

(* TERMINATEPROCESS, or a fatal exception: the family of victim is gone at  *)
(* once, and the semaphores get back the units it waited for.               *)
Terminate(p, victim) ==
  /\ Ready(p)
  /\ victim \in alive
  /\ LET dead == Offspring(victim)
     IN  /\ ancestors' = [q \in alive \ dead |-> ancestors[q]]
         /\ value' = [k \in Key |-> value[k] + Cardinality(waiting[k] \cap dead)]
         /\ waiting' = [k \in Key |-> waiting[k] \ dead]
         /\ ahead' = {w \in ahead : w[1] \notin dead /\ w[2] \notin dead}

(* One unit more; the process that has waited longest goes on.              *)
Release(k) ==
  /\ value' = [value EXCEPT ![k] = @ + 1]
  /\ \/ waiting[k] = {} /\ UNCHANGED <<waiting, ahead>>
     \/ \E p \in waiting[k] :
          /\ \A q \in waiting[k] : <<q, p>> \notin ahead
          /\ waiting' = [waiting EXCEPT ![k] = @ \ {p}]
          /\ ahead' = {w \in ahead : w[1] # p}
  /\ UNCHANGED ancestors

V(p, k) == Ready(p) /\ Release(k)

P(p, k) ==
  /\ Ready(p)
  /\ value' = [value EXCEPT ![k] = @ - 1]
  /\ IF value[k] > 0
     THEN UNCHANGED <<waiting, ahead>>
     ELSE /\ waiting' = [waiting EXCEPT ![k] = @ \cup {p}]
          /\ ahead' = ahead \cup {<<q, p>> : q \in waiting[k]}
  /\ UNCHANGED ancestors

LifeNext ==
  \/ \E p \in alive :
       \/ \E q \in Process : Create(p, q) \/ Terminate(p, q)
       \/ \E k \in Key : V(p, k) \/ P(p, k)
  \/ \E k \in Device : Release(k)

LifeSpec == LifeInit /\ [][LifeNext]_lifeVars
==============================================================================
