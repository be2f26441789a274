-------------------------------- MODULE MCLists --------------------------------
(* Instances of Lists for TLC.                                              *)
EXTENDS Lists

CONSTANTS p1, p2, p3,   \* PCBs
          k1, k2        \* semaphores

(* Trees of blocked processes; two semaphores; the ready queue with one     *)
(* priority and a semaphore, and with two priorities.                       *)
Scopes ==
  {[keys |-> {k1}, priorities |-> {}, children |-> {p1, p2}],
   [keys |-> {k1, k2}, priorities |-> {}, children |-> {p1}],
   [keys |-> {k1}, priorities |-> {0}, children |-> {}],
   [keys |-> {}, priorities |-> {0, 1}, children |-> {}]}

(* Neither is told apart by its place in a table.                           *)
Symmetry == Permutations(PCB) \cup Permutations(Key)
==============================================================================
