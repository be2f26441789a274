------------------------------ MODULE MCNucleus ------------------------------
(* Instances of Nucleus for TLC.                                            *)
EXTENDS Nucleus

CONSTANTS p1, p2, p3,   \* PCBs of the processes created at run time
          k1, k2        \* semaphores

(* Neither is told apart by the nucleus: CREATEPROCESS takes any free PCB.  *)
Symmetry == Permutations(PCB \ {pcb_test, idle}) \cup Permutations(Key)
==============================================================================
