------------------------------ MODULE MCKernelIO ------------------------------
(* Instances of KernelIO for TLC.                                           *)
EXTENDS KernelIOLife

CONSTANTS p1, p2,   \* PCBs of the processes created at run time
          k1        \* a semaphore of the processes

PrinterAndTerminals == {<<6, 0>>, <<7, 0>>, <<7, 1>>}
Printer == {<<6, 0>>}

(* No terminal with both of its halves in use.                              *)
OneHalfEach == {<<6, 0, 0>>, <<7, 0, 0>>, <<7, 1, 1>>}
BothHalves == {<<7, 0, 0>>, <<7, 0, 1>>}
PrinterUsed == {<<6, 0, 0>>}
==============================================================================
