-------------------------------- MODULE MCP2Test --------------------------------
(* Instances of P2Test for TLC.                                             *)
EXTENDS P2Test

(* p1 to p6 with their messages, and without them an incarnation of p7 that *)
(* finds the PCBs and semaphores of another one.                            *)
Scenarios ==
  {[gone |-> 0, incarnations |-> 0, silent |-> {}],
   [gone |-> 1, incarnations |-> 2, silent |-> {"p7root", "child1", "child2", "p7leaf"}]}
==============================================================================
