------------------------------- MODULE MCCpuTime -------------------------------
(* Instances of CpuTime for TLC.                                            *)
EXTENDS CpuTime

CONSTANTS p1, p2   \* processes
==============================================================================
