----------------------------- MODULE MCTimeSlices ------------------------------
(* Instances of TimeSlices for TLC.                                         *)
EXTENDS TimeSlices

CONSTANTS p1, p2, p3,   \* PCBs of the processes created at run time
          k1            \* a semaphore
==============================================================================
