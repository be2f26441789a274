------------------------------ MODULE KernelIOLife ------------------------------
(****************************************************************************)
(* The nucleus with WAITIO and its interrupt handler implements ProcessLife,*)
(* the semaphores of the devices being those a device gives units to.       *)
(****************************************************************************)
EXTENDS KernelIO, NucleusLife

IOLife == INSTANCE ProcessLife WITH
  Process <- PCB \ {idle}, first <- pcb_test, Device <- DeviceKey,
  ancestors <- ancestorsSeen, value <- valueSeen, waiting <- waitingSeen, ahead <- aheadSeen

(* Seen from the processes, WAITIO is a P on the semaphore of the device    *)
(* and the interrupt handler, which serves several devices in many steps    *)
(* and ends in a dispatch, a V on each of them; this holds for terminals    *)
(* with both halves in use and for waiters that are terminated too, where a *)
(* device may give more units than it was asked for.                        *)
IOImplementsLife == IOLife!LifeSpec
==============================================================================
