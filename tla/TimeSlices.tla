------------------------------ MODULE TimeSlices ------------------------------
(****************************************************************************)
(* The nucleus with its interval timer, and what it promises to happen.     *)
(*                                                                          *)
(* Every scheduling() loads the timer anew, also when the process gave the  *)
(* processor up by a P or by its end, and with that acknowledges an         *)
(* interrupt that is pending.  So the code does not make the timer          *)
(* interrupt anybody: two processes that pass the processor to each other   *)
(* by P and V are never interrupted.  What it makes sure of is that the     *)
(* stay of a process is bounded: the processor is dispatched again, by the  *)
(* timer or by a call.  slice records that, since a dispatch may leave the  *)
(* variables of Nucleus as they are.                                        *)
(****************************************************************************)
EXTENDS NucleusLife

VARIABLE slice   \* flipped by every load of the timer

timedVars == <<vars, slice>>

(* The handlers that end in scheduling().  A term_process that is refused   *)
(* and followed by scheduling() takes the step of TimerInterrupt.           *)
Dispatch ==
  \/ Boot
  \/ TimerInterrupt
  \/ \E k \in Key : semval[k] <= 0 /\ selected \notin pcbFree /\ passeren(k)
  \/ after = "scheduling" /\ TermDone

timing == slice' = ~ slice

TimedInit == Init /\ slice = FALSE

TimedNext ==
  \/ Dispatch /\ timing
  \/ Next /\ ~ Dispatch /\ UNCHANGED slice

TimedSpec == TimedInit /\ [][TimedNext]_timedVars
------------------------------------------------------------------------------
(* No process runs for ever without a dispatch: unless it gives up the      *)
(* processor before, the timer runs out, and its interrupt then stays       *)
(* pending while other handlers run.                                        *)
BoundedStay == SF_timedVars(Dispatch /\ timing)

(* A handler once entered returns: it runs with interrupts disabled.        *)
HandlersReturn ==
  /\ WF_vars(Boot)
  /\ WF_vars(TermDone)
  /\ WF_vars(\E p \in PCB : delete_ric(p))

FairSpec == TimedSpec /\ BoundedStay /\ HandlersReturn

(* A ready process is dispatched or terminated in the end, though others    *)
(* of higher priority come, go, and hand the processor to each other.       *)
NoStarvation ==
  \A p \in PCB \ {idle} : getProc(readyQueue, p) ~> selected = p \/ ~ getProc(readyQueue, p)

(* The recursive termination of a family comes to an end, and the processor *)
(* goes back to a process or the machine halts.                             *)
TerminationCompletes == mode = "term" ~> mode \in {"user", "halt"}
==============================================================================
