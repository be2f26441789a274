------------------------------- MODULE KernelIO -------------------------------
(****************************************************************************)
(* WAITIO (syscall.c) and the interrupt handler (interrupt.c) with the      *)
(* devices, over the nucleus.                                               *)
(*                                                                          *)
(* A device register is <<line, device, subdevice>>; the subdevice is 1 for *)
(* the receiver of a terminal.  The device semaphores are the 48 integers   *)
(* of struct semdev, named by their position.  interrupt_H runs with        *)
(* interrupts disabled but the devices go on meanwhile, so that it takes    *)
(* one step per line it reads and one per register it serves; line # 0      *)
(* while it runs.  The timer may always be due, so that interrupt_H may be  *)
(* entered at any time a process runs.                                      *)
(*                                                                          *)
(* Exceptions passed up, which touch no device, are left to Nucleus; dying  *)
(* of one is TerminateSelf here.                                            *)
(****************************************************************************)
EXTENDS Nucleus

INT_TIMER == 2
INT_DISK == 3
INT_PRINTER == 6
INT_TERMINAL == 7

CMD_ACK == 1
CMD_TRANSMIT == 2

CONSTANTS
  Installed,   \* <<line, device>> of the devices there are
  Used,        \* registers orderly processes start operations on
  Misused      \* bound of the model: registers other processes start them on

ASSUME InstalledAssumption ==
  Installed \subseteq (INT_DISK .. INT_TERMINAL) \X (0 .. 7)

Register == {<<d[1], d[2], 0>> : d \in Installed}
            \cup {<<d[1], d[2], 1>> : d \in {e \in Installed : e[1] = INT_TERMINAL}}

(* Position of the first element of each array of struct semdev.            *)
semdev == [disk |-> 0, tape |-> 8, network |-> 16, printer |-> 24,
           terminalT |-> 32, terminalR |-> 40]

dtpArray == <<semdev.disk, semdev.tape, semdev.network, semdev.printer>>

(* The semaphore interrupt_H and int_term take for a register.              *)
semaphore(r) ==
  r[2] + IF r[1] # INT_TERMINAL THEN dtpArray[r[1] - INT_DISK + 1]
         ELSE IF r[3] = 0 THEN semdev.terminalT ELSE semdev.terminalR

(* Faulty variant: both halves of a terminal share a semaphore.             *)
sem_num_noSub(r) == (r[1] - 3) * 8 + r[2]

(* The semaphore waitio counts its way to.                                  *)
sem_num(r) == (r[1] - 3) * 8 + r[2] + r[3] * 8

DeviceKey == {semaphore(r) : r \in Register}

ASSUME UsedAssumption == Used \cup Misused \subseteq Register /\ DeviceKey \subseteq Key

VARIABLES
  command,   \* command register, 0 before the first command
  status,    \* status register: "ready", "busy", "done" or "error"
  pending,   \* registers whose interrupt is neither served nor overridden
  line,      \* line interrupt_H is at, 0 when it does not run
  instance,  \* devices left of the copy of that line's bitmap
  status_r,  \* receiver status int_term has read, NULL outside int_term
  reg_v0,    \* status WAITIO returned to a process, NULL while it waits
  orderly    \* do processes, all the time, use devices as Orderly says?

devVars == <<command, status, pending>>
intVars == <<line, instance, status_r>>
ioVars == <<devVars, intVars, reg_v0, orderly>>

Status == {"ready", "busy", "done", "error"}

ASSUME StatusAssumption == NULL \notin Status

IOTypeOK ==
  /\ command \in [Register -> {0, CMD_ACK, CMD_TRANSMIT}]
  /\ status \in [Register -> Status]
  /\ pending \subseteq Register
  /\ line \in {0} \cup INT_TIMER .. INT_TERMINAL
  /\ instance \subseteq 0 .. 7
  /\ status_r \in Status \cup {NULL}
  /\ reg_v0 \in [PCB -> Status \cup {NULL}]
  /\ orderly \in BOOLEAN

(* main() clears the 48 device semaphores.                                  *)
initIO ==
  /\ \A k \in DeviceKey : semval[k] = 0
  /\ command = [r \in Register |-> 0]
  /\ status = [r \in Register |-> "ready"]
  /\ pending = {}
  /\ line = 0 /\ instance = {} /\ status_r = NULL
  /\ reg_v0 = [p \in PCB |-> NULL]
  /\ orderly \in BOOLEAN

IOInit == Init /\ initIO
------------------------------------------------------------------------------
(* The device: a command is not heard while another one is carried out; any *)
(* other write withdraws the interrupt.  CMD_TRANSMIT stands for all that   *)
(* start an operation; resets are left out.                                 *)
WriteCommand(r, c) ==
  IF status[r] = "busy"
  THEN UNCHANGED devVars
  ELSE /\ command' = [command EXCEPT ![r] = c]
       /\ status' = [status EXCEPT ![r] = IF c = CMD_ACK THEN "ready" ELSE "busy"]
       /\ pending' = pending \ {r}

DeviceDone(r) ==
  /\ status[r] = "busy"
  /\ \E outcome \in {"done", "error"} : status' = [status EXCEPT ![r] = outcome]
  /\ pending' = pending \cup {r}
  /\ UNCHANGED <<vars, command, intVars, reg_v0, orderly>>

(* What the code does not check of its callers and the phase 2 test keeps   *)
(* to: a device is left alone while somebody waits for it, and one half of  *)
(* each terminal is used.                                                   *)
Orderly(r) == r \in Used /\ s_procQ[semaphore(r)] = <<>>

(* WAITIO, of a register there is: the command is written, then the caller  *)
(* does a P on the semaphore of the device.  Bound of the model: no WAITIO  *)
(* while a device semaphore is above SemBound.                              *)
waitio(r) ==
  /\ Caller
  /\ line = 0
  /\ \A k \in DeviceKey : semval[k] <= SemBound
  /\ IF orderly THEN Orderly(r) ELSE r \in Misused
  /\ WriteCommand(r, CMD_TRANSMIT)
  /\ passeren(sem_num(r))
  /\ reg_v0' = [reg_v0 EXCEPT ![selected] = NULL]
  /\ UNCHANGED <<intVars, orderly>>
------------------------------------------------------------------------------
(* Faulty variants of outProc: the process woken is not made ready; the     *)
(* semaphore is not given its unit back, or is given it twice.              *)
outProc_drops(k, stat) ==
  /\ semval' = [semval EXCEPT ![k] = @ + 1]
  /\ removeBlocked(k)
  /\ UNCHANGED <<readyQueue, reg_v0>>

outProc_noV(k, stat) ==
  /\ removeBlocked(k)
  /\ UNCHANGED semval
  /\ LET tmp == headBlocked(k)
     IN  IF tmp = NULL
         THEN UNCHANGED <<readyQueue, reg_v0>>
         ELSE /\ readyQueue' = insertProcQ(readyQueue, tmp, priority)
              /\ reg_v0' = [reg_v0 EXCEPT ![tmp] = stat]

outProc_twice(k, stat) ==
  /\ semval' = [semval EXCEPT ![k] = @ + 2]
  /\ removeBlocked(k)
  /\ LET tmp == headBlocked(k)
     IN  IF tmp = NULL
         THEN UNCHANGED <<readyQueue, reg_v0>>
         ELSE /\ readyQueue' = insertProcQ(readyQueue, tmp, priority)
              /\ reg_v0' = [reg_v0 EXCEPT ![tmp] = stat]

(* A V on the semaphore of a device; the process it wakes, if any, gets     *)
(* stat for an answer.                                                      *)
outProc(k, stat) ==
  /\ semval' = [semval EXCEPT ![k] = @ + 1]
  /\ removeBlocked(k)
  /\ LET tmp == headBlocked(k)
     IN  IF tmp = NULL
         THEN UNCHANGED <<readyQueue, reg_v0>>
         ELSE /\ readyQueue' = insertProcQ(readyQueue, tmp, priority)
              /\ reg_v0' = [reg_v0 EXCEPT ![tmp] = stat]

outProcFrame == UNCHANGED <<priority, original_priority, selected, n_proc, mode,
                            pcbFree, treeVars, passup, termVars>>

interrupt_H ==
  /\ mode = "user"
  /\ line = 0
  /\ line' = INT_TIMER
  /\ UNCHANGED <<vars, devVars, instance, status_r, reg_v0, orderly>>

(* Faulty variant: the lines are shifted once too often.                    *)
checkLine_past ==
  /\ line \in INT_TIMER .. INT_TERMINAL
  /\ instance = {}
  /\ line' = line + 1
  /\ instance' = {r[2] : r \in {q \in pending : q[1] = line + 1}}
  /\ UNCHANGED <<vars, devVars, status_r, reg_v0, orderly>>

(* checkLine and the copy of the bitmap of the next line.  A terminal has   *)
(* one bit for its two halves.                                              *)
checkLine ==
  /\ line \in INT_TIMER .. INT_PRINTER
  /\ instance = {}
  /\ line' = line + 1
  /\ instance' = {r[2] : r \in {q \in pending : q[1] = line + 1}}
  /\ UNCHANGED <<vars, devVars, status_r, reg_v0, orderly>>

(* Faulty variant: acknowledged without a look at who waits.                *)
serveDevice_noWake ==
  /\ line \in INT_DISK .. INT_PRINTER
  /\ instance # {}
  /\ instance' = instance \ {Min(instance)}
  /\ WriteCommand(<<line, Min(instance), 0>>, CMD_ACK)
  /\ UNCHANGED <<vars, line, status_r, reg_v0, orderly>>

(* One turn of the loop over the devices of a line, terminals excepted: the *)
(* status is read after the acknowledgement is written.                     *)
serveDevice ==
  /\ line \in INT_DISK .. INT_PRINTER
  /\ instance # {}
  /\ instance' = instance \ {Min(instance)}
  /\ LET r == <<line, Min(instance), 0>>
     IN  IF command[r] # 0
         THEN /\ WriteCommand(r, CMD_ACK)
              /\ outProc(semaphore(r), status'[r])
              /\ outProcFrame
         ELSE UNCHANGED <<vars, devVars, reg_v0>>
  /\ UNCHANGED <<line, status_r, orderly>>

(* Faulty variant: the status is read after the acknowledgement.            *)
int_term_T_late ==
  /\ line = INT_TERMINAL
  /\ instance # {}
  /\ status_r = NULL
  /\ LET r == <<line, Min(instance), 0>>
     IN  /\ status_r' = status[<<line, Min(instance), 1>>]
         /\ IF command[r] # 0
            THEN /\ WriteCommand(r, CMD_ACK)
                 /\ outProc(semaphore(r), status'[r])
                 /\ outProcFrame
            ELSE UNCHANGED <<vars, devVars, reg_v0>>
  /\ UNCHANGED <<line, instance, orderly>>

(* int_term, transmitter: both status registers have been read before.      *)
int_term_T ==
  /\ line = INT_TERMINAL
  /\ instance # {}
  /\ status_r = NULL
  /\ LET r == <<line, Min(instance), 0>>
     IN  /\ status_r' = status[<<line, Min(instance), 1>>]
         /\ IF command[r] # 0
            THEN /\ WriteCommand(r, CMD_ACK)
                 /\ outProc(semaphore(r), status[r])
                 /\ outProcFrame
            ELSE UNCHANGED <<vars, devVars, reg_v0>>
  /\ UNCHANGED <<line, instance, orderly>>

(* int_term, receiver, with the status read before the transmitter was      *)
(* served.                                                                  *)
int_term_R ==
  /\ line = INT_TERMINAL
  /\ status_r # NULL
  /\ status_r' = NULL
  /\ instance' = instance \ {Min(instance)}
  /\ LET r == <<line, Min(instance), 1>>
     IN  IF command[r] # 0
         THEN /\ WriteCommand(r, CMD_ACK)
              /\ outProc(semaphore(r), status_r)
              /\ outProcFrame
         ELSE UNCHANGED <<vars, devVars, reg_v0>>
  /\ UNCHANGED <<line, orderly>>

(* The end of interrupt_H.                                                  *)
intDone ==
  /\ line = INT_TERMINAL
  /\ instance = {}
  /\ line' = 0
  /\ scheduling(readyQueue)
  /\ UNCHANGED <<aslVars, original_priority, n_proc, semval, pcbFree, treeVars, passup,
                 termVars, devVars, instance, status_r, reg_v0, orderly>>
------------------------------------------------------------------------------
(* Nor do orderly processes terminate one that waits for a device.          *)
MayTerminate(p) == orderly => \A q \in Family(p) : p_semkey[q] \notin DeviceKey

(* System calls that do not reach the devices.                              *)
NucleusStep ==
  /\ line = 0
  /\ \/ Boot
     \/ \E v \in Priority : create_process(v)
     \/ MayTerminate(selected) /\ TerminateSelf
     \/ \E p \in PCB : MayTerminate(p) /\ TerminatePid(p)
     \/ \E p \in PCB : delete_ric(p)
     \/ TermDone
     \/ \E k \in Key \ DeviceKey : verhogen(k) \/ passeren(k)
     \/ Stopped
  /\ UNCHANGED ioVars

IntStep == interrupt_H \/ checkLine \/ serveDevice \/ int_term_T \/ int_term_R \/ intDone

IONext ==
  \/ NucleusStep
  \/ IntStep
  \/ \E r \in Register : waitio(r)
  \/ \E r \in Register : DeviceDone(r)

IOSpec == IOInit /\ [][IONext]_<<vars, ioVars>>
------------------------------------------------------------------------------
(* A process waits for a device exactly while its operation is carried out  *)
(* or the interrupt that ends it has not been served: no completion is      *)
(* lost, and none wakes anybody twice, whatever the handler is doing when   *)
(* the device gets ready.                                                   *)
OneWaiterPerOperation ==
  orderly =>
    \A r \in Register :
      Len(s_procQ[semaphore(r)]) = IF status[r] = "busy" \/ r \in pending THEN 1 ELSE 0

(* WAITIO blocks its caller (comment at syscall.c:259, "l'operazione e'     *)
(* asincrona, per cui blocchiamo il processo"): a device semaphore has no   *)
(* units left over from earlier operations.                                 *)
WaitioBlocks == \A k \in DeviceKey : semval[k] <= 0

(* It does, however completions, wake-ups and terminations of other         *)
(* processes follow each other, if processes are orderly.                   *)
OrderlyBlock == orderly => WaitioBlocks

(* A process is woken by the completion of the operation it asked for; if   *)
(* it is a terminal's, with the status that operation ended with.  Of the   *)
(* other devices the handler reads the status too late for that.            *)
WokenByCompletion ==
  [][\A r \in Register, p \in PCB :
       orderly /\ p_semkey[p] = semaphore(r) /\ p_semkey'[p] = NULL =>
         /\ r \in pending
         /\ r[1] = INT_TERMINAL => reg_v0'[p] = status[r]]_<<vars, ioVars>>
------------------------------------------------------------------------------
(* Steps of a handler that has been entered.                                *)
HandlerStep == (line # 0 /\ IntStep) \/ (mode \in {"boot", "term"} /\ NucleusStep)

(* An operation comes to an end, a handler returns, and a device interrupts *)
(* whatever runs: its interrupt stays pending until it is acknowledged.     *)
(* Nothing is assumed of the timer.                                         *)
IOFairness ==
  /\ \A r \in Register : WF_<<vars, ioVars>>(DeviceDone(r))
  /\ SF_<<vars, ioVars>>(pending # {} /\ interrupt_H)
  /\ WF_<<vars, ioVars>>(HandlerStep)

IOFairSpec == IOSpec /\ IOFairness

(* A process that waits for a device is woken in the end, if processes are  *)
(* orderly.                                                                 *)
WaitioAnswered ==
  \A p \in PCB : orderly /\ p_semkey[p] \in DeviceKey ~> p_semkey[p] \notin DeviceKey
==============================================================================
