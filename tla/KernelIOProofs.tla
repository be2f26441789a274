----------------------------- MODULE KernelIOProofs -----------------------------
(****************************************************************************)
(* WAITIO and the interrupt handler: every step is one of the nucleus or a  *)
(* V on the semaphore of a device, so that all that NucleusProofs and its   *)
(* successors show of lists, counts and families goes on to hold; and, if   *)
(* processes are orderly, each completion wakes its own process, once.      *)
(* Nobody terminates an ancestor of the caller.                             *)
(****************************************************************************)
EXTENDS NucleusLifeProofs, KernelIOLife

(* One half of each terminal is used.                                       *)
OneHalfUsed ==
  \A d \in 0 .. 7 : ~ (<<INT_TERMINAL, d, 0>> \in Used /\ <<INT_TERMINAL, d, 1>> \in Used)

(* interrupt_H returns to the process it has interrupted or dispatches      *)
(* another one, and serves registers that there are.                        *)
HandlerInv ==
  /\ line # 0 => mode = "user"
  /\ \A d \in instance : <<line, d>> \in Installed
  /\ status_r # NULL => line = INT_TERMINAL /\ instance # {}

(* An operation or an interrupt comes from a command.                       *)
RegisterInv ==
  /\ \A r \in Register : status[r] = "busy" \/ r \in pending => command[r] # 0
  /\ \A r \in pending : status[r] \in {"done", "error"}

(* What is left of the bitmap are devices with an interrupt still pending,  *)
(* but for the terminal whose transmitter has been served.                  *)
BitmapInv ==
  /\ line \in INT_DISK .. INT_PRINTER => \A d \in instance : <<line, d, 0>> \in pending
  /\ line = INT_TERMINAL =>
       \A d \in instance : \/ status_r # NULL /\ d = Min(instance)
                           \/ \E sub \in {0, 1} : <<line, d, sub>> \in pending

(* int_term has read the status the receiver still has when it is served.   *)
ReceiverInv ==
  status_r # NULL =>
    LET r == <<INT_TERMINAL, Min(instance), 1>>
    IN  command[r] # 0 => r \in pending /\ status_r = status[r]

(* What orderly processes make of the devices.                              *)
UseInv ==
  /\ \A r \in Register \ Used : command[r] = 0
  /\ \A r \in Register :
       /\ semval[semaphore(r)] <= 0
       /\ Len(s_procQ[semaphore(r)]) = IF status[r] = "busy" \/ r \in pending THEN 1 ELSE 0

SparedInv == mode = "term" => \A q \in Family(victim) : p_semkey[q] \notin DeviceKey

IOTypeInv == IOTypeOK /\ HandlerInv

OrderlyInv == UseInv /\ ReceiverInv /\ SparedInv

IOInv == IOTypeInv /\ RegisterInv /\ BitmapInv /\ (orderly => OrderlyInv)
------------------------------------------------------------------------------
LEMMA RegisterFields ==
  ASSUME NEW r \in Register
  PROVE  /\ r = <<r[1], r[2], r[3]>>
         /\ r[1] \in 3 .. 7 /\ r[2] \in 0 .. 7 /\ r[3] \in {0, 1}
         /\ r[1] # 7 => r[3] = 0
         /\ <<r[1], r[2]>> \in Installed
  BY InstalledAssumption DEF Register, INT_DISK, INT_TERMINAL

LEMMA RegistersThere ==
  /\ \A l, d : <<l, d>> \in Installed => <<l, d, 0>> \in Register
  /\ \A d : <<INT_TERMINAL, d>> \in Installed => <<INT_TERMINAL, d, 1>> \in Register
<1>1. ASSUME NEW l, NEW d, <<l, d>> \in Installed
      PROVE  <<l, d, 0>> \in Register
  BY <1>1 DEF Register
<1>2. ASSUME NEW d, <<INT_TERMINAL, d>> \in Installed
      PROVE  <<INT_TERMINAL, d, 1>> \in Register
  BY <1>2 DEF Register
<1>. QED
  BY <1>1, <1>2

(* WAITIO and the handler agree on the semaphore of a register, and no two  *)
(* registers have the same one.                                             *)
LEMMA Semaphores ==
  /\ \A r \in Register : sem_num(r) = semaphore(r) /\ semaphore(r) \in DeviceKey
                         /\ semaphore(r) \in Key
  /\ \A r, q \in Register : semaphore(r) = semaphore(q) => r = q
<1>1. ASSUME NEW r \in Register
      PROVE  semaphore(r) = r[2] + 8 * (r[1] - 3 + r[3]) /\ sem_num(r) = semaphore(r)
  <2>1. /\ r[1] \in 3 .. 7 /\ r[2] \in 0 .. 7 /\ r[3] \in {0, 1} /\ (r[1] # 7 => r[3] = 0)
    BY RegisterFields
  <2>2. dtpArray[r[1] - 2] = 8 * (r[1] - 3) \/ r[1] = 7
    BY <2>1 DEF dtpArray, semdev
  <2>. QED
    BY <2>1, <2>2 DEF semaphore, sem_num, semdev, INT_TERMINAL, INT_DISK
<1>2. ASSUME NEW r \in Register, NEW q \in Register, semaphore(r) = semaphore(q)
      PROVE  r = q
  <2>1. /\ r = <<r[1], r[2], r[3]>> /\ q = <<q[1], q[2], q[3]>>
        /\ r[1] \in 3 .. 7 /\ r[2] \in 0 .. 7 /\ r[3] \in {0, 1} /\ (r[1] # 7 => r[3] = 0)
        /\ q[1] \in 3 .. 7 /\ q[2] \in 0 .. 7 /\ q[3] \in {0, 1} /\ (q[1] # 7 => q[3] = 0)
    BY RegisterFields
  <2>2. r[2] + 8 * (r[1] - 3 + r[3]) = q[2] + 8 * (q[1] - 3 + q[3])
    BY <1>1, <1>2
  <2>3. r[2] = q[2] /\ r[1] = q[1] /\ r[3] = q[3]
    BY <2>1, <2>2
  <2>. QED
    BY <2>1, <2>3
<1>3. \A r \in Register : semaphore(r) \in DeviceKey /\ semaphore(r) \in Key
  BY UsedAssumption DEF DeviceKey
<1>. QED
  BY <1>1, <1>2, <1>3

LEMMA FirstInstance ==
  ASSUME IOTypeInv, instance # {}
  PROVE  /\ Min(instance) \in instance /\ Min(instance) \in 0 .. 7
         /\ <<line, Min(instance)>> \in Installed
         /\ <<line, Min(instance), 0>> \in Register
         /\ line = INT_TERMINAL => <<line, Min(instance), 1>> \in Register
<1>1. instance \subseteq 0 .. 7 /\ instance \subseteq Nat
  BY DEF IOTypeInv, IOTypeOK
<1>2. Min(instance) \in instance
  BY <1>1, MinOfPositions
<1>3. <<line, Min(instance)>> \in Installed
  BY <1>2 DEF IOTypeInv, HandlerInv
<1>. QED
  BY <1>1, <1>2, <1>3, RegistersThere

(* What serving a register does, whatever status its process is given.      *)
Serve(r) ==
  IF command[r] # 0
  THEN WriteCommand(r, CMD_ACK) /\ Wake(semaphore(r))
  ELSE UNCHANGED <<vars, devVars>>

LEMMA OutProcWakes ==
  ASSUME mode = "user", NEW k, NEW ACTION stat, outProc(k, stat), outProcFrame
  PROVE  Wake(k)
  BY DEF outProc, outProcFrame, Wake

LEMMA ServeSteps ==
  ASSUME IOTypeInv
  PROVE  /\ serveDevice => Serve(<<line, Min(instance), 0>>)
         /\ int_term_T => Serve(<<line, Min(instance), 0>>)
         /\ int_term_R => Serve(<<line, Min(instance), 1>>)
<1>1. line # 0 => mode = "user"
  BY DEF IOTypeInv, HandlerInv
<1>2. ASSUME serveDevice PROVE Serve(<<line, Min(instance), 0>>)
  BY <1>1, <1>2, OutProcWakes DEF serveDevice, Serve, INT_DISK, INT_PRINTER
<1>3. ASSUME int_term_T PROVE Serve(<<line, Min(instance), 0>>)
  BY <1>1, <1>3, OutProcWakes DEF int_term_T, Serve, INT_TERMINAL
<1>4. ASSUME int_term_R PROVE Serve(<<line, Min(instance), 1>>)
  BY <1>1, <1>4, OutProcWakes DEF int_term_R, Serve, INT_TERMINAL
<1>. QED
  BY <1>2, <1>3, <1>4

(* The steps of the nucleus, and Vs on the semaphores of devices.           *)
DeviceStep == Next \/ \E k \in DeviceKey : Wake(k)

LEMMA ServeIsStep ==
  ASSUME NEW r \in Register, Serve(r)
  PROVE  [DeviceStep]_vars
  BY Semaphores DEF Serve, DeviceStep

LEMMA NucleusStepIsNext == NucleusStep => Next
  BY DEF NucleusStep, Next

LEMMA IOStep ==
  ASSUME IOTypeInv, [IONext]_<<vars, ioVars>>
  PROVE  [DeviceStep]_vars
<1>1. CASE NucleusStep
  BY <1>1, NucleusStepIsNext DEF DeviceStep
<1>2. CASE interrupt_H \/ checkLine
  BY <1>2 DEF interrupt_H, checkLine
<1>3. CASE serveDevice \/ int_term_T
  <2>1. instance # {}
    BY <1>3 DEF serveDevice, int_term_T
  <2>. QED
    BY <1>3, <2>1, FirstInstance, ServeSteps, ServeIsStep
<1>4. CASE int_term_R
  <2>1. line = INT_TERMINAL /\ instance # {}
    BY <1>4 DEF int_term_R, IOTypeInv, HandlerInv
  <2>. QED
    BY <1>4, <2>1, FirstInstance, ServeSteps, ServeIsStep
<1>5. CASE intDone
  <2>1. mode = "user"
    BY <1>5 DEF intDone, IOTypeInv, HandlerInv, INT_TERMINAL
  <2>2. TimerInterrupt
    BY <1>5, <2>1 DEF intDone, TimerInterrupt
  <2>. QED
    BY <2>2 DEF DeviceStep, Next
<1>6. ASSUME NEW r \in Register, waitio(r)
      PROVE  [DeviceStep]_vars
  <2>1. sem_num(r) \in Key /\ passeren(sem_num(r))
    BY <1>6, Semaphores DEF waitio
  <2>. QED
    BY <2>1 DEF DeviceStep, Next
<1>7. ASSUME NEW r \in Register, DeviceDone(r)
      PROVE  [DeviceStep]_vars
  BY <1>7 DEF DeviceDone
<1>8. CASE UNCHANGED <<vars, ioVars>>
  BY <1>8
<1>. QED
  BY <1>1, <1>2, <1>3, <1>4, <1>5, <1>6, <1>7, <1>8 DEF IONext, IntStep

LEMMA DeviceStepIsStep == [DeviceStep]_vars => [Step]_vars
  BY UsedAssumption DEF DeviceStep, Step

------------------------------------------------------------------------------
LEMMA InitIOInv == IOInit => IOInv
<1>. SUFFICES ASSUME IOInit PROVE IOInv
  OBVIOUS
<1>1. /\ line = 0 /\ instance = {} /\ status_r = NULL /\ pending = {} /\ mode = "boot"
      /\ command = [r \in Register |-> 0] /\ status = [r \in Register |-> "ready"]
      /\ reg_v0 = [p \in PCB |-> NULL] /\ orderly \in BOOLEAN
      /\ s_procQ = [k \in Key |-> <<>>]
      /\ \A k \in DeviceKey : semval[k] = 0
  BY DEF IOInit, initIO, Init, initASL
<1>2. IOTypeInv
  BY <1>1 DEF IOTypeInv, IOTypeOK, HandlerInv, Status, CMD_ACK, CMD_TRANSMIT
<1>3. RegisterInv /\ BitmapInv /\ ReceiverInv /\ SparedInv
  BY <1>1 DEF RegisterInv, BitmapInv, ReceiverInv, SparedInv
<1>4. ASSUME NEW r \in Register
      PROVE  /\ command[r] = 0 /\ semval[semaphore(r)] <= 0
             /\ Len(s_procQ[semaphore(r)]) = IF status[r] = "busy" \/ r \in pending THEN 1 ELSE 0
  <2>1. semaphore(r) \in DeviceKey /\ semaphore(r) \in Key
    BY Semaphores
  <2>2. s_procQ[semaphore(r)] = <<>> /\ semval[semaphore(r)] = 0
    BY <1>1, <2>1
  <2>. QED
    BY <1>1, <2>2
<1>5. UseInv
  BY <1>4 DEF UseInv
<1>. QED
  BY <1>2, <1>3, <1>5 DEF IOInv, OrderlyInv

LEMMA WriteCommandTypes ==
  ASSUME IOTypeInv, NEW r \in Register, NEW c \in {CMD_ACK, CMD_TRANSMIT}, WriteCommand(r, c)
  PROVE  /\ command' \in [Register -> {0, CMD_ACK, CMD_TRANSMIT}]
         /\ status' \in [Register -> Status] /\ pending' \subseteq Register
<1>1. /\ command \in [Register -> {0, CMD_ACK, CMD_TRANSMIT}]
      /\ status \in [Register -> Status] /\ pending \subseteq Register
  BY DEF IOTypeInv, IOTypeOK
<1>2. CASE status[r] = "busy"
  BY <1>1, <1>2 DEF WriteCommand, devVars
<1>3. CASE status[r] # "busy"
  BY <1>1, <1>3 DEF WriteCommand, Status
<1>. QED
  BY <1>2, <1>3

(* What serving a register leaves as it is, and the types of the rest.      *)
LEMMA ServeTypes ==
  ASSUME IOTypeInv, NEW r \in Register, Serve(r)
  PROVE  /\ command' \in [Register -> {0, CMD_ACK, CMD_TRANSMIT}]
         /\ status' \in [Register -> Status] /\ pending' \subseteq Register
         /\ mode' = mode
<1>1. CASE command[r] # 0
  BY <1>1, WriteCommandTypes DEF Serve, Wake
<1>2. CASE command[r] = 0
  BY <1>2 DEF Serve, IOTypeInv, IOTypeOK, devVars, vars, schedVars
<1>. QED
  BY <1>1, <1>2

LEMMA OutProcTypes ==
  ASSUME TypeInv, IOTypeInv, NEW k \in Key, NEW ACTION stat, stat \in Status, outProc(k, stat)
  PROVE  reg_v0' \in [PCB -> Status \cup {NULL}]
<1>1. reg_v0 \in [PCB -> Status \cup {NULL}]
  BY DEF IOTypeInv, IOTypeOK
<1>2. headBlocked(k) \in PCB \cup {NULL}
  BY RemoveBlockedInv DEF TypeInv, outProc
<1>3. CASE headBlocked(k) = NULL
  BY <1>1, <1>3 DEF outProc
<1>4. CASE headBlocked(k) # NULL
  BY <1>1, <1>2, <1>4 DEF outProc
<1>. QED
  BY <1>3, <1>4

LEMMA ServedTypes ==
  ASSUME TypeInv, IOTypeInv, serveDevice \/ int_term_T \/ int_term_R
  PROVE  reg_v0' \in [PCB -> Status \cup {NULL}]
<1>1. reg_v0 \in [PCB -> Status \cup {NULL}] /\ status \in [Register -> Status]
      /\ status_r \in Status \cup {NULL}
  BY DEF IOTypeInv, IOTypeOK
<1>2. CASE serveDevice
  <2>. DEFINE r == <<line, Min(instance), 0>>
  <2>1. r \in Register /\ Serve(r)
    BY <1>2, FirstInstance, ServeSteps DEF serveDevice
  <2>2. status' \in [Register -> Status]
    BY <2>1, ServeTypes
  <2>3. status'[r] \in Status /\ semaphore(r) \in Key
    BY <2>1, <2>2, Semaphores
  <2>4. outProc(semaphore(r), status'[r]) \/ reg_v0' = reg_v0
    BY <1>2 DEF serveDevice
  <2>. QED
    BY <1>1, <2>3, <2>4, OutProcTypes
<1>3. CASE int_term_T
  <2>. DEFINE r == <<line, Min(instance), 0>>
  <2>1. r \in Register
    BY <1>3, FirstInstance DEF int_term_T
  <2>2. status[r] \in Status /\ semaphore(r) \in Key
    BY <1>1, <2>1, Semaphores
  <2>3. outProc(semaphore(r), status[r]) \/ reg_v0' = reg_v0
    BY <1>3 DEF int_term_T
  <2>. QED
    BY <1>1, <2>2, <2>3, OutProcTypes
<1>4. CASE int_term_R
  <2>. DEFINE r == <<line, Min(instance), 1>>
  <2>1. r \in Register
    BY <1>4, FirstInstance DEF int_term_R, IOTypeInv, HandlerInv
  <2>2. status_r \in Status /\ semaphore(r) \in Key
    BY <1>1, <1>4, <2>1, Semaphores DEF int_term_R
  <2>3. outProc(semaphore(r), status_r) \/ reg_v0' = reg_v0
    BY <1>4 DEF int_term_R
  <2>. QED
    BY <1>1, <2>2, <2>3, OutProcTypes
<1>. QED
  BY <1>2, <1>3, <1>4

LEMMA NextIOTypeInv ==
  ASSUME TypeInv, IOTypeInv, [IONext]_<<vars, ioVars>>
  PROVE  IOTypeInv'
<1>0. /\ command \in [Register -> {0, CMD_ACK, CMD_TRANSMIT}]
      /\ status \in [Register -> Status] /\ pending \subseteq Register
      /\ line \in {0} \cup INT_TIMER .. INT_TERMINAL /\ instance \subseteq 0 .. 7
      /\ status_r \in Status \cup {NULL} /\ reg_v0 \in [PCB -> Status \cup {NULL}]
      /\ orderly \in BOOLEAN
      /\ line # 0 => mode = "user"
      /\ \A d \in instance : <<line, d>> \in Installed
      /\ status_r # NULL => line = INT_TERMINAL /\ instance # {}
  BY DEF IOTypeInv, IOTypeOK, HandlerInv
<1>1. CASE UNCHANGED ioVars /\ (mode' = mode \/ line = 0)
  BY <1>0, <1>1 DEF ioVars, devVars, intVars, IOTypeInv, IOTypeOK, HandlerInv
<1>2. CASE interrupt_H
  <2>1. instance = {} /\ status_r = NULL
    <3>1. line = 0
      BY <1>2 DEF interrupt_H
    <3>2. \A d : <<0, d>> \notin Installed
      BY InstalledAssumption DEF INT_DISK, INT_TERMINAL
    <3>. QED
      BY <1>0, <3>1, <3>2
  <2>. QED
    BY <1>0, <1>2, <2>1 DEF interrupt_H, vars, schedVars, devVars, IOTypeInv, IOTypeOK, HandlerInv,
                            INT_TIMER, INT_TERMINAL
<1>3. CASE checkLine
  <2>1. status_r = NULL /\ line + 1 \in 3 .. 7 /\ line # 0
    BY <1>0, <1>3 DEF checkLine, INT_TIMER, INT_PRINTER, INT_TERMINAL
  <2>2. \A d \in instance' : <<line', d>> \in Installed /\ d \in 0 .. 7
    BY <1>0, <1>3, RegisterFields DEF checkLine
  <2>3. line' \in 3 .. 7 /\ line' # 0 /\ status_r' = NULL
    BY <1>3, <2>1 DEF checkLine
  <2>4. UNCHANGED <<command, status, pending, reg_v0, orderly, mode>>
    BY <1>3 DEF checkLine, vars, schedVars, devVars
  <2>5. instance' \subseteq 0 .. 7
    BY <2>2
  <2>. QED
    BY <1>0, <2>1, <2>2, <2>3, <2>4, <2>5 DEF IOTypeInv, IOTypeOK, HandlerInv, INT_TIMER, INT_TERMINAL
<1>4. CASE serveDevice
  <2>. DEFINE r == <<line, Min(instance), 0>>
  <2>1. r \in Register /\ Serve(r)
    BY <1>4, FirstInstance, ServeSteps DEF serveDevice
  <2>2. /\ command' \in [Register -> {0, CMD_ACK, CMD_TRANSMIT}]
        /\ status' \in [Register -> Status] /\ pending' \subseteq Register
        /\ mode' = mode /\ reg_v0' \in [PCB -> Status \cup {NULL}]
    BY <1>4, <2>1, ServeTypes, ServedTypes
  <2>3. /\ line' = line /\ instance' \subseteq instance /\ status_r' = NULL /\ orderly' = orderly
    BY <1>0, <1>4 DEF serveDevice, INT_DISK, INT_PRINTER, INT_TERMINAL
  <2>. QED
    BY <1>0, <2>2, <2>3 DEF IOTypeInv, IOTypeOK, HandlerInv
<1>5. CASE int_term_T
  <2>. DEFINE r == <<line, Min(instance), 0>>
  <2>1. r \in Register /\ <<line, Min(instance), 1>> \in Register /\ Serve(r)
    BY <1>5, FirstInstance, ServeSteps DEF int_term_T
  <2>2. /\ command' \in [Register -> {0, CMD_ACK, CMD_TRANSMIT}]
        /\ status' \in [Register -> Status] /\ pending' \subseteq Register
        /\ mode' = mode /\ reg_v0' \in [PCB -> Status \cup {NULL}]
    BY <1>5, <2>1, ServeTypes, ServedTypes
  <2>3. /\ line' = line /\ instance' = instance /\ orderly' = orderly
        /\ line = INT_TERMINAL /\ instance # {} /\ status_r' \in Status
    BY <1>0, <1>5, <2>1 DEF int_term_T
  <2>. QED
    BY <1>0, <2>2, <2>3 DEF IOTypeInv, IOTypeOK, HandlerInv
<1>6. CASE int_term_R
  <2>. DEFINE r == <<line, Min(instance), 1>>
  <2>1. r \in Register /\ Serve(r)
    BY <1>0, <1>6, FirstInstance, ServeSteps DEF int_term_R
  <2>2. /\ command' \in [Register -> {0, CMD_ACK, CMD_TRANSMIT}]
        /\ status' \in [Register -> Status] /\ pending' \subseteq Register
        /\ mode' = mode /\ reg_v0' \in [PCB -> Status \cup {NULL}]
    BY <1>6, <2>1, ServeTypes, ServedTypes
  <2>3. /\ line' = line /\ instance' \subseteq instance /\ status_r' = NULL /\ orderly' = orderly
    BY <1>6 DEF int_term_R
  <2>. QED
    BY <1>0, <2>2, <2>3 DEF IOTypeInv, IOTypeOK, HandlerInv
<1>7. CASE intDone
  <2>1. status_r = NULL /\ instance = {}
    BY <1>0, <1>7 DEF intDone
  <2>. QED
    BY <1>0, <1>7, <2>1 DEF intDone, devVars, IOTypeInv, IOTypeOK, HandlerInv
<1>8. ASSUME NEW r \in Register, waitio(r)
      PROVE  IOTypeInv'
  <2>1. /\ command' \in [Register -> {0, CMD_ACK, CMD_TRANSMIT}]
        /\ status' \in [Register -> Status] /\ pending' \subseteq Register
    BY <1>8, WriteCommandTypes DEF waitio
  <2>2. reg_v0' \in [PCB -> Status \cup {NULL}]
    BY <1>0, <1>8 DEF waitio
  <2>. QED
    BY <1>0, <1>8, <2>1, <2>2 DEF waitio, intVars, IOTypeInv, IOTypeOK, HandlerInv
<1>9. ASSUME NEW r \in Register, DeviceDone(r)
      PROVE  IOTypeInv'
  <2>1. status' \in [Register -> Status] /\ pending' \subseteq Register
    BY <1>0, <1>9 DEF DeviceDone, Status
  <2>. QED
    BY <1>0, <1>9, <2>1 DEF DeviceDone, vars, schedVars, intVars, IOTypeInv, IOTypeOK, HandlerInv
<1>10. CASE NucleusStep
  BY <1>1, <1>10 DEF NucleusStep
<1>11. CASE UNCHANGED <<vars, ioVars>>
  BY <1>1, <1>11 DEF vars, schedVars
<1>. QED
  BY <1>2, <1>3, <1>4, <1>5, <1>6, <1>7, <1>8, <1>9, <1>10, <1>11 DEF IONext, IntStep

------------------------------------------------------------------------------
LEMMA WriteCommandRegisters ==
  ASSUME IOTypeInv, RegisterInv, NEW r \in Register, NEW c \in {CMD_ACK, CMD_TRANSMIT},
         WriteCommand(r, c)
  PROVE  /\ RegisterInv'
         /\ pending \ {r} \subseteq pending'
         /\ \A q \in Register \ {r} :
              command'[q] = command[q] /\ status'[q] = status[q] /\ (q \in pending' <=> q \in pending)
<1>1. /\ command \in [Register -> {0, CMD_ACK, CMD_TRANSMIT}]
      /\ status \in [Register -> Status] /\ pending \subseteq Register
  BY DEF IOTypeInv, IOTypeOK
<1>2. CASE status[r] = "busy"
  BY <1>1, <1>2 DEF WriteCommand, devVars, RegisterInv
<1>3. CASE status[r] # "busy"
  <2>1. /\ command'[r] # 0 /\ r \notin pending'
        /\ \A q \in Register \ {r} :
             command'[q] = command[q] /\ status'[q] = status[q] /\ (q \in pending' <=> q \in pending)
    BY <1>1, <1>3 DEF WriteCommand, CMD_ACK, CMD_TRANSMIT
  <2>2. pending' \subseteq Register /\ pending \ {r} \subseteq pending'
    BY <1>1, <1>3 DEF WriteCommand
  <2>. QED
    BY <2>1, <2>2 DEF RegisterInv
<1>. QED
  BY <1>2, <1>3

LEMMA ServeRegisters ==
  ASSUME IOTypeInv, RegisterInv, NEW r \in Register, Serve(r)
  PROVE  RegisterInv' /\ pending \ {r} \subseteq pending'
<1>1. CASE command[r] # 0
  BY <1>1, WriteCommandRegisters DEF Serve
<1>2. CASE command[r] = 0
  BY <1>2 DEF Serve, devVars, RegisterInv
<1>. QED
  BY <1>1, <1>2

LEMMA DeviceDoneRegisters ==
  ASSUME IOTypeInv, RegisterInv, NEW r \in Register, DeviceDone(r)
  PROVE  /\ RegisterInv' /\ pending' = pending \cup {r} /\ command' = command
         /\ status[r] = "busy" /\ status'[r] \in {"done", "error"}
         /\ \A q \in Register \ {r} : status'[q] = status[q]
<1>1. status \in [Register -> Status] /\ pending \subseteq Register
  BY DEF IOTypeInv, IOTypeOK
<1>2. /\ pending' = pending \cup {r} /\ command' = command
      /\ status[r] = "busy" /\ status'[r] \in {"done", "error"}
      /\ \A q \in Register \ {r} : status'[q] = status[q]
  BY <1>1 DEF DeviceDone
<1>. QED
  BY <1>1, <1>2 DEF RegisterInv

(* The register serveDevice and int_term work on.                           *)
served == <<line, Min(instance), IF status_r = NULL THEN 0 ELSE 1>>

LEMMA HandlerServes ==
  ASSUME IOTypeInv, serveDevice \/ int_term_T \/ int_term_R
  PROVE  served \in Register /\ Serve(served) /\ instance # {} /\ UNCHANGED <<line, orderly>>
<1>1. instance # {} /\ UNCHANGED <<line, orderly>>
  BY DEF serveDevice, int_term_T, int_term_R, IOTypeInv, HandlerInv
<1>2. int_term_R => line = INT_TERMINAL /\ status_r # NULL
  BY DEF int_term_R
<1>3. serveDevice \/ int_term_T => status_r = NULL
  BY DEF serveDevice, int_term_T, IOTypeInv, HandlerInv, INT_DISK, INT_PRINTER, INT_TERMINAL
<1>4. CASE serveDevice \/ int_term_T
  BY <1>1, <1>3, <1>4, FirstInstance, ServeSteps DEF served
<1>5. CASE int_term_R
  BY <1>1, <1>2, <1>5, FirstInstance, ServeSteps DEF served
<1>. QED
  BY <1>1, <1>4, <1>5

LEMMA NextRegisterInv ==
  ASSUME IOTypeInv, RegisterInv, [IONext]_<<vars, ioVars>>
  PROVE  RegisterInv'
<1>1. CASE UNCHANGED devVars
  BY <1>1 DEF devVars, RegisterInv
<1>2. CASE serveDevice \/ int_term_T \/ int_term_R
  BY <1>2, HandlerServes, ServeRegisters
<1>3. ASSUME NEW r \in Register, waitio(r)
      PROVE  RegisterInv'
  BY <1>3, WriteCommandRegisters DEF waitio
<1>4. ASSUME NEW r \in Register, DeviceDone(r)
      PROVE  RegisterInv'
  BY <1>4, DeviceDoneRegisters
<1>5. CASE NucleusStep \/ interrupt_H \/ checkLine \/ intDone \/ UNCHANGED <<vars, ioVars>>
  BY <1>1, <1>5 DEF NucleusStep, interrupt_H, checkLine, intDone, ioVars
<1>. QED
  BY <1>2, <1>3, <1>4, <1>5 DEF IONext, IntStep

LEMMA NextBitmapInv ==
  ASSUME IOTypeInv, IOTypeInv', RegisterInv, BitmapInv, [IONext]_<<vars, ioVars>>
  PROVE  BitmapInv'
<1>0. pending \subseteq Register /\ pending' \subseteq Register
  BY DEF IOTypeInv, IOTypeOK
<1>1. ASSUME UNCHANGED <<line, instance, status_r>>, pending \subseteq pending'
      PROVE  BitmapInv'
  BY <1>1 DEF BitmapInv
<1>2. ASSUME line' \notin INT_DISK .. INT_TERMINAL
      PROVE  BitmapInv'
  BY <1>2 DEF BitmapInv, INT_DISK, INT_PRINTER, INT_TERMINAL
<1>3. CASE NucleusStep \/ UNCHANGED <<vars, ioVars>>
  BY <1>1, <1>3 DEF NucleusStep, ioVars, devVars, intVars
<1>4. CASE interrupt_H \/ intDone
  BY <1>2, <1>4 DEF interrupt_H, intDone, INT_TIMER, INT_DISK, INT_TERMINAL
<1>5. CASE checkLine
  <2>1. ASSUME NEW d \in instance'
        PROVE  \E sub \in {0, 1} : <<line', d, sub>> \in pending' /\ (line' # INT_TERMINAL => sub = 0)
    <3>1. PICK r \in pending : r[1] = line' /\ r[2] = d /\ pending' = pending
      BY <1>5 DEF checkLine, devVars
    <3>. QED
      BY <1>0, <3>1, RegisterFields DEF INT_TERMINAL
  <2>2. line' # INT_TERMINAL => \A d \in instance' : <<line', d, 0>> \in pending'
    BY <2>1
  <2>3. \A d \in instance' : \E sub \in {0, 1} : <<line', d, sub>> \in pending'
    BY <2>1
  <2>4. line' \in INT_DISK .. INT_PRINTER => line' # INT_TERMINAL
    BY DEF INT_PRINTER, INT_TERMINAL
  <2>. QED
    BY <2>2, <2>3, <2>4 DEF BitmapInv
<1>6. CASE serveDevice
  <2>. DEFINE r == <<line, Min(instance), 0>>
  <2>1. r \in Register /\ Serve(r)
    BY <1>6, FirstInstance, ServeSteps DEF serveDevice
  <2>2. /\ line' = line /\ line \in INT_DISK .. INT_PRINTER
        /\ instance' = instance \ {Min(instance)} /\ pending \ {r} \subseteq pending'
    BY <1>6, <2>1, ServeRegisters DEF serveDevice
  <2>3. \A d \in instance' : <<line', d, 0>> \in pending'
    BY <2>2 DEF BitmapInv
  <2>. QED
    BY <2>2, <2>3 DEF BitmapInv, INT_DISK, INT_PRINTER, INT_TERMINAL
<1>7. CASE int_term_T
  <2>. DEFINE r == <<line, Min(instance), 0>>
  <2>1. r \in Register /\ <<line, Min(instance), 1>> \in Register /\ Serve(r)
    BY <1>7, FirstInstance, ServeSteps DEF int_term_T
  <2>2. /\ line' = line /\ line = INT_TERMINAL /\ instance' = instance /\ status_r = NULL
        /\ status_r' = status[<<line, Min(instance), 1>>] /\ pending \ {r} \subseteq pending'
    BY <1>7, <2>1, ServeRegisters DEF int_term_T
  <2>3. status_r' # NULL
    BY <2>1, <2>2, StatusAssumption DEF IOTypeInv, IOTypeOK
  <2>4. ASSUME NEW d \in instance', d # Min(instance')
        PROVE  \E sub \in {0, 1} : <<line', d, sub>> \in pending'
    <3>1. PICK sub \in {0, 1} : <<line, d, sub>> \in pending
      BY <2>2, <2>4 DEF BitmapInv
    <3>2. <<line, d, sub>> # r
      BY <2>2, <2>4
    <3>. QED
      BY <2>2, <3>1, <3>2
  <2>. QED
    BY <2>2, <2>3, <2>4 DEF BitmapInv, INT_DISK, INT_PRINTER, INT_TERMINAL
<1>8. CASE int_term_R
  <2>. DEFINE r == <<line, Min(instance), 1>>
  <2>1. line = INT_TERMINAL /\ line' = line /\ instance' = instance \ {Min(instance)}
    BY <1>8 DEF int_term_R
  <2>2. r \in Register /\ Serve(r)
    BY <1>8, FirstInstance, ServeSteps DEF int_term_R, IOTypeInv, HandlerInv
  <2>3. pending \ {r} \subseteq pending'
    BY <2>2, ServeRegisters
  <2>4. ASSUME NEW d \in instance'
        PROVE  \E sub \in {0, 1} : <<line', d, sub>> \in pending'
    <3>1. d \in instance /\ d # Min(instance)
      BY <2>1
    <3>2. PICK sub \in {0, 1} : <<line, d, sub>> \in pending
      BY <2>1, <3>1 DEF BitmapInv
    <3>3. <<line, d, sub>> # r
      BY <3>1
    <3>. QED
      BY <2>1, <2>3, <3>2, <3>3
  <2>. QED
    BY <2>1, <2>4 DEF BitmapInv, INT_DISK, INT_PRINTER, INT_TERMINAL
<1>9. ASSUME NEW r \in Register, waitio(r)
      PROVE  BitmapInv'
  BY <1>2, <1>9 DEF waitio, intVars, INT_DISK, INT_TERMINAL
<1>10. ASSUME NEW r \in Register, DeviceDone(r)
       PROVE  BitmapInv'
  BY <1>1, <1>10 DEF DeviceDone, intVars
<1>. QED
  BY <1>3, <1>4, <1>5, <1>6, <1>7, <1>8, <1>9, <1>10 DEF IONext, IntStep

------------------------------------------------------------------------------
(* A V on a semaphore somebody waits for wakes the one in front.            *)
LEMMA WakeFirst ==
  ASSUME ListInv, SemaphoreCount, NEW k \in Key, Wake(k), Len(s_procQ[k]) = 1
  PROVE  /\ semval[k] = -1 /\ semval' = [semval EXCEPT ![k] = 0]
         /\ \A j \in Key : Len(s_procQ'[j]) = IF j = k THEN 0 ELSE Len(s_procQ[j])
<1>1. semval[k] = -1 /\ semval' = [semval EXCEPT ![k] = 0]
  <2>1. semval[k] \in Int
    BY DEF ListInv, TypeInv, TypeOK
  <2>2. 1 = IF semval[k] < 0 THEN - semval[k] ELSE 0
    BY DEF SemaphoreCount
  <2>3. semval[k] = -1
    BY <2>1, <2>2
  <2>4. semval' = [semval EXCEPT ![k] = semval[k] + 1]
    BY DEF Wake
  <2>5. semval[k] + 1 = 0
    BY <2>3
  <2>. QED
    BY <2>3, <2>4, <2>5
<1>2. s_procQ[k] \in Seq(PCB) /\ s_procQ[k] # <<>> /\ NULL \notin PCB
  <2>1. s_procQ \in [Key -> Seq(PCB)]
    BY DEF ListInv, TypeInv, TypeOK, AslTypeOK
  <2>2. s_procQ[k] \in Seq(PCB)
    BY <2>1
  <2>3. s_procQ[k] # <<>>
    BY EmptySeq
  <2>. QED
    BY <2>2, <2>3, TableAssumption
<1>3. headBlocked(k) # NULL
  BY <1>2, HeadTailProperties DEF headBlocked, ListInv, TypeInv, AslInv, SemdAccounting
<1>4. \A j \in Key : Len(s_procQ'[j]) = IF j = k THEN Len(s_procQ[j]) - 1 ELSE Len(s_procQ[j])
  BY <1>3, RemoveBlockedQueues, UnblockQueues DEF Wake, ListInv, TypeInv, QueueInv
<1>5. ASSUME NEW j \in Key
      PROVE  Len(s_procQ'[j]) = IF j = k THEN 0 ELSE Len(s_procQ[j])
  <2>1. Len(s_procQ'[k]) = 1 - 1
    BY <1>4
  <2>2. CASE j # k
    BY <1>4, <2>2
  <2>. QED
    BY <2>1, <2>2
<1>. QED
  BY <1>1, <1>5

(* A register that is served because its operation is done: its waiter is   *)
(* woken.                                                                   *)
LEMMA ServeUse ==
  ASSUME ListInv, SemaphoreCount, IOTypeInv, RegisterInv, UseInv, NEW r \in Register, Serve(r),
         command[r] # 0 => r \in pending
  PROVE  UseInv'
<1>1. CASE command[r] = 0
  BY <1>1 DEF Serve, vars, aslVars, devVars, UseInv
<1>2. CASE command[r] # 0
  <2>1. r \in pending /\ status[r] # "busy" /\ r \in Used
    BY <1>2 DEF RegisterInv, UseInv
  <2>2. /\ \A q \in Register \ {r} :
             command'[q] = command[q] /\ status'[q] = status[q] /\ (q \in pending' <=> q \in pending)
        /\ status'[r] = "ready" /\ r \notin pending'
    <3>1. status \in [Register -> Status]
      BY DEF IOTypeInv, IOTypeOK
    <3>. QED
      BY <1>2, <2>1, <3>1, WriteCommandRegisters DEF Serve, WriteCommand
  <2>3. semaphore(r) \in Key /\ Len(s_procQ[semaphore(r)]) = 1 /\ Wake(semaphore(r))
    BY <1>2, <2>1, Semaphores DEF Serve, UseInv
  <2>4. /\ semval' = [semval EXCEPT ![semaphore(r)] = 0] /\ semval \in [Key -> Int]
        /\ \A j \in Key : Len(s_procQ'[j]) = IF j = semaphore(r) THEN 0 ELSE Len(s_procQ[j])
    BY <2>3, WakeFirst DEF ListInv, TypeInv, TypeOK
  <2>5. ASSUME NEW q \in Register
        PROVE  /\ semval'[semaphore(q)] <= 0
               /\ Len(s_procQ'[semaphore(q)]) =
                    IF status'[q] = "busy" \/ q \in pending' THEN 1 ELSE 0
    <3>1. semaphore(q) \in Key /\ (q # r => semaphore(q) # semaphore(r))
      BY Semaphores
    <3>2. CASE q = r
      BY <2>2, <2>3, <2>4, <3>2
    <3>3. CASE q # r
      BY <2>2, <2>4, <3>1, <3>3 DEF UseInv
    <3>. QED
      BY <3>2, <3>3
  <2>6. \A q \in Register \ Used : command'[q] = 0
    BY <2>1, <2>2 DEF UseInv
  <2>7. \A q : semaphore(q)' = semaphore(q)
    BY DEF semaphore
  <2>. QED
    BY <2>5, <2>6, <2>7 DEF UseInv
<1>. QED
  BY <1>1, <1>2

(* An orderly WAITIO starts an operation, and its caller waits.             *)
LEMMA WaitioUse ==
  ASSUME ListInv, SemaphoreCount, IOTypeInv, RegisterInv, UseInv, orderly,
         NEW r \in Register, waitio(r)
  PROVE  UseInv'
<1>. DEFINE k == semaphore(r)
<1>1. /\ r \in Used /\ s_procQ[k] = <<>> /\ k \in Key /\ passeren(k) /\ Caller
      /\ WriteCommand(r, CMD_TRANSMIT)
  BY Semaphores DEF waitio, Orderly
<1>2. semval[k] = 0 /\ status[r] # "busy" /\ r \notin pending
  <2>1. Len(s_procQ[k]) = 0
    BY <1>1, EmptySeq
  <2>2. semval[k] \in Int /\ semval[k] <= 0
    BY <1>1 DEF ListInv, TypeInv, TypeOK, UseInv
  <2>3. semval[k] = 0
    BY <1>1, <2>1, <2>2 DEF SemaphoreCount
  <2>. QED
    BY <2>1, <2>3 DEF UseInv
<1>3. selected \in PCB /\ selected \notin pcbFree /\ p_semkey[selected] = NULL
  BY <1>1 DEF Caller, ListInv, TypeInv, QueueInv, ReadyOrFree, SelectedReady
<1>4. /\ semval' = [semval EXCEPT ![k] = -1] /\ semval \in [Key -> Int]
      /\ insertBlocked(k, selected)
  BY <1>1, <1>2, <1>3 DEF passeren, ListInv, TypeInv, TypeOK
<1>5. \A j \in Key : Len(s_procQ'[j]) = IF j = k THEN 1 ELSE Len(s_procQ[j])
  <2>1. \A j \in Key : Len(s_procQ'[j]) = IF j = k THEN Len(s_procQ[j]) + 1 ELSE Len(s_procQ[j])
    BY <1>1, <1>3, <1>4, InsertBlockedQueues DEF ListInv, TypeInv, QueueInv
  <2>2. Len(s_procQ[k]) = 0
    BY <1>1, EmptySeq
  <2>. QED
    BY <2>1, <2>2
<1>6. /\ \A q \in Register \ {r} :
           command'[q] = command[q] /\ status'[q] = status[q] /\ (q \in pending' <=> q \in pending)
      /\ status'[r] = "busy"
  <2>1. status \in [Register -> Status]
    BY DEF IOTypeInv, IOTypeOK
  <2>. QED
    BY <1>1, <1>2, <2>1, WriteCommandRegisters DEF WriteCommand, CMD_TRANSMIT, CMD_ACK
<1>7. ASSUME NEW q \in Register
      PROVE  /\ semval'[semaphore(q)] <= 0
             /\ Len(s_procQ'[semaphore(q)]) =
                  IF status'[q] = "busy" \/ q \in pending' THEN 1 ELSE 0
  <2>1. semaphore(q) \in Key /\ (q # r => semaphore(q) # semaphore(r))
    BY Semaphores
  <2>2. CASE q = r
    <3>1. semval'[k] = -1
      BY <1>1, <1>4
    <3>2. Len(s_procQ'[k]) = 1 /\ status'[r] = "busy"
      BY <1>1, <1>5, <1>6
    <3>. QED
      BY <2>2, <3>1, <3>2
  <2>3. CASE q # r
    BY <1>4, <1>5, <1>6, <2>1, <2>3 DEF UseInv
  <2>. QED
    BY <2>2, <2>3
<1>8. \A q \in Register \ Used : command'[q] = 0
  BY <1>1, <1>6 DEF UseInv
<1>9. \A q : semaphore(q)' = semaphore(q)
  BY DEF semaphore
<1>. QED
  BY <1>7, <1>8, <1>9 DEF UseInv

------------------------------------------------------------------------------
(* System calls that do not reach the devices leave their semaphores and    *)
(* those who wait on them alone.                                            *)
LEMMA NucleusKeeps ==
  ASSUME ListInv, SparedInv, NucleusStep, NEW k \in DeviceKey
  PROVE  semval'[k] = semval[k] /\ s_procQ'[k] = s_procQ[k]
<1>0. k \in Key /\ semval \in [Key -> Int] /\ s_procQ \in [Key -> Seq(PCB)]
  BY UsedAssumption DEF ListInv, TypeInv, TypeOK, AslTypeOK
<1>1. CASE UNCHANGED <<semval, s_procQ>>
  BY <1>1
<1>2. ASSUME NEW p, NEW then, term_process(p, then)
      PROVE  UNCHANGED <<semval, s_procQ>>
  BY <1>2 DEF term_process, aslVars
<1>3. CASE Boot \/ TermDone \/ Stopped
  BY <1>1, <1>3 DEF Boot, TermDone, Stopped, vars, aslVars
<1>4. ASSUME NEW v \in Priority, create_process(v)
      PROVE  UNCHANGED <<semval, s_procQ>>
  BY <1>4 DEF create_process
<1>5. CASE TerminateSelf \/ \E p \in PCB : TerminatePid(p)
  BY <1>1, <1>2, <1>5 DEF TerminateSelf, TerminatePid
<1>6. ASSUME NEW p \in PCB, delete_ric(p)
      PROVE  semval'[k] = semval[k] /\ s_procQ'[k] = s_procQ[k]
  <2>1. p_semkey[p] # k /\ unlink(p)
    BY <1>6, DeleteRicTree DEF SparedInv, delete_ric
  <2>2. CASE p_semkey[p] = NULL
    BY <2>1, <2>2 DEF unlink, aslVars
  <2>3. CASE p_semkey[p] # NULL
    <3>1. outBlocked(p) /\ semval' = [semval EXCEPT ![p_semkey[p]] = @ + 1]
      BY <2>1, <2>3 DEF unlink
    <3>2. unblock(p_semkey[p], p)
      BY <2>3, <3>1, OutBlockedQueues DEF ListInv, TypeInv, QueueInv
    <3>. QED
      BY <1>0, <2>1, <3>1, <3>2 DEF unblock
  <2>. QED
    BY <2>2, <2>3
<1>7. ASSUME NEW j \in Key \ DeviceKey, verhogen(j)
      PROVE  semval'[k] = semval[k] /\ s_procQ'[k] = s_procQ[k]
  BY <1>0, <1>7 DEF verhogen, removeBlocked, unblock, aslVars
<1>8. ASSUME NEW j \in Key \ DeviceKey, passeren(j)
      PROVE  semval'[k] = semval[k] /\ s_procQ'[k] = s_procQ[k]
  BY <1>0, <1>8 DEF passeren, insertBlocked, aslVars
<1>. QED
  BY <1>1, <1>3, <1>4, <1>5, <1>6, <1>7, <1>8 DEF NucleusStep

LEMMA NucleusUse ==
  ASSUME ListInv, SparedInv, UseInv, NucleusStep
  PROVE  UseInv'
<1>1. \A r \in Register : semaphore(r) \in DeviceKey /\ semaphore(r)' = semaphore(r)
  BY Semaphores DEF semaphore
<1>2. UNCHANGED <<command, status, pending>>
  BY DEF NucleusStep, ioVars, devVars
<1>3. \A r \in Register : /\ semval'[semaphore(r)] = semval[semaphore(r)]
                          /\ s_procQ'[semaphore(r)] = s_procQ[semaphore(r)]
  BY <1>1, NucleusKeeps
<1>. QED
  BY <1>1, <1>2, <1>3 DEF UseInv

(* Who waits for a device goes on to, and nobody else begins to.            *)
LEMMA NucleusWaiters ==
  ASSUME ListInv, ListInv', SparedInv, NucleusStep, NEW p \in PCB, NEW k \in DeviceKey
  PROVE  p_semkey'[p] = k <=> p_semkey[p] = k
<1>1. k \in Key /\ s_procQ'[k] = s_procQ[k]
  BY UsedAssumption, NucleusKeeps
<1>2. getProc(s_procQ[k], p) <=> p_semkey[p] = k
  BY <1>1 DEF ListInv, QueueInv, BlockedOnKey
<1>3. getProc(s_procQ'[k], p) <=> p_semkey'[p] = k
  BY <1>1 DEF ListInv, QueueInv, BlockedOnKey, getProc
<1>. QED
  BY <1>1, <1>2, <1>3

LEMMA NextSparedInv ==
  ASSUME ListInv, ListInv', IOTypeInv, SparedInv, orderly, [IONext]_<<vars, ioVars>>
  PROVE  SparedInv'
<1>. SUFFICES ASSUME mode' = "term"
              PROVE  \A q \in Closure(p_child', victim') : p_semkey'[q] \notin DeviceKey
  BY FamilyNextIsClosure DEF SparedInv, DeviceKey, semaphore
<1>0. \A x : Closure(p_child, x) \subseteq PCB
  BY DEF Closure
<1>1. CASE UNCHANGED vars
  BY <1>1, FamilyIsClosure DEF SparedInv, vars, schedVars, aslVars, treeVars, termVars
<1>2. CASE NucleusStep
  <2>1. CASE \E p \in PCB : delete_ric(p)
    <3>1. mode = "term" /\ UNCHANGED <<p_child, victim>>
      BY <2>1, DeleteRicTree
    <3>. QED
      BY <1>0, <1>2, <3>1, FamilyIsClosure, NucleusWaiters DEF SparedInv
  <2>2. ASSUME NEW p, NEW then, MayTerminate(p), Caller, term_process(p, then)
        PROVE  \A q \in Closure(p_child', victim') : p_semkey'[q] \notin DeviceKey
    <3>1. victim' = p /\ UNCHANGED p_child
      BY <2>2 DEF term_process, scheduling, Caller, treeVars
    <3>. QED
      BY <1>0, <1>2, <2>2, <3>1, FamilyIsClosure, NucleusWaiters DEF MayTerminate
  <2>3. CASE MayTerminate(selected) /\ TerminateSelf
    BY <2>2, <2>3 DEF TerminateSelf
  <2>4. ASSUME NEW p \in PCB, MayTerminate(p), TerminatePid(p)
        PROVE  \A q \in Closure(p_child', victim') : p_semkey'[q] \notin DeviceKey
    BY <2>2, <2>4 DEF TerminatePid
  <2>. QED
    BY <1>1, <1>2, <2>1, <2>3, <2>4
    DEF NucleusStep, Boot, create_process, TermDone, verhogen, passeren, Stopped, scheduling, Caller
<1>3. CASE interrupt_H \/ checkLine \/ UNCHANGED <<vars, ioVars>>
  BY <1>1, <1>3 DEF interrupt_H, checkLine
<1>4. CASE serveDevice \/ int_term_T \/ int_term_R
  BY <1>1, <1>4, HandlerServes DEF Serve, Wake
<1>5. CASE intDone
  BY <1>5 DEF intDone, scheduling
<1>6. ASSUME NEW r \in Register, waitio(r) PROVE FALSE
  BY <1>6 DEF waitio, passeren, Caller, scheduling
<1>7. ASSUME NEW r \in Register, DeviceDone(r) PROVE UNCHANGED vars
  BY <1>7 DEF DeviceDone
<1>. QED
  BY <1>1, <1>2, <1>3, <1>4, <1>5, <1>6, <1>7 DEF IONext, IntStep

------------------------------------------------------------------------------
(* Only int_term_T makes int_term remember a status.                        *)
LEMMA StatusRead ==
  ASSUME IOTypeInv, IOTypeInv', IONext, status_r' # NULL
  PROVE  int_term_T \/ (UNCHANGED <<instance, status_r>> /\ \E r \in Register : DeviceDone(r))
<1>1. line = 0 \/ line \in INT_TIMER .. INT_PRINTER \/ instance = {} => status_r = NULL
  BY DEF IOTypeInv, HandlerInv, INT_TIMER, INT_PRINTER, INT_TERMINAL
<1>2. ~ NucleusStep
  BY <1>1 DEF NucleusStep, ioVars, intVars
<1>3. ~ (interrupt_H \/ checkLine \/ intDone \/ int_term_R)
  BY <1>1 DEF interrupt_H, checkLine, intDone, int_term_R
<1>4. ~ serveDevice
  BY <1>1 DEF serveDevice, INT_DISK, INT_TIMER, INT_PRINTER
<1>5. ASSUME NEW r \in Register PROVE ~ waitio(r)
  BY <1>1 DEF waitio, intVars
<1>6. ASSUME NEW r \in Register, DeviceDone(r) PROVE UNCHANGED <<instance, status_r>>
  BY <1>6 DEF DeviceDone, intVars
<1>. QED
  BY <1>2, <1>3, <1>4, <1>5, <1>6 DEF IONext, IntStep

(* A terminal that asks for attention does so for the half in use.          *)
LEMMA OneHalfPending ==
  ASSUME OneHalfUsed, IOTypeInv, RegisterInv, BitmapInv, UseInv,
         line = INT_TERMINAL, instance # {}, status_r = NULL
  PROVE  /\ <<line, Min(instance), 0>> \in Register /\ <<line, Min(instance), 1>> \in Register
         /\ \/ /\ <<line, Min(instance), 0>> \in pending
               /\ command[<<line, Min(instance), 1>>] = 0
            \/ /\ <<line, Min(instance), 1>> \in pending
               /\ command[<<line, Min(instance), 0>>] = 0
<1>. DEFINE d == Min(instance)
<1>1. d \in instance /\ d \in 0 .. 7 /\ <<line, d, 0>> \in Register /\ <<line, d, 1>> \in Register
  BY FirstInstance
<1>2. <<line, d, 0>> \in pending \/ <<line, d, 1>> \in pending
  BY <1>1 DEF BitmapInv
<1>3. \A r \in Register : /\ r \in pending => r \in Used
                          /\ r \notin Used => command[r] = 0
  BY DEF RegisterInv, UseInv
<1>4. ~ (<<line, d, 0>> \in Used /\ <<line, d, 1>> \in Used)
  BY <1>1 DEF OneHalfUsed
<1>. QED
  BY <1>1, <1>2, <1>3, <1>4

LEMMA NextReceiverInv ==
  ASSUME OneHalfUsed, IOTypeInv, IOTypeInv', RegisterInv, BitmapInv, UseInv, ReceiverInv,
         [IONext]_<<vars, ioVars>>
  PROVE  ReceiverInv'
<1>0. pending \subseteq Register /\ status \in [Register -> Status]
  BY DEF IOTypeInv, IOTypeOK
<1>1. CASE UNCHANGED <<vars, ioVars>>
  BY <1>1 DEF ReceiverInv, ioVars, devVars, intVars
<1>2. CASE status_r' = NULL
  BY <1>2 DEF ReceiverInv
<1>3. CASE int_term_T
  <2>. DEFINE r0 == <<INT_TERMINAL, Min(instance), 0>>
              r1 == <<INT_TERMINAL, Min(instance), 1>>
  <2>1. /\ line = INT_TERMINAL /\ instance # {} /\ status_r = NULL
        /\ instance' = instance /\ status_r' = status[r1]
    BY <1>3 DEF int_term_T
  <2>2. /\ r0 \in Register /\ r1 \in Register
        /\ (r0 \in pending /\ command[r1] = 0) \/ (r1 \in pending /\ command[r0] = 0)
    BY <2>1, OneHalfPending
  <2>3. Serve(r0)
    BY <1>3, <2>1, ServeSteps
  <2>4. r0 # r1
    OBVIOUS
  <2>5. ASSUME command'[r1] # 0
        PROVE  r1 \in pending' /\ status[r1] = status'[r1]
    <3>1. CASE command[r0] = 0
      <4>1. UNCHANGED <<command, status, pending>>
        BY <2>3, <3>1 DEF Serve, devVars
      <4>. QED
        BY <2>2, <2>5, <3>1, <4>1 DEF RegisterInv
    <3>2. CASE command[r0] # 0
      <4>1. WriteCommand(r0, CMD_ACK)
        BY <2>3, <3>2 DEF Serve
      <4>2. command'[r1] = command[r1]
        BY <2>2, <2>4, <4>1, WriteCommandRegisters
      <4>. QED
        BY <2>2, <2>5, <3>2, <4>2
    <3>. QED
      BY <3>1, <3>2
  <2>. QED
    BY <2>1, <2>5 DEF ReceiverInv
<1>4. ASSUME NEW r \in Register, DeviceDone(r), UNCHANGED <<instance, status_r>>, status_r' # NULL
      PROVE  ReceiverInv'
  <2>. DEFINE r1 == <<INT_TERMINAL, Min(instance), 1>>
  <2>1. /\ command' = command /\ pending' = pending \cup {r}
        /\ status[r] = "busy" /\ \A q \in Register \ {r} : status'[q] = status[q]
    BY <1>4, DeviceDoneRegisters
  <2>2. ASSUME command'[r1] # 0
        PROVE  r1 \in pending' /\ status_r' = status'[r1]
    <3>1. r1 \in pending /\ status_r = status[r1]
      BY <1>4, <2>1, <2>2 DEF ReceiverInv
    <3>2. r1 # r
      BY <2>1, <3>1 DEF RegisterInv
    <3>. QED
      BY <1>0, <1>4, <2>1, <3>1, <3>2
  <2>. QED
    BY <1>4, <2>2 DEF ReceiverInv
<1>. QED
  BY <1>1, <1>2, <1>3, <1>4, StatusRead

(* The register that is served has asked for it, if it is looked at at all. *)
LEMMA ServedPending ==
  ASSUME OneHalfUsed, IOTypeInv, RegisterInv, BitmapInv, UseInv, ReceiverInv,
         serveDevice \/ int_term_T \/ int_term_R, command[served] # 0
  PROVE  served \in pending
<1>1. instance # {} /\ Min(instance) \in instance
  BY HandlerServes, FirstInstance
<1>2. CASE serveDevice
  <2>1. line \in INT_DISK .. INT_PRINTER /\ status_r = NULL
    BY <1>2 DEF serveDevice, IOTypeInv, HandlerInv, INT_DISK, INT_PRINTER, INT_TERMINAL
  <2>. QED
    BY <1>1, <2>1 DEF BitmapInv, served
<1>3. CASE int_term_T
  BY <1>1, <1>3, OneHalfPending DEF int_term_T, served
<1>4. CASE int_term_R
  BY <1>4 DEF int_term_R, served, ReceiverInv
<1>. QED
  BY <1>2, <1>3, <1>4

LEMMA NextUseInv ==
  ASSUME OneHalfUsed, ListInv, SemaphoreCount, IOTypeInv, RegisterInv, BitmapInv, OrderlyInv,
         orderly, [IONext]_<<vars, ioVars>>
  PROVE  UseInv'
<1>0. UseInv /\ ReceiverInv /\ SparedInv
  BY DEF OrderlyInv
<1>1. CASE UNCHANGED <<semval, s_procQ, command, status, pending>>
  BY <1>0, <1>1 DEF UseInv, semaphore
<1>2. CASE NucleusStep
  BY <1>0, <1>2, NucleusUse
<1>3. CASE interrupt_H \/ checkLine \/ intDone \/ UNCHANGED <<vars, ioVars>>
  BY <1>1, <1>3 DEF interrupt_H, checkLine, intDone, vars, aslVars, ioVars, devVars
<1>4. CASE serveDevice \/ int_term_T \/ int_term_R
  <2>1. served \in Register /\ Serve(served)
    BY <1>4, HandlerServes
  <2>2. command[served] # 0 => served \in pending
    BY <1>0, <1>4, ServedPending
  <2>. QED
    BY <1>0, <2>1, <2>2, ServeUse
<1>5. ASSUME NEW r \in Register, waitio(r) PROVE UseInv'
  BY <1>0, <1>5, WaitioUse
<1>6. ASSUME NEW r \in Register, DeviceDone(r) PROVE UseInv'
  <2>1. /\ command' = command /\ pending' = pending \cup {r} /\ UNCHANGED <<semval, s_procQ>>
        /\ status[r] = "busy" /\ \A q \in Register \ {r} : status'[q] = status[q]
    BY <1>6, DeviceDoneRegisters DEF DeviceDone, vars, aslVars
  <2>2. ASSUME NEW q \in Register
        PROVE  (status'[q] = "busy" \/ q \in pending') <=> (status[q] = "busy" \/ q \in pending)
    BY <2>1
  <2>. QED
    BY <1>0, <2>1, <2>2 DEF UseInv, semaphore
<1>. QED
  BY <1>2, <1>3, <1>4, <1>5, <1>6 DEF IONext, IntStep

LEMMA OrderlyKept ==
  ASSUME [IONext]_<<vars, ioVars>>
  PROVE  orderly' = orderly
  BY DEF IONext, NucleusStep, IntStep, ioVars, interrupt_H, checkLine, serveDevice, int_term_T,
         int_term_R, intDone, waitio, DeviceDone

LEMMA NextIOInv ==
  ASSUME ~ KillsOwnAncestry, OneHalfUsed, ListInv, SemaphoreCount, IOInv,
         [IONext]_<<vars, ioVars>>
  PROVE  IOInv'
<1>1. ListInv'
  BY IOStep, DeviceStepIsStep, NextListInv DEF IOInv
<1>2. IOTypeInv'
  BY NextIOTypeInv DEF IOInv, ListInv
<1>3. RegisterInv' /\ BitmapInv'
  BY <1>2, NextRegisterInv, NextBitmapInv DEF IOInv
<1>4. ASSUME orderly'
      PROVE  OrderlyInv'
  <2>1. orderly /\ OrderlyInv
    BY <1>4, OrderlyKept DEF IOInv
  <2>. QED
    BY <1>1, <1>2, <2>1, NextUseInv, NextReceiverInv, NextSparedInv DEF IOInv, OrderlyInv
<1>. QED
  BY <1>2, <1>3, <1>4 DEF IOInv

------------------------------------------------------------------------------
LEMMA InitSemaphoreCount == Init => SemaphoreCount
<1>1. \A n \in 0 .. SemBound : ~ (n < 0)
  BY NucleusAssumption
<1>. QED
  BY <1>1 DEF Init, initASL, SemaphoreCount

LEMMA IOInitIsInit == IOInit => Init
  BY DEF IOInit

(* What the nucleus keeps by itself it keeps with devices too.              *)
LEMMA AlwaysLife ==
  ASSUME ~ KillsOwnAncestry
  PROVE  IOSpec => [](LifeInv /\ SemaphoreCount /\ IOTypeInv)
<1>. DEFINE Inv == LifeInv /\ SemaphoreCount /\ IOTypeInv
<1>1. IOInit => Inv
  BY IOInitIsInit, InitLifeInv, InitSemaphoreCount, InitIOInv DEF IOInv
<1>2. Inv /\ [IONext]_<<vars, ioVars>> => Inv'
  <2>. SUFFICES ASSUME Inv, [IONext]_<<vars, ioVars>> PROVE Inv'
    OBVIOUS
  <2>1. ListInv /\ TypeInv /\ [Step]_vars
    BY IOStep, DeviceStepIsStep DEF LifeInv, FamilyInv, CountedInv, ListInv
  <2>. QED
    BY <2>1, NextLifeInv, NextSemaphoreCount, NextIOTypeInv
<1>. QED
  BY <1>1, <1>2, PTL DEF IOSpec

LEMMA AlwaysIOInv ==
  ASSUME ~ KillsOwnAncestry, OneHalfUsed
  PROVE  IOSpec => [](LifeInv /\ SemaphoreCount /\ IOInv)
<1>1. IOInit => IOInv
  BY InitIOInv
<1>2. LifeInv /\ SemaphoreCount /\ IOInv /\ [IONext]_<<vars, ioVars>> => IOInv'
  BY NextIOInv DEF LifeInv, FamilyInv, CountedInv
<1>. QED
  BY <1>1, <1>2, AlwaysLife, PTL DEF IOSpec

(* The registers, the bitmap the handler has copied and the answers of      *)
(* WAITIO have their types, whatever processes do.                          *)
THEOREM IOTypeCorrect == IOSpec => []IOTypeOK
<1>1. IOInit => TypeInv /\ IOTypeInv
  BY IOInitIsInit, InitTypeInv, InitIOInv DEF IOInv
<1>2. TypeInv /\ IOTypeInv /\ [IONext]_<<vars, ioVars>> => TypeInv' /\ IOTypeInv'
  BY IOStep, DeviceStepIsStep, NextTypeInv, NextIOTypeInv
<1>3. IOTypeInv => IOTypeOK
  BY DEF IOTypeInv
<1>. QED
  BY <1>1, <1>2, <1>3, PTL DEF IOSpec

(* The handler, which wakes processes between the steps of others, keeps    *)
(* every PCB on exactly one list, the counts of waiters, the place of the   *)
(* running process and the count of processes: for terminals with both      *)
(* halves in use and for processes that are not orderly too.                *)
THEOREM DevicesKeepLists ==
  ASSUME ~ KillsOwnAncestry
  PROVE  IOSpec => [](ListDiscipline /\ SemaphoreCount /\ RunningIsReady /\ HaltOnlyWhenDone)
<1>1. LifeInv => ListDiscipline /\ RunningIsReady /\ HaltOnlyWhenDone
  BY QueueInvIsListDiscipline DEF LifeInv, FamilyInv, CountedInv, ListInv
<1>. QED
  BY <1>1, AlwaysLife, PTL

(* No completion is lost and none wakes anybody twice, for any devices, if  *)
(* orderly processes use one half of each terminal.                         *)
THEOREM OneWaiterEach ==
  ASSUME ~ KillsOwnAncestry, OneHalfUsed
  PROVE  IOSpec => []OneWaiterPerOperation
<1>1. IOInv => OneWaiterPerOperation
  BY DEF IOInv, OrderlyInv, UseInv, OneWaiterPerOperation
<1>. QED
  BY <1>1, AlwaysIOInv, PTL

(* The semaphore of a device never has a unit left for WAITIO to take.      *)
THEOREM WaitioAlwaysBlocks ==
  ASSUME ~ KillsOwnAncestry, OneHalfUsed
  PROVE  IOSpec => []OrderlyBlock
<1>1. IOInv => OrderlyBlock
  BY DEF IOInv, OrderlyInv, UseInv, OrderlyBlock, WaitioBlocks, DeviceKey
<1>. QED
  BY <1>1, AlwaysIOInv, PTL

LEMMA ServeWakesOwn ==
  ASSUME OneHalfUsed, ListInv, IOInv, orderly, NEW r \in Register, NEW p \in PCB,
         p_semkey[p] = semaphore(r), p_semkey'[p] = NULL,
         serveDevice \/ int_term_T \/ int_term_R
  PROVE  r = served /\ r \in pending /\ command[r] # 0 /\ headBlocked(semaphore(r)) = p
<1>0. /\ semaphore(r) \in Key /\ NULL \notin Key /\ p_semkey \in [PCB -> Key \cup {NULL}]
      /\ served \in Register /\ Serve(served) /\ semaphore(served) \in Key
  <2>1. served \in Register /\ Serve(served)
    BY HandlerServes DEF IOInv
  <2>. QED
    BY <2>1, Semaphores, TableAssumption DEF ListInv, TypeInv, TypeOK, AslTypeOK
<1>1. command[served] # 0
  BY <1>0 DEF Serve, vars, aslVars
<1>2. served \in pending
  BY <1>1, ServedPending DEF IOInv, OrderlyInv
<1>3. removeBlocked(semaphore(served))
  BY <1>0, <1>1 DEF Serve, Wake
<1>4. headBlocked(semaphore(served)) # NULL
  BY <1>0, <1>3 DEF removeBlocked, aslVars
<1>. DEFINE h == headBlocked(semaphore(served))
<1>5. h \in PCB /\ p_semkey[h] = semaphore(served) /\ unblock(semaphore(served), h)
  BY <1>0, <1>3, <1>4, RemoveBlockedQueues DEF ListInv, TypeInv, QueueInv
<1>6. p = h
  BY <1>0, <1>5 DEF unblock
<1>7. r = served
  BY <1>0, <1>5, <1>6, Semaphores
<1>. QED
  BY <1>1, <1>2, <1>6, <1>7

LEMMA AnsweredWithStatus ==
  ASSUME NULL \notin PCB, NEW k, NEW ACTION stat, outProc(k, stat), headBlocked(k) \in PCB,
         reg_v0 \in [PCB -> Status \cup {NULL}]
  PROVE  reg_v0'[headBlocked(k)] = stat
  BY DEF outProc

LEMMA StepWakes ==
  ASSUME OneHalfUsed, ListInv, ListInv', IOInv, [IONext]_<<vars, ioVars>>, orderly,
         NEW r \in Register, NEW p \in PCB, p_semkey[p] = semaphore(r), p_semkey'[p] = NULL
  PROVE  r \in pending /\ (r[1] = INT_TERMINAL => reg_v0'[p] = status[r])
<1>0. /\ semaphore(r) \in Key /\ semaphore(r) \in DeviceKey /\ NULL \notin Key /\ NULL \notin PCB
      /\ p_semkey \in [PCB -> Key \cup {NULL}] /\ reg_v0 \in [PCB -> Status \cup {NULL}]
  BY Semaphores, TableAssumption DEF ListInv, TypeInv, TypeOK, AslTypeOK, IOInv, IOTypeInv, IOTypeOK
<1>1. p_semkey' # p_semkey
  BY <1>0
<1>2. ~ NucleusStep
  BY <1>0, NucleusWaiters DEF IOInv, OrderlyInv
<1>3. ~ (interrupt_H \/ checkLine \/ intDone \/ UNCHANGED <<vars, ioVars>>)
  BY <1>1 DEF interrupt_H, checkLine, intDone, vars, aslVars
<1>4. ASSUME NEW q \in Register PROVE ~ DeviceDone(q)
  BY <1>1 DEF DeviceDone, vars, aslVars
<1>5. ASSUME NEW q \in Register, waitio(q) PROVE FALSE
  <2>1. sem_num(q) \in Key /\ passeren(sem_num(q))
    BY <1>5, Semaphores DEF waitio
  <2>2. insertBlocked(sem_num(q), selected)
    BY <1>1, <2>1 DEF passeren, aslVars
  <2>3. p_semkey' = [p_semkey EXCEPT ![selected] = sem_num(q)]
    BY <1>1, <2>2 DEF insertBlocked, aslVars
  <2>. QED
    BY <1>0, <2>1, <2>3
<1>6. CASE serveDevice \/ int_term_T \/ int_term_R
  <2>1. r = served /\ r \in pending /\ command[r] # 0 /\ headBlocked(semaphore(r)) = p
    BY <1>6, ServeWakesOwn
  <2>2. ASSUME serveDevice PROVE r[1] # INT_TERMINAL
    BY <2>1, <2>2 DEF serveDevice, served, INT_DISK, INT_PRINTER, INT_TERMINAL
  <2>3. ASSUME int_term_T PROVE outProc(semaphore(r), status[r])
    BY <2>1, <2>3 DEF int_term_T, served
  <2>4. ASSUME int_term_R PROVE outProc(semaphore(r), status[r])
    <3>1. status_r = status[r] /\ r = <<line, Min(instance), 1>> /\ line = INT_TERMINAL
      BY <2>1, <2>4 DEF int_term_R, served, IOInv, OrderlyInv, ReceiverInv
    <3>. QED
      BY <2>1, <2>4, <3>1 DEF int_term_R
  <2>. QED
    BY <1>0, <1>6, <2>1, <2>2, <2>3, <2>4, AnsweredWithStatus
<1>. QED
  BY <1>2, <1>3, <1>4, <1>5, <1>6 DEF IONext, IntStep

(* A process is woken by the end of its own operation, and int_term hands   *)
(* it the status of that very operation although the device may get ready   *)
(* at any point of the handler.                                             *)
THEOREM WokenByOwnCompletion ==
  ASSUME ~ KillsOwnAncestry, OneHalfUsed
  PROVE  IOSpec => WokenByCompletion
<1>1. ASSUME LifeInv, LifeInv', IOInv, [IONext]_<<vars, ioVars>>,
             NEW r \in Register, NEW p \in PCB,
             orderly /\ p_semkey[p] = semaphore(r) /\ p_semkey'[p] = NULL
      PROVE  /\ r \in pending
             /\ r[1] = INT_TERMINAL => reg_v0'[p] = status[r]
  <2>1. ListInv /\ ListInv'
    BY <1>1 DEF LifeInv, FamilyInv, CountedInv
  <2>. QED
    BY <1>1, <2>1, StepWakes
<1>2. LifeInv /\ LifeInv' /\ IOInv /\ [IONext]_<<vars, ioVars>> =>
        [\A r \in Register, p \in PCB :
           orderly /\ p_semkey[p] = semaphore(r) /\ p_semkey'[p] = NULL =>
             /\ r \in pending
             /\ r[1] = INT_TERMINAL => reg_v0'[p] = status[r]]_<<vars, ioVars>>
  BY <1>1
<1>. QED
  BY <1>2, AlwaysIOInv, PTL DEF IOSpec, WokenByCompletion
------------------------------------------------------------------------------
(* ProcessLife with devices does what it does without, and releases theirs. *)
LEMMA LifeWithDevices ==
  /\ Life!LifeInit => IOLife!LifeInit
  /\ Life!LifeNext => IOLife!LifeNext
  /\ \A k \in DeviceKey : Life!Release(k) => IOLife!LifeNext
  /\ Life!lifeVars = IOLife!lifeVars
<1>1. \A S : Life!Cardinality(S) = IOLife!Cardinality(S)
  BY DEF Life!Cardinality, IOLife!Cardinality
<1>2. Life!alive = IOLife!alive
  BY DEF Life!alive, IOLife!alive
<1>3. \A p : /\ Life!Ready(p) <=> IOLife!Ready(p)
             /\ Life!Offspring(p) = IOLife!Offspring(p)
  BY <1>2 DEF Life!Ready, IOLife!Ready, Life!Offspring, IOLife!Offspring
<1>4. ASSUME NEW p, NEW q, Life!Create(p, q) PROVE IOLife!Create(p, q)
  BY <1>2, <1>3, <1>4 DEF Life!Create, IOLife!Create
<1>5. ASSUME NEW p, NEW q, Life!Terminate(p, q) PROVE IOLife!Terminate(p, q)
  BY <1>1, <1>2, <1>3, <1>5 DEF Life!Terminate, IOLife!Terminate
<1>6. ASSUME NEW k, Life!Release(k) PROVE IOLife!Release(k)
  BY <1>6 DEF Life!Release, IOLife!Release
<1>7. ASSUME NEW p, NEW k, Life!V(p, k) PROVE IOLife!V(p, k)
  BY <1>3, <1>6, <1>7 DEF Life!V, IOLife!V
<1>8. ASSUME NEW p, NEW k, Life!P(p, k) PROVE IOLife!P(p, k)
  BY <1>3, <1>8 DEF Life!P, IOLife!P
<1>9. Life!LifeNext => IOLife!LifeNext
  BY <1>2, <1>4, <1>5, <1>7, <1>8 DEF Life!LifeNext, IOLife!LifeNext
<1>10. \A k \in DeviceKey : Life!Release(k) => IOLife!LifeNext
  BY <1>6 DEF IOLife!LifeNext
<1>11. Life!LifeInit => IOLife!LifeInit
  BY DEF Life!LifeInit, IOLife!LifeInit
<1>. QED
  BY <1>9, <1>10, <1>11 DEF Life!lifeVars, IOLife!lifeVars

(* Seen from the processes, the handler with all its steps is a V on the    *)
(* semaphore of each device it serves: for both halves of terminals, and    *)
(* when those who wait are terminated too.                                  *)
THEOREM DevicesImplementLife ==
  ASSUME ~ KillsOwnAncestry
  PROVE  IOSpec => IOImplementsLife
<1>1. IOInit => IOLife!LifeInit
  BY IOInitIsInit, InitLifeInv, InitImplements, LifeWithDevices
<1>2. LifeInv /\ LifeInv' /\ IOTypeInv /\ [IONext]_<<vars, ioVars>> =>
        [IOLife!LifeNext]_(IOLife!lifeVars)
  <2>. SUFFICES ASSUME LifeInv, LifeInv', IOTypeInv, [IONext]_<<vars, ioVars>>
                PROVE  [IOLife!LifeNext]_(IOLife!lifeVars)
    OBVIOUS
  <2>1. CASE [Next]_vars
    <3>1. Life!LifeNext \/ UNCHANGED Life!lifeVars
      BY <2>1, NextImplements
    <3>. QED
      BY <3>1, LifeWithDevices DEF Life!lifeVars, IOLife!lifeVars
  <2>2. ASSUME NEW k \in DeviceKey, Wake(k)
        PROVE  IOLife!LifeNext
    BY <2>2, UsedAssumption, WakeImplements, LifeWithDevices
  <2>. QED
    BY <2>1, <2>2, IOStep DEF DeviceStep
<1>. QED
  BY <1>1, <1>2, AlwaysLife, PTL DEF IOSpec, IOImplementsLife, IOLife!LifeSpec
==============================================================================
