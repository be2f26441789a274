-------------------------------- MODULE CpuTime --------------------------------
(****************************************************************************)
(* The accounting of CPU time: the cursor "time" of scheduler.c and the     *)
(* fields of a PCB that scheduling, syscall_H, interrupt_H, resume and      *)
(* GETCPUTIME charge it to.  Each handler reads the clock several times and *)
(* the clock runs on between two reads, so that there is a step per read.   *)
(* Which process is dispatched, and what else a handler does, is left open. *)
(****************************************************************************)
EXTENDS Integers, FiniteSets

CONSTANTS
  Process,
  first,     \* the process main starts
  NULL,
  W,         \* values of the clock, 2^32 in the code
  Start,     \* the clock when main creates the first process
  MaxTicks,  \* bound of the model: the machine runs for less than W
  Traps      \* are there exceptions with a handler?

ASSUME CpuTimeAssumption ==
  /\ first \in Process /\ NULL \notin Process
  /\ W \in Nat /\ Start \in 0 .. W - 1
  /\ MaxTicks \in 0 .. W - 1
  /\ Traps \in BOOLEAN

VARIABLES
  ticks,         \* clock ticks since main created the first process
  time,          \* the cursor: all before it has been charged
  at,            \* what the processor does
  selected,      \* the running process, NULL at the beginning
  live,
  initial_time, usr_time, sys_time,
  answer,        \* times GETCPUTIME returned last, by process
  spent          \* where the ticks went: user, handlers that charge, or traps

fields == <<initial_time, usr_time, sys_time>>
cpuVars == <<ticks, time, at, selected, live, fields, answer, spent>>

(* getTODLO().                                                              *)
TODLO == (Start + ticks) % W

Since(t) == (TODLO - t) % W

(* Faulty variant: an interval is a signed number, negative when the clock  *)
(* has overflowed in it.                                                    *)
Charged_signed(field) == [field EXCEPT ![selected] = @ + (TODLO - time)]

(* A field of the running process with the time since the cursor added, as  *)
(* unsigned numbers of the width of the clock.                              *)
Charged(field) == [field EXCEPT ![selected] = (@ + Since(time)) % W]

CpuTypeOK ==
  /\ ticks \in 0 .. MaxTicks
  /\ time \in 0 .. W - 1
  /\ at \in {"user", "entered", "kernel", "leaving", "dispatch", "trap"}
  /\ selected \in Process \cup {NULL}
  /\ live \subseteq Process
  /\ \A field \in {initial_time, usr_time, sys_time} : field \in [Process -> 0 .. W - 1]
  /\ answer \in [Process -> [user : 0 .. W - 1, wallclock : 0 .. W - 1]]

Nowhere == [user |-> 0, kernel |-> 0, trap |-> 0]

CpuInit ==
  /\ ticks = 0 /\ time = 0
  /\ at = "kernel" /\ selected = NULL
  /\ live = {first}
  /\ initial_time = [p \in Process |-> IF p = first THEN TODLO ELSE 0]
  /\ usr_time = [p \in Process |-> 0]
  /\ sys_time = [p \in Process |-> 0]
  /\ answer = [p \in Process |-> [user |-> 0, wallclock |-> 0]]
  /\ spent = [p \in Process |-> Nowhere]
------------------------------------------------------------------------------
(* Time goes by, between two reads of one handler too; those ticks are      *)
(* charged to nobody.                                                       *)
Tick ==
  /\ ticks < MaxTicks
  /\ ticks' = ticks + 1
  /\ spent' = IF selected = NULL \/ at \notin {"user", "kernel", "trap"} THEN spent
              ELSE [spent EXCEPT ![selected][at] = @ + 1]
  /\ UNCHANGED <<time, at, selected, live, fields, answer>>

(* A system call or an interrupt; the running process is charged.           *)
syscall_H ==
  /\ at = "user"
  /\ at' = "entered"
  /\ usr_time' = Charged(usr_time)
  /\ UNCHANGED <<ticks, time, selected, live, initial_time, sys_time, answer, spent>>

(* time = getTODLO(), after a charge.                                       *)
move_cursor(to) ==
  /\ at' = to
  /\ time' = TODLO
  /\ UNCHANGED <<ticks, selected, live, fields, answer, spent>>

entered == at = "entered" /\ move_cursor("kernel")

(* The end of a system call: resume, or the pass up of an unknown one.      *)
resume ==
  /\ at = "kernel"
  /\ selected \in live
  /\ at' = "leaving"
  /\ sys_time' = Charged(sys_time)
  /\ UNCHANGED <<ticks, time, selected, live, initial_time, usr_time, answer, spent>>

left == at = "leaving" /\ move_cursor("user")

(* Faulty variant: the time of the process that leaves goes to user time.   *)
scheduling_user ==
  /\ at = "kernel"
  /\ live # {}
  /\ at' = "dispatch"
  /\ usr_time' = IF selected # NULL THEN Charged(usr_time) ELSE usr_time
  /\ UNCHANGED <<ticks, time, selected, live, initial_time, sys_time, answer, spent>>

(* The process that leaves is charged, even one that has just died.         *)
scheduling ==
  /\ at = "kernel"
  /\ live # {}
  /\ at' = "dispatch"
  /\ sys_time' = IF selected # NULL /\ time # 0 THEN Charged(sys_time) ELSE sys_time
  /\ UNCHANGED <<ticks, time, selected, live, initial_time, usr_time, answer, spent>>

(* Faulty variant: the next process starts at the old cursor.               *)
dispatch_stale ==
  /\ at = "dispatch"
  /\ at' = "user"
  /\ selected' \in live
  /\ UNCHANGED <<ticks, time, live, fields, answer, spent>>

dispatch ==
  /\ at = "dispatch"
  /\ at' = "user"
  /\ time' = TODLO
  /\ selected' \in live
  /\ UNCHANGED <<ticks, live, fields, answer, spent>>
------------------------------------------------------------------------------
(* Faulty variant: total_time is not computed again.                        *)
get_cputime_stale ==
  /\ at = "kernel" /\ selected \in live
  /\ answer' = [answer EXCEPT ![selected].user = usr_time[selected]]
  /\ UNCHANGED <<ticks, time, at, selected, live, fields, spent>>

(* GETCPUTIME, up to its call of resume.                                    *)
get_cputime ==
  /\ at = "kernel" /\ selected \in live
  /\ answer' = [answer EXCEPT ![selected] =
                  [user |-> usr_time[selected], wallclock |-> Since(initial_time[selected])]]
  /\ UNCHANGED <<ticks, time, at, selected, live, fields, spent>>

(* Faulty variant: the times of the last process in the PCB stay.           *)
create_process_stale(p) ==
  /\ at = "kernel" /\ selected \in live
  /\ p \notin live
  /\ live' = live \cup {p}
  /\ initial_time' = [initial_time EXCEPT ![p] = TODLO]
  /\ answer' = [answer EXCEPT ![p] = [user |-> 0, wallclock |-> 0]]
  /\ spent' = [spent EXCEPT ![p] = Nowhere]
  /\ UNCHANGED <<ticks, time, at, selected, usr_time, sys_time>>

(* CREATEPROCESS: allocPcb clears the times of the PCB.                     *)
create_process(p) ==
  /\ at = "kernel" /\ selected \in live
  /\ p \notin live
  /\ live' = live \cup {p}
  /\ initial_time' = [initial_time EXCEPT ![p] = TODLO]
  /\ usr_time' = [usr_time EXCEPT ![p] = 0]
  /\ sys_time' = [sys_time EXCEPT ![p] = 0]
  /\ answer' = [answer EXCEPT ![p] = [user |-> 0, wallclock |-> 0]]
  /\ spent' = [spent EXCEPT ![p] = Nowhere]
  /\ UNCHANGED <<ticks, time, at, selected>>

(* TERMINATEPROCESS of p, which may be the running process, or of one      *)
(* more of its family.                                                      *)
term_process(p) ==
  /\ at = "kernel" /\ selected \in live
  /\ p \in live
  /\ live' = live \ {p}
  /\ UNCHANGED <<ticks, time, at, selected, fields, answer, spent>>

(* trap_H and tlb_H, and the end of theirs when there is a handler.         *)
trap_H ==
  /\ Traps
  /\ \/ at = "user" /\ at' = "trap"
     \/ at = "trap" /\ at' = "user"
  /\ UNCHANGED <<ticks, time, selected, live, fields, answer, spent>>

(* Without a handler the process dies of it; scheduling follows.            *)
trap_H_dies ==
  /\ Traps
  /\ at = "trap" /\ at' = "kernel"
  /\ live' = live \ {selected}
  /\ UNCHANGED <<ticks, time, selected, fields, answer, spent>>

(* HALT().                                                                  *)
Halted == live = {} /\ UNCHANGED cpuVars

CpuNext ==
  \/ Tick \/ syscall_H \/ entered \/ resume \/ left \/ scheduling \/ dispatch
  \/ get_cputime \/ trap_H \/ trap_H_dies \/ Halted
  \/ \E p \in Process : create_process(p) \/ term_process(p)

CpuSpec == CpuInit /\ [][CpuNext]_cpuVars
------------------------------------------------------------------------------
(* No process is charged for more time than has gone by since its creation, *)
(* whoever dies, is created in its PCB or is dispatched meanwhile, and      *)
(* though the clock overflows.                                              *)
WithinWallclock ==
  \A p \in live : usr_time[p] + sys_time[p] <= Since(initial_time[p])

(* "error: more cpu time than wallclock time" (p2test_bikaya_v0.2.c:340):   *)
(* between two GETCPUTIME of a process, no more user time than wallclock    *)
(* time is counted.                                                         *)
AnswersAgree ==
  [][\A p \in live \cap live' :
       answer'[p].user - answer[p].user <= answer'[p].wallclock - answer[p].wallclock]_cpuVars

(* The user time of a process is the time it ran, and that trap_H and tlb_H *)
(* took for it: neither the kernel's nor another process's.                 *)
UserTimeExact ==
  \A p \in live :
    usr_time[p] + (IF p = selected /\ at \in {"user", "trap"} THEN Since(time) ELSE 0)
      = spent[p].user + spent[p].trap

(* The kernel time of a process is the time the kernel took for it.  Less is *)
(* charged only once the clock may have read 0 when the cursor was set, at  *)
(* the very beginning or after an overflow, which scheduling takes for there *)
(* being no process yet.                                                    *)
KernelTimeExact ==
  \A p \in live :
    LET charged == sys_time[p] + (IF p = selected /\ at = "kernel" THEN Since(time) ELSE 0)
    IN  /\ charged <= spent[p].kernel
        /\ 0 < Start /\ Start + ticks < W => charged = spent[p].kernel
==============================================================================
