# A TLA+ model of the BiKaya nucleus

BiKaya is a teaching kernel for the uMPS2 (MIPS) and uARM (ARM) emulators. Its
nucleus is about 1000 lines of C: a table of 20 process control blocks (PCBs),
a list of semaphore descriptors, a priority scheduler with aging, eight system
calls, and handlers for exceptions and interrupts. These modules model it,
check it with TLC on small instances and prove part of it with TLAPS for every
instance.

## The system

| Component | State | Operations | Properties that make it correct |
|---|---|---|---|
| process queues, `pcb.c` | a doubly linked list through the field `link` of the PCBs | `insertProcQ` (by priority), `headProcQ`, `removeProcQ`, `outProcQ`, `getProc` | sorted, FIFO among equals, each PCB once |
| PCB table and process tree, `pcb.c` | `pcbFree`, `p_parent`, `p_child`, `p_sib` | `allocPcb`, `freePcb`, `insertChild`, `outChild` | a PCB is on one list; reused PCBs are clean; the tree is one family |
| active semaphore list, `asl.c` | `ASL`, `semdFree`, a queue per descriptor, `p_semkey` | `insertBlocked`, `removeBlocked`, `outBlocked`, `headBlocked`, `outChildBlocked` | descriptors are exactly those of semaphores with waiters; none leaks |
| scheduler, `scheduler.c` | `readyQueue`, `priority`, `original_priority`, `selected`, `n_proc` | `scheduling`, `aging`, `timing` | highest priority first, no starvation, bounded priorities, halts exactly when no process is left |
| system calls, `syscall.c` | the above, the users' semaphore integers, per-process handlers | `create_process`, `term_process`, `delete_ric`, `verhogen`, `passeren`, `waitio`, `specpassup`, `get_cputime`, `getpid` | a negative semaphore counts its waiters; termination takes a family and nobody else |
| TLB and trap handlers, `handler.c` | the handlers of the running process | `tlb_H`, `trap_H` | passed up to the process or fatal to it alone |
| interrupts, `interrupt.c` | pending lines, device registers, 48 device semaphores | `interrupt_H`, `int_term`, `outProc` | one wake-up per completed operation |
| CPU time, in three files | `usr_time`, `sys_time`, `total_time`, the cursor `time` | in every handler, `get_cputime` | each interval is charged once |
| start-up, `main.c` | | `main` | the nucleus starts consistent |
| lists, `include/listx.h` | `next`, `prev` | `list_add`, `list_del`, ... | stay doubly linked; implement sequences |
| terminal driver of phase 1, `termfunc.c` | the registers of terminal 0 | `term_puts`, `term_gets` | characters in order, none twice; calls return |
| phase 2 test, `p2test_bikaya_v0.2.c` | its semaphores and pids | `p1` to `p7` | its own checks hold under any scheduling; it ends |

How they interact. There is one processor, and a handler runs with interrupts
disabled from the exception to the `LDST` that ends it, so handlers never
interleave with each other; they share everything through global variables.
What interleaves is their order: which process makes which call, when the timer
fires, when a device completes. The process that runs (`selected`) stays on the
ready queue, back where its priority puts it; `passeren` and `delete_ric` take
it off from there. A PCB has a single `link`, used in turn by the free list, the
ready queue and the queue of a semaphore, so that a PCB put on one of them while
it is on another joins the two lists together.

What is hard here, and to test: long legal sequences of creations, blockings
and terminations, above all terminations of a family some of whose members are
blocked; the reuse of PCBs; aging, whose effects show only after many time
slices; the ends of the pools (PCBs, descriptors); a process naming itself or an
ancestor in TERMINATEPROCESS; devices, which are the one thing that goes on while
a handler runs: a completion between two registers the handler reads, a waiter
terminated before its operation ends, the two halves of a terminal that share one
interrupt bit; a clock that overflows and is read several times per handler.

## The modules

- `ProcQ`: the queue operations of `pcb.c` as operators on sequences of PCBs.
  No state.
- `Asl`: the variables of `asl.c` and its operations. A semaphore is a member of
  `Key` (the address of its integer). `asl` is the set of keys that own a
  descriptor; `semdFree` only counts the free ones, which are indistinguishable.
- `Scheduler`: the ready queue, the priorities, `selected`, `n_proc`; `scheduling(q)`
  is the body of `scheduling()` called with ready queue `q`. `mode` says
  what the machine is doing.
- `Nucleus` composes them: it adds the semaphore values, the free PCBs, the
  process tree, the specified handlers, and has one action per system call,
  exception and interrupt. The state machine is `Spec`.
- `TimeSlices` is `Nucleus` with its interval timer, the fairness it gives (`FairSpec`)
  and the liveness properties; it extends `NucleusLife`.
- `KernelIO` extends `Nucleus` with WAITIO, the device part of `interrupt_H`,
  `int_term` and `outProc`, and with the device registers as an external model.
- `ProcessLife` is the abstract specification: what the nucleus promises a process.
  `NucleusLife` and `KernelIOLife` are the refinement mappings that show `Nucleus` and
  `KernelIO` to implement it.
- `P2Test` is the phase 2 test as a client of `ProcessLife`.
- `Tables` says what `pcb.c` and `asl.c` promise their callers, with one action per
  function; `ListX` is `listx.h` on a heap of pointers, and `Lists` is `pcb.c` and
  `asl.c` over it, shown to implement `Tables`.
- `CpuTime` is the accounting of CPU time, `TermDriver` the polling driver of phase 1.
- Modules whose name begins with `MC` instantiate the others for TLC.
- `NucleusProofs`, `NucleusLifeProofs`, `KernelIOProofs` (each extends the one before it),
  `ListXProofs` and `ListsProofs`, which extends it, `CpuTimeProofs`, `TermDriverProofs` and
  `P2TestProofs`: lemmas and theorems. The lemmas about `ProcQ` and `Asl` are in `NucleusProofs`.

So there are two chains of refinement. From below, pointers (`Lists`) implement
the sequences and sets (`Tables`) that `Asl`, `Scheduler` and `Nucleus` are
written with. From above, `Nucleus` and `KernelIO` implement `ProcessLife`, over which
`P2Test` runs; the test is checked against what the nucleus promises, which
leaves out PCB tables, queues and dispatching and makes it small enough.

Operators whose comment calls them a *faulty variant* are not part of the
model: each is a plausible mistake in the definition that follows it, and
putting it in its place makes TLC report the property listed with it in
`PROJECT.json`.

### State and actions of `Nucleus`

| TLA+ | C |
|---|---|
| `mode` | `"user"`: a process runs; `"term"`: inside `term_process`; `"halt"`: `HALT()`; `"boot"`: `main` about to call `scheduling`; `"corrupt"`: a PCB was linked while on another list |
| `readyQueue`, `s_procQ[k]` | the lists, head first |
| `p_semkey[p]`, `p_parent[p]`, `priority[p]`... | the fields of PCB `p` |
| `p_child[p]` | the list of children, as a set: the sibling order only decides the order of deletion |
| `pcbFree` | the free list, as a set: any free PCB may be the next one |
| `semval[k]` | the integer at address `k` |
| `passup[p]` | the classes whose `*_old`/`*_new` fields are set |
| `doomed`, `victim`, `after` | the pending calls of `delete_ric`, the argument of `term_process`, and whether its caller goes on with `resume()` or `scheduling()` |
| `Boot`, `create_process`, `TerminateSelf`, `TerminatePid`, `verhogen`, `passeren`, `specpassup` | the call of `scheduling` in `main` and the cases of `syscall_H` |
| `delete_ric(p)`, `TermDone` | one call of the recursion; the rest of `term_process` after it |
| `UnknownSyscall`, `tlb_H`, `trap_H` | the exceptions that are passed up or fatal |
| `TimerInterrupt` | `interrupt_H` when only the timer line is pending |

Each handler is one action, since nothing runs between its steps. The exception
is `term_process`, whose recursion is unfolded into one step per PCB: this
replaces recursion over the tree by a worklist (`doomed`) whose order is left
open, and shows the lists consistent in the middle of a termination too.

Left out of `Nucleus`: the saved processor states and with them the values
returned in `reg_v0`; the times and the devices, which have modules of their own.
A process may V and P any semaphore at any time, but does not write to its
integer otherwise. It passes both areas to SPECPASSUP. `KillsOwnAncestry = FALSE`
says that processes name neither themselves nor an ancestor in
TERMINATEPROCESS: the code does not check, and what happens then is finding 3.

### State and actions of the other modules

`KernelIO`. A device register is `<<line, device, subdevice>>`; `sem_num` is the
position WAITIO counts its way to in `struct semdev`, `semaphore` the array element
the interrupt handler names, and they agree on every register there is.
`line` and `instance` are the program counter of `interrupt_H`: the line it is at, and
what is left of its copy of that line's bitmap. Each of `checkLine`, `serveDevice`
(one turn of a loop), `int_term_T`, `int_term_R` and `intDone` (the call of
`scheduling`) is one step, and `DeviceDone` may happen between any two.
`status_r` is the status of the receiver that `int_term` has read before it serves
the transmitter. The device is an external model: it starts an operation on
any command but the acknowledgement, hears nothing while busy, ends with `"done"`
or `"error"`, and an acknowledgement makes it ready and withdraws its interrupt.
`CMD_TRANSMIT` stands for every command that starts an operation; resets are left out.

What WAITIO does not check of its callers, and the phase 2 test keeps to, is `orderly`,
a variable chosen in the initial state and never changed: processes leave a device alone
while somebody waits for it, use one half of each terminal (the constant `Used`) and
terminate nobody who waits for a device. The properties about single completions hold if
`orderly`; the others, that lists stay disciplined and that `ProcessLife` is implemented,
hold of processes that do as they like too (on the registers `Misused`, a bound of the
model). What else goes wrong without it is said below.

`ProcessLife`. `ancestors` maps each live process to its ancestors; `value` is the value
of each semaphore, `waiting` the set of processes that wait for it, and `ahead` the
pairs of waiting processes the first of which came first. A termination is one step. The
mapping in `NucleusLife` therefore counts the processes `delete_ric` has still to reach
(`condemned`) as dead from the moment `term_process` is called, and as having given back
their units; it reads `waiting` off `p_semkey` and `ahead` off the queues. The interrupt
handler's V is `Release`.

`P2Test`. A C function is a program, a sequence of instructions: `P`, `V`,
`create`, `kill`, `exit`, `specpassup`, `exception`, `waitio`, `assert` (a test with an
error message or PANIC behind it), `panic` (code that must not be reached),
assignments and jumps; `created` and `killed` are a `create` and a `kill` whose result
the program tests. `<<"print">>` is a call of the function `print`: the P of `term_mut`, the
WAITIO, its two checks of the status and the V; `line` counts those a caller has
executed. The two checks are one: `answer` is whose character the status names, and
must be the caller's own. `Waitio` gives a command to the terminal, which hears none while
it is busy, and does a P on its semaphore; `Transmitted` is the interrupt. A P that does
not block leaves no answer, so that a WAITIO that returned early would fail the check. A message is one
character, and the terminal does not fail. `create` fails when no name is free; only
`p1` looks at the result, of `p7root`. A kill of a pid that names nobody fails, too. `sstat_o`
is the register of the old area that the handler `p4sys` finds the code of the system call in.
The elements of `s[]`, which are used alike, are one. `p4`'s bad access is taken to
raise the exception the test expects (`EXC_BUSINVFETCH`). The checks `p2` makes of CPU
times are not in its program (see below). `Mute` is no code but a device of the model.
A `Scenario` says where `p1`
starts, how often `p7` is created and whose messages are left out; a run that starts at
`p7loop` starts with the semaphores and pids an incarnation of `p7` leaves behind.

`Tables`, `Lists`. The variables of `Lists` are the fields `next` and `prev` of every
`list_head` (`heap`) and the other fields of the PCBs and descriptors. The guards
of the actions say when `syscall.c` and `scheduler.c` call the functions: `Held`
is a PCB a handler has taken off a queue, or just allocated. Every function is one
action but `outProcQ`, whose loop takes one step per element, and a call of
`outChildBlocked` is one for its whole recursion: `evicted` is the set of processes it reaches, as
the least set closed under its rule, and they leave their queues in any order, which decides
only the order in which descriptors are freed. `getProc`, `headProcQ` and
`headBlocked` change nothing and are read off the lists. `outChildBlocked`, which nothing
calls, is there too. `scope`, chosen in the initial state, says which of the
semaphores, priorities and PCBs of an instance are made use of, so that one run has several
small instances rather than their product.

`CpuTime`. `at` is the place in a handler: charges and moves of the cursor are
steps of their own (`syscall_H` and `entered`, `resume` and `left`, `scheduling` and
`dispatch`), so that the clock may tick between two reads; such ticks are charged
to nobody, in the model as in the code. `spent` is the truth the fields are
compared with. Which process is dispatched is left open; idle is a process that
makes no call.

`TermDriver`. `term_puts` and `term_gets` up to their loops, one step per test of
a status register, and the two halves of the terminal (`Transmit`, `Receive`). The buffer has the
byte that ends the line: `term_gets(str, n)` stores up to `n` characters and a '\0' behind
them, so that its callers must give it `n + 1` bytes.

## Runs

| Run | Bounds | Shows |
|---|---|---|
| `nucleus` | 3 processes and idle, 2 semaphores, priorities 1 and 3, two handler classes, one failed create | lists, semaphores, descriptors, ready queue and aging stay consistent; reused PCBs are clean |
| `family` | 4 processes and idle, 1 semaphore, one priority | terminations take exactly a family; the machine halts exactly when it should |
| `liveness` | as `nucleus` with one semaphore and no handlers, no symmetry | no starvation, of processes that others keep from being reached by P and V either; terminations end; `Nucleus` implements `ProcessLife` |
| `kernel_io` | 2 processes and idle, a printer and two terminals | every completion wakes its process once, and WAITIO is answered; WAITIO and interrupts are Ps and Vs of `ProcessLife`, devices shared and waiters terminated included |
| `p2_test` | 13 names of processes; `p1` to `p6` with their messages; one incarnation of `p7` that finds what another one left, without messages | the test's own checks but those on CPU times, the lock of the terminal, pids, termination |
| `lists` | 3 PCBs: trees of processes blocked on one semaphore; 2 semaphores; the ready queue with a semaphore; the ready queue with 2 priorities | lists stay linked; `outProcQ` ends; `Lists` implements `Tables` |
| `cpu_time` | 2 PCBs, a clock of 8 values that overflows, 4 ticks, exceptions with handlers | user time is exact, kernel time is until the clock overflows, both are within wallclock time |
| `term_driver` | strings and lines of up to 2 characters out of 3 | order, length, return |
| `idle_priority` | priority 0 allowed | finding 1 |
| `failed_create` | one create with no PCB left | finding 2 |
| `kill_ancestor` | `KillsOwnAncestry = TRUE` | finding 3 |
| `io_terminate` | a printer, `orderly` or not | finding 4 |

Why these bounds are enough to be interesting: three processes and two
semaphores let one be deleted from the middle of a queue while others wait on
both sides or elsewhere, let PCBs be reused and the PCB table run out; four
processes give a family with a chain and a branch at once. Two priorities
two apart make aging overtake. `SemBound` only stops processes from V-ing a
semaphore for ever; negative values are bounded by the number of processes.
The run `nucleus` has an unbounded model otherwise: that TLC ends at all shows
priorities to be bounded. `MaxFailedCreates` bounds how often `n_proc` may drift.

In `kernel_io` two terminals and a printer let one interrupt find completions on
several lines and on two devices of one line, and others happen behind and
ahead of the handler. Processes that are not orderly use both halves of one terminal.
The 13 names of processes of `p2_test` are the fewest with which no `create` of the
test fails under any scheduling, however many incarnations of `p7` there are: 12 may be alive
when one is called (see `P2TestProofs`); the code has 19. In the code `p7` goes on while `p5` and
`p6` die, which share nothing with it but the lock of the terminal; its scenario starts when
they are dead. What an incarnation of `p7` leaves behind was taken from a run of two
incarnations, all executions of which end in these semaphores; the four incarnations of
the code differ only in the pids left. The pointers of a list operation reach two
neighbours, so that three PCBs have every case of first, middle and last; a queue of
three on a semaphore uses the same list operations as the ready queue. A clock of 8
values overflows within the ticks allowed. The bound on ticks also says that no
interval and no process is longer than the range of the clock; in the code that is
2^32 ticks.

Symmetry is used where no liveness property is checked: created processes and
semaphores are interchangeable, since `create_process` takes any free PCB.

### Fairness

Nothing is assumed of the processes: they may never make a call, or only calls that
hand the processor to each other.

`TimeSlices` assumes that the stay of a process is bounded (`BoundedStay`), not that the timer
interrupts anybody. `scheduling` loads the timer on every dispatch (`scheduler.c:33`), and the
load acknowledges an interrupt that is pending; so two processes that P and V each
other within a slice are never interrupted, and only the aging that comes with each
dispatch brings the others to the processor. What the code does give is that the next
dispatch comes: if no call dispatches before, nothing reloads the timer, which runs
out, and its interrupt stays pending while other handlers run. Hence `BoundedStay` is strong
fairness of `Dispatch`, the union of all the handlers that end in `scheduling()`: the start,
the timer, a P that blocks, the end of a termination. It is strong, since a termination
disables them for a moment, and an endless series of terminations must not put the
timer off for ever. `timing` records a dispatch that leaves the variables of `Nucleus` as they are,
which would otherwise count as none. `delete_ric`, `TermDone` and `Boot` are weakly fair: a
handler, once entered, runs on.

`KernelIO`: an operation of a device ends (weak fairness of `DeviceDone`); the handler,
once entered, runs on; `interrupt_H` with a device interrupt pending is strongly fair: no
dispatch acknowledges a device, so its interrupt stays pending while handlers run and is taken
once a process does. The timer alone is assumed to interrupt nobody.

`P2Test`: somebody goes on while somebody can, be it a
process or the terminal; since its steps form no cycle no more is needed, and any
scheduler that halts only when nothing is ready gives it. `Lists` needs none:
`OutProcQStaysOnQueue` says that the loop of `outProcQ` always stands on an element of a
list that nobody else changes and no step makes longer. `TermDriver`: the driver and the
terminal go on.

## What disagrees with the documentation

1. `README.md:105` says the scheduler's queue head is the process of highest
   priority. `create_process` accepts any `p_value`. A process of priority 0
   or less goes behind idle, which never ages; it ages there in vain, behind
   a head of lower priority, and starves (`idle_priority`).
2. `README.md:110` says the machine halts when no processes are left.
   `create_process` increments `n_proc` before it knows whether there is a PCB
   (`syscall.c:122-123`); after one failure `n_proc` never returns to 0, and idle runs
   for ever (`failed_create`).
3. `syscall.c:149-150` says SYS3 removes the process and its progeny from the
   processes that are ready. With the caller's own pid, or that of an ancestor, it
   frees the caller's PCB and then resumes it (`kill_ancestor`). From then on
   a P that blocks it links its PCB into two lists.
4. `syscall.c:259-260` says WAITIO blocks its caller. When a waiter is terminated
   `delete_ric` gives back its unit, and the completion gives back another one
   (`interrupt.c:144`); the next WAITIO returns before its operation is done (`io_terminate`).

Other disagreements, read off the models but without a run of their own:

- `README.md:126-128` says an interrupt wakes the process that asked for the
  operation. A terminal has one interrupt bit for its two halves, and `int_term` serves
  each half whose command register is not 0, which it never is again after its first
  use (`interrupt.c:125`): a half that is still busy is acknowledged, in vain, and its
  waiter woken. Hence `Used` has one half of each terminal.
- `interrupt.c:149-150` says WAITIO returns the status of the operation. For all devices
  but terminals the status is read after the acknowledgement (`interrupt.c:46`) and is
  that of an idle device; `WokenByCompletion` is about terminals alone.
- A command of 0 is a reset (`termfunc.c:9`), but for the handler "no command"
  (`interrupt.c:43`): the process that gives it would never be woken. Resets are left out.
- `waitio` does not wait for the device to be free (`syscall.c:247`). A second
  command is not heard and its process may wait for ever. The callers in the
  repository hold a lock; `LockConserved` is about it, and `orderly` assumes it.
- `asl.c:142-144` says `outChildBlocked` unblocks all descendants of a process. It
  stops at the first one that is not blocked, as `evicted` does. Nothing calls it.
- `scheduler.c:14-15` takes a cursor of 0 to say that no process has run yet. The
  clock reads 0 when it overflows, or if it starts there, and kernel time is lost:
  `KernelTimeExact` asks for equality only if neither can have happened.
- `syscall.c:110-111` separates user from kernel time. `trap_H` and `tlb_H` do not
  move the cursor (`handler.c:60`), so that their time is user time, which `UserTimeExact`
  counts with it.

## Proofs

Three hypotheses occur below; everything else is proved for any constants that satisfy the
assumptions of the modules.

- `~ KillsOwnAncestry`: no process names itself or an ancestor in TERMINATEPROCESS (it may
  terminate itself with pid 0). The run `kill_ancestor` refutes `DeadDoNotRun`
  without it.
- `PrioritiesAboveIdle`: CREATEPROCESS is given priorities above 0. The run
  `idle_priority` shows what happens without it. `create_process` checks neither.
- `OneHalfUsed`: of each terminal orderly processes use the transmitter or the receiver, not
  both. Without it `int_term` wakes the waiter of a half that is still busy (see above).
  The instance of `kernel_io` satisfies it, with one terminal of each kind.

### `NucleusProofs`: queues and descriptors

The first part states what `insertProcQ` and `outProcQ` return element by element
(the position is a least one, which rests on the well-foundedness of `<` on the
naturals), and from that which PCBs a queue holds afterwards and that it holds
each once. It then shows that `insertBlocked`, `removeBlocked` and `outBlocked`
keep `AslInv` (types and the balance of the descriptors) and `BlockedOnKey` (a
process is queued on the semaphore its `p_semkey` names and on no other).

### `NucleusProofs`: types and lists

Whatever processes do, kills of their own ancestry included:

- `TypeCorrect`: `Spec => []TypeOK`;
- `DescriptorsAccounted`: `Spec => []SemdAccounting`.

`TypeOK` is not inductive: `semdFree` stays within `0 .. MAXPROC` only because
the descriptors balance, and the queues stay sequences of PCBs only because a
process is selected whenever a call is made. `TypeInv` adds both.

If `~ KillsOwnAncestry`:

- `ListsDisciplined`: `Spec => []ListDiscipline`;
- `RunningStaysReady`: `Spec => []RunningIsReady`;
- `TerminationStaysInFamily`: `Spec => OnlyFamilyDies`;
- `OnlyTheLiveRun`: `Spec => []DeadDoNotRun`, so that finding 3 has no other cause;
- `SemaphoresCount`: `Spec => []SemaphoreCount`.

The inductive invariant is `ListInv`, of three parts. `TypeInv` is as
above. `QueueInv` relates the ready queue, the free list and the semaphore queues,
and says that the process a termination will return to is ready and outside the
family being deleted. `TreeInv` is what makes the recursion of `delete_ric` safe:
the live processes form a forest, shown by a rank that grows from parent to child;
the only freed PCB a live process may still have as a child is the victim, until
`term_process` takes it off; and every PCB still to be deleted is live, belongs to the
family, hangs from a PCB deleted already, and ranks no lower than the victim. The
last point is needed because otherwise the walk might come back to the victim and
free it twice. The rank is an existential witness of the proof, not a variable of
the model: `create_process` extends it at the new PCB, and no other step changes it.

One point of the argument that is easily overlooked: `passeren` ignores the
result of `insertBlocked`, which does nothing when the descriptors have run out.
`DescriptorLeft` shows why that never happens: each descriptor in use has a first
waiter of its own, the caller waits on none, and there are as many descriptors as
PCBs.

### `NucleusProofs`: order, aging, idle, halting

If `~ KillsOwnAncestry`:

- `HaltsOnlyWhenDone`: `Spec => []HaltOnlyWhenDone`;

and with `PrioritiesAboveIdle`:

- `ReadyStaysSorted`: `Spec => []ReadySorted`;
- `AgingIsBounded`: `Spec => []BoundedAging`;
- `IdleRunsAlone`: `Spec => []IdleOnlyAlone`;
- `IdleWaitsForSomebody`: `Spec => []HaltsWhenDone`, if moreover no CREATEPROCESS ever
  fails (`MaxFailedCreates = 0`). The run `failed_create` refutes it when one does.

`CountedInv` adds to `ListInv` that idle is always ready, in nobody's family and never
ages (`IdleInv`), and that `n_proc` exceeds the number of processes by the number of failed
creates, which is 0 or more (`CountInv`): so `n_proc = 0`, the condition `scheduling` tests,
leaves nobody alive. `OrderInv` adds that only ready processes that do not run are above
their original priority (`PriorityInv`), which is why a process that is put back loses what
it gained and why aging has a bound. What a dispatch keeps is the sum of a PCB's
priority and its place in the queue (`Within`): those that are left move up one
place and age by 1.

### `NucleusLifeProofs`: the family of processes

If `~ KillsOwnAncestry`:

- `ProcessesAreOneFamily`: `Spec => []FamilyTree`;
- `ProcessesStartClean`: `Spec => CleanPcb`.

`Parented` says that a live process hangs from its live parent, or is on the worklist of
`delete_ric`; a process of least rank outside the family of `pcb_test` would contradict
it. `VictimFirst` is what rules out a termination that deletes descendants and spares their
ancestor.

### `NucleusLifeProofs`: the refinement

`NucleusImplementsLife`: if `~ KillsOwnAncestry`, `Spec => ImplementsLife`. Every step
of the nucleus is one of `ProcessLife`, or changes nothing the processes see.

`LifeInv` adds to the invariants above `WholeTree` (the children a freed PCB still
lists belong to the termination that is going on, so that `Family(victim)` is the same set
from its beginning to its end) and `Founders`. TLC has checked it before it was
proved. `Closure` is `Family` as a function of the children, for the family before and after a
step to be compared. The cases:

- `create_process` adds to the closures a PCB without children, and is a `Create`, or a
  stutter if it fails;
- `term_process`, and the fatal exceptions, are the `Terminate`: `live` is as before, but
  `condemned` takes the family away, and the units it gives back are counted;
- `delete_ric` is a stutter: the PCB it frees was condemned, and the unit it gives back
  moves from the second summand of `valueSeen` to the first;
- `TermDone` is one, since the victim it takes from its parent is dead already;
- `passeren` is `P` (`insertBlocked` puts the caller behind all others, hence the pairs added
  to `ahead`), `verhogen` is `V` (`removeBlocked` takes the head, behind nobody);
- dispatching, aging and handlers are stutters: the mapping does not read them.

### `KernelIOProofs`: WAITIO and the interrupt handler

Whatever processes and devices do, `IOTypeCorrect`: `IOSpec => []IOTypeOK`. If
`~ KillsOwnAncestry`, orderly or not and for any use of the terminals:

- `DevicesKeepLists`: `IOSpec => []` `ListDiscipline`, `SemaphoreCount`, `RunningIsReady` and
  `HaltOnlyWhenDone`;
- `DevicesImplementLife`: `IOSpec => IOImplementsLife`.

Both rest on `IOStep`: a step of `KernelIO` is, for the variables of the nucleus, a step of
the nucleus, a `Wake` (a V without a caller, which is all `outProc` does to them), or
nothing. `NucleusProofs` and its successors therefore prove that their invariants are kept
by `Step`, which is `Next` or a `Wake`; a `Wake` on a semaphore of a device is `Release` in
`ProcessLife`.

If moreover `OneHalfUsed`:

- `OneWaiterEach`: `IOSpec => []OneWaiterPerOperation`;
- `WaitioAlwaysBlocks`: `IOSpec => []OrderlyBlock`;
- `WokenByOwnCompletion`: `IOSpec => WokenByCompletion`.

The inductive invariant is `IOInv`, which TLC has checked on the instance of `kernel_io`
before it was proved. `HandlerInv` says where the handler may be and that it serves registers
there are; `RegisterInv` that an operation or an interrupt comes from a command and that an
interrupt leaves the status of the operation in the register. `BitmapInv` ties what is left
of the copied bitmap to the interrupts still pending: a device the handler has yet to serve
cannot have lost its interrupt meanwhile, but for the terminal whose transmitter has just
been served. For orderly processes `UseInv` says that a register has one waiter exactly while
an operation or an interrupt is outstanding and that its semaphore has no units; `ReceiverInv`
that `status_r`, read before the transmitter was served, is still the receiver's status when
it is served, if it is; `SparedInv` that a termination in progress has no member that waits
for a device. What makes them inductive is `ServedPending`: `int_term` serves a half
because its command register is not 0 (`interrupt.c:125`), not because it asked for it, and
these come to the same only because one half is in use. `Semaphores` shows, for every line
and device, that WAITIO and the handler agree on the semaphore of a register and that no two
registers share one.

### `TermDriverProofs`

For strings and input of any length, without hypotheses:

- `DriverTypeCorrect`, `PutsStayInOrder`, `LinesAreGot`: `DriverSpec => []` `DriverTypeOK`,
  `PutsInOrder` and `GetsLine`.

`DriverInv` adds what the driver may conclude at each of its places: `PollingInv` bounds what
the registers may hold while it polls them, `PutInv` relates what the terminal has
printed to the part of the string that has been given to it, with or without the character
that is on its way, and `GetInv` the buffer to the characters that have been received.

### `CpuTimeProofs`

For a clock of any width that starts anywhere, and as long as the machine runs for less
than its range (`MaxTicks < W`, an assumption of `CpuTime`):

- `CpuTypeCorrect`, `UserTimeIsExact`, `KernelTimeIsExact`, `TimesFit`:
  `Spec => []` `CpuTypeOK`, `UserTimeExact`, `KernelTimeExact` and `WithinWallclock`;
- `AnswersAlwaysAgree`: `Spec => AnswersAgree`.

`CpuInv` strengthens them by `CursorInv` (the cursor is a reading of the clock no older
than the ticks made, and not 0 while the clock cannot have read 0) and by `BudgetInv` (what
has been charged, with what still will be for the interval that is open, fits in the
process's life, and in what has passed since its last GETCPUTIME). The arithmetic
modulo `W` is in `ElapsedTick`: an interval shorter than the range grows by one with each
tick, overflow or not.

### `ListXProofs`

`Ring(h, s)` says that in the heap `h` the nodes of the sequence `s`, its head the first,
are one circular list, linked in both directions. For any heap and lists of any length,
without hypotheses: `NewList`, `AddBehind`, `AddAtTail`, `DeleteEntry` and `EmptyAndLast`
say what `INIT_LIST_HEAD`, `list_add`, `list_add_tail`, `list_del`, `list_empty` and
`list_is_last` make of the sequence of a ring or tell about it, and that every ring that
shares no node with it stays as it was. `DeleteEntry` also says that the fields of a deleted
entry still lead to a node of its list, from which the loop of `outProcQ` goes on.
Joining sequences reduces all of it to arithmetic on positions (`JoinElements`,
`SpliceElements`, `BetweenRing`, `RemovedRing`).

`list_for_each` follows `next` for as many turns as there are nodes. The library's induction
theorems cannot be used, so `FromZero` derives induction, over the members of a set of naturals,
from the well-foundedness of `<`. With it `WalksDefined` shows that the recursive function behind
`list_for_each` exists, and `ListForEach` that on the ring of a head it returns exactly the nodes
behind the head. So what the modules read off a heap is what is linked there.

`WellLinked` says of several heads that each has its ring and that no two rings share a node.
`NewHead`, `AddNode`, `AddLast` and `DeleteNode` lift the theorems on rings to it: each
function changes one of the lists, to `Inserted` or `Without` at a position, and leaves the
sequences of all others alone.

### `ListsProofs`

For tables of any size, any keys and priorities, and whatever `Scope` admits, without hypotheses:

- `ListsLinked`, `ListsOutProcQStaysOnQueue`: `ListsSpec => []` `Linked` and
  `OutProcQStaysOnQueue`, from `ListsInvariant`: `ListsSpec => []ListsInv`;
- `ListsImplementsTables`: `ListsSpec => ImplementsTables`.

`Linked` is not inductive: it says nothing of what kind of node is on which list, of `s_key` and
`p_semkey`, or of who is whose child, so that `list_del` of the node a field names might unlink
something else. `ListsInv`, which TLC has checked on the instance of `lists` too, adds this:

- `Shape`: the lists of the heads there are at the time (`ListHeads`: those of the children of PCBs
  in use, those of the queues of descriptors in use, and the four there always are) are well
  linked, disjoint, and each of its own kind of nodes: links, siblings or places of
  descriptors. The ASL and the list of free descriptors together have `MAXPROC` places;
- `Queues`: a descriptor in use has a key of its own and somebody who waits for it, a process is on
  the queue of the semaphore its `p_semkey` names and on no other, and such a descriptor exists;
- `Tree`: who is on the list of children of a PCB in use has it as `p_parent`;
- while the loop of `outProcQ` is under way, `pos` is on the ready queue.

Heads come and go: `allocPcb` makes those of a PCB, `insertBlocked` that of a descriptor, and when a
PCB or a descriptor is freed its head is left out of `ListHeads` with the list still behind it.
That is why `Tree` speaks of PCBs in use, why `allocPcb` needs its guard (the other PCBs have no free
ones as children), and why `INIT_LIST_HEAD` of a node that was used before is sound.

`list_del` of the element the loop of `outProcQ` stands on leaves that element's `next` alone
(`DeleteNode`), and this leads to an element still queued or to the head; what was passed already
does not matter, as a process is queued once: each turn of the loop is an `outReady` of
`Tables` or a stutter.

The refinement. `asl`, `s_procQ`, `pcbFree`, `readyQueue` and `p_child` are read off the heap with
`list_for_each`. For every function a lemma `Ref...` shows its step to be one of `Tables`:

- `insertProcQ` finds the first place at which `stops` is true, `Tables` the first element of a lower
  priority; they agree although the code reads a "priority" behind the last element from the
  head of the queue, since `list_is_last` ends the loop there either way (`stops` leaves its value open);
- removals anywhere in a queue are `Without` at the place where the process stands, which is
  `RemoveFirst` of `Tables` because it stands there once;
- `insertBlocked` uses `Queues` to know that the descriptor found is the only one of its key, and that a
  free one is left exactly when `semdFree` says so;
- for `outChildBlocked` an induction over those that leave: after each of them the queues
  are those of before without the ones that have left (`Thinned`), in the same order
  (`Before`), and a descriptor nobody is left on is free again.

What `insertProcQ` compares are priorities, so that the refinement also needs them to be integers
(`PriorityOK`).

### `P2TestProofs`

For any set of at least 13 names of processes (an assumption of `P2Test`; with fewer a `create` may
fail), any `Scenario` (however many incarnations of `p7`, whichever programs are silent) and any
choice of the ready process that goes on:

- `TestTypeCorrect`, `TestPasses`, `TestLockConserved`, `TestKillsIntended`: `TestSpec => []`
  `TestTypeOK`, `NoError`, `LockConserved` and `KillsIntended`, from `TestInvariant`:
  `TestSpec => []TestInv`.

So they hold with all messages of the test and its four incarnations of `p7`, which is beyond what
TLC can enumerate. `NoError` is about the checks that are in the programs: all of the test but those
of `p2` on CPU times, with terminals that do not fail.

None of the four is inductive. That a PANIC is not reached depends on who is blocked where, and that the
lock outlives a termination on what the victims may be doing. `TestInv`, which TLC has checked on
instances before it was proved, has these parts:

- `Tree`: `ancestors` is a forest whose root is `p1`; `Specified`: only `p4` has handlers;
- `PrintInv`: who is in `print` waits on its two semaphores only; if anybody is, exactly one of them
  holds the lock, the others wait for it, and only the holder may wait for the terminal; it
  does while the terminal is busy, and it is the holder's character that is transmitted
  (`TerminalInv`); once it has an answer, this is its own character;
- `Tails`: a process at its *tail* has nothing left to do but messages and its own end (`TailPlace`:
  `p2` from its exit on, `p3` from its last message on, `p4` behind its V of `endp4`, all of `p5` and
  `p6`) and no descendants, so that it may linger there while the test goes on;
- `Stage`: `p1` and the *crew*, the processes that are not at their tails, are in one of eleven
  stages. Each names the places of `p1`, who the crew is, where its members may be, and the values and
  waiters of the semaphores they meet on, as functions of these places. `StageB1` is `p1` and `p2`,
  `StageC1` to `StageC3` the incarnations of `p3`, `StageD1` is `p4`, `StageF` the family of `p7`.

For the family, `cast` says which process plays `p7root`, a child or a leaf, and `here` which of the seven
are alive. While it `Grows`, who has been created is a function of the places of the creators; while it
`Shrinks`, of how many leaves `p7root` has killed. `Tickets` counts the announcements of leaves on `endcreate`
that `p7root` has not taken: when it is past the fourth P all leaves are past their V, and
no longer in `print`, so that the kills that follow cannot strike the holder of the lock. `Parks`
counts who waits on `blkleaves` and `blkp7child`; a killed leaf gives back its unit, so that the four Vs
that follow are all left over, as the test wants it.

That a `create` never fails is a matter of who may linger. `FewTails` says that at most one process
of each of `p2`, `p3`, `p4`, `p5` and `p6` is at its tail, however many incarnations of `p7` there are, since
none of that family lingers. While somebody creates, the crew is not complete yet: it has at most 6
members (`CrewCounted`). With `p1` these are 12 names, and `Room` finds another.

The argument for a step: what a step of a process does to the variables is read off the instruction it is
at (`PStep` to `WhileStep`); `PassCommon`, `TurnCommon`, `CreateCommon`, `KillCommon` show that it keeps the parts
that hold in all stages; a step in `print`, of a process at its tail or of the terminal leaves the
stage as it is (`StageUnseen`, `TailStep`); and for each stage and each of its actors a lemma (`StepA` to `StepF`)
says which stage comes next. `PlaceFact` and `KillMeets` read the properties off the stage, the latter that
the victim of a kill descends from its caller.

### Only model-checked

Liveness, which is out of the prover's reach: `NoStarvation`, `TerminationCompletes`,
`WaitioAnswered`, `CallsReturn` and `Finishes`. Every invariant and every action property
that a passing run checks, and every refinement, is a theorem.

## Not modelled

- The saved processor states: `initArea`, `init`, `memCopy`, `getExcCode`,
  `pc_increase`, `pc_decrease`. They move registers, which no property is about.
- GETPID has no action in `Nucleus`, as it changes no kernel state; what it
  answers is checked by `P2Test`.
- SPECPASSUP with NULL for one of its areas: `specpassup` tests `*_old`, the exception
  handlers test `*_new`, and they would disagree. No caller in the repository does it.
- Resets of a device, see above.
- Both halves of a terminal in use at once: `Used` has one of each, as the programs of the
  repository do. Then `int_term` wakes a waiter too early (see above), and it does not matter
  that `int_term_T` takes the reads of both statuses (`interrupt.c:119-120`) and the acknowledgement of the
  transmitter (`interrupt.c:127`) as one step: a receiver that completes in between is not in use.
- `allocPcb` in a tree in which a free PCB is still somebody's child. In `Lists` its guard
  excludes that, an assumption on the callers. `delete_ric` does not keep it all the time
  (`syscall.c:190-191` frees a PCB before its children and before its parent is told), but
  nobody allocates meanwhile: this is checked in `Nucleus`, whose `delete_ric` takes one PCB a step,
  by `FamilyTree`.
- WAITIO with an address that is no device register: `line` and `device` are then
  uninitialized. No caller does it.
- `list_next`, `list_prev` and the iteration macros of `listx.h` that nothing uses.
- The checks of `p2` on the times of GETCPUTIME (`p2test_bikaya_v0.2.c:321-344`), which depend on how long
  instructions take. What the nucleus makes of them is checked in `CpuTime`: `AnswersAgree`,
  `UserTimeExact` and `KernelTimeExact`.
- A terminal that fails, in `P2Test`: `print` would then call PANIC.
- The emulators: BIOS, libraries and headers under `src/uarm` and `src/umps`, third-party code.

## Plan

What is left to do: resets and SPECPASSUP with NULL for an area, should a program use them.
