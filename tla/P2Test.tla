--------------------------------- MODULE P2Test ---------------------------------
(****************************************************************************)
(* The phase 2 test, p2test_bikaya_v0.2.c, as a client of the nucleus: each *)
(* of its functions is a program, a sequence of system calls, exceptions    *)
(* and assignments, run by processes over ProcessLife, which Nucleus and    *)
(* KernelIO implement.  Every ready process may take the next step.         *)
(*                                                                          *)
(* A test that prints an error or calls PANIC is <<"assert", c>>, and what  *)
(* a process must not live to do is <<"panic">>.  The checks that p2 makes  *)
(* on CPU times are left out: they depend on how long instructions take.    *)
(* A message is one character, the terminal does not fail, and the          *)
(* processor states and stacks of the processes are left out.               *)
(****************************************************************************)
EXTENDS ProcessLife, Sequences

CONSTANT
  Scenario   \* the parts of the test that are run, as records of
             \*   gone: incarnations of p7 before it; if 0, from the start of p1
             \*   incarnations: times p7 is created in all, 4 in the code
             \*   silent: the programs whose messages are left out

Semaphores ==
  {"term_mut", "s", "testsem", "startp2", "endp2", "blkp3", "synp3", "endp3", "endp4",
   "endp7", "endcreate", "blkleaves", "blkp7", "blkp7child", "terminal"}

ASSUME TestAssumption ==
  /\ Process \subseteq Nat \ {0} /\ IsFiniteSet(Process) /\ first \in Process
  /\ Cardinality(Process) >= 13   \* at most so many live; in the code MAXPROC less idle, 19
  /\ Key = Semaphores
  /\ Scenario \subseteq [gone : Nat, incarnations : Nat, silent : SUBSET STRING]

VARIABLES
  scenario,  \* the part that is run
  program,   \* program each process is in
  pc,        \* its next instruction
  line,      \* instructions of print executed, if that is a call of it
  terminal,  \* process whose character the terminal transmits, 0 if none
  answer,    \* process whose character WAITIO has told, 0 if it has not
  handlers,  \* exceptions it has specified a handler for
  memory,    \* the global variables of the test that are not semaphores
  failed     \* assertions that failed

testVars == <<scenario, program, pc, line, terminal, answer, handlers, memory, failed>>

NOLEAVES == 4
------------------------------------------------------------------------------
(* Faulty variant: the terminal is used without the lock.                   *)
print_noLock == <<<<"waitio">>, <<"assert", "print">>, <<"V", "term_mut">>>>

print == <<<<"P", "term_mut">>, <<"waitio">>, <<"assert", "print">>, <<"V", "term_mut">>>>

test ==
  <<<<"V", "testsem">>, <<"assert", "testsem">>, <<"print">>,
    <<"create", "p2", "nowhere">>, <<"print">>,
    <<"V", "startp2">>, <<"P", "endp2">>, <<"print">>, <<"assert", "p1p2synch">>,
    <<"create", "p3", "p3pid">>, <<"P", "endp3">>, <<"print">>,
    <<"create", "p4", "nowhere">>, <<"P", "endp4">>, <<"print">>,
    <<"create", "p5", "nowhere">>, <<"create", "p6", "nowhere">>, <<"V", "blkp7">>,
    <<"while", "p7loop", "p1end">>>>

(* One turn of the loop of p1.                                              *)
p7loop ==
  <<<<"P", "blkp7">>, <<"clear", "blkp7child">>, <<"clear", "blkleaves">>,
    <<"created", "p7root", "p7pid">>, <<"P", "endp7">>, <<"kill", "p7pid">>,
    <<"V", "blkp7">>, <<"V", "blkp7child">>, <<"V", "blkp7child">>,
    <<"set", "p7inc">>, <<"while", "p7loop", "p1end">>>>

p1end == <<<<"print">>, <<"print">>, <<"exception", "trap">>, <<"print">>, <<"panic">>>>

(* Faulty variant: p1 is woken before p1p2synch is set.                     *)
p2_late ==
  <<<<"P", "startp2">>, <<"print">>,
    <<"clear", "s">>, <<"V", "s">>, <<"P", "s">>, <<"assert", "s">>, <<"print">>, <<"print">>,
    <<"V", "endp2">>, <<"set", "p1p2synch">>, <<"exit">>, <<"print">>, <<"panic">>>>

(* The elements of s[] are alike: one of them stands for all.               *)
p2 ==
  <<<<"P", "startp2">>, <<"print">>,
    <<"clear", "s">>, <<"V", "s">>, <<"P", "s">>, <<"assert", "s">>, <<"print">>, <<"print">>,
    <<"set", "p1p2synch">>, <<"V", "endp2">>, <<"exit">>, <<"print">>, <<"panic">>>>

(* Faulty variant: p3 does not wait for the child before it kills it.       *)
p3rest_noWait ==
  <<<<"V", "synp3">>, <<"P", "blkp3">>, <<"P", "synp3">>, <<"print">>,
    <<"create", "p3", "p32id">>, <<"print">>, <<"killed", "p32id">>, <<"print">>,
    <<"V", "endp3">>, <<"print">>, <<"exit">>, <<"print">>, <<"panic">>>>

(* Both incarnations of p3 go on here.                                      *)
p3rest ==
  <<<<"V", "synp3">>, <<"P", "blkp3">>, <<"P", "synp3">>, <<"print">>,
    <<"create", "p3", "p32id">>, <<"P", "synp3">>, <<"print">>,
    <<"killed", "p32id">>, <<"print">>, <<"V", "endp3">>, <<"print">>,
    <<"exit">>, <<"print">>, <<"panic">>>>

p3first == <<<<"print">>, <<"assert", "getpid">>, <<"set", "p3inc">>, <<"jump", "p3rest">>>>

p3second == <<<<"print">>, <<"assert", "getppid">>, <<"jump", "p3rest">>>>

p3 == <<<<"switch", "p3inc", "p3first", "p3second">>>>

(* The handlers of p4, and what they make p4 go on with.                    *)
p4prog == <<<<"print">>, <<"jump", "p4a">>>>

(* Faulty variant: the PC in the old area is left alone.                    *)
p4mm_noPC == <<<<"print">>, <<"print">>, <<"jump", "p4a">>>>

p4mm == <<<<"print">>, <<"print">>, <<"jump", "p4b">>>>

p4sys == <<<<"assert", "reg0">>, <<"print">>, <<"jump", "p4c">>>>

p4 ==
  <<<<"print">>, <<"specpassup", "trap">>, <<"specpassup", "tlb">>, <<"specpassup", "sys">>,
    <<"print">>, <<"exception", "trap">>>>

(* Faulty variant: virtual memory is not turned on.                         *)
p4a_noVM == <<<<"print">>>>

p4a == <<<<"print">>, <<"exception", "tlb">>>>

p4b == <<<<"print">>, <<"exception", "sys", 13>>>>

(* p4b from the return of system call 13 on.                                *)
p4c ==
  <<<<"V", "endp4">>, <<"print">>,
    <<"specpassup", "trap">>, <<"panic">>, <<"exit">>, <<"print">>, <<"panic">>>>

p5 == <<<<"print">>, <<"exception", "sys", 13>>, <<"print">>, <<"panic">>>>

p6 == <<<<"print">>, <<"exception", "trap">>, <<"print">>, <<"panic">>>>

p7root ==
  <<<<"print">>, <<"create", "child1", "nowhere">>, <<"create", "child2", "nowhere">>,
    <<"P", "endcreate">>, <<"P", "endcreate">>, <<"P", "endcreate">>, <<"P", "endcreate">>,
    <<"print">>, <<"kill", "leaf1pid">>, <<"kill", "leaf2pid">>,
    <<"kill", "leaf3pid">>, <<"kill", "leaf4pid">>,
    <<"V", "blkleaves">>, <<"V", "blkleaves">>, <<"V", "blkleaves">>, <<"V", "blkleaves">>,
    <<"V", "endp7">>, <<"P", "blkp7">>, <<"print">>, <<"panic">>>>

child1 ==
  <<<<"print">>, <<"create", "p7leaf", "leaf1pid">>, <<"create", "p7leaf", "leaf2pid">>,
    <<"P", "blkp7child">>, <<"print">>, <<"panic">>>>

child2 ==
  <<<<"print">>, <<"create", "p7leaf", "leaf3pid">>, <<"create", "p7leaf", "leaf4pid">>,
    <<"P", "blkp7child">>, <<"print">>, <<"panic">>>>

p7leaf ==
  <<<<"print">>, <<"V", "endcreate">>, <<"P", "blkleaves">>, <<"print">>, <<"panic">>>>

Text == [test |-> test, p7loop |-> p7loop, p1end |-> p1end, p2 |-> p2, p3 |-> p3,
         p3first |-> p3first, p3second |-> p3second, p3rest |-> p3rest,
         p4 |-> p4, p4prog |-> p4prog, p4mm |-> p4mm, p4sys |-> p4sys,
         p4a |-> p4a, p4b |-> p4b, p4c |-> p4c, p5 |-> p5, p6 |-> p6,
         p7root |-> p7root, child1 |-> child1, child2 |-> child2, p7leaf |-> p7leaf,
         none |-> <<>>]

Handler == [trap |-> "p4prog", tlb |-> "p4mm", sys |-> "p4sys"]
------------------------------------------------------------------------------
Pid == {"p3pid", "p32id", "p7pid", "leaf1pid", "leaf2pid", "leaf3pid", "leaf4pid"}

(* Of the state in the old area sstat_o the register with the code counts.  *)
Variable == Pid \cup {"p1p2synch", "p3inc", "p7inc", "sstat_o"}

(* The first values, and those an incarnation of p7 leaves behind.          *)
TestInit ==
  /\ scenario \in Scenario
  /\ LET fresh == scenario.gone = 0
         left == [p7pid |-> 2, leaf1pid |-> 5, leaf2pid |-> 6, leaf3pid |-> 7, leaf4pid |-> 8]
     IN  /\ value = [k \in Key |-> CASE k = "term_mut" -> 1
                                    [] k = "blkp3" /\ fresh -> 1
                                    [] k = "blkp7" /\ ~fresh -> 1
                                    [] k = "blkp7child" /\ ~fresh -> 2
                                    [] k = "blkleaves" /\ ~fresh -> NOLEAVES
                                    [] OTHER -> 0]
         /\ memory = [v \in Variable |-> CASE v = "p3inc" -> 1
                                          [] v = "p7inc" -> scenario.gone
                                          [] v \in DOMAIN left /\ ~fresh -> left[v]
                                          [] OTHER -> 0]
         /\ program = [p \in Process |-> IF p # first THEN "none"
                                         ELSE IF fresh THEN "test" ELSE "p7loop"]
  /\ LifeInit
  /\ pc = [p \in Process |-> 1]
  /\ line = [p \in Process |-> 0]
  /\ terminal = 0
  /\ answer = [p \in Process |-> 0]
  /\ handlers = [p \in Process |-> {}]
  /\ failed = {}

Calls(p) == Text[program[p]][pc[p]] = <<"print">>

(* What a process executes next, in print if it calls that.                 *)
instruction(p) == IF Calls(p) THEN print[line[p] + 1] ELSE Text[program[p]][pc[p]]

Return(p) == pc' = [pc EXCEPT ![p] = @ + 1] /\ line' = [line EXCEPT ![p] = 0]

Advance(p) ==
  /\ IF Calls(p) /\ line[p] + 1 < Len(print)
     THEN line' = [line EXCEPT ![p] = @ + 1] /\ UNCHANGED pc
     ELSE Return(p)
  /\ UNCHANGED <<program, handlers>>

Jump(p, where) ==
  /\ program' = [program EXCEPT ![p] = where]
  /\ pc' = [pc EXCEPT ![p] = 1]
  /\ UNCHANGED <<line, handlers>>

(* What the tests of the programs ask for.                                  *)
Holds(c, p) ==
  CASE c = "testsem" -> value["testsem"] = 1
    [] c = "s" -> value["s"] = 0
    [] c = "p1p2synch" -> memory["p1p2synch"] # 0
    [] c = "print" -> answer[p] = p
    [] c = "reg0" -> memory["sstat_o"] = 13
    [] c = "getpid" -> memory["p3pid"] = p
    [] c = "getppid" -> LET older == ancestors[p] \ {p}
                          IN  memory["p3pid"] \in older /\ ancestors[memory["p3pid"]] = older
------------------------------------------------------------------------------
(* Steps of p, by the instruction it is at.                                 *)
At(p, op) == instruction(p)[1] = op

Muted(p) == program[p] \in scenario.silent /\ Calls(p)

(* A message is left out.                                                   *)
Mute(p) ==
  /\ Muted(p)
  /\ Return(p)
  /\ UNCHANGED <<lifeVars, program, handlers, memory, failed>>

Semaphore(p) ==
  /\ ~Muted(p)
  /\ \/ At(p, "P") /\ P(p, instruction(p)[2])
     \/ At(p, "V") /\ V(p, instruction(p)[2])
  /\ Advance(p)
  /\ UNCHANGED <<memory, failed>>

(* WAITIO: the command is written to the terminal, which hears none while it *)
(* is busy.  The answer is what the interrupt handler puts in reg_v0; a     *)
(* WAITIO that does not block has none.                                     *)
Waitio(p) ==
  /\ ~Muted(p)
  /\ At(p, "waitio")
  /\ terminal' = IF terminal = 0 THEN p ELSE terminal
  /\ P(p, "terminal")
  /\ answer' = [answer EXCEPT ![p] = 0]
  /\ Advance(p)
  /\ UNCHANGED <<memory, failed>>

Clear(p) ==
  /\ At(p, "clear")
  /\ value' = [value EXCEPT ![instruction(p)[2]] = 0]
  /\ Advance(p)
  /\ UNCHANGED <<ancestors, waiting, ahead, memory, failed>>

Set(p) ==
  /\ At(p, "set")
  /\ memory' = [memory EXCEPT ![instruction(p)[2]] = @ + 1]
  /\ Advance(p)
  /\ UNCHANGED <<lifeVars, failed>>

(* CREATEPROCESS.  Which name a process gets is not observed: the least one *)
(* is taken.  It fails if there is none, which only p1 checks, of p7root.   *)
Spawn(p) ==
  /\ At(p, "create") \/ At(p, "created")
  /\ \/ \E new \in Process \ alive :
          /\ \A q \in Process \ alive : new <= q
          /\ Create(p, new)
          /\ program' = [program EXCEPT ![new] = instruction(p)[2]]
          /\ pc' = [pc EXCEPT ![p] = @ + 1, ![new] = 1]
          /\ memory' = [v \in DOMAIN memory |->
                           IF v = instruction(p)[3] THEN new ELSE memory[v]]
          /\ UNCHANGED <<line, handlers, failed>>
     \/ /\ Process \ alive = {}
        /\ failed' = IF At(p, "created") THEN {"create"} ELSE {}
        /\ Advance(p)
        /\ UNCHANGED <<lifeVars, memory>>

(* The family of victim is gone; caller, if not of it, goes on.             *)
Kill(p, victim) ==
  /\ Terminate(p, victim)
  /\ program' = [q \in Process |-> IF q \in alive' THEN program[q] ELSE "none"]
  /\ handlers' = [q \in Process |-> IF q \in alive' THEN handlers[q] ELSE {}]
  /\ pc' = [q \in Process |-> IF q \notin alive' THEN 1
                              ELSE IF q = p THEN pc[q] + 1 ELSE pc[q]]
  /\ line' = [q \in Process |-> IF q \in alive' THEN line[q] ELSE 0]
  /\ UNCHANGED <<memory, failed>>

(* TERMINATEPROCESS: pid 0 is the caller; that of a pid that names nobody   *)
(* fails, which only p3 checks.                                             *)
KillPid(p) ==
  /\ At(p, "kill") \/ At(p, "killed")
  /\ LET pid == memory[instruction(p)[2]]
     IN  IF pid = 0 THEN Kill(p, p)
         ELSE IF pid \in alive THEN Kill(p, pid)
         ELSE /\ failed' = IF At(p, "killed") THEN {"kill"} ELSE {}
              /\ Advance(p)
              /\ UNCHANGED <<lifeVars, memory>>

Exit(p) == At(p, "exit") /\ Kill(p, p)

(* An unknown system call leaves its code in the old area.                  *)
Exception(p) ==
  /\ At(p, "exception")
  /\ LET t == instruction(p)[2]
     IN  IF t \in handlers[p]
         THEN /\ Jump(p, Handler[t])
              /\ memory' = IF t = "sys" THEN [memory EXCEPT !["sstat_o"] = instruction(p)[3]]
                           ELSE memory
              /\ UNCHANGED <<lifeVars, failed>>
         ELSE Kill(p, p)

SpecPassUp(p) ==
  /\ At(p, "specpassup")
  /\ LET t == instruction(p)[2]
     IN  IF t \in handlers[p]
         THEN Kill(p, p)
         ELSE /\ handlers' = [handlers EXCEPT ![p] = @ \cup {t}]
              /\ pc' = [pc EXCEPT ![p] = @ + 1]
              /\ UNCHANGED <<lifeVars, program, line, memory, failed>>

Check(p) ==
  /\ At(p, "assert") \/ At(p, "panic")
  /\ failed' = IF At(p, "panic") THEN {"panic"}
               ELSE IF Holds(instruction(p)[2], p) THEN {} ELSE {instruction(p)[2]}
  /\ Advance(p)
  /\ UNCHANGED <<lifeVars, memory>>

Branch(p) ==
  /\ LET i == instruction(p)
     IN  \/ /\ At(p, "jump")
            /\ Jump(p, i[2])
         \/ /\ At(p, "switch")
            /\ Jump(p, i[memory[i[2]] + 2])
         \/ /\ At(p, "while")
            /\ Jump(p, IF memory["p7inc"] < scenario.incarnations THEN i[2] ELSE i[3])
  /\ UNCHANGED <<lifeVars, memory, failed>>

Step(p) ==
  /\ failed = {}
  /\ Ready(p)
  /\ UNCHANGED scenario
  /\ \/ Waitio(p)
     \/ /\ \/ Mute(p) \/ Semaphore(p) \/ Clear(p) \/ Set(p) \/ Spawn(p) \/ KillPid(p)
           \/ Exit(p) \/ Exception(p) \/ SpecPassUp(p) \/ Check(p) \/ Branch(p)
        /\ UNCHANGED <<terminal, answer>>

(* The terminal has transmitted a character; the interrupt handler gives    *)
(* the status, which names the character, to the process it wakes.          *)
Transmitted ==
  /\ failed = {}
  /\ terminal # 0
  /\ terminal' = 0
  /\ Release("terminal")
  /\ answer' = [p \in Process |-> IF p \in waiting["terminal"] \ waiting'["terminal"]
                                  THEN terminal ELSE answer[p]]
  /\ UNCHANGED <<scenario, program, pc, line, handlers, memory, failed>>

(* The machine has halted.                                                  *)
Halted == alive = {} /\ UNCHANGED <<lifeVars, testVars>>

TestNext == (\E p \in alive : Step(p)) \/ Transmitted \/ Halted

TestSpec == TestInit /\ [][TestNext]_<<lifeVars, testVars>>
------------------------------------------------------------------------------
TestTypeOK ==
  /\ alive \subseteq Process
  /\ value \in [Key -> Int]
  /\ waiting \in [Key -> SUBSET Process]
  /\ program \in [Process -> DOMAIN Text]
  /\ \A p \in alive : pc[p] \in DOMAIN Text[program[p]]
  /\ line \in [Process -> 0 .. 3]
  /\ terminal \in Process \cup {0} /\ answer \in [Process -> Process \cup {0}]
  /\ handlers \in [Process -> SUBSET DOMAIN Handler]

(* No check of the test but those of p2 on CPU times, which are no part of  *)
(* the model, fails, and no process lives to reach a PANIC: the killed are  *)
(* dead, the blocked are blocked, the pids are right, there is a PCB for    *)
(* p7root, a handler gets the code of the system call, and WAITIO answers   *)
(* with the caller's own character, however the processes are scheduled.    *)
NoError == failed = {}

(* Nobody is terminated while it holds the lock of the terminal, which      *)
(* would then be locked for ever, and at most one process at a time waits   *)
(* for the terminal, as WAITIO needs it.                                    *)
LockConserved ==
  LET printing == {p \in alive : line[p] # 0}
  IN  alive # {} => /\ value["term_mut"] + Cardinality(printing) = 1
                    /\ Cardinality(waiting["terminal"]) <= 1

(* A pid still names the process it was stored for when it is given to      *)
(* TERMINATEPROCESS: a PCB is not reused in between, and the family that    *)
(* dies is one the caller has created, not its own.                         *)
KillsIntended ==
  \A p \in alive : Ready(p) /\ (At(p, "kill") \/ At(p, "killed")) =>
    LET victim == memory[instruction(p)[2]]
    IN  /\ victim \in alive \ {p}
        /\ p \in ancestors[victim]
        /\ program[victim] = CASE instruction(p)[2] = "p7pid" -> "p7root"
                                [] instruction(p)[2] = "p32id" -> "p3rest"
                                [] OTHER -> "p7leaf"

(* Some ready process or the terminal goes on: the nucleus does not halt    *)
(* with work to do, and no scheduler of it could be less fair.              *)
TestFairSpec == TestSpec /\ WF_<<lifeVars, testVars>>(TestNext)

(* The test comes to an end: p1 dies, and with it everything it created.    *)
Finishes == <>(alive = {})
==============================================================================
