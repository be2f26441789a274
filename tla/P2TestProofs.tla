------------------------------ MODULE P2TestProofs ------------------------------
(****************************************************************************)
(* No check of the phase 2 test that P2Test models fails, for every set of  *)
(* names of at least 13, every part of the test that is run and every       *)
(* choice of the messages left out.                                         *)
(*                                                                          *)
(* The inductive invariant follows p1.  At each of its places it says who   *)
(* else is alive and goes on (the crew: one process, two of p3, the family  *)
(* of p7), where each of them may be, and the values of the semaphores that *)
(* they meet on.  A process that has nothing left to do but a message and   *)
(* its own end is at its tail, and no longer of the crew; there is one at   *)
(* most for each of p2 to p6, so that no creation lacks a name.             *)
(****************************************************************************)
EXTENDS P2Test, FiniteSetTheorems, TLAPS

(* The semaphores that are not for messages.                                *)
Sync == Semaphores \ {"term_mut", "terminal"}

Debt(b) == IF b THEN 1 ELSE 0

(* The value of k is v and nobody waits for it.                             *)
Has(k, v) == value[k] = v /\ waiting[k] = {}

(* The value of k is v and p waits for it if v is negative.                 *)
Awaits(k, v, p) == value[k] = v /\ waiting[k] = (IF v < 0 THEN {p} ELSE {})

(* A descendant of q is q.                                                  *)
Solo(q) == \A r \in alive : q \in ancestors[r] => r = q

TailPlace(prog, i) ==
  \/ prog = "p2" /\ i = 11
  \/ prog = "p3rest" /\ i \in 11 .. 12
  \/ prog = "p4c" /\ i \in 2 .. 3
  \/ prog \in {"p5", "p6"} /\ i \in 1 .. 2

Crew == {q \in alive \ {first} : ~ TailPlace(program[q], pc[q])}

Tails == \A q \in alive \ {first} : TailPlace(program[q], pc[q]) =>
           Solo(q) /\ (program[q] = "p4c" => handlers[q] = DOMAIN Handler)

AtTail == {q \in alive \ {first} : TailPlace(program[q], pc[q])}

(* The function whose programs prog is one of.                              *)
Origin(prog) == IF prog \in {"p3first", "p3second", "p3rest"} THEN "p3"
                ELSE IF prog \in {"p4prog", "p4mm", "p4sys", "p4a", "p4b", "p4c"} THEN "p4"
                ELSE prog

(* Where p1 is at least when a process of it is at its tail.                *)
Since == [p2 |-> 5, p3 |-> 11, p4 |-> 14, p5 |-> 17, p6 |-> 18]

(* At most one process for each of them is at its tail: there are names for *)
(* all who are created.                                                     *)
FewTails ==
  \A q \in AtTail :
    /\ \A r \in alive \ {first} : Origin(program[r]) = Origin(program[q]) => r = q
    /\ program[first] = "test" => pc[first] >= Since[Origin(program[q])]

At1(prog, lo, hi) == program[first] = prog /\ pc[first] \in lo .. hi
------------------------------------------------------------------------------
(* What the later parts of the test find unused.                            *)
Between7 ==
  Has("endp7", 0) /\ Has("endcreate", 0) /\ waiting["blkp7child"] = {} /\ waiting["blkleaves"] = {}
Before7 == Has("blkp7", 0) /\ Between7
Before4 == Has("endp4", 0) /\ Before7
Before3 == memory["p3inc"] = 1 /\ Has("blkp3", 1) /\ Has("synp3", 0) /\ Has("endp3", 0) /\ Before4

(* p1 alone, up to the creation of p2.                                      *)
StageA ==
  /\ At1("test", 1, 4) /\ Crew = {} /\ Before3
  /\ pc[first] = 1 => Has("testsem", 0)
  /\ pc[first] = 2 => value["testsem"] = 1
  /\ Has("startp2", 0) /\ Has("endp2", 0) /\ waiting["s"] = {}

(* p2 runs.                                                                 *)
RunsP2(b) ==
  /\ Crew = {b} /\ Solo(b) /\ program[b] = "p2" /\ pc[b] \in 1 .. 10
  /\ Awaits("startp2", Debt(pc[first] >= 7) - Debt(pc[b] >= 2), b)
  /\ pc[b] >= 3 => pc[first] >= 7
  /\ pc[b] \in {4, 6} => value["s"] = 0
  /\ pc[b] = 5 => value["s"] = 1
  /\ pc[b] = 10 => memory["p1p2synch"] # 0

StageB1 ==
  /\ At1("test", 5, 8) /\ Before3 /\ waiting["s"] = {}
  /\ Awaits("endp2", 0 - Debt(pc[first] >= 8), first)
  /\ \E b \in Process : RunsP2(b)

(* p2 has done its part.                                                    *)
StageB2 ==
  /\ At1("test", 7, 10) /\ Crew = {} /\ Before3
  /\ pc[first] <= 8 => Has("endp2", 1 - Debt(pc[first] >= 8))
  /\ memory["p1p2synch"] # 0

(* The first incarnation of p3, before it creates the second.               *)
RunsP3(a) ==
  /\ Crew = {a} /\ Solo(a) /\ memory["p3pid"] = a
  /\ \/ program[a] = "p3" /\ pc[a] = 1
     \/ program[a] = "p3first" /\ pc[a] \in 1 .. 4
     \/ program[a] = "p3rest" /\ pc[a] \in 1 .. 5
  /\ Has("synp3", Debt(program[a] = "p3rest" /\ pc[a] \in 2 .. 3))
  /\ Has("blkp3", Debt(~ (program[a] = "p3rest" /\ pc[a] >= 3)))
  /\ memory["p3inc"] = 1 + Debt(program[a] = "p3rest" \/ (program[a] = "p3first" /\ pc[a] = 4))

WaitsP3 == At1("test", 11, 12) /\ Before4 /\ Awaits("endp3", 0 - Debt(pc[first] >= 12), first)

StageC1 == WaitsP3 /\ \E a \in Process : RunsP3(a)

(* Both incarnations.                                                       *)
RunBothP3(a, b) ==
  /\ Crew = {a, b} /\ a # b /\ Solo(b)
  /\ memory["p3pid"] = a /\ memory["p32id"] = b
  /\ \A r \in alive : a \in ancestors[r] => r \in {a, b}
  /\ ancestors[b] = ancestors[a] \cup {b}
  /\ program[a] = "p3rest" /\ pc[a] \in 6 .. 8
  /\ \/ program[b] = "p3" /\ pc[b] = 1
     \/ program[b] = "p3second" /\ pc[b] \in 1 .. 3
     \/ program[b] = "p3rest" /\ pc[b] \in 1 .. 3
  /\ Awaits("synp3", Debt(program[b] = "p3rest" /\ pc[b] >= 2) - Debt(pc[a] >= 7), a)
  /\ pc[a] = 8 => program[b] = "p3rest" /\ pc[b] >= 2
  /\ Awaits("blkp3", 0 - Debt(program[b] = "p3rest" /\ pc[b] = 3), b)

StageC2 == WaitsP3 /\ memory["p3inc"] = 2 /\ \E a, b \in Process : RunBothP3(a, b)

(* The second is dead.                                                      *)
EndsP3(a) == Crew = {a} /\ Solo(a) /\ program[a] = "p3rest" /\ pc[a] \in 9 .. 10

StageC3 == WaitsP3 /\ \E a \in Process : EndsP3(a)

StageC4 ==
  /\ At1("test", 11, 13) /\ Crew = {} /\ Before4
  /\ pc[first] <= 12 => Has("endp3", 1 - Debt(pc[first] >= 12))

(* p4 runs.                                                                 *)
P4Programs == {"p4", "p4prog", "p4mm", "p4sys", "p4a", "p4b", "p4c"}

P4Handlers(prog, i) ==
  IF prog = "p4" /\ i <= 2 THEN {}
  ELSE IF prog = "p4" /\ i = 3 THEN {"trap"}
  ELSE IF prog = "p4" /\ i = 4 THEN {"trap", "tlb"}
  ELSE DOMAIN Handler

RunsP4(d) ==
  /\ Crew = {d} /\ Solo(d)
  /\ \/ program[d] = "p4" /\ pc[d] \in 1 .. 6
     \/ program[d] \in {"p4prog", "p4a", "p4b"} /\ pc[d] \in 1 .. 2
     \/ program[d] \in {"p4mm", "p4sys"} /\ pc[d] \in 1 .. 3
     \/ program[d] = "p4c" /\ pc[d] = 1
  /\ program[d] = "p4sys" /\ pc[d] = 1 => memory["sstat_o"] = 13
  /\ handlers[d] = P4Handlers(program[d], pc[d])

StageD1 ==
  /\ At1("test", 14, 15) /\ Before7
  /\ Awaits("endp4", 0 - Debt(pc[first] >= 15), first)
  /\ \E d \in Process : RunsP4(d)

(* p4 has done its part; p5 and p6 are at their tails from the start.       *)
StageD2 ==
  /\ At1("test", 14, 19) /\ Crew = {} /\ Between7
  /\ pc[first] <= 15 => Has("endp4", 1 - Debt(pc[first] >= 15))
  /\ Has("blkp7", Debt(pc[first] >= 19))

(* Between two families of p7, and at the end.                              *)
StageE ==
  /\ Crew = {} /\ Between7
  /\ \/ At1("p7loop", 1, 1) /\ Has("blkp7", 1)
     \/ /\ At1("p7loop", 2, 4) /\ Has("blkp7", 0)
        /\ pc[first] >= 3 => value["blkp7child"] = 0
        /\ pc[first] >= 4 => value["blkleaves"] = 0
     \/ At1("p7loop", 7, 7) /\ Has("blkp7", 0)
     \/ At1("p7loop", 8, 11) /\ Has("blkp7", 1)
     \/ At1("p1end", 1, 3)
------------------------------------------------------------------------------
(* The family of p7.  A member is named for the variable its pid is in, or  *)
(* for its program; cast says which process it is, and here who lives.      *)
Leaf == {"leaf1pid", "leaf2pid", "leaf3pid", "leaf4pid"}
Child == {"child1", "child2"}
Role == {"p7pid"} \cup Child \cup Leaf

Part(x) == IF x = "p7pid" THEN "p7root" ELSE IF x \in Child THEN x ELSE "p7leaf"

Family(cast, here) ==
  /\ "p7pid" \in here
  /\ \A x, y \in here : cast[x] = cast[y] => x = y
  /\ Crew = {cast[x] : x \in here}
  /\ \A x \in here : program[cast[x]] = Part(x)
  /\ \A x \in here \ Child : memory[x] = cast[x]
  /\ \A q \in alive : cast["p7pid"] \in ancestors[q] <=> q \in Crew
  /\ \A x \in here \cap Leaf : Solo(cast[x])

(* Those of set who have got to place n of their programs.                  *)
Reached(cast, here, set, n) == {x \in here \cap set : pc[cast[x]] >= n}

(* All who are at their last places, in set, wait on k.                     *)
Parks(cast, here, set, n, k) ==
  /\ {cast[x] : x \in Reached(cast, here, set, n)} \subseteq waiting[k]
  /\ waiting[k] \subseteq {cast[x] : x \in here \cap set}
  /\ value[k] = 0 - Cardinality(waiting[k])

(* Places of the leaves and the children, and who has been created.         *)
Grows(cast, here) ==
  LET r == pc[cast["p7pid"]]
  IN  /\ r \in 1 .. 8
      /\ "child1" \in here <=> r >= 3
      /\ "child2" \in here <=> r >= 4
      /\ "leaf1pid" \in here <=> "child1" \in here /\ pc[cast["child1"]] >= 3
      /\ "leaf2pid" \in here <=> "child1" \in here /\ pc[cast["child1"]] >= 4
      /\ "leaf3pid" \in here <=> "child2" \in here /\ pc[cast["child2"]] >= 3
      /\ "leaf4pid" \in here <=> "child2" \in here /\ pc[cast["child2"]] >= 4
      /\ \A x \in here \cap Child : pc[cast[x]] \in 1 .. 5
      /\ \A x \in here \cap Leaf : pc[cast[x]] \in 1 .. 4

Shrinks(cast, here) ==
  LET r == pc[cast["p7pid"]]
  IN  /\ r \in 9 .. 19
      /\ Child \subseteq here
      /\ "leaf1pid" \in here <=> r <= 9
      /\ "leaf2pid" \in here <=> r <= 10
      /\ "leaf3pid" \in here <=> r <= 11
      /\ "leaf4pid" \in here <=> r <= 12
      /\ \A x \in here \cap Child : pc[cast[x]] \in 4 .. 5
      /\ \A x \in here \cap Leaf : pc[cast[x]] \in 3 .. 4

Announced(cast, here) ==
  LET n(x) == Debt(x \in here /\ pc[cast[x]] >= 3)
  IN  n("leaf1pid") + n("leaf2pid") + n("leaf3pid") + n("leaf4pid")

(* What is left of the announcements when p7root has waited for some.       *)
Tickets(cast, here) ==
  LET r == pc[cast["p7pid"]]
  IN  IF r <= 4 THEN Announced(cast, here)
      ELSE IF r <= 8 THEN Announced(cast, here) - (r - 4)
      ELSE 0

Meets(cast, here) ==
  LET r == pc[cast["p7pid"]]
  IN  /\ Awaits("endp7", Debt(r >= 18) - Debt(pc[first] >= 6), first)
      /\ Awaits("blkp7", 0 - Debt(r >= 19), cast["p7pid"])
      /\ Awaits("endcreate", Tickets(cast, here), cast["p7pid"])
      /\ Tickets(cast, here) >= -1
      /\ Parks(cast, here, Child, 5, "blkp7child")
      /\ IF r <= 13 THEN Parks(cast, here, Leaf, 4, "blkleaves") ELSE waiting["blkleaves"] = {}

Plays(cast, here) ==
  /\ Family(cast, here)
  /\ Grows(cast, here) \/ Shrinks(cast, here)
  /\ Meets(cast, here)

StageF ==
  /\ At1("p7loop", 5, 6)
  /\ \E cast \in [Role -> Process], here \in SUBSET Role : Plays(cast, here)
------------------------------------------------------------------------------
Stage == StageA \/ StageB1 \/ StageB2 \/ StageC1 \/ StageC2 \/ StageC3 \/ StageC4
         \/ StageD1 \/ StageD2 \/ StageE \/ StageF

Tree ==
  /\ ancestors[first] = {first}
  /\ \A r \in alive :
       /\ r \in ancestors[r] /\ first \in ancestors[r] /\ ancestors[r] \subseteq alive
       /\ \A a \in ancestors[r] : ancestors[a] \subseteq ancestors[r]

(* Only p4 has handlers.                                                    *)
Specified == \A q \in alive : program[q] \in P4Programs \/ handlers[q] = {}

Printing == {p \in alive : line[p] # 0}

(* The terminal is idle, or it transmits the character of the one who waits *)
(* for it.                                                                  *)
TerminalInv ==
  \/ waiting["terminal"] = {} /\ terminal = 0 /\ value["terminal"] = 0
  \/ \E h \in alive : waiting["terminal"] = {h} /\ terminal = h /\ value["terminal"] = -1

(* Who is in print waits on its two semaphores only, one of them, h, holds  *)
(* the lock, and WAITIO has answered it with its own character.             *)
PrintInv ==
  /\ \A p \in Printing : Calls(p) /\ ~Muted(p)
  /\ \A k \in Sync : waiting[k] \cap Printing = {}
  /\ waiting["term_mut"] \subseteq {p \in alive : line[p] = 1}
  /\ waiting["terminal"] \subseteq {p \in alive : line[p] = 2}
  /\ \A p \in alive : line[p] = 2 => p \in waiting["terminal"] \/ answer[p] = p
  /\ TerminalInv
  /\ \/ Printing = {} /\ value["term_mut"] = 1
     \/ \E h \in Printing : /\ h \notin waiting["term_mut"]
                            /\ Printing = waiting["term_mut"] \cup {h}
                            /\ value["term_mut"] = 0 - Cardinality(waiting["term_mut"])

Types ==
  /\ scenario \in Scenario
  /\ alive \subseteq Process
  /\ value \in [Key -> Int]
  /\ waiting \in [Key -> SUBSET alive]
  /\ program \in [Process -> DOMAIN Text]
  /\ pc \in [Process -> Nat]
  /\ line \in [Process -> 0 .. 3]
  /\ terminal \in Process \cup {0}
  /\ answer \in [Process -> Process \cup {0}]
  /\ handlers \in [Process -> SUBSET DOMAIN Handler]
  /\ memory \in [Variable -> Nat]
  /\ failed = {}
  /\ \A q \in Process \ alive :
       program[q] = "none" /\ pc[q] = 1 /\ line[q] = 0 /\ handlers[q] = {}

Common == Types /\ Tree /\ Specified /\ PrintInv /\ first \in alive

TestInv == Types /\ (alive # {} => Common /\ Tails /\ Stage /\ FewTails)
------------------------------------------------------------------------------
(* A step of p that finds a name for the process it creates.                *)
Acts(p) == Step(p) /\ (Text[program[p]][pc[p]][1] \in {"create", "created"} => Process \ alive # {})

Still == UNCHANGED <<scenario, terminal, answer>>

(* A step of p by the instruction it is at.                                 *)

LEMMA PrintStep ==
  ASSUME NEW p, Acts(p), Calls(p), line[p] \in 0 .. 3, line[p] = 2 => answer[p] = p,
         line[p] # 0 => ~Muted(p)
  PROVE  /\ UNCHANGED <<scenario, program, handlers, memory>> /\ failed' = {}
         /\ \/ Muted(p) /\ Return(p) /\ UNCHANGED <<lifeVars, terminal, answer>>
            \/ /\ ~Muted(p) /\ line[p] = 0 /\ P(p, "term_mut") /\ UNCHANGED <<terminal, answer>>
               /\ line' = [line EXCEPT ![p] = 1] /\ pc' = pc
            \/ /\ ~Muted(p) /\ line[p] = 1 /\ P(p, "terminal")
               /\ terminal' = IF terminal = 0 THEN p ELSE terminal
               /\ answer' = [answer EXCEPT ![p] = 0]
               /\ line' = [line EXCEPT ![p] = 2] /\ pc' = pc
            \/ /\ ~Muted(p) /\ line[p] = 2 /\ UNCHANGED <<lifeVars, terminal, answer>>
               /\ line' = [line EXCEPT ![p] = 3] /\ pc' = pc
            \/ /\ ~Muted(p) /\ line[p] = 3 /\ V(p, "term_mut") /\ Return(p)
               /\ UNCHANGED <<terminal, answer>>
<1>1. Len(print) = 4 /\ print[1] = <<"P", "term_mut">> /\ print[2] = <<"waitio">>
        /\ print[3] = <<"assert", "print">> /\ print[4] = <<"V", "term_mut">>
  BY DEF print
<1>2. instruction(p) = print[line[p] + 1]
  BY DEF instruction
<1>0. failed = {} /\ UNCHANGED scenario
  BY DEF Acts, Step
<1>3. CASE Mute(p)
  <2>1. UNCHANGED <<terminal, answer>>
    BY <1>3, <1>1, <1>2 DEF Mute, Acts, Step, Waitio
  <2> QED
    BY <1>0, <1>3, <2>1 DEF Mute
<1>4. CASE ~Mute(p) /\ line[p] = 0
  <2>1. instruction(p) = <<"P", "term_mut">>
    BY <1>1, <1>2, <1>4
  <2>2. Semaphore(p) /\ UNCHANGED <<terminal, answer>>
    BY <1>4, <2>1 DEF Acts, Step, At, Waitio, Clear, Set, Spawn, KillPid, Exit, Exception,
                      SpecPassUp, Check, Branch
  <2> QED
    BY <1>0, <1>1, <1>4, <2>1, <2>2 DEF Semaphore, At, Advance
<1>5. CASE ~Mute(p) /\ line[p] = 1
  <2>1. instruction(p) = <<"waitio">>
    BY <1>1, <1>2, <1>5
  <2>2. Waitio(p)
    BY <1>5, <2>1 DEF Acts, Step, At, Semaphore, Clear, Set, Spawn, KillPid, Exit, Exception,
                      SpecPassUp, Check, Branch
  <2> QED
    BY <1>0, <1>1, <1>5, <2>1, <2>2 DEF Waitio, Advance
<1>6. CASE ~Mute(p) /\ line[p] = 2
  <2>1. instruction(p) = <<"assert", "print">>
    BY <1>1, <1>2, <1>6
  <2>2. Check(p) /\ UNCHANGED <<terminal, answer>>
    BY <1>6, <2>1 DEF Acts, Step, At, Waitio, Semaphore, Clear, Set, Spawn, KillPid, Exit, Exception,
                      SpecPassUp, Branch
  <2>3. instruction(p)[1] = "assert" /\ instruction(p)[2] = "print" /\ Holds("print", p)
    BY <1>6, <2>1 DEF Holds
  <2> QED
    BY <1>0, <1>1, <1>6, <2>2, <2>3 DEF Check, At, Advance
<1>7. CASE ~Mute(p) /\ line[p] = 3
  <2>1. instruction(p) = <<"V", "term_mut">>
    BY <1>1, <1>2, <1>7
  <2>2. Semaphore(p) /\ UNCHANGED <<terminal, answer>>
    BY <1>7, <2>1 DEF Acts, Step, At, Waitio, Clear, Set, Spawn, KillPid, Exit, Exception,
                      SpecPassUp, Check, Branch
  <2> QED
    BY <1>0, <1>1, <1>7, <2>1, <2>2 DEF Semaphore, At, Advance
<1>8. line[p] = 0 \/ line[p] = 1 \/ line[p] = 2 \/ line[p] = 3
  OBVIOUS
<1> QED
  BY <1>3, <1>4, <1>5, <1>6, <1>7, <1>8

LEMMA PStep ==
  ASSUME NEW p, NEW k, Acts(p), Text[program[p]][pc[p]] = <<"P", k>>
  PROVE  P(p, k) /\ Return(p) /\ Still /\ UNCHANGED <<program, handlers, memory, failed>>
<1>1. ~Calls(p) /\ instruction(p) = <<"P", k>>
  BY DEF Calls, instruction
<1> QED
  BY <1>1 DEF Acts, Step, Still, At, Waitio, Mute, Muted, Semaphore, Clear, Set, Spawn,
              KillPid, Exit, Exception, SpecPassUp, Check, Branch, Advance

LEMMA VStep ==
  ASSUME NEW p, NEW k, Acts(p), Text[program[p]][pc[p]] = <<"V", k>>
  PROVE  V(p, k) /\ Return(p) /\ Still /\ UNCHANGED <<program, handlers, memory, failed>>
<1>1. ~Calls(p) /\ instruction(p) = <<"V", k>>
  BY DEF Calls, instruction
<1> QED
  BY <1>1 DEF Acts, Step, Still, At, Waitio, Mute, Muted, Semaphore, Clear, Set, Spawn,
              KillPid, Exit, Exception, SpecPassUp, Check, Branch, Advance

LEMMA ClearStep ==
  ASSUME NEW p, NEW k, Acts(p), Text[program[p]][pc[p]] = <<"clear", k>>
  PROVE  /\ Return(p) /\ value' = [value EXCEPT ![k] = 0]
         /\ Still /\ UNCHANGED <<ancestors, waiting, program, handlers, memory, failed>>
<1>1. ~Calls(p) /\ instruction(p) = <<"clear", k>>
  BY DEF Calls, instruction
<1> QED
  BY <1>1 DEF Acts, Step, Still, At, Waitio, Mute, Muted, Semaphore, Clear, Set, Spawn,
              KillPid, Exit, Exception, SpecPassUp, Check, Branch, Advance

LEMMA SetStep ==
  ASSUME NEW p, NEW v, Acts(p), Text[program[p]][pc[p]] = <<"set", v>>
  PROVE  /\ Return(p) /\ memory' = [memory EXCEPT ![v] = @ + 1]
         /\ Still /\ UNCHANGED <<lifeVars, program, handlers, failed>>
<1>1. ~Calls(p) /\ instruction(p) = <<"set", v>>
  BY DEF Calls, instruction
<1> QED
  BY <1>1 DEF Acts, Step, Still, At, Waitio, Mute, Muted, Semaphore, Clear, Set, Spawn,
              KillPid, Exit, Exception, SpecPassUp, Check, Branch, Advance

LEMMA CreateStep ==
  ASSUME NEW p, NEW q, NEW v, NEW op \in {"create", "created"}, Acts(p),
         Text[program[p]][pc[p]] = <<op, q, v>>
  PROVE  \E new \in Process \ alive :
           /\ Create(p, new)
           /\ program' = [program EXCEPT ![new] = q]
           /\ pc' = [pc EXCEPT ![p] = @ + 1, ![new] = 1]
           /\ memory' = [u \in DOMAIN memory |-> IF u = v THEN new ELSE memory[u]]
           /\ Still /\ UNCHANGED <<line, handlers, failed>>
<1>1. ~Calls(p) /\ instruction(p) = <<op, q, v>>
  BY DEF Calls, instruction
<1>2. Spawn(p) /\ Still
  BY <1>1 DEF Acts, Step, Still, At, Waitio, Mute, Muted, Semaphore, Clear, Set,
              KillPid, Exit, Exception, SpecPassUp, Check, Branch
<1>3. instruction(p)[2] = q /\ instruction(p)[3] = v
  BY <1>1
<1>4. Process \ alive # {}
  BY DEF Acts
<1> QED
  BY <1>2, <1>3, <1>4 DEF Spawn

LEMMA KillStep ==
  ASSUME NEW p, NEW v, NEW op \in {"kill", "killed"}, Acts(p),
         Text[program[p]][pc[p]] = <<op, v>>, memory[v] \in alive, memory[v] # 0
  PROVE  Kill(p, memory[v]) /\ Still
<1>1. ~Calls(p) /\ instruction(p) = <<op, v>>
  BY DEF Calls, instruction
<1> QED
  BY <1>1 DEF Acts, Step, Still, At, Waitio, Mute, Muted, Semaphore, Clear, Set, Spawn,
              KillPid, Exit, Exception, SpecPassUp, Check, Branch

LEMMA ExitStep ==
  ASSUME NEW p, Acts(p), Text[program[p]][pc[p]] = <<"exit">>
  PROVE  Kill(p, p) /\ Still
<1>1. ~Calls(p) /\ instruction(p) = <<"exit">>
  BY DEF Calls, instruction
<1> QED
  BY <1>1 DEF Acts, Step, Still, At, Waitio, Mute, Muted, Semaphore, Clear, Set, Spawn,
              KillPid, Exit, Exception, SpecPassUp, Check, Branch

LEMMA ExceptionStep ==
  ASSUME NEW p, NEW t \in {"trap", "tlb"}, Acts(p), Text[program[p]][pc[p]] = <<"exception", t>>
  PROVE  /\ Still
         /\ t \notin handlers[p] => Kill(p, p)
         /\ t \in handlers[p] => Jump(p, Handler[t]) /\ UNCHANGED <<lifeVars, memory, failed>>
<1>1. ~Calls(p) /\ instruction(p) = <<"exception", t>>
  BY DEF Calls, instruction
<1>2. Exception(p) /\ Still
  BY <1>1 DEF Acts, Step, Still, At, Waitio, Mute, Muted, Semaphore, Clear, Set, Spawn,
              KillPid, Exit, SpecPassUp, Check, Branch
<1>3. instruction(p)[2] = t /\ t # "sys"
  BY <1>1
<1> QED
  BY <1>2, <1>3 DEF Exception

LEMMA UnknownStep ==
  ASSUME NEW p, NEW c, Acts(p), Text[program[p]][pc[p]] = <<"exception", "sys", c>>
  PROVE  /\ Still
         /\ "sys" \notin handlers[p] => Kill(p, p)
         /\ "sys" \in handlers[p] =>
              /\ Jump(p, "p4sys") /\ memory' = [memory EXCEPT !["sstat_o"] = c]
              /\ UNCHANGED <<lifeVars, failed>>
<1>1. ~Calls(p) /\ instruction(p) = <<"exception", "sys", c>>
  BY DEF Calls, instruction
<1>2. Exception(p) /\ Still
  BY <1>1 DEF Acts, Step, Still, At, Waitio, Mute, Muted, Semaphore, Clear, Set, Spawn,
              KillPid, Exit, SpecPassUp, Check, Branch
<1>3. instruction(p)[2] = "sys" /\ instruction(p)[3] = c /\ Handler["sys"] = "p4sys"
  BY <1>1 DEF Handler
<1> QED
  BY <1>2, <1>3 DEF Exception

LEMMA SpecPassUpStep ==
  ASSUME NEW p, NEW t, Acts(p), Text[program[p]][pc[p]] = <<"specpassup", t>>
  PROVE  /\ Still
         /\ t \in handlers[p] => Kill(p, p)
         /\ t \notin handlers[p] =>
              /\ handlers' = [handlers EXCEPT ![p] = @ \cup {t}]
              /\ pc' = [pc EXCEPT ![p] = @ + 1]
              /\ UNCHANGED <<lifeVars, program, line, memory, failed>>
<1>1. ~Calls(p) /\ instruction(p) = <<"specpassup", t>>
  BY DEF Calls, instruction
<1> QED
  BY <1>1 DEF Acts, Step, Still, At, Waitio, Mute, Muted, Semaphore, Clear, Set, Spawn,
              KillPid, Exit, Exception, SpecPassUp, Check, Branch

LEMMA AssertStep ==
  ASSUME NEW p, NEW c, Acts(p), Text[program[p]][pc[p]] = <<"assert", c>>, Holds(c, p)
  PROVE  failed' = {} /\ Return(p) /\ Still /\ UNCHANGED <<lifeVars, program, handlers, memory>>
<1>1. ~Calls(p) /\ instruction(p) = <<"assert", c>>
  BY DEF Calls, instruction
<1>2. instruction(p)[2] = c
  BY <1>1
<1>3. Check(p) /\ Still /\ ~At(p, "panic")
  BY <1>1 DEF Acts, Step, Still, At, Waitio, Mute, Muted, Semaphore, Clear, Set, Spawn,
              KillPid, Exit, Exception, SpecPassUp, Branch
<1> QED
  BY <1>1, <1>2, <1>3 DEF Check, Advance

LEMMA JumpStep ==
  ASSUME NEW p, NEW q, Acts(p), Text[program[p]][pc[p]] = <<"jump", q>>
  PROVE  Jump(p, q) /\ Still /\ UNCHANGED <<lifeVars, memory, failed>>
<1>1. ~Calls(p) /\ instruction(p) = <<"jump", q>>
  BY DEF Calls, instruction
<1> QED
  BY <1>1 DEF Acts, Step, Still, At, Waitio, Mute, Muted, Semaphore, Clear, Set, Spawn,
              KillPid, Exit, Exception, SpecPassUp, Check, Branch

LEMMA SwitchStep ==
  ASSUME NEW p, NEW v, NEW q, NEW r, Acts(p), Text[program[p]][pc[p]] = <<"switch", v, q, r>>,
         memory[v] \in 1 .. 2
  PROVE  /\ Jump(p, IF memory[v] = 1 THEN q ELSE r)
         /\ Still /\ UNCHANGED <<lifeVars, memory, failed>>
<1>1. ~Calls(p) /\ instruction(p) = <<"switch", v, q, r>>
  BY DEF Calls, instruction
<1>2. instruction(p)[2] = v /\ instruction(p)[3] = q /\ instruction(p)[4] = r
  BY <1>1
<1>3. /\ Jump(p, instruction(p)[memory[instruction(p)[2]] + 2])
      /\ Still /\ UNCHANGED <<lifeVars, memory, failed>>
  BY <1>1 DEF Acts, Step, Still, At, Waitio, Mute, Muted, Semaphore, Clear, Set, Spawn,
              KillPid, Exit, Exception, SpecPassUp, Check, Branch
<1>4. memory[v] = 1 \/ memory[v] = 2
  OBVIOUS
<1>5. instruction(p)[memory[v] + 2] = IF memory[v] = 1 THEN q ELSE r
  BY <1>2, <1>4
<1> QED
  BY <1>2, <1>3, <1>5

LEMMA WhileStep ==
  ASSUME NEW p, NEW q, NEW r, Acts(p), Text[program[p]][pc[p]] = <<"while", q, r>>
  PROVE  /\ Jump(p, q) \/ Jump(p, r)
         /\ Still /\ UNCHANGED <<lifeVars, memory, failed>>
<1>1. ~Calls(p) /\ instruction(p) = <<"while", q, r>>
  BY DEF Calls, instruction
<1>2. instruction(p)[2] = q /\ instruction(p)[3] = r
  BY <1>1
<1> QED
  BY <1>1, <1>2 DEF Acts, Step, Still, At, Waitio, Mute, Muted, Semaphore, Clear, Set, Spawn,
              KillPid, Exit, Exception, SpecPassUp, Check, Branch
------------------------------------------------------------------------------
(* What every step keeps, whatever p1 is at.                                *)

LEMMA KeyFact == Sync \subseteq Key /\ "term_mut" \in Key /\ "terminal" \in Key
                 /\ Key = Sync \cup {"term_mut", "terminal"} /\ Key = Semaphores
                 /\ "term_mut" \notin Sync /\ "terminal" \notin Sync
  BY TestAssumption DEF Semaphores, Sync

LEMMA ProcessFact == Process \subseteq Nat /\ 0 \notin Process /\ IsFiniteSet(Process)
  BY TestAssumption

LEMMA QuietFact ==
  ASSUME Common, NEW p \in alive, ~Calls(p)
  PROVE  line[p] = 0 /\ p \notin Printing
  BY DEF Common, Types, PrintInv, Printing

LEMMA NoCall ==
  ASSUME NEW p, NEW k, Text[program[p]][pc[p]] = <<"P", k>>
  PROVE  ~Calls(p)
BY DEF Calls

(* PrintInv does not see what happens outside print.                        *)
LEMMA PrintKeep ==
  ASSUME PrintInv, Still, Printing' = Printing,
         \A q \in Printing : line'[q] = line[q] /\ program'[q] = program[q] /\ pc'[q] = pc[q],
         \A k \in Sync : waiting'[k] \cap Printing = {},
         value'["term_mut"] = value["term_mut"],
         value'["terminal"] = value["terminal"],
         waiting'["term_mut"] = waiting["term_mut"], waiting'["terminal"] = waiting["terminal"],
         waiting["terminal"] \subseteq alive'
  PROVE  PrintInv'
<1>1. \A q \in Printing' : Calls(q)' /\ ~Muted(q)'
  BY DEF PrintInv, Calls, Muted, Still
<1>5. \A q \in alive' : line'[q] = 2 => q \in waiting'["terminal"] \/ answer'[q] = q
  BY DEF PrintInv, Printing, Still
<1>6. TerminalInv'
  BY DEF PrintInv, TerminalInv, Still
<1>2. waiting'["term_mut"] \subseteq {q \in alive : line[q] = 1}'
  BY DEF PrintInv, Printing
<1>3. waiting'["terminal"] \subseteq {q \in alive : line[q] = 2}'
  BY DEF PrintInv, Printing
<1>4. \/ Printing' = {} /\ value'["term_mut"] = 1
      \/ \E h \in Printing' : /\ h \notin waiting'["term_mut"]
                              /\ Printing' = waiting'["term_mut"] \cup {h}
                              /\ value'["term_mut"] = 0 - Cardinality(waiting'["term_mut"])
  BY DEF PrintInv
<1> QED
  BY <1>1, <1>2, <1>3, <1>4, <1>5, <1>6 DEF PrintInv

(* A step of p outside print that creates and kills nobody.                 *)
LEMMA MoveCommon ==
  ASSUME Common, NEW p \in alive, line[p] = 0,
         NEW prog \in DOMAIN Text, NEW i \in Nat, NEW hs \in SUBSET DOMAIN Handler,
         Still, ancestors' = ancestors, line' = line, failed' = {},
         program' = [program EXCEPT ![p] = prog], pc' = [pc EXCEPT ![p] = i],
         handlers' = [handlers EXCEPT ![p] = hs], prog \in P4Programs \/ hs = {},
         memory' \in [Variable -> Nat],
         value' \in [Key -> Int], value'["term_mut"] = value["term_mut"],
         value'["terminal"] = value["terminal"],
         waiting' \in [Key -> SUBSET alive], \A k \in Sync : waiting'[k] \subseteq waiting[k] \cup {p},
         waiting'["term_mut"] = waiting["term_mut"], waiting'["terminal"] = waiting["terminal"]
  PROVE  Common'
<1>a. Types /\ Tree /\ Specified /\ PrintInv /\ first \in alive
  BY DEF Common
<1>b. alive' = alive
  BY DEF alive
<1>c. p \notin Printing
  BY DEF Printing
<1>d. p \in Process
  BY <1>a DEF Types
<1>1. Types'
  BY <1>a, <1>b, <1>d DEF Types, Still
<1>2. Tree'
  BY <1>a, <1>b DEF Tree
<1>3. Specified'
  BY <1>a, <1>b, <1>d DEF Specified, Types
<1>4. PrintInv'
  <2>1. Printing' = Printing
    BY <1>b DEF Printing
  <2>2. \A q \in Printing : line'[q] = line[q] /\ program'[q] = program[q] /\ pc'[q] = pc[q]
    BY <1>a, <1>c DEF Types, Printing
  <2>3. \A k \in Sync : waiting'[k] \cap Printing = {}
    BY <1>a, <1>c DEF PrintInv
  <2>4. waiting["terminal"] \subseteq alive'
    BY <1>a, <1>b DEF PrintInv
  <2> QED
    BY <1>a, <2>1, <2>2, <2>3, <2>4, PrintKeep
<1> QED
  BY <1>a, <1>b, <1>1, <1>2, <1>3, <1>4 DEF Common

(* p creates new.                                                           *)
LEMMA CreateCommon ==
  ASSUME Common, NEW p \in alive, ~Calls(p), NEW new \in Process \ alive,
         NEW prog \in DOMAIN Text, Create(p, new),
         program' = [program EXCEPT ![new] = prog],
         pc' = [pc EXCEPT ![p] = @ + 1, ![new] = 1],
         Still /\ UNCHANGED <<line, handlers, failed>>, memory' \in [Variable -> Nat]
  PROVE  /\ Common' /\ alive' = alive \cup {new}
         /\ ancestors'[new] = ancestors[p] \cup {new}
         /\ \A q \in alive : ancestors'[q] = ancestors[q]
<1>a. Types /\ Tree /\ Specified /\ PrintInv /\ first \in alive
  BY DEF Common
<1>b. /\ alive' = alive \cup {new}
      /\ ancestors'[new] = ancestors[p] \cup {new}
      /\ \A q \in alive : ancestors'[q] = ancestors[q]
  BY DEF alive, Create
<1>c. p \notin Printing
  BY QuietFact
<1>d. p \in Process /\ p # new
  BY <1>a DEF Types
<1>e. UNCHANGED <<value, waiting>>
  BY DEF Create
<1>1. Types'
  BY <1>a, <1>b, <1>d, <1>e DEF Types, Still
<1>2. Tree'
  <2>0. ancestors'[first] = {first}
    BY <1>a, <1>b DEF Tree
  <2> SUFFICES ASSUME NEW r \in alive'
               PROVE  /\ r \in ancestors'[r] /\ first \in ancestors'[r] /\ ancestors'[r] \subseteq alive'
                      /\ \A a \in ancestors'[r] : ancestors'[a] \subseteq ancestors'[r]
    BY <2>0 DEF Tree
  <2>1. CASE r = new
    BY <1>a, <1>b, <2>1 DEF Tree
  <2>2. CASE r \in alive
    BY <1>a, <1>b, <2>2 DEF Tree
  <2> QED
    BY <1>b, <2>1, <2>2
<1>3. Specified'
  BY <1>a, <1>b, <1>d DEF Specified, Types
<1>4. PrintInv'
  <2>1. Printing' = Printing
    BY <1>a, <1>b DEF Printing, Types
  <2>2. \A q \in Printing : line'[q] = line[q] /\ program'[q] = program[q] /\ pc'[q] = pc[q]
    BY <1>a, <1>c DEF Types, Printing
  <2>3. \A k \in Sync : waiting'[k] \cap Printing = {}
    BY <1>a, <1>c, <1>e DEF PrintInv
  <2>4. waiting["terminal"] \subseteq alive'
    BY <1>a, <1>b DEF PrintInv
  <2> QED
    BY <1>a, <1>e, <2>1, <2>2, <2>3, <2>4, PrintKeep
<1> QED
  BY <1>a, <1>b, <1>1, <1>2, <1>3, <1>4 DEF Common

LEMMA NoneWaiting ==
  ASSUME NEW w, NEW d, w \cap d = {}
  PROVE  Cardinality(w \cap d) = 0 /\ w \ d = w
  BY FS_EmptySet

(* What is left when the family of victim is gone.                          *)
LEMMA KillEffect ==
  ASSUME Types, Tree, NEW p \in alive, NEW victim \in alive, Kill(p, victim), Still
  PROVE  /\ Types'
         /\ alive' = alive \ Offspring(victim)
         /\ \A q \in alive' : /\ ancestors'[q] = ancestors[q] /\ program'[q] = program[q]
                              /\ handlers'[q] = handlers[q] /\ line'[q] = line[q]
                              /\ pc'[q] = IF q = p THEN pc[q] + 1 ELSE pc[q]
         /\ \A k \in Key : /\ waiting'[k] = waiting[k] \ Offspring(victim)
                           /\ value'[k] = value[k] + Cardinality(waiting[k] \cap Offspring(victim))
         /\ UNCHANGED <<memory, failed>>
<1> DEFINE dead == Offspring(victim)
<1>1. /\ alive' = alive \ dead
      /\ \A q \in alive' : ancestors'[q] = ancestors[q]
  BY DEF alive, Kill, Terminate
<1>2. \A q \in alive' : q \in Process
  BY <1>1 DEF Types
<1>3. \A q \in alive' : /\ program'[q] = program[q]
                        /\ handlers'[q] = handlers[q] /\ line'[q] = line[q]
                        /\ pc'[q] = IF q = p THEN pc[q] + 1 ELSE pc[q]
  BY <1>2 DEF Kill
<1>4. \A k \in Key : /\ waiting'[k] = waiting[k] \ dead
                     /\ value'[k] = value[k] + Cardinality(waiting[k] \cap dead)
  BY DEF Kill, Terminate
<1>5. Types'
  <2>1. \A k \in Key : Cardinality(waiting[k] \cap dead) \in Nat
    <3> SUFFICES ASSUME NEW k \in Key PROVE Cardinality(waiting[k] \cap dead) \in Nat
      OBVIOUS
    <3>1. waiting[k] \cap dead \subseteq Process
      BY DEF Types
    <3> QED
      BY <3>1, ProcessFact, FS_Subset, FS_CardinalityType
  <2>2. value' \in [Key -> Int]
    <3>1. value' = [k \in Key |-> value[k] + Cardinality(waiting[k] \cap dead)]
      BY DEF Kill, Terminate
    <3>2. \A k \in Key : value[k] + Cardinality(waiting[k] \cap dead) \in Int
      BY <2>1 DEF Types
    <3> HIDE DEF dead
    <3> QED
      BY <3>1, <3>2
  <2>3. waiting' \in [Key -> SUBSET alive']
    <3>1. waiting' = [k \in Key |-> waiting[k] \ dead]
      BY DEF Kill, Terminate
    <3> HIDE DEF dead
    <3> QED
      BY <1>1, <3>1 DEF Types
  <2>4. alive' \subseteq Process
    BY <1>1 DEF Types
  <2>5. /\ program' \in [Process -> DOMAIN Text] /\ pc' \in [Process -> Nat]
        /\ line' \in [Process -> 0 .. 3] /\ handlers' \in [Process -> SUBSET DOMAIN Handler]
    BY DEF Kill, Types, Text
  <2>6. \A q \in Process \ alive' :
          program'[q] = "none" /\ pc'[q] = 1 /\ line'[q] = 0 /\ handlers'[q] = {}
    BY DEF Kill
  <2> QED
    BY <2>2, <2>3, <2>4, <2>5, <2>6 DEF Types, Kill, Still
<1> QED
  BY <1>1, <1>3, <1>4, <1>5 DEF Kill

LEMMA KillCommon ==
  ASSUME Common, NEW p \in alive, ~Calls(p), NEW victim \in alive, Kill(p, victim), Still,
         victim # first, Offspring(victim) \cap Printing = {}
  PROVE  Common'
<1> DEFINE dead == Offspring(victim)
<1>a. Types /\ Tree /\ Specified /\ PrintInv /\ first \in alive
  BY DEF Common
<1>b. /\ Types'
      /\ alive' = alive \ dead
      /\ \A q \in alive' : /\ ancestors'[q] = ancestors[q] /\ program'[q] = program[q]
                           /\ handlers'[q] = handlers[q] /\ line'[q] = line[q]
                           /\ pc'[q] = IF q = p THEN pc[q] + 1 ELSE pc[q]
      /\ \A k \in Key : /\ waiting'[k] = waiting[k] \ dead
                        /\ value'[k] = value[k] + Cardinality(waiting[k] \cap dead)
  BY <1>a, KillEffect
<1>c. p \notin Printing
  BY QuietFact
<1>d. dead \cap Printing = {} /\ \A q \in dead : q \in alive /\ victim \in ancestors[q]
  BY DEF Offspring
<1>e. \A q \in alive \ dead : victim \notin ancestors[q]
  BY DEF Offspring
<1> HIDE DEF dead
<1>5. first \in alive'
  <2>1. first \notin dead
    <3> SUFFICES ASSUME first \in dead PROVE FALSE
      OBVIOUS
    <3> QED
      BY <1>a, <1>d DEF Tree
  <2> QED
    BY <1>a, <1>b, <2>1
<1>2. Tree'
  <2>0. ancestors'[first] = {first}
    BY <1>a, <1>b, <1>5 DEF Tree
  <2> SUFFICES ASSUME NEW r \in alive'
               PROVE  /\ r \in ancestors'[r] /\ first \in ancestors'[r] /\ ancestors'[r] \subseteq alive'
                      /\ \A a \in ancestors'[r] : ancestors'[a] \subseteq ancestors'[r]
    BY <2>0 DEF Tree
  <2>1. r \in alive /\ ancestors'[r] = ancestors[r] /\ victim \notin ancestors[r]
    BY <1>b, <1>e
  <2>2. \A a \in ancestors[r] : a \in alive /\ a \notin dead
    BY <1>a, <1>d, <2>1 DEF Tree
  <2> QED
    BY <1>a, <1>b, <2>1, <2>2 DEF Tree
<1>3. Specified'
  BY <1>a, <1>b DEF Specified
<1>4. PrintInv'
  <2>1. Printing' = Printing
    BY <1>a, <1>b, <1>d DEF Printing
  <2>2. \A q \in Printing : line'[q] = line[q] /\ program'[q] = program[q] /\ pc'[q] = pc[q]
    BY <1>b, <1>c, <2>1 DEF Printing
  <2>3. \A k \in Sync : waiting'[k] \cap Printing = {}
    BY <1>a, <1>b, KeyFact DEF PrintInv
  <2>4. waiting["term_mut"] \cap dead = {} /\ waiting["terminal"] \cap dead = {}
    BY <1>a, <1>d DEF PrintInv, Printing
  <2>6. /\ Cardinality(waiting["term_mut"] \cap dead) = 0 /\ value["term_mut"] \in Int
        /\ Cardinality(waiting["terminal"] \cap dead) = 0 /\ value["terminal"] \in Int
    BY <1>a, <2>4, KeyFact, NoneWaiting DEF Types
  <2>5. /\ value'["term_mut"] = value["term_mut"] /\ value'["terminal"] = value["terminal"]
        /\ waiting'["term_mut"] = waiting["term_mut"] /\ waiting'["terminal"] = waiting["terminal"]
    <3> SUFFICES ASSUME NEW k \in {"term_mut", "terminal"}
                 PROVE  value'[k] = value[k] /\ waiting'[k] = waiting[k]
      OBVIOUS
    <3>1. waiting[k] \cap dead = {} /\ Cardinality(waiting[k] \cap dead) = 0 /\ value[k] \in Int
      BY <2>4, <2>6
    <3>2. waiting'[k] = waiting[k] \ dead /\ value'[k] = value[k] + Cardinality(waiting[k] \cap dead)
      BY <1>b, KeyFact
    <3> QED
      BY <3>1, <3>2
  <2>7. waiting["terminal"] \subseteq alive'
    BY <1>a, <1>b, <2>4 DEF PrintInv
  <2> QED
    BY <1>a, <2>1, <2>2, <2>3, <2>5, <2>7, PrintKeep
<1> QED
  BY <1>b, <1>2, <1>3, <1>4, <1>5 DEF Common
(* p goes on to its next instruction.                                       *)
Passes(p) ==
  /\ alive' = alive
  /\ UNCHANGED <<ancestors, program, handlers>>
  /\ pc' = [pc EXCEPT ![p] = @ + 1]

(* p goes on with another program.                                          *)
Turns(p, prog) ==
  /\ alive' = alive
  /\ UNCHANGED <<ancestors, value, waiting, handlers, memory>>
  /\ program' = [program EXCEPT ![p] = prog]
  /\ pc' = [pc EXCEPT ![p] = 1]

SameSync == \A k \in Sync : value'[k] = value[k] /\ waiting'[k] = waiting[k]

LEMMA ReturnQuiet ==
  ASSUME Types, NEW p \in alive, line[p] = 0, Return(p)
  PROVE  line' = line /\ pc' = [pc EXCEPT ![p] = pc[p] + 1] /\ pc[p] + 1 \in Nat /\ p \in Process
  BY DEF Types, Return

LEMMA PassCommon ==
  ASSUME Common, NEW p \in alive, line[p] = 0, Return(p),
         Still /\ UNCHANGED <<ancestors, program, handlers>>, failed' = {},
         memory' \in [Variable -> Nat],
         value' \in [Key -> Int], value'["term_mut"] = value["term_mut"],
         value'["terminal"] = value["terminal"],
         waiting' \in [Key -> SUBSET alive], \A k \in Sync : waiting'[k] \subseteq waiting[k] \cup {p},
         waiting'["term_mut"] = waiting["term_mut"], waiting'["terminal"] = waiting["terminal"]
  PROVE  Common' /\ Passes(p)
<1>1. Types /\ Specified
  BY DEF Common
<1>2. line' = line /\ pc' = [pc EXCEPT ![p] = pc[p] + 1] /\ pc[p] + 1 \in Nat /\ p \in Process
  BY <1>1, ReturnQuiet
<1>3. program' = [program EXCEPT ![p] = program[p]] /\ handlers' = [handlers EXCEPT ![p] = handlers[p]]
  BY <1>1 DEF Types
<1>4. program[p] \in DOMAIN Text /\ handlers[p] \in SUBSET DOMAIN Handler
  BY <1>1, <1>2 DEF Types
<1>5. program[p] \in P4Programs \/ handlers[p] = {}
  BY <1>1 DEF Specified
<1>6. Common'
  BY <1>2, <1>3, <1>4, <1>5, MoveCommon
<1> QED
  BY <1>2, <1>6 DEF Passes, alive

LEMMA PPlace ==
  ASSUME Common, NEW p \in alive, NEW k \in Sync, Acts(p), Text[program[p]][pc[p]] = <<"P", k>>
  PROVE  /\ Common' /\ Passes(p) /\ memory' = memory
         /\ value' = [value EXCEPT ![k] = @ - 1]
         /\ waiting' = IF value[k] > 0 THEN waiting ELSE [waiting EXCEPT ![k] = @ \cup {p}]
<1>1. P(p, k) /\ Return(p) /\ Still /\ UNCHANGED <<program, handlers, memory, failed>>
  BY PStep
<1>2. line[p] = 0
  BY QuietFact DEF Calls
<1>3. /\ value' = [value EXCEPT ![k] = @ - 1] /\ ancestors' = ancestors
      /\ waiting' = IF value[k] > 0 THEN waiting ELSE [waiting EXCEPT ![k] = @ \cup {p}]
  BY <1>1 DEF P, Common, Types
<1>4. Types
  BY DEF Common
<1>5. /\ value' \in [Key -> Int] /\ value'["term_mut"] = value["term_mut"]
      /\ value'["terminal"] = value["terminal"]
      /\ waiting' \in [Key -> SUBSET alive] /\ \A j \in Sync : waiting'[j] \subseteq waiting[j] \cup {p}
      /\ waiting'["term_mut"] = waiting["term_mut"] /\ waiting'["terminal"] = waiting["terminal"]
  BY <1>3, <1>4, KeyFact DEF Types
<1>6. memory' \in [Variable -> Nat] /\ failed' = {}
  BY <1>1, <1>4 DEF Types
<1> QED
  BY <1>1, <1>2, <1>3, <1>5, <1>6, PassCommon

LEMMA VPlace ==
  ASSUME Common, NEW p \in alive, NEW k \in Sync, Acts(p), Text[program[p]][pc[p]] = <<"V", k>>
  PROVE  /\ Common' /\ Passes(p) /\ memory' = memory
         /\ value' = [value EXCEPT ![k] = @ + 1]
         /\ \/ waiting[k] = {} /\ waiting' = waiting
            \/ \E q \in waiting[k] : waiting' = [waiting EXCEPT ![k] = @ \ {q}]
<1>1. V(p, k) /\ Return(p) /\ Still /\ UNCHANGED <<program, handlers, memory, failed>>
  BY VStep
<1>2. line[p] = 0
  BY QuietFact DEF Calls
<1>3. /\ value' = [value EXCEPT ![k] = @ + 1] /\ ancestors' = ancestors
      /\ \/ waiting[k] = {} /\ waiting' = waiting
         \/ \E q \in waiting[k] : waiting' = [waiting EXCEPT ![k] = @ \ {q}]
  BY <1>1 DEF V, Release
<1>4. Types
  BY DEF Common
<1>5. /\ value' \in [Key -> Int] /\ value'["term_mut"] = value["term_mut"]
      /\ value'["terminal"] = value["terminal"]
      /\ waiting' \in [Key -> SUBSET alive] /\ \A j \in Sync : waiting'[j] \subseteq waiting[j] \cup {p}
      /\ waiting'["term_mut"] = waiting["term_mut"] /\ waiting'["terminal"] = waiting["terminal"]
  BY <1>3, <1>4, KeyFact DEF Types
<1>6. memory' \in [Variable -> Nat] /\ failed' = {}
  BY <1>1, <1>4 DEF Types
<1> QED
  BY <1>1, <1>2, <1>3, <1>5, <1>6, PassCommon

LEMMA ClearPlace ==
  ASSUME Common, NEW p \in alive, NEW k \in Sync, Acts(p), Text[program[p]][pc[p]] = <<"clear", k>>
  PROVE  /\ Common' /\ Passes(p) /\ UNCHANGED <<memory, waiting>>
         /\ value' = [value EXCEPT ![k] = 0]
<1>1. /\ Return(p) /\ value' = [value EXCEPT ![k] = 0]
      /\ Still /\ UNCHANGED <<ancestors, waiting, program, handlers, memory, failed>>
  BY ClearStep
<1>2. line[p] = 0
  BY QuietFact DEF Calls
<1>4. Types
  BY DEF Common
<1>5. /\ value' \in [Key -> Int] /\ value'["term_mut"] = value["term_mut"]
      /\ value'["terminal"] = value["terminal"]
      /\ waiting' \in [Key -> SUBSET alive] /\ \A j \in Sync : waiting'[j] \subseteq waiting[j] \cup {p}
      /\ waiting'["term_mut"] = waiting["term_mut"] /\ waiting'["terminal"] = waiting["terminal"]
  BY <1>1, <1>4, KeyFact DEF Types
<1>6. memory' \in [Variable -> Nat] /\ failed' = {}
  BY <1>1, <1>4 DEF Types
<1> QED
  BY <1>1, <1>2, <1>5, <1>6, PassCommon

LEMMA SetPlace ==
  ASSUME Common, NEW p \in alive, NEW v \in Variable, Acts(p), Text[program[p]][pc[p]] = <<"set", v>>
  PROVE  /\ Common' /\ Passes(p) /\ UNCHANGED <<value, waiting>>
         /\ memory' = [memory EXCEPT ![v] = @ + 1]
<1>1. /\ Return(p) /\ memory' = [memory EXCEPT ![v] = @ + 1]
      /\ Still /\ UNCHANGED <<lifeVars, program, handlers, failed>>
  BY SetStep
<1>2. line[p] = 0
  BY QuietFact DEF Calls
<1>3. UNCHANGED <<ancestors, value, waiting>>
  BY <1>1 DEF lifeVars
<1>4. Types
  BY DEF Common
<1>5. /\ value' \in [Key -> Int] /\ value'["term_mut"] = value["term_mut"]
      /\ value'["terminal"] = value["terminal"]
      /\ waiting' \in [Key -> SUBSET alive] /\ \A j \in Sync : waiting'[j] \subseteq waiting[j] \cup {p}
      /\ waiting'["term_mut"] = waiting["term_mut"] /\ waiting'["terminal"] = waiting["terminal"]
  BY <1>3, <1>4 DEF Types
<1>6. memory' \in [Variable -> Nat] /\ failed' = {}
  BY <1>1, <1>4 DEF Types
<1> QED
  BY <1>1, <1>2, <1>3, <1>5, <1>6, PassCommon

LEMMA AssertPlace ==
  ASSUME Common, NEW p \in alive, NEW c, Acts(p), Text[program[p]][pc[p]] = <<"assert", c>>, Holds(c, p)
  PROVE  Common' /\ Passes(p) /\ UNCHANGED <<value, waiting, memory>>
<1>1. failed' = {} /\ Return(p) /\ Still /\ UNCHANGED <<lifeVars, program, handlers, memory>>
  BY AssertStep
<1>2. line[p] = 0
  BY QuietFact DEF Calls
<1>3. UNCHANGED <<ancestors, value, waiting>>
  BY <1>1 DEF lifeVars
<1>4. Types
  BY DEF Common
<1>5. /\ value' \in [Key -> Int] /\ value'["term_mut"] = value["term_mut"]
      /\ value'["terminal"] = value["terminal"]
      /\ waiting' \in [Key -> SUBSET alive] /\ \A j \in Sync : waiting'[j] \subseteq waiting[j] \cup {p}
      /\ waiting'["term_mut"] = waiting["term_mut"] /\ waiting'["terminal"] = waiting["terminal"]
  BY <1>3, <1>4 DEF Types
<1>6. memory' \in [Variable -> Nat]
  BY <1>1, <1>4 DEF Types
<1> QED
  BY <1>1, <1>2, <1>3, <1>5, <1>6, PassCommon

LEMMA TurnCommon ==
  ASSUME Common, NEW p \in alive, line[p] = 0, NEW prog \in DOMAIN Text, Jump(p, prog),
         Still /\ UNCHANGED <<lifeVars, memory, failed>>,
         prog \in P4Programs \/ handlers[p] = {}
  PROVE  Common' /\ Turns(p, prog)
<1>1. Types /\ Specified
  BY DEF Common
<1>2. /\ UNCHANGED <<ancestors, value, waiting, line, handlers>>
      /\ program' = [program EXCEPT ![p] = prog] /\ pc' = [pc EXCEPT ![p] = 1]
  BY DEF lifeVars, Jump
<1>3. p \in Process /\ handlers' = [handlers EXCEPT ![p] = handlers[p]]
  BY <1>1, <1>2 DEF Types
<1>4. handlers[p] \in SUBSET DOMAIN Handler
  BY <1>1, <1>3 DEF Types
<1>5. /\ value' \in [Key -> Int] /\ value'["term_mut"] = value["term_mut"]
      /\ value'["terminal"] = value["terminal"]
      /\ waiting' \in [Key -> SUBSET alive] /\ \A j \in Sync : waiting'[j] \subseteq waiting[j] \cup {p}
      /\ waiting'["term_mut"] = waiting["term_mut"] /\ waiting'["terminal"] = waiting["terminal"]
      /\ memory' \in [Variable -> Nat] /\ failed' = {}
  BY <1>1, <1>2 DEF Types
<1>6. 1 \in Nat
  OBVIOUS
<1>7. Common'
  BY <1>2, <1>3, <1>4, <1>5, <1>6, MoveCommon
<1> QED
  BY <1>2, <1>7 DEF Turns, alive

LEMMA JumpPlace ==
  ASSUME Common, NEW p \in alive, NEW q \in DOMAIN Text, Acts(p),
         Text[program[p]][pc[p]] = <<"jump", q>>, q \in P4Programs \/ handlers[p] = {}
  PROVE  Common' /\ Turns(p, q)
<1>1. Jump(p, q) /\ Still /\ UNCHANGED <<lifeVars, memory, failed>>
  BY JumpStep
<1>2. line[p] = 0
  BY QuietFact DEF Calls
<1> QED
  BY <1>1, <1>2, TurnCommon

LEMMA SwitchPlace ==
  ASSUME Common, NEW p \in alive, NEW v, NEW q \in DOMAIN Text, NEW r \in DOMAIN Text, Acts(p),
         Text[program[p]][pc[p]] = <<"switch", v, q, r>>, memory[v] \in 1 .. 2, handlers[p] = {}
  PROVE  Common' /\ Turns(p, IF memory[v] = 1 THEN q ELSE r)
<1>1. /\ Jump(p, IF memory[v] = 1 THEN q ELSE r)
      /\ Still /\ UNCHANGED <<lifeVars, memory, failed>>
  BY SwitchStep
<1>2. line[p] = 0
  BY QuietFact DEF Calls
<1>3. (IF memory[v] = 1 THEN q ELSE r) \in DOMAIN Text
  OBVIOUS
<1> QED
  BY <1>1, <1>2, <1>3, TurnCommon

LEMMA WhilePlace ==
  ASSUME Common, NEW p \in alive, NEW q \in DOMAIN Text, NEW r \in DOMAIN Text, Acts(p),
         Text[program[p]][pc[p]] = <<"while", q, r>>, handlers[p] = {}
  PROVE  Common' /\ (Turns(p, q) \/ Turns(p, r))
<1>1. (Jump(p, q) \/ Jump(p, r)) /\ Still /\ UNCHANGED <<lifeVars, memory, failed>>
  BY WhileStep
<1>2. line[p] = 0
  BY QuietFact DEF Calls
<1> QED
  BY <1>1, <1>2, TurnCommon

(* p has specified a handler for t.                                         *)
LEMMA HandledPlace ==
  ASSUME Common, NEW p \in alive, NEW t \in {"trap", "tlb"}, Acts(p),
         Text[program[p]][pc[p]] = <<"exception", t>>, t \in handlers[p]
  PROVE  Common' /\ Turns(p, Handler[t])
<1>1. Jump(p, Handler[t]) /\ Still /\ UNCHANGED <<lifeVars, memory, failed>>
  BY ExceptionStep
<1>2. line[p] = 0
  BY QuietFact DEF Calls
<1>3. Handler[t] \in DOMAIN Text /\ Handler[t] \in P4Programs
  BY DEF Handler, Text, P4Programs
<1> QED
  BY <1>1, <1>2, <1>3, TurnCommon

LEMMA UnknownPlace ==
  ASSUME Common, NEW p \in alive, NEW c \in Nat, Acts(p),
         Text[program[p]][pc[p]] = <<"exception", "sys", c>>, "sys" \in handlers[p]
  PROVE  /\ Common' /\ alive' = alive /\ UNCHANGED <<ancestors, value, waiting, handlers>>
         /\ program' = [program EXCEPT ![p] = "p4sys"]
         /\ pc' = [pc EXCEPT ![p] = 1]
         /\ memory' = [memory EXCEPT !["sstat_o"] = c]
<1>1. /\ Jump(p, "p4sys") /\ Still /\ UNCHANGED <<lifeVars, failed>>
      /\ memory' = [memory EXCEPT !["sstat_o"] = c]
  BY UnknownStep
<1>2. line[p] = 0
  BY QuietFact DEF Calls
<1>3. /\ UNCHANGED <<ancestors, value, waiting, line, handlers>>
      /\ program' = [program EXCEPT ![p] = "p4sys"] /\ pc' = [pc EXCEPT ![p] = 1]
  BY <1>1 DEF lifeVars, Jump
<1>4. Types
  BY DEF Common
<1>5. "p4sys" \in DOMAIN Text /\ "p4sys" \in P4Programs /\ 1 \in Nat
  BY DEF Text, P4Programs
<1>6. p \in Process /\ handlers' = [handlers EXCEPT ![p] = handlers[p]]
  BY <1>3, <1>4 DEF Types
<1>7. handlers[p] \in SUBSET DOMAIN Handler
  BY <1>4, <1>6 DEF Types
<1>8. /\ value' \in [Key -> Int] /\ value'["term_mut"] = value["term_mut"]
      /\ value'["terminal"] = value["terminal"]
      /\ waiting' \in [Key -> SUBSET alive] /\ \A j \in Sync : waiting'[j] \subseteq waiting[j] \cup {p}
      /\ waiting'["term_mut"] = waiting["term_mut"] /\ waiting'["terminal"] = waiting["terminal"]
      /\ memory' \in [Variable -> Nat] /\ failed' = {}
  BY <1>1, <1>3, <1>4 DEF Types
<1>9. Still
  BY <1>1
<1>10. Common'
  BY <1>2, <1>3, <1>5, <1>6, <1>7, <1>8, <1>9, MoveCommon
<1> QED
  BY <1>1, <1>3, <1>10 DEF alive

LEMMA SpecifyPlace ==
  ASSUME Common, NEW p \in alive, NEW t \in DOMAIN Handler, Acts(p),
         Text[program[p]][pc[p]] = <<"specpassup", t>>, t \notin handlers[p], program[p] \in P4Programs
  PROVE  /\ Common' /\ alive' = alive /\ UNCHANGED <<ancestors, value, waiting, program, memory>>
         /\ pc' = [pc EXCEPT ![p] = @ + 1]
         /\ handlers' = [handlers EXCEPT ![p] = @ \cup {t}]
<1>1. /\ handlers' = [handlers EXCEPT ![p] = @ \cup {t}]
      /\ pc' = [pc EXCEPT ![p] = @ + 1]
      /\ Still /\ UNCHANGED <<lifeVars, program, line, memory, failed>>
  BY SpecPassUpStep
<1>2. line[p] = 0
  BY QuietFact DEF Calls
<1>3. UNCHANGED <<ancestors, value, waiting>>
  BY <1>1 DEF lifeVars
<1>4. Types
  BY DEF Common
<1>5. p \in Process /\ program' = [program EXCEPT ![p] = program[p]] /\ program[p] \in DOMAIN Text
  BY <1>1, <1>4 DEF Types
<1>6. /\ handlers' = [handlers EXCEPT ![p] = handlers[p] \cup {t}]
      /\ handlers[p] \cup {t} \in SUBSET DOMAIN Handler
      /\ pc' = [pc EXCEPT ![p] = pc[p] + 1] /\ pc[p] + 1 \in Nat
  BY <1>1, <1>4, <1>5 DEF Types
<1>7. /\ value' \in [Key -> Int] /\ value'["term_mut"] = value["term_mut"]
      /\ value'["terminal"] = value["terminal"]
      /\ waiting' \in [Key -> SUBSET alive] /\ \A j \in Sync : waiting'[j] \subseteq waiting[j] \cup {p}
      /\ waiting'["term_mut"] = waiting["term_mut"] /\ waiting'["terminal"] = waiting["terminal"]
      /\ memory' \in [Variable -> Nat] /\ failed' = {}
  BY <1>1, <1>3, <1>4 DEF Types
<1>9. Still /\ line' = line
  BY <1>1
<1>8. Common'
  BY <1>2, <1>3, <1>5, <1>6, <1>7, <1>9, MoveCommon
<1> QED
  BY <1>1, <1>3, <1>8 DEF alive
------------------------------------------------------------------------------
(* print.                                                                   *)

(* p has taken a step of print that is not the last, or it is not at print. *)
Lingers ==
  /\ alive' = alive
  /\ UNCHANGED <<ancestors, program, handlers, pc>>

LEMMA WaitingFinite ==
  ASSUME Types, NEW k \in Key
  PROVE  IsFiniteSet(waiting[k]) /\ Cardinality(waiting[k]) \in Nat
<1>1. waiting[k] \subseteq Process
  BY DEF Types
<1> QED
  BY <1>1, ProcessFact, FS_Subset, FS_CardinalityType

LEMMA PrintPlace ==
  ASSUME Common, NEW p \in alive, Acts(p), Calls(p)
  PROVE  Common' /\ SameSync /\ memory' = memory /\ (Passes(p) \/ Lingers)
<1>a. Types /\ Tree /\ Specified /\ PrintInv /\ first \in alive
  BY DEF Common
<1>b. p \in Process /\ line[p] \in 0 .. 3
  BY <1>a DEF Types
<1>c. \A k \in Key : p \notin waiting[k]
  BY DEF Acts, Step, Ready
<1>d. IsFiniteSet(waiting["term_mut"]) /\ Cardinality(waiting["term_mut"]) \in Nat
  BY <1>a, KeyFact, WaitingFinite
<1> DEFINE w == waiting["term_mut"]
<1>e. value["term_mut"] \in Int /\ w \subseteq Printing /\ p \notin w
  BY <1>a, <1>c, KeyFact DEF Types, PrintInv, Printing
<1>f. (line[p] = 2 => answer[p] = p) /\ (line[p] # 0 => ~Muted(p))
  BY <1>a, <1>c, KeyFact DEF PrintInv, Printing
<1>1. UNCHANGED <<scenario, program, handlers, memory>> /\ failed' = {}
  BY <1>b, <1>f, PrintStep
<1>2. CASE Muted(p) /\ Return(p) /\ UNCHANGED <<lifeVars, terminal, answer>>
  <2>1. line[p] = 0
    BY <1>a, <1>2 DEF PrintInv, Printing
  <2>2. UNCHANGED <<ancestors, value, waiting>>
    BY <1>2 DEF lifeVars
  <2>3. /\ value' \in [Key -> Int] /\ value'["term_mut"] = value["term_mut"]
        /\ value'["terminal"] = value["terminal"]
        /\ waiting' \in [Key -> SUBSET alive] /\ \A j \in Sync : waiting'[j] \subseteq waiting[j] \cup {p}
        /\ waiting'["term_mut"] = waiting["term_mut"] /\ waiting'["terminal"] = waiting["terminal"]
        /\ memory' \in [Variable -> Nat] /\ failed' = {}
    BY <1>a, <1>1, <2>2 DEF Types
  <2>5. Still
    BY <1>1, <1>2 DEF Still
  <2>4. Common' /\ Passes(p)
    BY <1>1, <1>2, <2>1, <2>2, <2>3, <2>5, PassCommon
  <2> QED
    BY <1>1, <2>2, <2>4 DEF SameSync
<1>3. CASE /\ ~Muted(p) /\ line[p] = 0 /\ P(p, "term_mut") /\ UNCHANGED <<terminal, answer>>
           /\ line' = [line EXCEPT ![p] = 1] /\ pc' = pc
  <2>1. /\ alive' = alive /\ ancestors' = ancestors
        /\ value' = [value EXCEPT !["term_mut"] = @ - 1]
        /\ waiting' = IF value["term_mut"] > 0 THEN waiting
                      ELSE [waiting EXCEPT !["term_mut"] = @ \cup {p}]
    BY <1>3, <1>a DEF P, alive, Types
  <2>2. SameSync /\ Lingers
    BY <1>1, <1>3, <2>1, <1>a, KeyFact DEF SameSync, Lingers, Types
  <2>3. Types'
    BY <1>a, <1>b, <1>1, <1>3, <2>1, KeyFact DEF Types
  <2>4. Tree' /\ Specified'
    BY <1>a, <1>1, <2>1 DEF Tree, Specified
  <2>5. PrintInv'
    <3>1. Printing' = Printing \cup {p} /\ p \notin Printing
      BY <1>a, <1>b, <1>3, <2>1 DEF Printing, Types
    <3>2. \A q \in Printing' : Calls(q)' /\ ~Muted(q)'
      BY <1>a, <1>1, <1>3, <3>1 DEF PrintInv, Calls, Muted
    <3>3. \A k \in Sync : waiting'[k] \cap Printing' = {}
      BY <1>a, <1>c, <2>2, <3>1, KeyFact DEF PrintInv, SameSync
    <3>4. waiting'["terminal"] \subseteq {q \in alive : line[q] = 2}'
      BY <1>a, <1>b, <1>3, <2>1, KeyFact DEF PrintInv, Types
    <3>a. waiting'["terminal"] = waiting["terminal"] /\ value'["terminal"] = value["terminal"]
      BY <1>a, <2>1, KeyFact DEF Types
    <3>b. TerminalInv'
      BY <1>a, <1>3, <2>1, <3>a DEF PrintInv, TerminalInv
    <3>7. \A q \in alive' : line'[q] = 2 => q \in waiting'["terminal"] \/ answer'[q] = q
      BY <1>a, <1>3, <2>1, <3>a DEF PrintInv, Types
    <3>5. waiting'["term_mut"] \subseteq {q \in alive : line[q] = 1}'
      BY <1>a, <1>b, <1>3, <2>1, KeyFact DEF PrintInv, Types
    <3>6. \E h \in Printing' : /\ h \notin waiting'["term_mut"]
                               /\ Printing' = waiting'["term_mut"] \cup {h}
                               /\ value'["term_mut"] = 0 - Cardinality(waiting'["term_mut"])
      <4>1. CASE value["term_mut"] > 0
        <5>1. Printing = {} /\ value["term_mut"] = 1
          BY <1>a, <1>d, <4>1 DEF PrintInv
        <5>2. w = {} /\ Cardinality(w) = 0
          BY <1>e, <5>1, FS_EmptySet
        <5>3. waiting'["term_mut"] = w /\ value'["term_mut"] = 0
          BY <1>a, <2>1, <4>1, <5>1, KeyFact DEF Types
        <5> QED
          BY <3>1, <5>1, <5>2, <5>3
      <4>2. CASE ~ (value["term_mut"] > 0)
        <5>1. PICK h \in Printing : h \notin w /\ Printing = w \cup {h} /\ value["term_mut"] = 0 - Cardinality(w)
          BY <1>a, <4>2 DEF PrintInv
        <5>2. waiting'["term_mut"] = w \cup {p} /\ value'["term_mut"] = value["term_mut"] - 1
          BY <1>a, <2>1, <4>2, KeyFact DEF Types
        <5>3. Cardinality(w \cup {p}) = Cardinality(w) + 1
          BY <1>d, <1>e, FS_AddElement
        <5>4. value'["term_mut"] = 0 - Cardinality(waiting'["term_mut"])
          BY <1>d, <5>1, <5>2, <5>3
        <5>5. h \in Printing' /\ h \notin waiting'["term_mut"] /\ Printing' = waiting'["term_mut"] \cup {h}
          BY <3>1, <5>1, <5>2
        <5> QED
          BY <5>4, <5>5
      <4> QED
        BY <4>1, <4>2
    <3> QED
      BY <3>2, <3>3, <3>4, <3>5, <3>6, <3>7, <3>b DEF PrintInv
  <2> QED
    BY <1>a, <1>1, <2>1, <2>2, <2>3, <2>4, <2>5 DEF Common
<1>4. CASE /\ ~Muted(p) /\ line[p] = 1 /\ P(p, "terminal")
           /\ terminal' = IF terminal = 0 THEN p ELSE terminal
           /\ answer' = [answer EXCEPT ![p] = 0]
           /\ line' = [line EXCEPT ![p] = 2] /\ pc' = pc
  <2>a. p \in Printing /\ Printing = w \cup {p} /\ \A q \in Printing \ {p} : line[q] = 1
    BY <1>a, <1>4, <1>e DEF PrintInv, Printing
  <2>b. waiting["terminal"] = {} /\ terminal = 0 /\ value["terminal"] = 0
    <3>1. waiting["terminal"] = {}
      BY <1>a, <1>4, <2>a DEF PrintInv, Printing
    <3> QED
      BY <1>a, <3>1 DEF PrintInv, TerminalInv
  <2>1. /\ alive' = alive /\ ancestors' = ancestors
        /\ value' = [value EXCEPT !["terminal"] = -1]
        /\ waiting' = [waiting EXCEPT !["terminal"] = {p}]
    BY <1>4, <1>a, <2>b, KeyFact DEF P, alive, Types
  <2>2. SameSync /\ Lingers
    BY <1>1, <1>4, <2>1, <1>a, KeyFact DEF SameSync, Lingers, Types
  <2>c. terminal' = p
    BY <1>4, <2>b
  <2>3. Types'
    BY <1>a, <1>b, <1>1, <1>4, <2>1, <2>c, KeyFact DEF Types
  <2>4. Tree' /\ Specified'
    BY <1>a, <1>1, <2>1 DEF Tree, Specified
  <2>5. PrintInv'
    <3>1. Printing' = Printing /\ p \in Printing
      BY <1>a, <1>b, <1>4, <2>1 DEF Printing, Types
    <3>2. \A q \in Printing' : Calls(q)' /\ ~Muted(q)'
      BY <1>a, <1>1, <1>4, <3>1 DEF PrintInv, Calls, Muted
    <3>3. \A k \in Sync : waiting'[k] \cap Printing' = {}
      BY <1>a, <2>2, <3>1 DEF PrintInv, SameSync
    <3>a. waiting'["terminal"] = {p} /\ value'["terminal"] = -1
      BY <1>a, <2>1, KeyFact DEF Types
    <3>b. TerminalInv'
      BY <1>a, <2>1, <2>c, <3>a DEF TerminalInv
    <3>7. \A q \in alive' : line'[q] = 2 => q \in waiting'["terminal"] \/ answer'[q] = q
      BY <1>a, <1>4, <2>a, <2>1, <3>a DEF Types, Printing
    <3>4. waiting'["terminal"] \subseteq {q \in alive : line[q] = 2}'
      BY <1>a, <1>b, <1>4, <2>1, <3>a DEF Types
    <3>6. waiting'["term_mut"] = w /\ value'["term_mut"] = value["term_mut"]
      BY <1>a, <2>1, KeyFact DEF Types
    <3>5. waiting'["term_mut"] \subseteq {q \in alive : line[q] = 1}'
      BY <1>a, <1>b, <1>e, <1>4, <2>1, <3>6, KeyFact DEF PrintInv, Types
    <3> QED
      BY <1>a, <3>1, <3>2, <3>3, <3>4, <3>5, <3>6, <3>7, <3>b DEF PrintInv
  <2> QED
    BY <1>a, <1>1, <2>1, <2>2, <2>3, <2>4, <2>5 DEF Common
<1>6. CASE /\ ~Muted(p) /\ line[p] = 2 /\ UNCHANGED <<lifeVars, terminal, answer>>
           /\ line' = [line EXCEPT ![p] = 3] /\ pc' = pc
  <2>1. alive' = alive /\ UNCHANGED <<ancestors, value, waiting, terminal, answer>>
    BY <1>6 DEF lifeVars, alive
  <2>2. SameSync /\ Lingers
    BY <1>1, <1>6, <2>1 DEF SameSync, Lingers
  <2>3. Types'
    BY <1>a, <1>b, <1>1, <1>6, <2>1 DEF Types
  <2>4. Tree' /\ Specified'
    BY <1>a, <1>1, <2>1 DEF Tree, Specified
  <2>5. PrintInv'
    <3>1. Printing' = Printing /\ p \in Printing
      BY <1>a, <1>b, <1>6, <2>1 DEF Printing, Types
    <3>2. \A q \in Printing' : Calls(q)' /\ ~Muted(q)'
      BY <1>a, <1>1, <1>6, <3>1 DEF PrintInv, Calls, Muted
    <3>3. \A k \in Sync : waiting'[k] \cap Printing' = {}
      BY <1>a, <2>2, <3>1 DEF PrintInv, SameSync
    <3>4. waiting'["terminal"] \subseteq {q \in alive : line[q] = 2}'
      BY <1>a, <1>b, <1>c, <1>6, <2>1, KeyFact DEF PrintInv, Types
    <3>5. waiting'["term_mut"] \subseteq {q \in alive : line[q] = 1}'
      BY <1>a, <1>b, <1>e, <1>6, <2>1 DEF PrintInv, Types
    <3>6. TerminalInv'
      BY <1>a, <2>1 DEF PrintInv, TerminalInv
    <3>7. \A q \in alive' : line'[q] = 2 => q \in waiting'["terminal"] \/ answer'[q] = q
      BY <1>a, <1>6, <2>1 DEF PrintInv, Types
    <3> QED
      BY <1>a, <2>1, <3>1, <3>2, <3>3, <3>4, <3>5, <3>6, <3>7 DEF PrintInv
  <2> QED
    BY <1>a, <1>1, <2>1, <2>2, <2>3, <2>4, <2>5 DEF Common
<1>5. CASE /\ ~Muted(p) /\ line[p] = 3 /\ V(p, "term_mut") /\ Return(p)
           /\ UNCHANGED <<terminal, answer>>
  <2>0. /\ pc' = [pc EXCEPT ![p] = @ + 1] /\ line' = [line EXCEPT ![p] = 0]
    BY <1>5 DEF Return
  <2>1. /\ alive' = alive /\ ancestors' = ancestors
        /\ value' = [value EXCEPT !["term_mut"] = @ + 1]
        /\ \/ w = {} /\ waiting' = waiting
           \/ \E q \in w : waiting' = [waiting EXCEPT !["term_mut"] = @ \ {q}]
    BY <1>5 DEF V, Release, alive
  <2>2. SameSync /\ Passes(p)
    BY <1>1, <2>0, <2>1, <1>a, KeyFact DEF SameSync, Passes, Types
  <2>3. Types'
    BY <1>a, <1>b, <1>1, <1>5, <2>0, <2>1, KeyFact DEF Types
  <2>4. Tree' /\ Specified'
    BY <1>a, <1>1, <2>1 DEF Tree, Specified
  <2>5. PrintInv'
    <3>1. Printing' = Printing \ {p} /\ p \in Printing
      BY <1>a, <1>b, <1>5, <2>0, <2>1 DEF Printing, Types
    <3>a. \A q \in Printing' : program'[q] = program[q] /\ pc'[q] = pc[q] /\ line'[q] = line[q]
      BY <1>a, <1>1, <2>0, <3>1 DEF Types, Printing
    <3>2. \A q \in Printing' : Calls(q)' /\ ~Muted(q)'
      BY <1>a, <1>1, <3>1, <3>a DEF PrintInv, Calls, Muted
    <3>3. \A k \in Sync : waiting'[k] \cap Printing' = {}
      BY <1>a, <2>2, <3>1 DEF PrintInv, SameSync
    <3>b. /\ waiting'["terminal"] = waiting["terminal"] /\ waiting'["term_mut"] \subseteq w
          /\ value'["terminal"] = value["terminal"]
      BY <1>a, <2>1, KeyFact DEF Types
    <3>c. TerminalInv'
      BY <1>a, <1>5, <2>1, <3>b DEF PrintInv, TerminalInv
    <3>d. \A q \in alive' : line'[q] = 2 => q \in waiting'["terminal"] \/ answer'[q] = q
      BY <1>a, <1>5, <2>0, <2>1, <3>b DEF PrintInv, Types
    <3>4. waiting'["terminal"] \subseteq {q \in alive : line[q] = 2}'
      BY <1>a, <1>b, <1>c, <2>0, <2>1, <3>b, KeyFact DEF PrintInv, Types
    <3>5. waiting'["term_mut"] \subseteq {q \in alive : line[q] = 1}'
      BY <1>a, <1>b, <1>e, <2>0, <2>1, <3>b, KeyFact DEF PrintInv, Types
    <3>6. Printing = w \cup {p} /\ value["term_mut"] = 0 - Cardinality(w)
      BY <1>a, <1>e, <3>1 DEF PrintInv
    <3>7. \/ Printing' = {} /\ value'["term_mut"] = 1
          \/ \E h \in Printing' : /\ h \notin waiting'["term_mut"]
                                  /\ Printing' = waiting'["term_mut"] \cup {h}
                                  /\ value'["term_mut"] = 0 - Cardinality(waiting'["term_mut"])
      <4>0. value'["term_mut"] = value["term_mut"] + 1
        BY <1>a, <2>1, KeyFact DEF Types
      <4>1. CASE w = {} /\ waiting' = waiting
        <5>1. Cardinality(w) = 0
          BY <4>1, FS_EmptySet
        <5> QED
          BY <3>1, <3>6, <4>0, <4>1, <5>1
      <4>2. ASSUME NEW q \in w, waiting' = [waiting EXCEPT !["term_mut"] = @ \ {q}]
            PROVE  \E h \in Printing' : /\ h \notin waiting'["term_mut"]
                                  /\ Printing' = waiting'["term_mut"] \cup {h}
                                  /\ value'["term_mut"] = 0 - Cardinality(waiting'["term_mut"])
        <5>1. waiting'["term_mut"] = w \ {q}
          BY <1>a, <4>2, KeyFact DEF Types
        <5>2. Cardinality(w \ {q}) = Cardinality(w) - 1
          BY <1>d, FS_RemoveElement
        <5>3. value'["term_mut"] = 0 - Cardinality(waiting'["term_mut"])
          BY <1>d, <3>6, <4>0, <5>1, <5>2
        <5>4. q \in Printing' /\ q \notin waiting'["term_mut"] /\ Printing' = waiting'["term_mut"] \cup {q}
          BY <1>e, <3>1, <3>6, <5>1
        <5> QED
          BY <5>3, <5>4
      <4> QED
        BY <2>1, <4>1, <4>2
    <3> QED
      BY <3>2, <3>3, <3>4, <3>5, <3>7, <3>c, <3>d DEF PrintInv
  <2> QED
    BY <1>a, <1>1, <2>1, <2>2, <2>3, <2>4, <2>5 DEF Common
<1> QED
  BY <1>b, <1>f, <1>2, <1>3, <1>4, <1>5, <1>6, PrintStep

(* The terminal has transmitted the character of the one who waits.         *)
LEMMA TransmittedKeeps ==
  ASSUME Common, Transmitted
  PROVE  Common' /\ SameSync /\ memory' = memory /\ Lingers
<1>a. Types /\ Tree /\ Specified /\ PrintInv /\ first \in alive
  BY DEF Common
<1>0. PICK h \in alive : waiting["terminal"] = {h} /\ terminal = h /\ value["terminal"] = -1
  BY <1>a DEF PrintInv, TerminalInv, Transmitted
<1>1. /\ UNCHANGED <<scenario, program, pc, line, handlers, memory>> /\ failed' = {}
      /\ alive' = alive /\ ancestors' = ancestors
      /\ value' = [value EXCEPT !["terminal"] = @ + 1]
      /\ waiting' = [waiting EXCEPT !["terminal"] = {}] /\ terminal' = 0
  <2>1. waiting' = [waiting EXCEPT !["terminal"] = {}]
    <3>1. PICK q \in waiting["terminal"] : waiting' = [waiting EXCEPT !["terminal"] = @ \ {q}]
      BY <1>0 DEF Transmitted, Release
    <3> QED
      BY <1>0, <3>1
  <2> QED
    BY <2>1 DEF Transmitted, Release, alive
<1>2. SameSync /\ Lingers
  BY <1>1, <1>a, KeyFact DEF SameSync, Lingers, Types
<1>6. waiting'["terminal"] = {} /\ value'["terminal"] = 0
  BY <1>a, <1>0, <1>1, KeyFact DEF Types
<1>7. answer' = [p \in Process |-> IF p = h THEN h ELSE answer[p]]
  BY <1>0, <1>6 DEF Transmitted
<1>3. Types'
  BY <1>a, <1>1, <1>7, KeyFact DEF Types
<1>4. Tree' /\ Specified'
  BY <1>a, <1>1 DEF Tree, Specified
<1>5. PrintInv'
  <2>1. Printing' = Printing
    BY <1>1 DEF Printing
  <2>2. waiting'["term_mut"] = waiting["term_mut"] /\ value'["term_mut"] = value["term_mut"]
    BY <1>a, <1>1, KeyFact DEF Types
  <2>3. \A q \in Printing' : Calls(q)' /\ ~Muted(q)'
    BY <1>a, <1>1, <2>1 DEF PrintInv, Calls, Muted
  <2>4. \A k \in Sync : waiting'[k] \cap Printing' = {}
    BY <1>a, <1>2, <2>1 DEF PrintInv, SameSync
  <2>5. /\ waiting'["terminal"] \subseteq {q \in alive : line[q] = 2}'
        /\ waiting'["term_mut"] \subseteq {q \in alive : line[q] = 1}'
    BY <1>a, <1>1, <1>6, <2>2 DEF PrintInv
  <2>6. TerminalInv'
    BY <1>1, <1>6 DEF TerminalInv
  <2>7. \A q \in alive' : line'[q] = 2 => q \in waiting'["terminal"] \/ answer'[q] = q
    BY <1>a, <1>0, <1>1, <1>7 DEF PrintInv, Types
  <2> QED
    BY <1>a, <2>1, <2>2, <2>3, <2>4, <2>5, <2>6, <2>7 DEF PrintInv
<1> QED
  BY <1>a, <1>1, <1>2, <1>3, <1>4, <1>5 DEF Common
------------------------------------------------------------------------------
(* Creation and termination.                                                *)

(* p has created new, which runs prog.                                      *)
Creates(p, new, prog) ==
  /\ new \in Process \ alive
  /\ alive' = alive \cup {new}
  /\ ancestors'[new] = ancestors[p] \cup {new}
  /\ \A q \in alive : ancestors'[q] = ancestors[q]
  /\ program' = [program EXCEPT ![new] = prog]
  /\ pc' = [pc EXCEPT ![p] = @ + 1, ![new] = 1]
  /\ UNCHANGED <<value, waiting, handlers>>

(* p has terminated the family dead.                                        *)
Kills(p, dead) ==
  /\ alive' = alive \ dead
  /\ \A q \in alive' : /\ ancestors'[q] = ancestors[q] /\ program'[q] = program[q]
                       /\ handlers'[q] = handlers[q]
                       /\ pc'[q] = IF q = p THEN pc[q] + 1 ELSE pc[q]
  /\ \A k \in Key : /\ waiting'[k] = waiting[k] \ dead
                    /\ value'[k] = value[k] + Cardinality(waiting[k] \cap dead)
  /\ memory' = memory

LEMMA CreatePlace ==
  ASSUME Common, NEW p \in alive, NEW prog \in DOMAIN Text, NEW v, Acts(p),
         NEW op \in {"create", "created"}, Text[program[p]][pc[p]] = <<op, prog, v>>
  PROVE  \E new : /\ Common' /\ Creates(p, new, prog)
                  /\ memory' = [u \in DOMAIN memory |-> IF u = v THEN new ELSE memory[u]]
<1>1. PICK new \in Process \ alive :
           /\ Create(p, new)
           /\ program' = [program EXCEPT ![new] = prog]
           /\ pc' = [pc EXCEPT ![p] = @ + 1, ![new] = 1]
           /\ memory' = [u \in DOMAIN memory |-> IF u = v THEN new ELSE memory[u]]
           /\ Still /\ UNCHANGED <<line, handlers, failed>>
  BY CreateStep
<1>2. ~Calls(p)
  BY DEF Calls
<1>3. memory' \in [Variable -> Nat]
  BY <1>1, ProcessFact DEF Common, Types
<1>4. /\ Common' /\ alive' = alive \cup {new}
      /\ ancestors'[new] = ancestors[p] \cup {new}
      /\ \A q \in alive : ancestors'[q] = ancestors[q]
  BY <1>1, <1>2, <1>3, CreateCommon
<1>5. UNCHANGED <<value, waiting, handlers>>
  BY <1>1 DEF Create
<1> QED
  BY <1>1, <1>4, <1>5 DEF Creates

LEMMA KillPlace ==
  ASSUME Common, NEW p \in alive, ~Calls(p), NEW victim \in alive, Kill(p, victim), Still,
         victim # first, Offspring(victim) \cap Printing = {}
  PROVE  Common' /\ Kills(p, Offspring(victim))
<1>1. Common'
  BY KillCommon
<1>2. Kills(p, Offspring(victim))
  BY KillEffect DEF Common, Kills
<1> QED
  BY <1>1, <1>2

(* A process without descendants ends.                                      *)
LEMMA EndPlace ==
  ASSUME Common, NEW p \in alive, p # first, Solo(p), ~Calls(p), Kill(p, p), Still,
         \A k \in Key : p \notin waiting[k]
  PROVE  Common' /\ Kills(p, {p}) /\ SameSync
<1>a. Types /\ Tree
  BY DEF Common
<1>1. Offspring(p) = {p}
  BY <1>a DEF Offspring, Solo, Tree
<1>2. {p} \cap Printing = {}
  BY QuietFact
<1>3. Common' /\ Kills(p, {p})
  BY <1>1, <1>2, KillPlace
<1>4. \A k \in Key : waiting[k] \cap {p} = {} /\ value[k] \in Int
  BY <1>a DEF Types
<1>5. \A k \in Sync : waiting'[k] = waiting[k] /\ value'[k] = value[k] + 0
  <2> SUFFICES ASSUME NEW k \in Sync
               PROVE  waiting'[k] = waiting[k] /\ value'[k] = value[k] + 0
    OBVIOUS
  <2>1. /\ waiting'[k] = waiting[k] \ {p}
        /\ value'[k] = value[k] + Cardinality(waiting[k] \cap {p})
    BY <1>3, KeyFact DEF Kills
  <2>2. Cardinality(waiting[k] \cap {p}) = 0 /\ waiting[k] \ {p} = waiting[k]
    BY <1>4, KeyFact, NoneWaiting
  <2> QED
    BY <2>1, <2>2
<1> QED
  BY <1>3, <1>4, <1>5, KeyFact DEF SameSync

(* Everything is gone when p1 is.                                           *)
LEMMA EndAll ==
  ASSUME Common, Kill(first, first), Still
  PROVE  Types' /\ alive' = {}
<1>1. Types'
  BY KillEffect DEF Common
<1>2. alive' = alive \ Offspring(first)
  BY KillEffect DEF Common
<1>3. alive \ Offspring(first) = {}
  BY DEF Common, Tree, Offspring
<1> QED
  BY <1>1, <1>2, <1>3
------------------------------------------------------------------------------
(* The crew and the others.                                                 *)

(* p has taken a step, and nothing has become of the rest.                  *)
OthersStay(p) ==
  \A q \in alive \ {p} : program'[q] = program[q] /\ pc'[q] = pc[q] /\ handlers'[q] = handlers[q]

LEMMA PassesOthers ==
  ASSUME Types, NEW p \in alive, Passes(p) \/ (\E prog : Turns(p, prog))
  PROVE  OthersStay(p) /\ alive' = alive /\ ancestors' = ancestors
BY DEF Types, Passes, Turns, OthersStay

LEMMA CrewAfter ==
  ASSUME NEW p \in alive, alive' = alive, OthersStay(p), p = first \/ p \in Crew
  PROVE  Crew' = IF p # first /\ TailPlace(program'[p], pc'[p]) THEN Crew \ {p} ELSE Crew
BY DEF Crew, OthersStay

LEMMA TailsAfter ==
  ASSUME NEW p \in alive, alive' = alive, ancestors' = ancestors, OthersStay(p), Tails,
         p # first /\ TailPlace(program'[p], pc'[p]) =>
           Solo(p) /\ (program'[p] = "p4c" => handlers'[p] = DOMAIN Handler)
  PROVE  Tails'
BY DEF Tails, OthersStay, Solo

LEMMA CrewCreated ==
  ASSUME Common, NEW p \in alive, NEW new, NEW prog, Creates(p, new, prog),
         p = first \/ ~TailPlace(program[p], pc[p] + 1), p = first \/ p \in Crew
  PROVE  Crew' = IF TailPlace(prog, 1) THEN Crew ELSE Crew \cup {new}
<1>1. /\ p \in Process /\ new \in Process /\ new \notin alive /\ first \in alive
      /\ program \in [Process -> DOMAIN Text] /\ pc \in [Process -> Nat] /\ alive \subseteq Process
  BY DEF Common, Types, Creates
<1>2. /\ program'[new] = prog /\ pc'[new] = 1 /\ pc'[p] = pc[p] + 1 /\ p # new
      /\ \A q \in alive : program'[q] = program[q]
      /\ \A q \in alive \ {p} : pc'[q] = pc[q]
      /\ alive' = alive \cup {new}
  BY <1>1 DEF Creates
<1> QED
  BY <1>1, <1>2 DEF Crew

LEMMA TailsCreated ==
  ASSUME Common, NEW p \in alive, NEW new, NEW prog, Creates(p, new, prog), Tails,
         p = first \/ ~TailPlace(program[p], pc[p]),
         p = first \/ ~TailPlace(program[p], pc[p] + 1), prog # "p4c"
  PROVE  Tails' /\ Solo(new)' /\ \A q \in alive \ {p} : Solo(q) => Solo(q)'
<1>1. /\ p \in Process /\ new \in Process /\ new \notin alive /\ first \in alive
      /\ program \in [Process -> DOMAIN Text] /\ pc \in [Process -> Nat] /\ alive \subseteq Process
      /\ \A r \in alive : ancestors[r] \subseteq alive
  BY DEF Common, Types, Creates, Tree
<1>2. /\ program'[new] = prog /\ pc'[new] = 1 /\ pc'[p] = pc[p] + 1 /\ p # new
      /\ \A q \in alive : program'[q] = program[q]
      /\ \A q \in alive \ {p} : pc'[q] = pc[q]
      /\ alive' = alive \cup {new} /\ handlers' = handlers
  BY <1>1 DEF Creates
<1>3. Solo(new)'
  BY <1>1 DEF Solo, Creates
<1>4. \A q \in alive \ {p} : Solo(q) => Solo(q)'
  BY <1>1 DEF Solo, Creates
<1>5. Tails'
  BY <1>1, <1>2, <1>3, <1>4 DEF Tails
<1> QED
  BY <1>3, <1>4, <1>5

LEMMA CrewKilled ==
  ASSUME Types, NEW p \in alive, NEW dead, Kills(p, dead),
         p \in dead \/ p = first \/ (p \in Crew /\ ~TailPlace(program[p], pc[p] + 1))
  PROVE  Crew' = Crew \ dead
BY DEF Kills, Crew

LEMMA TailsKilled ==
  ASSUME Types, NEW p \in alive, NEW dead, Kills(p, dead), Tails,
         p \in dead \/ p = first \/ ~TailPlace(program[p], pc[p] + 1)
  PROVE  Tails' /\ \A q \in alive' : Solo(q) => Solo(q)'
<1>1. \A q \in alive' : Solo(q) => Solo(q)'
  BY DEF Kills, Solo
<1>2. Tails'
  BY <1>1 DEF Kills, Tails
<1> QED
  BY <1>1, <1>2
------------------------------------------------------------------------------
(* Nothing that a stage speaks of has changed.                              *)
Unseen ==
  /\ program'[first] = program[first] /\ pc'[first] = pc[first]
  /\ Crew' = Crew
  /\ \A q \in Crew : program'[q] = program[q] /\ pc'[q] = pc[q] /\ handlers'[q] = handlers[q]
  /\ \A r \in alive' : r \in alive /\ ancestors'[r] = ancestors[r]
  /\ SameSync
  /\ memory' = memory

LEMMA SyncKeys ==
  {"s", "testsem", "startp2", "endp2", "blkp3", "synp3", "endp3", "endp4", "endp7", "endcreate",
   "blkleaves", "blkp7", "blkp7child"} = Sync
  BY DEF Sync, Semaphores

LEMMA CrewIn ==
  ASSUME NEW q \in Crew
  PROVE  q \in alive /\ q # first
  BY DEF Crew

LEMMA SoloUnseen ==
  ASSUME Unseen, NEW q, Solo(q)
  PROVE  Solo(q)'
  BY DEF Unseen, Solo

LEMMA BeforeSame ==
  ASSUME SameSync
  PROVE  /\ Between7 => Between7'
         /\ Before7 => Before7'
         /\ Before4 => Before4'
         /\ memory' = memory /\ Before3 => Before3'
<1>1. \A k \in Sync : waiting'[k] = waiting[k] /\ value'[k] = value[k]
  BY DEF SameSync
<1>2. Between7 => Between7'
  BY <1>1, SyncKeys DEF Between7, Has
<1>3. Before7 => Before7'
  BY <1>1, <1>2, SyncKeys DEF Before7, Has
<1>4. Before4 => Before4'
  BY <1>1, <1>3, SyncKeys DEF Before4, Has
<1>5. memory' = memory /\ Before3 => Before3'
  BY <1>1, <1>4, SyncKeys DEF Before3, Has
<1> QED
  BY <1>2, <1>3, <1>4, <1>5

LEMMA StageAUnseen ==
  ASSUME Unseen, StageA
  PROVE  StageA'
<1>1. SameSync /\ memory' = memory /\ program'[first] = program[first] /\ pc'[first] = pc[first]
      /\ Crew' = Crew
  BY DEF Unseen
<1>2. \A k \in Sync : value'[k] = value[k] /\ waiting'[k] = waiting[k]
  BY <1>1 DEF SameSync
<1> QED
  BY <1>1, <1>2, BeforeSame, SyncKeys DEF StageA, At1, Has

LEMMA StageB1Unseen ==
  ASSUME Unseen, StageB1
  PROVE  StageB1'
<1>1. SameSync /\ memory' = memory /\ program'[first] = program[first] /\ pc'[first] = pc[first]
      /\ Crew' = Crew
  BY DEF Unseen
<1>2. \A k \in Sync : value'[k] = value[k] /\ waiting'[k] = waiting[k]
  BY <1>1 DEF SameSync
<1>3. ASSUME NEW b \in Process, RunsP2(b)
      PROVE  RunsP2(b)'
  <2>1. program'[b] = program[b] /\ pc'[b] = pc[b]
    BY <1>3 DEF RunsP2, Unseen
  <2>2. Solo(b)'
    BY <1>3, SoloUnseen DEF RunsP2
  <2>3. Awaits("startp2", Debt(pc[first] >= 7) - Debt(pc[b] >= 2), b)'
    BY <1>1, <1>2, <1>3, <2>1, SyncKeys DEF RunsP2, Awaits, Debt
  <2> QED
    BY <1>1, <1>2, <1>3, <2>1, <2>2, <2>3, SyncKeys DEF RunsP2
<1>4. Awaits("endp2", 0 - Debt(pc[first] >= 8), first)'
  BY <1>1, <1>2, SyncKeys DEF StageB1, Awaits, Debt
<1> QED
  BY <1>1, <1>2, <1>3, <1>4, BeforeSame, SyncKeys DEF StageB1, At1

LEMMA StageB2Unseen ==
  ASSUME Unseen, StageB2
  PROVE  StageB2'
<1>1. SameSync /\ memory' = memory /\ program'[first] = program[first] /\ pc'[first] = pc[first]
      /\ Crew' = Crew
  BY DEF Unseen
<1>2. \A k \in Sync : value'[k] = value[k] /\ waiting'[k] = waiting[k]
  BY <1>1 DEF SameSync
<1> QED
  BY <1>1, <1>2, BeforeSame, SyncKeys DEF StageB2, At1, Debt, Has

LEMMA WaitsP3Unseen ==
  ASSUME Unseen, WaitsP3
  PROVE  WaitsP3'
<1>1. SameSync /\ memory' = memory /\ program'[first] = program[first] /\ pc'[first] = pc[first]
  BY DEF Unseen
<1>2. \A k \in Sync : value'[k] = value[k] /\ waiting'[k] = waiting[k]
  BY <1>1 DEF SameSync
<1> QED
  BY <1>1, <1>2, BeforeSame, SyncKeys DEF WaitsP3, At1, Awaits, Debt

LEMMA StageC1Unseen ==
  ASSUME Unseen, StageC1
  PROVE  StageC1'
<1>1. SameSync /\ memory' = memory /\ Crew' = Crew
  BY DEF Unseen
<1>2. \A k \in Sync : value'[k] = value[k] /\ waiting'[k] = waiting[k]
  BY <1>1 DEF SameSync
<1>3. ASSUME NEW a \in Process, RunsP3(a)
      PROVE  RunsP3(a)'
  <2>1. program'[a] = program[a] /\ pc'[a] = pc[a]
    BY <1>3 DEF RunsP3, Unseen
  <2>2. Solo(a)'
    BY <1>3, SoloUnseen DEF RunsP3
  <2> QED
    BY <1>1, <1>2, <1>3, <2>1, <2>2, SyncKeys DEF RunsP3, Has, Debt
<1> QED
  BY <1>3, WaitsP3Unseen DEF StageC1

LEMMA StageC2Unseen ==
  ASSUME Unseen, StageC2, Tree, Tree', first \in alive
  PROVE  StageC2'
<1>1. SameSync /\ memory' = memory /\ Crew' = Crew
  BY DEF Unseen
<1>2. \A k \in Sync : value'[k] = value[k] /\ waiting'[k] = waiting[k]
  BY <1>1 DEF SameSync
<1>3. ASSUME NEW a \in Process, NEW b \in Process, RunBothP3(a, b)
      PROVE  RunBothP3(a, b)'
  <2>1. program'[a] = program[a] /\ pc'[a] = pc[a] /\ program'[b] = program[b] /\ pc'[b] = pc[b]
    BY <1>3 DEF RunBothP3, Unseen
  <2>2. Solo(b)'
    BY <1>3, SoloUnseen DEF RunBothP3
  <2>3. a \in alive' /\ b \in alive' /\ \A r \in alive' : r \in alive /\ ancestors'[r] = ancestors[r]
    BY <1>1, <1>3 DEF RunBothP3, Crew, Unseen
  <2>4. /\ \A r \in alive' : a \in ancestors'[r] => r \in {a, b}
        /\ ancestors'[b] = ancestors'[a] \cup {b}
    BY <1>3, <2>3 DEF RunBothP3
  <2>5. Awaits("synp3", Debt(program[b] = "p3rest" /\ pc[b] >= 2) - Debt(pc[a] >= 7), a)'
    BY <1>2, <1>3, <2>1, SyncKeys DEF RunBothP3, Awaits, Debt
  <2>6. Awaits("blkp3", 0 - Debt(program[b] = "p3rest" /\ pc[b] = 3), b)'
    BY <1>2, <1>3, <2>1, SyncKeys DEF RunBothP3, Awaits, Debt
  <2> QED
    BY <1>1, <1>3, <2>1, <2>2, <2>4, <2>5, <2>6 DEF RunBothP3
<1> QED
  BY <1>1, <1>3, WaitsP3Unseen DEF StageC2

LEMMA StageC3Unseen ==
  ASSUME Unseen, StageC3
  PROVE  StageC3'
<1>1. ASSUME NEW a \in Process, EndsP3(a)
      PROVE  EndsP3(a)'
  <2>1. program'[a] = program[a] /\ pc'[a] = pc[a] /\ Crew' = Crew
    BY <1>1 DEF EndsP3, Unseen
  <2>2. Solo(a)'
    BY <1>1, SoloUnseen DEF EndsP3
  <2> QED
    BY <1>1, <2>1, <2>2 DEF EndsP3
<1> QED
  BY <1>1, WaitsP3Unseen DEF StageC3

LEMMA StageC4Unseen ==
  ASSUME Unseen, StageC4
  PROVE  StageC4'
<1>1. SameSync /\ memory' = memory /\ program'[first] = program[first] /\ pc'[first] = pc[first]
      /\ Crew' = Crew
  BY DEF Unseen
<1>2. \A k \in Sync : value'[k] = value[k] /\ waiting'[k] = waiting[k]
  BY <1>1 DEF SameSync
<1> QED
  BY <1>1, <1>2, BeforeSame, SyncKeys DEF StageC4, At1, Debt, Has

LEMMA StageD1Unseen ==
  ASSUME Unseen, StageD1
  PROVE  StageD1'
<1>1. SameSync /\ memory' = memory /\ program'[first] = program[first] /\ pc'[first] = pc[first]
      /\ Crew' = Crew
  BY DEF Unseen
<1>2. \A k \in Sync : value'[k] = value[k] /\ waiting'[k] = waiting[k]
  BY <1>1 DEF SameSync
<1>3. ASSUME NEW d \in Process, RunsP4(d)
      PROVE  RunsP4(d)'
  <2>1. program'[d] = program[d] /\ pc'[d] = pc[d] /\ handlers'[d] = handlers[d]
    BY <1>3 DEF RunsP4, Unseen
  <2>2. Solo(d)'
    BY <1>3, SoloUnseen DEF RunsP4
  <2> QED
    BY <1>1, <1>3, <2>1, <2>2 DEF RunsP4
<1> QED
  BY <1>1, <1>2, <1>3, BeforeSame, SyncKeys DEF StageD1, At1, Awaits, Debt

LEMMA StageD2Unseen ==
  ASSUME Unseen, StageD2
  PROVE  StageD2'
<1>1. SameSync /\ memory' = memory /\ program'[first] = program[first] /\ pc'[first] = pc[first]
      /\ Crew' = Crew
  BY DEF Unseen
<1>2. \A k \in Sync : value'[k] = value[k] /\ waiting'[k] = waiting[k]
  BY <1>1 DEF SameSync
<1> QED
  BY <1>1, <1>2, BeforeSame, SyncKeys DEF StageD2, At1, Debt, Has

LEMMA StageEUnseen ==
  ASSUME Unseen, StageE
  PROVE  StageE'
<1>1. SameSync /\ memory' = memory /\ program'[first] = program[first] /\ pc'[first] = pc[first]
      /\ Crew' = Crew
  BY DEF Unseen
<1>2. \A k \in Sync : value'[k] = value[k] /\ waiting'[k] = waiting[k]
  BY <1>1 DEF SameSync
<1> QED
  BY <1>1, <1>2, BeforeSame, SyncKeys DEF StageE, At1, Has

LEMMA StageFUnseen ==
  ASSUME Unseen, StageF
  PROVE  StageF'
<1>1. SameSync /\ memory' = memory /\ program'[first] = program[first] /\ pc'[first] = pc[first]
      /\ Crew' = Crew
  BY DEF Unseen
<1>2. \A k \in Sync : value'[k] = value[k] /\ waiting'[k] = waiting[k]
  BY <1>1 DEF SameSync
<1>3. PICK cast \in [Role -> Process], here \in SUBSET Role : Plays(cast, here)
  BY DEF StageF
<1>4. \A x \in here : /\ cast[x] \in Crew
                      /\ program'[cast[x]] = program[cast[x]] /\ pc'[cast[x]] = pc[cast[x]]
  BY <1>3 DEF Plays, Family, Unseen
<1>5. Family(cast, here)'
  <2>1. \A x \in here \cap Leaf : Solo(cast[x])'
    BY <1>3, SoloUnseen DEF Plays, Family
  <2>2. \A q \in alive' : cast["p7pid"] \in ancestors'[q] <=> q \in Crew
    BY <1>3 DEF Plays, Family, Unseen
  <2> QED
    BY <1>1, <1>3, <1>4, <2>1, <2>2 DEF Plays, Family
<1>6. "p7pid" \in here /\ here \subseteq Role
  BY <1>3 DEF Plays, Family
<1>7. Grows(cast, here) => Grows(cast, here)'
  BY <1>4, <1>6 DEF Grows, Child, Leaf
<1>8. Shrinks(cast, here) => Shrinks(cast, here)'
  BY <1>4, <1>6 DEF Shrinks, Child, Leaf
<1>9. Meets(cast, here)'
  <2>1. Announced(cast, here)' = Announced(cast, here)
    BY <1>4 DEF Announced, Debt
  <2>2. /\ Parks(cast, here, Child, 5, "blkp7child")'
        /\ Parks(cast, here, Leaf, 4, "blkleaves") => Parks(cast, here, Leaf, 4, "blkleaves")'
    BY <1>2, <1>3, <1>4, SyncKeys DEF Plays, Meets, Parks, Reached
  <2>3. pc'[cast["p7pid"]] = pc[cast["p7pid"]]
    BY <1>4, <1>6
  <2>4. /\ Awaits("endp7", Debt(pc[cast["p7pid"]] >= 18) - Debt(pc[first] >= 6), first)'
        /\ Awaits("blkp7", 0 - Debt(pc[cast["p7pid"]] >= 19), cast["p7pid"])'
    BY <1>1, <1>2, <1>3, <2>3, SyncKeys DEF Plays, Meets, Awaits, Debt
  <2>5. Tickets(cast, here)' = Tickets(cast, here)
    BY <2>1, <2>3 DEF Tickets
  <2>7. Awaits("endcreate", Tickets(cast, here), cast["p7pid"])' /\ (Tickets(cast, here) >= -1)'
    BY <1>2, <1>3, <2>5, SyncKeys DEF Plays, Meets, Awaits
  <2>6. (IF pc[cast["p7pid"]] <= 13 THEN Parks(cast, here, Leaf, 4, "blkleaves")
         ELSE waiting["blkleaves"] = {})'
    BY <1>2, <1>3, <2>2, <2>3, SyncKeys DEF Plays, Meets
  <2> QED
    BY <2>2, <2>4, <2>6, <2>7 DEF Meets
<1> QED
  BY <1>1, <1>3, <1>5, <1>7, <1>8, <1>9 DEF StageF, Plays, At1

LEMMA StageUnseen ==
  ASSUME Unseen, Stage, Common, Common'
  PROVE  Stage'
BY StageAUnseen, StageB1Unseen, StageB2Unseen, StageC1Unseen, StageC2Unseen, StageC3Unseen,
   StageC4Unseen, StageD1Unseen, StageD2Unseen, StageEUnseen, StageFUnseen DEF Stage, Common
------------------------------------------------------------------------------
(* Steps that a stage does not see.                                         *)

LEMMA LingersUnseen ==
  ASSUME Common, Common', Tails, Stage, Lingers, SameSync, memory' = memory
  PROVE  Tails' /\ Stage'
<1>1. Crew' = Crew
  BY DEF Lingers, Crew
<1>2. Tails'
  BY DEF Lingers, Tails, Solo
<1>3. Unseen
  BY <1>1 DEF Lingers, Unseen
<1> QED
  BY <1>2, <1>3, StageUnseen

(* A process at its tail prints, or ends.                                   *)
LEMMA TailStep ==
  ASSUME Common, Tails, Stage, NEW p \in alive, p # first, TailPlace(program[p], pc[p]), Acts(p)
  PROVE  Common' /\ Tails' /\ Stage'
<1>a. Types /\ Specified /\ p \in Process /\ first \in alive
  BY DEF Common, Types
<1>b. Solo(p) /\ (program[p] = "p4c" => handlers[p] = DOMAIN Handler)
  BY DEF Tails
<1>c. \A k \in Key : p \notin waiting[k]
  BY DEF Acts, Step, Ready
<1>d. p \notin Crew /\ first \notin Crew
  BY DEF Crew
<1>e. ~Calls(p) /\ Kill(p, p) /\ Still => Common' /\ Tails' /\ Stage'
  <2> SUFFICES ASSUME ~Calls(p), Kill(p, p), Still
               PROVE  Common' /\ Tails' /\ Stage'
    OBVIOUS
  <2>1. Common' /\ Kills(p, {p}) /\ SameSync
    BY <1>b, <1>c, EndPlace
  <2>2. Crew' = Crew
    BY <1>a, <1>d, <2>1, CrewKilled
  <2>3. Tails'
    BY <1>a, <2>1, TailsKilled
  <2>4. Unseen
    BY <1>a, <1>d, <2>1, <2>2 DEF Unseen, Kills, Crew
  <2> QED
    BY <2>1, <2>3, <2>4, StageUnseen
<1>f. Calls(p) /\ TailPlace(program[p], pc[p] + 1) => Common' /\ Tails' /\ Stage'
  <2> SUFFICES ASSUME Calls(p), TailPlace(program[p], pc[p] + 1)
               PROVE  Common' /\ Tails' /\ Stage'
    OBVIOUS
  <2>1. Common' /\ SameSync /\ memory' = memory /\ (Passes(p) \/ Lingers)
    BY PrintPlace
  <2>2. CASE Lingers
    BY <2>1, <2>2, LingersUnseen
  <2>3. CASE Passes(p)
    <3>1. OthersStay(p) /\ alive' = alive /\ ancestors' = ancestors
      BY <1>a, <2>3, PassesOthers
    <3>2. program'[p] = program[p] /\ pc'[p] = pc[p] + 1 /\ handlers'[p] = handlers[p]
      BY <1>a, <2>3 DEF Passes, Types
    <3>3. Tails'
      BY <1>b, <3>1, <3>2, TailsAfter
    <3>4. Crew' = Crew
      BY <1>a, <3>1, <3>2 DEF OthersStay, Crew
    <3>5. Unseen
      BY <1>a, <1>d, <2>1, <3>1, <3>4 DEF Unseen, OthersStay, Crew
    <3> QED
      BY <2>1, <3>3, <3>5, StageUnseen
  <2> QED
    BY <2>1, <2>2, <2>3
<1>1. CASE program[p] = "p2" /\ pc[p] = 11
  <2>1. Text[program[p]][pc[p]] = <<"exit">>
    BY <1>1 DEF Text, p2
  <2> QED
    BY <1>e, <2>1, ExitStep DEF Calls
<1>2. CASE program[p] = "p3rest" /\ pc[p] = 11
  <2>1. Text[program[p]][pc[p]] = <<"print">>
    BY <1>2 DEF Text, p3rest
  <2> QED
    BY <1>2, <1>f, <2>1 DEF Calls, TailPlace
<1>3. CASE program[p] = "p3rest" /\ pc[p] = 12
  <2>1. Text[program[p]][pc[p]] = <<"exit">>
    BY <1>3 DEF Text, p3rest
  <2> QED
    BY <1>e, <2>1, ExitStep DEF Calls
<1>4. CASE program[p] = "p4c" /\ pc[p] = 2
  <2>1. Text[program[p]][pc[p]] = <<"print">>
    BY <1>4 DEF Text, p4c
  <2> QED
    BY <1>4, <1>f, <2>1 DEF Calls, TailPlace
<1>5. CASE program[p] = "p4c" /\ pc[p] = 3
  <2>1. Text[program[p]][pc[p]] = <<"specpassup", "trap">>
    BY <1>5 DEF Text, p4c
  <2>2. "trap" \in handlers[p]
    BY <1>5, <1>b DEF Handler
  <2> QED
    BY <1>e, <2>1, <2>2, SpecPassUpStep DEF Calls
<1>6. CASE program[p] \in {"p5", "p6"} /\ pc[p] = 1
  <2>1. Text[program[p]][pc[p]] = <<"print">>
    BY <1>6 DEF Text, p5, p6
  <2> QED
    BY <1>6, <1>f, <2>1 DEF Calls, TailPlace
<1>7. CASE program[p] \in {"p5", "p6"} /\ pc[p] = 2
  <2>1. handlers[p] = {}
    BY <1>7, <1>a DEF Specified, P4Programs
  <2>2. CASE program[p] = "p5"
    <3>1. Text[program[p]][pc[p]] = <<"exception", "sys", 13>>
      BY <1>7, <2>2 DEF Text, p5
    <3> QED
      BY <1>e, <2>1, <3>1, UnknownStep DEF Calls
  <2>3. CASE program[p] = "p6"
    <3>1. Text[program[p]][pc[p]] = <<"exception", "trap">>
      BY <1>7, <2>3 DEF Text, p6
    <3> QED
      BY <1>e, <2>1, <3>1, ExceptionStep DEF Calls
  <2> QED
    BY <1>7, <2>2, <2>3
<1> QED
  BY <1>a, <1>1, <1>2, <1>3, <1>4, <1>5, <1>6, <1>7 DEF TailPlace
------------------------------------------------------------------------------
(* Steps of p1 and of the crew.                                             *)

Moves(p) ==
  /\ p \in Process /\ p \in alive
  /\ Crew' = Crew
  /\ alive' = alive
  /\ UNCHANGED <<ancestors, program, handlers>>
  /\ pc'[p] = pc[p] + 1
  /\ \A q \in Process \ {p} : pc'[q] = pc[q]

LEMMA MemberPasses ==
  ASSUME Common, Tails, NEW p \in alive, p = first \/ p \in Crew, Passes(p),
         p = first \/ ~TailPlace(program[p], pc[p] + 1)
  PROVE  Moves(p) /\ Tails'
<1>1. Types /\ p \in Process /\ pc \in [Process -> Nat]
  BY DEF Common, Types
<1>2. OthersStay(p) /\ alive' = alive /\ ancestors' = ancestors
  BY <1>1, PassesOthers
<1>3. program'[p] = program[p] /\ pc'[p] = pc[p] + 1 /\ \A q \in Process \ {p} : pc'[q] = pc[q]
  BY <1>1 DEF Passes
<1>4. Crew' = Crew
  BY <1>2, <1>3, CrewAfter
<1>5. Tails'
  BY <1>2, <1>3, TailsAfter
<1> QED
  BY <1>1, <1>3, <1>4, <1>5 DEF Moves, Passes

LEMMA MemberPrints ==
  ASSUME Common, Tails, Stage, NEW p \in alive, p = first \/ p \in Crew, Acts(p),
         Text[program[p]][pc[p]] = <<"print">>,
         p = first \/ ~TailPlace(program[p], pc[p] + 1)
  PROVE  /\ Common' /\ Tails'
         /\ Stage' \/ (Moves(p) /\ SameSync /\ memory' = memory)
<1>1. Common' /\ SameSync /\ memory' = memory /\ (Passes(p) \/ Lingers)
  BY PrintPlace DEF Calls
<1> QED
  BY <1>1, LingersUnseen, MemberPasses

LEMMA MemberTurns ==
  ASSUME Common, Tails, NEW p \in alive, p = first \/ p \in Crew, NEW prog, Turns(p, prog),
         p = first \/ ~TailPlace(prog, 1)
  PROVE  /\ Tails' /\ Crew' = Crew /\ alive' = alive /\ SameSync
         /\ UNCHANGED <<ancestors, handlers, memory>>
         /\ program'[p] = prog /\ pc'[p] = 1
         /\ \A q \in Process \ {p} : program'[q] = program[q] /\ pc'[q] = pc[q]
<1>1. Types /\ p \in Process /\ pc \in [Process -> Nat] /\ program \in [Process -> DOMAIN Text]
  BY DEF Common, Types
<1>2. OthersStay(p) /\ alive' = alive /\ ancestors' = ancestors
  BY <1>1, PassesOthers
<1>3. program'[p] = prog /\ pc'[p] = 1
  BY <1>1 DEF Turns
<1>4. Crew' = Crew
  BY <1>2, <1>3, CrewAfter
<1>5. Tails'
  BY <1>2, <1>3, TailsAfter
<1> QED
  BY <1>1, <1>2, <1>3, <1>4, <1>5 DEF Turns, SameSync

LEMMA MemoryKept ==
  ASSUME Types, NEW v, v \notin Variable, NEW new,
         memory' = [u \in DOMAIN memory |-> IF u = v THEN new ELSE memory[u]]
  PROVE  memory' = memory
<1>1. DOMAIN memory = Variable /\ memory = [u \in Variable |-> memory[u]]
  BY DEF Types
<1>2. memory' = [u \in Variable |-> memory[u]]
  BY <1>1
<1> QED
  BY <1>1, <1>2

LEMMA Nowhere == "nowhere" \notin Variable
  BY DEF Variable, Pid

(* p has created new.                                                       *)
Joins(p, new, prog, v) ==
  /\ new \in Process /\ new \notin alive
  /\ p \in Process /\ p \in alive /\ p # new
  /\ alive' = alive \cup {new}
  /\ ancestors'[new] = ancestors[p] \cup {new}
  /\ \A q \in alive : ancestors'[q] = ancestors[q]
  /\ Crew' = IF TailPlace(prog, 1) THEN Crew ELSE Crew \cup {new}
  /\ program'[new] = prog /\ pc'[new] = 1 /\ pc'[p] = pc[p] + 1 /\ handlers'[new] = {}
  /\ \A q \in alive : program'[q] = program[q]
  /\ \A q \in alive \ {p} : pc'[q] = pc[q] /\ (Solo(q) => Solo(q)')
  /\ Solo(new)'
  /\ UNCHANGED <<value, waiting, handlers>>
  /\ v \notin Variable => memory' = memory
  /\ v \in Variable => memory' = [memory EXCEPT ![v] = new]

LEMMA MemberCreates ==
  ASSUME Common, Tails, NEW p \in alive, p = first \/ p \in Crew, Acts(p),
         NEW prog \in DOMAIN Text, prog # "p4c", NEW v, NEW op \in {"create", "created"},
         Text[program[p]][pc[p]] = <<op, prog, v>>,
         p = first \/ ~TailPlace(program[p], pc[p] + 1)
  PROVE  Common' /\ Tails' /\ \E new : Joins(p, new, prog, v)
<1>1. PICK new : /\ Common' /\ Creates(p, new, prog)
                 /\ memory' = [u \in DOMAIN memory |-> IF u = v THEN new ELSE memory[u]]
  BY CreatePlace
<1>a. /\ Types /\ p \in Process /\ new \in Process /\ new \notin alive
      /\ program \in [Process -> DOMAIN Text] /\ pc \in [Process -> Nat] /\ alive \subseteq Process
      /\ handlers[new] = {}
  BY <1>1 DEF Common, Types, Creates
<1>2. Crew' = IF TailPlace(prog, 1) THEN Crew ELSE Crew \cup {new}
  BY <1>1, CrewCreated
<1>3. p = first \/ ~TailPlace(program[p], pc[p])
  BY DEF Crew
<1>4. Tails' /\ Solo(new)' /\ \A q \in alive \ {p} : Solo(q) => Solo(q)'
  BY <1>1, <1>3, TailsCreated
<1>5. /\ program'[new] = prog /\ pc'[new] = 1 /\ pc'[p] = pc[p] + 1 /\ handlers'[new] = {}
      /\ \A q \in alive : program'[q] = program[q]
      /\ \A q \in alive \ {p} : pc'[q] = pc[q]
  BY <1>1, <1>a DEF Creates
<1>6. v \in Variable => memory' = [memory EXCEPT ![v] = new]
  BY <1>1, <1>a DEF Types
<1>7. v \notin Variable => memory' = memory
  BY <1>1, <1>a, MemoryKept
<1> QED
  BY <1>1, <1>a, <1>2, <1>4, <1>5, <1>6, <1>7 DEF Joins, Creates

(* p goes on to its tail.                                                   *)
LEMMA MemberLeaves ==
  ASSUME Common, Tails, NEW p \in Crew, Passes(p), TailPlace(program[p], pc[p] + 1), Solo(p),
         program[p] = "p4c" => handlers[p] = DOMAIN Handler
  PROVE  /\ p \in Process /\ p # first
         /\ Tails' /\ Crew' = Crew \ {p} /\ alive' = alive
         /\ UNCHANGED <<ancestors, program, handlers>>
         /\ pc'[p] = pc[p] + 1
         /\ \A q \in Process \ {p} : pc'[q] = pc[q]
<1>1. Types /\ p \in Process /\ pc \in [Process -> Nat] /\ p \in alive /\ p # first
  BY DEF Common, Types, Crew
<1>2. OthersStay(p) /\ alive' = alive /\ ancestors' = ancestors
  BY <1>1, PassesOthers
<1>3. program'[p] = program[p] /\ pc'[p] = pc[p] + 1 /\ \A q \in Process \ {p} : pc'[q] = pc[q]
  BY <1>1 DEF Passes
<1>4. Crew' = Crew \ {p}
  BY <1>1, <1>2, <1>3, CrewAfter
<1>5. Tails'
  BY <1>1, <1>2, <1>3, TailsAfter DEF Passes
<1> QED
  BY <1>1, <1>3, <1>4, <1>5 DEF Passes

(* The semaphores an early step of the test leaves alone.                   *)
LEMMA BeforeKept ==
  ASSUME \A k \in Sync \ {"s", "testsem", "startp2", "endp2"} :
           value'[k] = value[k] /\ waiting'[k] = waiting[k],
         memory'["p3inc"] = memory["p3inc"], Before3
  PROVE  Before3'
BY SyncKeys DEF Before3, Before4, Before7, Between7, Has

LEMMA Before4Kept ==
  ASSUME \A k \in Sync \ {"synp3", "blkp3", "endp3"} :
           value'[k] = value[k] /\ waiting'[k] = waiting[k],
         Before4
  PROVE  Before4'
BY SyncKeys DEF Before4, Before7, Between7, Has

LEMMA Before7Kept ==
  ASSUME \A k \in Sync \ {"endp4"} : value'[k] = value[k] /\ waiting'[k] = waiting[k],
         Before7
  PROVE  Before7'
BY SyncKeys DEF Before7, Between7, Has

LEMMA VariableFact ==
  {"p3pid", "p32id", "p7pid", "leaf1pid", "leaf2pid", "leaf3pid", "leaf4pid",
   "p1p2synch", "p3inc", "p7inc", "sstat_o"} = Variable
BY DEF Variable, Pid

LEMMA MemberKills ==
  ASSUME Common, Tails, NEW p \in alive, p = first \/ (p \in Crew /\ ~TailPlace(program[p], pc[p] + 1)),
         Acts(p), NEW op \in {"kill", "killed"}, NEW v, Text[program[p]][pc[p]] = <<op, v>>,
         NEW victim \in alive, memory[v] = victim, victim # first,
         Offspring(victim) \cap Printing = {}
  PROVE  /\ Common' /\ Tails' /\ Kills(p, Offspring(victim))
         /\ Crew' = Crew \ Offspring(victim)
         /\ \A q \in alive' : Solo(q) => Solo(q)'
<1>1. Types /\ victim # 0
  BY ProcessFact DEF Common, Types
<1>2. Kill(p, victim) /\ Still /\ ~Calls(p)
  BY <1>1, KillStep DEF Calls
<1>3. Common' /\ Kills(p, Offspring(victim))
  BY <1>2, KillPlace
<1>4. Crew' = Crew \ Offspring(victim)
  BY <1>1, <1>3, CrewKilled
<1>5. Tails' /\ \A q \in alive' : Solo(q) => Solo(q)'
  BY <1>1, <1>3, TailsKilled
<1> QED
  BY <1>3, <1>4, <1>5

LEMMA KillsKeep ==
  ASSUME Types, NEW p, NEW dead, Kills(p, dead), NEW k \in Sync, waiting[k] \cap dead = {}
  PROVE  value'[k] = value[k] /\ waiting'[k] = waiting[k]
<1>1. k \in Key /\ value[k] \in Int
  BY KeyFact DEF Types
<1>2. Cardinality(waiting[k] \cap dead) = 0 /\ waiting[k] \ dead = waiting[k]
  BY NoneWaiting
<1>3. value'[k] = value[k] + Cardinality(waiting[k] \cap dead) /\ waiting'[k] = waiting[k] \ dead
  BY <1>1 DEF Kills
<1> QED
  BY <1>1, <1>2, <1>3
------------------------------------------------------------------------------
LEMMA StepA ==
  ASSUME Common, Tails, StageA, Acts(first)
  PROVE  Common' /\ Tails' /\ Stage'
<1> DEFINE p == first
<1>a. Types /\ p \in alive /\ p \in Process /\ Stage
  BY DEF Common, Types, Stage
<1>b. /\ program[p] = "test" /\ pc[p] \in 1 .. 4 /\ Crew = {} /\ Before3
      /\ pc[p] = 1 => Has("testsem", 0)
      /\ pc[p] = 2 => value["testsem"] = 1
      /\ Has("startp2", 0) /\ Has("endp2", 0) /\ waiting["s"] = {}
  BY DEF StageA, At1
<1>1. CASE pc[p] = 1
  <2>1. Text[program[p]][pc[p]] = <<"V", "testsem">>
    BY <1>b, <1>1 DEF Text, test
  <2>2. /\ Common' /\ Passes(p) /\ memory' = memory
        /\ value' = [value EXCEPT !["testsem"] = @ + 1]
        /\ waiting' = waiting
    BY <1>a, <1>b, <1>1, <2>1, VPlace, SyncKeys DEF Has
  <2>3. Moves(p) /\ Tails'
    BY <1>a, <2>2, MemberPasses
  <2>4. StageA'
    BY <1>a, <1>b, <1>1, <2>2, <2>3, KeyFact
       DEF Moves, StageA, At1, Has, Before3, Before4, Before7, Between7, Types, Semaphores
  <2> QED
    BY <2>2, <2>3, <2>4 DEF Stage
<1>2. CASE pc[p] = 2
  <2>1. Text[program[p]][pc[p]] = <<"assert", "testsem">>
    BY <1>b, <1>2 DEF Text, test
  <2>2. Holds("testsem", p)
    BY <1>b, <1>2 DEF Holds
  <2>3. Common' /\ Passes(p) /\ UNCHANGED <<value, waiting, memory>>
    BY <1>a, <2>1, <2>2, AssertPlace
  <2>4. Moves(p) /\ Tails'
    BY <1>a, <2>3, MemberPasses
  <2>5. StageA'
    BY <1>a, <1>b, <1>2, <2>3, <2>4
       DEF Moves, StageA, At1, Has, Before3, Before4, Before7, Between7
  <2> QED
    BY <2>3, <2>4, <2>5 DEF Stage
<1>3. CASE pc[p] = 3
  <2>1. Text[program[p]][pc[p]] = <<"print">>
    BY <1>b, <1>3 DEF Text, test
  <2>2. Common' /\ Tails' /\ (Stage' \/ (Moves(p) /\ SameSync /\ memory' = memory))
    BY <1>a, <2>1, MemberPrints
  <2>3. ASSUME Moves(p), SameSync, memory' = memory
        PROVE  StageA'
    <3>1. Before3'
      BY <1>b, <2>3, BeforeSame
    <3> QED
      BY <1>b, <1>3, <2>3, <3>1, SyncKeys DEF Moves, SameSync, StageA, At1, Has
  <2> QED
    BY <2>2, <2>3 DEF Stage
<1>4. CASE pc[p] = 4
  <2>1. Text[program[p]][pc[p]] = <<"create", "p2", "nowhere">>
    BY <1>b, <1>4 DEF Text, test
  <2>2. "p2" \in DOMAIN Text
    BY DEF Text
  <2>3. PICK new :
             /\ Common' /\ Creates(p, new, "p2")
             /\ memory' = [u \in DOMAIN memory |-> IF u = "nowhere" THEN new ELSE memory[u]]
    BY <1>a, <2>1, <2>2, CreatePlace
  <2>4. memory' = memory
    BY <1>a, <2>3, MemoryKept, Nowhere
  <2>5. Crew' = {new}
    BY <1>a, <1>b, <2>3, CrewCreated DEF TailPlace
  <2>6. Tails' /\ Solo(new)'
    BY <1>a, <2>3, TailsCreated
  <2>7. /\ new \in Process /\ program'[new] = "p2" /\ pc'[new] = 1 /\ UNCHANGED <<value, waiting>>
        /\ program'[p] = "test" /\ pc'[p] = 5
    BY <1>a, <1>b, <1>4, <2>3 DEF Creates, Types
  <2>8. RunsP2(new)'
    BY <1>b, <2>5, <2>6, <2>7 DEF RunsP2, Has, Awaits, Debt
  <2>9. StageB1'
    BY <1>b, <2>4, <2>7, <2>8 DEF StageB1, Has, Awaits, Debt, At1, Before3, Before4, Before7, Between7
  <2> QED
    BY <2>3, <2>6, <2>9 DEF Stage
<1> QED
  BY <1>b, <1>1, <1>2, <1>3, <1>4

LEMMA StepB1First ==
  ASSUME Common, Tails, StageB1, Acts(first)
  PROVE  Common' /\ Tails' /\ Stage'
<1> DEFINE p == first
<1>a. Types /\ p \in alive /\ p \in Process /\ Stage /\ \A k \in Key : p \notin waiting[k]
  BY DEF Common, Types, Stage, Acts, Step, Ready
<1>b. /\ program[p] = "test" /\ pc[p] \in 5 .. 8 /\ Before3 /\ waiting["s"] = {}
      /\ Awaits("endp2", 0 - Debt(pc[p] >= 8), p)
  BY DEF StageB1, At1
<1>c. PICK b \in Process : RunsP2(b)
  BY DEF StageB1
<1>d. b \in alive /\ b # p /\ waiting \in [Key -> SUBSET alive] /\ value \in [Key -> Int]
  BY <1>a, <1>c DEF RunsP2, Crew, Types
<1>e. Moves(p) => /\ program'[p] = "test" /\ pc'[p] = pc[p] + 1 /\ Crew' = {b} /\ Solo(b)'
                  /\ program'[b] = "p2" /\ pc'[b] = pc[b]
  BY <1>b, <1>c, <1>d DEF Moves, RunsP2, Solo
<1>1. CASE pc[p] = 5
  <2>1. Text[program[p]][pc[p]] = <<"print">>
    BY <1>b, <1>1 DEF Text, test
  <2>2. Common' /\ Tails' /\ (Stage' \/ (Moves(p) /\ SameSync /\ memory' = memory))
    BY <1>a, <2>1, MemberPrints
  <2>3. ASSUME Moves(p), SameSync, memory' = memory
        PROVE  StageB1'
    <3>1. Before3'
      BY <1>b, <2>3, BeforeSame
    <3>2. RunsP2(b)'
      BY <1>1, <1>c, <1>e, <2>3, SyncKeys DEF RunsP2, Awaits, SameSync, Debt
    <3>3. At1("test", 5, 8)' /\ pc'[p] = 6
      BY <1>b, <1>1, <1>e, <2>3 DEF At1
    <3>4. waiting'["s"] = {} /\ Awaits("endp2", 0, p)'
      BY <1>b, <1>1, <2>3, SyncKeys DEF SameSync, Awaits, Debt
    <3> QED
      BY <3>1, <3>2, <3>3, <3>4 DEF StageB1, Awaits, Debt
  <2> QED
    BY <2>2, <2>3 DEF Stage
<1>2. CASE pc[p] = 6
  <2>1. Text[program[p]][pc[p]] = <<"V", "startp2">>
    BY <1>b, <1>2 DEF Text, test
  <2>2. /\ Common' /\ Passes(p) /\ memory' = memory
        /\ value' = [value EXCEPT !["startp2"] = @ + 1]
        /\ \/ waiting["startp2"] = {} /\ waiting' = waiting
           \/ \E q \in waiting["startp2"] : waiting' = [waiting EXCEPT !["startp2"] = @ \ {q}]
    BY <1>a, <2>1, VPlace, SyncKeys
  <2>3. Moves(p) /\ Tails'
    BY <1>a, <2>2, MemberPasses
  <2>4. \A k \in Sync \ {"startp2"} : value'[k] = value[k] /\ waiting'[k] = waiting[k]
    BY <1>d, <2>2, KeyFact
  <2>5. Before3'
    BY <1>b, <2>2, <2>4, BeforeKept
  <2>6. Awaits("startp2", 1 - Debt(pc[b] >= 2), b)'
    <3>1. value'["startp2"] = value["startp2"] + 1
      BY <1>d, <2>2, KeyFact, SyncKeys
    <3>2. Awaits("startp2", 0 - Debt(pc[b] >= 2), b)
      BY <1>2, <1>c DEF RunsP2, Debt
    <3>3. waiting'["startp2"] = {}
      BY <1>d, <2>2, <3>2, KeyFact, SyncKeys DEF Awaits
    <3> QED
      BY <1>e, <2>3, <3>1, <3>2, <3>3 DEF Awaits, Debt
  <2>7. RunsP2(b)'
    BY <1>2, <1>c, <1>e, <2>2, <2>3, <2>4, <2>6, SyncKeys DEF RunsP2, Debt
  <2>8. StageB1'
    <3>1. At1("test", 5, 8)' /\ pc'[p] = 7
      BY <1>b, <1>2, <1>e, <2>3 DEF At1
    <3>2. waiting'["s"] = {} /\ Awaits("endp2", 0, p)'
      BY <1>b, <1>2, <2>4, SyncKeys DEF Awaits, Debt
    <3> QED
      BY <2>5, <2>7, <3>1, <3>2 DEF StageB1, Awaits, Debt
  <2> QED
    BY <2>2, <2>3, <2>8 DEF Stage
<1>3. CASE pc[p] = 7
  <2>1. Text[program[p]][pc[p]] = <<"P", "endp2">>
    BY <1>b, <1>3 DEF Text, test
  <2>2. /\ Common' /\ Passes(p) /\ memory' = memory
        /\ value' = [value EXCEPT !["endp2"] = @ - 1]
        /\ waiting' = [waiting EXCEPT !["endp2"] = @ \cup {p}]
    BY <1>a, <1>b, <1>3, <2>1, PPlace, SyncKeys DEF Awaits, Debt
  <2>3. Moves(p) /\ Tails'
    BY <1>a, <2>2, MemberPasses
  <2>4. \A k \in Sync \ {"endp2"} : value'[k] = value[k] /\ waiting'[k] = waiting[k]
    BY <1>d, <2>2, KeyFact
  <2>5. Before3'
    BY <1>b, <2>2, <2>4, BeforeKept
  <2>6. Awaits("endp2", -1, p)'
    BY <1>b, <1>d, <1>3, <2>2, KeyFact, SyncKeys DEF Awaits, Debt
  <2>7. RunsP2(b)'
    BY <1>3, <1>c, <1>e, <2>2, <2>3, <2>4, SyncKeys DEF RunsP2, Awaits, Debt
  <2>8. StageB1'
    BY <1>b, <1>3, <1>e, <2>3, <2>4, <2>5, <2>6, <2>7, SyncKeys DEF StageB1, At1, Debt
  <2> QED
    BY <2>2, <2>3, <2>8 DEF Stage
<1>4. pc[p] # 8
  BY <1>a, <1>b, KeyFact, SyncKeys DEF Awaits, Debt
<1> QED
  BY <1>b, <1>1, <1>2, <1>3, <1>4

LEMMA StepB1Crew ==
  ASSUME Common, Tails, StageB1, NEW p \in Crew, Acts(p)
  PROVE  Common' /\ Tails' /\ Stage'
<1>a. /\ Types /\ p \in alive /\ p # first /\ p \in Process /\ first \in Process /\ Stage
      /\ \A k \in Key : p \notin waiting[k]
      /\ waiting \in [Key -> SUBSET alive] /\ value \in [Key -> Int] /\ memory \in [Variable -> Nat]
  BY DEF Common, Types, Stage, Acts, Step, Ready, Crew
<1>b. /\ program[first] = "test" /\ pc[first] \in 5 .. 8 /\ Before3 /\ waiting["s"] = {}
      /\ Awaits("endp2", 0 - Debt(pc[first] >= 8), first)
  BY DEF StageB1, At1
<1>c. RunsP2(p)
  BY DEF StageB1, RunsP2
<1>d. /\ Crew = {p} /\ Solo(p) /\ program[p] = "p2" /\ pc[p] \in 1 .. 10
      /\ Awaits("startp2", Debt(pc[first] >= 7) - Debt(pc[p] >= 2), p)
      /\ pc[p] >= 3 => pc[first] >= 7
  BY <1>c DEF RunsP2
<1>e. Moves(p) => /\ program'[first] = "test" /\ pc'[first] = pc[first] /\ Crew' = {p} /\ Solo(p)'
                  /\ program'[p] = "p2" /\ pc'[p] = pc[p] + 1
  BY <1>a, <1>b, <1>d DEF Moves, Solo
<1>f. pc[p] # 10 => ~TailPlace(program[p], pc[p] + 1)
  BY <1>d DEF TailPlace
<1>k. /\ "s" \in Key /\ "startp2" \in Key /\ "endp2" \in Key
      /\ "s" \in Sync /\ "startp2" \in Sync /\ "endp2" \in Sync
  BY KeyFact, SyncKeys
<1>g. pc[p] >= 2 => pc[first] >= 7
  BY <1>a, <1>d, <1>k DEF Awaits, Debt
(* Stage B1 after a step that is not about startp2 or endp2.                *)
<1>h. ASSUME Moves(p), pc[p] # 1, memory'["p3inc"] = memory["p3inc"], waiting'["s"] = {},
             \A k \in Sync \ {"s"} : value'[k] = value[k] /\ waiting'[k] = waiting[k],
             pc[p] + 1 \in {4, 6} => value'["s"] = 0,
             pc[p] + 1 = 5 => value'["s"] = 1,
             pc[p] + 1 # 11,
             pc[p] + 1 = 10 => memory'["p1p2synch"] # 0
      PROVE  StageB1'
  <2>1. Before3'
    BY <1>b, <1>h, BeforeKept
  <2>2. RunsP2(p)'
    BY <1>d, <1>e, <1>g, <1>h, <1>k DEF RunsP2, Awaits, Debt
  <2> QED
    BY <1>a, <1>b, <1>e, <1>h, <1>k, <2>1, <2>2 DEF StageB1, At1, Awaits, Debt
<1>1. CASE pc[p] = 1
  <2>1. Text[program[p]][pc[p]] = <<"P", "startp2">>
    BY <1>d, <1>1 DEF Text, p2
  <2>2. /\ Common' /\ Passes(p) /\ memory' = memory
        /\ value' = [value EXCEPT !["startp2"] = @ - 1]
        /\ waiting' = IF value["startp2"] > 0 THEN waiting ELSE [waiting EXCEPT !["startp2"] = @ \cup {p}]
    BY <1>a, <1>k, <2>1, PPlace
  <2>3. Moves(p) /\ Tails'
    BY <1>a, <1>f, <1>1, <2>2, MemberPasses
  <2>4. \A k \in Sync \ {"startp2"} : value'[k] = value[k] /\ waiting'[k] = waiting[k]
    BY <1>a, <2>2, KeyFact
  <2>5. Before3'
    BY <1>b, <2>2, <2>4, BeforeKept
  <2>6. Awaits("startp2", Debt(pc[first] >= 7) - 1, p)'
    <3>1. value["startp2"] = Debt(pc[first] >= 7) /\ waiting["startp2"] = {}
      BY <1>d, <1>1 DEF Awaits, Debt
    <3>2. pc'[first] = pc[first]
      BY <1>e, <2>3
    <3>3. CASE pc[first] >= 7
      <4>1. value'["startp2"] = 0 /\ waiting'["startp2"] = {}
        BY <1>a, <1>k, <2>2, <3>1, <3>3 DEF Debt
      <4> QED
        BY <3>2, <3>3, <4>1 DEF Awaits, Debt
    <3>4. CASE ~ (pc[first] >= 7)
      <4>1. value'["startp2"] = -1 /\ waiting'["startp2"] = {p}
        BY <1>a, <1>k, <2>2, <3>1, <3>4 DEF Debt
      <4> QED
        BY <3>2, <3>4, <4>1 DEF Awaits, Debt
    <3> QED
      BY <3>3, <3>4
  <2>7. RunsP2(p)'
    BY <1>d, <1>e, <1>1, <2>3, <2>6 DEF RunsP2, Debt
  <2>8. StageB1'
    BY <1>a, <1>b, <1>e, <1>k, <2>3, <2>4, <2>5, <2>7 DEF StageB1, At1, Awaits, Debt
  <2> QED
    BY <2>2, <2>3, <2>8 DEF Stage
<1>2. CASE pc[p] \in {2, 7, 8}
  <2>1. Text[program[p]][pc[p]] = <<"print">>
    BY <1>d, <1>2 DEF Text, p2
  <2>2. Common' /\ Tails' /\ (Stage' \/ (Moves(p) /\ SameSync /\ memory' = memory))
    BY <1>a, <1>f, <1>2, <2>1, MemberPrints
  <2>3. Moves(p) /\ SameSync /\ memory' = memory => StageB1'
    BY <1>b, <1>h, <1>k, <1>2 DEF SameSync
  <2> QED
    BY <2>2, <2>3 DEF Stage
<1>3. CASE pc[p] = 3
  <2>1. Text[program[p]][pc[p]] = <<"clear", "s">>
    BY <1>d, <1>3 DEF Text, p2
  <2>2. Common' /\ Passes(p) /\ UNCHANGED <<memory, waiting>> /\ value' = [value EXCEPT !["s"] = 0]
    BY <1>a, <1>k, <2>1, ClearPlace
  <2>3. Moves(p) /\ Tails'
    BY <1>a, <1>f, <1>3, <2>2, MemberPasses
  <2>4. StageB1'
    BY <1>a, <1>b, <1>h, <1>k, <1>3, <2>2, <2>3, KeyFact
  <2> QED
    BY <2>2, <2>3, <2>4 DEF Stage
<1>4. CASE pc[p] = 4
  <2>1. Text[program[p]][pc[p]] = <<"V", "s">>
    BY <1>d, <1>4 DEF Text, p2
  <2>2. /\ Common' /\ Passes(p) /\ memory' = memory
        /\ value' = [value EXCEPT !["s"] = @ + 1] /\ waiting' = waiting
    BY <1>a, <1>b, <1>k, <2>1, VPlace
  <2>3. Moves(p) /\ Tails'
    BY <1>a, <1>f, <1>4, <2>2, MemberPasses
  <2>4. value'["s"] = 1
    BY <1>a, <1>c, <1>k, <1>4, <2>2 DEF RunsP2
  <2>5. StageB1'
    BY <1>a, <1>b, <1>h, <1>k, <1>4, <2>2, <2>3, <2>4, KeyFact
  <2> QED
    BY <2>2, <2>3, <2>5 DEF Stage
<1>5. CASE pc[p] = 5
  <2>1. Text[program[p]][pc[p]] = <<"P", "s">>
    BY <1>d, <1>5 DEF Text, p2
  <2>0. value["s"] = 1
    BY <1>c, <1>5 DEF RunsP2
  <2>2. /\ Common' /\ Passes(p) /\ memory' = memory
        /\ value' = [value EXCEPT !["s"] = @ - 1] /\ waiting' = waiting
    BY <1>a, <1>k, <2>0, <2>1, PPlace
  <2>3. Moves(p) /\ Tails'
    BY <1>a, <1>f, <1>5, <2>2, MemberPasses
  <2>4. value'["s"] = 0
    BY <1>a, <1>k, <2>0, <2>2
  <2>5. StageB1'
    BY <1>a, <1>b, <1>h, <1>k, <1>5, <2>2, <2>3, <2>4, KeyFact
  <2> QED
    BY <2>2, <2>3, <2>5 DEF Stage
<1>6. CASE pc[p] = 6
  <2>1. Text[program[p]][pc[p]] = <<"assert", "s">>
    BY <1>d, <1>6 DEF Text, p2
  <2>2. Holds("s", p)
    BY <1>c, <1>6 DEF RunsP2, Holds
  <2>3. Common' /\ Passes(p) /\ UNCHANGED <<value, waiting, memory>>
    BY <1>a, <2>1, <2>2, AssertPlace
  <2>4. Moves(p) /\ Tails'
    BY <1>a, <1>f, <1>6, <2>3, MemberPasses
  <2>5. StageB1'
    BY <1>b, <1>h, <1>6, <2>3, <2>4
  <2> QED
    BY <2>3, <2>4, <2>5 DEF Stage
<1>7. CASE pc[p] = 9
  <2>1. Text[program[p]][pc[p]] = <<"set", "p1p2synch">>
    BY <1>d, <1>7 DEF Text, p2
  <2>0. "p1p2synch" \in Variable /\ "p3inc" \in Variable
    BY DEF Variable
  <2>2. /\ Common' /\ Passes(p) /\ UNCHANGED <<value, waiting>>
        /\ memory' = [memory EXCEPT !["p1p2synch"] = @ + 1]
    BY <1>a, <2>0, <2>1, SetPlace
  <2>3. Moves(p) /\ Tails'
    BY <1>a, <1>f, <1>7, <2>2, MemberPasses
  <2>4. memory'["p1p2synch"] # 0 /\ memory'["p3inc"] = memory["p3inc"]
    BY <1>a, <2>0, <2>2
  <2>5. StageB1'
    BY <1>b, <1>h, <1>7, <2>2, <2>3, <2>4
  <2> QED
    BY <2>2, <2>3, <2>5 DEF Stage
<1>8. CASE pc[p] = 10
  <2>1. Text[program[p]][pc[p]] = <<"V", "endp2">>
    BY <1>d, <1>8 DEF Text, p2
  <2>2. /\ Common' /\ Passes(p) /\ memory' = memory
        /\ value' = [value EXCEPT !["endp2"] = @ + 1]
        /\ \/ waiting["endp2"] = {} /\ waiting' = waiting
           \/ \E q \in waiting["endp2"] : waiting' = [waiting EXCEPT !["endp2"] = @ \ {q}]
    BY <1>a, <1>k, <2>1, VPlace
  <2>3. /\ Tails' /\ Crew' = {} /\ program' = program /\ pc'[first] = pc[first]
    BY <1>a, <1>d, <1>8, <2>2, MemberLeaves DEF TailPlace
  <2>4. \A k \in Sync \ {"endp2"} : value'[k] = value[k] /\ waiting'[k] = waiting[k]
    BY <1>a, <2>2, KeyFact
  <2>5. Before3'
    BY <1>b, <2>2, <2>4, BeforeKept
  <2>6. Has("endp2", 1 - Debt(pc[first] >= 8))'
    BY <1>a, <1>b, <1>k, <2>2, <2>3 DEF Has, Awaits, Debt
  <2>7. memory'["p1p2synch"] # 0
    BY <1>c, <1>8, <2>2 DEF RunsP2
  <2>8. StageB2'
    BY <1>b, <1>d, <1>8, <2>3, <2>5, <2>6, <2>7 DEF StageB2, At1
  <2> QED
    BY <2>2, <2>3, <2>8 DEF Stage
<1> QED
  BY <1>d, <1>1, <1>2, <1>3, <1>4, <1>5, <1>6, <1>7, <1>8

LEMMA StepB2 ==
  ASSUME Common, Tails, StageB2, Acts(first)
  PROVE  Common' /\ Tails' /\ Stage'
<1> DEFINE p == first
<1>a. /\ Types /\ p \in alive /\ p \in Process /\ Stage /\ \A k \in Key : p \notin waiting[k]
      /\ waiting \in [Key -> SUBSET alive] /\ value \in [Key -> Int] /\ memory \in [Variable -> Nat]
  BY DEF Common, Types, Stage, Acts, Step, Ready
<1>b. /\ program[p] = "test" /\ pc[p] \in 7 .. 10 /\ Crew = {} /\ Before3
      /\ pc[p] <= 8 => Has("endp2", 1 - Debt(pc[p] >= 8))
      /\ memory["p1p2synch"] # 0
  BY DEF StageB2, At1
<1>k. "endp2" \in Key /\ "endp2" \in Sync
  BY KeyFact, SyncKeys
<1>1. CASE pc[p] = 7
  <2>1. Text[program[p]][pc[p]] = <<"P", "endp2">>
    BY <1>b, <1>1 DEF Text, test
  <2>2. /\ Common' /\ Passes(p) /\ memory' = memory
        /\ value' = [value EXCEPT !["endp2"] = @ - 1] /\ waiting' = waiting
    BY <1>a, <1>b, <1>1, <1>k, <2>1, PPlace DEF Has, Debt
  <2>3. Moves(p) /\ Tails'
    BY <1>a, <2>2, MemberPasses
  <2>4. Before3'
    BY <1>a, <1>b, <2>2, KeyFact, BeforeKept
  <2>5. Has("endp2", 0)'
    BY <1>a, <1>b, <1>1, <1>k, <2>2 DEF Has, Debt
  <2>6. StageB2'
    BY <1>b, <1>1, <2>2, <2>3, <2>4, <2>5 DEF Moves, StageB2, At1, Debt, Has
  <2> QED
    BY <2>2, <2>3, <2>6 DEF Stage
<1>2. CASE pc[p] = 8
  <2>1. Text[program[p]][pc[p]] = <<"print">>
    BY <1>b, <1>2 DEF Text, test
  <2>2. Common' /\ Tails' /\ (Stage' \/ (Moves(p) /\ SameSync /\ memory' = memory))
    BY <1>a, <2>1, MemberPrints
  <2>3. Moves(p) /\ SameSync /\ memory' = memory => StageB2'
    BY <1>b, <1>2, BeforeSame DEF Moves, StageB2, At1
  <2> QED
    BY <2>2, <2>3 DEF Stage
<1>3. CASE pc[p] = 9
  <2>1. Text[program[p]][pc[p]] = <<"assert", "p1p2synch">>
    BY <1>b, <1>3 DEF Text, test
  <2>2. Holds("p1p2synch", p)
    BY <1>b DEF Holds
  <2>3. Common' /\ Passes(p) /\ UNCHANGED <<value, waiting, memory>>
    BY <1>a, <2>1, <2>2, AssertPlace
  <2>4. Moves(p) /\ Tails'
    BY <1>a, <2>3, MemberPasses
  <2>5. StageB2'
    BY <1>b, <1>3, <2>3, <2>4, BeforeSame DEF Moves, StageB2, At1, SameSync
  <2> QED
    BY <2>3, <2>4, <2>5 DEF Stage
<1>4. CASE pc[p] = 10
  <2>1. Text[program[p]][pc[p]] = <<"create", "p3", "p3pid">> /\ "p3" \in DOMAIN Text
    BY <1>b, <1>4 DEF Text, test
  <2>2. PICK new : Joins(p, new, "p3", "p3pid")
    BY <1>a, <2>1, MemberCreates
  <2>3. Common' /\ Tails'
    BY <1>a, <2>1, MemberCreates
  <2>4. /\ new \in Process /\ Crew' = {new} /\ Solo(new)' /\ program'[new] = "p3" /\ pc'[new] = 1
        /\ program'[p] = "test" /\ pc'[p] = 11 /\ UNCHANGED <<value, waiting>>
    BY <1>a, <1>b, <1>4, <2>2 DEF Joins, TailPlace
  <2>5. memory'["p3pid"] = new /\ memory'["p3inc"] = 1
    BY <1>a, <1>b, <2>2, VariableFact DEF Joins, Before3
  <2>6. RunsP3(new)'
    BY <1>b, <2>4, <2>5 DEF RunsP3, Has, Debt, Before3
  <2>7. WaitsP3'
    BY <1>b, <2>4 DEF WaitsP3, Has, Awaits, Debt, At1, Before3, Before4, Before7, Between7
  <2> QED
    BY <2>3, <2>4, <2>6, <2>7 DEF Stage, StageC1
<1> QED
  BY <1>b, <1>1, <1>2, <1>3, <1>4

LEMMA FirstWaitsP3 ==
  ASSUME Common, Tails, WaitsP3, Acts(first)
  PROVE  /\ Common' /\ Tails' /\ WaitsP3' /\ Moves(first) /\ memory' = memory
         /\ \A k \in Sync \ {"endp3"} : value'[k] = value[k] /\ waiting'[k] = waiting[k]
<1> DEFINE p == first
<1>a. /\ Types /\ p \in alive /\ p \in Process /\ \A k \in Key : p \notin waiting[k]
      /\ waiting \in [Key -> SUBSET alive] /\ value \in [Key -> Int]
  BY DEF Common, Types, Acts, Step, Ready
<1>k. "endp3" \in Key /\ "endp3" \in Sync
  BY KeyFact, SyncKeys
<1>b. /\ program[p] = "test" /\ pc[p] \in 11 .. 12 /\ Before4
      /\ Awaits("endp3", 0 - Debt(pc[p] >= 12), p)
  BY DEF WaitsP3, At1
<1>c. pc[p] = 11 /\ value["endp3"] = 0 /\ waiting["endp3"] = {}
  <2>1. pc[p] # 12
    BY <1>a, <1>b, <1>k DEF Awaits, Debt
  <2>2. pc[p] = 11
    BY <1>b, <2>1
  <2>3. 0 - Debt(pc[p] >= 12) = 0
    BY <2>2 DEF Debt
  <2>4. Awaits("endp3", 0, p)
    BY <1>b, <2>3
  <2> QED
    BY <2>2, <2>4 DEF Awaits
<1>1. Text[program[p]][pc[p]] = <<"P", "endp3">>
  BY <1>b, <1>c DEF Text, test
<1>2. /\ Common' /\ Passes(p) /\ memory' = memory
      /\ value' = [value EXCEPT !["endp3"] = @ - 1]
      /\ waiting' = [waiting EXCEPT !["endp3"] = @ \cup {p}]
  BY <1>a, <1>c, <1>k, <1>1, PPlace
<1>3. Moves(p) /\ Tails'
  BY <1>a, <1>2, MemberPasses
<1>4. \A k \in Sync \ {"endp3"} : value'[k] = value[k] /\ waiting'[k] = waiting[k]
  BY <1>a, <1>2, KeyFact
<1>5. Before4'
  BY <1>b, <1>4, Before4Kept
<1>6. Awaits("endp3", -1, p)'
  BY <1>a, <1>c, <1>k, <1>2 DEF Awaits
<1>7. WaitsP3'
  BY <1>b, <1>c, <1>3, <1>5, <1>6 DEF WaitsP3, At1, Moves, Debt
<1> QED
  BY <1>2, <1>3, <1>4, <1>7

LEMMA StepCFirst ==
  ASSUME Common, Tails, StageC1 \/ StageC2 \/ StageC3, Acts(first)
  PROVE  Common' /\ Tails' /\ Stage'
<1>1. /\ Common' /\ Tails' /\ WaitsP3' /\ Moves(first) /\ memory' = memory
      /\ \A k \in Sync \ {"endp3"} : value'[k] = value[k] /\ waiting'[k] = waiting[k]
  BY FirstWaitsP3 DEF StageC1, StageC2, StageC3
<1>2. \A q \in Crew : program'[q] = program[q] /\ pc'[q] = pc[q] /\ q # first /\ q \in alive
  BY <1>1 DEF Moves, Crew, Common, Types
<1>3. \A q : Solo(q) => Solo(q)'
  BY <1>1 DEF Moves, Solo
<1>4. Crew' = Crew /\ alive' = alive /\ ancestors' = ancestors
  BY <1>1 DEF Moves
<1>5. CASE StageC1
  <2>1. PICK a \in Process : RunsP3(a)
    BY <1>5 DEF StageC1
  <2>2. RunsP3(a)'
    BY <1>1, <1>2, <1>3, <1>4, <2>1, SyncKeys DEF RunsP3, Has, Debt
  <2> QED
    BY <1>1, <2>2 DEF Stage, StageC1
<1>6. CASE StageC2
  <2>1. PICK a \in Process, b \in Process : RunBothP3(a, b)
    BY <1>6 DEF StageC2
  <2>2. program'[a] = program[a] /\ pc'[a] = pc[a] /\ program'[b] = program[b] /\ pc'[b] = pc[b]
    BY <1>2, <2>1 DEF RunBothP3
  <2>3. Awaits("synp3", Debt(program[b] = "p3rest" /\ pc[b] >= 2) - Debt(pc[a] >= 7), a)'
    BY <1>1, <2>1, <2>2, SyncKeys DEF RunBothP3, Awaits, Debt
  <2>4. Awaits("blkp3", 0 - Debt(program[b] = "p3rest" /\ pc[b] = 3), b)'
    BY <1>1, <2>1, <2>2, SyncKeys DEF RunBothP3, Awaits, Debt
  <2>5. RunBothP3(a, b)'
    BY <1>1, <1>3, <1>4, <2>1, <2>2, <2>3, <2>4 DEF RunBothP3
  <2> QED
    BY <1>1, <1>6, <2>5 DEF Stage, StageC2
<1>7. CASE StageC3
  <2>1. PICK a \in Process : EndsP3(a)
    BY <1>7 DEF StageC3
  <2>2. EndsP3(a)'
    BY <1>2, <1>3, <1>4, <2>1 DEF EndsP3
  <2> QED
    BY <1>1, <2>2 DEF Stage, StageC3
<1> QED
  BY <1>5, <1>6, <1>7

LEMMA StepC4 ==
  ASSUME Common, Tails, StageC4, Acts(first)
  PROVE  Common' /\ Tails' /\ Stage'
<1> DEFINE p == first
<1>a. /\ Types /\ p \in alive /\ p \in Process /\ Stage /\ \A k \in Key : p \notin waiting[k]
      /\ waiting \in [Key -> SUBSET alive] /\ value \in [Key -> Int] /\ memory \in [Variable -> Nat]
  BY DEF Common, Types, Stage, Acts, Step, Ready
<1>b. /\ program[p] = "test" /\ pc[p] \in 11 .. 13 /\ Crew = {} /\ Before4
      /\ pc[p] <= 12 => Has("endp3", 1 - Debt(pc[p] >= 12))
  BY DEF StageC4, At1
<1>k. "endp3" \in Key /\ "endp3" \in Sync
  BY KeyFact, SyncKeys
<1>1. CASE pc[p] = 11
  <2>1. Text[program[p]][pc[p]] = <<"P", "endp3">>
    BY <1>b, <1>1 DEF Text, test
  <2>2. /\ Common' /\ Passes(p) /\ memory' = memory
        /\ value' = [value EXCEPT !["endp3"] = @ - 1] /\ waiting' = waiting
    BY <1>a, <1>b, <1>1, <1>k, <2>1, PPlace DEF Has, Debt
  <2>3. Moves(p) /\ Tails'
    BY <1>a, <2>2, MemberPasses
  <2>4. Before4'
    BY <1>a, <1>b, <2>2, KeyFact, Before4Kept
  <2>5. Has("endp3", 0)'
    BY <1>a, <1>b, <1>1, <1>k, <2>2 DEF Has, Debt
  <2>6. StageC4'
    BY <1>b, <1>1, <2>2, <2>3, <2>4, <2>5 DEF Moves, StageC4, At1, Debt, Has
  <2> QED
    BY <2>2, <2>3, <2>6 DEF Stage
<1>2. CASE pc[p] = 12
  <2>1. Text[program[p]][pc[p]] = <<"print">>
    BY <1>b, <1>2 DEF Text, test
  <2>2. Common' /\ Tails' /\ (Stage' \/ (Moves(p) /\ SameSync /\ memory' = memory))
    BY <1>a, <2>1, MemberPrints
  <2>3. Moves(p) /\ SameSync /\ memory' = memory => StageC4'
    BY <1>b, <1>2, BeforeSame DEF Moves, StageC4, At1
  <2> QED
    BY <2>2, <2>3 DEF Stage
<1>3. CASE pc[p] = 13
  <2>1. /\ Text[program[p]][pc[p]] = <<"create", "p4", "nowhere">> /\ "p4" \in DOMAIN Text
        /\ "nowhere" \notin Variable
    BY <1>b, <1>3, Nowhere DEF Text, test
  <2>2. PICK new : Joins(p, new, "p4", "nowhere")
    BY <1>a, <2>1, MemberCreates
  <2>3. Common' /\ Tails'
    BY <1>a, <2>1, MemberCreates
  <2>4. /\ new \in Process /\ Crew' = {new} /\ Solo(new)' /\ program'[new] = "p4" /\ pc'[new] = 1
        /\ program'[p] = "test" /\ pc'[p] = 14 /\ UNCHANGED <<value, waiting>> /\ handlers'[new] = {}
    BY <1>a, <1>b, <1>3, <2>2 DEF Joins, TailPlace
  <2>5. RunsP4(new)'
    BY <2>4 DEF RunsP4, P4Handlers
  <2>6. StageD1'
    BY <1>b, <2>4, <2>5 DEF StageD1, Has, Awaits, Debt, At1, Before4, Before7, Between7
  <2> QED
    BY <2>3, <2>6 DEF Stage
<1> QED
  BY <1>b, <1>1, <1>2, <1>3

LEMMA WaitsP3Kept ==
  ASSUME program'[first] = program[first], pc'[first] = pc[first], WaitsP3,
         \A k \in Sync \ {"synp3", "blkp3"} : value'[k] = value[k] /\ waiting'[k] = waiting[k]
  PROVE  WaitsP3'
<1>1. Before4'
  BY Before4Kept DEF WaitsP3
<1>2. Awaits("endp3", 0 - Debt(pc[first] >= 12), first)'
  BY SyncKeys DEF WaitsP3, Awaits, Debt
<1> QED
  BY <1>1, <1>2 DEF WaitsP3, At1

LEMMA StepC1Crew ==
  ASSUME Common, Tails, StageC1, NEW p \in Crew, Acts(p)
  PROVE  Common' /\ Tails' /\ Stage'
<1>a. /\ Types /\ p \in alive /\ p # first /\ p \in Process /\ first \in Process /\ Stage
      /\ \A k \in Key : p \notin waiting[k]
      /\ waiting \in [Key -> SUBSET alive] /\ value \in [Key -> Int] /\ memory \in [Variable -> Nat]
  BY DEF Common, Types, Stage, Acts, Step, Ready, Crew
<1>b. WaitsP3 /\ RunsP3(p)
  BY DEF StageC1, RunsP3
<1>d. Crew = {p} /\ Solo(p) /\ memory["p3pid"] = p
  BY <1>b DEF RunsP3
<1>e. Moves(p) => /\ program'[first] = program[first] /\ pc'[first] = pc[first] /\ Crew' = {p} /\ Solo(p)'
                  /\ program'[p] = program[p] /\ pc'[p] = pc[p] + 1
  BY <1>a, <1>d DEF Moves, Solo
<1>f. ~TailPlace(program[p], pc[p] + 1)
  BY <1>b DEF RunsP3, TailPlace
<1>k. /\ "synp3" \in Key /\ "blkp3" \in Key /\ "synp3" \in Sync /\ "blkp3" \in Sync
      /\ "p3inc" \in Variable /\ "p3pid" \in Variable /\ "p32id" \in Variable
  BY KeyFact, SyncKeys, VariableFact
<1>g. handlers[p] = {}
  BY <1>a, <1>b DEF RunsP3, Common, Specified, P4Programs
<1>h. ASSUME Text[program[p]][pc[p]] = <<"print">>,
             \/ program[p] = "p3first" /\ pc[p] = 1
             \/ program[p] = "p3rest" /\ pc[p] = 4
      PROVE  Common' /\ Tails' /\ Stage'
  <2>1. Common' /\ Tails' /\ (Stage' \/ (Moves(p) /\ SameSync /\ memory' = memory))
    BY <1>a, <1>f, <1>h, MemberPrints
  <2>2. ASSUME Moves(p), SameSync, memory' = memory
        PROVE  StageC1'
    <3>1. RunsP3(p)'
      BY <1>b, <1>d, <1>e, <1>h, <1>k, <2>2 DEF RunsP3, SameSync, Has, Debt
    <3>2. WaitsP3'
      BY <1>b, <1>e, <2>2, WaitsP3Kept DEF SameSync
    <3> QED
      BY <1>a, <3>1, <3>2 DEF StageC1
  <2> QED
    BY <2>1, <2>2 DEF Stage
<1>1. CASE program[p] = "p3" /\ pc[p] = 1
  <2>1. /\ Text[program[p]][pc[p]] = <<"switch", "p3inc", "p3first", "p3second">>
        /\ "p3first" \in DOMAIN Text /\ "p3second" \in DOMAIN Text
    BY <1>1 DEF Text, p3
  <2>2. memory["p3inc"] = 1
    BY <1>b, <1>1 DEF RunsP3, Debt
  <2>3. Common' /\ Turns(p, "p3first")
    BY <1>a, <1>g, <2>1, <2>2, SwitchPlace
  <2>4. /\ Tails' /\ Crew' = Crew /\ alive' = alive /\ SameSync
        /\ UNCHANGED <<ancestors, handlers, memory>>
        /\ program'[p] = "p3first" /\ pc'[p] = 1
        /\ \A q \in Process \ {p} : program'[q] = program[q] /\ pc'[q] = pc[q]
    BY <1>a, <2>3, MemberTurns DEF TailPlace
  <2>5. Solo(p)'
    BY <1>d, <2>4 DEF Solo
  <2>6. RunsP3(p)'
    BY <1>b, <1>d, <1>k, <1>1, <2>4, <2>5 DEF RunsP3, SameSync, Has, Debt
  <2>7. WaitsP3'
    BY <1>a, <1>b, <2>4, WaitsP3Kept DEF SameSync
  <2> QED
    BY <1>a, <2>3, <2>4, <2>6, <2>7 DEF Stage, StageC1
<1>2. CASE program[p] = "p3first" /\ pc[p] = 1
  <2>1. Text[program[p]][pc[p]] = <<"print">>
    BY <1>2 DEF Text, p3first
  <2>2. \/ program[p] = "p3first" /\ pc[p] = 1
        \/ program[p] = "p3rest" /\ pc[p] = 4
    BY <1>2
  <2> QED
    BY <1>h, <2>1, <2>2
<1>3. CASE program[p] = "p3first" /\ pc[p] = 2
  <2>1. Text[program[p]][pc[p]] = <<"assert", "getpid">>
    BY <1>3 DEF Text, p3first
  <2>2. Holds("getpid", p)
    BY <1>d DEF Holds
  <2>3. Common' /\ Passes(p) /\ UNCHANGED <<value, waiting, memory>>
    BY <1>a, <2>1, <2>2, AssertPlace
  <2>4. Moves(p) /\ Tails'
    BY <1>a, <1>f, <2>3, MemberPasses
  <2>5. RunsP3(p)'
    BY <1>b, <1>d, <1>e, <1>3, <2>3, <2>4 DEF RunsP3, Has, Debt
  <2>6. WaitsP3'
    BY <1>b, <1>e, <2>3, <2>4, WaitsP3Kept
  <2> QED
    BY <1>a, <2>3, <2>4, <2>5, <2>6 DEF Stage, StageC1
<1>4. CASE program[p] = "p3first" /\ pc[p] = 3
  <2>1. Text[program[p]][pc[p]] = <<"set", "p3inc">>
    BY <1>4 DEF Text, p3first
  <2>2. /\ Common' /\ Passes(p) /\ UNCHANGED <<value, waiting>>
        /\ memory' = [memory EXCEPT !["p3inc"] = @ + 1]
    BY <1>a, <1>k, <2>1, SetPlace
  <2>3. Moves(p) /\ Tails'
    BY <1>a, <1>f, <2>2, MemberPasses
  <2>4. memory'["p3inc"] = 2 /\ memory'["p3pid"] = p
    BY <1>a, <1>b, <1>d, <1>k, <1>4, <2>2 DEF RunsP3, Debt
  <2>5. RunsP3(p)'
    BY <1>b, <1>d, <1>e, <1>4, <2>2, <2>3, <2>4 DEF RunsP3, Has, Debt
  <2>6. WaitsP3'
    BY <1>b, <1>e, <2>2, <2>3, WaitsP3Kept
  <2> QED
    BY <1>a, <2>2, <2>3, <2>5, <2>6 DEF Stage, StageC1
<1>5. CASE program[p] = "p3first" /\ pc[p] = 4
  <2>1. Text[program[p]][pc[p]] = <<"jump", "p3rest">> /\ "p3rest" \in DOMAIN Text
    BY <1>5 DEF Text, p3first
  <2>2. Common' /\ Turns(p, "p3rest")
    BY <1>a, <1>g, <2>1, JumpPlace
  <2>3. /\ Tails' /\ Crew' = Crew /\ alive' = alive /\ SameSync
        /\ UNCHANGED <<ancestors, handlers, memory>>
        /\ program'[p] = "p3rest" /\ pc'[p] = 1
        /\ \A q \in Process \ {p} : program'[q] = program[q] /\ pc'[q] = pc[q]
    BY <1>a, <2>2, MemberTurns DEF TailPlace
  <2>4. Solo(p)'
    BY <1>d, <2>3 DEF Solo
  <2>5. RunsP3(p)'
    BY <1>b, <1>d, <1>k, <1>5, <2>3, <2>4 DEF RunsP3, SameSync, Has, Debt
  <2>6. WaitsP3'
    BY <1>a, <1>b, <2>3, WaitsP3Kept DEF SameSync
  <2> QED
    BY <1>a, <2>2, <2>3, <2>5, <2>6 DEF Stage, StageC1
<1>6. CASE program[p] = "p3rest" /\ pc[p] = 1
  <2>1. Text[program[p]][pc[p]] = <<"V", "synp3">>
    BY <1>6 DEF Text, p3rest
  <2>0. Has("synp3", 0) /\ Has("blkp3", 1)
    BY <1>b, <1>6 DEF RunsP3, Debt
  <2>2. /\ Common' /\ Passes(p) /\ memory' = memory
        /\ value' = [value EXCEPT !["synp3"] = @ + 1] /\ waiting' = waiting
    BY <1>a, <1>k, <2>0, <2>1, VPlace DEF Has
  <2>3. Moves(p) /\ Tails'
    BY <1>a, <1>f, <2>2, MemberPasses
  <2>4. Has("synp3", 1)' /\ Has("blkp3", 1)'
    BY <1>a, <1>k, <2>0, <2>2 DEF Has
  <2>5. RunsP3(p)'
    BY <1>b, <1>d, <1>e, <1>6, <2>2, <2>3, <2>4 DEF RunsP3, Debt
  <2>6. WaitsP3'
    BY <1>a, <1>b, <1>e, <2>2, <2>3, KeyFact, WaitsP3Kept
  <2> QED
    BY <1>a, <2>2, <2>3, <2>5, <2>6 DEF Stage, StageC1
<1>7. CASE program[p] = "p3rest" /\ pc[p] = 2
  <2>1. Text[program[p]][pc[p]] = <<"P", "blkp3">>
    BY <1>7 DEF Text, p3rest
  <2>0. Has("synp3", 1) /\ Has("blkp3", 1)
    BY <1>b, <1>7 DEF RunsP3, Debt
  <2>2. /\ Common' /\ Passes(p) /\ memory' = memory
        /\ value' = [value EXCEPT !["blkp3"] = @ - 1] /\ waiting' = waiting
    BY <1>a, <1>k, <2>0, <2>1, PPlace DEF Has
  <2>3. Moves(p) /\ Tails'
    BY <1>a, <1>f, <2>2, MemberPasses
  <2>4. Has("synp3", 1)' /\ Has("blkp3", 0)'
    BY <1>a, <1>k, <2>0, <2>2 DEF Has
  <2>5. RunsP3(p)'
    BY <1>b, <1>d, <1>e, <1>7, <2>2, <2>3, <2>4 DEF RunsP3, Debt
  <2>6. WaitsP3'
    BY <1>a, <1>b, <1>e, <2>2, <2>3, KeyFact, WaitsP3Kept
  <2> QED
    BY <1>a, <2>2, <2>3, <2>5, <2>6 DEF Stage, StageC1
<1>8. CASE program[p] = "p3rest" /\ pc[p] = 3
  <2>1. Text[program[p]][pc[p]] = <<"P", "synp3">>
    BY <1>8 DEF Text, p3rest
  <2>0. Has("synp3", 1) /\ Has("blkp3", 0)
    BY <1>b, <1>8 DEF RunsP3, Debt
  <2>2. /\ Common' /\ Passes(p) /\ memory' = memory
        /\ value' = [value EXCEPT !["synp3"] = @ - 1] /\ waiting' = waiting
    BY <1>a, <1>k, <2>0, <2>1, PPlace DEF Has
  <2>3. Moves(p) /\ Tails'
    BY <1>a, <1>f, <2>2, MemberPasses
  <2>4. Has("synp3", 0)' /\ Has("blkp3", 0)'
    BY <1>a, <1>k, <2>0, <2>2 DEF Has
  <2>5. RunsP3(p)'
    BY <1>b, <1>d, <1>e, <1>8, <2>2, <2>3, <2>4 DEF RunsP3, Debt
  <2>6. WaitsP3'
    BY <1>a, <1>b, <1>e, <2>2, <2>3, KeyFact, WaitsP3Kept
  <2> QED
    BY <1>a, <2>2, <2>3, <2>5, <2>6 DEF Stage, StageC1
<1>9. CASE program[p] = "p3rest" /\ pc[p] = 4
  <2>1. Text[program[p]][pc[p]] = <<"print">>
    BY <1>9 DEF Text, p3rest
  <2>2. \/ program[p] = "p3first" /\ pc[p] = 1
        \/ program[p] = "p3rest" /\ pc[p] = 4
    BY <1>9
  <2> QED
    BY <1>h, <2>1, <2>2
<1>10. CASE program[p] = "p3rest" /\ pc[p] = 5
  <2>1. Text[program[p]][pc[p]] = <<"create", "p3", "p32id">> /\ "p3" \in DOMAIN Text
    BY <1>10 DEF Text, p3rest
  <2>2. PICK new : Joins(p, new, "p3", "p32id")
    BY <1>a, <1>f, <2>1, MemberCreates
  <2>3. Common' /\ Tails'
    BY <1>a, <1>f, <2>1, MemberCreates
  <2>4. /\ new \in Process /\ new # p /\ Crew' = {p, new} /\ Solo(new)' /\ program'[new] = "p3" /\ pc'[new] = 1
        /\ program'[p] = "p3rest" /\ pc'[p] = 6 /\ UNCHANGED <<value, waiting>>
        /\ program'[first] = program[first] /\ pc'[first] = pc[first]
        /\ ancestors'[new] = ancestors'[p] \cup {new}
    BY <1>a, <1>d, <1>10, <2>2 DEF Joins, TailPlace, Common
  <2>5. memory'["p3pid"] = p /\ memory'["p3inc"] = 2 /\ memory'["p32id"] = new
    BY <1>a, <1>b, <1>k, <1>10, <2>2 DEF Joins, RunsP3, Debt
  <2>6. \A r \in alive' : p \in ancestors'[r] => r \in {p, new}
    BY <1>d, <2>2 DEF Joins, Solo
  <2>7. RunBothP3(p, new)'
    BY <1>b, <1>10, <2>4, <2>5, <2>6 DEF RunBothP3, RunsP3, Has, Awaits, Debt
  <2>8. WaitsP3'
    BY <1>b, <2>4, WaitsP3Kept
  <2> QED
    BY <1>a, <2>3, <2>4, <2>5, <2>7, <2>8 DEF Stage, StageC2
<1> QED
  BY <1>b, <1>1, <1>2, <1>3, <1>4, <1>5, <1>6, <1>7, <1>8, <1>9, <1>10 DEF RunsP3

LEMMA StepC2Crew ==
  ASSUME Common, Tails, StageC2, NEW p \in Crew, Acts(p)
  PROVE  Common' /\ Tails' /\ Stage'
<1>a. /\ Types /\ Tree /\ p \in alive /\ p # first /\ p \in Process /\ first \in Process /\ Stage
      /\ \A k \in Key : p \notin waiting[k]
      /\ waiting \in [Key -> SUBSET alive] /\ value \in [Key -> Int] /\ memory \in [Variable -> Nat]
  BY DEF Common, Types, Stage, Acts, Step, Ready, Crew
<1>b. WaitsP3 /\ memory["p3inc"] = 2
  BY DEF StageC2
<1>c. PICK a \in Process, b \in Process : RunBothP3(a, b)
  BY DEF StageC2
<1>d. /\ Crew = {a, b} /\ a # b /\ Solo(b)
      /\ memory["p3pid"] = a /\ memory["p32id"] = b
      /\ \A r \in alive : a \in ancestors[r] => r \in {a, b}
      /\ ancestors[b] = ancestors[a] \cup {b}
      /\ program[a] = "p3rest" /\ pc[a] \in 6 .. 8
      /\ Awaits("synp3", Debt(program[b] = "p3rest" /\ pc[b] >= 2) - Debt(pc[a] >= 7), a)
      /\ Awaits("blkp3", 0 - Debt(program[b] = "p3rest" /\ pc[b] = 3), b)
  BY <1>c DEF RunBothP3
<1>e. a \in alive /\ b \in alive /\ a # first /\ b # first
  BY <1>d DEF Crew
<1>k. /\ "synp3" \in Key /\ "blkp3" \in Key /\ "synp3" \in Sync /\ "blkp3" \in Sync
  BY KeyFact, SyncKeys
<1>f. p # a \/ pc[a] # 8 => ~TailPlace(program[p], pc[p] + 1)
  BY <1>c, <1>d DEF RunBothP3, TailPlace
<1>g. handlers[p] = {}
  BY <1>a, <1>c, <1>d DEF RunBothP3, Common, Specified, P4Programs
(* Stage C2 after a step that creates and kills nobody.                     *)
<1>h. ASSUME alive' = alive, ancestors' = ancestors, Crew' = Crew, memory' = memory,
             \A q \in Process \ {p} : program'[q] = program[q] /\ pc'[q] = pc[q],
             \A k \in Sync \ {"synp3", "blkp3"} : value'[k] = value[k] /\ waiting'[k] = waiting[k],
             program'[a] = "p3rest", pc'[a] \in 6 .. 8,
             \/ program'[b] = "p3" /\ pc'[b] = 1
             \/ program'[b] = "p3second" /\ pc'[b] \in 1 .. 3
             \/ program'[b] = "p3rest" /\ pc'[b] \in 1 .. 3,
             Awaits("synp3", Debt(program[b] = "p3rest" /\ pc[b] >= 2) - Debt(pc[a] >= 7), a)',
             pc'[a] = 8 => program'[b] = "p3rest" /\ pc'[b] >= 2,
             Awaits("blkp3", 0 - Debt(program[b] = "p3rest" /\ pc[b] = 3), b)'
      PROVE  StageC2'
  <2>1. Solo(b)'
    BY <1>d, <1>h DEF Solo
  <2>2. RunBothP3(a, b)'
    BY <1>d, <1>h, <2>1 DEF RunBothP3
  <2>3. WaitsP3'
    BY <1>a, <1>b, <1>h, WaitsP3Kept
  <2> QED
    BY <1>b, <1>h, <2>2, <2>3 DEF StageC2
<1>1. CASE p = a
  <2>a. Moves(p) => /\ program'[a] = "p3rest" /\ pc'[a] = pc[a] + 1 /\ alive' = alive
                    /\ ancestors' = ancestors /\ Crew' = Crew
                    /\ program'[b] = program[b] /\ pc'[b] = pc[b]
                    /\ \A q \in Process \ {p} : program'[q] = program[q] /\ pc'[q] = pc[q]
    BY <1>d, <1>1 DEF Moves
  <2>b. \/ program[b] = "p3" /\ pc[b] = 1
        \/ program[b] = "p3second" /\ pc[b] \in 1 .. 3
        \/ program[b] = "p3rest" /\ pc[b] \in 1 .. 3
    BY <1>c DEF RunBothP3
  <2>1. CASE pc[a] = 6
    <3>1. Text[program[p]][pc[p]] = <<"P", "synp3">>
      BY <1>d, <1>1, <2>1 DEF Text, p3rest
    <3>2. /\ Common' /\ Passes(p) /\ memory' = memory
          /\ value' = [value EXCEPT !["synp3"] = @ - 1]
          /\ waiting' = IF value["synp3"] > 0 THEN waiting ELSE [waiting EXCEPT !["synp3"] = @ \cup {p}]
      BY <1>a, <1>k, <3>1, PPlace
    <3>3. Moves(p) /\ Tails'
      BY <1>a, <1>f, <1>1, <2>1, <3>2, MemberPasses
    <3>4. \A k \in Sync \ {"synp3"} : value'[k] = value[k] /\ waiting'[k] = waiting[k]
      BY <1>a, <3>2, KeyFact
    <3>5. Awaits("synp3", Debt(program[b] = "p3rest" /\ pc[b] >= 2) - Debt(pc[a] >= 7), a)'
      <4>1. value["synp3"] = Debt(program[b] = "p3rest" /\ pc[b] >= 2) /\ waiting["synp3"] = {}
        BY <1>d, <2>1 DEF Awaits, Debt
      <4>2. CASE program[b] = "p3rest" /\ pc[b] >= 2
        <5>1. value'["synp3"] = 0 /\ waiting'["synp3"] = {}
          BY <1>a, <1>k, <3>2, <4>1, <4>2 DEF Debt
        <5> QED
          BY <2>a, <2>1, <3>3, <4>2, <5>1 DEF Awaits, Debt
      <4>3. CASE ~ (program[b] = "p3rest" /\ pc[b] >= 2)
        <5>1. value'["synp3"] = -1 /\ waiting'["synp3"] = {a}
          BY <1>a, <1>k, <1>1, <3>2, <4>1, <4>3 DEF Debt
        <5> QED
          BY <2>a, <2>1, <3>3, <4>3, <5>1 DEF Awaits, Debt
      <4> QED
        BY <4>2, <4>3
    <3>6. Awaits("blkp3", 0 - Debt(program[b] = "p3rest" /\ pc[b] = 3), b)'
      BY <1>d, <1>k, <2>a, <3>3, <3>4 DEF Awaits, Debt
    <3>7. StageC2'
      BY <1>h, <2>a, <2>b, <2>1, <3>2, <3>3, <3>4, <3>5, <3>6
    <3> QED
      BY <3>2, <3>3, <3>7 DEF Stage
  <2>2. CASE pc[a] = 7
    <3>1. Text[program[p]][pc[p]] = <<"print">>
      BY <1>d, <1>1, <2>2 DEF Text, p3rest
    <3>2. Common' /\ Tails' /\ (Stage' \/ (Moves(p) /\ SameSync /\ memory' = memory))
      BY <1>a, <1>f, <1>1, <2>2, <3>1, MemberPrints
    <3>3. program[b] = "p3rest" /\ pc[b] >= 2
      <4> SUFFICES ASSUME ~ (program[b] = "p3rest" /\ pc[b] >= 2) PROVE FALSE
        OBVIOUS
      <4>1. waiting["synp3"] = {a}
        BY <1>d, <2>2 DEF Awaits, Debt
      <4> QED
        BY <1>a, <1>k, <1>1, <4>1
    <3>4. ASSUME Moves(p), SameSync, memory' = memory
          PROVE  StageC2'
      <4>1. /\ Awaits("synp3", Debt(program[b] = "p3rest" /\ pc[b] >= 2) - Debt(pc[a] >= 7), a)'
            /\ Awaits("blkp3", 0 - Debt(program[b] = "p3rest" /\ pc[b] = 3), b)'
        BY <1>d, <1>k, <2>a, <2>2, <3>4 DEF Awaits, Debt, SameSync
      <4> QED
        BY <1>h, <2>a, <2>b, <2>2, <3>3, <3>4, <4>1 DEF SameSync
    <3> QED
      BY <3>2, <3>4 DEF Stage
  <2>3. CASE pc[a] = 8
    <3>1. Text[program[p]][pc[p]] = <<"killed", "p32id">>
      BY <1>d, <1>1, <2>3 DEF Text, p3rest
    <3>2. Offspring(b) = {b}
      BY <1>a, <1>d, <1>e DEF Offspring, Solo, Tree
    <3>3. b \notin Printing
      <4>1. program[b] = "p3rest" /\ pc[b] \in 2 .. 3
        BY <1>c, <2>3 DEF RunBothP3
      <4>2. ~Calls(b)
        BY <4>1 DEF Calls, Text, p3rest
      <4> QED
        BY <1>e, <4>2, QuietFact
    <3>4. ~TailPlace(program[p], pc[p] + 1)
      BY <1>d, <1>1, <2>3 DEF TailPlace
    <3>5. /\ Common' /\ Tails' /\ Kills(p, {b}) /\ Crew' = Crew \ {b}
          /\ \A q \in alive' : Solo(q) => Solo(q)'
      <4>1. "killed" \in {"kill", "killed"} /\ memory["p32id"] = b /\ b \in alive /\ b # first
        BY <1>d, <1>e
      <4>2. Offspring(b) \cap Printing = {}
        BY <3>2, <3>3
      <4>3. /\ Common' /\ Tails' /\ Kills(p, Offspring(b)) /\ Crew' = Crew \ Offspring(b)
            /\ \A q \in alive' : Solo(q) => Solo(q)'
        BY <1>a, <3>1, <3>4, <4>1, <4>2, MemberKills
      <4> QED
        BY <3>2, <4>3
    <3>6. EndsP3(a)'
      <4>1. Crew' = {a} /\ a \in alive'
        BY <1>d, <1>e, <3>5 DEF Kills
      <4>2. Solo(a)'
        BY <1>d, <3>5 DEF Solo, Kills
      <4>3. program'[a] = "p3rest" /\ pc'[a] = 9
        BY <1>d, <1>1, <2>3, <3>5, <4>1 DEF Kills
      <4> QED
        BY <4>1, <4>2, <4>3 DEF EndsP3
    <3>7. WaitsP3'
      <4>1. first \in alive'
        BY <3>5 DEF Common
      <4>2. program'[first] = program[first] /\ pc'[first] = pc[first]
        BY <1>a, <3>5, <4>1 DEF Kills
      <4>3. \A k \in {"endp3", "endp4", "blkp7", "endp7", "endcreate", "blkp7child", "blkleaves"} :
              value'[k] = value[k] /\ waiting'[k] = waiting[k]
        <5> SUFFICES ASSUME NEW k \in {"endp3", "endp4", "blkp7", "endp7", "endcreate", "blkp7child", "blkleaves"}
                     PROVE  value'[k] = value[k] /\ waiting'[k] = waiting[k]
          OBVIOUS
        <5>1. k \in Sync
          BY SyncKeys
        <5>2. waiting[k] \cap {b} = {}
          BY <1>b, <1>e DEF WaitsP3, Before4, Before7, Between7, Has, Awaits
        <5> QED
          BY <1>a, <3>5, <5>1, <5>2, KillsKeep
      <4> QED
        BY <1>b, <4>2, <4>3
           DEF WaitsP3, At1, Before4, Before7, Between7, Has, Awaits, Debt
    <3> QED
      BY <1>c, <3>5, <3>6, <3>7 DEF Stage, StageC3
  <2> QED
    BY <1>d, <2>1, <2>2, <2>3
<1>2. CASE p = b
  <2>a. Moves(p) => /\ program'[b] = program[b] /\ pc'[b] = pc[b] + 1 /\ alive' = alive
                    /\ ancestors' = ancestors /\ Crew' = Crew
                    /\ program'[a] = "p3rest" /\ pc'[a] = pc[a]
                    /\ \A q \in Process \ {p} : program'[q] = program[q] /\ pc'[q] = pc[q]
    BY <1>d, <1>2 DEF Moves
  <2>b. pc[a] = 8 => program[b] = "p3rest" /\ pc[b] >= 2
    BY <1>c DEF RunBothP3
  <2>c. ~TailPlace(program[p], pc[p] + 1)
    BY <1>d, <1>2, <1>f
(* Turning to another program before p3rest.                                *)
  <2>d. ASSUME NEW prog \in {"p3second", "p3rest"}, Common', Turns(p, prog), program[b] # "p3rest"
        PROVE  Common' /\ Tails' /\ Stage'
    <3>1. /\ Tails' /\ Crew' = Crew /\ alive' = alive /\ SameSync
          /\ UNCHANGED <<ancestors, handlers, memory>>
          /\ program'[p] = prog /\ pc'[p] = 1
          /\ \A q \in Process \ {p} : program'[q] = program[q] /\ pc'[q] = pc[q]
      BY <1>a, <2>d, MemberTurns DEF TailPlace
    <3>2. /\ program'[b] = prog /\ pc'[b] = 1 /\ program'[a] = "p3rest" /\ pc'[a] = pc[a]
      BY <1>d, <1>2, <3>1
    <3>3. Debt(program[b] = "p3rest" /\ pc[b] >= 2) = 0 /\ Debt(program[b] = "p3rest" /\ pc[b] = 3) = 0
      BY <2>d DEF Debt
    <3>4. /\ Awaits("synp3", Debt(program[b] = "p3rest" /\ pc[b] >= 2) - Debt(pc[a] >= 7), a)'
          /\ Awaits("blkp3", 0 - Debt(program[b] = "p3rest" /\ pc[b] = 3), b)'
      BY <1>d, <1>k, <3>1, <3>2, <3>3 DEF Awaits, Debt, SameSync
    <3>5. StageC2'
      BY <1>d, <1>h, <2>b, <2>d, <3>1, <3>2, <3>4 DEF SameSync
    <3> QED
      BY <2>d, <3>1, <3>5 DEF Stage
  <2>1. CASE program[b] = "p3" /\ pc[b] = 1
    <3>1. /\ Text[program[p]][pc[p]] = <<"switch", "p3inc", "p3first", "p3second">>
          /\ "p3first" \in DOMAIN Text /\ "p3second" \in DOMAIN Text
      BY <1>2, <2>1 DEF Text, p3
    <3>2. Common' /\ Turns(p, "p3second")
      BY <1>a, <1>b, <1>g, <3>1, SwitchPlace
    <3> QED
      BY <2>d, <2>1, <3>2
  <2>2. CASE program[b] = "p3second" /\ pc[b] = 1
    <3>1. Text[program[p]][pc[p]] = <<"print">>
      BY <1>2, <2>2 DEF Text, p3second
    <3>2. Common' /\ Tails' /\ (Stage' \/ (Moves(p) /\ SameSync /\ memory' = memory))
      BY <1>a, <2>c, <3>1, MemberPrints
    <3>3. ASSUME Moves(p), SameSync, memory' = memory
          PROVE  StageC2'
      <4>1. /\ Awaits("synp3", Debt(program[b] = "p3rest" /\ pc[b] >= 2) - Debt(pc[a] >= 7), a)'
            /\ Awaits("blkp3", 0 - Debt(program[b] = "p3rest" /\ pc[b] = 3), b)'
        BY <1>d, <1>k, <2>a, <2>2, <3>3 DEF Awaits, Debt, SameSync
      <4> QED
        BY <1>d, <1>h, <2>a, <2>b, <2>2, <3>3, <4>1 DEF SameSync
    <3> QED
      BY <3>2, <3>3 DEF Stage
  <2>3. CASE program[b] = "p3second" /\ pc[b] = 2
    <3>1. Text[program[p]][pc[p]] = <<"assert", "getppid">>
      BY <1>2, <2>3 DEF Text, p3second
    <3>2. Holds("getppid", p)
      <4>1. b \notin ancestors[a]
        BY <1>d, <1>e DEF Solo
      <4>2. ancestors[p] \ {p} = ancestors[a] /\ a \in ancestors[a]
        BY <1>a, <1>d, <1>e, <1>2, <4>1 DEF Tree
      <4> QED
        BY <1>d, <4>2 DEF Holds
    <3>3. Common' /\ Passes(p) /\ UNCHANGED <<value, waiting, memory>>
      BY <1>a, <3>1, <3>2, AssertPlace
    <3>4. Moves(p) /\ Tails'
      BY <1>a, <2>c, <3>3, MemberPasses
    <3>5. /\ Awaits("synp3", Debt(program[b] = "p3rest" /\ pc[b] >= 2) - Debt(pc[a] >= 7), a)'
          /\ Awaits("blkp3", 0 - Debt(program[b] = "p3rest" /\ pc[b] = 3), b)'
      BY <1>d, <2>a, <2>3, <3>3, <3>4 DEF Awaits, Debt
    <3>6. StageC2'
      BY <1>d, <1>h, <2>a, <2>b, <2>3, <3>3, <3>4, <3>5
    <3> QED
      BY <3>3, <3>4, <3>6 DEF Stage
  <2>4. CASE program[b] = "p3second" /\ pc[b] = 3
    <3>1. Text[program[p]][pc[p]] = <<"jump", "p3rest">> /\ "p3rest" \in DOMAIN Text
      BY <1>2, <2>4 DEF Text, p3second
    <3>2. Common' /\ Turns(p, "p3rest")
      BY <1>a, <1>g, <3>1, JumpPlace
    <3> QED
      BY <2>d, <2>4, <3>2
  <2>5. CASE program[b] = "p3rest" /\ pc[b] = 1
    <3>1. Text[program[p]][pc[p]] = <<"V", "synp3">>
      BY <1>2, <2>5 DEF Text, p3rest
    <3>2. /\ Common' /\ Passes(p) /\ memory' = memory
          /\ value' = [value EXCEPT !["synp3"] = @ + 1]
          /\ \/ waiting["synp3"] = {} /\ waiting' = waiting
             \/ \E q \in waiting["synp3"] : waiting' = [waiting EXCEPT !["synp3"] = @ \ {q}]
      BY <1>a, <1>k, <3>1, VPlace
    <3>3. Moves(p) /\ Tails'
      BY <1>a, <2>c, <3>2, MemberPasses
    <3>4. \A k \in Sync \ {"synp3"} : value'[k] = value[k] /\ waiting'[k] = waiting[k]
      BY <1>a, <3>2, KeyFact
    <3>5. Awaits("synp3", Debt(program[b] = "p3rest" /\ pc[b] >= 2) - Debt(pc[a] >= 7), a)'
      <4>1. Awaits("synp3", 0 - Debt(pc[a] >= 7), a)
        BY <1>d, <2>5 DEF Debt
      <4>2. value'["synp3"] = 1 - Debt(pc[a] >= 7) /\ waiting'["synp3"] = {}
        BY <1>a, <1>k, <3>2, <4>1 DEF Awaits, Debt
      <4>3. (Debt(program[b] = "p3rest" /\ pc[b] >= 2) - Debt(pc[a] >= 7))' = 1 - Debt(pc[a] >= 7)
        BY <2>a, <2>5, <3>3 DEF Debt
      <4> QED
        BY <4>2, <4>3 DEF Awaits, Debt
    <3>6. Awaits("blkp3", 0 - Debt(program[b] = "p3rest" /\ pc[b] = 3), b)'
      <4>1. value'["blkp3"] = value["blkp3"] /\ waiting'["blkp3"] = waiting["blkp3"]
        BY <1>k, <3>4
      <4>2. program'[b] = "p3rest" /\ pc'[b] = 2
        BY <2>a, <2>5, <3>3
      <4>3. Awaits("blkp3", 0, b)
        BY <1>d, <2>5 DEF Debt
      <4> QED
        BY <4>1, <4>2, <4>3 DEF Awaits, Debt
    <3>7. StageC2'
      BY <1>d, <1>h, <2>a, <2>b, <2>5, <3>2, <3>3, <3>4, <3>5, <3>6
    <3> QED
      BY <3>2, <3>3, <3>7 DEF Stage
  <2>6. CASE program[b] = "p3rest" /\ pc[b] = 2
    <3>1. Text[program[p]][pc[p]] = <<"P", "blkp3">>
      BY <1>2, <2>6 DEF Text, p3rest
    <3>0. value["blkp3"] = 0 /\ waiting["blkp3"] = {}
      BY <1>d, <2>6 DEF Awaits, Debt
    <3>2. /\ Common' /\ Passes(p) /\ memory' = memory
          /\ value' = [value EXCEPT !["blkp3"] = @ - 1]
          /\ waiting' = [waiting EXCEPT !["blkp3"] = @ \cup {p}]
      <4>1. /\ Common' /\ Passes(p) /\ memory' = memory
            /\ value' = [value EXCEPT !["blkp3"] = @ - 1]
            /\ waiting' = IF value["blkp3"] > 0 THEN waiting ELSE [waiting EXCEPT !["blkp3"] = @ \cup {p}]
        BY <1>a, <1>k, <3>1, PPlace
      <4> QED
        BY <3>0, <4>1
    <3>3. Moves(p) /\ Tails'
      BY <1>a, <2>c, <3>2, MemberPasses
    <3>4. \A k \in Sync \ {"blkp3"} : value'[k] = value[k] /\ waiting'[k] = waiting[k]
      BY <1>a, <3>2, KeyFact
    <3>5. Awaits("synp3", Debt(program[b] = "p3rest" /\ pc[b] >= 2) - Debt(pc[a] >= 7), a)'
      <4>1. value'["synp3"] = value["synp3"] /\ waiting'["synp3"] = waiting["synp3"]
        BY <1>k, <3>4
      <4>2. program'[b] = "p3rest" /\ pc'[b] = 3 /\ pc'[a] = pc[a]
        BY <2>a, <2>6, <3>3
      <4>3. Awaits("synp3", 1 - Debt(pc[a] >= 7), a)
        BY <1>d, <2>6 DEF Debt
      <4> QED
        BY <4>1, <4>2, <4>3 DEF Awaits, Debt
    <3>6. Awaits("blkp3", 0 - Debt(program[b] = "p3rest" /\ pc[b] = 3), b)'
      <4>1. value'["blkp3"] = -1 /\ waiting'["blkp3"] = {b}
        BY <1>a, <1>k, <1>2, <3>0, <3>2
      <4> QED
        BY <2>a, <2>6, <3>3, <4>1 DEF Awaits, Debt
    <3>7. StageC2'
      BY <1>d, <1>h, <2>a, <2>b, <2>6, <3>2, <3>3, <3>4, <3>5, <3>6
    <3> QED
      BY <3>2, <3>3, <3>7 DEF Stage
  <2>7. ~ (program[b] = "p3rest" /\ pc[b] = 3)
    BY <1>a, <1>d, <1>k, <1>2 DEF Awaits, Debt
  <2> QED
    BY <1>c, <2>1, <2>2, <2>3, <2>4, <2>5, <2>6, <2>7 DEF RunBothP3
<1> QED
  BY <1>d, <1>1, <1>2

LEMMA StepC3Crew ==
  ASSUME Common, Tails, StageC3, NEW p \in Crew, Acts(p)
  PROVE  Common' /\ Tails' /\ Stage'
<1>a. /\ Types /\ p \in alive /\ p # first /\ p \in Process /\ first \in Process /\ Stage
      /\ waiting \in [Key -> SUBSET alive] /\ value \in [Key -> Int]
  BY DEF Common, Types, Stage, Crew
<1>b. WaitsP3 /\ Crew = {p} /\ Solo(p) /\ program[p] = "p3rest" /\ pc[p] \in 9 .. 10
  BY DEF StageC3, EndsP3
<1>k. "endp3" \in Key /\ "endp3" \in Sync
  BY KeyFact, SyncKeys
<1>1. CASE pc[p] = 9
  <2>1. Text[program[p]][pc[p]] = <<"print">> /\ ~TailPlace(program[p], pc[p] + 1)
    BY <1>b, <1>1 DEF Text, p3rest, TailPlace
  <2>2. Common' /\ Tails' /\ (Stage' \/ (Moves(p) /\ SameSync /\ memory' = memory))
    BY <1>a, <2>1, MemberPrints
  <2>3. ASSUME Moves(p), SameSync
        PROVE  StageC3'
    <3>1. EndsP3(p)'
      BY <1>b, <1>1, <2>3 DEF EndsP3, Moves, Solo
    <3>2. WaitsP3'
      BY <1>a, <1>b, <2>3, WaitsP3Kept DEF Moves, SameSync
    <3> QED
      BY <1>a, <3>1, <3>2 DEF StageC3
  <2> QED
    BY <2>2, <2>3 DEF Stage
<1>2. CASE pc[p] = 10
  <2>1. Text[program[p]][pc[p]] = <<"V", "endp3">>
    BY <1>b, <1>2 DEF Text, p3rest
  <2>2. /\ Common' /\ Passes(p) /\ memory' = memory
        /\ value' = [value EXCEPT !["endp3"] = @ + 1]
        /\ \/ waiting["endp3"] = {} /\ waiting' = waiting
           \/ \E q \in waiting["endp3"] : waiting' = [waiting EXCEPT !["endp3"] = @ \ {q}]
    BY <1>a, <1>k, <2>1, VPlace
  <2>3. /\ Tails' /\ Crew' = {} /\ program' = program /\ pc'[first] = pc[first]
    BY <1>a, <1>b, <1>2, <2>2, MemberLeaves DEF TailPlace
  <2>4. \A k \in Sync \ {"endp3"} : value'[k] = value[k] /\ waiting'[k] = waiting[k]
    BY <1>a, <2>2, KeyFact
  <2>5. Before4'
    BY <1>b, <2>4, Before4Kept DEF WaitsP3
  <2>6. Has("endp3", 1 - Debt(pc[first] >= 12))'
    <3>1. Awaits("endp3", 0 - Debt(pc[first] >= 12), first)
      BY <1>b DEF WaitsP3
    <3>2. value'["endp3"] = 1 - Debt(pc[first] >= 12) /\ waiting'["endp3"] = {}
      BY <1>a, <1>k, <2>2, <3>1 DEF Awaits, Debt
    <3> QED
      BY <2>3, <3>2 DEF Has
  <2>7. StageC4'
    BY <1>b, <2>3, <2>5, <2>6 DEF StageC4, At1, WaitsP3
  <2> QED
    BY <2>2, <2>3, <2>7 DEF Stage
<1> QED
  BY <1>b, <1>1, <1>2

LEMMA StepD1First ==
  ASSUME Common, Tails, StageD1, Acts(first)
  PROVE  Common' /\ Tails' /\ Stage'
<1> DEFINE p == first
<1>a. /\ Types /\ p \in alive /\ p \in Process /\ \A k \in Key : p \notin waiting[k]
      /\ waiting \in [Key -> SUBSET alive] /\ value \in [Key -> Int]
  BY DEF Common, Types, Acts, Step, Ready
<1>k. "endp4" \in Key /\ "endp4" \in Sync
  BY KeyFact, SyncKeys
<1>b. /\ program[p] = "test" /\ pc[p] \in 14 .. 15 /\ Before7
      /\ Awaits("endp4", 0 - Debt(pc[p] >= 15), p)
  BY DEF StageD1, At1
<1>c. pc[p] = 14 /\ value["endp4"] = 0 /\ waiting["endp4"] = {}
  <2>1. pc[p] # 15
    BY <1>a, <1>b, <1>k DEF Awaits, Debt
  <2>2. pc[p] = 14
    BY <1>b, <2>1
  <2>3. 0 - Debt(pc[p] >= 15) = 0
    BY <2>2 DEF Debt
  <2>4. Awaits("endp4", 0, p)
    BY <1>b, <2>3
  <2> QED
    BY <2>2, <2>4 DEF Awaits
<1>1. Text[program[p]][pc[p]] = <<"P", "endp4">>
  BY <1>b, <1>c DEF Text, test
<1>2. /\ Common' /\ Passes(p) /\ memory' = memory
      /\ value' = [value EXCEPT !["endp4"] = @ - 1]
      /\ waiting' = [waiting EXCEPT !["endp4"] = @ \cup {p}]
  BY <1>a, <1>c, <1>k, <1>1, PPlace
<1>3. Moves(p) /\ Tails'
  BY <1>a, <1>2, MemberPasses
<1>4. \A k \in Sync \ {"endp4"} : value'[k] = value[k] /\ waiting'[k] = waiting[k]
  BY <1>a, <1>2, KeyFact
<1>5. Before7'
  BY <1>b, <1>4, Before7Kept
<1>6. Awaits("endp4", -1, p)'
  BY <1>a, <1>c, <1>k, <1>2 DEF Awaits
<1>7. PICK d \in Process : RunsP4(d)
  BY DEF StageD1
<1>8. RunsP4(d)'
  <2>1. program'[d] = program[d] /\ pc'[d] = pc[d] /\ handlers'[d] = handlers[d]
    BY <1>3, <1>7 DEF Moves, RunsP4, Crew
  <2> QED
    BY <1>2, <1>3, <1>7, <2>1 DEF Moves, RunsP4, Solo
<1>9. StageD1'
  BY <1>b, <1>c, <1>3, <1>5, <1>6, <1>8 DEF StageD1, At1, Moves, Debt
<1> QED
  BY <1>2, <1>3, <1>9 DEF Stage

LEMMA StepD1Crew ==
  ASSUME Common, Tails, StageD1, NEW p \in Crew, Acts(p)
  PROVE  Common' /\ Tails' /\ Stage'
<1>a. /\ Types /\ p \in alive /\ p # first /\ p \in Process /\ first \in Process /\ Stage
      /\ pc \in [Process -> Nat] /\ handlers \in [Process -> SUBSET DOMAIN Handler]
      /\ waiting \in [Key -> SUBSET alive] /\ value \in [Key -> Int]
  BY DEF Common, Types, Stage, Crew
<1>b. /\ program[first] = "test" /\ pc[first] \in 14 .. 15 /\ Before7
      /\ Awaits("endp4", 0 - Debt(pc[first] >= 15), first)
  BY DEF StageD1, At1
<1>c. RunsP4(p)
  BY DEF StageD1, RunsP4
<1>d. Crew = {p} /\ Solo(p) /\ handlers[p] = P4Handlers(program[p], pc[p])
  BY <1>c DEF RunsP4
<1>k. "endp4" \in Key /\ "endp4" \in Sync
  BY KeyFact, SyncKeys
<1>l. DOMAIN Handler = {"trap", "tlb", "sys"}
  BY DEF Handler
(* Stage D1 after a step that leaves the semaphores alone.                  *)
<1>h. ASSUME Crew' = Crew, alive' = alive, ancestors' = ancestors, SameSync,
             program'[first] = program[first], pc'[first] = pc[first],
             \/ program'[p] = "p4" /\ pc'[p] \in 1 .. 6
             \/ program'[p] \in {"p4prog", "p4a", "p4b"} /\ pc'[p] \in 1 .. 2
             \/ program'[p] \in {"p4mm", "p4sys"} /\ pc'[p] \in 1 .. 3
             \/ program'[p] = "p4c" /\ pc'[p] = 1,
             program'[p] = "p4sys" /\ pc'[p] = 1 => memory'["sstat_o"] = 13,
             handlers'[p] = P4Handlers(program'[p], pc'[p])
      PROVE  StageD1'
  <2>1. RunsP4(p)'
    BY <1>d, <1>h DEF RunsP4, Solo, P4Handlers
  <2>2. Before7'
    BY <1>b, <1>h, Before7Kept DEF SameSync
  <2>3. Awaits("endp4", 0 - Debt(pc[first] >= 15), first)'
    BY <1>b, <1>h, <1>k DEF Awaits, Debt, SameSync
  <2> QED
    BY <1>a, <1>b, <1>h, <2>1, <2>2, <2>3 DEF StageD1, At1
<1>p. ASSUME Text[program[p]][pc[p]] = <<"print">>,
             \/ program[p] = "p4" /\ pc[p] \in {1, 5}
             \/ program[p] \in {"p4prog", "p4a", "p4b"} /\ pc[p] = 1
             \/ program[p] = "p4mm" /\ pc[p] \in 1 .. 2
             \/ program[p] = "p4sys" /\ pc[p] = 2
      PROVE  Common' /\ Tails' /\ Stage'
  <2>1. ~TailPlace(program[p], pc[p] + 1)
    BY <1>p DEF TailPlace
  <2>2. Common' /\ Tails' /\ (Stage' \/ (Moves(p) /\ SameSync /\ memory' = memory))
    BY <1>a, <1>p, <2>1, MemberPrints
  <2>3. ASSUME Moves(p), SameSync
        PROVE  StageD1'
    <3>1. program'[p] = program[p] /\ pc'[p] = pc[p] + 1 /\ handlers'[p] = handlers[p]
      BY <2>3 DEF Moves
    <3>2. handlers'[p] = P4Handlers(program'[p], pc'[p])
      BY <1>d, <1>p, <3>1 DEF P4Handlers
    <3>3. \/ program'[p] = "p4" /\ pc'[p] \in 1 .. 6
          \/ program'[p] \in {"p4prog", "p4a", "p4b"} /\ pc'[p] \in 1 .. 2
          \/ program'[p] = "p4mm" /\ pc'[p] \in 1 .. 3
          \/ program'[p] = "p4sys" /\ pc'[p] = 3
      BY <1>p, <3>1
    <3> QED
      BY <1>a, <1>h, <2>3, <3>2, <3>3 DEF Moves
  <2> QED
    BY <2>2, <2>3 DEF Stage
<1>t. ASSUME NEW prog \in {"p4prog", "p4a", "p4mm", "p4b", "p4c"}, Common', Turns(p, prog),
             handlers[p] = DOMAIN Handler
      PROVE  Common' /\ Tails' /\ Stage'
  <2>1. /\ Tails' /\ Crew' = Crew /\ alive' = alive /\ SameSync
        /\ UNCHANGED <<ancestors, handlers, memory>>
        /\ program'[p] = prog /\ pc'[p] = 1
        /\ \A q \in Process \ {p} : program'[q] = program[q] /\ pc'[q] = pc[q]
    BY <1>a, <1>t, MemberTurns DEF TailPlace
  <2>2. handlers'[p] = P4Handlers(program'[p], pc'[p])
    BY <1>t, <2>1 DEF P4Handlers
  <2>3. StageD1'
    BY <1>a, <1>h, <1>t, <2>1, <2>2
  <2> QED
    BY <1>t, <2>1, <2>3 DEF Stage
<1>e. ASSUME NEW t \in {"trap", "tlb"}, Text[program[p]][pc[p]] = <<"exception", t>>,
             handlers[p] = DOMAIN Handler
      PROVE  Common' /\ Tails' /\ Stage'
  <2>1. Common' /\ Turns(p, Handler[t])
    BY <1>a, <1>e, <1>l, HandledPlace
  <2>2. Handler[t] \in {"p4prog", "p4mm"}
    BY <1>e DEF Handler
  <2> QED
    BY <1>e, <1>t, <2>1, <2>2
<1>s. ASSUME NEW t \in DOMAIN Handler, Text[program[p]][pc[p]] = <<"specpassup", t>>,
             program[p] = "p4", pc[p] \in 2 .. 4, t \notin handlers[p],
             handlers[p] \cup {t} = P4Handlers("p4", pc[p] + 1)
      PROVE  Common' /\ Tails' /\ Stage'
  <2>1. /\ Common' /\ alive' = alive /\ UNCHANGED <<ancestors, value, waiting, program, memory>>
        /\ pc' = [pc EXCEPT ![p] = @ + 1]
        /\ handlers' = [handlers EXCEPT ![p] = @ \cup {t}]
    BY <1>a, <1>s, SpecifyPlace DEF P4Programs
  <2>2. pc'[p] = pc[p] + 1 /\ handlers'[p] = handlers[p] \cup {t} /\ program'[p] = "p4" /\ pc'[first] = pc[first]
    BY <1>a, <1>s, <2>1
  <2>3. OthersStay(p)
    BY <1>a, <2>1 DEF OthersStay, Types
  <2>4. ~TailPlace(program'[p], pc'[p])
    BY <2>2 DEF TailPlace
  <2>5. Crew' = Crew /\ Tails'
    BY <1>a, <2>1, <2>3, <2>4, CrewAfter, TailsAfter
  <2>6. StageD1'
    BY <1>h, <1>s, <2>1, <2>2, <2>5 DEF SameSync
  <2> QED
    BY <2>1, <2>5, <2>6 DEF Stage
<1>1. CASE program[p] = "p4" /\ pc[p] \in {1, 5}
  <2>1. Text[program[p]][pc[p]] = <<"print">>
    BY <1>1 DEF Text, p4
  <2> QED
    BY <1>p, <1>1, <2>1
<1>2. CASE program[p] = "p4" /\ pc[p] = 2
  <2>1. Text[program[p]][pc[p]] = <<"specpassup", "trap">>
    BY <1>2 DEF Text, p4
  <2>2. "trap" \notin handlers[p] /\ handlers[p] \cup {"trap"} = P4Handlers("p4", pc[p] + 1)
    BY <1>d, <1>2 DEF P4Handlers
  <2> QED
    BY <1>l, <1>s, <1>2, <2>1, <2>2
<1>3. CASE program[p] = "p4" /\ pc[p] = 3
  <2>1. Text[program[p]][pc[p]] = <<"specpassup", "tlb">>
    BY <1>3 DEF Text, p4
  <2>2. "tlb" \notin handlers[p] /\ handlers[p] \cup {"tlb"} = P4Handlers("p4", pc[p] + 1)
    BY <1>d, <1>3 DEF P4Handlers
  <2> QED
    BY <1>l, <1>s, <1>3, <2>1, <2>2
<1>4. CASE program[p] = "p4" /\ pc[p] = 4
  <2>1. Text[program[p]][pc[p]] = <<"specpassup", "sys">>
    BY <1>4 DEF Text, p4
  <2>2. "sys" \notin handlers[p] /\ handlers[p] \cup {"sys"} = P4Handlers("p4", pc[p] + 1)
    BY <1>d, <1>l, <1>4 DEF P4Handlers
  <2> QED
    BY <1>l, <1>s, <1>4, <2>1, <2>2
<1>5. CASE program[p] = "p4" /\ pc[p] = 6
  <2>1. Text[program[p]][pc[p]] = <<"exception", "trap">>
    BY <1>5 DEF Text, p4
  <2>2. handlers[p] = DOMAIN Handler
    BY <1>d, <1>5 DEF P4Handlers
  <2> QED
    BY <1>e, <1>l, <2>1, <2>2
<1>6. CASE \/ program[p] \in {"p4prog", "p4a", "p4b"} /\ pc[p] = 1
           \/ program[p] = "p4sys" /\ pc[p] = 2
  <2>1. Text[program[p]][pc[p]] = <<"print">>
    BY <1>6 DEF Text, p4prog, p4a, p4b, p4sys
  <2> QED
    BY <1>p, <1>6, <2>1
<1>7. CASE program[p] = "p4mm" /\ pc[p] \in 1 .. 2
  <2>1. Text[program[p]][pc[p]] = <<"print">>
    BY <1>7 DEF Text, p4mm
  <2> QED
    BY <1>p, <1>7, <2>1
<1>8. program[p] # "p4" => handlers[p] = DOMAIN Handler
  BY <1>d DEF P4Handlers
<1>9. ASSUME NEW q \in {"p4a", "p4b", "p4c"}, Text[program[p]][pc[p]] = <<"jump", q>>, program[p] # "p4"
      PROVE  Common' /\ Tails' /\ Stage'
  <2>1. q \in DOMAIN Text /\ q \in P4Programs
    BY <1>9 DEF Text, P4Programs
  <2>2. Common' /\ Turns(p, q)
    BY <1>a, <1>9, <2>1, JumpPlace
  <2> QED
    BY <1>t, <1>8, <1>9, <2>2
<1>10. CASE program[p] = "p4prog" /\ pc[p] = 2
  <2>1. Text[program[p]][pc[p]] = <<"jump", "p4a">>
    BY <1>10 DEF Text, p4prog
  <2> QED
    BY <1>9, <1>10, <2>1
<1>16. CASE program[p] = "p4sys" /\ pc[p] = 1
  <2>1. Text[program[p]][pc[p]] = <<"assert", "reg0">> /\ Holds("reg0", p)
    BY <1>c, <1>16 DEF Text, p4sys, RunsP4, Holds
  <2>2. Common' /\ Passes(p) /\ UNCHANGED <<value, waiting, memory>>
    BY <1>a, <2>1, AssertPlace
  <2>3. Moves(p) /\ Tails'
    BY <1>a, <1>16, <2>2, MemberPasses DEF TailPlace
  <2>4. /\ program'[p] = "p4sys" /\ pc'[p] = 2 /\ handlers'[p] = handlers[p] /\ SameSync
        /\ handlers'[p] = P4Handlers(program'[p], pc'[p])
    BY <1>8, <1>16, <2>2, <2>3 DEF Moves, SameSync, P4Handlers
  <2>5. StageD1'
    BY <1>a, <1>h, <2>3, <2>4 DEF Moves
  <2> QED
    BY <2>2, <2>3, <2>5 DEF Stage
<1>11. CASE program[p] = "p4sys" /\ pc[p] = 3
  <2>1. Text[program[p]][pc[p]] = <<"jump", "p4c">>
    BY <1>11 DEF Text, p4sys
  <2> QED
    BY <1>9, <1>11, <2>1
<1>12. CASE program[p] = "p4mm" /\ pc[p] = 3
  <2>1. Text[program[p]][pc[p]] = <<"jump", "p4b">>
    BY <1>12 DEF Text, p4mm
  <2> QED
    BY <1>9, <1>12, <2>1
<1>13. CASE program[p] = "p4a" /\ pc[p] = 2
  <2>1. Text[program[p]][pc[p]] = <<"exception", "tlb">>
    BY <1>13 DEF Text, p4a
  <2> QED
    BY <1>e, <1>l, <1>8, <1>13, <2>1
<1>14. CASE program[p] = "p4b" /\ pc[p] = 2
  <2>1. Text[program[p]][pc[p]] = <<"exception", "sys", 13>> /\ "sys" \in handlers[p]
    BY <1>8, <1>l, <1>14 DEF Text, p4b
  <2>2. /\ Common' /\ alive' = alive /\ UNCHANGED <<ancestors, value, waiting, handlers>>
        /\ program' = [program EXCEPT ![p] = "p4sys"]
        /\ pc' = [pc EXCEPT ![p] = 1]
        /\ memory' = [memory EXCEPT !["sstat_o"] = 13]
    BY <1>a, <2>1, UnknownPlace
  <2>3. program'[p] = "p4sys" /\ pc'[p] = 1 /\ memory'["sstat_o"] = 13 /\ pc'[first] = pc[first]
        /\ program'[first] = program[first]
    BY <1>a, <2>2, VariableFact DEF Types
  <2>4. OthersStay(p)
    BY <1>a, <2>2 DEF OthersStay, Types
  <2>5. ~TailPlace(program'[p], pc'[p]) /\ ~TailPlace(program[p], pc[p])
    BY <1>14, <2>3 DEF TailPlace
  <2>6. Crew' = Crew /\ Tails'
    BY <1>a, <2>2, <2>4, <2>5, CrewAfter, TailsAfter
  <2>7. handlers'[p] = P4Handlers(program'[p], pc'[p])
    BY <1>8, <1>14, <2>2, <2>3 DEF P4Handlers
  <2>8. StageD1'
    BY <1>h, <2>2, <2>3, <2>6, <2>7 DEF SameSync
  <2> QED
    BY <2>2, <2>6, <2>8 DEF Stage
<1>15. CASE program[p] = "p4c" /\ pc[p] = 1
  <2>1. Text[program[p]][pc[p]] = <<"V", "endp4">>
    BY <1>15 DEF Text, p4c
  <2>2. /\ Common' /\ Passes(p) /\ memory' = memory
        /\ value' = [value EXCEPT !["endp4"] = @ + 1]
        /\ \/ waiting["endp4"] = {} /\ waiting' = waiting
           \/ \E q \in waiting["endp4"] : waiting' = [waiting EXCEPT !["endp4"] = @ \ {q}]
    BY <1>a, <1>k, <2>1, VPlace
  <2>3. /\ Tails' /\ Crew' = {} /\ program' = program /\ pc'[first] = pc[first]
    BY <1>a, <1>d, <1>8, <1>15, <2>2, MemberLeaves DEF TailPlace
  <2>4. \A k \in Sync \ {"endp4"} : value'[k] = value[k] /\ waiting'[k] = waiting[k]
    BY <1>a, <2>2, KeyFact
  <2>5. Before7'
    BY <1>b, <2>4, Before7Kept
  <2>6. Has("endp4", 1 - Debt(pc[first] >= 15))'
    <3>1. value'["endp4"] = 1 - Debt(pc[first] >= 15) /\ waiting'["endp4"] = {}
      BY <1>a, <1>b, <1>k, <2>2 DEF Awaits, Debt
    <3> QED
      BY <2>3, <3>1 DEF Has
  <2>7. StageD2'
    BY <1>b, <2>3, <2>5, <2>6 DEF StageD2, At1, Before7, Debt
  <2> QED
    BY <2>2, <2>3, <2>7 DEF Stage
<1> QED
  BY <1>c, <1>1, <1>2, <1>3, <1>4, <1>5, <1>6, <1>7, <1>10, <1>11, <1>12, <1>13, <1>14, <1>15, <1>16
     DEF RunsP4

LEMMA StepD2 ==
  ASSUME Common, Tails, StageD2, Acts(first)
  PROVE  Common' /\ Tails' /\ Stage'
<1> DEFINE p == first
<1>a. /\ Types /\ p \in alive /\ p \in Process /\ Stage /\ \A k \in Key : p \notin waiting[k]
      /\ waiting \in [Key -> SUBSET alive] /\ value \in [Key -> Int] /\ memory \in [Variable -> Nat]
  BY DEF Common, Types, Stage, Acts, Step, Ready
<1>b. /\ program[p] = "test" /\ pc[p] \in 14 .. 19 /\ Crew = {} /\ Between7
      /\ pc[p] <= 15 => Has("endp4", 1 - Debt(pc[p] >= 15))
      /\ Has("blkp7", Debt(pc[p] >= 19))
  BY DEF StageD2, At1
<1>k. "endp4" \in Key /\ "endp4" \in Sync /\ "blkp7" \in Key /\ "blkp7" \in Sync
  BY KeyFact, SyncKeys
<1>h. handlers[p] = {}
  BY <1>a, <1>b DEF Common, Specified, P4Programs
<1>1. CASE pc[p] = 14
  <2>1. Text[program[p]][pc[p]] = <<"P", "endp4">>
    BY <1>b, <1>1 DEF Text, test
  <2>2. /\ Common' /\ Passes(p) /\ memory' = memory
        /\ value' = [value EXCEPT !["endp4"] = @ - 1] /\ waiting' = waiting
    BY <1>a, <1>b, <1>1, <1>k, <2>1, PPlace DEF Has, Debt
  <2>3. Moves(p) /\ Tails'
    BY <1>a, <2>2, MemberPasses
  <2>4. Between7' /\ Has("blkp7", 0)'
    BY <1>a, <1>b, <1>1, <2>2, KeyFact, SyncKeys DEF Between7, Has, Debt
  <2>5. Has("endp4", 0)'
    BY <1>a, <1>b, <1>1, <1>k, <2>2 DEF Has, Debt
  <2>6. StageD2'
    BY <1>b, <1>1, <2>3, <2>4, <2>5 DEF Moves, StageD2, At1, Debt, Has
  <2> QED
    BY <2>2, <2>3, <2>6 DEF Stage
<1>2. CASE pc[p] = 15
  <2>1. Text[program[p]][pc[p]] = <<"print">>
    BY <1>b, <1>2 DEF Text, test
  <2>2. Common' /\ Tails' /\ (Stage' \/ (Moves(p) /\ SameSync /\ memory' = memory))
    BY <1>a, <2>1, MemberPrints
  <2>3. ASSUME Moves(p), SameSync
        PROVE  StageD2'
    <3>1. Between7' /\ Has("blkp7", 0)'
      BY <1>b, <1>2, <1>k, <2>3, BeforeSame DEF SameSync, Has, Debt
    <3> QED
      BY <1>b, <1>2, <2>3, <3>1 DEF Moves, StageD2, At1, Has, Debt
  <2> QED
    BY <2>2, <2>3 DEF Stage
<1>3. ASSUME NEW prog \in {"p5", "p6"}, pc[p] \in 16 .. 17,
             Text[program[p]][pc[p]] = <<"create", prog, "nowhere">>
      PROVE  Common' /\ Tails' /\ Stage'
  <2>1. prog \in DOMAIN Text /\ "nowhere" \notin Variable /\ TailPlace(prog, 1)
    BY <1>3, Nowhere DEF Text, TailPlace
  <2>2. PICK new : Joins(p, new, prog, "nowhere")
    BY <1>a, <1>3, <2>1, MemberCreates
  <2>3. Common' /\ Tails'
    BY <1>a, <1>3, <2>1, MemberCreates
  <2>4. /\ Crew' = {} /\ program'[p] = "test" /\ pc'[p] = pc[p] + 1 /\ UNCHANGED <<value, waiting>>
    BY <1>a, <1>b, <2>1, <2>2 DEF Joins
  <2>5. StageD2'
    BY <1>b, <1>3, <2>4 DEF StageD2, At1, Has, Debt, Between7
  <2> QED
    BY <2>3, <2>5 DEF Stage
<1>4. CASE pc[p] = 16
  <2>1. Text[program[p]][pc[p]] = <<"create", "p5", "nowhere">>
    BY <1>b, <1>4 DEF Text, test
  <2> QED
    BY <1>3, <1>4, <2>1
<1>5. CASE pc[p] = 17
  <2>1. Text[program[p]][pc[p]] = <<"create", "p6", "nowhere">>
    BY <1>b, <1>5 DEF Text, test
  <2> QED
    BY <1>3, <1>5, <2>1
<1>6. CASE pc[p] = 18
  <2>1. Text[program[p]][pc[p]] = <<"V", "blkp7">>
    BY <1>b, <1>6 DEF Text, test
  <2>2. /\ Common' /\ Passes(p) /\ memory' = memory
        /\ value' = [value EXCEPT !["blkp7"] = @ + 1] /\ waiting' = waiting
    BY <1>a, <1>b, <1>6, <1>k, <2>1, VPlace DEF Has
  <2>3. Moves(p) /\ Tails'
    BY <1>a, <2>2, MemberPasses
  <2>4. Between7'
    BY <1>a, <1>b, <2>2, KeyFact, SyncKeys DEF Between7, Has
  <2>5. Has("blkp7", 1)'
    BY <1>a, <1>b, <1>6, <1>k, <2>2 DEF Has, Debt
  <2>6. StageD2'
    BY <1>b, <1>6, <2>3, <2>4, <2>5 DEF Moves, StageD2, At1, Debt, Has
  <2> QED
    BY <2>2, <2>3, <2>6 DEF Stage
<1>7. CASE pc[p] = 19
  <2>1. /\ Text[program[p]][pc[p]] = <<"while", "p7loop", "p1end">>
        /\ "p7loop" \in DOMAIN Text /\ "p1end" \in DOMAIN Text
    BY <1>b, <1>7 DEF Text, test
  <2>2. Common' /\ (Turns(p, "p7loop") \/ Turns(p, "p1end"))
    BY <1>a, <1>h, <2>1, WhilePlace
  <2>3. /\ Tails' /\ Crew' = {} /\ SameSync
        /\ program'[p] \in {"p7loop", "p1end"} /\ pc'[p] = 1
    BY <1>a, <1>b, <2>2, MemberTurns
  <2>4. Between7' /\ Has("blkp7", 1)'
    BY <1>b, <1>7, <1>k, <2>3, BeforeSame DEF SameSync, Has, Debt
  <2>5. StageE'
    BY <2>3, <2>4 DEF StageE, At1
  <2> QED
    BY <2>2, <2>3, <2>5 DEF Stage
<1> QED
  BY <1>b, <1>1, <1>2, <1>4, <1>5, <1>6, <1>7

LEMMA FamilyBegins ==
  ASSUME Common, Common', Crew = {}, NEW new, Joins(first, new, "p7root", "p7pid"),
         At1("p7loop", 4, 4), Between7, Has("blkp7", 0),
         value["blkp7child"] = 0, value["blkleaves"] = 0
  PROVE  StageF'
<1> DEFINE cast == [x \in Role |-> new]
           here == {"p7pid"}
<1>a. Types /\ Tree /\ memory \in [Variable -> Nat]
  BY DEF Common, Types
<1>1. /\ new \in Process /\ new \notin alive /\ alive' = alive \cup {new}
      /\ Crew' = {new} /\ program'[new] = "p7root" /\ pc'[new] = 1
      /\ program'[first] = "p7loop" /\ pc'[first] = 5 /\ UNCHANGED <<value, waiting>>
      /\ memory' = [memory EXCEPT !["p7pid"] = new] /\ Solo(new)'
      /\ \A q \in alive : ancestors'[q] = ancestors[q]
  BY VariableFact DEF Joins, TailPlace, At1
<1>2. cast \in [Role -> Process] /\ here \in SUBSET Role /\ cast["p7pid"] = new
  BY <1>1 DEF Role
<1>3. here \cap Child = {} /\ here \cap Leaf = {}
  BY DEF Child, Leaf
<1>4. Family(cast, here)'
  <2>1. \A q \in alive' : new \in ancestors'[q] <=> q = new
    <3>1. new \in ancestors'[new]
      BY <1>1 DEF Common, Tree
    <3>2. \A q \in alive : new \notin ancestors[q]
      BY <1>a, <1>1 DEF Tree
    <3> QED
      BY <1>1, <3>1, <3>2
  <2>2. Crew' = {cast[x] : x \in here}
    BY <1>1, <1>2
  <2>3. \A x \in here : program'[cast[x]] = Part(x)
    BY <1>1, <1>2 DEF Part
  <2>4. \A x \in here \ Child : memory'[x] = cast[x]
    BY <1>a, <1>1, <1>2, VariableFact
  <2> QED
    BY <1>1, <1>2, <1>3, <2>1, <2>2, <2>3, <2>4 DEF Family
<1>5. Grows(cast, here)'
  BY <1>1, <1>2, <1>3 DEF Grows, Child, Leaf
<1>6. Meets(cast, here)'
  <2>1. Awaits("endp7", 0, first)' /\ Awaits("blkp7", 0, new)' /\ Awaits("endcreate", 0, new)'
    BY <1>1 DEF Between7, Has, Awaits
  <2>2. pc'[cast["p7pid"]] = 1
    BY <1>1, <1>2
  <2>3. Announced(cast, here)' = 0
    BY DEF Announced, Debt
  <2>4. waiting'["blkp7child"] = {} /\ waiting'["blkleaves"] = {}
        /\ value'["blkp7child"] = 0 /\ value'["blkleaves"] = 0
    BY <1>1 DEF Between7
  <2>5. Parks(cast, here, Child, 5, "blkp7child")' /\ Parks(cast, here, Leaf, 4, "blkleaves")'
    BY <1>3, <2>4, FS_EmptySet DEF Parks, Reached
  <2>6. Awaits("endp7", Debt(pc[cast["p7pid"]] >= 18) - Debt(pc[first] >= 6), first)'
    BY <1>1, <2>1, <2>2 DEF Debt
  <2>7. Awaits("blkp7", 0 - Debt(pc[cast["p7pid"]] >= 19), cast["p7pid"])'
    BY <1>2, <2>1, <2>2 DEF Debt
  <2>8. Tickets(cast, here)' = 0
    BY <2>2, <2>3 DEF Tickets
  <2>9. Awaits("endcreate", Tickets(cast, here), cast["p7pid"])' /\ (Tickets(cast, here) >= -1)'
    BY <1>2, <2>1, <2>8 DEF Awaits
  <2> QED
    BY <2>2, <2>5, <2>6, <2>7, <2>9 DEF Meets
<1> QED
  BY <1>1, <1>2, <1>4, <1>5, <1>6 DEF StageF, Plays, At1

LEMMA StepE ==
  ASSUME Common, Tails, StageE, Acts(first)
  PROVE  \/ Common' /\ Tails' /\ Stage'
         \/ Types' /\ alive' = {}
<1> DEFINE p == first
<1>a. /\ Types /\ p \in alive /\ p \in Process /\ Stage /\ \A k \in Key : p \notin waiting[k]
      /\ waiting \in [Key -> SUBSET alive] /\ value \in [Key -> Int] /\ memory \in [Variable -> Nat]
      /\ pc \in [Process -> Nat]
  BY DEF Common, Types, Stage, Acts, Step, Ready
<1>b. Crew = {} /\ Between7
  BY DEF StageE
<1>k. "blkp7" \in Sync /\ "blkp7child" \in Sync /\ "blkleaves" \in Sync /\ Sync \subseteq Key
  BY KeyFact, SyncKeys
<1>1. CASE At1("p7loop", 1, 1)
  <2>0. pc[p] = 1 /\ program[p] = "p7loop" /\ Has("blkp7", 1)
    BY <1>1 DEF At1, StageE
  <2>1. Text[program[p]][pc[p]] = <<"P", "blkp7">>
    BY <2>0 DEF Text, p7loop
  <2>2. /\ Common' /\ Passes(p) /\ memory' = memory
        /\ value' = [value EXCEPT !["blkp7"] = @ - 1] /\ waiting' = waiting
    BY <1>a, <1>k, <2>0, <2>1, PPlace DEF Has
  <2>3. Moves(p) /\ Tails'
    BY <1>a, <2>2, MemberPasses
  <2>4. Between7' /\ Has("blkp7", 0)'
    BY <1>a, <1>b, <1>k, <2>0, <2>2 DEF Between7, Has
  <2>5. StageE'
    BY <1>b, <2>0, <2>3, <2>4 DEF Moves, StageE, At1
  <2> QED
    BY <2>2, <2>3, <2>5 DEF Stage
<1>2. CASE At1("p7loop", 2, 2)
  <2>0. pc[p] = 2 /\ program[p] = "p7loop" /\ Has("blkp7", 0)
    BY <1>2 DEF At1, StageE
  <2>1. Text[program[p]][pc[p]] = <<"clear", "blkp7child">>
    BY <2>0 DEF Text, p7loop
  <2>2. /\ Common' /\ Passes(p) /\ UNCHANGED <<memory, waiting>>
        /\ value' = [value EXCEPT !["blkp7child"] = 0]
    BY <1>a, <1>k, <2>0, <2>1, ClearPlace
  <2>3. Moves(p) /\ Tails'
    BY <1>a, <2>2, MemberPasses
  <2>4. Between7' /\ Has("blkp7", 0)' /\ value'["blkp7child"] = 0
    BY <1>a, <1>b, <1>k, <2>0, <2>2 DEF Between7, Has
  <2>5. StageE'
    BY <1>b, <2>0, <2>3, <2>4 DEF Moves, StageE, At1
  <2> QED
    BY <2>2, <2>3, <2>5 DEF Stage
<1>3. CASE At1("p7loop", 3, 3)
  <2>0. pc[p] = 3 /\ program[p] = "p7loop" /\ Has("blkp7", 0) /\ value["blkp7child"] = 0
    BY <1>3 DEF At1, StageE
  <2>1. Text[program[p]][pc[p]] = <<"clear", "blkleaves">>
    BY <2>0 DEF Text, p7loop
  <2>2. /\ Common' /\ Passes(p) /\ UNCHANGED <<memory, waiting>>
        /\ value' = [value EXCEPT !["blkleaves"] = 0]
    BY <1>a, <1>k, <2>0, <2>1, ClearPlace
  <2>3. Moves(p) /\ Tails'
    BY <1>a, <2>2, MemberPasses
  <2>4. Between7' /\ Has("blkp7", 0)' /\ value'["blkp7child"] = 0 /\ value'["blkleaves"] = 0
    BY <1>a, <1>b, <1>k, <2>0, <2>2 DEF Between7, Has
  <2>5. StageE'
    BY <1>b, <2>0, <2>3, <2>4 DEF Moves, StageE, At1
  <2> QED
    BY <2>2, <2>3, <2>5 DEF Stage
<1>4. CASE At1("p7loop", 4, 4)
  <2>0. /\ pc[p] = 4 /\ program[p] = "p7loop" /\ Has("blkp7", 0)
        /\ value["blkp7child"] = 0 /\ value["blkleaves"] = 0
    BY <1>4 DEF At1, StageE
  <2>1. Text[program[p]][pc[p]] = <<"created", "p7root", "p7pid">> /\ "p7root" \in DOMAIN Text
    BY <2>0 DEF Text, p7loop
  <2>2. PICK new : Joins(p, new, "p7root", "p7pid")
    BY <1>a, <2>1, MemberCreates
  <2>3. Common' /\ Tails'
    BY <1>a, <2>1, MemberCreates
  <2>4. StageF'
    BY <1>b, <1>4, <2>0, <2>2, <2>3, FamilyBegins
  <2> QED
    BY <2>3, <2>4 DEF Stage
<1>5. CASE At1("p7loop", 7, 7)
  <2>0. pc[p] = 7 /\ program[p] = "p7loop" /\ Has("blkp7", 0)
    BY <1>5 DEF At1, StageE
  <2>1. Text[program[p]][pc[p]] = <<"V", "blkp7">>
    BY <2>0 DEF Text, p7loop
  <2>2. /\ Common' /\ Passes(p) /\ memory' = memory
        /\ value' = [value EXCEPT !["blkp7"] = @ + 1] /\ waiting' = waiting
    BY <1>a, <1>k, <2>0, <2>1, VPlace DEF Has
  <2>3. Moves(p) /\ Tails'
    BY <1>a, <2>2, MemberPasses
  <2>4. Between7' /\ Has("blkp7", 1)'
    BY <1>a, <1>b, <1>k, <2>0, <2>2 DEF Between7, Has
  <2>5. StageE'
    BY <1>b, <2>0, <2>3, <2>4 DEF Moves, StageE, At1
  <2> QED
    BY <2>2, <2>3, <2>5 DEF Stage
<1>6. CASE At1("p7loop", 8, 9)
  <2>0. pc[p] \in 8 .. 9 /\ program[p] = "p7loop" /\ Has("blkp7", 1)
    BY <1>6 DEF At1, StageE
  <2>1. Text[program[p]][pc[p]] = <<"V", "blkp7child">>
    BY <2>0 DEF Text, p7loop
  <2>2. /\ Common' /\ Passes(p) /\ memory' = memory
        /\ value' = [value EXCEPT !["blkp7child"] = @ + 1] /\ waiting' = waiting
    BY <1>a, <1>b, <1>k, <2>0, <2>1, VPlace DEF Between7
  <2>3. Moves(p) /\ Tails'
    BY <1>a, <2>2, MemberPasses
  <2>4. Between7' /\ Has("blkp7", 1)'
    BY <1>a, <1>b, <1>k, <2>0, <2>2 DEF Between7, Has
  <2>5. StageE'
    BY <1>b, <2>0, <2>3, <2>4 DEF Moves, StageE, At1
  <2> QED
    BY <2>2, <2>3, <2>5 DEF Stage
<1>7. CASE At1("p7loop", 10, 10)
  <2>0. pc[p] = 10 /\ program[p] = "p7loop" /\ Has("blkp7", 1)
    BY <1>7 DEF At1, StageE
  <2>1. Text[program[p]][pc[p]] = <<"set", "p7inc">>
    BY <2>0 DEF Text, p7loop
  <2>2. Common' /\ Passes(p) /\ UNCHANGED <<value, waiting>>
    BY <1>a, <2>1, SetPlace, VariableFact
  <2>3. Moves(p) /\ Tails'
    BY <1>a, <2>2, MemberPasses
  <2>4. Between7' /\ Has("blkp7", 1)'
    BY <1>b, <2>0, <2>2 DEF Between7, Has
  <2>5. StageE'
    BY <1>b, <2>0, <2>3, <2>4 DEF Moves, StageE, At1
  <2> QED
    BY <2>2, <2>3, <2>5 DEF Stage
<1>8. CASE At1("p7loop", 11, 11)
  <2>0. pc[p] = 11 /\ program[p] = "p7loop" /\ Has("blkp7", 1)
    BY <1>8 DEF At1, StageE
  <2>1. /\ Text[program[p]][pc[p]] = <<"while", "p7loop", "p1end">>
        /\ "p7loop" \in DOMAIN Text /\ "p1end" \in DOMAIN Text
    BY <2>0 DEF Text, p7loop
  <2>h. handlers[p] = {}
    BY <1>a, <2>0 DEF Common, Specified, P4Programs
  <2>2. Common' /\ (Turns(p, "p7loop") \/ Turns(p, "p1end"))
    BY <1>a, <2>h, <2>1, WhilePlace
  <2>3. /\ Tails' /\ Crew' = {} /\ SameSync
        /\ program'[p] \in {"p7loop", "p1end"} /\ pc'[p] = 1
    BY <1>a, <1>b, <2>2, MemberTurns
  <2>4. Between7' /\ Has("blkp7", 1)'
    BY <1>b, <1>k, <2>0, <2>3, BeforeSame DEF SameSync, Has
  <2>5. StageE'
    BY <2>3, <2>4 DEF StageE, At1
  <2> QED
    BY <2>2, <2>3, <2>5 DEF Stage
<1>9. CASE At1("p1end", 1, 2)
  <2>0. pc[p] \in 1 .. 2 /\ program[p] = "p1end"
    BY <1>9 DEF At1
  <2>1. Text[program[p]][pc[p]] = <<"print">>
    BY <2>0 DEF Text, p1end
  <2>2. Common' /\ Tails' /\ (Stage' \/ (Moves(p) /\ SameSync /\ memory' = memory))
    BY <1>a, <2>1, MemberPrints
  <2>3. Moves(p) /\ SameSync => StageE'
    BY <1>b, <2>0, BeforeSame DEF Moves, StageE, At1
  <2> QED
    BY <2>2, <2>3 DEF Stage
<1>10. CASE At1("p1end", 3, 3)
  <2>0. pc[p] = 3 /\ program[p] = "p1end"
    BY <1>10 DEF At1
  <2>1. Text[program[p]][pc[p]] = <<"exception", "trap">>
    BY <2>0 DEF Text, p1end
  <2>h. handlers[p] = {}
    BY <1>a, <2>0 DEF Common, Specified, P4Programs
  <2>2. Kill(p, p) /\ Still
    BY <2>h, <2>1, ExceptionStep
  <2> QED
    BY <2>2, EndAll
<1> QED
  <2>1. \/ At1("p7loop", 1, 1) \/ At1("p7loop", 2, 4) \/ At1("p7loop", 7, 7)
        \/ At1("p7loop", 8, 11) \/ At1("p1end", 1, 3)
    BY DEF StageE
  <2>2. At1("p7loop", 2, 4) => At1("p7loop", 2, 2) \/ At1("p7loop", 3, 3) \/ At1("p7loop", 4, 4)
    BY <1>a DEF At1
  <2>3. At1("p7loop", 8, 11) => At1("p7loop", 8, 9) \/ At1("p7loop", 10, 10) \/ At1("p7loop", 11, 11)
    BY <1>a DEF At1
  <2>4. At1("p1end", 1, 3) => At1("p1end", 1, 2) \/ At1("p1end", 3, 3)
    BY <1>a DEF At1
  <2> QED
    BY <1>1, <1>2, <1>3, <1>4, <1>5, <1>6, <1>7, <1>8, <1>9, <1>10, <2>1, <2>2, <2>3, <2>4
------------------------------------------------------------------------------
(* The family of p7.                                                        *)

LEMMA RootText ==
  /\ p7root[1] = <<"print">> /\ p7root[8] = <<"print">>
  /\ p7root[2] = <<"create", "child1", "nowhere">> /\ p7root[3] = <<"create", "child2", "nowhere">>
  /\ \A i \in 4 .. 7 : p7root[i] = <<"P", "endcreate">>
  /\ p7root[9] = <<"kill", "leaf1pid">> /\ p7root[10] = <<"kill", "leaf2pid">>
  /\ p7root[11] = <<"kill", "leaf3pid">> /\ p7root[12] = <<"kill", "leaf4pid">>
  /\ \A i \in 13 .. 16 : p7root[i] = <<"V", "blkleaves">>
  /\ p7root[17] = <<"V", "endp7">> /\ p7root[18] = <<"P", "blkp7">>
BY DEF p7root

LEMMA PartText ==
  /\ Text["p7root"] = p7root /\ Text["child1"] = child1 /\ Text["child2"] = child2
  /\ Text["p7leaf"] = p7leaf
  /\ \A x \in Child \cup Leaf : Text[Part(x)][1] = <<"print">>
  /\ Text[Part("child1")][2] = <<"create", "p7leaf", "leaf1pid">>
  /\ Text[Part("child1")][3] = <<"create", "p7leaf", "leaf2pid">>
  /\ Text[Part("child2")][2] = <<"create", "p7leaf", "leaf3pid">>
  /\ Text[Part("child2")][3] = <<"create", "p7leaf", "leaf4pid">>
  /\ \A x \in Child : Text[Part(x)][4] = <<"P", "blkp7child">>
  /\ \A x \in Leaf : Text[Part(x)][2] = <<"V", "endcreate">> /\ Text[Part(x)][3] = <<"P", "blkleaves">>
  /\ {"p7root", "child1", "child2", "p7leaf"} \subseteq DOMAIN Text
<1>1. /\ Text["p7root"] = p7root /\ Text["child1"] = child1 /\ Text["child2"] = child2
      /\ Text["p7leaf"] = p7leaf
      /\ {"p7root", "child1", "child2", "p7leaf"} \subseteq DOMAIN Text
  BY DEF Text
<1>2. Part("child1") = "child1" /\ Part("child2") = "child2" /\ \A x \in Leaf : Part(x) = "p7leaf"
  BY DEF Part, Child, Leaf
<1>3. Child = {"child1", "child2"}
  BY DEF Child
<1>4. /\ p7leaf[1] = <<"print">> /\ p7leaf[2] = <<"V", "endcreate">> /\ p7leaf[3] = <<"P", "blkleaves">>
  BY DEF p7leaf
<1>5. /\ child1[1] = <<"print">> /\ child1[2] = <<"create", "p7leaf", "leaf1pid">>
      /\ child1[3] = <<"create", "p7leaf", "leaf2pid">> /\ child1[4] = <<"P", "blkp7child">>
  BY DEF child1
<1>6. /\ child2[1] = <<"print">> /\ child2[2] = <<"create", "p7leaf", "leaf3pid">>
      /\ child2[3] = <<"create", "p7leaf", "leaf4pid">> /\ child2[4] = <<"P", "blkp7child">>
  BY DEF child2
<1> QED
  BY <1>1, <1>2, <1>3, <1>4, <1>5, <1>6

LEMMA NoTail ==
  ASSUME NEW x \in Role, NEW i
  PROVE  ~TailPlace(Part(x), i)
BY DEF TailPlace, Part, Role, Child, Leaf

(* Who plays x.                                                             *)
LEMMA PlayerFact ==
  ASSUME Common, NEW cast \in [Role -> Process], NEW here \in SUBSET Role, Family(cast, here),
         NEW x \in here
  PROVE  /\ x \in Role /\ cast[x] \in Process /\ cast[x] \in alive /\ cast[x] \in Crew /\ cast[x] # first
         /\ program[cast[x]] = Part(x) /\ pc[cast[x]] \in Nat /\ handlers[cast[x]] = {}
         /\ \A y \in here \ {x} : cast[y] # cast[x]
         /\ x \notin Child => memory[x] = cast[x]
         /\ \A i : ~TailPlace(program[cast[x]], i)
<1>1. x \in Role /\ cast[x] \in Process /\ cast[x] \in Crew /\ program[cast[x]] = Part(x)
  BY DEF Family
<1>2. cast[x] \in alive /\ cast[x] # first
  BY <1>1, CrewIn
<1>3. Part(x) \notin P4Programs
  BY DEF Part, P4Programs, Child
<1>4. handlers[cast[x]] = {}
  BY <1>1, <1>2, <1>3 DEF Common, Specified
<1>5. pc[cast[x]] \in Nat
  BY <1>1 DEF Common, Types
<1> QED
  BY <1>1, <1>2, <1>4, <1>5, NoTail DEF Family

(* x goes on to its next instruction.                                       *)
Goes(cast, here, x) ==
  /\ Family(cast, here)'
  /\ program'[first] = program[first] /\ pc'[first] = pc[first]
  /\ pc'[cast[x]] = pc[cast[x]] + 1
  /\ \A y \in here \ {x} : pc'[cast[y]] = pc[cast[y]]

LEMMA PlayerGoes ==
  ASSUME Common, NEW cast \in [Role -> Process], NEW here \in SUBSET Role, Family(cast, here),
         NEW x \in here, Moves(cast[x]), memory' = memory
  PROVE  Goes(cast, here, x)
<1>1. \A y \in here : cast[y] \in Process /\ cast[y] # first /\ (y # x => cast[y] # cast[x])
  BY PlayerFact
<1>2. Family(cast, here)'
  BY DEF Moves, Family, Solo
<1> QED
  BY <1>1, <1>2 DEF Moves, Goes, Common, Types

(* What the announcements are.                                              *)
LEMMA AnnouncedFact ==
  ASSUME NEW cast, NEW here
  PROVE  /\ Announced(cast, here) \in 0 .. 4
         /\ Announced(cast, here) >= 4 => \A x \in Leaf : x \in here /\ pc[cast[x]] >= 3
         /\ (\A x \in Leaf : x \in here /\ pc[cast[x]] >= 3) => Announced(cast, here) = 4
BY DEF Announced, Debt, Leaf

LEMMA AnnouncedKept ==
  ASSUME NEW cast, NEW here, NEW cast1, NEW here1,
         \A x \in Leaf : (x \in here /\ pc[cast[x]] >= 3) <=> (x \in here1 /\ pc'[cast1[x]] >= 3)
  PROVE  Announced(cast1, here1)' = Announced(cast, here)
<1>1. \A x \in Leaf : Debt(x \in here1 /\ pc[cast1[x]] >= 3)' = Debt(x \in here /\ pc[cast[x]] >= 3)
  BY DEF Debt
<1> QED
  BY <1>1 DEF Announced, Leaf

LEMMA AnnouncedMore ==
  ASSUME NEW cast, NEW here, NEW x \in Leaf, x \in here, pc[cast[x]] = 2, pc'[cast[x]] = 3,
         \A y \in here \ {x} : pc'[cast[y]] = pc[cast[y]]
  PROVE  Announced(cast, here)' = Announced(cast, here) + 1
<1>1. \A y \in Leaf \ {x} : Debt(y \in here /\ pc[cast[y]] >= 3)' = Debt(y \in here /\ pc[cast[y]] >= 3)
  BY DEF Debt
<1>2. Debt(x \in here /\ pc[cast[x]] >= 3)' = 1 /\ Debt(x \in here /\ pc[cast[x]] >= 3) = 0
  BY DEF Debt
<1>3. \A y \in Leaf : Debt(y \in here /\ pc[cast[y]] >= 3) \in 0 .. 1
  BY DEF Debt
<1> QED
  BY <1>1, <1>2, <1>3 DEF Announced, Leaf

LEMMA ParksKept ==
  ASSUME NEW cast, NEW here, NEW cast1, NEW here1, NEW set, NEW n, NEW k, Parks(cast, here, set, n, k),
         value'[k] = value[k], waiting'[k] = waiting[k],
         \A x \in here \cap set : x \in here1 /\ cast1[x] = cast[x],
         \A x \in here1 \cap set : pc'[cast1[x]] >= n =>
           x \in here /\ cast[x] = cast1[x] /\ pc[cast[x]] >= n
  PROVE  Parks(cast1, here1, set, n, k)'
BY DEF Parks, Reached

(* x comes to its last place.                                               *)
LEMMA ParksMore ==
  ASSUME Types, NEW k \in Key, NEW cast, NEW here, NEW set, NEW n \in Nat, Parks(cast, here, set, n, k),
         NEW x \in here \cap set, cast[x] \in alive, cast[x] \notin waiting[k],
         value' = [value EXCEPT ![k] = @ - 1],
         waiting' = IF value[k] > 0 THEN waiting ELSE [waiting EXCEPT ![k] = @ \cup {cast[x]}],
         \A y \in here \ {x} : pc'[cast[y]] = pc[cast[y]]
  PROVE  Parks(cast, here, set, n, k)'
<1>1. IsFiniteSet(waiting[k]) /\ Cardinality(waiting[k]) \in Nat
  BY WaitingFinite
<1>2. value[k] = 0 - Cardinality(waiting[k]) /\ waiting \in [Key -> SUBSET alive] /\ value \in [Key -> Int]
  BY DEF Parks, Types
<1>3. waiting'[k] = waiting[k] \cup {cast[x]} /\ value'[k] = value[k] - 1
  BY <1>1, <1>2
<1>4. Cardinality(waiting'[k]) = Cardinality(waiting[k]) + 1
  BY <1>1, <1>3, FS_AddElement
<1>5. value'[k] = 0 - Cardinality(waiting'[k])
  BY <1>1, <1>2, <1>3, <1>4
<1>6. {cast[y] : y \in Reached(cast, here, set, n)'} \subseteq waiting'[k]
  BY <1>3 DEF Parks, Reached
<1>7. waiting'[k] \subseteq {cast[y] : y \in here \cap set}
  BY <1>3 DEF Parks
<1> QED
  BY <1>5, <1>6, <1>7 DEF Parks

(* x, who may have waited, is gone.                                         *)
LEMMA ParksLess ==
  ASSUME Types, NEW k \in Key, NEW cast, NEW here, NEW set, NEW n \in Nat, Parks(cast, here, set, n, k),
         NEW x \in here, \A y \in here \ {x} : cast[y] # cast[x],
         value'[k] = value[k] + Cardinality(waiting[k] \cap {cast[x]}),
         waiting'[k] = waiting[k] \ {cast[x]},
         \A y \in here \ {x} : pc'[cast[y]] >= n => pc[cast[y]] >= n
  PROVE  Parks(cast, here \ {x}, set, n, k)'
<1>1. IsFiniteSet(waiting[k]) /\ Cardinality(waiting[k]) \in Nat
  BY WaitingFinite
<1>2. value[k] = 0 - Cardinality(waiting[k])
  BY DEF Parks
<1>3. value'[k] = 0 - Cardinality(waiting'[k])
  <2>1. CASE cast[x] \in waiting[k]
    <3>1. waiting[k] \cap {cast[x]} = {cast[x]} /\ Cardinality({cast[x]}) = 1
      BY <2>1, FS_Singleton
    <3>2. Cardinality(waiting[k] \ {cast[x]}) = Cardinality(waiting[k]) - 1
      BY <1>1, <2>1, FS_RemoveElement
    <3>3. Cardinality(waiting[k] \cap {cast[x]}) = 1
      BY <3>1
    <3>4. value'[k] = value[k] + 1 /\ Cardinality(waiting'[k]) = Cardinality(waiting[k]) - 1
      BY <3>2, <3>3
    <3> QED
      BY <1>1, <1>2, <3>4
  <2>2. CASE cast[x] \notin waiting[k]
    <3>1. Cardinality(waiting[k] \cap {cast[x]}) = 0 /\ waiting[k] \ {cast[x]} = waiting[k]
      <4>1. waiting[k] \cap {cast[x]} = {}
        BY <2>2
      <4> QED
        BY <4>1, NoneWaiting
    <3>2. value'[k] = value[k] + 0 /\ waiting'[k] = waiting[k]
      BY <3>1
    <3>3. Cardinality(waiting'[k]) = Cardinality(waiting[k])
      BY <3>2
    <3> QED
      BY <1>1, <1>2, <3>2, <3>3
  <2> QED
    BY <2>1, <2>2
<1>4. {cast[y] : y \in Reached(cast, here \ {x}, set, n)'} \subseteq waiting'[k]
  BY DEF Parks, Reached
<1>5. waiting'[k] \subseteq {cast[y] : y \in (here \ {x}) \cap set}
  BY DEF Parks
<1> QED
  BY <1>3, <1>4, <1>5 DEF Parks

(* new plays y from now on.                                                 *)
Casts(cast, here, y, new, cast1, here1) ==
  cast1 = [cast EXCEPT ![y] = new] /\ here1 = here \cup {y}

(* x has created y.                                                         *)
LEMMA PlayerJoins ==
  ASSUME Common, NEW cast \in [Role -> Process], NEW here \in SUBSET Role, Family(cast, here),
         NEW x \in here \ Leaf, NEW y \in Role \ here, NEW v, y \in Child => v = "nowhere",
         y \notin Child => v = y, NEW new, NEW prog, prog = Part(y), Joins(cast[x], new, prog, v),
         NEW cast1, NEW here1, Casts(cast, here, y, new, cast1, here1)
  PROVE  /\ cast1 \in [Role -> Process] /\ here1 \in SUBSET Role
         /\ \A z \in here : cast1[z] = cast[z]
         /\ cast1[y] = new /\ pc'[new] = 1
         /\ pc'[cast[x]] = pc[cast[x]] + 1
         /\ \A z \in here \ {x} : pc'[cast[z]] = pc[cast[z]]
         /\ program'[first] = program[first] /\ pc'[first] = pc[first]
         /\ UNCHANGED <<value, waiting>>
         /\ Family(cast1, here1)'
<1>0. cast1 = [cast EXCEPT ![y] = new] /\ here1 = here \cup {y}
  BY DEF Casts
<1>1. \A z \in here : /\ z \in Role /\ cast[z] \in Process /\ cast[z] \in alive /\ cast[z] \in Crew
                      /\ cast[z] # first /\ program[cast[z]] = Part(z)
                      /\ \A u \in here \ {z} : cast[u] # cast[z]
  BY PlayerFact
<1>2. /\ new \in Process /\ new \notin alive /\ alive' = alive \cup {new}
      /\ Crew' = Crew \cup {new} /\ program'[new] = Part(y) /\ pc'[new] = 1
      /\ ancestors'[new] = ancestors[cast[x]] \cup {new}
      /\ \A q \in alive : ancestors'[q] = ancestors[q] /\ program'[q] = program[q]
      /\ pc'[cast[x]] = pc[cast[x]] + 1
      /\ \A q \in alive \ {cast[x]} : pc'[q] = pc[q] /\ (Solo(q) => Solo(q)')
      /\ Solo(new)' /\ UNCHANGED <<value, waiting>>
  BY NoTail DEF Joins
<1>3. /\ cast1 \in [Role -> Process] /\ here1 \in SUBSET Role /\ cast1[y] = new
      /\ \A z \in here : cast1[z] = cast[z]
  BY <1>0, <1>2
<1>4. first \in alive
  BY DEF Common
<1>5. /\ \A z \in here \ {x} : pc'[cast[z]] = pc[cast[z]]
      /\ program'[first] = program[first] /\ pc'[first] = pc[first]
  BY <1>1, <1>2, <1>4
<1>6. \A z, u \in here1 : cast1[z] = cast1[u] => z = u
  BY <1>0, <1>1, <1>2, <1>3
<1>7. Crew' = {cast1[z] : z \in here1}
  <2>1. Crew = {cast[z] : z \in here}
    BY DEF Family
  <2> QED
    BY <1>0, <1>2, <1>3, <2>1
<1>8. \A z \in here1 : program'[cast1[z]] = Part(z)
  BY <1>0, <1>1, <1>2, <1>3
<1>9. \A z \in here1 \ Child : memory'[z] = cast1[z]
  <2>1. \A z \in here \ Child : memory[z] = cast[z]
    BY DEF Family
  <2>2. CASE y \in Child
    <3>1. memory' = memory
      BY <2>2, Nowhere DEF Joins
    <3> QED
      BY <1>0, <1>3, <2>1, <2>2, <3>1
  <2>3. CASE y \notin Child
    <3>1. Role \ Child \subseteq Variable
      BY VariableFact DEF Role, Leaf, Child
    <3>2. memory' = [memory EXCEPT ![y] = new] /\ memory \in [Variable -> Nat]
      BY <2>3, <3>1 DEF Joins, Common, Types
    <3> QED
      BY <1>0, <1>1, <1>3, <2>1, <2>3, <3>1, <3>2
  <2> QED
    BY <2>2, <2>3
<1>10. \A q \in alive' : cast1["p7pid"] \in ancestors'[q] <=> q \in Crew'
  <2>1. /\ "p7pid" \in here /\ \A q \in alive : cast["p7pid"] \in ancestors[q] <=> q \in Crew
    BY DEF Family
  <2> QED
    BY <1>0, <1>1, <1>2, <1>3, <2>1
<1>11. \A z \in here1 \cap Leaf : Solo(cast1[z])'
  <2>1. \A z \in here \cap Leaf : Solo(cast[z]) /\ cast[z] # cast[x]
    BY <1>1 DEF Family
  <2> QED
    BY <1>0, <1>1, <1>2, <1>3, <2>1
<1>12. "p7pid" \in here1
  BY <1>0 DEF Family
<1>13. Family(cast1, here1)'
  BY <1>6, <1>7, <1>8, <1>9, <1>10, <1>11, <1>12 DEF Family
<1> QED
  BY <1>2, <1>3, <1>5, <1>13

(* What the family meets on, when a semaphore of it is left alone.          *)
LEMMA EndKept ==
  ASSUME NEW cast, NEW here, Meets(cast, here), NEW cast1, cast1["p7pid"] = cast["p7pid"],
         pc'[first] = pc[first],
         pc'[cast["p7pid"]] >= 18 <=> pc[cast["p7pid"]] >= 18,
         value'["endp7"] = value["endp7"], waiting'["endp7"] = waiting["endp7"]
  PROVE  Awaits("endp7", Debt(pc[cast1["p7pid"]] >= 18) - Debt(pc[first] >= 6), first)'
BY DEF Meets, Awaits, Debt

LEMMA BlkKept ==
  ASSUME NEW cast, NEW here, Meets(cast, here), NEW cast1, cast1["p7pid"] = cast["p7pid"],
         pc'[cast["p7pid"]] >= 19 <=> pc[cast["p7pid"]] >= 19,
         value'["blkp7"] = value["blkp7"], waiting'["blkp7"] = waiting["blkp7"]
  PROVE  Awaits("blkp7", 0 - Debt(pc[cast1["p7pid"]] >= 19), cast1["p7pid"])'
BY DEF Meets, Awaits, Debt

LEMMA CreateKept ==
  ASSUME NEW cast, NEW here, Meets(cast, here), NEW cast1, NEW here1, cast1["p7pid"] = cast["p7pid"],
         Tickets(cast1, here1)' = Tickets(cast, here),
         value'["endcreate"] = value["endcreate"], waiting'["endcreate"] = waiting["endcreate"]
  PROVE  Awaits("endcreate", Tickets(cast1, here1), cast1["p7pid"])' /\ (Tickets(cast1, here1) >= -1)'
BY DEF Meets, Awaits

LEMMA MeetsKept ==
  ASSUME NEW cast, NEW here, Meets(cast, here), NEW cast1, NEW here1, cast1["p7pid"] = cast["p7pid"],
         SameSync, pc'[first] = pc[first],
         \A i \in {14, 18, 19} : pc'[cast["p7pid"]] >= i <=> pc[cast["p7pid"]] >= i,
         pc[cast["p7pid"]] \in Nat, pc'[cast["p7pid"]] \in Nat,
         Tickets(cast1, here1)' = Tickets(cast, here),
         \A x \in here : x \in here1 /\ cast1[x] = cast[x],
         \A x \in here1 \cap Child : pc'[cast1[x]] >= 5 => x \in here /\ pc[cast[x]] >= 5,
         \A x \in here1 \cap Leaf : pc'[cast1[x]] >= 4 => x \in here /\ pc[cast[x]] >= 4
  PROVE  Meets(cast1, here1)'
<1>1. \A k \in Sync : value'[k] = value[k] /\ waiting'[k] = waiting[k]
  BY DEF SameSync
<1>2. Awaits("endp7", Debt(pc[cast1["p7pid"]] >= 18) - Debt(pc[first] >= 6), first)'
  BY <1>1, EndKept, SyncKeys
<1>3. Awaits("blkp7", 0 - Debt(pc[cast1["p7pid"]] >= 19), cast1["p7pid"])'
  BY <1>1, BlkKept, SyncKeys
<1>4. Awaits("endcreate", Tickets(cast1, here1), cast1["p7pid"])' /\ (Tickets(cast1, here1) >= -1)'
  BY <1>1, CreateKept, SyncKeys
<1>5. Parks(cast1, here1, Child, 5, "blkp7child")'
  BY <1>1, ParksKept, SyncKeys DEF Meets
<1>6. CASE pc[cast["p7pid"]] <= 13
  <2>1. Parks(cast1, here1, Leaf, 4, "blkleaves")'
    BY <1>1, <1>6, ParksKept, SyncKeys DEF Meets
  <2> QED
    BY <1>2, <1>3, <1>4, <1>5, <1>6, <2>1 DEF Meets
<1>7. CASE pc[cast["p7pid"]] > 13
  <2>1. waiting'["blkleaves"] = {} /\ ~(pc'[cast1["p7pid"]] <= 13)
    BY <1>1, <1>7, SyncKeys DEF Meets
  <2> QED
    BY <1>2, <1>3, <1>4, <1>5, <2>1 DEF Meets
<1> QED
  BY <1>6, <1>7

LEMMA GrowsKept ==
  ASSUME NEW cast, NEW here, Family(cast, here), Grows(cast, here), NEW x \in here, Goes(cast, here, x),
         \/ x \in Leaf /\ pc[cast[x]] <= 3
         \/ x \in Child /\ pc[cast[x]] \in {1, 4}
  PROVE  Grows(cast, here)'
<1>1. "p7pid" \in here /\ "p7pid" \notin Child /\ "p7pid" \notin Leaf /\ Child \cap Leaf = {}
      /\ Child = {"child1", "child2"}
  BY DEF Family, Child, Leaf
<1>2. pc'[cast["p7pid"]] = pc[cast["p7pid"]]
  BY <1>1 DEF Goes
<1>3. /\ \A y \in here \cap Child : pc'[cast[y]] \in 1 .. 5
      /\ \A y \in here \cap Leaf : pc'[cast[y]] \in 1 .. 4
  <2>1. /\ \A y \in here \cap Child : pc[cast[y]] \in 1 .. 5
        /\ \A y \in here \cap Leaf : pc[cast[y]] \in 1 .. 4
    BY DEF Grows
  <2> QED
    BY <1>1, <2>1 DEF Goes
<1>4. \A y \in here \cap Child : /\ pc'[cast[y]] >= 3 <=> pc[cast[y]] >= 3
                                 /\ pc'[cast[y]] >= 4 <=> pc[cast[y]] >= 4
  BY <1>1 DEF Goes, Grows
<1> QED
  BY <1>1, <1>2, <1>3, <1>4 DEF Grows

LEMMA ShrinksKept ==
  ASSUME NEW cast, NEW here, Family(cast, here), Shrinks(cast, here), NEW x \in here, Goes(cast, here, x),
         \/ x \in Leaf /\ pc[cast[x]] <= 3
         \/ x \in Child /\ pc[cast[x]] = 4
  PROVE  Shrinks(cast, here)'
<1>1. "p7pid" \in here /\ "p7pid" \notin Child /\ "p7pid" \notin Leaf /\ Child \cap Leaf = {}
  BY DEF Family, Child, Leaf
<1>2. pc'[cast["p7pid"]] = pc[cast["p7pid"]]
  BY <1>1 DEF Goes
<1>3. /\ \A y \in here \cap Child : pc'[cast[y]] \in 4 .. 5
      /\ \A y \in here \cap Leaf : pc'[cast[y]] \in 3 .. 4
  <2>1. /\ \A y \in here \cap Child : pc[cast[y]] \in 4 .. 5
        /\ \A y \in here \cap Leaf : pc[cast[y]] \in 3 .. 4
    BY DEF Shrinks
  <2> QED
    BY <1>1, <2>1 DEF Goes
<1> QED
  BY <1>2, <1>3 DEF Shrinks

LEMMA StepLeaf ==
  ASSUME Common, Tails, At1("p7loop", 5, 6),
         NEW cast \in [Role -> Process], NEW here \in SUBSET Role, Plays(cast, here),
         NEW x \in here \cap Leaf, Acts(cast[x])
  PROVE  Common' /\ Tails' /\ Stage'
<1> DEFINE p == cast[x]
           root == cast["p7pid"]
<1>a. /\ Types /\ p \in alive /\ p \in Crew /\ p # first /\ \A k \in Key : p \notin waiting[k]
      /\ waiting \in [Key -> SUBSET alive] /\ value \in [Key -> Int]
      /\ program[p] = Part(x) /\ pc[p] \in Nat /\ \A i : ~TailPlace(program[p], i)
      /\ \A y \in here \ {x} : cast[y] # cast[x]
  <2>1. Family(cast, here)
    BY DEF Plays
  <2>2. /\ p \in alive /\ p \in Crew /\ p # first /\ program[p] = Part(x) /\ pc[p] \in Nat
        /\ \A i : ~TailPlace(program[p], i)
        /\ \A y \in here \ {x} : cast[y] # cast[x]
    BY <2>1, PlayerFact
  <2>3. \A k \in Key : p \notin waiting[k]
    BY DEF Acts, Step, Ready
  <2> QED
    BY <2>2, <2>3 DEF Common, Types
<1>b. /\ Family(cast, here) /\ Meets(cast, here) /\ Stage
      /\ Grows(cast, here) \/ Shrinks(cast, here)
  BY DEF Plays, Stage, StageF
<1>c. "p7pid" \in here /\ x # "p7pid" /\ x \notin Child
  BY <1>b DEF Family, Leaf, Child
<1>d. pc[root] \in 1 .. 19 /\ pc[p] \in 1 .. 4 /\ pc[root] <= 13
  <2>1. CASE Grows(cast, here)
    BY <2>1 DEF Grows
  <2>2. CASE Shrinks(cast, here)
    BY <2>2 DEF Shrinks, Leaf
  <2> QED
    BY <1>b, <2>1, <2>2
<1>k. /\ "endcreate" \in Sync /\ "blkleaves" \in Sync /\ Sync \subseteq Key
  BY KeyFact, SyncKeys
<1>g. ASSUME Moves(p), memory' = memory
      PROVE  /\ Goes(cast, here, x) /\ pc'[root] = pc[root] /\ pc'[p] = pc[p] + 1
             /\ At1("p7loop", 5, 6)' /\ pc'[first] = pc[first]
             /\ \A y \in here \ {x} : pc'[cast[y]] = pc[cast[y]]
  <2>1. Goes(cast, here, x)
    BY <1>b, <1>g, PlayerGoes
  <2> QED
    BY <1>c, <2>1 DEF Goes, At1
<1>1. CASE pc[p] = 1
  <2>1. Text[program[p]][pc[p]] = <<"print">>
    BY <1>a, <1>1, PartText
  <2>2. Common' /\ Tails' /\ (Stage' \/ (Moves(p) /\ SameSync /\ memory' = memory))
    BY <1>a, <1>b, <2>1, MemberPrints
  <2>3. ASSUME Moves(p), SameSync, memory' = memory
        PROVE  StageF'
    <3>1. Grows(cast, here)'
      <4>1. Grows(cast, here)
        BY <1>b, <1>1 DEF Shrinks
      <4> QED
        BY <1>b, <1>g, <1>1, <2>3, <4>1, GrowsKept
    <3>2. Announced(cast, here)' = Announced(cast, here)
      BY <1>1, <1>g, <2>3, AnnouncedKept
    <3>3. Tickets(cast, here)' = Tickets(cast, here)
      BY <1>g, <2>3, <3>2 DEF Tickets
    <3>4. \A y \in here \cap Leaf : pc'[cast[y]] >= 4 => pc[cast[y]] >= 4
      BY <1>1, <1>g, <2>3
    <3>5. \A y \in here \cap Child : pc'[cast[y]] >= 5 => pc[cast[y]] >= 5
      BY <1>c, <1>g, <2>3
    <3>6. Meets(cast, here)'
      BY <1>b, <1>d, <1>g, <2>3, <3>3, <3>4, <3>5, MeetsKept
    <3> QED
      BY <1>g, <2>3, <3>1, <3>6 DEF StageF, Plays, Goes
  <2> QED
    BY <2>2, <2>3 DEF Stage
<1>2. CASE pc[p] = 2
  <2>1. Text[program[p]][pc[p]] = <<"V", "endcreate">>
    BY <1>a, <1>2, PartText
  <2>2. /\ Common' /\ Passes(p) /\ memory' = memory
        /\ value' = [value EXCEPT !["endcreate"] = @ + 1]
        /\ \/ waiting["endcreate"] = {} /\ waiting' = waiting
           \/ \E q \in waiting["endcreate"] : waiting' = [waiting EXCEPT !["endcreate"] = @ \ {q}]
    BY <1>a, <1>k, <2>1, VPlace
  <2>3. Moves(p) /\ Tails'
    BY <1>a, <2>2, MemberPasses
  <2>4. Grows(cast, here)
    BY <1>b, <1>2 DEF Shrinks
  <2>5. Grows(cast, here)'
    BY <1>b, <1>g, <1>2, <2>2, <2>3, <2>4, GrowsKept
  <2>6. \A k \in Sync \ {"endcreate"} : value'[k] = value[k] /\ waiting'[k] = waiting[k]
    BY <1>a, <1>k, <2>2
  <2>7. Announced(cast, here)' = Announced(cast, here) + 1
    BY <1>2, <1>g, <2>2, <2>3, AnnouncedMore
  <2>8. Tickets(cast, here)' = Tickets(cast, here) + 1 /\ Tickets(cast, here) \in Int
    <3>1. pc[root] <= 8
      BY <2>4 DEF Grows
    <3> QED
      BY <1>d, <1>g, <2>2, <2>3, <2>7, <3>1, AnnouncedFact DEF Tickets
  <2>9. Awaits("endcreate", Tickets(cast, here), root)' /\ (Tickets(cast, here) >= -1)'
    <3>1. /\ value["endcreate"] = Tickets(cast, here) /\ Tickets(cast, here) >= -1
          /\ waiting["endcreate"] = IF Tickets(cast, here) < 0 THEN {root} ELSE {}
      BY <1>b DEF Meets, Awaits
    <3>2. value'["endcreate"] = Tickets(cast, here) + 1 /\ waiting'["endcreate"] = {}
      BY <1>a, <1>k, <2>2, <3>1
    <3>3. ~(Tickets(cast, here) + 1 < 0)
      BY <2>8, <3>1
    <3> QED
      BY <2>8, <3>2, <3>3 DEF Awaits
  <2>10. Awaits("endp7", Debt(pc[root] >= 18) - Debt(pc[first] >= 6), first)'
    BY <1>b, <1>g, <2>2, <2>3, <2>6, EndKept, SyncKeys
  <2>11. Awaits("blkp7", 0 - Debt(pc[root] >= 19), root)'
    BY <1>b, <1>g, <2>2, <2>3, <2>6, BlkKept, SyncKeys
  <2>12. Parks(cast, here, Child, 5, "blkp7child")'
    <3>1. \A y \in here \cap Child : pc'[cast[y]] >= 5 => pc[cast[y]] >= 5
      BY <1>c, <1>g, <2>2, <2>3
    <3> QED
      BY <1>b, <2>6, <3>1, ParksKept, SyncKeys DEF Meets
  <2>13. Parks(cast, here, Leaf, 4, "blkleaves")'
    <3>1. \A y \in here \cap Leaf : pc'[cast[y]] >= 4 => pc[cast[y]] >= 4
      BY <1>2, <1>g, <2>2, <2>3
    <3> QED
      BY <1>b, <1>d, <2>6, <3>1, ParksKept, SyncKeys DEF Meets
  <2>14. Meets(cast, here)'
    BY <1>d, <1>g, <2>2, <2>3, <2>9, <2>10, <2>11, <2>12, <2>13 DEF Meets
  <2>15. StageF'
    BY <1>g, <2>2, <2>3, <2>5, <2>14 DEF StageF, Plays, Goes
  <2> QED
    BY <2>2, <2>3, <2>15 DEF Stage
<1>3. CASE pc[p] = 3
  <2>1. Text[program[p]][pc[p]] = <<"P", "blkleaves">>
    BY <1>a, <1>3, PartText
  <2>2. /\ Common' /\ Passes(p) /\ memory' = memory
        /\ value' = [value EXCEPT !["blkleaves"] = @ - 1]
        /\ waiting' = IF value["blkleaves"] > 0 THEN waiting
                      ELSE [waiting EXCEPT !["blkleaves"] = @ \cup {p}]
    BY <1>a, <1>k, <2>1, PPlace
  <2>3. Moves(p) /\ Tails'
    BY <1>a, <2>2, MemberPasses
  <2>4. Grows(cast, here)' \/ Shrinks(cast, here)'
    BY <1>b, <1>g, <1>3, <2>2, <2>3, GrowsKept, ShrinksKept
  <2>5. \A k \in Sync \ {"blkleaves"} : value'[k] = value[k] /\ waiting'[k] = waiting[k]
    BY <1>a, <1>k, <2>2
  <2>6. Announced(cast, here)' = Announced(cast, here)
    BY <1>3, <1>g, <2>2, <2>3, AnnouncedKept
  <2>7. Tickets(cast, here)' = Tickets(cast, here)
    BY <1>g, <2>2, <2>3, <2>6 DEF Tickets
  <2>8. Awaits("endcreate", Tickets(cast, here), root)' /\ (Tickets(cast, here) >= -1)'
    BY <1>b, <2>5, <2>7, CreateKept, SyncKeys
  <2>9. Awaits("endp7", Debt(pc[root] >= 18) - Debt(pc[first] >= 6), first)'
    BY <1>b, <1>g, <2>2, <2>3, <2>5, EndKept, SyncKeys
  <2>10. Awaits("blkp7", 0 - Debt(pc[root] >= 19), root)'
    BY <1>b, <1>g, <2>2, <2>3, <2>5, BlkKept, SyncKeys
  <2>11. Parks(cast, here, Child, 5, "blkp7child")'
    <3>1. \A y \in here \cap Child : pc'[cast[y]] >= 5 => pc[cast[y]] >= 5
      BY <1>c, <1>g, <2>2, <2>3
    <3> QED
      BY <1>b, <2>5, <3>1, ParksKept, SyncKeys DEF Meets
  <2>12. Parks(cast, here, Leaf, 4, "blkleaves")'
    <3>1. Parks(cast, here, Leaf, 4, "blkleaves")
      BY <1>b, <1>d DEF Meets
    <3> QED
      BY <1>a, <1>g, <1>k, <2>2, <2>3, <3>1, ParksMore
  <2>13. Meets(cast, here)'
    BY <1>d, <1>g, <2>2, <2>3, <2>8, <2>9, <2>10, <2>11, <2>12 DEF Meets
  <2>14. StageF'
    BY <1>g, <2>2, <2>3, <2>4, <2>13 DEF StageF, Plays, Goes
  <2> QED
    BY <2>2, <2>3, <2>14 DEF Stage
<1>4. CASE pc[p] = 4
  <2>1. Parks(cast, here, Leaf, 4, "blkleaves")
    BY <1>b, <1>d DEF Meets
  <2>2. p \in waiting["blkleaves"]
    BY <1>4, <2>1 DEF Parks, Reached
  <2> QED
    BY <1>a, <1>k, <2>2
<1> QED
  BY <1>d, <1>1, <1>2, <1>3, <1>4

LEMMA GrowsMore ==
  ASSUME NEW cast, NEW here, Family(cast, here), Grows(cast, here), NEW x \in here \cap Child, NEW y,
         \/ x = "child1" /\ (\/ y = "leaf1pid" /\ pc[cast[x]] = 2
                             \/ y = "leaf2pid" /\ pc[cast[x]] = 3)
         \/ x = "child2" /\ (\/ y = "leaf3pid" /\ pc[cast[x]] = 2
                             \/ y = "leaf4pid" /\ pc[cast[x]] = 3),
         NEW cast1, \A z \in here : cast1[z] = cast[z], pc'[cast1[y]] = 1,
         pc'[cast[x]] = pc[cast[x]] + 1, \A z \in here \ {x} : pc'[cast[z]] = pc[cast[z]]
  PROVE  Grows(cast1, here \cup {y})'
<1>1. "p7pid" \in here /\ "p7pid" \notin Child /\ Child \cap Leaf = {} /\ y \in Leaf
      /\ Child = {"child1", "child2"} /\ x \in here
  BY DEF Family, Child, Leaf
<1>2. pc'[cast1["p7pid"]] = pc[cast["p7pid"]]
  BY <1>1
<1>3. \A z \in here \cap Child : pc'[cast1[z]] \in 1 .. 5
  BY <1>1 DEF Grows
<1>4. \A z \in here \cap Leaf : pc'[cast1[z]] \in 1 .. 4
  BY <1>1 DEF Grows
<1>5. \A z \in (here \cup {y}) \cap Child : z \in here /\ pc'[cast1[z]] \in 1 .. 5
  BY <1>1, <1>3
<1>6. \A z \in (here \cup {y}) \cap Leaf : pc'[cast1[z]] \in 1 .. 4
  BY <1>4
<1>7. \A z \in here \cap Child : pc'[cast1[z]] = IF z = x THEN pc[cast[z]] + 1 ELSE pc[cast[z]]
  BY <1>1
<1>8. CASE x = "child1"
  BY <1>1, <1>2, <1>5, <1>6, <1>7, <1>8 DEF Grows
<1>9. CASE x = "child2"
  BY <1>1, <1>2, <1>5, <1>6, <1>7, <1>9 DEF Grows
<1> QED
  BY <1>8, <1>9

LEMMA StepChild ==
  ASSUME Common, Tails, At1("p7loop", 5, 6),
         NEW cast \in [Role -> Process], NEW here \in SUBSET Role, Plays(cast, here),
         NEW x \in here \cap Child, Acts(cast[x])
  PROVE  Common' /\ Tails' /\ Stage'
<1> DEFINE p == cast[x]
           root == cast["p7pid"]
<1>a. /\ Types /\ p \in alive /\ p \in Crew /\ p # first /\ \A k \in Key : p \notin waiting[k]
      /\ waiting \in [Key -> SUBSET alive] /\ value \in [Key -> Int]
      /\ program[p] = Part(x) /\ pc[p] \in Nat /\ \A i : ~TailPlace(program[p], i)
      /\ \A y \in here \ {x} : cast[y] # cast[x]
  <2>1. Family(cast, here)
    BY DEF Plays
  <2>2. /\ p \in alive /\ p \in Crew /\ p # first /\ program[p] = Part(x) /\ pc[p] \in Nat
        /\ \A i : ~TailPlace(program[p], i)
        /\ \A y \in here \ {x} : cast[y] # cast[x]
    BY <2>1, PlayerFact
  <2>3. \A k \in Key : p \notin waiting[k]
    BY DEF Acts, Step, Ready
  <2> QED
    BY <2>2, <2>3 DEF Common, Types
<1>b. /\ Family(cast, here) /\ Meets(cast, here) /\ Stage
      /\ Grows(cast, here) \/ Shrinks(cast, here)
  BY DEF Plays, Stage, StageF
<1>c. "p7pid" \in here /\ x # "p7pid" /\ x \notin Leaf
  BY <1>b DEF Family, Leaf, Child
<1>d. pc[root] \in 1 .. 19 /\ pc[p] \in 1 .. 5 /\ (pc[p] <= 3 => Grows(cast, here))
  <2>1. CASE Grows(cast, here)
    BY <2>1 DEF Grows
  <2>2. CASE Shrinks(cast, here)
    BY <2>2 DEF Shrinks
  <2> QED
    BY <1>b, <2>1, <2>2
<1>k. "blkp7child" \in Sync /\ Sync \subseteq Key
  BY KeyFact, SyncKeys
<1>g. ASSUME Moves(p), memory' = memory
      PROVE  /\ Goes(cast, here, x) /\ pc'[root] = pc[root] /\ pc'[p] = pc[p] + 1
             /\ At1("p7loop", 5, 6)' /\ pc'[first] = pc[first]
             /\ \A y \in here \ {x} : pc'[cast[y]] = pc[cast[y]]
             /\ Tickets(cast, here)' = Tickets(cast, here)
             /\ \A y \in here \cap Leaf : pc'[cast[y]] >= 4 => pc[cast[y]] >= 4
  <2>1. Goes(cast, here, x)
    BY <1>b, <1>g, PlayerGoes
  <2>2. \A y \in here \ {x} : pc'[cast[y]] = pc[cast[y]]
    BY <2>1 DEF Goes
  <2>3. Announced(cast, here)' = Announced(cast, here)
    BY <1>c, <2>2, AnnouncedKept
  <2>4. Tickets(cast, here)' = Tickets(cast, here)
    BY <1>c, <2>2, <2>3 DEF Tickets
  <2> QED
    BY <1>c, <2>1, <2>4 DEF Goes, At1
<1>1. CASE pc[p] = 1
  <2>1. Text[program[p]][pc[p]] = <<"print">>
    BY <1>a, <1>1, PartText
  <2>2. Common' /\ Tails' /\ (Stage' \/ (Moves(p) /\ SameSync /\ memory' = memory))
    BY <1>a, <1>b, <2>1, MemberPrints
  <2>3. ASSUME Moves(p), SameSync, memory' = memory
        PROVE  StageF'
    <3>1. Grows(cast, here)'
      BY <1>b, <1>d, <1>g, <1>1, <2>3, GrowsKept
    <3>2. \A y \in here \cap Child : pc'[cast[y]] >= 5 => pc[cast[y]] >= 5
      BY <1>1, <1>g, <2>3
    <3>3. Meets(cast, here)'
      BY <1>b, <1>d, <1>g, <2>3, <3>2, MeetsKept
    <3> QED
      BY <1>g, <2>3, <3>1, <3>3 DEF StageF, Plays, Goes
  <2> QED
    BY <2>2, <2>3 DEF Stage
<1>2. ASSUME NEW y \in Leaf, Text[program[p]][pc[p]] = <<"create", "p7leaf", y>>,
             \/ x = "child1" /\ (\/ y = "leaf1pid" /\ pc[p] = 2
                                 \/ y = "leaf2pid" /\ pc[p] = 3)
             \/ x = "child2" /\ (\/ y = "leaf3pid" /\ pc[p] = 2
                                 \/ y = "leaf4pid" /\ pc[p] = 3)
      PROVE  Common' /\ Tails' /\ Stage'
  <2>1. Part(y) = "p7leaf" /\ "p7leaf" \in DOMAIN Text /\ y \in Role /\ y \notin Child /\ y # "p7pid"
    BY PartText DEF Part, Leaf, Child, Role
  <2>2. Grows(cast, here) /\ y \notin here
    BY <1>d, <1>2 DEF Grows
  <2>3. PICK new : Joins(p, new, "p7leaf", y)
    BY <1>a, <1>2, <2>1, MemberCreates
  <2>4. Common' /\ Tails'
    BY <1>a, <1>2, <2>1, MemberCreates
  <2>q. PICK cast1, here1 : Casts(cast, here, y, new, cast1, here1)
    BY DEF Casts
  <2>p. cast1 = [cast EXCEPT ![y] = new] /\ here1 = here \cup {y}
    BY <2>q DEF Casts
  <2>5. /\ cast1 \in [Role -> Process] /\ here1 \in SUBSET Role
        /\ \A z \in here : cast1[z] = cast[z]
        /\ cast1[y] = new /\ pc'[new] = 1
        /\ pc'[cast[x]] = pc[cast[x]] + 1
        /\ \A z \in here \ {x} : pc'[cast[z]] = pc[cast[z]]
        /\ program'[first] = program[first] /\ pc'[first] = pc[first]
        /\ UNCHANGED <<value, waiting>>
        /\ Family(cast1, here1)'
    <3>1. /\ x \in here \ Leaf /\ y \in Role \ here /\ "p7leaf" = Part(y)
          /\ Family(cast, here) /\ Joins(cast[x], new, "p7leaf", y)
          /\ (y \in Child => y = "nowhere")
      BY <1>b, <1>c, <2>1, <2>2, <2>3
    <3> QED
      BY <2>q, <3>1, PlayerJoins
  <2>6. Grows(cast1, here1)'
    <3>1. Grows(cast1, here \cup {y})'
      BY <1>b, <1>2, <2>2, <2>5, GrowsMore
    <3> QED
      BY <2>p, <3>1
  <2>7. cast1["p7pid"] = root /\ pc'[root] = pc[root]
    BY <1>c, <2>5
  <2>8. Announced(cast1, here1)' = Announced(cast, here)
    <3>1. \A z \in Leaf : (z \in here /\ pc[cast[z]] >= 3) <=> (z \in here1 /\ pc'[cast1[z]] >= 3)
      BY <1>c, <2>p, <2>2, <2>5
    <3> QED
      BY <3>1, AnnouncedKept
  <2>9. Tickets(cast1, here1)' = Tickets(cast, here)
    BY <2>7, <2>8 DEF Tickets
  <2>10. \A z \in here1 \cap Leaf : pc'[cast1[z]] >= 4 => z \in here /\ pc[cast[z]] >= 4
    BY <1>c, <2>p, <2>5
  <2>11. \A z \in here1 \cap Child : pc'[cast1[z]] >= 5 => z \in here /\ pc[cast[z]] >= 5
    BY <1>2, <2>p, <2>1, <2>5
  <2>12. Meets(cast1, here1)'
    <3>1. \A z \in here : z \in here1 /\ cast1[z] = cast[z]
      BY <2>p, <2>5
    <3> QED
      BY <1>b, <1>d, <2>5, <2>7, <2>9, <2>10, <2>11, <3>1, MeetsKept DEF SameSync
  <2>13. StageF'
    BY <2>5, <2>6, <2>12 DEF StageF, Plays, At1
  <2> QED
    BY <2>4, <2>13 DEF Stage
<1>3. CASE pc[p] \in 2 .. 3
  <2>1. CASE x = "child1" /\ pc[p] = 2
    BY <1>a, <1>2, <2>1, PartText DEF Leaf
  <2>2. CASE x = "child1" /\ pc[p] = 3
    BY <1>a, <1>2, <2>2, PartText DEF Leaf
  <2>3. CASE x = "child2" /\ pc[p] = 2
    BY <1>a, <1>2, <2>3, PartText DEF Leaf
  <2>4. CASE x = "child2" /\ pc[p] = 3
    BY <1>a, <1>2, <2>4, PartText DEF Leaf
  <2>5. x \in {"child1", "child2"} /\ pc[p] \in {2, 3}
    BY <1>3 DEF Child
  <2> QED
    BY <2>1, <2>2, <2>3, <2>4, <2>5
<1>4. CASE pc[p] = 4
  <2>1. Text[program[p]][pc[p]] = <<"P", "blkp7child">>
    BY <1>a, <1>4, PartText
  <2>2. /\ Common' /\ Passes(p) /\ memory' = memory
        /\ value' = [value EXCEPT !["blkp7child"] = @ - 1]
        /\ waiting' = IF value["blkp7child"] > 0 THEN waiting
                      ELSE [waiting EXCEPT !["blkp7child"] = @ \cup {p}]
    BY <1>a, <1>k, <2>1, PPlace
  <2>3. Moves(p) /\ Tails'
    BY <1>a, <2>2, MemberPasses
  <2>4. Grows(cast, here)' \/ Shrinks(cast, here)'
    BY <1>b, <1>g, <1>4, <2>2, <2>3, GrowsKept, ShrinksKept
  <2>5. \A k \in Sync \ {"blkp7child"} : value'[k] = value[k] /\ waiting'[k] = waiting[k]
    BY <1>a, <1>k, <2>2
  <2>6. Awaits("endcreate", Tickets(cast, here), root)' /\ (Tickets(cast, here) >= -1)'
    BY <1>b, <1>g, <2>2, <2>3, <2>5, CreateKept, SyncKeys
  <2>7. Awaits("endp7", Debt(pc[root] >= 18) - Debt(pc[first] >= 6), first)'
    BY <1>b, <1>g, <2>2, <2>3, <2>5, EndKept, SyncKeys
  <2>8. Awaits("blkp7", 0 - Debt(pc[root] >= 19), root)'
    BY <1>b, <1>g, <2>2, <2>3, <2>5, BlkKept, SyncKeys
  <2>9. Parks(cast, here, Child, 5, "blkp7child")'
    <3>1. Parks(cast, here, Child, 5, "blkp7child")
      BY <1>b DEF Meets
    <3> QED
      BY <1>a, <1>g, <1>k, <2>2, <2>3, <3>1, ParksMore
  <2>10. IF pc'[root] <= 13 THEN Parks(cast, here, Leaf, 4, "blkleaves")' ELSE waiting'["blkleaves"] = {}
    BY <1>b, <1>g, <2>2, <2>3, <2>5, ParksKept, SyncKeys DEF Meets
  <2>11. Meets(cast, here)'
    BY <2>6, <2>7, <2>8, <2>9, <2>10 DEF Meets
  <2>12. StageF'
    BY <1>g, <2>2, <2>3, <2>4, <2>11 DEF StageF, Plays, Goes
  <2> QED
    BY <2>2, <2>3, <2>12 DEF Stage
<1>5. CASE pc[p] = 5
  <2>1. Parks(cast, here, Child, 5, "blkp7child")
    BY <1>b DEF Meets
  <2>2. p \in waiting["blkp7child"]
    BY <1>5, <2>1 DEF Parks, Reached
  <2> QED
    BY <1>a, <1>k, <2>2
<1> QED
  BY <1>d, <1>1, <1>3, <1>4, <1>5

LEMMA RootFact ==
  ASSUME Common, At1("p7loop", 5, 6), NEW cast \in [Role -> Process], NEW here \in SUBSET Role,
         Plays(cast, here), Acts(cast["p7pid"])
  PROVE  /\ Types /\ cast["p7pid"] \in alive /\ cast["p7pid"] \in Crew /\ cast["p7pid"] # first
         /\ cast["p7pid"] \in Process
         /\ \A k \in Key : cast["p7pid"] \notin waiting[k]
         /\ waiting \in [Key -> SUBSET alive] /\ value \in [Key -> Int]
         /\ program[cast["p7pid"]] = "p7root" /\ \A i : ~TailPlace("p7root", i)
         /\ pc[cast["p7pid"]] \in 1 .. 19
         /\ \A y \in here \ {"p7pid"} : cast[y] # cast["p7pid"]
         /\ "p7pid" \in here /\ "p7pid" \notin Child /\ "p7pid" \notin Leaf /\ "p7pid" \in Role
         /\ Text["p7root"] = p7root
         /\ Family(cast, here) /\ Meets(cast, here) /\ Stage
         /\ Grows(cast, here) \/ Shrinks(cast, here)
         /\ Grows(cast, here) <=> pc[cast["p7pid"]] <= 8
         /\ Tickets(cast, here) \in Int
<1>1. /\ Family(cast, here) /\ Meets(cast, here) /\ Stage
      /\ Grows(cast, here) \/ Shrinks(cast, here)
  BY DEF Plays, Stage, StageF
<1>2. "p7pid" \in here /\ "p7pid" \notin Child /\ "p7pid" \notin Leaf /\ "p7pid" \in Role
  BY <1>1 DEF Family, Child, Leaf
<1>3. Part("p7pid") = "p7root"
  BY DEF Part
<1>4. /\ cast["p7pid"] \in alive /\ cast["p7pid"] \in Crew /\ cast["p7pid"] # first
      /\ program[cast["p7pid"]] = "p7root" /\ \A i : ~TailPlace("p7root", i)
      /\ \A y \in here \ {"p7pid"} : cast[y] # cast["p7pid"]
  BY <1>1, <1>2, <1>3, PlayerFact
<1>5. pc[cast["p7pid"]] \in 1 .. 19 /\ (Grows(cast, here) <=> pc[cast["p7pid"]] <= 8)
  <2>1. Grows(cast, here) => pc[cast["p7pid"]] \in 1 .. 8
    BY DEF Grows
  <2>2. Shrinks(cast, here) => pc[cast["p7pid"]] \in 9 .. 19
    BY DEF Shrinks
  <2> QED
    BY <1>1, <2>1, <2>2
<1>6. Tickets(cast, here) \in Int
  BY <1>5, AnnouncedFact DEF Tickets
<1>7. \A k \in Key : cast["p7pid"] \notin waiting[k]
  BY DEF Acts, Step, Ready
<1>8. Types /\ waiting \in [Key -> SUBSET alive] /\ value \in [Key -> Int]
  BY DEF Common, Types
<1> QED
  BY <1>1, <1>2, <1>4, <1>5, <1>6, <1>7, <1>8, PartText

(* p7root goes on to its next instruction.                                  *)
LEMMA RootGoes ==
  ASSUME Common, At1("p7loop", 5, 6), NEW cast \in [Role -> Process], NEW here \in SUBSET Role,
         Plays(cast, here), Acts(cast["p7pid"]), Moves(cast["p7pid"]), memory' = memory
  PROVE  /\ Family(cast, here)' /\ pc'[cast["p7pid"]] = pc[cast["p7pid"]] + 1
         /\ At1("p7loop", 5, 6)' /\ pc'[first] = pc[first]
         /\ \A y \in here \ {"p7pid"} : pc'[cast[y]] = pc[cast[y]]
         /\ \A y \in here \cap Leaf : pc'[cast[y]] = pc[cast[y]]
         /\ \A y \in here \cap Child : pc'[cast[y]] = pc[cast[y]]
         /\ Announced(cast, here)' = Announced(cast, here)
         /\ pc[cast["p7pid"]] \in {1, 4, 5, 6, 7} => Grows(cast, here)'
         /\ pc[cast["p7pid"]] \in 13 .. 18 => Shrinks(cast, here)'
<1>1. "p7pid" \in here /\ "p7pid" \notin Child /\ "p7pid" \notin Leaf /\ Family(cast, here)
      /\ (Grows(cast, here) <=> pc[cast["p7pid"]] <= 8) /\ (Grows(cast, here) \/ Shrinks(cast, here))
  BY RootFact
<1>2. Goes(cast, here, "p7pid")
  BY <1>1, PlayerGoes
<1>3. /\ \A y \in here \cap Leaf : pc'[cast[y]] = pc[cast[y]]
      /\ \A y \in here \cap Child : pc'[cast[y]] = pc[cast[y]]
      /\ pc'[cast["p7pid"]] = pc[cast["p7pid"]] + 1
  BY <1>1, <1>2 DEF Goes
<1>4. Announced(cast, here)' = Announced(cast, here)
  BY <1>3, AnnouncedKept
<1>5. pc[cast["p7pid"]] \in {1, 4, 5, 6, 7} => Grows(cast, here)'
  BY <1>1, <1>3 DEF Grows, Child, Leaf
<1>6. pc[cast["p7pid"]] \in 13 .. 18 => Shrinks(cast, here)'
  BY <1>1, <1>3 DEF Shrinks
<1> QED
  BY <1>2, <1>3, <1>4, <1>5, <1>6 DEF Goes, At1

LEMMA RootPrints ==
  ASSUME Common, Tails, At1("p7loop", 5, 6),
         NEW cast \in [Role -> Process], NEW here \in SUBSET Role, Plays(cast, here),
         Acts(cast["p7pid"]), pc[cast["p7pid"]] \in {1, 8}
  PROVE  Common' /\ Tails' /\ Stage'
<1> DEFINE root == cast["p7pid"]
<1>a. /\ Types /\ root \in alive /\ root \in Crew /\ \A k \in Key : root \notin waiting[k]
      /\ program[root] = "p7root" /\ \A i : ~TailPlace("p7root", i)
      /\ Text["p7root"] = p7root /\ Stage
      /\ Family(cast, here) /\ Meets(cast, here) /\ Grows(cast, here)
  BY RootFact
<1>b. pc[root] = 8 => Announced(cast, here) = 4
  <2>1. SUFFICES ASSUME pc[root] = 8
                 PROVE  Announced(cast, here) = 4
    OBVIOUS
  <2>2. "endcreate" \in Key
    BY KeyFact, SyncKeys
  <2>3. ~(Tickets(cast, here) < 0)
    BY <1>a, <2>2 DEF Meets, Awaits
  <2>4. Tickets(cast, here) = Announced(cast, here) - 4
    BY <2>1 DEF Tickets
  <2> QED
    BY <2>3, <2>4, AnnouncedFact
<1>1. Text[program[root]][pc[root]] = <<"print">>
  BY <1>a, RootText
<1>2. Common' /\ Tails' /\ (Stage' \/ (Moves(root) /\ SameSync /\ memory' = memory))
  BY <1>a, <1>1, MemberPrints
<1>3. ASSUME Moves(root), SameSync, memory' = memory
      PROVE  StageF'
  <2>1. /\ Family(cast, here)' /\ pc'[root] = pc[root] + 1
        /\ At1("p7loop", 5, 6)' /\ pc'[first] = pc[first]
        /\ \A y \in here \cap Leaf : pc'[cast[y]] = pc[cast[y]]
        /\ \A y \in here \cap Child : pc'[cast[y]] = pc[cast[y]]
        /\ Announced(cast, here)' = Announced(cast, here)
        /\ pc[root] = 1 => Grows(cast, here)'
    BY <1>3, RootGoes
  <2>2. Tickets(cast, here)' = Tickets(cast, here)
    BY <1>b, <2>1 DEF Tickets
  <2>3. Meets(cast, here)'
    BY <1>3, <1>a, <2>1, <2>2, MeetsKept
  <2>4. pc[root] = 8 => Shrinks(cast, here)'
    <3>1. SUFFICES ASSUME pc[root] = 8
                   PROVE  Shrinks(cast, here)'
      OBVIOUS
    <3>2. \A x \in Leaf : x \in here /\ pc[cast[x]] >= 3
      BY <1>b, <3>1, AnnouncedFact
    <3>3. \A x \in here \cap Leaf : pc[cast[x]] \in 3 .. 4
      BY <1>a, <3>2 DEF Grows
    <3>4. Child \subseteq here /\ \A x \in Child : pc[cast[x]] \in 4 .. 5
      BY <1>a, <3>2 DEF Grows, Child, Leaf
    <3>5. pc'[root] = 9
      BY <2>1, <3>1
    <3>6. Leaf \subseteq here
      BY <3>2
    <3> QED
      BY <2>1, <3>3, <3>4, <3>5, <3>6 DEF Shrinks, Leaf
  <2> QED
    BY <2>1, <2>3, <2>4 DEF StageF, Plays
<1> QED
  BY <1>2, <1>3 DEF Stage

LEMMA RootWaits ==
  ASSUME Common, Tails, At1("p7loop", 5, 6),
         NEW cast \in [Role -> Process], NEW here \in SUBSET Role, Plays(cast, here),
         Acts(cast["p7pid"]), pc[cast["p7pid"]] \in 4 .. 7
  PROVE  Common' /\ Tails' /\ Stage'
<1> DEFINE root == cast["p7pid"]
<1>a. /\ Types /\ root \in alive /\ root \in Crew /\ \A k \in Key : root \notin waiting[k]
      /\ waiting \in [Key -> SUBSET alive] /\ value \in [Key -> Int]
      /\ program[root] = "p7root" /\ \A i : ~TailPlace("p7root", i)
      /\ Text["p7root"] = p7root /\ Stage
      /\ Family(cast, here) /\ Meets(cast, here) /\ Grows(cast, here) /\ Tickets(cast, here) \in Int
  BY RootFact
<1>k. "endcreate" \in Key /\ "endcreate" \in Sync
  BY KeyFact, SyncKeys
<1>1. Text[program[root]][pc[root]] = <<"P", "endcreate">>
  BY <1>a, RootText
<1>2. /\ Common' /\ Passes(root) /\ memory' = memory
      /\ value' = [value EXCEPT !["endcreate"] = @ - 1]
      /\ waiting' = IF value["endcreate"] > 0 THEN waiting
                    ELSE [waiting EXCEPT !["endcreate"] = @ \cup {root}]
  BY <1>a, <1>k, <1>1, PPlace
<1>3. Moves(root) /\ Tails'
  BY <1>a, <1>2, MemberPasses
<1>4. /\ Family(cast, here)' /\ pc'[root] = pc[root] + 1
      /\ At1("p7loop", 5, 6)' /\ pc'[first] = pc[first]
      /\ \A y \in here \cap Leaf : pc'[cast[y]] = pc[cast[y]]
      /\ \A y \in here \cap Child : pc'[cast[y]] = pc[cast[y]]
      /\ Announced(cast, here)' = Announced(cast, here)
      /\ Grows(cast, here)'
  BY <1>2, <1>3, RootGoes
<1>5. Tickets(cast, here)' = Tickets(cast, here) - 1
  BY <1>4, AnnouncedFact DEF Tickets
<1>6. Awaits("endcreate", Tickets(cast, here), root)' /\ (Tickets(cast, here) >= -1)'
  <2>1. value["endcreate"] = Tickets(cast, here) /\ ~(Tickets(cast, here) < 0) /\ waiting["endcreate"] = {}
    BY <1>a, <1>k DEF Meets, Awaits
  <2>2. value'["endcreate"] = Tickets(cast, here) - 1
        /\ waiting'["endcreate"] = IF Tickets(cast, here) > 0 THEN {} ELSE {root}
    BY <1>a, <1>k, <1>2, <2>1
  <2>3. Tickets(cast, here) - 1 >= -1 /\ (Tickets(cast, here) - 1 < 0 <=> ~(Tickets(cast, here) > 0))
    BY <1>a, <2>1
  <2> QED
    BY <1>5, <2>2, <2>3 DEF Awaits
<1>7. \A k \in Sync \ {"endcreate"} : value'[k] = value[k] /\ waiting'[k] = waiting[k]
  BY <1>a, <1>2, KeyFact
<1>8. Awaits("endp7", Debt(pc[root] >= 18) - Debt(pc[first] >= 6), first)'
  BY <1>a, <1>4, <1>7, EndKept, SyncKeys
<1>9. Awaits("blkp7", 0 - Debt(pc[root] >= 19), root)'
  BY <1>a, <1>4, <1>7, BlkKept, SyncKeys
<1>10. Parks(cast, here, Child, 5, "blkp7child")'
  BY <1>a, <1>4, <1>7, ParksKept, SyncKeys DEF Meets
<1>11. Parks(cast, here, Leaf, 4, "blkleaves")'
  <2>1. Parks(cast, here, Leaf, 4, "blkleaves")
    BY <1>a DEF Meets
  <2> QED
    BY <1>4, <1>7, <2>1, ParksKept, SyncKeys
<1>12. Meets(cast, here)'
  BY <1>4, <1>6, <1>8, <1>9, <1>10, <1>11 DEF Meets
<1>13. StageF'
  BY <1>4, <1>12 DEF StageF, Plays
<1> QED
  BY <1>2, <1>3, <1>13 DEF Stage

LEMMA RootCreates ==
  ASSUME Common, Tails, At1("p7loop", 5, 6),
         NEW cast \in [Role -> Process], NEW here \in SUBSET Role, Plays(cast, here),
         Acts(cast["p7pid"]), pc[cast["p7pid"]] \in 2 .. 3
  PROVE  Common' /\ Tails' /\ Stage'
<1> DEFINE root == cast["p7pid"]
           y == IF pc[root] = 2 THEN "child1" ELSE "child2"
<1>a. /\ Types /\ root \in alive /\ root \in Crew
      /\ program[root] = "p7root" /\ \A i : ~TailPlace("p7root", i)
      /\ Text["p7root"] = p7root /\ Stage
      /\ Family(cast, here) /\ Meets(cast, here) /\ Grows(cast, here) /\ Tickets(cast, here) \in Int
      /\ "p7pid" \in here /\ "p7pid" \notin Child /\ "p7pid" \notin Leaf
  BY RootFact
<1>1. /\ y \in Child /\ y \in Role /\ y \notin Leaf /\ y \notin here /\ y = Part(y) /\ y \in DOMAIN Text
      /\ y # "p4c" /\ "nowhere" \notin Variable
  BY <1>a, PartText, Nowhere DEF Grows, Child, Leaf, Role, Part
<1>2. Text[program[root]][pc[root]] = <<"create", y, "nowhere">>
  BY <1>a, RootText
<1>3. PICK new : Joins(root, new, y, "nowhere")
  BY <1>a, <1>1, <1>2, MemberCreates
<1>4. Common' /\ Tails'
  BY <1>a, <1>1, <1>2, MemberCreates
<1>5. PICK z : z = y
  OBVIOUS
<1> HIDE DEF y
<1>6. PICK cast1, here1 : Casts(cast, here, z, new, cast1, here1)
  BY DEF Casts
<1>7. cast1 = [cast EXCEPT ![z] = new] /\ here1 = here \cup {z}
  BY <1>6 DEF Casts
<1>8. /\ cast1 \in [Role -> Process] /\ here1 \in SUBSET Role
      /\ \A u \in here : cast1[u] = cast[u]
      /\ cast1[z] = new /\ pc'[new] = 1
      /\ pc'[root] = pc[root] + 1
      /\ \A u \in here \ {"p7pid"} : pc'[cast[u]] = pc[cast[u]]
      /\ program'[first] = program[first] /\ pc'[first] = pc[first]
      /\ UNCHANGED <<value, waiting>>
      /\ Family(cast1, here1)'
  <2>1. /\ "p7pid" \in here \ Leaf /\ z \in Role \ here /\ y = Part(z)
        /\ Family(cast, here) /\ Joins(cast["p7pid"], new, y, "nowhere") /\ z \in Child
    BY <1>a, <1>1, <1>3, <1>5
  <2> QED
    BY <1>6, <2>1, PlayerJoins
<1>9. cast1["p7pid"] = root
  BY <1>a, <1>8
<1>10. Grows(cast1, here1)'
  <2>1. z \in Child /\ z \notin Leaf /\ Child = {"child1", "child2"} /\ z \notin here
    BY <1>1, <1>5 DEF Child
  <2>2. (z = "child1" /\ pc[root] = 2) \/ (z = "child2" /\ pc[root] = 3)
    BY <1>5 DEF y
  <2>3. \A u \in here1 \cap Child : pc'[cast1[u]] \in 1 .. 5
    BY <1>a, <1>7, <1>8 DEF Grows
  <2>4. \A u \in here1 \cap Leaf : pc'[cast1[u]] \in 1 .. 4
    BY <1>a, <1>7, <1>8, <2>1 DEF Grows
  <2>5. \A u \in here \cap Child : pc'[cast1[u]] = pc[cast[u]]
    BY <1>a, <1>8
  <2>6. pc'[cast1[z]] = 1 /\ pc'[cast1["p7pid"]] = pc[root] + 1
    BY <1>8, <1>9
  <2>7. \A u \in Leaf \cup {"p7pid"} : u \in here1 <=> u \in here
    BY <1>a, <1>7, <2>1
  <2>8. Leaf = {"leaf1pid", "leaf2pid", "leaf3pid", "leaf4pid"}
    BY DEF Leaf
  <2>9. CASE z = "child1" /\ pc[root] = 2
    BY <1>a, <1>7, <2>1, <2>3, <2>4, <2>5, <2>6, <2>7, <2>8, <2>9 DEF Grows
  <2>10. CASE z = "child2" /\ pc[root] = 3
    BY <1>a, <1>7, <2>1, <2>3, <2>4, <2>5, <2>6, <2>7, <2>8, <2>10 DEF Grows
  <2> QED
    BY <2>2, <2>9, <2>10
<1>11. \A u \in Leaf : (u \in here /\ pc[cast[u]] >= 3) <=> (u \in here1 /\ pc'[cast1[u]] >= 3)
  BY <1>a, <1>1, <1>5, <1>7, <1>8
<1>12. Announced(cast1, here1)' = Announced(cast, here)
  BY <1>11, AnnouncedKept
<1>13. Tickets(cast1, here1)' = Tickets(cast, here)
  BY <1>8, <1>9, <1>12 DEF Tickets
<1>14. Meets(cast1, here1)'
  <2>1. \A u \in here : u \in here1 /\ cast1[u] = cast[u]
    BY <1>7, <1>8
  <2>2. \A u \in here1 \cap Leaf : pc'[cast1[u]] >= 4 => u \in here /\ pc[cast[u]] >= 4
    BY <1>a, <1>1, <1>5, <1>7, <1>8
  <2>3. \A u \in here1 \cap Child : pc'[cast1[u]] >= 5 => u \in here /\ pc[cast[u]] >= 5
    BY <1>a, <1>5, <1>7, <1>8
  <2>4. SameSync
    BY <1>8 DEF SameSync
  <2> QED
    BY <1>a, <1>8, <1>9, <1>13, <2>1, <2>2, <2>3, <2>4, MeetsKept
<1>15. StageF'
  BY <1>8, <1>10, <1>14 DEF StageF, Plays, At1
<1> QED
  BY <1>4, <1>15 DEF Stage

(* The leaf that p7root kills at place i.                                   *)
Victim(i) == IF i = 9 THEN "leaf1pid" ELSE IF i = 10 THEN "leaf2pid"
             ELSE IF i = 11 THEN "leaf3pid" ELSE "leaf4pid"

LEMMA QuietBlocked ==
  ASSUME Common, NEW q \in alive, NEW k \in Sync, q \in waiting[k]
  PROVE  q \notin Printing
BY DEF Common, PrintInv

(* The kill of a leaf finds the leaf it means, alone and not in print.      *)
LEMMA VictimFact ==
  ASSUME Common, NEW cast \in [Role -> Process], NEW here \in SUBSET Role,
         Plays(cast, here), pc[cast["p7pid"]] \in 9 .. 12,
         NEW y, y = Victim(pc[cast["p7pid"]])
  PROVE  /\ y \in here /\ y \in Leaf /\ y \notin Child /\ y # "p7pid"
         /\ Text[program[cast["p7pid"]]][pc[cast["p7pid"]]] = <<"kill", y>>
         /\ memory[y] = cast[y] /\ cast[y] \in alive /\ cast[y] # first /\ program[cast[y]] = "p7leaf"
         /\ Offspring(cast[y]) = {cast[y]} /\ Offspring(cast[y]) \cap Printing = {}
         /\ Shrinks(cast, here)
<1> DEFINE root == cast["p7pid"]
<1>a. /\ Types /\ program[root] = "p7root" /\ Text["p7root"] = p7root
      /\ Family(cast, here) /\ Meets(cast, here) /\ Shrinks(cast, here)
  <2>1. Family(cast, here) /\ Meets(cast, here) /\ Shrinks(cast, here)
    BY DEF Plays, Grows
  <2>2. "p7pid" \in here /\ Part("p7pid") = "p7root"
    BY <2>1 DEF Family, Part
  <2> QED
    BY <2>1, <2>2, PartText DEF Family, Common
<1>1. y \in here /\ y \in Leaf /\ y \notin Child /\ y # "p7pid"
  BY <1>a DEF Shrinks, Victim, Leaf, Child
<1>2. Text[program[root]][pc[root]] = <<"kill", y>>
  BY <1>a, RootText DEF Victim
<1>3. /\ memory[y] = cast[y] /\ cast[y] \in alive /\ cast[y] # first /\ program[cast[y]] = Part(y)
  BY <1>a, <1>1, PlayerFact
<1>4. Part(y) = "p7leaf"
  BY <1>1 DEF Part
<1>5. Offspring(cast[y]) = {cast[y]}
  <2>1. Solo(cast[y]) /\ cast[y] \in ancestors[cast[y]]
    BY <1>a, <1>1, <1>3 DEF Family, Common, Tree
  <2> QED
    BY <1>3, <2>1 DEF Offspring, Solo
<1>6. cast[y] \notin Printing
  <2>1. pc[cast[y]] \in 3 .. 4
    BY <1>a, <1>1 DEF Shrinks
  <2>2. CASE pc[cast[y]] = 3
    <3>1. Text[program[cast[y]]][pc[cast[y]]] = <<"P", "blkleaves">>
      BY <1>1, <1>3, <2>2, PartText
    <3>2. ~Calls(cast[y])
      BY <3>1, NoCall
    <3> QED
      BY <1>3, <3>2, QuietFact
  <2>3. CASE pc[cast[y]] = 4
    <3>1. Parks(cast, here, Leaf, 4, "blkleaves")
      BY <1>a DEF Meets
    <3>2. cast[y] \in waiting["blkleaves"]
      BY <1>1, <2>3, <3>1 DEF Parks, Reached
    <3> QED
      BY <1>3, <3>2, QuietBlocked, SyncKeys
  <2> QED
    BY <2>1, <2>2, <2>3
<1> QED
  BY <1>a, <1>1, <1>2, <1>3, <1>4, <1>5, <1>6

LEMMA RootKills ==
  ASSUME Common, Tails, At1("p7loop", 5, 6),
         NEW cast \in [Role -> Process], NEW here \in SUBSET Role, Plays(cast, here),
         Acts(cast["p7pid"]), pc[cast["p7pid"]] \in 9 .. 12
  PROVE  Common' /\ Tails' /\ Stage'
<1> DEFINE root == cast["p7pid"]
<1>a. /\ Types /\ root \in alive /\ root \in Crew /\ root # first
      /\ program[root] = "p7root" /\ \A i : ~TailPlace("p7root", i)
      /\ Family(cast, here) /\ Meets(cast, here)
      /\ "p7pid" \in here /\ "p7pid" \notin Child /\ "p7pid" \notin Leaf
      /\ \A x \in here \ {"p7pid"} : cast[x] # root
  BY RootFact
<1>1. PICK y : y = Victim(pc[root])
  OBVIOUS
<1>2. PICK l : l = cast[y]
  OBVIOUS
<1>3. /\ y \in here /\ y \in Leaf /\ y \notin Child /\ y # "p7pid"
      /\ Text[program[root]][pc[root]] = <<"kill", y>>
      /\ memory[y] = l /\ l \in alive /\ l # first
      /\ Offspring(l) = {l} /\ Offspring(l) \cap Printing = {}
      /\ Shrinks(cast, here)
  BY <1>1, <1>2, VictimFact
<1>4. /\ Common' /\ Tails' /\ Kills(root, Offspring(l))
      /\ Crew' = Crew \ Offspring(l)
      /\ \A q \in alive' : Solo(q) => Solo(q)'
  <2>1. "kill" \in {"kill", "killed"} /\ ~TailPlace(program[root], pc[root] + 1)
    BY <1>a
  <2> HIDE DEF root
  <2>2. Acts(root)
    BY DEF root
  <2> QED
    BY <1>a, <1>3, <2>1, <2>2, MemberKills
<1>5. /\ Kills(root, {l}) /\ Crew' = Crew \ {l}
  BY <1>3, <1>4
<1>6. /\ alive' = alive \ {l}
      /\ \A q \in alive' : /\ ancestors'[q] = ancestors[q] /\ program'[q] = program[q]
                           /\ pc'[q] = IF q = root THEN pc[q] + 1 ELSE pc[q]
      /\ \A k \in Key : /\ waiting'[k] = waiting[k] \ {l}
                        /\ value'[k] = value[k] + Cardinality(waiting[k] \cap {l})
      /\ memory' = memory
  BY <1>5 DEF Kills
<1> DEFINE here1 == here \ {y}
<1>7. \A x \in here : /\ cast[x] \in alive /\ cast[x] # first /\ (x # y => cast[x] # l)
  BY <1>a, <1>2, <1>3, PlayerFact
<1>8. /\ pc'[root] = pc[root] + 1 /\ l # root
      /\ \A x \in here1 \ {"p7pid"} : pc'[cast[x]] = pc[cast[x]]
      /\ program'[first] = program[first] /\ pc'[first] = pc[first]
  <2>1. first \in alive
    BY DEF Common
  <2> QED
    BY <1>a, <1>3, <1>6, <1>7, <2>1
<1>9. Family(cast, here1)'
  <2>1. Crew' = {cast[x] : x \in here1}
    BY <1>5, <1>7, <1>2, <1>a DEF Family
  <2>2. \A x \in here1 : program'[cast[x]] = Part(x)
    BY <1>6, <1>7, <1>a DEF Family
  <2>3. \A q \in alive' : root \in ancestors'[q] <=> q \in Crew'
    BY <1>5, <1>6, <1>a DEF Family
  <2>4. \A x \in here1 \cap Leaf : Solo(cast[x])'
    BY <1>4, <1>6, <1>7, <1>a DEF Family
  <2> QED
    BY <1>a, <1>3, <1>6, <2>1, <2>2, <2>3, <2>4 DEF Family
<1>10. Shrinks(cast, here1)'
  <2>1. \A x \in here1 \cap Child : pc'[cast[x]] \in 4 .. 5
    BY <1>a, <1>3, <1>8 DEF Shrinks
  <2>2. \A x \in here1 \cap Leaf : pc'[cast[x]] \in 3 .. 4
    BY <1>a, <1>3, <1>8 DEF Shrinks
  <2>3. Child \subseteq here1
    BY <1>3 DEF Shrinks
  <2> QED
    BY <1>1, <1>3, <1>8, <2>1, <2>2, <2>3 DEF Shrinks, Victim
<1>11. Meets(cast, here1)'
  <2>k. {"endp7", "blkp7", "endcreate", "blkp7child"} \subseteq Sync /\ "blkleaves" \in Key
    BY KeyFact, SyncKeys
  <2>1. Tickets(cast, here) = 0 /\ Tickets(cast, here1)' = 0
    BY <1>8 DEF Tickets
  <2>2. \A k \in {"endp7", "blkp7", "endcreate", "blkp7child"} : l \notin waiting[k]
    <3>1. waiting["endp7"] \subseteq {first} /\ waiting["blkp7"] \subseteq {root}
          /\ waiting["endcreate"] \subseteq {root}
      BY <1>a DEF Meets, Awaits
    <3>2. l \notin waiting["blkp7child"]
      BY <1>a, <1>3, <1>7 DEF Meets, Parks
    <3> QED
      BY <1>3, <1>8, <3>1, <3>2
  <2>3. \A k \in {"endp7", "blkp7", "endcreate", "blkp7child"} :
          value'[k] = value[k] /\ waiting'[k] = waiting[k]
    <3>1. \A k \in {"endp7", "blkp7", "endcreate", "blkp7child"} : waiting[k] \cap {l} = {} /\ k \in Sync
      BY <2>k, <2>2
    <3> QED
      BY <1>a, <1>5, <3>1, KillsKeep
  <2>4. Awaits("endp7", Debt(pc[root] >= 18) - Debt(pc[first] >= 6), first)'
    BY <1>a, <1>8, <2>3, EndKept
  <2>5. Awaits("blkp7", 0 - Debt(pc[root] >= 19), root)'
    BY <1>a, <1>8, <2>3, BlkKept
  <2>6. Awaits("endcreate", Tickets(cast, here1), root)' /\ (Tickets(cast, here1) >= -1)'
    BY <1>a, <2>1, <2>3, CreateKept
  <2>7. Parks(cast, here1, Child, 5, "blkp7child")'
    <3>1. \A x \in here \cap Child : x \in here1
      BY <1>3
    <3>2. \A x \in here1 \cap Child : x \in here /\ pc'[cast[x]] = pc[cast[x]]
      BY <1>a, <1>8
    <3> QED
      BY <1>a, <2>3, <3>1, <3>2, ParksKept DEF Meets
  <2>8. Parks(cast, here \ {y}, Leaf, 4, "blkleaves")'
    <3>1. Parks(cast, here, Leaf, 4, "blkleaves")
      BY <1>a DEF Meets
    <3>2. \A x \in here \ {y} : cast[x] # cast[y]
      BY <1>2, <1>7
    <3>3. \A x \in here \ {y} : pc'[cast[x]] >= 4 => pc[cast[x]] >= 4
      BY <1>8, <1>a
    <3>4. /\ value'["blkleaves"] = value["blkleaves"] + Cardinality(waiting["blkleaves"] \cap {cast[y]})
          /\ waiting'["blkleaves"] = waiting["blkleaves"] \ {cast[y]}
      BY <1>2, <1>6, <2>k
    <3> QED
      BY <1>a, <1>3, <2>k, <3>1, <3>2, <3>3, <3>4, ParksLess
  <2> QED
    BY <1>8, <2>4, <2>5, <2>6, <2>7, <2>8 DEF Meets
<1>12. StageF'
  <2>1. here1 \in SUBSET Role
    OBVIOUS
  <2>2. PICK here2 \in SUBSET Role : here2 = here1
    BY <2>1
  <2> HIDE DEF here1
  <2>3. Plays(cast, here2)'
    BY <1>9, <1>10, <1>11, <2>2 DEF Plays
  <2> QED
    BY <1>8, <2>3 DEF StageF, At1
<1> QED
  BY <1>4, <1>12 DEF Stage

LEMMA RootReleases ==
  ASSUME Common, Tails, At1("p7loop", 5, 6),
         NEW cast \in [Role -> Process], NEW here \in SUBSET Role, Plays(cast, here),
         Acts(cast["p7pid"]), pc[cast["p7pid"]] \in 13 .. 18
  PROVE  Common' /\ Tails' /\ Stage'
<1> DEFINE root == cast["p7pid"]
<1>a. /\ Types /\ root \in alive /\ root \in Crew /\ \A k \in Key : root \notin waiting[k]
      /\ waiting \in [Key -> SUBSET alive] /\ value \in [Key -> Int]
      /\ program[root] = "p7root" /\ \A i : ~TailPlace("p7root", i)
      /\ Text["p7root"] = p7root /\ Meets(cast, here) /\ Shrinks(cast, here)
  BY RootFact
<1>k. /\ {"endp7", "blkp7", "endcreate", "blkp7child", "blkleaves"} \subseteq Sync /\ Sync \subseteq Key
  BY KeyFact, SyncKeys
<1>b. waiting["blkleaves"] = {}
  <2>1. CASE pc[root] = 13
    <3>1. here \cap Leaf = {}
      BY <1>a, <2>1 DEF Shrinks, Leaf
    <3> QED
      BY <1>a, <2>1, <3>1 DEF Meets, Parks
  <2> QED
    BY <1>a, <2>1 DEF Meets
<1>c. ASSUME NEW k \in {"blkleaves", "endp7", "blkp7"}, Common', Passes(root), memory' = memory,
             \A j \in Sync \ {k} : value'[j] = value[j] /\ waiting'[j] = waiting[j],
             waiting'["blkleaves"] = {},
             Awaits("endp7", Debt(pc[root] >= 18) - Debt(pc[first] >= 6), first)',
             Awaits("blkp7", 0 - Debt(pc[root] >= 19), root)'
      PROVE  Common' /\ Tails' /\ Stage'
  <2>1. Moves(root) /\ Tails'
    BY <1>a, <1>c, MemberPasses
  <2>2. /\ Family(cast, here)' /\ pc'[root] = pc[root] + 1
        /\ At1("p7loop", 5, 6)' /\ pc'[first] = pc[first]
        /\ \A y \in here \cap Child : pc'[cast[y]] = pc[cast[y]]
        /\ Shrinks(cast, here)'
    BY <1>c, <2>1, RootGoes
  <2>3. Tickets(cast, here) = 0 /\ Tickets(cast, here)' = 0
    BY <2>2 DEF Tickets
  <2>4. Awaits("endcreate", Tickets(cast, here), root)' /\ (Tickets(cast, here) >= -1)'
    BY <1>a, <1>c, <1>k, <2>3, CreateKept
  <2>5. Parks(cast, here, Child, 5, "blkp7child")'
    BY <1>a, <1>c, <1>k, <2>2, ParksKept DEF Meets
  <2>6. Meets(cast, here)'
    BY <1>c, <2>2, <2>4, <2>5 DEF Meets
  <2>7. StageF'
    BY <2>2, <2>6 DEF StageF, Plays
  <2> QED
    BY <1>c, <2>1, <2>7 DEF Stage
<1>1. CASE pc[root] \in 13 .. 16
  <2>1. Text[program[root]][pc[root]] = <<"V", "blkleaves">>
    BY <1>a, <1>1, RootText
  <2>2. /\ Common' /\ Passes(root) /\ memory' = memory
        /\ value' = [value EXCEPT !["blkleaves"] = @ + 1] /\ waiting' = waiting
    BY <1>a, <1>b, <1>k, <2>1, VPlace
  <2>3. \A j \in Sync \ {"blkleaves"} : value'[j] = value[j] /\ waiting'[j] = waiting[j]
    BY <1>a, <1>k, <2>2
  <2>4. pc'[first] = pc[first] /\ pc'[root] = pc[root] + 1
    BY <1>a, <2>2, MemberPasses DEF Moves, Crew, Common, Types
  <2>5. Awaits("endp7", Debt(pc[root] >= 18) - Debt(pc[first] >= 6), first)'
    <3>1. Awaits("endp7", Debt(pc[root] >= 18) - Debt(pc[first] >= 6), first)
      BY <1>a DEF Meets
    <3> QED
      BY <1>1, <1>k, <2>3, <2>4, <3>1 DEF Awaits, Debt
  <2>6. Awaits("blkp7", 0 - Debt(pc[root] >= 19), root)'
    <3>1. Awaits("blkp7", 0 - Debt(pc[root] >= 19), root)
      BY <1>a DEF Meets
    <3> QED
      BY <1>1, <1>k, <2>3, <2>4, <3>1 DEF Awaits, Debt
  <2> QED
    BY <1>b, <1>c, <2>2, <2>3, <2>5, <2>6
<1>2. CASE pc[root] = 17
  <2>1. Text[program[root]][pc[root]] = <<"V", "endp7">>
    BY <1>a, <1>2, RootText
  <2>2. /\ Common' /\ Passes(root) /\ memory' = memory
        /\ value' = [value EXCEPT !["endp7"] = @ + 1]
        /\ \/ waiting["endp7"] = {} /\ waiting' = waiting
           \/ \E q \in waiting["endp7"] : waiting' = [waiting EXCEPT !["endp7"] = @ \ {q}]
    BY <1>a, <1>k, <2>1, VPlace
  <2>3. \A j \in Sync \ {"endp7"} : value'[j] = value[j] /\ waiting'[j] = waiting[j]
    BY <1>a, <1>k, <2>2
  <2>4. pc'[first] = pc[first] /\ pc'[root] = pc[root] + 1
    BY <1>a, <2>2, MemberPasses DEF Moves, Crew, Common, Types
  <2>5. Awaits("endp7", Debt(pc[root] >= 18) - Debt(pc[first] >= 6), first)'
    <3>1. Awaits("endp7", Debt(pc[root] >= 18) - Debt(pc[first] >= 6), first)
      BY <1>a DEF Meets
    <3>2. value["endp7"] = 0 - Debt(pc[first] >= 6)
          /\ waiting["endp7"] = IF pc[first] >= 6 THEN {first} ELSE {}
      BY <1>2, <3>1 DEF Awaits, Debt
    <3>3. value'["endp7"] = 1 - Debt(pc[first] >= 6) /\ waiting'["endp7"] = {}
      BY <1>a, <1>k, <2>2, <3>2 DEF Debt
    <3> QED
      BY <1>2, <2>4, <3>3 DEF Awaits, Debt
  <2>6. Awaits("blkp7", 0 - Debt(pc[root] >= 19), root)'
    <3>1. Awaits("blkp7", 0 - Debt(pc[root] >= 19), root)
      BY <1>a DEF Meets
    <3> QED
      BY <1>2, <1>k, <2>3, <2>4, <3>1 DEF Awaits, Debt
  <2> QED
    BY <1>b, <1>c, <1>k, <2>2, <2>3, <2>5, <2>6
<1>3. CASE pc[root] = 18
  <2>1. Text[program[root]][pc[root]] = <<"P", "blkp7">>
    BY <1>a, <1>3, RootText
  <2>2. /\ Common' /\ Passes(root) /\ memory' = memory
        /\ value' = [value EXCEPT !["blkp7"] = @ - 1]
        /\ waiting' = IF value["blkp7"] > 0 THEN waiting ELSE [waiting EXCEPT !["blkp7"] = @ \cup {root}]
    BY <1>a, <1>k, <2>1, PPlace
  <2>3. \A j \in Sync \ {"blkp7"} : value'[j] = value[j] /\ waiting'[j] = waiting[j]
    BY <1>a, <1>k, <2>2
  <2>4. pc'[first] = pc[first] /\ pc'[root] = pc[root] + 1
    BY <1>a, <2>2, MemberPasses DEF Moves, Crew, Common, Types
  <2>5. Awaits("endp7", Debt(pc[root] >= 18) - Debt(pc[first] >= 6), first)'
    <3>1. Awaits("endp7", Debt(pc[root] >= 18) - Debt(pc[first] >= 6), first)
      BY <1>a DEF Meets
    <3> QED
      BY <1>3, <1>k, <2>3, <2>4, <3>1 DEF Awaits, Debt
  <2>6. Awaits("blkp7", 0 - Debt(pc[root] >= 19), root)'
    <3>1. Awaits("blkp7", 0 - Debt(pc[root] >= 19), root)
      BY <1>a DEF Meets
    <3>2. value["blkp7"] = 0 /\ waiting["blkp7"] = {}
      BY <1>3, <3>1 DEF Awaits, Debt
    <3>3. value'["blkp7"] = 0 - 1 /\ waiting'["blkp7"] = {root}
      BY <1>a, <1>k, <2>2, <3>2
    <3> QED
      BY <1>3, <2>4, <3>3 DEF Awaits, Debt
  <2> QED
    BY <1>b, <1>c, <1>k, <2>2, <2>3, <2>5, <2>6
<1> QED
  BY <1>1, <1>2, <1>3

LEMMA StepRoot ==
  ASSUME Common, Tails, At1("p7loop", 5, 6),
         NEW cast \in [Role -> Process], NEW here \in SUBSET Role, Plays(cast, here),
         Acts(cast["p7pid"])
  PROVE  Common' /\ Tails' /\ Stage'
<1>1. /\ pc[cast["p7pid"]] \in 1 .. 19 /\ Meets(cast, here) /\ value \in [Key -> Int]
      /\ \A k \in Key : cast["p7pid"] \notin waiting[k]
  BY RootFact
<1>2. pc[cast["p7pid"]] # 19
  <2>1. "blkp7" \in Key
    BY KeyFact, SyncKeys
  <2> QED
    BY <1>1, <2>1 DEF Meets, Awaits, Debt
<1> QED
  BY <1>1, <1>2, RootPrints, RootCreates, RootWaits, RootKills, RootReleases

LEMMA StepF ==
  ASSUME Common, Tails, StageF, NEW p \in Crew, Acts(p)
  PROVE  Common' /\ Tails' /\ Stage'
<1>1. PICK cast \in [Role -> Process], here \in SUBSET Role : Plays(cast, here)
  BY DEF StageF
<1>2. PICK x \in here : p = cast[x]
  BY <1>1 DEF Plays, Family
<1>3. At1("p7loop", 5, 6)
  BY DEF StageF
<1>4. x \in Leaf \/ x \in Child \/ x = "p7pid"
  BY DEF Role
<1> QED
  BY <1>1, <1>2, <1>3, <1>4, StepLeaf, StepChild, StepRoot

(* The kill of p7 finds its root, and the family neither runs nor prints.   *)
LEMMA FamilyEnds ==
  ASSUME Common, At1("p7loop", 6, 6), \A k \in Key : first \notin waiting[k],
         NEW cast \in [Role -> Process], NEW here \in SUBSET Role, Plays(cast, here)
  PROVE  /\ memory["p7pid"] = cast["p7pid"] /\ cast["p7pid"] \in alive /\ cast["p7pid"] # first
         /\ program[cast["p7pid"]] = "p7root"
         /\ Offspring(cast["p7pid"]) = Crew /\ Crew \cap Printing = {}
         /\ Has("endp7", 0) /\ Has("endcreate", 0) /\ waiting["blkleaves"] = {}
         /\ waiting["blkp7child"] \subseteq Crew
         /\ value["blkp7"] = 0 - Cardinality(waiting["blkp7"]) /\ waiting["blkp7"] \subseteq Crew
<1> DEFINE root == cast["p7pid"]
<1>a. /\ Family(cast, here) /\ Meets(cast, here) /\ (Grows(cast, here) \/ Shrinks(cast, here))
      /\ pc[first] = 6 /\ "p7pid" \in here
  BY DEF Plays, At1, Family
<1>k. "endp7" \in Key /\ "blkp7" \in Sync /\ "blkp7child" \in Sync
  BY KeyFact, SyncKeys
<1>1. /\ memory["p7pid"] = root /\ root \in alive /\ root # first /\ program[root] = Part("p7pid")
      /\ root \in Crew
  BY <1>a, PlayerFact DEF Child
<1>2. Part("p7pid") = "p7root"
  BY DEF Part
<1>3. pc[root] >= 18
  <2>1. pc[root] \in 1 .. 19
    BY <1>a DEF Grows, Shrinks
  <2>2. SUFFICES ASSUME ~(pc[root] >= 18)
                 PROVE  FALSE
    OBVIOUS
  <2>3. Debt(pc[root] >= 18) - Debt(pc[first] >= 6) = -1
    BY <1>a, <2>2 DEF Debt
  <2> QED
    BY <1>a, <1>k, <2>3 DEF Meets, Awaits
<1>4. pc[root] \in 18 .. 19 /\ Shrinks(cast, here) /\ here \cap Leaf = {}
  BY <1>a, <1>3 DEF Grows, Shrinks, Leaf
<1>5. Has("endp7", 0)
  <2>1. Debt(pc[root] >= 18) - Debt(pc[first] >= 6) = 0
    BY <1>a, <1>3 DEF Debt
  <2> QED
    BY <1>a, <2>1 DEF Meets, Awaits, Has
<1>6. Has("endcreate", 0)
  <2>1. Tickets(cast, here) = 0
    BY <1>4 DEF Tickets
  <2> QED
    BY <1>a, <2>1 DEF Meets, Awaits, Has
<1>7. waiting["blkleaves"] = {}
  BY <1>a, <1>4 DEF Meets
<1>8. waiting["blkp7child"] \subseteq Crew
  BY <1>a DEF Meets, Parks, Family
<1>9. value["blkp7"] = 0 - Cardinality(waiting["blkp7"]) /\ waiting["blkp7"] \subseteq {root}
      /\ (pc[root] = 19 => root \in waiting["blkp7"])
  <2>1. CASE pc[root] = 19
    <3>1. value["blkp7"] = -1 /\ waiting["blkp7"] = {root}
      BY <1>a, <2>1 DEF Meets, Awaits, Debt
    <3>2. Cardinality(waiting["blkp7"]) = 1
      BY <3>1, FS_Singleton
    <3> QED
      BY <3>1, <3>2
  <2>2. CASE pc[root] = 18
    <3>1. value["blkp7"] = 0 /\ waiting["blkp7"] = {}
      BY <1>a, <2>2 DEF Meets, Awaits, Debt
    <3>2. Cardinality(waiting["blkp7"]) = 0
      BY <3>1, FS_EmptySet
    <3> QED
      BY <2>2, <3>1, <3>2
  <2> QED
    BY <1>4, <2>1, <2>2
<1>10. Offspring(root) = Crew
  <2>1. Crew \subseteq alive
    BY DEF Crew
  <2> QED
    BY <1>a, <2>1 DEF Family, Offspring
<1>11. ASSUME NEW x \in here
       PROVE  cast[x] \notin Printing
  <2>1. /\ x \in Role /\ cast[x] \in alive /\ program[cast[x]] = Part(x)
    BY <1>a, PlayerFact
  <2>2. CASE x = "p7pid"
    <3>1. pc[root] = 18 => Text[program[root]][pc[root]] = <<"P", "blkp7">>
      BY <1>1, <1>2, PartText, RootText
    <3>2. pc[root] = 18 => ~Calls(root)
      BY <3>1 DEF Calls
    <3> QED
      BY <1>1, <1>4, <1>9, <1>k, <2>2, <3>2, QuietFact, QuietBlocked
  <2>3. CASE x \in Child
    <3>1. pc[cast[x]] \in 4 .. 5
      BY <1>4, <2>3 DEF Shrinks
    <3>2. CASE pc[cast[x]] = 4
      <4>1. Text[program[cast[x]]][pc[cast[x]]] = <<"P", "blkp7child">>
        BY <2>1, <2>3, <3>2, PartText
      <4> QED
        BY <2>1, <4>1, QuietFact DEF Calls
    <3>3. CASE pc[cast[x]] = 5
      <4>1. cast[x] \in waiting["blkp7child"]
        BY <1>a, <2>3, <3>3 DEF Meets, Parks, Reached
      <4> QED
        BY <1>k, <2>1, <4>1, QuietBlocked
    <3> QED
      BY <3>1, <3>2, <3>3
  <2> QED
    BY <1>4, <2>1, <2>2, <2>3 DEF Role
<1>12. Crew \cap Printing = {}
  BY <1>a, <1>11 DEF Family
<1> QED
  BY <1>1, <1>2, <1>5, <1>6, <1>7, <1>8, <1>9, <1>10, <1>12

LEMMA StepFFirst ==
  ASSUME Common, Tails, StageF, Acts(first)
  PROVE  Common' /\ Tails' /\ Stage'
<1> DEFINE p == first
<1>a. /\ Types /\ p \in alive /\ p \in Process /\ Stage /\ \A k \in Key : p \notin waiting[k]
      /\ waiting \in [Key -> SUBSET alive] /\ value \in [Key -> Int] /\ alive \subseteq Process
      /\ program[p] = "p7loop" /\ pc[p] \in 5 .. 6
  BY DEF Common, Types, Stage, Acts, Step, Ready, StageF, At1
<1>b. PICK cast \in [Role -> Process], here \in SUBSET Role : Plays(cast, here)
  BY DEF StageF
<1>k. /\ {"endp7", "blkp7", "endcreate", "blkp7child", "blkleaves"} \subseteq Sync /\ Sync \subseteq Key
  BY KeyFact, SyncKeys
<1>c. /\ Family(cast, here) /\ Meets(cast, here) /\ (Grows(cast, here) \/ Shrinks(cast, here))
      /\ "p7pid" \in here
  BY <1>b DEF Plays, Family
<1>1. CASE pc[p] = 5
  <2> DEFINE root == cast["p7pid"]
  <2>1. Text[program[p]][pc[p]] = <<"P", "endp7">>
    BY <1>a, <1>1 DEF Text, p7loop
  <2>2. /\ Common' /\ Passes(p) /\ memory' = memory
        /\ value' = [value EXCEPT !["endp7"] = @ - 1]
        /\ waiting' = IF value["endp7"] > 0 THEN waiting ELSE [waiting EXCEPT !["endp7"] = @ \cup {p}]
    BY <1>a, <1>k, <2>1, PPlace
  <2>3. Moves(p) /\ Tails'
    BY <1>a, <2>2, MemberPasses
  <2>4. /\ pc'[first] = 6 /\ program'[first] = "p7loop" /\ At1("p7loop", 5, 6)'
    BY <1>a, <1>1, <2>3 DEF Moves, At1
  <2>5. \A x \in here : pc'[cast[x]] = pc[cast[x]]
    BY <1>c, <2>3, PlayerFact DEF Moves
  <2>6. Family(cast, here)'
    BY <1>c, <2>2, <2>3 DEF Moves, Family, Solo
  <2>7. \A k \in Sync \ {"endp7"} : value'[k] = value[k] /\ waiting'[k] = waiting[k]
    BY <1>a, <1>k, <2>2
  <2>8. Grows(cast, here)' \/ Shrinks(cast, here)'
    <3>1. Grows(cast, here) => Grows(cast, here)'
      BY <1>c, <2>5 DEF Grows, Child, Leaf
    <3>2. Shrinks(cast, here) => Shrinks(cast, here)'
      BY <1>c, <2>5 DEF Shrinks, Child, Leaf
    <3> QED
      BY <1>c, <3>1, <3>2
  <2>9. Announced(cast, here)' = Announced(cast, here)
    BY <2>5, AnnouncedKept
  <2>10. Tickets(cast, here)' = Tickets(cast, here)
    BY <1>c, <2>5, <2>9 DEF Tickets
  <2>11. Awaits("endcreate", Tickets(cast, here), root)' /\ (Tickets(cast, here) >= -1)'
    BY <1>c, <1>k, <2>7, <2>10, CreateKept
  <2>12. Awaits("blkp7", 0 - Debt(pc[root] >= 19), root)'
    BY <1>c, <1>k, <2>5, <2>7, BlkKept
  <2>13. Parks(cast, here, Child, 5, "blkp7child")'
    BY <1>c, <1>k, <2>5, <2>7, ParksKept DEF Meets
  <2>14. IF pc'[root] <= 13 THEN Parks(cast, here, Leaf, 4, "blkleaves")' ELSE waiting'["blkleaves"] = {}
    BY <1>c, <1>k, <2>5, <2>7, ParksKept DEF Meets
  <2>15. Awaits("endp7", Debt(pc[root] >= 18) - Debt(pc[first] >= 6), first)'
    <3>1. value["endp7"] = Debt(pc[root] >= 18) /\ waiting["endp7"] = {}
      BY <1>c, <1>1 DEF Meets, Awaits, Debt
    <3>2. value'["endp7"] = Debt(pc[root] >= 18) - 1
          /\ waiting'["endp7"] = IF pc[root] >= 18 THEN {} ELSE {p}
      <4>1. /\ "endp7" \in Key /\ value["endp7"] \in Int
            /\ value'["endp7"] = value["endp7"] - 1
            /\ waiting'["endp7"] = IF value["endp7"] > 0 THEN {} ELSE {p}
        BY <1>a, <1>k, <2>2, <3>1
      <4>2. value["endp7"] > 0 <=> pc[root] >= 18
        BY <3>1 DEF Debt
      <4> QED
        BY <3>1, <4>1, <4>2
    <3>3. pc'[root] = pc[root]
      BY <1>c, <2>5
    <3> QED
      BY <2>4, <3>2, <3>3 DEF Awaits, Debt
  <2>16. Meets(cast, here)'
    BY <2>11, <2>12, <2>13, <2>14, <2>15 DEF Meets
  <2>17. StageF'
    BY <2>4, <2>6, <2>8, <2>16 DEF StageF, Plays
  <2> QED
    BY <2>2, <2>3, <2>17 DEF Stage
<1>2. CASE pc[p] = 6
  <2>1. Text[program[p]][pc[p]] = <<"kill", "p7pid">>
    BY <1>a, <1>2 DEF Text, p7loop
  <2>2. PICK root : root = cast["p7pid"]
    OBVIOUS
  <2>3. /\ memory["p7pid"] = root /\ root \in alive /\ root # first
        /\ Offspring(root) = Crew /\ Crew \cap Printing = {}
        /\ Has("endp7", 0) /\ Has("endcreate", 0) /\ waiting["blkleaves"] = {}
        /\ waiting["blkp7child"] \subseteq Crew
        /\ value["blkp7"] = 0 - Cardinality(waiting["blkp7"]) /\ waiting["blkp7"] \subseteq Crew
    BY <1>a, <1>b, <1>2, <2>2, FamilyEnds DEF At1
  <2>4. /\ Common' /\ Tails' /\ Kills(p, Offspring(root)) /\ Crew' = Crew \ Offspring(root)
    BY <1>a, <2>1, <2>3, MemberKills
  <2>5. Kills(p, Crew) /\ Crew' = {}
    BY <2>3, <2>4
  <2>6. /\ program'[p] = "p7loop" /\ pc'[p] = 7
    <3>1. p \in alive'
      BY <2>4 DEF Common
    <3> QED
      BY <1>a, <1>2, <2>5, <3>1 DEF Kills
  <2>7. Has("endp7", 0)' /\ Has("endcreate", 0)' /\ waiting'["blkleaves"] = {}
    <3>1. waiting["endp7"] \cap Crew = {} /\ waiting["endcreate"] \cap Crew = {}
      BY <2>3 DEF Has
    <3>2. /\ value'["endp7"] = value["endp7"] /\ waiting'["endp7"] = waiting["endp7"]
          /\ value'["endcreate"] = value["endcreate"] /\ waiting'["endcreate"] = waiting["endcreate"]
      BY <1>a, <1>k, <2>5, <3>1, KillsKeep
    <3>3. waiting'["blkleaves"] = {}
      BY <1>k, <2>3, <2>5 DEF Kills
    <3> QED
      BY <2>3, <3>2, <3>3 DEF Has
  <2>8. waiting'["blkp7child"] = {}
    BY <1>k, <2>3, <2>5 DEF Kills
  <2>9. Has("blkp7", 0)'
    <3>1. /\ waiting'["blkp7"] = waiting["blkp7"] \ Crew
          /\ value'["blkp7"] = value["blkp7"] + Cardinality(waiting["blkp7"] \cap Crew)
      BY <1>k, <2>5 DEF Kills
    <3>2. waiting["blkp7"] \cap Crew = waiting["blkp7"]
      BY <2>3
    <3>3. Cardinality(waiting["blkp7"] \cap Crew) = Cardinality(waiting["blkp7"])
      BY <3>2
    <3>4. Cardinality(waiting["blkp7"]) \in Nat
      BY <1>a, <1>k, WaitingFinite
    <3>5. value'["blkp7"] = 0
      BY <2>3, <3>1, <3>3, <3>4
    <3>6. waiting'["blkp7"] = {}
      BY <2>3, <3>1
    <3> QED
      BY <3>5, <3>6 DEF Has
  <2>10. StageE'
    BY <2>5, <2>6, <2>7, <2>8, <2>9 DEF StageE, Between7, At1
  <2> QED
    BY <2>4, <2>10 DEF Stage
<1> QED
  BY <1>a, <1>1, <1>2
------------------------------------------------------------------------------
(* The inductive invariant.                                                 *)

LEMMA Lengths ==
  /\ DOMAIN Text["test"] = 1 .. 19 /\ Text["test"] = test
  /\ DOMAIN Text["p7loop"] = 1 .. 11 /\ Text["p7loop"] = p7loop
  /\ DOMAIN Text["p1end"] = 1 .. 5 /\ Text["p1end"] = p1end
  /\ DOMAIN Text["p2"] = 1 .. 13 /\ Text["p2"] = p2
  /\ DOMAIN Text["p3"] = 1 .. 1 /\ Text["p3"] = p3
  /\ DOMAIN Text["p3first"] = 1 .. 4 /\ Text["p3first"] = p3first
  /\ DOMAIN Text["p3second"] = 1 .. 3 /\ Text["p3second"] = p3second
  /\ DOMAIN Text["p3rest"] = 1 .. 14 /\ Text["p3rest"] = p3rest
  /\ DOMAIN Text["p4"] = 1 .. 6 /\ Text["p4"] = p4
  /\ DOMAIN Text["p4prog"] = 1 .. 2 /\ Text["p4prog"] = p4prog
  /\ DOMAIN Text["p4mm"] = 1 .. 3 /\ Text["p4mm"] = p4mm
  /\ DOMAIN Text["p4sys"] = 1 .. 3 /\ Text["p4sys"] = p4sys
  /\ DOMAIN Text["p4a"] = 1 .. 2 /\ Text["p4a"] = p4a
  /\ DOMAIN Text["p4b"] = 1 .. 2 /\ Text["p4b"] = p4b
  /\ DOMAIN Text["p4c"] = 1 .. 7 /\ Text["p4c"] = p4c
  /\ DOMAIN Text["p5"] = 1 .. 4 /\ Text["p5"] = p5
  /\ DOMAIN Text["p6"] = 1 .. 4 /\ Text["p6"] = p6
  /\ DOMAIN Text["p7root"] = 1 .. 20 /\ Text["p7root"] = p7root
  /\ DOMAIN Text["child1"] = 1 .. 6 /\ Text["child1"] = child1
  /\ DOMAIN Text["child2"] = 1 .. 6 /\ Text["child2"] = child2
  /\ DOMAIN Text["p7leaf"] = 1 .. 5 /\ Text["p7leaf"] = p7leaf
<1>1. DOMAIN test = 1 .. 19 /\ Text["test"] = test
  BY DEF Text, test
<1>2. DOMAIN p7loop = 1 .. 11 /\ Text["p7loop"] = p7loop
  BY DEF Text, p7loop
<1>3. DOMAIN p1end = 1 .. 5 /\ Text["p1end"] = p1end
  BY DEF Text, p1end
<1>4. DOMAIN p2 = 1 .. 13 /\ Text["p2"] = p2
  BY DEF Text, p2
<1>5. DOMAIN p3 = 1 .. 1 /\ Text["p3"] = p3
  BY DEF Text, p3
<1>6. DOMAIN p3first = 1 .. 4 /\ Text["p3first"] = p3first
  BY DEF Text, p3first
<1>7. DOMAIN p3second = 1 .. 3 /\ Text["p3second"] = p3second
  BY DEF Text, p3second
<1>8. DOMAIN p3rest = 1 .. 14 /\ Text["p3rest"] = p3rest
  BY DEF Text, p3rest
<1>9. DOMAIN p4 = 1 .. 6 /\ Text["p4"] = p4
  BY DEF Text, p4
<1>10. DOMAIN p4prog = 1 .. 2 /\ Text["p4prog"] = p4prog
  BY DEF Text, p4prog
<1>11. DOMAIN p4mm = 1 .. 3 /\ Text["p4mm"] = p4mm
  BY DEF Text, p4mm
<1>12. DOMAIN p4sys = 1 .. 3 /\ Text["p4sys"] = p4sys
  BY DEF Text, p4sys
<1>13. DOMAIN p4a = 1 .. 2 /\ Text["p4a"] = p4a
  BY DEF Text, p4a
<1>14. DOMAIN p4b = 1 .. 2 /\ Text["p4b"] = p4b
  BY DEF Text, p4b
<1>15. DOMAIN p4c = 1 .. 7 /\ Text["p4c"] = p4c
  BY DEF Text, p4c
<1>16. DOMAIN p5 = 1 .. 4 /\ Text["p5"] = p5
  BY DEF Text, p5
<1>17. DOMAIN p6 = 1 .. 4 /\ Text["p6"] = p6
  BY DEF Text, p6
<1>18. DOMAIN p7root = 1 .. 20 /\ Text["p7root"] = p7root
  BY DEF Text, p7root
<1>19. DOMAIN child1 = 1 .. 6 /\ Text["child1"] = child1
  BY DEF Text, child1
<1>20. DOMAIN child2 = 1 .. 6 /\ Text["child2"] = child2
  BY DEF Text, child2
<1>21. DOMAIN p7leaf = 1 .. 5 /\ Text["p7leaf"] = p7leaf
  BY DEF Text, p7leaf
<1> QED
  BY <1>1, <1>2, <1>3, <1>4, <1>5, <1>6, <1>7, <1>8, <1>9, <1>10, <1>11, <1>12, <1>13, <1>14, <1>15, <1>16, <1>17, <1>18, <1>19, <1>20, <1>21

(* The places of a call of TERMINATEPROCESS with a pid, of a call of        *)
(* CREATEPROCESS, and of a jump.                                            *)
KillAt(prog, i) ==
  \/ prog = "p3rest" /\ i = 8
  \/ prog = "p7loop" /\ i = 6
  \/ prog = "p7root" /\ i \in 9 .. 12

CreateAt(prog, i) ==
  \/ prog = "test" /\ i \in {4, 10, 13, 16, 17}
  \/ prog = "p3rest" /\ i = 5
  \/ prog = "p7loop" /\ i = 4
  \/ prog \in {"p7root", "child1", "child2"} /\ i \in 2 .. 3

JumpAt(prog, i) ==
  \/ prog = "test" /\ i = 19
  \/ prog = "p7loop" /\ i = 11
  \/ prog = "p3" /\ i = 1
  \/ prog = "p3first" /\ i = 4
  \/ prog \in {"p3second", "p4mm", "p4sys"} /\ i = 3
  \/ prog = "p4prog" /\ i = 2

LEMMA TextFact ==
  ASSUME NEW prog \in DOMAIN Text, NEW i \in DOMAIN Text[prog]
  PROVE  /\ Text[prog][i][1] \in {"kill", "killed"} => KillAt(prog, i)
         /\ Text[prog][i][1] \in {"create", "created"} => CreateAt(prog, i)
         /\ Text[prog][i][1] \in {"jump", "switch", "while"} => JumpAt(prog, i)
<1> DEFINE op == Text[prog][i][1]
           Fact == /\ op \in {"kill", "killed"} => KillAt(prog, i)
                   /\ op \in {"create", "created"} => CreateAt(prog, i)
                   /\ op \in {"jump", "switch", "while"} => JumpAt(prog, i)
<1>1. ASSUME prog = "test"
      PROVE  Fact
  <2>1. i \in 1 .. 19 /\ Text[prog] = test
    BY <1>1, Lengths
  <2>2. \A j \in 1 .. 19 : test[j][1] \in {"create", "created"} => j \in {4, 10, 13, 16, 17}
    BY DEF test
  <2>3. \A j \in 1 .. 19 : test[j][1] \in {"jump", "switch", "while"} => j = 19
    BY DEF test
  <2>4. \A j \in 1 .. 19 : test[j][1] \in {"kill", "killed"} => FALSE
    BY DEF test
  <2> QED
    BY <1>1, <2>1, <2>2, <2>3, <2>4 DEF KillAt, CreateAt, JumpAt
<1>2. ASSUME prog = "p7loop"
      PROVE  Fact
  <2>1. i \in 1 .. 11 /\ Text[prog] = p7loop
    BY <1>2, Lengths
  <2>2. \A j \in 1 .. 11 : p7loop[j][1] \in {"create", "created"} => j = 4
    BY DEF p7loop
  <2>3. \A j \in 1 .. 11 : p7loop[j][1] \in {"jump", "switch", "while"} => j = 11
    BY DEF p7loop
  <2>4. \A j \in 1 .. 11 : p7loop[j][1] \in {"kill", "killed"} => j = 6
    BY DEF p7loop
  <2> QED
    BY <1>2, <2>1, <2>2, <2>3, <2>4 DEF KillAt, CreateAt, JumpAt
<1>3. prog = "p1end" => Fact
  BY Lengths DEF p1end, KillAt, CreateAt, JumpAt
<1>4. prog = "p2" => Fact
  BY Lengths DEF p2, KillAt, CreateAt, JumpAt
<1>5. prog = "p3" => Fact
  BY Lengths DEF p3, KillAt, CreateAt, JumpAt
<1>6. prog = "p3first" => Fact
  BY Lengths DEF p3first, KillAt, CreateAt, JumpAt
<1>7. prog = "p3second" => Fact
  BY Lengths DEF p3second, KillAt, CreateAt, JumpAt
<1>8. prog = "p3rest" => Fact
  BY Lengths DEF p3rest, KillAt, CreateAt, JumpAt
<1>9. prog = "p4" => Fact
  BY Lengths DEF p4, KillAt, CreateAt, JumpAt
<1>10. prog = "p4prog" => Fact
  BY Lengths DEF p4prog, KillAt, CreateAt, JumpAt
<1>11. prog = "p4mm" => Fact
  BY Lengths DEF p4mm, KillAt, CreateAt, JumpAt
<1>12. prog = "p4sys" => Fact
  BY Lengths DEF p4sys, KillAt, CreateAt, JumpAt
<1>13. prog = "p4a" => Fact
  BY Lengths DEF p4a, KillAt, CreateAt, JumpAt
<1>14. prog = "p4b" => Fact
  BY Lengths DEF p4b, KillAt, CreateAt, JumpAt
<1>15. prog = "p4c" => Fact
  BY Lengths DEF p4c, KillAt, CreateAt, JumpAt
<1>16. prog = "p5" => Fact
  BY Lengths DEF p5, KillAt, CreateAt, JumpAt
<1>17. prog = "p6" => Fact
  BY Lengths DEF p6, KillAt, CreateAt, JumpAt
<1>18. ASSUME prog = "p7root"
      PROVE  Fact
  <2>1. i \in 1 .. 20 /\ Text[prog] = p7root
    BY <1>18, Lengths
  <2>2. \A j \in 1 .. 20 : p7root[j][1] \in {"create", "created"} => j \in 2 .. 3
    BY DEF p7root
  <2>3. \A j \in 1 .. 20 : p7root[j][1] \in {"jump", "switch", "while"} => FALSE
    BY DEF p7root
  <2>4. \A j \in 1 .. 20 : p7root[j][1] \in {"kill", "killed"} => j \in 9 .. 12
    BY DEF p7root
  <2> QED
    BY <1>18, <2>1, <2>2, <2>3, <2>4 DEF KillAt, CreateAt, JumpAt
<1>19. prog = "child1" => Fact
  BY Lengths DEF child1, KillAt, CreateAt, JumpAt
<1>20. prog = "child2" => Fact
  BY Lengths DEF child2, KillAt, CreateAt, JumpAt
<1>21. prog = "p7leaf" => Fact
  BY Lengths DEF p7leaf, KillAt, CreateAt, JumpAt
<1>22. prog # "none"
  BY DEF Text
<1> QED
  BY <1>1, <1>2, <1>3, <1>4, <1>5, <1>6, <1>7, <1>8, <1>9, <1>10, <1>11,
     <1>12, <1>13, <1>14, <1>15, <1>16, <1>17, <1>18, <1>19, <1>20, <1>21, <1>22 DEF Text

LEMMA PlaceFact ==
  ASSUME Common, Tails, Stage, NEW p \in alive
  PROVE  pc[p] \in DOMAIN Text[program[p]]
<1>1. CASE p = first
  <2>1. \/ program[first] = "test" /\ pc[first] \in 1 .. 19
        \/ program[first] = "p7loop" /\ pc[first] \in 1 .. 11
        \/ program[first] = "p1end" /\ pc[first] \in 1 .. 3
    BY DEF Stage, StageA, StageB1, StageB2, StageC1, StageC2, StageC3, StageC4, StageD1, StageD2,
           StageE, StageF, WaitsP3, At1
  <2> QED
    BY <1>1, <2>1, Lengths
<1>2. CASE p # first /\ TailPlace(program[p], pc[p])
  BY <1>2, Lengths DEF TailPlace
<1>3. CASE p \in Crew
  <2>1. ~(StageA \/ StageB2 \/ StageC4 \/ StageD2 \/ StageE)
    BY <1>3 DEF StageA, StageB2, StageC4, StageD2, StageE
  <2>2. CASE StageB1
    BY <1>3, <2>2, Lengths DEF StageB1, RunsP2
  <2>3. CASE StageC1
    BY <1>3, <2>3, Lengths DEF StageC1, RunsP3
  <2>4. CASE StageC2
    BY <1>3, <2>4, Lengths DEF StageC2, RunBothP3
  <2>5. CASE StageC3
    BY <1>3, <2>5, Lengths DEF StageC3, EndsP3
  <2>6. CASE StageD1
    BY <1>3, <2>6, Lengths DEF StageD1, RunsP4
  <2>7. CASE StageF
    <3>1. PICK cast \in [Role -> Process], here \in SUBSET Role : Plays(cast, here)
      BY <2>7 DEF StageF
    <3>2. PICK x \in here : p = cast[x] /\ program[p] = Part(x)
      BY <1>3, <3>1 DEF Plays, Family
    <3>3. CASE x = "p7pid"
      <4>1. program[p] = "p7root" /\ pc[p] \in 1 .. 19
        BY <3>1, <3>2, <3>3 DEF Plays, Grows, Shrinks, Part
      <4> QED
        BY <4>1, Lengths
    <3>4. CASE x \in Child
      <4>1. program[p] \in {"child1", "child2"} /\ pc[p] \in 1 .. 5
        BY <3>1, <3>2, <3>4 DEF Plays, Grows, Shrinks, Part, Child
      <4> QED
        BY <4>1, Lengths
    <3>5. CASE x \in Leaf
      <4>1. program[p] = "p7leaf"
        BY <3>2, <3>5 DEF Part, Leaf, Child
      <4>2. pc[p] \in 1 .. 4
        BY <3>1, <3>2, <3>5 DEF Plays, Grows, Shrinks
      <4> QED
        BY <4>1, <4>2, Lengths
    <3> QED
      BY <3>2, <3>3, <3>4, <3>5 DEF Role
  <2> QED
    BY <2>1, <2>2, <2>3, <2>4, <2>5, <2>6, <2>7 DEF Stage
<1> QED
  BY <1>1, <1>2, <1>3 DEF Crew

------------------------------------------------------------------------------
(* There are names enough.                                                  *)

LEMMA CrewFact ==
  ASSUME Common, Stage, NEW q \in Crew
  PROVE  /\ program[q] \notin {"test", "p7loop", "p1end"}
         /\ program[q] = "p3" => memory["p3inc"] \in 1 .. 2
         /\ TailPlace(program[q], pc[q] + 1) =>
              Crew = {q} /\ pc[first] >= Since[Origin(program[q])]
<1>1. ~(StageA \/ StageB2 \/ StageC4 \/ StageD2 \/ StageE)
  BY DEF StageA, StageB2, StageC4, StageD2, StageE
<1>2. CASE StageB1
  BY <1>2 DEF StageB1, RunsP2, At1, TailPlace, Origin, Since
<1>3. CASE StageC1
  BY <1>3 DEF StageC1, RunsP3, TailPlace, Debt
<1>4. CASE StageC2
  BY <1>4 DEF StageC2, RunBothP3, TailPlace
<1>5. CASE StageC3
  BY <1>5 DEF StageC3, WaitsP3, EndsP3, At1, TailPlace, Origin, Since
<1>6. CASE StageD1
  BY <1>6 DEF StageD1, RunsP4, At1, TailPlace, Origin, Since
<1>7. CASE StageF
  <2>1. PICK cast \in [Role -> Process], here \in SUBSET Role : Plays(cast, here)
    BY <1>7 DEF StageF
  <2>2. PICK x \in here : q = cast[x] /\ program[q] = Part(x)
    BY <2>1 DEF Plays, Family
  <2>3. program[q] \in {"p7root", "child1", "child2", "p7leaf"}
    BY <2>2 DEF Part, Child
  <2> QED
    BY <2>3 DEF TailPlace
<1> QED
  BY <1>1, <1>2, <1>3, <1>4, <1>5, <1>6, <1>7 DEF Stage

LEMMA FirstFact ==
  ASSUME Stage
  PROVE  program[first] \in {"test", "p7loop", "p1end"}
BY DEF Stage, StageA, StageB1, StageB2, StageC1, StageC2, StageC3, StageC4, StageD1, StageD2,
       StageE, StageF, WaitsP3, At1

(* The kinds of steps of p: it and the rest stay or go on to the next       *)
(* instructions, or it jumps, or it creates a process.                      *)
Straight(p) ==
  /\ alive' \subseteq alive
  /\ \A q \in alive' :
       program'[q] = program[q] /\ (pc'[q] = pc[q] \/ (q = p /\ pc'[q] = pc[q] + 1))
  /\ first \in alive' \/ program'[first] = "none"

Turned(p) ==
  \E w : /\ alive' = alive /\ Jump(p, w)
         /\ IF p = first THEN w # "test" ELSE Origin(w) = Origin(program[p]) /\ w \notin {"p5", "p6"}

Spawned(p) ==
  \E new \in Process \ alive :
    /\ alive' = alive \cup {new}
    /\ program' = [program EXCEPT ![new] = Text[program[p]][pc[p]][2]]
    /\ pc' = [pc EXCEPT ![p] = @ + 1, ![new] = 1]
    /\ CreateAt(program[p], pc[p])

LEMMA InText ==
  ASSUME Common, Tails, Stage, NEW p \in alive, NEW op, At(p, op),
         op \notin {"P", "waitio", "assert", "V"}
  PROVE  /\ ~Calls(p) /\ instruction(p) = Text[program[p]][pc[p]] /\ Text[program[p]][pc[p]][1] = op
         /\ program[p] \in DOMAIN Text /\ pc[p] \in DOMAIN Text[program[p]]
<1>1. program[p] \in DOMAIN Text /\ line[p] \in 0 .. 3 /\ pc[p] \in DOMAIN Text[program[p]]
  BY PlaceFact DEF Common, Types
<1>2. ~Calls(p)
  <2>1. \A i \in 1 .. 4 : print[i][1] \in {"P", "waitio", "assert", "V"}
    BY DEF print
  <2>2. Calls(p) => instruction(p) = print[line[p] + 1]
    BY DEF instruction
  <2> QED
    BY <1>1, <2>1, <2>2 DEF At
<1> QED
  BY <1>1, <1>2 DEF instruction, At

LEMMA OtherProgram ==
  ASSUME Common, Stage, NEW p \in alive, p # first
  PROVE  program[p] \notin {"test", "p7loop", "p1end"}
BY CrewFact DEF Crew, TailPlace

LEMMA BranchTurns ==
  ASSUME Common, Tails, Stage, NEW p \in alive, Acts(p), Branch(p)
  PROVE  Turned(p)
<1>1. PICK op \in {"jump", "switch", "while"} : At(p, op)
  BY DEF Branch
<1>2. JumpAt(program[p], pc[p])
  BY <1>1, InText, TextFact
<1>3. alive' = alive
  BY DEF Branch, lifeVars, alive
<1>4. CASE \/ program[p] = "test" /\ pc[p] = 19
           \/ program[p] = "p7loop" /\ pc[p] = 11
  <2>1. Text[program[p]][pc[p]] = <<"while", "p7loop", "p1end">>
    <3>1. Text["test"] = test /\ Text["p7loop"] = p7loop
      BY Lengths
    <3>2. test[19] = <<"while", "p7loop", "p1end">>
      BY DEF test
    <3>3. p7loop[11] = <<"while", "p7loop", "p1end">>
      BY DEF p7loop
    <3> QED
      BY <1>4, <3>1, <3>2, <3>3
  <2>2. Jump(p, "p7loop") \/ Jump(p, "p1end")
    BY <2>1, WhileStep
  <2>3. p = first
    BY <1>4, OtherProgram
  <2> QED
    BY <1>3, <2>2, <2>3 DEF Turned
<1>5. CASE program[p] = "p3" /\ pc[p] = 1
  <2>1. Text[program[p]][pc[p]] = <<"switch", "p3inc", "p3first", "p3second">>
    BY <1>5 DEF Text, p3
  <2>2. p # first /\ p \in Crew
    BY <1>5, FirstFact DEF Crew, TailPlace
  <2>3. Jump(p, IF memory["p3inc"] = 1 THEN "p3first" ELSE "p3second")
    BY <1>5, <2>1, <2>2, CrewFact, SwitchStep
  <2> QED
    BY <1>3, <1>5, <2>2, <2>3 DEF Turned, Origin
<1>6. CASE \/ program[p] = "p3first" /\ pc[p] = 4
           \/ program[p] = "p3second" /\ pc[p] = 3
  <2>1. Text[program[p]][pc[p]] = <<"jump", "p3rest">>
    BY <1>6 DEF Text, p3first, p3second
  <2>2. Jump(p, "p3rest") /\ p # first
    BY <1>6, <2>1, JumpStep, FirstFact
  <2> QED
    BY <1>3, <1>6, <2>2 DEF Turned, Origin
<1>7. CASE \/ program[p] = "p4prog" /\ pc[p] = 2
           \/ program[p] \in {"p4mm", "p4sys"} /\ pc[p] = 3
  <2>1. \E w \in {"p4a", "p4b", "p4c"} : Text[program[p]][pc[p]] = <<"jump", w>>
    BY <1>7 DEF Text, p4prog, p4mm, p4sys
  <2>2. \E w \in {"p4a", "p4b", "p4c"} : Jump(p, w)
    BY <2>1, JumpStep
  <2>3. p # first
    BY <1>7, FirstFact
  <2> QED
    BY <1>3, <1>7, <2>2, <2>3 DEF Turned, Origin
<1> QED
  BY <1>2, <1>4, <1>5, <1>6, <1>7 DEF JumpAt

LEMMA StepKinds ==
  ASSUME Common, Tails, Stage, NEW p \in alive, Acts(p)
  PROVE  Straight(p) \/ Turned(p) \/ Spawned(p)
<1>a. /\ p \in Process /\ first \in alive /\ alive \subseteq Process
      /\ program \in [Process -> DOMAIN Text] /\ pc \in [Process -> Nat]
  BY DEF Common, Types
<1>1. ASSUME UNCHANGED ancestors, UNCHANGED program, pc' = pc \/ Return(p)
      PROVE  Straight(p)
  BY <1>a, <1>1 DEF Straight, Return, alive
<1>2. Advance(p) => UNCHANGED program /\ (pc' = pc \/ Return(p))
  BY DEF Advance
<1>3. ASSUME NEW v, Kill(p, v)
      PROVE  Straight(p)
  BY <1>a, <1>3 DEF Straight, Kill, Terminate, alive
<1>4. CASE Waitio(p) \/ Semaphore(p) \/ Clear(p) \/ Check(p)
  BY <1>1, <1>2, <1>4 DEF Waitio, Semaphore, Clear, Check, P, V, Release, lifeVars
<1>5. CASE Mute(p) \/ Set(p)
  BY <1>1, <1>2, <1>5 DEF Mute, Set, lifeVars
<1>6. CASE Spawn(p)
  <2>1. PICK op \in {"create", "created"} : At(p, op)
    BY <1>6 DEF Spawn
  <2>2. /\ instruction(p) = Text[program[p]][pc[p]] /\ Text[program[p]][pc[p]][1] = op
        /\ program[p] \in DOMAIN Text /\ pc[p] \in DOMAIN Text[program[p]]
    BY <2>1, InText
  <2>3. CreateAt(program[p], pc[p])
    BY <2>2, TextFact
  <2>4. Process \ alive # {}
    BY <2>2 DEF Acts
  <2> QED
    BY <1>6, <2>2, <2>3, <2>4 DEF Spawn, Spawned, Create, alive
<1>7. CASE KillPid(p) \/ Exit(p) \/ SpecPassUp(p)
  <2>1. CASE KillPid(p)
    BY <1>1, <1>2, <1>3, <2>1 DEF KillPid, lifeVars
  <2>2. CASE Exit(p)
    BY <1>3, <2>2 DEF Exit
  <2>3. CASE SpecPassUp(p)
    <3>1. CASE \E v : Kill(p, v)
      BY <1>3, <3>1
    <3>2. CASE UNCHANGED lifeVars /\ UNCHANGED program /\ pc' = [pc EXCEPT ![p] = @ + 1]
      BY <1>a, <3>2 DEF Straight, lifeVars, alive
    <3> QED
      BY <2>3, <3>1, <3>2 DEF SpecPassUp
  <2> QED
    BY <1>7, <2>1, <2>2, <2>3
<1>8. CASE Exception(p)
  <2> DEFINE t == instruction(p)[2]
  <2>1. CASE t \notin handlers[p]
    BY <1>3, <1>8, <2>1 DEF Exception
  <2>2. CASE t \in handlers[p]
    <3>1. Jump(p, Handler[t]) /\ alive' = alive
      BY <1>8, <2>2 DEF Exception, lifeVars, alive
    <3>2. program[p] \in P4Programs /\ t \in DOMAIN Handler
      BY <1>a, <2>2 DEF Common, Specified, Types
    <3>3. Handler[t] \in {"p4prog", "p4mm", "p4sys"}
      BY <3>2 DEF Handler
    <3>4. p # first
      BY <3>2, FirstFact DEF P4Programs
    <3> QED
      BY <3>1, <3>2, <3>3, <3>4 DEF Turned, Origin, P4Programs
  <2> QED
    BY <2>1, <2>2
<1>9. CASE Branch(p)
  BY <1>9, BranchTurns
<1> QED
  BY <1>4, <1>5, <1>6, <1>7, <1>8, <1>9 DEF Acts, Step

LEMMA TailOrigin ==
  ASSUME NEW q \in AtTail
  PROVE  q \in alive \ {first} /\ Origin(program[q]) \in DOMAIN Since /\ q \notin Crew
BY DEF AtTail, TailPlace, Origin, Since, Crew

(* Nobody but p comes to its tail, p from the crew.                         *)
LEMMA FewKept ==
  ASSUME Common, Stage, FewTails, NEW p \in alive, alive' \subseteq alive,
         \A q \in alive' \ {first} : Origin(program'[q]) = Origin(program[q]),
         program'[first] = "test" =>
           program[first] = "test" /\ pc'[first] \in {pc[first], pc[first] + 1},
         \A q \in AtTail' : q \in AtTail \/ (q = p /\ TailPlace(program[p], pc[p] + 1))
  PROVE  FewTails'
<1>a. pc \in [Process -> Nat] /\ first \in Process /\ alive \subseteq Process
  BY DEF Common, Types
<1> SUFFICES ASSUME NEW q \in AtTail'
             PROVE  /\ \A r \in alive' \ {first} :
                         Origin(program'[r]) = Origin(program'[q]) => r = q
                    /\ program'[first] = "test" => pc'[first] >= Since[Origin(program'[q])]
  BY DEF FewTails
<1>1. q \in alive' \ {first} /\ Origin(program'[q]) = Origin(program[q])
  BY DEF AtTail
<1>b. Since[Origin(program[q])] \in Nat
  <2>1. TailPlace(program'[q], pc'[q])
    BY DEF AtTail
  <2>2. Origin(program[q]) \in DOMAIN Since
    BY <1>1, <2>1 DEF TailPlace, Origin, Since
  <2> QED
    BY <2>2 DEF Since
<1>2. CASE q \in AtTail
  <2>1. program[first] = "test" => pc[first] >= Since[Origin(program[q])]
    BY <1>2 DEF FewTails
  <2>2. \A r \in alive \ {first} : Origin(program[r]) = Origin(program[q]) => r = q
    BY <1>2 DEF FewTails
  <2> QED
    BY <1>a, <1>b, <1>1, <2>1, <2>2
<1>3. CASE q \notin AtTail
  <2>1. q = p /\ TailPlace(program[p], pc[p] + 1) /\ p \in Crew
    BY <1>1, <1>3 DEF AtTail, Crew
  <2>2. Crew = {p} /\ pc[first] >= Since[Origin(program[p])]
    BY <2>1, CrewFact
  <2>3. ASSUME NEW r \in alive \ {first}, Origin(program[r]) = Origin(program[q]), r # q
        PROVE  FALSE
    <3>1. r \in AtTail
      BY <2>1, <2>2, <2>3 DEF AtTail, Crew
    <3> QED
      BY <1>1, <2>1, <2>3, <3>1 DEF FewTails
  <2> QED
    BY <1>a, <1>b, <1>1, <2>1, <2>2, <2>3
<1> QED
  BY <1>2, <1>3

(* Who is created is the only one for its function.                         *)
LEMMA FewSpawned ==
  ASSUME Common, Tails, Stage, FewTails, NEW p \in alive, Spawned(p)
  PROVE  FewTails'
<1>a. /\ p \in Process /\ first \in alive /\ alive \subseteq Process
      /\ program \in [Process -> DOMAIN Text] /\ pc \in [Process -> Nat]
  BY DEF Common, Types
<1>1. PICK new \in Process \ alive :
        /\ alive' = alive \cup {new}
        /\ program' = [program EXCEPT ![new] = Text[program[p]][pc[p]][2]]
        /\ pc' = [pc EXCEPT ![p] = @ + 1, ![new] = 1]
  BY DEF Spawned
<1>2. CreateAt(program[p], pc[p])
  BY DEF Spawned
<1> DEFINE prog == Text[program[p]][pc[p]][2]
<1>3. /\ program'[new] = prog /\ pc'[new] = 1 /\ pc'[p] = pc[p] + 1 /\ p # new /\ new # first
      /\ \A q \in alive : program'[q] = program[q] /\ (q # p => pc'[q] = pc[q])
  BY <1>a, <1>1
<1>4. ~TailPlace(program[p], pc[p]) /\ ~TailPlace(program[p], pc[p] + 1)
  BY <1>2 DEF CreateAt, TailPlace
<1>5. /\ \A q \in AtTail : q \in AtTail' /\ program'[q] = program[q]
      /\ \A q \in AtTail' : q \in AtTail \/ (q = new /\ prog \in {"p5", "p6"})
  <2>1. ASSUME NEW q \in AtTail
        PROVE  q \in AtTail' /\ program'[q] = program[q]
    BY <1>a, <1>1, <1>3, <1>4, <2>1 DEF AtTail
  <2>2. ASSUME NEW q \in AtTail'
        PROVE  q \in AtTail \/ (q = new /\ prog \in {"p5", "p6"})
    <3>1. CASE q = new
      BY <1>3, <2>2, <3>1 DEF AtTail, TailPlace
    <3>2. CASE q = p
      BY <1>a, <1>3, <1>4, <2>2, <3>2 DEF AtTail
    <3>3. CASE q # new /\ q # p
      BY <1>1, <1>3, <2>2, <3>3 DEF AtTail
    <3> QED
      BY <3>1, <3>2, <3>3
  <2> QED
    BY <2>1, <2>2
<1>6. pc'[first] >= pc[first] /\ program'[first] = program[first]
  BY <1>a, <1>3
<1>7. /\ \A q \in AtTail : Origin(program[q]) # Origin(prog)
      /\ prog \in {"p5", "p6"} =>
           /\ \A r \in alive \ {first} : Origin(program[r]) # prog
           /\ pc'[first] >= Since[prog]
  <2>1. CASE program[p] = "test"
    <3>1. p = first
      BY <2>1, OtherProgram
    <3>2. /\ pc[p] \in {4, 10, 13, 16, 17}
          /\ prog = IF pc[p] = 4 THEN "p2" ELSE IF pc[p] = 10 THEN "p3" ELSE IF pc[p] = 13 THEN "p4"
                    ELSE IF pc[p] = 16 THEN "p5" ELSE "p6"
      <4>1. /\ test[4][2] = "p2" /\ test[10][2] = "p3" /\ test[13][2] = "p4"
            /\ test[16][2] = "p5" /\ test[17][2] = "p6" /\ Text["test"] = test
        BY Lengths DEF test
      <4>2. pc[p] \in {4, 10, 13, 16, 17}
        BY <1>2, <2>1 DEF CreateAt
      <4> QED
        BY <2>1, <4>1, <4>2
    <3>3. Origin(prog) = prog /\ Since[prog] = pc[first] + 1
      BY <3>1, <3>2 DEF Origin, Since
    <3>4. \A q \in AtTail : Origin(program[q]) # Origin(prog)
      BY <1>a, <2>1, <3>1, <3>3 DEF FewTails
    <3>5. ASSUME prog \in {"p5", "p6"}
          PROVE  Crew = {}
      <4>1. pc[first] \in 16 .. 17
        BY <3>1, <3>2, <3>5
      <4>2. ~StageA /\ ~StageB1 /\ ~StageB2 /\ ~StageC4 /\ ~StageD1 /\ ~StageE /\ ~StageF
        BY <2>1, <3>1, <4>1 DEF StageA, StageB1, StageB2, StageC4, StageD1, StageE, StageF, At1
      <4>3. ~WaitsP3
        BY <4>1 DEF WaitsP3, At1
      <4> QED
        BY <4>2, <4>3 DEF Stage, StageC1, StageC2, StageC3, StageD2
    <3>6. ASSUME prog \in {"p5", "p6"}, NEW r \in alive \ {first}
          PROVE  r \in AtTail
      BY <3>5, <3>6 DEF Crew, AtTail
    <3>7. pc'[first] = pc[first] + 1
      BY <1>3, <3>1
    <3> QED
      BY <1>a, <3>3, <3>4, <3>6, <3>7
  <2>2. CASE program[p] = "p3rest"
    <3>1. prog = "p3"
      <4>1. Text["p3rest"] = p3rest /\ p3rest[5][2] = "p3"
        BY Lengths DEF p3rest
      <4> QED
        BY <1>2, <2>2, <4>1 DEF CreateAt
    <3>2. p # first /\ p \notin AtTail
      BY <1>4, <2>2, FirstFact DEF AtTail
    <3>3. \A q \in AtTail : Origin(program[q]) # Origin(prog)
      BY <2>2, <3>1, <3>2 DEF FewTails, Origin
    <3> QED
      BY <3>1, <3>3
  <2>3. CASE program[p] \in {"p7loop", "p7root", "child1", "child2"}
    <3>1. prog \in {"p7root", "child1", "child2", "p7leaf"}
      <4>1. /\ Text["p7loop"] = p7loop /\ Text["p7root"] = p7root
            /\ Text["child1"] = child1 /\ Text["child2"] = child2
        BY Lengths
      <4>2. p7loop[4][2] = "p7root"
        BY DEF p7loop
      <4>3. p7root[2][2] = "child1" /\ p7root[3][2] = "child2"
        BY DEF p7root
      <4>4. child1[2][2] = "p7leaf" /\ child1[3][2] = "p7leaf"
        BY DEF child1
      <4>5. child2[2][2] = "p7leaf" /\ child2[3][2] = "p7leaf"
        BY DEF child2
      <4>6. \/ program[p] = "p7loop" /\ pc[p] = 4
            \/ program[p] \in {"p7root", "child1", "child2"} /\ (pc[p] = 2 \/ pc[p] = 3)
        BY <1>2, <2>3 DEF CreateAt
      <4> QED
        BY <4>1, <4>2, <4>3, <4>4, <4>5, <4>6
    <3>2. \A q \in AtTail : Origin(program[q]) \in {"p2", "p3", "p4", "p5", "p6"}
      BY DEF AtTail, TailPlace, Origin
    <3> QED
      BY <3>1, <3>2 DEF Origin
  <2> QED
    BY <1>2, <2>1, <2>2, <2>3 DEF CreateAt
<1> SUFFICES ASSUME NEW q \in AtTail'
             PROVE  /\ \A r \in alive' \ {first} :
                         Origin(program'[r]) = Origin(program'[q]) => r = q
                    /\ program'[first] = "test" => pc'[first] >= Since[Origin(program'[q])]
  BY DEF FewTails
<1> HIDE DEF prog
<1>8. CASE q \in AtTail
  <2>1. /\ q \in alive /\ Origin(program[q]) \in DOMAIN Since
        /\ Since[Origin(program[q])] \in Nat
    BY <1>8, TailOrigin DEF Since
  <2>2. program'[first] = "test" => pc'[first] >= Since[Origin(program[q])]
    BY <1>a, <1>3, <1>6, <1>8, <2>1 DEF FewTails
  <2>3. \A r \in alive \ {first} : Origin(program[r]) = Origin(program[q]) => r = q
    BY <1>8 DEF FewTails
  <2>4. \A r \in alive' \ {first} : Origin(program'[r]) = Origin(program[q]) => r = q
    BY <1>1, <1>3, <1>7, <1>8, <2>3
  <2> QED
    BY <1>3, <2>1, <2>2, <2>4
<1>9. CASE q \notin AtTail
  <2>1. q = new /\ prog \in {"p5", "p6"} /\ Origin(prog) = prog
    BY <1>5, <1>9 DEF Origin
  <2> QED
    BY <1>1, <1>3, <1>7, <2>1
<1> QED
  BY <1>8, <1>9

LEMMA FewStep ==
  ASSUME Common, Tails, Stage, FewTails, NEW p \in alive, Acts(p)
  PROVE  FewTails'
<1>a. /\ p \in Process /\ first \in alive /\ alive \subseteq Process
      /\ program \in [Process -> DOMAIN Text] /\ pc \in [Process -> Nat]
  BY DEF Common, Types
<1>1. CASE Straight(p)
  <2>1. \A q \in alive' \ {first} : Origin(program'[q]) = Origin(program[q])
    BY <1>1 DEF Straight
  <2>2. program'[first] = "test" =>
          program[first] = "test" /\ pc'[first] \in {pc[first], pc[first] + 1}
    BY <1>a, <1>1 DEF Straight
  <2>3. \A q \in AtTail' : q \in AtTail \/ (q = p /\ TailPlace(program[p], pc[p] + 1))
    BY <1>1 DEF Straight, AtTail
  <2> QED
    BY <1>1, <2>1, <2>2, <2>3, FewKept DEF Straight
<1>2. CASE Turned(p)
  <2>1. PICK w : /\ alive' = alive /\ Jump(p, w)
                 /\ IF p = first THEN w # "test"
                    ELSE Origin(w) = Origin(program[p]) /\ w \notin {"p5", "p6"}
    BY <1>2 DEF Turned
  <2>2. /\ program'[p] = w /\ pc'[p] = 1
        /\ \A q \in alive \ {p} : program'[q] = program[q] /\ pc'[q] = pc[q]
    BY <1>a, <2>1 DEF Jump
  <2>3. \A q \in alive' \ {first} : Origin(program'[q]) = Origin(program[q])
    BY <2>1, <2>2
  <2>4. program'[first] = "test" =>
          program[first] = "test" /\ pc'[first] \in {pc[first], pc[first] + 1}
    BY <1>a, <2>1, <2>2
  <2>5. \A q \in AtTail' : q \in AtTail
    BY <2>1, <2>2 DEF AtTail, TailPlace
  <2> QED
    BY <2>1, <2>3, <2>4, <2>5, FewKept
<1>3. CASE Spawned(p)
  BY <1>3, FewSpawned
<1> QED
  BY <1>1, <1>2, <1>3, StepKinds

AtMost(n, S) == IsFiniteSet(S) /\ Cardinality(S) <= n

LEMMA OneMore ==
  ASSUME NEW S, NEW n \in Nat, AtMost(n, S), NEW x
  PROVE  AtMost(n + 1, S \cup {x})
<1>1. IsFiniteSet(S) /\ Cardinality(S) \in Nat /\ Cardinality(S) <= n
  BY FS_CardinalityType DEF AtMost
<1>2. /\ IsFiniteSet(S \cup {x})
      /\ Cardinality(S \cup {x}) = IF x \in S THEN Cardinality(S) ELSE Cardinality(S) + 1
  BY <1>1, FS_AddElement
<1> QED
  BY <1>1, <1>2 DEF AtMost

LEMMA AtMostFive ==
  ASSUME NEW v, NEW w, NEW x, NEW y, NEW z
  PROVE  AtMost(2, {v, w}) /\ AtMost(5, {v, w, x, y, z})
<1>1. AtMost(1, {v})
  <2>1. IsFiniteSet({v}) /\ Cardinality({v}) = 1
    BY FS_Singleton
  <2> QED
    BY <2>1 DEF AtMost
<1>2. AtMost(1 + 1, {v} \cup {w})
  BY <1>1, OneMore
<1>3. AtMost(2, {v, w})
  <2>1. {v} \cup {w} = {v, w} /\ 1 + 1 = 2
    OBVIOUS
  <2> QED
    BY <1>2, <2>1
<1>4. AtMost(3, {v, w, x})
  <2>1. AtMost(2 + 1, {v, w} \cup {x})
    BY <1>3, OneMore
  <2>2. {v, w} \cup {x} = {v, w, x} /\ 2 + 1 = 3
    OBVIOUS
  <2> QED
    BY <2>1, <2>2
<1>5. AtMost(4, {v, w, x, y})
  <2>1. AtMost(3 + 1, {v, w, x} \cup {y})
    BY <1>4, OneMore
  <2>2. {v, w, x} \cup {y} = {v, w, x, y} /\ 3 + 1 = 4
    OBVIOUS
  <2> QED
    BY <2>1, <2>2
<1>6. AtMost(5, {v, w, x, y, z})
  <2>1. AtMost(4 + 1, {v, w, x, y} \cup {z})
    BY <1>5, OneMore
  <2>2. {v, w, x, y} \cup {z} = {v, w, x, y, z} /\ 4 + 1 = 5
    OBVIOUS
  <2> QED
    BY <2>1, <2>2
<1> QED
  BY <1>3, <1>6

LEMMA SmallSets == AtMost(5, DOMAIN Since) /\ AtMost(7, Role)
<1>1. DOMAIN Since = {"p2", "p3", "p4", "p5", "p6"}
  BY DEF Since
<1>2. AtMost(5, {"p2", "p3", "p4", "p5", "p6"})
  BY AtMostFive
<1> DEFINE five == {"p7pid", "child1", "child2", "leaf1pid", "leaf2pid"}
           six == five \cup {"leaf3pid"}
<1>3. AtMost(5, five)
  BY AtMostFive
<1>4. Role = six \cup {"leaf4pid"}
  BY DEF Role, Child, Leaf
<1> HIDE DEF five
<1>5. AtMost(5 + 1, six)
  BY <1>3, OneMore
<1> HIDE DEF six
<1>6. AtMost(6, six)
  <2>1. 5 + 1 = 6
    OBVIOUS
  <2> QED
    BY <1>5, <2>1
<1>7. AtMost(6 + 1, six \cup {"leaf4pid"})
  BY <1>6, OneMore
<1>8. AtMost(7, Role)
  <2>1. 6 + 1 = 7
    OBVIOUS
  <2> QED
    BY <1>4, <1>7, <2>1
<1> QED
  BY <1>1, <1>2, <1>8

LEMMA TailsCounted ==
  ASSUME Common, FewTails
  PROVE  IsFiniteSet(AtTail) /\ Cardinality(AtTail) <= 5
<1>1. IsFiniteSet(AtTail)
  BY ProcessFact, FS_Subset DEF Common, Types, AtTail
<1> DEFINE f == [q \in AtTail |-> Origin(program[q])]
<1>2. f \in [AtTail -> DOMAIN Since]
  BY TailOrigin
<1>3. \A q, r \in AtTail : f[q] = f[r] => q = r
  BY DEF FewTails, AtTail
<1> HIDE DEF f
<1>4. ~(Cardinality(DOMAIN Since) < Cardinality(AtTail))
  BY <1>1, <1>2, <1>3, SmallSets, FS_PigeonHole DEF AtMost
<1>5. Cardinality(AtTail) \in Nat /\ Cardinality(DOMAIN Since) \in Nat
  BY <1>1, SmallSets, FS_CardinalityType DEF AtMost
<1> QED
  BY <1>1, <1>4, <1>5, SmallSets DEF AtMost

(* Who creates is not yet with all of its family.                           *)
LEMMA CrewCounted ==
  ASSUME Common, Tails, Stage, NEW p \in alive, CreateAt(program[p], pc[p])
  PROVE  IsFiniteSet(Crew) /\ Cardinality(Crew) <= 6
<1>1. IsFiniteSet(Crew) /\ Cardinality(Crew) \in Nat
  BY ProcessFact, FS_Subset, FS_CardinalityType DEF Common, Types, Crew
<1>2. ASSUME NEW a, NEW b, Crew \subseteq {a, b}
      PROVE  Cardinality(Crew) <= 6
  <2>1. IsFiniteSet({a, b}) /\ Cardinality({a, b}) <= 2
    BY AtMostFive DEF AtMost
  <2>2. Cardinality(Crew) <= Cardinality({a, b}) /\ Cardinality({a, b}) \in Nat
    BY <1>2, <2>1, FS_Subset, FS_CardinalityType
  <2> QED
    BY <1>1, <2>1, <2>2
<1>3. CASE ~StageF
  <2>1. \E a, b : Crew \subseteq {a, b}
    BY <1>3 DEF Stage, StageA, StageB1, StageB2, StageC1, StageC2, StageC3, StageC4, StageD1,
           StageD2, StageE, RunsP2, RunsP3, RunBothP3, EndsP3, RunsP4
  <2> QED
    BY <1>1, <1>2, <2>1
<1>4. CASE StageF
  <2>1. PICK cast \in [Role -> Process], here \in SUBSET Role : Plays(cast, here)
    BY <1>4 DEF StageF
  <2>2. At1("p7loop", 5, 6)
    BY <1>4 DEF StageF
  <2>3. p # first /\ p \in Crew
    BY <1>4, <2>2, OtherProgram DEF CreateAt, At1, Crew, TailPlace
  <2>4. PICK x \in here : p = cast[x] /\ program[p] = Part(x)
    BY <2>1, <2>3 DEF Plays, Family
  <2>5. pc[p] \in 2 .. 3 /\ x \in {"p7pid", "child1", "child2"}
    BY <2>4 DEF CreateAt, Part, Child
  <2>6. PICK z \in Role : z \notin here
    <3>1. CASE Grows(cast, here)
      <4>1. CASE x = "p7pid"
        BY <2>4, <2>5, <3>1, <4>1 DEF Grows, Role, Child
      <4>2. CASE x = "child1"
        BY <2>4, <2>5, <3>1, <4>2 DEF Grows, Role, Leaf
      <4>3. CASE x = "child2"
        BY <2>4, <2>5, <3>1, <4>3 DEF Grows, Role, Leaf
      <4> QED
        BY <2>5, <4>1, <4>2, <4>3
    <3>2. ~Shrinks(cast, here)
      BY <2>4, <2>5 DEF Shrinks, Child
    <3> QED
      BY <2>1, <3>1, <3>2 DEF Plays
  <2> DEFINE T == Role \ {z}
             f == [q \in Crew |-> CHOOSE y \in here : cast[y] = q]
  <2>7. IsFiniteSet(T) /\ Cardinality(T) \in Nat /\ Cardinality(T) <= 6
    <3>1. IsFiniteSet(Role) /\ Cardinality(Role) <= 7 /\ Cardinality(Role) \in Nat
      BY SmallSets, FS_CardinalityType DEF AtMost
    <3>2. IsFiniteSet(T) /\ Cardinality(T) = Cardinality(Role) - 1
      BY <2>6, <3>1, FS_RemoveElement
    <3> QED
      BY <3>1, <3>2, FS_CardinalityType
  <2>8. \A q \in Crew : f[q] \in here /\ cast[f[q]] = q
    BY <2>1 DEF Plays, Family
  <2>9. f \in [Crew -> T]
    BY <2>6, <2>8
  <2>10. \A q, r \in Crew : f[q] = f[r] => q = r
    BY <2>8
  <2> HIDE DEF f, T
  <2>11. ~(Cardinality(T) < Cardinality(Crew))
    BY <1>1, <2>7, <2>9, <2>10, FS_PigeonHole
  <2> QED
    BY <1>1, <2>7, <2>11
<1> QED
  BY <1>1, <1>3, <1>4

LEMMA Room ==
  ASSUME Common, Tails, Stage, FewTails, NEW p \in alive, Step(p)
  PROVE  Acts(p)
<1> SUFFICES ASSUME Text[program[p]][pc[p]][1] \in {"create", "created"}
             PROVE  Process \ alive # {}
  BY DEF Acts
<1>1. CreateAt(program[p], pc[p])
  BY PlaceFact, TextFact DEF Common, Types
<1>2. IsFiniteSet(Crew) /\ Cardinality(Crew) <= 6
  BY <1>1, CrewCounted
<1>3. IsFiniteSet(AtTail) /\ Cardinality(AtTail) <= 5
  BY TailsCounted
<1>4. IsFiniteSet(Crew \cup AtTail) /\ Cardinality(Crew \cup AtTail) <= 11
  <2>1. Cardinality(Crew \cup AtTail) = Cardinality(Crew) + Cardinality(AtTail) - Cardinality(Crew \cap AtTail)
    BY <1>2, <1>3, FS_Union
  <2>2. IsFiniteSet(Crew \cup AtTail) /\ IsFiniteSet(Crew \cap AtTail)
    BY <1>2, <1>3, FS_Union, FS_Intersection
  <2>3. Cardinality(Crew) \in Nat /\ Cardinality(AtTail) \in Nat /\ Cardinality(Crew \cap AtTail) \in Nat
    BY <1>2, <1>3, <2>2, FS_CardinalityType
  <2> QED
    BY <1>2, <1>3, <2>1, <2>2, <2>3
<1>5. alive = (Crew \cup AtTail) \cup {first}
  BY DEF Common, Crew, AtTail
<1>6. Cardinality(alive) <= 11 + 1
  BY <1>4, <1>5, OneMore DEF AtMost
<1>7. alive # Process
  <2>1. Cardinality(Process) >= 13 /\ Cardinality(Process) \in Nat
    BY TestAssumption, FS_CardinalityType
  <2> QED
    BY <1>6, <2>1
<1> QED
  BY <1>7 DEF Common, Types
------------------------------------------------------------------------------
LEMMA StepStage ==
  ASSUME Common, Tails, Stage, NEW p \in alive, Acts(p)
  PROVE  \/ Common' /\ Tails' /\ Stage'
         \/ Types' /\ alive' = {}
<1>1. CASE p = first
  BY <1>1, StepA, StepB1First, StepB2, StepCFirst, StepC4, StepD1First, StepD2, StepE, StepFFirst
     DEF Stage
<1>2. CASE p # first /\ TailPlace(program[p], pc[p])
  BY <1>2, TailStep
<1>3. CASE p # first /\ ~TailPlace(program[p], pc[p])
  <2>1. p \in Crew
    BY <1>3 DEF Crew
  <2>2. ~(StageA \/ StageB2 \/ StageC4 \/ StageD2 \/ StageE)
    BY <2>1 DEF StageA, StageB2, StageC4, StageD2, StageE
  <2> QED
    BY <2>1, <2>2, StepB1Crew, StepC1Crew, StepC2Crew, StepC3Crew, StepD1Crew, StepF DEF Stage
<1> QED
  BY <1>1, <1>2, <1>3

LEMMA NothingDone ==
  ASSUME TestInv, UNCHANGED <<lifeVars, testVars>>
  PROVE  TestInv'
<1>1. /\ Still /\ UNCHANGED <<ancestors, value, waiting, program, pc, line, handlers, memory, failed>>
      /\ alive' = alive
  BY DEF lifeVars, testVars, alive, Still
<1>2. Types'
  BY <1>1 DEF TestInv, Types, Still
<1>3. ASSUME alive # {}
      PROVE  Common' /\ Tails' /\ Stage' /\ FewTails'
  <2>1. Common /\ Tails /\ Stage /\ FewTails
    BY <1>3 DEF TestInv
  <2>2. Tree' /\ Specified'
    BY <1>1, <2>1 DEF Common, Tree, Specified
  <2>3. PrintInv'
    <3>1. Printing' = Printing
      BY <1>1 DEF Printing
    <3>2. \A q \in Printing : line'[q] = line[q] /\ program'[q] = program[q] /\ pc'[q] = pc[q]
      BY <1>1
    <3>3. \A k \in Sync : waiting'[k] \cap Printing = {}
      BY <1>1, <2>1 DEF Common, PrintInv
    <3> QED
      BY <1>1, <2>1, <3>1, <3>2, <3>3, PrintKeep DEF Common, PrintInv
  <2>4. Common'
    BY <1>1, <1>2, <2>1, <2>2, <2>3 DEF Common
  <2>5. Lingers /\ SameSync
    BY <1>1 DEF Lingers, SameSync
  <2>6. FewTails'
    BY <1>1, <2>1 DEF FewTails, AtTail
  <2> QED
    BY <1>1, <2>1, <2>4, <2>5, <2>6, LingersUnseen
<1> QED
  BY <1>1, <1>2, <1>3 DEF TestInv

LEMMA InvStep == TestInv /\ [TestNext]_<<lifeVars, testVars>> => TestInv'
<1> SUFFICES ASSUME TestInv, [TestNext]_<<lifeVars, testVars>>
             PROVE  TestInv'
  OBVIOUS
<1>1. ASSUME NEW p \in alive, Step(p)
      PROVE  TestInv'
  <2>1. Common /\ Tails /\ Stage /\ FewTails
    BY <1>1 DEF TestInv
  <2>2. Acts(p)
    BY <1>1, <2>1, Room
  <2>3. \/ Common' /\ Tails' /\ Stage'
        \/ Types' /\ alive' = {}
    BY <2>1, <2>2, StepStage
  <2>4. FewTails'
    BY <2>1, <2>2, FewStep
  <2> QED
    BY <2>3, <2>4 DEF TestInv, Common
<1>2. CASE Transmitted /\ alive = {}
  <2>1. Types /\ \A k \in Key : waiting[k] = {}
    BY <1>2 DEF TestInv, Types
  <2>2. waiting' = waiting /\ value' = [value EXCEPT !["terminal"] = @ + 1] /\ alive' = alive
    BY <1>2, <2>1, KeyFact DEF Transmitted, Release, alive
  <2>3. terminal \in Process /\ terminal' = 0
    BY <1>2, <2>1 DEF Transmitted, Types
  <2>4. answer' \in [Process -> Process \cup {0}]
    BY <1>2, <2>1, <2>3 DEF Transmitted, Types
  <2>5. value' \in [Key -> Int]
    BY <2>1, <2>2, KeyFact DEF Types
  <2> QED
    BY <1>2, <2>1, <2>2, <2>3, <2>4, <2>5 DEF Transmitted, TestInv, Types
<1>3. CASE Transmitted /\ alive # {}
  <2>1. Common /\ Tails /\ Stage /\ FewTails
    BY <1>3 DEF TestInv
  <2>2. Common' /\ SameSync /\ memory' = memory /\ Lingers
    BY <1>3, <2>1, TransmittedKeeps
  <2>3. Tails' /\ Stage'
    BY <2>1, <2>2, LingersUnseen
  <2>4. UNCHANGED <<program, pc>> /\ alive' = alive
    BY <1>3 DEF Transmitted, Release, alive
  <2>5. FewTails'
    BY <2>1, <2>4 DEF FewTails, AtTail
  <2> QED
    BY <2>2, <2>3, <2>5 DEF TestInv, Common
<1>4. CASE Halted \/ UNCHANGED <<lifeVars, testVars>>
  BY <1>4, NothingDone DEF Halted
<1> QED
  BY <1>1, <1>2, <1>3, <1>4 DEF TestNext

LEMMA InvInit == TestInit => TestInv
<1> SUFFICES ASSUME TestInit
             PROVE  TestInv
  OBVIOUS
<1> DEFINE fresh == scenario.gone = 0
           left == [p7pid |-> 2, leaf1pid |-> 5, leaf2pid |-> 6, leaf3pid |-> 7, leaf4pid |-> 8]
<1>1. scenario \in Scenario /\ scenario.gone \in Nat
  BY TestAssumption DEF TestInit
<1>2. /\ alive = {first} /\ ancestors[first] = {first} /\ first \in Process
      /\ waiting = [k \in Key |-> {}] /\ value \in [Key -> Nat]
      /\ pc = [p \in Process |-> 1] /\ line = [p \in Process |-> 0]
      /\ handlers = [p \in Process |-> {}] /\ failed = {}
      /\ terminal = 0 /\ answer = [p \in Process |-> 0]
  BY TestAssumption DEF TestInit, LifeInit, alive
<1>3. /\ value = [k \in Key |-> CASE k = "term_mut" -> 1
                                  [] k = "blkp3" /\ fresh -> 1
                                  [] k = "blkp7" /\ ~fresh -> 1
                                  [] k = "blkp7child" /\ ~fresh -> 2
                                  [] k = "blkleaves" /\ ~fresh -> NOLEAVES
                                  [] OTHER -> 0]
      /\ memory = [v \in Variable |-> CASE v = "p3inc" -> 1
                                        [] v = "p7inc" -> scenario.gone
                                        [] v \in DOMAIN left /\ ~fresh -> left[v]
                                        [] OTHER -> 0]
      /\ program = [p \in Process |-> IF p # first THEN "none" ELSE IF fresh THEN "test" ELSE "p7loop"]
  BY DEF TestInit
<1>4. /\ {"none", "test", "p7loop"} \subseteq DOMAIN Text
  BY DEF Text
<1>5. memory \in [Variable -> Nat]
  <2>1. \A v \in DOMAIN left : left[v] \in Nat
    OBVIOUS
  <2> HIDE DEF left
  <2> QED
    BY <1>1, <1>3, <2>1
<1>6. /\ program[first] = IF fresh THEN "test" ELSE "p7loop"
      /\ pc[first] = 1 /\ line[first] = 0 /\ handlers[first] = {}
  BY <1>2, <1>3
<1>7. Types
  <2>1. value \in [Key -> Int] /\ waiting \in [Key -> SUBSET alive]
    BY <1>2
  <2>2. /\ program \in [Process -> DOMAIN Text] /\ pc \in [Process -> Nat] /\ line \in [Process -> 0 .. 3]
        /\ handlers \in [Process -> SUBSET DOMAIN Handler]
    BY <1>2, <1>3, <1>4
  <2>3. \A q \in Process \ alive : program[q] = "none" /\ pc[q] = 1 /\ line[q] = 0 /\ handlers[q] = {}
    BY <1>2, <1>3
  <2> QED
    BY <1>1, <1>2, <1>5, <2>1, <2>2, <2>3 DEF Types
<1>8. \A k \in Key : waiting[k] = {}
  BY <1>2
<1>9. Printing = {}
  BY <1>2, <1>6 DEF Printing
<1>10. value["term_mut"] = 1 /\ value["terminal"] = 0
  BY <1>3, KeyFact
<1>11. PrintInv
  BY <1>2, <1>6, <1>8, <1>9, <1>10, KeyFact DEF PrintInv, TerminalInv
<1>12. Common
  BY <1>2, <1>6, <1>7, <1>11 DEF Common, Tree, Specified
<1>13. Crew = {} /\ Tails /\ FewTails
  BY <1>2 DEF Crew, Tails, FewTails, AtTail
<1>14. CASE fresh
  <2>1. \A k \in Sync : value[k] = IF k = "blkp3" THEN 1 ELSE 0
    BY <1>3, <1>14, KeyFact
  <2>2. memory["p3inc"] = 1
    BY <1>3, VariableFact
  <2>3. Before3
    BY <1>8, <2>1, <2>2, SyncKeys, KeyFact DEF Before3, Before4, Before7, Between7, Has
  <2>4. StageA
    BY <1>6, <1>8, <1>13, <1>14, <2>1, <2>3, SyncKeys, KeyFact DEF StageA, At1, Has
  <2> QED
    BY <1>7, <1>12, <1>13, <2>4 DEF TestInv, Stage
<1>15. CASE ~fresh
  <2>1. value["blkp7"] = 1 /\ value["endp7"] = 0 /\ value["endcreate"] = 0
    BY <1>3, <1>15, SyncKeys, KeyFact
  <2>2. StageE
    BY <1>6, <1>8, <1>13, <1>15, <2>1, SyncKeys, KeyFact DEF StageE, Between7, At1, Has
  <2> QED
    BY <1>7, <1>12, <1>13, <2>2 DEF TestInv, Stage
<1> QED
  BY <1>14, <1>15

(* The test goes as its stages say, in every scenario, with any 13 or more  *)
(* names of processes, and whichever of the ready ones runs.                *)
THEOREM TestInvariant == TestSpec => []TestInv
<1>1. TestInit => TestInv
  BY InvInit
<1>2. TestInv /\ [TestNext]_<<lifeVars, testVars>> => TestInv'
  BY InvStep
<1> QED
  BY <1>1, <1>2, PTL DEF TestSpec
------------------------------------------------------------------------------
(* What follows of the test.                                                *)

(* Every process is at an instruction of its program.                       *)
THEOREM TestTypeCorrect == TestSpec => []TestTypeOK
<1>1. TestInv => TestTypeOK
  <2> SUFFICES ASSUME TestInv
               PROVE  TestTypeOK
    OBVIOUS
  <2>1. \A p \in alive : pc[p] \in DOMAIN Text[program[p]]
    BY PlaceFact DEF TestInv
  <2> QED
    BY <2>1 DEF TestInv, Types, TestTypeOK
<1> QED
  BY <1>1, TestInvariant, PTL

(* No check that the model has fails, those on WAITIO's answer, on the      *)
(* creation of p7root and on the code in sstat_o included, and no process   *)
(* lives to reach a PANIC.                                                  *)
THEOREM TestPasses == TestSpec => []NoError
<1>1. TestInv => NoError
  BY DEF TestInv, Types, NoError
<1> QED
  BY <1>1, TestInvariant, PTL

LEMMA PrintingCounted ==
  ASSUME Common
  PROVE  /\ value["term_mut"] + Cardinality(Printing) = 1
         /\ Cardinality(waiting["terminal"]) <= 1
<1>1. PrintInv /\ Types /\ waiting["terminal"] \subseteq Printing
  BY DEF Common, PrintInv, Printing
<1>2. CASE Printing = {} /\ value["term_mut"] = 1
  <2>1. waiting["terminal"] = {} /\ Cardinality(Printing) = 0
    BY <1>1, <1>2, FS_EmptySet
  <2>2. Cardinality(waiting["terminal"]) = 0
    BY <2>1, FS_EmptySet
  <2> QED
    BY <1>2, <2>1, <2>2
<1>3. CASE \E h \in Printing : /\ h \notin waiting["term_mut"]
                            /\ Printing = waiting["term_mut"] \cup {h}
                            /\ value["term_mut"] = 0 - Cardinality(waiting["term_mut"])
  <2> DEFINE w == waiting["term_mut"]
  <2>1. PICK h \in Printing : h \notin w /\ Printing = w \cup {h} /\ value["term_mut"] = 0 - Cardinality(w)
    BY <1>3
  <2>2. IsFiniteSet(w) /\ Cardinality(w) \in Nat
    BY <1>1, KeyFact, WaitingFinite
  <2>3. Cardinality(Printing) = Cardinality(w) + 1
    BY <2>1, <2>2, FS_AddElement
  <2>4. waiting["terminal"] \subseteq {h}
    BY <1>1, <2>1 DEF PrintInv
  <2>5. IsFiniteSet({h}) /\ Cardinality({h}) = 1
    BY FS_Singleton
  <2>6. Cardinality(waiting["terminal"]) <= 1
    BY <2>4, <2>5, FS_Subset
  <2> QED
    BY <2>1, <2>2, <2>3, <2>6
<1> QED
  BY <1>1, <1>2, <1>3 DEF PrintInv

(* Nobody is terminated while it holds the lock of the terminal, and at     *)
(* most one process at a time waits for the terminal.                       *)
THEOREM TestLockConserved == TestSpec => []LockConserved
<1>1. TestInv => LockConserved
  BY PrintingCounted DEF TestInv, LockConserved, Printing
<1> QED
  BY <1>1, TestInvariant, PTL

LEMMA KillMeets ==
  ASSUME Common, Tails, Stage, NEW p \in alive, Ready(p), At(p, "kill") \/ At(p, "killed")
  PROVE  /\ memory[instruction(p)[2]] \in alive \ {p}
         /\ p \in ancestors[memory[instruction(p)[2]]]
         /\ program[memory[instruction(p)[2]]] =
              CASE instruction(p)[2] = "p7pid" -> "p7root"
                [] instruction(p)[2] = "p32id" -> "p3rest"
                [] OTHER -> "p7leaf"
<1>a. /\ Types /\ program[p] \in DOMAIN Text /\ line[p] \in 0 .. 3
      /\ \A k \in Key : p \notin waiting[k]
  BY DEF Common, Types, Ready
<1>1. ~Calls(p)
  <2>1. SUFFICES ASSUME Calls(p)
                 PROVE  FALSE
    OBVIOUS
  <2>2. instruction(p) = print[line[p] + 1]
    BY <2>1 DEF instruction
  <2>3. \A i \in 1 .. 4 : print[i][1] \in {"P", "waitio", "assert", "V"}
    BY DEF print
  <2>4. instruction(p)[1] \in {"P", "waitio", "assert", "V"}
    BY <1>a, <2>2, <2>3
  <2> QED
    BY <2>4 DEF At
<1>2. instruction(p) = Text[program[p]][pc[p]]
  BY <1>1 DEF instruction
<1>3. pc[p] \in DOMAIN Text[program[p]]
  BY PlaceFact
<1>4. \/ program[p] = "p3rest" /\ pc[p] = 8
      \/ program[p] = "p7loop" /\ pc[p] = 6
      \/ program[p] = "p7root" /\ pc[p] \in 9 .. 12
  BY <1>a, <1>2, <1>3, TextFact DEF At, KillAt
<1>5. \/ program[first] = "test" \/ program[first] = "p1end"
      \/ program[first] = "p7loop" /\ (pc[first] = 6 => StageF)
  BY DEF Stage, StageA, StageB1, StageB2, StageC1, StageC2, StageC3, StageC4, StageD1, StageD2,
         StageE, StageF, WaitsP3, At1
<1>6. p = first \/ p \in Crew
  BY <1>4 DEF Crew, TailPlace
<1>7. p \in Crew => ~(StageA \/ StageB2 \/ StageC4 \/ StageD2 \/ StageE)
  BY DEF StageA, StageB2, StageC4, StageD2, StageE
<1>8. CASE program[p] = "p3rest" /\ pc[p] = 8
  <2>1. p \in Crew
    BY <1>5, <1>6, <1>8
  <2>2. ~StageB1 /\ ~StageC1 /\ ~StageC3 /\ ~StageD1
    BY <1>8, <2>1 DEF StageB1, RunsP2, StageC1, RunsP3, StageC3, EndsP3, StageD1, RunsP4
  <2>3. ~StageF
    <3>1. SUFFICES ASSUME StageF
                   PROVE  FALSE
      OBVIOUS
    <3>2. PICK cast \in [Role -> Process], here \in SUBSET Role : Plays(cast, here)
      BY <3>1 DEF StageF
    <3>3. PICK x \in here : p = cast[x] /\ program[p] = Part(x)
      BY <2>1, <3>2 DEF Plays, Family
    <3> QED
      BY <1>8, <3>3 DEF Part, Child
  <2>4. StageC2
    BY <1>7, <2>1, <2>2, <2>3 DEF Stage
  <2>5. PICK a \in Process, b \in Process : RunBothP3(a, b)
    BY <2>4 DEF StageC2
  <2>6. p = a /\ b \in alive \ {p} /\ memory["p32id"] = b /\ program[b] = "p3rest"
    BY <1>8, <2>1, <2>5 DEF RunBothP3, Crew
  <2>8. p \in ancestors[b]
    BY <2>5, <2>6 DEF RunBothP3, Common, Tree
  <2>7. instruction(p)[2] = "p32id"
    BY <1>2, <1>8, Lengths DEF p3rest
  <2> QED
    BY <2>6, <2>7, <2>8
<1>9. CASE program[p] = "p7loop" /\ pc[p] = 6
  <2>1. p = first
    <3>1. SUFFICES ASSUME p \in Crew
                   PROVE  FALSE
      BY <1>6
    <3>2. ~StageB1 /\ ~StageC1 /\ ~StageC2 /\ ~StageC3 /\ ~StageD1
      BY <1>9, <3>1 DEF StageB1, RunsP2, StageC1, RunsP3, StageC2, RunBothP3, StageC3, EndsP3,
                        StageD1, RunsP4
    <3>3. PICK cast \in [Role -> Process], here \in SUBSET Role : Plays(cast, here)
      BY <1>7, <3>1, <3>2 DEF Stage, StageF
    <3>4. PICK x \in here : p = cast[x] /\ program[p] = Part(x)
      BY <3>1, <3>3 DEF Plays, Family
    <3> QED
      BY <1>9, <3>4 DEF Part, Child
  <2>2. StageF
    BY <1>5, <1>9, <2>1
  <2>3. PICK cast \in [Role -> Process], here \in SUBSET Role : Plays(cast, here)
    BY <2>2 DEF StageF
  <2>4. /\ memory["p7pid"] = cast["p7pid"] /\ cast["p7pid"] \in alive
        /\ program[cast["p7pid"]] = "p7root" /\ cast["p7pid"] # first
    BY <1>a, <1>9, <2>1, <2>3, FamilyEnds DEF At1
  <2>6. first \in ancestors[cast["p7pid"]]
    BY <2>4 DEF Common, Tree
  <2>5. instruction(p)[2] = "p7pid"
    BY <1>2, <1>9, Lengths DEF p7loop
  <2> QED
    BY <2>1, <2>4, <2>5, <2>6
<1>10. CASE program[p] = "p7root" /\ pc[p] \in 9 .. 12
  <2>1. p \in Crew
    BY <1>5, <1>6, <1>10
  <2>2. ~StageB1 /\ ~StageC1 /\ ~StageC2 /\ ~StageC3 /\ ~StageD1
    BY <1>10, <2>1 DEF StageB1, RunsP2, StageC1, RunsP3, StageC2, RunBothP3, StageC3, EndsP3,
                       StageD1, RunsP4
  <2>3. PICK cast \in [Role -> Process], here \in SUBSET Role : Plays(cast, here)
    BY <1>7, <2>1, <2>2 DEF Stage, StageF
  <2>4. PICK x \in here : p = cast[x] /\ program[p] = Part(x)
    BY <2>1, <2>3 DEF Plays, Family
  <2>5. x = "p7pid"
    BY <1>10, <2>4 DEF Part, Child
  <2>6. PICK y : y = Victim(pc[p])
    OBVIOUS
  <2>7. /\ Text[program[p]][pc[p]] = <<"kill", y>> /\ memory[y] \in alive
        /\ program[memory[y]] = "p7leaf" /\ y \in Leaf /\ y \in here /\ memory[y] = cast[y]
    <3>1. p = cast["p7pid"] /\ pc[cast["p7pid"]] \in 9 .. 12 /\ y = Victim(pc[cast["p7pid"]])
      BY <1>10, <2>4, <2>5, <2>6
    <3>2. /\ Text[program[p]][pc[p]] = <<"kill", y>> /\ y \in Leaf /\ y \in here
          /\ memory[y] = cast[y] /\ cast[y] \in alive /\ program[cast[y]] = "p7leaf"
      BY <2>3, <3>1, VictimFact
    <3> QED
      BY <3>2
  <2>9. memory[y] # p /\ memory[y] \in Crew
    BY <2>3, <2>4, <2>5, <2>7 DEF Plays, Family, Leaf
  <2>10. p \in ancestors[memory[y]]
    BY <2>3, <2>4, <2>5, <2>7, <2>9 DEF Plays, Family
  <2>8. instruction(p)[2] = y /\ y # "p7pid" /\ y # "p32id"
    BY <1>2, <2>7 DEF Leaf
  <2> QED
    BY <2>7, <2>8, <2>9, <2>10
<1> QED
  BY <1>4, <1>8, <1>9, <1>10

(* A pid still names the process it was stored for when it is given to      *)
(* TERMINATEPROCESS, and that process descends from the caller.             *)
THEOREM TestKillsIntended == TestSpec => []KillsIntended
<1>1. TestInv => KillsIntended
  BY KillMeets DEF TestInv, KillsIntended
<1> QED
  BY <1>1, TestInvariant, PTL
==============================================================================
