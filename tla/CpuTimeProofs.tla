----------------------------- MODULE CpuTimeProofs -----------------------------
(****************************************************************************)
(* The accounting of CPU time is exact, for a clock of any width.           *)
(****************************************************************************)
EXTENDS CpuTime, TLAPS

(* Ticks from the time a clock that has made n ticks read t until now.      *)
Elapsed(n, t) == (((Start + n) % W) - t) % W

(* The part of the interval since the cursor that is still to be charged    *)
(* for p, if it is charged when the processor leaves one of these places.   *)
Uncharged(p, places) == IF p = selected /\ at \in places THEN Since(time) ELSE 0

CpuTypeInv == CpuTypeOK /\ spent \in [Process -> [user : Nat, kernel : Nat, trap : Nat]]

(* From the first dispatch on, the cursor is a reading of the clock no more *)
(* than ticks ago, and is 0 only if the clock may have read 0.              *)
CursorInv ==
  /\ selected = NULL => at \in {"kernel", "dispatch"}
  /\ selected # NULL =>
       /\ Since(time) <= ticks
       /\ 0 < Start /\ Start + ticks < W => time # 0

(* What is charged, and what still will be, fits in the life of a process;  *)
(* and so it does since its last GETCPUTIME.                                *)
BudgetInv ==
  \A p \in live :
    /\ Since(initial_time[p]) <= ticks
    /\ usr_time[p] + sys_time[p] + Uncharged(p, {"user", "trap", "kernel"})
         <= Since(initial_time[p])
    /\ usr_time[p] - answer[p].user + Uncharged(p, {"user", "trap"})
         <= Since(initial_time[p]) - answer[p].wallclock

CpuInv == CpuTypeInv /\ CursorInv /\ BudgetInv /\ UserTimeExact /\ KernelTimeExact

LEMMA ElapsedRange ==
  ASSUME NEW n \in Nat, NEW t \in 0 .. W - 1
  PROVE  /\ (Start + n) % W \in 0 .. W - 1
         /\ Elapsed(n, t) \in 0 .. W - 1
         /\ Elapsed(n, (Start + n) % W) = 0
<1>1. W \in Nat /\ W > 0 /\ Start \in 0 .. W - 1
  BY CpuTimeAssumption
<1>. DEFINE now == (Start + n) % W
<1>2. now \in 0 .. W - 1
  BY <1>1
<1>. HIDE DEF now
<1>3. (now - t) % W \in 0 .. W - 1 /\ (now - now) % W = 0
  BY <1>1, <1>2
<1>. QED
  BY <1>2, <1>3 DEF Elapsed, now

(* While no interval is as long as the range of the clock, a tick makes it  *)
(* longer by one, whether or not the clock overflows.                       *)
LEMMA ElapsedTick ==
  ASSUME NEW n \in Nat, n < W - 1, NEW t \in 0 .. W - 1, Elapsed(n, t) <= n
  PROVE  Elapsed(n + 1, t) = Elapsed(n, t) + 1
<1>1. W \in Nat /\ W > 0 /\ Start \in 0 .. W - 1
  BY CpuTimeAssumption
<1>. DEFINE now == (Start + n) % W
            next == (Start + (n + 1)) % W
<1>2. /\ now = IF Start + n < W THEN Start + n ELSE Start + n - W
      /\ next = IF Start + (n + 1) < W THEN Start + (n + 1) ELSE Start + (n + 1) - W
  BY <1>1
<1>3. now \in 0 .. W - 1 /\ next = IF now = W - 1 THEN 0 ELSE now + 1
  BY <1>1, <1>2
<1>. HIDE DEF now, next
<1>4. (now - t) % W = IF now < t THEN now - t + W ELSE now - t
  BY <1>1, <1>3
<1>5. (next - t) % W = IF next < t THEN next - t + W ELSE next - t
  BY <1>1, <1>3
<1>6. (now - t) % W <= n
  BY DEF Elapsed, now
<1>7. (next - t) % W = ((now - t) % W) + 1
  BY <1>1, <1>3, <1>4, <1>5, <1>6
<1>. QED
  BY <1>7 DEF Elapsed, now, next

LEMMA CpuTypes ==
  ASSUME CpuTypeInv
  PROVE  /\ W \in Nat /\ W > 0 /\ Start \in Nat /\ NULL \notin Process
         /\ ticks \in Nat /\ selected \in Process \cup {NULL}
         /\ TODLO \in 0 .. W - 1 /\ Since(TODLO) = 0
         /\ Start + ticks < W => TODLO = Start + ticks
         /\ Since(time) \in 0 .. W - 1
         /\ \A p \in Process :
              /\ Since(initial_time[p]) \in 0 .. W - 1
              /\ usr_time[p] \in 0 .. W - 1 /\ sys_time[p] \in 0 .. W - 1
              /\ answer[p] \in [user : 0 .. W - 1, wallclock : 0 .. W - 1]
              /\ spent[p] \in [user : Nat, kernel : Nat, trap : Nat]
         /\ live \subseteq Process
<1>1. /\ W \in Nat /\ W > 0 /\ Start \in Nat /\ NULL \notin Process
      /\ MaxTicks \in Nat
  BY CpuTimeAssumption
<1>2. /\ ticks \in Nat /\ time \in 0 .. W - 1 /\ selected \in Process \cup {NULL} /\ live \subseteq Process
      /\ \A p \in Process :
              /\ initial_time[p] \in 0 .. W - 1
              /\ usr_time[p] \in 0 .. W - 1 /\ sys_time[p] \in 0 .. W - 1
              /\ answer[p] \in [user : 0 .. W - 1, wallclock : 0 .. W - 1]
              /\ spent[p] \in [user : Nat, kernel : Nat, trap : Nat]
  BY <1>1 DEF CpuTypeInv, CpuTypeOK
<1>3. /\ TODLO \in 0 .. W - 1 /\ Since(TODLO) = 0
      /\ \A t \in 0 .. W - 1 : Since(t) \in 0 .. W - 1
  BY <1>2, ElapsedRange DEF TODLO, Since, Elapsed
<1>4. Start + ticks < W => TODLO = Start + ticks
  <2>1. \A n \in 0 .. W - 1 : n % W = n
    BY <1>1
  <2>. QED
    BY <1>1, <1>2, <2>1 DEF TODLO
<1>. QED
  BY <1>1, <1>2, <1>3, <1>4

LEMMA InitCpuInv == CpuInit => CpuInv
<1>. SUFFICES ASSUME CpuInit PROVE CpuInv
  OBVIOUS
<1>1. /\ W \in Nat /\ W > 0 /\ Start \in 0 .. W - 1 /\ MaxTicks \in 0 .. W - 1
      /\ first \in Process /\ NULL \notin Process
  BY CpuTimeAssumption
<1>2. ticks = 0 /\ TODLO \in 0 .. W - 1 /\ Since(TODLO) = 0
  BY <1>1, ElapsedRange DEF CpuInit, TODLO, Since, Elapsed
<1>3. CpuTypeInv
  BY <1>1, <1>2 DEF CpuInit, CpuTypeInv, CpuTypeOK, Nowhere
<1>4. CursorInv
  BY DEF CpuInit, CursorInv
<1>5. \A p \in live : p = first /\ p # selected /\ Since(initial_time[p]) = 0
  BY <1>1, <1>2 DEF CpuInit
<1>6. BudgetInv
  BY <1>1, <1>2, <1>5 DEF CpuInit, BudgetInv, Uncharged
<1>7. UserTimeExact /\ KernelTimeExact
  BY <1>1, <1>5 DEF CpuInit, UserTimeExact, KernelTimeExact, Nowhere
<1>. QED
  BY <1>3, <1>4, <1>6, <1>7 DEF CpuInv

LEMMA TickCpuInv ==
  ASSUME CpuInv, Tick
  PROVE  CpuInv'
<1>. USE DEF CpuInv
<1>0. CpuTypeInv
  OBVIOUS
<1>1. /\ W \in Nat /\ W > 0 /\ MaxTicks \in 0 .. W - 1
      /\ ticks \in Nat /\ ticks < W - 1 /\ ticks' = ticks + 1 /\ ticks' \in 0 .. MaxTicks
  BY CpuTimeAssumption DEF Tick, CpuTypeInv, CpuTypeOK
<1>2. UNCHANGED <<time, at, selected, live, initial_time, usr_time, sys_time, answer>>
  BY DEF Tick, fields
<1>3. ASSUME NEW STATE t, t \in 0 .. W - 1, Since(t) <= ticks
      PROVE  (TODLO' - t) % W = Since(t) + 1
  BY <1>1, <1>3, ElapsedTick DEF Since, TODLO, Elapsed
<1>4. selected # NULL => Since(time)' = Since(time) + 1
  BY <1>2, <1>3 DEF CursorInv, CpuTypeInv, CpuTypeOK, Since
<1>5. \A p \in live : Since(initial_time[p])' = Since(initial_time[p]) + 1
  BY <1>2, <1>3 DEF BudgetInv, CpuTypeInv, CpuTypeOK, Since
<1>6. /\ spent' \in [Process -> [user : Nat, kernel : Nat, trap : Nat]]
      /\ \A p \in Process :
           /\ spent'[p].user = spent[p].user + (IF p = selected /\ at = "user" THEN 1 ELSE 0)
           /\ spent'[p].kernel = spent[p].kernel + (IF p = selected /\ at = "kernel" THEN 1 ELSE 0)
           /\ spent'[p].trap = spent[p].trap + (IF p = selected /\ at = "trap" THEN 1 ELSE 0)
  <2>0. selected \in Process \cup {NULL} /\ NULL \notin Process
    BY CpuTimeAssumption DEF CpuTypeInv, CpuTypeOK
  <2>1. CASE selected = NULL \/ at \notin {"user", "kernel", "trap"}
    <3>1. spent' = spent
      BY <2>1 DEF Tick
    <3>. QED
      BY <2>0, <2>1, <3>1 DEF CpuTypeInv
  <2>2. CASE selected # NULL /\ at = "user"
    <3>1. spent' = [spent EXCEPT ![selected].user = @ + 1]
      BY <2>2 DEF Tick
    <3>. QED
      BY <2>0, <2>2, <3>1 DEF CpuTypeInv
  <2>3. CASE selected # NULL /\ at = "kernel"
    <3>1. spent' = [spent EXCEPT ![selected].kernel = @ + 1]
      BY <2>3 DEF Tick
    <3>. QED
      BY <2>0, <2>3, <3>1 DEF CpuTypeInv
  <2>4. CASE selected # NULL /\ at = "trap"
    <3>1. spent' = [spent EXCEPT ![selected].trap = @ + 1]
      BY <2>4 DEF Tick
    <3>. QED
      BY <2>0, <2>4, <3>1 DEF CpuTypeInv
  <2>. QED
    BY <2>1, <2>2, <2>3, <2>4
<1>7. CpuTypeInv'
  BY <1>1, <1>2, <1>6 DEF CpuTypeInv, CpuTypeOK
<1>. HIDE DEF CpuInv
<1>8. CursorInv'
  <2>1. CursorInv
    BY DEF CpuInv
  <2>. QED
    BY <1>0, CpuTypes, <1>1, <1>2, <1>4, <2>1 DEF CursorInv
<1>9. BudgetInv'
  <2>1. BudgetInv
    BY DEF CpuInv
  <2>2. ASSUME NEW p \in live, NEW places, places \subseteq {"user", "trap", "kernel"}
        PROVE  Uncharged(p, places)' \in {Uncharged(p, places), Uncharged(p, places) + 1}
    BY <1>0, CpuTypes, <1>2, <1>4 DEF Uncharged
  <2>3. ASSUME NEW p \in live
        PROVE  /\ Since(initial_time[p])' <= ticks'
               /\ (usr_time[p] + sys_time[p] + Uncharged(p, {"user", "trap", "kernel"}))'
                    <= Since(initial_time[p])'
               /\ (usr_time[p] - answer[p].user + Uncharged(p, {"user", "trap"}))'
                    <= (Since(initial_time[p]) - answer[p].wallclock)'
    <3>. DEFINE a == Uncharged(p, {"user", "trap", "kernel"})
                b == Uncharged(p, {"user", "trap"})
    <3>1. a \in Nat /\ b \in Nat
      BY <1>0, CpuTypes DEF Uncharged
    <3>2. a' \in {a, a + 1} /\ b' \in {b, b + 1}
      BY <2>2
    <3>3. /\ Since(initial_time[p]) <= ticks
          /\ usr_time[p] + sys_time[p] + a <= Since(initial_time[p])
          /\ usr_time[p] - answer[p].user + b <= Since(initial_time[p]) - answer[p].wallclock
      BY <2>1 DEF BudgetInv
    <3>. HIDE DEF a, b
    <3>4. /\ Since(initial_time[p])' <= ticks'
          /\ usr_time'[p] + sys_time'[p] + a' <= Since(initial_time[p])'
          /\ usr_time'[p] - answer'[p].user + b' <= Since(initial_time[p])' - answer'[p].wallclock
      BY <1>0, CpuTypes, <1>1, <1>2, <1>5, <3>1, <3>2, <3>3
    <3>. QED
      BY <3>4 DEF a, b
  <2>. QED
    BY <1>2, <2>3 DEF BudgetInv
<1>10. UserTimeExact'
  <2>1. ASSUME NEW p \in live
        PROVE  usr_time[p] + (IF p = selected /\ at \in {"user", "trap"} THEN Since(time)' ELSE 0)
                 = spent'[p].user + spent'[p].trap
    <3>1. /\ usr_time[p] + (IF p = selected /\ at \in {"user", "trap"} THEN Since(time) ELSE 0)
                = spent[p].user + spent[p].trap
          /\ p \in Process /\ usr_time[p] \in Nat
          /\ spent[p].user \in Nat /\ spent[p].trap \in Nat
      BY <1>0, CpuTypes DEF CpuInv, UserTimeExact
    <3>2. Since(time) \in Nat /\ (p = selected => Since(time)' = Since(time) + 1)
      BY <1>0, CpuTypes, <1>4
    <3>3. /\ spent'[p].user = spent[p].user + (IF p = selected /\ at = "user" THEN 1 ELSE 0)
          /\ spent'[p].trap = spent[p].trap + (IF p = selected /\ at = "trap" THEN 1 ELSE 0)
      BY <1>6, <3>1
    <3>4. CASE p = selected /\ at = "user"
      BY <3>1, <3>2, <3>3, <3>4
    <3>5. CASE p = selected /\ at = "trap"
      BY <3>1, <3>2, <3>3, <3>5
    <3>6. CASE ~ (p = selected /\ at \in {"user", "trap"})
      BY <3>1, <3>3, <3>6
    <3>. QED
      BY <3>4, <3>5, <3>6
  <2>. QED
    BY <1>2, <2>1 DEF UserTimeExact
<1>11. KernelTimeExact'
  BY <1>0, CpuTypes, <1>1, <1>2, <1>4, <1>6 DEF KernelTimeExact, CpuInv
<1>. QED
  BY <1>7, <1>8, <1>9, <1>10, <1>11 DEF CpuInv

(* A charge does not overflow, since the interval fits in the budget.       *)
LEMMA ChargeFits ==
  ASSUME CpuInv, selected # NULL, at \in {"user", "trap", "kernel"}
  PROVE  /\ Charged(usr_time) \in [Process -> 0 .. W - 1]
         /\ Charged(sys_time) \in [Process -> 0 .. W - 1]
         /\ \A p \in live :
              /\ Charged(usr_time)[p] =
                   IF p = selected THEN usr_time[p] + Since(time) ELSE usr_time[p]
              /\ Charged(sys_time)[p] =
                   IF p = selected THEN sys_time[p] + Since(time) ELSE sys_time[p]
<1>1. CpuTypeInv /\ selected \in Process
  BY CpuTypes DEF CpuInv
<1>2. /\ usr_time \in [Process -> 0 .. W - 1]
      /\ sys_time \in [Process -> 0 .. W - 1]
  BY <1>1 DEF CpuTypeInv, CpuTypeOK
<1>3. ASSUME NEW field \in [Process -> 0 .. W - 1]
      PROVE  /\ Charged(field) \in [Process -> 0 .. W - 1]
             /\ \A p \in Process : Charged(field)[p] =
                  IF p = selected THEN (field[p] + Since(time)) % W ELSE field[p]
  BY <1>1, CpuTypes DEF Charged
<1>4. ASSUME selected \in live
      PROVE  /\ usr_time[selected] + Since(time) \in 0 .. W - 1
             /\ sys_time[selected] + Since(time) \in 0 .. W - 1
  BY <1>1, <1>4, CpuTypes DEF CpuInv, BudgetInv, Uncharged
<1>5. \A n \in 0 .. W - 1 : n % W = n
  BY <1>1, CpuTypes
<1>6. ASSUME NEW p \in live
      PROVE  /\ Charged(usr_time)[p] =
                  IF p = selected THEN usr_time[p] + Since(time) ELSE usr_time[p]
             /\ Charged(sys_time)[p] =
                  IF p = selected THEN sys_time[p] + Since(time) ELSE sys_time[p]
  BY <1>1, <1>2, <1>3, <1>4, <1>5, CpuTypes
<1>. QED
  BY <1>2, <1>3, <1>6

LEMMA StillCpuInv ==
  ASSUME CpuInv, CpuNext, ~ Tick
  PROVE  CpuInv'
<1>1. CpuTypeInv /\ CursorInv /\ BudgetInv /\ UserTimeExact /\ KernelTimeExact
  BY DEF CpuInv
<1>2. /\ UNCHANGED ticks
      /\ TODLO' = TODLO
      /\ \A t : (TODLO' - t) % W = Since(t)
  BY DEF CpuNext, syscall_H, entered, left, move_cursor, resume, scheduling, dispatch, get_cputime,
         trap_H, trap_H_dies, Halted, create_process, term_process, cpuVars, TODLO, Since
<1>3. CASE syscall_H
  <2>1. CpuTypeInv'
    BY <1>1, <1>2, <1>3, CpuTypes, ChargeFits DEF CpuInv, CursorInv, syscall_H, fields, CpuTypeInv, CpuTypeOK
  <2>2. CursorInv'
    BY <1>1, <1>2, <1>3, CpuTypes DEF syscall_H, fields, CursorInv, Since
  <2>3. BudgetInv'
    BY <1>1, <1>2, <1>3, CpuTypes, ChargeFits DEF CpuInv, CursorInv, syscall_H, fields, BudgetInv, Uncharged, Since
  <2>4. UserTimeExact'
    BY <1>1, <1>2, <1>3, CpuTypes, ChargeFits DEF CpuInv, CursorInv, syscall_H, fields, UserTimeExact, Since
  <2>5. KernelTimeExact'
    BY <1>1, <1>2, <1>3, CpuTypes, ChargeFits DEF CpuInv, CursorInv, syscall_H, fields, KernelTimeExact, Since
  <2>. QED
    BY <2>1, <2>2, <2>3, <2>4, <2>5 DEF CpuInv
<1>4. CASE entered \/ left
  <2>1. CpuTypeInv'
    BY <1>1, <1>2, <1>4, CpuTypes, ChargeFits DEF CpuInv, entered, left, move_cursor, fields, CpuTypeInv, CpuTypeOK
  <2>2. CursorInv'
    BY <1>1, <1>2, <1>4, CpuTypes DEF entered, left, move_cursor, fields, CursorInv, Since
  <2>3. BudgetInv'
    BY <1>1, <1>2, <1>4, CpuTypes, ChargeFits DEF CpuInv, entered, left, move_cursor, fields, BudgetInv, Uncharged, Since
  <2>4. UserTimeExact'
    BY <1>1, <1>2, <1>4, CpuTypes, ChargeFits DEF CpuInv, entered, left, move_cursor, fields, UserTimeExact, Since
  <2>5. KernelTimeExact'
    BY <1>1, <1>2, <1>4, CpuTypes, ChargeFits DEF CpuInv, entered, left, move_cursor, fields, KernelTimeExact, Since
  <2>. QED
    BY <2>1, <2>2, <2>3, <2>4, <2>5 DEF CpuInv
<1>5. CASE resume
  <2>1. CpuTypeInv'
    BY <1>1, <1>2, <1>5, CpuTypes, ChargeFits DEF CpuInv, resume, fields, CpuTypeInv, CpuTypeOK
  <2>2. CursorInv'
    BY <1>1, <1>2, <1>5, CpuTypes DEF resume, fields, CursorInv, Since
  <2>3. BudgetInv'
    BY <1>1, <1>2, <1>5, CpuTypes, ChargeFits DEF CpuInv, resume, fields, BudgetInv, Uncharged, Since
  <2>4. UserTimeExact'
    BY <1>1, <1>2, <1>5, CpuTypes, ChargeFits DEF CpuInv, resume, fields, UserTimeExact, Since
  <2>5. KernelTimeExact'
    BY <1>1, <1>2, <1>5, CpuTypes, ChargeFits DEF CpuInv, resume, fields, KernelTimeExact, Since
  <2>. QED
    BY <2>1, <2>2, <2>3, <2>4, <2>5 DEF CpuInv
<1>6. CASE scheduling
  <2>1. CpuTypeInv'
    BY <1>1, <1>2, <1>6, CpuTypes, ChargeFits DEF CpuInv, scheduling, fields, CpuTypeInv, CpuTypeOK
  <2>2. CursorInv'
    BY <1>1, <1>2, <1>6, CpuTypes DEF scheduling, fields, CursorInv, Since
  <2>3. BudgetInv'
    BY <1>1, <1>2, <1>6, CpuTypes, ChargeFits DEF CpuInv, scheduling, fields, BudgetInv, Uncharged, Since
  <2>4. UserTimeExact'
    BY <1>1, <1>2, <1>6, CpuTypes, ChargeFits DEF CpuInv, scheduling, fields, UserTimeExact, Since
  <2>5. KernelTimeExact'
    BY <1>1, <1>2, <1>6, CpuTypes, ChargeFits DEF CpuInv, CursorInv, scheduling, fields, KernelTimeExact, Since
  <2>. QED
    BY <2>1, <2>2, <2>3, <2>4, <2>5 DEF CpuInv
<1>7. CASE dispatch
  <2>1. CpuTypeInv'
    BY <1>1, <1>2, <1>7, CpuTypes, ChargeFits DEF CpuInv, dispatch, fields, CpuTypeInv, CpuTypeOK
  <2>2. CursorInv'
    BY <1>1, <1>2, <1>7, CpuTypes DEF dispatch, fields, CursorInv, Since
  <2>3. BudgetInv'
    BY <1>1, <1>2, <1>7, CpuTypes, ChargeFits DEF CpuInv, dispatch, fields, BudgetInv, Uncharged, Since
  <2>4. UserTimeExact'
    BY <1>1, <1>2, <1>7, CpuTypes, ChargeFits DEF CpuInv, dispatch, fields, UserTimeExact, Since
  <2>5. KernelTimeExact'
    BY <1>1, <1>2, <1>7, CpuTypes, ChargeFits DEF CpuInv, dispatch, fields, KernelTimeExact, Since
  <2>. QED
    BY <2>1, <2>2, <2>3, <2>4, <2>5 DEF CpuInv
<1>8. CASE get_cputime
  <2>1. CpuTypeInv'
    BY <1>1, <1>2, <1>8, CpuTypes, ChargeFits DEF CpuInv, get_cputime, fields, CpuTypeInv, CpuTypeOK
  <2>2. CursorInv'
    BY <1>1, <1>2, <1>8, CpuTypes DEF get_cputime, fields, CursorInv, Since
  <2>3. BudgetInv'
    BY <1>1, <1>2, <1>8, CpuTypes, ChargeFits DEF CpuInv, get_cputime, fields, BudgetInv, Uncharged, Since
  <2>4. UserTimeExact'
    BY <1>1, <1>2, <1>8, CpuTypes, ChargeFits DEF CpuInv, get_cputime, fields, UserTimeExact, Since
  <2>5. KernelTimeExact'
    BY <1>1, <1>2, <1>8, CpuTypes, ChargeFits DEF CpuInv, get_cputime, fields, KernelTimeExact, Since
  <2>. QED
    BY <2>1, <2>2, <2>3, <2>4, <2>5 DEF CpuInv
<1>9. CASE trap_H
  <2>1. CpuTypeInv'
    BY <1>1, <1>2, <1>9, CpuTypes, ChargeFits DEF CpuInv, trap_H, fields, CpuTypeInv, CpuTypeOK
  <2>2. CursorInv'
    BY <1>1, <1>2, <1>9, CpuTypes DEF trap_H, fields, CursorInv, Since
  <2>3. BudgetInv'
    BY <1>1, <1>2, <1>9, CpuTypes, ChargeFits DEF CpuInv, trap_H, fields, BudgetInv, Uncharged, Since
  <2>4. UserTimeExact'
    BY <1>1, <1>2, <1>9, CpuTypes, ChargeFits DEF CpuInv, trap_H, fields, UserTimeExact, Since
  <2>5. KernelTimeExact'
    BY <1>1, <1>2, <1>9, CpuTypes, ChargeFits DEF CpuInv, trap_H, fields, KernelTimeExact, Since
  <2>. QED
    BY <2>1, <2>2, <2>3, <2>4, <2>5 DEF CpuInv
<1>10. CASE trap_H_dies
  <2>1. CpuTypeInv'
    BY <1>1, <1>2, <1>10, CpuTypes, ChargeFits DEF CpuInv, trap_H_dies, fields, CpuTypeInv, CpuTypeOK
  <2>2. CursorInv'
    BY <1>1, <1>2, <1>10, CpuTypes DEF trap_H_dies, fields, CursorInv, Since
  <2>3. BudgetInv'
    BY <1>1, <1>2, <1>10, CpuTypes, ChargeFits DEF CpuInv, trap_H_dies, fields, BudgetInv, Uncharged, Since
  <2>4. UserTimeExact'
    BY <1>1, <1>2, <1>10, CpuTypes, ChargeFits DEF CpuInv, trap_H_dies, fields, UserTimeExact, Since
  <2>5. KernelTimeExact'
    BY <1>1, <1>2, <1>10, CpuTypes, ChargeFits DEF CpuInv, trap_H_dies, fields, KernelTimeExact, Since
  <2>. QED
    BY <2>1, <2>2, <2>3, <2>4, <2>5 DEF CpuInv
<1>11. ASSUME NEW p \in Process, create_process(p)
       PROVE  CpuInv'
  <2>1. CpuTypeInv'
    BY <1>1, <1>2, <1>11, CpuTypes DEF create_process, fields, CpuTypeInv, CpuTypeOK, Nowhere
  <2>2. CursorInv'
    BY <1>1, <1>2, <1>11, CpuTypes DEF create_process, fields, CursorInv, Since
  <2>3. /\ live' = live \cup {p} /\ p # selected
        /\ UNCHANGED <<time, at, selected>>
        /\ Since(time)' = Since(time)
    BY <1>2, <1>11 DEF create_process, Since
  <2>4. /\ Since(initial_time[p])' = 0
        /\ usr_time'[p] = 0 /\ sys_time'[p] = 0
        /\ answer'[p].user = 0 /\ answer'[p].wallclock = 0
        /\ spent'[p].user = 0 /\ spent'[p].kernel = 0 /\ spent'[p].trap = 0
    BY <1>1, <1>2, <1>11, CpuTypes DEF create_process, CpuTypeInv, CpuTypeOK, Nowhere, Since
  <2>5. \A q \in live :
          /\ Since(initial_time[q])' = Since(initial_time[q])
          /\ usr_time'[q] = usr_time[q] /\ sys_time'[q] = sys_time[q]
          /\ answer'[q] = answer[q] /\ spent'[q] = spent[q]
    BY <1>1, <1>2, <1>11, CpuTypes DEF create_process, CpuTypeInv, CpuTypeOK, Since
  <2>6. BudgetInv'
    BY <1>1, <1>2, <2>3, <2>4, <2>5, CpuTypes DEF BudgetInv, Uncharged
  <2>7. UserTimeExact'
    BY <1>1, <2>3, <2>4, <2>5 DEF UserTimeExact
  <2>8. KernelTimeExact'
    BY <1>1, <1>2, <2>3, <2>4, <2>5 DEF KernelTimeExact
  <2>. QED
    BY <2>1, <2>2, <2>6, <2>7, <2>8 DEF CpuInv
<1>12. ASSUME NEW p \in Process, term_process(p)
       PROVE  CpuInv'
  <2>1. CpuTypeInv'
    BY <1>1, <1>2, <1>12, CpuTypes DEF term_process, fields, CpuTypeInv, CpuTypeOK, Nowhere
  <2>2. CursorInv'
    BY <1>1, <1>2, <1>12, CpuTypes DEF term_process, fields, CursorInv, Since
  <2>3. BudgetInv'
    BY <1>1, <1>2, <1>12, CpuTypes DEF term_process, fields, BudgetInv, Uncharged, Since
  <2>4. UserTimeExact'
    BY <1>1, <1>2, <1>12, CpuTypes DEF term_process, fields, UserTimeExact, Since, Nowhere
  <2>5. KernelTimeExact'
    BY <1>1, <1>2, <1>12, CpuTypes DEF term_process, fields, KernelTimeExact, Since, Nowhere
  <2>. QED
    BY <2>1, <2>2, <2>3, <2>4, <2>5 DEF CpuInv
<1>13. CASE Halted
  BY <1>1, <1>13 DEF Halted, cpuVars, fields, CpuInv, CpuTypeInv, CpuTypeOK, CursorInv, BudgetInv,
                     Uncharged, UserTimeExact, KernelTimeExact, Since, TODLO
<1>. QED
  BY <1>3, <1>4, <1>5, <1>6, <1>7, <1>8, <1>9, <1>10, <1>11, <1>12, <1>13 DEF CpuNext

LEMMA NextCpuInv == CpuInv /\ [CpuNext]_cpuVars => CpuInv'
<1>1. CpuInv /\ UNCHANGED cpuVars => CpuInv'
  BY DEF cpuVars, fields, CpuInv, CpuTypeInv, CpuTypeOK, CursorInv, BudgetInv, Uncharged,
         UserTimeExact, KernelTimeExact, Since, TODLO
<1>. QED
  BY <1>1, TickCpuInv, StillCpuInv

(* The variables keep their types: the clock and the charges stay within    *)
(* the range of the clock.                                                  *)
THEOREM CpuTypeCorrect == CpuSpec => []CpuTypeOK
<1>1. CpuInv => CpuTypeOK
  BY DEF CpuInv, CpuTypeInv
<1>. QED
  BY <1>1, InitCpuInv, NextCpuInv, PTL DEF CpuSpec

(* The user time of a process is the time it ran, to the tick, as long as   *)
(* the machine runs for less than the range of its clock.                   *)
THEOREM UserTimeIsExact == CpuSpec => []UserTimeExact
<1>1. CpuInv => UserTimeExact
  BY DEF CpuInv
<1>. QED
  BY <1>1, InitCpuInv, NextCpuInv, PTL DEF CpuSpec

(* Its kernel time is never too much, and exact until the clock may have    *)
(* read 0.                                                                  *)
THEOREM KernelTimeIsExact == CpuSpec => []KernelTimeExact
<1>1. CpuInv => KernelTimeExact
  BY DEF CpuInv
<1>. QED
  BY <1>1, InitCpuInv, NextCpuInv, PTL DEF CpuSpec

(* User and kernel time together fit in the wallclock time since the        *)
(* creation of the process, across overflows of the clock.                  *)
THEOREM TimesFit == CpuSpec => []WithinWallclock
<1>1. ASSUME CpuInv, NEW p \in live
      PROVE  usr_time[p] + sys_time[p] <= Since(initial_time[p])
  <2>1. Uncharged(p, {"user", "trap", "kernel"}) \in Nat
    BY <1>1, CpuTypes DEF CpuInv, Uncharged
  <2>2. usr_time[p] + sys_time[p] + Uncharged(p, {"user", "trap", "kernel"}) <= Since(initial_time[p])
    BY <1>1 DEF CpuInv, BudgetInv
  <2>. QED
    BY <1>1, <2>1, <2>2, CpuTypes DEF CpuInv
<1>2. CpuInv => WithinWallclock
  BY <1>1 DEF WithinWallclock
<1>. QED
  BY <1>2, InitCpuInv, NextCpuInv, PTL DEF CpuSpec

(* Two GETCPUTIME of a process never report more user time than wallclock   *)
(* time between them, so that the phase 2 test does not print that error.    *)
THEOREM AnswersAlwaysAgree == CpuSpec => AnswersAgree
<1>. DEFINE Agree ==
       \A p \in live \cap live' :
         answer'[p].user - answer[p].user <= answer'[p].wallclock - answer[p].wallclock
<1>1. ASSUME CpuInv, CpuNext
      PROVE  Agree
  <2>0. CpuTypeInv
    BY <1>1 DEF CpuInv
  <2>1. CASE get_cputime
    <3>1. ASSUME NEW p \in live
          PROVE  answer'[p].user - answer[p].user <= answer'[p].wallclock - answer[p].wallclock
      <4>1. usr_time[p] - answer[p].user <= Since(initial_time[p]) - answer[p].wallclock
        BY <1>1, <2>0, <2>1, CpuTypes DEF get_cputime, CpuInv, BudgetInv, Uncharged
      <4>2. /\ p = selected => answer'[p].user = usr_time[p]
                               /\ answer'[p].wallclock = Since(initial_time[p])
            /\ p # selected => answer'[p] = answer[p]
        BY <2>0, <2>1 DEF get_cputime, CpuTypeInv, CpuTypeOK
      <4>. QED
        BY <2>0, <4>1, <4>2, CpuTypes
    <3>. QED
      BY <3>1
  <2>2. ASSUME NEW q \in Process, create_process(q)
        PROVE  Agree
    <3>1. \A p \in live : p \in Process /\ answer'[p] = answer[p]
      BY <2>0, <2>2 DEF create_process, CpuTypeInv, CpuTypeOK
    <3>. QED
      BY <2>0, <3>1, CpuTypes
  <2>3. CASE UNCHANGED answer
    <3>1. \A p \in live : p \in Process /\ answer'[p] = answer[p]
      BY <2>0, <2>3 DEF CpuTypeInv, CpuTypeOK
    <3>. QED
      BY <2>0, <3>1, CpuTypes
  <2>. QED
    BY <1>1, <2>1, <2>2, <2>3
    DEF CpuNext, Tick, syscall_H, entered, left, move_cursor, resume, scheduling, dispatch,
        trap_H, trap_H_dies, Halted, cpuVars, term_process
<1>2. CpuInv /\ [CpuNext]_cpuVars => [Agree]_cpuVars
  BY <1>1
<1>. QED
  BY <1>2, InitCpuInv, NextCpuInv, PTL DEF CpuSpec, AnswersAgree
==============================================================================
