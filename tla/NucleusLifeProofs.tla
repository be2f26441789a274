--------------------------- MODULE NucleusLifeProofs ---------------------------
(****************************************************************************)
(* When nobody terminates an ancestor of the caller, the processes are the  *)
(* family of the first one, each of them starts with a clean PCB, and the   *)
(* nucleus implements ProcessLife.                                          *)
(****************************************************************************)
EXTENDS NucleusProofs, NucleusLife

(* A live process is a child of its live parent, or waits for delete_ric    *)
(* after its parent has been freed; idle has no children.                   *)
Parented ==
  /\ \A q \in live \ {idle, pcb_test} :
       \/ mode = "term" /\ q \in doomed
       \/ p_parent[q] \in live /\ q \in p_child[p_parent[q]]
  /\ p_child[idle] = {}

(* The victim goes first.                                                   *)
VictimFirst == mode = "term" => victim \in doomed \/ victim \notin live

FamilyInv == CountedInv /\ Parented /\ VictimFirst

LEMMA LeastRank ==
  ASSUME NEW T, T \subseteq PCB, T # {}, NEW r \in [PCB -> Nat]
  PROVE  \E q \in T : \A x \in T : ~ (r[x] < r[q])
<1>. DEFINE I == {r[q] : q \in T}
<1>1. I \subseteq Nat /\ I # {}
  OBVIOUS
<1>2. Min(I) \in I /\ \A j \in I : Min(I) <= j
  <2>. HIDE DEF I
  <2>. QED
    BY <1>1, MinOfPositions
<1>3. PICK q \in T : r[q] = Min(I)
  BY <1>2
<1>4. \A x \in T : r[x] \in Nat /\ r[q] \in Nat /\ r[q] <= r[x]
  BY <1>2, <1>3
<1>. QED
  BY <1>4

(* Among the live processes of a set T that holds the live children of its  *)
(* live members, one that is not in T and has the least rank has no parent. *)
LEMMA FamilyIsWhole ==
  ASSUME FamilyInv, mode = "user"
  PROVE  live \ {idle} \in {{}, Family(pcb_test)}
<1>1. PICK r \in [PCB -> Nat] : Forest(r)
  BY DEF FamilyInv, CountedInv, ListInv, TreeInv
<1>2. /\ pcb_test \in PCB /\ live \subseteq PCB
      /\ \A q \in PCB : p_child[q] \subseteq PCB
  BY NucleusAssumption DEF FamilyInv, CountedInv, ListInv, TypeInv, TypeOK, live
<1>3. ASSUME NEW q \in live \ {idle, pcb_test}
      PROVE  /\ p_parent[q] \in live \ {idle} /\ q \in p_child[p_parent[q]]
             /\ r[p_parent[q]] < r[q]
  <2>1. p_parent[q] \in live /\ q \in p_child[p_parent[q]] /\ p_child[idle] = {}
    BY DEF FamilyInv, Parented
  <2>. QED
    BY <1>1, <2>1 DEF Forest
<1>4. ASSUME live \ {idle} # {}
      PROVE  pcb_test \in live
  <2>1. PICK q \in live \ {idle} : \A x \in live \ {idle} : ~ (r[x] < r[q])
    BY <1>2, <1>4, LeastRank
  <2>. QED
    BY <1>3, <2>1
<1>5. ASSUME pcb_test \in live
      PROVE  live \ {idle} \subseteq Family(pcb_test)
  <2>. DEFINE T == (live \ {idle}) \ Family(pcb_test)
  <2>. SUFFICES ASSUME T # {} PROVE FALSE
    OBVIOUS
  <2>1. PICK q \in T : \A x \in T : ~ (r[x] < r[q])
    BY <1>2, LeastRank
  <2>2. pcb_test \in Family(pcb_test) /\ \A x \in Family(pcb_test) : p_child[x] \subseteq Family(pcb_test)
    BY <1>2, FamilyClosed
  <2>3. q \in live \ {idle, pcb_test}
    BY <2>1, <2>2
  <2>4. p_parent[q] \in T
    BY <1>3, <2>1, <2>2, <2>3
  <2>. QED
    BY <1>3, <2>1, <2>3, <2>4
<1>6. ASSUME pcb_test \in live
      PROVE  Family(pcb_test) \subseteq live \ {idle}
  <2>. DEFINE S == live \ {idle}
  <2>1. S \in SUBSET PCB /\ pcb_test \in S
    BY <1>2, <1>6, NucleusAssumption
  <2>2. \A q \in S : p_child[q] \subseteq S
    BY <1>1, <1>2 DEF Forest, FamilyInv, CountedInv, IdleInv
  <2>. QED
    BY <2>1, <2>2 DEF Family
<1>. QED
  BY <1>4, <1>5, <1>6

LEMMA InitFamilyInv == Init => FamilyInv
<1>. SUFFICES ASSUME Init PROVE FamilyInv
  OBVIOUS
<1>1. live \ {idle, pcb_test} = {} /\ p_child[idle] = {}
  BY NucleusAssumption DEF Init, live
<1>. QED
  BY <1>1, InitCountedInv DEF FamilyInv, Parented, VictimFirst, Init

LEMMA FamilyKept ==
  ASSUME FamilyInv, UNCHANGED <<pcbFree, p_parent, p_child>>, mode # "term", mode' # "term"
  PROVE  Parented' /\ VictimFirst'
<1>1. live' = live
  BY DEF live
<1>. QED
  BY <1>1 DEF FamilyInv, Parented, VictimFirst

LEMMA TermProcessFamily ==
  ASSUME FamilyInv, Caller, NEW STATE p, NEW then, term_process(p, then)
  PROVE  Parented' /\ VictimFirst'
<1>1. UNCHANGED <<pcbFree, p_parent, p_child>> /\ mode = "user"
  BY DEF term_process, treeVars, Caller
<1>2. CASE mode' # "term"
  BY <1>1, <1>2, FamilyKept
<1>3. CASE mode' = "term"
  <2>1. doomed' = {p} /\ victim' = p
    BY <1>1, <1>3 DEF term_process, scheduling
  <2>2. live' = live
    BY <1>1 DEF live
  <2>. QED
    BY <1>1, <1>3, <2>1, <2>2 DEF FamilyInv, Parented, VictimFirst
<1>. QED
  BY <1>2, <1>3

LEMMA CreateProcessFamily ==
  ASSUME FamilyInv, NEW STATE v, create_process(v)
  PROVE  Parented' /\ VictimFirst'
<1>1. /\ mode = "user" /\ mode' = "user" /\ selected # idle
      /\ getProc(readyQueue, selected) /\ selected \in PCB /\ selected \in live
  BY DEF create_process, Caller, FamilyInv, CountedInv, ListInv, QueueInv, ReadyOrFree,
         SelectedReady, TypeInv, live
<1>2. CASE UNCHANGED <<pcbFree, treeVars>>
  BY <1>1, <1>2, FamilyKept DEF treeVars
<1>3. ASSUME NEW new \in pcbFree, allocPcb(new), insertChild(selected, new)
      PROVE  Parented' /\ VictimFirst'
  <2>1. /\ new \in PCB /\ new \notin live /\ new # idle /\ selected # new
        /\ live' = live \cup {new} /\ live \subseteq PCB
    BY <1>1, <1>3, IdleLive DEF FamilyInv, CountedInv, ListInv, TypeInv, TypeOK, allocPcb, live
  <2>2. idle \in PCB
    BY NucleusAssumption
  <2>3. \A q \in PCB : /\ p_parent'[q] = IF q = new THEN selected ELSE p_parent[q]
                       /\ p_child'[q] = IF q = new THEN {}
                                        ELSE IF q = selected THEN p_child[q] \cup {new}
                                        ELSE p_child[q]
    BY <1>1, <1>3, <2>1 DEF insertChild, FamilyInv, CountedInv, ListInv, TypeInv, TypeOK
  <2>4. ASSUME NEW q \in live' \ {idle, pcb_test}
        PROVE  p_parent'[q] \in live' /\ q \in p_child'[p_parent'[q]]
    <3>1. CASE q = new
      BY <1>1, <2>1, <2>3, <3>1
    <3>2. CASE q # new
      <4>1. q \in live /\ p_parent[q] \in live /\ q \in p_child[p_parent[q]]
        BY <1>1, <2>1, <3>2 DEF FamilyInv, Parented
      <4>. QED
        BY <2>1, <2>3, <3>2, <4>1
    <3>. QED
      BY <3>1, <3>2
  <2>5. p_child'[idle] = {}
    BY <1>1, <2>1, <2>2, <2>3 DEF FamilyInv, Parented
  <2>. QED
    BY <1>1, <2>4, <2>5 DEF Parented, VictimFirst
<1>. QED
  BY <1>2, <1>3 DEF create_process

LEMMA DeleteRicFamily ==
  ASSUME FamilyInv, NEW STATE p, p \in PCB, delete_ric(p)
  PROVE  Parented' /\ VictimFirst'
<1>1. p \in live /\ p \in doomed /\ p \notin pcbFree
  BY DoomedLive DEF delete_ric, FamilyInv, CountedInv, ListInv, live
<1>2. /\ mode = "term" /\ mode' = "term"
      /\ live' = live \ {p}
      /\ doomed' = (doomed \ {p}) \cup p_child[p]
      /\ UNCHANGED <<p_parent, p_child, victim>>
  BY <1>1 DEF delete_ric, freePcb, progeny, treeVars, live
<1>. QED
  BY <1>1, <1>2 DEF FamilyInv, Parented, VictimFirst

(* The victim is taken from its parent, but nobody else.                    *)
LEMMA TermDoneFamily ==
  ASSUME FamilyInv, TermDone
  PROVE  Parented' /\ VictimFirst'
<1>1. /\ mode = "term" /\ doomed = {} /\ outChild(victim) /\ mode' # "term"
      /\ victim \notin live /\ live' = live /\ live \subseteq PCB
  BY DEF TermDone, scheduling, FamilyInv, VictimFirst, live
<1>2. /\ p_parent \in [PCB -> PCB \cup {NULL}]
      /\ p_child \in [PCB -> SUBSET PCB]
      /\ idle \in PCB
  BY NucleusAssumption DEF FamilyInv, CountedInv, ListInv, TypeInv, TypeOK
<1>3. \A q \in PCB : /\ q # victim => p_parent'[q] = p_parent[q]
                     /\ p_child[q] \ {victim} \subseteq p_child'[q]
                     /\ p_child'[q] \subseteq p_child[q]
  <2>1. CASE UNCHANGED treeVars
    BY <2>1 DEF treeVars
  <2>2. CASE /\ p_child' = [p_child EXCEPT ![p_parent[victim]] = @ \ {victim}]
             /\ p_parent' = [p_parent EXCEPT ![victim] = NULL]
    BY <1>2, <2>2
  <2>. QED
    BY <1>1, <2>1, <2>2 DEF outChild
<1>4. ASSUME NEW q \in live' \ {idle, pcb_test}
      PROVE  p_parent'[q] \in live' /\ q \in p_child'[p_parent'[q]]
  <2>1. p_parent[q] \in live /\ q \in p_child[p_parent[q]] /\ q # victim
    BY <1>1 DEF FamilyInv, Parented
  <2>. QED
    BY <1>1, <1>3, <2>1
<1>5. p_child'[idle] = {}
  BY <1>2, <1>3 DEF FamilyInv, Parented
<1>. QED
  BY <1>1, <1>4, <1>5 DEF Parented, VictimFirst

LEMMA NextFamilyInv ==
  ASSUME ~ KillsOwnAncestry, FamilyInv, [Step]_vars
  PROVE  FamilyInv'
<1>. DEFINE Goal == Parented' /\ VictimFirst'
<1>. SUFFICES Goal
  BY NextCountedInv DEF FamilyInv
<1>1. CASE Boot \/ TimerInterrupt
  BY <1>1, FamilyKept DEF Boot, TimerInterrupt, treeVars, scheduling
<1>2. ASSUME NEW v \in Priority, create_process(v) PROVE Goal
  BY <1>2, CreateProcessFamily
<1>3. CASE TerminateSelf
  BY <1>3, TermProcessFamily DEF TerminateSelf
<1>4. ASSUME NEW p \in PCB, TerminatePid(p) PROVE Goal
  BY <1>4, TermProcessFamily DEF TerminatePid
<1>5. ASSUME NEW p \in PCB, delete_ric(p) PROVE Goal
  BY <1>5, DeleteRicFamily
<1>6. CASE TermDone
  BY <1>6, TermDoneFamily
<1>7. ASSUME NEW k \in Key, Wake(k) \/ passeren(k) PROVE Goal
  <2>1. UNCHANGED <<pcbFree, p_parent, p_child>> /\ mode = "user" /\ mode' # "term"
    BY <1>7 DEF Wake, passeren, treeVars, Caller, scheduling
  <2>. QED
    BY <2>1, FamilyKept
<1>8. CASE UNCHANGED <<schedVars, pcbFree, treeVars, termVars>>
  <2>1. UNCHANGED <<pcbFree, mode, p_parent, p_child, doomed, victim>>
    BY <1>8 DEF schedVars, treeVars, termVars
  <2>2. live' = live
    BY <2>1 DEF live
  <2>. QED
    BY <2>1, <2>2 DEF FamilyInv, Parented, VictimFirst
<1>9. ASSUME NEW t \in PassType, specpassup(t) PROVE Goal
  <2>1. CASE t \in PassType \ passup[selected]
    BY <1>8, <1>9, <2>1 DEF specpassup
  <2>2. CASE t \notin PassType \ passup[selected]
    BY <1>9, <2>2, TermProcessFamily DEF specpassup
  <2>. QED
    BY <2>1, <2>2
<1>10. CASE UnknownSyscall \/ tlb_H \/ trap_H
  BY <1>10, TermProcessFamily DEF UnknownSyscall, tlb_H, trap_H, PassUpOrDie
<1>11. CASE UNCHANGED vars \/ Stopped
  BY <1>8, <1>11 DEF Stopped, vars
<1>. QED
  BY <1>1, <1>2, <1>3, <1>4, <1>5, <1>6, <1>7, <1>9, <1>10, <1>11,
     VerhogenWakes DEF Next, Step

(* As long as no process terminates itself or an ancestor by pid, the       *)
(* processes are the first one and its descendants whenever a process runs, *)
(* or none at all: the recursion of delete_ric leaves no orphan behind.     *)
THEOREM ProcessesAreOneFamily ==
  ASSUME ~ KillsOwnAncestry
  PROVE  Spec => []FamilyTree
<1>1. FamilyInv => FamilyTree
  BY FamilyIsWhole DEF FamilyTree
<1>2. FamilyInv /\ [Step]_vars => FamilyInv'
  BY NextFamilyInv
<1>. QED
  BY <1>1, <1>2, InitFamilyInv, NextIsStep, PTL DEF Spec

(* ... and a PCB that is taken from the free list carries nothing over from *)
(* the process that had it.                                                 *)
THEOREM ProcessesStartClean ==
  ASSUME ~ KillsOwnAncestry
  PROVE  Spec => CleanPcb
<1>1. ASSUME ListInv, [Next]_vars, NEW p \in pcbFree, p \notin pcbFree'
      PROVE  passup'[p] = {} /\ p_child'[p] = {} /\ p_semkey'[p] = NULL
  <2>1. PICK v \in Priority : create_process(v)
    <3>1. pcbFree' # pcbFree
      BY <1>1
    <3>2. \/ \E v \in Priority : create_process(v)
          \/ \E d \in PCB : delete_ric(d)
      BY <1>1, <3>1
      DEF Next, vars, Boot, TerminateSelf, TerminatePid, TermDone, verhogen, passeren,
          specpassup, UnknownSyscall, tlb_H, trap_H, PassUpOrDie, term_process,
          TimerInterrupt, Stopped
    <3>. QED
      BY <1>1, <3>2 DEF delete_ric, freePcb
  <2>2. allocPcb(p) /\ insertChild(selected, p)
    <3>1. PICK new \in pcbFree : allocPcb(new) /\ insertChild(selected, new)
      BY <1>1, <2>1 DEF create_process
    <3>. QED
      BY <1>1, <3>1 DEF allocPcb
  <2>3. /\ p \in PCB /\ selected \in PCB /\ p # selected
        /\ p_child \in [PCB -> SUBSET PCB] /\ passup \in [PCB -> SUBSET PassType]
        /\ p_semkey \in [PCB -> Key \cup {NULL}]
    BY <1>1, <2>1 DEF create_process, Caller, ListInv, TypeInv, TypeOK, AslTypeOK, QueueInv,
                      ReadyOrFree, SelectedReady
  <2>. QED
    BY <2>2, <2>3 DEF allocPcb, insertChild
<1>2. ListInv /\ [Next]_vars =>
        [\A p \in pcbFree : p \notin pcbFree' =>
           passup'[p] = {} /\ p_child'[p] = {} /\ p_semkey'[p] = NULL]_vars
  BY <1>1
<1>. QED
  BY <1>2, InitListInv, NextListInv, NextIsStep, PTL DEF Spec, CleanPcb
------------------------------------------------------------------------------
(* Family, as a function of the children of each PCB.                       *)
Closure(child, p) == {q \in PCB : \A S \in SUBSET PCB :
                        p \in S /\ (\A r \in S : child[r] \subseteq S) => q \in S}

LEMMA ClosureBasics ==
  ASSUME NEW child, \A q \in PCB : child[q] \subseteq PCB, NEW p \in PCB
  PROVE  /\ p \in Closure(child, p) /\ Closure(child, p) \subseteq PCB
         /\ \A q \in Closure(child, p) : child[q] \subseteq Closure(child, p)
  BY DEF Closure

LEMMA ClosureLeast ==
  ASSUME NEW child, NEW p \in PCB, NEW S \in SUBSET PCB, p \in S,
         \A r \in S : child[r] \subseteq S
  PROVE  Closure(child, p) \subseteq S
  BY DEF Closure

(* All but p itself are children of members.                                *)
LEMMA ClosureUp ==
  ASSUME NEW child, \A q \in PCB : child[q] \subseteq PCB, NEW p \in PCB,
         NEW q \in Closure(child, p), q # p
  PROVE  \E x \in Closure(child, p) : q \in child[x]
<1>. SUFFICES ASSUME \A x \in Closure(child, p) : q \notin child[x] PROVE FALSE
  OBVIOUS
<1>. DEFINE S == Closure(child, p) \ {q}
<1>1. /\ S \in SUBSET PCB /\ p \in S
      /\ \A r \in S : child[r] \subseteq S
  BY ClosureBasics
<1>. HIDE DEF S
<1>2. Closure(child, p) \subseteq S
  BY <1>1, ClosureLeast
<1>. QED
  BY <1>2 DEF S

LEMMA FamilyIsClosure == \A p : Family(p) = Closure(p_child, p)
  BY DEF Family, Closure

LEMMA FamilyNextIsClosure == \A p : Family(p)' = Closure(p_child', p)
  BY DEF Family, Closure

------------------------------------------------------------------------------
(* Live processes and, during a termination, those it has freed.            *)
tree == live \cup (IF mode = "term" THEN Family(victim) ELSE {})

(* Nothing in this tree has a stale child.                                  *)
WholeForest(r) ==
  \A p \in tree : \A c \in p_child[p] : c \in tree /\ p_parent[c] = p /\ r[p] < r[c]

WholeTree == \E r \in [PCB -> Nat] : WholeForest(r)

(* The processes main starts have no parent.                                *)
Founders == p_parent[pcb_test] = NULL /\ p_parent[idle] = NULL

LifeInv == FamilyInv /\ WholeTree /\ Founders

LEMMA LifeFacts ==
  ASSUME LifeInv
  PROVE  /\ p_child \in [PCB -> SUBSET PCB] /\ p_parent \in [PCB -> PCB \cup {NULL}]
         /\ \A q \in PCB : p_child[q] \subseteq PCB
         /\ semval \in [Key -> Int] /\ p_semkey \in [PCB -> Key \cup {NULL}]
         /\ s_procQ \in [Key -> Seq(PCB)]
         /\ NULL \notin Key /\ idle \in PCB /\ pcb_test \in PCB /\ idle # pcb_test
         /\ live \subseteq PCB /\ idle \in live /\ p_semkey[idle] = NULL
         /\ \A p \in live : idle \notin p_child[p]
         /\ mode = "user" => selected \in live /\ p_semkey[selected] = NULL
         /\ \A k \in Key : /\ IsInjective(s_procQ[k])
                           /\ \A p \in PCB : getProc(s_procQ[k], p) <=> p_semkey[p] = k
         /\ \A p \in PCB : p_semkey[p] # NULL => p \in live
  BY IdleLive, TableAssumption, NucleusAssumption
  DEF LifeInv, FamilyInv, CountedInv, IdleInv, ListInv, TypeInv, TypeOK, AslTypeOK, QueueInv,
      ReadyOrFree, SelectedReady, BlockedOnKey, live

(* Outside a termination, the family of a live process is live.             *)
LEMMA LiveFamily ==
  ASSUME LifeInv, mode # "term", NEW p \in live
  PROVE  /\ Closure(p_child, p) \subseteq live
         /\ p # idle => idle \notin Closure(p_child, p)
<1>1. \A q \in live : p_child[q] \subseteq live
  BY DEF LifeInv, FamilyInv, CountedInv, ListInv, TreeInv, Forest
<1>2. Closure(p_child, p) \subseteq live
  BY <1>1, LifeFacts, ClosureLeast
<1>3. ASSUME p # idle PROVE idle \notin Closure(p_child, p)
  <2>. DEFINE S == live \ {idle}
  <2>1. S \in SUBSET PCB /\ p \in S /\ p \in PCB /\ \A r \in S : p_child[r] \subseteq S
    BY <1>1, <1>3, LifeFacts
  <2>. HIDE DEF S
  <2>2. Closure(p_child, p) \subseteq S
    BY <2>1, ClosureLeast
  <2>. QED
    BY <2>2 DEF S
<1>. QED
  BY <1>2, <1>3

(* A step that ends outside a termination.                                  *)
LEMMA WholeOutside == TreeInv /\ mode # "term" => WholeTree
  BY DEF TreeInv, WholeTree, WholeForest, Forest, tree

LEMMA InitLifeInv == Init => LifeInv
<1>. SUFFICES ASSUME Init PROVE LifeInv
  OBVIOUS
<1>1. FamilyInv /\ mode # "term"
  BY InitFamilyInv DEF Init
<1>2. TreeInv
  BY <1>1 DEF FamilyInv, CountedInv, ListInv
<1>3. Founders
  BY NucleusAssumption DEF Init, Founders
<1>. QED
  BY <1>1, <1>2, <1>3, WholeOutside DEF LifeInv

LEMMA WholeOutsideNext == TreeInv' /\ mode' # "term" => WholeTree'
  BY DEF TreeInv, WholeTree, WholeForest, Forest, tree

LEMMA TreeNext == tree' = live' \cup (IF mode' = "term" THEN Closure(p_child', victim') ELSE {})
  BY DEF tree, Family, Closure

(* While nothing else changes, the tree stays whole.                        *)
LEMMA WholeKept ==
  ASSUME WholeTree, tree' = tree, UNCHANGED <<p_child, p_parent>>
  PROVE  WholeTree'
<1>1. PICK r \in [PCB -> Nat] : WholeForest(r)
  BY DEF WholeTree
<1>2. WholeForest(r)'
  BY <1>1 DEF WholeForest
<1>. QED
  BY <1>2 DEF WholeTree

(* A termination that begins: its victim is a live process.                 *)
LEMMA TermBegins ==
  ASSUME LifeInv, Caller, NEW STATE p, p \in PCB, NEW then, term_process(p, then), mode' = "term"
  PROVE  /\ p \in live /\ victim' = p /\ doomed' = {p}
         /\ UNCHANGED <<pcbFree, p_child, p_parent, semval, s_procQ, p_semkey>>
<1>1. ~ (~ getProc(readyQueue, p) /\ p_semkey[p] = NULL)
  BY DEF term_process, scheduling, Caller
<1>2. p \in live
  BY <1>1 DEF LifeInv, FamilyInv, CountedInv, ListInv, QueueInv, ReadyOrFree, live
<1>. QED
  BY <1>1, <1>2 DEF term_process, treeVars, aslVars

LEMMA TermProcessWhole ==
  ASSUME LifeInv, Caller, NEW STATE p, p \in PCB, NEW then, term_process(p, then), TreeInv'
  PROVE  WholeTree'
<1>1. CASE mode' # "term"
  BY <1>1, WholeOutsideNext
<1>2. CASE mode' = "term"
  <2>1. /\ p \in live /\ victim' = p /\ mode = "user"
        /\ UNCHANGED <<pcbFree, p_child, p_parent>>
    BY <1>2, TermBegins DEF Caller
  <2>2. Closure(p_child, p) \subseteq live
    BY <2>1, LiveFamily
  <2>3. tree' = tree
    BY <1>2, <2>1, <2>2, TreeNext DEF tree, live
  <2>. QED
    BY <2>1, <2>3, WholeKept DEF LifeInv
<1>. QED
  BY <1>1, <1>2

(* What delete_ric does to the processes, whatever queue p was on.          *)
LEMMA DeleteRicTree ==
  ASSUME ListInv, NEW STATE p, p \in PCB, delete_ric(p)
  PROVE  /\ mode = "term" /\ mode' = "term"
         /\ p \in live /\ p \in Family(victim) /\ live' = live \ {p}
         /\ UNCHANGED <<p_child, p_parent, victim>>
<1>1. p \in live /\ p \in Family(victim) /\ p \notin pcbFree /\ mode = "term"
  BY DoomedLive DEF delete_ric, ListInv, live
<1>. QED
  BY <1>1 DEF delete_ric, freePcb, treeVars, live

LEMMA DeleteRicWhole ==
  ASSUME LifeInv, NEW STATE p, p \in PCB, delete_ric(p)
  PROVE  WholeTree'
<1>1. /\ mode = "term" /\ mode' = "term"
      /\ p \in live /\ p \in Family(victim) /\ live' = live \ {p}
      /\ UNCHANGED <<p_child, p_parent, victim>>
  BY DeleteRicTree DEF LifeInv, FamilyInv, CountedInv
<1>2. tree' = tree
  BY <1>1, TreeNext, FamilyIsClosure DEF tree
<1>. QED
  BY <1>1, <1>2, WholeKept DEF LifeInv

LEMMA CreateKeepsFounders ==
  ASSUME LifeInv, NEW STATE v, create_process(v)
  PROVE  Founders'
<1>1. mode = "user" /\ selected # idle /\ selected \in live
  BY LifeFacts DEF create_process, Caller
<1>2. pcb_test \in live
  <2>1. live \ {idle} = Family(pcb_test)
    BY <1>1, FamilyIsWhole DEF LifeInv
  <2>. QED
    BY <2>1, FamilyIsClosure, ClosureBasics, LifeFacts
<1>3. CASE UNCHANGED p_parent
  BY <1>3 DEF LifeInv, Founders
<1>4. ASSUME NEW new \in pcbFree, insertChild(selected, new)
      PROVE  Founders'
  BY <1>2, <1>4, LifeFacts DEF insertChild, live, LifeInv, Founders
<1>. QED
  BY <1>3, <1>4 DEF create_process, treeVars

LEMMA NextLifeInv ==
  ASSUME ~ KillsOwnAncestry, LifeInv, [Step]_vars
  PROVE  LifeInv'
<1>. DEFINE Goal == WholeTree' /\ Founders'
<1>0. FamilyInv' /\ TreeInv'
  BY NextFamilyInv DEF LifeInv, FamilyInv, CountedInv, ListInv
<1>. SUFFICES Goal
  BY <1>0 DEF LifeInv
<1>a. Caller => selected \in PCB
  BY DEF Caller, LifeInv, FamilyInv, CountedInv, ListInv, TypeInv
<1>b. ASSUME NEW p \in PCB, NEW then, Caller, term_process(p, then) PROVE Goal
  BY <1>0, <1>b, TermProcessWhole DEF term_process, treeVars, LifeInv, Founders
<1>1. CASE Boot \/ TimerInterrupt
  BY <1>0, <1>1, WholeOutsideNext DEF Boot, TimerInterrupt, treeVars, scheduling, LifeInv, Founders
<1>2. ASSUME NEW v \in Priority, create_process(v) PROVE Goal
  BY <1>0, <1>2, CreateKeepsFounders, WholeOutsideNext DEF create_process, Caller
<1>3. CASE TerminateSelf
  BY <1>a, <1>b, <1>3 DEF TerminateSelf
<1>4. ASSUME NEW p \in PCB, TerminatePid(p) PROVE Goal
  BY <1>b, <1>4 DEF TerminatePid
<1>5. ASSUME NEW p \in PCB, delete_ric(p) PROVE Goal
  BY <1>5, DeleteRicWhole DEF delete_ric, treeVars, LifeInv, Founders
<1>6. CASE TermDone
  <2>1. mode' # "term"
    BY <1>6 DEF TermDone, scheduling
  <2>2. Founders'
    BY <1>6, LifeFacts DEF TermDone, outChild, treeVars, LifeInv, Founders
  <2>. QED
    BY <1>0, <2>1, <2>2, WholeOutsideNext
<1>7. ASSUME NEW k \in Key, Wake(k) \/ passeren(k) PROVE Goal
  <2>1. mode' # "term" /\ UNCHANGED treeVars
    BY <1>7 DEF Wake, passeren, Caller, scheduling
  <2>. QED
    BY <1>0, <2>1, WholeOutsideNext DEF treeVars, LifeInv, Founders
<1>8. CASE UNCHANGED <<schedVars, pcbFree, treeVars, termVars>>
  <2>1. UNCHANGED <<pcbFree, mode, p_parent, p_child, victim>>
    BY <1>8 DEF schedVars, treeVars, termVars
  <2>2. tree' = tree
    BY <2>1, TreeNext, FamilyIsClosure DEF tree, live
  <2>. QED
    BY <2>1, <2>2, WholeKept DEF LifeInv, Founders
<1>9. ASSUME NEW t \in PassType, specpassup(t) PROVE Goal
  BY <1>a, <1>b, <1>8, <1>9 DEF specpassup
<1>10. CASE UnknownSyscall \/ tlb_H \/ trap_H
  BY <1>a, <1>b, <1>10 DEF UnknownSyscall, tlb_H, trap_H, PassUpOrDie
<1>11. CASE UNCHANGED vars \/ Stopped
  BY <1>8, <1>11 DEF Stopped, vars
<1>. QED
  BY <1>1, <1>2, <1>3, <1>4, <1>5, <1>6, <1>7, <1>9, <1>10, <1>11,
     VerhogenWakes DEF Next, Step

------------------------------------------------------------------------------
(* What of the processes in S is seen, as functions of the variables.       *)
AncestorsIn(child, S) == [p \in S |-> {q \in S : p \in Closure(child, q)}]

WaitersIn(key, S, k) == {p \in S : key[p] = k}

WaitingIn(key, S) == [k \in Key |-> WaitersIn(key, S, k)]

AheadIn(procQ, S) == {w \in S \X S : \E k \in Key : Precedes(procQ[k], w[1], w[2])}

ValueIn(value, key, S) == [k \in Key |-> value[k] + Life!Cardinality({p \in S : key[p] = k})]

LEMMA SameCardinality == \A S : Life!Cardinality(S) = Cardinality(S)
  BY DEF Life!Cardinality, Cardinality

LEMMA Seen ==
  /\ ancestorsSeen = AncestorsIn(p_child, survivors)
  /\ valueSeen = ValueIn(semval, p_semkey, condemned)
  /\ waitingSeen = WaitingIn(p_semkey, survivors)
  /\ aheadSeen = AheadIn(s_procQ, survivors)
  BY SameCardinality, FamilyIsClosure
  DEF ancestorsSeen, valueSeen, waitingSeen, aheadSeen, AncestorsIn, ValueIn, WaitingIn,
      WaitersIn, AheadIn

LEMMA SeenNext ==
  /\ ancestorsSeen' = AncestorsIn(p_child', survivors')
  /\ valueSeen' = ValueIn(semval', p_semkey', condemned')
  /\ waitingSeen' = WaitingIn(p_semkey', survivors')
  /\ aheadSeen' = AheadIn(s_procQ', survivors')
  BY SameCardinality, FamilyNextIsClosure
  DEF ancestorsSeen, valueSeen, waitingSeen, aheadSeen, AncestorsIn, ValueIn, WaitingIn,
      WaitersIn, AheadIn

LEMMA ValueOfNone ==
  ASSUME NEW value \in [Key -> Int], NEW key
  PROVE  ValueIn(value, key, {}) = value
<1>1. \A k \in Key : {p \in {} : key[p] = k} = {}
  OBVIOUS
<1>2. Life!Cardinality({}) = 0
  BY SameCardinality, FS_EmptySet
<1>3. ValueIn(value, key, {}) = [k \in Key |-> value[k] + 0]
  BY <1>1, <1>2 DEF ValueIn
<1>. QED
  BY <1>3

(* Outside a termination nobody is condemned.                               *)
LEMMA CalmSeen ==
  ASSUME mode # "term", semval \in [Key -> Int]
  PROVE  condemned = {} /\ survivors = live \ {idle} /\ valueSeen = semval
<1>1. condemned = {}
  BY DEF condemned
<1>. QED
  BY <1>1, Seen, ValueOfNone DEF survivors

LEMMA CalmSeenNext ==
  ASSUME mode' # "term", semval' \in [Key -> Int]
  PROVE  condemned' = {} /\ survivors' = live' \ {idle} /\ valueSeen' = semval'
<1>1. condemned' = {}
  BY DEF condemned
<1>. QED
  BY <1>1, SeenNext, ValueOfNone DEF survivors

LEMMA TermSeenNext ==
  ASSUME mode' = "term"
  PROVE  condemned' = live' \cap Closure(p_child', victim') /\ survivors' = live' \ ({idle} \cup condemned')
  BY FamilyNextIsClosure DEF condemned, survivors

Unseen == UNCHANGED <<ancestorsSeen, valueSeen, waitingSeen, aheadSeen>>

LEMMA CalmUnseen ==
  ASSUME mode # "term", mode' # "term", semval \in [Key -> Int],
         UNCHANGED <<pcbFree, p_child, semval, s_procQ, p_semkey>>
  PROVE  Unseen
<1>1. survivors' = survivors /\ valueSeen' = valueSeen
  BY CalmSeen, CalmSeenNext DEF live
<1>. QED
  BY <1>1, Seen, SeenNext DEF Unseen

(* A process that has the processor is one ProcessLife may let act.         *)
LEMMA CallerReady ==
  ASSUME LifeInv, Caller
  PROVE  /\ mode = "user" /\ selected \in live \ {idle}
         /\ DOMAIN ancestorsSeen = live \ {idle}
         /\ Life!alive = live \ {idle}
         /\ Life!Ready(selected)
<1>1. /\ mode = "user" /\ selected \in live \ {idle} /\ p_semkey[selected] = NULL
      /\ semval \in [Key -> Int] /\ NULL \notin Key
  BY LifeFacts DEF Caller
<1>2. /\ ancestorsSeen = AncestorsIn(p_child, live \ {idle})
      /\ waitingSeen = WaitingIn(p_semkey, live \ {idle})
  BY <1>1, CalmSeen, Seen
<1>3. DOMAIN ancestorsSeen = live \ {idle}
  BY <1>2 DEF AncestorsIn
<1>4. \A k \in Key : selected \notin waitingSeen[k]
  BY <1>1, <1>2 DEF WaitingIn, WaitersIn
<1>. QED
  BY <1>1, <1>3, <1>4 DEF Life!alive, Life!Ready

Grown(child, parent, new) == [child EXCEPT ![new] = {}, ![parent] = @ \cup {new}]

(* A child given to parent, a member of a set S closed under child, is in   *)
(* the closures the parent is in, and in its own.                           *)
LEMMA ClosureGrows ==
  ASSUME NEW child \in [PCB -> SUBSET PCB], NEW S \in SUBSET PCB, \A q \in S : child[q] \subseteq S,
         NEW parent \in S, NEW new \in PCB \ S
  PROVE  /\ Closure(Grown(child, parent, new), new) = {new}
         /\ \A x \in S : Closure(Grown(child, parent, new), x) = Closure(child, x) \cup
                          (IF parent \in Closure(child, x) THEN {new} ELSE {})
<1>. DEFINE grown == Grown(child, parent, new)
<1>1. /\ grown \in [PCB -> SUBSET PCB] /\ \A q \in PCB : grown[q] \subseteq PCB
      /\ grown[new] = {} /\ grown[parent] = child[parent] \cup {new}
      /\ \A q \in PCB \ {new, parent} : grown[q] = child[q]
      /\ \A q \in PCB : child[q] \subseteq PCB
  BY DEF Grown
<1>. HIDE DEF grown
<1>2. Closure(grown, new) = {new}
  <2>1. {new} \in SUBSET PCB /\ new \in {new} /\ \A q \in {new} : grown[q] \subseteq {new}
    BY <1>1
  <2>2. Closure(grown, new) \subseteq {new}
    BY <2>1, ClosureLeast
  <2>. QED
    BY <1>1, <2>2, ClosureBasics
<1>3. ASSUME NEW x \in S
      PROVE  Closure(grown, x) = Closure(child, x) \cup
               (IF parent \in Closure(child, x) THEN {new} ELSE {})
  <2>. DEFINE old == Closure(child, x)
              now == Closure(grown, x)
              T == old \cup (IF parent \in old THEN {new} ELSE {})
  <2>1. old \subseteq S /\ x \in old /\ \A q \in old : child[q] \subseteq old
    BY <1>1, ClosureLeast, ClosureBasics
  <2>2. x \in now /\ now \subseteq PCB /\ \A q \in now : grown[q] \subseteq now
    BY <1>1, ClosureBasics
  <2>. HIDE DEF old, now
  <2>3. T \in SUBSET PCB /\ x \in T /\ \A q \in T : grown[q] \subseteq T
    BY <1>1, <2>1
  <2>4. now \subseteq T
    BY <2>3, ClosureLeast DEF now
  <2>5. old \subseteq now
    <3>1. now \cap S \in SUBSET PCB /\ x \in now \cap S /\ \A q \in now \cap S : child[q] \subseteq now \cap S
      BY <1>1, <2>2
    <3>2. old \subseteq now \cap S
      BY <3>1, ClosureLeast DEF old
    <3>. QED
      BY <3>2
  <2>6. parent \in old => new \in now
    BY <1>1, <2>2, <2>5
  <2>. QED
    BY <2>4, <2>5, <2>6 DEF old, now
<1>. QED
  BY <1>2, <1>3 DEF grown

LEMMA LiveClosed ==
  ASSUME LifeInv, mode # "term"
  PROVE  \A q \in live : p_child[q] \subseteq live
  BY DEF LifeInv, FamilyInv, CountedInv, ListInv, TreeInv, Forest

(* Who is on a queue.                                                       *)
LEMMA OnQueue ==
  ASSUME LifeInv, NEW k \in Key, NEW p, NEW r, Precedes(s_procQ[k], p, r)
  PROVE  p \in PCB /\ r \in PCB /\ p_semkey[p] = k /\ p_semkey[r] = k
<1>1. s_procQ[k] \in Seq(PCB) /\ \A q \in PCB : getProc(s_procQ[k], q) <=> p_semkey[q] = k
  BY LifeFacts
<1>2. PICK i, j \in DOMAIN s_procQ[k] : s_procQ[k][i] = p /\ s_procQ[k][j] = r
  BY DEF Precedes
<1>3. p \in PCB /\ r \in PCB
  BY <1>1, <1>2, ElementOfSeq
<1>. QED
  BY <1>1, <1>2, <1>3 DEF getProc

LEMMA CreateImplements ==
  ASSUME LifeInv, LifeInv', NEW STATE v, create_process(v)
  PROVE  Unseen \/ \E new \in PCB \ {idle} : Life!Create(selected, new)
<1>1. Caller /\ UNCHANGED <<s_procQ, semval, mode>>
  BY DEF create_process, termVars
<1>2. mode = "user" /\ mode' = "user" /\ selected \in live \ {idle}
  BY <1>1, CallerReady
<1>3. CASE UNCHANGED <<p_semkey, pcbFree, treeVars>>
  BY <1>1, <1>2, <1>3, CalmUnseen, LifeFacts DEF treeVars
<1>4. ASSUME NEW new \in pcbFree, allocPcb(new), insertChild(selected, new)
      PROVE  new \in PCB \ {idle} /\ Life!Create(selected, new)
  <2>. DEFINE S == live \ {idle}
              grown == Grown(p_child, selected, new)
  <2>0. new \in PCB /\ new \notin live /\ new # idle /\ p_semkey[new] = NULL
    <3>1. new \in PCB /\ new \notin live
      BY DEF LifeInv, FamilyInv, CountedInv, ListInv, TypeInv, TypeOK, live
    <3>. QED
      BY <3>1, LifeFacts
  <2>1. /\ new \in PCB /\ new \notin live /\ new # idle /\ live' = live \cup {new}
        /\ p_semkey' = [p_semkey EXCEPT ![new] = NULL] /\ p_semkey[new] = NULL
        /\ p_child' = grown
    BY <1>4, <2>0 DEF allocPcb, insertChild, Grown, live
  <2>2. survivors = S /\ survivors' = S \cup {new} /\ valueSeen = semval /\ valueSeen' = semval'
    BY <1>1, <1>2, <2>1, CalmSeen, CalmSeenNext, LifeFacts
  <2>3. /\ Closure(grown, new) = {new}
        /\ \A x \in live : Closure(grown, x) = Closure(p_child, x) \cup
                             (IF selected \in Closure(p_child, x) THEN {new} ELSE {})
        /\ \A x \in live : Closure(p_child, x) \subseteq live
    <3>1. /\ p_child \in [PCB -> SUBSET PCB] /\ live \in SUBSET PCB /\ selected \in live
          /\ \A q \in live : p_child[q] \subseteq live
          /\ new \in PCB \ live
      BY <1>2, <2>0, LiveClosed, LifeFacts
    <3>2. \A x \in live : Closure(p_child, x) \subseteq live
      BY <1>2, LiveFamily
    <3>3. /\ Closure(Grown(p_child, selected, new), new) = {new}
          /\ \A x \in live : Closure(Grown(p_child, selected, new), x) = Closure(p_child, x) \cup
                               (IF selected \in Closure(p_child, x) THEN {new} ELSE {})
      <4>. HIDE DEF grown
      <4>. QED
        BY ONLY <3>1, ClosureGrows
    <3>. QED
      BY <3>2, <3>3
  <2>. HIDE DEF grown
  <2>4. ancestorsSeen' = [q \in S \cup {new} |->
           IF q = new THEN ancestorsSeen[selected] \cup {new} ELSE ancestorsSeen[q]]
    <3>1. /\ ancestorsSeen' = [p \in S \cup {new} |-> {q \in S \cup {new} : p \in Closure(grown, q)}]
          /\ ancestorsSeen = [p \in S |-> {q \in S : p \in Closure(p_child, q)}]
      BY <2>1, <2>2, Seen, SeenNext DEF AncestorsIn
    <3>2. {q \in S \cup {new} : new \in Closure(grown, q)} = ancestorsSeen[selected] \cup {new}
      BY <1>2, <2>1, <2>3, <3>1
    <3>3. \A p \in S : {q \in S \cup {new} : p \in Closure(grown, q)} = ancestorsSeen[p]
      BY <2>1, <2>3, <3>1
    <3>4. \A p \in S \cup {new} : {q \in S \cup {new} : p \in Closure(grown, q)} =
            IF p = new THEN ancestorsSeen[selected] \cup {new} ELSE ancestorsSeen[p]
      BY <2>1, <3>2, <3>3
    <3>. QED
      BY ONLY <3>1, <3>4
  <2>5. waitingSeen' = waitingSeen
    <3>1. \A k \in Key : {p \in S \cup {new} : p_semkey'[p] = k} = {p \in S : p_semkey[p] = k}
      BY <2>1, LifeFacts
    <3>. QED
      BY <2>2, <3>1, Seen, SeenNext DEF WaitingIn, WaitersIn
  <2>6. aheadSeen' = aheadSeen
    <3>1. \A k \in Key : \A p, r : Precedes(s_procQ[k], p, r) => p # new /\ r # new
      BY <2>1, OnQueue, LifeFacts
    <3>. QED
      BY <1>1, <2>2, <3>1, Seen, SeenNext DEF AheadIn
  <2>7. Life!Ready(selected) /\ Life!alive = S
    BY <1>1, CallerReady
  <2>. QED
    BY <1>1, <2>1, <2>2, <2>4, <2>5, <2>6, <2>7 DEF Life!Create
<1>. QED
  BY <1>3, <1>4 DEF create_process

LEMMA ClosureWithin ==
  ASSUME NEW child, \A q \in PCB : child[q] \subseteq PCB, NEW p \in PCB, NEW q \in Closure(child, p)
  PROVE  Closure(child, q) \subseteq Closure(child, p)
  BY ClosureBasics, ClosureLeast

(* The step that calls term_process is where, for ProcessLife, the family   *)
(* dies.                                                                    *)
LEMMA TermProcessImplements ==
  ASSUME LifeInv, Caller, NEW STATE p, p \in PCB \ {idle}, NEW then, term_process(p, then),
         mode' = "term"
  PROVE  Life!Terminate(selected, p)
<1>. DEFINE S == live \ {idle}
            D == Closure(p_child, p)
<1>1. /\ mode = "user" /\ p \in S /\ victim' = p
      /\ UNCHANGED <<pcbFree, p_child, semval, s_procQ, p_semkey>>
  BY TermBegins DEF Caller
<1>2. D \subseteq S /\ p \in D
  BY <1>1, LiveFamily, LifeFacts, ClosureBasics
<1>3. live' = live /\ condemned' = D /\ survivors' = S \ D /\ survivors = S
  <2>1. live' = live /\ survivors = S
    BY <1>1, CalmSeen, LifeFacts DEF live
  <2>2. condemned' = live' \cap Closure(p_child', victim') /\ survivors' = live' \ ({idle} \cup condemned')
    BY TermSeenNext
  <2>3. condemned' = live \cap D
    BY <1>1, <2>1, <2>2
  <2>. QED
    BY <1>2, <2>1, <2>2, <2>3
<1>4. \A q \in S, x \in S : x \in D /\ q \in Closure(p_child, x) => q \in D
  BY <1>1, ClosureWithin, LifeFacts
<1>5. /\ ancestorsSeen = [q \in S |-> {x \in S : q \in Closure(p_child, x)}]
      /\ ancestorsSeen' = [q \in S \ D |-> {x \in S \ D : q \in Closure(p_child, x)}]
      /\ waitingSeen = WaitingIn(p_semkey, S) /\ waitingSeen' = WaitingIn(p_semkey, S \ D)
      /\ aheadSeen = AheadIn(s_procQ, S) /\ aheadSeen' = AheadIn(s_procQ, S \ D)
      /\ valueSeen = semval /\ valueSeen' = ValueIn(semval, p_semkey, D)
  BY <1>1, <1>3, Seen, SeenNext, CalmSeen, LifeFacts DEF AncestorsIn
<1>6. Life!Ready(selected) /\ Life!alive = S
  BY CallerReady
<1>. HIDE DEF S, D
<1>7. Life!Offspring(p) = D
  <2>1. \A q \in S : p \in ancestorsSeen[q] <=> q \in D
    <3>1. \A q \in S : p \in ancestorsSeen[q] <=> q \in Closure(p_child, p)
      BY <1>1, <1>5
    <3>. QED
      BY <3>1 DEF D
  <2>. QED
    BY <1>2, <1>6, <2>1 DEF Life!Offspring
<1>8. ancestorsSeen' = [q \in S \ D |-> ancestorsSeen[q]]
  <2>1. \A q \in S \ D : {x \in S \ D : q \in Closure(p_child, x)} = ancestorsSeen[q]
    BY <1>4, <1>5
  <2>. QED
    BY <1>5, <2>1
<1>9. waitingSeen' = [k \in Key |-> waitingSeen[k] \ D]
  BY <1>5 DEF WaitingIn, WaitersIn
<1>10. valueSeen' = [k \in Key |-> valueSeen[k] + Life!Cardinality(waitingSeen[k] \cap D)]
  <2>1. \A k \in Key : {q \in D : p_semkey[q] = k} = waitingSeen[k] \cap D
    BY <1>2, <1>5 DEF WaitingIn, WaitersIn
  <2>. QED
    BY <1>5, <2>1 DEF ValueIn
<1>11. aheadSeen' = {w \in aheadSeen : w[1] \notin D /\ w[2] \notin D}
  BY <1>5 DEF AheadIn
<1>. QED
  BY <1>1, <1>6, <1>7, <1>8, <1>9, <1>10, <1>11 DEF Life!Terminate, S

LEMMA TermProcessSeen ==
  ASSUME LifeInv, Caller, NEW STATE p, p \in PCB \ {idle}, NEW then, term_process(p, then)
  PROVE  Unseen \/ Life!Terminate(selected, p)
<1>1. CASE mode' = "term"
  BY <1>1, TermProcessImplements
<1>2. CASE mode' # "term"
  <2>1. UNCHANGED <<pcbFree, p_child, semval, s_procQ, p_semkey>> /\ mode = "user"
    BY <1>2 DEF term_process, treeVars, aslVars, Caller
  <2>. QED
    BY <1>2, <2>1, CalmUnseen, LifeFacts
<1>. QED
  BY <1>1, <1>2

------------------------------------------------------------------------------
(* The order of a queue.                                                    *)
LEMMA PrecedesLen ==
  ASSUME NEW S, NEW q \in Seq(S), NEW a, NEW b
  PROVE  Precedes(q, a, b) <=> \E i, j \in 1 .. Len(q) : i < j /\ q[i] = a /\ q[j] = b
  BY DEF Precedes

LEMMA OutProcQPrecedes ==
  ASSUME NEW S, NEW q \in Seq(S), IsInjective(q), NEW p, getProc(q, p), NEW a, NEW b,
         NEW t, t = outProcQ(q, p)
  PROVE  Precedes(t, a, b) <=> a # p /\ b # p /\ Precedes(q, a, b)
<1>1. PICK i \in 1 .. Len(q) :
        /\ q[i] = p
        /\ t \in Seq(S)
        /\ Len(t) = Len(q) - 1
        /\ \A j \in 1 .. Len(q) - 1 : t[j] = IF j < i THEN q[j] ELSE q[j + 1]
  BY OutProcQ
<1>2. Len(q) \in Nat /\ \A m, n \in 1 .. Len(q) : q[m] = q[n] => m = n
  BY InjectiveLen
<1>3. ASSUME NEW m \in 1 .. Len(t), NEW n \in 1 .. Len(t), m < n
      PROVE  t[m] # p /\ t[n] # p /\ Precedes(q, t[m], t[n])
  <2>. DEFINE f == [x \in 1 .. Len(t) |-> IF x < i THEN x ELSE x + 1]
  <2>1. /\ f[m] \in 1 .. Len(q) /\ f[n] \in 1 .. Len(q) /\ f[m] < f[n]
        /\ f[m] # i /\ f[n] # i
    BY <1>1, <1>2, <1>3
  <2>2. t[m] = q[f[m]] /\ t[n] = q[f[n]]
    BY <1>1, <1>2
  <2>. HIDE DEF f
  <2>. QED
    BY <1>1, <1>2, <2>1, <2>2, PrecedesLen
<1>4. ASSUME NEW m \in 1 .. Len(q), NEW n \in 1 .. Len(q), m < n, q[m] # p, q[n] # p
      PROVE  Precedes(t, q[m], q[n])
  <2>. DEFINE g == [x \in 1 .. Len(q) |-> IF x < i THEN x ELSE x - 1]
  <2>1. /\ g[m] \in 1 .. Len(t) /\ g[n] \in 1 .. Len(t) /\ g[m] < g[n]
    BY <1>1, <1>2, <1>4
  <2>2. ASSUME NEW x \in 1 .. Len(q), q[x] # p PROVE t[g[x]] = q[x]
    <3>1. x # i /\ Len(q) \in Nat
      BY <1>1, <1>2, <2>2
    <3>2. CASE x < i
      BY <1>1, <3>1, <3>2
    <3>3. CASE i < x
      <4>1. g[x] = x - 1 /\ x - 1 \in 1 .. Len(q) - 1 /\ ~ (x - 1 < i) /\ (x - 1) + 1 = x
        BY <3>1, <3>3
      <4>. HIDE DEF g
      <4>. QED
        BY <1>1, <4>1
    <3>. QED
      BY <3>1, <3>2, <3>3
  <2>. HIDE DEF g
  <2>3. t[g[m]] = q[m] /\ t[g[n]] = q[n]
    BY <1>4, <2>2
  <2>. QED
    BY <1>1, <2>1, <2>3, PrecedesLen
<1>5. Precedes(t, a, b) => a # p /\ b # p /\ Precedes(q, a, b)
  BY <1>1, <1>3, PrecedesLen
<1>6. a # p /\ b # p /\ Precedes(q, a, b) => Precedes(t, a, b)
  BY <1>4, PrecedesLen
<1>. QED
  BY <1>5, <1>6

LEMMA AppendPrecedes ==
  ASSUME NEW S, NEW q \in Seq(S), NEW p \in S, NEW a, NEW b
  PROVE  Precedes(Append(q, p), a, b) <=> Precedes(q, a, b) \/ (b = p /\ getProc(q, a))
<1>. DEFINE t == Append(q, p)
<1>1. /\ t \in Seq(S) /\ Len(t) = Len(q) + 1 /\ Len(q) \in Nat
      /\ \A i \in 1 .. Len(q) : t[i] = q[i]
      /\ t[Len(q) + 1] = p
  BY AppendProperties
<1>. HIDE DEF t
<1>2. Precedes(t, a, b) => Precedes(q, a, b) \/ (b = p /\ getProc(q, a))
  <2>. SUFFICES ASSUME NEW m \in 1 .. Len(t), NEW n \in 1 .. Len(t), m < n, t[m] = a, t[n] = b
                PROVE  Precedes(q, a, b) \/ (b = p /\ getProc(q, a))
    BY <1>1, PrecedesLen
  <2>1. m \in 1 .. Len(q) /\ q[m] = a
    BY <1>1
  <2>2. CASE n = Len(q) + 1
    BY <1>1, <2>1, <2>2, GetProcLen
  <2>3. CASE n # Len(q) + 1
    <3>1. n \in 1 .. Len(q) /\ q[n] = b
      BY <1>1, <2>3
    <3>. QED
      BY <2>1, <3>1, PrecedesLen
  <2>. QED
    BY <2>2, <2>3
<1>3. Precedes(q, a, b) => Precedes(t, a, b)
  BY <1>1, PrecedesLen
<1>4. b = p /\ getProc(q, a) => Precedes(t, a, b)
  <2>. SUFFICES ASSUME b = p, NEW m \in 1 .. Len(q), q[m] = a PROVE Precedes(t, a, b)
    BY GetProcLen
  <2>1. m \in 1 .. Len(t) /\ Len(q) + 1 \in 1 .. Len(t) /\ m < Len(q) + 1 /\ t[m] = a /\ t[Len(q) + 1] = b
    BY <1>1
  <2>. QED
    BY <1>1, <2>1, PrecedesLen
<1>. QED
  BY <1>2, <1>3, <1>4 DEF t

LEMMA HeadFirst ==
  ASSUME NEW S, NEW q \in Seq(S), q # <<>>, IsInjective(q), NEW a
  PROVE  /\ ~ Precedes(q, a, Head(q))
         /\ getProc(q, a) /\ a # Head(q) => Precedes(q, Head(q), a)
<1>1. Len(q) \in Nat /\ Len(q) > 0 /\ Head(q) = q[1]
  BY EmptySeq, HeadTailProperties
<1>2. \A m, n \in 1 .. Len(q) : q[m] = q[n] => m = n
  BY InjectiveLen
<1>3. ~ Precedes(q, a, Head(q))
  BY <1>1, <1>2, PrecedesLen
<1>4. ASSUME getProc(q, a), a # Head(q) PROVE Precedes(q, Head(q), a)
  <2>1. PICK n \in 1 .. Len(q) : q[n] = a
    BY <1>4, GetProcLen
  <2>2. 1 < n /\ 1 \in 1 .. Len(q)
    BY <1>1, <1>4, <2>1
  <2>. QED
    BY <1>1, <2>1, <2>2, PrecedesLen
<1>. QED
  BY <1>3, <1>4

------------------------------------------------------------------------------
LEMMA QueueFacts ==
  ASSUME LifeInv
  PROVE  AslInv /\ BlockedOnKey
  BY DEF LifeInv, FamilyInv, CountedInv, ListInv, TypeInv, QueueInv

(* A process that stops waiting, as seen in any set of processes.           *)
LEMMA UnblockSeen ==
  ASSUME LifeInv, NEW STATE k, k \in Key, NEW STATE p, p \in PCB, p_semkey[p] = k, unblock(k, p),
         NEW STATE S, S \subseteq PCB
  PROVE  /\ AheadIn(s_procQ', S) = {w \in AheadIn(s_procQ, S) : w[1] # p /\ w[2] # p}
         /\ \A j \in Key : {q \in S : p_semkey'[q] = j} = {q \in S : p_semkey[q] = j} \ {p}
<1>1. /\ s_procQ \in [Key -> Seq(PCB)] /\ p_semkey \in [PCB -> Key \cup {NULL}] /\ NULL \notin Key
      /\ IsInjective(s_procQ[k]) /\ getProc(s_procQ[k], p)
  BY LifeFacts
<1>2. /\ s_procQ' = [s_procQ EXCEPT ![k] = outProcQ(s_procQ[k], p)]
      /\ p_semkey' = [p_semkey EXCEPT ![p] = NULL]
  BY DEF unblock
<1>3. \A a, b : Precedes(outProcQ(s_procQ[k], p), a, b) <=> a # p /\ b # p /\ Precedes(s_procQ[k], a, b)
  BY <1>1, OutProcQPrecedes
<1>4. ASSUME NEW j \in Key, NEW a, NEW b
      PROVE  Precedes(s_procQ'[j], a, b) <=> a # p /\ b # p /\ Precedes(s_procQ[j], a, b)
  <2>1. CASE j = k
    BY <1>1, <1>2, <1>3, <2>1
  <2>2. CASE j # k
    <3>1. s_procQ'[j] = s_procQ[j]
      BY <1>1, <1>2, <2>2
    <3>2. Precedes(s_procQ[j], a, b) => a # p /\ b # p
      BY <2>2, OnQueue
    <3>. QED
      BY <3>1, <3>2
  <2>. QED
    BY <2>1, <2>2
<1>5. AheadIn(s_procQ', S) = {w \in AheadIn(s_procQ, S) : w[1] # p /\ w[2] # p}
  <2>1. \A a, b : (\E j \in Key : Precedes(s_procQ'[j], a, b)) <=>
                   a # p /\ b # p /\ \E j \in Key : Precedes(s_procQ[j], a, b)
    BY <1>4
  <2>2. \A w : w \in AheadIn(s_procQ', S) <=> w \in AheadIn(s_procQ, S) /\ w[1] # p /\ w[2] # p
    BY <2>1 DEF AheadIn
  <2>. QED
    BY <2>2
<1>6. \A j \in Key : {q \in S : p_semkey'[q] = j} = {q \in S : p_semkey[q] = j} \ {p}
  BY <1>1, <1>2
<1>. QED
  BY <1>5, <1>6

(* delete_ric carries out what has been promised.                           *)
LEMMA DeleteRicUnseen ==
  ASSUME LifeInv, NEW STATE p, p \in PCB, delete_ric(p)
  PROVE  Unseen
<1>1. /\ mode = "term" /\ mode' = "term"
      /\ p \in live /\ p \in Family(victim) /\ live' = live \ {p}
      /\ UNCHANGED <<p_child, p_parent, victim>>
  BY DeleteRicTree DEF LifeInv, FamilyInv, CountedInv
<1>2. p \in condemned /\ condemned \subseteq live /\ condemned' = condemned \ {p} /\ survivors' = survivors
  BY <1>1, TermSeenNext, FamilyIsClosure DEF condemned, survivors
<1>3. p \notin survivors /\ survivors \subseteq PCB /\ condemned \subseteq PCB
  BY <1>2, LifeFacts DEF survivors
<1>4. ancestorsSeen' = ancestorsSeen
  BY <1>1, <1>2, Seen, SeenNext
<1>5. CASE p_semkey[p] = NULL
  <2>1. UNCHANGED <<semval, s_procQ, p_semkey>>
    BY <1>5 DEF delete_ric, unlink, aslVars
  <2>2. \A k \in Key : {q \in condemned \ {p} : p_semkey[q] = k} = {q \in condemned : p_semkey[q] = k}
    BY <1>5, LifeFacts
  <2>3. valueSeen' = valueSeen
    BY <1>2, <2>1, <2>2, Seen, SeenNext DEF ValueIn
  <2>. QED
    BY <1>2, <1>4, <2>1, <2>3, Seen, SeenNext DEF Unseen
<1>6. CASE p_semkey[p] # NULL
  <2>. DEFINE k == p_semkey[p]
  <2>1. k \in Key /\ semval' = [semval EXCEPT ![k] = @ + 1] /\ unblock(k, p)
    BY <1>6, OutBlockedQueues, QueueFacts DEF delete_ric, unlink
  <2>. HIDE DEF k
  <2>2. /\ AheadIn(s_procQ', survivors) = {w \in AheadIn(s_procQ, survivors) : w[1] # p /\ w[2] # p}
        /\ \A j \in Key : {q \in survivors : p_semkey'[q] = j} = {q \in survivors : p_semkey[q] = j} \ {p}
        /\ \A j \in Key : {q \in condemned : p_semkey'[q] = j} = {q \in condemned : p_semkey[q] = j} \ {p}
    BY <1>3, <2>1, UnblockSeen DEF k
  <2>3. aheadSeen' = aheadSeen
    <3>1. \A w \in AheadIn(s_procQ, survivors) : w[1] # p /\ w[2] # p
      BY <1>3 DEF AheadIn
    <3>. QED
      BY <1>2, <2>2, <3>1, Seen, SeenNext
  <2>4. waitingSeen' = waitingSeen
    <3>1. \A j \in Key : {q \in survivors : p_semkey'[q] = j} = {q \in survivors : p_semkey[q] = j}
      BY <1>3, <2>2
    <3>. QED
      BY <1>2, <3>1, Seen, SeenNext DEF WaitingIn, WaitersIn
  <2>5. ASSUME NEW j \in Key
        PROVE  semval'[j] + Cardinality({q \in condemned \ {p} : p_semkey'[q] = j}) =
                 semval[j] + Cardinality({q \in condemned : p_semkey[q] = j})
    <3>. DEFINE T == {q \in condemned : p_semkey[q] = j}
                U == {q \in condemned \ {p} : p_semkey'[q] = j}
    <3>1. U = T \ {p}
      BY <2>2
    <3>2. IsFiniteSet(T) /\ Cardinality(T) \in Nat
      BY <1>3, TableAssumption, FS_Subset, FS_CardinalityType
    <3>3. semval[j] \in Int /\ semval'[j] = IF j = k THEN semval[j] + 1 ELSE semval[j]
      BY <2>1, LifeFacts
    <3>4. p \in T <=> j = k
      BY <1>2 DEF k
    <3>. HIDE DEF T, U
    <3>5. ASSUME j = k PROVE semval'[j] + Cardinality(U) = semval[j] + Cardinality(T)
      <4>1. Cardinality(T \ {p}) = Cardinality(T) - 1
        BY <3>2, <3>4, <3>5, FS_RemoveElement
      <4>. QED
        BY <3>1, <3>2, <3>3, <3>5, <4>1
    <3>6. ASSUME j # k PROVE semval'[j] + Cardinality(U) = semval[j] + Cardinality(T)
      <4>1. T \ {p} = T
        BY <3>4, <3>6
      <4>. QED
        BY <3>1, <3>3, <3>6, <4>1
    <3>. QED
      BY <3>5, <3>6 DEF T, U
  <2>6. valueSeen' = valueSeen
    BY <1>2, <2>5, SameCardinality, Seen, SeenNext DEF ValueIn
  <2>. QED
    BY <1>4, <2>3, <2>4, <2>6 DEF Unseen
<1>. QED
  BY <1>5, <1>6

(* A V is a Release: the waiter it wakes is the one nobody is ahead of.      *)
LEMMA WakeImplements ==
  ASSUME LifeInv, NEW STATE k, k \in Key, Wake(k)
  PROVE  Life!Release(k)
<1>. DEFINE S == live \ {idle}
<1>1. /\ mode = "user" /\ mode' = "user"
      /\ UNCHANGED <<pcbFree, p_child>>
      /\ semval' = [semval EXCEPT ![k] = @ + 1]
      /\ removeBlocked(k)
  BY DEF Wake, treeVars
<1>2. /\ s_procQ \in [Key -> Seq(PCB)] /\ p_semkey \in [PCB -> Key \cup {NULL}] /\ NULL \notin Key
      /\ semval \in [Key -> Int] /\ semval' \in [Key -> Int] /\ live \subseteq PCB
      /\ p_semkey[idle] = NULL /\ \A p \in PCB : p_semkey[p] # NULL => p \in live
  BY <1>1, LifeFacts
<1>3. /\ survivors = S /\ survivors' = S /\ S \subseteq PCB /\ live' = live
      /\ valueSeen = semval /\ valueSeen' = semval'
  BY <1>1, <1>2, CalmSeen, CalmSeenNext DEF live
<1>4. /\ ancestorsSeen' = ancestorsSeen
      /\ waitingSeen = WaitingIn(p_semkey, S) /\ waitingSeen' = WaitingIn(p_semkey', S)
      /\ aheadSeen = AheadIn(s_procQ, S) /\ aheadSeen' = AheadIn(s_procQ', S)
  BY <1>1, <1>3, Seen, SeenNext
<1>5. CASE headBlocked(k) = NULL
  <2>1. UNCHANGED <<s_procQ, p_semkey>>
    BY <1>1, <1>5 DEF removeBlocked, aslVars
  <2>2. s_procQ[k] = <<>>
    <3>1. CASE k \notin asl
      BY <3>1, QueueFacts DEF AslInv, SemdAccounting
    <3>2. CASE k \in asl
      <4>1. s_procQ[k] # <<>> => Head(s_procQ[k]) \in PCB
        BY <1>2, HeadTailProperties
      <4>. QED
        BY <1>5, <3>2, <4>1, TableAssumption DEF headBlocked
    <3>. QED
      BY <3>1, <3>2
  <2>3. \A p \in PCB : p_semkey[p] # k
    BY <2>2, LifeFacts DEF getProc
  <2>4. waitingSeen[k] = {}
    BY <1>3, <1>4, <2>3 DEF WaitingIn, WaitersIn
  <2>. QED
    BY <1>1, <1>3, <1>4, <2>1, <2>4 DEF Life!Release
<1>6. CASE headBlocked(k) # NULL
  <2>. DEFINE h == headBlocked(k)
  <2>1. h \in PCB /\ p_semkey[h] = k /\ unblock(k, h)
    BY <1>1, <1>6, RemoveBlockedQueues, QueueFacts
  <2>2. h = Head(s_procQ[k]) /\ s_procQ[k] # <<>> /\ s_procQ[k] \in Seq(PCB) /\ IsInjective(s_procQ[k])
    BY <1>2, <1>6, LifeFacts DEF headBlocked
  <2>. HIDE DEF h
  <2>3. h \in S /\ h \in waitingSeen[k]
    BY <1>2, <1>4, <2>1 DEF WaitingIn, WaitersIn
  <2>4. /\ AheadIn(s_procQ', S) = {w \in AheadIn(s_procQ, S) : w[1] # h /\ w[2] # h}
        /\ \A j \in Key : {q \in S : p_semkey'[q] = j} = {q \in S : p_semkey[q] = j} \ {h}
    BY <1>3, <2>1, UnblockSeen
  <2>5. \A w \in aheadSeen : w[2] # h
    <3>1. ASSUME NEW j \in Key, NEW a, Precedes(s_procQ[j], a, h) PROVE FALSE
      <4>1. j = k
        BY <2>1, <3>1, OnQueue
      <4>. QED
        BY <2>2, <3>1, <4>1, HeadFirst
    <3>. QED
      BY <1>4, <3>1 DEF AheadIn
  <2>6. aheadSeen' = {w \in aheadSeen : w[1] # h}
    BY <1>4, <2>4, <2>5
  <2>7. waitingSeen' = [waitingSeen EXCEPT ![k] = @ \ {h}]
    <3>. DEFINE W == waitingSeen[k] \ {h}
    <3>1. \A j \in Key : {q \in S : p_semkey'[q] = j} =
            IF j = k THEN {q \in S : p_semkey[q] = j} \ {h} ELSE {q \in S : p_semkey[q] = j}
      BY <2>1, <2>4
    <3>2. waitingSeen[k] = {q \in S : p_semkey[q] = k}
      BY <1>4 DEF WaitingIn, WaitersIn
    <3>3. \A j \in Key : WaitersIn(p_semkey', S, j) = IF j = k THEN W ELSE WaitersIn(p_semkey, S, j)
      BY <3>1, <3>2 DEF WaitersIn
    <3>. HIDE DEF W
    <3>4. WaitingIn(p_semkey', S) = [j \in Key |-> IF j = k THEN W ELSE WaitersIn(p_semkey, S, j)]
      BY <3>3 DEF WaitingIn
    <3>5. [WaitingIn(p_semkey, S) EXCEPT ![k] = W] =
            [j \in Key |-> IF j = k THEN W ELSE WaitersIn(p_semkey, S, j)]
      BY DEF WaitingIn
    <3>. QED
      BY <1>4, <3>4, <3>5 DEF W
  <2>8. \A q \in waitingSeen[k] : <<q, h>> \notin aheadSeen
    BY <2>5
  <2>. QED
    BY <1>1, <1>3, <1>4, <2>3, <2>6, <2>7, <2>8 DEF Life!Release
<1>. QED
  BY <1>5, <1>6

(* passeren is P: a caller that has to wait comes behind those who wait.    *)
LEMMA PasserenImplements ==
  ASSUME LifeInv, LifeInv', NEW STATE k, k \in Key, passeren(k)
  PROVE  Life!P(selected, k)
<1>. DEFINE S == live \ {idle}
<1>1. /\ Caller /\ mode = "user" /\ mode' # "term"
      /\ UNCHANGED <<pcbFree, p_child>>
      /\ semval' = [semval EXCEPT ![k] = @ - 1]
  BY DEF passeren, treeVars, Caller, scheduling
<1>2. /\ s_procQ \in [Key -> Seq(PCB)] /\ p_semkey \in [PCB -> Key \cup {NULL}] /\ NULL \notin Key
      /\ semval \in [Key -> Int] /\ semval' \in [Key -> Int] /\ live \subseteq PCB
      /\ selected \in PCB /\ selected \in S /\ p_semkey[selected] = NULL
  BY <1>1, LifeFacts DEF Caller
<1>3. /\ survivors = S /\ survivors' = S /\ S \subseteq PCB /\ live' = live
      /\ valueSeen = semval /\ valueSeen' = semval'
  BY <1>1, <1>2, CalmSeen, CalmSeenNext DEF live
<1>4. /\ ancestorsSeen' = ancestorsSeen
      /\ waitingSeen = WaitingIn(p_semkey, S) /\ waitingSeen' = WaitingIn(p_semkey', S)
      /\ aheadSeen = AheadIn(s_procQ, S) /\ aheadSeen' = AheadIn(s_procQ', S)
  BY <1>1, <1>3, Seen, SeenNext
<1>5. CASE semval[k] > 0 /\ UNCHANGED aslVars
  <2>1. UNCHANGED <<s_procQ, p_semkey>>
    BY <1>5 DEF aslVars
  <2>. QED
    BY <1>1, <1>3, <1>4, <1>5, <2>1, CallerReady DEF Life!P
<1>6. CASE semval[k] <= 0 /\ insertBlocked(k, selected)
  <2>1. semdFree # 0
    BY <1>2, DescriptorLeft, QueueFacts
  <2>2. /\ s_procQ' = [s_procQ EXCEPT ![k] = Append(s_procQ[k], selected)]
        /\ p_semkey' = [p_semkey EXCEPT ![selected] = k]
    <3>1. k \notin asl => s_procQ[k] = <<>>
      BY QueueFacts DEF AslInv, SemdAccounting
    <3>. QED
      BY <1>6, <2>1, <3>1 DEF insertBlocked
  <2>3. waitingSeen' = [waitingSeen EXCEPT ![k] = @ \cup {selected}]
    <3>. DEFINE W == waitingSeen[k] \cup {selected}
    <3>1. \A j \in Key : {q \in S : p_semkey'[q] = j} =
            IF j = k THEN {q \in S : p_semkey[q] = j} \cup {selected} ELSE {q \in S : p_semkey[q] = j}
      BY <1>2, <2>2
    <3>2. waitingSeen[k] = {q \in S : p_semkey[q] = k}
      BY <1>4 DEF WaitingIn, WaitersIn
    <3>3. \A j \in Key : WaitersIn(p_semkey', S, j) = IF j = k THEN W ELSE WaitersIn(p_semkey, S, j)
      BY <3>1, <3>2 DEF WaitersIn
    <3>. HIDE DEF W
    <3>4. WaitingIn(p_semkey', S) = [j \in Key |-> IF j = k THEN W ELSE WaitersIn(p_semkey, S, j)]
      BY <3>3 DEF WaitingIn
    <3>5. [WaitingIn(p_semkey, S) EXCEPT ![k] = W] =
            [j \in Key |-> IF j = k THEN W ELSE WaitersIn(p_semkey, S, j)]
      BY DEF WaitingIn
    <3>. QED
      BY <1>4, <3>4, <3>5 DEF W
  <2>4. aheadSeen' = aheadSeen \cup {<<q, selected>> : q \in waitingSeen[k]}
    <3>1. ASSUME NEW a \in S, NEW b \in S
          PROVE  (\E j \in Key : Precedes(s_procQ'[j], a, b)) <=>
                   (\E j \in Key : Precedes(s_procQ[j], a, b)) \/ (b = selected /\ p_semkey[a] = k)
      <4>1. \A j \in Key : j # k => s_procQ'[j] = s_procQ[j]
        BY <1>2, <2>2
      <4>2. s_procQ'[k] = Append(s_procQ[k], selected) /\ s_procQ[k] \in Seq(PCB)
        BY <1>2, <2>2
      <4>3. Precedes(s_procQ'[k], a, b) <=>
              Precedes(s_procQ[k], a, b) \/ (b = selected /\ getProc(s_procQ[k], a))
        BY <1>2, <4>2, AppendPrecedes
      <4>4. getProc(s_procQ[k], a) <=> p_semkey[a] = k
        BY <1>3, LifeFacts
      <4>. QED
        BY <4>1, <4>3, <4>4
    <3>2. waitingSeen[k] = {q \in S : p_semkey[q] = k}
      BY <1>4 DEF WaitingIn, WaitersIn
    <3>. DEFINE T == {<<q, selected>> : q \in waitingSeen[k]}
    <3>3. aheadSeen' \subseteq S \X S /\ aheadSeen \subseteq S \X S /\ T \subseteq S \X S
      <4>1. aheadSeen' \subseteq S \X S /\ aheadSeen \subseteq S \X S
        BY <1>4 DEF AheadIn
      <4>2. waitingSeen[k] \subseteq S
        BY <3>2
      <4>. QED
        BY <1>2, <4>1, <4>2
    <3>4. \A a \in S, b \in S :
            /\ <<a, b>> \in aheadSeen' <=> \E j \in Key : Precedes(s_procQ'[j], a, b)
            /\ <<a, b>> \in aheadSeen <=> \E j \in Key : Precedes(s_procQ[j], a, b)
            /\ <<a, b>> \in T <=> b = selected /\ p_semkey[a] = k
      BY <1>4, <3>2 DEF AheadIn
    <3>5. \A a \in S, b \in S : <<a, b>> \in aheadSeen' <=> <<a, b>> \in aheadSeen \cup T
      BY <3>1, <3>4
    <3>. HIDE DEF T
    <3>6. aheadSeen' = aheadSeen \cup T
      BY <3>3, <3>5
    <3>. QED
      BY <3>6 DEF T
  <2>5. ~ (valueSeen[k] > 0)
    BY <1>2, <1>3, <1>6
  <2>. QED
    BY <1>1, <1>3, <1>4, <2>3, <2>4, <2>5, CallerReady DEF Life!P
<1>7. ~ (selected \in pcbFree)
  BY <1>2 DEF live
<1>. QED
  BY <1>5, <1>6, <1>7 DEF passeren

------------------------------------------------------------------------------
(* When delete_ric has nothing left to do, the family is gone: the member   *)
(* of least rank still there would hang from one that is there too.         *)
LEMMA FamilyGone ==
  ASSUME LifeInv, mode = "term", doomed = {}
  PROVE  victim \in PCB /\ live \cap Closure(p_child, victim) = {}
<1>. DEFINE F == Closure(p_child, victim)
            T == live \cap F
<1>1. victim \in PCB /\ victim \notin live
  BY DEF LifeInv, FamilyInv, VictimFirst, CountedInv, ListInv, TreeInv, Forest
<1>2. PICK r \in [PCB -> Nat] : WholeForest(r)
  BY DEF LifeInv, WholeTree
<1>3. F \subseteq PCB /\ F \subseteq tree
  BY <1>1, ClosureBasics, LifeFacts, FamilyIsClosure DEF tree
<1>4. ASSUME T # {} PROVE FALSE
  <2>1. T \subseteq PCB
    BY <1>3
  <2>2. PICK q \in T : \A x \in T : ~ (r[x] < r[q])
    BY <1>4, <2>1, LeastRank
  <2>3. PICK x \in F : q \in p_child[x]
    BY <1>1, <2>2, ClosureUp, LifeFacts
  <2>4. p_parent[q] = x /\ r[x] < r[q] /\ x # NULL
    BY <1>2, <1>3, <2>3, TableAssumption DEF WholeForest
  <2>5. q \in live \ {idle, pcb_test}
    BY <2>2, <2>4 DEF LifeInv, Founders
  <2>6. p_parent[q] \in live
    BY <2>5 DEF LifeInv, FamilyInv, Parented
  <2>. QED
    BY <2>2, <2>3, <2>4, <2>6
<1>. QED
  BY <1>1, <1>4

LEMMA TermDoneUnseen ==
  ASSUME LifeInv, TermDone
  PROVE  Unseen
<1>. DEFINE F == Closure(p_child, victim)
            S == live \ {idle}
<1>1. /\ mode = "term" /\ mode' # "term" /\ doomed = {} /\ outChild(victim)
      /\ UNCHANGED <<pcbFree, semval, s_procQ, p_semkey>>
  BY DEF TermDone, scheduling, aslVars
<1>2. victim \in PCB /\ live \cap F = {}
  BY <1>1, FamilyGone
<1>3. /\ p_child \in [PCB -> SUBSET PCB] /\ semval \in [Key -> Int]
      /\ \A q \in PCB : p_child[q] \subseteq PCB
      /\ S \subseteq PCB
  BY LifeFacts
<1>4. condemned = {} /\ survivors = S
  BY <1>1, <1>2, FamilyIsClosure DEF condemned, survivors
<1>5. survivors' = S /\ valueSeen' = semval' /\ valueSeen = semval
  BY <1>1, <1>3, <1>4, CalmSeenNext, Seen, ValueOfNone DEF live
<1>6. \A q \in PCB : /\ p_child'[q] \subseteq p_child[q]
                     /\ p_child[q] \subseteq p_child'[q] \cup {victim}
  BY <1>1, <1>2, <1>3 DEF outChild, treeVars
<1>7. F \subseteq PCB /\ victim \in F /\ \A q \in F : p_child[q] \subseteq F
  BY <1>2, <1>3, ClosureBasics
<1>8. ASSUME NEW q \in S, NEW p \in S
      PROVE  p \in Closure(p_child', q) <=> p \in Closure(p_child, q)
  <2>. DEFINE old == Closure(p_child, q)
              now == Closure(p_child', q)
  <2>1. old \in SUBSET PCB /\ q \in old /\ \A x \in old : p_child[x] \subseteq old
    BY <1>3, ClosureBasics
  <2>2. now \in SUBSET PCB /\ q \in now /\ \A x \in now : p_child'[x] \subseteq now
    BY <1>3, <1>6, ClosureBasics
  <2>. HIDE DEF old, now, F
  <2>3. now \subseteq old
    <3>1. \A x \in old : p_child'[x] \subseteq old
      BY <1>6, <2>1
    <3>. QED
      BY <1>3, <2>1, <3>1, ClosureLeast DEF now
  <2>4. old \subseteq now \cup F
    <3>1. now \cup F \in SUBSET PCB /\ \A x \in now \cup F : p_child[x] \subseteq now \cup F
      BY <1>6, <1>7, <2>2
    <3>. QED
      BY <1>3, <2>2, <3>1, ClosureLeast DEF old
  <2>5. p \notin F
    BY <1>2
  <2>. QED
    BY <2>3, <2>4, <2>5 DEF old, now
<1>9. ancestorsSeen' = ancestorsSeen
  <2>1. AncestorsIn(p_child', S) = AncestorsIn(p_child, S)
    BY <1>8 DEF AncestorsIn
  <2>. QED
    BY <1>4, <1>5, <2>1, Seen, SeenNext
<1>. QED
  BY <1>1, <1>4, <1>5, <1>9, Seen, SeenNext DEF Unseen

------------------------------------------------------------------------------
LEMMA InitImplements ==
  ASSUME Init, LifeInv
  PROVE  Life!LifeInit
<1>1. /\ mode # "term" /\ live \ {idle} = {pcb_test} /\ pcb_test \in PCB
      /\ p_child = [p \in PCB |-> {}] /\ p_semkey = [p \in PCB |-> NULL]
      /\ s_procQ = [k \in Key |-> <<>>]
      /\ semval \in [Key -> Nat] /\ semval \in [Key -> Int]
  BY NucleusAssumption DEF Init, initASL, live
<1>2. survivors = {pcb_test} /\ valueSeen = semval
  BY <1>1, CalmSeen
<1>3. ancestorsSeen = [p \in {pcb_test} |-> {pcb_test}]
  <2>1. pcb_test \in Closure(p_child, pcb_test)
    BY <1>1, ClosureBasics, LifeFacts
  <2>. QED
    BY <1>2, <2>1, Seen DEF AncestorsIn
<1>4. waitingSeen = [k \in Key |-> {}]
  BY <1>1, <1>2, Seen, TableAssumption DEF WaitingIn, WaitersIn
<1>5. aheadSeen = {}
  <2>1. \A a, b : ~ Precedes(<<>>, a, b)
    BY EmptySeq DEF Precedes
  <2>2. \A k \in Key : \A a, b : ~ Precedes(s_procQ[k], a, b)
    BY <1>1, <2>1
  <2>. QED
    BY <2>2, Seen DEF AheadIn
<1>. QED
  BY <1>1, <1>2, <1>3, <1>4, <1>5 DEF Life!LifeInit

(* Each step of the nucleus is a step of ProcessLife, or cannot be seen.    *)
LEMMA NextImplements ==
  ASSUME ~ KillsOwnAncestry, LifeInv, LifeInv', [Next]_vars
  PROVE  [Life!LifeNext]_(Life!lifeVars)
<1>. DEFINE Act == \/ \E q \in PCB \ {idle} : Life!Create(selected, q) \/ Life!Terminate(selected, q)
                   \/ \E k \in Key : Life!V(selected, k) \/ Life!P(selected, k)
            Goal == Unseen \/ (Caller /\ Act)
<1>. SUFFICES Goal
  <2>1. CASE Unseen
    BY <2>1 DEF Unseen, Life!lifeVars
  <2>2. CASE Caller /\ Act
    <3>1. selected \in Life!alive
      BY <2>2, CallerReady
    <3>. QED
      BY <2>2, <3>1 DEF Life!LifeNext
  <2>. QED
    BY <2>1, <2>2
<1>a. Caller => selected \in PCB \ {idle}
  BY LifeFacts DEF Caller
<1>b. ASSUME NEW p \in PCB \ {idle}, NEW then, Caller, term_process(p, then) PROVE Goal
  BY <1>b, TermProcessSeen
<1>1. CASE Boot \/ TimerInterrupt
  BY <1>1, CalmUnseen, LifeFacts DEF Boot, TimerInterrupt, aslVars, treeVars, scheduling
<1>2. ASSUME NEW v \in Priority, create_process(v) PROVE Goal
  BY <1>2, CreateImplements DEF create_process
<1>3. CASE TerminateSelf
  BY <1>a, <1>b, <1>3 DEF TerminateSelf
<1>4. ASSUME NEW p \in PCB, TerminatePid(p) PROVE Goal
  BY <1>b, <1>4 DEF TerminatePid
<1>5. ASSUME NEW p \in PCB, delete_ric(p) PROVE Goal
  BY <1>5, DeleteRicUnseen
<1>6. CASE TermDone
  BY <1>6, TermDoneUnseen
<1>7. ASSUME NEW k \in Key, verhogen(k) \/ passeren(k) PROVE Goal
  BY <1>7, VerhogenWakes, WakeImplements, CallerReady, PasserenImplements
     DEF verhogen, passeren, Life!V
<1>8. ASSUME UNCHANGED <<aslVars, semval, pcbFree, mode, treeVars, termVars>> PROVE Goal
  <2>1. UNCHANGED <<p_child, semval, s_procQ, p_semkey, pcbFree, mode, victim>>
    BY <1>8 DEF aslVars, treeVars, termVars
  <2>2. condemned' = condemned /\ survivors' = survivors
    BY <2>1, FamilyIsClosure, FamilyNextIsClosure DEF condemned, survivors, live
  <2>. QED
    BY <2>1, <2>2, Seen, SeenNext DEF Unseen
<1>9. ASSUME NEW t \in PassType, specpassup(t) PROVE Goal
  BY <1>a, <1>b, <1>8, <1>9 DEF specpassup, schedVars
<1>10. CASE UnknownSyscall \/ tlb_H \/ trap_H
  BY <1>a, <1>b, <1>10 DEF UnknownSyscall, tlb_H, trap_H, PassUpOrDie
<1>11. CASE UNCHANGED vars \/ Stopped
  BY <1>8, <1>11 DEF Stopped, vars, schedVars
<1>. QED
  BY <1>1, <1>2, <1>3, <1>4, <1>5, <1>6, <1>7, <1>9, <1>10, <1>11 DEF Next

(* Seen from the processes, the nucleus is a tree of processes that create  *)
(* and terminate one another at one stroke and meet on semaphores, served   *)
(* in order: all a termination does in between, and all of dispatching, is  *)
(* hidden from them.                                                        *)
THEOREM NucleusImplementsLife ==
  ASSUME ~ KillsOwnAncestry
  PROVE  Spec => ImplementsLife
<1>1. Init => LifeInv /\ Life!LifeInit
  BY InitLifeInv, InitImplements
<1>2. LifeInv /\ [Step]_vars => LifeInv'
  BY NextLifeInv
<1>3. LifeInv /\ LifeInv' /\ [Next]_vars => [Life!LifeNext]_(Life!lifeVars)
  BY NextImplements
<1>. QED
  BY <1>1, <1>2, <1>3, NextIsStep, PTL DEF Spec, ImplementsLife, Life!LifeSpec
==============================================================================
