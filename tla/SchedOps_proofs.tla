--------------------------- MODULE SchedOps_proofs ---------------------------
(***************************************************************************)
(* Lemmas about the operators of SchedOps.tla: each function of sched.c    *)
(* keeps its globals well typed and its used slots on one circle.          *)
(***************************************************************************)
EXTENDS SchedOps, FiniteSetTheorems, WellFoundedInduction, TLAPS

(* A set of naturals that is not empty has a least element. *)
LEMMA NatMin ==
  ASSUME NEW S \in SUBSET Nat, S # {}
  PROVE  \E m \in S : \A k \in S : m <= k
<1> DEFINE R == OpToRel(<, Nat)
<1>1. IsWellFoundedOn(R, Nat)
  BY NatLessThanWellFounded
<1>2. \A x, y \in Nat : x < y => <<x, y>> \in R
  BY DEF OpToRel
<1> HIDE DEF R
<1>3. PICK m \in S : \A k \in S : ~ (<<k, m>> \in R)
  BY <1>1, WFMin, Zenon
<1>4. \A k \in S : ~ (k < m)
  <2> SUFFICES ASSUME NEW k \in S PROVE ~ (k < m)
    OBVIOUS
  <2>1. <<k, m>> \notin R
    BY <1>3
  <2>2. k \in Nat /\ m \in Nat
    OBVIOUS
  <2>3. QED
    BY <1>2, <2>1, <2>2, Zenon
<1>5. QED
  BY <1>4

(* The search loop of sched_load stops at a free slot (sched.c:75-80). *)
LEMMA FoundSlotIsFree ==
  ASSUME NEW tasks, HasSlot(tasks)
  PROVE  /\ FoundSlot(tasks) \in Slots /\ FoundSlot(tasks) \notin Used(tasks)
         /\ tasks[FoundSlot(tasks)].pd = FREE_PID
<1> DEFINE F == Slots \ Used(tasks)
<1>1. F # {} /\ F \in SUBSET Nat
  BY SchedAssumption DEF HasSlot, Slots, Used
<1>2. \E i \in F : \A j \in F : i <= j
  BY <1>1, NatMin
<1>3. FoundSlot(tasks) \in F
  BY <1>2 DEF FoundSlot
<1>4. QED
  BY <1>3 DEF Used

(* sched_init leaves an empty circle (sched.c:59-70). *)
LEMMA InitIsCircle ==
  SchedType(SchedInit) /\ OneCircle(SchedInit)
<1>1. SchedType(SchedInit)
  BY SchedAssumption DEF SchedType, Task, SchedInit, FreeSlot, Slots, NULL, FREE_PID
<1>2. Used(SchedInit.tasks) = {}
  BY DEF Used, SchedInit, FreeSlot
<1>3. OneCircle(SchedInit)
  <2> DEFINE f == [k \in 0 .. 0 - 1 |-> 0]
  <2>1. 0 .. 0 - 1 = {}
    OBVIOUS
  <2>2. /\ SchedInit.running_tasks = 0 /\ SchedInit.actual = NULL
        /\ SchedInit.first = NULL /\ SchedInit.last = NULL
    BY DEF SchedInit
  <2>3. f \in [0 .. 0 - 1 -> Slots]
    BY <2>1
  <2>4. Lists(f, 0, SchedInit.tasks) /\ Ends(f, 0, NULL, NULL)
    BY <1>2, <2>1 DEF Lists, Ends
  <2>5. QED
    BY <1>2, <2>2, <2>3, <2>4 DEF OneCircle
<1>4. QED
  BY <1>1, <1>3

-----------------------------------------------------------------------------
(* The list f of n slots followed by slot i, and the list f without its    *)
(* place p.                                                                *)
Extended(f, n, i) == [k \in 0 .. n |-> IF k = n THEN i ELSE f[k]]
Without(f, n, p)  == [k \in 0 .. n - 2 |-> IF k < p THEN f[k] ELSE f[k + 1]]

(* Linking a free slot i between last and first puts it at the end of the  *)
(* list (the assignments of sched.c:91-98).                                *)
LEMMA LinkAtEnd ==
  ASSUME NEW tasks, NEW new, NEW n \in Nat \ {0},
         NEW f \in [0 .. n - 1 -> Slots], Lists(f, n, tasks),
         NEW i \in Slots, i \notin Used(tasks),
         \A j \in Slots :
           /\ new[j].pd # FREE_PID <=> j = i \/ tasks[j].pd # FREE_PID
           /\ new[j].next = IF j = i THEN f[0] ELSE IF j = f[n - 1] THEN i ELSE tasks[j].next
           /\ new[j].prev = IF j = i THEN f[n - 1] ELSE IF j = f[0] THEN i ELSE tasks[j].prev
  PROVE  /\ Extended(f, n, i) \in [0 .. n -> Slots]
         /\ Lists(Extended(f, n, i), n + 1, new)
<1> DEFINE g == Extended(f, n, i)
<1>1. \A k \in 0 .. n - 1 : f[k] \in Slots /\ f[k] # i
  BY DEF Lists
<1>2. g \in [0 .. n -> Slots] /\ g[n] = i /\ \A k \in 0 .. n - 1 : g[k] = f[k]
  BY <1>1 DEF Extended
<1> HIDE DEF g
<1>3. \A j \in Slots : j \in Used(new) <=> j = i \/ j \in Used(tasks)
  BY DEF Used
<1>4. \A j, k \in 0 .. n : g[j] = g[k] => j = k
  BY <1>1, <1>2 DEF Lists
<1>5. \A j \in Slots : j \in Used(new) <=> \E k \in 0 .. n : g[k] = j
  <2> SUFFICES ASSUME NEW j \in Slots
               PROVE  j \in Used(new) <=> \E k \in 0 .. n : g[k] = j
    OBVIOUS
  <2>1. j \in Used(tasks) <=> \E k \in 0 .. n - 1 : f[k] = j
    BY DEF Lists
  <2>2. \A k \in 0 .. n : k = n \/ k \in 0 .. n - 1
    OBVIOUS
  <2>3. QED
    BY <1>2, <1>3, <2>1, <2>2
<1>6. ASSUME NEW k \in 0 .. n
      PROVE  /\ new[g[k]].next = g[Succ(k, n + 1)]
             /\ new[g[Succ(k, n + 1)]].prev = g[k]
  <2>1. CASE k = n
    <3>1. Succ(k, n + 1) = 0
      BY <2>1 DEF Succ
    <3>2. g[k] = i /\ g[0] = f[0] /\ f[0] # i /\ f[0] \in Slots
      BY <1>1, <1>2, <2>1
    <3>3. QED
      BY <3>1, <3>2
  <2>2. CASE k = n - 1
    <3>1. Succ(k, n + 1) = n
      BY <2>2 DEF Succ
    <3>2. g[k] = f[n - 1] /\ g[n] = i /\ f[n - 1] # i /\ f[n - 1] \in Slots
      BY <1>1, <1>2, <2>2
    <3>3. QED
      BY <3>1, <3>2
  <2>3. CASE k < n - 1
    <3>1. /\ k \in 0 .. n - 1 /\ k + 1 \in 0 .. n - 1 /\ 0 \in 0 .. n - 1 /\ n - 1 \in 0 .. n - 1
          /\ Succ(k, n) = k + 1 /\ Succ(k, n + 1) = k + 1
      BY <2>3 DEF Succ
    <3>2. tasks[f[k]].next = f[k + 1] /\ tasks[f[k + 1]].prev = f[k]
      BY <3>1 DEF Lists
    <3>3. f[k] # f[n - 1] /\ f[k + 1] # f[0]
      BY <2>3, <3>1 DEF Lists
    <3>4. g[k + 1] = f[k + 1] /\ g[k] = f[k]
      BY <1>2, <3>1
    <3>5. f[k] \in Slots \ {i} /\ f[k + 1] \in Slots \ {i}
      BY <1>1, <3>1
    <3>6. QED
      BY <3>1, <3>2, <3>3, <3>4, <3>5
  <2>4. QED
    BY <2>1, <2>2, <2>3
<1>7. (n + 1) - 1 = n
  OBVIOUS
<1>8. Lists(g, n + 1, new)
  BY <1>4, <1>5, <1>6, <1>7 DEF Lists
<1>9. QED
  BY <1>2, <1>8 DEF g

(* Places on a circle of n with place p left out: the successor of a place *)
(* stays its successor, except where p stood between the two.              *)
LEMMA SkipPlace ==
  ASSUME NEW n \in Nat, n > 1, NEW p \in 0 .. n - 1, NEW k \in 0 .. n - 2
  PROVE  LET q        == IF p = 0 THEN n - 1 ELSE p - 1
             after(j) == IF j < p THEN j ELSE j + 1
             m        == Succ(k, n - 1)
         IN /\ after(k) = q => after(m) = Succ(p, n)
            /\ after(k) # q => after(m) = Succ(after(k), n) /\ after(m) # Succ(p, n)
  BY DEF Succ

(* Unlinking the node at place p of a list of two or more closes the list  *)
(* over the gap (the assignments of sched.c:121-123).                      *)
LEMMA UnlinkAt ==
  ASSUME NEW tasks, NEW new, NEW n \in Nat, n > 1,
         NEW f \in [0 .. n - 1 -> Slots], Lists(f, n, tasks),
         NEW p \in 0 .. n - 1,
         \A j \in Slots :
           /\ new[j].pd # FREE_PID <=> j # f[p] /\ tasks[j].pd # FREE_PID
           /\ j # f[p] =>
                /\ new[j].next = IF j = tasks[f[p]].prev THEN tasks[f[p]].next ELSE tasks[j].next
                /\ new[j].prev = IF j = tasks[f[p]].next THEN tasks[f[p]].prev ELSE tasks[j].prev
  PROVE  /\ Without(f, n, p) \in [0 .. n - 2 -> Slots]
         /\ Lists(Without(f, n, p), n - 1, new)
<1> DEFINE g == Without(f, n, p)
           a == f[p]
           q == IF p = 0 THEN n - 1 ELSE p - 1
           r == Succ(p, n)
           after(k) == IF k < p THEN k ELSE k + 1
<1>1. /\ p \in Int /\ q \in 0 .. n - 1 /\ r \in 0 .. n - 1 /\ Succ(q, n) = p
      /\ q # p /\ r # p
  BY DEF Succ
<1>2. \A j, k \in 0 .. n - 1 : f[j] = f[k] => j = k
  BY DEF Lists
<1>3. tasks[a].next = f[r] /\ tasks[a].prev = f[q] /\ a \in Slots
  BY <1>1 DEF Lists
<1>4. /\ g \in [0 .. n - 2 -> Slots]
      /\ \A k \in 0 .. n - 2 : /\ after(k) \in 0 .. n - 1 /\ after(k) # p
                               /\ g[k] = f[after(k)] /\ g[k] # a /\ g[k] \in Slots
  BY <1>1, <1>2 DEF Without
<1> HIDE DEF g
<1>5. \A j, k \in 0 .. n - 2 : g[j] = g[k] => j = k
  BY <1>2, <1>4
<1>6. \A j \in Slots : j \in Used(new) <=> \E k \in 0 .. n - 2 : g[k] = j
  <2> SUFFICES ASSUME NEW j \in Slots
               PROVE  j \in Used(new) <=> \E k \in 0 .. n - 2 : g[k] = j
    OBVIOUS
  <2>1. j \in Used(new) <=> j # a /\ j \in Used(tasks)
    BY DEF Used
  <2>2. j \in Used(tasks) <=> \E k \in 0 .. n - 1 : f[k] = j
    BY DEF Lists
  <2>3. ASSUME NEW k \in 0 .. n - 1, f[k] = j, j # a
        PROVE  \E m \in 0 .. n - 2 : g[m] = j
    <3>1. k # p
      BY <2>3
    <3>2. CASE k < p
      BY <1>1, <1>4, <2>3, <3>2
    <3>3. CASE k > p
      <4>1. k - 1 \in 0 .. n - 2 /\ after(k - 1) = k
        BY <1>1, <3>3
      <4>2. QED
        BY <1>4, <2>3, <4>1
    <3>4. QED
      BY <1>1, <3>1, <3>2, <3>3
  <2>4. ASSUME NEW k \in 0 .. n - 2, g[k] = j
        PROVE  j # a /\ \E m \in 0 .. n - 1 : f[m] = j
    BY <1>4, <2>4
  <2>5. QED
    BY <2>1, <2>2, <2>3, <2>4
<1>7. ASSUME NEW k \in 0 .. n - 2
      PROVE  /\ new[g[k]].next = g[Succ(k, n - 1)]
             /\ new[g[Succ(k, n - 1)]].prev = g[k]
  <2> DEFINE m == Succ(k, n - 1)
  <2>1. m \in 0 .. n - 2
    BY DEF Succ
  <2>2. /\ after(k) \in 0 .. n - 1 /\ g[k] = f[after(k)] /\ g[k] # a /\ g[k] \in Slots
        /\ after(m) \in 0 .. n - 1 /\ g[m] = f[after(m)] /\ g[m] # a /\ g[m] \in Slots
    BY <1>4, <2>1
  <2>0. /\ after(k) = q => after(m) = r
        /\ after(k) # q => after(m) = Succ(after(k), n) /\ after(m) # r
    <3>1. /\ n \in Nat /\ n > 1 /\ p \in 0 .. n - 1 /\ k \in 0 .. n - 2
      OBVIOUS
    <3>2. QED
      BY ONLY <3>1, SkipPlace
  <2>3. CASE after(k) = q
    <3>1. after(m) = r
      BY <2>3, <2>0
    <3>2. g[k] = tasks[a].prev /\ g[m] = tasks[a].next
      BY <1>3, <2>2, <2>3, <3>1
    <3>3. QED
      BY <2>2, <3>2
  <2>4. CASE after(k) # q
    <3>1. after(m) = Succ(after(k), n) /\ after(m) # r
      BY <2>4, <2>0
    <3>2. /\ tasks[f[after(k)]].next = f[after(m)]
          /\ tasks[f[after(m)]].prev = f[after(k)]
      BY <2>2, <3>1 DEF Lists
    <3>3. f[after(k)] # f[q] /\ f[after(m)] # f[r]
      BY <1>1, <1>2, <2>2, <2>4, <3>1
    <3>4. QED
      BY <1>3, <2>2, <3>2, <3>3
  <2>5. QED
    BY <2>3, <2>4
<1>8. (n - 1) - 1 = n - 2
  OBVIOUS
<1>9. QED
  <2>1. Lists(g, n - 1, new)
    BY <1>5, <1>6, <1>7, <1>8 DEF Lists
  <2>2. QED
    BY <1>4, <2>1 DEF g

-----------------------------------------------------------------------------
(* Writing links or pds of typed nodes keeps them typed. *)
LEMMA TaskFields ==
  /\ FreeSlot \in Task
  /\ \A a \in Task, x \in Slots : /\ [a EXCEPT !.next = x] \in Task
                                  /\ [a EXCEPT !.prev = x] \in Task
  /\ \A a \in Task, m \in 0 .. QUANTUM : [a EXCEPT !.quantum = m] \in Task
  /\ \A p \in Pids, i \in Slots, j \in Slots :
        [pd |-> p, quantum |-> QUANTUM, next |-> i, prev |-> j] \in Task
  BY SchedAssumption DEF Task, FreeSlot

(* What sched_load does to the circle that f lists: slot i goes behind the *)
(* last one, with its pid and a whole quantum (sched.c:72-106).            *)
Loaded(s, t, f, pd) ==
  LET i == FoundSlot(s.tasks)
      n == s.running_tasks
  IN /\ t.running_tasks = n + 1 /\ t.actual = s.actual
     /\ \A j \in Slots : t.tasks[j].pd = IF j = i THEN pd ELSE s.tasks[j].pd
     /\ \A j \in Slots : t.tasks[j].quantum = IF j = i THEN QUANTUM ELSE s.tasks[j].quantum
     /\ Extended(f, n, i) \in [0 .. n -> Slots]
     /\ Lists(Extended(f, n, i), n + 1, t.tasks)
     /\ Ends(Extended(f, n, i), n + 1, t.first, t.last)

LEMMA LoadLinks ==
  ASSUME NEW s, SchedType(s), HasSlot(s.tasks), NEW pd \in Pids,
         NEW f \in [0 .. s.running_tasks - 1 -> Slots],
         Lists(f, s.running_tasks, s.tasks), Ends(f, s.running_tasks, s.first, s.last),
         NEW t, t = sched_load(s, pd)
  PROVE  SchedType(t) /\ Loaded(s, t, f, pd)
<1> DEFINE i == FoundSlot(s.tasks)
           n == s.running_tasks
           u == s.tasks
           v == t.tasks
           node == IF n = 0 THEN [pd |-> pd, quantum |-> QUANTUM, next |-> i, prev |-> i]
                   ELSE [pd |-> pd, quantum |-> QUANTUM, next |-> s.first, prev |-> s.last]
<1>1. i \in Slots /\ i \notin Used(u) /\ u[i].pd = FREE_PID
  BY FoundSlotIsFree
<1>2. f \in [0 .. n - 1 -> Slots] /\ Lists(f, n, u) /\ Ends(f, n, s.first, s.last)
  OBVIOUS
<1>3. n \in Nat /\ pd # FREE_PID /\ u \in [Slots -> Task] /\ s.actual \in Slots \cup {NULL}
  BY SchedAssumption DEF SchedType, Pids, FREE_PID
<1> HIDE DEF i, n, u, v
<1> DEFINE g == Extended(f, n, i)
<1>4. /\ SchedType(t)
      /\ t.running_tasks = n + 1 /\ t.actual = s.actual
      /\ \A j \in Slots : v[j].pd = IF j = i THEN pd ELSE u[j].pd
      /\ \A j \in Slots : v[j].quantum = IF j = i THEN QUANTUM ELSE u[j].quantum
      /\ g \in [0 .. n -> Slots] /\ Lists(g, n + 1, v) /\ Ends(g, n + 1, t.first, t.last)
  <2>1. CASE n = 0
    <3>1. t = [s EXCEPT !.tasks = [u EXCEPT ![i] = node], !.first = i, !.last = i,
                        !.running_tasks = 1]
      BY <2>1, Zenon DEF sched_load, i, n, u
    <3>2. /\ node \in Task /\ node.pd = pd /\ node.quantum = QUANTUM
          /\ node.next = i /\ node.prev = i
      BY <1>1, <2>1, TaskFields
    <3> HIDE DEF node
    <3>3. /\ v = [u EXCEPT ![i] = node] /\ t.running_tasks = 1 /\ t.actual = s.actual
          /\ t.first = i /\ t.last = i
      BY <3>1 DEF SchedType, u, v
    <3>4. v \in [Slots -> Task]
      BY <1>1, <1>3, <3>2, <3>3
    <3>5. SchedType(t)
      <4>1. t = [tasks |-> v, actual |-> s.actual, first |-> i, last |-> i, running_tasks |-> 1]
        BY <3>1, <3>3 DEF SchedType
      <4>2. QED
        BY <1>1, <1>3, <3>4, <4>1 DEF SchedType
    <3>6. /\ \A j \in Slots : /\ v[j].pd = IF j = i THEN pd ELSE u[j].pd
                              /\ v[j].quantum = IF j = i THEN QUANTUM ELSE u[j].quantum
          /\ v[i].next = i /\ v[i].prev = i
      BY <1>1, <1>3, <3>2, <3>3
    <3>7. g \in [0 .. n -> Slots] /\ g[0] = i /\ \A k \in 0 .. n : k = 0
      BY <1>1, <2>1 DEF Extended
    <3>8. \A j \in Slots : j \in Used(v) <=> j = i
      BY <1>2, <1>3, <2>1, <3>6 DEF Lists, Used
    <3>9. Lists(g, 1, v)
      BY <1>1, <2>1, <3>6, <3>7, <3>8 DEF Lists, Succ
    <3>10. QED
      BY <2>1, <3>3, <3>5, <3>6, <3>7, <3>9 DEF Ends
  <2>2. CASE n > 0
    <3>0. n # 0
      BY <2>2
    <3>1. t = [s EXCEPT !.tasks = [u EXCEPT ![i] = node, ![s.last].next = i, ![s.first].prev = i],
                        !.last = i, !.running_tasks = n + 1]
      BY <3>0, Zenon DEF sched_load, i, n, u
    <3>2. /\ s.first = f[0] /\ s.last = f[n - 1]
          /\ s.first \in Slots /\ s.last \in Slots /\ s.first # i /\ s.last # i
      <4>1. 0 \in 0 .. n - 1 /\ n - 1 \in 0 .. n - 1
        BY <1>3, <2>2
      <4>2. \A k \in 0 .. n - 1 : f[k] \in Slots /\ f[k] # i
        BY <1>1, <1>2 DEF Lists
      <4>3. s.first = f[0] /\ s.last = f[n - 1]
        BY <1>2, <3>0 DEF Ends
      <4>4. QED
        BY <4>1, <4>2, <4>3
    <3>3. /\ node \in Task /\ node.pd = pd /\ node.quantum = QUANTUM
          /\ node.next = s.first /\ node.prev = s.last
      BY <2>2, <3>2, TaskFields
    <3> HIDE DEF node
    <3>4. /\ v = [u EXCEPT ![i] = node, ![s.last].next = i, ![s.first].prev = i]
          /\ t.running_tasks = n + 1 /\ t.actual = s.actual
          /\ t.first = s.first /\ t.last = i
      BY <3>1 DEF SchedType, u, v
    <3>5. v \in [Slots -> Task]
      <4> DEFINE one == [u EXCEPT ![i] = node]
                 two == [one EXCEPT ![s.last] = [one[s.last] EXCEPT !.next = i]]
      <4>1. one \in [Slots -> Task]
        BY <1>3, <3>3
      <4>2. two \in [Slots -> Task]
        <5> HIDE DEF one
        <5> QED BY <1>1, <3>2, <4>1, TaskFields
      <4>3. v = [two EXCEPT ![s.first] = [two[s.first] EXCEPT !.prev = i]]
        BY <3>4, Zenon
      <4> HIDE DEF two
      <4>4. QED
        BY <1>1, <3>2, <4>2, <4>3, TaskFields
    <3>6. SchedType(t)
      <4>1. t = [tasks |-> v, actual |-> s.actual, first |-> s.first, last |-> i,
                 running_tasks |-> n + 1]
        BY <3>1, <3>4 DEF SchedType
      <4>2. QED
        BY <1>1, <1>3, <3>2, <3>5, <4>1 DEF SchedType
    <3>7. \A j \in Slots :
            /\ v[j].pd   = IF j = i THEN pd ELSE u[j].pd
            /\ v[j].quantum = IF j = i THEN QUANTUM ELSE u[j].quantum
            /\ v[j].next = IF j = i THEN s.first ELSE IF j = s.last THEN i ELSE u[j].next
            /\ v[j].prev = IF j = i THEN s.last ELSE IF j = s.first THEN i ELSE u[j].prev
      BY <1>1, <1>3, <3>2, <3>3, <3>4 DEF Task
    <3>8. g \in [0 .. n -> Slots] /\ Lists(g, n + 1, v)
      <4>1. n \in Nat \ {0}
        BY <1>3, <2>2
      <4>2. \A j \in Slots :
              /\ v[j].pd # FREE_PID <=> j = i \/ u[j].pd # FREE_PID
              /\ v[j].next = IF j = i THEN f[0] ELSE IF j = f[n - 1] THEN i ELSE u[j].next
              /\ v[j].prev = IF j = i THEN f[n - 1] ELSE IF j = f[0] THEN i ELSE u[j].prev
        BY <1>3, <3>2, <3>7
      <4>3. f \in [0 .. n - 1 -> Slots] /\ Lists(f, n, u)
        BY <1>2
      <4>4. QED
        BY <1>1, <4>1, <4>2, <4>3, LinkAtEnd
    <3>9. Ends(g, n + 1, t.first, t.last)
      <4>1. g[0] = f[0] /\ g[n] = i /\ (n + 1) - 1 = n /\ n + 1 # 0
        BY <1>3, <2>2 DEF Extended
      <4>2. QED
        BY <3>2, <3>4, <4>1 DEF Ends
    <3>10. QED
      BY <3>4, <3>6, <3>7, <3>8, <3>9
  <2>3. QED
    BY <1>3, <2>1, <2>2
<1>5. QED
  BY <1>4 DEF Loaded, i, n, u, v

(* sched_load and sched_unblock: a new pid joins the circle, and the       *)
(* processor stays where it is (sched.c:72-106).                           *)
LEMMA LoadKeeps ==
  ASSUME NEW s, SchedType(s), OneCircle(s), HasSlot(s.tasks),
         NEW pd \in Pids, pd \notin LoadedPids(s.tasks),
         NEW t, t = sched_load(s, pd)
  PROVE  /\ SchedType(t) /\ OneCircle(t)
         /\ LoadedPids(t.tasks) = LoadedPids(s.tasks) \cup {pd}
         /\ t.running_tasks = s.running_tasks + 1
         /\ SchedPid(t) = SchedPid(s)
<1> DEFINE i == FoundSlot(s.tasks)
           n == s.running_tasks
           u == s.tasks
           v == t.tasks
<1>1. i \in Slots /\ i \notin Used(u) /\ u[i].pd = FREE_PID
  BY FoundSlotIsFree
<1>2. PICK f \in [0 .. n - 1 -> Slots] : Lists(f, n, u) /\ Ends(f, n, s.first, s.last)
  BY DEF OneCircle
<1>3. n \in Nat /\ pd # FREE_PID /\ u \in [Slots -> Task] /\ s.actual \in Slots \cup {NULL}
  BY SchedAssumption DEF SchedType, Pids, FREE_PID
<1> HIDE DEF i, n, u, v
<1> DEFINE g == Extended(f, n, i)
<1>4. /\ SchedType(t)
      /\ t.running_tasks = n + 1 /\ t.actual = s.actual
      /\ \A j \in Slots : v[j].pd = IF j = i THEN pd ELSE u[j].pd
      /\ \A j \in Slots : v[j].quantum = IF j = i THEN QUANTUM ELSE u[j].quantum
      /\ g \in [0 .. n -> Slots] /\ Lists(g, n + 1, v) /\ Ends(g, n + 1, t.first, t.last)
  BY <1>2, LoadLinks DEF Loaded, i, n, u, v
<1>5. \A j \in Slots : j \in Used(v) <=> j = i \/ j \in Used(u)
  BY <1>1, <1>3, <1>4 DEF Used
<1>6. \A j \in Used(u) : u[j].pd # pd
  BY DEF LoadedPids, u
<1>7. \A j, k \in Used(v) : v[j].pd = v[k].pd => j = k
  <2>1. \A j, k \in Used(u) : u[j].pd = u[k].pd => j = k
    BY DEF OneCircle, u
  <2>2. Used(u) \subseteq Slots /\ Used(v) \subseteq Slots
    BY DEF Used
  <2>3. QED
    BY <1>4, <1>5, <1>6, <2>1, <2>2
<1>8. s.actual # NULL => s.actual \in Used(u) /\ s.actual \in Slots /\ s.actual # i
  BY <1>1 DEF OneCircle, Used, u
<1>9. OneCircle(t)
  <2>1. t.running_tasks - 1 = n /\ t.running_tasks = n + 1
    BY <1>3, <1>4
  <2>2. \E h \in [0 .. t.running_tasks - 1 -> Slots] :
          Lists(h, t.running_tasks, v) /\ Ends(h, t.running_tasks, t.first, t.last)
    BY <1>4, <2>1
  <2>3. t.actual # NULL => t.actual \in Used(v)
    BY <1>4, <1>5, <1>8
  <2>4. QED
    BY <1>7, <2>2, <2>3 DEF OneCircle, v
<1>10. LoadedPids(t.tasks) = LoadedPids(s.tasks) \cup {pd}
  <2>1. i \in Used(v) /\ v[i].pd = pd
    BY <1>1, <1>4, <1>5
  <2>2. \A j \in Used(u) : j \in Used(v) /\ v[j].pd = u[j].pd
    BY <1>1, <1>4, <1>5 DEF Used
  <2>3. \A j \in Used(v) : j = i \/ (j \in Used(u) /\ v[j].pd = u[j].pd)
    BY <1>4, <1>5 DEF Used
  <2>4. QED
    BY <2>1, <2>2, <2>3 DEF LoadedPids, u, v
<1>11. SchedPid(t) = SchedPid(s)
  BY <1>4, <1>8 DEF SchedPid, u, v
<1>12. QED
  BY <1>4, <1>9, <1>10, <1>11 DEF n

(* What sched_exit does to the circle that f lists: place p, that of the   *)
(* owner, goes, and the processor passes to the next (sched.c:108-143).    *)
Exited(s, t, f, p) ==
  LET n == s.running_tasks
      a == s.actual
  IN /\ t.running_tasks = n - 1
     /\ \A j \in Slots : t.tasks[j].pd = IF j = a THEN FREE_PID ELSE s.tasks[j].pd
     /\ \A j \in Slots : j # a => t.tasks[j].quantum = s.tasks[j].quantum
     /\ Without(f, n, p) \in [0 .. n - 2 -> Slots]
     /\ Lists(Without(f, n, p), n - 1, t.tasks)
     /\ Ends(Without(f, n, p), n - 1, t.first, t.last)
     /\ t.actual = IF n = 1 THEN NULL ELSE f[Succ(p, n)]
     /\ n > 1 => f[Succ(p, n)] \in Used(s.tasks) /\ f[Succ(p, n)] # a

LEMMA ExitLinks ==
  ASSUME NEW s, SchedType(s), OneCircle(s), s.actual # NULL,
         NEW f \in [0 .. s.running_tasks - 1 -> Slots],
         Lists(f, s.running_tasks, s.tasks), Ends(f, s.running_tasks, s.first, s.last),
         NEW p \in 0 .. s.running_tasks - 1, f[p] = s.actual,
         NEW t, t = sched_exit(s)
  PROVE  SchedType(t) /\ Exited(s, t, f, p)
<1> DEFINE a == s.actual
           n == s.running_tasks
           u == s.tasks
           v == t.tasks
<1>1. f \in [0 .. n - 1 -> Slots] /\ Lists(f, n, u) /\ Ends(f, n, s.first, s.last)
  OBVIOUS
<1>2. /\ n \in Nat /\ u \in [Slots -> Task]
      /\ s.first \in Slots \cup {NULL} /\ s.last \in Slots \cup {NULL}
  BY DEF SchedType
<1>3. a \in Used(u) /\ a \in Slots /\ u[a].pd # FREE_PID
  BY DEF OneCircle, Used
<1>4. p \in 0 .. n - 1 /\ f[p] = a
  OBVIOUS
<1>5. \A j, k \in Used(u) : u[j].pd = u[k].pd => j = k
  BY DEF OneCircle
<1> HIDE DEF a, n, u, v
<1> DEFINE g == Without(f, n, p)
<1>6. /\ SchedType(t)
      /\ t.running_tasks = n - 1
      /\ \A j \in Slots : v[j].pd = IF j = a THEN FREE_PID ELSE u[j].pd
      /\ \A j \in Slots : j # a => v[j].quantum = u[j].quantum
      /\ g \in [0 .. n - 2 -> Slots] /\ Lists(g, n - 1, v) /\ Ends(g, n - 1, t.first, t.last)
      /\ t.actual = IF n = 1 THEN NULL ELSE f[Succ(p, n)]
      /\ n > 1 => f[Succ(p, n)] \in Used(u) /\ f[Succ(p, n)] # a
  <2>1. CASE n > 1
    <3> DEFINE q == IF p = 0 THEN n - 1 ELSE p - 1
               r == Succ(p, n)
    <3>1. /\ q \in 0 .. n - 1 /\ r \in 0 .. n - 1 /\ Succ(q, n) = p
          /\ q # p /\ r # p /\ p \in 0 .. n - 1 /\ 0 \in 0 .. n - 1 /\ n - 1 \in 0 .. n - 1
      BY <1>2, <1>4, <2>1 DEF Succ
    <3>2. /\ u[a].next = f[r] /\ u[a].prev = f[q] /\ f[r] # a /\ f[q] # a
          /\ f[r] \in Used(u) /\ f[r] \in Slots /\ f[q] \in Slots
          /\ f[0] \in Used(u) /\ f[n - 1] \in Used(u)
          /\ f[0] \in Slots /\ f[n - 1] \in Slots
      <4>1. u[a].next = f[r] /\ u[a].prev = f[q]
        BY <1>1, <1>4, <3>1 DEF Lists
      <4>2. f[r] # a /\ f[q] # a
        BY <1>1, <1>4, <3>1 DEF Lists
      <4>3. \A k \in 0 .. n - 1 : f[k] \in Used(u) /\ f[k] \in Slots
        BY <1>1 DEF Lists
      <4>4. QED
        BY <3>1, <4>1, <4>2, <4>3
    <3>3. s.first = f[0] /\ s.last = f[n - 1]
      BY <1>1, <1>2, <2>1 DEF Ends
    <3>4. t = [s EXCEPT !.tasks = [u EXCEPT ![u[a].prev].next = u[a].next,
                                            ![u[a].next].prev = u[a].prev,
                                            ![a] = FreeSlot],
                        !.first = IF u[s.first].pd = u[a].pd THEN u[a].next ELSE s.first,
                        !.last  = IF u[s.last].pd = u[a].pd THEN u[a].prev ELSE s.last,
                        !.actual = u[a].next,
                        !.running_tasks = n - 1]
      BY <2>1, Zenon DEF sched_exit, a, n, u
    <3>5. /\ v = [u EXCEPT ![f[q]].next = f[r], ![f[r]].prev = f[q], ![a] = FreeSlot]
          /\ t.running_tasks = n - 1 /\ t.actual = f[r]
          /\ t.first = (IF p = 0 THEN f[r] ELSE f[0])
          /\ t.last = (IF p = n - 1 THEN f[q] ELSE f[n - 1])
      <4>1. /\ v = [u EXCEPT ![f[q]].next = f[r], ![f[r]].prev = f[q], ![a] = FreeSlot]
            /\ t.running_tasks = n - 1 /\ t.actual = f[r]
            /\ t.first = IF u[s.first].pd = u[a].pd THEN u[a].next ELSE s.first
            /\ t.last  = IF u[s.last].pd = u[a].pd THEN u[a].prev ELSE s.last
        BY <3>2, <3>4 DEF SchedType, v
      <4>2. /\ u[s.first].pd = u[a].pd <=> p = 0
            /\ u[s.last].pd = u[a].pd <=> p = n - 1
        BY <1>1, <1>3, <1>4, <1>5, <3>1, <3>2, <3>3 DEF Lists
      <4>3. QED
        BY <3>2, <3>3, <4>1, <4>2
    <3>6. v \in [Slots -> Task]
      <4> DEFINE one == [u EXCEPT ![f[q]] = [u[f[q]] EXCEPT !.next = f[r]]]
                 two == [one EXCEPT ![f[r]] = [one[f[r]] EXCEPT !.prev = f[q]]]
      <4>1. one \in [Slots -> Task]
        BY <1>2, <3>2, TaskFields
      <4>2. two \in [Slots -> Task]
        <5> HIDE DEF one
        <5> QED BY <3>2, <4>1, TaskFields
      <4>3. v = [two EXCEPT ![a] = FreeSlot]
        BY <3>5, Zenon
      <4> HIDE DEF two
      <4>4. QED
        BY <4>2, <4>3, TaskFields
    <3>7. SchedType(t)
      <4>1. t = [tasks |-> v, actual |-> t.actual, first |-> t.first, last |-> t.last,
                 running_tasks |-> n - 1]
        BY <3>4 DEF SchedType, v
      <4>2. t.actual \in Slots /\ t.first \in Slots /\ t.last \in Slots /\ n - 1 \in Nat
        BY <1>2, <2>1, <3>1, <3>2, <3>5
      <4>3. QED
        BY <3>6, <4>1, <4>2 DEF SchedType
    <3>8. \A j \in Slots :
            /\ v[j].pd = IF j = a THEN FREE_PID ELSE u[j].pd
            /\ j # a => v[j].quantum = u[j].quantum
            /\ j # a => /\ v[j].next = IF j = f[q] THEN f[r] ELSE u[j].next
                        /\ v[j].prev = IF j = f[r] THEN f[q] ELSE u[j].prev
      BY <1>2, <1>3, <3>2, <3>5 DEF Task, FreeSlot
    <3>9. g \in [0 .. n - 2 -> Slots] /\ Lists(g, n - 1, v)
      <4>1. n \in Nat /\ n > 1 /\ f \in [0 .. n - 1 -> Slots] /\ Lists(f, n, u)
            /\ p \in 0 .. n - 1 /\ a = f[p]
        BY <1>1, <1>2, <1>4, <2>1
      <4>2. \A j \in Slots :
              /\ v[j].pd # FREE_PID <=> j # f[p] /\ u[j].pd # FREE_PID
              /\ j # f[p] =>
                   /\ v[j].next = IF j = u[f[p]].prev THEN u[f[p]].next ELSE u[j].next
                   /\ v[j].prev = IF j = u[f[p]].next THEN u[f[p]].prev ELSE u[j].prev
        BY <1>4, <3>2, <3>8
      <4>3. QED
        BY <4>1, <4>2, UnlinkAt
    <3>10. Ends(g, n - 1, t.first, t.last)
      <4>1. /\ g[0] = (IF p = 0 THEN f[1] ELSE f[0])
            /\ g[n - 2] = (IF p = n - 1 THEN f[n - 2] ELSE f[n - 1])
        BY <1>2, <2>1, <3>1 DEF Without
      <4>2. /\ p = 0 => r = 1
            /\ p = n - 1 => q = n - 2
            /\ n - 1 # 0 /\ (n - 1) - 1 = n - 2
        BY <1>2, <2>1 DEF Succ
      <4>3. QED
        BY <3>5, <4>1, <4>2 DEF Ends
    <3>11. t.running_tasks = n - 1 /\ t.actual = f[r] /\ n # 1
      BY <2>1, <3>2, <3>5
    <3>12. f[r] \in Used(u) /\ f[r] # a
      BY <3>2
    <3>13. /\ \A j \in Slots : v[j].pd = IF j = a THEN FREE_PID ELSE u[j].pd
           /\ \A j \in Slots : j # a => v[j].quantum = u[j].quantum
      BY <3>8
    <3>14. QED
      BY <3>7, <3>9, <3>10, <3>11, <3>12, <3>13
  <2>2. CASE n = 1
    <3>1. ~ (n > 1)
      BY <2>2
    <3>2. t = [s EXCEPT !.tasks = [u EXCEPT ![a] = FreeSlot], !.first = NULL, !.last = NULL,
                        !.actual = NULL, !.running_tasks = n - 1]
      BY <3>1, Zenon DEF sched_exit, a, n, u
    <3>3. /\ v = [u EXCEPT ![a] = FreeSlot] /\ t.running_tasks = 0
          /\ t.actual = NULL /\ t.first = NULL /\ t.last = NULL
      BY <2>2, <3>2 DEF SchedType, v
    <3>4. v \in [Slots -> Task]
      BY <1>2, <3>3, TaskFields
    <3>5. t = [tasks |-> v, actual |-> NULL, first |-> NULL, last |-> NULL, running_tasks |-> 0]
      BY <2>2, <3>2, <3>3 DEF SchedType
    <3>6. SchedType(t)
      BY <3>4, <3>5 DEF SchedType
    <3>7. /\ \A j \in Slots : v[j].pd = IF j = a THEN FREE_PID ELSE u[j].pd
          /\ \A j \in Slots : j # a => v[j].quantum = u[j].quantum
      BY <1>2, <1>3, <3>3 DEF FreeSlot
    <3>8. \A j \in Used(u) : j = a
      BY <1>1, <1>4, <2>2 DEF Lists, Used
    <3>9. Used(v) = {}
      BY <3>7, <3>8 DEF Used
    <3>10. 0 .. n - 2 = {} /\ 0 .. 0 - 1 = {} /\ n - 1 = 0
      BY <2>2
    <3>11. g \in [0 .. n - 2 -> Slots]
      BY <3>10 DEF Without
    <3>12. Lists(g, 0, v) /\ Ends(g, 0, NULL, NULL)
      BY <3>9, <3>10 DEF Lists, Ends
    <3>13. QED
      BY <2>2, <3>3, <3>6, <3>7, <3>10, <3>11, <3>12
  <2>3. QED
    BY <1>2, <1>4, <2>1, <2>2
<1>7. QED
  BY <1>6 DEF Exited, a, n, u, v

(* sched_exit and sched_block: the owner of the processor leaves the       *)
(* circle, and every other pid stays on it (sched.c:108-143).              *)
LEMMA ExitKeeps ==
  ASSUME NEW s, SchedType(s), OneCircle(s), s.actual # NULL,
         NEW t, t = sched_exit(s)
  PROVE  /\ SchedType(t) /\ OneCircle(t)
         /\ LoadedPids(t.tasks) = LoadedPids(s.tasks) \ {s.tasks[s.actual].pd}
         /\ s.running_tasks > 0 /\ t.running_tasks = s.running_tasks - 1
         /\ t.running_tasks > 0 => t.actual # NULL
<1> DEFINE a == s.actual
           n == s.running_tasks
           u == s.tasks
           v == t.tasks
<1>1. PICK f \in [0 .. n - 1 -> Slots] : Lists(f, n, u) /\ Ends(f, n, s.first, s.last)
  BY DEF OneCircle
<1>2. /\ n \in Nat /\ u \in [Slots -> Task]
      /\ s.first \in Slots \cup {NULL} /\ s.last \in Slots \cup {NULL}
  BY DEF SchedType
<1>3. a \in Used(u) /\ a \in Slots /\ u[a].pd # FREE_PID
  BY DEF OneCircle, Used
<1>4. PICK p \in 0 .. n - 1 : f[p] = a
  BY <1>1, <1>3 DEF Lists
<1>5. \A j, k \in Used(u) : u[j].pd = u[k].pd => j = k
  BY DEF OneCircle
<1> HIDE DEF a, n, u, v
<1> DEFINE g == Without(f, n, p)
<1>6. /\ SchedType(t)
      /\ t.running_tasks = n - 1
      /\ \A j \in Slots : v[j].pd = IF j = a THEN FREE_PID ELSE u[j].pd
      /\ \A j \in Slots : j # a => v[j].quantum = u[j].quantum
      /\ g \in [0 .. n - 2 -> Slots] /\ Lists(g, n - 1, v) /\ Ends(g, n - 1, t.first, t.last)
      /\ t.actual = IF n = 1 THEN NULL ELSE f[Succ(p, n)]
      /\ n > 1 => f[Succ(p, n)] \in Used(u) /\ f[Succ(p, n)] # a
  <2>1. SchedType(t) /\ Exited(s, t, f, p)
    BY <1>1, <1>4, ExitLinks DEF a, n, u
  <2>2. QED
    BY <2>1 DEF Exited, a, n, u, v
<1>7. \A j \in Slots : j \in Used(v) <=> j # a /\ j \in Used(u)
  BY <1>6 DEF Used
<1>8. OneCircle(t)
  <2>1. t.running_tasks - 1 = n - 2 /\ t.running_tasks = n - 1
    BY <1>2, <1>6
  <2>2. \E h \in [0 .. t.running_tasks - 1 -> Slots] :
          Lists(h, t.running_tasks, v) /\ Ends(h, t.running_tasks, t.first, t.last)
    BY <1>6, <2>1
  <2>3. \A j, k \in Used(v) : v[j].pd = v[k].pd => j = k
    BY <1>5, <1>6, <1>7 DEF Used
  <2>4. t.actual # NULL => t.actual \in Used(v)
    <3>1. CASE n = 1
      BY <1>6, <3>1
    <3>2. CASE n > 1
      BY <1>6, <1>7, <3>2 DEF Used
    <3>3. QED
      BY <1>2, <1>4, <3>1, <3>2
  <2>5. QED
    BY <2>2, <2>3, <2>4 DEF OneCircle, v
<1>9. LoadedPids(t.tasks) = LoadedPids(s.tasks) \ {u[a].pd}
  <2>1. \A j \in Used(v) : j \in Used(u) /\ j # a /\ v[j].pd = u[j].pd
    BY <1>6, <1>7 DEF Used
  <2>2. \A j \in Used(u) : u[j].pd # u[a].pd => j \in Used(v) /\ v[j].pd = u[j].pd
    BY <1>6, <1>7 DEF Used
  <2>3. QED
    BY <1>3, <1>5, <2>1, <2>2 DEF LoadedPids, u, v
<1>10. n > 0
  BY <1>2, <1>4
<1>11. n - 1 > 0 => t.actual # NULL
  <2>1. n > 1 => f[Succ(p, n)] \in Slots
    BY <1>6 DEF Used
  <2>2. NULL \notin Slots
    BY DEF Slots, NULL
  <2>3. QED
    BY <1>2, <1>6, <2>1, <2>2
<1>12. QED
  BY <1>6, <1>8, <1>9, <1>10, <1>11 DEF a, n, u

(* What sched_tick does to the circle that f lists: nothing but to spend   *)
(* or to renew the quantum of the owner, or to choose one (sched.c:145).   *)
Ticked(s, t, f) ==
  LET n == s.running_tasks
      a == s.actual
  IN /\ t.tasks \in [Slots -> Task]
     /\ \A j \in Slots : /\ t.tasks[j].pd = s.tasks[j].pd
                         /\ t.tasks[j].next = s.tasks[j].next
                         /\ t.tasks[j].prev = s.tasks[j].prev
     /\ t = [tasks |-> t.tasks, actual |-> t.actual, first |-> s.first, last |-> s.last,
             running_tasks |-> n]
     /\ t.actual # NULL => t.actual \in Used(s.tasks)
     /\ n > 0 => t.actual # NULL
     /\ \A j \in Slots : t.tasks[j].quantum =
            IF j # a THEN s.tasks[j].quantum
            ELSE IF s.tasks[j].quantum > 0 THEN s.tasks[j].quantum - 1 ELSE QUANTUM
     /\ t.actual = IF a = NULL THEN IF n = 0 THEN NULL ELSE f[0]
                   ELSE IF s.tasks[a].quantum > 0 THEN a ELSE s.tasks[a].next

LEMMA TickLinks ==
  ASSUME NEW s, SchedType(s), OneCircle(s),
         NEW f \in [0 .. s.running_tasks - 1 -> Slots],
         Lists(f, s.running_tasks, s.tasks), Ends(f, s.running_tasks, s.first, s.last),
         NEW t, t = sched_tick(s)
  PROVE  Ticked(s, t, f)
<1> DEFINE a == s.actual
           n == s.running_tasks
           u == s.tasks
           v == t.tasks
<1>1. f \in [0 .. n - 1 -> Slots] /\ Lists(f, n, u) /\ Ends(f, n, s.first, s.last)
  OBVIOUS
<1>2. /\ n \in Nat /\ u \in [Slots -> Task] /\ a \in Slots \cup {NULL}
      /\ s.first \in Slots \cup {NULL} /\ s.last \in Slots \cup {NULL}
  BY DEF SchedType
<1>3. \A j, k \in Used(u) : u[j].pd = u[k].pd => j = k
  BY DEF OneCircle
<1>4. a # NULL => a \in Used(u) /\ a \in Slots /\ u[a].quantum \in 0 .. QUANTUM
  BY <1>2 DEF OneCircle, Used, Task
<1> HIDE DEF a, n, u, v
<1>5. /\ v \in [Slots -> Task]
      /\ \A j \in Slots : /\ v[j].pd = u[j].pd
                          /\ v[j].next = u[j].next /\ v[j].prev = u[j].prev
      /\ t = [tasks |-> v, actual |-> t.actual, first |-> s.first, last |-> s.last,
              running_tasks |-> n]
      /\ t.actual # NULL => t.actual \in Used(u)
      /\ n > 0 => t.actual # NULL
      /\ \A j \in Slots : v[j].quantum = IF j # a THEN u[j].quantum
                                         ELSE IF u[j].quantum > 0 THEN u[j].quantum - 1 ELSE QUANTUM
      /\ t.actual = IF a = NULL THEN IF n = 0 THEN NULL ELSE f[0]
                    ELSE IF u[a].quantum > 0 THEN a ELSE u[a].next
  <2>1. CASE a = NULL
    <3>1. t = [s EXCEPT !.actual = IF n <= 0 THEN NULL ELSE s.first]
      BY <2>1, Zenon DEF sched_tick, a, n
    <3>2. v = u /\ t.actual = IF n <= 0 THEN NULL ELSE s.first
      BY <3>1 DEF SchedType, u, v
    <3>3. t = [tasks |-> v, actual |-> t.actual, first |-> s.first, last |-> s.last,
               running_tasks |-> n]
      BY <3>1, <3>2 DEF SchedType, n, u
    <3>4. n > 0 => s.first \in Used(u) /\ s.first # NULL /\ s.first = f[0]
      <4>1. n > 0 => s.first = f[0] /\ 0 \in 0 .. n - 1
        BY <1>1, <1>2 DEF Ends
      <4>2. n > 0 => f[0] \in Used(u)
        BY <1>1, <4>1 DEF Lists
      <4>3. NULL \notin Used(u)
        BY SchedAssumption DEF NULL, Used, Slots
      <4>4. QED
        BY <4>1, <4>2, <4>3
    <3>5. \A j \in Slots : j # a
      BY <2>1, SchedAssumption DEF NULL, Slots
    <3>6. v \in [Slots -> Task] /\ n \in Nat
      BY <1>2, <3>2
    <3>7. t.actual = IF n = 0 THEN NULL ELSE f[0]
      BY <3>2, <3>4, <3>6
    <3>8. /\ t.actual # NULL => t.actual \in Used(u)
          /\ n > 0 => t.actual # NULL
      BY <3>2, <3>4, <3>6
    <3>9. \A j \in Slots : /\ v[j].pd = u[j].pd /\ v[j].quantum = u[j].quantum
                           /\ v[j].next = u[j].next /\ v[j].prev = u[j].prev
      BY <3>2
    <3>10. QED
      BY <2>1, <3>3, <3>5, <3>6, <3>7, <3>8, <3>9
  <2>2. CASE a # NULL
    <3> DEFINE m == IF u[a].quantum > 0 THEN u[a].quantum - 1 ELSE QUANTUM
               b == IF u[a].quantum > 0 THEN a ELSE u[a].next
    <3>1. t = [s EXCEPT !.tasks = [u EXCEPT ![a].quantum = m], !.actual = b]
      <4>1. CASE u[a].quantum > 0
        <5>1. t = [s EXCEPT !.tasks = [u EXCEPT ![a].quantum = u[a].quantum - 1]]
          BY <2>2, <4>1, Zenon DEF sched_tick, a, u
        <5>2. QED
          BY <4>1, <5>1 DEF SchedType, a
      <4>2. CASE ~ (u[a].quantum > 0)
        BY <2>2, <4>2, Zenon DEF sched_tick, a, u
      <4>3. QED
        BY <4>1, <4>2
    <3>2. m \in 0 .. QUANTUM
      BY <1>4, <2>2, SchedAssumption
    <3>3. b \in Used(u)
      <4>1. PICK p \in 0 .. n - 1 : f[p] = a
        BY <1>1, <1>4, <2>2 DEF Lists
      <4>2. Succ(p, n) \in 0 .. n - 1
        BY <1>2 DEF Succ
      <4>3. u[a].next = f[Succ(p, n)]
        BY <1>1, <4>1 DEF Lists
      <4>4. QED
        BY <1>1, <1>4, <2>2, <4>2, <4>3 DEF Lists
    <3>4. b # NULL
      BY <3>3, SchedAssumption DEF NULL, Used, Slots
    <3> HIDE DEF m, b
    <3>5. v = [u EXCEPT ![a].quantum = m] /\ t.actual = b
      BY <3>1 DEF SchedType, v
    <3>6. v = [u EXCEPT ![a] = [u[a] EXCEPT !.quantum = m]]
      BY <3>5
    <3>7. [u[a] EXCEPT !.quantum = m] \in Task
      BY <1>2, <1>4, <2>2, <3>2, TaskFields
    <3>8. v \in [Slots -> Task]
      BY <1>2, <3>6, <3>7
    <3>9. \A j \in Slots : /\ v[j].pd = u[j].pd
                           /\ v[j].next = u[j].next /\ v[j].prev = u[j].prev
      BY <1>2, <1>4, <2>2, <3>6 DEF Task
    <3>10. t = [tasks |-> v, actual |-> t.actual, first |-> s.first, last |-> s.last,
                running_tasks |-> n]
      BY <3>1, <3>5 DEF SchedType, n
    <3>11. \A j \in Slots : v[j].quantum = IF j # a THEN u[j].quantum ELSE m
      BY <1>2, <1>4, <2>2, <3>6 DEF Task
    <3>12. t.actual = IF u[a].quantum > 0 THEN a ELSE u[a].next
      BY <3>5 DEF b
    <3>13. \A j \in Slots : v[j].quantum = IF j # a THEN u[j].quantum
                            ELSE IF u[j].quantum > 0 THEN u[j].quantum - 1 ELSE QUANTUM
      BY <3>11 DEF m
    <3>14. QED
      BY <2>2, <3>3, <3>4, <3>5, <3>8, <3>9, <3>10, <3>12, <3>13
  <2>3. QED
    BY <2>1, <2>2
<1>6. QED
  BY <1>5 DEF Ticked, a, n, u, v

(* sched_tick changes no link and no pid: the circle stays, and the        *)
(* processor goes to a task on it whenever there is one (sched.c:145-166). *)
LEMMA TickKeeps ==
  ASSUME NEW s, SchedType(s), OneCircle(s),
         NEW t, t = sched_tick(s)
  PROVE  /\ SchedType(t) /\ OneCircle(t)
         /\ LoadedPids(t.tasks) = LoadedPids(s.tasks)
         /\ t.running_tasks = s.running_tasks
         /\ t.running_tasks > 0 => t.actual # NULL
<1> DEFINE a == s.actual
           n == s.running_tasks
           u == s.tasks
           v == t.tasks
<1>1. PICK f \in [0 .. n - 1 -> Slots] : Lists(f, n, u) /\ Ends(f, n, s.first, s.last)
  BY DEF OneCircle
<1>2. /\ n \in Nat /\ u \in [Slots -> Task] /\ a \in Slots \cup {NULL}
      /\ s.first \in Slots \cup {NULL} /\ s.last \in Slots \cup {NULL}
  BY DEF SchedType
<1>3. \A j, k \in Used(u) : u[j].pd = u[k].pd => j = k
  BY DEF OneCircle
<1>4. a # NULL => a \in Used(u) /\ a \in Slots /\ u[a].quantum \in 0 .. QUANTUM
  BY <1>2 DEF OneCircle, Used, Task
<1> HIDE DEF a, n, u, v
<1>5. /\ v \in [Slots -> Task]
      /\ \A j \in Slots : /\ v[j].pd = u[j].pd
                          /\ v[j].next = u[j].next /\ v[j].prev = u[j].prev
      /\ t = [tasks |-> v, actual |-> t.actual, first |-> s.first, last |-> s.last,
              running_tasks |-> n]
      /\ t.actual # NULL => t.actual \in Used(u)
      /\ n > 0 => t.actual # NULL
      /\ \A j \in Slots : v[j].quantum = IF j # a THEN u[j].quantum
                                         ELSE IF u[j].quantum > 0 THEN u[j].quantum - 1 ELSE QUANTUM
      /\ t.actual = IF a = NULL THEN IF n = 0 THEN NULL ELSE f[0]
                    ELSE IF u[a].quantum > 0 THEN a ELSE u[a].next
  <2>1. Ticked(s, t, f)
    BY <1>1, TickLinks DEF n, u
  <2>2. QED
    BY <2>1 DEF Ticked, a, n, u, v
<1>6. /\ t.first = s.first /\ t.last = s.last /\ t.running_tasks = n
      /\ Used(v) = Used(u)
  BY <1>5 DEF Used
<1>7. t.actual \in Slots \cup {NULL}
  BY <1>5 DEF Used
<1>8. SchedType(t)
  BY <1>2, <1>5, <1>7 DEF SchedType
<1>9. Lists(f, n, v)
  <2>1. \A k \in 0 .. n - 1 : f[k] \in Slots /\ Succ(k, n) \in 0 .. n - 1
    BY <1>2 DEF Succ
  <2>2. QED
    BY <1>1, <1>5, <1>6, <2>1 DEF Lists
<1>10. OneCircle(t)
  <2>1. \A j, k \in Used(v) : v[j].pd = v[k].pd => j = k
    BY <1>3, <1>5, <1>6 DEF Used
  <2>2. t.actual # NULL => t.actual \in Used(v)
    BY <1>5, <1>6
  <2>3. QED
    BY <1>1, <1>6, <1>9, <2>1, <2>2 DEF OneCircle, v
<1>11. LoadedPids(t.tasks) = LoadedPids(s.tasks)
  BY <1>5, <1>6 DEF LoadedPids, Used, u, v
<1>12. QED
  BY <1>5, <1>6, <1>8, <1>10, <1>11 DEF n

(* When sched.c leaves an owner whenever there is a task, the pid it       *)
(* returns is that of a task on the circle, or idle when there is none.    *)
LEMMA OwnerIsLoaded ==
  ASSUME NEW s, SchedType(s), OneCircle(s), s.running_tasks > 0 => s.actual # NULL
  PROVE  SchedPid(s) \in IF LoadedPids(s.tasks) = {} THEN {IDLE_PID} ELSE LoadedPids(s.tasks)
<1>1. CASE s.actual = NULL
  <2>1. s.running_tasks = 0
    BY <1>1 DEF SchedType
  <2>2. PICK f \in [0 .. s.running_tasks - 1 -> Slots] : Lists(f, s.running_tasks, s.tasks)
    BY DEF OneCircle
  <2>3. \A k \in 0 .. s.running_tasks - 1 : FALSE
    BY <2>1
  <2>4. Used(s.tasks) = {}
    BY <2>2, <2>3 DEF Lists, Used
  <2>5. LoadedPids(s.tasks) = {}
    BY <2>4 DEF LoadedPids
  <2>6. QED
    BY <1>1, <2>5 DEF SchedPid
<1>2. CASE s.actual # NULL
  <2>1. s.tasks[s.actual].pd \in LoadedPids(s.tasks)
    BY <1>2 DEF OneCircle, LoadedPids
  <2>2. QED
    BY <1>2, <2>1 DEF SchedPid
<1>3. QED
  BY <1>1, <1>2

-----------------------------------------------------------------------------
(* There is a slot for every pid, so a pid that is not loaded finds one.   *)
LEMMA SlotWaits ==
  ASSUME NEW s, SchedType(s), OneCircle(s), NEW pd \in Pids \ LoadedPids(s.tasks)
  PROVE  HasSlot(s.tasks)
<1> DEFINE h == [i \in Slots |-> s.tasks[i].pd]
           T == Pids \ {pd}
<1>1. SUFFICES ASSUME Used(s.tasks) = Slots PROVE FALSE
  BY DEF HasSlot
<1>2. h \in [Slots -> T]
  BY <1>1 DEF LoadedPids, Used, SchedType, Task
<1>3. /\ IsFiniteSet(Slots) /\ Cardinality(Slots) = MAX_PID
      /\ IsFiniteSet(Pids) /\ Cardinality(Pids) = MAX_PID
  BY FS_Interval, SchedAssumption DEF Slots, Pids
<1>4. IsFiniteSet(T) /\ Cardinality(T) = MAX_PID - 1
  BY <1>3, FS_RemoveElement
<1>5. Cardinality(T) < Cardinality(Slots)
  BY <1>3, <1>4, SchedAssumption
<1> HIDE DEF h, T
<1>6. PICK x, y \in Slots : x # y /\ h[x] = h[y]
  BY <1>2, <1>3, <1>4, <1>5, FS_PigeonHole
<1>7. QED
  BY <1>1, <1>6 DEF OneCircle, h
=============================================================================
