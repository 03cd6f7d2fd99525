---------------------------- MODULE Sched_proofs ----------------------------
(***************************************************************************)
(* The scheduler's globals stay typed, on one circle, and never out of     *)
(* slots, for every size of the task table and every quantum, and what     *)
(* sched.c does with them is a round robin queue.  The work is in the      *)
(* lemmas of SchedOps_proofs.tla, two for each function of sched.c: that   *)
(* the circle stays one, and how its enumeration changes.                  *)
(***************************************************************************)
EXTENDS Sched, SchedOps_proofs, SequenceTheorems

Inv == TypeOK /\ RingIntact

(* Inv holds after sched_init and no call of sched.c breaks it. *)
LEMMA SchedInvariant == Spec => []Inv
<1>1. Init => Inv
  BY InitIsCircle DEF Init, Inv, TypeOK, RingIntact
<1>2. Inv /\ [Next]_vars => Inv'
  <2> SUFFICES ASSUME SchedType(sched), OneCircle(sched), [Next]_vars
               PROVE  SchedType(sched') /\ OneCircle(sched')
    BY DEF Inv, TypeOK, RingIntact
  <2>1. ASSUME NEW pd \in Pids \ {IDLE_PID}, Load(pd)
        PROVE  SchedType(sched') /\ OneCircle(sched')
    <3>1. HasSlot(sched.tasks)
      BY <2>1, SlotWaits DEF Load
    <3>2. QED
      BY <2>1, <3>1, LoadKeeps DEF Load
  <2>2. CASE Leave
    BY <2>2, ExitKeeps DEF Leave
  <2>3. CASE Tick
    BY <2>3, TickKeeps DEF Tick
  <2>4. CASE UNCHANGED vars
    BY <2>4 DEF vars
  <2>5. QED
    BY <2>1, <2>2, <2>3, <2>4 DEF Next
<1>3. QED
  BY <1>1, <1>2, PTL DEF Spec

(* The globals of sched.c keep their types. *)
THEOREM SchedTypeCorrect == Spec => []TypeOK
<1>1. Inv => TypeOK
  BY DEF Inv
<1>2. QED
  BY <1>1, SchedInvariant, PTL

(* The runnable tasks are always on one circle that starts at `first' and  *)
(* ends at `last': the splicing of sched_load and sched_exit loses none.   *)
THEOREM SchedRingIntact == Spec => []RingIntact
<1>1. Inv => RingIntact
  BY DEF Inv
<1>2. QED
  BY <1>1, SchedInvariant, PTL

(* The kassert of sched_load, "Scheduler run out of task slots!!!", never  *)
(* fails: a pid that is not loaded always finds a free slot.               *)
THEOREM SchedSlots == Spec => []SlotForEveryTask
<1>1. Inv => SlotForEveryTask
  BY SlotWaits DEF Inv, TypeOK, RingIntact, SlotForEveryTask
<1>2. QED
  BY <1>1, SchedInvariant, PTL

-----------------------------------------------------------------------------
(* The circle has one reading: a list of it starts at `first', and each    *)
(* slot says which one comes next.                                         *)
LEMMA WalkIsUnique ==
  ASSUME NEW tasks, NEW n \in Nat,
         NEW f \in [0 .. n - 1 -> Slots], Lists(f, n, tasks),
         NEW g \in [0 .. n - 1 -> Slots], Lists(g, n, tasks),
         n > 0 => f[0] = g[0]
  PROVE  f = g
<1>1. SUFFICES ASSUME NEW k \in 0 .. n - 1, f[k] # g[k] PROVE FALSE
  OBVIOUS
<1> DEFINE S == {j \in Nat : j <= n - 1 /\ f[j] # g[j]}
<1>2. S # {} /\ S \in SUBSET Nat
  BY <1>1
<1>3. PICK m \in S : \A j \in S : m <= j
  BY <1>2, NatMin
<1>4. m \in 0 .. n - 1 /\ f[m] # g[m] /\ m # 0
  BY <1>3
<1>5. m - 1 \in 0 .. n - 1 /\ Succ(m - 1, n) = m /\ m - 1 \in Nat /\ m - 1 < m
  BY <1>4 DEF Succ
<1>6. f[m - 1] = g[m - 1]
  BY <1>3, <1>5
<1>7. tasks[f[m - 1]].next = f[m] /\ tasks[g[m - 1]].next = g[m]
  BY <1>5 DEF Lists
<1>8. QED
  BY <1>4, <1>6, <1>7

LEMMA WalkIs ==
  ASSUME NEW s, s.running_tasks \in Nat,
         NEW f \in [0 .. s.running_tasks - 1 -> Slots],
         Lists(f, s.running_tasks, s.tasks), Ends(f, s.running_tasks, s.first, s.last)
  PROVE  Walk(s) = f
<1> DEFINE n == s.running_tasks
           Reads(g) == Lists(g, n, s.tasks) /\ Ends(g, n, s.first, s.last)
<1>1. \A k \in 0 .. n - 1 : f[k] \in Used(s.tasks)
  BY DEF Lists
<1>2. f \in [0 .. n - 1 -> Used(s.tasks)] /\ Reads(f)
  BY <1>1
<1>3. Walk(s) = CHOOSE g \in [0 .. n - 1 -> Used(s.tasks)] : Reads(g)
  BY DEF Walk
<1> HIDE DEF Reads
<1>4. Walk(s) \in [0 .. n - 1 -> Used(s.tasks)] /\ Reads(Walk(s))
  BY <1>2, <1>3
<1>5. Walk(s) \in [0 .. n - 1 -> Slots]
  <2>1. Used(s.tasks) \subseteq Slots
    BY DEF Used
  <2>2. QED
    BY <1>4, <2>1
<1>6. n > 0 => f[0] = Walk(s)[0]
  BY <1>2, <1>4 DEF Reads, Ends
<1>7. QED
  BY <1>2, <1>4, <1>5, <1>6, WalkIsUnique DEF Reads

(* What the circle is as a queue of pids. *)
LEMMA TurnsAre ==
  ASSUME NEW s, SchedType(s), OneCircle(s),
         NEW f \in [0 .. s.running_tasks - 1 -> Slots],
         Lists(f, s.running_tasks, s.tasks), Ends(f, s.running_tasks, s.first, s.last)
  PROVE  /\ Turns(s) \in Seq(Pids) /\ Len(Turns(s)) = s.running_tasks
         /\ \A k \in 1 .. s.running_tasks : Turns(s)[k] = s.tasks[f[k - 1]].pd
         /\ \A j, k \in 1 .. s.running_tasks : Turns(s)[j] = Turns(s)[k] => j = k
         /\ \A k \in 1 .. s.running_tasks : Turns(s)[k] \in LoadedPids(s.tasks)
<1> DEFINE n == s.running_tasks
<1>1. n \in Nat /\ s.tasks \in [Slots -> Task]
  BY DEF SchedType
<1>2. Walk(s) = f
  BY <1>1, WalkIs
<1>3. Turns(s) = [k \in 1 .. n |-> s.tasks[f[k - 1]].pd]
  BY <1>2 DEF Turns
<1>4. \A k \in 1 .. n : k - 1 \in 0 .. n - 1 /\ f[k - 1] \in Used(s.tasks)
  BY <1>1 DEF Lists
<1>5. \A i \in Used(s.tasks) : s.tasks[i].pd \in Pids /\ s.tasks[i].pd \in LoadedPids(s.tasks)
  BY <1>1 DEF Used, Task, LoadedPids
<1>6. \A k \in 1 .. n : s.tasks[f[k - 1]].pd \in Pids
  BY <1>4, <1>5
<1>7. Turns(s) \in Seq(Pids) /\ Len(Turns(s)) = n
  <2>1. Turns(s) \in [1 .. n -> Pids]
    BY <1>3, <1>6
  <2>2. QED
    BY <1>1, <2>1
<1>8. \A k \in 1 .. n : Turns(s)[k] = s.tasks[f[k - 1]].pd
  BY <1>3
<1>9. \A j, k \in 1 .. n : Turns(s)[j] = Turns(s)[k] => j = k
  <2> SUFFICES ASSUME NEW j \in 1 .. n, NEW k \in 1 .. n, Turns(s)[j] = Turns(s)[k]
               PROVE  j = k
    OBVIOUS
  <2>1. f[j - 1] = f[k - 1]
    BY <1>4, <1>8 DEF OneCircle
  <2>2. j - 1 = k - 1
    BY <1>4, <2>1 DEF Lists
  <2>3. QED
    BY <2>2
<1>10. QED
  BY <1>4, <1>5, <1>7, <1>8, <1>9

LEMMA TicksAre ==
  ASSUME NEW s, SchedType(s), OneCircle(s)
  PROVE  /\ TicksLeft(s) \in [Pids -> 0 .. QUANTUM]
         /\ \A i \in Used(s.tasks) : TicksLeft(s)[s.tasks[i].pd] = s.tasks[i].quantum
         /\ \A pd \in Pids \ LoadedPids(s.tasks) : TicksLeft(s)[pd] = 0
<1>1. s.tasks \in [Slots -> Task]
  BY DEF SchedType
<1>2. ASSUME NEW i \in Used(s.tasks)
      PROVE  SlotOf(s, s.tasks[i].pd) = i
  <2>1. i \in Slots /\ s.tasks[i].pd # FREE_PID
    BY <1>2 DEF Used
  <2>2. \A j \in Slots : s.tasks[j].pd = s.tasks[i].pd => j = i
    BY <1>2, <2>1 DEF Used, OneCircle
  <2>3. QED
    BY <2>1, <2>2 DEF SlotOf
<1>3. ASSUME NEW i \in Used(s.tasks)
      PROVE  /\ s.tasks[i].pd \in Pids /\ s.tasks[i].pd \in LoadedPids(s.tasks)
             /\ s.tasks[i].quantum \in 0 .. QUANTUM
  BY <1>1, <1>3 DEF Used, Task, LoadedPids
<1>4. ASSUME NEW pd \in Pids
      PROVE  TicksLeft(s)[pd] = IF pd \in LoadedPids(s.tasks)
                                THEN s.tasks[SlotOf(s, pd)].quantum ELSE 0
  BY DEF TicksLeft
<1>5. \A i \in Used(s.tasks) : TicksLeft(s)[s.tasks[i].pd] = s.tasks[i].quantum
  BY <1>2, <1>3, <1>4
<1>6. \A pd \in Pids : TicksLeft(s)[pd] \in 0 .. QUANTUM
  <2>1. \A pd \in LoadedPids(s.tasks) : \E i \in Used(s.tasks) : s.tasks[i].pd = pd
    BY DEF LoadedPids
  <2>2. 0 \in 0 .. QUANTUM
    BY SchedAssumption
  <2>3. QED
    BY <1>3, <1>4, <1>5, <2>1, <2>2
<1>7. TicksLeft(s) \in [Pids -> 0 .. QUANTUM]
  BY <1>6 DEF TicksLeft
<1>8. QED
  BY <1>4, <1>5, <1>7

(* sched_load puts the pid behind all the others. *)
LEMMA LoadEnters ==
  ASSUME NEW s, SchedType(s), OneCircle(s), HasSlot(s.tasks),
         NEW pd \in Pids, pd \notin LoadedPids(s.tasks),
         NEW t, t = sched_load(s, pd)
  PROVE  /\ \A k \in 1 .. Len(Turns(s)) : Turns(s)[k] # pd
         /\ Turns(t) = Append(Turns(s), pd)
         /\ Owner(t) = Owner(s)
         /\ TicksLeft(t) = [TicksLeft(s) EXCEPT ![pd] = QUANTUM]
<1> DEFINE i == FoundSlot(s.tasks)
           n == s.running_tasks
           u == s.tasks
           v == t.tasks
<1>1. PICK f \in [0 .. n - 1 -> Slots] : Lists(f, n, u) /\ Ends(f, n, s.first, s.last)
  BY DEF OneCircle
<1> DEFINE g == Extended(f, n, i)
<1>2. /\ SchedType(t) /\ OneCircle(t) /\ Loaded(s, t, f, pd)
      /\ LoadedPids(v) = LoadedPids(u) \cup {pd}
  BY <1>1, LoadKeeps, LoadLinks
<1>3. /\ n \in Nat /\ i \in Slots /\ i \notin Used(u)
      /\ t.running_tasks = n + 1 /\ t.actual = s.actual
  BY <1>2, FoundSlotIsFree DEF SchedType, Loaded
<1>4. /\ \A j \in Slots : v[j].pd = IF j = i THEN pd ELSE u[j].pd
      /\ \A j \in Slots : v[j].quantum = IF j = i THEN QUANTUM ELSE u[j].quantum
  BY <1>2 DEF Loaded
<1>5. /\ g \in [0 .. n -> Slots] /\ Lists(g, n + 1, v) /\ Ends(g, n + 1, t.first, t.last)
  BY <1>2 DEF Loaded
<1>6. g[n] = i /\ \A k \in 0 .. n - 1 : g[k] = f[k]
  BY <1>3 DEF Extended
<1> HIDE DEF g, i
<1>7. /\ Turns(s) \in Seq(Pids) /\ Len(Turns(s)) = n
      /\ \A k \in 1 .. n : Turns(s)[k] = u[f[k - 1]].pd
      /\ \A k \in 1 .. n : Turns(s)[k] \in LoadedPids(u)
  BY <1>1, TurnsAre
<1>8. /\ Turns(t) \in Seq(Pids) /\ Len(Turns(t)) = n + 1
      /\ \A k \in 1 .. n + 1 : Turns(t)[k] = v[g[k - 1]].pd
  <2>1. (n + 1) - 1 = n
    BY <1>3
  <2>2. g \in [0 .. t.running_tasks - 1 -> Slots] /\ Lists(g, t.running_tasks, v)
        /\ Ends(g, t.running_tasks, t.first, t.last)
    BY <1>3, <1>5, <2>1
  <2>3. /\ Turns(t) \in Seq(Pids) /\ Len(Turns(t)) = t.running_tasks
        /\ \A k \in 1 .. t.running_tasks : Turns(t)[k] = v[g[k - 1]].pd
    BY <1>2, <2>2, TurnsAre
  <2>4. QED
    BY <1>3, <2>3
<1>9. \A k \in 1 .. Len(Turns(s)) : Turns(s)[k] # pd
  BY <1>7
<1>10. Turns(t) = Append(Turns(s), pd)
  <2> DEFINE q == Append(Turns(s), pd)
  <2>1. /\ q \in Seq(Pids) /\ Len(q) = n + 1
        /\ \A k \in 1 .. n : q[k] = Turns(s)[k]
        /\ q[n + 1] = pd
    BY <1>7, AppendProperties
  <2>2. \A k \in 1 .. n : Turns(t)[k] = Turns(s)[k]
    <3> SUFFICES ASSUME NEW k \in 1 .. n PROVE Turns(t)[k] = Turns(s)[k]
      OBVIOUS
    <3>1. k - 1 \in 0 .. n - 1 /\ k \in 1 .. n + 1
      BY <1>3
    <3>2. f[k - 1] \in Used(u) /\ f[k - 1] \in Slots
      BY <1>1, <3>1 DEF Lists
    <3>3. g[k - 1] = f[k - 1] /\ f[k - 1] # i
      BY <1>3, <1>6, <3>1, <3>2
    <3>4. Turns(t)[k] = v[f[k - 1]].pd /\ Turns(s)[k] = u[f[k - 1]].pd
      BY <1>7, <1>8, <3>1, <3>3
    <3>5. QED
      BY <1>4, <3>2, <3>3, <3>4
  <2>3. Turns(t)[n + 1] = pd
    <3>1. n + 1 \in 1 .. n + 1 /\ (n + 1) - 1 = n
      BY <1>3
    <3>2. Turns(t)[n + 1] = v[g[(n + 1) - 1]].pd
      BY <1>8, <3>1
    <3>3. v[i].pd = pd
      BY <1>3, <1>4
    <3>4. QED
      BY <1>6, <3>1, <3>2, <3>3
  <2> HIDE DEF q
  <2>4. \A k \in 1 .. Len(Turns(t)) : Turns(t)[k] = q[k]
    <3>1. \A k \in 1 .. n + 1 : k = n + 1 \/ k \in 1 .. n
      BY <1>3
    <3>2. QED
      BY <1>8, <2>1, <2>2, <2>3, <3>1
  <2>5. Turns(t) = q
    BY <1>8, <2>1, <2>4, SeqEqual
  <2>6. QED
    BY <2>5 DEF q
<1>11. Owner(t) = Owner(s)
  <2>1. s.actual # NULL => s.actual \in Slots /\ s.actual # i
    BY <1>3 DEF OneCircle, Used
  <2>2. QED
    BY <1>3, <1>4, <2>1 DEF Owner
<1>12. TicksLeft(t) = [TicksLeft(s) EXCEPT ![pd] = QUANTUM]
  <2>1. /\ TicksLeft(s) \in [Pids -> 0 .. QUANTUM]
        /\ \A j \in Used(u) : TicksLeft(s)[u[j].pd] = u[j].quantum
        /\ \A p \in Pids \ LoadedPids(u) : TicksLeft(s)[p] = 0
    BY TicksAre
  <2>2. /\ TicksLeft(t) \in [Pids -> 0 .. QUANTUM]
        /\ \A j \in Used(v) : TicksLeft(t)[v[j].pd] = v[j].quantum
        /\ \A p \in Pids \ LoadedPids(v) : TicksLeft(t)[p] = 0
    BY <1>2, TicksAre
  <2>3. i \in Used(v)
    BY <1>3, <1>4, SchedAssumption DEF Used, Pids, FREE_PID
  <2>4. TicksLeft(t)[pd] = QUANTUM
    BY <1>3, <1>4, <2>2, <2>3
  <2>5. ASSUME NEW p \in LoadedPids(u)
        PROVE  TicksLeft(t)[p] = TicksLeft(s)[p]
    <3>1. PICK j \in Used(u) : u[j].pd = p
      BY DEF LoadedPids
    <3>2. j \in Slots /\ j # i /\ j \in Used(v)
      BY <1>3, <1>4, <3>1 DEF Used
    <3>3. v[j].pd = p /\ v[j].quantum = u[j].quantum
      BY <1>4, <3>1, <3>2
    <3>4. QED
      BY <2>1, <2>2, <3>1, <3>2, <3>3
  <2>6. \A p \in Pids : p # pd => TicksLeft(t)[p] = TicksLeft(s)[p]
    BY <1>2, <2>1, <2>2, <2>5
  <2>7. QED
    BY <2>1, <2>2, <2>4, <2>6
<1>13. QED
  BY <1>9, <1>10, <1>11, <1>12

(* The owner's place in the queue, and who comes after it. *)
LEMMA OwnerTurn ==
  ASSUME NEW s, SchedType(s), OneCircle(s), s.actual # NULL,
         NEW f \in [0 .. s.running_tasks - 1 -> Slots],
         Lists(f, s.running_tasks, s.tasks), Ends(f, s.running_tasks, s.first, s.last),
         NEW p \in 0 .. s.running_tasks - 1, f[p] = s.actual
  PROVE  /\ p + 1 \in 1 .. s.running_tasks /\ Turns(s)[p + 1] = Owner(s)
         /\ Owner(s) \in Pids /\ Owner(s) # FREE_PID
         /\ Owner(s) = s.tasks[s.actual].pd
         /\ s.tasks[f[Succ(p, s.running_tasks)]].pd =
              IF p + 1 = s.running_tasks THEN Turns(s)[1] ELSE Turns(s)[(p + 1) + 1]
<1> DEFINE n == s.running_tasks
<1>1. n \in Nat /\ n > 0 /\ p + 1 \in 1 .. n /\ (p + 1) - 1 = p /\ 1 \in 1 .. n /\ 1 - 1 = 0
  BY DEF SchedType
<1>2. /\ Turns(s) \in Seq(Pids) /\ Len(Turns(s)) = n
      /\ \A k \in 1 .. n : Turns(s)[k] = s.tasks[f[k - 1]].pd
  BY TurnsAre
<1>3. Turns(s)[p + 1] = s.tasks[s.actual].pd
  BY <1>1, <1>2
<1>4. Owner(s) = s.tasks[s.actual].pd
  BY DEF Owner
<1>5. Turns(s)[p + 1] \in Pids
  BY <1>1, <1>2
<1>6. Owner(s) # FREE_PID
  BY <1>3, <1>4, <1>5, SchedAssumption DEF Pids, FREE_PID
<1>7. CASE p + 1 = n
  <2>1. Succ(p, n) = 0
    BY <1>1, <1>7 DEF Succ
  <2>2. QED
    BY <1>1, <1>2, <1>3, <1>4, <1>5, <1>6, <1>7, <2>1
<1>8. CASE p + 1 # n
  <2>1. Succ(p, n) = p + 1 /\ (p + 1) + 1 \in 1 .. n /\ ((p + 1) + 1) - 1 = p + 1
    BY <1>1, <1>8 DEF Succ
  <2>2. QED
    BY <1>1, <1>2, <1>3, <1>4, <1>5, <1>6, <1>8, <2>1
<1>9. QED
  BY <1>7, <1>8

(* sched_exit takes the owner out of the queue and gives the processor to  *)
(* the one behind it, or to nobody when it was alone.                      *)
LEMMA ExitLeaves ==
  ASSUME NEW s, SchedType(s), OneCircle(s), s.actual # NULL,
         NEW t, t = sched_exit(s)
  PROVE  /\ Owner(s) # FREE_PID
         /\ \E k \in 1 .. Len(Turns(s)) :
              /\ Turns(s)[k] = Owner(s)
              /\ Owner(t) = IF Len(Turns(s)) = 1 THEN FREE_PID
                            ELSE IF k = Len(Turns(s)) THEN Turns(s)[1] ELSE Turns(s)[k + 1]
              /\ Turns(t) = SubSeq(Turns(s), 1, k - 1)
                              \o SubSeq(Turns(s), k + 1, Len(Turns(s)))
         /\ TicksLeft(t) = [TicksLeft(s) EXCEPT ![Owner(s)] = 0]
<1> DEFINE a == s.actual
           n == s.running_tasks
           u == s.tasks
           v == t.tasks
           q == Turns(s)
<1>1. PICK f \in [0 .. n - 1 -> Slots] : Lists(f, n, u) /\ Ends(f, n, s.first, s.last)
  BY DEF OneCircle
<1>2. a \in Used(u) /\ a \in Slots /\ u[a].pd # FREE_PID
  BY DEF OneCircle, Used
<1>3. PICK p \in 0 .. n - 1 : f[p] = a
  BY <1>1, <1>2 DEF Lists
<1> DEFINE g == Without(f, n, p)
<1>4. /\ SchedType(t) /\ OneCircle(t) /\ Exited(s, t, f, p)
      /\ LoadedPids(v) = LoadedPids(u) \ {u[a].pd}
  BY <1>1, <1>3, ExitKeeps, ExitLinks
<1>5. /\ n \in Nat /\ n > 0 /\ t.running_tasks = n - 1
      /\ t.actual = IF n = 1 THEN NULL ELSE f[Succ(p, n)]
      /\ n > 1 => f[Succ(p, n)] \in Used(u) /\ f[Succ(p, n)] # a
  BY <1>3, <1>4 DEF SchedType, Exited
<1>6. /\ \A j \in Slots : v[j].pd = IF j = a THEN FREE_PID ELSE u[j].pd
      /\ \A j \in Slots : j # a => v[j].quantum = u[j].quantum
  BY <1>4 DEF Exited
<1>7. /\ g \in [0 .. n - 2 -> Slots] /\ Lists(g, n - 1, v)
      /\ Ends(g, n - 1, t.first, t.last)
  BY <1>4 DEF Exited
<1>8. \A k \in 0 .. n - 2 : g[k] = IF k < p THEN f[k] ELSE f[k + 1]
  BY DEF Without
<1> HIDE DEF g
<1>9. /\ p + 1 \in 1 .. n /\ q[p + 1] = Owner(s) /\ Owner(s) \in Pids /\ Owner(s) # FREE_PID
      /\ Owner(s) = u[a].pd
      /\ u[f[Succ(p, n)]].pd = IF p + 1 = n THEN q[1] ELSE q[(p + 1) + 1]
  BY <1>1, <1>3, OwnerTurn
<1>10. /\ q \in Seq(Pids) /\ Len(q) = n
       /\ \A k \in 1 .. n : q[k] = u[f[k - 1]].pd /\ q[k] \in Pids
  <2>1. /\ q \in Seq(Pids) /\ Len(q) = n
        /\ \A k \in 1 .. n : q[k] = u[f[k - 1]].pd
    BY <1>1, TurnsAre
  <2>2. QED
    BY <2>1
<1>11. /\ Turns(t) \in Seq(Pids) /\ Len(Turns(t)) = n - 1
       /\ \A k \in 1 .. n - 1 : Turns(t)[k] = v[g[k - 1]].pd
  <2>1. (n - 1) - 1 = n - 2
    BY <1>5
  <2>2. g \in [0 .. t.running_tasks - 1 -> Slots] /\ Lists(g, t.running_tasks, v)
        /\ Ends(g, t.running_tasks, t.first, t.last)
    BY <1>5, <1>7, <2>1
  <2>3. /\ Turns(t) \in Seq(Pids) /\ Len(Turns(t)) = t.running_tasks
        /\ \A k \in 1 .. t.running_tasks : Turns(t)[k] = v[g[k - 1]].pd
    BY <1>4, <2>2, TurnsAre
  <2>4. QED
    BY <1>5, <2>3
<1> HIDE DEF q
<1>12. Owner(t) = IF n = 1 THEN FREE_PID ELSE IF p + 1 = n THEN q[1] ELSE q[(p + 1) + 1]
  <2>1. CASE n = 1
    BY <1>5, <2>1 DEF Owner
  <2>2. CASE n # 1
    <3>1. /\ t.actual = f[Succ(p, n)] /\ t.actual \in Used(u) /\ t.actual # a
      BY <1>5, <2>2
    <3>2. t.actual \in Slots /\ t.actual # NULL
      BY <3>1, SchedAssumption DEF Used, Slots, NULL
    <3>3. Owner(t) = u[f[Succ(p, n)]].pd
      BY <1>6, <3>1, <3>2 DEF Owner
    <3>4. QED
      BY <1>9, <2>2, <3>3
  <2>3. QED
    BY <2>1, <2>2
<1>13. Turns(t) = SubSeq(q, 1, (p + 1) - 1) \o SubSeq(q, (p + 1) + 1, n)
  <2> DEFINE left  == SubSeq(q, 1, (p + 1) - 1)
             right == SubSeq(q, (p + 1) + 1, n)
  <2>1. /\ left \in Seq(Pids) /\ Len(left) = p
        /\ \A k \in 1 .. p : left[k] = q[k]
    <3>1. (p + 1) - 1 = p /\ p \in Int /\ 1 .. p \subseteq 1 .. n /\ p - 1 + 1 = p
      BY <1>5
    <3>2. \A k \in 1 .. p : q[k] \in Pids
      BY <1>10, <3>1
    <3>3. /\ SubSeq(q, 1, p) \in Seq(Pids) /\ Len(SubSeq(q, 1, p)) = IF 1 <= p THEN p - 1 + 1 ELSE 0
          /\ \A k \in 1 .. p - 1 + 1 : SubSeq(q, 1, p)[k] = q[1 + k - 1]
      BY <3>1, <3>2, SubSeqProperties
    <3>4. \A k \in 1 .. p : 1 + k - 1 = k
      OBVIOUS
    <3>5. QED
      BY <3>1, <3>3, <3>4
  <2>2. /\ right \in Seq(Pids) /\ Len(right) = n - 1 - p
        /\ \A k \in 1 .. n - 1 - p : right[k] = q[(p + 1) + k]
    <3>1. (p + 1) + 1 = p + 2 /\ p + 2 \in Int /\ n \in Int /\ n - (p + 2) + 1 = n - 1 - p
      BY <1>5
    <3>2. \A k \in p + 2 .. n : q[k] \in Pids
      BY <1>5, <1>10
    <3>3. /\ SubSeq(q, p + 2, n) \in Seq(Pids)
          /\ Len(SubSeq(q, p + 2, n)) = IF p + 2 <= n THEN n - (p + 2) + 1 ELSE 0
          /\ \A k \in 1 .. n - (p + 2) + 1 : SubSeq(q, p + 2, n)[k] = q[(p + 2) + k - 1]
      BY <3>1, <3>2, SubSeqProperties
    <3>4. \A k \in 1 .. n - 1 - p : (p + 2) + k - 1 = (p + 1) + k
      BY <1>5
    <3>5. Len(SubSeq(q, p + 2, n)) = n - 1 - p
      BY <1>5, <1>9, <3>3
    <3>6. QED
      BY <3>1, <3>3, <3>4, <3>5
  <2> HIDE DEF left, right
  <2>3. /\ left \o right \in Seq(Pids) /\ Len(left \o right) = n - 1
        /\ \A k \in 1 .. n - 1 : (left \o right)[k] = IF k <= p THEN left[k] ELSE right[k - p]
    <3>1. p + (n - 1 - p) = n - 1
      BY <1>5
    <3>2. QED
      BY <2>1, <2>2, <3>1, ConcatProperties
  <2>4. ASSUME NEW k \in 1 .. n - 1
        PROVE  Turns(t)[k] = (left \o right)[k]
    <3>1. k - 1 \in 0 .. n - 2 /\ k \in 1 .. n /\ k + 1 \in 1 .. n /\ (k + 1) - 1 = (k - 1) + 1
      BY <1>5
    <3>2. \A j \in 0 .. n - 1 : j # p => f[j] # a /\ f[j] \in Slots
      BY <1>1, <1>3 DEF Lists
    <3>3. CASE k <= p
      <4>1. k - 1 \in 0 .. n - 1 /\ k - 1 < p /\ k \in 1 .. p
        BY <1>5, <3>1, <3>3
      <4>2. g[k - 1] = f[k - 1] /\ f[k - 1] # a /\ f[k - 1] \in Slots
        BY <1>8, <3>1, <3>2, <4>1
      <4>3. Turns(t)[k] = q[k]
        BY <1>6, <1>10, <1>11, <3>1, <4>2
      <4>4. QED
        BY <2>1, <2>3, <3>3, <4>1, <4>3
    <3>4. CASE ~ (k <= p)
      <4>1. (k - 1) + 1 \in 0 .. n - 1 /\ ~ (k - 1 < p) /\ (k - 1) + 1 # p
            /\ k - p \in 1 .. n - 1 - p /\ (p + 1) + (k - p) = k + 1
        BY <1>5, <3>1, <3>4
      <4>2. g[k - 1] = f[(k - 1) + 1] /\ f[(k - 1) + 1] # a /\ f[(k - 1) + 1] \in Slots
        BY <1>8, <3>1, <3>2, <4>1
      <4>3. Turns(t)[k] = q[k + 1]
        <5>1. Turns(t)[k] = u[f[(k - 1) + 1]].pd
          BY <1>6, <1>11, <4>2
        <5>2. q[k + 1] = u[f[(k + 1) - 1]].pd
          BY <1>10, <3>1
        <5>3. QED
          BY <3>1, <5>1, <5>2
      <4>4. QED
        BY <2>2, <2>3, <3>4, <4>1, <4>3
    <3>5. QED
      BY <3>3, <3>4
  <2>5. Turns(t) = left \o right
    BY <1>11, <2>3, <2>4, SeqEqual
  <2>6. QED
    BY <2>5 DEF left, right
<1>14. TicksLeft(t) = [TicksLeft(s) EXCEPT ![Owner(s)] = 0]
  <2>1. /\ TicksLeft(s) \in [Pids -> 0 .. QUANTUM]
        /\ \A j \in Used(u) : TicksLeft(s)[u[j].pd] = u[j].quantum
        /\ \A pd \in Pids \ LoadedPids(u) : TicksLeft(s)[pd] = 0
    BY TicksAre
  <2>2. /\ TicksLeft(t) \in [Pids -> 0 .. QUANTUM]
        /\ \A j \in Used(v) : TicksLeft(t)[v[j].pd] = v[j].quantum
        /\ \A pd \in Pids \ LoadedPids(v) : TicksLeft(t)[pd] = 0
    BY <1>4, TicksAre
  <2>3. TicksLeft(t)[Owner(s)] = 0
    BY <1>4, <1>9, <2>2
  <2>4. ASSUME NEW pd \in LoadedPids(v)
        PROVE  TicksLeft(t)[pd] = TicksLeft(s)[pd]
    <3>1. PICK j \in Used(v) : v[j].pd = pd
      BY DEF LoadedPids
    <3>2. j \in Slots /\ j # a /\ j \in Used(u)
      BY <1>6, <3>1 DEF Used
    <3>3. u[j].pd = pd /\ v[j].quantum = u[j].quantum
      BY <1>6, <3>1, <3>2
    <3>4. QED
      BY <2>1, <2>2, <3>1, <3>2, <3>3
  <2>5. \A pd \in Pids : pd # Owner(s) => TicksLeft(t)[pd] = TicksLeft(s)[pd]
    BY <1>4, <1>9, <2>1, <2>2, <2>4
  <2>6. QED
    BY <1>9, <2>1, <2>2, <2>3, <2>5
<1>15. QED
  BY <1>9, <1>10, <1>12, <1>13, <1>14 DEF q

(* sched_tick leaves the queue as it is: it finds an owner, spends a tick  *)
(* of the owner's, or passes the processor on with a new quantum.          *)
LEMMA TickServes ==
  ASSUME NEW s, SchedType(s), OneCircle(s), NEW t, t = sched_tick(s)
  PROVE  /\ Turns(t) = Turns(s)
         /\ \/ /\ Owner(s) = FREE_PID /\ Len(Turns(s)) = 0
               /\ Owner(t) = Owner(s) /\ TicksLeft(t) = TicksLeft(s)
            \/ /\ Owner(s) = FREE_PID /\ Len(Turns(s)) # 0
               /\ Owner(t) = Turns(s)[1] /\ TicksLeft(t) = TicksLeft(s)
            \/ /\ Owner(s) # FREE_PID /\ TicksLeft(s)[Owner(s)] > 0
               /\ TicksLeft(t) = [TicksLeft(s) EXCEPT ![Owner(s)] = TicksLeft(s)[Owner(s)] - 1]
               /\ Owner(t) = Owner(s)
            \/ /\ Owner(s) # FREE_PID /\ TicksLeft(s)[Owner(s)] = 0
               /\ TicksLeft(t) = [TicksLeft(s) EXCEPT ![Owner(s)] = QUANTUM]
               /\ \E k \in 1 .. Len(Turns(s)) :
                    /\ Turns(s)[k] = Owner(s)
                    /\ Owner(t) = IF k = Len(Turns(s)) THEN Turns(s)[1] ELSE Turns(s)[k + 1]
<1> DEFINE a == s.actual
           n == s.running_tasks
           u == s.tasks
           v == t.tasks
<1>1. PICK f \in [0 .. n - 1 -> Slots] : Lists(f, n, u) /\ Ends(f, n, s.first, s.last)
  BY DEF OneCircle
<1>2. SchedType(t) /\ OneCircle(t) /\ Ticked(s, t, f) /\ LoadedPids(v) = LoadedPids(u)
  BY <1>1, TickKeeps, TickLinks
<1>3. /\ n \in Nat /\ u \in [Slots -> Task] /\ a \in Slots \cup {NULL}
  BY DEF SchedType
<1>4. /\ \A j \in Slots : v[j].pd = u[j].pd /\ v[j].next = u[j].next /\ v[j].prev = u[j].prev
      /\ t.first = s.first /\ t.last = s.last /\ t.running_tasks = n
      /\ t.actual # NULL => t.actual \in Used(u)
      /\ \A j \in Slots : v[j].quantum = IF j # a THEN u[j].quantum
                             ELSE IF u[j].quantum > 0 THEN u[j].quantum - 1 ELSE QUANTUM
      /\ t.actual = IF a = NULL THEN IF n = 0 THEN NULL ELSE f[0]
                    ELSE IF u[a].quantum > 0 THEN a ELSE u[a].next
  BY <1>2 DEF Ticked
<1>5. Used(v) = Used(u) /\ Used(u) \subseteq Slots /\ NULL \notin Slots
  BY <1>4, SchedAssumption DEF Used, Slots, NULL
<1>6. /\ Turns(s) \in Seq(Pids) /\ Len(Turns(s)) = n
      /\ \A k \in 1 .. n : Turns(s)[k] = u[f[k - 1]].pd
  BY <1>1, TurnsAre
<1>7. Turns(t) = Turns(s)
  <2>1. Lists(f, n, v) /\ Ends(f, n, t.first, t.last)
    <3>1. \A k \in 0 .. n - 1 : f[k] \in Slots /\ Succ(k, n) \in 0 .. n - 1
      BY <1>3 DEF Succ
    <3>2. Lists(f, n, v)
      BY <1>1, <1>4, <1>5, <3>1 DEF Lists
    <3>3. QED
      BY <1>1, <1>4, <3>2
  <2>2. f \in [0 .. t.running_tasks - 1 -> Slots] /\ Lists(f, t.running_tasks, v)
        /\ Ends(f, t.running_tasks, t.first, t.last)
    BY <1>4, <2>1
  <2>3. /\ Turns(t) \in Seq(Pids) /\ Len(Turns(t)) = t.running_tasks
        /\ \A k \in 1 .. t.running_tasks : Turns(t)[k] = v[f[k - 1]].pd
    BY <1>2, <2>2, TurnsAre
  <2>4. \A k \in 1 .. n : k - 1 \in 0 .. n - 1 /\ f[k - 1] \in Slots
    BY <1>3
  <2>5. \A k \in 1 .. Len(Turns(t)) : Turns(t)[k] = Turns(s)[k]
    BY <1>4, <1>6, <2>3, <2>4
  <2>6. Len(Turns(t)) = Len(Turns(s))
    BY <1>4, <1>6, <2>3
  <2>7. QED
    BY <1>6, <2>3, <2>5, <2>6, SeqEqual
<1>8. /\ TicksLeft(s) \in [Pids -> 0 .. QUANTUM]
      /\ \A j \in Used(u) : TicksLeft(s)[u[j].pd] = u[j].quantum
      /\ \A pd \in Pids \ LoadedPids(u) : TicksLeft(s)[pd] = 0
  BY TicksAre
<1>9. /\ TicksLeft(t) \in [Pids -> 0 .. QUANTUM]
      /\ \A j \in Used(v) : TicksLeft(t)[v[j].pd] = v[j].quantum
      /\ \A pd \in Pids \ LoadedPids(v) : TicksLeft(t)[pd] = 0
  BY <1>2, TicksAre
<1>10. \A pd \in LoadedPids(u) : \E j \in Used(u) : u[j].pd = pd
  BY DEF LoadedPids
<1>11. \A pd \in Pids : (\A j \in Used(u) : u[j].pd = pd => j # a) =>
                        TicksLeft(t)[pd] = TicksLeft(s)[pd]
  <2> SUFFICES ASSUME NEW pd \in Pids, \A j \in Used(u) : u[j].pd = pd => j # a
               PROVE  TicksLeft(t)[pd] = TicksLeft(s)[pd]
    OBVIOUS
  <2>1. CASE pd \notin LoadedPids(u)
    BY <1>2, <1>8, <1>9, <2>1
  <2>2. CASE pd \in LoadedPids(u)
    <3>1. PICK j \in Used(u) : u[j].pd = pd
      BY <1>10, <2>2
    <3>2. j \in Slots /\ j # a /\ v[j].pd = pd /\ v[j].quantum = u[j].quantum
      BY <1>4, <1>5, <3>1
    <3>3. QED
      BY <1>5, <1>8, <1>9, <3>1, <3>2
  <2>3. QED
    BY <2>1, <2>2
<1> HIDE DEF a, n, u, v
<1>12. CASE a = NULL
  <2>1. Owner(s) = FREE_PID
    BY <1>12 DEF Owner, a
  <2>2. \A pd \in Pids : TicksLeft(t)[pd] = TicksLeft(s)[pd]
    BY <1>5, <1>11, <1>12
  <2>3. TicksLeft(t) = TicksLeft(s)
    BY <1>8, <1>9, <2>2
  <2>4. CASE n = 0
    <3>1. Owner(t) = FREE_PID
      BY <1>4, <1>12, <2>4 DEF Owner
    <3>2. QED
      BY <1>6, <1>7, <2>1, <2>3, <2>4, <3>1
  <2>5. CASE n # 0
    <3>1. t.actual = f[0] /\ f[0] \in Slots /\ f[0] # NULL /\ 1 \in 1 .. n /\ 1 - 1 = 0
      BY <1>3, <1>4, <1>5, <1>12, <2>5
    <3>2. Owner(t) = u[f[0]].pd
      BY <1>4, <3>1 DEF Owner, v
    <3>3. Owner(t) = Turns(s)[1]
      BY <1>6, <3>1, <3>2
    <3>4. QED
      BY <1>6, <1>7, <2>1, <2>3, <2>5, <3>3
  <2>6. QED
    BY <2>4, <2>5
<1>13. CASE a # NULL
  <2>1. a \in Used(u) /\ a \in Slots
    BY <1>3, <1>13 DEF OneCircle, a, u
  <2>2. PICK p \in 0 .. n - 1 : f[p] = a
    BY <1>1, <2>1 DEF Lists
  <2>3. /\ p + 1 \in 1 .. n /\ Turns(s)[p + 1] = Owner(s) /\ Owner(s) \in Pids
        /\ Owner(s) # FREE_PID /\ Owner(s) = u[a].pd
        /\ u[f[Succ(p, n)]].pd = IF p + 1 = n THEN Turns(s)[1] ELSE Turns(s)[(p + 1) + 1]
    BY <1>1, <1>13, <2>2, OwnerTurn DEF a, n, u
  <2>4. TicksLeft(s)[Owner(s)] = u[a].quantum
    BY <1>8, <2>1, <2>3
  <2>5. TicksLeft(t)[Owner(s)] = v[a].quantum
    BY <1>4, <1>5, <1>9, <2>1, <2>3
  <2>6. \A pd \in Pids : pd # Owner(s) => TicksLeft(t)[pd] = TicksLeft(s)[pd]
    BY <1>11, <2>3
  <2>7. TicksLeft(t) = [TicksLeft(s) EXCEPT ![Owner(s)] = v[a].quantum]
    BY <1>8, <1>9, <2>3, <2>5, <2>6
  <2>8. u[a].quantum \in 0 .. QUANTUM
    BY <1>3, <2>1 DEF Task
  <2>9. CASE u[a].quantum > 0
    <3>1. t.actual = a /\ v[a].quantum = u[a].quantum - 1
      BY <1>4, <1>13, <2>1, <2>9
    <3>2. Owner(t) = Owner(s)
      BY <1>4, <1>13, <2>1, <2>3, <3>1 DEF Owner, v
    <3>3. QED
      BY <1>7, <2>3, <2>4, <2>7, <2>9, <3>1, <3>2
  <2>10. CASE ~ (u[a].quantum > 0)
    <3>1. t.actual = u[a].next /\ v[a].quantum = QUANTUM /\ u[a].quantum = 0
      BY <1>4, <1>13, <2>1, <2>8, <2>10, SchedAssumption
    <3>2. u[a].next = f[Succ(p, n)] /\ f[Succ(p, n)] \in Slots
      BY <1>1, <1>3, <2>2 DEF Lists, Succ
    <3>3. Owner(t) = u[f[Succ(p, n)]].pd
      BY <1>4, <1>5, <3>1, <3>2 DEF Owner, v
    <3>4. \E k \in 1 .. Len(Turns(s)) :
            /\ Turns(s)[k] = Owner(s)
            /\ Owner(t) = IF k = Len(Turns(s)) THEN Turns(s)[1] ELSE Turns(s)[k + 1]
      <4>1. /\ p + 1 \in 1 .. Len(Turns(s)) /\ Turns(s)[p + 1] = Owner(s)
            /\ Owner(t) = IF p + 1 = Len(Turns(s)) THEN Turns(s)[1] ELSE Turns(s)[(p + 1) + 1]
        BY <1>6, <2>3, <3>3
      <4>2. QED
        BY <4>1
    <3>5. QED
      BY <1>7, <2>3, <2>4, <2>7, <3>1, <3>4
  <2>11. QED
    BY <2>9, <2>10
<1>14. QED
  BY <1>12, <1>13

(* The circle with its three pointers is a queue served round robin: every *)
(* call of sched.c is a step of RunQueue or changes nothing that one sees. *)
THEOREM SchedIsRoundRobin == Spec => ImplementsRunQueue
<1>1. Init => RoundRobin!Init
  <2> SUFFICES ASSUME sched = SchedInit
               PROVE  Turns(sched) = <<>> /\ Owner(sched) = FREE_PID
                      /\ TicksLeft(sched) = [pd \in Pids |-> 0]
    BY DEF Init, RoundRobin!Init
  <2>1. SchedType(sched) /\ OneCircle(sched) /\ sched.running_tasks = 0 /\ sched.actual = NULL
        /\ LoadedPids(sched.tasks) = {}
    BY InitIsCircle DEF SchedInit, FreeSlot, LoadedPids, Used
  <2>2. PICK f \in [0 .. sched.running_tasks - 1 -> Slots] :
               /\ Lists(f, sched.running_tasks, sched.tasks)
               /\ Ends(f, sched.running_tasks, sched.first, sched.last)
    BY <2>1 DEF OneCircle
  <2>3. Turns(sched) \in Seq(Pids) /\ Len(Turns(sched)) = 0
    BY <2>1, <2>2, TurnsAre
  <2>4. Turns(sched) = <<>>
    BY <2>3, EmptySeq
  <2>5. TicksLeft(sched) = [pd \in Pids |-> 0]
    BY <2>1 DEF TicksLeft
  <2>6. QED
    BY <2>1, <2>4, <2>5 DEF Owner
<1>2. Inv /\ [Next]_vars => [RoundRobin!Next]_(RoundRobin!vars)
  <2> SUFFICES ASSUME SchedType(sched), OneCircle(sched), [Next]_vars
               PROVE  RoundRobin!Next \/ UNCHANGED RoundRobin!vars
    BY DEF Inv, TypeOK, RingIntact
  <2> DEFINE q == Turns(sched)
  <2>0. PICK f \in [0 .. sched.running_tasks - 1 -> Slots] :
               /\ Lists(f, sched.running_tasks, sched.tasks)
               /\ Ends(f, sched.running_tasks, sched.first, sched.last)
    BY DEF OneCircle
  <2>1. /\ q \in Seq(Pids) /\ Len(q) \in Nat /\ DOMAIN q = 1 .. Len(q)
        /\ \A j, k \in 1 .. Len(q) : q[j] = q[k] => j = k
    BY <2>0, TurnsAre DEF SchedType
  <2>2. ASSUME NEW k \in 1 .. Len(q), q[k] = Owner(sched)
        PROVE  /\ RoundRobin!Place(Owner(sched)) = k
               /\ RoundRobin!After(Owner(sched)) = IF k = Len(q) THEN q[1] ELSE q[k + 1]
    <3>1. \A j \in DOMAIN q : q[j] = Owner(sched) <=> j = k
      BY <2>1, <2>2
    <3>2. RoundRobin!Place(Owner(sched)) = k
      BY <2>1, <3>1 DEF RoundRobin!Place
    <3>3. Head(q) = q[1]
      BY <2>1
    <3>4. QED
      BY <3>2, <3>3 DEF RoundRobin!After
  <2>3. ASSUME NEW pd \in Pids \ {IDLE_PID}, Load(pd)
        PROVE  RoundRobin!Enter(pd)
    <3>1. HasSlot(sched.tasks)
      BY <2>3, SlotWaits DEF Load
    <3>2. /\ \A k \in 1 .. Len(q) : q[k] # pd
          /\ Turns(sched') = Append(q, pd)
          /\ Owner(sched') = Owner(sched)
          /\ TicksLeft(sched') = [TicksLeft(sched) EXCEPT ![pd] = QUANTUM]
      BY <2>3, <3>1, LoadEnters DEF Load
    <3>3. QED
      BY <3>2 DEF RoundRobin!Enter, RoundRobin!Contains
  <2>4. CASE Leave
    <3>1. /\ Owner(sched) # FREE_PID
          /\ \E k \in 1 .. Len(q) :
               /\ q[k] = Owner(sched)
               /\ Owner(sched') = IF Len(q) = 1 THEN FREE_PID
                                  ELSE IF k = Len(q) THEN q[1] ELSE q[k + 1]
               /\ Turns(sched') = SubSeq(q, 1, k - 1) \o SubSeq(q, k + 1, Len(q))
          /\ TicksLeft(sched') = [TicksLeft(sched) EXCEPT ![Owner(sched)] = 0]
      BY <2>4, ExitLeaves DEF Leave
    <3>2. PICK k \in 1 .. Len(q) :
               /\ q[k] = Owner(sched)
               /\ Owner(sched') = IF Len(q) = 1 THEN FREE_PID
                                  ELSE IF k = Len(q) THEN q[1] ELSE q[k + 1]
               /\ Turns(sched') = SubSeq(q, 1, k - 1) \o SubSeq(q, k + 1, Len(q))
      BY <3>1
    <3>3. RoundRobin!Leave
      BY <2>2, <3>1, <3>2 DEF RoundRobin!Leave, RoundRobin!RemoveAt
    <3>4. QED
      BY <3>3 DEF RoundRobin!Next
  <2>5. CASE Tick
    <3>1. sched' = sched_tick(sched)
      BY <2>5 DEF Tick
    <3>2. Turns(sched') = q
      BY <3>1, TickServes
    <3>3. CASE /\ Owner(sched) = FREE_PID /\ Len(q) = 0
               /\ Owner(sched') = Owner(sched) /\ TicksLeft(sched') = TicksLeft(sched)
      BY <3>2, <3>3 DEF RoundRobin!vars
    <3>4. CASE /\ Owner(sched) = FREE_PID /\ Len(q) # 0
               /\ Owner(sched') = q[1] /\ TicksLeft(sched') = TicksLeft(sched)
      <4>1. q # <<>> /\ Head(q) = q[1]
        BY <2>1, <3>4
      <4>2. QED
        BY <3>2, <3>4, <4>1 DEF RoundRobin!Next, RoundRobin!Dispatch
    <3>5. CASE /\ Owner(sched) # FREE_PID /\ TicksLeft(sched)[Owner(sched)] > 0
               /\ TicksLeft(sched') = [TicksLeft(sched) EXCEPT
                                         ![Owner(sched)] = TicksLeft(sched)[Owner(sched)] - 1]
               /\ Owner(sched') = Owner(sched)
      BY <3>2, <3>5 DEF RoundRobin!Next, RoundRobin!Spend
    <3>6. CASE /\ Owner(sched) # FREE_PID /\ TicksLeft(sched)[Owner(sched)] = 0
               /\ TicksLeft(sched') = [TicksLeft(sched) EXCEPT ![Owner(sched)] = QUANTUM]
               /\ \E k \in 1 .. Len(q) :
                    /\ q[k] = Owner(sched)
                    /\ Owner(sched') = IF k = Len(q) THEN q[1] ELSE q[k + 1]
      <4>1. PICK k \in 1 .. Len(q) :
                   /\ q[k] = Owner(sched)
                   /\ Owner(sched') = IF k = Len(q) THEN q[1] ELSE q[k + 1]
        BY <3>6
      <4>2. Owner(sched') = RoundRobin!After(Owner(sched))
        BY <2>2, <4>1
      <4>3. QED
        BY <3>2, <3>6, <4>2 DEF RoundRobin!Next, RoundRobin!Rotate
    <3>7. QED
      BY <3>1, <3>3, <3>4, <3>5, <3>6, TickServes
  <2>6. CASE UNCHANGED vars
    BY <2>6 DEF vars, RoundRobin!vars
  <2>7. QED
    BY <2>3, <2>4, <2>5, <2>6 DEF Next, RoundRobin!Next
<1>3. QED
  BY <1>1, <1>2, SchedInvariant, PTL DEF Spec, ImplementsRunQueue, RoundRobin!Spec
=============================================================================
