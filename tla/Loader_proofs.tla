---------------------------- MODULE Loader_proofs ----------------------------
(***************************************************************************)
(* The lists of loader.c: no pcb is lost, none is in two lists, the process*)
(* that runs is the one sched.c takes for the owner, and the lists and the *)
(* deltas implement the lines and the alarms of TaskStates.tla.            *)
(***************************************************************************)
EXTENDS Loader, SchedOps_proofs, SequenceTheorems

(* What a walk from head along next visits, in this order and once each. *)
Visits(head, next, s) ==
  /\ head = IF Len(s) = 0 THEN FREE_PCB_PID ELSE s[1]
  /\ \A k \in 1 .. Len(s) : next[s[k]] = IF k = Len(s) THEN FREE_PCB_PID ELSE s[k + 1]
  /\ \A j, k \in 1 .. Len(s) : s[j] = s[k] => j = k

LEMMA PlacesCount ==
  ASSUME NEW n \in Nat
  PROVE  IsFiniteSet(1 .. n) /\ Cardinality(1 .. n) = n
BY FS_Interval

(* There are no more places in a list than there are pids. *)
LEMMA ListFits ==
  ASSUME NEW s \in Seq(Pids), \A j, k \in 1 .. Len(s) : s[j] = s[k] => j = k
  PROVE  Len(s) <= MAX_PID
<1>1. Len(s) \in Nat /\ s \in [1 .. Len(s) -> Pids]
  OBVIOUS
<1>2. IsFiniteSet(Pids) /\ Cardinality(Pids) = MAX_PID
  BY FS_Interval, SchedAssumption DEF Pids
<1>3. Cardinality(1 .. Len(s)) = Len(s)
  BY <1>1, FS_Interval
<1>4. s \in Injection(1 .. Len(s), Pids)
  BY <1>1 DEF Injection, IsInjective
<1>5. Cardinality(1 .. Len(s)) <= Cardinality(Pids)
  BY <1>2, <1>4, FS_Injection
<1>6. QED
  BY <1>2, <1>3, <1>5

(* The loops over a list of pcbs find what the list holds. *)
LEMMA ChainIs ==
  ASSUME NEW s \in Seq(Pids), NEW head, NEW next, Visits(head, next, s)
  PROVE  Chain(head, next) = s
<1> DEFINE n == Len(s)
           g == [k \in 1 .. MAX_PID |-> IF k <= n THEN s[k] ELSE FREE_PCB_PID]
           Follows(w) == w = [k \in 1 .. MAX_PID |->
                                IF k = 1 THEN head
                                ELSE IF w[k - 1] = FREE_PCB_PID THEN FREE_PCB_PID
                                ELSE next[w[k - 1]]]
<1>1. /\ n \in Nat /\ n <= MAX_PID /\ MAX_PID \in Nat /\ MAX_PID > 0
      /\ \A k \in 1 .. n : s[k] \in Pids /\ s[k] # FREE_PCB_PID
  <2>1. n <= MAX_PID
    BY ListFits DEF Visits
  <2>2. FREE_PCB_PID \notin Pids
    BY SchedAssumption DEF Pids, FREE_PCB_PID
  <2>3. QED
    BY <2>1, <2>2, SchedAssumption
<1>2. \A k \in 1 .. MAX_PID : g[k] = IF k <= n THEN s[k] ELSE FREE_PCB_PID
  OBVIOUS
<1>3. \A k \in 1 .. MAX_PID :
         g[k] = IF k = 1 THEN head
                ELSE IF g[k - 1] = FREE_PCB_PID THEN FREE_PCB_PID
                ELSE next[g[k - 1]]
  <2> SUFFICES ASSUME NEW k \in 1 .. MAX_PID
               PROVE  g[k] = IF k = 1 THEN head
                             ELSE IF g[k - 1] = FREE_PCB_PID THEN FREE_PCB_PID
                             ELSE next[g[k - 1]]
    OBVIOUS
  <2>1. CASE k = 1
    BY <1>1, <2>1 DEF Visits
  <2>2. CASE k # 1
    <3>1. k - 1 \in 1 .. MAX_PID /\ (k - 1) + 1 = k
      BY <1>1, <2>2
    <3>2. g[k - 1] = IF k - 1 <= n THEN s[k - 1] ELSE FREE_PCB_PID
      BY <1>2, <3>1
    <3>3. CASE k - 1 > n
      BY <1>1, <2>2, <3>1, <3>2, <3>3
    <3>4. CASE k - 1 = n
      <4>1. g[k - 1] = s[n] /\ n \in 1 .. n /\ g[k] = FREE_PCB_PID
        BY <1>1, <3>1, <3>2, <3>4
      <4>2. next[s[n]] = FREE_PCB_PID /\ s[n] # FREE_PCB_PID
        BY <1>1, <4>1 DEF Visits
      <4>3. QED
        BY <2>2, <4>1, <4>2
    <3>5. CASE k - 1 < n
      <4>1. g[k - 1] = s[k - 1] /\ k - 1 \in 1 .. n /\ k - 1 # n /\ g[k] = s[k]
        BY <1>1, <3>1, <3>2, <3>5
      <4>2. next[s[k - 1]] = s[k] /\ s[k - 1] # FREE_PCB_PID
        BY <1>1, <3>1, <4>1 DEF Visits
      <4>3. QED
        BY <2>2, <4>1, <4>2
    <3>6. QED
      BY <1>1, <3>1, <3>3, <3>4, <3>5
  <2>3. QED
    BY <2>1, <2>2
<1>4. Follows(g)
  <2> HIDE DEF g
  <2>1. DOMAIN g = 1 .. MAX_PID /\ g = [k \in 1 .. MAX_PID |-> g[k]]
    BY DEF g
  <2>2. QED
    BY <1>3, <2>1
<1> DEFINE w == Walk(head, next)
<1>5. w = CHOOSE x : Follows(x)
  BY DEF Walk
<1> HIDE DEF Follows, g, w
<1>6. Follows(w)
  BY <1>4, <1>5
<1>7. \A k \in 1 .. MAX_PID :
         w[k] = IF k = 1 THEN head
                ELSE IF w[k - 1] = FREE_PCB_PID THEN FREE_PCB_PID
                ELSE next[w[k - 1]]
  BY <1>6 DEF Follows
<1>8. \A k \in 1 .. MAX_PID : w[k] = g[k]
  <2>1. SUFFICES ASSUME NEW k \in 1 .. MAX_PID, w[k] # g[k] PROVE FALSE
    OBVIOUS
  <2> DEFINE S == {j \in Nat : j \in 1 .. MAX_PID /\ w[j] # g[j]}
  <2>2. S # {} /\ S \in SUBSET Nat
    BY <2>1
  <2>3. PICK m \in S : \A j \in S : m <= j
    BY <2>2, NatMin
  <2>4. m \in 1 .. MAX_PID /\ w[m] # g[m] /\ m # 1
    BY <1>3, <1>7, <2>3
  <2>5. m - 1 \in 1 .. MAX_PID /\ m - 1 < m /\ m - 1 \in Nat
    BY <1>1, <2>4
  <2>6. w[m - 1] = g[m - 1]
    BY <2>3, <2>5
  <2>7. QED
    BY <1>3, <1>7, <2>4, <2>6
<1>9. {j \in 1 .. MAX_PID : w[j] # FREE_PCB_PID} = 1 .. n
  BY <1>1, <1>2, <1>8
<1>10. Cardinality({j \in 1 .. MAX_PID : w[j] # FREE_PCB_PID}) = n
  <2>1. Cardinality(1 .. n) = n
    BY <1>1, PlacesCount
  <2>2. QED
    BY <1>9, <2>1, Zenon
<1>11. Chain(head, next) = [k \in 1 .. n |-> w[k]]
  BY <1>10 DEF Chain, w
<1>12. \A k \in 1 .. n : w[k] = s[k]
  BY <1>1, <1>2, <1>8
<1>13. s = [k \in 1 .. n |-> s[k]]
  OBVIOUS
<1>14. QED
  BY <1>11, <1>12, <1>13

-----------------------------------------------------------------------------
(* The loops are functions of the number of turns; they exist. *)
LEMMA LoadAllTurns ==
  ASSUME NEW st, NEW pids, Len(pids) \in Nat
  PROVE  \E after :
           /\ after[0] = st
           /\ \A k \in 1 .. Len(pids) : after[k] = sched_load(after[k - 1], pids[k])
           /\ LoadAll(st, pids) = after[Len(pids)]
<1> DEFINE Turns(g, n) == g = [k \in 0 .. n |->
                                 IF k = 0 THEN st ELSE sched_load(g[k - 1], pids[k])]
<1>1. \A n \in Nat : \E g : Turns(g, n)
  <2> DEFINE S == {m \in Nat : ~ \E g : Turns(g, m)}
  <2>1. SUFFICES ASSUME S # {} PROVE FALSE
    OBVIOUS
  <2>2. PICK m \in S : \A j \in S : m <= j
    <3> S \in SUBSET Nat
      OBVIOUS
    <3> HIDE DEF S
    <3> QED BY <2>1, NatMin
  <2>3. CASE m = 0
    <3> DEFINE g == [k \in 0 .. 0 |-> st]
    <3>1. Turns(g, 0)
      OBVIOUS
    <3>2. QED
      BY <2>2, <2>3, <3>1
  <2>4. CASE m # 0
    <3>1. m - 1 \in Nat /\ m \in Nat /\ ~ (m <= m - 1)
      BY <2>2, <2>4
    <3>2. PICK g : Turns(g, m - 1)
      BY <2>2, <3>1
    <3> DEFINE h == [k \in 0 .. m |-> IF k = m THEN sched_load(g[m - 1], pids[m]) ELSE g[k]]
    <3>3. \A k \in 0 .. m - 1 : h[k] = g[k]
      BY <3>1
    <3>4. \A k \in 0 .. m - 1 : g[k] = IF k = 0 THEN st ELSE sched_load(g[k - 1], pids[k])
      BY <3>2, Zenon
    <3>5. \A k \in 0 .. m : h[k] = IF k = 0 THEN st ELSE sched_load(h[k - 1], pids[k])
      <4> SUFFICES ASSUME NEW k \in 0 .. m
                   PROVE  h[k] = IF k = 0 THEN st ELSE sched_load(h[k - 1], pids[k])
        OBVIOUS
      <4>1. CASE k = m
        BY <2>4, <3>1, <3>3, <4>1
      <4>2. CASE k # m
        <5>1. k \in 0 .. m - 1 /\ (k # 0 => k - 1 \in 0 .. m - 1)
          BY <3>1, <4>2
        <5>2. QED
          BY <3>3, <3>4, <5>1
      <4>3. QED
        BY <4>1, <4>2
    <3>6. h = [k \in 0 .. m |-> h[k]]
      OBVIOUS
    <3> HIDE DEF h
    <3>7. Turns(h, m)
      BY <3>5, <3>6
    <3>8. QED
      BY <2>2, <3>7
  <2>5. QED
    BY <2>3, <2>4
<1> DEFINE after == CHOOSE g : Turns(g, Len(pids))
<1>2. LoadAll(st, pids) = after[Len(pids)]
  BY DEF LoadAll
<1>3. Turns(after, Len(pids))
  <2> HIDE DEF Turns
  <2> QED BY <1>1
<1> HIDE DEF after
<1>4. \A k \in 0 .. Len(pids) :
         after[k] = IF k = 0 THEN st ELSE sched_load(after[k - 1], pids[k])
  BY <1>3, Zenon
<1>5. after[0] = st /\ \A k \in 1 .. Len(pids) : after[k] = sched_load(after[k - 1], pids[k])
  BY <1>4
<1>6. QED
  BY <1>2, <1>5

LEMMA WakeAllTurns ==
  ASSUME NEW st, NEW q, NEW line, line = WaitChain(st.processes, st.queue[q]),
         Len(line) \in Nat
  PROVE  \E after :
           /\ after[0] = st
           /\ \A k \in 1 .. Len(line) : after[k] = loader_unqueue(after[k - 1], q)
           /\ wake_all(st, q) = after[Len(line)]
<1> DEFINE Turns(g, n) == g = [k \in 0 .. n |->
                                 IF k = 0 THEN st ELSE loader_unqueue(g[k - 1], q)]
<1>1. \A n \in Nat : \E g : Turns(g, n)
  <2> DEFINE S == {m \in Nat : ~ \E g : Turns(g, m)}
  <2>1. SUFFICES ASSUME S # {} PROVE FALSE
    OBVIOUS
  <2>2. PICK m \in S : \A j \in S : m <= j
    <3> S \in SUBSET Nat
      OBVIOUS
    <3> HIDE DEF S
    <3> QED BY <2>1, NatMin
  <2>3. CASE m = 0
    <3> DEFINE g == [k \in 0 .. 0 |-> st]
    <3>1. Turns(g, 0)
      OBVIOUS
    <3>2. QED
      BY <2>2, <2>3, <3>1
  <2>4. CASE m # 0
    <3>1. m - 1 \in Nat /\ m \in Nat /\ ~ (m <= m - 1)
      BY <2>2, <2>4
    <3>2. PICK g : Turns(g, m - 1)
      BY <2>2, <3>1
    <3> DEFINE h == [k \in 0 .. m |-> IF k = m THEN loader_unqueue(g[m - 1], q) ELSE g[k]]
    <3>3. \A k \in 0 .. m - 1 : h[k] = g[k]
      BY <3>1
    <3>4. \A k \in 0 .. m - 1 : g[k] = IF k = 0 THEN st ELSE loader_unqueue(g[k - 1], q)
      BY <3>2, Zenon
    <3>5. \A k \in 0 .. m : h[k] = IF k = 0 THEN st ELSE loader_unqueue(h[k - 1], q)
      <4> SUFFICES ASSUME NEW k \in 0 .. m
                   PROVE  h[k] = IF k = 0 THEN st ELSE loader_unqueue(h[k - 1], q)
        OBVIOUS
      <4>1. CASE k = m
        BY <2>4, <3>1, <3>3, <4>1
      <4>2. CASE k # m
        <5>1. k \in 0 .. m - 1 /\ (k # 0 => k - 1 \in 0 .. m - 1)
          BY <3>1, <4>2
        <5>2. QED
          BY <3>3, <3>4, <5>1
      <4>3. QED
        BY <4>1, <4>2
    <3>6. h = [k \in 0 .. m |-> h[k]]
      OBVIOUS
    <3> HIDE DEF h
    <3>7. Turns(h, m)
      BY <3>5, <3>6
    <3>8. QED
      BY <2>2, <3>7
  <2>5. QED
    BY <2>3, <2>4
<1> DEFINE after == CHOOSE g : Turns(g, Len(line))
<1>2. wake_all(st, q) = after[Len(line)]
  BY DEF wake_all
<1>3. Turns(after, Len(line))
  <2> HIDE DEF Turns
  <2> QED BY <1>1
<1> HIDE DEF after
<1>4. \A k \in 0 .. Len(line) :
         after[k] = IF k = 0 THEN st ELSE loader_unqueue(after[k - 1], q)
  BY <1>3, Zenon
<1>5. after[0] = st /\ \A k \in 1 .. Len(line) : after[k] = loader_unqueue(after[k - 1], q)
  BY <1>4
<1>6. QED
  BY <1>2, <1>5

LEMMA WakeEveryTurns ==
  ASSUME NEW st, NEW qs, Len(qs) \in Nat
  PROVE  \E after :
           /\ after[0] = st
           /\ \A k \in 1 .. Len(qs) : after[k] = wake_all(after[k - 1], qs[k])
           /\ wake_every(st, qs) = after[Len(qs)]
<1> DEFINE Turns(g, n) == g = [k \in 0 .. n |->
                                 IF k = 0 THEN st ELSE wake_all(g[k - 1], qs[k])]
<1>1. \A n \in Nat : \E g : Turns(g, n)
  <2> DEFINE S == {m \in Nat : ~ \E g : Turns(g, m)}
  <2>1. SUFFICES ASSUME S # {} PROVE FALSE
    OBVIOUS
  <2>2. PICK m \in S : \A j \in S : m <= j
    <3> S \in SUBSET Nat
      OBVIOUS
    <3> HIDE DEF S
    <3> QED BY <2>1, NatMin
  <2>3. CASE m = 0
    <3> DEFINE g == [k \in 0 .. 0 |-> st]
    <3>1. Turns(g, 0)
      OBVIOUS
    <3>2. QED
      BY <2>2, <2>3, <3>1
  <2>4. CASE m # 0
    <3>1. m - 1 \in Nat /\ m \in Nat /\ ~ (m <= m - 1)
      BY <2>2, <2>4
    <3>2. PICK g : Turns(g, m - 1)
      BY <2>2, <3>1
    <3> DEFINE h == [k \in 0 .. m |-> IF k = m THEN wake_all(g[m - 1], qs[m]) ELSE g[k]]
    <3>3. \A k \in 0 .. m - 1 : h[k] = g[k]
      BY <3>1
    <3>4. \A k \in 0 .. m - 1 : g[k] = IF k = 0 THEN st ELSE wake_all(g[k - 1], qs[k])
      BY <3>2, Zenon
    <3>5. \A k \in 0 .. m : h[k] = IF k = 0 THEN st ELSE wake_all(h[k - 1], qs[k])
      <4> SUFFICES ASSUME NEW k \in 0 .. m
                   PROVE  h[k] = IF k = 0 THEN st ELSE wake_all(h[k - 1], qs[k])
        OBVIOUS
      <4>1. CASE k = m
        BY <2>4, <3>1, <3>3, <4>1
      <4>2. CASE k # m
        <5>1. k \in 0 .. m - 1 /\ (k # 0 => k - 1 \in 0 .. m - 1)
          BY <3>1, <4>2
        <5>2. QED
          BY <3>3, <3>4, <5>1
      <4>3. QED
        BY <4>1, <4>2
    <3>6. h = [k \in 0 .. m |-> h[k]]
      OBVIOUS
    <3> HIDE DEF h
    <3>7. Turns(h, m)
      BY <3>5, <3>6
    <3>8. QED
      BY <2>2, <3>7
  <2>5. QED
    BY <2>3, <2>4
<1> DEFINE after == CHOOSE g : Turns(g, Len(qs))
<1>2. wake_every(st, qs) = after[Len(qs)]
  BY DEF wake_every
<1>3. Turns(after, Len(qs))
  <2> HIDE DEF Turns
  <2> QED BY <1>1
<1> HIDE DEF after
<1>4. \A k \in 0 .. Len(qs) :
         after[k] = IF k = 0 THEN st ELSE wake_all(after[k - 1], qs[k])
  BY <1>3, Zenon
<1>5. after[0] = st /\ \A k \in 1 .. Len(qs) : after[k] = wake_all(after[k - 1], qs[k])
  BY <1>4
<1>6. QED
  BY <1>2, <1>5

-----------------------------------------------------------------------------
Pcb == [id   : Pids \cup {FREE_PCB_PID},
        prev : Pids \cup {FREE_PCB_PID},
        next : Pids \cup {FREE_PCB_PID}]

(* Writing a link of one pcb. *)
NextSet(procs, p, x) == [procs EXCEPT ![p].next = x]
PrevSet(procs, p, x) == [procs EXCEPT ![p].prev = x]

LEMMA LinkSet ==
  ASSUME NEW procs \in [Pids -> Pcb], NEW p \in Pids, NEW x \in Pids \cup {FREE_PCB_PID}
  PROVE  /\ NextSet(procs, p, x) \in [Pids -> Pcb]
         /\ PrevSet(procs, p, x) \in [Pids -> Pcb]
         /\ \A o \in Pids :
              /\ NextSet(procs, p, x)[o].id   = procs[o].id
              /\ NextSet(procs, p, x)[o].prev = procs[o].prev
              /\ NextSet(procs, p, x)[o].next = IF o = p THEN x ELSE procs[o].next
              /\ PrevSet(procs, p, x)[o].id   = procs[o].id
              /\ PrevSet(procs, p, x)[o].next = procs[o].next
              /\ PrevSet(procs, p, x)[o].prev = IF o = p THEN x ELSE procs[o].prev
  BY DEF Pcb, NextSet, PrevSet

(* The pids of line are linked both ways, from head on. *)
InLine(procs, head, line) ==
  /\ Visits(head, [p \in Pids |-> procs[p].next], line)
  /\ \A k \in 1 .. Len(line) :
       procs[line[k]].prev = IF k = 1 THEN FREE_PCB_PID ELSE line[k - 1]

Waiting(lines) ==
  {p \in Pids : \E q \in Queues : \E k \in 1 .. Len(lines[q]) : lines[q][k] = p}

(* The wait queues hold lines: whoever waits is in one place of one line,  *)
(* not on the circle of the scheduler, and who does not wait is linked to  *)
(* nobody.                                                                 *)
WaitLines(st, lines) ==
  /\ SchedType(st.sched) /\ OneCircle(st.sched)
  /\ st.processes \in [Pids -> Pcb]
  /\ st.queue \in [Queues -> Pids \cup {FREE_QUEUE}]
  /\ lines \in [Queues -> Seq(Pids)]
  /\ \A q \in Queues : InLine(st.processes, st.queue[q], lines[q])
  /\ \A q, r \in Queues : \A j \in 1 .. Len(lines[q]), k \in 1 .. Len(lines[r]) :
        lines[q][j] = lines[r][k] => q = r
  /\ \A p \in Waiting(lines) : p \notin LoadedPids(st.sched.tasks)
  /\ \A p \in Pids \ Waiting(lines) :
        \/ p = IDLE_PID \/ st.processes[p].id = FREE_PCB_PID
        \/ st.processes[p].prev = FREE_PCB_PID /\ st.processes[p].next = FREE_PCB_PID

(* What a wake changes: who waited may be on the circle, nobody is lost,   *)
(* and the processor stays where it is.                                    *)
Wakes(st, lines, t, rest) ==
  /\ WaitLines(t, rest)
  /\ LoadedPids(t.sched.tasks) \cup Waiting(rest)
       = LoadedPids(st.sched.tasks) \cup Waiting(lines)
  /\ SchedPid(t.sched) = SchedPid(st.sched)
  /\ \A p \in Pids : t.processes[p].id = st.processes[p].id

(* loader_unqueue takes the first in line. *)
LEMMA UnqueueKeeps ==
  ASSUME NEW st, NEW lines, WaitLines(st, lines),
         NEW q \in Queues, Len(lines[q]) # 0,
         NEW t, t = loader_unqueue(st, q)
  PROVE  \E rest : /\ Wakes(st, lines, t, rest)
                   /\ rest = [lines EXCEPT ![q] = Tail(lines[q])]
                   /\ Len(rest[q]) = Len(lines[q]) - 1
<1> DEFINE rest  == [lines EXCEPT ![q] = Tail(lines[q])]
           line  == lines[q]
           n     == Len(line)
           procs == st.processes
           head  == line[1]
           next  == IF n = 1 THEN FREE_PCB_PID ELSE line[2]
<1>1. /\ line \in Seq(Pids) /\ n \in Nat /\ n > 0 /\ 1 \in 1 .. n /\ head \in Pids
      /\ procs \in [Pids -> Pcb] /\ lines \in [Queues -> Seq(Pids)]
      /\ st.queue \in [Queues -> Pids \cup {FREE_QUEUE}]
      /\ \A k \in 1 .. n : line[k] \in Pids /\ line[k] # FREE_PCB_PID
      /\ n # 1 => 2 \in 1 .. n
  <2>1. line \in Seq(Pids) /\ n \in Nat /\ n > 0
    BY DEF WaitLines
  <2>2. FREE_PCB_PID \notin Pids
    BY SchedAssumption DEF Pids, FREE_PCB_PID
  <2>3. \A k \in 1 .. n : line[k] \in Pids
    BY <2>1
  <2>4. /\ st.processes \in [Pids -> Pcb] /\ lines \in [Queues -> Seq(Pids)]
        /\ st.queue \in [Queues -> Pids \cup {FREE_QUEUE}]
    BY DEF WaitLines
  <2> HIDE DEF line, n
  <2>5. 1 \in 1 .. n /\ (n # 1 => 2 \in 1 .. n)
    BY <2>1
  <2>6. QED
    BY <2>1, <2>2, <2>5, <2>3, <2>4
<1>2. /\ Visits(st.queue[q], [p \in Pids |-> procs[p].next], line)
      /\ \A k \in 1 .. n : procs[line[k]].prev = IF k = 1 THEN FREE_PCB_PID ELSE line[k - 1]
  BY DEF WaitLines, InLine
<1> HIDE DEF line, n, procs
<1>3. /\ st.queue[q] = head
      /\ \A k \in 1 .. n : procs[line[k]].next = IF k = n THEN FREE_PCB_PID ELSE line[k + 1]
      /\ \A j, k \in 1 .. n : line[j] = line[k] => j = k
  <2>0. /\ st.queue[q] = IF n = 0 THEN FREE_PCB_PID ELSE line[1]
        /\ \A k \in 1 .. n : [p \in Pids |-> procs[p].next][line[k]]
                             = IF k = n THEN FREE_PCB_PID ELSE line[k + 1]
        /\ \A j, k \in 1 .. n : line[j] = line[k] => j = k
    BY <1>2 DEF Visits, n
  <2>1. ASSUME NEW k \in 1 .. n
        PROVE  procs[line[k]].next = IF k = n THEN FREE_PCB_PID ELSE line[k + 1]
    <3>1. line[k] \in Pids
      BY <1>1
    <3>2. [p \in Pids |-> procs[p].next][line[k]] = procs[line[k]].next
      BY <3>1
    <3>3. QED
      BY <2>0, <3>2
  <2>2. st.queue[q] = head
    BY <1>1, <2>0
  <2>3. QED
    BY <2>0, <2>1, <2>2
<1>4. procs[head].next = next /\ procs[head].prev = FREE_PCB_PID
  BY <1>1, <1>2, <1>3
<1>5. next = FREE_PCB_PID <=> n = 1
  BY <1>1
<1>6. n # 1 => next \in Pids /\ next # head
  BY <1>1, <1>3
<1> HIDE DEF head, next
<1>7. /\ t.sched = sched_load(st.sched, head)
      /\ t.processes = IF next = FREE_PCB_PID THEN procs
                       ELSE [procs EXCEPT ![next].prev = FREE_PCB_PID,
                                          ![head].next = FREE_PCB_PID]
      /\ t.queue = [st.queue EXCEPT ![q] = IF next = FREE_PCB_PID THEN FREE_QUEUE ELSE next]
  BY <1>3, <1>4 DEF loader_unqueue, procs
<1>8. /\ t.processes \in [Pids -> Pcb]
      /\ \A p \in Pids :
           /\ t.processes[p].id = procs[p].id
           /\ t.processes[p].next = IF p = head THEN FREE_PCB_PID ELSE procs[p].next
           /\ t.processes[p].prev = IF n # 1 /\ p = next THEN FREE_PCB_PID ELSE procs[p].prev
  <2>1. CASE n = 1
    BY <1>1, <1>4, <1>5, <1>7, <2>1
  <2>2. CASE n # 1
    <3> DEFINE one == PrevSet(procs, next, FREE_PCB_PID)
    <3>0. /\ procs \in [Pids -> Pcb] /\ next \in Pids /\ head \in Pids
          /\ FREE_PCB_PID \in Pids \cup {FREE_PCB_PID}
      BY <1>1, <1>6, <2>2
    <3>1. /\ one \in [Pids -> Pcb]
          /\ \A p \in Pids : /\ one[p].id = procs[p].id /\ one[p].next = procs[p].next
                             /\ one[p].prev = IF p = next THEN FREE_PCB_PID ELSE procs[p].prev
      BY <3>0, LinkSet
    <3>2. t.processes = NextSet(one, head, FREE_PCB_PID)
      BY <1>5, <1>7, <2>2 DEF NextSet, PrevSet
    <3> HIDE DEF one
    <3>3. /\ t.processes \in [Pids -> Pcb]
          /\ \A p \in Pids :
               /\ t.processes[p].id = one[p].id
               /\ t.processes[p].prev = one[p].prev
               /\ t.processes[p].next = IF p = head THEN FREE_PCB_PID ELSE one[p].next
      BY <3>0, <3>1, <3>2, LinkSet
    <3>4. QED
      BY <2>2, <3>1, <3>3
  <2>3. QED
    BY <2>1, <2>2
<1>9. /\ rest \in [Queues -> Seq(Pids)] /\ Len(rest[q]) = n - 1
      /\ \A k \in 1 .. n - 1 : rest[q][k] = line[k + 1]
      /\ \A r \in Queues \ {q} : rest[r] = lines[r]
  <2>1. /\ Tail(line) \in Seq(Pids) /\ Len(Tail(line)) = n - 1
        /\ \A k \in 1 .. n - 1 : Tail(line)[k] = line[k + 1]
    <3>1. line # <<>>
      BY <1>1 DEF n
    <3>2. QED
      BY <1>1, <3>1, HeadTailProperties DEF n
  <2>2. QED
    BY <1>1, <2>1 DEF line
<1> HIDE DEF rest
<1>10. /\ \A r \in Queues : \A k \in 1 .. Len(lines[r]) : lines[r][k] \in Pids
       /\ \A r \in Queues \ {q} : \A j \in 1 .. Len(lines[r]), k \in 1 .. n :
             lines[r][j] # line[k]
  <2>1. \A r \in Queues : lines[r] \in Seq(Pids)
    BY <1>1
  <2>2. \A r \in Queues : \A k \in 1 .. Len(lines[r]) : lines[r][k] \in Pids
    BY <2>1
  <2>3. \A r \in Queues : \A j \in 1 .. Len(lines[r]), k \in 1 .. n :
           lines[r][j] = line[k] => r = q
    BY DEF WaitLines, line, n
  <2>4. QED
    BY <2>2, <2>3
<1>11. /\ head \in Waiting(lines) /\ head \notin Waiting(rest)
       /\ Waiting(rest) = Waiting(lines) \ {head}
  <2>1. head \in Waiting(lines)
    BY <1>1 DEF Waiting, head, line, n
  <2>2. ASSUME NEW r \in Queues, NEW k \in 1 .. Len(rest[r])
        PROVE  /\ rest[r][k] # head /\ rest[r][k] \in Pids
               /\ \E j \in 1 .. Len(lines[r]) : lines[r][j] = rest[r][k]
    <3>1. CASE r = q
      <4>1. k + 1 \in 1 .. n /\ k + 1 # 1 /\ rest[r][k] = line[k + 1]
        BY <1>1, <1>9, <2>2, <3>1
      <4>2. QED
        BY <1>1, <1>3, <3>1, <4>1 DEF head, line, n
    <3>2. CASE r # q
      <4>1. rest[r] = lines[r] /\ r \in Queues \ {q}
        BY <1>9, <3>2
      <4>2. QED
        BY <1>1, <1>10, <2>2, <4>1 DEF head
    <3>3. QED
      BY <3>1, <3>2
  <2>3. ASSUME NEW r \in Queues, NEW k \in 1 .. Len(lines[r]), lines[r][k] # head
        PROVE  \E j \in 1 .. Len(rest[r]) : rest[r][j] = lines[r][k]
    <3>1. CASE r = q
      <4>1. k \in 1 .. n /\ k # 1 /\ lines[r][k] = line[k]
        BY <2>3, <3>1 DEF head, line, n
      <4>2. k - 1 \in 1 .. n - 1 /\ (k - 1) + 1 = k
        BY <1>1, <4>1
      <4>3. QED
        BY <1>9, <3>1, <4>1, <4>2
    <3>2. CASE r # q
      BY <1>9, <2>3, <3>2
    <3>3. QED
      BY <3>1, <3>2
  <2>4. ASSUME NEW p \in Waiting(rest)
        PROVE  p \in Waiting(lines) /\ p # head
    BY <2>2 DEF Waiting
  <2>5. ASSUME NEW p \in Waiting(lines), p # head
        PROVE  p \in Waiting(rest)
    <3>1. p \in Pids /\ \E r \in Queues : \E k \in 1 .. Len(lines[r]) : lines[r][k] = p
      BY <2>5, Zenon DEF Waiting
    <3>2. PICK r \in Queues : \E k \in 1 .. Len(lines[r]) : lines[r][k] = p
      BY <3>1
    <3>3. PICK k \in 1 .. Len(lines[r]) : lines[r][k] = p
      BY <3>2
    <3>4. PICK j \in 1 .. Len(rest[r]) : rest[r][j] = p
      BY <2>3, <2>5, <3>3
    <3>5. QED
      BY <3>1, <3>4 DEF Waiting
  <2>6. head \notin Waiting(rest)
    BY <2>4
  <2>7. QED
    BY <2>1, <2>4, <2>5, <2>6
<1>12. /\ SchedType(t.sched) /\ OneCircle(t.sched)
       /\ LoadedPids(t.sched.tasks) = LoadedPids(st.sched.tasks) \cup {head}
       /\ SchedPid(t.sched) = SchedPid(st.sched)
  <2>1. SchedType(st.sched) /\ OneCircle(st.sched) /\ head \notin LoadedPids(st.sched.tasks)
    BY <1>11 DEF WaitLines
  <2>2. HasSlot(st.sched.tasks)
    BY <1>1, <2>1, SlotWaits
  <2>3. t.sched = sched_load(st.sched, head) /\ head \in Pids
    BY <1>1, <1>7
  <2>4. QED
    BY <2>1, <2>2, <2>3, LoadKeeps
<1>13. t.queue \in [Queues -> Pids \cup {FREE_QUEUE}] /\ t.queue[q] = next
       /\ \A r \in Queues \ {q} : t.queue[r] = st.queue[r]
  BY <1>1, <1>5, <1>6, <1>7 DEF FREE_QUEUE, FREE_PCB_PID
<1>14. ASSUME NEW r \in Queues
       PROVE  InLine(t.processes, t.queue[r], rest[r])
  <2> DEFINE links == [p \in Pids |-> t.processes[p].next]
  <2>1. CASE r = q
    <3>1. /\ Len(rest[r]) = n - 1 /\ n - 1 \in Nat
          /\ \A k \in 1 .. n - 1 : /\ rest[r][k] = line[k + 1] /\ k + 1 \in 1 .. n
                                   /\ rest[r][k] \in Pids /\ rest[r][k] # head
      <4>1. \A k \in 1 .. n - 1 : k + 1 \in 1 .. n /\ k + 1 # 1
        BY <1>1
      <4>2. \A k \in 1 .. n - 1 : rest[r][k] = line[k + 1]
        BY <1>9, <2>1
      <4>3. \A k \in 1 .. n - 1 : line[k + 1] \in Pids /\ line[k + 1] # line[1]
        BY <1>1, <1>3, <4>1
      <4>4. Len(rest[r]) = n - 1 /\ n - 1 \in Nat
        BY <1>1, <1>9, <2>1
      <4>5. QED
        BY <4>1, <4>2, <4>3, <4>4 DEF head
    <3>2. t.queue[r] = IF Len(rest[r]) = 0 THEN FREE_PCB_PID ELSE rest[r][1]
      BY <1>1, <1>13, <2>1, <3>1 DEF next
    <3>3. ASSUME NEW k \in 1 .. n - 1
          PROVE  links[rest[r][k]] = IF k = n - 1 THEN FREE_PCB_PID ELSE rest[r][k + 1]
      <4>1. links[rest[r][k]] = procs[line[k + 1]].next
        BY <1>8, <3>1
      <4>2. procs[line[k + 1]].next = IF k + 1 = n THEN FREE_PCB_PID ELSE line[(k + 1) + 1]
        BY <1>3, <3>1
      <4>3. k # n - 1 => k + 1 \in 1 .. n - 1
        BY <1>1
      <4>4. k # n - 1 => rest[r][k + 1] = line[(k + 1) + 1]
        BY <3>1, <4>3
      <4>5. k + 1 = n <=> k = n - 1
        BY <1>1
      <4>6. QED
        BY <4>1, <4>2, <4>4, <4>5
    <3>4. \A j, k \in 1 .. n - 1 : rest[r][j] = rest[r][k] => j = k
      <4> SUFFICES ASSUME NEW j \in 1 .. n - 1, NEW k \in 1 .. n - 1, rest[r][j] = rest[r][k]
                   PROVE  j = k
        OBVIOUS
      <4>1. j + 1 = k + 1
        BY <1>3, <3>1
      <4>2. QED
        BY <4>1
    <3>5. ASSUME NEW k \in 1 .. n - 1
          PROVE  t.processes[rest[r][k]].prev = IF k = 1 THEN FREE_PCB_PID ELSE rest[r][k - 1]
      <4>1. CASE k = 1
        <5>1. n # 1 /\ rest[r][k] = next
          BY <1>1, <3>1, <4>1 DEF next
        <5>2. QED
          BY <1>8, <3>1, <4>1, <5>1
      <4>2. CASE k # 1
        <5>1. k - 1 \in 1 .. n - 1 /\ (k - 1) + 1 = k /\ (k + 1) - 1 = k /\ 2 \in 1 .. n
              /\ k + 1 # 1 /\ k + 1 # 2 /\ k + 1 \in 1 .. n
          BY <1>1, <4>2
        <5>2. rest[r][k] # next
          BY <1>1, <1>3, <3>1, <5>1 DEF next
        <5>3. t.processes[rest[r][k]].prev = procs[line[k + 1]].prev
          BY <1>8, <3>1, <5>2
        <5>4. procs[line[k + 1]].prev = line[k]
          BY <1>2, <5>1
        <5>5. rest[r][k - 1] = line[k]
          BY <3>1, <5>1
        <5>6. QED
          BY <4>2, <5>3, <5>4, <5>5
      <4>3. QED
        BY <4>1, <4>2
    <3> HIDE DEF links
    <3>6. Visits(t.queue[r], links, rest[r])
      BY <3>1, <3>2, <3>3, <3>4 DEF Visits
    <3>7. QED
      BY <3>1, <3>5, <3>6 DEF InLine, links
  <2>2. CASE r # q
    <3>1. InLine(procs, st.queue[r], lines[r])
      BY DEF WaitLines, procs
    <3>2. \A k \in 1 .. Len(lines[r]) :
             lines[r][k] \in Pids /\ lines[r][k] # head /\ (n # 1 => lines[r][k] # next)
      <4>1. n # 1 => 2 \in 1 .. n
        BY <1>1
      <4>2. QED
        BY <1>1, <1>10, <2>2, <4>1 DEF head, next
    <3>3. \A k \in 1 .. Len(lines[r]) :
             /\ t.processes[lines[r][k]].next = procs[lines[r][k]].next
             /\ t.processes[lines[r][k]].prev = procs[lines[r][k]].prev
      BY <1>8, <3>2
    <3>4. rest[r] = lines[r] /\ t.queue[r] = st.queue[r]
      BY <1>9, <1>13, <2>2
    <3> DEFINE before == [p \in Pids |-> procs[p].next]
    <3>5. \A k \in 1 .. Len(lines[r]) : links[lines[r][k]] = before[lines[r][k]]
      BY <3>2, <3>3
    <3> HIDE DEF links, before
    <3>6. Visits(st.queue[r], before, lines[r])
      BY <3>1 DEF InLine, before
    <3>7. Visits(t.queue[r], links, rest[r])
      <4>1. \A k \in 1 .. Len(lines[r]) :
               links[lines[r][k]] = IF k = Len(lines[r]) THEN FREE_PCB_PID ELSE lines[r][k + 1]
        BY <3>5, <3>6 DEF Visits
      <4>2. Visits(st.queue[r], links, lines[r])
        BY <3>6, <4>1 DEF Visits
      <4>3. QED
        BY <3>4, <4>2
    <3>8. \A k \in 1 .. Len(rest[r]) :
            t.processes[rest[r][k]].prev = IF k = 1 THEN FREE_PCB_PID ELSE rest[r][k - 1]
      BY <3>1, <3>3, <3>4 DEF InLine
    <3>9. QED
      BY <3>8, <3>7 DEF InLine, links
  <2>3. QED
    BY <2>1, <2>2
<1>15. \A r1, r2 \in Queues : \A j \in 1 .. Len(rest[r1]), k \in 1 .. Len(rest[r2]) :
          rest[r1][j] = rest[r2][k] => r1 = r2
  <2>1. ASSUME NEW r \in Queues, NEW k \in 1 .. Len(rest[r])
        PROVE  \E j \in 1 .. Len(lines[r]) : lines[r][j] = rest[r][k]
    <3>1. CASE r = q
      <4>1. k + 1 \in 1 .. n /\ rest[r][k] = line[k + 1]
        BY <1>1, <1>9, <2>1, <3>1
      <4>2. QED
        BY <3>1, <4>1 DEF line, n
    <3>2. CASE r # q
      BY <1>9, <2>1, <3>2
    <3>3. QED
      BY <3>1, <3>2
  <2>2. QED
    BY <2>1 DEF WaitLines
<1>16. \A p \in Pids \ Waiting(rest) :
         \/ p = IDLE_PID \/ t.processes[p].id = FREE_PCB_PID
         \/ t.processes[p].prev = FREE_PCB_PID /\ t.processes[p].next = FREE_PCB_PID
  <2> SUFFICES ASSUME NEW p \in Pids \ Waiting(rest)
               PROVE  \/ p = IDLE_PID \/ t.processes[p].id = FREE_PCB_PID
                      \/ t.processes[p].prev = FREE_PCB_PID /\ t.processes[p].next = FREE_PCB_PID
    OBVIOUS
  <2>1. CASE p = head
    <3>1. t.processes[p].next = FREE_PCB_PID
      BY <1>8, <2>1
    <3>2. t.processes[p].prev = FREE_PCB_PID
      BY <1>4, <1>6, <1>8, <2>1
    <3>3. QED
      BY <3>1, <3>2
  <2>2. CASE p # head
    <3>1. p \notin Waiting(lines)
      BY <1>11, <2>2
    <3>2. \/ p = IDLE_PID \/ procs[p].id = FREE_PCB_PID
          \/ procs[p].prev = FREE_PCB_PID /\ procs[p].next = FREE_PCB_PID
      BY <3>1 DEF WaitLines, procs
    <3>3. QED
      BY <1>8, <2>2, <3>2
  <2>3. QED
    BY <2>1, <2>2
<1>17. WaitLines(t, rest)
  <2>1. \A p \in Waiting(rest) : p \notin LoadedPids(t.sched.tasks)
    BY <1>11, <1>12 DEF WaitLines
  <2>2. QED
    BY <1>8, <1>9, <1>12, <1>13, <1>14, <1>15, <1>16, <2>1 DEF WaitLines
<1>18. LoadedPids(t.sched.tasks) \cup Waiting(rest)
         = LoadedPids(st.sched.tasks) \cup Waiting(lines)
  BY <1>11, <1>12
<1>19. Wakes(st, lines, t, rest)
  BY <1>8, <1>12, <1>17, <1>18 DEF Wakes, procs
<1>20. QED
  BY <1>9, <1>19 DEF n, line, rest

LEMMA WakesOn ==
  ASSUME NEW st, NEW lines, NEW t, NEW rest, NEW u, NEW left,
         Wakes(st, lines, t, rest), Wakes(t, rest, u, left)
  PROVE  Wakes(st, lines, u, left)
  BY DEF Wakes

(* wake_all empties the queue and loses nobody. *)
LEMMA WakeAllKeeps ==
  ASSUME NEW st, NEW lines, WaitLines(st, lines), NEW q \in Queues
  PROVE  \E rest : /\ Wakes(st, lines, wake_all(st, q), rest)
                   /\ rest[q] = <<>>
                   /\ \A r \in Queues \ {q} : rest[r] = lines[r]
<1> DEFINE n == Len(lines[q])
<1>1. WaitChain(st.processes, st.queue[q]) = lines[q] /\ n \in Nat
  <2>1. /\ lines[q] \in Seq(Pids)
        /\ Visits(st.queue[q], [p \in Pids |-> st.processes[p].next], lines[q])
    BY DEF WaitLines, InLine
  <2>2. n \in Nat
    BY <2>1
  <2>3. QED
    BY <2>1, <2>2, ChainIs DEF WaitChain
<1>2. PICK after : /\ after[0] = st
                   /\ \A k \in 1 .. n : after[k] = loader_unqueue(after[k - 1], q)
                   /\ wake_all(st, q) = after[n]
  BY <1>1, WakeAllTurns
<1> HIDE DEF n
<1> DEFINE Woken(k) == \E rest : /\ Wakes(st, lines, after[k], rest)
                                 /\ Len(rest[q]) = n - k
                                 /\ \A r \in Queues \ {q} : rest[r] = lines[r]
<1>3. Woken(0)
  BY <1>1, <1>2 DEF Wakes, n
<1>4. ASSUME NEW k \in 1 .. n, Woken(k - 1)
      PROVE  Woken(k)
  <2>1. PICK rest : /\ Wakes(st, lines, after[k - 1], rest)
                    /\ Len(rest[q]) = n - (k - 1)
                    /\ \A r \in Queues \ {q} : rest[r] = lines[r]
    BY <1>4
  <2>2. WaitLines(after[k - 1], rest) /\ Len(rest[q]) # 0 /\ Len(rest[q]) - 1 = n - k
    BY <1>1, <2>1 DEF Wakes
  <2>3. after[k] = loader_unqueue(after[k - 1], q)
    BY <1>2
  <2>4. PICK left : /\ Wakes(after[k - 1], rest, after[k], left)
                    /\ left = [rest EXCEPT ![q] = Tail(rest[q])]
                    /\ Len(left[q]) = Len(rest[q]) - 1
    BY <2>2, <2>3, UnqueueKeeps
  <2>5. Wakes(st, lines, after[k], left)
    BY <2>1, <2>4, WakesOn
  <2>6. \A r \in Queues \ {q} : left[r] = lines[r]
    <3>1. rest \in [Queues -> Seq(Pids)]
      BY <2>2 DEF WaitLines
    <3>2. QED
      BY <2>1, <2>4, <3>1
  <2>7. QED
    BY <2>2, <2>4, <2>5, <2>6
<1> HIDE DEF Woken
<1>5. Woken(n)
  <2> DEFINE S == {k \in Nat : k <= n /\ ~ Woken(k)}
  <2>1. SUFFICES ASSUME S # {} PROVE FALSE
    BY <1>1
  <2>2. PICK m \in S : \A j \in S : m <= j
    BY <2>1, NatMin
  <2>3. m - 1 \in Nat /\ m - 1 <= n /\ m \in 1 .. n /\ ~ (m <= m - 1)
    BY <1>1, <1>3, <2>2
  <2>4. Woken(m - 1)
    BY <2>2, <2>3
  <2>5. QED
    BY <1>4, <2>2, <2>3, <2>4
<1>6. PICK rest : /\ Wakes(st, lines, after[n], rest)
                  /\ Len(rest[q]) = n - n
                  /\ \A r \in Queues \ {q} : rest[r] = lines[r]
  BY <1>5 DEF Woken
<1>7. rest[q] = <<>>
  <2>1. rest[q] \in Seq(Pids)
    BY <1>6 DEF Wakes, WaitLines
  <2>2. QED
    BY <1>1, <1>6, <2>1, EmptySeq
<1>8. QED
  BY <1>2, <1>6, <1>7

LEMMA WakeEveryKeeps ==
  ASSUME NEW st, NEW lines, WaitLines(st, lines), NEW qs \in Seq(Queues)
  PROVE  \E rest : /\ Wakes(st, lines, wake_every(st, qs), rest)
                   /\ \A r \in Queues :
                        rest[r] = IF \E j \in 1 .. Len(qs) : qs[j] = r THEN <<>> ELSE lines[r]
<1> DEFINE n == Len(qs)
<1>1. n \in Nat /\ \A k \in 1 .. n : qs[k] \in Queues
  OBVIOUS
<1>2. PICK after : /\ after[0] = st
                   /\ \A k \in 1 .. n : after[k] = wake_all(after[k - 1], qs[k])
                   /\ wake_every(st, qs) = after[n]
  BY <1>1, WakeEveryTurns
<1> HIDE DEF n
<1> DEFINE Emptied(rest, k) ==
             \A r \in Queues :
               rest[r] = IF \E j \in 1 .. k : qs[j] = r THEN <<>> ELSE lines[r]
           Woken(k) == \E rest : Wakes(st, lines, after[k], rest) /\ Emptied(rest, k)
<1>3. Woken(0)
  <2>1. Wakes(st, lines, after[0], lines)
    BY <1>2 DEF Wakes
  <2>2. Emptied(lines, 0)
    OBVIOUS
  <2>3. QED
    BY <2>1, <2>2
<1>4. ASSUME NEW k \in 1 .. n, Woken(k - 1)
      PROVE  Woken(k)
  <2>1. PICK rest : Wakes(st, lines, after[k - 1], rest) /\ Emptied(rest, k - 1)
    BY <1>4
  <2>2. WaitLines(after[k - 1], rest) /\ qs[k] \in Queues
    BY <1>1, <2>1 DEF Wakes
  <2>3. after[k] = wake_all(after[k - 1], qs[k])
    BY <1>2
  <2>4. PICK left : /\ Wakes(after[k - 1], rest, after[k], left)
                    /\ left[qs[k]] = <<>>
                    /\ \A r \in Queues \ {qs[k]} : left[r] = rest[r]
    BY <2>2, <2>3, WakeAllKeeps
  <2>5. Wakes(st, lines, after[k], left)
    BY <2>1, <2>4, WakesOn
  <2>6. Emptied(left, k)
    <3>1. \A j : j \in 1 .. k <=> j = k \/ j \in 1 .. k - 1
      BY <1>1
    <3>2. QED
      BY <2>1, <2>4, <3>1
  <2>7. QED
    BY <2>5, <2>6
<1> HIDE DEF Woken
<1>5. Woken(n)
  <2> DEFINE S == {k \in Nat : k <= n /\ ~ Woken(k)}
  <2>1. SUFFICES ASSUME S # {} PROVE FALSE
    BY <1>1
  <2>2. PICK m \in S : \A j \in S : m <= j
    BY <2>1, NatMin
  <2>3. m - 1 \in Nat /\ m - 1 <= n /\ m \in 1 .. n /\ ~ (m <= m - 1)
    BY <1>1, <1>3, <2>2
  <2>4. Woken(m - 1)
    BY <2>2, <2>3
  <2>5. QED
    BY <1>4, <2>2, <2>3, <2>4
<1>6. PICK rest : Wakes(st, lines, after[n], rest) /\ Emptied(rest, n)
  BY <1>5 DEF Woken
<1>7. /\ Wakes(st, lines, wake_every(st, qs), rest)
      /\ \A r \in Queues :
           rest[r] = IF \E j \in 1 .. n : qs[j] = r THEN <<>> ELSE lines[r]
  BY <1>2, <1>6
<1>8. QED
  BY <1>7 DEF n

(* The loop of loader_tick over the sleepers whose time is up. *)
LEMMA LoadAllKeeps ==
  ASSUME NEW s, SchedType(s), OneCircle(s),
         NEW pids \in Seq(Pids), \A j, k \in 1 .. Len(pids) : pids[j] = pids[k] => j = k,
         \A k \in 1 .. Len(pids) : pids[k] \notin LoadedPids(s.tasks),
         NEW t, t = LoadAll(s, pids)
  PROVE  /\ SchedType(t) /\ OneCircle(t) /\ SchedPid(t) = SchedPid(s)
         /\ LoadedPids(t.tasks) = LoadedPids(s.tasks) \cup {pids[k] : k \in 1 .. Len(pids)}
<1> DEFINE n == Len(pids)
<1>1. n \in Nat /\ \A k \in 1 .. n : pids[k] \in Pids
  OBVIOUS
<1>2. PICK after : /\ after[0] = s
                   /\ \A k \in 1 .. n : after[k] = sched_load(after[k - 1], pids[k])
                   /\ t = after[n]
  BY <1>1, LoadAllTurns
<1>3. \A j, k \in 1 .. n : pids[j] = pids[k] => j = k
  OBVIOUS
<1>4. \A k \in 1 .. n : pids[k] \notin LoadedPids(s.tasks)
  OBVIOUS
<1> HIDE DEF n
<1> DEFINE Woken(k) ==
             /\ SchedType(after[k]) /\ OneCircle(after[k]) /\ SchedPid(after[k]) = SchedPid(s)
             /\ LoadedPids(after[k].tasks) = LoadedPids(s.tasks) \cup {pids[j] : j \in 1 .. k}
<1>5. Woken(0)
  <2>1. {pids[j] : j \in 1 .. 0} = {}
    OBVIOUS
  <2>2. QED
    BY <1>2, <2>1
<1>6. ASSUME NEW k \in 1 .. n, Woken(k - 1)
      PROVE  Woken(k)
  <2>1. pids[k] \notin LoadedPids(after[k - 1].tasks)
    <3>1. \A j \in 1 .. k - 1 : j \in 1 .. n /\ j # k
      BY <1>1
    <3>2. QED
      BY <1>3, <1>4, <1>6, <3>1
  <2>2. pids[k] \in Pids /\ after[k] = sched_load(after[k - 1], pids[k])
    BY <1>1, <1>2
  <2>3. HasSlot(after[k - 1].tasks)
    BY <1>6, <2>1, <2>2, SlotWaits
  <2>4. /\ SchedType(after[k]) /\ OneCircle(after[k])
        /\ SchedPid(after[k]) = SchedPid(after[k - 1])
        /\ LoadedPids(after[k].tasks) = LoadedPids(after[k - 1].tasks) \cup {pids[k]}
    <3>1. SchedType(after[k - 1]) /\ OneCircle(after[k - 1])
      BY <1>6
    <3> DEFINE a  == after[k - 1]
               b  == after[k]
               pd == pids[k]
    <3>2. /\ SchedType(a) /\ OneCircle(a) /\ HasSlot(a.tasks)
          /\ pd \in Pids /\ pd \notin LoadedPids(a.tasks) /\ b = sched_load(a, pd)
      BY <2>1, <2>2, <2>3, <3>1
    <3> HIDE DEF a, b, pd
    <3>3. /\ SchedType(b) /\ OneCircle(b) /\ SchedPid(b) = SchedPid(a)
          /\ LoadedPids(b.tasks) = LoadedPids(a.tasks) \cup {pd}
      BY <3>2, LoadKeeps
    <3>4. QED
      BY <3>3 DEF a, b, pd
  <2>5. {pids[j] : j \in 1 .. k} = {pids[j] : j \in 1 .. k - 1} \cup {pids[k]}
    <3>1. 1 .. k = (1 .. k - 1) \cup {k}
      BY <1>1
    <3>2. QED
      BY <3>1
  <2>6. QED
    BY <1>6, <2>4, <2>5
<1> HIDE DEF Woken
<1>7. Woken(n)
  <2> DEFINE S == {k \in Nat : k <= n /\ ~ Woken(k)}
  <2>1. SUFFICES ASSUME S # {} PROVE FALSE
    BY <1>1
  <2>2. PICK m \in S : \A j \in S : m <= j
    BY <2>1, NatMin
  <2>3. m - 1 \in Nat /\ m - 1 <= n /\ m \in 1 .. n /\ ~ (m <= m - 1)
    BY <1>1, <1>5, <2>2
  <2>4. Woken(m - 1)
    BY <2>2, <2>3
  <2>5. QED
    BY <1>6, <2>2, <2>3, <2>4
<1>8. QED
  BY <1>2, <1>7 DEF Woken, n

-----------------------------------------------------------------------------
(* A step that leaves the pcbs of those who wait alone leaves the lines.   *)
LEMMA LinesStay ==
  ASSUME NEW st, NEW lines, NEW t, WaitLines(st, lines),
         SchedType(t.sched), OneCircle(t.sched),
         t.queue = st.queue, t.processes \in [Pids -> Pcb],
         \A p \in Waiting(lines) :
           /\ t.processes[p].next = st.processes[p].next
           /\ t.processes[p].prev = st.processes[p].prev
           /\ p \notin LoadedPids(t.sched.tasks),
         \A p \in Pids \ Waiting(lines) :
           \/ p = IDLE_PID \/ t.processes[p].id = FREE_PCB_PID
           \/ t.processes[p].prev = FREE_PCB_PID /\ t.processes[p].next = FREE_PCB_PID
  PROVE  WaitLines(t, lines)
<1>1. ASSUME NEW q \in Queues
      PROVE  InLine(t.processes, t.queue[q], lines[q])
  <2> DEFINE before == [p \in Pids |-> st.processes[p].next]
             links  == [p \in Pids |-> t.processes[p].next]
  <2>1. InLine(st.processes, st.queue[q], lines[q]) /\ lines[q] \in Seq(Pids)
    BY DEF WaitLines
  <2>2. \A k \in 1 .. Len(lines[q]) : lines[q][k] \in Pids /\ lines[q][k] \in Waiting(lines)
    <3>1. \A k \in 1 .. Len(lines[q]) : lines[q][k] \in Pids
      BY <2>1
    <3>2. QED
      BY <3>1 DEF Waiting
  <2>3. \A k \in 1 .. Len(lines[q]) : links[lines[q][k]] = before[lines[q][k]]
    BY <2>2
  <2> HIDE DEF before, links
  <2>4. Visits(st.queue[q], before, lines[q])
    BY <2>1 DEF InLine, before
  <2>5. Visits(t.queue[q], links, lines[q])
    <3>1. \A k \in 1 .. Len(lines[q]) :
             links[lines[q][k]] = IF k = Len(lines[q]) THEN FREE_PCB_PID ELSE lines[q][k + 1]
      BY <2>3, <2>4 DEF Visits
    <3>2. QED
      BY <2>4, <3>1 DEF Visits
  <2>6. \A k \in 1 .. Len(lines[q]) :
          t.processes[lines[q][k]].prev = IF k = 1 THEN FREE_PCB_PID ELSE lines[q][k - 1]
    BY <2>1, <2>2 DEF InLine
  <2>7. QED
    BY <2>5, <2>6 DEF InLine, links
<1>2. QED
  BY <1>1 DEF WaitLines

(* A set of places with every place before each of its own is a prefix.    *)
LEMMA PrefixIs ==
  ASSUME NEW n \in Nat, NEW S \in SUBSET (1 .. n), \A k \in S : \A j \in 1 .. k : j \in S
  PROVE  Cardinality(S) \in 0 .. n /\ S = 1 .. Cardinality(S)
<1> DEFINE T == {k \in Nat : k > 0 /\ k \notin S}
<1>1. n + 1 \in T
  OBVIOUS
<1>2. PICK m \in T : \A k \in T : m <= k
  BY <1>1, NatMin
<1>3. m - 1 \in 0 .. n /\ m - 1 \in Nat
  BY <1>1, <1>2
<1>4. \A k \in 1 .. m - 1 : k \in S
  BY <1>2, <1>3
<1>5. \A k \in S : k \in 1 .. m - 1
  <2> SUFFICES ASSUME NEW k \in S PROVE k \in 1 .. m - 1
    OBVIOUS
  <2>1. k \in Nat /\ k > 0
    OBVIOUS
  <2>2. ~ (m <= k)
    <3>1. SUFFICES ASSUME m <= k PROVE FALSE
      OBVIOUS
    <3>2. m \in 1 .. k
      BY <1>2, <2>1, <3>1
    <3>3. QED
      BY <1>2, <3>2
  <2>3. QED
    BY <1>2, <2>1, <2>2
<1>6. S = 1 .. m - 1
  BY <1>4, <1>5
<1>7. Cardinality(1 .. m - 1) = m - 1
  BY <1>3, PlacesCount
<1>8. Cardinality(S) = m - 1
  BY <1>6, <1>7, Zenon
<1>9. QED
  BY <1>3, <1>6, <1>8

(* What loader_enqueue does to the pcbs and to the queue (loader.c). *)
Enqueued(st, t, q, p) ==
  LET end == Last(WaitChain(st.processes, st.queue[q])) IN
  IF st.queue[q] = FREE_QUEUE
  THEN t.queue = [st.queue EXCEPT ![q] = p] /\ t.processes = st.processes
  ELSE /\ t.queue = st.queue
       /\ t.processes = [st.processes EXCEPT ![end].next = p, ![p].prev = end]

(* The task p, which waited nowhere, leaves the circle and is enqueued. *)
Blocks(st, lines, t, q, p) ==
  /\ WaitLines(st, lines) /\ q \in Queues
  /\ p \in Pids /\ p \notin Waiting(lines)
  /\ st.processes[p].next = FREE_PCB_PID /\ st.processes[p].prev = FREE_PCB_PID
  /\ SchedType(t.sched) /\ OneCircle(t.sched)
  /\ LoadedPids(t.sched.tasks) = LoadedPids(st.sched.tasks) \ {p}
  /\ Enqueued(st, t, q, p)

(* Who goes to wait is the last in line. *)
LEMMA EnqueueKeeps ==
  ASSUME NEW st, NEW lines, NEW t, NEW q, NEW p, Blocks(st, lines, t, q, p)
  PROVE  \E rest : /\ WaitLines(t, rest)
                   /\ rest = [lines EXCEPT ![q] = Append(lines[q], p)]
                   /\ Waiting(rest) = Waiting(lines) \cup {p}
                   /\ \A o \in Pids : t.processes[o].id = st.processes[o].id
<1> DEFINE line  == lines[q]
           n     == Len(line)
           rest  == [lines EXCEPT ![q] = Append(line, p)]
           procs == st.processes
<1>0. /\ WaitLines(st, lines) /\ q \in Queues
      /\ p \in Pids /\ p \notin Waiting(lines)
      /\ st.processes[p].next = FREE_PCB_PID /\ st.processes[p].prev = FREE_PCB_PID
      /\ SchedType(t.sched) /\ OneCircle(t.sched)
      /\ LoadedPids(t.sched.tasks) = LoadedPids(st.sched.tasks) \ {p}
      /\ Enqueued(st, t, q, p)
  BY DEF Blocks
<1>1. /\ line \in Seq(Pids) /\ n \in Nat
      /\ procs \in [Pids -> Pcb] /\ lines \in [Queues -> Seq(Pids)]
      /\ st.queue \in [Queues -> Pids \cup {FREE_QUEUE}]
      /\ InLine(procs, st.queue[q], line)
  <2>1. line \in Seq(Pids)
    BY <1>0 DEF WaitLines
  <2>2. QED
    BY <1>0, <2>1 DEF WaitLines
<1>2. \A k \in 1 .. n : line[k] \in Pids /\ line[k] # FREE_PCB_PID /\ line[k] # p
  <2>1. \A k \in 1 .. n : line[k] \in Pids
    BY <1>1
  <2>2. FREE_PCB_PID \notin Pids
    BY SchedAssumption DEF Pids, FREE_PCB_PID
  <2>3. QED
    BY <1>0, <2>1, <2>2 DEF Waiting
<1>3. /\ rest \in [Queues -> Seq(Pids)] /\ Len(rest[q]) = n + 1
      /\ \A k \in 1 .. n + 1 : rest[q][k] = IF k = n + 1 THEN p ELSE line[k]
      /\ \A r \in Queues \ {q} : rest[r] = lines[r]
  <2>1. /\ Append(line, p) \in Seq(Pids) /\ Len(Append(line, p)) = n + 1
        /\ \A k \in 1 .. n + 1 : Append(line, p)[k] = IF k = n + 1 THEN p ELSE line[k]
    BY <1>0, <1>1, AppendProperties
  <2> HIDE DEF line, n
  <2>2. QED
    BY <1>0, <1>1, <2>1 DEF line
<1>4. Visits(st.queue[q], [o \in Pids |-> procs[o].next], line)
  BY <1>1 DEF InLine
<1> HIDE DEF line, n, rest, procs
<1>5. /\ st.queue[q] = IF n = 0 THEN FREE_PCB_PID ELSE line[1]
      /\ \A k \in 1 .. n : procs[line[k]].next = IF k = n THEN FREE_PCB_PID ELSE line[k + 1]
      /\ \A k \in 1 .. n : procs[line[k]].prev = IF k = 1 THEN FREE_PCB_PID ELSE line[k - 1]
      /\ \A j, k \in 1 .. n : line[j] = line[k] => j = k
  <2>1. /\ st.queue[q] = IF n = 0 THEN FREE_PCB_PID ELSE line[1]
        /\ \A k \in 1 .. n : [o \in Pids |-> procs[o].next][line[k]]
                             = IF k = n THEN FREE_PCB_PID ELSE line[k + 1]
        /\ \A j, k \in 1 .. n : line[j] = line[k] => j = k
    BY <1>4 DEF Visits, n
  <2>2. ASSUME NEW k \in 1 .. n
        PROVE  procs[line[k]].next = IF k = n THEN FREE_PCB_PID ELSE line[k + 1]
    <3>1. [o \in Pids |-> procs[o].next][line[k]] = procs[line[k]].next
      BY <1>2
    <3>2. QED
      BY <2>1, <3>1
  <2>3. \A k \in 1 .. n : procs[line[k]].prev = IF k = 1 THEN FREE_PCB_PID ELSE line[k - 1]
    BY <1>1 DEF InLine, n
  <2>4. QED
    BY <2>1, <2>2, <2>3
<1>6. st.queue[q] = FREE_QUEUE <=> n = 0
  BY <1>1, <1>2, <1>5 DEF FREE_QUEUE, FREE_PCB_PID
<1> DEFINE end == IF n = 0 THEN FREE_PCB_PID ELSE line[n]
<1>7. n # 0 => end \in Pids /\ end # p /\ n \in 1 .. n
  BY <1>1, <1>2
<1>8. /\ t.processes \in [Pids -> Pcb]
      /\ \A o \in Pids :
           /\ t.processes[o].id = procs[o].id
           /\ t.processes[o].next = IF n # 0 /\ o = end THEN p ELSE procs[o].next
           /\ t.processes[o].prev = IF n # 0 /\ o = p THEN end ELSE procs[o].prev
      /\ t.queue = IF n = 0 THEN [st.queue EXCEPT ![q] = p] ELSE st.queue
  <2>1. CASE n = 0
    BY <1>0, <1>1, <1>6, <2>1 DEF Enqueued, procs
  <2>2. CASE n # 0
    <3>1. WaitChain(procs, st.queue[q]) = line
      BY <1>1, <1>4, ChainIs DEF WaitChain
    <3>2. Last(WaitChain(procs, st.queue[q])) = end
      BY <2>2, <3>1 DEF Last, n
    <3> DEFINE one == NextSet(procs, end, p)
    <3> HIDE DEF end
    <3>3. /\ t.queue = st.queue
          /\ t.processes = [procs EXCEPT ![end].next = p, ![p].prev = end]
      BY <1>0, <1>6, <2>2, <3>2 DEF Enqueued, procs
    <3>4. /\ procs \in [Pids -> Pcb] /\ end \in Pids /\ p \in Pids
          /\ p \in Pids \cup {FREE_PCB_PID} /\ end \in Pids \cup {FREE_PCB_PID}
      BY <1>0, <1>1, <1>7, <2>2
    <3>5. /\ one \in [Pids -> Pcb]
          /\ \A o \in Pids : /\ one[o].id = procs[o].id /\ one[o].prev = procs[o].prev
                             /\ one[o].next = IF o = end THEN p ELSE procs[o].next
      BY <3>4, LinkSet
    <3>6. t.processes = PrevSet(one, p, end)
      BY <3>3 DEF NextSet, PrevSet
    <3> HIDE DEF one
    <3>7. /\ t.processes \in [Pids -> Pcb]
          /\ \A o \in Pids :
               /\ t.processes[o].id = one[o].id
               /\ t.processes[o].next = one[o].next
               /\ t.processes[o].prev = IF o = p THEN end ELSE one[o].prev
      BY <1>0, <3>4, <3>5, <3>6, LinkSet
    <3>8. QED
      BY <2>2, <3>3, <3>5, <3>7
  <2>3. QED
    BY <2>1, <2>2
<1>9. /\ t.queue \in [Queues -> Pids \cup {FREE_QUEUE}]
      /\ t.queue[q] = rest[q][1]
      /\ \A r \in Queues \ {q} : t.queue[r] = st.queue[r]
  <2>1. 1 \in 1 .. n + 1 /\ (1 = n + 1 <=> n = 0)
    BY <1>1
  <2>2. QED
    BY <1>0, <1>1, <1>3, <1>5, <1>8, <2>1
<1>10. /\ \A r \in Queues : \A k \in 1 .. Len(lines[r]) : lines[r][k] \in Pids /\ lines[r][k] # p
       /\ \A r \in Queues \ {q} : \A j \in 1 .. Len(lines[r]), k \in 1 .. n :
             lines[r][j] # line[k]
  <2>1. \A r \in Queues : lines[r] \in Seq(Pids)
    BY <1>1
  <2>2. \A r \in Queues : \A k \in 1 .. Len(lines[r]) : lines[r][k] \in Pids
    BY <2>1
  <2>3. \A r \in Queues : \A j \in 1 .. Len(lines[r]), k \in 1 .. n :
           lines[r][j] = line[k] => r = q
    BY <1>0 DEF WaitLines, line, n
  <2>4. \A r \in Queues : \A k \in 1 .. Len(lines[r]) : lines[r][k] # p
    BY <1>0, <2>2 DEF Waiting
  <2>5. QED
    BY <2>2, <2>3, <2>4
<1>11. ASSUME NEW r \in Queues, NEW k \in 1 .. Len(rest[r])
       PROVE  \/ r = q /\ rest[r][k] = p
              \/ \E j \in 1 .. Len(lines[r]) : lines[r][j] = rest[r][k]
  <2>1. CASE r = q
    <3>1. k \in 1 .. n + 1 /\ (k # n + 1 => k \in 1 .. n)
      BY <1>1, <1>3, <1>11, <2>1
    <3>2. QED
      BY <1>3, <2>1, <3>1 DEF line, n
  <2>2. CASE r # q
    BY <1>3, <1>11, <2>2
  <2>3. QED
    BY <2>1, <2>2
<1>12. Waiting(rest) = Waiting(lines) \cup {p}
  <2>1. \A r \in Queues : \A k \in 1 .. Len(lines[r]) :
           \E j \in 1 .. Len(rest[r]) : rest[r][j] = lines[r][k]
    <3> SUFFICES ASSUME NEW r \in Queues, NEW k \in 1 .. Len(lines[r])
                 PROVE  \E j \in 1 .. Len(rest[r]) : rest[r][j] = lines[r][k]
      OBVIOUS
    <3>1. CASE r = q
      <4>1. k \in 1 .. n /\ lines[r][k] = line[k]
        BY <3>1 DEF line, n
      <4>2. k \in 1 .. n + 1 /\ k # n + 1
        BY <1>1, <4>1
      <4>3. QED
        BY <1>3, <3>1, <4>1, <4>2
    <3>2. CASE r # q
      BY <1>3, <3>2
    <3>3. QED
      BY <3>1, <3>2
  <2>2. n + 1 \in 1 .. Len(rest[q]) /\ rest[q][n + 1] = p
    BY <1>1, <1>3
  <2>3. Waiting(rest) \subseteq Waiting(lines) \cup {p}
    <3> SUFFICES ASSUME NEW o \in Pids, NEW r \in Queues, NEW k \in 1 .. Len(rest[r]),
                        rest[r][k] = o
                 PROVE  o \in Waiting(lines) \cup {p}
      BY DEF Waiting
    <3>1. o = p \/ \E j \in 1 .. Len(lines[r]) : lines[r][j] = o
      BY <1>11
    <3>2. QED
      BY <3>1 DEF Waiting
  <2>4. Waiting(lines) \subseteq Waiting(rest)
    BY <2>1 DEF Waiting
  <2>5. p \in Waiting(rest)
    BY <1>0, <2>2 DEF Waiting
  <2>6. QED
    BY <2>3, <2>4, <2>5
<1>13. ASSUME NEW r \in Queues
       PROVE  InLine(t.processes, t.queue[r], rest[r])
  <2> DEFINE links == [o \in Pids |-> t.processes[o].next]
  <2>1. CASE r = q
    <3>1. ASSUME NEW k \in 1 .. n + 1
          PROVE  rest[r][k] = (IF k = n + 1 THEN p ELSE line[k]) /\ rest[r][k] \in Pids
                 /\ (k # n + 1 => k \in 1 .. n) /\ (k + 1 = n + 1 <=> k = n)
      <4>1. (k # n + 1 => k \in 1 .. n) /\ (k + 1 = n + 1 <=> k = n)
        BY <1>1
      <4>2. rest[r][k] = IF k = n + 1 THEN p ELSE line[k]
        BY <1>3, <2>1
      <4>3. QED
        BY <1>0, <1>2, <4>1, <4>2
    <3>2. ASSUME NEW k \in 1 .. n + 1
          PROVE  links[rest[r][k]] = IF k = n + 1 THEN FREE_PCB_PID ELSE rest[r][k + 1]
      <4>1. links[rest[r][k]] = t.processes[rest[r][k]].next
        BY <3>1
      <4>2. CASE k = n + 1
        <5>1. rest[r][k] = p /\ procs[p].next = FREE_PCB_PID
          BY <1>0, <3>1, <4>2 DEF procs
        <5>2. QED
          BY <1>0, <1>7, <1>8, <4>1, <4>2, <5>1
      <4>3. CASE k = n
        <5>1. n # 0 /\ k \in 1 .. n /\ k # n + 1 /\ n + 1 \in 1 .. n + 1
          BY <1>1, <4>3
        <5>2. rest[r][k] = end /\ rest[r][k + 1] = p
          BY <3>1, <4>3, <5>1
        <5>3. QED
          BY <1>7, <1>8, <4>1, <5>1, <5>2
      <4>4. CASE k # n /\ k # n + 1
        <5>1. n # 0 /\ k \in 1 .. n /\ k + 1 \in 1 .. n + 1 /\ k + 1 # n + 1 /\ n \in 1 .. n
          BY <1>1, <4>4
        <5>2. rest[r][k] = line[k] /\ rest[r][k + 1] = line[k + 1] /\ line[k] # end
          BY <1>5, <3>1, <4>4, <5>1
        <5>3. procs[line[k]].next = line[k + 1]
          BY <1>5, <4>4, <5>1
        <5>4. QED
          BY <1>2, <1>8, <4>1, <4>4, <5>1, <5>2, <5>3
      <4>5. QED
        BY <4>2, <4>3, <4>4
    <3>3. ASSUME NEW k \in 1 .. n + 1
          PROVE  t.processes[rest[r][k]].prev = IF k = 1 THEN FREE_PCB_PID ELSE rest[r][k - 1]
      <4>1. CASE k = n + 1
        <5>1. rest[r][k] = p /\ procs[p].prev = FREE_PCB_PID
          BY <1>0, <3>1, <4>1 DEF procs
        <5>2. n # 0 => k # 1 /\ k - 1 = n /\ n \in 1 .. n + 1 /\ n # n + 1
          BY <1>1, <4>1
        <5>3. n # 0 => rest[r][k - 1] = end
          BY <3>1, <5>2
        <5>4. QED
          BY <1>0, <1>1, <1>8, <4>1, <5>1, <5>2, <5>3
      <4>2. CASE k # n + 1
        <5>1. k \in 1 .. n /\ rest[r][k] = line[k] /\ line[k] # p /\ line[k] \in Pids
          BY <1>2, <3>1, <4>2
        <5>2. k # 1 => k - 1 \in 1 .. n + 1 /\ k - 1 # n + 1
          BY <1>1, <5>1
        <5>3. k # 1 => rest[r][k - 1] = line[k - 1]
          BY <3>1, <5>2
        <5>4. QED
          BY <1>5, <1>8, <5>1, <5>3
      <4>3. QED
        BY <4>1, <4>2
    <3>4. \A j, k \in 1 .. n + 1 : rest[r][j] = rest[r][k] => j = k
      BY <1>2, <1>5, <3>1
    <3>5. Len(rest[r]) = n + 1 /\ n + 1 # 0 /\ t.queue[r] = rest[r][1]
      BY <1>1, <1>3, <1>9, <2>1
    <3> HIDE DEF links
    <3>6. Visits(t.queue[r], links, rest[r])
      BY <3>2, <3>4, <3>5 DEF Visits
    <3>7. QED
      BY <3>3, <3>5, <3>6 DEF InLine, links
  <2>2. CASE r # q
    <3>1. InLine(procs, st.queue[r], lines[r])
      BY <1>0 DEF WaitLines, procs
    <3>2. \A k \in 1 .. Len(lines[r]) :
             lines[r][k] \in Pids /\ lines[r][k] # p /\ (n # 0 => lines[r][k] # end)
      BY <1>7, <1>10, <2>2
    <3>3. \A k \in 1 .. Len(lines[r]) :
             /\ t.processes[lines[r][k]].next = procs[lines[r][k]].next
             /\ t.processes[lines[r][k]].prev = procs[lines[r][k]].prev
      BY <1>8, <3>2
    <3>4. rest[r] = lines[r] /\ t.queue[r] = st.queue[r]
      BY <1>3, <1>9, <2>2
    <3> DEFINE before == [o \in Pids |-> procs[o].next]
    <3>5. \A k \in 1 .. Len(lines[r]) : links[lines[r][k]] = before[lines[r][k]]
      BY <3>2, <3>3
    <3> HIDE DEF links, before
    <3>6. Visits(st.queue[r], before, lines[r])
      BY <3>1 DEF InLine, before
    <3>7. Visits(t.queue[r], links, rest[r])
      <4>1. \A k \in 1 .. Len(lines[r]) :
               links[lines[r][k]] = IF k = Len(lines[r]) THEN FREE_PCB_PID ELSE lines[r][k + 1]
        BY <3>5, <3>6 DEF Visits
      <4>2. Visits(st.queue[r], links, lines[r])
        BY <3>6, <4>1 DEF Visits
      <4>3. QED
        BY <3>4, <4>2
    <3>8. \A k \in 1 .. Len(rest[r]) :
            t.processes[rest[r][k]].prev = IF k = 1 THEN FREE_PCB_PID ELSE rest[r][k - 1]
      BY <3>1, <3>3, <3>4 DEF InLine
    <3>9. QED
      BY <3>7, <3>8 DEF InLine, links
  <2>3. QED
    BY <2>1, <2>2
<1>14. \A r1, r2 \in Queues : \A j \in 1 .. Len(rest[r1]), k \in 1 .. Len(rest[r2]) :
          rest[r1][j] = rest[r2][k] => r1 = r2
  <2> SUFFICES ASSUME NEW r1 \in Queues, NEW r2 \in Queues,
                      NEW j \in 1 .. Len(rest[r1]), NEW k \in 1 .. Len(rest[r2]),
                      rest[r1][j] = rest[r2][k]
               PROVE  r1 = r2
    OBVIOUS
  <2>1. \A a, b \in Queues : \A i \in 1 .. Len(lines[a]), l \in 1 .. Len(lines[b]) :
          lines[a][i] = lines[b][l] => a = b
    BY <1>0 DEF WaitLines
  <2>2. CASE rest[r1][j] = p
    <3>1. \A i \in 1 .. Len(lines[r1]) : lines[r1][i] # p
      BY <1>10
    <3>2. \A i \in 1 .. Len(lines[r2]) : lines[r2][i] # p
      BY <1>10
    <3>3. r1 = q
      BY <1>11, <2>2, <3>1
    <3>4. r2 = q
      <4>1. rest[r2][k] = p
        BY <2>2
      <4>2. QED
        BY <1>11, <3>2, <4>1
    <3>5. QED
      BY <3>3, <3>4
  <2>3. CASE rest[r1][j] # p
    BY <1>11, <2>1, <2>3
  <2>4. QED
    BY <2>2, <2>3
<1>15. WaitLines(t, rest)
  <2>1. \A o \in Waiting(rest) : o \notin LoadedPids(t.sched.tasks)
    BY <1>0, <1>12 DEF WaitLines
  <2>2. \A o \in Pids \ Waiting(rest) :
          \/ o = IDLE_PID \/ t.processes[o].id = FREE_PCB_PID
          \/ t.processes[o].prev = FREE_PCB_PID /\ t.processes[o].next = FREE_PCB_PID
    <3> SUFFICES ASSUME NEW o \in Pids \ Waiting(rest)
                 PROVE  \/ o = IDLE_PID \/ t.processes[o].id = FREE_PCB_PID
                        \/ t.processes[o].prev = FREE_PCB_PID /\ t.processes[o].next = FREE_PCB_PID
      OBVIOUS
    <3>1. o \notin Waiting(lines) /\ o # p
      BY <1>12
    <3>2. \/ o = IDLE_PID \/ procs[o].id = FREE_PCB_PID
          \/ procs[o].prev = FREE_PCB_PID /\ procs[o].next = FREE_PCB_PID
      BY <1>0, <3>1 DEF WaitLines, procs
    <3>3. n # 0 => o # end
      <4>1. n # 0 => line[n] \in Waiting(lines)
        BY <1>0, <1>7 DEF Waiting, line, n
      <4>2. QED
        BY <3>1, <4>1
    <3>4. QED
      BY <1>8, <3>1, <3>2, <3>3
  <2>3. QED
    BY <1>0, <1>3, <1>8, <1>9, <1>13, <1>14, <2>1, <2>2 DEF WaitLines
<1>16. QED
  BY <1>8, <1>12, <1>15 DEF procs, rest, line

-----------------------------------------------------------------------------
Sleeper == [id   : Pids \cup {FREE_PCB_PID},
            time : Nat,
            next : Pids \cup {FREE_PCB_PID}]

(* The delta queue: sl is sleeping[], and the first has time left.         *)
NapLine(first, sl, nap) ==
  /\ nap \in Seq(Pids)
  /\ sl \in [Pids -> Sleeper]
  /\ Visits(first, [p \in Pids |-> sl[p].next], nap)
  /\ Len(nap) # 0 => sl[nap[1]].time > 0

Napping(nap) == {p \in Pids : \E k \in 1 .. Len(nap) : nap[k] = p}

LEMMA NapFields ==
  ASSUME NEW first, NEW sl, NEW nap, NapLine(first, sl, nap)
  PROVE  /\ Len(nap) \in Nat
         /\ \A k \in 1 .. Len(nap) :
              /\ nap[k] \in Pids /\ nap[k] # FREE_PCB_PID
              /\ sl[nap[k]] \in Sleeper /\ sl[nap[k]].time \in Nat
              /\ sl[nap[k]].next = IF k = Len(nap) THEN FREE_PCB_PID ELSE nap[k + 1]
         /\ first = IF Len(nap) = 0 THEN FREE_PCB_PID ELSE nap[1]
         /\ \A j, k \in 1 .. Len(nap) : nap[j] = nap[k] => j = k
<1>1. Len(nap) \in Nat /\ \A k \in 1 .. Len(nap) : nap[k] \in Pids
  BY DEF NapLine
<1>2. FREE_PCB_PID \notin Pids
  BY SchedAssumption DEF Pids, FREE_PCB_PID
<1>3. /\ first = IF Len(nap) = 0 THEN FREE_PCB_PID ELSE nap[1]
      /\ \A k \in 1 .. Len(nap) : [p \in Pids |-> sl[p].next][nap[k]]
                                   = IF k = Len(nap) THEN FREE_PCB_PID ELSE nap[k + 1]
      /\ \A j, k \in 1 .. Len(nap) : nap[j] = nap[k] => j = k
  BY DEF NapLine, Visits
<1>4. ASSUME NEW k \in 1 .. Len(nap)
      PROVE  sl[nap[k]].next = IF k = Len(nap) THEN FREE_PCB_PID ELSE nap[k + 1]
  <2>1. [p \in Pids |-> sl[p].next][nap[k]] = sl[nap[k]].next
    BY <1>1
  <2>2. QED
    BY <1>3, <2>1
<1>5. \A k \in 1 .. Len(nap) : sl[nap[k]] \in Sleeper
  BY <1>1 DEF NapLine
<1>6. \A k \in 1 .. Len(nap) : sl[nap[k]].time \in Nat
  BY <1>5 DEF Sleeper
<1>7. QED
  BY <1>1, <1>2, <1>3, <1>4, <1>5, <1>6

(* Due of the delta queue nap in sl: the deltas, added up. *)
Alarms(sl, nap) ==
  LET due[k \in 0 .. Len(nap)] ==
        IF k = 0 THEN 0 ELSE due[k - 1] + sl[nap[k]].time
  IN due

(* The alarms of the sleepers are sums of naturals, so they only grow.     *)
LEMMA AlarmsGrow ==
  ASSUME NEW first, NEW sl, NEW nap, NapLine(first, sl, nap),
         NEW due, due = Alarms(sl, nap)
  PROVE  /\ due[0] = 0
         /\ \A k \in 0 .. Len(nap) : due[k] \in Nat
         /\ \A k \in 1 .. Len(nap) : due[k] = due[k - 1] + sl[nap[k]].time
         /\ \A j, k \in 0 .. Len(nap) : j <= k => due[j] <= due[k]
<1> DEFINE n == Len(nap)
           Sums(g, m) == g = [k \in 0 .. m |->
                                IF k = 0 THEN 0 ELSE g[k - 1] + sl[nap[k]].time]
<1>1. n \in Nat /\ \A k \in 1 .. n : sl[nap[k]].time \in Nat
  BY NapFields
<1> HIDE DEF n
<1>2. \A m \in Nat : \E g : Sums(g, m)
  <2> DEFINE S == {m \in Nat : ~ \E g : Sums(g, m)}
  <2>1. SUFFICES ASSUME S # {} PROVE FALSE
    OBVIOUS
  <2>2. PICK m \in S : \A j \in S : m <= j
    <3> S \in SUBSET Nat
      OBVIOUS
    <3> HIDE DEF S
    <3> QED BY <2>1, NatMin
  <2>3. CASE m = 0
    <3> DEFINE g == [k \in 0 .. 0 |-> 0]
    <3>1. Sums(g, 0)
      OBVIOUS
    <3>2. QED
      BY <2>2, <2>3, <3>1
  <2>4. CASE m # 0
    <3>1. m - 1 \in Nat /\ m \in Nat /\ ~ (m <= m - 1)
      BY <2>2, <2>4
    <3>2. PICK g : Sums(g, m - 1)
      BY <2>2, <3>1
    <3> DEFINE h == [k \in 0 .. m |-> IF k = m THEN g[m - 1] + sl[nap[m]].time ELSE g[k]]
    <3>3. \A k \in 0 .. m - 1 : h[k] = g[k]
      BY <3>1
    <3>4. \A k \in 0 .. m - 1 : g[k] = IF k = 0 THEN 0 ELSE g[k - 1] + sl[nap[k]].time
      BY <3>2, Zenon
    <3>5. \A k \in 0 .. m : h[k] = IF k = 0 THEN 0 ELSE h[k - 1] + sl[nap[k]].time
      <4> SUFFICES ASSUME NEW k \in 0 .. m
                   PROVE  h[k] = IF k = 0 THEN 0 ELSE h[k - 1] + sl[nap[k]].time
        OBVIOUS
      <4>1. CASE k = m
        BY <2>4, <3>1, <3>3, <4>1
      <4>2. CASE k # m
        <5>1. k \in 0 .. m - 1 /\ (k # 0 => k - 1 \in 0 .. m - 1)
          BY <3>1, <4>2
        <5>2. QED
          BY <3>3, <3>4, <5>1
      <4>3. QED
        BY <4>1, <4>2
    <3>6. h = [k \in 0 .. m |-> h[k]]
      OBVIOUS
    <3> HIDE DEF h
    <3>7. Sums(h, m)
      BY <3>5, <3>6
    <3>8. QED
      BY <2>2, <3>7
  <2>5. QED
    BY <2>3, <2>4
<1>3. due = CHOOSE g : Sums(g, n)
  BY DEF Alarms, n
<1>4. Sums(due, n)
  <2> HIDE DEF Sums
  <2>1. \E g : Sums(g, n)
    BY <1>1, <1>2
  <2> DEFINE d == CHOOSE g : Sums(g, n)
  <2>2. Sums(d, n)
    BY <2>1
  <2> HIDE DEF d
  <2>3. QED
    BY <1>3, <2>2 DEF d
<1>5. \A k \in 0 .. n : due[k] = IF k = 0 THEN 0 ELSE due[k - 1] + sl[nap[k]].time
  BY <1>4, Zenon
<1> HIDE DEF Sums
<1>6. due[0] = 0 /\ \A k \in 1 .. n : due[k] = due[k - 1] + sl[nap[k]].time
  BY <1>1, <1>5
<1>7. \A k \in 0 .. n : due[k] \in Nat /\ \A j \in 0 .. k : due[j] \in Nat /\ due[j] <= due[k]
  <2> DEFINE Grows(k) == due[k] \in Nat /\ \A j \in 0 .. k : due[j] \in Nat /\ due[j] <= due[k]
             S == {k \in Nat : k <= n /\ ~ Grows(k)}
  <2>1. Grows(0)
    BY <1>6
  <2>2. ASSUME NEW k \in 1 .. n, Grows(k - 1)
        PROVE  Grows(k)
    <3>1. due[k] \in Nat /\ due[k - 1] <= due[k]
      BY <1>1, <1>6, <2>2
    <3>2. \A j \in 0 .. k : j = k \/ j \in 0 .. k - 1
      BY <1>1
    <3>3. QED
      BY <2>2, <3>1, <3>2
  <2>3. SUFFICES ASSUME S # {} PROVE FALSE
    BY <1>1
  <2> HIDE DEF Grows
  <2>4. PICK m \in S : \A j \in S : m <= j
    BY <2>3, NatMin
  <2>5. m - 1 \in Nat /\ m - 1 <= n /\ m \in 1 .. n /\ ~ (m <= m - 1)
    BY <1>1, <2>1, <2>4
  <2>6. Grows(m - 1)
    BY <2>4, <2>5
  <2>7. QED
    BY <2>2, <2>4, <2>5, <2>6
<1>8. QED
  BY <1>1, <1>6, <1>7 DEF n

LEMMA DueGrows ==
  ASSUME NEW nap, NapLine(first_slept, sleeping, nap), SleepChain = nap
  PROVE  /\ Due[0] = 0
         /\ \A k \in 0 .. Len(nap) : Due[k] \in Nat
         /\ \A k \in 1 .. Len(nap) : Due[k] = Due[k - 1] + sleeping[nap[k]].time
         /\ \A j, k \in 0 .. Len(nap) : j <= k => Due[j] <= Due[k]
<1>1. Due = Alarms(sleeping, SleepChain)
  BY DEF Due, Alarms
<1>2. Due = Alarms(sleeping, nap)
  BY <1>1
<1>3. QED
  BY <1>2, AlarmsGrow

(* The alarm of the pid p, which need not sleep. *)
AlarmIn(sl, nap, p) ==
  IF p \in ToSet(nap)
  THEN Alarms(sl, nap)[CHOOSE k \in 1 .. Len(nap) : nap[k] = p]
  ELSE 0

LEMMA AlarmAt ==
  ASSUME NEW first, NEW sl, NEW nap, NapLine(first, sl, nap)
  PROVE  /\ \A k \in 1 .. Len(nap) : /\ AlarmIn(sl, nap, nap[k]) = Alarms(sl, nap)[k]
                                     /\ Alarms(sl, nap)[k] \in Nat /\ Alarms(sl, nap)[k] > 0
         /\ \A p \in Pids \ Napping(nap) : AlarmIn(sl, nap, p) = 0
<1> DEFINE due == Alarms(sl, nap)
           n   == Len(nap)
<1>1. /\ n \in Nat /\ due[0] = 0
      /\ \A k \in 0 .. n : due[k] \in Nat
      /\ \A k \in 1 .. n : due[k] = due[k - 1] + sl[nap[k]].time
      /\ \A j, k \in 0 .. n : j <= k => due[j] <= due[k]
  BY AlarmsGrow, NapFields
<1>2. /\ \A k \in 1 .. n : nap[k] \in Pids
      /\ \A j, k \in 1 .. n : nap[j] = nap[k] => j = k
      /\ ToSet(nap) = {nap[k] : k \in 1 .. n}
  <2>1. nap \in Seq(Pids)
    BY DEF NapLine
  <2>2. ToSet(nap) = {nap[k] : k \in 1 .. n}
    BY <2>1 DEF ToSet
  <2>3. QED
    BY <2>2, NapFields
<1>3. n # 0 => sl[nap[1]].time > 0 /\ sl[nap[1]].time \in Nat
  BY <1>1, NapFields DEF NapLine
<1> HIDE DEF due, n
<1>4. ASSUME NEW k \in 1 .. n
      PROVE  AlarmIn(sl, nap, nap[k]) = due[k] /\ due[k] \in Nat /\ due[k] > 0
  <2>1. nap[k] \in ToSet(nap)
    BY <1>2
  <2>2. (CHOOSE j \in 1 .. n : nap[j] = nap[k]) = k
    BY <1>2
  <2>3. AlarmIn(sl, nap, nap[k]) = due[k]
    BY <2>1, <2>2 DEF AlarmIn, due, n
  <2>4. 1 \in 1 .. n /\ 1 \in 0 .. n /\ k \in 0 .. n /\ 1 <= k /\ 1 - 1 = 0
    BY <1>1
  <2>5. due[1] = due[0] + sl[nap[1]].time
    BY <1>1, <2>4
  <2>6. due[1] <= due[k] /\ due[k] \in Nat /\ due[1] \in Nat
    BY <1>1, <2>4
  <2>7. QED
    BY <1>1, <1>3, <2>3, <2>5, <2>6
<1>5. ASSUME NEW p \in Pids \ Napping(nap)
      PROVE  AlarmIn(sl, nap, p) = 0
  <2>1. p \notin ToSet(nap)
    BY <1>2 DEF Napping, n
  <2>2. QED
    BY <2>1 DEF AlarmIn
<1>6. QED
  BY <1>4, <1>5 DEF due, n

(* The task p joins the sleepers nap behind the first b of them, to wake   *)
(* in time ticks; the next sleeper counts from there.                      *)
Joins(first, sl, nap, p, time, b, head, sl2, rest) ==
  LET wait == time - Alarms(sl, nap)[b] IN
  /\ NapLine(first, sl, nap) /\ NapLine(head, sl2, rest)
  /\ p \in Pids \ Napping(nap) /\ time \in Nat /\ b \in 0 .. Len(nap)
  /\ Len(rest) = Len(nap) + 1
  /\ \A k \in 1 .. Len(nap) + 1 : rest[k] = IF k <= b THEN nap[k]
                                            ELSE IF k = b + 1 THEN p ELSE nap[k - 1]
  /\ sl2[p].time = wait
  /\ \A k \in 1 .. Len(nap) :
       sl2[nap[k]].time = IF k = b + 1 THEN sl[nap[k]].time - wait ELSE sl[nap[k]].time

(* It gets the alarm it asked for, and the others keep theirs. *)
LEMMA JoinAlarms ==
  ASSUME NEW first, NEW sl, NEW nap, NEW p, NEW time, NEW b, NEW head, NEW sl2, NEW rest,
         Joins(first, sl, nap, p, time, b, head, sl2, rest)
  PROVE  \A o \in Pids : AlarmIn(sl2, rest, o) = IF o = p THEN time ELSE AlarmIn(sl, nap, o)
<1> DEFINE n == Len(nap)
           A == Alarms(sl, nap)
           B == Alarms(sl2, rest)
<1>0. /\ NapLine(first, sl, nap) /\ NapLine(head, sl2, rest)
      /\ p \in Pids \ Napping(nap) /\ time \in Nat /\ b \in 0 .. n
      /\ Len(rest) = n + 1
      /\ \A k \in 1 .. n + 1 : rest[k] = IF k <= b THEN nap[k]
                                         ELSE IF k = b + 1 THEN p ELSE nap[k - 1]
      /\ sl2[p].time = time - A[b]
      /\ \A k \in 1 .. n :
           sl2[nap[k]].time = IF k = b + 1 THEN sl[nap[k]].time - (time - A[b])
                              ELSE sl[nap[k]].time
  BY DEF Joins
<1>1. /\ n \in Nat /\ A[0] = 0 /\ \A k \in 0 .. n : A[k] \in Nat
      /\ \A k \in 1 .. n : A[k] = A[k - 1] + sl[nap[k]].time /\ sl[nap[k]].time \in Nat
  BY <1>0, AlarmsGrow, NapFields
<1>2. B[0] = 0 /\ \A k \in 1 .. n + 1 : B[k] = B[k - 1] + sl2[rest[k]].time
  <2>1. B[0] = 0 /\ \A k \in 1 .. Len(rest) : B[k] = B[k - 1] + sl2[rest[k]].time
    BY <1>0, AlarmsGrow
  <2>2. QED
    BY <1>0, <2>1
<1>3. /\ \A k \in 1 .. n : AlarmIn(sl, nap, nap[k]) = A[k]
      /\ \A o \in Pids \ Napping(nap) : AlarmIn(sl, nap, o) = 0
      /\ \A k \in 1 .. n + 1 : AlarmIn(sl2, rest, rest[k]) = B[k]
      /\ \A o \in Pids \ Napping(rest) : AlarmIn(sl2, rest, o) = 0
  <2>1. /\ \A k \in 1 .. n : AlarmIn(sl, nap, nap[k]) = A[k]
        /\ \A o \in Pids \ Napping(nap) : AlarmIn(sl, nap, o) = 0
    BY <1>0, AlarmAt
  <2>2. /\ \A k \in 1 .. Len(rest) : AlarmIn(sl2, rest, rest[k]) = B[k]
        /\ \A o \in Pids \ Napping(rest) : AlarmIn(sl2, rest, o) = 0
    <3>1. NapLine(head, sl2, rest)
      BY <1>0
    <3>2. /\ \A k \in 1 .. Len(rest) :
               /\ AlarmIn(sl2, rest, rest[k]) = Alarms(sl2, rest)[k]
               /\ Alarms(sl2, rest)[k] \in Nat /\ Alarms(sl2, rest)[k] > 0
          /\ \A o \in Pids \ Napping(rest) : AlarmIn(sl2, rest, o) = 0
      BY <3>1, AlarmAt
    <3>3. QED
      BY <3>2
  <2>3. QED
    BY <1>0, <2>1, <2>2
<1> DEFINE Same(k) == B[k] = IF k <= b THEN A[k] ELSE IF k = b + 1 THEN time ELSE A[k - 1]
<1> HIDE DEF n, A, B
<1>4. Same(0)
  BY <1>0, <1>1, <1>2
<1>5. ASSUME NEW k \in 1 .. n + 1, Same(k - 1)
      PROVE  Same(k)
  <2>1. B[k] = B[k - 1] + sl2[rest[k]].time
    BY <1>2
  <2>2. CASE k <= b
    <3>1. k \in 1 .. n /\ k # b + 1 /\ k - 1 <= b
      BY <1>0, <1>1, <2>2
    <3>2. rest[k] = nap[k]
      BY <1>0, <2>2
    <3>3. sl2[nap[k]].time = sl[nap[k]].time /\ A[k] = A[k - 1] + sl[nap[k]].time
      BY <1>0, <1>1, <3>1
    <3>4. QED
      BY <1>5, <2>1, <2>2, <3>1, <3>2, <3>3
  <2>3. CASE k = b + 1
    <3>1. ~ (k <= b) /\ k - 1 = b /\ b <= b
      BY <1>0, <2>3
    <3>2. rest[k] = p /\ B[k - 1] = A[b] /\ A[b] \in Nat
      BY <1>0, <1>1, <1>5, <2>3, <3>1
    <3>3. QED
      BY <1>0, <2>1, <2>3, <3>1, <3>2
  <2>4. CASE k > b + 1
    <3>1. k - 1 \in 1 .. n /\ ~ (k <= b) /\ ~ (k = b + 1) /\ ~ (k - 1 <= b)
          /\ (k - 1 = b + 1 <=> k = b + 2) /\ b \in Nat /\ (k = b + 2 => (k - 1) - 1 = b)
      BY <1>0, <1>1, <2>4
    <3>2. rest[k] = nap[k - 1]
      BY <1>0, <3>1
    <3>3. A[k - 1] = A[(k - 1) - 1] + sl[nap[k - 1]].time /\ sl[nap[k - 1]].time \in Nat
      BY <1>1, <3>1
    <3>4. A[b] \in Nat /\ A[k - 1] \in Nat
      BY <1>0, <1>1, <3>1
    <3>5. CASE k = b + 2
      <4>1. B[k - 1] = time
        BY <1>5, <3>1, <3>5
      <4>2. sl2[nap[k - 1]].time = sl[nap[k - 1]].time - (time - A[b])
        BY <1>0, <3>1, <3>5
      <4>3. A[k - 1] = A[b] + sl[nap[k - 1]].time
        BY <3>1, <3>3, <3>5
      <4>4. B[k] = A[k - 1]
        BY <1>0, <2>1, <3>2, <3>3, <3>4, <4>1, <4>2, <4>3
      <4>5. QED
        BY <3>1, <4>4
    <3>6. CASE k # b + 2
      <4>1. B[k - 1] = A[(k - 1) - 1]
        BY <1>5, <3>1, <3>6
      <4>2. sl2[nap[k - 1]].time = sl[nap[k - 1]].time
        BY <1>0, <3>1, <3>6
      <4>3. QED
        BY <2>1, <3>1, <3>2, <3>3, <4>1, <4>2
    <3>7. QED
      BY <3>5, <3>6
  <2>5. QED
    BY <1>0, <2>2, <2>3, <2>4
<1> HIDE DEF Same
<1>6. \A k \in 0 .. n + 1 : Same(k)
  <2> DEFINE S == {k \in Nat : k <= n + 1 /\ ~ Same(k)}
  <2>1. SUFFICES ASSUME S # {} PROVE FALSE
    BY <1>1
  <2>2. PICK m \in S : \A j \in S : m <= j
    BY <2>1, NatMin
  <2>3. m - 1 \in Nat /\ m - 1 <= n + 1 /\ m \in 1 .. n + 1 /\ ~ (m <= m - 1)
    BY <1>1, <1>4, <2>2
  <2>4. Same(m - 1)
    BY <2>2, <2>3
  <2>5. QED
    BY <1>5, <2>2, <2>3, <2>4
<1>7. ASSUME NEW o \in Pids
      PROVE  AlarmIn(sl2, rest, o) = IF o = p THEN time ELSE AlarmIn(sl, nap, o)
  <2>1. CASE o = p
    <3>1. b + 1 \in 1 .. n + 1 /\ b + 1 \in 0 .. n + 1 /\ ~ (b + 1 <= b)
      BY <1>0, <1>1
    <3>2. rest[b + 1] = p /\ B[b + 1] = time
      BY <1>0, <1>6, <3>1 DEF Same
    <3>3. QED
      BY <1>3, <2>1, <3>1, <3>2
  <2>2. CASE o # p /\ o \in Napping(nap)
    <3>1. PICK k \in 1 .. n : nap[k] = o
      BY <2>2 DEF Napping, n
    <3>2. CASE k <= b
      <4>1. k \in 1 .. n + 1 /\ k \in 0 .. n + 1
        BY <1>1
      <4>2. rest[k] = o /\ B[k] = A[k]
        BY <1>0, <1>6, <3>1, <3>2, <4>1 DEF Same
      <4>3. QED
        BY <1>3, <2>2, <3>1, <4>1, <4>2
    <3>3. CASE ~ (k <= b)
      <4>1. k + 1 \in 1 .. n + 1 /\ k + 1 \in 0 .. n + 1 /\ ~ (k + 1 <= b) /\ k + 1 # b + 1
            /\ (k + 1) - 1 = k
        BY <1>0, <1>1, <3>3
      <4>2. rest[k + 1] = o /\ B[k + 1] = A[k]
        BY <1>0, <1>6, <3>1, <4>1 DEF Same
      <4>3. QED
        BY <1>3, <2>2, <3>1, <4>1, <4>2
    <3>4. QED
      BY <3>2, <3>3
  <2>3. CASE o # p /\ o \notin Napping(nap)
    <3>1. \A k \in 1 .. n + 1 : rest[k] # o
      <4> SUFFICES ASSUME NEW k \in 1 .. n + 1 PROVE rest[k] # o
        OBVIOUS
      <4>1. /\ k <= b => k \in 1 .. n
            /\ ~ (k <= b) /\ k # b + 1 => k - 1 \in 1 .. n
        BY <1>0, <1>1
      <4>2. \A j \in 1 .. n : nap[j] # o
        BY <2>3 DEF Napping, n
      <4>3. QED
        BY <1>0, <2>3, <4>1, <4>2
    <3>2. o \notin Napping(rest)
      BY <1>0, <3>1 DEF Napping
    <3>3. QED
      BY <1>3, <2>3, <3>2
  <2>4. QED
    BY <2>1, <2>2, <2>3
<1>8. QED
  BY <1>7

(* The first of the sleepers counts one down, and the first m wake, which  *)
(* had no more than that to wait.                                          *)
Nears(first, sl, nap, m, head, sl2, rest) ==
  /\ NapLine(first, sl, nap) /\ NapLine(head, sl2, rest)
  /\ m \in 0 .. Len(nap) /\ Len(rest) = Len(nap) - m
  /\ \A k \in 1 .. Len(nap) - m : rest[k] = nap[m + k]
  /\ \A k \in 1 .. Len(nap) :
       sl2[nap[k]].time = IF k = 1 THEN sl[nap[k]].time - 1 ELSE sl[nap[k]].time
  /\ m # 0 => sl[nap[1]].time = 1 /\ \A j \in 2 .. m : sl[nap[j]].time = 0

(* Every alarm is one tick nearer, and those that were one tick away ring. *)
LEMMA NearAlarms ==
  ASSUME NEW first, NEW sl, NEW nap, NEW m, NEW head, NEW sl2, NEW rest,
         Nears(first, sl, nap, m, head, sl2, rest)
  PROVE  /\ \A o \in Pids :
              AlarmIn(sl2, rest, o) = IF AlarmIn(sl, nap, o) > 0 THEN AlarmIn(sl, nap, o) - 1
                                      ELSE 0
         /\ \A o \in Pids :
              AlarmIn(sl, nap, o) = 1 <=> \E k \in 1 .. m : nap[k] = o
<1> DEFINE n == Len(nap)
           A == Alarms(sl, nap)
           B == Alarms(sl2, rest)
<1>0. /\ NapLine(first, sl, nap) /\ NapLine(head, sl2, rest)
      /\ m \in 0 .. n /\ Len(rest) = n - m
      /\ \A k \in 1 .. n - m : rest[k] = nap[m + k]
      /\ \A k \in 1 .. n :
           sl2[nap[k]].time = IF k = 1 THEN sl[nap[k]].time - 1 ELSE sl[nap[k]].time
      /\ m # 0 => sl[nap[1]].time = 1 /\ \A j \in 2 .. m : sl[nap[j]].time = 0
  BY DEF Nears
<1>1. /\ n \in Nat /\ A[0] = 0 /\ \A k \in 0 .. n : A[k] \in Nat
      /\ \A k \in 1 .. n : A[k] = A[k - 1] + sl[nap[k]].time /\ sl[nap[k]].time \in Nat
      /\ \A j, k \in 1 .. n : nap[j] = nap[k] => j = k
  <2>0. NapLine(first, sl, nap)
    BY <1>0
  <2>1. /\ A[0] = 0 /\ \A k \in 0 .. n : A[k] \in Nat
        /\ \A k \in 1 .. n : A[k] = A[k - 1] + sl[nap[k]].time
    BY <2>0, AlarmsGrow
  <2>2. n \in Nat /\ \A k \in 1 .. n : sl[nap[k]].time \in Nat
    BY <2>0, NapFields
  <2>3. \A j, k \in 1 .. n : nap[j] = nap[k] => j = k
    BY <2>0 DEF NapLine, Visits
  <2> HIDE DEF n, A
  <2>4. QED
    BY <2>1, <2>2, <2>3
<1>2. B[0] = 0 /\ \A k \in 1 .. n - m : B[k] = B[k - 1] + sl2[rest[k]].time
  <2>1. B[0] = 0 /\ \A k \in 1 .. Len(rest) : B[k] = B[k - 1] + sl2[rest[k]].time
    BY <1>0, AlarmsGrow
  <2>2. QED
    BY <1>0, <2>1
<1>3. /\ \A k \in 1 .. n : AlarmIn(sl, nap, nap[k]) = A[k] /\ A[k] > 0
      /\ \A o \in Pids \ Napping(nap) : AlarmIn(sl, nap, o) = 0
      /\ \A k \in 1 .. n - m : AlarmIn(sl2, rest, rest[k]) = B[k] /\ B[k] \in Nat /\ B[k] > 0
      /\ \A o \in Pids \ Napping(rest) : AlarmIn(sl2, rest, o) = 0
  <2>1. /\ \A k \in 1 .. n : AlarmIn(sl, nap, nap[k]) = A[k] /\ A[k] > 0
        /\ \A o \in Pids \ Napping(nap) : AlarmIn(sl, nap, o) = 0
    <3>1. NapLine(first, sl, nap)
      BY <1>0
    <3>2. QED
      BY <3>1, AlarmAt
  <2>2. /\ \A k \in 1 .. Len(rest) : AlarmIn(sl2, rest, rest[k]) = B[k] /\ B[k] \in Nat /\ B[k] > 0
        /\ \A o \in Pids \ Napping(rest) : AlarmIn(sl2, rest, o) = 0
    BY <1>0, AlarmAt
  <2>3. QED
    BY <1>0, <2>1, <2>2
<1> HIDE DEF n, A, B
<1>4. \A k \in 1 .. m : A[k] = 1
  <2> DEFINE S == {k \in Nat : k \in 1 .. m /\ A[k] # 1}
  <2>1. SUFFICES ASSUME S # {} PROVE FALSE
    BY <1>0
  <2>2. PICK k \in S : \A j \in S : k <= j
    <3>1. S \in SUBSET Nat
      OBVIOUS
    <3> HIDE DEF S
    <3>2. QED
      BY <2>1, <3>1, NatMin
  <2>3. k \in 1 .. m /\ A[k] # 1 /\ k \in 1 .. n /\ k - 1 \in Nat /\ m # 0 /\ ~ (k <= k - 1)
    BY <1>0, <1>1, <2>2
  <2>4. CASE k = 1
    <3>1. A[1] = A[0] + sl[nap[1]].time
      BY <1>1, <2>3, <2>4
    <3>2. QED
      BY <1>0, <1>1, <2>3, <2>4, <3>1
  <2>5. CASE k # 1
    <3>1. k - 1 \in 1 .. m /\ k \in 2 .. m
      BY <1>0, <2>3, <2>5
    <3>2. A[k - 1] = 1
      BY <2>2, <2>3, <3>1
    <3>3. A[k] = A[k - 1] + sl[nap[k]].time /\ sl[nap[k]].time = 0
      BY <1>0, <1>1, <2>3, <3>1
    <3>4. QED
      BY <2>3, <3>2, <3>3
  <2>6. QED
    BY <2>4, <2>5
<1> DEFINE Nearer(k) == k \in 1 .. n - m => B[k] = A[m + k] - 1
<1>5. ASSUME NEW k \in 1 .. n - m, Nearer(k - 1)
      PROVE  B[k] = A[m + k] - 1
  <2>1. /\ m + k \in 1 .. n /\ (m + k) - 1 = m + (k - 1) /\ (m + k = 1 <=> m = 0 /\ k = 1)
    BY <1>0, <1>1
  <2>2. /\ B[k] = B[k - 1] + sl2[nap[m + k]].time
        /\ A[m + k] = A[m + (k - 1)] + sl[nap[m + k]].time
        /\ sl[nap[m + k]].time \in Nat /\ A[m + k] \in Nat
    <3>1. m + k \in 0 .. n
      BY <1>1, <2>1
    <3>2. QED
      BY <1>0, <1>1, <1>2, <2>1, <3>1
  <2>3. CASE k = 1 /\ m = 0
    <3>1. B[k - 1] = 0 /\ A[m + (k - 1)] = 0
      BY <1>1, <1>2, <2>3
    <3>2. sl2[nap[m + k]].time = sl[nap[m + k]].time - 1
      BY <1>0, <2>1, <2>3
    <3>3. QED
      BY <2>2, <3>1, <3>2
  <2>4. CASE k = 1 /\ m # 0
    <3>1. B[k - 1] = 0 /\ m + (k - 1) = m /\ m \in 1 .. m
      BY <1>0, <1>2, <2>4
    <3>2. A[m] = 1 /\ sl2[nap[m + k]].time = sl[nap[m + k]].time
      BY <1>0, <1>4, <2>1, <2>4, <3>1
    <3>3. QED
      BY <2>2, <3>1, <3>2
  <2>5. CASE k # 1
    <3>1. k - 1 \in 1 .. n - m /\ m + (k - 1) \in 0 .. n
      BY <1>0, <1>1, <2>5
    <3>2. B[k - 1] = A[m + (k - 1)] - 1 /\ A[m + (k - 1)] \in Nat
      BY <1>1, <1>5, <3>1
    <3>3. sl2[nap[m + k]].time = sl[nap[m + k]].time
      BY <1>0, <2>1, <2>5
    <3>4. QED
      BY <2>2, <3>2, <3>3
  <2>6. QED
    BY <2>3, <2>4, <2>5
<1>6. \A k \in 1 .. n - m : B[k] = A[m + k] - 1
  <2> DEFINE S == {k \in Nat : k <= n - m /\ ~ Nearer(k)}
  <2>1. SUFFICES ASSUME S # {} PROVE FALSE
    <3>1. \A k \in 1 .. n - m : k \in Nat /\ k <= n - m
      BY <1>0, <1>1
    <3>2. QED
      BY <3>1
  <2>2. PICK k \in S : \A j \in S : k <= j
    <3>1. S \in SUBSET Nat
      OBVIOUS
    <3> HIDE DEF S
    <3>2. QED
      BY <2>1, <3>1, NatMin
  <2>3. k \in 1 .. n - m /\ k - 1 \in Nat /\ k - 1 <= n - m /\ ~ (k <= k - 1)
    BY <1>0, <1>1, <2>2
  <2> HIDE DEF Nearer
  <2>4. Nearer(k - 1)
    BY <2>2, <2>3
  <2>5. QED
    BY <1>5, <2>2, <2>3, <2>4 DEF Nearer
<1>7. \A k \in 1 .. n : k <= m \/ (k - m \in 1 .. n - m /\ m + (k - m) = k)
  BY <1>0, <1>1
<1>8. ASSUME NEW o \in Pids
      PROVE  /\ AlarmIn(sl2, rest, o) = IF AlarmIn(sl, nap, o) > 0 THEN AlarmIn(sl, nap, o) - 1
                                        ELSE 0
             /\ AlarmIn(sl, nap, o) = 1 <=> \E k \in 1 .. m : nap[k] = o
  <2>1. \A k \in 1 .. n - m : m + k \in 1 .. n /\ ~ (m + k <= m)
    BY <1>0, <1>1
  <2>2. Napping(rest) = {q \in Pids : \E k \in 1 .. n - m : nap[m + k] = q}
    BY <1>0 DEF Napping
  <2>3. CASE o \in Napping(nap)
    <3>1. PICK k \in 1 .. n : nap[k] = o
      BY <2>3 DEF Napping, n
    <3>2. CASE k <= m
      <4>1. k \in 1 .. m /\ AlarmIn(sl, nap, o) = 1
        BY <1>0, <1>3, <1>4, <3>1, <3>2
      <4>2. o \notin Napping(rest)
        BY <1>1, <2>1, <2>2, <3>1, <3>2
      <4>3. AlarmIn(sl2, rest, o) = 0
        BY <1>3, <4>2
      <4>4. QED
        BY <3>1, <4>1, <4>3
    <3>3. CASE ~ (k <= m)
      <4>1. k - m \in 1 .. n - m /\ m + (k - m) = k
        BY <1>7, <3>3
      <4>2. rest[k - m] = o /\ AlarmIn(sl2, rest, o) = B[k - m]
        BY <1>0, <1>3, <3>1, <4>1
      <4>3. B[k - m] = A[k] - 1 /\ B[k - m] \in Nat /\ B[k - m] > 0 /\ A[k] > 0 /\ A[k] \in Nat
        BY <1>1, <1>3, <1>6, <4>1
      <4>4. AlarmIn(sl, nap, o) = A[k]
        BY <1>3, <3>1
      <4>5. \A j \in 1 .. m : nap[j] # o
        <5>1. \A j \in 1 .. m : j \in 1 .. n /\ j # k
          BY <1>0, <1>1, <3>3
        <5>2. QED
          BY <1>1, <3>1, <5>1
      <4>6. QED
        BY <4>2, <4>3, <4>4, <4>5
    <3>4. QED
      BY <3>2, <3>3
  <2>4. CASE o \notin Napping(nap)
    <3>1. \A k \in 1 .. n : nap[k] # o
      BY <2>4 DEF Napping, n
    <3>2. o \notin Napping(rest) /\ \A k \in 1 .. m : nap[k] # o
      <4>1. \A k \in 1 .. m : k \in 1 .. n
        BY <1>0, <1>1
      <4>2. QED
        BY <2>1, <2>2, <3>1, <4>1
    <3>3. AlarmIn(sl, nap, o) = 0 /\ AlarmIn(sl2, rest, o) = 0
      BY <1>3, <2>4, <3>2
    <3>4. QED
      BY <3>2, <3>3
  <2>5. QED
    BY <2>3, <2>4
<1>9. QED
  BY <1>8

(* The place loader_sleep finds: behind all the alarms before its own.     *)
LEMMA SleepPlace ==
  ASSUME NEW nap, NapLine(first_slept, sleeping, nap), SleepChain = nap,
         NEW time \in Nat, time > 0,
         NEW b, b = Cardinality({k \in 1 .. Len(SleepChain) : Due[k] < time})
  PROVE  /\ b \in 0 .. Len(nap) /\ time - Due[b] \in Nat /\ time - Due[b] > 0
         /\ b < Len(nap) => sleeping[nap[b + 1]].time - (time - Due[b]) \in Nat
<1> DEFINE n == Len(nap)
           S == {k \in 1 .. n : Due[k] < time}
<1>1. /\ n \in Nat /\ Due[0] = 0 /\ \A k \in 0 .. n : Due[k] \in Nat
      /\ \A k \in 1 .. n : Due[k] = Due[k - 1] + sleeping[nap[k]].time
      /\ \A j, k \in 0 .. n : j <= k => Due[j] <= Due[k]
      /\ \A k \in 1 .. n : sleeping[nap[k]].time \in Nat
  BY DueGrows, NapFields
<1>2. b = Cardinality(S)
  OBVIOUS
<1> HIDE DEF n
<1>3. \A k \in S : \A j \in 1 .. k : j \in S
  BY <1>1
<1>4. b \in 0 .. n /\ S = 1 .. b
  <2>1. S \in SUBSET (1 .. n) /\ n \in Nat
    BY <1>1
  <2> HIDE DEF S
  <2>2. Cardinality(S) \in 0 .. n /\ S = 1 .. Cardinality(S)
    BY <1>3, <2>1, PrefixIs
  <2>3. QED
    BY <1>2, <2>2
<1>5. Due[b] \in Nat /\ Due[b] < time
  <2>1. CASE b = 0
    BY <1>1, <2>1
  <2>2. CASE b # 0
    <3>1. b \in S
      BY <1>4, <2>2
    <3>2. QED
      BY <1>1, <3>1
  <2>3. QED
    BY <2>1, <2>2
<1>6. ASSUME b < n
      PROVE  sleeping[nap[b + 1]].time - (time - Due[b]) \in Nat
  <2> HIDE DEF S
  <2>1. b + 1 \in 1 .. n /\ b + 1 \notin S /\ (b + 1) - 1 = b
    BY <1>1, <1>4, <1>6
  <2>2. ~ (Due[b + 1] < time)
    BY <2>1 DEF S
  <2>3. /\ Due[b + 1] = Due[b] + sleeping[nap[b + 1]].time
        /\ Due[b + 1] \in Nat /\ sleeping[nap[b + 1]].time \in Nat
    BY <1>1, <2>1
  <2>4. QED
    BY <1>5, <2>2, <2>3
<1>7. QED
  BY <1>4, <1>5, <1>6 DEF n

(* The task that runs goes behind the first b sleepers. *)
Naps(nap, time, b, sl, first) ==
  /\ NapLine(first_slept, sleeping, nap) /\ cur_pid \in Pids /\ cur_pid \notin Napping(nap)
  /\ time \in Nat /\ time > 0
  /\ b = Cardinality({k \in 1 .. Len(SleepChain) : Due[k] < time})
  /\ sl = Inserted(b, time)
  /\ first = IF b = 0 THEN cur_pid ELSE first_slept

(* loader_sleep puts the caller in line by its alarm, loses nobody and     *)
(* moves no other alarm.                                                   *)
LEMMA SleepKeeps ==
  ASSUME NEW nap, NEW time, NEW b, NEW sl, NEW first, Naps(nap, time, b, sl, first)
  PROVE  \E rest : /\ NapLine(first, sl, rest)
                   /\ Napping(rest) = Napping(nap) \cup {cur_pid}
                   /\ \A p \in Pids : AlarmIn(sl, rest, p) = IF p = cur_pid THEN time
                                                           ELSE AlarmIn(sleeping, nap, p)
<1> DEFINE n    == Len(nap)
           rest == [k \in 1 .. n + 1 |-> IF k <= b THEN nap[k]
                                         ELSE IF k = b + 1 THEN cur_pid ELSE nap[k - 1]]
<1>0. /\ NapLine(first_slept, sleeping, nap) /\ cur_pid \in Pids /\ cur_pid \notin Napping(nap)
      /\ time \in Nat /\ time > 0
      /\ b = Cardinality({k \in 1 .. Len(SleepChain) : Due[k] < time})
      /\ sl = Inserted(b, time)
      /\ first = IF b = 0 THEN cur_pid ELSE first_slept
  BY DEF Naps
<1>1. SleepChain = nap
  BY <1>0, ChainIs DEF SleepChain, NapLine
<1>2. /\ b \in 0 .. n /\ time - Due[b] \in Nat /\ time - Due[b] > 0
      /\ b < n => sleeping[nap[b + 1]].time - (time - Due[b]) \in Nat
  BY <1>0, <1>1, SleepPlace
<1>3. /\ n \in Nat
      /\ \A k \in 1 .. n : /\ nap[k] \in Pids /\ nap[k] # FREE_PCB_PID
                           /\ sleeping[nap[k]] \in Sleeper /\ sleeping[nap[k]].time \in Nat
                           /\ sleeping[nap[k]].next
                                = IF k = n THEN FREE_PCB_PID ELSE nap[k + 1]
      /\ first_slept = IF n = 0 THEN FREE_PCB_PID ELSE nap[1]
      /\ \A j, k \in 1 .. n : nap[j] = nap[k] => j = k
  BY <1>0, NapFields
<1>4. /\ sleeping \in [Pids -> Sleeper] /\ cur_pid \in Pids
      /\ \A k \in 1 .. n : nap[k] # cur_pid
      /\ n # 0 => sleeping[nap[1]].time > 0
  BY <1>0, <1>3 DEF NapLine, Napping
<1> DEFINE wait == time - Due[b]
           prev == nap[b]
           next == IF b = n THEN FREE_PCB_PID ELSE nap[b + 1]
<1>5. /\ sl = [p \in Pids |->
                 CASE p = cur_pid -> [id |-> cur_pid, time |-> wait, next |-> next]
                   [] b > 0 /\ p = prev -> [sleeping[p] EXCEPT !.next = cur_pid]
                   [] b < n /\ p = next -> [sleeping[p] EXCEPT !.time = @ - wait]
                   [] OTHER -> sleeping[p]]
  <2>1. b < n => next = nap[b + 1]
    BY <1>2, <1>3
  <2>2. \A p \in Pids : (b < n /\ p = next) <=> (b < n /\ p = nap[b + 1])
    BY <2>1
  <2>3. QED
    BY <1>0, <1>1, <2>2 DEF Inserted
<1>6. /\ next \in Pids \cup {FREE_PCB_PID} /\ next # cur_pid
      /\ b > 0 => b \in 1 .. n /\ prev \in Pids /\ prev # cur_pid /\ prev # next
      /\ b < n => b + 1 \in 1 .. n /\ next = nap[b + 1] /\ next \in Pids
  <2>1. b > 0 => b \in 1 .. n /\ prev \in Pids /\ prev # cur_pid
    BY <1>2, <1>3, <1>4
  <2>2. b < n => b + 1 \in 1 .. n /\ next = nap[b + 1] /\ next \in Pids /\ next # cur_pid
    BY <1>2, <1>3, <1>4
  <2>3. b = n => next = FREE_PCB_PID
    OBVIOUS
  <2>4. b < n \/ b = n
    BY <1>2, <1>3
  <2>5. FREE_PCB_PID \notin Pids
    BY SchedAssumption DEF Pids, FREE_PCB_PID
  <2>6. b > 0 => prev # next
    <3>1. CASE b < n
      <4>1. b > 0 => b # b + 1
        BY <1>2
      <4>2. QED
        BY <1>3, <2>1, <2>2, <4>1
    <3>2. CASE b = n
      BY <2>1, <2>3, <2>5, <3>2
    <3>3. QED
      BY <2>4, <3>1, <3>2
  <2>7. QED
    BY <1>4, <2>1, <2>2, <2>3, <2>4, <2>5, <2>6
<1> HIDE DEF n, wait, prev, next
<1>7. /\ sl[cur_pid] = [id |-> cur_pid, time |-> wait, next |-> next]
      /\ b > 0 => sl[prev] = [sleeping[prev] EXCEPT !.next = cur_pid]
      /\ b < n => sl[next] = [sleeping[next] EXCEPT !.time = @ - wait]
      /\ \A p \in Pids : /\ p # cur_pid /\ ~ (b > 0 /\ p = prev) /\ ~ (b < n /\ p = next)
                         => sl[p] = sleeping[p]
  <2>1. sl[cur_pid] = [id |-> cur_pid, time |-> wait, next |-> next]
    BY <1>4, <1>5, <1>6
  <2>2. b > 0 => sl[prev] = [sleeping[prev] EXCEPT !.next = cur_pid]
    BY <1>5, <1>6
  <2>3. b < n => sl[next] = [sleeping[next] EXCEPT !.time = @ - wait]
    BY <1>5, <1>6
  <2>4. \A p \in Pids : /\ p # cur_pid /\ ~ (b > 0 /\ p = prev) /\ ~ (b < n /\ p = next)
                        => sl[p] = sleeping[p]
    BY <1>5
  <2>5. QED
    BY <2>1, <2>2, <2>3, <2>4
<1>8. /\ sl[cur_pid] \in Sleeper /\ sl[cur_pid].next = next /\ sl[cur_pid].time = wait
      /\ b > 0 => /\ sl[prev] \in Sleeper /\ sl[prev].next = cur_pid
                  /\ sl[prev].time = sleeping[prev].time
      /\ b < n => /\ sl[next] \in Sleeper /\ sl[next].next = sleeping[next].next
                  /\ sl[next].time = sleeping[next].time - wait
  <2>1. wait \in Nat
    BY <1>2 DEF wait
  <2>2. sl[cur_pid] \in Sleeper /\ sl[cur_pid].next = next /\ sl[cur_pid].time = wait
    BY <1>4, <1>6, <1>7, <2>1 DEF Sleeper
  <2>3. ASSUME b > 0
        PROVE  /\ sl[prev] \in Sleeper /\ sl[prev].next = cur_pid
               /\ sl[prev].time = sleeping[prev].time
    <3>1. sleeping[prev] \in Sleeper /\ sl[prev] = [sleeping[prev] EXCEPT !.next = cur_pid]
      BY <1>4, <1>6, <1>7, <2>3
    <3>2. QED
      BY <1>4, <3>1 DEF Sleeper
  <2>4. ASSUME b < n
        PROVE  /\ sl[next] \in Sleeper /\ sl[next].next = sleeping[next].next
               /\ sl[next].time = sleeping[next].time - wait
    <3>1. sleeping[next] \in Sleeper /\ sl[next] = [sleeping[next] EXCEPT !.time = @ - wait]
      BY <1>4, <1>6, <1>7, <2>4
    <3>2. sleeping[next].time - wait \in Nat
      BY <1>2, <1>6, <2>4 DEF wait, n
    <3>3. QED
      BY <3>1, <3>2 DEF Sleeper
  <2>5. QED
    BY <2>2, <2>3, <2>4
<1>9. sl \in [Pids -> Sleeper]
  <2>1. \A p \in Pids : sl[p] \in Sleeper
    BY <1>4, <1>7, <1>8
  <2>2. sl = [p \in Pids |-> sl[p]]
    BY <1>5
  <2>3. QED
    BY <2>1, <2>2
<1>10. /\ rest \in Seq(Pids) /\ Len(rest) = n + 1
       /\ \A k \in 1 .. n + 1 : rest[k] = IF k <= b THEN nap[k]
                                         ELSE IF k = b + 1 THEN cur_pid ELSE nap[k - 1]
  <2>1. ASSUME NEW k \in 1 .. n + 1
        PROVE  /\ k <= b => k \in 1 .. n
               /\ k > b + 1 => k - 1 \in 1 .. n
    BY <1>2, <1>3 DEF n
  <2>2. \A k \in 1 .. n + 1 : rest[k] = IF k <= b THEN nap[k]
                                       ELSE IF k = b + 1 THEN cur_pid ELSE nap[k - 1]
    OBVIOUS
  <2>3. \A k \in 1 .. n + 1 : rest[k] \in Pids
    <3> SUFFICES ASSUME NEW k \in 1 .. n + 1 PROVE rest[k] \in Pids
      OBVIOUS
    <3>1. k <= b \/ k = b + 1 \/ k > b + 1
      BY <1>2
    <3>2. QED
      BY <1>2, <1>3, <1>4, <2>1, <2>2, <3>1
  <2>4. rest = [k \in 1 .. n + 1 |-> rest[k]] /\ n + 1 \in Nat
    BY <1>3
  <2> HIDE DEF rest
  <2>5. rest \in [1 .. n + 1 -> Pids]
    BY <2>3, <2>4
  <2>6. QED
    BY <2>2, <2>4, <2>5
<1> HIDE DEF rest
<1>11. ASSUME NEW k \in 1 .. n + 1
       PROVE  sl[rest[k]].next = IF k = n + 1 THEN FREE_PCB_PID ELSE rest[k + 1]
  <2>1. CASE k < b
    <3>1. k \in 1 .. n /\ k + 1 \in 1 .. n + 1 /\ k + 1 <= b /\ k # n /\ k # b /\ k # b + 1
          /\ b > 0 /\ k # n + 1 /\ b \in 1 .. n
      BY <1>2, <1>3, <2>1 DEF n
    <3>2. rest[k] = nap[k] /\ rest[k + 1] = nap[k + 1]
      BY <1>10, <2>1, <3>1
    <3>3. nap[k] # prev /\ (b < n => nap[k] # next) /\ nap[k] # cur_pid /\ nap[k] \in Pids
      BY <1>3, <1>4, <1>6, <3>1 DEF prev
    <3>4. sl[nap[k]] = sleeping[nap[k]] /\ sleeping[nap[k]].next = nap[k + 1]
      BY <1>3, <1>7, <3>1, <3>3
    <3>5. QED
      BY <3>1, <3>2, <3>4
  <2>2. CASE k = b
    <3>1. b > 0 /\ k + 1 \in 1 .. n + 1 /\ k # n + 1 /\ ~ (k + 1 <= b)
      BY <1>2, <1>3, <2>2 DEF n
    <3>2. rest[k] = prev /\ rest[k + 1] = cur_pid
      BY <1>10, <2>2, <3>1 DEF prev
    <3>3. QED
      BY <1>8, <3>1, <3>2
  <2>3. CASE k = b + 1
    <3>1. ~ (k <= b) /\ (k # n + 1 => k + 1 \in 1 .. n + 1 /\ b # n /\ b < n
                                     /\ ~ (k + 1 <= b) /\ k + 1 # b + 1)
          /\ (k = n + 1 => b = n) /\ (k + 1) - 1 = b + 1
      BY <1>2, <1>3, <2>3 DEF n
    <3>2. rest[k] = cur_pid /\ (k # n + 1 => rest[k + 1] = nap[b + 1])
      BY <1>10, <2>3, <3>1
    <3>3. (k = n + 1 => next = FREE_PCB_PID) /\ (k # n + 1 => next = nap[b + 1])
      BY <3>1 DEF next
    <3>4. QED
      BY <1>8, <3>1, <3>2, <3>3
  <2>4. CASE k > b + 1
    <3>1. /\ k - 1 \in 1 .. n /\ ~ (k <= b) /\ k # b + 1
          /\ (k # n + 1 => k + 1 \in 1 .. n + 1 /\ ~ (k + 1 <= b) /\ k + 1 # b + 1)
          /\ (k + 1) - 1 = k /\ (k - 1) + 1 = k /\ (k - 1 = n <=> k = n + 1) /\ b < n
          /\ (b > 0 => k - 1 # b)
      <4>1. n \in Nat /\ b \in Nat /\ b <= n /\ k \in 1 .. n + 1 /\ k > b + 1
        BY <1>2, <1>3, <2>4 DEF n
      <4>2. k \in Nat /\ k <= n + 1
        BY <4>1
      <4>3. k # n + 1 => k + 1 \in 1 .. n + 1 /\ ~ (k + 1 <= b) /\ k + 1 # b + 1
        BY <4>1, <4>2
      <4>4. k - 1 \in 1 .. n /\ ~ (k <= b) /\ k # b + 1
        BY <4>1, <4>2
      <4>5. /\ (k + 1) - 1 = k /\ (k - 1) + 1 = k /\ (k - 1 = n <=> k = n + 1) /\ b < n
            /\ (b > 0 => k - 1 # b)
        BY <4>1, <4>2
      <4>6. QED
        BY <4>3, <4>4, <4>5
    <3>2. rest[k] = nap[k - 1] /\ (k # n + 1 => rest[k + 1] = nap[k])
      BY <1>10, <3>1
    <3>3. sleeping[nap[k - 1]].next = IF k = n + 1 THEN FREE_PCB_PID ELSE nap[k]
      BY <1>3, <3>1
    <3>4. nap[k - 1] \in Pids /\ nap[k - 1] # cur_pid /\ (b > 0 => nap[k - 1] # prev)
      BY <1>3, <1>4, <1>6, <3>1 DEF prev
    <3>5. sl[nap[k - 1]].next = sleeping[nap[k - 1]].next
      <4>1. CASE nap[k - 1] = next
        BY <1>8, <3>1, <4>1
      <4>2. CASE nap[k - 1] # next
        BY <1>7, <3>4, <4>2
      <4>3. QED
        BY <4>1, <4>2
    <3>6. QED
      BY <3>2, <3>3, <3>5
  <2>5. k < b \/ k = b \/ k = b + 1 \/ k > b + 1
    BY <1>2
  <2>6. QED
    BY <2>1, <2>2, <2>3, <2>4, <2>5
<1>12. first = rest[1] /\ 1 \in 1 .. n + 1
  <2>1. 1 \in 1 .. n + 1 /\ (1 <= b <=> b # 0) /\ (1 = b + 1 <=> b = 0) /\ (b # 0 => n # 0)
    BY <1>2, <1>3 DEF n
  <2>2. rest[1] = IF b = 0 THEN cur_pid ELSE nap[1]
    BY <1>10, <2>1
  <2>3. QED
    BY <1>0, <1>3, <2>1, <2>2
<1>13. sl[rest[1]].time > 0
  <2>1. CASE b = 0
    BY <1>0, <1>2, <1>8, <1>12, <2>1 DEF wait
  <2>2. CASE b # 0
    <3>1. b > 0 /\ n # 0 /\ 1 \in 1 .. n /\ rest[1] = nap[1] /\ 1 <= b
      BY <1>2, <1>3, <1>10, <1>12, <2>2 DEF n
    <3>2. CASE b = 1
      <4>1. prev = nap[1]
        BY <3>2 DEF prev
      <4>2. QED
        BY <1>4, <1>8, <3>1, <4>1
    <3>3. CASE b # 1
      <4>1. b \in 1 .. n /\ (b < n => b + 1 \in 1 .. n /\ b + 1 # 1)
        BY <1>2, <1>3, <3>1 DEF n
      <4>2. nap[1] # prev /\ (b < n => nap[1] # next)
        BY <1>3, <1>6, <3>1, <3>3, <4>1 DEF prev
      <4>3. sl[nap[1]] = sleeping[nap[1]]
        BY <1>3, <1>4, <1>7, <3>1, <4>2
      <4>4. QED
        BY <1>4, <3>1, <4>3
    <3>4. QED
      BY <3>2, <3>3
  <2>3. QED
    BY <2>1, <2>2
<1>14. \A j, k \in 1 .. n + 1 : rest[j] = rest[k] => j = k
  <2> DEFINE old(k) == IF k <= b THEN k ELSE k - 1
  <2>1. \A k \in 1 .. n + 1 : k # b + 1 => old(k) \in 1 .. n /\ rest[k] = nap[old(k)]
    <3> SUFFICES ASSUME NEW k \in 1 .. n + 1, k # b + 1
                 PROVE  old(k) \in 1 .. n /\ rest[k] = nap[old(k)]
      OBVIOUS
    <3>1. old(k) \in 1 .. n
      BY <1>2, <1>3 DEF n
    <3>2. QED
      BY <1>10, <3>1
  <2>2. \A j, k \in 1 .. n + 1 : j # b + 1 /\ k # b + 1 /\ old(j) = old(k) => j = k
    BY <1>2, <1>3
  <2>3. b + 1 \in 1 .. n + 1 /\ rest[b + 1] = cur_pid
    <3>1. b + 1 \in 1 .. n + 1 /\ ~ (b + 1 <= b)
      BY <1>2, <1>3 DEF n
    <3>2. QED
      BY <1>10, <3>1
  <2> HIDE DEF old
  <2>4. \A k \in 1 .. n + 1 : k # b + 1 => rest[k] # cur_pid
    BY <1>4, <2>1
  <2>5. \A j, k \in 1 .. n + 1 : j # b + 1 /\ k # b + 1 /\ rest[j] = rest[k] => j = k
    BY <1>3, <2>1, <2>2
  <2>6. QED
    BY <2>3, <2>4, <2>5
<1>15. NapLine(first, sl, rest)
  <2> DEFINE links == [p \in Pids |-> sl[p].next]
  <2>1. n + 1 # 0 /\ \A k \in 1 .. n + 1 : rest[k] \in Pids
    BY <1>3, <1>10 DEF n
  <2>2. \A k \in 1 .. n + 1 : links[rest[k]] = sl[rest[k]].next
    BY <2>1
  <2> HIDE DEF links
  <2>3. Visits(first, links, rest)
    <3>1. first = IF Len(rest) = 0 THEN FREE_PCB_PID ELSE rest[1]
      BY <1>10, <1>12, <2>1
    <3>2. \A k \in 1 .. Len(rest) :
             links[rest[k]] = IF k = Len(rest) THEN FREE_PCB_PID ELSE rest[k + 1]
      BY <1>10, <1>11, <2>2
    <3>3. \A j, k \in 1 .. Len(rest) : rest[j] = rest[k] => j = k
      BY <1>10, <1>14
    <3>4. QED
      BY <3>1, <3>2, <3>3 DEF Visits
  <2>4. QED
    BY <1>9, <1>10, <1>13, <2>3 DEF NapLine, links
<1>16. Napping(rest) = Napping(nap) \cup {cur_pid}
  <2>1. ASSUME NEW k \in 1 .. n + 1
        PROVE  rest[k] = cur_pid \/ \E j \in 1 .. n : nap[j] = rest[k]
    <3>1. /\ k <= b => k \in 1 .. n
          /\ k > b + 1 => k - 1 \in 1 .. n
          /\ k <= b \/ k = b + 1 \/ k > b + 1
      BY <1>2, <1>3 DEF n
    <3>2. QED
      BY <1>10, <3>1
  <2>2. ASSUME NEW k \in 1 .. n
        PROVE  \E j \in 1 .. n + 1 : rest[j] = nap[k]
    <3>1. CASE k <= b
      <4>1. k \in 1 .. n + 1
        BY <1>3 DEF n
      <4>2. QED
        BY <1>10, <3>1, <4>1
    <3>2. CASE ~ (k <= b)
      <4>1. k + 1 \in 1 .. n + 1 /\ ~ (k + 1 <= b) /\ k + 1 # b + 1 /\ (k + 1) - 1 = k
        BY <1>2, <1>3, <3>2 DEF n
      <4>2. rest[k + 1] = nap[k]
        BY <1>10, <4>1
      <4>3. QED
        BY <4>1, <4>2
    <3>3. QED
      BY <3>1, <3>2
  <2>3. b + 1 \in 1 .. n + 1 /\ rest[b + 1] = cur_pid
    <3>1. b + 1 \in 1 .. n + 1 /\ ~ (b + 1 <= b)
      BY <1>2, <1>3 DEF n
    <3>2. QED
      BY <1>10, <3>1
  <2>4. Napping(rest) = {p \in Pids : \E k \in 1 .. n + 1 : rest[k] = p}
    BY <1>10 DEF Napping
  <2>5. Napping(nap) = {p \in Pids : \E k \in 1 .. n : nap[k] = p}
    BY DEF Napping, n
  <2>6. QED
    BY <1>4, <2>1, <2>2, <2>3, <2>4, <2>5
<1>17. Due = Alarms(sleeping, nap)
  <2>1. Due = Alarms(sleeping, SleepChain)
    BY DEF Due, Alarms
  <2>2. QED
    BY <1>1, <2>1
<1>18. ASSUME NEW k \in 1 .. n
       PROVE  sl[nap[k]].time = IF k = b + 1 THEN sleeping[nap[k]].time - wait
                                ELSE sleeping[nap[k]].time
  <2>1. CASE k = b
    <3>1. b > 0 /\ k # b + 1 /\ nap[k] = prev
      BY <1>2, <2>1 DEF prev
    <3>2. QED
      BY <1>8, <3>1
  <2>2. CASE k = b + 1
    <3>1. b < n /\ nap[k] = next
      BY <1>2, <1>3, <1>6, <2>2 DEF n
    <3>2. QED
      BY <1>8, <2>2, <3>1
  <2>3. CASE k # b /\ k # b + 1
    <3>1. ~ (b > 0 /\ nap[k] = prev) /\ ~ (b < n /\ nap[k] = next)
      BY <1>3, <1>6, <2>3 DEF prev
    <3>2. sl[nap[k]] = sleeping[nap[k]]
      BY <1>3, <1>4, <1>7, <3>1
    <3>3. QED
      BY <2>3, <3>2
  <2>4. QED
    BY <2>1, <2>2, <2>3
<1>19. \A p \in Pids : AlarmIn(sl, rest, p) = IF p = cur_pid THEN time
                                             ELSE AlarmIn(sleeping, nap, p)
  <2> DEFINE f   == first_slept
             old == sleeping
             c   == cur_pid
  <2>1. /\ NapLine(f, old, nap) /\ NapLine(first, sl, rest)
        /\ c \in Pids \ Napping(nap) /\ time \in Nat /\ b \in 0 .. Len(nap)
        /\ Len(rest) = Len(nap) + 1
    BY <1>0, <1>2, <1>10, <1>15 DEF n
  <2>2. \A k \in 1 .. Len(nap) + 1 : rest[k] = IF k <= b THEN nap[k]
                                                ELSE IF k = b + 1 THEN c ELSE nap[k - 1]
    BY <1>10 DEF n
  <2>3. /\ sl[c].time = time - Alarms(old, nap)[b]
        /\ \A k \in 1 .. Len(nap) :
             sl[nap[k]].time = IF k = b + 1 THEN old[nap[k]].time - (time - Alarms(old, nap)[b])
                               ELSE old[nap[k]].time
    BY <1>8, <1>17, <1>18 DEF n, wait
  <2> HIDE DEF f, old, c
  <2>4. Joins(f, old, nap, c, time, b, first, sl, rest)
    BY <2>1, <2>2, <2>3 DEF Joins
  <2>5. \A p \in Pids : AlarmIn(sl, rest, p) = IF p = c THEN time ELSE AlarmIn(old, nap, p)
    BY <2>4, JoinAlarms
  <2>6. QED
    BY <2>5 DEF old, c
<1>20. QED
  BY <1>15, <1>16, <1>19

(* What loader_tick does to sleeping[] and to first_slept (loader.c). *)
CountsDown(nap, woken, sl, first) ==
  /\ NapLine(first_slept, sleeping, nap)
  /\ woken = Expired
  /\ sl = [p \in Pids |->
              [id   |-> IF Contains(woken, p) THEN FREE_PCB_PID ELSE sleeping[p].id,
               time |-> IF p = first_slept THEN sleeping[p].time - 1 ELSE sleeping[p].time,
               next |-> sleeping[p].next]]
  /\ first = IF woken = <<>> THEN first_slept ELSE sleeping[Last(woken)].next

(* What becomes of the sleepers nap when those in up wake: the alarm of    *)
(* each of these is one tick away, and the others sleep on, one tick       *)
(* nearer to theirs.                                                       *)
SleepOn(nap, up, sl, first) ==
  /\ \A p \in Pids : AlarmIn(sleeping, nap, p) = 1 <=> p \in up
  /\ \E rest : /\ NapLine(first, sl, rest)
               /\ Napping(rest) \cup up = Napping(nap)
               /\ Napping(rest) \cap up = {}
               /\ \A p \in Pids : AlarmIn(sl, rest, p)
                                   = IF AlarmIn(sleeping, nap, p) > 0
                                     THEN AlarmIn(sleeping, nap, p) - 1 ELSE 0

LEMMA TickWakes ==
  ASSUME NEW nap, NEW woken, NEW sl, NEW first, CountsDown(nap, woken, sl, first)
  PROVE  /\ woken \in Seq(Pids)
         /\ \A j, k \in 1 .. Len(woken) : woken[j] = woken[k] => j = k
         /\ SleepOn(nap, {woken[k] : k \in 1 .. Len(woken)}, sl, first)
<1> DEFINE n  == Len(nap)
           up == {k \in 1 .. n : /\ sleeping[first_slept].time = 1
                                 /\ \A j \in 2 .. k : sleeping[nap[j]].time = 0}
           m  == Cardinality(up)
           rest == SubSeq(nap, m + 1, n)
<1>0. /\ NapLine(first_slept, sleeping, nap)
      /\ woken = Expired
      /\ sl = [p \in Pids |->
                  [id   |-> IF Contains(woken, p) THEN FREE_PCB_PID ELSE sleeping[p].id,
                   time |-> IF p = first_slept THEN sleeping[p].time - 1 ELSE sleeping[p].time,
                   next |-> sleeping[p].next]]
      /\ first = IF woken = <<>> THEN first_slept ELSE sleeping[Last(woken)].next
  BY DEF CountsDown
<1>1. /\ n \in Nat
      /\ \A k \in 1 .. n : /\ nap[k] \in Pids /\ nap[k] # FREE_PCB_PID
                           /\ sleeping[nap[k]].time \in Nat
                           /\ sleeping[nap[k]].next
                                = IF k = n THEN FREE_PCB_PID ELSE nap[k + 1]
      /\ first_slept = IF n = 0 THEN FREE_PCB_PID ELSE nap[1]
      /\ \A j, k \in 1 .. n : nap[j] = nap[k] => j = k
  BY <1>0, NapFields
<1>2. /\ nap \in Seq(Pids) /\ sleeping \in [Pids -> Sleeper]
      /\ n # 0 => sleeping[nap[1]].time > 0
  BY <1>0 DEF NapLine
<1>3. woken = SubSeq(nap, 1, m)
  <2>1. SleepChain = nap
    BY <1>0, ChainIs DEF SleepChain, NapLine
  <2>2. QED
    BY <1>0, <2>1 DEF Expired
<1> HIDE DEF n
<1>4. m \in 0 .. n /\ up = 1 .. m
  <2>1. up \in SUBSET (1 .. n) /\ \A k \in up : \A j \in 1 .. k : j \in up
    BY <1>1
  <2> HIDE DEF up
  <2>2. QED
    BY <1>1, <2>1, PrefixIs
<1> HIDE DEF m
<1>5. /\ woken \in Seq(Pids) /\ Len(woken) = m
      /\ \A k \in 1 .. m : woken[k] = nap[k] /\ k \in 1 .. n
      /\ rest \in Seq(Pids) /\ Len(rest) = n - m
      /\ \A k \in 1 .. n - m : rest[k] = nap[m + k] /\ m + k \in 1 .. n
  <2>1. /\ \A k \in 1 .. m : k \in 1 .. n
        /\ \A k \in 1 .. n - m : m + k \in 1 .. n /\ (m + 1) + k - 1 = m + k
    BY <1>1, <1>4
  <2>2. \A k \in 1 .. n : nap[k] \in Pids
    BY <1>1
  <2>3. woken \in Seq(Pids) /\ Len(woken) = m /\ \A k \in 1 .. m : woken[k] = nap[k]
    BY <1>1, <1>2, <1>3, <1>4, <2>1 DEF n
  <2>4. rest \in Seq(Pids) /\ Len(rest) = n - m /\ \A k \in 1 .. n - m : rest[k] = nap[m + k]
    BY <1>1, <1>2, <1>4, <2>1 DEF n
  <2>5. QED
    BY <2>1, <2>3, <2>4
<1> HIDE DEF rest, up
<1>6. \A j, k \in 1 .. Len(woken) : woken[j] = woken[k] => j = k
  <2> SUFFICES ASSUME NEW j \in 1 .. m, NEW k \in 1 .. m, woken[j] = woken[k]
               PROVE  j = k
    BY <1>5
  <2>1. nap[j] = nap[k] /\ j \in 1 .. n /\ k \in 1 .. n
    BY <1>5
  <2>2. QED
    BY <1>1, <2>1
<1>7. first = IF m = n THEN FREE_PCB_PID ELSE nap[m + 1]
  <2>1. CASE m = 0
    <3>1. woken = <<>>
      BY <1>5, <2>1
    <3>2. QED
      BY <1>0, <1>1, <2>1, <3>1
  <2>2. CASE m # 0
    <3>1. m \in 1 .. m /\ m \in 1 .. n
      BY <1>1, <1>4, <2>2
    <3>2. woken # <<>> /\ Last(woken) = nap[m]
      BY <1>5, <2>2, <3>1 DEF Last
    <3>3. QED
      BY <1>0, <1>1, <3>1, <3>2
  <2>3. QED
    BY <2>1, <2>2
<1>8. ASSUME NEW p \in Pids
      PROVE  /\ sl[p] \in Sleeper /\ sl[p].next = sleeping[p].next
             /\ sl[p].time = IF p = first_slept THEN sleeping[p].time - 1 ELSE sleeping[p].time
  <2> DEFINE time == IF p = first_slept THEN sleeping[p].time - 1 ELSE sleeping[p].time
             id   == IF Contains(woken, p) THEN FREE_PCB_PID ELSE sleeping[p].id
  <2>1. sleeping[p] \in Sleeper
    BY <1>2
  <2>2. sl[p] = [id |-> id, time |-> time, next |-> sleeping[p].next]
    BY <1>0
  <2>3. time \in Nat
    <3>1. FREE_PCB_PID \notin Pids
      BY SchedAssumption DEF Pids, FREE_PCB_PID
    <3>2. sleeping[p].time \in Nat
      BY <2>1 DEF Sleeper
    <3>3. p = first_slept => sleeping[p].time > 0
      BY <1>1, <1>2, <3>1
    <3>4. QED
      BY <3>2, <3>3
  <2>4. id \in Pids \cup {FREE_PCB_PID}
    BY <2>1 DEF Sleeper
  <2> HIDE DEF time, id
  <2>5. sl[p] \in Sleeper /\ sl[p].next = sleeping[p].next /\ sl[p].time = time
    BY <2>1, <2>2, <2>3, <2>4 DEF Sleeper
  <2>6. QED
    BY <2>5 DEF time
<1>9. sl \in [Pids -> Sleeper]
  <2>1. sl = [p \in Pids |-> sl[p]]
    BY <1>0
  <2>2. QED
    BY <1>8, <2>1
<1>10. Len(rest) # 0 => sl[rest[1]].time > 0
  <2> SUFFICES ASSUME Len(rest) # 0 PROVE sl[rest[1]].time > 0
    OBVIOUS
  <2>1. m < n /\ m + 1 \in 1 .. n /\ m + 1 \notin up /\ 1 \in 1 .. n - m /\ n # 0
        /\ rest[1] = nap[m + 1] /\ 1 \in 1 .. n
    <3>1. m < n
      BY <1>1, <1>4, <1>5
    <3>2. m + 1 \in 1 .. n /\ m + 1 \notin 1 .. m /\ 1 \in 1 .. n - m /\ n # 0 /\ 1 \in 1 .. n
      BY <1>1, <1>4, <3>1
    <3>3. QED
      BY <1>4, <1>5, <3>1, <3>2
  <2>2. ~ (/\ sleeping[nap[1]].time = 1
           /\ \A j \in 2 .. m + 1 : sleeping[nap[j]].time = 0)
    BY <1>1, <2>1 DEF up
  <2>3. nap[1] \in Pids /\ nap[m + 1] \in Pids /\ first_slept = nap[1]
        /\ sleeping[nap[1]].time \in Nat /\ sleeping[nap[m + 1]].time \in Nat
    BY <1>1, <2>1
  <2>4. CASE m = 0
    <3>1. 2 .. m + 1 = {}
      BY <2>4
    <3>2. sleeping[nap[1]].time # 1
      BY <2>2, <3>1
    <3>3. sl[nap[1]].time = sleeping[nap[1]].time - 1
      BY <1>8, <2>3
    <3>4. QED
      BY <1>2, <2>1, <2>3, <2>4, <3>2, <3>3
  <2>5. CASE m # 0
    <3>1. m \in up
      BY <1>4, <2>5
    <3>2. sleeping[nap[1]].time = 1 /\ \A j \in 2 .. m : sleeping[nap[j]].time = 0
      BY <2>3, <3>1 DEF up
    <3>3. \A j \in 2 .. m + 1 : j = m + 1 \/ j \in 2 .. m
      BY <1>4
    <3>4. sleeping[nap[m + 1]].time # 0
      BY <2>2, <3>2, <3>3
    <3>5. nap[m + 1] # first_slept
      BY <1>1, <1>4, <2>1, <2>3, <2>5
    <3>6. QED
      BY <1>8, <2>1, <2>3, <3>4, <3>5
  <2>6. QED
    BY <2>4, <2>5
<1> HIDE DEF up
<1>11. NapLine(first, sl, rest)
  <2> DEFINE links == [p \in Pids |-> sl[p].next]
  <2>1. \A k \in 1 .. n - m : rest[k] \in Pids /\ links[rest[k]] = sleeping[nap[m + k]].next
    BY <1>1, <1>5, <1>8
  <2> HIDE DEF links
  <2>2. /\ n - m \in Nat /\ (n - m = 0 <=> m = n) /\ (n - m # 0 => 1 \in 1 .. n - m)
        /\ \A k \in 1 .. n - m : m + k = n <=> k = n - m
        /\ \A k \in 1 .. n - m :
             k # n - m => k + 1 \in 1 .. n - m /\ m + (k + 1) = (m + k) + 1
    BY <1>1, <1>4
  <2>3. first = IF Len(rest) = 0 THEN FREE_PCB_PID ELSE rest[1]
    BY <1>5, <1>7, <2>2
  <2>4. \A k \in 1 .. Len(rest) :
           links[rest[k]] = IF k = Len(rest) THEN FREE_PCB_PID ELSE rest[k + 1]
    <3> SUFFICES ASSUME NEW k \in 1 .. n - m
                 PROVE  links[rest[k]] = IF k = n - m THEN FREE_PCB_PID ELSE rest[k + 1]
      BY <1>5
    <3>1. links[rest[k]] = IF m + k = n THEN FREE_PCB_PID ELSE nap[(m + k) + 1]
      <4>1. m + k \in 1 .. n /\ links[rest[k]] = sleeping[nap[m + k]].next
        BY <1>5, <2>1
      <4>2. QED
        BY <1>1, <4>1
    <3>2. k # n - m => rest[k + 1] = nap[(m + k) + 1]
      BY <1>5, <2>2
    <3>3. QED
      BY <2>2, <3>1, <3>2
  <2>5. \A j, k \in 1 .. Len(rest) : rest[j] = rest[k] => j = k
    <3> SUFFICES ASSUME NEW j \in 1 .. n - m, NEW k \in 1 .. n - m, rest[j] = rest[k]
                 PROVE  j = k
      BY <1>5
    <3>1. m + j = m + k
      <4>1. /\ m + j \in 1 .. n /\ rest[j] = nap[m + j]
            /\ m + k \in 1 .. n /\ rest[k] = nap[m + k]
        BY <1>5
      <4>2. nap[m + j] = nap[m + k]
        BY <4>1
      <4>3. QED
        BY <1>1, <4>1, <4>2
    <3>2. QED
      BY <1>4, <3>1
  <2>6. Visits(first, links, rest)
    BY <2>3, <2>4, <2>5 DEF Visits
  <2>7. QED
    BY <1>5, <1>9, <1>10, <2>6 DEF NapLine, links
<1> DEFINE W == {woken[k] : k \in 1 .. Len(woken)}
<1>12. \A p : p \in W <=> \E k \in 1 .. m : nap[k] = p
  BY <1>5
<1>13. \A p : p \in Napping(rest) <=> \E k \in 1 .. n - m : nap[m + k] = p
  <2>1. \A p : p \in Napping(rest) <=> p \in Pids /\ \E k \in 1 .. n - m : rest[k] = p
    BY <1>5 DEF Napping
  <2>2. \A k \in 1 .. n - m : rest[k] \in Pids /\ rest[k] = nap[m + k]
    BY <1>1, <1>5
  <2>3. QED
    BY <2>1, <2>2
<1>14. \A p : p \in Napping(nap) <=> \E k \in 1 .. n : nap[k] = p
  BY <1>1 DEF Napping, n
<1> HIDE DEF W
<1>15. Napping(rest) \cup W = Napping(nap)
  <2>1. \A k \in 1 .. n : k \in 1 .. m \/ (k - m \in 1 .. n - m /\ m + (k - m) = k)
    BY <1>1, <1>4
  <2>2. \A k \in 1 .. n : nap[k] \in Napping(rest) \cup W
    BY <1>12, <1>13, <2>1
  <2>3. \A p \in Napping(rest) \cup W : \E k \in 1 .. n : nap[k] = p
    BY <1>5, <1>12, <1>13
  <2>4. QED
    BY <1>14, <2>2, <2>3
<1>16. Napping(rest) \cap W = {}
  <2> SUFFICES ASSUME NEW j \in 1 .. m, NEW k \in 1 .. n - m, nap[j] = nap[m + k]
               PROVE  FALSE
    BY <1>12, <1>13
  <2>1. j = m + k
    BY <1>1, <1>5
  <2>2. QED
    BY <1>4, <2>1
<1>17. Nears(first_slept, sleeping, nap, m, first, sl, rest)
  <2>1. \A k \in 1 .. n : sl[nap[k]].time = IF k = 1 THEN sleeping[nap[k]].time - 1
                                            ELSE sleeping[nap[k]].time
    <3> SUFFICES ASSUME NEW k \in 1 .. n
                 PROVE  sl[nap[k]].time = IF k = 1 THEN sleeping[nap[k]].time - 1
                                          ELSE sleeping[nap[k]].time
      OBVIOUS
    <3>1. nap[k] \in Pids /\ (nap[k] = first_slept <=> k = 1)
      <4>1. n # 0 /\ 1 \in 1 .. n
        BY <1>1
      <4>2. QED
        BY <1>1, <4>1
    <3>2. QED
      BY <1>8, <3>1
  <2>2. m # 0 => /\ sleeping[nap[1]].time = 1
                 /\ \A j \in 2 .. m : sleeping[nap[j]].time = 0
    <3>1. m # 0 => m \in up /\ n # 0
      BY <1>1, <1>4
    <3>2. QED
      BY <1>1, <3>1 DEF up
  <2>3. /\ m \in 0 .. Len(nap) /\ Len(rest) = Len(nap) - m
        /\ \A k \in 1 .. Len(nap) - m : rest[k] = nap[m + k]
    BY <1>4, <1>5 DEF n
  <2>4. \A k \in 1 .. Len(nap) : sl[nap[k]].time = IF k = 1 THEN sleeping[nap[k]].time - 1
                                                    ELSE sleeping[nap[k]].time
    BY <2>1 DEF n
  <2>5. NapLine(first_slept, sleeping, nap) /\ NapLine(first, sl, rest)
    BY <1>0, <1>11
  <2>6. QED
    BY <2>2, <2>3, <2>4, <2>5 DEF Nears
<1>18. /\ \A p \in Pids : AlarmIn(sl, rest, p) = IF AlarmIn(sleeping, nap, p) > 0
                                               THEN AlarmIn(sleeping, nap, p) - 1 ELSE 0
       /\ \A p \in Pids : AlarmIn(sleeping, nap, p) = 1 <=> p \in W
  <2> DEFINE f   == first_slept
             old == sleeping
  <2>1. Nears(f, old, nap, m, first, sl, rest)
    BY <1>17
  <2> HIDE DEF f, old
  <2>2. \A p \in Pids : AlarmIn(sl, rest, p) = IF AlarmIn(old, nap, p) > 0
                                               THEN AlarmIn(old, nap, p) - 1 ELSE 0
    BY <2>1, NearAlarms
  <2>3. \A p \in Pids : AlarmIn(old, nap, p) = 1 <=> \E k \in 1 .. m : nap[k] = p
    BY <2>1, NearAlarms
  <2>4. QED
    BY <1>12, <2>2, <2>3 DEF f, old
<1>19. SleepOn(nap, W, sl, first)
  BY <1>11, <1>15, <1>16, <1>18 DEF SleepOn
<1>20. QED
  BY <1>5, <1>6, <1>19 DEF W

-----------------------------------------------------------------------------
(* Who can run, who waits and who sleeps: the live processes, each once.   *)
Places(lines, nap) ==
  /\ WaitLines(Machine, lines)
  /\ NapLine(first_slept, sleeping, nap)
  /\ Napping(nap) \cap (LoadedPids(sched.tasks) \cup Waiting(lines)) = {}
  /\ LoadedPids(sched.tasks) \cup Waiting(lines) \cup Napping(nap) = Live

(* The inductive invariant: the lists are given by the sequences they hold.*)
IInv ==
  /\ \E lines, nap : Places(lines, nap)
  /\ processes[IDLE_PID].id = IDLE_PID
  /\ cur_pid = SchedPid(sched)
  /\ panic \in {NOBODY, "get_new_pid"}

(* What a step does to the lists: they were lines and nap, and become rest *)
(* and left.                                                               *)
Moves(lines, nap, rest, left) == Places(lines, nap) /\ Places(rest, left)'

(* The tasks that can run, without the one that runs, which passes the     *)
(* processor to one of them when there is one.                             *)
Leaves(ready, next) ==
  /\ ready = LoadedPids(sched.tasks) \ {cur_pid}
  /\ next \in IF ready = {} THEN {IDLE_PID} ELSE ready

(* get_new_pid returns a free pid when there is one. *)
LEMMA NewPid ==
  ASSUME NEW procs, FreePids(procs) # {}
  PROVE  get_new_pid(procs) \in Pids /\ procs[get_new_pid(procs)].id = FREE_PCB_PID
<1>1. FreePids(procs) \in SUBSET Nat
  BY SchedAssumption DEF FreePids, Pids
<1>2. \E p \in FreePids(procs) : \A o \in FreePids(procs) : p <= o
  BY <1>1, NatMin
<1>3. get_new_pid(procs) \in FreePids(procs)
  BY <1>2 DEF get_new_pid
<1>4. QED
  BY <1>3 DEF FreePids

LEMMA PidFacts ==
  /\ IDLE_PID \in Pids /\ FREE_PCB_PID \notin Pids /\ IDLE_PID # FREE_PCB_PID
  /\ FREE_QUEUE = FREE_PCB_PID
  BY SchedAssumption DEF Pids, IDLE_PID, FREE_PCB_PID, FREE_QUEUE

(* The fields of Machine. *)
LEMMA MachineIs ==
  /\ Machine.sched = sched /\ Machine.processes = processes /\ Machine.queue = queue
  /\ Machine'.sched = sched' /\ Machine'.processes = processes' /\ Machine'.queue = queue'
  BY DEF Machine

LEMMA SameLines ==
  ASSUME NEW st, NEW lines, NEW t, WaitLines(st, lines),
         t.sched = st.sched, t.processes = st.processes, t.queue = st.queue
  PROVE  WaitLines(t, lines)
  BY DEF WaitLines

LEMMA MachineStays ==
  ASSUME NEW lines, WaitLines(Machine, lines),
         SchedType(sched'), OneCircle(sched'),
         queue' = queue, processes' \in [Pids -> Pcb],
         \A p \in Waiting(lines) :
           /\ processes'[p].next = processes[p].next
           /\ processes'[p].prev = processes[p].prev
           /\ p \notin LoadedPids(sched'.tasks),
         \A p \in Pids \ Waiting(lines) :
           \/ p = IDLE_PID \/ processes'[p].id = FREE_PCB_PID
           \/ processes'[p].prev = FREE_PCB_PID /\ processes'[p].next = FREE_PCB_PID
  PROVE  WaitLines(Machine', lines)
<1> DEFINE st == Machine
           t  == Machine'
<1>1. /\ SchedType(t.sched) /\ OneCircle(t.sched)
      /\ t.queue = st.queue /\ t.processes \in [Pids -> Pcb]
      /\ \A p \in Waiting(lines) :
           /\ t.processes[p].next = st.processes[p].next
           /\ t.processes[p].prev = st.processes[p].prev
           /\ p \notin LoadedPids(t.sched.tasks)
      /\ \A p \in Pids \ Waiting(lines) :
           \/ p = IDLE_PID \/ t.processes[p].id = FREE_PCB_PID
           \/ t.processes[p].prev = FREE_PCB_PID /\ t.processes[p].next = FREE_PCB_PID
  BY MachineIs
<1>2. WaitLines(st, lines)
  OBVIOUS
<1> HIDE DEF st, t
<1>3. WaitLines(t, lines)
  BY <1>1, <1>2, LinesStay
<1>4. QED
  BY <1>3 DEF t

(* The task that runs is on the circle, and nowhere else. *)
LEMMA Runner ==
  ASSUME NEW lines, NEW nap, Places(lines, nap), cur_pid = SchedPid(sched), cur_pid # IDLE_PID
  PROVE  /\ SchedType(sched) /\ OneCircle(sched) /\ sched.actual # NULL
         /\ sched.tasks[sched.actual].pd = cur_pid
         /\ cur_pid \in Pids /\ cur_pid \in LoadedPids(sched.tasks)
         /\ cur_pid \notin Waiting(lines) /\ cur_pid \notin Napping(nap)
         /\ cur_pid \in Live /\ processes[cur_pid].id # FREE_PCB_PID
         /\ processes[cur_pid].next = FREE_PCB_PID /\ processes[cur_pid].prev = FREE_PCB_PID
         /\ ~ Linked(cur_pid)
<1>1. SchedType(sched) /\ OneCircle(sched)
  BY MachineIs DEF Places, WaitLines
<1>2. sched.actual # NULL /\ sched.tasks[sched.actual].pd = cur_pid
  BY DEF SchedPid
<1>3. cur_pid \in LoadedPids(sched.tasks)
  BY <1>1, <1>2 DEF OneCircle, LoadedPids
<1>4. cur_pid \in Live
  BY <1>3 DEF Places
<1>5. cur_pid \in Pids /\ processes[cur_pid].id # FREE_PCB_PID
  BY <1>4 DEF Live
<1>6. cur_pid \notin Waiting(lines) /\ cur_pid \notin Napping(nap)
  BY <1>3, MachineIs DEF Places, WaitLines
<1>7. processes[cur_pid].next = FREE_PCB_PID /\ processes[cur_pid].prev = FREE_PCB_PID
  BY <1>5, <1>6, MachineIs DEF Places, WaitLines
<1>8. ~ Linked(cur_pid)
  BY <1>7, PidFacts DEF Linked
<1>9. QED
  BY <1>1, <1>2, <1>3, <1>4, <1>5, <1>6, <1>7, <1>8

(* Nobody idles on a list, and each of the live is on one. *)
LEMMA PlacesApart ==
  ASSUME NEW lines, NEW nap, Places(lines, nap)
  PROVE  /\ LoadedPids(sched.tasks) \cup Waiting(lines) \cup Napping(nap) = Live
         /\ IDLE_PID \notin Live /\ Live \subseteq Pids
         /\ LoadedPids(sched.tasks) \cap Waiting(lines) = {}
         /\ Napping(nap) \cap (LoadedPids(sched.tasks) \cup Waiting(lines)) = {}
<1>1. \A p \in Waiting(lines) : p \notin LoadedPids(sched.tasks)
  BY MachineIs DEF Places, WaitLines
<1>2. QED
  BY <1>1 DEF Places, Live

(* A failed kassert leaves everything where it is. *)
LEMMA PanicStep ==
  ASSUME IInv, Panic("get_new_pid")
  PROVE  IInv'
<1>1. PICK lines, nap : Places(lines, nap)
  BY DEF IInv
<1>2. /\ sched' = sched /\ processes' = processes /\ queue' = queue /\ cur_pid' = cur_pid
      /\ sleeping' = sleeping /\ first_slept' = first_slept /\ panic' = "get_new_pid"
  BY DEF Panic
<1>3. Places(lines, nap)'
  <2>1. Machine' = Machine /\ Live' = Live
    BY <1>2 DEF Machine, Live
  <2>2. QED
    BY <1>1, <1>2, <2>1 DEF Places
<1>4. QED
  BY <1>2, <1>3 DEF IInv

(* loader_load: a free pid was nowhere. *)
LEMMA LoadStep ==
  ASSUME IInv, Load
  PROVE  /\ IInv'
         /\ FreePids(processes) # {} =>
              \E lines, nap : \E pid \in Pids \ {IDLE_PID} :
                /\ Moves(lines, nap, lines, nap)
                /\ pid \notin Live
                /\ LoadedPids(sched'.tasks) = LoadedPids(sched.tasks) \cup {pid}
<1>1. CASE FreePids(processes) = {}
  BY <1>1, PanicStep DEF Load
<1>2. CASE FreePids(processes) # {}
  <2> DEFINE pid == get_new_pid(processes)
  <2>1. /\ processes' = [processes EXCEPT ![pid] = NewPcb(pid)]
        /\ sched' = sched_load(sched, pid)
        /\ cur_pid' = cur_pid /\ sleeping' = sleeping /\ first_slept' = first_slept
        /\ queue' = queue /\ panic' = panic
    BY <1>2 DEF Load
  <2>2. pid \in Pids /\ processes[pid].id = FREE_PCB_PID /\ pid # IDLE_PID
    BY <1>2, NewPid, PidFacts DEF IInv
  <2> HIDE DEF pid
  <2>3. PICK lines, nap : Places(lines, nap)
    BY DEF IInv
  <2>4. /\ SchedType(sched) /\ OneCircle(sched) /\ processes \in [Pids -> Pcb]
        /\ WaitLines(Machine, lines)
    BY <2>3, MachineIs DEF Places, WaitLines
  <2>5. pid \notin Live
    BY <2>2 DEF Live
  <2>6. pid \notin LoadedPids(sched.tasks) /\ pid \notin Waiting(lines) /\ pid \notin Napping(nap)
    BY <2>3, <2>5 DEF Places
  <2>7. HasSlot(sched.tasks)
    BY <2>2, <2>4, <2>6, SlotWaits
  <2>8. /\ SchedType(sched') /\ OneCircle(sched') /\ SchedPid(sched') = SchedPid(sched)
        /\ LoadedPids(sched'.tasks) = LoadedPids(sched.tasks) \cup {pid}
    BY <2>1, <2>2, <2>4, <2>6, <2>7, LoadKeeps
  <2>9. NewPcb(pid) \in Pcb /\ NewPcb(pid).id = pid
        /\ NewPcb(pid).prev = FREE_PCB_PID /\ NewPcb(pid).next = FREE_PCB_PID
    BY <2>2 DEF NewPcb, Pcb
  <2>10. /\ processes' \in [Pids -> Pcb]
         /\ \A p \in Pids : processes'[p] = IF p = pid THEN NewPcb(pid) ELSE processes[p]
    BY <2>1, <2>4, <2>9
  <2>11. \A p \in Waiting(lines) : p \in Pids /\ p # pid /\ p \notin LoadedPids(sched'.tasks)
    BY <2>4, <2>6, <2>8, MachineIs DEF WaitLines, Waiting
  <2>12. \A p \in Pids \ Waiting(lines) :
           \/ p = IDLE_PID \/ processes'[p].id = FREE_PCB_PID
           \/ processes'[p].prev = FREE_PCB_PID /\ processes'[p].next = FREE_PCB_PID
    <3>1. \A p \in Pids \ Waiting(lines) :
            \/ p = IDLE_PID \/ processes[p].id = FREE_PCB_PID
            \/ processes[p].prev = FREE_PCB_PID /\ processes[p].next = FREE_PCB_PID
      BY <2>4, MachineIs DEF WaitLines
    <3>2. QED
      BY <2>9, <2>10, <3>1
  <2>13. WaitLines(Machine', lines)
    <3>1. \A p \in Waiting(lines) :
            /\ processes'[p].next = processes[p].next
            /\ processes'[p].prev = processes[p].prev
            /\ p \notin LoadedPids(sched'.tasks)
      BY <2>10, <2>11
    <3>2. QED
      BY <2>1, <2>4, <2>8, <2>10, <2>12, <3>1, MachineStays
  <2>14. Live' = Live \cup {pid}
    BY <2>2, <2>9, <2>10, PidFacts DEF Live
  <2>15. Places(lines, nap)'
    <3>1. /\ LoadedPids(sched.tasks) \cup Waiting(lines) \cup Napping(nap) = Live
          /\ Napping(nap) \cap (LoadedPids(sched.tasks) \cup Waiting(lines)) = {}
          /\ NapLine(first_slept, sleeping, nap)
      BY <2>3 DEF Places
    <3>2. /\ LoadedPids(sched'.tasks) \cup Waiting(lines) \cup Napping(nap) = Live'
          /\ Napping(nap) \cap (LoadedPids(sched'.tasks) \cup Waiting(lines)) = {}
      BY <2>6, <2>8, <2>14, <3>1
    <3>3. NapLine(first_slept', sleeping', nap)
      BY <2>1, <3>1
    <3>4. QED
      BY <2>13, <3>2, <3>3 DEF Places
  <2>16. processes'[IDLE_PID].id = IDLE_PID /\ cur_pid' = SchedPid(sched')
         /\ panic' \in {NOBODY, "get_new_pid"}
    BY <2>1, <2>2, <2>8, <2>10, PidFacts DEF IInv
  <2>17. IInv' /\ Moves(lines, nap, lines, nap)
    BY <2>3, <2>15, <2>16 DEF IInv, Moves
  <2>18. QED
    BY <1>2, <2>2, <2>5, <2>8, <2>17
<1>3. QED
  BY <1>1, <1>2

(* sched_block takes the task that runs off the circle. *)
LEMMA SwitchAwayKeeps ==
  ASSUME NEW lines, NEW nap, Places(lines, nap), cur_pid = SchedPid(sched),
         cur_pid # IDLE_PID, SwitchAway
  PROVE  /\ SchedType(sched') /\ OneCircle(sched') /\ cur_pid' = SchedPid(sched')
         /\ LoadedPids(sched'.tasks) = LoadedPids(sched.tasks) \ {cur_pid}
         /\ Leaves(LoadedPids(sched'.tasks), cur_pid')
<1>1. /\ SchedType(sched) /\ OneCircle(sched) /\ sched.actual # NULL
      /\ sched.tasks[sched.actual].pd = cur_pid
  BY Runner
<1>2. sched' = sched_exit(sched) /\ cur_pid' = SchedPid(sched')
  BY DEF SwitchAway
<1>3. /\ SchedType(sched') /\ OneCircle(sched')
      /\ LoadedPids(sched'.tasks) = LoadedPids(sched.tasks) \ {sched.tasks[sched.actual].pd}
      /\ sched'.running_tasks > 0 => sched'.actual # NULL
  BY <1>1, <1>2, ExitKeeps
<1>4. SchedPid(sched') \in IF LoadedPids(sched'.tasks) = {} THEN {IDLE_PID}
                          ELSE LoadedPids(sched'.tasks)
  BY <1>3, OwnerIsLoaded
<1>5. QED
  BY <1>1, <1>2, <1>3, <1>4 DEF Leaves

(* loader_enqueue: the task that runs moves from the circle to a line. *)
LEMMA EnqueueStep ==
  ASSUME IInv, NEW q \in Queues, Enqueue(q)
  PROVE  /\ IInv'
         /\ \E lines, nap : Moves(lines, nap, [lines EXCEPT ![q] = Append(lines[q], cur_pid)], nap)
         /\ Leaves(LoadedPids(sched'.tasks), cur_pid')
<1>1. PICK lines, nap : Places(lines, nap)
  BY DEF IInv
<1>2. cur_pid = SchedPid(sched) /\ cur_pid # IDLE_PID
  BY DEF IInv, Enqueue, InTask
<1>3. /\ cur_pid \in Pids \ Waiting(lines) /\ cur_pid \in LoadedPids(sched.tasks)
      /\ cur_pid \notin Napping(nap) /\ cur_pid \in Live
      /\ processes[cur_pid].next = FREE_PCB_PID /\ processes[cur_pid].prev = FREE_PCB_PID
      /\ ~ Linked(cur_pid)
  BY <1>1, <1>2, Runner
<1> DEFINE st  == Machine
           t   == Machine'
           end == Last(WaitChain(processes, queue[q]))
<1>4. /\ SwitchAway /\ sleeping' = sleeping /\ first_slept' = first_slept /\ panic' = panic
      /\ IF queue[q] = FREE_QUEUE
         THEN queue' = [queue EXCEPT ![q] = cur_pid] /\ processes' = processes
         ELSE /\ queue' = queue
              /\ processes' = [processes EXCEPT ![end].next = cur_pid, ![cur_pid].prev = end]
  BY <1>3 DEF Enqueue
<1>5. /\ SchedType(sched') /\ OneCircle(sched') /\ cur_pid' = SchedPid(sched')
      /\ LoadedPids(sched'.tasks) = LoadedPids(sched.tasks) \ {cur_pid}
      /\ Leaves(LoadedPids(sched'.tasks), cur_pid')
  BY <1>1, <1>2, <1>4, SwitchAwayKeeps
<1>6. /\ st.sched = sched /\ st.processes = processes /\ st.queue = queue
      /\ t.sched = sched' /\ t.processes = processes' /\ t.queue = queue'
  BY MachineIs
<1>7. WaitLines(st, lines)
  BY <1>1 DEF Places
<1> HIDE DEF st, t, end
<1>8. Enqueued(st, t, q, cur_pid)
  BY <1>4, <1>6 DEF Enqueued, end
<1>9. PICK rest : /\ WaitLines(t, rest)
                  /\ rest = [lines EXCEPT ![q] = Append(lines[q], cur_pid)]
                  /\ Waiting(rest) = Waiting(lines) \cup {cur_pid}
                  /\ \A o \in Pids : t.processes[o].id = st.processes[o].id
  <2>1. /\ st.processes[cur_pid].next = FREE_PCB_PID /\ st.processes[cur_pid].prev = FREE_PCB_PID
        /\ SchedType(t.sched) /\ OneCircle(t.sched)
        /\ LoadedPids(t.sched.tasks) = LoadedPids(st.sched.tasks) \ {cur_pid}
    BY <1>3, <1>5, <1>6
  <2> DEFINE p == cur_pid
  <2>2. Blocks(st, lines, t, q, p)
    BY <1>3, <1>7, <1>8, <2>1 DEF Blocks
  <2> HIDE DEF p
  <2>3. \E rest : /\ WaitLines(t, rest)
                  /\ rest = [lines EXCEPT ![q] = Append(lines[q], p)]
                  /\ Waiting(rest) = Waiting(lines) \cup {p}
                  /\ \A o \in Pids : t.processes[o].id = st.processes[o].id
    BY <2>2, EnqueueKeeps
  <2>4. QED
    BY <2>3 DEF p
<1>10. \A p \in Pids : processes'[p].id = processes[p].id
  BY <1>6, <1>9
<1>11. Live' = Live
  BY <1>10 DEF Live
<1>12. Places(rest, nap)'
  <2>1. WaitLines(Machine', rest)
    BY <1>9 DEF t
  <2>2. /\ LoadedPids(sched.tasks) \cup Waiting(lines) \cup Napping(nap) = Live
        /\ Napping(nap) \cap (LoadedPids(sched.tasks) \cup Waiting(lines)) = {}
        /\ NapLine(first_slept, sleeping, nap)
    BY <1>1 DEF Places
  <2>3. /\ LoadedPids(sched'.tasks) \cup Waiting(rest) \cup Napping(nap) = Live'
        /\ Napping(nap) \cap (LoadedPids(sched'.tasks) \cup Waiting(rest)) = {}
    <3>1. /\ LoadedPids(sched'.tasks) = LoadedPids(sched.tasks) \ {cur_pid}
          /\ Waiting(rest) = Waiting(lines) \cup {cur_pid}
          /\ cur_pid \in LoadedPids(sched.tasks) /\ cur_pid \notin Napping(nap)
      BY <1>3, <1>5, <1>9
    <3>2. LoadedPids(sched'.tasks) \cup Waiting(rest) = LoadedPids(sched.tasks) \cup Waiting(lines)
      BY <3>1
    <3>3. QED
      BY <1>11, <2>2, <3>2
  <2>4. NapLine(first_slept', sleeping', nap)
    BY <1>4, <2>2
  <2>5. QED
    BY <2>1, <2>3, <2>4 DEF Places
<1>13. processes'[IDLE_PID].id = IDLE_PID /\ panic' \in {NOBODY, "get_new_pid"}
  BY <1>4, <1>10, PidFacts DEF IInv
<1>14. IInv'
  BY <1>5, <1>12, <1>13 DEF IInv
<1>15. Moves(lines, nap, rest, nap)
  BY <1>1, <1>12 DEF Moves
<1>16. QED
  BY <1>5, <1>9, <1>14, <1>15

(* loader_unqueue: the first in line moves to the circle. *)
LEMMA UnqueueStep ==
  ASSUME IInv, NEW q \in Queues, Unqueue(q)
  PROVE  /\ IInv'
         /\ \E lines, nap :
              /\ Moves(lines, nap, [lines EXCEPT ![q] = Tail(lines[q])], nap)
              /\ Len(lines[q]) # 0
              /\ LoadedPids(sched'.tasks) = LoadedPids(sched.tasks) \cup {Head(lines[q])}
<1>1. PICK lines, nap : Places(lines, nap)
  BY DEF IInv
<1> DEFINE st == Machine
           t  == loader_unqueue(Machine, q)
<1>2. /\ sched' = t.sched /\ processes' = t.processes /\ queue' = t.queue
      /\ queue[q] # FREE_QUEUE /\ panic = NOBODY
      /\ cur_pid' = cur_pid /\ sleeping' = sleeping /\ first_slept' = first_slept
      /\ panic' = panic
  BY DEF Unqueue
<1>3. WaitLines(st, lines) /\ t = loader_unqueue(st, q)
  BY <1>1 DEF Places
<1>4. st.sched = sched /\ st.processes = processes /\ st.queue = queue
  BY MachineIs
<1> HIDE DEF st, t
<1>5. Len(lines[q]) # 0
  <2>1. st.queue[q] = IF Len(lines[q]) = 0 THEN FREE_PCB_PID ELSE lines[q][1]
    BY <1>3 DEF WaitLines, InLine, Visits
  <2>2. QED
    BY <1>2, <1>4, <2>1, PidFacts
<1>6. PICK rest : Wakes(st, lines, t, rest) /\ rest = [lines EXCEPT ![q] = Tail(lines[q])]
  BY <1>3, <1>5, UnqueueKeeps
<1>7. /\ WaitLines(t, rest) /\ SchedPid(sched') = SchedPid(sched)
      /\ LoadedPids(sched'.tasks) \cup Waiting(rest)
           = LoadedPids(sched.tasks) \cup Waiting(lines)
      /\ \A p \in Pids : processes'[p].id = processes[p].id
  BY <1>2, <1>4, <1>6 DEF Wakes
<1>8. Live' = Live
  BY <1>7 DEF Live
<1>9. Places(rest, nap)'
  <2>1. WaitLines(Machine', rest)
    BY <1>2, <1>7, MachineIs, SameLines
  <2>2. /\ LoadedPids(sched.tasks) \cup Waiting(lines) \cup Napping(nap) = Live
        /\ Napping(nap) \cap (LoadedPids(sched.tasks) \cup Waiting(lines)) = {}
        /\ NapLine(first_slept, sleeping, nap)
    BY <1>1 DEF Places
  <2>3. /\ LoadedPids(sched'.tasks) \cup Waiting(rest) \cup Napping(nap) = Live'
        /\ Napping(nap) \cap (LoadedPids(sched'.tasks) \cup Waiting(rest)) = {}
    BY <1>7, <1>8, <2>2
  <2>4. NapLine(first_slept', sleeping', nap)
    BY <1>2, <2>2
  <2>5. QED
    BY <2>1, <2>3, <2>4 DEF Places
<1>10. processes'[IDLE_PID].id = IDLE_PID /\ panic' \in {NOBODY, "get_new_pid"}
       /\ cur_pid' = SchedPid(sched')
  BY <1>2, <1>7, PidFacts DEF IInv
<1>11. IInv'
  BY <1>9, <1>10 DEF IInv
<1>12. Moves(lines, nap, rest, nap)
  BY <1>1, <1>9 DEF Moves
<1>13. LoadedPids(sched'.tasks) = LoadedPids(sched.tasks) \cup {Head(lines[q])}
  <2> DEFINE head == Head(lines[q])
  <2>1. /\ lines[q] \in Seq(Pids) /\ st.queue[q] = lines[q][1]
        /\ SchedType(sched) /\ OneCircle(sched)
    BY <1>3, <1>4, <1>5 DEF WaitLines, InLine, Visits
  <2>2. head = lines[q][1] /\ 1 \in 1 .. Len(lines[q]) /\ head \in Pids
    BY <1>5, <2>1
  <2>3. head \in Waiting(lines)
    BY <2>2 DEF Waiting
  <2>4. head \notin LoadedPids(sched.tasks)
    BY <1>3, <1>4, <2>3 DEF WaitLines
  <2>5. sched' = sched_load(sched, head)
    BY <1>2, <1>3, <1>4, <2>1, <2>2 DEF loader_unqueue
  <2> HIDE DEF head
  <2>6. head # IDLE_PID
    BY <1>1, <2>3, PlacesApart
  <2>7. HasSlot(sched.tasks)
    BY <2>1, <2>2, <2>4, SlotWaits
  <2>8. LoadedPids(sched'.tasks) = LoadedPids(sched.tasks) \cup {head}
    BY <2>1, <2>2, <2>4, <2>5, <2>6, <2>7, LoadKeeps
  <2>9. QED
    BY <2>8 DEF head
<1>14. QED
  BY <1>5, <1>6, <1>11, <1>12, <1>13

(* loader_sleep: the task that runs moves from the circle to the delta     *)
(* queue.                                                                  *)
LEMMA SleepStep ==
  ASSUME IInv, NEW time \in TIMES, Sleep(time)
  PROVE  /\ IInv'
         /\ \E lines, nap, left :
              /\ Moves(lines, nap, lines, left)
              /\ \A p \in Pids : AlarmIn(sleeping', left, p) = IF p = cur_pid THEN time
                                                             ELSE AlarmIn(sleeping, nap, p)
         /\ Leaves(LoadedPids(sched'.tasks), cur_pid')
<1>1. PICK lines, nap : Places(lines, nap)
  BY DEF IInv
<1>2. cur_pid = SchedPid(sched) /\ cur_pid # IDLE_PID
  BY DEF IInv, Sleep, InTask
<1>3. /\ cur_pid \in Pids /\ cur_pid \notin Waiting(lines)
      /\ cur_pid \in LoadedPids(sched.tasks)
      /\ cur_pid \notin Napping(nap) /\ cur_pid \in Live
      /\ processes[cur_pid].next = FREE_PCB_PID /\ processes[cur_pid].prev = FREE_PCB_PID
  BY <1>1, <1>2, Runner
<1> DEFINE b == Cardinality({k \in 1 .. Len(SleepChain) : Due[k] < time})
<1>4. /\ sleeping' = Inserted(b, time)
      /\ first_slept' = IF b = 0 THEN cur_pid ELSE first_slept
      /\ SwitchAway /\ time > 0 /\ time \in Nat
      /\ processes' = processes /\ queue' = queue /\ panic' = panic
  BY LoaderAssumption DEF Sleep
<1>5. /\ SchedType(sched') /\ OneCircle(sched') /\ cur_pid' = SchedPid(sched')
      /\ LoadedPids(sched'.tasks) = LoadedPids(sched.tasks) \ {cur_pid}
      /\ Leaves(LoadedPids(sched'.tasks), cur_pid')
  BY <1>1, <1>2, <1>4, SwitchAwayKeeps
<1>6. PICK rest : /\ NapLine(first_slept', sleeping', rest)
                  /\ Napping(rest) = Napping(nap) \cup {cur_pid}
                  /\ \A p \in Pids : AlarmIn(sleeping', rest, p)
                                       = IF p = cur_pid THEN time ELSE AlarmIn(sleeping, nap, p)
  <2>1. NapLine(first_slept, sleeping, nap)
    BY <1>1 DEF Places
  <2> DEFINE sl == sleeping'
             fs == first_slept'
  <2>2. Naps(nap, time, b, sl, fs)
    BY <1>3, <1>4, <2>1 DEF Naps
  <2> HIDE DEF sl, fs, b
  <2>3. \E rest : /\ NapLine(fs, sl, rest)
                  /\ Napping(rest) = Napping(nap) \cup {cur_pid}
                  /\ \A p \in Pids : AlarmIn(sl, rest, p) = IF p = cur_pid THEN time
                                                          ELSE AlarmIn(sleeping, nap, p)
    BY <2>2, SleepKeeps
  <2>4. QED
    BY <2>3 DEF sl, fs
<1>7. WaitLines(Machine', lines)
  <2>1. /\ WaitLines(Machine, lines) /\ processes \in [Pids -> Pcb]
        /\ \A p \in Waiting(lines) : p \notin LoadedPids(sched.tasks)
        /\ \A p \in Pids \ Waiting(lines) :
             \/ p = IDLE_PID \/ processes[p].id = FREE_PCB_PID
             \/ processes[p].prev = FREE_PCB_PID /\ processes[p].next = FREE_PCB_PID
    BY <1>1, MachineIs DEF Places, WaitLines
  <2>2. \A p \in Waiting(lines) :
          /\ processes'[p].next = processes[p].next
          /\ processes'[p].prev = processes[p].prev
          /\ p \notin LoadedPids(sched'.tasks)
    BY <1>4, <1>5, <2>1
  <2>3. QED
    BY <1>4, <1>5, <2>1, <2>2, MachineStays
<1>8. Live' = Live
  BY <1>4 DEF Live
<1>9. Places(lines, rest)'
  <2>1. /\ LoadedPids(sched.tasks) \cup Waiting(lines) \cup Napping(nap) = Live
        /\ Napping(nap) \cap (LoadedPids(sched.tasks) \cup Waiting(lines)) = {}
    BY <1>1 DEF Places
  <2>2. /\ LoadedPids(sched'.tasks) \cup Waiting(lines) \cup Napping(rest) = Live'
        /\ Napping(rest) \cap (LoadedPids(sched'.tasks) \cup Waiting(lines)) = {}
    BY <1>3, <1>5, <1>6, <1>8, <2>1
  <2>3. QED
    BY <1>6, <1>7, <2>2 DEF Places
<1>10. processes'[IDLE_PID].id = IDLE_PID /\ panic' \in {NOBODY, "get_new_pid"}
  BY <1>4 DEF IInv
<1>11. IInv'
  BY <1>5, <1>9, <1>10 DEF IInv
<1>12. Moves(lines, nap, lines, rest)
  BY <1>1, <1>9 DEF Moves
<1>13. QED
  BY <1>5, <1>6, <1>11, <1>12

(* timer_handler: the sleepers that are due move to the circle, and the    *)
(* scheduler picks who runs.                                               *)
LEMMA TickStep ==
  ASSUME IInv, Tick
  PROVE  /\ IInv'
         /\ \E lines, nap, left :
              /\ Moves(lines, nap, lines, left)
              /\ \A p \in Pids : AlarmIn(sleeping', left, p)
                                  = IF AlarmIn(sleeping, nap, p) > 0
                                    THEN AlarmIn(sleeping, nap, p) - 1 ELSE 0
              /\ LoadedPids(sched'.tasks)
                   = LoadedPids(sched.tasks) \cup {p \in Pids : AlarmIn(sleeping, nap, p) = 1}
         /\ cur_pid' \in IF LoadedPids(sched'.tasks) = {} THEN {IDLE_PID}
                        ELSE LoadedPids(sched'.tasks)
<1>1. PICK lines, nap : Places(lines, nap)
  BY DEF IInv
<1> DEFINE woken == Expired
           sl    == sleeping'
           first == first_slept'
           ready == LoadAll(sched, woken)
           W     == {woken[k] : k \in 1 .. Len(woken)}
<1>2. /\ loader_tick(woken) /\ sched' = sched_tick(ready) /\ cur_pid' = SchedPid(sched')
      /\ processes' = processes /\ queue' = queue /\ panic' = panic
  BY DEF Tick
<1>3. CountsDown(nap, woken, sl, first)
  BY <1>1, <1>2 DEF CountsDown, loader_tick, Places
<1>4. /\ SchedType(sched) /\ OneCircle(sched) /\ processes \in [Pids -> Pcb]
      /\ WaitLines(Machine, lines)
      /\ \A p \in Waiting(lines) : p \notin LoadedPids(sched.tasks)
      /\ \A p \in Pids \ Waiting(lines) :
           \/ p = IDLE_PID \/ processes[p].id = FREE_PCB_PID
           \/ processes[p].prev = FREE_PCB_PID /\ processes[p].next = FREE_PCB_PID
  BY <1>1, MachineIs DEF Places, WaitLines
<1>5. /\ LoadedPids(sched.tasks) \cup Waiting(lines) \cup Napping(nap) = Live
      /\ Napping(nap) \cap (LoadedPids(sched.tasks) \cup Waiting(lines)) = {}
  BY <1>1 DEF Places
<1> HIDE DEF woken, sl, first
<1>6. /\ woken \in Seq(Pids)
      /\ \A j, k \in 1 .. Len(woken) : woken[j] = woken[k] => j = k
      /\ SleepOn(nap, W, sl, first)
  <2>1. /\ woken \in Seq(Pids)
        /\ \A j, k \in 1 .. Len(woken) : woken[j] = woken[k] => j = k
    BY <1>3, TickWakes
  <2>2. SleepOn(nap, {woken[k] : k \in 1 .. Len(woken)}, sl, first)
    BY <1>3, TickWakes
  <2>3. QED
    BY <2>1, <2>2
<1>7. PICK rest : /\ NapLine(first, sl, rest)
                  /\ Napping(rest) \cup W = Napping(nap)
                  /\ Napping(rest) \cap W = {}
                  /\ \A p \in Pids : AlarmIn(sl, rest, p)
                                      = IF AlarmIn(sleeping, nap, p) > 0
                                        THEN AlarmIn(sleeping, nap, p) - 1 ELSE 0
  BY <1>6 DEF SleepOn
<1>8. /\ SchedType(ready) /\ OneCircle(ready)
      /\ LoadedPids(ready.tasks) = LoadedPids(sched.tasks) \cup W
  <2>1. \A k \in 1 .. Len(woken) : woken[k] \notin LoadedPids(sched.tasks)
    <3>1. \A k \in 1 .. Len(woken) : woken[k] \in Napping(nap)
      BY <1>7
    <3>2. QED
      BY <1>5, <3>1
  <2> DEFINE s == sched
             t == ready
  <2>2. /\ SchedType(s) /\ OneCircle(s) /\ t = LoadAll(s, woken)
        /\ \A k \in 1 .. Len(woken) : woken[k] \notin LoadedPids(s.tasks)
    BY <1>4, <2>1
  <2>3. /\ woken \in Seq(Pids)
        /\ \A j, k \in 1 .. Len(woken) : woken[j] = woken[k] => j = k
    BY <1>6
  <2> HIDE DEF s, t
  <2>4. /\ SchedType(t) /\ OneCircle(t)
        /\ LoadedPids(t.tasks) = LoadedPids(s.tasks) \cup {woken[k] : k \in 1 .. Len(woken)}
    BY <2>2, <2>3, LoadAllKeeps
  <2>5. QED
    BY <2>4 DEF s, t
<1> HIDE DEF ready, W
<1>9. /\ SchedType(sched') /\ OneCircle(sched')
      /\ LoadedPids(sched'.tasks) = LoadedPids(sched.tasks) \cup W
      /\ sched'.running_tasks > 0 => sched'.actual # NULL
  BY <1>2, <1>8, TickKeeps
<1>10. WaitLines(Machine', lines)
  <2>1. \A p \in Waiting(lines) :
          /\ processes'[p].next = processes[p].next
          /\ processes'[p].prev = processes[p].prev
          /\ p \notin LoadedPids(sched'.tasks)
    BY <1>2, <1>4, <1>5, <1>7, <1>9
  <2>2. QED
    BY <1>2, <1>4, <1>9, <2>1, MachineStays
<1>11. Live' = Live
  BY <1>2 DEF Live
<1>12. Places(lines, rest)'
  <2>1. /\ LoadedPids(sched'.tasks) \cup Waiting(lines) \cup Napping(rest) = Live'
        /\ Napping(rest) \cap (LoadedPids(sched'.tasks) \cup Waiting(lines)) = {}
    BY <1>5, <1>7, <1>9, <1>11
  <2>2. NapLine(first_slept', sleeping', rest)
    BY <1>7 DEF first, sl
  <2>3. QED
    BY <1>10, <2>1, <2>2 DEF Places
<1>13. processes'[IDLE_PID].id = IDLE_PID /\ panic' \in {NOBODY, "get_new_pid"}
  BY <1>2 DEF IInv
<1>14. IInv'
  BY <1>2, <1>12, <1>13 DEF IInv
<1>15. Moves(lines, nap, lines, rest)
  BY <1>1, <1>12 DEF Moves
<1>16. LoadedPids(sched'.tasks)
         = LoadedPids(sched.tasks) \cup {p \in Pids : AlarmIn(sleeping, nap, p) = 1}
  <2>1. W \subseteq Pids
    BY <1>7 DEF Napping
  <2>2. W = {p \in Pids : AlarmIn(sleeping, nap, p) = 1}
    BY <1>6, <2>1 DEF SleepOn
  <2>3. QED
    BY <1>9, <2>2
<1>17. cur_pid' \in IF LoadedPids(sched'.tasks) = {} THEN {IDLE_PID}
                    ELSE LoadedPids(sched'.tasks)
  <2>1. SchedPid(sched') \in IF LoadedPids(sched'.tasks) = {} THEN {IDLE_PID}
                             ELSE LoadedPids(sched'.tasks)
    BY <1>9, OwnerIsLoaded
  <2>2. QED
    BY <1>2, <2>1
<1>18. \A p \in Pids : AlarmIn(sleeping', rest, p)
                       = IF AlarmIn(sleeping, nap, p) > 0
                         THEN AlarmIn(sleeping, nap, p) - 1 ELSE 0
  BY <1>7 DEF sl
<1>19. QED
  BY <1>14, <1>15, <1>16, <1>17, <1>18

(* loader_exit: the task that runs is gone, and who waited for it is back  *)
(* on the circle.                                                          *)
LEMMA ExitStep ==
  ASSUME IInv, NEW qs \in UNION {SetToSeqs(S) : S \in SUBSET Queues}, Exit(qs)
  PROVE  /\ IInv'
         /\ \E drained \in SUBSET Queues : \E lines, nap, rest :
              /\ Moves(lines, nap, rest, nap)
              /\ \A q \in Queues : rest[q] = IF q \in drained THEN <<>> ELSE lines[q]
              /\ LoadedPids(sched'.tasks) \cup Waiting(rest)
                   = (LoadedPids(sched.tasks) \cup Waiting(lines)) \ {cur_pid}
         /\ Leaves(LoadedPids(sched.tasks) \ {cur_pid}, cur_pid')
<1>1. PICK lines, nap : Places(lines, nap)
  BY DEF IInv
<1> DEFINE left == sched_exit(sched)
           gone == [Machine EXCEPT !.sched = left]
           st   == wake_every(gone, qs)
<1>2. cur_pid = SchedPid(sched) /\ cur_pid # IDLE_PID
  BY DEF IInv, Exit, InTask
<1>3. /\ sched' = st.sched /\ queue' = st.queue /\ processes' = Unlinked(st.processes, cur_pid)
      /\ cur_pid' = SchedPid(left)
      /\ sleeping' = sleeping /\ first_slept' = first_slept /\ panic' = panic
  BY DEF Exit
<1>4. /\ SchedType(sched) /\ OneCircle(sched) /\ sched.actual # NULL
      /\ sched.tasks[sched.actual].pd = cur_pid
      /\ cur_pid \in Pids /\ cur_pid \in LoadedPids(sched.tasks)
      /\ cur_pid \notin Waiting(lines) /\ cur_pid \notin Napping(nap)
      /\ cur_pid \in Live /\ processes[cur_pid].id # FREE_PCB_PID
  BY <1>1, <1>2, Runner
<1>5. qs \in Seq(Queues)
  <2>1. PICK S \in SUBSET Queues : qs \in SetToSeqs(S)
    OBVIOUS
  <2>2. qs \in [1 .. Cardinality(S) -> S]
    BY <2>1 DEF SetToSeqs
  <2>3. Cardinality(S) \in Nat
    BY LoaderAssumption, FS_Subset, FS_CardinalityType
  <2>4. QED
    BY <2>2, <2>3
<1>6. /\ SchedType(left) /\ OneCircle(left)
      /\ LoadedPids(left.tasks) = LoadedPids(sched.tasks) \ {cur_pid}
      /\ left.running_tasks > 0 => left.actual # NULL
  BY <1>4, ExitKeeps
<1>7. gone.sched = left /\ gone.processes = processes /\ gone.queue = queue
  BY DEF Machine
<1>8. /\ processes \in [Pids -> Pcb] /\ WaitLines(Machine, lines)
      /\ \A p \in Waiting(lines) : p \notin LoadedPids(sched.tasks)
      /\ \A p \in Pids \ Waiting(lines) :
           \/ p = IDLE_PID \/ processes[p].id = FREE_PCB_PID
           \/ processes[p].prev = FREE_PCB_PID /\ processes[p].next = FREE_PCB_PID
  BY <1>1, MachineIs DEF Places, WaitLines
<1> HIDE DEF left, gone, st
<1>9. WaitLines(gone, lines)
  <2> DEFINE mm == Machine
  <2>1. mm.sched = sched /\ mm.processes = processes /\ mm.queue = queue /\ WaitLines(mm, lines)
    BY <1>8, MachineIs
  <2> HIDE DEF mm
  <2>2. /\ SchedType(gone.sched) /\ OneCircle(gone.sched)
        /\ gone.queue = mm.queue /\ gone.processes \in [Pids -> Pcb]
        /\ \A p \in Waiting(lines) :
             /\ gone.processes[p].next = mm.processes[p].next
             /\ gone.processes[p].prev = mm.processes[p].prev
             /\ p \notin LoadedPids(gone.sched.tasks)
        /\ \A p \in Pids \ Waiting(lines) :
             \/ p = IDLE_PID \/ gone.processes[p].id = FREE_PCB_PID
             \/ gone.processes[p].prev = FREE_PCB_PID /\ gone.processes[p].next = FREE_PCB_PID
    BY <1>6, <1>7, <1>8, <2>1
  <2>3. QED
    BY <2>1, <2>2, LinesStay
<1>10. PICK rest : /\ Wakes(gone, lines, st, rest)
                   /\ \A q \in Queues : rest[q] = IF \E j \in 1 .. Len(qs) : qs[j] = q
                                                  THEN <<>> ELSE lines[q]
  BY <1>5, <1>9, WakeEveryKeeps DEF st
<1>11. /\ WaitLines(st, rest) /\ SchedPid(st.sched) = SchedPid(left)
       /\ LoadedPids(st.sched.tasks) \cup Waiting(rest)
            = (LoadedPids(sched.tasks) \cup Waiting(lines)) \ {cur_pid}
       /\ \A p \in Pids : st.processes[p].id = processes[p].id
  BY <1>4, <1>6, <1>7, <1>10 DEF Wakes
<1>12. /\ SchedType(st.sched) /\ OneCircle(st.sched) /\ st.processes \in [Pids -> Pcb]
       /\ \A p \in Waiting(rest) : p \notin LoadedPids(st.sched.tasks)
       /\ \A p \in Pids \ Waiting(rest) :
            \/ p = IDLE_PID \/ st.processes[p].id = FREE_PCB_PID
            \/ st.processes[p].prev = FREE_PCB_PID /\ st.processes[p].next = FREE_PCB_PID
  BY <1>11 DEF WaitLines
<1>13. cur_pid \notin Waiting(rest) /\ cur_pid \notin LoadedPids(st.sched.tasks)
  BY <1>11
<1>14. st.processes[cur_pid].prev = FREE_PCB_PID /\ st.processes[cur_pid].next = FREE_PCB_PID
  BY <1>2, <1>4, <1>11, <1>12, <1>13
<1>15. /\ processes' \in [Pids -> Pcb]
       /\ \A p \in Pids :
            /\ processes'[p].id = IF p = cur_pid THEN FREE_PCB_PID ELSE processes[p].id
            /\ processes'[p].prev = st.processes[p].prev
            /\ processes'[p].next = st.processes[p].next
  <2> DEFINE procs == st.processes
  <2>1. procs \in [Pids -> Pcb] /\ procs[cur_pid].prev = FREE_PCB_PID
        /\ procs[cur_pid].next = FREE_PCB_PID /\ processes' = Unlinked(procs, cur_pid)
        /\ \A p \in Pids : procs[p].id = processes[p].id
    BY <1>3, <1>11, <1>12, <1>14
  <2> HIDE DEF procs
  <2>2. \A p \in Pids : p # FREE_PCB_PID
    BY PidFacts
  <2>3. processes' = [o \in Pids |->
                        [id   |-> IF o = cur_pid THEN FREE_PCB_PID ELSE procs[o].id,
                         prev |-> procs[o].prev,
                         next |-> procs[o].next]]
    BY <2>1, <2>2 DEF Unlinked
  <2>4. \A p \in Pids : /\ processes'[p] \in Pcb
                        /\ processes'[p].id = IF p = cur_pid THEN FREE_PCB_PID ELSE procs[p].id
                        /\ processes'[p].prev = procs[p].prev
                        /\ processes'[p].next = procs[p].next
    BY <2>1, <2>3 DEF Pcb
  <2>5. processes' \in [Pids -> Pcb]
    BY <2>3, <2>4
  <2>6. QED
    BY <2>1, <2>4, <2>5 DEF procs
<1>16. WaitLines(Machine', rest)
  <2> DEFINE t == Machine'
  <2>1. t.sched = st.sched /\ t.processes = processes' /\ t.queue = st.queue
    BY <1>3, MachineIs
  <2> HIDE DEF t
  <2>2. /\ SchedType(t.sched) /\ OneCircle(t.sched)
        /\ t.queue = st.queue /\ t.processes \in [Pids -> Pcb]
        /\ \A p \in Waiting(rest) :
             /\ t.processes[p].next = st.processes[p].next
             /\ t.processes[p].prev = st.processes[p].prev
             /\ p \notin LoadedPids(t.sched.tasks)
        /\ \A p \in Pids \ Waiting(rest) :
             \/ p = IDLE_PID \/ t.processes[p].id = FREE_PCB_PID
             \/ t.processes[p].prev = FREE_PCB_PID /\ t.processes[p].next = FREE_PCB_PID
    <3>1. \A p \in Waiting(rest) : p \in Pids
      BY DEF Waiting
    <3>2. QED
      BY <1>11, <1>12, <1>15, <2>1, <3>1
  <2>3. WaitLines(t, rest)
    BY <1>11, <2>2, LinesStay
  <2>4. QED
    BY <2>3 DEF t
<1>17. Live' = Live \ {cur_pid}
  BY <1>15 DEF Live
<1>18. Places(rest, nap)'
  <2>1. /\ LoadedPids(sched.tasks) \cup Waiting(lines) \cup Napping(nap) = Live
        /\ Napping(nap) \cap (LoadedPids(sched.tasks) \cup Waiting(lines)) = {}
        /\ NapLine(first_slept, sleeping, nap)
    BY <1>1 DEF Places
  <2>2. /\ LoadedPids(sched'.tasks) \cup Waiting(rest) \cup Napping(nap) = Live'
        /\ Napping(nap) \cap (LoadedPids(sched'.tasks) \cup Waiting(rest)) = {}
    BY <1>3, <1>4, <1>11, <1>17, <2>1
  <2>3. NapLine(first_slept', sleeping', nap)
    BY <1>3, <2>1
  <2>4. QED
    BY <1>16, <2>2, <2>3 DEF Places
<1>19. processes'[IDLE_PID].id = IDLE_PID /\ panic' \in {NOBODY, "get_new_pid"}
       /\ cur_pid' = SchedPid(sched')
  BY <1>2, <1>3, <1>11, <1>15, PidFacts DEF IInv
<1>20. IInv'
  BY <1>18, <1>19 DEF IInv
<1>21. Moves(lines, nap, rest, nap)
  BY <1>1, <1>18 DEF Moves
<1>22. Leaves(LoadedPids(sched.tasks) \ {cur_pid}, cur_pid')
  <2>1. SchedPid(left) \in IF LoadedPids(left.tasks) = {} THEN {IDLE_PID}
                           ELSE LoadedPids(left.tasks)
    BY <1>6, OwnerIsLoaded
  <2>2. QED
    BY <1>3, <1>6, <2>1 DEF Leaves
<1> DEFINE drained == {q \in Queues : \E j \in 1 .. Len(qs) : qs[j] = q}
<1>23. /\ drained \in SUBSET Queues
       /\ \A q \in Queues : rest[q] = IF q \in drained THEN <<>> ELSE lines[q]
  BY <1>10
<1>24. LoadedPids(sched'.tasks) \cup Waiting(rest)
         = (LoadedPids(sched.tasks) \cup Waiting(lines)) \ {cur_pid}
  BY <1>3, <1>11
<1> HIDE DEF drained
<1>25. QED
  BY <1>20, <1>21, <1>22, <1>23, <1>24

(* kernel.c boots init, which is the only task on the circle. *)
LEMMA InitPlaces ==
  ASSUME Init
  PROVE  /\ IInv /\ cur_pid = IDLE_PID
         /\ Places([q \in Queues |-> <<>>], <<>>)
         /\ \E init \in Pids \ {IDLE_PID} : LoadedPids(sched.tasks) = {init}
<1> DEFINE blank == [p \in Pids |-> IF p = IDLE_PID THEN IdlePcb ELSE FreePcb]
           init  == get_new_pid(blank)
           lines == [q \in Queues |-> <<>>]
           nap   == <<>>
<1>1. /\ processes = [blank EXCEPT ![init] = NewPcb(init)]
      /\ sched = sched_load(SchedInit, init) /\ cur_pid = IDLE_PID
      /\ sleeping = [p \in Pids |-> [id |-> FREE_PCB_PID, time |-> 0, next |-> FREE_PCB_PID]]
      /\ first_slept = FREE_PCB_PID
      /\ queue = [q \in Queues |-> FREE_QUEUE] /\ panic = NOBODY
  BY DEF Init
<1>2. /\ blank \in [Pids -> Pcb]
      /\ \A p \in Pids : blank[p].id = FREE_PCB_PID <=> p # IDLE_PID
      /\ blank[IDLE_PID].id = IDLE_PID
  <2>1. IdlePcb \in Pcb /\ FreePcb \in Pcb
    BY SchedAssumption DEF IdlePcb, FreePcb, Pcb, Pids, IDLE_PID, FREE_PCB_PID
  <2>2. IdlePcb.id = IDLE_PID /\ FreePcb.id = FREE_PCB_PID
    BY DEF IdlePcb, FreePcb
  <2>3. QED
    BY <2>1, <2>2, PidFacts
<1>3. init \in Pids /\ init # IDLE_PID
  <2>1. 1 \in Pids /\ 1 # IDLE_PID
    BY SchedAssumption, LoaderAssumption DEF Pids, IDLE_PID
  <2>2. blank[1].id = FREE_PCB_PID
    BY <1>2, <2>1
  <2> HIDE DEF blank
  <2>3. FreePids(blank) # {}
    BY <2>1, <2>2 DEF FreePids
  <2>4. QED
    BY <1>2, <2>3, NewPid
<1> HIDE DEF blank, init
<1>4. /\ NewPcb(init) \in Pcb /\ NewPcb(init).id = init
      /\ NewPcb(init).prev = FREE_PCB_PID /\ NewPcb(init).next = FREE_PCB_PID
  BY <1>3 DEF NewPcb, Pcb
<1>5. /\ processes \in [Pids -> Pcb]
      /\ \A p \in Pids : processes[p] = IF p = init THEN NewPcb(init) ELSE blank[p]
  BY <1>1, <1>2, <1>4
<1>6. SchedType(SchedInit) /\ OneCircle(SchedInit) /\ LoadedPids(SchedInit.tasks) = {}
      /\ SchedPid(SchedInit) = IDLE_PID
  <2>1. LoadedPids(SchedInit.tasks) = {}
    BY DEF LoadedPids, Used, SchedInit, FreeSlot
  <2>2. SchedPid(SchedInit) = IDLE_PID
    BY DEF SchedPid, SchedInit
  <2>3. QED
    BY <2>1, <2>2, InitIsCircle
<1>7. /\ SchedType(sched) /\ OneCircle(sched) /\ LoadedPids(sched.tasks) = {init}
      /\ SchedPid(sched) = IDLE_PID
  <2>1. init \in Pids \ LoadedPids(SchedInit.tasks)
    BY <1>3, <1>6
  <2>2. HasSlot(SchedInit.tasks)
    BY <1>6, <2>1, SlotWaits
  <2> DEFINE s == SchedInit
  <2>3. /\ SchedType(s) /\ OneCircle(s) /\ HasSlot(s.tasks) /\ LoadedPids(s.tasks) = {}
        /\ init \in Pids /\ init \notin LoadedPids(s.tasks) /\ sched = sched_load(s, init)
        /\ SchedPid(s) = IDLE_PID
    BY <1>1, <1>3, <1>6, <2>2
  <2> HIDE DEF s
  <2>4. QED
    BY <2>3, LoadKeeps
<1>8. Waiting(lines) = {} /\ Napping(nap) = {}
  BY DEF Waiting, Napping
<1>9. WaitLines(Machine, lines)
  <2>1. lines \in [Queues -> Seq(Pids)] /\ queue \in [Queues -> Pids \cup {FREE_QUEUE}]
    BY <1>1
  <2>2. \A q \in Queues : InLine(processes, queue[q], lines[q])
    <3> SUFFICES ASSUME NEW q \in Queues PROVE InLine(processes, queue[q], lines[q])
      OBVIOUS
    <3>1. queue[q] = FREE_PCB_PID /\ lines[q] = <<>>
      BY <1>1, PidFacts
    <3>2. QED
      BY <3>1 DEF InLine, Visits
  <2>3. \A q, r \in Queues : \A j \in 1 .. Len(lines[q]), k \in 1 .. Len(lines[r]) :
           lines[q][j] = lines[r][k] => q = r
    OBVIOUS
  <2>4. \A p \in Pids \ Waiting(lines) :
          \/ p = IDLE_PID \/ processes[p].id = FREE_PCB_PID
          \/ processes[p].prev = FREE_PCB_PID /\ processes[p].next = FREE_PCB_PID
    BY <1>2, <1>4, <1>5
  <2>5. \A p \in Waiting(lines) : p \notin LoadedPids(sched.tasks)
    BY <1>8
  <2> HIDE DEF lines
  <2>6. QED
    BY <1>5, <1>7, <2>1, <2>2, <2>3, <2>4, <2>5, MachineIs DEF WaitLines
<1>10. NapLine(first_slept, sleeping, nap)
  <2>1. nap \in Seq(Pids) /\ Len(nap) = 0
    OBVIOUS
  <2>2. sleeping \in [Pids -> Sleeper]
    BY <1>1 DEF Sleeper
  <2> HIDE DEF nap
  <2>3. QED
    BY <1>1, <2>1, <2>2 DEF NapLine, Visits
<1>11. Live = {init}
  BY <1>2, <1>3, <1>4, <1>5, PidFacts DEF Live
<1>12. Places(lines, nap)
  <2> HIDE DEF lines, nap
  <2>1. QED
    BY <1>7, <1>8, <1>9, <1>10, <1>11 DEF Places
<1>13. processes[IDLE_PID].id = IDLE_PID
  BY <1>2, <1>3, <1>5, PidFacts
<1>14. IInv
  BY <1>1, <1>7, <1>12, <1>13 DEF IInv
<1>15. QED
  BY <1>1, <1>3, <1>7, <1>12, <1>14

LEMMA Inductive == Spec => []IInv
<1>1. Init => IInv
  BY InitPlaces
<1>2. IInv /\ [Next]_vars => IInv'
  <2> SUFFICES ASSUME IInv, [Next]_vars
               PROVE  IInv'
    OBVIOUS
  <2>1. CASE Load
    BY <2>1, LoadStep
  <2>2. CASE Fork
    <3>1. Load
      <4>1. PICK lines, nap : Places(lines, nap)
        BY DEF IInv
      <4>2. ~ Linked(cur_pid)
        BY <2>2, <4>1, Runner DEF IInv, Fork, InTask
      <4>3. QED
        BY <2>2, <4>2 DEF Fork
    <3>2. QED
      BY <3>1, LoadStep
  <2>3. ASSUME NEW q \in Queues, Enqueue(q)
        PROVE  IInv'
    BY <2>3, EnqueueStep
  <2>4. ASSUME NEW q \in Queues, Unqueue(q)
        PROVE  IInv'
    BY <2>4, UnqueueStep
  <2>5. ASSUME NEW time \in TIMES, Sleep(time)
        PROVE  IInv'
    BY <2>5, SleepStep
  <2>6. CASE Tick
    BY <2>6, TickStep
  <2>7. ASSUME NEW qs \in UNION {SetToSeqs(S) : S \in SUBSET Queues}, Exit(qs)
        PROVE  IInv'
    BY <2>7, ExitStep
  <2>8. CASE UNCHANGED vars
    <3>1. PICK lines, nap : Places(lines, nap)
      BY DEF IInv
    <3>2. /\ sched' = sched /\ processes' = processes /\ queue' = queue /\ cur_pid' = cur_pid
          /\ sleeping' = sleeping /\ first_slept' = first_slept /\ panic' = panic
      BY <2>8 DEF vars
    <3>3. Machine' = Machine /\ Live' = Live
      BY <3>2 DEF Machine, Live
    <3>4. Places(lines, nap)'
      BY <3>1, <3>2, <3>3 DEF Places
    <3>5. QED
      BY <3>2, <3>4 DEF IInv
  <2>9. QED
    BY <2>1, <2>2, <2>3, <2>4, <2>5, <2>6, <2>7, <2>8 DEF Next
<1>3. QED
  BY <1>1, <1>2, PTL DEF Spec

(* What the lists hold is what the loops of loader.c visit. *)
LEMMA ListsAre ==
  ASSUME NEW lines, NEW nap, Places(lines, nap)
  PROVE  /\ SleepChain = nap /\ ToSet(nap) = Napping(nap) /\ IsInjective(nap)
         /\ \A q \in Queues :
              /\ Waits(q) = lines[q] /\ IsInjective(lines[q])
              /\ \A p : p \in ToSet(lines[q]) <=>
                         \E k \in 1 .. Len(lines[q]) : lines[q][k] = p
         /\ UNION {ToSet(lines[q]) : q \in Queues} = Waiting(lines)
<1>1. /\ WaitLines(Machine, lines) /\ NapLine(first_slept, sleeping, nap)
      /\ Machine.processes = processes /\ Machine.queue = queue
  BY MachineIs DEF Places
<1>2. SleepChain = nap
  BY <1>1, ChainIs DEF SleepChain, NapLine
<1>3. /\ nap \in Seq(Pids) /\ \A j, k \in 1 .. Len(nap) : nap[j] = nap[k] => j = k
  BY <1>1 DEF NapLine, Visits
<1>4. ToSet(nap) = Napping(nap) /\ IsInjective(nap)
  BY <1>3 DEF ToSet, Napping, IsInjective
<1>5. ASSUME NEW q \in Queues
      PROVE  /\ Waits(q) = lines[q] /\ IsInjective(lines[q]) /\ lines[q] \in Seq(Pids)
             /\ \A p : p \in ToSet(lines[q]) <=>
                        \E k \in 1 .. Len(lines[q]) : lines[q][k] = p
  <2>1. /\ lines[q] \in Seq(Pids)
        /\ Visits(queue[q], [p \in Pids |-> processes[p].next], lines[q])
    BY <1>1 DEF WaitLines, InLine
  <2>2. Waits(q) = lines[q]
    BY <2>1, ChainIs DEF Waits, WaitChain
  <2>3. \A j, k \in 1 .. Len(lines[q]) : lines[q][j] = lines[q][k] => j = k
    BY <2>1 DEF Visits
  <2>4. IsInjective(lines[q])
    BY <2>1, <2>3 DEF IsInjective
  <2>5. \A p : p \in ToSet(lines[q]) <=> \E k \in 1 .. Len(lines[q]) : lines[q][k] = p
    BY <2>1 DEF ToSet
  <2>6. QED
    BY <2>1, <2>2, <2>4, <2>5
<1>6. UNION {ToSet(lines[q]) : q \in Queues} = Waiting(lines)
  <2>1. \A q \in Queues : \A k \in 1 .. Len(lines[q]) : lines[q][k] \in Pids
    BY <1>5
  <2> DEFINE U == UNION {ToSet(lines[q]) : q \in Queues}
  <2>2. \A p : p \in U <=> \E q \in Queues : p \in ToSet(lines[q])
    OBVIOUS
  <2> HIDE DEF U
  <2>3. \A q \in Queues : \A p : p \in ToSet(lines[q]) <=>
                                   \E k \in 1 .. Len(lines[q]) : lines[q][k] = p
    BY <1>5
  <2>4. \A p : p \in U <=> \E q \in Queues : \E k \in 1 .. Len(lines[q]) : lines[q][k] = p
    BY <2>2, <2>3, Zenon
  <2>5. \A p : p \in U <=> p \in Waiting(lines)
    BY <2>1, <2>4 DEF Waiting
  <2>6. U = Waiting(lines)
    BY <2>5
  <2>7. QED
    BY <2>6 DEF U
<1>7. QED
  BY <1>2, <1>4, <1>5, <1>6

-----------------------------------------------------------------------------
(* The process table, the wait queues and the delta queue stay well typed: *)
(* no delta of sleeping[] goes below zero when loader_sleep inserts or     *)
(* loader_tick counts down.                                                *)
THEOREM LoaderTypeCorrect == Spec => []TypeOK
<1>1. IInv => TypeOK
  <2> SUFFICES ASSUME IInv PROVE TypeOK
    OBVIOUS
  <2>1. PICK lines, nap : Places(lines, nap)
    BY DEF IInv
  <2>2. /\ SchedType(sched) /\ processes \in [Pids -> Pcb]
        /\ queue \in [Queues -> Pids \cup {FREE_QUEUE}]
        /\ NapLine(first_slept, sleeping, nap)
    BY <2>1, MachineIs DEF Places, WaitLines
  <2>3. sleeping \in [Pids -> Sleeper]
    BY <2>2 DEF NapLine
  <2>4. first_slept \in Pids \cup {FREE_PCB_PID}
    <3>1. /\ Len(nap) \in Nat /\ \A k \in 1 .. Len(nap) : nap[k] \in Pids
          /\ first_slept = IF Len(nap) = 0 THEN FREE_PCB_PID ELSE nap[1]
      BY <2>2, NapFields
    <3>2. QED
      BY <3>1
  <2>5. cur_pid \in Pids
    <3>1. CASE cur_pid = IDLE_PID
      BY <3>1, PidFacts
    <3>2. CASE cur_pid # IDLE_PID
      BY <2>1, <3>2, Runner DEF IInv
    <3>3. QED
      BY <3>1, <3>2
  <2>6. panic \in {NOBODY, "get_new_pid", "fork", "loader_enqueue"}
    BY DEF IInv
  <2>7. QED
    BY <2>2, <2>3, <2>4, <2>5, <2>6 DEF TypeOK, Pcb, Sleeper
<1>2. QED
  BY <1>1, Inductive, PTL

(* cur_pid of loader.c and `actual' of sched.c name the same process       *)
(* whenever a kernel path begins, also after a task is loaded or woken by  *)
(* an interrupt, which do not switch.                                      *)
THEOREM RunnerIsOwner == Spec => []OwnerRuns
<1>1. IInv => OwnerRuns
  BY DEF IInv, OwnerRuns
<1>2. QED
  BY <1>1, Inductive, PTL

(* The assertions of fork and of loader_enqueue never fail: no process     *)
(* that runs is linked in a queue.  Only get_new_pid can stop the machine. *)
THEOREM OnlyPidsStopTheMachine == Spec => []OnlyPidsRunOut
<1>1. IInv => OnlyPidsRunOut
  BY DEF IInv, OnlyPidsRunOut
<1>2. QED
  BY <1>1, Inductive, PTL

(* Every live process is on the circle of sched.c, in one wait queue or in *)
(* the delta queue, in one of them and once, and no free pid is anywhere:  *)
(* enqueue, unqueue, sleep, tick and exit lose and double nobody.          *)
THEOREM EveryTaskHasOnePlace == Spec => []OnePlacePerTask
<1>1. IInv => OnePlacePerTask
  <2> SUFFICES ASSUME IInv PROVE OnePlacePerTask
    OBVIOUS
  <2>1. PICK lines, nap : Places(lines, nap)
    BY DEF IInv
  <2> DEFINE circle == LoadedPids(sched.tasks)
  <2>2. /\ SleepChain = nap /\ ToSet(nap) = Napping(nap) /\ IsInjective(nap)
        /\ \A q \in Queues :
             /\ Waits(q) = lines[q] /\ IsInjective(lines[q])
             /\ \A p : p \in ToSet(lines[q]) <=>
                        \E k \in 1 .. Len(lines[q]) : lines[q][k] = p
        /\ UNION {ToSet(lines[q]) : q \in Queues} = Waiting(lines)
    BY <2>1, ListsAre
  <2>3. /\ OneCircle(sched) /\ circle \cup Waiting(lines) \cup Napping(nap) = Live
        /\ Napping(nap) \cap (circle \cup Waiting(lines)) = {}
        /\ \A p \in Waiting(lines) : p \notin circle
    BY <2>1, MachineIs DEF Places, WaitLines
  <2>4. UNION {ToSet(Waits(q)) : q \in Queues} = Waiting(lines)
    <3>1. {ToSet(Waits(q)) : q \in Queues} = {ToSet(lines[q]) : q \in Queues}
      BY <2>2
    <3>2. QED
      BY <2>2, <3>1
  <2>5. ASSUME NEW q \in Queues
        PROVE  ToSet(Waits(q)) \subseteq Waiting(lines)
    <3>1. ToSet(Waits(q)) \in {ToSet(Waits(r)) : r \in Queues}
      OBVIOUS
    <3>2. QED
      BY <2>4, <3>1
  <2>6. ASSUME NEW q \in Queues, NEW r \in Queues \ {q}
        PROVE  ToSet(Waits(q)) \cap ToSet(Waits(r)) = {}
    <3>1. \A j \in 1 .. Len(lines[q]), k \in 1 .. Len(lines[r]) : lines[q][j] # lines[r][k]
      BY <2>1, <2>6 DEF Places, WaitLines
    <3>2. /\ Waits(q) = lines[q]
          /\ \A p : p \in ToSet(lines[q]) <=>
                     \E k \in 1 .. Len(lines[q]) : lines[q][k] = p
      BY <2>2
    <3>3. /\ Waits(r) = lines[r]
          /\ \A p : p \in ToSet(lines[r]) <=>
                     \E k \in 1 .. Len(lines[r]) : lines[r][k] = p
      BY <2>2
    <3>4. ASSUME NEW p \in ToSet(lines[q]), p \in ToSet(lines[r])
          PROVE  FALSE
      <4>1. PICK j \in 1 .. Len(lines[q]) : lines[q][j] = p
        BY <3>2
      <4>2. PICK k \in 1 .. Len(lines[r]) : lines[r][k] = p
        BY <3>3, <3>4
      <4>3. QED
        BY <3>1, <4>1, <4>2
    <3>5. QED
      BY <3>2, <3>3, <3>4, Zenon
  <2> HIDE DEF circle
  <2>7. QED
    BY <2>2, <2>3, <2>4, <2>5, <2>6 DEF OnePlacePerTask, circle
<1>2. QED
  BY <1>1, Inductive, PTL

-----------------------------------------------------------------------------
(* The lines and the alarms of TaskStates.tla, from the lists.  The first  *)
(* lemma holds in every state, so its primed form holds after every step.  *)
Mapped(lines, nap) ==
  /\ [q \in Queues |-> Waits(q)] = lines
  /\ \A p \in Pids : AlarmOf(p) = AlarmIn(sleeping, nap, p)
  /\ \A p \in Pids : AlarmOf(p) \in Nat
  /\ {p \in Pids : AlarmOf(p) > 0} = Napping(nap)
  /\ UNION {ToSet(lines[q]) : q \in Queues} = Waiting(lines)

AllMapped == \A lines, nap : Places(lines, nap) => Mapped(lines, nap)

LEMMA MappedIs == AllMapped
<1> SUFFICES ASSUME NEW lines, NEW nap, Places(lines, nap)
             PROVE  Mapped(lines, nap)
  BY DEF AllMapped
<1>1. /\ SleepChain = nap /\ \A q \in Queues : Waits(q) = lines[q]
      /\ UNION {ToSet(lines[q]) : q \in Queues} = Waiting(lines)
  BY ListsAre
<1>2. lines \in [Queues -> Seq(Pids)] /\ NapLine(first_slept, sleeping, nap)
  BY DEF Places, WaitLines
<1>3. [q \in Queues |-> Waits(q)] = lines
  BY <1>1, <1>2
<1>4. \A p \in Pids : AlarmOf(p) = AlarmIn(sleeping, nap, p)
  <2>1. Due = Alarms(sleeping, SleepChain)
    BY DEF Due, Alarms
  <2>2. Due = Alarms(sleeping, nap)
    BY <1>1, <2>1
  <2>3. QED
    BY <1>1, <2>2 DEF AlarmOf, AlarmIn
<1>5. ASSUME NEW p \in Pids
      PROVE  AlarmOf(p) \in Nat /\ (AlarmOf(p) > 0 <=> p \in Napping(nap))
  <2>1. CASE p \in Napping(nap)
    <3>1. PICK k \in 1 .. Len(nap) : nap[k] = p
      BY <2>1 DEF Napping
    <3>2. AlarmIn(sleeping, nap, p) \in Nat /\ AlarmIn(sleeping, nap, p) > 0
      BY <1>2, <3>1, AlarmAt
    <3>3. QED
      BY <1>4, <2>1, <3>2
  <2>2. CASE p \notin Napping(nap)
    <3>1. AlarmIn(sleeping, nap, p) = 0
      BY <1>2, <2>2, AlarmAt
    <3>2. QED
      BY <1>4, <2>2, <3>1
  <2>3. QED
    BY <2>1, <2>2
<1>6. {p \in Pids : AlarmOf(p) > 0} = Napping(nap)
  BY <1>5 DEF Napping
<1>7. QED
  BY <1>1, <1>3, <1>4, <1>5, <1>6 DEF Mapped

LEMMA MappedNext ==
  ASSUME NEW lines, NEW nap, Places(lines, nap)'
  PROVE  /\ [q \in Queues |-> Waits(q)]' = lines
         /\ \A p \in Pids : AlarmOf(p)' = AlarmIn(sleeping', nap, p)
<1>1. AllMapped'
  BY MappedIs, PTL
<1>2. Mapped(lines, nap)'
  BY <1>1 DEF AllMapped
<1>3. QED
  BY <1>2 DEF Mapped

(* What TaskStates.tla sees of a step that moves lines and nap to rest and *)
(* left.                                                                   *)
LEMMA Seen ==
  ASSUME NEW lines, NEW nap, NEW rest, NEW left, Moves(lines, nap, rest, left)
  PROVE  /\ [q \in Queues |-> Waits(q)] = lines
         /\ [q \in Queues |-> Waits(q)]' = rest
         /\ \A p \in Pids : AlarmOf(p)  = AlarmIn(sleeping, nap, p)
         /\ \A p \in Pids : AlarmOf(p)' = AlarmIn(sleeping', left, p)
         /\ UNION {ToSet(lines[q]) : q \in Queues} = Waiting(lines)
         /\ {p \in Pids : AlarmOf(p) > 0} = Napping(nap)
         /\ lines \in [Queues -> Seq(Pids)] /\ rest \in [Queues -> Seq(Pids)]
<1>1. Places(lines, nap) /\ Places(rest, left)'
  BY DEF Moves
<1>2. Mapped(lines, nap)
  BY <1>1, MappedIs DEF AllMapped
<1>3. lines \in [Queues -> Seq(Pids)] /\ rest \in [Queues -> Seq(Pids)]
  BY <1>1 DEF Places, WaitLines
<1>4. QED
  BY <1>1, <1>2, <1>3, MappedNext DEF Mapped

(* A step of the task that runs, to a state in which it is not ready. *)
LEMMA GivesUp ==
  ASSUME IInv, cur_pid # IDLE_PID,
         Leaves(LoadedPids(sched.tasks) \ {cur_pid}, cur_pid')
  PROVE  States!GiveUp
<1>1. PICK lines, nap : Places(lines, nap)
  BY DEF IInv
<1>2. cur_pid \in LoadedPids(sched.tasks)
  BY <1>1, Runner DEF IInv
<1>3. LoadedPids(sched.tasks) \ {cur_pid} = {} <=> LoadedPids(sched.tasks) = {cur_pid}
  BY <1>2
<1>4. QED
  BY <1>3 DEF Leaves, States!GiveUp

(* When only panic changes, nothing is seen. *)
LEMMA Unseen ==
  ASSUME IInv, UNCHANGED <<sched, processes, cur_pid, sleeping, first_slept, queue>>
  PROVE  UNCHANGED States!vars
<1>1. PICK lines, nap : Places(lines, nap)
  BY DEF IInv
<1>2. /\ sched' = sched /\ processes' = processes /\ queue' = queue /\ cur_pid' = cur_pid
      /\ sleeping' = sleeping /\ first_slept' = first_slept
  OBVIOUS
<1>3. Machine' = Machine /\ Live' = Live
  BY <1>2 DEF Machine, Live
<1>4. Moves(lines, nap, lines, nap)
  BY <1>1, <1>2, <1>3 DEF Places, Moves
<1>5. [q \in Queues |-> Waits(q)]' = [q \in Queues |-> Waits(q)]
  BY <1>4, Seen
<1>6. \A p \in Pids : AlarmOf(p)' = AlarmOf(p)
  BY <1>2, <1>4, Seen
<1>7. [p \in Pids \ {IDLE_PID} |-> AlarmOf(p)]' = [p \in Pids \ {IDLE_PID} |-> AlarmOf(p)]
  BY <1>6
<1>8. QED
  BY <1>2, <1>5, <1>7 DEF States!vars

(* loader_load creates a task, unless it stops the machine. *)
LEMMA LoadMaps ==
  ASSUME IInv, Load
  PROVE  States!Next \/ UNCHANGED States!vars
<1>1. CASE FreePids(processes) = {}
  <2>1. UNCHANGED <<sched, processes, cur_pid, sleeping, first_slept, queue>>
    BY <1>1 DEF Load, Panic
  <2>2. QED
    BY <2>1, Unseen
<1>2. CASE FreePids(processes) # {}
  <2>1. PICK lines, nap : \E pid \in Pids \ {IDLE_PID} :
          /\ Moves(lines, nap, lines, nap)
          /\ pid \notin Live
          /\ LoadedPids(sched'.tasks) = LoadedPids(sched.tasks) \cup {pid}
    BY <1>2, LoadStep
  <2>2. PICK pid \in Pids \ {IDLE_PID} :
          /\ Moves(lines, nap, lines, nap)
          /\ pid \notin Live
          /\ LoadedPids(sched'.tasks) = LoadedPids(sched.tasks) \cup {pid}
    BY <2>1
  <2>3. cur_pid' = cur_pid /\ sleeping' = sleeping /\ cur_pid # IDLE_PID
    BY <1>2 DEF Load, InTask
  <2>4. /\ [q \in Queues |-> Waits(q)] = lines
        /\ [q \in Queues |-> Waits(q)]' = lines
        /\ \A p \in Pids : AlarmOf(p)' = AlarmOf(p)
        /\ UNION {ToSet(lines[q]) : q \in Queues} = Waiting(lines)
        /\ {p \in Pids : AlarmOf(p) > 0} = Napping(nap)
    BY <2>2, <2>3, Seen
  <2>5. [p \in Pids \ {IDLE_PID} |-> AlarmOf(p)]' = [p \in Pids \ {IDLE_PID} |-> AlarmOf(p)]
    BY <2>4
  <2>6. pid \notin LoadedPids(sched.tasks) /\ pid \notin Waiting(lines) /\ pid \notin Napping(nap)
    BY <2>2, PlacesApart DEF Moves
  <2>7. States!Waiting = Waiting(lines)
    <3> DEFINE seen == [q \in Queues |-> Waits(q)]
    <3>1. States!Waiting = UNION {ToSet(seen[q]) : q \in Queues}
      BY DEF States!Waiting, States!ToSet, ToSet
    <3>2. seen = lines
      BY <2>4
    <3> HIDE DEF seen
    <3>3. QED
      BY <2>4, <3>1, <3>2
  <2>8. pid \notin States!Asleep
    BY <2>2, <2>4, <2>6 DEF States!Asleep
  <2>9. States!Create(pid)
    BY <2>2, <2>3, <2>4, <2>5, <2>6, <2>7, <2>8 DEF States!Create
  <2>10. QED
    BY <2>2, <2>9 DEF States!Next
<1>3. QED
  BY <1>1, <1>2

(* loader_enqueue puts the task that runs at the end of a line. *)
LEMMA EnqueueMaps ==
  ASSUME IInv, NEW q \in Queues, Enqueue(q)
  PROVE  States!Next
<1>1. PICK lines, nap : Moves(lines, nap, [lines EXCEPT ![q] = Append(lines[q], cur_pid)], nap)
  BY EnqueueStep
<1> DEFINE rest == [lines EXCEPT ![q] = Append(lines[q], cur_pid)]
<1>2. /\ Leaves(LoadedPids(sched'.tasks), cur_pid')
      /\ cur_pid # IDLE_PID
  BY EnqueueStep DEF Enqueue, InTask
<1>3. sleeping' = sleeping
  <2>1. ~ Linked(cur_pid)
    BY <1>1, <1>2, Runner DEF IInv, Moves
  <2>2. QED
    BY <2>1 DEF Enqueue
<1>4. /\ [r \in Queues |-> Waits(r)] = lines
      /\ [r \in Queues |-> Waits(r)]' = rest
      /\ \A p \in Pids : AlarmOf(p)' = AlarmOf(p)
  BY <1>1, <1>3, Seen
<1>5. [p \in Pids \ {IDLE_PID} |-> AlarmOf(p)]' = [p \in Pids \ {IDLE_PID} |-> AlarmOf(p)]
  BY <1>4
<1>6. States!GiveUp
  BY <1>2, GivesUp DEF Leaves
<1>7. States!Wait(q)
  BY <1>2, <1>4, <1>5, <1>6 DEF Leaves, States!Wait
<1>8. QED
  BY <1>7 DEF States!Next

(* loader_unqueue makes the first in line ready. *)
LEMMA UnqueueMaps ==
  ASSUME IInv, NEW q \in Queues, Unqueue(q)
  PROVE  States!Next
<1>1. PICK lines, nap : /\ Moves(lines, nap, [lines EXCEPT ![q] = Tail(lines[q])], nap)
                        /\ Len(lines[q]) # 0
                        /\ LoadedPids(sched'.tasks)
                             = LoadedPids(sched.tasks) \cup {Head(lines[q])}
  BY UnqueueStep
<1> DEFINE rest == [lines EXCEPT ![q] = Tail(lines[q])]
<1>2. sleeping' = sleeping /\ cur_pid' = cur_pid /\ UNCHANGED cur_pid
  BY DEF Unqueue
<1>3. /\ [r \in Queues |-> Waits(r)] = lines
      /\ [r \in Queues |-> Waits(r)]' = rest
      /\ \A p \in Pids : AlarmOf(p)' = AlarmOf(p)
      /\ lines \in [Queues -> Seq(Pids)] /\ rest \in [Queues -> Seq(Pids)]
  BY <1>1, <1>2, Seen
<1>4. [p \in Pids \ {IDLE_PID} |-> AlarmOf(p)]' = [p \in Pids \ {IDLE_PID} |-> AlarmOf(p)]
  BY <1>3
<1>5. lines[q] # <<>>
  BY <1>1
<1>6. States!Wake(q)
  BY <1>1, <1>2, <1>3, <1>4, <1>5 DEF States!Wake
<1>7. QED
  BY <1>6 DEF States!Next

(* loader_sleep gives the task that runs the alarm it asks for. *)
LEMMA SleepMaps ==
  ASSUME IInv, NEW time \in TIMES, Sleep(time)
  PROVE  States!Next
<1>1. PICK lines, nap, left :
        /\ Moves(lines, nap, lines, left)
        /\ \A p \in Pids : AlarmIn(sleeping', left, p) = IF p = cur_pid THEN time
                                                       ELSE AlarmIn(sleeping, nap, p)
  BY SleepStep
<1>2. /\ Leaves(LoadedPids(sched'.tasks), cur_pid')
      /\ cur_pid # IDLE_PID /\ time > 0
  BY SleepStep DEF Sleep, InTask
<1>3. /\ [r \in Queues |-> Waits(r)] = lines
      /\ [r \in Queues |-> Waits(r)]' = lines
      /\ \A p \in Pids : AlarmOf(p) = AlarmIn(sleeping, nap, p)
      /\ \A p \in Pids : AlarmOf(p)' = AlarmIn(sleeping', left, p)
  BY <1>1, Seen
<1>4. \A p \in Pids : AlarmOf(p)' = IF p = cur_pid THEN time ELSE AlarmOf(p)
  BY <1>1, <1>3
<1>5. [p \in Pids \ {IDLE_PID} |-> AlarmOf(p)]'
        = [[p \in Pids \ {IDLE_PID} |-> AlarmOf(p)] EXCEPT ![cur_pid] = time]
  BY <1>4
<1>6. States!GiveUp
  BY <1>2, GivesUp DEF Leaves
<1>7. States!Sleep(time)
  BY <1>2, <1>3, <1>5, <1>6 DEF Leaves, States!Sleep
<1>8. QED
  BY <1>7 DEF States!Next

(* timer_handler brings every alarm one tick nearer. *)
LEMMA TickMaps ==
  ASSUME IInv, Tick
  PROVE  States!Next
<1>1. PICK lines, nap, left :
        /\ Moves(lines, nap, lines, left)
        /\ \A p \in Pids : AlarmIn(sleeping', left, p)
                           = IF AlarmIn(sleeping, nap, p) > 0
                             THEN AlarmIn(sleeping, nap, p) - 1 ELSE 0
        /\ LoadedPids(sched'.tasks)
             = LoadedPids(sched.tasks) \cup {p \in Pids : AlarmIn(sleeping, nap, p) = 1}
  BY TickStep
<1>2. cur_pid' \in IF LoadedPids(sched'.tasks) = {} THEN {IDLE_PID}
                   ELSE LoadedPids(sched'.tasks)
  BY TickStep
<1>3. /\ [r \in Queues |-> Waits(r)] = lines
      /\ [r \in Queues |-> Waits(r)]' = lines
      /\ \A p \in Pids : AlarmOf(p) = AlarmIn(sleeping, nap, p)
      /\ \A p \in Pids : AlarmOf(p)' = AlarmIn(sleeping', left, p)
      /\ {p \in Pids : AlarmOf(p) > 0} = Napping(nap)
  BY <1>1, Seen
<1>4. \A p \in Pids : AlarmOf(p)' = IF AlarmOf(p) > 0 THEN AlarmOf(p) - 1 ELSE 0
  BY <1>1, <1>3
<1> DEFINE alarm == [p \in Pids \ {IDLE_PID} |-> AlarmOf(p)]
<1>5. alarm' = [p \in Pids \ {IDLE_PID} |-> IF alarm[p] > 0 THEN alarm[p] - 1 ELSE 0]
  BY <1>4
<1>6. ~ (AlarmOf(IDLE_PID) > 0)
  <2>1. IDLE_PID \notin Napping(nap)
    BY <1>1, PlacesApart DEF Moves
  <2>2. QED
    BY <1>3, <2>1, PidFacts
<1>7. LoadedPids(sched'.tasks)
        = LoadedPids(sched.tasks) \cup {p \in Pids \ {IDLE_PID} : alarm[p] = 1}
  BY <1>1, <1>3, <1>6
<1>8. States!Clock
  BY <1>2, <1>3, <1>5, <1>7 DEF States!Clock
<1>9. QED
  BY <1>8 DEF States!Next

(* loader_exit ends the task that runs and empties some of the lines. *)
LEMMA ExitMaps ==
  ASSUME IInv, NEW qs \in UNION {SetToSeqs(S) : S \in SUBSET Queues}, Exit(qs)
  PROVE  States!Next
<1>1. PICK drained \in SUBSET Queues : \E lines, nap, rest :
        /\ Moves(lines, nap, rest, nap)
        /\ \A q \in Queues : rest[q] = IF q \in drained THEN <<>> ELSE lines[q]
        /\ LoadedPids(sched'.tasks) \cup Waiting(rest)
             = (LoadedPids(sched.tasks) \cup Waiting(lines)) \ {cur_pid}
  BY ExitStep
<1>2. PICK lines, nap, rest :
        /\ Moves(lines, nap, rest, nap)
        /\ \A q \in Queues : rest[q] = IF q \in drained THEN <<>> ELSE lines[q]
        /\ LoadedPids(sched'.tasks) \cup Waiting(rest)
             = (LoadedPids(sched.tasks) \cup Waiting(lines)) \ {cur_pid}
  BY <1>1
<1>3. /\ Leaves(LoadedPids(sched.tasks) \ {cur_pid}, cur_pid')
      /\ cur_pid # IDLE_PID /\ sleeping' = sleeping
  BY ExitStep DEF Exit, InTask
<1>4. /\ [r \in Queues |-> Waits(r)] = lines
      /\ [r \in Queues |-> Waits(r)]' = rest
      /\ \A p \in Pids : AlarmOf(p)' = AlarmOf(p)
      /\ lines \in [Queues -> Seq(Pids)] /\ rest \in [Queues -> Seq(Pids)]
  BY <1>2, <1>3, Seen
<1>5. [p \in Pids \ {IDLE_PID} |-> AlarmOf(p)]' = [p \in Pids \ {IDLE_PID} |-> AlarmOf(p)]
  BY <1>4
<1>6. rest = [q \in Queues |-> IF q \in drained THEN <<>> ELSE lines[q]]
  BY <1>2, <1>4
<1>7. LoadedPids(sched'.tasks)
        = (LoadedPids(sched.tasks) \ {cur_pid}) \cup UNION {ToSet(lines[q]) : q \in drained}
  <2> DEFINE L  == LoadedPids(sched.tasks)
             L2 == LoadedPids(sched'.tasks)
             U  == UNION {ToSet(lines[q]) : q \in drained}
  <2>1. /\ L \cap Waiting(lines) = {} /\ L2 \cap Waiting(rest) = {}
        /\ L2 \cup Waiting(rest) = (L \cup Waiting(lines)) \ {cur_pid}
        /\ cur_pid \notin Waiting(lines)
    <3>1. L \cap Waiting(lines) = {} /\ cur_pid \in L
      BY <1>2, <1>3, PlacesApart, Runner DEF Moves, IInv
    <3>2. L2 \cap Waiting(rest) = {}
      <4>1. Places(rest, nap)'
        BY <1>2 DEF Moves
      <4>2. WaitLines(Machine', rest)
        BY <4>1 DEF Places
      <4>3. QED
        BY <4>2, MachineIs DEF WaitLines
    <3>3. QED
      BY <1>2, <3>1, <3>2
  <2>2. \A p : p \in U <=> \E q \in drained : \E k \in 1 .. Len(lines[q]) : lines[q][k] = p
    <3>1. \A q \in Queues : \A p : p \in ToSet(lines[q]) <=>
                                     \E k \in 1 .. Len(lines[q]) : lines[q][k] = p
      BY <1>2, ListsAre DEF Moves
    <3>2. \A p : p \in U <=> \E q \in drained : p \in ToSet(lines[q])
      OBVIOUS
    <3> HIDE DEF U
    <3>3. QED
      BY <3>1, <3>2, Zenon
  <2> HIDE DEF U, L, L2
  <2>3. \A q, r \in Queues : \A j \in 1 .. Len(lines[q]), k \in 1 .. Len(lines[r]) :
          lines[q][j] = lines[r][k] => q = r
    BY <1>2 DEF Moves, Places, WaitLines
  <2>4. ASSUME NEW p
        PROVE  p \in Waiting(lines) <=> p \in Waiting(rest) \/ p \in U
    <3>1. p \in U => p \in Waiting(lines)
      BY <1>4, <2>2 DEF Waiting
    <3>2. p \in Waiting(rest) => p \in Waiting(lines)
      BY <1>2 DEF Waiting
    <3>3. p \in Waiting(lines) => p \in Waiting(rest) \/ p \in U
      BY <1>2, <2>2 DEF Waiting
    <3>4. QED
      BY <3>1, <3>2, <3>3
  <2>5. ASSUME NEW p \in U
        PROVE  p \notin Waiting(rest)
    <3>1. PICK q \in drained : \E k \in 1 .. Len(lines[q]) : lines[q][k] = p
      BY <2>2
    <3>2. \A r \in Queues : \A k \in 1 .. Len(rest[r]) :
            r \notin drained /\ rest[r] = lines[r]
      BY <1>2
    <3>3. QED
      BY <2>3, <3>1, <3>2 DEF Waiting
  <2>6. L2 = (L \ {cur_pid}) \cup U
    BY <2>1, <2>4, <2>5
  <2>7. QED
    BY <2>6 DEF L, L2, U
<1>8. States!GiveUp
  BY <1>3, GivesUp
<1>9. \A q \in Queues : ToSet(lines[q]) = States!ToSet(lines[q])
  BY DEF ToSet, States!ToSet
<1>10. LoadedPids(sched'.tasks)
         = (LoadedPids(sched.tasks) \ {cur_pid}) \cup UNION {States!ToSet(lines[q]) : q \in drained}
  BY <1>7, <1>9
<1>11. States!End(drained)
  BY <1>3, <1>4, <1>5, <1>6, <1>8, <1>10 DEF States!End
<1>12. QED
  BY <1>11 DEF States!Next

(* The kernel starts with one task, which nothing delays. *)
LEMMA InitShows ==
  ASSUME Init
  PROVE  States!Init
<1> DEFINE lines == [q \in Queues |-> <<>>]
<1>1. PICK init \in Pids \ {IDLE_PID} : LoadedPids(sched.tasks) = {init}
  BY InitPlaces
<1>2. Places(lines, <<>>) /\ cur_pid = IDLE_PID
  BY InitPlaces
<1> HIDE DEF lines
<1>3. Mapped(lines, <<>>)
  BY <1>2, MappedIs DEF AllMapped
<1>4. \A p \in Pids : AlarmOf(p) = 0
  <2>1. Napping(<<>>) = {}
    BY DEF Napping
  <2>2. QED
    BY <1>3, <2>1 DEF Mapped
<1>5. [p \in Pids \ {IDLE_PID} |-> AlarmOf(p)] = [p \in Pids \ {IDLE_PID} |-> 0]
  BY <1>4
<1>6. [q \in Queues |-> Waits(q)] = [q \in Queues |-> <<>>]
  BY <1>3 DEF Mapped, lines
<1>7. QED
  BY <1>1, <1>2, <1>5, <1>6 DEF States!Init

(* Linked pcbs in wait queues that interrupts and tasks empty in any       *)
(* order, and deltas that are inserted into and counted down, are lines    *)
(* and alarms: whoever waits is served in turn, every sleeper wakes at     *)
(* exactly the tick it asked for, and the processor goes to a task that is *)
(* ready, for any number of processes and queues and any times.            *)
THEOREM LoaderImplementsTaskStates == Spec => ImplementsTaskStates
<1>1. Init => States!Init
  BY InitShows
<1>2. IInv /\ [Next]_vars => [States!Next]_(States!vars)
  <2> SUFFICES ASSUME IInv, [Next]_vars
               PROVE  States!Next \/ UNCHANGED States!vars
    OBVIOUS
  <2>1. CASE Load
    BY <2>1, LoadMaps
  <2>2. CASE Fork
    <3>1. PICK lines, nap : Places(lines, nap)
      BY DEF IInv
    <3>2. ~ Linked(cur_pid)
      BY <2>2, <3>1, Runner DEF IInv, Fork, InTask
    <3>3. QED
      BY <2>2, <3>2, LoadMaps DEF Fork
  <2>3. CASE \E q \in Queues : Enqueue(q)
    BY <2>3, EnqueueMaps
  <2>4. CASE \E q \in Queues : Unqueue(q)
    BY <2>4, UnqueueMaps
  <2>5. CASE \E time \in TIMES : Sleep(time)
    BY <2>5, SleepMaps
  <2>6. CASE Tick
    BY <2>6, TickMaps
  <2>7. CASE \E qs \in UNION {SetToSeqs(S) : S \in SUBSET Queues} : Exit(qs)
    BY <2>7, ExitMaps
  <2>8. CASE UNCHANGED vars
    BY <2>8, Unseen DEF vars
  <2>9. QED
    BY <2>1, <2>2, <2>3, <2>4, <2>5, <2>6, <2>7, <2>8 DEF Next
<1>3. QED
  BY <1>1, <1>2, Inductive, PTL DEF Spec, ImplementsTaskStates, States!Spec
=============================================================================
