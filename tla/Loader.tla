------------------------------- MODULE Loader -------------------------------
(***************************************************************************)
(* kernel/loader.c and kernel/taskswitch.asm: the life of the tasks.  A    *)
(* process is created by loader_load or fork, blocks in a wait queue (a    *)
(* `pid' variable of some driver, the pcbs of the tasks behind it linked   *)
(* by prev and next), sleeps in the delta queue sleeping[], is woken by    *)
(* another task or by an interrupt, and exits.                             *)
(*                                                                         *)
(* Every gate is an interrupt gate, so a kernel path is one step up to its *)
(* call of task_switch, and one path ends where the next one begins.  The  *)
(* wait queues are a CONSTANT: pipes, semaphores, consoles, serial ports   *)
(* and disks all use loader_enqueue and loader_unqueue on theirs.          *)
(***************************************************************************)
EXTENDS SchedOps, Sequences, FiniteSets, SequencesExt

CONSTANTS Queues,    (* the `pid' variables used as wait queues            *)
          TIMES      (* the arguments sleep() is called with               *)

ASSUME LoaderAssumption ==
  MAX_PID > 1 /\ TIMES \subseteq Nat /\ IsFiniteSet(Queues)

VARIABLES sched,       (* the globals of sched.c                           *)
          processes,   (* id, prev and next of each pcb                    *)
          cur_pid,     (* the process that runs                            *)
          sleeping,    (* the delta queue                                  *)
          first_slept,
          queue,       (* the first waiting pid of each queue              *)
          panic        (* the kassert that stopped the machine, if any     *)

vars == <<sched, processes, cur_pid, sleeping, first_slept, queue, panic>>

FREE_PCB_PID == -1
FREE_QUEUE   == -1
NOBODY       == ""     (* no assertion failed yet *)

FreePcb == [id |-> FREE_PCB_PID, prev |-> 0, next |-> 0]     (* as in .bss *)
NewPcb(p) == [id |-> p, prev |-> FREE_PCB_PID, next |-> FREE_PCB_PID]
IdlePcb == [id |-> IDLE_PID, prev |-> 0, next |-> 0]

FreePids(procs) == {p \in Pids : procs[p].id = FREE_PCB_PID}
get_new_pid(procs) == CHOOSE p \in FreePids(procs) :
                         \A o \in FreePids(procs) : p <= o

(* kernel.c boots one process, init, and goes idle. *)
Init ==
  LET blank == [p \in Pids |-> IF p = IDLE_PID THEN IdlePcb ELSE FreePcb]
      init  == get_new_pid(blank)
  IN /\ processes   = [blank EXCEPT ![init] = NewPcb(init)]
     /\ sched       = sched_load(SchedInit, init)
     /\ cur_pid     = IDLE_PID
     /\ sleeping    = [p \in Pids |-> [id |-> FREE_PCB_PID, time |-> 0,
                                       next |-> FREE_PCB_PID]]
     /\ first_slept = FREE_PCB_PID
     /\ queue       = [q \in Queues |-> FREE_QUEUE]
     /\ panic       = NOBODY

-----------------------------------------------------------------------------
(* The pids that a list visits from `head' along `next'. *)
Walk(head, next) ==
  LET walk[k \in 1 .. MAX_PID] ==
        IF k = 1 THEN head
        ELSE IF walk[k - 1] = FREE_PCB_PID THEN FREE_PCB_PID
        ELSE next[walk[k - 1]]
  IN walk

Chain(head, next) ==
  LET walk == Walk(head, next)
  IN [k \in 1 .. Cardinality({j \in 1 .. MAX_PID : walk[j] # FREE_PCB_PID}) |-> walk[k]]

WaitChain(procs, head) == Chain(head, [p \in Pids |-> procs[p].next])
SleepChain == Chain(first_slept, [p \in Pids |-> sleeping[p].next])

(* A process of its own runs, and no assertion stopped the machine. *)
InTask == panic = NOBODY /\ cur_pid # IDLE_PID

(* kassert: print, cli, hlt. *)
Panic(where) ==
  /\ panic' = where
  /\ UNCHANGED <<sched, processes, cur_pid, sleeping, first_slept, queue>>

Linked(p) == processes[p].prev # FREE_QUEUE \/ processes[p].next # FREE_QUEUE

(* Definitions named <operator>_<Slip> are variants with a plausible       *)
(* mistake; no specification uses them.  README.md says what they are for. *)
SwitchAway_KeepsCurPid ==
  /\ sched'   = sched_exit(sched)
  /\ cur_pid' = cur_pid

(* sched_block or sched_exit, and task_switch to the pid it returns. *)
SwitchAway ==
  /\ sched'   = sched_exit(sched)
  /\ cur_pid' = SchedPid(sched')

-----------------------------------------------------------------------------
(* loader_load, called by run: a process that can run. *)
Load ==
  /\ InTask
  /\ IF FreePids(processes) = {} THEN Panic("get_new_pid")
     ELSE LET pid == get_new_pid(processes) IN
          /\ processes' = [processes EXCEPT ![pid] = NewPcb(pid)]
          /\ sched' = sched_load(sched, pid)
          /\ UNCHANGED <<cur_pid, sleeping, first_slept, queue, panic>>

(* fork asserts that the caller waits nowhere and then does the same. *)
Fork ==
  /\ InTask
  /\ IF Linked(cur_pid) THEN Panic("fork") ELSE Load

(* loader_enqueue: the caller waits behind the last in line. *)
Enqueue(q) ==
  /\ InTask
  /\ IF Linked(cur_pid) THEN Panic("loader_enqueue")
     ELSE /\ IF queue[q] = FREE_QUEUE
             THEN /\ queue' = [queue EXCEPT ![q] = cur_pid]
                  /\ UNCHANGED processes
             ELSE LET end == Last(WaitChain(processes, queue[q])) IN
                  /\ processes' = [processes EXCEPT ![end].next     = cur_pid,
                                                    ![cur_pid].prev = end]
                  /\ UNCHANGED queue
          /\ SwitchAway
          /\ UNCHANGED <<sleeping, first_slept, panic>>

loader_unqueue_KeepsHead(st, q) ==
  LET head == st.queue[q]
      next == st.processes[head].next
  IN IF next = FREE_PCB_PID
     THEN [st EXCEPT !.sched = sched_load(st.sched, head)]
     ELSE [sched     |-> sched_load(st.sched, head),
           processes |-> [st.processes EXCEPT ![next].prev = FREE_PCB_PID,
                                              ![head].next = FREE_PCB_PID],
           queue     |-> [st.queue EXCEPT ![q] = next]]

loader_unqueue_KeepsPrev(st, q) ==
  LET head == st.queue[q]
      next == st.processes[head].next
  IN [sched     |-> sched_load(st.sched, head),
      processes |-> [st.processes EXCEPT ![head].next = FREE_PCB_PID],
      queue     |-> [st.queue EXCEPT ![q] = next]]

(* loader_unqueue(cola) with cola not empty, on the state st. *)
loader_unqueue(st, q) ==
  LET head == st.queue[q]
      next == st.processes[head].next
  IN [sched     |-> sched_load(st.sched, head),
      processes |-> IF next = FREE_PCB_PID THEN st.processes
                    ELSE [st.processes EXCEPT ![next].prev = FREE_PCB_PID,
                                              ![head].next = FREE_PCB_PID],
      queue     |-> [st.queue EXCEPT ![q] = IF next = FREE_PCB_PID
                                            THEN FREE_QUEUE ELSE next]]

Machine == [sched |-> sched, processes |-> processes, queue |-> queue]

(* Called by the task that runs or by an interrupt, which may find the     *)
(* processor idle; nobody gives up the processor.                          *)
Unqueue(q) ==
  /\ panic = NOBODY
  /\ queue[q] # FREE_QUEUE
  /\ LET st == loader_unqueue(Machine, q) IN
     sched' = st.sched /\ processes' = st.processes /\ queue' = st.queue
  /\ UNCHANGED <<cur_pid, sleeping, first_slept, panic>>

(* Each sleeper counts its time from the wake of the one before it. *)
Due[k \in 0 .. Len(SleepChain)] ==
  IF k = 0 THEN 0 ELSE Due[k - 1] + sleeping[SleepChain[k]].time

Inserted_Severed(n, time) ==
  [p \in Pids |->
     CASE p = cur_pid ->
            [id |-> cur_pid, time |-> time - Due[n], next |-> FREE_PCB_PID]
       [] n > 0 /\ p = SleepChain[n] ->
            [sleeping[p] EXCEPT !.next = cur_pid]
       [] n < Len(SleepChain) /\ p = SleepChain[n + 1] ->
            [sleeping[p] EXCEPT !.time = @ - (time - Due[n])]
       [] OTHER -> sleeping[p]]

Inserted_NextUnchanged(n, time) ==
  [p \in Pids |->
     CASE p = cur_pid ->
            [id |-> cur_pid, time |-> time - Due[n],
             next |-> IF n = Len(SleepChain) THEN FREE_PCB_PID ELSE SleepChain[n + 1]]
       [] n > 0 /\ p = SleepChain[n] ->
            [sleeping[p] EXCEPT !.next = cur_pid]
       [] OTHER -> sleeping[p]]

(* sleeping[] with cur_pid behind the first n sleepers. *)
Inserted(n, time) ==
  [p \in Pids |->
     CASE p = cur_pid ->
            [id |-> cur_pid, time |-> time - Due[n],
             next |-> IF n = Len(SleepChain) THEN FREE_PCB_PID ELSE SleepChain[n + 1]]
       [] n > 0 /\ p = SleepChain[n] ->
            [sleeping[p] EXCEPT !.next = cur_pid]
       [] n < Len(SleepChain) /\ p = SleepChain[n + 1] ->
            [sleeping[p] EXCEPT !.time = @ - (time - Due[n])]
       [] OTHER -> sleeping[p]]

(* loader_sleep: the caller goes before the sleepers that wake at or after *)
(* its own alarm.                                                          *)
Sleep(time) ==
  /\ InTask
  /\ time > 0
  /\ LET before == Cardinality({k \in 1 .. Len(SleepChain) : Due[k] < time})
     IN /\ sleeping'    = Inserted(before, time)
        /\ first_slept' = IF before = 0 THEN cur_pid ELSE first_slept
  /\ SwitchAway
  /\ UNCHANGED <<processes, queue, panic>>

Expired_FirstOnly ==
  SelectSeq(SleepChain, LAMBDA p : p = first_slept /\ sleeping[p].time = 1)

(* loader_tick: the sleepers whose time is up.  Only the first one counts  *)
(* down; those behind it with no more time to wait wake with it.           *)
Expired ==
  LET chain == SleepChain
      up    == {k \in 1 .. Len(chain) :
                  /\ sleeping[first_slept].time = 1
                  /\ \A j \in 2 .. k : sleeping[chain[j]].time = 0}
  IN SubSeq(chain, 1, Cardinality(up))

loader_tick(woken) ==
  /\ sleeping' = [p \in Pids |->
       [id   |-> IF Contains(woken, p) THEN FREE_PCB_PID ELSE sleeping[p].id,
        time |-> IF p = first_slept THEN sleeping[p].time - 1 ELSE sleeping[p].time,
        next |-> sleeping[p].next]]
  /\ first_slept' = IF woken = <<>> THEN first_slept
                    ELSE sleeping[Last(woken)].next

(* sched_unblock for each of the pids in turn. *)
LoadAll(st, pids) ==
  LET after[k \in 0 .. Len(pids)] ==
        IF k = 0 THEN st ELSE sched_load(after[k - 1], pids[k])
  IN after[Len(pids)]

(* timer_handler: wake the sleepers, ask the scheduler who is next and     *)
(* switch to it.                                                           *)
Tick ==
  /\ panic = NOBODY
  /\ LET woken == Expired IN
     /\ loader_tick(woken)
     /\ sched' = sched_tick(LoadAll(sched, woken))
  /\ cur_pid' = SchedPid(sched')
  /\ UNCHANGED <<processes, queue, panic>>

(* wake_all(queue) of pipe.c: loader_unqueue until the queue is empty. *)
wake_all(st, q) ==
  LET line == WaitChain(st.processes, st.queue[q])
      after[k \in 0 .. Len(line)] ==
        IF k = 0 THEN st ELSE loader_unqueue(after[k - 1], q)
  IN after[Len(line)]

wake_every(st, qs) ==
  LET after[k \in 0 .. Len(qs)] ==
        IF k = 0 THEN st ELSE wake_all(after[k - 1], qs[k])
  IN after[Len(qs)]

(* loader_exit unlinks the pcb from the wait queue it might be in. *)
Unlinked(procs, p) ==
  LET task == procs[p] IN
  [o \in Pids |->
     [id   |-> IF o = p THEN FREE_PCB_PID ELSE procs[o].id,
      prev |-> IF o = task.next THEN task.prev ELSE procs[o].prev,
      next |-> IF o = task.prev THEN task.next ELSE procs[o].next]]

(* loader_exit, when no device blocks while it closes (LoaderExit.tla has  *)
(* the one that does).  The next task is chosen first; then the descriptors*)
(* close, which wakes the tasks that wait at the other end of a pipe.      *)
Exit(qs) ==
  /\ InTask
  /\ LET left == sched_exit(sched)
         st   == wake_every([Machine EXCEPT !.sched = left], qs)
     IN /\ sched'     = st.sched
        /\ queue'     = st.queue
        /\ processes' = Unlinked(st.processes, cur_pid)
        /\ cur_pid'   = SchedPid(left)
  /\ UNCHANGED <<sleeping, first_slept, panic>>

Next == \/ Load
        \/ Fork
        \/ \E q \in Queues : Enqueue(q)
        \/ \E q \in Queues : Unqueue(q)
        \/ \E time \in TIMES : Sleep(time)
        \/ Tick
        \/ \E qs \in UNION {SetToSeqs(S) : S \in SUBSET Queues} : Exit(qs)

Spec == Init /\ [][Next]_vars

(* The timer interrupt is periodic and never masked for good. *)
FairSpec == Spec /\ WF_vars(Tick)

-----------------------------------------------------------------------------
(* Type correctness of the process table, the queues and the delta queue. *)
TypeOK ==
  /\ SchedType(sched)
  /\ processes   \in [Pids -> [id   : Pids \cup {FREE_PCB_PID},
                               prev : Pids \cup {FREE_PCB_PID},
                               next : Pids \cup {FREE_PCB_PID}]]
  /\ cur_pid     \in Pids
  /\ sleeping    \in [Pids -> [id   : Pids \cup {FREE_PCB_PID},
                               time : Nat,
                               next : Pids \cup {FREE_PCB_PID}]]
  /\ first_slept \in Pids \cup {FREE_PCB_PID}
  /\ queue       \in [Queues -> Pids \cup {FREE_QUEUE}]
  /\ panic       \in {NOBODY, "get_new_pid", "fork", "loader_enqueue"}

Live     == {p \in Pids \ {IDLE_PID} : processes[p].id # FREE_PCB_PID}
Waits(q) == WaitChain(processes, queue[q])

(* A process is in one place, once: on the circle of the scheduler, in one *)
(* wait queue or in the delta queue; a pid that is free is nowhere.        *)
(* loader_enqueue, loader_unqueue, loader_sleep, loader_tick, loader_exit  *)
(* move pcbs between lists and never look where else a pcb is linked.      *)
OnePlacePerTask ==
  LET circle == LoadedPids(sched.tasks) IN
  /\ circle \cup ToSet(SleepChain) \cup UNION {ToSet(Waits(q)) : q \in Queues} = Live
  /\ OneCircle(sched) /\ IsInjective(SleepChain)
  /\ circle \cap ToSet(SleepChain) = {}
  /\ \A q \in Queues :
       /\ IsInjective(Waits(q))
       /\ ToSet(Waits(q)) \cap (circle \cup ToSet(SleepChain)) = {}
       /\ \A r \in Queues \ {q} : ToSet(Waits(q)) \cap ToSet(Waits(r)) = {}

(* The process that executes is the one sched.c takes for the owner, or    *)
(* idle when it has none: loader_enqueue and loader_sleep link cur_pid     *)
(* into a list, and sched_block takes `actual' off the circle.             *)
OwnerRuns == cur_pid = SchedPid(sched)

(* Of the assertions of loader.c only the one on free pids can fail: the   *)
(* process that runs is never linked in a queue it waited in before.       *)
OnlyPidsRunOut == panic \in {NOBODY, "get_new_pid"}

(* A process that calls sleep runs again: loader_tick counts it down, and  *)
(* it is not lost when others are inserted around it.                      *)
SleepersWake ==
  \A p \in Pids \ {IDLE_PID} :
    sleeping[p].id = p ~> p \in LoadedPids(sched.tasks) \/ panic # NOBODY

(* The processor does not idle for ever while a task can run, though a     *)
(* task loaded by an interrupt does not preempt idle: sched_tick has to    *)
(* find it.                                                                *)
IdleGivesWay ==
  cur_pid = IDLE_PID /\ sched.running_tasks > 0
    ~> cur_pid # IDLE_PID \/ panic # NOBODY

-----------------------------------------------------------------------------
(* The alarm of a sleeper: the deltas up to its own, added. *)
AlarmOf(p) ==
  IF p \in ToSet(SleepChain)
  THEN Due[CHOOSE k \in 1 .. Len(SleepChain) : SleepChain[k] = p]
  ELSE 0

States == INSTANCE TaskStates WITH
  Tasks   <- Pids \ {IDLE_PID},
  Idle    <- IDLE_PID,
  Times   <- TIMES,
  ready   <- LoadedPids(sched.tasks),
  line    <- [q \in Queues |-> Waits(q)],
  alarm   <- [p \in Pids \ {IDLE_PID} |-> AlarmOf(p)],
  running <- cur_pid

(* The linked pcbs are first-come first-served lines, and the delta queue  *)
(* wakes every sleeper at exactly the tick it asked for, whoever goes to   *)
(* sleep or wakes in between.                                              *)
ImplementsTaskStates == States!Spec
=============================================================================
