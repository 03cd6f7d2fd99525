------------------------------ MODULE SchedOps ------------------------------
(***************************************************************************)
(* kernel/sched.c: the run queue of spuriOS.  The tasks that can run are   *)
(* the nodes of one circular doubly linked list laid out in the array      *)
(* tasks[MAX_PID]; `actual' points to the task that owns the processor,    *)
(* `first' and `last' delimit the circle and new tasks go after `last'.    *)
(*                                                                         *)
(* The functions of the file run with interrupts disabled, so each one is  *)
(* a pure operator from the five globals (a record) to their next value.   *)
(* Sched.tla makes actions of them, Loader.tla composes them.              *)
(***************************************************************************)
EXTENDS Integers

CONSTANTS MAX_PID,   (* slots of tasks[], and also the number of pids      *)
          QUANTUM    (* SCHED_QUANTUM_DEFAULT                              *)

ASSUME SchedAssumption == MAX_PID \in Nat \ {0} /\ QUANTUM \in Nat

Pids     == 0 .. MAX_PID - 1
Slots    == 0 .. MAX_PID - 1
IDLE_PID == 0
FREE_PID == -1         (* pd of a slot that holds no task                  *)
NULL     == -1         (* a pointer to a slot that points nowhere          *)

-----------------------------------------------------------------------------
FreeSlot == [pd |-> FREE_PID, quantum |-> 0, next |-> NULL, prev |-> NULL]

(* The globals after sched_init. *)
SchedInit == [tasks         |-> [i \in Slots |-> FreeSlot],
              actual        |-> NULL,
              first         |-> NULL,
              last          |-> NULL,
              running_tasks |-> 0]

Used(tasks) == {i \in Slots : tasks[i].pd # FREE_PID}

(* The slot the search loop of sched_load stops at. *)
HasSlot(tasks)   == Used(tasks) # Slots
FoundSlot(tasks) == CHOOSE i \in Slots \ Used(tasks) :
                       \A j \in Slots \ Used(tasks) : i <= j

(* The definitions named <operator>_<Slip> are variants with a plausible   *)
(* mistake; no specification uses them.  README.md says what they are for. *)
sched_load_KeepsFirstPrev(s, pd) ==
  LET i == FoundSlot(s.tasks) IN
  IF s.running_tasks = 0
  THEN [s EXCEPT !.tasks = [s.tasks EXCEPT ![i] = [pd   |-> pd, quantum |-> QUANTUM,
                                                   next |-> i,  prev    |-> i]],
                 !.first = i,
                 !.last  = i,
                 !.running_tasks = 1]
  ELSE [s EXCEPT !.tasks = [s.tasks EXCEPT ![i] = [pd   |-> pd,      quantum |-> QUANTUM,
                                                   next |-> s.first, prev    |-> s.last],
                                           ![s.last].next = i],
                 !.last  = i,
                 !.running_tasks = s.running_tasks + 1]

(* Append pd after `last'; `actual' does not move.  sched_unblock is the   *)
(* same function.  When the circle has one node (`last->prev == last') the *)
(* code sets last->prev twice to the new node, as last and first are one.  *)
sched_load(s, pd) ==
  LET i == FoundSlot(s.tasks) IN
  IF s.running_tasks = 0
  THEN [s EXCEPT !.tasks = [s.tasks EXCEPT ![i] = [pd   |-> pd, quantum |-> QUANTUM,
                                                   next |-> i,  prev    |-> i]],
                 !.first = i,
                 !.last  = i,
                 !.running_tasks = 1]
  ELSE [s EXCEPT !.tasks = [s.tasks EXCEPT ![i] = [pd   |-> pd,      quantum |-> QUANTUM,
                                                   next |-> s.first, prev    |-> s.last],
                                           ![s.last].next  = i,
                                           ![s.first].prev = i],
                 !.last  = i,
                 !.running_tasks = s.running_tasks + 1]

sched_exit_LeavesPidZero(s) ==
  LET task == s.tasks[s.actual]
      zero == [FreeSlot EXCEPT !.pd = 0]
  IN IF s.running_tasks > 1
     THEN [s EXCEPT !.tasks  = [s.tasks EXCEPT ![task.prev].next = task.next,
                                               ![task.next].prev = task.prev,
                                               ![s.actual]       = zero],
                    !.first  = IF s.tasks[s.first].pd = task.pd THEN task.next ELSE s.first,
                    !.last   = IF s.tasks[s.last].pd = task.pd THEN task.prev ELSE s.last,
                    !.actual = task.next,
                    !.running_tasks = s.running_tasks - 1]
     ELSE [s EXCEPT !.tasks  = [s.tasks EXCEPT ![s.actual] = FreeSlot],
                    !.first  = NULL, !.last = NULL, !.actual = NULL,
                    !.running_tasks = s.running_tasks - 1]

(* Unlink `actual', which passes the processor to its successor.           *)
(* sched_block is the same function.                                       *)
sched_exit(s) ==
  LET task == s.tasks[s.actual] IN
  IF s.running_tasks > 1
  THEN [s EXCEPT !.tasks  = [s.tasks EXCEPT ![task.prev].next = task.next,
                                            ![task.next].prev = task.prev,
                                            ![s.actual]       = FreeSlot],
                 !.first  = IF s.tasks[s.first].pd = task.pd THEN task.next ELSE s.first,
                 !.last   = IF s.tasks[s.last].pd = task.pd THEN task.prev ELSE s.last,
                 !.actual = task.next,
                 !.running_tasks = s.running_tasks - 1]
  ELSE [s EXCEPT !.tasks  = [s.tasks EXCEPT ![s.actual] = FreeSlot],
                 !.first  = NULL,
                 !.last   = NULL,
                 !.actual = NULL,
                 !.running_tasks = s.running_tasks - 1]

sched_tick_OneMore(s) ==
  IF s.actual = NULL
  THEN [s EXCEPT !.actual = IF s.running_tasks <= 0 THEN NULL ELSE s.first]
  ELSE LET task == s.tasks[s.actual] IN
       IF task.quantum >= 0
       THEN [s EXCEPT !.tasks  = [s.tasks EXCEPT ![s.actual].quantum = task.quantum - 1]]
       ELSE [s EXCEPT !.tasks  = [s.tasks EXCEPT ![s.actual].quantum = QUANTUM],
                      !.actual = task.next]

sched_tick_NoRefill(s) ==
  IF s.actual = NULL
  THEN [s EXCEPT !.actual = IF s.running_tasks <= 0 THEN NULL ELSE s.first]
  ELSE LET task == s.tasks[s.actual] IN
       IF task.quantum > 0
       THEN [s EXCEPT !.tasks  = [s.tasks EXCEPT ![s.actual].quantum = task.quantum - 1]]
       ELSE [s EXCEPT !.actual = task.next]

sched_tick_BackToFirst(s) ==
  IF s.actual = NULL
  THEN [s EXCEPT !.actual = IF s.running_tasks <= 0 THEN NULL ELSE s.first]
  ELSE LET task == s.tasks[s.actual] IN
       IF task.quantum > 0
       THEN [s EXCEPT !.tasks  = [s.tasks EXCEPT ![s.actual].quantum = task.quantum - 1]]
       ELSE [s EXCEPT !.tasks  = [s.tasks EXCEPT ![s.actual].quantum = QUANTUM],
                      !.actual = s.first]

sched_tick_StaysIdle(s) ==
  IF s.actual = NULL THEN s
  ELSE LET task == s.tasks[s.actual] IN
       IF task.quantum > 0
       THEN [s EXCEPT !.tasks  = [s.tasks EXCEPT ![s.actual].quantum = task.quantum - 1]]
       ELSE [s EXCEPT !.tasks  = [s.tasks EXCEPT ![s.actual].quantum = QUANTUM],
                      !.actual = task.next]

(* One clock tick: spend the quantum of `actual', or move to the next. *)
sched_tick(s) ==
  IF s.actual = NULL
  THEN [s EXCEPT !.actual = IF s.running_tasks <= 0 THEN NULL ELSE s.first]
  ELSE LET task == s.tasks[s.actual] IN
       IF task.quantum > 0
       THEN [s EXCEPT !.tasks  = [s.tasks EXCEPT ![s.actual].quantum = task.quantum - 1]]
       ELSE [s EXCEPT !.tasks  = [s.tasks EXCEPT ![s.actual].quantum = QUANTUM],
                      !.actual = task.next]

(* What sched_exit, sched_block and sched_tick return: the pid to run. *)
SchedPid(s) == IF s.actual = NULL THEN IDLE_PID ELSE s.tasks[s.actual].pd

-----------------------------------------------------------------------------
LoadedPids(tasks) == {tasks[i].pd : i \in Used(tasks)}

Task == [pd      : Pids \cup {FREE_PID},
         quantum : 0 .. QUANTUM,
         next    : Slots \cup {NULL},
         prev    : Slots \cup {NULL}]

SchedType(s) ==
  s \in [tasks         : [Slots -> Task],
         actual        : Slots \cup {NULL},
         first         : Slots \cup {NULL},
         last          : Slots \cup {NULL},
         running_tasks : Nat]

(* f lists the n used slots in the order of their links. *)
Succ(k, n) == IF k = n - 1 THEN 0 ELSE k + 1

Lists(f, n, tasks) ==
  /\ \A j, k \in 0 .. n - 1 : f[j] = f[k] => j = k
  /\ \A i \in Slots : i \in Used(tasks) <=> \E k \in 0 .. n - 1 : f[k] = i
  /\ \A k \in 0 .. n - 1 : /\ tasks[f[k]].next = f[Succ(k, n)]
                           /\ tasks[f[Succ(k, n)]].prev = f[k]

Ends(f, n, first, last) ==
  IF n = 0 THEN first = NULL /\ last = NULL
           ELSE first = f[0] /\ last = f[n - 1]

(* The used slots form one circle that starts at `first' and ends at       *)
(* `last', each pid is on it once, and `actual' is on it.                  *)
OneCircle(s) ==
  /\ \E f \in [0 .. s.running_tasks - 1 -> Slots] :
        /\ Lists(f, s.running_tasks, s.tasks)
        /\ Ends(f, s.running_tasks, s.first, s.last)
  /\ \A i, j \in Used(s.tasks) : s.tasks[i].pd = s.tasks[j].pd => i = j
  /\ s.actual # NULL => s.actual \in Used(s.tasks)
=============================================================================
