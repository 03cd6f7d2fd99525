-------------------------------- MODULE Sched --------------------------------
(***************************************************************************)
(* The scheduler as a component: sched.c driven by its callers.  A task    *)
(* enters the queue when it is created (loader_load, fork) or woken        *)
(* (loader_unqueue, loader_tick), the owner of the processor leaves it     *)
(* when it blocks or ends, and the timer ticks.  All of this happens with  *)
(* interrupts disabled, so each call is one step.                          *)
(***************************************************************************)
EXTENDS SchedOps, Sequences

VARIABLE sched       (* the globals of sched.c                             *)

vars == sched

Init == sched = SchedInit

(* sched_load and sched_unblock.  The callers pass a process that exists   *)
(* and is not in the queue; the idle process is never loaded.              *)
Load(pd) ==
  /\ pd \notin LoadedPids(sched.tasks)
  /\ sched' = sched_load(sched, pd)

(* sched_exit and sched_block, called by the process that is running. *)
Leave ==
  /\ sched.actual # NULL
  /\ sched' = sched_exit(sched)

(* The call of timer_handler. *)
Tick == sched' = sched_tick(sched)

Next == \/ \E pd \in Pids \ {IDLE_PID} : Load(pd)
        \/ Leave
        \/ Tick

Spec == Init /\ [][Next]_vars

-----------------------------------------------------------------------------
(* Type correctness of the globals of sched.c. *)
TypeOK == SchedType(sched)

(* sched_load and sched_exit splice nodes in and out with no check: the    *)
(* used slots always form one circle, so no runnable task is ever cut off  *)
(* from the walk of sched_tick and none is visited twice.                  *)
RingIntact == OneCircle(sched)

(* The loop of sched_load always finds a slot (the kassert "Scheduler run  *)
(* out of task slots!!!", sched.c:81) because there is one per pid.        *)
SlotForEveryTask == \A pd \in Pids \ LoadedPids(sched.tasks) : HasSlot(sched.tasks)

-----------------------------------------------------------------------------
(* The slots of the circle, in the order of their links from `first' on. *)
Walk(s) == CHOOSE f \in [0 .. s.running_tasks - 1 -> Used(s.tasks)] :
             /\ Lists(f, s.running_tasks, s.tasks)
             /\ Ends(f, s.running_tasks, s.first, s.last)

(* The pids on it, the one that owns the processor, and their quantums. *)
Turns(s) == LET walk == Walk(s)
            IN [k \in 1 .. s.running_tasks |-> s.tasks[walk[k - 1]].pd]

Owner(s) == IF s.actual = NULL THEN FREE_PID ELSE s.tasks[s.actual].pd

SlotOf(s, pd) == CHOOSE i \in Slots : s.tasks[i].pd = pd

TicksLeft(s) == [pd \in Pids |-> IF pd \in LoadedPids(s.tasks)
                                 THEN s.tasks[SlotOf(s, pd)].quantum ELSE 0]

RoundRobin == INSTANCE RunQueue WITH
  Tasks   <- Pids,
  Quantum <- QUANTUM,
  None    <- FREE_PID,
  queue   <- Turns(sched),
  owner   <- Owner(sched),
  left    <- TicksLeft(sched)

(* The linked list with its three pointers behaves as a queue of pids      *)
(* served round robin: a woken task waits behind all the others, a task    *)
(* that leaves passes the processor to the next in turn, and no task is    *)
(* preempted before its quantum is spent.                                  *)
ImplementsRunQueue == RoundRobin!Spec
=============================================================================
