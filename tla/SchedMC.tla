------------------------------- MODULE SchedMC -------------------------------
(***************************************************************************)
(* The instance of Sched that TLC checks.  Its state space is finite; for  *)
(* liveness, tasks may at any moment stop coming and going for good.       *)
(***************************************************************************)
EXTENDS Sched

VARIABLE settled     (* no task enters or leaves the queue any more        *)

SettlingInit == Init /\ settled = FALSE

SettlingNext ==
  \/ ~ settled /\ Leave /\ UNCHANGED settled
  \/ ~ settled /\ (\E pd \in Pids \ {IDLE_PID} : Load(pd)) /\ UNCHANGED settled
  \/ ~ settled /\ settled' = TRUE /\ UNCHANGED sched
  \/ Tick /\ UNCHANGED settled

(* The timer interrupt never stops (timer_init programs a periodic mode). *)
SettlingSpec == /\ SettlingInit
                /\ [][SettlingNext]_<<sched, settled>>
                /\ WF_<<sched, settled>>(Tick /\ UNCHANGED settled)

(* Once tasks stop coming and going, the walk of sched_tick along `next'   *)
(* gives the processor to every runnable task again and again.             *)
EveryTaskGetsTurns ==
  \A pd \in Pids \ {IDLE_PID} :
     []<>(settled /\ pd \in LoadedPids(sched.tasks) => SchedPid(sched) = pd)
=============================================================================
