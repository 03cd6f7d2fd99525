----------------------------- MODULE LoaderExit -----------------------------
(***************************************************************************)
(* loader_exit of the process that holds the last console.  It leaves the  *)
(* circle of the scheduler first, with sched_exit, and closes its          *)
(* descriptors next.  con_flush then calls run("screen_saver.pso"), whose  *)
(* reads of the disk block: hdd_block_read calls loader_enqueue, which     *)
(* calls sched_block for a process that is not on the circle any more.     *)
(***************************************************************************)
EXTENDS Loader

CONSTANT Disk        (* the read_queue of the disk                         *)

VARIABLE local_tmp_pid   (* of each process inside loader_exit             *)

NOT_EXITING == -2

Exiting == local_tmp_pid[cur_pid] # NOT_EXITING

ExitInit == Init /\ local_tmp_pid = [p \in Pids |-> NOT_EXITING]

(* loader_exit up to the first block of run: sched_exit, and the           *)
(* loader_enqueue of hdd_block_read, with the sched_exit in its            *)
(* sched_block.  (A disk with a reader refuses others and does not block.) *)
ExitLastConsole ==
  /\ InTask
  /\ ~ Exiting
  /\ queue[Disk] = FREE_QUEUE
  /\ LET left == sched_exit(sched) IN
     IF left.running_tasks > 0
     THEN /\ local_tmp_pid' = [local_tmp_pid EXCEPT ![cur_pid] = SchedPid(left)]
          /\ queue'   = [queue EXCEPT ![Disk] = cur_pid]
          /\ sched'   = sched_exit(left)
          /\ cur_pid' = SchedPid(sched')
          /\ UNCHANGED <<processes, sleeping, first_slept, panic>>
     ELSE Panic("sched_exit") /\ UNCHANGED local_tmp_pid

(* run reads another sector. *)
ExitReadsOn == Exiting /\ Enqueue(Disk) /\ UNCHANGED local_tmp_pid

(* The rest of loader_exit: switch to the process chosen before. *)
ExitEnds ==
  /\ InTask
  /\ Exiting
  /\ processes' = Unlinked(processes, cur_pid)
  /\ cur_pid'   = local_tmp_pid[cur_pid]
  /\ local_tmp_pid' = [local_tmp_pid EXCEPT ![cur_pid] = NOT_EXITING]
  /\ UNCHANGED <<sched, sleeping, first_slept, queue, panic>>

ExitNext ==
  \/ ExitLastConsole \/ ExitReadsOn \/ ExitEnds
  \/ /\ Tick \/ \E q \in Queues : Unqueue(q)
     /\ UNCHANGED local_tmp_pid
  \/ /\ ~ Exiting
     /\ \/ Load \/ Fork
        \/ \E q \in Queues : Enqueue(q)
        \/ \E time \in TIMES : Sleep(time)
        \/ \E qs \in UNION {SetToSeqs(S) : S \in SUBSET Queues} : Exit(qs)
     /\ UNCHANGED local_tmp_pid

ExitSpec == ExitInit /\ [][ExitNext]_<<vars, local_tmp_pid>>

(* sched_exit asserts running_tasks > 0 (sched.c:109): whoever leaves the  *)
(* circle is on it.                                                        *)
OnTheCircleToLeave == panic # "sched_exit"
=============================================================================
