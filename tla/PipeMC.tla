------------------------------- MODULE PipeMC -------------------------------
(***************************************************************************)
(* TLC instances of Pipe: tasks that stop making calls, for liveness.      *)
(***************************************************************************)
EXTENDS Pipe

VARIABLES settled    (* no task makes a new call any more                  *)

mcvars == <<vars, settled>>

MCInit == Init /\ settled = FALSE

NewCall == \E t \in Tasks :
             \/ OpenPipe(t)
             \/ \E child \in Tasks : Fork(t, child)
             \/ Read(t)
             \/ Write(t)
             \/ Close(t)
             \/ Exit(t)

SettlingNext ==
  \/ ~ settled /\ NewCall /\ UNCHANGED settled
  \/ ~ settled /\ settled' = TRUE /\ UNCHANGED vars
  \/ (\E t \in Tasks : Resume(t)) /\ UNCHANGED settled

(* A task that can run gets its turn, once no more tasks come and go: the  *)
(* walk of the scheduler visits them all (EveryTaskGetsTurns of SchedMC).  *)
(* Before that, two tasks that keep waking each other may run for ever.    *)
SettlingSpec ==
  /\ MCInit
  /\ [][SettlingNext]_mcvars
  /\ \A t \in Tasks : WF_mcvars(settled /\ Resume(t) /\ UNCHANGED settled)

(* A read or a write ends after the other end of the pipe closed, however  *)
(* many tasks wait at the end and whatever is left in the buffer.          *)
CallsEndWithThePipe ==
  \A t \in Tasks :
    (settled /\ call[t].op \in {"read", "write"} /\ call[t].end \in peer_gone)
      ~> call[t].op \notin {"read", "write"}

=============================================================================
