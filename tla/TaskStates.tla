----------------------------- MODULE TaskStates -----------------------------
(***************************************************************************)
(* What the kernel promises about the states of its tasks, without pcbs,   *)
(* list links or time deltas: a task is ready, waits its turn in one line, *)
(* or sleeps for a number of ticks, and one ready task runs.               *)
(***************************************************************************)
EXTENDS Integers, Sequences, SequencesExt

CONSTANTS Tasks, Queues, Idle,
          Times      (* what a task may ask to sleep                       *)

VARIABLES ready,     (* the tasks that can run                             *)
          line,      (* the tasks that wait in each queue, in order        *)
          alarm,     (* ticks until each sleeper wakes, 0 if not asleep    *)
          running    (* the task that runs, or Idle                        *)

vars == <<ready, line, alarm, running>>

Waiting == UNION {ToSet(line[q]) : q \in Queues}
Asleep  == {p \in Tasks : alarm[p] > 0}

Init == /\ ready   \in {{p} : p \in Tasks}
        /\ line    = [q \in Queues |-> <<>>]
        /\ alarm   = [p \in Tasks |-> 0]
        /\ running = Idle

(* The task that runs gives up the processor to another ready task. *)
GiveUp == running' \in IF ready = {running} THEN {Idle} ELSE ready \ {running}

Create(p) ==
  /\ running # Idle
  /\ p \notin ready \cup Waiting \cup Asleep
  /\ ready' = ready \cup {p}
  /\ UNCHANGED <<line, alarm, running>>

Wait(q) ==
  /\ running # Idle
  /\ line' = [line EXCEPT ![q] = Append(@, running)]
  /\ ready' = ready \ {running}
  /\ GiveUp
  /\ UNCHANGED alarm

(* The first in line becomes ready, whoever runs. *)
Wake(q) ==
  /\ line[q] # <<>>
  /\ ready' = ready \cup {Head(line[q])}
  /\ line'  = [line EXCEPT ![q] = Tail(@)]
  /\ UNCHANGED <<alarm, running>>

Sleep(d) ==
  /\ running # Idle
  /\ d > 0
  /\ alarm' = [alarm EXCEPT ![running] = d]
  /\ ready' = ready \ {running}
  /\ GiveUp
  /\ UNCHANGED line

(* The task that runs ends; its descriptors close, and whoever waited on   *)
(* their other side is woken.                                              *)
End(drained) ==
  /\ running # Idle
  /\ ready' = (ready \ {running}) \cup UNION {ToSet(line[q]) : q \in drained}
  /\ line'  = [q \in Queues |-> IF q \in drained THEN <<>> ELSE line[q]]
  /\ GiveUp
  /\ UNCHANGED alarm

(* A tick of the clock: every sleeper is one tick nearer to its alarm, and *)
(* the processor may pass from any ready task to any other.                *)
Clock ==
  /\ alarm' = [p \in Tasks |-> IF alarm[p] > 0 THEN alarm[p] - 1 ELSE 0]
  /\ ready' = ready \cup {p \in Tasks : alarm[p] = 1}
  /\ running' \in IF ready' = {} THEN {Idle} ELSE ready'
  /\ UNCHANGED line

Next == \/ \E p \in Tasks : Create(p)
        \/ \E q \in Queues : Wait(q) \/ Wake(q)
        \/ \E d \in Times : Sleep(d)
        \/ \E drained \in SUBSET Queues : End(drained)
        \/ Clock

Spec == Init /\ [][Next]_vars
=============================================================================
