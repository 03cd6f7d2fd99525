------------------------------ MODULE RunQueue ------------------------------
(***************************************************************************)
(* What a round-robin run queue promises, without slots or pointers: the   *)
(* runnable pids in a sequence, the one that owns the processor, and the   *)
(* ticks each one has left before it must pass it on.                      *)
(***************************************************************************)
EXTENDS Integers, Sequences, SequencesExt

CONSTANTS Tasks, Quantum, None

VARIABLES queue,     (* the runnable tasks, in the order of their turns    *)
          owner,     (* the task that owns the processor, or None          *)
          left       (* ticks left to each runnable task                   *)

vars == <<queue, owner, left>>

Init == queue = <<>> /\ owner = None /\ left = [p \in Tasks |-> 0]

Place(p) == CHOOSE i \in DOMAIN queue : queue[i] = p

(* The task whose turn comes after p's; the sequence wraps around. *)
After(p) == IF Place(p) = Len(queue) THEN Head(queue) ELSE queue[Place(p) + 1]

(* A task that becomes runnable waits behind all the others. *)
Enter(p) ==
  /\ ~ Contains(queue, p)
  /\ queue' = Append(queue, p)
  /\ left'  = [left EXCEPT ![p] = Quantum]
  /\ UNCHANGED owner

(* The owner blocks or ends: the next in turn gets the processor. *)
Leave ==
  /\ owner # None
  /\ owner' = IF Len(queue) = 1 THEN None ELSE After(owner)
  /\ queue' = RemoveAt(queue, Place(owner))
  /\ left'  = [left EXCEPT ![owner] = 0]

(* An idle processor is given to the head of the queue. *)
Dispatch ==
  /\ owner = None
  /\ queue # <<>>
  /\ owner' = Head(queue)
  /\ UNCHANGED <<queue, left>>

(* The owner spends a tick, or passes the processor when it has none. *)
Spend ==
  /\ owner # None
  /\ left[owner] > 0
  /\ left' = [left EXCEPT ![owner] = @ - 1]
  /\ UNCHANGED <<queue, owner>>

Rotate ==
  /\ owner # None
  /\ left[owner] = 0
  /\ left'  = [left EXCEPT ![owner] = Quantum]
  /\ owner' = After(owner)
  /\ UNCHANGED queue

Next == \/ \E p \in Tasks : Enter(p)
        \/ Leave
        \/ Dispatch \/ Spend \/ Rotate

Spec == Init /\ [][Next]_vars
=============================================================================
