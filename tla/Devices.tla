------------------------------- MODULE Devices -------------------------------
(***************************************************************************)
(* kernel/device.c, and fs_open of kernel/fs.c: descriptors, the devices   *)
(* they stand for and how often each is referred to, with the two drivers  *)
(* whose devices have no flush: the serial ports of kernel/serial.c and    *)
(* /proc/cpuid of kernel/proc.c.                                           *)
(***************************************************************************)
EXTENDS Integers, Sequences, FiniteSets, SequencesExt

CONSTANTS MAX_PID,                (* the processes are 1 .. MAX_PID - 1    *)
          MAX_FD,
          SERIAL_PORTS, MAX_PROC_CPUID_DEVS,
          SERIAL_BUFFER_LENGTH,
          STREAM_LENGTH,          (* of the text that /proc/cpuid gives    *)
          SIZES,                  (* the sizes of reads and writes         *)
          REOPEN                  (* may a port be opened that is in use?  *)

ASSUME DevicesAssumption ==
  /\ MAX_PID \in Nat \ {0, 1} /\ MAX_FD \in Nat \ {0}
  /\ SERIAL_PORTS \in Nat /\ MAX_PROC_CPUID_DEVS \in Nat
  /\ SERIAL_BUFFER_LENGTH \in Nat \ {0} /\ STREAM_LENGTH \in Nat
  /\ SIZES \subseteq Nat /\ REOPEN \in BOOLEAN

VARIABLES devices,   (* the table of device.c                              *)
          refcount,  (* of each device                                     *)
          serial,    (* serial_devs                                        *)
          cpuid,     (* proc_cpuid_devs: stream_position, or NONE          *)
          call       (* the call each process is in                        *)

vars == <<devices, refcount, serial, cpuid, call>>

Pids  == 1 .. MAX_PID - 1
Fds   == 0 .. MAX_FD - 1
Ports == 0 .. SERIAL_PORTS - 1
Slots == SERIAL_PORTS .. SERIAL_PORTS + MAX_PROC_CPUID_DEVS - 1
NULL  == -1
NONE  == -1

NoCall   == [op |-> "none"]
Dead     == [op |-> "dead"]
ReadOf(d)     == [op |-> "read", dev |-> d]
WriteOf(left) == [op |-> "write", left |-> left]
Alive    == {p \in Pids : call[p].op # "dead"}
AtRest(p) == call[p] = NoCall

(* A port after an operation on it. *)
Port(opened, queue, free, ptr_to) ==
  [opened |-> opened, read_queue |-> queue, buffer_free |-> free, ptr_to |-> ptr_to]
Emptied(d) == Port(serial[d].opened, serial[d].read_queue, TRUE, 0)
Queued(d, queue) == Port(serial[d].opened, queue, serial[d].buffer_free, serial[d].ptr_to)

(* init_fd_association and init_dev_modules *)
Init ==
  /\ devices  = [p \in Pids |-> [fd \in Fds |-> NULL]]
  /\ refcount = [d \in Ports \cup Slots |-> 0]
  /\ serial   = [d \in Ports |-> Port(FALSE, <<>>, FALSE, 0)]
  /\ cpuid    = [d \in Slots |-> NONE]
  /\ call     = [p \in Pids |-> IF p = 1 THEN NoCall ELSE Dead]

-----------------------------------------------------------------------------
(* devices[p][fd], as C finds it: MAX_FD is the next process's first.      *)
Holder(p, fd) == IF fd = MAX_FD THEN p + 1 ELSE p
Entry(p, fd)  == IF fd = MAX_FD THEN 0 ELSE fd
DeviceAt(p, fd) ==
  IF Holder(p, fd) \in Pids THEN devices[Holder(p, fd)][Entry(p, fd)] ELSE NULL

(* Definitions named <operator>_<Slip> are variants with a plausible       *)
(* mistake; no specification uses them.                                    *)
(* device_descriptor *)
Described(p, d) ==
  LET free == {fd \in Fds : devices[p][fd] = NULL}
      fd   == CHOOSE x \in free : \A y \in free : x <= y
  IN IF free = {} THEN UNCHANGED <<devices, refcount>>
     ELSE /\ devices'  = [devices EXCEPT ![p][fd] = d]
          /\ refcount' = [refcount EXCEPT ![d] = @ + 1]

(* serial_open never sets klass: it succeeds on an open port as well. *)
serial_open(p, d) ==
  /\ REOPEN \/ (refcount[d] = 0 /\ \A q \in Pids : ~ (call[q].op = "read" /\ call[q].dev = d))
  /\ serial' = [serial EXCEPT ![d] = Port(TRUE, <<>>, TRUE, 0)]
  /\ Described(p, d)
  /\ UNCHANGED cpuid

(* No slot is ever given back: flush is 0. *)
proc_cpuid_open(p) ==
  LET free == {d \in Slots : cpuid[d] = NONE}
      d    == CHOOSE x \in free : \A y \in free : x <= y
  IN /\ free # {}
     /\ cpuid' = [cpuid EXCEPT ![d] = 0]
     /\ Described(p, d)
     /\ UNCHANGED serial

open(p) ==
  /\ AtRest(p)
  /\ proc_cpuid_open(p) \/ \E d \in Ports : serial_open(p, d)
  /\ UNCHANGED call

close(p, fd) ==
  /\ AtRest(p)
  /\ DeviceAt(p, fd) # NULL
  /\ refcount' = [refcount EXCEPT ![DeviceAt(p, fd)] = @ - 1]
  /\ devices'  = [devices EXCEPT ![Holder(p, fd)][Entry(p, fd)] = NULL]
  /\ UNCHANGED <<serial, cpuid, call>>

-----------------------------------------------------------------------------
(* The text is as long as the driver made it when it was opened. *)
proc_cpuid_read(d, size) ==
  cpuid' = [cpuid EXCEPT ![d] = IF @ + size > STREAM_LENGTH THEN STREAM_LENGTH ELSE @ + size]

serial_read_LastFirst(p, d, size) ==
  IF size > 0 /\ serial[d].buffer_free
  THEN /\ serial' = [serial EXCEPT ![d] = Queued(d, <<p>> \o serial[d].read_queue)]
       /\ call'   = [call EXCEPT ![p] = ReadOf(d)]
  ELSE /\ serial' = IF size = 0 THEN serial ELSE [serial EXCEPT ![d] = Emptied(d)]
       /\ UNCHANGED call

serial_read(p, d, size) ==
  IF size > 0 /\ serial[d].buffer_free
  THEN /\ serial' = [serial EXCEPT ![d] = Queued(d, Append(serial[d].read_queue, p))]
       /\ call'   = [call EXCEPT ![p] = ReadOf(d)]
  ELSE /\ serial' = IF size = 0 THEN serial ELSE [serial EXCEPT ![d] = Emptied(d)]
       /\ UNCHANGED call

read(p, fd, size) ==
  /\ AtRest(p)
  /\ DeviceAt(p, fd) # NULL
  /\ IF DeviceAt(p, fd) \in Ports
     THEN serial_read(p, DeviceAt(p, fd), size) /\ UNCHANGED cpuid
     ELSE proc_cpuid_read(DeviceAt(p, fd), size) /\ UNCHANGED <<serial, call>>
  /\ UNCHANGED <<devices, refcount>>

Reading(p) == call[p].op = "read"
Woken(p)   == Reading(p) /\ ~ Contains(serial[call[p].dev].read_queue, p)

(* The rest of serial_read: whatever is there by now, perhaps nothing. *)
ReadGoesOn(p) ==
  /\ Woken(p)
  /\ serial' = [serial EXCEPT ![call[p].dev] = Emptied(call[p].dev)]
  /\ call'   = [call EXCEPT ![p] = NoCall]
  /\ UNCHANGED <<devices, refcount, cpuid>>

(* serial_write: a byte goes out when the port is ready, and the process   *)
(* sleeps a tick either way.                                               *)
write(p, fd, size) ==
  /\ AtRest(p)
  /\ size > 0 /\ DeviceAt(p, fd) \in Ports
  /\ call' = [call EXCEPT ![p] = WriteOf(size)]
  /\ UNCHANGED <<devices, refcount, serial, cpuid>>

WriteGoesOn(p) ==
  /\ call[p].op = "write"
  /\ call' = [call EXCEPT ![p] = IF call[p].left = 1 THEN NoCall ELSE WriteOf(call[p].left - 1)]
  /\ UNCHANGED <<devices, refcount, serial, cpuid>>

read_from_serial_WakesWhenFull(d) ==
  LET room  == serial[d].ptr_to < SERIAL_BUFFER_LENGTH
      queue == serial[d].read_queue
  IN /\ serial[d].opened
     /\ serial' = [serial EXCEPT ![d] =
                     IF room THEN Port(TRUE, queue, FALSE, serial[d].ptr_to + 1)
                     ELSE Queued(d, IF queue = <<>> THEN <<>> ELSE Tail(queue))]
     /\ UNCHANGED <<devices, refcount, cpuid, call>>

(* The interrupt of a byte that has come in; the port has been opened at   *)
(* least once (README).                                                    *)
read_from_serial(d) ==
  LET room  == serial[d].ptr_to < SERIAL_BUFFER_LENGTH
      queue == serial[d].read_queue
      rest  == IF queue = <<>> THEN <<>> ELSE Tail(queue)
  IN /\ serial[d].opened
     /\ serial' = [serial EXCEPT ![d] =
                     IF room THEN Port(TRUE, rest, FALSE, serial[d].ptr_to + 1)
                     ELSE Queued(d, rest)]
     /\ UNCHANGED <<devices, refcount, cpuid, call>>

-----------------------------------------------------------------------------
References(table, d) == Cardinality({x \in Pids \X Fds : table[x[1]][x[2]] = d})

fork_CountsNothing(p, child) ==
  /\ AtRest(p)
  /\ child \notin Alive
  /\ devices'  = [devices EXCEPT ![child] = devices[p]]
  /\ call'     = [call EXCEPT ![child] = NoCall]
  /\ UNCHANGED <<refcount, serial, cpuid>>

(* device_copy_fds *)
fork(p, child) ==
  /\ AtRest(p)
  /\ child \notin Alive
  /\ devices'  = [devices EXCEPT ![child] = devices[p]]
  /\ refcount' = [d \in Ports \cup Slots |->
                    refcount[d] + Cardinality({fd \in Fds : devices[p][fd] = d})]
  /\ call'     = [call EXCEPT ![child] = NoCall]
  /\ UNCHANGED <<serial, cpuid>>

exit_KeepsLast(p) ==
  LET left == [fd \in Fds |-> IF fd = MAX_FD - 1 THEN devices[p][fd] ELSE NULL]
  IN /\ AtRest(p)
     /\ devices'  = [devices EXCEPT ![p] = left]
     /\ refcount' = [d \in Ports \cup Slots |->
                       refcount[d] - Cardinality({fd \in 0 .. MAX_FD - 2 : devices[p][fd] = d})]
     /\ call'     = [call EXCEPT ![p] = Dead]
     /\ UNCHANGED <<serial, cpuid>>

(* device_close_fds_for, which closes one by one; neither driver blocks. *)
exit(p) ==
  /\ AtRest(p)
  /\ devices'  = [devices EXCEPT ![p] = [fd \in Fds |-> NULL]]
  /\ refcount' = [d \in Ports \cup Slots |->
                    refcount[d] - Cardinality({fd \in Fds : devices[p][fd] = d})]
  /\ call'     = [call EXCEPT ![p] = Dead]
  /\ UNCHANGED <<serial, cpuid>>

Call(p) ==
  \/ open(p)
  \/ \E fd \in 0 .. MAX_FD :
       close(p, fd) \/ \E size \in SIZES : read(p, fd, size) \/ write(p, fd, size)
  \/ \E child \in Pids : fork(p, child)
  \/ exit(p)

Next ==
  \/ \E p \in Pids : Call(p) \/ ReadGoesOn(p) \/ WriteGoesOn(p)
  \/ \E d \in Ports : read_from_serial(d)

Spec == Init /\ [][Next]_vars

(* A process that was woken gets its turn (Loader.tla, Sched.tla). *)
FairSpec == Spec /\ \A p \in Pids : WF_vars(ReadGoesOn(p))

-----------------------------------------------------------------------------
(* refcount is the number of descriptors that refer to a device, whatever  *)
(* is opened in a full table, inherited, closed beyond the end of the      *)
(* table or left to the exit: so the last close, and no other, flushes.    *)
RefcountsCount == \A d \in Ports \cup Slots : refcount[d] = References(devices, d)

(* What exits leaves neither descriptors nor a place in a queue, for the   *)
(* next owner of its pid to find.                                          *)
NothingOutlivesItsTask ==
  \A p \in Pids \ Alive :
    /\ \A fd \in Fds : devices[p][fd] = NULL
    /\ \A d \in Ports : ~ Contains(serial[d].read_queue, p)

(* Nobody sleeps in serial_read over bytes that have come in, unless one   *)
(* that waited before it is awake to take them.                            *)
NobodySleepsOverData ==
  \A d \in Ports :
    serial[d].read_queue # <<>> /\ ~ serial[d].buffer_free =>
      \E p \in Pids : Woken(p) /\ call[p].dev = d

(* A read of a port that bytes keep coming in at ends. *)
SerialReadsEnd ==
  \A d \in Ports : ([]<><<read_from_serial(d)>>_vars) =>
    \A p \in Pids : (Reading(p) /\ call[p].dev = d) ~> AtRest(p)
=============================================================================
