-------------------------------- MODULE Pipe --------------------------------
(***************************************************************************)
(* kernel/pipe.c under the calls read, write, close, fork and exit of the  *)
(* tasks that share pipes.  A pipe is two entries of endpoints[]: the read *)
(* end and the write end, each with its own position in the shared buffer  *)
(* and its own copy of bytes_available.                                    *)
(*                                                                         *)
(* A system call runs with interrupts disabled up to the loader_enqueue    *)
(* that blocks it, so a step of a task goes from a call, or from a wake,   *)
(* to the end of the call or to the next block.  Any task that is not in a *)
(* queue may take the next step (Loader.tla has the scheduler).            *)
(***************************************************************************)
EXTENDS Integers, Sequences, FiniteSets

CONSTANTS Tasks,
          Frames,         (* what mm_mem_kalloc can return                 *)
          Bytes,
          MAX_ENDPOINTS,
          BUFFER_SIZE,
          SIZES,          (* of the reads and writes                       *)
          REUSE           (* may a task open a pipe while another pipe has *)
                          (* one end closed?                               *)

ASSUME PipeAssumption ==
  /\ MAX_ENDPOINTS \in Nat /\ Frames # {} /\ Bytes # {}
  /\ BUFFER_SIZE \in Nat \ {0}
  /\ BUFFER_SIZE < 65536             (* 4096: bytes_available holds it   *)
  /\ SIZES \subseteq Nat \ {0}
  /\ REUSE \in BOOLEAN

(* The array endpoints[] of pipe.c, field by field: `frame' is the field   *)
(* buffer, and `buffer' what is in the frames.                             *)
VARIABLES klass, pair, frame, bytes_available, pos, queue,
          buffer,     (* the contents of each frame                        *)
          free,       (* the free frames                                   *)
          fds,        (* the endpoints each task has descriptors for       *)
          call,       (* the system call each task is in                   *)
          peer_gone   (* history: the endpoints whose other end closed     *)

endpoints == <<klass, pair, frame, bytes_available, pos, queue>>

vars == <<endpoints, buffer, free, fds, call, peer_gone>>

Endpoints == 0 .. MAX_ENDPOINTS - 1
NONE == "none"              (* klass of a free entry; no call              *)
WORD == 65536               (* bytes_available is unsigned                 *)

NoCall    == [op |-> NONE]
Unborn    == [op |-> "unborn"]
Waiting   == UNION {queue[e] : e \in Endpoints}
Born      == {t \in Tasks : call[t].op # "unborn"}
CanRun(t) == t \in Born \ Waiting
AtRest(t) == CanRun(t) /\ call[t] = NoCall

Init ==
  /\ klass     = [e \in Endpoints |-> NONE]
  /\ pair      = [e \in Endpoints |-> e]
  /\ frame     = [e \in Endpoints |-> CHOOSE f \in Frames : TRUE]
  /\ bytes_available = [e \in Endpoints |-> 0]
  /\ pos       = [e \in Endpoints |-> 0]
  /\ queue     = [e \in Endpoints |-> {}]
  /\ buffer    = [f \in Frames |-> [i \in 0 .. BUFFER_SIZE - 1 |-> CHOOSE b \in Bytes : TRUE]]
  /\ free      = Frames
  /\ fds       = [t \in Tasks |-> {}]
  /\ call      \in {[t \in Tasks |-> IF t = init THEN NoCall ELSE Unborn] :
                      init \in Tasks}
  /\ peer_gone = {}

-----------------------------------------------------------------------------
FreeEndpoints == {e \in Endpoints : klass[e] = NONE}
HalfClosed    == \E e \in Endpoints \ FreeEndpoints : e \in peer_gone

init_endpoints(in, out, f) ==
  /\ klass' = [klass EXCEPT ![in] = "read", ![out] = "write"]
  /\ pair'  = [pair  EXCEPT ![in] = out,    ![out] = in]
  /\ frame' = [frame EXCEPT ![in] = f,      ![out] = f]
  /\ pos'   = [pos   EXCEPT ![in] = 0,      ![out] = 0]
  /\ queue' = [queue EXCEPT ![in] = {},     ![out] = {}]
  /\ bytes_available' = [bytes_available EXCEPT ![in] = 0, ![out] = 0]

(* pipe: the first two free entries, if a frame is left for the buffer. *)
OpenPipe(t) ==
  /\ AtRest(t)
  /\ REUSE \/ ~ HalfClosed
  /\ \E in, out \in FreeEndpoints, f \in free :
       /\ in < out
       /\ \A e \in FreeEndpoints : e = in \/ e >= out
       /\ init_endpoints(in, out, f)
       /\ free'      = free \ {f}
       /\ fds'       = [fds EXCEPT ![t] = @ \cup {in, out}]
       /\ peer_gone' = peer_gone \ {in, out}
  /\ UNCHANGED <<buffer, call>>

(* fork: the child has the descriptors of its parent (device_copy_fds). *)
Fork(t, child) ==
  /\ AtRest(t)
  /\ child \notin Born
  /\ fds'  = [fds EXCEPT ![child] = fds[t]]
  /\ call' = [call EXCEPT ![child] = NoCall]
  /\ UNCHANGED <<endpoints, buffer, free, peer_gone>>

(* Definitions named <operator>_<Slip> are variants with a plausible       *)
(* mistake; no specification uses them.  README.md says what they are for. *)
Moved_ByOne(e, n, available) ==
  /\ pos' = [pos EXCEPT ![e] = (@ + 1) % BUFFER_SIZE]
  /\ bytes_available' =
       [bytes_available EXCEPT
          ![e] = available % WORD,
          ![pair[e]] = (@ + available - bytes_available[e]) % WORD]

(* n bytes went through e: its position moves on, both ends count them. *)
Moved(e, n, available) ==
  /\ pos' = [pos EXCEPT ![e] = (@ + n) % BUFFER_SIZE]
  /\ bytes_available' =
       [bytes_available EXCEPT
          ![e] = available % WORD,
          ![pair[e]] = (@ + available - bytes_available[e]) % WORD]

(* The queues after n bytes went through e: wake_all of the other end. *)
Woken_Nobody(e, n) == queue
Woken(e, n) == IF n = 0 THEN queue ELSE [queue EXCEPT ![pair[e]] = {}]

Ring(e, k) == (pos[e] + k) % BUFFER_SIZE

InCall(op, e, size, sz, buf) ==
  [op |-> op, end |-> e, size |-> size, sz |-> sz, buf |-> buf]

(* What is left of the call c of t when the loop has nothing to move: t    *)
(* returns, or waits in the queue of its end and tries again when woken.   *)
Return(t, queues) ==
  queue' = queues /\ call' = [call EXCEPT ![t] = NoCall]
Block(t, c, queues) ==
  queue' = [queues EXCEPT ![c.end] = @ \cup {t}] /\ call' = [call EXCEPT ![t] = c]

Least(i, j) == IF i > j THEN j ELSE i

(* How much of n bytes fits before the ring wraps. *)
Unwrapped(e, n) == Least(n, BUFFER_SIZE - pos[e])

(* The bytes of the caller after n of them are copied out of the ring.     *)
(* Both parts of a portion that wraps, and every later portion, are copied *)
(* to the start of the caller's memory: `buf' is never advanced.           *)
CopiedOut(e, n, buf) ==
  LET ring == buffer[frame[e]]
      tmp  == Unwrapped(e, n)
  IN [i \in DOMAIN buf |-> IF i <= n - tmp THEN ring[i - 1]
                           ELSE IF i <= tmp THEN ring[pos[e] + i - 1]
                           ELSE buf[i]]

(* The ring after n bytes of the caller are copied in, likewise from the   *)
(* start of `buf' each time.                                               *)
CopiedIn(e, n, buf) ==
  LET ring == buffer[frame[e]]
      tmp  == Unwrapped(e, n)
  IN [i \in DOMAIN ring |-> IF i < n - tmp THEN buf[i + 1]
                            ELSE IF i \in pos[e] .. pos[e] + tmp - 1 THEN buf[i - pos[e] + 1]
                            ELSE ring[i]]

(* The loop of pipe_read in the call c. *)
ReadLoop(t, c) ==
  LET e   == c.end
      eff == Least(bytes_available[e], c.size - c.sz)
      sz  == c.sz + eff
  IN /\ IF eff = 0 THEN UNCHANGED <<pos, bytes_available>>
        ELSE Moved(e, eff, bytes_available[e] - eff)
     /\ IF sz = c.size \/ klass[pair[e]] = NONE THEN Return(t, Woken(e, eff))
        ELSE Block(t, InCall(c.op, e, c.size, sz, CopiedOut(e, eff, c.buf)), Woken(e, eff))
     /\ UNCHANGED buffer

(* The loop of pipe_write. *)
WriteLoop(t, c) ==
  LET e   == c.end
      eff == Least(BUFFER_SIZE - bytes_available[e], c.size - c.sz)
      sz  == c.sz + eff
  IN IF klass[pair[e]] = NONE
     THEN Return(t, queue) /\ UNCHANGED <<pos, bytes_available, buffer>>
     ELSE /\ IF eff = 0 THEN UNCHANGED <<pos, bytes_available>>
             ELSE Moved(e, eff, bytes_available[e] + eff)
          /\ buffer' = [buffer EXCEPT ![frame[e]] = CopiedIn(e, eff, c.buf)]
          /\ IF sz = c.size THEN Return(t, Woken(e, eff))
             ELSE Block(t, InCall(c.op, e, c.size, sz, c.buf), Woken(e, eff))

Loop(t, c) ==
  /\ IF c.op = "read" THEN ReadLoop(t, c) ELSE WriteLoop(t, c)
  /\ UNCHANGED <<klass, pair, frame, free, fds, peer_gone>>

Call(op, e, buf) == InCall(op, e, Len(buf), 0, buf)

Read(t) ==
  /\ AtRest(t)
  /\ \E e \in fds[t], size \in SIZES :
       /\ klass[e] = "read"
       /\ Loop(t, Call("read", e, [i \in 1 .. size |-> CHOOSE b \in Bytes : TRUE]))

Write(t) ==
  /\ AtRest(t)
  /\ \E e \in fds[t], size \in SIZES : \E buf \in [1 .. size -> Bytes] :
       /\ klass[e] = "write"
       /\ Loop(t, Call("write", e, buf))

(* A task that was woken goes on with its loop. *)
Resume(t) ==
  /\ CanRun(t)
  /\ call[t].op \in {"read", "write"}
  /\ Loop(t, call[t])

(* The buffers that are freed when the ends gone are closed one by one, in *)
(* the order of their entries: each with the second end of its pipe.       *)
LastOfPipe(gone) ==
  {e \in gone : klass[pair[e]] = NONE \/ (pair[e] \in gone /\ pair[e] < e)}

pipe_flush_WakesNobody(gone) ==
  /\ klass'     = [e \in Endpoints |-> IF e \in gone THEN NONE ELSE klass[e]]
  /\ queue'     = queue
  /\ free'      = free \cup {frame[e] : e \in LastOfPipe(gone)}
  /\ peer_gone' = peer_gone \cup {pair[e] : e \in {g \in gone : pair[pair[g]] = g}}

pipe_flush_FreesTooSoon(gone) ==
  /\ klass'     = [e \in Endpoints |-> IF e \in gone THEN NONE ELSE klass[e]]
  /\ queue'     = [e \in Endpoints |-> IF \E g \in gone : pair[g] = e THEN {} ELSE queue[e]]
  /\ free'      = free \cup {frame[e] : e \in gone}
  /\ peer_gone' = peer_gone \cup {pair[e] : e \in {g \in gone : pair[pair[g]] = g}}

pipe_flush(gone) ==
  /\ klass'     = [e \in Endpoints |-> IF e \in gone THEN NONE ELSE klass[e]]
  /\ queue'     = [e \in Endpoints |-> IF \E g \in gone : pair[g] = e THEN {} ELSE queue[e]]
  /\ free'      = free \cup {frame[e] : e \in LastOfPipe(gone)}
  /\ peer_gone' = peer_gone \cup {pair[e] : e \in {g \in gone : pair[pair[g]] = g}}

(* close of the descriptors of t for the endpoints in ends: the last       *)
(* descriptor of an end flushes it.                                        *)
CloseAll(t, ends) ==
  /\ fds' = [fds EXCEPT ![t] = @ \ ends]
  /\ pipe_flush({e \in ends : \A o \in Tasks \ {t} : e \notin fds[o]})
  /\ UNCHANGED <<pair, frame, bytes_available, pos, buffer>>

Close(t) ==
  /\ AtRest(t)
  /\ \E e \in fds[t] : CloseAll(t, {e})
  /\ UNCHANGED call

(* exit closes every descriptor (device_close_fds_for). *)
Exit(t) ==
  /\ AtRest(t)
  /\ CloseAll(t, fds[t])
  /\ call' = [call EXCEPT ![t] = Unborn]

Next == \E t \in Tasks :
          \/ OpenPipe(t)
          \/ \E child \in Tasks : Fork(t, child)
          \/ Read(t)
          \/ Write(t)
          \/ Resume(t)
          \/ Close(t)
          \/ Exit(t)

Spec == Init /\ [][Next]_vars

-----------------------------------------------------------------------------
(* Nobody waits for what is already there: a reader waits only while the   *)
(* buffer is empty and its write end is open, a writer only while the      *)
(* buffer is full and its read end is open.  No wake-up of pipe_read,      *)
(* pipe_write or pipe_flush is lost, whatever runs between the wake-up and *)
(* the turn of the task that was woken.                                    *)
NobodyWaitsForNothing ==
  \A e \in Endpoints : queue[e] # {} =>
    /\ bytes_available[e] = IF klass[e] = "read" THEN 0 ELSE BUFFER_SIZE
    /\ e \notin peer_gone

(* The frames in use are those of the pipes with an end open: closing the  *)
(* ends, in any order and from any process, neither leaks a buffer nor     *)
(* frees one that the other end still uses (pipe.c:171-174).               *)
BufferLivesWithPipe ==
  {frame[e] : e \in Endpoints \ FreeEndpoints} = Frames \ free

-----------------------------------------------------------------------------
(* The bytes in the ring of an end, from its position on: each frame holds *)
(* what its read end has to take.                                          *)
InRing(e) == [k \in 1 .. bytes_available[e] |-> buffer[frame[e]][Ring(e, k - 1)]]

Reader(f) == {e \in Endpoints : klass[e] = "read" /\ frame[e] = f}

InFrame == [f \in Frames |-> IF Reader(f) = {} THEN <<>>
                             ELSE InRing(CHOOSE e \in Reader(f) : TRUE)]

OpenSides == {<<frame[e], klass[e]>> : e \in Endpoints \ FreeEndpoints}

Pipes == INSTANCE Channels
  WITH Names <- Frames, Capacity <- BUFFER_SIZE, content <- InFrame, open <- OpenSides

(* Two positions, two counts and a ring of bytes make a bounded queue: no  *)
(* byte of the ring is lost, taken twice or overwritten before it is taken.*)
ImplementsChannels == Pipes!Spec
=============================================================================
