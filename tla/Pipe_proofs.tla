----------------------------- MODULE Pipe_proofs -----------------------------
(***************************************************************************)
(* Nobody waits at a pipe for what is already there, the buffer lives      *)
(* exactly as long as its pipe, and a pipe is a bounded queue of bytes,    *)
(* for any number of tasks and pipes and any size of the buffer, while no  *)
(* entry of endpoints[] is reused before its whole pipe is closed.  These  *)
(* are about Pipe.tla and use PipeAssumption only.                         *)
(* From "memkrypt" on, about Pipelines.tla: the semaphores made of pipes   *)
(* keep each page to one process, and what memkrypt sends is the file,     *)
(* encrypted, for any file and any size and number of pages.               *)
(***************************************************************************)
EXTENDS Pipelines, FiniteSetTheorems, SequenceTheorems, TLAPS

OpenEnds    == Endpoints \ FreeEndpoints
CallRecords == [op : {"read", "write"}, end : Endpoints, size : Nat, sz : Nat, buf : Seq(Bytes)]

TypeOK ==
  /\ klass \in [Endpoints -> {NONE, "read", "write"}]
  /\ pair \in [Endpoints -> Endpoints]
  /\ frame \in [Endpoints -> Frames]
  /\ bytes_available \in [Endpoints -> 0 .. BUFFER_SIZE]
  /\ pos \in [Endpoints -> 0 .. BUFFER_SIZE - 1]
  /\ queue \in [Endpoints -> SUBSET Tasks]
  /\ buffer \in [Frames -> [0 .. BUFFER_SIZE - 1 -> Bytes]]
  /\ free \in SUBSET Frames
  /\ fds \in [Tasks -> SUBSET Endpoints]
  /\ peer_gone \in SUBSET Endpoints
  /\ call \in [Tasks -> {NoCall, Unborn} \cup CallRecords]

(* An open end and its peer name each other, share the frame and agree on  *)
(* what is in it, also when the peer has closed: its entry waits for the   *)
(* end (REUSE).  No two pipes share a frame.                               *)
Paired ==
  \A e \in OpenEnds :
    /\ pair[e] # e /\ pair[pair[e]] = e
    /\ frame[pair[e]] = frame[e]
    /\ bytes_available[pair[e]] = bytes_available[e]
    /\ klass[pair[e]] \in {NONE, IF klass[e] = "read" THEN "write" ELSE "read"}
    /\ e \in peer_gone <=> pair[e] \notin OpenEnds
    /\ \A f \in OpenEnds : frame[f] = frame[e] => f \in {e, pair[e]}

(* A call that t may be in: on an end it has, with something left to move. *)
Fits(t, c) ==
  /\ c \in CallRecords
  /\ c.end \in fds[t] /\ klass[c.end] = c.op
  /\ c.size = Len(c.buf) /\ c.sz < c.size

(* Descriptors are for open ends, and tasks wait in calls at their ends. *)
Held ==
  /\ \A t \in Tasks : fds[t] \subseteq OpenEnds
  /\ \A t \in Tasks \ Born : fds[t] = {}
  /\ \A t \in Tasks : call[t].op \in {"read", "write"} => Fits(t, call[t])
  /\ \A e \in Endpoints : \A t \in queue[e] :
       call[t].op \in {"read", "write"} /\ call[t].end = e

(* The write end's position is where the bytes from the read end's end. *)
Placed ==
  \A e \in OpenEnds : klass[e] = "read" /\ pair[e] \in OpenEnds =>
    pos[pair[e]] = Ring(e, bytes_available[e])

IInv == TypeOK /\ Paired /\ Held /\ Placed /\ NobodyWaitsForNothing /\ BufferLivesWithPipe

-----------------------------------------------------------------------------
(* Arithmetic of the ring: sums below twice the size of the buffer. *)
LEMMA Wraps ==
  ASSUME NEW B \in Nat \ {0}, NEW x \in Nat
  PROVE  /\ x % B \in 0 .. B - 1
         /\ x < B => x % B = x
         /\ B <= x /\ x < 2 * B => x % B = x - B
<1>1. x % B \in 0 .. B - 1
  OBVIOUS
<1>2. ASSUME x < B PROVE x % B = x
  <2>1. x \in 0 .. B - 1
    BY <1>2
  <2>2. QED
    BY <2>1
<1>3. ASSUME B <= x, x < 2 * B PROVE x % B = x - B
  <2>1. x \in B .. (2 * B - 1)
    BY <1>3
  <2>2. QED
    BY <2>1
<1>4. QED
  BY <1>1, <1>2, <1>3

LEMMA WrapsTwice ==
  ASSUME NEW B \in Nat \ {0}, NEW a \in 0 .. B - 1, NEW k \in Nat, NEW j \in Nat, k + j <= B
  PROVE  (((a + k) % B) + j) % B = (a + k + j) % B
<1> DEFINE x == a + k
<1>1. /\ x \in Nat /\ x < 2 * B
      /\ x + j \in Nat /\ x + j < 2 * B
  OBVIOUS
<1> HIDE DEF x
<1>2. ((x % B) + j) % B = (x + j) % B
  <2>1. CASE x < B
    BY <1>1, <2>1, Wraps
  <2>2. CASE B <= x
    <3>1. x % B = x - B
      BY <1>1, <2>2, Wraps
    <3>2. x - B + j \in Nat /\ x - B + j < B /\ B <= x + j
      BY <1>1, <2>2
    <3>3. (x - B + j) % B = x - B + j
      BY <3>2, Wraps
    <3> DEFINE y == x + j
    <3>4. y % B = y - B
      <4>1. y \in Nat /\ B <= y /\ y < 2 * B
        BY <1>1, <3>2
      <4> HIDE DEF y
      <4>2. QED
        BY <4>1, Wraps
    <3>5. QED
      BY <1>1, <3>1, <3>3, <3>4
  <2>3. QED
    BY <1>1, <2>1, <2>2
<1>3. QED
  BY <1>2 DEF x

LEMMA Size == BUFFER_SIZE \in Nat \ {0}
  BY PipeAssumption

LEMMA CountFits == ASSUME NEW n \in 0 .. BUFFER_SIZE PROVE n % WORD = n
<1>1. WORD \in Nat \ {0} /\ n \in Nat /\ n < WORD
  BY PipeAssumption DEF WORD
<1>2. QED
  BY <1>1, Wraps

(* What the copies of pipe_read and pipe_write leave are bytes. *)
LEMMA CopiesAreBytes ==
  ASSUME TypeOK, NEW e \in Endpoints, NEW n \in 0 .. BUFFER_SIZE, NEW buf \in Seq(Bytes)
  PROVE  /\ CopiedOut(e, n, buf) \in Seq(Bytes) /\ Len(CopiedOut(e, n, buf)) = Len(buf)
         /\ n <= Len(buf) => CopiedIn(e, n, buf) \in [0 .. BUFFER_SIZE - 1 -> Bytes]
<1> DEFINE ring == buffer[frame[e]]
           tmp  == Unwrapped(e, n)
<1>0. ring \in [0 .. BUFFER_SIZE - 1 -> Bytes]
  BY DEF TypeOK
<1>1. pos[e] \in 0 .. BUFFER_SIZE - 1 /\ BUFFER_SIZE \in Nat \ {0}
  BY Size DEF TypeOK
<1>2. /\ tmp \in 0 .. n /\ tmp <= BUFFER_SIZE - pos[e]
      /\ n - tmp <= pos[e]
  BY <1>1 DEF Unwrapped, Least
<1>3. CopiedOut(e, n, buf) =
        [i \in DOMAIN buf |-> IF i <= n - tmp THEN ring[i - 1]
                              ELSE IF i <= tmp THEN ring[pos[e] + i - 1] ELSE buf[i]]
  BY DEF CopiedOut
<1>4. CopiedIn(e, n, buf) =
        [i \in DOMAIN ring |-> IF i < n - tmp THEN buf[i + 1]
                               ELSE IF i \in pos[e] .. pos[e] + tmp - 1 THEN buf[i - pos[e] + 1]
                               ELSE ring[i]]
  BY DEF CopiedIn
<1> HIDE DEF ring, tmp
<1>5. CopiedOut(e, n, buf) \in [1 .. Len(buf) -> Bytes]
  <2> DEFINE byte(i) == IF i <= n - tmp THEN ring[i - 1]
                        ELSE IF i <= tmp THEN ring[pos[e] + i - 1] ELSE buf[i]
  <2>1. ASSUME NEW i \in 1 .. Len(buf) PROVE byte(i) \in Bytes
    <3>1. i <= n - tmp => i - 1 \in 0 .. BUFFER_SIZE - 1
      BY <1>1, <1>2
    <3>2. i <= tmp => pos[e] + i - 1 \in 0 .. BUFFER_SIZE - 1
      BY <1>1, <1>2
    <3>3. buf[i] \in Bytes
      OBVIOUS
    <3>4. QED
      BY <1>0, <3>1, <3>2, <3>3
  <2>2. CopiedOut(e, n, buf) = [i \in 1 .. Len(buf) |-> byte(i)]
    BY <1>3
  <2> HIDE DEF byte
  <2>3. QED
    BY <2>1, <2>2
<1>6. CopiedOut(e, n, buf) \in Seq(Bytes) /\ Len(CopiedOut(e, n, buf)) = Len(buf)
  BY <1>5
<1>7. ASSUME n <= Len(buf) PROVE CopiedIn(e, n, buf) \in [0 .. BUFFER_SIZE - 1 -> Bytes]
  BY <1>0, <1>1, <1>2, <1>4, <1>7
<1>8. QED
  BY <1>6, <1>7

-----------------------------------------------------------------------------
(* What a step of a call does: n bytes go through its end, m are there     *)
(* afterwards, and it returns, or blocks because m leaves it nothing to do.*)
Transfers(t, c, n, m) ==
  /\ UNCHANGED <<klass, pair, frame, free, fds, peer_gone>>
  /\ pos' = [pos EXCEPT ![c.end] = (pos[c.end] + n) % BUFFER_SIZE]
  /\ bytes_available' = [bytes_available EXCEPT ![c.end] = m, ![pair[c.end]] = m]
  /\ \/ Return(t, Woken(c.end, n))
     \/ /\ pair[c.end] \in OpenEnds
        /\ m = IF c.op = "read" THEN 0 ELSE BUFFER_SIZE
        /\ \E d \in CallRecords : /\ Fits(t, d) /\ d.op = c.op /\ d.end = c.end
                            /\ Block(t, d, Woken(c.end, n))

(* How many bytes go through: m of the n + m are left to a reader, and n   *)
(* join those there when a writer moves them, while somebody can read them.*)
Amount(c, n, m) ==
  \/ c.op = "read" /\ m = bytes_available[c.end] - n
  \/ /\ c.op = "write" /\ m = bytes_available[c.end] + n
     /\ n # 0 => pair[c.end] \in OpenEnds

Copies(c, n) ==
  \/ buffer' = buffer /\ (c.op = "read" \/ n = 0)
  \/ /\ c.op = "write" /\ n <= Len(c.buf)
     /\ buffer' = [buffer EXCEPT ![frame[c.end]] = CopiedIn(c.end, n, c.buf)]

LEMMA LoopTransfers ==
  ASSUME TypeOK, Paired, Held, NEW t \in Tasks, NEW c, Fits(t, c), Loop(t, c)
  PROVE  \E n, m \in 0 .. BUFFER_SIZE : Transfers(t, c, n, m) /\ Amount(c, n, m) /\ Copies(c, n)
<1> DEFINE e == c.end
<1>1. /\ e \in OpenEnds /\ e \in Endpoints /\ pair[e] \in Endpoints /\ pair[e] # e
      /\ bytes_available[e] \in 0 .. BUFFER_SIZE /\ bytes_available[pair[e]] = bytes_available[e]
      /\ pos[e] \in 0 .. BUFFER_SIZE - 1 /\ BUFFER_SIZE \in Nat \ {0}
      /\ pair[e] \in OpenEnds <=> klass[pair[e]] # NONE
  <2>1. e \in OpenEnds
    BY DEF Held, Fits
  <2>2. e \in Endpoints
    BY <2>1 DEF OpenEnds
  <2>3. pair[e] # e /\ bytes_available[pair[e]] = bytes_available[e]
    BY <2>1 DEF Paired
  <2>4. pair[e] \in Endpoints /\ bytes_available[e] \in 0 .. BUFFER_SIZE
        /\ pos[e] \in 0 .. BUFFER_SIZE - 1
    BY <2>2 DEF TypeOK
  <2>5. QED
    BY <2>1, <2>2, <2>3, <2>4, Size DEF OpenEnds, FreeEndpoints
<1>2. /\ c.size \in Nat /\ c.sz \in Nat /\ c.sz < c.size /\ c.op \in {"read", "write"}
      /\ c.buf \in Seq(Bytes) /\ Len(c.buf) = c.size /\ c \in CallRecords
      /\ c.end \in fds[t] /\ klass[c.end] = c.op
  BY DEF Fits, CallRecords
<1>3. UNCHANGED <<klass, pair, frame, free, fds, peer_gone>>
  BY DEF Loop
<1>4. ASSUME NEW n \in 0 .. BUFFER_SIZE, NEW m \in 0 .. BUFFER_SIZE, Moved(e, n, m)
      PROVE  /\ pos' = [pos EXCEPT ![e] = (pos[e] + n) % BUFFER_SIZE]
             /\ bytes_available' = [bytes_available EXCEPT ![e] = m, ![pair[e]] = m]
  <2>1. m % WORD = m
    BY CountFits
  <2>2. bytes_available[pair[e]] + m - bytes_available[e] = m
    BY <1>1
  <2>3. bytes_available' = [bytes_available EXCEPT
          ![e] = m % WORD, ![pair[e]] = (bytes_available[pair[e]] + m - bytes_available[e]) % WORD]
    BY <1>1, <1>4 DEF Moved
  <2>4. QED
    BY <1>4, <2>1, <2>2, <2>3 DEF Moved
<1>5. ASSUME UNCHANGED <<pos, bytes_available>>
      PROVE  /\ pos' = [pos EXCEPT ![e] = (pos[e] + 0) % BUFFER_SIZE]
             /\ bytes_available' = [bytes_available EXCEPT ![e] = bytes_available[e],
                                                           ![pair[e]] = bytes_available[e]]
  <2>1. (pos[e] + 0) % BUFFER_SIZE = pos[e]
    BY <1>1, Wraps
  <2>2. QED
    BY <1>1, <1>5, <2>1 DEF TypeOK
<1>6. CASE c.op = "read"
  <2> DEFINE eff == Least(bytes_available[e], c.size - c.sz)
             m   == bytes_available[e] - eff
             d   == InCall(c.op, e, c.size, c.sz + eff, CopiedOut(e, eff, c.buf))
  <2>1. /\ IF eff = 0 THEN UNCHANGED <<pos, bytes_available>> ELSE Moved(e, eff, m)
        /\ IF c.sz + eff = c.size \/ klass[pair[e]] = NONE THEN Return(t, Woken(e, eff))
           ELSE Block(t, d, Woken(e, eff))
        /\ buffer' = buffer
    BY <1>6 DEF Loop, ReadLoop
  <2>2. /\ eff \in 0 .. BUFFER_SIZE /\ m \in 0 .. BUFFER_SIZE /\ c.sz + eff <= c.size
        /\ c.sz + eff # c.size => m = 0
    <3>1. \A a \in 0 .. BUFFER_SIZE, b \in Nat :
            /\ Least(a, b) \in 0 .. BUFFER_SIZE /\ a - Least(a, b) \in 0 .. BUFFER_SIZE
            /\ Least(a, b) <= b /\ (Least(a, b) # b => a - Least(a, b) = 0)
      BY <1>1 DEF Least
    <3>2. bytes_available[e] \in 0 .. BUFFER_SIZE /\ c.size - c.sz \in Nat
      BY <1>1, <1>2
    <3>3. /\ eff \in 0 .. BUFFER_SIZE /\ m \in 0 .. BUFFER_SIZE /\ eff <= c.size - c.sz
          /\ eff # c.size - c.sz => m = 0
      BY <3>1, <3>2
    <3> HIDE DEF eff, m
    <3>4. QED
      BY <1>2, <3>3
  <2>3. c.sz + eff # c.size => Fits(t, d) /\ d.op = c.op /\ d.end = c.end
    <3>1. CopiedOut(e, eff, c.buf) \in Seq(Bytes) /\ Len(CopiedOut(e, eff, c.buf)) = c.size
      BY <1>1, <1>2, <2>2, CopiesAreBytes
    <3> HIDE DEF eff
    <3>2. QED
      BY <1>1, <1>2, <2>2, <3>1 DEF InCall, Fits, CallRecords
  <2>4. /\ pos' = [pos EXCEPT ![e] = (pos[e] + eff) % BUFFER_SIZE]
        /\ bytes_available' = [bytes_available EXCEPT ![e] = m, ![pair[e]] = m]
    <3>1. CASE eff = 0
      <4>1. m = bytes_available[e]
        BY <1>1, <3>1
      <4> HIDE DEF eff, m
      <4>2. QED
        BY <1>5, <2>1, <3>1, <4>1
    <3>2. CASE eff # 0
      <4> HIDE DEF eff, m
      <4>1. QED
        BY <1>4, <2>1, <2>2, <3>2
    <3>3. QED
      BY <3>1, <3>2
  <2>5. \/ Return(t, Woken(e, eff))
        \/ /\ pair[e] \in OpenEnds
           /\ m = 0
           /\ Fits(t, d) /\ d.op = c.op /\ d.end = c.end /\ d \in CallRecords
           /\ Block(t, d, Woken(e, eff))
    <3> HIDE DEF eff, m, d
    <3>1. QED
      BY <1>1, <2>1, <2>2, <2>3 DEF Fits
  <2> HIDE DEF eff, d
  <2>6. Transfers(t, c, eff, m)
    <3> HIDE DEF m
    <3>1. QED
      BY <1>3, <1>6, <2>4, <2>5 DEF Transfers
  <2>7. QED
    BY <1>6, <2>1, <2>2, <2>6 DEF Amount, Copies
<1>7. CASE c.op = "write"
  <2> DEFINE eff == Least(BUFFER_SIZE - bytes_available[e], c.size - c.sz)
             m   == bytes_available[e] + eff
             d   == InCall(c.op, e, c.size, c.sz + eff, c.buf)
  <2>1. CASE klass[pair[e]] = NONE
    <3>1. Return(t, queue) /\ UNCHANGED <<pos, bytes_available, buffer>>
      BY <1>7, <2>1 DEF Loop, WriteLoop
    <3>2. Transfers(t, c, 0, bytes_available[e])
      BY <1>3, <1>5, <3>1 DEF Transfers, Woken
    <3>3. 0 \in 0 .. BUFFER_SIZE
      BY <1>1
    <3>4. QED
      BY <1>1, <1>7, <3>1, <3>2, <3>3 DEF Amount, Copies
  <2>2. CASE klass[pair[e]] # NONE
    <3>1. /\ IF eff = 0 THEN UNCHANGED <<pos, bytes_available>> ELSE Moved(e, eff, m)
          /\ IF c.sz + eff = c.size THEN Return(t, Woken(e, eff))
             ELSE Block(t, d, Woken(e, eff))
          /\ buffer' = [buffer EXCEPT ![frame[e]] = CopiedIn(e, eff, c.buf)]
      BY <1>7, <2>2 DEF Loop, WriteLoop
    <3>2. /\ eff \in 0 .. BUFFER_SIZE /\ m \in 0 .. BUFFER_SIZE /\ c.sz + eff <= c.size
          /\ c.sz + eff # c.size => m = BUFFER_SIZE
          /\ eff <= Len(c.buf)
      <4>1. BUFFER_SIZE - bytes_available[e] \in 0 .. BUFFER_SIZE
        BY <1>1
      <4>2. /\ eff \in 0 .. (BUFFER_SIZE - bytes_available[e])
            /\ c.sz + eff <= c.size
            /\ c.sz + eff # c.size => eff = BUFFER_SIZE - bytes_available[e]
        BY <1>2, <4>1 DEF Least
      <4>3. eff <= c.size
        BY <1>2, <4>1, <4>2
      <4> HIDE DEF eff
      <4>4. eff <= Len(c.buf)
        BY <1>2, <4>3
      <4>5. QED
        BY <1>1, <4>1, <4>2, <4>4
    <3>3. c.sz + eff # c.size => Fits(t, d) /\ d.op = c.op /\ d.end = c.end
      <4> HIDE DEF eff
      <4>1. QED
        BY <1>1, <1>2, <3>2 DEF InCall, Fits, CallRecords
    <3>4. /\ pos' = [pos EXCEPT ![e] = (pos[e] + eff) % BUFFER_SIZE]
          /\ bytes_available' = [bytes_available EXCEPT ![e] = m, ![pair[e]] = m]
      <4>1. CASE eff = 0
        <5>1. m = bytes_available[e]
          BY <1>1, <4>1
        <5> HIDE DEF eff, m
        <5>2. QED
          BY <1>5, <3>1, <4>1, <5>1
      <4>2. CASE eff # 0
        <5> HIDE DEF eff, m
        <5>1. QED
          BY <1>4, <3>1, <3>2, <4>2
      <4>3. QED
        BY <4>1, <4>2
    <3>5. \/ Return(t, Woken(e, eff))
          \/ /\ m = BUFFER_SIZE
             /\ Fits(t, d) /\ d.op = c.op /\ d.end = c.end /\ d \in CallRecords
             /\ Block(t, d, Woken(e, eff))
      <4> HIDE DEF eff, m, d
      <4>1. QED
        BY <3>1, <3>2, <3>3 DEF Fits
    <3> HIDE DEF eff, d
    <3>6. Transfers(t, c, eff, m)
      <4> HIDE DEF m
      <4>1. QED
        BY <1>1, <1>3, <1>7, <2>2, <3>4, <3>5 DEF Transfers
    <3>7. QED
      BY <1>1, <1>7, <2>2, <3>1, <3>2, <3>6 DEF Amount, Copies
  <2>3. QED
    BY <2>1, <2>2
<1>8. QED
  BY <1>2, <1>6, <1>7

-----------------------------------------------------------------------------
(* Two ends of one pipe; nobody else has either of them for a peer. *)
LEMMA Peers ==
  ASSUME TypeOK, Paired, NEW e \in OpenEnds
  PROVE  /\ e \in Endpoints /\ pair[e] \in Endpoints /\ pair[e] # e /\ pair[pair[e]] = e
         /\ frame[pair[e]] = frame[e] /\ bytes_available[pair[e]] = bytes_available[e]
         /\ e \in peer_gone <=> pair[e] \notin OpenEnds
         /\ klass[e] = "read" => klass[pair[e]] # "read"
         /\ klass[e] # "read" => klass[pair[e]] # "write"
         /\ \A f \in OpenEnds : f # e /\ f # pair[e] => pair[f] # e /\ pair[f] # pair[e]
<1>1. e \in Endpoints
  BY DEF OpenEnds
<1>2. pair[e] \in Endpoints
  BY <1>1 DEF TypeOK
<1>3. \A f \in OpenEnds : pair[f] # f /\ pair[pair[f]] = f
  BY DEF Paired
<1>4. \A f \in OpenEnds : f # e /\ f # pair[e] => pair[f] # e /\ pair[f] # pair[e]
  BY <1>3
<1>5. klass[pair[e]] \in {NONE, IF klass[e] = "read" THEN "write" ELSE "read"}
  BY DEF Paired
<1>6. QED
  BY <1>1, <1>2, <1>3, <1>4, <1>5 DEF Paired, NONE

LEMMA OpenAlike == klass' = klass => OpenEnds' = OpenEnds
  BY DEF OpenEnds, FreeEndpoints

(* A step of a call keeps the invariant. *)
LEMMA LoopKeeps ==
  ASSUME IInv, NEW t \in Tasks, CanRun(t), NEW c, Fits(t, c), Loop(t, c)
  PROVE  IInv'
<1> DEFINE e == c.end
<1>0. TypeOK /\ Paired /\ Held /\ Placed /\ NobodyWaitsForNothing /\ BufferLivesWithPipe
  BY DEF IInv
<1>1. PICK n \in 0 .. BUFFER_SIZE, m \in 0 .. BUFFER_SIZE :
        Transfers(t, c, n, m) /\ Amount(c, n, m) /\ Copies(c, n)
  BY <1>0, LoopTransfers
<1>2. /\ e \in OpenEnds /\ e \in Endpoints /\ pair[e] \in Endpoints /\ pair[e] # e
      /\ pair[pair[e]] = e /\ bytes_available[pair[e]] = bytes_available[e]
      /\ \A f \in OpenEnds : f # e /\ f # pair[e] => pair[f] # e /\ pair[f] # pair[e]
      /\ c.op \in {"read", "write"} /\ klass[e] = c.op /\ c.buf \in Seq(Bytes)
  <2>1. e \in OpenEnds /\ c.op \in {"read", "write"} /\ klass[e] = c.op /\ c.buf \in Seq(Bytes)
    BY <1>0 DEF Held, Fits, CallRecords
  <2>2. QED
    BY <1>0, <2>1, Peers
<1>3. /\ klass' = klass /\ pair' = pair /\ frame' = frame
      /\ free' = free /\ fds' = fds /\ peer_gone' = peer_gone
      /\ pos' = [pos EXCEPT ![e] = (pos[e] + n) % BUFFER_SIZE]
      /\ bytes_available' = [bytes_available EXCEPT ![e] = m, ![pair[e]] = m]
  BY <1>1 DEF Transfers
<1>4. OpenEnds' = OpenEnds
  BY <1>3, OpenAlike
<1>5. /\ Woken(e, n) \in [Endpoints -> SUBSET Tasks]
      /\ \A f \in Endpoints : Woken(e, n)[f] \subseteq queue[f]
      /\ n # 0 => Woken(e, n)[pair[e]] = {}
  BY <1>0, <1>2 DEF Woken, TypeOK
<1>6. \/ /\ queue' = Woken(e, n) /\ call' = [call EXCEPT ![t] = NoCall]
      \/ /\ pair[e] \in OpenEnds
         /\ m = IF c.op = "read" THEN 0 ELSE BUFFER_SIZE
         /\ \E d \in CallRecords : /\ Fits(t, d) /\ d.op = c.op /\ d.end = e
                             /\ queue' = [Woken(e, n) EXCEPT ![e] = @ \cup {t}]
                             /\ call' = [call EXCEPT ![t] = d]
  BY <1>1 DEF Transfers, Return, Block
<1>7. t \in Born /\ \A f \in Endpoints : t \notin queue[f]
  BY DEF CanRun, Waiting
<1>8. TypeOK'
  <2>1. (pos[e] + n) % BUFFER_SIZE \in 0 .. BUFFER_SIZE - 1
    <3>1. pos[e] + n \in Nat
      BY <1>0, <1>2 DEF TypeOK
    <3>2. QED
      BY <3>1, Size, Wraps
  <2>2. pos' \in [Endpoints -> 0 .. BUFFER_SIZE - 1]
    BY <1>0, <1>3, <2>1 DEF TypeOK
  <2>3. bytes_available' \in [Endpoints -> 0 .. BUFFER_SIZE]
    BY <1>0, <1>3 DEF TypeOK
  <2>4. queue' \in [Endpoints -> SUBSET Tasks]
    BY <1>5, <1>6
  <2>5. call' \in [Tasks -> {NoCall, Unborn} \cup CallRecords]
    BY <1>0, <1>6 DEF TypeOK
  <2>6. buffer' \in [Frames -> [0 .. BUFFER_SIZE - 1 -> Bytes]]
    <3>1. n <= Len(c.buf) => CopiedIn(e, n, c.buf) \in [0 .. BUFFER_SIZE - 1 -> Bytes]
      BY <1>0, <1>2, CopiesAreBytes
    <3>2. QED
      BY <1>0, <1>1, <3>1 DEF Copies, TypeOK
  <2>7. QED
    BY <1>0, <1>3, <2>2, <2>3, <2>4, <2>5, <2>6 DEF TypeOK
<1>9. bytes_available'[e] = m /\ bytes_available'[pair[e]] = m
      /\ \A f \in Endpoints : f # e /\ f # pair[e] => bytes_available'[f] = bytes_available[f]
  BY <1>0, <1>2, <1>3 DEF TypeOK
<1>10. Paired'
  <2>1. \A f \in OpenEnds : bytes_available'[pair[f]] = bytes_available'[f]
    <3>1. ASSUME NEW f \in OpenEnds, f # e, f # pair[e]
          PROVE  bytes_available'[pair[f]] = bytes_available'[f]
      <4>1. /\ f \in Endpoints /\ pair[f] \in Endpoints
            /\ bytes_available[pair[f]] = bytes_available[f]
        BY <1>0, Peers
      <4>2. QED
        BY <1>2, <1>9, <3>1, <4>1
    <3>2. QED
      BY <1>2, <1>9, <3>1
  <2>2. QED
    BY <1>0, <1>3, <1>4, <2>1 DEF Paired
<1>11. \A u \in Tasks \ {t} : call'[u] = call[u]
  BY <1>0, <1>6 DEF TypeOK
<1>12. call'[t] = NoCall \/ (Fits(t, call'[t]) /\ call'[t] \in CallRecords)
  BY <1>0, <1>6 DEF TypeOK
<1>13. Held'
  <2>1. \A u \in Tasks : \A d : Fits(u, d)' <=> Fits(u, d)
    BY <1>3 DEF Fits
  <2>2. Born' = Born
    BY <1>7, <1>11, <1>12 DEF Born, NoCall, NONE, CallRecords
  <2>3. ASSUME NEW u \in Tasks, call'[u].op \in {"read", "write"} PROVE Fits(u, call[u])'
    <3>1. CASE u = t
      <4>1. Fits(t, call'[t])
        BY <1>12, <2>3, <3>1 DEF NoCall, NONE
      <4>2. QED
        BY <2>1, <3>1, <4>1
    <3>2. CASE u # t
      BY <1>0, <1>11, <2>1, <2>3, <3>2 DEF Held
    <3>3. QED
      BY <3>1, <3>2
  <2>4. ASSUME NEW f \in Endpoints, NEW u \in queue'[f]
        PROVE  call'[u].op \in {"read", "write"} /\ call'[u].end = f
    <3>1. CASE u \in queue[f]
      <4>1. u # t /\ u \in Tasks
        BY <1>0, <1>7, <3>1 DEF TypeOK
      <4>2. QED
        BY <1>0, <1>11, <3>1, <4>1 DEF Held
    <3>2. CASE u \notin queue[f]
      <4>1. f = e /\ u = t /\ \E d \in CallRecords : d.op = c.op /\ d.end = e /\ call'[t] = d
        BY <1>0, <1>5, <1>6, <2>4, <3>2 DEF TypeOK
      <4>2. QED
        BY <1>2, <4>1
    <3>3. QED
      BY <3>1, <3>2
  <2>5. QED
    BY <1>0, <1>3, <1>4, <2>2, <2>3, <2>4 DEF Held
<1>14. NobodyWaitsForNothing'
  <2> SUFFICES ASSUME NEW f \in Endpoints, queue'[f] # {}
               PROVE  /\ bytes_available'[f] = IF klass[f] = "read" THEN 0 ELSE BUFFER_SIZE
                      /\ f \notin peer_gone
    BY <1>3 DEF NobodyWaitsForNothing
  <2>1. CASE queue[f] # {} /\ ~ (n # 0 /\ f = pair[e])
    <3>1. /\ bytes_available[f] = IF klass[f] = "read" THEN 0 ELSE BUFFER_SIZE
          /\ f \notin peer_gone
      BY <1>0, <2>1 DEF NobodyWaitsForNothing
    <3>2. CASE f = e
      <4>1. m = bytes_available[e]
        BY <1>1, <1>2, <3>1, <3>2, Size DEF Amount
      <4>2. QED
        BY <1>9, <3>1, <3>2, <4>1
    <3>3. CASE f = pair[e]
      <4>1. n = 0 /\ m = bytes_available[e]
        <5>1. n = 0
          BY <2>1, <3>3
        <5>2. bytes_available[e] \in Nat
          BY <1>0, <1>2, Size DEF TypeOK
        <5>3. QED
          BY <1>1, <5>1, <5>2 DEF Amount
      <4>2. QED
        BY <1>2, <1>9, <3>1, <3>3, <4>1
    <3>4. CASE f # e /\ f # pair[e]
      BY <1>9, <3>1, <3>4
    <3>5. QED
      BY <3>2, <3>3, <3>4
  <2>2. CASE queue[f] = {} \/ (n # 0 /\ f = pair[e])
    <3>1. Woken(e, n)[f] = {}
      BY <1>5, <2>2
    <3>2. f = e /\ pair[e] \in OpenEnds /\ m = IF c.op = "read" THEN 0 ELSE BUFFER_SIZE
      BY <1>5, <1>6, <3>1
    <3>3. e \notin peer_gone
      BY <1>0, <1>2, <3>2, Peers
    <3>4. QED
      BY <1>2, <1>9, <3>2, <3>3
  <2>3. QED
    BY <2>1, <2>2
<1>15. Placed'
  <2> SUFFICES ASSUME NEW r \in OpenEnds, klass[r] = "read", pair[r] \in OpenEnds
               PROVE  pos'[pair[r]] = (pos'[r] + bytes_available'[r]) % BUFFER_SIZE
    BY <1>3, <1>4 DEF Placed, Ring
  <2>1. pos[pair[r]] = (pos[r] + bytes_available[r]) % BUFFER_SIZE
    BY <1>0 DEF Placed, Ring
  <2>2. /\ r \in Endpoints /\ pair[r] \in Endpoints /\ pair[r] # r /\ klass[pair[r]] # "read"
        /\ pair[pair[r]] = r
    BY <1>0, Peers
  <2>3. /\ pos[e] \in 0 .. BUFFER_SIZE - 1 /\ pos[r] \in 0 .. BUFFER_SIZE - 1
        /\ bytes_available[e] \in Nat /\ bytes_available[r] \in Nat
    BY <1>0, <1>2, <2>2, Size DEF TypeOK
  <2>4. pos'[e] = (pos[e] + n) % BUFFER_SIZE /\ \A f \in Endpoints \ {e} : pos'[f] = pos[f]
    BY <1>0, <1>2, <1>3 DEF TypeOK
  <2>5. CASE r = e
    <3>1. m = bytes_available[e] - n /\ m \in Nat /\ n \in Nat /\ n + m <= BUFFER_SIZE
      <4>1. bytes_available[e] \in 0 .. BUFFER_SIZE
        BY <1>0, <1>2 DEF TypeOK
      <4>2. m = bytes_available[e] - n
        BY <1>1, <1>2, <2>5 DEF Amount
      <4>3. QED
        BY <4>1, <4>2, Size
    <3>2. (((pos[e] + n) % BUFFER_SIZE) + m) % BUFFER_SIZE = (pos[e] + n + m) % BUFFER_SIZE
      BY <2>3, <3>1, Size, WrapsTwice
    <3>3. pos[e] + n + m = pos[e] + bytes_available[e]
      BY <2>3, <3>1
    <3>4. QED
      BY <1>9, <2>1, <2>2, <2>4, <2>5, <3>2, <3>3
  <2>6. CASE pair[r] = e
    <3>1. r = pair[e] /\ c.op = "write"
      BY <1>2, <2>2, <2>6
    <3>2. /\ m = bytes_available[r] + n /\ m \in Nat /\ n \in Nat
          /\ bytes_available[r] + n <= BUFFER_SIZE
      <4>1. m = bytes_available[r] + n
        BY <1>1, <1>2, <3>1 DEF Amount
      <4>2. QED
        BY <2>3, <4>1, Size
    <3>3. (((pos[r] + bytes_available[r]) % BUFFER_SIZE) + n) % BUFFER_SIZE
             = (pos[r] + bytes_available[r] + n) % BUFFER_SIZE
      BY <2>3, <3>2, Size, WrapsTwice
    <3>4. pos[r] + bytes_available[r] + n = pos[r] + m
      BY <2>3, <3>2
    <3>5. pos'[e] = (pos[r] + m) % BUFFER_SIZE
      BY <2>1, <2>4, <2>6, <3>3, <3>4
    <3>6. pos'[r] = pos[r] /\ bytes_available'[r] = m
      BY <1>9, <2>2, <2>4, <2>6, <3>1
    <3>7. QED
      BY <2>6, <3>5, <3>6
  <2>7. CASE r # e /\ pair[r] # e
    <3>1. r # pair[e]
      BY <1>2, <2>7
    <3>2. bytes_available'[r] = bytes_available[r] /\ pos'[r] = pos[r] /\ pos'[pair[r]] = pos[pair[r]]
      BY <1>9, <2>2, <2>4, <2>7, <3>1
    <3>3. QED
      BY <2>1, <3>2
  <2>8. QED
    BY <2>5, <2>6, <2>7
<1>16. BufferLivesWithPipe'
  BY <1>0, <1>3 DEF BufferLivesWithPipe, FreeEndpoints
<1>17. QED
  BY <1>8, <1>10, <1>13, <1>14, <1>15, <1>16 DEF IInv

(* Closing keeps the invariant: an end that is flushed is one that nobody  *)
(* has any more, so nobody waits at it, and its buffer goes when its peer  *)
(* is closed too.                                                          *)
LEMMA CloseKeeps ==
  ASSUME IInv, NEW t \in Tasks, AtRest(t), NEW shut \in SUBSET fds[t], CloseAll(t, shut),
         call' = call \/ (shut = fds[t] /\ call' = [call EXCEPT ![t] = Unborn])
  PROVE  IInv'
<1> DEFINE gone == {e \in shut : \A o \in Tasks \ {t} : e \notin fds[o]}
<1>1. TypeOK /\ Paired /\ Held /\ Placed /\ NobodyWaitsForNothing /\ BufferLivesWithPipe
  BY DEF IInv
<1>2. /\ fds' = [fds EXCEPT ![t] = @ \ shut]
      /\ pipe_flush(gone)
      /\ pair' = pair /\ frame' = frame /\ bytes_available' = bytes_available
      /\ pos' = pos /\ buffer' = buffer
  BY DEF CloseAll
<1>3. gone \subseteq shut /\ gone \subseteq OpenEnds
  BY <1>1 DEF Held
<1>4. \A u \in Tasks \ {t} : fds[u] \cap gone = {}
  OBVIOUS
<1> HIDE DEF gone
<1>5. \A e \in OpenEnds : /\ e \in Endpoints /\ pair[e] \in Endpoints /\ pair[e] # e
                      /\ pair[pair[e]] = e /\ frame[pair[e]] = frame[e]
                      /\ (e \in peer_gone <=> pair[e] \notin OpenEnds)
                      /\ \A f \in OpenEnds : frame[f] = frame[e] => f \in {e, pair[e]}
  BY <1>1, Peers DEF Paired
<1>6. /\ klass' = [e \in Endpoints |-> IF e \in gone THEN NONE ELSE klass[e]]
      /\ queue' = [e \in Endpoints |-> IF \E g \in gone : pair[g] = e THEN {} ELSE queue[e]]
      /\ free' = free \cup {frame[e] : e \in LastOfPipe(gone)}
      /\ peer_gone' = peer_gone \cup {pair[e] : e \in gone}
  BY <1>2, <1>3, <1>5 DEF pipe_flush
<1>7. OpenEnds' = OpenEnds \ gone
  BY <1>6 DEF OpenEnds, FreeEndpoints
<1>8. \A f \in Endpoints : queue'[f] \subseteq queue[f] /\ (f \notin gone => klass'[f] = klass[f])
  BY <1>6
<1>9. \A f \in Endpoints : t \notin queue[f]
  BY DEF AtRest, CanRun, Waiting
<1>10. TypeOK'
  <2>1. klass' \in [Endpoints -> {NONE, "read", "write"}]
    BY <1>1, <1>6 DEF TypeOK
  <2>2. queue' \in [Endpoints -> SUBSET Tasks]
    BY <1>1, <1>6 DEF TypeOK
  <2>3. free' \in SUBSET Frames
    <3>1. LastOfPipe(gone) \subseteq Endpoints
      BY <1>3, <1>5 DEF LastOfPipe
    <3>2. QED
      BY <1>1, <1>6, <3>1 DEF TypeOK
  <2>4. peer_gone' \in SUBSET Endpoints
    BY <1>1, <1>3, <1>5, <1>6 DEF TypeOK
  <2>5. fds' \in [Tasks -> SUBSET Endpoints]
    BY <1>1, <1>2 DEF TypeOK
  <2>6. call' \in [Tasks -> {NoCall, Unborn} \cup CallRecords]
    BY <1>1 DEF TypeOK
  <2>7. QED
    BY <1>1, <1>2, <2>1, <2>2, <2>3, <2>4, <2>5, <2>6 DEF TypeOK
<1>11. Paired'
  <2> SUFFICES ASSUME NEW e \in OpenEnds \ gone
      PROVE  /\ pair[e] # e /\ pair[pair[e]] = e /\ frame[pair[e]] = frame[e]
             /\ bytes_available[pair[e]] = bytes_available[e]
             /\ klass'[pair[e]] \in {NONE, IF klass'[e] = "read" THEN "write" ELSE "read"}
             /\ e \in peer_gone' <=> pair[e] \notin OpenEnds \ gone
             /\ \A f \in OpenEnds \ gone : frame[f] = frame[e] => f \in {e, pair[e]}
    BY <1>2, <1>7 DEF Paired
  <2>1. /\ bytes_available[pair[e]] = bytes_available[e]
        /\ klass[pair[e]] \in {NONE, IF klass[e] = "read" THEN "write" ELSE "read"}
    BY <1>1 DEF Paired
  <2>2. e \in {pair[g] : g \in gone} <=> pair[e] \in gone
    BY <1>3, <1>5
  <2>3. e \in peer_gone' <=> pair[e] \notin OpenEnds \ gone
    BY <1>3, <1>5, <1>6, <2>2
  <2>4. klass'[e] = klass[e] /\ klass'[pair[e]] \in {NONE, klass[pair[e]]}
    BY <1>5, <1>6
  <2>5. QED
    BY <1>5, <2>1, <2>3, <2>4
<1>12. Held'
  <2>1. ASSUME NEW u \in Tasks PROVE fds'[u] \subseteq OpenEnds \ gone
    <3>1. fds[u] \subseteq OpenEnds
      BY <1>1 DEF Held
    <3>2. CASE u = t
      BY <1>1, <1>2, <1>3, <3>1, <3>2 DEF TypeOK
    <3>3. CASE u # t
      BY <1>1, <1>2, <1>4, <3>1, <3>3 DEF TypeOK
    <3>4. QED
      BY <3>2, <3>3
  <2>2. \A u \in Tasks \ {t} : call'[u] = call[u] /\ fds'[u] = fds[u]
    BY <1>1, <1>2 DEF TypeOK
  <2>3. /\ call'[t].op \notin {"read", "write"}
        /\ call'[t].op = "unborn" => fds'[t] = {}
    BY <1>1, <1>2 DEF AtRest, NoCall, Unborn, NONE, TypeOK
  <2>4. ASSUME NEW u \in Tasks \ Born' PROVE fds'[u] = {}
    BY <1>1, <2>2, <2>3, <2>4 DEF Born, Held
  <2>5. ASSUME NEW u \in Tasks, call'[u].op \in {"read", "write"} PROVE Fits(u, call[u])'
    <3>1. u # t /\ call'[u] = call[u] /\ fds'[u] = fds[u]
      BY <2>2, <2>3, <2>5
    <3>2. Fits(u, call[u])
      BY <1>1, <2>5, <3>1 DEF Held
    <3>3. call[u].end \in Endpoints /\ klass'[call[u].end] = klass[call[u].end]
      BY <1>4, <1>8, <3>1, <3>2 DEF Fits, CallRecords
    <3>4. QED
      BY <3>1, <3>2, <3>3 DEF Fits
  <2>6. ASSUME NEW f \in Endpoints, NEW u \in queue'[f]
        PROVE  call'[u].op \in {"read", "write"} /\ call'[u].end = f
    <3>1. u \in queue[f] /\ u # t /\ u \in Tasks
      BY <1>1, <1>8, <1>9, <2>6 DEF TypeOK
    <3>2. QED
      BY <1>1, <2>2, <3>1 DEF Held
  <2>7. QED
    BY <1>7, <2>1, <2>4, <2>5, <2>6 DEF Held
<1>13. Placed'
  <2> SUFFICES ASSUME NEW r \in OpenEnds \ gone, klass'[r] = "read", pair[r] \in OpenEnds \ gone
               PROVE  pos[pair[r]] = (pos[r] + bytes_available[r]) % BUFFER_SIZE
    BY <1>2, <1>7 DEF Placed, Ring
  <2>1. klass[r] = "read"
    BY <1>5, <1>8
  <2>2. QED
    BY <1>1, <2>1 DEF Placed, Ring
<1>14. NobodyWaitsForNothing'
  <2> SUFFICES ASSUME NEW f \in Endpoints, queue'[f] # {}
               PROVE  /\ bytes_available[f] = IF klass'[f] = "read" THEN 0 ELSE BUFFER_SIZE
                      /\ f \notin peer_gone'
    BY <1>2 DEF NobodyWaitsForNothing
  <2>1. queue[f] # {} /\ \A g \in gone : pair[g] # f
    BY <1>6
  <2>2. f \notin peer_gone'
    BY <1>1, <1>6, <2>1 DEF NobodyWaitsForNothing
  <2>3. klass'[f] = klass[f]
    <3>1. PICK u \in Tasks : u \in queue[f] /\ u # t
      BY <1>1, <1>9, <2>1 DEF TypeOK
    <3>2. f \in fds[u]
      BY <1>1, <3>1 DEF Held, Fits
    <3>3. QED
      BY <1>4, <1>8, <3>1, <3>2
  <2>4. QED
    BY <1>1, <2>1, <2>2, <2>3 DEF NobodyWaitsForNothing
<1>15. BufferLivesWithPipe'
  <2>1. \A e \in gone : \/ e \in LastOfPipe(gone)
                        \/ pair[e] \in OpenEnds \ gone
                        \/ pair[e] \in LastOfPipe(gone)
    <3> SUFFICES ASSUME NEW e \in gone, e \notin LastOfPipe(gone), pair[e] \notin OpenEnds \ gone
                 PROVE  pair[e] \in LastOfPipe(gone)
      OBVIOUS
    <3>1. e \in Int /\ pair[e] \in Int /\ pair[e] # e /\ pair[pair[e]] = e
      <4>1. Endpoints \subseteq Int
        BY PipeAssumption DEF Endpoints
      <4>2. QED
        BY <1>3, <1>5, <4>1
    <3>2. pair[e] \in gone /\ ~ (pair[e] < e)
      BY <1>3, <1>5 DEF LastOfPipe, OpenEnds, FreeEndpoints
    <3>3. e < pair[e]
      BY <3>1, <3>2
    <3>4. QED
      BY <3>1, <3>2, <3>3 DEF LastOfPipe
  <2>2. \A g \in LastOfPipe(gone) : g \in gone /\ pair[g] \notin OpenEnds \ gone
    <3> SUFFICES ASSUME NEW g \in gone, g \in LastOfPipe(gone), pair[g] \in OpenEnds \ gone
                 PROVE  FALSE
      BY DEF LastOfPipe
    <3>1. QED
      BY DEF LastOfPipe, OpenEnds, FreeEndpoints
  <2>3. {frame[e] : e \in OpenEnds} = Frames \ free
    BY <1>1 DEF BufferLivesWithPipe, OpenEnds
  <2>4. ASSUME NEW e \in OpenEnds \ gone PROVE frame[e] \in Frames \ free'
    <3>1. frame[e] \in Frames \ free
      BY <2>3
    <3>2. ASSUME NEW g \in LastOfPipe(gone), frame[e] = frame[g] PROVE FALSE
      BY <1>3, <1>5, <2>2, <3>2
    <3>3. QED
      BY <1>6, <3>1, <3>2
  <2>5. ASSUME NEW f \in Frames \ free' PROVE f \in {frame[e] : e \in OpenEnds \ gone}
    <3>1. f \in Frames \ free /\ \A e \in LastOfPipe(gone) : frame[e] # f
      BY <1>6
    <3>2. PICK e \in OpenEnds : frame[e] = f
      BY <2>3, <3>1
    <3>3. frame[pair[e]] = f
      BY <1>5, <3>2
    <3>4. QED
      BY <2>1, <3>1, <3>2, <3>3
  <2>6. {frame[e] : e \in OpenEnds \ gone} = Frames \ free'
    BY <2>4, <2>5
  <2>7. QED
    BY <1>2, <1>7, <2>6 DEF BufferLivesWithPipe, OpenEnds
<1>16. QED
  BY <1>10, <1>11, <1>12, <1>13, <1>14, <1>15 DEF IInv

-----------------------------------------------------------------------------
(* While no entry is reused before its whole pipe is closed, an open end   *)
(* names its own peer, and pipe takes two entries that nobody names.       *)
LEMMA OpenKeeps ==
  ASSUME IInv, REUSE = FALSE, NEW t \in Tasks, OpenPipe(t)
  PROVE  IInv'
<1>1. TypeOK /\ Paired /\ Held /\ Placed /\ NobodyWaitsForNothing /\ BufferLivesWithPipe
  BY DEF IInv
<1>2. PICK in \in FreeEndpoints, out \in FreeEndpoints, f \in free :
        /\ in < out
        /\ init_endpoints(in, out, f)
        /\ free' = free \ {f}
        /\ fds' = [fds EXCEPT ![t] = @ \cup {in, out}]
        /\ peer_gone' = peer_gone \ {in, out}
  BY DEF OpenPipe
<1>3. /\ in \in Endpoints /\ out \in Endpoints /\ in # out
      /\ klass[in] = NONE /\ klass[out] = NONE /\ in \notin OpenEnds /\ out \notin OpenEnds
  <2>1. in \in Int /\ out \in Int
    <3>1. Endpoints \subseteq Int
      BY PipeAssumption DEF Endpoints
    <3>2. QED
      BY <3>1 DEF FreeEndpoints
  <2>2. QED
    BY <1>2, <2>1 DEF FreeEndpoints, OpenEnds
<1>4. f \in Frames /\ \A e \in OpenEnds : frame[e] # f
  BY <1>1 DEF TypeOK, BufferLivesWithPipe, OpenEnds
<1>5. \A e \in OpenEnds : /\ e \in Endpoints /\ pair[e] \in OpenEnds /\ e \notin peer_gone
                      /\ e # in /\ e # out /\ pair[e] # in /\ pair[e] # out
  <2>1. \A e \in OpenEnds : e \notin peer_gone
    BY DEF OpenPipe, HalfClosed, OpenEnds
  <2>2. QED
    BY <1>1, <1>3, <2>1, Peers
<1>6. /\ klass' = [klass EXCEPT ![in] = "read", ![out] = "write"]
      /\ pair'  = [pair  EXCEPT ![in] = out,    ![out] = in]
      /\ frame' = [frame EXCEPT ![in] = f,      ![out] = f]
      /\ pos'   = [pos   EXCEPT ![in] = 0,      ![out] = 0]
      /\ queue' = [queue EXCEPT ![in] = {},     ![out] = {}]
      /\ bytes_available' = [bytes_available EXCEPT ![in] = 0, ![out] = 0]
      /\ buffer' = buffer /\ call' = call
  BY <1>2 DEF init_endpoints, OpenPipe
<1>7. /\ klass'[in] = "read" /\ klass'[out] = "write" /\ pair'[in] = out /\ pair'[out] = in
      /\ frame'[in] = f /\ frame'[out] = f /\ pos'[in] = 0 /\ pos'[out] = 0
      /\ queue'[in] = {} /\ queue'[out] = {}
      /\ bytes_available'[in] = 0 /\ bytes_available'[out] = 0
  BY <1>1, <1>3, <1>6 DEF TypeOK
<1>8. ASSUME NEW e \in Endpoints, e # in, e # out
      PROVE  /\ klass'[e] = klass[e] /\ pair'[e] = pair[e] /\ frame'[e] = frame[e]
             /\ pos'[e] = pos[e] /\ queue'[e] = queue[e]
             /\ bytes_available'[e] = bytes_available[e]
  BY <1>1, <1>6, <1>8 DEF TypeOK
<1>9. OpenEnds' = OpenEnds \cup {in, out}
  BY <1>3, <1>7, <1>8 DEF OpenEnds, FreeEndpoints, NONE
<1>10. t \in Born
  BY DEF OpenPipe, AtRest, CanRun
<1>11. TypeOK'
  <2>1. 0 \in 0 .. BUFFER_SIZE /\ 0 \in 0 .. BUFFER_SIZE - 1
    BY Size
  <2>2. klass' \in [Endpoints -> {NONE, "read", "write"}]
    BY <1>1, <1>6 DEF TypeOK
  <2>3. pair' \in [Endpoints -> Endpoints] /\ frame' \in [Endpoints -> Frames]
    BY <1>1, <1>3, <1>4, <1>6 DEF TypeOK
  <2>4. pos' \in [Endpoints -> 0 .. BUFFER_SIZE - 1]
        /\ bytes_available' \in [Endpoints -> 0 .. BUFFER_SIZE]
    BY <1>1, <1>6, <2>1 DEF TypeOK
  <2>5. queue' \in [Endpoints -> SUBSET Tasks]
    BY <1>1, <1>6 DEF TypeOK
  <2>6. /\ free' \in SUBSET Frames /\ peer_gone' \in SUBSET Endpoints
        /\ fds' \in [Tasks -> SUBSET Endpoints]
    BY <1>1, <1>2, <1>3 DEF TypeOK
  <2>7. QED
    BY <1>1, <1>6, <2>2, <2>3, <2>4, <2>5, <2>6 DEF TypeOK
<1>12. Paired'
  <2> SUFFICES ASSUME NEW e \in OpenEnds'
      PROVE  /\ pair'[e] # e /\ pair'[pair'[e]] = e /\ frame'[pair'[e]] = frame'[e]
             /\ bytes_available'[pair'[e]] = bytes_available'[e]
             /\ klass'[pair'[e]] \in {NONE, IF klass'[e] = "read" THEN "write" ELSE "read"}
             /\ e \in peer_gone' <=> pair'[e] \notin OpenEnds'
             /\ \A g \in OpenEnds' : frame'[g] = frame'[e] => g \in {e, pair'[e]}
    BY DEF Paired
  <2>1. \A g \in OpenEnds : frame'[g] = frame[g]
    BY <1>5, <1>8
  <2>2. CASE e \in {in, out}
    <3>1. e \notin peer_gone'
      BY <1>2, <2>2
    <3>2. QED
      BY <1>3, <1>4, <1>7, <1>9, <2>1, <2>2, <3>1
  <2>3. CASE e \in OpenEnds
    <3>1. /\ pair[e] # e /\ pair[pair[e]] = e /\ frame[pair[e]] = frame[e]
          /\ bytes_available[pair[e]] = bytes_available[e]
          /\ klass[pair[e]] \in {NONE, IF klass[e] = "read" THEN "write" ELSE "read"}
          /\ \A g \in OpenEnds : frame[g] = frame[e] => g \in {e, pair[e]}
      BY <1>1, <2>3 DEF Paired
    <3>2. /\ klass'[e] = klass[e] /\ pair'[e] = pair[e] /\ frame'[e] = frame[e]
          /\ bytes_available'[e] = bytes_available[e]
          /\ klass'[pair[e]] = klass[pair[e]] /\ pair'[pair[e]] = pair[pair[e]]
          /\ frame'[pair[e]] = frame[pair[e]]
          /\ bytes_available'[pair[e]] = bytes_available[pair[e]]
      BY <1>5, <1>8, <2>3
    <3>3. e \notin peer_gone' /\ pair[e] \in OpenEnds'
      BY <1>2, <1>5, <1>9, <2>3
    <3>4. \A g \in OpenEnds' : frame'[g] = frame[e] => g \in {e, pair[e]}
      BY <1>4, <1>7, <1>9, <2>1, <2>3, <3>1
    <3>5. QED
      BY <3>1, <3>2, <3>3, <3>4
  <2>4. QED
    BY <1>9, <2>2, <2>3
<1>13. Held'
  <2>1. \A u \in Tasks : /\ fds[u] \subseteq fds'[u]
                         /\ fds'[u] \subseteq fds[u] \cup {in, out}
                         /\ u # t => fds'[u] = fds[u]
    BY <1>1, <1>2 DEF TypeOK
  <2>2. \A u \in Tasks : fds'[u] \subseteq OpenEnds'
    BY <1>1, <1>9, <2>1 DEF Held
  <2>3. Born' = Born
    BY <1>6 DEF Born
  <2>4. \A u \in Tasks \ Born' : fds'[u] = {}
    BY <1>1, <1>10, <2>1, <2>3 DEF Held
  <2>5. ASSUME NEW u \in Tasks, call[u].op \in {"read", "write"} PROVE Fits(u, call[u])'
    <3>1. Fits(u, call[u]) /\ call[u].end \in fds[u] /\ fds[u] \subseteq OpenEnds
      BY <1>1, <2>5 DEF Held, Fits
    <3>2. klass'[call[u].end] = klass[call[u].end]
      BY <1>5, <1>8, <3>1
    <3>3. QED
      BY <1>6, <2>1, <3>1, <3>2 DEF Fits
  <2>6. \A e \in Endpoints : \A u \in queue'[e] : call'[u].op \in {"read", "write"} /\ call'[u].end = e
    BY <1>1, <1>6, <1>7, <1>8 DEF Held
  <2>7. QED
    BY <1>6, <2>2, <2>4, <2>5, <2>6 DEF Held
<1>14. Placed'
  <2> SUFFICES ASSUME NEW r \in OpenEnds', klass'[r] = "read", pair'[r] \in OpenEnds'
               PROVE  pos'[pair'[r]] = (pos'[r] + bytes_available'[r]) % BUFFER_SIZE
    BY DEF Placed, Ring
  <2>1. CASE r \in OpenEnds
    <3>1. pos[pair[r]] = (pos[r] + bytes_available[r]) % BUFFER_SIZE
      BY <1>1, <1>5, <1>8, <2>1 DEF Placed, Ring
    <3>2. QED
      BY <1>5, <1>8, <2>1, <3>1
  <2>2. CASE r = in
    <3>1. (0 + 0) % BUFFER_SIZE = 0
      BY Size, Wraps
    <3>2. QED
      BY <1>7, <2>2, <3>1
  <2>3. QED
    BY <1>7, <1>9, <2>1, <2>2
<1>15. NobodyWaitsForNothing'
  <2> SUFFICES ASSUME NEW e \in Endpoints, queue'[e] # {}
               PROVE  /\ bytes_available'[e] = IF klass'[e] = "read" THEN 0 ELSE BUFFER_SIZE
                      /\ e \notin peer_gone'
    BY DEF NobodyWaitsForNothing
  <2>1. e # in /\ e # out
    BY <1>7
  <2>2. QED
    BY <1>1, <1>2, <1>8, <2>1 DEF NobodyWaitsForNothing
<1>16. BufferLivesWithPipe'
  <2>1. {frame[e] : e \in OpenEnds} = Frames \ free
    BY <1>1 DEF BufferLivesWithPipe, OpenEnds
  <2>2. {frame'[e] : e \in OpenEnds'} = {frame[e] : e \in OpenEnds} \cup {f}
    <3>1. \A e \in OpenEnds : frame'[e] = frame[e]
      BY <1>5, <1>8
    <3>2. QED
      BY <1>7, <1>9, <3>1
  <2>3. {frame'[e] : e \in OpenEnds'} = Frames \ free'
    BY <1>1, <1>2, <2>1, <2>2 DEF TypeOK
  <2>4. QED
    BY <2>3 DEF BufferLivesWithPipe, OpenEnds
<1>17. QED
  BY <1>11, <1>12, <1>13, <1>14, <1>15, <1>16 DEF IInv

(* A child starts with the descriptors of its father, in no call. *)
LEMMA ForkKeeps ==
  ASSUME IInv, NEW t \in Tasks, NEW child \in Tasks, Fork(t, child)
  PROVE  IInv'
<1>1. TypeOK /\ Paired /\ Held /\ Placed /\ NobodyWaitsForNothing /\ BufferLivesWithPipe
  BY DEF IInv
<1>2. /\ fds' = [fds EXCEPT ![child] = fds[t]] /\ call' = [call EXCEPT ![child] = NoCall]
      /\ klass' = klass /\ pair' = pair /\ frame' = frame
      /\ bytes_available' = bytes_available /\ pos' = pos /\ queue' = queue
      /\ buffer' = buffer /\ free' = free /\ peer_gone' = peer_gone
      /\ call[child].op = "unborn"
  BY DEF Fork, endpoints, Born
<1>3. TypeOK'
  <2>1. fds' \in [Tasks -> SUBSET Endpoints] /\ call' \in [Tasks -> {NoCall, Unborn} \cup CallRecords]
    BY <1>1, <1>2 DEF TypeOK
  <2>2. QED
    BY <1>1, <1>2, <2>1 DEF TypeOK
<1>4. OpenEnds' = OpenEnds
  BY <1>2, OpenAlike
<1>5. Held'
  <2>1. \A u \in Tasks \ {child} : call'[u] = call[u] /\ fds'[u] = fds[u]
    BY <1>1, <1>2 DEF TypeOK
  <2>2. call'[child] = NoCall /\ fds'[child] = fds[t]
    BY <1>1, <1>2 DEF TypeOK
  <2>3. \A u \in Tasks : fds'[u] \subseteq OpenEnds
    BY <1>1, <2>1, <2>2 DEF Held
  <2>4. ASSUME NEW u \in Tasks \ Born' PROVE fds'[u] = {}
    <3>1. u # child
      BY <2>2, <2>4 DEF Born, NoCall, NONE
    <3>2. QED
      BY <1>1, <2>1, <2>4, <3>1 DEF Born, Held
  <2>5. ASSUME NEW u \in Tasks, call'[u].op \in {"read", "write"} PROVE Fits(u, call[u])'
    <3>1. u # child
      BY <2>2, <2>5 DEF NoCall, NONE
    <3>2. Fits(u, call[u]) /\ call'[u] = call[u] /\ fds'[u] = fds[u]
      BY <1>1, <2>1, <2>5, <3>1 DEF Held
    <3>3. QED
      BY <1>2, <3>2 DEF Fits
  <2>6. ASSUME NEW e \in Endpoints, NEW u \in queue[e]
        PROVE  call'[u].op \in {"read", "write"} /\ call'[u].end = e
    <3>1. call[u].op \in {"read", "write"} /\ call[u].end = e /\ u \in Tasks
      BY <1>1 DEF Held, TypeOK
    <3>2. u # child
      BY <1>2, <3>1
    <3>3. QED
      BY <2>1, <3>1, <3>2
  <2>7. QED
    BY <1>2, <1>4, <2>3, <2>4, <2>5, <2>6 DEF Held
<1>6. Paired' /\ Placed'
  BY <1>1, <1>2, <1>4 DEF Paired, Placed, Ring
<1>7. NobodyWaitsForNothing' /\ BufferLivesWithPipe'
  BY <1>1, <1>2 DEF NobodyWaitsForNothing, BufferLivesWithPipe, FreeEndpoints
<1>8. QED
  BY <1>3, <1>5, <1>6, <1>7 DEF IInv

LEMMA CallFits ==
  ASSUME TypeOK, NEW t \in Tasks, NEW op \in {"read", "write"}, NEW e \in fds[t], klass[e] = op,
         NEW size \in SIZES, NEW buf \in [1 .. size -> Bytes]
  PROVE  Fits(t, Call(op, e, buf))
<1>1. e \in Endpoints
  BY DEF TypeOK
<1>2. size \in Nat /\ size > 0
  BY PipeAssumption
<1>3. buf \in Seq(Bytes) /\ Len(buf) = size
  BY <1>2
<1>4. QED
  BY <1>1, <1>2, <1>3 DEF Fits, Call, InCall, CallRecords

LEMMA Initial == Init => IInv
<1> SUFFICES ASSUME Init PROVE IInv
  OBVIOUS
<1>1. klass = [e \in Endpoints |-> NONE]
  BY DEF Init
<1>2. OpenEnds = {}
  BY <1>1 DEF OpenEnds, FreeEndpoints
<1>3. \A t \in Tasks : fds[t] = {} /\ call[t] \in {NoCall, Unborn}
  BY DEF Init
<1>4. \A e \in Endpoints : queue[e] = {}
  BY DEF Init
<1>5. TypeOK
  <2>1. 0 \in 0 .. BUFFER_SIZE /\ 0 \in 0 .. BUFFER_SIZE - 1
    BY Size
  <2>2. (CHOOSE f \in Frames : TRUE) \in Frames /\ (CHOOSE b \in Bytes : TRUE) \in Bytes
    BY PipeAssumption
  <2>3. /\ klass \in [Endpoints -> {NONE, "read", "write"}]
        /\ pair \in [Endpoints -> Endpoints]
        /\ frame \in [Endpoints -> Frames]
        /\ queue \in [Endpoints -> SUBSET Tasks]
    BY <2>2 DEF Init
  <2>4. /\ bytes_available \in [Endpoints -> 0 .. BUFFER_SIZE]
        /\ pos \in [Endpoints -> 0 .. BUFFER_SIZE - 1]
    BY <2>1 DEF Init
  <2>5. buffer \in [Frames -> [0 .. BUFFER_SIZE - 1 -> Bytes]]
    BY <2>2 DEF Init
  <2>6. /\ free \in SUBSET Frames /\ fds \in [Tasks -> SUBSET Endpoints]
        /\ peer_gone \in SUBSET Endpoints
        /\ call \in [Tasks -> {NoCall, Unborn} \cup CallRecords]
    BY DEF Init
  <2>7. QED
    BY <2>3, <2>4, <2>5, <2>6 DEF TypeOK
<1>6. Held
  BY <1>3, <1>4 DEF Held, NoCall, Unborn, NONE
<1>7. Paired /\ Placed
  BY <1>2 DEF Paired, Placed
<1>8. NobodyWaitsForNothing
  BY <1>4 DEF NobodyWaitsForNothing
<1>9. BufferLivesWithPipe
  <2>1. {frame[e] : e \in OpenEnds} = {} /\ free = Frames
    BY <1>2 DEF Init
  <2>2. QED
    BY <2>1 DEF BufferLivesWithPipe, OpenEnds
<1>10. QED
  BY <1>5, <1>6, <1>7, <1>8, <1>9 DEF IInv

LEMMA Consecution == ASSUME IInv, REUSE = FALSE, [Next]_vars PROVE IInv'
<1>1. TypeOK /\ Held
  BY DEF IInv
<1>2. CASE UNCHANGED vars
  <2>1. /\ klass' = klass /\ pair' = pair /\ frame' = frame
        /\ bytes_available' = bytes_available /\ pos' = pos /\ queue' = queue
        /\ buffer' = buffer /\ free' = free /\ fds' = fds /\ call' = call
        /\ peer_gone' = peer_gone
    BY <1>2 DEF vars, endpoints
  <2>2. TypeOK' = TypeOK /\ Paired' = Paired /\ Placed' = Placed
    BY <2>1 DEF TypeOK, Paired, Placed, OpenEnds, FreeEndpoints, Ring
  <2>3. Held'
    BY <1>1, <2>1 DEF Held, OpenEnds, FreeEndpoints, Born, Fits
  <2>4. NobodyWaitsForNothing' /\ BufferLivesWithPipe'
    BY <2>1 DEF IInv, NobodyWaitsForNothing, BufferLivesWithPipe, FreeEndpoints
  <2>5. QED
    BY <2>2, <2>3, <2>4 DEF IInv
<1>3. ASSUME NEW t \in Tasks, OpenPipe(t) PROVE IInv'
  BY <1>3, OpenKeeps
<1>4. ASSUME NEW t \in Tasks, NEW child \in Tasks, Fork(t, child) PROVE IInv'
  BY <1>4, ForkKeeps
<1>5. ASSUME NEW t \in Tasks, Read(t) PROVE IInv'
  <2>1. PICK e \in fds[t], size \in SIZES :
          /\ klass[e] = "read"
          /\ Loop(t, Call("read", e, [i \in 1 .. size |-> CHOOSE b \in Bytes : TRUE]))
    BY <1>5 DEF Read
  <2> DEFINE buf == [i \in 1 .. size |-> CHOOSE b \in Bytes : TRUE]
  <2>2. buf \in [1 .. size -> Bytes]
    BY PipeAssumption
  <2> HIDE DEF buf
  <2>3. Fits(t, Call("read", e, buf))
    BY <1>1, <2>1, <2>2, CallFits
  <2>4. Loop(t, Call("read", e, buf)) /\ CanRun(t)
    BY <1>5, <2>1 DEF Read, AtRest, buf
  <2>5. QED
    BY <2>3, <2>4, LoopKeeps
<1>6. ASSUME NEW t \in Tasks, Write(t) PROVE IInv'
  <2>1. PICK e \in fds[t], size \in SIZES : \E buf \in [1 .. size -> Bytes] :
          /\ klass[e] = "write"
          /\ Loop(t, Call("write", e, buf))
    BY <1>6 DEF Write
  <2>2. PICK buf \in [1 .. size -> Bytes] : klass[e] = "write" /\ Loop(t, Call("write", e, buf))
    BY <2>1
  <2>3. Fits(t, Call("write", e, buf))
    BY <1>1, <2>2, CallFits
  <2>4. CanRun(t)
    BY <1>6 DEF Write, AtRest
  <2>5. QED
    BY <2>2, <2>3, <2>4, LoopKeeps
<1>7. ASSUME NEW t \in Tasks, Resume(t) PROVE IInv'
  <2>1. CanRun(t) /\ Fits(t, call[t]) /\ Loop(t, call[t])
    BY <1>1, <1>7 DEF Resume, Held
  <2>2. QED
    BY <2>1, LoopKeeps
<1>8. ASSUME NEW t \in Tasks, Close(t) PROVE IInv'
  <2>1. PICK e \in fds[t] : CloseAll(t, {e}) /\ AtRest(t) /\ call' = call
    BY <1>8 DEF Close
  <2>2. {e} \in SUBSET fds[t]
    OBVIOUS
  <2>3. QED
    BY <2>1, <2>2, CloseKeeps
<1>9. ASSUME NEW t \in Tasks, Exit(t) PROVE IInv'
  <2>1. CloseAll(t, fds[t]) /\ AtRest(t) /\ call' = [call EXCEPT ![t] = Unborn]
    BY <1>9 DEF Exit
  <2>2. fds[t] \in SUBSET fds[t]
    OBVIOUS
  <2>3. QED
    BY <2>1, <2>2, CloseKeeps
<1>10. QED
  BY <1>2, <1>3, <1>4, <1>5, <1>6, <1>7, <1>8, <1>9 DEF Next

-----------------------------------------------------------------------------
(* pipe.c under any interleaving of its calls: what is in the ring, the    *)
(* positions, the queues and the frames agree, while pipe takes no entry   *)
(* whose pipe still has an end open.                                       *)
THEOREM Invariance == REUSE = FALSE => (Spec => []IInv)
<1> SUFFICES ASSUME REUSE = FALSE PROVE Spec => []IInv
  OBVIOUS
<1>1. IInv /\ [Next]_vars => IInv'
  BY Consecution
<1>2. QED
  BY <1>1, Initial, PTL DEF Spec

(* No wake-up of pipe_read, pipe_write or pipe_flush is lost.              *)
THEOREM Spec_NobodyWaitsForNothing == REUSE = FALSE => (Spec => []NobodyWaitsForNothing)
<1>1. IInv => NobodyWaitsForNothing
  BY DEF IInv
<1>2. QED
  BY <1>1, Invariance, PTL

(* pipe_flush frees the buffer with the second end of its pipe, never      *)
(* before and never not.                                                   *)
THEOREM Spec_BufferLivesWithPipe == REUSE = FALSE => (Spec => []BufferLivesWithPipe)
<1>1. IInv => BufferLivesWithPipe
  BY DEF IInv
<1>2. QED
  BY <1>1, Invariance, PTL

-----------------------------------------------------------------------------
(* n bytes of a ring from position p on. *)
Portion(ring, p, n) == [k \in 1 .. n |-> ring[(p + (k - 1)) % BUFFER_SIZE]]

(* A frame holds what its read end has to take; it has one read end. *)
Contained ==
  /\ InFrame \in [Frames -> Seq(Bytes)]
  /\ \A f \in Frames :
       (\A e \in OpenEnds : ~ (klass[e] = "read" /\ frame[e] = f)) => InFrame[f] = <<>>
  /\ \A e \in OpenEnds : klass[e] = "read" =>
       InFrame[frame[e]] = Portion(buffer[frame[e]], pos[e], bytes_available[e])

LEMMA Portions ==
  ASSUME NEW ring \in [0 .. BUFFER_SIZE - 1 -> Bytes], NEW p \in 0 .. BUFFER_SIZE - 1,
         NEW n \in Nat
  PROVE  /\ Portion(ring, p, n) \in Seq(Bytes) /\ Len(Portion(ring, p, n)) = n
         /\ DOMAIN Portion(ring, p, n) = 1 .. n
<1>1. ASSUME NEW k \in 1 .. n PROVE (p + (k - 1)) % BUFFER_SIZE \in 0 .. BUFFER_SIZE - 1
  <2> DEFINE x == p + (k - 1)
  <2>1. x \in Nat
    BY Size
  <2> HIDE DEF x
  <2>2. x % BUFFER_SIZE \in 0 .. BUFFER_SIZE - 1
    BY <2>1, Size, Wraps
  <2>3. QED
    BY <2>2 DEF x
<1>2. Portion(ring, p, n) \in [1 .. n -> Bytes]
  BY <1>1 DEF Portion
<1> DEFINE q == Portion(ring, p, n)
<1> HIDE DEF q
<1>3. q \in [1 .. n -> Bytes] => q \in Seq(Bytes) /\ Len(q) = n /\ DOMAIN q = 1 .. n
  OBVIOUS
<1>4. QED
  BY <1>2, <1>3 DEF q

LEMMA Contents == TypeOK /\ Paired => Contained
<1> SUFFICES ASSUME TypeOK, Paired PROVE Contained
  OBVIOUS
<1>1. ASSUME NEW e \in OpenEnds, klass[e] = "read" PROVE Reader(frame[e]) = {e}
  <2>1. klass[pair[e]] # "read" /\ e \in Endpoints
    BY <1>1, Peers
  <2>2. ASSUME NEW g \in Reader(frame[e]) PROVE g = e
    <3>1. g \in OpenEnds /\ frame[g] = frame[e] /\ klass[g] = "read"
      BY DEF Reader, OpenEnds, FreeEndpoints, NONE
    <3>2. g \in {e, pair[e]}
      BY <3>1 DEF Paired
    <3>3. QED
      BY <2>1, <3>1, <3>2
  <2>3. QED
    BY <1>1, <2>1, <2>2 DEF Reader
<1>2. ASSUME NEW e \in OpenEnds, klass[e] = "read"
      PROVE  InFrame[frame[e]] = Portion(buffer[frame[e]], pos[e], bytes_available[e])
  <2>1. (CHOOSE g \in Reader(frame[e]) : TRUE) = e /\ Reader(frame[e]) # {}
    BY <1>1, <1>2
  <2>2. frame[e] \in Frames
    BY DEF TypeOK, OpenEnds
  <2>3. InFrame[frame[e]] = InRing(e)
    BY <2>1, <2>2 DEF InFrame
  <2>4. QED
    BY <2>3 DEF InRing, Ring, Portion
<1>3. ASSUME NEW f \in Frames, \A e \in OpenEnds : ~ (klass[e] = "read" /\ frame[e] = f)
      PROVE  InFrame[f] = <<>>
  <2>1. Reader(f) = {}
    BY <1>3 DEF Reader, OpenEnds, FreeEndpoints, NONE
  <2>2. QED
    BY <2>1 DEF InFrame
<1>4. ASSUME NEW f \in Frames PROVE InFrame[f] \in Seq(Bytes)
  <2>1. CASE \A e \in OpenEnds : ~ (klass[e] = "read" /\ frame[e] = f)
    <3>1. InFrame[f] = <<>>
      BY <1>3, <2>1
    <3>2. <<>> \in Seq(Bytes)
      OBVIOUS
    <3>3. QED
      BY <3>1, <3>2
  <2>2. ASSUME NEW e \in OpenEnds, klass[e] = "read", frame[e] = f PROVE InFrame[f] \in Seq(Bytes)
    <3>1. /\ bytes_available[e] \in Nat /\ pos[e] \in 0 .. BUFFER_SIZE - 1
          /\ buffer[f] \in [0 .. BUFFER_SIZE - 1 -> Bytes]
      BY Size DEF TypeOK, OpenEnds
    <3>2. InFrame[f] = Portion(buffer[f], pos[e], bytes_available[e])
      BY <1>2, <2>2
    <3>3. QED
      BY <3>1, <3>2, Portions
  <2>3. QED
    BY <2>1, <2>2
<1>5. InFrame \in [Frames -> Seq(Bytes)]
  <2>1. InFrame = [f \in Frames |-> InFrame[f]]
    BY DEF InFrame
  <2>2. QED
    BY <1>4, <2>1
<1>6. QED
  BY <1>2, <1>3, <1>5 DEF Contained

(* Fewer than B steps around a ring of B do not come back. *)
LEMMA Apart ==
  ASSUME NEW B \in Nat \ {0}, NEW a \in 0 .. B - 1, NEW i \in Nat, NEW j \in Nat, i < j, j < B
  PROVE  (a + i) % B # (a + j) % B
<1> DEFINE x == a + i
           y == a + j
<1>1. /\ x \in Nat /\ y \in Nat /\ x < 2 * B /\ y < 2 * B
      /\ x < y /\ y - x < B
  OBVIOUS
<1> HIDE DEF x, y
<1>2. (x < B => x % B = x) /\ (B <= x => x % B = x - B)
  BY <1>1, Wraps
<1>3. (y < B => y % B = y) /\ (B <= y => y % B = y - B)
  BY <1>1, Wraps
<1>4. x % B # y % B
  BY <1>1, <1>2, <1>3
<1>5. QED
  BY <1>4 DEF x, y

(* pipe_write touches only the n bytes of the ring after its position. *)
LEMMA CopyStays ==
  ASSUME TypeOK, NEW e \in Endpoints, NEW n \in 0 .. BUFFER_SIZE, NEW buf,
         NEW i \in 0 .. BUFFER_SIZE - 1,
         \A j \in 0 .. n - 1 : Ring(e, j) # i
  PROVE  CopiedIn(e, n, buf)[i] = buffer[frame[e]][i]
<1> DEFINE ring == buffer[frame[e]]
           tmp  == Unwrapped(e, n)
           p    == pos[e]
<1>0. DOMAIN ring = 0 .. BUFFER_SIZE - 1
  BY DEF TypeOK
<1>1. p \in 0 .. BUFFER_SIZE - 1 /\ BUFFER_SIZE \in Nat \ {0}
  BY Size DEF TypeOK
<1>2. /\ tmp \in 0 .. n /\ tmp <= BUFFER_SIZE - p /\ n - tmp <= p
      /\ n - tmp > 0 => tmp = BUFFER_SIZE - p
  BY <1>1 DEF Unwrapped, Least
<1>3. CopiedIn(e, n, buf) =
        [k \in DOMAIN ring |-> IF k < n - tmp THEN buf[k + 1]
                               ELSE IF k \in p .. p + tmp - 1 THEN buf[k - p + 1]
                               ELSE ring[k]]
  BY DEF CopiedIn
<1>4. \A j \in 0 .. n - 1 : (p + j) % BUFFER_SIZE # i
  BY DEF Ring
<1> HIDE DEF ring, tmp, p
<1>5. ASSUME i < n - tmp PROVE FALSE
  <2> DEFINE j == i + tmp
             x == p + j
  <2>1. j \in 0 .. n - 1
    BY <1>1, <1>2, <1>5
  <2>2. x \in Nat /\ BUFFER_SIZE <= x /\ x < 2 * BUFFER_SIZE /\ x - BUFFER_SIZE = i
    BY <1>1, <1>2, <1>5
  <2>3. x % BUFFER_SIZE # i
    BY <1>4, <2>1
  <2> HIDE DEF x, j
  <2>4. QED
    BY <1>1, <2>2, <2>3, Wraps
<1>6. ASSUME i \in p .. p + tmp - 1 PROVE FALSE
  <2> DEFINE j == i - p
  <2>1. j \in 0 .. n - 1 /\ p + j = i
    BY <1>1, <1>2, <1>6
  <2>2. (p + j) % BUFFER_SIZE # i
    BY <1>4, <2>1
  <2>3. i % BUFFER_SIZE = i
    BY <1>1, Wraps
  <2>4. QED
    BY <2>1, <2>2, <2>3
<1>7. QED
  BY <1>0, <1>3, <1>5, <1>6 DEF ring

(* A frame whose read end, ring and count a step leaves alone holds the same. *)
LEMMA SameInFrame ==
  ASSUME TypeOK, Paired, TypeOK', Paired', NEW f \in Frames,
         \A e \in Endpoints : klass'[e] = "read" /\ frame'[e] = f
                                <=> klass[e] = "read" /\ frame[e] = f,
         \A e \in Endpoints : klass[e] = "read" /\ frame[e] = f =>
           /\ pos'[e] = pos[e] /\ bytes_available'[e] = bytes_available[e]
           /\ \A k \in 1 .. bytes_available[e] :
                buffer'[f][(pos[e] + (k - 1)) % BUFFER_SIZE] = buffer[f][(pos[e] + (k - 1)) % BUFFER_SIZE]
  PROVE  InFrame'[f] = InFrame[f]
<1>1. Contained /\ Contained'
  <2>1. Contained
    BY Contents
  <2>2. Contained'
    BY Contents, PTL
  <2>3. QED
    BY <2>1, <2>2
<1>2. CASE \A e \in Endpoints : ~ (klass[e] = "read" /\ frame[e] = f)
  <2>1. InFrame[f] = <<>>
    BY <1>1, <1>2 DEF Contained, OpenEnds
  <2>2. InFrame'[f] = <<>>
    BY <1>1, <1>2 DEF Contained, OpenEnds
  <2>3. QED
    BY <2>1, <2>2
<1>3. ASSUME NEW e \in Endpoints, klass[e] = "read", frame[e] = f
      PROVE  InFrame'[f] = InFrame[f]
  <2>1. klass'[e] = "read" /\ frame'[e] = f /\ pos'[e] = pos[e]
        /\ bytes_available'[e] = bytes_available[e]
    BY <1>3
  <2>2. e \in OpenEnds /\ e \in OpenEnds'
    BY <1>3, <2>1 DEF OpenEnds, FreeEndpoints, NONE
  <2>3. InFrame[f] = Portion(buffer[f], pos[e], bytes_available[e])
    BY <1>1, <1>3, <2>2 DEF Contained
  <2>4. InFrame'[f] = Portion(buffer'[f], pos[e], bytes_available[e])
    BY <1>1, <2>1, <2>2 DEF Contained
  <2>5. Portion(buffer'[f], pos[e], bytes_available[e])
          = Portion(buffer[f], pos[e], bytes_available[e])
    BY <1>3 DEF Portion
  <2>6. QED
    BY <2>3, <2>4, <2>5
<1>4. QED
  BY <1>2, <1>3

(* n bytes taken from a portion leave the portion n further on. *)
LEMMA TakenPortion ==
  ASSUME NEW ring \in [0 .. BUFFER_SIZE - 1 -> Bytes], NEW p \in 0 .. BUFFER_SIZE - 1,
         NEW b \in 0 .. BUFFER_SIZE, NEW n \in 1 .. b
  PROVE  SubSeq(Portion(ring, p, b), n + 1, b) = Portion(ring, (p + n) % BUFFER_SIZE, b - n)
<1> DEFINE q == Portion(ring, p, b)
           o == Portion(ring, (p + n) % BUFFER_SIZE, b - n)
<1>1. /\ b \in Nat /\ n \in Nat /\ n <= b /\ b <= BUFFER_SIZE /\ b - n \in Nat
      /\ p + n \in Nat /\ BUFFER_SIZE \in Nat \ {0}
  BY Size
<1>2. q \in Seq(Bytes) /\ Len(q) = b
  BY <1>1, Portions
<1>3. (p + n) % BUFFER_SIZE \in 0 .. BUFFER_SIZE - 1
  <2> DEFINE x == p + n
  <2>1. x \in Nat
    BY <1>1
  <2> HIDE DEF x
  <2>2. x % BUFFER_SIZE \in 0 .. BUFFER_SIZE - 1
    BY <2>1, Size, Wraps
  <2>3. QED
    BY <2>2 DEF x
<1>4. o \in Seq(Bytes) /\ Len(o) = b - n
  BY <1>1, <1>3, Portions
<1>5. ASSUME NEW k \in 1 .. b - n PROVE o[k] = q[n + k]
  <2>1. k - 1 \in Nat /\ n + (k - 1) <= BUFFER_SIZE
    BY <1>1
  <2>2. (((p + n) % BUFFER_SIZE) + (k - 1)) % BUFFER_SIZE = (p + n + (k - 1)) % BUFFER_SIZE
    BY <1>1, <2>1, WrapsTwice
  <2>3. p + n + (k - 1) = p + ((n + k) - 1)
    BY <1>1
  <2>4. n + k \in 1 .. b
    BY <1>1
  <2>5. q[n + k] = ring[(p + ((n + k) - 1)) % BUFFER_SIZE]
    BY <2>4 DEF Portion
  <2>6. o[k] = ring[(((p + n) % BUFFER_SIZE) + (k - 1)) % BUFFER_SIZE]
    BY DEF Portion
  <2>7. QED
    BY <2>2, <2>3, <2>5, <2>6
<1> HIDE DEF q, o
<1>6. SubSeq(q, n + 1, b) = o
  <2> DEFINE s == SubSeq(q, n + 1, b)
  <2>1. s \in Seq(Bytes) /\ Len(s) = b - n
    BY <1>1, <1>2
  <2>2. \A k \in 1 .. b - n : s[k] = q[n + k]
    BY <1>1, <1>2
  <2> HIDE DEF s
  <2>3. s = o
    BY <1>4, <1>5, <2>1, <2>2
  <2>4. QED
    BY <2>3 DEF s
<1>7. QED
  BY <1>6 DEF q, o

(* A portion that grows at its end is the portion followed by what is new. *)
Agree(ring, new, p, b) ==
  \A k \in 1 .. b : new[(p + (k - 1)) % BUFFER_SIZE] = ring[(p + (k - 1)) % BUFFER_SIZE]

Grown(ring, new, p, b, n) ==
  \E added \in [1 .. n -> Bytes] :
    Portion(new, p, b + n) = Portion(ring, p, b) \o added

LEMMA GrownPortion ==
  ASSUME NEW ring \in [0 .. BUFFER_SIZE - 1 -> Bytes],
         NEW new \in [0 .. BUFFER_SIZE - 1 -> Bytes],
         NEW p \in 0 .. BUFFER_SIZE - 1, NEW b \in Nat, NEW n \in Nat,
         Agree(ring, new, p, b)
  PROVE  Grown(ring, new, p, b, n)
<1> DEFINE q == Portion(ring, p, b)
           o == Portion(new, p, b + n)
           added == [k \in 1 .. n |-> o[b + k]]
<1>1. q \in Seq(Bytes) /\ Len(q) = b
  BY Portions
<1>2. o \in Seq(Bytes) /\ Len(o) = b + n
  BY Portions
<1>3. \A k \in 1 .. b : o[k] = q[k]
  BY DEF Portion, Agree
<1> HIDE DEF q, o
<1>4. added \in [1 .. n -> Bytes]
  BY <1>2
<1>5. \A k \in 1 .. n : added[k] = o[b + k]
  OBVIOUS
<1> HIDE DEF added
<1>6. added \in Seq(Bytes) /\ Len(added) = n
  BY <1>4
<1>7. o = q \o added
  <2>1. /\ q \o added \in Seq(Bytes) /\ Len(q \o added) = b + n
        /\ \A k \in 1 .. b + n : (q \o added)[k] = IF k <= b THEN q[k] ELSE added[k - b]
    BY <1>1, <1>6, ConcatProperties
  <2> DEFINE z == q \o added
  <2> HIDE DEF z
  <2>2. z \in Seq(Bytes) /\ Len(z) = b + n
    BY <2>1 DEF z
  <2>3. ASSUME NEW k \in 1 .. b + n PROVE z[k] = o[k]
    <3>1. z[k] = IF k <= b THEN q[k] ELSE added[k - b]
      BY <2>1 DEF z
    <3>2. k <= b => k \in 1 .. b
      OBVIOUS
    <3>3. ~ (k <= b) => k - b \in 1 .. n /\ b + (k - b) = k
      OBVIOUS
    <3>4. QED
      BY <1>3, <1>5, <3>1, <3>2, <3>3
  <2>4. o = z
    BY <1>2, <2>2, <2>3
  <2>5. QED
    BY <2>4 DEF z
<1>8. QED
  BY <1>4, <1>7 DEF q, o, Grown

-----------------------------------------------------------------------------
(* A step of a call puts the bytes behind those in the ring, takes them    *)
(* from the front, or leaves the channel alone.                            *)
LEMMA LoopImplements ==
  ASSUME IInv, IInv', NEW t \in Tasks, NEW c, Fits(t, c), Loop(t, c)
  PROVE  \/ InFrame' = InFrame /\ OpenSides' = OpenSides
         \/ \E f \in Frames : Pipes!Put(f) \/ Pipes!Take(f)
<1> DEFINE e == c.end
           f == frame[e]
           b == bytes_available[e]
<1>1. TypeOK /\ Paired /\ Held /\ Placed /\ TypeOK' /\ Paired'
  BY DEF IInv
<1>2. PICK n \in 0 .. BUFFER_SIZE, m \in 0 .. BUFFER_SIZE :
        Transfers(t, c, n, m) /\ Amount(c, n, m) /\ Copies(c, n)
  BY <1>1, LoopTransfers
<1>3. Contained /\ Contained'
  <2>1. Contained
    BY <1>1, Contents
  <2>2. Contained'
    BY <1>1, Contents, PTL
  <2>3. QED
    BY <2>1, <2>2
<1>4. /\ e \in OpenEnds /\ e \in Endpoints /\ pair[e] \in Endpoints /\ pair[e] # e
      /\ bytes_available[pair[e]] = b /\ frame[pair[e]] = f
      /\ c.op \in {"read", "write"} /\ klass[e] = c.op /\ f \in Frames
      /\ (klass[e] = "write" /\ pair[e] \in OpenEnds => klass[pair[e]] = "read")
      /\ (klass[e] = "read" => klass[pair[e]] # "read")
      /\ \A g \in OpenEnds : frame[g] = f => g \in {e, pair[e]}
  <2>1. e \in OpenEnds /\ c.op \in {"read", "write"} /\ klass[e] = c.op
    BY <1>1 DEF Held, Fits, CallRecords
  <2>2. klass[pair[e]] \in {NONE, IF klass[e] = "read" THEN "write" ELSE "read"}
        /\ \A g \in OpenEnds : frame[g] = f => g \in {e, pair[e]}
    BY <1>1, <2>1 DEF Paired
  <2>3. f \in Frames
    BY <1>1, <2>1 DEF TypeOK, OpenEnds
  <2>4. QED
    BY <1>1, <2>1, <2>2, <2>3, Peers DEF OpenEnds, FreeEndpoints, NONE
<1>5. /\ b \in 0 .. BUFFER_SIZE /\ pos[e] \in 0 .. BUFFER_SIZE - 1
      /\ b \in Nat /\ n \in Nat /\ BUFFER_SIZE \in Nat \ {0}
      /\ buffer \in [Frames -> [0 .. BUFFER_SIZE - 1 -> Bytes]]
      /\ buffer' \in [Frames -> [0 .. BUFFER_SIZE - 1 -> Bytes]]
  BY <1>1, <1>4, Size DEF TypeOK
<1>6. /\ klass' = klass /\ frame' = frame /\ pair' = pair
      /\ pos' = [pos EXCEPT ![e] = (pos[e] + n) % BUFFER_SIZE]
      /\ bytes_available' = [bytes_available EXCEPT ![e] = m, ![pair[e]] = m]
  BY <1>2 DEF Transfers
<1>7. OpenSides' = OpenSides /\ OpenEnds' = OpenEnds
  BY <1>6 DEF OpenSides, OpenEnds, FreeEndpoints
<1>8. /\ InFrame \in [Frames -> Seq(Bytes)] /\ InFrame' \in [Frames -> Seq(Bytes)]
  BY <1>3 DEF Contained
<1>9. \/ buffer' = buffer /\ (c.op = "read" \/ n = 0)
      \/ c.op = "write" /\ buffer' = [buffer EXCEPT ![f] = CopiedIn(e, n, c.buf)]
  BY <1>2 DEF Copies
<1>10. \/ c.op = "read" /\ m = b - n
       \/ c.op = "write" /\ m = b + n /\ (n # 0 => pair[e] \in OpenEnds)
  BY <1>2 DEF Amount
<1>11. \A g \in Frames \ {f} : buffer'[g] = buffer[g]
  BY <1>5, <1>9
<1>12. ASSUME NEW i \in 0 .. BUFFER_SIZE - 1, \A j \in 0 .. n - 1 : Ring(e, j) # i
       PROVE  buffer'[f][i] = buffer[f][i]
  <2>1. CopiedIn(e, n, c.buf)[i] = buffer[f][i]
    BY <1>1, <1>4, <1>12, CopyStays
  <2>2. QED
    BY <1>4, <1>5, <1>9, <2>1
<1>13. ASSUME NEW g \in Frames \ {f} PROVE InFrame'[g] = InFrame[g]
  <2>1. \A x \in Endpoints : klass[x] = "read" /\ frame[x] = g => x # e /\ x # pair[e]
    BY <1>4
  <2>2. \A x \in Endpoints : klass[x] = "read" /\ frame[x] = g =>
           /\ pos'[x] = pos[x] /\ bytes_available'[x] = bytes_available[x]
           /\ \A k \in 1 .. bytes_available[x] :
                buffer'[g][(pos[x] + (k - 1)) % BUFFER_SIZE]
                  = buffer[g][(pos[x] + (k - 1)) % BUFFER_SIZE]
    BY <1>1, <1>4, <1>6, <1>11, <2>1 DEF TypeOK
  <2>3. \A x \in Endpoints : klass'[x] = "read" /\ frame'[x] = g
                               <=> klass[x] = "read" /\ frame[x] = g
    BY <1>6
  <2>4. QED
    BY <1>1, <2>2, <2>3, SameInFrame
<1> HIDE DEF f, b
<1>14. CASE n = 0
  <2>1. pos' = pos /\ bytes_available' = bytes_available
    <3>1. (pos[e] + 0) % BUFFER_SIZE = pos[e]
      <4> DEFINE p == pos[e]
      <4>1. p \in Nat /\ p < BUFFER_SIZE /\ p + 0 = p
        BY <1>5
      <4> HIDE DEF p
      <4>2. p % BUFFER_SIZE = p
        BY <1>5, <4>1, Wraps
      <4>3. QED
        BY <4>1, <4>2 DEF p
    <3>2. m = b
      BY <1>5, <1>10, <1>14
    <3>3. pos' = pos
      BY <1>1, <1>6, <1>14, <3>1 DEF TypeOK
    <3>4. bytes_available' = bytes_available
      BY <1>1, <1>4, <1>6, <3>2 DEF TypeOK, b
    <3>5. QED
      BY <3>3, <3>4
  <2>2. \A i \in 0 .. BUFFER_SIZE - 1 : buffer'[f][i] = buffer[f][i]
    BY <1>12, <1>14
  <2>3. buffer'[f] = buffer[f]
    BY <1>4, <1>5, <2>2
  <2>4. InFrame'[f] = InFrame[f]
    <3>1. \A x \in Endpoints : klass[x] = "read" /\ frame[x] = f =>
            /\ pos'[x] = pos[x] /\ bytes_available'[x] = bytes_available[x]
            /\ \A k \in 1 .. bytes_available[x] :
                 buffer'[f][(pos[x] + (k - 1)) % BUFFER_SIZE]
                   = buffer[f][(pos[x] + (k - 1)) % BUFFER_SIZE]
      BY <2>1, <2>3
    <3>2. \A x \in Endpoints : klass'[x] = "read" /\ frame'[x] = f
                                 <=> klass[x] = "read" /\ frame[x] = f
      BY <1>6
    <3>3. QED
      BY <1>1, <1>4, <3>1, <3>2, SameInFrame
  <2>5. InFrame' = InFrame
    BY <1>8, <1>13, <2>4
  <2>6. QED
    BY <1>7, <2>5
<1>15. CASE n # 0 /\ c.op = "read"
  <2>1. m = b - n /\ n \in 1 .. b /\ buffer' = buffer
    <3>1. m = b - n /\ buffer' = buffer
      BY <1>9, <1>10, <1>15
    <3>2. QED
      BY <1>5, <1>15, <3>1
  <2>2. InFrame[f] = Portion(buffer[f], pos[e], b)
    BY <1>3, <1>4, <1>15 DEF Contained, f, b
  <2>3. InFrame'[f] = Portion(buffer'[f], pos'[e], m)
    <3>1. klass'[e] = "read" /\ frame'[e] = f /\ bytes_available'[e] = m /\ e \in OpenEnds'
      BY <1>1, <1>4, <1>6, <1>7, <1>15 DEF TypeOK, f
    <3>2. QED
      BY <1>3, <3>1 DEF Contained
  <2>4. pos'[e] = (pos[e] + n) % BUFFER_SIZE
    BY <1>1, <1>4, <1>6 DEF TypeOK
  <2>5. Len(InFrame[f]) = b
    <3>1. buffer[f] \in [0 .. BUFFER_SIZE - 1 -> Bytes]
      BY <1>4, <1>5
    <3>2. Len(Portion(buffer[f], pos[e], b)) = b
      BY <1>5, <3>1, Portions, Zenon
    <3>3. QED
      BY <2>2, <3>2
  <2>6. InFrame'[f] = SubSeq(InFrame[f], n + 1, Len(InFrame[f]))
    <3>1. buffer[f] \in [0 .. BUFFER_SIZE - 1 -> Bytes]
      BY <1>4, <1>5
    <3>2. SubSeq(Portion(buffer[f], pos[e], b), n + 1, b)
            = Portion(buffer[f], (pos[e] + n) % BUFFER_SIZE, b - n)
      <4> DEFINE ring == buffer[f]
                 p    == pos[e]
      <4>1. /\ ring \in [0 .. BUFFER_SIZE - 1 -> Bytes] /\ p \in 0 .. BUFFER_SIZE - 1
            /\ b \in 0 .. BUFFER_SIZE /\ n \in 1 .. b
        BY <1>5, <2>1, <3>1
      <4> HIDE DEF ring, p
      <4>2. SubSeq(Portion(ring, p, b), n + 1, b)
              = Portion(ring, (p + n) % BUFFER_SIZE, b - n)
        BY <4>1, TakenPortion
      <4>3. QED
        BY <4>2 DEF ring, p
    <3>3. QED
      BY <2>1, <2>2, <2>3, <2>4, <2>5, <3>2
  <2>7. <<f, "read">> \in OpenSides
    BY <1>4, <1>15 DEF OpenSides, OpenEnds, f
  <2> DEFINE new == SubSeq(InFrame[f], n + 1, Len(InFrame[f]))
  <2>8. InFrame' = [InFrame EXCEPT ![f] = new]
    <3> HIDE DEF new
    <3>1. InFrame'[f] = new
      BY <2>6 DEF new
    <3>2. QED
      BY <1>4, <1>8, <1>13, <3>1
  <2>9. Pipes!Take(f)
    <3>1. n \in 1 .. Len(InFrame[f])
      BY <2>1, <2>5
    <3>2. QED
      BY <1>7, <2>7, <2>8, <3>1 DEF Pipes!Take
  <2>10. QED
    BY <1>4, <2>9
<1>16. CASE n # 0 /\ c.op = "write"
  <2> DEFINE r == pair[e]
  <2>1. /\ r \in OpenEnds /\ r \in Endpoints /\ klass[r] = "read" /\ frame[r] = f
        /\ bytes_available[r] = b /\ r # e
    BY <1>4, <1>10, <1>16
  <2>2. m = b + n /\ b + n <= BUFFER_SIZE
    <3>1. m = b + n
      BY <1>10, <1>16
    <3>2. QED
      BY <1>5, <3>1
  <2>3. /\ pos[r] \in 0 .. BUFFER_SIZE - 1 /\ pos'[r] = pos[r] /\ bytes_available'[r] = m
    BY <1>1, <1>4, <1>6, <2>1 DEF TypeOK
  <2>4. pos[e] = (pos[r] + b) % BUFFER_SIZE
    <3>1. pair[r] = e
      BY <1>1, <1>4, Peers
    <3>2. QED
      BY <1>1, <1>4, <2>1, <3>1 DEF Placed, Ring
  <2>5. InFrame[f] = Portion(buffer[f], pos[r], b)
    BY <1>3, <2>1 DEF Contained
  <2>6. InFrame'[f] = Portion(buffer'[f], pos[r], b + n)
    <3>1. klass'[r] = "read" /\ frame'[r] = f /\ r \in OpenEnds'
      BY <1>6, <1>7, <2>1
    <3>2. QED
      BY <1>3, <2>2, <2>3, <3>1 DEF Contained
  <2> HIDE DEF r
  <2>7. ASSUME NEW k \in 1 .. b
        PROVE  buffer'[f][(pos[r] + (k - 1)) % BUFFER_SIZE]
                 = buffer[f][(pos[r] + (k - 1)) % BUFFER_SIZE]
    <3> DEFINE i == (pos[r] + (k - 1)) % BUFFER_SIZE
    <3>1. i \in 0 .. BUFFER_SIZE - 1
      <4> DEFINE x == pos[r] + (k - 1)
      <4>1. x \in Nat
        BY <1>5, <2>3
      <4> HIDE DEF x
      <4>2. x % BUFFER_SIZE \in 0 .. BUFFER_SIZE - 1
        BY <1>5, <4>1, Wraps
      <4>3. QED
        BY <4>2 DEF x
    <3>2. ASSUME NEW j \in 0 .. n - 1 PROVE Ring(e, j) # i
      <4>1. j \in Nat /\ b + j <= BUFFER_SIZE /\ k - 1 \in Nat /\ b + j \in Nat
            /\ k - 1 < b + j /\ b + j < BUFFER_SIZE
        BY <1>5, <2>2
      <4>2. (((pos[r] + b) % BUFFER_SIZE) + j) % BUFFER_SIZE = (pos[r] + b + j) % BUFFER_SIZE
        BY <1>5, <2>3, <4>1, WrapsTwice
      <4>3. (pos[r] + (k - 1)) % BUFFER_SIZE # (pos[r] + (b + j)) % BUFFER_SIZE
        BY <1>5, <2>3, <4>1, Apart
      <4>4. pos[r] + b + j = pos[r] + (b + j)
        BY <1>5, <2>3, <4>1
      <4>5. QED
        BY <2>4, <4>2, <4>3, <4>4 DEF Ring
    <3> HIDE DEF i
    <3>3. buffer'[f][i] = buffer[f][i]
      BY <1>12, <3>1, <3>2
    <3>4. QED
      BY <3>3 DEF i
  <2>8. PICK new \in [1 .. n -> Bytes] :
          Portion(buffer'[f], pos[r], b + n) = Portion(buffer[f], pos[r], b) \o new
    <3> DEFINE old == buffer[f]
               now == buffer'[f]
               p   == pos[r]
    <3>1. old \in [0 .. BUFFER_SIZE - 1 -> Bytes] /\ now \in [0 .. BUFFER_SIZE - 1 -> Bytes]
      BY <1>4, <1>5
    <3>2. Agree(old, now, p, b)
      BY <2>7 DEF Agree
    <3>3. p \in 0 .. BUFFER_SIZE - 1 /\ b \in Nat /\ n \in Nat
      BY <1>5, <2>3
    <3> HIDE DEF old, now, p, b
    <3>4. Grown(old, now, p, b, n)
      BY <3>1, <3>2, <3>3, GrownPortion
    <3>5. QED
      BY <3>4 DEF old, now, p, b, Grown
  <2>9. Len(InFrame[f]) = b
    <3>1. buffer[f] \in [0 .. BUFFER_SIZE - 1 -> Bytes]
      BY <1>4, <1>5
    <3>2. Len(Portion(buffer[f], pos[r], b)) = b
      BY <1>5, <2>3, <3>1, Portions, Zenon
    <3>3. QED
      BY <2>5, <3>2
  <2> DEFINE longer == InFrame[f] \o new
  <2>10. InFrame' = [InFrame EXCEPT ![f] = longer]
    <3>1. InFrame'[f] = longer
      BY <2>5, <2>6, <2>8
    <3> HIDE DEF longer
    <3>2. QED
      BY <1>4, <1>8, <1>13, <3>1
  <2>11. {f} \X Pipes!Sides \subseteq OpenSides
    <3>1. <<f, "read">> \in OpenSides
      BY <2>1 DEF OpenSides, OpenEnds
    <3>2. <<f, "write">> \in OpenSides
      BY <1>4, <1>16 DEF OpenSides, OpenEnds, f
    <3>3. QED
      BY <3>1, <3>2 DEF Pipes!Sides
  <2>12. Pipes!Put(f)
    <3>1. n \in 1 .. BUFFER_SIZE - Len(InFrame[f])
      BY <1>5, <1>16, <2>2, <2>9
    <3>2. QED
      BY <1>7, <2>10, <2>11, <3>1 DEF Pipes!Put
  <2>13. QED
    BY <1>4, <2>12
<1>17. QED
  BY <1>4, <1>14, <1>15, <1>16

(* An end that is open names its side of its channel alone. *)
LEMMA OneEndPerSide ==
  ASSUME TypeOK, Paired, NEW e \in OpenEnds, NEW g \in OpenEnds, frame[g] = frame[e], klass[g] = klass[e]
  PROVE  g = e
<1>1. g \in {e, pair[e]}
  BY DEF Paired
<1>2. klass[pair[e]] # klass[e]
  BY Peers DEF OpenEnds, FreeEndpoints, TypeOK
<1>3. QED
  BY <1>1, <1>2

(* A pipe that is opened is an empty channel with both its sides. *)
LEMMA OpenImplements ==
  ASSUME IInv, IInv', NEW t \in Tasks, OpenPipe(t)
  PROVE  \E f \in Frames : Pipes!Open(f)
<1>1. TypeOK /\ Paired /\ BufferLivesWithPipe /\ TypeOK' /\ Paired'
  BY DEF IInv
<1>2. PICK in \in FreeEndpoints, out \in FreeEndpoints, f \in free :
        in < out /\ init_endpoints(in, out, f)
  BY DEF OpenPipe
<1>3. /\ in \in Endpoints /\ out \in Endpoints /\ in # out
      /\ klass[in] = NONE /\ klass[out] = NONE /\ in \notin OpenEnds /\ out \notin OpenEnds
  <2>1. Endpoints \subseteq Int
    BY PipeAssumption DEF Endpoints
  <2>2. in \in Int /\ out \in Int
    BY <2>1 DEF FreeEndpoints
  <2>3. QED
    BY <1>2, <2>2 DEF FreeEndpoints, OpenEnds
<1>4. f \in Frames /\ \A e \in OpenEnds : frame[e] # f
  BY <1>1 DEF TypeOK, BufferLivesWithPipe, OpenEnds
<1>5. /\ klass'[in] = "read" /\ klass'[out] = "write" /\ frame'[in] = f /\ frame'[out] = f
      /\ bytes_available'[in] = 0
      /\ \A e \in Endpoints : e # in /\ e # out =>
           /\ klass'[e] = klass[e] /\ frame'[e] = frame[e]
           /\ pos'[e] = pos[e] /\ bytes_available'[e] = bytes_available[e]
      /\ buffer' = buffer
  <2>1. /\ klass' = [klass EXCEPT ![in] = "read", ![out] = "write"]
        /\ frame' = [frame EXCEPT ![in] = f,      ![out] = f]
        /\ pos'   = [pos   EXCEPT ![in] = 0,      ![out] = 0]
        /\ bytes_available' = [bytes_available EXCEPT ![in] = 0, ![out] = 0]
        /\ buffer' = buffer
    BY <1>2 DEF init_endpoints, OpenPipe
  <2>2. /\ klass'[in] = "read" /\ klass'[out] = "write" /\ frame'[in] = f /\ frame'[out] = f
        /\ bytes_available'[in] = 0
    BY <1>1, <1>3, <2>1 DEF TypeOK
  <2>3. ASSUME NEW e \in Endpoints, e # in, e # out
        PROVE  /\ klass'[e] = klass[e] /\ frame'[e] = frame[e]
               /\ pos'[e] = pos[e] /\ bytes_available'[e] = bytes_available[e]
    BY <1>1, <1>3, <2>1, <2>3 DEF TypeOK
  <2>4. QED
    BY <2>1, <2>2, <2>3
<1>6. OpenEnds' = OpenEnds \cup {in, out}
  BY <1>3, <1>5 DEF OpenEnds, FreeEndpoints, NONE
<1>7. Contained /\ Contained'
  <2>1. Contained
    BY <1>1, Contents
  <2>2. Contained'
    BY <1>1, Contents, PTL
  <2>3. QED
    BY <2>1, <2>2
<1>8. ASSUME NEW g \in Frames \ {f} PROVE InFrame'[g] = InFrame[g]
  <2>1. \A e \in Endpoints : klass'[e] = "read" /\ frame'[e] = g
                               <=> klass[e] = "read" /\ frame[e] = g
    BY <1>3, <1>5 DEF NONE
  <2>2. \A e \in Endpoints : klass[e] = "read" /\ frame[e] = g =>
           /\ pos'[e] = pos[e] /\ bytes_available'[e] = bytes_available[e]
           /\ \A k \in 1 .. bytes_available[e] :
                buffer'[g][(pos[e] + (k - 1)) % BUFFER_SIZE]
                  = buffer[g][(pos[e] + (k - 1)) % BUFFER_SIZE]
    BY <1>3, <1>5 DEF NONE
  <2>3. QED
    BY <1>1, <2>1, <2>2, SameInFrame
<1>9. InFrame[f] = <<>>
  BY <1>4, <1>7 DEF Contained
<1>10. InFrame'[f] = <<>>
  <2>1. InFrame'[f] = Portion(buffer'[f], pos'[in], 0)
    BY <1>5, <1>6, <1>7 DEF Contained
  <2>2. \A ring, p : Portion(ring, p, 0) = <<>>
    BY DEF Portion
  <2>3. QED
    BY <2>1, <2>2
<1>11. InFrame' = InFrame
  <2>1. InFrame \in [Frames -> Seq(Bytes)] /\ InFrame' \in [Frames -> Seq(Bytes)]
    BY <1>7 DEF Contained
  <2>2. \A g \in Frames : InFrame'[g] = InFrame[g]
    BY <1>8, <1>9, <1>10
  <2> HIDE DEF InFrame
  <2>3. QED
    BY <2>1, <2>2
<1>12. OpenSides = {<<frame[e], klass[e]>> : e \in OpenEnds}
       /\ OpenSides' = {<<frame'[e], klass'[e]>> : e \in OpenEnds'}
  BY DEF OpenSides, OpenEnds
<1>13. OpenSides' = OpenSides \cup ({f} \X Pipes!Sides)
  <2>1. \A e \in OpenEnds : frame'[e] = frame[e] /\ klass'[e] = klass[e]
    BY <1>3, <1>5 DEF OpenEnds
  <2>2. {<<frame'[e], klass'[e]>> : e \in OpenEnds'}
          = {<<frame[e], klass[e]>> : e \in OpenEnds} \cup {<<f, "read">>, <<f, "write">>}
    BY <1>5, <1>6, <2>1
  <2>3. {f} \X {"read", "write"} = {<<f, "read">>, <<f, "write">>}
    OBVIOUS
  <2>4. QED
    BY <1>12, <2>2, <2>3 DEF Pipes!Sides
<1>14. OpenSides \cap ({f} \X Pipes!Sides) = {}
  BY <1>4, <1>12
<1>15. Pipes!Open(f)
  BY <1>11, <1>13, <1>14 DEF Pipes!Open
<1>16. QED
  BY <1>4, <1>15

(* The ends that are flushed are sides that shut; what is in a frame is    *)
(* lost with its read end.                                                 *)
LEMMA CloseImplements ==
  ASSUME IInv, IInv', NEW t \in Tasks, NEW shut \in SUBSET fds[t], CloseAll(t, shut)
  PROVE  (InFrame' = InFrame /\ OpenSides' = OpenSides) \/ Pipes!Shut
<1> DEFINE gone == {e \in shut : \A o \in Tasks \ {t} : e \notin fds[o]}
<1>1. TypeOK /\ Paired /\ Held /\ TypeOK' /\ Paired'
  BY DEF IInv
<1>2. /\ klass' = [e \in Endpoints |-> IF e \in gone THEN NONE ELSE klass[e]]
      /\ frame' = frame /\ bytes_available' = bytes_available
      /\ pos' = pos /\ buffer' = buffer
  BY DEF CloseAll, pipe_flush
<1>3. gone \subseteq OpenEnds
  BY <1>1 DEF Held
<1> HIDE DEF gone
<1>4. OpenEnds' = OpenEnds \ gone /\ \A e \in OpenEnds' : e \in Endpoints /\ klass'[e] = klass[e]
  BY <1>2 DEF OpenEnds, FreeEndpoints
<1>5. Contained /\ Contained'
  <2>1. Contained
    BY <1>1, Contents
  <2>2. Contained'
    BY <1>1, Contents, PTL
  <2>3. QED
    BY <2>1, <2>2
<1>6. InFrame \in [Frames -> Seq(Bytes)] /\ InFrame' \in [Frames -> Seq(Bytes)]
  BY <1>5 DEF Contained
<1>7. OpenSides = {<<frame[e], klass[e]>> : e \in OpenEnds}
      /\ OpenSides' = {<<frame[e], klass[e]>> : e \in OpenEnds'}
  <2>1. /\ OpenSides = {<<frame[e], klass[e]>> : e \in OpenEnds}
        /\ OpenSides' = {<<frame[e], klass'[e]>> : e \in OpenEnds'}
    BY <1>2 DEF OpenSides, OpenEnds
  <2>2. {<<frame[e], klass'[e]>> : e \in OpenEnds'} = {<<frame[e], klass[e]>> : e \in OpenEnds'}
    BY <1>4
  <2>3. QED
    BY <2>1, <2>2
<1>8. ASSUME NEW f \in Frames
      PROVE  InFrame'[f] = IF <<f, "read">> \in OpenSides' THEN InFrame[f] ELSE <<>>
  <2>1. CASE <<f, "read">> \in OpenSides'
    <3>1. PICK e \in OpenEnds' : frame[e] = f /\ klass[e] = "read"
      BY <1>7, <2>1
    <3>2. e \in OpenEnds /\ klass'[e] = "read"
      BY <1>4, <3>1
    <3>3. InFrame[f] = Portion(buffer[f], pos[e], bytes_available[e])
      BY <1>5, <3>1, <3>2 DEF Contained
    <3>4. InFrame'[f] = Portion(buffer[f], pos[e], bytes_available[e])
      BY <1>2, <1>5, <3>1, <3>2 DEF Contained
    <3>5. QED
      BY <2>1, <3>3, <3>4
  <2>2. CASE <<f, "read">> \notin OpenSides'
    <3>1. \A e \in OpenEnds' : ~ (klass'[e] = "read" /\ frame'[e] = f)
      BY <1>2, <1>4, <1>7, <2>2
    <3>2. InFrame'[f] = <<>>
      BY <1>5, <3>1 DEF Contained
    <3>3. QED
      BY <2>2, <3>2
  <2>3. QED
    BY <2>1, <2>2
<1>9. InFrame' = [f \in Frames |-> IF <<f, "read">> \in OpenSides' THEN InFrame[f] ELSE <<>>]
  <2>1. InFrame' = [f \in Frames |-> InFrame'[f]]
    BY <1>6
  <2>2. QED
    BY <1>8, <2>1
<1>10. OpenSides' \subseteq OpenSides
  BY <1>4, <1>7
<1>11. CASE gone = {}
  <2>1. OpenEnds' = OpenEnds
    BY <1>4, <1>11
  <2>2. OpenSides' = OpenSides
    BY <1>7, <2>1
  <2>3. ASSUME NEW f \in Frames, <<f, "read">> \notin OpenSides PROVE InFrame[f] = <<>>
    <3>1. \A e \in OpenEnds : ~ (klass[e] = "read" /\ frame[e] = f)
      BY <1>7, <2>3
    <3>2. QED
      BY <1>5, <3>1 DEF Contained
  <2>4. \A f \in Frames : InFrame'[f] = InFrame[f]
    BY <1>8, <2>2, <2>3
  <2>5. InFrame' = InFrame
    BY <1>6, <2>4
  <2>6. QED
    BY <2>2, <2>5
<1>12. CASE gone # {}
  <2>1. PICK e \in gone : e \in OpenEnds
    BY <1>3, <1>12
  <2>2. <<frame[e], klass[e]>> \in OpenSides
    BY <1>7, <2>1
  <2>3. <<frame[e], klass[e]>> \notin OpenSides'
    <3>1. ASSUME NEW g \in OpenEnds', frame[g] = frame[e], klass[g] = klass[e] PROVE FALSE
      BY <1>1, <1>4, <2>1, <3>1, OneEndPerSide
    <3>2. QED
      BY <1>7, <3>1
  <2>4. OpenSides' # OpenSides
    BY <2>2, <2>3
  <2>5. QED
    BY <1>9, <1>10, <2>4 DEF Pipes!Shut
<1>13. QED
  BY <1>11, <1>12

-----------------------------------------------------------------------------
(* Every step of a pipe is a step of a channel, or leaves it alone. *)
LEMMA StepImplements ==
  ASSUME IInv, IInv', Next
  PROVE  \/ InFrame' = InFrame /\ OpenSides' = OpenSides
         \/ Pipes!Next
<1>1. TypeOK /\ Held
  BY DEF IInv
<1>2. ASSUME NEW t \in Tasks, NEW c, Fits(t, c), Loop(t, c)
      PROVE  (InFrame' = InFrame /\ OpenSides' = OpenSides) \/ Pipes!Next
  <2>1. \/ InFrame' = InFrame /\ OpenSides' = OpenSides
        \/ \E f \in Frames : Pipes!Put(f) \/ Pipes!Take(f)
    BY <1>2, LoopImplements
  <2>2. QED
    BY <2>1 DEF Pipes!Next
<1>3. ASSUME NEW t \in Tasks, OpenPipe(t) PROVE Pipes!Next
  <2>1. \E f \in Frames : Pipes!Open(f)
    BY <1>3, OpenImplements
  <2>2. QED
    BY <2>1 DEF Pipes!Next
<1>4. ASSUME NEW t \in Tasks, NEW child \in Tasks, Fork(t, child)
      PROVE  InFrame' = InFrame /\ OpenSides' = OpenSides
  <2>1. /\ klass' = klass /\ frame' = frame /\ bytes_available' = bytes_available
        /\ pos' = pos /\ buffer' = buffer
    BY <1>4 DEF Fork, endpoints
  <2>2. QED
    BY <2>1 DEF InFrame, Reader, InRing, Ring, OpenSides, FreeEndpoints
<1>5. ASSUME NEW t \in Tasks, Read(t)
      PROVE  (InFrame' = InFrame /\ OpenSides' = OpenSides) \/ Pipes!Next
  <2>1. PICK e \in fds[t], size \in SIZES :
          /\ klass[e] = "read"
          /\ Loop(t, Call("read", e, [i \in 1 .. size |-> CHOOSE b \in Bytes : TRUE]))
    BY <1>5 DEF Read
  <2> DEFINE buf == [i \in 1 .. size |-> CHOOSE b \in Bytes : TRUE]
  <2>2. buf \in [1 .. size -> Bytes]
    BY PipeAssumption
  <2> HIDE DEF buf
  <2>3. Fits(t, Call("read", e, buf))
    BY <1>1, <2>1, <2>2, CallFits
  <2>4. Loop(t, Call("read", e, buf))
    BY <2>1 DEF buf
  <2>5. QED
    BY <1>2, <2>3, <2>4
<1>6. ASSUME NEW t \in Tasks, Write(t)
      PROVE  (InFrame' = InFrame /\ OpenSides' = OpenSides) \/ Pipes!Next
  <2>1. PICK e \in fds[t], size \in SIZES : \E buf \in [1 .. size -> Bytes] :
          klass[e] = "write" /\ Loop(t, Call("write", e, buf))
    BY <1>6 DEF Write
  <2>2. PICK buf \in [1 .. size -> Bytes] : klass[e] = "write" /\ Loop(t, Call("write", e, buf))
    BY <2>1
  <2>3. Fits(t, Call("write", e, buf))
    BY <1>1, <2>2, CallFits
  <2>4. QED
    BY <1>2, <2>2, <2>3
<1>7. ASSUME NEW t \in Tasks, Resume(t)
      PROVE  (InFrame' = InFrame /\ OpenSides' = OpenSides) \/ Pipes!Next
  BY <1>1, <1>2, <1>7 DEF Resume, Held
<1>8. ASSUME NEW t \in Tasks, Close(t) \/ Exit(t)
      PROVE  (InFrame' = InFrame /\ OpenSides' = OpenSides) \/ Pipes!Next
  <2>1. PICK shut \in SUBSET fds[t] : CloseAll(t, shut)
    <3>1. \A e \in fds[t] : {e} \in SUBSET fds[t]
      OBVIOUS
    <3>2. QED
      BY <1>8, <3>1 DEF Close, Exit
  <2>2. (InFrame' = InFrame /\ OpenSides' = OpenSides) \/ Pipes!Shut
    BY <2>1, CloseImplements
  <2>3. QED
    BY <2>2 DEF Pipes!Next
<1>9. QED
  BY <1>3, <1>4, <1>5, <1>6, <1>7, <1>8 DEF Next

LEMMA InitImplements == Init => Pipes!Init
<1> SUFFICES ASSUME Init PROVE Pipes!Init
  OBVIOUS
<1>1. \A e \in Endpoints : klass[e] = NONE
  BY DEF Init
<1>2. OpenSides = {}
  BY <1>1 DEF OpenSides, FreeEndpoints
<1>3. \A f \in Frames : Reader(f) = {}
  BY <1>1 DEF Reader, NONE
<1>4. InFrame = [f \in Frames |-> <<>>]
  BY <1>3 DEF InFrame
<1>5. QED
  BY <1>2, <1>4 DEF Pipes!Init

(* pipe_read and pipe_write on two positions, two counts and a ring of     *)
(* bytes are a bounded queue: a byte that was written is read once, in     *)
(* order, and is not overwritten before, and closing an end shuts a side.  *)
THEOREM Spec_ImplementsChannels == REUSE = FALSE => (Spec => ImplementsChannels)
<1> SUFFICES ASSUME REUSE = FALSE PROVE Spec => ImplementsChannels
  OBVIOUS
<1>1. IInv /\ IInv' /\ [Next]_vars => [Pipes!Next]_(Pipes!vars)
  <2> SUFFICES ASSUME IInv, IInv', [Next]_vars PROVE [Pipes!Next]_(Pipes!vars)
    OBVIOUS
  <2>1. CASE Next
    BY <2>1, StepImplements DEF Pipes!vars
  <2>2. CASE UNCHANGED vars
    <3>1. /\ klass' = klass /\ frame' = frame /\ bytes_available' = bytes_available
          /\ pos' = pos /\ buffer' = buffer
      BY <2>2 DEF vars, endpoints
    <3>2. InFrame' = InFrame /\ OpenSides' = OpenSides
      BY <3>1 DEF InFrame, Reader, InRing, Ring, OpenSides, FreeEndpoints
    <3>3. QED
      BY <3>2 DEF Pipes!vars
  <2>3. QED
    BY <2>1, <2>2
<1>2. Spec => []IInv
  BY Invariance
<1>3. QED
  BY <1>1, <1>2, InitImplements, PTL DEF Spec, ImplementsChannels, Pipes!Spec

-----------------------------------------------------------------------------
(* memkrypt: one page, one process. *)

(* The programs, an instruction at a time. *)
LEMMA MemkryptRead ==
  /\ memkrypt_read[1][1] = "pipe"    /\ memkrypt_read[1][2] = "sem_read"
  /\ memkrypt_read[2][1] = "pipe"    /\ memkrypt_read[2][2] = "sem_encrypt"
  /\ memkrypt_read[3][1] = "pipe"    /\ memkrypt_read[3][2] = "sem_write"
  /\ memkrypt_read[4][1] = "pipe"    /\ memkrypt_read[4][2] = "mutex"
  /\ memkrypt_read[5][1] = "signal"  /\ memkrypt_read[5][2] = "mutex" /\ memkrypt_read[5][3] = 1
  /\ memkrypt_read[6][1] = "fork"    /\ memkrypt_read[6][2] = encrypt_proc
  /\ memkrypt_read[7][1] = "try"     /\ memkrypt_read[7][3] = 16
  /\ memkrypt_read[8][1] = "signal"  /\ memkrypt_read[8][2] = "sem_read"
                                     /\ memkrypt_read[8][3] = BUFFER_PAGES
  /\ memkrypt_read[9][1] = "wait"    /\ memkrypt_read[9][2] = "sem_read"
  /\ memkrypt_read[10][1] = "read page"
  /\ memkrypt_read[11][1] = "wait"   /\ memkrypt_read[11][2] = "mutex"
  /\ memkrypt_read[12][1] = "set size"
  /\ memkrypt_read[13][1] = "signal" /\ memkrypt_read[13][2] = "mutex"
  /\ memkrypt_read[13][3] = 1
  /\ memkrypt_read[14][1] = "signal" /\ memkrypt_read[14][2] = "sem_encrypt"
                                     /\ memkrypt_read[14][3] = 1
  /\ memkrypt_read[15][1] = "next page" /\ memkrypt_read[15][2] = 9
  /\ memkrypt_read[16][1] = "exit"
  /\ DOMAIN memkrypt_read = {1, 2, 3, 4, 5, 6, 7, 8, 9, 10, 11, 12, 13, 14, 15, 16}
  BY DEF memkrypt_read

LEMMA MemkryptEncrypt ==
  /\ memkrypt_encrypt[1][1] = "fork"   /\ memkrypt_encrypt[1][2] = write_proc
  /\ memkrypt_encrypt[2][1] = "wait"   /\ memkrypt_encrypt[2][2] = "sem_encrypt"
  /\ memkrypt_encrypt[3][1] = "wait"   /\ memkrypt_encrypt[3][2] = "mutex"
  /\ memkrypt_encrypt[4][1] = "get size"
  /\ memkrypt_encrypt[5][1] = "signal" /\ memkrypt_encrypt[5][2] = "mutex"
                                       /\ memkrypt_encrypt[5][3] = 1
  /\ memkrypt_encrypt[6][1] = "encrypt page"
  /\ memkrypt_encrypt[7][1] = "signal" /\ memkrypt_encrypt[7][2] = "sem_write"
                                       /\ memkrypt_encrypt[7][3] = 1
  /\ memkrypt_encrypt[8][1] = "next page" /\ memkrypt_encrypt[8][2] = 2
  /\ memkrypt_encrypt[9][1] = "exit"
  /\ DOMAIN memkrypt_encrypt = {1, 2, 3, 4, 5, 6, 7, 8, 9}
  BY DEF memkrypt_encrypt

LEMMA MemkryptWrite ==
  /\ memkrypt_write[1][1] = "try"    /\ memkrypt_write[1][3] = 9
  /\ memkrypt_write[2][1] = "wait"   /\ memkrypt_write[2][2] = "sem_write"
  /\ memkrypt_write[3][1] = "wait"   /\ memkrypt_write[3][2] = "mutex"
  /\ memkrypt_write[4][1] = "get size"
  /\ memkrypt_write[5][1] = "signal" /\ memkrypt_write[5][2] = "mutex"
  /\ memkrypt_write[5][3] = 1
  /\ memkrypt_write[6][1] = "send page"
  /\ memkrypt_write[7][1] = "signal" /\ memkrypt_write[7][2] = "sem_read"
                                     /\ memkrypt_write[7][3] = 1
  /\ memkrypt_write[8][1] = "next page" /\ memkrypt_write[8][2] = 2
  /\ memkrypt_write[9][1] = "getch"
  /\ memkrypt_write[10][1] = "exit"
  /\ DOMAIN memkrypt_write = {1, 2, 3, 4, 5, 6, 7, 8, 9, 10}
  BY DEF memkrypt_write

(* No two processes are the same one. *)
LEMMA ThreeProcesses ==
  /\ read_proc # encrypt_proc /\ read_proc # write_proc /\ encrypt_proc # write_proc
  /\ Tasks = {read_proc, encrypt_proc, write_proc}
<1>1. ASSUME NEW a, NEW b PROVE Cardinality({a, b}) \leq 2
  <2>1. IsFiniteSet({b}) /\ Cardinality({b}) = 1
    BY FS_Singleton
  <2>2. Cardinality({b} \cup {a}) = IF a \in {b} THEN Cardinality({b}) ELSE Cardinality({b}) + 1
    BY <2>1, FS_AddElement
  <2>3. {a, b} = {b} \cup {a}
    OBVIOUS
  <2> QED BY <2>1, <2>2, <2>3
<1>2. Cardinality(Tasks) = 3 /\ Tasks = {read_proc, encrypt_proc, write_proc}
  BY PipelinesAssumption DEF PipelinesAssumption
<1>3. ASSUME NEW a, NEW b, Tasks = {a, b} PROVE FALSE
  <2>1. Cardinality({a, b}) \leq 2
    BY <1>1
  <2>2. Cardinality({a, b}) = 3
    BY <1>2, <1>3
  <2> QED BY <2>1, <2>2
<1>4. read_proc # encrypt_proc
  BY <1>2, <1>3
<1>5. read_proc # write_proc
  BY <1>2, <1>3
<1>6. encrypt_proc # write_proc
  BY <1>2, <1>3
<1> QED BY <1>2, <1>4, <1>5, <1>6

LEMMA Pages == BUFFER_PAGES \in Nat \ {0} /\ PAGE_SIZE \in Nat \ {0}
  BY PipelinesAssumption DEF PipelinesAssumption

Pc(t)  == proc[t].pc
Idx(t) == proc[t].i
Num(t) == proc[t].n
Siz(t) == proc[t].sz

PR == Pc(read_proc)
PE == Pc(encrypt_proc)
PW == Pc(write_proc)

(* What a process is at, in memkrypt. *)
LEMMA MemkryptInstr ==
  ASSUME program = "memkrypt"
  PROVE  /\ Instr(read_proc) = memkrypt_read[PR]
         /\ Instr(encrypt_proc) = memkrypt_encrypt[PE]
         /\ Instr(write_proc) = memkrypt_write[PW]
         /\ Code(read_proc) = memkrypt_read
         /\ Code(encrypt_proc) = memkrypt_encrypt
         /\ Code(write_proc) = memkrypt_write
<1>1. program # "krypt"
  OBVIOUS
<1>2. Code(read_proc) = memkrypt_read
  BY <1>1, ThreeProcesses DEF Code
<1>3. Code(encrypt_proc) = memkrypt_encrypt
  BY <1>1, ThreeProcesses DEF Code
<1>4. Code(write_proc) = memkrypt_write
  BY <1>1, ThreeProcesses DEF Code
<1> QED BY <1>2, <1>3, <1>4 DEF Instr, PR, PE, PW, Pc

-----------------------------------------------------------------------------
(* The descriptors.  A process that lives has every end opened so far: the *)
(* semaphores are opened before the first fork and closed by exit only.    *)
SemNames == {"sem_read", "sem_encrypt", "sem_write", "mutex"}

EndsOf(name) == {ends[name].read, ends[name].write}
AllEnds == UNION {EndsOf(name) : name \in DOMAIN ends}
Tokens(name) == bytes_available[ends[name].read]

Wired(name) ==
  LET r == ends[name].read
      w == ends[name].write
  IN /\ r \in Endpoints /\ w \in Endpoints /\ r # w
     /\ pair[r] = w /\ pair[w] = r
     /\ bytes_available[w] = bytes_available[r]
     /\ bytes_available[r] \in 0 .. BUFFER_SIZE
     /\ Born # {} => klass[r] = "read" /\ klass[w] = "write"

Wires ==
  /\ \A name \in DOMAIN ends : Wired(name)
  /\ \A m, n \in DOMAIN ends : m # n => EndsOf(m) \cap EndsOf(n) = {}
  /\ \A t \in Born : fds[t] = AllEnds

Arrays ==
  /\ DOMAIN klass = Endpoints /\ DOMAIN pair = Endpoints
  /\ DOMAIN bytes_available = Endpoints
  /\ DOMAIN fds = Tasks /\ DOMAIN call = Tasks /\ DOMAIN proc = Tasks
  /\ \A t \in Tasks : {"pc", "i", "sz", "n", "buffer"} \subseteq DOMAIN proc[t]

(* How far each is: who is born, what is opened, and which calls block. *)
Places ==
  /\ PR \in {1, 2, 3, 4, 5, 6, 7, 8, 9, 10, 11, 12, 13, 14, 15, 16}
  /\ PE \in {1, 2, 3, 4, 5, 6, 7, 8, 9}
  /\ PW \in {1, 2, 3, 4, 5, 6, 7, 8, 9, 10}
  /\ DOMAIN ends \subseteq SemNames
  /\ "sem_read" \in DOMAIN ends <=> PR > 1
  /\ "sem_encrypt" \in DOMAIN ends <=> PR > 2
  /\ "sem_write" \in DOMAIN ends <=> PR > 3
  /\ "mutex" \in DOMAIN ends <=> PR > 4
  /\ encrypt_proc \in Born \/ PE > 1 => PR > 6
  /\ write_proc \in Born \/ PW > 1 => PE > 1

InFlight(t) ==
  /\ call[t].op = "write" =>
       /\ Instr(t)[1] = "signal"
       /\ call[t].end = ends[Instr(t)[2]].write
       /\ call[t].size = Instr(t)[3] /\ call[t].sz \in 0 .. call[t].size - 1
  /\ call[t].op = "read" =>
       /\ Instr(t)[1] = "wait"
       /\ call[t].end = ends[Instr(t)[2]].read
       /\ call[t].size = 1 /\ call[t].sz = 0
  /\ call[t].op \in {"read", "write"} \/ call[t] = NoCall \/ call[t] = Unborn

Calling == \A t \in Tasks : InFlight(t)

(* How many tokens the call that t is in has moved. *)
Done(t) == IF call[t] = NoCall THEN 0 ELSE call[t].sz

(* The pages of a semaphore: the ones signalled and not yet waited for. *)
Pending(name) == IF name \in DOMAIN ends THEN Tokens(name) ELSE 0

(* The semaphores after r pages are read, e encrypted, w sent: each page   *)
(* is at a semaphore or in the hands of one process.  first: how much of   *)
(* the first signal, which gives out all of them, is done.                 *)
Counted(first, r, e, w) ==
  /\ first \in 0 .. BUFFER_PAGES /\ r \in Nat /\ e \in Nat /\ w \in Nat
  /\ Pending("sem_read") + r + (IF PR \in 10 .. 14 THEN 1 ELSE 0) = first + w
  /\ Pending("sem_encrypt") + e + (IF PE \in 3 .. 7 THEN 1 ELSE 0) = r
  /\ Pending("sem_write") + w + (IF PW \in 3 .. 7 THEN 1 ELSE 0) = e
  /\ PR < 8 => first = 0
  /\ PR = 8 => first = Done(read_proc)

Turns(r, e, w) ==
  /\ PR < 9 => r = 0
  /\ PE < 2 => e = 0
  /\ PW < 2 => w = 0
  /\ PR < 15 => Idx(read_proc) = r % BUFFER_PAGES
  /\ PR = 15 => Idx(read_proc) = (r - 1) % BUFFER_PAGES /\ r > 0
  /\ PE < 8 => Idx(encrypt_proc) = e % BUFFER_PAGES
  /\ PE = 8 => Idx(encrypt_proc) = (e - 1) % BUFFER_PAGES /\ e > 0
  /\ PW < 8 => Idx(write_proc) = w % BUFFER_PAGES
  /\ PW = 8 => Idx(write_proc) = (w - 1) % BUFFER_PAGES /\ w > 0

PagesAtSemaphores ==
  program = "memkrypt" =>
    /\ Arrays /\ Wires /\ Places /\ Calling
    /\ \E first, r, e, w \in Nat : Counted(first, r, e, w) /\ Turns(r, e, w)

(* Counting around a ring of P. *)
LEMMA Multiples ==
  ASSUME NEW P \in Nat \ {0}, NEW k \in Nat, NEW m \in Nat, k % P = m % P, k < m
  PROVE  m >= k + P
<1>1. /\ k = P * (k \div P) + (k % P) /\ m = P * (m \div P) + (m % P)
      /\ k \div P \in Int /\ m \div P \in Int
  OBVIOUS
<1>2. \A x, y \in Int : P * x < P * y => P * y >= P * x + P
  OBVIOUS
<1>3. \A x \in Int : P * x \in Int
  OBVIOUS
<1> DEFINE q == P * (k \div P)
           s == P * (m \div P)
           z == k % P
<1>4. q < s => s >= q + P
  BY <1>1, <1>2
<1>5. q \in Int /\ s \in Int /\ z \in Int /\ k = q + z /\ m = s + z
  BY <1>1, <1>3
<1> HIDE DEF q, s, z
<1> QED BY <1>4, <1>5

LEMMA NextTurn ==
  ASSUME NEW P \in Nat \ {0}, NEW k \in Nat 
  PROVE  ((k % P) + 1) % P = (k + 1) % P
<1>1. k = P * (k \div P) + (k % P) /\ k \div P \in Int /\ k % P \in 0 .. P - 1
  OBVIOUS
<1>2. \A x \in Int, y \in 0 .. P - 1 : (P * x + y) % P = y
  OBVIOUS
<1>3. \A x \in Int : P * (x + 1) = P * x + P /\ P * x \in Int
  OBVIOUS
<1> DEFINE x == k \div P
           y == k % P
<1>4. x \in Int /\ y \in 0 .. P - 1 /\ k = P * x + y
  BY <1>1
<1> HIDE DEF x, y
<1>5. (y + 1) % P = (k + 1) % P
  <2>1. CASE y = P - 1
    <3>1. k + 1 = P * (x + 1) + 0
      BY <1>3, <1>4, <2>1
    <3>2. (P * (x + 1) + 0) % P = 0
      BY <1>2, <1>4
    <3>3. P = P * 1 + 0 /\ (P * 1 + 0) % P = 0
      BY <1>2
    <3>4. y + 1 = P
      BY <1>4, <2>1
    <3> QED BY <3>1, <3>2, <3>3, <3>4
  <2>2. CASE y # P - 1
    <3>1. k + 1 = P * x + (y + 1) /\ y + 1 \in 0 .. P - 1
      BY <1>3, <1>4, <2>2
    <3>2. (P * x + (y + 1)) % P = y + 1
      BY <1>2, <1>4, <3>1
    <3>3. (P * 0 + (y + 1)) % P = y + 1 /\ P * 0 + (y + 1) = y + 1
      BY <1>2, <3>1
    <3> QED BY <3>1, <3>2, <3>3
  <2> QED BY <2>1, <2>2
<1> QED BY <1>5 DEF y

LEMMA OtherTurn ==
  ASSUME NEW k \in Nat, NEW m \in Nat, k < m, m < k + BUFFER_PAGES
  PROVE  k % BUFFER_PAGES # m % BUFFER_PAGES
<1> SUFFICES ASSUME k % BUFFER_PAGES = m % BUFFER_PAGES PROVE FALSE
  OBVIOUS
<1>1. m >= k + BUFFER_PAGES
  BY Pages, Multiples
<1> QED BY <1>1, Pages

LEMMA CountedOnce == PagesAtSemaphores => PageOfOne
<1> SUFFICES ASSUME Arrays, program = "memkrypt", Wires, Places,
                    NEW first \in Nat, NEW r \in Nat, NEW e \in Nat, NEW w \in Nat,
                    Counted(first, r, e, w), Turns(r, e, w),
                    NEW t \in Born, NEW u \in Born, t # u, HasPage(t), HasPage(u)
             PROVE  Idx(t) # Idx(u)
  BY DEF PagesAtSemaphores, PageOfOne, Idx
<1>1. ASSUME HasPage(read_proc) PROVE PR \in 10 .. 14
  <2>1. LineOf(read_proc, "wait", "sem_read") = 9
    <3> DEFINE Q(l) == Code(read_proc)[l][1] = "wait" /\ Code(read_proc)[l][2] = "sem_read"
    <3>1. 9 \in DOMAIN Code(read_proc) /\ Q(9)
      BY MemkryptRead, MemkryptInstr
    <3>2. \A l \in DOMAIN Code(read_proc) : Q(l) => l = 9
      BY MemkryptRead, MemkryptInstr
    <3> HIDE DEF Q
    <3>3. (CHOOSE l \in DOMAIN Code(read_proc) : Q(l)) = 9
      BY <3>1, <3>2
    <3> QED BY <3>3 DEF Q, LineOf
  <2>2. LineOf(read_proc, "signal", "sem_encrypt") = 14
    <3> DEFINE Q(l) == Code(read_proc)[l][1] = "signal" /\ Code(read_proc)[l][2] = "sem_encrypt"
    <3>1. 14 \in DOMAIN Code(read_proc) /\ Q(14)
      BY MemkryptRead, MemkryptInstr
    <3>2. \A l \in DOMAIN Code(read_proc) : Q(l) => l = 14
      BY MemkryptRead, MemkryptInstr
    <3> HIDE DEF Q
    <3>3. (CHOOSE l \in DOMAIN Code(read_proc) : Q(l)) = 14
      BY <3>1, <3>2
    <3> QED BY <3>3 DEF Q, LineOf
  <2>3. PR > 0 /\ PR = proc[read_proc].pc /\ PR \in Int
    BY DEF Places, PR, Pc
  <2> QED BY <1>1, <2>1, <2>2, <2>3, ThreeProcesses DEF HasPage
<1>2. ASSUME HasPage(encrypt_proc) PROVE PE \in 3 .. 7
  <2>1. LineOf(encrypt_proc, "wait", "sem_encrypt") = 2
    <3> DEFINE Q(l) == Code(encrypt_proc)[l][1] = "wait"
        /\ Code(encrypt_proc)[l][2] = "sem_encrypt"
    <3>1. 2 \in DOMAIN Code(encrypt_proc) /\ Q(2)
      BY MemkryptEncrypt, MemkryptInstr
    <3>2. \A l \in DOMAIN Code(encrypt_proc) : Q(l) => l = 2
      BY MemkryptEncrypt, MemkryptInstr
    <3> HIDE DEF Q
    <3>3. (CHOOSE l \in DOMAIN Code(encrypt_proc) : Q(l)) = 2
      BY <3>1, <3>2
    <3> QED BY <3>3 DEF Q, LineOf
  <2>2. LineOf(encrypt_proc, "signal", "sem_write") = 7
    <3> DEFINE Q(l) == Code(encrypt_proc)[l][1] = "signal"
        /\ Code(encrypt_proc)[l][2] = "sem_write"
    <3>1. 7 \in DOMAIN Code(encrypt_proc) /\ Q(7)
      BY MemkryptEncrypt, MemkryptInstr
    <3>2. \A l \in DOMAIN Code(encrypt_proc) : Q(l) => l = 7
      BY MemkryptEncrypt, MemkryptInstr
    <3> HIDE DEF Q
    <3>3. (CHOOSE l \in DOMAIN Code(encrypt_proc) : Q(l)) = 7
      BY <3>1, <3>2
    <3> QED BY <3>3 DEF Q, LineOf
  <2>3. PE > 0 /\ PE = proc[encrypt_proc].pc /\ PE \in Int
    BY DEF Places, PE, Pc
  <2> QED BY <1>2, <2>1, <2>2, <2>3, ThreeProcesses DEF HasPage
<1>3. ASSUME HasPage(write_proc) PROVE PW \in 3 .. 7
  <2>1. LineOf(write_proc, "wait", "sem_write") = 2
    <3> DEFINE Q(l) == Code(write_proc)[l][1] = "wait" /\ Code(write_proc)[l][2] = "sem_write"
    <3>1. 2 \in DOMAIN Code(write_proc) /\ Q(2)
      BY MemkryptWrite, MemkryptInstr
    <3>2. \A l \in DOMAIN Code(write_proc) : Q(l) => l = 2
      BY MemkryptWrite, MemkryptInstr
    <3> HIDE DEF Q
    <3>3. (CHOOSE l \in DOMAIN Code(write_proc) : Q(l)) = 2
      BY <3>1, <3>2
    <3> QED BY <3>3 DEF Q, LineOf
  <2>2. LineOf(write_proc, "signal", "sem_read") = 7
    <3> DEFINE Q(l) == Code(write_proc)[l][1] = "signal" /\ Code(write_proc)[l][2] = "sem_read"
    <3>1. 7 \in DOMAIN Code(write_proc) /\ Q(7)
      BY MemkryptWrite, MemkryptInstr
    <3>2. \A l \in DOMAIN Code(write_proc) : Q(l) => l = 7
      BY MemkryptWrite, MemkryptInstr
    <3> HIDE DEF Q
    <3>3. (CHOOSE l \in DOMAIN Code(write_proc) : Q(l)) = 7
      BY <3>1, <3>2
    <3> QED BY <3>3 DEF Q, LineOf
  <2>3. PW > 0 /\ PW = proc[write_proc].pc /\ PW \in Int
    BY DEF Places, PW, Pc
  <2> QED BY <1>3, <2>1, <2>2, <2>3, ThreeProcesses DEF HasPage
<1>4. \A name \in SemNames : Pending(name) \in Nat
  BY PipeAssumption DEF PipeAssumption, Pending, Tokens, Wires, Wired
<1>5. PR \in 10 .. 14 /\ PE \in 3 .. 7 => Idx(read_proc) # Idx(encrypt_proc)
  <2> SUFFICES ASSUME PR \in 10 .. 14, PE \in 3 .. 7
               PROVE  Idx(read_proc) # Idx(encrypt_proc)
    OBVIOUS
  <2>1. Idx(read_proc) = r % BUFFER_PAGES /\ Idx(encrypt_proc) = e % BUFFER_PAGES
    BY DEF Turns
  <2>2. e < r /\ r < e + BUFFER_PAGES
    BY <1>4, Pages DEF Counted, SemNames
  <2> QED BY <2>1, <2>2, OtherTurn
<1>6. PR \in 10 .. 14 /\ PW \in 3 .. 7 => Idx(read_proc) # Idx(write_proc)
  <2> SUFFICES ASSUME PR \in 10 .. 14, PW \in 3 .. 7
               PROVE  Idx(read_proc) # Idx(write_proc)
    OBVIOUS
  <2>1. Idx(read_proc) = r % BUFFER_PAGES /\ Idx(write_proc) = w % BUFFER_PAGES
    BY DEF Turns
  <2>2. w < r /\ r < w + BUFFER_PAGES
    BY <1>4, Pages DEF Counted, SemNames
  <2> QED BY <2>1, <2>2, OtherTurn
<1>7. PE \in 3 .. 7 /\ PW \in 3 .. 7 => Idx(encrypt_proc) # Idx(write_proc)
  <2> SUFFICES ASSUME PE \in 3 .. 7, PW \in 3 .. 7
               PROVE  Idx(encrypt_proc) # Idx(write_proc)
    OBVIOUS
  <2>1. Idx(encrypt_proc) = e % BUFFER_PAGES /\ Idx(write_proc) = w % BUFFER_PAGES
    BY DEF Turns
  <2>2. w < e /\ e < w + BUFFER_PAGES
    BY <1>4, Pages DEF Counted, SemNames
  <2> QED BY <2>1, <2>2, OtherTurn
<1>8. t \in {read_proc, encrypt_proc, write_proc} /\ u \in {read_proc, encrypt_proc, write_proc}
  BY ThreeProcesses DEF Born
<1> QED BY <1>1, <1>2, <1>3, <1>5, <1>6, <1>7, <1>8

-----------------------------------------------------------------------------
(* k tokens go into the semaphore, or out of it. *)
Shift(name, k) ==
  /\ DOMAIN bytes_available' = Endpoints
  /\ \A e \in Endpoints :
       bytes_available'[e] = IF e \in EndsOf(name) THEN bytes_available[e] + k
                             ELSE bytes_available[e]
  /\ UNCHANGED <<klass, pair, fds>>

Goes(t, c, k) ==
  IF k = c.size - c.sz THEN call' = [call EXCEPT ![t] = NoCall]
  ELSE call' = [call EXCEPT ![t] = InCall(c.op, c.end, c.size, c.sz + k, c.buf)]

LEMMA MovedShifts ==
  ASSUME Arrays, NEW name, Wired(name), NEW e \in EndsOf(name), NEW n,
         NEW available \in 0 .. BUFFER_SIZE,
         Moved(e, n, available), UNCHANGED <<klass, pair, fds>>
  PROVE  Shift(name, available - Tokens(name))
<1> DEFINE r == ends[name].read
           w == ends[name].write
           f == pair[e]
<1>1. /\ r \in Endpoints /\ w \in Endpoints /\ e \in {r, w} /\ f \in {r, w} /\ e # f
      /\ {r, w} = {e, f} /\ EndsOf(name) = {e, f}
      /\ bytes_available[e] = Tokens(name) /\ bytes_available[f] = Tokens(name)
      /\ Tokens(name) \in 0 .. BUFFER_SIZE
  BY DEF Wired, EndsOf, Tokens
<1>2. available % WORD = available
  BY PipeAssumption DEF PipeAssumption, WORD
<1>3. Tokens(name) + available - Tokens(name) = available
  BY <1>1
<1>4. bytes_available' = [bytes_available EXCEPT ![e] = available % WORD,
                            ![f] = (@ + available - bytes_available[e]) % WORD]
  BY DEF Moved
<1> HIDE DEF r, w, f
<1>5. /\ DOMAIN bytes_available' = Endpoints
      /\ bytes_available'[e] = available /\ bytes_available'[f] = available
      /\ \A g \in Endpoints \ {e, f} : bytes_available'[g] = bytes_available[g]
  BY <1>1, <1>2, <1>3, <1>4 DEF Arrays
<1>6. available = Tokens(name) + (available - Tokens(name))
  BY <1>1
<1> QED BY <1>1, <1>5, <1>6 DEF Shift

LEMMA SignalMoves ==
  ASSUME Arrays, NEW name, Wired(name), Born # {}, NEW t, NEW c,
         c.op = "write", c.end = ends[name].write, c.size \in Nat, c.sz \in 0 .. c.size - 1,
         Loop(t, c)
  PROVE  \E k \in 0 .. c.size - c.sz :
           Tokens(name) + k \in 0 .. BUFFER_SIZE /\ Shift(name, k) /\ Goes(t, c, k)
<1> DEFINE e == c.end
           k == Least(BUFFER_SIZE - bytes_available[e], c.size - c.sz)
<1>1. /\ e \in EndsOf(name) /\ e \in Endpoints /\ pair[e] \in Endpoints
      /\ bytes_available[e] = Tokens(name) /\ Tokens(name) \in 0 .. BUFFER_SIZE
      /\ klass[pair[e]] # NONE
  BY DEF Wired, EndsOf, Tokens, NONE
<1>2. k \in 0 .. c.size - c.sz /\ Tokens(name) + k \in 0 .. BUFFER_SIZE
  BY <1>1, PipeAssumption DEF Least, PipeAssumption
<1>3. /\ IF k = 0 THEN UNCHANGED <<pos, bytes_available>>
         ELSE Moved(e, k, bytes_available[e] + k)
      /\ IF c.sz + k = c.size THEN Return(t, Woken(e, k))
         ELSE Block(t, InCall(c.op, e, c.size, c.sz + k, c.buf), Woken(e, k))
      /\ UNCHANGED <<klass, pair, fds>>
  BY <1>1 DEF Loop, WriteLoop
<1>4. Goes(t, c, k)
  <2>1. c.sz + k = c.size <=> k = c.size - c.sz
    BY <1>2
  <2> HIDE DEF k
  <2> QED BY <1>3, <2>1 DEF Goes, Return, Block
<1> HIDE DEF k
<1>5. Shift(name, k)
  <2>1. CASE k = 0
    <3>1. \A f \in EndsOf(name) : f \in Endpoints /\ bytes_available[f] = Tokens(name)
      BY DEF EndsOf, Wired, Tokens
    <3>2. \A f \in EndsOf(name) : bytes_available[f] + 0 = bytes_available[f]
      BY <1>1, <3>1
    <3> QED BY <1>3, <2>1, <3>2 DEF Shift, Arrays
  <2>2. CASE k # 0
    <3>1. Moved(e, k, Tokens(name) + k)
      BY <1>1, <1>3, <2>2
    <3>2. Shift(name, Tokens(name) + k - Tokens(name))
      BY <1>1, <1>2, <1>3, <3>1, MovedShifts
    <3>3. Tokens(name) + k - Tokens(name) = k
      BY <1>1, <1>2
    <3> QED BY <3>2, <3>3
  <2> QED BY <2>1, <2>2
<1> QED BY <1>2, <1>4, <1>5

LEMMA WaitMoves ==
  ASSUME Arrays, NEW name, Wired(name), Born # {}, NEW t, NEW c,
         c.op = "read", c.end = ends[name].read, c.size = 1, c.sz = 0,
         Loop(t, c)
  PROVE  /\ Tokens(name) \in 0 .. BUFFER_SIZE
         /\ IF Tokens(name) = 0
            THEN Shift(name, 0)
            /\ call' = [call EXCEPT ![t] =
                          InCall(c.op, c.end, 1, 0, CopiedOut(c.end, 0, c.buf))]
            ELSE Shift(name, -1) /\ call' = [call EXCEPT ![t] = NoCall]
<1> DEFINE e == c.end
           k == Least(bytes_available[e], c.size - c.sz)
<1>1. /\ e \in EndsOf(name) /\ e \in Endpoints /\ pair[e] \in Endpoints
      /\ bytes_available[e] = Tokens(name) /\ Tokens(name) \in 0 .. BUFFER_SIZE
      /\ klass[pair[e]] # NONE
  BY DEF Wired, EndsOf, Tokens, NONE
<1>2. k = IF Tokens(name) = 0 THEN 0 ELSE 1
  BY <1>1 DEF Least
<1>3. /\ IF k = 0 THEN UNCHANGED <<pos, bytes_available>>
         ELSE Moved(e, k, bytes_available[e] - k)
      /\ IF c.sz + k = c.size THEN Return(t, Woken(e, k))
         ELSE Block(t, InCall(c.op, e, c.size, c.sz + k, CopiedOut(e, k, c.buf)), Woken(e, k))
      /\ UNCHANGED <<klass, pair, fds>>
  BY <1>1 DEF Loop, ReadLoop
<1> HIDE DEF k
<1>4. CASE Tokens(name) = 0
  <2>1. \A f \in EndsOf(name) : f \in Endpoints /\ bytes_available[f] = Tokens(name)
    BY DEF EndsOf, Wired, Tokens
  <2>2. \A f \in EndsOf(name) : bytes_available[f] + 0 = bytes_available[f]
    BY <1>1, <2>1
  <2>3. Shift(name, 0)
    BY <1>2, <1>3, <1>4, <2>2 DEF Shift, Arrays
  <2>4. c.sz + k # c.size /\ c.sz + k = 0 /\ k = 0
    BY <1>2, <1>4
  <2> QED BY <1>1, <1>3, <1>4, <2>3, <2>4 DEF Block
<1>5. CASE Tokens(name) # 0
  <2>0. k = 1
    BY <1>2, <1>5
  <2>1. k = 1 /\ c.sz + k = c.size /\ Tokens(name) - 1 \in 0 .. BUFFER_SIZE
    BY <1>1, <1>5, <2>0, Size
  <2>2. Moved(e, 1, Tokens(name) - 1)
    BY <1>1, <1>3, <2>1
  <2>3. Shift(name, Tokens(name) - 1 - Tokens(name))
    BY <1>1, <1>3, <2>1, <2>2, MovedShifts
  <2>4. Tokens(name) - 1 - Tokens(name) = -1
    BY <1>1
  <2> QED BY <1>1, <1>3, <1>5, <2>1, <2>3, <2>4 DEF Return
<1> QED BY <1>1, <1>4, <1>5

(* The other semaphores stay as they are. *)
LEMMA ShiftKeeps ==
  ASSUME Wires, NEW name \in DOMAIN ends, NEW k \in Int, Shift(name, k), UNCHANGED ends,
         Tokens(name) + k \in 0 .. BUFFER_SIZE, Born' = Born
  PROVE  /\ Wires'
         /\ Pending(name)' = Pending(name) + k
         /\ \A m \in SemNames \ {name} : Pending(m)' = Pending(m)
<1>1. \A m \in DOMAIN ends : Wired(m)
  BY DEF Wires
<1>2. \A m \in DOMAIN ends \ {name} : EndsOf(m) \cap EndsOf(name) = {}
  BY DEF Wires
<1>3. \A m \in DOMAIN ends : EndsOf(m)' = EndsOf(m)
      /\ Tokens(m)' = IF m = name THEN Tokens(m) + k ELSE Tokens(m)
  BY <1>1, <1>2 DEF Shift, EndsOf, Tokens, Wired
<1>4. ASSUME NEW m \in DOMAIN ends PROVE Wired(m)'
  <2>1. CASE m = name
    BY <1>1, <2>1 DEF Wired, Shift, EndsOf, Tokens
  <2>2. CASE m # name
    BY <1>1, <1>2, <2>2 DEF Wired, Shift, EndsOf
  <2> QED BY <2>1, <2>2
<1>5. AllEnds' = AllEnds
  BY <1>3 DEF AllEnds
<1>6. Wires'
  BY <1>3, <1>4, <1>5 DEF Wires, Shift
<1> QED BY <1>3, <1>6 DEF Pending

-----------------------------------------------------------------------------
(* What a step of a process does, by the instruction it is at. *)
Elsewhere(t) ==
  /\ DOMAIN call' = Tasks /\ DOMAIN proc' = Tasks
  /\ \A u \in Tasks \ {t} : call'[u] = call[u] /\ proc'[u] = proc[u]

OwnButProc == <<program, ends, pages, sizes, offset, failed, sent>>

Passed(t) ==
  /\ call'[t] = NoCall
  /\ proc'[t] = [proc[t] EXCEPT !.pc = @ + 1]

Signalled(t, name, size) ==
  \E k \in 0 .. size - Done(t) :
    /\ Tokens(name) + k \in 0 .. BUFFER_SIZE /\ Shift(name, k)
    /\ \/ k = size - Done(t) /\ Passed(t)
       \/ /\ k < size - Done(t)
          /\ proc'[t] = proc[t]
          /\ call'[t].op = "write" /\ call'[t].end = ends[name].write
          /\ call'[t].size = size /\ call'[t].sz = Done(t) + k

Waited(t, name) ==
  \/ /\ Tokens(name) = 0 /\ Shift(name, 0)
     /\ proc'[t] = proc[t]
     /\ call'[t].op = "read" /\ call'[t].end = ends[name].read
     /\ call'[t].size = 1 /\ call'[t].sz = 0
  \/ /\ Tokens(name) > 0 /\ Tokens(name) - 1 \in 0 .. BUFFER_SIZE /\ Shift(name, -1)
     /\ Passed(t)

LEMMA RunsBorn == ASSUME NEW t \in Tasks, Runs(t) PROVE t \in Born
  BY DEF Runs, Syscall, Calls, GoesOn, Local, AtRest, CanRun

LEMMA OpsDiffer ==
  /\ NoCall.op = NONE /\ Unborn.op = "unborn" /\ NoCall # Unborn
  /\ \A op \in {"read", "write"} : \A e, size, sz, buf :
       InCall(op, e, size, sz, buf) # NoCall /\ InCall(op, e, size, sz, buf) # Unborn
<1>1. NoCall.op = NONE /\ Unborn.op = "unborn" /\ NONE = "none"
  BY DEF NoCall, Unborn, NONE
<1>2. \A op, e, size, sz, buf : InCall(op, e, size, sz, buf).op = op
  BY DEF InCall
<1> QED BY <1>1, <1>2

LEMMA SignalStep ==
  ASSUME Arrays, Wires, NEW t \in Tasks, InFlight(t), Runs(t), Instr(t)[1] = "signal",
         NEW name \in DOMAIN ends, Instr(t)[2] = name,
         NEW size \in Nat \ {0}, Instr(t)[3] = size
  PROVE  Elsewhere(t) /\ UNCHANGED OwnButProc /\ Born' = Born /\ Signalled(t, name, size)
<1>1. t \in Born /\ Wired(name)
  BY RunsBorn DEF Wires
<1>2. PICK c : /\ OnPipe(t, c) /\ c.op = "write" /\ c.end = ends[name].write
               /\ c.size = size /\ c.sz = Done(t)
  <2>1. CASE Calls(t)
    <3>1. Len(Blank(size)) = size
      BY DEF Blank
    <3> DEFINE c == Call("write", ends[name].write, Blank(size))
    <3>2. OnPipe(t, c)
      BY <2>1 DEF Calls
    <3>3. call[t] = NoCall
      BY <2>1 DEF Calls, AtRest
    <3>4. c.op = "write" /\ c.end = ends[name].write /\ c.size = size /\ c.sz = 0
      BY <3>1 DEF Call, InCall
    <3> QED BY <3>2, <3>3, <3>4 DEF Done
  <2>2. CASE GoesOn(t)
    <3>1. OnPipe(t, call[t]) /\ call[t].op \in {"read", "write"}
      BY <2>2 DEF GoesOn
    <3>2. call[t].op = "write"
      BY <3>1 DEF InFlight
    <3>3. call[t] # NoCall
      BY <3>2, OpsDiffer DEF NONE
    <3> QED BY <3>1, <3>2, <3>3 DEF InFlight, Done
  <2>3. ~ Syscall(t)
    BY DEF Syscall, Open, Forks, Closes, Exits, Try, Getch, WaitsForKey
  <2>4. ~ Local(t)
    BY DEF Local, Works, WorksOnPage
  <2> QED BY <2>1, <2>2, <2>3, <2>4 DEF Runs
<1>3. Done(t) \in 0 .. size - 1
  BY OpsDiffer, <1>1 DEF InFlight, Done, NONE, Born
<1>4. PICK k \in 0 .. size - Done(t) :
        Tokens(name) + k \in 0 .. BUFFER_SIZE /\ Shift(name, k) /\ Goes(t, c, k)
  <2>1. Loop(t, c) /\ Born # {}
    BY <1>1, <1>2 DEF OnPipe
  <2>2. c.size \in Nat /\ c.sz \in 0 .. c.size - 1
    BY <1>2, <1>3
  <2>3. \E k \in 0 .. c.size - c.sz :
          Tokens(name) + k \in 0 .. BUFFER_SIZE /\ Shift(name, k) /\ Goes(t, c, k)
    BY <1>1, <1>2, <2>1, <2>2, SignalMoves
  <2> QED BY <1>2, <2>3
<1>5. UNCHANGED OwnButProc
  BY <1>2 DEF OnPipe, OwnButProc
<1>6. CASE k = size - Done(t)
  <2>1. call' = [call EXCEPT ![t] = NoCall]
    BY <1>2, <1>4, <1>6 DEF Goes
  <2>2. proc' = [proc EXCEPT ![t] = [proc[t] EXCEPT !.pc = @ + 1]]
    BY <1>2, <2>1 DEF OnPipe, Become, Jumped, Arrays
  <2>3. Elsewhere(t) /\ Passed(t)
    BY <2>1, <2>2 DEF Elsewhere, Passed, Arrays
  <2>4. Born' = Born
    BY <1>1, <2>1, OpsDiffer DEF Born, Arrays, NONE
  <2> QED BY <1>4, <1>5, <1>6, <2>3, <2>4 DEF Signalled
<1>7. CASE k # size - Done(t)
  <2> DEFINE d == InCall("write", c.end, size, Done(t) + k, c.buf)
  <2>1. call' = [call EXCEPT ![t] = d]
    BY <1>2, <1>4, <1>7 DEF Goes
  <2>2. /\ d.op = "write" /\ d.end = ends[name].write /\ d.size = size /\ d.sz = Done(t) + k
        /\ d # NoCall /\ d # Unborn
    BY <1>2, OpsDiffer DEF InCall
  <2> HIDE DEF d
  <2>3. proc' = proc
    BY <1>2, <2>1, <2>2 DEF OnPipe, Arrays
  <2>4. Elsewhere(t) /\ call'[t] = d /\ proc'[t] = proc[t]
    BY <2>1, <2>3 DEF Elsewhere, Arrays
  <2>5. Born' = Born
    BY <1>1, <2>1, <2>2 DEF Born, Arrays
  <2>6. k < size - Done(t)
    BY <1>3, <1>4, <1>7
  <2> QED BY <1>4, <1>5, <2>2, <2>4, <2>5, <2>6 DEF Signalled
<1> QED BY <1>6, <1>7

LEMMA WaitStep ==
  ASSUME Arrays, Wires, NEW t \in Tasks, InFlight(t), Runs(t), Instr(t)[1] = "wait",
         NEW name \in DOMAIN ends, Instr(t)[2] = name
  PROVE  Elsewhere(t) /\ UNCHANGED OwnButProc /\ Born' = Born /\ Waited(t, name)
<1>1. t \in Born /\ Wired(name)
  BY RunsBorn DEF Wires
<1>2. PICK c : /\ OnPipe(t, c) /\ c.op = "read" /\ c.end = ends[name].read
               /\ c.size = 1 /\ c.sz = 0
  <2>1. CASE Calls(t)
    <3>1. Len(Blank(1)) = 1
      BY DEF Blank
    <3> DEFINE c == Call("read", ends[name].read, Blank(1))
    <3>2. OnPipe(t, c)
      BY <2>1 DEF Calls
    <3>4. c.op = "read" /\ c.end = ends[name].read /\ c.size = 1 /\ c.sz = 0
      BY <3>1 DEF Call, InCall
    <3> QED BY <3>2, <3>4
  <2>2. CASE GoesOn(t)
    <3>1. OnPipe(t, call[t]) /\ call[t].op \in {"read", "write"}
      BY <2>2 DEF GoesOn
    <3>2. call[t].op = "read"
      BY <3>1 DEF InFlight
    <3> QED BY <3>1, <3>2 DEF InFlight
  <2>3. ~ Syscall(t)
    BY DEF Syscall, Open, Forks, Closes, Exits, Try, Getch, WaitsForKey
  <2>4. ~ Local(t)
    BY DEF Local, Works, WorksOnPage
  <2> QED BY <2>1, <2>2, <2>3, <2>4 DEF Runs
<1>3. Loop(t, c) /\ Born # {}
  BY <1>1, <1>2 DEF OnPipe
<1>4. /\ Tokens(name) \in 0 .. BUFFER_SIZE
      /\ IF Tokens(name) = 0
         THEN /\ Shift(name, 0)
              /\ call' = [call EXCEPT ![t] =
                            InCall("read", c.end, 1, 0, CopiedOut(c.end, 0, c.buf))]
         ELSE Shift(name, -1) /\ call' = [call EXCEPT ![t] = NoCall]
  BY <1>1, <1>2, <1>3, WaitMoves
<1>5. UNCHANGED OwnButProc
  BY <1>2 DEF OnPipe, OwnButProc
<1>6. CASE Tokens(name) # 0
  <2>1. call' = [call EXCEPT ![t] = NoCall] /\ Shift(name, -1)
    BY <1>4, <1>6
  <2>2. proc' = [proc EXCEPT ![t] = [proc[t] EXCEPT !.pc = @ + 1]]
    BY <1>2, <2>1 DEF OnPipe, Become, Jumped, Arrays
  <2>3. Elsewhere(t) /\ Passed(t)
    BY <2>1, <2>2 DEF Elsewhere, Passed, Arrays
  <2>4. Born' = Born
    BY <1>1, <2>1, OpsDiffer DEF Born, Arrays, NONE
  <2>5. Tokens(name) > 0 /\ Tokens(name) - 1 \in 0 .. BUFFER_SIZE
    BY <1>4, <1>6, Size
  <2> QED BY <1>5, <2>1, <2>3, <2>4, <2>5 DEF Waited
<1>7. CASE Tokens(name) = 0
  <2> DEFINE d == InCall("read", c.end, 1, 0, CopiedOut(c.end, 0, c.buf))
  <2>1. call' = [call EXCEPT ![t] = d] /\ Shift(name, 0)
    BY <1>4, <1>7
  <2>2. /\ d.op = "read" /\ d.end = ends[name].read /\ d.size = 1 /\ d.sz = 0
        /\ d # NoCall /\ d # Unborn
    BY <1>2, OpsDiffer DEF InCall
  <2> HIDE DEF d
  <2>3. proc' = proc
    BY <1>2, <2>1, <2>2 DEF OnPipe, Arrays
  <2>4. Elsewhere(t) /\ call'[t] = d /\ proc'[t] = proc[t]
    BY <2>1, <2>3 DEF Elsewhere, Arrays
  <2>5. Born' = Born
    BY <1>1, <2>1, <2>2 DEF Born, Arrays
  <2> QED BY <1>5, <1>7, <2>1, <2>2, <2>4, <2>5 DEF Waited
<1> QED BY <1>6, <1>7

Alone == {"read page", "set size", "get size", "encrypt page", "send page"}

LEMMA LocalStep ==
  ASSUME Arrays, NEW t \in Tasks, InFlight(t), Runs(t),
         Instr(t)[1] \in Alone \cup {"next page", "try", "getch"}
  PROVE  /\ Elsewhere(t) /\ UNCHANGED <<program, ends, vars>>
         /\ Instr(t)[1] \notin {"try", "getch"} =>
              Local(t) /\ WorksOnPage(t) /\ UNCHANGED failed
         /\ Instr(t)[1] \in {"try", "getch"} =>
              /\ UNCHANGED <<pages, sizes, offset, sent>>
              /\ \/ proc'[t] = [proc[t] EXCEPT !.pc = proc[t].pc + 1]
                 \/ /\ Instr(t)[1] = "try"
                    /\ proc'[t] = [proc[t] EXCEPT !.pc = Instr(t)[3]]
         /\ {"pc", "i", "sz", "n", "buffer"} \subseteq DOMAIN proc'[t]
<1>1. ~ Calls(t)
  BY DEF Calls, Alone
<1>2. ~ GoesOn(t)
  BY DEF GoesOn, InFlight, Alone
<1>3. CASE Instr(t)[1] = "try"
  <2>1. Try(t)
    BY <1>1, <1>2, <1>3
    DEF Runs, Syscall, Open, Forks, Closes, Exits, Getch, WaitsForKey, Local, Works, WorksOnPage
  <2>2. /\ UNCHANGED <<program, ends, vars, pages, sizes, offset, sent>>
        /\ \/ proc' = [proc EXCEPT ![t].pc = proc[t].pc + 1]
           \/ proc' = [proc EXCEPT ![t].pc = Instr(t)[3]]
    BY <2>1 DEF Try, Goto, Step1, Pipeless
  <2>3. call' = call
    BY <2>2 DEF vars
  <2> QED BY <1>3, <2>2, <2>3 DEF Elsewhere, Arrays
<1>4. CASE Instr(t)[1] \notin {"try", "getch"}
  <2>1. ~ Syscall(t)
    BY <1>4 DEF Syscall, Open, Forks, Closes, Exits, Try, Getch, WaitsForKey, Alone
  <2>2. Local(t)
    BY <1>1, <1>2, <2>1 DEF Runs
  <2>3. ~ Works(t)
    BY <1>4 DEF Works, Alone
  <2>4. WorksOnPage(t) /\ UNCHANGED <<program, ends, failed, vars>>
    BY <2>2, <2>3 DEF Local, Pipeless
  <2>5. \E p : /\ proc' = [proc EXCEPT ![t] = p]
               /\ {"pc", "i", "sz", "n", "buffer"} \subseteq DOMAIN p
    <3>1. {"pc", "i", "sz", "n", "buffer"} \subseteq DOMAIN proc[t]
      BY DEF Arrays
    <3>2. \A f, v : DOMAIN [proc[t] EXCEPT ![f] = v] = DOMAIN proc[t]
      OBVIOUS
    <3>3. CASE Instr(t)[1] = "read page"
      <4> DEFINE p == [proc[t] EXCEPT !.sz = Len(NextPage), !.pc = @ + 1]
      <4>1. proc' = [proc EXCEPT ![t] = p]
        BY <2>4, <3>3 DEF WorksOnPage, Become
      <4>2. {"pc", "i", "sz", "n", "buffer"} \subseteq DOMAIN p
        BY <3>1
      <4> QED BY <4>1, <4>2
    <3>4. CASE Instr(t)[1] = "set size"
      <4> DEFINE p == [proc[t] EXCEPT !.pc = proc[t].pc + 1]
      <4>1. proc' = [proc EXCEPT ![t].pc = proc[t].pc + 1]
        BY <2>4, <3>4 DEF WorksOnPage, Goto, Step1
      <4>2. proc' = [proc EXCEPT ![t] = p]
        BY <4>1
      <4>3. {"pc", "i", "sz", "n", "buffer"} \subseteq DOMAIN p
        BY <3>1
      <4> QED BY <4>2, <4>3
    <3>5. CASE Instr(t)[1] = "get size"
      <4> DEFINE p == [proc[t] EXCEPT !.sz = sizes[proc[t].i], !.pc = @ + 1]
      <4>1. proc' = [proc EXCEPT ![t] = p]
        BY <2>4, <3>5 DEF WorksOnPage, Become
      <4>2. {"pc", "i", "sz", "n", "buffer"} \subseteq DOMAIN p
        BY <3>1
      <4> QED BY <4>1, <4>2
    <3>6. CASE Instr(t)[1] = "encrypt page"
      <4> DEFINE p == [proc[t] EXCEPT !.n = @ + proc[t].sz, !.pc = @ + 1]
      <4>1. proc' = [proc EXCEPT ![t] = p]
        BY <2>4, <3>6 DEF WorksOnPage, Become
      <4>2. {"pc", "i", "sz", "n", "buffer"} \subseteq DOMAIN p
        BY <3>1
      <4> QED BY <4>1, <4>2
    <3>7. CASE Instr(t)[1] = "send page"
      <4> DEFINE p == [proc[t] EXCEPT !.n = @ + 1]
                 q == [proc[t] EXCEPT !.n = 0, !.pc = @ + 1]
      <4>1. proc' = [proc EXCEPT ![t] = p] \/ proc' = [proc EXCEPT ![t] = q]
        BY <2>4, <3>7 DEF WorksOnPage, Become
      <4>2. /\ {"pc", "i", "sz", "n", "buffer"} \subseteq DOMAIN p
            /\ {"pc", "i", "sz", "n", "buffer"} \subseteq DOMAIN q
        BY <3>1
      <4> QED BY <4>1, <4>2
    <3>8. CASE Instr(t)[1] = "next page"
      <4> DEFINE p == [proc[t] EXCEPT !.pc = @ + 1]
                 q == [proc[t] EXCEPT !.i = (@ + 1) % BUFFER_PAGES, !.pc = Instr(t)[2]]
      <4>1. proc' = [proc EXCEPT ![t] = p] \/ proc' = [proc EXCEPT ![t] = q]
        BY <2>4, <3>8 DEF WorksOnPage, Become
      <4>2. /\ {"pc", "i", "sz", "n", "buffer"} \subseteq DOMAIN p
            /\ {"pc", "i", "sz", "n", "buffer"} \subseteq DOMAIN q
        BY <3>1
      <4> QED BY <4>1, <4>2
    <3> QED BY <1>4, <3>3, <3>4, <3>5, <3>6, <3>7, <3>8 DEF Alone
  <2>6. call' = call
    BY <2>4 DEF vars
  <2> QED BY <1>4, <2>2, <2>4, <2>5, <2>6 DEF Elsewhere, Arrays
<1>5. CASE Instr(t)[1] = "getch"
  <2>1. Getch(t)
    BY <1>1, <1>2, <1>5
    DEF Runs, Syscall, Open, Forks, Closes, Exits, Try, Local, Works, WorksOnPage
  <2>2. /\ UNCHANGED <<program, ends, vars, pages, sizes, offset, sent>>
        /\ proc' = [proc EXCEPT ![t].pc = proc[t].pc + 1]
    BY <2>1 DEF Getch, Goto, Step1, Pipeless
  <2>3. call' = call
    BY <2>2 DEF vars
  <2> QED BY <1>5, <2>2, <2>3 DEF Elsewhere, Arrays
<1> QED BY <1>3, <1>4, <1>5

(* The semaphores are left alone by a step that does not touch a pipe. *)
LEMMA PipelessKeeps ==
  ASSUME Wires, UNCHANGED <<ends, vars>>
  PROVE  /\ Wires' /\ Born' = Born
         /\ \A m \in SemNames : Pending(m)' = Pending(m)
<1>1. UNCHANGED <<klass, pair, bytes_available, fds, call>>
  BY DEF vars, endpoints
<1>2. Born' = Born
  BY <1>1 DEF Born
<1> QED BY <1>1, <1>2 DEF Wires, Wired, EndsOf, AllEnds, Pending, Tokens

LEMMA ForkStep ==
  ASSUME Arrays, Wires, Calling, NEW t \in Tasks, Runs(t),
         Instr(t)[1] = "fork", NEW child \in Tasks, Instr(t)[2] = child
  PROVE  /\ proc' = [proc EXCEPT ![t].pc = proc[t].pc + 1]
         /\ call' = [call EXCEPT ![child] = NoCall]
         /\ child \notin Born /\ Born' = Born \cup {child}
         /\ UNCHANGED <<program, ends, pages, sizes, offset, failed, sent>>
         /\ Wires' /\ \A m \in SemNames : Pending(m)' = Pending(m)
         /\ t \in Born /\ Arrays'
<1>1. ~ Calls(t)
  BY DEF Calls
<1>2. ~ GoesOn(t)
  BY DEF GoesOn, InFlight, Calling
<1>3. Forks(t)
  BY <1>1, <1>2 DEF Runs, Syscall, Open, Closes, Exits, Try, Getch, WaitsForKey, Local, Works, WorksOnPage
<1>4. /\ proc' = [proc EXCEPT ![t].pc = proc[t].pc + 1]
      /\ call' = [call EXCEPT ![child] = NoCall]
      /\ fds' = [fds EXCEPT ![child] = fds[t]]
      /\ child \notin Born /\ t \in Born
      /\ UNCHANGED <<klass, pair, bytes_available>>
      /\ UNCHANGED <<program, ends, pages, sizes, offset, failed, sent>>
  BY <1>3, RunsBorn DEF Forks, Fork, Goto, Step1, endpoints
<1>5. Born' = Born \cup {child}
  BY <1>4, OpsDiffer DEF Born, Arrays, NONE
<1>6. Wires'
  <2>1. \A m \in DOMAIN ends : Wired(m)'
    BY <1>4, <1>5 DEF Wires, Wired
  <2>2. fds'[child] = fds[t] /\ \A u \in Tasks \ {child} : fds'[u] = fds[u]
    BY <1>4 DEF Arrays
  <2>3. AllEnds' = AllEnds
    BY <1>4 DEF AllEnds, EndsOf
  <2>4. \A u \in Born' : fds'[u] = AllEnds'
    BY <1>4, <1>5, <2>2, <2>3 DEF Wires, Born
  <2> QED BY <1>4, <2>1, <2>4 DEF Wires, EndsOf
<1>7. \A m \in SemNames : Pending(m)' = Pending(m)
  BY <1>4 DEF Pending, Tokens
<1>8. Arrays'
  BY <1>4 DEF Arrays
<1> QED BY <1>4, <1>5, <1>6, <1>7, <1>8

LEMMA ExitStep ==
  ASSUME Arrays, Wires, Calling, NEW t \in Tasks, Runs(t), Instr(t)[1] = "exit"
  PROVE  /\ UNCHANGED own
         /\ call' = [call EXCEPT ![t] = Unborn]
         /\ Born' = Born \ {t}
         /\ Wires' /\ \A m \in SemNames : Pending(m)' = Pending(m)
         /\ t \in Born /\ Arrays'
<1>1. ~ Calls(t)
  BY DEF Calls
<1>2. ~ GoesOn(t)
  BY DEF GoesOn, InFlight, Calling
<1>3. Exits(t)
  BY <1>1, <1>2 DEF Runs, Syscall, Open, Closes, Forks, Try, Getch, WaitsForKey, Local, Works, WorksOnPage
<1> DEFINE gone == {e \in fds[t] : \A o \in Tasks \ {t} : e \notin fds[o]}
<1>4. /\ call' = [call EXCEPT ![t] = Unborn]
      /\ fds' = [fds EXCEPT ![t] = @ \ fds[t]]
      /\ klass' = [e \in Endpoints |-> IF e \in gone THEN NONE ELSE klass[e]]
      /\ t \in Born
      /\ UNCHANGED <<pair, bytes_available>>
      /\ UNCHANGED own
  BY <1>3, RunsBorn DEF Exits, Exit, CloseAll, pipe_flush
<1>5. Born' = Born \ {t}
  BY <1>4, OpsDiffer DEF Born, Arrays
<1>6. UNCHANGED <<program, proc, ends>>
  BY <1>4 DEF own
<1>7. Wires'
  <2>1. ASSUME NEW o \in Born \ {t} PROVE gone = {}
    BY <1>4, <2>1 DEF Wires, Born
  <2> HIDE DEF gone
  <2>2. Born' # {} => \A e \in Endpoints : klass'[e] = klass[e]
    BY <1>4, <1>5, <2>1
  <2>3. ASSUME NEW m \in DOMAIN ends PROVE Wired(m)'
    <3>1. Wired(m)
      BY DEF Wires
    <3>2. Born' # {} => Born # {}
      BY <1>5
    <3> QED BY <1>4, <1>6, <2>2, <3>1, <3>2 DEF Wired
  <2>4. \A u \in Tasks \ {t} : fds'[u] = fds[u]
    BY <1>4 DEF Arrays
  <2>5. AllEnds' = AllEnds
    BY <1>6 DEF AllEnds, EndsOf
  <2>6. \A u \in Born' : fds'[u] = AllEnds'
    BY <1>5, <2>4, <2>5 DEF Wires, Born
  <2> QED BY <1>6, <2>3, <2>6 DEF Wires, EndsOf
<1>8. \A m \in SemNames : Pending(m)' = Pending(m)
  BY <1>4, <1>6 DEF Pending, Tokens
<1>9. Arrays'
  BY <1>4, <1>6 DEF Arrays
<1> QED BY <1>4, <1>5, <1>7, <1>8, <1>9

LEMMA OpenStep ==
  ASSUME Arrays, Wires, Calling, NEW t \in Tasks, Born = {t}, Runs(t),
         Instr(t)[1] = "pipe", NEW name \in SemNames, Instr(t)[2] = name,
         name \notin DOMAIN ends
  PROVE  /\ proc' = [proc EXCEPT ![t].pc = proc[t].pc + 1]
         /\ UNCHANGED <<call, program, pages, sizes, offset, failed, sent>>
         /\ DOMAIN ends' = DOMAIN ends \cup {name}
         /\ \A m \in DOMAIN ends : ends'[m] = ends[m]
         /\ Wires' /\ \A m \in SemNames : Pending(m)' = Pending(m)
         /\ Arrays'
<1>1. ~ Calls(t)
  BY DEF Calls
<1>2. ~ GoesOn(t)
  BY DEF GoesOn, InFlight, Calling
<1>3. Open(t)
  BY <1>1, <1>2 DEF Runs, Syscall, Exits, Closes, Forks, Try, Getch, WaitsForKey, Local, Works, WorksOnPage
<1>4. PICK in \in FreeEndpoints, out \in FreeEndpoints, f \in free :
        in < out /\ init_endpoints(in, out, f) /\ fds' = [fds EXCEPT ![t] = @ \cup {in, out}]
  BY <1>3 DEF Open, OpenPipe
<1>5. /\ in \in Endpoints /\ out \in Endpoints /\ klass[in] = NONE /\ klass[out] = NONE
      /\ in \in Int /\ out \in Int /\ in < out
  BY <1>4 DEF FreeEndpoints, Endpoints
<1>6. \A m \in DOMAIN ends : EndsOf(m) \cap {in, out} = {} /\ EndsOf(m) \subseteq Endpoints
  BY <1>5 DEF Wires, Wired, EndsOf, NONE
<1>7. fds[t] = AllEnds /\ AllEnds \cap {in, out} = {}
  BY <1>6 DEF Wires, AllEnds
<1> DEFINE new == fds'[t] \ fds[t]
<1>8. new = {in, out}
  BY <1>4, <1>7 DEF Arrays
<1>9. (CHOOSE e \in new : \A g \in new : e <= g) = in
  <2> DEFINE Q(e) == \A g \in new : e <= g
  <2>1. in \in new /\ Q(in)
    BY <1>5, <1>8
  <2>2. \A e \in new : Q(e) => e = in
    BY <1>5, <1>8
  <2> HIDE DEF new, Q
  <2>3. (CHOOSE e \in new : Q(e)) = in
    BY <2>1, <2>2
  <2> QED BY <2>3 DEF Q
<1>10. (CHOOSE e \in new : e # in) = out
  <2> DEFINE Q(e) == e # in
  <2>1. out \in new /\ Q(out)
    BY <1>5, <1>8
  <2>2. \A e \in new : Q(e) => e = out
    BY <1>5, <1>8
  <2> HIDE DEF new, Q
  <2>3. (CHOOSE e \in new : Q(e)) = out
    BY <2>1, <2>2
  <2> QED BY <2>3 DEF Q
<1>11. ends' = [m \in DOMAIN ends \cup {name} |->
                 IF m # name THEN ends[m] ELSE [read |-> in, write |-> out]]
  <2>1. LET i == CHOOSE e \in new : \A g \in new : e <= g
        IN  ends' = [m \in DOMAIN ends \cup {name} |->
                      IF m # name THEN ends[m]
                      ELSE [read |-> i, write |-> CHOOSE e \in new : e # i]]
    BY <1>3 DEF Open
  <2> HIDE DEF new
  <2> QED BY <2>1, <1>9, <1>10
<1>12. /\ DOMAIN ends' = DOMAIN ends \cup {name}
       /\ \A m \in DOMAIN ends : ends'[m] = ends[m]
       /\ ends'[name].read = in /\ ends'[name].write = out
  BY <1>11
<1>13. /\ proc' = [proc EXCEPT ![t].pc = proc[t].pc + 1]
       /\ UNCHANGED <<call, program, pages, sizes, offset, failed, sent>>
  BY <1>3 DEF Open, OpenPipe, Goto, Step1
<1>14. /\ klass' = [klass EXCEPT ![in] = "read", ![out] = "write"]
       /\ pair'  = [pair  EXCEPT ![in] = out,    ![out] = in]
       /\ bytes_available' = [bytes_available EXCEPT ![in] = 0, ![out] = 0]
  BY <1>4 DEF init_endpoints
<1>15. Arrays'
  BY <1>4, <1>13, <1>14 DEF Arrays
<1>16. ASSUME NEW m \in DOMAIN ends'
       PROVE  /\ Wired(m)'
              /\ m # name => EndsOf(m)' = EndsOf(m) /\ Tokens(m)' = Tokens(m)
  <2>1. CASE m = name
    BY <1>5, <1>12, <1>14, <2>1, Size DEF Wired, Arrays
  <2>2. CASE m # name
    <3>1. m \in DOMAIN ends /\ ends'[m] = ends[m] /\ Wired(m) /\ EndsOf(m) \cap {in, out} = {}
      BY <1>6, <1>12, <2>2 DEF Wires
    <3>2. Born # {}
      OBVIOUS
    <3> QED BY <1>5, <1>14, <3>1, <3>2 DEF Wired, EndsOf, Tokens, Arrays
  <2> QED BY <2>1, <2>2
<1>17. EndsOf(name)' = {in, out} /\ Tokens(name)' = 0
  BY <1>5, <1>12, <1>14 DEF EndsOf, Tokens, Arrays
<1>18. AllEnds' = AllEnds \cup {in, out}
  BY <1>12, <1>16, <1>17 DEF AllEnds
<1>19. Wires'
  <2>1. \A m, n \in DOMAIN ends' : m # n => EndsOf(m)' \cap EndsOf(n)' = {}
    BY <1>6, <1>12, <1>16, <1>17 DEF Wires
  <2>2. Born' = Born
    BY <1>13 DEF Born
  <2>3. \A u \in Born' : fds'[u] = AllEnds'
    BY <1>4, <1>7, <1>18, <2>2 DEF Arrays
  <2> QED BY <1>16, <2>1, <2>3 DEF Wires
<1>20. \A m \in SemNames : Pending(m)' = Pending(m)
  BY <1>12, <1>16, <1>17 DEF Pending
<1> QED BY <1>12, <1>13, <1>15, <1>19, <1>20

-----------------------------------------------------------------------------
Alike == /\ Arrays' /\ Wires' /\ Calling' /\ program' = "memkrypt"

LEMMA CallsKept ==
  ASSUME Calling, NEW t \in Tasks, Elsewhere(t), UNCHANGED <<program, ends>>, InFlight(t)'
  PROVE  Calling'
<1> SUFFICES ASSUME NEW u \in Tasks \ {t} PROVE InFlight(u)'
  BY DEF Calling
<1>1. call'[u] = call[u] /\ proc'[u] = proc[u] /\ InFlight(u)
  BY DEF Elsewhere, Calling
<1>2. Instr(u)' = Instr(u)
  BY <1>1 DEF Instr, Code
<1> QED BY <1>1, <1>2 DEF InFlight

LEMMA ArraysKept ==
  ASSUME Arrays, NEW t \in Tasks, Elsewhere(t),
         DOMAIN klass' = Endpoints, DOMAIN pair' = Endpoints,
         DOMAIN bytes_available' = Endpoints,
         DOMAIN fds' = Tasks, {"pc", "i", "sz", "n", "buffer"} \subseteq DOMAIN proc'[t]
  PROVE  Arrays'
  BY DEF Arrays, Elsewhere

(* The process passes the instruction, and does nothing else. *)
GoesOver(t) ==
  /\ Done(t)' = 0 /\ Pc(t)' = Pc(t) + 1
  /\ Idx(t)' = Idx(t) /\ Num(t)' = Num(t) /\ Siz(t)' = Siz(t)

LEMMA SignalKeeps ==
  ASSUME Arrays, Wires, Calling, program = "memkrypt", NEW t \in Tasks, Runs(t),
         Instr(t)[1] = "signal", NEW name \in DOMAIN ends, Instr(t)[2] = name,
         NEW size \in Nat \ {0}, Instr(t)[3] = size
  PROVE  /\ Alike /\ Elsewhere(t) /\ UNCHANGED OwnButProc /\ Born' = Born
         /\ Done(t) \in 0 .. size - 1
         /\ \E k \in 0 .. size - Done(t) :
              /\ Pending(name)' = Pending(name) + k
              /\ \A m \in SemNames \ {name} : Pending(m)' = Pending(m)
              /\ \/ k = size - Done(t) /\ GoesOver(t)
                 \/ /\ k < size - Done(t) /\ Done(t)' = Done(t) + k
                    /\ proc'[t] = proc[t] /\ Pc(t)' = Pc(t) /\ Idx(t)' = Idx(t)
<1>1. InFlight(t)
  BY DEF Calling
<1>2. Elsewhere(t) /\ UNCHANGED OwnButProc /\ Born' = Born /\ Signalled(t, name, size)
  BY <1>1, SignalStep
<1>3. Done(t) \in 0 .. size - 1
  BY OpsDiffer, RunsBorn, <1>1 DEF InFlight, Done, NONE, Born
<1>4. PICK k \in 0 .. size - Done(t) :
         /\ Tokens(name) + k \in 0 .. BUFFER_SIZE /\ Shift(name, k)
         /\ \/ k = size - Done(t) /\ Passed(t)
            \/ /\ k < size - Done(t)
               /\ proc'[t] = proc[t]
               /\ call'[t].op = "write" /\ call'[t].end = ends[name].write
               /\ call'[t].size = size /\ call'[t].sz = Done(t) + k
  BY <1>2 DEF Signalled
<1>5. UNCHANGED <<program, ends>>
  BY <1>2 DEF OwnButProc
<1>6. k \in Int
  BY <1>3
<1>7. Wires' /\ Pending(name)' = Pending(name) + k
      /\ \A m \in SemNames \ {name} : Pending(m)' = Pending(m)
  BY <1>2, <1>4, <1>5, <1>6, ShiftKeeps
<1>8. CASE k = size - Done(t) /\ Passed(t)
  <2>1. GoesOver(t) /\ {"pc", "i", "sz", "n", "buffer"} \subseteq DOMAIN proc'[t]
    BY <1>8 DEF Passed, GoesOver, Arrays, Done, Pc, Idx, Num, Siz
  <2>2. InFlight(t)'
    BY <1>8, OpsDiffer DEF Passed, InFlight, NONE
  <2>3. Calling'
    BY <1>2, <1>5, <2>2, CallsKept
  <2>4. Arrays'
    BY <1>2, <1>4, <2>1, ArraysKept DEF Shift, Arrays
  <2> QED BY <1>2, <1>3, <1>4, <1>5, <1>7, <1>8, <2>1, <2>3, <2>4 DEF Alike
<1>9. CASE /\ k < size - Done(t)
           /\ proc'[t] = proc[t]
           /\ call'[t].op = "write" /\ call'[t].end = ends[name].write
           /\ call'[t].size = size /\ call'[t].sz = Done(t) + k
  <2>1. Instr(t)' = Instr(t)
    BY <1>5, <1>9 DEF Instr, Code
  <2>2. InFlight(t)'
    BY <1>3, <1>4, <1>5, <1>9, <2>1 DEF InFlight
  <2>3. Calling'
    BY <1>2, <1>5, <2>2, CallsKept
  <2>4. Arrays'
    BY <1>2, <1>4, <1>9, ArraysKept DEF Shift, Arrays
  <2>5. Done(t)' = Done(t) + k /\ Pc(t)' = Pc(t) /\ Idx(t)' = Idx(t)
    BY <1>9, OpsDiffer DEF Done, Pc, Idx, NONE
  <2> QED BY <1>2, <1>3, <1>4, <1>5, <1>7, <1>9, <2>3, <2>4, <2>5 DEF Alike
<1> QED BY <1>4, <1>8, <1>9

LEMMA WaitKeeps ==
  ASSUME Arrays, Wires, Calling, program = "memkrypt", NEW t \in Tasks, Runs(t),
         Instr(t)[1] = "wait", NEW name \in DOMAIN ends, Instr(t)[2] = name
  PROVE  /\ Alike /\ Elsewhere(t) /\ UNCHANGED OwnButProc /\ Born' = Born
         /\ \A m \in SemNames \ {name} : Pending(m)' = Pending(m)
         /\ \/ Pending(name)' = Pending(name) - 1 /\ GoesOver(t)
            \/ /\ Pending(name)' = Pending(name)
               /\ proc'[t] = proc[t] /\ Pc(t)' = Pc(t) /\ Idx(t)' = Idx(t)
<1>1. InFlight(t)
  BY DEF Calling
<1>2. Elsewhere(t) /\ UNCHANGED OwnButProc /\ Born' = Born /\ Waited(t, name)
  BY <1>1, WaitStep
<1>3. UNCHANGED <<program, ends>>
  BY <1>2 DEF OwnButProc
<1>4. Wired(name)
  BY DEF Wires
<1>5. CASE /\ Tokens(name) > 0 /\ Tokens(name) - 1 \in 0 .. BUFFER_SIZE /\ Shift(name, -1)
           /\ Passed(t)
  <2>0. Tokens(name) + (-1) \in 0 .. BUFFER_SIZE
    BY <1>4, <1>5, Size DEF Wired, Tokens
  <2>1. Wires' /\ Pending(name)' = Pending(name) + (-1)
        /\ \A m \in SemNames \ {name} : Pending(m)' = Pending(m)
    BY <1>2, <1>3, <1>5, <2>0, ShiftKeeps
  <2>2. GoesOver(t) /\ {"pc", "i", "sz", "n", "buffer"} \subseteq DOMAIN proc'[t]
    BY <1>5 DEF Passed, GoesOver, Arrays, Done, Pc, Idx, Num, Siz
  <2>3. InFlight(t)'
    BY <1>5, OpsDiffer DEF Passed, InFlight, NONE
  <2>4. Calling'
    BY <1>2, <1>3, <2>3, CallsKept
  <2>5. Arrays'
    BY <1>2, <1>5, <2>2, ArraysKept DEF Shift, Arrays
  <2>6. Pending(name) + (-1) = Pending(name) - 1
    BY <1>4 DEF Pending, Wired, Tokens
  <2> QED BY <1>2, <1>3, <2>1, <2>2, <2>4, <2>5, <2>6 DEF Alike
<1>6. CASE /\ Tokens(name) = 0 /\ Shift(name, 0)
           /\ proc'[t] = proc[t]
           /\ call'[t].op = "read" /\ call'[t].end = ends[name].read
           /\ call'[t].size = 1 /\ call'[t].sz = 0
  <2>0. Tokens(name) + 0 \in 0 .. BUFFER_SIZE
    BY <1>4, <1>6, Size
  <2>1. Wires' /\ Pending(name)' = Pending(name) + 0
        /\ \A m \in SemNames \ {name} : Pending(m)' = Pending(m)
    BY <1>2, <1>3, <1>6, <2>0, ShiftKeeps
  <2>2. Instr(t)' = Instr(t)
    BY <1>3, <1>6 DEF Instr, Code
  <2>3. InFlight(t)'
    BY <1>3, <1>6, <2>2 DEF InFlight
  <2>4. Calling'
    BY <1>2, <1>3, <2>3, CallsKept
  <2>5. Arrays'
    BY <1>2, <1>6, ArraysKept DEF Shift, Arrays
  <2>6. Pending(name) + 0 = Pending(name)
    BY <1>4 DEF Pending, Wired, Tokens
  <2>7. Pc(t)' = Pc(t) /\ Idx(t)' = Idx(t)
    BY <1>6 DEF Pc, Idx
  <2> QED BY <1>2, <1>3, <1>6, <2>1, <2>4, <2>5, <2>6, <2>7 DEF Alike
<1> QED BY <1>2, <1>5, <1>6 DEF Waited

(* Work on the page, an open that may fail, or the wait for a key. *)
LEMMA LocalKeeps ==
  ASSUME Arrays, Wires, Calling, program = "memkrypt", NEW t \in Tasks, Runs(t),
         Instr(t)[1] \in Alone \cup {"next page", "try", "getch"}
  PROVE  /\ Alike /\ Elsewhere(t) /\ Born' = Born /\ UNCHANGED <<program, ends, call>>
         /\ \A m \in SemNames : Pending(m)' = Pending(m)
         /\ Instr(t)[1] \in {"try", "getch"} =>
              /\ Pc(t)' = Pc(t) + 1 \/ (Instr(t)[1] = "try" /\ Pc(t)' = Instr(t)[3])
              /\ Idx(t)' = Idx(t)
         /\ Instr(t)[1] \in Alone =>
              /\ Pc(t)' = Pc(t) + 1 \/ (Instr(t)[1] = "send page" /\ Pc(t)' = Pc(t))
              /\ Idx(t)' = Idx(t)
         /\ Instr(t)[1] = "next page" =>
              \/ Pc(t)' = Pc(t) + 1
              \/ /\ Pc(t)' = Instr(t)[2]
                 /\ Idx(t)' = (Idx(t) + 1) % BUFFER_PAGES
         /\ Done(t)' = 0
<1>1. InFlight(t)
  BY DEF Calling
<1>2. /\ Elsewhere(t) /\ UNCHANGED <<program, ends, vars>>
      /\ Instr(t)[1] \notin {"try", "getch"} => WorksOnPage(t) /\ AtRest(t)
      /\ Instr(t)[1] \in {"try", "getch"} =>
           \/ proc'[t] = [proc[t] EXCEPT !.pc = proc[t].pc + 1]
           \/ /\ Instr(t)[1] = "try"
              /\ proc'[t] = [proc[t] EXCEPT !.pc = Instr(t)[3]]
      /\ {"pc", "i", "sz", "n", "buffer"} \subseteq DOMAIN proc'[t]
  BY <1>1, LocalStep DEF Local
<1>3. Wires' /\ Born' = Born /\ \A m \in SemNames : Pending(m)' = Pending(m)
  BY <1>2, PipelessKeeps
<1>4. UNCHANGED <<klass, pair, bytes_available, fds, call>>
  BY <1>2 DEF vars, endpoints
<1>5. Arrays'
  BY <1>2, <1>4, ArraysKept DEF Arrays
<1>6. call[t] = NoCall
  <2>1. CASE Instr(t)[1] \notin {"try", "getch"}
    BY <1>2, <2>1 DEF AtRest
  <2>2. CASE Instr(t)[1] \in {"try", "getch"}
    BY <1>1, <2>2, OpsDiffer, RunsBorn DEF InFlight, Born
  <2> QED BY <2>1, <2>2
<1>7. InFlight(t)'
  BY <1>4, <1>6, OpsDiffer DEF InFlight, NONE
<1>8. Calling'
  BY <1>2, <1>7, CallsKept
<1>9. {"pc", "i", "sz", "n", "buffer"} \subseteq DOMAIN proc[t] /\ t \in DOMAIN proc
  BY DEF Arrays
<1>10. Instr(t)[1] \in {"try", "getch"} =>
         /\ Pc(t)' = Pc(t) + 1 \/ (Instr(t)[1] = "try" /\ Pc(t)' = Instr(t)[3])
         /\ Idx(t)' = Idx(t)
  BY <1>2, <1>9 DEF Pc, Idx
<1>11. Instr(t)[1] \in Alone =>
         /\ Pc(t)' = Pc(t) + 1 \/ (Instr(t)[1] = "send page" /\ Pc(t)' = Pc(t))
         /\ Idx(t)' = Idx(t)
  <2>1. CASE Instr(t)[1] = "read page"
    BY <1>2, <1>9, <2>1 DEF WorksOnPage, Become, Pc, Idx
  <2>2. CASE Instr(t)[1] = "set size"
    BY <1>2, <1>9, <2>2 DEF WorksOnPage, Goto, Step1, Pc, Idx
  <2>3. CASE Instr(t)[1] = "get size"
    BY <1>2, <1>9, <2>3 DEF WorksOnPage, Become, Pc, Idx
  <2>4. CASE Instr(t)[1] = "encrypt page"
    BY <1>2, <1>9, <2>4 DEF WorksOnPage, Become, Pc, Idx
  <2>5. CASE Instr(t)[1] = "send page"
    BY <1>2, <1>9, <2>5 DEF WorksOnPage, Become, Pc, Idx
  <2> QED BY <2>1, <2>2, <2>3, <2>4, <2>5 DEF Alone
<1>12. Instr(t)[1] = "next page" =>
         \/ Pc(t)' = Pc(t) + 1
         \/ /\ Pc(t)' = Instr(t)[2]
            /\ Idx(t)' = (Idx(t) + 1) % BUFFER_PAGES
  BY <1>2, <1>9 DEF WorksOnPage, Become, Pc, Idx
<1>13. Done(t)' = 0
  BY <1>4, <1>6 DEF Done
<1> QED BY <1>2, <1>3, <1>4, <1>5, <1>8, <1>10, <1>11, <1>12, <1>13 DEF Alike

-----------------------------------------------------------------------------
(* Each process counts its page when it passes it on, and at no other step. *)
LEMMA ReadCounts ==
  ASSUME Arrays, Wires, Places, Calling, program = "memkrypt", Runs(read_proc),
         NEW first \in Nat, NEW r \in Nat, NEW e \in Nat, NEW w \in Nat,
         Counted(first, r, e, w), Turns(r, e, w)
  PROVE  /\ Alike /\ Places'
         /\ \E f, i \in Nat :
              /\ i = IF PR = 14 /\ PR' = 15 THEN r + 1 ELSE r
              /\ Counted(f, i, e, w)' /\ Turns(i, e, w)'
<1>1. read_proc \in Tasks /\ read_proc \in Born /\ Instr(read_proc) = memkrypt_read[PR]
  BY RunsBorn, MemkryptInstr, ThreeProcesses
<1>2. \A m \in SemNames : Pending(m) \in Int
  BY Size DEF Wires, Wired, Pending, Tokens
<1>3. /\ "sem_read" \in SemNames /\ "sem_encrypt" \in SemNames
      /\ "sem_write" \in SemNames /\ "mutex" \in SemNames
  BY DEF SemNames
<1>4. Elsewhere(read_proc) =>
        PE' = PE /\ Idx(encrypt_proc)' = Idx(encrypt_proc) /\ PW' = PW
        /\ Idx(write_proc)' = Idx(write_proc)
  BY ThreeProcesses DEF Elsewhere, PR, PE, PW, Pc, Idx, Done
<1>5. CASE PR \in {5, 10, 11, 12, 13}
  <2>1. /\ Alike /\ Elsewhere(read_proc) /\ UNCHANGED ends /\ Born' = Born
        /\ Idx(read_proc)' = Idx(read_proc)
        /\ \A m \in SemNames \ {"mutex"} : Pending(m)' = Pending(m)
        /\ PR' = PR \/ PR' = PR + 1
    <3>1. CASE PR \in {5, 13}
      <4>1. Instr(read_proc)[1] = "signal" /\ Instr(read_proc)[2] = "mutex"
            /\ Instr(read_proc)[3] = 1
        <5>1. CASE PR = 5
          BY <1>1, <5>1, MemkryptRead
        <5>2. CASE PR = 13
          BY <1>1, <5>2, MemkryptRead
        <5> QED BY <3>1, <5>1, <5>2
      <4>2. "mutex" \in DOMAIN ends
        BY <1>1, <3>1 DEF Places
      <4>3. /\ Alike /\ Elsewhere(read_proc) /\ UNCHANGED OwnButProc /\ Born' = Born
            /\ \A m \in SemNames \ {"mutex"} : Pending(m)' = Pending(m)
            /\ Idx(read_proc)' = Idx(read_proc)
            /\ (Pc(read_proc)' = Pc(read_proc) + 1 \/ Pc(read_proc)' = Pc(read_proc))
        BY <1>1, <4>1, <4>2, SignalKeeps DEF GoesOver
      <4> QED BY <4>3 DEF OwnButProc, PR
    <3>2. CASE PR = 11
      <4>1. Instr(read_proc)[1] = "wait" /\ Instr(read_proc)[2] = "mutex"
        BY <1>1, <3>2, MemkryptRead
      <4>2. "mutex" \in DOMAIN ends
        BY <1>1, <3>2 DEF Places
      <4>3. /\ Alike /\ Elsewhere(read_proc) /\ UNCHANGED OwnButProc /\ Born' = Born
            /\ \A m \in SemNames \ {"mutex"} : Pending(m)' = Pending(m)
            /\ Idx(read_proc)' = Idx(read_proc)
            /\ (Pc(read_proc)' = Pc(read_proc) + 1 \/ Pc(read_proc)' = Pc(read_proc))
        BY <1>1, <4>1, <4>2, WaitKeeps DEF GoesOver
      <4> QED BY <4>3 DEF OwnButProc, PR
    <3>3. CASE PR \in {10, 12}
      <4>1. Instr(read_proc)[1] \in Alone
        <5>1. CASE PR = 10
          BY <1>1, <5>1, MemkryptRead DEF Alone
        <5>2. CASE PR = 12
          BY <1>1, <5>2, MemkryptRead DEF Alone
        <5> QED BY <3>3, <5>1, <5>2
      <4>2. /\ Alike /\ Elsewhere(read_proc) /\ Born' = Born
            /\ UNCHANGED <<program, ends, call>>
            /\ \A m \in SemNames : Pending(m)' = Pending(m)
            /\ Idx(read_proc)' = Idx(read_proc)
            /\ (Pc(read_proc)' = Pc(read_proc) + 1 \/ Pc(read_proc)' = Pc(read_proc))
        BY <1>1, <4>1, LocalKeeps
      <4> QED BY <4>2 DEF PR
    <3> QED BY <1>5, <3>1, <3>2, <3>3
  <2>2. Places'
    BY <1>1, <1>4, <1>5, <2>1 DEF Places
  <2>3. Counted(first, r, e, w)'
    <3>1. /\ Pending("sem_read")' = Pending("sem_read")
          /\ Pending("sem_encrypt")' = Pending("sem_encrypt")
          /\ Pending("sem_write")' = Pending("sem_write")
      BY <1>3, <2>1
    <3> QED BY <1>2, <1>3, <1>4, <1>5, <2>1, <3>1 DEF Counted
  <2>4. Turns(r, e, w)'
    BY <1>4, <1>5, <2>1 DEF Turns
  <2>5. PR # 14
    BY <1>5
  <2> QED BY <2>1, <2>2, <2>3, <2>4, <2>5
<1>6. CASE PR = 7
  <2>1. Instr(read_proc)[1] = "try" /\ Instr(read_proc)[3] = 16
    BY <1>1, <1>6, MemkryptRead
  <2>2. /\ Alike /\ Elsewhere(read_proc) /\ Born' = Born /\ UNCHANGED <<program, ends, call>>
        /\ \A m \in SemNames : Pending(m)' = Pending(m)
        /\ Pc(read_proc)' \in {8, 16} /\ Idx(read_proc)' = Idx(read_proc)
        /\ Done(read_proc)' = 0
    <3>1. Instr(read_proc)[1] \in Alone \cup {"next page", "try", "getch"}
      BY <2>1 DEF Alone
    <3>2. /\ Alike /\ Elsewhere(read_proc) /\ Born' = Born /\ UNCHANGED <<program, ends, call>>
          /\ \A m \in SemNames : Pending(m)' = Pending(m)
          /\ Pc(read_proc)' \in {Pc(read_proc) + 1, Instr(read_proc)[3]}
          /\ Idx(read_proc)' = Idx(read_proc)
          /\ Done(read_proc)' = 0
      BY <1>1, <2>1, <3>1, LocalKeeps
    <3>3. Pc(read_proc)' \in {8, 16}
      <4>1. Pc(read_proc) = 7
        BY <1>6 DEF PR
      <4>2. Pc(read_proc)' \in {Pc(read_proc) + 1, Instr(read_proc)[3]}
            /\ Idx(read_proc)' = Idx(read_proc)
        BY <3>2
      <4> QED BY <2>1, <4>1, <4>2
    <3> QED BY <3>2, <3>3
  <2>3. PR' \in {8, 16}
    BY <2>2 DEF PR
  <2>4. Places'
    BY <1>1, <1>4, <1>6, <2>2, <2>3 DEF Places
  <2>5. Counted(first, r, e, w)'
    BY <1>2, <1>3, <1>4, <1>6, <2>2, <2>3 DEF Counted
  <2>6. Turns(r, e, w)'
    BY <1>4, <1>6, <2>2, <2>3 DEF Turns
  <2>7. PR # 14
    BY <1>6
  <2> QED BY <2>2, <2>4, <2>5, <2>6, <2>7
<1>7. CASE PR = 8
  <2>1. Instr(read_proc)[1] = "signal" /\ Instr(read_proc)[2] = "sem_read"
        /\ Instr(read_proc)[3] = BUFFER_PAGES
    BY <1>1, <1>7, MemkryptRead
  <2>2. "sem_read" \in DOMAIN ends
    BY <1>1, <1>7 DEF Places
  <2>3. /\ Alike /\ Elsewhere(read_proc) /\ UNCHANGED OwnButProc /\ Born' = Born
        /\ Done(read_proc) \in 0 .. BUFFER_PAGES - 1
        /\ \E d \in 0 .. BUFFER_PAGES - Done(read_proc) :
             /\ Pending("sem_read")' = Pending("sem_read") + d
             /\ \A m \in SemNames \ {"sem_read"} : Pending(m)' = Pending(m)
             /\ \/ d = BUFFER_PAGES - Done(read_proc) /\ GoesOver(read_proc)
                \/ /\ d < BUFFER_PAGES - Done(read_proc)
                   /\ Done(read_proc)' = Done(read_proc) + d
                   /\ Pc(read_proc)' = Pc(read_proc) /\ Idx(read_proc)' = Idx(read_proc)
    BY <1>1, <2>1, <2>2, Pages, SignalKeeps
  <2>4. Done(read_proc) = first
    BY <1>7 DEF Counted
  <2>5. PICK d \in 0 .. BUFFER_PAGES - first :
          /\ Pending("sem_read")' = Pending("sem_read") + d
          /\ \A m \in SemNames \ {"sem_read"} : Pending(m)' = Pending(m)
          /\ \/ d = BUFFER_PAGES - first /\ GoesOver(read_proc)
             \/ /\ d < BUFFER_PAGES - first /\ Done(read_proc)' = first + d
                /\ Pc(read_proc)' = Pc(read_proc) /\ Idx(read_proc)' = Idx(read_proc)
    BY <2>3, <2>4
  <2>6. UNCHANGED ends /\ Pending("sem_encrypt")' = Pending("sem_encrypt")
        /\ Pending("sem_write")' = Pending("sem_write")
    BY <1>3, <2>3, <2>5 DEF OwnButProc
  <2>7. PR' \in {8, 9} /\ Idx(read_proc)' = Idx(read_proc)
    BY <1>7, <2>5 DEF PR, GoesOver
  <2>8. Places'
    BY <1>4, <1>7, <2>3, <2>6, <2>7 DEF Places
  <2>9. first + d \in Nat /\ first + d \in 0 .. BUFFER_PAGES /\ first \in 0 .. BUFFER_PAGES
    BY <2>3, <2>4, Pages
  <2>10. Counted(first + d, r, e, w)'
    <3>1. Pending("sem_read") \in Int
      BY <2>2, Size DEF Wires, Wired, Pending, Tokens
    <3>2. CASE d = BUFFER_PAGES - first /\ GoesOver(read_proc)
      <4>1. PR' = 9
        BY <1>7, <3>2 DEF PR, GoesOver
      <4> QED BY <1>4, <1>7, <2>3, <2>5, <2>6, <2>9, <3>1, <4>1 DEF Counted
    <3>3. CASE /\ d < BUFFER_PAGES - first /\ Done(read_proc)' = first + d
               /\ Pc(read_proc)' = Pc(read_proc) /\ Idx(read_proc)' = Idx(read_proc)
      <4>1. PR' = 8
        BY <1>7, <3>3 DEF PR
      <4> QED BY <1>4, <1>7, <2>3, <2>5, <2>6, <2>9, <3>1, <3>3, <4>1 DEF Counted
    <3> QED BY <2>5, <3>2, <3>3
  <2>11. Turns(r, e, w)'
    <3>1. r = 0
      BY <1>7 DEF Turns
    <3> QED BY <1>4, <1>7, <2>3, <2>7, <3>1 DEF Turns
  <2>12. PR # 14
    BY <1>7
  <2> QED BY <2>3, <2>8, <2>9, <2>10, <2>11, <2>12
<1>8. CASE PR = 9
  <2>1. Instr(read_proc)[1] = "wait" /\ Instr(read_proc)[2] = "sem_read"
    BY <1>1, <1>8, MemkryptRead
  <2>2. "sem_read" \in DOMAIN ends
    BY <1>1, <1>8 DEF Places
  <2>3. /\ Alike /\ Elsewhere(read_proc) /\ UNCHANGED OwnButProc /\ Born' = Born
        /\ \A m \in SemNames \ {"sem_read"} : Pending(m)' = Pending(m)
        /\ \/ Pending("sem_read")' = Pending("sem_read") - 1 /\ GoesOver(read_proc)
           \/ /\ Pending("sem_read")' = Pending("sem_read")
              /\ Pc(read_proc)' = Pc(read_proc) /\ Idx(read_proc)' = Idx(read_proc)
    BY <1>1, <2>1, <2>2, WaitKeeps
  <2>4. UNCHANGED ends
    BY <2>3 DEF OwnButProc
  <2>5. PR' \in {9, 10} /\ Idx(read_proc)' = Idx(read_proc)
    BY <1>8, <2>3 DEF PR, GoesOver
  <2>6. Places'
    BY <1>4, <1>8, <2>3, <2>4, <2>5 DEF Places
  <2>7. Pending("sem_read") \in Int
    BY <2>2, Size DEF Wires, Wired, Pending, Tokens
  <2>8. Counted(first, r, e, w)'
    <3>1. CASE Pending("sem_read")' = Pending("sem_read") - 1 /\ GoesOver(read_proc)
      <4>1. PR' = 10
        BY <1>8, <3>1 DEF PR, GoesOver
      <4> QED BY <1>2, <1>3, <1>4, <1>8, <2>3, <2>7, <3>1, <4>1 DEF Counted
    <3>2. CASE Pending("sem_read")' = Pending("sem_read") /\ Pc(read_proc)' = Pc(read_proc)
      <4>1. PR' = 9
        BY <1>8, <3>2 DEF PR
      <4> QED BY <1>2, <1>3, <1>4, <1>8, <2>3, <2>7, <3>2, <4>1 DEF Counted
    <3> QED BY <2>3, <3>1, <3>2
  <2>9. Turns(r, e, w)'
    BY <1>4, <1>8, <2>3, <2>5 DEF Turns
  <2>10. PR # 14
    BY <1>8
  <2> QED BY <2>3, <2>6, <2>8, <2>9, <2>10
<1>9. CASE PR = 14
  <2>1. Instr(read_proc)[1] = "signal" /\ Instr(read_proc)[2] = "sem_encrypt"
        /\ Instr(read_proc)[3] = 1
    BY <1>1, <1>9, MemkryptRead
  <2>2. "sem_encrypt" \in DOMAIN ends
    BY <1>1, <1>9 DEF Places
  <2>3. /\ Alike /\ Elsewhere(read_proc) /\ UNCHANGED OwnButProc /\ Born' = Born
        /\ Done(read_proc) \in 0 .. 1 - 1
        /\ \E d \in 0 .. 1 - Done(read_proc) :
             /\ Pending("sem_encrypt")' = Pending("sem_encrypt") + d
             /\ \A m \in SemNames \ {"sem_encrypt"} : Pending(m)' = Pending(m)
             /\ \/ d = 1 - Done(read_proc) /\ GoesOver(read_proc)
                \/ /\ d < 1 - Done(read_proc) /\ Done(read_proc)' = Done(read_proc) + d
                   /\ Pc(read_proc)' = Pc(read_proc) /\ Idx(read_proc)' = Idx(read_proc)
    BY <1>1, <2>1, <2>2, SignalKeeps
  <2>4. /\ \A m \in SemNames \ {"sem_encrypt"} : Pending(m)' = Pending(m)
        /\ \/ Pending("sem_encrypt")' = Pending("sem_encrypt") + 1 /\ GoesOver(read_proc)
           \/ /\ Pending("sem_encrypt")' = Pending("sem_encrypt") + 0
              /\ Pc(read_proc)' = Pc(read_proc) /\ Idx(read_proc)' = Idx(read_proc)
    BY <2>3
  <2>5. UNCHANGED ends
    BY <2>3 DEF OwnButProc
  <2>6. PR' \in {14, 15} /\ Idx(read_proc)' = Idx(read_proc)
    BY <1>9, <2>4 DEF PR, GoesOver
  <2>7. Places'
    BY <1>4, <1>9, <2>3, <2>5, <2>6 DEF Places
  <2>8. Pending("sem_encrypt") \in Int
    BY <2>2, Size DEF Wires, Wired, Pending, Tokens
  <2>9. CASE Pending("sem_encrypt")' = Pending("sem_encrypt") + 1 /\ GoesOver(read_proc)
    <3>1. PR' = 15
      BY <1>9, <2>9 DEF PR, GoesOver
    <3>2. Counted(first, r + 1, e, w)'
      BY <1>2, <1>3, <1>4, <1>9, <2>3, <2>4, <2>8, <2>9, <3>1 DEF Counted
    <3>3. Turns(r + 1, e, w)'
      BY <1>4, <1>9, <2>3, <2>6, <3>1 DEF Turns
    <3> QED BY <1>9, <2>3, <2>7, <3>1, <3>2, <3>3
  <2>10. CASE /\ Pending("sem_encrypt")' = Pending("sem_encrypt") + 0
              /\ Pc(read_proc)' = Pc(read_proc) /\ Idx(read_proc)' = Idx(read_proc)
    <3>1. PR' = 14
      BY <1>9, <2>10 DEF PR
    <3>2. Counted(first, r, e, w)'
      BY <1>2, <1>3, <1>4, <1>9, <2>3, <2>4, <2>8, <2>10, <3>1 DEF Counted
    <3>3. Turns(r, e, w)'
      BY <1>4, <1>9, <2>3, <2>6, <3>1 DEF Turns
    <3> QED BY <1>9, <2>3, <2>7, <3>1, <3>2, <3>3
  <2> QED BY <2>4, <2>9, <2>10
<1>10. CASE PR = 15
  <2>1. Instr(read_proc)[1] = "next page" /\ Instr(read_proc)[2] = 9
    BY <1>1, <1>10, MemkryptRead
  <2>2. /\ Alike /\ Elsewhere(read_proc) /\ Born' = Born /\ UNCHANGED <<program, ends, call>>
        /\ \A m \in SemNames : Pending(m)' = Pending(m)
        /\ \/ PR' = 16
           \/ PR' = 9 /\ Idx(read_proc)' = (Idx(read_proc) + 1) % BUFFER_PAGES
    <3>1. Instr(read_proc)[1] \in Alone \cup {"next page", "try", "getch"}
      BY <2>1
    <3>2. /\ Alike /\ Elsewhere(read_proc) /\ Born' = Born /\ UNCHANGED <<program, ends, call>>
          /\ \A m \in SemNames : Pending(m)' = Pending(m)
          /\ \/ Pc(read_proc)' = Pc(read_proc) + 1
             \/ Pc(read_proc)' = Instr(read_proc)[2]
                /\ Idx(read_proc)' = (Idx(read_proc) + 1) % BUFFER_PAGES
      BY <1>1, <2>1, <3>1, LocalKeeps
    <3>3. Pc(read_proc) = 15 /\ PR' = Pc(read_proc)'
      BY <1>10 DEF PR
    <3>4. CASE Pc(read_proc)' = Pc(read_proc) + 1
      BY <3>2, <3>3, <3>4
    <3>5. CASE Pc(read_proc)' = Instr(read_proc)[2]
               /\ Idx(read_proc)' = (Idx(read_proc) + 1) % BUFFER_PAGES
      BY <2>1, <3>2, <3>3, <3>5
    <3> QED BY <3>2, <3>4, <3>5
  <2>3. Places'
    BY <1>4, <1>10, <2>2 DEF Places
  <2>4. Counted(first, r, e, w)'
    BY <1>2, <1>3, <1>4, <1>10, <2>2 DEF Counted
  <2>5. (Idx(read_proc) + 1) % BUFFER_PAGES = r % BUFFER_PAGES
    <3>1. Idx(read_proc) = (r - 1) % BUFFER_PAGES /\ r - 1 \in Nat /\ r - 1 + 1 = r
      BY <1>10 DEF Turns
    <3>2. (((r - 1) % BUFFER_PAGES) + 1) % BUFFER_PAGES = (r - 1 + 1) % BUFFER_PAGES
      BY <3>1, NextTurn, Pages
    <3> QED BY <3>1, <3>2
  <2>6. Turns(r, e, w)'
    BY <1>4, <1>10, <2>2, <2>5 DEF Turns
  <2>7. PR # 14
    BY <1>10
  <2> QED BY <2>2, <2>3, <2>4, <2>6, <2>7
<1>11. CASE PR = 6
  <2>1. Instr(read_proc)[1] = "fork" /\ Instr(read_proc)[2] = encrypt_proc
    BY <1>1, <1>11, MemkryptRead
  <2>2. /\ proc' = [proc EXCEPT ![read_proc].pc = proc[read_proc].pc + 1]
        /\ call' = [call EXCEPT ![encrypt_proc] = NoCall]
        /\ Born' = Born \cup {encrypt_proc}
        /\ UNCHANGED <<program, ends>>
        /\ Wires' /\ \A m \in SemNames : Pending(m)' = Pending(m)
        /\ Arrays'
    BY <1>1, <2>1, ForkStep, ThreeProcesses
  <2>3. /\ PR' = 7 /\ Idx(read_proc)' = Idx(read_proc)
        /\ PE' = PE /\ Idx(encrypt_proc)' = Idx(encrypt_proc) /\ PW' = PW
        /\ Idx(write_proc)' = Idx(write_proc)
        /\ \A u \in Tasks \ {read_proc} : proc'[u] = proc[u]
    BY <1>1, <1>11, <2>2, ThreeProcesses DEF Arrays, PR, PE, PW, Pc, Idx
  <2>4. Done(read_proc)' = Done(read_proc)
    BY <2>2, ThreeProcesses DEF Arrays, Done
  <2>5. ASSUME NEW u \in Tasks PROVE InFlight(u)'
    <3>1. CASE u = encrypt_proc
      <4>1. call'[u] = NoCall
        BY <2>2, <3>1 DEF Arrays
      <4> QED BY <4>1, OpsDiffer DEF InFlight, NONE
    <3>2. CASE u = read_proc
      <4>1. call'[u] = call[u] /\ call[u] = NoCall
        BY <1>1, <2>1, <2>2, <3>2, OpsDiffer, ThreeProcesses DEF Arrays, Calling, InFlight, Born
      <4> QED BY <4>1, OpsDiffer DEF InFlight, NONE
    <3>3. CASE u \notin {read_proc, encrypt_proc}
      <4>1. call'[u] = call[u] /\ Instr(u)' = Instr(u)
        BY <2>2, <2>3, <3>3 DEF Arrays, Instr, Code
      <4> QED BY <2>2, <4>1 DEF Calling, InFlight
    <3> QED BY <3>1, <3>2, <3>3
  <2>6. Alike
    BY <2>2, <2>5 DEF Alike, Calling
  <2>7. Places'
    BY <1>1, <1>11, <2>2, <2>3, ThreeProcesses DEF Places
  <2>8. Counted(first, r, e, w)'
    BY <1>2, <1>3, <1>11, <2>2, <2>3, <2>4 DEF Counted
  <2>9. Turns(r, e, w)'
    BY <1>11, <2>3 DEF Turns
  <2>10. PR # 14
    BY <1>11
  <2> QED BY <2>6, <2>7, <2>8, <2>9, <2>10
<1>12. CASE PR = 16
  <2>1. Instr(read_proc)[1] = "exit"
    BY <1>1, <1>12, MemkryptRead
  <2>2. /\ UNCHANGED own
        /\ call' = [call EXCEPT ![read_proc] = Unborn]
        /\ Born' = Born \ {read_proc}
        /\ Wires' /\ \A m \in SemNames : Pending(m)' = Pending(m)
        /\ Arrays'
    BY <1>1, <2>1, ExitStep
  <2>3. UNCHANGED <<program, proc, ends>>
    BY <2>2 DEF own
  <2>4. ASSUME NEW u \in Tasks PROVE InFlight(u)'
    <3>1. CASE u = read_proc
      <4>1. call'[u] = Unborn
        BY <2>2, <3>1 DEF Arrays
      <4> QED BY <4>1, OpsDiffer DEF InFlight
    <3>2. CASE u # read_proc
      <4>1. call'[u] = call[u] /\ Instr(u)' = Instr(u)
        BY <2>2, <2>3, <3>2 DEF Arrays, Instr, Code
      <4> QED BY <2>3, <4>1 DEF Calling, InFlight
    <3> QED BY <3>1, <3>2
  <2>5. Alike
    BY <2>2, <2>3, <2>4 DEF Alike, Calling
  <2>6. PR' = PR /\ PE' = PE /\ PW' = PW
    BY <2>3 DEF PR, PE, PW, Pc
  <2>7. Places'
    <3>1. Born' \subseteq Born /\ ends' = ends
      BY <2>2, <2>3
    <3> QED BY <2>6, <3>1 DEF Places
  <2>8. Counted(first, r, e, w)'
    <3>1. PR = 8 => Done(read_proc)' = Done(read_proc)
      BY <1>12, <2>2, ThreeProcesses DEF Arrays, Done
    <3> QED BY <1>3, <2>2, <2>6, <3>1 DEF Counted
  <2>9. Turns(r, e, w)'
    BY <2>3, <2>6 DEF Turns, Idx
  <2>10. PR # 14
    BY <1>12
  <2> QED BY <2>5, <2>7, <2>8, <2>9, <2>10
<1>13. CASE PR \in {1, 2, 3, 4}
  <2> DEFINE name == CASE PR = 1 -> "sem_read" [] PR = 2 -> "sem_encrypt"
                       [] PR = 3 -> "sem_write" [] OTHER -> "mutex"
  <2>1. /\ Instr(read_proc)[1] = "pipe" /\ Instr(read_proc)[2] = name
        /\ name \in SemNames /\ name \notin DOMAIN ends
    <3>1. /\ Instr(read_proc)[1] = "pipe" /\ Instr(read_proc)[2] = name /\ name \in SemNames
      <4> DEFINE m(l) == CASE l = 1 -> "sem_read" [] l = 2 -> "sem_encrypt"
                           [] l = 3 -> "sem_write" [] OTHER -> "mutex"
      <4>1. \A l \in {1, 2, 3, 4} : /\ memkrypt_read[l][1] = "pipe"
                                    /\ memkrypt_read[l][2] = m(l)
                                    /\ m(l) \in SemNames
        <5>1. ASSUME NEW l \in {1, 2}
              PROVE  /\ memkrypt_read[l][1] = "pipe" /\ memkrypt_read[l][2] = m(l)
                     /\ m(l) \in SemNames
          BY <5>1, MemkryptRead DEF SemNames
        <5>2. ASSUME NEW l \in {3, 4}
              PROVE  /\ memkrypt_read[l][1] = "pipe" /\ memkrypt_read[l][2] = m(l)
                     /\ m(l) \in SemNames
          BY <5>2, MemkryptRead DEF SemNames
        <5> QED BY <5>1, <5>2
      <4>2. name = m(PR)
        OBVIOUS
      <4> QED BY <1>1, <1>13, <4>1, <4>2
    <3>2. name \notin DOMAIN ends
      BY <1>13 DEF Places
    <3> QED BY <3>1, <3>2
  <2>2. Born = {read_proc}
    BY <1>1, <1>13, ThreeProcesses DEF Places, Born
  <2>3. /\ proc' = [proc EXCEPT ![read_proc].pc = proc[read_proc].pc + 1]
        /\ UNCHANGED <<call, program>>
        /\ DOMAIN ends' = DOMAIN ends \cup {name}
        /\ Wires' /\ \A m \in SemNames : Pending(m)' = Pending(m)
        /\ Arrays'
    <3> HIDE DEF name
    <3> QED BY <1>1, <2>1, <2>2, OpenStep
  <2>4. /\ PR' = PR + 1 /\ Idx(read_proc)' = Idx(read_proc)
        /\ PE' = PE /\ Idx(encrypt_proc)' = Idx(encrypt_proc) /\ PW' = PW
        /\ Idx(write_proc)' = Idx(write_proc)
    BY <1>1, <1>13, <2>3, ThreeProcesses DEF Arrays, PR, PE, PW, Pc, Idx
  <2>5. ASSUME NEW u \in Tasks PROVE InFlight(u)'
    <3>1. call'[u] = NoCall \/ call'[u] = Unborn
      <4>1. call[u] = NoCall \/ call[u] = Unborn
        BY <2>1, <2>2, OpsDiffer DEF Calling, InFlight, Born
      <4> QED BY <2>3, <4>1
    <3> QED BY <3>1, OpsDiffer DEF InFlight, NONE
  <2>6. Alike
    BY <2>3, <2>5 DEF Alike, Calling
  <2>7. Born' = Born
    BY <2>3 DEF Born
  <2>8. Places'
    <3>1. DOMAIN ends \subseteq SemNames /\ DOMAIN ends' \subseteq SemNames
      BY <2>1, <2>3 DEF Places
    <3>2. CASE PR = 1
      BY <2>3, <2>4, <2>7, <3>1, <3>2 DEF Places
    <3>3. CASE PR = 2
      BY <2>3, <2>4, <2>7, <3>1, <3>3 DEF Places
    <3>4. CASE PR = 3
      BY <2>3, <2>4, <2>7, <3>1, <3>4 DEF Places
    <3>5. CASE PR = 4
      BY <2>3, <2>4, <2>7, <3>1, <3>5 DEF Places
    <3> QED BY <1>13, <3>2, <3>3, <3>4, <3>5
  <2>9. Counted(first, r, e, w)'
    BY <1>2, <1>3, <1>13, <2>3, <2>4 DEF Counted
  <2>10. Turns(r, e, w)'
    BY <1>13, <2>4 DEF Turns
  <2>11. PR # 14
    BY <1>13
  <2> QED BY <2>6, <2>8, <2>9, <2>10, <2>11
<1> QED BY <1>5, <1>6, <1>7, <1>8, <1>9, <1>10, <1>11, <1>12, <1>13 DEF Places

LEMMA EncryptCounts ==
  ASSUME Arrays, Wires, Places, Calling, program = "memkrypt", Runs(encrypt_proc),
         NEW first \in Nat, NEW r \in Nat, NEW e \in Nat, NEW w \in Nat,
         Counted(first, r, e, w), Turns(r, e, w)
  PROVE  /\ Alike /\ Places'
         /\ \E f, i \in Nat :
              /\ i = IF PE = 7 /\ PE' = 8 THEN e + 1 ELSE e
              /\ Counted(f, r, i, w)' /\ Turns(r, i, w)'
<1>1. encrypt_proc \in Tasks /\ encrypt_proc \in Born
      /\ Instr(encrypt_proc) = memkrypt_encrypt[PE]
  BY RunsBorn, MemkryptInstr, ThreeProcesses
<1>2. \A m \in SemNames : Pending(m) \in Int
  BY Size DEF Wires, Wired, Pending, Tokens
<1>3. /\ "sem_read" \in SemNames /\ "sem_encrypt" \in SemNames
      /\ "sem_write" \in SemNames /\ "mutex" \in SemNames
  BY DEF SemNames
<1>4. Elsewhere(encrypt_proc) =>
        PR' = PR /\ Idx(read_proc)' = Idx(read_proc) /\ PW' = PW
        /\ Idx(write_proc)' = Idx(write_proc) /\ Done(read_proc)' = Done(read_proc)
  BY ThreeProcesses DEF Elsewhere, PR, PE, PW, Pc, Idx, Done
<1>5. CASE PE \in {3, 4, 5, 6}
  <2>1. /\ Alike /\ Elsewhere(encrypt_proc) /\ UNCHANGED ends /\ Born' = Born
        /\ Idx(encrypt_proc)' = Idx(encrypt_proc)
        /\ \A m \in SemNames \ {"mutex"} : Pending(m)' = Pending(m)
        /\ PE' = PE \/ PE' = PE + 1
    <3>1. CASE PE = 5
      <4>1. Instr(encrypt_proc)[1] = "signal" /\ Instr(encrypt_proc)[2] = "mutex"
            /\ Instr(encrypt_proc)[3] = 1
        BY <1>1, <3>1, MemkryptEncrypt
      <4>2. "mutex" \in DOMAIN ends
        BY <1>1, <3>1 DEF Places
      <4>3. /\ Alike /\ Elsewhere(encrypt_proc) /\ UNCHANGED OwnButProc /\ Born' = Born
            /\ \A m \in SemNames \ {"mutex"} : Pending(m)' = Pending(m)
            /\ Idx(encrypt_proc)' = Idx(encrypt_proc)
            /\ \/ Pc(encrypt_proc)' = Pc(encrypt_proc) + 1
               \/ Pc(encrypt_proc)' = Pc(encrypt_proc)
        BY <1>1, <4>1, <4>2, SignalKeeps DEF GoesOver
      <4> QED BY <4>3 DEF OwnButProc, PE
    <3>2. CASE PE = 3
      <4>1. Instr(encrypt_proc)[1] = "wait" /\ Instr(encrypt_proc)[2] = "mutex"
        BY <1>1, <3>2, MemkryptEncrypt
      <4>2. "mutex" \in DOMAIN ends
        BY <1>1, <3>2 DEF Places
      <4>3. /\ Alike /\ Elsewhere(encrypt_proc) /\ UNCHANGED OwnButProc /\ Born' = Born
            /\ \A m \in SemNames \ {"mutex"} : Pending(m)' = Pending(m)
            /\ Idx(encrypt_proc)' = Idx(encrypt_proc)
            /\ \/ Pc(encrypt_proc)' = Pc(encrypt_proc) + 1
               \/ Pc(encrypt_proc)' = Pc(encrypt_proc)
        BY <1>1, <4>1, <4>2, WaitKeeps DEF GoesOver
      <4> QED BY <4>3 DEF OwnButProc, PE
    <3>3. CASE PE \in {4, 6}
      <4>1. Instr(encrypt_proc)[1] \in Alone
        <5>1. CASE PE = 4
          BY <1>1, <5>1, MemkryptEncrypt DEF Alone
        <5>2. CASE PE = 6
          BY <1>1, <5>2, MemkryptEncrypt DEF Alone
        <5> QED BY <3>3, <5>1, <5>2
      <4>2. /\ Alike /\ Elsewhere(encrypt_proc) /\ Born' = Born
            /\ UNCHANGED <<program, ends, call>>
            /\ \A m \in SemNames : Pending(m)' = Pending(m)
            /\ Idx(encrypt_proc)' = Idx(encrypt_proc)
            /\ \/ Pc(encrypt_proc)' = Pc(encrypt_proc) + 1
               \/ Pc(encrypt_proc)' = Pc(encrypt_proc)
        BY <1>1, <4>1, LocalKeeps
      <4> QED BY <4>2 DEF PE
    <3> QED BY <1>5, <3>1, <3>2, <3>3
  <2>2. Places'
    BY <1>1, <1>4, <1>5, <2>1 DEF Places
  <2>3. Counted(first, r, e, w)'
    <3>1. /\ Pending("sem_read")' = Pending("sem_read")
          /\ Pending("sem_encrypt")' = Pending("sem_encrypt")
          /\ Pending("sem_write")' = Pending("sem_write")
      BY <1>3, <2>1
    <3> QED BY <1>2, <1>3, <1>4, <1>5, <2>1, <3>1 DEF Counted
  <2>4. Turns(r, e, w)'
    BY <1>4, <1>5, <2>1 DEF Turns
  <2>5. PE # 7
    BY <1>5
  <2> QED BY <2>1, <2>2, <2>3, <2>4, <2>5
<1>6. CASE PE = 2
  <2>1. Instr(encrypt_proc)[1] = "wait" /\ Instr(encrypt_proc)[2] = "sem_encrypt"
    BY <1>1, <1>6, MemkryptEncrypt
  <2>2. "sem_encrypt" \in DOMAIN ends
    BY <1>1, <1>6 DEF Places
  <2>3. /\ Alike /\ Elsewhere(encrypt_proc) /\ UNCHANGED OwnButProc /\ Born' = Born
        /\ \A m \in SemNames \ {"sem_encrypt"} : Pending(m)' = Pending(m)
        /\ \/ Pending("sem_encrypt")' = Pending("sem_encrypt") - 1 /\ GoesOver(encrypt_proc)
           \/ /\ Pending("sem_encrypt")' = Pending("sem_encrypt")
              /\ Pc(encrypt_proc)' = Pc(encrypt_proc) /\ Idx(encrypt_proc)' = Idx(encrypt_proc)
    BY <1>1, <2>1, <2>2, WaitKeeps
  <2>4. UNCHANGED ends
    BY <2>3 DEF OwnButProc
  <2>5. PE' \in {2, 3} /\ Idx(encrypt_proc)' = Idx(encrypt_proc)
    BY <1>6, <2>3 DEF PE, GoesOver
  <2>6. Places'
    BY <1>4, <1>6, <2>3, <2>4, <2>5 DEF Places
  <2>7. Pending("sem_encrypt") \in Int
    BY <2>2, Size DEF Wires, Wired, Pending, Tokens
  <2>8. Counted(first, r, e, w)'
    <3>1. CASE Pending("sem_encrypt")' = Pending("sem_encrypt") - 1 /\ GoesOver(encrypt_proc)
      <4>1. PE' = 3
        BY <1>6, <3>1 DEF PE, GoesOver
      <4> QED BY <1>2, <1>3, <1>4, <1>6, <2>3, <2>7, <3>1, <4>1 DEF Counted
    <3>2. CASE Pending("sem_encrypt")' = Pending("sem_encrypt")
               /\ Pc(encrypt_proc)' = Pc(encrypt_proc)
      <4>1. PE' = 2
        BY <1>6, <3>2 DEF PE
      <4> QED BY <1>2, <1>3, <1>4, <1>6, <2>3, <2>7, <3>2, <4>1 DEF Counted
    <3> QED BY <2>3, <3>1, <3>2
  <2>9. Turns(r, e, w)'
    BY <1>4, <1>6, <2>3, <2>5 DEF Turns
  <2>10. PE # 7
    BY <1>6
  <2> QED BY <2>3, <2>6, <2>8, <2>9, <2>10
<1>7. CASE PE = 7
  <2>1. Instr(encrypt_proc)[1] = "signal" /\ Instr(encrypt_proc)[2] = "sem_write"
        /\ Instr(encrypt_proc)[3] = 1
    BY <1>1, <1>7, MemkryptEncrypt
  <2>2. "sem_write" \in DOMAIN ends
    BY <1>1, <1>7 DEF Places
  <2>3. /\ Alike /\ Elsewhere(encrypt_proc) /\ UNCHANGED OwnButProc /\ Born' = Born
        /\ Done(encrypt_proc) \in 0 .. 1 - 1
        /\ \E d \in 0 .. 1 - Done(encrypt_proc) :
             /\ Pending("sem_write")' = Pending("sem_write") + d
             /\ \A m \in SemNames \ {"sem_write"} : Pending(m)' = Pending(m)
             /\ \/ d = 1 - Done(encrypt_proc) /\ GoesOver(encrypt_proc)
                \/ /\ d < 1 - Done(encrypt_proc) /\ Done(encrypt_proc)' = Done(encrypt_proc) + d
                   /\ Pc(encrypt_proc)' = Pc(encrypt_proc)
                   /\ Idx(encrypt_proc)' = Idx(encrypt_proc)
    BY <1>1, <2>1, <2>2, SignalKeeps
  <2>4. /\ \A m \in SemNames \ {"sem_write"} : Pending(m)' = Pending(m)
        /\ \/ Pending("sem_write")' = Pending("sem_write") + 1 /\ GoesOver(encrypt_proc)
           \/ /\ Pending("sem_write")' = Pending("sem_write") + 0
              /\ Pc(encrypt_proc)' = Pc(encrypt_proc) /\ Idx(encrypt_proc)' = Idx(encrypt_proc)
    BY <2>3
  <2>5. UNCHANGED ends
    BY <2>3 DEF OwnButProc
  <2>6. PE' \in {7, 8} /\ Idx(encrypt_proc)' = Idx(encrypt_proc)
    BY <1>7, <2>4 DEF PE, GoesOver
  <2>7. Places'
    BY <1>4, <1>7, <2>3, <2>5, <2>6 DEF Places
  <2>8. Pending("sem_write") \in Int
    BY <2>2, Size DEF Wires, Wired, Pending, Tokens
  <2>9. CASE Pending("sem_write")' = Pending("sem_write") + 1 /\ GoesOver(encrypt_proc)
    <3>1. PE' = 8
      BY <1>7, <2>9 DEF PE, GoesOver
    <3>2. Counted(first, r, e + 1, w)'
      BY <1>2, <1>3, <1>4, <1>7, <2>3, <2>4, <2>8, <2>9, <3>1 DEF Counted
    <3>3. Turns(r, e + 1, w)'
      BY <1>4, <1>7, <2>3, <2>6, <3>1 DEF Turns
    <3> QED BY <1>7, <2>3, <2>7, <3>1, <3>2, <3>3
  <2>10. CASE /\ Pending("sem_write")' = Pending("sem_write") + 0
              /\ Pc(encrypt_proc)' = Pc(encrypt_proc) /\ Idx(encrypt_proc)' = Idx(encrypt_proc)
    <3>1. PE' = 7
      BY <1>7, <2>10 DEF PE
    <3>2. Counted(first, r, e, w)'
      BY <1>2, <1>3, <1>4, <1>7, <2>3, <2>4, <2>8, <2>10, <3>1 DEF Counted
    <3>3. Turns(r, e, w)'
      BY <1>4, <1>7, <2>3, <2>6, <3>1 DEF Turns
    <3> QED BY <1>7, <2>3, <2>7, <3>1, <3>2, <3>3
  <2> QED BY <2>4, <2>9, <2>10
<1>8. CASE PE = 8
  <2>1. Instr(encrypt_proc)[1] = "next page" /\ Instr(encrypt_proc)[2] = 2
    BY <1>1, <1>8, MemkryptEncrypt
  <2>2. /\ Alike /\ Elsewhere(encrypt_proc) /\ Born' = Born /\ UNCHANGED <<program, ends, call>>
        /\ \A m \in SemNames : Pending(m)' = Pending(m)
        /\ \/ PE' = 9
           \/ PE' = 2 /\ Idx(encrypt_proc)' = (Idx(encrypt_proc) + 1) % BUFFER_PAGES
    <3>1. Instr(encrypt_proc)[1] \in Alone \cup {"next page", "try", "getch"}
      BY <2>1
    <3>2. /\ Alike /\ Elsewhere(encrypt_proc) /\ Born' = Born
          /\ UNCHANGED <<program, ends, call>>
          /\ \A m \in SemNames : Pending(m)' = Pending(m)
          /\ \/ Pc(encrypt_proc)' = Pc(encrypt_proc) + 1
             \/ Pc(encrypt_proc)' = Instr(encrypt_proc)[2]
                /\ Idx(encrypt_proc)' = (Idx(encrypt_proc) + 1) % BUFFER_PAGES
      BY <1>1, <2>1, <3>1, LocalKeeps
    <3>3. Pc(encrypt_proc) = 8 /\ PE' = Pc(encrypt_proc)'
      BY <1>8 DEF PE
    <3>4. CASE Pc(encrypt_proc)' = Pc(encrypt_proc) + 1
      BY <3>2, <3>3, <3>4
    <3>5. CASE Pc(encrypt_proc)' = Instr(encrypt_proc)[2]
               /\ Idx(encrypt_proc)' = (Idx(encrypt_proc) + 1) % BUFFER_PAGES
      BY <2>1, <3>2, <3>3, <3>5
    <3> QED BY <3>2, <3>4, <3>5
  <2>3. Places'
    BY <1>4, <1>8, <2>2 DEF Places
  <2>4. Counted(first, r, e, w)'
    BY <1>2, <1>3, <1>4, <1>8, <2>2 DEF Counted
  <2>5. (Idx(encrypt_proc) + 1) % BUFFER_PAGES = e % BUFFER_PAGES
    <3>1. Idx(encrypt_proc) = (e - 1) % BUFFER_PAGES /\ e - 1 \in Nat /\ e - 1 + 1 = e
      BY <1>8 DEF Turns
    <3>2. (((e - 1) % BUFFER_PAGES) + 1) % BUFFER_PAGES = (e - 1 + 1) % BUFFER_PAGES
      BY <3>1, NextTurn, Pages
    <3> QED BY <3>1, <3>2
  <2>6. Turns(r, e, w)'
    BY <1>4, <1>8, <2>2, <2>5 DEF Turns
  <2>7. PE # 7
    BY <1>8
  <2> QED BY <2>2, <2>3, <2>4, <2>6, <2>7
<1>9. CASE PE = 1
  <2>1. Instr(encrypt_proc)[1] = "fork" /\ Instr(encrypt_proc)[2] = write_proc
    BY <1>1, <1>9, MemkryptEncrypt
  <2>2. /\ proc' = [proc EXCEPT ![encrypt_proc].pc = proc[encrypt_proc].pc + 1]
        /\ call' = [call EXCEPT ![write_proc] = NoCall]
        /\ Born' = Born \cup {write_proc}
        /\ UNCHANGED <<program, ends>>
        /\ Wires' /\ \A m \in SemNames : Pending(m)' = Pending(m)
        /\ Arrays'
    BY <1>1, <2>1, ForkStep, ThreeProcesses
  <2>3. /\ PE' = 2 /\ Idx(encrypt_proc)' = Idx(encrypt_proc)
        /\ PR' = PR /\ Idx(read_proc)' = Idx(read_proc) /\ PW' = PW
        /\ Idx(write_proc)' = Idx(write_proc)
        /\ \A u \in Tasks \ {encrypt_proc} : proc'[u] = proc[u]
    BY <1>1, <1>9, <2>2, ThreeProcesses DEF Arrays, PR, PE, PW, Pc, Idx
  <2>4. Done(read_proc)' = Done(read_proc)
    BY <2>2, ThreeProcesses DEF Arrays, Done
  <2>5. ASSUME NEW u \in Tasks PROVE InFlight(u)'
    <3>1. CASE u = write_proc
      <4>1. call'[u] = NoCall
        BY <2>2, <3>1 DEF Arrays
      <4> QED BY <4>1, OpsDiffer DEF InFlight, NONE
    <3>2. CASE u = encrypt_proc
      <4>1. call'[u] = call[u] /\ call[u] = NoCall
        BY <1>1, <2>1, <2>2, <3>2, OpsDiffer, ThreeProcesses DEF Arrays, Calling, InFlight, Born
      <4> QED BY <4>1, OpsDiffer DEF InFlight, NONE
    <3>3. CASE u \notin {encrypt_proc, write_proc}
      <4>1. call'[u] = call[u] /\ Instr(u)' = Instr(u)
        BY <2>2, <2>3, <3>3 DEF Arrays, Instr, Code
      <4> QED BY <2>2, <4>1 DEF Calling, InFlight
    <3> QED BY <3>1, <3>2, <3>3
  <2>6. Alike
    BY <2>2, <2>5 DEF Alike, Calling
  <2>7. Places'
    BY <1>1, <1>9, <2>2, <2>3, ThreeProcesses DEF Places
  <2>8. Counted(first, r, e, w)'
    BY <1>2, <1>3, <1>9, <2>2, <2>3, <2>4 DEF Counted
  <2>9. Turns(r, e, w)'
    BY <1>9, <2>3 DEF Turns
  <2>10. PE # 7
    BY <1>9
  <2> QED BY <2>6, <2>7, <2>8, <2>9, <2>10
<1>10. CASE PE = 9
  <2>1. Instr(encrypt_proc)[1] = "exit"
    BY <1>1, <1>10, MemkryptEncrypt
  <2>2. /\ UNCHANGED own
        /\ call' = [call EXCEPT ![encrypt_proc] = Unborn]
        /\ Born' = Born \ {encrypt_proc}
        /\ Wires' /\ \A m \in SemNames : Pending(m)' = Pending(m)
        /\ Arrays'
    BY <1>1, <2>1, ExitStep
  <2>3. UNCHANGED <<program, proc, ends>>
    BY <2>2 DEF own
  <2>4. ASSUME NEW u \in Tasks PROVE InFlight(u)'
    <3>1. CASE u = encrypt_proc
      <4>1. call'[u] = Unborn
        BY <2>2, <3>1 DEF Arrays
      <4> QED BY <4>1, OpsDiffer DEF InFlight
    <3>2. CASE u # encrypt_proc
      <4>1. call'[u] = call[u] /\ Instr(u)' = Instr(u)
        BY <2>2, <2>3, <3>2 DEF Arrays, Instr, Code
      <4> QED BY <2>3, <4>1 DEF Calling, InFlight
    <3> QED BY <3>1, <3>2
  <2>5. Alike
    BY <2>2, <2>3, <2>4 DEF Alike, Calling
  <2>6. PR' = PR /\ PE' = PE /\ PW' = PW
    BY <2>3 DEF PR, PE, PW, Pc
  <2>7. Places'
    <3>1. Born' \subseteq Born /\ ends' = ends
      BY <2>2, <2>3
    <3> QED BY <2>6, <3>1 DEF Places
  <2>8. Counted(first, r, e, w)'
    <3>1. PR = 8 => Done(read_proc)' = Done(read_proc)
      BY <1>10, <2>2, ThreeProcesses DEF Arrays, Done
    <3> QED BY <1>3, <2>2, <2>6, <3>1 DEF Counted
  <2>9. Turns(r, e, w)'
    BY <2>3, <2>6 DEF Turns, Idx
  <2>10. PE # 7
    BY <1>10
  <2> QED BY <2>5, <2>7, <2>8, <2>9, <2>10
<1> QED BY <1>5, <1>6, <1>7, <1>8, <1>9, <1>10 DEF Places

LEMMA WriteCounts ==
  ASSUME Arrays, Wires, Places, Calling, program = "memkrypt", Runs(write_proc),
         NEW first \in Nat, NEW r \in Nat, NEW e \in Nat, NEW w \in Nat,
         Counted(first, r, e, w), Turns(r, e, w)
  PROVE  /\ Alike /\ Places'
         /\ \E f, i \in Nat :
              /\ i = IF PW = 7 /\ PW' = 8 THEN w + 1 ELSE w
              /\ Counted(f, r, e, i)' /\ Turns(r, e, i)'
<1>1. write_proc \in Tasks /\ write_proc \in Born /\ Instr(write_proc) = memkrypt_write[PW]
  BY RunsBorn, MemkryptInstr, ThreeProcesses
<1>2. \A m \in SemNames : Pending(m) \in Int
  BY Size DEF Wires, Wired, Pending, Tokens
<1>3. /\ "sem_read" \in SemNames /\ "sem_encrypt" \in SemNames
      /\ "sem_write" \in SemNames /\ "mutex" \in SemNames
  BY DEF SemNames
<1>4. Elsewhere(write_proc) =>
        PR' = PR /\ Idx(read_proc)' = Idx(read_proc) /\ PE' = PE
        /\ Idx(encrypt_proc)' = Idx(encrypt_proc) /\ Done(read_proc)' = Done(read_proc)
  BY ThreeProcesses DEF Elsewhere, PR, PE, PW, Pc, Idx, Done
<1>5. CASE PW \in {1, 3, 4, 5, 6, 9}
  <2>1. /\ Alike /\ Elsewhere(write_proc) /\ UNCHANGED ends /\ Born' = Born
        /\ Idx(write_proc)' = Idx(write_proc)
        /\ \A m \in SemNames \ {"mutex"} : Pending(m)' = Pending(m)
        /\ PW' = PW \/ PW' = PW + 1 \/ (PW = 1 /\ PW' = 9)
    <3>1. CASE PW = 5
      <4>1. Instr(write_proc)[1] = "signal" /\ Instr(write_proc)[2] = "mutex"
            /\ Instr(write_proc)[3] = 1
        BY <1>1, <3>1, MemkryptWrite
      <4>2. "mutex" \in DOMAIN ends
        BY <1>1, <3>1 DEF Places
      <4>3. /\ Alike /\ Elsewhere(write_proc) /\ UNCHANGED OwnButProc /\ Born' = Born
            /\ \A m \in SemNames \ {"mutex"} : Pending(m)' = Pending(m)
            /\ Idx(write_proc)' = Idx(write_proc)
            /\ (Pc(write_proc)' = Pc(write_proc) + 1 \/ Pc(write_proc)' = Pc(write_proc))
        BY <1>1, <4>1, <4>2, SignalKeeps DEF GoesOver
      <4> QED BY <4>3 DEF OwnButProc, PW
    <3>2. CASE PW = 3
      <4>1. Instr(write_proc)[1] = "wait" /\ Instr(write_proc)[2] = "mutex"
        BY <1>1, <3>2, MemkryptWrite
      <4>2. "mutex" \in DOMAIN ends
        BY <1>1, <3>2 DEF Places
      <4>3. /\ Alike /\ Elsewhere(write_proc) /\ UNCHANGED OwnButProc /\ Born' = Born
            /\ \A m \in SemNames \ {"mutex"} : Pending(m)' = Pending(m)
            /\ Idx(write_proc)' = Idx(write_proc)
            /\ (Pc(write_proc)' = Pc(write_proc) + 1 \/ Pc(write_proc)' = Pc(write_proc))
        BY <1>1, <4>1, <4>2, WaitKeeps DEF GoesOver
      <4> QED BY <4>3 DEF OwnButProc, PW
    <3>3. CASE PW \in {4, 6}
      <4>1. Instr(write_proc)[1] \in Alone
        <5>1. CASE PW = 4
          BY <1>1, <5>1, MemkryptWrite DEF Alone
        <5>2. CASE PW = 6
          BY <1>1, <5>2, MemkryptWrite DEF Alone
        <5> QED BY <3>3, <5>1, <5>2
      <4>2. /\ Alike /\ Elsewhere(write_proc) /\ Born' = Born
            /\ UNCHANGED <<program, ends, call>>
            /\ \A m \in SemNames : Pending(m)' = Pending(m)
            /\ Idx(write_proc)' = Idx(write_proc)
            /\ (Pc(write_proc)' = Pc(write_proc) + 1 \/ Pc(write_proc)' = Pc(write_proc))
        BY <1>1, <4>1, LocalKeeps
      <4> QED BY <4>2 DEF PW
    <3>4. CASE PW = 1
      <4>1. Instr(write_proc)[1] = "try" /\ Instr(write_proc)[3] = 9
        BY <1>1, <3>4, MemkryptWrite
      <4>2. /\ Alike /\ Elsewhere(write_proc) /\ Born' = Born
            /\ UNCHANGED <<program, ends, call>>
            /\ \A m \in SemNames : Pending(m)' = Pending(m)
            /\ Idx(write_proc)' = Idx(write_proc)
            /\ (Pc(write_proc)' = Pc(write_proc) + 1 \/ Pc(write_proc)' = Instr(write_proc)[3])
        BY <1>1, <4>1, LocalKeeps
      <4>3. PW' = PW + 1 \/ PW' = 9
        BY <4>1, <4>2 DEF PW
      <4> QED BY <3>4, <4>2, <4>3
    <3>5. CASE PW = 9
      <4>1. Instr(write_proc)[1] = "getch"
        BY <1>1, <3>5, MemkryptWrite
      <4>2. /\ Alike /\ Elsewhere(write_proc) /\ Born' = Born
            /\ UNCHANGED <<program, ends, call>>
            /\ \A m \in SemNames : Pending(m)' = Pending(m)
            /\ Idx(write_proc)' = Idx(write_proc)
            /\ Pc(write_proc)' = Pc(write_proc) + 1
        BY <1>1, <4>1, LocalKeeps
      <4> QED BY <4>2 DEF PW
    <3> QED BY <1>5, <3>1, <3>2, <3>3, <3>4, <3>5
  <2>2. Places'
    BY <1>1, <1>4, <1>5, <2>1 DEF Places
  <2>3. Counted(first, r, e, w)'
    <3>1. /\ Pending("sem_read")' = Pending("sem_read")
          /\ Pending("sem_encrypt")' = Pending("sem_encrypt")
          /\ Pending("sem_write")' = Pending("sem_write")
      BY <1>3, <2>1
    <3> QED BY <1>2, <1>3, <1>4, <1>5, <2>1, <3>1 DEF Counted
  <2>4. Turns(r, e, w)'
    BY <1>4, <1>5, <2>1 DEF Turns
  <2>5. PW # 7
    BY <1>5
  <2> QED BY <2>1, <2>2, <2>3, <2>4, <2>5
<1>6. CASE PW = 2
  <2>1. Instr(write_proc)[1] = "wait" /\ Instr(write_proc)[2] = "sem_write"
    BY <1>1, <1>6, MemkryptWrite
  <2>2. "sem_write" \in DOMAIN ends
    BY <1>1, <1>6 DEF Places
  <2>3. /\ Alike /\ Elsewhere(write_proc) /\ UNCHANGED OwnButProc /\ Born' = Born
        /\ \A m \in SemNames \ {"sem_write"} : Pending(m)' = Pending(m)
        /\ \/ Pending("sem_write")' = Pending("sem_write") - 1 /\ GoesOver(write_proc)
           \/ /\ Pending("sem_write")' = Pending("sem_write")
              /\ Pc(write_proc)' = Pc(write_proc) /\ Idx(write_proc)' = Idx(write_proc)
    BY <1>1, <2>1, <2>2, WaitKeeps
  <2>4. UNCHANGED ends
    BY <2>3 DEF OwnButProc
  <2>5. PW' \in {2, 3} /\ Idx(write_proc)' = Idx(write_proc)
    BY <1>6, <2>3 DEF PW, GoesOver
  <2>6. Places'
    BY <1>4, <1>6, <2>3, <2>4, <2>5 DEF Places
  <2>7. Pending("sem_write") \in Int
    BY <2>2, Size DEF Wires, Wired, Pending, Tokens
  <2>8. Counted(first, r, e, w)'
    <3>1. CASE Pending("sem_write")' = Pending("sem_write") - 1 /\ GoesOver(write_proc)
      <4>1. PW' = 3
        BY <1>6, <3>1 DEF PW, GoesOver
      <4> QED BY <1>2, <1>3, <1>4, <1>6, <2>3, <2>7, <3>1, <4>1 DEF Counted
    <3>2. CASE Pending("sem_write")' = Pending("sem_write") /\ Pc(write_proc)' = Pc(write_proc)
      <4>1. PW' = 2
        BY <1>6, <3>2 DEF PW
      <4> QED BY <1>2, <1>3, <1>4, <1>6, <2>3, <2>7, <3>2, <4>1 DEF Counted
    <3> QED BY <2>3, <3>1, <3>2
  <2>9. Turns(r, e, w)'
    BY <1>4, <1>6, <2>3, <2>5 DEF Turns
  <2>10. PW # 7
    BY <1>6
  <2> QED BY <2>3, <2>6, <2>8, <2>9, <2>10
<1>7. CASE PW = 7
  <2>1. Instr(write_proc)[1] = "signal" /\ Instr(write_proc)[2] = "sem_read"
        /\ Instr(write_proc)[3] = 1
    BY <1>1, <1>7, MemkryptWrite
  <2>2. "sem_read" \in DOMAIN ends
    BY <1>1, <1>7 DEF Places
  <2>3. /\ Alike /\ Elsewhere(write_proc) /\ UNCHANGED OwnButProc /\ Born' = Born
        /\ Done(write_proc) \in 0 .. 1 - 1
        /\ \E d \in 0 .. 1 - Done(write_proc) :
             /\ Pending("sem_read")' = Pending("sem_read") + d
             /\ \A m \in SemNames \ {"sem_read"} : Pending(m)' = Pending(m)
             /\ \/ d = 1 - Done(write_proc) /\ GoesOver(write_proc)
                \/ /\ d < 1 - Done(write_proc) /\ Done(write_proc)' = Done(write_proc) + d
                   /\ Pc(write_proc)' = Pc(write_proc) /\ Idx(write_proc)' = Idx(write_proc)
    BY <1>1, <2>1, <2>2, SignalKeeps
  <2>4. /\ \A m \in SemNames \ {"sem_read"} : Pending(m)' = Pending(m)
        /\ \/ Pending("sem_read")' = Pending("sem_read") + 1 /\ GoesOver(write_proc)
           \/ /\ Pending("sem_read")' = Pending("sem_read") + 0
              /\ Pc(write_proc)' = Pc(write_proc) /\ Idx(write_proc)' = Idx(write_proc)
    BY <2>3
  <2>5. UNCHANGED ends
    BY <2>3 DEF OwnButProc
  <2>6. PW' \in {7, 8} /\ Idx(write_proc)' = Idx(write_proc)
    BY <1>7, <2>4 DEF PW, GoesOver
  <2>7. Places'
    BY <1>4, <1>7, <2>3, <2>5, <2>6 DEF Places
  <2>8. Pending("sem_read") \in Int
    BY <2>2, Size DEF Wires, Wired, Pending, Tokens
  <2>9. CASE Pending("sem_read")' = Pending("sem_read") + 1 /\ GoesOver(write_proc)
    <3>1. PW' = 8
      BY <1>7, <2>9 DEF PW, GoesOver
    <3>2. Counted(first, r, e, w + 1)'
      BY <1>2, <1>3, <1>4, <1>7, <2>3, <2>4, <2>8, <2>9, <3>1 DEF Counted
    <3>3. Turns(r, e, w + 1)'
      BY <1>4, <1>7, <2>3, <2>6, <3>1 DEF Turns
    <3> QED BY <1>7, <2>3, <2>7, <3>1, <3>2, <3>3
  <2>10. CASE /\ Pending("sem_read")' = Pending("sem_read") + 0
              /\ Pc(write_proc)' = Pc(write_proc) /\ Idx(write_proc)' = Idx(write_proc)
    <3>1. PW' = 7
      BY <1>7, <2>10 DEF PW
    <3>2. Counted(first, r, e, w)'
      BY <1>2, <1>3, <1>4, <1>7, <2>3, <2>4, <2>8, <2>10, <3>1 DEF Counted
    <3>3. Turns(r, e, w)'
      BY <1>4, <1>7, <2>3, <2>6, <3>1 DEF Turns
    <3> QED BY <1>7, <2>3, <2>7, <3>1, <3>2, <3>3
  <2> QED BY <2>4, <2>9, <2>10
<1>8. CASE PW = 8
  <2>1. Instr(write_proc)[1] = "next page" /\ Instr(write_proc)[2] = 2
    BY <1>1, <1>8, MemkryptWrite
  <2>2. /\ Alike /\ Elsewhere(write_proc) /\ Born' = Born /\ UNCHANGED <<program, ends, call>>
        /\ \A m \in SemNames : Pending(m)' = Pending(m)
        /\ \/ PW' = 9
           \/ PW' = 2 /\ Idx(write_proc)' = (Idx(write_proc) + 1) % BUFFER_PAGES
    <3>1. Instr(write_proc)[1] \in Alone \cup {"next page", "try", "getch"}
      BY <2>1
    <3>2. /\ Alike /\ Elsewhere(write_proc) /\ Born' = Born /\ UNCHANGED <<program, ends, call>>
          /\ \A m \in SemNames : Pending(m)' = Pending(m)
          /\ \/ Pc(write_proc)' = Pc(write_proc) + 1
             \/ Pc(write_proc)' = Instr(write_proc)[2]
                /\ Idx(write_proc)' = (Idx(write_proc) + 1) % BUFFER_PAGES
      BY <1>1, <2>1, <3>1, LocalKeeps
    <3>3. Pc(write_proc) = 8 /\ PW' = Pc(write_proc)'
      BY <1>8 DEF PW
    <3>4. CASE Pc(write_proc)' = Pc(write_proc) + 1
      BY <3>2, <3>3, <3>4
    <3>5. CASE Pc(write_proc)' = Instr(write_proc)[2]
               /\ Idx(write_proc)' = (Idx(write_proc) + 1) % BUFFER_PAGES
      BY <2>1, <3>2, <3>3, <3>5
    <3> QED BY <3>2, <3>4, <3>5
  <2>3. Places'
    BY <1>4, <1>8, <2>2 DEF Places
  <2>4. Counted(first, r, e, w)'
    BY <1>2, <1>3, <1>4, <1>8, <2>2 DEF Counted
  <2>5. (Idx(write_proc) + 1) % BUFFER_PAGES = w % BUFFER_PAGES
    <3>1. Idx(write_proc) = (w - 1) % BUFFER_PAGES /\ w - 1 \in Nat /\ w - 1 + 1 = w
      BY <1>8 DEF Turns
    <3>2. (((w - 1) % BUFFER_PAGES) + 1) % BUFFER_PAGES = (w - 1 + 1) % BUFFER_PAGES
      BY <3>1, NextTurn, Pages
    <3> QED BY <3>1, <3>2
  <2>6. Turns(r, e, w)'
    BY <1>4, <1>8, <2>2, <2>5 DEF Turns
  <2>7. PW # 7
    BY <1>8
  <2> QED BY <2>2, <2>3, <2>4, <2>6, <2>7
<1>9. CASE PW = 10
  <2>1. Instr(write_proc)[1] = "exit"
    BY <1>1, <1>9, MemkryptWrite
  <2>2. /\ UNCHANGED own
        /\ call' = [call EXCEPT ![write_proc] = Unborn]
        /\ Born' = Born \ {write_proc}
        /\ Wires' /\ \A m \in SemNames : Pending(m)' = Pending(m)
        /\ Arrays'
    BY <1>1, <2>1, ExitStep
  <2>3. UNCHANGED <<program, proc, ends>>
    BY <2>2 DEF own
  <2>4. ASSUME NEW u \in Tasks PROVE InFlight(u)'
    <3>1. CASE u = write_proc
      <4>1. call'[u] = Unborn
        BY <2>2, <3>1 DEF Arrays
      <4> QED BY <4>1, OpsDiffer DEF InFlight
    <3>2. CASE u # write_proc
      <4>1. call'[u] = call[u] /\ Instr(u)' = Instr(u)
        BY <2>2, <2>3, <3>2 DEF Arrays, Instr, Code
      <4> QED BY <2>3, <4>1 DEF Calling, InFlight
    <3> QED BY <3>1, <3>2
  <2>5. Alike
    BY <2>2, <2>3, <2>4 DEF Alike, Calling
  <2>6. PR' = PR /\ PE' = PE /\ PW' = PW
    BY <2>3 DEF PR, PE, PW, Pc
  <2>7. Places'
    <3>1. Born' \subseteq Born /\ ends' = ends
      BY <2>2, <2>3
    <3> QED BY <2>6, <3>1 DEF Places
  <2>8. Counted(first, r, e, w)'
    <3>1. PR = 8 => Done(read_proc)' = Done(read_proc)
      BY <1>9, <2>2, ThreeProcesses DEF Arrays, Done
    <3> QED BY <1>3, <2>2, <2>6, <3>1 DEF Counted
  <2>9. Turns(r, e, w)'
    BY <2>3, <2>6 DEF Turns, Idx
  <2>10. PW # 7
    BY <1>9
  <2> QED BY <2>5, <2>7, <2>8, <2>9, <2>10
<1> QED BY <1>5, <1>6, <1>7, <1>8, <1>9 DEF Places

-----------------------------------------------------------------------------
(* memkrypt: the bytes.  Page j of the file starts at At(j) and has        *)
(* PageLen(j) bytes; from the one that ends the file on, none.             *)
At(j)      == Least(FILE_SIZE, PAGE_SIZE * j)
PageLen(j) == Least(PAGE_SIZE, FILE_SIZE - At(j))

OutByte(i)    == Cipher(i, i - 1)
FirstBytes(n) == [i \in 1 .. n |-> OutByte(i)]

(* Page j when the first k pages have been encrypted. *)
PageBytes(j, k) == [i \in 1 .. PageLen(j) |-> IF j < k THEN OutByte(At(j) + i) ELSE At(j) + i]

Reads(r)  == r + (IF PR \in 11 .. 14 THEN 1 ELSE 0)
Sized(r)  == r + (IF PR \in 13 .. 14 THEN 1 ELSE 0)
Coded(e)  == e + (IF PE = 7 THEN 1 ELSE 0)
Sent(w)   == At(IF PW = 7 THEN w + 1 ELSE w) + Num(write_proc)

ReadsFile(r) ==
  /\ offset = At(Reads(r))
  /\ PR \in 11 .. 14 => Siz(read_proc) = PageLen(r)

(* The pages read and not yet sent are where their turn puts them. *)
Stored(r, e, w) ==
  /\ DOMAIN pages = 0 .. BUFFER_PAGES - 1 /\ DOMAIN sizes = 0 .. BUFFER_PAGES - 1
  /\ \A j \in Nat : w \leq j /\ j < Reads(r) => pages[j % BUFFER_PAGES] = PageBytes(j, Coded(e))
  /\ \A j \in Nat : w \leq j /\ j < Sized(r) => sizes[j % BUFFER_PAGES] = PageLen(j)

Encrypts(e) ==
  /\ Num(encrypt_proc) = At(Coded(e))
  /\ PE \in 5 .. 7 => Siz(encrypt_proc) = PageLen(e)

Sends(w) ==
  /\ PW \in 5 .. 7 => Siz(write_proc) = PageLen(w)
  /\ Num(write_proc) \in 0 .. (IF PW = 6 THEN PageLen(w) ELSE 0)
  /\ sent = FirstBytes(Sent(w))

PagesHold(r, e, w) == ReadsFile(r) /\ Stored(r, e, w) /\ Encrypts(e) /\ Sends(w)

SentInOrder ==
  program = "memkrypt" =>
    /\ Arrays /\ Wires /\ Places /\ Calling
    /\ \E first, r, e, w \in Nat :
         Counted(first, r, e, w) /\ Turns(r, e, w) /\ PagesHold(r, e, w)

-----------------------------------------------------------------------------
LEMMA FileSize == FILE_SIZE \in Nat
  BY PipelinesAssumption DEF PipelinesAssumption

LEMMA FilePages ==
  /\ At(0) = 0
  /\ \A j \in Nat : /\ At(j) \in 0 .. FILE_SIZE /\ PageLen(j) \in Nat
                    /\ At(j + 1) = At(j) + PageLen(j)
<1>1. \A p, j \in Nat : p * j \in Nat /\ p * (j + 1) = p * j + p /\ p * 0 = 0
  OBVIOUS
<1>2. PAGE_SIZE \in Nat /\ 0 \in Nat /\ \A j \in Nat : j + 1 \in Nat
  BY Pages
<1>3. PAGE_SIZE * 0 = 0
  BY <1>1, <1>2
<1>4. At(0) = 0
  BY <1>3, FileSize DEF At, Least
<1>5. ASSUME NEW j \in Nat
      PROVE  /\ At(j) \in 0 .. FILE_SIZE /\ PageLen(j) \in Nat
             /\ At(j + 1) = At(j) + PageLen(j)
  <2> DEFINE a == PAGE_SIZE * j
             b == PAGE_SIZE * (j + 1)
  <2>1. a \in Nat /\ b = a + PAGE_SIZE
    BY <1>1, <1>2
  <2>2. At(j) = Least(FILE_SIZE, a) /\ At(j + 1) = Least(FILE_SIZE, b)
    BY DEF At
  <2> HIDE DEF a, b
  <2> QED BY <1>2, <2>1, <2>2, FileSize DEF PageLen, Least
<1> QED BY <1>4, <1>5

LEMMA OneMoreByte ==
  ASSUME NEW n \in Nat
  PROVE  Append(FirstBytes(n), OutByte(n + 1)) = FirstBytes(n + 1)
<1>1. FirstBytes(n) \in Seq({OutByte(i) : i \in Nat}) /\ Len(FirstBytes(n)) = n
  BY DEF FirstBytes
<1>2. Append(FirstBytes(n), OutByte(n + 1)) =
        [i \in 1 .. n + 1 |-> IF i = n + 1 THEN OutByte(n + 1) ELSE FirstBytes(n)[i]]
  BY <1>1
<1> QED BY <1>2 DEF FirstBytes

(* What was sent is where it should be, however much it is. *)
LEMMA SentSoFar ==
  ASSUME NEW n \in 0 .. FILE_SIZE, sent = FirstBytes(n)
  PROVE  SentIsEncrypted
<1>1. Encrypted(TheFile, 0) = FirstBytes(FILE_SIZE)
  BY FileSize DEF Encrypted, TheFile, FirstBytes, OutByte
<1>2. \A k \in Nat : FirstBytes(k) \in Seq({OutByte(i) : i \in Nat}) /\ Len(FirstBytes(k)) = k
  BY DEF FirstBytes
<1>3. n \in Nat /\ n \leq FILE_SIZE
  BY FileSize
<1>4. \A k \in Nat : n \leq k => SubSeq(FirstBytes(k), 1, n) = FirstBytes(n)
  <2> SUFFICES ASSUME NEW k \in Nat, n \leq k PROVE SubSeq(FirstBytes(k), 1, n) = FirstBytes(n)
    OBVIOUS
  <2>1. SubSeq(FirstBytes(k), 1, n) = [i \in 1 .. n |-> FirstBytes(k)[i]]
    BY <1>2, <1>3
  <2> QED BY <1>3, <2>1 DEF FirstBytes
<1>5. /\ Len(sent) = n /\ Len(FirstBytes(FILE_SIZE)) = FILE_SIZE
      /\ SubSeq(sent, 1, n) = FirstBytes(n)
      /\ SubSeq(FirstBytes(FILE_SIZE), 1, n) = FirstBytes(n)
  <2>1. Len(FirstBytes(n)) = n /\ Len(FirstBytes(FILE_SIZE)) = FILE_SIZE
    BY <1>2, <1>3, FileSize
  <2>2. SubSeq(FirstBytes(n), 1, n) = FirstBytes(n)
    BY <1>3, <1>4
  <2>3. SubSeq(FirstBytes(FILE_SIZE), 1, n) = FirstBytes(n)
    BY <1>3, <1>4, FileSize
  <2> QED BY <2>1, <2>2, <2>3
<1>6. IsPrefix(sent, FirstBytes(FILE_SIZE))
  BY <1>3, <1>5 DEF IsPrefix
<1> QED BY <1>1, <1>6 DEF SentIsEncrypted

-----------------------------------------------------------------------------
(* What a step does to the pages, by the instruction. *)
OthersStay(t) ==
  \A u \in Tasks \ {t} : Pc(u)' = Pc(u) /\ Num(u)' = Num(u) /\ Siz(u)' = Siz(u)

PagesKept ==
  /\ UNCHANGED <<pages, sizes, offset, sent>>
  /\ \A u \in Tasks : Num(u)' = Num(u) /\ Siz(u)' = Siz(u)

LEMMA OthersKeepPages ==
  ASSUME Arrays, NEW t \in Tasks, Runs(t),
         Instr(t)[1] \in {"pipe", "fork", "exit", "try", "getch", "signal", "wait", "next page"}
  PROVE  /\ PagesKept /\ OthersStay(t)
         /\ \/ Pc(t)' = Pc(t) \/ Pc(t)' = Pc(t) + 1
            \/ Instr(t)[1] = "try" /\ Pc(t)' = Instr(t)[3]
            \/ Instr(t)[1] = "next page" /\ Pc(t)' = Instr(t)[2]
<1>1. DOMAIN proc = Tasks /\ {"pc", "i", "sz", "n", "buffer"} \subseteq DOMAIN proc[t]
  BY DEF Arrays
<1>2. CASE Syscall(t)
  <2>1. /\ UNCHANGED <<pages, sizes, offset, sent>>
        /\ \/ proc' = proc
           \/ proc' = [proc EXCEPT ![t].pc = proc[t].pc + 1]
           \/ Instr(t)[1] = "try" /\ proc' = [proc EXCEPT ![t].pc = Instr(t)[3]]
    BY <1>2 DEF Syscall, Open, Forks, Closes, Exits, Try, Getch, WaitsForKey, Goto, Step1, own
  <2>2. CASE proc' = proc
    BY <2>1, <2>2 DEF PagesKept, OthersStay, Pc, Num, Siz
  <2>3. CASE proc' = [proc EXCEPT ![t].pc = proc[t].pc + 1]
    BY <1>1, <2>1, <2>3 DEF PagesKept, OthersStay, Pc, Num, Siz
  <2>4. CASE Instr(t)[1] = "try" /\ proc' = [proc EXCEPT ![t].pc = Instr(t)[3]]
    BY <1>1, <2>1, <2>4 DEF PagesKept, OthersStay, Pc, Num, Siz
  <2> QED BY <2>1, <2>2, <2>3, <2>4
<1>3. CASE Calls(t) \/ GoesOn(t)
  <2>1. PICK c : OnPipe(t, c)
    BY <1>3 DEF Calls, GoesOn
  <2>2. /\ UNCHANGED <<pages, sizes, offset, sent>>
        /\ proc' = proc \/ proc' = [proc EXCEPT ![t] = [proc[t] EXCEPT !.pc = @ + 1]]
    BY <2>1 DEF OnPipe, Become, Jumped
  <2>3. CASE proc' = proc
    BY <2>2, <2>3 DEF PagesKept, OthersStay, Pc, Num, Siz
  <2>4. CASE proc' = [proc EXCEPT ![t] = [proc[t] EXCEPT !.pc = @ + 1]]
    BY <1>1, <2>2, <2>4 DEF PagesKept, OthersStay, Pc, Num, Siz
  <2> QED BY <2>2, <2>3, <2>4
<1>4. CASE Local(t)
  <2>1. /\ UNCHANGED <<pages, sizes, offset, sent>>
        /\ proc' = [proc EXCEPT ![t] = IF proc[t].sz = 0 THEN [proc[t] EXCEPT !.pc = @ + 1]
                     ELSE [proc[t] EXCEPT !.i = (@ + 1) % BUFFER_PAGES, !.pc = Instr(t)[2]]]
        /\ Instr(t)[1] = "next page"
    BY <1>4 DEF Local, Works, WorksOnPage, Become
  <2> QED BY <1>1, <2>1 DEF PagesKept, OthersStay, Pc, Num, Siz
<1> QED BY <1>2, <1>3, <1>4 DEF Runs

(* The work on a page, and what the process does with its number and size. *)
Worked(t) ==
  \/ /\ Instr(t)[1] = "read page"
     /\ pages' = [pages EXCEPT ![Idx(t)] = NextPage]
     /\ offset' = offset + Len(NextPage)
     /\ Siz(t)' = Len(NextPage) /\ Num(t)' = Num(t)
     /\ Pc(t)' = Pc(t) + 1 /\ UNCHANGED <<sizes, sent>>
  \/ /\ Instr(t)[1] = "set size"
     /\ sizes' = [sizes EXCEPT ![Idx(t)] = Siz(t)]
     /\ Siz(t)' = Siz(t) /\ Num(t)' = Num(t)
     /\ Pc(t)' = Pc(t) + 1 /\ UNCHANGED <<pages, offset, sent>>
  \/ /\ Instr(t)[1] = "get size"
     /\ Siz(t)' = sizes[Idx(t)] /\ Num(t)' = Num(t)
     /\ Pc(t)' = Pc(t) + 1 /\ UNCHANGED <<pages, sizes, offset, sent>>
  \/ /\ Instr(t)[1] = "encrypt page"
     /\ pages' = [pages EXCEPT ![Idx(t)] = Encrypted(pages[Idx(t)], Num(t))]
     /\ Siz(t)' = Siz(t) /\ Num(t)' = Num(t) + Siz(t)
     /\ Pc(t)' = Pc(t) + 1 /\ UNCHANGED <<sizes, offset, sent>>
  \/ /\ Instr(t)[1] = "send page" /\ Num(t) < Siz(t)
     /\ sent' = Append(sent, IF Num(t) < Len(pages[Idx(t)])
                             THEN pages[Idx(t)][Num(t) + 1] ELSE 0)
     /\ Siz(t)' = Siz(t) /\ Num(t)' = Num(t) + 1
     /\ Pc(t)' = Pc(t) /\ UNCHANGED <<pages, sizes, offset>>
  \/ /\ Instr(t)[1] = "send page" /\ ~ (Num(t) < Siz(t))
     /\ Siz(t)' = Siz(t) /\ Num(t)' = 0
     /\ Pc(t)' = Pc(t) + 1 /\ UNCHANGED <<pages, sizes, offset, sent>>

LEMMA WorksOnItsPage ==
  ASSUME Arrays, Calling, NEW t \in Tasks, Runs(t), Instr(t)[1] \in Alone
  PROVE  Worked(t) /\ OthersStay(t)
<1>1. /\ Instr(t)[1] \notin {"try", "getch", "next page"}
      /\ {"pc", "i", "sz", "n", "buffer"} \subseteq DOMAIN proc[t] /\ DOMAIN proc = Tasks
  BY DEF Alone, Arrays
<1>2. Elsewhere(t) /\ WorksOnPage(t)
  BY <1>1, LocalStep DEF Calling
<1>3. Worked(t)
  <2>1. CASE Instr(t)[1] = "read page"
    BY <1>1, <1>2, <2>1 DEF WorksOnPage, Become, Worked, Pc, Idx, Num, Siz
  <2>2. CASE Instr(t)[1] = "set size"
    BY <1>1, <1>2, <2>2 DEF WorksOnPage, Goto, Step1, Worked, Pc, Idx, Num, Siz
  <2>3. CASE Instr(t)[1] = "get size"
    BY <1>1, <1>2, <2>3 DEF WorksOnPage, Become, Worked, Pc, Idx, Num, Siz
  <2>4. CASE Instr(t)[1] = "encrypt page"
    BY <1>1, <1>2, <2>4 DEF WorksOnPage, Become, Worked, Pc, Idx, Num, Siz
  <2>5. CASE Instr(t)[1] = "send page"
    BY <1>1, <1>2, <2>5 DEF WorksOnPage, Become, Worked, Pc, Idx, Num, Siz
  <2> QED BY <2>1, <2>2, <2>3, <2>4, <2>5 DEF Alone
<1> QED BY <1>2, <1>3 DEF Elsewhere, OthersStay, Pc, Num, Siz

(* A page that is read is at most BUFFER_PAGES pages from being sent. *)
LEMMA PagesApart ==
  ASSUME Wires, NEW first \in Nat, NEW r \in Nat, NEW e \in Nat, NEW w \in Nat,
         Counted(first, r, e, w)
  PROVE  /\ e + (IF PE \in 3 .. 7 THEN 1 ELSE 0) \leq r
         /\ w + (IF PW \in 3 .. 7 THEN 1 ELSE 0) \leq e
         /\ r + (IF PR \in 10 .. 14 THEN 1 ELSE 0) \leq w + BUFFER_PAGES
<1>1. \A name \in SemNames : Pending(name) \in Nat
  BY Size DEF Pending, Tokens, Wires, Wired
<1>2. /\ Pending("sem_read") \in Nat /\ Pending("sem_encrypt") \in Nat
      /\ Pending("sem_write") \in Nat
  BY <1>1 DEF SemNames
<1> QED BY <1>2, Pages DEF Counted

(* Two of these pages are in different places. *)
LEMMA ApartInBuffer ==
  ASSUME NEW j \in Nat, NEW k \in Nat, NEW w \in Nat, j # k,
         w \leq j, w \leq k, j < w + BUFFER_PAGES, k < w + BUFFER_PAGES
  PROVE  /\ j % BUFFER_PAGES # k % BUFFER_PAGES
<1>1. CASE j < k
  <2>1. k < j + BUFFER_PAGES
    BY Pages
  <2> QED BY <1>1, <2>1, OtherTurn
<1>2. CASE k < j
  <2>1. j < k + BUFFER_PAGES
    BY Pages
  <2> QED BY <1>2, <2>1, OtherTurn
<1> QED BY <1>1, <1>2

LEMMA TurnInBuffer ==
  ASSUME NEW k \in Nat
  PROVE  k % BUFFER_PAGES \in 0 .. BUFFER_PAGES - 1
<1>1. \A p \in Nat \ {0} : k % p \in 0 .. p - 1
  OBVIOUS
<1> QED BY <1>1, Pages

LEMMA ReadKeepsContents ==
  ASSUME Arrays, Wires, Places, Calling, program = "memkrypt", Runs(read_proc),
         NEW first \in Nat, NEW r \in Nat, NEW e \in Nat, NEW w \in Nat,
         Counted(first, r, e, w), Turns(r, e, w), PagesHold(r, e, w),
         NEW i \in Nat, i = IF PR = 14 /\ PR' = 15 THEN r + 1 ELSE r
  PROVE  PagesHold(i, e, w)'
<1>1. Instr(read_proc) = memkrypt_read[PR] /\ read_proc \in Tasks
  BY MemkryptInstr, ThreeProcesses
<1>2. OthersStay(read_proc) =>
        /\ PE' = PE /\ Num(encrypt_proc)' = Num(encrypt_proc)
        /\ Siz(encrypt_proc)' = Siz(encrypt_proc)
        /\ PW' = PW /\ Num(write_proc)' = Num(write_proc) /\ Siz(write_proc)' = Siz(write_proc)
  BY ThreeProcesses DEF OthersStay, PE, PW
<1>3. /\ Coded(e) \in Nat /\ w \leq Coded(e) /\ Coded(e) \leq r
      /\ r + (IF PR \in 10 .. 14 THEN 1 ELSE 0) \leq w + BUFFER_PAGES
  BY PagesApart DEF Coded
<1>4. CASE PR = 10
  <2>1. Instr(read_proc)[1] = "read page"
    BY <1>1, <1>4, MemkryptRead
  <2>2. Worked(read_proc) /\ OthersStay(read_proc)
    BY <1>1, <2>1, WorksOnItsPage DEF Alone
  <2>3. /\ pages' = [pages EXCEPT ![Idx(read_proc)] = NextPage]
        /\ offset' = offset + Len(NextPage) /\ Siz(read_proc)' = Len(NextPage)
        /\ PR' = PR + 1 /\ UNCHANGED <<sizes, sent>>
    BY <2>1, <2>2 DEF Worked, PR
  <2>4. Idx(read_proc) = r % BUFFER_PAGES /\ PR' = 11 /\ i = r
    BY <1>4, <2>3 DEF Turns
  <2>5. Reads(r) = r /\ Sized(r) = r /\ Reads(r)' = r + 1 /\ Sized(r)' = r
    BY <1>4, <2>4 DEF Reads, Sized
  <2>6. offset = At(r)
    BY <2>5 DEF PagesHold, ReadsFile
  <2>7. NextPage = [k \in 1 .. PageLen(r) |-> At(r) + k] /\ Len(NextPage) = PageLen(r)
    BY <2>6, FilePages DEF NextPage, Rest, PageLen
  <2>8. ReadsFile(r)'
    <3>1. At(r + 1) = At(r) + PageLen(r)
      BY FilePages
    <3> QED BY <2>3, <2>4, <2>5, <2>6, <2>7, <3>1 DEF ReadsFile
  <2>9. Stored(r, e, w)'
    <3>1. Coded(e)' = Coded(e)
      BY <1>2, <2>2 DEF Coded
    <3>2. DOMAIN pages' = 0 .. BUFFER_PAGES - 1 /\ DOMAIN sizes' = 0 .. BUFFER_PAGES - 1
      BY <2>3 DEF PagesHold, Stored
    <3>3. \A j \in Nat : w \leq j /\ j < r + 1 =>
            pages'[j % BUFFER_PAGES] = PageBytes(j, Coded(e))
      <4> SUFFICES ASSUME NEW j \in Nat, w \leq j, j < r + 1
                   PROVE  pages'[j % BUFFER_PAGES] = PageBytes(j, Coded(e))
        OBVIOUS
      <4>1. r % BUFFER_PAGES \in DOMAIN pages /\ j % BUFFER_PAGES \in DOMAIN pages
        BY TurnInBuffer DEF PagesHold, Stored
      <4>2. CASE j = r
        <5>1. PageBytes(r, Coded(e)) = NextPage
          BY <1>3, <2>7 DEF PageBytes
        <5> QED BY <2>3, <2>4, <4>1, <4>2, <5>1
      <4>3. CASE j # r
        <5>1. w \leq r /\ r < w + BUFFER_PAGES /\ j < w + BUFFER_PAGES
          BY <1>3, <1>4, Pages
        <5>2. j % BUFFER_PAGES # r % BUFFER_PAGES
          BY <4>3, <5>1, ApartInBuffer
        <5>3. pages[j % BUFFER_PAGES] = PageBytes(j, Coded(e))
          BY <2>5, <4>3 DEF PagesHold, Stored
        <5> QED BY <2>3, <2>4, <4>1, <5>2, <5>3
      <4> QED BY <4>2, <4>3
    <3>4. \A j \in Nat : w \leq j /\ j < r => sizes'[j % BUFFER_PAGES] = PageLen(j)
      BY <2>3, <2>5 DEF PagesHold, Stored
    <3> QED BY <2>5, <3>1, <3>2, <3>3, <3>4 DEF Stored
  <2>10. Encrypts(e)'
    BY <1>2, <2>2 DEF PagesHold, Encrypts, Coded
  <2>11. Sends(w)'
    BY <1>2, <2>2, <2>3 DEF PagesHold, Sends, Sent
  <2> QED BY <2>4, <2>8, <2>9, <2>10, <2>11 DEF PagesHold
<1>5. CASE PR = 12
  <2>1. Instr(read_proc)[1] = "set size"
    BY <1>1, <1>5, MemkryptRead
  <2>2. Worked(read_proc) /\ OthersStay(read_proc)
    BY <1>1, <2>1, WorksOnItsPage DEF Alone
  <2>3. /\ sizes' = [sizes EXCEPT ![Idx(read_proc)] = Siz(read_proc)]
        /\ Siz(read_proc)' = Siz(read_proc)
        /\ PR' = PR + 1 /\ UNCHANGED <<pages, offset, sent>>
    BY <2>1, <2>2 DEF Worked, PR
  <2>4. Idx(read_proc) = r % BUFFER_PAGES /\ PR' = 13 /\ i = r
    BY <1>5, <2>3 DEF Turns
  <2>5. Reads(r) = r + 1 /\ Sized(r) = r /\ Reads(r)' = r + 1 /\ Sized(r)' = r + 1
    BY <1>5, <2>4 DEF Reads, Sized
  <2>6. Siz(read_proc) = PageLen(r)
    BY <1>5 DEF PagesHold, ReadsFile
  <2>7. ReadsFile(r)'
    BY <2>3, <2>4, <2>5, <2>6 DEF PagesHold, ReadsFile
  <2>8. Stored(r, e, w)'
    <3>1. Coded(e)' = Coded(e)
      BY <1>2, <2>2 DEF Coded
    <3>2. DOMAIN pages' = 0 .. BUFFER_PAGES - 1 /\ DOMAIN sizes' = 0 .. BUFFER_PAGES - 1
      BY <2>3 DEF PagesHold, Stored
    <3>3. \A j \in Nat : w \leq j /\ j < r + 1 => sizes'[j % BUFFER_PAGES] = PageLen(j)
      <4> SUFFICES ASSUME NEW j \in Nat, w \leq j, j < r + 1
                   PROVE  sizes'[j % BUFFER_PAGES] = PageLen(j)
        OBVIOUS
      <4>1. r % BUFFER_PAGES \in DOMAIN sizes /\ j % BUFFER_PAGES \in DOMAIN sizes
        BY TurnInBuffer DEF PagesHold, Stored
      <4>2. CASE j = r
        BY <2>3, <2>4, <2>6, <4>1, <4>2
      <4>3. CASE j # r
        <5>1. w \leq r /\ r < w + BUFFER_PAGES /\ j < w + BUFFER_PAGES
          BY <1>3, <1>5, Pages
        <5>2. j % BUFFER_PAGES # r % BUFFER_PAGES
          BY <4>3, <5>1, ApartInBuffer
        <5>3. sizes[j % BUFFER_PAGES] = PageLen(j)
          BY <2>5, <4>3 DEF PagesHold, Stored
        <5> QED BY <2>3, <2>4, <4>1, <5>2, <5>3
      <4> QED BY <4>2, <4>3
    <3>4. \A j \in Nat : w \leq j /\ j < r + 1 =>
            pages'[j % BUFFER_PAGES] = PageBytes(j, Coded(e))
      BY <2>3, <2>5 DEF PagesHold, Stored
    <3> QED BY <2>5, <3>1, <3>2, <3>3, <3>4 DEF Stored
  <2>9. Encrypts(e)'
    BY <1>2, <2>2 DEF PagesHold, Encrypts, Coded
  <2>10. Sends(w)'
    BY <1>2, <2>2, <2>3 DEF PagesHold, Sends, Sent
  <2> QED BY <2>4, <2>7, <2>8, <2>9, <2>10 DEF PagesHold
<1>6. CASE PR \notin {10, 12}
  <2>1. /\ Instr(read_proc)[1] \in
             {"pipe", "fork", "exit", "try", "getch", "signal", "wait", "next page"}
        /\ Instr(read_proc)[1] = "try" => PR = 7 /\ Instr(read_proc)[3] = 16
        /\ Instr(read_proc)[1] = "next page" => PR = 15 /\ Instr(read_proc)[2] = 9
    <3>1. \A l \in DOMAIN memkrypt_read \ {10, 12} :
            /\ memkrypt_read[l][1] \in
                 {"pipe", "fork", "exit", "try", "getch", "signal", "wait", "next page"}
            /\ memkrypt_read[l][1] = "try" => l = 7 /\ memkrypt_read[l][3] = 16
            /\ memkrypt_read[l][1] = "next page" => l = 15 /\ memkrypt_read[l][2] = 9
      <4> DEFINE Kind(l) == /\ memkrypt_read[l][1] \in {"pipe", "fork", "exit", "try", "getch",
                                                        "signal", "wait", "next page"}
                            /\ memkrypt_read[l][1] = "try" => l = 7 /\ memkrypt_read[l][3] = 16
                            /\ memkrypt_read[l][1] = "next page" =>
                                 l = 15 /\ memkrypt_read[l][2] = 9
      <4>1. \A l \in {1, 2, 3, 4} : Kind(l)
        BY MemkryptRead
      <4>2. \A l \in {5, 6, 7, 8} : Kind(l)
        BY MemkryptRead
      <4>3. \A l \in {9, 11, 13} : Kind(l)
        BY MemkryptRead
      <4>4. \A l \in {14, 15, 16} : Kind(l)
        BY MemkryptRead
      <4>5. DOMAIN memkrypt_read = {1, 2, 3, 4, 5, 6, 7, 8, 9, 10, 11, 12, 13, 14, 15, 16}
        BY MemkryptRead
      <4> HIDE DEF Kind
      <4>6. \A l \in DOMAIN memkrypt_read \ {10, 12} : Kind(l)
        BY <4>1, <4>2, <4>3, <4>4, <4>5
      <4> QED BY <4>6 DEF Kind
    <3>2. PR \in DOMAIN memkrypt_read \ {10, 12}
      BY <1>6, MemkryptRead DEF Places
    <3> QED BY <1>1, <3>1, <3>2
  <2>2. /\ PagesKept /\ OthersStay(read_proc)
        /\ PR' = PR \/ PR' = PR + 1 \/ (PR = 7 /\ PR' = 16) \/ (PR = 15 /\ PR' = 9)
    <3>1. /\ PagesKept /\ OthersStay(read_proc)
          /\ \/ Pc(read_proc)' = Pc(read_proc) \/ Pc(read_proc)' = Pc(read_proc) + 1
             \/ Instr(read_proc)[1] = "try" /\ Pc(read_proc)' = Instr(read_proc)[3]
             \/ Instr(read_proc)[1] = "next page" /\ Pc(read_proc)' = Instr(read_proc)[2]
      BY <1>1, <2>1, OthersKeepPages
    <3> QED BY <2>1, <3>1 DEF PR
  <2>3. Reads(i)' = Reads(r) /\ Sized(i)' = Sized(r)
    BY <1>6, <2>2 DEF Reads, Sized, Places
  <2>4. PR' \in 11 .. 14 => PR \in 11 .. 14 /\ i = r
    BY <1>6, <2>2 DEF Places
  <2>5. ReadsFile(i)'
    BY <1>1, <2>2, <2>3, <2>4 DEF PagesHold, ReadsFile, PagesKept
  <2>6. Stored(i, e, w)'
    <3>1. Coded(e)' = Coded(e)
      BY <1>2, <2>2 DEF Coded
    <3> QED BY <2>2, <2>3, <3>1 DEF PagesHold, Stored, PagesKept
  <2>7. Encrypts(e)'
    BY <1>2, <2>2 DEF PagesHold, Encrypts, Coded
  <2>8. Sends(w)'
    BY <1>2, <2>2 DEF PagesHold, Sends, Sent, PagesKept
  <2> QED BY <2>5, <2>6, <2>7, <2>8 DEF PagesHold
<1> QED BY <1>4, <1>5, <1>6

LEMMA EncryptKeepsContents ==
  ASSUME Arrays, Wires, Places, Calling, program = "memkrypt", Runs(encrypt_proc),
         NEW first \in Nat, NEW r \in Nat, NEW e \in Nat, NEW w \in Nat,
         Counted(first, r, e, w), Turns(r, e, w), PagesHold(r, e, w),
         NEW i \in Nat, i = IF PE = 7 /\ PE' = 8 THEN e + 1 ELSE e
  PROVE  PagesHold(r, i, w)'
<1>1. Instr(encrypt_proc) = memkrypt_encrypt[PE] /\ encrypt_proc \in Tasks
  BY MemkryptInstr, ThreeProcesses
<1>2. OthersStay(encrypt_proc) =>
        /\ PR' = PR /\ Siz(read_proc)' = Siz(read_proc)
        /\ PW' = PW /\ Num(write_proc)' = Num(write_proc) /\ Siz(write_proc)' = Siz(write_proc)
  BY ThreeProcesses DEF OthersStay, PR, PW
<1>3. /\ e + (IF PE \in 3 .. 7 THEN 1 ELSE 0) \leq r /\ w \leq e
      /\ r + (IF PR \in 10 .. 14 THEN 1 ELSE 0) \leq w + BUFFER_PAGES
  BY PagesApart
<1>4. Reads(r) \in Nat /\ r \leq Reads(r) /\ Reads(r) \leq w + BUFFER_PAGES
      /\ Sized(r) \in Nat /\ r \leq Sized(r)
  BY <1>3, Pages DEF Reads, Sized
<1>5. OthersStay(encrypt_proc) => Reads(r)' = Reads(r) /\ Sized(r)' = Sized(r)
  BY <1>2 DEF Reads, Sized
<1>6. CASE PE = 4
  <2>1. Instr(encrypt_proc)[1] = "get size"
    BY <1>1, <1>6, MemkryptEncrypt
  <2>2. Worked(encrypt_proc) /\ OthersStay(encrypt_proc)
    BY <1>1, <2>1, WorksOnItsPage DEF Alone
  <2>3. /\ Siz(encrypt_proc)' = sizes[Idx(encrypt_proc)]
        /\ Num(encrypt_proc)' = Num(encrypt_proc)
        /\ PE' = PE + 1 /\ UNCHANGED <<pages, sizes, offset, sent>>
    BY <2>1, <2>2 DEF Worked, PE
  <2>4. Idx(encrypt_proc) = e % BUFFER_PAGES /\ PE' = 5 /\ i = e
    BY <1>6, <2>3 DEF Turns
  <2>5. Coded(e) = e /\ Coded(e)' = e
    BY <1>6, <2>4 DEF Coded
  <2>6. sizes[e % BUFFER_PAGES] = PageLen(e)
    BY <1>3, <1>4, <1>6 DEF PagesHold, Stored
  <2>7. ReadsFile(r)'
    BY <1>2, <1>5, <2>2, <2>3 DEF PagesHold, ReadsFile
  <2>8. Stored(r, e, w)'
    BY <1>5, <2>2, <2>3, <2>5 DEF PagesHold, Stored
  <2>9. Encrypts(e)'
    BY <2>3, <2>4, <2>5, <2>6 DEF PagesHold, Encrypts
  <2>10. Sends(w)'
    BY <1>2, <2>2, <2>3 DEF PagesHold, Sends, Sent
  <2> QED BY <2>4, <2>7, <2>8, <2>9, <2>10 DEF PagesHold
<1>7. CASE PE = 6
  <2>1. Instr(encrypt_proc)[1] = "encrypt page"
    BY <1>1, <1>7, MemkryptEncrypt
  <2>2. Worked(encrypt_proc) /\ OthersStay(encrypt_proc)
    BY <1>1, <2>1, WorksOnItsPage DEF Alone
  <2>3. /\ pages' = [pages EXCEPT ![Idx(encrypt_proc)] =
                       Encrypted(pages[Idx(encrypt_proc)], Num(encrypt_proc))]
        /\ Siz(encrypt_proc)' = Siz(encrypt_proc)
        /\ Num(encrypt_proc)' = Num(encrypt_proc) + Siz(encrypt_proc)
        /\ PE' = PE + 1 /\ UNCHANGED <<sizes, offset, sent>>
    BY <2>1, <2>2 DEF Worked, PE
  <2>4. Idx(encrypt_proc) = e % BUFFER_PAGES /\ PE' = 7 /\ i = e
    BY <1>7, <2>3 DEF Turns
  <2>5. Coded(e) = e /\ Coded(e)' = e + 1
    BY <1>7, <2>4 DEF Coded
  <2>6. Num(encrypt_proc) = At(e) /\ Siz(encrypt_proc) = PageLen(e)
    BY <1>7, <2>5 DEF PagesHold, Encrypts
  <2>7. pages[e % BUFFER_PAGES] = PageBytes(e, e)
    BY <1>3, <1>4, <1>7, <2>5 DEF PagesHold, Stored
  <2>8. Encrypted(PageBytes(e, e), At(e)) = PageBytes(e, e + 1)
    <3>1. At(e) \in Nat /\ PageLen(e) \in Nat
      BY FilePages
    <3> QED BY <3>1 DEF Encrypted, PageBytes, OutByte
  <2>9. ReadsFile(r)'
    BY <1>2, <1>5, <2>2, <2>3 DEF PagesHold, ReadsFile
  <2>10. Stored(r, e, w)'
    <3>1. DOMAIN pages' = 0 .. BUFFER_PAGES - 1 /\ DOMAIN sizes' = 0 .. BUFFER_PAGES - 1
      BY <2>3 DEF PagesHold, Stored
    <3>2. \A j \in Nat : w \leq j /\ j < Reads(r) =>
            pages'[j % BUFFER_PAGES] = PageBytes(j, e + 1)
      <4> SUFFICES ASSUME NEW j \in Nat, w \leq j, j < Reads(r)
                   PROVE  pages'[j % BUFFER_PAGES] = PageBytes(j, e + 1)
        OBVIOUS
      <4>1. e % BUFFER_PAGES \in DOMAIN pages /\ j % BUFFER_PAGES \in DOMAIN pages
        BY TurnInBuffer DEF PagesHold, Stored
      <4>2. CASE j = e
        BY <2>3, <2>4, <2>6, <2>7, <2>8, <4>1, <4>2
      <4>3. CASE j # e
        <5>1. e < w + BUFFER_PAGES /\ j < w + BUFFER_PAGES
          BY <1>3, <1>4, <1>7, Pages
        <5>2. j % BUFFER_PAGES # e % BUFFER_PAGES
          BY <1>3, <4>3, <5>1, ApartInBuffer
        <5>3. pages[j % BUFFER_PAGES] = PageBytes(j, e)
          BY <2>5 DEF PagesHold, Stored
        <5>4. PageBytes(j, e) = PageBytes(j, e + 1)
          <6>1. j < e <=> j < e + 1
            BY <4>3
          <6> QED BY <6>1 DEF PageBytes
        <5> QED BY <2>3, <2>4, <4>1, <5>2, <5>3, <5>4
      <4> QED BY <4>2, <4>3
    <3>3. \A j \in Nat : w \leq j /\ j < Sized(r) => sizes'[j % BUFFER_PAGES] = PageLen(j)
      BY <2>3 DEF PagesHold, Stored
    <3> QED BY <1>5, <2>2, <2>5, <3>1, <3>2, <3>3 DEF Stored
  <2>11. Encrypts(e)'
    <3>1. At(e + 1) = At(e) + PageLen(e)
      BY FilePages
    <3> QED BY <2>3, <2>4, <2>5, <2>6, <3>1 DEF Encrypts
  <2>12. Sends(w)'
    BY <1>2, <2>2, <2>3 DEF PagesHold, Sends, Sent
  <2> QED BY <2>4, <2>9, <2>10, <2>11, <2>12 DEF PagesHold
<1>8. CASE PE \notin {4, 6}
  <2>1. /\ Instr(encrypt_proc)[1] \in
             {"pipe", "fork", "exit", "try", "getch", "signal", "wait", "next page"}
        /\ Instr(encrypt_proc)[1] # "try"
        /\ Instr(encrypt_proc)[1] = "next page" => PE = 8 /\ Instr(encrypt_proc)[2] = 2
    <3>1. \A l \in DOMAIN memkrypt_encrypt \ {4, 6} :
            /\ memkrypt_encrypt[l][1] \in
                 {"pipe", "fork", "exit", "try", "getch", "signal", "wait", "next page"}
            /\ memkrypt_encrypt[l][1] # "try"
            /\ memkrypt_encrypt[l][1] = "next page" => l = 8 /\ memkrypt_encrypt[l][2] = 2
      BY MemkryptEncrypt
    <3>2. PE \in DOMAIN memkrypt_encrypt \ {4, 6}
      BY <1>8, MemkryptEncrypt DEF Places
    <3> QED BY <1>1, <3>1, <3>2
  <2>2. /\ PagesKept /\ OthersStay(encrypt_proc)
        /\ PE' = PE \/ PE' = PE + 1 \/ (PE = 8 /\ PE' = 2)
    <3>1. /\ PagesKept /\ OthersStay(encrypt_proc)
          /\ \/ Pc(encrypt_proc)' = Pc(encrypt_proc) \/ Pc(encrypt_proc)' = Pc(encrypt_proc) + 1
             \/ Instr(encrypt_proc)[1] = "try" /\ Pc(encrypt_proc)' = Instr(encrypt_proc)[3]
             \/ /\ Instr(encrypt_proc)[1] = "next page"
                /\ Pc(encrypt_proc)' = Instr(encrypt_proc)[2]
      BY <1>1, <2>1, OthersKeepPages
    <3> QED BY <2>1, <3>1 DEF PE
  <2>3. Coded(i)' = Coded(e)
    BY <1>8, <2>2 DEF Coded, Places
  <2>4. PE' \in 5 .. 7 => PE \in 5 .. 7 /\ i = e
    BY <1>8, <2>2 DEF Places
  <2>5. ReadsFile(r)'
    BY <1>2, <1>5, <2>2 DEF PagesHold, ReadsFile, PagesKept
  <2>6. Stored(r, i, w)'
    BY <1>5, <2>2, <2>3 DEF PagesHold, Stored, PagesKept
  <2>7. Encrypts(i)'
    BY <1>1, <2>2, <2>3, <2>4 DEF PagesHold, Encrypts, PagesKept
  <2>8. Sends(w)'
    BY <1>2, <2>2 DEF PagesHold, Sends, Sent, PagesKept
  <2> QED BY <2>5, <2>6, <2>7, <2>8 DEF PagesHold
<1> QED BY <1>6, <1>7, <1>8

LEMMA WriteKeepsContents ==
  ASSUME Arrays, Wires, Places, Calling, program = "memkrypt", Runs(write_proc),
         NEW first \in Nat, NEW r \in Nat, NEW e \in Nat, NEW w \in Nat,
         Counted(first, r, e, w), Turns(r, e, w), PagesHold(r, e, w),
         NEW i \in Nat, i = IF PW = 7 /\ PW' = 8 THEN w + 1 ELSE w
  PROVE  PagesHold(r, e, i)'
<1>1. Instr(write_proc) = memkrypt_write[PW] /\ write_proc \in Tasks
  BY MemkryptInstr, ThreeProcesses
<1>2. OthersStay(write_proc) =>
        /\ PR' = PR /\ Siz(read_proc)' = Siz(read_proc)
        /\ PE' = PE /\ Num(encrypt_proc)' = Num(encrypt_proc)
        /\ Siz(encrypt_proc)' = Siz(encrypt_proc)
  BY ThreeProcesses DEF OthersStay, PR, PE
<1>3. e \leq r /\ w + (IF PW \in 3 .. 7 THEN 1 ELSE 0) \leq e
  BY PagesApart
<1>4. /\ Reads(r) \in Nat /\ r \leq Reads(r) /\ Sized(r) \in Nat /\ r \leq Sized(r)
      /\ Coded(e) \in Nat /\ e \leq Coded(e)
  BY DEF Reads, Sized, Coded
<1>5. OthersStay(write_proc) =>
        Reads(r)' = Reads(r) /\ Sized(r)' = Sized(r) /\ Coded(e)' = Coded(e)
  BY <1>2 DEF Reads, Sized, Coded
<1>6. At(w) \in Nat /\ PageLen(w) \in Nat /\ At(w + 1) = At(w) + PageLen(w)
  BY FilePages
<1>7. CASE PW = 4
  <2>1. Instr(write_proc)[1] = "get size"
    BY <1>1, <1>7, MemkryptWrite
  <2>2. Worked(write_proc) /\ OthersStay(write_proc)
    BY <1>1, <2>1, WorksOnItsPage DEF Alone
  <2>3. /\ Siz(write_proc)' = sizes[Idx(write_proc)]
        /\ Num(write_proc)' = Num(write_proc)
        /\ PW' = PW + 1 /\ UNCHANGED <<pages, sizes, offset, sent>>
    BY <2>1, <2>2 DEF Worked, PW
  <2>4. Idx(write_proc) = w % BUFFER_PAGES /\ PW' = 5 /\ i = w
    BY <1>7, <2>3 DEF Turns
  <2>5. sizes[w % BUFFER_PAGES] = PageLen(w)
    BY <1>3, <1>4, <1>7 DEF PagesHold, Stored
  <2>6. ReadsFile(r)'
    BY <1>2, <1>5, <2>2, <2>3 DEF PagesHold, ReadsFile
  <2>7. Stored(r, e, w)'
    BY <1>5, <2>2, <2>3 DEF PagesHold, Stored
  <2>8. Encrypts(e)'
    BY <1>2, <1>5, <2>2 DEF PagesHold, Encrypts
  <2>9. Sends(w)'
    BY <1>7, <2>3, <2>4, <2>5 DEF PagesHold, Sends, Sent
  <2> QED BY <2>4, <2>6, <2>7, <2>8, <2>9 DEF PagesHold
<1>8. CASE PW = 6
  <2>1. Instr(write_proc)[1] = "send page"
    BY <1>1, <1>8, MemkryptWrite
  <2>2. Worked(write_proc) /\ OthersStay(write_proc)
    BY <1>1, <2>1, WorksOnItsPage DEF Alone
  <2>3. UNCHANGED <<pages, sizes, offset>> /\ Siz(write_proc)' = Siz(write_proc)
    BY <2>1, <2>2 DEF Worked
  <2>4. Idx(write_proc) = w % BUFFER_PAGES /\ i = w
    BY <1>8 DEF Turns
  <2>5. Siz(write_proc) = PageLen(w) /\ Num(write_proc) \in 0 .. PageLen(w)
        /\ sent = FirstBytes(At(w) + Num(write_proc))
    BY <1>8 DEF PagesHold, Sends, Sent
  <2>6. ReadsFile(r)'
    BY <1>2, <1>5, <2>2, <2>3 DEF PagesHold, ReadsFile
  <2>7. Stored(r, e, w)'
    BY <1>5, <2>2, <2>3 DEF PagesHold, Stored
  <2>8. Encrypts(e)'
    BY <1>2, <1>5, <2>2 DEF PagesHold, Encrypts
  <2>9. Sends(w)'
    <3>1. CASE Num(write_proc) < Siz(write_proc)
      <4>1. /\ sent' = Append(sent, IF Num(write_proc) < Len(pages[Idx(write_proc)])
                                    THEN pages[Idx(write_proc)][Num(write_proc) + 1] ELSE 0)
            /\ Num(write_proc)' = Num(write_proc) + 1 /\ PW' = PW
        BY <2>1, <2>2, <3>1 DEF Worked, PW
      <4>2. pages[w % BUFFER_PAGES] = PageBytes(w, Coded(e)) /\ w < Coded(e)
        BY <1>3, <1>4, <1>8 DEF PagesHold, Stored
      <4>3. /\ Len(PageBytes(w, Coded(e))) = PageLen(w)
            /\ PageBytes(w, Coded(e))[Num(write_proc) + 1] =
                 OutByte(At(w) + Num(write_proc) + 1)
        <5>1. Num(write_proc) + 1 \in 1 .. PageLen(w)
              /\ At(w) + (Num(write_proc) + 1) = At(w) + Num(write_proc) + 1
          BY <1>6, <2>5, <3>1
        <5> QED BY <1>6, <4>2, <5>1 DEF PageBytes
      <4>4. sent' = Append(sent, OutByte(At(w) + Num(write_proc) + 1))
        BY <2>4, <2>5, <3>1, <4>1, <4>2, <4>3
      <4>5. sent' = FirstBytes(At(w) + Num(write_proc) + 1)
        <5>1. At(w) + Num(write_proc) \in Nat
          BY <1>6, <2>5
        <5> QED BY <2>5, <4>4, <5>1, OneMoreByte
      <4>6. PW' = 6 /\ Sent(w)' = At(w) + Num(write_proc) + 1
        BY <1>6, <1>8, <2>5, <4>1 DEF Sent
      <4>7. Num(write_proc)' \in 0 .. PageLen(w)
        BY <1>6, <2>5, <3>1, <4>1
      <4> QED BY <2>3, <2>5, <4>5, <4>6, <4>7 DEF Sends
    <3>2. CASE ~ (Num(write_proc) < Siz(write_proc))
      <4>1. Num(write_proc)' = 0 /\ PW' = PW + 1 /\ UNCHANGED sent
        BY <2>1, <2>2, <3>2 DEF Worked, PW
      <4>2. PW' = 7 /\ Num(write_proc) = PageLen(w)
        BY <1>6, <1>8, <2>5, <3>2, <4>1
      <4>3. Sent(w)' = At(w) + Num(write_proc)
        <5>1. Sent(w)' = At(w + 1) + 0
          BY <4>1, <4>2 DEF Sent
        <5> QED BY <1>6, <4>2, <5>1
      <4> QED BY <2>3, <2>5, <4>1, <4>2, <4>3 DEF Sends
    <3> QED BY <3>1, <3>2
  <2> QED BY <2>4, <2>6, <2>7, <2>8, <2>9 DEF PagesHold
<1>9. CASE PW \notin {4, 6}
  <2>1. /\ Instr(write_proc)[1] \in
             {"pipe", "fork", "exit", "try", "getch", "signal", "wait", "next page"}
        /\ Instr(write_proc)[1] = "try" => PW = 1 /\ Instr(write_proc)[3] = 9
        /\ Instr(write_proc)[1] = "next page" => PW = 8 /\ Instr(write_proc)[2] = 2
    <3>1. \A l \in DOMAIN memkrypt_write \ {4, 6} :
            /\ memkrypt_write[l][1] \in
                 {"pipe", "fork", "exit", "try", "getch", "signal", "wait", "next page"}
            /\ memkrypt_write[l][1] = "try" => l = 1 /\ memkrypt_write[l][3] = 9
            /\ memkrypt_write[l][1] = "next page" => l = 8 /\ memkrypt_write[l][2] = 2
      BY MemkryptWrite
    <3>2. PW \in DOMAIN memkrypt_write \ {4, 6}
      BY <1>9, MemkryptWrite DEF Places
    <3> QED BY <1>1, <3>1, <3>2
  <2>2. /\ PagesKept /\ OthersStay(write_proc)
        /\ PW' = PW \/ PW' = PW + 1 \/ (PW = 1 /\ PW' = 9) \/ (PW = 8 /\ PW' = 2)
    <3>1. /\ PagesKept /\ OthersStay(write_proc)
          /\ \/ Pc(write_proc)' = Pc(write_proc) \/ Pc(write_proc)' = Pc(write_proc) + 1
             \/ Instr(write_proc)[1] = "try" /\ Pc(write_proc)' = Instr(write_proc)[3]
             \/ Instr(write_proc)[1] = "next page" /\ Pc(write_proc)' = Instr(write_proc)[2]
      BY <1>1, <2>1, OthersKeepPages
    <3> QED BY <2>1, <3>1 DEF PW
  <2>3. Num(write_proc)' = Num(write_proc) /\ Siz(write_proc)' = Siz(write_proc)
    BY <1>1, <2>2 DEF PagesKept
  <2>4. Num(write_proc) = IF PW = 6 THEN Num(write_proc) ELSE 0
    BY DEF PagesHold, Sends
  <2>5. PW' \in 5 .. 7 => PW \in 5 .. 7 /\ i = w
    BY <1>9, <2>2 DEF Places
  <2>6. /\ (IF PW' = 7 THEN i + 1 ELSE i) = (IF PW = 7 THEN w + 1 ELSE w)
        /\ w \leq i
    BY <1>9, <2>2 DEF Places
  <2>7. Sent(i)' = Sent(w)
    BY <2>3, <2>6 DEF Sent
  <2>8. ReadsFile(r)'
    BY <1>2, <1>5, <2>2 DEF PagesHold, ReadsFile, PagesKept
  <2>9. Stored(r, e, i)'
    <3>1. \A j \in Nat : i \leq j => w \leq j
      BY <2>6
    <3> QED BY <1>5, <2>2, <3>1 DEF PagesHold, Stored, PagesKept
  <2>10. Encrypts(e)'
    BY <1>2, <1>5, <2>2 DEF PagesHold, Encrypts
  <2>11. Sends(i)'
    <3>1. Num(write_proc) = 0
      BY <1>9, <2>4
    <3>2. 0 \in 0 .. (IF PW' = 6 THEN PageLen(i) ELSE 0)
      BY FilePages
    <3> QED BY <2>2, <2>3, <2>5, <2>7, <3>1, <3>2 DEF PagesHold, Sends, PagesKept
  <2> QED BY <2>8, <2>9, <2>10, <2>11 DEF PagesHold
<1> QED BY <1>7, <1>8, <1>9

-----------------------------------------------------------------------------
LEMMA StartInOrder == Start => SentInOrder
<1> SUFFICES ASSUME Start, program = "memkrypt"
             PROVE  /\ Arrays /\ Wires /\ Places /\ Calling
                    /\ Counted(0, 0, 0, 0) /\ Turns(0, 0, 0) /\ PagesHold(0, 0, 0)
  BY DEF SentInOrder
<1>1. /\ DOMAIN klass = Endpoints /\ DOMAIN pair = Endpoints
      /\ DOMAIN bytes_available = Endpoints /\ DOMAIN fds = Tasks
      /\ \A t \in Tasks : fds[t] = {}
      /\ proc = [t \in Tasks |-> [pc |-> 1, buffer |-> <<>>, sz |-> 0, i |-> 0, n |-> 0]]
      /\ DOMAIN ends = {}
  BY DEF Start, Init
<1>2. DOMAIN call = Tasks /\ call[read_proc] = NoCall
      /\ \A t \in Tasks \ {read_proc} : call[t] = Unborn
  <2>1. PICK init \in Tasks : call = [t \in Tasks |-> IF t = init THEN NoCall ELSE Unborn]
    BY DEF Start, Init
  <2>2. call[read_proc] = NoCall
    BY DEF Start
  <2>3. init = read_proc
    BY <2>1, <2>2, OpsDiffer, ThreeProcesses
  <2> QED BY <2>1, <2>2, <2>3
<1>3. Arrays
  BY <1>1, <1>2 DEF Arrays
<1>4. Born = {read_proc}
  BY <1>2, OpsDiffer, ThreeProcesses DEF Born, NONE
<1>5. Wires
  BY <1>1, <1>4, ThreeProcesses DEF Wires, AllEnds, EndsOf
<1>6. /\ PR = 1 /\ PE = 1 /\ PW = 1
      /\ Idx(read_proc) = 0 /\ Idx(encrypt_proc) = 0 /\ Idx(write_proc) = 0
      /\ Num(encrypt_proc) = 0 /\ Num(write_proc) = 0
  BY <1>1, ThreeProcesses DEF PR, PE, PW, Pc, Idx, Num
<1>7. Places
  BY <1>1, <1>4, <1>6, ThreeProcesses DEF Places
<1>8. Calling
  BY <1>2, OpsDiffer DEF Calling, InFlight, NONE
<1>9. Counted(0, 0, 0, 0)
  BY <1>1, <1>6, Pages DEF Counted, Pending
<1>10. Turns(0, 0, 0)
  <2>1. \A p \in Nat \ {0} : 0 % p = 0
    OBVIOUS
  <2>2. 0 % BUFFER_PAGES = 0
    BY <2>1, Pages
  <2> QED BY <1>6, <2>2 DEF Turns
<1>11. PagesHold(0, 0, 0)
  <2>1. DOMAIN pages = 0 .. BUFFER_PAGES - 1 /\ DOMAIN sizes = 0 .. BUFFER_PAGES - 1
        /\ offset = 0 /\ sent = <<>>
    BY DEF Start
  <2>2. Reads(0) = 0 /\ Sized(0) = 0 /\ Coded(0) = 0 /\ Sent(0) = 0
    BY <1>6, FilePages DEF Reads, Sized, Coded, Sent
  <2>3. FirstBytes(0) = <<>>
    BY DEF FirstBytes
  <2>4. ReadsFile(0)
    BY <1>6, <2>1, <2>2, FilePages DEF ReadsFile
  <2>5. Stored(0, 0, 0)
    BY <2>1, <2>2 DEF Stored
  <2>6. Encrypts(0)
    BY <1>6, <2>2, FilePages DEF Encrypts
  <2>7. Sends(0)
    BY <1>6, <2>1, <2>2, <2>3 DEF Sends
  <2> QED BY <2>4, <2>5, <2>6, <2>7 DEF PagesHold
<1> QED BY <1>3, <1>5, <1>7, <1>8, <1>9, <1>10, <1>11

LEMMA StepInOrder ==
  ASSUME SentInOrder, [Run]_<<vars, own>>
  PROVE  SentInOrder'
<1>1. CASE UNCHANGED <<vars, own>>
  <2>1. /\ UNCHANGED <<klass, pair, bytes_available, fds, call>>
        /\ UNCHANGED <<program, proc, ends, pages, sizes, offset, sent>>
    BY <1>1 DEF vars, endpoints, own
  <2>2. Arrays' = Arrays
    BY <2>1 DEF Arrays
  <2>3. Born' = Born
    BY <2>1 DEF Born
  <2>4. Wires' = Wires
    BY <2>1, <2>3 DEF Wires, Wired, EndsOf, AllEnds
  <2>5. /\ PR' = PR /\ PE' = PE /\ PW' = PW
        /\ \A t : Idx(t)' = Idx(t) /\ Num(t)' = Num(t) /\ Siz(t)' = Siz(t)
    BY <2>1 DEF PR, PE, PW, Pc, Idx, Num, Siz
  <2>6. Places' = Places
    BY <2>1, <2>3, <2>5 DEF Places
  <2>7. Calling' = Calling
    BY <2>1 DEF Calling, InFlight, Instr, Code
  <2>8. \A first, r, e, w : Counted(first, r, e, w)' = Counted(first, r, e, w)
    <3>1. \A name : Pending(name)' = Pending(name)
      BY <2>1 DEF Pending, Tokens
    <3>2. Done(read_proc)' = Done(read_proc)
      BY <2>1 DEF Done
    <3> QED BY <2>5, <3>1, <3>2 DEF Counted
  <2>9. \A r, e, w : Turns(r, e, w)' = Turns(r, e, w)
    BY <2>5 DEF Turns
  <2>10. \A r, e, w : PagesHold(r, e, w)' = PagesHold(r, e, w)
    <3>1. \A k : Reads(k)' = Reads(k) /\ Sized(k)' = Sized(k) /\ Coded(k)' = Coded(k)
                 /\ Sent(k)' = Sent(k)
      BY <2>5 DEF Reads, Sized, Coded, Sent
    <3> QED BY <2>1, <2>5, <3>1 DEF PagesHold, ReadsFile, Stored, Encrypts, Sends
  <2> QED BY <2>1, <2>2, <2>4, <2>6, <2>7, <2>8, <2>9, <2>10 DEF SentInOrder
<1>2. ASSUME NEW t \in Tasks, Runs(t) PROVE SentInOrder'
  <2>1. program' = program
    <3>1. Syscall(t) => program' = program
      BY DEF Syscall, Open, Forks, Closes, Exits, Try, Getch, WaitsForKey, own
    <3>2. Calls(t) \/ GoesOn(t) => program' = program
      BY DEF Calls, GoesOn, OnPipe
    <3> QED BY <1>2, <3>1, <3>2 DEF Runs, Local
  <2> SUFFICES ASSUME program = "memkrypt" PROVE SentInOrder'
    BY <2>1 DEF SentInOrder
  <2>2. /\ Arrays /\ Wires /\ Places /\ Calling
        /\ \E first, r, e, w \in Nat :
             Counted(first, r, e, w) /\ Turns(r, e, w) /\ PagesHold(r, e, w)
    BY DEF SentInOrder
  <2>3. PICK first \in Nat, r \in Nat, e \in Nat, w \in Nat :
          Counted(first, r, e, w) /\ Turns(r, e, w) /\ PagesHold(r, e, w)
    BY <2>2
  <2>4. /\ Alike /\ Places'
        /\ \E f, i, j, k \in Nat : Counted(f, i, j, k)' /\ Turns(i, j, k)'
           /\ PagesHold(i, j, k)'
    <3>1. t \in {read_proc, encrypt_proc, write_proc}
      BY ThreeProcesses
    <3>2. CASE t = read_proc
      <4>1. /\ Alike /\ Places'
            /\ \E f, i \in Nat : /\ i = IF PR = 14 /\ PR' = 15 THEN r + 1 ELSE r
                                 /\ Counted(f, i, e, w)' /\ Turns(i, e, w)'
        BY <1>2, <2>2, <2>3, <3>2, ReadCounts
      <4>2. PICK f \in Nat, i \in Nat : /\ i = IF PR = 14 /\ PR' = 15 THEN r + 1 ELSE r
                                        /\ Counted(f, i, e, w)' /\ Turns(i, e, w)'
        BY <4>1
      <4>3. PagesHold(i, e, w)'
        BY <1>2, <2>2, <2>3, <3>2, <4>2, ReadKeepsContents
      <4> QED BY <4>1, <4>2, <4>3
    <3>3. CASE t = encrypt_proc
      <4>1. /\ Alike /\ Places'
            /\ \E f, i \in Nat : /\ i = IF PE = 7 /\ PE' = 8 THEN e + 1 ELSE e
                                 /\ Counted(f, r, i, w)' /\ Turns(r, i, w)'
        BY <1>2, <2>2, <2>3, <3>3, EncryptCounts
      <4>2. PICK f \in Nat, i \in Nat : /\ i = IF PE = 7 /\ PE' = 8 THEN e + 1 ELSE e
                                        /\ Counted(f, r, i, w)' /\ Turns(r, i, w)'
        BY <4>1
      <4>3. PagesHold(r, i, w)'
        BY <1>2, <2>2, <2>3, <3>3, <4>2, EncryptKeepsContents
      <4> QED BY <4>1, <4>2, <4>3
    <3>4. CASE t = write_proc
      <4>1. /\ Alike /\ Places'
            /\ \E f, i \in Nat : /\ i = IF PW = 7 /\ PW' = 8 THEN w + 1 ELSE w
                                 /\ Counted(f, r, e, i)' /\ Turns(r, e, i)'
        BY <1>2, <2>2, <2>3, <3>4, WriteCounts
      <4>2. PICK f \in Nat, i \in Nat : /\ i = IF PW = 7 /\ PW' = 8 THEN w + 1 ELSE w
                                        /\ Counted(f, r, e, i)' /\ Turns(r, e, i)'
        BY <4>1
      <4>3. PagesHold(r, e, i)'
        BY <1>2, <2>2, <2>3, <3>4, <4>2, WriteKeepsContents
      <4> QED BY <4>1, <4>2, <4>3
    <3> QED BY <3>1, <3>2, <3>3, <3>4
  <2> QED BY <2>4 DEF SentInOrder, Alike
<1> QED BY <1>1, <1>2 DEF Run

LEMMA InOrderIsEncrypted == SentInOrder /\ program = "memkrypt" => SentIsEncrypted
<1> SUFFICES ASSUME SentInOrder, program = "memkrypt" PROVE SentIsEncrypted
  OBVIOUS
<1>1. PICK w \in Nat : Sends(w)
  BY DEF SentInOrder, PagesHold
<1>2. /\ At(w) \in 0 .. FILE_SIZE /\ At(w + 1) \in 0 .. FILE_SIZE /\ PageLen(w) \in Nat
      /\ At(w + 1) = At(w) + PageLen(w)
  BY FilePages
<1>3. Sent(w) \in 0 .. FILE_SIZE
  BY <1>1, <1>2, FileSize DEF Sends, Sent
<1> QED BY <1>1, <1>3, SentSoFar DEF Sends

(* The semaphores of memkrypt keep each page to one process, for any       *)
(* number of pages and any size of the pipes the semaphores are made of:   *)
(* each of the pages that the first signal gives out is at one semaphore   *)
(* or in the hands of one process (memkrypt.c, lib.c).                     *)
THEOREM Spec_PageOfOne == PipelineSpec => []PageOfOne
<1>1. Start => SentInOrder
  BY StartInOrder
<1>2. SentInOrder /\ [Run]_<<vars, own>> => SentInOrder'
  BY StepInOrder
<1>3. SentInOrder => PageOfOne
  BY CountedOnce DEF SentInOrder, PagesAtSemaphores
<1> QED BY <1>1, <1>2, <1>3, PTL DEF PipelineSpec

(* What memkrypt sends is the encrypted file from its start, byte for      *)
(* byte: the pages are sent in the order they were read in, each as it was *)
(* encrypted, for any file, any size of a page and any number of pages     *)
(* (memkrypt.c).  krypt has the same promise; it is model-checked.         *)
THEOREM Spec_MemkryptSendsTheFile ==
  PipelineSpec => [](program = "memkrypt" => SentIsEncrypted)
<1>1. Start => SentInOrder
  BY StartInOrder
<1>2. SentInOrder /\ [Run]_<<vars, own>> => SentInOrder'
  BY StepInOrder
<1>3. SentInOrder => (program = "memkrypt" => SentIsEncrypted)
  BY InOrderIsEncrypted
<1> QED BY <1>1, <1>2, <1>3, PTL DEF PipelineSpec
==============================================================================
