---------------------------- MODULE Devices_proofs ----------------------------
(***************************************************************************)
(* The count of references of device.c is exact, an exit leaves nothing    *)
(* behind, and no byte of a serial port waits with its readers asleep, for *)
(* any number of processes, descriptors, ports and slots.                  *)
(***************************************************************************)
EXTENDS Devices, TLAPS, FiniteSetTheorems, WellFoundedInduction

Devs  == Ports \cup Slots
Table == [Pids -> [Fds -> Devs \cup {NULL}]]
Calls == {NoCall, Dead} \cup [op : {"read"}, dev : Ports]
                        \cup [op : {"write"}, left : Nat \ {0}]

PortStates == [opened : BOOLEAN, read_queue : Seq(Pids),
               buffer_free : BOOLEAN, ptr_to : Nat]

TypeOK ==
  /\ devices \in Table
  /\ refcount \in [Devs -> Int]
  /\ serial \in [Ports -> PortStates]
  /\ cpuid \in [Slots -> Nat \cup {NONE}]
  /\ call \in [Pids -> Calls]

(* The queue of a port holds processes that are in a read of it, each      *)
(* once.                                                                   *)
WaitersRead ==
  \A d \in Ports : \A i \in 1 .. Len(serial[d].read_queue) :
    /\ call[serial[d].read_queue[i]] = ReadOf(d)
    /\ \A j \in 1 .. Len(serial[d].read_queue) :
         serial[d].read_queue[i] = serial[d].read_queue[j] => i = j

DeadHoldNothing ==
  \A p \in Pids : call[p] = Dead => \A fd \in Fds : devices[p][fd] = NULL

IInv == /\ TypeOK
        /\ WaitersRead
        /\ DeadHoldNothing
        /\ RefcountsCount
        /\ NobodySleepsOverData

-----------------------------------------------------------------------------
(* The least of a set of numbers is one of them. *)
LEMMA LeastIsMember ==
  ASSUME NEW S \in SUBSET Nat, S # {}
  PROVE  (CHOOSE x \in S : \A y \in S : x <= y) \in S
<1>1. PICK x \in S : \A y \in S : ~ (<<y, x>> \in OpToRel(<, Nat))
  BY NatLessThanWellFounded, WFMin
<1>2. ASSUME NEW y \in S PROVE x <= y
  <2>1. x \in Nat /\ y \in Nat
    OBVIOUS
  <2>2. y < x => <<y, x>> \in OpToRel(<, Nat)
    BY <2>1 DEF OpToRel
  <2>3. ~ (y < x)
    BY <1>1, <2>2
  <2>4. QED
    BY <2>1, <2>3
<1>3. QED
  BY <1>2

(* A descriptor beyond the table is the first of the next process. *)
LEMMA DeviceFound ==
  ASSUME TypeOK, NEW p \in Pids, NEW fd \in 0 .. MAX_FD
  PROVE  DeviceAt(p, fd) # NULL =>
           /\ DeviceAt(p, fd) \in Devs
           /\ Holder(p, fd) \in Pids /\ Entry(p, fd) \in Fds
           /\ DeviceAt(p, fd) = devices[Holder(p, fd)][Entry(p, fd)]
<1>1. Holder(p, fd) \in Pids => Entry(p, fd) \in Fds
  BY DevicesAssumption DEF Entry, Fds
<1>2. QED
  BY <1>1 DEF DeviceAt, TypeOK, Table

(* The calls a process may be in tell one another apart. *)
LEMMA CallKinds ==
  /\ NoCall \in Calls /\ Dead \in Calls
  /\ \A d \in Ports : ReadOf(d) \in Calls /\ ReadOf(d).op = "read" /\ ReadOf(d).dev = d
  /\ \A n \in Nat \ {0} : WriteOf(n) \in Calls /\ WriteOf(n).op = "write" /\ WriteOf(n).left = n
  /\ NoCall.op = "none" /\ Dead.op = "dead"
  /\ \A c \in Calls : /\ c.op = "read" => c.dev \in Ports /\ c = ReadOf(c.dev)
                      /\ c.op = "write" => c.left \in Nat \ {0}
                      /\ c.op = "dead" => c = Dead
  BY DEF Calls, NoCall, Dead, ReadOf, WriteOf

(* A port after an operation is a port. *)
LEMMA PortTypes ==
  /\ \A q \in Seq(Pids), b, o \in BOOLEAN, n \in Nat :
       /\ Port(o, q, b, n) \in PortStates
       /\ Port(o, q, b, n).read_queue = q /\ Port(o, q, b, n).buffer_free = b
  /\ TypeOK => \A d \in Ports :
       /\ Emptied(d) \in PortStates
       /\ \A q \in Seq(Pids) : Queued(d, q) \in PortStates
       /\ serial[d].read_queue \in Seq(Pids)
       /\ serial[d].opened \in BOOLEAN /\ serial[d].buffer_free \in BOOLEAN
       /\ serial[d].ptr_to \in Nat
  BY DEF TypeOK, Port, PortStates, Emptied, Queued

-----------------------------------------------------------------------------
(* The descriptors of a row, and the pairs of a table, that refer to d. *)
Of(row, d)  == {fd \in Fds : row[fd] = d}
Pairs(t, d) == {x \in Pids \X Fds : t[x[1]][x[2]] = d}

LEMMA ReferencesAreFinite ==
  ASSUME NEW t, NEW d
  PROVE  /\ IsFiniteSet(Pairs(t, d)) /\ References(t, d) = Cardinality(Pairs(t, d))
         /\ References(t, d) \in Nat
         /\ IsFiniteSet(Of(t, d)) /\ Cardinality(Of(t, d)) \in Nat
<1>1. IsFiniteSet(Pids) /\ IsFiniteSet(Fds)
  BY FS_Interval, DevicesAssumption DEF Pids, Fds
<1>2. IsFiniteSet(Pids \X Fds)
  BY <1>1, FS_Product
<1>3. IsFiniteSet(Pairs(t, d))
  BY <1>2, FS_Subset DEF Pairs
<1>4. IsFiniteSet(Of(t, d))
  BY <1>1, FS_Subset DEF Of
<1>5. QED
  BY <1>3, <1>4, FS_CardinalityType DEF References, Pairs

(* When a process's descriptors are replaced, the references to a device   *)
(* change by what the new ones refer to it more often than the old.        *)
LEMMA Recounted ==
  ASSUME NEW t \in Table, NEW u \in Table, NEW p \in Pids,
         \A q \in Pids \ {p} : u[q] = t[q], NEW d
  PROVE  References(u, d) =
           References(t, d) - Cardinality(Of(t[p], d)) + Cardinality(Of(u[p], d))
<1> DEFINE rest == {x \in (Pids \ {p}) \X Fds : t[x[1]][x[2]] = d}
<1>1. IsFiniteSet(rest) /\ Cardinality(rest) \in Nat
  <2>1. rest \subseteq Pairs(t, d)
    BY DEF Pairs
  <2>2. QED
    BY <2>1, ReferencesAreFinite, FS_Subset, FS_CardinalityType
<1>2. ASSUME NEW v \in Table, \A q \in Pids \ {p} : v[q] = t[q]
      PROVE  References(v, d) = Cardinality(rest) + Cardinality(Of(v[p], d))
  <2> DEFINE mine == {p} \X Of(v[p], d)
  <2>1. Pairs(v, d) = rest \cup mine
    BY <1>2 DEF Table, Pairs, Of
  <2>2. rest \cap mine = {}
    OBVIOUS
  <2>3. IsFiniteSet(Of(v[p], d)) /\ Cardinality(Of(v[p], d)) \in Nat
    BY ReferencesAreFinite
  <2>4. /\ IsFiniteSet({p}) /\ Cardinality({p}) = 1
    BY FS_Singleton
  <2>5. /\ IsFiniteSet(mine) /\ Cardinality(mine) = 1 * Cardinality(Of(v[p], d))
    BY <2>3, <2>4, FS_Product
  <2> HIDE DEF rest, mine
  <2>6. Cardinality(rest \cup mine) = Cardinality(rest) + Cardinality(mine) - Cardinality({})
    BY <1>1, <2>2, <2>5, FS_Union
  <2>7. References(v, d) = Cardinality(rest \cup mine)
    BY <2>1, ReferencesAreFinite
  <2>8. QED
    BY <1>1, <2>3, <2>5, <2>6, <2>7, FS_EmptySet
<1> HIDE DEF rest
<1>3. /\ References(t, d) = Cardinality(rest) + Cardinality(Of(t[p], d))
      /\ References(u, d) = Cardinality(rest) + Cardinality(Of(u[p], d))
  BY <1>2
<1>4. Cardinality(Of(t[p], d)) \in Nat /\ Cardinality(Of(u[p], d)) \in Nat
  BY ReferencesAreFinite
<1>5. QED
  BY <1>1, <1>3, <1>4

(* One descriptor set to another device: one reference more to the one and *)
(* one less to the other.                                                  *)
LEMMA OneMoved ==
  ASSUME NEW t \in Table, NEW u \in Table, NEW p \in Pids, NEW fd \in Fds,
         \A q \in Pids \ {p} : u[q] = t[q],
         \A x \in Fds \ {fd} : u[p][x] = t[p][x],
         t[p][fd] # u[p][fd], NEW d
  PROVE  /\ d = u[p][fd] => References(u, d) = References(t, d) + 1
         /\ d # u[p][fd] /\ d = t[p][fd] => References(u, d) = References(t, d) - 1
         /\ d # u[p][fd] /\ d # t[p][fd] => References(u, d) = References(t, d)
<1>1. References(u, d) =
        References(t, d) - Cardinality(Of(t[p], d)) + Cardinality(Of(u[p], d))
  BY Recounted
<1>2. /\ IsFiniteSet(Of(t[p], d)) /\ Cardinality(Of(t[p], d)) \in Nat
      /\ References(t, d) \in Nat
  BY ReferencesAreFinite
<1>3. CASE d = u[p][fd]
  <2>1. Of(u[p], d) = Of(t[p], d) \cup {fd} /\ fd \notin Of(t[p], d)
    BY <1>3 DEF Of
  <2>2. Cardinality(Of(t[p], d) \cup {fd}) = Cardinality(Of(t[p], d)) + 1
    BY <1>2, <2>1, FS_AddElement
  <2>3. Cardinality(Of(u[p], d)) = Cardinality(Of(t[p], d)) + 1
    BY <2>1, <2>2, Zenon
  <2>4. QED
    BY <1>1, <1>2, <1>3, <2>3
<1>4. CASE d # u[p][fd] /\ d = t[p][fd]
  <2>1. Of(u[p], d) = Of(t[p], d) \ {fd} /\ fd \in Of(t[p], d)
    BY <1>4 DEF Of
  <2>2. Cardinality(Of(t[p], d) \ {fd}) = Cardinality(Of(t[p], d)) - 1
    BY <1>2, <2>1, FS_RemoveElement
  <2>3. Cardinality(Of(u[p], d)) = Cardinality(Of(t[p], d)) - 1
    BY <2>1, <2>2, Zenon
  <2>4. QED
    BY <1>1, <1>2, <1>4, <2>3
<1>5. CASE d # u[p][fd] /\ d # t[p][fd]
  <2>1. Of(u[p], d) = Of(t[p], d)
    BY <1>5 DEF Of
  <2>2. QED
    BY <1>1, <1>2, <1>5, <2>1
<1>6. QED
  BY <1>3, <1>4, <1>5

-----------------------------------------------------------------------------
(* What Described does to the table and the count. *)
LEMMA DescribedCounts ==
  ASSUME TypeOK, NEW p \in Pids, NEW d \in Devs, Described(p, d)
  PROVE  /\ devices' \in Table /\ refcount' \in [Devs -> Int]
         /\ \A q \in Pids \ {p} : devices'[q] = devices[q]
         /\ RefcountsCount => RefcountsCount'
<1> DEFINE free == {fd \in Fds : devices[p][fd] = NULL}
           fd   == CHOOSE x \in free : \A y \in free : x <= y
<1>1. CASE free = {}
  BY <1>1 DEF Described, TypeOK, RefcountsCount, References
<1>2. CASE free # {}
  <2>1. fd \in Fds /\ devices[p][fd] = NULL
    <3>1. free \in SUBSET Nat
      BY DevicesAssumption DEF Fds
    <3>2. fd \in free
      BY <1>2, <3>1, LeastIsMember
    <3>3. QED
      BY <3>2
  <2>2. /\ devices' = [devices EXCEPT ![p][fd] = d]
        /\ refcount' = [refcount EXCEPT ![d] = @ + 1]
    BY <1>2 DEF Described
  <2> HIDE DEF fd
  <2>3. devices' = [devices EXCEPT ![p] = [devices[p] EXCEPT ![fd] = d]]
    BY <2>2
  <2>4. devices \in Table /\ refcount \in [Devs -> Int]
    BY DEF TypeOK
  <2>5. /\ devices' \in Table /\ refcount' \in [Devs -> Int]
        /\ \A q \in Pids \ {p} : devices'[q] = devices[q]
        /\ \A x \in Fds \ {fd} : devices'[p][x] = devices[p][x]
        /\ devices'[p][fd] = d
    BY <2>1, <2>2, <2>3, <2>4 DEF Table
  <2>6. ASSUME RefcountsCount, NEW x \in Devs PROVE refcount'[x] = References(devices', x)
    <3>1. x # NULL /\ d # NULL
      BY DevicesAssumption DEF Devs, Ports, Slots, NULL
    <3>2. /\ x = d => References(devices', x) = References(devices, x) + 1
          /\ x # d => References(devices', x) = References(devices, x)
      BY <2>1, <2>4, <2>5, <3>1, OneMoved
    <3>3. refcount[x] = References(devices, x)
      BY <2>6 DEF RefcountsCount, Devs
    <3>4. QED
      BY <2>2, <2>4, <3>2, <3>3
  <2>7. QED
    BY <2>5, <2>6 DEF RefcountsCount, Devs
<1>3. QED
  BY <1>1, <1>2

LEMMA OpenDescribes ==
  ASSUME NEW p \in Pids, open(p)
  PROVE  \E d \in Devs : Described(p, d)
<1>1. ASSUME proc_cpuid_open(p) PROVE \E d \in Slots : Described(p, d)
  <2> DEFINE free == {d \in Slots : cpuid[d] = NONE}
  <2>1. free \in SUBSET Nat /\ free # {}
    BY <1>1, DevicesAssumption DEF Slots, proc_cpuid_open
  <2>2. (CHOOSE x \in free : \A y \in free : x <= y) \in free
    BY <2>1, LeastIsMember
  <2>3. QED
    BY <1>1, <2>2 DEF proc_cpuid_open
<1>2. QED
  BY <1>1 DEF open, serial_open, Devs

(* What each kind of step leaves of the table and the count. *)
LEMMA CountsKept ==
  ASSUME TypeOK, DeadHoldNothing, Next
  PROVE  /\ devices' \in Table /\ refcount' \in [Devs -> Int]
         /\ RefcountsCount => RefcountsCount'
<1>0. devices \in Table /\ refcount \in [Devs -> Int]
  BY DEF TypeOK
<1>1. ASSUME NEW p \in Pids, NEW fd \in 0 .. MAX_FD, close(p, fd)
      PROVE  /\ devices' \in Table /\ refcount' \in [Devs -> Int]
             /\ RefcountsCount => RefcountsCount'
  <2> DEFINE h == Holder(p, fd)
             e == Entry(p, fd)
             d == DeviceAt(p, fd)
  <2>1. h \in Pids /\ e \in Fds /\ d \in Devs /\ d # NULL /\ d = devices[h][e]
    BY <1>1, DeviceFound DEF close
  <2>2. /\ devices' = [devices EXCEPT ![h][e] = NULL]
        /\ refcount' = [refcount EXCEPT ![d] = @ - 1]
    BY <1>1 DEF close
  <2> HIDE DEF h, e, d
  <2>3. devices' = [devices EXCEPT ![h] = [devices[h] EXCEPT ![e] = NULL]]
    BY <2>2
  <2>4. /\ devices' \in Table /\ refcount' \in [Devs -> Int]
        /\ \A q \in Pids \ {h} : devices'[q] = devices[q]
        /\ \A x \in Fds \ {e} : devices'[h][x] = devices[h][x]
        /\ devices'[h][e] = NULL
    BY <1>0, <2>1, <2>2, <2>3 DEF Table
  <2>5. ASSUME RefcountsCount, NEW x \in Devs PROVE refcount'[x] = References(devices', x)
    <3>1. x # NULL
      BY DevicesAssumption DEF Devs, Ports, Slots, NULL
    <3>2. /\ x = d => References(devices', x) = References(devices, x) - 1
          /\ x # d => References(devices', x) = References(devices, x)
      BY <1>0, <2>1, <2>4, <3>1, OneMoved
    <3>3. refcount[x] = References(devices, x)
      BY <2>5 DEF RefcountsCount, Devs
    <3>4. QED
      BY <1>0, <2>1, <2>2, <3>2, <3>3
  <2>6. QED
    BY <2>4, <2>5 DEF RefcountsCount, Devs
<1>2. ASSUME NEW p \in Pids, NEW child \in Pids, fork(p, child)
      PROVE  /\ devices' \in Table /\ refcount' \in [Devs -> Int]
             /\ RefcountsCount => RefcountsCount'
  <2>1. /\ devices' = [devices EXCEPT ![child] = devices[p]]
        /\ \A d \in Devs : refcount'[d] = refcount[d] + Cardinality(Of(devices[p], d))
        /\ refcount' = [d \in Devs |-> refcount[d] + Cardinality(Of(devices[p], d))]
    BY <1>2 DEF fork, Devs, Of
  <2>2. devices[p] \in [Fds -> Devs \cup {NULL}]
    BY <1>0 DEF Table
  <2>3. devices' \in Table /\ refcount' \in [Devs -> Int]
    BY <1>0, <2>1, <2>2, ReferencesAreFinite DEF Table
  <2>4. devices'[child] = devices[p] /\ \A q \in Pids \ {child} : devices'[q] = devices[q]
    BY <1>0, <2>1 DEF Table
  <2>5. ASSUME NEW d \in Devs PROVE Cardinality(Of(devices[child], d)) = 0
    <3>1. call[child] = Dead
      BY <1>2, CallKinds DEF fork, Alive, TypeOK
    <3>2. d # NULL
      BY DevicesAssumption DEF Devs, Ports, Slots, NULL
    <3>3. Of(devices[child], d) = {}
      BY <3>1, <3>2 DEF DeadHoldNothing, Of
    <3>4. QED
      BY <3>3, FS_EmptySet
  <2>6. ASSUME RefcountsCount, NEW d \in Devs PROVE refcount'[d] = References(devices', d)
    <3>1. References(devices', d) = References(devices, d)
             - Cardinality(Of(devices[child], d)) + Cardinality(Of(devices'[child], d))
      BY <1>0, <2>3, <2>4, Recounted
    <3>2. refcount[d] = References(devices, d)
      BY <2>6 DEF RefcountsCount, Devs
    <3>3. References(devices, d) \in Nat /\ Cardinality(Of(devices[p], d)) \in Nat
      BY ReferencesAreFinite
    <3>4. QED
      BY <2>1, <2>5, <2>4, <3>1, <3>2, <3>3
  <2>7. QED
    BY <2>3, <2>6 DEF RefcountsCount, Devs
<1>3. ASSUME NEW p \in Pids, exit(p)
      PROVE  /\ devices' \in Table /\ refcount' \in [Devs -> Int]
             /\ RefcountsCount => RefcountsCount'
  <2> DEFINE none == [fd \in Fds |-> NULL]
  <2>1. /\ devices' = [devices EXCEPT ![p] = none]
        /\ \A d \in Devs : refcount'[d] = refcount[d] - Cardinality(Of(devices[p], d))
        /\ refcount' = [d \in Devs |-> refcount[d] - Cardinality(Of(devices[p], d))]
    BY <1>3 DEF exit, Devs, Of
  <2>2. none \in [Fds -> Devs \cup {NULL}]
    OBVIOUS
  <2>3. devices' \in Table /\ refcount' \in [Devs -> Int]
    BY <1>0, <2>1, <2>2, ReferencesAreFinite DEF Table
  <2>4. devices'[p] = none /\ \A q \in Pids \ {p} : devices'[q] = devices[q]
    BY <1>0, <2>1 DEF Table
  <2>5. ASSUME NEW d \in Devs PROVE Cardinality(Of(none, d)) = 0
    <3>1. d # NULL
      BY DevicesAssumption DEF Devs, Ports, Slots, NULL
    <3>2. Of(none, d) = {}
      BY <3>1 DEF Of
    <3>3. QED
      BY <3>2, FS_EmptySet
  <2>6. ASSUME RefcountsCount, NEW d \in Devs PROVE refcount'[d] = References(devices', d)
    <3> HIDE DEF none
    <3>1. References(devices', d) = References(devices, d)
             - Cardinality(Of(devices[p], d)) + Cardinality(Of(devices'[p], d))
      BY <1>0, <2>3, <2>4, Recounted
    <3>2. refcount[d] = References(devices, d)
      BY <2>6 DEF RefcountsCount, Devs
    <3>3. References(devices, d) \in Nat /\ Cardinality(Of(devices[p], d)) \in Nat
      BY ReferencesAreFinite
    <3>4. QED
      BY <2>1, <2>5, <2>4, <3>1, <3>2, <3>3
  <2>7. QED
    BY <2>3, <2>6 DEF RefcountsCount, Devs
<1>4. ASSUME UNCHANGED <<devices, refcount>>
      PROVE  /\ devices' \in Table /\ refcount' \in [Devs -> Int]
             /\ RefcountsCount => RefcountsCount'
  BY <1>0, <1>4 DEF RefcountsCount
<1>5. \/ \E p \in Pids : open(p) \/ exit(p)
      \/ \E p \in Pids, fd \in 0 .. MAX_FD : close(p, fd)
      \/ \E p, child \in Pids : fork(p, child)
      \/ UNCHANGED <<devices, refcount>>
  BY DEF Next, Call, read, write, ReadGoesOn, WriteGoesOn, read_from_serial
<1>6. QED
  BY <1>1, <1>2, <1>3, <1>4, <1>5, OpenDescribes, DescribedCounts

-----------------------------------------------------------------------------
(* The ports, the slots of cpuid and the calls keep their types. *)
LEMMA TypesKept ==
  ASSUME TypeOK, Next
  PROVE  serial' \in [Ports -> PortStates] /\ cpuid' \in [Slots -> Nat \cup {NONE}]
         /\ call' \in [Pids -> Calls]
<1>0. /\ serial \in [Ports -> PortStates] /\ cpuid \in [Slots -> Nat \cup {NONE}]
      /\ call \in [Pids -> Calls]
  BY DEF TypeOK
<1>1. ASSUME NEW p \in Pids, open(p)
      PROVE  serial' \in [Ports -> PortStates] /\ cpuid' \in [Slots -> Nat \cup {NONE}]
             /\ call' \in [Pids -> Calls]
  <2>1. ASSUME NEW d \in Ports, serial_open(p, d) PROVE serial' \in [Ports -> PortStates]
    <3>1. Port(TRUE, <<>>, TRUE, 0) \in PortStates
      BY DEF Port, PortStates
    <3>2. QED
      BY <1>0, <2>1, <3>1 DEF serial_open
  <2>2. ASSUME proc_cpuid_open(p) PROVE cpuid' \in [Slots -> Nat \cup {NONE}]
    BY <1>0, <2>2 DEF proc_cpuid_open
  <2>3. QED
    BY <1>0, <1>1, <2>1, <2>2 DEF open, serial_open, proc_cpuid_open
<1>2. ASSUME NEW p \in Pids, NEW fd \in 0 .. MAX_FD, NEW size \in SIZES, read(p, fd, size)
      PROVE  serial' \in [Ports -> PortStates] /\ cpuid' \in [Slots -> Nat \cup {NONE}]
             /\ call' \in [Pids -> Calls]
  <2>1. DeviceAt(p, fd) \in Ports \/ DeviceAt(p, fd) \in Slots
    BY <1>2, DeviceFound DEF read, Devs
  <2>2. CASE DeviceAt(p, fd) \in Ports
    <3> DEFINE d == DeviceAt(p, fd)
    <3>1. serial_read(p, d, size) /\ UNCHANGED cpuid
      BY <1>2, <2>2 DEF read
    <3> HIDE DEF d
    <3>2. d \in Ports
      BY <2>2 DEF d
    <3>3. Append(serial[d].read_queue, p) \in Seq(Pids)
      BY <3>2, PortTypes
    <3>4. /\ [serial EXCEPT ![d] = Emptied(d)] \in [Ports -> PortStates]
          /\ [serial EXCEPT ![d] = Queued(d, Append(serial[d].read_queue, p))]
                 \in [Ports -> PortStates]
      BY <1>0, <3>2, <3>3, PortTypes
    <3>5. ReadOf(d) \in Calls
      BY <3>2, CallKinds
    <3>6. QED
      BY <1>0, <3>1, <3>4, <3>5 DEF serial_read
  <2>3. CASE DeviceAt(p, fd) \in Slots /\ DeviceAt(p, fd) \notin Ports
    <3> DEFINE d == DeviceAt(p, fd)
    <3>1. proc_cpuid_read(d, size) /\ UNCHANGED <<serial, call>>
      BY <1>2, <2>3 DEF read
    <3>2. d \in Slots /\ size \in Nat
      BY <2>3, DevicesAssumption
    <3> HIDE DEF d
    <3>3. QED
      BY <1>0, <3>1, <3>2, DevicesAssumption DEF proc_cpuid_read, NONE
  <2>4. QED
    BY <2>1, <2>2, <2>3
<1>3. ASSUME NEW p \in Pids, ReadGoesOn(p) \/ WriteGoesOn(p) \/ exit(p)
      PROVE  serial' \in [Ports -> PortStates] /\ cpuid' \in [Slots -> Nat \cup {NONE}]
             /\ call' \in [Pids -> Calls]
  <2>1. ASSUME ReadGoesOn(p) PROVE serial' \in [Ports -> PortStates] /\ call' \in [Pids -> Calls]
    <3>1. call[p].dev \in Ports
      BY <1>0, <2>1, CallKinds DEF ReadGoesOn, Woken, Reading
    <3>2. [serial EXCEPT ![call[p].dev] = Emptied(call[p].dev)] \in [Ports -> PortStates]
      BY <1>0, <3>1, PortTypes
    <3>3. QED
      BY <1>0, <2>1, <3>2, CallKinds DEF ReadGoesOn
  <2>2. ASSUME WriteGoesOn(p) PROVE call' \in [Pids -> Calls]
    <3>1. call[p].left \in Nat \ {0}
      BY <1>0, <2>2, CallKinds DEF WriteGoesOn
    <3>2. call[p].left # 1 => call[p].left - 1 \in Nat \ {0}
      BY <3>1
    <3>3. call[p].left # 1 => WriteOf(call[p].left - 1) \in Calls
      BY <3>2, CallKinds
    <3>4. QED
      BY <1>0, <2>2, <3>3, CallKinds DEF WriteGoesOn
  <2>3. QED
    BY <1>0, <1>3, <2>1, <2>2, CallKinds DEF ReadGoesOn, WriteGoesOn, exit
<1>4. ASSUME NEW p \in Pids, NEW fd \in 0 .. MAX_FD, NEW size \in SIZES, write(p, fd, size)
      PROVE  serial' \in [Ports -> PortStates] /\ cpuid' \in [Slots -> Nat \cup {NONE}]
             /\ call' \in [Pids -> Calls]
  <2>1. WriteOf(size) \in Calls
    <3>1. size \in Nat \ {0}
      BY <1>4, DevicesAssumption DEF write
    <3>2. QED
      BY <3>1, CallKinds
  <2>2. QED
    BY <1>0, <1>4, <2>1 DEF write
<1>5. ASSUME NEW p \in Pids, NEW child \in Pids, fork(p, child)
      PROVE  serial' \in [Ports -> PortStates] /\ cpuid' \in [Slots -> Nat \cup {NONE}]
             /\ call' \in [Pids -> Calls]
  BY <1>0, <1>5, CallKinds DEF fork
<1>6. ASSUME NEW d \in Ports, read_from_serial(d)
      PROVE  serial' \in [Ports -> PortStates] /\ cpuid' \in [Slots -> Nat \cup {NONE}]
             /\ call' \in [Pids -> Calls]
  <2> DEFINE queue == serial[d].read_queue
             rest  == IF queue = <<>> THEN <<>> ELSE Tail(queue)
  <2>1. rest \in Seq(Pids)
    BY PortTypes
  <2> HIDE DEF rest
  <2>2. Port(TRUE, rest, FALSE, serial[d].ptr_to + 1) \in PortStates /\ Queued(d, rest) \in PortStates
    <3>1. serial[d].ptr_to + 1 \in Nat
      BY PortTypes
    <3>2. QED
      BY <2>1, <3>1, PortTypes
  <2>3. serial' = [serial EXCEPT ![d] =
                     IF serial[d].ptr_to < SERIAL_BUFFER_LENGTH
                     THEN Port(TRUE, rest, FALSE, serial[d].ptr_to + 1)
                     ELSE Queued(d, rest)]
    BY <1>6 DEF rest, read_from_serial
  <2>4. QED
    BY <1>0, <1>6, <2>2, <2>3 DEF read_from_serial
<1>7. ASSUME NEW p \in Pids, NEW fd \in 0 .. MAX_FD, close(p, fd)
      PROVE  serial' \in [Ports -> PortStates] /\ cpuid' \in [Slots -> Nat \cup {NONE}]
             /\ call' \in [Pids -> Calls]
  BY <1>0, <1>7 DEF close
<1>8. QED
  BY <1>1, <1>2, <1>3, <1>4, <1>5, <1>6, <1>7 DEF Next, Call

-----------------------------------------------------------------------------
(* A process that is in no read of a port is not in its queue. *)
LEMMA NotQueued ==
  ASSUME TypeOK, WaitersRead, NEW p \in Pids, NEW d \in Ports, call[p] # ReadOf(d)
  PROVE  \A i \in 1 .. Len(serial[d].read_queue) : serial[d].read_queue[i] # p
  BY DEF WaitersRead

(* A step that only takes processes out of the queues, and changes the     *)
(* calls of processes that are in none, keeps WaitersRead.                 *)
LEMMA QueuesShrink ==
  ASSUME TypeOK, WaitersRead,
         \A d \in Ports : \/ serial'[d].read_queue = serial[d].read_queue
                          \/ serial'[d].read_queue = <<>>
                          \/ /\ serial[d].read_queue # <<>>
                             /\ serial'[d].read_queue = Tail(serial[d].read_queue),
         \A d \in Ports : \A i \in 1 .. Len(serial[d].read_queue) :
           call'[serial[d].read_queue[i]] = call[serial[d].read_queue[i]]
  PROVE  WaitersRead'
<1> SUFFICES ASSUME NEW d \in Ports, NEW i \in 1 .. Len(serial'[d].read_queue)
             PROVE  /\ call'[serial'[d].read_queue[i]] = ReadOf(d)
                    /\ \A j \in 1 .. Len(serial'[d].read_queue) :
                         serial'[d].read_queue[i] = serial'[d].read_queue[j] => i = j
  BY DEF WaitersRead
<1>1. CASE serial'[d].read_queue = serial[d].read_queue
  BY <1>1 DEF WaitersRead
<1>2. CASE serial'[d].read_queue = <<>>
  BY <1>2
<1>3. CASE /\ serial[d].read_queue # <<>>
           /\ serial'[d].read_queue = Tail(serial[d].read_queue)
  <2> DEFINE queue == serial[d].read_queue
  <2>1. queue \in Seq(Pids)
    BY PortTypes
  <2>2. /\ Len(Tail(queue)) = Len(queue) - 1
        /\ \A k \in 1 .. Len(Tail(queue)) : k + 1 \in 1 .. Len(queue) /\ Tail(queue)[k] = queue[k + 1]
    BY <1>3, <2>1
  <2>3. \A k \in 1 .. Len(queue) : /\ call'[queue[k]] = ReadOf(d)
                                   /\ \A j \in 1 .. Len(queue) : queue[k] = queue[j] => k = j
    BY DEF WaitersRead
  <2>4. QED
    BY <1>3, <2>2, <2>3
<1>4. QED
  BY <1>1, <1>2, <1>3

(* serial_read either empties the buffer or queues its process. *)
LEMMA ReadCases ==
  ASSUME TypeOK, NEW p \in Pids, NEW fd \in 0 .. MAX_FD, NEW size \in SIZES, read(p, fd, size)
  PROVE  \/ UNCHANGED <<serial, call>>
         \/ \E d \in Ports : /\ serial' = [serial EXCEPT ![d] = Emptied(d)]
                             /\ call' = call
         \/ \E d \in Ports : /\ serial[d].buffer_free
                             /\ serial' = [serial EXCEPT ![d] =
                                             Queued(d, Append(serial[d].read_queue, p))]
                             /\ call' = [call EXCEPT ![p] = ReadOf(d)]
  BY DEF read, serial_read

LEMMA WaitersKept ==
  ASSUME TypeOK, WaitersRead, Next
  PROVE  WaitersRead'
<1>0. /\ serial \in [Ports -> PortStates] /\ call \in [Pids -> Calls]
      /\ \A d \in Ports : ReadOf(d) # NoCall /\ ReadOf(d) # Dead /\ ReadOf(d).op # "write"
      /\ \A d \in Ports : serial[d].read_queue \in Seq(Pids)
      /\ \A d \in Ports : Emptied(d).read_queue = serial[d].read_queue
      /\ \A d \in Ports, q \in Seq(Pids) : Queued(d, q).read_queue = q
  <2>1. \A d \in Ports : Emptied(d).read_queue = serial[d].read_queue
    BY DEF Emptied, Port
  <2>2. \A d \in Ports, q \in Seq(Pids) : Queued(d, q).read_queue = q
    BY DEF Queued, Port
  <2>3. QED
    BY <2>1, <2>2, PortTypes DEF TypeOK, ReadOf, NoCall, Dead
<1>1. ASSUME NEW p \in Pids, open(p) PROVE WaitersRead'
  <2>1. UNCHANGED call
    BY <1>1 DEF open
  <2>2. \A d \in Ports : serial'[d].read_queue = serial[d].read_queue \/ serial'[d].read_queue = <<>>
    <3>1. ASSUME NEW e \in Ports, serial_open(p, e)
          PROVE  \A d \in Ports : serial'[d].read_queue = serial[d].read_queue
                                  \/ serial'[d].read_queue = <<>>
      <4>1. Port(TRUE, <<>>, TRUE, 0).read_queue = <<>>
        BY DEF Port
      <4>2. QED
        BY <1>0, <3>1, <4>1 DEF serial_open
    <3>2. QED
      BY <1>1, <3>1 DEF open, proc_cpuid_open
  <2>3. QED
    BY <2>1, <2>2, QueuesShrink
<1>2. ASSUME NEW p \in Pids, NEW fd \in 0 .. MAX_FD, NEW size \in SIZES, read(p, fd, size)
      PROVE  WaitersRead'
  <2>1. CASE UNCHANGED <<serial, call>>
    BY <2>1 DEF WaitersRead
  <2>2. CASE \E d \in Ports : serial' = [serial EXCEPT ![d] = Emptied(d)] /\ call' = call
    <3>1. \A d \in Ports : serial'[d].read_queue = serial[d].read_queue
      BY <1>0, <2>2
    <3>2. QED
      BY <2>2, <3>1, QueuesShrink
  <2>3. ASSUME NEW d \in Ports,
               serial' = [serial EXCEPT ![d] = Queued(d, Append(serial[d].read_queue, p))],
               call' = [call EXCEPT ![p] = ReadOf(d)]
        PROVE  WaitersRead'
    <3> DEFINE queue == serial[d].read_queue
    <3>1. call[p] = NoCall
      BY <1>2 DEF read, AtRest
    <3>2. \A e \in Ports : \A i \in 1 .. Len(serial[e].read_queue) :
            /\ serial[e].read_queue[i] # p
            /\ call'[serial[e].read_queue[i]] = ReadOf(e)
            /\ \A j \in 1 .. Len(serial[e].read_queue) :
                 serial[e].read_queue[i] = serial[e].read_queue[j] => i = j
      <4> SUFFICES ASSUME NEW e \in Ports, NEW i \in 1 .. Len(serial[e].read_queue)
                   PROVE  /\ serial[e].read_queue[i] # p
                          /\ call'[serial[e].read_queue[i]] = ReadOf(e)
                          /\ \A j \in 1 .. Len(serial[e].read_queue) :
                               serial[e].read_queue[i] = serial[e].read_queue[j] => i = j
        OBVIOUS
      <4> DEFINE w == serial[e].read_queue[i]
      <4>1. /\ call[w] = ReadOf(e)
            /\ \A j \in 1 .. Len(serial[e].read_queue) : w = serial[e].read_queue[j] => i = j
        BY DEF WaitersRead
      <4>2. w \in Pids /\ ReadOf(e) # NoCall
        BY <1>0 DEF PortStates
      <4> HIDE DEF w
      <4>3. w # p
        BY <3>1, <4>1, <4>2
      <4>4. call'[w] = call[w]
        BY <1>0, <2>3, <4>2, <4>3
      <4>5. QED
        BY <4>1, <4>3, <4>4 DEF w
    <3>3. \A e \in Ports \ {d} : serial'[e].read_queue = serial[e].read_queue
      BY <1>0, <2>3
    <3>4. serial'[d].read_queue = Append(queue, p)
      <4>1. serial'[d] = Queued(d, Append(queue, p))
        BY <1>0, <2>3
      <4>2. Queued(d, Append(queue, p)).read_queue = Append(queue, p)
        BY DEF Queued, Port
      <4>3. QED
        BY <4>1, <4>2
    <3>5. call'[p] = ReadOf(d)
      BY <1>0, <2>3
    <3>6. ASSUME NEW i \in 1 .. Len(Append(queue, p))
          PROVE  /\ call'[Append(queue, p)[i]] = ReadOf(d)
                 /\ \A j \in 1 .. Len(Append(queue, p)) :
                      Append(queue, p)[i] = Append(queue, p)[j] => i = j
      BY <1>0, <3>2, <3>5
    <3>7. ASSUME NEW e \in Ports \ {d}, NEW i \in 1 .. Len(serial'[e].read_queue)
          PROVE  /\ call'[serial'[e].read_queue[i]] = ReadOf(e)
                 /\ \A j \in 1 .. Len(serial'[e].read_queue) :
                      serial'[e].read_queue[i] = serial'[e].read_queue[j] => i = j
      BY <3>2, <3>3
    <3>8. ASSUME NEW i \in 1 .. Len(serial'[d].read_queue)
          PROVE  /\ call'[serial'[d].read_queue[i]] = ReadOf(d)
                 /\ \A j \in 1 .. Len(serial'[d].read_queue) :
                      serial'[d].read_queue[i] = serial'[d].read_queue[j] => i = j
      BY <3>4, <3>6
    <3>9. QED
      BY <3>7, <3>8 DEF WaitersRead
  <2>4. QED
    BY <1>2, <2>1, <2>2, <2>3, ReadCases
<1>3. ASSUME NEW p \in Pids, ReadGoesOn(p) PROVE WaitersRead'
  <2>1. \A d \in Ports : \A i \in 1 .. Len(serial[d].read_queue) : serial[d].read_queue[i] # p
    <3>1. ASSUME NEW d \in Ports, call[p] = ReadOf(d)
          PROVE  \A i \in 1 .. Len(serial[d].read_queue) : serial[d].read_queue[i] # p
      BY <1>3, <3>1, CallKinds DEF ReadGoesOn, Woken, Contains
    <3>2. QED
      BY <3>1, NotQueued
  <2>2. \A d \in Ports : serial'[d].read_queue = serial[d].read_queue
    BY <1>0, <1>3 DEF ReadGoesOn
  <2>3. \A q \in Pids \ {p} : call'[q] = call[q]
    BY <1>0, <1>3 DEF ReadGoesOn
  <2>4. QED
    BY <1>0, <2>1, <2>2, <2>3, QueuesShrink
<1>4. ASSUME NEW p \in Pids, NEW q \in Pids, UNCHANGED serial,
             \A r \in Pids \ {q} : call'[r] = call[r],
             call[q] = NoCall \/ call[q] = Dead \/ call[q].op = "write"
      PROVE  WaitersRead'
  <2>1. \A d \in Ports : \A i \in 1 .. Len(serial[d].read_queue) : serial[d].read_queue[i] # q
    BY <1>0, <1>4, NotQueued
  <2>2. QED
    BY <1>0, <1>4, <2>1, QueuesShrink
<1>5. ASSUME NEW p \in Pids, WriteGoesOn(p) \/ exit(p) PROVE WaitersRead'
  BY <1>0, <1>4, <1>5 DEF WriteGoesOn, exit, AtRest
<1>6. ASSUME NEW p \in Pids, NEW fd \in 0 .. MAX_FD, NEW size \in SIZES, write(p, fd, size)
      PROVE  WaitersRead'
  BY <1>0, <1>4, <1>6 DEF write, AtRest
<1>7. ASSUME NEW p \in Pids, NEW child \in Pids, fork(p, child) PROVE WaitersRead'
  <2>1. call[child] = Dead
    BY <1>0, <1>7, CallKinds DEF fork, Alive
  <2>2. QED
    BY <1>0, <1>4, <1>7, <2>1 DEF fork
<1>8. ASSUME NEW d \in Ports, read_from_serial(d) PROVE WaitersRead'
  <2> DEFINE queue == serial[d].read_queue
             rest  == IF queue = <<>> THEN <<>> ELSE Tail(queue)
  <2>1. rest \in Seq(Pids) /\ queue \in Seq(Pids)
    BY <1>0
  <2>2. /\ serial' = [serial EXCEPT ![d] =
                       IF serial[d].ptr_to < SERIAL_BUFFER_LENGTH
                       THEN Port(TRUE, rest, FALSE, serial[d].ptr_to + 1)
                       ELSE Queued(d, rest)]
        /\ call' = call
    BY <1>8 DEF read_from_serial
  <2> HIDE DEF rest
  <2>3. Port(TRUE, rest, FALSE, serial[d].ptr_to + 1).read_queue = rest
    BY DEF Port
  <2>4. serial'[d].read_queue = rest /\ \A e \in Ports \ {d} : serial'[e] = serial[e]
    BY <1>0, <2>1, <2>2, <2>3
  <2>5. \A e \in Ports : \/ serial'[e].read_queue = serial[e].read_queue
                         \/ /\ serial[e].read_queue # <<>>
                            /\ serial'[e].read_queue = Tail(serial[e].read_queue)
    BY <2>4 DEF rest
  <2>6. QED
    BY <2>2, <2>5, QueuesShrink
<1>9. ASSUME NEW p \in Pids, NEW fd \in 0 .. MAX_FD, close(p, fd) PROVE WaitersRead'
  BY <1>9 DEF close, WaitersRead
<1>10. QED
  BY <1>1, <1>2, <1>3, <1>5, <1>6, <1>7, <1>8, <1>9 DEF Next, Call

-----------------------------------------------------------------------------
LEMMA DeadKept ==
  ASSUME TypeOK, DeadHoldNothing, Next
  PROVE  DeadHoldNothing'
<1>0. /\ call \in [Pids -> Calls] /\ devices \in Table
      /\ \A d \in Ports : ReadOf(d) # Dead
      /\ \A n : WriteOf(n) # Dead
      /\ NoCall # Dead
  BY DEF TypeOK, ReadOf, WriteOf, NoCall, Dead
<1>1. ASSUME NEW p \in Pids, open(p) PROVE DeadHoldNothing'
  <2>1. call[p] = NoCall /\ call' = call
    BY <1>1 DEF open, AtRest
  <2>2. \A q \in Pids \ {p} : devices'[q] = devices[q]
    BY <1>1, OpenDescribes, DescribedCounts
  <2>3. QED
    BY <1>0, <2>1, <2>2 DEF DeadHoldNothing
<1>2. ASSUME NEW p \in Pids, NEW fd \in 0 .. MAX_FD, close(p, fd) PROVE DeadHoldNothing'
  <2>1. Holder(p, fd) \in Pids /\ Entry(p, fd) \in Fds
    BY <1>2, DeviceFound DEF close
  <2>2. \A q \in Pids, e \in Fds : devices'[q][e] \in {devices[q][e], NULL}
    BY <1>0, <1>2, <2>1 DEF close, Table
  <2>3. QED
    BY <1>2, <2>2 DEF close, DeadHoldNothing
<1>3. ASSUME NEW p \in Pids, NEW fd \in 0 .. MAX_FD, NEW size \in SIZES, read(p, fd, size)
      PROVE  DeadHoldNothing'
  <2>1. devices' = devices
    BY <1>3 DEF read
  <2>2. \A q \in Pids : call'[q] = Dead => call[q] = Dead
    BY <1>0, <1>3, ReadCases
  <2>3. QED
    BY <2>1, <2>2 DEF DeadHoldNothing
<1>4. ASSUME NEW p \in Pids, NEW fd \in 0 .. MAX_FD, NEW size \in SIZES, write(p, fd, size)
      PROVE  DeadHoldNothing'
  BY <1>0, <1>4 DEF write, DeadHoldNothing
<1>5. ASSUME NEW p \in Pids, ReadGoesOn(p) \/ WriteGoesOn(p) PROVE DeadHoldNothing'
  BY <1>0, <1>5 DEF ReadGoesOn, WriteGoesOn, DeadHoldNothing
<1>6. ASSUME NEW p \in Pids, NEW child \in Pids, fork(p, child) PROVE DeadHoldNothing'
  BY <1>0, <1>6 DEF fork, Table, DeadHoldNothing
<1>7. ASSUME NEW p \in Pids, exit(p) PROVE DeadHoldNothing'
  BY <1>0, <1>7 DEF exit, Table, DeadHoldNothing
<1>8. ASSUME NEW d \in Ports, read_from_serial(d) PROVE DeadHoldNothing'
  BY <1>8 DEF read_from_serial, DeadHoldNothing
<1>9. QED
  BY <1>1, <1>2, <1>3, <1>4, <1>5, <1>6, <1>7, <1>8 DEF Next, Call

-----------------------------------------------------------------------------
(* Somebody who was queued at d was taken out of the queue and has not run *)
(* since.                                                                  *)
Awake(d) ==
  \E p \in Pids : /\ call[p] = ReadOf(d)
                  /\ \A i \in 1 .. Len(serial[d].read_queue) : serial[d].read_queue[i] # p

LEMMA AwakeIsWoken ==
  TypeOK => (NobodySleepsOverData <=>
               \A d \in Ports : serial[d].read_queue # <<>> /\ ~ serial[d].buffer_free => Awake(d))
<1> SUFFICES ASSUME TypeOK, NEW d \in Ports
             PROVE  (\E p \in Pids : Woken(p) /\ call[p].dev = d) <=> Awake(d)
  BY DEF NobodySleepsOverData
<1>1. ASSUME NEW p \in Pids
      PROVE  (Woken(p) /\ call[p].dev = d) <=>
               /\ call[p] = ReadOf(d)
               /\ \A i \in 1 .. Len(serial[d].read_queue) : serial[d].read_queue[i] # p
  <2>1. (Reading(p) /\ call[p].dev = d) <=> call[p] = ReadOf(d)
    BY CallKinds DEF TypeOK, Reading
  <2>2. QED
    BY <2>1 DEF Woken, Contains
<1>2. QED
  BY <1>1 DEF Awake

(* A port that a step leaves alone keeps its woken readers. *)
LEMMA SleepersKept ==
  ASSUME TypeOK, TypeOK', WaitersRead, NobodySleepsOverData, Next
  PROVE  NobodySleepsOverData'
<1>0. /\ serial \in [Ports -> PortStates] /\ call \in [Pids -> Calls]
      /\ \A d \in Ports : ReadOf(d) # NoCall /\ ReadOf(d) # Dead /\ ReadOf(d).op # "write"
      /\ \A d, e \in Ports : ReadOf(d) = ReadOf(e) => d = e
  BY DEF TypeOK, ReadOf, NoCall, Dead
<1>1. \A d \in Ports : serial[d].read_queue # <<>> /\ ~ serial[d].buffer_free => Awake(d)
  BY AwakeIsWoken
<1>2. (\A d \in Ports : serial[d].read_queue # <<>> /\ ~ serial[d].buffer_free => Awake(d))'
        => NobodySleepsOverData'
  BY AwakeIsWoken, PTL
<1>3. SUFFICES \A d \in Ports : serial'[d].read_queue # <<>> /\ ~ serial'[d].buffer_free => Awake(d)'
  BY <1>2
<1>4. ASSUME NEW d \in Ports, serial'[d] = serial[d],
             \A p \in Pids : call[p] = ReadOf(d) => call'[p] = call[p]
      PROVE  serial'[d].read_queue # <<>> /\ ~ serial'[d].buffer_free => Awake(d)'
  BY <1>1, <1>4 DEF Awake
<1>5. ASSUME NEW p \in Pids, open(p), NEW d \in Ports
      PROVE  serial'[d].read_queue # <<>> /\ ~ serial'[d].buffer_free => Awake(d)'
  <2>1. serial'[d] = serial[d] \/ serial'[d].buffer_free = TRUE
    <3>1. Port(TRUE, <<>>, TRUE, 0).buffer_free = TRUE
      BY DEF Port
    <3>2. QED
      BY <1>0, <1>5, <3>1 DEF open, serial_open, proc_cpuid_open
  <2>2. call' = call
    BY <1>5 DEF open
  <2>3. QED
    BY <1>4, <2>1, <2>2
<1>6. ASSUME NEW p \in Pids, NEW fd \in 0 .. MAX_FD, NEW size \in SIZES, read(p, fd, size),
             NEW d \in Ports
      PROVE  serial'[d].read_queue # <<>> /\ ~ serial'[d].buffer_free => Awake(d)'
  <2>1. serial'[d] = serial[d] \/ serial'[d].buffer_free = TRUE
    <3>1. Emptied(d).buffer_free = TRUE
      BY DEF Emptied, Port
    <3>2. \A q : Queued(d, q).buffer_free = serial[d].buffer_free
      BY DEF Queued, Port
    <3>3. serial[d].buffer_free \in BOOLEAN
      BY PortTypes
    <3>4. QED
      BY <1>0, <1>6, <3>1, <3>2, <3>3, ReadCases
  <2>2. call[p] = NoCall
    BY <1>6 DEF read, AtRest
  <2>3. \A q \in Pids : call[q] = ReadOf(d) => call'[q] = call[q]
    BY <1>0, <1>6, <2>2, ReadCases
  <2>4. QED
    BY <1>4, <2>1, <2>3
<1>7. ASSUME NEW p \in Pids, ReadGoesOn(p), NEW d \in Ports
      PROVE  serial'[d].read_queue # <<>> /\ ~ serial'[d].buffer_free => Awake(d)'
  <2>1. CASE d = call[p].dev
    <3>1. Emptied(d).buffer_free = TRUE
      BY DEF Emptied, Port
    <3>2. serial'[d] = Emptied(d)
      BY <1>0, <1>7, <2>1 DEF ReadGoesOn
    <3>3. QED
      BY <3>1, <3>2
  <2>2. CASE d # call[p].dev
    <3>1. serial'[d] = serial[d]
      BY <1>0, <1>7, <2>2 DEF ReadGoesOn
    <3>2. call[p] # ReadOf(d)
      BY <2>2 DEF ReadOf
    <3>3. \A q \in Pids : call[q] = ReadOf(d) => call'[q] = call[q]
      BY <1>0, <1>7, <3>2 DEF ReadGoesOn
    <3>4. QED
      BY <1>4, <3>1, <3>3
  <2>3. QED
    BY <2>1, <2>2
<1>8. ASSUME NEW q \in Pids, UNCHANGED serial, \A r \in Pids \ {q} : call'[r] = call[r],
             call[q] = NoCall \/ call[q] = Dead \/ call[q].op = "write", NEW d \in Ports
      PROVE  serial'[d].read_queue # <<>> /\ ~ serial'[d].buffer_free => Awake(d)'
  BY <1>0, <1>4, <1>8
<1>9. ASSUME NEW p \in Pids, WriteGoesOn(p) \/ exit(p), NEW d \in Ports
      PROVE  serial'[d].read_queue # <<>> /\ ~ serial'[d].buffer_free => Awake(d)'
  BY <1>0, <1>8, <1>9 DEF WriteGoesOn, exit, AtRest
<1>10. ASSUME NEW p \in Pids, NEW fd \in 0 .. MAX_FD, NEW size \in SIZES, write(p, fd, size),
              NEW d \in Ports
       PROVE  serial'[d].read_queue # <<>> /\ ~ serial'[d].buffer_free => Awake(d)'
  BY <1>0, <1>8, <1>10 DEF write, AtRest
<1>11. ASSUME NEW p \in Pids, NEW child \in Pids, fork(p, child), NEW d \in Ports
       PROVE  serial'[d].read_queue # <<>> /\ ~ serial'[d].buffer_free => Awake(d)'
  <2>1. call[child] = Dead
    BY <1>0, <1>11, CallKinds DEF fork, Alive
  <2>2. QED
    BY <1>0, <1>8, <1>11, <2>1 DEF fork
<1>12. ASSUME NEW e \in Ports, read_from_serial(e), NEW d \in Ports
       PROVE  serial'[d].read_queue # <<>> /\ ~ serial'[d].buffer_free => Awake(d)'
  <2>1. CASE d # e
    BY <1>0, <1>4, <1>12, <2>1 DEF read_from_serial
  <2>2. CASE d = e
    <3> DEFINE queue == serial[d].read_queue
               rest  == IF queue = <<>> THEN <<>> ELSE Tail(queue)
    <3>1. queue \in Seq(Pids)
      BY PortTypes
    <3>2. serial'[d].read_queue = rest /\ call' = call
      <4>1. /\ serial' = [serial EXCEPT ![d] =
                             IF serial[d].ptr_to < SERIAL_BUFFER_LENGTH
                             THEN Port(TRUE, rest, FALSE, serial[d].ptr_to + 1)
                             ELSE Queued(d, rest)]
            /\ call' = call
        BY <1>12, <2>2 DEF read_from_serial
      <4> HIDE DEF rest
      <4>2. /\ Port(TRUE, rest, FALSE, serial[d].ptr_to + 1).read_queue = rest
            /\ Queued(d, rest).read_queue = rest
        BY DEF Port, Queued
      <4>3. QED
        BY <1>0, <4>1, <4>2
    <3>3. ASSUME rest # <<>> PROVE Awake(d)'
      <4>1. queue # <<>> /\ rest = Tail(queue)
        BY <3>3
      <4>2. /\ 1 \in 1 .. Len(queue)
            /\ Len(rest) = Len(queue) - 1
            /\ \A k \in 1 .. Len(rest) : k + 1 \in 1 .. Len(queue) /\ rest[k] = queue[k + 1]
        BY <3>1, <4>1
      <4>3. call[queue[1]] = ReadOf(d) /\ queue[1] \in Pids
        BY <3>1, <4>2 DEF WaitersRead
      <4>4. \A k \in 1 .. Len(rest) : rest[k] # queue[1]
        <5>1. \A k \in 1 .. Len(queue) : queue[1] = queue[k] => 1 = k
          BY <4>2 DEF WaitersRead
        <5>2. QED
          BY <4>2, <5>1
      <4> HIDE DEF rest
      <4>5. /\ call'[queue[1]] = ReadOf(d)
            /\ \A i \in 1 .. Len(serial'[d].read_queue) : serial'[d].read_queue[i] # queue[1]
        BY <3>2, <4>3, <4>4
      <4>6. QED
        BY <4>3, <4>5 DEF Awake
    <3>4. QED
      BY <3>2, <3>3
  <2>3. QED
    BY <2>1, <2>2
<1>13. ASSUME NEW p \in Pids, NEW fd \in 0 .. MAX_FD, close(p, fd), NEW d \in Ports
       PROVE  serial'[d].read_queue # <<>> /\ ~ serial'[d].buffer_free => Awake(d)'
  BY <1>4, <1>13 DEF close
<1>14. QED
  BY <1>5, <1>6, <1>7, <1>9, <1>10, <1>11, <1>12, <1>13 DEF Next, Call

-----------------------------------------------------------------------------
LEMMA InitInvariant == Init => IInv
<1> SUFFICES ASSUME Init PROVE IInv
  OBVIOUS
<1>1. TypeOK
  <2>1. Port(FALSE, <<>>, FALSE, 0) \in PortStates
    BY DEF Port, PortStates
  <2>2. devices \in Table /\ refcount \in [Devs -> Int]
    BY DEF Init, Table, Devs
  <2>3. serial \in [Ports -> PortStates] /\ cpuid \in [Slots -> Nat \cup {NONE}]
    BY <2>1 DEF Init
  <2>4. call \in [Pids -> Calls]
    BY CallKinds DEF Init
  <2>5. QED
    BY <2>2, <2>4, <2>3 DEF TypeOK
<1>2. \A d \in Ports : serial[d].read_queue = <<>>
  BY DEF Init, Port
<1>3. RefcountsCount
  <2>1. ASSUME NEW d \in Devs PROVE References(devices, d) = 0
    <3>1. d # NULL
      BY DevicesAssumption DEF Devs, Ports, Slots, NULL
    <3>2. {x \in Pids \X Fds : devices[x[1]][x[2]] = d} = {}
      BY <3>1 DEF Init
    <3>3. QED
      BY <3>2, FS_EmptySet DEF References
  <2>2. QED
    BY <2>1 DEF RefcountsCount, Devs, Init
<1>4. WaitersRead /\ NobodySleepsOverData
  BY <1>2 DEF WaitersRead, NobodySleepsOverData
<1>5. DeadHoldNothing
  BY DEF DeadHoldNothing, Init
<1>6. QED
  BY <1>1, <1>3, <1>4, <1>5 DEF IInv

LEMMA InvariantKept == IInv /\ [Next]_vars => IInv'
<1>1. ASSUME IInv, Next PROVE IInv'
  <2>1. TypeOK /\ WaitersRead /\ DeadHoldNothing /\ RefcountsCount /\ NobodySleepsOverData
    BY <1>1 DEF IInv
  <2>2. TypeOK' /\ RefcountsCount'
    BY <1>1, <2>1, CountsKept, TypesKept DEF TypeOK
  <2>3. WaitersRead' /\ DeadHoldNothing'
    BY <1>1, <2>1, WaitersKept, DeadKept
  <2>4. NobodySleepsOverData'
    BY <1>1, <2>1, <2>2, SleepersKept
  <2>5. QED
    BY <2>2, <2>3, <2>4 DEF IInv
<1>2. ASSUME IInv, UNCHANGED vars PROVE IInv'
  BY <1>2 DEF IInv, vars, TypeOK, WaitersRead, DeadHoldNothing, RefcountsCount,
              NobodySleepsOverData, Woken, Reading
<1>3. QED
  BY <1>1, <1>2

(* No queue holds a process that is dead, and the dead hold no descriptor. *)
LEMMA NothingOutlives == IInv => NothingOutlivesItsTask
<1> SUFFICES ASSUME IInv, NEW p \in Pids \ Alive
             PROVE  /\ \A fd \in Fds : devices[p][fd] = NULL
                    /\ \A d \in Ports : ~ Contains(serial[d].read_queue, p)
  BY DEF NothingOutlivesItsTask
<1>1. call[p] = Dead
  BY CallKinds DEF IInv, TypeOK, Alive
<1>2. \A d \in Ports : ReadOf(d) # Dead
  BY DEF ReadOf, Dead
<1>3. \A d \in Ports : \A i \in 1 .. Len(serial[d].read_queue) : serial[d].read_queue[i] # p
  BY <1>1, <1>2, NotQueued DEF IInv
<1>4. QED
  BY <1>1, <1>3 DEF IInv, DeadHoldNothing, Contains

(* The tables of device.c and the queues of serial.c agree after any calls *)
(* and interrupts.                                                         *)
THEOREM Invariance == Spec => []IInv
<1>1. QED
  BY InitInvariant, InvariantKept, PTL DEF Spec

(* However descriptors are opened in a full table, inherited, closed       *)
(* beyond the end of the table (close in device.c lets MAX_FD pass) or     *)
(* left to the exit, refcount is the number of them: the close that brings *)
(* it to 0 is the last.                                                    *)
THEOREM Spec_RefcountsCount == Spec => []RefcountsCount
<1>1. IInv => RefcountsCount
  BY DEF IInv
<1>2. QED
  BY Invariance, <1>1, PTL

(* device_close_fds_for, and the fact that nobody dies inside serial_read, *)
(* leave nothing of a process for the next owner of its pid.               *)
THEOREM Spec_NothingOutlivesItsTask == Spec => []NothingOutlivesItsTask
<1>1. QED
  BY Invariance, NothingOutlives, PTL

(* read_from_serial wakes the first in the queue with every byte, also     *)
(* with one that finds the buffer full, so nobody is left asleep over it.  *)
THEOREM Spec_NobodySleepsOverData == Spec => []NobodySleepsOverData
<1>1. IInv => NobodySleepsOverData
  BY DEF IInv
<1>2. QED
  BY Invariance, <1>1, PTL
=============================================================================
