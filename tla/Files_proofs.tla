---------------------------- MODULE Files_proofs ----------------------------
(***************************************************************************)
(* The open files of the ext2 disk, for any well-formed disk and any sizes *)
(* of sectors, blocks and pages, any number of processes and entries.      *)
(*                                                                         *)
(* A step of Files computes the state it leads to, so the invariant is a   *)
(* predicate of a state, Good(st), and each operator has a lemma: from a   *)
(* good state, but for the call of the process that runs, to a good state. *)
(* What the pages hold, Paged(st), comes on top of it in the same way.     *)
(***************************************************************************)
EXTENDS Files, TLAPS, WellFoundedInduction

USE DEF Least

LEMMA Sizes ==
  /\ SECTOR \in Nat \ {0} /\ BLOCK \in Nat \ {0} /\ PAGE \in Nat \ {0}
  /\ DIRECT \in Nat \ {0} /\ SECTORS \in Nat \ {0}
  /\ BLOCK = SECTORS * SECTOR /\ PAGE = (PAGE \div BLOCK) * BLOCK
  /\ PAGE \div BLOCK \in Nat \ {0}
<1>1. /\ SECTOR \in Nat \ {0} /\ BLOCK \in Nat \ {0} /\ PAGE \in Nat \ {0}
      /\ DIRECT \in Nat \ {0} /\ BLOCK % SECTOR = 0 /\ PAGE % BLOCK = 0
  BY FilesAssumption
<1>2. ASSUME NEW n \in Nat \ {0}, NEW b \in Nat \ {0}, n % b = 0
      PROVE  n = (n \div b) * b /\ n \div b \in Nat \ {0}
  BY <1>2
<1>3. BLOCK = SECTORS * SECTOR /\ SECTORS \in Nat \ {0}
  BY <1>1, <1>2 DEF SECTORS
<1>4. PAGE = (PAGE \div BLOCK) * BLOCK /\ PAGE \div BLOCK \in Nat \ {0}
  BY <1>1, <1>2
<1>5. QED
  BY <1>1, <1>3, <1>4

LEMMA OverBounds ==
  ASSUME NEW n \in Nat, NEW d \in Nat \ {0}
  PROVE  /\ Over(n, d) \in Nat
         /\ n <= Over(n, d) * d /\ Over(n, d) * d < n + d
         /\ \A k \in Nat : k < Over(n, d) <=> k * d < n
  BY DEF Over

-----------------------------------------------------------------------------
(* What a list of parts reads: cut[k] units of A when k parts are read.    *)
Part == [sector : Nat, units : Seq(Nat)]

Reads(parts, A, d) ==
  \E cut \in [0 .. Len(parts) -> 0 .. Len(A)] :
    /\ cut[0] = d /\ cut[Len(parts)] = Len(A)
    /\ \A k \in 1 .. Len(parts) :
         /\ cut[k] = cut[k - 1] + Len(parts[k].units)
         /\ \A i \in 1 .. Len(parts[k].units) :
              parts[k].sector * SECTOR + parts[k].units[i] = A[cut[k - 1] + i]

Span(start, count) == [i \in 1 .. count |-> start + i - 1]

BlockUnits(blocks, count) ==
  [i \in 1 .. count |-> blocks[(i - 1) \div BLOCK + 1] * BLOCK + ((i - 1) % BLOCK)]

(* The first part leaves the others to be read.                            *)
LEMMA ReadsTail ==
  ASSUME NEW parts \in Seq(Part), parts # <<>>, NEW A \in Seq(Nat), NEW d,
         Reads(parts, A, d)
  PROVE  /\ Head(parts) \in Part /\ Tail(parts) \in Seq(Part)
         /\ d \in Nat /\ d + Len(Head(parts).units) <= Len(A)
         /\ Reads(Tail(parts), A, d + Len(Head(parts).units))
         /\ \A i \in 1 .. Len(Head(parts).units) :
              Head(parts).sector * SECTOR + Head(parts).units[i] = A[d + i]
         /\ Tail(parts) = <<>> => d + Len(Head(parts).units) = Len(A)
<1> DEFINE n == Len(Head(parts).units)
<1>1. PICK cut \in [0 .. Len(parts) -> 0 .. Len(A)] :
        /\ cut[0] = d /\ cut[Len(parts)] = Len(A)
        /\ \A k \in 1 .. Len(parts) :
             /\ cut[k] = cut[k - 1] + Len(parts[k].units)
             /\ \A i \in 1 .. Len(parts[k].units) :
                  parts[k].sector * SECTOR + parts[k].units[i] = A[cut[k - 1] + i]
  BY DEF Reads
<1>2. Len(A) \in Nat /\ \A k \in 0 .. Len(parts) : cut[k] \in 0 .. Len(A)
  <2>1. cut \in [0 .. Len(parts) -> 0 .. Len(A)]
    BY <1>1
  <2>2. QED
    BY <2>1
<1>3. /\ Len(parts) \in Nat \ {0} /\ Head(parts) = parts[1] /\ Head(parts) \in Part
      /\ Tail(parts) \in Seq(Part) /\ Len(Tail(parts)) = Len(parts) - 1
      /\ \A k \in 1 .. Len(parts) - 1 : Tail(parts)[k] = parts[k + 1]
  OBVIOUS
<1>4. /\ d \in Nat /\ cut[1] = d + n /\ cut[1] \in 0 .. Len(A)
      /\ \A i \in 1 .. n : Head(parts).sector * SECTOR + Head(parts).units[i] = A[d + i]
  <2>1. 1 \in 1 .. Len(parts) /\ 0 \in 0 .. Len(parts) /\ 1 \in 0 .. Len(parts) /\ 1 - 1 = 0
    BY <1>3
  <2>2. d \in Nat /\ cut[1] \in 0 .. Len(A)
    BY <1>2, <1>1, <2>1
  <2>3. cut[1] = d + n
    BY <1>1, <1>3, <2>1
  <2>4. \A i \in 1 .. n : Head(parts).sector * SECTOR + Head(parts).units[i] = A[d + i]
    BY <1>1, <1>3, <2>1
  <2>5. QED
    BY <2>2, <2>3, <2>4
<1>5. Reads(Tail(parts), A, d + n)
  <2> DEFINE rest == [k \in 0 .. Len(Tail(parts)) |-> cut[k + 1]]
  <2>1. rest \in [0 .. Len(Tail(parts)) -> 0 .. Len(A)]
    BY <1>3
  <2>2. rest[0] = d + n
    BY <1>3, <1>4
  <2>3. rest[Len(Tail(parts))] = Len(A)
    BY <1>1, <1>3
  <2>4. ASSUME NEW k \in 1 .. Len(Tail(parts))
        PROVE  /\ rest[k] = rest[k - 1] + Len(Tail(parts)[k].units)
               /\ \A i \in 1 .. Len(Tail(parts)[k].units) :
                    Tail(parts)[k].sector * SECTOR + Tail(parts)[k].units[i]
                      = A[rest[k - 1] + i]
    <3>1. /\ k + 1 \in 1 .. Len(parts) /\ Tail(parts)[k] = parts[k + 1]
          /\ rest[k] = cut[k + 1] /\ rest[k - 1] = cut[k] /\ (k + 1) - 1 = k
      BY <1>3
    <3>2. /\ cut[k + 1] = cut[(k + 1) - 1] + Len(parts[k + 1].units)
          /\ \A i \in 1 .. Len(parts[k + 1].units) :
               parts[k + 1].sector * SECTOR + parts[k + 1].units[i] = A[cut[(k + 1) - 1] + i]
      BY <1>1, <3>1
    <3> HIDE DEF rest
    <3>3. QED
      BY <3>1, <3>2
  <2> HIDE DEF rest
  <2>5. QED
    BY <2>1, <2>2, <2>3, <2>4 DEF Reads
<1>6. ASSUME Tail(parts) = <<>> PROVE d + n = Len(A)
  <2> DEFINE T == Tail(parts)
  <2>1. Len(T) = Len(parts) - 1
    BY <1>3
  <2>2. T = <<>>
    BY <1>6
  <2> HIDE DEF T
  <2>3. Len(T) = 0
    BY <2>2
  <2>4. Len(parts) = 1
    BY <1>3, <2>1, <2>3
  <2>5. QED
    BY <1>1, <1>4, <2>4
<1>7. QED
  BY <1>3, <1>4, <1>5, <1>6

(* A read of count units from start on.                                    *)
LEMMA PartsRead ==
  ASSUME NEW start \in Nat, NEW count \in Nat \ {0}
  PROVE  /\ Parts(start, count) \in Seq(Part) /\ Parts(start, count) # <<>>
         /\ Span(start, count) \in Seq(Nat) /\ Len(Span(start, count)) = count
         /\ Reads(Parts(start, count), Span(start, count), 0)
<1> DEFINE span  == start % SECTOR
           n     == Over(span + count, SECTOR)
           W     == Parts(start, count)
           A     == Span(start, count)
           S(k)  == SECTOR * k
           from(k) == IF k = 1 THEN span ELSE 0
           left(k) == IF k = 1 THEN count ELSE count + span - S(k - 1)
           cut   == [k \in 0 .. n |-> IF k = 0 THEN 0 ELSE Least(S(k) - span, count)]
<1>1. /\ span \in 0 .. SECTOR - 1 /\ start = (start \div SECTOR) * SECTOR + span
      /\ start \div SECTOR \in Nat
  BY Sizes
<1>2. /\ n \in Nat \ {0} /\ span + count <= S(n)
      /\ \A k \in Nat : k < n <=> S(k) < span + count
  <2>1. span + count \in Nat /\ span + count > 0
    BY <1>1, Sizes
  <2> DEFINE m == span + count
  <2> HIDE DEF m, span
  <2>2. /\ Over(m, SECTOR) \in Nat /\ m <= Over(m, SECTOR) * SECTOR
        /\ \A k \in Nat : k < Over(m, SECTOR) <=> k * SECTOR < m
    BY <2>1, OverBounds, Sizes DEF m
  <2>3. \A k \in Nat : k * SECTOR = SECTOR * k
    BY Sizes
  <2>4. 0 * SECTOR = 0
    BY Sizes
  <2>5. Over(m, SECTOR) # 0
    BY <2>1, <2>2, <2>4 DEF m
  <2>6. QED
    BY <2>2, <2>5, <2>3 DEF m
<1>3. /\ S(0) = 0 /\ S(1) = SECTOR
      /\ \A k \in Nat : S(k) \in Nat
      /\ \A k \in Nat \ {0} : k - 1 \in Nat /\ S(k) = S(k - 1) + SECTOR /\ SECTOR <= S(k)
  BY Sizes
<1> HIDE DEF S, span
<1>4. A \in Seq(Nat) /\ Len(A) = count /\ \A i \in 1 .. count : A[i] = start + i - 1
  BY DEF Span
<1> HIDE DEF A
<1> DEFINE len(k) == Least(SECTOR - from(k), left(k))
           U(k)   == [i \in 1 .. len(k) |-> from(k) + i - 1]
           sec(k) == start \div SECTOR + k - 1
<1>5. ASSUME NEW k \in 1 .. n
      PROVE  /\ len(k) \in Nat /\ from(k) \in Nat
             /\ cut[k] \in 0 .. count /\ cut[k - 1] \in 0 .. count
             /\ cut[k] = cut[k - 1] + len(k)
             /\ cut[k - 1] + span = S(k - 1) + from(k)
  <2>1. /\ S(k - 1) < span + count /\ S(k) = S(k - 1) + SECTOR /\ S(k - 1) \in Nat
        /\ k # 1 => SECTOR <= S(k - 1)
    BY <1>2, <1>3
  <2>2. S(1 - 1) = 0 /\ n \in Nat /\ k - 1 \in 0 .. n /\ k \in 0 .. n /\ k # 0
    BY <1>2, <1>3
  <2>3. /\ cut[k] = Least(S(k) - span, count)
        /\ cut[k - 1] = IF k = 1 THEN 0 ELSE Least(S(k - 1) - span, count)
    BY <2>2
  <2> HIDE DEF cut, n
  <2>4. QED
    BY <2>1, <2>2, <2>3, <1>1, Sizes
<1>6. cut \in [0 .. n -> 0 .. count] /\ cut[0] = 0 /\ cut[n] = count
  <2>1. ASSUME NEW k \in 1 .. n PROVE Least(S(k) - span, count) \in 0 .. count
    <3>1. cut[k] \in 0 .. count
      BY <1>5
    <3>2. k \in 0 .. n /\ k # 0
      BY <1>2
    <3> HIDE DEF n
    <3>3. cut[k] = Least(S(k) - span, count)
      BY <3>2
    <3>4. QED
      BY <3>1, <3>3
  <2>2. Least(S(n) - span, count) = count
    <3>1. S(n) \in Nat /\ span + count <= S(n) /\ n \in Nat
      BY <1>2, <1>3
    <3> HIDE DEF n
    <3>2. QED
      BY <3>1, <1>1, Sizes
  <2>3. QED
    BY <2>1, <2>2, <1>2
<1>7. /\ W = [k \in 1 .. n |-> [sector |-> sec(k), units |-> U(k)]]
      /\ n \in Nat
  BY <1>2 DEF Parts, S, span
<1> HIDE DEF n, W, cut
<1>8. ASSUME NEW k \in 1 .. n
      PROVE  /\ sec(k) \in Nat /\ U(k) \in Seq(Nat) /\ Len(U(k)) = len(k)
             /\ \A i \in 1 .. len(k) : sec(k) * SECTOR + U(k)[i] = A[cut[k - 1] + i]
  <2>1. len(k) \in Nat /\ from(k) \in Nat
    BY <1>5
  <2>2. sec(k) \in Nat
    BY <1>1, <1>7
  <2>3. sec(k) * SECTOR = start - span + S(k - 1)
    <3>1. \A q, j, s \in Nat : (q + j) * s = q * s + s * j
      OBVIOUS
    <3>2. /\ k - 1 \in Nat /\ start \div SECTOR \in Nat /\ SECTOR \in Nat
          /\ sec(k) = start \div SECTOR + (k - 1)
          /\ (start \div SECTOR) * SECTOR = start - span
      <4>1. k - 1 \in Nat /\ k \in Int
        BY <1>7
      <4>2. start \div SECTOR \in Nat /\ SECTOR \in Nat
        BY <1>1, Sizes
      <4> DEFINE q == start \div SECTOR
      <4> HIDE DEF q
      <4>3. q + k - 1 = q + (k - 1)
        BY <4>1, <4>2 DEF q
      <4>4. q * SECTOR = start - span
        <5>1. start = q * SECTOR + span /\ q * SECTOR \in Int /\ span \in Int
          BY <1>1, <4>2 DEF q
        <5>2. QED
          BY <5>1
      <4>5. QED
        BY <4>1, <4>2, <4>3, <4>4 DEF q
    <3>3. sec(k) * SECTOR = (start \div SECTOR) * SECTOR + SECTOR * (k - 1)
      <4> DEFINE q == start \div SECTOR
                 j == k - 1
      <4>1. q \in Nat /\ j \in Nat /\ SECTOR \in Nat /\ sec(k) = q + j
        BY <3>2
      <4> HIDE DEF q, j, sec
      <4>2. (q + j) * SECTOR = q * SECTOR + SECTOR * j
        BY <4>1, <3>1
      <4>3. QED
        BY <4>1, <4>2 DEF q, j
    <3>4. QED
      BY <3>2, <3>3 DEF S
  <2> DEFINE from_ == from(k)
             len_  == len(k)
  <2>4. /\ U(k) \in Seq(Nat) /\ Len(U(k)) = len(k)
        /\ \A i \in 1 .. len(k) : U(k)[i] = from(k) + i - 1
    <3>1. from_ \in Nat /\ len_ \in Nat /\ U(k) = [i \in 1 .. len_ |-> from_ + i - 1]
      BY <2>1
    <3> HIDE DEF from_, len_, U, from, len
    <3>2. /\ U(k) \in Seq(Nat) /\ Len(U(k)) = len_
          /\ \A i \in 1 .. len_ : U(k)[i] = from_ + i - 1
      BY <3>1
    <3>3. QED
      BY <3>2 DEF from_, len_
  <2>5. ASSUME NEW i \in 1 .. len(k)
        PROVE  sec(k) * SECTOR + U(k)[i] = A[cut[k - 1] + i]
    <3>1. U(k)[i] = from(k) + i - 1
      BY <2>4
    <3>2. /\ cut[k] \in 0 .. count /\ cut[k - 1] \in 0 .. count /\ cut[k] = cut[k - 1] + len(k)
          /\ cut[k - 1] + span = S(k - 1) + from(k)
      BY <1>5
    <3>3. k - 1 \in Nat
      BY <1>7
    <3>4. S(k - 1) \in Nat
      BY <1>3, <3>3
    <3> HIDE DEF from, len, sec, U
    <3>5. A[cut[k - 1] + i] = start + (cut[k - 1] + i) - 1
      <4>1. cut[k - 1] + i \in 1 .. count
        BY <3>2, <2>1
      <4>2. QED
        BY <4>1, <1>4
    <3>6. QED
      BY <3>1, <3>2, <3>4, <3>5, <2>1, <2>3, <1>1
  <2>6. QED
    BY <2>2, <2>4, <2>5
<1> HIDE DEF U, sec, len, from, left
<1>9. /\ W \in Seq(Part) /\ Len(W) = n
      /\ \A k \in 1 .. n : W[k].sector = sec(k) /\ W[k].units = U(k)
  BY <1>7, <1>8 DEF Part
<1>10. Reads(W, A, 0)
  <2>1. /\ cut \in [0 .. Len(W) -> 0 .. Len(A)] /\ cut[0] = 0 /\ cut[Len(W)] = Len(A)
    BY <1>4, <1>6, <1>9
  <2>2. ASSUME NEW k \in 1 .. Len(W)
        PROVE  /\ cut[k] = cut[k - 1] + Len(W[k].units)
               /\ \A i \in 1 .. Len(W[k].units) :
                    W[k].sector * SECTOR + W[k].units[i] = A[cut[k - 1] + i]
    <3>1. k \in 1 .. n /\ W[k].sector = sec(k) /\ W[k].units = U(k)
      BY <1>9
    <3>2. cut[k] = cut[k - 1] + Len(U(k))
      BY <3>1, <1>5, <1>8
    <3>3. \A i \in 1 .. Len(U(k)) : sec(k) * SECTOR + U(k)[i] = A[cut[k - 1] + i]
      BY <3>1, <1>8
    <3>4. QED
      BY <3>1, <3>2, <3>3
  <2>3. QED
    BY <2>1, <2>2 DEF Reads
<1>11. QED
  BY <1>2, <1>4, <1>9, <1>10 DEF W, A

(* Where a unit of a sector of a list of blocks lies.                      *)
LEMMA Quotient ==
  ASSUME NEW n \in Int, NEW b \in Nat, b > 0, NEW q \in Int, NEW r \in Int,
         n = q * b + r, 0 <= r, r < b
  PROVE  n \div b = q /\ n % b = r
  OBVIOUS

LEMMA UnitOfSector ==
  ASSUME NEW j \in Nat, NEW x \in 0 .. SECTOR - 1
  PROVE  /\ (SECTOR * j + x) \div BLOCK = j \div SECTORS
         /\ (SECTOR * j + x) % BLOCK = (j % SECTORS) * SECTOR + x
<1> DEFINE q == j \div SECTORS
           r == j % SECTORS
<1>1. /\ SECTOR \in Nat \ {0} /\ BLOCK \in Nat \ {0} /\ SECTORS \in Nat \ {0}
      /\ BLOCK = SECTORS * SECTOR
  BY Sizes
<1>2. q \in Nat /\ r \in 0 .. SECTORS - 1 /\ j = SECTORS * q + r
  BY <1>1
<1> HIDE DEF q, r
<1>3. \A s, t, a, b \in Nat : s * (t * a + b) = a * (t * s) + b * s
  OBVIOUS
<1>4. SECTOR * j = q * BLOCK + r * SECTOR
  BY <1>1, <1>2, <1>3
<1>5. r * SECTOR \in Nat /\ r * SECTOR + x < BLOCK
  <2>1. \A a, b \in Nat, s \in Nat \ {0} : a < b => a * s \in Nat /\ a * s + s <= b * s
    OBVIOUS
  <2>2. r * SECTOR \in Nat /\ r * SECTOR + SECTOR <= SECTORS * SECTOR
    BY <1>1, <1>2, <2>1
  <2>3. QED
    BY <2>2, <1>1
<1>6. /\ SECTOR * j + x \in Nat /\ r * SECTOR + x \in Nat /\ q * BLOCK \in Nat
      /\ SECTOR * j + x = q * BLOCK + (r * SECTOR + x)
  BY <1>1, <1>2, <1>4, <1>5
<1>7. (SECTOR * j + x) \div BLOCK = q /\ (SECTOR * j + x) % BLOCK = r * SECTOR + x
  BY <1>1, <1>2, <1>5, <1>6, Quotient
<1>8. QED
  BY <1>7 DEF q, r

(* A read of the first count units of a list of blocks.                    *)
LEMMA BlocksPartsRead ==
  ASSUME NEW blocks, NEW count \in Nat \ {0},
         \A i \in 1 .. Over(count, BLOCK) : blocks[i] \in Nat
  PROVE  /\ BlocksParts(blocks, count) \in Seq(Part) /\ BlocksParts(blocks, count) # <<>>
         /\ BlockUnits(blocks, count) \in Seq(Nat)
         /\ Len(BlockUnits(blocks, count)) = count
         /\ Reads(BlocksParts(blocks, count), BlockUnits(blocks, count), 0)
<1> DEFINE n      == Over(count, SECTOR)
           W      == BlocksParts(blocks, count)
           A      == BlockUnits(blocks, count)
           S(k)   == SECTOR * k
           of(j)  == blocks[j \div SECTORS + 1]
           sec(k) == of(k - 1) * SECTORS + ((k - 1) % SECTORS)
           len(k) == Least(SECTOR, count - S(k - 1))
           U(k)   == [i \in 1 .. len(k) |-> i - 1]
           cut    == [k \in 0 .. n |-> Least(S(k), count)]
<1>1. /\ SECTOR \in Nat \ {0} /\ BLOCK \in Nat \ {0} /\ SECTORS \in Nat \ {0}
      /\ BLOCK = SECTORS * SECTOR
  BY Sizes
<1>2. /\ n \in Nat \ {0} /\ count <= S(n)
      /\ \A k \in Nat : k < n <=> S(k) < count
  <2>1. /\ n \in Nat /\ count <= n * SECTOR
        /\ \A k \in Nat : k < n <=> k * SECTOR < count
    BY OverBounds, <1>1
  <2>2. (\A k \in Nat : k * SECTOR = SECTOR * k) /\ 0 * SECTOR = 0
    BY <1>1
  <2> HIDE DEF n
  <2>3. n # 0
    BY <2>1, <2>2
  <2>4. QED
    BY <2>1, <2>2, <2>3
<1>3. /\ S(0) = 0 /\ \A k \in Nat : S(k) \in Nat
      /\ \A k \in Nat \ {0} : k - 1 \in Nat /\ S(k) = S(k - 1) + SECTOR
  BY <1>1
<1> HIDE DEF S
<1>4. ASSUME NEW i \in 1 .. count
      PROVE  blocks[(i - 1) \div BLOCK + 1] \in Nat /\ (i - 1) % BLOCK \in Nat
  <2>1. i - 1 \in Nat /\ i - 1 < count
    OBVIOUS
  <2> DEFINE j == i - 1
             q == j \div BLOCK
  <2>2. q \in Nat /\ q * BLOCK <= j /\ j % BLOCK \in Nat
    BY <1>1, <2>1
  <2> HIDE DEF q
  <2>3. q * BLOCK < count
    BY <2>1, <2>2, <1>1
  <2>4. q < Over(count, BLOCK) /\ Over(count, BLOCK) \in Nat
    BY <2>2, <2>3, <1>1, OverBounds
  <2>5. q + 1 \in 1 .. Over(count, BLOCK)
    BY <2>2, <2>4
  <2>6. QED
    BY <2>2, <2>5 DEF q
<1>5. /\ A \in Seq(Nat) /\ Len(A) = count
      /\ \A i \in 1 .. count : A[i] = blocks[(i - 1) \div BLOCK + 1] * BLOCK + ((i - 1) % BLOCK)
  <2>1. \A i \in 1 .. count :
          blocks[(i - 1) \div BLOCK + 1] * BLOCK + ((i - 1) % BLOCK) \in Nat
    BY <1>4, <1>1
  <2>2. QED
    BY <2>1 DEF BlockUnits
<1>6. W = [k \in 1 .. n |-> [sector |-> sec(k), units |-> U(k)]] /\ n \in Nat
  BY <1>2 DEF BlocksParts, S
<1> HIDE DEF A, W
<1>7. ASSUME NEW k \in 1 .. n
      PROVE  /\ len(k) \in 1 .. SECTOR
             /\ cut[k] \in 0 .. count /\ cut[k - 1] = S(k - 1) /\ S(k - 1) \in Nat
             /\ cut[k] = cut[k - 1] + len(k)
  <2>1. k - 1 \in Nat /\ k \in Nat \ {0} /\ k - 1 < n
    BY <1>2
  <2>2. /\ S(k - 1) < count /\ S(k) = S(k - 1) + SECTOR /\ S(k - 1) \in Nat
    BY <1>2, <1>3, <2>1
  <2>3. k - 1 \in 0 .. n /\ k \in 0 .. n
    BY <1>2
  <2>4. cut[k] = Least(S(k), count) /\ cut[k - 1] = Least(S(k - 1), count)
    BY <2>3
  <2> HIDE DEF cut, n
  <2>5. QED
    BY <2>2, <2>4, <1>1
<1>8. cut \in [0 .. n -> 0 .. count] /\ cut[0] = 0 /\ cut[n] = count
  <2>1. \A k \in Nat : Least(S(k), count) \in 0 .. count
    BY <1>3
  <2>2. Least(S(n), count) = count /\ Least(S(0), count) = 0
    <3>1. S(n) \in Nat
      BY <1>2, <1>3
    <3>2. QED
      BY <3>1, <1>2, <1>3
  <2>3. QED
    BY <2>1, <2>2, <1>2
<1> HIDE DEF n, cut
<1>9. ASSUME NEW k \in 1 .. n
      PROVE  /\ sec(k) \in Nat /\ U(k) \in Seq(Nat) /\ Len(U(k)) = len(k)
             /\ \A i \in 1 .. len(k) : sec(k) * SECTOR + U(k)[i] = A[cut[k - 1] + i]
  <2> DEFINE j    == k - 1
             m    == j % SECTORS
             len_ == len(k)
  <2>1. j \in Nat
    BY <1>6
  <2>2. m \in Nat
    BY <2>1, <1>1
  <2>3. len_ \in 1 .. SECTOR
    BY <1>7
  <2>4. j \in Nat /\ m \in Nat /\ len_ \in 1 .. SECTOR
    BY <2>1, <2>2, <2>3
  <2>5. ASSUME NEW i \in 1 .. len_
        PROVE  /\ of(j) \in Nat
               /\ A[cut[k - 1] + i] = of(j) * BLOCK + (m * SECTOR + (i - 1))
    <3>1. i - 1 \in 0 .. SECTOR - 1 /\ i \in Nat
      <4> HIDE DEF len_
      <4>1. QED
        BY <2>4, <1>1
    <3>2. /\ cut[k - 1] = S(j) /\ S(j) \in Nat /\ S(j) + i \in 1 .. count
      <4>1. cut[k - 1] = S(j) /\ S(j) \in Nat /\ cut[k] \in 0 .. count /\ cut[k] = S(j) + len_
        BY <1>7
      <4> HIDE DEF len_, j
      <4>2. QED
        BY <4>1, <2>4, <3>1
    <3>3. /\ (S(j) + (i - 1)) \div BLOCK = j \div SECTORS
          /\ (S(j) + (i - 1)) % BLOCK = m * SECTOR + (i - 1)
      BY <3>1, <2>4, UnitOfSector DEF S
    <3>4. (S(j) + i) - 1 = S(j) + (i - 1)
      BY <3>1, <3>2
    <3>5. /\ A[S(j) + i] = blocks[((S(j) + i) - 1) \div BLOCK + 1] * BLOCK
                             + (((S(j) + i) - 1) % BLOCK)
          /\ blocks[((S(j) + i) - 1) \div BLOCK + 1] \in Nat
      BY <3>2, <1>4, <1>5
    <3> HIDE DEF m, j
    <3>6. QED
      BY <3>2, <3>3, <3>4, <3>5
  <2>6. of(j) \in Nat
    BY <2>4, <2>5
  <2>7. /\ U(k) \in Seq(Nat) /\ Len(U(k)) = len_ /\ \A i \in 1 .. len_ : U(k)[i] = i - 1
    <3>1. U(k) = [i \in 1 .. len_ |-> i - 1]
      OBVIOUS
    <3> HIDE DEF U, len_
    <3>2. QED
      BY <3>1, <2>4
  <2>8. sec(k) = of(j) * SECTORS + m
    OBVIOUS
  <2> HIDE DEF of, m, j, sec, len_
  <2>9. sec(k) \in Nat
    BY <2>4, <2>6, <2>8, <1>1
  <2>10. ASSUME NEW i \in 1 .. len_
         PROVE  sec(k) * SECTOR + U(k)[i] = A[cut[k - 1] + i]
    <3>1. \A a, b, c, s \in Nat : (a * b + c) * s = a * (b * s) + c * s
      OBVIOUS
    <3>2. sec(k) * SECTOR = of(j) * BLOCK + m * SECTOR
      BY <3>1, <2>4, <2>6, <2>8, <1>1
    <3>3. of(j) * BLOCK \in Nat /\ m * SECTOR \in Nat /\ i \in Nat
      BY <2>4, <2>6, <1>1
    <3>4. A[cut[k - 1] + i] = of(j) * BLOCK + (m * SECTOR + (i - 1)) /\ U(k)[i] = i - 1
      BY <2>5, <2>7
    <3>5. QED
      BY <3>2, <3>3, <3>4
  <2>11. QED
    BY <2>7, <2>9, <2>10 DEF len_
<1> HIDE DEF U, sec, len, of
<1>10. /\ W \in Seq(Part) /\ Len(W) = n
       /\ \A k \in 1 .. n : W[k].sector = sec(k) /\ W[k].units = U(k)
  BY <1>6, <1>9 DEF Part
<1>11. Reads(W, A, 0)
  <2>1. /\ cut \in [0 .. Len(W) -> 0 .. Len(A)] /\ cut[0] = 0 /\ cut[Len(W)] = Len(A)
    BY <1>5, <1>8, <1>10
  <2>2. ASSUME NEW k \in 1 .. Len(W)
        PROVE  /\ cut[k] = cut[k - 1] + Len(W[k].units)
               /\ \A i \in 1 .. Len(W[k].units) :
                    W[k].sector * SECTOR + W[k].units[i] = A[cut[k - 1] + i]
    <3>1. k \in 1 .. n /\ W[k].sector = sec(k) /\ W[k].units = U(k)
      BY <1>10
    <3>2. cut[k] = cut[k - 1] + Len(U(k))
      BY <3>1, <1>7, <1>9
    <3>3. \A i \in 1 .. Len(U(k)) : sec(k) * SECTOR + U(k)[i] = A[cut[k - 1] + i]
      BY <3>1, <1>9
    <3>4. QED
      BY <3>1, <3>2, <3>3
  <2>3. QED
    BY <2>1, <2>2 DEF Reads
<1>12. QED
  BY <1>2, <1>5, <1>10, <1>11 DEF W, A

-----------------------------------------------------------------------------
(* What the disk says.                                                     *)
Groups == [g \in 1 .. GroupCount |-> Image[BGDT_START + g - 1]]

LEMMA Numbers ==
  /\ \A a : BlockNumber(a) \in Nat
  /\ GroupCount \in Nat /\ SUPERBLOCK_START \in Nat /\ BGDT_START \in Nat
  /\ ROOT_DIR_INODE \in Inodes
<1>1. \A a : BlockNumber(a) \in Nat
  BY ImageAssumption DEF BlockNumber
<1>2. GroupCount \in Nat
  BY ImageAssumption, OverBounds DEF GroupCount
<1>3. QED
  BY <1>1, <1>2, ImageAssumption, Sizes DEF SUPERBLOCK_START, BGDT_START

LEMMA InodesOfDisk ==
  ASSUME NEW id \in Inodes
  PROVE  /\ WellFormed(InodeOf(id)) /\ InodeOf(id) = Image[InodeAddress(id)]
         /\ InodeAddress(id) \in Nat
         /\ GroupOf(id) \in 0 .. GroupCount - 1
<1> DEFINE ipg == SuperBlock.inodes_per_group
<1>1. id \in 1 .. GroupCount * ipg /\ WellFormed(InodeOf(id)) /\ ipg \in Nat \ {0}
  BY ImageAssumption DEF Inodes
<1> HIDE DEF ipg
<1>2. (id - 1) \div ipg \in Nat /\ (id - 1) \div ipg < GroupCount /\ (id - 1) % ipg \in Nat
  <2>1. \A n, b, g \in Nat : b > 0 /\ n < g * b => n \div b \in Nat /\ n \div b < g /\ n % b \in Nat
    OBVIOUS
  <2>2. id - 1 \in Nat /\ GroupCount * ipg \in Nat /\ id - 1 < GroupCount * ipg
    BY <1>1, Numbers
  <2>3. QED
    BY <2>1, <2>2, <1>1, Numbers
<1>3. GroupOf(id) \in 0 .. GroupCount - 1
  BY <1>2, Numbers DEF GroupOf, ipg
<1>4. Image[BGDT_START + GroupOf(id)].inode_table \in Nat
  BY <1>3, ImageAssumption
<1>5. InodeAddress(id) \in Nat
  BY <1>2, <1>4, Sizes DEF InodeAddress, ipg
<1>6. QED
  BY <1>1, <1>3, <1>5, Numbers DEF InodeOf

(* The tables of a loaded disk lead to the inode.                          *)
LEMMA InodePartsRead ==
  ASSUME NEW d, d.sb = SuperBlock, d.bgdt = Groups, NEW id \in Inodes
  PROVE  InodeParts(d, id) = Parts(InodeAddress(id), 1)
<1>1. GroupOf(id) + 1 \in 1 .. GroupCount /\ GroupOf(id) \in Int
  <2>1. GroupOf(id) \in 0 .. GroupCount - 1
    BY InodesOfDisk
  <2>2. QED
    BY <2>1, Numbers
<1>2. Groups[GroupOf(id) + 1] = Image[BGDT_START + GroupOf(id)]
  <2>1. Groups[GroupOf(id) + 1] = Image[BGDT_START + (GroupOf(id) + 1) - 1]
    BY <1>1 DEF Groups
  <2>2. BGDT_START + (GroupOf(id) + 1) - 1 = BGDT_START + GroupOf(id)
    BY <1>1, Numbers
  <2>3. QED
    BY <2>1, <2>2
<1>3. QED
  BY <1>2 DEF InodeParts, InodeAddress, GroupOf

DirUnits(inode) == BlockUnits(inode.block, inode.size)

LEMMA DirPartsRead ==
  ASSUME NEW inode, WellFormed(inode), inode.dir
  PROVE  /\ DirParts(inode) \in Seq(Part) /\ DirParts(inode) # <<>>
         /\ DirUnits(inode) \in Seq(Nat) /\ Len(DirUnits(inode)) = inode.size
         /\ Reads(DirParts(inode), DirUnits(inode), 0)
         /\ BlocksOf(inode) <= DIRECT /\ inode.size \in 1 .. PAGE
<1>1. /\ inode.size \in 1 .. PAGE /\ inode.size \in Nat \ {0}
      /\ inode.block \in [1 .. DIRECT + 2 -> Nat]
  BY Sizes DEF WellFormed
<1>2. PAGE <= DIRECT * BLOCK
  <2>1. DIRECT * BLOCK \in Nat \ {0} /\ (DIRECT * BLOCK) % PAGE = 0
    BY FilesAssumption
  <2>2. \A n, b \in Nat \ {0} : n % b = 0 => b <= n
    OBVIOUS
  <2>3. QED
    BY <2>1, <2>2, Sizes
<1>3. BlocksOf(inode) <= DIRECT /\ Over(inode.size, BLOCK) \in Nat
  <2>1. inode.size <= DIRECT * BLOCK
    BY <1>1, <1>2, Sizes
  <2>2. Over(inode.size, BLOCK) \in Nat
        /\ (DIRECT < Over(inode.size, BLOCK) <=> DIRECT * BLOCK < inode.size)
    BY <1>1, OverBounds, Sizes
  <2>3. QED
    BY <2>1, <2>2, <1>1, Sizes DEF BlocksOf
<1>4. ASSUME NEW i \in 1 .. Over(inode.size, BLOCK) PROVE inode.block[i] \in Nat
  <2>1. i \in 1 .. DIRECT + 2
    BY <1>3, Sizes DEF BlocksOf
  <2>2. QED
    BY <2>1, <1>1
<1>5. QED
  BY <1>1, <1>3, <1>4, BlocksPartsRead DEF DirParts, DirUnits

-----------------------------------------------------------------------------
(* The good states.                                                        *)
IsState(st) ==
  DOMAIN st = {"disk", "hdd", "files", "fds", "call", "answer", "halted"}

Sectors == Nat \cup {NO_SECTOR}

HddOK(h) ==
  /\ h \in [read_queue : Seq(Tasks), command : Sectors, ready : Sectors, buffer : Nat]
  /\ Len(h.read_queue) = IF h.command = NO_SECTOR THEN 0 ELSE 1

DiskOK(d) ==
  /\ DOMAIN d = {"loaded", "sb", "bgdt"} /\ d.loaded \in BOOLEAN
  /\ d.loaded => d.sb = SuperBlock /\ d.bgdt = Groups

OpenFile ==
  [klass : {"file"}, inode : {InodeOf(id) : id \in Inodes}, file_size : Nat,
   block_list : Seq(Nat), stream_pos : Nat, buffer : [1 .. PAGE -> Nat], buf_pos : 0 .. PAGE,
   buffer_empty : BOOLEAN, clean : BOOLEAN]

Reserved == [klass |-> "file"]             (* an entry that ext2_open fills *)

(* The block numbers that ext2_open stored are those the disk leads to.    *)
Maps(inode, list) ==
  \A k \in 0 .. BlocksOf(inode) - 1 :
    FileBlock([inode |-> inode, block_list |-> list], k) = FormatBlock(inode, k)

Mapped(f) == ~ f.inode.dir => f.file_size = f.inode.size /\ Maps(f.inode, f.block_list)

SameFile(f, g) ==
  g.inode = f.inode /\ g.file_size = f.file_size /\ g.block_list = f.block_list

FilesOK(fl, fd) ==
  /\ DOMAIN fl = Slots /\ fd \in [Tasks -> SUBSET Slots]
  /\ \A t \in Tasks : \A s \in fd[t] :
       /\ fl[s] \in OpenFile /\ Mapped(fl[s])
       /\ fl[s].clean => fl[s].stream_pos <= fl[s].file_size

(* The stages of ext2_open: what each reads, and what is known by then.    *)
AfterTables == {"dirinode", "dir", "inode", "single", "double", "loads", "list"}
WithSlot    == {"inode", "single", "double", "loads", "list"}
WithInode   == {"single", "double", "loads", "list"}

Wanted(c) ==
  CASE c.at = "super"                 -> Span(SUPERBLOCK_START, BLOCK)
    [] c.at = "groups"                -> Span(BGDT_START, GroupCount)
    [] c.at \in {"dirinode", "inode"} -> Span(InodeAddress(c.dir), 1)
    [] c.at = "dir"                   -> DirUnits(InodeOf(c.dir))
    [] c.at = "single"                -> Span(c.inode.block[DIRECT + 1] * BLOCK, BLOCK)
    [] c.at = "double"                -> Span(c.inode.block[DIRECT + 2] * BLOCK, BLOCK)
    [] c.at = "loads"                 ->
         Span(BlockNumber(c.double[Len(c.list) \div BLOCK]) * BLOCK, BLOCK)
    [] c.at = "list"                  -> DirUnits(c.inode)

(* The word that holds the number of block k of a file.                    *)
LastPointer(inode, k) ==
  LET rest == k - DIRECT - BLOCK
  IN IF rest < 0 THEN inode.block[DIRECT + 1] * BLOCK + (k - DIRECT)
     ELSE BlockNumber(inode.block[DIRECT + 2] * BLOCK + (rest \div BLOCK)) * BLOCK + (rest % BLOCK)

(* list holds the numbers of the first lists * BLOCK blocks that are not   *)
(* direct.                                                                 *)
ListOK(inode, list, lists) ==
  /\ list \in Seq(Nat) /\ Len(list) = lists * BLOCK
  /\ \A i \in 1 .. Len(list) : list[i] = LastPointer(inode, DIRECT + i - 1)

Lists(c) ==
  /\ c.at = "single" => BlocksOf(c.inode) > DIRECT
  /\ c.at = "double" => ListOK(c.inode, c.list, 1) /\ BlocksOf(c.inode) > DIRECT + BLOCK
  /\ c.at = "loads" =>
       /\ c.double = Span(c.inode.block[DIRECT + 2] * BLOCK, BLOCK)
       /\ \E r \in Nat \ {0} :
            ListOK(c.inode, c.list, r) /\ BlocksOf(c.inode) > DIRECT + r * BLOCK
  /\ c.at \notin {"double", "loads"} => c.list = <<>>

OpenCall(c) ==
  /\ DOMAIN c = {"op", "at", "path", "flags", "dir", "slot", "got", "list", "inode", "double",
                 "parts"}
  /\ c.op = "open" /\ c.dir \in Inodes

OpenData(st, c) ==
  /\ OpenCall(c)
  /\ c.at \in {"super", "groups"} \cup AfterTables
  /\ c.parts \in Seq(Part)
  /\ Wanted(c) \in Seq(Nat) /\ Reads(c.parts, Wanted(c), Len(c.got))
  /\ c.got \in Seq(Nat) /\ \A i \in 1 .. Len(c.got) : c.got[i] = Wanted(c)[i]
  /\ c.at = "groups" => st.disk.sb = SuperBlock
  /\ c.at \in AfterTables => st.disk.loaded
  /\ c.at = "dir" => InodeOf(c.dir).dir
  /\ c.at \in WithSlot => /\ c.slot \in Slots /\ st.files[c.slot] = Reserved
                          /\ \A v \in Tasks : c.slot \notin st.fds[v]
  /\ c.at \in WithInode => c.inode = InodeOf(c.dir) /\ BlocksOf(c.inode) <= LastBlocks
  /\ c.at = "list" => c.inode.dir
  /\ Lists(c)

OpenOK(st, c) == OpenData(st, c) /\ c.parts # <<>>

ReadData(st, t, c) ==
  /\ c \in [op : {"read"}, slot : st.fds[t], at : {"first", "more"}, left : Nat \ {0},
            asked : Nat, from : Nat, got : Seq(Nat), done : Nat, parts : Seq(Part)]
  /\ c.at = "more" /\ st.files[c.slot].clean =>
       st.files[c.slot].stream_pos + c.left <= st.files[c.slot].file_size

ReadOK(st, t, c) == ReadData(st, t, c) /\ c.parts # <<>>

SeekOK(st, t, c) ==
  /\ c \in [op : {"seek"}, slot : st.fds[t], done : Nat, parts : Seq(Part)]
  /\ c.parts # <<>>

(* The drive is at the sector that t waits for, or its data port or        *)
(* hdd_enhanced_buffer holds it.                                           *)
Sync(h, t, c) ==
  \/ h.read_queue = <<t>> /\ h.command = Head(c.parts).sector
  \/ /\ h.command = NO_SECTOR
     /\ \/ h.ready = Head(c.parts).sector
        \/ h.ready = NO_SECTOR /\ h.buffer = Head(c.parts).sector

CallData(st, t, c) ==
  \/ c.op = "open" /\ OpenOK(st, c)
  \/ c.op = "read" /\ ReadOK(st, t, c)
  \/ c.op = "seek" /\ SeekOK(st, t, c)

Undisturbed(st, c) == c.op = "open" \/ st.files[c.slot].clean

CallOK(st, t) ==
  \/ st.call[t].op \in {NONE, "unborn", "lost"}
  \/ /\ CallData(st, t, st.call[t])
     /\ Undisturbed(st, st.call[t]) => Sync(st.hdd, t, st.call[t])

(* Two calls never are undisturbed at once where they could meet.          *)
Apart(st, c, d) ==
  /\ ~ (c.op = "open" /\ d.op = "open")
  /\ c.op \in {"read", "seek"} /\ d.op \in {"read", "seek"} /\ c.slot = d.slot =>
       ~ st.files[c.slot].clean

Tables(st) ==
  /\ IsState(st) /\ HddOK(st.hdd) /\ DiskOK(st.disk) /\ FilesOK(st.files, st.fds)
  /\ DOMAIN st.call = Tasks

Good(st) ==
  /\ Tables(st)
  /\ \A t \in Tasks : CallOK(st, t)
  /\ \A t, u \in Tasks : t # u => Apart(st, st.call[t], st.call[u])

(* As far as a step of t got.                                              *)
GoodBut(st, t) ==
  /\ Tables(st) /\ st.call = call
  /\ \A u \in Tasks \ {t} : CallOK(st, u)
  /\ \A u, v \in Tasks \ {t} : u # v => Apart(st, st.call[u], st.call[v])

(* What a call needs of a state is in its disk, files and descriptors, and *)
(* no table of the disk that is there is taken away.  answer and halted    *)
(* make no difference.                                                     *)
LEMMA MoreData ==
  ASSUME NEW st, NEW r, r.files = st.files, r.fds = st.fds,
         st.disk.sb = SuperBlock => r.disk.sb = SuperBlock,
         st.disk.loaded => r.disk.loaded,
         NEW t, NEW c, CallData(st, t, c)
  PROVE  CallData(r, t, c)
<1>1. OpenOK(st, c) => OpenOK(r, c)
  BY DEF OpenOK, OpenData
<1>2. ReadOK(st, t, c) => ReadOK(r, t, c)
  BY DEF ReadOK, ReadData
<1>3. SeekOK(st, t, c) => SeekOK(r, t, c)
  BY DEF SeekOK
<1>4. QED
  BY <1>1, <1>2, <1>3 DEF CallData

LEMMA SameData ==
  ASSUME NEW st, NEW r, r.disk = st.disk, r.files = st.files, r.fds = st.fds,
         NEW t, NEW c, CallData(st, t, c)
  PROVE  CallData(r, t, c)
<1>1. QED
  BY MoreData

(* The calls of the others go on when only the tables of the disk were     *)
(* filled.                                                                 *)
LEMMA MoreCall ==
  ASSUME NEW st, NEW r, r.files = st.files, r.fds = st.fds, r.hdd = st.hdd, r.call = st.call,
         st.disk.sb = SuperBlock => r.disk.sb = SuperBlock,
         st.disk.loaded => r.disk.loaded, NEW t, CallOK(st, t)
  PROVE  CallOK(r, t)
<1>1. CallData(st, t, st.call[t]) => CallData(r, t, r.call[t])
  BY MoreData
<1>2. Undisturbed(r, r.call[t]) <=> Undisturbed(st, st.call[t])
  BY DEF Undisturbed
<1>3. QED
  BY <1>1, <1>2 DEF CallOK

LEMMA SameState ==
  ASSUME NEW st, NEW r, Good(st), IsState(r), r.disk = st.disk, r.hdd = st.hdd,
         r.files = st.files, r.fds = st.fds, r.call = st.call
  PROVE  Good(r)
<1>1. Tables(r)
  BY DEF Good, Tables
<1>2. ASSUME NEW t \in Tasks PROVE CallOK(r, t)
  <2>1. CallOK(st, t)
    BY DEF Good
  <2>2. CallData(st, t, st.call[t]) => CallData(r, t, r.call[t])
    BY SameData
  <2>3. Undisturbed(r, r.call[t]) <=> Undisturbed(st, st.call[t])
    BY DEF Undisturbed
  <2>4. QED
    BY <2>1, <2>2, <2>3 DEF CallOK
<1>3. ASSUME NEW t \in Tasks, NEW u \in Tasks, t # u
      PROVE  Apart(r, r.call[t], r.call[u])
  <2>1. Apart(st, st.call[t], st.call[u])
    BY <1>3 DEF Good
  <2>2. QED
    BY <2>1 DEF Apart
<1>4. QED
  BY <1>1, <1>2, <1>3 DEF Good

LEMMA HaltIsGood == ASSUME Good(Now) PROVE Good(Halt)
<1>1. /\ IsState(Halt) /\ Halt.disk = Now.disk /\ Halt.hdd = Now.hdd /\ Halt.files = Now.files
      /\ Halt.fds = Now.fds /\ Halt.call = Now.call
  BY DEF Halt, Now, IsState
<1>2. QED
  BY <1>1, SameState

LEMMA ReturnIsGood ==
  ASSUME NEW st, NEW t \in Tasks, GoodBut(st, t)
  PROVE  Good(Return(st, t))
<1> DEFINE r == Return(st, t)
<1>1. /\ IsState(st) /\ HddOK(st.hdd) /\ st.call = call
      /\ DOMAIN st.call = Tasks
  BY DEF GoodBut, Tables
<1>2. /\ IsState(r) /\ r.disk = st.disk /\ r.files = st.files /\ r.fds = st.fds
      /\ r.call = [st.call EXCEPT ![t] = NoCall]
      /\ r.hdd = IF \E u \in Tasks \ {t} : InCall(u) THEN st.hdd
                 ELSE [st.hdd EXCEPT !.buffer = 0, !.ready = NO_SECTOR]
  BY <1>1 DEF Return, IsState
<1> HIDE DEF r
<1>3. HddOK(r.hdd)
  <2>1. HddOK([st.hdd EXCEPT !.buffer = 0, !.ready = NO_SECTOR])
    BY <1>1 DEF HddOK, Sectors
  <2>2. QED
    BY <2>1, <1>1, <1>2
<1>4. /\ DOMAIN r.call = Tasks /\ r.call[t] = NoCall
      /\ \A u \in Tasks \ {t} : r.call[u] = st.call[u]
  BY <1>1, <1>2
<1>5. Tables(r)
  BY <1>2, <1>3, <1>4 DEF GoodBut, Tables
<1>6. ASSUME NEW u \in Tasks PROVE CallOK(r, u)
  <2>1. CASE u = t
    BY <2>1, <1>4 DEF CallOK, NoCall
  <2>2. CASE u # t
    <3>1. CallOK(st, u) /\ r.call[u] = st.call[u]
      BY <2>2, <1>4 DEF GoodBut
    <3>2. CallData(st, u, st.call[u]) => r.hdd = st.hdd
      BY <2>2, <1>1, <1>2 DEF CallData, InCall
    <3>3. CallData(st, u, st.call[u]) => CallData(r, u, r.call[u])
      BY <3>1, <1>2, SameData
    <3>4. Undisturbed(r, r.call[u]) => Undisturbed(st, st.call[u])
      BY <3>1, <1>2 DEF Undisturbed
    <3>5. QED
      BY <3>1, <3>2, <3>3, <3>4 DEF CallOK
  <2>3. QED
    BY <2>1, <2>2
<1>7. ASSUME NEW u \in Tasks, NEW v \in Tasks, u # v
      PROVE  Apart(r, r.call[u], r.call[v])
  <2>1. CASE u # t /\ v # t
    BY <2>1, <1>7, <1>2, <1>4 DEF GoodBut, Apart
  <2>2. CASE u = t \/ v = t
    BY <2>2, <1>4 DEF Apart, NoCall, NONE
  <2>3. QED
    BY <2>1, <2>2
<1>8. QED
  BY <1>5, <1>6, <1>7 DEF Good, r

(* A file whose page is not followed any more is still an open file.       *)
LEMMA SpoiledFile ==
  ASSUME NEW f \in OpenFile
  PROVE  /\ Spoiled(f) \in OpenFile /\ ~ Spoiled(f).clean
         /\ Spoiled(f) = [f EXCEPT !.clean = FALSE, !.buffer = AnyPage]
         /\ Spoiled(f).stream_pos = f.stream_pos /\ Spoiled(f).file_size = f.file_size
         /\ Spoiled(f).inode = f.inode /\ Spoiled(f).block_list = f.block_list
         /\ Spoiled(f).buf_pos = f.buf_pos /\ Spoiled(f).buffer_empty = f.buffer_empty
         /\ SameFile(f, Spoiled(f)) /\ (Mapped(f) => Mapped(Spoiled(f)))
<1>1. AnyPage \in [1 .. PAGE -> Nat]
  BY DEF AnyPage
<1> DEFINE g == Spoiled(f)
<1>2. /\ g \in OpenFile /\ ~ g.clean /\ g = [f EXCEPT !.clean = FALSE, !.buffer = AnyPage]
      /\ g.stream_pos = f.stream_pos /\ g.buf_pos = f.buf_pos
      /\ g.buffer_empty = f.buffer_empty /\ SameFile(f, g)
  BY <1>1 DEF Spoiled, OpenFile, SameFile
<1> HIDE DEF g
<1>3. g.inode = f.inode /\ g.file_size = f.file_size /\ g.block_list = f.block_list
  BY <1>2 DEF SameFile
<1>4. Mapped(f) => Mapped(g)
  BY <1>3 DEF Mapped
<1>5. QED
  BY <1>2, <1>3, <1>4 DEF g

(* t has changed the entry s, that it has open.                            *)
Changed(st, r, s) ==
  /\ IsState(r) /\ r.disk = st.disk /\ r.hdd = st.hdd /\ r.fds = st.fds /\ r.call = st.call
  /\ DOMAIN r.files = Slots /\ \A x \in Slots \ {s} : r.files[x] = st.files[x]

LEMMA UpdateIsGood ==
  ASSUME NEW st, NEW t \in Tasks, GoodBut(st, t), NEW s \in st.fds[t], NEW r,
         Changed(st, r, s), r.files[s] \in OpenFile, SameFile(st.files[s], r.files[s]),
         r.files[s].clean => /\ r.files[s].stream_pos <= r.files[s].file_size
                             /\ ~ OthersIn(s, t)
  PROVE  GoodBut(r, t)
<1>1. /\ Tables(st) /\ st.call = call /\ FilesOK(st.files, st.fds) /\ DOMAIN st.files = Slots
      /\ s \in Slots
  BY DEF GoodBut, Tables, FilesOK
<1>2. FilesOK(r.files, r.fds)
  <2>1. Mapped(st.files[s])
    BY <1>1 DEF FilesOK
  <2>2. Mapped(r.files[s])
    BY <2>1 DEF Mapped, SameFile
  <2>3. QED
    BY <1>1, <2>2 DEF FilesOK, Changed
<1>3. Tables(r) /\ r.call = call
  BY <1>1, <1>2 DEF Tables, Changed
<1>4. ASSUME NEW u \in Tasks \ {t} PROVE CallOK(r, u)
  <2>1. CallOK(st, u) /\ st.call[u] = call[u]
    BY <1>1 DEF GoodBut
  <2> DEFINE d == st.call[u]
  <2>2. ASSUME CallData(st, u, d)
        PROVE  CallData(r, u, d) /\ (Undisturbed(r, d) => Undisturbed(st, d))
    <3>1. CASE d.op = "open"
      BY <3>1, <2>2, <1>1 DEF CallData, OpenOK, OpenData, OpenCall, ReadOK, ReadData, SeekOK,
             Undisturbed, Changed
    <3>2. CASE d.op # "open"
      <4>1. d.slot \in Slots /\ d.op \in {"read", "seek"}
        BY <2>2, <3>2, <1>1 DEF CallData, ReadOK, ReadData, SeekOK, FilesOK
      <4>2. r.files[d.slot] = st.files[d.slot] \/ ~ r.files[d.slot].clean
        BY <4>1, <2>1 DEF Changed, OthersIn
      <4>3. QED
        BY <2>2, <3>2, <4>2 DEF CallData, ReadOK, ReadData, SeekOK, Undisturbed, Changed
    <3>3. QED
      BY <3>1, <3>2
  <2>3. r.call[u] = d /\ r.hdd = st.hdd
    BY DEF Changed
  <2> HIDE DEF d
  <2>4. CASE d.op \in {NONE, "unborn", "lost"}
    BY <2>3, <2>4 DEF CallOK
  <2>5. CASE d.op \notin {NONE, "unborn", "lost"}
    BY <2>1, <2>2, <2>3, <2>5 DEF CallOK, d
  <2>6. QED
    BY <2>4, <2>5
<1>5. ASSUME NEW u \in Tasks \ {t}, NEW v \in Tasks \ {t}, u # v
      PROVE  Apart(r, r.call[u], r.call[v])
  <2>1. Apart(st, st.call[u], st.call[v])
    BY <1>5 DEF GoodBut
  <2>2. st.call[u].op \in {"read", "seek"} => st.call[u].slot \in Slots
    BY <1>1 DEF GoodBut, CallOK, CallData, OpenOK, OpenData, OpenCall, ReadOK, ReadData,
           SeekOK, FilesOK, NONE
  <2>3. st.call[u].op \in {"read", "seek"} /\ st.call[u].slot = s => OthersIn(s, t)
    BY <1>1 DEF OthersIn
  <2>4. QED
    BY <2>1, <2>2, <2>3 DEF Apart, Changed
<1>6. QED
  BY <1>3, <1>4, <1>5 DEF GoodBut

(* hdd_block_read turns t away: another process waits for a sector.        *)
LEMMA TurnedAwayIsGood ==
  ASSUME NEW st, NEW t \in Tasks, NEW c, Good(Now), GoodBut(st, t), CallData(st, t, c)
  PROVE  Good(TurnedAway(st, t, c))
<1> DEFINE f    == st.files[c.slot]
           left == Clipped(c, f)
           pos  == f.stream_pos + left
           bp   == IF left = 0 THEN pos % PAGE ELSE ((pos - 1) % PAGE) + 1
           g    == [Spoiled(f) EXCEPT !.stream_pos = pos, !.buf_pos = bp, !.buffer_empty = FALSE]
           mid  == [st EXCEPT !.files[c.slot] = g]
<1>1. CASE c.op = "open" \/ left < 0
  BY <1>1, HaltIsGood DEF TurnedAway
<1>2. CASE c.op # "open" /\ ~ left < 0
  <2>1. /\ c.op \in {"read", "seek"} /\ c.slot \in st.fds[t] /\ Tables(st) /\ st.call = call
        /\ FilesOK(st.files, st.fds) /\ IsState(st)
    BY <1>2 DEF CallData, ReadOK, ReadData, SeekOK, GoodBut, Tables
  <2>2. f \in OpenFile /\ DOMAIN st.files = Slots /\ c.slot \in Slots
    BY <2>1 DEF FilesOK
  <2>3. left \in Nat
    <3>1. f.stream_pos \in Nat /\ f.file_size \in Nat
      BY <2>2 DEF OpenFile
    <3>2. c.op = "read" => c.left \in Nat
      BY <1>2 DEF CallData, ReadOK, ReadData, SeekOK
    <3>3. left \in Int
      BY <2>1, <3>1, <3>2 DEF Clipped
    <3> HIDE DEF left
    <3>4. QED
      BY <1>2, <3>3
  <2>4. pos \in Nat /\ bp \in 0 .. PAGE
    <3>1. f.stream_pos \in Nat
      BY <2>2 DEF OpenFile
    <3> HIDE DEF left, f
    <3>2. pos \in Nat /\ (left # 0 => pos - 1 \in Nat)
      BY <2>3, <3>1
    <3>3. \A n \in Nat : n % PAGE \in 0 .. PAGE - 1
      BY Sizes
    <3> HIDE DEF pos
    <3>4. QED
      BY <3>2, <3>3, Sizes
  <2> HIDE DEF left, pos, bp
  <2>5. g \in OpenFile /\ ~ g.clean /\ SameFile(f, g)
    BY <2>2, <2>4, SpoiledFile DEF OpenFile, SameFile
  <2> HIDE DEF g, f
  <2>6. /\ IsState(mid) /\ mid.disk = st.disk /\ mid.hdd = st.hdd /\ mid.fds = st.fds
        /\ mid.call = st.call /\ DOMAIN mid.files = Slots /\ mid.files[c.slot] = g
        /\ \A s \in Slots \ {c.slot} : mid.files[s] = st.files[s]
    BY <2>1, <2>2 DEF IsState
  <2> HIDE DEF mid
  <2>7. GoodBut(mid, t)
    BY <2>1, <2>5, <2>6, UpdateIsGood DEF Changed, f
  <2>8. TurnedAway(st, t, c) = Return(mid, t)
    BY <1>2 DEF TurnedAway, mid, g, bp, pos, left, f
  <2>9. QED
    BY <2>7, <2>8, ReturnIsGood
<1>3. QED
  BY <1>1, <1>2

LEMMA AskIsGood ==
  ASSUME NEW st, NEW t \in Tasks, NEW c, Good(Now), GoodBut(st, t), CallData(st, t, c)
  PROVE  Good(Ask(st, t, c))
<1> DEFINE r == Ask(st, t, c)
<1>1. CASE st.hdd.read_queue # <<>>
  BY <1>1, TurnedAwayIsGood DEF Ask
<1>2. CASE st.hdd.read_queue = <<>>
  <2>1. /\ Tables(st) /\ IsState(st) /\ HddOK(st.hdd) /\ st.call = call /\ DOMAIN st.call = Tasks
        /\ FilesOK(st.files, st.fds) /\ DOMAIN st.files = Slots
    BY DEF GoodBut, Tables, FilesOK
  <2>2. Head(c.parts) \in Part /\ c.op \notin {NONE, "unborn", "lost"}
    BY DEF CallData, OpenOK, OpenData, OpenCall, ReadOK, ReadData, SeekOK, NONE
  <2>3. /\ IsState(r) /\ r.disk = st.disk /\ r.fds = st.fds
        /\ r.hdd = Command(st.hdd, t, c)
        /\ r.call = [u \in Tasks |-> IF u = t THEN c
                                      ELSE IF st.call[u].op = "open" THEN [op |-> "lost"]
                                      ELSE st.call[u]]
        /\ r.files = [s \in Slots |-> IF OthersIn(s, t) THEN Spoiled(st.files[s])
                                       ELSE st.files[s]]
    BY <1>2, <2>1 DEF Ask, IsState
  <2> HIDE DEF r
  <2>4. /\ HddOK(r.hdd) /\ r.hdd.read_queue = <<t>> /\ r.hdd.command = Head(c.parts).sector
    <3>1. Head(c.parts).sector \in Nat /\ st.hdd.read_queue = <<>>
      BY <1>2, <2>2 DEF Part
    <3>2. Append(<<>>, t) = <<t>> /\ <<t>> \in Seq(Tasks) /\ Len(<<t>>) = 1
      OBVIOUS
    <3>3. QED
      BY <2>3, <3>1, <3>2 DEF Command, HddOK, Sectors, NO_SECTOR
  <2>5. ASSUME NEW s \in Slots
        PROVE  /\ r.files[s] = IF OthersIn(s, t) THEN Spoiled(st.files[s]) ELSE st.files[s]
               /\ OthersIn(s, t) =>
                    /\ \E u \in Tasks : s \in st.fds[u]
                    /\ st.files[s] \in OpenFile
    <3>1. r.files[s] = IF OthersIn(s, t) THEN Spoiled(st.files[s]) ELSE st.files[s]
      BY <2>3
    <3>2. ASSUME NEW u \in Tasks \ {t}, call[u].op \in {"read", "seek"}, call[u].slot = s
          PROVE  s \in st.fds[u] /\ st.files[s] \in OpenFile
      <4>1. CallOK(st, u) /\ st.call[u] = call[u]
        BY <2>1 DEF GoodBut
      <4>2. s \in st.fds[u]
        BY <3>2, <4>1 DEF CallOK, CallData, ReadOK, ReadData, SeekOK, NONE
      <4>3. QED
        BY <4>2, <2>1 DEF FilesOK
    <3>3. QED
      BY <3>1, <3>2 DEF OthersIn
  <2>6. ASSUME NEW s \in Slots, st.files[s] \in OpenFile
        PROVE  /\ r.files[s] \in OpenFile /\ r.files[s].stream_pos = st.files[s].stream_pos
               /\ r.files[s].file_size = st.files[s].file_size
               /\ r.files[s].clean => st.files[s].clean
               /\ OthersIn(s, t) => ~ r.files[s].clean
               /\ Mapped(st.files[s]) => Mapped(r.files[s])
    <3>1. CASE OthersIn(s, t)
      <4>1. r.files[s] = Spoiled(st.files[s])
        BY <2>5, <3>1
      <4>2. QED
        BY <2>6, <4>1, SpoiledFile
    <3>2. CASE ~ OthersIn(s, t)
      BY <2>5, <2>6, <3>2
    <3>3. QED
      BY <3>1, <3>2
  <2>7. FilesOK(r.files, r.fds)
    <3>1. ASSUME NEW u \in Tasks, NEW s \in r.fds[u]
          PROVE  /\ r.files[s] \in OpenFile /\ Mapped(r.files[s])
                 /\ r.files[s].clean => r.files[s].stream_pos <= r.files[s].file_size
      <4>1. /\ s \in Slots /\ st.files[s] \in OpenFile /\ Mapped(st.files[s])
            /\ st.files[s].clean => st.files[s].stream_pos <= st.files[s].file_size
        BY <2>1, <2>3 DEF FilesOK
      <4>2. QED
        BY <4>1, <2>6
    <3>2. QED
      BY <3>1, <2>1, <2>3 DEF FilesOK
  <2>8. Tables(r)
    BY <2>1, <2>3, <2>4, <2>7 DEF Tables
  <2>9. ASSUME NEW s \in Slots, \A u \in Tasks : s \notin st.fds[u]
        PROVE  r.files[s] = st.files[s]
    BY <2>5, <2>9
  <2>10. /\ CallData(r, t, c)
         /\ r.call[t] = c
    <3>1. CASE c.op = "open"
      BY <3>1, <2>3, <2>9 DEF CallData, OpenOK, OpenData, OpenCall, ReadOK, ReadData, SeekOK
    <3>2. CASE c.op # "open"
      <4>1. c.slot \in Slots /\ st.files[c.slot] \in OpenFile
        BY <3>2, <2>1 DEF CallData, ReadOK, ReadData, SeekOK, FilesOK
      <4>2. QED
        BY <3>2, <4>1, <2>3, <2>6 DEF CallData, ReadOK, ReadData, SeekOK
    <3>3. QED
      BY <3>1, <3>2, <2>3
  <2>11. CallOK(r, t)
    BY <2>4, <2>10 DEF CallOK, Sync
  <2>12. ASSUME NEW u \in Tasks \ {t}
         PROVE  /\ CallOK(r, u)
                /\ r.call[u].op # "open"
                /\ r.call[u].op \in {"read", "seek"} =>
                     /\ r.call[u] = st.call[u] /\ r.call[u].slot \in Slots
                     /\ ~ r.files[r.call[u].slot].clean
    <3> DEFINE d == st.call[u]
    <3>1. CallOK(st, u) /\ d = call[u]
      BY <2>1 DEF GoodBut
    <3>2. CASE d.op \notin {"read", "seek"}
      <4>1. CASE d.op = "open"
        <5>1. r.call[u] = [op |-> "lost"]
          BY <4>1, <2>3
        <5>2. QED
          BY <5>1 DEF CallOK
      <4>2. CASE d.op # "open"
        <5>1. r.call[u] = d
          BY <4>2, <2>3
        <5>2. d.op \in {NONE, "unborn", "lost"}
          BY <3>1, <3>2, <4>2 DEF CallOK, CallData
        <5>3. QED
          BY <5>1, <5>2, <3>2, <4>2 DEF CallOK
      <4>3. QED
        BY <4>1, <4>2
    <3>3. CASE d.op \in {"read", "seek"}
      <4>1. /\ CallData(st, u, d) /\ r.call[u] = d /\ d.op # "open"
        BY <3>1, <3>3, <2>3 DEF CallOK, NONE
      <4>2. d.slot \in Slots /\ st.files[d.slot] \in OpenFile /\ OthersIn(d.slot, t)
        BY <4>1, <3>1, <3>3, <2>1 DEF CallData, ReadOK, ReadData, SeekOK, FilesOK, OthersIn
      <4>3. ~ r.files[d.slot].clean
        BY <4>2, <2>6
      <4>4. CallData(r, u, d) /\ ~ Undisturbed(r, d)
        BY <4>1, <4>3, <2>3 DEF CallData, ReadOK, ReadData, SeekOK, Undisturbed
      <4>5. QED
        BY <4>1, <4>2, <4>3, <4>4, <3>3 DEF CallOK
    <3>4. QED
      BY <3>2, <3>3
  <2>13. ASSUME NEW u \in Tasks, NEW v \in Tasks, u # v
         PROVE  Apart(r, r.call[u], r.call[v])
    BY <2>12, <2>13 DEF Apart
  <2>14. QED
    BY <2>8, <2>11, <2>12, <2>13 DEF Good, r
<1>3. QED
  BY <1>1, <1>2

-----------------------------------------------------------------------------
(* Reading and seeking.                                                    *)
FirstBlock(f) == (f.stream_pos \div PAGE) * (PAGE \div BLOCK)
PageBlocks(f) == [i \in 1 .. PAGE \div BLOCK |-> FileBlock(f, FirstBlock(f) + i - 1)]
PageUnits(f)  == BlockUnits(PageBlocks(f), PAGE)

LEMMA PagePartsRead ==
  ASSUME NEW f, \E id \in Inodes : f.inode = InodeOf(id), f.stream_pos \in Nat
  PROVE  /\ PageParts(f) \in Seq(Part) /\ PageParts(f) # <<>>
         /\ PageUnits(f) \in Seq(Nat) /\ Len(PageUnits(f)) = PAGE
         /\ Reads(PageParts(f), PageUnits(f), 0)
<1>1. f.inode.block \in [1 .. DIRECT + 2 -> Nat]
  BY InodesOfDisk DEF WellFormed
<1>2. \A k \in Nat : FileBlock(f, k) \in Nat
  <2> SUFFICES ASSUME NEW k \in Nat PROVE FileBlock(f, k) \in Nat
    OBVIOUS
  <2>1. k < DIRECT => k + 1 \in 1 .. DIRECT + 2
    BY Sizes
  <2>2. QED
    BY <2>1, <1>1, Numbers, Sizes DEF FileBlock
<1>3. FirstBlock(f) \in Nat
  BY Sizes DEF FirstBlock
<1>4. Over(PAGE, BLOCK) = PAGE \div BLOCK
  <2> DEFINE m == PAGE \div BLOCK
  <2>1. m \in Nat /\ PAGE = m * BLOCK /\ BLOCK \in Nat \ {0}
    BY Sizes
  <2> HIDE DEF m
  <2>2. Over(m * BLOCK, BLOCK) = m
    <3>1. m * BLOCK \in Nat
      BY <2>1
    <3>2. m * BLOCK + BLOCK - 1 = m * BLOCK + (BLOCK - 1)
      BY <2>1, <3>1
    <3>3. (m * BLOCK + (BLOCK - 1)) \div BLOCK = m
      BY <2>1, <3>1, Quotient
    <3>4. QED
      BY <3>2, <3>3 DEF Over
  <2>3. QED
    BY <2>1, <2>2 DEF m
<1>5. \A i \in 1 .. Over(PAGE, BLOCK) : PageBlocks(f)[i] \in Nat
  <2> SUFFICES ASSUME NEW i \in 1 .. PAGE \div BLOCK PROVE PageBlocks(f)[i] \in Nat
    BY <1>4
  <2>1. FirstBlock(f) + i - 1 \in Nat
    BY <1>3, Sizes
  <2>2. QED
    BY <2>1, <1>2 DEF PageBlocks
<1>6. PageParts(f) = BlocksParts(PageBlocks(f), PAGE)
  BY DEF PageParts, PageBlocks, FirstBlock
<1>7. QED
  BY <1>5, <1>6, BlocksPartsRead, Sizes DEF PageUnits

LEMMA AnswerIsGood ==
  ASSUME NEW st, Good(st), NEW a PROVE Good([st EXCEPT !.answer = a])
<1> DEFINE r == [st EXCEPT !.answer = a]
<1>1. /\ IsState(r) /\ r.disk = st.disk /\ r.hdd = st.hdd /\ r.files = st.files
      /\ r.fds = st.fds /\ r.call = st.call
  BY DEF Good, Tables, IsState
<1> HIDE DEF r
<1>2. Good(r)
  BY <1>1, SameState
<1>3. QED
  BY <1>2 DEF r

Meets(st, t, s) == OthersIn(s, t) => ~ st.files[s].clean

LEMMA CopyIsGood ==
  ASSUME NEW st, NEW t \in Tasks, NEW c, Good(Now), GoodBut(st, t), ReadData(st, t, c),
         Meets(st, t, c.slot)
  PROVE  Good(Copy(st, t, c))
<1> DEFINE f     == st.files[c.slot]
           left  == Clipped(c, f)
           n     == Least(left, PAGE - f.buf_pos)
           moved == [f EXCEPT !.buf_pos = @ + n, !.stream_pos = @ + n]
           got   == c.got \o SubSeq(f.buffer, f.buf_pos + 1, f.buf_pos + n)
           done  == [op |-> "read", slot |-> c.slot, from |-> c.from, asked |-> c.asked,
                     got |-> got]
           next  == [st EXCEPT !.files[c.slot] = moved]
           more  == [c EXCEPT !.at = "more", !.left = left - n, !.got = got,
                              !.done = 0, !.parts = PageParts(moved)]
<1>1. CASE left < 0
  BY <1>1, HaltIsGood DEF Copy
<1>2. CASE ~ left < 0
  <2>1. /\ c.op = "read" /\ c.slot \in st.fds[t] /\ c.at \in {"first", "more"}
        /\ c.left \in Nat \ {0} /\ c.got \in Seq(Nat)
    BY DEF ReadData
  <2>2. /\ Tables(st) /\ IsState(st) /\ FilesOK(st.files, st.fds) /\ DOMAIN st.files = Slots
        /\ f \in OpenFile /\ c.slot \in Slots
        /\ f.clean => f.stream_pos <= f.file_size
    BY <2>1 DEF GoodBut, Tables, FilesOK
  <2>3. /\ f.stream_pos \in Nat /\ f.file_size \in Nat /\ f.buf_pos \in 0 .. PAGE
        /\ f.buffer \in [1 .. PAGE -> Nat] /\ \E id \in Inodes : f.inode = InodeOf(id)
        /\ c.at = "more" /\ f.clean => f.stream_pos + c.left <= f.file_size
    BY <2>1, <2>2 DEF OpenFile, ReadData
  <2> HIDE DEF f
  <2>4. left \in Nat /\ (f.clean => f.stream_pos + left <= f.file_size)
    <3>1. left = IF c.at = "first" THEN Least(c.left, f.file_size - f.stream_pos) ELSE c.left
      BY <2>1 DEF Clipped
    <3> HIDE DEF left
    <3>2. QED
      BY <1>2, <2>1, <2>3, <3>1
  <2> HIDE DEF left
  <2>5. n \in Nat /\ n <= left /\ f.buf_pos + n \in 0 .. PAGE
    <3> DEFINE b == f.buf_pos
    <3>1. PAGE \in Nat /\ b \in 0 .. PAGE /\ left \in Nat
      BY <2>3, <2>4, Sizes
    <3>2. n = Least(left, PAGE - b)
      OBVIOUS
    <3> HIDE DEF n, b
    <3>3. n \in Nat /\ n <= left /\ b + n \in 0 .. PAGE
      BY <3>1, <3>2
    <3>4. QED
      BY <3>3 DEF b
  <2> HIDE DEF n
  <2>6. /\ moved \in OpenFile /\ moved.clean = f.clean
        /\ moved.stream_pos = f.stream_pos + n /\ moved.file_size = f.file_size
        /\ moved.inode = f.inode /\ SameFile(f, moved)
    <3> DEFINE b == f.buf_pos + n
               p == f.stream_pos + n
    <3>1. p \in Nat /\ b \in 0 .. PAGE
      BY <2>3, <2>5
    <3>2. moved = [f EXCEPT !.buf_pos = b, !.stream_pos = p]
      OBVIOUS
    <3> HIDE DEF b, p, moved
    <3>3. f \in OpenFile
      BY <2>2
    <3>4. /\ moved \in OpenFile /\ moved.clean = f.clean /\ moved.stream_pos = p
          /\ moved.file_size = f.file_size /\ moved.inode = f.inode
          /\ moved.block_list = f.block_list
      BY <3>3, <3>1, <3>2 DEF OpenFile
    <3>5. QED
      BY <3>4 DEF p, SameFile
  <2>7. Changed(st, next, c.slot) /\ next.files[c.slot] = moved
    BY <2>2 DEF Changed, IsState, f
  <2>8. got \in Seq(Nat)
    <3>1. f.buffer \in Seq(Nat) /\ Len(f.buffer) = PAGE
      <4>1. PAGE \in Nat /\ f.buffer \in [1 .. PAGE -> Nat]
        BY <2>3, Sizes
      <4> DEFINE b == f.buffer
      <4>2. b \in [1 .. PAGE -> Nat]
        BY <4>1
      <4> HIDE DEF b
      <4>3. b \in Seq(Nat) /\ Len(b) = PAGE
        BY <4>1, <4>2
      <4>4. QED
        BY <4>3 DEF b
    <3>2. f.buf_pos + 1 \in 1 .. PAGE + 1 /\ f.buf_pos + n \in f.buf_pos .. PAGE
      BY <2>3, <2>5, Sizes
    <3> DEFINE b == f.buffer
               i == f.buf_pos + 1
               j == f.buf_pos + n
    <3>3. b \in Seq(Nat) /\ Len(b) = PAGE /\ i \in 1 .. PAGE + 1 /\ j \in i - 1 .. PAGE
      <4>1. f.buf_pos \in Nat
        BY <2>3, Sizes
      <4>2. QED
        BY <3>1, <3>2, <4>1, Sizes
    <3> HIDE DEF b, i, j
    <3>4. SubSeq(b, i, j) \in Seq(Nat)
      BY <3>3, Sizes
    <3>5. QED
      BY <3>4, <2>1 DEF b, i, j
  <2> HIDE DEF moved, got
  <2>9. PageParts(moved) \in Seq(Part) /\ PageParts(moved) # <<>>
    <3>1. moved.stream_pos \in Nat /\ \E id \in Inodes : moved.inode = InodeOf(id)
      BY <2>3, <2>5, <2>6
    <3>2. QED
      BY <3>1, PagePartsRead
  <2>10. GoodBut(next, t)
    <3>1. moved.clean => moved.stream_pos <= moved.file_size /\ ~ OthersIn(c.slot, t)
      <4>1. f.clean => ~ OthersIn(c.slot, t)
        BY DEF Meets, f
      <4>2. f.clean => f.stream_pos + n <= f.file_size
        BY <2>3, <2>4, <2>5
      <4>3. QED
        BY <4>1, <4>2, <2>6
    <3>2. SameFile(st.files[c.slot], moved)
      BY <2>6 DEF f
    <3> HIDE DEF next
    <3>3. QED
      BY <3>1, <3>2, <2>1, <2>6, <2>7, UpdateIsGood
  <2>11. CASE left = n
    <3>1. Good(Return(next, t))
      BY <2>10, ReturnIsGood
    <3>2. Copy(st, t, c) = [Return(next, t) EXCEPT !.answer = IF f.clean THEN done ELSE NoAnswer]
      BY <1>2, <2>11 DEF Copy, left, n, moved, got, f
    <3> DEFINE r == Return(next, t)
               a == IF f.clean THEN done ELSE NoAnswer
    <3> HIDE DEF next, done, r, a
    <3>3. Good(r)
      BY <3>1 DEF r
    <3>4. Good([r EXCEPT !.answer = a])
      BY <3>3, AnswerIsGood
    <3>5. QED
      BY <3>2, <3>4 DEF r, a
  <2>12. CASE left # n
    <3>1. CallData(next, t, more)
      <4>1. left - n \in Nat \ {0} /\ next.fds = st.fds /\ next.files[c.slot] = moved
        BY <2>4, <2>5, <2>7, <2>12 DEF Changed
      <4>2. /\ more \in [op : {"read"}, slot : next.fds[t], at : {"first", "more"},
                         left : Nat \ {0}, asked : Nat, from : Nat, got : Seq(Nat),
                         done : Nat, parts : Seq(Part)]
            /\ more.parts = PageParts(moved) /\ more.left = left - n /\ more.slot = c.slot
        BY <4>1, <2>8, <2>9 DEF ReadData
      <4> HIDE DEF more, next
      <4>3. moved.clean => moved.stream_pos + (left - n) <= moved.file_size
        BY <2>3, <2>4, <2>5, <2>6
      <4>4. QED
        BY <4>1, <4>2, <4>3, <2>9 DEF CallData, ReadOK, ReadData
    <3>2. Copy(st, t, c) = Ask(next, t, more)
      BY <1>2, <2>12 DEF Copy, left, n, moved, got, f
    <3> HIDE DEF more, next
    <3>3. QED
      BY <3>1, <3>2, <2>10, AskIsGood
  <2>13. QED
    BY <2>11, <2>12
<1>3. QED
  BY <1>1, <1>2

(* A page with one more sector, and the entry once its page is loaded.     *)
Held(st, c, units) ==
  LET f == st.files[c.slot]
  IN IF f.clean THEN [i \in 1 .. PAGE |-> IF i - c.done \in DOMAIN units
                                          THEN units[i - c.done] ELSE f.buffer[i]]
     ELSE AnyPage

Filled(st, c, units) == [st EXCEPT !.files[c.slot].buffer = Held(st, c, units)]

Loaded(st, c, units) ==
  [Filled(st, c, units) EXCEPT !.files[c.slot].buf_pos = files[c.slot].stream_pos % PAGE,
                               !.files[c.slot].buffer_empty = FALSE]

(* As g, but for the page and what is known of it.                         *)
SameStream(f, g) ==
  /\ SameFile(f, g)
  /\ g \in OpenFile /\ g.clean = f.clean /\ g.stream_pos = f.stream_pos

LEMMA FilledIsGood ==
  ASSUME NEW st, NEW t \in Tasks, NEW c, NEW units \in Seq(Nat), GoodBut(st, t),
         st.files = files, Meets(st, t, c.slot), c.slot \in st.fds[t]
  PROVE  LET g == Filled(st, c, units)
             h == Loaded(st, c, units)
         IN /\ GoodBut(g, t) /\ Changed(st, g, c.slot) /\ g.answer = st.answer
            /\ SameStream(st.files[c.slot], g.files[c.slot])
            /\ g.files[c.slot].buffer = Held(st, c, units)
            /\ GoodBut(h, t) /\ Changed(st, h, c.slot) /\ h.answer = st.answer
            /\ SameStream(st.files[c.slot], h.files[c.slot])
            /\ h.files[c.slot].buffer = Held(st, c, units)
            /\ h.files[c.slot].buf_pos = h.files[c.slot].stream_pos % PAGE
<1> DEFINE s      == c.slot
           f      == st.files[s]
           held   == Held(st, c, units)
           filled == Filled(st, c, units)
           pos    == f.stream_pos % PAGE
           loaded == Loaded(st, c, units)
<1>1. /\ Tables(st) /\ IsState(st) /\ FilesOK(st.files, st.fds) /\ DOMAIN st.files = Slots
      /\ f \in OpenFile /\ s \in Slots
      /\ f.clean => f.stream_pos <= f.file_size
  BY DEF GoodBut, Tables, FilesOK
<1>2. /\ f.stream_pos \in Nat /\ f.buffer \in [1 .. PAGE -> Nat] /\ f.clean \in BOOLEAN
  BY <1>1 DEF OpenFile
<1>3. held \in [1 .. PAGE -> Nat]
  <2> DEFINE buf  == f.buffer
             page == [i \in 1 .. PAGE |-> IF i - c.done \in DOMAIN units
                                          THEN units[i - c.done] ELSE buf[i]]
  <2>1. ASSUME NEW i \in 1 .. PAGE
        PROVE  (IF i - c.done \in DOMAIN units THEN units[i - c.done] ELSE buf[i]) \in Nat
    <3>1. buf[i] \in Nat
      BY <1>2
    <3>2. \A k \in DOMAIN units : units[k] \in Nat
      OBVIOUS
    <3> HIDE DEF buf
    <3>3. QED
      BY <3>1, <3>2
  <2>2. page \in [1 .. PAGE -> Nat]
    BY <2>1
  <2>3. AnyPage \in [1 .. PAGE -> Nat]
    BY DEF AnyPage
  <2>4. held = IF f.clean THEN page ELSE AnyPage
    BY DEF Held
  <2> HIDE DEF page, held
  <2>5. QED
    BY <2>2, <2>3, <2>4
<1>4. pos \in 0 .. PAGE
  <2>1. \A n \in Nat : n % PAGE \in 0 .. PAGE
    BY Sizes
  <2>2. QED
    BY <2>1, <1>2
<1> DEFINE g == [f EXCEPT !.buffer = held]
           h == [g EXCEPT !.buf_pos = pos, !.buffer_empty = FALSE]
<1>5. Changed(st, filled, s) /\ filled.files[s] = g /\ filled.answer = st.answer
  BY <1>1 DEF Filled, Changed, IsState
<1>6. Changed(st, loaded, s) /\ loaded.files[s] = h /\ loaded.answer = st.answer
  <2>1. files[s].stream_pos % PAGE = pos
    OBVIOUS
  <2>2. loaded = [filled EXCEPT !.files[s].buf_pos = pos, !.files[s].buffer_empty = FALSE]
    BY DEF Loaded
  <2>3. IsState(filled)
    BY <1>5 DEF Changed
  <2> HIDE DEF g, filled, pos, loaded
  <2>4. QED
    BY <1>1, <1>5, <2>2, <2>3 DEF Changed, IsState
<1>7. f.clean => f.stream_pos <= f.file_size /\ ~ OthersIn(s, t)
  BY <1>1 DEF Meets
<1> HIDE DEF f, held, filled, pos, loaded
<1>8. /\ g \in OpenFile /\ g.clean = f.clean /\ g.stream_pos = f.stream_pos
      /\ g.file_size = f.file_size /\ SameFile(f, g) /\ g.buffer = held
  BY <1>1, <1>3 DEF OpenFile, SameFile
<1> HIDE DEF g
<1>9. /\ h \in OpenFile /\ h.clean = f.clean /\ h.stream_pos = f.stream_pos
      /\ h.file_size = f.file_size /\ SameFile(f, h) /\ h.buffer = held /\ h.buf_pos = pos
  BY <1>4, <1>8 DEF OpenFile, SameFile
<1> HIDE DEF h
<1>10. SameFile(st.files[s], g) /\ SameFile(st.files[s], h)
  BY <1>8, <1>9 DEF f
<1>11. GoodBut(filled, t)
  BY <1>8, <1>5, <1>7, <1>10, UpdateIsGood
<1>12. GoodBut(loaded, t)
  BY <1>9, <1>6, <1>7, <1>10, UpdateIsGood
<1>13. QED
  BY <1>8, <1>5, <1>9, <1>6, <1>11, <1>12 DEF SameStream, filled, loaded, f, held, pos

LEMMA PageGoesOnIs ==
  ASSUME NEW st, NEW t, NEW c, NEW units
  PROVE  PageGoesOn(st, t, c, units) =
           IF c.parts # <<>>
           THEN Ask(Filled(st, c, units), t, [c EXCEPT !.done = @ + Len(units)])
           ELSE IF c.op = "seek" THEN Return(Loaded(st, c, units), t)
           ELSE Copy(Loaded(st, c, units), t, c)
  BY DEF PageGoesOn, Held, Filled, Loaded

LEMMA PageGoesOnIsGood ==
  ASSUME NEW st, NEW t \in Tasks, NEW c, NEW units \in Seq(Nat), Good(Now), GoodBut(st, t),
         st.files = files, Meets(st, t, c.slot),
         \/ ReadData(st, t, c)
         \/ c \in [op : {"seek"}, slot : st.fds[t], done : Nat, parts : Seq(Part)]
  PROVE  Good(PageGoesOn(st, t, c, units))
<1> DEFINE s      == c.slot
           f      == st.files[s]
           filled == Filled(st, c, units)
           loaded == Loaded(st, c, units)
           g      == filled.files[s]
           h      == loaded.files[s]
           longer == [c EXCEPT !.done = @ + Len(units)]
<1>1. /\ c.op \in {"read", "seek"} /\ s \in st.fds[t] /\ c.done \in Nat
      /\ c.parts \in Seq(Part)
  BY DEF ReadData
<1>2. /\ GoodBut(filled, t) /\ Changed(st, filled, s) /\ SameStream(f, g)
      /\ GoodBut(loaded, t) /\ Changed(st, loaded, s) /\ SameStream(f, h)
  BY <1>1, FilledIsGood
<1>3. PageGoesOn(st, t, c, units) =
        IF c.parts # <<>> THEN Ask(filled, t, longer)
        ELSE IF c.op = "seek" THEN Return(loaded, t) ELSE Copy(loaded, t, c)
  BY PageGoesOnIs
<1> HIDE DEF filled, loaded
<1>4. CASE c.parts # <<>>
  <2>1. /\ filled.fds = st.fds /\ g.clean = f.clean /\ g.stream_pos = f.stream_pos
        /\ g.file_size = f.file_size
    BY <1>2 DEF Changed, SameStream, SameFile
  <2>2. c.done + Len(units) \in Nat
    BY <1>1
  <2>3. CallData(filled, t, longer)
    <3>1. CASE ReadData(st, t, c)
      <4>1. /\ longer \in [op : {"read"}, slot : filled.fds[t], at : {"first", "more"},
                           left : Nat \ {0}, asked : Nat, from : Nat, got : Seq(Nat),
                           done : Nat, parts : Seq(Part)]
            /\ longer.parts = c.parts /\ longer.at = c.at /\ longer.left = c.left
            /\ longer.slot = s
        BY <3>1, <2>1, <2>2 DEF ReadData
      <4> HIDE DEF longer
      <4>2. QED
        BY <3>1, <4>1, <2>1, <1>4 DEF CallData, ReadOK, ReadData
    <3>2. CASE c \in [op : {"seek"}, slot : st.fds[t], done : Nat, parts : Seq(Part)]
      <4>1. /\ longer \in [op : {"seek"}, slot : filled.fds[t], done : Nat, parts : Seq(Part)]
            /\ longer.parts = c.parts
        BY <3>2, <2>1, <2>2
      <4> HIDE DEF longer
      <4>2. QED
        BY <4>1, <1>4 DEF CallData, SeekOK
    <3>3. QED
      BY <3>1, <3>2
  <2> HIDE DEF longer
  <2>4. QED
    BY <2>3, <1>2, <1>3, <1>4, AskIsGood
<1>5. CASE c.parts = <<>> /\ c.op = "seek"
  BY <1>2, <1>3, <1>5, ReturnIsGood
<1>6. CASE c.parts = <<>> /\ c.op # "seek"
  <2>1. ReadData(loaded, t, c) /\ Meets(loaded, t, c.slot)
    <3>1. ReadData(st, t, c) /\ loaded.fds = st.fds
      BY <1>2, <1>6 DEF Changed
    <3>2. h.clean = f.clean /\ h.stream_pos = f.stream_pos /\ h.file_size = f.file_size
      BY <1>2 DEF SameStream, SameFile
    <3>3. QED
      BY <3>1, <3>2 DEF ReadData, Meets
  <2>2. QED
    BY <2>1, <1>2, <1>3, <1>6, CopyIsGood
<1>7. QED
  BY <1>4, <1>5, <1>6

-----------------------------------------------------------------------------
(* The steps of the open files.                                            *)
LEMMA BecomeIsGood ==
  ASSUME NEW st, Good(st), Become(st)
  PROVE  Good(Now)'
<1>1. /\ Now'.disk = st.disk /\ Now'.hdd = st.hdd /\ Now'.files = st.files
      /\ Now'.fds = st.fds /\ Now'.call = st.call
      /\ IsState(Now')
  BY DEF Become, Now, IsState
<1>2. Good(Now')
  <2> DEFINE r == Now'
  <2> HIDE DEF r
  <2>1. /\ IsState(r) /\ r.disk = st.disk /\ r.hdd = st.hdd /\ r.files = st.files
        /\ r.fds = st.fds /\ r.call = st.call
    BY <1>1 DEF r
  <2>2. Good(r)
    BY <2>1, SameState
  <2>3. QED
    BY <2>2 DEF r
<1>3. QED
  BY <1>2 DEF Good, Tables, CallOK, CallData, OpenOK, OpenData, OpenCall, ReadOK, ReadData,
         SeekOK, Apart, Undisturbed,
    Now, IsState, Sync

LEMMA NowIsGoodBut ==
  ASSUME Good(Now), NEW t \in Tasks
  PROVE  GoodBut(Now, t)
  BY DEF Good, GoodBut, Now

(* A call of t on a file that it has open begins.                          *)
LEMMA EnterIsGood ==
  ASSUME Good(Now), NEW t \in Tasks, NEW s \in fds[t]
  PROVE  /\ GoodBut(Enter(t, s), t) /\ Changed(Now, Enter(t, s), s) /\ Enter(t, s).fds = fds
         /\ Meets(Enter(t, s), t, s) /\ Enter(t, s).files[s] \in OpenFile
         /\ Enter(t, s).files[s] = IF OthersIn(s, t) THEN Spoiled(files[s]) ELSE files[s]
         /\ files[s] \in OpenFile
<1> DEFINE r == Enter(t, s)
<1>1. /\ Tables(Now) /\ FilesOK(files, fds) /\ DOMAIN files = Slots
      /\ files[s] \in OpenFile /\ s \in Slots
      /\ files[s].clean => files[s].stream_pos <= files[s].file_size
  BY DEF Good, Tables, FilesOK, Now
<1>2. /\ Changed(Now, r, s)
      /\ r.files[s] = IF OthersIn(s, t) THEN Spoiled(files[s]) ELSE files[s]
      /\ r.fds = fds
  BY <1>1 DEF Enter, Now, Changed, IsState
<1> HIDE DEF r
<1>3. /\ r.files[s] \in OpenFile
      /\ r.files[s].clean => /\ r.files[s].stream_pos <= r.files[s].file_size
                             /\ ~ OthersIn(s, t)
      /\ SameFile(files[s], r.files[s])
  BY <1>1, <1>2, SpoiledFile DEF SameFile
<1>4. GoodBut(r, t)
  <2>1. s \in Now.fds[t] /\ Now.files[s] = files[s]
    BY DEF Now
  <2>2. QED
    BY <2>1, <1>2, <1>3, NowIsGoodBut, UpdateIsGood
<1>5. QED
  BY <1>1, <1>2, <1>3, <1>4 DEF r, Meets

LEMMA ReadIsGood ==
  ASSUME Good(Now), NEW t \in Tasks, NEW s \in Slots, NEW size \in SIZES,
         ext2_file_read(t, s, size)
  PROVE  Good(Now)'
<1> DEFINE f  == files[s]
           c  == [op |-> "read", slot |-> s, at |-> "first", left |-> size, asked |-> size,
                  from |-> f.stream_pos, got |-> <<>>, done |-> 0, parts |-> <<>>]
           st == Enter(t, s)
           p  == [c EXCEPT !.parts = PageParts(f)]
<1>1. s \in fds[t] /\ Become(IF f.buffer_empty THEN Ask(st, t, p) ELSE Copy(st, t, c))
  BY DEF ext2_file_read
<1>2. /\ GoodBut(st, t) /\ st.fds = fds /\ Meets(st, t, s) /\ f \in OpenFile
  BY <1>1, EnterIsGood
<1> HIDE DEF f, st
<1>3. /\ f.stream_pos \in Nat /\ \E id \in Inodes : f.inode = InodeOf(id)
      /\ size \in Nat \ {0}
  BY <1>2, FilesAssumption DEF OpenFile
<1>4. PageParts(f) \in Seq(Part) /\ PageParts(f) # <<>>
  BY <1>3, PagePartsRead
<1>5. /\ ReadData(st, t, c) /\ c.slot = s /\ c.parts = <<>>
      /\ c \in [op : {"read"}, slot : st.fds[t], at : {"first", "more"}, left : Nat \ {0},
                asked : Nat, from : Nat, got : Seq(Nat), done : Nat, parts : Seq(Part)]
      /\ c.at = "first"
  BY <1>1, <1>2, <1>3 DEF ReadData
<1> HIDE DEF c
<1>6. /\ p \in [op : {"read"}, slot : st.fds[t], at : {"first", "more"}, left : Nat \ {0},
                asked : Nat, from : Nat, got : Seq(Nat), done : Nat, parts : Seq(Part)]
      /\ p.at = "first" /\ p.op = "read" /\ p.parts = PageParts(f)
  BY <1>4, <1>5
<1> HIDE DEF p
<1>7. CASE f.buffer_empty
  <2>1. CallData(st, t, p)
    BY <1>4, <1>6 DEF CallData, ReadOK, ReadData
  <2>2. QED
    BY <2>1, <1>1, <1>2, <1>7, AskIsGood, BecomeIsGood
<1>8. CASE ~ f.buffer_empty
  BY <1>1, <1>2, <1>5, <1>8, CopyIsGood, BecomeIsGood
<1>9. QED
  BY <1>7, <1>8

LEMMA SeekIsGood ==
  ASSUME Good(Now), NEW t \in Tasks, NEW s \in Slots, NEW position \in POSITIONS,
         ext2_file_seek(t, s, position)
  PROVE  Good(Now)'
<1> DEFINE f     == files[s]
           e     == Enter(t, s)
           there == f.stream_pos \div PAGE = position \div PAGE
           bp    == IF there THEN position % PAGE ELSE e.files[s].buf_pos
           g     == [e.files[s] EXCEPT !.stream_pos = position, !.buf_pos = bp]
           st    == [Enter(t, s) EXCEPT !.files[s].stream_pos = position,
                                        !.files[s].buf_pos = IF there THEN position % PAGE
                                                             ELSE @]
           c     == [op |-> "seek", slot |-> s, done |-> 0,
                     parts |-> PageParts([f EXCEPT !.stream_pos = position])]
<1>1. /\ s \in fds[t] /\ position <= f.file_size
      /\ Become(IF there /\ ~ f.buffer_empty THEN Return(st, t) ELSE Ask(st, t, c))
  BY DEF ext2_file_seek
<1>2. /\ GoodBut(e, t) /\ e.fds = fds /\ Meets(e, t, s) /\ f \in OpenFile
      /\ e.files[s] \in OpenFile /\ IsState(e) /\ DOMAIN e.files = Slots
      /\ e.files[s] = IF OthersIn(s, t) THEN Spoiled(f) ELSE f
  BY <1>1, EnterIsGood DEF Changed
<1>3. Changed(e, st, s) /\ st.files[s] = g
  BY <1>2 DEF Changed, IsState
<1> HIDE DEF f, e, st, there
<1>4. position \in Nat /\ bp \in 0 .. PAGE
  <2>1. position \in Nat
    BY FilesAssumption
  <2>2. position % PAGE \in 0 .. PAGE
    <3>1. \A n \in Nat : n % PAGE \in 0 .. PAGE
      BY Sizes
    <3>2. QED
      BY <2>1, <3>1
  <2>3. e.files[s].buf_pos \in 0 .. PAGE
    BY <1>2 DEF OpenFile
  <2>4. QED
    BY <2>1, <2>2, <2>3
<1> HIDE DEF bp
<1>5. /\ g \in OpenFile /\ g.stream_pos = position /\ g.file_size = e.files[s].file_size
      /\ g.clean = e.files[s].clean /\ SameFile(e.files[s], g)
  BY <1>2, <1>4 DEF OpenFile, SameFile
<1> HIDE DEF g
<1>6. e.files[s].file_size = f.file_size
  BY <1>2, SpoiledFile
<1>7. GoodBut(st, t)
  <2>1. g.clean => g.stream_pos <= g.file_size /\ ~ OthersIn(s, t)
    BY <1>1, <1>2, <1>5, <1>6 DEF Meets
  <2>2. QED
    BY <2>1, <1>1, <1>2, <1>3, <1>5, UpdateIsGood
<1>8. CASE there /\ ~ f.buffer_empty
  BY <1>1, <1>7, <1>8, ReturnIsGood, BecomeIsGood
<1>9. CASE ~ (there /\ ~ f.buffer_empty)
  <2> DEFINE q == [f EXCEPT !.stream_pos = position]
  <2>1. q.stream_pos \in Nat /\ \E id \in Inodes : q.inode = InodeOf(id)
    BY <1>2, <1>4 DEF OpenFile
  <2> HIDE DEF q
  <2>2. PageParts(q) \in Seq(Part) /\ PageParts(q) # <<>>
    BY <2>1, PagePartsRead
  <2>3. CallData(st, t, c)
    <3>1. st.fds = fds
      BY <1>2, <1>3 DEF Changed
    <3>2. /\ c \in [op : {"seek"}, slot : st.fds[t], done : Nat, parts : Seq(Part)]
          /\ c.parts # <<>>
      BY <3>1, <2>2, <1>1 DEF q
    <3> HIDE DEF c
    <3>3. QED
      BY <3>2 DEF CallData, SeekOK
  <2> HIDE DEF c
  <2>4. QED
    BY <2>3, <1>1, <1>7, <1>9, AskIsGood, BecomeIsGood
<1>10. QED
  BY <1>8, <1>9

LEMMA FlushIsGood ==
  ASSUME Good(Now), NEW t \in Tasks, NEW s \in Slots, ext2_file_flush(t, s)
  PROVE  Good(Now)'
<1> DEFINE last == \A u \in Tasks \ {t} : s \notin fds[u]
           r == [Now EXCEPT !.fds[t] = @ \ {s}, !.files[s] = IF last THEN Closed ELSE @]
<1>1. s \in fds[t] /\ call[t] = NoCall /\ Become(r)
  BY DEF ext2_file_flush, AtRest
<1>2. /\ Tables(Now) /\ FilesOK(files, fds) /\ DOMAIN files = Slots /\ fds \in [Tasks -> SUBSET Slots]
      /\ HddOK(hdd) /\ DiskOK(disk) /\ DOMAIN call = Tasks
      /\ \A u \in Tasks : CallOK(Now, u)
      /\ \A u, v \in Tasks : u # v => Apart(Now, call[u], call[v])
  BY DEF Good, Tables, FilesOK, Now
<1>3. /\ IsState(r) /\ r.disk = disk /\ r.hdd = hdd /\ r.call = call
      /\ r.fds = [fds EXCEPT ![t] = @ \ {s}]
      /\ r.files = [files EXCEPT ![s] = IF last THEN Closed ELSE @]
  BY DEF Now, IsState
<1> HIDE DEF r
<1>4. /\ r.fds[t] = fds[t] \ {s} /\ \A u \in Tasks \ {t} : r.fds[u] = fds[u]
      /\ r.fds \in [Tasks -> SUBSET Slots]
      /\ DOMAIN r.files = Slots /\ \A x \in Slots : x # s \/ ~ last => r.files[x] = files[x]
  BY <1>2, <1>3
<1>5. ASSUME NEW u \in Tasks, NEW x \in r.fds[u]
      PROVE  x \in Slots /\ x \in fds[u] /\ r.files[x] = files[x]
  BY <1>2, <1>4
<1>6. FilesOK(r.files, r.fds)
  BY <1>2, <1>4, <1>5 DEF FilesOK
<1>7. Tables(r)
  BY <1>2, <1>3, <1>6 DEF Tables
<1>8. ASSUME NEW u \in Tasks PROVE CallOK(r, u)
  <2>1. CallOK(Now, u) /\ Now.call[u] = call[u] /\ r.call[u] = call[u]
    BY <1>2, <1>3 DEF Now
  <2> DEFINE d == call[u]
  <2>2. CASE u = t
    BY <2>2, <2>1, <1>1 DEF CallOK, NoCall
  <2>3. CASE u # t /\ d.op \in {NONE, "unborn", "lost"}
    BY <2>1, <2>3 DEF CallOK
  <2>4. CASE u # t /\ d.op \notin {NONE, "unborn", "lost"}
    <3>1. CallData(Now, u, d) /\ r.fds[u] = fds[u]
      BY <2>1, <2>4, <1>4 DEF CallOK
    <3>2. CASE d.op = "open"
      <4>1. OpenOK(Now, d)
        BY <3>1, <3>2 DEF CallData, ReadOK, ReadData, SeekOK
      <4>2. OpenOK(r, d)
        <5>1. d.at \in WithSlot => /\ d.slot \in Slots /\ r.files[d.slot] = files[d.slot]
                                   /\ \A v \in Tasks : d.slot \notin r.fds[v]
          BY <4>1, <1>1, <1>4, <1>5 DEF OpenOK, OpenData, OpenCall, Now
        <5>2. QED
          BY <4>1, <5>1, <1>3 DEF OpenOK, OpenData, OpenCall, Now
      <4>3. QED
        BY <2>1, <4>2, <3>2, <1>3 DEF CallOK, CallData, Undisturbed, Now
    <3>3. CASE d.op # "open"
      <4>1. d.slot \in fds[u] /\ d.op \in {"read", "seek"}
        BY <3>1, <3>3 DEF CallData, ReadOK, ReadData, SeekOK, Now
      <4>2. r.files[d.slot] = files[d.slot] /\ d.slot \in r.fds[u]
        BY <4>1, <3>1, <1>5
      <4>3. CallData(r, u, d)
        BY <3>1, <3>3, <4>2 DEF CallData, ReadOK, ReadData, SeekOK, Now
      <4>4. QED
        BY <2>1, <2>4, <4>2, <4>3, <3>3, <1>3 DEF CallOK, Undisturbed, Now
    <3>4. QED
      BY <3>2, <3>3
  <2>5. QED
    BY <2>2, <2>3, <2>4
<1>9. ASSUME NEW u \in Tasks, NEW v \in Tasks, u # v PROVE Apart(r, r.call[u], r.call[v])
  <2>1. Apart(Now, call[u], call[v])
    BY <1>2, <1>9
  <2>2. call[u].op \in {"read", "seek"} => \E w \in Tasks : call[u].slot \in r.fds[w]
    <3>1. CASE u = t
      BY <3>1, <1>1 DEF NoCall, NONE
    <3>2. CASE u # t
      <4>1. CallOK(Now, u)
        BY <1>2
      <4>2. call[u].op \in {"read", "seek"} => call[u].slot \in fds[u]
        BY <4>1 DEF CallOK, CallData, ReadOK, ReadData, SeekOK, Now, NONE
      <4>3. QED
        BY <3>2, <4>2, <1>4
    <3>3. QED
      BY <3>1, <3>2
  <2>3. call[u].op \in {"read", "seek"} => r.files[call[u].slot] = files[call[u].slot]
    BY <2>2, <1>5
  <2>4. QED
    BY <2>1, <2>3, <1>3 DEF Apart, Now
<1>10. Good(r)
  BY <1>3, <1>7, <1>8, <1>9 DEF Good
<1>11. QED
  BY <1>1, <1>10, BecomeIsGood

LEMMA ForkIsGood ==
  ASSUME Good(Now), NEW t \in Tasks, NEW child \in Tasks, Fork(t, child)
  PROVE  Good(Now)'
<1> DEFINE r == [Now EXCEPT !.fds[child] = fds[t], !.call[child] = NoCall]
<1>1. call[child].op = "unborn" /\ Become(r)
  BY DEF Fork, Born
<1>2. /\ Tables(Now) /\ FilesOK(files, fds) /\ DOMAIN files = Slots /\ fds \in [Tasks -> SUBSET Slots]
      /\ HddOK(hdd) /\ DiskOK(disk) /\ DOMAIN call = Tasks
      /\ \A u \in Tasks : CallOK(Now, u)
      /\ \A u, v \in Tasks : u # v => Apart(Now, call[u], call[v])
  BY DEF Good, Tables, FilesOK, Now
<1>3. /\ IsState(r) /\ r.disk = disk /\ r.hdd = hdd /\ r.files = files
      /\ r.fds = [fds EXCEPT ![child] = fds[t]] /\ r.call = [call EXCEPT ![child] = NoCall]
  BY DEF Now, IsState
<1> HIDE DEF r
<1>4. /\ r.fds[child] = fds[t] /\ \A u \in Tasks \ {child} : r.fds[u] = fds[u]
      /\ r.fds \in [Tasks -> SUBSET Slots]
      /\ r.call[child] = NoCall /\ \A u \in Tasks \ {child} : r.call[u] = call[u]
      /\ DOMAIN r.call = Tasks
  BY <1>2, <1>3
<1>5. Tables(r)
  BY <1>2, <1>3, <1>4 DEF Tables, FilesOK
<1>6. ASSUME NEW u \in Tasks PROVE CallOK(r, u)
  <2>1. CASE u = child
    BY <2>1, <1>4 DEF CallOK, NoCall
  <2>2. CASE u # child
    <3>1. CallOK(Now, u) /\ Now.call[u] = call[u] /\ r.call[u] = call[u] /\ r.fds[u] = fds[u]
      BY <2>2, <1>2, <1>4 DEF Now
    <3>2. \A x : (\A v \in Tasks : x \notin fds[v]) => (\A v \in Tasks : x \notin r.fds[v])
      BY <1>2, <1>4
    <3>3. CallData(Now, u, call[u]) => CallData(r, u, call[u])
      BY <3>1, <3>2, <1>3
         DEF CallData, OpenOK, OpenData, OpenCall, ReadOK, ReadData, SeekOK, Now
    <3>4. Undisturbed(r, call[u]) => Undisturbed(Now, call[u])
      BY <1>3 DEF Undisturbed, Now
    <3>5. QED
      BY <3>1, <3>3, <3>4, <1>3 DEF CallOK, Now
  <2>3. QED
    BY <2>1, <2>2
<1>7. ASSUME NEW u \in Tasks, NEW v \in Tasks, u # v PROVE Apart(r, r.call[u], r.call[v])
  <2>1. CASE u # child /\ v # child
    BY <2>1, <1>7, <1>2, <1>3, <1>4 DEF Apart, Now
  <2>2. CASE u = child \/ v = child
    BY <2>2, <1>4 DEF Apart, NoCall, NONE
  <2>3. QED
    BY <2>1, <2>2
<1>8. Good(r)
  BY <1>5, <1>6, <1>7 DEF Good
<1>9. QED
  BY <1>1, <1>8, BecomeIsGood

LEMMA InterruptIsGood ==
  ASSUME Good(Now), hdd_primary_handler
  PROVE  Good(Now)'
<1> DEFINE r == [Now EXCEPT !.hdd = [hdd EXCEPT !.read_queue = Tail(@), !.command = NO_SECTOR,
                                                !.ready = hdd.command]]
<1>1. hdd.command # NO_SECTOR /\ Become(r)
  BY DEF hdd_primary_handler
<1>2. /\ Tables(Now) /\ HddOK(hdd) /\ \A u \in Tasks : CallOK(Now, u)
      /\ \A u, v \in Tasks : u # v => Apart(Now, call[u], call[v])
  BY DEF Good, Tables, Now
<1>3. /\ IsState(r) /\ r.disk = disk /\ r.files = files /\ r.fds = fds /\ r.call = call
      /\ r.hdd = [hdd EXCEPT !.read_queue = Tail(@), !.command = NO_SECTOR, !.ready = hdd.command]
  BY DEF Now, IsState
<1> HIDE DEF r
<1>4. /\ HddOK(r.hdd) /\ r.hdd.command = NO_SECTOR /\ r.hdd.ready = hdd.command
  <2>1. /\ Len(hdd.read_queue) = 1 /\ hdd.read_queue \in Seq(Tasks)
    BY <1>1, <1>2 DEF HddOK
  <2> DEFINE q == hdd.read_queue
  <2> HIDE DEF q
  <2>2. q \in Seq(Tasks) /\ Len(q) = 1
    BY <2>1 DEF q
  <2>3. q # <<>>
    <3>1. SUFFICES ASSUME q = <<>> PROVE Len(q) = 0
      BY <2>2
    <3>2. QED
      BY <3>1
  <2>4. Tail(q) \in Seq(Tasks) /\ Len(Tail(q)) = 0
    BY <2>2, <2>3
  <2>5. r.hdd \in [read_queue : Seq(Tasks), command : Sectors, ready : Sectors, buffer : Nat]
    BY <2>4, <1>2, <1>3 DEF HddOK, Sectors, q
  <2>6. r.hdd.read_queue = Tail(q) /\ r.hdd.command = NO_SECTOR /\ r.hdd.ready = hdd.command
    BY <1>2, <1>3 DEF HddOK, q
  <2>7. QED
    BY <2>4, <2>5, <2>6 DEF HddOK
<1>5. Tables(r)
  BY <1>2, <1>3, <1>4 DEF Tables, Now
<1>6. ASSUME NEW u \in Tasks PROVE CallOK(r, u)
  <2>1. CallOK(Now, u) /\ Now.call[u] = call[u] /\ r.call[u] = call[u]
    BY <1>2, <1>3 DEF Now
  <2>2. CallData(Now, u, call[u]) => CallData(r, u, call[u])
    BY <1>3 DEF CallData, OpenOK, OpenData, OpenCall, ReadOK, ReadData, SeekOK, Now
  <2>3. Undisturbed(r, call[u]) => Undisturbed(Now, call[u])
    BY <1>3 DEF Undisturbed, Now
  <2>4. Sync(hdd, u, call[u]) => Sync(r.hdd, u, call[u])
    BY <1>1, <1>4 DEF Sync
  <2>5. QED
    BY <2>1, <2>2, <2>3, <2>4 DEF CallOK, Now
<1>7. ASSUME NEW u \in Tasks, NEW v \in Tasks, u # v PROVE Apart(r, r.call[u], r.call[v])
  BY <1>2, <1>3, <1>7 DEF Apart, Now
<1>8. Good(r)
  BY <1>5, <1>6, <1>7 DEF Good
<1>9. QED
  BY <1>1, <1>8, BecomeIsGood

-----------------------------------------------------------------------------
(* Opening.                                                                *)
LEMMA LeastIsMember ==
  ASSUME NEW S \in SUBSET Nat, S # {}
  PROVE  Min(S) \in S
<1>1. PICK x \in S : \A y \in S : ~ (<<y, x>> \in OpToRel(<, Nat))
  BY NatLessThanWellFounded, WFMin
<1>2. ASSUME NEW y \in S PROVE x <= y
  <2>1. x \in Nat /\ y \in Nat
    OBVIOUS
  <2>2. y < x => <<y, x>> \in OpToRel(<, Nat)
    BY <2>1 DEF OpToRel
  <2>3. ~ (y < x)
    BY <1>1, <2>2
  <2>4. QED
    BY <2>1, <2>3
<1>3. QED
  BY <1>2 DEF Min

LEMMA StageIs ==
  ASSUME NEW c, OpenCall(c), NEW at, NEW parts
  PROVE  LET d == Stage(at, c, parts) IN
         /\ OpenCall(d) /\ d.at = at /\ d.got = <<>> /\ d.parts = parts
         /\ d.dir = c.dir /\ d.slot = c.slot /\ d.list = c.list /\ d.inode = c.inode
         /\ d.double = c.double
  BY DEF OpenCall, Stage

(* The first read of a stage: it wants all the units of A.                 *)
LEMMA StageIsGood ==
  ASSUME NEW st, NEW t \in Tasks, NEW c, Good(Now), GoodBut(st, t), OpenCall(c),
         c.at \in {"super", "groups"} \cup AfterTables, c.got = <<>>,
         c.parts \in Seq(Part), c.parts # <<>>,
         Wanted(c) \in Seq(Nat), Reads(c.parts, Wanted(c), 0),
         c.at = "groups" => st.disk.sb = SuperBlock,
         c.at \in AfterTables => st.disk.loaded,
         c.at = "dir" => InodeOf(c.dir).dir,
         c.at \in WithSlot => /\ c.slot \in Slots /\ st.files[c.slot] = Reserved
                              /\ \A v \in Tasks : c.slot \notin st.fds[v],
         c.at \in WithInode => c.inode = InodeOf(c.dir) /\ BlocksOf(c.inode) <= LastBlocks,
         c.at = "list" => c.inode.dir,
         Lists(c)
  PROVE  Good(Ask(st, t, c))
<1>1. Len(c.got) = 0 /\ c.got \in Seq(Nat) /\ \A i \in 1 .. Len(c.got) : c.got[i] = Wanted(c)[i]
  OBVIOUS
<1>2. OpenData(st, c)
  BY <1>1 DEF OpenData
<1>3. CallData(st, t, c)
  BY <1>2 DEF CallData, OpenOK, OpenCall
<1>4. QED
  BY <1>3, AskIsGood

(* A call that has the tables: what it knows of the disk is the disk.      *)
LEMMA WalkIsGood ==
  ASSUME NEW st, NEW t \in Tasks, NEW c, Good(Now), GoodBut(st, t), OpenCall(c),
         st.disk.loaded, c.list = <<>>
  PROVE  Good(Walk(st, t, c))
<1>1. /\ Tables(st) /\ IsState(st) /\ st.call = call /\ FilesOK(st.files, st.fds)
      /\ DOMAIN st.files = Slots
      /\ st.disk.sb = SuperBlock /\ st.disk.bgdt = Groups /\ c.dir \in Inodes
  BY DEF GoodBut, Tables, DiskOK, FilesOK, OpenCall
<1> DEFINE parts == InodeParts(st.disk, c.dir)
           W     == Span(InodeAddress(c.dir), 1)
<1>2. /\ parts \in Seq(Part) /\ parts # <<>> /\ W \in Seq(Nat) /\ Reads(parts, W, 0)
  <2>1. parts = Parts(InodeAddress(c.dir), 1)
    BY <1>1, InodePartsRead
  <2>2. InodeAddress(c.dir) \in Nat
    BY <1>1, InodesOfDisk
  <2>3. QED
    BY <2>1, <2>2, PartsRead
<1> HIDE DEF parts
<1>3. CASE c.flags = "wr"
  BY <1>3, ReturnIsGood DEF Walk
<1>4. CASE c.flags # "wr" /\ c.path # <<>>
  <2> DEFINE d == Stage("dirinode", c, parts)
  <2>1. /\ OpenCall(d) /\ d.at = "dirinode" /\ d.got = <<>> /\ d.parts = parts
        /\ d.dir = c.dir /\ d.list = <<>>
    BY StageIs
  <2>2. Walk(st, t, c) = Ask(st, t, d)
    BY <1>4 DEF Walk, parts
  <2> HIDE DEF d
  <2>3. Wanted(d) = W
    BY <2>1 DEF Wanted
  <2>4. Lists(d)
    BY <2>1 DEF Lists
  <2> HIDE DEF W
  <2>5. Good(Ask(st, t, d))
    BY <1>1, <1>2, <2>1, <2>3, <2>4, StageIsGood DEF AfterTables, WithSlot, WithInode
  <2>6. QED
    BY <2>2, <2>5
<1>5. CASE c.flags # "wr" /\ c.path = <<>> /\ FreeSlots(st.files) = {}
  BY <1>5, ReturnIsGood DEF Walk, TakeSlot
<1>6. CASE c.flags # "wr" /\ c.path = <<>> /\ FreeSlots(st.files) # {}
  <2> DEFINE s  == Min(FreeSlots(st.files))
             r  == [st EXCEPT !.files[s] = Reserved]
             e  == Stage("inode", c, parts)
             d  == [e EXCEPT !.slot = s]
  <2>1. s \in FreeSlots(st.files)
    <3>1. FreeSlots(st.files) \in SUBSET Nat
      <4>1. Slots \subseteq Nat
        BY FilesAssumption DEF Slots
      <4>2. QED
        BY <4>1 DEF FreeSlots
    <3>2. QED
      BY <3>1, <1>6, LeastIsMember
  <2>2. Walk(st, t, c) = Ask(r, t, d)
    BY <1>6 DEF Walk, TakeSlot, parts, Reserved
  <2> HIDE DEF s
  <2>3. s \in Slots /\ st.files[s].klass = NONE
    BY <2>1 DEF FreeSlots
  <2>4. \A v \in Tasks : s \notin st.fds[v]
    <3> SUFFICES ASSUME NEW v \in Tasks, s \in st.fds[v] PROVE FALSE
      OBVIOUS
    <3>1. st.files[s] \in OpenFile
      BY <1>1 DEF FilesOK
    <3>2. QED
      BY <3>1, <2>3 DEF OpenFile, NONE
  <2>5. /\ IsState(r) /\ r.disk = st.disk /\ r.hdd = st.hdd /\ r.fds = st.fds
        /\ r.call = st.call /\ DOMAIN r.files = Slots /\ r.files[s] = Reserved
        /\ \A x \in Slots \ {s} : r.files[x] = st.files[x]
    BY <1>1, <2>3 DEF IsState
  <2> HIDE DEF r
  <2>6. GoodBut(r, t)
    <3>1. FilesOK(r.files, r.fds)
      BY <1>1, <2>4, <2>5 DEF FilesOK
    <3>2. Tables(r) /\ r.call = call
      BY <1>1, <3>1, <2>5 DEF Tables
    <3>3. ASSUME NEW u \in Tasks \ {t} PROVE CallOK(r, u)
      <4>1. CallOK(st, u)
        BY DEF GoodBut
      <4>2. CASE st.call[u].op \in {NONE, "unborn", "lost"}
        BY <4>2, <2>5 DEF CallOK
      <4>3. CASE CallData(st, u, st.call[u]) /\ st.call[u].op = "open"
        <5>1. OpenOK(st, st.call[u])
          BY <4>3 DEF CallData, ReadOK, ReadData, SeekOK
        <5>2. st.call[u].at \in WithSlot => st.call[u].slot # s
          BY <5>1, <2>3 DEF OpenOK, OpenData, Reserved, NONE
        <5>3. OpenOK(r, st.call[u])
          BY <5>1, <5>2, <2>5 DEF OpenOK, OpenData
        <5>4. QED
          BY <4>1, <4>3, <5>3, <2>5 DEF CallOK, CallData, Undisturbed, NONE
      <4>4. CASE CallData(st, u, st.call[u]) /\ st.call[u].op # "open"
        <5>1. st.call[u].slot \in st.fds[u] /\ st.call[u].op \in {"read", "seek"}
          BY <4>4 DEF CallData, ReadOK, ReadData, SeekOK
        <5>2. r.files[st.call[u].slot] = st.files[st.call[u].slot]
          BY <5>1, <1>1, <2>4, <2>5 DEF FilesOK
        <5>3. CallData(r, u, st.call[u])
          BY <4>4, <5>2, <2>5 DEF CallData, ReadOK, ReadData, SeekOK
        <5>4. QED
          BY <4>1, <5>1, <5>2, <5>3, <2>5 DEF CallOK, Undisturbed, NONE
      <4>5. QED
        BY <4>1, <4>2, <4>3, <4>4 DEF CallOK
    <3>4. ASSUME NEW u \in Tasks \ {t}, NEW v \in Tasks \ {t}, u # v
          PROVE  Apart(r, r.call[u], r.call[v])
      <4>1. Apart(st, st.call[u], st.call[v])
        BY <3>4 DEF GoodBut
      <4>2. st.call[u].op \in {"read", "seek"} => st.call[u].slot \in st.fds[u]
        BY DEF GoodBut, CallOK, CallData, OpenOK, OpenData, OpenCall, ReadOK, ReadData, SeekOK,
               NONE
      <4>3. st.call[u].op \in {"read", "seek"} =>
              r.files[st.call[u].slot] = st.files[st.call[u].slot]
        BY <4>2, <1>1, <2>4, <2>5 DEF FilesOK
      <4>4. QED
        BY <4>1, <4>3, <2>5 DEF Apart
    <3>5. QED
      BY <3>2, <3>3, <3>4 DEF GoodBut
  <2>7. /\ OpenCall(e) /\ e.at = "inode" /\ e.got = <<>> /\ e.parts = parts
        /\ e.dir = c.dir /\ e.list = <<>>
    BY StageIs
  <2> HIDE DEF e
  <2>8. /\ OpenCall(d) /\ d.at = "inode" /\ d.got = <<>> /\ d.parts = parts
        /\ d.dir = c.dir /\ d.list = <<>> /\ d.slot = s
    BY <2>7 DEF OpenCall
  <2> HIDE DEF d
  <2>9. Wanted(d) = W
    BY <2>8 DEF Wanted
  <2>10. Lists(d)
    BY <2>8 DEF Lists
  <2> HIDE DEF W
  <2>11. Good(Ask(r, t, d))
    BY <1>1, <1>2, <2>3, <2>4, <2>5, <2>6, <2>8, <2>9, <2>10, StageIsGood
       DEF AfterTables, WithSlot, WithInode
  <2>12. QED
    BY <2>2, <2>11
<1>7. QED
  BY <1>3, <1>4, <1>5, <1>6

LEMMA OpenedIsGood ==
  ASSUME NEW st, NEW t \in Tasks, NEW c, NEW size \in Nat, NEW page \in [1 .. PAGE -> Nat],
         GoodBut(st, t), \A u \in Tasks \ {t} : call[u].op # "open",
         c.slot \in Slots, st.files[c.slot] = Reserved, \A v \in Tasks : c.slot \notin st.fds[v],
         c.inode \in {InodeOf(id) : id \in Inodes}, c.list \in Seq(Nat),
         ~ c.inode.dir => size = c.inode.size /\ Maps(c.inode, c.list)
  PROVE  Good(Opened(st, t, c, size, page))
<1> DEFINE s == c.slot
           g == [klass |-> "file", inode |-> c.inode, file_size |-> size,
                 block_list |-> c.list, stream_pos |-> 0, buffer |-> page, buf_pos |-> 0,
                 buffer_empty |-> c.at # "list", clean |-> TRUE]
           r == [st EXCEPT !.fds[t] = @ \cup {s}, !.files[s] = g]
<1>1. /\ Tables(st) /\ IsState(st) /\ st.call = call /\ FilesOK(st.files, st.fds)
      /\ DOMAIN st.files = Slots /\ st.fds \in [Tasks -> SUBSET Slots]
  BY DEF GoodBut, Tables, FilesOK
<1>2. g \in OpenFile /\ g.stream_pos <= g.file_size /\ Mapped(g)
  BY Sizes DEF OpenFile, Mapped
<1>3. Opened(st, t, c, size, page) = Return(r, t)
  BY DEF Opened
<1> HIDE DEF g
<1>4. /\ IsState(r) /\ r.disk = st.disk /\ r.hdd = st.hdd /\ r.call = st.call
      /\ DOMAIN r.files = Slots /\ r.files[s] = g
      /\ \A x \in Slots \ {s} : r.files[x] = st.files[x]
      /\ r.fds = [st.fds EXCEPT ![t] = @ \cup {s}]
  BY <1>1 DEF IsState
<1> HIDE DEF r
<1>5. /\ r.fds \in [Tasks -> SUBSET Slots] /\ r.fds[t] = st.fds[t] \cup {s}
      /\ \A u \in Tasks \ {t} : r.fds[u] = st.fds[u]
  BY <1>1, <1>4
<1>6. FilesOK(r.files, r.fds)
  <2>1. ASSUME NEW u \in Tasks, NEW x \in r.fds[u]
        PROVE  /\ r.files[x] \in OpenFile /\ Mapped(r.files[x])
               /\ r.files[x].clean => r.files[x].stream_pos <= r.files[x].file_size
    <3>1. CASE x = s
      BY <3>1, <1>2, <1>4
    <3>2. CASE x # s
      <4>1. x \in st.fds[u] /\ x \in Slots
        BY <3>2, <1>1, <1>5
      <4>2. r.files[x] = st.files[x]
        BY <3>2, <4>1, <1>4
      <4>3. QED
        BY <4>1, <4>2, <1>1 DEF FilesOK
    <3>3. QED
      BY <3>1, <3>2
  <2>2. QED
    BY <2>1, <1>4, <1>5 DEF FilesOK
<1>7. Tables(r) /\ r.call = call
  BY <1>1, <1>4, <1>6 DEF Tables
<1>8. ASSUME NEW u \in Tasks \ {t} PROVE CallOK(r, u)
  <2>1. CallOK(st, u) /\ r.call[u] = st.call[u] /\ st.call[u].op # "open"
    BY <1>1, <1>4 DEF GoodBut
  <2>2. CASE st.call[u].op \in {NONE, "unborn", "lost"}
    BY <2>1, <2>2 DEF CallOK
  <2>3. CASE CallData(st, u, st.call[u])
    <3>1. st.call[u].slot \in st.fds[u] /\ st.call[u].op \in {"read", "seek"}
      BY <2>1, <2>3 DEF CallData, ReadOK, ReadData, SeekOK
    <3>2. r.files[st.call[u].slot] = st.files[st.call[u].slot] /\ r.fds[u] = st.fds[u]
      BY <3>1, <1>1, <1>4, <1>5 DEF FilesOK
    <3>3. CallData(r, u, st.call[u])
      BY <2>1, <2>3, <3>2 DEF CallData, ReadOK, ReadData, SeekOK
    <3>4. QED
      BY <2>1, <3>1, <3>2, <3>3, <1>4 DEF CallOK, Undisturbed, NONE
  <2>4. QED
    BY <2>1, <2>2, <2>3 DEF CallOK
<1>9. ASSUME NEW u \in Tasks \ {t}, NEW v \in Tasks \ {t}, u # v
      PROVE  Apart(r, r.call[u], r.call[v])
  <2>1. Apart(st, st.call[u], st.call[v])
    BY <1>9 DEF GoodBut
  <2>2. st.call[u].op \in {"read", "seek"} => st.call[u].slot \in st.fds[u]
    BY DEF GoodBut, CallOK, CallData, OpenOK, OpenData, OpenCall, ReadOK, ReadData, SeekOK, NONE
  <2>3. st.call[u].op \in {"read", "seek"} =>
          r.files[st.call[u].slot] = st.files[st.call[u].slot]
    BY <2>2, <1>1, <1>4 DEF FilesOK
  <2>4. QED
    BY <2>1, <2>3, <1>4 DEF Apart
<1>10. GoodBut(r, t)
  BY <1>7, <1>8, <1>9 DEF GoodBut
<1>11. QED
  BY <1>3, <1>10, ReturnIsGood

LEMMA Joined ==
  ASSUME NEW a \in Seq(Nat), NEW b \in Seq(Nat)
  PROVE  /\ a \o b \in Seq(Nat) /\ Len(a \o b) = Len(a) + Len(b)
         /\ \A i \in 1 .. Len(a) : (a \o b)[i] = a[i]
         /\ \A i \in 1 .. Len(b) : (a \o b)[Len(a) + i] = b[i]
  OBVIOUS

(* The lists of block numbers grow by one list at a time.                  *)
LEMMA FirstList ==
  ASSUME NEW inode, inode.block \in [1 .. DIRECT + 2 -> Nat]
  PROVE  ListOK(inode, Span(inode.block[DIRECT + 1] * BLOCK, BLOCK), 1)
<1> DEFINE b == inode.block[DIRECT + 1] * BLOCK
<1>1. b \in Nat
  BY Sizes
<1>2. \A i \in 1 .. BLOCK : LastPointer(inode, DIRECT + i - 1) = b + i - 1
  <2> SUFFICES ASSUME NEW i \in 1 .. BLOCK
               PROVE  LastPointer(inode, DIRECT + i - 1) = b + i - 1
    OBVIOUS
  <2>1. (DIRECT + i - 1) - DIRECT - BLOCK < 0 /\ (DIRECT + i - 1) - DIRECT = i - 1
    BY Sizes
  <2>2. LastPointer(inode, DIRECT + i - 1) = b + ((DIRECT + i - 1) - DIRECT)
    BY <2>1 DEF LastPointer
  <2> HIDE DEF b
  <2>3. QED
    BY <2>1, <2>2, <1>1
<1> HIDE DEF b
<1>3. Span(b, BLOCK) \in Seq(Nat) /\ Len(Span(b, BLOCK)) = BLOCK
      /\ \A i \in 1 .. BLOCK : Span(b, BLOCK)[i] = b + i - 1
  BY <1>1, Sizes DEF Span
<1>4. 1 * BLOCK = BLOCK
  BY Sizes
<1>5. ListOK(inode, Span(b, BLOCK), 1)
  BY <1>2, <1>3, <1>4 DEF ListOK
<1>6. QED
  BY <1>5 DEF b

LEMMA NextListRead ==
  ASSUME NEW inode, inode.block \in [1 .. DIRECT + 2 -> Nat], NEW list, NEW r \in Nat \ {0},
         r <= BLOCK, ListOK(inode, list, r), NEW double,
         double = Span(inode.block[DIRECT + 2] * BLOCK, BLOCK)
  PROVE  /\ Len(list) \div BLOCK = r
         /\ ListOK(inode, list \o Span(BlockNumber(double[r]) * BLOCK, BLOCK), r + 1)
<1> DEFINE d == inode.block[DIRECT + 2] * BLOCK
           b == BlockNumber(double[r]) * BLOCK
           m == r * BLOCK
           w == Span(b, BLOCK)
<1>1. d \in Nat /\ b \in Nat /\ m \in Nat /\ (r + 1) * BLOCK = m + BLOCK /\ m \div BLOCK = r
  <2>1. d \in Nat
    BY Sizes
  <2>2. BlockNumber(double[r]) \in Nat
    BY Numbers
  <2>3. \A x \in Nat : x * BLOCK \in Nat /\ (x + 1) * BLOCK = x * BLOCK + BLOCK /\ (x * BLOCK) \div BLOCK = x
    BY Sizes
  <2>4. QED
    BY <2>1, <2>2, <2>3
<1>2. double[r] = d + r - 1
  BY DEF Span
<1>3. list \in Seq(Nat) /\ Len(list) = m
  BY DEF ListOK
<1> HIDE DEF d, b
<1>4. w \in Seq(Nat) /\ Len(w) = BLOCK /\ \A i \in 1 .. BLOCK : w[i] = b + i - 1
  BY <1>1, Sizes DEF Span
<1> HIDE DEF w
<1>5. ASSUME NEW j \in 1 .. BLOCK
      PROVE  LastPointer(inode, DIRECT + (m + j) - 1) = b + j - 1
  <2> DEFINE k    == DIRECT + (m + j) - 1
             rest == k - DIRECT - BLOCK
  <2>1. m = (r - 1) * BLOCK + BLOCK /\ (r - 1) * BLOCK \in Nat /\ r - 1 \in Nat
    <3>1. \A x \in Nat : (x + 1) * BLOCK = x * BLOCK + BLOCK /\ x * BLOCK \in Nat
      BY Sizes
    <3>2. r - 1 \in Nat /\ (r - 1) + 1 = r
      OBVIOUS
    <3>3. QED
      BY <3>1, <3>2
  <2>2. rest = (r - 1) * BLOCK + (j - 1) /\ j - 1 \in 0 .. BLOCK - 1
    BY <2>1, <1>1, Sizes
  <2>3. rest \in Nat
    BY <2>1, <2>2
  <2> HIDE DEF rest, k, m
  <2>4. rest \div BLOCK = r - 1 /\ rest % BLOCK = j - 1
    <3>1. r - 1 \in Int /\ j - 1 \in Int /\ 0 <= j - 1 /\ j - 1 < BLOCK /\ BLOCK \in Nat /\ BLOCK > 0
      BY <2>2, Sizes
    <3>2. rest \in Int /\ rest = (r - 1) * BLOCK + (j - 1)
      BY <2>2, <2>3
    <3>3. QED
      BY <3>1, <3>2, Quotient
  <2>5. d + (rest \div BLOCK) = double[r]
    BY <2>1, <2>4, <1>1, <1>2
  <2>6. ~ rest < 0
    BY <2>3
  <2>7. LastPointer(inode, k) = BlockNumber(d + (rest \div BLOCK)) * BLOCK + (rest % BLOCK)
    BY <2>6 DEF LastPointer, rest, d
  <2>8. LastPointer(inode, k) = b + (j - 1)
    BY <2>4, <2>5, <2>7 DEF b
  <2>9. b + (j - 1) = b + j - 1
    BY <1>1
  <2>10. QED
    BY <2>8, <2>9 DEF k
<1>6. ListOK(inode, list \o w, r + 1)
  <2>1. list \o w \in Seq(Nat) /\ Len(list \o w) = m + BLOCK
    BY <1>3, <1>4, Joined
  <2>2. ASSUME NEW i \in 1 .. m + BLOCK
        PROVE  (list \o w)[i] = LastPointer(inode, DIRECT + i - 1)
    <3>1. CASE i <= m
      <4>1. (list \o w)[i] = list[i] /\ i \in 1 .. Len(list)
        BY <3>1, <1>1, <1>3, <1>4, Joined
      <4>2. QED
        BY <4>1 DEF ListOK
    <3>2. CASE ~ i <= m
      <4> DEFINE j == i - m
      <4>1. j \in 1 .. BLOCK /\ i = m + j /\ i \in Nat
        BY <3>2, <1>1, Sizes
      <4> HIDE DEF j, m
      <4>2. j \in 1 .. Len(w)
        BY <4>1, <1>4
      <4>3. (list \o w)[i] = w[j]
        BY <4>1, <4>2, <1>3, <1>4, Joined
      <4>4. QED
        BY <4>1, <4>3, <1>4, <1>5
    <3>3. QED
      BY <3>1, <3>2
  <2>3. QED
    BY <2>1, <2>2, <1>1 DEF ListOK
<1>7. QED
  BY <1>1, <1>3, <1>6 DEF w, b

(* As many lists as the size of a file asks for lead to all of its blocks. *)
LEMMA ListMaps ==
  ASSUME NEW inode, WellFormed(inode), BlocksOf(inode) <= LastBlocks, NEW list, NEW r \in Nat,
         r # 0 => ListOK(inode, list, r), BlocksOf(inode) <= DIRECT + r * BLOCK
  PROVE  Maps(inode, list)
<1> DEFINE n == BlocksOf(inode)
           f == [inode |-> inode, block_list |-> list]
<1>1. /\ inode.block \in [1 .. DIRECT + 2 -> Nat] /\ n \in Nat /\ r * BLOCK \in Nat
      /\ BLOCK \in Nat \ {0} /\ DIRECT \in Nat \ {0}
  <2>1. inode.block \in [1 .. DIRECT + 2 -> Nat] /\ inode.size \in Nat
    BY DEF WellFormed
  <2>2. n \in Nat
    BY <2>1, OverBounds, Sizes DEF BlocksOf
  <2>3. r * BLOCK \in Nat
    BY Sizes
  <2>4. QED
    BY <2>1, <2>2, <2>3, Sizes
<1>2. \A k \in DIRECT .. n - 1 : \A a \in Pointers(inode, k) :
        BlockNumber(a) = Image[a].block
  BY DEF WellFormed, BlockNumber
<1>3. n <= DIRECT + r * BLOCK
  OBVIOUS
<1> HIDE DEF n
<1> SUFFICES ASSUME NEW k \in 0 .. n - 1 PROVE FileBlock(f, k) = FormatBlock(inode, k)
  BY DEF Maps, n
<1>4. k \in Nat /\ k < n
  BY <1>1
<1>5. CASE k < DIRECT
  BY <1>5 DEF FileBlock, FormatBlock
<1>6. CASE ~ k < DIRECT
  <2> DEFINE i    == k - DIRECT + 1
             rest == k - DIRECT - BLOCK
             b1   == inode.block[DIRECT + 1] * BLOCK
             b2   == inode.block[DIRECT + 2] * BLOCK
  <2>1. r # 0
    <3>1. 0 * BLOCK = 0
      BY <1>1
    <3>2. QED
      BY <3>1, <1>1, <1>3, <1>4, <1>6
  <2>2. i \in 1 .. r * BLOCK /\ DIRECT + i - 1 = k /\ k \in DIRECT .. n - 1
    BY <1>1, <1>3, <1>4, <1>6
  <2>3. i \in DOMAIN list /\ list[i] = LastPointer(inode, k)
    <3>1. list \in Seq(Nat) /\ i \in 1 .. Len(list)
      BY <2>1, <2>2 DEF ListOK
    <3>2. list[i] = LastPointer(inode, DIRECT + i - 1)
      BY <2>1, <3>1 DEF ListOK
    <3> HIDE DEF i
    <3>3. QED
      BY <3>1, <3>2, <2>2
  <2>4. FileBlock(f, k) = BlockNumber(LastPointer(inode, k))
    BY <1>6, <2>3 DEF FileBlock
  <2>5. b1 \in Nat /\ b2 \in Nat
    <3>1. inode.block[DIRECT + 1] \in Nat /\ inode.block[DIRECT + 2] \in Nat
      BY <1>1
    <3>2. \A x \in Nat : x * BLOCK \in Nat
      BY <1>1
    <3>3. QED
      BY <3>1, <3>2
  <2> HIDE DEF b1, b2, f, i
  <2>6. CASE rest < 0
    <3>1. Pointers(inode, k) = {b1 + k - DIRECT} /\ LastPointer(inode, k) = b1 + (k - DIRECT)
      BY <2>6 DEF Pointers, LastPointer, b1
    <3>2. b1 + k - DIRECT = b1 + (k - DIRECT)
      BY <1>1, <1>4, <2>5
    <3>3. BlockNumber(b1 + (k - DIRECT)) = Image[b1 + (k - DIRECT)].block
      BY <1>2, <2>2, <3>1, <3>2
    <3>4. FormatBlock(inode, k) = Image[b1 + (k - DIRECT)].block
      BY <1>6, <2>6 DEF FormatBlock, b1
    <3>5. QED
      BY <2>4, <3>1, <3>3, <3>4
  <2>7. CASE ~ rest < 0
    <3> DEFINE d == b2 + (rest \div BLOCK)
               w == Image[d].block * BLOCK + (rest % BLOCK)
    <3>1. Pointers(inode, k) = {d, w}
      BY <2>7 DEF Pointers, b2
    <3>2. BlockNumber(d) = Image[d].block /\ BlockNumber(w) = Image[w].block
      BY <1>2, <2>2, <3>1
    <3>3. LastPointer(inode, k) = BlockNumber(d) * BLOCK + (rest % BLOCK)
      BY <2>7 DEF LastPointer, b2
    <3>4. FormatBlock(inode, k) = Image[w].block
      BY <1>6, <2>7 DEF FormatBlock, b2
    <3>5. QED
      BY <2>4, <3>2, <3>3, <3>4
  <2>8. QED
    BY <2>6, <2>7
<1>7. QED
  BY <1>5, <1>6

(* What ext2_open holds when it has an entry and the inode.                *)
Filling(st, t, c) ==
  /\ GoodBut(st, t) /\ OpenCall(c) /\ st.disk.loaded
  /\ \A u \in Tasks \ {t} : call[u].op # "open"
  /\ c.slot \in Slots /\ st.files[c.slot] = Reserved
  /\ \A v \in Tasks : c.slot \notin st.fds[v]
  /\ c.inode = InodeOf(c.dir) /\ BlocksOf(c.inode) <= LastBlocks

LEMMA NextListIsGood ==
  ASSUME NEW st, NEW t \in Tasks, NEW c, Good(Now), Filling(st, t, c),
         NEW r \in Nat,
         \/ c.at = "inode" /\ r = 0 /\ c.list = <<>>
         \/ c.at = "single" /\ r = 1
         \/ c.at = "double" /\ r = 1 /\ c.double = Span(c.inode.block[DIRECT + 2] * BLOCK, BLOCK)
         \/ /\ c.at = "loads" /\ r \in Nat \ {0}
            /\ c.double = Span(c.inode.block[DIRECT + 2] * BLOCK, BLOCK),
         r # 0 => ListOK(c.inode, c.list, r) /\ BlocksOf(c.inode) > DIRECT
  PROVE  Good(NextList(st, t, c))
<1> DEFINE n        == BlocksOf(c.inode)
           more(l)  == n > DIRECT + l * BLOCK
           block(b) == Parts(b * BLOCK, BLOCK)
           read     == Len(c.list) \div BLOCK
           i        == c.inode
<1>1. /\ GoodBut(st, t) /\ OpenCall(c) /\ st.disk.loaded /\ c.dir \in Inodes
      /\ i = InodeOf(c.dir) /\ WellFormed(i) /\ i.block \in [1 .. DIRECT + 2 -> Nat]
      /\ i.dir \in BOOLEAN /\ i.size \in Nat
  BY InodesOfDisk DEF Filling, OpenCall, WellFormed
<1>2. n \in Nat /\ i.dir => n <= DIRECT
  BY <1>1, DirPartsRead
<1>3. n \in Nat
  BY <1>1, OverBounds, Sizes DEF BlocksOf
<1>4. ~ more(0) => ~ n > DIRECT
  BY <1>3, Sizes
<1>5. i.dir => c.at = "inode" /\ ~ more(0) /\ r = 0
  BY <1>1, <1>2, <1>3, Sizes
<1>6. c.list \in Seq(Nat)
  <2>1. r = 0 => c.list = <<>>
    OBVIOUS
  <2>2. r # 0 => c.list \in Seq(Nat)
    BY DEF ListOK
  <2>3. <<>> \in Seq(Nat)
    OBVIOUS
  <2>4. QED
    BY <2>1, <2>2, <2>3
<1>7. ASSUME NEW b \in Nat
      PROVE  /\ block(b) \in Seq(Part) /\ block(b) # <<>>
             /\ Span(b * BLOCK, BLOCK) \in Seq(Nat)
             /\ Reads(block(b), Span(b * BLOCK, BLOCK), 0)
  <2>1. b * BLOCK \in Nat
    BY Sizes
  <2>2. QED
    BY <2>1, PartsRead, Sizes
<1> HIDE DEF block, n
<1>8. ASSUME NEW d, OpenCall(d), d.at \in {"single", "double", "loads", "list"},
             d.got = <<>>, d.dir = c.dir, d.slot = c.slot, d.inode = i,
             d.parts \in Seq(Part), d.parts # <<>>, Wanted(d) \in Seq(Nat),
             Reads(d.parts, Wanted(d), 0), d.at = "list" => i.dir, Lists(d)
      PROVE  Good(Ask(st, t, d))
  BY <1>1, <1>8, StageIsGood DEF Filling, AfterTables, WithSlot, WithInode
<1>9. CASE c.at = "inode" /\ more(0)
  <2> DEFINE d == Stage("single", c, block(i.block[DIRECT + 1]))
  <2>1. /\ OpenCall(d) /\ d.at = "single" /\ d.got = <<>> /\ d.dir = c.dir /\ d.slot = c.slot
        /\ d.inode = i /\ d.list = <<>> /\ d.parts = block(i.block[DIRECT + 1])
    BY <1>1, <1>9, StageIs
  <2>2. NextList(st, t, c) = Ask(st, t, d)
    BY <1>9, <1>5 DEF NextList, n, block
  <2> HIDE DEF d
  <2>3. i.block[DIRECT + 1] \in Nat
    BY <1>1, Sizes
  <2>4. Wanted(d) = Span(i.block[DIRECT + 1] * BLOCK, BLOCK)
    BY <2>1 DEF Wanted
  <2>5. Lists(d)
    <3>1. BlocksOf(d.inode) > DIRECT
      BY <2>1, <1>9, <1>3, Sizes DEF n
    <3>2. QED
      BY <2>1, <3>1 DEF Lists
  <2>6. Good(Ask(st, t, d))
    BY <1>7, <1>8, <2>1, <2>3, <2>4, <2>5
  <2>7. QED
    BY <2>2, <2>6
<1>10. CASE c.at = "single" /\ more(1)
  <2> DEFINE d == Stage("double", c, block(i.block[DIRECT + 2]))
  <2>1. /\ OpenCall(d) /\ d.at = "double" /\ d.got = <<>> /\ d.dir = c.dir /\ d.slot = c.slot
        /\ d.inode = i /\ d.list = c.list /\ d.parts = block(i.block[DIRECT + 2])
    BY <1>1, StageIs
  <2>2. NextList(st, t, c) = Ask(st, t, d)
    BY <1>10, <1>5 DEF NextList, n, block
  <2> HIDE DEF d
  <2>3. i.block[DIRECT + 2] \in Nat
    BY <1>1, Sizes
  <2>4. Wanted(d) = Span(i.block[DIRECT + 2] * BLOCK, BLOCK)
    BY <2>1 DEF Wanted
  <2>5. Lists(d)
    <3>1. BlocksOf(d.inode) > DIRECT + BLOCK
      BY <2>1, <1>10, <1>3, Sizes DEF n
    <3>2. ListOK(d.inode, d.list, 1)
      BY <2>1, <1>10
    <3>3. QED
      BY <2>1, <3>1, <3>2 DEF Lists
  <2>6. Good(Ask(st, t, d))
    BY <1>7, <1>8, <2>1, <2>3, <2>4, <2>5
  <2>7. QED
    BY <2>2, <2>6
<1>11. CASE c.at \in {"double", "loads"} /\ more(read)
  <2> DEFINE b == BlockNumber(c.double[read])
             d == Stage("loads", c, block(b))
  <2>1. /\ OpenCall(d) /\ d.at = "loads" /\ d.got = <<>> /\ d.dir = c.dir /\ d.slot = c.slot
        /\ d.inode = i /\ d.list = c.list /\ d.double = c.double /\ d.parts = block(b)
    BY <1>1, StageIs
  <2>2. NextList(st, t, c) = Ask(st, t, d)
    BY <1>11, <1>5 DEF NextList, n, block
  <2> HIDE DEF d
  <2>3. b \in Nat
    BY Numbers
  <2>4. Wanted(d) = Span(b * BLOCK, BLOCK)
    BY <2>1 DEF Wanted
  <2>5. r \in Nat \ {0} /\ ListOK(i, c.list, r) /\ read = r
        /\ c.double = Span(i.block[DIRECT + 2] * BLOCK, BLOCK)
    <3>1. r \in Nat \ {0} /\ ListOK(i, c.list, r) /\ c.double = Span(i.block[DIRECT + 2] * BLOCK, BLOCK)
      BY <1>11
    <3>2. Len(c.list) = r * BLOCK
      BY <3>1 DEF ListOK
    <3>3. \A x \in Nat : (x * BLOCK) \div BLOCK = x
      BY Sizes
    <3>4. QED
      BY <3>1, <3>2, <3>3
  <2>6. Lists(d)
    <3>1. BlocksOf(d.inode) > DIRECT + r * BLOCK
      BY <2>1, <2>5, <1>11 DEF n
    <3>2. QED
      BY <2>1, <2>5, <3>1 DEF Lists
  <2> HIDE DEF b
  <2>7. Good(Ask(st, t, d))
    BY <1>7, <1>8, <2>1, <2>3, <2>4, <2>6
  <2>8. QED
    BY <2>2, <2>7
<1> DEFINE rest == /\ ~ (c.at = "inode" /\ more(0))
                   /\ ~ (c.at = "single" /\ more(1))
                   /\ ~ (c.at \in {"double", "loads"} /\ more(read))
<1>12. CASE rest /\ i.dir
  <2> DEFINE d == Stage("list", c, DirParts(i))
  <2>1. /\ OpenCall(d) /\ d.at = "list" /\ d.got = <<>> /\ d.dir = c.dir /\ d.slot = c.slot
        /\ d.inode = i /\ d.list = <<>> /\ d.parts = DirParts(i)
    <3>1. c.list = <<>>
      BY <1>5, <1>12
    <3>2. QED
      BY <3>1, <1>1, StageIs
  <2>2. NextList(st, t, c) = Ask(st, t, d)
    BY <1>12 DEF NextList, n
  <2> HIDE DEF d
  <2>3. Wanted(d) = DirUnits(i)
    BY <2>1 DEF Wanted
  <2>4. Lists(d)
    BY <2>1 DEF Lists
  <2>5. Good(Ask(st, t, d))
    BY <1>1, <1>8, <1>12, <2>1, <2>3, <2>4, DirPartsRead
  <2>6. QED
    BY <2>2, <2>5
<1>13. ASSUME rest PROVE Maps(i, c.list)
  <2>1. r # 0 => read = r
    <3>1. r # 0 => Len(c.list) = r * BLOCK
      BY DEF ListOK
    <3>2. \A x \in Nat : (x * BLOCK) \div BLOCK = x
      BY Sizes
    <3>3. QED
      BY <3>1, <3>2
  <2>2. ~ more(r)
    BY <1>13, <2>1
  <2>3. n <= DIRECT + r * BLOCK
    <3>1. r * BLOCK \in Nat
      BY Sizes
    <3>2. QED
      BY <2>2, <3>1, <1>3, Sizes
  <2>4. r # 0 => ListOK(i, c.list, r)
    OBVIOUS
  <2>5. BlocksOf(i) <= DIRECT + r * BLOCK /\ BlocksOf(i) <= LastBlocks
    BY <2>3 DEF n, Filling
  <2> HIDE DEF i
  <2>6. QED
    BY <1>1, <2>4, <2>5, ListMaps
<1>14. CASE rest /\ ~ i.dir
  <2>1. NextList(st, t, c) = Opened(st, t, c, i.size, AnyPage)
    BY <1>14 DEF NextList, n
  <2>2. AnyPage \in [1 .. PAGE -> Nat]
    BY DEF AnyPage
  <2>3. i \in {InodeOf(id) : id \in Inodes}
    BY <1>1
  <2>4. QED
    <3>1. c.inode.dir = FALSE /\ i.size \in Nat /\ Maps(c.inode, c.list)
      BY <1>1, <1>14, <1>13
    <3>2. /\ GoodBut(st, t) /\ \A u \in Tasks \ {t} : call[u].op # "open"
          /\ c.slot \in Slots /\ st.files[c.slot] = Reserved
          /\ \A v \in Tasks : c.slot \notin st.fds[v]
      BY DEF Filling
    <3>3. Good(Opened(st, t, c, i.size, AnyPage))
      BY <3>1, <3>2, <2>2, <2>3, <1>6, OpenedIsGood
    <3>4. QED
      BY <2>1, <3>3
<1>15. QED
  BY <1>9, <1>10, <1>11, <1>12, <1>14

(* The inode that an entry of a directory names is there.                  *)
LEMMA NamedInode ==
  ASSUME NEW inode, WellFormed(inode), inode.dir, NEW m \in 1 .. inode.size
  PROVE  Image[DirUnits(inode)[m]].inode \in Inodes
<1> DEFINE k == m - 1
           q == k \div BLOCK
<1>1. /\ inode.size \in Nat /\ k \in 0 .. inode.size - 1 /\ k \in Nat
      /\ Image[FileUnit(inode, k)].inode \in Inodes
  BY DEF WellFormed
<1>2. BlocksOf(inode) <= DIRECT /\ BlocksOf(inode) \in Nat
  BY <1>1, DirPartsRead, OverBounds, Sizes DEF BlocksOf
<1>3. q \in Nat /\ q < DIRECT
  <2>1. k \in Nat /\ inode.size \in Nat /\ k < inode.size
    BY <1>1
  <2> HIDE DEF k
  <2>2. q \in Nat /\ q * BLOCK <= k
    BY <2>1, Sizes
  <2>3. q * BLOCK < inode.size
    BY <2>1, <2>2, Sizes
  <2> HIDE DEF q
  <2>4. q < Over(inode.size, BLOCK)
    BY <2>1, <2>2, <2>3, OverBounds, Sizes
  <2>5. QED
    BY <2>2, <2>4, <1>2, Sizes DEF BlocksOf
<1>4. FileUnit(inode, k) = DirUnits(inode)[m]
  BY <1>1, <1>3 DEF FileUnit, FormatBlock, DirUnits, BlockUnits
<1>5. QED
  BY <1>1, <1>4

LEMMA OpenGoesOnIsGood ==
  ASSUME NEW st, NEW t \in Tasks, NEW c, Good(Now), GoodBut(st, t), OpenData(st, c),
         \A u \in Tasks \ {t} : call[u].op # "open",
         c.parts = <<>> => c.got = Wanted(c)
  PROVE  Good(OpenGoesOn(st, t, c))
<1> DEFINE first == Image[Head(c.got)]
           named == {i \in DOMAIN c.got : Image[c.got[i]].name = Head(c.path)}
           node  == InodeOf(c.dir)
<1>1. /\ Tables(st) /\ IsState(st) /\ st.call = call /\ FilesOK(st.files, st.fds)
      /\ DiskOK(st.disk) /\ DOMAIN st.files = Slots
      /\ OpenCall(c) /\ c.dir \in Inodes /\ WellFormed(node) /\ node.dir \in BOOLEAN
      /\ node.block \in [1 .. DIRECT + 2 -> Nat] /\ node.size \in Nat
      /\ node = Image[InodeAddress(c.dir)]
  BY InodesOfDisk DEF GoodBut, Tables, FilesOK, OpenData, OpenCall, WellFormed
<1>2. CASE c.parts # <<>>
  <2>1. CallData(st, t, c)
    BY <1>2 DEF CallData, OpenOK, OpenData, OpenCall
  <2>2. OpenGoesOn(st, t, c) = Ask(st, t, c)
    BY <1>2 DEF OpenGoesOn
  <2>3. QED
    BY <2>1, <2>2, AskIsGood
<1>3. \A a, n \in Nat : n # 0 => Head(Span(a, n)) = a /\ Span(a, n) # <<>>
  <2> SUFFICES ASSUME NEW a \in Nat, NEW n \in Nat, n # 0
               PROVE  Head(Span(a, n)) = a /\ Span(a, n) # <<>>
    OBVIOUS
  <2>1. Span(a, n) \in Seq(Nat) /\ Len(Span(a, n)) = n /\ Span(a, n)[1] = a + 1 - 1
    BY DEF Span
  <2> DEFINE w == Span(a, n)
  <2> HIDE DEF w
  <2>2. w \in Seq(Nat) /\ Len(w) = n => w # <<>> /\ Head(w) = w[1]
    OBVIOUS
  <2>3. QED
    BY <2>1, <2>2 DEF w
<1>4. CASE c.parts = <<>> /\ c.at = "super"
  <2> DEFINE r == [st EXCEPT !.disk.sb = first]
             d == Stage("groups", c, Parts(BGDT_START,
                        Over(first.blocks_count, first.blocks_per_group)))
  <2>1. c.got = Span(SUPERBLOCK_START, BLOCK)
    BY <1>4 DEF Wanted
  <2>2. first = SuperBlock
    BY <2>1, <1>3, Numbers, Sizes DEF SuperBlock
  <2>3. OpenGoesOn(st, t, c) = Ask(r, t, d)
    BY <1>4 DEF OpenGoesOn
  <2>4. /\ OpenCall(d) /\ d.at = "groups" /\ d.got = <<>> /\ d.list = c.list
        /\ d.parts = Parts(BGDT_START, GroupCount)
    BY <1>1, <2>2, StageIs DEF GroupCount
  <2>5. c.list = <<>>
    BY <1>4 DEF OpenData, Lists
  <2>6. /\ IsState(r) /\ r.disk = [st.disk EXCEPT !.sb = first] /\ r.hdd = st.hdd
        /\ r.files = st.files /\ r.fds = st.fds /\ r.call = st.call
    BY <1>1 DEF IsState
  <2> HIDE DEF r, d, first
  <2>7. DiskOK(r.disk) /\ r.disk.sb = SuperBlock /\ r.disk.loaded = st.disk.loaded
    BY <1>1, <2>2, <2>6 DEF DiskOK
  <2>8. GoodBut(r, t)
    <3>1. Tables(r) /\ r.call = call
      BY <1>1, <2>6, <2>7 DEF Tables
    <3>2. ASSUME NEW u \in Tasks \ {t} PROVE CallOK(r, u)
      BY <1>1, <2>6, <2>7, MoreCall DEF GoodBut
    <3>3. QED
      BY <3>1, <3>2, <2>6 DEF GoodBut, Apart
  <2>9. GroupCount \in Nat \ {0}
    <3>1. ROOT_DIR_INODE \in 1 .. GroupCount * SuperBlock.inodes_per_group
      BY Numbers DEF Inodes
    <3>2. \A p \in Nat \ {0} : 0 * p = 0
      OBVIOUS
    <3>3. QED
      BY <3>1, <3>2, Numbers, ImageAssumption
  <2>10. Wanted(d) = Span(BGDT_START, GroupCount)
    BY <2>4 DEF Wanted
  <2>11. Lists(d)
    BY <2>4, <2>5 DEF Lists
  <2>12. Good(Ask(r, t, d))
    BY <2>4, <2>7, <2>8, <2>9, <2>10, <2>11, Numbers, PartsRead, StageIsGood
       DEF AfterTables, WithSlot, WithInode
  <2>13. QED
    BY <2>3, <2>12
<1>5. CASE c.parts = <<>> /\ c.at = "groups"
  <2> DEFINE bgdt == [i \in DOMAIN c.got |-> Image[c.got[i]]]
             r    == [st EXCEPT !.disk.loaded = TRUE, !.disk.bgdt = bgdt]
  <2>1. c.got = Span(BGDT_START, GroupCount)
    BY <1>5 DEF Wanted
  <2>2. bgdt = Groups
    <3>1. DOMAIN c.got = 1 .. GroupCount /\ \A i \in 1 .. GroupCount : c.got[i] = BGDT_START + i - 1
      BY <2>1, Numbers DEF Span
    <3>2. QED
      BY <3>1 DEF Groups
  <2>3. OpenGoesOn(st, t, c) = Walk(r, t, c)
    BY <1>5 DEF OpenGoesOn
  <2>4. c.list = <<>> /\ st.disk.sb = SuperBlock
    BY <1>5 DEF OpenData, Lists
  <2> HIDE DEF bgdt
  <2>5. /\ IsState(r) /\ r.hdd = st.hdd /\ r.files = st.files /\ r.fds = st.fds
        /\ r.call = st.call /\ DOMAIN r.disk = {"loaded", "sb", "bgdt"}
        /\ r.disk.loaded = TRUE /\ r.disk.sb = st.disk.sb /\ r.disk.bgdt = bgdt
    BY <1>1 DEF IsState, DiskOK
  <2> HIDE DEF r
  <2>6. DiskOK(r.disk)
    BY <2>2, <2>4, <2>5 DEF DiskOK
  <2>7. GoodBut(r, t)
    <3>1. Tables(r) /\ r.call = call
      BY <1>1, <2>5, <2>6 DEF Tables
    <3>2. ASSUME NEW u \in Tasks \ {t} PROVE CallOK(r, u)
      BY <1>1, <2>5, MoreCall DEF GoodBut
    <3>3. QED
      BY <3>1, <3>2, <2>5 DEF GoodBut, Apart
  <2>8. QED
    BY <1>1, <2>3, <2>4, <2>5, <2>7, WalkIsGood
<1>6. CASE c.parts = <<>> /\ c.at = "dirinode"
  <2>1. c.got = Span(InodeAddress(c.dir), 1) /\ st.disk.loaded /\ c.list = <<>>
    BY <1>6 DEF Wanted, OpenData, AfterTables, Lists
  <2>2. first = node
    BY <1>1, <2>1, <1>3, InodesOfDisk
  <2>3. CASE ~ first.dir \/ first.size > PAGE
    <3>1. OpenGoesOn(st, t, c) = Halt
      BY <1>6, <2>3 DEF OpenGoesOn
    <3>2. QED
      BY <3>1, HaltIsGood
  <2>4. CASE ~ (~ first.dir \/ first.size > PAGE)
    <3> DEFINE d == Stage("dir", c, DirParts(first))
    <3>1. OpenGoesOn(st, t, c) = Ask(st, t, d)
      BY <1>6, <2>4 DEF OpenGoesOn
    <3>2. /\ OpenCall(d) /\ d.at = "dir" /\ d.got = <<>> /\ d.list = c.list /\ d.dir = c.dir
          /\ d.parts = DirParts(node)
      BY <1>1, <2>2, StageIs
    <3> HIDE DEF d
    <3>3. Wanted(d) = DirUnits(node)
      BY <3>2 DEF Wanted
    <3>4. Lists(d)
      BY <2>1, <3>2 DEF Lists
    <3>5. node.dir
      BY <2>2, <2>4
    <3>6. Good(Ask(st, t, d))
      BY <1>1, <2>1, <3>2, <3>3, <3>4, <3>5, DirPartsRead, StageIsGood
         DEF AfterTables, WithSlot, WithInode
    <3>7. QED
      BY <3>1, <3>6
  <2>5. QED
    BY <2>3, <2>4
<1>7. CASE c.parts = <<>> /\ c.at = "dir"
  <2>1. c.got = DirUnits(node) /\ st.disk.loaded /\ c.list = <<>> /\ node.dir
    BY <1>7 DEF Wanted, OpenData, AfterTables, Lists
  <2>2. CASE named = {}
    <3>1. OpenGoesOn(st, t, c) = Return(st, t)
      BY <1>7, <2>2 DEF OpenGoesOn
    <3>2. QED
      BY <3>1, ReturnIsGood
  <2>3. CASE named # {}
    <3> DEFINE m == Min(named)
               d == [c EXCEPT !.dir = Image[c.got[m]].inode, !.path = Tail(@)]
    <3>1. OpenGoesOn(st, t, c) = Walk(st, t, d)
      BY <1>7, <2>3 DEF OpenGoesOn
    <3>2. m \in 1 .. node.size
      <4>1. DOMAIN c.got = 1 .. node.size
        BY <1>1, <2>1, DirPartsRead
      <4>2. named \in SUBSET Nat
        BY <4>1
      <4> HIDE DEF named
      <4>3. m \in named
        BY <4>2, <2>3, LeastIsMember
      <4>4. QED
        BY <4>1, <4>3 DEF named
    <3> HIDE DEF m
    <3>3. Image[c.got[m]].inode \in Inodes
      BY <1>1, <2>1, <3>2, NamedInode
    <3>4. OpenCall(d) /\ d.list = <<>>
      BY <1>1, <2>1, <3>3 DEF OpenCall
    <3> HIDE DEF d
    <3>5. QED
      BY <2>1, <3>1, <3>4, WalkIsGood
  <2>4. QED
    BY <2>2, <2>3
<1>8. ASSUME c.at \in WithSlot
      PROVE  /\ st.disk.loaded /\ c.slot \in Slots /\ st.files[c.slot] = Reserved
             /\ \A v \in Tasks : c.slot \notin st.fds[v]
  BY <1>8 DEF OpenData, WithSlot, AfterTables
<1>9. CASE c.parts = <<>> /\ c.at = "inode"
  <2>1. c.got = Span(InodeAddress(c.dir), 1) /\ c.list = <<>>
    BY <1>9 DEF Wanted, OpenData, Lists
  <2>2. first = node
    BY <1>1, <2>1, <1>3, InodesOfDisk
  <2>3. CASE BlocksOf(first) > LastBlocks
    <3>1. OpenGoesOn(st, t, c) = Halt
      BY <1>9, <2>3 DEF OpenGoesOn
    <3>2. QED
      BY <3>1, HaltIsGood
  <2>4. CASE ~ BlocksOf(first) > LastBlocks
    <3> DEFINE d == [c EXCEPT !.inode = first]
    <3>1. OpenGoesOn(st, t, c) = NextList(st, t, d)
      BY <1>9, <2>4 DEF OpenGoesOn
    <3>2. OpenCall(d) /\ d.at = "inode" /\ d.list = <<>> /\ d.inode = node /\ d.dir = c.dir
          /\ d.slot = c.slot
      BY <1>1, <1>9, <2>1, <2>2 DEF OpenCall
    <3> HIDE DEF d
    <3>3. Filling(st, t, d)
      <4>1. BlocksOf(node) <= LastBlocks
        <5>1. BlocksOf(node) \in Nat
          BY <1>1, OverBounds, Sizes DEF BlocksOf
        <5>2. LastBlocks \in Nat
          BY Sizes DEF LastBlocks, GROUPS_PER_BLOCK
        <5>3. QED
          BY <5>1, <5>2, <2>2, <2>4
      <4>2. QED
        BY <4>1, <1>8, <1>9, <3>2 DEF Filling, WithSlot
    <3>4. QED
      BY <3>1, <3>2, <3>3, NextListIsGood
  <2>5. QED
    BY <2>3, <2>4
<1>10. ASSUME c.at \in WithInode
       PROVE  /\ c.inode = node /\ BlocksOf(c.inode) <= LastBlocks
              /\ c.at \in WithSlot
  BY <1>10 DEF OpenData, WithSlot, WithInode
<1>11. CASE c.parts = <<>> /\ c.at = "double"
  <2> DEFINE d == [c EXCEPT !.double = c.got]
  <2>1. OpenGoesOn(st, t, c) = NextList(st, t, d)
    BY <1>11 DEF OpenGoesOn
  <2>2. c.got = Span(c.inode.block[DIRECT + 2] * BLOCK, BLOCK)
    BY <1>11 DEF Wanted
  <2>3. /\ OpenCall(d) /\ d.at = "double" /\ d.list = c.list /\ d.inode = c.inode
        /\ d.dir = c.dir /\ d.slot = c.slot /\ d.double = c.got
    BY <1>1, <1>11 DEF OpenCall
  <2> HIDE DEF d
  <2>4. Filling(st, t, d)
    BY <1>8, <1>10, <1>11, <2>3 DEF Filling, WithInode
  <2>5. ListOK(d.inode, d.list, 1) /\ BlocksOf(d.inode) > DIRECT
    <3>1. ListOK(c.inode, c.list, 1) /\ BlocksOf(c.inode) > DIRECT + BLOCK
      BY <1>11 DEF OpenData, Lists
    <3>2. BlocksOf(c.inode) \in Nat
      BY <1>1, <1>10, <1>11, OverBounds, Sizes DEF BlocksOf, WithInode
    <3>3. QED
      BY <3>1, <3>2, <2>3, Sizes
  <2>6. QED
    BY <2>1, <2>2, <2>3, <2>4, <2>5, NextListIsGood
<1> DEFINE e == [c EXCEPT !.list = @ \o c.got]
<1>12. /\ OpenCall(e) /\ e.at = c.at /\ e.list = c.list \o c.got /\ e.inode = c.inode
       /\ e.dir = c.dir /\ e.slot = c.slot /\ e.double = c.double
  BY <1>1 DEF OpenCall
<1>13. c.parts = <<>> /\ c.at \in {"single", "loads"} => OpenGoesOn(st, t, c) = NextList(st, t, e)
  BY DEF OpenGoesOn
<1> HIDE DEF e
<1>14. CASE c.parts = <<>> /\ c.at = "single"
  <2>1. c.got = Span(c.inode.block[DIRECT + 1] * BLOCK, BLOCK) /\ c.list = <<>> /\ c.got \in Seq(Nat)
        /\ BlocksOf(c.inode) > DIRECT
    BY <1>14 DEF Wanted, OpenData, Lists
  <2>2. e.list = c.got
    BY <2>1, <1>12
  <2>3. ListOK(e.inode, e.list, 1) /\ BlocksOf(e.inode) > DIRECT
    BY <2>1, <2>2, <1>1, <1>10, <1>12, <1>14, FirstList DEF WithInode
  <2>4. Filling(st, t, e)
    BY <1>8, <1>10, <1>12, <1>14 DEF Filling, WithInode
  <2>5. QED
    BY <1>12, <1>13, <1>14, <2>3, <2>4, NextListIsGood
<1>15. CASE c.parts = <<>> /\ c.at = "loads"
  <2>1. PICK r \in Nat \ {0} : ListOK(c.inode, c.list, r) /\ BlocksOf(c.inode) > DIRECT + r * BLOCK
    BY <1>15 DEF OpenData, Lists
  <2>2. c.double = Span(c.inode.block[DIRECT + 2] * BLOCK, BLOCK)
    BY <1>15 DEF OpenData, Lists
  <2>3. BlocksOf(c.inode) \in Nat /\ BlocksOf(c.inode) <= DIRECT + BLOCK + BLOCK * BLOCK
    <3>1. BlocksOf(c.inode) <= DIRECT + BLOCK + BLOCK * BLOCK
      BY <1>1, <1>10, <1>15 DEF WithInode, WellFormed
    <3>2. BlocksOf(c.inode) \in Nat
      BY <1>1, <1>10, <1>15, OverBounds, Sizes DEF BlocksOf, WithInode
    <3>3. QED
      BY <3>1, <3>2
  <2>4. r <= BLOCK
    <3>1. \A b, x \in Nat : x * b < b + b * b /\ b > 0 => x <= b
      OBVIOUS
    <3>2. r * BLOCK \in Nat /\ BLOCK * BLOCK \in Nat
      BY Sizes
    <3>3. r * BLOCK < BLOCK + BLOCK * BLOCK
      BY <3>2, <2>1, <2>3, Sizes
    <3>4. QED
      BY <3>1, <3>3, Sizes
  <2>5. c.got = Span(BlockNumber(c.double[r]) * BLOCK, BLOCK)
    <3>1. Len(c.list) \div BLOCK = r
      BY <1>1, <1>10, <1>15, <2>1, <2>2, <2>4, NextListRead DEF WithInode
    <3>2. QED
      BY <3>1, <1>15 DEF Wanted
  <2>6. ListOK(e.inode, e.list, r + 1)
    BY <1>1, <1>10, <1>12, <1>15, <2>1, <2>2, <2>4, <2>5, NextListRead DEF WithInode
  <2>7. BlocksOf(e.inode) > DIRECT
    <3>1. r * BLOCK \in Nat
      BY Sizes
    <3>2. BlocksOf(e.inode) = BlocksOf(c.inode)
      BY <1>12
    <3>3. \A n, d, x \in Nat : n > d + x => n > d
      OBVIOUS
    <3>4. BlocksOf(c.inode) > DIRECT
      BY <3>1, <3>3, <2>1, <2>3, Sizes
    <3>5. QED
      BY <3>2, <3>4
  <2>8. Filling(st, t, e)
    BY <1>8, <1>10, <1>12, <1>15 DEF Filling, WithInode
  <2>9. r + 1 \in Nat \ {0}
    OBVIOUS
  <2>10. QED
    BY <1>12, <1>13, <1>15, <2>2, <2>6, <2>7, <2>8, <2>9, NextListIsGood
<1>16. CASE c.parts = <<>> /\ c.at = "list"
  <2> DEFINE size == Len(c.got) + 1
             page == [i \in 1 .. PAGE |-> IF i <= Len(c.got) THEN c.got[i] ELSE 0]
  <2>1. OpenGoesOn(st, t, c) = Opened(st, t, c, size, page)
    BY <1>16 DEF OpenGoesOn
  <2>2. c.got \in Seq(Nat) /\ c.list = <<>>
    BY <1>16 DEF OpenData, Lists
  <2>3. size \in Nat /\ page \in [1 .. PAGE -> Nat]
    BY <2>2, Sizes
  <2>4. c.inode \in {InodeOf(id) : id \in Inodes} /\ c.list \in Seq(Nat)
    BY <1>1, <1>10, <1>16, <2>2 DEF WithInode
  <2> HIDE DEF size, page
  <2>5. c.at \in WithSlot /\ c.inode.dir
    BY <1>16 DEF WithSlot, OpenData
  <2>6. /\ c.slot \in Slots /\ st.files[c.slot] = Reserved
        /\ \A v \in Tasks : c.slot \notin st.fds[v]
    BY <1>8, <2>5
  <2>7. Good(Opened(st, t, c, size, page))
    BY <2>3, <2>4, <2>5, <2>6, OpenedIsGood
  <2>8. QED
    BY <2>1, <2>7
<1>17. c.at \in {"super", "groups"} \cup AfterTables
  BY DEF OpenData
<1>18. QED
  BY <1>2, <1>4, <1>5, <1>6, <1>7, <1>9, <1>11, <1>14, <1>15, <1>16, <1>17 DEF AfterTables

-----------------------------------------------------------------------------
(* A process that was woken takes its sector: its own, if nothing          *)
(* overtook it.                                                            *)
LEMMA TakenIsGood ==
  ASSUME Good(Now), NEW t \in Tasks, Woken(t), NEW st, st = [Now EXCEPT !.hdd = Taken(@)]
  PROVE  /\ GoodBut(st, t) /\ st.files = files /\ st.fds = fds /\ st.disk = disk
         /\ CallData(Now, t, call[t]) => /\ CallData(st, t, call[t])
                                         /\ Head(call[t].parts) \in Part
         /\ CallData(Now, t, call[t]) /\ Undisturbed(Now, call[t]) =>
              st.hdd.buffer = Head(call[t].parts).sector
         /\ st.hdd.buffer \in Nat
<1>1. /\ Tables(Now) /\ HddOK(hdd) /\ \A u \in Tasks : CallOK(Now, u)
      /\ \A u, v \in Tasks : u # v => Apart(Now, call[u], call[v])
  BY DEF Good, Tables, Now
<1>2. /\ IsState(st) /\ st.hdd = Taken(hdd) /\ st.disk = disk /\ st.files = files
      /\ st.fds = fds /\ st.call = call
  BY DEF Now, IsState
<1>3. HddOK(Taken(hdd)) /\ Taken(hdd).buffer \in Nat
  <2>1. CASE hdd.command = NO_SECTOR /\ hdd.ready # NO_SECTOR
    <3>1. hdd.ready \in Nat
      BY <1>1, <2>1 DEF HddOK, Sectors
    <3>2. QED
      BY <3>1, <1>1, <2>1 DEF Taken, HddOK, Sectors
  <2>2. CASE ~ (hdd.command = NO_SECTOR /\ hdd.ready # NO_SECTOR)
    BY <1>1, <2>2 DEF Taken, HddOK
  <2>3. QED
    BY <2>1, <2>2
<1>4. Tables(st)
  BY <1>1, <1>2, <1>3 DEF Tables, Now
<1>5. ASSUME NEW u \in Tasks, CallData(Now, u, call[u])
      PROVE  CallData(st, u, call[u]) /\ Head(call[u].parts) \in Part
  <2>1. CallData(st, u, call[u])
    BY <1>2, <1>5 DEF CallData, OpenOK, OpenData, OpenCall, ReadOK, ReadData, SeekOK, Now
  <2>2. call[u].parts \in Seq(Part) /\ call[u].parts # <<>>
    BY <1>5 DEF CallData, OpenOK, OpenData, ReadOK, ReadData, SeekOK
  <2>3. QED
    BY <2>1, <2>2
<1>6. ASSUME NEW u \in Tasks, CallData(Now, u, call[u]), Sync(hdd, u, call[u])
      PROVE  /\ Sync(Taken(hdd), u, call[u])
             /\ hdd.command = NO_SECTOR => Taken(hdd).buffer = Head(call[u].parts).sector
  <2>1. Head(call[u].parts).sector \in Nat
    BY <1>5, <1>6 DEF Part
  <2>2. Head(call[u].parts).sector # NO_SECTOR
    BY <2>1 DEF NO_SECTOR
  <2>3. QED
    BY <1>1, <1>6, <2>2 DEF Sync, Taken, HddOK
<1>7. ASSUME NEW u \in Tasks \ {t} PROVE CallOK(st, u)
  <2>1. CallOK(Now, u) /\ Now.call[u] = call[u] /\ st.call[u] = call[u]
    BY <1>1, <1>2 DEF Now
  <2>2. Undisturbed(st, call[u]) <=> Undisturbed(Now, call[u])
    BY <1>2 DEF Undisturbed, Now
  <2>3. Now.hdd = hdd
    BY DEF Now
  <2>4. QED
    BY <2>1, <2>2, <2>3, <1>2, <1>5, <1>6 DEF CallOK
<1>8. GoodBut(st, t)
  BY <1>1, <1>2, <1>4, <1>7 DEF GoodBut, Apart, Now
<1>9. ASSUME CallData(Now, t, call[t]), Undisturbed(Now, call[t])
      PROVE  st.hdd.buffer = Head(call[t].parts).sector
  <2>1. call[t].op \notin {NONE, "unborn", "lost"}
    BY <1>9 DEF CallData, NONE
  <2>2. Sync(hdd, t, call[t])
    BY <2>1, <1>1, <1>9 DEF CallOK, Now
  <2>3. hdd.command = NO_SECTOR
    <3>1. ~ Contains(hdd.read_queue, t)
      BY DEF Woken
    <3>2. hdd.read_queue # <<t>>
      <4>1. Contains(<<t>>, t)
        BY DEF Contains
      <4>2. QED
        BY <3>1, <4>1
    <3>3. QED
      BY <2>2, <3>2 DEF Sync
  <2>4. QED
    BY <2>2, <2>3, <1>2, <1>6, <1>9
<1>10. QED
  BY <1>2, <1>3, <1>5, <1>8, <1>9

(* The units that a woken process copies out of hdd_enhanced_buffer.       *)
LEMMA WantedUnits ==
  ASSUME NEW part \in Part, NEW buffer \in Nat
  PROVE  LET units == [i \in DOMAIN part.units |-> buffer * SECTOR + part.units[i]] IN
         /\ units \in Seq(Nat) /\ Len(units) = Len(part.units)
         /\ \A i \in 1 .. Len(part.units) : units[i] = buffer * SECTOR + part.units[i]
<1> DEFINE wants == part.units
           b     == buffer * SECTOR
           units == [i \in DOMAIN wants |-> b + wants[i]]
<1>1. wants \in Seq(Nat)
  BY DEF Part
<1>2. b \in Nat
  BY Sizes
<1> HIDE DEF wants, b
<1>3. /\ units \in Seq(Nat) /\ Len(units) = Len(wants)
      /\ \A i \in 1 .. Len(wants) : units[i] = b + wants[i]
  BY <1>1, <1>2
<1>4. QED
  BY <1>3 DEF wants, b

LEMMA SectorReadIsGood ==
  ASSUME Good(Now), NEW t \in Tasks, SectorRead(t)
  PROVE  Good(Now)'
<1> DEFINE st    == [Now EXCEPT !.hdd = Taken(@)]
           o     == call[t]
           wants == Head(o.parts).units
           units == [i \in DOMAIN wants |-> st.hdd.buffer * SECTOR + wants[i]]
           c     == [o EXCEPT !.parts = Tail(@)]
           d     == [c EXCEPT !.got = @ \o units]
<1>1. /\ Woken(t) /\ o.op \in {"open", "lost", "read", "seek"}
      /\ Become(CASE o.op = "lost" -> Halt
                  [] o.op = "open" -> OpenGoesOn(st, t, d)
                  [] OTHER         -> PageGoesOn(st, t, c, units))
  BY DEF SectorRead, Woken, InCall
<1>2. /\ GoodBut(st, t) /\ st.files = files /\ st.fds = fds /\ st.disk = disk
      /\ CallData(Now, t, o) => CallData(st, t, o) /\ Head(o.parts) \in Part
      /\ CallData(Now, t, o) /\ Undisturbed(Now, o) => st.hdd.buffer = Head(o.parts).sector
      /\ st.hdd.buffer \in Nat
  BY <1>1, TakenIsGood
<1> HIDE DEF st
<1>3. /\ CallOK(Now, t) /\ Now.call = call
      /\ \A u \in Tasks \ {t} : Apart(Now, o, call[u])
  BY DEF Good, Now
<1>4. o.op # "lost" => CallData(Now, t, o)
  BY <1>1, <1>3 DEF CallOK, NONE
<1>5. ASSUME CallData(Now, t, o)
      PROVE  /\ units \in Seq(Nat) /\ Len(units) = Len(wants)
             /\ \A i \in 1 .. Len(wants) : units[i] = st.hdd.buffer * SECTOR + wants[i]
  BY <1>2, <1>5, WantedUnits
<1> HIDE DEF units, o
<1>6. CASE o.op = "lost"
  BY <1>1, <1>6, HaltIsGood, BecomeIsGood
<1>7. CASE o.op = "open"
  <2>1. Become(OpenGoesOn(st, t, d))
    BY <1>1, <1>7
  <2>2. OpenData(st, o) /\ o.parts # <<>>
    BY <1>2, <1>4, <1>7 DEF CallData, OpenOK, ReadOK, ReadData, SeekOK
  <2>3. /\ OpenCall(d) /\ d.at = o.at /\ d.dir = o.dir /\ d.slot = o.slot /\ d.list = o.list
        /\ d.inode = o.inode /\ d.double = o.double
        /\ d.parts = Tail(o.parts) /\ d.got = o.got \o units
    BY <2>2 DEF OpenData, OpenCall
  <2> HIDE DEF d
  <2>4. Wanted(d) = Wanted(o)
    BY <2>3 DEF Wanted
  <2> DEFINE W == Wanted(o)
             h == Head(o.parts)
  <2>5. /\ o.parts \in Seq(Part) /\ W \in Seq(Nat) /\ Reads(o.parts, W, Len(o.got))
        /\ o.got \in Seq(Nat) /\ \A i \in 1 .. Len(o.got) : o.got[i] = W[i]
    BY <2>2 DEF OpenData
  <2> HIDE DEF W
  <2>6. /\ Tail(o.parts) \in Seq(Part) /\ Len(o.got) + Len(h.units) <= Len(W)
        /\ Reads(Tail(o.parts), W, Len(o.got) + Len(h.units))
        /\ \A i \in 1 .. Len(h.units) : h.sector * SECTOR + h.units[i] = W[Len(o.got) + i]
        /\ Tail(o.parts) = <<>> => Len(o.got) + Len(h.units) = Len(W)
    <3> DEFINE p == o.parts
               n == Len(o.got)
    <3>1. p \in Seq(Part) /\ p # <<>> /\ W \in Seq(Nat) /\ Reads(p, W, n)
      BY <2>2, <2>5
    <3>2. h = Head(p)
      OBVIOUS
    <3> HIDE DEF p, h, n
    <3>3. /\ Tail(p) \in Seq(Part) /\ n + Len(h.units) <= Len(W)
          /\ Reads(Tail(p), W, n + Len(h.units))
          /\ \A i \in 1 .. Len(h.units) : h.sector * SECTOR + h.units[i] = W[n + i]
          /\ Tail(p) = <<>> => n + Len(h.units) = Len(W)
      BY <3>1, <3>2, ReadsTail
    <3>4. QED
      BY <3>3 DEF p, n
  <2>7. st.hdd.buffer = h.sector
    BY <1>2, <1>4, <1>7 DEF Undisturbed
  <2>8. /\ units \in Seq(Nat) /\ Len(units) = Len(h.units)
        /\ \A i \in 1 .. Len(h.units) : units[i] = W[Len(o.got) + i]
    BY <1>4, <1>5, <1>7, <2>6, <2>7
  <2> HIDE DEF h
  <2>9. /\ d.got \in Seq(Nat) /\ Len(d.got) = Len(o.got) + Len(h.units)
        /\ \A i \in 1 .. Len(d.got) : d.got[i] = W[i]
    <3>1. /\ d.got \in Seq(Nat) /\ Len(d.got) = Len(o.got) + Len(units)
          /\ \A i \in 1 .. Len(o.got) : d.got[i] = o.got[i]
          /\ \A i \in 1 .. Len(units) : d.got[Len(o.got) + i] = units[i]
      <4>1. o.got \in Seq(Nat) /\ units \in Seq(Nat)
        BY <2>5, <2>8
      <4>2. /\ o.got \o units \in Seq(Nat) /\ Len(o.got \o units) = Len(o.got) + Len(units)
            /\ \A i \in 1 .. Len(o.got) : (o.got \o units)[i] = o.got[i]
            /\ \A i \in 1 .. Len(units) : (o.got \o units)[Len(o.got) + i] = units[i]
        BY <4>1, Joined
      <4>3. QED
        BY <4>2, <2>3
    <3>2. Len(o.got) \in Nat /\ Len(units) \in Nat
      BY <2>5, <2>8
    <3>3. ASSUME NEW i \in 1 .. Len(d.got) PROVE d.got[i] = W[i]
      <4>1. CASE i <= Len(o.got)
        <5>1. i \in 1 .. Len(o.got)
          BY <3>1, <3>2, <4>1
        <5>2. d.got[i] = o.got[i]
          BY <3>1, <5>1
        <5>3. QED
          BY <5>1, <5>2, <2>5
      <4>2. CASE ~ i <= Len(o.got)
        <5> DEFINE j == i - Len(o.got)
        <5>1. j \in 1 .. Len(units) /\ i = Len(o.got) + j
          BY <3>1, <3>2, <4>2
        <5> HIDE DEF j
        <5>2. d.got[Len(o.got) + j] = units[j]
          BY <5>1, <3>1
        <5>3. units[j] = W[Len(o.got) + j]
          BY <5>1, <2>8
        <5>4. QED
          BY <5>1, <5>2, <5>3
      <4>3. QED
        BY <4>1, <4>2
    <3>4. QED
      BY <3>1, <3>3, <2>8
  <2>10. OpenData(st, d)
    <3>1. Lists(d)
      BY <2>2, <2>3 DEF OpenData, Lists
    <3>2. Reads(d.parts, Wanted(d), Len(d.got))
      BY <2>3, <2>4, <2>6, <2>9 DEF W
    <3>3. QED
      BY <3>1, <3>2, <2>2, <2>3, <2>4, <2>5, <2>6, <2>9 DEF OpenData, W
  <2>11. d.parts = <<>> => d.got = Wanted(d)
    <3>1. \A a, b \in Seq(Nat) : Len(a) = Len(b) /\ (\A i \in 1 .. Len(a) : a[i] = b[i]) => a = b
      OBVIOUS
    <3>2. d.parts = <<>> => Len(d.got) = Len(W)
      BY <2>3, <2>6, <2>9
    <3>3. d.parts = <<>> => d.got = W
      BY <3>1, <3>2, <2>5, <2>9
    <3>4. QED
      BY <3>3, <2>4 DEF W
  <2>12. \A u \in Tasks \ {t} : call[u].op # "open"
    BY <1>3, <1>7 DEF Apart
  <2>13. QED
    BY <1>2, <2>1, <2>10, <2>11, <2>12, OpenGoesOnIsGood, BecomeIsGood
<1>8. CASE o.op \in {"read", "seek"}
  <2>1. Become(PageGoesOn(st, t, c, units))
    BY <1>1, <1>8
  <2>2. Meets(st, t, o.slot)
    BY <1>2, <1>3, <1>8 DEF Meets, OthersIn, Apart, Now
  <2>3. o.parts \in Seq(Part) /\ o.parts # <<>>
    BY <1>4, <1>8 DEF CallData, OpenOK, OpenData, ReadOK, ReadData, SeekOK
  <2>4. Tail(o.parts) \in Seq(Part)
    BY <2>3
  <2>5. \/ ReadData(st, t, c)
        \/ c \in [op : {"seek"}, slot : st.fds[t], done : Nat, parts : Seq(Part)]
    <3>1. CASE o.op = "read"
      <4>1. ReadData(st, t, o)
        BY <1>2, <1>4, <3>1 DEF CallData, OpenOK, OpenData, OpenCall, ReadOK, SeekOK
      <4>2. c.slot = o.slot /\ c.at = o.at /\ c.left = o.left
        BY <4>1 DEF ReadData
      <4>3. QED
        BY <2>4, <4>1, <4>2 DEF ReadData
    <3>2. CASE o.op = "seek"
      <4>1. o \in [op : {"seek"}, slot : st.fds[t], done : Nat, parts : Seq(Part)]
        BY <1>2, <1>4, <3>2 DEF CallData, OpenOK, OpenData, OpenCall, ReadOK, ReadData, SeekOK
      <4>2. QED
        BY <2>4, <4>1
    <3>3. QED
      BY <3>1, <3>2, <1>8
  <2>6. c.slot = o.slot
    BY <1>4, <1>8 DEF CallData, OpenOK, OpenData, OpenCall, ReadOK, ReadData, SeekOK
  <2> HIDE DEF c
  <2>7. units \in Seq(Nat)
    BY <1>4, <1>5, <1>8
  <2>8. QED
    BY <1>2, <2>1, <2>2, <2>5, <2>6, <2>7, PageGoesOnIsGood, BecomeIsGood
<1>9. QED
  BY <1>1, <1>6, <1>7, <1>8 DEF o

LEMMA OpenIsGood ==
  ASSUME Good(Now), NEW t \in Tasks, NEW path \in Paths, NEW flags \in {"rd", "wr"},
         ext2_open(t, path, flags)
  PROVE  Good(Now)'
<1> DEFINE c == [op |-> "open", at |-> "super", path |-> path, flags |-> flags,
                 dir |-> ROOT_DIR_INODE, slot |-> -1, got |-> <<>>, list |-> <<>>,
                 inode |-> Nothing, double |-> <<>>,
                 parts |-> Parts(SUPERBLOCK_START, BLOCK)]
<1>1. Become(IF disk.loaded THEN Walk(Now, t, c) ELSE Ask(Now, t, c))
  BY DEF ext2_open
<1>2. /\ OpenCall(c) /\ c.at = "super" /\ c.list = <<>> /\ c.got = <<>>
      /\ c.parts = Parts(SUPERBLOCK_START, BLOCK)
  BY Numbers DEF OpenCall
<1> HIDE DEF c
<1>3. GoodBut(Now, t) /\ Now.disk = disk
  BY NowIsGoodBut DEF Now
<1>4. CASE disk.loaded
  BY <1>1, <1>2, <1>3, <1>4, WalkIsGood, BecomeIsGood
<1>5. CASE ~ disk.loaded
  <2>1. Wanted(c) = Span(SUPERBLOCK_START, BLOCK) /\ Lists(c)
    BY <1>2 DEF Wanted, Lists
  <2>2. Good(Ask(Now, t, c))
    <3>1. /\ c.parts \in Seq(Part) /\ c.parts # <<>> /\ Wanted(c) \in Seq(Nat)
          /\ Reads(c.parts, Wanted(c), 0)
      <4>1. SUPERBLOCK_START \in Nat /\ BLOCK \in Nat \ {0}
        BY Numbers, Sizes
      <4>2. QED
        BY <4>1, <1>2, <2>1, PartsRead
    <3>2. c.at = "super" /\ c.at \notin AfterTables \cup WithSlot \cup WithInode
      BY <1>2 DEF AfterTables, WithSlot, WithInode
    <3>3. QED
      BY <1>2, <1>3, <2>1, <3>1, <3>2, StageIsGood
  <2>3. QED
    BY <1>1, <1>5, <2>2, BecomeIsGood
<1>6. QED
  BY <1>4, <1>5

-----------------------------------------------------------------------------
LEMMA InitIsGood == ASSUME Init PROVE Good(Now)
<1>1. /\ IsState(Now) /\ Now.disk = disk /\ Now.hdd = hdd /\ Now.files = files
      /\ Now.fds = fds /\ Now.call = call
  BY DEF IsState, Now
<1>2. HddOK(hdd) /\ DiskOK(disk)
  <2>1. <<>> \in Seq(Tasks) /\ Len(<<>>) = 0
    OBVIOUS
  <2>2. QED
    BY <2>1 DEF Init, HddOK, DiskOK, Sectors
<1>3. FilesOK(files, fds) /\ DOMAIN call = Tasks
  BY DEF Init, FilesOK
<1>4. \A t \in Tasks : call[t].op \in {NONE, "unborn"}
  BY DEF Init, NoCall
<1>5. QED
  BY <1>1, <1>2, <1>3, <1>4 DEF Good, Tables, CallOK, Apart, NONE

(* Every step leads from a good state to a good state.                     *)
LEMMA NextIsGood == ASSUME Good(Now), [Next]_vars PROVE Good(Now)'
<1>1. CASE hdd_primary_handler
  BY <1>1, InterruptIsGood
<1>2. ASSUME NEW t \in Tasks, SectorRead(t) PROVE Good(Now)'
  BY <1>2, SectorReadIsGood
<1>3. ASSUME NEW t \in Tasks, NEW path \in Paths, NEW flags \in {"rd", "wr"},
             ext2_open(t, path, flags)
      PROVE  Good(Now)'
  BY <1>3, OpenIsGood
<1>4. ASSUME NEW t \in Tasks, NEW s \in Slots, NEW size \in SIZES, ext2_file_read(t, s, size)
      PROVE  Good(Now)'
  BY <1>4, ReadIsGood
<1>5. ASSUME NEW t \in Tasks, NEW s \in Slots, NEW position \in POSITIONS,
             ext2_file_seek(t, s, position)
      PROVE  Good(Now)'
  BY <1>5, SeekIsGood
<1>6. ASSUME NEW t \in Tasks, NEW s \in Slots, ext2_file_flush(t, s) PROVE Good(Now)'
  BY <1>6, FlushIsGood
<1>7. ASSUME NEW t \in Tasks, NEW child \in Tasks, Fork(t, child) PROVE Good(Now)'
  BY <1>7, ForkIsGood
<1>8. CASE UNCHANGED vars
  BY <1>8 DEF vars, Now, Good, Tables, IsState, CallOK, CallData, OpenOK, OpenData, OpenCall,
     ReadOK, ReadData, SeekOK, Apart, Undisturbed, Sync
<1>9. QED
  BY <1>1, <1>2, <1>3, <1>4, <1>5, <1>6, <1>7, <1>8 DEF Next

-----------------------------------------------------------------------------
(* What the pages hold.  A clean file has, between two calls, the page     *)
(* that stream_pos lies in, or ends; while a call loads a page, the units  *)
(* it has copied so far, and the call the sectors of the others.           *)
PageOK(f) ==
  ~ f.inode.dir =>
    \E p \in Nat :
      /\ f.stream_pos = p * PAGE + f.buf_pos
      /\ \A i \in 1 .. PAGE : p * PAGE + (i - 1) < f.file_size =>
                              f.buffer[i] = FileUnit(f.inode, p * PAGE + (i - 1))

Loading(f, c) ==
  /\ Reads(c.parts, PageUnits(f), c.done)
  /\ \A i \in 1 .. c.done : f.buffer[i] = PageUnits(f)[i]

(* got is what the read returned of the file so far, left what is missing. *)
Copied(f, c) ==
  ~ f.inode.dir => \A i \in 1 .. Len(c.got) : c.got[i] = FileUnit(f.inode, c.from + i - 1)

Progress(f, c) ==
  /\ c.at = "first" => c.got = <<>> /\ c.left = c.asked /\ c.from = f.stream_pos
  /\ c.at = "more" => /\ f.stream_pos = c.from + Len(c.got)
                      /\ Len(c.got) + c.left = Least(c.asked, f.file_size - c.from)
  /\ Copied(f, c)

On(c, s) == c.op \in {"read", "seek"} /\ c.slot = s

CallFits(f, c) == Loading(f, c) /\ (c.op = "read" => Progress(f, c))

Followed(f) == f \in OpenFile /\ f.clean

(* What file s must be when cl are the calls of the tasks T.               *)
PageFits(f, s, T, cl) ==
  Followed(f) =>
    /\ (\A u \in T : ~ On(cl[u], s)) /\ ~ f.buffer_empty => PageOK(f)
    /\ \A u \in T : On(cl[u], s) => CallFits(f, cl[u])

AnswerFits(st) ==
  st.answer.op = "read" =>
    LET f == st.files[st.answer.slot] IN
    /\ st.answer.got \in Seq(Nat)
    /\ Len(st.answer.got) = Least(st.answer.asked, f.file_size - st.answer.from)
    /\ Copied(f, st.answer)

Paged(st) ==
  /\ AnswerFits(st)
  /\ \A s \in Slots : PageFits(st.files[s], s, Tasks, st.call)

(* As far as a step of t got.                                              *)
PagedBut(st, t, S) ==
  /\ IsState(st) /\ st.call = call /\ DOMAIN call = Tasks /\ st.answer = NoAnswer
  /\ \A s \in S : PageFits(st.files[s], s, Tasks \ {t}, call)

LEMMA NotFollowed ==
  ASSUME NEW f PROVE ~ Followed(Spoiled(f))
<1> DEFINE g == Spoiled(f)
<1>1. SUFFICES ASSUME g \in OpenFile, g.clean PROVE FALSE
  BY DEF Followed
<1>2. "clean" \in DOMAIN g
  BY <1>1 DEF OpenFile
<1>3. g = [[f EXCEPT !.clean = FALSE] EXCEPT !.buffer = AnyPage]
  BY DEF Spoiled
<1>4. DOMAIN g = DOMAIN f
  BY <1>3
<1> HIDE DEF g
<1>5. g.clean = FALSE
  BY <1>2, <1>3, <1>4
<1>6. QED
  BY <1>1, <1>5

LEMMA HaltIsPaged == ASSUME Paged(Now) PROVE Paged(Halt)
<1>1. Halt.files = files /\ Halt.call = call /\ Halt.answer = NoAnswer
  BY DEF Halt, Now
<1>2. Now.files = files /\ Now.call = call
  BY DEF Now
<1>3. QED
  BY <1>1, <1>2 DEF Paged, AnswerFits, NoAnswer, NONE

LEMMA ReturnIsPaged ==
  ASSUME NEW st, NEW t \in Tasks, PagedBut(st, t, Slots)
  PROVE  Paged(Return(st, t)) /\ IsState(Return(st, t)) /\ Return(st, t).files = st.files
<1> DEFINE r == Return(st, t)
<1>1. /\ IsState(r) /\ r.files = st.files /\ r.answer = NoAnswer
      /\ r.call = [call EXCEPT ![t] = NoCall]
  BY DEF PagedBut, Return, IsState
<1> HIDE DEF r
<1>2. /\ ~ \E s : On(r.call[t], s) /\ \A u \in Tasks \ {t} : r.call[u] = call[u]
  BY <1>1 DEF PagedBut, On, NoCall, NONE
<1>3. ASSUME NEW s \in Slots PROVE PageFits(r.files[s], s, Tasks, r.call)
  <2>1. PageFits(st.files[s], s, Tasks \ {t}, call)
    BY DEF PagedBut
  <2>2. QED
    BY <2>1, <1>1, <1>2 DEF PageFits
<1>4. AnswerFits(r)
  BY <1>1 DEF AnswerFits, NoAnswer, NONE
<1>5. QED
  BY <1>1, <1>3, <1>4 DEF Paged, r

(* The files beside the one of the call.                                   *)
Others(c) == IF c.op = "open" THEN Slots ELSE Slots \ {c.slot}

LEMMA AskIsPaged ==
  ASSUME NEW st, NEW t \in Tasks, NEW c, Paged(Now), PagedBut(st, t, Others(c)),
         DOMAIN st.files = Slots,
         \/ c.op = "open"
         \/ /\ c.op \in {"read", "seek"} /\ c.slot \in Slots
            /\ Followed(st.files[c.slot]) /\ ~ OthersIn(c.slot, t) =>
                 CallFits(st.files[c.slot], c)
  PROVE  Paged(Ask(st, t, c))
<1> DEFINE r == Ask(st, t, c)
<1>1. CASE st.hdd.read_queue # <<>>
  <2> DEFINE f    == st.files[c.slot]
             left == Clipped(c, f)
             pos  == f.stream_pos + left
             bp   == IF left = 0 THEN pos % PAGE ELSE ((pos - 1) % PAGE) + 1
             g    == [Spoiled(f) EXCEPT !.stream_pos = pos, !.buf_pos = bp, !.buffer_empty = FALSE]
             mid  == [st EXCEPT !.files[c.slot] = g]
  <2>1. CASE c.op = "open" \/ left < 0
    BY <1>1, <2>1, HaltIsPaged DEF Ask, TurnedAway
  <2>2. CASE ~ (c.op = "open" \/ left < 0)
    <3>1. r = Return(mid, t)
      BY <1>1, <2>2 DEF Ask, TurnedAway
    <3> HIDE DEF left, pos, bp, r
    <3>2. ~ Followed(g)
      <4> DEFINE h == Spoiled(f)
      <4>1. SUFFICES ASSUME g \in OpenFile, g.clean PROVE FALSE
        BY DEF Followed
      <4>2. "clean" \in DOMAIN g /\ DOMAIN g = {"klass", "inode", "file_size", "block_list",
              "stream_pos", "buffer", "buf_pos", "buffer_empty", "clean"}
        BY <4>1 DEF OpenFile
      <4>3. DOMAIN g = DOMAIN f /\ DOMAIN h = DOMAIN f
        BY DEF Spoiled
      <4>4. h.clean = FALSE
        BY <4>2, <4>3 DEF Spoiled
      <4>5. g.clean = h.clean
        BY <4>2, <4>3
      <4>6. QED
        BY <4>1, <4>4, <4>5
    <3> HIDE DEF g
    <3>3. /\ IsState(mid) /\ mid.call = st.call /\ mid.answer = st.answer
          /\ mid.files[c.slot] = g /\ \A s \in Slots \ {c.slot} : mid.files[s] = st.files[s]
      BY <2>2 DEF PagedBut, IsState
    <3> HIDE DEF mid
    <3>4. ASSUME NEW s \in Slots PROVE PageFits(mid.files[s], s, Tasks \ {t}, call)
      <4>1. CASE s = c.slot
        BY <4>1, <3>2, <3>3 DEF PageFits
      <4>2. CASE s # c.slot
        BY <4>2, <2>2, <3>3 DEF PagedBut, Others
      <4>3. QED
        BY <4>1, <4>2
    <3>5. PagedBut(mid, t, Slots)
      BY <3>3, <3>4 DEF PagedBut
    <3>6. QED
      BY <3>1, <3>5, ReturnIsPaged DEF r
  <2>3. QED
    BY <2>1, <2>2
<1>2. CASE st.hdd.read_queue = <<>>
  <2>1. /\ r.answer = NoAnswer
        /\ r.call = [u \in Tasks |-> IF u = t THEN c
                                      ELSE IF call[u].op = "open" THEN [op |-> "lost"]
                                      ELSE call[u]]
        /\ r.files = [s \in Slots |-> IF OthersIn(s, t) THEN Spoiled(st.files[s])
                                       ELSE st.files[s]]
    BY <1>2 DEF PagedBut, Ask, IsState
  <2> HIDE DEF r
  <2>2. ASSUME NEW s \in Slots PROVE PageFits(r.files[s], s, Tasks, r.call)
    <3>1. CASE OthersIn(s, t)
      <4>1. r.files[s] = Spoiled(st.files[s])
        BY <2>1, <3>1
      <4>2. QED
        BY <4>1, NotFollowed DEF PageFits
    <3>2. CASE ~ OthersIn(s, t)
      <4>1. r.files[s] = st.files[s]
        BY <2>1, <3>2
      <4>2. ASSUME NEW u \in Tasks \ {t} PROVE ~ On(r.call[u], s) /\ ~ On(call[u], s)
        <5>1. ~ On(call[u], s)
          BY <3>2 DEF OthersIn, On
        <5>2. r.call[u] = call[u] \/ r.call[u].op = "lost"
          BY <2>1
        <5>3. QED
          BY <5>1, <5>2 DEF On
      <4>3. r.call[t] = c
        BY <2>1
      <4>4. CASE On(c, s)
        <5>1. Followed(st.files[s]) => CallFits(st.files[s], c)
          BY <3>2, <4>4 DEF On
        <5>2. QED
          BY <5>1, <4>1, <4>2, <4>3, <4>4 DEF PageFits
      <4>5. CASE ~ On(c, s)
        <5>1. s \in Others(c)
          BY <4>5 DEF Others, On
        <5>2. PageFits(st.files[s], s, Tasks \ {t}, call)
          BY <5>1 DEF PagedBut
        <5>3. QED
          BY <5>2, <4>1, <4>2, <4>3, <4>5 DEF PageFits
      <4>6. QED
        BY <4>4, <4>5
    <3>3. QED
      BY <3>1, <3>2
  <2>3. AnswerFits(r)
    BY <2>1 DEF AnswerFits, NoAnswer, NONE
  <2>4. QED
    BY <2>2, <2>3 DEF Paged, r
<1>3. QED
  BY <1>1, <1>2

(* What a read takes of a page: as many units as it asks for, or up to the *)
(* end of the page.                                                        *)
LEMMA TakenOfPage ==
  ASSUME NEW f \in OpenFile, PageOK(f), NEW got \in Seq(Nat), NEW from \in Nat,
         f.stream_pos = from + Len(got), NEW n \in Nat, f.buf_pos + n <= PAGE,
         f.stream_pos + n <= f.file_size,
         ~ f.inode.dir => \A i \in 1 .. Len(got) : got[i] = FileUnit(f.inode, from + i - 1)
  PROVE  LET more == got \o SubSeq(f.buffer, f.buf_pos + 1, f.buf_pos + n) IN
         /\ more \in Seq(Nat) /\ Len(more) = Len(got) + n
         /\ ~ f.inode.dir => \A i \in 1 .. Len(more) : more[i] = FileUnit(f.inode, from + i - 1)
<1> DEFINE buf  == f.buffer
           b    == f.buf_pos
           cut  == SubSeq(buf, b + 1, b + n)
           more == got \o cut
           size == f.file_size
           pos  == f.stream_pos
           node == f.inode
<1>1. /\ buf \in [1 .. PAGE -> Nat] /\ b \in Nat /\ PAGE \in Nat /\ b + n <= PAGE
      /\ size \in Nat /\ pos \in Nat /\ pos = from + Len(got) /\ pos + n <= size
  BY Sizes DEF OpenFile
<1>2. ASSUME ~ node.dir
      PROVE  \E p \in Nat :
               /\ pos = p * PAGE + b
               /\ \A i \in 1 .. PAGE : p * PAGE + (i - 1) < size =>
                                       buf[i] = FileUnit(node, p * PAGE + (i - 1))
  BY <1>2 DEF PageOK
<1>3. ~ node.dir => \A i \in 1 .. Len(got) : got[i] = FileUnit(node, from + i - 1)
  OBVIOUS
<1> HIDE DEF buf, b, size, pos, node
<1>4. buf \in Seq(Nat) /\ Len(buf) = PAGE
  BY <1>1
<1>5. cut \in Seq(Nat) /\ Len(cut) = n /\ \A i \in 1 .. n : cut[i] = buf[b + i]
  BY <1>1, <1>4
<1> HIDE DEF cut
<1>6. /\ more \in Seq(Nat) /\ Len(more) = Len(got) + n
      /\ \A i \in 1 .. Len(got) : more[i] = got[i]
      /\ \A i \in 1 .. n : more[Len(got) + i] = cut[i]
  <2>1. /\ more \in Seq(Nat) /\ Len(more) = Len(got) + Len(cut)
        /\ \A i \in 1 .. Len(got) : more[i] = got[i]
        /\ \A i \in 1 .. Len(cut) : more[Len(got) + i] = cut[i]
    BY <1>5, Joined
  <2> HIDE DEF more
  <2>2. QED
    BY <2>1, <1>5
<1> HIDE DEF more
<1>7. ASSUME ~ node.dir, NEW i \in 1 .. Len(more)
      PROVE  more[i] = FileUnit(node, from + i - 1)
  <2>1. CASE i <= Len(got)
    <3>1. i \in 1 .. Len(got)
      BY <2>1
    <3>2. QED
      BY <3>1, <1>3, <1>6, <1>7
  <2>2. CASE Len(got) < i
    <3> DEFINE j == i - Len(got)
    <3>1. j \in 1 .. n /\ i = Len(got) + j
      BY <2>2, <1>6
    <3> HIDE DEF j
    <3>2. PICK p \in Nat :
               /\ pos = p * PAGE + b
               /\ \A k \in 1 .. PAGE : p * PAGE + (k - 1) < size =>
                                       buf[k] = FileUnit(node, p * PAGE + (k - 1))
      BY <1>2, <1>7
    <3> DEFINE m == p * PAGE
    <3>3. /\ pos = m + b
          /\ \A k \in 1 .. PAGE : m + (k - 1) < size => buf[k] = FileUnit(node, m + (k - 1))
      BY <3>2
    <3>4. m \in Nat
      BY <1>1
    <3> HIDE DEF m
    <3> DEFINE k == b + j
    <3>5. k \in 1 .. PAGE
      BY <1>1, <3>1
    <3>6. pos = m + b
      BY <3>3
    <3>7. m + (k - 1) < size /\ m + (k - 1) = from + i - 1
      <4> DEFINE l == Len(got)
      <4>1. l \in Nat /\ pos = from + l /\ i = l + j
        BY <1>1, <3>1
      <4>2. b \in Nat /\ size \in Nat /\ j \in Nat /\ j <= n /\ m + b + n <= size
        BY <1>1, <3>1, <3>6
      <4>3. m + b = from + l
        BY <3>6, <4>1
      <4> HIDE DEF l
      <4>4. QED
        BY <3>4, <4>1, <4>2, <4>3
    <3>8. more[i] = buf[k]
      BY <1>5, <1>6, <3>1
    <3> HIDE DEF k
    <3>9. QED
      BY <3>3, <3>5, <3>7, <3>8
  <2>3. QED
    BY <2>1, <2>2, <1>6
<1>8. QED
  BY <1>6, <1>7 DEF more, cut, buf, b, node

(* The page stays good when the position moves inside of it.               *)
LEMMA MovedInPage ==
  ASSUME NEW f \in OpenFile, PageOK(f), NEW n \in Nat, NEW g, g.buf_pos = f.buf_pos + n,
         g.stream_pos = f.stream_pos + n, SameFile(f, g), g.buffer = f.buffer
  PROVE  PageOK(g)
<1>1. CASE g.inode.dir
  BY <1>1 DEF PageOK
<1>2. CASE ~ g.inode.dir
  <2>1. PICK p \in Nat :
          /\ f.stream_pos = p * PAGE + f.buf_pos
          /\ \A i \in 1 .. PAGE : p * PAGE + (i - 1) < f.file_size =>
                                  f.buffer[i] = FileUnit(f.inode, p * PAGE + (i - 1))
    BY <1>2 DEF PageOK, SameFile
  <2>2. g.stream_pos = p * PAGE + g.buf_pos
    <3> DEFINE m == p * PAGE
    <3>1. m \in Nat /\ f.buf_pos \in Nat /\ f.stream_pos = m + f.buf_pos
      BY <2>1, Sizes DEF OpenFile
    <3> HIDE DEF m
    <3>2. g.stream_pos = m + g.buf_pos
      BY <3>1
    <3>3. QED
      BY <3>2 DEF m
  <2>3. QED
    BY <2>1, <2>2 DEF PageOK, SameFile
<1>3. QED
  BY <1>1, <1>2

(* A file with a new page or position, as far as others are concerned.     *)
LEMMA ChangedIsPaged ==
  ASSUME NEW st, NEW r, NEW t, NEW s, PagedBut(st, t, Slots \ {s}), Changed(st, r, s),
         r.answer = st.answer
  PROVE  /\ PagedBut(r, t, Slots \ {s})
         /\ PageFits(r.files[s], s, Tasks \ {t}, call) => PagedBut(r, t, Slots)
  BY DEF PagedBut, Changed

LEMMA CopyIsPaged ==
  ASSUME NEW st, NEW t \in Tasks, NEW c, Paged(Now), GoodBut(st, t), ReadData(st, t, c),
         Meets(st, t, c.slot), PagedBut(st, t, Slots \ {c.slot}),
         Followed(st.files[c.slot]) =>
           PageOK(st.files[c.slot]) /\ Progress(st.files[c.slot], c)
  PROVE  Paged(Copy(st, t, c))
<1> DEFINE f     == st.files[c.slot]
           left  == Clipped(c, f)
           n     == Least(left, PAGE - f.buf_pos)
           moved == [f EXCEPT !.buf_pos = @ + n, !.stream_pos = @ + n]
           got   == c.got \o SubSeq(f.buffer, f.buf_pos + 1, f.buf_pos + n)
           done  == [op |-> "read", slot |-> c.slot, from |-> c.from, asked |-> c.asked,
                     got |-> got]
           next  == [st EXCEPT !.files[c.slot] = moved]
           more  == [c EXCEPT !.at = "more", !.left = left - n, !.got = got,
                              !.done = 0, !.parts = PageParts(moved)]
<1>1. CASE left < 0
  BY <1>1, HaltIsPaged DEF Copy
<1>2. CASE ~ left < 0
  <2>1. /\ c.op = "read" /\ c.slot \in st.fds[t] /\ c.at \in {"first", "more"}
        /\ c.left \in Nat \ {0} /\ c.got \in Seq(Nat) /\ c.asked \in Nat /\ c.from \in Nat
        /\ DOMAIN c = {"op", "slot", "at", "left", "asked", "from", "got", "done", "parts"}
    BY DEF ReadData
  <2>2. /\ Tables(st) /\ IsState(st) /\ FilesOK(st.files, st.fds) /\ DOMAIN st.files = Slots
        /\ f \in OpenFile /\ c.slot \in Slots
        /\ f.clean => f.stream_pos <= f.file_size
    BY <2>1 DEF GoodBut, Tables, FilesOK
  <2>3. /\ f.stream_pos \in Nat /\ f.file_size \in Nat /\ f.buf_pos \in 0 .. PAGE
        /\ \E id \in Inodes : f.inode = InodeOf(id)
        /\ c.at = "more" /\ f.clean => f.stream_pos + c.left <= f.file_size
    BY <2>1, <2>2 DEF OpenFile, ReadData
  <2>4. f.clean => PageOK(f) /\ Progress(f, c)
    BY <2>2 DEF Followed
  <2>5. f.clean => ~ OthersIn(c.slot, t)
    BY DEF Meets
  <2> HIDE DEF f
  <2>6. left \in Nat /\ (f.clean => f.stream_pos + left <= f.file_size)
    <3>1. left = IF c.at = "first" THEN Least(c.left, f.file_size - f.stream_pos) ELSE c.left
      BY <2>1 DEF Clipped
    <3> HIDE DEF left
    <3>2. QED
      BY <1>2, <2>1, <2>3, <3>1
  <2>7. ASSUME f.clean
        PROVE  /\ f.stream_pos = c.from + Len(c.got)
               /\ Len(c.got) + left = Least(c.asked, f.file_size - c.from)
    <3>1. left = IF c.at = "first" THEN Least(c.left, f.file_size - f.stream_pos) ELSE c.left
      BY <2>1 DEF Clipped
    <3> HIDE DEF left
    <3>2. CASE c.at = "first"
      <4>1. c.got = <<>> /\ c.left = c.asked /\ c.from = f.stream_pos
        BY <2>4, <2>7, <3>2 DEF Progress
      <4>2. Len(c.got) = 0
        BY <4>1
      <4>3. left = Least(c.left, f.file_size - f.stream_pos)
        BY <3>1, <3>2
      <4>4. QED
        BY <4>1, <4>2, <4>3, <2>1, <2>3
    <3>3. CASE c.at = "more"
      BY <2>4, <2>7, <3>1, <3>3 DEF Progress
    <3>4. QED
      BY <2>1, <3>2, <3>3
  <2> HIDE DEF left
  <2>8. n \in Nat /\ n <= left /\ f.buf_pos + n \in 0 .. PAGE
    <3> DEFINE b == f.buf_pos
    <3>1. PAGE \in Nat /\ b \in 0 .. PAGE /\ left \in Nat
      BY <2>3, <2>6, Sizes
    <3>2. n = Least(left, PAGE - b)
      OBVIOUS
    <3> HIDE DEF n, b
    <3>3. n \in Nat /\ n <= left /\ b + n \in 0 .. PAGE
      BY <3>1, <3>2
    <3>4. QED
      BY <3>3 DEF b
  <2> HIDE DEF n
  <2>9. /\ moved.clean = f.clean /\ moved.buffer = f.buffer
        /\ moved.stream_pos = f.stream_pos + n /\ moved.buf_pos = f.buf_pos + n
        /\ SameFile(f, moved)
    BY <2>2 DEF OpenFile, SameFile, f
  <2>10. Changed(st, next, c.slot) /\ next.files[c.slot] = moved /\ next.answer = st.answer
    BY <2>2 DEF Changed, IsState, f
  <2>11. moved.inode = f.inode /\ moved.file_size = f.file_size
    BY <2>9 DEF SameFile
  <2> HIDE DEF moved, got
  <2>12. ASSUME f.clean
         PROVE  /\ got \in Seq(Nat) /\ Len(got) = Len(c.got) + n
                /\ ~ f.inode.dir =>
                     \A i \in 1 .. Len(got) : got[i] = FileUnit(f.inode, c.from + i - 1)
                /\ PageOK(moved)
    <3>1. /\ f.stream_pos = c.from + Len(c.got) /\ f.stream_pos + n <= f.file_size
          /\ f.buf_pos + n <= PAGE
      <4>1. f.stream_pos + left <= f.file_size /\ f.buf_pos + n \in 0 .. PAGE
        BY <2>12, <2>6, <2>8
      <4>2. QED
        BY <4>1, <2>12, <2>7, <2>3, <2>6, <2>8
    <3>2. /\ f \in OpenFile /\ PageOK(f) /\ c.got \in Seq(Nat) /\ c.from \in Nat
          /\ ~ f.inode.dir =>
                    \A i \in 1 .. Len(c.got) : c.got[i] = FileUnit(f.inode, c.from + i - 1)
      BY <2>1, <2>2, <2>4, <2>12 DEF Progress, Copied, f
    <3>3. PageOK(moved)
      <4>1. /\ n \in Nat /\ moved.buf_pos = f.buf_pos + n /\ SameFile(f, moved)
            /\ moved.stream_pos = f.stream_pos + n /\ moved.buffer = f.buffer
        BY <2>8, <2>9
      <4>2. f \in OpenFile /\ PageOK(f)
        BY <3>2
      <4> HIDE DEF n
      <4>3. QED
        BY <4>1, <4>2, MovedInPage
    <3> DEFINE old  == c.got
               from == c.from
    <3> HIDE DEF old, from
    <3>4. old = c.got /\ from = c.from
      BY DEF old, from
    <3>5. /\ f.stream_pos = from + Len(old) /\ f.stream_pos + n <= f.file_size
          /\ f.buf_pos + n <= PAGE /\ n \in Nat /\ old \in Seq(Nat) /\ from \in Nat
          /\ f \in OpenFile /\ PageOK(f)
          /\ ~ f.inode.dir =>
                    \A i \in 1 .. Len(old) : old[i] = FileUnit(f.inode, from + i - 1)
      BY <3>4, <3>1, <3>2, <2>8
    <3> DEFINE all == old \o SubSeq(f.buffer, f.buf_pos + 1, f.buf_pos + n)
    <3>6. got = all
      BY <3>4 DEF got
    <3> HIDE DEF done, next, more
    <3>7. /\ all \in Seq(Nat) /\ Len(all) = Len(old) + n
          /\ ~ f.inode.dir =>
                    \A i \in 1 .. Len(all) : all[i] = FileUnit(f.inode, from + i - 1)
      BY <3>5, TakenOfPage
    <3> HIDE DEF all
    <3>8. QED
      BY <3>3, <3>4, <3>6, <3>7
  <2>13. /\ PagedBut(next, t, Slots \ {c.slot})
         /\ PageFits(moved, c.slot, Tasks \ {t}, call) => PagedBut(next, t, Slots)
    <3> HIDE DEF next
    <3>1. QED
      BY <2>10, ChangedIsPaged
  <2>14. CASE left = n
    <3>1. PageFits(moved, c.slot, Tasks \ {t}, call)
      BY <2>9, <2>12, <2>5 DEF PageFits, Followed, On, OthersIn
    <3>2. /\ Paged(Return(next, t)) /\ IsState(Return(next, t))
          /\ Return(next, t).files[c.slot] = moved
      <4> HIDE DEF next
      <4>1. PagedBut(next, t, Slots)
        BY <3>1, <2>13
      <4>2. QED
        BY <4>1, <2>10, ReturnIsPaged
    <3>3. Copy(st, t, c) = [Return(next, t) EXCEPT !.answer = IF f.clean THEN done ELSE NoAnswer]
      BY <1>2, <2>14 DEF Copy, left, n, moved, got, f
    <3> DEFINE r == Return(next, t)
               a == IF f.clean THEN done ELSE NoAnswer
               q == [r EXCEPT !.answer = a]
    <3> HIDE DEF next, r
    <3>4. q.files = r.files /\ q.call = r.call /\ q.answer = a
      BY <3>2 DEF IsState, r
    <3>5. AnswerFits(q)
      <4>1. CASE ~ f.clean
        BY <4>1, <3>4 DEF AnswerFits, NoAnswer, NONE
      <4>2. CASE f.clean
        <5>1. q.answer = done /\ q.files[c.slot] = moved
          BY <4>2, <3>2, <3>4 DEF r
        <5> HIDE DEF q, r, a
        <5>2. done.slot = c.slot /\ done.got = got /\ done.from = c.from /\ done.asked = c.asked
          OBVIOUS
        <5>3. Len(got) = Least(c.asked, f.file_size - c.from)
          BY <2>12, <2>7, <2>14, <4>2
        <5> HIDE DEF done
        <5>4. Len(q.answer.got) = Least(q.answer.asked, moved.file_size - q.answer.from)
          BY <5>1, <5>2, <5>3, <2>11
        <5>5. Copied(moved, q.answer)
          BY <5>1, <5>2, <2>12, <2>11, <4>2 DEF Copied
        <5>6. q.answer.got \in Seq(Nat)
          BY <5>1, <5>2, <2>12, <4>2
        <5>7. QED
          BY <5>1, <5>2, <5>4, <5>5, <5>6 DEF AnswerFits
      <4>3. QED
        BY <4>1, <4>2
    <3> HIDE DEF q, a
    <3>6. Paged(q)
      BY <3>2, <3>4, <3>5 DEF Paged, r
    <3>7. QED
      BY <3>3, <3>6 DEF q, a, r
  <2>15. CASE left # n
    <3>1. /\ more.op = "read" /\ more.slot = c.slot /\ more.at = "more" /\ more.left = left - n
          /\ more.got = got /\ more.done = 0 /\ more.parts = PageParts(moved)
          /\ more.from = c.from /\ more.asked = c.asked
      BY <2>1
    <3>2. Copy(st, t, c) = Ask(next, t, more)
      BY <1>2, <2>15 DEF Copy, left, n, moved, got, f
    <3>3. next.files[c.slot] = moved /\ DOMAIN next.files = Slots
      BY <2>10 DEF Changed
    <3> HIDE DEF more, next
    <3>4. ASSUME moved.clean PROVE CallFits(moved, more)
      <4>1. Reads(PageParts(moved), PageUnits(moved), 0)
        <5>1. moved.stream_pos \in Nat /\ \E id \in Inodes : moved.inode = InodeOf(id)
          BY <2>3, <2>8, <2>9, <2>11
        <5>2. QED
          BY <5>1, PagePartsRead
      <4>2. Loading(moved, more)
        BY <3>1, <4>1 DEF Loading
      <4>3. /\ moved.stream_pos = more.from + Len(more.got)
            /\ Len(more.got) + more.left = Least(more.asked, moved.file_size - more.from)
        <5>1. f.clean
          BY <3>4, <2>9
        <5> DEFINE l == Len(c.got)
                   m == Least(c.asked, f.file_size - c.from)
        <5>2. /\ l \in Nat /\ Len(got) = l + n /\ f.stream_pos = c.from + l /\ l + left = m
          BY <5>1, <2>1, <2>12, <2>7
        <5> HIDE DEF l, m
        <5>3. moved.stream_pos = c.from + Len(got) /\ Len(got) + (left - n) = m
          BY <5>2, <2>1, <2>6, <2>8, <2>9
        <5>4. QED
          BY <5>3, <3>1, <2>11 DEF m
      <4>4. Copied(moved, more)
        BY <3>1, <3>4, <2>9, <2>12, <2>11 DEF Copied
      <4>5. QED
        BY <4>2, <4>3, <4>4, <3>1 DEF CallFits, Progress
    <3>5. Others(more) = Slots \ {c.slot} /\ more.slot \in Slots
      BY <3>1, <2>2 DEF Others
    <3>6. Paged(Ask(next, t, more))
      <4>1. Followed(next.files[more.slot]) => CallFits(next.files[more.slot], more)
        BY <3>1, <3>3, <3>4 DEF Followed
      <4>2. PagedBut(next, t, Others(more))
        BY <2>13, <3>5
      <4>3. more.op \in {"read", "seek"} /\ more.slot \in Slots /\ DOMAIN next.files = Slots
        BY <3>1, <3>3, <3>5
      <4>4. QED
        BY <4>1, <4>2, <4>3, AskIsPaged
    <3>7. QED
      BY <3>2, <3>6
  <2>16. QED
    BY <2>14, <2>15
<1>3. QED
  BY <1>1, <1>2

(* The page at stream_pos: its units are those of the file.                *)
LEMMA UnitOfPage ==
  ASSUME NEW f \in OpenFile, Mapped(f), ~ f.inode.dir, NEW i \in 1 .. PAGE,
         (f.stream_pos \div PAGE) * PAGE + (i - 1) < f.file_size
  PROVE  PageUnits(f)[i] = FileUnit(f.inode, (f.stream_pos \div PAGE) * PAGE + (i - 1))
<1> DEFINE M == PAGE \div BLOCK
           p == f.stream_pos \div PAGE
           q == (i - 1) \div BLOCK
           r == (i - 1) % BLOCK
           k == p * M + q
           n == p * PAGE + (i - 1)
<1>1. /\ M \in Nat \ {0} /\ BLOCK \in Nat \ {0} /\ PAGE \in Nat \ {0} /\ PAGE = M * BLOCK
  BY Sizes
<1>2. p \in Nat
  <2>1. f.stream_pos \in Nat
    BY DEF OpenFile
  <2>2. \A a \in Nat : a \div PAGE \in Nat
    BY <1>1
  <2>3. QED
    BY <2>1, <2>2
<1>3. q \in Nat /\ r \in 0 .. BLOCK - 1 /\ i - 1 = q * BLOCK + r
  <2>1. \A a \in Nat : /\ a \div BLOCK \in Nat /\ a % BLOCK \in 0 .. BLOCK - 1
                       /\ a = (a \div BLOCK) * BLOCK + (a % BLOCK)
    BY <1>1
  <2>2. i - 1 \in Nat
    OBVIOUS
  <2>3. QED
    BY <2>1, <2>2
<1>4. PageUnits(f)[i] = PageBlocks(f)[q + 1] * BLOCK + r /\ FirstBlock(f) = p * M
  BY DEF PageUnits, BlockUnits, FirstBlock
<1>5. FileUnit(f.inode, n) = FormatBlock(f.inode, n \div BLOCK) * BLOCK + (n % BLOCK)
  BY DEF FileUnit
<1>6. n < f.file_size /\ f.file_size \in Nat
  BY DEF OpenFile
<1> HIDE DEF M, p, q, r
<1>7. q < M
  <2>1. \A a, b, m \in Nat, d \in Nat \ {0} : a * d + b < m * d => a < m
    OBVIOUS
  <2>2. q * BLOCK + r < M * BLOCK /\ r \in Nat
    BY <1>1, <1>3
  <2>3. QED
    BY <2>1, <2>2, <1>1, <1>3
<1>8. /\ k \in Nat /\ n = k * BLOCK + r /\ n \in Nat /\ k * BLOCK \in Nat /\ k * BLOCK <= n
  <2>1. \A a, m, d, b, c \in Nat : a * (m * d) + (b * d + c) = (a * m + b) * d + c
    OBVIOUS
  <2>2. p * PAGE + (q * BLOCK + r) = k * BLOCK + r /\ r \in Nat
    BY <2>1, <1>1, <1>2, <1>3
  <2>3. k \in Nat /\ p * PAGE \in Nat
    BY <1>1, <1>2, <1>3
  <2> HIDE DEF k
  <2>4. k * BLOCK \in Nat
    BY <1>1, <2>3
  <2>5. n = k * BLOCK + r
    BY <1>3, <2>2
  <2> HIDE DEF n
  <2>6. QED
    BY <2>2, <2>3, <2>4, <2>5
<1>9. FirstBlock(f) + (q + 1) - 1 = k
  <2>1. FirstBlock(f) \in Nat
    BY <1>1, <1>2, <1>4
  <2>2. QED
    BY <2>1, <1>3, <1>4
<1> HIDE DEF k, n
<1>10. n \div BLOCK = k /\ n % BLOCK = r
  BY <1>1, <1>3, <1>8, Quotient
<1>11. k \in 0 .. BlocksOf(f.inode) - 1
  <2>1. f.file_size = f.inode.size
    BY DEF Mapped
  <2>2. k < Over(f.inode.size, BLOCK) /\ Over(f.inode.size, BLOCK) \in Nat
    <3>1. k * BLOCK < f.inode.size /\ f.inode.size \in Nat
      BY <1>6, <1>8, <2>1
    <3>2. QED
      BY <3>1, <1>1, <1>8, OverBounds
  <2>3. QED
    BY <2>2, <1>8 DEF BlocksOf
<1>12. PageBlocks(f)[q + 1] = FormatBlock(f.inode, k)
  <2>1. q + 1 \in 1 .. PAGE \div BLOCK
    BY <1>1, <1>3, <1>7 DEF M
  <2>2. PageBlocks(f)[q + 1] = FileBlock(f, k)
    BY <2>1, <1>9 DEF PageBlocks
  <2>3. FileBlock([inode |-> f.inode, block_list |-> f.block_list], k)
          = FormatBlock(f.inode, k)
    BY <1>11 DEF Mapped, Maps
  <2>4. QED
    BY <2>2, <2>3 DEF FileBlock
<1>13. QED
  BY <1>4, <1>5, <1>10, <1>12 DEF n, p

LEMMA PageIsLoaded ==
  ASSUME NEW f \in OpenFile, Mapped(f), \A i \in 1 .. PAGE : f.buffer[i] = PageUnits(f)[i],
         f.buf_pos = f.stream_pos % PAGE
  PROVE  PageOK(f)
<1>1. SUFFICES ASSUME ~ f.inode.dir PROVE PageOK(f)
  BY DEF PageOK
<1> DEFINE p == f.stream_pos \div PAGE
<1>2. p \in Nat /\ f.stream_pos = p * PAGE + f.buf_pos
  <2>1. \A a \in Nat : a \div PAGE \in Nat /\ a = (a \div PAGE) * PAGE + (a % PAGE)
    BY Sizes
  <2>2. f.stream_pos \in Nat
    BY DEF OpenFile
  <2>3. QED
    BY <2>1, <2>2
<1>3. \A i \in 1 .. PAGE : p * PAGE + (i - 1) < f.file_size =>
                          f.buffer[i] = FileUnit(f.inode, p * PAGE + (i - 1))
  BY <1>1, UnitOfPage
<1> HIDE DEF p
<1>4. QED
  BY <1>2, <1>3 DEF PageOK

LEMMA SamePage ==
  ASSUME NEW f, NEW g, SameFile(f, g), g.stream_pos = f.stream_pos
  PROVE  PageUnits(g) = PageUnits(f) /\ PageParts(g) = PageParts(f)
<1>1. \A k : FileBlock(g, k) = FileBlock(f, k)
  BY DEF FileBlock, SameFile
<1>2. FirstBlock(g) = FirstBlock(f)
  BY DEF FirstBlock
<1>3. PageBlocks(g) = PageBlocks(f)
  BY <1>1, <1>2 DEF PageBlocks
<1>4. PageParts(f) = BlocksParts(PageBlocks(f), PAGE)
      /\ PageParts(g) = BlocksParts(PageBlocks(g), PAGE)
  BY DEF PageParts, PageBlocks, FirstBlock
<1>5. QED
  BY <1>3, <1>4 DEF PageUnits

(* The units of one more sector of the page that c loads.                  *)
Goes(f, c, units) ==
  /\ \A i \in 1 .. c.done : f.buffer[i] = PageUnits(f)[i]
  /\ \A i \in 1 .. Len(units) : units[i] = PageUnits(f)[c.done + i]
  /\ Reads(c.parts, PageUnits(f), c.done + Len(units))
  /\ c.op = "read" => Progress(f, c)

LEMMA SameProgress ==
  ASSUME NEW f, NEW g, SameFile(f, g), g.stream_pos = f.stream_pos, NEW c, Progress(f, c)
  PROVE  Progress(g, c)
  BY DEF Progress, Copied, SameFile

LEMMA PageGoesOnIsPaged ==
  ASSUME NEW st, NEW t \in Tasks, NEW c, NEW units \in Seq(Nat), Paged(Now), GoodBut(st, t),
         st.files = files, Meets(st, t, c.slot), PagedBut(st, t, Slots \ {c.slot}),
         \/ ReadData(st, t, c)
         \/ c \in [op : {"seek"}, slot : st.fds[t], done : Nat, parts : Seq(Part)],
         st.files[c.slot].clean => Goes(st.files[c.slot], c, units)
  PROVE  Paged(PageGoesOn(st, t, c, units))
<1> DEFINE s      == c.slot
           f      == st.files[s]
           U      == PageUnits(f)
           filled == Filled(st, c, units)
           loaded == Loaded(st, c, units)
           g      == filled.files[s]
           h      == loaded.files[s]
           longer == [c EXCEPT !.done = @ + Len(units)]
<1>1. /\ c.op \in {"read", "seek"} /\ s \in st.fds[t] /\ c.done \in Nat
      /\ c.parts \in Seq(Part) /\ "done" \in DOMAIN c
  BY DEF ReadData
<1>2. /\ GoodBut(filled, t) /\ Changed(st, filled, s) /\ SameStream(f, g)
      /\ g.buffer = Held(st, c, units) /\ filled.answer = st.answer
      /\ GoodBut(loaded, t) /\ Changed(st, loaded, s) /\ SameStream(f, h)
      /\ h.buffer = Held(st, c, units) /\ loaded.answer = st.answer
      /\ h.buf_pos = h.stream_pos % PAGE
  BY <1>1, FilledIsGood
<1>3. PageGoesOn(st, t, c, units) =
        IF c.parts # <<>> THEN Ask(filled, t, longer)
        ELSE IF c.op = "seek" THEN Return(loaded, t) ELSE Copy(loaded, t, c)
  BY PageGoesOnIs
<1> HIDE DEF filled, loaded
<1>4. /\ FilesOK(st.files, st.fds) /\ f \in OpenFile /\ Mapped(f) /\ s \in Slots
  BY <1>1 DEF GoodBut, Tables, FilesOK
<1>5. /\ U \in Seq(Nat) /\ Len(U) = PAGE
  <2>1. f.stream_pos \in Nat /\ \E id \in Inodes : f.inode = InodeOf(id)
    BY <1>4 DEF OpenFile
  <2>2. QED
    BY <2>1, PagePartsRead
<1>6. PageUnits(g) = U /\ PageUnits(h) = U
  BY <1>2, SamePage DEF SameStream
<1>7. /\ g.inode = f.inode /\ h.inode = f.inode /\ g.stream_pos = f.stream_pos
      /\ h.stream_pos = f.stream_pos /\ SameFile(f, g) /\ SameFile(f, h)
      /\ g.clean = f.clean /\ h.clean = f.clean /\ h \in OpenFile
  BY <1>2 DEF SameStream, SameFile
<1>8. Mapped(h)
  BY <1>4, <1>7 DEF Mapped, SameFile
<1>9. f.clean => Goes(f, c, units)
  OBVIOUS
<1>10. f.clean => ~ OthersIn(s, t)
  BY DEF Meets
<1>11. Held(st, c, units) =
        IF f.clean THEN [i \in 1 .. PAGE |-> IF i - c.done \in DOMAIN units
                                             THEN units[i - c.done] ELSE f.buffer[i]]
        ELSE AnyPage
  BY DEF Held
<1> HIDE DEF f, U, g, h
<1>12. ASSUME f.clean, NEW i \in 1 .. PAGE, i <= c.done + Len(units)
       PROVE  Held(st, c, units)[i] = U[i]
  <2> DEFINE j == i - c.done
  <2>1. Held(st, c, units)[i] = IF j \in 1 .. Len(units) THEN units[j] ELSE f.buffer[i]
    BY <1>11, <1>12
  <2>2. /\ \A k \in 1 .. c.done : f.buffer[k] = U[k]
        /\ \A k \in 1 .. Len(units) : units[k] = U[c.done + k]
    BY <1>9, <1>12 DEF Goes, U
  <2>3. CASE i <= c.done
    <3>1. i \in 1 .. c.done /\ j \notin 1 .. Len(units)
      BY <1>1, <2>3
    <3>2. QED
      BY <2>1, <2>2, <3>1
  <2>4. CASE c.done < i
    <3>1. j \in 1 .. Len(units) /\ c.done + j = i
      BY <1>1, <1>12, <2>4
    <3> HIDE DEF j
    <3>2. QED
      BY <2>1, <2>2, <3>1
  <2>5. QED
    BY <1>1, <2>3, <2>4
<1>13. CASE c.parts # <<>>
  <2>1. /\ longer.op = c.op /\ longer.slot = s /\ longer.parts = c.parts
        /\ longer.done = c.done + Len(units)
        /\ c.op = "read" => /\ longer.at = c.at /\ longer.left = c.left /\ longer.got = c.got
                            /\ longer.from = c.from /\ longer.asked = c.asked
    BY <1>1 DEF ReadData
  <2> HIDE DEF longer
  <2>2. ASSUME f.clean PROVE CallFits(g, longer)
    <3>1. Reads(c.parts, U, c.done + Len(units)) /\ (c.op = "read" => Progress(f, c))
      BY <1>9, <2>2 DEF Goes, U
    <3>2. c.done + Len(units) \in Nat /\ c.done + Len(units) <= PAGE
      <4>1. PICK cut \in [0 .. Len(c.parts) -> 0 .. Len(U)] : cut[0] = c.done + Len(units)
        BY <3>1 DEF Reads
      <4>2. Len(c.parts) \in Nat
        BY <1>1
      <4>3. cut[0] \in 0 .. Len(U)
        BY <4>2
      <4>4. QED
        BY <4>1, <4>3, <1>5, Sizes
    <3>3. ASSUME NEW i \in 1 .. longer.done PROVE g.buffer[i] = PageUnits(g)[i]
      <4>1. i \in 1 .. PAGE /\ i <= c.done + Len(units)
        <5> DEFINE d == c.done + Len(units)
        <5>1. i \in 1 .. d /\ d \in Nat /\ d <= PAGE
          BY <2>1, <3>2
        <5> HIDE DEF d
        <5>2. i \in 1 .. PAGE /\ i <= d
          BY <5>1, Sizes
        <5>3. QED
          BY <5>2 DEF d
      <4>2. QED
        BY <4>1, <1>2, <1>6, <1>12, <2>2 DEF g
    <3>4. Reads(longer.parts, PageUnits(g), longer.done)
      BY <1>6, <2>1, <3>1
    <3>5. c.op = "read" => Progress(g, longer)
      <4>1. c.op = "read" => Progress(g, c)
        BY <1>7, <3>1, SameProgress
      <4>2. QED
        BY <4>1, <2>1 DEF Progress, Copied
    <3>6. QED
      BY <2>1, <3>3, <3>4, <3>5 DEF CallFits, Loading
  <2>3. Others(longer) = Slots \ {s} /\ DOMAIN filled.files = Slots
    BY <1>1, <1>2, <2>1 DEF Others, Changed
  <2>4. PagedBut(filled, t, Others(longer))
    <3>1. PagedBut(filled, t, Slots \ {s})
      BY <1>2, ChangedIsPaged
    <3>2. QED
      BY <3>1, <2>3
  <2>5. Followed(filled.files[longer.slot]) => CallFits(filled.files[longer.slot], longer)
    BY <2>1, <2>2, <1>7 DEF Followed, g
  <2>6. Paged(Ask(filled, t, longer))
    BY <1>1, <1>4, <2>1, <2>3, <2>4, <2>5, AskIsPaged
  <2>7. QED
    BY <2>6, <1>3, <1>13
<1>14. CASE c.parts = <<>>
  <2>1. ASSUME f.clean PROVE PageOK(h)
    <3>1. Reads(<<>>, U, c.done + Len(units))
      BY <1>9, <1>14, <2>1 DEF Goes, U
    <3>2. Len(<<>>) = 0
      OBVIOUS
    <3>3. c.done + Len(units) = PAGE
      BY <1>5, <3>1, <3>2 DEF Reads
    <3>4. ASSUME NEW i \in 1 .. PAGE PROVE h.buffer[i] = PageUnits(h)[i]
      <4>1. i <= c.done + Len(units)
        BY <3>3, Sizes
      <4>2. QED
        BY <4>1, <1>2, <1>6, <1>12, <2>1 DEF h
    <3>5. h.buf_pos = h.stream_pos % PAGE
      BY <1>2 DEF h
    <3>6. QED
      BY <3>4, <3>5, <1>7, <1>8, PageIsLoaded
  <2>2. CASE c.op = "seek"
    <3>1. PageFits(h, s, Tasks \ {t}, call)
      BY <2>1, <1>7, <1>10 DEF PageFits, Followed, On, OthersIn
    <3>2. PagedBut(loaded, t, Slots)
      BY <3>1, <1>2, ChangedIsPaged DEF h
    <3>3. QED
      BY <3>2, <1>3, <1>14, <2>2, ReturnIsPaged
  <2>3. CASE c.op = "read"
    <3>1. ReadData(loaded, t, c) /\ Meets(loaded, t, s)
      <4>1. ReadData(st, t, c) /\ loaded.fds = st.fds
        BY <1>2, <2>3 DEF Changed
      <4>2. /\ h.clean = f.clean /\ h.stream_pos = f.stream_pos
            /\ h.file_size = f.file_size
        BY <1>2 DEF SameStream, SameFile, h, f
      <4>3. QED
        BY <4>1, <4>2 DEF ReadData, Meets, h, f
    <3>2. PagedBut(loaded, t, Slots \ {s})
      BY <1>2, ChangedIsPaged
    <3>3. ASSUME Followed(h) PROVE PageOK(h) /\ Progress(h, c)
      <4>1. f.clean
        BY <3>3, <1>7 DEF Followed
      <4>2. Progress(f, c)
        BY <4>1, <1>9, <2>3 DEF Goes
      <4>3. QED
        BY <4>1, <4>2, <2>1, <1>7, SameProgress
    <3>4. Paged(Copy(loaded, t, c))
      BY <3>1, <3>2, <3>3, <1>2, CopyIsPaged DEF h
    <3>5. QED
      BY <3>4, <1>3, <1>14, <2>3
  <2>4. QED
    BY <2>2, <2>3, <1>1
<1>15. QED
  BY <1>13, <1>14

-----------------------------------------------------------------------------
(* The steps, once more.                                                   *)
LEMMA BecomeIsPaged ==
  ASSUME NEW st, Paged(st), Become(st)
  PROVE  Paged(Now)' /\ ReadsReturnTheFile'
<1>1. files' = st.files /\ call' = st.call /\ answer' = st.answer
  BY DEF Become
<1>2. Paged(Now)'
  BY <1>1 DEF Paged, AnswerFits, Now, NoAnswer, NONE
<1>3. ReadsReturnTheFile'
  <2> DEFINE a == st.answer
             f == st.files[a.slot]
  <2>1. ASSUME a.op = "read"
        PROVE  /\ Len(a.got) = Least(a.asked, f.file_size - a.from)
               /\ ~ f.inode.dir => \A i \in DOMAIN a.got :
                                     a.got[i] = FileUnit(f.inode, a.from + i - 1)
    <3>1. /\ a.got \in Seq(Nat) /\ Len(a.got) = Least(a.asked, f.file_size - a.from)
          /\ Copied(f, a)
      BY <2>1 DEF Paged, AnswerFits
    <3>2. DOMAIN a.got = 1 .. Len(a.got)
      BY <3>1
    <3>3. QED
      BY <3>1, <3>2 DEF Copied
  <2> HIDE DEF f
  <2>2. answer' = a /\ files'[a.slot] = f
    BY <1>1 DEF f
  <2> HIDE DEF a
  <2>3. QED
    BY <2>1, <2>2 DEF ReadsReturnTheFile
<1>4. QED
  BY <1>2, <1>3

LEMMA NowIsPagedBut ==
  ASSUME Good(Now), Paged(Now), NEW t \in Tasks
  PROVE  PagedBut(Now, t, {s \in Slots : ~ On(call[t], s)})
<1>1. /\ IsState(Now) /\ Now.call = call /\ DOMAIN call = Tasks /\ Now.answer = NoAnswer
      /\ Now.files = files
  BY DEF Good, Tables, Now
<1>2. ASSUME NEW s \in Slots, ~ On(call[t], s)
      PROVE  PageFits(Now.files[s], s, Tasks \ {t}, call)
  <2>1. PageFits(Now.files[s], s, Tasks, call)
    BY <1>1 DEF Paged
  <2>2. QED
    BY <2>1, <1>2 DEF PageFits
<1>3. QED
  BY <1>1, <1>2 DEF PagedBut

LEMMA EnterIsPaged ==
  ASSUME Good(Now), Paged(Now), NEW t \in Tasks, call[t] = NoCall, NEW s \in fds[t]
  PROVE  /\ PagedBut(Enter(t, s), t, Slots \ {s}) /\ s \in Slots
         /\ Followed(Enter(t, s).files[s]) =>
              /\ Enter(t, s).files[s] = files[s] /\ Followed(files[s]) /\ ~ OthersIn(s, t)
              /\ ~ files[s].buffer_empty => PageOK(files[s])
<1> DEFINE e == Enter(t, s)
<1>1. /\ Changed(Now, e, s) /\ s \in Slots
      /\ e.files[s] = IF OthersIn(s, t) THEN Spoiled(files[s]) ELSE files[s]
  BY EnterIsGood DEF Good, Tables, FilesOK, Now
<1>2. e.answer = NoAnswer /\ Now.answer = NoAnswer
  BY DEF Enter, Now
<1>3. \A x \in Slots : ~ On(call[t], x)
  BY DEF On, NoCall, NONE
<1>4. PagedBut(Now, t, Slots)
  BY <1>3, NowIsPagedBut DEF PagedBut
<1> HIDE DEF e
<1>5. PagedBut(e, t, Slots \ {s})
  <2>1. PagedBut(Now, t, Slots \ {s})
    BY <1>4 DEF PagedBut
  <2>2. QED
    BY <2>1, <1>1, <1>2, ChangedIsPaged
<1>6. ASSUME Followed(e.files[s])
      PROVE  /\ e.files[s] = files[s] /\ Followed(files[s]) /\ ~ OthersIn(s, t)
             /\ ~ files[s].buffer_empty => PageOK(files[s])
  <2>1. e.files[s] = files[s] /\ Followed(files[s]) /\ ~ OthersIn(s, t)
    BY <1>1, <1>6, NotFollowed
  <2>2. PageFits(files[s], s, Tasks \ {t}, call)
    BY <1>1, <1>4 DEF PagedBut, Now
  <2>3. QED
    BY <2>1, <2>2 DEF PageFits, OthersIn, On
<1>7. QED
  BY <1>1, <1>5, <1>6 DEF e

LEMMA ReadIsPaged ==
  ASSUME Good(Now), Paged(Now), NEW t \in Tasks, NEW s \in Slots, NEW size \in SIZES,
         ext2_file_read(t, s, size)
  PROVE  Paged(Now)' /\ ReadsReturnTheFile'
<1> DEFINE f  == files[s]
           c  == [op |-> "read", slot |-> s, at |-> "first", left |-> size, asked |-> size,
                  from |-> f.stream_pos, got |-> <<>>, done |-> 0, parts |-> <<>>]
           st == Enter(t, s)
           p  == [c EXCEPT !.parts = PageParts(f)]
<1>1. /\ s \in fds[t] /\ call[t] = NoCall
      /\ Become(IF f.buffer_empty THEN Ask(st, t, p) ELSE Copy(st, t, c))
  BY DEF ext2_file_read, AtRest
<1>2. /\ GoodBut(st, t) /\ st.fds = fds /\ Meets(st, t, s) /\ f \in OpenFile
      /\ DOMAIN st.files = Slots
  BY <1>1, EnterIsGood DEF Changed
<1>3. /\ PagedBut(st, t, Slots \ {s})
      /\ Followed(st.files[s]) => /\ st.files[s] = f /\ Followed(f)
                                  /\ ~ f.buffer_empty => PageOK(f)
  BY <1>1, EnterIsPaged
<1> HIDE DEF f, st
<1>4. /\ f.stream_pos \in Nat /\ \E id \in Inodes : f.inode = InodeOf(id)
      /\ size \in Nat \ {0}
  BY <1>2, FilesAssumption DEF OpenFile
<1>5. /\ ReadData(st, t, c) /\ c.op = "read" /\ c.slot = s /\ c.at = "first"
      /\ c.got = <<>> /\ c.left = c.asked /\ c.from = f.stream_pos /\ c.done = 0
  BY <1>1, <1>2, <1>4 DEF ReadData
<1>6. /\ p.op = "read" /\ p.slot = s /\ p.at = "first" /\ p.got = c.got /\ p.left = c.left
      /\ p.asked = c.asked /\ p.from = c.from /\ p.done = 0 /\ p.parts = PageParts(f)
  OBVIOUS
<1> HIDE DEF c, p
<1>7. Progress(f, c) /\ Progress(f, p)
  <2>1. Len(<<>>) = 0 /\ 1 .. 0 = {}
    OBVIOUS
  <2>2. QED
    BY <2>1, <1>5, <1>6 DEF Progress, Copied
<1>8. CASE f.buffer_empty
  <2>1. CallFits(f, p)
    <3>1. Reads(PageParts(f), PageUnits(f), 0)
      BY <1>4, PagePartsRead
    <3>2. QED
      BY <3>1, <1>6, <1>7 DEF CallFits, Loading
  <2>2. Others(p) = Slots \ {s}
    BY <1>6 DEF Others
  <2>3. Paged(Ask(st, t, p))
    BY <2>1, <2>2, <1>2, <1>3, <1>6, AskIsPaged
  <2>4. QED
    BY <2>3, <1>1, <1>8, BecomeIsPaged
<1>9. CASE ~ f.buffer_empty
  <2>1. Paged(Copy(st, t, c))
    BY <1>2, <1>3, <1>5, <1>7, <1>9, CopyIsPaged
  <2>2. QED
    BY <2>1, <1>1, <1>9, BecomeIsPaged
<1>10. QED
  BY <1>8, <1>9

LEMMA SeekIsPaged ==
  ASSUME CARELESS = FALSE, Good(Now), Paged(Now), NEW t \in Tasks, NEW s \in Slots,
         NEW position \in POSITIONS, ext2_file_seek(t, s, position)
  PROVE  Paged(Now)' /\ ReadsReturnTheFile'
<1> DEFINE f     == files[s]
           e     == Enter(t, s)
           there == f.stream_pos \div PAGE = position \div PAGE
           bp    == IF there THEN position % PAGE ELSE e.files[s].buf_pos
           g     == [e.files[s] EXCEPT !.stream_pos = position, !.buf_pos = bp]
           st    == [Enter(t, s) EXCEPT !.files[s].stream_pos = position,
                                        !.files[s].buf_pos = IF there THEN position % PAGE
                                                             ELSE @]
           q     == [f EXCEPT !.stream_pos = position]
           c     == [op |-> "seek", slot |-> s, done |-> 0, parts |-> PageParts(q)]
<1>1. /\ s \in fds[t] /\ call[t] = NoCall /\ f.buf_pos # PAGE
      /\ Become(IF there /\ ~ f.buffer_empty THEN Return(st, t) ELSE Ask(st, t, c))
  BY DEF ext2_file_seek, AtRest, AtPageEnd
<1>2. /\ IsState(e) /\ DOMAIN e.files = Slots /\ f \in OpenFile /\ e.files[s] \in OpenFile
  BY <1>1, EnterIsGood DEF Changed
<1>3. /\ PagedBut(e, t, Slots \ {s})
      /\ Followed(e.files[s]) => /\ e.files[s] = f /\ ~ OthersIn(s, t)
                                 /\ ~ f.buffer_empty => PageOK(f)
  BY <1>1, EnterIsPaged
<1>4. Changed(e, st, s) /\ st.files[s] = g /\ st.answer = e.answer
  BY <1>2 DEF Changed, IsState
<1>5. PagedBut(st, t, Slots \ {s})
  <2> HIDE DEF e, st
  <2>1. QED
    BY <1>3, <1>4, ChangedIsPaged
<1>6. q.stream_pos = position /\ SameFile(f, q) /\ q.inode = f.inode
  BY <1>2 DEF OpenFile, SameFile
<1> HIDE DEF f, e, st, there, bp, q
<1>7. position \in Nat
  BY FilesAssumption
<1>8. ASSUME Followed(g)
      PROVE  /\ e.files[s] = f /\ ~ OthersIn(s, t) /\ (~ f.buffer_empty => PageOK(f))
             /\ SameFile(f, g) /\ g.stream_pos = position /\ g.buffer = f.buffer
             /\ there => g.buf_pos = position % PAGE
  <2>1. g.clean = e.files[s].clean
    BY <1>2 DEF OpenFile
  <2>2. e.files[s] = f /\ ~ OthersIn(s, t) /\ (~ f.buffer_empty => PageOK(f))
    BY <2>1, <1>2, <1>3, <1>8 DEF Followed
  <2>3. /\ SameFile(f, g) /\ g.stream_pos = position /\ g.buffer = f.buffer
        /\ there => g.buf_pos = position % PAGE
    BY <2>2, <1>2 DEF OpenFile, SameFile, bp
  <2>4. QED
    BY <2>2, <2>3
<1> HIDE DEF g
<1>9. CASE there /\ ~ f.buffer_empty
  <2>1. ASSUME Followed(g), ~ g.inode.dir PROVE PageOK(g)
    <3>1. f.inode = g.inode /\ f.file_size = g.file_size /\ g.buffer = f.buffer
      BY <1>8, <2>1 DEF SameFile
    <3>2. PICK p \in Nat :
            /\ f.stream_pos = p * PAGE + f.buf_pos
            /\ \A i \in 1 .. PAGE : p * PAGE + (i - 1) < f.file_size =>
                                    f.buffer[i] = FileUnit(f.inode, p * PAGE + (i - 1))
      BY <1>8, <1>9, <2>1, <3>1 DEF PageOK
    <3>3. position = p * PAGE + g.buf_pos
      <4>1. f.buf_pos \in Nat /\ f.buf_pos < PAGE /\ p * PAGE \in Nat /\ PAGE \in Nat \ {0}
            /\ f.stream_pos \in Nat
        BY <1>1, <1>2, Sizes DEF OpenFile
      <4>2. f.stream_pos \div PAGE = p
        BY <3>2, <4>1, Quotient
      <4>3. position = (position \div PAGE) * PAGE + (position % PAGE)
        <5>1. \A a \in Nat : a = (a \div PAGE) * PAGE + (a % PAGE)
          BY <4>1
        <5>2. QED
          BY <5>1, <1>7
      <4>4. position \div PAGE = p /\ g.buf_pos = position % PAGE
        BY <4>2, <1>8, <1>9, <2>1 DEF there
      <4>5. QED
        BY <4>3, <4>4
    <3>4. QED
      BY <3>1, <3>2, <3>3, <1>8, <2>1 DEF PageOK
  <2>2. PageFits(g, s, Tasks \ {t}, call)
    <3>1. Followed(g) => PageOK(g)
      BY <2>1 DEF PageOK
    <3>2. Followed(g) => \A u \in Tasks \ {t} : ~ On(call[u], s)
      BY <1>8 DEF On, OthersIn
    <3>3. QED
      BY <3>1, <3>2 DEF PageFits
  <2>3. PagedBut(st, t, Slots)
    BY <2>2, <1>3, <1>4, ChangedIsPaged
  <2>4. QED
    BY <2>3, <1>1, <1>9, ReturnIsPaged, BecomeIsPaged
<1>10. CASE ~ (there /\ ~ f.buffer_empty)
  <2>1. c.op = "seek" /\ c.slot = s /\ c.done = 0 /\ c.parts = PageParts(q)
    OBVIOUS
  <2> HIDE DEF c
  <2>2. Reads(PageParts(q), PageUnits(q), 0)
    <3>1. q.stream_pos \in Nat /\ \E id \in Inodes : q.inode = InodeOf(id)
      BY <1>2, <1>6, <1>7 DEF OpenFile
    <3>2. QED
      BY <3>1, PagePartsRead
  <2>3. ASSUME Followed(g) PROVE CallFits(g, c)
    <3>1. SameFile(q, g) /\ g.stream_pos = q.stream_pos
      BY <1>6, <1>8, <2>3 DEF SameFile
    <3>2. PageUnits(g) = PageUnits(q)
      BY <3>1, SamePage
    <3>3. QED
      BY <2>1, <2>2, <3>2 DEF CallFits, Loading
  <2>4. Others(c) = Slots \ {s} /\ DOMAIN st.files = Slots
    BY <2>1, <1>4 DEF Others, Changed
  <2>5. PagedBut(st, t, Others(c))
    BY <1>5, <2>4
  <2>6. Paged(Ask(st, t, c))
    BY <2>1, <2>3, <2>4, <2>5, <1>4, AskIsPaged
  <2>7. QED
    BY <2>6, <1>1, <1>10, BecomeIsPaged
<1>11. QED
  BY <1>9, <1>10

LEMMA InterruptIsPaged ==
  ASSUME Paged(Now), hdd_primary_handler PROVE Paged(Now)' /\ ReadsReturnTheFile'
<1> DEFINE r == [Now EXCEPT !.hdd = [hdd EXCEPT !.read_queue = Tail(@), !.command = NO_SECTOR,
                                                !.ready = hdd.command]]
<1>1. Become(r) /\ r.files = files /\ r.call = call /\ r.answer = NoAnswer
  BY DEF hdd_primary_handler, Now
<1> HIDE DEF r
<1>2. Paged(r)
  BY <1>1 DEF Paged, AnswerFits, Now, NoAnswer, NONE
<1>3. QED
  BY <1>1, <1>2, BecomeIsPaged

LEMMA FlushIsPaged ==
  ASSUME Good(Now), Paged(Now), NEW t \in Tasks, NEW s \in Slots, ext2_file_flush(t, s)
  PROVE  Paged(Now)' /\ ReadsReturnTheFile'
<1> DEFINE last == \A u \in Tasks \ {t} : s \notin fds[u]
           r == [Now EXCEPT !.fds[t] = @ \ {s}, !.files[s] = IF last THEN Closed ELSE @]
<1>1. Become(r)
  BY DEF ext2_file_flush
<1>2. DOMAIN files = Slots
  BY DEF Good, Tables, FilesOK, Now
<1>3. /\ r.files = [files EXCEPT ![s] = IF last THEN Closed ELSE @] /\ r.call = call
      /\ r.answer = NoAnswer
  BY DEF Now
<1> HIDE DEF r, last
<1>4. ASSUME NEW x \in Slots PROVE PageFits(r.files[x], x, Tasks, r.call)
  <2>1. CASE r.files[x] = files[x]
    BY <2>1, <1>3 DEF Paged, Now
  <2>2. CASE r.files[x] = Closed
    <3>1. Closed \notin OpenFile
      BY DEF Closed, OpenFile, NONE
    <3>2. QED
      BY <2>2, <3>1 DEF PageFits, Followed
  <2>3. QED
    BY <2>1, <2>2, <1>2, <1>3
<1>5. AnswerFits(r)
  BY <1>3 DEF AnswerFits, NoAnswer, NONE
<1>6. Paged(r)
  BY <1>4, <1>5 DEF Paged
<1>7. QED
  BY <1>1, <1>6, BecomeIsPaged

LEMMA ForkIsPaged ==
  ASSUME Good(Now), Paged(Now), NEW t \in Tasks, NEW child \in Tasks, Fork(t, child)
  PROVE  Paged(Now)' /\ ReadsReturnTheFile'
<1> DEFINE r == [Now EXCEPT !.fds[child] = fds[t], !.call[child] = NoCall]
<1>1. Become(r) /\ call[child].op = "unborn"
  BY DEF Fork, Born
<1>2. DOMAIN call = Tasks
  BY DEF Good, Tables, Now
<1>3. /\ r.files = files /\ r.call = [call EXCEPT ![child] = NoCall] /\ r.answer = NoAnswer
  BY DEF Now
<1> HIDE DEF r
<1>4. \A u \in Tasks, x \in Slots : On(r.call[u], x) <=> On(call[u], x)
  BY <1>1, <1>2, <1>3 DEF On, NoCall, NONE
<1>5. \A u \in Tasks, x \in Slots : On(call[u], x) => r.call[u] = call[u]
  BY <1>1, <1>2, <1>3 DEF On
<1>6. ASSUME NEW x \in Slots PROVE PageFits(r.files[x], x, Tasks, r.call)
  <2>1. PageFits(files[x], x, Tasks, call)
    BY DEF Paged, Now
  <2>2. QED
    BY <2>1, <1>3, <1>4, <1>5 DEF PageFits
<1>7. AnswerFits(r)
  BY <1>3 DEF AnswerFits, NoAnswer, NONE
<1>8. Paged(r)
  BY <1>6, <1>7 DEF Paged
<1>9. QED
  BY <1>1, <1>8, BecomeIsPaged

LEMMA InitIsPaged == ASSUME Init PROVE Paged(Now)
<1>1. Closed \notin OpenFile
  BY DEF Closed, OpenFile, NONE
<1>2. \A s \in Slots : Now.files[s] = Closed
  BY DEF Init, Now
<1>3. Now.answer = NoAnswer
  BY DEF Now
<1>4. QED
  BY <1>1, <1>2, <1>3 DEF Paged, PageFits, Followed, AnswerFits, NoAnswer, NONE

(* The steps of ext2_open change the entry that it takes, and no page.     *)
LEMMA AskOpenIsPaged ==
  ASSUME NEW st, NEW t \in Tasks, NEW c, Paged(Now), PagedBut(st, t, Slots),
         DOMAIN st.files = Slots, c.op = "open"
  PROVE  Paged(Ask(st, t, c))
<1>1. Others(c) = Slots
  BY DEF Others
<1>2. PagedBut(st, t, Others(c))
  BY <1>1
<1>3. QED
  BY <1>2, AskIsPaged

IsOpen(c) == "op" \in DOMAIN c /\ c.op = "open"

LEMMA StageOpens ==
  ASSUME NEW c, IsOpen(c), NEW at, NEW parts PROVE IsOpen(Stage(at, c, parts))
  BY DEF IsOpen, Stage

LEMMA SameFilesArePaged ==
  ASSUME NEW st, NEW r, NEW t, NEW S, PagedBut(st, t, S), IsState(r), r.files = st.files,
         r.call = st.call, r.answer = st.answer
  PROVE  PagedBut(r, t, S)
  BY DEF PagedBut

LEMMA WalkIsPaged ==
  ASSUME NEW st, NEW t \in Tasks, NEW c, Paged(Now), PagedBut(st, t, Slots),
         DOMAIN st.files = Slots, IsOpen(c)
  PROVE  Paged(Walk(st, t, c))
<1> DEFINE parts == InodeParts(st.disk, c.dir)
<1>1. CASE c.flags = "wr"
  BY <1>1, ReturnIsPaged DEF Walk
<1>2. CASE c.flags # "wr" /\ c.path # <<>>
  <2> DEFINE d == Stage("dirinode", c, parts)
  <2>1. d.op = "open"
    BY StageOpens DEF IsOpen
  <2>2. Walk(st, t, c) = Ask(st, t, d)
    BY <1>2 DEF Walk
  <2> HIDE DEF d
  <2>3. QED
    BY <2>1, <2>2, AskOpenIsPaged
<1>3. CASE c.flags # "wr" /\ c.path = <<>> /\ FreeSlots(st.files) = {}
  BY <1>3, ReturnIsPaged DEF Walk, TakeSlot
<1>4. CASE c.flags # "wr" /\ c.path = <<>> /\ FreeSlots(st.files) # {}
  <2> DEFINE s  == Min(FreeSlots(st.files))
             r  == [st EXCEPT !.files[s] = Reserved]
             e  == Stage("inode", c, parts)
             d  == [e EXCEPT !.slot = s]
  <2>1. Walk(st, t, c) = Ask(r, t, d)
    BY <1>4 DEF Walk, TakeSlot, Reserved
  <2> HIDE DEF s
  <2>2. IsOpen(e)
    BY StageOpens
  <2> HIDE DEF e
  <2>3. d.op = "open"
    BY <2>2 DEF IsOpen
  <2>4. /\ IsState(r) /\ r.call = st.call /\ r.answer = st.answer /\ DOMAIN r.files = Slots
        /\ \A x \in Slots : r.files[x] = st.files[x] \/ r.files[x] = Reserved
    BY DEF PagedBut, IsState
  <2> HIDE DEF r, d
  <2>5. ~ Followed(Reserved)
    BY DEF Followed, Reserved, OpenFile
  <2>6. PagedBut(r, t, Slots)
    BY <2>4, <2>5 DEF PagedBut, PageFits
  <2>7. QED
    BY <2>1, <2>3, <2>4, <2>6, AskOpenIsPaged
<1>5. QED
  BY <1>1, <1>2, <1>3, <1>4

LEMMA OpenedIsPaged ==
  ASSUME NEW st, NEW t \in Tasks, NEW c, NEW size, NEW page, GoodBut(st, t),
         \A u \in Tasks \ {t} : call[u].op # "open", PagedBut(st, t, Slots),
         \A v \in Tasks : c.slot \notin st.fds[v], c.at = "list" => c.inode.dir
  PROVE  Paged(Opened(st, t, c, size, page))
<1> DEFINE s == c.slot
           g == [klass |-> "file", inode |-> c.inode, file_size |-> size,
                 block_list |-> c.list, stream_pos |-> 0, buffer |-> page, buf_pos |-> 0,
                 buffer_empty |-> c.at # "list", clean |-> TRUE]
           r == [st EXCEPT !.fds[t] = @ \cup {s}, !.files[s] = g]
<1>1. Opened(st, t, c, size, page) = Return(r, t)
  BY DEF Opened
<1>2. g.inode = c.inode /\ g.buffer_empty = (c.at # "list")
  OBVIOUS
<1> HIDE DEF g
<1>3. /\ IsState(r) /\ r.call = st.call /\ r.answer = st.answer
      /\ \A x \in Slots \ {s} : r.files[x] = st.files[x]
      /\ s \in Slots => r.files[s] = g
  BY DEF PagedBut, IsState, GoodBut, Tables, FilesOK
<1> HIDE DEF r
<1>4. \A u \in Tasks \ {t} : ~ On(call[u], s)
  <2> SUFFICES ASSUME NEW u \in Tasks \ {t}, On(call[u], s) PROVE FALSE
    OBVIOUS
  <2>1. CallOK(st, u) /\ st.call[u] = call[u]
    BY DEF GoodBut
  <2>2. call[u].slot \in st.fds[u]
    BY <2>1 DEF CallOK, CallData, OpenOK, OpenData, OpenCall, ReadOK, ReadData, SeekOK, On, NONE
  <2>3. QED
    BY <2>2 DEF On
<1>5. PageOK(g) \/ g.buffer_empty
  BY <1>2 DEF PageOK
<1>6. PageFits(g, s, Tasks \ {t}, call)
  BY <1>4, <1>5 DEF PageFits
<1>7. ASSUME NEW x \in Slots PROVE PageFits(r.files[x], x, Tasks \ {t}, call)
  <2>1. CASE x = s
    BY <2>1, <1>3, <1>6
  <2>2. CASE x # s
    BY <2>2, <1>3 DEF PagedBut
  <2>3. QED
    BY <2>1, <2>2
<1>8. PagedBut(r, t, Slots)
  BY <1>3, <1>7 DEF PagedBut
<1>9. QED
  BY <1>1, <1>8, ReturnIsPaged

LEMMA NextListIsPaged ==
  ASSUME NEW st, NEW t \in Tasks, NEW c, Paged(Now), GoodBut(st, t), PagedBut(st, t, Slots),
         DOMAIN st.files = Slots, \A u \in Tasks \ {t} : call[u].op # "open", IsOpen(c),
         \A v \in Tasks : c.slot \notin st.fds[v], c.at # "list"
  PROVE  Paged(NextList(st, t, c))
<1>1. \A at, parts : Paged(Ask(st, t, Stage(at, c, parts)))
  <2> SUFFICES ASSUME NEW at, NEW parts PROVE Paged(Ask(st, t, Stage(at, c, parts)))
    OBVIOUS
  <2>1. Stage(at, c, parts).op = "open"
    BY StageOpens DEF IsOpen
  <2>2. QED
    BY <2>1, AskOpenIsPaged
<1>2. \A size, page : Paged(Opened(st, t, c, size, page))
  BY OpenedIsPaged
<1>3. QED
  BY <1>1, <1>2 DEF NextList

OpenShape(st, c) ==
  /\ DOMAIN c = {"op", "at", "path", "flags", "dir", "slot", "got", "list", "inode", "double",
                 "parts"}
  /\ c.op = "open" /\ c.at \in {"super", "groups"} \cup AfterTables
  /\ c.at \in WithSlot => \A v \in Tasks : c.slot \notin st.fds[v]
  /\ c.at = "list" => c.inode.dir

LEMMA OpenGoesOnIsPaged ==
  ASSUME NEW st, NEW t \in Tasks, NEW c, Paged(Now), GoodBut(st, t), PagedBut(st, t, Slots),
         OpenShape(st, c), \A u \in Tasks \ {t} : call[u].op # "open"
  PROVE  Paged(OpenGoesOn(st, t, c))
<1> DEFINE first == Image[Head(c.got)]
<1>1. /\ IsOpen(c) /\ c.op = "open" /\ DOMAIN st.files = Slots /\ IsState(st)
      /\ DOMAIN c = {"op", "at", "path", "flags", "dir", "slot", "got", "list", "inode", "double",
                     "parts"}
      /\ c.at \in {"super", "groups"} \cup AfterTables
      /\ c.at \in WithSlot => \A v \in Tasks : c.slot \notin st.fds[v]
      /\ c.at = "list" => c.inode.dir
  BY DEF OpenShape, IsOpen, GoodBut, Tables, FilesOK
<1>2. CASE c.parts # <<>>
  <2>1. OpenGoesOn(st, t, c) = Ask(st, t, c)
    BY <1>2 DEF OpenGoesOn
  <2>2. QED
    BY <2>1, <1>1, AskOpenIsPaged
<1>3. CASE c.parts = <<>> /\ c.at = "super"
  <2> DEFINE r == [st EXCEPT !.disk.sb = first]
             d == Stage("groups", c, Parts(BGDT_START,
                        Over(first.blocks_count, first.blocks_per_group)))
  <2>1. OpenGoesOn(st, t, c) = Ask(r, t, d)
    BY <1>3 DEF OpenGoesOn
  <2>2. d.op = "open"
    BY <1>1, StageOpens DEF IsOpen
  <2>3. /\ IsState(r) /\ r.files = st.files /\ r.call = st.call /\ r.answer = st.answer
    BY <1>1 DEF IsState
  <2> HIDE DEF r, d
  <2>4. PagedBut(r, t, Slots)
    BY <2>3, SameFilesArePaged
  <2>5. QED
    BY <2>1, <2>2, <2>3, <2>4, <1>1, AskOpenIsPaged
<1>4. CASE c.parts = <<>> /\ c.at = "groups"
  <2> DEFINE bgdt == [i \in DOMAIN c.got |-> Image[c.got[i]]]
             r    == [st EXCEPT !.disk.loaded = TRUE, !.disk.bgdt = bgdt]
  <2>1. OpenGoesOn(st, t, c) = Walk(r, t, c)
    BY <1>4 DEF OpenGoesOn
  <2> HIDE DEF bgdt
  <2>2. /\ IsState(r) /\ r.files = st.files /\ r.call = st.call /\ r.answer = st.answer
    BY <1>1 DEF IsState
  <2> HIDE DEF r
  <2>3. PagedBut(r, t, Slots)
    BY <2>2, SameFilesArePaged
  <2>4. QED
    BY <2>1, <2>2, <2>3, <1>1, WalkIsPaged
<1>5. CASE c.parts = <<>> /\ c.at = "dirinode"
  <2> DEFINE d == Stage("dir", c, DirParts(first))
  <2>1. OpenGoesOn(st, t, c) = Halt \/ OpenGoesOn(st, t, c) = Ask(st, t, d)
    BY <1>5 DEF OpenGoesOn
  <2>2. d.op = "open"
    BY <1>1, StageOpens DEF IsOpen
  <2> HIDE DEF d
  <2>3. QED
    BY <2>1, <2>2, <1>1, HaltIsPaged, AskOpenIsPaged
<1>6. CASE c.parts = <<>> /\ c.at = "dir"
  <2> DEFINE named == {i \in DOMAIN c.got : Image[c.got[i]].name = Head(c.path)}
             d     == [c EXCEPT !.dir = Image[c.got[Min(named)]].inode, !.path = Tail(@)]
  <2>1. OpenGoesOn(st, t, c) = Return(st, t) \/ OpenGoesOn(st, t, c) = Walk(st, t, d)
    BY <1>6 DEF OpenGoesOn
  <2>2. IsOpen(d)
    BY <1>1 DEF IsOpen
  <2> HIDE DEF d
  <2>3. QED
    BY <2>1, <2>2, <1>1, ReturnIsPaged, WalkIsPaged
<1>7. CASE c.parts = <<>> /\ c.at = "inode"
  <2> DEFINE d == [c EXCEPT !.inode = first]
  <2>1. OpenGoesOn(st, t, c) = Halt \/ OpenGoesOn(st, t, c) = NextList(st, t, d)
    BY <1>7 DEF OpenGoesOn
  <2>2. IsOpen(d) /\ d.at = "inode" /\ d.slot = c.slot
    BY <1>1, <1>7 DEF IsOpen
  <2> HIDE DEF d
  <2>3. \A v \in Tasks : d.slot \notin st.fds[v]
    BY <1>1, <1>7, <2>2 DEF WithSlot
  <2>4. QED
    BY <2>1, <2>2, <2>3, <1>1, HaltIsPaged, NextListIsPaged
<1>8. CASE c.parts = <<>> /\ c.at = "double"
  <2> DEFINE d == [c EXCEPT !.double = c.got]
  <2>1. OpenGoesOn(st, t, c) = NextList(st, t, d)
    BY <1>8 DEF OpenGoesOn
  <2>2. IsOpen(d) /\ d.at = "double" /\ d.slot = c.slot
    BY <1>1, <1>8 DEF IsOpen
  <2> HIDE DEF d
  <2>3. \A v \in Tasks : d.slot \notin st.fds[v]
    BY <1>1, <1>8, <2>2 DEF WithSlot
  <2>4. QED
    BY <2>1, <2>2, <2>3, <1>1, NextListIsPaged
<1>9. CASE c.parts = <<>> /\ c.at \in {"single", "loads"}
  <2> DEFINE d == [c EXCEPT !.list = @ \o c.got]
  <2>1. OpenGoesOn(st, t, c) = NextList(st, t, d)
    BY <1>9 DEF OpenGoesOn
  <2>2. IsOpen(d) /\ d.at # "list" /\ d.slot = c.slot
    BY <1>1, <1>9 DEF IsOpen
  <2> HIDE DEF d
  <2>3. \A v \in Tasks : d.slot \notin st.fds[v]
    BY <1>1, <1>9, <2>2 DEF WithSlot
  <2>4. QED
    BY <2>1, <2>2, <2>3, <1>1, NextListIsPaged
<1>10. CASE c.parts = <<>> /\ c.at = "list"
  <2> DEFINE page == [i \in 1 .. PAGE |-> IF i <= Len(c.got) THEN c.got[i] ELSE 0]
  <2>1. OpenGoesOn(st, t, c) = Opened(st, t, c, Len(c.got) + 1, page)
    BY <1>10 DEF OpenGoesOn
  <2> HIDE DEF page
  <2>2. \A v \in Tasks : c.slot \notin st.fds[v]
    BY <1>1, <1>10 DEF WithSlot
  <2>3. QED
    BY <2>1, <2>2, <1>1, OpenedIsPaged
<1>11. QED
  BY <1>1, <1>2, <1>3, <1>4, <1>5, <1>6, <1>7, <1>8, <1>9, <1>10 DEF AfterTables

LEMMA OpenIsPaged ==
  ASSUME Good(Now), Paged(Now), NEW t \in Tasks, NEW path \in Paths, NEW flags \in {"rd", "wr"},
         ext2_open(t, path, flags)
  PROVE  Paged(Now)' /\ ReadsReturnTheFile'
<1> DEFINE c == [op |-> "open", at |-> "super", path |-> path, flags |-> flags,
                 dir |-> ROOT_DIR_INODE, slot |-> -1, got |-> <<>>, list |-> <<>>,
                 inode |-> Nothing, double |-> <<>>,
                 parts |-> Parts(SUPERBLOCK_START, BLOCK)]
<1>1. Become(IF disk.loaded THEN Walk(Now, t, c) ELSE Ask(Now, t, c)) /\ call[t] = NoCall
  BY DEF ext2_open, AtRest
<1>2. IsOpen(c) /\ c.op = "open"
  BY DEF IsOpen
<1> HIDE DEF c
<1>3. PagedBut(Now, t, Slots) /\ DOMAIN Now.files = Slots
  <2>1. \A s \in Slots : ~ On(call[t], s)
    BY <1>1 DEF On, NoCall, NONE
  <2>2. QED
    BY <2>1, NowIsPagedBut DEF PagedBut, Good, Tables, FilesOK
<1>4. Paged(Walk(Now, t, c)) /\ Paged(Ask(Now, t, c))
  BY <1>2, <1>3, WalkIsPaged, AskOpenIsPaged
<1>5. QED
  BY <1>1, <1>4, BecomeIsPaged

LEMMA SectorReadIsPaged ==
  ASSUME Good(Now), Paged(Now), NEW t \in Tasks, SectorRead(t)
  PROVE  Paged(Now)' /\ ReadsReturnTheFile'
<1> DEFINE st    == [Now EXCEPT !.hdd = Taken(@)]
           o     == call[t]
           wants == Head(o.parts).units
           units == [i \in DOMAIN wants |-> st.hdd.buffer * SECTOR + wants[i]]
           c     == [o EXCEPT !.parts = Tail(@)]
           d     == [c EXCEPT !.got = @ \o units]
<1>1. /\ Woken(t) /\ o.op \in {"open", "lost", "read", "seek"}
      /\ Become(CASE o.op = "lost" -> Halt
                  [] o.op = "open" -> OpenGoesOn(st, t, d)
                  [] OTHER         -> PageGoesOn(st, t, c, units))
  BY DEF SectorRead, Woken, InCall
<1>2. /\ GoodBut(st, t) /\ st.files = files /\ st.fds = fds
      /\ CallData(Now, t, o) => CallData(st, t, o) /\ Head(o.parts) \in Part
      /\ CallData(Now, t, o) /\ Undisturbed(Now, o) => st.hdd.buffer = Head(o.parts).sector
      /\ st.hdd.buffer \in Nat
  BY <1>1, TakenIsGood
<1>3. IsState(st) /\ st.call = Now.call /\ st.answer = Now.answer /\ Now.files = files
  BY DEF Now, IsState
<1> HIDE DEF st
<1>4. /\ CallOK(Now, t) /\ Now.call = call /\ \A u \in Tasks \ {t} : Apart(Now, o, call[u])
  BY DEF Good, Now
<1>5. o.op # "lost" => CallData(Now, t, o)
  BY <1>1, <1>4 DEF CallOK, NONE
<1>6. PagedBut(st, t, {s \in Slots : ~ On(o, s)})
  BY <1>2, <1>3, NowIsPagedBut, SameFilesArePaged
<1> HIDE DEF units
<1>7. CASE o.op = "lost"
  BY <1>1, <1>7, HaltIsPaged, BecomeIsPaged
<1>8. CASE o.op = "open"
  <2>1. Become(OpenGoesOn(st, t, d))
    BY <1>1, <1>8
  <2>2. OpenData(st, o)
    BY <1>2, <1>5, <1>8 DEF CallData, OpenOK, ReadOK, ReadData, SeekOK
  <2> HIDE DEF o
  <2>3. /\ DOMAIN d = DOMAIN o /\ d.op = o.op /\ d.at = o.at /\ d.slot = o.slot
        /\ d.inode = o.inode
    BY <2>2 DEF OpenData, OpenCall
  <2> HIDE DEF d
  <2>4. OpenShape(st, d)
    BY <2>2, <2>3 DEF OpenShape, OpenData, OpenCall
  <2>5. PagedBut(st, t, Slots)
    <3>1. \A s \in Slots : ~ On(o, s)
      BY <1>8 DEF On
    <3>2. QED
      BY <3>1, <1>6 DEF PagedBut
  <2>6. \A u \in Tasks \ {t} : call[u].op # "open"
    BY <1>4, <1>8 DEF Apart
  <2>7. QED
    BY <1>2, <2>1, <2>4, <2>5, <2>6, OpenGoesOnIsPaged, BecomeIsPaged
<1>9. CASE o.op \in {"read", "seek"}
  <2> DEFINE s == o.slot
             f == files[s]
             h == Head(o.parts)
             U == PageUnits(f)
  <2>1. Become(PageGoesOn(st, t, c, units))
    BY <1>1, <1>9
  <2>2. Meets(st, t, s)
    BY <1>2, <1>4, <1>9 DEF Meets, OthersIn, Apart, Now
  <2>3. /\ \/ ReadData(st, t, o)
           \/ o \in [op : {"seek"}, slot : st.fds[t], done : Nat, parts : Seq(Part)]
        /\ o.parts # <<>>
    BY <1>2, <1>5, <1>9 DEF CallData, OpenOK, OpenData, OpenCall, ReadOK, SeekOK
  <2>4. o.slot \in st.fds[t] /\ o.parts \in Seq(Part) /\ o.done \in Nat
    BY <2>3 DEF ReadData
  <2>5. Tail(o.parts) \in Seq(Part)
    BY <2>3, <2>4
  <2>6. /\ \/ ReadData(st, t, c)
           \/ c \in [op : {"seek"}, slot : st.fds[t], done : Nat, parts : Seq(Part)]
        /\ c.slot = s /\ c.done = o.done /\ c.op = o.op /\ c.parts = Tail(o.parts)
        /\ o.op = "read" => /\ c.at = o.at /\ c.left = o.left /\ c.got = o.got
                            /\ c.from = o.from /\ c.asked = o.asked
    <3>1. CASE ReadData(st, t, o)
      <4>1. /\ c.slot = s /\ c.done = o.done /\ c.op = o.op /\ c.parts = Tail(o.parts)
            /\ c.at = o.at /\ c.left = o.left /\ c.got = o.got
            /\ c.from = o.from /\ c.asked = o.asked
        BY <3>1 DEF ReadData
      <4>2. ReadData(st, t, c)
        BY <2>5, <3>1, <4>1 DEF ReadData
      <4>3. QED
        BY <4>1, <4>2
    <3>2. CASE o \in [op : {"seek"}, slot : st.fds[t], done : Nat, parts : Seq(Part)]
      BY <2>5, <3>2
    <3>3. QED
      BY <2>3, <3>1, <3>2
  <2> HIDE DEF c
  <2>7. f \in OpenFile /\ s \in Slots
    BY <1>2, <2>4 DEF GoodBut, Tables, FilesOK
  <2>8. /\ units \in Seq(Nat) /\ Len(units) = Len(wants)
        /\ \A i \in 1 .. Len(wants) : units[i] = st.hdd.buffer * SECTOR + wants[i]
    BY <1>2, <1>5, <1>9, WantedUnits DEF units
  <2>9. PagedBut(st, t, Slots \ {s})
    <3>1. \A x \in Slots \ {s} : ~ On(o, x)
      BY DEF On
    <3>2. QED
      BY <3>1, <1>6 DEF PagedBut
  <2>10. ASSUME f.clean PROVE Goes(f, c, units)
    <3>1. CallFits(f, o)
      <4>1. On(o, s) /\ Followed(f)
        BY <1>9, <2>7, <2>10 DEF On, Followed
      <4>2. PageFits(f, s, Tasks, call)
        BY <1>3, <1>4, <2>7 DEF Paged
      <4>3. QED
        BY <4>1, <4>2 DEF PageFits
    <3>2. st.hdd.buffer = h.sector
      BY <1>2, <1>3, <1>5, <1>9, <2>10 DEF Undisturbed
    <3>3. U \in Seq(Nat)
      <4>1. f.stream_pos \in Nat /\ \E id \in Inodes : f.inode = InodeOf(id)
        BY <2>7 DEF OpenFile
      <4>2. QED
        BY <4>1, PagePartsRead
    <3> DEFINE p == o.parts
               n == o.done
    <3>4. /\ p \in Seq(Part) /\ p # <<>> /\ h = Head(p) /\ Reads(p, U, n)
          /\ \A i \in 1 .. n : f.buffer[i] = U[i]
          /\ o.op = "read" => Progress(f, o)
      BY <2>3, <2>4, <3>1 DEF CallFits, Loading
    <3> HIDE DEF o, p, h, n, f, U
    <3>5. /\ Reads(Tail(p), U, n + Len(h.units))
          /\ \A i \in 1 .. Len(h.units) : h.sector * SECTOR + h.units[i] = U[n + i]
      BY <3>3, <3>4, ReadsTail
    <3>6. \A i \in 1 .. Len(units) : units[i] = U[c.done + i]
      BY <2>6, <2>8, <3>2, <3>5 DEF h, n
    <3>7. c.op = "read" => Progress(f, c)
      BY <2>6, <3>4 DEF Progress, Copied
    <3>8. Reads(c.parts, U, c.done + Len(units))
      BY <2>6, <2>8, <3>5 DEF h, p, n
    <3>9. \A i \in 1 .. c.done : f.buffer[i] = U[i]
      BY <2>6, <3>4 DEF n
    <3>10. QED
      BY <3>6, <3>7, <3>8, <3>9 DEF Goes, U
  <2>11. Paged(PageGoesOn(st, t, c, units))
    BY <1>2, <2>2, <2>6, <2>8, <2>9, <2>10, PageGoesOnIsPaged
  <2>12. QED
    BY <2>1, <2>11, BecomeIsPaged
<1>10. QED
  BY <1>1, <1>7, <1>8, <1>9

(* With the good states, the states whose pages hold what they should are  *)
(* left by no step, and what a step answers is right.                      *)
LEMMA NextIsPaged ==
  ASSUME CARELESS = FALSE, Good(Now), Paged(Now), ReadsReturnTheFile, [Next]_vars
  PROVE  Paged(Now)' /\ ReadsReturnTheFile'
<1>1. CASE hdd_primary_handler
  BY <1>1, InterruptIsPaged
<1>2. ASSUME NEW t \in Tasks, SectorRead(t) PROVE Paged(Now)' /\ ReadsReturnTheFile'
  BY <1>2, SectorReadIsPaged
<1>3. ASSUME NEW t \in Tasks, NEW path \in Paths, NEW flags \in {"rd", "wr"},
             ext2_open(t, path, flags)
      PROVE  Paged(Now)' /\ ReadsReturnTheFile'
  BY <1>3, OpenIsPaged
<1>4. ASSUME NEW t \in Tasks, NEW s \in Slots, NEW size \in SIZES, ext2_file_read(t, s, size)
      PROVE  Paged(Now)' /\ ReadsReturnTheFile'
  BY <1>4, ReadIsPaged
<1>5. ASSUME NEW t \in Tasks, NEW s \in Slots, NEW position \in POSITIONS,
             ext2_file_seek(t, s, position)
      PROVE  Paged(Now)' /\ ReadsReturnTheFile'
  BY <1>5, SeekIsPaged
<1>6. ASSUME NEW t \in Tasks, NEW s \in Slots, ext2_file_flush(t, s)
      PROVE  Paged(Now)' /\ ReadsReturnTheFile'
  BY <1>6, FlushIsPaged
<1>7. ASSUME NEW t \in Tasks, NEW child \in Tasks, Fork(t, child)
      PROVE  Paged(Now)' /\ ReadsReturnTheFile'
  BY <1>7, ForkIsPaged
<1>8. CASE UNCHANGED vars
  <2>1. files' = files /\ call' = call /\ answer' = answer
    BY <1>8 DEF vars
  <2>2. Paged(Now)'
    BY <2>1 DEF Paged, AnswerFits, Now, NoAnswer, NONE
  <2>3. ReadsReturnTheFile'
    BY <2>1 DEF ReadsReturnTheFile
  <2>4. QED
    BY <2>2, <2>3
<1>9. QED
  BY <1>1, <1>2, <1>3, <1>4, <1>5, <1>6, <1>7, <1>8 DEF Next

-----------------------------------------------------------------------------
(* Who is in read_queue.  A step of t leaves the queue, the command and    *)
(* the calls of the others alone, or the drive reads what t waits for.     *)
HasCommand(t) ==
  call[t].op \in {"open", "read", "seek"} /\ hdd.command = Head(call[t].parts).sector

Served == \A t \in Tasks : Contains(hdd.read_queue, t) => HasCommand(t)

IsCall(c) == "op" \in DOMAIN c /\ c.op \in {"open", "read", "seek"}

Keeps(st, t) ==
  /\ IsState(st) /\ DOMAIN st.hdd = {"read_queue", "command", "ready", "buffer"}
  /\ st.hdd.read_queue = hdd.read_queue /\ st.hdd.command = hdd.command
  /\ DOMAIN st.call = Tasks /\ \A u \in Tasks \ {t} : st.call[u] = call[u]

Asks(st, t) ==
  /\ st.hdd.read_queue = <<t>> /\ st.call[t].op \in {"open", "read", "seek"}
  /\ st.hdd.command = Head(st.call[t].parts).sector

Serves(st, t) == Keeps(st, t) \/ Asks(st, t)

LEMMA SameQueue ==
  ASSUME NEW st, NEW r, NEW t, Keeps(st, t), IsState(r), r.hdd = st.hdd, r.call = st.call
  PROVE  Keeps(r, t)
  BY DEF Keeps

LEMMA NowServes ==
  ASSUME Good(Now), NEW t
  PROVE  Keeps(Now, t) /\ Serves(Halt, t)
<1>1. Keeps(Now, t)
  BY DEF Good, Tables, HddOK, Keeps, Now, IsState
<1>2. IsState(Halt) /\ Halt.hdd = Now.hdd /\ Halt.call = Now.call
  BY DEF Halt, Now, IsState
<1>3. QED
  BY <1>1, <1>2, SameQueue DEF Serves

LEMMA ReturnServes ==
  ASSUME NEW st, NEW t \in Tasks, Keeps(st, t)
  PROVE  Keeps(Return(st, t), t)
<1> DEFINE r == Return(st, t)
<1>1. /\ IsState(r) /\ r.call = [st.call EXCEPT ![t] = NoCall]
      /\ \/ r.hdd = st.hdd
         \/ r.hdd = [st.hdd EXCEPT !.buffer = 0, !.ready = NO_SECTOR]
  BY DEF Keeps, Return, IsState
<1> HIDE DEF r
<1>2. /\ DOMAIN r.hdd = DOMAIN st.hdd /\ r.hdd.read_queue = st.hdd.read_queue
      /\ r.hdd.command = st.hdd.command
  BY <1>1 DEF Keeps
<1>3. DOMAIN r.call = Tasks /\ \A u \in Tasks \ {t} : r.call[u] = st.call[u]
  BY <1>1 DEF Keeps
<1>4. QED
  BY <1>1, <1>2, <1>3 DEF Keeps, r

LEMMA AskServes ==
  ASSUME Good(Now), NEW st, NEW t \in Tasks, NEW c, Keeps(st, t), IsCall(c)
  PROVE  Serves(Ask(st, t, c), t)
<1>1. CASE st.hdd.read_queue # <<>>
  <2>1. Ask(st, t, c) = TurnedAway(st, t, c)
    BY <1>1 DEF Ask
  <2> DEFINE f    == st.files[c.slot]
             left == Clipped(c, f)
             pos  == f.stream_pos + left
             g    == [Spoiled(f) EXCEPT !.stream_pos = pos,
                                        !.buf_pos = IF left = 0 THEN pos % PAGE
                                                    ELSE ((pos - 1) % PAGE) + 1,
                                        !.buffer_empty = FALSE]
  <2>2. \/ TurnedAway(st, t, c) = Halt
        \/ TurnedAway(st, t, c) = Return([st EXCEPT !.files[c.slot] = g], t)
    BY DEF TurnedAway
  <2> HIDE DEF g
  <2> DEFINE r == [st EXCEPT !.files[c.slot] = g]
  <2>3. IsState(r) /\ r.hdd = st.hdd /\ r.call = st.call
    BY DEF Keeps, IsState
  <2> HIDE DEF r
  <2>4. Keeps(Return(r, t), t)
    BY <2>3, SameQueue, ReturnServes
  <2>5. QED
    BY <2>1, <2>2, <2>4, NowServes DEF Serves, r
<1>2. CASE st.hdd.read_queue = <<>>
  <2> DEFINE r == Ask(st, t, c)
  <2>1. /\ r.hdd = Command(st.hdd, t, c)
        /\ r.call = [u \in Tasks |-> IF u = t THEN c
                                      ELSE IF st.call[u].op = "open" THEN [op |-> "lost"]
                                      ELSE st.call[u]]
    BY <1>2 DEF Ask, Keeps, IsState
  <2> HIDE DEF r
  <2>2. Append(<<>>, t) = <<t>>
    OBVIOUS
  <2>3. r.hdd.read_queue = <<t>> /\ r.hdd.command = Head(c.parts).sector /\ r.call[t] = c
    BY <1>2, <2>1, <2>2 DEF Command
  <2>4. QED
    BY <2>3 DEF Serves, Asks, IsCall, r
<1>3. QED
  BY <1>1, <1>2

LEMMA CopyServes ==
  ASSUME Good(Now), NEW st, NEW t \in Tasks, NEW c, Keeps(st, t), IsCall(c)
  PROVE  Serves(Copy(st, t, c), t)
<1> DEFINE f     == st.files[c.slot]
           left  == Clipped(c, f)
           n     == Least(left, PAGE - f.buf_pos)
           moved == [f EXCEPT !.buf_pos = @ + n, !.stream_pos = @ + n]
           got   == c.got \o SubSeq(f.buffer, f.buf_pos + 1, f.buf_pos + n)
           done  == [op |-> "read", slot |-> c.slot, from |-> c.from, asked |-> c.asked,
                     got |-> got]
           next  == [st EXCEPT !.files[c.slot] = moved]
           back  == Return(next, t)
           ans   == IF f.clean THEN done ELSE NoAnswer
           more  == [c EXCEPT !.at = "more", !.left = left - n, !.got = got,
                              !.done = 0, !.parts = PageParts(moved)]
<1>1. \/ Copy(st, t, c) = Halt
      \/ Copy(st, t, c) = [back EXCEPT !.answer = ans]
      \/ Copy(st, t, c) = Ask(next, t, more)
  BY DEF Copy
<1>2. IsCall(more)
  BY DEF IsCall
<1> HIDE DEF more, ans, moved
<1>3. IsState(next) /\ next.hdd = st.hdd /\ next.call = st.call
  BY DEF Keeps, IsState
<1> HIDE DEF next
<1>4. Keeps(next, t)
  BY <1>3, SameQueue
<1>5. Keeps(back, t)
  BY <1>4, ReturnServes
<1> HIDE DEF back
<1> DEFINE r == [back EXCEPT !.answer = ans]
<1>6. IsState(r) /\ r.hdd = back.hdd /\ r.call = back.call
  BY <1>5 DEF Keeps, IsState
<1> HIDE DEF r
<1>7. Keeps(r, t)
  BY <1>5, <1>6, SameQueue
<1>8. Serves(Ask(next, t, more), t)
  BY <1>2, <1>4, AskServes
<1>9. QED
  BY <1>1, <1>7, <1>8, NowServes DEF Serves, r

LEMMA PageGoesOnServes ==
  ASSUME Good(Now), NEW st, NEW t \in Tasks, NEW c, NEW units, Keeps(st, t), IsCall(c)
  PROVE  Serves(PageGoesOn(st, t, c, units), t)
<1> DEFINE filled == Filled(st, c, units)
           loaded == Loaded(st, c, units)
           longer == [c EXCEPT !.done = @ + Len(units)]
<1>1. PageGoesOn(st, t, c, units) =
        IF c.parts # <<>> THEN Ask(filled, t, longer)
        ELSE IF c.op = "seek" THEN Return(loaded, t) ELSE Copy(loaded, t, c)
  BY PageGoesOnIs
<1>2. IsState(filled) /\ filled.hdd = st.hdd /\ filled.call = st.call
  BY DEF Filled, Keeps, IsState
<1>3. IsState(loaded) /\ loaded.hdd = st.hdd /\ loaded.call = st.call
  BY <1>2 DEF Loaded, IsState
<1>4. IsCall(longer)
  BY DEF IsCall
<1> HIDE DEF filled, loaded, longer
<1>5. Keeps(filled, t) /\ Keeps(loaded, t)
  BY <1>2, <1>3, SameQueue
<1>6. QED
  BY <1>1, <1>4, <1>5, AskServes, ReturnServes, CopyServes DEF Serves

LEMMA StageCalls ==
  ASSUME NEW c, IsCall(c), NEW at, NEW parts
  PROVE  IsCall(Stage(at, c, parts))
  BY DEF IsCall, Stage

LEMMA WalkServes ==
  ASSUME Good(Now), NEW st, NEW t \in Tasks, NEW c, Keeps(st, t), IsCall(c)
  PROVE  Serves(Walk(st, t, c), t)
<1> DEFINE parts == InodeParts(st.disk, c.dir)
           s     == Min(FreeSlots(st.files))
           r     == [st EXCEPT !.files[s] = [klass |-> "file"]]
           e     == Stage("inode", c, parts)
           d     == [e EXCEPT !.slot = s]
<1>1. \/ Walk(st, t, c) = Return(st, t)
      \/ Walk(st, t, c) = Ask(r, t, d)
      \/ Walk(st, t, c) = Ask(st, t, Stage("dirinode", c, parts))
  BY DEF Walk, TakeSlot
<1> HIDE DEF parts, s
<1>2. IsCall(e)
  BY StageCalls
<1> HIDE DEF e
<1>3. IsCall(d)
  BY <1>2 DEF IsCall
<1>4. IsState(r) /\ r.hdd = st.hdd /\ r.call = st.call
  BY DEF Keeps, IsState
<1> HIDE DEF r, d
<1>5. Keeps(r, t)
  BY <1>4, SameQueue
<1>6. QED
  BY <1>1, <1>3, <1>5, StageCalls, AskServes, ReturnServes DEF Serves

LEMMA OpenedServes ==
  ASSUME NEW st, NEW t \in Tasks, NEW c, NEW size, NEW page, Keeps(st, t)
  PROVE  Serves(Opened(st, t, c, size, page), t)
<1> DEFINE f == [klass |-> "file", inode |-> c.inode, file_size |-> size,
                 block_list |-> c.list, stream_pos |-> 0, buffer |-> page, buf_pos |-> 0,
                 buffer_empty |-> c.at # "list", clean |-> TRUE]
           r == [st EXCEPT !.fds[t] = @ \cup {c.slot}, !.files[c.slot] = f]
<1>1. Opened(st, t, c, size, page) = Return(r, t)
  BY DEF Opened
<1> HIDE DEF f
<1>2. IsState(r) /\ r.hdd = st.hdd /\ r.call = st.call
  BY DEF Keeps, IsState
<1> HIDE DEF r
<1>3. Keeps(r, t)
  BY <1>2, SameQueue
<1>4. QED
  BY <1>1, <1>3, ReturnServes DEF Serves

LEMMA NextListServes ==
  ASSUME Good(Now), NEW st, NEW t \in Tasks, NEW c, Keeps(st, t), IsCall(c)
  PROVE  Serves(NextList(st, t, c), t)
<1> DEFINE more(lists) == BlocksOf(c.inode) > DIRECT + lists * BLOCK
           block(b)    == Parts(b * BLOCK, BLOCK)
           read        == Len(c.list) \div BLOCK
           single      == Stage("single", c, block(c.inode.block[DIRECT + 1]))
           double      == Stage("double", c, block(c.inode.block[DIRECT + 2]))
           loads       == Stage("loads", c, block(BlockNumber(c.double[read])))
           list        == Stage("list", c, DirParts(c.inode))
<1>1. \/ NextList(st, t, c) = Ask(st, t, single)
      \/ NextList(st, t, c) = Ask(st, t, double)
      \/ NextList(st, t, c) = Ask(st, t, loads)
      \/ NextList(st, t, c) = Ask(st, t, list)
      \/ NextList(st, t, c) = Opened(st, t, c, c.inode.size, AnyPage)
  <2>1. CASE c.at = "inode" /\ more(0)
    BY <2>1 DEF NextList
  <2>2. CASE c.at = "single" /\ more(1)
    BY <2>2 DEF NextList
  <2>3. CASE c.at \in {"double", "loads"} /\ more(read)
    BY <2>3 DEF NextList
  <2>4. CASE /\ ~ (c.at = "inode" /\ more(0)) /\ ~ (c.at = "single" /\ more(1))
             /\ ~ (c.at \in {"double", "loads"} /\ more(read))
    <3>1. NextList(st, t, c) = IF c.inode.dir THEN Ask(st, t, list)
                               ELSE Opened(st, t, c, c.inode.size, AnyPage)
      BY <2>4 DEF NextList
    <3> HIDE DEF list
    <3>2. QED
      BY <3>1
  <2> HIDE DEF more, single, double, loads, list
  <2>5. QED
    BY <2>1, <2>2, <2>3, <2>4
<1>2. IsCall(single) /\ IsCall(double) /\ IsCall(loads) /\ IsCall(list)
  <2> HIDE DEF block, read
  <2>1. QED
    BY StageCalls
<1> HIDE DEF single, double, loads, list
<1>3. QED
  BY <1>1, <1>2, AskServes, OpenedServes

LEMMA OpenGoesOnServes ==
  ASSUME Good(Now), NEW st, NEW t \in Tasks, NEW c, Keeps(st, t), IsCall(c),
         c.at \in {"super", "groups"} \cup AfterTables
  PROVE  Serves(OpenGoesOn(st, t, c), t)
<1> DEFINE first == Image[Head(c.got)]
           named == {i \in DOMAIN c.got : Image[c.got[i]].name = Head(c.path)}
           found == Image[c.got[Min(named)]].inode
           q     == [st EXCEPT !.disk.sb = first]
           r     == [st EXCEPT !.disk.loaded = TRUE,
                               !.disk.bgdt = [i \in DOMAIN c.got |-> Image[c.got[i]]]]
<1>1. IsState(q) /\ q.hdd = st.hdd /\ q.call = st.call
  BY DEF Keeps, IsState
<1>2. IsState(r) /\ r.hdd = st.hdd /\ r.call = st.call
  BY DEF Keeps, IsState
<1>3. CASE c.parts # <<>>
  <2>1. OpenGoesOn(st, t, c) = Ask(st, t, c)
    BY <1>3 DEF OpenGoesOn
  <2>2. QED
    BY <2>1, AskServes
<1>4. CASE c.parts = <<>> /\ c.at = "super"
  <2>1. \E parts : OpenGoesOn(st, t, c) = Ask(q, t, Stage("groups", c, parts))
    <3> DEFINE p == Parts(BGDT_START, Over(first.blocks_count, first.blocks_per_group))
    <3>1. OpenGoesOn(st, t, c) = Ask(q, t, Stage("groups", c, p))
      BY <1>4 DEF OpenGoesOn
    <3> HIDE DEF p, q
    <3>2. QED
      BY <3>1
  <2> HIDE DEF q
  <2>2. QED
    BY <1>1, <2>1, SameQueue, StageCalls, AskServes
<1>5. CASE c.parts = <<>> /\ c.at = "groups"
  <2>1. OpenGoesOn(st, t, c) = Walk(r, t, c)
    BY <1>5 DEF OpenGoesOn
  <2> HIDE DEF r
  <2>2. QED
    BY <1>2, <2>1, SameQueue, WalkServes
<1>6. CASE c.parts = <<>> /\ c.at = "dirinode"
  <2>1. \/ OpenGoesOn(st, t, c) = Halt
        \/ OpenGoesOn(st, t, c) = Ask(st, t, Stage("dir", c, DirParts(first)))
    BY <1>6 DEF OpenGoesOn
  <2> HIDE DEF first
  <2>2. QED
    BY <2>1, NowServes, StageCalls, AskServes
<1>7. CASE c.parts = <<>> /\ c.at = "dir"
  <2> DEFINE d == [c EXCEPT !.dir = found, !.path = Tail(@)]
  <2>1. \/ OpenGoesOn(st, t, c) = Return(st, t)
        \/ OpenGoesOn(st, t, c) = Walk(st, t, d)
    BY <1>7 DEF OpenGoesOn
  <2> HIDE DEF found
  <2>2. IsCall(d)
    BY DEF IsCall
  <2> HIDE DEF d
  <2>3. QED
    BY <2>1, <2>2, ReturnServes, WalkServes DEF Serves
<1>8. CASE c.parts = <<>> /\ c.at = "inode"
  <2> DEFINE d == [c EXCEPT !.inode = first]
  <2>1. OpenGoesOn(st, t, c) = Halt \/ OpenGoesOn(st, t, c) = NextList(st, t, d)
    BY <1>8 DEF OpenGoesOn
  <2> HIDE DEF first
  <2>2. IsCall(d)
    BY DEF IsCall
  <2> HIDE DEF d
  <2>3. QED
    BY <2>1, <2>2, NowServes, NextListServes
<1>9. CASE c.parts = <<>> /\ c.at = "double"
  <2> DEFINE d == [c EXCEPT !.double = c.got]
  <2>1. OpenGoesOn(st, t, c) = NextList(st, t, d)
    BY <1>9 DEF OpenGoesOn
  <2>2. IsCall(d)
    BY DEF IsCall
  <2> HIDE DEF d
  <2>3. QED
    BY <2>1, <2>2, NextListServes
<1>10. CASE c.parts = <<>> /\ c.at \in {"single", "loads"}
  <2> DEFINE d == [c EXCEPT !.list = @ \o c.got]
  <2>1. OpenGoesOn(st, t, c) = NextList(st, t, d)
    BY <1>10 DEF OpenGoesOn
  <2>2. IsCall(d)
    BY DEF IsCall
  <2> HIDE DEF d
  <2>3. QED
    BY <2>1, <2>2, NextListServes
<1>11. CASE c.parts = <<>> /\ c.at = "list"
  <2>1. \E size, page : OpenGoesOn(st, t, c) = Opened(st, t, c, size, page)
    <3> DEFINE page == [i \in 1 .. PAGE |-> IF i <= Len(c.got) THEN c.got[i] ELSE 0]
    <3>1. OpenGoesOn(st, t, c) = Opened(st, t, c, Len(c.got) + 1, page)
      BY <1>11 DEF OpenGoesOn
    <3> HIDE DEF page
    <3>2. QED
      BY <3>1
  <2>2. QED
    BY <2>1, OpenedServes
<1> HIDE DEF first, named, found, q, r
<1>12. QED
  BY <1>3, <1>4, <1>5, <1>6, <1>7, <1>8, <1>9, <1>10, <1>11 DEF AfterTables

(* A process that runs is not in read_queue, and its step serves whoever   *)
(* is there afterwards.                                                    *)
LEMMA NotQueued ==
  ASSUME Served, NEW t \in Tasks, AtRest(t) \/ Woken(t) \/ call[t].op = "unborn"
  PROVE  ~ Contains(hdd.read_queue, t)
  BY DEF Served, HasCommand, AtRest, Woken, NoCall, NONE

LEMMA StepServes ==
  ASSUME Served, NEW t \in Tasks, ~ Contains(hdd.read_queue, t),
         NEW st, Serves(st, t), Become(st)
  PROVE  Served'
<1>1. hdd' = st.hdd /\ call' = st.call
  BY DEF Become
<1>2. CASE Keeps(st, t)
  <2> SUFFICES ASSUME NEW u \in Tasks, Contains(hdd.read_queue, u)'
               PROVE  HasCommand(u)'
    BY DEF Served
  <2>1. hdd'.read_queue = hdd.read_queue /\ hdd'.command = hdd.command
    BY <1>1, <1>2 DEF Keeps
  <2>2. Contains(hdd.read_queue, u)
    BY <2>1 DEF Contains
  <2>3. u # t /\ call'[u] = call[u]
    BY <1>1, <1>2, <2>2 DEF Keeps
  <2>4. QED
    BY <2>1, <2>2, <2>3 DEF Served, HasCommand
<1>3. CASE Asks(st, t)
  <2> SUFFICES ASSUME NEW u \in Tasks, Contains(hdd.read_queue, u)'
               PROVE  HasCommand(u)'
    BY DEF Served
  <2>1. hdd'.read_queue = <<t>>
    BY <1>1, <1>3 DEF Asks
  <2>2. u = t
    BY <2>1 DEF Contains
  <2>3. QED
    BY <1>1, <1>3, <2>2 DEF Asks, HasCommand
<1>4. QED
  BY <1>2, <1>3 DEF Serves

LEMMA ServedKept ==
  ASSUME Good(Now), Served, [Next]_vars
  PROVE  Served'
<1>1. CASE hdd_primary_handler
  <2>1. hdd' = [hdd EXCEPT !.read_queue = Tail(@), !.command = NO_SECTOR,
                           !.ready = hdd.command]
        /\ hdd.command # NO_SECTOR
    BY <1>1 DEF hdd_primary_handler, Become, Now
  <2> DEFINE q == hdd.read_queue
  <2>2. /\ q \in Seq(Tasks) /\ Len(q) = 1
        /\ DOMAIN hdd = {"read_queue", "command", "ready", "buffer"}
    BY <2>1 DEF Good, Tables, HddOK, Now
  <2>3. hdd'.read_queue = Tail(q)
    BY <2>1, <2>2
  <2> HIDE DEF q
  <2>4. Len(Tail(q)) = 0
    BY <2>2
  <2>5. \A u \in Tasks : ~ Contains(hdd.read_queue, u)'
    BY <2>3, <2>4 DEF Contains
  <2>6. QED
    BY <2>5 DEF Served
<1>2. ASSUME NEW t \in Tasks, SectorRead(t) PROVE Served'
  <2> DEFINE st    == [Now EXCEPT !.hdd = Taken(@)]
             o     == call[t]
             wants == Head(o.parts).units
             units == [i \in DOMAIN wants |-> st.hdd.buffer * SECTOR + wants[i]]
             c     == [o EXCEPT !.parts = Tail(@)]
             d     == [c EXCEPT !.got = @ \o units]
  <2>1. /\ Woken(t) /\ o.op \in {"open", "lost", "read", "seek"}
        /\ Become(CASE o.op = "lost" -> Halt
                    [] o.op = "open" -> OpenGoesOn(st, t, d)
                    [] OTHER         -> PageGoesOn(st, t, c, units))
    BY <1>2 DEF SectorRead, Woken, InCall
  <2>2. o.op # "lost" => CallData(Now, t, o)
    BY <2>1 DEF Good, CallOK, Now, NONE
  <2>3. o.op # "lost" => IsCall(o) /\ (o.op = "open" => o.at \in {"super", "groups"} \cup AfterTables)
    BY <2>1, <2>2 DEF CallData, OpenOK, OpenData, OpenCall, ReadOK, ReadData, SeekOK, IsCall
  <2>4. Keeps(st, t)
    <3>1. Keeps(Now, t)
      BY NowServes
    <3>2. IsState(st) /\ st.hdd = Taken(Now.hdd) /\ st.call = Now.call
      BY DEF Now, IsState
    <3> HIDE DEF st
    <3>3. /\ DOMAIN st.hdd = DOMAIN Now.hdd /\ st.hdd.read_queue = Now.hdd.read_queue
          /\ st.hdd.command = Now.hdd.command
      BY <3>1, <3>2 DEF Taken, Keeps
    <3>4. QED
      BY <3>1, <3>2, <3>3 DEF Keeps
  <2> HIDE DEF units, st, o
  <2>5. o.op # "lost" => IsCall(c) /\ IsCall(d)
    BY <2>3 DEF IsCall
  <2>6. o.op = "open" => d.at = o.at
    <3>1. o.op = "open" => OpenCall(o)
      BY <2>2 DEF CallData, OpenOK, OpenData, ReadOK, ReadData, SeekOK
    <3>2. QED
      BY <3>1 DEF OpenCall
  <2> HIDE DEF c, d
  <2>7. o.op = "open" => Serves(OpenGoesOn(st, t, d), t)
    BY <2>3, <2>4, <2>5, <2>6, OpenGoesOnServes
  <2>8. o.op \in {"read", "seek"} => Serves(PageGoesOn(st, t, c, units), t)
    BY <2>4, <2>5, PageGoesOnServes
  <2>9. \E r : Serves(r, t) /\ Become(r)
    BY <2>1, <2>7, <2>8, NowServes
  <2>10. QED
    BY <2>1, <2>9, NotQueued, StepServes
<1>3. ASSUME NEW t \in Tasks, NEW path \in Paths, NEW flags \in {"rd", "wr"},
             ext2_open(t, path, flags)
      PROVE  Served'
  <2> DEFINE c == [op |-> "open", at |-> "super", path |-> path, flags |-> flags,
                   dir |-> ROOT_DIR_INODE, slot |-> -1, got |-> <<>>, list |-> <<>>,
                   inode |-> Nothing, double |-> <<>>,
                   parts |-> Parts(SUPERBLOCK_START, BLOCK)]
  <2>1. AtRest(t) /\ Become(IF disk.loaded THEN Walk(Now, t, c) ELSE Ask(Now, t, c))
    BY <1>3 DEF ext2_open
  <2>2. IsCall(c)
    BY DEF IsCall
  <2> HIDE DEF c
  <2>3. \E r : Serves(r, t) /\ Become(r)
    BY <2>1, <2>2, NowServes, WalkServes, AskServes
  <2>4. QED
    BY <2>1, <2>3, NotQueued, StepServes
<1>4. ASSUME NEW t \in Tasks, NEW s \in Slots
      PROVE  Keeps(Enter(t, s), t)
  <2> DEFINE e == Enter(t, s)
  <2>1. IsState(e) /\ e.hdd = Now.hdd /\ e.call = Now.call
    BY DEF Enter, Now, IsState
  <2> HIDE DEF e
  <2>2. QED
    BY <2>1, NowServes, SameQueue DEF e
<1>5. ASSUME NEW t \in Tasks, NEW s \in Slots, NEW size \in SIZES, ext2_file_read(t, s, size)
      PROVE  Served'
  <2> DEFINE f == files[s]
             c == [op |-> "read", slot |-> s, at |-> "first", left |-> size, asked |-> size,
                   from |-> f.stream_pos, got |-> <<>>, done |-> 0, parts |-> <<>>]
             p == [c EXCEPT !.parts = PageParts(f)]
  <2>1. /\ AtRest(t)
        /\ Become(IF f.buffer_empty THEN Ask(Enter(t, s), t, p) ELSE Copy(Enter(t, s), t, c))
    BY <1>5 DEF ext2_file_read
  <2> HIDE DEF f
  <2>2. IsCall(c) /\ IsCall(p)
    BY DEF IsCall
  <2> HIDE DEF c, p
  <2>3. \E r : Serves(r, t) /\ Become(r)
    BY <1>4, <2>1, <2>2, AskServes, CopyServes
  <2>4. QED
    BY <2>1, <2>3, NotQueued, StepServes
<1>6. ASSUME NEW t \in Tasks, NEW s \in Slots, NEW position \in POSITIONS,
             ext2_file_seek(t, s, position)
      PROVE  Served'
  <2> DEFINE f     == files[s]
             there == f.stream_pos \div PAGE = position \div PAGE
             st    == [Enter(t, s) EXCEPT !.files[s].stream_pos = position,
                                          !.files[s].buf_pos = IF there THEN position % PAGE
                                                               ELSE @]
             c     == [op |-> "seek", slot |-> s, done |-> 0,
                       parts |-> PageParts([f EXCEPT !.stream_pos = position])]
  <2>1. /\ AtRest(t)
        /\ Become(IF there /\ ~ f.buffer_empty THEN Return(st, t) ELSE Ask(st, t, c))
    BY <1>6 DEF ext2_file_seek
  <2>2. IsCall(c)
    BY DEF IsCall
  <2> HIDE DEF f, there, c
  <2>3. Keeps(Enter(t, s), t)
    BY <1>4
  <2>4. IsState(st) /\ st.hdd = Enter(t, s).hdd /\ st.call = Enter(t, s).call
    BY <2>3 DEF Keeps, IsState
  <2> HIDE DEF st
  <2>5. Keeps(st, t)
    BY <2>3, <2>4, SameQueue
  <2>6. \E r : Serves(r, t) /\ Become(r)
    BY <2>1, <2>2, <2>5, ReturnServes, AskServes DEF Serves
  <2>7. QED
    BY <2>1, <2>6, NotQueued, StepServes
<1>7. ASSUME NEW t \in Tasks, NEW s \in Slots, ext2_file_flush(t, s) PROVE Served'
  <2>1. hdd' = hdd /\ call' = call
    BY <1>7 DEF ext2_file_flush, Become, Now
  <2>2. QED
    BY <2>1 DEF Served, HasCommand, Contains
<1>8. ASSUME NEW t \in Tasks, NEW child \in Tasks, Fork(t, child) PROVE Served'
  <2> DEFINE r == [Now EXCEPT !.fds[child] = fds[t], !.call[child] = NoCall]
  <2>1. call[child].op = "unborn" /\ Become(r)
    BY <1>8 DEF Fork, Born
  <2>2. IsState(r) /\ r.hdd = Now.hdd /\ r.call = [Now.call EXCEPT ![child] = NoCall]
    BY DEF Now, IsState
  <2> HIDE DEF r
  <2>3. Keeps(Now, child)
    BY NowServes
  <2>4. Keeps(r, child)
    BY <2>2, <2>3 DEF Keeps
  <2>5. QED
    BY <2>1, <2>4, NotQueued, StepServes DEF Serves
<1>9. CASE UNCHANGED vars
  <2>1. hdd' = hdd /\ call' = call
    BY <1>9 DEF vars
  <2>2. QED
    BY <2>1 DEF Served, HasCommand, Contains
<1>10. QED
  BY <1>1, <1>2, <1>3, <1>5, <1>6, <1>7, <1>8, <1>9 DEF Next

-----------------------------------------------------------------------------
(* The theorems.                                                           *)
(* A process in read_queue waits for the sector of the command that        *)
(* hdd_block_read gave last, and no command is under way without one: the  *)
(* process that hdd_primary_handler wakes finds its own sector, until      *)
(* another command overtakes it.                                           *)
THEOREM Spec_WaitersHaveTheirCommand == Spec => []WaitersHaveTheirCommand
<1> DEFINE I == Good(Now) /\ Served
<1>1. Init => I
  <2>1. Init => hdd.read_queue = <<>>
    BY DEF Init
  <2>2. \A t : ~ Contains(<<>>, t)
    BY DEF Contains
  <2>3. Init => Served
    BY <2>1, <2>2 DEF Served
  <2>4. QED
    BY <2>3, InitIsGood
<1>2. I /\ [Next]_vars => I'
  BY NextIsGood, ServedKept
<1>3. I => WaitersHaveTheirCommand
  <2>1. Good(Now) /\ hdd.command # NO_SECTOR => hdd.read_queue # <<>>
    <3>1. Good(Now) /\ hdd.command # NO_SECTOR => Len(hdd.read_queue) = 1
      BY DEF Good, Tables, HddOK, Now
    <3>2. QED
      BY <3>1
  <2>2. QED
    BY <2>1 DEF Served, HasCommand, WaitersHaveTheirCommand
<1> HIDE DEF I
<1>4. QED
  BY <1>1, <1>2, <1>3, PTL DEF Spec

(* stream_pos of a file whose calls did not overlap is not beyond          *)
(* file_size, whatever ext2_file_read and ext2_file_seek do to it.         *)
THEOREM Spec_PositionInFile == Spec => []PositionInFile
<1>1. Init => Good(Now)
  BY InitIsGood
<1>2. Good(Now) /\ [Next]_vars => Good(Now)'
  BY NextIsGood
<1>3. Good(Now) => PositionInFile
  BY DEF Good, Tables, FilesOK, Now, PositionInFile
<1>4. QED
  BY <1>1, <1>2, <1>3, PTL DEF Spec

(* What ext2_file_read returns when no other call disturbed its own and no *)
(* seek began at the end of a page: the units of the file from stream_pos  *)
(* on, all of those asked for that there are, however many pages they span *)
(* and whatever reads, seeks, forks and calls on other files came before.  *)
THEOREM Spec_ReadsReturnTheFile == CARELESS = FALSE => (Spec => []ReadsReturnTheFile)
<1> SUFFICES ASSUME CARELESS = FALSE PROVE Spec => []ReadsReturnTheFile
  OBVIOUS
<1> DEFINE Inv == Good(Now) /\ Paged(Now) /\ ReadsReturnTheFile
<1>1. Init => Inv
  <2>1. Init => ReadsReturnTheFile
    BY DEF Init, NoAnswer, NONE, ReadsReturnTheFile
  <2>2. QED
    BY <2>1, InitIsGood, InitIsPaged
<1>2. Inv /\ [Next]_vars => Inv'
  BY NextIsGood, NextIsPaged
<1>3. Inv => ReadsReturnTheFile
  OBVIOUS
<1> HIDE DEF Inv
<1>4. QED
  BY <1>1, <1>2, <1>3, PTL DEF Spec
=============================================================================
