---------------------------- MODULE Memory_proofs ----------------------------
(***************************************************************************)
(* The frames that processes map are in use and every writable page that   *)
(* is not shared has a frame of its own, for any number of processes,      *)
(* frames and pages.  A frame has users at one address only (OneAddress),  *)
(* which is why the tests of mm_dir_free and mm_copy_on_write, that ask    *)
(* for any page of another process at the address, are enough.             *)
(***************************************************************************)
EXTENDS Memory, TLAPS, WellFoundedInduction

(* Whoever maps a frame maps it at the same address, and the kernel stack  *)
(* and the pages of run have one owner.                                    *)
OneAddress ==
  \A p, q \in Procs, v, w \in Pages :
    Present(p, v) /\ Maps(q, w, pt[p][v].frame) =>
      v = w /\ (p = q \/ v \in UserPages)

Frugal == MappedFramesAreUsed /\ OneAddress

(* The least of a set of numbers is one of them. *)
LEMMA LeastIsMember ==
  ASSUME NEW S \in SUBSET Nat, S # {}
  PROVE  Min(S) \in S
<1>1. PICK x \in S : \A y \in S : ~ (<<y, x>> \in OpToRel(<, Nat))
  BY NatLessThanWellFounded, WFMin
<1>2. ASSUME NEW y \in S PROVE x <= y
  <2>1. x \in Nat /\ y \in Nat
    OBVIOUS
  <2>2. y < x => <<y, x>> \in OpToRel(<, Nat)
    BY <2>1 DEF OpToRel
  <2>3. ~ (y < x)
    BY <1>1, <2>2
  <2>4. QED
    BY <2>1, <2>3
<1>3. QED
  BY <1>2 DEF Min

(* mm_mem_alloc gives a frame that was free, if there is one. *)
LEMMA Allocated ==
  ASSUME NEW fr \in SUBSET Frames, mm_mem_alloc(fr) # NULL
  PROVE  mm_mem_alloc(fr) \in fr
<1>1. fr \in SUBSET Nat
  BY MemoryAssumption DEF Frames
<1>2. QED
  BY <1>1, LeastIsMember DEF mm_mem_alloc

LEMMA AllocatedIfAny ==
  ASSUME NEW fr \in SUBSET Frames, fr # {}
  PROVE  mm_mem_alloc(fr) \in fr
<1>1. fr \in SUBSET Nat
  BY MemoryAssumption DEF Frames
<1>2. QED
  BY <1>1, LeastIsMember DEF mm_mem_alloc

(* The entries that the functions of mm.c write are page table entries. *)
LEMMA EntriesWritten ==
  /\ Absent \in Entries /\ Requested \in Entries
  /\ \A f \in Frames : /\ Mapped(f) \in Entries
                       /\ Shared(Mapped(f)) \in Entries
                       /\ ToBeCopied(Mapped(f)) \in Entries
  /\ \A e \in Entries :
       /\ e.state = "present" => e.frame \in Frames /\ e.cor = ~ e.rw
       /\ e.state = "present" => Entry(e.frame, TRUE, FALSE, e.shared) \in Entries
       /\ e.state = "present" => Shared(e) \in Entries
       /\ ChildEntry(e) \in Entries /\ FatherEntry(e) \in Entries
       /\ e.state = "present" =>
            ChildEntry(e).state = "present" /\ FatherEntry(e).state = "present"
<1>1. Absent \in Entries /\ Requested \in Entries
  BY DEF Entries
<1>2. ASSUME NEW f \in Frames
      PROVE  /\ Mapped(f) \in Entries
             /\ Shared(Mapped(f)) \in Entries
             /\ ToBeCopied(Mapped(f)) \in Entries
  <2>1. \A w, s \in BOOLEAN : Entry(f, w, ~ w, s) \in Entries
    BY DEF Entries
  <2>2. /\ Entry(f, TRUE, FALSE, FALSE) \in Entries
        /\ Entry(f, TRUE, FALSE, TRUE) \in Entries
        /\ Entry(f, FALSE, TRUE, FALSE) \in Entries
    BY <2>1, Zenon
  <2>3. /\ Mapped(f).frame = f /\ Mapped(f).rw = TRUE
        /\ Mapped(f).cor = FALSE /\ Mapped(f).shared = FALSE
    BY DEF Mapped, Entry
  <2>4. QED
    BY <2>2, <2>3 DEF Mapped, Shared, ToBeCopied
<1>3. ASSUME NEW e \in Entries, e.state = "present"
      PROVE  /\ e.frame \in Frames /\ e.cor = ~ e.rw
             /\ Entry(e.frame, TRUE, FALSE, e.shared) \in Entries
             /\ Shared(e) \in Entries
             /\ ToBeCopied(e) \in Entries
             /\ ToBeCopied(e).state = "present"
  <2>1. PICK f \in Frames, rw \in BOOLEAN, shared \in BOOLEAN :
          e = Entry(f, rw, ~ rw, shared)
    BY <1>3 DEF Entries, Absent, Requested
  <2>2. /\ e.frame = f /\ e.rw = rw /\ e.cor = ~ rw /\ e.shared = shared
    BY <2>1 DEF Entry
  <2>3. \A w, s \in BOOLEAN : Entry(f, w, ~ w, s) \in Entries
    BY DEF Entries
  <2>4. /\ Entry(f, TRUE, FALSE, shared) \in Entries
        /\ Entry(f, FALSE, TRUE, shared) \in Entries
    BY <2>3, Zenon
  <2>5. Shared(e) \in Entries
    BY <2>2, <2>3 DEF Shared
  <2>6. ToBeCopied(e).state = "present"
    BY DEF ToBeCopied, Entry
  <2>7. QED
    BY <2>2, <2>4, <2>5, <2>6 DEF ToBeCopied
<1>4. ASSUME NEW e \in Entries
      PROVE  /\ ChildEntry(e) \in Entries /\ FatherEntry(e) \in Entries
             /\ e.state = "present" =>
                  ChildEntry(e).state = "present" /\ FatherEntry(e).state = "present"
  <2>1. CASE e.state # "present"
    BY <2>1 DEF ChildEntry, FatherEntry
  <2>2. CASE e.state = "present"
    <3>1. e.frame \in Frames
      BY <1>3, <2>2
    <3>2. \A f : /\ Shared(Mapped(f)).state = "present"
                 /\ ToBeCopied(Mapped(f)).state = "present"
      BY DEF Mapped, Shared, Entry, ToBeCopied
    <3>3. QED
      BY <1>2, <1>3, <2>2, <3>1, <3>2 DEF ChildEntry, FatherEntry
  <2>3. QED
    BY <2>1, <2>2
<1>5. QED
  BY <1>1, <1>2, <1>3, <1>4

(* The addresses of the model are pages, and a process that has a page is  *)
(* alive.                                                                  *)
LEMMA Addresses ==
  /\ FIRST \in UserPages /\ KSTACK \notin UserPages /\ AREA \notin UserPages
  /\ KSTACK # AREA /\ UserPages \subseteq Pages
  /\ KSTACK \in Pages /\ AREA \in Pages
  BY MemoryAssumption DEF FIRST, KSTACK, AREA, UserPages, Pages, Heap

LEMMA PresentIsAlive ==
  ASSUME TypeOK, NEW p \in Procs, NEW v \in Pages, Present(p, v)
  PROVE  p \in alive /\ pt[p][v] \in Entries /\ pt[p][v].frame \in Frames
<1>1. p \in alive
  BY DEF TypeOK, Present, NoPages, Absent
<1>2. pt[p][v] \in Entries
  BY DEF TypeOK
<1>3. QED
  BY <1>1, <1>2, EntriesWritten DEF Present

(* Type correctness, one step per function of mm.c and loader.c. *)
LEMMA TypePreserved ==
  ASSUME TypeOK, [Next]_vars
  PROVE  TypeOK'
<1>1. CASE UNCHANGED vars
  BY <1>1 DEF vars, TypeOK, Present
<1>2. ASSUME NEW p \in Procs, Exit(p)
      PROVE  TypeOK'
  <2>1. \A v \in Pages : Present(p, v) => pt[p][v].frame \in Frames
    BY PresentIsAlive
  <2>2. free' \subseteq Frames
    BY <1>2, <2>1 DEF Exit, TypeOK
  <2>3. NoPages \in [Pages -> Entries]
    BY EntriesWritten DEF NoPages
  <2>4. pt' \in [Procs -> [Pages -> Entries]]
    BY <1>2, <2>3 DEF Exit, TypeOK
  <2>5. QED
    BY <1>2, <2>2, <2>4 DEF Exit, TypeOK, Present
<1>3. ASSUME NEW p \in Procs, p \in alive, NEW v \in Pages, NEW e \in Entries,
             e.state = "present" \/ v \notin {FIRST, KSTACK},
             pt' = [pt EXCEPT ![p][v] = e],
             alive' = alive, next_empty' \in [Procs -> 1 .. HEAP + 1],
             free' \subseteq Frames, mem' \in [Frames -> Values]
      PROVE  TypeOK'
  <2>1. pt' \in [Procs -> [Pages -> Entries]]
    BY <1>3 DEF TypeOK
  <2>2. \A q \in alive' : Present(q, FIRST)' /\ Present(q, KSTACK)'
    BY <1>3, Addresses DEF TypeOK, Present
  <2>3. QED
    BY <1>3, <2>1, <2>2 DEF TypeOK
<1>4. ASSUME NEW p \in Procs, palloc(p)
      PROVE  TypeOK'
  <2>1. next_empty[p] \in Heap /\ next_empty[p] + 1 \in 1 .. HEAP + 1
    BY <1>4, MemoryAssumption DEF palloc, TypeOK, Heap
  <2>2. next_empty' \in [Procs -> 1 .. HEAP + 1]
    BY <1>4, <2>1 DEF palloc, TypeOK
  <2>3. next_empty[p] \in Pages /\ next_empty[p] \notin {FIRST, KSTACK}
    BY <2>1, MemoryAssumption DEF Pages, Heap, FIRST, KSTACK
  <2>4. QED
    BY <1>3, <1>4, <2>2, <2>3, EntriesWritten DEF palloc, InUserMode, TypeOK
<1>5. ASSUME NEW p \in Procs, NEW v \in UserPages, PageFault(p, v)
      PROVE  TypeOK'
  <2>0. p \in alive /\ v \in Pages /\ free \subseteq Frames
    BY <1>5, Addresses DEF PageFault, InUserMode, TypeOK
  <2>1. CASE mm_user_allocate(p, v)
    <3>1. CASE mm_mem_alloc(free) = NULL
      BY <1>2, <2>1, <3>1 DEF mm_user_allocate
    <3>2. CASE mm_mem_alloc(free) # NULL
      <4>1. mm_mem_alloc(free) \in free
        BY <2>0, <3>2, Allocated
      <4>2. Mapped(mm_mem_alloc(free)) \in Entries
            /\ Mapped(mm_mem_alloc(free)).state = "present"
        BY <2>0, <4>1, EntriesWritten DEF Mapped, Entry
      <4>3. QED
        BY <1>3, <2>0, <2>1, <3>2, <4>1, <4>2 DEF mm_user_allocate, TypeOK
    <3>3. QED
      BY <3>1, <3>2
  <2>2. CASE Present(p, v) /\ mm_copy_on_write(p, v)
    <3>0. pt[p][v] \in Entries /\ pt[p][v].frame \in Frames
      BY <2>0, <2>2, PresentIsAlive
    <3>1. CASE ~ CopiedByOthers(p, v)
      <4>1. Entry(pt[p][v].frame, TRUE, FALSE, pt[p][v].shared) \in Entries
        BY <2>2, <3>0, EntriesWritten DEF Present
      <4>2. Entry(pt[p][v].frame, TRUE, FALSE, pt[p][v].shared).state = "present"
        BY DEF Entry
      <4>3. pt' = [pt EXCEPT ![p][v] =
                     Entry(pt[p][v].frame, TRUE, FALSE, pt[p][v].shared)]
        BY <2>0, <2>2, <3>1 DEF mm_copy_on_write, TypeOK
      <4>4. QED
        BY <1>3, <2>0, <2>2, <3>1, <4>1, <4>2, <4>3 DEF mm_copy_on_write, TypeOK
    <3>2. CASE CopiedByOthers(p, v) /\ mm_mem_alloc(free) = NULL
      BY <1>2, <2>2, <3>2 DEF mm_copy_on_write
    <3>3. CASE CopiedByOthers(p, v) /\ mm_mem_alloc(free) # NULL
      <4>1. mm_mem_alloc(free) \in free
        BY <2>0, <3>3, Allocated
      <4>2. Mapped(mm_mem_alloc(free)) \in Entries
            /\ Mapped(mm_mem_alloc(free)).state = "present"
        BY <2>0, <4>1, EntriesWritten DEF Mapped, Entry
      <4>3. mem' \in [Frames -> Values]
        BY <2>0, <2>2, <3>0, <3>3, <4>1 DEF mm_copy_on_write, TypeOK
      <4>4. QED
        BY <1>3, <2>0, <2>2, <3>3, <4>1, <4>2, <4>3 DEF mm_copy_on_write, TypeOK
    <3>4. QED
      BY <3>1, <3>2, <3>3
  <2>3. QED
    BY <1>2, <1>5, <2>1, <2>2 DEF PageFault
<1>6. ASSUME NEW p \in Procs, NEW v \in UserPages, share_page(p, v)
      PROVE  TypeOK'
  <2>0. p \in alive /\ v \in Pages /\ free \subseteq Frames
    BY <1>6, Addresses DEF share_page, InUserMode, TypeOK
  <2>1. CASE Present(p, v) /\ pt' = [pt EXCEPT ![p][v] = Shared(@)]
                           /\ UNCHANGED <<alive, next_empty, free, mem>>
    <3>1. Shared(pt[p][v]) \in Entries /\ Shared(pt[p][v]).state = "present"
      BY <2>0, <2>1, PresentIsAlive, EntriesWritten DEF Present, Shared, Entry
    <3>2. pt' = [pt EXCEPT ![p][v] = Shared(pt[p][v])]
      BY <2>0, <2>1 DEF TypeOK
    <3>3. QED
      BY <1>3, <2>0, <2>1, <3>1, <3>2 DEF TypeOK
  <2>2. CASE mm_mem_alloc(free) = NULL /\ Exit(p)
    BY <1>2, <2>2
  <2>3. CASE /\ mm_mem_alloc(free) # NULL
             /\ pt' = [pt EXCEPT ![p][v] = Shared(Mapped(mm_mem_alloc(free)))]
             /\ free' = free \ {mm_mem_alloc(free)}
             /\ UNCHANGED <<alive, next_empty, mem>>
    <3>1. mm_mem_alloc(free) \in free
      BY <2>0, <2>3, Allocated
    <3>2. /\ Shared(Mapped(mm_mem_alloc(free))) \in Entries
          /\ Shared(Mapped(mm_mem_alloc(free))).state = "present"
      BY <2>0, <3>1, EntriesWritten DEF Shared, Entry
    <3>3. QED
      BY <1>3, <2>0, <2>3, <3>1, <3>2 DEF TypeOK
  <2>4. QED
    BY <1>6, <2>1, <2>2, <2>3 DEF share_page
<1>7. ASSUME NEW p \in Procs, NEW v \in UserPages, NEW x \in Values,
             Store(p, v, x) \/ copy2user(p, v, x)
      PROVE  TypeOK'
  BY <1>7 DEF Store, copy2user, Stored, TypeOK, Present
<1>8. ASSUME NEW p \in Procs, Run(p)
      PROVE  TypeOK'
  <2>1. mm_mem_alloc(free) \in free /\ free \subseteq Frames
    BY <1>8, Allocated DEF Run, TypeOK
  <2>2. Mapped(mm_mem_alloc(free)) \in Entries
    BY <2>1, EntriesWritten
  <2>3. Mapped(mm_mem_alloc(free)).state = "present"
    BY DEF Mapped, Entry
  <2>4. mem' \in [Frames -> Values]
    BY <1>8, <2>1 DEF Run, TypeOK
  <2>5. QED
    BY <1>3, <1>8, <2>1, <2>2, <2>3, <2>4, Addresses DEF Run, InUserMode, TypeOK
<1>9. ASSUME NEW p \in Procs, RunFails(p)
      PROVE  TypeOK'
  <2>1. p \in alive /\ pt[p][AREA].frame \in Frames
    BY <1>9, PresentIsAlive, Addresses DEF RunFails
  <2>2. AREA \notin {FIRST, KSTACK}
    BY Addresses
  <2>3. QED
    BY <1>3, <1>9, <2>1, <2>2, Addresses, EntriesWritten DEF RunFails, TypeOK
<1>10. ASSUME NEW p \in Procs, NEW c \in Procs, Fork(p, c)
       PROVE  TypeOK'
  <2> DEFINE kstack == mm_mem_alloc(free)
  <2>1. p \in alive /\ c \notin alive /\ c # p
    BY <1>10 DEF Fork, InUserMode, NewPid
  <2>2. kstack \in free /\ free \subseteq Frames
    BY <1>10, Allocated DEF Fork, TypeOK
  <2>3. /\ Mapped(kstack) \in Entries
        /\ Mapped(kstack).state = "present"
    BY <2>2, EntriesWritten DEF Mapped, Entry
  <2>4. \A v \in Pages : /\ ChildEntry(pt[p][v]) \in Entries
                         /\ FatherEntry(pt[p][v]) \in Entries
    <3>1. \A v \in Pages : pt[p][v] \in Entries
      BY DEF TypeOK
    <3>2. QED
      BY <3>1, EntriesWritten
  <2>5. /\ pt' \in [Procs -> [Pages -> Entries]]
        /\ pt'[p] = [v \in Pages |-> IF v = KSTACK THEN pt[p][v]
                                                   ELSE FatherEntry(pt[p][v])]
        /\ pt'[c] = [v \in Pages |-> IF v = KSTACK THEN Mapped(kstack)
                                                   ELSE ChildEntry(pt[p][v])]
        /\ \A q \in Procs \ {p, c} : pt'[q] = pt[q]
    BY <1>10, <2>1, <2>3, <2>4 DEF Fork, TypeOK
  <2>6. Present(p, FIRST) /\ Present(p, KSTACK)
    BY <2>1 DEF TypeOK
  <2>7. /\ FatherEntry(pt[p][FIRST]).state = "present"
        /\ ChildEntry(pt[p][FIRST]).state = "present"
    BY <2>6, PresentIsAlive, Addresses, EntriesWritten DEF Present
  <2>8. /\ Present(p, FIRST)' /\ Present(p, KSTACK)'
        /\ Present(c, FIRST)' /\ Present(c, KSTACK)'
    BY <2>3, <2>5, <2>6, <2>7, Addresses DEF Present
  <2>9. alive' = alive \cup {c}
    BY <1>10 DEF Fork
  <2>10. \A q \in alive' : Present(q, FIRST)' /\ Present(q, KSTACK)'
    BY <2>5, <2>8, <2>9 DEF TypeOK, Present
  <2>11. \A q \in Procs \ alive' : pt'[q] = NoPages
    BY <2>1, <2>5, <2>9 DEF TypeOK
  <2>12. next_empty' \in [Procs -> 1 .. HEAP + 1] /\ mem' \in [Frames -> Values]
         /\ free' \subseteq Frames
    BY <1>10, <2>2 DEF Fork, TypeOK
  <2>13. QED
    BY <2>5, <2>9, <2>10, <2>11, <2>12 DEF TypeOK
<1>11. ASSUME NEW p \in Procs, NEW c \in Procs, Load(p, c)
       PROVE  TypeOK'
  <2> DEFINE kstack == mm_mem_alloc(free)
  <2> DEFINE first == mm_mem_alloc(free \ {kstack})
  <2>1. p \in alive /\ c \notin alive /\ c # p /\ pt[p][AREA].frame \in Frames
    BY <1>11, PresentIsAlive, Addresses DEF Load, NewPid
  <2>2. first \in free /\ free \subseteq Frames
    BY <1>11, Allocated DEF Load, TypeOK
  <2>3. kstack \in free
    BY <2>2, AllocatedIfAny
  <2>4. pt[p][FIRST].frame \in Frames
    BY <2>1, PresentIsAlive, Addresses DEF TypeOK
  <2>5. \A f \in Frames : Mapped(f) \in Entries /\ Mapped(f).state = "present"
    BY EntriesWritten DEF Mapped, Entry
  <2>6. NoPages \in [Pages -> Entries] /\ Absent \in Entries
    BY EntriesWritten DEF NoPages
  <2>7. /\ Mapped(pt[p][FIRST].frame) \in Entries
        /\ Mapped(kstack) \in Entries /\ Mapped(first) \in Entries
    BY <2>2, <2>3, <2>4, <2>5
  <2> DEFINE mine == [pt[p] EXCEPT ![FIRST] = Mapped(pt[p][FIRST].frame),
                                   ![AREA] = Absent]
  <2> DEFINE its == [NoPages EXCEPT ![KSTACK] = Mapped(kstack),
                                    ![FIRST] = Mapped(first)]
  <2>8. mine \in [Pages -> Entries] /\ its \in [Pages -> Entries]
    BY <2>6, <2>7, Addresses DEF TypeOK
  <2>9. pt' = [pt EXCEPT ![p] = mine, ![c] = its]
    BY <1>11 DEF Load
  <2>10. /\ pt' \in [Procs -> [Pages -> Entries]]
         /\ pt'[p] = mine /\ pt'[c] = its
         /\ \A q \in Procs \ {p, c} : pt'[q] = pt[q]
    BY <2>1, <2>8, <2>9 DEF TypeOK
  <2>11. Present(p, FIRST)' /\ Present(p, KSTACK)'
    <3>1. mine[FIRST] = Mapped(pt[p][FIRST].frame) /\ mine[KSTACK] = pt[p][KSTACK]
      BY Addresses DEF TypeOK
    <3>2. QED
      BY <2>1, <2>4, <2>5, <2>10, <3>1 DEF TypeOK, Present
  <2>12. Present(c, FIRST)' /\ Present(c, KSTACK)'
    <3>1. its[FIRST] = Mapped(first) /\ its[KSTACK] = Mapped(kstack)
      BY Addresses DEF NoPages
    <3>2. QED
      BY <2>2, <2>3, <2>5, <2>10, <3>1 DEF Present
  <2>13. alive' = alive \cup {c}
    BY <1>11 DEF Load
  <2>14. \A q \in alive' : Present(q, FIRST)' /\ Present(q, KSTACK)'
    BY <2>10, <2>11, <2>12, <2>13 DEF TypeOK, Present
  <2>15. \A q \in Procs \ alive' : pt'[q] = NoPages
    BY <2>1, <2>10, <2>13 DEF TypeOK
  <2>16. free' \subseteq Frames
    BY <1>11, <2>1, <2>2 DEF Load
  <2>17. next_empty' \in [Procs -> 1 .. HEAP + 1]
    BY <1>11, MemoryAssumption DEF Load, TypeOK
  <2>18. mem' \in [Frames -> Values]
    BY <1>11, <2>1, <2>2 DEF Load, TypeOK
  <2>19. QED
    BY <2>10, <2>13, <2>14, <2>15, <2>16, <2>17, <2>18 DEF TypeOK
<1>12. QED
  BY <1>1, <1>2, <1>4, <1>5, <1>6, <1>7, <1>8, <1>9, <1>10, <1>11 DEF Next

-----------------------------------------------------------------------------
(* Page w of q had its frame before the step: it was there already, or     *)
(* another process has the user page at that address.                      *)
HandedOn(q, w) == \E o \in Procs : /\ Maps(o, w, pt'[q][w].frame)
                                   /\ o = q \/ w \in UserPages

(* Page w of q is the one page of a frame that the step takes.             *)
Given(q, w, taken) ==
  /\ pt'[q][w].frame \in taken
  /\ \A r \in Procs, x \in Pages :
       Present(r, x)' /\ pt'[r][x].frame = pt'[q][w].frame => r = q /\ x = w

HandsOn(taken, released) ==
  /\ \A q \in Procs, w \in Pages : Present(q, w)' =>
       /\ HandedOn(q, w) \/ Given(q, w, taken)
       /\ pt'[q][w].frame \notin released
  /\ free' \subseteq (free \ taken) \cup released

(* After a step that hands frames on, maps the frames it takes at one page *)
(* each, and frees frames that nobody maps any longer, the frames that are *)
(* mapped are in use and have one address.                                 *)
LEMMA FramesHandedOn ==
  ASSUME Frugal, NEW taken, NEW released, HandsOn(taken, released)
  PROVE  Frugal'
<1>1. MappedFramesAreUsed'
  BY DEF Frugal, MappedFramesAreUsed, Maps, HandsOn, HandedOn, Given
<1>2. ASSUME NEW p \in Procs, NEW q \in Procs, NEW v \in Pages, NEW w \in Pages,
             Present(p, v)', Present(q, w)', pt'[q][w].frame = pt'[p][v].frame
      PROVE  v = w /\ (p = q \/ v \in UserPages)
  <2>1. CASE HandedOn(p, v) /\ HandedOn(q, w)
    BY <1>2, <2>1 DEF Frugal, OneAddress, Maps, HandedOn
  <2>2. CASE Given(p, v, taken) \/ Given(q, w, taken)
    BY <1>2, <2>2 DEF Given
  <2>3. QED
    BY <1>2, <2>1, <2>2 DEF HandsOn
<1>3. OneAddress'
  BY <1>2 DEF OneAddress, Maps
<1>4. QED
  BY <1>1, <1>3 DEF Frugal

(* A page table entry written for one page: absent, for the frame it had,  *)
(* or for a frame that was free.                                           *)
LEMMA OnePage ==
  ASSUME TypeOK, Frugal, NEW p \in Procs, NEW v \in Pages, NEW e \in Entries,
         pt' = [pt EXCEPT ![p][v] = e],
         \/ e.state # "present" /\ free' = free
         \/ Present(p, v) /\ e.frame = pt[p][v].frame /\ free' = free
         \/ e.frame \in free /\ free' = free \ {e.frame}
  PROVE  Frugal'
<1>1. /\ pt'[p][v] = e
      /\ \A q \in Procs, w \in Pages : <<q, w>> # <<p, v>> => pt'[q][w] = pt[q][w]
  BY DEF TypeOK
<1>2. CASE e.state # "present" /\ free' = free
  <2>1. HandsOn({}, {})
    BY <1>1, <1>2 DEF Present, Maps, HandsOn, HandedOn
  <2>2. QED
    BY <2>1, FramesHandedOn
<1>3. CASE Present(p, v) /\ e.frame = pt[p][v].frame /\ free' = free
  <2>1. HandsOn({}, {})
    BY <1>1, <1>3 DEF Present, Maps, HandsOn, HandedOn
  <2>2. QED
    BY <2>1, FramesHandedOn
<1>4. CASE e.frame \in free /\ free' = free \ {e.frame}
  <2>1. \A q \in Procs, w \in Pages : Present(q, w)' /\ <<q, w>> # <<p, v>>
          => Maps(q, w, pt'[q][w].frame) /\ pt'[q][w].frame # e.frame
    BY <1>1, <1>4 DEF Present, Maps, Frugal, MappedFramesAreUsed
  <2>2. HandsOn({e.frame}, {})
    BY <1>1, <1>4, <2>1 DEF HandsOn, HandedOn, Given
  <2>3. QED
    BY <2>2, FramesHandedOn
<1>5. QED
  BY <1>2, <1>3, <1>4

(* mm_dir_free: a frame that another process maps has the same address     *)
(* there, where the two tests of mm_dir_free find it.                      *)
LEMMA ExitFrugal ==
  ASSUME TypeOK, Frugal, NEW p \in Procs, Exit(p)
  PROVE  Frugal'
<1> DEFINE released == {pt[p][v].frame : v \in {u \in Pages :
                          Present(p, u) /\ ~ KeepsFrame(p, u)}}
<1>1. \A q \in Procs, w \in Pages :
        Present(q, w)' => q # p /\ pt'[q][w] = pt[q][w]
  BY DEF Exit, TypeOK, Present, NoPages, Absent
<1>2. ASSUME NEW q \in Procs, NEW w \in Pages, Present(q, w)'
      PROVE  HandedOn(q, w) /\ pt'[q][w].frame \notin released
  <2>1. q # p /\ Present(q, w) /\ pt'[q][w] = pt[q][w]
    BY <1>1, <1>2 DEF Present
  <2>2. ASSUME NEW v \in Pages, Present(p, v), ~ KeepsFrame(p, v),
               pt[q][w].frame = pt[p][v].frame
        PROVE  FALSE
    <3>1. v = w
      BY <2>1, <2>2 DEF Frugal, OneAddress, Maps
    <3>2. q \in alive \ {p}
      BY <2>1, PresentIsAlive
    <3>3. QED
      BY <2>1, <2>2, <3>1, <3>2 DEF KeepsFrame, CopiedByOthers
  <2>3. QED
    BY <2>1, <2>2 DEF HandedOn, Maps
<1>3. free' = free \cup released
  BY DEF Exit
<1>4. HandsOn({}, released)
  BY <1>2, <1>3 DEF HandsOn
<1>5. QED
  BY <1>4, FramesHandedOn

(* A frame that mm_mem_alloc gives, mapped at one page. *)
LEMMA AllocatedFrugal ==
  ASSUME TypeOK, Frugal, NEW p \in Procs, NEW v \in Pages, NEW e \in Entries,
         mm_mem_alloc(free) # NULL, e.frame = mm_mem_alloc(free),
         pt' = [pt EXCEPT ![p][v] = e], free' = free \ {mm_mem_alloc(free)}
  PROVE  Frugal'
<1>1. mm_mem_alloc(free) \in free /\ free \subseteq Frames
  BY Allocated DEF TypeOK
<1>2. QED
  BY <1>1, OnePage

LEMMA MappedFacts ==
  \A f : /\ Mapped(f).state = "present" /\ Mapped(f).frame = f
         /\ Mapped(f).rw = TRUE /\ Mapped(f).shared = FALSE
         /\ Shared(Mapped(f)).frame = f
  BY DEF Mapped, Shared, Entry

LEMMA FaultFrugal ==
  ASSUME TypeOK, Frugal, NEW p \in Procs, NEW v \in UserPages, PageFault(p, v)
  PROVE  Frugal'
<1>1. v \in Pages /\ free \subseteq Frames
  BY Addresses DEF TypeOK
<1>2. mm_mem_alloc(free) # NULL => Mapped(mm_mem_alloc(free)) \in Entries
  BY <1>1, Allocated, EntriesWritten
<1>3. CASE mm_user_allocate(p, v)
  BY <1>1, <1>2, <1>3, ExitFrugal, AllocatedFrugal, MappedFacts DEF mm_user_allocate
<1>4. CASE Present(p, v) /\ mm_copy_on_write(p, v)
  <2>1. CASE ~ CopiedByOthers(p, v)
    <3> DEFINE e == Entry(pt[p][v].frame, TRUE, FALSE, pt[p][v].shared)
    <3>1. pt[p][v] \in Entries
      BY <1>1 DEF TypeOK
    <3>2. e \in Entries
      BY <1>4, <3>1, EntriesWritten DEF Present
    <3>3. e.frame = pt[p][v].frame
      BY DEF Entry
    <3>4. pt' = [pt EXCEPT ![p][v] = e] /\ free' = free
      BY <1>1, <1>4, <2>1 DEF mm_copy_on_write, TypeOK
    <3>5. QED
      BY <1>1, <1>4, <3>2, <3>3, <3>4, OnePage
  <2>2. CASE CopiedByOthers(p, v)
    BY <1>1, <1>2, <1>4, <2>2, ExitFrugal, AllocatedFrugal, MappedFacts
    DEF mm_copy_on_write
  <2>3. QED
    BY <2>1, <2>2
<1>5. QED
  BY <1>3, <1>4, ExitFrugal DEF PageFault

LEMMA ShareFrugal ==
  ASSUME TypeOK, Frugal, NEW p \in Procs, NEW v \in UserPages, share_page(p, v)
  PROVE  Frugal'
<1>1. v \in Pages /\ free \subseteq Frames
  BY Addresses DEF TypeOK
<1>2. CASE Present(p, v) /\ pt' = [pt EXCEPT ![p][v] = Shared(@)] /\ free' = free
  <2>1. pt[p][v] \in Entries
    BY <1>1 DEF TypeOK
  <2>2. Shared(pt[p][v]) \in Entries /\ Shared(pt[p][v]).frame = pt[p][v].frame
    BY <1>2, <2>1, EntriesWritten DEF Present, Shared, Entry
  <2>3. pt' = [pt EXCEPT ![p][v] = Shared(pt[p][v])]
    BY <1>1, <1>2 DEF TypeOK
  <2>4. QED
    BY <1>1, <1>2, <2>2, <2>3, OnePage
<1>3. CASE /\ mm_mem_alloc(free) # NULL
           /\ pt' = [pt EXCEPT ![p][v] = Shared(Mapped(mm_mem_alloc(free)))]
           /\ free' = free \ {mm_mem_alloc(free)}
  <2>1. Shared(Mapped(mm_mem_alloc(free))) \in Entries
    BY <1>1, <1>3, Allocated, EntriesWritten
  <2>2. QED
    BY <1>1, <1>3, <2>1, AllocatedFrugal, MappedFacts
<1>4. QED
  BY <1>2, <1>3, ExitFrugal DEF share_page

(* What the two entries of fork have of the one they come from: a shared   *)
(* page stays what it is and is writable in the child, any other page is   *)
(* writable in neither.                                                    *)
LEMMA ForkedEntries ==
  ASSUME NEW e \in Entries
  PROVE  /\ e.state # "present" => ChildEntry(e) = e /\ FatherEntry(e) = e
         /\ e.state = "present" =>
              ChildEntry(e).frame = e.frame /\ FatherEntry(e).frame = e.frame
         /\ e.state = "present" /\ e.shared =>
              ChildEntry(e).rw /\ ChildEntry(e).shared /\ FatherEntry(e) = e
         /\ e.state = "present" /\ ~ e.shared =>
              /\ ~ ChildEntry(e).rw /\ ~ ChildEntry(e).shared
              /\ ~ FatherEntry(e).rw /\ ~ FatherEntry(e).shared
<1>1. CASE e.state # "present"
  BY <1>1 DEF ChildEntry, FatherEntry
<1>2. CASE e.state = "present" /\ e.shared
  BY <1>2 DEF ChildEntry, FatherEntry, Mapped, Shared, Entry
<1>3. CASE e.state = "present" /\ ~ e.shared
  <2>1. /\ ChildEntry(e) = Entry(e.frame, FALSE, TRUE, FALSE)
        /\ FatherEntry(e) = Entry(e.frame, FALSE, TRUE, e.shared)
    BY <1>3 DEF ChildEntry, FatherEntry, Mapped, ToBeCopied, Entry
  <2>2. /\ ChildEntry(e).frame = e.frame /\ ChildEntry(e).rw = FALSE
        /\ ChildEntry(e).shared = FALSE
    BY <2>1 DEF Entry
  <2>3. /\ FatherEntry(e).frame = e.frame /\ FatherEntry(e).rw = FALSE
        /\ FatherEntry(e).shared = e.shared
    BY <2>1 DEF Entry
  <2>4. ~ FatherEntry(e).shared
    BY <1>3, <2>3, Zenon
  <2>5. ~ ChildEntry(e).rw /\ ~ ChildEntry(e).shared /\ ~ FatherEntry(e).rw
    BY <2>2, <2>3, Zenon
  <2>6. QED
    BY <1>3, <2>2, <2>3, <2>4, <2>5, Zenon
<1>4. QED
  BY <1>1, <1>2, <1>3

LEMMA ForkFrugal ==
  ASSUME TypeOK, Frugal, NEW p \in Procs, NEW c \in Procs, Fork(p, c)
  PROVE  Frugal'
<1> DEFINE kstack == mm_mem_alloc(free)
<1>1. p # c /\ p \in alive /\ c \notin alive /\ ~ Present(p, AREA)
  BY DEF Fork, InUserMode, NewPid
<1>2. kstack \in free
  BY Allocated DEF Fork, TypeOK
<1>3. /\ \A v \in Pages : pt'[p][v] = IF v = KSTACK THEN pt[p][v]
                                       ELSE FatherEntry(pt[p][v])
      /\ \A v \in Pages : pt'[c][v] = IF v = KSTACK THEN Mapped(kstack)
                                       ELSE ChildEntry(pt[p][v])
      /\ \A q \in Procs \ {p, c} : pt'[q] = pt[q]
  BY <1>1 DEF Fork, TypeOK
<1>4. ASSUME NEW q \in Procs, NEW w \in Pages, Present(q, w)',
             q # c \/ w # KSTACK
      PROVE  HandedOn(q, w) /\ pt'[q][w].frame # kstack
  <2>1. \A v \in Pages : pt[p][v] \in Entries
    BY DEF TypeOK
  <2>2. \A o \in Procs, v \in Pages : Present(o, v) => pt[o][v].frame # kstack
    BY <1>2 DEF Frugal, MappedFramesAreUsed
  <2>3. CASE q = c
    <3>1. pt'[c][w] = ChildEntry(pt[p][w])
      BY <1>3, <1>4, <2>3
    <3>2. Present(p, w) /\ pt'[c][w].frame = pt[p][w].frame
      BY <1>4, <2>1, <2>3, <3>1, ForkedEntries DEF Present
    <3>3. w \in UserPages
      BY <1>1, <1>4, <2>3, <3>2 DEF Pages, UserPages
    <3>4. QED
      BY <2>2, <2>3, <3>2, <3>3 DEF HandedOn, Maps
  <2>4. CASE q = p
    <3>1. Present(p, w) /\ pt'[p][w].frame = pt[p][w].frame
      BY <1>3, <1>4, <2>1, <2>4, ForkedEntries DEF Present
    <3>2. QED
      BY <2>2, <2>4, <3>1 DEF HandedOn, Maps
  <2>5. CASE q \in Procs \ {p, c}
    BY <1>3, <1>4, <2>2, <2>5 DEF HandedOn, Maps, Present
  <2>6. QED
    BY <2>3, <2>4, <2>5
<1>5. pt'[c][KSTACK] = Mapped(kstack) /\ pt'[c][KSTACK].frame = kstack
  BY <1>3, MappedFacts, Addresses
<1>6. Given(c, KSTACK, {kstack})
  BY <1>4, <1>5 DEF Given
<1>7. free' = free \ {kstack}
  BY DEF Fork
<1>8. HandsOn({kstack}, {})
  BY <1>4, <1>6, <1>7 DEF HandsOn
<1>9. QED
  BY <1>8, FramesHandedOn

LEMMA LoadFrugal ==
  ASSUME TypeOK, Frugal, NEW p \in Procs, NEW c \in Procs, Load(p, c)
  PROVE  Frugal'
<1> DEFINE kstack == mm_mem_alloc(free)
<1> DEFINE first == mm_mem_alloc(free \ {kstack})
<1> DEFINE area == pt[p][AREA].frame
<1> DEFINE mine == [pt[p] EXCEPT ![FIRST] = Mapped(pt[p][FIRST].frame),
                                 ![AREA] = Absent]
<1> DEFINE its == [NoPages EXCEPT ![KSTACK] = Mapped(kstack),
                                  ![FIRST] = Mapped(first)]
<1>1. Present(p, AREA) /\ p \in alive /\ c \notin alive /\ c # p
  BY PresentIsAlive, Addresses DEF Load, NewPid
<1>2. free \subseteq Frames /\ free \ {kstack} \subseteq Frames
  BY DEF TypeOK
<1>3. first \in free \ {kstack}
  BY <1>2, Allocated DEF Load
<1>4. kstack \in free
  BY <1>2, <1>3, AllocatedIfAny
<1>5. /\ \A v \in Pages : pt'[p][v] = mine[v]
      /\ \A v \in Pages : pt'[c][v] = its[v]
      /\ \A q \in Procs \ {p, c} : pt'[q] = pt[q]
  BY <1>1 DEF Load, TypeOK
<1>6. /\ pt'[p][FIRST] = Mapped(pt[p][FIRST].frame) /\ pt'[p][AREA] = Absent
      /\ \A v \in Pages \ {FIRST, AREA} : pt'[p][v] = pt[p][v]
  BY <1>5, Addresses DEF TypeOK
<1>7. /\ pt'[c][KSTACK] = Mapped(kstack) /\ pt'[c][FIRST] = Mapped(first)
      /\ \A v \in Pages \ {KSTACK, FIRST} : pt'[c][v] = Absent
  BY <1>5, Addresses DEF NoPages
<1>8. \A o \in Procs, v \in Pages : Present(o, v) => pt[o][v].frame \notin free
  BY DEF Frugal, MappedFramesAreUsed
<1>9. ASSUME NEW q \in Procs, NEW w \in Pages, Present(q, w)',
             q # c \/ w \notin {KSTACK, FIRST}
      PROVE  /\ HandedOn(q, w) /\ pt'[q][w].frame # area
             /\ pt'[q][w].frame # kstack /\ pt'[q][w].frame # first
  <2>1. q # c
    BY <1>7, <1>9 DEF Present, Absent
  <2>2. Present(p, FIRST)
    BY <1>1 DEF TypeOK
  <2>3. Present(q, w) /\ pt'[q][w].frame = pt[q][w].frame /\ <<q, w>> # <<p, AREA>>
    BY <1>5, <1>6, <1>9, <2>1, <2>2, MappedFacts DEF Present, Absent
  <2>4. pt[q][w].frame # area
    BY <1>1, <2>3, Addresses DEF Frugal, OneAddress, Maps
  <2>5. QED
    BY <1>3, <1>4, <1>8, <2>3, <2>4 DEF HandedOn, Maps
<1>10. pt'[c][KSTACK].frame = kstack /\ pt'[c][FIRST].frame = first
  BY <1>7, MappedFacts
<1>11. Given(c, KSTACK, {kstack, first}) /\ Given(c, FIRST, {kstack, first})
  BY <1>3, <1>9, <1>10 DEF Given
<1>12. kstack # area /\ first # area
  BY <1>1, <1>3, <1>4, <1>8, Addresses
<1>13. free' \subseteq (free \ {kstack, first}) \cup {area}
  BY DEF Load
<1>14. HandsOn({kstack, first}, {area})
  BY <1>9, <1>10, <1>11, <1>12, <1>13 DEF HandsOn
<1>15. QED
  BY <1>14, FramesHandedOn

LEMMA FrugalPreserved ==
  ASSUME TypeOK, Frugal, [Next]_vars
  PROVE  Frugal'
<1>1. CASE UNCHANGED <<pt, free>>
  BY <1>1 DEF Frugal, MappedFramesAreUsed, OneAddress, Maps, Present
<1>2. ASSUME NEW p \in Procs, palloc(p)
      PROVE  Frugal'
  <2>1. next_empty[p] \in Heap
    BY <1>2, MemoryAssumption DEF palloc, TypeOK, Heap
  <2>2. Requested \in Entries /\ Requested.state # "present"
    BY EntriesWritten DEF Requested
  <2>3. QED
    BY <1>2, <2>1, <2>2, OnePage DEF palloc, Pages
<1>3. ASSUME NEW p \in Procs, Run(p)
      PROVE  Frugal'
  <2>1. Mapped(mm_mem_alloc(free)) \in Entries
    BY <1>3, Allocated, EntriesWritten DEF Run, TypeOK
  <2>2. QED
    BY <1>3, <2>1, AllocatedFrugal, MappedFacts, Addresses DEF Run
<1>4. ASSUME NEW p \in Procs, RunFails(p)
      PROVE  Frugal'
  <2> DEFINE area == pt[p][AREA].frame
  <2>1. /\ pt'[p][AREA] = Absent
        /\ \A q \in Procs, w \in Pages : <<q, w>> # <<p, AREA>> => pt'[q][w] = pt[q][w]
    BY <1>4, Addresses DEF RunFails, TypeOK
  <2>2. ASSUME NEW q \in Procs, NEW w \in Pages, Present(q, w)'
        PROVE  HandedOn(q, w) /\ pt'[q][w].frame # area
    <3>1. <<q, w>> # <<p, AREA>> /\ Present(q, w) /\ pt'[q][w] = pt[q][w]
      BY <2>1, <2>2 DEF Present, Absent
    <3>2. pt[q][w].frame # area
      BY <1>4, <3>1, Addresses DEF RunFails, Frugal, OneAddress, Maps
    <3>3. QED
      BY <3>1, <3>2 DEF HandedOn, Maps
  <2>3. HandsOn({}, {area})
    BY <1>4, <2>2 DEF RunFails, HandsOn
  <2>4. QED
    BY <2>3, FramesHandedOn
<1>5. ASSUME NEW p \in Procs, NEW v \in UserPages, NEW x \in Values,
             Store(p, v, x) \/ copy2user(p, v, x)
      PROVE  Frugal'
  BY <1>1, <1>5 DEF Store, copy2user, Stored
<1>6. QED
  BY <1>1, <1>2, <1>3, <1>4, <1>5, ExitFrugal, FaultFrugal, ShareFrugal, ForkFrugal,
     LoadFrugal DEF Next, vars

LEMMA Initially ==
  ASSUME Init
  PROVE  TypeOK /\ Frugal /\ WritersAlone /\
         \A p \in Procs, v \in Pages : Present(p, v) => ~ pt[p][v].shared
<1> DEFINE init   == Min(Procs)
<1> DEFINE kstack == mm_mem_alloc(Frames)
<1> DEFINE first  == mm_mem_alloc(Frames \ {kstack})
<1>1. init \in Procs
  <2>1. Procs \in SUBSET Nat /\ 1 \in Procs
    BY MemoryAssumption DEF Procs
  <2>2. QED
    BY <2>1, LeastIsMember
<1>2. kstack \in Frames /\ first \in Frames /\ first # kstack
  <2>1. 1 \in Frames /\ 2 \in Frames
    BY MemoryAssumption DEF Frames
  <2>2. kstack \in Frames
    BY <2>1, AllocatedIfAny
  <2>3. Frames \ {kstack} # {}
    BY <2>1
  <2>4. first \in Frames \ {kstack}
    BY <2>3, AllocatedIfAny
  <2>5. QED
    BY <2>2, <2>4
<1> DEFINE its == [NoPages EXCEPT ![KSTACK] = Mapped(kstack), ![FIRST] = Mapped(first)]
<1> HIDE DEF init, kstack, first
<1>3. /\ alive = {init}
      /\ pt = [p \in Procs |-> IF p \in alive THEN its ELSE NoPages]
      /\ next_empty = [p \in Procs |-> 1]
      /\ free = Frames \ {kstack, first}
      /\ \E x \in Values : mem = [f \in Frames |-> x]
  BY DEF Init, init, kstack, first
<1>4. NoPages \in [Pages -> Entries]
  BY EntriesWritten DEF NoPages
<1>5. Mapped(kstack) \in Entries /\ Mapped(first) \in Entries
  BY <1>2, EntriesWritten
<1>6. /\ its \in [Pages -> Entries]
      /\ its[KSTACK] = Mapped(kstack) /\ its[FIRST] = Mapped(first)
      /\ \A v \in Pages \ {KSTACK, FIRST} : its[v] = Absent
  BY <1>4, <1>5, Addresses DEF NoPages
<1> HIDE DEF its
<1>7. TypeOK
  <2>1. pt \in [Procs -> [Pages -> Entries]]
    BY <1>3, <1>4, <1>6
  <2>2. \A p \in alive : Present(p, FIRST) /\ Present(p, KSTACK)
    BY <1>1, <1>3, <1>6, MappedFacts DEF Present
  <2>3. next_empty \in [Procs -> 1 .. HEAP + 1]
    BY <1>3, MemoryAssumption
  <2>4. alive \subseteq Procs /\ free \subseteq Frames /\ mem \in [Frames -> Values]
    BY <1>1, <1>3
  <2>5. \A p \in Procs \ alive : pt[p] = NoPages
    BY <1>3
  <2>6. QED
    BY <2>1, <2>2, <2>3, <2>4, <2>5 DEF TypeOK
<1>8. ASSUME NEW p \in Procs, NEW v \in Pages, Present(p, v)
      PROVE  p = init /\ \/ v = KSTACK /\ pt[p][v] = Mapped(kstack)
                         \/ v = FIRST /\ pt[p][v] = Mapped(first)
  BY <1>3, <1>6, <1>8 DEF Present, NoPages, Absent
<1>9. \A p \in Procs, v \in Pages : Present(p, v) =>
        /\ p = init /\ pt[p][v].frame = IF v = KSTACK THEN kstack ELSE first
        /\ v \in {KSTACK, FIRST} /\ pt[p][v].shared = FALSE
  BY <1>8, MappedFacts, Addresses
<1>10. Frugal /\ WritersAlone
  BY <1>2, <1>3, <1>9 DEF Frugal, MappedFramesAreUsed, OneAddress, Maps, WritersAlone
<1>11. QED
  BY <1>7, <1>9, <1>10

(* Type correctness.  Every process has its program and its kernel stack,  *)
(* and palloc, fork, share_page, run and the fault handler set and clear   *)
(* the write bit and the copy-on-write mark of an entry together.          *)
THEOREM MemoryTypeCorrect == Spec => []TypeOK
<1>1. Init => TypeOK
  BY Initially
<1>2. TypeOK /\ [Next]_vars => TypeOK'
  BY TypePreserved
<1>3. QED
  BY <1>1, <1>2, PTL DEF Spec

(* No frame that a process maps can be given out again: mm_dir_free, the   *)
(* copies of the fault handler and run give back only what nobody maps.    *)
(* The uses the code gets wrong (Careless) do not harm it.                 *)
THEOREM FramesInUse == Spec => []MappedFramesAreUsed
<1>1. Init => TypeOK /\ Frugal
  BY Initially
<1>2. TypeOK /\ Frugal /\ [Next]_vars => (TypeOK /\ Frugal)'
  BY TypePreserved, FrugalPreserved
<1>3. TypeOK /\ Frugal => MappedFramesAreUsed
  BY DEF Frugal
<1>4. QED
  BY <1>1, <1>2, <1>3, PTL DEF Spec

-----------------------------------------------------------------------------
(* A page marked as shared is writable, unless a page to be copied was     *)
(* shared: without the careless uses of share_page and run.                *)
SharedAreWritable ==
  \A p \in Procs, v \in Pages : Present(p, v) /\ pt[p][v].shared => pt[p][v].rw

Private == WritersAlone /\ SharedAreWritable

(* Page w of q, after the step, is the only one in its frame. *)
Sole(q, w) ==
  /\ pt'[q][w].shared => pt'[q][w].rw
  /\ \A r \in Procs, x \in Pages :
       Present(r, x)' /\ pt'[r][x].frame = pt'[q][w].frame => r = q /\ x = w

(* A step after which every page is as it was or alone in its frame.       *)
LEMMA KeptOrSole ==
  ASSUME Private,
         \A q \in Procs, w \in Pages : Present(q, w)' =>
           pt'[q][w] = pt[q][w] \/ Sole(q, w)
  PROVE  Private'
<1>1. SharedAreWritable'
  BY DEF Private, SharedAreWritable, Sole, Present
<1>2. ASSUME NEW p \in Procs, NEW q \in Procs, NEW v \in Pages, NEW w \in Pages,
             Present(p, v)', pt'[p][v].rw, Present(q, w)',
             pt'[q][w].frame = pt'[p][v].frame
      PROVE  \/ p = q /\ v = w
             \/ v = w /\ pt'[p][v].shared /\ pt'[q][w].shared
  <2>1. CASE Sole(p, v) \/ Sole(q, w)
    BY <1>2, <2>1 DEF Sole
  <2>2. CASE pt'[p][v] = pt[p][v] /\ pt'[q][w] = pt[q][w]
    BY <1>2, <2>2 DEF Private, WritersAlone, Maps, Present
  <2>3. QED
    BY <1>2, <2>1, <2>2
<1>3. WritersAlone'
  BY <1>2 DEF WritersAlone, Maps
<1>4. QED
  BY <1>1, <1>3 DEF Private

(* Entries written for one page: absent, or with a frame that nobody maps. *)
LEMMA OnePageSole ==
  ASSUME TypeOK, Private, NEW p \in Procs, NEW v \in Pages, NEW e \in Entries,
         pt' = [pt EXCEPT ![p][v] = e], e.shared => e.rw,
         e.state = "present" => \A q \in Procs, w \in Pages :
           Present(q, w) /\ pt[q][w].frame = e.frame => q = p /\ w = v
  PROVE  Private'
<1>1. /\ pt'[p][v] = e
      /\ \A q \in Procs, w \in Pages : <<q, w>> # <<p, v>> => pt'[q][w] = pt[q][w]
  BY DEF TypeOK
<1>2. e.state = "present" => Sole(p, v)
  BY <1>1 DEF Sole, Present
<1>3. QED
  BY <1>1, <1>2, KeptOrSole DEF Present

LEMMA AllocatedPrivate ==
  ASSUME TypeOK, Frugal, Private, NEW p \in Procs, NEW v \in Pages, NEW e \in Entries,
         mm_mem_alloc(free) # NULL, e.frame = mm_mem_alloc(free),
         pt' = [pt EXCEPT ![p][v] = e], e.shared => e.rw
  PROVE  Private'
<1>1. mm_mem_alloc(free) \in free
  BY Allocated DEF TypeOK
<1>2. \A q \in Procs, w \in Pages : Present(q, w) => pt[q][w].frame # e.frame
  BY <1>1 DEF Frugal, MappedFramesAreUsed
<1>3. QED
  BY <1>2, OnePageSole

LEMMA ExitPrivate ==
  ASSUME TypeOK, Private, NEW p \in Procs, Exit(p)
  PROVE  Private'
<1>1. \A q \in Procs, w \in Pages : Present(q, w)' => pt'[q][w] = pt[q][w]
  BY DEF Exit, TypeOK, Present, NoPages, Absent
<1>2. QED
  BY <1>1, KeptOrSole

LEMMA WritableFacts ==
  \A f : /\ Mapped(f).rw /\ ~ Mapped(f).shared
         /\ Shared(Mapped(f)).rw /\ Shared(Mapped(f)).shared
         /\ \A s : Entry(f, TRUE, FALSE, s).rw
  BY DEF Mapped, Shared, Entry

(* The one user of a page to be copied is alone in its frame: whoever maps *)
(* the frame too has it at this address, where the handler looks.          *)
LEMMA FaultPrivate ==
  ASSUME TypeOK, Frugal, Private, NEW p \in Procs, NEW v \in UserPages, PageFault(p, v)
  PROVE  Private'
<1>1. v \in Pages /\ free \subseteq Frames
  BY Addresses DEF TypeOK
<1>2. mm_mem_alloc(free) # NULL => Mapped(mm_mem_alloc(free)) \in Entries
  BY <1>1, Allocated, EntriesWritten
<1>3. CASE mm_user_allocate(p, v)
  BY <1>1, <1>2, <1>3, ExitPrivate, AllocatedPrivate, MappedFacts, WritableFacts
  DEF mm_user_allocate
<1>4. CASE Present(p, v) /\ mm_copy_on_write(p, v)
  <2>1. CASE ~ CopiedByOthers(p, v)
    <3> DEFINE e == Entry(pt[p][v].frame, TRUE, FALSE, pt[p][v].shared)
    <3>1. pt[p][v] \in Entries
      BY <1>1 DEF TypeOK
    <3>2. e \in Entries
      BY <1>4, <3>1, EntriesWritten DEF Present
    <3>3. e.frame = pt[p][v].frame
      BY DEF Entry
    <3>4. pt' = [pt EXCEPT ![p][v] = e]
      BY <1>1, <1>4, <2>1 DEF mm_copy_on_write, TypeOK
    <3>5. ASSUME NEW q \in Procs, NEW w \in Pages, Present(q, w),
                 pt[q][w].frame = pt[p][v].frame
          PROVE  q = p /\ w = v
      <4>1. w = v
        BY <1>1, <1>4, <3>5 DEF Frugal, OneAddress, Maps
      <4>2. q \in alive
        BY <3>5, PresentIsAlive
      <4>3. QED
        BY <2>1, <3>5, <4>1, <4>2 DEF CopiedByOthers
    <3>6. e.rw
      BY WritableFacts
    <3> HIDE DEF e
    <3>7. \A q \in Procs, w \in Pages :
            Present(q, w) /\ pt[q][w].frame = e.frame => q = p /\ w = v
      BY <3>3, <3>5
    <3>8. QED
      BY <1>1, <3>2, <3>4, <3>6, <3>7, OnePageSole
  <2>2. CASE CopiedByOthers(p, v)
    BY <1>1, <1>2, <1>4, <2>2, ExitPrivate, AllocatedPrivate, MappedFacts, WritableFacts
    DEF mm_copy_on_write
  <2>3. QED
    BY <2>1, <2>2
<1>5. QED
  BY <1>3, <1>4, ExitPrivate DEF PageFault

(* A page that may be shared is writable, so its frame is its own or is    *)
(* mapped by pages that are shared already.                                *)
LEMMA SharePrivate ==
  ASSUME TypeOK, Frugal, Private, Careless = {},
         NEW p \in Procs, NEW v \in UserPages, share_page(p, v)
  PROVE  Private'
<1>1. v \in Pages /\ free \subseteq Frames
  BY Addresses DEF TypeOK
<1>2. CASE Present(p, v) /\ pt' = [pt EXCEPT ![p][v] = Shared(@)]
  <2>1. pt[p][v] \in Entries
    BY <1>1 DEF TypeOK
  <2>2. ~ pt[p][v].cor
    BY <1>2 DEF share_page, CopyOnWrite, Present
  <2>3. pt[p][v].cor = ~ pt[p][v].rw
    BY <1>2, <2>1, EntriesWritten DEF Present
  <2>4. pt[p][v].rw
    BY <2>2, <2>3, Zenon
  <2>5. /\ pt'[p][v] = Shared(pt[p][v])
        /\ \A q \in Procs, w \in Pages : <<q, w>> # <<p, v>> => pt'[q][w] = pt[q][w]
    BY <1>1, <1>2 DEF TypeOK
  <2>6. /\ Shared(pt[p][v]).frame = pt[p][v].frame
        /\ Shared(pt[p][v]).rw = pt[p][v].rw /\ Shared(pt[p][v]).shared = TRUE
    BY DEF Shared, Entry
  <2>7. /\ pt'[p][v].frame = pt[p][v].frame
        /\ pt'[p][v].rw /\ pt'[p][v].shared
    BY <2>4, <2>5, <2>6, Zenon
  <2>8. SharedAreWritable'
    BY <2>5, <2>7 DEF Private, SharedAreWritable, Present
  <2>9. ASSUME NEW q \in Procs, NEW w \in Pages, NEW r \in Procs, NEW x \in Pages,
               Present(q, w)', pt'[q][w].rw, Present(r, x)',
               pt'[r][x].frame = pt'[q][w].frame
        PROVE  \/ q = r /\ w = x
               \/ w = x /\ pt'[q][w].shared /\ pt'[r][x].shared
    <3>1. CASE q = p /\ w = v
      BY <1>2, <2>4, <2>5, <2>7, <2>9, <3>1 DEF Private, WritersAlone, Maps, Present
    <3>2. CASE r = p /\ x = v
      BY <1>2, <2>5, <2>7, <2>9, <3>2 DEF Private, WritersAlone, Maps, Present
    <3>3. CASE <<q, w>> # <<p, v>> /\ <<r, x>> # <<p, v>>
      BY <2>5, <2>9, <3>3 DEF Private, WritersAlone, Maps, Present
    <3>4. QED
      BY <3>1, <3>2, <3>3
  <2>10. WritersAlone'
    BY <2>9 DEF WritersAlone, Maps
  <2>11. QED
    BY <2>8, <2>10 DEF Private
<1>3. CASE /\ mm_mem_alloc(free) # NULL
           /\ pt' = [pt EXCEPT ![p][v] = Shared(Mapped(mm_mem_alloc(free)))]
  <2>1. Shared(Mapped(mm_mem_alloc(free))) \in Entries
    BY <1>1, <1>3, Allocated, EntriesWritten
  <2>2. QED
    BY <1>1, <1>3, <2>1, AllocatedPrivate, MappedFacts, WritableFacts
<1>4. QED
  BY <1>2, <1>3, ExitPrivate DEF share_page

LEMMA LoadPrivate ==
  ASSUME TypeOK, Frugal, Private, Careless = {},
         NEW p \in Procs, NEW c \in Procs, Load(p, c)
  PROVE  Private'
<1> DEFINE kstack == mm_mem_alloc(free)
<1> DEFINE first == mm_mem_alloc(free \ {kstack})
<1> DEFINE mine == [pt[p] EXCEPT ![FIRST] = Mapped(pt[p][FIRST].frame),
                                 ![AREA] = Absent]
<1> DEFINE its == [NoPages EXCEPT ![KSTACK] = Mapped(kstack),
                                  ![FIRST] = Mapped(first)]
<1>1. Present(p, AREA) /\ p \in alive /\ c \notin alive /\ c # p
  BY PresentIsAlive, Addresses DEF Load, NewPid
<1>2. free \subseteq Frames /\ free \ {kstack} \subseteq Frames
  BY DEF TypeOK
<1>3. first \in free \ {kstack}
  BY <1>2, Allocated DEF Load
<1>4. kstack \in free
  BY <1>2, <1>3, AllocatedIfAny
<1>5. /\ \A v \in Pages : pt'[p][v] = mine[v]
      /\ \A v \in Pages : pt'[c][v] = its[v]
      /\ \A q \in Procs \ {p, c} : pt'[q] = pt[q]
  BY <1>1 DEF Load, TypeOK
<1>6. pt[p][FIRST] = Mapped(pt[p][FIRST].frame)
  BY DEF Load
<1>7. /\ pt'[p][AREA] = Absent
      /\ \A v \in Pages \ {AREA} : pt'[p][v] = pt[p][v]
  BY <1>5, <1>6, Addresses DEF TypeOK
<1>8. /\ pt'[c][KSTACK] = Mapped(kstack) /\ pt'[c][FIRST] = Mapped(first)
      /\ \A v \in Pages \ {KSTACK, FIRST} : pt'[c][v] = Absent
  BY <1>5, Addresses DEF NoPages
<1>9. \A q \in Procs, w \in Pages : Present(q, w)' /\ (q # c \/ w \notin {KSTACK, FIRST})
        => pt'[q][w] = pt[q][w]
  BY <1>5, <1>7, <1>8 DEF Present, Absent
<1>10. \A o \in Procs, v \in Pages : Present(o, v) => pt[o][v].frame \notin free
  BY DEF Frugal, MappedFramesAreUsed
<1>11. \A q \in Procs, w \in Pages : Present(q, w)' /\ (q # c \/ w \notin {KSTACK, FIRST})
         => pt'[q][w].frame # kstack /\ pt'[q][w].frame # first
  BY <1>3, <1>4, <1>9, <1>10 DEF Present
<1>12. pt'[c][KSTACK].frame = kstack /\ pt'[c][FIRST].frame = first
  BY <1>8, MappedFacts
<1>13. ~ pt'[c][KSTACK].shared /\ ~ pt'[c][FIRST].shared
  BY <1>8, WritableFacts
<1> HIDE DEF kstack, first
<1>14. Sole(c, KSTACK) /\ Sole(c, FIRST)
  BY <1>3, <1>11, <1>12, <1>13 DEF Sole
<1>15. QED
  BY <1>9, <1>14, KeptOrSole

(* fork: a page that is not shared is writable in neither process, and the *)
(* pages that map the frame of a shared one are all shared.                *)
LEMMA ForkPrivate ==
  ASSUME TypeOK, Frugal, Private, NEW p \in Procs, NEW c \in Procs, Fork(p, c)
  PROVE  Private'
<1> DEFINE kstack == mm_mem_alloc(free)
<1>1. p # c /\ p \in alive /\ c \notin alive
  BY DEF Fork, InUserMode, NewPid
<1>2. kstack \in free
  BY Allocated DEF Fork, TypeOK
<1>3. /\ \A v \in Pages : pt'[p][v] = IF v = KSTACK THEN pt[p][v]
                                       ELSE FatherEntry(pt[p][v])
      /\ \A v \in Pages : pt'[c][v] = IF v = KSTACK THEN Mapped(kstack)
                                       ELSE ChildEntry(pt[p][v])
      /\ \A q \in Procs \ {p, c} : pt'[q] = pt[q]
  BY <1>1 DEF Fork, TypeOK
<1>4. \A v \in Pages : pt[p][v] \in Entries
  BY DEF TypeOK
<1> DEFINE Origin(q) == IF q = c THEN p ELSE q
<1>5. \A q \in Procs : Origin(q) \in Procs
  OBVIOUS
<1>6. ASSUME NEW q \in Procs, NEW w \in Pages, Present(q, w)',
             q # c \/ w # KSTACK
      PROVE  /\ Present(Origin(q), w)
             /\ pt'[q][w].frame = pt[Origin(q)][w].frame
             /\ pt'[q][w].frame # kstack
             /\ pt'[q][w].rw => pt[Origin(q)][w].rw
             /\ pt[Origin(q)][w].shared => pt'[q][w].rw /\ pt'[q][w].shared
             /\ pt'[q][w].shared => pt[Origin(q)][w].shared
             /\ q \in {p, c} /\ w # KSTACK /\ pt'[q][w].rw => pt[p][w].shared
  <2>1. SharedAreWritable
    BY DEF Private
  <2>2. \A o \in Procs, v \in Pages : Present(o, v) => pt[o][v].frame # kstack
    BY <1>2 DEF Frugal, MappedFramesAreUsed
  <2>3. CASE q = c
    <3>1. pt'[c][w] = ChildEntry(pt[p][w])
      BY <1>3, <1>6, <2>3
    <3>2. Present(p, w)
      BY <1>4, <1>6, <2>3, <3>1, ForkedEntries DEF Present
    <3>3. CASE pt[p][w].shared
      BY <1>4, <2>1, <2>2, <2>3, <3>1, <3>2, <3>3, ForkedEntries
      DEF Present, SharedAreWritable
    <3>4. CASE ~ pt[p][w].shared
      BY <1>4, <2>2, <2>3, <3>1, <3>2, <3>4, ForkedEntries DEF Present
    <3>5. QED
      BY <3>3, <3>4
  <2>4. CASE q = p /\ w # KSTACK
    <3>1. pt'[p][w] = FatherEntry(pt[p][w])
      BY <1>3, <2>4
    <3>2. Present(p, w)
      BY <1>4, <1>6, <2>4, <3>1, ForkedEntries DEF Present
    <3>3. CASE pt[p][w].shared
      BY <1>1, <1>4, <2>1, <2>2, <2>4, <3>1, <3>2, <3>3, ForkedEntries
      DEF Present, SharedAreWritable
    <3>4. CASE ~ pt[p][w].shared
      BY <1>1, <1>4, <2>2, <2>4, <3>1, <3>2, <3>4, ForkedEntries DEF Present
    <3>5. QED
      BY <3>3, <3>4
  <2>5. CASE q # c /\ (q # p \/ w = KSTACK)
    <3>1. pt'[q][w] = pt[q][w]
      BY <1>3, <2>5
    <3>2. QED
      BY <1>6, <2>1, <2>2, <2>5, <3>1 DEF Present, SharedAreWritable
  <2>6. QED
    BY <2>3, <2>4, <2>5
<1>7. /\ pt'[c][KSTACK].frame = kstack
      /\ ~ pt'[c][KSTACK].shared
  BY <1>3, MappedFacts, WritableFacts, Addresses
<1> HIDE DEF kstack, Origin
<1>8. Sole(c, KSTACK)
  BY <1>6, <1>7 DEF Sole
<1>9. SharedAreWritable'
  BY <1>6, <1>7 DEF SharedAreWritable, Present
<1>10. ASSUME NEW q \in Procs, NEW w \in Pages, NEW r \in Procs, NEW x \in Pages,
              Present(q, w)', pt'[q][w].rw, Present(r, x)',
              pt'[r][x].frame = pt'[q][w].frame, q # r \/ w # x
       PROVE  w = x /\ pt'[q][w].shared /\ pt'[r][x].shared
  <2>1. (q # c \/ w # KSTACK) /\ (r # c \/ x # KSTACK)
    BY <1>8, <1>10 DEF Sole
  <2>2. /\ Present(Origin(q), w) /\ pt[Origin(q)][w].rw
        /\ Maps(Origin(r), x, pt[Origin(q)][w].frame)
    BY <1>6, <1>10, <2>1 DEF Maps
  <2>3. \/ Origin(q) = Origin(r) /\ w = x
        \/ w = x /\ pt[Origin(q)][w].shared /\ pt[Origin(r)][x].shared
    BY <1>5, <2>2 DEF Private, WritersAlone
  <2>4. CASE w = x /\ pt[Origin(q)][w].shared /\ pt[Origin(r)][x].shared
    BY <1>6, <1>10, <2>1, <2>4
  <2>5. CASE Origin(q) = Origin(r) /\ w = x
    <3>1. q \in {p, c} /\ r \in {p, c} /\ w # KSTACK
      BY <1>10, <2>1, <2>5 DEF Origin
    <3>2. Origin(q) = p /\ Origin(r) = p
      BY <3>1 DEF Origin
    <3>3. pt[p][w].shared
      BY <1>6, <1>10, <2>1, <3>1
    <3>4. QED
      BY <1>6, <1>10, <2>1, <2>5, <3>2, <3>3
  <2>6. QED
    BY <2>3, <2>4, <2>5
<1>11. WritersAlone'
  BY <1>10 DEF WritersAlone, Maps
<1>12. QED
  BY <1>9, <1>11 DEF Private

LEMMA PrivatePreserved ==
  ASSUME TypeOK, Frugal, Private, Careless = {}, [Next]_vars
  PROVE  Private'
<1>1. CASE UNCHANGED pt
  BY <1>1, KeptOrSole
<1>2. ASSUME NEW p \in Procs, palloc(p)
      PROVE  Private'
  <2>1. next_empty[p] \in Pages
    BY <1>2, MemoryAssumption DEF palloc, TypeOK, Pages, Heap
  <2>2. /\ pt'[p][next_empty[p]].state # "present"
        /\ \A q \in Procs, w \in Pages :
             <<q, w>> # <<p, next_empty[p]>> => pt'[q][w] = pt[q][w]
    BY <1>2, <2>1 DEF palloc, TypeOK, Requested
  <2>3. QED
    BY <2>2, KeptOrSole DEF Present
<1>3. ASSUME NEW p \in Procs, Run(p)
      PROVE  Private'
  <2>1. Mapped(mm_mem_alloc(free)) \in Entries
    BY <1>3, Allocated, EntriesWritten DEF Run, TypeOK
  <2>2. QED
    BY <1>3, <2>1, AllocatedPrivate, MappedFacts, WritableFacts, Addresses DEF Run
<1>4. ASSUME NEW p \in Procs, RunFails(p)
      PROVE  Private'
  <2>1. /\ pt'[p][AREA] = Absent
        /\ \A q \in Procs, w \in Pages : <<q, w>> # <<p, AREA>> => pt'[q][w] = pt[q][w]
    BY <1>4, Addresses DEF RunFails, TypeOK
  <2>2. QED
    BY <2>1, KeptOrSole DEF Present, Absent
<1>5. ASSUME NEW p \in Procs, NEW v \in UserPages, NEW x \in Values,
             Store(p, v, x) \/ copy2user(p, v, x)
      PROVE  Private'
  BY <1>1, <1>5 DEF Store, copy2user, Stored
<1>6. QED
  BY <1>1, <1>2, <1>3, <1>4, <1>5, ExitPrivate, FaultPrivate, SharePrivate, ForkPrivate,
     LoadPrivate DEF Next, vars

(* A page its process can write without a fault is in a frame of its own   *)
(* or marked as shared by all who map it, after any forks, copies on write *)
(* and exits, if no process makes the uses of share_page and run that the  *)
(* code gets wrong.                                                        *)
THEOREM WritersAreAlone ==
  ASSUME Careless = {}
  PROVE  Spec => []WritersAlone
<1>1. Init => TypeOK /\ Frugal /\ Private
  BY Initially DEF Private, SharedAreWritable
<1>2. TypeOK /\ Frugal /\ Private /\ [Next]_vars => (TypeOK /\ Frugal /\ Private)'
  BY TypePreserved, FrugalPreserved, PrivatePreserved
<1>3. Private => WritersAlone
  BY DEF Private
<1>4. QED
  BY <1>1, <1>2, <1>3, PTL DEF Spec

-----------------------------------------------------------------------------
(* Memory implements AddressSpaces: what mm.c, fork and run do to frames   *)
(* and page tables gives every process pages of its own.  Each function is *)
(* one action of AddressSpaces or leaves what the processes see unchanged. *)

(* palloc has not given the pages from next_empty_page_addr on. *)
NotYet ==
  \A p \in Procs, v \in Heap : v >= next_empty[p] => pt[p][v] = Absent

Steady == TypeOK /\ Frugal /\ Private /\ NotYet

LEMMA HeapPages == Heap \subseteq UserPages /\ Heap \subseteq Int /\ Heap \subseteq Pages
  BY MemoryAssumption DEF Heap, UserPages, Pages

(* A step that asks for no page. *)
LEMMA AskedForNone ==
  ASSUME NotYet, next_empty' = next_empty,
         \A q \in Procs, v \in Heap : pt[q][v] = Absent => pt'[q][v] = Absent
  PROVE  NotYet'
  BY DEF NotYet

LEMMA NotYetPreserved ==
  ASSUME TypeOK, NotYet, [Next]_vars
  PROVE  NotYet'
<1>1. CASE UNCHANGED <<pt, next_empty>>
  BY <1>1 DEF NotYet
<1>2. ASSUME NEW p \in Procs, Exit(p)
      PROVE  NotYet'
  <2>1. \A q \in Procs, v \in Heap : pt[q][v] = Absent => pt'[q][v] = Absent
    BY <1>2, HeapPages DEF Exit, TypeOK, NoPages
  <2>2. QED
    BY <1>2, <2>1, AskedForNone DEF Exit
<1>3. ASSUME NEW p \in Procs, palloc(p)
      PROVE  NotYet'
  <2>1. next_empty[p] \in Heap /\ next_empty \in [Procs -> 1 .. HEAP + 1]
    BY <1>3, MemoryAssumption DEF palloc, TypeOK, Heap
  <2>2. /\ next_empty'[p] = next_empty[p] + 1
        /\ \A q \in Procs \ {p} : next_empty'[q] = next_empty[q] /\ pt'[q] = pt[q]
        /\ \A v \in Heap \ {next_empty[p]} : pt'[p][v] = pt[p][v]
    BY <1>3, <2>1, HeapPages DEF palloc, TypeOK
  <2>3. ASSUME NEW v \in Heap, v >= next_empty[p] + 1
        PROVE  v >= next_empty[p] /\ v # next_empty[p]
    BY <2>1, <2>3, HeapPages
  <2>4. QED
    BY <2>2, <2>3 DEF NotYet
<1>4. ASSUME NEW p \in Procs, NEW v \in Pages, NEW e,
             pt[p][v] # Absent \/ v \notin Heap,
             pt' = [pt EXCEPT ![p][v] = e], next_empty' = next_empty
      PROVE  NotYet'
  <2>1. \A q \in Procs, w \in Heap : pt[q][w] = Absent => pt'[q][w] = Absent
    BY <1>4, HeapPages DEF TypeOK
  <2>2. QED
    BY <1>4, <2>1, AskedForNone
<1>5. ASSUME NEW p \in Procs, NEW v \in UserPages, PageFault(p, v)
      PROVE  NotYet'
  <2>1. v \in Pages
    BY Addresses
  <2>2. CASE pt[p][v] = Requested /\ mm_user_allocate(p, v)
    BY <1>2, <1>4, <2>1, <2>2 DEF mm_user_allocate, Requested, Absent
  <2>3. CASE Present(p, v) /\ mm_copy_on_write(p, v)
    <3>1. pt[p][v] # Absent
      BY <2>3 DEF Present, Absent
    <3>2. CASE ~ CopiedByOthers(p, v)
      <4>1. pt' = [pt EXCEPT ![p][v] =
                     Entry(pt[p][v].frame, TRUE, FALSE, pt[p][v].shared)]
        BY <2>1, <2>3, <3>2 DEF mm_copy_on_write, TypeOK
      <4>2. QED
        BY <1>4, <2>1, <2>3, <3>1, <3>2, <4>1 DEF mm_copy_on_write
    <3>3. CASE CopiedByOthers(p, v)
      BY <1>2, <1>4, <2>1, <2>3, <3>1, <3>3 DEF mm_copy_on_write
    <3>4. QED
      BY <3>2, <3>3
  <2>4. QED
    BY <1>2, <1>5, <2>2, <2>3 DEF PageFault
<1>6. ASSUME NEW p \in Procs, NEW v \in UserPages, share_page(p, v)
      PROVE  NotYet'
  <2>1. v \in Pages
    BY Addresses
  <2>2. CASE Present(p, v) /\ pt' = [pt EXCEPT ![p][v] = Shared(@)]
                           /\ next_empty' = next_empty
    <3>1. pt' = [pt EXCEPT ![p][v] = Shared(pt[p][v])]
      BY <2>1, <2>2 DEF TypeOK
    <3>2. pt[p][v] # Absent
      BY <2>2 DEF Present, Absent
    <3>3. QED
      BY <1>4, <2>1, <2>2, <3>1, <3>2
  <2>3. CASE pt[p][v] = Requested
    BY <1>2, <1>4, <1>6, <2>1, <2>3 DEF share_page, Present, Requested, Absent
  <2>4. QED
    BY <1>6, <2>2, <2>3 DEF share_page
<1>7. ASSUME NEW p \in Procs, Run(p) \/ RunFails(p)
      PROVE  NotYet'
  BY <1>4, <1>7, Addresses, HeapPages DEF Run, RunFails
<1>8. ASSUME NEW p \in Procs, NEW c \in Procs, Fork(p, c)
      PROVE  NotYet'
  <2>1. p # c
    BY <1>8 DEF Fork, InUserMode, NewPid
  <2>2. \A v \in Heap : /\ pt'[p][v] = FatherEntry(pt[p][v])
                        /\ pt'[c][v] = ChildEntry(pt[p][v])
    BY <1>8, <2>1, HeapPages, Addresses DEF Fork, TypeOK
  <2>3. /\ \A q \in Procs \ {p, c} : pt'[q] = pt[q]
        /\ next_empty' = [next_empty EXCEPT ![c] = next_empty[p]]
    BY <1>8, <2>1 DEF Fork, TypeOK
  <2>4. FatherEntry(Absent) = Absent /\ ChildEntry(Absent) = Absent
    BY DEF FatherEntry, ChildEntry, Absent
  <2>5. QED
    BY <2>1, <2>2, <2>3, <2>4 DEF NotYet, TypeOK
<1>9. ASSUME NEW p \in Procs, NEW c \in Procs, Load(p, c)
      PROVE  NotYet'
  <2>1. p # c
    BY <1>9, PresentIsAlive, Addresses DEF Load, NewPid
  <2>2. \A v \in Heap : v \in Pages /\ v # FIRST /\ v # KSTACK /\ v # AREA
    BY HeapPages, Addresses, MemoryAssumption DEF Heap, FIRST
  <2>3. /\ \A v \in Heap : pt'[p][v] = pt[p][v] /\ pt'[c][v] = Absent
        /\ \A q \in Procs \ {p, c} : pt'[q] = pt[q]
        /\ \A q \in Procs \ {c} : next_empty'[q] = next_empty[q]
    BY <1>9, <2>1, <2>2 DEF Load, TypeOK, NoPages
  <2>4. QED
    BY <2>1, <2>3 DEF NotYet
<1>10. QED
  BY <1>1, <1>2, <1>3, <1>5, <1>6, <1>7, <1>8, <1>9
  DEF Next, vars, Store, copy2user, Stored
-----------------------------------------------------------------------------
(* A table of the processes and their pages. *)
IsTable(t) == t = [q \in Procs |-> [w \in UserPages |-> t[q][w]]]

LEMMA Tables ==
  ASSUME NEW s, NEW t, IsTable(s), IsTable(t),
         \A q \in Procs, w \in UserPages : s[q][w] = t[q][w]
  PROVE  s = t
<1> DEFINE S == [q \in Procs |-> [w \in UserPages |-> s[q][w]]]
<1> DEFINE T == [q \in Procs |-> [w \in UserPages |-> t[q][w]]]
<1>1. \A q \in Procs : [w \in UserPages |-> s[q][w]] = [w \in UserPages |-> t[q][w]]
  OBVIOUS
<1>2. S = T
  BY <1>1
<1>3. QED
  BY <1>2 DEF IsTable

(* AddressSpaces!With, of such a table. *)
Put(t, p, v, x) ==
  [q \in Procs |-> [w \in UserPages |-> IF q = p /\ w = v THEN x ELSE t[q][w]]]

LEMMA WrittenTable ==
  ASSUME NEW s, NEW t, NEW p \in Procs, NEW v \in UserPages, IsTable(s),
         \A q \in Procs, w \in UserPages : <<q, w>> # <<p, v>> => s[q][w] = t[q][w]
  PROVE  s = Put(t, p, v, s[p][v])
<1> DEFINE u == [q \in Procs |-> [w \in UserPages |->
                   IF q = p /\ w = v THEN s[p][v] ELSE t[q][w]]]
<1>1. IsTable(u)
  BY DEF IsTable
<1>2. \A q \in Procs, w \in UserPages : s[q][w] = u[q][w]
  OBVIOUS
<1> HIDE DEF u
<1>3. s = u
  BY <1>1, <1>2, Tables
<1>4. QED
  BY <1>3 DEF u, Put

(* The two tables of the refinement, page by page. *)
Views ==
  \A q \in Procs, w \in UserPages :
    /\ Present(q, w) => Seen[q][w] = mem[pt[q][w].frame] /\ Seen[q][w] \in Values
    /\ ~ Present(q, w) => Seen[q][w] = pt[q][w] /\ Seen[q][w] \in {Absent, Requested}
    /\ Present(q, w) /\ pt[q][w].shared =>
         Common[q][w] = {r \in Procs : Maps(r, w, pt[q][w].frame)}
    /\ ~ (Present(q, w) /\ pt[q][w].shared) => Common[q][w] = {}

AliveAsSeen == \A q \in Procs : q \in Promise!Alive <=> q \in alive

LEMMA ViewsOf == TypeOK => Views
<1> SUFFICES ASSUME TypeOK, NEW q \in Procs, NEW w \in UserPages
             PROVE  /\ Present(q, w) => /\ Seen[q][w] = mem[pt[q][w].frame]
                                        /\ Seen[q][w] \in Values
                    /\ ~ Present(q, w) => /\ Seen[q][w] = pt[q][w]
                                          /\ Seen[q][w] \in {Absent, Requested}
                    /\ Present(q, w) /\ pt[q][w].shared =>
                         Common[q][w] = {r \in Procs : Maps(r, w, pt[q][w].frame)}
                    /\ ~ (Present(q, w) /\ pt[q][w].shared) => Common[q][w] = {}
  BY DEF Views
<1>1. w \in Pages
  BY Addresses
<1>2. Seen[q][w] = Content(q, w) /\ Common[q][w] = Sharers(q, w)
  BY DEF Seen, Common
<1>3. Present(q, w) => Seen[q][w] = mem[pt[q][w].frame] /\ Seen[q][w] \in Values
  BY <1>1, <1>2, PresentIsAlive DEF Content, TypeOK
<1>4. ~ Present(q, w) => Seen[q][w] = pt[q][w] /\ Seen[q][w] \in {Absent, Requested}
  BY <1>1, <1>2 DEF Content, TypeOK, Present, Entries, Entry
<1>5. ASSUME Present(q, w) /\ pt[q][w].shared
      PROVE  Common[q][w] = {r \in Procs : Maps(r, w, pt[q][w].frame)}
  <2>1. \A r \in Procs : Maps(r, w, pt[q][w].frame) => r \in alive
    BY <1>1, PresentIsAlive DEF Maps
  <2>2. QED
    BY <1>2, <1>5, <2>1 DEF Sharers, TypeOK
<1>6. ~ (Present(q, w) /\ pt[q][w].shared) => Common[q][w] = {}
  BY <1>2 DEF Sharers
<1>7. QED
  BY <1>3, <1>4, <1>5, <1>6

LEMMA AreTables == IsTable(Seen) /\ IsTable(Common)
  BY DEF IsTable, Seen, Common

LEMMA AliveOf == TypeOK => AliveAsSeen
<1> SUFFICES ASSUME TypeOK, NEW q \in Procs
             PROVE  q \in Promise!Alive <=> q \in alive
  BY DEF AliveAsSeen
<1>1. CASE q \in alive
  <2>1. Seen[q][FIRST] \in Values
    BY <1>1, ViewsOf, Addresses DEF TypeOK, Views
  <2>2. Seen[q][FIRST] # Absent
    BY <2>1, ValuesAssumption
  <2>3. QED
    BY <1>1, <2>2, Addresses DEF Promise!Alive, Promise!NoPages
<1>2. CASE q \notin alive
  <2>1. \A w \in UserPages : Seen[q][w] = Absent
    BY <1>2, Addresses DEF Seen, Content, Present, TypeOK, NoPages, Absent
  <2>2. Seen[q] = [w \in UserPages |-> Seen[q][w]]
    BY DEF Seen
  <2>3. QED
    BY <1>2, <2>1, <2>2 DEF Promise!Alive, Promise!NoPages
<1>3. QED
  BY <1>1, <1>2

LEMMA RowWritten ==
  ASSUME NEW s, NEW t, IsTable(s), IsTable(t), NEW p \in Procs,
         NEW row, row = [w \in UserPages |-> row[w]],
         \A w \in UserPages : s[p][w] = row[w],
         \A q \in Procs \ {p}, w \in UserPages : s[q][w] = t[q][w]
  PROVE  s = [t EXCEPT ![p] = row]
<1> DEFINE u == [q \in Procs |-> IF q = p THEN row ELSE t[q]]
<1>1. /\ t = [q \in Procs |-> t[q]]
      /\ \A q \in Procs : t[q] = [w \in UserPages |-> t[q][w]]
  BY DEF IsTable
<1>2. \A q \in Procs : u[q] = [w \in UserPages |-> u[q][w]]
  BY <1>1
<1>3. IsTable(u)
  <2> DEFINE v == [q \in Procs |-> [w \in UserPages |-> u[q][w]]]
  <2>1. v = u
    BY <1>2
  <2>2. QED
    BY <2>1 DEF IsTable
<1>4. \A q \in Procs, w \in UserPages : s[q][w] = u[q][w]
  OBVIOUS
<1>5. [t EXCEPT ![p] = row] = u
  BY <1>1
<1> HIDE DEF u
<1>6. s = u
  BY <1>3, <1>4, Tables
<1>7. QED
  BY <1>5, <1>6

(* Page w of q after the step is what page w of o was. *)
Looks(q, w, o) ==
  /\ Present(o, w) => /\ Present(q, w)'
                      /\ mem'[pt'[q][w].frame] = mem[pt[o][w].frame]
  /\ ~ Present(o, w) => pt'[q][w] = pt[o][w]

LEMMA SeenAs ==
  ASSUME Views, Views', NEW q \in Procs, NEW o \in Procs, NEW w \in UserPages,
         Looks(q, w, o)
  PROVE  Seen'[q][w] = Seen[o][w]
  BY DEF Views, Looks, Present

(* An entry written for one page, absent or with the frame it had or with  *)
(* a free one, changes what no process sees of the other pages.            *)
LEMMA OnePageViews ==
  ASSUME Steady, Views, Views', NEW p \in Procs, NEW v \in Pages, NEW e,
         pt' = [pt EXCEPT ![p][v] = e],
         \A f \in Frames \ free : mem'[f] = mem[f],
         \/ e.state # "present"
         \/ e.frame \in free
         \/ Present(p, v) /\ e.frame = pt[p][v].frame,
         Present(p, v) /\ pt[p][v].shared /\ v \in UserPages
           => e.state = "present" /\ e.frame = pt[p][v].frame,
         NEW q \in Procs, NEW w \in UserPages, <<q, w>> # <<p, v>>
  PROVE  Seen'[q][w] = Seen[q][w] /\ Common'[q][w] = Common[q][w]
<1>1. /\ pt'[p][v] = e
      /\ \A r \in Procs, u \in Pages : <<r, u>> # <<p, v>> => pt'[r][u] = pt[r][u]
  BY DEF Steady, TypeOK
<1>2. w \in Pages /\ pt'[q][w] = pt[q][w]
  BY <1>1, Addresses
<1>3. Present(q, w) => pt[q][w].frame \in Frames \ free
  BY <1>2, PresentIsAlive DEF Steady, Frugal, MappedFramesAreUsed
<1>4. Seen'[q][w] = Seen[q][w]
  BY <1>2, <1>3, SeenAs DEF Looks, Present
<1>5. CASE Present(q, w) /\ pt[q][w].shared
  <2> DEFINE f == pt[q][w].frame
  <2>1. ASSUME NEW r \in Procs
        PROVE  Maps(r, w, f)' <=> Maps(r, w, f)
    <3>1. CASE <<r, w>> = <<p, v>>
      <4>1. pt[q][w].rw
        BY <1>2, <1>5 DEF Steady, Private, SharedAreWritable
      <4>2. Maps(p, v, f) => pt[p][v].shared /\ Present(p, v)
        BY <1>2, <1>5, <3>1, <4>1 DEF Steady, Private, WritersAlone, Maps
      <4>3. Maps(p, v, f) => e.state = "present" /\ e.frame = f
        BY <3>1, <4>2 DEF Maps
      <4>4. e.state = "present" /\ e.frame = f => Maps(p, v, f)
        BY <1>3, <1>5 DEF Maps
      <4>5. QED
        BY <1>1, <1>2, <3>1, <4>3, <4>4 DEF Maps, Present
    <3>2. CASE <<r, w>> # <<p, v>>
      BY <1>1, <1>2, <3>2 DEF Maps, Present
    <3>3. QED
      BY <3>1, <3>2
  <2>2. /\ Common[q][w] = {r \in Procs : Maps(r, w, pt[q][w].frame)}
        /\ Common'[q][w] = {r \in Procs : Maps(r, w, pt[q][w].frame)'}
    BY <1>2, <1>5 DEF Views, Present, Maps
  <2>3. QED
    BY <1>4, <2>1, <2>2
<1>6. CASE ~ (Present(q, w) /\ pt[q][w].shared)
  <2>1. Common[q][w] = {}
    BY <1>6 DEF Views
  <2>2. ~ (Present(q, w) /\ pt[q][w].shared)'
    BY <1>2, <1>6 DEF Present
  <2>3. Common'[q][w] = {}
    BY <2>2 DEF Views
  <2>4. QED
    BY <1>4, <2>1, <2>3
<1>7. QED
  BY <1>5, <1>6

-----------------------------------------------------------------------------
(* loader_exit: the end of the process, which leaves those it shared with. *)
LEMMA ExitEnds ==
  ASSUME Steady, Views, Views', AliveAsSeen, NEW p \in alive, Exit(p)
  PROVE  Promise!End(p)
<1>1. p \in Procs /\ p \in Promise!Alive
  BY DEF Steady, TypeOK, AliveAsSeen
<1>2. /\ pt'[p] = NoPages /\ mem' = mem
      /\ \A q \in Procs \ {p} : pt'[q] = pt[q]
  BY <1>1 DEF Exit, Steady, TypeOK
<1>3. \A w \in UserPages : w \in Pages /\ pt'[p][w] = Absent
  BY <1>2, Addresses DEF NoPages
<1>4. \A w \in UserPages : ~ Present(p, w)'
  BY <1>3 DEF Present, Absent
<1>5. Seen' = [Seen EXCEPT ![p] = Promise!NoPages]
  <2>1. IsTable(Seen) /\ IsTable(Seen')
    BY AreTables DEF IsTable, Seen
  <2>2. \A w \in UserPages : Seen'[p][w] = Promise!NoPages[w]
    BY <1>1, <1>3, <1>4 DEF Views, Promise!NoPages, Present
  <2>3. \A q \in Procs \ {p}, w \in UserPages : Seen'[q][w] = Seen[q][w]
    BY <1>2, SeenAs DEF Looks, Present
  <2>4. Promise!NoPages = [w \in UserPages |-> Promise!NoPages[w]]
    BY DEF Promise!NoPages
  <2>5. QED
    BY <1>1, <2>1, <2>2, <2>3, <2>4, RowWritten
<1>6. ASSUME NEW q \in Procs, NEW w \in UserPages
      PROVE  Common'[q][w] = IF q = p THEN {} ELSE Common[q][w] \ {p}
  <2>1. CASE q = p
    BY <1>4, <2>1 DEF Views, Present
  <2>2. CASE q # p /\ Present(q, w) /\ pt[q][w].shared
    <3>1. /\ Common[q][w] = {r \in Procs : Maps(r, w, pt[q][w].frame)}
          /\ Common'[q][w] = {r \in Procs : Maps(r, w, pt[q][w].frame)'}
      BY <1>2, <2>2 DEF Views, Present, Maps
    <3>2. \A r \in Procs : Maps(r, w, pt[q][w].frame)'
                             <=> r # p /\ Maps(r, w, pt[q][w].frame)
      BY <1>2, <1>3, <2>2 DEF Maps, Present, Absent
    <3>3. QED
      BY <2>2, <3>1, <3>2
  <2>3. CASE q # p /\ ~ (Present(q, w) /\ pt[q][w].shared)
    BY <1>2, <2>3 DEF Views, Present
  <2>4. QED
    BY <2>1, <2>2, <2>3
<1>7. Common' = [q \in Procs |-> [w \in UserPages |->
                   IF q = p THEN {} ELSE Common[q][w] \ {p}]]
  <2> DEFINE u == [q \in Procs |-> [w \in UserPages |->
                     IF q = p THEN {} ELSE Common[q][w] \ {p}]]
  <2>1. IsTable(u) /\ IsTable(Common')
    BY AreTables DEF IsTable, Common
  <2>2. \A q \in Procs, w \in UserPages : Common'[q][w] = u[q][w]
    BY <1>6
  <2> HIDE DEF u
  <2>3. Common' = u
    BY <2>1, <2>2, Tables
  <2>4. QED
    BY <2>3 DEF u
<1>8. QED
  BY <1>1, <1>5, <1>7 DEF Promise!End

(* A step that shows only in what p has at v, or nowhere. *)
LEMMA OnePageWritten ==
  ASSUME NEW p \in Procs, NEW v \in UserPages,
         \A q \in Procs, w \in UserPages : <<q, w>> # <<p, v>> =>
           Seen'[q][w] = Seen[q][w] /\ Common'[q][w] = Common[q][w]
  PROVE  /\ Seen' = Put(Seen, p, v, Seen'[p][v])
         /\ Common' = Put(Common, p, v, Common'[p][v])
         /\ Seen'[p][v] = Seen[p][v] => Seen' = Seen
         /\ Common'[p][v] = Common[p][v] => Common' = Common
<1>1. IsTable(Seen) /\ IsTable(Common)
  BY AreTables
<1>2. IsTable(Seen') /\ IsTable(Common')
  BY AreTables DEF IsTable, Seen, Common
<1>3. Seen' = Put(Seen, p, v, Seen'[p][v])
  <2>1. \A q \in Procs, w \in UserPages : <<q, w>> # <<p, v>> => Seen'[q][w] = Seen[q][w]
    OBVIOUS
  <2>2. QED
    BY <1>2, <2>1, WrittenTable
<1>4. Common' = Put(Common, p, v, Common'[p][v])
  <2>1. \A q \in Procs, w \in UserPages :
          <<q, w>> # <<p, v>> => Common'[q][w] = Common[q][w]
    OBVIOUS
  <2>2. QED
    BY <1>2, <2>1, WrittenTable
<1>5. Seen'[p][v] = Seen[p][v] => Seen' = Seen
  BY <1>1, <1>2, Tables
<1>6. Common'[p][v] = Common[p][v] => Common' = Common
  BY <1>1, <1>2, Tables
<1>7. QED
  BY <1>3, <1>4, <1>5, <1>6

(* palloc: a page asked for, which the process did not have. *)
LEMMA PallocAsks ==
  ASSUME Steady, Views, Views', AliveAsSeen, NEW p \in alive, NEW v \in UserPages,
         pt[p][v] = Absent, pt' = [pt EXCEPT ![p][v] = Requested], mem' = mem
  PROVE  Promise!Ask(p, v)
<1>1. p \in Procs /\ v \in Pages
  BY Addresses DEF Steady, TypeOK
<1>2. pt'[p][v] = Requested
  BY <1>1 DEF Steady, TypeOK
<1>3. Requested.state # "present" /\ Absent.state # "present"
  BY DEF Requested, Absent
<1>4. \A q \in Procs, w \in UserPages : <<q, w>> # <<p, v>> =>
        Seen'[q][w] = Seen[q][w] /\ Common'[q][w] = Common[q][w]
  BY <1>1, <1>3, OnePageViews DEF Present
<1>5. Seen[p][v] = Absent /\ Seen'[p][v] = Requested
  BY <1>1, <1>2, <1>3 DEF Views, Present
<1>6. Common[p][v] = {} /\ Common'[p][v] = {}
  BY <1>1, <1>2, <1>3 DEF Views, Present
<1>7. /\ Seen' = Put(Seen, p, v, Seen'[p][v])
      /\ Common'[p][v] = Common[p][v] => Common' = Common
  BY <1>1, <1>4, OnePageWritten
<1>8. Seen' = Put(Seen, p, v, Requested) /\ Common' = Common
  BY <1>5, <1>6, <1>7, Zenon
<1>9. p \in Promise!Alive
  BY <1>1 DEF AliveAsSeen
<1>10. QED
  BY <1>5, <1>8, <1>9 DEF Promise!Ask, Promise!With, Put

(* mm_user_allocate: a page that was asked for, with what its frame held.  *)
(* Whether it is shared at once depends on the caller.                     *)
LEMMA Allocates ==
  ASSUME Steady, TypeOK', Views, Views', NEW p \in Procs, NEW v \in UserPages,
         NEW frame \in free, NEW e \in Entries, e.state = "present", e.frame = frame,
         pt[p][v] = Requested, pt' = [pt EXCEPT ![p][v] = e], mem' = mem
  PROVE  /\ Seen[p][v] = Requested /\ Common[p][v] = {}
         /\ Seen'[p][v] \in Values
         /\ Seen' = Put(Seen, p, v, Seen'[p][v])
         /\ e.shared => Common' = Put(Common, p, v, {p})
         /\ ~ e.shared => Common' = Common
<1>1. v \in Pages
  BY Addresses
<1>2. Requested.state # "present"
  BY DEF Requested
<1>3. pt'[p][v] = e /\ \A r \in Procs \ {p} : pt'[r][v] = pt[r][v]
  BY <1>1 DEF Steady, TypeOK
<1>4. \A q \in Procs, w \in UserPages : <<q, w>> # <<p, v>> =>
        Seen'[q][w] = Seen[q][w] /\ Common'[q][w] = Common[q][w]
  BY <1>1, <1>2, OnePageViews DEF Present
<1>5. Seen[p][v] = Requested /\ Common[p][v] = {} /\ Seen'[p][v] \in Values
  BY <1>2, <1>3 DEF Views, Present
<1>6. \A r \in Procs \ {p} : ~ Maps(r, v, frame)'
  BY <1>1, <1>3 DEF Maps, Present, Steady, Frugal, MappedFramesAreUsed
<1>7. CASE e.shared
  <2>1. Common'[p][v] = {r \in Procs : Maps(r, v, pt[p][v].frame)'}
    BY <1>3, <1>7 DEF Views, Present, Maps
  <2>2. Common'[p][v] = {p}
    BY <1>3, <1>6, <2>1 DEF Maps, Present
  <2>3. /\ Seen' = Put(Seen, p, v, Seen'[p][v])
        /\ Common' = Put(Common, p, v, Common'[p][v])
    BY <1>4, OnePageWritten
  <2>4. QED
    BY <1>5, <1>7, <2>2, <2>3, Zenon
<1>8. CASE ~ e.shared
  <2>1. ~ (Present(p, v) /\ pt[p][v].shared)'
    BY <1>3, <1>8 DEF Present
  <2>2. Common'[p][v] = {}
    BY <2>1 DEF Views
  <2>3. /\ Seen' = Put(Seen, p, v, Seen'[p][v])
        /\ Common'[p][v] = Common[p][v] => Common' = Common
    BY <1>4, OnePageWritten
  <2>4. QED
    BY <1>5, <1>8, <2>2, <2>3, Zenon
<1>9. QED
  BY <1>7, <1>8

(* mm_copy_on_write: nothing that a process sees.  The page was not shared,*)
(* so nobody who maps its frame shares it.                                 *)
LEMMA CopyUnseen ==
  ASSUME Steady, Views, Views', NEW p \in Procs, NEW v \in UserPages,
         Present(p, v), ~ pt[p][v].rw,
         mm_copy_on_write(p, v), ~ (CopiedByOthers(p, v) /\ mm_mem_alloc(free) = NULL)
  PROVE  UNCHANGED Promise!vars
<1>1. v \in Pages /\ free \subseteq Frames
  BY Addresses DEF Steady, TypeOK
<1>2. ~ pt[p][v].shared /\ pt[p][v].frame \in Frames \ free
  BY <1>1, PresentIsAlive
  DEF Steady, Private, SharedAreWritable, Frugal, MappedFramesAreUsed
<1>3. CASE ~ CopiedByOthers(p, v)
  <2> DEFINE e == Entry(pt[p][v].frame, TRUE, FALSE, pt[p][v].shared)
  <2>1. pt' = [pt EXCEPT ![p][v] = e] /\ mem' = mem
    BY <1>1, <1>3 DEF mm_copy_on_write, Steady, TypeOK
  <2>2. e.state = "present" /\ e.frame = pt[p][v].frame /\ e.shared = pt[p][v].shared
    BY DEF Entry
  <2>3. pt'[p][v] = e
    BY <1>1, <2>1 DEF Steady, TypeOK
  <2> HIDE DEF e
  <2>4. \A q \in Procs, w \in UserPages : <<q, w>> # <<p, v>> =>
          Seen'[q][w] = Seen[q][w] /\ Common'[q][w] = Common[q][w]
    BY <1>1, <2>1, <2>2, OnePageViews
  <2>5. Seen'[p][v] = Seen[p][v]
    BY <2>1, <2>2, <2>3, SeenAs DEF Looks, Present
  <2>6. ~ (Present(p, v) /\ pt[p][v].shared)'
    BY <1>2, <2>2, <2>3
  <2>7. Common[p][v] = {} /\ Common'[p][v] = {}
    BY <1>2, <2>6 DEF Views
  <2>8. Seen' = Seen /\ Common' = Common
    <3>1. /\ Seen'[p][v] = Seen[p][v] => Seen' = Seen
          /\ Common'[p][v] = Common[p][v] => Common' = Common
      BY <2>4, OnePageWritten
    <3>2. QED
      BY <2>5, <2>7, <3>1
  <2>9. QED
    BY <2>8 DEF Promise!vars
<1>4. CASE CopiedByOthers(p, v) /\ mm_mem_alloc(free) # NULL
  <2> DEFINE frame == mm_mem_alloc(free)
  <2>1. frame \in free
    BY <1>1, <1>4, Allocated
  <2>2. /\ pt' = [pt EXCEPT ![p][v] = Mapped(frame)]
        /\ mem' = [mem EXCEPT ![frame] = mem[pt[p][v].frame]]
    BY <1>4 DEF mm_copy_on_write
  <2> HIDE DEF frame
  <2>3. /\ \A f \in Frames \ free : mem'[f] = mem[f]
        /\ mem'[frame] = mem[pt[p][v].frame]
    BY <1>1, <2>1, <2>2 DEF Steady, TypeOK
  <2>4. pt'[p][v] = Mapped(frame)
    BY <1>1, <2>2 DEF Steady, TypeOK
  <2>5. \A q \in Procs, w \in UserPages : <<q, w>> # <<p, v>> =>
          Seen'[q][w] = Seen[q][w] /\ Common'[q][w] = Common[q][w]
    BY <1>1, <1>2, <2>1, <2>2, <2>3, MappedFacts, OnePageViews
  <2>6. Seen'[p][v] = Seen[p][v]
    BY <2>3, <2>4, MappedFacts, SeenAs DEF Looks, Present
  <2>7. ~ (Present(p, v) /\ pt[p][v].shared)'
    BY <2>4, MappedFacts
  <2>8. Common[p][v] = {} /\ Common'[p][v] = {}
    BY <1>2, <2>7 DEF Views
  <2>9. Seen' = Seen /\ Common' = Common
    <3>1. /\ Seen'[p][v] = Seen[p][v] => Seen' = Seen
          /\ Common'[p][v] = Common[p][v] => Common' = Common
      BY <2>5, OnePageWritten
    <3>2. QED
      BY <2>6, <2>8, <3>1
  <2>10. QED
    BY <2>9 DEF Promise!vars
<1>5. QED
  BY <1>3, <1>4

(* Who sees the writes of p at v: those who map the frame of a page that p *)
(* can write, all of them at v.                                            *)
LEMMA SeenByAll ==
  ASSUME Steady, Views, NEW p \in Procs, NEW v \in UserPages,
         Present(p, v), pt[p][v].rw
  PROVE  {p} \cup Common[p][v] = {r \in Procs : Maps(r, v, pt[p][v].frame)}
<1>1. v \in Pages
  BY Addresses
<1>2. Maps(p, v, pt[p][v].frame)
  BY DEF Maps
<1>3. CASE pt[p][v].shared
  BY <1>2, <1>3 DEF Views
<1>4. CASE ~ pt[p][v].shared
  <2>1. \A r \in Procs : Maps(r, v, pt[p][v].frame) => r = p
    BY <1>1, <1>4 DEF Steady, Private, WritersAlone
  <2>2. Common[p][v] = {}
    BY <1>4 DEF Views
  <2>3. QED
    BY <1>2, <2>1, <2>2
<1>5. QED
  BY <1>3, <1>4

(* A step that leaves the entries of the user pages as they are. *)
LEMMA CommonKept ==
  ASSUME Views, Views',
         \A q \in Procs, w \in UserPages : pt'[q][w] = pt[q][w]
  PROVE  Common' = Common
<1>1. ASSUME NEW q \in Procs, NEW w \in UserPages
      PROVE  Common'[q][w] = Common[q][w]
  <2>1. CASE Present(q, w) /\ pt[q][w].shared
    <3>1. Common[q][w] = {r \in Procs : Maps(r, w, pt[q][w].frame)}
      BY <2>1 DEF Views
    <3>2. Common'[q][w] = {r \in Procs : Maps(r, w, pt[q][w].frame)'}
      BY <2>1 DEF Views, Present, Maps
    <3>3. \A r \in Procs : Maps(r, w, pt[q][w].frame)' <=> Maps(r, w, pt[q][w].frame)
      BY DEF Maps, Present
    <3>4. QED
      BY <3>1, <3>2, <3>3
  <2>2. CASE ~ (Present(q, w) /\ pt[q][w].shared)
    <3>1. ~ (Present(q, w) /\ pt[q][w].shared)'
      BY <2>2 DEF Present
    <3>2. Common[q][w] = {}
      BY <2>2 DEF Views
    <3>3. Common'[q][w] = {}
      BY <3>1 DEF Views
    <3>4. QED
      BY <3>2, <3>3
  <2>3. QED
    BY <2>1, <2>2
<1>2. IsTable(Common) /\ IsTable(Common')
  BY AreTables DEF IsTable, Common
<1>3. QED
  BY <1>1, <1>2, Tables

(* A store, by the process or by copy2user for it, to a page it can write. *)
LEMMA StoreWrites ==
  ASSUME Steady, Views, Views', NEW p \in Procs, NEW v \in UserPages, NEW x \in Values,
         Present(p, v), pt[p][v].rw, Stored(p, v, x)
  PROVE  Promise!Write(p, v)
<1> DEFINE f == pt[p][v].frame
<1>1. v \in Pages /\ f \in Frames
  BY Addresses, PresentIsAlive DEF Steady
<1>2. pt' = pt /\ mem' = [mem EXCEPT ![f] = x]
  BY DEF Stored
<1>3. mem'[f] = x /\ \A g \in Frames \ {f} : mem'[g] = mem[g]
  BY <1>1, <1>2 DEF Steady, TypeOK
<1>4. ASSUME NEW q \in Procs, NEW w \in UserPages
      PROVE  Seen'[q][w] = IF w = v /\ q \in {p} \cup Common[p][v] THEN x
                                                               ELSE Seen[q][w]
  <2>1. w \in Pages
    BY Addresses
  <2>2. w = v /\ q \in {p} \cup Common[p][v] <=> Maps(q, w, f)
    BY <1>1, <2>1, SeenByAll DEF Steady, Frugal, OneAddress
  <2>3. CASE Maps(q, w, f)
    BY <1>2, <1>3, <2>2, <2>3 DEF Views, Maps, Present
  <2>4. CASE ~ Maps(q, w, f)
    <3>1. Present(q, w) => pt[q][w].frame \in Frames \ {f}
      BY <2>1, <2>4, PresentIsAlive DEF Steady, Maps
    <3>2. Looks(q, w, q)
      BY <1>2, <1>3, <3>1 DEF Looks, Present
    <3>3. QED
      BY <2>2, <2>4, <3>2, SeenAs
  <2>5. QED
    BY <2>3, <2>4
<1> HIDE DEF f
<1>5. Seen' = [q \in Procs |-> [w \in UserPages |->
                 IF w = v /\ q \in {p} \cup Common[p][v] THEN x ELSE Seen[q][w]]]
  <2> DEFINE u == [q \in Procs |-> [w \in UserPages |->
                 IF w = v /\ q \in {p} \cup Common[p][v] THEN x ELSE Seen[q][w]]]
  <2>1. IsTable(u) /\ IsTable(Seen')
    BY DEF IsTable, Seen
  <2>2. \A q \in Procs, w \in UserPages : Seen'[q][w] = u[q][w]
    BY <1>4
  <2> HIDE DEF u
  <2>3. Seen' = u
    BY <2>1, <2>2, Tables
  <2>4. QED
    BY <2>3 DEF u
<1>6. Common' = Common
  BY <1>2, CommonKept
<1>7. <<p, v>> \in Promise!Filled
  BY DEF Views, Promise!Filled
<1>8. QED
  BY <1>5, <1>6, <1>7 DEF Promise!Write

(* share_page of a page that is there: its user joins those who share it.  *)
LEMMA ShareMarks ==
  ASSUME Steady, Views, Views', NEW p \in Procs, NEW v \in UserPages,
         Present(p, v), pt[p][v].rw, NEW e, e = Shared(pt[p][v]),
         pt' = [pt EXCEPT ![p][v] = e], mem' = mem
  PROVE  Promise!Mark(p, v)
<1>1. v \in Pages
  BY Addresses
<1>2. pt'[p][v] = e /\ \A r \in Procs \ {p} : pt'[r][v] = pt[r][v]
  BY <1>1 DEF Steady, TypeOK
<1>3. e.state = "present" /\ e.frame = pt[p][v].frame /\ e.shared = TRUE
  BY DEF Shared, Entry
<1>4. \A q \in Procs, w \in UserPages : <<q, w>> # <<p, v>> =>
        Seen'[q][w] = Seen[q][w] /\ Common'[q][w] = Common[q][w]
  <2>1. \A f \in Frames \ free : mem'[f] = mem[f]
    OBVIOUS
  <2>2. e.state = "present" /\ Present(p, v) /\ e.frame = pt[p][v].frame
    BY <1>3
  <2>3. QED
    BY <1>1, <2>1, <2>2, OnePageViews
<1>5. Seen'[p][v] = Seen[p][v]
  BY <1>2, <1>3, SeenAs DEF Looks, Present
<1>6. Common'[p][v] = {r \in Procs : Maps(r, v, pt[p][v].frame)'}
  BY <1>2, <1>3 DEF Views, Present, Maps
<1>7. \A r \in Procs : Maps(r, v, pt[p][v].frame)' <=> Maps(r, v, pt[p][v].frame)
  BY <1>2, <1>3 DEF Maps, Present
<1>8. Common'[p][v] = Common[p][v] \cup {p}
  BY <1>6, <1>7, SeenByAll
<1>9. /\ Seen'[p][v] = Seen[p][v] => Seen' = Seen
      /\ Common' = Put(Common, p, v, Common'[p][v])
  BY <1>4, OnePageWritten
<1>10. Seen' = Seen /\ Common' = Put(Common, p, v, Common[p][v] \cup {p})
  BY <1>5, <1>8, <1>9, Zenon
<1>11. <<p, v>> \in Promise!Filled
  BY DEF Views, Promise!Filled
<1>12. QED
  BY <1>10, <1>11 DEF Promise!Mark, Promise!With, Put

(* run and its failure: the page for the file is not one of the process's. *)
LEMMA FileUnseen ==
  ASSUME Steady, Views, Views', NEW p \in Procs, Run(p) \/ RunFails(p)
  PROVE  UNCHANGED Promise!vars
<1>1. AREA \in Pages /\ AREA \notin UserPages /\ UserPages \subseteq Pages
  BY Addresses
<1>2. \A q \in Procs, w \in UserPages : pt'[q][w] = pt[q][w]
  BY <1>1 DEF Run, RunFails, Steady, TypeOK
<1>3. \A f \in Frames \ free : mem'[f] = mem[f]
  <2>1. CASE Run(p)
    <3>1. mm_mem_alloc(free) \in free
      BY <2>1, Allocated DEF Run, Steady, TypeOK
    <3>2. QED
      BY <2>1, <3>1 DEF Run, Steady, TypeOK
  <2>2. CASE RunFails(p)
    BY <2>2 DEF RunFails
  <2>3. QED
    BY <2>1, <2>2
<1>4. ASSUME NEW q \in Procs, NEW w \in UserPages
      PROVE  Seen'[q][w] = Seen[q][w]
  <2>1. Present(q, w) => pt[q][w].frame \in Frames \ free
    BY <1>1, PresentIsAlive DEF Steady, Frugal, MappedFramesAreUsed
  <2>2. QED
    BY <1>2, <1>3, <2>1, SeenAs DEF Looks, Present
<1>5. IsTable(Seen) /\ IsTable(Seen')
  BY AreTables DEF IsTable, Seen
<1>6. Seen' = Seen
  BY <1>4, <1>5, Tables
<1>7. Common' = Common
  BY <1>2, CommonKept
<1>8. QED
  BY <1>6, <1>7 DEF Promise!vars

(* The entries of fork say the same of frames and shares as the father's.  *)
LEMMA ForkedAlike ==
  ASSUME NEW e \in Entries, NEW d, d = ChildEntry(e) \/ d = FatherEntry(e)
  PROVE  /\ d.state = "present" <=> e.state = "present"
         /\ e.state = "present" => d.frame = e.frame /\ (d.shared <=> e.shared)
         /\ e.state # "present" => d = e
<1>1. e.state = "present" => d.state = "present" /\ d.frame = e.frame
  <2>1. CASE d = ChildEntry(e)
    BY <2>1, ForkedEntries, EntriesWritten
  <2>2. CASE d = FatherEntry(e)
    BY <2>2, ForkedEntries, EntriesWritten
  <2>3. QED
    BY <2>1, <2>2
<1>2. e.state # "present" => d = e
  BY ForkedEntries
<1>3. e.state = "present" /\ e.shared => d.shared
  <2>1. CASE d = ChildEntry(e)
    BY <2>1, ForkedEntries, Zenon
  <2>2. CASE d = FatherEntry(e)
    BY <2>2, ForkedEntries, Zenon
  <2>3. QED
    BY <2>1, <2>2
<1>4. e.state = "present" /\ ~ e.shared => ~ d.shared
  <2>1. CASE d = ChildEntry(e)
    BY <2>1, ForkedEntries, Zenon
  <2>2. CASE d = FatherEntry(e)
    BY <2>2, ForkedEntries, Zenon
  <2>3. QED
    BY <2>1, <2>2
<1>5. QED
  BY <1>1, <1>2, <1>3, <1>4, Zenon

(* fork: the child has what its father had, and the pages that the father  *)
(* shares are shared with the child.  A page that is not shared is mapped  *)
(* by nobody who shares it, so the child joins no one there.               *)
LEMMA ForkForks ==
  ASSUME Steady, Views, Views', AliveAsSeen, NEW p \in Procs, NEW c \in Procs, Fork(p, c)
  PROVE  Promise!Fork(p, c)
<1>1. p # c /\ p \in alive /\ c \notin alive
  BY DEF Fork, InUserMode, NewPid
<1>2. /\ \A w \in UserPages : /\ pt'[p][w] = FatherEntry(pt[p][w])
                              /\ pt'[c][w] = ChildEntry(pt[p][w])
      /\ \A q \in Procs \ {p, c} : pt'[q] = pt[q]
      /\ mem' = mem
  BY <1>1, Addresses DEF Fork, Steady, TypeOK
<1>3. \A w \in UserPages : pt[p][w] \in Entries /\ ~ Present(c, w)
  BY <1>1, Addresses, PresentIsAlive DEF Steady, TypeOK
<1> DEFINE Origin(q) == IF q = c THEN p ELSE q
<1>4. ASSUME NEW q \in Procs, NEW w \in UserPages
      PROVE  /\ Present(q, w)' <=> Present(Origin(q), w)
             /\ Present(q, w)' => /\ pt'[q][w].frame = pt[Origin(q)][w].frame
                                  /\ pt'[q][w].shared <=> pt[Origin(q)][w].shared
             /\ ~ Present(q, w)' => pt'[q][w] = pt[Origin(q)][w]
  <2>0. CASE q \in {p, c}
    <3>1. Origin(q) = p
      BY <2>0
    <3>2. pt'[q][w] = ChildEntry(pt[p][w]) \/ pt'[q][w] = FatherEntry(pt[p][w])
      BY <1>2, <2>0
    <3>3. /\ pt'[q][w].state = "present" <=> pt[p][w].state = "present"
          /\ pt[p][w].state = "present" =>
               /\ pt'[q][w].frame = pt[p][w].frame
               /\ pt'[q][w].shared <=> pt[p][w].shared
          /\ pt[p][w].state # "present" => pt'[q][w] = pt[p][w]
      BY <1>3, <3>2, ForkedAlike
    <3> HIDE DEF Origin
    <3>4. QED
      BY <3>1, <3>3 DEF Present
  <2>1. CASE q \notin {p, c}
    BY <1>2, <2>1 DEF Present
  <2>2. QED
    BY <2>0, <2>1
<1>5. \A q \in Procs, w \in UserPages : Seen'[q][w] = Seen[Origin(q)][w]
  BY <1>2, <1>4, SeenAs DEF Looks
<1>6. Seen' = [Seen EXCEPT ![c] = Seen[p]]
  <2>1. IsTable(Seen) /\ IsTable(Seen')
    BY AreTables DEF IsTable, Seen
  <2>2. Seen[p] = [w \in UserPages |-> Seen[p][w]]
    BY DEF Seen
  <2>3. \A w \in UserPages : Seen'[c][w] = Seen[p][w]
    BY <1>5
  <2>4. \A q \in Procs \ {c}, w \in UserPages : Seen'[q][w] = Seen[q][w]
    BY <1>5
  <2>5. QED
    BY <2>1, <2>2, <2>3, <2>4, RowWritten
<1>7. \A r \in Procs, w \in UserPages, f \in Frames :
        (Present(r, w)' /\ pt'[r][w].frame = f) <=> Maps(Origin(r), w, f)
  BY <1>4 DEF Maps
<1>8. ASSUME NEW q \in Procs, NEW w \in UserPages
      PROVE  Common'[q][w] =
               IF p \in Common[p][w] /\ q \in Common[p][w] \cup {c}
               THEN Common[p][w] \cup {c} ELSE Common[q][w]
  <2>0. w \in Pages
    BY Addresses
  <2>1. CASE Present(Origin(q), w) /\ pt[Origin(q)][w].shared
    <3> DEFINE f == pt[Origin(q)][w].frame
    <3>1. f \in Frames /\ Origin(q) \in Procs
      BY <2>0, <2>1, PresentIsAlive DEF Steady
    <3>2. /\ Present(q, w)' /\ pt'[q][w].shared /\ pt'[q][w].frame = f
      BY <1>4, <2>1
    <3>3. Common[Origin(q)][w] = {r \in Procs : Maps(r, w, f)}
      BY <2>1, <3>1 DEF Views
    <3>4. Common'[q][w] = {r \in Procs : Present(r, w)' /\ pt'[r][w].frame = f}
      <4>1. Common'[q][w] = {r \in Procs : Maps(r, w, pt[q][w].frame)'}
        BY <3>2 DEF Views
      <4>2. QED
        BY <3>2, <4>1 DEF Maps
    <3>5. ~ Maps(c, w, f)
      BY <1>3 DEF Maps
    <3>6. p \in Common[p][w] <=> Present(p, w) /\ pt[p][w].shared
      BY DEF Views, Maps
    <3>7. pt[Origin(q)][w].rw
      BY <2>0, <2>1, <3>1 DEF Steady, Private, SharedAreWritable
    <3>8. \A r \in Procs : Maps(r, w, f) => Present(r, w) /\ pt[r][w].shared
      BY <2>0, <2>1, <3>1, <3>7 DEF Steady, Private, WritersAlone, Maps
    <3> HIDE DEF f
    <3>9. CASE Maps(p, w, f)
      <4>1. Common[p][w] = {r \in Procs : Maps(r, w, f)}
        BY <3>8, <3>9 DEF Views, Maps
      <4>2. p \in Common[p][w]
        BY <3>9, <4>1
      <4>3. q \in Common[p][w] \cup {c}
        BY <2>1, <3>9, <4>1 DEF f, Maps
      <4>4. Common'[q][w] = Common[p][w] \cup {c}
        BY <1>1, <1>7, <3>1, <3>4, <3>9, <4>1
      <4>5. QED
        BY <4>2, <4>3, <4>4
    <3>10. CASE ~ Maps(p, w, f)
      <4>1. q # c
        BY <2>1, <3>10 DEF f, Maps
      <4>2. Common'[q][w] = Common[q][w]
        BY <1>7, <3>1, <3>3, <3>4, <3>5, <3>10, <4>1
      <4>3. q \notin Common[p][w]
        <5>1. ASSUME q \in Common[p][w] PROVE FALSE
          <6>1. Maps(q, w, pt[p][w].frame) /\ Present(p, w)
            BY <5>1 DEF Views
          <6>2. Maps(p, w, f)
            BY <4>1, <6>1 DEF Maps, f
          <6>3. QED
            BY <3>10, <6>2
        <5>2. QED
          BY <5>1
      <4>4. QED
        BY <4>1, <4>2, <4>3
    <3>11. QED
      BY <3>9, <3>10
  <2>2. CASE ~ (Present(Origin(q), w) /\ pt[Origin(q)][w].shared)
    <3>1. ~ (Present(q, w) /\ pt[q][w].shared)'
      BY <1>4, <2>2
    <3>2. Common'[q][w] = {}
      BY <3>1 DEF Views
    <3>3. Origin(q) \in Procs
      OBVIOUS
    <3>4. Common[Origin(q)][w] = {} /\ Common[c][w] = {}
      BY <1>3, <2>2, <3>3 DEF Views
    <3>5. ~ (p \in Common[p][w] /\ q \in Common[p][w] \cup {c})
      <4>1. CASE q \in {p, c}
        BY <3>4, <4>1
      <4>2. ASSUME q \notin {p, c}, q \in Common[p][w]
            PROVE  FALSE
        <5>1. Present(p, w) /\ pt[p][w].shared /\ Maps(q, w, pt[p][w].frame)
          BY <4>2 DEF Views
        <5>2. pt[q][w].shared /\ Present(q, w)
          BY <2>0, <4>2, <5>1
          DEF Steady, Private, SharedAreWritable, WritersAlone, Maps
        <5>3. QED
          BY <2>2, <4>2, <5>2
      <4>3. QED
        BY <4>1, <4>2
    <3>6. Common[q][w] = {}
      BY <3>4
    <3>7. QED
      BY <3>2, <3>5, <3>6
  <2>3. QED
    BY <2>1, <2>2
<1>9. Common' = [q \in Procs |-> [w \in UserPages |->
                   IF p \in Common[p][w] /\ q \in Common[p][w] \cup {c}
                   THEN Common[p][w] \cup {c} ELSE Common[q][w]]]
  <2> DEFINE u == [q \in Procs |-> [w \in UserPages |->
                     IF p \in Common[p][w] /\ q \in Common[p][w] \cup {c}
                     THEN Common[p][w] \cup {c} ELSE Common[q][w]]]
  <2>1. IsTable(u) /\ IsTable(Common')
    BY AreTables DEF IsTable, Common
  <2>2. \A q \in Procs, w \in UserPages : Common'[q][w] = u[q][w]
    BY <1>8
  <2> HIDE DEF u
  <2>3. Common' = u
    BY <2>1, <2>2, Tables
  <2>4. QED
    BY <2>3 DEF u
<1>10. p \in Promise!Alive /\ c \notin Promise!Alive
  BY <1>1 DEF AliveAsSeen
<1>11. QED
  BY <1>6, <1>9, <1>10 DEF Promise!Fork

(* loader_load: a process with its program and nothing else, while what    *)
(* the caller sees of its own pages is as before.                          *)
LEMMA LoadStarts ==
  ASSUME Steady, TypeOK', Views, Views', AliveAsSeen, Careless = {},
         NEW p \in Procs, NEW c \in Procs, Load(p, c)
  PROVE  Promise!Start(c)
<1> DEFINE kstack == mm_mem_alloc(free)
<1> DEFINE first == mm_mem_alloc(free \ {kstack})
<1> DEFINE its == [NoPages EXCEPT ![KSTACK] = Mapped(kstack),
                                  ![FIRST] = Mapped(first)]
<1>1. Present(p, AREA) /\ p \in alive /\ c \notin alive /\ c # p
  BY PresentIsAlive, Addresses DEF Load, NewPid, Steady
<1>2. first \in free
  BY Allocated DEF Load, Steady, TypeOK
<1>3. pt[p][FIRST] = Mapped(pt[p][FIRST].frame)
  BY DEF Load
<1>4. /\ \A w \in UserPages : pt'[p][w] = pt[p][w]
      /\ \A q \in Procs \ {p, c} : pt'[q] = pt[q]
      /\ pt'[c] = its
  BY <1>1, <1>3, Addresses DEF Load, Steady, TypeOK
<1>5. \A w \in UserPages : pt'[c][w] = IF w = FIRST THEN Mapped(first) ELSE Absent
  BY <1>4, Addresses DEF NoPages
<1>6. \A f \in Frames \ free : mem'[f] = mem[f]
  BY <1>2 DEF Load, Steady, TypeOK
<1>7. \A w \in UserPages : ~ Present(c, w)
  BY <1>1, Addresses, PresentIsAlive DEF Steady
<1> HIDE DEF its, first, kstack
<1>8. \A q \in Procs \ {c}, w \in UserPages : pt'[q][w] = pt[q][w]
  BY <1>4
<1>9. ASSUME NEW q \in Procs \ {c}, NEW w \in UserPages
      PROVE  Seen'[q][w] = Seen[q][w]
  <2>1. Present(q, w) => pt[q][w].frame \in Frames \ free
    BY Addresses, PresentIsAlive DEF Steady, Frugal, MappedFramesAreUsed
  <2>2. Looks(q, w, q)
    BY <1>6, <1>8, <2>1 DEF Looks, Present
  <2>3. QED
    BY <2>2, SeenAs
<1>10. /\ Seen'[c][FIRST] \in Values
       /\ \A w \in UserPages \ {FIRST} : Seen'[c][w] = Absent
  <2>1. Present(c, FIRST)' /\ \A w \in UserPages \ {FIRST} : ~ Present(c, w)'
    BY <1>5, MappedFacts, Addresses DEF Present, Absent
  <2>2. QED
    BY <1>5, <2>1, Addresses DEF Views
<1>11. Seen' = [Seen EXCEPT ![c] = Promise!Loaded(Seen'[c][FIRST])]
  <2> DEFINE row == Promise!Loaded(Seen'[c][FIRST])
  <2>1. IsTable(Seen) /\ IsTable(Seen')
    BY AreTables DEF IsTable, Seen
  <2>2. row = [w \in UserPages |-> row[w]]
    BY DEF Promise!Loaded, Promise!NoPages
  <2>3. \A w \in UserPages : Seen'[c][w] = row[w]
    BY <1>10, Addresses DEF Promise!Loaded, Promise!NoPages
  <2> HIDE DEF row
  <2>4. \A q \in Procs \ {c}, w \in UserPages : Seen'[q][w] = Seen[q][w]
    BY <1>9
  <2>5. Seen' = [Seen EXCEPT ![c] = row]
    BY <2>1, <2>2, <2>3, <2>4, RowWritten
  <2>6. QED
    BY <2>5 DEF row
<1>12. ASSUME NEW q \in Procs, NEW w \in UserPages
       PROVE  Common'[q][w] = Common[q][w]
  <2>0. w \in Pages
    BY Addresses
  <2>1. CASE q = c
    <3>1. ~ (Present(c, w) /\ pt[c][w].shared)'
      BY <1>5, MappedFacts, WritableFacts DEF Present, Absent
    <3>2. Common'[c][w] = {}
      BY <3>1 DEF Views
    <3>3. Common[c][w] = {}
      BY <1>7 DEF Views
    <3>4. QED
      BY <2>1, <3>2, <3>3
  <2>2. CASE q # c /\ Present(q, w) /\ pt[q][w].shared
    <3>1. pt[q][w].frame \notin free /\ pt'[q][w] = pt[q][w]
      BY <1>8, <2>0, <2>2 DEF Steady, Frugal, MappedFramesAreUsed
    <3>2. \A r \in Procs : (Present(r, w)' /\ pt'[r][w].frame = pt[q][w].frame)
                             <=> Maps(r, w, pt[q][w].frame)
      <4>1. ~ (Present(c, w)' /\ pt'[c][w].frame = pt[q][w].frame)
        BY <1>2, <1>5, <3>1, MappedFacts DEF Present, Absent
      <4>2. QED
        BY <1>7, <1>8, <4>1 DEF Maps, Present
    <3>3. Common[q][w] = {r \in Procs : Maps(r, w, pt[q][w].frame)}
      BY <2>2 DEF Views
    <3>4. Common'[q][w] = {r \in Procs : Present(r, w)'
                                         /\ pt'[r][w].frame = pt[q][w].frame}
      BY <2>2, <3>1 DEF Views, Present, Maps
    <3>5. QED
      BY <3>2, <3>3, <3>4
  <2>3. CASE q # c /\ ~ (Present(q, w) /\ pt[q][w].shared)
    <3>1. ~ (Present(q, w) /\ pt[q][w].shared)'
      BY <1>8, <2>3 DEF Present
    <3>2. Common'[q][w] = {}
      BY <3>1 DEF Views
    <3>3. Common[q][w] = {}
      BY <2>3 DEF Views
    <3>4. QED
      BY <3>2, <3>3
  <2>4. QED
    BY <2>1, <2>2, <2>3
<1>13. Common' = Common
  <2>1. IsTable(Common) /\ IsTable(Common')
    BY AreTables DEF IsTable, Common
  <2>2. QED
    BY <1>12, <2>1, Tables
<1>14. c \notin Promise!Alive
  BY <1>1 DEF AliveAsSeen
<1>15. QED
  BY <1>10, <1>11, <1>13, <1>14 DEF Promise!Start

-----------------------------------------------------------------------------
(* The idle process loads init: one process with its program.              *)
LEMMA InitStarts == Init => Promise!Init /\ Steady
<1> SUFFICES ASSUME Init PROVE Promise!Init /\ Steady
  OBVIOUS
<1>1. TypeOK /\ Frugal /\ Private
  BY Initially DEF Private, SharedAreWritable
<1>2. \A q \in Procs, w \in UserPages : Present(q, w) => ~ pt[q][w].shared
  BY Initially, Addresses
<1> DEFINE p == Min(Procs)
<1> DEFINE first == mm_mem_alloc(Frames \ {mm_mem_alloc(Frames)})
<1>3. \A q \in Procs, w \in UserPages :
        pt[q][w] = IF q = p /\ w = FIRST THEN Mapped(first) ELSE Absent
  BY Addresses DEF Init, NoPages
<1>4. alive = {p}
  BY DEF Init
<1> HIDE DEF p, first
<1>5. p \in Procs
  BY <1>1, <1>4 DEF TypeOK
<1>6. NotYet
  BY <1>3, HeapPages, MemoryAssumption DEF NotYet, Heap, FIRST
<1>7. Views
  BY <1>1, ViewsOf
<1>8. /\ Seen[p][FIRST] \in Values
      /\ \A q \in Procs, w \in UserPages :
           <<q, w>> # <<p, FIRST>> => Seen[q][w] = Absent
  BY <1>3, <1>5, <1>7, MappedFacts, Addresses DEF Views, Present, Absent
<1>9. \E x \in Values : Seen = [q \in Procs |-> IF q = p THEN Promise!Loaded(x)
                                                       ELSE Promise!NoPages]
  <2> DEFINE none == [q \in Procs |-> [w \in UserPages |-> Absent]]
  <2> DEFINE u == [q \in Procs |-> [w \in UserPages |->
                     IF q = p /\ w = FIRST THEN Seen[p][FIRST] ELSE Absent]]
  <2>1. IsTable(u) /\ IsTable(Seen)
    BY AreTables DEF IsTable
  <2>2. \A q \in Procs, w \in UserPages : Seen[q][w] = u[q][w]
    BY <1>8
  <2> HIDE DEF u
  <2>3. Seen = u
    BY <2>1, <2>2, Tables
  <2>4. \A q \in Procs : u[q] = IF q = p THEN Promise!Loaded(Seen[p][FIRST])
                                        ELSE Promise!NoPages
    BY Addresses DEF u, Promise!Loaded, Promise!NoPages
  <2>5. u = [q \in Procs |-> IF q = p THEN Promise!Loaded(Seen[p][FIRST])
                                     ELSE Promise!NoPages]
    BY <2>4 DEF u
  <2>6. QED
    BY <1>8, <2>3, <2>5
<1>10. Common = [q \in Procs |-> [w \in UserPages |-> {}]]
  <2> DEFINE u == [q \in Procs |-> [w \in UserPages |-> {}]]
  <2>1. IsTable(u) /\ IsTable(Common)
    BY AreTables DEF IsTable
  <2>2. \A q \in Procs, w \in UserPages : Common[q][w] = u[q][w]
    BY <1>2, <1>7 DEF Views
  <2> HIDE DEF u
  <2>3. Common = u
    BY <2>1, <2>2, Tables
  <2>4. QED
    BY <2>3 DEF u
<1>11. Promise!Init
  BY <1>5, <1>9, <1>10 DEF Promise!Init
<1>12. QED
  BY <1>1, <1>6, <1>11 DEF Steady

(* A fault gives a page that was asked for, ends the process, or shows in  *)
(* nothing that a process sees.                                            *)
LEMMA FaultMaps ==
  ASSUME Steady, TypeOK', Views, Views', AliveAsSeen,
         NEW p \in Procs, NEW v \in UserPages, PageFault(p, v)
  PROVE  \/ Promise!Fill(p, v) \/ Promise!End(p)
         \/ UNCHANGED Promise!vars
<1>1. p \in alive /\ free \subseteq Frames
  BY DEF PageFault, InUserMode, Steady, TypeOK
<1>2. CASE pt[p][v] = Requested /\ mm_user_allocate(p, v)
  <2> DEFINE frame == mm_mem_alloc(free)
  <2>1. CASE frame = NULL
    BY <1>1, <1>2, <2>1, ExitEnds DEF mm_user_allocate
  <2>2. CASE frame # NULL
    <3>1. frame \in free
      BY <1>1, <2>2, Allocated
    <3>2. pt' = [pt EXCEPT ![p][v] = Mapped(frame)] /\ mem' = mem
      BY <1>2, <2>2 DEF mm_user_allocate
    <3> DEFINE e == Mapped(frame)
    <3>3. /\ e \in Entries /\ e.state = "present" /\ e.frame = frame
          /\ ~ e.shared /\ pt' = [pt EXCEPT ![p][v] = e] /\ mem' = mem
      BY <1>1, <3>1, <3>2, EntriesWritten, MappedFacts
    <3> HIDE DEF frame, e
    <3>4. /\ Seen[p][v] = Requested /\ Seen'[p][v] \in Values
          /\ Seen' = Put(Seen, p, v, Seen'[p][v])
          /\ Common' = Common
      BY <1>2, <3>1, <3>3, Allocates
    <3>5. QED
      BY <3>4 DEF Promise!Fill, Promise!With, Put
  <2>3. QED
    BY <2>1, <2>2
<1>3. CASE Present(p, v) /\ ~ pt[p][v].rw /\ mm_copy_on_write(p, v)
  <2>1. CASE CopiedByOthers(p, v) /\ mm_mem_alloc(free) = NULL
    BY <1>1, <1>3, <2>1, ExitEnds DEF mm_copy_on_write
  <2>2. CASE ~ (CopiedByOthers(p, v) /\ mm_mem_alloc(free) = NULL)
    BY <1>3, <2>2, CopyUnseen
  <2>3. QED
    BY <2>1, <2>2
<1>4. QED
  BY <1>1, <1>2, <1>3, ExitEnds DEF PageFault

(* share_page of a page that is there or was asked for. *)
LEMMA ShareMaps ==
  ASSUME Steady, TypeOK', Views, Views', AliveAsSeen, Careless = {},
         NEW p \in Procs, NEW v \in UserPages, share_page(p, v)
  PROVE  Promise!Mark(p, v) \/ Promise!End(p)
<1>1. p \in alive /\ free \subseteq Frames /\ v \in Pages /\ pt[p][v] \in Entries
  BY Addresses DEF share_page, InUserMode, Steady, TypeOK
<1>2. CASE Present(p, v) /\ pt' = [pt EXCEPT ![p][v] = Shared(@)] /\ mem' = mem
  <2>1. pt' = [pt EXCEPT ![p][v] = Shared(pt[p][v])]
    BY <1>1, <1>2 DEF Steady, TypeOK
  <2>2. ~ pt[p][v].cor
    BY <1>2 DEF share_page, CopyOnWrite, Present
  <2>3. pt[p][v].cor = ~ pt[p][v].rw
    BY <1>1, <1>2, EntriesWritten DEF Present
  <2>4. pt[p][v].rw
    BY <2>2, <2>3, Zenon
  <2>5. QED
    BY <1>2, <2>1, <2>4, ShareMarks
<1>3. CASE mm_mem_alloc(free) = NULL /\ Exit(p)
  BY <1>1, <1>3, ExitEnds
<1>4. CASE /\ pt[p][v] = Requested /\ mm_mem_alloc(free) # NULL /\ mem' = mem
           /\ pt' = [pt EXCEPT ![p][v] = Shared(Mapped(mm_mem_alloc(free)))]
  <2> DEFINE frame == mm_mem_alloc(free)
  <2> DEFINE e == Shared(Mapped(frame))
  <2>1. frame \in free
    BY <1>1, <1>4, Allocated
  <2>2. pt' = [pt EXCEPT ![p][v] = e] /\ mem' = mem
    BY <1>4
  <2>3. e \in Entries /\ e.state = "present" /\ e.frame = frame
    BY <1>1, <2>1, EntriesWritten, MappedFacts DEF Shared, Entry
  <2>4. e.shared
    BY WritableFacts
  <2> HIDE DEF frame, e
  <2>5. /\ Seen[p][v] = Requested /\ Common[p][v] = {} /\ Seen'[p][v] \in Values
        /\ Seen' = Put(Seen, p, v, Seen'[p][v])
        /\ Common' = Put(Common, p, v, {p})
    BY <1>4, <2>1, <2>2, <2>3, <2>4, Allocates
  <2>6. Common' = Put(Common, p, v, Common[p][v] \cup {p})
    BY <2>5
  <2>7. QED
    BY <2>5, <2>6 DEF Promise!Mark, Promise!With, Put
<1>5. QED
  BY <1>2, <1>3, <1>4 DEF share_page

LEMMA StepMaps ==
  ASSUME Steady, TypeOK', Views, Views', AliveAsSeen, Careless = {}, [Next]_vars
  PROVE  [Promise!Next]_(Promise!vars)
<1>1. CASE UNCHANGED vars
  BY <1>1 DEF vars, Promise!vars, Seen, Common, Content, Sharers, Present, Maps
<1>2. ASSUME NEW p \in Procs, InUserMode(p) /\ Exit(p)
      PROVE  Promise!Next
  BY <1>2, ExitEnds DEF InUserMode, Promise!Next
<1>3. ASSUME NEW p \in Procs, palloc(p)
      PROVE  Promise!Next
  <2>1. next_empty[p] \in Heap
    BY <1>3, MemoryAssumption DEF palloc, Steady, TypeOK, Heap
  <2>2. next_empty[p] \in UserPages /\ next_empty[p] \in Int
    BY <2>1, HeapPages
  <2>3. pt[p][next_empty[p]] = Absent /\ p \in alive
    BY <1>3, <2>1, <2>2 DEF Steady, NotYet, palloc, InUserMode
  <2>4. Promise!Ask(p, next_empty[p])
    BY <1>3, <2>2, <2>3, PallocAsks DEF palloc
  <2>5. QED
    BY <2>2, <2>4 DEF Promise!Next
<1>4. ASSUME NEW p \in Procs, NEW v \in UserPages, PageFault(p, v) \/ share_page(p, v)
      PROVE  [Promise!Next]_(Promise!vars)
  BY <1>4, FaultMaps, ShareMaps DEF Promise!Next
<1>5. ASSUME NEW p \in Procs, NEW v \in UserPages, NEW x \in Values,
             Store(p, v, x) \/ copy2user(p, v, x)
      PROVE  Promise!Next
  <2>1. Present(p, v) /\ Stored(p, v, x)
    BY <1>5 DEF Store, copy2user
  <2>2. pt[p][v] \in Entries
    BY Addresses DEF Steady, TypeOK
  <2>3. pt[p][v].rw
    <3>1. CASE Store(p, v, x)
      BY <3>1 DEF Store
    <3>2. CASE copy2user(p, v, x)
      <4>1. ~ pt[p][v].cor
        BY <2>1, <3>2 DEF copy2user, CopyOnWrite, Present
      <4>2. pt[p][v].cor = ~ pt[p][v].rw
        BY <2>1, <2>2, EntriesWritten DEF Present
      <4>3. QED
        BY <4>1, <4>2, Zenon
    <3>3. QED
      BY <1>5, <3>1, <3>2
  <2>4. Promise!Write(p, v)
    BY <2>1, <2>3, StoreWrites
  <2>5. QED
    BY <2>4 DEF Promise!Next
<1>6. ASSUME NEW p \in Procs, NEW c \in Procs, Fork(p, c) \/ Load(p, c)
      PROVE  Promise!Next
  BY <1>6, ForkForks, LoadStarts DEF Promise!Next
<1>7. ASSUME NEW p \in Procs, Run(p) \/ RunFails(p)
      PROVE  UNCHANGED Promise!vars
  BY <1>7, FileUnseen
<1>8. QED
  BY <1>1, <1>2, <1>3, <1>4, <1>5, <1>6, <1>7 DEF Next

(* With demand paging, copy on write and shared pages, what mm.c, fork and *)
(* run do to frames and page tables shows to the processes only as pages   *)
(* of their own, copied to a child and common where they were marked as    *)
(* shared, if no process makes the uses of the kernel's stores, share_page *)
(* and run that the code gets wrong.                                       *)
THEOREM EachSeesItsOwnPages ==
  ASSUME Careless = {}
  PROVE  Spec => ImplementsAddressSpaces
<1>1. Init => Promise!Init /\ Steady
  BY InitStarts
<1>2. Steady /\ [Next]_vars => Steady'
  BY TypePreserved, FrugalPreserved, PrivatePreserved, NotYetPreserved DEF Steady
<1>3. TypeOK => Views
  BY ViewsOf
<1>4. TypeOK => AliveAsSeen
  BY AliveOf
<1>5. Steady => TypeOK
  BY DEF Steady
<1>6. Steady /\ TypeOK' /\ Views /\ Views' /\ AliveAsSeen /\ [Next]_vars
        => [Promise!Next]_(Promise!vars)
  BY StepMaps
<1>7. QED
  BY <1>1, <1>2, <1>3, <1>4, <1>5, <1>6, PTL DEF Spec, ImplementsAddressSpaces, Promise!Spec
=============================================================================
