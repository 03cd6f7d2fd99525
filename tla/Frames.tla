-------------------------------- MODULE Frames --------------------------------
(***************************************************************************)
(* The frames and the page tables of mm.c: the bitmap and its set-up from  *)
(* the memory map of the BIOS, the search for a frame in the zone of the   *)
(* kernel or of the users, directories and page tables, which are frames   *)
(* of the kernel's zone that stay with whatever their last owner wrote,    *)
(* and the calls of loader.c that build, borrow and take down tables.      *)
(*                                                                         *)
(* The sizes of the code are parameters: a page has PAGE_SIZE bytes, a     *)
(* byte of the bitmap BITS frames, the kernel's zone ends at               *)
(* MM_KERNEL_LIMIT, a directory has PDES entries and a table PTES.  The    *)
(* order of the bits in a byte is left out.  Frames are named by their     *)
(* number, the base of a page table entry.                                 *)
(*                                                                         *)
(* Pages shared between processes are the matter of Memory.tla; here every *)
(* process has a program of one page, a heap, two stacks and the pages run *)
(* borrows.                                                                *)
(***************************************************************************)
EXTENDS Integers, FiniteSets, FiniteSetsExt, Sequences

CONSTANTS PAGE_SIZE, BITS, HIMEM_BEGIN, MM_KERNEL_LIMIT, PDES, PTES,
          MMAPS,      (* memory maps: sequences of [addr, len, available]  *)
          MAX_PID,
          HEAP        (* bound: pages a process asks for                   *)

ASSUME FramesAssumption ==
  /\ PAGE_SIZE \in Nat \ {0} /\ BITS \in Nat \ {0}
  /\ HIMEM_BEGIN \in Nat \ {0} /\ HIMEM_BEGIN % PAGE_SIZE = 0
  /\ MM_KERNEL_LIMIT \in Nat
  /\ (MM_KERNEL_LIMIT - HIMEM_BEGIN) % (PAGE_SIZE * BITS) = 0
  /\ PDES \in 3 .. PAGE_SIZE /\ PTES \in 2 .. PDES
  /\ MAX_PID \in Nat /\ MAX_PID >= 2 /\ HEAP \in Nat

VARIABLES mmap,               (* the memory map                            *)
          mm,                 (* len: mm_bitmap_byte_len; used: the bits   *)
                              (* of mm_bitmap that are set; mem: the       *)
                              (* kernel's frames as tables of entries      *)
          cr3,                (* each process's directory, 0 if there is   *)
                              (* no process                                *)
          next_empty,         (* next_empty_page_addr                      *)
          area,               (* what run has borrowed: start and pages    *)
          kept                (* frames an exit did not free               *)

vars == <<mmap, mm, cr3, next_empty, area, kept>>

IDLE_PID == 0
Procs    == 0 .. MAX_PID - 1
NULL     == 0
BASE     == HIMEM_BEGIN \div PAGE_SIZE     (* number of the first frame    *)
KERNEL_BYTES == ((MM_KERNEL_LIMIT - HIMEM_BEGIN) \div PAGE_SIZE) \div BITS

FIRST   == PTES                            (* USER_MEMORY_START            *)
KSTACK  == PDES * PTES - 1                 (* TASK_K_STACK_ADDRESS         *)
USTACK  == PDES * PTES - 2                 (* TASK_U_STACK_ADDRESS         *)
Pages   == PTES .. PDES * PTES - 1         (* all but the kernel's         *)

Entry(base, attr) == [base |-> base, attr |-> attr]
Zero      == Entry(0, {})
Zeroes    == [i \in 0 .. PDES - 1 |-> Zero]
Requested == Entry(0, {"RW"})              (* PAGE_REQUESTED is that bit   *)

PDE(v) == v \div PTES
PTE(v) == v % PTES

-----------------------------------------------------------------------------
(* The set-up of the bitmap.                                               *)

Above(m, i) == m[i].addr >= HIMEM_BEGIN

mm_mmap_last_valid_entry(m) ==
  LET valid == {i \in DOMAIN m : Above(m, i) /\ m[i].available}
  IN  IF valid = {} THEN 1 ELSE Max(valid)

mm_mem_length(m, last) ==
  MapThenSumSet(LAMBDA i : IF Above(m, i) THEN m[i].len ELSE 0, 1 .. last)

RoundedUp(n) == n \div PAGE_SIZE + (IF n % PAGE_SIZE > 0 THEN 1 ELSE 0)

(* The bitmap lies at HIMEM_BEGIN and marks the pages it takes itself. *)
mm_reserve_bitmap_pages(byte_len) == 0 .. RoundedUp(byte_len) - 1

mm_mark_used(m, last) ==
  UNION {LET position == (m[i].addr - HIMEM_BEGIN) \div PAGE_SIZE
         IN  position .. position + RoundedUp(m[i].len) - 1
         : i \in {j \in 1 .. last : Above(m, j) /\ ~ m[j].available}}

ByteLen(m) ==
  (mm_mem_length(m, mm_mmap_last_valid_entry(m)) \div PAGE_SIZE) \div BITS

mm_setup_bitmap(m) ==
  mm_reserve_bitmap_pages(ByteLen(m)) \cup
  mm_mark_used(m, mm_mmap_last_valid_entry(m))

-----------------------------------------------------------------------------
(* The operators below go from mm, the record of the bitmap and of the     *)
(* tables, to the next one.                                                *)

Bytes(m, zone) ==
  IF zone = "kernel" THEN 0 .. KERNEL_BYTES - 1
  ELSE KERNEL_BYTES .. m.len - 1

BitsOf(byte) == byte * BITS .. byte * BITS + BITS - 1

FreeBits(m, zone) == {i \in UNION {BitsOf(b) : b \in Bytes(m, zone)} : i \notin m.used}

(* The first byte of the zone that is not full, and its first clear bit. *)
mm_mem_seek(m, zone) ==
  LET open == {b \in Bytes(m, zone) : ~ BitsOf(b) \subseteq m.used}
  IN  IF open = {} THEN NULL ELSE BASE + Min(BitsOf(Min(open)) \ m.used)

mm_mem_alloc(m)  == mm_mem_seek(m, "user")
mm_mem_kalloc(m) == mm_mem_seek(m, "kernel")

set_bit(m, frame)     == [m EXCEPT !.used = @ \cup {frame - BASE}]
mm_mem_free(m, frame) == [m EXCEPT !.used = @ \ {frame - BASE}]

mm_free_page_count(m, zone) ==
  MapThenSumSet(LAMBDA b : Cardinality(BitsOf(b) \ m.used), Bytes(m, zone))

(* A new directory, with the kernel's table in its first entry. *)
mm_dir_new(m, kernel_pagetable) ==
  LET dir == mm_mem_kalloc(m)
  IN  [set_bit(m, dir) EXCEPT
         !.mem[dir] = [Zeroes EXCEPT ![0] = Entry(kernel_pagetable, {"P", "RW"})]]

HasTable(m, dir, v) == "P" \in m.mem[dir][PDE(v)].attr

mm_pt_entry_for(m, dir, v) ==
  IF HasTable(m, dir, v) THEN m.mem[m.mem[dir][PDE(v)].base][PTE(v)] ELSE Zero

mm_frame_from_page(m, dir, v) == mm_pt_entry_for(m, dir, v).base

(* The part that mm_map_frame and mm_set_pt_entry share: a cleared table,  *)
(* if the directory has none for this address, and the entry in it.        *)
WithEntry(m, dir, v, entry) ==
  LET new == mm_mem_kalloc(m)
      n   == IF HasTable(m, dir, v) THEN m
             ELSE [set_bit(m, new) EXCEPT
                     !.mem[dir][PDE(v)] = Entry(new, {"P", "RW", "US"}),
                     !.mem[new] = Zeroes]
  IN  [n EXCEPT !.mem[n.mem[dir][PDE(v)].base][PTE(v)] = entry]

mm_map_frame(m, frame, v, dir, pl) ==
  WithEntry(m, dir, v, Entry(frame, {"P", "RW"} \cup pl))

PL_USER   == {"US"}
PL_KERNEL == {}

mm_unmap_page(m, v, dir) ==
  [m EXCEPT !.mem[m.mem[dir][PDE(v)].base][PTE(v)] = Zero]

(* Definitions named <operator>_<Slip> are variants with a plausible       *)
(* mistake; no specification uses them.                                    *)
mm_free_page_table_for_KeepsFrame(m, v, dir) ==
  [m EXCEPT !.mem[dir][PDE(v)] = Zero]

mm_free_page_table_for_KeepsEntry(m, v, dir) == mm_mem_free(m, m.mem[dir][PDE(v)].base)

mm_free_page_table_for(m, v, dir) ==
  [mm_mem_free(m, m.mem[dir][PDE(v)].base) EXCEPT !.mem[dir][PDE(v)] = Zero]

FreePdes(m, dir) == {e \in 0 .. PDES - 1 : m.mem[dir][e].attr = {}}

mm_vaddr_for_free_pdt_entry(m, dir) == Min(FreePdes(m, dir)) * PTES

-----------------------------------------------------------------------------
(* loader.c on top of them.                                                *)

Processes == {p \in Procs : cr3[p] # NULL}

(* mm_mem_alloc and mm_map_frame: one page more for the directory. *)
Backed(m, v, dir, pl) ==
  LET frame == mm_mem_alloc(m)
  IN  mm_map_frame(set_bit(m, frame), frame, v, dir, pl)

(* The frames of the child's kernel stack and of its program appear for a  *)
(* while at the caller's first page; then the caller has its own back.     *)
loader_load(m, dir, kernel_pagetable, idle) ==
  LET old == mm_frame_from_page(m, dir, FIRST)
      new == mm_mem_kalloc(m)
      m1  == Backed(mm_dir_new(m, kernel_pagetable), KSTACK, new, PL_KERNEL)
      m2  == mm_map_frame(m1, mm_frame_from_page(m1, new, KSTACK), FIRST, dir, PL_KERNEL)
      m3  == Backed(Backed(m2, USTACK, new, PL_USER), FIRST, new, PL_USER)
      m4  == mm_map_frame(m3, mm_frame_from_page(m3, new, FIRST), FIRST, dir, PL_KERNEL)
      m5  == mm_unmap_page(m4, FIRST, dir)
  IN  IF idle THEN m5 ELSE mm_map_frame(m5, old, FIRST, dir, PL_USER)

free_run_resources(m, dir, start, pages) ==
  LET Freed == FoldSet(LAMBDA v, n :
                 mm_mem_free(mm_unmap_page(n, v, dir), mm_frame_from_page(n, dir, v)),
                 m, start .. start + pages - 1)
  IN  mm_free_page_table_for(Freed, start, dir)

-----------------------------------------------------------------------------
KernelFrames == BASE .. BASE + KERNEL_BYTES * BITS - 1

(* Memory as it may be before anyone clears it: entries that look present. *)
Junk == [i \in 0 .. PDES - 1 |-> Entry(BASE, {"P", "RW", "US"})]

KernelTable ==
  [i \in 0 .. PDES - 1 |-> IF i = 0 THEN Zero ELSE Entry(i, {"P", "RW"})]

kernel_pagetable == mm.mem[cr3[IDLE_PID]][0].base

NoArea == [start |-> 0, pages |-> 0]

(* mm_init, enable_paging and the load of the first process. *)
Init ==
  \E map \in MMAPS :
    LET m0    == [len |-> ByteLen(map), used |-> mm_setup_bitmap(map), mem |-> [f \in KernelFrames |-> Junk]]
        table == mm_mem_kalloc(m0)
        m1    == [set_bit(m0, table) EXCEPT !.mem[table] = KernelTable]
        idle  == mm_mem_kalloc(m1)
        m2    == mm_dir_new(m1, table)
    IN
    /\ mmap = map
    /\ cr3 = [p \in Procs |-> CASE p = IDLE_PID -> idle
                                [] p = 1        -> mm_mem_kalloc(m2)
                                [] OTHER        -> NULL]
    /\ mm = loader_load(m2, idle, table, TRUE)
    /\ next_empty = [p \in Procs |-> FIRST + 1]
    /\ area = [p \in Procs |-> NoArea]
    /\ kept = {}

(* A process between two calls; run blocks on the disk while it has pages  *)
(* borrowed.                                                               *)
InUserMode(p) == p \in Processes \ {IDLE_PID} /\ area[p] = NoArea

(* Bound: the calls that do not test for a failed mm_mem_kalloc or         *)
(* mm_mem_alloc happen with enough frames free.                            *)
Room(kernel_frames, user_frames) ==
  /\ Cardinality(FreeBits(mm, "kernel")) >= kernel_frames
  /\ Cardinality(FreeBits(mm, "user")) >= user_frames

(* set_as_requested.  With no frame for a table the call fails, and the    *)
(* address is not used again.                                              *)
palloc(p) ==
  LET page == next_empty[p]
      old  == mm_pt_entry_for(mm, cr3[p], page)
  IN
  /\ InUserMode(p)
  /\ page <= FIRST + HEAP
  /\ next_empty' = [next_empty EXCEPT ![p] = @ + 1]
  /\ IF HasTable(mm, cr3[p], page) \/ mm_mem_kalloc(mm) # NULL
     THEN mm' = WithEntry(mm, cr3[p], page, [old EXCEPT !.attr = @ \cup {"RW"}])
     ELSE mm' = mm
  /\ UNCHANGED <<mmap, cr3, area, kept>>

Present(p, v) ==
  cr3[p] # NULL /\ "P" \in mm_pt_entry_for(mm, cr3[p], v).attr

(* is_to_be_copied_on_write_by_other_processes: some other process has a   *)
(* page at this address.                                                   *)
KeptBack(p, v) == \E q \in Procs \ {p} : Present(q, v)

FramesAt(p, S) == {mm_frame_from_page(mm, cr3[p], v) : v \in S}

TablesOf(p) ==
  {mm.mem[cr3[p]][e].base : e \in {d \in 1 .. PDES - 1 : "P" \in mm.mem[cr3[p]][d].attr}}

(* mm_dir_free in loader_exit. *)
Exit(p) ==
  LET S    == {v \in Pages : Present(p, v)}
      Left == {v \in S : KeptBack(p, v)}
      Free == FramesAt(p, S \ Left) \cup TablesOf(p) \cup {cr3[p]}
  IN
  /\ mm' = [mm EXCEPT !.used = @ \ {f - BASE : f \in Free}]
  /\ kept' = kept \cup FramesAt(p, Left)
  /\ cr3' = [cr3 EXCEPT ![p] = NULL]
  /\ next_empty' = [next_empty EXCEPT ![p] = FIRST + 1]
  /\ UNCHANGED <<mmap, area>>

(* page_fault_handler at a page that palloc promised: mm_user_allocate,    *)
(* which kills the process when there is no frame.                         *)
PageFault(p, v) ==
  LET entry == mm_pt_entry_for(mm, cr3[p], v) IN
  /\ InUserMode(p)
  /\ "P" \notin entry.attr /\ "RW" \in entry.attr
  /\ IF mm_mem_alloc(mm) # NULL
     THEN /\ mm' = Backed(mm, v, cr3[p], PL_USER)
          /\ UNCHANGED <<mmap, cr3, next_empty, area, kept>>
     ELSE Exit(p)

(* run, up to the first read of the file, which blocks. *)
Run(p) ==
  LET start == mm_vaddr_for_free_pdt_entry(mm, cr3[p]) IN
  /\ InUserMode(p)
  /\ Room(1, 1) /\ FreePdes(mm, cr3[p]) # {}
  /\ mm' = Backed(mm, start, cr3[p], PL_USER)
  /\ area' = [area EXCEPT ![p] = [start |-> start, pages |-> 1]]
  /\ UNCHANGED <<mmap, cr3, next_empty, kept>>

(* The header has been read, and the program needs more pages. *)
RunGrows(p) ==
  LET v == area[p].start + area[p].pages IN
  /\ area[p].pages \in 1 .. PTES - 1
  /\ mm_mem_alloc(mm) # NULL
  /\ mm' = Backed(mm, v, cr3[p], PL_USER)
  /\ area' = [area EXCEPT ![p].pages = @ + 1]
  /\ UNCHANGED <<mmap, cr3, next_empty, kept>>

(* A read failed, the file is no program, or there is no frame for it. *)
RunFails(p) ==
  /\ area[p].pages > 0
  /\ mm' = free_run_resources(mm, cr3[p], area[p].start, area[p].pages)
  /\ area' = [area EXCEPT ![p] = NoArea]
  /\ UNCHANGED <<mmap, cr3, next_empty, kept>>

(* loader_load with the first free pid, and free_run_resources. *)
RunLoads(p) ==
  LET q == Min({r \in Procs : cr3[r] = NULL}) IN
  /\ area[p].pages > 0
  /\ \E r \in Procs : cr3[r] = NULL
  /\ Room(3, 3)
  /\ cr3' = [cr3 EXCEPT ![q] = mm_mem_kalloc(mm)]
  /\ mm' = free_run_resources(loader_load(mm, cr3[p], kernel_pagetable, FALSE),
                              cr3[p], area[p].start, area[p].pages)
  /\ area' = [area EXCEPT ![p] = NoArea]
  /\ UNCHANGED <<mmap, next_empty, kept>>

Next ==
  \E p \in Procs :
    \/ palloc(p)
    \/ \E v \in Pages : PageFault(p, v)
    \/ InUserMode(p) /\ Exit(p)
    \/ Run(p) \/ RunGrows(p) \/ RunFails(p) \/ RunLoads(p)

Spec == Init /\ [][Next]_vars

-----------------------------------------------------------------------------
(* The frames the memory map grants: those whose every byte is available,  *)
(* except the ones under the bitmap and the odd ones at the end that do    *)
(* not fill a byte of it.                                                  *)
Granted ==
  [map \in MMAPS |->
     {i \in 0 .. ByteLen(map) * BITS - 1 :
        /\ i * PAGE_SIZE >= ByteLen(map)
        /\ \A b \in HIMEM_BEGIN + i * PAGE_SIZE .. HIMEM_BEGIN + (i + 1) * PAGE_SIZE - 1 :
             \E j \in DOMAIN map :
               map[j].available /\ b \in map[j].addr .. map[j].addr + map[j].len - 1}]

(* Everything a frame can be in use for. *)
Uses ==
  {<<"kernel", kernel_pagetable>>} \cup
  {<<"dir", p, cr3[p]>> : p \in Processes} \cup
  UNION {{<<"table", p, e, mm.mem[cr3[p]][e].base>>
          : e \in {d \in 1 .. PDES - 1 : "P" \in mm.mem[cr3[p]][d].attr}} : p \in Processes} \cup
  UNION {{<<"page", p, v, mm_frame_from_page(mm, cr3[p], v)>>
          : v \in {w \in Pages : Present(p, w)}} : p \in Processes}

InUse == {u[Len(u)] : u \in Uses} \cup kept

(* The bitmap tells the truth: the frames that are neither reserved nor in *)
(* use as a directory, a table or a page are exactly the ones               *)
(* mm_mem_seek can give out and mm_free_page_count counts, after any       *)
(* series of loads, faults and exits that build and take down tables, and  *)
(* no frame has two uses.                                                  *)
FramesAccounted ==
  /\ FreeBits(mm, "kernel") \cup FreeBits(mm, "user")
       = Granted[mmap] \ {f - BASE : f \in InUse}
  /\ Cardinality(InUse) = Cardinality(Uses) + Cardinality(kept)
  /\ mm_free_page_count(mm, "kernel") + mm_free_page_count(mm, "user")
       = Cardinality(Granted[mmap]) - Cardinality(InUse)

PageOf(p, v) ==
  LET entry == mm_pt_entry_for(mm, cr3[p], v) IN
  CASE Present(p, v) ->
         [state |-> "page", frame |-> entry.base, user |-> "US" \in entry.attr]
    [] cr3[p] # NULL /\ entry = Requested ->
         [state |-> "asked", frame |-> 0, user |-> FALSE]
    [] OTHER ->
         [state |-> "nothing", frame |-> 0, user |-> FALSE]

Flat == INSTANCE FlatTables WITH
  Frames <- BASE .. BASE + mm.len * BITS,
  alive <- Processes,
  space <- [p \in Procs |-> [v \in Pages |-> PageOf(p, v)]]

(* mm_map_frame, mm_unmap_page, mm_set_pt_entry and their users in         *)
(* loader.c walk directories and tables that other processes had before;   *)
(* what each process sees through them is a flat map of frames of its own, *)
(* in which a call changes the pages it names only.                        *)
ImplementsFlatTables == Flat!Spec
===============================================================================
