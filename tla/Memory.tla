------------------------------- MODULE Memory -------------------------------
(***************************************************************************)
(* kernel/mm.c with the parts of loader.c that build and copy address      *)
(* spaces: pages on demand (palloc), shared pages (share_page), copy on    *)
(* write after fork, the loading of a program by run, and the frames that  *)
(* come back when a process ends.                                          *)
(*                                                                         *)
(* The user frames are the ones mm_mem_alloc gives.  The kernel's zone     *)
(* (directories, page tables) is left out.  Every function runs with       *)
(* interrupts disabled, except that run waits for the disk, so a step is   *)
(* one system call, one page fault or one store to memory of any process.  *)
(***************************************************************************)
EXTENDS Integers, FiniteSets, FiniteSetsExt

CONSTANTS MAX_PID,
          FRAMES,      (* user frames                                      *)
          HEAP,        (* the pages a process may ask of palloc: a bound   *)
          Values,      (* what a page can hold                             *)
          Careless     (* which of the uses below that the code gets wrong *)
                       (* the processes may make                           *)

(* "kernel": a system call stores into a page to be copied on write.       *)
(* "share":  share_page of a page to be copied on write.                   *)
(* "run":    run by a process whose first page is shared or to be copied.  *)
(* A user process calls fork and run only with the frames they take free:  *)
(* the code does not test for the lack of them (see RunFails).             *)
ASSUME MemoryAssumption ==
  /\ MAX_PID \in Nat \ {0, 1} /\ FRAMES \in Nat \ {0, 1} /\ HEAP \in Nat
  /\ Values # {}
  /\ Careless \subseteq {"kernel", "share", "run"}

VARIABLES alive,       (* the processes: processes[p].id # FREE_PCB_PID    *)
          pt,          (* the page table entries of each process           *)
          next_empty,  (* next_empty_page_addr of each process             *)
          free,        (* the clear bits of mm_bitmap                      *)
          mem          (* what each frame holds                            *)

vars == <<alive, pt, next_empty, free, mem>>

Procs  == 1 .. MAX_PID - 1
Frames == 1 .. FRAMES
NULL   == 0            (* mm_mem_alloc found no frame; frame 0 is not its  *)

FIRST  == 0            (* USER_MEMORY_START: the program                   *)
Heap   == 1 .. HEAP    (* what palloc gives                                *)
KSTACK == -1           (* TASK_K_STACK_ADDRESS                             *)
AREA   == -2           (* where run puts the file it reads                 *)
Pages  == {FIRST, KSTACK, AREA} \cup Heap
UserPages == {FIRST} \cup Heap

Absent    == [state |-> "absent"]
Requested == [state |-> "requested"]           (* PAGE_REQUESTED           *)

(* A page holds neither of the two entries that stand for no page. *)
ASSUME ValuesAssumption == Absent \notin Values /\ Requested \notin Values

Entry(f, rw, cor, shared) == [state |-> "present", frame |-> f,
                              rw |-> rw, cor |-> cor, shared |-> shared]
Mapped(f) == Entry(f, TRUE, FALSE, FALSE)      (* as mm_map_frame leaves it*)
Shared(e) == Entry(e.frame, e.rw, e.cor, TRUE)

Present(p, v)  == pt[p][v].state = "present"
InUserMode(p)  == p \in alive /\ ~ Present(p, AREA)
CopyOnWrite(e) == e.state = "present" /\ e.cor

(* mm_mem_alloc: the lowest free frame. *)
mm_mem_alloc(fr) == IF fr = {} THEN NULL ELSE Min(fr)
NoPages == [v \in Pages |-> Absent]

(* kernel.c loads init from the idle process. *)
Init ==
  LET kstack == mm_mem_alloc(Frames)
      first  == mm_mem_alloc(Frames \ {kstack})
  IN /\ alive = {Min(Procs)}
     /\ pt = [p \in Procs |-> IF p \in alive
                THEN [NoPages EXCEPT ![KSTACK] = Mapped(kstack), ![FIRST] = Mapped(first)]
                ELSE NoPages]
     /\ next_empty = [p \in Procs |-> 1]
     /\ free = Frames \ {kstack, first}
     /\ \E x \in Values : mem = [f \in Frames |-> x]

-----------------------------------------------------------------------------
(* is_to_be_copied_on_write_by_other_processes: with the tests it makes,   *)
(* whether another process has any page at that address.                   *)
CopiedByOthers(p, v) == \E q \in alive \ {p} : Present(q, v)

SharedWithOthers(p, v) == \E q \in alive \ {p} : Present(q, v) /\ pt[q][v].shared

(* A slip: only sharing is tested before a frame is given back.            *)
KeepsFrame_OnlyShared(p, v) == SharedWithOthers(p, v)

KeepsFrame(p, v) == CopiedByOthers(p, v) \/ SharedWithOthers(p, v)

(* loader_exit, of a call or of a fault that kills: mm_dir_free gives back *)
(* the frames nobody else has a claim to.                                  *)
Exit(p) ==
  /\ alive' = alive \ {p}
  /\ free' = free \cup {pt[p][v].frame : v \in {u \in Pages :
                          Present(p, u) /\ ~ KeepsFrame(p, u)}}
  /\ pt' = [pt EXCEPT ![p] = NoPages]
  /\ UNCHANGED <<next_empty, mem>>

palloc(p) ==
  /\ InUserMode(p)
  /\ next_empty[p] <= HEAP
  /\ pt' = [pt EXCEPT ![p][next_empty[p]] = Requested]
  /\ next_empty' = [next_empty EXCEPT ![p] = @ + 1]
  /\ UNCHANGED <<alive, free, mem>>

(* mm_user_allocate: the frame comes with what it held before. *)
mm_user_allocate(p, v) ==
  LET frame == mm_mem_alloc(free) IN
  IF frame = NULL THEN Exit(p)
  ELSE /\ pt' = [pt EXCEPT ![p][v] = Mapped(frame)]
       /\ free' = free \ {frame}
       /\ UNCHANGED <<alive, next_empty, mem>>

(* A slip: the sole owner may write again, but the page stays marked.      *)
mm_copy_on_write_KeepsMark(p, v) ==
  /\ ~ CopiedByOthers(p, v)
  /\ pt' = [pt EXCEPT ![p][v] = Entry(@.frame, TRUE, @.cor, @.shared)]
  /\ UNCHANGED <<alive, next_empty, free, mem>>

mm_copy_on_write(p, v) ==
  LET frame == mm_mem_alloc(free) IN
  IF ~ CopiedByOthers(p, v)
  THEN /\ pt' = [pt EXCEPT ![p][v] = Entry(@.frame, TRUE, FALSE, @.shared)]
       /\ UNCHANGED <<alive, next_empty, free, mem>>
  ELSE IF frame = NULL THEN Exit(p)
  ELSE /\ pt' = [pt EXCEPT ![p][v] = Mapped(frame)]
       /\ free' = free \ {frame}
       /\ mem' = [mem EXCEPT ![frame] = mem[pt[p][v].frame]]
       /\ UNCHANGED <<alive, next_empty>>

(* page_fault_handler: any access to a page that is not there, or a store  *)
(* to one that is read-only.                                               *)
PageFault(p, v) ==
  /\ InUserMode(p)
  /\ \/ pt[p][v] = Requested /\ mm_user_allocate(p, v)
     \/ pt[p][v] = Absent /\ Exit(p)
     \/ Present(p, v) /\ ~ pt[p][v].rw /\ mm_copy_on_write(p, v)

(* A store by the process itself, and by copy2user for it.  The processor  *)
(* stops only the first one at a read-only page: CR0_WP is never set.      *)
Stored(p, v, x) ==
  /\ mem' = [mem EXCEPT ![pt[p][v].frame] = x]
  /\ UNCHANGED <<alive, pt, next_empty, free>>

Store(p, v, x) ==
  /\ InUserMode(p)
  /\ Present(p, v) /\ pt[p][v].rw
  /\ Stored(p, v, x)

copy2user(p, v, x) ==
  /\ InUserMode(p)
  /\ Present(p, v)
  /\ "kernel" \in Careless \/ ~ CopyOnWrite(pt[p][v])
  /\ Stored(p, v, x)

(* share_page; of a page requested but not touched yet it is a fault too. *)
share_page(p, v) ==
  /\ InUserMode(p)
  /\ "share" \in Careless \/ ~ CopyOnWrite(pt[p][v])
  /\ \/ /\ Present(p, v)
        /\ pt' = [pt EXCEPT ![p][v] = Shared(@)]
        /\ UNCHANGED <<alive, next_empty, free, mem>>
     \/ /\ pt[p][v] = Requested
        /\ LET frame == mm_mem_alloc(free) IN
           IF frame = NULL THEN Exit(p)
           ELSE /\ pt' = [pt EXCEPT ![p][v] = Shared(Mapped(frame))]
                /\ free' = free \ {frame}
                /\ UNCHANGED <<alive, next_empty, mem>>

NewPid(c) == c \notin alive /\ \A q \in Procs \ alive : c <= q

-----------------------------------------------------------------------------
(* copy_nonkernel_pages: a page not marked as shared becomes read-only for *)
(* both, to be copied on write.                                            *)
ToBeCopied(e) == Entry(e.frame, FALSE, TRUE, e.shared)

(* Slips: the child loses the mark of a shared page; the father goes on    *)
(* writing.                                                                *)
ChildEntry_NotShared(e) == IF e.state # "present" THEN e
                           ELSE IF e.shared THEN Mapped(e.frame)
                           ELSE ToBeCopied(Mapped(e.frame))
FatherEntry_GoesOn(e) == e

ChildEntry(e) == IF e.state # "present" THEN e
                 ELSE IF e.shared THEN Shared(Mapped(e.frame))
                 ELSE ToBeCopied(Mapped(e.frame))
FatherEntry(e) == IF e.state = "present" /\ ~ e.shared THEN ToBeCopied(e) ELSE e

Fork(p, c) ==
  LET kstack == mm_mem_alloc(free) IN
  /\ InUserMode(p) /\ NewPid(c)
  /\ kstack # NULL
  /\ alive' = alive \cup {c}
  /\ pt' = [pt EXCEPT
       ![p] = [v \in Pages |-> IF v = KSTACK THEN @[v] ELSE FatherEntry(@[v])],
       ![c] = [v \in Pages |-> IF v = KSTACK THEN Mapped(kstack) ELSE ChildEntry(pt[p][v])]]
  /\ next_empty' = [next_empty EXCEPT ![c] = next_empty[p]]
  /\ free' = free \ {kstack}
  /\ UNCHANGED mem

(* run, up to the read that blocks: a page of its own for the file.        *)
Run(p) ==
  LET frame == mm_mem_alloc(free) IN
  /\ InUserMode(p)
  /\ frame # NULL
  /\ pt' = [pt EXCEPT ![p][AREA] = Mapped(frame)]
  /\ free' = free \ {frame}
  /\ \E file \in Values : mem' = [mem EXCEPT ![frame] = file]
  /\ UNCHANGED <<alive, next_empty>>

(* free_run_resources, after a read that failed or a file that is no       *)
(* program.                                                                *)
RunFails(p) ==
  /\ Present(p, AREA)
  /\ pt' = [pt EXCEPT ![p][AREA] = Absent]
  /\ free' = free \cup {pt[p][AREA].frame}
  /\ UNCHANGED <<alive, next_empty, mem>>

(* loader_load and free_run_resources.  The caller's first page gives way  *)
(* to the child's frame while it is filled, and is mapped again after it.  *)
Load(p, c) ==
  LET kstack == mm_mem_alloc(free)
      first  == mm_mem_alloc(free \ {kstack})
  IN
  /\ Present(p, AREA) /\ NewPid(c)
  /\ first # NULL
  /\ "run" \in Careless \/ pt[p][FIRST] = Mapped(pt[p][FIRST].frame)
  /\ alive' = alive \cup {c}
  /\ pt' = [pt EXCEPT
       ![p] = [pt[p] EXCEPT ![FIRST] = Mapped(pt[p][FIRST].frame), ![AREA] = Absent],
       ![c] = [NoPages EXCEPT ![KSTACK] = Mapped(kstack), ![FIRST] = Mapped(first)]]
  /\ next_empty' = [next_empty EXCEPT ![c] = 1]
  /\ free' = (free \ {kstack, first}) \cup {pt[p][AREA].frame}
  /\ mem' = [mem EXCEPT ![first] = mem[pt[p][AREA].frame]]

Next ==
  \E p \in Procs :
    \/ InUserMode(p) /\ Exit(p)
    \/ palloc(p)
    \/ \E v \in UserPages : PageFault(p, v) \/ share_page(p, v)
    \/ \E v \in UserPages, x \in Values : Store(p, v, x) \/ copy2user(p, v, x)
    \/ Run(p) \/ RunFails(p)
    \/ \E c \in Procs : Fork(p, c) \/ Load(p, c)

Spec == Init /\ [][Next]_vars

-----------------------------------------------------------------------------
Entries == {Absent, Requested} \cup
           {Entry(f, rw, ~ rw, shared) : f \in Frames, rw \in BOOLEAN, shared \in BOOLEAN}

(* Type correctness.  A page is read-only only to be copied: palloc, fork, *)
(* run and the fault handler set and clear the two bits of the entry       *)
(* together, and every process has its program and its kernel stack.       *)
TypeOK ==
  /\ alive \subseteq Procs
  /\ pt \in [Procs -> [Pages -> Entries]]
  /\ \A p \in alive : Present(p, FIRST) /\ Present(p, KSTACK)
  /\ \A p \in Procs \ alive : pt[p] = NoPages
  /\ next_empty \in [Procs -> 1 .. HEAP + 1]
  /\ free \subseteq Frames
  /\ mem \in [Frames -> Values]

Maps(p, v, f) == Present(p, v) /\ pt[p][v].frame = f

(* No frame that a process maps can be given out again, in whatever order  *)
(* the processes that share it exit (mm_dir_free) or load programs.        *)
MappedFramesAreUsed ==
  \A p \in Procs, v \in Pages : Present(p, v) => pt[p][v].frame \notin free

(* A page its process can write without a fault is in a frame of its own,  *)
(* unless it is marked as shared: after any forks, copies and exits.       *)
WritersAlone ==
  \A p, q \in Procs, v, w \in Pages :
    Present(p, v) /\ pt[p][v].rw /\ Maps(q, w, pt[p][v].frame)
      => \/ <<p, v>> = <<q, w>>
         \/ v = w /\ pt[p][v].shared /\ pt[q][v].shared

-----------------------------------------------------------------------------
Content(p, v) == IF Present(p, v) THEN mem[pt[p][v].frame] ELSE pt[p][v]
Sharers(p, v) == IF Present(p, v) /\ pt[p][v].shared
                 THEN {q \in alive : Maps(q, v, pt[p][v].frame)} ELSE {}

Seen   == [p \in Procs |-> [v \in UserPages |-> Content(p, v)]]
Common == [p \in Procs |-> [v \in UserPages |-> Sharers(p, v)]]

Promise == INSTANCE AddressSpaces
  WITH Pages <- UserPages, First <- FIRST, page <- Seen, sharers <- Common

(* With demand paging, sharing and copy on write, every process sees pages *)
(* of its own that a child starts with a copy of: what mm.c and fork do to *)
(* frames and page tables shows only in the pages marked as shared.        *)
ImplementsAddressSpaces == Promise!Spec
=============================================================================
