# A verification project for spuriOS

spuriOS is a small multitasking kernel for one i386 processor (`src/kernel`, `src/include`), written
for a course on operating systems; `src/doc/tp1-docs.md` .. `tp3-docs.md` describe it. This directory
holds TLA+ modules translated from the C and assembly code, TLC configurations that check them on
small instances, and proofs that TLAPS checks for every size.

Paths below are relative to `src/`.

## 1. The system

Every gate of the interrupt table is an interrupt gate (`kernel/idt.c:64`), so **a kernel path runs
with interrupts disabled until it calls `task_switch`**. It does so in four places: `loader_enqueue`,
`loader_sleep`, `loader_exit` and `timer_handler`. A step of a model is therefore the code from a
system call, an interrupt or the return of `task_switch` up to the next `task_switch` or the return
to user mode. That is the only atomicity assumed; everything the code reads before a `task_switch`
and uses after it may have changed.

### Components

| component | state | operations | hard part |
|---|---|---|---|
| scheduler (`sched.c`) | circular list in `tasks[]`, `actual`, `first`, `last`, `running_tasks` | load/unblock, exit/block, tick | the links in every order of arrivals and departures; slots; fair turns |
| loader (`loader.c`, `taskswitch.asm`) | `processes[]` (pcbs), `cur_pid`, `sleeping[]`, `first_slept`; each driver's `pid` queue head | load, fork, enqueue, unqueue, sleep, tick, exit | a pcb is linked into lists owned by others; relative times; two notions of who runs |
| pipes (`pipe.c`) | `endpoints[]`, shared ring buffers | pipe, read, write, flush (last close) | blocking at both ends, wake-ups, wrap, life of the buffer and of the slots |
| device layer (`device.c`, `fs.c`) | `devices[pid][fd]`, reference counts | open, close, read, write, seek, copy on fork, close on exit | inheritance, limits of the tables, flush that blocks |
| memory (`mm.c`, parts of `loader.c`) | frame bitmap, page directories and tables, attribute bits | palloc, page fault, share_page, fork, exit, run | copy on write among relatives, last owner frees, failure half way |
| disk and ext2 (`hdd.c`, `ext2.c`) | `read_queue`, the controller's sector, one sector buffer, open files | block read and its interrupt, file open/read/seek/close | every sector read blocks with shared state half updated |
| console and keyboard (`con.c`) | ring of consoles, `current`, one-byte buffer | open, read, write, flush, keyboard interrupt | focus against readers, a byte overwritten before it is read |
| serial (`serial.c`) | receive buffer, two queues per port | open, read, write, flush, interrupts | interrupt against reader |
| krypt and memkrypt (`tasks/`, semaphores of `lib.c`) | pipes, shared pages, a position in a file | wait, signal; three-stage pipelines | deadlock, pages in two hands |
| text output (`vga.c`, `lib.c`) and the shell (`tasks/console.c`) | video memory, a page and a place to write at per console; the shell's line | write, print, print at a place, switch; edit the line | wrapping, scrolling and erasing on a screen that goes out of sight |
| cpuid device (`proc.c`) | slots with a position | open, read | slots are never given back |
| timer, PIC, IDT, boot, debug, stubs | | | not concurrent: see PROJECT.json |

They meet in three ways. **Calls**: drivers call `loader_enqueue` and `loader_unqueue` on a `pid`
variable of their own, and those call `sched_block` and `sched_unblock`; `loader_exit` calls every
device's `flush`. **Shared state**: `processes[p].prev/next` serve all wait queues; `cur_pid` (loader)
and `actual` (scheduler) both say who runs; father and child share open devices and page frames.
**Interrupts**: clock, keyboard, serial and disk interrupts run between the steps of tasks and wake
them.

What makes each correct: the scheduler serves exactly the runnable tasks, in turn; a process is in
exactly one place (running circle, one queue, delta queue) and sleepers wake on time; a pipe is a
bounded queue of bytes whose blocked users are always woken; a frame belongs to those who map it and
is freed when the last one leaves; a read of a file returns the bytes of its position; a device lives
as long as a descriptor refers to it; each console shows what was written to it and nothing else, and
gets the keys typed while it is in sight; a pipeline ends and has sent the encrypted file.

PROJECT.json lists every component with its status and, under `hazards`, each place where the code
is hard to test, with the properties that would catch it going wrong.

## 2. The modules

### Scheduler

* `SchedOps.tla`: `sched.c` as operators from the record of its globals to the next one
  (`sched_load`, `sched_exit`, `sched_tick`; the `FREE_PID`, `NULL` values; slots are array indices).
* `Sched.tla`: those operators as actions `Load(pd)`, `Leave`, `Tick`, under the callers' contract:
  a pid is loaded only when it is not loaded, and the idle process never (`Loader.tla` shows that the
  callers respect it). Properties: `TypeOK`, `RingIntact`, `SlotForEveryTask`.
* `RunQueue.tla`: the promise, with no links: a sequence of pids served round robin.
  `ImplementsRunQueue` is the refinement: `Turns(sched)` reads the slots along `next` from `first`,
  `Owner(sched)` is the place of `actual` among them.
* `SchedMC.tla`: lets arrivals and departures stop (`settled`) for the liveness property
  `EveryTaskGetsTurns`.

The modules `*_proofs.tla` hold the theorems about the module they are named after; section 5.

### Tasks

* `Loader.tla` composes `SchedOps` with `loader.c` and `taskswitch.asm`. The wait queues are a
  constant: pipes, consoles, serial ports, disks and semaphores all use these two functions on a
  variable of their own, so `Enqueue(q)` is the blocking of any driver and `Unqueue(q)` the wake-up by
  any task or interrupt. `Tick` is the whole timer handler: wake the sleepers due, ask the scheduler,
  switch. `Exit(qs)` is `loader_exit`, where `qs` are the queues that its closing descriptors drain.
  `panic` records the `kassert` that stopped the machine.
  `Due[k]` is the alarm of the k-th sleeper, the sum of the deltas up to it; `Inserted` and `Expired`
  are the two loops of `loader_sleep` and `loader_tick`. The loops that walk a list, or call a function
  for each member of one, are recursive functions (`Walk`, `LoadAll`, `wake_all`), bounded by `MAX_PID`.
* `TaskStates.tla`: the promise: a task is ready, in one line, or asleep with an alarm counted in
  ticks. `ImplementsTaskStates` maps linked pcbs to lines and deltas to alarms.
* `LoaderExit.tla` extends it with the one `flush` that blocks: closing the last console runs the
  screen saver, which reads the disk.

### Pipes

* `Pipe.tla`: `pipe.c` under the system calls that reach it. A queue is the set of its tasks because
  `wake_all` always empties it (their order is in `Loader.tla`); descriptors are the set of endpoints a
  task holds, and the last holder's close is the flush. The bytes the caller gives or gets are in
  `call[t].buf`, at the offsets the code copies to and from. `peer_gone` is a history variable.
* `Channels.tla`: the promise: bounded FIFO queues of bytes with two sides that close.
  `ImplementsChannels` maps the ring and its positions to the queue's contents.
* `PipeMC.tla`: `SettlingSpec` for liveness.

### Memory

* `Memory.tla`: the user frames of `mm.c` and the page tables of all processes, with the parts of
  `loader.c` that build and copy them. A page table entry is absent, requested (`palloc` promised it)
  or present with a frame and the three bits the kernel uses (`rw`, `cor`, `shared`). The addresses are
  the ones that matter: the program (`FIRST`), the heap, the kernel stack (`KSTACK`), and the area where
  `run` puts the file it reads (`AREA`); the user stack behaves like `FIRST`. A step is one system call,
  one page fault or one store; `run` is two steps (`Run`, then `Load` or `RunFails`), as it waits for the
  disk between them. `PageFault` has the three outcomes of `page_fault_handler`, and every allocation
  that fails ends in `Exit`, as in the code.
* `AddressSpaces.tla`: the promise: pages per process, a child starts with a copy, a shared page is one
  for its sharers. `ImplementsAddressSpaces` maps entries and frames to contents.
* `MemoryMC.tla`: symmetry of the values.
* `Careless` names three uses that the code gets wrong, so that the rest can be checked without them: a
  system call that stores to a page still to be copied (`"kernel"`), `share_page` of such a page
  (`"share"`), and `run` by a process whose first page is shared or to be copied (`"run"`). With `{}` the
  refinement holds; with any one of them it does not.

* `Frames.tla`: what `Memory` takes for granted. The bitmap is sized from the memory map of the BIOS,
  lies in the memory it describes and is searched in two zones; directories and page tables are frames
  of the kernel's zone whose contents stay from one owner to the next. `mm.mem` holds them as tables of
  entries, so an entry that was not cleared is found again by the next owner. The operators go from the
  record `mm` to the next one, like those of `SchedOps`. Actions: `palloc`, `PageFault`, `Exit`, and `run` as the
  code does it: `Run` borrows pages in a free region of the caller, `RunGrows` is one turn of its loop,
  `RunFails` and `RunLoads` its two ends.
* `FlatTables.tla`: the promise: one flat table per process. `ImplementsFlatTables` reads the two levels
  through the frames they are in.
* `FramesMC.tla`: the memory map.

### Files

* `Files.tla`: `hdd.c` and `ext2.c` under open, read, seek, close and fork. A call runs until the driver
  blocks it for a sector and from there, once woken, to the next sector: `call[t].at` says where it goes
  on. Data are the addresses they have on the disk, so a page that was filled from the wrong sector
  shows; the abstract file is `FileUnit`, written from the ext2 format with its direct, indirect and
  doubly indirect blocks, and not from `ext2.c`. The second reader of a busy drive gets -1 and goes on,
  as in the code. `clean` marks the files whose calls did not overlap; of the others the page is not
  followed, only that their calls end and that the drive stays consistent.
  `ImageAssumption` says what `ext2.c` takes for granted of a disk.
* `FilesMC.tla`: a disk with two groups, a directory with a subdirectory, and a file that needs every
  level of blocks.

### Consoles, devices

* `Console.tla`: the ring of `con.c`, the focus, one screen and a buffer per console, the keyboard from
  the physical key through the scancodes on the wire to `kbd_char_buf`, and the blocked readers.
  Closing the last console waits for the disk between two steps, as the screen saver does.
* `Terminals.tla`: the promise: a text for each console and a ring to walk through.
* `ConsoleMC.tla`: two worlds, one for the ring and the texts, one for the keys and the readers.
* `Devices.tla`: `devices[][]` and the reference counts of `device.c` with two drivers: the serial port,
  whose reads block and which an interrupt fills, and `/proc/cpuid`. A descriptor `MAX_FD` is, as in C,
  the first one of the next process.
* `Pipelines.tla` extends `Pipe.tla`: krypt and memkrypt as programs of system calls, run on its
  pipes: `Code(t)` is the list of instructions, `Calls` the system call of one. The semaphores of
  memkrypt are pipes of one byte per signal. `PipelinesMC.tla` gives the bytes.

### Text

* `Library.tla`: the numbers of `lib.c` with their width, `vsnprintf` with its sizes, and `ReadsBack`, which
  says what the digits must mean.
* `Screen.tla`: the cells of `vga.c` as operators (`putchar`, `putln`, `putbs`, `scroll`, ...) and its users:
  the line editor of the shell, whose key and echo are separate calls; a task that prints numbers; the
  kernel; the change of consoles at any moment between them.
* `Sheets.tla`: the promise: a sheet of rows per console. `ImplementsSheets` reads linear memory by rows.
* `ScreenMC.tla`: the texts.

Names of the source are kept. **Definitions named `<operator>_<Slip>`** stand before the operator they
vary and are used by no specification: each is the operator with one plausible mistake (a link not
set, a wake-up missed, an off-by-one). Replacing the operator by the slip makes one property fail;
PROJECT.json (`mutants`) says which, and so shows that every property can fail.

## 3. The runs

| run | module, cfg | shows | bounds, and why they are enough |
|---|---|---|---|
| sched | SchedMC, Sched.cfg | ring, slots, refinement of `RunQueue`, turns | `MAX_PID` 5: idle and four tasks, so a task can be first, last, between two others, or alone; quantum 1 has both a spent and an unspent quantum |
| loader | Loader, Loader.cfg | one place per task, `cur_pid` = `actual`, no `kassert` but the one on free pids, refinement of `TaskStates`; sleepers wake, idle gives way | three processes: queues with a head, a middle and a tail need three waiters, one of which runs when it acts; two queues, so a task can be in the wrong one; sleeps 0..2 give equal, shorter and longer alarms |
| loader_exit | LoaderExit, LoaderExit.cfg | **violation** of the assertion of `sched_exit` | see section 6 |
| pipe | Pipe, Pipe.cfg | bounded FIFO | ring of 2 bytes with calls of 1 and 3: partial transfers, wrap, full and empty; two byte values tell reordering |
| pipe_ends | PipeMC, PipeEnds.cfg | no lost wake-up, buffer's life, calls end when the pipe does | three tasks: two waiters at one end and one at the other |
| memory | MemoryMC, Memory.cfg | refinement of `AddressSpaces`; mapped frames are not free; a writable page that is not shared has a frame of its own | three processes (father, child, and a grandchild or a second child), five frames: two for the first process, one per fork and one left for copies, so memory runs out in every way; one heap page |
| files | FilesMC, Files.cfg | reads return the file, the command under way is the one its waiter gave, positions stay in the file, every call ends | two processes that share files by fork; sectors and blocks of two units, pages of two blocks, a file of 13 units: direct, indirect and doubly indirect blocks, a last page that is not full; reads of 8 cross pages, seeks to 9 go into the middle of one |
| console | ConsoleMC, Console.cfg | refinement of `Terminals`, the ring, a woken reader takes the last thing typed and no key from before, modifiers are the keys held | three consoles: neighbours differ and one can be removed between two others; a mark each; seven keys with both ALT and the arrows share the escape code; two readers, reads of 1 and 2 |
| devices | Devices, Devices.cfg | exact reference counts, nothing left of a process, nobody sleeps over data, reads end | three processes with two descriptors: a full table, inheritance, and the neighbour's first descriptor; one port with two bytes of buffer and two waiters, one cpuid slot |
| pipelines | PipelinesMC, Pipelines.cfg | the encrypted file and only it goes out, no shared page in two hands, each process ends or is in `getch` at the end of its `main` | pages of 3 bytes on pipes of 3, two shared pages, a file of 10 bytes: three full pages and a bit, so the ring of pages wraps; a key of 2 is out of step with the pages |
| frames | FramesMC, Frames.cfg | every used frame has one known use, refinement of `FlatTables` | two processes besides idle; directories of five entries, tables of two: tables are built, emptied and rebuilt over old frames; bitmap bytes of two frames, holes that are not whole pages, a reserved end past the last memory |
| screen | ScreenMC, Screen.cfg | the shell's line is what the screen shows, numbers can be read back, refinement of `Sheets` | three rows of three: prompt and line of four characters wrap and reach the last cell of a row, scroll, and are erased back over both; numbers wrap too; widths of 8 bits with a power of ten and the sign |

Constants that keep a run away from what the code gets wrong, so that the rest can be checked: `REUSE`
and `Careless` (above and below), `CARELESS` of `Files` (a seek just after a read ended at the end of a
page), `REOPEN` of `Devices` (an open of a port that is in use). Section 6 says what happens without them.

Bounds that are guards: `HEAP` and `Room` in `Frames` (steps that do not test for a failed
`mm_mem_kalloc` happen with frames to spare); `MAX_OPEN` and fork only after the disk was loaded in
`Files` (init's first `run` loads it); no typing while no console is open in `Console`; no serial
interrupt before the first open in `Devices`; `FAILS` in `Pipelines` (failures that happen after the
processes are apart, and none of memkrypt, whose other processes then wait for ever); `PRINTS` in `Screen`, and kernel messages only
while the shell is out of sight, as they would stand in its line.

`CHECK_DEADLOCK FALSE` stands where the system really stops: a failed `kassert` (`panic`), pipe tasks
that all wait for each other by their own doing, a file system that stopped (`halted` in `Files`), readers of a port or a
console that nobody is left to feed, the end of a pipeline, and the exit of the last process in `Memory`, `Devices` and
`Frames`.

In the runs `pipe` and `pipe_ends` the constant `REUSE` is `FALSE`: no task opens a pipe while
another one has only one end closed. With reuse their properties have no meaning, as two pipes share a
slot. `pipelines` does reuse slots, with a file long enough that the ends close in order.

## 4. Fairness

* `Loader!FairSpec`: weak fairness of `Tick`. The timer is periodic and interrupts are enabled
  whenever user code or the idle loop runs. Nothing is assumed of tasks.
* `SchedMC!SettlingSpec`: weak fairness of `Tick`, and the property speaks of the time after tasks
  stopped arriving and leaving. Without that it is false of the code: two tasks that block and wake
  each other hand the processor to one another without the walk of `sched_tick` ever passing to a
  third one that was loaded later.
* `PipeMC!SettlingSpec`: weak fairness of a woken task's next step, once no new calls are made; it is
  what `EveryTaskGetsTurns` gives.
* `Files!FairSpec`: weak fairness of the disk's interrupt, which comes after every command, and of a
  woken process. Two of these conditions, here and in `Pipelines`, are written as `[]<>(not enabled) \/
  []<><<step>>`, which is weak fairness with its ENABLED spelled out.
* `Devices!FairSpec`: weak fairness of a woken reader. That bytes keep coming is an assumption of
  `SerialReadsEnd` itself, not of the specification.
* `Pipelines!FairPipelineSpec`: weak fairness of each process that is not blocked. Nothing is assumed of
  keys: `krypt_read`'s process (`krypt.c:171`) and `memkrypt_write`'s (`memkrypt.c:159`) call
  `getch` before they exit and may stay there for ever, and `PipelineEnds` allows just that.

## 5. What is proved

A theorem holds for every value of the constants that satisfies the assumption named with it; what a theorem
assumes besides (`REUSE`, `Careless`, `CARELESS`) stands in its statement, and section 6 says what the code does
without it. The inductive invariants also hold in TLC on the instances of the runs.

### Scheduler (`SchedOps_proofs.tla`, `Sched_proofs.tla`)

For every `MAX_PID >= 1` and every quantum (`SchedAssumption`):

* `SchedTypeCorrect`: `[]TypeOK`.
* `SchedRingIntact`: `[]RingIntact`. The used slots are one circle.
* `SchedSlots`: `[]SlotForEveryTask`. The assertion of `sched.c:81` cannot fail.
* `SchedIsRoundRobin`: `Spec => ImplementsRunQueue`. The linked slots are a round robin queue.

The inductive invariant is `TypeOK /\ RingIntact`. `RingIntact` says more than that links are
symmetric, because symmetry alone does not exclude two circles: there is an enumeration `f` of the
used slots, starting at `first` and ending at `last`, of which `next` is the successor and `prev` the
predecessor, with `running_tasks` its length; pids are distinct, and `actual` is on the circle.
`SchedOps_proofs.tla` has two lemmas per function: that the circle stays one (`LoadKeeps`, `ExitKeeps`,
`TickKeeps`), and what becomes of `f` and of the fields of the tasks (`LoadLinks`, `ExitLinks`,
`TickLinks`): `sched_load` extends `f` by the slot found, `sched_exit` removes the position of `actual` and
moves the later ones down, `sched_tick` leaves it alone. `SlotForEveryTask` follows by counting: if all
slots were used, the map from slots to pids would be one to one and so onto, and the pid to load would be
loaded already.

For the refinement, `WalkIsUnique` shows that the walk along `next` can be read in one way only, so that
the sequence `Turns(sched)` is the enumeration; `LoadEnters`, `ExitLeaves` and `TickServes` then map a call
to a step of `RunQueue`, among them the case that the owner leaves from the end of the list and the case
that its quantum runs out.

### Tasks (`Loader_proofs.tla`)

For every `MAX_PID > 1`, any quantum, any finite set of queues and any times (`SchedAssumption`,
`LoaderAssumption`):

* `LoaderTypeCorrect`: `[]TypeOK`. No delta of `sleeping[]` goes below zero.
* `EveryTaskHasOnePlace`: `[]OnePlacePerTask`. Circle, wait queues and delta queue part the live processes.
* `RunnerIsOwner`: `[]OwnerRuns`. `cur_pid` is the owner that `sched.c` has chosen.
* `OnlyPidsStopTheMachine`: `[]OnlyPidsRunOut`. The assertions on links cannot fail.
* `LoaderImplementsTaskStates`: `Spec => ImplementsTaskStates`. The pcbs linked in queues and deltas are tasks
  that are ready, in a line, or asleep with an alarm of their own.

None of the invariants is inductive, and even together they are not: that a list is what the walk finds says nothing
of the `prev` links, of a head that points into the middle, or of the links of a pcb that is in no list.
The invariant `IInv` gives the lists by the sequences they hold: there are `lines[q]` and `nap` such that
`head` and `next` visit them in order and once each (`Visits`), `prev` is the way back, the live pcbs in no line, but for
the idle one, have both links free, the first sleeper has time left, and circle, lines and nap part the live pids (`Places`);
besides, the idle pcb is there, `cur_pid` is the owner, and `panic` is not one of the two assertions on links. `ChainIs` shows that the walks then find those sequences. The loops
(`LoadAll`, `wake_all`, `wake_every`) are recursive functions; that the functions they name exist, so that
they can be unfolded, is proved by a least counterexample (`LoadAllTurns`, `WakeAllTurns`,
`WakeEveryTurns`). `EnqueueKeeps`, `UnqueueKeeps`, `SleepKeeps` and `TickWakes` say what becomes of a
list in one function, `LoadStep`, `EnqueueStep`, `UnqueueStep`, `SleepStep`, `TickStep` and `ExitStep`
that an action keeps the places.

For the refinement, `Seen` says what a state with given lines and nap looks like to `TaskStates`: a line is a
sequence, the alarm of the sleeper at place `i` is the sum of the deltas up to `i` (a partial sum that `AlarmAt`
names without a recursion over the list), and everyone else is ready or not there. `LoadMaps`, `EnqueueMaps`, `UnqueueMaps`,
`SleepMaps`, `TickMaps` and `ExitMaps` take the lines and the nap after each action from the step lemmas and
show that what is seen then is a step of `TaskStates`: in particular that a sleep in the middle of the delta
queue leaves the alarms of those behind it as they were, and that a tick takes one off all alarms by one store.

### Pipes (`Pipe_proofs.tla`)

About `Pipe.tla`, for any tasks and pipes and every size of the buffer (`PipeAssumption`), if `REUSE = FALSE`:

* `Spec_NobodyWaitsForNothing`: `[]NobodyWaitsForNothing`.
* `Spec_BufferLivesWithPipe`: `[]BufferLivesWithPipe`.
* `Spec_ImplementsChannels`: `Spec => ImplementsChannels`. `pipe.c` implements bounded queues of bytes.

The inductive invariant adds that the two counts of a pipe sum to its size and its positions differ by
them (`Paired`), that a caller holds the end it uses (`Held`), and where a blocked call stands
(`Placed`). `LoopTransfers` is the loop of `pipe_read` and `pipe_write`, with its wrapped copies, in closed
form. `REUSE = FALSE` is needed: with reuse the statements are not meaningful (section 6).

About memkrypt in `Pipelines.tla`, for any file, any number and size of pages, any key length and every size of the
pipes (`PipeAssumption`, `PipelinesAssumption`), with reuse of slots or without, and whatever calls fail:

* `Spec_PageOfOne`: `[]PageOfOne`. No two processes work on one page.
* `Spec_MemkryptSendsTheFile`: `[](program = "memkrypt" => SentIsEncrypted)`. What goes out is the encrypted
  file from its start.

Neither is inductive: that the pages are apart depends on how many signals are in the three pipes, and what is sent on what
was read long before. The inductive invariant `SentInOrder` says for some numbers `r`, `e` and `w` of pages
read, encrypted and sent: every page that the first signals gave out is at one semaphore, as a byte in its pipe, or in
the hands of one process (`Counted`); each process is at the page of its number modulo `BUFFER_PAGES`
(`Turns`); and the page number `j` of the file, from its reading to its sending, lies in place `j % BUFFER_PAGES`,
plain before `e` and encrypted after, while the offset of the file and the counters of the loops of encrypt
and write follow from `r`, `e` and `w` (`PagesHold`). As `Counted` bounds `r - w` by `BUFFER_PAGES`, no page is overwritten before
it is sent. `Wires`, `Places` and `Calling` tie the calls of the three programs to the descriptors they have, so that a
step of `Pipe` moves a signal of the semaphore it is meant for: memkrypt opens all four pipes before it forks and
its processes keep all their descriptors until they exit.

### Memory (`Memory_proofs.tla`)

For any number (at least one) of processes, any number (at least two) of frames, any heap and any values
(`MemoryAssumption`, `ValuesAssumption`):

* `MemoryTypeCorrect`: `[]TypeOK`.
* `FramesInUse`: `[]MappedFramesAreUsed`. Nothing that is mapped is given out again. It holds for every
  `Careless`: the misuses below corrupt contents, never the bitmap.
* `WritersAreAlone`: `[]WritersAlone`, if `Careless = {}`.
* `EachSeesItsOwnPages`: `Spec => ImplementsAddressSpaces`, if `Careless = {}`.

`MappedFramesAreUsed` is not inductive: `mm_dir_free` and `mm_copy_on_write` do not look for other users
of the frame, but for any page of another process at the same address. The proof adds `OneAddress`: all
who map a frame map it at one address, and outside the user pages there is only one of them. `Frugal`
is the two together. `FramesHandedOn` shows that it is kept by any step that hands frames on at the
same address, maps each frame it takes at one page, and frees what nobody maps any longer; there is a
lemma for each function that it is such a step. For `WritersAlone`, `Private` adds that a page
marked as shared is writable (`SharedAreWritable`), as fork would make it writable in the child while
it is still to be copied in the father; that is what `Careless = {}` excludes. The refinement needs them all
and that a page only requested has no bits set yet (`NotYet`); `Steady` is the conjunction. The mapping is
used through what each process sees at each address (`Views`), so that the proof of a step names the
pages whose view changes and shows that of the others unchanged.

### Consoles and keyboard (`Console_proofs.tla`)

For any consoles and processes (`ConsoleAssumption`):

* `Spec_RingIntact`: `[]RingIntact`. The consoles in use are one circle, one of them has the focus.
* `Spec_ModifiersFollowKeys`: `[]ModifiersFollowKeys`. The driver's shift and alt are those of the keyboard.
* `Spec_ReadsAreFresh`: `[]ReadsAreFresh`. A woken reader takes the last thing typed since it began to wait.
* `Spec_ImplementsTerminals`: `Spec => ImplementsTerminals`. One screen and the buffers are a
  text per console, and the ring is walked as the promise says.

The circle is again an enumeration of the consoles in use; a console whose close waits for the disk is not on
it, keeps its slot, and is closed by one process only (`RingInv`). For the keyboard the wire is part of the invariant (`WireInv`): it is empty, or holds the
one or two codes of the last key, and the flags differ from the keys held by that key only (`Quiet`,
`Changing`). `ReadersInv` says who is in a console's queue.

For the refinement the circle is turned until the console with the focus comes first (`Turn`, `FocusFirst`),
and `RingIs` shows that the walk along `next` that defines the mapping finds exactly that list (`ListOf`), whatever
`MAX_CONSOLES` is. `TurnedSeq`, `AddedSeq` and `RemovedSeq` are the operations of `Terminals` on such a list.
`TextInv` adds that the screen is empty when no console is open, without which the first console would
show what was there before. `OpenShown`, `WriteShown`, `FlushShown` and `HandlerShown` then map an action to a step;
`FlushShown` has the three cases of a close: another console than the one shown, the one shown, and the last.

### Devices (`Devices_proofs.tla`)

For any processes, descriptors, ports and bytes (`DevicesAssumption`):

* `Spec_RefcountsCount`: `[]RefcountsCount`. A reference count is the number of descriptors.
* `Spec_NothingOutlivesItsTask`: `[]NothingOutlivesItsTask`.
* `Spec_NobodySleepsOverData`: `[]NobodySleepsOverData`, with `REOPEN` either way.

The counts are cardinalities of sets of pairs of process and descriptor; `Recounted` and `OneMoved` say how
they change when a row or an entry does. The invariant adds that who waits in a queue is in `read` of that
port and that a dead process holds nothing.

### Files (`Files_proofs.tla`)

For any processes, entries and arguments of calls, sectors, blocks and pages of any size that fit into one another
(`FilesAssumption`), and any disk that is well formed (`ImageAssumption`):

* `Spec_WaitersHaveTheirCommand`: `[]WaitersHaveTheirCommand`. Who waits for the disk waits for the sector of the
  command under way, and no command is under way that nobody waits for.
* `Spec_PositionInFile`: `[]PositionInFile`. A position stays in its file while calls on it do not overlap.
* `Spec_ReadsReturnTheFile`: `[]ReadsReturnTheFile` when `CARELESS = FALSE`. A read that no other call disturbed returns
  the units of the file from its position on, as many as it asks for and the file has.

`ImageAssumption` is what `ext2.c` relies on, as it tests nothing of the disk but the magic number: tables and pointers hold
numbers of blocks, the size of a file asks for no more blocks than its pointers lead to, entries name inodes that are there,
and a directory is not empty and not longer than a page. A file may be too long for `ext2.c`, which then stops (`halted`).

A step of `Files` computes a state from a state, through the stages of a call, so the invariant is a predicate of states
`Good(st)`, and `GoodBut(st, t)` holds in the middle of a step of `t`. There is a lemma for each operator: `AskIsGood`, `ReturnIsGood`,
`TurnedAwayIsGood`, `CopyIsGood`, `WalkIsGood` and so on lead from `GoodBut` to `Good`. `Good` says of a call that waits
what it was told and what it has yet to read: `Reads(parts, A, d)` says that the sectors left in `parts` hold the units
of `A` from the d-th on, and `Wanted(c)` is what each stage of `ext2_open` is to find, computed from the image by the
format. `Sync` says that the drive, its data port or `hdd_enhanced_buffer` holds the sector such a call waits for,
unless another one overtook it; `Apart` that two calls are never both on a good way where they could meet. `Maps` says that
the `block_list` of an open file leads to the blocks that the disk has for it. `PartsRead`
and `BlocksPartsRead` show that the sectors `hdd_enhanced_read` reads hold exactly the units asked for, wherever these begin and end;
`InodePartsRead`, `FirstList` and `NextListRead` that the tables and the lists of block numbers are followed as the format has it.

`ReadsReturnTheFile` needs a second invariant over this one, `Paged(st)`, what the pages hold. Between two calls the `buffer` of
a file is the page its position lies in, or at whose end it lies (`PageOK`); while a call loads a page, `Loading` says which
units it copied and that the sectors it has left hold the others, and `Progress` that what the call collected is the part of
the file behind the position it began at, and `left` what is missing. Nothing is said of a file on which two calls met: the
page of one is written by the other, until a later load (`Spoiled`). A seek that begins at the end of a page takes the page that
is over for the one it looks for: this is where `CARELESS = FALSE` is needed, in `SeekIsPaged` and nowhere else. With
`PageIsLoaded` a page whose sectors have all come is the one the position is in; `TakenOfPage` is the step of a read over a page.

### Only model-checked

* Liveness (`EveryTaskGetsTurns`, `SleepersWake`, `IdleGivesWay`, the ends of reads and of pipelines): it
  rests on fairness and ENABLED, which the prover does not do.
* `FramesAccounted` of `Frames`, `LineOnScreen` and `NumbersReadBack` of `Screen`: `mm_dir_free` and a text on the screen are
  folds over data; what a fold yields for every input needs induction, which the provers cannot instantiate,
  and `^` of the conversions has no facts in them.
* `SentIsEncrypted` for krypt. Its bytes go through the buffers of two pipes in portions, so that it needs a page of the
  size of the buffer, as in the code (else a blocked call repeats the start of its page, section 6), no reuse of the closed
  end's slot (a short file, section 6), and a second invariant
  about two pipes with bytes under way; the run `pipelines` checks it.
* The refinements of `FlatTables` and `Sheets`.
* What recursive operators compute (`vsnprintf`, the numbers of `lib.c`).

## 6. Where the code and its documents disagree

The first one is the run `loader_exit`. The others were met while modelling and can be seen with the
constant named, where there is one.

* **A process that exits with the last console** leaves the scheduler's circle first
  (`loader.c:345`), then its `close` runs the screen saver (`con.c:139`), which blocks on the disk and
  calls `sched_block` a second time: with nobody else runnable `kassert(running_tasks > 0)`
  (`sched.c:109`) fails; otherwise some other process is taken off the circle.
* **The slot of a closed pipe end may be reused** while the other end is open; the end left over
  recognises its dead peer by that slot (`pipe.c:97`, `133`) and waits for ever, against
  `doc/tp3-docs.md:42`.
* **A read or write that takes several turns** uses the start of the caller's memory each time
  (`pipe.c:110-113`, `146-149`), within a portion that wraps too, against the transparency promised by
  `doc/tp3-docs.md:34-36`.
* **The test for the sole user of a frame** (`mm.c:555`) is true as soon as another process has any
  page at the address, so the last of a family copies its page too and the original frame stays
  marked as used for ever, against `doc/tp3-docs.md:137-141` and the comment at `mm.c:508`. By the same
  test `mm_dir_free` keeps the frames, kernel stack included, of every process that exits before the last.
* **Copy on write does not stop the kernel's own stores**: `copy2user` (`common.c:12`) relies on a fault
  that the processor raises only with CR0.WP, which nothing sets; `read` into a page after a fork changes
  the page of both processes, against `doc/tp3-docs.md:133-136` (`Careless = {"kernel"}`).
* **Two processes can wait for the keys of one console**: a child inherits the descriptor of its father,
  against `doc/tp2-docs.md:69-72`, which says that one at most is in a console's queue. A key wakes the
  first of them only.
* **A key before the woken reader has run** replaces the character in `kbd_char_buf`, and a release
  empties it: the reader gets a later character or none, and the key that woke it is lost, against
  `doc/tp2-docs.md:55-57`, by which it is woken to process it. `ReadsAreFresh` is what remains true: the
  reader never takes an older key.
* **`con_read` of more than one byte** copies each character to the start of the caller's memory
  (`con.c:114` does not advance `buf`). The tasks read one at a time (`getch`, the shell); `Console` counts the characters.
* **The queue of the disk takes one process**: `doc/tp2-docs.md:152` says zero or more, but `hdd.c:53`
  answers -1 to a second one, and `ext2.c:48` ignores the answer and copies what the sector buffer
  holds. So does a call that was overtaken between its interrupt and its turn. `WaitersHaveTheirCommand` and
  `CallsEnd` hold all the same; `ReadsReturnTheFile` is about the other calls.
* **A seek to the end of a file of exactly 12 blocks**, if that is also the end of a page, loads the page behind it
  through `block_list`, which `ext2_open` did not set (`ext2.c:413`); with 1036 blocks it reads beyond the
  page of `block_list`. Overlapping calls get there as well. In `Files` such a block is block 0.
* **With no console open, a key stays in the controller** (`con.c:206` returns before it reads it), and
  no other interrupt of the keyboard comes: nothing can be typed any more after a key under the screen
  saver.
* **Serial bytes that a read leaves are dropped** (`serial.c:126-128` set the length to 0), against
  `doc/tp2-docs.md:107-111`, which says the next read goes on where this one stopped.
* **Running out of pids stops the machine** (`loader.c:80`), where the caller of `fork` or `run` could be told:
  `OnlyPidsRunOut` allows this assertion to fail, and no other.
* **A serial port can be opened twice** (`serial_open` never sets a class to test, `serial.c:168`), against
  `doc/tp2-docs.md:114-117`; the second open empties the buffer and forgets the readers in the queue
  (`REOPEN = TRUE`).
* **krypt with a file shorter than a page**: `read_proc` may end before `encrypt_proc` opens its pipe,
  which then takes the slot of the closed end; what goes out is not the encrypted file (`FILE_SIZE` 2).
* **`memkrypt_read` that cannot open its file** leaves the other two waiting for ever (`memkrypt.c:36`); so the
  failures of memkrypt's opens are not in `FAILS`.
* **A seek after a read that ended at the end of a page** goes on in the wrong page (`CARELESS = TRUE`), and the page of `block_list`
  is not given back when it is replaced (`ext2.c:497` frees `buffer` only).
* **`%x` through `fprintf` is cut**: `put_uhex` returns its digits plus two but writes ten characters
  (`lib.c:291`). The lowest `int` prints wrong digits (`lib.c:260`), and the 0 that ends a full buffer is
  written one past it (`lib.c:243`).
* **A text that ends in a backslash** makes `vga_writebuf` read one character more and return one more than
  it was given (`vga.c:70`), so the assertion of `fprintf` fails; `\c` in it puts the background where it is
  lost (`vga.c:78` shifts by 8, `vga.c:145` by 4). A line of 80 characters in the shell has no 0 at its end.
* **`loc_print` at the row or column one past the screen** is accepted (`vga.c:250`) and the text then
  leaves the screen for good.

## 7. Plan

Order of the work; done parts are marked.

1. Scheduler: `SchedOps`, `Sched`, `RunQueue`, proofs. **Done.**
2. Tasks: `Loader`, `TaskStates`, `LoaderExit`. **Done.**
3. Pipes: `Pipe`, `Channels`. **Done.**
4. Memory: `Memory`, `AddressSpaces`, proofs. **Done.**
5. Disk and files: `Files`. **Done**, but for errors of the drive.
6. Descriptors, serial ports, cpuid: `Devices`. **Done**, but for the bytes a port sends.
7. Consoles and keyboard: `Console`, `Terminals`. **Done.**
8. Pipelines of krypt and memkrypt: `Pipelines`. **Done.**
9. Bitmap and page tables: `Frames`, `FlatTables`. **Done.**
10. Text: `Library`, `Screen`, `Sheets`. **Done**, but for colours.

Theorems: the invariants and the refinement of `Sched`, `Loader`, `Pipe`, `Memory` and `Console`, the
invariants of `Devices` and `Files`, and memkrypt of `Pipelines`. **Done.**

## 8. Not modelled, and why

Boot code, GDT, IDT, PIC and timer programming (run once, no state afterwards); colours and the
variants of `printf` that keep the background; the stub drivers and `sem.c`, which nothing calls;
kernel stacks and registers saved by `task_switch` (a step of the model resumes where its process
stopped); the commands of the shell and the other example tasks, whose calls are choices of the models;
the screen saver's drawing; errors of the drive and its second channel; a failed allocation in the
kernel's zone where the code does not test for it (`mm.c:124`). `panic` stops the model, as `kassert` stops the machine.
The times of `loader_sleep` are small numbers; their 32-bit width does not matter, as they only
decrease.
