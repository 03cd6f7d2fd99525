-------------------------------- MODULE Files --------------------------------
(***************************************************************************)
(* kernel/hdd.c and kernel/ext2.c: the open files of the ext2 disk under   *)
(* the calls open, read, seek, close and fork of several processes.        *)
(*                                                                         *)
(* A call runs undisturbed until the driver blocks it for a sector         *)
(* (hdd_block_read, loader_enqueue) and from there, once woken, to the     *)
(* next sector it waits for or to its end.  Data are identified with their *)
(* address on the disk: a buffer holds the addresses its units came from,  *)
(* and Image tells what stands at an address.  The unit stands for a       *)
(* pointer, an inode or a directory entry alike.                           *)
(***************************************************************************)
EXTENDS Integers, Sequences, FiniteSets, SequencesExt

CONSTANTS Tasks, init,           (* init \in Tasks is the first process     *)
          Image, Paths,
          SECTOR, BLOCK, PAGE,   (* units of a sector, a block, a page     *)
          DIRECT,                (* direct blocks of an inode              *)
          MAX_EXT2_FILES,
          MAX_OPEN,              (* files a process has open at most       *)
          SIZES, POSITIONS,      (* arguments of read and seek             *)
          CARELESS               (* may a process seek when it has just    *)
                                 (* read to the end of a page?             *)

ASSUME FilesAssumption ==
  /\ init \in Tasks
  /\ {SECTOR, BLOCK, PAGE, DIRECT, MAX_EXT2_FILES, MAX_OPEN} \subseteq Nat \ {0}
  /\ BLOCK % SECTOR = 0 /\ PAGE % BLOCK = 0 /\ (DIRECT * BLOCK) % PAGE = 0
  /\ SIZES \subseteq Nat \ {0} /\ POSITIONS \subseteq Nat
  /\ CARELESS \in BOOLEAN

VARIABLES disk,     (* loaded, sb and bgdt of the file system              *)
          hdd,      (* read_queue; the sector the drive was told to read,  *)
                    (* the one at its data port; the sector that           *)
                    (* hdd_enhanced_buffer holds                           *)
          files,    (* ext2_files[]                                        *)
          fds,      (* the entries of ext2_files[] each task has open      *)
          call,     (* the system call each task is in                     *)
          answer,   (* history: the last step returned these units         *)
          halted    (* a kassert failed, or went on with junk (README)     *)

vars == <<disk, hdd, files, fds, call, answer, halted>>

Slots == 0 .. MAX_EXT2_FILES - 1
NONE      == "none"
NO_SECTOR == -1
Nothing   == [kind |-> NONE]
ROOT_DIR_INODE   == 2
SUPERBLOCK_START == BLOCK         (* a block for the boot sector, one for  *)
BGDT_START       == 2 * BLOCK     (* the superblock, then the groups       *)
GROUPS_PER_BLOCK == 4             (* block_list holds the pointers of four *)

NoCall   == [op |-> NONE]
NoAnswer == [op |-> NONE]
Closed   == [klass |-> NONE]

Born      == {t \in Tasks : call[t].op # "unborn"}
AtRest(t) == ~ halted /\ call[t] = NoCall

Init ==
  /\ disk   = [loaded |-> FALSE, sb |-> Nothing, bgdt |-> <<>>]
  /\ hdd    = [read_queue |-> <<>>, command |-> NO_SECTOR, ready |-> NO_SECTOR, buffer |-> 0]
  /\ files  = [s \in Slots |-> Closed]
  /\ fds    = [t \in Tasks |-> {}]
  /\ call   = [t \in Tasks |-> IF t = init THEN NoCall ELSE [op |-> "unborn"]]
  /\ answer = NoAnswer
  /\ halted = FALSE

-----------------------------------------------------------------------------
Least(i, j) == IF i < j THEN i ELSE j
Over(n, d)  == (n + d - 1) \div d                     (* rounded up *)

(* hdd_enhanced_read: the sectors that hold the units from start on, and   *)
(* which units of each sector it copies.                                   *)
Parts(start, count) ==
  LET span == start % SECTOR IN
  [k \in 1 .. Over(span + count, SECTOR) |->
     LET from == IF k = 1 THEN span ELSE 0
         left == IF k = 1 THEN count ELSE count + span - SECTOR * (k - 1)
     IN [sector |-> start \div SECTOR + k - 1,
         units  |-> [i \in 1 .. Least(SECTOR - from, left) |-> from + i - 1]]]

(* The first count units of a list of blocks, read one block after the     *)
(* other: every read starts with a sector.                                 *)
SECTORS == BLOCK \div SECTOR      (* of a block *)

BlocksParts(blocks, count) ==
  [k \in 1 .. Over(count, SECTOR) |->
     [sector |-> blocks[(k - 1) \div SECTORS + 1] * SECTORS + ((k - 1) % SECTORS),
      units  |-> [i \in 1 .. Least(SECTOR, count - SECTOR * (k - 1)) |-> i - 1]]]

(* obtain_inode, and the first part of str_get_inode. *)
InodeParts(fs, id) ==
  Parts(fs.bgdt[(id - 1) \div fs.sb.inodes_per_group + 1].inode_table * BLOCK
          + ((id - 1) % fs.sb.inodes_per_group), 1)

(* A word read as a block number; what stands for a word that is none is   *)
(* block 0.  So it is outside of block_list, where e2f_load_buffer would   *)
(* follow a null pointer or read beyond a page: a seek to the end of a     *)
(* file of exactly DIRECT or LastBlocks blocks does, and so does one whose *)
(* calls overlapped (README).                                              *)
BlockNumber(a) == IF a \in DOMAIN Image /\ Image[a].kind = "pointer"
                  THEN Image[a].block ELSE 0

BlocksOf(inode) == Over(inode.size, BLOCK)
LastBlocks      == DIRECT + GROUPS_PER_BLOCK * BLOCK     (* 1036 *)

(* Definitions named <operator>_<Slip> are variants with a plausible       *)
(* mistake; no specification uses them.  README.md says what they are for. *)
FileBlock_Shifted(f, k) ==
  IF k <= DIRECT THEN f.inode.block[k + 1]
  ELSE IF k - DIRECT + 1 \in DOMAIN f.block_list
       THEN BlockNumber(f.block_list[k - DIRECT + 1]) ELSE 0

FileBlock(f, k) ==
  IF k < DIRECT THEN f.inode.block[k + 1]
  ELSE IF k - DIRECT + 1 \in DOMAIN f.block_list
       THEN BlockNumber(f.block_list[k - DIRECT + 1]) ELSE 0

(* e2f_load_buffer: the sectors of the page that stream_pos lies in. *)
PageParts(f) ==
  LET first == (f.stream_pos \div PAGE) * (PAGE \div BLOCK)
  IN BlocksParts([i \in 1 .. PAGE \div BLOCK |-> FileBlock(f, first + i - 1)], PAGE)

(* The blocks of a directory, the last one up to its size. *)
DirParts(inode) == BlocksParts(inode.block, inode.size)

-----------------------------------------------------------------------------
(* The ext2 format: the words that lead to block k of a file, its number,  *)
(* and the address of unit i.                                              *)
Pointers(inode, k) ==
  LET rest   == k - DIRECT - BLOCK
      double == inode.block[DIRECT + 2] * BLOCK + rest \div BLOCK
  IN IF rest < 0 THEN {inode.block[DIRECT + 1] * BLOCK + k - DIRECT}
     ELSE {double, Image[double].block * BLOCK + (rest % BLOCK)}

FormatBlock(inode, k) ==
  LET word(b, i) == Image[b * BLOCK + i].block
      rest       == k - DIRECT - BLOCK
  IN IF k < DIRECT THEN inode.block[k + 1]
     ELSE IF rest < 0 THEN word(inode.block[DIRECT + 1], k - DIRECT)
     ELSE word(word(inode.block[DIRECT + 2], rest \div BLOCK), rest % BLOCK)

FileUnit(inode, i) == FormatBlock(inode, i \div BLOCK) * BLOCK + (i % BLOCK)

SuperBlock == Image[SUPERBLOCK_START]
GroupCount == Over(SuperBlock.blocks_count, SuperBlock.blocks_per_group)
GroupOf(id) == (id - 1) \div SuperBlock.inodes_per_group
InodeAddress(id) ==
  Image[BGDT_START + GroupOf(id)].inode_table * BLOCK + ((id - 1) % SuperBlock.inodes_per_group)
InodeOf(id) == Image[InodeAddress(id)]

Inodes == {id \in 1 .. GroupCount * SuperBlock.inodes_per_group : InodeOf(id).kind = "inode"}

WellFormed(inode) ==
  /\ inode.dir \in BOOLEAN /\ inode.size \in Nat /\ inode.block \in [1 .. DIRECT + 2 -> Nat]
  /\ BlocksOf(inode) <= LastBlocks =>
       /\ BlocksOf(inode) <= DIRECT + BLOCK + BLOCK * BLOCK
       /\ \A k \in DIRECT .. BlocksOf(inode) - 1 : \A a \in Pointers(inode, k) :
            a \in DOMAIN Image /\ Image[a].kind = "pointer"
  /\ inode.dir => /\ inode.size \in 1 .. PAGE
                  /\ \A i \in 0 .. inode.size - 1 : Image[FileUnit(inode, i)].inode \in Inodes

(* ext2.c takes the disk for a well-formed one and tests nothing of it but *)
(* the magic number: tables and pointers hold numbers of blocks, and       *)
(* directories, of one page at most, name inodes that are there.           *)
ASSUME ImageAssumption ==
  /\ SuperBlock.blocks_count \in Nat /\ SuperBlock.blocks_per_group \in Nat \ {0}
  /\ SuperBlock.inodes_per_group \in Nat \ {0}
  /\ \A g \in 0 .. GroupCount - 1 : Image[BGDT_START + g].inode_table \in Nat
  /\ \A a \in DOMAIN Image : Image[a].kind = "pointer" => Image[a].block \in Nat
  /\ ROOT_DIR_INODE \in Inodes
  /\ \A id \in Inodes : WellFormed(InodeOf(id))

-----------------------------------------------------------------------------
(* A step computes the state it leads to: st is the state as far as the    *)
(* step got.                                                               *)
Now == [disk |-> disk, hdd |-> hdd, files |-> files, fds |-> fds, call |-> call,
        answer |-> NoAnswer, halted |-> halted]

Become(st) ==
  /\ disk' = st.disk /\ hdd' = st.hdd /\ files' = st.files /\ fds' = st.fds
  /\ call' = st.call /\ answer' = st.answer /\ halted' = st.halted

InCall(t) == call[t].op \in {"open", "lost", "read", "seek"}
OthersIn(s, t) == \E u \in Tasks \ {t} : call[u].op \in {"read", "seek"} /\ call[u].slot = s

(* From here on what a file's page holds is not followed. *)
AnyPage    == [i \in 1 .. PAGE |-> 0]
Spoiled(f) == [f EXCEPT !.clean = FALSE, !.buffer = AnyPage]

(* The end of a call.  What hdd_enhanced_buffer holds is kept as long as   *)
(* another call may copy it.                                               *)
Return(st, t) ==
  [st EXCEPT !.call[t] = NoCall,
             !.hdd = IF \E u \in Tasks \ {t} : InCall(u) THEN @
                     ELSE [st.hdd EXCEPT !.buffer = 0, !.ready = NO_SECTOR]]

Halt == [Now EXCEPT !.halted = TRUE]

Clipped_ByFileSize(c, f) ==
  IF c.op = "seek" THEN 0
  ELSE IF c.at = "first" THEN Least(c.left, f.file_size) ELSE c.left

(* The read of c cut at the end of the file, which it does once. *)
Clipped(c, f) ==
  IF c.op = "seek" THEN 0
  ELSE IF c.at = "first" THEN Least(c.left, f.file_size - f.stream_pos) ELSE c.left

(* A process that finds another in read_queue gets -1 for this sector and  *)
(* for all the others of its call, and hdd_enhanced_read does not look:    *)
(* the call ends as if all had gone well, with whatever is in the buffers. *)
TurnedAway(st, t, c) ==
  LET f    == st.files[c.slot]
      left == Clipped(c, f)
      pos  == f.stream_pos + left
  IN IF c.op = "open" \/ left < 0 THEN Halt
     ELSE Return([st EXCEPT !.files[c.slot] =
                    [Spoiled(f) EXCEPT !.stream_pos = pos,
                                       !.buf_pos = IF left = 0 THEN pos % PAGE
                                                   ELSE ((pos - 1) % PAGE) + 1,
                                       !.buffer_empty = FALSE]], t)

Command(h, t, c) ==
  [read_queue |-> Append(h.read_queue, t), command |-> Head(c.parts).sector,
   ready |-> NO_SECTOR, buffer |-> 0]

Ask_EvenIfBusy(st, t, c) ==
  [st EXCEPT !.call[t] = c,
             !.hdd = Command(@, t, c)]

(* hdd_block_read up to loader_enqueue: the command goes to the drive,     *)
(* whose registers have room for one.  It overtakes the calls that were    *)
(* woken and did not run yet: what they will read is not theirs.           *)
Ask(st, t, c) ==
  IF st.hdd.read_queue # <<>> THEN TurnedAway(st, t, c)
  ELSE [st EXCEPT !.hdd = Command(@, t, c),
                  !.call = [u \in Tasks |-> IF u = t THEN c
                                            ELSE IF @[u].op = "open" THEN [op |-> "lost"]
                                            ELSE @[u]],
                  !.files = [s \in Slots |-> IF OthersIn(s, t) THEN Spoiled(@[s]) ELSE @[s]]]

hdd_primary_handler_OtherDrive ==
  /\ ~ halted
  /\ hdd.command # NO_SECTOR
  /\ Become([Now EXCEPT !.hdd = [hdd EXCEPT !.command = NO_SECTOR, !.ready = hdd.command]])

(* hdd_primary_handler, when the sector is ready. *)
hdd_primary_handler ==
  /\ ~ halted
  /\ hdd.command # NO_SECTOR
  /\ Become([Now EXCEPT !.hdd = [hdd EXCEPT !.read_queue = Tail(@), !.command = NO_SECTOR,
                                            !.ready = hdd.command]])

-----------------------------------------------------------------------------
(* ext2_file_read from its correction of the size on: copies what the page *)
(* has, and loads the next one if that is not all.                         *)
Copy(st, t, c) ==
  LET f     == st.files[c.slot]
      left  == Clipped(c, f)
      n     == Least(left, PAGE - f.buf_pos)
      moved == [f EXCEPT !.buf_pos = @ + n, !.stream_pos = @ + n]
      got   == c.got \o SubSeq(f.buffer, f.buf_pos + 1, f.buf_pos + n)
      done  == [op |-> "read", slot |-> c.slot, from |-> c.from, asked |-> c.asked,
                got |-> got]
      next  == [st EXCEPT !.files[c.slot] = moved]
  IN IF left < 0 THEN Halt
     ELSE IF left = n
     THEN [Return(next, t) EXCEPT !.answer = IF f.clean THEN done ELSE NoAnswer]
     ELSE Ask(next, t, [c EXCEPT !.at = "more", !.left = left - n, !.got = got,
                                 !.done = 0, !.parts = PageParts(moved)])

(* A call on the file while another process is in one spoils it. *)
Enter(t, s) == [Now EXCEPT !.files[s] = IF OthersIn(s, t) THEN Spoiled(@) ELSE @]

ext2_file_read(t, s, size) ==
  /\ AtRest(t)
  /\ s \in fds[t]
  /\ LET f == files[s]
         c == [op |-> "read", slot |-> s, at |-> "first", left |-> size, asked |-> size,
               from |-> f.stream_pos, got |-> <<>>, done |-> 0, parts |-> <<>>]
     IN Become(IF f.buffer_empty
               THEN Ask(Enter(t, s), t, [c EXCEPT !.parts = PageParts(f)])
               ELSE Copy(Enter(t, s), t, c))

(* The page was read to its end, and stream_pos is in the next one. *)
AtPageEnd(f) == f.buf_pos = PAGE

ext2_file_seek(t, s, position) ==
  /\ AtRest(t)
  /\ s \in fds[t]
  /\ CARELESS \/ ~ AtPageEnd(files[s])
  /\ position <= files[s].file_size
  /\ LET f     == files[s]
         there == f.stream_pos \div PAGE = position \div PAGE
         st    == [Enter(t, s) EXCEPT !.files[s].stream_pos = position,
                                      !.files[s].buf_pos = IF there THEN position % PAGE
                                                           ELSE @]
         c     == [op |-> "seek", slot |-> s, done |-> 0,
                   parts |-> PageParts([f EXCEPT !.stream_pos = position])]
     IN Become(IF there /\ ~ f.buffer_empty THEN Return(st, t) ELSE Ask(st, t, c))

(* One more sector of a page that is being loaded. *)
PageGoesOn(st, t, c, units) ==
  LET page   == [i \in 1 .. PAGE |-> IF i - c.done \in DOMAIN units
                                     THEN units[i - c.done]
                                     ELSE st.files[c.slot].buffer[i]]
      filled == [st EXCEPT !.files[c.slot].buffer =
                              IF st.files[c.slot].clean THEN page ELSE AnyPage]
      loaded == [filled EXCEPT !.files[c.slot].buf_pos = files[c.slot].stream_pos % PAGE,
                               !.files[c.slot].buffer_empty = FALSE]
  IN IF c.parts # <<>> THEN Ask(filled, t, [c EXCEPT !.done = @ + Len(units)])
     ELSE IF c.op = "seek" THEN Return(loaded, t)
     ELSE Copy(loaded, t, c)

-----------------------------------------------------------------------------
FreeSlots(fl) == {s \in Slots : fl[s].klass = NONE}

(* From one stage of ext2_open, whose units are all in c.got, to the next. *)
Stage(at, c, parts) == [c EXCEPT !.at = at, !.got = <<>>, !.parts = parts]

(* ext2_open has the number of the inode: it takes an entry, and lets      *)
(* obtain_inode fill it.                                                   *)
TakeSlot(st, t, c) ==
  IF FreeSlots(st.files) = {} THEN Return(st, t)
  ELSE LET s == Min(FreeSlots(st.files))
       IN Ask([st EXCEPT !.files[s] = [klass |-> "file"]], t,
              [Stage("inode", c, InodeParts(st.disk, c.dir)) EXCEPT !.slot = s])

(* get_file_inode: one str_get_inode for each name of the path. *)
Walk(st, t, c) ==
  IF c.flags = "wr" THEN Return(st, t)
  ELSE IF c.path = <<>> THEN TakeSlot(st, t, c)
  ELSE Ask(st, t, Stage("dirinode", c, InodeParts(st.disk, c.dir)))

ext2_open(t, path, flags) ==
  /\ AtRest(t)
  /\ Cardinality(fds[t]) < MAX_OPEN
  /\ LET c == [op |-> "open", at |-> "super", path |-> path, flags |-> flags,
               dir |-> ROOT_DIR_INODE, slot |-> -1, got |-> <<>>, list |-> <<>>,
               inode |-> Nothing, double |-> <<>>,
               parts |-> Parts(SUPERBLOCK_START, BLOCK)]
     IN Become(IF disk.loaded THEN Walk(Now, t, c) ELSE Ask(Now, t, c))

(* The file is open: device_descriptor gives the caller a descriptor. *)
Opened(st, t, c, size, page) ==
  Return([st EXCEPT !.fds[t] = @ \cup {c.slot},
                    !.files[c.slot] =
            [klass |-> "file", inode |-> c.inode, file_size |-> size,
             block_list |-> c.list, stream_pos |-> 0, buffer |-> page, buf_pos |-> 0,
             buffer_empty |-> c.at # "list", clean |-> TRUE]], t)

(* The stages after the inode: the blocks with the numbers of further      *)
(* blocks, as many as the size of the file asks for, or the directory.     *)
NextList(st, t, c) ==
  LET more(lists) == BlocksOf(c.inode) > DIRECT + lists * BLOCK
      block(b)    == Parts(b * BLOCK, BLOCK)
      read        == Len(c.list) \div BLOCK            (* lists so far *)
  IN CASE c.at = "inode" /\ more(0) ->
            Ask(st, t, Stage("single", c, block(c.inode.block[DIRECT + 1])))
       [] c.at = "single" /\ more(1) ->
            Ask(st, t, Stage("double", c, block(c.inode.block[DIRECT + 2])))
       [] c.at \in {"double", "loads"} /\ more(read) ->
            Ask(st, t, Stage("loads", c, block(BlockNumber(c.double[read]))))
       [] c.inode.dir -> Ask(st, t, Stage("list", c, DirParts(c.inode)))
       [] OTHER       -> Opened(st, t, c, c.inode.size, AnyPage)

(* ext2_finally_create, str_get_inode, obtain_inode and read_dir, each     *)
(* with the units it waited for in c.got.                                  *)
OpenGoesOn(st, t, c) ==
  LET first == Image[Head(c.got)]
      named == {i \in DOMAIN c.got : Image[c.got[i]].name = Head(c.path)}
  IN CASE c.parts # <<>> -> Ask(st, t, c)
       [] c.parts = <<>> /\ c.at = "super" ->
            Ask([st EXCEPT !.disk.sb = first], t,
                Stage("groups", c, Parts(BGDT_START,
                        Over(first.blocks_count, first.blocks_per_group))))
       [] c.parts = <<>> /\ c.at = "groups" ->
            Walk([st EXCEPT !.disk.loaded = TRUE,
                            !.disk.bgdt = [i \in DOMAIN c.got |-> Image[c.got[i]]]], t, c)
       [] c.parts = <<>> /\ c.at = "dirinode" ->
            IF ~ first.dir \/ first.size > PAGE THEN Halt
            ELSE Ask(st, t, Stage("dir", c, DirParts(first)))
       [] c.parts = <<>> /\ c.at = "dir" ->
            IF named = {} THEN Return(st, t)
            ELSE Walk(st, t, [c EXCEPT !.dir = Image[c.got[Min(named)]].inode, !.path = Tail(@)])
       [] c.parts = <<>> /\ c.at = "inode" ->
            IF BlocksOf(first) > LastBlocks THEN Halt
            ELSE NextList(st, t, [c EXCEPT !.inode = first])
       [] c.parts = <<>> /\ c.at = "double" -> NextList(st, t, [c EXCEPT !.double = c.got])
       [] c.parts = <<>> /\ c.at \in {"single", "loads"} ->
            NextList(st, t, [c EXCEPT !.list = @ \o c.got])
       [] c.parts = <<>> /\ c.at = "list" ->
            Opened(st, t, c, Len(c.got) + 1,
                   [i \in 1 .. PAGE |-> IF i <= Len(c.got) THEN c.got[i] ELSE 0])

-----------------------------------------------------------------------------
(* hdd_block_read after loader_enqueue: the words of the data port, or -1  *)
(* if the drive is busy with another command or has no data left.          *)
Taken(h) == IF h.command = NO_SECTOR /\ h.ready # NO_SECTOR
            THEN [h EXCEPT !.buffer = h.ready, !.ready = NO_SECTOR] ELSE h

(* A process that was woken copies what it wants of the sector and goes    *)
(* on.  An ext2_open that was overtaken takes junk for what it looks for.  *)
Woken(t) == ~ halted /\ InCall(t) /\ ~ Contains(hdd.read_queue, t)

SectorRead(t) ==
  /\ Woken(t)
  /\ LET st    == [Now EXCEPT !.hdd = Taken(@)]
         wants == Head(call[t].parts).units
         units == [i \in DOMAIN wants |-> st.hdd.buffer * SECTOR + wants[i]]
         c     == [call[t] EXCEPT !.parts = Tail(@)]
     IN Become(CASE call[t].op = "lost" -> Halt
                 [] call[t].op = "open" -> OpenGoesOn(st, t, [c EXCEPT !.got = @ \o units])
                 [] OTHER               -> PageGoesOn(st, t, c, units))

(* close: the last descriptor frees the page and the entry. *)
ext2_file_flush(t, s) ==
  /\ AtRest(t)
  /\ s \in fds[t]
  /\ Become([Now EXCEPT !.fds[t] = @ \ {s},
                        !.files[s] = IF \A u \in Tasks \ {t} : s \notin fds[u]
                                     THEN Closed ELSE @])

(* fork, or the start of a program: the child has the files of its parent, *)
(* and no call.  The first process, init, begins with the start of a       *)
(* program of the disk, so there is no second one before disk.loaded.      *)
Fork(t, child) ==
  /\ AtRest(t)
  /\ disk.loaded
  /\ child \notin Born
  /\ Become([Now EXCEPT !.fds[child] = fds[t], !.call[child] = NoCall])

Next ==
  \/ hdd_primary_handler
  \/ \E t \in Tasks :
       \/ SectorRead(t)
       \/ \E path \in Paths, flags \in {"rd", "wr"} : ext2_open(t, path, flags)
       \/ \E s \in Slots :
            \/ \E size \in SIZES : ext2_file_read(t, s, size)
            \/ \E position \in POSITIONS : ext2_file_seek(t, s, position)
            \/ ext2_file_flush(t, s)
       \/ \E child \in Tasks : Fork(t, child)

Spec == Init /\ [][Next]_vars

(* Interrupts arrive and a process that was woken runs.  The second is     *)
(* WF_vars(SectorRead(t)) with its ENABLED written out, as Woken(t).       *)
FairSpec ==
  /\ Spec
  /\ WF_vars(hdd_primary_handler)
  /\ \A t \in Tasks : []<>(~ Woken(t)) \/ []<><<SectorRead(t)>>_vars

-----------------------------------------------------------------------------
(* A read that no other process disturbed returns the units of the file    *)
(* that follow the position, all of them up to the end of the file, however *)
(* reads and seeks moved it before.                                        *)
ReadsReturnTheFile ==
  answer.op = "read" =>
    LET f == files[answer.slot] IN
    /\ Len(answer.got) = Least(answer.asked, f.file_size - answer.from)
    /\ ~ f.inode.dir => \A i \in DOMAIN answer.got :
                          answer.got[i] = FileUnit(f.inode, answer.from + i - 1)

(* The answer to come is for whoever is in read_queue: a process there     *)
(* waits for the sector of the command under way, not for one that was     *)
(* overwritten, and no command is under way that nobody waits for.         *)
WaitersHaveTheirCommand ==
  /\ \A t \in Tasks : Contains(hdd.read_queue, t) =>
       call[t].op \in {"open", "read", "seek"} /\ hdd.command = Head(call[t].parts).sector
  /\ hdd.command # NO_SECTOR => hdd.read_queue # <<>>

(* The position stays inside a file whose calls did not overlap. *)
PositionInFile ==
  \A t \in Tasks : \A s \in fds[t] :
    files[s].clean => files[s].stream_pos <= files[s].file_size

(* Every call ends, disturbed or not, unless the machine stops. *)
CallsEnd ==
  \A t \in Tasks : InCall(t) ~> (call[t] = NoCall \/ halted)

=============================================================================
