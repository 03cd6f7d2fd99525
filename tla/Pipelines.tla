------------------------------ MODULE Pipelines ------------------------------
(***************************************************************************)
(* tasks/krypt.c and tasks/memkrypt.c on the pipes of Pipe.tla: a process  *)
(* that reads a file, one that encrypts it and one that sends it to the    *)
(* serial port.  krypt passes the pages on through two pipes; memkrypt     *)
(* works on shared pages, with semaphores that are pipes (kernel/lib.c).   *)
(* A process is a program of the instructions below; each is a system      *)
(* call, or what the process does on its own between two of them.          *)
(***************************************************************************)
EXTENDS Pipe, SequencesExt

CONSTANTS read_proc, encrypt_proc, write_proc,
          PROGRAMS,       (* which of "krypt" and "memkrypt" are run       *)
          PAGE_SIZE, BUFFER_PAGES, CIPHER_KEY_SIZE,
          FILE_SIZE,      (* the file is the bytes 1 .. FILE_SIZE          *)
          FAILS           (* the calls of open and palloc that may fail    *)

ASSUME PipelinesAssumption ==
  /\ Tasks = {read_proc, encrypt_proc, write_proc} /\ Cardinality(Tasks) = 3
  /\ PROGRAMS \subseteq {"krypt", "memkrypt"}
  /\ {PAGE_SIZE, BUFFER_PAGES, CIPHER_KEY_SIZE} \subseteq Nat \ {0}
  /\ FILE_SIZE \in Nat

VARIABLES program,  (* the one that runs; never changes                    *)
          proc,     (* of each process: pc and the local variables         *)
          ends,     (* the descriptors of each pipe                        *)
          pages,    (* the shared pages of memkrypt                        *)
          sizes,    (* last_size_per_page                                  *)
          offset,   (* of the file                                         *)
          failed,   (* history: what failed                                *)
          sent      (* what went out of the serial port                    *)

own == <<program, proc, ends, pages, sizes, offset, failed, sent>>

-----------------------------------------------------------------------------
(* The programs.  A jump or a failure goes to the instruction it names.    *)
(* Definitions named <operator>_<Slip> are variants with a plausible       *)
(* mistake; no specification uses them.                                    *)
krypt_read == <<
  <<"pipe", "read2enc">>, <<"fork", encrypt_proc>>, <<"close", "read2enc", "read">>,
  <<"try", "krypt_read: open", 8>>, <<"try", "krypt_read: palloc", 8>>,
  (* 6 *) <<"read", 8>>, <<"put", "read2enc", 6>>,
  (* 8 *) <<"close", "read2enc", "write">>, <<"getch">>, <<"exit">> >>

krypt_encrypt == <<
  <<"close", "read2enc", "write">>, <<"pipe", "enc2write">>, <<"fork", write_proc>>,
  <<"close", "enc2write", "read">>, <<"try", "krypt_encrypt: palloc", 9>>,
  (* 6 *) <<"get", "read2enc", 9>>, <<"encrypt">>, <<"put", "enc2write", 6>>,
  (* 9 *) <<"close", "enc2write", "write">>, <<"close", "read2enc", "read">>, <<"exit">> >>

krypt_write_KeepsWriteEnd == <<
  <<"close", "read2enc", "read">>, <<"try", "krypt_write: open", 6>>,
  <<"try", "krypt_write: palloc", 6>>,
  (* 4 *) <<"get", "enc2write", 6>>, <<"send", 4>>,
  (* 6 *) <<"close", "enc2write", "read">>, <<"exit">> >>

krypt_write == <<
  <<"close", "read2enc", "read">>, <<"close", "enc2write", "write">>,
  <<"try", "krypt_write: open", 7>>, <<"try", "krypt_write: palloc", 7>>,
  (* 5 *) <<"get", "enc2write", 7>>, <<"send", 5>>,
  (* 7 *) <<"close", "enc2write", "read">>, <<"exit">> >>

memkrypt_read_OnePageMore == <<
  <<"pipe", "sem_read">>, <<"pipe", "sem_encrypt">>, <<"pipe", "sem_write">>, <<"pipe", "mutex">>,
  <<"signal", "mutex", 1>>, <<"fork", encrypt_proc>>,
  <<"try", "memkrypt_read: open", 16>>, <<"signal", "sem_read", BUFFER_PAGES + 1>>,
  (* 9 *) <<"wait", "sem_read">>, <<"read page">>,
  <<"wait", "mutex">>, <<"set size">>, <<"signal", "mutex", 1>>,
  <<"signal", "sem_encrypt", 1>>, <<"next page", 9>>,
  (* 16 *) <<"exit">> >>

memkrypt_read == <<
  <<"pipe", "sem_read">>, <<"pipe", "sem_encrypt">>, <<"pipe", "sem_write">>, <<"pipe", "mutex">>,
  <<"signal", "mutex", 1>>, <<"fork", encrypt_proc>>,
  <<"try", "memkrypt_read: open", 16>>, <<"signal", "sem_read", BUFFER_PAGES>>,
  (* 9 *) <<"wait", "sem_read">>, <<"read page">>,
  <<"wait", "mutex">>, <<"set size">>, <<"signal", "mutex", 1>>,
  <<"signal", "sem_encrypt", 1>>, <<"next page", 9>>,
  (* 16 *) <<"exit">> >>

memkrypt_encrypt_SignalsFirst == <<
  <<"fork", write_proc>>,
  (* 2 *) <<"wait", "sem_encrypt">>,
  <<"wait", "mutex">>, <<"get size">>, <<"signal", "mutex", 1>>,
  <<"signal", "sem_write", 1>>, <<"encrypt page">>, <<"next page", 2>>,
  <<"exit">> >>

memkrypt_encrypt == <<
  <<"fork", write_proc>>,
  (* 2 *) <<"wait", "sem_encrypt">>,
  <<"wait", "mutex">>, <<"get size">>, <<"signal", "mutex", 1>>,
  <<"encrypt page">>, <<"signal", "sem_write", 1>>, <<"next page", 2>>,
  <<"exit">> >>

memkrypt_write == <<
  <<"try", "memkrypt_write: open", 9>>,
  (* 2 *) <<"wait", "sem_write">>,
  <<"wait", "mutex">>, <<"get size">>, <<"signal", "mutex", 1>>,
  <<"send page">>, <<"signal", "sem_read", 1>>, <<"next page", 2>>,
  (* 9 *) <<"getch">>, <<"exit">> >>

Code(t) ==
  CASE t = read_proc    -> IF program = "krypt" THEN krypt_read ELSE memkrypt_read
    [] t = encrypt_proc -> IF program = "krypt" THEN krypt_encrypt ELSE memkrypt_encrypt
    [] OTHER            -> IF program = "krypt" THEN krypt_write ELSE memkrypt_write

Instr(t) == Code(t)[proc[t].pc]

Start ==
  /\ Init /\ call[read_proc] = NoCall
  /\ program \in PROGRAMS
  /\ proc   = [t \in Tasks |-> [pc |-> 1, buffer |-> <<>>, sz |-> 0, i |-> 0, n |-> 0]]
  /\ ends   = [name \in {} |-> 0]
  /\ pages  = [i \in 0 .. BUFFER_PAGES - 1 |-> <<>>]
  /\ sizes  = [i \in 0 .. BUFFER_PAGES - 1 |-> 0]
  /\ offset = 0
  /\ failed = {}
  /\ sent   = <<>>

-----------------------------------------------------------------------------
Goto(t, pc)  == proc' = [proc EXCEPT ![t].pc = pc]
Step1(t)     == proc[t].pc + 1
Become(t, p) == proc' = [proc EXCEPT ![t] = p]

Pipeless == UNCHANGED vars

Open(t) ==
  /\ Instr(t)[1] = "pipe"
  /\ OpenPipe(t)
  /\ free \ free' = {CHOOSE f \in free : TRUE}
  /\ LET new == fds'[t] \ fds[t]
         in  == CHOOSE e \in new : \A f \in new : e <= f
     IN ends' = [name \in DOMAIN ends \cup {Instr(t)[2]} |->
                   IF name # Instr(t)[2] THEN ends[name]
                   ELSE [read |-> in, write |-> CHOOSE e \in new : e # in]]
  /\ Goto(t, Step1(t))
  /\ UNCHANGED <<program, pages, sizes, offset, failed, sent>>

Forks(t) ==
  /\ Instr(t)[1] = "fork"
  /\ Fork(t, Instr(t)[2])
  /\ Goto(t, Step1(t))
  /\ UNCHANGED <<program, ends, pages, sizes, offset, failed, sent>>

Closes(t) ==
  /\ Instr(t)[1] = "close"
  /\ CloseAll(t, {ends[Instr(t)[2]][Instr(t)[3]]})
  /\ UNCHANGED call
  /\ Goto(t, Step1(t))
  /\ UNCHANGED <<program, ends, pages, sizes, offset, failed, sent>>

(* The end of main; in memkrypt, cleanup has closed the same descriptors. *)
Exits(t) ==
  /\ Instr(t)[1] = "exit"
  /\ Exit(t)
  /\ UNCHANGED own

(* open of the file or of the serial port, palloc. *)
Try(t) ==
  /\ Instr(t)[1] = "try"
  /\ \/ Goto(t, Step1(t)) /\ UNCHANGED failed
     \/ /\ Instr(t)[2] \in FAILS
        /\ Goto(t, Instr(t)[3])
        /\ failed' = failed \cup {Instr(t)[2]}
  /\ Pipeless
  /\ UNCHANGED <<program, ends, pages, sizes, offset, sent>>

(* getch(con): a key comes on the console, and main goes on to its end.    *)
WaitsForKey(t) == Instr(t)[1] = "getch"

Getch(t) ==
  /\ WaitsForKey(t)
  /\ Goto(t, Step1(t))
  /\ Pipeless
  /\ UNCHANGED <<program, ends, pages, sizes, offset, failed, sent>>

-----------------------------------------------------------------------------
(* Calls on pipes, which may block and go on later.  got: what the read of *)
(* the call c has, if its loop ends now.                                   *)
Got(c) ==
  LET eff == Least(bytes_available[c.end], c.size - c.sz)
  IN SubSeq(CopiedOut(c.end, eff, c.buf), 1, c.sz + eff)

Jumped(p, in, c) ==
  CASE in[1] = "put" -> [p EXCEPT !.pc = in[3]]
    [] in[1] = "get" -> IF Got(c) = <<>> THEN [p EXCEPT !.pc = in[3]]
                        ELSE [p EXCEPT !.pc = @ + 1, !.buffer = Got(c)]
    [] OTHER         -> [p EXCEPT !.pc = @ + 1]

OnPipe(t, c) ==
  /\ Loop(t, c)
  /\ IF call'[t] = NoCall THEN Become(t, Jumped(proc[t], Instr(t), c)) ELSE UNCHANGED proc
  /\ UNCHANGED <<program, ends, pages, sizes, offset, failed, sent>>

Blank(n) == [i \in 1 .. n |-> 0]

(* write and read of a page; sem_signal and sem_wait (lib.c) move bytes    *)
(* that nobody looks at.                                                   *)
Calls(t) ==
  /\ AtRest(t)
  /\ LET in == Instr(t)
     IN \/ /\ in[1] = "put"
           /\ OnPipe(t, Call("write", ends[in[2]].write, proc[t].buffer))
        \/ /\ in[1] = "get"
           /\ OnPipe(t, Call("read", ends[in[2]].read, Blank(PAGE_SIZE)))
        \/ /\ in[1] = "signal"
           /\ OnPipe(t, Call("write", ends[in[2]].write, Blank(in[3])))
        \/ /\ in[1] = "wait"
           /\ OnPipe(t, Call("read", ends[in[2]].read, Blank(1)))

GoesOn(t) ==
  /\ CanRun(t)
  /\ call[t].op \in {"read", "write"}
  /\ OnPipe(t, call[t])

-----------------------------------------------------------------------------
Rest     == FILE_SIZE - offset
NextPage == [i \in 1 .. Least(PAGE_SIZE, Rest) |-> offset + i]

Cipher(b, k) == b + 10 * (1 + (k % CIPHER_KEY_SIZE))
Encrypted(s, bytes) == [i \in DOMAIN s |-> Cipher(s[i], bytes + i - 1)]

(* The local work of krypt, on the process's own page. *)
Works(t) ==
  LET p == proc[t]
      in == Instr(t)
  IN \/ /\ in[1] = "read"
        /\ Become(t, [p EXCEPT !.buffer = NextPage,
                               !.pc = IF NextPage = <<>> THEN in[2] ELSE @ + 1])
        /\ offset' = offset + Len(NextPage)
        /\ UNCHANGED sent
     \/ /\ in[1] = "encrypt"
        /\ Become(t, [p EXCEPT !.buffer = Encrypted(@, p.n), !.n = @ + Len(p.buffer),
                               !.pc = @ + 1])
        /\ UNCHANGED <<offset, sent>>
     \/ /\ in[1] = "send"
        /\ sent' = Append(sent, Head(p.buffer))
        /\ Become(t, [p EXCEPT !.buffer = Tail(@), !.pc = IF Len(p.buffer) = 1 THEN in[2] ELSE @])
        /\ UNCHANGED offset

(* The local work of memkrypt, on the shared page i of the process. *)
WorksOnPage(t) ==
  LET p == proc[t]
      in == Instr(t)
  IN \/ /\ in[1] = "read page"
        /\ pages'  = [pages EXCEPT ![p.i] = NextPage]
        /\ offset' = offset + Len(NextPage)
        /\ Become(t, [p EXCEPT !.sz = Len(NextPage), !.pc = @ + 1])
        /\ UNCHANGED <<sizes, sent>>
     \/ /\ in[1] = "set size"
        /\ sizes' = [sizes EXCEPT ![p.i] = p.sz]
        /\ Goto(t, Step1(t))
        /\ UNCHANGED <<pages, offset, sent>>
     \/ /\ in[1] = "get size"
        /\ Become(t, [p EXCEPT !.sz = sizes[p.i], !.pc = @ + 1])
        /\ UNCHANGED <<pages, sizes, offset, sent>>
     \/ /\ in[1] = "encrypt page"
        /\ pages' = [pages EXCEPT ![p.i] = Encrypted(@, p.n)]
        /\ Become(t, [p EXCEPT !.n = @ + p.sz, !.pc = @ + 1])
        /\ UNCHANGED <<sizes, offset, sent>>
     \/ /\ in[1] = "send page"
        /\ IF p.n < p.sz
           THEN /\ sent' = Append(sent, IF p.n < Len(pages[p.i]) THEN pages[p.i][p.n + 1] ELSE 0)
                /\ Become(t, [p EXCEPT !.n = @ + 1])
           ELSE /\ Become(t, [p EXCEPT !.n = 0, !.pc = @ + 1])
                /\ UNCHANGED sent
        /\ UNCHANGED <<pages, sizes, offset>>
     \/ /\ in[1] = "next page"
        /\ Become(t, IF p.sz = 0 THEN [p EXCEPT !.pc = @ + 1]
                     ELSE [p EXCEPT !.i = (@ + 1) % BUFFER_PAGES, !.pc = in[2]])
        /\ UNCHANGED <<pages, sizes, offset, sent>>

Local(t) ==
  /\ AtRest(t)
  /\ \/ Works(t) /\ UNCHANGED <<pages, sizes>>
     \/ WorksOnPage(t)
  /\ Pipeless
  /\ UNCHANGED <<program, ends, failed>>

Syscall(t) ==
  AtRest(t) /\ (Open(t) \/ Forks(t) \/ Closes(t) \/ Exits(t) \/ Try(t) \/ Getch(t))

Runs(t) == Syscall(t) \/ Calls(t) \/ GoesOn(t) \/ Local(t)

Run == \E t \in Tasks : Runs(t)

PipelineSpec == Start /\ [][Run]_<<vars, own>>

(* A process that can run gets its turn (Sched.tla), but nothing makes a   *)
(* key come.  Weak fairness of what Runs(t) does besides Getch(t), which   *)
(* is enabled when t can run and waits for no key; written so for TLC.     *)
FairPipelineSpec ==
  /\ PipelineSpec
  /\ \A t \in Tasks : []<>(~ CanRun(t) \/ WaitsForKey(t)) \/ []<><<Runs(t)>>_<<vars, own>>

-----------------------------------------------------------------------------
TheFile == [i \in 1 .. FILE_SIZE |-> i]

(* What goes out is the encrypted file from its start, no byte missing,    *)
(* twice, out of order or of another page.  tp3-docs.md:147: the tasks     *)
(* read a file, encrypt it and write it to the serial port.                *)
SentIsEncrypted == IsPrefix(sent, Encrypted(TheFile, 0))

(* The line of t's program with this call. *)
LineOf(t, op, name) ==
  CHOOSE l \in DOMAIN Code(t) : Code(t)[l][1] = op /\ Code(t)[l][2] = name

(* t is between its wait for a page and its signal that it is done.        *)
HasPage(t) ==
  LET pc == proc[t].pc
  IN CASE t = read_proc ->
            pc > LineOf(t, "wait", "sem_read") /\ pc <= LineOf(t, "signal", "sem_encrypt")
       [] t = encrypt_proc ->
            pc > LineOf(t, "wait", "sem_encrypt") /\ pc <= LineOf(t, "signal", "sem_write")
       [] OTHER ->
            pc > LineOf(t, "wait", "sem_write") /\ pc <= LineOf(t, "signal", "sem_read")

(* The semaphores of memkrypt keep each page to one process: from its wait *)
(* to its signal nobody else works on the page it has.                     *)
PageOfOne ==
  program = "memkrypt" =>
    \A t, u \in Born : t # u /\ HasPage(t) /\ HasPage(u) => proc[t].i # proc[u].i

Gone(t) == Instr(t)[1] = "exit" /\ t \notin Born

(* The pipeline ends: if nothing failed the whole file is sent, and in the *)
(* end every process has exited or waits for a key in getch (krypt's       *)
(* read_proc, memkrypt's write_proc; nothing else holds on to the pipes).  *)
(* Where a key comes, that process exits too.                              *)
PipelineEnds ==
  <>[](/\ \A t \in Tasks : Gone(t) \/ WaitsForKey(t)
       /\ failed = {} => sent = Encrypted(TheFile, 0))
=============================================================================
