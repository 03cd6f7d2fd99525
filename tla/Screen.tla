-------------------------------- MODULE Screen --------------------------------
(***************************************************************************)
(* The text output of vga.c with the users it has: the line editor of the  *)
(* shell (tasks/console.c), which echoes each key with a write of its own; *)
(* a task that prints numbers with fprintf on another console; kernel      *)
(* messages and loc_print; and the keys that change the console in sight   *)
(* at any moment.  Video memory is linear, and a console out of sight has  *)
(* a page of its own that is copied when it comes back.                    *)
(*                                                                         *)
(* Colours are left out, and so is what "\c" and its two digits do but     *)
(* that they are taken from the text.                                      *)
(***************************************************************************)
EXTENDS Library, FiniteSets

CONSTANTS ROWS, COLS, TAB_WIDTH,
          SPARE,           (* cells of a page beyond the screen            *)
          LINE_BUFFER_SIZE, Prompt,
          Letters,         (* what can be typed into the line              *)
          Numbers, Notes,  (* what the task and loc_print print            *)
          PRINTS           (* bound on what they print                     *)

ASSUME ScreenAssumption ==
  /\ ROWS \in Nat \ {0} /\ COLS \in Nat \ {0} /\ TAB_WIDTH \in Nat /\ SPARE \in Nat
  /\ LINE_BUFFER_SIZE \in Nat /\ PRINTS \in Nat

VARIABLES vga,             (* vga_addr and vga_state                       *)
          own,             (* buffer and state of each console             *)
          current,         (* the console in sight                         *)
          line,            (* line_buffer of the shell                     *)
          echo,            (* the writes the shell is about to do          *)
          prints,          (* bound: what the others may still print       *)
          number           (* the last number printed                      *)

vars == <<vga, own, current, line, echo, prints, number>>

SHELL    == "shell"
TASK     == "task"
Consoles == {SHELL, TASK}

NEWLINE   == 10
TAB       == 9
BACK      == 8
ESCAPE    == 27
BACKSLASH == 92
LETTER_c  == 99
BLANK     == 32
LARGE     == 4096          (* FPRINTF_BUFFER_SIZE                          *)

Cells == 0 .. ROWS * COLS + SPARE - 1

Cell(s) == s.y * COLS + s.x

-----------------------------------------------------------------------------
(* vga.c, as operators on a screen: its cells, its place to write at, and  *)
(* whether it is video memory (seen) or a console's page.                  *)

(* Definitions named <operator>_<Slip> are variants with a plausible       *)
(* mistake; no specification uses them.                                    *)
scroll_KeepsLastRow(s) ==
  [s EXCEPT !.cells = [i \in Cells |->
     IF i < (ROWS - 1) * COLS THEN s.cells[i + COLS] ELSE s.cells[i]]]

scroll(s) ==
  [s EXCEPT !.cells = [i \in Cells |->
     CASE i < (ROWS - 1) * COLS -> s.cells[i + COLS]
       [] i \in (ROWS - 1) * COLS .. ROWS * COLS - 1 -> BLANK
       [] OTHER -> s.cells[i]]]

vga_update_cursor(s) == [s EXCEPT !.cells[Cell(s)] = BLANK]

(* The cursor follows at once on the screen in sight. *)
putln(s) ==
  LET t == IF s.y + 1 = ROWS THEN [scroll(s) EXCEPT !.x = 0]
                             ELSE [s EXCEPT !.x = 0, !.y = @ + 1]
  IN  IF s.seen THEN vga_update_cursor(t) ELSE t

putbs_StaysInRow(s) ==
  LET t == [s EXCEPT !.cells[Cell(s)] = BLANK] IN
  IF s.x > 0 THEN [t EXCEPT !.x = @ - 1] ELSE t

(* The space goes where the cursor is, not on the character before it. *)
putbs(s) ==
  LET t == [s EXCEPT !.cells[Cell(s)] = BLANK] IN
  CASE s.x > 0            -> [t EXCEPT !.x = @ - 1]
    [] s.x = 0 /\ s.y > 0 -> [t EXCEPT !.x = COLS - 1, !.y = @ - 1]
    [] OTHER              -> t

putchar(s, c) ==
  LET t == CASE c = NEWLINE -> putln(s)
             [] c = TAB     -> [s EXCEPT !.x = @ + TAB_WIDTH]
             [] c = BACK    -> putbs(s)
             [] OTHER       -> [s EXCEPT !.cells[Cell(s)] = c, !.x = @ + 1]
  IN  IF t.x >= COLS THEN putln(t) ELSE t

(* What of a text is put on the screen: all of it up to a 0; a backslash   *)
(* takes the character after it along, and with "c" two more.              *)
Taken(text) ==
  LET n == Len(text)
      From[i \in 1 .. n + 4] ==
        IF i > n \/ text[i] = 0 THEN <<>>
        ELSE IF text[i] # BACKSLASH THEN <<text[i]>> \o From[i + 1]
        ELSE IF i < n /\ text[i + 1] = LETTER_c THEN From[i + 4]
        ELSE <<BACKSLASH>> \o From[i + 2]
  IN  From[1]

vga_writebuf(s, text) == FoldLeft(putchar, s, Taken(text))

(* The kernel's printf drops no character after a backslash, and takes     *)
(* its text with the numbers converted.                                    *)
vga_printf(s, text) == vga_update_cursor(FoldLeft(putchar, s, text))

vga_loc_printf(s, row, col, text) ==
  LET t == vga_printf([s EXCEPT !.x = col, !.y = row], text)
  IN  vga_update_cursor([t EXCEPT !.x = s.x, !.y = s.y])

-----------------------------------------------------------------------------
(* con.c: a write goes to video memory or to the console's page. *)

con_write(c, text) ==
  IF c = current
  THEN vga' = vga_update_cursor(vga_writebuf(vga, text)) /\ own' = own
  ELSE own' = [own EXCEPT ![c] = vga_writebuf(@, text)] /\ vga' = vga

Lit(text) == [i \in 1 .. Len(text) |-> [k |-> "lit", n |-> text[i], s |-> <<>>]]

print_prompt == vsnprintf(LARGE, Lit(Prompt)).text

(* The size vsnprintf returns is what goes out: %x counts less than it     *)
(* puts in the buffer.                                                     *)
fprintf(c, format) ==
  LET p == vsnprintf(LARGE, format) IN con_write(c, SubSeq(p.text, 1, p.size))

EmptyScreen == [cells |-> [i \in Cells |-> BLANK], x |-> 0, y |-> 0, seen |-> FALSE]

(* Both consoles are open, and the shell has printed its first prompt. *)
Init ==
  /\ own = [c \in Consoles |-> EmptyScreen]
  /\ vga = vga_update_cursor(vga_writebuf([EmptyScreen EXCEPT !.seen = TRUE], print_prompt))
  /\ current = SHELL
  /\ line = <<>> /\ echo = <<>>
  /\ prints = PRINTS /\ number = 0

(* Left or right arrow with alt.  A whole page is copied each way. *)
switch_console ==
  LET new == CHOOSE c \in Consoles : c # current IN
  /\ own' = [own EXCEPT ![current] = [vga EXCEPT !.seen = FALSE]]
  /\ vga' = vga_update_cursor([own[new] EXCEPT !.seen = TRUE])
  /\ current' = new
  /\ UNCHANGED <<line, echo, prints, number>>

(* The shell has read a key, which it does while it is in sight, and       *)
(* changes its line; each write that shows it is a system call of its own. *)
(* Of a command the shell carries out, the prompt after it is what shows.  *)
Key(key) ==
  /\ current = SHELL /\ echo = <<>>
  /\ \/ /\ key = NEWLINE
        /\ line' = <<>> /\ echo' = << <<NEWLINE>>, print_prompt >>
     \/ /\ key = BACK /\ line # <<>>
        /\ line' = Front(line) /\ echo' = << <<BACK>> >>
     \/ /\ key = ESCAPE /\ line # <<>>
        /\ line' = <<>> /\ echo' = << [i \in 1 .. Len(line) |-> BACK] >>
     \/ /\ key \in Letters /\ Len(line) < LINE_BUFFER_SIZE
        /\ line' = Append(line, key) /\ echo' = << <<key>> >>
  /\ UNCHANGED <<vga, own, current, prints, number>>

Echo ==
  /\ echo # <<>>
  /\ con_write(SHELL, Head(echo))
  /\ echo' = Tail(echo)
  /\ UNCHANGED <<current, line, prints, number>>

(* A task prints a coloured number on its console, maybe out of sight. *)
Colour == <<BACKSLASH, LETTER_c, 49, 53>>

TaskPrints(n) ==
  /\ prints > 0 /\ prints' = prints - 1
  /\ fprintf(TASK, Lit(Colour) \o <<[k |-> "d", n |-> n, s |-> <<>>]>> \o Lit(<<NEWLINE>>))
  /\ number' = n
  /\ UNCHANGED <<current, line, echo>>

(* The kernel prints where the cursor is.  Bound: not into the line the    *)
(* shell edits.                                                            *)
KernelPrints(text) ==
  /\ prints > 0 /\ prints' = prints - 1
  /\ current # SHELL
  /\ vga' = vga_printf(vga, text)
  /\ UNCHANGED <<own, current, line, echo, number>>

(* loc_print.  Bound: inside the screen, and not on the shell's. *)
loc_print(row, col, text) ==
  /\ prints > 0 /\ prints' = prints - 1
  /\ current # SHELL
  /\ vga' = vga_loc_printf(vga, row, col, text)
  /\ UNCHANGED <<own, current, line, echo, number>>

Next ==
  \/ switch_console
  \/ \E key \in Letters \cup {NEWLINE, BACK, ESCAPE} : Key(key)
  \/ Echo
  \/ \E n \in Numbers : TaskPrints(n)
  \/ \E text \in Notes : KernelPrints(text)
  \/ \E row \in 0 .. ROWS - 1, col \in 0 .. COLS - 1, text \in Notes :
       loc_print(row, col, text)

Spec == Init /\ [][Next]_vars

-----------------------------------------------------------------------------
Screens == [c \in Consoles |-> IF c = current THEN vga ELSE own[c]]

(* Once its echo is written, the characters before the shell's cursor are  *)
(* the prompt and line_buffer, wherever the line has wrapped or scrolled   *)
(* to, whatever was erased key by key or at once, on a console that may    *)
(* have gone out of sight between the key and its echo.                    *)
LineOnScreen ==
  LET s     == Screens[SHELL]
      shown == Prompt \o line
      start == Cell(s) - Len(shown)
  IN  echo = <<>> =>
        /\ start >= 0
        /\ \A i \in 1 .. Len(shown) : s.cells[start + i - 1] = shown[i]

(* The number a task prints with fprintf can be read back from the digits, *)
(* in the decimal and hexadecimal formats of lib.c.                        *)
NumbersReadBack == ReadsBack(number)

(* Linear memory, its scroll, its cursor and its copies at every change of *)
(* console are a sheet of rows for each console, on which nothing else     *)
(* writes.                                                                 *)
RowsOf(s) == [rows |-> [r \in 1 .. ROWS |-> [c \in 1 .. COLS |->
                          s.cells[(r - 1) * COLS + c - 1]]],
              x |-> s.x, y |-> s.y]

WrittenTexts ==
  {<<k>> : k \in Letters} \cup {<<NEWLINE>>, Prompt} \cup
  {[i \in 1 .. n |-> BACK] : n \in 1 .. LINE_BUFFER_SIZE} \cup
  {Append(put_dec(n).text, NEWLINE) : n \in Numbers} \cup Notes

Sheet == INSTANCE Sheets WITH
  Texts <- WrittenTexts,
  sheet <- [c \in Consoles |-> RowsOf(Screens[c])],
  sight <- current

ImplementsSheets == Sheet!Spec
===============================================================================
