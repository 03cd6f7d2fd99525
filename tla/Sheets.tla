-------------------------------- MODULE Sheets --------------------------------
(***************************************************************************)
(* What the text output promises to those who write: every console is a    *)
(* sheet of rows with a place to write at, lines that end at the right     *)
(* edge go on in the next row, the first row leaves when the last one is   *)
(* full, and writing on one sheet changes no other, whichever is in sight. *)
(***************************************************************************)
EXTENDS Integers, Sequences, SequencesExt

CONSTANTS Consoles, ROWS, COLS, TAB_WIDTH, BLANK,
          Texts, Notes, Prompt   (* what is written, at its place or at another *)

VARIABLES sheet,
          sight                  (* the console in sight *)

NEWLINE == 10
TAB     == 9
BACK    == 8

BlankRow == [c \in 1 .. COLS |-> BLANK]
Blank    == [rows |-> [r \in 1 .. ROWS |-> BlankRow], x |-> 0, y |-> 0]

Mark(s, c) == [s EXCEPT !.rows[s.y + 1][s.x + 1] = c]

(* The place to write at is blank on a sheet in sight. *)
Shown(s, seen) == IF seen THEN Mark(s, BLANK) ELSE s

NextRow(s, seen) ==
  Shown(IF s.y = ROWS - 1 THEN [s EXCEPT !.rows = Append(Tail(@), BlankRow), !.x = 0]
                          ELSE [s EXCEPT !.x = 0, !.y = @ + 1], seen)

Forward(s, n, seen) == IF s.x + n >= COLS THEN NextRow(s, seen) ELSE [s EXCEPT !.x = @ + n]

Back(s) ==
  CASE s.x > 0             -> [s EXCEPT !.x = @ - 1]
    [] s.x = 0 /\ s.y > 0  -> [s EXCEPT !.x = COLS - 1, !.y = @ - 1]
    [] OTHER               -> s

Write(s, c, seen) ==
  CASE c = NEWLINE -> NextRow(s, seen)
    [] c = TAB     -> Forward(s, TAB_WIDTH, seen)
    [] c = BACK    -> Back(Mark(s, BLANK))
    [] OTHER       -> Forward(Mark(s, c), 1, seen)

Written(s, text, seen) ==
  Shown(FoldLeft(LAMBDA t, c : Write(t, c, seen), s, text), seen)

(* A note at another place leaves the place to write at where it is. *)
Noted(s, x, y, text) ==
  Shown([Written([s EXCEPT !.x = x, !.y = y], text, TRUE) EXCEPT !.x = s.x, !.y = s.y], TRUE)

Init ==
  /\ sight \in Consoles
  /\ sheet = [c \in Consoles |-> IF c = sight THEN Written(Blank, Prompt, TRUE) ELSE Blank]

(* Another console comes in sight. *)
Turn ==
  \E s \in {sheet} : \E c \in Consoles \ {sight} :
    sight' = c /\ sheet' = [s EXCEPT ![c] = Shown(s[c], TRUE)]

WriteOn(c) ==
  \E s \in {sheet}, t \in {sheet'} : \E text \in Texts :
    t = [s EXCEPT ![c] = Written(s[c], text, c = sight)]

NoteOn(c) ==
  \E s \in {sheet}, t \in {sheet'} :
  \E text \in Notes, x \in 0 .. COLS - 1, y \in 0 .. ROWS - 1 :
    t = [s EXCEPT ![c] = Noted(s[c], x, y, text)]

Next ==
  \/ Turn
  \/ sight' = sight /\ \E c \in Consoles : WriteOn(c)
  \/ sight' = sight /\ NoteOn(sight)

Spec == Init /\ [][Next]_<<sheet, sight>>
===============================================================================
