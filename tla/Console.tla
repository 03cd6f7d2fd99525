------------------------------- MODULE Console -------------------------------
(***************************************************************************)
(* kernel/con.c: the ring of consoles, the screen that the console with    *)
(* the focus shows, and the keyboard.  What is written is a sequence of    *)
(* marks (Screen.tla has the screen); what is typed goes through the wire  *)
(* of the keyboard as scancodes, one interrupt each.                       *)
(***************************************************************************)
EXTENDS Integers, Sequences, FiniteSets, SequencesExt

CONSTANTS Tasks, init,      (* init \in Tasks is the first process         *)
          MAX_CONSOLES,
          WORLDS            (* bounds: in each, how many consoles there    *)
                            (* can be, how many marks a console holds, and *)
                            (* the sizes of reads and the physical keys    *)

ASSUME ConsoleAssumption ==
  /\ init \in Tasks
  /\ MAX_CONSOLES \in Nat \ {0}
  /\ WORLDS \subseteq [consoles : 1 .. MAX_CONSOLES, text : Nat, reads : SUBSET (1 .. 2),
                       keys : SUBSET {"lshift", "rshift", "lalt", "ralt", "left", "right", "a"}]

VARIABLES klass, kbd_queue, buffer, prev, next,
                      (* the array consoles of con.c, a function per field *)
          current,    (* the console with the focus, or NULL               *)
          vga,        (* what the screen shows                             *)
          kbd,        (* kbd_md_state, kbd_escaped and kbd_char_buf        *)
          fds,        (* the consoles each task has descriptors for        *)
          call,       (* the system call each task is in                   *)
          down,       (* the modifier keys that are held                   *)
          wire,       (* the scancodes on their way                        *)
          world       (* the bounds of this behaviour; never changes       *)

ring  == <<klass, prev, next>>
shown == <<buffer, current, vga>>
keys  == <<kbd, down, wire>>
vars  == <<ring, kbd_queue, shown, keys, fds, call, world>>

Consoles == 0 .. MAX_CONSOLES - 1
NULL     == -1
NONE     == "none"
NO_CHAR  == <<>>

NoCall            == [op |-> NONE]
Read(c, left, ch) == [op |-> "read", con |-> c, left |-> left, typed |-> ch]
Close(c)          == [op |-> "close", con |-> c]
Unborn            == [op |-> "unborn"]

Born      == {t \in Tasks : call[t] # Unborn}
AtRest(t) == call[t] = NoCall

(* con_init *)
Init ==
  /\ klass     = [c \in Consoles |-> NONE]
  /\ kbd_queue = [c \in Consoles |-> <<>>]
  /\ buffer    = [c \in Consoles |-> <<>>]
  /\ prev      = [c \in Consoles |-> c]
  /\ next      = [c \in Consoles |-> c]
  /\ current   = NULL
  /\ vga       = <<>>
  /\ kbd       = [md_state |-> {}, escaped |-> FALSE, char_buf |-> NO_CHAR]
  /\ fds       = [t \in Tasks |-> {}]
  /\ call      = [t \in Tasks |-> IF t = init THEN NoCall ELSE Unborn]
  /\ down      = {}
  /\ wire      = <<>>
  /\ world     \in WORLDS

-----------------------------------------------------------------------------
(* Definitions named <operator>_<Slip> are variants with a plausible       *)
(* mistake; no specification uses them.  README.md says what they are for. *)
switch_console_SavesNothing(cur, bufs, c) ==
  current' = c /\ buffer' = bufs /\ vga' = bufs[c]

(* The focus goes from cur to c, with bufs the buffers until then. *)
switch_console(cur, bufs, c) ==
  /\ current' = c
  /\ IF c = cur THEN buffer' = bufs /\ vga' = vga
     ELSE /\ buffer' = IF cur = NULL THEN bufs ELSE [bufs EXCEPT ![cur] = vga]
          /\ vga'    = bufs[c]

add_console_after_current(c) ==
  IF current = NULL THEN prev' = [prev EXCEPT ![c] = c] /\ next' = [next EXCEPT ![c] = c]
  ELSE /\ prev' = [prev EXCEPT ![c] = current, ![next[current]] = c]
       /\ next' = [next EXCEPT ![c] = next[current], ![current] = c]

remove_console_OneWay(c) == next' = [next EXCEPT ![prev[c]] = next[c]] /\ prev' = prev

remove_console(c) ==
  IF prev[c] = c /\ next[c] = c THEN UNCHANGED <<prev, next>>
  ELSE /\ next' = [next EXCEPT ![prev[c]] = next[c]]
       /\ prev' = [prev EXCEPT ![next[c]] = prev[c]]

(* The first closed slot. *)
ToOpen(c) == /\ c < world.consoles /\ klass[c] = NONE
             /\ \A d \in Consoles : d < c => klass[d] # NONE

con_open(t, c) ==
  /\ AtRest(t) /\ ToOpen(c)
  /\ klass'     = [klass EXCEPT ![c] = "console"]
  /\ kbd_queue' = [kbd_queue EXCEPT ![c] = <<>>]
  /\ add_console_after_current(c)
  /\ switch_console(current,
                    [buffer EXCEPT ![c] = IF current = NULL THEN vga ELSE <<>>], c)
  /\ fds' = [fds EXCEPT ![t] = @ \cup {c}]
  /\ UNCHANGED <<keys, call>>

con_write(t, c) ==
  /\ AtRest(t)
  /\ c \in fds[t]
  /\ IF c = current
     THEN /\ Len(vga) < world.text
          /\ vga' = Append(vga, c)
          /\ UNCHANGED buffer
     ELSE /\ Len(buffer[c]) < world.text
          /\ buffer' = [buffer EXCEPT ![c] = Append(@, c)]
          /\ UNCHANGED vga
  /\ UNCHANGED <<ring, kbd_queue, current, keys, fds, call>>

-----------------------------------------------------------------------------
(* con_read: waits for a scancode, as often as it takes to get its bytes,  *)
(* each of which it puts where it put the one before (README).             *)
Wait(t, c, left) ==
  /\ kbd_queue' = [kbd_queue EXCEPT ![c] = Append(@, t)]
  /\ call'      = [call EXCEPT ![t] = Read(c, left, NO_CHAR)]

con_read(t, c, size) ==
  /\ AtRest(t)
  /\ c \in fds[t]
  /\ Wait(t, c, size)
  /\ UNCHANGED <<ring, shown, keys, fds>>

Reading(t) == call[t].op = "read"
Woken(t)   == Reading(t) /\ ~ Contains(kbd_queue[call[t].con], t)

ReadGoesOn(t) ==
  /\ Woken(t)
  /\ LET left == call[t].left - IF kbd.char_buf = NO_CHAR THEN 0 ELSE 1
     IN IF left = 0 THEN /\ call' = [call EXCEPT ![t] = NoCall]
                         /\ UNCHANGED kbd_queue
        ELSE Wait(t, call[t].con, left)
  /\ UNCHANGED <<ring, shown, keys, fds>>

-----------------------------------------------------------------------------
(* close, as the last one that has the console open; the close of the last *)
(* console runs the screen saver, and waits for the disk.  Nothing is      *)
(* typed until a console is open again: the handler would leave the byte   *)
(* in the keyboard (README).                                               *)
con_flush(t, c) ==
  /\ AtRest(t)
  /\ c \in fds[t]
  /\ fds' = [fds EXCEPT ![t] = @ \ {c}]
  /\ UNCHANGED <<kbd_queue, keys>>
  /\ LET last == prev[c] = c /\ next[c] = c
         free == klass' = [klass EXCEPT ![c] = NONE] /\ UNCHANGED call
     IN \/ /\ \E u \in Tasks \ {t} : c \in fds[u]
           /\ UNCHANGED <<ring, shown, call>>
        \/ /\ \A u \in Tasks \ {t} : c \notin fds[u]
           /\ remove_console(c)
           /\ \/ c # current /\ free /\ UNCHANGED shown
              \/ c = current /\ ~ last /\ free /\ switch_console(NULL, buffer, prev[c])
              \/ /\ c = current /\ last
                 /\ wire = <<>> /\ down = {}
                 /\ current' = NULL /\ vga' = <<>>
                 /\ call' = [call EXCEPT ![t] = Close(c)]
                 /\ UNCHANGED <<klass, buffer>>

(* The screen saver is loaded, or could not be. *)
CloseGoesOn(t) ==
  /\ call[t].op = "close"
  /\ klass' = [klass EXCEPT ![call[t].con] = NONE]
  /\ call'  = [call EXCEPT ![t] = NoCall]
  /\ UNCHANGED <<prev, next, kbd_queue, shown, keys, fds>>

Fork(t, child) ==
  /\ AtRest(t)
  /\ child \in Tasks \ Born
  /\ fds'  = [fds EXCEPT ![child] = fds[t]]
  /\ call' = [call EXCEPT ![child] = NoCall]
  /\ UNCHANGED <<ring, kbd_queue, shown, keys>>

-----------------------------------------------------------------------------
(* The keyboard.  A key gives one code when it goes down and another when  *)
(* it comes up, some behind the escape code.                               *)
Shifts    == {"lshift", "rshift"}
Alts      == {"lalt", "ralt"}
Modifiers == Shifts \cup Alts
NoChar    == Shifts \cup {"alt", "escape", "left", "right"}

SC(key, up) == [key |-> IF key \in Alts THEN "alt" ELSE key, up |-> up]
ESCAPE      == [key |-> "escape", up |-> FALSE]

Codes(key, up) ==
  IF key \in {"ralt", "left", "right"} THEN <<ESCAPE, SC(key, up)>> ELSE <<SC(key, up)>>

Press(key) ==
  /\ current # NULL
  /\ wire = <<>>
  /\ key \notin down
  /\ IF key \in Modifiers
     THEN down' = down \cup {key} /\ wire' = Codes(key, FALSE)
     ELSE down' = down /\ wire' = Codes(key, FALSE) \o Codes(key, TRUE)
  /\ UNCHANGED <<ring, kbd_queue, shown, kbd, fds, call>>

Release(key) ==
  /\ wire = <<>>
  /\ key \in down
  /\ down' = down \ {key}
  /\ wire' = Codes(key, TRUE)
  /\ UNCHANGED <<ring, kbd_queue, shown, kbd, fds, call>>

-----------------------------------------------------------------------------
Modifier(k, code) ==
  CASE code.key = "alt"    -> IF k.escaped THEN {"ralt"} ELSE {"lalt"}
    [] code.key \in Shifts -> {code.key}
    [] OTHER               -> {}

(* KBD_LOWER_MAP and KBD_UPPER_MAP: the character of a key under shift. *)
Char(code, shift) ==
  IF code.up \/ code.key \in NoChar THEN NO_CHAR ELSE <<code.key, shift>>

update_kbd_state_StaysEscaped(k, code) ==
  [md_state |-> IF code.up THEN k.md_state \ Modifier(k, code)
                ELSE k.md_state \cup Modifier(k, code),
   escaped  |-> code = ESCAPE \/ k.escaped,
   char_buf |-> Char(code, k.md_state \cap Shifts # {})]

update_kbd_state_KeepsChar(k, code) ==
  [md_state |-> IF code.up THEN k.md_state \ Modifier(k, code)
                ELSE k.md_state \cup Modifier(k, code),
   escaped  |-> code = ESCAPE,
   char_buf |-> IF code.up THEN k.char_buf ELSE Char(code, k.md_state \cap Shifts # {})]

update_kbd_state(k, code) ==
  [md_state |-> IF code.up THEN k.md_state \ Modifier(k, code)
                ELSE k.md_state \cup Modifier(k, code),
   escaped  |-> code = ESCAPE,
   char_buf |-> Char(code, k.md_state \cap Shifts # {})]

(* loader_unqueue of the first reader. *)
WakeReader(c) ==
  kbd_queue' = IF kbd_queue[c] = <<>> THEN kbd_queue ELSE [kbd_queue EXCEPT ![c] = Tail(@)]

(* History: every reader notes what this code typed, by the keys held. *)
Noted(typed) ==
  [t \in Tasks |-> IF Reading(t) THEN Read(call[t].con, call[t].left, typed) ELSE call[t]]

keyboard_handler ==
  /\ wire # <<>> /\ current # NULL
  /\ wire' = Tail(wire)
  /\ call' = Noted(Char(Head(wire), down \cap Shifts # {}))
  /\ LET code  == Head(wire)
         k     == update_kbd_state(kbd, code)
         chord == k.md_state \cap Alts # {} /\ k.md_state \cap Shifts # {} /\ ~ code.up
     IN /\ kbd' = k
        /\ \/ /\ chord /\ code.key = "left"
              /\ switch_console(current, buffer, prev[current])
              /\ UNCHANGED kbd_queue
           \/ /\ chord /\ code.key = "right"
              /\ switch_console(current, buffer, next[current])
              /\ UNCHANGED kbd_queue
           \/ /\ ~ (chord /\ code.key \in {"left", "right"})
              /\ WakeReader(current)
              /\ UNCHANGED shown
  /\ UNCHANGED <<ring, fds, down>>

-----------------------------------------------------------------------------
Call(t) ==
  \/ \E c \in Consoles :
       \/ con_open(t, c) \/ con_write(t, c) \/ con_flush(t, c)
       \/ \E size \in world.reads : con_read(t, c, size)
  \/ \E child \in Tasks : Fork(t, child)

Typist == \E key \in world.keys : Press(key) \/ Release(key)

Next ==
  /\ (\E t \in Tasks : Call(t) \/ ReadGoesOn(t) \/ CloseGoesOn(t)) \/ Typist \/ keyboard_handler
  /\ UNCHANGED world

Spec == Init /\ [][Next]_vars

-----------------------------------------------------------------------------
(* The consoles on the ring, from the one with the focus on along next. *)
Ring == IF current = NULL THEN <<>>
        ELSE LET at[i \in 1 .. MAX_CONSOLES] == IF i = 1 THEN current ELSE next[at[i - 1]]
                 ends == {i \in 1 .. MAX_CONSOLES : next[at[i]] = current}
             IN SubSeq(at, 1, IF ends = {} THEN MAX_CONSOLES
                              ELSE CHOOSE i \in ends : \A j \in ends : i <= j)

Texts == LET on == ToSet(Ring)
         IN [c \in Consoles |-> CASE c = current -> vga
                                  [] c \notin on -> <<>>
                                  [] OTHER       -> buffer[c]]

T == INSTANCE Terminals WITH Marks <- Consoles, ring <- Ring,
                             text <- Texts

(* One screen and the buffers of con.c are a text per console: whatever is *)
(* written to a console is shown there and nowhere else, wherever the      *)
(* focus went meanwhile, and ALT+SHIFT walks through all of them.          *)
ImplementsTerminals == T!Spec

Open       == UNION {fds[t] : t \in Tasks}
Succ(k, n) == IF k = n - 1 THEN 0 ELSE k + 1

(* f lists the n consoles that somebody has open in the order of their     *)
(* links.                                                                  *)
Lists(f, n) ==
  /\ \A j, k \in 0 .. n - 1 : f[j] = f[k] => j = k
  /\ \A c \in Consoles : c \in Open <=> \E k \in 0 .. n - 1 : f[k] = c
  /\ \A k \in 0 .. n - 1 : next[f[k]] = f[Succ(k, n)] /\ prev[f[Succ(k, n)]] = f[k]

(* The consoles that somebody has open form one circle, forwards and       *)
(* backwards, and one of them has the focus: add_console_after_current and *)
(* remove_console change it under readers, switches and a close that waits *)
(* for the disk, and no slot on it is given to another console.            *)
RingIntact ==
  /\ \E n \in 0 .. MAX_CONSOLES : \E f \in [0 .. n - 1 -> Consoles] : Lists(f, n)
  /\ IF Open = {} THEN current = NULL ELSE current \in Open
  /\ \A c \in Open : klass[c] = "console"

(* A woken reader takes the last thing typed since it began to wait, in    *)
(* the case of the shift keys that were held, or nothing if that was no    *)
(* character: never a key from before, so never the same key twice,        *)
(* however many codes, changes of focus and other readers come between the *)
(* wake-up and its turn.  (Keys that others overtook are lost: README.)    *)
ReadsAreFresh == \A t \in Tasks : Woken(t) => kbd.char_buf = call[t].typed

(* With nothing on the wire the driver takes for held exactly the shift    *)
(* and alt keys that are: the escape code told left from right each time.  *)
ModifiersFollowKeys == wire = <<>> => kbd.md_state = down /\ ~ kbd.escaped

=============================================================================
