------------------------------ MODULE ConsoleMC ------------------------------
(* Console for TLC: a world for the ring, the focus and the texts, and one  *)
(* for the keyboard and its readers.                                        *)
EXTENDS Console

RingWorld ==
  [consoles |-> 3, text |-> 1, reads |-> {}, keys |-> {"lshift", "lalt", "left", "right"}]

KeyboardWorld ==
  [consoles |-> 2, text |-> 0, reads |-> {1, 2},
   keys |-> {"lshift", "lalt", "ralt", "left", "right", "a"}]

Both == {RingWorld, KeyboardWorld}
=============================================================================
