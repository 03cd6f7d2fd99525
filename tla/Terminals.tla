------------------------------ MODULE Terminals ------------------------------
(***************************************************************************)
(* What the console driver promises: any number of terminals in a circle,  *)
(* each with a text of its own.  One has the focus and is the first of     *)
(* ring; the others follow in the order of ALT+SHIFT+Right.  A new one     *)
(* comes after the one with the focus and takes it; the focus of one that  *)
(* closes goes to the one before it.                                       *)
(***************************************************************************)
EXTENDS Sequences, SequencesExt

CONSTANTS Consoles, Marks

VARIABLES ring, text

vars == <<ring, text>>
Now  == [ring |-> ring, text |-> text]

Init == ring = <<>> /\ text = [c \in Consoles |-> <<>>]

Rotated(r)     == IF r = <<>> THEN r ELSE Tail(r) \o <<Head(r)>>
RotatedBack(r) == IF r = <<>> THEN r ELSE <<Last(r)>> \o Front(r)

(* What can follow a state s, by what happens. *)
FocusMoves(s) == {[s EXCEPT !.ring = r] : r \in {Rotated(s.ring), RotatedBack(s.ring)}}

Opens(s) ==
  {[ring |-> <<c>> \o Rotated(s.ring), text |-> [s.text EXCEPT ![c] = <<>>]] :
     c \in Consoles \ ToSet(s.ring)}

Without(i, r) == IF i = 1 THEN RotatedBack(Tail(r)) ELSE RemoveAt(r, i)

Closes(s) ==
  {[ring |-> Without(i, s.ring), text |-> [s.text EXCEPT ![s.ring[i]] = <<>>]] :
     i \in DOMAIN s.ring}

Writes(s) ==
  {[ring |-> s.ring, text |-> [s.text EXCEPT ![c] = Append(@, m)]] :
     c \in ToSet(s.ring), m \in Marks}

Next == LET now == Now
        IN Now' \in FocusMoves(now) \cup Opens(now) \cup Closes(now) \cup Writes(now)

Spec == Init /\ [][Next]_vars
=============================================================================
