------------------------------ MODULE Channels ------------------------------
(***************************************************************************)
(* What pipes promise: each is a queue of bytes of bounded length.  While  *)
(* both sides are open bytes are put; while the read side is open they are *)
(* taken, in the order they were put, also after the write side closed.    *)
(***************************************************************************)
EXTENDS Integers, Sequences

CONSTANTS Names, Bytes, Capacity

Sides == {"read", "write"}

VARIABLES content,   (* the bytes on their way in each channel             *)
          open       (* the <<channel, side>> pairs that are open          *)

vars == <<content, open>>

Init == content = [c \in Names |-> <<>>] /\ open = {}

Open(c) ==
  /\ open \cap ({c} \X Sides) = {}
  /\ open' = open \cup ({c} \X Sides)
  /\ UNCHANGED content

Put(c) ==
  /\ {c} \X Sides \subseteq open
  /\ \E n \in 1 .. Capacity - Len(content[c]) : \E new \in [1 .. n -> Bytes] :
       content' = [content EXCEPT ![c] = @ \o new]
  /\ UNCHANGED open

Take(c) ==
  /\ <<c, "read">> \in open
  /\ \E n \in 1 .. Len(content[c]) :
       content' = [content EXCEPT ![c] = SubSeq(@, n + 1, Len(@))]
  /\ UNCHANGED open

(* Some sides close; what nobody can read any more is lost. *)
Shut ==
  /\ open' \subseteq open
  /\ open' # open
  /\ content' = [c \in Names |-> IF <<c, "read">> \in open' THEN content[c] ELSE <<>>]

Next == Shut \/ \E c \in Names : Open(c) \/ Put(c) \/ Take(c)

Spec == Init /\ [][Next]_vars
=============================================================================
