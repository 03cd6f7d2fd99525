--------------------------- MODULE AddressSpaces ----------------------------
(***************************************************************************)
(* What the memory manager promises: every process has pages of its own; a *)
(* child starts with a copy of its father's; a page marked as shared is    *)
(* one page for the process that marked it and its later descendants.      *)
(***************************************************************************)
CONSTANTS Procs, Pages, Values,
          First,       (* the page a program is loaded at                  *)
          Absent, Requested

VARIABLES page,        (* what each process has at each address            *)
          sharers      (* the processes that see the writes of p at v, or  *)
                       (* {} if the page is private                        *)

vars == <<page, sharers>>

NoPages  == [v \in Pages |-> Absent]
Alive    == {p \in Procs : page[p] # NoPages}
Filled   == {at \in Procs \X Pages : page[at[1]][at[2]] \in Values}

Loaded(x) == [NoPages EXCEPT ![First] = x]

(* A table of the processes and their pages, with x for page v of p. *)
With(table, p, v, x) ==
  [q \in Procs |-> [w \in Pages |-> IF q = p /\ w = v THEN x ELSE table[q][w]]]

Init == /\ \E p \in Procs, x \in Values :
             page = [q \in Procs |-> IF q = p THEN Loaded(x) ELSE NoPages]
        /\ sharers = [p \in Procs |-> [v \in Pages |-> {}]]

Start(c) ==
  /\ c \notin Alive
  /\ \E x \in Values : page' = [page EXCEPT ![c] = Loaded(x)]
  /\ UNCHANGED sharers

Ask(p, v) ==
  /\ p \in Alive
  /\ page[p][v] = Absent
  /\ page' = With(page, p, v, Requested)
  /\ UNCHANGED sharers

Fill(p, v) ==
  /\ page[p][v] = Requested
  /\ \E x \in Values : page' = With(page, p, v, x)
  /\ UNCHANGED sharers

Write(p, v) ==
  /\ <<p, v>> \in Filled
  /\ \E x \in Values :
       page' = [q \in Procs |-> [w \in Pages |->
                  IF w = v /\ q \in {p} \cup sharers[p][v] THEN x ELSE page[q][w]]]
  /\ UNCHANGED sharers

Mark(p, v) ==
  /\ \/ <<p, v>> \in Filled /\ UNCHANGED page
     \/ page[p][v] = Requested /\ \E x \in Values : page' = With(page, p, v, x)
  /\ sharers' = With(sharers, p, v, sharers[p][v] \cup {p})

(* The child joins those who share a page with its father. *)
Fork(p, c) ==
  /\ p \in Alive
  /\ c \notin Alive
  /\ page' = [page EXCEPT ![c] = page[p]]
  /\ sharers' = [q \in Procs |-> [v \in Pages |->
       IF p \in sharers[p][v] /\ q \in sharers[p][v] \cup {c}
       THEN sharers[p][v] \cup {c} ELSE sharers[q][v]]]

End(p) ==
  /\ p \in Alive
  /\ page' = [page EXCEPT ![p] = NoPages]
  /\ sharers' = [q \in Procs |-> [v \in Pages |->
       IF q = p THEN {} ELSE sharers[q][v] \ {p}]]

Next == \E p \in Procs :
          \/ Start(p) \/ End(p)
          \/ \E v \in Pages : Ask(p, v) \/ Fill(p, v) \/ Write(p, v) \/ Mark(p, v)
          \/ \E c \in Procs : Fork(p, c)

Spec == Init /\ [][Next]_vars
=============================================================================
