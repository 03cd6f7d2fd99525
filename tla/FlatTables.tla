------------------------------ MODULE FlatTables ------------------------------
(***************************************************************************)
(* What the directories and page tables of mm.c promise to loader.c: every *)
(* process has one flat map from pages to frames, a frame that is given    *)
(* out belongs to nobody else, and a call changes the pages it names and   *)
(* no other.  There are no tables here and nothing can be left over from   *)
(* an earlier owner.                                                       *)
(***************************************************************************)
EXTENDS Naturals

CONSTANTS Procs, Pages, Frames

VARIABLES alive, space

Nothing    == [state |-> "nothing", frame |-> 0, user |-> FALSE]
Asked      == [state |-> "asked", frame |-> 0, user |-> FALSE]
Page(f, u) == [state |-> "page", frame |-> f, user |-> u]

Given(map) == {v \in Pages : map[v].state = "page"}

(* A map of pages only, each with a frame of its own that nobody has in s. *)
IsNew(map, s) ==
  /\ \A v \in Pages \ Given(map) : map[v] = Nothing
  /\ \A v, w \in Given(map) : v # w => map[v].frame # map[w].frame
  /\ \A v \in Given(map), p \in Procs :
       map[v].frame \in Frames /\ \A w \in Pages : s[p][w].frame # map[v].frame

(* The map without the pages in S. *)
Without(map, S) == [v \in Pages |-> IF v \in S THEN Nothing ELSE map[v]]

Empty == [p \in Procs |-> [v \in Pages |-> Nothing]]

(* The first process has been loaded by idle, which has no pages. *)
Init ==
  \E idle, q \in alive :
    /\ alive = {idle, q} /\ idle # q
    /\ IsNew(space[q], Empty)
    /\ space = [Empty EXCEPT ![q] = space[q]]

(* The steps of a process p, from the maps s to the maps t: palloc         *)
(* promises one page more;                                                 *)
Ask(p, s, t) ==
  /\ \E v \in Pages : s[p][v] = Nothing /\ t = [s EXCEPT ![p][v] = Asked]
  /\ alive' = alive

(* the first touch of a promised page, or one page more for run;           *)
Give(p, s, t) ==
  /\ \E v \in Pages \ Given(s[p]) :
       /\ IsNew([Empty[p] EXCEPT ![v] = t[p][v]], s)
       /\ t = [s EXCEPT ![p][v] = Page(t[p][v].frame, TRUE)]
  /\ alive' = alive

(* the pages run used for the file are given back, and a process may have  *)
(* been loaded from them;                                                  *)
Drop(p, s, t) ==
  LET kept == Without(s[p], Given(s[p]) \ Given(t[p])) IN
  \/ t = [s EXCEPT ![p] = kept] /\ alive' = alive
  \/ \E q \in Procs \ alive :
       /\ alive' = alive \cup {q}
       /\ IsNew(t[q], s)
       /\ t = [s EXCEPT ![p] = kept, ![q] = t[q]]

(* and its end.                                                            *)
Gone(p, s, t) == alive' = alive \ {p} /\ t = [s EXCEPT ![p] = Empty[p]]

Next ==
  \E s \in {space}, t \in {space'} : \E p \in alive :
    Ask(p, s, t) \/ Give(p, s, t) \/ Drop(p, s, t) \/ Gone(p, s, t)

Spec == Init /\ [][Next]_<<alive, space>>
===============================================================================
