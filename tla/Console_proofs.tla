---------------------------- MODULE Console_proofs ----------------------------
(***************************************************************************)
(* The ring of con.c is one circle of the consoles in use, the driver's    *)
(* modifiers follow the keys, a reader takes the last thing typed since it *)
(* began to wait, and one screen and the buffers implement Terminals.tla,  *)
(* for any number of processes and consoles.                               *)
(***************************************************************************)
EXTENDS Console, FiniteSetTheorems, SequenceTheorems, WellFoundedInduction, TLAPS

IsCall(k) == \/ k = NoCall
             \/ k = Unborn
             \/ k.con \in Consoles /\ k = Close(k.con)
             \/ k.con \in Consoles /\ k = Read(k.con, k.left, k.typed)

TypeOK ==
  /\ klass \in [Consoles -> {NONE, "console"}]
  /\ kbd_queue \in [Consoles -> Seq(Tasks)]
  /\ prev \in [Consoles -> Consoles] /\ next \in [Consoles -> Consoles]
  /\ current \in Consoles \cup {NULL}
  /\ fds \in [Tasks -> SUBSET Consoles]
  /\ call = [t \in Tasks |-> call[t]] /\ \A t \in Tasks : IsCall(call[t])
  /\ world \in WORLDS

-----------------------------------------------------------------------------
(* The wire and the driver.                                                *)

Code == [key : NoChar \cup {"a"}, up : BOOLEAN]

IsPlain(code) == code.key \notin Shifts \cup {"alt"}

(* The modifiers are right when nothing is on the wire, and while the      *)
(* codes of a key that is not one of them are: the last of those is not    *)
(* the escape code.                                                        *)
Quiet ==
  /\ kbd.md_state = down
  /\ \/ wire = <<>> /\ ~ kbd.escaped
     \/ /\ wire # <<>> /\ \A i \in 1 .. Len(wire) : IsPlain(wire[i])
        /\ wire[Len(wire)] # ESCAPE

(* While those of a modifier are, they are what they were before it went   *)
(* up or down, and an escape code that has come in is followed by the code *)
(* it belongs to.                                                          *)
Before(key, up) == IF up THEN down \cup {key} ELSE down \ {key}

Changing ==
  \E key \in Modifiers, up \in BOOLEAN :
    /\ kbd.md_state = Before(key, up) /\ (up <=> key \notin down)
    /\ \/ wire = Codes(key, up) /\ ~ kbd.escaped
       \/ wire = <<SC(key, up)>> /\ key = "ralt" /\ kbd.escaped

WireInv == /\ wire \in Seq(Code) /\ down \subseteq Modifiers
           /\ Quiet \/ Changing

-----------------------------------------------------------------------------
(* The readers. *)

Queued(t, c) == \E i \in 1 .. Len(kbd_queue[c]) : kbd_queue[c][i] = t

ReadersInv ==
  /\ \A t \in Tasks : Reading(t) => call[t].con \in fds[t]
  /\ \A c \in Consoles : \A i, j \in 1 .. Len(kbd_queue[c]) :
        kbd_queue[c][i] = kbd_queue[c][j] => i = j
  /\ \A c \in Consoles, t \in Tasks : Queued(t, c) => Reading(t) /\ call[t].con = c

-----------------------------------------------------------------------------
(* The circle, of whatever length. *)
Circle == \E n \in Nat : \E f \in [0 .. n - 1 -> Consoles] : Lists(f, n)

Closing(t) == call[t].op = "close"

RingInv ==
  /\ Circle
  /\ IF Open = {} THEN current = NULL ELSE current \in Open
  /\ \A c \in Open : klass[c] = "console"
  /\ \A t \in Tasks : call[t] = Unborn => fds[t] = {}
  /\ \A t \in Tasks : Closing(t) => call[t].con \notin Open /\ klass[call[t].con] = "console"
  /\ \A t, u \in Tasks : Closing(t) /\ Closing(u) /\ call[t].con = call[u].con => t = u

IInv == TypeOK /\ WireInv /\ RingInv

-----------------------------------------------------------------------------
Keys == Modifiers \cup {"left", "right", "a"}

(* The codes that a key sends are one or two, and typed (kbd.h:9-19). *)
LEMMA CodesOfKeys ==
  ASSUME NEW key \in Keys, NEW up \in BOOLEAN
  PROVE  /\ SC(key, up) \in Code /\ ESCAPE \in Code
         /\ Codes(key, up) \in Seq(Code) /\ Codes(key, up) # <<>>
         /\ key \in {"ralt", "left", "right"} => Codes(key, up) = <<ESCAPE, SC(key, up)>>
         /\ key \notin {"ralt", "left", "right"} => Codes(key, up) = <<SC(key, up)>>
<1>1. SC(key, up) \in Code /\ ESCAPE \in Code
  BY DEF SC, ESCAPE, Code, Keys, Modifiers, NoChar, Shifts, Alts
<1>2. QED
  BY <1>1 DEF Codes

(* The modifier that the driver takes a code for. *)
KeyOf(k, code) == IF code.key # "alt" THEN code.key ELSE IF k.escaped THEN "ralt" ELSE "lalt"

(* What the driver makes of a code (con.c:241-298). *)
LEMMA CodeRead ==
  ASSUME NEW k, NEW code \in Code, NEW n, n = update_kbd_state(k, code)
  PROVE  /\ n.escaped <=> code = ESCAPE
         /\ IsPlain(code) => n.md_state = k.md_state
         /\ code.key = "escape" => n.md_state = k.md_state
         /\ ~ IsPlain(code) =>
              n.md_state = IF code.up THEN k.md_state \ {KeyOf(k, code)}
                           ELSE k.md_state \cup {KeyOf(k, code)}
         /\ n.char_buf = Char(code, k.md_state \cap Shifts # {})
<1>1. /\ n.escaped <=> code = ESCAPE
      /\ n.char_buf = Char(code, k.md_state \cap Shifts # {})
      /\ n.md_state = IF code.up THEN k.md_state \ Modifier(k, code)
                      ELSE k.md_state \cup Modifier(k, code)
  BY DEF update_kbd_state
<1>2. Modifier(k, code) = IF code.key = "alt" THEN IF k.escaped THEN {"ralt"} ELSE {"lalt"}
                          ELSE IF code.key \in Shifts THEN {code.key} ELSE {}
  BY DEF Modifier, Shifts
<1>3. QED
  BY <1>1, <1>2 DEF IsPlain, KeyOf, Shifts

LEMMA OneOrTwo ==
  ASSUME NEW s, NEW e, NEW x, s = <<e, x>> \/ s = <<x>>
  PROVE  /\ Len(s) \in 1 .. 2 /\ \A i \in 1 .. Len(s) : s[i] \in {e, x}
         /\ s[Len(s)] = x
<1>1. CASE s = <<e, x>>
  <2>1. Len(s) = 2 /\ s[1] = e /\ s[2] = x
    BY <1>1
  <2>2. QED
    BY <2>1
<1>2. CASE s = <<x>>
  <2>1. Len(s) = 1 /\ s[1] = x
    BY <1>2
  <2>2. QED
    BY <2>1
<1>3. QED
  BY <1>1, <1>2

LEMMA WireAtRest ==
  ASSUME WireInv, wire = <<>>
  PROVE  kbd.md_state = down /\ ~ kbd.escaped
<1>1. \A key \in Modifiers, up \in BOOLEAN : Codes(key, up) # <<>>
  BY CodesOfKeys DEF Keys
<1>2. ~ Changing
  BY <1>1 DEF Changing
<1>3. QED
  BY <1>2 DEF WireInv, Quiet

(* A key goes down or comes up, which no code on the wire says yet. *)
LEMMA PressWire ==
  ASSUME TypeOK, WireInv, NEW key \in world.keys, Press(key)
  PROVE  WireInv'
<1>1. key \in Keys
  BY ConsoleAssumption DEF TypeOK, Keys, Modifiers, Shifts, Alts
<1>2. kbd.md_state = down /\ ~ kbd.escaped /\ kbd' = kbd /\ key \notin down
  BY WireAtRest DEF Press
<1>3. CASE key \in Modifiers
  <2>1. down' = down \cup {key} /\ wire' = Codes(key, FALSE)
    BY <1>3 DEF Press
  <2>2. Before(key, FALSE)' = down
    BY <1>2, <2>1 DEF Before
  <2>3. Changing'
    BY <1>2, <1>3, <2>1, <2>2 DEF Changing
  <2>4. wire' \in Seq(Code)
    BY <1>1, <2>1, CodesOfKeys
  <2>5. QED
    BY <1>3, <2>1, <2>3, <2>4 DEF WireInv
<1>4. CASE key \notin Modifiers
  <2> DEFINE a == Codes(key, FALSE)
             b == Codes(key, TRUE)
  <2>1. down' = down /\ wire' = a \o b
    BY <1>4 DEF Press
  <2>2. /\ SC(key, FALSE) = [key |-> key, up |-> FALSE] /\ IsPlain(SC(key, FALSE))
        /\ SC(key, TRUE) = [key |-> key, up |-> TRUE] /\ IsPlain(SC(key, TRUE))
        /\ SC(key, TRUE) # ESCAPE /\ IsPlain(ESCAPE)
    BY <1>1, <1>4 DEF SC, IsPlain, ESCAPE, Keys, Modifiers, Shifts, Alts
  <2>3. a \in Seq(Code) /\ b \in Seq(Code)
    BY <1>1, CodesOfKeys
  <2>4. /\ a = <<ESCAPE, SC(key, FALSE)>> \/ a = <<SC(key, FALSE)>>
        /\ b = <<ESCAPE, SC(key, TRUE)>> \/ b = <<SC(key, TRUE)>>
    BY <1>1, CodesOfKeys
  <2> HIDE DEF a, b
  <2>5. /\ a \o b \in Seq(Code) /\ Len(a \o b) = Len(a) + Len(b)
        /\ \A i \in 1 .. Len(a) + Len(b) :
             (a \o b)[i] = IF i <= Len(a) THEN a[i] ELSE b[i - Len(a)]
    BY <2>3, ConcatProperties
  <2>6. /\ Len(a) \in 1 .. 2 /\ \A i \in 1 .. Len(a) : IsPlain(a[i])
        /\ Len(b) \in 1 .. 2 /\ \A i \in 1 .. Len(b) : IsPlain(b[i])
        /\ b[Len(b)] # ESCAPE
    <3>1. /\ Len(a) \in 1 .. 2 /\ \A i \in 1 .. Len(a) : a[i] \in {ESCAPE, SC(key, FALSE)}
          /\ Len(b) \in 1 .. 2 /\ \A i \in 1 .. Len(b) : b[i] \in {ESCAPE, SC(key, TRUE)}
          /\ b[Len(b)] = SC(key, TRUE)
      BY <2>4, OneOrTwo, Zenon
    <3>2. QED
      BY <2>2, <3>1
  <2>7. \A i \in 1 .. Len(a \o b) : IsPlain((a \o b)[i])
    BY <2>5, <2>6
  <2>8. (a \o b)[Len(a \o b)] = b[Len(b)] /\ Len(a \o b) # 0
    <3>1. Len(a) + Len(b) \in 1 .. Len(a) + Len(b) /\ ~ (Len(a) + Len(b) <= Len(a))
          /\ (Len(a) + Len(b)) - Len(a) = Len(b)
      <4>1. Len(a) \in 1 .. 2 /\ Len(b) \in 1 .. 2
        BY <2>6
      <4>2. \A m, n \in 1 .. 2 : m + n \in 1 .. m + n /\ ~ (m + n <= m) /\ (m + n) - m = n
        OBVIOUS
      <4>3. QED
        BY <4>1, <4>2, Zenon
    <3>2. QED
      BY <2>5, <2>6, <3>1
  <2>9. QED
    BY <1>2, <2>1, <2>5, <2>6, <2>7, <2>8 DEF WireInv, Quiet
<1>5. QED
  BY <1>3, <1>4

LEMMA ReleaseWire ==
  ASSUME WireInv, NEW key \in Keys, Release(key)
  PROVE  WireInv'
<1>1. /\ kbd.md_state = down /\ ~ kbd.escaped /\ kbd' = kbd /\ key \in down
      /\ down' = down \ {key} /\ wire' = Codes(key, TRUE)
  BY WireAtRest DEF Release
<1>2. Before(key, TRUE)' = down /\ key \in Modifiers
  BY <1>1 DEF Before, WireInv
<1>3. Changing'
  BY <1>1, <1>2 DEF Changing
<1>4. wire' \in Seq(Code)
  BY <1>1, CodesOfKeys
<1>5. QED
  BY <1>1, <1>3, <1>4 DEF WireInv

(* The driver takes a code off the wire. *)
LEMMA HandlerWire ==
  ASSUME WireInv, wire # <<>>, wire' = Tail(wire), down' = down,
         kbd' = update_kbd_state(kbd, Head(wire))
  PROVE  WireInv'
<1> DEFINE code == Head(wire)
<1>1. wire \in Seq(Code) /\ code \in Code /\ code = wire[1] /\ wire' \in Seq(Code)
  BY HeadTailProperties DEF WireInv
<1>2. kbd' = update_kbd_state(kbd, code)
  OBVIOUS
<1> HIDE DEF code
<1>3. /\ kbd'.escaped <=> code = ESCAPE
      /\ IsPlain(code) => kbd'.md_state = kbd.md_state
      /\ ~ IsPlain(code) =>
           kbd'.md_state = IF code.up THEN kbd.md_state \ {KeyOf(kbd, code)}
                           ELSE kbd.md_state \cup {KeyOf(kbd, code)}
  <2> DEFINE n == kbd'
  <2>1. n = update_kbd_state(kbd, code) /\ code \in Code
    BY <1>2, <1>1
  <2> HIDE DEF n
  <2>2. /\ n.escaped <=> code = ESCAPE
        /\ IsPlain(code) => n.md_state = kbd.md_state
        /\ ~ IsPlain(code) =>
             n.md_state = IF code.up THEN kbd.md_state \ {KeyOf(kbd, code)}
                          ELSE kbd.md_state \cup {KeyOf(kbd, code)}
    BY <2>1, CodeRead
  <2>3. QED
    BY <2>2 DEF n
<1>4. CASE Quiet
  <2>1. /\ \A i \in 1 .. Len(wire) : IsPlain(wire[i])
        /\ wire[Len(wire)] # ESCAPE /\ kbd.md_state = down
    BY <1>4 DEF Quiet
  <2>2. kbd'.md_state = down'
    BY <1>1, <1>3, <2>1
  <2>3. CASE Tail(wire) = <<>>
    <3>1. Len(wire) = 1
      <4>1. Len(<<>>) = 0
        OBVIOUS
      <4>2. Len(Tail(wire)) = 0 /\ Len(wire) \in Nat
        BY <1>1, <2>3, <4>1, LenProperties, Zenon
      <4>3. Len(Tail(wire)) = Len(wire) - 1
        BY <1>1, HeadTailProperties
      <4>4. QED
        BY <4>2, <4>3
    <3>2. code # ESCAPE
      BY <1>1, <2>1, <3>1
    <3>3. QED
      BY <1>1, <1>3, <2>2, <2>3, <3>2 DEF WireInv, Quiet
  <2>4. CASE Tail(wire) # <<>>
    <3>1. /\ Len(Tail(wire)) = Len(wire) - 1
          /\ \A i \in 1 .. Len(Tail(wire)) : Tail(wire)[i] = wire[i + 1]
          /\ Len(wire) \in Nat /\ Len(wire) > 1
      BY <1>1, <2>4, HeadTailProperties
    <3>2. QED
      BY <1>1, <2>1, <2>2, <2>4, <3>1 DEF WireInv, Quiet
  <2>5. QED
    BY <2>3, <2>4
<1>5. CASE Changing
  <2>1. PICK key \in Modifiers, up \in BOOLEAN :
          /\ kbd.md_state = Before(key, up) /\ (up <=> key \notin down)
          /\ \/ wire = Codes(key, up) /\ ~ kbd.escaped
             \/ wire = <<SC(key, up)>> /\ key = "ralt" /\ kbd.escaped
    BY <1>5 DEF Changing
  <2>2. /\ key \in Keys /\ SC(key, up).up = up
        /\ SC(key, up).key = IF key \in Alts THEN "alt" ELSE key
        /\ ~ IsPlain(SC(key, up)) /\ SC(key, up) # ESCAPE
    BY DEF SC, IsPlain, ESCAPE, Keys, Modifiers, Shifts, Alts
  <2>3. CASE wire = <<SC(key, up)>> /\ (kbd.escaped <=> key = "ralt")
    <3>1. code = SC(key, up) /\ wire' = <<>>
      BY <2>3 DEF code
    <3>2. kbd'.md_state = IF up THEN kbd.md_state \ {key} ELSE kbd.md_state \cup {key}
      <4>1. KeyOf(kbd, code) = key
        BY <2>2, <2>3, <3>1 DEF KeyOf, Modifiers, Shifts, Alts
      <4>2. QED
        BY <1>3, <2>2, <3>1, <4>1
    <3>3. kbd'.md_state = down'
      BY <2>1, <3>2 DEF Before
    <3>4. QED
      BY <1>1, <1>3, <2>2, <3>1, <3>3 DEF WireInv, Quiet
  <2>4. CASE wire = <<ESCAPE, SC(key, up)>> /\ key = "ralt"
    <3>1. code = ESCAPE /\ wire' = <<SC(key, up)>> /\ IsPlain(code)
      BY <2>4 DEF code, IsPlain, ESCAPE, Shifts
    <3>2. kbd'.md_state = Before(key, up)' /\ kbd'.escaped
      BY <1>3, <2>1, <3>1 DEF Before
    <3>3. Changing'
      BY <2>1, <2>4, <3>1, <3>2 DEF Changing
    <3>4. QED
      BY <1>1, <3>3 DEF WireInv
  <2>5. wire = <<SC(key, up)>> \/ wire = <<ESCAPE, SC(key, up)>>
    BY <2>1, <2>2, CodesOfKeys
  <2>6. QED
    BY <2>1, <2>2, <2>3, <2>4, <2>5, CodesOfKeys DEF Modifiers, Shifts, Alts
<1>6. QED
  BY <1>4, <1>5 DEF WireInv

LEMMA WireKept ==
  ASSUME TypeOK, WireInv, [Next]_vars
  PROVE  WireInv'
<1>1. CASE UNCHANGED keys
  BY <1>1 DEF WireInv, Quiet, Changing, Before, keys
<1>2. ASSUME NEW key \in world.keys, Press(key)
      PROVE  WireInv'
  BY <1>2, PressWire
<1>3. ASSUME NEW key \in world.keys, Release(key)
      PROVE  WireInv'
  <2>1. key \in Keys
    BY ConsoleAssumption DEF TypeOK, Keys, Modifiers, Shifts, Alts
  <2>2. QED
    BY <1>3, <2>1, ReleaseWire
<1>4. CASE keyboard_handler
  BY <1>4, HandlerWire DEF keyboard_handler
<1>5. ASSUME NEW t \in Tasks, Call(t) \/ ReadGoesOn(t) \/ CloseGoesOn(t)
      PROVE  UNCHANGED keys
  BY <1>5 DEF Call, con_open, con_write, con_read, con_flush, Fork, ReadGoesOn, CloseGoesOn
<1>6. UNCHANGED vars => UNCHANGED keys
  BY DEF vars
<1>7. QED
  BY <1>1, <1>2, <1>3, <1>4, <1>5, <1>6 DEF Next, Typist

-----------------------------------------------------------------------------
(* f lists the n members of the set on in the order of the links nx and pv. *)
Rounds(f, n, on, nx, pv) ==
  /\ \A j, k \in 0 .. n - 1 : f[j] = f[k] => j = k
  /\ \A c \in Consoles : c \in on <=> \E k \in 0 .. n - 1 : f[k] = c
  /\ \A k \in 0 .. n - 1 : nx[f[k]] = f[Succ(k, n)] /\ pv[f[Succ(k, n)]] = f[k]

Inserted(f, n, p, c) ==
  [k \in 0 .. n |-> IF k <= p THEN f[k] ELSE IF k = p + 1 THEN c ELSE f[k - 1]]

Without(f, n, p) == [k \in 0 .. n - 2 |-> IF k < p THEN f[k] ELSE f[k + 1]]

(* c joins behind a: the set and the links before and after. *)
Joins(c, a, on, nx, pv, on2, nx2, pv2) ==
  \A d \in Consoles :
    /\ d \in on2 <=> d = c \/ d \in on
    /\ nx2[d] = IF d = a THEN c ELSE IF d = c THEN nx[a] ELSE nx[d]
    /\ pv2[d] = IF d = nx[a] THEN c ELSE IF d = c THEN a ELSE pv[d]

(* a leaves. *)
Leaves(a, on, nx, pv, on2, nx2, pv2) ==
  \A d \in Consoles :
    /\ d \in on2 <=> d # a /\ d \in on
    /\ d # a => /\ nx2[d] = IF d = pv[a] THEN nx[a] ELSE nx[d]
                /\ pv2[d] = IF d = nx[a] THEN pv[a] ELSE pv[d]

(* A console linked behind the one at place p (con.c:172-182). *)
LEMMA LinkAfter ==
  ASSUME NEW n \in Nat, NEW f \in [0 .. n - 1 -> Consoles], NEW on, NEW nx, NEW pv,
         NEW on2, NEW nx2, NEW pv2, NEW p \in 0 .. n - 1, NEW c \in Consoles,
         Rounds(f, n, on, nx, pv), c \notin on, Joins(c, f[p], on, nx, pv, on2, nx2, pv2)
  PROVE  /\ Inserted(f, n, p, c) \in [0 .. n -> Consoles]
         /\ Rounds(Inserted(f, n, p, c), n + 1, on2, nx2, pv2)
<1> DEFINE g == Inserted(f, n, p, c)
           r == Succ(p, n)
<1>1. \A k \in 0 .. n - 1 : f[k] \in Consoles /\ f[k] # c
  BY DEF Rounds
<1>2. /\ g \in [0 .. n -> Consoles]
      /\ \A k \in 0 .. n : g[k] = IF k <= p THEN f[k] ELSE IF k = p + 1 THEN c ELSE f[k - 1]
  BY <1>1 DEF Inserted
<1> HIDE DEF g
<1>3. \A j, k \in 0 .. n - 1 : f[j] = f[k] => j = k
  BY DEF Rounds
<1>4. \A j, k \in 0 .. n : g[j] = g[k] => j = k
  BY <1>1, <1>2, <1>3
<1>5. \A d \in Consoles :
        /\ d \in on2 <=> d = c \/ d \in on
        /\ nx2[d] = IF d = f[p] THEN c ELSE IF d = c THEN nx[f[p]] ELSE nx[d]
        /\ pv2[d] = IF d = nx[f[p]] THEN c ELSE IF d = c THEN f[p] ELSE pv[d]
  BY DEF Joins
<1>6. ASSUME NEW d \in Consoles
      PROVE  d \in on2 <=> \E k \in 0 .. n : g[k] = d
  <2>1. d \in on <=> \E k \in 0 .. n - 1 : f[k] = d
    BY DEF Rounds
  <2>2. ASSUME NEW k \in 0 .. n - 1, f[k] = d
        PROVE  \E m \in 0 .. n : g[m] = d
    <3>1. CASE k <= p
      BY <1>2, <2>2, <3>1
    <3>2. CASE k > p
      <4>1. k + 1 \in 0 .. n /\ ~ (k + 1 <= p) /\ k + 1 # p + 1 /\ (k + 1) - 1 = k
        BY <3>2
      <4>2. QED
        BY <1>2, <2>2, <4>1
    <3>3. QED
      BY <3>1, <3>2
  <2>3. g[p + 1] = c /\ p + 1 \in 0 .. n
    BY <1>2
  <2>4. ASSUME NEW k \in 0 .. n, g[k] = d
        PROVE  d = c \/ \E m \in 0 .. n - 1 : f[m] = d
    BY <1>2, <2>4
  <2>5. QED
    BY <1>5, <2>1, <2>2, <2>3, <2>4
<1>7. /\ r \in 0 .. n - 1 /\ nx[f[p]] = f[r] /\ f[p] \in Consoles /\ f[r] \in Consoles
  BY <1>1 DEF Rounds, Succ
<1>8. ASSUME NEW k \in 0 .. n
      PROVE  /\ nx2[g[k]] = g[Succ(k, n + 1)]
             /\ pv2[g[Succ(k, n + 1)]] = g[k]
  <2>1. CASE k = p
    <3>1. Succ(k, n + 1) = p + 1 /\ p + 1 \in 0 .. n
      BY <2>1 DEF Succ
    <3>2. g[k] = f[p] /\ g[p + 1] = c
      BY <1>2, <2>1, <3>1
    <3>3. QED
      BY <1>5, <1>1, <1>7, <3>1, <3>2
  <2>2. CASE k = p + 1
    <3>1. Succ(k, n + 1) \in 0 .. n /\ g[Succ(k, n + 1)] = f[r] /\ g[k] = c
      BY <1>2, <2>2 DEF Succ
    <3>2. QED
      BY <1>5, <1>1, <1>7, <3>1
  <2>3. CASE k # p /\ k # p + 1
    <3> DEFINE m == IF k <= p THEN k ELSE k - 1
    <3>1. /\ m \in 0 .. n - 1 /\ m # p /\ Succ(m, n) \in 0 .. n - 1 /\ Succ(m, n) # r
          /\ Succ(k, n + 1) \in 0 .. n
      BY <2>3 DEF Succ
    <3>2. g[k] = f[m] /\ g[Succ(k, n + 1)] = f[Succ(m, n)]
      BY <1>2, <2>3 DEF Succ
    <3>3. nx[f[m]] = f[Succ(m, n)] /\ pv[f[Succ(m, n)]] = f[m]
      BY <3>1 DEF Rounds
    <3>4. f[m] # f[p] /\ f[Succ(m, n)] # f[r]
      BY <1>3, <1>7, <3>1
    <3> HIDE DEF m
    <3>5. f[m] # c /\ f[Succ(m, n)] # c /\ f[m] \in Consoles /\ f[Succ(m, n)] \in Consoles
      BY <1>1, <3>1
    <3>6. QED
      BY <1>5, <1>7, <3>2, <3>3, <3>4, <3>5
  <2>4. QED
    BY <2>1, <2>2, <2>3
<1>9. (n + 1) - 1 = n
  OBVIOUS
<1>10. Rounds(g, n + 1, on2, nx2, pv2)
  BY <1>4, <1>6, <1>8, <1>9 DEF Rounds
<1>11. QED
  BY <1>2, <1>10 DEF g

(* Places on a circle of n with place p left out: the successor of a place *)
(* stays its successor, except where p stood between the two.              *)
LEMMA SkipPlace ==
  ASSUME NEW n \in Nat, n > 1, NEW p \in 0 .. n - 1, NEW k \in 0 .. n - 2
  PROVE  LET q        == IF p = 0 THEN n - 1 ELSE p - 1
             after(j) == IF j < p THEN j ELSE j + 1
             m        == Succ(k, n - 1)
         IN /\ after(k) = q => after(m) = Succ(p, n)
            /\ after(k) # q => after(m) = Succ(after(k), n) /\ after(m) # Succ(p, n)
  BY DEF Succ

(* The console at place p taken out (con.c:184-189). *)
LEMMA Unlink ==
  ASSUME NEW n \in Nat, NEW f \in [0 .. n - 1 -> Consoles], NEW on, NEW nx, NEW pv,
         NEW on2, NEW nx2, NEW pv2, NEW p \in 0 .. n - 1,
         n > 1, Rounds(f, n, on, nx, pv), Leaves(f[p], on, nx, pv, on2, nx2, pv2)
  PROVE  /\ Without(f, n, p) \in [0 .. n - 2 -> Consoles]
         /\ Rounds(Without(f, n, p), n - 1, on2, nx2, pv2)
<1> DEFINE g == Without(f, n, p)
           a == f[p]
           q == IF p = 0 THEN n - 1 ELSE p - 1
           r == Succ(p, n)
           after(k) == IF k < p THEN k ELSE k + 1
<1>1. /\ p \in Int /\ q \in 0 .. n - 1 /\ r \in 0 .. n - 1 /\ Succ(q, n) = p
      /\ q # p /\ r # p
  BY DEF Succ
<1>2. \A j, k \in 0 .. n - 1 : f[j] = f[k] => j = k
  BY DEF Rounds
<1>3. nx[a] = f[r] /\ pv[a] = f[q] /\ a \in Consoles
  BY <1>1 DEF Rounds
<1>4. /\ g \in [0 .. n - 2 -> Consoles]
      /\ \A k \in 0 .. n - 2 : /\ after(k) \in 0 .. n - 1 /\ after(k) # p
                               /\ g[k] = f[after(k)] /\ g[k] # a /\ g[k] \in Consoles
  BY <1>1, <1>2 DEF Without
<1> HIDE DEF g
<1>5. \A j, k \in 0 .. n - 2 : g[j] = g[k] => j = k
  BY <1>2, <1>4
<1>6. \A d \in Consoles :
        /\ d \in on2 <=> d # a /\ d \in on
        /\ d # a => /\ nx2[d] = IF d = pv[a] THEN nx[a] ELSE nx[d]
                    /\ pv2[d] = IF d = nx[a] THEN pv[a] ELSE pv[d]
  BY DEF Leaves
<1>7. ASSUME NEW d \in Consoles
      PROVE  d \in on2 <=> \E k \in 0 .. n - 2 : g[k] = d
  <2>1. d \in on <=> \E k \in 0 .. n - 1 : f[k] = d
    BY DEF Rounds
  <2>2. ASSUME NEW k \in 0 .. n - 1, f[k] = d, d # a
        PROVE  \E m \in 0 .. n - 2 : g[m] = d
    <3>1. k # p
      BY <2>2
    <3>2. CASE k < p
      <4>1. k \in 0 .. n - 2 /\ after(k) = k
        BY <1>1, <3>2
      <4>2. QED
        BY <1>4, <2>2, <4>1
    <3>3. CASE k > p
      <4>1. k - 1 \in 0 .. n - 2 /\ after(k - 1) = k
        BY <1>1, <3>3
      <4>2. QED
        BY <1>4, <2>2, <4>1
    <3>4. QED
      BY <1>1, <3>1, <3>2, <3>3
  <2>3. ASSUME NEW k \in 0 .. n - 2, g[k] = d
        PROVE  d # a /\ \E m \in 0 .. n - 1 : f[m] = d
    BY <1>4, <2>3
  <2>4. QED
    BY <1>6, <2>1, <2>2, <2>3
<1>8. ASSUME NEW k \in 0 .. n - 2
      PROVE  /\ nx2[g[k]] = g[Succ(k, n - 1)]
             /\ pv2[g[Succ(k, n - 1)]] = g[k]
  <2> DEFINE m == Succ(k, n - 1)
  <2>1. m \in 0 .. n - 2
    BY DEF Succ
  <2>2. /\ after(k) \in 0 .. n - 1 /\ g[k] = f[after(k)] /\ g[k] # a /\ g[k] \in Consoles
        /\ after(m) \in 0 .. n - 1 /\ g[m] = f[after(m)] /\ g[m] # a /\ g[m] \in Consoles
    BY <1>4, <2>1
  <2>3. /\ after(k) = q => after(m) = r
        /\ after(k) # q => after(m) = Succ(after(k), n) /\ after(m) # r
    <3>1. /\ n \in Nat /\ n > 1 /\ p \in 0 .. n - 1 /\ k \in 0 .. n - 2
      OBVIOUS
    <3>2. QED
      BY ONLY <3>1, SkipPlace
  <2>4. CASE after(k) = q
    <3>1. after(m) = r
      BY <2>3, <2>4
    <3>2. g[k] = pv[a] /\ g[m] = nx[a]
      BY <1>3, <2>2, <2>4, <3>1
    <3>3. QED
      BY <1>6, <2>2, <3>2
  <2>5. CASE after(k) # q
    <3>1. after(m) = Succ(after(k), n) /\ after(m) # r
      BY <2>3, <2>5
    <3>2. /\ nx[f[after(k)]] = f[after(m)]
          /\ pv[f[after(m)]] = f[after(k)]
      BY <2>2, <3>1 DEF Rounds
    <3>3. f[after(k)] # f[q] /\ f[after(m)] # f[r]
      BY <1>1, <1>2, <2>2, <2>5, <3>1
    <3>4. QED
      BY <1>6, <1>3, <2>2, <3>2, <3>3
  <2>6. QED
    BY <2>4, <2>5
<1>9. (n - 1) - 1 = n - 2
  OBVIOUS
<1>10. QED
  <2>1. Rounds(g, n - 1, on2, nx2, pv2)
    BY <1>5, <1>7, <1>8, <1>9 DEF Rounds
  <2>2. QED
    BY <1>4, <2>1 DEF g

(* No circle is longer than the array of consoles. *)
LEMMA CircleFits ==
  ASSUME NEW n \in Nat, NEW f \in [0 .. n - 1 -> Consoles],
         \A j, k \in 0 .. n - 1 : f[j] = f[k] => j = k
  PROVE  n <= MAX_CONSOLES
<1>1. /\ IsFiniteSet(0 .. n - 1) /\ Cardinality(0 .. n - 1) = n
      /\ IsFiniteSet(Consoles) /\ Cardinality(Consoles) = MAX_CONSOLES
  BY FS_Interval, ConsoleAssumption DEF Consoles
<1>2. ~ (Cardinality(Consoles) < Cardinality(0 .. n - 1))
  BY <1>1, FS_PigeonHole
<1>3. QED
  BY <1>1, <1>2, ConsoleAssumption

-----------------------------------------------------------------------------
LEMMA CallForms ==
  /\ IsCall(NoCall) /\ IsCall(Unborn)
  /\ \A c \in Consoles : IsCall(Close(c)) /\ Close(c).op = "close" /\ Close(c).con = c
  /\ \A c \in Consoles : \A left, ch :
       /\ IsCall(Read(c, left, ch)) /\ Read(c, left, ch).op = "read"
       /\ Read(c, left, ch).con = c /\ Read(c, left, ch).typed = ch
  /\ NoCall.op = "none" /\ Unborn.op = "unborn" /\ NoCall # Unborn
  /\ \A c \in Consoles : \A left, ch :
       /\ Close(c) # NoCall /\ Close(c) # Unborn
       /\ Read(c, left, ch) # NoCall /\ Read(c, left, ch) # Unborn
  BY DEF IsCall, NoCall, Unborn, Close, Read, NONE

(* One call changed keeps the table of calls. *)
LEMMA OneCall ==
  ASSUME TypeOK, NEW t \in Tasks, NEW k, IsCall(k), call' = [call EXCEPT ![t] = k]
  PROVE  /\ call' = [u \in Tasks |-> call'[u]] /\ \A u \in Tasks : IsCall(call'[u])
         /\ \A u \in Tasks : call'[u] = IF u = t THEN k ELSE call[u]
<1>1. \A u \in Tasks : call'[u] = IF u = t THEN k ELSE call[u]
  BY DEF TypeOK
<1>2. call' = [u \in Tasks |-> call'[u]]
  BY DEF TypeOK
<1>3. QED
  BY <1>1, <1>2 DEF TypeOK

(* con_open links a console that was closed, and gives it the focus. *)
LEMMA OpenType ==
  ASSUME TypeOK, world' = world, NEW t \in Tasks, NEW c \in Consoles, con_open(t, c)
  PROVE  TypeOK'
<1>1. klass' \in [Consoles -> {NONE, "console"}] /\ kbd_queue' \in [Consoles -> Seq(Tasks)]
  BY DEF con_open, TypeOK
<1>2. current' = c /\ fds' \in [Tasks -> SUBSET Consoles] /\ call' = call
  BY DEF con_open, switch_console, TypeOK
<1>3. prev' \in [Consoles -> Consoles] /\ next' \in [Consoles -> Consoles]
  <2>1. CASE current = NULL
    BY <2>1 DEF con_open, add_console_after_current, TypeOK
  <2>2. CASE current # NULL
    <3>1. /\ current \in Consoles /\ next[current] \in Consoles
          /\ prev \in [Consoles -> Consoles] /\ next \in [Consoles -> Consoles]
      BY <2>2 DEF TypeOK
    <3>2. add_console_after_current(c)
      BY DEF con_open
    <3>3. QED
      BY <2>2, <3>1, <3>2 DEF add_console_after_current
  <2>3. QED
    BY <2>1, <2>2
<1>4. QED
  BY <1>1, <1>2, <1>3 DEF TypeOK

LEMMA FlushType ==
  ASSUME TypeOK, world' = world, NEW t \in Tasks, NEW c \in Consoles, con_flush(t, c)
  PROVE  TypeOK'
<1>1. fds' \in [Tasks -> SUBSET Consoles] /\ kbd_queue' = kbd_queue
  BY DEF con_flush, TypeOK
<1>2. klass' \in [Consoles -> {NONE, "console"}]
  <2>1. klass' = klass \/ klass' = [klass EXCEPT ![c] = NONE]
    BY DEF con_flush, ring
  <2>2. QED
    BY <2>1 DEF TypeOK
<1>3. prev' \in [Consoles -> Consoles] /\ next' \in [Consoles -> Consoles]
  <2>1. UNCHANGED <<prev, next>> \/ remove_console(c)
    BY DEF con_flush, ring
  <2>2. prev[c] \in Consoles /\ next[c] \in Consoles
    BY DEF TypeOK
  <2>3. QED
    BY <2>1, <2>2 DEF remove_console, TypeOK
<1>4. current' \in Consoles \cup {NULL}
  <2>1. current' = current \/ current' = prev[c] \/ current' = NULL
    BY DEF con_flush, shown, switch_console
  <2>2. QED
    BY <2>1 DEF TypeOK
<1>5. call' = [u \in Tasks |-> call'[u]] /\ \A u \in Tasks : IsCall(call'[u])
  <2>1. call' = call \/ call' = [call EXCEPT ![t] = Close(c)]
    BY DEF con_flush
  <2>2. IsCall(Close(c))
    BY CallForms
  <2>3. QED
    BY <2>1, <2>2, OneCall DEF TypeOK
<1>6. QED
  BY <1>1, <1>2, <1>3, <1>4, <1>5 DEF TypeOK

LEMMA WaitType ==
  ASSUME TypeOK, NEW t \in Tasks, NEW c \in Consoles, NEW left, Wait(t, c, left)
  PROVE  /\ kbd_queue' \in [Consoles -> Seq(Tasks)]
         /\ call' = [u \in Tasks |-> call'[u]] /\ \A u \in Tasks : IsCall(call'[u])
         /\ \A u \in Tasks : call'[u] = IF u = t THEN Read(c, left, NO_CHAR) ELSE call[u]
<1>1. Append(kbd_queue[c], t) \in Seq(Tasks)
  BY AppendProperties DEF TypeOK
<1>2. kbd_queue' \in [Consoles -> Seq(Tasks)]
  BY <1>1 DEF Wait, TypeOK
<1>3. IsCall(Read(c, left, NO_CHAR))
  BY CallForms
<1>4. call' = [call EXCEPT ![t] = Read(c, left, NO_CHAR)]
  BY DEF Wait
<1>5. QED
  BY <1>2, <1>3, <1>4, OneCall

LEMMA ReadType ==
  ASSUME TypeOK, world' = world, NEW t \in Tasks, ReadGoesOn(t)
  PROVE  TypeOK'
<1>1. call[t].con \in Consoles
  BY CallForms DEF ReadGoesOn, Woken, Reading, TypeOK, IsCall, NoCall, Unborn, NONE
<1>2. CASE call' = [call EXCEPT ![t] = NoCall] /\ kbd_queue' = kbd_queue
  <2>1. call' = [u \in Tasks |-> call'[u]] /\ \A u \in Tasks : IsCall(call'[u])
    BY <1>2, CallForms, OneCall
  <2>2. QED
    BY <1>2, <2>1 DEF ReadGoesOn, ring, shown, TypeOK
<1>3. ASSUME NEW left, Wait(t, call[t].con, left)
      PROVE  TypeOK'
  <2>1. /\ kbd_queue' \in [Consoles -> Seq(Tasks)]
        /\ call' = [u \in Tasks |-> call'[u]] /\ \A u \in Tasks : IsCall(call'[u])
    BY <1>1, <1>3, WaitType
  <2>2. QED
    BY <2>1 DEF ReadGoesOn, ring, shown, TypeOK
<1>4. QED
  BY <1>2, <1>3 DEF ReadGoesOn

(* The readers' notes; and the wake-up, which takes the first reader off   *)
(* the queue.                                                              *)
LEMMA NotedType ==
  ASSUME TypeOK, NEW typed, call' = Noted(typed)
  PROVE  /\ call' = [u \in Tasks |-> call'[u]] /\ \A u \in Tasks : IsCall(call'[u])
         /\ \A u \in Tasks :
              IF Reading(u)
              THEN /\ call[u].con \in Consoles
                   /\ call'[u] = Read(call[u].con, call[u].left, typed)
              ELSE call'[u] = call[u]
<1>1. \A u \in Tasks :
        call'[u] = IF Reading(u) THEN Read(call[u].con, call[u].left, typed) ELSE call[u]
  BY DEF Noted
<1>2. \A u \in Tasks : Reading(u) => call[u].con \in Consoles
  BY CallForms DEF TypeOK, Reading, IsCall, NoCall, Unborn, NONE
<1>3. \A u \in Tasks : IsCall(call'[u])
  <2> SUFFICES ASSUME NEW u \in Tasks PROVE IsCall(call'[u])
    OBVIOUS
  <2>1. CASE Reading(u)
    <3>1. IsCall(Read(call[u].con, call[u].left, typed))
      BY <1>2, <2>1, CallForms
    <3>2. QED
      BY <1>1, <2>1, <3>1
  <2>2. CASE ~ Reading(u)
    <3>1. call'[u] = call[u]
      BY <1>1, <2>2
    <3>2. QED
      BY <3>1 DEF TypeOK
  <2>3. QED
    BY <2>1, <2>2
<1>4. call' = [u \in Tasks |-> call'[u]]
  BY DEF Noted
<1>5. QED
  BY <1>1, <1>2, <1>3, <1>4

LEMMA WakeType ==
  ASSUME TypeOK, NEW c \in Consoles, WakeReader(c)
  PROVE  /\ kbd_queue' \in [Consoles -> Seq(Tasks)]
         /\ kbd_queue[c] # <<>> =>
              /\ Head(kbd_queue[c]) \in Tasks
              /\ kbd_queue' = [kbd_queue EXCEPT ![c] = Tail(kbd_queue[c])]
<1>1. CASE kbd_queue[c] = <<>>
  BY <1>1 DEF WakeReader, TypeOK
<1>2. CASE kbd_queue[c] # <<>>
  <2>1. Head(kbd_queue[c]) \in Tasks /\ Tail(kbd_queue[c]) \in Seq(Tasks)
    BY <1>2, HeadTailProperties DEF TypeOK
  <2>2. kbd_queue' = [kbd_queue EXCEPT ![c] = Tail(kbd_queue[c])]
    BY <1>2 DEF WakeReader
  <2>3. QED
    BY <2>1, <2>2 DEF TypeOK
<1>3. QED
  BY <1>1, <1>2

LEMMA HandlerType ==
  ASSUME TypeOK, world' = world, keyboard_handler
  PROVE  TypeOK'
<1>1. current \in Consoles /\ prev[current] \in Consoles /\ next[current] \in Consoles
  BY DEF keyboard_handler, TypeOK
<1>2. klass' = klass /\ prev' = prev /\ next' = next /\ fds' = fds
  BY DEF keyboard_handler, ring
<1>3. current' \in Consoles
  <2>1. current' \in {current, prev[current], next[current]}
    BY DEF keyboard_handler, switch_console, shown
  <2>2. QED
    BY <1>1, <2>1
<1>4. /\ kbd_queue' \in [Consoles -> Seq(Tasks)]
      /\ call' = [u \in Tasks |-> call'[u]] /\ \A u \in Tasks : IsCall(call'[u])
  <2>1. kbd_queue' \in [Consoles -> Seq(Tasks)]
    <3>1. kbd_queue' = kbd_queue \/ WakeReader(current)
      BY DEF keyboard_handler
    <3>2. QED
      BY <1>1, <3>1, WakeType DEF TypeOK
  <2>2. QED
    BY <2>1, NotedType DEF keyboard_handler
<1>5. QED
  BY <1>2, <1>3, <1>4 DEF TypeOK

LEMMA TypeKept ==
  ASSUME TypeOK, [Next]_vars
  PROVE  TypeOK'
<1>1. CASE UNCHANGED vars
  BY <1>1 DEF TypeOK, vars, ring, shown
<1> SUFFICES ASSUME Next PROVE TypeOK'
  BY <1>1
<1>2. world' = world
  BY DEF Next
<1>3. ASSUME NEW t \in Tasks, NEW c \in Consoles, con_write(t, c)
      PROVE  TypeOK'
  BY <1>2, <1>3 DEF con_write, TypeOK, ring
<1>4. ASSUME NEW t \in Tasks, NEW c \in Consoles, NEW size, con_read(t, c, size)
      PROVE  TypeOK'
  <2>1. /\ kbd_queue' \in [Consoles -> Seq(Tasks)]
        /\ call' = [u \in Tasks |-> call'[u]] /\ \A u \in Tasks : IsCall(call'[u])
    BY <1>4, WaitType DEF con_read
  <2>2. QED
    BY <1>2, <1>4, <2>1 DEF con_read, TypeOK, ring, shown
<1>5. ASSUME NEW t \in Tasks, CloseGoesOn(t)
      PROVE  TypeOK'
  <2>1. call' = [u \in Tasks |-> call'[u]] /\ \A u \in Tasks : IsCall(call'[u])
    BY <1>5, CallForms, OneCall DEF CloseGoesOn
  <2>2. QED
    BY <1>2, <1>5, <2>1 DEF CloseGoesOn, TypeOK, shown
<1>6. ASSUME NEW t \in Tasks, NEW child \in Tasks, Fork(t, child)
      PROVE  TypeOK'
  <2>1. call' = [u \in Tasks |-> call'[u]] /\ \A u \in Tasks : IsCall(call'[u])
    BY <1>6, CallForms, OneCall DEF Fork
  <2>2. fds' \in [Tasks -> SUBSET Consoles]
    BY <1>6 DEF Fork, TypeOK
  <2>3. QED
    BY <1>2, <1>6, <2>1, <2>2 DEF Fork, TypeOK, ring, shown
<1>7. ASSUME NEW key, Press(key) \/ Release(key)
      PROVE  TypeOK'
  BY <1>2, <1>7 DEF Press, Release, TypeOK, ring, shown
<1>8. QED
  BY <1>2, <1>3, <1>4, <1>5, <1>6, <1>7, OpenType, FlushType, ReadType, HandlerType
     DEF Next, Call, Typist

-----------------------------------------------------------------------------
LEMMA CircleOf ==
  ASSUME NEW n \in Nat, NEW f \in [0 .. n - 1 -> Consoles], Rounds(f, n, Open', next', prev')
  PROVE  Circle'
<1>1. Lists(f, n)'
  BY DEF Rounds, Lists
<1>2. QED
  BY <1>1 DEF Circle

LEMMA SameRing ==
  ASSUME Circle, UNCHANGED <<prev, next>>, Open' = Open
  PROVE  Circle'
<1>1. PICK n \in Nat : \E f \in [0 .. n - 1 -> Consoles] : Lists(f, n)
  BY DEF Circle
<1>2. PICK f \in [0 .. n - 1 -> Consoles] : Lists(f, n)
  BY <1>1
<1>3. Rounds(f, n, Open', next', prev')
  BY <1>2 DEF Rounds, Lists
<1>4. QED
  BY <1>3, CircleOf

(* The links of a console that is opened (con.c:172-182): alone, or behind *)
(* the one with the focus.                                                 *)
LEMMA FirstLinks ==
  ASSUME TypeOK, NEW c \in Consoles, current = NULL, Open = {}, Open' = {c},
         add_console_after_current(c)
  PROVE  /\ [k \in 0 .. 1 - 1 |-> c] \in [0 .. 1 - 1 -> Consoles]
         /\ Rounds([k \in 0 .. 1 - 1 |-> c], 1, Open', next', prev')
<1>1. prev'[c] = c /\ next'[c] = c
  BY DEF add_console_after_current, TypeOK
<1> DEFINE g == [k \in 0 .. 1 - 1 |-> c]
<1>2. g \in [0 .. 1 - 1 -> Consoles] /\ g[0] = c /\ \A k \in 0 .. 1 - 1 : k = 0 /\ g[k] = c
  OBVIOUS
<1> HIDE DEF g
<1>3. Rounds(g, 1, Open', next', prev')
  BY <1>1, <1>2 DEF Rounds, Succ
<1>4. QED
  BY <1>2, <1>3 DEF g

LEMMA OpenLinks ==
  ASSUME TypeOK, NEW n \in Nat, NEW f \in [0 .. n - 1 -> Consoles],
         Rounds(f, n, Open, next, prev), NEW p \in 0 .. n - 1, f[p] = current,
         NEW c \in Consoles, c \notin Open, Open' = Open \cup {c}, add_console_after_current(c)
  PROVE  /\ Inserted(f, n, p, c) \in [0 .. n -> Consoles]
         /\ Rounds(Inserted(f, n, p, c), n + 1, Open', next', prev')
<1>1. current \in Consoles /\ next[current] \in Consoles /\ current # NULL
  BY ConsoleAssumption DEF TypeOK, Consoles, NULL
<1>2. /\ prev' = [prev EXCEPT ![c] = current, ![next[current]] = c]
      /\ next' = [next EXCEPT ![c] = next[current], ![current] = c]
  BY <1>1 DEF add_console_after_current
<1>3. Joins(c, f[p], Open, next, prev, Open', next', prev')
  BY <1>1, <1>2 DEF TypeOK, Joins
<1>4. QED
  BY <1>3, LinkAfter

(* A console that is opened joins the circle behind the one with the focus *)
(* (con.c:99-102).                                                         *)
LEMMA OpenRing ==
  ASSUME TypeOK, RingInv, NEW t \in Tasks, NEW c \in Consoles, con_open(t, c)
  PROVE  RingInv'
<1>1. c \notin Open /\ klass[c] = NONE
  BY DEF con_open, ToOpen, RingInv, NONE
<1>2. /\ fds' = [fds EXCEPT ![t] = @ \cup {c}] /\ call' = call /\ AtRest(t)
      /\ klass' = [klass EXCEPT ![c] = "console"] /\ current' = c
      /\ add_console_after_current(c)
  BY DEF con_open, switch_console
<1>3. Open' = Open \cup {c}
  BY <1>2 DEF Open, TypeOK
<1>4. PICK n \in Nat : \E f \in [0 .. n - 1 -> Consoles] : Lists(f, n)
  BY DEF RingInv, Circle
<1>5. PICK f \in [0 .. n - 1 -> Consoles] : Lists(f, n)
  BY <1>4
<1>6. Circle'
  <2>1. CASE current = NULL
    <3>1. Open = {}
      BY <2>1, ConsoleAssumption DEF RingInv, NULL, Open, TypeOK, Consoles
    <3>2. QED
      BY <1>2, <1>3, <2>1, <3>1, FirstLinks, CircleOf
  <2>2. CASE current # NULL
    <3>1. current \in Consoles /\ current \in Open
      BY <2>2 DEF RingInv, TypeOK
    <3>2. PICK p \in 0 .. n - 1 : f[p] = current
      BY <1>5, <3>1 DEF Lists
    <3>3. Rounds(f, n, Open, next, prev)
      BY <1>5 DEF Rounds, Lists
    <3> DEFINE g == Inserted(f, n, p, c)
    <3>4. g \in [0 .. n -> Consoles] /\ Rounds(g, n + 1, Open', next', prev')
      BY <1>1, <1>2, <1>3, <3>2, <3>3, OpenLinks
    <3> HIDE DEF g
    <3>5. n + 1 \in Nat /\ (n + 1) - 1 = n
      OBVIOUS
    <3>6. QED
      BY <3>4, <3>5, CircleOf
  <2>3. QED
    BY <2>1, <2>2
<1>7. \A u \in Tasks : call'[u] = Unborn => fds'[u] = {}
  BY <1>2, CallForms DEF RingInv, AtRest, TypeOK
<1>8. \A d \in Open' : klass'[d] = "console"
  BY <1>2, <1>3 DEF RingInv, TypeOK, Open
<1>9. \A u \in Tasks : Closing(u)' => call'[u].con \notin Open' /\ klass'[call'[u].con] = "console"
  <2>1. \A u \in Tasks : Closing(u) => call[u].con \in Consoles /\ call[u].con # c
    BY <1>1, CallForms DEF RingInv, TypeOK, IsCall, Closing, NONE
  <2>2. QED
    BY <1>2, <1>3, <2>1 DEF RingInv, TypeOK, Closing
<1>10. \A u, v \in Tasks : Closing(u)' /\ Closing(v)' /\ call'[u].con = call'[v].con => u = v
  BY <1>2 DEF RingInv, Closing
<1>11. current' \in Open'
  BY <1>2, <1>3
<1>12. QED
  BY <1>6, <1>7, <1>8, <1>9, <1>10, <1>11 DEF RingInv

(* The links when a console closes for good: the one that is alone keeps   *)
(* its own, and any other is left out.                                     *)
LEMMA LastLinks ==
  ASSUME TypeOK, NEW f \in [0 .. 1 - 1 -> Consoles], NEW c, f[0] = c,
         Rounds(f, 1, Open, next, prev)
  PROVE  prev[c] = c /\ next[c] = c /\ Open = {c}
<1>1. Succ(0, 1) = 0 /\ 0 \in 0 .. 1 - 1 /\ \A k \in 0 .. 1 - 1 : k = 0
  BY DEF Succ
<1>2. prev[c] = c /\ next[c] = c
  BY <1>1 DEF Rounds
<1>3. Open \subseteq Consoles /\ c \in Consoles
  BY <1>2 DEF Open, TypeOK
<1>4. \A d \in Consoles : d \in Open <=> d = c
  BY <1>1 DEF Rounds
<1>5. QED
  BY <1>2, <1>3, <1>4

RemovedAt(f, n, p, q, c) ==
  /\ TypeOK /\ n \in Nat /\ f \in [0 .. n - 1 -> Consoles] /\ n > 1
  /\ Rounds(f, n, Open, next, prev) /\ p \in 0 .. n - 1 /\ c \in Consoles /\ f[p] = c
  /\ q = IF p = 0 THEN n - 1 ELSE p - 1
  /\ Open' = Open \ {c} /\ remove_console(c)

LEMMA RemoveLinks ==
  ASSUME NEW f, NEW n, NEW p, NEW q, NEW c, RemovedAt(f, n, p, q, c)
  PROVE  /\ q \in 0 .. n - 1 /\ prev[c] = f[q] /\ prev[c] # c
         /\ Without(f, n, p) \in [0 .. n - 2 -> Consoles]
         /\ Rounds(Without(f, n, p), n - 1, Open', next', prev')
<1>1. /\ TypeOK /\ n \in Nat /\ f \in [0 .. n - 1 -> Consoles] /\ n > 1
      /\ Rounds(f, n, Open, next, prev) /\ p \in 0 .. n - 1 /\ c \in Consoles /\ f[p] = c
      /\ q = IF p = 0 THEN n - 1 ELSE p - 1
      /\ Open' = Open \ {c} /\ remove_console(c)
  BY DEF RemovedAt
<1>2. q \in 0 .. n - 1 /\ q # p /\ Succ(q, n) = p
  BY <1>1 DEF Succ
<1>3. prev[c] = f[q] /\ f[q] # c /\ f[q] \in Consoles /\ c \in Consoles
  BY <1>1, <1>2 DEF Rounds
<1>4. /\ next' = [next EXCEPT ![prev[c]] = next[c]]
      /\ prev' = [prev EXCEPT ![next[c]] = prev[c]]
  BY <1>1, <1>3 DEF remove_console
<1>5. Leaves(f[p], Open, next, prev, Open', next', prev')
  BY <1>1, <1>3, <1>4 DEF Leaves, TypeOK
<1>6. QED
  BY <1>1, <1>2, <1>3, <1>5, Unlink

(* What the last close of a console does to the circle: where it was alone *)
(* its links stay, and otherwise the one before it is still on the circle. *)
LEMMA RemoveRing ==
  ASSUME TypeOK, Circle, NEW c \in Open, remove_console(c), Open' = Open \ {c}
  PROVE  /\ Circle'
         /\ IF prev[c] = c /\ next[c] = c THEN Open' = {} ELSE prev[c] \in Open'
<1>1. PICK n \in Nat : \E f \in [0 .. n - 1 -> Consoles] : Lists(f, n)
  BY DEF Circle
<1>2. PICK f \in [0 .. n - 1 -> Consoles] : Lists(f, n)
  BY <1>1
<1>3. c \in Consoles /\ Open \subseteq Consoles
  BY DEF Open, TypeOK
<1>4. PICK p \in 0 .. n - 1 : f[p] = c
  BY <1>2, <1>3 DEF Lists
<1>5. Rounds(f, n, Open, next, prev)
  BY <1>2 DEF Rounds, Lists
<1>6. CASE n = 1
  <2>1. f \in [0 .. 1 - 1 -> Consoles] /\ f[0] = c /\ Rounds(f, 1, Open, next, prev)
    BY <1>4, <1>5, <1>6
  <2>2. prev[c] = c /\ next[c] = c /\ Open' = {}
    BY <2>1, LastLinks
  <2> DEFINE g == [k \in 0 .. 0 - 1 |-> c]
  <2>3. 0 .. 0 - 1 = {} /\ g \in [0 .. 0 - 1 -> Consoles]
    OBVIOUS
  <2>4. Rounds(g, 0, Open', next', prev')
    BY <2>2, <2>3 DEF Rounds
  <2>5. Circle'
    BY <2>3, <2>4, CircleOf
  <2>6. QED
    BY <2>2, <2>5
<1>7. CASE n > 1
  <2> DEFINE q == IF p = 0 THEN n - 1 ELSE p - 1
             g == Without(f, n, p)
  <2>1. RemovedAt(f, n, p, q, c)
    BY <1>3, <1>4, <1>5, <1>7 DEF RemovedAt
  <2> HIDE DEF q
  <2>2. /\ q \in 0 .. n - 1 /\ prev[c] = f[q] /\ prev[c] # c
        /\ g \in [0 .. n - 2 -> Consoles] /\ Rounds(g, n - 1, Open', next', prev')
    BY <2>1, RemoveLinks
  <2>3. prev[c] \in Open'
    <3>1. q \in 0 .. n - 1 /\ f[q] \in Consoles
      BY <2>2
    <3>2. QED
      BY <1>5, <2>2, <3>1 DEF Rounds
  <2> HIDE DEF g
  <2>4. n - 1 \in Nat /\ (n - 1) - 1 = n - 2
    BY <1>7
  <2>5. Circle'
    BY <2>2, <2>4, CircleOf
  <2>6. QED
    BY <2>2, <2>3, <2>5
<1>8. QED
  BY <1>6, <1>7

LEMMA FlushRing ==
  ASSUME TypeOK, RingInv, NEW t \in Tasks, NEW c \in Consoles, con_flush(t, c)
  PROVE  RingInv'
<1>1. /\ c \in fds[t] /\ AtRest(t) /\ fds' = [fds EXCEPT ![t] = @ \ {c}]
      /\ c \in Open /\ Open \subseteq Consoles
  BY DEF con_flush, Open, TypeOK
<1>2. \A u \in Tasks : fds'[u] = IF u = t THEN fds[t] \ {c} ELSE fds[u]
  BY <1>1 DEF TypeOK
<1>3. call[t] # Unborn /\ ~ Closing(t)
  BY <1>1, CallForms DEF AtRest, Closing
<1>4. ASSUME NEW u \in Tasks \ {t}, c \in fds[u], UNCHANGED <<ring, shown, call>>
      PROVE  RingInv'
  <2>1. Open' = Open
    <3>1. \A d : d \in Open' <=> d \in Open
      BY <1>2, <1>4 DEF Open
    <3>2. QED
      BY <3>1
  <2>2. Circle'
    BY <1>4, <2>1, SameRing DEF RingInv, ring
  <2>3. \A v \in Tasks : call[v] = Unborn => fds'[v] = {}
    BY <1>2, <1>3 DEF RingInv
  <2>4. QED
    BY <1>4, <2>1, <2>2, <2>3 DEF RingInv, ring, shown, Closing
<1>5. ASSUME \A u \in Tasks \ {t} : c \notin fds[u], remove_console(c)
      PROVE  RingInv'
  <2>1. Open' = Open \ {c}
    <3>1. \A d : d \in Open' <=> d \in Open /\ d # c
      BY <1>2, <1>5 DEF Open
    <3>2. QED
      BY <3>1
  <2>2. /\ Circle'
        /\ IF prev[c] = c /\ next[c] = c THEN Open' = {} ELSE prev[c] \in Open'
    BY <1>1, <1>5, <2>1, RemoveRing DEF RingInv
  <2>3. \A v \in Tasks : call[v] = Unborn => fds'[v] = {}
    BY <1>2, <1>3 DEF RingInv
  <2>4. \A v \in Tasks : Closing(v) => call[v].con \notin Open' /\ call[v].con # c
    BY <1>1, <2>1 DEF RingInv
  <2>5. current \in Open
    BY <1>1 DEF RingInv
  <2>6. CASE klass' = [klass EXCEPT ![c] = NONE] /\ call' = call /\ current' \in Open'
    <3>1. \A d \in Consoles \ {c} : klass'[d] = klass[d]
      BY <2>6 DEF TypeOK
    <3>2. \A d \in Open' : klass'[d] = "console"
      BY <1>1, <2>1, <3>1 DEF RingInv
    <3>3. \A v \in Tasks : Closing(v) => klass'[call[v].con] = "console"
      <4>1. \A v \in Tasks : Closing(v) => call[v].con \in Consoles \ {c}
        BY <2>4, CallForms DEF TypeOK, IsCall, Closing
      <4>2. QED
        BY <3>1, <4>1 DEF RingInv
    <3>4. QED
      BY <2>2, <2>3, <2>4, <2>6, <3>2, <3>3 DEF RingInv, Closing
  <2>7. CASE /\ call' = [call EXCEPT ![t] = Close(c)] /\ klass' = klass
             /\ prev[c] = c /\ next[c] = c /\ current' = NULL
    <3>1. \A v \in Tasks : call'[v] = IF v = t THEN Close(c) ELSE call[v]
      BY <2>7 DEF TypeOK
    <3>2. klass[c] = "console" /\ Open' = {} /\ c \notin Open'
      BY <1>1, <2>1, <2>2, <2>7 DEF RingInv
    <3>3. \A v \in Tasks : call'[v] = Unborn => fds'[v] = {}
      BY <2>3, <3>1, CallForms
    <3>4. \A v \in Tasks : Closing(v)' =>
            call'[v].con \notin Open' /\ klass'[call'[v].con] = "console"
      BY <2>4, <2>7, <3>1, <3>2, CallForms DEF RingInv, Closing
    <3>5. \A v, w \in Tasks : Closing(v)' /\ Closing(w)' /\ call'[v].con = call'[w].con => v = w
      BY <2>4, <3>1, CallForms DEF RingInv, Closing
    <3>6. QED
      BY <2>2, <2>7, <3>2, <3>3, <3>4, <3>5 DEF RingInv
  <2>8. CASE c # current /\ klass' = [klass EXCEPT ![c] = NONE] /\ call' = call
             /\ current' = current
    <3>1. current' \in Open'
      BY <2>1, <2>5, <2>8
    <3>2. QED
      BY <2>6, <2>8, <3>1
  <2>9. CASE /\ ~ (prev[c] = c /\ next[c] = c)
             /\ klass' = [klass EXCEPT ![c] = NONE] /\ call' = call /\ current' = prev[c]
    BY <2>2, <2>6, <2>9
  <2>10. \/ /\ c # current /\ klass' = [klass EXCEPT ![c] = NONE] /\ call' = call
            /\ current' = current
         \/ /\ ~ (prev[c] = c /\ next[c] = c)
            /\ klass' = [klass EXCEPT ![c] = NONE] /\ call' = call /\ current' = prev[c]
         \/ /\ call' = [call EXCEPT ![t] = Close(c)] /\ klass' = klass
            /\ prev[c] = c /\ next[c] = c /\ current' = NULL
    BY <1>5 DEF con_flush, shown, ring, switch_console
  <2>11. QED
    BY <2>7, <2>8, <2>9, <2>10
<1>6. QED
  BY <1>4, <1>5 DEF con_flush

(* The neighbours of a console on the circle are on it. *)
LEMMA Neighbours ==
  ASSUME Circle, NEW c \in Open, Open \subseteq Consoles
  PROVE  next[c] \in Open /\ prev[c] \in Open
<1>1. PICK n \in Nat : \E f \in [0 .. n - 1 -> Consoles] : Lists(f, n)
  BY DEF Circle
<1>2. PICK f \in [0 .. n - 1 -> Consoles] : Lists(f, n)
  BY <1>1
<1>3. PICK p \in 0 .. n - 1 : f[p] = c
  BY <1>2 DEF Lists
<1> DEFINE q == IF p = 0 THEN n - 1 ELSE p - 1
<1>4. q \in 0 .. n - 1 /\ Succ(q, n) = p /\ Succ(p, n) \in 0 .. n - 1
  BY DEF Succ
<1>5. next[c] = f[Succ(p, n)] /\ prev[c] = f[q]
  BY <1>2, <1>3, <1>4 DEF Lists
<1> HIDE DEF q
<1>6. \A k \in 0 .. n - 1 : f[k] \in Open
  BY <1>2 DEF Lists
<1>7. QED
  BY <1>4, <1>5, <1>6

LEMMA CloseRing ==
  ASSUME TypeOK, RingInv, NEW t \in Tasks, CloseGoesOn(t)
  PROVE  RingInv'
<1> DEFINE d == call[t].con
<1>1. /\ Closing(t) /\ klass' = [klass EXCEPT ![d] = NONE]
      /\ call' = [call EXCEPT ![t] = NoCall]
      /\ UNCHANGED <<prev, next, current, fds>> /\ Open' = Open
  BY DEF CloseGoesOn, Closing, shown, Open
<1>2. d \in Consoles /\ d \notin Open
  BY <1>1, CallForms DEF RingInv, TypeOK, IsCall, Closing
<1>3. \A v \in Tasks : call'[v] = IF v = t THEN NoCall ELSE call[v]
  BY <1>1 DEF TypeOK
<1> HIDE DEF d
<1>4. \A c \in Consoles : c # d => klass'[c] = klass[c]
  BY <1>1 DEF TypeOK
<1>5. Circle'
  BY <1>1, SameRing DEF RingInv
<1>6. \A c \in Open' : klass'[c] = "console"
  BY <1>1, <1>2, <1>4 DEF RingInv, TypeOK, Open
<1>7. \A v \in Tasks : call'[v] = Unborn => fds'[v] = {}
  BY <1>1, <1>3, CallForms DEF RingInv
<1>8. \A v \in Tasks : Closing(v)' => v # t /\ Closing(v) /\ call'[v] = call[v]
  BY <1>3, CallForms DEF Closing
<1>9. \A v \in Tasks : Closing(v)' => klass'[call'[v].con] = "console"
  <2> SUFFICES ASSUME NEW v \in Tasks, Closing(v)'
               PROVE  klass'[call'[v].con] = "console"
    OBVIOUS
  <2>1. v # t /\ Closing(v) /\ call'[v] = call[v]
    BY <1>8
  <2>2. call[v].con \in Consoles
    BY <2>1, CallForms DEF TypeOK, IsCall, Closing
  <2>3. call[v].con # d
    BY <1>1, <2>1 DEF RingInv, d
  <2>4. QED
    BY <1>4, <2>1, <2>2, <2>3 DEF RingInv
<1>10. \A v \in Tasks : Closing(v)' => call'[v].con \notin Open'
  BY <1>1, <1>8 DEF RingInv
<1>11. \A v, w \in Tasks : Closing(v)' /\ Closing(w)' /\ call'[v].con = call'[w].con => v = w
  BY <1>8 DEF RingInv
<1>12. QED
  BY <1>1, <1>5, <1>6, <1>7, <1>9, <1>10, <1>11 DEF RingInv

LEMMA ForkOpen ==
  ASSUME TypeOK, RingInv, NEW t \in Tasks, NEW child \in Tasks, Fork(t, child)
  PROVE  Open' = Open
<1>1. fds' = [fds EXCEPT ![child] = fds[t]] /\ call[child] = Unborn
  BY DEF Fork, Born
<1>2. fds[child] = {}
  BY <1>1 DEF RingInv
<1>3. \A v \in Tasks : fds'[v] = IF v = child THEN fds[t] ELSE fds[v]
  BY <1>1 DEF TypeOK
<1>4. \A c : c \in Open' <=> c \in Open
  BY <1>2, <1>3 DEF Open
<1>5. QED
  BY <1>4

LEMMA ForkRing ==
  ASSUME TypeOK, RingInv, NEW t \in Tasks, NEW child \in Tasks, Fork(t, child)
  PROVE  RingInv'
<1>1. /\ fds' = [fds EXCEPT ![child] = fds[t]] /\ call' = [call EXCEPT ![child] = NoCall]
      /\ UNCHANGED <<klass, prev, next, current>> /\ Open' = Open
  BY ForkOpen DEF Fork, ring, shown
<1>2. \A v \in Tasks : fds'[v] = IF v = child THEN fds[t] ELSE fds[v]
  BY <1>1 DEF TypeOK
<1>3. \A v \in Tasks : call'[v] = IF v = child THEN NoCall ELSE call[v]
  BY <1>1 DEF TypeOK
<1>4. Circle'
  BY <1>1, SameRing DEF RingInv
<1>5. \A v \in Tasks : call'[v] = Unborn => fds'[v] = {}
  BY <1>2, <1>3, CallForms DEF RingInv
<1>6. \A v \in Tasks : Closing(v)' => Closing(v) /\ call'[v] = call[v]
  BY <1>3, CallForms DEF Closing
<1>7. QED
  BY <1>1, <1>4, <1>5, <1>6 DEF RingInv

(* Calls other than close change while the rest of the circle stays. *)
LEMMA CallRing ==
  ASSUME RingInv, UNCHANGED <<klass, prev, next, fds>>,
         current' = current \/ (current \in Open /\ current' \in Open),
         \A t \in Tasks : call'[t] = call[t] \/ (call'[t] # Unborn /\ call'[t].op # "close")
  PROVE  RingInv'
<1>1. Open' = Open
  BY DEF Open
<1>2. Circle'
  BY <1>1, SameRing DEF RingInv
<1>3. \A v \in Tasks : Closing(v)' => Closing(v) /\ call'[v] = call[v]
  BY DEF Closing
<1>4. \A v \in Tasks : call'[v] = Unborn => fds'[v] = {}
  BY DEF RingInv
<1>5. IF Open' = {} THEN current' = NULL ELSE current' \in Open'
  BY <1>1 DEF RingInv
<1>6. QED
  BY <1>1, <1>2, <1>3, <1>4, <1>5 DEF RingInv

LEMMA HandlerRing ==
  ASSUME TypeOK, RingInv, keyboard_handler
  PROVE  RingInv'
<1>1. UNCHANGED <<klass, prev, next, fds>> /\ current \in Consoles
  BY DEF keyboard_handler, ring, TypeOK
<1>2. current \in Open /\ Open \subseteq Consoles
  BY <1>1, ConsoleAssumption DEF RingInv, NULL, Consoles, Open, TypeOK
<1>3. current' \in {current, prev[current], next[current]}
  BY DEF keyboard_handler, switch_console, shown
<1>4. current' \in Open
  BY <1>2, <1>3, Neighbours DEF RingInv
<1>5. \A t \in Tasks : call'[t] = call[t] \/ (call'[t] # Unborn /\ call'[t].op # "close")
  <2> SUFFICES ASSUME NEW t \in Tasks, call'[t] # call[t]
               PROVE  call'[t] # Unborn /\ call'[t].op # "close"
    OBVIOUS
  <2> DEFINE typed == Char(Head(wire), down \cap Shifts # {})
  <2>1. call' = Noted(typed)
    BY DEF keyboard_handler
  <2> HIDE DEF typed
  <2>2. /\ call[t].con \in Consoles
        /\ call'[t] = Read(call[t].con, call[t].left, typed)
    BY <2>1, NotedType
  <2>3. QED
    BY <2>2, CallForms
<1>6. QED
  BY <1>1, <1>2, <1>4, <1>5, CallRing

LEMMA RingKept ==
  ASSUME TypeOK, RingInv, [Next]_vars
  PROVE  RingInv'
<1>1. CASE UNCHANGED <<ring, current, fds, call>>
  BY <1>1, CallRing DEF ring
<1>2. ASSUME NEW t \in Tasks, NEW c \in Consoles, con_write(t, c)
      PROVE  UNCHANGED <<ring, current, fds, call>>
  BY <1>2 DEF con_write
<1>3. ASSUME NEW t \in Tasks, NEW c \in Consoles, NEW size, con_read(t, c, size)
      PROVE  RingInv'
  <2>1. \A u \in Tasks : call'[u] = IF u = t THEN Read(c, size, NO_CHAR) ELSE call[u]
    BY <1>3, WaitType DEF con_read
  <2>2. UNCHANGED <<klass, prev, next, current, fds>>
    BY <1>3 DEF con_read, ring, shown
  <2>3. QED
    BY <2>1, <2>2, CallRing, CallForms
<1>4. ASSUME NEW t \in Tasks, ReadGoesOn(t)
      PROVE  RingInv'
  <2>1. UNCHANGED <<klass, prev, next, current, fds>>
    BY <1>4 DEF ReadGoesOn, ring, shown
  <2>2. call[t].con \in Consoles
    BY <1>4, CallForms DEF ReadGoesOn, Woken, Reading, TypeOK, IsCall, NoCall, Unborn, NONE
  <2>3. \A u \in Tasks : call'[u] = call[u] \/ (call'[u] # Unborn /\ call'[u].op # "close")
    <3>1. CASE call' = [call EXCEPT ![t] = NoCall]
      BY <3>1, CallForms DEF TypeOK
    <3>2. ASSUME NEW left, Wait(t, call[t].con, left)
          PROVE  \A u \in Tasks : call'[u] = call[u]
                                   \/ (call'[u] # Unborn /\ call'[u].op # "close")
      BY <2>2, <3>2, WaitType, CallForms
    <3>3. QED
      BY <1>4, <3>1, <3>2 DEF ReadGoesOn
  <2>4. QED
    BY <2>1, <2>3, CallRing
<1>5. ASSUME NEW key, Press(key) \/ Release(key)
      PROVE  UNCHANGED <<ring, current, fds, call>>
  BY <1>5 DEF Press, Release, shown
<1>6. UNCHANGED vars => UNCHANGED <<ring, current, fds, call>>
  BY DEF vars, shown
<1>7. QED
  BY <1>1, <1>2, <1>3, <1>4, <1>5, <1>6, OpenRing, FlushRing, CloseRing, ForkRing, HandlerRing
     DEF Next, Call, Typist

-----------------------------------------------------------------------------
LEMMA WokenIsNotQueued ==
  ASSUME NEW t \in Tasks
  PROVE  /\ Woken(t) <=> Reading(t) /\ ~ Queued(t, call[t].con)
         /\ Woken(t)' <=> Reading(t)' /\ ~ Queued(t, call[t].con)'
  BY DEF Woken, Queued, Contains

LEMMA ReaderOpen ==
  ASSUME TypeOK, RingInv, ReadersInv, NEW t \in Tasks, Reading(t)
  PROVE  call[t].con \in Consoles /\ klass[call[t].con] = "console"
<1>1. call[t].con \in fds[t]
  BY DEF ReadersInv
<1>2. call[t].con \in Open /\ call[t].con \in Consoles
  BY <1>1 DEF Open, TypeOK
<1>3. QED
  BY <1>2 DEF RingInv

(* Steps in which no reader is woken and none starts to wait. *)
LEMMA OthersRead ==
  ASSUME TypeOK, ReadersInv, ReadsAreFresh, UNCHANGED <<kbd_queue, kbd>>,
         \A u \in Tasks : \/ call'[u] = call[u] /\ fds[u] \subseteq fds'[u]
                          \/ call'[u].op # "read" /\ \A c \in Consoles : ~ Queued(u, c)
  PROVE  (ReadersInv /\ ReadsAreFresh)'
<1>1. \A u \in Tasks : Reading(u)' => call'[u] = call[u] /\ Reading(u) /\ fds[u] \subseteq fds'[u]
  BY DEF Reading
<1>2. \A u \in Tasks : Reading(u)' => call'[u].con \in fds'[u]
  BY <1>1 DEF ReadersInv
<1>3. \A c \in Consoles, u \in Tasks : Queued(u, c)' <=> Queued(u, c)
  BY DEF Queued
<1>4. \A c \in Consoles, u \in Tasks : Queued(u, c) =>
        Reading(u) /\ call[u].con = c /\ call'[u] = call[u]
  BY DEF ReadersInv
<1>5. ReadersInv'
  BY <1>2, <1>3, <1>4 DEF ReadersInv, Reading
<1>6. \A u \in Tasks : Woken(u)' => Woken(u) /\ call'[u] = call[u]
  BY <1>1 DEF Woken, Contains
<1>7. QED
  BY <1>5, <1>6 DEF ReadsAreFresh

LEMMA OpenReaders ==
  ASSUME TypeOK, RingInv, ReadersInv, ReadsAreFresh,
         NEW t \in Tasks, NEW c \in Consoles, con_open(t, c)
  PROVE  (ReadersInv /\ ReadsAreFresh)'
<1>1. /\ kbd_queue' = [kbd_queue EXCEPT ![c] = <<>>] /\ call' = call /\ kbd' = kbd
      /\ fds' = [fds EXCEPT ![t] = @ \cup {c}] /\ klass[c] = NONE
  BY DEF con_open, keys, ToOpen
<1>2. \A u \in Tasks : Reading(u) => call[u].con \in Consoles /\ call[u].con # c
  BY <1>1, ReaderOpen DEF NONE
<1>3. /\ kbd_queue'[c] = <<>> /\ \A d \in Consoles : d # c => kbd_queue'[d] = kbd_queue[d]
      /\ \A u \in Tasks : fds[u] \subseteq fds'[u]
  BY <1>1 DEF TypeOK
<1>4. \A u \in Tasks : Reading(u)' => call'[u].con \in fds'[u]
  BY <1>1, <1>3 DEF ReadersInv, Reading
<1>5. \A d \in Consoles : \A i, j \in 1 .. Len(kbd_queue'[d]) :
        kbd_queue'[d][i] = kbd_queue'[d][j] => i = j
  BY <1>3 DEF ReadersInv
<1>6. \A d \in Consoles, u \in Tasks : Queued(u, d)' => d # c /\ Queued(u, d)
  BY <1>3 DEF Queued
<1>7. ReadersInv'
  BY <1>1, <1>4, <1>5, <1>6 DEF ReadersInv, Reading
<1>8. \A u \in Tasks : Woken(u)' => Woken(u)
  BY <1>1, <1>2, <1>3 DEF Woken, Reading
<1>9. QED
  BY <1>1, <1>7, <1>8 DEF ReadsAreFresh

(* con_read puts its task at the end of the queue (con.c:110). *)
LEMMA WaitReaders ==
  ASSUME TypeOK, ReadersInv, ReadsAreFresh,
         NEW t \in Tasks, NEW c \in Consoles, NEW left, Wait(t, c, left),
         c \in fds[t], \A d \in Consoles : ~ Queued(t, d), UNCHANGED <<fds, kbd>>
  PROVE  (ReadersInv /\ ReadsAreFresh)'
<1>1. \A u \in Tasks : call'[u] = IF u = t THEN Read(c, left, NO_CHAR) ELSE call[u]
  BY WaitType
<1> DEFINE q == kbd_queue[c]
           q2 == kbd_queue'[c]
<1>2. /\ q \in Seq(Tasks) /\ q2 = Append(q, t)
      /\ \A d \in Consoles : d # c => kbd_queue'[d] = kbd_queue[d]
  BY DEF Wait, TypeOK
<1>3. /\ Len(q) \in Nat /\ Len(q2) = Len(q) + 1 /\ q2[Len(q) + 1] = t
      /\ \A i \in 1 .. Len(q) : q2[i] = q[i]
  BY <1>2, AppendProperties, LenProperties
<1>4. \A i \in 1 .. Len(q) : q[i] # t
  BY DEF Queued
<1>5. \A i, j \in 1 .. Len(q) : q[i] = q[j] => i = j
  BY DEF ReadersInv
<1>6. \A u \in Tasks : Reading(u)' => call'[u].con \in fds'[u]
  BY <1>1, CallForms DEF ReadersInv, Reading
<1>7. \A i, j \in 1 .. Len(q2) : q2[i] = q2[j] => i = j
  <2> HIDE DEF q, q2
  <2> QED BY <1>3, <1>4, <1>5
<1>8. \A d \in Consoles : \A i, j \in 1 .. Len(kbd_queue'[d]) :
        kbd_queue'[d][i] = kbd_queue'[d][j] => i = j
  BY <1>2, <1>7 DEF ReadersInv
<1>9. Queued(t, c)' /\ \A u \in Tasks \ {t} : Queued(u, c)' <=> Queued(u, c)
  <2>1. \A i \in 1 .. Len(q2) : i \in 1 .. Len(q) \/ i = Len(q) + 1
    BY <1>3
  <2>2. Len(q) + 1 \in 1 .. Len(q2) /\ \A i \in 1 .. Len(q) : i \in 1 .. Len(q2)
    BY <1>3
  <2>3. QED
    BY <1>3, <2>1, <2>2 DEF Queued
<1>10. \A d \in Consoles, u \in Tasks : d # c => (Queued(u, d)' <=> Queued(u, d))
  BY <1>2 DEF Queued
<1>11. \A d \in Consoles, u \in Tasks : Queued(u, d)' =>
         \/ u = t /\ d = c
         \/ u # t /\ Queued(u, d)
  BY <1>9, <1>10
<1>12. \A d \in Consoles, u \in Tasks : Queued(u, d)' => Reading(u)' /\ call'[u].con = d
  BY <1>1, <1>11, CallForms DEF ReadersInv, Reading
<1>13. ReadersInv'
  BY <1>6, <1>8, <1>12 DEF ReadersInv
<1>14. \A u \in Tasks : Woken(u)' => u # t /\ Woken(u)
  <2> SUFFICES ASSUME NEW u \in Tasks, Woken(u)'
               PROVE  u # t /\ Woken(u)
    OBVIOUS
  <2>1. Reading(u)' /\ ~ Queued(u, call[u].con)'
    BY WokenIsNotQueued
  <2>2. u # t
    BY <1>1, <1>9, <2>1, CallForms
  <2>3. call'[u] = call[u] /\ Reading(u)
    BY <1>1, <2>1, <2>2 DEF Reading
  <2>4. call[u].con \in Consoles
    BY <2>3 DEF ReadersInv, TypeOK
  <2>5. ~ Queued(u, call[u].con)
    <3> DEFINE d == call[u].con
    <3>1. ~ \E i \in 1 .. Len(kbd_queue'[d]) : kbd_queue'[d][i] = u
      BY <2>1, <2>3 DEF Queued
    <3>2. d \in Consoles
      BY <2>4
    <3> HIDE DEF d
    <3>3. Queued(u, d) => \E i \in 1 .. Len(kbd_queue'[d]) : kbd_queue'[d][i] = u
      <4>1. CASE d = c
        BY <1>9, <2>2, <4>1 DEF Queued
      <4>2. CASE d # c
        BY <1>10, <3>2, <4>2 DEF Queued
      <4>3. QED
        BY <4>1, <4>2
    <3>4. ~ Queued(u, d)
      BY <3>1, <3>3
    <3>5. QED
      BY <3>4 DEF d
  <2>6. QED
    BY <2>2, <2>3, <2>5, WokenIsNotQueued
<1>15. QED
  BY <1>1, <1>13, <1>14 DEF ReadsAreFresh

(* The character noted for the reader is the one the driver finds: no code *)
(* of a modifier has a character, and while others come in the driver's    *)
(* modifiers are the keys that are held (con.c:286-297).                   *)
LEMMA CharTyped ==
  ASSUME WireInv, wire # <<>>
  PROVE  Char(Head(wire), kbd.md_state \cap Shifts # {}) = Char(Head(wire), down \cap Shifts # {})
<1>1. CASE Quiet
  BY <1>1 DEF Quiet
<1>2. CASE Changing
  <2>1. PICK key \in Modifiers, up \in BOOLEAN :
          \/ wire = Codes(key, up)
          \/ wire = <<SC(key, up)>>
    BY <1>2 DEF Changing
  <2>2. wire = <<ESCAPE, SC(key, up)>> \/ wire = <<SC(key, up)>>
    BY <2>1, CodesOfKeys DEF Keys
  <2>3. Head(wire) = ESCAPE \/ Head(wire) = SC(key, up)
    BY <2>2
  <2>4. ESCAPE.key \in NoChar /\ SC(key, up).key \in NoChar
    BY DEF SC, ESCAPE, NoChar, Modifiers, Shifts, Alts
  <2>5. QED
    BY <2>3, <2>4 DEF Char
<1>3. QED
  BY <1>1, <1>2 DEF WireInv

LEMMA HandlerReaders ==
  ASSUME TypeOK, WireInv, ReadersInv, keyboard_handler
  PROVE  (ReadersInv /\ ReadsAreFresh)'
<1> DEFINE typed == Char(Head(wire), down \cap Shifts # {})
<1>1. wire # <<>> /\ fds' = fds /\ call' = Noted(typed) /\ kbd' = update_kbd_state(kbd, Head(wire))
  BY DEF keyboard_handler
<1>2. current \in Consoles
  BY DEF keyboard_handler, TypeOK
<1>3. kbd'.char_buf = typed
  <2>1. kbd'.char_buf = Char(Head(wire), kbd.md_state \cap Shifts # {})
    BY <1>1 DEF update_kbd_state
  <2>2. QED
    BY <1>1, <2>1, CharTyped
<1> HIDE DEF typed
<1>4. \A u \in Tasks :
        IF Reading(u)
        THEN /\ call[u].con \in Consoles
             /\ call'[u] = Read(call[u].con, call[u].left, typed)
        ELSE call'[u] = call[u]
  BY <1>1, NotedType
<1>5. \A u \in Tasks : /\ Reading(u)' <=> Reading(u)
                       /\ Reading(u) => call'[u].con = call[u].con /\ call'[u].typed = typed
  BY <1>4, CallForms DEF Reading
<1>6. ReadsAreFresh'
  BY <1>3, <1>5 DEF ReadsAreFresh, Woken
<1>7. \A u \in Tasks : Reading(u)' => call'[u].con \in fds'[u]
  BY <1>1, <1>5 DEF ReadersInv
<1>8. CASE kbd_queue' = kbd_queue
  <2>1. \A c \in Consoles, u \in Tasks : Queued(u, c)' <=> Queued(u, c)
    BY <1>8 DEF Queued
  <2>2. \A c \in Consoles, u \in Tasks : Queued(u, c)' => Reading(u)' /\ call'[u].con = c
    BY <1>5, <2>1 DEF ReadersInv
  <2>3. \A c \in Consoles : \A i, j \in 1 .. Len(kbd_queue'[c]) :
          kbd_queue'[c][i] = kbd_queue'[c][j] => i = j
    BY <1>8 DEF ReadersInv
  <2>4. QED
    BY <1>6, <1>7, <2>2, <2>3 DEF ReadersInv
<1>9. CASE WakeReader(current) /\ kbd_queue[current] # <<>>
  <2> DEFINE q  == kbd_queue[current]
             q2 == kbd_queue'[current]
  <2>1. q2 = Tail(q) /\ \A d \in Consoles : d # current => kbd_queue'[d] = kbd_queue[d]
    BY <1>2, <1>9, WakeType DEF TypeOK
  <2>2. Len(q) \in Nat /\ Len(q2) = Len(q) - 1 /\ \A i \in 1 .. Len(q2) : q2[i] = q[i + 1]
    <3>1. q \in Seq(Tasks) /\ q # <<>>
      BY <1>2, <1>9 DEF TypeOK
    <3>2. QED
      BY <2>1, <3>1, LenProperties, HeadTailProperties
  <2>3. \A i, j \in 1 .. Len(q) : q[i] = q[j] => i = j
    BY <1>2 DEF ReadersInv
  <2>4. /\ \A i, j \in 1 .. Len(q2) : q2[i] = q2[j] => i = j
        /\ \A u : (\E i \in 1 .. Len(q2) : q2[i] = u) => \E i \in 1 .. Len(q) : q[i] = u
    <3> HIDE DEF q, q2
    <3>1. \A i \in 1 .. Len(q2) : i + 1 \in 1 .. Len(q)
      BY <2>2
    <3>2. QED
      BY <2>2, <2>3, <3>1
  <2>5. \A d \in Consoles, u \in Tasks : Queued(u, d)' => Queued(u, d)
    BY <2>1, <2>4 DEF Queued
  <2>6. \A d \in Consoles, u \in Tasks : Queued(u, d)' => Reading(u)' /\ call'[u].con = d
    BY <1>5, <2>5 DEF ReadersInv
  <2>7. \A d \in Consoles : \A i, j \in 1 .. Len(kbd_queue'[d]) :
          kbd_queue'[d][i] = kbd_queue'[d][j] => i = j
    BY <2>1, <2>4 DEF ReadersInv
  <2>8. QED
    BY <1>6, <1>7, <2>6, <2>7 DEF ReadersInv
<1>10. kbd_queue' = kbd_queue \/ (WakeReader(current) /\ kbd_queue[current] # <<>>)
  BY DEF keyboard_handler, WakeReader
<1>11. QED
  BY <1>8, <1>9, <1>10

LEMMA ReadersKept ==
  ASSUME TypeOK, WireInv, RingInv, ReadersInv, ReadsAreFresh, [Next]_vars
  PROVE  (ReadersInv /\ ReadsAreFresh)'
<1>1. CASE UNCHANGED <<kbd_queue, kbd, fds, call>>
  BY <1>1, OthersRead
<1>2. \A u \in Tasks : AtRest(u) \/ call[u] = Unborn \/ call[u].op = "close"
                      => \A c \in Consoles : ~ Queued(u, c)
  BY CallForms DEF ReadersInv, AtRest, Reading
<1>3. ASSUME NEW t \in Tasks, NEW c \in Consoles, con_write(t, c)
      PROVE  UNCHANGED <<kbd_queue, kbd, fds, call>>
  BY <1>3 DEF con_write, keys
<1>4. ASSUME NEW t \in Tasks, NEW c \in Consoles, NEW size, con_read(t, c, size)
      PROVE  (ReadersInv /\ ReadsAreFresh)'
  <2>1. AtRest(t) /\ c \in fds[t] /\ Wait(t, c, size) /\ UNCHANGED <<fds, kbd>>
    BY <1>4 DEF con_read, keys
  <2>2. QED
    BY <1>2, <2>1, WaitReaders
<1>5. ASSUME NEW t \in Tasks, ReadGoesOn(t)
      PROVE  (ReadersInv /\ ReadsAreFresh)'
  <2>1. UNCHANGED <<fds, kbd>> /\ Reading(t) /\ ~ Queued(t, call[t].con)
    BY <1>5, WokenIsNotQueued DEF ReadGoesOn, keys
  <2>2. call[t].con \in Consoles /\ call[t].con \in fds[t]
    BY <2>1 DEF ReadersInv, TypeOK
  <2>3. \A c \in Consoles : ~ Queued(t, c)
    BY <2>1 DEF ReadersInv
  <2>4. CASE call' = [call EXCEPT ![t] = NoCall] /\ UNCHANGED kbd_queue
    <3>1. \A u \in Tasks : call'[u] = IF u = t THEN NoCall ELSE call[u]
      BY <2>4 DEF TypeOK
    <3>2. \A u \in Tasks : \/ call'[u] = call[u] /\ fds[u] \subseteq fds'[u]
                           \/ call'[u].op # "read" /\ \A c \in Consoles : ~ Queued(u, c)
      BY <2>1, <2>3, <3>1, CallForms
    <3>3. QED
      BY <2>1, <2>4, <3>2, OthersRead
  <2>5. ASSUME NEW left, Wait(t, call[t].con, left)
        PROVE  (ReadersInv /\ ReadsAreFresh)'
    BY <2>1, <2>2, <2>3, <2>5, WaitReaders
  <2>6. QED
    BY <1>5, <2>4, <2>5 DEF ReadGoesOn
<1>6. ASSUME NEW t \in Tasks, NEW c \in Consoles, con_flush(t, c)
      PROVE  (ReadersInv /\ ReadsAreFresh)'
  <2>1. /\ AtRest(t) /\ UNCHANGED <<kbd_queue, kbd>> /\ fds' = [fds EXCEPT ![t] = @ \ {c}]
        /\ call' = call \/ call' = [call EXCEPT ![t] = Close(c)]
    BY <1>6 DEF con_flush, keys
  <2>2. \A u \in Tasks \ {t} : call'[u] = call[u] /\ fds'[u] = fds[u]
    BY <2>1 DEF TypeOK
  <2>3. call'[t].op # "read"
    BY <2>1, CallForms DEF AtRest, TypeOK
  <2>4. QED
    BY <1>2, <2>1, <2>2, <2>3, OthersRead
<1>7. ASSUME NEW t \in Tasks, CloseGoesOn(t)
      PROVE  (ReadersInv /\ ReadsAreFresh)'
  <2>1. /\ call[t].op = "close" /\ UNCHANGED <<kbd_queue, kbd, fds>>
        /\ call' = [call EXCEPT ![t] = NoCall]
    BY <1>7 DEF CloseGoesOn, keys
  <2>2. \A u \in Tasks : call'[u] = IF u = t THEN NoCall ELSE call[u]
    BY <2>1 DEF TypeOK
  <2>3. QED
    BY <1>2, <2>1, <2>2, OthersRead, CallForms
<1>8. ASSUME NEW t \in Tasks, NEW child \in Tasks, Fork(t, child)
      PROVE  (ReadersInv /\ ReadsAreFresh)'
  <2>1. /\ call[child] = Unborn /\ UNCHANGED <<kbd_queue, kbd>>
        /\ call' = [call EXCEPT ![child] = NoCall] /\ fds' = [fds EXCEPT ![child] = fds[t]]
    BY <1>8 DEF Fork, Born, keys
  <2>2. \A u \in Tasks \ {child} : call'[u] = call[u] /\ fds'[u] = fds[u]
    BY <2>1 DEF TypeOK
  <2>3. call'[child].op # "read"
    BY <2>1, CallForms DEF TypeOK
  <2>4. QED
    BY <1>2, <2>1, <2>2, <2>3, OthersRead
<1>9. ASSUME NEW key, Press(key) \/ Release(key)
      PROVE  UNCHANGED <<kbd_queue, kbd, fds, call>>
  BY <1>9 DEF Press, Release
<1>10. UNCHANGED vars => UNCHANGED <<kbd_queue, kbd, fds, call>>
  BY DEF vars, keys
<1>11. QED
  BY <1>1, <1>3, <1>4, <1>5, <1>6, <1>7, <1>8, <1>9, <1>10, OpenReaders, HandlerReaders
     DEF Next, Call, Typist

-----------------------------------------------------------------------------
LEMMA InitHolds ==
  ASSUME Init
  PROVE  IInv /\ ReadersInv /\ ReadsAreFresh
<1>1. TypeOK
  <2>1. call = [t \in Tasks |-> call[t]] /\ \A t \in Tasks : call[t] = NoCall \/ call[t] = Unborn
    BY DEF Init
  <2>2. kbd_queue \in [Consoles -> Seq(Tasks)]
    BY EmptySeq DEF Init
  <2>3. QED
    BY <2>1, <2>2, CallForms DEF Init, TypeOK
<1>2. WireInv
  BY DEF Init, WireInv, Quiet
<1>3. Open = {} /\ \A t \in Tasks : fds[t] = {}
  BY DEF Init, Open
<1>4. Circle
  <2> DEFINE f == [k \in 0 .. 0 - 1 |-> 0]
  <2>1. 0 .. 0 - 1 = {} /\ f \in [0 .. 0 - 1 -> Consoles]
    OBVIOUS
  <2>2. Lists(f, 0)
    BY <1>3, <2>1 DEF Lists
  <2>3. QED
    BY <2>1, <2>2 DEF Circle
<1>5. \A t \in Tasks : ~ Reading(t) /\ ~ Closing(t)
  BY CallForms DEF Init, Reading, Closing
<1>6. RingInv
  BY <1>3, <1>4, <1>5 DEF Init, RingInv
<1>7. \A c \in Consoles : Len(kbd_queue[c]) = 0
  BY DEF Init
<1>8. ReadersInv
  BY <1>5, <1>7 DEF ReadersInv, Queued
<1>9. ReadsAreFresh
  BY <1>5 DEF ReadsAreFresh, Woken
<1>10. QED
  BY <1>1, <1>2, <1>6, <1>8, <1>9 DEF IInv

LEMMA Invariance == Spec => []IInv
<1>1. Init => IInv
  BY InitHolds
<1>2. IInv /\ [Next]_vars => IInv'
  BY TypeKept, WireKept, RingKept DEF IInv
<1>3. QED
  BY <1>1, <1>2, PTL DEF Spec

(* The links of con.c, changed by every open and close under readers,      *)
(* switches and a close that waits for the disk, are at any time one       *)
(* circle of exactly the consoles in use, one of which has the focus       *)
(* (con.c:65-197).                                                         *)
THEOREM Spec_RingIntact == Spec => []RingIntact
<1>1. IInv => RingIntact
  <2> SUFFICES ASSUME IInv PROVE RingIntact
    OBVIOUS
  <2>1. PICK n \in Nat : \E f \in [0 .. n - 1 -> Consoles] : Lists(f, n)
    BY DEF IInv, RingInv, Circle
  <2>2. PICK f \in [0 .. n - 1 -> Consoles] : Lists(f, n)
    BY <2>1
  <2>3. n <= MAX_CONSOLES
    BY <2>2, CircleFits DEF Lists
  <2>4. n \in 0 .. MAX_CONSOLES
    BY <2>3, ConsoleAssumption
  <2>5. QED
    BY <2>2, <2>4 DEF RingIntact, IInv, RingInv
<1>2. QED
  BY <1>1, Invariance, PTL

(* update_kbd_state tells left from right and down from up for every order *)
(* of the keys: with nothing on the wire the driver holds for pressed the  *)
(* modifier keys that are (con.c:241-298).                                 *)
THEOREM Spec_ModifiersFollowKeys == Spec => []ModifiersFollowKeys
<1>1. IInv => ModifiersFollowKeys
  BY WireAtRest DEF IInv, ModifiersFollowKeys
<1>2. QED
  BY <1>1, Invariance, PTL

(* Whatever scancodes, switches and other readers come between its wake-up *)
(* and its turn, a reader takes from the one-byte buffer the last thing    *)
(* typed since it began to wait, in the right case, and never a key from   *)
(* before, nor so the same key twice (con.c:107-119, 205-298).             *)
THEOREM Spec_ReadsAreFresh == Spec => []ReadsAreFresh
<1>1. Init => IInv /\ ReadersInv /\ ReadsAreFresh
  BY InitHolds
<1>2. IInv /\ (ReadersInv /\ ReadsAreFresh) /\ [Next]_vars => (ReadersInv /\ ReadsAreFresh)'
  BY ReadersKept DEF IInv
<1>3. QED
  BY <1>1, <1>2, Invariance, PTL DEF Spec

-----------------------------------------------------------------------------
(* The circle from another place on. *)
Turned(f, n, p) == [k \in 0 .. n - 1 |-> f[IF k + p < n THEN k + p ELSE k + p - n]]

LEMMA Turn ==
  ASSUME NEW n \in Nat, NEW f \in [0 .. n - 1 -> Consoles], NEW on, NEW nx, NEW pv,
         NEW p \in 0 .. n - 1, Rounds(f, n, on, nx, pv)
  PROVE  /\ Turned(f, n, p) \in [0 .. n - 1 -> Consoles]
         /\ Rounds(Turned(f, n, p), n, on, nx, pv)
<1> DEFINE at(k) == IF k + p < n THEN k + p ELSE k + p - n
           g == Turned(f, n, p)
<1>1. \A k \in 0 .. n - 1 : at(k) \in 0 .. n - 1
  OBVIOUS
<1>2. \A j, k \in 0 .. n - 1 : at(j) = at(k) => j = k
  OBVIOUS
<1>3. \A j \in 0 .. n - 1 : \E k \in 0 .. n - 1 : at(k) = j
  <2> SUFFICES ASSUME NEW j \in 0 .. n - 1
               PROVE  \E k \in 0 .. n - 1 : at(k) = j
    OBVIOUS
  <2> DEFINE k == IF j >= p THEN j - p ELSE j - p + n
  <2>1. k \in 0 .. n - 1 /\ at(k) = j
    OBVIOUS
  <2>2. QED
    BY <2>1
<1>4. \A k \in 0 .. n - 1 : Succ(k, n) \in 0 .. n - 1 /\ at(Succ(k, n)) = Succ(at(k), n)
  BY DEF Succ
<1>5. \A k \in 0 .. n - 1 : g[k] = f[at(k)]
  BY DEF Turned
<1>6. g \in [0 .. n - 1 -> Consoles]
  BY <1>1 DEF Turned
<1> HIDE DEF at, g
<1>7. \A j, k \in 0 .. n - 1 : g[j] = g[k] => j = k
  BY <1>1, <1>2, <1>5 DEF Rounds
<1>8. \A c \in Consoles : c \in on <=> \E k \in 0 .. n - 1 : g[k] = c
  <2>1. \A c : (\E k \in 0 .. n - 1 : g[k] = c) <=> \E j \in 0 .. n - 1 : f[j] = c
    BY <1>1, <1>3, <1>5
  <2>2. QED
    BY <2>1 DEF Rounds
<1>9. \A k \in 0 .. n - 1 : nx[g[k]] = g[Succ(k, n)] /\ pv[g[Succ(k, n)]] = g[k]
  <2> SUFFICES ASSUME NEW k \in 0 .. n - 1
               PROVE  nx[g[k]] = g[Succ(k, n)] /\ pv[g[Succ(k, n)]] = g[k]
    OBVIOUS
  <2>1. at(k) \in 0 .. n - 1 /\ g[k] = f[at(k)]
    BY <1>1, <1>5
  <2>2. g[Succ(k, n)] = f[Succ(at(k), n)]
    BY <1>4, <1>5
  <2>3. nx[f[at(k)]] = f[Succ(at(k), n)] /\ pv[f[Succ(at(k), n)]] = f[at(k)]
    BY <2>1 DEF Rounds
  <2>4. QED
    BY <2>1, <2>2, <2>3
<1>10. Rounds(g, n, on, nx, pv)
  BY <1>7, <1>8, <1>9 DEF Rounds
<1>11. QED
  BY <1>6, <1>10 DEF g

(* f lists the n consoles on the circle from the one with the focus on. *)
FromFocus(f, n) ==
  /\ n \in Nat /\ f \in [0 .. n - 1 -> Consoles]
  /\ Rounds(f, n, Open, next, prev)
  /\ IF n = 0 THEN current = NULL ELSE f[0] = current

LEMMA FocusFirst ==
  ASSUME TypeOK, RingInv
  PROVE  \E f, n : FromFocus(f, n)
<1>1. PICK n \in Nat : \E f \in [0 .. n - 1 -> Consoles] : Lists(f, n)
  BY DEF RingInv, Circle
<1>2. PICK f \in [0 .. n - 1 -> Consoles] : Lists(f, n)
  BY <1>1
<1>3. Rounds(f, n, Open, next, prev) /\ Open \subseteq Consoles
  <2>1. Rounds(f, n, Open, next, prev)
    BY <1>2 DEF Rounds, Lists
  <2>2. Open \subseteq Consoles
    BY DEF Open, TypeOK
  <2>3. QED
    BY <2>1, <2>2
<1>4. CASE n = 0
  <2>1. Open = {}
    BY <1>3, <1>4 DEF Rounds
  <2>2. QED
    BY <1>3, <1>4, <2>1 DEF FromFocus, RingInv
<1>5. CASE n # 0
  <2>1. 0 \in 0 .. n - 1 /\ f[0] \in Open
    BY <1>3, <1>5 DEF Rounds
  <2>2. current \in Open
    BY <2>1 DEF RingInv
  <2>3. PICK p \in 0 .. n - 1 : f[p] = current
    BY <1>3, <2>2 DEF Rounds
  <2> DEFINE g == Turned(f, n, p)
  <2>4. g \in [0 .. n - 1 -> Consoles] /\ Rounds(g, n, Open, next, prev)
    BY <1>3, Turn
  <2>5. g[0] = current
    BY <2>1, <2>3 DEF Turned
  <2> HIDE DEF g
  <2>6. FromFocus(g, n)
    BY <1>5, <2>4, <2>5 DEF FromFocus
  <2>7. QED
    BY <2>6
<1>6. QED
  BY <1>4, <1>5

(* The same list as a sequence. *)
ListOf(f, n) == [k \in 1 .. n |-> f[k - 1]]

(* A set of naturals that is not empty has a least element. *)
LEMMA NatMin ==
  ASSUME NEW S \in SUBSET Nat, S # {}
  PROVE  \E m \in S : \A k \in S : m <= k
<1> DEFINE R == OpToRel(<, Nat)
<1>1. IsWellFoundedOn(R, Nat)
  BY NatLessThanWellFounded
<1>2. \A x, y \in Nat : x < y => <<x, y>> \in R
  BY DEF OpToRel
<1> HIDE DEF R
<1>3. PICK m \in S : \A k \in S : ~ (<<k, m>> \in R)
  BY <1>1, WFMin, Zenon
<1>4. \A k \in S : ~ (k < m)
  <2> SUFFICES ASSUME NEW k \in S PROVE ~ (k < m)
    OBVIOUS
  <2>1. <<k, m>> \notin R
    BY <1>3
  <2>2. k \in Nat /\ m \in Nat
    OBVIOUS
  <2>3. QED
    BY <1>2, <2>1, <2>2, Zenon
<1>5. QED
  BY <1>4

(* A walk along links stays among the consoles. *)
WalkFrom(head, nx, M) ==
  LET w[i \in 1 .. M] == IF i = 1 THEN head ELSE nx[w[i - 1]] IN w

LEMMA WalkIs ==
  ASSUME NEW M \in Nat, NEW head \in Consoles, NEW nx \in [Consoles -> Consoles],
         NEW at, at = WalkFrom(head, nx, M)
  PROVE  /\ at \in [1 .. M -> Consoles]
         /\ \A i \in 1 .. M : at[i] = IF i = 1 THEN head ELSE nx[at[i - 1]]
<1> DEFINE Walks(w) == w = [i \in 1 .. M |-> IF i = 1 THEN head ELSE nx[w[i - 1]]]
           Goes(w, m) == /\ w \in [1 .. m -> Consoles]
                         /\ \A i \in 1 .. m : w[i] = IF i = 1 THEN head ELSE nx[w[i - 1]]
           Can(m) == \E w : Goes(w, m)
           S == {m \in Nat : m <= M /\ ~ Can(m)}
<1>1. ASSUME NEW m \in Nat \ {0}, NEW w, Goes(w, m - 1)
      PROVE  \E x : Goes(x, m)
  <2> DEFINE x == [i \in 1 .. m |-> IF i = 1 THEN head ELSE nx[w[i - 1]]]
  <2>1. /\ w \in [1 .. m - 1 -> Consoles]
        /\ \A i \in 1 .. m - 1 : w[i] = IF i = 1 THEN head ELSE nx[w[i - 1]]
    BY <1>1
  <2>2. \A i \in 1 .. m : i # 1 => i - 1 \in 1 .. m - 1 /\ i - 1 \in 1 .. m
    OBVIOUS
  <2>3. \A i \in 1 .. m : x[i] = IF i = 1 THEN head ELSE nx[w[i - 1]]
    OBVIOUS
  <2>4. x \in [1 .. m -> Consoles]
    BY <2>1, <2>2
  <2>5. \A i \in 1 .. m - 1 : i \in 1 .. m
    OBVIOUS
  <2> HIDE DEF x
  <2>6. \A i \in 1 .. m - 1 : x[i] = w[i]
    BY <2>1, <2>3, <2>5
  <2>7. \A i \in 1 .. m : x[i] = IF i = 1 THEN head ELSE nx[x[i - 1]]
    BY <2>2, <2>3, <2>6
  <2>8. QED
    BY <2>4, <2>7
<1>2. \E w : Goes(w, 0)
  <2> DEFINE w == [i \in 1 .. 0 |-> head]
  <2>1. Goes(w, 0)
    OBVIOUS
  <2> HIDE DEF w, Goes
  <2>2. QED
    BY <2>1
<1>3. S \in SUBSET Nat
  OBVIOUS
<1>4. \A m \in Nat : m \in S <=> m <= M /\ ~ Can(m)
  OBVIOUS
<1> HIDE DEF S, Goes
<1>5. Can(0)
  BY <1>2
<1>6. ASSUME NEW m \in Nat \ {0}, Can(m - 1)
       PROVE  Can(m)
  <2>1. PICK w : Goes(w, m - 1)
    BY <1>6
  <2>2. QED
    BY <1>1, <2>1
<1> HIDE DEF Can
<1>7. Can(M)
  <2> SUFFICES ASSUME ~ Can(M)
               PROVE  FALSE
    OBVIOUS
  <2>1. S # {}
    BY <1>4
  <2>2. PICK m \in S : \A j \in S : m <= j
    BY <1>3, <2>1, NatMin
  <2>3. m \in Nat \ {0} /\ m - 1 \in Nat /\ m <= M
    BY <1>5, <1>3, <1>4, <2>2
  <2>4. m - 1 \notin S
    BY <2>2, <2>3
  <2>5. Can(m - 1) /\ Can(m)
    BY <1>6, <1>4, <2>3, <2>4
  <2>6. QED
    BY <1>4, <2>2, <2>3, <2>5
<1>8. PICK w : Goes(w, M)
  BY <1>7 DEF Can
<1>9. Walks(w)
  <2>1. /\ w \in [1 .. M -> Consoles]
        /\ \A i \in 1 .. M : w[i] = IF i = 1 THEN head ELSE nx[w[i - 1]]
    BY <1>8 DEF Goes
  <2>2. w = [i \in 1 .. M |-> w[i]]
    BY <2>1
  <2>3. QED
    BY <2>1, <2>2
<1>10. at = CHOOSE x : Walks(x)
  BY DEF WalkFrom
<1> HIDE DEF Walks
<1>11. Walks(at)
  BY <1>9, <1>10
<1>12. at = [i \in 1 .. M |-> IF i = 1 THEN head ELSE nx[at[i - 1]]]
  BY <1>11 DEF Walks
<1>13. /\ DOMAIN at = 1 .. M
       /\ \A i \in 1 .. M : at[i] = IF i = 1 THEN head ELSE nx[at[i - 1]]
  BY <1>12
<1>14. /\ w \in [1 .. M -> Consoles]
       /\ \A i \in 1 .. M : w[i] = IF i = 1 THEN head ELSE nx[w[i - 1]]
  BY <1>8 DEF Goes
<1>15. \A i \in 1 .. M : at[i] = w[i]
  <2> DEFINE D == {i \in Nat : i \in 1 .. M /\ at[i] # w[i]}
  <2>1. D \in SUBSET Nat /\ \A i : i \in D <=> i \in 1 .. M /\ at[i] # w[i]
    OBVIOUS
  <2> HIDE DEF D
  <2>2. SUFFICES ASSUME D # {} PROVE FALSE
    BY <2>1
  <2>3. PICK m \in D : \A j \in D : m <= j
    BY <2>1, <2>2, NatMin
  <2>4. m \in 1 .. M /\ at[m] # w[m] /\ m # 1
    BY <1>13, <1>14, <2>1, <2>3
  <2>5. m - 1 \in 1 .. M /\ ~ (m <= m - 1)
    BY <2>4
  <2>6. at[m - 1] = w[m - 1]
    BY <2>1, <2>3, <2>5
  <2>7. QED
    BY <1>13, <1>14, <2>4, <2>5, <2>6
<1>16. at = [i \in 1 .. M |-> at[i]]
  BY <1>12
<1>17. \A i \in 1 .. M : at[i] \in Consoles
  BY <1>14, <1>15
<1>18. at \in [1 .. M -> Consoles]
  BY <1>16, <1>17
<1>19. QED
  BY <1>13, <1>18

(* The walk along next from the one with the focus finds this list. *)
LEMMA RingIs ==
  ASSUME TypeOK, NEW f, NEW n, FromFocus(f, n)
  PROVE  Ring = ListOf(f, n)
<1>1. /\ n \in Nat /\ f \in [0 .. n - 1 -> Consoles]
      /\ Rounds(f, n, Open, next, prev)
  BY DEF FromFocus
<1>2. CASE n = 0
  BY <1>2 DEF FromFocus, Ring, ListOf
<1>3. CASE n # 0
  <2> DEFINE M  == MAX_CONSOLES
             at == LET w[i \in 1 .. M] == IF i = 1 THEN current ELSE next[w[i - 1]] IN w
  <2>1. /\ current \in Consoles /\ f[0] = current /\ current # NULL
        /\ next \in [Consoles -> Consoles] /\ M \in Nat \ {0}
    <3>1. f[0] = current /\ 0 \in 0 .. n - 1
      BY <1>1, <1>3 DEF FromFocus
    <3>2. current \in Consoles
      BY <1>1, <3>1
    <3>3. QED
      BY <3>1, <3>2, ConsoleAssumption DEF TypeOK, Consoles, NULL
  <2>2. n \in 1 .. M
    <3>1. n <= MAX_CONSOLES
      BY <1>1, CircleFits DEF Rounds
    <3>2. QED
      BY <1>1, <1>3, <2>1, <3>1
  <2>3. at = WalkFrom(current, next, M)
    BY DEF WalkFrom
  <2> DEFINE ends == {i \in 1 .. M : next[at[i]] = current}
  <2>4. Ring = SubSeq(at, 1, IF ends = {} THEN MAX_CONSOLES
                             ELSE CHOOSE i \in ends : \A j \in ends : i <= j)
    BY <2>1 DEF Ring
  <2> HIDE DEF at, ends
  <2>5. /\ at \in [1 .. M -> Consoles]
        /\ \A i \in 1 .. M : at[i] = IF i = 1 THEN current ELSE next[at[i - 1]]
    BY <2>1, <2>3, WalkIs
  <2> USE DEF ends
  <2>6. \A i \in 1 .. n : at[i] = f[i - 1]
    <3> DEFINE D == {i \in Nat : i \in 1 .. n /\ at[i] # f[i - 1]}
    <3>1. D \in SUBSET Nat /\ \A i : i \in D <=> i \in 1 .. n /\ at[i] # f[i - 1]
      BY <1>1
    <3> HIDE DEF D
    <3>2. SUFFICES ASSUME D # {} PROVE FALSE
      BY <3>1
    <3>3. PICK m \in D : \A j \in D : m <= j
      BY <3>1, <3>2, NatMin
    <3>4. m \in 1 .. n /\ at[m] # f[m - 1] /\ m \in 1 .. M
      BY <1>1, <2>1, <2>2, <3>1, <3>3
    <3>5. m # 1
      BY <2>1, <2>5, <3>4
    <3>6. m - 1 \in 1 .. n /\ ~ (m <= m - 1)
      BY <1>1, <3>4, <3>5
    <3>7. at[m - 1] = f[m - 2]
      BY <3>1, <3>3, <3>6
    <3>8. m - 2 \in 0 .. n - 1 /\ Succ(m - 2, n) = m - 1
      BY <1>1, <3>4, <3>5 DEF Succ
    <3>9. next[f[m - 2]] = f[m - 1]
      BY <1>1, <3>8 DEF Rounds
    <3>10. QED
      BY <2>5, <3>4, <3>5, <3>7, <3>9
  <2>7. n \in ends /\ \A i \in ends : n <= i
    <3>1. \A i \in 1 .. n : i - 1 \in 0 .. n - 1 /\ at[i] = f[i - 1]
                            /\ next[at[i]] = f[Succ(i - 1, n)]
      BY <1>1, <2>6 DEF Rounds
    <3>2. \A i \in 1 .. n : Succ(i - 1, n) = IF i = n THEN 0 ELSE i
      BY <1>1 DEF Succ
    <3>3. next[at[n]] = current
      BY <2>1, <2>2, <3>1, <3>2
    <3>4. \A i \in 1 .. n : i # n => next[at[i]] # current
      <4>1. \A i \in 1 .. n : i # n => i \in 0 .. n - 1 /\ i # 0 /\ 0 \in 0 .. n - 1
        BY <1>1
      <4>2. QED
        BY <1>1, <2>1, <3>1, <3>2, <4>1 DEF Rounds
    <3>5. QED
      BY <1>1, <2>2, <3>3, <3>4
  <2>8. Ring = SubSeq(at, 1, n)
    <3>1. \A i \in ends : i \in Int
      BY <2>1
    <3> HIDE DEF ends
    <3>2. \A k \in ends : (\A j \in ends : k <= j) => k = n
      BY <1>1, <2>7, <3>1
    <3>3. (CHOOSE i \in ends : \A j \in ends : i <= j) = n
      BY <2>7, <3>2
    <3>4. QED
      BY <2>4, <2>7, <3>3
  <2>9. SubSeq(at, 1, n) = ListOf(f, n)
    <3>1. at \in Seq(Consoles) /\ Len(at) = M
      BY <2>1, <2>5
    <3>2. SubSeq(at, 1, n) = [i \in 1 .. n |-> at[i]]
      BY <1>1, <2>1, <2>2, <3>1
    <3>3. QED
      BY <2>6, <3>2 DEF ListOf
  <2>10. QED
    BY <2>8, <2>9
<1>4. QED
  BY <1>2, <1>3
-----------------------------------------------------------------------------
(* What Terminals.tla does to the sequence of the ring, as operations on   *)
(* the list it stands for.                                                 *)

(* r reads like f. *)
Reads(r, f, n) == r \in Seq(Consoles) /\ Len(r) = n /\ \A i \in 1 .. n : r[i] = f[i - 1]

LEMMA SeqReads ==
  ASSUME NEW n \in Nat, NEW f \in [0 .. n - 1 -> Consoles]
  PROVE  Reads(ListOf(f, n), f, n)
<1>1. ListOf(f, n) \in [1 .. n -> Consoles] /\ \A i \in 1 .. n : ListOf(f, n)[i] = f[i - 1]
  BY DEF ListOf
<1>2. ListOf(f, n) \in Seq(Consoles) /\ Len(ListOf(f, n)) = n
  BY <1>1
<1>3. QED
  BY <1>1, <1>2 DEF Reads

LEMMA ReadsOne ==
  ASSUME NEW n \in Nat, NEW f \in [0 .. n - 1 -> Consoles], NEW r, Reads(r, f, n)
  PROVE  r = ListOf(f, n)
<1>1. Reads(ListOf(f, n), f, n)
  BY SeqReads
<1>2. QED
  BY <1>1, SeqEqual DEF Reads

LEMMA TurnedSeq ==
  ASSUME NEW n \in Nat \ {0}, NEW f \in [0 .. n - 1 -> Consoles]
  PROVE  /\ T!Rotated(ListOf(f, n)) = ListOf(Turned(f, n, Succ(0, n)), n)
         /\ T!RotatedBack(ListOf(f, n)) = ListOf(Turned(f, n, n - 1), n)
<1> DEFINE r == ListOf(f, n)
           g == Turned(f, n, Succ(0, n))
           h == Turned(f, n, n - 1)
<1>1. r \in Seq(Consoles) /\ Len(r) = n /\ \A i \in 1 .. n : r[i] = f[i - 1]
  BY SeqReads DEF Reads
<1>2. g \in [0 .. n - 1 -> Consoles] /\ \A k \in 0 .. n - 1 : g[k] = f[Succ(k, n)]
  BY DEF Turned, Succ
<1>3. /\ h \in [0 .. n - 1 -> Consoles]
      /\ \A k \in 0 .. n - 1 : h[k] = f[IF k = 0 THEN n - 1 ELSE k - 1]
  BY DEF Turned
<1> HIDE DEF r, g, h
<1>4. r # <<>>
  BY <1>1
<1>5. T!Rotated(r) = ListOf(g, n)
  <2> DEFINE x == Tail(r)
             y == <<Head(r)>>
             z == x \o y
  <2>1. /\ x \in Seq(Consoles) /\ Len(x) = n - 1
        /\ \A i \in 1 .. n - 1 : x[i] = r[i + 1]
    BY <1>1, <1>4, HeadTailProperties
  <2>2. y \in Seq(Consoles) /\ Len(y) = 1 /\ y[1] = r[1]
    BY <1>1
  <2> HIDE DEF x, y
  <2>3. /\ z \in Seq(Consoles) /\ Len(z) = Len(x) + Len(y)
        /\ \A i \in 1 .. Len(x) + Len(y) : z[i] = IF i <= Len(x) THEN x[i] ELSE y[i - Len(x)]
    BY <2>1, <2>2, ConcatProperties
  <2> HIDE DEF z
  <2>4. Len(x) + Len(y) = n
    BY <2>1, <2>2
  <2>5. \A i \in 1 .. n : z[i] = IF i < n THEN r[i + 1] ELSE r[1]
    <3>1. \A i \in 1 .. n : i < n => i <= Len(x) /\ i \in 1 .. n - 1
      BY <2>1
    <3>2. \A i \in 1 .. n : ~ i < n => ~ i <= Len(x) /\ i - Len(x) = 1
      BY <2>1
    <3>3. QED
      BY <2>1, <2>2, <2>3, <2>4, <3>1, <3>2
  <2>6. \A i \in 1 .. n : z[i] = g[i - 1]
    <3> SUFFICES ASSUME NEW i \in 1 .. n PROVE z[i] = g[i - 1]
      OBVIOUS
    <3>1. g[i - 1] = f[Succ(i - 1, n)]
      BY <1>2
    <3>2. CASE i < n
      <4>1. Succ(i - 1, n) = i /\ i + 1 \in 1 .. n
        BY <3>2 DEF Succ
      <4>2. r[i + 1] = f[i]
        BY <1>1, <4>1
      <4>3. QED
        BY <2>5, <3>1, <3>2, <4>1, <4>2
    <3>3. CASE ~ i < n
      <4>1. Succ(i - 1, n) = 0 /\ 1 \in 1 .. n
        BY <3>3 DEF Succ
      <4>2. r[1] = f[0]
        BY <1>1, <4>1
      <4>3. QED
        BY <2>5, <3>1, <3>3, <4>1, <4>2
    <3>4. QED
      BY <3>2, <3>3
  <2>7. z = ListOf(g, n)
    BY <1>2, <2>3, <2>4, <2>6, ReadsOne DEF Reads
  <2>8. QED
    BY <1>4, <2>7 DEF T!Rotated, z, x, y
<1>6. T!RotatedBack(r) = ListOf(h, n)
  <2> DEFINE x == <<T!Last(r)>>
             y == T!Front(r)
             z == x \o y
  <2>1. x \in Seq(Consoles) /\ Len(x) = 1 /\ x[1] = r[n]
    BY <1>1 DEF T!Last
  <2>2. /\ y \in Seq(Consoles) /\ Len(y) = n - 1
        /\ \A i \in 1 .. n - 1 : y[i] = r[i]
    BY <1>1 DEF T!Front
  <2> HIDE DEF x, y
  <2>3. /\ z \in Seq(Consoles) /\ Len(z) = Len(x) + Len(y)
        /\ \A i \in 1 .. Len(x) + Len(y) : z[i] = IF i <= Len(x) THEN x[i] ELSE y[i - Len(x)]
    BY <2>1, <2>2, ConcatProperties
  <2> HIDE DEF z
  <2>4. Len(x) + Len(y) = n
    BY <2>1, <2>2
  <2>5. \A i \in 1 .. n : z[i] = IF i = 1 THEN r[n] ELSE r[i - 1]
    <3>1. \A i \in 1 .. n : i = 1 => i <= Len(x)
      BY <2>1
    <3>2. \A i \in 1 .. n : i # 1 => ~ i <= Len(x) /\ i - Len(x) = i - 1 /\ i - 1 \in 1 .. n - 1
      BY <2>1
    <3>3. QED
      BY <2>1, <2>2, <2>3, <2>4, <3>1, <3>2
  <2>6. \A i \in 1 .. n : z[i] = h[i - 1]
    <3>1. \A i \in 1 .. n : i - 1 \in 0 .. n - 1 /\ (i # 1 => i - 1 \in 1 .. n)
      OBVIOUS
    <3>2. n \in 1 .. n /\ 0 \in 0 .. n - 1
      OBVIOUS
    <3>3. QED
      BY <1>1, <1>3, <2>5, <3>1, <3>2
  <2>7. z = ListOf(h, n)
    BY <1>3, <2>3, <2>4, <2>6, ReadsOne DEF Reads
  <2>8. QED
    BY <1>4, <2>7 DEF T!RotatedBack, z, x, y
<1>7. QED
  BY <1>5, <1>6 DEF r, g, h

LEMMA AddedSeq ==
  ASSUME NEW n \in Nat \ {0}, NEW f \in [0 .. n - 1 -> Consoles], NEW c \in Consoles
  PROVE  <<c>> \o T!Rotated(ListOf(f, n)) = ListOf(Turned(Inserted(f, n, 0, c), n + 1, 1), n + 1)
<1> DEFINE g == Turned(f, n, Succ(0, n))
           h == Turned(Inserted(f, n, 0, c), n + 1, 1)
           x == <<c>>
           y == ListOf(g, n)
           z == x \o y
<1>1. g \in [0 .. n - 1 -> Consoles] /\ \A k \in 0 .. n - 1 : g[k] = f[Succ(k, n)]
  BY DEF Turned, Succ
<1>2. /\ h \in [0 .. n -> Consoles]
      /\ \A k \in 0 .. n : h[k] = IF k = 0 THEN c ELSE IF k = n THEN f[0] ELSE f[k]
  <2> DEFINE j == Inserted(f, n, 0, c)
  <2>1. /\ j \in [0 .. n -> Consoles] /\ j[0] = f[0] /\ j[1] = c
        /\ \A k \in 1 .. n - 1 : j[k + 1] = f[k]
    BY DEF Inserted
  <2> HIDE DEF j
  <2>2. (n + 1) - 1 = n /\ \A k \in 0 .. n : k + 1 < n + 1 <=> k # n
    OBVIOUS
  <2>3. h = [k \in 0 .. n |-> j[IF k # n THEN k + 1 ELSE k + 1 - (n + 1)]]
    BY <2>2 DEF Turned, j
  <2> HIDE DEF h
  <2>4. \A k \in 0 .. n : (IF k # n THEN k + 1 ELSE k + 1 - (n + 1)) \in 0 .. n
    OBVIOUS
  <2>5. h \in [0 .. n -> Consoles]
    BY <2>1, <2>3, <2>4
  <2>6. \A k \in 0 .. n : h[k] = IF k # n THEN j[k + 1] ELSE j[0]
    BY <2>3
  <2>7. \A k \in 0 .. n : k # 0 /\ k # n => k \in 1 .. n - 1
    OBVIOUS
  <2>8. QED
    BY <2>1, <2>5, <2>6, <2>7
<1>3. y \in Seq(Consoles) /\ Len(y) = n /\ \A i \in 1 .. n : y[i] = g[i - 1]
  BY <1>1, SeqReads DEF Reads
<1>4. x \in Seq(Consoles) /\ Len(x) = 1 /\ x[1] = c
  OBVIOUS
<1> HIDE DEF g, h, x, y
<1>5. /\ z \in Seq(Consoles) /\ Len(z) = Len(x) + Len(y)
      /\ \A i \in 1 .. Len(x) + Len(y) : z[i] = IF i <= Len(x) THEN x[i] ELSE y[i - Len(x)]
  BY <1>3, <1>4, ConcatProperties
<1> HIDE DEF z
<1>6. Len(x) + Len(y) = n + 1 /\ (n + 1) - 1 = n /\ n + 1 \in Nat
  BY <1>3, <1>4
<1>7. \A i \in 1 .. n + 1 : z[i] = IF i = 1 THEN c ELSE g[i - 2]
  <2>1. \A i \in 1 .. n + 1 : i = 1 => i <= Len(x)
    BY <1>4
  <2>2. \A i \in 1 .. n + 1 : i # 1 =>
          ~ i <= Len(x) /\ i - Len(x) = i - 1 /\ i - 1 \in 1 .. n /\ (i - 1) - 1 = i - 2
    BY <1>4
  <2>3. QED
    BY <1>3, <1>4, <1>5, <1>6, <2>1, <2>2
<1>8. \A i \in 1 .. n + 1 : z[i] = h[i - 1]
  <2>1. \A i \in 1 .. n + 1 : i - 1 \in 0 .. n /\ (i # 1 => i - 2 \in 0 .. n - 1)
                               /\ (i - 1 = 0 <=> i = 1)
    OBVIOUS
  <2>2. \A i \in 1 .. n + 1 : i # 1 => Succ(i - 2, n) = IF i - 1 = n THEN 0 ELSE i - 1
    BY DEF Succ
  <2>3. QED
    BY <1>1, <1>2, <1>7, <2>1, <2>2
<1>9. z = ListOf(h, n + 1)
  <2>1. h \in [0 .. (n + 1) - 1 -> Consoles] /\ Reads(z, h, n + 1)
    BY <1>2, <1>5, <1>6, <1>8 DEF Reads
  <2>2. QED
    BY <1>6, <2>1, ReadsOne
<1>10. QED
  BY <1>9, TurnedSeq DEF z, x, y, g, h

LEMMA RemovedSeq ==
  ASSUME NEW n \in Nat \ {0}, NEW f \in [0 .. n - 1 -> Consoles]
  PROVE  /\ Tail(ListOf(f, n)) = ListOf(Without(f, n, 0), n - 1)
         /\ \A p \in 1 .. n - 1 : T!RemoveAt(ListOf(f, n), p + 1) = ListOf(Without(f, n, p), n - 1)
<1> DEFINE r == ListOf(f, n)
<1>1. r \in Seq(Consoles) /\ Len(r) = n /\ \A i \in 1 .. n : r[i] = f[i - 1]
  BY SeqReads DEF Reads
<1>2. \A p \in 0 .. n - 1 :
        /\ Without(f, n, p) \in [0 .. (n - 1) - 1 -> Consoles]
        /\ \A k \in 0 .. n - 2 : Without(f, n, p)[k] = IF k < p THEN f[k] ELSE f[k + 1]
  BY DEF Without
<1> HIDE DEF r
<1>3. Tail(r) = ListOf(Without(f, n, 0), n - 1)
  <2> DEFINE x == Tail(r)
             g == Without(f, n, 0)
  <2>1. r # <<>>
    BY <1>1
  <2>2. /\ x \in Seq(Consoles) /\ Len(x) = n - 1
        /\ \A i \in 1 .. n - 1 : x[i] = r[i + 1]
    BY <1>1, <2>1, HeadTailProperties
  <2> HIDE DEF x
  <2>3. 0 \in 0 .. n - 1 /\ n - 1 \in Nat
    OBVIOUS
  <2>4. g \in [0 .. (n - 1) - 1 -> Consoles] /\ \A k \in 0 .. n - 2 : g[k] = f[k + 1]
    BY <1>2, <2>3
  <2> HIDE DEF g
  <2>5. \A i \in 1 .. n - 1 : i + 1 \in 1 .. n /\ i - 1 \in 0 .. n - 2 /\ (i - 1) + 1 = (i + 1) - 1
    OBVIOUS
  <2>6. \A i \in 1 .. n - 1 : x[i] = g[i - 1]
    BY <1>1, <2>2, <2>4, <2>5
  <2>7. QED
    BY <2>2, <2>3, <2>4, <2>6, ReadsOne DEF Reads, x, g
<1>4. ASSUME NEW p \in 1 .. n - 1
      PROVE  T!RemoveAt(r, p + 1) = ListOf(Without(f, n, p), n - 1)
  <2> DEFINE x == SubSeq(r, 1, p)
             y == SubSeq(r, p + 2, n)
             z == x \o y
             g == Without(f, n, p)
  <2>1. x \in Seq(Consoles) /\ Len(x) = p /\ \A i \in 1 .. p : x[i] = r[i]
    BY <1>1
  <2>2. /\ y \in Seq(Consoles) /\ Len(y) = n - 1 - p
        /\ \A i \in 1 .. n - 1 - p : y[i] = r[i + p + 1]
    <3>1. p + 2 \in Int /\ n \in Int /\ \A i \in p + 2 .. n : i \in 1 .. n
      OBVIOUS
    <3>2. \A i \in p + 2 .. n : r[i] \in Consoles
      BY <1>1, <3>1, ElementOfSeq
    <3>3. /\ y \in Seq(Consoles)
          /\ Len(y) = IF p + 2 <= n THEN n - (p + 2) + 1 ELSE 0
          /\ \A i \in 1 .. n - (p + 2) + 1 : y[i] = r[(p + 2) + i - 1]
      BY <3>1, <3>2, SubSeqProperties
    <3> HIDE DEF y
    <3>4. n - (p + 2) + 1 = n - 1 - p /\ \A i \in 1 .. n - 1 - p : (p + 2) + i - 1 = i + p + 1
      OBVIOUS
    <3>5. Len(y) = n - 1 - p
      BY <3>3
    <3>6. QED
      BY <3>3, <3>4, <3>5
  <2>3. p + 1 - 1 = p /\ p + 1 + 1 = p + 2 /\ p \in 0 .. n - 1 /\ n - 1 \in Nat
    OBVIOUS
  <2>4. T!RemoveAt(r, p + 1) = z
    BY <1>1, <2>3 DEF T!RemoveAt
  <2> HIDE DEF x, y
  <2>5. /\ z \in Seq(Consoles) /\ Len(z) = Len(x) + Len(y)
        /\ \A i \in 1 .. Len(x) + Len(y) : z[i] = IF i <= Len(x) THEN x[i] ELSE y[i - Len(x)]
    <3>1. x \in Seq(Consoles) /\ y \in Seq(Consoles)
      BY <2>1, <2>2
    <3>2. QED
      BY <3>1, ConcatProperties
  <2>6. g \in [0 .. (n - 1) - 1 -> Consoles]
        /\ \A k \in 0 .. n - 2 : g[k] = IF k < p THEN f[k] ELSE f[k + 1]
    BY <1>2, <2>3
  <2> HIDE DEF z, g
  <2>7. Len(x) + Len(y) = n - 1
    BY <2>1, <2>2
  <2>8. \A i \in 1 .. n - 1 : z[i] = IF i <= p THEN r[i] ELSE r[i + 1]
    <3>1. \A i \in 1 .. n - 1 : i <= p => i \in 1 .. p
      OBVIOUS
    <3>2. \A i \in 1 .. n - 1 : ~ i <= p => i - p \in 1 .. n - 1 - p /\ (i - p) + p + 1 = i + 1
      OBVIOUS
    <3>3. QED
      BY <2>1, <2>2, <2>5, <2>7, <3>1, <3>2
  <2>9. \A i \in 1 .. n - 1 : z[i] = g[i - 1]
    <3> SUFFICES ASSUME NEW i \in 1 .. n - 1
                 PROVE  z[i] = g[i - 1]
      OBVIOUS
    <3>1. /\ i \in 1 .. n /\ i + 1 \in 1 .. n /\ i - 1 \in 0 .. n - 2
          /\ (i - 1) + 1 = i /\ (i + 1) - 1 = i /\ (i - 1 < p <=> i <= p)
      OBVIOUS
    <3>2. g[i - 1] = IF i <= p THEN f[i - 1] ELSE f[i]
      BY <2>6, <3>1
    <3>3. z[i] = IF i <= p THEN f[i - 1] ELSE f[i]
      BY <1>1, <2>8, <3>1
    <3>4. QED
      BY <3>2, <3>3
  <2>10. QED
    BY <2>3, <2>4, <2>5, <2>6, <2>7, <2>9, ReadsOne DEF Reads, g
<1>5. QED
  BY <1>3, <1>4 DEF r

-----------------------------------------------------------------------------
(* The terminals that con.c shows. *)
Shown == [c \in Consoles |-> IF c = current THEN vga
                             ELSE IF c \in Open THEN buffer[c] ELSE <<>>]

AsSeen ==
  \A f, n : TypeOK /\ FromFocus(f, n) =>
     Ring = ListOf(f, n) /\ Texts = Shown /\ T!ToSet(Ring) = Open

LEMMA AsSeenHolds == AsSeen
<1> SUFFICES ASSUME NEW f, NEW n, TypeOK, FromFocus(f, n)
             PROVE  Ring = ListOf(f, n) /\ Texts = Shown /\ T!ToSet(Ring) = Open
  BY DEF AsSeen
<1>1. Ring = ListOf(f, n)
  BY RingIs
<1>2. /\ n \in Nat /\ f \in [0 .. n - 1 -> Consoles] /\ Open \subseteq Consoles
      /\ \A c \in Consoles : c \in Open <=> \E k \in 0 .. n - 1 : f[k] = c
  <2>1. Open \subseteq Consoles
    BY DEF TypeOK, Open
  <2>2. QED
    BY <2>1 DEF FromFocus, Rounds
<1>3. {Ring[i] : i \in DOMAIN Ring} = Open
  <2>1. Ring \in Seq(Consoles) /\ Len(Ring) = n /\ \A i \in 1 .. n : Ring[i] = f[i - 1]
    BY <1>1, <1>2, SeqReads DEF Reads
  <2>2. DOMAIN Ring = 1 .. n
    BY <2>1, LenProperties
  <2>3. \A c : c \in {Ring[i] : i \in DOMAIN Ring} => c \in Open
    <3>1. \A i \in 1 .. n : i - 1 \in 0 .. n - 1 /\ f[i - 1] \in Consoles
      BY <1>2
    <3>2. \A i \in 1 .. n : Ring[i] \in Open
      BY <1>2, <2>1, <3>1
    <3>3. QED
      BY <2>2, <3>2
  <2>4. \A c : c \in Open => c \in {Ring[i] : i \in DOMAIN Ring}
    <3>1. \A k \in 0 .. n - 1 : k + 1 \in 1 .. n /\ (k + 1) - 1 = k
      BY <1>2
    <3>2. \A k \in 0 .. n - 1 : Ring[k + 1] = f[k]
      BY <2>1, <3>1
    <3>3. \A c \in Open : \E i \in 1 .. n : Ring[i] = c
      <4> SUFFICES ASSUME NEW c \in Open
                   PROVE  \E i \in 1 .. n : Ring[i] = c
        OBVIOUS
      <4>1. PICK k \in 0 .. n - 1 : f[k] = c
        BY <1>2
      <4>2. QED
        BY <3>1, <3>2, <4>1
    <3>4. QED
      BY <2>2, <3>3
  <2>5. QED
    BY <2>3, <2>4
<1>4. ToSet(Ring) = Open /\ T!ToSet(Ring) = Open
  BY <1>3 DEF ToSet, T!ToSet
<1>5. Texts = [c \in Consoles |-> CASE c = current -> vga
                                    [] c \notin Open -> <<>>
                                    [] OTHER -> buffer[c]]
  BY <1>4 DEF Texts
<1>6. CASE current \notin Open
  <2>1. n = 0
    <3>1. n # 0 => 0 \in 0 .. n - 1 /\ f[0] = current
      BY <1>2 DEF FromFocus
    <3>2. QED
      BY <1>2, <1>6, <3>1
  <2>2. current = NULL /\ \A c \in Consoles : c # current
    BY <2>1, ConsoleAssumption DEF FromFocus, Consoles, NULL
  <2>3. QED
    BY <1>1, <1>4, <1>5, <2>2 DEF Shown
<1>7. CASE current \in Open
  BY <1>1, <1>4, <1>5, <1>7 DEF Shown
<1>8. QED
  BY <1>6, <1>7

(* What a step has to do to the list for terminals to have taken theirs. *)
LEMMA SeenTogether ==
  ASSUME TypeOK, TypeOK', NEW f, NEW n, NEW g, NEW m, FromFocus(f, n), FromFocus(g, m)'
  PROVE  /\ T!Now = [ring |-> ListOf(f, n), text |-> Shown]
         /\ T!Now' = [ring |-> ListOf(g, m), text |-> Shown']
         /\ T!ToSet(ListOf(f, n)) = Open
<1>1. AsSeen /\ AsSeen'
  BY AsSeenHolds, PTL
<1>2. Ring = ListOf(f, n) /\ Texts = Shown /\ T!ToSet(Ring) = Open
  BY <1>1 DEF AsSeen
<1>3. Ring' = ListOf(g, m) /\ Texts' = Shown'
  BY <1>1 DEF AsSeen
<1>4. QED
  BY <1>2, <1>3 DEF T!Now

(* What terminals may do, from the list r and the texts x. *)
At(r, x) == [ring |-> r, text |-> x]

LEMMA TerminalSteps ==
  ASSUME NEW r, NEW x, x = [c \in Consoles |-> x[c]], NEW r2, NEW x2,
         T!Now = At(r, x), T!Now' = At(r2, x2),
         \/ r2 \in {T!Rotated(r), T!RotatedBack(r)} /\ x2 = x
         \/ \E c \in Consoles : /\ c \notin T!ToSet(r) /\ r2 = <<c>> \o T!Rotated(r)
                                /\ x2 = [x EXCEPT ![c] = <<>>]
         \/ \E i \in DOMAIN r : r2 = T!Without(i, r) /\ x2 = [x EXCEPT ![r[i]] = <<>>]
         \/ \E c \in Consoles \cap T!ToSet(r) : r2 = r /\ x2 = [x EXCEPT ![c] = Append(x[c], c)]
  PROVE  T!Next
<1> DEFINE s == At(r, x)
<1>1. s.ring = r /\ s.text = x
  BY DEF At
<1>2. CASE r2 \in {T!Rotated(r), T!RotatedBack(r)} /\ x2 = x
  <2>1. At(r2, x2) = [s EXCEPT !.ring = r2]
    BY <1>2 DEF At
  <2>2. At(r2, x2) \in T!FocusMoves(s)
    BY <1>1, <1>2, <2>1 DEF T!FocusMoves
  <2>3. QED
    BY <2>2 DEF T!Next
<1>3. CASE \E c \in Consoles : /\ c \notin T!ToSet(r) /\ r2 = <<c>> \o T!Rotated(r)
                               /\ x2 = [x EXCEPT ![c] = <<>>]
  <2>1. At(r2, x2) \in T!Opens(s)
    BY <1>1, <1>3 DEF T!Opens, At
  <2>2. QED
    BY <2>1 DEF T!Next
<1>4. CASE \E i \in DOMAIN r : r2 = T!Without(i, r) /\ x2 = [x EXCEPT ![r[i]] = <<>>]
  <2>1. At(r2, x2) \in T!Closes(s)
    BY <1>1, <1>4 DEF T!Closes, At
  <2>2. QED
    BY <2>1 DEF T!Next
<1>5. CASE \E c \in Consoles \cap T!ToSet(r) : r2 = r /\ x2 = [x EXCEPT ![c] = Append(x[c], c)]
  <2>1. PICK c \in Consoles \cap T!ToSet(r) : r2 = r /\ x2 = [x EXCEPT ![c] = Append(x[c], c)]
    BY <1>5
  <2> HIDE DEF s
  <2>2. At(r2, x2) = [ring |-> s.ring, text |-> [s.text EXCEPT ![c] = Append(s.text[c], c)]]
    BY <1>1, <2>1 DEF At
  <2>3. c \in T!ToSet(s.ring) /\ c \in Consoles
    BY <1>1, <2>1
  <2>4. At(r2, x2) \in T!Writes(s)
    <3> DEFINE Y(m, k) == [ring |-> s.ring, text |-> [s.text EXCEPT ![k] = Append(s.text[k], m)]]
    <3>1. T!Writes(s) = {Y(m, k) : k \in T!ToSet(s.ring), m \in Consoles}
      BY DEF T!Writes
    <3>2. At(r2, x2) = Y(c, c)
      BY <2>2
    <3> HIDE DEF Y
    <3>3. QED
      BY <2>3, <3>1, <3>2
  <2>5. QED
    BY <2>4 DEF T!Next, s
<1>6. QED
  BY <1>2, <1>3, <1>4, <1>5

(* The texts; with no console open the screen is empty. *)
TextInv ==
  /\ buffer \in [Consoles -> Seq(Consoles)] /\ vga \in Seq(Consoles)
  /\ current = NULL => vga = <<>>

LEMMA ShownIs == Shown = [c \in Consoles |-> Shown[c]]
BY DEF Shown

LEMMA FocusOpen ==
  ASSUME TypeOK, NEW f, NEW n, FromFocus(f, n)
  PROVE  /\ n \in Nat /\ f \in [0 .. n - 1 -> Consoles] /\ Rounds(f, n, Open, next, prev)
         /\ n = 0 => current = NULL /\ Open = {}
         /\ n # 0 => /\ f[0] = current /\ 0 \in 0 .. n - 1 /\ n \in Nat \ {0}
                     /\ current \in Open /\ current \in Consoles /\ current # NULL
<1>1. /\ n \in Nat /\ f \in [0 .. n - 1 -> Consoles] /\ Rounds(f, n, Open, next, prev)
      /\ IF n = 0 THEN current = NULL ELSE f[0] = current
  BY DEF FromFocus
<1>2. Open \subseteq Consoles
  BY DEF TypeOK, Open
<1>3. CASE n = 0
  <2>1. \A c \in Consoles : c \notin Open
    BY <1>1, <1>3 DEF Rounds
  <2>2. QED
    BY <1>1, <1>2, <1>3, <2>1
<1>4. CASE n # 0
  <2>1. 0 \in 0 .. n - 1 /\ f[0] = current /\ n \in Nat \ {0}
    BY <1>1, <1>4
  <2>2. current \in Consoles /\ current \in Open
    BY <1>1, <2>1 DEF Rounds
  <2>3. QED
    BY <1>1, <2>1, <2>2, ConsoleAssumption DEF Consoles, NULL
<1>5. QED
  BY <1>3, <1>4

(* What a switch leaves to be seen (con.c:184-197). *)
LEMMA SwitchShown ==
  ASSUME TextInv, NEW a \in Consoles \cup {NULL},
         NEW bufs \in [Consoles -> Seq(Consoles)], NEW c \in Consoles, switch_console(a, bufs, c)
  PROVE  /\ current' = c /\ vga' = IF c = a THEN vga ELSE bufs[c]
         /\ \A d \in Consoles \ {c} : buffer'[d] = IF d = a THEN vga ELSE bufs[d]
         /\ TextInv'
<1>1. c # NULL /\ NULL \notin Consoles
  BY ConsoleAssumption DEF Consoles, NULL
<1>2. CASE c = a
  <2>1. current' = c /\ buffer' = bufs /\ vga' = vga
    BY <1>2 DEF switch_console
  <2>2. QED
    BY <1>1, <1>2, <2>1 DEF TextInv
<1>3. CASE c # a
  <2>1. /\ current' = c /\ vga' = bufs[c]
        /\ buffer' = IF a = NULL THEN bufs ELSE [bufs EXCEPT ![a] = vga]
    BY <1>3 DEF switch_console
  <2>2. /\ buffer' \in [Consoles -> Seq(Consoles)]
        /\ \A d \in Consoles \ {c} : buffer'[d] = IF d = a THEN vga ELSE bufs[d]
    BY <1>1, <2>1 DEF TextInv
  <2>3. QED
    BY <1>1, <1>3, <2>1, <2>2 DEF TextInv
<1>4. QED
  BY <1>2, <1>3

(* con_open: the new one follows the one with the focus and takes it *)
(* (con.c:85-105).                                                   *)
LEMMA OpenShown ==
  ASSUME TypeOK, TypeOK', TextInv, RingInv, NEW t \in Tasks, NEW c \in Consoles, con_open(t, c)
  PROVE  TextInv' /\ T!Next
<1>1. c \notin Open /\ Open \subseteq Consoles
  <2>1. klass[c] = NONE
    BY DEF con_open, ToOpen
  <2>2. c \notin Open
    BY <2>1 DEF RingInv, NONE
  <2>3. QED
    BY <2>2 DEF TypeOK, Open
<1>2. fds' = [fds EXCEPT ![t] = @ \cup {c}] /\ add_console_after_current(c)
  BY DEF con_open
<1>3. Open' = Open \cup {c}
  BY <1>2 DEF Open, TypeOK
<1> DEFINE bufs == [buffer EXCEPT ![c] = IF current = NULL THEN vga ELSE <<>>]
<1>4. switch_console(current, bufs, c) /\ current \in Consoles \cup {NULL}
  BY DEF con_open, TypeOK
<1>5. /\ bufs \in [Consoles -> Seq(Consoles)] /\ bufs[c] = <<>>
      /\ \A d \in Consoles \ {c} : bufs[d] = buffer[d]
  BY DEF TextInv
<1> HIDE DEF bufs
<1>6. /\ current' = c /\ vga' = IF c = current THEN vga ELSE bufs[c]
      /\ \A d \in Consoles \ {c} : buffer'[d] = IF d = current THEN vga ELSE bufs[d]
      /\ TextInv'
  BY <1>4, <1>5, SwitchShown
<1>7. c # current
  BY <1>1, ConsoleAssumption DEF RingInv, Consoles, NULL
<1>8. Shown' = [Shown EXCEPT ![c] = <<>>]
  <2>1. Shown'[c] = <<>>
    BY <1>5, <1>6, <1>7 DEF Shown
  <2>2. \A d \in Consoles \ {c} : Shown'[d] = Shown[d]
    <3> SUFFICES ASSUME NEW d \in Consoles \ {c}
                 PROVE  Shown'[d] = Shown[d]
      OBVIOUS
    <3>1. Shown'[d] = IF d \in Open THEN buffer'[d] ELSE <<>>
      BY <1>3, <1>6 DEF Shown
    <3>2. buffer'[d] = IF d = current THEN vga ELSE buffer[d]
      BY <1>5, <1>6
    <3>3. d = current => d \in Open
      BY ConsoleAssumption DEF RingInv, Consoles, NULL
    <3>4. QED
      BY <3>1, <3>2, <3>3 DEF Shown
  <2>3. Shown' = [d \in Consoles |-> Shown'[d]]
    BY DEF Shown
  <2> HIDE DEF Shown
  <2>4. QED
    BY <2>1, <2>2, <2>3, ShownIs
<1>9. PICK f, n : FromFocus(f, n)
  BY FocusFirst
<1>10. CASE n = 0
  <2> DEFINE g == [k \in 0 .. 1 - 1 |-> c]
  <2>1. current = NULL /\ Open = {} /\ n \in Nat /\ f \in [0 .. n - 1 -> Consoles]
    BY <1>9, <1>10, FocusOpen
  <2>2. g \in [0 .. 1 - 1 -> Consoles] /\ Rounds(g, 1, Open', next', prev')
    BY <1>2, <1>3, <2>1, FirstLinks
  <2>3. g[0] = c
    OBVIOUS
  <2> HIDE DEF g
  <2>4. FromFocus(g, 1)'
    BY <1>6, <2>2, <2>3 DEF FromFocus
  <2>5. ListOf(f, n) = <<>> /\ ListOf(g, 1) = <<c>>
    BY <1>10, <2>1, <2>3 DEF ListOf
  <2>6. ListOf(g, 1) = <<c>> \o T!Rotated(ListOf(f, n))
    BY <2>5 DEF T!Rotated
  <2>7. /\ T!Now = At(ListOf(f, n), Shown) /\ T!Now' = At(ListOf(g, 1), Shown')
        /\ T!ToSet(ListOf(f, n)) = Open
    BY <1>9, <2>4, SeenTogether DEF At
  <2>8. QED
    BY <1>1, <1>6, <1>8, <2>6, <2>7, TerminalSteps, ShownIs
<1>11. CASE n # 0
  <2>1. /\ n \in Nat \ {0} /\ f \in [0 .. n - 1 -> Consoles] /\ Rounds(f, n, Open, next, prev)
        /\ 0 \in 0 .. n - 1 /\ f[0] = current
    BY <1>9, <1>11, FocusOpen
  <2> DEFINE h == Inserted(f, n, 0, c)
             g == Turned(h, n + 1, 1)
  <2>2. h \in [0 .. n -> Consoles] /\ Rounds(h, n + 1, Open', next', prev')
    BY <1>1, <1>2, <1>3, <2>1, OpenLinks
  <2>3. (n + 1) - 1 = n /\ n + 1 \in Nat /\ 1 \in 0 .. (n + 1) - 1 /\ n + 1 # 0
    BY <2>1
  <2>4. h[1] = c
    BY <2>1 DEF Inserted
  <2> HIDE DEF h
  <2>5. g \in [0 .. (n + 1) - 1 -> Consoles] /\ Rounds(g, n + 1, Open', next', prev')
    BY <2>2, <2>3, Turn
  <2>6. g[0] = c
    BY <2>1, <2>4 DEF Turned
  <2> HIDE DEF g
  <2>7. FromFocus(g, n + 1)'
    BY <1>6, <2>3, <2>5, <2>6 DEF FromFocus
  <2>8. ListOf(g, n + 1) = <<c>> \o T!Rotated(ListOf(f, n))
    BY <2>1, AddedSeq DEF g, h
  <2>9. /\ T!Now = At(ListOf(f, n), Shown) /\ T!Now' = At(ListOf(g, n + 1), Shown')
        /\ T!ToSet(ListOf(f, n)) = Open
    BY <1>9, <2>7, SeenTogether DEF At
  <2>10. QED
    BY <1>1, <1>6, <1>8, <2>8, <2>9, TerminalSteps, ShownIs
<1>12. QED
  BY <1>10, <1>11

(* The steps of a reader, of a fork and of the keys show nothing. *)
LEMMA SameShown ==
  ASSUME TypeOK, TypeOK', TextInv, RingInv, Open' = Open, UNCHANGED <<prev, next, shown>>
  PROVE  TextInv' /\ UNCHANGED T!vars
<1>1. UNCHANGED <<prev, next, current, buffer, vga>>
  BY DEF shown
<1>2. PICK f, n : FromFocus(f, n)
  BY FocusFirst
<1>3. FromFocus(f, n)'
  BY <1>1, <1>2 DEF FromFocus
<1>4. Shown' = Shown
  BY <1>1 DEF Shown
<1>5. AsSeen /\ AsSeen'
  BY AsSeenHolds, PTL
<1>6. Ring = ListOf(f, n) /\ Texts = Shown
  BY <1>2, <1>5 DEF AsSeen
<1>7. Ring' = ListOf(f, n) /\ Texts' = Shown'
  BY <1>3, <1>5 DEF AsSeen
<1>8. QED
  BY <1>1, <1>4, <1>6, <1>7 DEF TextInv, T!vars

LEMMA WriteShown ==
  ASSUME TypeOK, TypeOK', TextInv, RingInv, NEW t \in Tasks, NEW c \in Consoles, con_write(t, c)
  PROVE  TextInv' /\ T!Next
<1>1. c \in Open /\ UNCHANGED <<prev, next, current, fds>> /\ Open' = Open
  BY DEF con_write, Open, ring
<1>2. current # NULL
  BY <1>1, ConsoleAssumption DEF RingInv, NULL, Open, TypeOK, Consoles
<1>3. /\ vga' = IF c = current THEN Append(vga, c) ELSE vga
      /\ buffer' = IF c = current THEN buffer ELSE [buffer EXCEPT ![c] = Append(buffer[c], c)]
  BY DEF con_write
<1>4. vga' \in Seq(Consoles) /\ buffer' \in [Consoles -> Seq(Consoles)]
  BY <1>3 DEF TextInv
<1>5. TextInv'
  BY <1>1, <1>2, <1>4 DEF TextInv
<1>6. Shown' = [Shown EXCEPT ![c] = Append(Shown[c], c)]
  <2>1. Shown'[c] = Append(Shown[c], c)
    BY <1>1, <1>3 DEF Shown, TextInv
  <2>2. \A d \in Consoles \ {c} : Shown'[d] = Shown[d]
    BY <1>1, <1>3 DEF Shown, TextInv
  <2>3. Shown' = [d \in Consoles |-> Shown'[d]]
    BY DEF Shown
  <2> HIDE DEF Shown
  <2>4. QED
    BY <2>1, <2>2, <2>3, ShownIs
<1>7. PICK f, n : FromFocus(f, n)
  BY FocusFirst
<1>8. FromFocus(f, n)'
  BY <1>1, <1>7 DEF FromFocus
<1>9. /\ T!Now = At(ListOf(f, n), Shown) /\ T!Now' = At(ListOf(f, n), Shown')
      /\ T!ToSet(ListOf(f, n)) = Open
  BY <1>7, <1>8, SeenTogether DEF At
<1>10. QED
  BY <1>1, <1>5, <1>6, <1>9, TerminalSteps, ShownIs

(* The handler moves the focus to one of the neighbours, or wakes a reader *)
(* (con.c:205-228).                                                        *)
LEMMA HandlerShown ==
  ASSUME TypeOK, TypeOK', TextInv, RingInv, keyboard_handler
  PROVE  TextInv' /\ (T!Next \/ UNCHANGED T!vars)
<1>1. UNCHANGED <<prev, next, fds>> /\ Open' = Open /\ current # NULL
  BY DEF keyboard_handler, ring, Open
<1>2. PICK f, n : FromFocus(f, n)
  BY FocusFirst
<1>3. /\ n \in Nat \ {0} /\ f \in [0 .. n - 1 -> Consoles] /\ Rounds(f, n, Open, next, prev)
      /\ 0 \in 0 .. n - 1 /\ f[0] = current /\ current \in Consoles /\ current \in Open
  BY <1>1, <1>2, FocusOpen
<1>4. /\ Succ(0, n) \in 0 .. n - 1 /\ next[current] = f[Succ(0, n)]
      /\ n - 1 \in 0 .. n - 1 /\ prev[current] = f[n - 1]
  BY <1>3 DEF Rounds, Succ
<1>5. ASSUME NEW p \in {Succ(0, n), n - 1}, switch_console(current, buffer, f[p])
      PROVE  TextInv' /\ T!Next
  <2> DEFINE c == f[p]
             g == Turned(f, n, p)
  <2>1. p \in 0 .. n - 1 /\ c \in Consoles /\ c \in Open
    BY <1>3, <1>4 DEF Rounds
  <2> HIDE DEF c
  <2>2. /\ current' = c /\ vga' = IF c = current THEN vga ELSE buffer[c]
        /\ \A d \in Consoles \ {c} : buffer'[d] = IF d = current THEN vga ELSE buffer[d]
        /\ TextInv'
    <3>1. switch_console(current, buffer, c)
      BY <1>5 DEF c
    <3>2. current \in Consoles \cup {NULL} /\ buffer \in [Consoles -> Seq(Consoles)]
      BY <1>3 DEF TextInv
    <3>3. QED
      BY <2>1, <3>1, <3>2, SwitchShown
  <2>3. Shown' = Shown
    <3>1. \A d \in Consoles : Shown'[d] = Shown[d]
      BY <1>1, <1>3, <2>1, <2>2 DEF Shown
    <3>2. Shown' = [d \in Consoles |-> Shown'[d]]
      BY DEF Shown
    <3> HIDE DEF Shown
    <3>3. QED
      BY <3>1, <3>2, ShownIs
  <2>4. g \in [0 .. n - 1 -> Consoles] /\ Rounds(g, n, Open', next', prev')
    BY <1>1, <1>3, <2>1, Turn
  <2>5. g[0] = c
    BY <1>3, <2>1 DEF Turned, c
  <2> HIDE DEF g
  <2>6. FromFocus(g, n)'
    BY <1>3, <2>2, <2>4, <2>5 DEF FromFocus
  <2>7. ListOf(g, n) \in {T!Rotated(ListOf(f, n)), T!RotatedBack(ListOf(f, n))}
    BY <1>3, TurnedSeq DEF g
  <2>8. T!Now = At(ListOf(f, n), Shown) /\ T!Now' = At(ListOf(g, n), Shown')
    BY <1>2, <2>6, SeenTogether DEF At
  <2>9. QED
    BY <2>2, <2>3, <2>7, <2>8, TerminalSteps, ShownIs
<1>6. CASE UNCHANGED shown
  BY <1>1, <1>6, SameShown
<1>7. CASE \/ switch_console(current, buffer, prev[current])
           \/ switch_console(current, buffer, next[current])
  BY <1>4, <1>5, <1>7
<1>8. QED
  BY <1>6, <1>7 DEF keyboard_handler

(* Nobody has c open any more: what was seen but c's text, and T's ring    *)
(* without c, by how c was linked (con.c:136-160).                         *)
LEMMA FlushShown ==
  ASSUME TypeOK, TypeOK', TextInv, RingInv, NEW t \in Tasks, NEW c \in Consoles, con_flush(t, c)
  PROVE  TextInv' /\ (T!Next \/ UNCHANGED T!vars)
<1>1. /\ c \in fds[t] /\ fds' = [fds EXCEPT ![t] = @ \ {c}] /\ c \in Open
      /\ Open \subseteq Consoles
  BY DEF con_flush, Open, TypeOK
<1>2. \A u \in Tasks : fds'[u] = IF u = t THEN fds[t] \ {c} ELSE fds[u]
  BY <1>1 DEF TypeOK
<1>3. ASSUME NEW u \in Tasks \ {t}, c \in fds[u], UNCHANGED <<ring, shown, call>>
      PROVE  TextInv' /\ UNCHANGED T!vars
  <2>1. \A d : d \in Open' <=> d \in Open
    BY <1>2, <1>3 DEF Open
  <2>2. Open' = Open
    BY <2>1
  <2>3. QED
    BY <1>3, <2>2, SameShown DEF ring
<1>4. ASSUME \A u \in Tasks \ {t} : c \notin fds[u], remove_console(c),
             \/ c # current /\ UNCHANGED shown
             \/ /\ c = current /\ ~ (prev[c] = c /\ next[c] = c)
                /\ switch_console(NULL, buffer, prev[c])
             \/ /\ c = current /\ prev[c] = c
                /\ current' = NULL /\ vga' = <<>> /\ buffer' = buffer
      PROVE  TextInv' /\ T!Next
  <2>1. Open' = Open \ {c}
    <3>1. \A d : d \in Open' <=> d \in Open /\ d # c
      BY <1>2, <1>4 DEF Open
    <3>2. QED
      BY <3>1
  <2>2. PICK f, n : FromFocus(f, n)
    BY FocusFirst
  <2>3. /\ n \in Nat \ {0} /\ f \in [0 .. n - 1 -> Consoles] /\ Rounds(f, n, Open, next, prev)
        /\ 0 \in 0 .. n - 1 /\ f[0] = current
    BY <1>1, <2>2, FocusOpen
  <2>4. PICK p \in 0 .. n - 1 : f[p] = c
    BY <1>1, <2>3 DEF Rounds
  <2>5. p = 0 <=> c = current
    BY <2>3, <2>4 DEF Rounds
  <2> DEFINE r == ListOf(f, n)
             h == Without(f, n, p)
  <2>6. p + 1 \in DOMAIN r /\ r[p + 1] = c
    <3>1. Reads(r, f, n)
      BY <2>3, SeqReads
    <3>2. DOMAIN r = 1 .. n /\ \A i \in 1 .. n : r[i] = f[i - 1]
      BY <2>3, <3>1, LenProperties DEF Reads
    <3>3. p + 1 \in 1 .. n /\ (p + 1) - 1 = p
      BY <2>3, <2>4
    <3>4. QED
      BY <2>4, <3>2, <3>3
  <2>7. /\ p = 0 => Tail(r) = ListOf(h, n - 1)
        /\ p # 0 => T!Without(p + 1, r) = ListOf(h, n - 1)
    <3>1. p = 0 => Tail(r) = ListOf(h, n - 1)
      BY <2>3, RemovedSeq
    <3>2. p # 0 => p \in 1 .. n - 1 /\ p + 1 # 1
      BY <2>3, <2>4
    <3>3. p # 0 => T!RemoveAt(r, p + 1) = ListOf(h, n - 1)
      BY <2>3, <3>2, RemovedSeq
    <3>4. QED
      BY <3>1, <3>2, <3>3 DEF T!Without
  <2> HIDE DEF r
  <2>8. CASE n = 1
    <3> DEFINE g == [k \in 0 .. 0 - 1 |-> c]
    <3>1. p = 0 /\ f \in [0 .. 1 - 1 -> Consoles] /\ f[0] = c /\ Rounds(f, 1, Open, next, prev)
      BY <2>3, <2>4, <2>8
    <3>2. prev[c] = c /\ next[c] = c /\ Open' = {}
      BY <2>1, <3>1, LastLinks
    <3>3. current' = NULL /\ vga' = <<>> /\ buffer' = buffer /\ c = current
      BY <1>4, <2>5, <3>1, <3>2
    <3>4. TextInv'
      BY <3>3 DEF TextInv
    <3>5. g \in [0 .. 0 - 1 -> Consoles] /\ Rounds(g, 0, Open', next', prev')
      <4>1. 0 .. 0 - 1 = {} /\ g \in [0 .. 0 - 1 -> Consoles]
        OBVIOUS
      <4>2. QED
        BY <3>2, <4>1 DEF Rounds
    <3> HIDE DEF g
    <3>6. FromFocus(g, 0)'
      BY <3>3, <3>5 DEF FromFocus
    <3>7. ListOf(g, 0) = <<>> /\ ListOf(h, n - 1) = <<>>
      BY <2>8 DEF ListOf
    <3>8. ListOf(g, 0) = T!Without(p + 1, r)
      BY <2>7, <3>1, <3>7 DEF T!Without, T!RotatedBack
    <3>9. Shown' = [Shown EXCEPT ![c] = <<>>]
      <4>1. \A d \in Consoles : d # current'
        BY <3>3, ConsoleAssumption DEF Consoles, NULL
      <4>2. \A d \in Consoles : Shown'[d] = <<>>
        BY <3>2, <4>1 DEF Shown
      <4>3. \A d \in Consoles \ {c} : Shown[d] = <<>>
        BY <2>1, <3>2, <3>3 DEF Shown
      <4>4. Shown' = [d \in Consoles |-> Shown'[d]]
        BY DEF Shown
      <4> HIDE DEF Shown
      <4>5. QED
        BY <4>2, <4>3, <4>4, ShownIs
    <3>10. T!Now = At(r, Shown) /\ T!Now' = At(ListOf(g, 0), Shown')
      BY <2>2, <3>6, SeenTogether DEF At, r
    <3>11. QED
      BY <2>6, <3>4, <3>8, <3>9, <3>10, TerminalSteps, ShownIs
  <2>9. CASE n > 1
    <3> DEFINE q == IF p = 0 THEN n - 1 ELSE p - 1
    <3> HIDE DEF h
    <3>1. RemovedAt(f, n, p, q, c)
      BY <1>4, <2>1, <2>3, <2>4, <2>9 DEF RemovedAt
    <3>2. /\ q \in 0 .. n - 1 /\ prev[c] = f[q] /\ prev[c] # c
          /\ h \in [0 .. n - 2 -> Consoles] /\ Rounds(h, n - 1, Open', next', prev')
      <4> HIDE DEF q
      <4>1. /\ q \in 0 .. n - 1 /\ prev[c] = f[q] /\ prev[c] # c
            /\ Without(f, n, p) \in [0 .. n - 2 -> Consoles]
            /\ Rounds(Without(f, n, p), n - 1, Open', next', prev')
        BY <3>1, RemoveLinks
      <4>2. QED
        BY <4>1 DEF h
    <3>3. n - 1 \in Nat \ {0} /\ (n - 1) - 1 = n - 2 /\ n - 2 \in 0 .. n - 2 /\ 0 \in 0 .. n - 2
      BY <2>3, <2>9
    <3>4. \A k \in 0 .. n - 2 : h[k] = IF k < p THEN f[k] ELSE f[k + 1]
      BY DEF h, Without
    <3>5. CASE p # 0
      <4>1. c # current /\ UNCHANGED <<current, vga, buffer>>
        BY <1>4, <2>5, <3>5 DEF shown
      <4>2. h[0] = current
        BY <2>3, <2>4, <3>3, <3>4, <3>5
      <4>3. FromFocus(h, n - 1)'
        BY <3>2, <3>3, <4>1, <4>2 DEF FromFocus
      <4>4. Shown' = [Shown EXCEPT ![c] = <<>>]
        <5>1. Shown'[c] = <<>> /\ \A d \in Consoles \ {c} : Shown'[d] = Shown[d]
          BY <2>1, <4>1 DEF Shown
        <5>2. Shown' = [d \in Consoles |-> Shown'[d]]
          BY DEF Shown
        <5> HIDE DEF Shown
        <5>3. QED
          BY <5>1, <5>2, ShownIs
      <4>5. T!Now = At(r, Shown) /\ T!Now' = At(ListOf(h, n - 1), Shown')
        BY <2>2, <4>3, SeenTogether DEF At, r
      <4>6. TextInv'
        BY <4>1 DEF TextInv
      <4>7. QED
        BY <2>6, <2>7, <3>5, <4>4, <4>5, <4>6, TerminalSteps, ShownIs
    <3>6. CASE p = 0
      <4> DEFINE e == prev[c]
                 g == Turned(h, n - 1, n - 2)
      <4>1. c = current /\ switch_console(NULL, buffer, e)
        BY <1>4, <2>5, <3>2, <3>6
      <4>2. e = f[n - 1] /\ e \in Consoles /\ e # c /\ e \in Open
        BY <2>3, <3>2, <3>6 DEF Rounds
      <4> HIDE DEF e
      <4>3. e # NULL /\ buffer \in [Consoles -> Seq(Consoles)]
        BY <4>2, ConsoleAssumption DEF Consoles, NULL, TextInv
      <4>4. /\ current' = e /\ vga' = IF e = NULL THEN vga ELSE buffer[e]
            /\ \A d \in Consoles \ {e} : buffer'[d] = IF d = NULL THEN vga ELSE buffer[d]
            /\ TextInv'
        <5>1. NULL \in Consoles \cup {NULL} /\ e \in Consoles /\ switch_console(NULL, buffer, e)
          BY <4>1, <4>2
        <5>2. QED
          BY <4>3, <5>1, SwitchShown
      <4>5. \A d \in Consoles : d # NULL
        BY ConsoleAssumption DEF Consoles, NULL
      <4>6. g \in [0 .. (n - 1) - 1 -> Consoles] /\ Rounds(g, n - 1, Open', next', prev')
        BY <3>2, <3>3, Turn
      <4>7. g[0] = e
        <5>1. h[n - 2] = f[n - 1]
          BY <2>3, <3>3, <3>4, <3>6
        <5>2. 0 \in 0 .. (n - 1) - 1 /\ (IF 0 + (n - 2) < n - 1 THEN 0 + (n - 2)
                                         ELSE 0 + (n - 2) - (n - 1)) = n - 2
          BY <3>3
        <5>3. QED
          BY <4>2, <5>1, <5>2 DEF Turned
      <4>8. ListOf(g, n - 1) = T!RotatedBack(ListOf(h, n - 1))
        <5>1. n - 1 \in Nat \ {0} /\ h \in [0 .. (n - 1) - 1 -> Consoles] /\ (n - 1) - 1 = n - 2
          BY <3>2, <3>3
        <5>2. T!RotatedBack(ListOf(h, n - 1)) = ListOf(Turned(h, n - 1, (n - 1) - 1), n - 1)
          BY <5>1, TurnedSeq
        <5>3. QED
          BY <5>1, <5>2
      <4> HIDE DEF g
      <4>9. FromFocus(g, n - 1)'
        BY <3>3, <4>4, <4>6, <4>7 DEF FromFocus
      <4>10. ListOf(g, n - 1) = T!Without(p + 1, r)
        <5>1. p + 1 = 1 /\ Tail(r) = ListOf(h, n - 1)
          BY <2>7, <3>6
        <5>2. QED
          BY <4>8, <5>1 DEF T!Without
      <4>11. Shown' = [Shown EXCEPT ![c] = <<>>]
        <5>1. Shown'[c] = <<>>
          BY <2>1, <4>2, <4>4 DEF Shown
        <5>2. \A d \in Consoles \ {c} : Shown'[d] = Shown[d]
          BY <2>1, <4>1, <4>2, <4>3, <4>4, <4>5 DEF Shown
        <5>3. Shown' = [d \in Consoles |-> Shown'[d]]
          BY DEF Shown
        <5> HIDE DEF Shown
        <5>4. QED
          BY <5>1, <5>2, <5>3, ShownIs
      <4>12. T!Now = At(r, Shown) /\ T!Now' = At(ListOf(g, n - 1), Shown')
        BY <2>2, <4>9, SeenTogether DEF At, r
      <4>13. QED
        BY <2>6, <4>4, <4>10, <4>11, <4>12, TerminalSteps, ShownIs
    <3>7. QED
      BY <3>5, <3>6
  <2>10. QED
    BY <2>3, <2>8, <2>9
<1>5. \/ \E u \in Tasks \ {t} : c \in fds[u] /\ UNCHANGED <<ring, shown, call>>
      \/ /\ \A u \in Tasks \ {t} : c \notin fds[u]
         /\ remove_console(c)
         /\ \/ c # current /\ UNCHANGED shown
            \/ /\ c = current /\ ~ (prev[c] = c /\ next[c] = c)
               /\ switch_console(NULL, buffer, prev[c])
            \/ /\ c = current /\ prev[c] = c
               /\ current' = NULL /\ vga' = <<>> /\ buffer' = buffer
  BY DEF con_flush
<1>6. QED
  BY <1>3, <1>4, <1>5

LEMMA StepShown ==
  ASSUME TypeOK, TypeOK', RingInv, TextInv, [Next]_vars
  PROVE  TextInv' /\ (T!Next \/ UNCHANGED T!vars)
<1> DEFINE Still == Open' = Open /\ UNCHANGED <<prev, next, shown>>
<1>1. CASE Still
  BY <1>1, SameShown
<1>2. CASE UNCHANGED vars
  BY <1>1, <1>2 DEF vars, ring, Open
<1>3. ASSUME NEW t \in Tasks, NEW c \in Consoles,
             con_open(t, c) \/ con_write(t, c) \/ con_flush(t, c)
      PROVE  TextInv' /\ (T!Next \/ UNCHANGED T!vars)
  BY <1>3, OpenShown, WriteShown, FlushShown
<1>4. ASSUME NEW t \in Tasks, NEW c \in Consoles, NEW size, con_read(t, c, size)
      PROVE  Still
  BY <1>4 DEF con_read, ring, Open
<1>5. ASSUME NEW t \in Tasks, NEW child \in Tasks, Fork(t, child)
      PROVE  Still
  BY <1>5, ForkOpen DEF Fork, ring
<1>6. ASSUME NEW t \in Tasks, ReadGoesOn(t) \/ CloseGoesOn(t)
      PROVE  Still
  BY <1>6 DEF ReadGoesOn, CloseGoesOn, ring, Open
<1>7. ASSUME NEW key, Press(key) \/ Release(key)
      PROVE  Still
  BY <1>7 DEF Press, Release, ring, Open
<1>8. CASE keyboard_handler
  BY <1>8, HandlerShown
<1> HIDE DEF Still
<1>9. QED
  BY <1>1, <1>2, <1>3, <1>4, <1>5, <1>6, <1>7, <1>8 DEF Next, Call, Typist

LEMMA InitShown ==
  ASSUME Init
  PROVE  TextInv /\ T!Init
<1>1. current = NULL /\ vga = <<>> /\ buffer = [c \in Consoles |-> <<>>]
  BY DEF Init
<1>2. TextInv
  BY <1>1 DEF TextInv
<1>3. Ring = <<>>
  BY <1>1 DEF Ring
<1>4. \A c \in Consoles : c # current /\ c \notin ToSet(Ring)
  BY <1>1, <1>3, ConsoleAssumption DEF Consoles, NULL, ToSet
<1>5. Texts = [c \in Consoles |-> <<>>]
  BY <1>4 DEF Texts
<1>6. QED
  BY <1>2, <1>3, <1>5 DEF T!Init

(* One screen and the buffers of con.c are a text per console: every write *)
(* reaches the text of its own console and no other, wherever the focus    *)
(* went before, and the focus goes around the ring and, at a close, to the *)
(* console before (con.c:65-228).                                          *)
THEOREM Spec_ImplementsTerminals == Spec => ImplementsTerminals
<1>1. Init => IInv /\ TextInv /\ T!Init
  BY InitHolds, InitShown
<1>2. IInv /\ IInv' /\ TextInv /\ [Next]_vars => TextInv' /\ [T!Next]_(T!vars)
  BY StepShown DEF IInv
<1>3. QED
  BY <1>1, <1>2, Invariance, PTL DEF Spec, ImplementsTerminals, T!Spec
=============================================================================
