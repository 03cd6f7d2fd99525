------------------------------- MODULE Library -------------------------------
(***************************************************************************)
(* The conversions of lib.c: numbers of WIDTH bits to digits, and          *)
(* vsnprintf.  A text is a sequence of character codes.  A format is a     *)
(* sequence of items: [k |-> "lit", n |-> the character, s |-> <<>>], the  *)
(* same with "c", "d", "u" or "x" and the argument in n, or "s" and the    *)
(* argument in s.                                                          *)
(***************************************************************************)
EXTENDS Integers, Sequences, FiniteSetsExt, SequencesExt

CONSTANT WIDTH

ASSUME LibraryAssumption == WIDTH \in 2 .. 30

Unsigned(n) == n % 2^WIDTH
Signed(n)   == LET u == Unsigned(n) IN IF u >= 2^(WIDTH - 1) THEN u - 2^WIDTH ELSE u

(* Division in C goes towards zero, and the remainder has the sign of n. *)
Div(n, d) == IF n >= 0 THEN n \div d ELSE - ((- n) \div d)
Rem(n, d) == n - d * Div(n, d)

ABS(n) == IF n > 0 THEN n ELSE Unsigned(- n)

(* Definitions named <operator>_<Slip> are variants with a plausible       *)
(* mistake; no specification uses them.                                    *)
ulen_NoneMore(n, base) ==
  CHOOSE k \in 1 .. WIDTH : n <= base^k /\ (k = 1 \/ n > base^(k - 1))

(* The number of digits, 1 for 0. *)
ulen(n, base) ==
  CHOOSE k \in 1 .. WIDTH : n < base^k /\ (k = 1 \/ n >= base^(k - 1))

len(n, base) == ulen(ABS(n), base)

ASCII_0 == 48
ASCII_a == 97
MINUS   == 45
LETTER_x == 120

Digit(d) == IF d < 10 THEN ASCII_0 + d ELSE ASCII_a + d - 10

(* The digits of number from the highest of ln: divide by pow(base, ln-1), *)
(* then by a power less, and take each result modulo the base.             *)
Digits(number, base, ln) ==
  [i \in 1 .. ln |-> Digit(Rem(Div(number, base^(ln - i)), base))]

(* Each gives what goes to the buffer and the size that is returned. *)
put_dec(n) ==
  LET number == IF n < 0 THEN Signed(- n) ELSE n
      text   == (IF n < 0 THEN <<MINUS>> ELSE <<>>) \o Digits(number, 10, len(n, 10))
  IN  [text |-> text, size |-> Len(text)]

print_udec(n) == [text |-> Digits(n, 10, ulen(n, 10)), size |-> ulen(n, 10)]

(* The zeroes in front are not counted in what it returns. *)
put_uhex(n) ==
  LET ln == ulen(n, 16) IN
  [text |-> <<ASCII_0, LETTER_x>> \o [i \in 1 .. WIDTH \div 4 - ln |-> ASCII_0]
              \o Digits(n, 16, ln),
   size |-> ln + 2]

-----------------------------------------------------------------------------
(* One item of the format, with what is left of the buffer; a buff_size    *)
(* below zero is no bound.  Only %s looks at the bound.                    *)
Converted(item, left) ==
  CASE item.k = "s" ->
         LET n == IF left < 0 \/ left > Len(item.s) THEN Len(item.s) ELSE left
         IN  [text |-> SubSeq(item.s, 1, n), size |-> n]
    [] item.k = "d" -> put_dec(item.n)
    [] item.k = "u" -> print_udec(Unsigned(item.n))
    [] item.k = "x" -> put_uhex(Unsigned(item.n))
    [] OTHER        -> [text |-> <<item.n>>, size |-> 1]

(* The loop ends with the format or when sz reaches buff_size. *)
vsnprintf(buff_size, format) ==
  FoldLeft(LAMBDA out, item :
             IF buff_size >= 0 /\ out.size >= buff_size THEN out
             ELSE LET c == Converted(item, IF buff_size < 0 THEN -1 ELSE buff_size - out.size)
                  IN  [text |-> out.text \o c.text, size |-> out.size + c.size],
           [text |-> <<>>, size |-> 0], format)

-----------------------------------------------------------------------------
(* What the digits of a text say. *)
Value(text, base) ==
  FoldLeft(LAMBDA v, c : v * base + (IF c >= ASCII_a THEN c - ASCII_a + 10 ELSE c - ASCII_0),
           0, text)

IsNumeral(text) ==
  /\ text # <<>> /\ \A i \in 1 .. Len(text) : text[i] \in ASCII_0 .. ASCII_0 + 9
  /\ Len(text) = 1 \/ text[1] # ASCII_0

(* %d, %u and %x print the number they are given, once, with no zero in    *)
(* front but those of %x, and the decimals count what they print.  The     *)
(* lowest number of all is left out: ABS and the negation give it back,    *)
(* and its digits come out as other characters.                            *)
ReadsBack(n) ==
  LET d == put_dec(n)  u == print_udec(Unsigned(n))  x == put_uhex(Unsigned(n)) IN
  /\ n # - 2^(WIDTH - 1) =>
       LET digits == IF n < 0 THEN Tail(d.text) ELSE d.text IN
       /\ IsNumeral(digits) /\ Value(digits, 10) = (IF n < 0 THEN - n ELSE n)
       /\ d.text[1] = MINUS <=> n < 0
       /\ d.size = Len(d.text)
  /\ IsNumeral(u.text) /\ Value(u.text, 10) = Unsigned(n) /\ u.size = Len(u.text)
  /\ Value(SubSeq(x.text, 3, Len(x.text)), 16) = Unsigned(n)
===============================================================================
