------------------------------- MODULE FramesMC -------------------------------
(* A memory map for Frames, with pages of eight bytes.                     *)
EXTENDS Frames

Avail(a, n)    == [addr |-> a, len |-> n, available |-> TRUE]
Reserved(a, n) == [addr |-> a, len |-> n, available |-> FALSE]

(* Memory over the first megabyte, with holes that are no whole number of  *)
(* pages in the kernel's zone and in the users', and a reserved end.       *)
Maps ==
  { <<Avail(0, 8), Avail(8, 32), Reserved(40, 20), Avail(60, 4), Avail(64, 96),
      Reserved(160, 13), Avail(173, 67), Reserved(300, 8)>> }
===============================================================================
