------------------------------ MODULE FilesMC ------------------------------
(* A disk with two groups of inodes, a directory of two files and a file   *)
(* that needs the doubly indirect blocks.                                  *)
EXTENDS Files, TLC

Inode(dir, size, block) == [kind |-> "inode", dir |-> dir, size |-> size, block |-> block]
Entry(name, inode)      == [kind |-> "entry", name |-> name, inode |-> inode]
Group(table)            == [kind |-> "group", inode_table |-> table]
Pointer(block)          == [kind |-> "pointer", block |-> block]
Data                    == [kind |-> "data"]

(* Blocks of two units, one sector each. *)
DiskOf(size, last) ==
  LET used == ( 2 :> [kind |-> "superblock", blocks_count |-> 5, blocks_per_group |-> 2,
                      inodes_per_group |-> 2]
             @@ 4 :> Group(4) @@ 5 :> Group(6) @@ 6 :> Group(8)
             @@ 9 :> Inode(TRUE, 3, <<5, 7, 0, 0>>)
             @@ 10 :> Entry("e", 3) @@ 11 :> Entry("f", 3) @@ 14 :> Entry("d", 4)
             @@ 12 :> Inode(FALSE, 3, <<18, 17, 0, 0>>)
             @@ 13 :> Inode(TRUE, 1, <<11, 0, 0, 0>>)
             @@ 22 :> Entry("g", 5)
             @@ 16 :> Inode(FALSE, size, <<20, 31, 9, 10>>)
             @@ 18 :> Pointer(22) @@ 19 :> Pointer(21)
             @@ 20 :> Pointer(12) @@ 21 :> Pointer(13)
             @@ 24 :> Pointer(25) @@ 25 :> Pointer(23)
             @@ 26 :> Pointer(30) @@ 27 :> Pointer(24))
  IN [a \in 0 .. last |-> IF a \in DOMAIN used THEN used[a] ELSE Data]

LongImage == DiskOf(13, 63)
SomePaths == {<<"d", "g">>, <<"d">>}
=============================================================================
