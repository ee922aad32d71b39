--------------------------- MODULE MCFatDirectory ---------------------------
EXTENDS FatDirectory

Slot(kind, name, type, cluster, seq, piece) ==
  [kind |-> kind, name |-> name, type |-> type, cluster |-> cluster, seq |-> seq, piece |-> piece]

E == Slot("End", << >>, "File", 0, 0, "")
U == Slot("Unused", << >>, "File", 0, 0, "")
L(seq, piece) == Slot("Lfn", << >>, "File", 0, seq, piece)
D(name, cluster) == Slot("Entry", <<name>>, "Directory", cluster, 0, "")
F(name, cluster) == Slot("Entry", <<name>>, "File", cluster, 0, "")

\* The tree \A\B\C with files \F and \A\G, over two sectors of two slots a cluster:
\* A has a long name that crosses a sector, B one that crosses a cluster, and the
\* chain of A ends without an end mark.
Tree ==
  [c \in 2 .. 7 |->
     CASE c = 2 -> << <<U, L(2, "ng")>>, <<L(1, "lo"), D("A", 4)>> >>
       [] c = 3 -> << <<F("F", 8), E>>, <<E, E>> >>
       [] c = 4 -> << <<D(".", 4), D("..", 0)>>, <<U, L(1, "x")>> >>
       [] c = 5 -> << <<D("B", 6), F("G", 9)>>, <<U, U>> >>
       [] c = 6 -> << <<D(".", 6), D("..", 4)>>, <<D("C", 7), E>> >>
       [] c = 7 -> << <<D(".", 7), D("..", 6)>>, <<E, E>> >>]

Fat == [c \in 2 .. 7 |-> CASE c = 2 -> 3 [] c = 4 -> 5 [] OTHER -> EndOfChain]

Fat32 == [fat |-> Fat, slots |-> Tree, root |-> 2, root_start |-> 0, sectors |-> << >>]

\* The boot sector of a small volume, read as a directory: the jump of the boot code,
\* and a 0 where the large sector count would be.  Then the FAT, then the root.
Fat16 == [fat |-> Fat, slots |-> Tree, root |-> NoCluster, root_start |-> 2,
          sectors |-> << <<F("jump", 0), E>>, <<U, U>>, <<D("A", 4), F("F", 8)>>, <<E, E>> >>]

MCDisks32 == {Fat32}

MCDisks16 == {Fat16}

P(absolute, names) == [absolute |-> absolute, names |-> names]

A == <<"A">>
B == <<"B">>
C == <<"C">>
Up == <<"..">>

MCPaths ==
  {P(FALSE, << <<".">> >>), P(FALSE, <<Up>>), P(FALSE, <<Up, Up>>), P(FALSE, << >>), P(TRUE, << >>),
   P(FALSE, <<B>>), P(FALSE, << <<"x">> >>), P(FALSE, << <<"y">> >>),
   P(TRUE, << <<"lo", "ng">>, <<"G">> >>), P(TRUE, <<A, B, C>>), P(TRUE, <<A, << >>, B>>),
   P(TRUE, << <<"F">> >>), P(FALSE, << C, Up >>)}

\* No handle is special.
MCSymmetry == Permutations(Handles)
=============================================================================
