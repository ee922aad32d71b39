--------------------------- MODULE MCLoadedImage ---------------------------
EXTENDS LoadedImage

CONSTANTS disk, file

MCImagePaths == {Node("HW", <<disk>>) \o EndNode, Node("HW", <<disk>>) \o Node("FILE", <<file>>) \o EndNode}

Section(at, virtual, raw, size) ==
  [virtual_address |-> at, virtual_size |-> virtual, pointer_to_raw_data |-> raw, size_of_raw_data |-> size]

Reloc(type, offset) == [type |-> type, offset |-> offset]

Block(at, relocs) ==
  [virtual_address |-> at, relocs |-> relocs, size_of_block |-> BlockHeader + Len(relocs)]

\* Headers of 4 cells, a section of 6 with a longer one behind it in the file, and a
\* last section that is longer in memory than in the file.
Good ==
  [size |-> 17, e_magic |-> TRUE, e_lfanew |-> 1, signature |-> TRUE, machine |-> TRUE, magic |-> TRUE,
   size_of_image |-> 18, size_of_optional_header |-> 0, image_base |-> 2, address_of_entry_point |-> 5,
   sections |-> <<Section(4, 6, 5, 6), Section(10, 7, 11, 5)>>,
   relocs |-> <<Block(4, <<Reloc("DIR64", 1), Reloc("ABSOLUTE", 0)>>),
                Block(10, <<Reloc("HIGHLOW", 0), Reloc("LOW", 3)>>),
                Block(4, <<Reloc("DIR64", 1)>>)>>,
   reloc_size |-> 2 * (BlockHeader + 2),
   fixups |-> {[offset |-> 5, width |-> 4], [offset |-> 10, width |-> 2], [offset |-> 13, width |-> 1]},
   data |-> <<1, 0, 1, 1, 0,  1, 1, 0, 1, 1, 0,  1, 1, 0, 0, 1, 1>>]

\* A second good image linked for one of the bases, one whose NT header is cut off,
\* one of size 0 and one with a relocation type the loader does not know.
MCSources ==
  {Good,
   [Good EXCEPT !.image_base = 3, !.address_of_entry_point = 8],
   [Good EXCEPT !.size = 2],
   [Good EXCEPT !.size_of_image = 0],
   [Good EXCEPT !.relocs = <<Block(4, <<Reloc("DIR64", 1), Reloc("HIGHADJ", 0)>>)>>]}
=============================================================================
