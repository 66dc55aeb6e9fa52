---------------------------- MODULE MCFileSystem ----------------------------
(* FileSystem with files of no, one and two sectors, the last partly used,      *)
(* which no transfer of two bytes is aligned with.                          *)
EXTENDS FileSystem, TLC

SmallFiles == {<<>>, <<6, 7>>, <<1, 2, 3, 4, 5>>}

Symmetry == Permutations(Names)
=============================================================================
