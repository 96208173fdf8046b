---------------------------- MODULE MCStaticFiles ----------------------------
(* StaticFiles for TLC: version 1 of a file is mapped, versions 2 and 3    *)
(* are sent in two and three chunks.                                       *)
EXTENDS StaticFiles, TLC

LengthOf(path, version) == version
Symmetry == Permutations(Paths \ Volatile) \cup Permutations(Conns)

=============================================================================
