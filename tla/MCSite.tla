-------------------------------- MODULE MCSite --------------------------------
(* Site for TLC: one slot, so that two paths compete for it; the key of    *)
(* the third request is too long to be cached.  x is mapped, y is sent in  *)
(* two chunks.                                                             *)
EXTENDS Site, TLC

MCRequests == {<<<<"h">>, <<"x">>>>, <<<<"h">>, <<"y">>>>, <<<<"h">>, <<"x", "x">>>>}
MCFileOf(r) == IF r[2][1] = "x" THEN "x" ELSE "y"
OneBucket(key) == 0
LengthOf(path, version) == IF path = "x" THEN 1 ELSE 2
Symmetry == Permutations(Conns)

=============================================================================
