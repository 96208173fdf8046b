----------------------------- MODULE MCRouteCache -----------------------------
(* RouteCache for TLC.                                                     *)
EXTENDS RouteCache

(* No NUL.  The separator is in a path and in a host, and these two        *)
(* requests have the same key.  One key is too long to be cached; the      *)
(* others share two buckets, four of them the three slots of one.          *)
PlainRequests == {<<<<"a">>, <<"x">>>>, <<<<"a">>, <<"y">>>>, <<<<"b">>, <<"x">>>>,
                  <<<<"a">>, << >>>>, <<<<"b">>, <<"y">>>>, <<<<"a">>, <<"x", "y">>>>,
                  <<<<"a">>, <<"#", "x">>>>, <<<<"a", "#">>, <<"x">>>>,
                  <<<<"a">>, <<"x", "y", "x">>>>}

(* A path with an embedded NUL, as the request line may contain.           *)
NulRequests == {<<<<"a">>, <<"x", "NUL", "y">>>>, <<<<"a">>, <<"x">>>>, <<<<"b">>, <<"x">>>>}

HashOf(path) == Len(path) % 2
OneBucket(path) == 0

=============================================================================
