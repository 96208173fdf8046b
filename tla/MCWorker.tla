------------------------------- MODULE MCWorker -------------------------------
(* Worker for TLC.                                                         *)
EXTENDS Worker

MCScripts == {<<"keep", "bad">>, <<"close", "keep">>, <<"keep">>}
ShortScripts == {<<"keep", "close">>, <<"bad">>}

=============================================================================
