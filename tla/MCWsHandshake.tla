---------------------------- MODULE MCWsHandshake -----------------------------
(* WsHandshake for TLC.                                                    *)
EXTENDS WsHandshake

MCUpgrades == {Websocket, <<"W">> \o SubSeq(Websocket, 2, 9), <<"h", "2", "c">>}
LowerW(letter) == IF letter = "W" THEN "w" ELSE letter

=============================================================================
