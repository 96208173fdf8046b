-------------------------- MODULE MCWebSocketParser --------------------------
(* WebSocketParser for TLC: streams of two and three frames of every       *)
(* length format, masked and not, up to the size limit and beyond it.      *)
EXTENDS WebSocketParser

Frame(format, length, mask) == [format |-> format, length |-> length, mask |-> mask]

Small == {Frame(7, 0, FALSE), Frame(7, 2, TRUE), Frame(16, 1, TRUE)}
Large == {Frame(7, maxFrameSize - 2, TRUE), Frame(64, maxFrameSize - 4, TRUE),
          Frame(16, maxFrameSize - 1, FALSE), Frame(64, maxFrameSize + 1, FALSE)}

MCScripts == {<<a, b, c>> : a \in Small, b \in Small, c \in Large}
               \cup {<<a, b>> : a \in Large, b \in Small}

=============================================================================
