------------------------------ MODULE WsHandshake -----------------------------
(***************************************************************************)
(* The WebSocket handshake: a handler asks ws_iswebsocket() and calls      *)
(* ws_init() (websocket.C), which composes the response into a buffer,     *)
(* moves the buffer into the callback of the write, and begins the write;  *)
(* the callback starts the WebSocket session or aborts (ws_test.C).        *)
(*                                                                         *)
(* writeAll() of cpoll-ng is external.  It is given the callback as the    *)
(* variable myCB, from which a writer may copy but not move: a write that  *)
(* completes at once runs it and returns; one that has to wait for the     *)
(* client keeps a copy, and a copied closure owns a copied buffer.  The    *)
(* view of the text, which the writer sends from, is not changed by that.  *)
(*                                                                         *)
(* Data abstraction.  A buffer of the heap is free or holds the text that  *)
(* was composed for a connection; freed memory keeps its text until it is  *)
(* allocated again.  The Upgrade header of a request is a member of        *)
(* Upgrades, its letters in some case.                                     *)
(***************************************************************************)
EXTENDS Integers, Sequences

CONSTANTS
  Conns,
  Buffers,   (* addresses that the allocator gives to texts of this size; more   *)
             (* than twice as many as connections, so that it never fails        *)
  Upgrades,  (* values of the Upgrade header, sequences of letters               *)
  Lower(_),  (* tolower()                                                        *)
  NONE

VARIABLES
  text,      (* by buffer, the connection whose response was written there last  *)
  owned,     (* the buffers that are not free                                    *)
  conn,      (* by connection, where its handler is                              *)
  init,      (* the call of ws_init() that is running                            *)
  pending,   (* by connection, the write that waits: its view, and the buffer    *)
             (* that the stored copy of the callback owns                        *)
  received   (* by connection, the texts the client has received (history)       *)

vars == <<text, owned, conn, init, pending, received>>

NoInit  == [conn |-> NONE, stage |-> "none", headers_view |-> NONE, headers |-> NONE, myCB |-> NONE]
NoWrite == [headers_view |-> NONE, cb |-> NONE]

Websocket == <<"w", "e", "b", "s", "o", "c", "k", "e", "t">>

(* ci_compare(s, t) == 0.                                                  *)
CiEqual(s, t) == Len(s) = Len(t) /\ \A i \in DOMAIN s : Lower(s[i]) = Lower(t[i])

(* ws_iswebsocket().                                                       *)
IsWebsocket(upgrade) == CiEqual(upgrade, Websocket)

Init ==
  /\ text = [b \in Buffers |-> NONE]
  /\ owned = {}
  /\ conn = [c \in Conns |-> "idle"]
  /\ init = NoInit
  /\ pending = [c \in Conns |-> NoWrite]
  /\ received = [c \in Conns |-> {}]

(* A request: a page, which is answered, or a call of ws_init().           *)
HandleRequest(c, upgrade) ==
  /\ init = NoInit /\ conn[c] = "idle"
  /\ init' = IF IsWebsocket(upgrade) THEN [NoInit EXCEPT !.conn = c, !.stage = "compose"] ELSE NoInit
  /\ received' = [received EXCEPT ![c] = {}]
  /\ UNCHANGED <<text, owned, conn, pending>>

(* The response is composed in the buffer of `headers'; its view is kept.  *)
ComposeHeaders(b) ==
  /\ init.stage = "compose"
  /\ b \notin owned
  /\ owned' = owned \cup {b}
  /\ text' = [text EXCEPT ![b] = init.conn]
  /\ init' = [init EXCEPT !.stage = "move", !.headers_view = b, !.headers = b]
  /\ UNCHANGED <<conn, pending, received>>

(* The buffer moves into the closure assigned to myCB, and `headers' goes  *)
(* out of scope without it.                                                *)
MoveIntoCallback ==
  /\ init.stage = "move"
  /\ init' = [init EXCEPT !.stage = "write", !.headers = NONE, !.myCB = init.headers]
  /\ UNCHANGED <<text, owned, conn, pending, received>>

(* The callback passed by handleWebsocket(): wsStart() or abort().         *)
CallBack(c, ok) == conn' = [conn EXCEPT ![c] = IF ok THEN "session" ELSE "idle"]

(* writeAll() sends everything, or fails, before it returns.               *)
WriteAtOnce ==
  /\ init.stage = "write"
  /\ \/ /\ received' = [received EXCEPT ![init.conn] = @ \cup {text[init.headers_view]}]
        /\ CallBack(init.conn, TRUE)
     \/ CallBack(init.conn, FALSE) /\ UNCHANGED received
  /\ init' = [init EXCEPT !.stage = "return"]
  /\ UNCHANGED <<text, owned, pending>>

(* writeAll() has to wait: it copies the callback.                         *)
WriteLater(b) ==
  /\ init.stage = "write"
  /\ b \notin owned
  /\ owned' = owned \cup {b}
  /\ text' = [text EXCEPT ![b] = text[init.myCB]]
  /\ pending' = [pending EXCEPT ![init.conn] = [headers_view |-> init.headers_view, cb |-> b]]
  /\ conn' = [conn EXCEPT ![init.conn] = "handshake"]
  /\ init' = [init EXCEPT !.stage = "return"]
  /\ UNCHANGED received

(* ws_init() returns: myCB is destroyed with the buffer it owns.           *)
ReturnFromInit ==
  /\ init.stage = "return"
  /\ owned' = owned \ {init.myCB}
  /\ init' = NoInit
  /\ UNCHANGED <<text, conn, pending, received>>

(* The event loop: some of the text is sent, from where the view points.   *)
StreamTakes(c) ==
  /\ init = NoInit /\ conn[c] = "handshake"
  /\ received' = [received EXCEPT ![c] = @ \cup {text[pending[c].headers_view]}]
  /\ UNCHANGED <<text, owned, conn, init, pending>>

(* All is sent, or the write fails: the stored callback runs and is        *)
(* destroyed.                                                              *)
WriteCompletes(c) ==
  /\ init = NoInit /\ conn[c] = "handshake"
  /\ \E ok \in BOOLEAN : CallBack(c, ok)
  /\ owned' = owned \ {pending[c].cb}
  /\ pending' = [pending EXCEPT ![c] = NoWrite]
  /\ UNCHANGED <<text, init, received>>

(* The session ends; the connection is closed, and another one accepted.   *)
SessionEnds(c) ==
  /\ init = NoInit /\ conn[c] = "session"
  /\ conn' = [conn EXCEPT ![c] = "idle"]
  /\ received' = [received EXCEPT ![c] = {}]
  /\ UNCHANGED <<text, owned, init, pending>>

Next ==
  \/ \E c \in Conns : StreamTakes(c) \/ WriteCompletes(c) \/ SessionEnds(c)
  \/ \E c \in Conns, u \in Upgrades : HandleRequest(c, u)
  \/ \E b \in Buffers : ComposeHeaders(b) \/ WriteLater(b)
  \/ MoveIntoCallback \/ WriteAtOnce \/ ReturnFromInit

Spec == Init /\ [][Next]_vars

-----------------------------------------------------------------------------
(***************************************************************************)
(* Properties.                                                             *)
(***************************************************************************)
(* A client receives the text that was composed for its own request: the   *)
(* buffer is preserved during the write, as the comment in ws_init() says  *)
(* (websocket.C:263-265).                                                  *)
HeadersPreserved == \A c \in Conns : received[c] \subseteq {c}

=============================================================================
