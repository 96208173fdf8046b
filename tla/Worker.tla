-------------------------------- MODULE Worker --------------------------------
(***************************************************************************)
(* One worker of cppsp.C: the listening socket, the pool of connection     *)
(* handlers and the life of a connection inside ConnectionHandlerInternal, *)
(* from accept over its requests to stop() and back into the pool.         *)
(*                                                                         *)
(* A worker is single-threaded, so each callback is one action.  A handler *)
(* waits for at most one thing: a recv, the application, or a write.  All  *)
(* of its state, the response object included, survives in the pool and is *)
(* met again by the next connection that the handler serves.               *)
(*                                                                         *)
(* Data abstraction.  The parser appears as RequestStream specifies it: a  *)
(* recv makes whole requests available, some of which wait in the buffer   *)
(* (buffered).  A request is its kind: "keep" and "close" are well-formed  *)
(* (with and without keep-alive), "bad" is one the parser calls malformed. *)
(* A body is a sequence of chunks <<fd, n>>, the n-th request of that      *)
(* connection for which the chunk was written; a header buffer a sequence  *)
(* of lines (DateLine, LengthLine, EmptyLine, AppLine).                    *)
(* Status and content type together are "default", "small" (they fit into  *)
(* the space in front of the headers) or "large" (they do not).            *)
(***************************************************************************)
EXTENDS Integers, Sequences, FiniteSets, SequencesExt

CONSTANTS
  Handlers,   (* ConnectionHandlerInternal objects that can be allocated         *)
  Fds,        (* file descriptors; the kernel reuses a closed one                *)
  NoFd,       (* what a new handler's socket holds                               *)
  Scripts,    (* what a client may send: sequences of requests                   *)
  Preambles   (* status and content type an application may choose               *)

Kinds == {"keep", "close", "bad"}

ASSUME WorkerAssumption ==
  /\ NoFd \notin Fds
  /\ Scripts \subseteq Seq(Kinds)
  /\ Preambles \subseteq {"default", "small", "large"}

DateLine   == <<"date", 0>>
AppLine    == <<"app", 0>>
EmptyLine  == <<"end", 0>>

(* Mutation: the length is off by one.                                     *)
ShortLength(n) == <<"length", n - 1>>

LengthLine(n) == <<"length", n>>

VARIABLES
  running,    (* FALSE once the process has called exit                          *)
  pool,       (* ObjectPool::pool, a vector used as a stack                      *)
  handler,    (* the handler objects                                             *)
  epoll,      (* descriptors registered with the worker's epoll                  *)
  conn        (* the connections as the kernel and their clients see them        *)

vars == <<running, pool, handler, epoll, conn>>

Open(f)   == conn[f].open
Active(x) == handler[x].phase \in {"recv", "handle", "write"}

-----------------------------------------------------------------------------
(***************************************************************************)
(* Response: reset, addHeader, composeHeaders.                             *)
(***************************************************************************)
(* Mutation: the body of the last response stays in the buffer.            *)
ResetButBody(r) == [r EXCEPT !.preamble = "default", !.headers = << >>]

(* Mutation: the headers of the last response stay in their buffer.        *)
ResetButHeaders(r) == [r EXCEPT !.preamble = "default", !.body = << >>]

ResetResponse(r) == [r EXCEPT !.preamble = "default", !.headers = << >>, !.body = << >>]

(* composeHeaders() appends to the header buffer before it finds out       *)
(* whether status and content type fit.                                    *)
ComposeHeaders(r) ==
  [r EXCEPT !.headers = @ \o <<DateLine, LengthLine(Len(r.body)), EmptyLine>>]

Fits(r) == r.preamble # "large"

(* Mutation: an error page announces the end of the connection, which goes *)
(* on.                                                                     *)
ClosingErrorPage(h) ==
  [h EXCEPT !.response.body = <<<<h.fd, h.current>>>>, !.response.preamble = "small",
            !.response.keepAlive = FALSE]

(* defaultHandleException() up to its finish(true).                        *)
ErrorPage(h) ==
  [h EXCEPT !.response.body = <<<<h.fd, h.current>>>>, !.response.preamble = "small"]

(* finish(true): compose and write, or write an error page instead.        *)
Finish(h) ==
  LET composed == ComposeHeaders(h.response)
      failed   == ErrorPage([h EXCEPT !.response = composed])
  IN  IF Fits(composed)
      THEN [h EXCEPT !.response = composed, !.phase = "write"]
      ELSE [failed EXCEPT !.response = ComposeHeaders(failed.response), !.phase = "write"]

(* processRequest() on the next buffered request, up to the call of the    *)
(* application.  A malformed request is answered at once; it leaves        *)
(* response.keepAlive as the last request or connection left it.           *)
ProcessRequest(h) ==
  LET kind  == Head(h.buffered)
      ready == [h EXCEPT !.response  = ResetResponse(@),
                         !.buffered  = Tail(@),
                         !.current   = @ + 1,
                         !.keepAlive = (kind = "keep")]
  IN  IF kind = "bad"
      THEN Finish([ready EXCEPT !.response.body = <<<<h.fd, ready.current>>>>,
                                !.response.preamble = "small"])
      ELSE [ready EXCEPT !.response.keepAlive = ready.keepAlive, !.phase = "handle"]

-----------------------------------------------------------------------------
(***************************************************************************)
(* Worker and ObjectPool.                                                  *)
(***************************************************************************)
NewResponse == [preamble |-> "default", headers |-> << >>, body |-> << >>, keepAlive |-> FALSE]

Unmade == [phase |-> "unmade", fd |-> NoFd, current |-> 0, keepAlive |-> FALSE,
           buffered |-> << >>, response |-> NewResponse]

Closed == [open |-> FALSE, hungUp |-> FALSE, script |-> << >>, unread |-> << >>,
           answered |-> 0]

Init ==
  /\ running = TRUE
  /\ pool = << >>
  /\ handler = [x \in Handlers |-> Unmade]
  /\ epoll = {}
  /\ conn = [f \in Fds |-> Closed]

(* Mutation: back() without pop_back().                                    *)
GetShared(x) ==
  \/ pool # << >> /\ x = Last(pool) /\ UNCHANGED pool
  \/ pool = << >> /\ handler[x].phase = "unmade" /\ UNCHANGED pool

(* get(): the object put back last, or a new one.  bool members of a new   *)
(* object are uninitialized: response.keepAlive may have either value.     *)
Get(x) ==
  \/ /\ pool # << >>
     /\ x = Last(pool)
     /\ pool' = Front(pool)
  \/ /\ pool = << >>
     /\ handler[x].phase = "unmade"
     /\ UNCHANGED pool

Uninitialized(x) == IF handler[x].phase = "unmade" THEN BOOLEAN ELSE {handler[x].response.keepAlive}

(* The accept callback and start(clientfd).                                *)
Started(h, f, b) ==
  [phase |-> "recv", fd |-> f, current |-> 0, keepAlive |-> h.keepAlive, buffered |-> << >>,
   response |-> [h.response EXCEPT !.keepAlive = b]]

Accept(x, f) ==
  /\ running
  /\ ~Open(f)
  /\ Get(x)
  /\ \E b \in Uninitialized(x) : handler' = [handler EXCEPT ![x] = Started(@, f, b)]
  /\ \E s \in Scripts :
       conn' = [conn EXCEPT ![f] = [Closed EXCEPT !.open = TRUE, !.script = s, !.unread = s]]
  /\ epoll' = epoll \cup {f}
  /\ UNCHANGED running

(* accept() fails, for instance because no descriptor is left: exit(1).    *)
AcceptError ==
  /\ running
  /\ \A f \in Fds : Open(f)
  /\ running' = FALSE
  /\ UNCHANGED <<pool, handler, epoll, conn>>

(* Mutation: the handler is put back without closing its socket.           *)
StopUnclosed(x) ==
  /\ epoll' = epoll \ {handler[x].fd}
  /\ pool' = Append(pool, x)
  /\ handler' = [handler EXCEPT ![x].phase = "pooled"]
  /\ UNCHANGED conn

(* stop() and connectionClosedCB(): the socket is closed, the handler goes *)
(* back to the pool.                                                       *)
Stop(x) ==
  LET f == handler[x].fd IN
  /\ epoll' = epoll \ {f}
  /\ conn' = [conn EXCEPT ![f] = Closed]
  /\ pool' = Append(pool, x)
  /\ handler' = [handler EXCEPT ![x].phase = "pooled"]

(* Mutation: what is buffered is looked at before keepAlive.               *)
CompletedBufferFirst(x, answered) ==
  LET h == handler[x] IN
  \/ /\ ~h.keepAlive /\ h.buffered = << >>
     /\ Stop(x)
  \/ /\ h.keepAlive \/ h.buffered # << >>
     /\ handler' = [handler EXCEPT ![x] =
          IF h.buffered = << >> THEN [h EXCEPT !.phase = "recv"] ELSE ProcessRequest(h)]
     /\ conn' = [conn EXCEPT ![h.fd].answered = answered]
     /\ UNCHANGED <<pool, epoll>>

(* requestCompleted(): stop, or go on with a request that is buffered, or  *)
(* read.                                                                   *)
RequestCompleted(x, answered) ==
  LET h == handler[x] IN
  \/ /\ ~h.keepAlive
     /\ Stop(x)
  \/ /\ h.keepAlive
     /\ handler' = [handler EXCEPT ![x] =
          IF h.buffered = << >> THEN [h EXCEPT !.phase = "recv"] ELSE ProcessRequest(h)]
     /\ conn' = [conn EXCEPT ![h.fd].answered = answered]
     /\ UNCHANGED <<pool, epoll>>

-----------------------------------------------------------------------------
(***************************************************************************)
(* The callbacks of a connection.                                          *)
(***************************************************************************)
(* readCB(r > 0): the next n requests of the client are in the buffer.     *)
ReadCB(x, n) ==
  LET h == handler[x]
      unread == conn[h.fd].unread
  IN
  /\ running
  /\ h.phase = "recv"
  /\ n <= Len(unread)
  /\ handler' = [handler EXCEPT ![x] = ProcessRequest([h EXCEPT !.buffered = SubSeq(unread, 1, n)])]
  /\ conn' = [conn EXCEPT ![h.fd].unread = SubSeq(unread, n + 1, Len(unread))]
  /\ UNCHANGED <<running, pool, epoll>>

(* readCB(r <= 0): the client is gone.                                     *)
ReadEnd(x) ==
  /\ running
  /\ handler[x].phase = "recv"
  /\ conn[handler[x].fd].hungUp
  /\ Stop(x)
  /\ UNCHANGED running

(* The application sets status and content type to p, adds a header and    *)
(* writes n chunks; then it calls finish(true) or throws.                  *)
Written(h, p, n) ==
  [h EXCEPT !.response.preamble = p,
            !.response.headers = Append(@, AppLine),
            !.response.body = @ \o [i \in 1..n |-> <<h.fd, h.current>>]]

AppFinish(x) ==
  /\ running
  /\ handler[x].phase = "handle"
  /\ \E p \in Preambles, n \in 0..1 : handler' = [handler EXCEPT ![x] = Finish(Written(@, p, n))]
  /\ UNCHANGED <<running, pool, epoll, conn>>

AppThrow(x) ==
  /\ running
  /\ handler[x].phase = "handle"
  /\ \E p \in Preambles, n \in 0..1 :
       handler' = [handler EXCEPT ![x] = Finish(ErrorPage(Written(@, p, n)))]
  /\ UNCHANGED <<running, pool, epoll, conn>>

(* finish(false): for an application that has used the socket itself.      *)
AppFinishUnflushed(x) ==
  /\ running
  /\ handler[x].phase = "handle"
  /\ RequestCompleted(x, conn[handler[x].fd].answered)
  /\ UNCHANGED running

AppAbort(x) ==
  /\ running
  /\ handler[x].phase = "handle"
  /\ Stop(x)
  /\ UNCHANGED running

(* The callback of writevAll.                                              *)
WriteDone(x) ==
  /\ running
  /\ handler[x].phase = "write"
  /\ RequestCompleted(x, handler[x].current)
  /\ UNCHANGED running

WriteFailed(x) ==
  /\ running
  /\ handler[x].phase = "write"
  /\ conn[handler[x].fd].hungUp
  /\ Stop(x)
  /\ UNCHANGED running

(* Environment: the client of descriptor f closes or resets.               *)
HangUp(f) ==
  /\ running
  /\ Open(f) /\ ~conn[f].hungUp
  /\ conn' = [conn EXCEPT ![f].hungUp = TRUE]
  /\ UNCHANGED <<running, pool, handler, epoll>>

(* After exit(1) nothing happens any more.                                 *)
Exited == ~running /\ UNCHANGED vars

App(x)  == AppFinish(x) \/ AppThrow(x) \/ AppFinishUnflushed(x) \/ AppAbort(x)
Read(x) == ReadEnd(x) \/ \E f \in Fds : \E n \in 1..Len(conn[f].unread) : ReadCB(x, n)
Write(x) == WriteDone(x) \/ WriteFailed(x)

Next ==
  \/ \E x \in Handlers, f \in Fds : Accept(x, f)
  \/ AcceptError
  \/ \E x \in Handlers : Read(x) \/ App(x) \/ Write(x)
  \/ \E f \in Fds : HangUp(f)
  \/ Exited

Spec == Init /\ [][Next]_vars

(* The event loop reports ready sockets, the application answers the       *)
(* requests it is given, and a write to a client that is gone ends, one    *)
(* way or the other.  Nothing obliges a client to read or to hang up.      *)
FairSpec ==
  /\ Spec
  /\ \A x \in Handlers : /\ WF_vars(Read(x))
                         /\ WF_vars(App(x))
                         /\ WF_vars(Write(x) /\ conn[handler[x].fd].hungUp)

-----------------------------------------------------------------------------
(***************************************************************************)
(* Properties.                                                             *)
(***************************************************************************)
ResponseType ==
  [preamble : {"default", "small", "large"}, headers : Seq({"app", "date", "length", "end"} \X Nat),
   body : Seq(Fds \X Nat), keepAlive : BOOLEAN]

HandlerType ==
  [phase : {"unmade", "pooled", "recv", "handle", "write"}, fd : Fds \cup {NoFd},
   current : Nat, keepAlive : BOOLEAN, buffered : Seq(Kinds), response : ResponseType]

ConnType == [open : BOOLEAN, hungUp : BOOLEAN, script : Seq(Kinds), unread : Seq(Kinds), answered : Nat]

TypeOK ==
  /\ running \in BOOLEAN
  /\ pool \in Seq(Handlers)
  /\ epoll \subseteq Fds
  /\ handler \in [Handlers -> HandlerType]
  /\ conn \in [Fds -> ConnType]

(* No handler is lost, pooled twice, or pooled while a connection still    *)
(* uses it, although get() and put() trust their callers (cppsp.C:141-155, *)
(* 386-388, 411-415).                                                      *)
PoolSound ==
  /\ IsInjective(pool)
  /\ \A x \in Handlers : handler[x].phase = "pooled" <=> x \in Range(pool)

(* Every open connection belongs to exactly one handler, which will close  *)
(* it, and epoll knows exactly the open ones: no descriptor leaks, and     *)
(* none is used after the kernel may have given it to somebody else.       *)
DescriptorsOwned ==
  /\ \A x, y \in Handlers :
       Active(x) /\ Active(y) /\ handler[x].fd = handler[y].fd => x = y
  /\ {handler[x].fd : x \in {y \in Handlers : Active(y)}} = {f \in Fds : Open(f)}
  /\ epoll = {f \in Fds : Open(f)}

(* A response that is being written answers a request that was not         *)
(* answered before, on the descriptor it came from, and consists of what   *)
(* was written for that request: nothing of an earlier request or of an    *)
(* earlier owner of the pooled response object is in it.                   *)
Writing(x) == handler[x].phase = "write"

AnswersTheirRequests ==
  \A x \in Handlers : Writing(x) =>
    LET h == handler[x] IN
    /\ conn[h.fd].answered < h.current
    /\ \A k \in DOMAIN h.response.body : h.response.body[k] = <<h.fd, h.current>>
    /\ Cardinality({k \in DOMAIN h.response.headers : h.response.headers[k] = AppLine}) <= 1

(* A client that asked for it, and only such a client, is told that the    *)
(* connection stays open.  Answers to malformed requests are excepted:     *)
(* processRequest() does not set response.keepAlive for them               *)
(* (cppsp.C:249-256).                                                      *)
KeepAliveAnnounced ==
  \A x \in Handlers : Writing(x) =>
    LET kind == conn[handler[x].fd].script[handler[x].current]
    IN  kind # "bad" => handler[x].response.keepAlive = (kind = "keep")

(* No request is processed behind one that ends the connection, even if    *)
(* the client has pipelined it (cppsp.C:325-336).                          *)
NothingAfterClose ==
  \A x \in Handlers : Active(x) =>
    \A k \in 1..(handler[x].current - 1) : conn[handler[x].fd].script[k] = "keep"

(* A client can frame what it receives: one empty line ends the headers,   *)
(* and the one Content-Length before it is the length of the body          *)
(* (cppsp.H:77-83).                                                        *)
Framed(r) ==
  LET lengths == {k \in DOMAIN r.headers : r.headers[k][1] = "length"} IN
  /\ \A k \in DOMAIN r.headers : r.headers[k] = EmptyLine <=> k = Len(r.headers)
  /\ Cardinality(lengths) = 1
  /\ \A k \in lengths : r.headers[k] = LengthLine(Len(r.body))

ResponsesFramed == \A x \in Handlers : Writing(x) => Framed(handler[x].response)

(* Nothing but a status and content type that do not fit ever spoils a     *)
(* response, no earlier use of the pooled object in particular.  What is   *)
(* sent then is one error page, behind the headers of both attempts        *)
(* (cppsp.C:63-68, 293-296).                                               *)
FramedUnlessRefused ==
  \A x \in Handlers : Writing(x) =>
    LET r == handler[x].response IN
    \/ Framed(r)
    \/ /\ r.preamble = "small"
       /\ Len(r.body) = 1
       /\ Cardinality({k \in DOMAIN r.headers : r.headers[k] = DateLine}) = 2

(* When a client hangs up, its handler and its descriptor are released,    *)
(* whatever it was waiting for.                                            *)
HangUpReleases ==
  \A f \in Fds : (Open(f) /\ conn[f].hungUp) ~> (~Open(f) \/ ~running)

=============================================================================
