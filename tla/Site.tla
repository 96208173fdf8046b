-------------------------------- MODULE Site ---------------------------------
(***************************************************************************)
(* A worker that serves files: the ConnectionHandlers (cppsp.C), the route *)
(* cache and a StaticFileManager together, on one thread.                  *)
(*                                                                         *)
(* What this module adds to its parts is the call stack.  A write may      *)
(* complete while it is being issued; its callback then goes on with the   *)
(* next pipelined request inside the call of the closure that answered the *)
(* last one.  The inner request may evict and destroy that closure, delete *)
(* its file, and place a new StaticFileHandler in the scratch area.  Only  *)
(* when no operation completes at once any more, the calls return, the     *)
(* closures that processRequest() holds locally are destroyed, and the     *)
(* event loop goes on with another callback.                               *)
(*                                                                         *)
(* `handlers' of StaticFiles is no state here: the closures that exist are *)
(* those in the slots of the route cache and those in calls that have not  *)
(* returned.  The whole implements StaticFiles.                            *)
(*                                                                         *)
(* Data abstraction, besides that of the parts: a request is its host and  *)
(* path.  Whether it keeps the connection alive is any choice, and so is   *)
(* whether an operation completes at once.                                 *)
(***************************************************************************)
EXTENDS Integers, Sequences, FiniteSets, SequencesExt

CONSTANTS
  Paths, NONE, Volatile, Conns, MaxVersion, Length(_, _), maxMmapSize,
  initialCapacity, minCapacity, capacityStep, targetCacheHitRatio,
  maxPurgePerCycle, MaxHandlers, MaxRequests,
  RecheckAfter, Periods,                       (* of StaticFiles                 *)
  Requests, Buckets, Entries, MaxPath, Hash(_), (* of RouteCache                 *)
  FileOf(_),   (* the file that the application's router serves for a request    *)
  MaxPipeline, (* bound on the requests that one read finds                      *)
  MaxDepth     (* bound on the calls that have not returned                      *)

ASSUME SiteAssumption ==
  /\ IsFiniteSet(Conns) /\ NONE \notin Conns \cup Paths
  /\ {Buckets, Entries, MaxPath, MaxPipeline, MaxDepth} \subseteq Nat \ {0}
  /\ {maxPurgePerCycle, MaxHandlers, MaxRequests} \subseteq Nat
  /\ RecheckAfter \in Nat \ {0} /\ Periods \subseteq Nat
  /\ MaxHandlers > Buckets * Entries + MaxDepth
  /\ Requests \subseteq Seq(STRING) \X Seq(STRING)
  /\ \A r \in Requests : FileOf(r) \in Paths

VARIABLES
  manager, transfer, disk, changed, outcome,   (* of StaticFiles                 *)
  table, answer, recent,                       (* of RouteCache                  *)
  conn,      (* the ConnectionHandlers                                           *)
  stack,     (* the calls of processRequest() that have not returned             *)
  running    (* the connection whose code runs, NONE while calls return and in   *)
             (* the event loop                                                   *)

filesVars  == <<manager, transfer, disk, changed, outcome>>
routesVars == <<table, answer, recent>>
vars == <<filesVars, routesVars, conn, stack, running>>

Routes == INSTANCE RouteCache

ASSUME HashAssumption == \A r \in Requests : Hash(Routes!Key(r)) \in 0..(Buckets - 1)

-----------------------------------------------------------------------------
(* The closures for path p: in the cache, local to a call, and the copy    *)
(* that insert() is about to put into its slot.                            *)
CachedFor(p) ==
  {w \in (0..(Buckets - 1)) \X (0..(Entries - 1)) :
     LET handler == table[w[1]].handlers[w[2]]
     IN  handler # Routes!NoHandler /\ FileOf(handler) = p}

HeldFor(p, kinds) == {i \in DOMAIN stack : stack[i].kind \in kinds /\ FileOf(stack[i].request) = p}

HandlersOf ==
  [p \in Paths |-> Cardinality(CachedFor(p)) + Cardinality(HeldFor(p, {"miss", "copied"}))
                   + Cardinality(HeldFor(p, {"copied"}))]

Files == INSTANCE StaticFiles WITH handlers <- HandlersOf

Waiting(c) == conn[c].phase \in {"closed", "reading", "answering", "sending"}

Idle == running = NONE /\ stack = << >>

(* Mutation: callbacks run whenever they are ready.                        *)
WheneverReady(c) == TRUE

(* An operation of c completes while it is issued, or the event loop       *)
(* reports it.                                                             *)
Completes(c) == running = c \/ Idle

Working == {c \in Conns : ~Waiting(c)}

InPhase(c, phase) == conn' = [conn EXCEPT ![c].phase = phase]

Current(c) == Head(conn[c].pipeline)

InnerCallIs(kind) == stack' = [stack EXCEPT ![Len(stack)].kind = kind]

-----------------------------------------------------------------------------
Init ==
  /\ manager = [file |-> [p \in Paths |-> Files!NoFile], firstToFree |-> NONE, lastToFree |-> NONE,
                nLoaded |-> 0, capacity |-> initialCapacity, loadsCounter |-> 0, requestsCounter |-> 0]
  /\ transfer = [c \in Conns |-> Files!NoTransfer]
  /\ disk \in [Paths -> 0..1]
  /\ changed = [p \in Paths |-> RecheckAfter]
  /\ outcome = Files!Nothing
  /\ Routes!Init
  /\ conn = [c \in Conns |-> [phase |-> "closed", pipeline |-> << >>]]
  /\ stack = << >>
  /\ running = NONE

(* start(): a connection is accepted.                                      *)
Accept(c) ==
  /\ Idle /\ conn[c].phase = "closed"
  /\ conn' = [conn EXCEPT ![c] = [phase |-> "reading", pipeline |-> << >>]]
  /\ running' = c
  /\ UNCHANGED <<filesVars, routesVars, stack>>

(* stop().                                                                 *)
Closed(c) == [conn EXCEPT ![c] = [phase |-> "closed", pipeline |-> << >>]]

(* The number of requests that are still to be answered.                   *)
Outstanding ==
  Cardinality({w \in Conns \X (1..MaxPipeline) : w[2] <= Len(conn[w[1]].pipeline)})

(* readCB(): the client hung up, or the buffer holds requests.             *)
Read(c) ==
  /\ Completes(c) /\ conn[c].phase = "reading"
  /\ running' = c
  /\ \/ conn' = Closed(c)
     \/ \E n \in 1..MaxPipeline : \E s \in [1..n -> Requests] :
          /\ Len(stack) + n <= MaxDepth
          /\ manager.requestsCounter + Outstanding + n <= MaxRequests
          /\ conn' = [conn EXCEPT ![c] = [phase |-> "request", pipeline |-> s]]
  /\ UNCHANGED <<filesVars, routesVars, stack>>

(* processRequest() finds a closure in the cache.                          *)
FindCached(c) ==
  LET r == Current(c)
      key == Routes!Key(r)
  IN
  /\ running = c /\ conn[c].phase = "request"
  /\ Routes!CachedRoute(r)
  /\ stack' = Append(stack, [kind |-> "hit", request |-> r, slot |-> Routes!First(Routes!Matches(key))])
  /\ InPhase(c, "calling")
  /\ UNCHANGED <<filesVars, running>>

(* It finds none: the router makes one with createHandler(path).           *)
AskRouter(c) ==
  LET r == Current(c) IN
  /\ running = c /\ conn[c].phase = "request"
  /\ Routes!Matches(Routes!Key(r)) = {}
  /\ manager' = Files!Referenced(manager, FileOf(r))
  /\ outcome' = Files!Nothing
  /\ stack' = Append(stack, [kind |-> "miss", request |-> r, slot |-> 0])
  /\ InPhase(c, "routed")
  /\ UNCHANGED <<transfer, disk, changed, routesVars, running>>

(* The router throws: an error page is written.                            *)
RouterThrows(c) ==
  /\ running = c /\ conn[c].phase = "request"
  /\ Routes!RouterThrows(Current(c))
  /\ InPhase(c, "answering")
  /\ UNCHANGED <<filesVars, stack, running>>

(* insert(key, handler) of a key that is too long.                         *)
NotCached(c) ==
  LET key == Routes!Key(Current(c)) IN
  /\ running = c /\ conn[c].phase = "routed"
  /\ Len(key) + 1 > MaxPath
  /\ Routes!Route(Current(c))
  /\ InPhase(c, "calling")
  /\ UNCHANGED <<filesVars, stack, running>>

(* val = handler: the closure is copied, with its FileRef ...              *)
CopyHandler(c) ==
  LET r == Current(c) IN
  /\ running = c /\ conn[c].phase = "routed"
  /\ Len(Routes!Key(r)) + 1 <= MaxPath
  /\ manager' = Files!Referenced(manager, FileOf(r))
  /\ outcome' = Files!Nothing
  /\ InPhase(c, "copied")
  /\ InnerCallIs("copied")
  /\ UNCHANGED <<transfer, disk, changed, routesVars, running>>

(* Mutation: what the slot held is never destroyed.                        *)
LeakOverwritten(old) == manager

(* ... and exchanged with what the slot held, which is destroyed.          *)
WithoutOverwritten(old) ==
  IF old = Routes!NoHandler THEN manager ELSE Files!Unref(manager, FileOf(old))

SwapHandlers(c) ==
  LET r     == Current(c)
      entry == table[Hash(Routes!Key(r))]
      old   == entry.handlers[entry.nextToEvict]
  IN
  /\ running = c /\ conn[c].phase = "copied"
  /\ Routes!Route(r)
  /\ manager' = WithoutOverwritten(old)
  /\ outcome' = IF old = Routes!NoHandler THEN outcome ELSE Files!Nothing
  /\ InPhase(c, "calling")
  /\ InnerCallIs("miss")
  /\ UNCHANGED <<transfer, disk, changed, running>>

(* The closure that processRequest() calls: in its slot, or local.         *)
CalledFile(frame) ==
  FileOf(IF frame.kind = "miss" THEN frame.request
         ELSE table[Hash(Routes!Key(frame.request))].handlers[frame.slot])

(* The closure serves the file, sends an error page, or aborts.            *)
Call(c) ==
  LET p == CalledFile(Last(stack)) IN
  /\ running = c /\ conn[c].phase = "calling"
  /\ Files!Called(p, c)
  /\ conn' = CASE outcome'.kind = "served" -> [conn EXCEPT ![c].phase = "sending"]
               [] outcome'.kind = "error" -> [conn EXCEPT ![c].phase = "answering"]
               [] OTHER -> Closed(c)
  /\ UNCHANGED <<disk, changed, routesVars, stack, running>>

(* requestCompleted(): stop, or process the next request, or read.         *)
RequestCompleted(c) ==
  \/ conn' = Closed(c)
  \/ conn' = [conn EXCEPT ![c] =
       [phase |-> IF Len(@.pipeline) > 1 THEN "request" ELSE "reading", pipeline |-> Tail(@.pipeline)]]

(* An error page has been written, or not.                                 *)
PageEnds(c) ==
  /\ Completes(c) /\ conn[c].phase = "answering"
  /\ RequestCompleted(c)
  /\ running' = c
  /\ UNCHANGED <<filesVars, routesVars, stack>>

(* A step of a transfer; finish() completes the request, as it does when   *)
(* sendfile fails, and abort() stops.                                      *)
TransferStep(c) ==
  /\ Completes(c) /\ conn[c].phase = "sending"
  /\ UNCHANGED <<routesVars, stack>>
  /\ running' = c
  /\ \/ /\ Files!WriteEnds(c)
        /\ IF outcome'.kind = "finish" THEN RequestCompleted(c) ELSE conn' = Closed(c)
     \/ /\ Files!SendFile(c)
        /\ IF outcome'.kind = "finish" THEN RequestCompleted(c) ELSE UNCHANGED conn
     \/ /\ Files!ClientGone(c)
        /\ IF transfer[c].mapped THEN conn' = Closed(c) ELSE RequestCompleted(c)

(* The operation will complete later: the calls begin to return.           *)
Return(c) ==
  /\ running = c /\ Waiting(c)
  /\ running' = NONE
  /\ UNCHANGED <<filesVars, routesVars, conn, stack>>

(* Mutation: every call destroys the closure it called.                    *)
AnyKind == {"hit", "miss"}

(* The calls that hold a closure of their own.                             *)
LocalKind == {"miss"}

(* A call of processRequest() returns and destroys its local closure; one  *)
(* that called a slot of the cache touches nothing any more.               *)
Unwind ==
  LET frame == Last(stack) IN
  /\ running = NONE /\ stack # << >>
  /\ stack' = Front(stack)
  /\ IF frame.kind \in LocalKind
     THEN /\ manager' = Files!Unref(manager, FileOf(frame.request))
          /\ outcome' = Files!Nothing
     ELSE UNCHANGED <<manager, outcome>>
  /\ UNCHANGED <<transfer, disk, changed, routesVars, conn, running>>

(* The once-a-second callback of StaticFileManager.                        *)
TimerCB ==
  /\ Idle
  /\ UNCHANGED <<routesVars, conn, stack, running>>
  /\ Files!TimerCB

(* Environment.  Only Call() looks at the disk, so that a change counts as *)
(* made before the callback that leads to it, or after the calls returned. *)
DiskChanges(p) ==
  /\ Working = {} /\ (running = NONE => stack = << >>)
  /\ UNCHANGED <<routesVars, conn, stack, running>>
  /\ Files!DiskChanges(p)

Process(c) == FindCached(c) \/ AskRouter(c) \/ RouterThrows(c)
Insert(c)  == NotCached(c) \/ CopyHandler(c) \/ SwapHandlers(c)

Next ==
  \/ \E c \in Conns : \/ Accept(c) \/ Read(c) \/ Process(c) \/ Insert(c) \/ Call(c)
                      \/ PageEnds(c) \/ TransferStep(c) \/ Return(c)
  \/ Unwind
  \/ TimerCB
  \/ \E p \in Volatile : DiskChanges(p)

Spec == Init /\ [][Next]_vars

-----------------------------------------------------------------------------
(***************************************************************************)
(* Properties.                                                             *)
(***************************************************************************)
(* Only the innermost call of processRequest() is still to be carried out. *)
TypeOK ==
  /\ \A c \in Conns : /\ conn[c].phase \in {"closed", "reading", "request", "routed", "copied",
                                            "calling", "answering", "sending"}
                      /\ conn[c].pipeline \in Seq(Requests)
  /\ \A i \in DOMAIN stack : stack[i].kind \in {"hit", "miss", "copied"} /\ stack[i].request \in Requests
  /\ Len(stack) <= MaxDepth
  /\ running \in Conns \cup {NONE}
  /\ Working \subseteq {running}
  /\ \A c \in Conns : conn[c].phase \in {"routed", "copied"} => Routes!Matches(Routes!Key(Current(c))) = {}

(* When a closure is called it exists, although nested calls and other     *)
(* connections evict closures, and the scratch area of its connection      *)
(* holds no StaticFileHandler that is still to be destroyed, although      *)
(* allocateHandlerState() does not look (cppsp.C:273-281, cppsp.H:137-144, *)
(* static_handler.C:102-129).                                              *)
CallsAreSafe ==
  \A c \in Conns : conn[c].phase = "calling" =>
    /\ HandlersOf[CalledFile(Last(stack))] > 0
    /\ transfer[c] = Files!NoTransfer

(* What is sent to a client is the file of the request it is waiting for,  *)
(* through however many evictions and nested calls the closure was found.  *)
SendsWhatIsAsked ==
  \A c \in Conns :
    /\ conn[c].phase = "sending" => transfer[c].path = FileOf(Current(c))
    /\ conn[c].phase # "sending" => transfer[c] = Files!NoTransfer

(* The closures in the cache and in the calls are all that refer to files: *)
(* every step is one of StaticFiles, with the reference counts that go     *)
(* with it, or none.                                                       *)
ImplementsStaticFiles == Files!Spec

=============================================================================
