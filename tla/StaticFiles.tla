----------------------------- MODULE StaticFiles -----------------------------
(***************************************************************************)
(* StaticFileManager of static_handler.C: the files that are served, their *)
(* reference counts, the to-free list of loaded files, the timer that      *)
(* evicts from it, and the transfers that are in progress meanwhile.       *)
(*                                                                         *)
(* All of it runs on a worker's thread; a transfer waits for its client    *)
(* between two callbacks, and the directory that is served may change at   *)
(* any time.  LoadedStaticFile objects are identified with their paths,    *)
(* because an object leaves the map `cache' only when it is deleted.       *)
(*                                                                         *)
(* Data abstraction.  The content of a path on disk is its version, 0 if   *)
(* it cannot be opened as a regular file; every change of a file changes   *)
(* its modification time.  Lengths are counted in chunks of sendfile.      *)
(* The clock is the one timerCB() reads, in units as fine as the times     *)
(* between two readings differ.  lastCheck is represented by its distance  *)
(* from the last reading, up to the two seconds that reloadIfStale() asks  *)
(* for.  A failing fstat() or mmap() is left out.                          *)
(***************************************************************************)
EXTENDS Integers, FiniteSets, FiniteSetsExt

CONSTANTS
  Paths,
  NONE,            (* nullptr                                                    *)
  Volatile,        (* the paths that are written or removed while the server runs*)
  Conns,           (* connections that request files                             *)
  MaxVersion,      (* bound on the versions of a file                            *)
  Length(_, _),    (* length of a version of a path                              *)
  maxMmapSize,     (* longer files are sent with sendfile                        *)
  initialCapacity, minCapacity, capacityStep, (* 128, 32 and 8 in the code       *)
  targetCacheHitRatio,                        (* 50                              *)
  maxPurgePerCycle,                           (* 128                             *)
  MaxHandlers,     (* bound on the handlers alive for one path                   *)
  MaxRequests,     (* bound on the requests between two calls of timerCB()       *)
  RecheckAfter,    (* two seconds, in units of the clock                         *)
  Periods          (* what may pass between two readings of the clock            *)

ASSUME StaticFilesAssumption ==
  /\ NONE \notin Paths /\ Volatile \subseteq Paths
  /\ IsFiniteSet(Conns)
  /\ {maxMmapSize, initialCapacity, minCapacity, targetCacheHitRatio,
      maxPurgePerCycle, MaxHandlers, MaxRequests} \subseteq Nat
  /\ minCapacity <= initialCapacity
  /\ {MaxVersion, capacityStep, RecheckAfter} \subseteq Nat \ {0}
  /\ Periods \subseteq Nat
  /\ \A p \in Paths, v \in 1..MaxVersion : Length(p, v) \in Nat \ {0}

VARIABLES
  manager,    (* the StaticFileManager and its LoadedStaticFile objects          *)
  handlers,   (* by path, the number of HandleRequestCBs that refer to it        *)
  transfer,   (* by connection, the StaticFileHandler in its scratch area        *)
  disk,       (* by path, the version on disk                                    *)
  changed,    (* by path, the distance of the last reading of the clock from the *)
              (* one that was the last when the file on disk was changed, up to  *)
              (* RecheckAfter (history)                                          *)
  outcome     (* what the last step did to a request (history)                   *)

vars == <<manager, handlers, transfer, disk, changed, outcome>>

NoTransfer == [path |-> NONE, mapped |-> FALSE, version |-> 0, intact |-> FALSE, offset |-> 0]
Nothing    == [kind |-> "none", path |-> NONE, version |-> 0, sent |-> 0]

NewFile ==
  [loaded |-> "no", version |-> 0, exception |-> FALSE, age |-> RecheckAfter, refCount |-> 0,
   next |-> NONE, prev |-> NONE]

NoFile == [NewFile EXCEPT !.loaded = "deleted"]

IsLoaded(m, p) == m.file[p].loaded \in {"mapped", "fd"}

-----------------------------------------------------------------------------
(***************************************************************************)
(* StaticFileManager's operations, as functions of its state.              *)
(***************************************************************************)
(* A file is closed, and deleted if nothing refers to it.                  *)
Closed(f) == IF f.refCount = 0 THEN NoFile ELSE [f EXCEPT !.loaded = "no"]

(* Mutation: the successor keeps its link to the unloaded file.            *)
RelinkedHalf(g, q, f) == [g EXCEPT !.next = IF q = f.prev THEN f.next ELSE @]

(* The links of file q when its neighbour f is taken off the to-free list. *)
Relinked(g, q, f) ==
  [g EXCEPT !.next = IF q = f.prev THEN f.next ELSE @, !.prev = IF q = f.next THEN f.prev ELSE @]

(* unload(): close the file and take it off the to-free list.              *)
Unload(m, p) ==
  LET f == m.file[p] IN
  [m EXCEPT
     !.file = [q \in Paths |-> IF q = p THEN Closed(f) ELSE Relinked(m.file[q], q, f)],
     !.firstToFree = IF p = @ THEN f.next ELSE @,
     !.lastToFree = IF p = @ THEN f.prev ELSE @,
     !.nLoaded = @ - 1]

(* doLoad() of a file that exists: it is mapped, or its descriptor kept.   *)
OpenedAs(p, v) == IF Length(p, v) <= maxMmapSize THEN "mapped" ELSE "fd"

(* load(): open the file and append it to the to-free list, or remember    *)
(* the error.                                                              *)
Load(m, p) ==
  LET v    == disk[p]
      last == m.lastToFree
  IN  IF v = 0 THEN [m EXCEPT !.file[p].age = 0, !.file[p].exception = TRUE]
      ELSE [m EXCEPT
              !.file = [q \in Paths |->
                CASE q = p -> [m.file[p] EXCEPT !.loaded = OpenedAs(p, v), !.version = v, !.exception = FALSE,
                                           !.age = 0, !.prev = last, !.next = NONE]
                  [] q # p /\ q = last -> [m.file[q] EXCEPT !.next = p]
                  [] OTHER -> m.file[q]],
              !.firstToFree = IF @ = NONE THEN p ELSE @,
              !.lastToFree = p,
              !.nLoaded = @ + 1,
              !.loadsCounter = @ + 1]

(* Mutation: a loaded file is never checked again.                         *)
StaleUnloaded(m, p) == m.file[p].age = RecheckAfter /\ ~IsLoaded(m, p)

(* lastCheck is not later than two seconds before the reading.             *)
Stale(m, p) == m.file[p].age = RecheckAfter

(* reloadIfStale().                                                        *)

ReloadIfStale(m, p) ==
  LET checked == [m EXCEPT !.file[p].age = 0] IN
  IF ~Stale(m, p) THEN m
  ELSE IF ~IsLoaded(m, p) THEN Load(m, p)
  ELSE IF disk[p] = 0 THEN Unload([checked EXCEPT !.file[p].exception = TRUE], p)
  ELSE IF disk[p] # m.file[p].version THEN Load(Unload(checked, p), p)
  ELSE checked

(* Mutation: an unreferenced, unloaded file stays in the map.              *)
UnrefOnly(m, p) == [m EXCEPT !.file[p].refCount = @ - 1]

(* The destructor of FileRef.                                              *)
Unref(m, p) ==
  LET f == m.file[p] IN
  [m EXCEPT !.file[p] = IF f.refCount = 1 /\ ~IsLoaded(m, p) THEN NoFile
                        ELSE [f EXCEPT !.refCount = f.refCount - 1]]

(* Mutation: the step is subtracted instead of the fraction.               *)
ShrunkByStep(capacity) == capacity - capacityStep

Shrunk(capacity) == Max({capacity - capacity \div capacityStep, minCapacity})

(* pop().                                                                  *)
Pop(m) == IF m.firstToFree = NONE THEN m ELSE Unload(m, m.firstToFree)

(* timerCB() behind the clock: shrink the cache when the hit ratio is      *)
(* good, by at most maxPurgePerCycle calls of pop().                       *)
Purge(m) ==
  LET start == [m EXCEPT !.capacity = Shrunk(@)]
      after[i \in 0..maxPurgePerCycle] ==
        IF i = 0 THEN start
        ELSE IF after[i - 1].nLoaded <= after[i - 1].capacity THEN after[i - 1]
        ELSE Pop(after[i - 1])
  IN  IF m.loadsCounter * targetCacheHitRatio <= m.requestsCounter
      THEN after[maxPurgePerCycle] ELSE m

(* StaticFileHandler::start() announces the length of the version that is  *)
(* loaded, and begins to write a mapping or to send from a descriptor.     *)
NewTransfer(p, f) ==
  [path |-> p, mapped |-> f.loaded = "mapped", version |-> f.version, intact |-> TRUE, offset |-> 0]

(* doUnload() takes the mapping or the descriptor away from the transfers  *)
(* of the file.                                                            *)
Disturb(unloaded) ==
  [c \in Conns |-> IF transfer[c].path \in unloaded
                   THEN [transfer[c] EXCEPT !.intact = FALSE] ELSE transfer[c]]

LoadedPaths(m) == {p \in Paths : IsLoaded(m, p)}

-----------------------------------------------------------------------------
Init ==
  /\ manager = [file |-> [p \in Paths |-> NoFile], firstToFree |-> NONE, lastToFree |-> NONE,
                nLoaded |-> 0, capacity |-> initialCapacity, loadsCounter |-> 0, requestsCounter |-> 0]
  /\ handlers = [p \in Paths |-> 0]
  /\ transfer = [c \in Conns |-> NoTransfer]
  /\ disk \in [Paths -> 0..1]
  /\ changed = [p \in Paths |-> RecheckAfter]
  /\ outcome = Nothing

(* getFile() and the constructor of FileRef.                               *)
Referenced(m, p) ==
  LET file == IF m.file[p] = NoFile THEN NewFile ELSE m.file[p]
  IN  [m EXCEPT !.file[p] = [file EXCEPT !.refCount = file.refCount + 1]]

(* createHandler(path): the closure holds a FileRef.                       *)
CreateHandler(p) ==
  /\ handlers[p] < MaxHandlers
  /\ manager' = Referenced(manager, p)
  /\ handlers' = [handlers EXCEPT ![p] = @ + 1]
  /\ outcome' = Nothing
  /\ UNCHANGED <<transfer, disk, changed>>

(* A closure is destroyed: evicted from the route cache, or not cached.    *)
DropHandler(p) ==
  /\ handlers[p] > 0
  /\ manager' = Unref(manager, p)
  /\ handlers' = [handlers EXCEPT ![p] = @ - 1]
  /\ outcome' = Nothing
  /\ UNCHANGED <<transfer, disk, changed>>

(* The closure is called for connection c: reload, then abort, answer with *)
(* the error, or start() a transfer, which takes a reference of its own.   *)
Called(p, c) ==
  LET m        == ReloadIfStale(manager, p)
      f        == m.file[p]
      unloaded == IF IsLoaded(manager, p) /\ Stale(manager, p) /\ disk[p] # manager.file[p].version
                  THEN {p} ELSE {}
  IN
  IF IsLoaded(m, p)
  THEN /\ manager' = [m EXCEPT !.file[p].refCount = @ + 1, !.requestsCounter = @ + 1]
       /\ transfer' = [Disturb(unloaded) EXCEPT ![c] = NewTransfer(p, f)]
       /\ outcome' = [Nothing EXCEPT !.kind = "served", !.path = p, !.version = f.version]
  ELSE /\ manager' = m
       /\ transfer' = Disturb(unloaded)
       /\ outcome' = [Nothing EXCEPT !.kind = IF f.exception THEN "error" ELSE "refused", !.path = p]

Invoke(p, c) ==
  /\ handlers[p] > 0
  /\ transfer[c] = NoTransfer
  /\ manager.requestsCounter < MaxRequests
  /\ Called(p, c)
  /\ UNCHANGED <<handlers, disk, changed>>

(* Mutation: the connection goes on before the handler is destroyed.       *)
StillThere(c) == transfer

(* The destructor of StaticFileHandler.                                    *)
Destroyed(c) == [transfer EXCEPT ![c] = NoTransfer]

(* The transfer of c ends, its reference is dropped, and the connection    *)
(* goes on (finish) or not (abort).                                        *)
End(c, kind, sent) ==
  LET t == transfer[c] IN
  /\ manager' = Unref(manager, t.path)
  /\ transfer' = Destroyed(c)
  /\ outcome' = [kind |-> kind, path |-> t.path, version |-> t.version, sent |-> sent]

(* The callback of writevAll for a mapped file.  Once the file has been    *)
(* unmapped, writev fails, or finds something else mapped at that address. *)
WriteEnds(c) ==
  LET t == transfer[c] IN
  /\ t.path # NONE /\ t.mapped
  /\ \/ End(c, "finish", Length(t.path, t.version))
     \/ ~t.intact /\ End(c, "abort", 0)
  /\ UNCHANGED <<handlers, disk, changed>>

(* One round of doSendFile(): a chunk, or an error, which ends a transfer  *)
(* like the end of the file does.  The descriptor was read when the round  *)
(* was begun; if it has been closed since, sendfile fails, or finds that   *)
(* the number has been given to another file.  file->length is read now.   *)
SendFile(c) ==
  LET t      == transfer[c]
      length == Length(t.path, manager.file[t.path].version)
  IN
  /\ t.path # NONE /\ ~t.mapped
  /\ \E r \in IF t.intact THEN {1} ELSE 0..1 :
       IF r <= 0 \/ t.offset + r >= length
       THEN End(c, "finish", t.offset + r)
       ELSE /\ transfer' = [transfer EXCEPT ![c].offset = @ + r]
            /\ outcome' = Nothing
            /\ UNCHANGED manager
  /\ UNCHANGED <<handlers, disk, changed>>

(* The client goes away: writev and sendfile return an error.  finish() of *)
(* a sendfile transfer is followed by a read that finds the same.          *)
ClientGone(c) ==
  /\ transfer[c].path # NONE
  /\ End(c, "gone", 0)
  /\ UNCHANGED <<handlers, disk, changed>>

(* A distance from the last reading of the clock, d units later.           *)
Later(distance, d) == Min({distance + d, RecheckAfter})

Older(f, d) == IF f = NoFile THEN f ELSE [f EXCEPT !.age = Later(@, d)]

(* timerCB(), once a second, as exactly as the event loop calls it.        *)
TimerCB == \E d \in Periods :
  LET m == Purge([manager EXCEPT !.file = [p \in Paths |-> Older(@[p], d)]]) IN
  /\ manager' = [m EXCEPT !.loadsCounter = 0, !.requestsCounter = 0]
  /\ transfer' = Disturb(LoadedPaths(manager) \ LoadedPaths(m))
  /\ changed' = [p \in Paths |-> Later(changed[p], d)]
  /\ outcome' = Nothing
  /\ UNCHANGED <<handlers, disk>>

(* Environment: the file is written anew, or removed.                      *)
DiskChanges(p) ==
  /\ \/ \E v \in 1..MaxVersion : v > disk[p] /\ disk' = [disk EXCEPT ![p] = v]
     \/ disk[p] > 0 /\ disk' = [disk EXCEPT ![p] = 0]
  /\ changed' = [changed EXCEPT ![p] = 0]
  /\ outcome' = Nothing
  /\ UNCHANGED <<manager, handlers, transfer>>

Next ==
  \/ \E p \in Paths : CreateHandler(p) \/ DropHandler(p)
  \/ \E p \in Volatile : DiskChanges(p)
  \/ \E p \in Paths, c \in Conns : Invoke(p, c)
  \/ \E c \in Conns : WriteEnds(c) \/ SendFile(c) \/ ClientGone(c)
  \/ TimerCB

Spec == Init /\ [][Next]_vars

-----------------------------------------------------------------------------
(***************************************************************************)
(* Properties.                                                             *)
(***************************************************************************)
FileType ==
  [loaded : {"deleted", "no", "mapped", "fd"}, version : 0..MaxVersion, exception : BOOLEAN,
   age : 0..RecheckAfter, refCount : Nat, next : Paths \cup {NONE}, prev : Paths \cup {NONE}]

TypeOK ==
  /\ manager.file \in [Paths -> FileType]
  /\ {manager.firstToFree, manager.lastToFree} \subseteq Paths \cup {NONE}
  /\ {manager.nLoaded, manager.loadsCounter} \subseteq Nat
  /\ manager.capacity \in minCapacity..initialCapacity
  /\ manager.requestsCounter \in 0..MaxRequests
  /\ handlers \in [Paths -> 0..MaxHandlers]
  /\ \A c \in Conns : transfer[c].path \in Paths \cup {NONE} /\ transfer[c].offset \in Nat
  /\ disk \in [Paths -> 0..MaxVersion]
  /\ changed \in [Paths -> 0..RecheckAfter]

(* The reference count of a file is the number of handlers and transfers   *)
(* that point to it, and a file is kept exactly as long as it is           *)
(* referenced or loaded: none is leaked and none is deleted under its      *)
(* users, although unload() and the destructor of FileRef both delete      *)
(* (static_handler.C:51-57, 277-280; static_handler.H:43-46).              *)
RefCountsExact ==
  \A p \in Paths :
    LET f == manager.file[p] IN
    /\ f.refCount = handlers[p] + Cardinality({c \in Conns : transfer[c].path = p})
    /\ f = NoFile <=> (f.refCount = 0 /\ ~IsLoaded(manager, p))

(* The to-free list holds exactly the loaded files, each once, its two     *)
(* directions agree, and nLoaded is its length (static_handler.C:243-281,  *)
(* the assertions in unload() included).                                   *)
ToFreeListSound ==
  LET m    == manager
      walk[i \in 1..m.nLoaded] == IF i = 1 THEN m.firstToFree ELSE m.file[walk[i - 1]].next
      link(i) == IF i \in 1..m.nLoaded THEN walk[i] ELSE NONE
  IN  /\ m.nLoaded = Cardinality(LoadedPaths(m))
      /\ {link(i) : i \in 1..m.nLoaded} = LoadedPaths(m)
      /\ m.firstToFree = link(1)
      /\ m.lastToFree = link(m.nLoaded)
      /\ \A i \in 1..m.nLoaded : /\ m.file[link(i)].prev = link(i - 1)
                                  /\ m.file[link(i)].next = link(i + 1)

(* A request is answered from what is on disk, unless that was changed     *)
(* when the last reading of the clock was less than two seconds earlier    *)
(* than it is now: older versions are not served, and neither is an error  *)
(* for a file that is there, however the calls of timerCB() are spread     *)
(* (static_handler.C:330-359).                                             *)
FreshEnough ==
  outcome.path # NONE /\ changed[outcome.path] = RecheckAfter =>
    /\ outcome.kind = "served" => outcome.version = disk[outcome.path]
    /\ outcome.kind = "error" => disk[outcome.path] = 0

(* A connection that goes on after a transfer has sent the body whose      *)
(* length it announced: the file was not closed or replaced in between, as *)
(* the comment on FileRef (static_handler.C:41-42) intends.                *)
FullBodies == outcome.kind = "finish" => outcome.sent = Length(outcome.path, outcome.version)

=============================================================================
