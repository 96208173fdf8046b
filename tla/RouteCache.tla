------------------------------ MODULE RouteCache ------------------------------
(***************************************************************************)
(* The route cache of route_cache.C and its use by processRequest()        *)
(* (cppsp.C): the handler that the application's router returned for a     *)
(* host and a path is kept under the key host#path, in one of the few      *)
(* slots of the key's hash bucket; the slots of a bucket are overwritten   *)
(* in turn.                                                                *)
(*                                                                         *)
(* Data abstraction.  Text is a sequence of characters.  The router, which *)
(* belongs to the application, is a function of host and path; the handler *)
(* it returns for a request is represented by the request.  Hashing (sdbm  *)
(* of cpoll-ng) is any function into the buckets.                          *)
(***************************************************************************)
EXTENDS Integers, Sequences, FiniteSets, SequencesExt

CONSTANTS
  Requests,   (* the requests <<host, path>> that arrive                         *)
  Buckets,    (* number of buckets, a power of 2 (1024)                          *)
  Entries,    (* ROUTE_CACHE_ENTRIES_PER_HASH (4)                                *)
  MaxPath,    (* ROUTE_CACHE_MAX_PATH_LENGTH (256)                               *)
  Hash(_)     (* sdbm & sizeMask                                                 *)

ASSUME RouteCacheAssumption ==
  /\ Buckets \in Nat \ {0} /\ Entries \in Nat \ {0} /\ MaxPath \in Nat \ {0}
  /\ Requests \subseteq Seq(STRING) \X Seq(STRING)

(* Mutation: the key leaves out the host.                                  *)
PathOnly(r) == <<"#">> \o r[2]

Key(r) == r[1] \o <<"#">> \o r[2]

ASSUME HashAssumption == \A r \in Requests : Hash(Key(r)) \in 0..(Buckets - 1)

NoHandler == << >>

VARIABLES
  table,      (* the buckets: keys, handlers, nextToEvict                        *)
  answer,     (* the last request, and the handler called for it (history)       *)
  recent      (* by bucket, the last keys inserted, newest last (history)        *)

vars == <<table, answer, recent>>

-----------------------------------------------------------------------------
(* What a string_view of a key's array shows: the text up to the first NUL.*)
AsCString(text) ==
  LET nuls == {i \in DOMAIN text : text[i] = "NUL"}
  IN  IF nuls = {} THEN text ELSE SubSeq(text, 1, (CHOOSE i \in nuls : \A j \in nuls : i <= j) - 1)

(* find(path): the first slot of the bucket whose key reads like path.     *)
Matches(path) ==
  LET entry == table[Hash(path)]
  IN  {i \in DOMAIN entry.keys : entry.keys[i] = path}

First(slots) == CHOOSE i \in slots : \A j \in slots : i <= j

(* Mutation: the index is not wrapped.                                     *)
Unwrapped(slot) == slot + 1

(* Mutation: the last slot is not used.                                    *)
SkipLast(slot) == (slot + 1) % (Entries - 1)

NextSlot(slot) == (slot + 1) % Entries

(* Mutation: the key of a slot is written only once.                       *)
InsertedKeyKept(path, handler) ==
  LET b == Hash(path)
      i == table[b].nextToEvict
  IN
  IF Len(path) + 1 > MaxPath THEN table
  ELSE [table EXCEPT ![b] =
          [keys        |-> [@.keys EXCEPT ![i] = IF @ = << >> THEN path ELSE @],
           handlers    |-> [@.handlers EXCEPT ![i] = handler],
           nextToEvict |-> NextSlot(@.nextToEvict)]]

(* insert(path, handler).                                                  *)
Inserted(path, handler) ==
  LET b == Hash(path) IN
  IF Len(path) + 1 > MaxPath THEN table
  ELSE [table EXCEPT ![b] =
          [keys        |-> [@.keys EXCEPT ![table[b].nextToEvict] = AsCString(path)],
           handlers    |-> [@.handlers EXCEPT ![table[b].nextToEvict] = handler],
           nextToEvict |-> NextSlot(@.nextToEvict)]]

Init ==
  /\ table = [b \in 0..(Buckets - 1) |->
                [keys |-> [i \in 0..(Entries - 1) |-> << >>],
                 handlers |-> [i \in 0..(Entries - 1) |-> NoHandler],
                 nextToEvict |-> 0]]
  /\ answer = [request |-> NoHandler, handler |-> NoHandler]
  /\ recent = [b \in 0..(Buckets - 1) |-> << >>]

(* processRequest() finds a handler in the cache.                          *)
CachedRoute(r) ==
  LET path == Key(r) IN
  /\ Matches(path) # {}
  /\ answer' = [request |-> r, handler |-> table[Hash(path)].handlers[First(Matches(path))]]
  /\ UNCHANGED <<table, recent>>

(* It finds none, asks the router and inserts what it returns.             *)
Route(r) ==
  LET path == Key(r)
      b    == Hash(path)
      keys == Append(recent[b], path)
  IN
  /\ Matches(path) = {}
  /\ table' = Inserted(path, r)
  /\ answer' = [request |-> r, handler |-> r]
  /\ recent' = IF Len(path) + 1 > MaxPath THEN recent
               ELSE [recent EXCEPT ![b] =
                       SubSeq(keys, IF Len(keys) > Entries THEN 2 ELSE 1, Len(keys))]

(* The router throws: an error page is sent, nothing is cached.            *)
RouterThrows(r) ==
  /\ Matches(Key(r)) = {}
  /\ answer' = [request |-> NoHandler, handler |-> NoHandler]
  /\ UNCHANGED <<table, recent>>

Next == \E r \in Requests : CachedRoute(r) \/ Route(r) \/ RouterThrows(r)

Spec == Init /\ [][Next]_vars

-----------------------------------------------------------------------------
(***************************************************************************)
(* Properties.                                                             *)
(***************************************************************************)
TypeOK ==
  /\ \A b \in 0..(Buckets - 1) :
       /\ DOMAIN table[b].keys = 0..(Entries - 1)
       /\ \A i \in 0..(Entries - 1) : /\ Len(table[b].keys[i]) < MaxPath
                                      /\ table[b].handlers[i] \in Requests \cup {NoHandler}
       /\ table[b].nextToEvict \in 0..(Entries - 1)
  /\ answer.request \in Requests \cup {NoHandler}
  /\ answer.handler \in Requests \cup {NoHandler}

HostHasSeparator(r) == \E i \in DOMAIN r[1] : r[1][i] = "#"

(* Caching is invisible: a request is handled by the handler that the      *)
(* router returned, or would return, for its own host and path, whatever   *)
(* was evicted before (cppsp.C:264-284).  The exception is that of two     *)
(* requests for one key, as host a with path #x and host a# with path x,   *)
(* one may get the handler of the other: then one of the hosts contains    *)
(* the separator, which processRequest() does not look for.                *)
RoutesCorrect ==
  \/ answer.handler = answer.request
  \/ HostHasSeparator(answer.request) \/ HostHasSeparator(answer.handler)

(* A bucket holds exactly the last keys that were inserted into it, each   *)
(* once: a slot is reused only when the others are newer, and no slot is   *)
(* wasted on a second copy (route_cache.C:32-43).                          *)
HoldsMostRecent ==
  \A b \in 0..(Buckets - 1) :
    LET used == {i \in 0..(Entries - 1) : table[b].keys[i] # << >>} IN
    /\ {table[b].keys[i] : i \in used} = Range(recent[b])
    /\ Cardinality(used) = Cardinality(Range(recent[b]))

=============================================================================
