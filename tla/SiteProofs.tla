------------------------------ MODULE SiteProofs ------------------------------
(***************************************************************************)
(* Proofs about Site: the closure that is called exists, the scratch area  *)
(* it builds in is free, what is sent is what was asked for, and the whole *)
(* implements StaticFiles, for any cache, any number of connections and    *)
(* any depth of nested calls.                                              *)
(*                                                                         *)
(* All of it rests on the discipline of the call stack: only the innermost *)
(* call is still to be carried out, it belongs to the connection that      *)
(* runs, and nothing comes between the lookup of its closure and the call. *)
(* The inductive invariant SiteInv says so, and relates the transfers to   *)
(* the phases of their connections.                                        *)
(***************************************************************************)
EXTENDS Site, CommonLemmas, FiniteSetTheorems, SequenceTheorems

-----------------------------------------------------------------------------
(***************************************************************************)
(* The inductive invariant.                                                *)
(***************************************************************************)
Slots == 0..(Entries - 1)

Phases ==
  {"closed", "reading", "request", "routed", "copied", "calling", "answering", "sending"}

Connections == [phase : Phases, pipeline : Seq(Requests)]

Frames == [kind : {"hit", "miss", "copied"}, request : Requests, slot : Nat]

(* A connection has requests exactly while it is not reading.              *)
ConnOK(k) ==
  /\ k \in Connections
  /\ k.pipeline = << >> <=> k.phase \in {"closed", "reading"}
  /\ Len(k.pipeline) <= MaxPipeline /\ Len(k.pipeline) <= MaxDepth

(* Only the connection that runs is between two callbacks.                 *)
AtRest(k) == k.phase \in {"closed", "reading", "answering", "sending"}

ConnsOK ==
  /\ conn = [c \in Conns |-> conn[c]]
  /\ \A c \in Conns : ConnOK(conn[c]) /\ (AtRest(conn[c]) \/ running = c)
  /\ running \in Conns \cup {NONE}

(* A slot is empty, or its key is what remains of the key of the request   *)
(* whose handler it holds.                                                 *)
EntryOK(e) ==
  /\ e = [keys |-> e.keys, handlers |-> e.handlers, nextToEvict |-> e.nextToEvict]
  /\ e.keys = [i \in Slots |-> e.keys[i]]
  /\ e.handlers \in [Slots -> Requests \cup {Routes!NoHandler}]
  /\ e.nextToEvict \in Slots
  /\ \A i \in Slots : \/ e.keys[i] = << >>
                      \/ /\ e.handlers[i] \in Requests
                         /\ e.keys[i] = Routes!AsCString(Routes!Key(e.handlers[i]))

TableOK ==
  /\ table = [b \in 0..(Buckets - 1) |-> table[b]]
  /\ \A b \in 0..(Buckets - 1) : EntryOK(table[b])

(* Only the innermost call can be in the middle of insert().               *)
StackOK ==
  /\ stack \in Seq(Frames) /\ Len(stack) <= MaxDepth
  /\ \A i \in 1..Len(stack) : stack[i].kind = "copied" =>
       i = Len(stack) /\ running \in Conns /\ conn[running].phase = "copied"

(* The request that k processes in the innermost call f, whose bucket is e.*)
CallOK(k, f, e) ==
  LET r == Head(k.pipeline) IN
  /\ f.request = r
  /\ k.phase \in {"routed", "copied"} => \A i \in Slots : e.keys[i] # Routes!Key(r)
  /\ k.phase = "routed" => f.kind = "miss"
  /\ k.phase = "copied" => f.kind = "copied" /\ Len(Routes!Key(r)) + 1 <= MaxPath
  /\ k.phase = "calling" =>
       \/ f.kind = "miss"
       \/ /\ f.kind = "hit" /\ f.slot \in Slots
          /\ e.handlers[f.slot] \in Requests /\ e.keys[f.slot] = Routes!Key(r)

(* The calls that the requests of k may still need.                        *)
Ahead(k) ==
  IF k.phase \in {"closed", "reading", "request"} THEN Len(k.pipeline) ELSE Len(k.pipeline) - 1

InnermostOK ==
  running \in Conns =>
    /\ Len(stack) + Ahead(conn[running]) <= MaxDepth
    /\ conn[running].phase \in {"routed", "copied", "calling"} =>
         /\ stack # << >>
         /\ CallOK(conn[running], Last(stack), table[Hash(Routes!Key(Head(conn[running].pipeline)))])

(* A StaticFileHandler exists only while its connection sends.             *)
TransferOK(t, k) ==
  /\ t = [path |-> t.path, mapped |-> t.mapped, version |-> t.version, intact |-> t.intact,
          offset |-> t.offset]
  /\ k.phase # "sending" => t = Files!NoTransfer

TransfersOK ==
  /\ transfer = [c \in Conns |-> transfer[c]]
  /\ \A c \in Conns : TransferOK(transfer[c], conn[c])

ManagerFields(m) ==
  m = [file |-> m.file, firstToFree |-> m.firstToFree, lastToFree |-> m.lastToFree,
       nLoaded |-> m.nLoaded, capacity |-> m.capacity, loadsCounter |-> m.loadsCounter,
       requestsCounter |-> m.requestsCounter]

(* The requests that have not been counted by the manager.                 *)
Uncounted(k) == IF k.phase = "sending" THEN Len(k.pipeline) - 1 ELSE Len(k.pipeline)

UncountedIn(cs) == {w \in Conns \X (1..MaxPipeline) : w[2] <= Uncounted(cs[w[1]])}

CounterOK ==
  /\ ManagerFields(manager) /\ manager.requestsCounter \in Nat
  /\ manager.requestsCounter + Cardinality(UncountedIn(conn)) <= MaxRequests

SiteInv ==
  /\ ConnsOK /\ TableOK /\ StackOK /\ InnermostOK /\ TransfersOK /\ CounterOK

(* A transfer is of the file that was asked for.                           *)
Asked == \A c \in Conns : conn[c].phase = "sending" => transfer[c].path = FileOf(Current(c))

(* No key is cut by a NUL, and no two requests have the same.              *)
PlainRequests ==
  /\ \A r \in Requests : Routes!AsCString(Routes!Key(r)) = Routes!Key(r)
  /\ \A r, s \in Requests : Routes!Key(r) = Routes!Key(s) => r = s

-----------------------------------------------------------------------------
(***************************************************************************)
(* The route cache.                                                        *)
(***************************************************************************)
(* The characters of a key.  The separator is a string; the provers are    *)
(* not told so.                                                            *)
Chars == STRING \cup {"#"}

(* A request is not the absence of a handler.                              *)
LEMMA RequestTyped ==
  ASSUME NEW r \in Requests
  PROVE  /\ r[1] \in Seq(Chars) /\ r[2] \in Seq(Chars) /\ r # Routes!NoHandler
         /\ FileOf(r) \in Paths
<1>1. STRING \subseteq Chars
  BY DEF Chars
<1>2. \A s \in Seq(STRING) : s \in Seq(Chars)
  <2>1. PICK S, T : S = STRING /\ T = Chars
    OBVIOUS
  <2>2. Seq(S) \subseteq Seq(T)
    BY <1>1, <2>1, SeqMonotonic
  <2>3. QED
    BY <2>1, <2>2
<1>3. PICK S : S = Seq(STRING)
  OBVIOUS
<1>4. r \in S \X S
  BY <1>3, SiteAssumption
<1>5. r # << >> /\ r[1] \in S /\ r[2] \in S
  BY <1>4
<1>6. QED
  BY <1>2, <1>3, <1>5, SiteAssumption DEF Routes!NoHandler

(* A key is not empty, and has a bucket.                                   *)
LEMMA KeyTyped ==
  ASSUME NEW r \in Requests
  PROVE  /\ Routes!Key(r) # << >> /\ Routes!Key(r) \in Seq(Chars)
         /\ Hash(Routes!Key(r)) \in 0..(Buckets - 1)
<1>1. PICK T, a, c, z : T = Chars /\ a = r[1] /\ c = "#" /\ z = r[2]
  OBVIOUS
<1>2. a \in Seq(T) /\ z \in Seq(T) /\ c \in T
  BY <1>1, RequestTyped DEF Chars
<1>3. <<c>> \in Seq(T) /\ Len(<<c>>) = 1
  BY <1>2
<1>4. PICK b : b = a \o <<c>>
  OBVIOUS
<1>5. b \in Seq(T) /\ Len(b) = Len(a) + 1
  BY <1>2, <1>3, <1>4, ConcatProperties
<1>6. b \o z \in Seq(T) /\ Len(b \o z) = Len(b) + Len(z)
  BY <1>2, <1>5, ConcatProperties
<1>7. Len(b \o z) > 0
  BY <1>2, <1>5, <1>6
<1>8. b \o z # << >>
  BY <1>6, <1>7
<1>9. Routes!Key(r) = b \o z
  BY <1>1, <1>4 DEF Routes!Key
<1>10. QED
  BY <1>1, <1>6, <1>8, <1>9, HashAssumption

(* What find() sees of a request's bucket.                                 *)
LEMMA MatchesAre ==
  ASSUME TableOK, NEW r \in Requests, NEW e, e = table[Hash(Routes!Key(r))]
  PROVE  /\ EntryOK(e)
         /\ Routes!Matches(Routes!Key(r)) = {i \in Slots : e.keys[i] = Routes!Key(r)}
<1>1. EntryOK(e)
  BY KeyTyped DEF TableOK
<1>2. DOMAIN e.keys = Slots
  BY <1>1 DEF EntryOK
<1>3. QED
  BY <1>1, <1>2 DEF Routes!Matches

(* The slot that find() returns holds a handler under the request's key.   *)
LEMMA FirstMatch ==
  ASSUME TableOK, NEW r \in Requests, NEW e, e = table[Hash(Routes!Key(r))],
         Routes!Matches(Routes!Key(r)) # {},
         NEW i, i = Routes!First(Routes!Matches(Routes!Key(r)))
  PROVE  i \in Slots /\ e.handlers[i] \in Requests /\ e.keys[i] = Routes!Key(r)
<1>1. PICK slots : slots = Routes!Matches(Routes!Key(r))
  OBVIOUS
<1>2. EntryOK(e) /\ slots = {j \in Slots : e.keys[j] = Routes!Key(r)}
  BY <1>1, MatchesAre
<1>3. slots \in SUBSET Nat /\ slots # {}
  <2>1. Slots \subseteq Nat
    BY SiteAssumption DEF Slots
  <2>2. QED
    BY <1>1, <1>2, <2>1
<1>4. \E x \in slots : \A y \in slots : x <= y
  BY <1>3, LeastOfNat
<1>5. i \in slots
  BY <1>1, <1>4, Zenon DEF Routes!First
<1>6. QED
  BY <1>2, <1>5, KeyTyped DEF EntryOK

(* A bucket in which the next slot was overwritten.                        *)
EntryWith(e, r) ==
  [keys        |-> [e.keys EXCEPT ![e.nextToEvict] = Routes!AsCString(Routes!Key(r))],
   handlers    |-> [e.handlers EXCEPT ![e.nextToEvict] = r],
   nextToEvict |-> Routes!NextSlot(e.nextToEvict)]

LEMMA InsertedIs ==
  ASSUME TableOK, NEW r \in Requests, Len(Routes!Key(r)) + 1 <= MaxPath,
         NEW b, b = Hash(Routes!Key(r))
  PROVE  Routes!Inserted(Routes!Key(r), r) = [table EXCEPT ![b] = EntryWith(table[b], r)]
<1>1. PICK path : path = Routes!Key(r)
  OBVIOUS
<1>2. PICK e : e = table[b]
  OBVIOUS
<1>3. Len(path) \in Nat /\ MaxPath \in Nat
  BY <1>1, KeyTyped, SiteAssumption
<1>4. Routes!Inserted(path, r) = [table EXCEPT ![b] =
          [keys        |-> [@.keys EXCEPT ![table[b].nextToEvict] = Routes!AsCString(path)],
           handlers    |-> [@.handlers EXCEPT ![table[b].nextToEvict] = r],
           nextToEvict |-> Routes!NextSlot(@.nextToEvict)]]
  BY <1>1, <1>3 DEF Routes!Inserted
<1>5. @ = [table EXCEPT ![b] = EntryWith(e, r)]
  BY <1>1, <1>2 DEF EntryWith
<1>6. QED
  BY <1>1, <1>2, <1>4, <1>5

LEMMA EntryWithOK ==
  ASSUME NEW e, EntryOK(e), NEW r \in Requests, NEW f, f = EntryWith(e, r)
  PROVE  /\ EntryOK(f)
         /\ f.handlers[e.nextToEvict] = r
         /\ \A i \in Slots : i # e.nextToEvict => f.handlers[i] = e.handlers[i]
<1>1. PICK k, n, m : k = Routes!AsCString(Routes!Key(r)) /\ n = e.nextToEvict /\ m = Routes!NextSlot(n)
  OBVIOUS
<1>2. n \in Slots /\ m \in Slots
  <2>1. Entries \in Nat \ {0}
    BY SiteAssumption
  <2>2. n \in Slots
    BY <1>1 DEF EntryOK
  <2>3. QED
    BY <1>1, <2>1, <2>2 DEF Slots, Routes!NextSlot
<1>3. PICK keys, hs : keys = [e.keys EXCEPT ![n] = k] /\ hs = [e.handlers EXCEPT ![n] = r]
  OBVIOUS
<1>4. f = [keys |-> keys, handlers |-> hs, nextToEvict |-> m]
  BY <1>1, <1>3 DEF EntryWith
<1>5. f.keys = keys /\ f.handlers = hs /\ f.nextToEvict = m
  BY <1>4
<1>6. /\ hs \in [Slots -> Requests \cup {Routes!NoHandler}] /\ hs[n] = r
      /\ \A i \in Slots : i # n => hs[i] = e.handlers[i]
  BY <1>2, <1>3 DEF EntryOK
<1>7. /\ keys = [i \in Slots |-> keys[i]] /\ keys[n] = k
      /\ \A i \in Slots : i # n => keys[i] = e.keys[i]
  BY <1>2, <1>3 DEF EntryOK
<1>8. \A i \in Slots : \/ keys[i] = << >>
                       \/ /\ hs[i] \in Requests
                          /\ keys[i] = Routes!AsCString(Routes!Key(hs[i]))
  <2>1. TAKE i \in Slots
  <2>2. CASE i = n
    BY <1>1, <1>6, <1>7, <2>2
  <2>3. CASE i # n
    BY <1>6, <1>7, <2>3 DEF EntryOK
  <2>4. QED
    BY <2>2, <2>3
<1>9. QED
  BY <1>1, <1>2, <1>4, <1>5, <1>6, <1>7, <1>8 DEF EntryOK

-----------------------------------------------------------------------------
(***************************************************************************)
(* How many closures refer to a file.                                      *)
(***************************************************************************)
Grid == (0..(Buckets - 1)) \X (0..(Entries - 1))

Holds(h, p) == h # Routes!NoHandler /\ FileOf(h) = p

CachedIn(t, p) == {w \in Grid : Holds(t[w[1]].handlers[w[2]], p)}

HeldIn(s, kinds, p) == {i \in 1..Len(s) : s[i].kind \in kinds /\ FileOf(s[i].request) = p}

CachedCount(t, p) == Cardinality(CachedIn(t, p))

HeldCount(s, kinds, p) == Cardinality(HeldIn(s, kinds, p))

Copies(t, s) ==
  [p \in Paths |-> CachedCount(t, p) + HeldCount(s, {"miss", "copied"}, p)
                     + HeldCount(s, {"copied"}, p)]

LEMMA HandlersAre ==
  /\ stack \in Seq(Frames) => HandlersOf = Copies(table, stack)
  /\ stack' \in Seq(Frames) => HandlersOf' = Copies(table', stack')
<1>1. ASSUME stack \in Seq(Frames) PROVE HandlersOf = Copies(table, stack)
  <2>1. DOMAIN stack = 1..Len(stack)
    BY <1>1
  <2>2. ASSUME NEW p \in Paths
        PROVE  /\ CachedFor(p) = CachedIn(table, p)
               /\ HeldFor(p, {"miss", "copied"}) = HeldIn(stack, {"miss", "copied"}, p)
               /\ HeldFor(p, {"copied"}) = HeldIn(stack, {"copied"}, p)
    BY <2>1 DEF CachedFor, CachedIn, Grid, Holds, HeldFor, HeldIn
  <2>3. \A p \in Paths : HandlersOf[p] = Copies(table, stack)[p]
    <3>1. TAKE p \in Paths
    <3>2. HandlersOf[p] = Cardinality(CachedFor(p)) + Cardinality(HeldFor(p, {"miss", "copied"}))
                            + Cardinality(HeldFor(p, {"copied"}))
      BY DEF HandlersOf
    <3>3. QED
      BY <2>2, <3>2 DEF Copies, CachedCount, HeldCount
  <2>4. QED
    BY <2>3 DEF HandlersOf, Copies
<1>2. ASSUME stack' \in Seq(Frames) PROVE HandlersOf' = Copies(table', stack')
  <2>1. DOMAIN stack' = 1..Len(stack')
    BY <1>2
  <2>2. ASSUME NEW CONSTANT p \in Paths
        PROVE  /\ CachedFor(p)' = CachedIn(table', p)
               /\ HeldFor(p, {"miss", "copied"})' = HeldIn(stack', {"miss", "copied"}, p)
               /\ HeldFor(p, {"copied"})' = HeldIn(stack', {"copied"}, p)
    BY <2>1 DEF CachedFor, CachedIn, Grid, Holds, HeldFor, HeldIn
  <2>3. \A p \in Paths : HandlersOf'[p] = Copies(table', stack')[p]
    <3>1. TAKE p \in Paths
    <3>2. HandlersOf'[p] = Cardinality(CachedFor(p)') + Cardinality(HeldFor(p, {"miss", "copied"})')
                            + Cardinality(HeldFor(p, {"copied"})')
      BY DEF HandlersOf
    <3>3. QED
      BY <2>2, <3>2 DEF Copies, CachedCount, HeldCount
  <2>4. QED
    BY <2>3 DEF HandlersOf, Copies
<1>3. QED
  BY <1>1, <1>2

LEMMA CachedTyped ==
  ASSUME NEW t, NEW p
  PROVE  /\ IsFiniteSet(CachedIn(t, p))
         /\ CachedCount(t, p) \in Nat /\ CachedCount(t, p) <= Buckets * Entries
<1>1. Buckets \in Nat \ {0} /\ Entries \in Nat \ {0}
  BY SiteAssumption
<1>2. PICK S, T : S = 0..(Buckets - 1) /\ T = 0..(Entries - 1)
  OBVIOUS
<1>3. /\ IsFiniteSet(S) /\ Cardinality(S) = Buckets
      /\ IsFiniteSet(T) /\ Cardinality(T) = Entries
  <2>1. /\ IsFiniteSet(0..(Buckets - 1))
        /\ Cardinality(0..(Buckets - 1)) = IF 0 > Buckets - 1 THEN 0 ELSE Buckets - 1 - 0 + 1
    BY <1>1, FS_Interval
  <2>2. /\ IsFiniteSet(0..(Entries - 1))
        /\ Cardinality(0..(Entries - 1)) = IF 0 > Entries - 1 THEN 0 ELSE Entries - 1 - 0 + 1
    BY <1>1, FS_Interval
  <2>3. QED
    BY <1>1, <1>2, <2>1, <2>2
<1>4. IsFiniteSet(S \X T) /\ Cardinality(S \X T) = Cardinality(S) * Cardinality(T)
  BY <1>3, FS_Product
<1>5. IsFiniteSet(Grid) /\ Cardinality(Grid) = Buckets * Entries
  BY <1>2, <1>3, <1>4 DEF Grid
<1>6. PICK C : C = CachedIn(t, p)
  OBVIOUS
<1>7. C \in SUBSET Grid
  BY <1>6 DEF CachedIn
<1>8. IsFiniteSet(C) /\ Cardinality(C) <= Cardinality(Grid)
  BY <1>5, <1>7, FS_Subset
<1>9. Cardinality(C) \in Nat
  BY <1>8, FS_CardinalityType
<1>10. QED
  BY <1>5, <1>6, <1>8, <1>9 DEF CachedCount

LEMMA HeldTyped ==
  ASSUME NEW s \in Seq(Frames), NEW kinds, NEW p
  PROVE  /\ IsFiniteSet(HeldIn(s, kinds, p))
         /\ HeldCount(s, kinds, p) \in Nat /\ HeldCount(s, kinds, p) <= Len(s)
<1>1. PICK n \in Nat : n = Len(s)
  OBVIOUS
<1>2. IsFiniteSet(1..n) /\ Cardinality(1..n) = n
  BY FS_Interval
<1>3. PICK H : H = HeldIn(s, kinds, p)
  OBVIOUS
<1>4. H \in SUBSET (1..n)
  BY <1>1, <1>3 DEF HeldIn
<1>5. IsFiniteSet(H) /\ Cardinality(H) <= n
  BY <1>2, <1>4, FS_Subset
<1>6. Cardinality(H) \in Nat
  BY <1>5, FS_CardinalityType
<1>7. QED
  BY <1>1, <1>3, <1>5, <1>6 DEF HeldCount

(* One more call.                                                          *)
LEMMA HeldPlus ==
  ASSUME NEW s \in Seq(Frames), NEW f \in Frames, NEW kinds, NEW p
  PROVE  HeldCount(Append(s, f), kinds, p)
           = HeldCount(s, kinds, p) + IF f.kind \in kinds /\ FileOf(f.request) = p THEN 1 ELSE 0
<1>1. PICK n \in Nat : n = Len(s)
  OBVIOUS
<1>2. PICK H, G : H = HeldIn(s, kinds, p) /\ G = HeldIn(Append(s, f), kinds, p)
  OBVIOUS
<1>3. PICK a : a = Append(s, f)
  OBVIOUS
<1>4. Len(a) = n + 1 /\ (\A i \in 1..n : a[i] = s[i]) /\ a[n + 1] = f
  BY <1>1, <1>3, AppendProperties
<1>5. IsFiniteSet(H) /\ Cardinality(H) \in Nat
  BY <1>2, HeldTyped DEF HeldCount
<1>6. n + 1 \notin H
  BY <1>1, <1>2 DEF HeldIn
<1>7. CASE f.kind \in kinds /\ FileOf(f.request) = p
  <2>1. G = H \cup {n + 1}
    BY <1>1, <1>2, <1>3, <1>4, <1>7 DEF HeldIn
  <2>2. Cardinality(G) = Cardinality(H) + 1
    BY <1>5, <1>6, <2>1, FS_AddElement
  <2>3. QED
    BY <1>2, <1>7, <2>2 DEF HeldCount
<1>8. CASE ~(f.kind \in kinds /\ FileOf(f.request) = p)
  <2>1. G = H
    BY <1>1, <1>2, <1>3, <1>4, <1>8 DEF HeldIn
  <2>2. QED
    BY <1>2, <1>5, <1>8, <2>1 DEF HeldCount
<1>9. QED
  BY <1>7, <1>8

(* A slot is overwritten.                                                  *)
One(h, p) == IF Holds(h, p) THEN 1 ELSE 0

SameBut(t, u, w) ==
  \A v \in Grid : v # w => u[v[1]].handlers[v[2]] = t[v[1]].handlers[v[2]]

LEMMA CachedChanges ==
  ASSUME NEW t, NEW u, NEW w \in Grid, NEW p, SameBut(t, u, w)
  PROVE  CachedCount(u, p) + One(t[w[1]].handlers[w[2]], p)
           = CachedCount(t, p) + One(u[w[1]].handlers[w[2]], p)
<1>1. PICK C, D : C = CachedIn(t, p) /\ D = CachedIn(u, p)
  OBVIOUS
<1>2. /\ IsFiniteSet(C) /\ Cardinality(C) \in Nat
      /\ IsFiniteSet(D) /\ Cardinality(D) \in Nat
  BY <1>1, CachedTyped DEF CachedCount
<1>3. C \ {w} = D \ {w}
  BY <1>1 DEF CachedIn, SameBut
<1>4. /\ w \in C <=> Holds(t[w[1]].handlers[w[2]], p)
      /\ w \in D <=> Holds(u[w[1]].handlers[w[2]], p)
  BY <1>1 DEF CachedIn
<1>5. /\ Cardinality(C \ {w}) = IF w \in C THEN Cardinality(C) - 1 ELSE Cardinality(C)
      /\ Cardinality(D \ {w}) = IF w \in D THEN Cardinality(D) - 1 ELSE Cardinality(D)
  BY <1>2, FS_RemoveElement
<1>6. CachedCount(t, p) = Cardinality(C) /\ CachedCount(u, p) = Cardinality(D)
  BY <1>1 DEF CachedCount
<1>7. PICK m \in Nat, n \in Nat : m = Cardinality(C) /\ n = Cardinality(D)
  BY <1>2
<1>8. n + (IF w \in C THEN 1 ELSE 0) = m + (IF w \in D THEN 1 ELSE 0)
  BY <1>3, <1>5, <1>7
<1>9. QED
  BY <1>4, <1>6, <1>7, <1>8 DEF One

(* A call whose frame is not the copy of a closure in insert().            *)
LEMMA NothingCopied ==
  ASSUME NEW s \in Seq(Frames), \A i \in 1..Len(s) : s[i].kind # "copied", NEW p
  PROVE  HeldCount(s, {"copied"}, p) = 0
<1>1. HeldIn(s, {"copied"}, p) = {}
  BY DEF HeldIn
<1>2. QED
  BY <1>1, FS_EmptySet DEF HeldCount

(* A call that has a closure of its own keeps it alive.                    *)
LEMMA HeldByLast ==
  ASSUME NEW s \in Seq(Frames), s # << >>, Last(s).kind = "miss"
  PROVE  HeldCount(s, {"miss", "copied"}, FileOf(Last(s).request)) > 0
<1>1. PICK n \in Nat : n = Len(s) /\ n > 0
  BY EmptySeq
<1>2. PICK p : p = FileOf(Last(s).request)
  OBVIOUS
<1>3. PICK H : H = HeldIn(s, {"miss", "copied"}, p)
  OBVIOUS
<1>4. n \in H
  BY <1>1, <1>2, <1>3 DEF HeldIn, Last
<1>5. IsFiniteSet(H) /\ Cardinality(H) \in Nat
  BY <1>3, HeldTyped DEF HeldCount
<1>6. Cardinality(H) # 0
  BY <1>4, <1>5, FS_EmptySet
<1>7. QED
  BY <1>2, <1>3, <1>5, <1>6 DEF HeldCount

(* A handler in a slot is a closure.                                       *)
LEMMA CachedBySlot ==
  ASSUME NEW t, NEW b \in 0..(Buckets - 1), NEW i \in Slots,
         t[b].handlers[i] \in Requests
  PROVE  CachedCount(t, FileOf(t[b].handlers[i])) > 0
<1>1. PICK h \in Requests : h = t[b].handlers[i]
  OBVIOUS
<1>2. PICK C : C = CachedIn(t, FileOf(h))
  OBVIOUS
<1>3. <<b, i>> \in C
  BY <1>1, <1>2, RequestTyped DEF CachedIn, Grid, Holds, Slots
<1>4. IsFiniteSet(C) /\ Cardinality(C) \in Nat
  BY <1>2, CachedTyped DEF CachedCount
<1>5. Cardinality(C) # 0
  BY <1>3, <1>4, FS_EmptySet
<1>6. QED
  BY <1>1, <1>2, <1>4, <1>5 DEF CachedCount

-----------------------------------------------------------------------------
(***************************************************************************)
(* What calls and returns do to the closures.                              *)
(***************************************************************************)
LEMMA StackSplit ==
  ASSUME NEW s \in Seq(Frames), s # << >>
  PROVE  /\ Front(s) \in Seq(Frames) /\ Last(s) \in Frames /\ Last(s) = s[Len(s)]
         /\ Len(s) \in Nat \ {0} /\ Len(Front(s)) = Len(s) - 1
         /\ \A i \in 1..(Len(s) - 1) : Front(s)[i] = s[i]
         /\ s = Append(Front(s), Last(s))
<1>1. PICK n \in Nat : n = Len(s) /\ n > 0
  BY EmptySeq
<1>2. \A i \in 1..n : s[i] \in Frames
  BY <1>1
<1>3. PICK g : g = SubSeq(s, 1, n - 1)
  OBVIOUS
<1>4. g \in Seq(Frames) /\ Len(g) = n - 1 /\ \A i \in 1..(n - 1) : g[i] = s[i]
  <2>1. \A i \in 1..(n - 1) : s[i] \in Frames
    BY <1>2
  <2>2. /\ SubSeq(s, 1, n - 1) \in Seq(Frames)
        /\ Len(SubSeq(s, 1, n - 1)) = IF 1 <= n - 1 THEN n - 1 - 1 + 1 ELSE 0
        /\ \A i \in 1..(n - 1 - 1 + 1) : SubSeq(s, 1, n - 1)[i] = s[1 + i - 1]
    BY <1>1, <2>1, SubSeqProperties
  <2>3. QED
    BY <1>1, <1>3, <2>2
<1>5. Front(s) = g /\ Last(s) = s[n]
  BY <1>1, <1>3 DEF Front, Last
<1>6. PICK a : a = Append(g, s[n])
  OBVIOUS
<1>7. /\ a \in Seq(Frames) /\ Len(a) = n /\ a[n] = s[n]
      /\ \A i \in 1..(n - 1) : a[i] = g[i]
  BY <1>1, <1>2, <1>4, <1>6, AppendProperties
<1>8. a = s
  <2>1. \A i \in 1..n : a[i] = s[i]
    BY <1>1, <1>4, <1>7
  <2>2. QED
    BY <1>1, <1>7, <2>1, SeqEqual
<1>9. QED
  BY <1>1, <1>2, <1>4, <1>5, <1>6, <1>8

(* InnerCallIs.                                                            *)
WithKind(s, kind) == [s EXCEPT ![Len(s)].kind = kind]

LEMMA WithKindIs ==
  ASSUME NEW s \in Seq(Frames), s # << >>, NEW kind \in {"hit", "miss", "copied"},
         NEW f, f = [Last(s) EXCEPT !.kind = kind]
  PROVE  /\ f \in Frames /\ f.kind = kind
         /\ f.request = Last(s).request /\ f.slot = Last(s).slot
         /\ WithKind(s, kind) = Append(Front(s), f)
<1>1. PICK n \in Nat : n = Len(s) /\ n > 0
  BY EmptySeq
<1>2. f \in Frames /\ f.kind = kind /\ f.request = Last(s).request /\ f.slot = Last(s).slot
  <2>1. Last(s) \in Frames
    BY StackSplit
  <2>2. QED
    BY <2>1 DEF Frames
<1>3. PICK u : u = [s EXCEPT ![n] = f]
  OBVIOUS
<1>4. WithKind(s, kind) = u
  BY <1>1, <1>3, StackSplit DEF WithKind
<1>5. u \in Seq(Frames) /\ Len(u) = n /\ \A i \in 1..n : u[i] = IF i = n THEN f ELSE s[i]
  BY <1>1, <1>2, <1>3, ExceptSeq
<1>6. PICK a : a = Append(Front(s), f)
  OBVIOUS
<1>7. /\ a \in Seq(Frames) /\ Len(a) = n /\ a[n] = f
      /\ \A i \in 1..(n - 1) : a[i] = s[i]
  <2>1. Front(s) \in Seq(Frames) /\ Len(Front(s)) = n - 1 /\ \A i \in 1..(n - 1) : Front(s)[i] = s[i]
    BY <1>1, StackSplit
  <2>2. QED
    BY <1>1, <1>2, <1>6, <2>1, AppendProperties
<1>8. a = u
  <2>1. \A i \in 1..n : a[i] = u[i]
    BY <1>5, <1>7
  <2>2. QED
    BY <1>5, <1>7, <2>1, SeqEqual
<1>9. QED
  BY <1>2, <1>4, <1>6, <1>8

(* The closures of p that a call has.                                      *)
Weight(f, p) ==
  IF FileOf(f.request) # p \/ f.kind = "hit" THEN 0 ELSE IF f.kind = "miss" THEN 1 ELSE 2

LEMMA CopiesTyped ==
  ASSUME NEW t, NEW s \in Seq(Frames), NEW p \in Paths
  PROVE  /\ Copies(t, s)[p] \in Nat
         /\ (\A i \in 1..Len(s) : s[i].kind # "copied")
              => Copies(t, s)[p] <= Buckets * Entries + Len(s)
<1>1. PICK a \in Nat, b \in Nat, c \in Nat :
        /\ a = CachedCount(t, p) /\ b = HeldCount(s, {"miss", "copied"}, p)
        /\ c = HeldCount(s, {"copied"}, p)
  BY CachedTyped, HeldTyped
<1>2. Copies(t, s)[p] = a + b + c
  BY <1>1 DEF Copies
<1>3. a <= Buckets * Entries /\ b <= Len(s)
  BY <1>1, CachedTyped, HeldTyped
<1>4. (\A i \in 1..Len(s) : s[i].kind # "copied") => c = 0
  BY <1>1, NothingCopied
<1>5. PICK m \in Nat, n \in Nat : m = Buckets * Entries /\ n = Len(s)
  BY SiteAssumption
<1>6. QED
  BY <1>2, <1>3, <1>4, <1>5

LEMMA CopiesPlus ==
  ASSUME NEW t, NEW s \in Seq(Frames), NEW f \in Frames, NEW p \in Paths
  PROVE  Copies(t, Append(s, f))[p] = Copies(t, s)[p] + Weight(f, p)
<1>1. PICK a \in Nat, b \in Nat, c \in Nat :
        /\ a = CachedCount(t, p) /\ b = HeldCount(s, {"miss", "copied"}, p)
        /\ c = HeldCount(s, {"copied"}, p)
  BY CachedTyped, HeldTyped
<1>2. Copies(t, s)[p] = a + b + c
  BY <1>1 DEF Copies
<1>3. PICK x, y : x = HeldCount(Append(s, f), {"miss", "copied"}, p)
                  /\ y = HeldCount(Append(s, f), {"copied"}, p)
  OBVIOUS
<1>4. Copies(t, Append(s, f))[p] = a + x + y
  BY <1>1, <1>3 DEF Copies
<1>5. /\ x = b + IF f.kind \in {"miss", "copied"} /\ FileOf(f.request) = p THEN 1 ELSE 0
      /\ y = c + IF f.kind \in {"copied"} /\ FileOf(f.request) = p THEN 1 ELSE 0
  BY <1>1, <1>3, HeldPlus
<1>6. f.kind \in {"hit", "miss", "copied"}
  BY DEF Frames
<1>7. QED
  BY <1>2, <1>4, <1>5, <1>6 DEF Weight

(* A closure more, or less.                                                *)
More(h, p) == [h EXCEPT ![p] = @ + 1]
Less(h, p) == [h EXCEPT ![p] = @ - 1]

LEMMA OneMoreIs ==
  ASSUME NEW F, NEW G, F = [q \in Paths |-> F[q]], G = [q \in Paths |-> G[q]], NEW p \in Paths,
         \A q \in Paths : F[q] \in Nat /\ G[q] = F[q] + IF q = p THEN 1 ELSE 0
  PROVE  G = More(F, p) /\ F = Less(G, p) /\ G[p] > 0
<1>1. PICK H, K : H = More(F, p) /\ K = Less(G, p)
  OBVIOUS
<1>2. H = [q \in Paths |-> H[q]] /\ K = [q \in Paths |-> K[q]]
  BY <1>1 DEF More, Less
<1>3. \A q \in Paths : G[q] = H[q]
  BY <1>1 DEF More
<1>4. \A q \in Paths : F[q] = K[q]
  BY <1>1 DEF Less
<1>5. G = H /\ F = K
  BY <1>2, <1>3, <1>4
<1>6. G[p] > 0
  OBVIOUS
<1>7. QED
  BY <1>1, <1>5, <1>6

(* A call of a closure in the cache begins or ends.                        *)
LEMMA CopiesHit ==
  ASSUME NEW t, NEW s \in Seq(Frames), NEW f \in Frames, f.kind = "hit"
  PROVE  Copies(t, Append(s, f)) = Copies(t, s)
<1>1. \A p \in Paths : Copies(t, Append(s, f))[p] = Copies(t, s)[p]
  <2>1. TAKE p \in Paths
  <2>2. Copies(t, Append(s, f))[p] = Copies(t, s)[p] + Weight(f, p)
    BY CopiesPlus
  <2>3. QED
    BY <2>2, CopiesTyped DEF Weight
<1>2. QED
  BY <1>1 DEF Copies

(* A call with a closure of its own begins or ends.                        *)
LEMMA CopiesMiss ==
  ASSUME NEW t, NEW s \in Seq(Frames), NEW f \in Frames, f.kind = "miss",
         NEW p \in Paths, p = FileOf(f.request)
  PROVE  /\ Copies(t, Append(s, f)) = More(Copies(t, s), p)
         /\ Copies(t, s) = Less(Copies(t, Append(s, f)), p)
         /\ Copies(t, Append(s, f))[p] > 0
<1>1. PICK F, G : F = Copies(t, s) /\ G = Copies(t, Append(s, f))
  OBVIOUS
<1>2. F = [q \in Paths |-> F[q]] /\ G = [q \in Paths |-> G[q]]
  BY <1>1 DEF Copies
<1>3. \A q \in Paths : F[q] \in Nat /\ G[q] = F[q] + IF q = p THEN 1 ELSE 0
  <2>1. TAKE q \in Paths
  <2>2. Copies(t, Append(s, f))[q] = Copies(t, s)[q] + Weight(f, q)
    BY CopiesPlus
  <2>3. Weight(f, q) = IF q = p THEN 1 ELSE 0
    BY DEF Weight
  <2>4. QED
    BY <1>1, <2>2, <2>3, CopiesTyped
<1>4. G = More(F, p) /\ F = Less(G, p) /\ G[p] > 0
  BY <1>2, <1>3, OneMoreIs
<1>5. QED
  BY <1>1, <1>4

(* insert() copies the closure.                                            *)
LEMMA CopiesCopied ==
  ASSUME NEW t, NEW s \in Seq(Frames), NEW f \in Frames, NEW g \in Frames,
         f.kind = "miss", g.kind = "copied", f.request = g.request,
         NEW p \in Paths, p = FileOf(f.request)
  PROVE  Copies(t, Append(s, g)) = More(Copies(t, Append(s, f)), p)
<1>1. PICK F, G : F = Copies(t, Append(s, f)) /\ G = Copies(t, Append(s, g))
  OBVIOUS
<1>2. F = [q \in Paths |-> F[q]] /\ G = [q \in Paths |-> G[q]]
  BY <1>1 DEF Copies
<1>3. \A q \in Paths : F[q] \in Nat /\ G[q] = F[q] + IF q = p THEN 1 ELSE 0
  <2>1. TAKE q \in Paths
  <2>2. /\ Copies(t, Append(s, f))[q] = Copies(t, s)[q] + Weight(f, q)
        /\ Copies(t, Append(s, g))[q] = Copies(t, s)[q] + Weight(g, q)
    BY CopiesPlus
  <2>3. /\ Weight(f, q) = IF q = p THEN 1 ELSE 0
        /\ Weight(g, q) = IF q = p THEN 2 ELSE 0
    BY DEF Weight
  <2>4. Copies(t, s)[q] \in Nat
    BY CopiesTyped
  <2>5. QED
    BY <1>1, <2>2, <2>3, <2>4
<1>4. G = More(F, p)
  BY <1>2, <1>3, OneMoreIs
<1>5. QED
  BY <1>1, <1>4

(* insert() exchanges the copy with what the slot held.                    *)
Swapped(t, b, r) == [t EXCEPT ![b] = EntryWith(t[b], r)]

Overwritten(t, b) == t[b].handlers[t[b].nextToEvict]

LEMMA SlotsSwapped ==
  ASSUME TableOK, NEW r \in Requests, NEW b \in 0..(Buckets - 1), NEW p \in Paths
  PROVE  CachedCount(Swapped(table, b, r), p) + One(Overwritten(table, b), p)
           = CachedCount(table, p) + One(r, p)
<1>1. PICK u, old : u = Swapped(table, b, r) /\ old = Overwritten(table, b)
  OBVIOUS
<1>2. PICK e : e = table[b] /\ EntryOK(e)
  BY DEF TableOK
<1>3. PICK n \in Slots : n = e.nextToEvict
  BY <1>2 DEF EntryOK
<1>4. PICK d : d = EntryWith(e, r)
  OBVIOUS
<1>5. d.handlers[n] = r /\ \A i \in Slots : i # n => d.handlers[i] = e.handlers[i]
  BY <1>2, <1>3, <1>4, EntryWithOK
<1>6. \A c \in 0..(Buckets - 1) : u[c] = IF c = b THEN d ELSE table[c]
  BY <1>1, <1>2, <1>4 DEF TableOK, Swapped
<1>7. PICK w \in Grid : w[1] = b /\ w[2] = n /\ w = <<b, n>>
  <2>1. <<b, n>> \in Grid
    BY DEF Grid, Slots
  <2>2. QED
    BY <2>1
<1>8. SameBut(table, u, w)
  <2> SUFFICES ASSUME NEW v \in Grid
               PROVE  v # w => u[v[1]].handlers[v[2]] = table[v[1]].handlers[v[2]]
    BY DEF SameBut
  <2>2. v[1] \in 0..(Buckets - 1) /\ v[2] \in Slots /\ v = <<v[1], v[2]>>
    BY DEF Grid, Slots
  <2>3. CASE v[1] # b
    BY <1>6, <2>2, <2>3
  <2>4. CASE v[1] = b
    BY <1>2, <1>5, <1>6, <1>7, <2>2, <2>4
  <2>5. QED
    BY <2>3, <2>4
<1>9. table[w[1]].handlers[w[2]] = old /\ u[w[1]].handlers[w[2]] = r
  BY <1>1, <1>2, <1>3, <1>5, <1>6, <1>7 DEF Overwritten
<1>10. PICK t : t = table
  OBVIOUS
<1>11. CachedCount(u, p) + One(t[w[1]].handlers[w[2]], p)
         = CachedCount(t, p) + One(u[w[1]].handlers[w[2]], p)
  BY <1>8, <1>10, CachedChanges
<1>12. QED
  BY <1>1, <1>9, <1>10, <1>11

LEMMA CopiesSwapped ==
  ASSUME TableOK, NEW s \in Seq(Frames), NEW f \in Frames, NEW g \in Frames,
         f.kind = "copied", g.kind = "miss", f.request = g.request,
         NEW b \in 0..(Buckets - 1)
  PROVE  /\ Overwritten(table, b) = Routes!NoHandler =>
              Copies(Swapped(table, b, f.request), Append(s, g)) = Copies(table, Append(s, f))
         /\ Overwritten(table, b) # Routes!NoHandler =>
              /\ FileOf(Overwritten(table, b)) \in Paths
              /\ Copies(table, Append(s, f))[FileOf(Overwritten(table, b))] > 0
              /\ Copies(Swapped(table, b, f.request), Append(s, g))
                   = Less(Copies(table, Append(s, f)), FileOf(Overwritten(table, b)))
<1>1. PICK r \in Requests : r = f.request
  BY DEF Frames
<1>2. PICK u, old : u = Swapped(table, b, r) /\ old = Overwritten(table, b)
  OBVIOUS
<1>3. PICK F, G : F = Copies(table, Append(s, f)) /\ G = Copies(u, Append(s, g))
  OBVIOUS
<1>4. old \in Requests \cup {Routes!NoHandler} /\ r # Routes!NoHandler
  <2>1. EntryOK(table[b])
    BY DEF TableOK
  <2>2. QED
    BY <1>2, <2>1, RequestTyped DEF EntryOK, Overwritten
<1>5. \A q \in Paths : G[q] \in Nat /\ F[q] = G[q] + One(old, q)
  <2>1. TAKE q \in Paths
  <2>2. PICK x \in Nat, y \in Nat : x = CachedCount(table, q) /\ y = CachedCount(u, q)
    BY CachedTyped
  <2>3. y + One(old, q) = x + One(r, q)
    BY <1>2, <2>2, SlotsSwapped
  <2>4. PICK j \in Nat, k \in Nat :
          j = HeldCount(s, {"miss", "copied"}, q) /\ k = HeldCount(s, {"copied"}, q)
    BY HeldTyped
  <2>5. Copies(table, s)[q] = x + j + k /\ Copies(u, s)[q] = y + j + k
    BY <2>2, <2>4 DEF Copies
  <2>6. F[q] = Copies(table, s)[q] + Weight(f, q) /\ G[q] = Copies(u, s)[q] + Weight(g, q)
    BY <1>3, CopiesPlus
  <2>7. One(r, q) = (IF FileOf(r) = q THEN 1 ELSE 0) /\ One(old, q) \in 0..1
    BY <1>4 DEF Holds, One
  <2>8. /\ Weight(f, q) = IF FileOf(r) = q THEN 2 ELSE 0
        /\ Weight(g, q) = IF FileOf(r) = q THEN 1 ELSE 0
    BY <1>1 DEF Weight
  <2>9. PICK o \in 0..1 : o = One(old, q)
    BY <2>7
  <2>10. CASE FileOf(r) = q
    BY <2>3, <2>5, <2>6, <2>7, <2>8, <2>9, <2>10
  <2>11. CASE FileOf(r) # q
    <3>1. y + o = x
      BY <2>3, <2>7, <2>9, <2>11
    <3>2. F[q] = x + j + k + 0 /\ G[q] = y + j + k + 0
      BY <2>5, <2>6, <2>8, <2>11
    <3>3. QED
      BY <2>9, <3>1, <3>2
  <2>12. QED
    BY <2>10, <2>11
<1>6. F = [q \in Paths |-> F[q]] /\ G = [q \in Paths |-> G[q]]
  BY <1>3 DEF Copies
<1>7. CASE old = Routes!NoHandler
  <2>1. \A q \in Paths : F[q] = G[q]
    BY <1>5, <1>7 DEF Holds, One
  <2>2. G = F
    BY <1>6, <2>1
  <2>3. QED
    BY <1>1, <1>2, <1>3, <1>7, <2>2
<1>8. CASE old # Routes!NoHandler
  <2>1. PICK p \in Paths : p = FileOf(old)
    BY <1>4, <1>8, RequestTyped
  <2>2. \A q \in Paths : G[q] \in Nat /\ F[q] = G[q] + IF q = p THEN 1 ELSE 0
    BY <1>5, <1>8, <2>1 DEF Holds, One
  <2>3. G = Less(F, p) /\ F[p] > 0
    <3>1. PICK H : H = Less(F, p)
      OBVIOUS
    <3>2. H = [q \in Paths |-> H[q]]
      BY <1>6, <3>1 DEF Less
    <3>3. \A q \in Paths : G[q] = H[q]
      BY <1>6, <2>2, <3>1 DEF Less
    <3>4. G = H
      BY <1>6, <3>2, <3>3
    <3>5. F[p] > 0
      BY <2>2
    <3>6. QED
      BY <3>1, <3>4, <3>5
  <2>4. QED
    BY <1>1, <1>2, <1>3, <1>8, <2>1, <2>3
<1>9. QED
  BY <1>7, <1>8

-----------------------------------------------------------------------------
(***************************************************************************)
(* StaticFileManager's operations leave its counter of requests alone.     *)
(***************************************************************************)
Kept(m, n) == ManagerFields(n) /\ n.requestsCounter = m.requestsCounter

LEMMA ReferencedKept ==
  ASSUME NEW m, ManagerFields(m), NEW p
  PROVE  Kept(m, Files!Referenced(m, p))
BY DEF ManagerFields, Kept, Files!Referenced

LEMMA UnrefKept ==
  ASSUME NEW m, ManagerFields(m), NEW p
  PROVE  Kept(m, Files!Unref(m, p))
BY DEF ManagerFields, Kept, Files!Unref

LEMMA UnloadKept ==
  ASSUME NEW m, ManagerFields(m), NEW p
  PROVE  Kept(m, Files!Unload(m, p))
<1>1. PICK g : g = [q \in Paths |-> IF q = p THEN Files!Closed(m.file[p])
                                   ELSE Files!Relinked(m.file[q], q, m.file[p])]
  OBVIOUS
<1>2. PICK n : n = [m EXCEPT !.file = g,
                      !.firstToFree = IF p = m.firstToFree THEN m.file[p].next ELSE m.firstToFree,
                      !.lastToFree = IF p = m.lastToFree THEN m.file[p].prev ELSE m.lastToFree,
                      !.nLoaded = m.nLoaded - 1]
  OBVIOUS
<1>3. Files!Unload(m, p) = n
  BY <1>1, <1>2, Zenon DEF Files!Unload
<1>4. Kept(m, n)
  BY <1>2 DEF ManagerFields, Kept
<1>5. QED
  BY <1>3, <1>4

LEMMA LoadKept ==
  ASSUME NEW m, ManagerFields(m), NEW p
  PROVE  Kept(m, Files!Load(m, p))
BY DEF ManagerFields, Kept, Files!Load

LEMMA ReloadKept ==
  ASSUME NEW m, ManagerFields(m), NEW p
  PROVE  Kept(m, Files!ReloadIfStale(m, p))
<1>1. PICK checked, failed : /\ checked = [m EXCEPT !.file[p].age = 0]
                             /\ failed = [checked EXCEPT !.file[p].exception = TRUE]
  OBVIOUS
<1>2. Kept(m, checked)
  BY <1>1 DEF ManagerFields, Kept
<1>3. Kept(m, failed)
  BY <1>1, <1>2 DEF ManagerFields, Kept
<1>4. Kept(m, m) /\ Kept(m, Files!Load(m, p))
  BY LoadKept DEF Kept
<1>5. Kept(m, Files!Unload(checked, p)) /\ Kept(m, Files!Unload(failed, p))
  BY <1>2, <1>3, UnloadKept DEF Kept
<1>6. Kept(m, Files!Load(Files!Unload(checked, p), p))
  BY <1>5, LoadKept DEF Kept
<1>7. Files!ReloadIfStale(m, p) \in
        {m, Files!Load(m, p), Files!Unload(failed, p), Files!Load(Files!Unload(checked, p), p), checked}
  BY <1>1 DEF Files!ReloadIfStale
<1>8. QED
  BY <1>2, <1>4, <1>5, <1>6, <1>7

(* One round of the loop of timerCB(), and f as its first n rounds.        *)
Round(m) == IF m.nLoaded <= m.capacity THEN m ELSE Files!Pop(m)

Rounds(f, n, start) ==
  f = [i \in 0..n |-> IF i = 0 THEN start
                      ELSE IF f[i - 1].nLoaded <= f[i - 1].capacity THEN f[i - 1]
                      ELSE Files!Pop(f[i - 1])]

LEMMA RoundsExtend ==
  ASSUME NEW n \in Nat, NEW start, NEW f, Rounds(f, n, start)
  PROVE  \E g : Rounds(g, n + 1, start)
<1>1. PICK top : top = Round(f[n])
  OBVIOUS
<1>2. PICK g : g = [i \in 0..(n + 1) |-> IF i <= n THEN f[i] ELSE top]
  OBVIOUS
<1>3. ASSUME NEW i \in 0..n
      PROVE  f[i] = IF i = 0 THEN start
                    ELSE IF f[i - 1].nLoaded <= f[i - 1].capacity THEN f[i - 1]
                    ELSE Files!Pop(f[i - 1])
  BY Zenon DEF Rounds
<1>4. ASSUME NEW i \in 0..(n + 1)
      PROVE  g[i] = IF i = 0 THEN start
                    ELSE IF g[i - 1].nLoaded <= g[i - 1].capacity THEN g[i - 1]
                    ELSE Files!Pop(g[i - 1])
  <2>1. CASE i = 0
    <3>1. g[i] = f[i] /\ f[i] = start
      BY <1>2, <1>3, <2>1
    <3>2. QED
      BY <2>1, <3>1
  <2>2. CASE i \in 1..n
    <3>1. g[i] = f[i] /\ g[i - 1] = f[i - 1] /\ i \in 0..n /\ i # 0
      BY <1>2, <2>2
    <3>2. QED
      BY <1>3, <3>1
  <2>3. CASE i = n + 1
    <3>1. g[i] = top /\ g[i - 1] = f[n] /\ i # 0
      BY <1>2, <2>3
    <3>2. QED
      BY <1>1, <3>1 DEF Round
  <2>4. QED
    BY <2>1, <2>2, <2>3
<1>5. PICK h : h = [i \in 0..(n + 1) |-> IF i = 0 THEN start
                      ELSE IF g[i - 1].nLoaded <= g[i - 1].capacity THEN g[i - 1]
                      ELSE Files!Pop(g[i - 1])]
  OBVIOUS
<1>6. g = h
  <2>1. \A i \in 0..(n + 1) : g[i] = h[i]
    BY <1>4, <1>5
  <2>2. QED
    BY <1>2, <1>5, <2>1
<1>7. QED
  BY <1>5, <1>6 DEF Rounds

LEMMA RoundsExist ==
  ASSUME NEW n \in Nat, NEW start
  PROVE  \E f : Rounds(f, n, start)
<1> DEFINE Missing == {k \in Nat : ~ \E f : Rounds(f, k, start)}
<1>1. SUFFICES ASSUME Missing # {} PROVE FALSE
  OBVIOUS
<1>2. PICK k \in Missing : \A l \in Missing : k <= l
  BY <1>1, LeastOfNat
<1>3. k # 0
  <2>1. PICK f : f = [i \in 0..0 |-> start]
    OBVIOUS
  <2>2. Rounds(f, 0, start)
    BY <2>1 DEF Rounds
  <2>3. QED
    BY <1>2, <2>2
<1>4. PICK l \in Nat : l + 1 = k /\ l \notin Missing
  <2>1. k - 1 \in Nat /\ (k - 1) + 1 = k /\ ~(k <= k - 1)
    BY <1>2, <1>3
  <2>2. QED
    BY <1>2, <2>1
<1>5. \E f : Rounds(f, k, start)
  BY <1>4, RoundsExtend
<1>6. QED
  BY <1>2, <1>5

LEMMA RoundsKept ==
  ASSUME NEW start, ManagerFields(start), NEW n \in Nat, NEW f, Rounds(f, n, start)
  PROVE  ManagerFields(f[n])
<1> DEFINE Wrong == {k \in Nat : k <= n /\ ~ManagerFields(f[k])}
<1>1. SUFFICES ASSUME Wrong # {} PROVE FALSE
  OBVIOUS
<1>2. PICK k \in Wrong : \A l \in Wrong : k <= l
  BY <1>1, LeastOfNat
<1>3. ASSUME NEW i \in 0..n
      PROVE  f[i] = IF i = 0 THEN start
                    ELSE IF f[i - 1].nLoaded <= f[i - 1].capacity THEN f[i - 1]
                    ELSE Files!Pop(f[i - 1])
  BY Zenon DEF Rounds
<1>4. k # 0
  BY <1>2, <1>3
<1>5. PICK l \in Nat : l = k - 1 /\ ManagerFields(f[l])
  <2>1. k - 1 \in Nat /\ ~(k <= k - 1) /\ k - 1 <= n
    BY <1>2, <1>4
  <2>2. k - 1 \notin Wrong
    BY <1>2, <2>1
  <2>3. QED
    BY <2>1, <2>2
<1>6. ManagerFields(Files!Pop(f[l]))
  BY <1>5, UnloadKept DEF Files!Pop, Kept
<1>7. f[k] = f[l] \/ f[k] = Files!Pop(f[l])
  BY <1>2, <1>3, <1>4, <1>5
<1>8. QED
  BY <1>2, <1>5, <1>6, <1>7

LEMMA PurgeKept ==
  ASSUME NEW m, ManagerFields(m)
  PROVE  ManagerFields(Files!Purge(m))
<1> DEFINE start == [m EXCEPT !.capacity = Files!Shrunk(m.capacity)]
           after == CHOOSE f : Rounds(f, maxPurgePerCycle, start)
<1>1. Files!Purge(m) = IF m.loadsCounter * targetCacheHitRatio <= m.requestsCounter
                       THEN after[maxPurgePerCycle] ELSE m
  BY Zenon DEF Files!Purge, Rounds
<1>2. ManagerFields(start)
  BY DEF ManagerFields
<1>3. maxPurgePerCycle \in Nat
  BY SiteAssumption
<1>4. Rounds(after, maxPurgePerCycle, start)
  BY <1>3, RoundsExist
<1> HIDE DEF start, after
<1>5. ManagerFields(after[maxPurgePerCycle])
  BY <1>2, <1>3, <1>4, RoundsKept
<1>6. QED
  BY <1>1, <1>5

-----------------------------------------------------------------------------
(***************************************************************************)
(* The requests that are still to be counted.                              *)
(***************************************************************************)
LEMMA ConnTyped ==
  ASSUME NEW k, ConnOK(k)
  PROVE  /\ k.phase \in Phases /\ k.pipeline \in Seq(Requests) /\ Len(k.pipeline) \in Nat
         /\ Uncounted(k) \in 0..MaxPipeline /\ Ahead(k) \in Nat /\ Ahead(k) <= MaxDepth
         /\ k.phase \notin {"closed", "reading"} =>
              /\ Len(k.pipeline) > 0 /\ k.pipeline # << >> /\ Head(k.pipeline) \in Requests
<1>1. PICK q \in Seq(Requests), ph \in Phases : q = k.pipeline /\ ph = k.phase
  BY DEF ConnOK, Connections
<1>2. PICK n \in Nat : n = Len(q)
  OBVIOUS
<1>3. n <= MaxPipeline /\ n <= MaxDepth /\ MaxPipeline \in Nat /\ MaxDepth \in Nat
  BY <1>1, <1>2, SiteAssumption DEF ConnOK
<1>4. ph \notin {"closed", "reading"} => n > 0 /\ q # << >> /\ Head(q) \in Requests
  BY <1>1, <1>2, EmptySeq, HeadTailProperties DEF ConnOK
<1>5. ph = "sending" => n > 0
  BY <1>4
<1>6. ph \notin {"closed", "reading", "request"} => n > 0
  BY <1>4
<1>7. Uncounted(k) \in 0..MaxPipeline
  BY <1>1, <1>2, <1>3, <1>5 DEF Uncounted
<1>8. Ahead(k) \in Nat /\ Ahead(k) <= MaxDepth
  BY <1>1, <1>2, <1>3, <1>6 DEF Ahead
<1>9. QED
  BY <1>1, <1>2, <1>4, <1>7, <1>8

LEMMA UncountedFinite ==
  ASSUME NEW cs
  PROVE  IsFiniteSet(UncountedIn(cs)) /\ Cardinality(UncountedIn(cs)) \in Nat
<1>1. PICK S : S = 1..MaxPipeline
  OBVIOUS
<1>2. IsFiniteSet(S)
  BY <1>1, SiteAssumption, FS_Interval
<1>3. IsFiniteSet(Conns)
  BY SiteAssumption
<1>4. IsFiniteSet(Conns \X S)
  BY <1>2, <1>3, FS_Product
<1>5. PICK U : U = UncountedIn(cs)
  OBVIOUS
<1>6. U \in SUBSET (Conns \X S)
  BY <1>1, <1>5 DEF UncountedIn
<1>7. IsFiniteSet(U)
  BY <1>4, <1>6, FS_Subset
<1>8. QED
  BY <1>5, <1>7, FS_CardinalityType

(* No connection has more to be counted.                                   *)
NoMore(cs, ds) ==
  \A c \in Conns : /\ Uncounted(cs[c]) \in 0..MaxPipeline /\ Uncounted(ds[c]) \in 0..MaxPipeline
                   /\ Uncounted(ds[c]) <= Uncounted(cs[c])

LEMMA UncountedFewer ==
  ASSUME NEW cs, NEW ds, NoMore(cs, ds)
  PROVE  /\ Cardinality(UncountedIn(ds)) <= Cardinality(UncountedIn(cs))
         /\ \A c \in Conns : Uncounted(ds[c]) < Uncounted(cs[c])
              => Cardinality(UncountedIn(ds)) < Cardinality(UncountedIn(cs))
<1>1. PICK U, V : U = UncountedIn(cs) /\ V = UncountedIn(ds)
  OBVIOUS
<1>2. MaxPipeline \in Nat
  BY SiteAssumption
<1>3. V \in SUBSET U
  <2>1. ASSUME NEW w \in V PROVE w \in U
    <3>1. PICK c \in Conns, i \in 1..MaxPipeline : w = <<c, i>> /\ i <= Uncounted(ds[c])
      BY <1>1, <2>1 DEF UncountedIn
    <3>2. i <= Uncounted(cs[c])
      BY <1>2, <3>1 DEF NoMore
    <3>3. QED
      BY <1>1, <3>1, <3>2 DEF UncountedIn
  <2>2. QED
    BY <2>1
<1>4. IsFiniteSet(U) /\ Cardinality(U) \in Nat /\ Cardinality(V) \in Nat
  BY <1>1, UncountedFinite
<1>5. Cardinality(V) <= Cardinality(U) /\ (Cardinality(U) = Cardinality(V) => U = V)
  BY <1>3, <1>4, FS_Subset
<1>6. ASSUME NEW c \in Conns, Uncounted(ds[c]) < Uncounted(cs[c]) PROVE U # V
  <2>1. PICK n \in 0..MaxPipeline, m \in 0..MaxPipeline :
          n = Uncounted(cs[c]) /\ m = Uncounted(ds[c]) /\ m < n
    BY <1>6 DEF NoMore
  <2>2. n \in 1..MaxPipeline /\ n <= n /\ ~(n <= m)
    BY <1>2, <2>1
  <2>3. <<c, n>> \in U
    BY <1>1, <2>1, <2>2 DEF UncountedIn
  <2>4. <<c, n>> \notin V
    BY <1>1, <2>1, <2>2 DEF UncountedIn
  <2>5. QED
    BY <2>3, <2>4
<1>7. \A c \in Conns : Uncounted(ds[c]) < Uncounted(cs[c]) => Cardinality(V) < Cardinality(U)
  BY <1>4, <1>5, <1>6
<1>8. QED
  BY <1>1, <1>5, <1>7

(* A read adds the requests it finds to those that Outstanding counts.     *)
LEMMA UncountedRead ==
  ASSUME ConnsOK, NEW c \in Conns, conn[c].pipeline = << >>, NEW n \in 1..MaxPipeline,
         NEW k, Uncounted(k) = n, NEW ds, ds = [conn EXCEPT ![c] = k]
  PROVE  Outstanding \in Nat /\ Cardinality(UncountedIn(ds)) <= Outstanding + n
<1>1. PICK S : S = 1..MaxPipeline
  OBVIOUS
<1>2. MaxPipeline \in Nat /\ n \in Nat /\ n <= MaxPipeline
  BY SiteAssumption
<1>3. PICK A : A = {w \in Conns \X S : w[2] <= Len(conn[w[1]].pipeline)}
  OBVIOUS
<1>4. Outstanding = Cardinality(A)
  BY <1>1, <1>3 DEF Outstanding
<1>5. IsFiniteSet(Conns \X S)
  <2>1. IsFiniteSet(S)
    BY <1>1, <1>2, FS_Interval
  <2>2. IsFiniteSet(Conns)
    BY SiteAssumption
  <2>3. QED
    BY <2>1, <2>2, FS_Product
<1>6. IsFiniteSet(A) /\ Cardinality(A) \in Nat
  <2>1. A \in SUBSET (Conns \X S)
    BY <1>3
  <2>2. IsFiniteSet(A)
    BY <1>5, <2>1, FS_Subset
  <2>3. QED
    BY <2>2, FS_CardinalityType
<1>7. PICK B, I : B = {c} \X I /\ I = 1..n
  OBVIOUS
<1>8. IsFiniteSet(B) /\ Cardinality(B) = n
  <2>1. IsFiniteSet(I) /\ Cardinality(I) = n
    BY <1>2, <1>7, FS_Interval
  <2>2. IsFiniteSet({c}) /\ Cardinality({c}) = 1
    BY FS_Singleton
  <2>3. IsFiniteSet(B) /\ Cardinality(B) = 1 * n
    BY <1>7, <2>1, <2>2, FS_Product
  <2>4. QED
    BY <1>2, <2>3
<1>9. PICK U : U = UncountedIn(ds)
  OBVIOUS
<1>10. U \in SUBSET (A \cup B)
  <2>1. ASSUME NEW w \in U PROVE w \in A \cup B
    <3>1. PICK d \in Conns, i \in 1..MaxPipeline : w = <<d, i>> /\ i <= Uncounted(ds[d])
      BY <1>9, <2>1 DEF UncountedIn
    <3>2. CASE d = c
      <4>1. ds[d] = k
        BY <3>2 DEF ConnsOK
      <4>2. i \in I
        BY <1>2, <1>7, <3>1, <4>1
      <4>3. QED
        BY <1>7, <3>1, <3>2, <4>2
    <3>3. CASE d # c
      <4>1. ds[d] = conn[d]
        BY <3>3 DEF ConnsOK
      <4>2. PICK m \in Nat : m = Len(conn[d].pipeline) /\ Uncounted(conn[d]) \in {m, m - 1}
        BY ConnTyped DEF ConnsOK, Uncounted
      <4>3. i <= m
        BY <3>1, <4>1, <4>2
      <4>4. w \in A
        BY <1>1, <1>3, <3>1, <4>2, <4>3
      <4>5. QED
        BY <4>4
    <3>4. QED
      BY <3>2, <3>3
  <2>2. QED
    BY <2>1
<1>11. /\ IsFiniteSet(A \cup B)
       /\ Cardinality(A \cup B) = Cardinality(A) + Cardinality(B) - Cardinality(A \cap B)
  BY <1>6, <1>8, FS_Union
<1>12. Cardinality(A \cap B) \in Nat
  <2>1. IsFiniteSet(A \cap B)
    BY <1>6, FS_Intersection
  <2>2. QED
    BY <2>1, FS_CardinalityType
<1>13. Cardinality(U) <= Cardinality(A \cup B) /\ Cardinality(A \cup B) \in Nat
  BY <1>10, <1>11, FS_Subset, FS_CardinalityType
<1>14. Cardinality(U) \in Nat
  BY <1>9, UncountedFinite
<1>15. QED
  BY <1>2, <1>4, <1>6, <1>8, <1>9, <1>11, <1>12, <1>13, <1>14

-----------------------------------------------------------------------------
(***************************************************************************)
(* What a step of one connection leaves as it was.                         *)
(***************************************************************************)
(* No other connection is between two callbacks.                           *)
LEMMA ConnStep ==
  ASSUME ConnsOK, NEW c \in Conns, running \in {c, NONE}, running' = c,
         NEW k, ConnOK(k), conn' = [conn EXCEPT ![c] = k]
  PROVE  /\ ConnsOK' /\ conn'[c] = k
         /\ \A d \in Conns : d # c => conn'[d] = conn[d] /\ AtRest(conn[d])
<1>1. conn' = [d \in Conns |-> IF d = c THEN k ELSE conn[d]]
  BY DEF ConnsOK
<1>2. conn'[c] = k /\ \A d \in Conns : d # c => conn'[d] = conn[d]
  BY <1>1
<1>3. \A d \in Conns : d # c => ConnOK(conn[d]) /\ AtRest(conn[d])
  BY SiteAssumption DEF ConnsOK
<1>4. conn' = [d \in Conns |-> conn'[d]]
  BY <1>1
<1>5. \A d \in Conns : ConnOK(conn'[d]) /\ (AtRest(conn'[d]) \/ running' = d)
  BY <1>2, <1>3
<1>6. QED
  BY <1>2, <1>3, <1>4, <1>5 DEF ConnsOK

(* InPhase.                                                                *)
LEMMA PhaseIs ==
  ASSUME ConnsOK, NEW c \in Conns, conn[c].phase \notin {"closed", "reading"},
         NEW phase \in Phases \ {"closed", "reading"}, InPhase(c, phase)
  PROVE  \E k : /\ conn' = [conn EXCEPT ![c] = k] /\ ConnOK(k)
                /\ k.phase = phase /\ k.pipeline = conn[c].pipeline
<1>1. PICK k : k = [conn[c] EXCEPT !.phase = phase]
  OBVIOUS
<1>2. conn[c] \in Connections /\ ConnOK(conn[c])
  BY DEF ConnsOK, ConnOK
<1>3. k \in Connections /\ k.phase = phase /\ k.pipeline = conn[c].pipeline
  BY <1>1, <1>2 DEF Connections
<1>4. ConnOK(k)
  BY <1>2, <1>3 DEF ConnOK
<1>5. conn' = [conn EXCEPT ![c] = k]
  BY <1>1 DEF InPhase
<1>6. QED
  BY <1>3, <1>4, <1>5

ClosedConn == [phase |-> "closed", pipeline |-> << >>]

LEMMA ClosedIs ==
  /\ ConnOK(ClosedConn) /\ Uncounted(ClosedConn) = 0 /\ Ahead(ClosedConn) = 0
  /\ ClosedConn.phase = "closed"
<1>1. << >> \in Seq(Requests) /\ Len(<< >>) = 0
  OBVIOUS
<1>2. MaxPipeline \in Nat /\ MaxDepth \in Nat
  BY SiteAssumption
<1>3. QED
  BY <1>1, <1>2 DEF ClosedConn, ConnOK, Connections, Phases, Uncounted, Ahead

(* A request is answered: none is counted twice, and no call more needed.  *)
LEMMA CompletedIs ==
  ASSUME ConnsOK, NEW c \in Conns, conn[c].phase \in {"answering", "sending"},
         RequestCompleted(c)
  PROVE  \E k : /\ conn' = [conn EXCEPT ![c] = k] /\ ConnOK(k)
                /\ k.phase \in {"closed", "reading", "request"}
                /\ Uncounted(k) <= Uncounted(conn[c]) /\ Ahead(k) <= Ahead(conn[c])
<1>1. PICK o, q : o = conn[c] /\ q = o.pipeline
  OBVIOUS
<1>2. /\ ConnOK(o) /\ q \in Seq(Requests) /\ Len(q) \in Nat /\ Len(q) > 0 /\ q # << >>
      /\ Uncounted(o) \in Nat /\ Ahead(o) \in Nat
  BY <1>1, ConnTyped DEF ConnsOK
<1>3. Uncounted(o) >= Len(q) - 1 /\ Ahead(o) = Len(q) - 1
  BY <1>1, <1>2 DEF Uncounted, Ahead
<1>4. CASE conn' = Closed(c)
  <2>1. PICK k : k = ClosedConn
    OBVIOUS
  <2>2. conn' = [conn EXCEPT ![c] = k]
    BY <1>4, <2>1 DEF Closed, ClosedConn
  <2>3. ConnOK(k) /\ Uncounted(k) = 0 /\ Ahead(k) = 0 /\ k.phase = "closed"
    BY <2>1, ClosedIs
  <2>4. Uncounted(k) <= Uncounted(conn[c]) /\ Ahead(k) <= Ahead(conn[c])
    BY <1>1, <1>2, <2>3
  <2>5. QED
    BY <2>2, <2>3, <2>4
<1>5. CASE conn' # Closed(c)
  <2>1. PICK k : k = [phase |-> IF Len(q) > 1 THEN "request" ELSE "reading", pipeline |-> Tail(q)]
    OBVIOUS
  <2>2. conn' = [conn EXCEPT ![c] = k]
    BY <1>1, <1>5, <2>1 DEF RequestCompleted
  <2>3. PICK n \in Nat, z \in Seq(Requests) : n = Len(q) /\ z = Tail(q) /\ n > 0 /\ Len(z) = n - 1
    BY <1>2, HeadTailProperties
  <2>4. k.pipeline = z /\ k.phase = IF n > 1 THEN "request" ELSE "reading"
    BY <2>1, <2>3
  <2>5. k \in Connections
    BY <2>1, <2>3 DEF Connections, Phases
  <2>6. z = << >> <=> n = 1
    <3>1. z = << >> <=> Len(z) = 0
      BY EmptySeq
    <3>2. QED
      BY <2>3, <3>1
  <2>7. ConnOK(k)
    <3>1. k.pipeline = << >> <=> k.phase \in {"closed", "reading"}
      <4>1. CASE n > 1
        BY <2>3, <2>4, <2>6, <4>1
      <4>2. CASE n = 1
        BY <2>3, <2>4, <2>6, <4>2
      <4>3. QED
        BY <2>3, <4>1, <4>2
    <3>2. Len(k.pipeline) <= MaxPipeline /\ Len(k.pipeline) <= MaxDepth
      <4>1. n <= MaxPipeline /\ n <= MaxDepth
        BY <1>1, <1>2, <2>3 DEF ConnOK
      <4>2. MaxPipeline \in Nat /\ MaxDepth \in Nat
        BY SiteAssumption
      <4>3. QED
        BY <2>3, <2>4, <4>1, <4>2
    <3>3. QED
      BY <2>5, <3>1, <3>2 DEF ConnOK
  <2>8. Uncounted(k) = n - 1 /\ Ahead(k) = n - 1
    BY <2>3, <2>4 DEF Uncounted, Ahead
  <2>9. Uncounted(k) <= Uncounted(conn[c]) /\ Ahead(k) <= Ahead(conn[c])
    BY <1>1, <1>2, <1>3, <2>3, <2>8
  <2>10. k.phase \in {"closed", "reading", "request"}
    BY <2>4
  <2>11. QED
    BY <2>2, <2>7, <2>9, <2>10
<1>6. QED
  BY <1>4, <1>5

(* A callback begins only with an empty stack.                             *)
LEMMA RoomToGoOn ==
  ASSUME SiteInv, NEW c \in Conns, Completes(c)
  PROVE  /\ running \in {c, NONE} /\ Len(stack) \in Nat
         /\ Len(stack) + Ahead(conn[c]) <= MaxDepth
         /\ running # c => stack = << >>
<1>1. Len(stack) \in Nat /\ (stack = << >> => Len(stack) = 0)
  BY DEF SiteInv, StackOK
<1>2. Ahead(conn[c]) \in Nat /\ Ahead(conn[c]) <= MaxDepth
  BY ConnTyped DEF SiteInv, ConnsOK
<1>3. QED
  BY <1>1, <1>2 DEF Completes, Idle, SiteInv, InnermostOK

(* A step that leaves the calls as they are.                               *)
LEMMA Proceeds ==
  ASSUME SiteInv, NEW c \in Conns, Completes(c), running' = c, UNCHANGED <<table, stack>>,
         conn[c].phase # "copied", NEW k, ConnOK(k), conn' = [conn EXCEPT ![c] = k],
         k.phase \notin {"routed", "copied", "calling"}, Len(stack) + Ahead(k) <= MaxDepth
  PROVE  ConnsOK' /\ TableOK' /\ StackOK' /\ InnermostOK'
<1>1. running \in {c, NONE} /\ (running # c => stack = << >>)
  BY RoomToGoOn
<1>2. ConnsOK' /\ conn'[c] = k
  BY <1>1, ConnStep DEF SiteInv
<1>3. TableOK'
  BY DEF SiteInv, TableOK
<1>4. \A i \in 1..Len(stack) : stack[i].kind # "copied"
  BY <1>1, SiteAssumption DEF SiteInv, StackOK
<1>5. StackOK'
  BY <1>4 DEF SiteInv, StackOK
<1>6. InnermostOK'
  BY <1>2 DEF InnermostOK
<1>7. QED
  BY <1>2, <1>3, <1>5, <1>6

(* The counter of requests.                                                *)
LEMMA Counted ==
  ASSUME CounterOK, Kept(manager, manager'), NoMore(conn, conn')
  PROVE  CounterOK'
<1>1. PICK m \in Nat, u \in Nat, v \in Nat :
        /\ m = manager.requestsCounter /\ u = Cardinality(UncountedIn(conn))
        /\ v = Cardinality(UncountedIn(conn'))
  BY UncountedFinite DEF CounterOK
<1>2. v <= u
  BY <1>1, UncountedFewer
<1>3. ManagerFields(manager') /\ manager'.requestsCounter = m
  BY <1>1 DEF Kept
<1>4. m + v <= MaxRequests
  <2>1. m + u <= MaxRequests
    BY <1>1 DEF CounterOK
  <2>2. MaxRequests \in Nat
    BY SiteAssumption
  <2>3. QED
    BY <1>2, <2>1, <2>2
<1>5. UncountedIn(conn)' = UncountedIn(conn')
  BY DEF UncountedIn
<1>6. QED
  BY <1>1, <1>3, <1>4, <1>5 DEF CounterOK

(* Only the connection that makes a step has less to be counted.           *)
LEMMA FewerOf ==
  ASSUME ConnsOK, ConnsOK', NEW c \in Conns, \A d \in Conns : d # c => conn'[d] = conn[d],
         Uncounted(conn'[c]) <= Uncounted(conn[c])
  PROVE  NoMore(conn, conn')
<1>1. \A d \in Conns : ConnOK(conn[d]) /\ ConnOK(conn'[d])
  BY DEF ConnsOK
<1>2. \A d \in Conns : Uncounted(conn[d]) \in 0..MaxPipeline /\ Uncounted(conn'[d]) \in 0..MaxPipeline
  BY <1>1, ConnTyped
<1>3. \A d \in Conns : Uncounted(conn'[d]) <= Uncounted(conn[d])
  <2>1. TAKE d \in Conns
  <2>2. CASE d = c
    BY <2>2
  <2>3. CASE d # c
    BY <1>2, <2>3, SiteAssumption
  <2>4. QED
    BY <2>2, <2>3
<1>4. QED
  BY <1>2, <1>3 DEF NoMore

(* The transfers, when none begins or ends.                                *)
LEMMA TransfersStay ==
  ASSUME TransfersOK, transfer' = transfer, NEW c \in Conns, conn[c].phase # "sending",
         \A d \in Conns : d # c => conn'[d] = conn[d]
  PROVE  TransfersOK'
<1>1. \A d \in Conns : TransferOK(transfer'[d], conn'[d])
  <2>1. TAKE d \in Conns
  <2>2. CASE d = c
    BY <2>2 DEF TransfersOK, TransferOK
  <2>3. CASE d # c
    BY <2>3 DEF TransfersOK
  <2>4. QED
    BY <2>2, <2>3
<1>2. QED
  BY <1>1 DEF TransfersOK

(* An instance of processRequest() begins.                                 *)
LEMMA CallBegins ==
  ASSUME SiteInv, NEW c \in Conns, running = c, running' = c, table' = table,
         conn[c].phase = "request", NEW f \in Frames, f.kind # "copied", stack' = Append(stack, f),
         NEW k, ConnOK(k), conn' = [conn EXCEPT ![c] = k], k.pipeline = conn[c].pipeline,
         k.phase \in {"routed", "calling"},
         CallOK(k, f, table[Hash(Routes!Key(Head(k.pipeline)))])
  PROVE  /\ ConnsOK' /\ TableOK' /\ StackOK' /\ InnermostOK'
         /\ \A i \in 1..Len(stack) : stack[i].kind # "copied"
         /\ Len(stack) < MaxDepth
<1>1. ConnsOK' /\ conn'[c] = k
  BY ConnStep DEF SiteInv
<1>2. TableOK'
  BY DEF SiteInv, TableOK
<1>3. \A i \in 1..Len(stack) : stack[i].kind # "copied"
  BY DEF SiteInv, StackOK
<1>4. PICK s \in Seq(Frames), n \in Nat : s = stack /\ n = Len(s)
  BY DEF SiteInv, StackOK
<1>5. PICK m \in Nat : m = Len(k.pipeline) /\ m > 0
  BY ConnTyped
<1>6. Ahead(conn[c]) = m /\ Ahead(k) = m - 1
  BY <1>5 DEF Ahead
<1>7. n + m <= MaxDepth
  BY <1>4, <1>6 DEF SiteInv, InnermostOK
<1>8. MaxDepth \in Nat
  BY SiteAssumption
<1>9. PICK a : a = Append(s, f)
  OBVIOUS
<1>10. a \in Seq(Frames) /\ Len(a) = n + 1 /\ a[n + 1] = f /\ \A i \in 1..n : a[i] = s[i]
  BY <1>4, <1>9, AppendProperties
<1>11. \A i \in 1..Len(a) : a[i].kind # "copied"
  BY <1>3, <1>4, <1>10
<1>12. n + 1 <= MaxDepth /\ n < MaxDepth /\ n + 1 + (m - 1) <= MaxDepth
  <2>1. PICK d \in Nat : d = MaxDepth
    BY <1>8
  <2>2. n + m <= d /\ m > 0
    BY <1>5, <1>7, <2>1
  <2>3. n + 1 <= d /\ n < d /\ n + 1 + (m - 1) <= d
    BY <2>2
  <2>4. QED
    BY <2>1, <2>3
<1>13. stack' = a
  BY <1>4, <1>9
<1>14. StackOK'
  BY <1>10, <1>11, <1>12, <1>13 DEF StackOK
<1>15. a # << >> /\ Last(a) = f
  BY <1>10, EmptySeq DEF Last
<1>16. InnermostOK'
  <2>1. Len(stack') + Ahead(conn'[running']) <= MaxDepth
    BY <1>1, <1>6, <1>10, <1>12, <1>13
  <2>2. stack' # << >> /\ CallOK(k, Last(stack'), table'[Hash(Routes!Key(Head(k.pipeline)))])
    BY <1>13, <1>15
  <2>3. QED
    BY <1>1, <2>1, <2>2 DEF InnermostOK
<1>17. QED
  BY <1>1, <1>2, <1>3, <1>4, <1>12, <1>14, <1>16

(* It goes on, with g for its frame.                                       *)
LEMMA CallGoesOn ==
  ASSUME SiteInv, NEW c \in Conns, running = c, running' = c,
         conn[c].phase \in {"routed", "copied"},
         NEW g \in Frames, stack' = Append(Front(stack), g),
         NEW k, ConnOK(k), conn' = [conn EXCEPT ![c] = k], k.pipeline = conn[c].pipeline,
         k.phase \in {"copied", "calling"}, g.kind = "copied" => k.phase = "copied",
         CallOK(k, g, table'[Hash(Routes!Key(Head(k.pipeline)))])
  PROVE  ConnsOK' /\ StackOK' /\ InnermostOK'
<1>1. ConnsOK' /\ conn'[c] = k
  BY ConnStep DEF SiteInv
<1>2. PICK s \in Seq(Frames) : s = stack /\ s # << >>
  BY DEF SiteInv, StackOK, InnermostOK
<1>3. PICK z \in Seq(Frames), n \in Nat :
        /\ z = Front(s) /\ n = Len(z) /\ Len(s) = n + 1 /\ \A i \in 1..n : z[i] = s[i]
  BY <1>2, StackSplit
<1>4. PICK m \in Nat : m = Len(k.pipeline) /\ m > 0
  BY ConnTyped
<1>5. Ahead(conn[c]) = m - 1 /\ Ahead(k) = m - 1
  BY <1>4 DEF Ahead
<1>6. \A i \in 1..n : z[i].kind # "copied"
  BY <1>2, <1>3 DEF SiteInv, StackOK
<1>7. PICK a : a = Append(z, g)
  OBVIOUS
<1>8. a \in Seq(Frames) /\ Len(a) = n + 1 /\ a[n + 1] = g /\ \A i \in 1..n : a[i] = z[i]
  BY <1>3, <1>7, AppendProperties
<1>9. stack' = a
  BY <1>2, <1>3, <1>7
<1>10. n + 1 <= MaxDepth /\ n + 1 + (m - 1) <= MaxDepth
  BY <1>2, <1>3, <1>5 DEF SiteInv, StackOK, InnermostOK
<1>11. \A i \in 1..(n + 1) : a[i].kind = "copied" => i = n + 1 /\ k.phase = "copied"
  <2>1. TAKE i \in 1..(n + 1)
  <2>2. CASE i = n + 1
    <3>1. a[i] = g
      BY <1>8, <2>2
    <3>2. QED
      BY <2>2, <3>1
  <2>3. CASE i # n + 1
    <3>1. i \in 1..n
      BY <2>3
    <3>2. a[i] = z[i] /\ z[i].kind # "copied"
      BY <1>6, <1>8, <3>1
    <3>3. QED
      BY <3>2
  <2>4. QED
    BY <2>2, <2>3
<1>12. StackOK'
  BY <1>1, <1>8, <1>9, <1>10, <1>11 DEF StackOK
<1>13. a # << >> /\ Last(a) = g
  BY <1>8, EmptySeq DEF Last
<1>14. InnermostOK'
  <2>1. Len(stack') + Ahead(conn'[running']) <= MaxDepth
    BY <1>1, <1>5, <1>8, <1>9, <1>10
  <2>2. stack' # << >> /\ CallOK(k, Last(stack'), table'[Hash(Routes!Key(Head(k.pipeline)))])
    BY <1>9, <1>13
  <2>3. QED
    BY <1>1, <2>1, <2>2 DEF InnermostOK
<1>15. QED
  BY <1>1, <1>12, <1>14

-----------------------------------------------------------------------------
(***************************************************************************)
(* Every step preserves the invariant, and is one of StaticFiles or none.  *)
(***************************************************************************)
FilesStep == Files!Next \/ UNCHANGED Files!vars

LEMMA SameClosures ==
  ASSUME StackOK, StackOK', Copies(table', stack') = Copies(table, stack)
  PROVE  HandlersOf' = HandlersOf
BY HandlersAre DEF StackOK

(* A step of a connection that has nothing to do with the files.           *)
LEMMA QuietStep ==
  ASSUME SiteInv, NEW c \in Conns, Completes(c), running' = c,
         UNCHANGED <<filesVars, table, stack>>, conn[c].phase \notin {"copied", "sending"},
         NEW k, ConnOK(k), conn' = [conn EXCEPT ![c] = k],
         k.phase \notin {"routed", "copied", "calling"}, Len(stack) + Ahead(k) <= MaxDepth,
         Uncounted(k) <= Uncounted(conn[c]) \/ CounterOK'
  PROVE  SiteInv' /\ FilesStep
<1>1. ConnsOK' /\ TableOK' /\ StackOK' /\ InnermostOK'
  BY Proceeds
<1>2. running \in {c, NONE}
  BY RoomToGoOn
<1>3. conn'[c] = k /\ \A d \in Conns : d # c => conn'[d] = conn[d]
  BY <1>2, ConnStep DEF SiteInv
<1>4. TransfersOK'
  BY <1>3, TransfersStay DEF SiteInv, filesVars
<1>5. CounterOK'
  <2>1. SUFFICES ASSUME Uncounted(k) <= Uncounted(conn[c]) PROVE CounterOK'
    OBVIOUS
  <2>2. NoMore(conn, conn')
    BY <1>1, <1>3, <2>1, FewerOf DEF SiteInv
  <2>3. Kept(manager, manager')
    BY DEF SiteInv, CounterOK, Kept, filesVars
  <2>4. QED
    BY <2>2, <2>3, Counted DEF SiteInv
<1>6. HandlersOf' = HandlersOf
  <2>1. Copies(table', stack') = Copies(table, stack)
    OBVIOUS
  <2>2. QED
    BY <1>1, <2>1, SameClosures DEF SiteInv
<1>7. UNCHANGED Files!vars
  BY <1>6 DEF Files!vars, filesVars
<1>8. QED
  BY <1>1, <1>4, <1>5, <1>7 DEF SiteInv, FilesStep

LEMMA AcceptStep ==
  ASSUME SiteInv, NEW c \in Conns, Accept(c) PROVE SiteInv' /\ FilesStep
<1>1. PICK k : k = [phase |-> "reading", pipeline |-> << >>]
  OBVIOUS
<1>2. << >> \in Seq(Requests) /\ Len(<< >>) = 0 /\ MaxPipeline \in Nat /\ MaxDepth \in Nat
  BY SiteAssumption
<1>3. k \in Connections /\ k.phase = "reading" /\ k.pipeline = << >>
  BY <1>1, <1>2 DEF Connections, Phases
<1>4. ConnOK(k) /\ Uncounted(k) = 0 /\ Ahead(k) = 0
  BY <1>2, <1>3 DEF ConnOK, Uncounted, Ahead
<1>5. Uncounted(conn[c]) \in Nat
  BY ConnTyped DEF SiteInv, ConnsOK
<1>6. Completes(c) /\ conn[c].phase = "closed" /\ stack = << >>
  BY DEF Accept, Completes, Idle
<1>7. Len(stack) + Ahead(k) <= MaxDepth
  BY <1>2, <1>4, <1>6
<1>8. /\ running' = c /\ UNCHANGED <<filesVars, table, stack>>
      /\ conn' = [conn EXCEPT ![c] = k]
  BY <1>1 DEF Accept, routesVars
<1>9. Uncounted(k) <= Uncounted(conn[c])
  BY <1>4, <1>5
<1>10. /\ conn[c].phase \notin {"copied", "sending"}
       /\ k.phase \notin {"routed", "copied", "calling"}
  BY <1>3, <1>6
<1>11. QED
  BY <1>4, <1>6, <1>7, <1>8, <1>9, <1>10, QuietStep

(* The bound on the requests of a second counts those that were read.      *)
LEMMA ReadStep ==
  ASSUME SiteInv, NEW c \in Conns, Read(c) PROVE SiteInv' /\ FilesStep
<1>1. /\ Completes(c) /\ running' = c /\ UNCHANGED <<filesVars, table, stack>>
      /\ conn[c].phase = "reading"
  BY DEF Read, routesVars
<1>2. PICK o : o = conn[c]
  OBVIOUS
<1>3. ConnOK(o) /\ Uncounted(o) \in Nat /\ o.pipeline = << >>
  BY <1>1, <1>2, ConnTyped DEF SiteInv, ConnsOK, ConnOK
<1>4. CASE conn' = Closed(c)
  <2>1. PICK k : k = ClosedConn
    OBVIOUS
  <2>2. conn' = [conn EXCEPT ![c] = k]
    BY <1>4, <2>1 DEF Closed, ClosedConn
  <2>3. ConnOK(k) /\ Uncounted(k) = 0 /\ Ahead(k) = 0 /\ k.phase = "closed"
    BY <2>1, ClosedIs
  <2>4. Len(stack) + Ahead(k) <= MaxDepth
    BY <2>3 DEF SiteInv, StackOK
  <2>5. Uncounted(k) <= Uncounted(conn[c])
    BY <1>2, <1>3, <2>3
  <2>6. /\ conn[c].phase \notin {"copied", "sending"}
        /\ k.phase \notin {"routed", "copied", "calling"}
    BY <1>1, <2>3
  <2>7. QED
    BY <1>1, <2>2, <2>3, <2>4, <2>5, <2>6, QuietStep
<1>5. ASSUME NEW n \in 1..MaxPipeline, NEW s \in [1..n -> Requests],
             Len(stack) + n <= MaxDepth,
             manager.requestsCounter + Outstanding + n <= MaxRequests,
             conn' = [conn EXCEPT ![c] = [phase |-> "request", pipeline |-> s]]
      PROVE  SiteInv' /\ FilesStep
  <2>1. MaxPipeline \in Nat /\ MaxDepth \in Nat
    BY SiteAssumption
  <2>2. PICK l \in Nat : l = Len(stack)
    BY DEF SiteInv, StackOK
  <2>3. n \in Nat /\ n <= MaxPipeline /\ n > 0 /\ n <= MaxDepth
    BY <1>5, <2>1, <2>2
  <2>4. s \in Seq(Requests) /\ Len(s) = n
    BY <2>3, SeqDef
  <2>5. PICK k : k = [phase |-> "request", pipeline |-> s]
    OBVIOUS
  <2>6. k \in Connections /\ k.phase = "request" /\ k.pipeline = s
    BY <2>4, <2>5 DEF Connections, Phases
  <2>7. s # << >>
    BY <2>3, <2>4, EmptySeq
  <2>8. ConnOK(k)
    BY <2>3, <2>4, <2>6, <2>7 DEF ConnOK
  <2>9. Uncounted(k) = n /\ Ahead(k) = n
    BY <2>4, <2>6 DEF Uncounted, Ahead
  <2>10. conn' = [conn EXCEPT ![c] = k]
    BY <1>5, <2>5
  <2>11. PICK o1 \in Nat, u \in Nat :
           o1 = Outstanding /\ u = Cardinality(UncountedIn(conn')) /\ u <= o1 + n
    BY <1>2, <1>3, <2>9, <2>10, UncountedRead, UncountedFinite DEF SiteInv
  <2>12. CounterOK'
    <3>1. PICK m \in Nat : m = manager.requestsCounter
      BY DEF SiteInv, CounterOK
    <3>2. m + o1 + n <= MaxRequests
      BY <1>5, <2>11, <3>1
    <3>3. m + u <= MaxRequests
      <4>1. MaxRequests \in Nat
        BY SiteAssumption
      <4>2. QED
        BY <2>3, <2>11, <3>1, <3>2, <4>1
    <3>4. UncountedIn(conn)' = UncountedIn(conn')
      BY DEF UncountedIn
    <3>5. QED
      BY <1>1, <2>11, <3>1, <3>3, <3>4 DEF SiteInv, CounterOK, filesVars
  <2>13. QED
    BY <1>1, <1>5, <2>6, <2>8, <2>9, <2>10, <2>12, QuietStep
<1>6. QED
  BY <1>4, <1>5 DEF Read

LEMMA RouterThrowsStep ==
  ASSUME SiteInv, NEW c \in Conns, RouterThrows(c) PROVE SiteInv' /\ FilesStep
<1>1. /\ Completes(c) /\ running' = c /\ UNCHANGED <<filesVars, table, stack>>
      /\ conn[c].phase = "request" /\ InPhase(c, "answering")
  BY DEF RouterThrows, Completes, Routes!RouterThrows
<1>2. PICK k : /\ conn' = [conn EXCEPT ![c] = k] /\ ConnOK(k)
               /\ k.phase = "answering" /\ k.pipeline = conn[c].pipeline
  <2>1. "answering" \in Phases \ {"closed", "reading"}
    BY DEF Phases
  <2>2. QED
    BY <1>1, <2>1, PhaseIs DEF SiteInv
<1>3. PICK m \in Nat, l \in Nat : m = Len(k.pipeline) /\ l = Len(stack)
  BY <1>2, ConnTyped DEF SiteInv, StackOK
<1>4. /\ Uncounted(k) = m /\ Uncounted(conn[c]) = m
      /\ Ahead(k) = m - 1 /\ Ahead(conn[c]) = m
  BY <1>1, <1>2, <1>3 DEF Uncounted, Ahead
<1>5. l + m <= MaxDepth
  BY <1>1, <1>3, <1>4, RoomToGoOn
<1>6. MaxDepth \in Nat
  BY SiteAssumption
<1>7. Len(stack) + Ahead(k) <= MaxDepth /\ Uncounted(k) <= Uncounted(conn[c])
  BY <1>3, <1>4, <1>5, <1>6
<1>8. QED
  BY <1>1, <1>2, <1>7, QuietStep

LEMMA PageEndsStep ==
  ASSUME SiteInv, NEW c \in Conns, PageEnds(c) PROVE SiteInv' /\ FilesStep
<1>1. /\ Completes(c) /\ running' = c /\ UNCHANGED <<filesVars, table, stack>>
      /\ conn[c].phase = "answering" /\ RequestCompleted(c)
  BY DEF PageEnds, routesVars
<1>2. PICK k : /\ conn' = [conn EXCEPT ![c] = k] /\ ConnOK(k)
               /\ k.phase \in {"closed", "reading", "request"}
               /\ Uncounted(k) <= Uncounted(conn[c]) /\ Ahead(k) <= Ahead(conn[c])
  BY <1>1, CompletedIs DEF SiteInv
<1>3. PICK a \in Nat, b \in Nat, l \in Nat : a = Ahead(k) /\ b = Ahead(conn[c]) /\ l = Len(stack)
  <2>1. Ahead(k) \in Nat /\ Ahead(conn[c]) \in Nat
    BY <1>2, ConnTyped DEF SiteInv, ConnsOK
  <2>2. Len(stack) \in Nat
    BY DEF SiteInv, StackOK
  <2>3. QED
    BY <2>1, <2>2
<1>4. l + b <= MaxDepth
  BY <1>1, <1>3, RoomToGoOn
<1>5. Len(stack) + Ahead(k) <= MaxDepth
  <2>1. MaxDepth \in Nat /\ a <= b
    BY <1>2, <1>3, SiteAssumption
  <2>2. l + a <= MaxDepth
    BY <1>4, <2>1
  <2>3. QED
    BY <1>3, <2>2
<1>6. QED
  BY <1>1, <1>2, <1>5, QuietStep

LEMMA ReturnStep ==
  ASSUME SiteInv, NEW c \in Conns, Return(c) PROVE SiteInv' /\ FilesStep
<1>1. /\ running = c /\ AtRest(conn[c]) /\ running' = NONE
      /\ UNCHANGED <<filesVars, table, conn, stack>>
  BY DEF Return, Waiting, AtRest, routesVars
<1>2. ConnsOK'
  BY <1>1 DEF SiteInv, ConnsOK
<1>3. StackOK'
  BY <1>1 DEF SiteInv, StackOK, AtRest
<1>4. InnermostOK'
  BY <1>1, SiteAssumption DEF InnermostOK
<1>5. TableOK' /\ TransfersOK'
  BY <1>1 DEF SiteInv, TableOK, TransfersOK, filesVars
<1>6. CounterOK'
  BY <1>1 DEF SiteInv, CounterOK, UncountedIn, filesVars
<1>7. HandlersOf' = HandlersOf
  <2>1. Copies(table', stack') = Copies(table, stack)
    BY <1>1
  <2>2. QED
    BY <1>3, <2>1, SameClosures DEF SiteInv
<1>8. UNCHANGED Files!vars
  BY <1>1, <1>7 DEF Files!vars, filesVars
<1>9. QED
  BY <1>2, <1>3, <1>4, <1>5, <1>6, <1>8 DEF SiteInv, FilesStep

(* A step between the lookup of a closure and its call.                    *)
LEMMA InsideRequest ==
  ASSUME SiteInv, ConnsOK', NEW c \in Conns, running = c, running' = c,
         NEW k, ConnOK(k), conn' = [conn EXCEPT ![c] = k], k.pipeline = conn[c].pipeline,
         conn[c].phase # "sending", k.phase # "sending",
         transfer' = transfer, Kept(manager, manager')
  PROVE  TransfersOK' /\ CounterOK'
<1>1. conn'[c] = k /\ \A d \in Conns : d # c => conn'[d] = conn[d]
  BY ConnStep DEF SiteInv
<1>2. TransfersOK'
  BY <1>1, TransfersStay DEF SiteInv
<1>3. Uncounted(k) = Uncounted(conn[c]) /\ Uncounted(k) \in Nat
  <2>1. Uncounted(k) = Uncounted(conn[c])
    BY DEF Uncounted
  <2>2. Uncounted(k) \in 0..MaxPipeline
    BY ConnTyped
  <2>3. QED
    BY <2>1, <2>2
<1>4. Uncounted(conn'[c]) <= Uncounted(conn[c])
  BY <1>1, <1>3
<1>5. NoMore(conn, conn')
  BY <1>1, <1>4, FewerOf DEF SiteInv
<1>6. QED
  BY <1>2, <1>5, Counted DEF SiteInv

LEMMA FindCachedStep ==
  ASSUME SiteInv, NEW c \in Conns, FindCached(c) PROVE SiteInv' /\ FilesStep
<1>1. PICK r : r = Current(c)
  OBVIOUS
<1>2. PICK i : i = Routes!First(Routes!Matches(Routes!Key(r)))
  OBVIOUS
<1>3. PICK f : f = [kind |-> "hit", request |-> r, slot |-> i]
  OBVIOUS
<1>4. /\ running = c /\ running' = c /\ conn[c].phase = "request"
      /\ Routes!Matches(Routes!Key(r)) # {} /\ table' = table
      /\ stack' = Append(stack, f) /\ InPhase(c, "calling") /\ UNCHANGED filesVars
  BY <1>1, <1>2, <1>3 DEF FindCached, Routes!CachedRoute
<1>5. PICK k : /\ conn' = [conn EXCEPT ![c] = k] /\ ConnOK(k)
               /\ k.phase = "calling" /\ k.pipeline = conn[c].pipeline
  <2>1. "calling" \in Phases \ {"closed", "reading"}
    BY DEF Phases
  <2>2. QED
    BY <1>4, <2>1, PhaseIs DEF SiteInv
<1>6. r = Head(k.pipeline) /\ r \in Requests
  BY <1>1, <1>5, ConnTyped DEF Current
<1>7. PICK e : e = table[Hash(Routes!Key(r))]
  OBVIOUS
<1>8. i \in Slots /\ e.handlers[i] \in Requests /\ e.keys[i] = Routes!Key(r)
  BY <1>2, <1>4, <1>6, <1>7, FirstMatch DEF SiteInv
<1>9. f \in Frames /\ f.kind = "hit" /\ f.request = r /\ f.slot = i
  <2>1. i \in Nat
    BY <1>8, SiteAssumption DEF Slots
  <2>2. QED
    BY <1>3, <1>6, <2>1 DEF Frames
<1>10. CallOK(k, f, e)
  BY <1>5, <1>6, <1>8, <1>9 DEF CallOK
<1>11. ConnsOK' /\ TableOK' /\ StackOK' /\ InnermostOK'
  <2>1. f.kind # "copied"
    BY <1>9
  <2>2. CallOK(k, f, table[Hash(Routes!Key(Head(k.pipeline)))])
    BY <1>6, <1>7, <1>10
  <2>3. QED
    BY <1>4, <1>5, <1>9, <2>1, <2>2, CallBegins
<1>12. Kept(manager, manager') /\ transfer' = transfer
  BY <1>4 DEF SiteInv, CounterOK, Kept, filesVars
<1>13. TransfersOK' /\ CounterOK'
  BY <1>4, <1>5, <1>11, <1>12, InsideRequest
<1>14. HandlersOf' = HandlersOf
  <2>1. PICK s \in Seq(Frames) : s = stack
    BY DEF SiteInv, StackOK
  <2>2. Copies(table', stack') = Copies(table, stack)
    BY <1>4, <1>9, <2>1, CopiesHit
  <2>3. QED
    BY <1>11, <2>2, SameClosures DEF SiteInv
<1>15. UNCHANGED Files!vars
  BY <1>4, <1>14 DEF Files!vars, filesVars
<1>16. QED
  BY <1>11, <1>13, <1>15 DEF SiteInv, FilesStep

(* The bound on the handlers of one file is never what stops the router.   *)
LEMMA AskRouterStep ==
  ASSUME SiteInv, NEW c \in Conns, AskRouter(c) PROVE SiteInv' /\ FilesStep
<1>1. PICK r : r = Current(c)
  OBVIOUS
<1>2. PICK f : f = [kind |-> "miss", request |-> r, slot |-> 0]
  OBVIOUS
<1>3. /\ running = c /\ running' = c /\ conn[c].phase = "request"
      /\ Routes!Matches(Routes!Key(r)) = {} /\ table' = table
      /\ stack' = Append(stack, f) /\ InPhase(c, "routed")
      /\ manager' = Files!Referenced(manager, FileOf(r)) /\ outcome' = Files!Nothing
      /\ UNCHANGED <<transfer, disk, changed>>
  BY <1>1, <1>2 DEF AskRouter, routesVars
<1>4. PICK k : /\ conn' = [conn EXCEPT ![c] = k] /\ ConnOK(k)
               /\ k.phase = "routed" /\ k.pipeline = conn[c].pipeline
  <2>1. "routed" \in Phases \ {"closed", "reading"}
    BY DEF Phases
  <2>2. QED
    BY <1>3, <2>1, PhaseIs DEF SiteInv
<1>5. r = Head(k.pipeline) /\ r \in Requests
  BY <1>1, <1>4, ConnTyped DEF Current
<1>6. PICK e : e = table[Hash(Routes!Key(r))]
  OBVIOUS
<1>7. \A i \in Slots : e.keys[i] # Routes!Key(r)
  BY <1>3, <1>5, <1>6, MatchesAre DEF SiteInv
<1>8. f \in Frames /\ f.kind = "miss" /\ f.request = r
  BY <1>2, <1>5 DEF Frames
<1>9. CallOK(k, f, e)
  BY <1>4, <1>5, <1>7, <1>8 DEF CallOK
<1>10. /\ ConnsOK' /\ TableOK' /\ StackOK' /\ InnermostOK'
       /\ \A i \in 1..Len(stack) : stack[i].kind # "copied"
       /\ Len(stack) < MaxDepth
  <2>1. f.kind # "copied"
    BY <1>8
  <2>2. CallOK(k, f, table[Hash(Routes!Key(Head(k.pipeline)))])
    BY <1>5, <1>6, <1>9
  <2>3. QED
    BY <1>3, <1>4, <1>8, <2>1, <2>2, CallBegins
<1>11. Kept(manager, manager')
  BY <1>3, ReferencedKept DEF SiteInv, CounterOK
<1>12. TransfersOK' /\ CounterOK'
  BY <1>3, <1>4, <1>10, <1>11, InsideRequest
<1>13. PICK s \in Seq(Frames), p \in Paths : s = stack /\ p = FileOf(r)
  BY <1>5, RequestTyped DEF SiteInv, StackOK
<1>14. Files!CreateHandler(p)
  <2>1. HandlersOf = Copies(table, s)
    BY <1>13, HandlersAre
  <2>2. HandlersOf' = Copies(table, Append(s, f))
    BY <1>3, <1>10, <1>13, HandlersAre DEF StackOK
  <2>3. HandlersOf' = More(HandlersOf, p)
    BY <1>8, <1>13, <2>1, <2>2, CopiesMiss
  <2>4. HandlersOf[p] < MaxHandlers
    <3>1. PICK x \in Nat, l \in Nat, b \in Nat :
            x = HandlersOf[p] /\ l = Len(s) /\ b = Buckets * Entries
      BY <2>1, CopiesTyped, SiteAssumption
    <3>2. x <= b + l /\ l < MaxDepth
      BY <1>10, <1>13, <2>1, <3>1, CopiesTyped
    <3>3. MaxHandlers \in Nat /\ MaxDepth \in Nat /\ MaxHandlers > b + MaxDepth
      BY <3>1, SiteAssumption
    <3>4. QED
      BY <3>1, <3>2, <3>3
  <2>5. QED
    BY <1>3, <1>13, <2>3, <2>4 DEF Files!CreateHandler, More
<1>15. QED
  BY <1>10, <1>12, <1>14 DEF SiteInv, FilesStep, Files!Next

(* What the innermost call knows.                                          *)
LEMMA InnermostIs ==
  ASSUME SiteInv, NEW c \in Conns, running = c, conn[c].phase \in {"routed", "copied", "calling"}
  PROVE  \E s \in Seq(Frames), f \in Frames, r \in Requests :
           /\ s = Front(stack) /\ f = Last(stack) /\ stack = Append(s, f) /\ stack # << >>
           /\ r = Current(c) /\ r = Head(conn[c].pipeline) /\ f.request = r
           /\ CallOK(conn[c], f, table[Hash(Routes!Key(r))])
<1>1. PICK a \in Seq(Frames) : a = stack /\ a # << >>
  BY DEF SiteInv, StackOK, InnermostOK
<1>2. /\ Front(a) \in Seq(Frames) /\ Last(a) \in Frames
      /\ a = Append(Front(a), Last(a))
  BY <1>1, StackSplit
<1>3. PICK r \in Requests : r = Head(conn[c].pipeline)
  BY ConnTyped DEF SiteInv, ConnsOK
<1>4. CallOK(conn[c], Last(a), table[Hash(Routes!Key(r))])
  BY <1>1, <1>3 DEF SiteInv, InnermostOK
<1>5. Last(a).request = r
  BY <1>3, <1>4 DEF CallOK
<1>6. QED
  BY <1>1, <1>2, <1>3, <1>4, <1>5 DEF Current

LEMMA NotCachedStep ==
  ASSUME SiteInv, NEW c \in Conns, NotCached(c) PROVE SiteInv' /\ FilesStep
<1>1. /\ running = c /\ running' = c /\ conn[c].phase = "routed"
      /\ InPhase(c, "calling") /\ UNCHANGED filesVars /\ stack' = stack
  BY DEF NotCached
<1>2. PICK s \in Seq(Frames), f \in Frames, r \in Requests :
        /\ s = Front(stack) /\ f = Last(stack) /\ stack = Append(s, f) /\ stack # << >>
        /\ r = Current(c) /\ r = Head(conn[c].pipeline) /\ f.request = r
        /\ CallOK(conn[c], f, table[Hash(Routes!Key(r))])
  BY <1>1, InnermostIs
<1>3. table' = table
  BY <1>2 DEF NotCached, Routes!Route, Routes!Inserted
<1>4. PICK k : /\ conn' = [conn EXCEPT ![c] = k] /\ ConnOK(k)
               /\ k.phase = "calling" /\ k.pipeline = conn[c].pipeline
  <2>1. "calling" \in Phases \ {"closed", "reading"}
    BY DEF Phases
  <2>2. QED
    BY <1>1, <2>1, PhaseIs DEF SiteInv
<1>5. f.kind = "miss"
  BY <1>1, <1>2 DEF CallOK
<1>6. ConnsOK' /\ StackOK' /\ InnermostOK'
  <2>1. CallOK(k, f, table'[Hash(Routes!Key(Head(k.pipeline)))])
    BY <1>2, <1>4, <1>5 DEF CallOK
  <2>2. stack' = Append(Front(stack), f)
    BY <1>1, <1>2
  <2>3. k.phase \in {"copied", "calling"} /\ f.kind # "copied" /\ conn[c].phase \in {"routed", "copied"}
    BY <1>1, <1>4, <1>5
  <2>4. QED
    BY <1>1, <1>4, <2>1, <2>2, <2>3, CallGoesOn
<1>7. TableOK'
  BY <1>3 DEF SiteInv, TableOK
<1>8. Kept(manager, manager') /\ transfer' = transfer
  BY <1>1 DEF SiteInv, CounterOK, Kept, filesVars
<1>9. TransfersOK' /\ CounterOK'
  BY <1>1, <1>4, <1>6, <1>8, InsideRequest
<1>10. HandlersOf' = HandlersOf
  <2>1. Copies(table', stack') = Copies(table, stack)
    BY <1>1, <1>3
  <2>2. QED
    BY <1>6, <2>1, SameClosures DEF SiteInv
<1>11. UNCHANGED Files!vars
  BY <1>1, <1>10 DEF Files!vars, filesVars
<1>12. QED
  BY <1>6, <1>7, <1>9, <1>11 DEF SiteInv, FilesStep

LEMMA CopyHandlerStep ==
  ASSUME SiteInv, NEW c \in Conns, CopyHandler(c) PROVE SiteInv' /\ FilesStep
<1>1. /\ running = c /\ running' = c /\ conn[c].phase = "routed" /\ table' = table
      /\ stack' = WithKind(stack, "copied") /\ InPhase(c, "copied")
      /\ manager' = Files!Referenced(manager, FileOf(Current(c))) /\ outcome' = Files!Nothing
      /\ UNCHANGED <<transfer, disk, changed>>
  BY DEF CopyHandler, InnerCallIs, WithKind, routesVars
<1>2. PICK s \in Seq(Frames), f \in Frames, r \in Requests :
        /\ s = Front(stack) /\ f = Last(stack) /\ stack = Append(s, f) /\ stack # << >>
        /\ r = Current(c) /\ r = Head(conn[c].pipeline) /\ f.request = r
        /\ CallOK(conn[c], f, table[Hash(Routes!Key(r))])
  BY <1>1, InnermostIs
<1>3. PICK k : /\ conn' = [conn EXCEPT ![c] = k] /\ ConnOK(k)
               /\ k.phase = "copied" /\ k.pipeline = conn[c].pipeline
  <2>1. "copied" \in Phases \ {"closed", "reading"}
    BY DEF Phases
  <2>2. QED
    BY <1>1, <2>1, PhaseIs DEF SiteInv
<1>4. f.kind = "miss"
  BY <1>1, <1>2 DEF CallOK
<1>5. PICK g \in Frames : g.kind = "copied" /\ g.request = r /\ stack' = Append(s, g)
  <2>1. PICK g : g = [f EXCEPT !.kind = "copied"]
    OBVIOUS
  <2>2. stack \in Seq(Frames)
    BY DEF SiteInv, StackOK
  <2>3. g \in Frames /\ g.kind = "copied" /\ g.request = r /\ WithKind(stack, "copied") = Append(s, g)
    <3>1. g = [Last(stack) EXCEPT !.kind = "copied"] /\ stack # << >>
      BY <1>2, <2>1
    <3>2. /\ g \in Frames /\ g.kind = "copied" /\ g.request = Last(stack).request
          /\ WithKind(stack, "copied") = Append(Front(stack), g)
      BY <2>2, <3>1, WithKindIs
    <3>3. QED
      BY <1>2, <3>2
  <2>4. QED
    BY <1>1, <2>3
<1>6. ConnsOK' /\ StackOK' /\ InnermostOK'
  <2>1. Len(Routes!Key(r)) + 1 <= MaxPath
    BY <1>2 DEF CopyHandler
  <2>2. \A i \in Slots : table[Hash(Routes!Key(r))].keys[i] # Routes!Key(r)
    BY <1>1, <1>2 DEF CallOK
  <2>3. CallOK(k, g, table[Hash(Routes!Key(r))])
    BY <1>2, <1>3, <1>5, <2>1, <2>2 DEF CallOK
  <2>4. CallOK(k, g, table'[Hash(Routes!Key(Head(k.pipeline)))])
    BY <1>1, <1>2, <1>3, <2>3
  <2>5. k.phase \in {"copied", "calling"} /\ conn[c].phase \in {"routed", "copied"}
    BY <1>1, <1>3
  <2>6. stack' = Append(Front(stack), g)
    BY <1>2, <1>5
  <2>7. QED
    BY <1>1, <1>3, <2>4, <2>5, <2>6, CallGoesOn
<1>7. TableOK'
  BY <1>1 DEF SiteInv, TableOK
<1>8. Kept(manager, manager')
  BY <1>1, ReferencedKept DEF SiteInv, CounterOK
<1>9. TransfersOK' /\ CounterOK'
  BY <1>1, <1>3, <1>6, <1>8, InsideRequest
<1>10. PICK p \in Paths : p = FileOf(r)
  BY <1>2, RequestTyped
<1>11. Files!CreateHandler(p)
  <2>1. PICK a \in Seq(Frames) : a = stack /\ a = Append(s, f)
    BY <1>2 DEF SiteInv, StackOK
  <2>2. HandlersOf = Copies(table, Append(s, f))
    BY <1>2, <2>1, HandlersAre
  <2>3. HandlersOf' = Copies(table, Append(s, g))
    BY <1>1, <1>5, <1>6, HandlersAre DEF StackOK
  <2>4. HandlersOf' = More(HandlersOf, p)
    <3>1. f.request = g.request /\ p = FileOf(f.request)
      BY <1>2, <1>5, <1>10
    <3>2. Copies(table, Append(s, g)) = More(Copies(table, Append(s, f)), p)
      BY <1>4, <1>5, <3>1, CopiesCopied
    <3>3. QED
      BY <2>2, <2>3, <3>2
  <2>5. \A i \in 1..Len(a) : a[i].kind # "copied"
    BY <1>1, <2>1 DEF SiteInv, StackOK
  <2>6. HandlersOf[p] < MaxHandlers
    <3>1. PICK x \in Nat, l \in Nat, b \in Nat :
            x = HandlersOf[p] /\ l = Len(a) /\ b = Buckets * Entries
      <4>1. Copies(table, a)[p] \in Nat /\ Len(a) \in Nat
        BY CopiesTyped
      <4>2. Buckets * Entries \in Nat
        BY SiteAssumption
      <4>3. HandlersOf[p] \in Nat
        BY <2>1, <2>2, <4>1
      <4>4. QED
        BY <4>1, <4>2, <4>3
    <3>2. x <= b + l
      BY <2>1, <2>2, <2>5, <3>1, CopiesTyped
    <3>3. l <= MaxDepth
      BY <2>1, <3>1 DEF SiteInv, StackOK
    <3>4. MaxHandlers \in Nat /\ MaxDepth \in Nat /\ MaxHandlers > b + MaxDepth
      BY <3>1, SiteAssumption
    <3>5. QED
      BY <3>1, <3>2, <3>3, <3>4
  <2>7. QED
    BY <1>1, <1>2, <1>10, <2>4, <2>6 DEF Files!CreateHandler, More
<1>12. QED
  BY <1>6, <1>7, <1>9, <1>11 DEF SiteInv, FilesStep, Files!Next

(* The handler that the slot held is one of a file that is still there.    *)
LEMMA SwapHandlersStep ==
  ASSUME SiteInv, NEW c \in Conns, SwapHandlers(c) PROVE SiteInv' /\ FilesStep
<1>1. /\ running = c /\ running' = c /\ conn[c].phase = "copied"
      /\ stack' = WithKind(stack, "miss") /\ InPhase(c, "calling")
      /\ UNCHANGED <<transfer, disk, changed>>
  BY DEF SwapHandlers, InnerCallIs, WithKind
<1>2. PICK s \in Seq(Frames), f \in Frames, r \in Requests :
        /\ s = Front(stack) /\ f = Last(stack) /\ stack = Append(s, f) /\ stack # << >>
        /\ r = Current(c) /\ r = Head(conn[c].pipeline) /\ f.request = r
        /\ CallOK(conn[c], f, table[Hash(Routes!Key(r))])
  BY <1>1, InnermostIs
<1>3. PICK b \in 0..(Buckets - 1) : b = Hash(Routes!Key(r))
  BY <1>2, KeyTyped
<1>4. f.kind = "copied" /\ Len(Routes!Key(r)) + 1 <= MaxPath
  BY <1>1, <1>2 DEF CallOK
<1>5. PICK old : old = Overwritten(table, b)
  OBVIOUS
<1>6. /\ table' = Routes!Inserted(Routes!Key(r), r) /\ manager' = WithoutOverwritten(old)
      /\ outcome' = IF old = Routes!NoHandler THEN outcome ELSE Files!Nothing
  BY <1>2, <1>3, <1>5, Zenon DEF SwapHandlers, Routes!Route, Overwritten
<1>7. table' = Swapped(table, b, r)
  BY <1>2, <1>3, <1>4, <1>6, InsertedIs DEF SiteInv, Swapped
<1>8. PICK k : /\ conn' = [conn EXCEPT ![c] = k] /\ ConnOK(k)
               /\ k.phase = "calling" /\ k.pipeline = conn[c].pipeline
  <2>1. "calling" \in Phases \ {"closed", "reading"}
    BY DEF Phases
  <2>2. QED
    BY <1>1, <2>1, PhaseIs DEF SiteInv
<1>9. PICK g \in Frames : g.kind = "miss" /\ g.request = r /\ stack' = Append(s, g)
  <2>1. PICK g : g = [f EXCEPT !.kind = "miss"]
    OBVIOUS
  <2>2. stack \in Seq(Frames)
    BY DEF SiteInv, StackOK
  <2>3. g \in Frames /\ g.kind = "miss" /\ g.request = r /\ WithKind(stack, "miss") = Append(s, g)
    <3>1. g = [Last(stack) EXCEPT !.kind = "miss"] /\ stack # << >>
      BY <1>2, <2>1
    <3>2. /\ g \in Frames /\ g.kind = "miss" /\ g.request = Last(stack).request
          /\ WithKind(stack, "miss") = Append(Front(stack), g)
      BY <2>2, <3>1, WithKindIs
    <3>3. QED
      BY <1>2, <3>2
  <2>4. QED
    BY <1>1, <2>3
<1>10. ConnsOK' /\ StackOK' /\ InnermostOK'
  <2>1. CallOK(k, g, table'[Hash(Routes!Key(Head(k.pipeline)))])
    BY <1>2, <1>8, <1>9 DEF CallOK
  <2>2. /\ k.phase \in {"copied", "calling"} /\ conn[c].phase \in {"routed", "copied"}
        /\ g.kind # "copied"
    BY <1>1, <1>8, <1>9
  <2>3. stack' = Append(Front(stack), g)
    BY <1>2, <1>9
  <2>4. QED
    BY <1>1, <1>8, <2>1, <2>2, <2>3, CallGoesOn
<1>11. TableOK'
  <2>1. PICK e, d : e = table[b] /\ EntryOK(e) /\ d = EntryWith(e, r)
    BY <1>3 DEF SiteInv, TableOK
  <2>2. EntryOK(d)
    BY <2>1, EntryWithOK
  <2>3. table' = [a \in 0..(Buckets - 1) |-> IF a = b THEN d ELSE table[a]]
    BY <1>3, <1>7, <2>1 DEF SiteInv, TableOK, Swapped
  <2>4. QED
    BY <2>2, <2>3 DEF SiteInv, TableOK
<1>12. Kept(manager, manager')
  BY <1>6, UnrefKept DEF SiteInv, CounterOK, Kept, WithoutOverwritten
<1>13. TransfersOK' /\ CounterOK'
  BY <1>1, <1>8, <1>10, <1>12, InsideRequest
<1>14. /\ HandlersOf = Copies(table, Append(s, f))
       /\ HandlersOf' = Copies(Swapped(table, b, r), Append(s, g))
  <2>1. HandlersOf = Copies(table, stack)
    BY HandlersAre DEF SiteInv, StackOK
  <2>2. HandlersOf' = Copies(table', stack')
    BY <1>10, HandlersAre DEF StackOK
  <2>3. QED
    BY <1>2, <1>7, <1>9, <2>1, <2>2
<1>15. /\ old = Routes!NoHandler => HandlersOf' = HandlersOf
       /\ old # Routes!NoHandler =>
            /\ FileOf(old) \in Paths /\ HandlersOf[FileOf(old)] > 0
            /\ HandlersOf' = Less(HandlersOf, FileOf(old))
  <2>1. f.request = g.request /\ TableOK
    BY <1>2, <1>9 DEF SiteInv
  <2>2. /\ old = Routes!NoHandler =>
              Copies(Swapped(table, b, f.request), Append(s, g)) = Copies(table, Append(s, f))
        /\ old # Routes!NoHandler =>
              /\ FileOf(old) \in Paths
              /\ Copies(table, Append(s, f))[FileOf(old)] > 0
              /\ Copies(Swapped(table, b, f.request), Append(s, g))
                   = Less(Copies(table, Append(s, f)), FileOf(old))
    BY <1>3, <1>4, <1>5, <1>9, <2>1, CopiesSwapped
  <2>3. QED
    BY <1>2, <1>14, <2>2
<1>16. CASE old = Routes!NoHandler
  <2>1. UNCHANGED Files!vars
    BY <1>1, <1>6, <1>15, <1>16 DEF Files!vars, WithoutOverwritten
  <2>2. QED
    BY <1>10, <1>11, <1>13, <2>1 DEF SiteInv, FilesStep
<1>17. CASE old # Routes!NoHandler
  <2>1. PICK p \in Paths : p = FileOf(old)
    BY <1>15, <1>17
  <2>2. Files!DropHandler(p)
    BY <1>1, <1>6, <1>15, <1>17, <2>1 DEF Files!DropHandler, WithoutOverwritten, Less
  <2>3. QED
    BY <1>10, <1>11, <1>13, <2>2 DEF SiteInv, FilesStep, Files!Next
<1>18. QED
  BY <1>16, <1>17

(* The closure that is called exists: in a call that holds it, or in its   *)
(* slot.                                                                   *)
LEMMA CalledExists ==
  ASSUME SiteInv, NEW c \in Conns, conn[c].phase = "calling"
  PROVE  /\ running = c
         /\ CalledFile(Last(stack)) \in Paths /\ HandlersOf[CalledFile(Last(stack))] > 0
<1>1. running = c
  BY DEF SiteInv, ConnsOK, AtRest
<1>2. PICK s \in Seq(Frames), f \in Frames, r \in Requests :
        /\ s = Front(stack) /\ f = Last(stack) /\ stack = Append(s, f) /\ stack # << >>
        /\ r = Current(c) /\ r = Head(conn[c].pipeline) /\ f.request = r
        /\ CallOK(conn[c], f, table[Hash(Routes!Key(r))])
  BY <1>1, InnermostIs
<1>3. PICK a \in Seq(Frames) : a = stack /\ a # << >> /\ Last(a) = f
  BY <1>2 DEF SiteInv, StackOK
<1>4. PICK t : t = table
  OBVIOUS
<1>5. ASSUME NEW p \in Paths
      PROVE  /\ HandlersOf[p] = CachedCount(t, p) + HeldCount(a, {"miss", "copied"}, p)
                                  + HeldCount(a, {"copied"}, p)
             /\ CachedCount(t, p) \in Nat /\ HeldCount(a, {"miss", "copied"}, p) \in Nat
             /\ HeldCount(a, {"copied"}, p) \in Nat
  <2>1. HandlersOf = Copies(t, a)
    BY <1>3, <1>4, HandlersAre
  <2>2. QED
    BY <2>1, CachedTyped, HeldTyped DEF Copies
<1>6. CASE f.kind = "miss"
  <2>1. PICK p \in Paths : p = FileOf(r)
    BY RequestTyped
  <2>2. CalledFile(f) = p
    BY <1>2, <1>6, <2>1 DEF CalledFile
  <2>3. HeldCount(a, {"miss", "copied"}, p) > 0
    BY <1>2, <1>3, <1>6, <2>1, HeldByLast
  <2>4. PICK x \in Nat, y \in Nat, z \in Nat : HandlersOf[p] = x + y + z /\ y > 0
    BY <1>5, <2>3
  <2>5. HandlersOf[p] > 0
    BY <2>4
  <2>6. QED
    BY <1>1, <1>2, <2>2, <2>5
<1>7. CASE f.kind # "miss"
  <2>1. PICK b \in 0..(Buckets - 1) : b = Hash(Routes!Key(r))
    BY KeyTyped
  <2>2. f.slot \in Slots /\ t[b].handlers[f.slot] \in Requests
    BY <1>2, <1>4, <1>7, <2>1 DEF CallOK
  <2>3. PICK p \in Paths : p = FileOf(t[b].handlers[f.slot])
    BY <2>2, RequestTyped
  <2>4. CalledFile(f) = p
    BY <1>2, <1>4, <1>7, <2>1, <2>3 DEF CalledFile
  <2>5. CachedCount(t, p) > 0
    BY <2>2, <2>3, CachedBySlot
  <2>6. PICK x \in Nat, y \in Nat, z \in Nat : HandlersOf[p] = x + y + z /\ x > 0
    BY <1>5, <2>5
  <2>7. HandlersOf[p] > 0
    BY <2>6
  <2>8. QED
    BY <1>1, <1>2, <2>4, <2>7
<1>8. QED
  BY <1>6, <1>7

(* An unloaded file takes nothing from a transfer but its being intact.    *)
LEMMA DisturbKeeps ==
  ASSUME TransfersOK, NEW unloaded \in SUBSET Paths, NEW u, u = Files!Disturb(unloaded)
  PROVE  /\ u = [d \in Conns |-> u[d]]
         /\ \A d \in Conns : TransferOK(u[d], conn[d]) /\ u[d].path = transfer[d].path
<1>1. u = [d \in Conns |-> IF transfer[d].path \in unloaded
                           THEN [transfer[d] EXCEPT !.intact = FALSE] ELSE transfer[d]]
  BY DEF Files!Disturb
<1>2. \A d \in Conns : TransferOK(u[d], conn[d]) /\ u[d].path = transfer[d].path
  <2>1. TAKE d \in Conns
  <2>2. TransferOK(transfer[d], conn[d])
    BY DEF TransfersOK
  <2>3. CASE transfer[d].path \in unloaded
    <3>1. PICK t : t = transfer[d]
      OBVIOUS
    <3>2. u[d] = [t EXCEPT !.intact = FALSE]
      BY <1>1, <2>3, <3>1
    <3>3. t = [path |-> t.path, mapped |-> t.mapped, version |-> t.version, intact |-> t.intact,
               offset |-> t.offset]
      BY <2>2, <3>1 DEF TransferOK
    <3>4. PICK v : /\ v = u[d] /\ v.path = t.path
                   /\ v = [path |-> v.path, mapped |-> v.mapped, version |-> v.version,
                           intact |-> v.intact, offset |-> v.offset]
      BY <3>2, <3>3
    <3>5. t.path # NONE
      BY <2>3, <3>1, SiteAssumption
    <3>6. t # Files!NoTransfer
      BY <3>5 DEF Files!NoTransfer
    <3>7. QED
      BY <2>2, <3>1, <3>4, <3>6 DEF TransferOK
  <2>4. CASE transfer[d].path \notin unloaded
    BY <1>1, <2>2, <2>4
  <2>5. QED
    BY <2>3, <2>4
<1>3. u = [d \in Conns |-> u[d]]
  BY <1>1
<1>4. QED
  BY <1>2, <1>3

(* A request that is still to be counted leaves room in the counter.       *)
LEMMA RoomToCount ==
  ASSUME SiteInv, NEW c \in Conns, conn[c].phase = "calling"
  PROVE  manager.requestsCounter < MaxRequests
<1>1. PICK ds : ds = [conn EXCEPT ![c] = ClosedConn]
  OBVIOUS
<1>2. ds[c] = ClosedConn /\ \A d \in Conns : d # c => ds[d] = conn[d]
  BY <1>1 DEF SiteInv, ConnsOK
<1>3. \A d \in Conns : ConnOK(ds[d]) /\ ConnOK(conn[d])
  BY <1>2, ClosedIs DEF SiteInv, ConnsOK
<1>4. PICK m \in Nat : m = Len(conn[c].pipeline) /\ m > 0
  BY <1>3, ConnTyped
<1>5. Uncounted(conn[c]) = m /\ Uncounted(ds[c]) = 0
  BY <1>2, <1>4, ClosedIs DEF Uncounted
<1>6. \A d \in Conns : Uncounted(conn[d]) \in 0..MaxPipeline /\ Uncounted(ds[d]) \in 0..MaxPipeline
  BY <1>3, ConnTyped
<1>7. NoMore(conn, ds)
  <2>1. \A d \in Conns : Uncounted(ds[d]) <= Uncounted(conn[d])
    <3>1. TAKE d \in Conns
    <3>2. CASE d = c
      BY <1>4, <1>5, <3>2
    <3>3. CASE d # c
      BY <1>2, <1>6, <3>3, SiteAssumption
    <3>4. QED
      BY <3>2, <3>3
  <2>2. QED
    BY <1>6, <2>1 DEF NoMore
<1>8. PICK u \in Nat, v \in Nat, n \in Nat :
        /\ u = Cardinality(UncountedIn(conn)) /\ v = Cardinality(UncountedIn(ds))
        /\ n = manager.requestsCounter
  BY UncountedFinite DEF SiteInv, CounterOK
<1>9. v < u
  <2>1. Uncounted(ds[c]) < Uncounted(conn[c])
    BY <1>4, <1>5
  <2>2. QED
    BY <1>7, <1>8, <2>1, UncountedFewer
<1>10. n + u <= MaxRequests
  BY <1>8 DEF SiteInv, CounterOK
<1>11. MaxRequests \in Nat
  BY SiteAssumption
<1>12. n < MaxRequests
  BY <1>9, <1>10, <1>11
<1>13. QED
  BY <1>8, <1>12

(* A transfer is a record of its five fields.                              *)
Transferring(t) ==
  t = [path |-> t.path, mapped |-> t.mapped, version |-> t.version, intact |-> t.intact,
       offset |-> t.offset]

(* What the call of a closure does, as far as the connection sees it.      *)
LEMMA CalledIs ==
  ASSUME ManagerFields(manager), NEW p \in Paths, NEW c \in Conns, Files!Called(p, c)
  PROVE  \E m, t, unloaded :
           /\ unloaded \in SUBSET Paths
           /\ Kept(manager, m) /\ Transferring(t) /\ t.path = p
           /\ \/ /\ outcome'.kind = "served"
                 /\ ManagerFields(manager') /\ manager'.requestsCounter = m.requestsCounter + 1
                 /\ transfer' = [Files!Disturb(unloaded) EXCEPT ![c] = t]
              \/ /\ outcome'.kind \in {"error", "refused"}
                 /\ manager' = m /\ transfer' = Files!Disturb(unloaded)
<1>1. PICK m : m = Files!ReloadIfStale(manager, p)
  OBVIOUS
<1>2. Kept(manager, m)
  BY <1>1, ReloadKept
<1>3. PICK unloaded :
        unloaded = IF Files!IsLoaded(manager, p) /\ Files!Stale(manager, p)
                      /\ disk[p] # manager.file[p].version
                   THEN {p} ELSE {}
  OBVIOUS
<1> unloaded \in SUBSET Paths
  BY <1>3
<1>4. PICK t : t = Files!NewTransfer(p, m.file[p])
  OBVIOUS
<1>5. Transferring(t) /\ t.path = p
  BY <1>4 DEF Files!NewTransfer, Transferring
<1>6. CASE Files!IsLoaded(m, p)
  <2>1. /\ manager' = [m EXCEPT !.file[p].refCount = @ + 1, !.requestsCounter = @ + 1]
        /\ transfer' = [Files!Disturb(unloaded) EXCEPT ![c] = t]
        /\ outcome' = [Files!Nothing EXCEPT !.kind = "served", !.path = p,
                                            !.version = m.file[p].version]
    BY <1>1, <1>3, <1>4, <1>6, Zenon DEF Files!Called
  <2>2. outcome'.kind = "served"
    BY <2>1 DEF Files!Nothing
  <2>3. ManagerFields(manager') /\ manager'.requestsCounter = m.requestsCounter + 1
    BY <1>2, <2>1 DEF Kept, ManagerFields
  <2>4. QED
    BY <1>2, <1>5, <2>1, <2>2, <2>3
<1>7. CASE ~Files!IsLoaded(m, p)
  <2>1. /\ manager' = m /\ transfer' = Files!Disturb(unloaded)
        /\ outcome' = [Files!Nothing EXCEPT !.kind = IF m.file[p].exception THEN "error" ELSE "refused",
                                            !.path = p]
    BY <1>1, <1>3, <1>4, <1>7, Zenon DEF Files!Called
  <2>2. outcome'.kind \in {"error", "refused"}
    BY <2>1 DEF Files!Nothing
  <2>3. QED
    BY <1>2, <1>5, <2>1, <2>2
<1>8. QED
  BY <1>6, <1>7

LEMMA CallStep ==
  ASSUME SiteInv, NEW c \in Conns, Call(c) PROVE SiteInv' /\ FilesStep
<1>1. /\ conn[c].phase = "calling" /\ running' = c
      /\ UNCHANGED <<disk, changed, table, stack>>
  BY DEF Call, routesVars
<1>2. PICK p \in Paths : p = CalledFile(Last(stack)) /\ HandlersOf[p] > 0 /\ running = c
  BY <1>1, CalledExists
<1>3. Files!Called(p, c)
  BY <1>2 DEF Call
<1>4. PICK m, t, unloaded :
           /\ unloaded \in SUBSET Paths
           /\ Kept(manager, m) /\ Transferring(t) /\ t.path = p
           /\ \/ /\ outcome'.kind = "served"
                 /\ ManagerFields(manager') /\ manager'.requestsCounter = m.requestsCounter + 1
                 /\ transfer' = [Files!Disturb(unloaded) EXCEPT ![c] = t]
              \/ /\ outcome'.kind \in {"error", "refused"}
                 /\ manager' = m /\ transfer' = Files!Disturb(unloaded)
  BY <1>2, <1>3, CalledIs DEF SiteInv, CounterOK
<1>5. PICK k : /\ conn' = [conn EXCEPT ![c] = k] /\ ConnOK(k)
               /\ k.phase = (CASE outcome'.kind = "served" -> "sending"
                               [] outcome'.kind = "error" -> "answering"
                               [] OTHER -> "closed")
               /\ k.phase # "closed" => k.pipeline = conn[c].pipeline
               /\ k.phase = "closed" => k = ClosedConn
  <2>1. CASE outcome'.kind = "served"
    <3>1. InPhase(c, "sending") /\ "sending" \in Phases \ {"closed", "reading"}
      BY <2>1 DEF Call, InPhase, Phases
    <3>2. PICK k : /\ conn' = [conn EXCEPT ![c] = k] /\ ConnOK(k)
                   /\ k.phase = "sending" /\ k.pipeline = conn[c].pipeline
      BY <1>1, <3>1, PhaseIs DEF SiteInv
    <3>3. QED
      BY <2>1, <3>2
  <2>2. CASE outcome'.kind = "error"
    <3>1. InPhase(c, "answering") /\ "answering" \in Phases \ {"closed", "reading"}
      BY <2>2 DEF Call, InPhase, Phases
    <3>2. PICK k : /\ conn' = [conn EXCEPT ![c] = k] /\ ConnOK(k)
                   /\ k.phase = "answering" /\ k.pipeline = conn[c].pipeline
      BY <1>1, <3>1, PhaseIs DEF SiteInv
    <3>3. QED
      BY <2>2, <3>2
  <2>3. CASE outcome'.kind \notin {"served", "error"}
    <3>1. PICK k : k = ClosedConn
      OBVIOUS
    <3>2. conn' = [conn EXCEPT ![c] = k]
      BY <2>3, <3>1 DEF Call, Closed, ClosedConn
    <3>3. ConnOK(k) /\ k.phase = "closed"
      BY <3>1, ClosedIs
    <3>4. QED
      BY <2>3, <3>1, <3>2, <3>3
  <2>4. QED
    BY <2>1, <2>2, <2>3
<1>6. PICK n \in Nat, l \in Nat : n = Len(conn[c].pipeline) /\ n > 0 /\ l = Len(stack)
  <2>1. ConnOK(conn[c]) /\ Len(stack) \in Nat
    BY DEF SiteInv, ConnsOK, StackOK
  <2>2. QED
    BY <1>1, <2>1, ConnTyped
<1>7. Uncounted(conn[c]) = n /\ Ahead(conn[c]) = n - 1
  BY <1>1, <1>6 DEF Uncounted, Ahead
<1>8. /\ k.phase \in {"sending", "answering", "closed"}
      /\ k.phase = "sending" <=> outcome'.kind = "served"
  BY <1>4, <1>5
<1>9. /\ Ahead(k) \in Nat /\ Ahead(k) <= n - 1
      /\ Uncounted(k) \in Nat /\ Uncounted(k) <= n
      /\ k.phase = "sending" => Uncounted(k) < n
  <2>1. CASE k.phase = "closed"
    BY <1>5, <1>6, <2>1, ClosedIs
  <2>2. CASE k.phase = "sending"
    BY <1>5, <1>6, <2>2 DEF Ahead, Uncounted
  <2>3. CASE k.phase = "answering"
    BY <1>5, <1>6, <2>3 DEF Ahead, Uncounted
  <2>4. QED
    BY <1>8, <2>1, <2>2, <2>3
<1>10. ConnsOK' /\ TableOK' /\ StackOK' /\ InnermostOK'
  <2>1. Completes(c)
    BY <1>2 DEF Completes
  <2>2. l + (n - 1) <= MaxDepth
    BY <1>6, <1>7, <2>1, RoomToGoOn
  <2>3. Len(stack) + Ahead(k) <= MaxDepth
    <3>1. PICK a \in Nat : a = Ahead(k) /\ a <= n - 1
      BY <1>9
    <3>2. MaxDepth \in Nat
      BY SiteAssumption
    <3>3. QED
      BY <1>6, <2>2, <3>1, <3>2
  <2>4. conn[c].phase # "copied" /\ k.phase \notin {"routed", "copied", "calling"}
    BY <1>1, <1>8
  <2>5. QED
    BY <1>1, <1>5, <2>1, <2>3, <2>4, Proceeds
<1>11. conn'[c] = k /\ \A d \in Conns : d # c => conn'[d] = conn[d]
  BY <1>1, <1>2, <1>5, ConnStep DEF SiteInv
<1>12. NoMore(conn, conn')
  <2>1. Uncounted(conn'[c]) <= Uncounted(conn[c])
    BY <1>7, <1>9, <1>11
  <2>2. QED
    BY <1>10, <1>11, <2>1, FewerOf DEF SiteInv
<1>13. CounterOK'
  <2>1. CASE outcome'.kind = "served"
    <3>1. PICK x \in Nat, u \in Nat, v \in Nat :
            /\ x = manager.requestsCounter /\ u = Cardinality(UncountedIn(conn))
            /\ v = Cardinality(UncountedIn(conn'))
      BY UncountedFinite DEF SiteInv, CounterOK
    <3>2. Uncounted(conn'[c]) < Uncounted(conn[c])
      BY <1>7, <1>8, <1>9, <1>11, <2>1
    <3>3. v < u
      BY <1>12, <3>1, <3>2, UncountedFewer
    <3>4. ManagerFields(manager') /\ manager'.requestsCounter = x + 1
      BY <1>4, <2>1, <3>1 DEF Kept
    <3>5. x + u <= MaxRequests /\ MaxRequests \in Nat
      BY <3>1, SiteAssumption DEF SiteInv, CounterOK
    <3>6. x + 1 + v <= MaxRequests
      BY <3>3, <3>5
    <3>7. UncountedIn(conn)' = UncountedIn(conn')
      BY DEF UncountedIn
    <3>8. QED
      BY <3>1, <3>4, <3>6, <3>7 DEF CounterOK
  <2>2. CASE outcome'.kind # "served"
    <3>1. Kept(manager, manager')
      BY <1>4, <2>2
    <3>2. QED
      BY <1>12, <3>1, Counted DEF SiteInv
  <2>3. QED
    BY <2>1, <2>2
<1>14. PICK u : /\ u = Files!Disturb(unloaded) /\ u = [d \in Conns |-> u[d]]
                /\ \A d \in Conns : TransferOK(u[d], conn[d]) /\ u[d].path = transfer[d].path
  BY <1>4, DisturbKeeps DEF SiteInv
<1>15. TransfersOK'
  <2>1. CASE outcome'.kind = "served"
    <3>1. transfer' = [d \in Conns |-> IF d = c THEN t ELSE u[d]]
      BY <1>4, <1>14, <2>1
    <3>2. k.phase = "sending"
      BY <1>8, <2>1
    <3>3. TransferOK(t, k)
      BY <1>4, <3>2 DEF TransferOK, Transferring
    <3>4. \A d \in Conns : TransferOK(transfer'[d], conn'[d])
      BY <1>11, <1>14, <3>1, <3>3
    <3>5. QED
      BY <3>1, <3>4 DEF TransfersOK
  <2>2. CASE outcome'.kind # "served"
    <3>1. transfer' = u
      BY <1>4, <1>14, <2>2
    <3>2. TransferOK(u[c], k)
      BY <1>1, <1>14 DEF TransferOK
    <3>3. \A d \in Conns : TransferOK(transfer'[d], conn'[d])
      BY <1>11, <1>14, <3>1, <3>2
    <3>4. QED
      BY <1>14, <3>1, <3>3 DEF TransfersOK
  <2>3. QED
    BY <2>1, <2>2
<1>16. Files!Invoke(p, c)
  <2>1. transfer[c] = Files!NoTransfer
    BY <1>1 DEF SiteInv, TransfersOK, TransferOK
  <2>2. manager.requestsCounter < MaxRequests
    BY <1>1, RoomToCount
  <2>3. Copies(table', stack') = Copies(table, stack)
    BY <1>1
  <2>4. HandlersOf' = HandlersOf
    BY <1>10, <2>3, SameClosures DEF SiteInv
  <2>5. QED
    BY <1>1, <1>2, <1>3, <2>1, <2>2, <2>4 DEF Files!Invoke
<1>17. QED
  BY <1>10, <1>13, <1>15, <1>16 DEF SiteInv, FilesStep, Files!Next

(* A transfer that goes on, and one that ends.                             *)
LEMMA TransferStepIs ==
  ASSUME SiteInv, NEW c \in Conns, TransferStep(c)
  PROVE  \E k : /\ conn' = [conn EXCEPT ![c] = k] /\ ConnOK(k)
                /\ Uncounted(k) <= Uncounted(conn[c]) /\ Ahead(k) <= Ahead(conn[c])
                /\ \/ /\ k.phase \in {"closed", "reading", "request"}
                      /\ transfer' = [transfer EXCEPT ![c] = Files!NoTransfer]
                      /\ Kept(manager, manager')
                   \/ /\ k = conn[c] /\ manager' = manager
                      /\ \E n : transfer' = [transfer EXCEPT ![c].offset = n]
<1> DEFINE Stops == conn' = Closed(c)
           Ended == /\ transfer' = [transfer EXCEPT ![c] = Files!NoTransfer]
                    /\ manager' = Files!Unref(manager, transfer[c].path)
           Going == /\ manager' = manager /\ UNCHANGED conn
                    /\ \E n : transfer' = [transfer EXCEPT ![c].offset = n]
<1>1. conn[c].phase = "sending" /\ Completes(c) /\ ConnOK(conn[c])
  BY DEF TransferStep, SiteInv, ConnsOK
<1>2. /\ Uncounted(conn[c]) \in Nat /\ Ahead(conn[c]) \in Nat
  BY <1>1, ConnTyped
<1>3. Ended => Kept(manager, manager')
  BY UnrefKept DEF SiteInv, CounterOK
<1>4. (Stops \/ RequestCompleted(c)) =>
        \E k : /\ conn' = [conn EXCEPT ![c] = k] /\ ConnOK(k)
               /\ k.phase \in {"closed", "reading", "request"}
               /\ Uncounted(k) <= Uncounted(conn[c]) /\ Ahead(k) <= Ahead(conn[c])
  BY <1>1, CompletedIs DEF SiteInv, RequestCompleted
<1>5. ASSUME Ended, Stops \/ RequestCompleted(c)
      PROVE  \E k : /\ conn' = [conn EXCEPT ![c] = k] /\ ConnOK(k)
                    /\ Uncounted(k) <= Uncounted(conn[c]) /\ Ahead(k) <= Ahead(conn[c])
                    /\ k.phase \in {"closed", "reading", "request"}
                    /\ transfer' = [transfer EXCEPT ![c] = Files!NoTransfer]
                    /\ Kept(manager, manager')
  BY <1>3, <1>4, <1>5
<1>6. ASSUME Going
      PROVE  \E k : /\ conn' = [conn EXCEPT ![c] = k] /\ ConnOK(k)
                    /\ Uncounted(k) <= Uncounted(conn[c]) /\ Ahead(k) <= Ahead(conn[c])
                    /\ k = conn[c] /\ manager' = manager
                    /\ \E n : transfer' = [transfer EXCEPT ![c].offset = n]
  <2>1. PICK k : k = conn[c]
    OBVIOUS
  <2>2. conn' = [conn EXCEPT ![c] = k]
    BY <1>6, <2>1 DEF SiteInv, ConnsOK
  <2>3. Uncounted(k) <= Uncounted(conn[c]) /\ Ahead(k) <= Ahead(conn[c])
    BY <1>2, <2>1
  <2>4. QED
    BY <1>1, <1>6, <2>1, <2>2, <2>3
<1>7. (Ended /\ (Stops \/ RequestCompleted(c))) \/ Going
  <2>1. CASE /\ Files!WriteEnds(c)
             /\ IF outcome'.kind = "finish" THEN RequestCompleted(c) ELSE conn' = Closed(c)
    BY <2>1 DEF Files!WriteEnds, Files!End, Files!Destroyed
  <2>2. CASE /\ Files!SendFile(c)
             /\ IF outcome'.kind = "finish" THEN RequestCompleted(c) ELSE UNCHANGED conn
    <3>1. PICK r, length :
             IF r <= 0 \/ transfer[c].offset + r >= length
             THEN Files!End(c, "finish", transfer[c].offset + r)
             ELSE /\ transfer' = [transfer EXCEPT ![c].offset = @ + r]
                  /\ outcome' = Files!Nothing
                  /\ UNCHANGED manager
      BY <2>2 DEF Files!SendFile
    <3>2. CASE Files!End(c, "finish", transfer[c].offset + r)
      <4>1. outcome'.kind = "finish" /\ Ended
        BY <3>2 DEF Files!End, Files!Destroyed
      <4>2. QED
        BY <2>2, <4>1
    <3>3. CASE /\ transfer' = [transfer EXCEPT ![c].offset = @ + r]
               /\ outcome' = Files!Nothing
               /\ UNCHANGED manager
      <4>1. outcome'.kind # "finish"
        BY <3>3 DEF Files!Nothing
      <4>2. PICK n : n = transfer[c].offset + r
        OBVIOUS
      <4>3. transfer' = [transfer EXCEPT ![c].offset = n]
        BY <3>3, <4>2
      <4>4. QED
        BY <2>2, <3>3, <4>1, <4>3
    <3>4. QED
      BY <3>1, <3>2, <3>3
  <2>3. CASE /\ Files!ClientGone(c)
             /\ IF transfer[c].mapped THEN conn' = Closed(c) ELSE RequestCompleted(c)
    BY <2>3 DEF Files!ClientGone, Files!End, Files!Destroyed
  <2>4. QED
    BY <2>1, <2>2, <2>3 DEF TransferStep
<1>8. QED
  BY <1>5, <1>6, <1>7

LEMMA TransferStepStep ==
  ASSUME SiteInv, NEW c \in Conns, TransferStep(c) PROVE SiteInv' /\ FilesStep
<1>1. /\ Completes(c) /\ running' = c /\ UNCHANGED <<table, stack>>
      /\ conn[c].phase = "sending"
  BY DEF TransferStep, routesVars
<1>2. PICK k : /\ conn' = [conn EXCEPT ![c] = k] /\ ConnOK(k)
               /\ Uncounted(k) <= Uncounted(conn[c]) /\ Ahead(k) <= Ahead(conn[c])
               /\ \/ /\ k.phase \in {"closed", "reading", "request"}
                     /\ transfer' = [transfer EXCEPT ![c] = Files!NoTransfer]
                     /\ Kept(manager, manager')
                  \/ /\ k = conn[c] /\ manager' = manager
                     /\ \E n : transfer' = [transfer EXCEPT ![c].offset = n]
  BY TransferStepIs
<1>3. k.phase \notin {"routed", "copied", "calling"}
  BY <1>1, <1>2
<1>4. Len(stack) + Ahead(k) <= MaxDepth
  <2>1. PICK a \in Nat, b \in Nat, l \in Nat : a = Ahead(k) /\ b = Ahead(conn[c]) /\ l = Len(stack)
    <3>1. Ahead(k) \in Nat /\ Ahead(conn[c]) \in Nat
      BY <1>2, ConnTyped DEF SiteInv, ConnsOK
    <3>2. Len(stack) \in Nat
      BY DEF SiteInv, StackOK
    <3>3. QED
      BY <3>1, <3>2
  <2>2. l + b <= MaxDepth
    BY <1>1, <2>1, RoomToGoOn
  <2>3. MaxDepth \in Nat /\ a <= b
    BY <1>2, <2>1, SiteAssumption
  <2>4. l + a <= MaxDepth
    BY <2>2, <2>3
  <2>5. QED
    BY <2>1, <2>4
<1>5. ConnsOK' /\ TableOK' /\ StackOK' /\ InnermostOK'
  <2>1. conn[c].phase # "copied"
    BY <1>1
  <2>2. QED
    BY <1>1, <1>2, <1>3, <1>4, <2>1, Proceeds
<1>6. conn'[c] = k /\ \A d \in Conns : d # c => conn'[d] = conn[d]
  <2>1. running \in {c, NONE}
    BY <1>1, RoomToGoOn
  <2>2. QED
    BY <1>1, <1>2, <2>1, ConnStep DEF SiteInv
<1>7. CounterOK'
  <2>1. Uncounted(conn'[c]) <= Uncounted(conn[c])
    BY <1>2, <1>6
  <2>2. NoMore(conn, conn')
    BY <1>5, <1>6, <2>1, FewerOf DEF SiteInv
  <2>3. Kept(manager, manager')
    BY <1>2 DEF Kept, SiteInv, CounterOK
  <2>4. QED
    BY <2>2, <2>3, Counted DEF SiteInv
<1>8. TransfersOK'
  <2>1. PICK t : /\ Transferring(t) /\ (k.phase # "sending" => t = Files!NoTransfer)
                 /\ transfer' = [transfer EXCEPT ![c] = t]
    <3>1. CASE /\ k.phase \in {"closed", "reading", "request"}
               /\ transfer' = [transfer EXCEPT ![c] = Files!NoTransfer]
      BY <3>1 DEF Transferring, Files!NoTransfer
    <3>2. ASSUME k = conn[c], NEW n, transfer' = [transfer EXCEPT ![c].offset = n]
          PROVE  \E t : /\ Transferring(t) /\ (k.phase # "sending" => t = Files!NoTransfer)
                        /\ transfer' = [transfer EXCEPT ![c] = t]
      <4>1. PICK o, t : o = transfer[c] /\ t = [o EXCEPT !.offset = n]
        OBVIOUS
      <4>2. Transferring(o)
        BY <4>1 DEF SiteInv, TransfersOK, TransferOK, Transferring
      <4>3. Transferring(t)
        BY <4>1, <4>2 DEF Transferring
      <4>4. transfer' = [transfer EXCEPT ![c] = t]
        BY <3>2, <4>1
      <4>5. QED
        BY <1>1, <3>2, <4>3, <4>4
    <3>3. QED
      BY <1>2, <3>1, <3>2
  <2>2. transfer' = [d \in Conns |-> IF d = c THEN t ELSE transfer[d]]
    BY <2>1 DEF SiteInv, TransfersOK
  <2>3. TransferOK(t, k)
    BY <2>1 DEF TransferOK, Transferring
  <2>4. \A d \in Conns : TransferOK(transfer'[d], conn'[d])
    BY <1>6, <2>2, <2>3 DEF SiteInv, TransfersOK
  <2>5. QED
    BY <2>2, <2>4 DEF TransfersOK
<1>9. Files!Next
  BY DEF TransferStep, Files!Next
<1>10. QED
  BY <1>5, <1>7, <1>8, <1>9 DEF SiteInv, FilesStep

(* A call that returns drops the closure it holds, if it holds one.        *)
LEMMA UnwindStep ==
  ASSUME SiteInv, Unwind PROVE SiteInv' /\ FilesStep
<1>1. PICK a \in Seq(Frames) : a = stack /\ a # << >>
  BY DEF SiteInv, StackOK, Unwind
<1>2. PICK s \in Seq(Frames), f \in Frames, n \in Nat :
        /\ s = Front(a) /\ f = Last(a) /\ a = Append(s, f) /\ f = a[n] /\ n = Len(a) /\ n > 0
        /\ Len(s) = n - 1 /\ \A i \in 1..(n - 1) : s[i] = a[i]
  <2>1. /\ Front(a) \in Seq(Frames) /\ Last(a) \in Frames /\ Last(a) = a[Len(a)]
        /\ Len(a) \in Nat \ {0} /\ Len(Front(a)) = Len(a) - 1
        /\ \A i \in 1..(Len(a) - 1) : Front(a)[i] = a[i]
        /\ a = Append(Front(a), Last(a))
    BY <1>1, StackSplit
  <2>2. QED
    BY <2>1
<1>3. /\ running = NONE /\ running' = NONE /\ stack' = s
      /\ IF f.kind \in {"miss"}
         THEN manager' = Files!Unref(manager, FileOf(f.request)) /\ outcome' = Files!Nothing
         ELSE UNCHANGED <<manager, outcome>>
      /\ UNCHANGED <<transfer, disk, changed, table, conn>>
  BY <1>1, <1>2 DEF Unwind, LocalKind, routesVars
<1>4. \A i \in 1..n : a[i].kind # "copied"
  BY <1>1, <1>2, <1>3, SiteAssumption DEF SiteInv, StackOK
<1>5. StackOK'
  <2>1. n <= MaxDepth
    BY <1>1, <1>2 DEF SiteInv, StackOK
  <2>2. Len(s) <= MaxDepth
    BY <1>2, <2>1, SiteAssumption
  <2>3. \A i \in 1..Len(s) : s[i].kind # "copied"
    BY <1>2, <1>4
  <2>4. QED
    BY <1>3, <2>2, <2>3 DEF StackOK
<1>6. ConnsOK' /\ TableOK' /\ TransfersOK'
  BY <1>3 DEF SiteInv, ConnsOK, TableOK, TransfersOK
<1>7. InnermostOK'
  BY <1>3, SiteAssumption DEF InnermostOK
<1>8. CounterOK'
  <2>1. Kept(manager, manager')
    BY <1>3, UnrefKept DEF SiteInv, CounterOK, Kept
  <2>2. \A c \in Conns : Uncounted(conn[c]) \in 0..MaxPipeline
    BY ConnTyped DEF SiteInv, ConnsOK
  <2>3. NoMore(conn, conn')
    BY <1>3, <2>2, SiteAssumption DEF NoMore
  <2>4. QED
    BY <2>1, <2>3, Counted DEF SiteInv
<1>9. HandlersOf = Copies(table, Append(s, f)) /\ HandlersOf' = Copies(table, s)
  <2>1. HandlersOf = Copies(table, stack)
    BY HandlersAre DEF SiteInv, StackOK
  <2>2. HandlersOf' = Copies(table', stack')
    BY <1>5, HandlersAre DEF StackOK
  <2>3. QED
    BY <1>1, <1>2, <1>3, <2>1, <2>2
<1>10. CASE f.kind = "miss"
  <2>1. PICK p \in Paths : p = FileOf(f.request)
    BY RequestTyped DEF Frames
  <2>2. HandlersOf' = Less(HandlersOf, p) /\ HandlersOf[p] > 0
    BY <1>9, <1>10, <2>1, CopiesMiss
  <2>3. Files!DropHandler(p)
    BY <1>3, <1>10, <2>1, <2>2 DEF Files!DropHandler, Less
  <2>4. QED
    BY <1>5, <1>6, <1>7, <1>8, <2>3 DEF SiteInv, FilesStep, Files!Next
<1>11. CASE f.kind # "miss"
  <2>1. f.kind = "hit"
    BY <1>2, <1>4, <1>11 DEF Frames
  <2>2. HandlersOf' = HandlersOf
    BY <1>9, <2>1, CopiesHit
  <2>3. UNCHANGED Files!vars
    BY <1>3, <1>11, <2>2 DEF Files!vars
  <2>4. QED
    BY <1>5, <1>6, <1>7, <1>8, <2>3 DEF SiteInv, FilesStep
<1>12. QED
  BY <1>10, <1>11

LEMMA TimerCBStep ==
  ASSUME SiteInv, TimerCB PROVE SiteInv' /\ FilesStep
<1>1. Files!TimerCB /\ UNCHANGED <<table, conn, stack, running>>
  BY DEF TimerCB, routesVars
<1>2. PICK d, start :
        /\ d \in Periods
        /\ start = [manager EXCEPT !.file = [p \in Paths |-> Files!Older(@[p], d)]]
        /\ manager' = [Files!Purge(start) EXCEPT !.loadsCounter = 0, !.requestsCounter = 0]
        /\ transfer' = Files!Disturb(Files!LoadedPaths(manager) \ Files!LoadedPaths(Files!Purge(start)))
  BY <1>1, Zenon DEF Files!TimerCB
<1>3. PICK m : m = Files!Purge(start)
  OBVIOUS
<1>4. PICK unloaded : unloaded = Files!LoadedPaths(manager) \ Files!LoadedPaths(m)
  OBVIOUS
<1>5. /\ manager' = [m EXCEPT !.loadsCounter = 0, !.requestsCounter = 0]
      /\ transfer' = Files!Disturb(unloaded)
  BY <1>2, <1>3, <1>4, Zenon
<1>6. ManagerFields(start)
  BY <1>2 DEF SiteInv, CounterOK, ManagerFields
<1>7. ManagerFields(m)
  BY <1>3, <1>6, PurgeKept
<1>8. ManagerFields(manager') /\ manager'.requestsCounter = 0
  BY <1>5, <1>7 DEF ManagerFields
<1>9. CounterOK'
  <2>1. PICK n \in Nat, u \in Nat :
          n = manager.requestsCounter /\ u = Cardinality(UncountedIn(conn)) /\ n + u <= MaxRequests
    BY UncountedFinite DEF SiteInv, CounterOK
  <2>2. 0 + u <= MaxRequests
    <3>1. MaxRequests \in Nat
      BY SiteAssumption
    <3>2. QED
      BY <2>1, <3>1
  <2>3. UncountedIn(conn)' = UncountedIn(conn)
    BY <1>1 DEF UncountedIn
  <2>4. QED
    BY <1>8, <2>1, <2>2, <2>3 DEF CounterOK
<1>10. TransfersOK'
  <2>1. unloaded \in SUBSET Paths
    BY <1>4 DEF Files!LoadedPaths
  <2>2. /\ transfer' = [c \in Conns |-> transfer'[c]]
        /\ \A c \in Conns : TransferOK(transfer'[c], conn[c])
    BY <1>5, <2>1, DisturbKeeps DEF SiteInv
  <2>3. QED
    BY <1>1, <2>2 DEF TransfersOK
<1>11. ConnsOK' /\ TableOK' /\ StackOK' /\ InnermostOK'
  BY <1>1 DEF SiteInv, ConnsOK, TableOK, StackOK, InnermostOK
<1>12. QED
  BY <1>1, <1>9, <1>10, <1>11 DEF SiteInv, FilesStep, Files!Next

LEMMA DiskChangesStep ==
  ASSUME SiteInv, NEW p \in Volatile, DiskChanges(p) PROVE SiteInv' /\ FilesStep
<1>1. Files!DiskChanges(p) /\ UNCHANGED <<table, conn, stack, running, manager, transfer>>
  BY DEF DiskChanges, routesVars, Files!DiskChanges
<1>2. ConnsOK' /\ TableOK' /\ StackOK' /\ InnermostOK' /\ TransfersOK'
  BY <1>1 DEF SiteInv, ConnsOK, TableOK, StackOK, InnermostOK, TransfersOK
<1>3. CounterOK'
  BY <1>1 DEF SiteInv, CounterOK, UncountedIn
<1>4. QED
  BY <1>1, <1>2, <1>3 DEF SiteInv, FilesStep, Files!Next

-----------------------------------------------------------------------------
(***************************************************************************)
(* The theorems.                                                           *)
(***************************************************************************)
LEMMA NoClosures ==
  ASSUME Init PROVE HandlersOf = [p \in Paths |-> 0]
<1>1. /\ table = [b \in 0..(Buckets - 1) |->
                    [keys |-> [i \in 0..(Entries - 1) |-> << >>],
                     handlers |-> [i \in 0..(Entries - 1) |-> Routes!NoHandler],
                     nextToEvict |-> 0]]
      /\ stack = << >>
  BY DEF Init, Routes!Init
<1>2. \A p \in Paths : HandlersOf[p] = 0
  <2>1. TAKE p \in Paths
  <2>2. CachedFor(p) = {}
    BY <1>1 DEF CachedFor
  <2>3. HeldFor(p, {"miss", "copied"}) = {} /\ HeldFor(p, {"copied"}) = {}
    BY <1>1 DEF HeldFor
  <2>4. Cardinality({}) = 0
    BY FS_EmptySet
  <2>5. HandlersOf[p] = Cardinality(CachedFor(p)) + Cardinality(HeldFor(p, {"miss", "copied"}))
                          + Cardinality(HeldFor(p, {"copied"}))
    BY DEF HandlersOf
  <2>6. QED
    BY <2>2, <2>3, <2>4, <2>5
<1>3. QED
  BY <1>2 DEF HandlersOf

LEMMA InitHolds ==
  ASSUME Init PROVE SiteInv /\ Asked /\ Files!Init
<1>1. /\ conn = [c \in Conns |-> ClosedConn] /\ stack = << >> /\ running = NONE
      /\ transfer = [c \in Conns |-> Files!NoTransfer]
  BY DEF Init, ClosedConn
<1>2. ConnsOK
  BY <1>1, ClosedIs DEF ConnsOK, AtRest
<1>3. TableOK
  <2>1. PICK e : e = [keys |-> [i \in Slots |-> << >>],
                      handlers |-> [i \in Slots |-> Routes!NoHandler], nextToEvict |-> 0]
    OBVIOUS
  <2>2. 0 \in Slots
    BY SiteAssumption DEF Slots
  <2>3. EntryOK(e)
    <3>1. /\ e.keys = [i \in Slots |-> << >>] /\ e.handlers = [i \in Slots |-> Routes!NoHandler]
          /\ e.nextToEvict = 0
      BY <2>1
    <3>2. QED
      BY <2>1, <2>2, <3>1 DEF EntryOK
  <2>4. table = [b \in 0..(Buckets - 1) |-> e]
    BY <2>1 DEF Init, Routes!Init, Slots
  <2>5. QED
    BY <2>3, <2>4 DEF TableOK
<1>4. StackOK
  BY <1>1, SiteAssumption DEF StackOK
<1>5. InnermostOK
  BY <1>1, SiteAssumption DEF InnermostOK
<1>6. TransfersOK
  <2>1. TransferOK(Files!NoTransfer, ClosedConn)
    BY ClosedIs DEF TransferOK, Files!NoTransfer
  <2>2. QED
    BY <1>1, <2>1 DEF TransfersOK
<1>7. CounterOK
  <2>1. ManagerFields(manager) /\ manager.requestsCounter = 0
    BY DEF Init, ManagerFields
  <2>2. UncountedIn(conn) = {}
    BY <1>1, ClosedIs DEF UncountedIn
  <2>3. Cardinality(UncountedIn(conn)) = 0
    BY <2>2, FS_EmptySet
  <2>4. QED
    BY <2>1, <2>3, SiteAssumption DEF CounterOK
<1>8. Asked
  BY <1>1, ClosedIs DEF Asked
<1>9. Files!Init
  BY NoClosures DEF Init, Files!Init
<1>10. QED
  BY <1>2, <1>3, <1>4, <1>5, <1>6, <1>7, <1>8, <1>9 DEF SiteInv

LEMMA StutterHolds ==
  ASSUME SiteInv, UNCHANGED vars PROVE SiteInv' /\ FilesStep
<1>1. /\ UNCHANGED <<filesVars, table, conn, stack, running>>
  BY DEF vars, routesVars
<1>2. ConnsOK' /\ TableOK' /\ StackOK' /\ InnermostOK' /\ TransfersOK'
  BY <1>1 DEF SiteInv, ConnsOK, TableOK, StackOK, InnermostOK, TransfersOK, filesVars
<1>3. CounterOK'
  BY <1>1 DEF SiteInv, CounterOK, UncountedIn, filesVars
<1>4. HandlersOf' = HandlersOf
  <2>1. Copies(table', stack') = Copies(table, stack)
    BY <1>1
  <2>2. QED
    BY <1>2, <2>1, SameClosures DEF SiteInv
<1>5. UNCHANGED Files!vars
  BY <1>1, <1>4 DEF Files!vars, filesVars
<1>6. QED
  BY <1>2, <1>3, <1>5 DEF SiteInv, FilesStep

LEMMA NextHolds ==
  ASSUME SiteInv, [Next]_vars PROVE SiteInv' /\ FilesStep
<1>1. CASE UNCHANGED vars
  BY <1>1, StutterHolds
<1>2. ASSUME NEW c \in Conns, Accept(c) PROVE SiteInv' /\ FilesStep
  BY <1>2, AcceptStep
<1>3. ASSUME NEW c \in Conns, Read(c) PROVE SiteInv' /\ FilesStep
  BY <1>3, ReadStep
<1>4. ASSUME NEW c \in Conns, Process(c) PROVE SiteInv' /\ FilesStep
  BY <1>4, FindCachedStep, AskRouterStep, RouterThrowsStep DEF Process
<1>5. ASSUME NEW c \in Conns, Insert(c) PROVE SiteInv' /\ FilesStep
  BY <1>5, NotCachedStep, CopyHandlerStep, SwapHandlersStep DEF Insert
<1>6. ASSUME NEW c \in Conns, Call(c) PROVE SiteInv' /\ FilesStep
  BY <1>6, CallStep
<1>7. ASSUME NEW c \in Conns, PageEnds(c) PROVE SiteInv' /\ FilesStep
  BY <1>7, PageEndsStep
<1>8. ASSUME NEW c \in Conns, TransferStep(c) PROVE SiteInv' /\ FilesStep
  BY <1>8, TransferStepStep
<1>9. ASSUME NEW c \in Conns, Return(c) PROVE SiteInv' /\ FilesStep
  BY <1>9, ReturnStep
<1>10. CASE Unwind
  BY <1>10, UnwindStep
<1>11. CASE TimerCB
  BY <1>11, TimerCBStep
<1>12. ASSUME NEW p \in Volatile, DiskChanges(p) PROVE SiteInv' /\ FilesStep
  BY <1>12, DiskChangesStep
<1>13. QED
  BY <1>1, <1>2, <1>3, <1>4, <1>5, <1>6, <1>7, <1>8, <1>9, <1>10, <1>11, <1>12 DEF Next

(* The call-stack discipline holds whatever is cached, evicted or served.  *)
THEOREM StackDiscipline == Spec => []SiteInv
<1>1. Init => SiteInv
  BY InitHolds
<1>2. SiteInv /\ [Next]_vars => SiteInv'
  BY NextHolds
<1>3. QED
  BY <1>1, <1>2, PTL DEF Spec

(* Only the innermost call of processRequest() is still to be carried out, *)
(* by the one connection that runs, and what it is about to insert is not  *)
(* in the cache (cppsp.C:258-284).                                         *)
THEOREM Typed == Spec => []TypeOK
<1>1. SiteInv => TypeOK
  <2> SUFFICES ASSUME SiteInv PROVE TypeOK
    OBVIOUS
  <2>1. \A c \in Conns : conn[c].phase \in Phases /\ conn[c].pipeline \in Seq(Requests)
    BY ConnTyped DEF SiteInv, ConnsOK
  <2>2. PICK s \in Seq(Frames) : s = stack
    BY DEF SiteInv, StackOK
  <2>3. \A i \in DOMAIN s : s[i].kind \in {"hit", "miss", "copied"} /\ s[i].request \in Requests
    <3>1. TAKE i \in DOMAIN s
    <3>2. s[i] \in Frames
      BY <2>2
    <3>3. QED
      BY <3>2 DEF Frames
  <2>4. Len(stack) <= MaxDepth /\ running \in Conns \cup {NONE}
    BY DEF SiteInv, StackOK, ConnsOK
  <2>5. Working \subseteq {running}
    BY DEF SiteInv, ConnsOK, Working, Waiting, AtRest
  <2>6. ASSUME NEW c \in Conns, conn[c].phase \in {"routed", "copied"}
        PROVE  Routes!Matches(Routes!Key(Current(c))) = {}
    <3>1. running = c
      BY <2>6 DEF SiteInv, ConnsOK, AtRest
    <3>2. PICK r \in Requests, f \in Frames :
            r = Current(c) /\ r = Head(conn[c].pipeline)
            /\ CallOK(conn[c], f, table[Hash(Routes!Key(r))])
      BY <2>6, <3>1, InnermostIs
    <3>3. PICK e : e = table[Hash(Routes!Key(r))]
      OBVIOUS
    <3>4. \A i \in Slots : e.keys[i] # Routes!Key(r)
      BY <2>6, <3>2, <3>3 DEF CallOK
    <3>5. Routes!Matches(Routes!Key(r)) = {i \in Slots : e.keys[i] = Routes!Key(r)}
      BY <3>3, MatchesAre DEF SiteInv
    <3>6. QED
      BY <3>2, <3>4, <3>5
  <2>7. QED
    BY <2>1, <2>2, <2>3, <2>4, <2>5, <2>6 DEF TypeOK, Phases
<1>2. QED
  BY <1>1, StackDiscipline, PTL

(* A closure is there when it is called, and the scratch area of its       *)
(* connection holds nothing that is still to be destroyed, through any     *)
(* nesting of calls and any eviction (cppsp.C:273-281, cppsp.H:137-144,    *)
(* static_handler.C:102-129).                                              *)
THEOREM CalledWhenThere == Spec => []CallsAreSafe
<1>1. SiteInv => CallsAreSafe
  <2> SUFFICES ASSUME SiteInv, NEW c \in Conns, conn[c].phase = "calling"
               PROVE  HandlersOf[CalledFile(Last(stack))] > 0 /\ transfer[c] = Files!NoTransfer
    BY DEF CallsAreSafe
  <2>1. HandlersOf[CalledFile(Last(stack))] > 0
    BY CalledExists
  <2>2. transfer[c] = Files!NoTransfer
    BY DEF SiteInv, TransfersOK, TransferOK
  <2>3. QED
    BY <2>1, <2>2
<1>2. QED
  BY <1>1, StackDiscipline, PTL

(* A worker's steps are steps of the file manager of StaticFiles: with the *)
(* references of the closures in the cache and in the calls counted as its *)
(* handlers, nothing else takes or drops a reference, so that what is true *)
(* of StaticFiles is true of the whole (static_handler.H:36-58).           *)
THEOREM Implements == Spec => ImplementsStaticFiles
<1>1. Init => Files!Init
  BY InitHolds
<1>2. SiteInv /\ [Next]_vars => [Files!Next]_(Files!vars)
  BY NextHolds DEF FilesStep
<1>3. QED
  BY <1>1, <1>2, StackDiscipline, PTL DEF Spec, ImplementsStaticFiles, Files!Spec

-----------------------------------------------------------------------------
(***************************************************************************)
(* What is sent is what was asked for.                                     *)
(***************************************************************************)
LEMMA AskedStays ==
  ASSUME Asked,
         \A d \in Conns : conn'[d].phase = "sending" =>
           conn'[d] = conn[d] /\ transfer'[d].path = transfer[d].path
  PROVE  Asked'
BY DEF Asked, Current

(* A step of a connection that begins no transfer.                         *)
LEMMA AskedQuiet ==
  ASSUME SiteInv, Asked, NEW c \in Conns, running \in {c, NONE}, running' = c,
         NEW k, ConnOK(k), conn' = [conn EXCEPT ![c] = k], k.phase # "sending",
         \A d \in Conns : d # c => transfer'[d] = transfer[d]
  PROVE  Asked'
<1>1. conn'[c] = k /\ \A d \in Conns : d # c => conn'[d] = conn[d]
  BY ConnStep DEF SiteInv
<1>2. QED
  BY <1>1, AskedStays

LEMMA AskedInPhase ==
  ASSUME SiteInv, Asked, NEW c \in Conns, running = c, running' = c, transfer' = transfer,
         conn[c].phase \notin {"closed", "reading"},
         NEW phase \in Phases \ {"closed", "reading", "sending"}, InPhase(c, phase)
  PROVE  Asked'
<1>1. PICK k : /\ conn' = [conn EXCEPT ![c] = k] /\ ConnOK(k) /\ k.phase = phase
  BY PhaseIs DEF SiteInv
<1>2. QED
  BY <1>1, AskedQuiet

(* The closure that is called is the one of the request.                   *)
LEMMA CalledIsAsked ==
  ASSUME SiteInv, PlainRequests, NEW c \in Conns, conn[c].phase = "calling"
  PROVE  CalledFile(Last(stack)) = FileOf(Current(c))
<1>1. running = c
  BY CalledExists
<1>2. PICK f \in Frames, r \in Requests :
        /\ f = Last(stack) /\ r = Current(c) /\ f.request = r
        /\ r = Head(conn[c].pipeline)
        /\ CallOK(conn[c], f, table[Hash(Routes!Key(r))])
  BY <1>1, InnermostIs
<1>3. CASE f.kind = "miss"
  BY <1>2, <1>3 DEF CalledFile
<1>4. CASE f.kind # "miss"
  <2>1. PICK e : e = table[Hash(Routes!Key(r))] /\ EntryOK(e)
    BY KeyTyped DEF SiteInv, TableOK
  <2>2. PICK i, h : i = f.slot /\ h = e.handlers[i]
    OBVIOUS
  <2>3. i \in Slots /\ h \in Requests /\ e.keys[i] = Routes!Key(r)
    BY <1>2, <1>4, <2>1, <2>2 DEF CallOK
  <2>4. e.keys[i] = Routes!AsCString(Routes!Key(h))
    BY <2>1, <2>2, <2>3, KeyTyped DEF EntryOK
  <2>5. h = r
    BY <2>3, <2>4 DEF PlainRequests
  <2>6. QED
    BY <1>2, <1>4, <2>1, <2>2, <2>5 DEF CalledFile
<1>5. QED
  BY <1>3, <1>4

LEMMA AskedCall ==
  ASSUME SiteInv, Asked, PlainRequests, NEW c \in Conns, Call(c) PROVE Asked'
<1>1. conn[c].phase = "calling" /\ running' = c
  BY DEF Call
<1>2. PICK p \in Paths : p = CalledFile(Last(stack)) /\ running = c
  BY <1>1, CalledExists
<1>3. Files!Called(p, c)
  BY <1>2 DEF Call
<1>4. PICK m, t, unloaded :
           /\ unloaded \in SUBSET Paths
           /\ Kept(manager, m) /\ Transferring(t) /\ t.path = p
           /\ \/ /\ outcome'.kind = "served"
                 /\ ManagerFields(manager') /\ manager'.requestsCounter = m.requestsCounter + 1
                 /\ transfer' = [Files!Disturb(unloaded) EXCEPT ![c] = t]
              \/ /\ outcome'.kind \in {"error", "refused"}
                 /\ manager' = m /\ transfer' = Files!Disturb(unloaded)
  BY <1>2, <1>3, CalledIs DEF SiteInv, CounterOK
<1>5. PICK u : /\ u = Files!Disturb(unloaded) /\ u = [d \in Conns |-> u[d]]
                /\ \A d \in Conns : u[d].path = transfer[d].path
  BY <1>4, DisturbKeeps DEF SiteInv
<1>6. p = FileOf(Current(c))
  BY <1>1, <1>2, CalledIsAsked
<1>7. CASE outcome'.kind = "served"
  <2>1. InPhase(c, "sending") /\ "sending" \in Phases \ {"closed", "reading"}
    BY <1>7 DEF Call, InPhase, Phases
  <2>2. PICK k : /\ conn' = [conn EXCEPT ![c] = k] /\ ConnOK(k) /\ k.pipeline = conn[c].pipeline
    BY <1>1, <2>1, PhaseIs DEF SiteInv
  <2>3. conn'[c] = k /\ \A d \in Conns : d # c => conn'[d] = conn[d]
    BY <1>1, <1>2, <2>2, ConnStep DEF SiteInv
  <2>4. transfer' = [d \in Conns |-> IF d = c THEN t ELSE u[d]]
    BY <1>4, <1>5, <1>7
  <2>5. ASSUME NEW d \in Conns, conn'[d].phase = "sending"
        PROVE  transfer'[d].path = FileOf(Head(conn'[d].pipeline))
    <3>1. CASE d = c
      BY <1>4, <1>6, <2>2, <2>3, <2>4, <3>1 DEF Current
    <3>2. CASE d # c
      BY <1>5, <2>3, <2>4, <2>5, <3>2 DEF Asked, Current
    <3>3. QED
      BY <3>1, <3>2
  <2>6. QED
    BY <2>5 DEF Asked, Current
<1>8. CASE outcome'.kind # "served"
  <2>1. transfer' = u
    BY <1>4, <1>5, <1>8
  <2>2. PICK k : conn' = [conn EXCEPT ![c] = k] /\ ConnOK(k) /\ k.phase # "sending"
    <3>1. CASE outcome'.kind = "error"
      <4>1. InPhase(c, "answering") /\ "answering" \in Phases \ {"closed", "reading"}
        BY <3>1 DEF Call, InPhase, Phases
      <4>2. PICK k : conn' = [conn EXCEPT ![c] = k] /\ ConnOK(k) /\ k.phase = "answering"
        BY <1>1, <4>1, PhaseIs DEF SiteInv
      <4>3. QED
        BY <4>2
    <3>2. CASE outcome'.kind # "error"
      <4>1. PICK k : k = ClosedConn
        OBVIOUS
      <4>2. conn' = [conn EXCEPT ![c] = k]
        BY <1>8, <3>2, <4>1 DEF Call, Closed, ClosedConn
      <4>3. ConnOK(k) /\ k.phase = "closed"
        BY <4>1, ClosedIs
      <4>4. QED
        BY <4>2, <4>3
    <3>3. QED
      BY <3>1, <3>2
  <2>3. conn'[c] = k /\ \A d \in Conns : d # c => conn'[d] = conn[d]
    BY <1>1, <1>2, <2>2, ConnStep DEF SiteInv
  <2>4. QED
    BY <1>5, <2>1, <2>2, <2>3, AskedStays
<1>9. QED
  BY <1>7, <1>8

LEMMA AskedTransfer ==
  ASSUME SiteInv, Asked, NEW c \in Conns, TransferStep(c) PROVE Asked'
<1>1. PICK k : /\ conn' = [conn EXCEPT ![c] = k] /\ ConnOK(k)
               /\ \/ /\ k.phase \in {"closed", "reading", "request"}
                     /\ transfer' = [transfer EXCEPT ![c] = Files!NoTransfer]
                  \/ /\ k = conn[c]
                     /\ \E n : transfer' = [transfer EXCEPT ![c].offset = n]
  BY TransferStepIs
<1>2. running \in {c, NONE} /\ running' = c
  BY RoomToGoOn DEF TransferStep
<1>3. conn'[c] = k /\ \A d \in Conns : d # c => conn'[d] = conn[d]
  BY <1>1, <1>2, ConnStep DEF SiteInv
<1>4. CASE /\ k.phase \in {"closed", "reading", "request"}
           /\ transfer' = [transfer EXCEPT ![c] = Files!NoTransfer]
  <2>1. k.phase # "sending" /\ \A d \in Conns : d # c => transfer'[d] = transfer[d]
    BY <1>4 DEF SiteInv, TransfersOK
  <2>2. QED
    BY <1>1, <1>2, <2>1, AskedQuiet
<1>5. ASSUME k = conn[c], NEW n, transfer' = [transfer EXCEPT ![c].offset = n] PROVE Asked'
  <2>1. PICK o, t : o = transfer[c] /\ t = [o EXCEPT !.offset = n]
    OBVIOUS
  <2>2. Transferring(o)
    BY <2>1 DEF SiteInv, TransfersOK, TransferOK, Transferring
  <2>3. t.path = o.path
    BY <2>1, <2>2 DEF Transferring
  <2>4. transfer' = [d \in Conns |-> IF d = c THEN t ELSE transfer[d]]
    BY <1>5, <2>1 DEF SiteInv, TransfersOK
  <2>5. \A d \in Conns : conn'[d] = conn[d] /\ transfer'[d].path = transfer[d].path
    BY <1>3, <1>5, <2>1, <2>3, <2>4
  <2>6. QED
    BY <2>5, AskedStays
<1>6. QED
  BY <1>1, <1>4, <1>5

LEMMA AskedNext ==
  ASSUME SiteInv, Asked, PlainRequests, [Next]_vars PROVE Asked'
<1>1. CASE UNCHANGED <<conn, transfer>>
  BY <1>1, AskedStays
<1>2. ASSUME NEW c \in Conns, Accept(c) PROVE Asked'
  <2>1. conn' = [d \in Conns |-> IF d = c THEN [phase |-> "reading", pipeline |-> << >>] ELSE conn[d]]
    BY <1>2 DEF Accept, SiteInv, ConnsOK
  <2>2. transfer' = transfer
    BY <1>2 DEF Accept, filesVars
  <2>3. QED
    BY <2>1, <2>2, AskedStays
<1>3. ASSUME NEW c \in Conns, Read(c) PROVE Asked'
  <2>1. PICK k : conn' = [conn EXCEPT ![c] = k] /\ k.phase # "sending"
    <3>1. CASE conn' = Closed(c)
      <4>1. PICK k : k = ClosedConn
        OBVIOUS
      <4>2. conn' = [conn EXCEPT ![c] = k]
        BY <3>1, <4>1 DEF Closed, ClosedConn
      <4>3. k.phase = "closed"
        BY <4>1, ClosedIs
      <4>4. QED
        BY <4>2, <4>3
    <3>2. CASE conn' # Closed(c)
      BY <1>3, <3>2 DEF Read
    <3>3. QED
      BY <3>1, <3>2
  <2>2. conn' = [d \in Conns |-> IF d = c THEN k ELSE conn[d]]
    BY <2>1 DEF SiteInv, ConnsOK
  <2>3. transfer' = transfer
    BY <1>3 DEF Read, filesVars
  <2>4. QED
    BY <2>1, <2>2, <2>3, AskedStays
<1>4. ASSUME NEW c \in Conns, Process(c) \/ Insert(c) PROVE Asked'
  <2>1. PICK phase \in Phases \ {"closed", "reading", "sending"} :
          /\ InPhase(c, phase) /\ running = c /\ running' = c /\ transfer' = transfer
          /\ conn[c].phase \in {"request", "routed", "copied"}
    BY <1>4 DEF Process, Insert, FindCached, AskRouter, RouterThrows, NotCached, CopyHandler,
                SwapHandlers, filesVars, Phases
  <2>2. conn[c].phase \notin {"closed", "reading"}
    BY <2>1
  <2>3. QED
    BY <2>1, <2>2, AskedInPhase
<1>5. ASSUME NEW c \in Conns, PageEnds(c) PROVE Asked'
  <2>1. PICK k : /\ conn' = [conn EXCEPT ![c] = k] /\ ConnOK(k)
                 /\ k.phase \in {"closed", "reading", "request"}
    BY <1>5, CompletedIs DEF PageEnds, SiteInv
  <2>2. running \in {c, NONE} /\ running' = c /\ transfer' = transfer
    BY <1>5, RoomToGoOn DEF PageEnds, filesVars
  <2>3. k.phase # "sending"
    BY <2>1
  <2>4. QED
    BY <2>1, <2>2, <2>3, AskedQuiet
<1>6. CASE TimerCB
  <2>1. PICK m : transfer' = Files!Disturb(Files!LoadedPaths(manager) \ Files!LoadedPaths(m))
    BY <1>6, Zenon DEF TimerCB, Files!TimerCB
  <2>2. PICK unloaded : unloaded = Files!LoadedPaths(manager) \ Files!LoadedPaths(m)
    OBVIOUS
  <2>3. unloaded \in SUBSET Paths
    BY <2>2 DEF Files!LoadedPaths
  <2>4. \A d \in Conns : transfer'[d].path = transfer[d].path
    BY <2>1, <2>2, <2>3, DisturbKeeps DEF SiteInv
  <2>5. conn' = conn
    BY <1>6 DEF TimerCB
  <2>6. QED
    BY <2>4, <2>5, AskedStays
<1>7. ASSUME NEW c \in Conns, Return(c) PROVE Asked'
  BY <1>1, <1>7 DEF Return, filesVars
<1>8. CASE Unwind
  BY <1>1, <1>8 DEF Unwind
<1>9. ASSUME NEW p \in Volatile, DiskChanges(p) PROVE Asked'
  BY <1>1, <1>9 DEF DiskChanges, Files!DiskChanges
<1>10. CASE UNCHANGED vars
  BY <1>1, <1>10 DEF vars, filesVars
<1>11. QED
  BY <1>2, <1>3, <1>4, <1>5, <1>6, <1>7, <1>8, <1>9, <1>10, AskedCall, AskedTransfer DEF Next

(* What a client is sent is the file of the request it waits for, as long  *)
(* as no two requests have one key and no key is cut by a NUL              *)
(* (cppsp.C:264-284; route_cache.C:21-43).                                 *)
THEOREM SendsTheFileAskedFor ==
  ASSUME PlainRequests PROVE Spec => []SendsWhatIsAsked
<1>1. Init => Asked
  BY InitHolds
<1>2. SiteInv /\ Asked /\ [Next]_vars => Asked'
  BY AskedNext
<1>3. SiteInv /\ Asked => SendsWhatIsAsked
  BY DEF SendsWhatIsAsked, Asked, SiteInv, TransfersOK, TransferOK
<1>4. QED
  BY <1>1, <1>2, <1>3, StackDiscipline, PTL DEF Spec

===============================================================================
