--------------------------- MODULE StaticFilesProofs ---------------------------
(***************************************************************************)
(* Proofs about StaticFiles: its types, the reference counts, the to-free  *)
(* list and the freshness of what is served, for any number of files,      *)
(* connections, handlers and versions.                                     *)
(*                                                                         *)
(* The four depend on each other.  A file that is unloaded is taken off    *)
(* the list through the links of its neighbours, which touches no deleted  *)
(* object only because the list holds loaded files alone; and a reference  *)
(* count is lowered without deleting the file only because the count is    *)
(* exact.  The inductive invariant FilesInv says in addition how old the   *)
(* knowledge of each file is.                                              *)
(***************************************************************************)
EXTENDS StaticFiles, CommonLemmas, FiniteSetTheorems

-----------------------------------------------------------------------------
(***************************************************************************)
(* The inductive invariant.                                                *)
(***************************************************************************)
Managers ==
  [file : [Paths -> FileType], firstToFree : Paths \cup {NONE}, lastToFree : Paths \cup {NONE},
   nLoaded : Nat, capacity : minCapacity..initialCapacity, loadsCounter : Nat,
   requestsCounter : 0..MaxRequests]

Transfers ==
  [path : Paths \cup {NONE}, mapped : BOOLEAN, version : 0..MaxVersion, intact : BOOLEAN,
   offset : Nat]

(* The element of a list of n paths at a position, nullptr beyond its ends.*)
At(s, n, i) == IF i \in 1..n THEN s[i] ELSE NONE

(* s is the to-free list, from the least recently loaded file to the last. *)
Listed(m, s) ==
  LET n == m.nLoaded IN
  /\ \A i, j \in 1..n : s[i] = s[j] => i = j
  /\ \A p \in Paths : IsLoaded(m, p) <=> \E i \in 1..n : s[i] = p
  /\ m.firstToFree = At(s, n, 1)
  /\ m.lastToFree = At(s, n, n)
  /\ \A i \in 1..n : /\ m.file[s[i]].prev = At(s, n, i - 1)
                     /\ m.file[s[i]].next = At(s, n, i + 1)

Linked(m) == \E s \in [1..m.nLoaded -> Paths] : Listed(m, s)

(* A file that is neither loaded nor referenced has been deleted.          *)
Kept(f) == f.refCount = 0 /\ f.loaded \notin {"mapped", "fd"} => f = NoFile

(* What a file says agrees with the disk unless the disk has changed since *)
(* the file was checked.                                                   *)
Checked(f, version, unchanged) ==
  /\ f.loaded \in {"mapped", "fd"} => ~f.exception
  /\ unchanged > f.age =>
       /\ f.loaded \in {"mapped", "fd"} => f.version = version
       /\ f.exception => version = 0

FileOK(f, users, version, unchanged) ==
  f.refCount = users /\ Kept(f) /\ Checked(f, version, unchanged)

ManagerOK(m, users, versions, unchanged) ==
  /\ m \in Managers /\ Linked(m)
  /\ \A p \in Paths : FileOK(m.file[p], users[p], versions[p], unchanged[p])

(* By path, the handlers h and the transfers t that refer to the file.     *)
Count(t, p) == Cardinality({c \in Conns : t[c].path = p})

UsersOf(h, t) == [p \in Paths |-> h[p] + Count(t, p)]

FilesInv ==
  /\ handlers \in [Paths -> 0..MaxHandlers]
  /\ transfer \in [Conns -> Transfers]
  /\ disk \in [Paths -> 0..MaxVersion]
  /\ changed \in [Paths -> 0..RecheckAfter]
  /\ ManagerOK(manager, UsersOf(handlers, transfer), disk, changed)
  /\ FreshEnough

-----------------------------------------------------------------------------
(***************************************************************************)
(* The to-free list.                                                       *)
(***************************************************************************)
(* What two states of the manager have in common when the list is the same.*)
SameList(m, n) ==
  /\ n.nLoaded = m.nLoaded /\ n.firstToFree = m.firstToFree /\ n.lastToFree = m.lastToFree
  /\ \A p \in Paths : /\ IsLoaded(n, p) <=> IsLoaded(m, p)
                      /\ IsLoaded(m, p) => /\ n.file[p].next = m.file[p].next
                                           /\ n.file[p].prev = m.file[p].prev

(* Counting references, requests and seconds leaves the list alone.        *)
LEMMA SameListLinked ==
  ASSUME NEW m \in Managers, NEW n \in Managers, Linked(m), SameList(m, n)
  PROVE  Linked(n)
<1>1. PICK s \in [1..m.nLoaded -> Paths] : Listed(m, s)
  BY DEF Linked
<1>2. \A i \in 1..m.nLoaded : s[i] \in Paths /\ IsLoaded(m, s[i])
  BY <1>1 DEF Listed
<1>3. Listed(n, s)
  BY <1>1, <1>2 DEF Listed, SameList
<1>4. QED
  BY <1>3 DEF Linked, SameList

(* The manager after unload(), field by field.                             *)
Unloaded(m, p, n) ==
  /\ n \in Managers
  /\ n.nLoaded = m.nLoaded - 1 /\ n.capacity = m.capacity
  /\ n.loadsCounter = m.loadsCounter /\ n.requestsCounter = m.requestsCounter
  /\ n.firstToFree = IF p = m.firstToFree THEN m.file[p].next ELSE m.firstToFree
  /\ n.lastToFree = IF p = m.lastToFree THEN m.file[p].prev ELSE m.lastToFree
  /\ n.file[p] = Closed(m.file[p])
  /\ \A q \in Paths \ {p} : n.file[q] = Relinked(m.file[q], q, m.file[p])

(* Two seconds are a positive number of the clock's units.                 *)
LEMMA RecheckPositive == RecheckAfter \in Nat /\ 0 < RecheckAfter
  BY StaticFilesAssumption

(* A new file and a deleted one have the type of a file.                   *)
LEMMA NewFileTyped == NewFile \in FileType /\ NoFile \in FileType
<1>1. 0 \in 0..MaxVersion /\ RecheckAfter \in 0..RecheckAfter /\ 0 \in Nat
  BY StaticFilesAssumption
<1>2. NewFile \in FileType
  BY <1>1 DEF FileType, NewFile
<1>3. QED
  BY <1>2 DEF FileType, NoFile

(* Closing a file and relinking its neighbours keep their types.           *)
LEMMA ClosedTyped ==
  ASSUME NEW f \in FileType
  PROVE  Closed(f) \in FileType /\ Closed(f).loaded \in {"no", "deleted"}
<1>1. NoFile.loaded = "deleted"
  BY DEF NoFile, NewFile
<1>2. QED
  BY <1>1, NewFileTyped DEF Closed, FileType

LEMMA RelinkedTyped ==
  ASSUME NEW f \in FileType, NEW g \in FileType, NEW q
  PROVE  /\ Relinked(g, q, f) \in FileType
         /\ Relinked(g, q, f).next = IF q = f.prev THEN f.next ELSE g.next
         /\ Relinked(g, q, f).prev = IF q = f.next THEN f.prev ELSE g.prev
         /\ Relinked(g, q, f).loaded = g.loaded /\ Relinked(g, q, f).version = g.version
         /\ Relinked(g, q, f).exception = g.exception /\ Relinked(g, q, f).age = g.age
         /\ Relinked(g, q, f).refCount = g.refCount
  BY DEF Relinked, FileType

(* unload() of a file on the list: what it leaves behind.                  *)
LEMMA UnloadEffect ==
  ASSUME NEW m \in Managers, NEW p \in Paths, m.nLoaded > 0
  PROVE  Unloaded(m, p, Unload(m, p))
<1>1. PICK g : g = [q \in Paths |->
                      IF q = p THEN Closed(m.file[p]) ELSE Relinked(m.file[q], q, m.file[p])]
  OBVIOUS
<1>2. PICK n : n = [m EXCEPT !.file = g,
                      !.firstToFree = IF p = m.firstToFree THEN m.file[p].next ELSE m.firstToFree,
                      !.lastToFree = IF p = m.lastToFree THEN m.file[p].prev ELSE m.lastToFree,
                      !.nLoaded = m.nLoaded - 1]
  OBVIOUS
<1>3. Unload(m, p) = n
  BY <1>1, <1>2, Zenon DEF Unload, Closed, Relinked
<1>4. \A q \in Paths : m.file[q] \in FileType
  BY DEF Managers
<1>5. g \in [Paths -> FileType]
  BY <1>1, <1>4, ClosedTyped, RelinkedTyped
<1>6. m.file[p].next \in Paths \cup {NONE} /\ m.file[p].prev \in Paths \cup {NONE}
  BY <1>4 DEF FileType
<1>7. /\ n.file = g /\ n.nLoaded = m.nLoaded - 1 /\ n.capacity = m.capacity
      /\ n.loadsCounter = m.loadsCounter /\ n.requestsCounter = m.requestsCounter
      /\ n.firstToFree = IF p = m.firstToFree THEN m.file[p].next ELSE m.firstToFree
      /\ n.lastToFree = IF p = m.lastToFree THEN m.file[p].prev ELSE m.lastToFree
  BY <1>2 DEF Managers
<1>8. n \in Managers
  <2>1. n = [file |-> n.file, firstToFree |-> n.firstToFree, lastToFree |-> n.lastToFree,
             nLoaded |-> n.nLoaded, capacity |-> n.capacity, loadsCounter |-> n.loadsCounter,
             requestsCounter |-> n.requestsCounter]
    BY <1>2 DEF Managers
  <2>2. n.nLoaded \in Nat /\ n.firstToFree \in Paths \cup {NONE} /\ n.lastToFree \in Paths \cup {NONE}
    BY <1>6, <1>7 DEF Managers
  <2>3. QED
    BY <1>5, <1>7, <2>1, <2>2 DEF Managers
<1>9. QED
  BY <1>1, <1>3, <1>7, <1>8 DEF Unloaded

(* unload() takes the file out of the list, wherever it is in it.          *)
LEMMA UnloadLinked ==
  ASSUME NEW m \in Managers, NEW p \in Paths, Linked(m), IsLoaded(m, p)
  PROVE  m.nLoaded > 0 /\ Linked(Unload(m, p))
<1>1. PICK k \in Nat : k = m.nLoaded
  BY DEF Managers
<1>2. PICK s \in [1..k -> Paths] : Listed(m, s)
  BY <1>1 DEF Linked
<1>3. PICK j \in 1..k : s[j] = p
  BY <1>1, <1>2 DEF Listed
<1>4. k > 0
  BY <1>3
<1>5. PICK n : n = Unload(m, p)
  OBVIOUS
<1>6. PICK t \in [1..(k - 1) -> Paths] : \A i \in 1..(k - 1) : t[i] = IF i < j THEN s[i] ELSE s[i + 1]
  <2>1. [i \in 1..(k - 1) |-> IF i < j THEN s[i] ELSE s[i + 1]] \in [1..(k - 1) -> Paths]
    BY <1>1
  <2>2. QED
    BY <2>1
<1>7. /\ n \in Managers /\ n.nLoaded = k - 1
      /\ n.firstToFree = IF p = m.firstToFree THEN m.file[p].next ELSE m.firstToFree
      /\ n.lastToFree = IF p = m.lastToFree THEN m.file[p].prev ELSE m.lastToFree
      /\ ~IsLoaded(n, p)
      /\ \A q \in Paths \ {p} :
           /\ IsLoaded(n, q) <=> IsLoaded(m, q)
           /\ n.file[q].next = IF q = m.file[p].prev THEN m.file[p].next ELSE m.file[q].next
           /\ n.file[q].prev = IF q = m.file[p].next THEN m.file[p].prev ELSE m.file[q].prev
  <2>1. Unloaded(m, p, n)
    BY <1>1, <1>4, <1>5, UnloadEffect
  <2>2. \A q \in Paths : m.file[q] \in FileType
    BY DEF Managers
  <2>3. ~IsLoaded(n, p)
    BY <2>1, <2>2, ClosedTyped DEF IsLoaded, Unloaded
  <2>4. ASSUME NEW q \in Paths \ {p}
        PROVE  /\ IsLoaded(n, q) <=> IsLoaded(m, q)
               /\ n.file[q].next = IF q = m.file[p].prev THEN m.file[p].next ELSE m.file[q].next
               /\ n.file[q].prev = IF q = m.file[p].next THEN m.file[p].prev ELSE m.file[q].prev
    BY <2>1, <2>2, RelinkedTyped DEF IsLoaded, Unloaded
  <2>5. QED
    BY <1>1, <2>1, <2>3, <2>4 DEF Unloaded
<1>8. /\ \A i, l \in 1..k : s[i] = s[l] => i = l
      /\ \A q \in Paths : IsLoaded(m, q) <=> \E i \in 1..k : s[i] = q
      /\ m.firstToFree = At(s, k, 1) /\ m.lastToFree = At(s, k, k)
      /\ \A i \in 1..k : m.file[s[i]].prev = At(s, k, i - 1) /\ m.file[s[i]].next = At(s, k, i + 1)
  BY <1>1, <1>2 DEF Listed
<1>9. m.file[p].prev = At(s, k, j - 1) /\ m.file[p].next = At(s, k, j + 1)
  BY <1>3, <1>8
<1>10. \A i, l \in 1..(k - 1) : t[i] = t[l] => i = l
  <2>1. ASSUME NEW i \in 1..(k - 1), NEW l \in 1..(k - 1), t[i] = t[l] PROVE i = l
    <3>1. PICK x \in 1..k, y \in 1..k :
            x = (IF i < j THEN i ELSE i + 1) /\ y = (IF l < j THEN l ELSE l + 1)
      OBVIOUS
    <3>2. s[x] = s[y]
      BY <1>6, <2>1, <3>1
    <3>3. x = y
      BY <1>8, <3>2
    <3>4. QED
      BY <3>1, <3>3
  <2>2. QED
    BY <2>1
<1>11. \A q \in Paths : IsLoaded(n, q) <=> \E i \in 1..(k - 1) : t[i] = q
  <2>1. ASSUME NEW q \in Paths, IsLoaded(n, q) PROVE \E i \in 1..(k - 1) : t[i] = q
    <3>1. q # p /\ IsLoaded(m, q)
      BY <1>7, <2>1
    <3>2. PICK i \in 1..k : s[i] = q
      BY <1>8, <3>1
    <3>3. CASE i < j
      BY <1>6, <3>2, <3>3
    <3>4. CASE i > j
      <4>1. i - 1 \in 1..(k - 1) /\ ~(i - 1 < j) /\ (i - 1) + 1 = i
        BY <3>4
      <4>2. t[i - 1] = s[i]
        BY <1>6, <4>1
      <4>3. QED
        BY <3>2, <4>1, <4>2
    <3>5. QED
      BY <1>3, <3>1, <3>2, <3>3, <3>4
  <2>2. ASSUME NEW i \in 1..(k - 1) PROVE IsLoaded(n, t[i])
    <3>1. PICK l \in 1..k : l # j /\ t[i] = s[l]
      <4>1. i \in 1..k /\ i + 1 \in 1..k
        OBVIOUS
      <4>2. QED
        BY <1>6, <4>1
    <3>2. s[l] \in Paths /\ s[l] # p /\ IsLoaded(m, s[l])
      BY <1>3, <1>8, <3>1
    <3>3. QED
      BY <1>7, <3>1, <3>2
  <2>3. QED
    BY <2>1, <2>2
<1>12. n.firstToFree = At(t, k - 1, 1)
  BY <1>3, <1>4, <1>6, <1>7, <1>8, <1>9, StaticFilesAssumption DEF At
<1>13. n.lastToFree = At(t, k - 1, k - 1)
  BY <1>3, <1>4, <1>6, <1>7, <1>8, <1>9, StaticFilesAssumption DEF At
<1>14. ASSUME NEW i \in 1..(k - 1)
       PROVE  /\ n.file[t[i]].prev = At(t, k - 1, i - 1)
              /\ n.file[t[i]].next = At(t, k - 1, i + 1)
  <2>1. PICK l \in 1..k : l = (IF i < j THEN i ELSE i + 1)
    OBVIOUS
  <2>2. t[i] = s[l] /\ l # j
    BY <1>6, <2>1
  <2>3. s[l] \in Paths \ {p}
    BY <1>3, <1>8, <2>2
  <2>4. m.file[s[l]].prev = At(s, k, l - 1) /\ m.file[s[l]].next = At(s, k, l + 1)
    BY <1>8
  <2>5. /\ n.file[s[l]].next = IF s[l] = At(s, k, j - 1) THEN At(s, k, j + 1) ELSE At(s, k, l + 1)
        /\ n.file[s[l]].prev = IF s[l] = At(s, k, j + 1) THEN At(s, k, j - 1) ELSE At(s, k, l - 1)
    BY <1>7, <1>9, <2>3, <2>4
  <2>6. s[l] = At(s, k, j - 1) <=> l = j - 1
    BY <1>8, <2>3, StaticFilesAssumption DEF At
  <2>7. s[l] = At(s, k, j + 1) <=> l = j + 1
    BY <1>8, <2>3, StaticFilesAssumption DEF At
  <2>8. n.file[s[l]].next = At(t, k - 1, i + 1)
    <3>1. CASE i < j - 1
      BY <1>6, <2>1, <2>5, <2>6, <3>1 DEF At
    <3>2. CASE i = j - 1
      BY <1>6, <2>1, <2>5, <2>6, <3>2 DEF At
    <3>3. CASE i >= j
      BY <1>6, <2>1, <2>5, <2>6, <3>3 DEF At
    <3>4. QED
      BY <3>1, <3>2, <3>3
  <2>9. n.file[s[l]].prev = At(t, k - 1, i - 1)
    <3>1. CASE i < j
      BY <1>6, <2>1, <2>5, <2>7, <3>1 DEF At
    <3>2. CASE i = j
      BY <1>6, <2>1, <2>5, <2>7, <3>2 DEF At
    <3>3. CASE i > j
      BY <1>6, <2>1, <2>5, <2>7, <3>3 DEF At
    <3>4. QED
      BY <3>1, <3>2, <3>3
  <2>10. QED
    BY <2>2, <2>8, <2>9
<1>15. Listed(n, t)
  BY <1>7, <1>10, <1>11, <1>12, <1>13, <1>14 DEF Listed
<1>16. QED
  BY <1>1, <1>4, <1>5, <1>7, <1>15 DEF Linked

(* The neighbours of a file on the list, and the last file, are loaded.    *)
LEMMA NeighboursLoaded ==
  ASSUME NEW m \in Managers, Linked(m)
  PROVE  /\ \A p \in Paths : IsLoaded(m, p) =>
              /\ m.file[p].next \in Paths => IsLoaded(m, m.file[p].next)
              /\ m.file[p].prev \in Paths => IsLoaded(m, m.file[p].prev)
         /\ m.firstToFree \in Paths => IsLoaded(m, m.firstToFree)
         /\ m.lastToFree \in Paths => IsLoaded(m, m.lastToFree)
<1>1. PICK k \in Nat : k = m.nLoaded
  BY DEF Managers
<1>2. PICK s \in [1..k -> Paths] : Listed(m, s)
  BY <1>1 DEF Linked
<1>3. /\ \A q \in Paths : IsLoaded(m, q) <=> \E i \in 1..k : s[i] = q
      /\ m.firstToFree = At(s, k, 1) /\ m.lastToFree = At(s, k, k)
      /\ \A i \in 1..k : m.file[s[i]].prev = At(s, k, i - 1) /\ m.file[s[i]].next = At(s, k, i + 1)
  BY <1>1, <1>2 DEF Listed
<1>4. \A i : At(s, k, i) \in Paths => IsLoaded(m, At(s, k, i))
  <2>1. ASSUME NEW i, At(s, k, i) \in Paths PROVE IsLoaded(m, At(s, k, i))
    <3>1. i \in 1..k /\ At(s, k, i) = s[i]
      BY <2>1, StaticFilesAssumption DEF At
    <3>2. QED
      BY <1>3, <2>1, <3>1
  <2>2. QED
    BY <2>1
<1>5. ASSUME NEW p \in Paths, IsLoaded(m, p)
      PROVE  /\ m.file[p].next \in Paths => IsLoaded(m, m.file[p].next)
             /\ m.file[p].prev \in Paths => IsLoaded(m, m.file[p].prev)
  <2>1. PICK i \in 1..k : s[i] = p
    BY <1>3, <1>5
  <2>2. m.file[p].prev = At(s, k, i - 1) /\ m.file[p].next = At(s, k, i + 1)
    BY <1>3, <2>1
  <2>3. QED
    BY <1>4, <2>2
<1>6. QED
  BY <1>3, <1>4, <1>5

(* What load() makes of a file that can be opened.                         *)
Opened(f, p, version, last) ==
  [f EXCEPT !.loaded = OpenedAs(p, version), !.version = version, !.exception = FALSE,
            !.age = 0, !.prev = last, !.next = NONE]

FollowedBy(f, p) == [f EXCEPT !.next = p]

(* The manager after load() of such a file, field by field.                *)
LoadedTo(m, p, n) ==
  /\ n \in Managers
  /\ n.nLoaded = m.nLoaded + 1 /\ n.capacity = m.capacity
  /\ n.requestsCounter = m.requestsCounter
  /\ n.firstToFree = IF m.firstToFree = NONE THEN p ELSE m.firstToFree
  /\ n.lastToFree = p
  /\ n.file[p] = Opened(m.file[p], p, disk[p], m.lastToFree)
  /\ \A q \in Paths \ {p} :
       n.file[q] = IF q = m.lastToFree THEN FollowedBy(m.file[q], p) ELSE m.file[q]

IsOpened(g, f, v, l) ==
  /\ g \in FileType /\ g.loaded \in {"mapped", "fd"} /\ g.version = v /\ ~g.exception
  /\ g.age = 0 /\ g.prev = l /\ g.next = NONE /\ g.refCount = f.refCount

(* A file that is opened, and one that is followed by it, keep their type. *)
LEMMA OpenedTyped ==
  ASSUME NEW f \in FileType, NEW p \in Paths, NEW v \in 1..MaxVersion, NEW l \in Paths \cup {NONE}
  PROVE  IsOpened(Opened(f, p, v, l), f, v, l)
<1>1. OpenedAs(p, v) \in {"mapped", "fd"}
  BY DEF OpenedAs
<1>2. v \in 0..MaxVersion /\ 0 \in 0..RecheckAfter
  BY StaticFilesAssumption
<1>3. PICK g : g = Opened(f, p, v, l)
  OBVIOUS
<1>4. IsOpened(g, f, v, l)
  BY <1>1, <1>2, <1>3 DEF Opened, FileType, IsOpened
<1>5. QED
  BY <1>3, <1>4

LEMMA FollowedTyped ==
  ASSUME NEW f \in FileType, NEW p \in Paths
  PROVE  LET g == FollowedBy(f, p) IN
         /\ g \in FileType /\ g.next = p /\ g.prev = f.prev /\ g.loaded = f.loaded
         /\ g.version = f.version /\ g.exception = f.exception /\ g.age = f.age
         /\ g.refCount = f.refCount
  BY DEF FileType, FollowedBy

(* load() of a file that can be opened: what it leaves behind.             *)
LEMMA LoadEffect ==
  ASSUME NEW m \in Managers, NEW p \in Paths, disk[p] \in 1..MaxVersion
  PROVE  LoadedTo(m, p, Load(m, p))
<1>1. PICK v \in 1..MaxVersion : v = disk[p]
  OBVIOUS
<1>2. v # 0
  BY StaticFilesAssumption
<1>3. PICK g : g = [q \in Paths |->
                      CASE q = p -> Opened(m.file[p], p, v, m.lastToFree)
                        [] q # p /\ q = m.lastToFree -> FollowedBy(m.file[q], p)
                        [] OTHER -> m.file[q]]
  OBVIOUS
<1>4. PICK n : n = [m EXCEPT !.file = g,
                      !.firstToFree = IF m.firstToFree = NONE THEN p ELSE m.firstToFree,
                      !.lastToFree = p,
                      !.nLoaded = m.nLoaded + 1,
                      !.loadsCounter = m.loadsCounter + 1]
  OBVIOUS
<1>5. Load(m, p) = n
  BY <1>1, <1>2, <1>3, <1>4, Zenon DEF Load, Opened, FollowedBy
<1>6. \A q \in Paths : m.file[q] \in FileType
  BY DEF Managers
<1>7. \A q \in Paths :
        g[q] = IF q = p THEN Opened(m.file[p], p, v, m.lastToFree)
               ELSE IF q = m.lastToFree THEN FollowedBy(m.file[q], p) ELSE m.file[q]
  BY <1>3
<1>8. m.lastToFree \in Paths \cup {NONE}
  BY DEF Managers
<1>9. g \in [Paths -> FileType]
  <2>1. ASSUME NEW q \in Paths PROVE g[q] \in FileType
    <3>1. Opened(m.file[p], p, v, m.lastToFree) \in FileType
      BY <1>6, <1>8, OpenedTyped DEF IsOpened
    <3>2. FollowedBy(m.file[q], p) \in FileType
      BY <1>6, FollowedTyped
    <3>3. QED
      BY <1>6, <1>7, <3>1, <3>2
  <2>2. QED
    BY <1>3, <2>1
<1>10. /\ n.file = g /\ n.nLoaded = m.nLoaded + 1 /\ n.capacity = m.capacity
       /\ n.loadsCounter = m.loadsCounter + 1 /\ n.requestsCounter = m.requestsCounter
       /\ n.firstToFree = IF m.firstToFree = NONE THEN p ELSE m.firstToFree
       /\ n.lastToFree = p
  BY <1>4 DEF Managers
<1>11. n \in Managers
  <2>1. n = [file |-> n.file, firstToFree |-> n.firstToFree, lastToFree |-> n.lastToFree,
             nLoaded |-> n.nLoaded, capacity |-> n.capacity, loadsCounter |-> n.loadsCounter,
             requestsCounter |-> n.requestsCounter]
    BY <1>4 DEF Managers
  <2>2. /\ n.nLoaded \in Nat /\ n.loadsCounter \in Nat
        /\ n.firstToFree \in Paths \cup {NONE} /\ n.lastToFree \in Paths \cup {NONE}
    BY <1>10 DEF Managers
  <2>3. QED
    BY <1>9, <1>10, <2>1, <2>2 DEF Managers
<1>12. QED
  BY <1>1, <1>5, <1>7, <1>9, <1>10, <1>11 DEF LoadedTo

(* load() appends the file to the list.                                    *)
LEMMA LoadLinked ==
  ASSUME NEW m \in Managers, NEW p \in Paths, Linked(m), ~IsLoaded(m, p), disk[p] \in 1..MaxVersion
  PROVE  Linked(Load(m, p))
<1>1. PICK k \in Nat : k = m.nLoaded
  BY DEF Managers
<1>2. PICK s \in [1..k -> Paths] : Listed(m, s)
  BY <1>1 DEF Linked
<1>3. PICK n : n = Load(m, p)
  OBVIOUS
<1>4. PICK t \in [1..(k + 1) -> Paths] : \A i \in 1..(k + 1) : t[i] = IF i <= k THEN s[i] ELSE p
  <2>1. [i \in 1..(k + 1) |-> IF i <= k THEN s[i] ELSE p] \in [1..(k + 1) -> Paths]
    BY <1>1
  <2>2. QED
    BY <2>1
<1>5. LoadedTo(m, p, n)
  BY <1>3, LoadEffect
<1>6. /\ \A i, l \in 1..k : s[i] = s[l] => i = l
      /\ \A q \in Paths : IsLoaded(m, q) <=> \E i \in 1..k : s[i] = q
      /\ m.firstToFree = At(s, k, 1) /\ m.lastToFree = At(s, k, k)
      /\ \A i \in 1..k : m.file[s[i]].prev = At(s, k, i - 1) /\ m.file[s[i]].next = At(s, k, i + 1)
  BY <1>1, <1>2 DEF Listed
<1>7. \A i \in 1..k : s[i] \in Paths \ {p}
  BY <1>6
<1>8. /\ IsLoaded(n, p) /\ n.file[p].prev = m.lastToFree /\ n.file[p].next = NONE
      /\ \A q \in Paths \ {p} :
           /\ IsLoaded(n, q) <=> IsLoaded(m, q)
           /\ n.file[q].prev = m.file[q].prev
           /\ n.file[q].next = IF q = m.lastToFree THEN p ELSE m.file[q].next
  <2>1. \A q \in Paths : m.file[q] \in FileType
    BY DEF Managers
  <2>2. m.lastToFree \in Paths \cup {NONE}
    BY DEF Managers
  <2>3. IsLoaded(n, p) /\ n.file[p].prev = m.lastToFree /\ n.file[p].next = NONE
    <3>1. PICK g : g = Opened(m.file[p], p, disk[p], m.lastToFree)
      OBVIOUS
    <3>2. g.loaded \in {"mapped", "fd"} /\ g.prev = m.lastToFree /\ g.next = NONE
      BY <2>1, <2>2, <3>1, OpenedTyped DEF IsOpened
    <3>3. n.file[p] = g
      BY <1>5, <3>1 DEF LoadedTo
    <3>4. QED
      BY <3>2, <3>3 DEF IsLoaded
  <2>4. ASSUME NEW q \in Paths \ {p}
        PROVE  /\ IsLoaded(n, q) <=> IsLoaded(m, q)
               /\ n.file[q].prev = m.file[q].prev
               /\ n.file[q].next = IF q = m.lastToFree THEN p ELSE m.file[q].next
    <3>1. PICK g : g = FollowedBy(m.file[q], p)
      OBVIOUS
    <3>2. g.next = p /\ g.prev = m.file[q].prev /\ g.loaded = m.file[q].loaded
      BY <2>1, <3>1, FollowedTyped
    <3>3. n.file[q] = IF q = m.lastToFree THEN g ELSE m.file[q]
      BY <1>5, <3>1 DEF LoadedTo
    <3>4. QED
      BY <3>2, <3>3 DEF IsLoaded
  <2>5. QED
    BY <2>3, <2>4
<1>9. \A i, l \in 1..(k + 1) : t[i] = t[l] => i = l
  <2>1. ASSUME NEW i \in 1..(k + 1), NEW l \in 1..(k + 1), t[i] = t[l] PROVE i = l
    BY <1>4, <1>6, <1>7, <2>1
  <2>2. QED
    BY <2>1
<1>10. \A q \in Paths : IsLoaded(n, q) <=> \E i \in 1..(k + 1) : t[i] = q
  <2>1. t[k + 1] = p
    BY <1>4
  <2>2. ASSUME NEW q \in Paths \ {p} PROVE IsLoaded(n, q) <=> \E i \in 1..(k + 1) : t[i] = q
    BY <1>4, <1>6, <1>8
  <2>3. QED
    BY <1>8, <2>1, <2>2
<1>11. n.firstToFree = At(t, k + 1, 1) /\ n.lastToFree = At(t, k + 1, k + 1)
  <2>1. m.firstToFree = NONE <=> k = 0
    BY <1>6, <1>7, StaticFilesAssumption DEF At
  <2>2. t[1] = n.firstToFree
    BY <1>4, <1>5, <1>6, <2>1 DEF LoadedTo, At
  <2>3. t[k + 1] = p
    BY <1>4
  <2>4. QED
    BY <1>5, <2>2, <2>3 DEF LoadedTo, At
<1>12. ASSUME NEW i \in 1..(k + 1)
       PROVE  /\ n.file[t[i]].prev = At(t, k + 1, i - 1)
              /\ n.file[t[i]].next = At(t, k + 1, i + 1)
  <2>1. CASE i = k + 1
    BY <1>4, <1>6, <1>8, <2>1 DEF At
  <2>2. CASE i < k
    <3>1. s[i] # m.lastToFree /\ t[i] = s[i]
      BY <1>4, <1>6, <2>2 DEF At
    <3>2. QED
      BY <1>4, <1>6, <1>7, <1>8, <2>2, <3>1 DEF At
  <2>3. CASE i = k
    <3>1. s[i] = m.lastToFree /\ t[i] = s[i] /\ t[i + 1] = p
      BY <1>4, <1>6, <2>3 DEF At
    <3>2. QED
      BY <1>4, <1>6, <1>7, <1>8, <2>3, <3>1 DEF At
  <2>4. QED
    BY <2>1, <2>2, <2>3
<1>13. n.nLoaded = k + 1
  BY <1>1, <1>5 DEF LoadedTo
<1>14. Listed(n, t)
  BY <1>9, <1>10, <1>11, <1>12, <1>13 DEF Listed
<1>15. QED
  BY <1>1, <1>3, <1>13, <1>14 DEF Linked

-----------------------------------------------------------------------------
(***************************************************************************)
(* What the operations of the manager do to the files.                     *)
(***************************************************************************)
(* The manager after one file, and nothing else, has become f.             *)
OneChanged(m, p, f, n) ==
  /\ n \in Managers
  /\ n.nLoaded = m.nLoaded /\ n.firstToFree = m.firstToFree /\ n.lastToFree = m.lastToFree
  /\ n.capacity = m.capacity /\ n.requestsCounter = m.requestsCounter
  /\ n.file[p] = f
  /\ \A q \in Paths \ {p} : n.file[q] = m.file[q]

LEMMA ChangeEffect ==
  ASSUME NEW m \in Managers, NEW p \in Paths, NEW f \in FileType
  PROVE  OneChanged(m, p, f, [m EXCEPT !.file[p] = f])
<1>1. PICK n : n = [m EXCEPT !.file[p] = f]
  OBVIOUS
<1>2. n \in Managers
  BY <1>1 DEF Managers
<1>3. QED
  BY <1>1, <1>2 DEF OneChanged, Managers

(* f and g are alike on the list.                                          *)
SameLinks(f, g) ==
  /\ f.loaded \in {"mapped", "fd"} <=> g.loaded \in {"mapped", "fd"}
  /\ f.loaded \in {"mapped", "fd"} => f.next = g.next /\ f.prev = g.prev

(* A change of one file that keeps its links keeps the whole in order, if  *)
(* the file itself is.                                                     *)
LEMMA ChangeOK ==
  ASSUME NEW m, NEW u \in [Paths -> Nat], NEW d, NEW c, ManagerOK(m, u, d, c),
         NEW p \in Paths, NEW f \in FileType, NEW k \in Nat,
         SameLinks(m.file[p], f), FileOK(f, k, d[p], c[p])
  PROVE  ManagerOK([m EXCEPT !.file[p] = f], [u EXCEPT ![p] = k], d, c)
<1>1. PICK n : n = [m EXCEPT !.file[p] = f]
  OBVIOUS
<1>2. OneChanged(m, p, f, n)
  BY <1>1, ChangeEffect DEF ManagerOK
<1>3. ASSUME NEW q \in Paths
      PROVE  /\ IsLoaded(n, q) <=> IsLoaded(m, q)
             /\ IsLoaded(m, q) => n.file[q].next = m.file[q].next /\ n.file[q].prev = m.file[q].prev
  <2>1. CASE q = p
    BY <1>2, <2>1 DEF OneChanged, SameLinks, IsLoaded
  <2>2. CASE q # p
    BY <1>2, <2>2 DEF OneChanged, IsLoaded
  <2>3. QED
    BY <2>1, <2>2
<1>4. SameList(m, n)
  BY <1>2, <1>3 DEF SameList, OneChanged
<1>5. n \in Managers /\ Linked(n)
  BY <1>2, <1>4, SameListLinked DEF ManagerOK, OneChanged
<1>6. PICK w : w = [u EXCEPT ![p] = k]
  OBVIOUS
<1>7. \A q \in Paths : FileOK(n.file[q], w[q], d[q], c[q])
  BY <1>2, <1>6 DEF ManagerOK, OneChanged
<1>8. QED
  BY <1>1, <1>5, <1>6, <1>7 DEF ManagerOK

(* The counters of requests and of loads have no part in it, nor has the   *)
(* capacity.                                                               *)
LEMMA CountersOK ==
  ASSUME NEW m, NEW n \in Managers, NEW u, NEW d, NEW c, ManagerOK(m, u, d, c),
         n.file = m.file, n.nLoaded = m.nLoaded,
         n.firstToFree = m.firstToFree, n.lastToFree = m.lastToFree
  PROVE  ManagerOK(n, u, d, c)
<1>1. SameList(m, n)
  BY DEF SameList, IsLoaded
<1>2. QED
  BY <1>1, SameListLinked DEF ManagerOK

(* unload() keeps the files beside the one it unloads in order: a deleted  *)
(* file is no neighbour.                                                   *)
LEMMA UnloadOthers ==
  ASSUME NEW m \in Managers, Linked(m), NEW p \in Paths, IsLoaded(m, p),
         NEW q \in Paths \ {p}, NEW k, NEW v, NEW a, FileOK(m.file[q], k, v, a)
  PROVE  FileOK(Unload(m, p).file[q], k, v, a)
<1>1. PICK f : f = m.file[p]
  OBVIOUS
<1>2. PICK g : g = m.file[q]
  OBVIOUS
<1>3. PICK h : h = Relinked(g, q, f)
  OBVIOUS
<1>4. Unload(m, p).file[q] = h
  BY <1>1, <1>2, <1>3, UnloadLinked, UnloadEffect DEF Unloaded
<1>5. f \in FileType /\ g \in FileType
  BY <1>1, <1>2 DEF Managers
<1>6. /\ h \in FileType
      /\ h.next = (IF q = f.prev THEN f.next ELSE g.next) /\ h.prev = (IF q = f.next THEN f.prev ELSE g.prev)
      /\ h.loaded = g.loaded /\ h.version = g.version /\ h.exception = g.exception
      /\ h.age = g.age /\ h.refCount = g.refCount
  BY <1>3, <1>5, RelinkedTyped
<1>7. ASSUME g.loaded \notin {"mapped", "fd"} PROVE h = g
  <2>1. q # f.prev /\ q # f.next
    BY <1>1, <1>2, <1>7, NeighboursLoaded DEF IsLoaded
  <2>2. h.next = g.next /\ h.prev = g.prev
    BY <1>6, <2>1
  <2>3. QED
    BY <1>5, <1>6, <2>2 DEF FileType
<1>8. Kept(h)
  BY <1>2, <1>6, <1>7 DEF FileOK, Kept
<1>9. Checked(h, v, a)
  BY <1>2, <1>6 DEF FileOK, Checked
<1>10. QED
  BY <1>2, <1>4, <1>6, <1>8, <1>9 DEF FileOK

(* And so does load().                                                     *)
LEMMA LoadOthers ==
  ASSUME NEW m \in Managers, Linked(m), NEW p \in Paths, disk[p] \in 1..MaxVersion,
         NEW q \in Paths \ {p}, NEW k, NEW v, NEW a, FileOK(m.file[q], k, v, a)
  PROVE  FileOK(Load(m, p).file[q], k, v, a)
<1>1. PICK g : g = m.file[q]
  OBVIOUS
<1>2. PICK h : h = FollowedBy(g, p)
  OBVIOUS
<1>3. Load(m, p).file[q] = IF q = m.lastToFree THEN h ELSE g
  BY <1>1, <1>2, LoadEffect DEF LoadedTo
<1>4. g \in FileType
  BY <1>1 DEF Managers
<1>5. /\ h.loaded = g.loaded /\ h.version = g.version /\ h.exception = g.exception
      /\ h.age = g.age /\ h.refCount = g.refCount
  BY <1>2, <1>4, FollowedTyped
<1>6. CASE q = m.lastToFree
  <2>1. g.loaded \in {"mapped", "fd"}
    BY <1>1, <1>6, NeighboursLoaded DEF IsLoaded
  <2>2. QED
    BY <1>1, <1>3, <1>5, <1>6, <2>1 DEF FileOK, Kept, Checked
<1>7. CASE q # m.lastToFree
  BY <1>1, <1>3, <1>7
<1>8. QED
  BY <1>6, <1>7

(* A loaded file can be unloaded at any time, referenced or not.           *)
LEMMA UnloadOK ==
  ASSUME NEW m, NEW u \in [Paths -> Nat], NEW d, NEW c \in [Paths -> 0..RecheckAfter], ManagerOK(m, u, d, c),
         NEW p \in Paths, IsLoaded(m, p)
  PROVE  ManagerOK(Unload(m, p), u, d, c)
<1>1. PICK n : n = Unload(m, p)
  OBVIOUS
<1>2. PICK f : f = m.file[p]
  OBVIOUS
<1>3. m.nLoaded > 0 /\ Linked(n)
  BY <1>1, UnloadLinked DEF ManagerOK
<1>4. n \in Managers /\ n.file[p] = Closed(f)
  BY <1>1, <1>2, <1>3, UnloadEffect DEF Unloaded, ManagerOK
<1>5. f \in FileType
  BY <1>2 DEF Managers, ManagerOK
<1>6. FileOK(f, u[p], d[p], c[p]) /\ f.loaded \in {"mapped", "fd"}
  BY <1>2 DEF ManagerOK, IsLoaded
<1>7. FileOK(Closed(f), u[p], d[p], c[p])
  <2>1. CASE f.refCount = 0
    <3>1. /\ NoFile.refCount = 0 /\ NoFile.loaded = "deleted" /\ NoFile.age = RecheckAfter
          /\ NoFile.exception = FALSE
      BY DEF NoFile, NewFile
    <3>2. Closed(f) = NoFile
      BY <2>1 DEF Closed
    <3>3. ~(c[p] > RecheckAfter)
      BY RecheckPositive
    <3>4. QED
      BY <1>6, <2>1, <3>1, <3>2, <3>3 DEF FileOK, Kept, Checked
  <2>2. CASE f.refCount # 0
    <3>1. PICK g : g = [f EXCEPT !.loaded = "no"]
      OBVIOUS
    <3>2. g.refCount = f.refCount /\ g.loaded = "no" /\ g.exception = f.exception /\ g.age = f.age
      BY <1>5, <3>1 DEF FileType
    <3>3. Closed(f) = g
      BY <2>2, <3>1 DEF Closed
    <3>4. QED
      BY <1>6, <2>2, <3>2, <3>3 DEF FileOK, Kept, Checked
  <2>3. QED
    BY <2>1, <2>2
<1>8. ASSUME NEW q \in Paths \ {p} PROVE FileOK(n.file[q], u[q], d[q], c[q])
  BY <1>1, UnloadOthers DEF ManagerOK
<1>9. QED
  BY <1>1, <1>2, <1>3, <1>4, <1>7, <1>8 DEF ManagerOK

(* A reference is counted.                                                 *)
LEMMA ReferencedOK ==
  ASSUME NEW m, NEW u \in [Paths -> Nat], NEW d, NEW c \in [Paths -> 0..RecheckAfter], ManagerOK(m, u, d, c),
         NEW p \in Paths
  PROVE  ManagerOK(Referenced(m, p), [u EXCEPT ![p] = u[p] + 1], d, c)
<1>1. PICK f : f = IF m.file[p] = NoFile THEN NewFile ELSE m.file[p]
  OBVIOUS
<1>2. PICK g : g = [f EXCEPT !.refCount = f.refCount + 1]
  OBVIOUS
<1>3. Referenced(m, p) = [m EXCEPT !.file[p] = g]
  BY <1>1, <1>2, Zenon DEF Referenced
<1>4. m.file[p] \in FileType /\ FileOK(m.file[p], u[p], d[p], c[p])
  BY DEF ManagerOK, Managers
<1>5. f \in FileType /\ f.refCount = u[p]
  <2>1. NoFile.refCount = NewFile.refCount
    BY DEF NoFile, NewFile
  <2>2. QED
    BY <1>1, <1>4, <2>1, NewFileTyped DEF FileOK
<1>6. Checked(f, d[p], c[p])
  <2>1. NewFile.loaded = "no" /\ NewFile.age = RecheckAfter /\ ~(c[p] > RecheckAfter)
    BY RecheckPositive DEF NewFile
  <2>2. Checked(NewFile, d[p], c[p])
    BY <2>1 DEF Checked
  <2>3. QED
    BY <1>1, <1>4, <2>2 DEF FileOK
<1>7. SameLinks(m.file[p], f)
  <2>1. NewFile.loaded = "no" /\ NoFile.loaded = "deleted"
    BY DEF NewFile, NoFile
  <2>2. QED
    BY <1>1, <2>1 DEF SameLinks
<1>8. /\ g \in FileType /\ g.refCount = u[p] + 1 /\ g.loaded = f.loaded /\ g.next = f.next
      /\ g.prev = f.prev /\ g.age = f.age /\ g.exception = f.exception /\ g.version = f.version
  BY <1>2, <1>5 DEF FileType
<1>9. SameLinks(m.file[p], g)
  BY <1>7, <1>8 DEF SameLinks
<1>10. FileOK(g, u[p] + 1, d[p], c[p])
  <2>1. g.refCount # 0
    BY <1>8
  <2>2. QED
    BY <1>6, <1>8, <2>1 DEF FileOK, Kept, Checked
<1>11. QED
  <2>1. PICK k \in Nat : k = u[p] + 1
    OBVIOUS
  <2>2. ManagerOK([m EXCEPT !.file[p] = g], [u EXCEPT ![p] = k], d, c)
    BY <1>8, <1>9, <1>10, <2>1, ChangeOK
  <2>3. QED
    BY <1>3, <2>1, <2>2

(* A reference is dropped: the last one to an unloaded file deletes it.    *)
LEMMA UnrefOK ==
  ASSUME NEW m, NEW u \in [Paths -> Nat], NEW d, NEW c \in [Paths -> 0..RecheckAfter], ManagerOK(m, u, d, c),
         NEW p \in Paths, u[p] > 0
  PROVE  ManagerOK(Unref(m, p), [u EXCEPT ![p] = u[p] - 1], d, c)
<1>1. PICK f : f = m.file[p]
  OBVIOUS
<1>2. PICK g : g = [f EXCEPT !.refCount = f.refCount - 1]
  OBVIOUS
<1>3. PICK h : h = IF f.refCount = 1 /\ ~IsLoaded(m, p) THEN NoFile ELSE g
  OBVIOUS
<1>4. Unref(m, p) = [m EXCEPT !.file[p] = h]
  BY <1>1, <1>2, <1>3, Zenon DEF Unref
<1>5. f \in FileType /\ FileOK(f, u[p], d[p], c[p]) /\ f.refCount = u[p]
  BY <1>1 DEF ManagerOK, Managers, FileOK
<1>6. /\ g \in FileType /\ g.refCount = u[p] - 1 /\ g.loaded = f.loaded /\ g.next = f.next
      /\ g.prev = f.prev /\ g.age = f.age /\ g.exception = f.exception /\ g.version = f.version
  BY <1>2, <1>5 DEF FileType
<1>7. CASE f.refCount = 1 /\ ~IsLoaded(m, p)
  <2>1. NoFile.loaded = "deleted" /\ NoFile.age = RecheckAfter /\ ~(c[p] > RecheckAfter) /\ NoFile.refCount = 0
    BY RecheckPositive DEF NoFile, NewFile
  <2>2. SameLinks(f, NoFile)
    BY <1>1, <1>7, <2>1 DEF SameLinks, IsLoaded
  <2>3. FileOK(NoFile, u[p] - 1, d[p], c[p])
    BY <1>5, <1>7, <2>1 DEF FileOK, Kept, Checked
  <2>4. h = NoFile /\ u[p] - 1 \in Nat
    BY <1>3, <1>7
  <2>5. ManagerOK([m EXCEPT !.file[p] = NoFile], [u EXCEPT ![p] = u[p] - 1], d, c)
    BY <1>1, <2>2, <2>3, <2>4, NewFileTyped, ChangeOK
  <2>6. QED
    BY <1>4, <2>4, <2>5
<1>8. CASE ~(f.refCount = 1 /\ ~IsLoaded(m, p))
  <2>1. h = g
    BY <1>3, <1>8
  <2>2. SameLinks(f, g)
    BY <1>6 DEF SameLinks
  <2>3. Kept(g)
    BY <1>1, <1>5, <1>6, <1>8 DEF Kept, IsLoaded
  <2>4. FileOK(g, u[p] - 1, d[p], c[p])
    BY <1>5, <1>6, <2>3 DEF FileOK, Checked
  <2>5. u[p] - 1 \in Nat
    OBVIOUS
  <2>6. ManagerOK([m EXCEPT !.file[p] = g], [u EXCEPT ![p] = u[p] - 1], d, c)
    BY <1>1, <1>6, <2>2, <2>4, <2>5, ChangeOK
  <2>7. QED
    BY <1>4, <2>1, <2>6
<1>9. QED
  BY <1>7, <1>8

(* load(): what is known of the file is the state of the disk, of this     *)
(* very second.                                                            *)
LEMMA LoadOK ==
  ASSUME NEW m \in Managers, Linked(m), NEW p \in Paths, ~IsLoaded(m, p),
         m.file[p].refCount # 0, disk[p] \in 0..MaxVersion,
         NEW u, NEW c \in [Paths -> 0..RecheckAfter], u[p] = m.file[p].refCount,
         \A q \in Paths \ {p} : FileOK(m.file[q], u[q], disk[q], c[q])
  PROVE  LET n == Load(m, p) IN
         /\ ManagerOK(n, u, disk, c) /\ n.file[p].age = 0 /\ n.requestsCounter = m.requestsCounter
<1>1. PICK f : f = m.file[p]
  OBVIOUS
<1>2. PICK n : n = Load(m, p)
  OBVIOUS
<1>3. f \in FileType /\ f.refCount = u[p] /\ f.refCount # 0 /\ f.loaded \notin {"mapped", "fd"}
  BY <1>1 DEF Managers, IsLoaded
<1>4. CASE disk[p] = 0
  <2>1. PICK g : g = [f EXCEPT !.age = 0, !.exception = TRUE]
    OBVIOUS
  <2>2. n = [m EXCEPT !.file[p] = g]
    <3>1. n = [m EXCEPT !.file[p].age = 0, !.file[p].exception = TRUE]
      BY <1>2, <1>4 DEF Load
    <3>2. [m EXCEPT !.file[p].age = 0, !.file[p].exception = TRUE] = [m EXCEPT !.file[p] = g]
      BY <1>1, <2>1 DEF Managers, FileType
    <3>3. QED
      BY <3>1, <3>2
  <2>3. /\ g \in FileType /\ g.refCount = f.refCount /\ g.loaded = f.loaded /\ g.age = 0
        /\ g.exception = TRUE
    <3>1. 0 \in 0..RecheckAfter
      BY StaticFilesAssumption
    <3>2. QED
      BY <1>3, <2>1, <3>1 DEF FileType
  <2>4. OneChanged(m, p, g, n)
    BY <2>2, <2>3, ChangeEffect
  <2>5. SameList(m, n)
    <3>1. ASSUME NEW q \in Paths
          PROVE  /\ IsLoaded(n, q) <=> IsLoaded(m, q)
                 /\ IsLoaded(m, q) => n.file[q].next = m.file[q].next /\ n.file[q].prev = m.file[q].prev
      <4>1. CASE q = p
        BY <1>1, <1>3, <2>3, <2>4, <4>1 DEF OneChanged, IsLoaded
      <4>2. CASE q # p
        BY <2>4, <4>2 DEF OneChanged, IsLoaded
      <4>3. QED
        BY <4>1, <4>2
    <3>2. QED
      BY <2>4, <3>1 DEF SameList, OneChanged
  <2>6. n \in Managers /\ Linked(n)
    BY <2>4, <2>5, SameListLinked DEF OneChanged
  <2>7. FileOK(g, u[p], disk[p], c[p])
    BY <1>3, <1>4, <2>3 DEF FileOK, Kept, Checked
  <2>8. \A q \in Paths : FileOK(n.file[q], u[q], disk[q], c[q])
    BY <2>4, <2>7 DEF OneChanged
  <2>9. QED
    BY <1>2, <2>3, <2>4, <2>6, <2>8 DEF ManagerOK, OneChanged
<1>5. CASE disk[p] \in 1..MaxVersion
  <2>1. PICK g : g = Opened(f, p, disk[p], m.lastToFree)
    OBVIOUS
  <2>2. LoadedTo(m, p, n)
    BY <1>2, <1>5, LoadEffect
  <2>3. Linked(n)
    BY <1>2, <1>5, LoadLinked
  <2>4. m.lastToFree \in Paths \cup {NONE}
    BY DEF Managers
  <2>5. /\ g.loaded \in {"mapped", "fd"} /\ g.version = disk[p] /\ ~g.exception
        /\ g.age = 0 /\ g.refCount = f.refCount
    <3>1. PICK v \in 1..MaxVersion : v = disk[p]
      BY <1>5
    <3>2. IsOpened(g, f, v, m.lastToFree)
      BY <1>3, <2>1, <2>4, <3>1, OpenedTyped
    <3>3. QED
      BY <3>1, <3>2 DEF IsOpened
  <2>6. FileOK(g, u[p], disk[p], c[p])
    BY <1>3, <2>5 DEF FileOK, Kept, Checked
  <2>7. ASSUME NEW q \in Paths \ {p} PROVE FileOK(n.file[q], u[q], disk[q], c[q])
    BY <1>2, <1>5, LoadOthers
  <2>8. n.file[p] = g
    BY <1>1, <2>1, <2>2 DEF LoadedTo
  <2>9. \A q \in Paths : FileOK(n.file[q], u[q], disk[q], c[q])
    BY <2>6, <2>7, <2>8
  <2>10. QED
    BY <1>2, <2>2, <2>3, <2>5, <2>8, <2>9 DEF ManagerOK, LoadedTo
<1>6. disk[p] = 0 \/ disk[p] \in 1..MaxVersion
  BY StaticFilesAssumption
<1>7. QED
  BY <1>4, <1>5, <1>6

(* reloadIfStale(): afterwards the file has been checked less than two     *)
(* seconds ago.                                                            *)
LEMMA ReloadOK ==
  ASSUME NEW m, NEW u \in [Paths -> Nat], NEW c \in [Paths -> 0..RecheckAfter], ManagerOK(m, u, disk, c),
         disk \in [Paths -> 0..MaxVersion], NEW p \in Paths, u[p] > 0
  PROVE  LET n == ReloadIfStale(m, p) IN
         /\ ManagerOK(n, u, disk, c) /\ n.file[p].age < RecheckAfter /\ n.requestsCounter = m.requestsCounter
<1>1. PICK f : f = m.file[p]
  OBVIOUS
<1>2. f \in FileType /\ m \in Managers /\ Linked(m) /\ FileOK(f, u[p], disk[p], c[p])
  BY <1>1 DEF ManagerOK, Managers
<1>3. f.refCount = u[p] /\ f.refCount # 0
  BY <1>2 DEF FileOK
<1>4. PICK m1 : m1 = [m EXCEPT !.file[p].age = 0]
  OBVIOUS
<1>5. PICK g : g = [f EXCEPT !.age = 0]
  OBVIOUS
<1>6. m1 = [m EXCEPT !.file[p] = g]
  BY <1>1, <1>4, <1>5 DEF Managers, FileType
<1>7. PICK m2 : m2 = [m1 EXCEPT !.file[p].exception = TRUE]
  OBVIOUS
<1>8. PICK h : h = [g EXCEPT !.exception = TRUE]
  OBVIOUS
<1>9. m2 = [m EXCEPT !.file[p] = h]
  BY <1>2, <1>5, <1>6, <1>7, <1>8 DEF Managers, FileType
<1>10. 0 \in 0..RecheckAfter
  BY StaticFilesAssumption
<1>11. /\ g \in FileType /\ g.refCount = f.refCount /\ g.loaded = f.loaded /\ g.next = f.next
       /\ g.prev = f.prev /\ g.age = 0 /\ g.exception = f.exception /\ g.version = f.version
  BY <1>2, <1>5, <1>10 DEF FileType
<1>12. /\ h \in FileType /\ h.refCount = f.refCount /\ h.loaded = f.loaded /\ h.next = f.next
       /\ h.prev = f.prev /\ h.age = 0 /\ h.exception = TRUE
  BY <1>8, <1>11 DEF FileType
<1>13. SameLinks(f, g) /\ SameLinks(f, h)
  BY <1>11, <1>12 DEF SameLinks
<1>14. CASE ~Stale(m, p)
  BY <1>1, <1>2, <1>14, RecheckPositive DEF ReloadIfStale, Stale, FileType
<1>15. CASE Stale(m, p) /\ ~IsLoaded(m, p)
  <2>1. ReloadIfStale(m, p) = Load(m, p)
    BY <1>15, Zenon DEF ReloadIfStale
  <2>2. QED
    BY <1>1, <1>2, <1>3, <1>15, <2>1, LoadOK, RecheckPositive DEF ManagerOK
<1>16. ASSUME Stale(m, p), IsLoaded(m, p), NEW o \in {m1, m2}
       PROVE  LET n == Unload(o, p) IN
              /\ n \in Managers /\ Linked(n) /\ ~IsLoaded(n, p)
              /\ \A q \in Paths \ {p} : FileOK(n.file[q], u[q], disk[q], c[q])
              /\ n.file[p] = [o.file[p] EXCEPT !.loaded = "no"]
              /\ n.requestsCounter = m.requestsCounter
  <2>1. PICK e \in {g, h} : OneChanged(m, p, e, o) /\ SameLinks(f, e)
    BY <1>2, <1>6, <1>9, <1>11, <1>12, <1>13, <1>16, ChangeEffect
  <2>2. e.refCount = f.refCount /\ e.loaded = f.loaded /\ e \in FileType
    BY <1>11, <1>12
  <2>3. ASSUME NEW q \in Paths
        PROVE  /\ IsLoaded(o, q) <=> IsLoaded(m, q)
               /\ IsLoaded(m, q) => o.file[q].next = m.file[q].next /\ o.file[q].prev = m.file[q].prev
    <3>1. CASE q = p
      BY <1>1, <2>1, <3>1 DEF OneChanged, IsLoaded, SameLinks
    <3>2. CASE q # p
      BY <2>1, <3>2 DEF OneChanged, IsLoaded
    <3>3. QED
      BY <3>1, <3>2
  <2>4. SameList(m, o)
    BY <2>1, <2>3 DEF SameList, OneChanged
  <2>5. o \in Managers /\ Linked(o) /\ IsLoaded(o, p)
    BY <1>2, <1>16, <2>1, <2>3, <2>4, SameListLinked DEF OneChanged
  <2>6. o.nLoaded > 0 /\ Linked(Unload(o, p))
    BY <2>5, UnloadLinked
  <2>7. Unloaded(o, p, Unload(o, p))
    BY <2>5, <2>6, UnloadEffect
  <2>8. ASSUME NEW q \in Paths \ {p} PROVE FileOK(Unload(o, p).file[q], u[q], disk[q], c[q])
    <3>1. FileOK(o.file[q], u[q], disk[q], c[q])
      BY <2>1 DEF ManagerOK, OneChanged
    <3>2. QED
      BY <2>5, <3>1, UnloadOthers
  <2>9. o.file[p] = e
    BY <2>1 DEF OneChanged
  <2>10. Closed(e) = [e EXCEPT !.loaded = "no"]
    BY <1>3, <2>2 DEF Closed
  <2>11. ~IsLoaded(Unload(o, p), p)
    BY <2>2, <2>7, <2>9, ClosedTyped DEF Unloaded, IsLoaded
  <2>12. QED
    BY <2>1, <2>6, <2>7, <2>8, <2>9, <2>10, <2>11 DEF Unloaded, OneChanged
<1>17. m1.file[p] = g /\ m2.file[p] = h
  BY <1>2, <1>6, <1>9 DEF Managers
<1>18. CASE Stale(m, p) /\ IsLoaded(m, p) /\ disk[p] = 0
  <2>1. ReloadIfStale(m, p) = Unload(m2, p)
    BY <1>4, <1>7, <1>18, Zenon DEF ReloadIfStale
  <2>2. PICK n : n = Unload(m2, p)
    OBVIOUS
  <2>3. PICK e : e = [h EXCEPT !.loaded = "no"]
    OBVIOUS
  <2>4. /\ n \in Managers /\ Linked(n) /\ n.file[p] = e /\ n.requestsCounter = m.requestsCounter
        /\ \A q \in Paths \ {p} : FileOK(n.file[q], u[q], disk[q], c[q])
    BY <1>16, <1>17, <1>18, <2>2, <2>3
  <2>5. e.refCount = f.refCount /\ e.loaded = "no" /\ e.age = 0
    BY <1>12, <2>3 DEF FileType
  <2>6. FileOK(e, u[p], disk[p], c[p])
    BY <1>3, <1>18, <2>5 DEF FileOK, Kept, Checked
  <2>7. \A q \in Paths : FileOK(n.file[q], u[q], disk[q], c[q])
    BY <2>4, <2>6
  <2>8. QED
    BY <2>1, RecheckPositive, <2>2, <2>4, <2>5, <2>7 DEF ManagerOK
<1>19. CASE Stale(m, p) /\ IsLoaded(m, p) /\ disk[p] # 0 /\ disk[p] # m.file[p].version
  <2>1. ReloadIfStale(m, p) = Load(Unload(m1, p), p)
    BY <1>4, <1>19, Zenon DEF ReloadIfStale
  <2>2. PICK n : n = Unload(m1, p)
    OBVIOUS
  <2>3. PICK e : e = [g EXCEPT !.loaded = "no"]
    OBVIOUS
  <2>4. /\ n \in Managers /\ Linked(n) /\ n.file[p] = e /\ n.requestsCounter = m.requestsCounter
        /\ \A q \in Paths \ {p} : FileOK(n.file[q], u[q], disk[q], c[q])
        /\ ~IsLoaded(n, p)
    BY <1>16, <1>17, <1>19, <2>2, <2>3
  <2>5. e.refCount = f.refCount
    BY <1>11, <2>3 DEF FileType
  <2>6. n.file[p].refCount # 0 /\ u[p] = n.file[p].refCount /\ disk[p] \in 0..MaxVersion
    BY <1>3, <2>4, <2>5
  <2>7. LET o == Load(n, p) IN
        ManagerOK(o, u, disk, c) /\ o.file[p].age = 0 /\ o.requestsCounter = n.requestsCounter
    BY <2>4, <2>6, LoadOK
  <2>8. QED
    BY <2>1, RecheckPositive, <2>2, <2>4, <2>7
<1>20. CASE Stale(m, p) /\ IsLoaded(m, p) /\ disk[p] # 0 /\ disk[p] = m.file[p].version
  <2>1. ReloadIfStale(m, p) = m1
    BY <1>4, <1>20, Zenon DEF ReloadIfStale
  <2>2. FileOK(g, u[p], disk[p], c[p])
    BY <1>1, <1>2, <1>3, <1>11, <1>20 DEF FileOK, Kept, Checked, IsLoaded
  <2>3. ManagerOK(m1, [u EXCEPT ![p] = u[p]], disk, c)
    BY <1>1, <1>6, <1>11, <1>13, <2>2, ChangeOK
  <2>4. [u EXCEPT ![p] = u[p]] = u
    OBVIOUS
  <2>5. m1.requestsCounter = m.requestsCounter
    BY <1>2, <1>6 DEF Managers
  <2>6. ManagerOK(m1, u, disk, c)
    BY <2>3, <2>4
  <2>7. m1.file[p].age < RecheckAfter
    BY <1>11, <1>17, RecheckPositive
  <2>8. QED
    BY <2>1, <2>5, <2>6, <2>7
<1>21. QED
  BY <1>14, <1>15, <1>18, <1>19, <1>20

(* pop() keeps the files in order.                                         *)
LEMMA PopOK ==
  ASSUME NEW m, NEW u \in [Paths -> Nat], NEW d, NEW c \in [Paths -> 0..RecheckAfter], ManagerOK(m, u, d, c)
  PROVE  ManagerOK(Pop(m), u, d, c)
<1>1. CASE m.firstToFree = NONE
  BY <1>1 DEF Pop
<1>2. CASE m.firstToFree # NONE
  <2>1. PICK p \in Paths : p = m.firstToFree
    BY <1>2 DEF ManagerOK, Managers
  <2>2. IsLoaded(m, p)
    BY <2>1, NeighboursLoaded DEF ManagerOK
  <2>3. ManagerOK(Unload(m, p), u, d, c)
    BY <2>2, UnloadOK
  <2>4. QED
    BY <1>2, <2>1, <2>3 DEF Pop
<1>3. QED
  BY <1>1, <1>2

(* The capacity shrinks towards its minimum, never below it.               *)
LEMMA ShrunkTyped ==
  ASSUME NEW capacity \in minCapacity..initialCapacity
  PROVE  Shrunk(capacity) \in minCapacity..initialCapacity
<1>1. PICK a \in Nat, b \in Nat \ {0}, l \in Nat, h \in Nat :
        a = capacity /\ b = capacityStep /\ l = minCapacity /\ h = initialCapacity /\ a <= h /\ l <= h
  BY StaticFilesAssumption
<1>2. PICK k : k = a \div b
  OBVIOUS
<1>3. k \in 0..a
  BY <1>1, <1>2
<1>4. PICK S \in SUBSET Nat : S = {a - k, l}
  <2>1. a - k \in Nat
    BY <1>3
  <2>2. {a - k, l} \in SUBSET Nat
    BY <1>1, <2>1
  <2>3. QED
    BY <2>2
<1>5. S # {} /\ \A x \in S : x <= h
  BY <1>1, <1>3, <1>4
<1>6. Max(S) \in S /\ \A x \in S : x <= Max(S)
  BY <1>5, MaxOfBounded
<1>7. Max(S) \in l..h
  BY <1>1, <1>4, <1>5, <1>6
<1>8. Shrunk(capacity) = Max(S)
  BY <1>1, <1>2, <1>4 DEF Shrunk
<1>9. QED
  BY <1>1, <1>7, <1>8

(* One round of the loop of timerCB(), and f as its first n rounds.        *)
Round(m) == IF m.nLoaded <= m.capacity THEN m ELSE Pop(m)

Rounds(f, n, start) ==
  f = [i \in 0..n |-> IF i = 0 THEN start
                      ELSE IF f[i - 1].nLoaded <= f[i - 1].capacity THEN f[i - 1]
                      ELSE Pop(f[i - 1])]

(* What n rounds do is defined for every n.                                *)
LEMMA RoundsExtend ==
  ASSUME NEW n \in Nat, NEW start, NEW f, Rounds(f, n, start)
  PROVE  \E g : Rounds(g, n + 1, start)
<1>1. PICK top : top = Round(f[n])
  OBVIOUS
<1>2. PICK g : g = [i \in 0..(n + 1) |-> IF i <= n THEN f[i] ELSE top]
  OBVIOUS
<1>3. ASSUME NEW i \in 0..n
      PROVE  f[i] = IF i = 0 THEN start
                    ELSE IF f[i - 1].nLoaded <= f[i - 1].capacity THEN f[i - 1]
                    ELSE Pop(f[i - 1])
  BY Zenon DEF Rounds
<1>4. ASSUME NEW i \in 0..(n + 1)
      PROVE  g[i] = IF i = 0 THEN start
                    ELSE IF g[i - 1].nLoaded <= g[i - 1].capacity THEN g[i - 1]
                    ELSE Pop(g[i - 1])
  <2>1. CASE i = 0
    <3>1. g[i] = f[i] /\ f[i] = start
      BY <1>2, <1>3, <2>1
    <3>2. QED
      BY <2>1, <3>1
  <2>2. CASE i \in 1..n
    <3>1. g[i] = f[i] /\ g[i - 1] = f[i - 1] /\ i \in 0..n /\ i # 0
      BY <1>2, <2>2
    <3>2. QED
      BY <1>3, <3>1
  <2>3. CASE i = n + 1
    <3>1. g[i] = top /\ g[i - 1] = f[n] /\ i # 0
      BY <1>2, <2>3
    <3>2. QED
      BY <1>1, <3>1 DEF Round
  <2>4. QED
    BY <2>1, <2>2, <2>3
<1>5. PICK h : h = [i \in 0..(n + 1) |-> IF i = 0 THEN start
                      ELSE IF g[i - 1].nLoaded <= g[i - 1].capacity THEN g[i - 1]
                      ELSE Pop(g[i - 1])]
  OBVIOUS
<1>6. g = h
  <2>1. \A i \in 0..(n + 1) : g[i] = h[i]
    BY <1>4, <1>5
  <2>2. QED
    BY <1>2, <1>5, <2>1
<1>7. QED
  BY <1>5, <1>6 DEF Rounds

LEMMA RoundsExist ==
  ASSUME NEW n \in Nat, NEW start
  PROVE  \E f : Rounds(f, n, start)
<1> DEFINE Missing == {k \in Nat : ~ \E f : Rounds(f, k, start)}
<1>1. SUFFICES ASSUME Missing # {} PROVE FALSE
  OBVIOUS
<1>2. PICK k \in Missing : \A l \in Missing : k <= l
  BY <1>1, LeastOfNat
<1>3. k # 0
  <2>1. PICK f : f = [i \in 0..0 |-> start]
    OBVIOUS
  <2>2. Rounds(f, 0, start)
    BY <2>1 DEF Rounds
  <2>3. QED
    BY <1>2, <2>2
<1>4. PICK l \in Nat : l + 1 = k /\ l \notin Missing
  <2>1. k - 1 \in Nat /\ (k - 1) + 1 = k /\ ~(k <= k - 1)
    BY <1>2, <1>3
  <2>2. QED
    BY <1>2, <2>1
<1>5. \E f : Rounds(f, k, start)
  BY <1>4, RoundsExtend
<1>6. QED
  BY <1>2, <1>5

(* Every round leaves the files in order.                                  *)
LEMMA RoundsOK ==
  ASSUME NEW u \in [Paths -> Nat], NEW d, NEW c \in [Paths -> 0..RecheckAfter],
         NEW start, ManagerOK(start, u, d, c), NEW n \in Nat, NEW f, Rounds(f, n, start)
  PROVE  ManagerOK(f[n], u, d, c)
<1> DEFINE Wrong == {k \in Nat : k <= n /\ ~ManagerOK(f[k], u, d, c)}
<1>1. SUFFICES ASSUME Wrong # {} PROVE FALSE
  OBVIOUS
<1>2. PICK k \in Wrong : \A l \in Wrong : k <= l
  BY <1>1, LeastOfNat
<1>3. ASSUME NEW i \in 0..n
      PROVE  f[i] = IF i = 0 THEN start
                    ELSE IF f[i - 1].nLoaded <= f[i - 1].capacity THEN f[i - 1]
                    ELSE Pop(f[i - 1])
  BY Zenon DEF Rounds
<1>4. k # 0
  BY <1>2, <1>3
<1>5. PICK l \in Nat : l = k - 1 /\ ManagerOK(f[l], u, d, c)
  <2>1. k - 1 \in Nat /\ ~(k <= k - 1) /\ k - 1 <= n
    BY <1>2, <1>4
  <2>2. k - 1 \notin Wrong
    BY <1>2, <2>1
  <2>3. QED
    BY <2>1, <2>2
<1>6. ManagerOK(Pop(f[l]), u, d, c)
  BY <1>5, PopOK
<1>7. f[k] = f[l] \/ f[k] = Pop(f[l])
  BY <1>2, <1>3, <1>4, <1>5
<1>8. QED
  BY <1>2, <1>5, <1>6, <1>7

(* timerCB() evicts loaded files from the front of the list, referenced or *)
(* not.                                                                    *)
LEMMA PurgeOK ==
  ASSUME NEW m, NEW u \in [Paths -> Nat], NEW d, NEW c \in [Paths -> 0..RecheckAfter], ManagerOK(m, u, d, c)
  PROVE  ManagerOK(Purge(m), u, d, c)
<1> DEFINE start == [m EXCEPT !.capacity = Shrunk(m.capacity)]
           after == CHOOSE f : Rounds(f, maxPurgePerCycle, start)
<1>1. Purge(m) = IF m.loadsCounter * targetCacheHitRatio <= m.requestsCounter
                 THEN after[maxPurgePerCycle] ELSE m
  BY Zenon DEF Purge, Rounds
<1>2. start \in Managers /\ start.file = m.file /\ start.nLoaded = m.nLoaded
      /\ start.firstToFree = m.firstToFree /\ start.lastToFree = m.lastToFree
  <2>1. Shrunk(m.capacity) \in minCapacity..initialCapacity
    BY ShrunkTyped DEF ManagerOK, Managers
  <2>2. QED
    BY <2>1 DEF ManagerOK, Managers
<1>3. maxPurgePerCycle \in Nat
  BY StaticFilesAssumption
<1>4. Rounds(after, maxPurgePerCycle, start)
  BY <1>3, RoundsExist
<1> HIDE DEF start, after
<1>5. ManagerOK(start, u, d, c)
  BY <1>2, CountersOK
<1>6. ManagerOK(after[maxPurgePerCycle], u, d, c)
  BY <1>3, <1>4, <1>5, RoundsOK
<1>7. QED
  BY <1>1, <1>6

(* A distance that grows by d, up to RecheckAfter.                         *)
LEMMA LaterIs ==
  ASSUME NEW a \in 0..RecheckAfter, NEW d \in Nat
  PROVE  /\ Later(a, d) \in 0..RecheckAfter
         /\ Later(a, d) = IF a + d < RecheckAfter THEN a + d ELSE RecheckAfter
<1>1. PICK R \in Nat, x \in Nat : R = RecheckAfter /\ x = a + d
  BY StaticFilesAssumption
<1>2. PICK m \in {x, R} : m = Min({x, R}) /\ m <= x /\ m <= R
  BY MinOfNat
<1>3. m = IF x < R THEN x ELSE R
  BY <1>2
<1>4. Later(a, d) = m
  BY <1>1, <1>2 DEF Later
<1>5. QED
  BY <1>1, <1>3, <1>4

(* The clock is read again, k units later: what is known of a file ages as *)
(* much as the disk's last change.                                         *)
LEMMA OlderOK ==
  ASSUME NEW m, NEW u \in [Paths -> Nat], NEW d, NEW c \in [Paths -> 0..RecheckAfter], ManagerOK(m, u, d, c),
         NEW k \in Nat, NEW n, n = [m EXCEPT !.file = [p \in Paths |-> Older(m.file[p], k)]]
  PROVE  ManagerOK(n, u, d, [p \in Paths |-> Later(c[p], k)])
<1>1. ASSUME NEW f \in FileType, NEW g, g = Older(f, k), NEW i, NEW v,
             NEW a \in 0..RecheckAfter, NEW b, b = Later(a, k), FileOK(f, i, v, a)
      PROVE  g \in FileType /\ FileOK(g, i, v, b) /\ SameLinks(f, g)
  <2>1. PICK R \in Nat : R = RecheckAfter
    BY StaticFilesAssumption
  <2>2. b \in 0..R /\ b = IF a + k < R THEN a + k ELSE R
    BY <1>1, <2>1, LaterIs
  <2>3. CASE f = NoFile
    <3>1. g = f /\ f.age = R
      BY <1>1, <2>1, <2>3 DEF Older, NoFile, NewFile
    <3>2. ~(b > g.age)
      BY <2>2, <3>1
    <3>3. QED
      BY <1>1, <3>1, <3>2 DEF FileOK, Checked, SameLinks
  <2>4. CASE f # NoFile
    <3>1. f.age \in 0..R
      BY <2>1 DEF FileType
    <3>2. PICK h : h = Later(f.age, k)
      OBVIOUS
    <3>3. h \in 0..RecheckAfter /\ h = IF f.age + k < R THEN f.age + k ELSE R
      BY <2>1, <3>1, <3>2, LaterIs
    <3>4. g = [f EXCEPT !.age = h]
      BY <1>1, <2>4, <3>2 DEF Older
    <3>5. /\ g \in FileType /\ g.refCount = f.refCount /\ g.loaded = f.loaded /\ g.next = f.next
          /\ g.prev = f.prev /\ g.age = h /\ g.exception = f.exception
          /\ g.version = f.version
      BY <3>3, <3>4 DEF FileType
    <3>6. b > h => a > f.age
      BY <1>1, <2>1, <2>2, <3>1, <3>3
    <3>7. QED
      BY <1>1, <2>4, <3>5, <3>6 DEF FileOK, Kept, Checked, SameLinks
  <2>5. QED
    BY <2>3, <2>4
<1>2. PICK e : e = [p \in Paths |-> Later(c[p], k)]
  OBVIOUS
<1>3. m \in Managers /\ n.file = [p \in Paths |-> Older(m.file[p], k)]
      /\ n.nLoaded = m.nLoaded /\ n.firstToFree = m.firstToFree /\ n.lastToFree = m.lastToFree
  BY DEF ManagerOK, Managers
<1>4. ASSUME NEW p \in Paths
      PROVE  /\ n.file[p] \in FileType /\ FileOK(n.file[p], u[p], d[p], e[p])
             /\ SameLinks(m.file[p], n.file[p])
  <2>1. m.file[p] \in FileType /\ FileOK(m.file[p], u[p], d[p], c[p])
    BY DEF ManagerOK, Managers
  <2>2. n.file[p] = Older(m.file[p], k)
    BY <1>3
  <2>3. c[p] \in 0..RecheckAfter /\ e[p] = Later(c[p], k)
    BY <1>2
  <2>4. QED
    BY <1>1, <2>1, <2>2, <2>3
<1>5. n.file \in [Paths -> FileType]
  BY <1>3, <1>4
<1>6. n \in Managers
  BY <1>3, <1>5 DEF Managers
<1>7. SameList(m, n)
  BY <1>3, <1>4 DEF SameList, SameLinks, IsLoaded
<1>8. QED
  BY <1>2, <1>3, <1>4, <1>6, <1>7, SameListLinked DEF ManagerOK

-----------------------------------------------------------------------------
(***************************************************************************)
(* The transfers that refer to a file.                                     *)
(***************************************************************************)
LEMMA CountTyped ==
  ASSUME NEW t, NEW p
  PROVE  Count(t, p) \in Nat
<1>1. {c \in Conns : t[c].path = p} \subseteq Conns
  OBVIOUS
<1>2. IsFiniteSet({c \in Conns : t[c].path = p})
  BY <1>1, FS_Subset, StaticFilesAssumption
<1>3. QED
  BY <1>2, FS_CardinalityType DEF Count

(* The transfers w are t and one more, of c for p.                         *)
Begins(t, w, c, p) ==
  t[c].path = NONE /\ w[c].path = p /\ \A x \in Conns \ {c} : w[x].path = t[x].path

LEMMA OneMore ==
  ASSUME NEW t, NEW w, NEW c \in Conns, NEW p \in Paths, Begins(t, w, c, p)
  PROVE  Count(w, p) = Count(t, p) + 1 /\ \A q \in Paths \ {p} : Count(w, q) = Count(t, q)
<1>1. NONE \notin Paths
  BY StaticFilesAssumption
<1>2. PICK S : S = {x \in Conns : t[x].path = p}
  OBVIOUS
<1>3. {x \in Conns : w[x].path = p} = S \cup {c}
  BY <1>2 DEF Begins
<1>4. c \notin S
  BY <1>1, <1>2 DEF Begins
<1>5. IsFiniteSet(S)
  BY <1>2, FS_Subset, StaticFilesAssumption
<1>6. Cardinality(S \cup {c}) = Cardinality(S) + 1
  BY <1>4, <1>5, FS_AddElement
<1>7. ASSUME NEW q \in Paths \ {p} PROVE Count(w, q) = Count(t, q)
  <2>1. {x \in Conns : w[x].path = q} = {x \in Conns : t[x].path = q}
    BY <1>1 DEF Begins
  <2>2. QED
    BY <2>1 DEF Count
<1>8. QED
  BY <1>2, <1>3, <1>6, <1>7 DEF Count

LEMMA NoneMore ==
  ASSUME NEW t, NEW w, \A x \in Conns : w[x].path = t[x].path, NEW p
  PROVE  Count(w, p) = Count(t, p)
<1>1. {x \in Conns : w[x].path = p} = {x \in Conns : t[x].path = p}
  OBVIOUS
<1>2. QED
  BY <1>1 DEF Count

LEMMA UsersTyped ==
  ASSUME NEW h \in [Paths -> 0..MaxHandlers], NEW t
  PROVE  UsersOf(h, t) \in [Paths -> Nat] /\ \A p \in Paths : UsersOf(h, t)[p] >= h[p]
<1>1. \A p \in Paths : Count(t, p) \in Nat /\ h[p] \in Nat
  BY CountTyped, StaticFilesAssumption
<1>2. QED
  BY <1>1 DEF UsersOf

Plus(f, p, i) == [f EXCEPT ![p] = f[p] + i]

(* One handler or transfer more or less changes the count of one file.     *)
LEMMA UsersHandlers ==
  ASSUME NEW h \in [Paths -> 0..MaxHandlers], NEW t, NEW p \in Paths, NEW i \in {1, -1},
         h[p] + i \in 0..MaxHandlers
  PROVE  UsersOf(Plus(h, p, i), t) = Plus(UsersOf(h, t), p, i)
<1>1. PICK g : g = [h EXCEPT ![p] = h[p] + i]
  OBVIOUS
<1>2. PICK u : u = UsersOf(h, t)
  OBVIOUS
<1>3. PICK w : w = [u EXCEPT ![p] = u[p] + i]
  OBVIOUS
<1>4. ASSUME NEW q \in Paths PROVE g[q] + Count(t, q) = w[q]
  <2>1. Count(t, q) \in Nat /\ h[q] \in Nat
    BY CountTyped, StaticFilesAssumption
  <2>2. u[q] = h[q] + Count(t, q)
    BY <1>2 DEF UsersOf
  <2>3. u \in [Paths -> Nat]
    BY <1>2, UsersTyped
  <2>4. QED
    BY <1>1, <1>3, <2>1, <2>2, <2>3
<1>5. w = [q \in Paths |-> w[q]]
  BY <1>2, <1>3 DEF UsersOf
<1>6. UsersOf(g, t) = w
  BY <1>4, <1>5 DEF UsersOf
<1>7. QED
  BY <1>1, <1>2, <1>3, <1>6 DEF Plus

LEMMA UsersBegin ==
  ASSUME NEW h \in [Paths -> 0..MaxHandlers], NEW t, NEW w, NEW c \in Conns, NEW p \in Paths,
         Begins(t, w, c, p)
  PROVE  /\ UsersOf(h, w) = Plus(UsersOf(h, t), p, 1)
         /\ UsersOf(h, t) = Plus(UsersOf(h, w), p, -1)
         /\ UsersOf(h, w)[p] > 0
<1>1. Count(w, p) = Count(t, p) + 1 /\ \A q \in Paths \ {p} : Count(w, q) = Count(t, q)
  BY OneMore
<1>2. PICK u : u = UsersOf(h, t)
  OBVIOUS
<1>3. PICK v : v = UsersOf(h, w)
  OBVIOUS
<1>4. u \in [Paths -> Nat] /\ v \in [Paths -> Nat]
  BY <1>2, <1>3, UsersTyped
<1>5. Count(t, p) \in Nat /\ h[p] \in Nat
  BY CountTyped, StaticFilesAssumption
<1>6. v[p] = u[p] + 1 /\ \A q \in Paths \ {p} : v[q] = u[q]
  BY <1>1, <1>2, <1>3, <1>5 DEF UsersOf
<1>7. v = Plus(u, p, 1) /\ u = Plus(v, p, -1) /\ v[p] > 0
  BY <1>4, <1>6 DEF Plus
<1>8. QED
  BY <1>2, <1>3, <1>7

LEMMA UsersSame ==
  ASSUME NEW h, NEW t, NEW w, \A x \in Conns : w[x].path = t[x].path
  PROVE  UsersOf(h, w) = UsersOf(h, t)
<1>1. \A p \in Paths : Count(w, p) = Count(t, p)
  BY NoneMore
<1>2. QED
  BY <1>1 DEF UsersOf

(* Closing files changes no transfer's path.                               *)
LEMMA DisturbTyped ==
  ASSUME transfer \in [Conns -> Transfers], NEW S
  PROVE  Disturb(S) \in [Conns -> Transfers] /\ \A c \in Conns : Disturb(S)[c].path = transfer[c].path
<1>1. ASSUME NEW c \in Conns, NEW t \in Transfers, t = transfer[c],
             NEW w, w = [t EXCEPT !.intact = FALSE]
      PROVE  w \in Transfers /\ w.path = t.path
  BY <1>1 DEF Transfers
<1>2. QED
  BY <1>1 DEF Disturb

-----------------------------------------------------------------------------
(***************************************************************************)
(* FilesInv is inductive.                                                  *)
(***************************************************************************)
LEMMA FilesInvInit == Init => FilesInv
<1> SUFFICES ASSUME Init PROVE FilesInv
  OBVIOUS
<1>1. /\ handlers \in [Paths -> 0..MaxHandlers] /\ disk \in [Paths -> 0..MaxVersion]
      /\ changed \in [Paths -> 0..RecheckAfter]
  <2>1. 0 \in 0..MaxHandlers /\ 0..1 \subseteq 0..MaxVersion /\ RecheckAfter \in 0..RecheckAfter
    BY StaticFilesAssumption
  <2>2. QED
    BY <2>1 DEF Init
<1>2. NoTransfer \in Transfers /\ NoTransfer.path = NONE
  <2>1. 0 \in 0..MaxVersion /\ 0 \in Nat
    BY StaticFilesAssumption
  <2>2. QED
    BY <2>1 DEF Transfers, NoTransfer
<1>3. transfer \in [Conns -> Transfers]
  BY <1>2 DEF Init
<1>4. \A p \in Paths : UsersOf(handlers, transfer)[p] = 0
  <2>1. ASSUME NEW p \in Paths PROVE Count(transfer, p) = 0
    <3>1. {c \in Conns : transfer[c].path = p} = {}
      BY <1>2, StaticFilesAssumption DEF Init
    <3>2. QED
      BY <3>1, FS_EmptySet DEF Count
  <2>2. QED
    BY <2>1 DEF Init, UsersOf
<1>5. manager \in Managers /\ manager.nLoaded = 0 /\ manager.firstToFree = NONE
      /\ manager.lastToFree = NONE /\ \A p \in Paths : manager.file[p] = NoFile
  <2>1. /\ initialCapacity \in minCapacity..initialCapacity /\ 0 \in 0..MaxRequests /\ 0 \in Nat
    BY StaticFilesAssumption
  <2>2. QED
    BY <2>1, NewFileTyped DEF Init, Managers
<1>6. /\ NoFile.loaded = "deleted" /\ NoFile.refCount = 0 /\ NoFile.age = RecheckAfter
  BY DEF NoFile, NewFile
<1>7. Linked(manager)
  <2>1. PICK s \in [1..0 -> Paths] : TRUE
    <3>1. [i \in 1..0 |-> NONE] \in [1..0 -> Paths]
      OBVIOUS
    <3>2. QED
      BY <3>1
  <2>2. \A p \in Paths : ~IsLoaded(manager, p)
    BY <1>5, <1>6 DEF IsLoaded
  <2>3. At(s, 0, 0) = NONE /\ At(s, 0, 1) = NONE
    BY DEF At
  <2>4. Listed(manager, s)
    BY <1>5, <2>2, <2>3 DEF Listed
  <2>5. QED
    BY <1>5, <2>1, <2>4 DEF Linked
<1>8. ASSUME NEW p \in Paths
      PROVE  FileOK(manager.file[p], UsersOf(handlers, transfer)[p], disk[p], changed[p])
  <2>1. ~(changed[p] > RecheckAfter)
    BY <1>1, RecheckPositive
  <2>2. QED
    BY <1>4, <1>5, <1>6, <2>1 DEF FileOK, Kept, Checked
<1>9. FreshEnough
  BY DEF Init, FreshEnough, Nothing
<1>10. QED
  BY <1>1, <1>3, <1>5, <1>7, <1>8, <1>9 DEF FilesInv, ManagerOK

LEMMA CreateHandlerInv ==
  ASSUME FilesInv, NEW p \in Paths, CreateHandler(p) PROVE FilesInv'
<1>1. PICK u \in [Paths -> Nat] : u = UsersOf(handlers, transfer)
  BY UsersTyped DEF FilesInv
<1>2. /\ handlers \in [Paths -> 0..MaxHandlers] /\ changed \in [Paths -> 0..RecheckAfter]
      /\ ManagerOK(manager, u, disk, changed)
  BY <1>1 DEF FilesInv
<1>3. /\ handlers[p] < MaxHandlers /\ manager' = Referenced(manager, p)
      /\ handlers' = [handlers EXCEPT ![p] = handlers[p] + 1]
      /\ outcome' = Nothing /\ UNCHANGED <<transfer, disk, changed>>
  BY DEF CreateHandler
<1>4. handlers[p] + 1 \in 0..MaxHandlers
  BY <1>2, <1>3, StaticFilesAssumption
<1>5. handlers' \in [Paths -> 0..MaxHandlers]
  BY <1>2, <1>3, <1>4
<1>6. UsersOf(handlers', transfer') = [u EXCEPT ![p] = u[p] + 1]
  <2>1. PICK i \in {1, -1} : i = 1
    OBVIOUS
  <2>2. UsersOf(Plus(handlers, p, i), transfer) = Plus(UsersOf(handlers, transfer), p, i)
    <3>1. handlers[p] + i \in 0..MaxHandlers
      BY <1>4, <2>1
    <3>2. QED
      BY <1>2, <2>1, <3>1, UsersHandlers
  <2>3. QED
    BY <1>1, <1>3, <2>1, <2>2 DEF Plus
<1>7. ManagerOK(manager', [u EXCEPT ![p] = u[p] + 1], disk', changed')
  BY <1>2, <1>3, ReferencedOK
<1>8. FreshEnough'
  BY <1>3 DEF FreshEnough, Nothing
<1>9. QED
  BY <1>3, <1>5, <1>6, <1>7, <1>8 DEF FilesInv

LEMMA DropHandlerInv ==
  ASSUME FilesInv, NEW p \in Paths, DropHandler(p) PROVE FilesInv'
<1>1. PICK u \in [Paths -> Nat] : u = UsersOf(handlers, transfer) /\ u[p] >= handlers[p]
  BY UsersTyped DEF FilesInv
<1>2. /\ handlers \in [Paths -> 0..MaxHandlers] /\ changed \in [Paths -> 0..RecheckAfter]
      /\ ManagerOK(manager, u, disk, changed)
  BY <1>1 DEF FilesInv
<1>3. /\ handlers[p] > 0 /\ manager' = Unref(manager, p)
      /\ handlers' = [handlers EXCEPT ![p] = handlers[p] - 1]
      /\ outcome' = Nothing /\ UNCHANGED <<transfer, disk, changed>>
  BY DEF DropHandler
<1>4. handlers[p] + (-1) \in 0..MaxHandlers /\ handlers[p] - 1 = handlers[p] + (-1)
      /\ u[p] - 1 = u[p] + (-1) /\ u[p] > 0
  BY <1>1, <1>2, <1>3, StaticFilesAssumption
<1>5. handlers' \in [Paths -> 0..MaxHandlers]
  BY <1>2, <1>3, <1>4
<1>6. UsersOf(handlers', transfer') = [u EXCEPT ![p] = u[p] - 1]
  <2>1. PICK i \in {1, -1} : i = -1
    OBVIOUS
  <2>2. UsersOf(Plus(handlers, p, i), transfer) = Plus(UsersOf(handlers, transfer), p, i)
    <3>1. handlers[p] + i \in 0..MaxHandlers
      BY <1>4, <2>1
    <3>2. QED
      BY <1>2, <2>1, <3>1, UsersHandlers
  <2>3. QED
    BY <1>1, <1>3, <1>4, <2>1, <2>2 DEF Plus
<1>7. ManagerOK(manager', [u EXCEPT ![p] = u[p] - 1], disk', changed')
  BY <1>2, <1>3, <1>4, UnrefOK
<1>8. FreshEnough'
  BY <1>3 DEF FreshEnough, Nothing
<1>9. QED
  BY <1>3, <1>5, <1>6, <1>7, <1>8 DEF FilesInv

LEMMA DiskChangesInv ==
  ASSUME FilesInv, NEW p \in Volatile, DiskChanges(p) PROVE FilesInv'
<1>1. PICK u \in [Paths -> Nat] : u = UsersOf(handlers, transfer)
  BY UsersTyped DEF FilesInv
<1>2. /\ manager' = manager /\ handlers' = handlers /\ transfer' = transfer /\ outcome' = Nothing
      /\ changed' = [changed EXCEPT ![p] = 0]
      /\ \E v \in 0..MaxVersion : disk' = [disk EXCEPT ![p] = v]
  BY StaticFilesAssumption DEF DiskChanges
<1>3. disk' \in [Paths -> 0..MaxVersion] /\ changed' \in [Paths -> 0..RecheckAfter]
  <2>1. 0 \in 0..RecheckAfter
    BY StaticFilesAssumption
  <2>2. QED
    BY <1>2, <2>1 DEF FilesInv
<1>4. ASSUME NEW q \in Paths PROVE FileOK(manager.file[q], u[q], disk'[q], changed'[q])
  <2>1. FileOK(manager.file[q], u[q], disk[q], changed[q]) /\ manager.file[q] \in FileType
    BY <1>1 DEF FilesInv, ManagerOK, Managers
  <2>2. CASE q = p
    <3>1. changed'[q] = 0 /\ ~(0 > manager.file[q].age)
      BY <1>2, <2>1, <2>2 DEF FilesInv, FileType
    <3>2. QED
      BY <2>1, <3>1 DEF FileOK, Checked
  <2>3. CASE q # p
    BY <1>2, <2>1, <2>3 DEF FilesInv
  <2>4. QED
    BY <2>2, <2>3
<1>5. FreshEnough'
  BY <1>2 DEF FreshEnough, Nothing
<1>6. QED
  BY <1>1, <1>2, <1>3, <1>4, <1>5 DEF FilesInv, ManagerOK

(* The closure for p is called for connection c: FreshEnough rests on the  *)
(* file having been checked less than two seconds ago.                     *)
LEMMA CalledInv ==
  ASSUME FilesInv, NEW p \in Paths, NEW c \in Conns, UsersOf(handlers, transfer)[p] > 0,
         transfer[c].path = NONE, manager.requestsCounter < MaxRequests,
         Called(p, c), UNCHANGED <<handlers, disk, changed>>
  PROVE  FilesInv'
<1> DEFINE m == ReloadIfStale(manager, p)
           unloaded == IF IsLoaded(manager, p) /\ Stale(manager, p) /\ disk[p] # manager.file[p].version
                       THEN {p} ELSE {}
<1>1. IF IsLoaded(m, p)
      THEN /\ manager' = [m EXCEPT !.file[p].refCount = @ + 1, !.requestsCounter = @ + 1]
           /\ transfer' = [Disturb(unloaded) EXCEPT ![c] = NewTransfer(p, m.file[p])]
           /\ outcome' = [Nothing EXCEPT !.kind = "served", !.path = p, !.version = m.file[p].version]
      ELSE /\ manager' = m
           /\ transfer' = Disturb(unloaded)
           /\ outcome' = [Nothing EXCEPT !.kind = IF m.file[p].exception THEN "error" ELSE "refused",
                                         !.path = p]
  BY Zenon DEF Called
<1>2. PICK u \in [Paths -> Nat] : u = UsersOf(handlers, transfer) /\ u[p] > 0
  BY UsersTyped DEF FilesInv
<1>3. /\ handlers \in [Paths -> 0..MaxHandlers] /\ changed \in [Paths -> 0..RecheckAfter]
      /\ disk \in [Paths -> 0..MaxVersion] /\ transfer \in [Conns -> Transfers]
      /\ ManagerOK(manager, u, disk, changed)
  BY <1>2 DEF FilesInv
<1>4. /\ ManagerOK(m, u, disk, changed) /\ m.file[p].age < RecheckAfter
      /\ m.requestsCounter = manager.requestsCounter
  BY <1>2, <1>3, ReloadOK
<1>5. PICK t \in [Conns -> Transfers] : t = Disturb(unloaded) /\ \A x \in Conns : t[x].path = transfer[x].path
  BY <1>3, DisturbTyped
<1> HIDE DEF m, unloaded
<1>6. PICK f \in FileType : f = m.file[p] /\ FileOK(f, u[p], disk[p], changed[p]) /\ m \in Managers
  BY <1>4 DEF ManagerOK, Managers
<1>7. changed[p] = RecheckAfter => changed[p] > f.age
  BY <1>4, <1>6 DEF FileType
<1>8. CASE IsLoaded(m, p)
  <2>1. PICK g : g = [f EXCEPT !.refCount = f.refCount + 1]
    OBVIOUS
  <2>2. PICK n : n = [m EXCEPT !.file[p] = g]
    OBVIOUS
  <2>3. /\ g \in FileType /\ g.refCount = f.refCount + 1 /\ g.loaded = f.loaded /\ g.next = f.next
        /\ g.prev = f.prev /\ g.age = f.age /\ g.exception = f.exception /\ g.version = f.version
    BY <2>1 DEF FileType
  <2>4. SameLinks(f, g)
    BY <2>3 DEF SameLinks
  <2>5. PICK k \in Nat : k = u[p] + 1
    OBVIOUS
  <2>6. FileOK(g, k, disk[p], changed[p])
    BY <1>6, <1>8, <2>3, <2>5 DEF FileOK, Kept, Checked, IsLoaded
  <2>7. PICK v : v = [u EXCEPT ![p] = k]
    OBVIOUS
  <2>8. ManagerOK(n, v, disk, changed)
    BY <1>4, <1>6, <2>2, <2>3, <2>4, <2>6, <2>7, ChangeOK
  <2>9. manager' = [n EXCEPT !.requestsCounter = manager.requestsCounter + 1]
    <3>1. manager' = [m EXCEPT !.file[p].refCount = @ + 1, !.requestsCounter = @ + 1]
      BY <1>1, <1>8
    <3>2. [m EXCEPT !.file[p].refCount = @ + 1, !.requestsCounter = @ + 1]
            = [n EXCEPT !.requestsCounter = m.requestsCounter + 1]
      BY <1>6, <2>1, <2>2 DEF Managers, FileType
    <3>3. QED
      BY <1>4, <3>1, <3>2
  <2>10. /\ manager' \in Managers /\ manager'.file = n.file /\ manager'.nLoaded = n.nLoaded
         /\ manager'.firstToFree = n.firstToFree /\ manager'.lastToFree = n.lastToFree
    <3>1. n \in Managers
      BY <2>8 DEF ManagerOK
    <3>2. manager.requestsCounter + 1 \in 0..MaxRequests
      BY <1>3, StaticFilesAssumption DEF ManagerOK, Managers
    <3>3. QED
      BY <2>9, <3>1, <3>2 DEF Managers
  <2>11. PICK o : o = manager'
    OBVIOUS
  <2>12. ManagerOK(o, v, disk, changed)
    BY <2>8, <2>10, <2>11, CountersOK
  <2>13. PICK e \in Transfers : e = NewTransfer(p, f) /\ e.path = p
    <3>1. f.version \in 0..MaxVersion /\ 0 \in Nat
      BY DEF FileType
    <3>2. PICK b \in BOOLEAN : b = (f.loaded = "mapped")
      OBVIOUS
    <3>3. PICK e : e = [path |-> p, mapped |-> b, version |-> f.version, intact |-> TRUE, offset |-> 0]
      OBVIOUS
    <3>4. e \in Transfers /\ e.path = p
      BY <3>1, <3>3 DEF Transfers
    <3>5. e = NewTransfer(p, f)
      BY <3>2, <3>3, Zenon DEF NewTransfer
    <3>6. QED
      BY <3>4, <3>5
  <2>14. PICK w \in [Conns -> Transfers] : w = [t EXCEPT ![c] = e]
    OBVIOUS
  <2>15. transfer' = w
    BY <1>1, <1>5, <1>6, <1>8, <2>13, <2>14
  <2>16. Begins(transfer, w, c, p)
    BY <1>5, <2>13, <2>14 DEF Begins
  <2>17. UsersOf(handlers, w) = Plus(u, p, 1)
    BY <1>2, <1>3, <2>16, UsersBegin
  <2>18. UsersOf(handlers', transfer') = v
    BY <2>5, <2>7, <2>15, <2>17 DEF Plus
  <2>19. FreshEnough'
    <3>1. outcome' = [Nothing EXCEPT !.kind = "served", !.path = p, !.version = f.version]
      BY <1>1, <1>6, <1>8
    <3>2. outcome'.kind = "served" /\ outcome'.path = p /\ outcome'.version = f.version
      BY <3>1 DEF Nothing
    <3>3. changed[p] = RecheckAfter => f.version = disk[p]
      BY <1>6, <1>7, <1>8 DEF FileOK, Checked, IsLoaded
    <3>4. QED
      BY <3>2, <3>3 DEF FreshEnough
  <2>20. QED
    BY <1>3, <2>11, <2>12, <2>15, <2>18, <2>19 DEF FilesInv
<1>9. CASE ~IsLoaded(m, p)
  <2>1. manager' = m /\ transfer' = t
    BY <1>1, <1>5, <1>9
  <2>2. UsersOf(handlers, t) = u
    BY <1>2, <1>5, UsersSame
  <2>3. FreshEnough'
    <3>1. outcome' = [Nothing EXCEPT !.kind = IF f.exception THEN "error" ELSE "refused", !.path = p]
      BY <1>1, <1>6, <1>9
    <3>2. outcome'.path = p /\ outcome'.kind = IF f.exception THEN "error" ELSE "refused"
      BY <3>1 DEF Nothing
    <3>3. changed[p] = RecheckAfter /\ f.exception => disk[p] = 0
      BY <1>6, <1>7 DEF FileOK, Checked
    <3>4. QED
      BY <3>2, <3>3 DEF FreshEnough
  <2>4. QED
    BY <1>3, <1>4, <2>1, <2>2, <2>3 DEF FilesInv
<1>10. QED
  BY <1>8, <1>9

LEMMA InvokeInv ==
  ASSUME FilesInv, NEW p \in Paths, NEW c \in Conns, Invoke(p, c) PROVE FilesInv'
<1>1. transfer[c].path = NONE
  BY DEF Invoke, NoTransfer
<1>2. UsersOf(handlers, transfer)[p] > 0
  <2>1. PICK a \in Nat, b \in Nat : a = UsersOf(handlers, transfer)[p] /\ b = handlers[p] /\ a >= b
    BY UsersTyped, StaticFilesAssumption DEF FilesInv
  <2>2. QED
    BY <2>1 DEF Invoke
<1>3. QED
  BY <1>1, <1>2, CalledInv DEF Invoke

(* However a transfer ends, its reference goes with it.                    *)
LEMMA EndInv ==
  ASSUME FilesInv, NEW c \in Conns, transfer[c].path # NONE, NEW kind \in {"finish", "abort", "gone"},
         NEW sent, End(c, kind, sent), UNCHANGED <<handlers, disk, changed>>
  PROVE  FilesInv'
<1>1. PICK u \in [Paths -> Nat] : u = UsersOf(handlers, transfer)
  BY UsersTyped DEF FilesInv
<1>2. /\ handlers \in [Paths -> 0..MaxHandlers] /\ changed \in [Paths -> 0..RecheckAfter]
      /\ transfer \in [Conns -> Transfers] /\ ManagerOK(manager, u, disk, changed)
  BY <1>1 DEF FilesInv
<1>3. PICK p \in Paths : p = transfer[c].path
  BY <1>2 DEF Transfers
<1>4. PICK w : w = [transfer EXCEPT ![c] = NoTransfer]
  OBVIOUS
<1>5. /\ manager' = Unref(manager, p) /\ transfer' = w
      /\ outcome'.kind = kind
  BY <1>3, <1>4 DEF End, Destroyed
<1>6. NoTransfer \in Transfers /\ NoTransfer.path = NONE
  <2>1. 0 \in 0..MaxVersion /\ 0 \in Nat
    BY StaticFilesAssumption
  <2>2. QED
    BY <2>1 DEF Transfers, NoTransfer
<1>7. w \in [Conns -> Transfers]
  BY <1>2, <1>4, <1>6
<1>8. Begins(w, transfer, c, p)
  BY <1>2, <1>3, <1>4, <1>6 DEF Begins
<1>9. u[p] > 0 /\ UsersOf(handlers, w) = Plus(u, p, -1)
  BY <1>1, <1>2, <1>8, UsersBegin
<1>10. Plus(u, p, -1) = [u EXCEPT ![p] = u[p] - 1]
  BY DEF Plus
<1>11. ManagerOK(manager', [u EXCEPT ![p] = u[p] - 1], disk, changed)
  BY <1>2, <1>5, <1>9, UnrefOK
<1>12. FreshEnough'
  BY <1>5 DEF FreshEnough
<1>13. QED
  BY <1>5, <1>7, <1>9, <1>10, <1>11, <1>12 DEF FilesInv

LEMMA WriteEndsInv ==
  ASSUME FilesInv, NEW c \in Conns, WriteEnds(c) PROVE FilesInv'
<1>1. /\ transfer[c].path # NONE /\ UNCHANGED <<handlers, disk, changed>>
      /\ \/ End(c, "finish", Length(transfer[c].path, transfer[c].version))
         \/ End(c, "abort", 0)
  BY Zenon DEF WriteEnds
<1>2. QED
  BY <1>1, EndInv

LEMMA SendFileInv ==
  ASSUME FilesInv, NEW c \in Conns, SendFile(c) PROVE FilesInv'
<1>1. /\ transfer[c].path # NONE /\ UNCHANGED <<handlers, disk, changed>>
      /\ \E r \in {0, 1} :
           \/ End(c, "finish", transfer[c].offset + r)
           \/ /\ transfer' = [transfer EXCEPT ![c].offset = @ + r]
              /\ outcome' = Nothing
              /\ UNCHANGED manager
  <2>1. \A r \in IF transfer[c].intact THEN {1} ELSE 0..1 : r \in {0, 1}
    OBVIOUS
  <2>2. QED
    BY <2>1, Zenon DEF SendFile
<1>2. PICK r \in {0, 1} :
           \/ End(c, "finish", transfer[c].offset + r)
           \/ /\ transfer' = [transfer EXCEPT ![c].offset = @ + r]
              /\ outcome' = Nothing
              /\ UNCHANGED manager
  BY <1>1
<1>3. CASE End(c, "finish", transfer[c].offset + r)
  BY <1>1, <1>3, EndInv
<1>4. CASE transfer' = [transfer EXCEPT ![c].offset = @ + r] /\ outcome' = Nothing /\ UNCHANGED manager
  <2>1. transfer \in [Conns -> Transfers]
    BY DEF FilesInv
  <2>2. PICK t \in Transfers : t = transfer[c]
    BY <2>1
  <2>3. PICK e : e = [t EXCEPT !.offset = t.offset + r]
    OBVIOUS
  <2>4. e \in Transfers /\ e.path = t.path
    BY <2>3 DEF Transfers
  <2>5. transfer' = [transfer EXCEPT ![c] = e]
    BY <1>4, <2>1, <2>2, <2>3
  <2>6. transfer' \in [Conns -> Transfers] /\ \A x \in Conns : transfer'[x].path = transfer[x].path
    BY <2>1, <2>2, <2>4, <2>5
  <2>7. UsersOf(handlers, transfer') = UsersOf(handlers, transfer)
    BY <2>6, UsersSame
  <2>8. FreshEnough'
    BY <1>4 DEF FreshEnough, Nothing
  <2>9. QED
    BY <1>1, <1>4, <2>6, <2>7, <2>8 DEF FilesInv
<1>5. QED
  BY <1>2, <1>3, <1>4

LEMMA ClientGoneInv ==
  ASSUME FilesInv, NEW c \in Conns, ClientGone(c) PROVE FilesInv'
  BY EndInv DEF ClientGone

LEMMA TimerCBInv ==
  ASSUME FilesInv, TimerCB PROVE FilesInv'
<1>1. PICK u \in [Paths -> Nat] : u = UsersOf(handlers, transfer)
  BY UsersTyped DEF FilesInv
<1>2. /\ handlers \in [Paths -> 0..MaxHandlers] /\ changed \in [Paths -> 0..RecheckAfter]
      /\ disk \in [Paths -> 0..MaxVersion]
      /\ transfer \in [Conns -> Transfers] /\ ManagerOK(manager, u, disk, changed)
  BY <1>1 DEF FilesInv
<1>3. PICK d \in Periods :
        LET m == Purge([manager EXCEPT !.file = [p \in Paths |-> Older(@[p], d)]]) IN
        /\ manager' = [m EXCEPT !.loadsCounter = 0, !.requestsCounter = 0]
        /\ transfer' = Disturb(LoadedPaths(manager) \ LoadedPaths(m))
        /\ changed' = [p \in Paths |-> Later(changed[p], d)]
        /\ outcome' = Nothing /\ UNCHANGED <<handlers, disk>>
  BY Zenon DEF TimerCB
<1>4. PICK o : o = [manager EXCEPT !.file = [p \in Paths |-> Older(manager.file[p], d)]]
  OBVIOUS
<1>5. PICK m : m = Purge(o)
  OBVIOUS
<1>6. PICK e : /\ e = [p \in Paths |-> Later(changed[p], d)]
               /\ manager' = [m EXCEPT !.loadsCounter = 0, !.requestsCounter = 0]
               /\ transfer' = Disturb(LoadedPaths(manager) \ LoadedPaths(m))
               /\ changed' = e /\ outcome' = Nothing /\ UNCHANGED <<handlers, disk>>
  BY <1>3, <1>4, <1>5, Zenon
<1>7. d \in Nat /\ e \in [Paths -> 0..RecheckAfter]
  BY <1>2, <1>6, LaterIs, StaticFilesAssumption
<1>8. ManagerOK(o, u, disk, e)
  <2>1. o = [manager EXCEPT !.file = [p \in Paths |-> Older(manager.file[p], d)]]
    BY <1>4
  <2>2. ManagerOK(o, u, disk, [p \in Paths |-> Later(changed[p], d)])
    BY <1>1, <1>2, <1>7, <2>1, OlderOK
  <2>3. QED
    BY <1>6, <2>2
<1>9. ManagerOK(m, u, disk, e)
  BY <1>5, <1>7, <1>8, PurgeOK
<1>10. PICK n : n = manager'
  OBVIOUS
<1>11. /\ n \in Managers /\ n.file = m.file /\ n.nLoaded = m.nLoaded
       /\ n.firstToFree = m.firstToFree /\ n.lastToFree = m.lastToFree
  <2>1. 0 \in 0..MaxRequests /\ 0 \in Nat
    BY StaticFilesAssumption
  <2>2. QED
    BY <1>6, <1>9, <1>10, <2>1 DEF ManagerOK, Managers
<1>12. ManagerOK(n, u, disk, e)
  BY <1>9, <1>11, CountersOK
<1>13. transfer' \in [Conns -> Transfers] /\ \A x \in Conns : transfer'[x].path = transfer[x].path
  BY <1>2, <1>6, DisturbTyped
<1>14. UsersOf(handlers, transfer') = u
  BY <1>1, <1>13, UsersSame
<1>15. FreshEnough'
  BY <1>6 DEF FreshEnough, Nothing
<1>16. QED
  BY <1>2, <1>6, <1>7, <1>10, <1>12, <1>13, <1>14, <1>15 DEF FilesInv

LEMMA FilesInvHolds == Spec => []FilesInv
<1>1. ASSUME FilesInv, [Next]_vars PROVE FilesInv'
  <2>1. CASE UNCHANGED vars
    BY <1>1, <2>1 DEF vars, FilesInv, FreshEnough
  <2>2. CASE \E p \in Paths : CreateHandler(p) \/ DropHandler(p)
    BY <1>1, <2>2, CreateHandlerInv, DropHandlerInv
  <2>3. CASE \E p \in Volatile : DiskChanges(p)
    BY <1>1, <2>3, DiskChangesInv
  <2>4. CASE \E p \in Paths, c \in Conns : Invoke(p, c)
    BY <1>1, <2>4, InvokeInv
  <2>5. CASE \E c \in Conns : WriteEnds(c) \/ SendFile(c) \/ ClientGone(c)
    BY <1>1, <2>5, WriteEndsInv, SendFileInv, ClientGoneInv
  <2>6. CASE TimerCB
    BY <1>1, <2>6, TimerCBInv
  <2>7. QED
    BY <1>1, <2>1, <2>2, <2>3, <2>4, <2>5, <2>6 DEF Next
<1>2. QED
  BY <1>1, FilesInvInit, PTL DEF Spec

-----------------------------------------------------------------------------
(***************************************************************************)
(* The theorems.                                                           *)
(***************************************************************************)
(* The state keeps its types, the capacity its bounds (static_handler.C:   *)
(* 284-296, 361-387).                                                      *)
THEOREM StaticFilesTyped == Spec => []TypeOK
<1>1. FilesInv => TypeOK
  <2> SUFFICES ASSUME FilesInv PROVE TypeOK
    OBVIOUS
  <2>1. manager \in Managers
    BY DEF FilesInv, ManagerOK
  <2>2. ASSUME NEW c \in Conns PROVE transfer[c].path \in Paths \cup {NONE} /\ transfer[c].offset \in Nat
    BY DEF FilesInv, Transfers
  <2>3. QED
    BY <2>1, <2>2 DEF FilesInv, Managers, TypeOK
<1>2. QED
  BY <1>1, FilesInvHolds, PTL

(* No file is leaked, and none is deleted under a handler or a transfer,   *)
(* however evictions, reloads and ends of transfers interleave             *)
(* (static_handler.C:51-57, 257-281, 330-359).                             *)
THEOREM ReferencesAreExact == Spec => []RefCountsExact
<1>1. FilesInv => RefCountsExact
  <2> SUFFICES ASSUME FilesInv, NEW p \in Paths
               PROVE  LET f == manager.file[p] IN
                      /\ f.refCount = handlers[p] + Cardinality({c \in Conns : transfer[c].path = p})
                      /\ f = NoFile <=> (f.refCount = 0 /\ ~IsLoaded(manager, p))
    BY DEF RefCountsExact
  <2>1. FileOK(manager.file[p], UsersOf(handlers, transfer)[p], disk[p], changed[p])
    BY DEF FilesInv, ManagerOK
  <2>2. UsersOf(handlers, transfer)[p] = handlers[p] + Cardinality({c \in Conns : transfer[c].path = p})
    BY DEF UsersOf, Count
  <2>3. NoFile.refCount = 0 /\ NoFile.loaded = "deleted"
    BY DEF NoFile, NewFile
  <2>4. QED
    BY <2>1, <2>2, <2>3 DEF FileOK, Kept, IsLoaded
<1>2. QED
  BY <1>1, FilesInvHolds, PTL

(* What is served, or refused with an error, was so on disk at most two    *)
(* seconds ago (static_handler.C:330-359).                                 *)
THEOREM ServedFilesAreFresh == Spec => []FreshEnough
<1>1. FilesInv => FreshEnough
  BY DEF FilesInv
<1>2. QED
  BY <1>1, FilesInvHolds, PTL

(* Following the links from the front, one meets the list.                 *)
Walks(w, m) == w = [i \in 1..m.nLoaded |-> IF i = 1 THEN m.firstToFree ELSE m.file[w[i - 1]].next]

LEMMA WalkIsList ==
  ASSUME NEW m \in Managers, NEW s \in [1..m.nLoaded -> Paths], Listed(m, s)
  PROVE  (CHOOSE w : Walks(w, m)) = s
<1>1. PICK k \in Nat : k = m.nLoaded
  BY DEF Managers
<1>2. /\ m.firstToFree = At(s, k, 1)
      /\ \A i \in 1..k : m.file[s[i]].next = At(s, k, i + 1)
  BY <1>1 DEF Listed
<1>3. ASSUME NEW i \in 1..k
      PROVE  s[i] = IF i = 1 THEN m.firstToFree ELSE m.file[s[i - 1]].next
  <2>1. CASE i = 1
    BY <1>2, <2>1 DEF At
  <2>2. CASE i # 1
    <3>1. PICK l \in 1..k : l = i - 1 /\ l + 1 = i
      BY <2>2
    <3>2. m.file[s[l]].next = s[i]
      BY <1>2, <3>1 DEF At
    <3>3. QED
      BY <2>2, <3>1, <3>2
  <2>3. QED
    BY <2>1, <2>2
<1>4. PICK v : v = [i \in 1..k |-> IF i = 1 THEN m.firstToFree ELSE m.file[s[i - 1]].next]
  OBVIOUS
<1>5. s = v
  <2>1. \A i \in 1..k : s[i] = v[i]
    BY <1>3, <1>4
  <2>2. QED
    BY <1>1, <1>4, <2>1
<1>6. Walks(s, m)
  BY <1>1, <1>4, <1>5 DEF Walks
<1>7. PICK w : w = CHOOSE x : Walks(x, m)
  OBVIOUS
<1>8. Walks(w, m)
  BY <1>6, <1>7
<1>9. ASSUME NEW i \in 1..k
      PROVE  w[i] = IF i = 1 THEN m.firstToFree ELSE m.file[w[i - 1]].next
  BY <1>1, <1>8, Zenon DEF Walks
<1> DEFINE Wrong == {i \in Nat : i \in 1..k /\ w[i] # s[i]}
<1>10. Wrong = {}
  <2>1. SUFFICES ASSUME Wrong # {} PROVE FALSE
    OBVIOUS
  <2>2. PICK i \in Wrong : \A j \in Wrong : i <= j
    BY <2>1, LeastOfNat
  <2>3. i # 1
    BY <1>3, <1>9, <2>2
  <2>4. PICK l \in 1..k : l = i - 1
    BY <2>2, <2>3
  <2>5. l \notin Wrong
    BY <2>2, <2>4
  <2>6. w[l] = s[l]
    BY <2>5
  <2>7. w[i] = s[i]
    BY <1>3, <1>9, <2>2, <2>3, <2>4, <2>6
  <2>8. QED
    BY <2>2, <2>7
<1>11. \A i \in 1..k : w[i] = s[i]
  BY <1>10
<1>12. w = [i \in 1..k |-> w[i]]
  BY <1>1, <1>8 DEF Walks
<1>13. w = s
  BY <1>1, <1>11, <1>12
<1>14. QED
  BY <1>7, <1>13

(* The to-free list is sound: it holds the loaded files, each once, in     *)
(* both directions, and nLoaded is its length (static_handler.C:243-281).  *)
THEOREM ToFreeListIsSound == Spec => []ToFreeListSound
<1>1. FilesInv => ToFreeListSound
  <2> SUFFICES ASSUME FilesInv PROVE ToFreeListSound
    OBVIOUS
  <2>1. PICK m \in Managers : m = manager
    BY DEF FilesInv, ManagerOK
  <2>2. PICK k \in Nat : k = m.nLoaded
    BY DEF Managers
  <2>3. PICK s \in [1..k -> Paths] : Listed(m, s)
    BY <2>1, <2>2 DEF FilesInv, ManagerOK, Linked
  <2>4. /\ \A i, j \in 1..k : s[i] = s[j] => i = j
        /\ \A p \in Paths : IsLoaded(m, p) <=> \E i \in 1..k : s[i] = p
        /\ m.firstToFree = At(s, k, 1) /\ m.lastToFree = At(s, k, k)
        /\ \A i \in 1..k : m.file[s[i]].prev = At(s, k, i - 1) /\ m.file[s[i]].next = At(s, k, i + 1)
    BY <2>2, <2>3 DEF Listed
  <2> DEFINE walk == CHOOSE w : Walks(w, manager)
  <2>5. /\ m.nLoaded = Cardinality(LoadedPaths(m))
        /\ {At(walk, m.nLoaded, i) : i \in 1..m.nLoaded} = LoadedPaths(m)
        /\ m.firstToFree = At(walk, m.nLoaded, 1)
        /\ m.lastToFree = At(walk, m.nLoaded, m.nLoaded)
        /\ \A i \in 1..m.nLoaded : /\ m.file[At(walk, m.nLoaded, i)].prev = At(walk, m.nLoaded, i - 1)
                                   /\ m.file[At(walk, m.nLoaded, i)].next = At(walk, m.nLoaded, i + 1)
        => ToFreeListSound
    <3>1. ASSUME
           /\ manager.nLoaded = Cardinality(LoadedPaths(manager))
           /\ {At(walk, manager.nLoaded, i) : i \in 1..manager.nLoaded} = LoadedPaths(manager)
           /\ manager.firstToFree = At(walk, manager.nLoaded, 1)
           /\ manager.lastToFree = At(walk, manager.nLoaded, manager.nLoaded)
           /\ \A i \in 1..manager.nLoaded :
                /\ manager.file[At(walk, manager.nLoaded, i)].prev = At(walk, manager.nLoaded, i - 1)
                /\ manager.file[At(walk, manager.nLoaded, i)].next = At(walk, manager.nLoaded, i + 1)
          PROVE ToFreeListSound
      BY <3>1, Zenon DEF ToFreeListSound, Walks, At
    <3>2. QED
      BY <2>1, <3>1
  <2>6. walk = s
    BY <2>1, <2>2, <2>3, WalkIsList
  <2> HIDE DEF walk
  <2>7. \A i \in 1..k : At(s, k, i) = s[i]
    BY DEF At
  <2>8. {At(s, k, i) : i \in 1..k} = LoadedPaths(m)
    <3>1. {s[i] : i \in 1..k} = LoadedPaths(m)
      BY <2>4 DEF LoadedPaths
    <3>2. QED
      BY <2>7, <3>1
  <2>9. k = Cardinality(LoadedPaths(m))
    <3>1. s \in Bijection(1..k, LoadedPaths(m))
      BY <2>4 DEF Bijection, Injection, Surjection, IsInjective, LoadedPaths
    <3>2. ExistsBijection(1..k, LoadedPaths(m))
      BY <3>1 DEF ExistsBijection
    <3>3. QED
      BY <3>2, FS_CountingElements
  <2>10. QED
    BY <2>2, <2>4, <2>5, <2>6, <2>7, <2>8, <2>9
<1>2. QED
  BY <1>1, FilesInvHolds, PTL

================================================================================
