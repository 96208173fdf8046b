--------------------------- MODULE RouteCacheProofs ---------------------------
(***************************************************************************)
(* Proofs about RouteCache, for every number of buckets and slots, every   *)
(* hash function and every set of requests.  One thing is assumed of the   *)
(* requests where a theorem says so, that they are without NUL: CacheInv   *)
(* shows that nothing but a NUL and a shared key can make the cache answer *)
(* wrongly, KeyInjective when requests share a key.                        *)
(***************************************************************************)
EXTENDS RouteCache, SequenceTheorems, FiniteSetTheorems, CommonLemmas

(* No request has a NUL in its text.                                       *)
NoNulRequests == \A r \in Requests : \A i \in DOMAIN Key(r) : Key(r)[i] # "NUL"

Slots == 0..(Entries - 1)

(* The characters of a key.  The separator is a string; the provers are    *)
(* not told so.                                                            *)
Chars == STRING \cup {"#"}

(* A slot is empty, or its key is what remains of the key of the request   *)
(* whose handler it holds.                                                 *)
EntryFields(e) == e = [keys |-> e.keys, handlers |-> e.handlers, nextToEvict |-> e.nextToEvict]

EntryOK(e) ==
  /\ EntryFields(e)
  /\ e.keys \in [Slots -> Seq(Chars)]
  /\ e.handlers \in [Slots -> Requests \cup {NoHandler}]
  /\ e.nextToEvict \in Slots
  /\ \A i \in Slots :
       /\ Len(e.keys[i]) < MaxPath
       /\ \/ e.keys[i] = << >>
          \/ e.handlers[i] \in Requests /\ e.keys[i] = AsCString(Key(e.handlers[i]))

TableOK ==
  /\ table = [b \in 0..(Buckets - 1) |-> table[b]]
  /\ \A b \in 0..(Buckets - 1) : EntryOK(table[b])

(* A wrong answer comes from a key that NUL has cut, or that two requests  *)
(* share.                                                                  *)
AnswerOK ==
  /\ answer.request \in Requests \cup {NoHandler}
  /\ answer.handler \in Requests \cup {NoHandler}
  /\ \/ answer.handler = answer.request
     \/ /\ answer.request \in Requests /\ answer.handler \in Requests
        /\ AsCString(Key(answer.handler)) = Key(answer.request)

CacheInv == TableOK /\ AnswerOK

(* The slot of the j-th of the last n keys inserted into a bucket: slots   *)
(* are filled from the front, then reused in turn.                         *)
SlotOf(next, n, j) ==
  IF n < Entries THEN j - 1
  ELSE IF next + j - 1 < Entries THEN next + j - 1 ELSE next + j - 1 - Entries

RecentOK(e, q) ==
  /\ q \in Seq(Seq(Chars)) /\ Len(q) <= Entries
  /\ Len(q) < Entries => e.nextToEvict = Len(q)
  /\ \A j \in 1..Len(q) : q[j] # << >> /\ e.keys[SlotOf(e.nextToEvict, Len(q), j)] = q[j]
  /\ \A i \in Slots : i >= Len(q) => e.keys[i] = << >>
  /\ \A i, j \in 1..Len(q) : q[i] = q[j] => i = j

AllRecent ==
  /\ recent = [b \in 0..(Buckets - 1) |-> recent[b]]
  /\ \A b \in 0..(Buckets - 1) : RecentOK(table[b], recent[b])

RecentInv == CacheInv /\ AllRecent

-----------------------------------------------------------------------------
(***************************************************************************)
(* The operators of RouteCache.                                            *)
(***************************************************************************)
LEMMA RequestChars ==
  /\ "#" \in Chars
  /\ \A r \in Requests : r[1] \in Seq(Chars) /\ r[2] \in Seq(Chars)
<1>1. STRING \subseteq Chars /\ "#" \in Chars
  BY DEF Chars
<1>2. \A s \in Seq(STRING) : s \in Seq(Chars)
  <2>1. PICK S, T : S = STRING /\ T = Chars
    OBVIOUS
  <2>2. S \subseteq T
    BY <1>1, <2>1
  <2>3. Seq(S) \subseteq Seq(T)
    BY <2>2, SeqMonotonic
  <2>4. QED
    BY <2>1, <2>3
<1>3. QED
  BY <1>1, <1>2, RouteCacheAssumption

LEMMA KeyType ==
  ASSUME NEW r \in Requests
  PROVE  /\ Key(r) \in Seq(Chars) /\ Key(r) # << >> /\ Hash(Key(r)) \in 0..(Buckets - 1)
         /\ Len(Key(r)) = Len(r[1]) + 1 + Len(r[2])
         /\ \A i \in 1..Len(r[1]) : Key(r)[i] = r[1][i]
         /\ Key(r)[Len(r[1]) + 1] = "#"
         /\ \A i \in 1..Len(r[2]) : Key(r)[Len(r[1]) + 1 + i] = r[2][i]
<1>0. r[1] \in Seq(Chars) /\ r[2] \in Seq(Chars)
  BY RequestChars
<1>1. <<"#">> \in Seq(Chars)
  <2>1. PICK T, c : T = Chars /\ c = "#" /\ c \in T
    BY RequestChars
  <2>2. <<c>> \in Seq(T)
    BY <2>1
  <2>3. QED
    BY <2>1, <2>2
<1>2. PICK h \in Seq(Chars) : h = r[1]
  BY <1>0
<1>3. PICK p \in Seq(Chars) : p = r[2]
  BY <1>0
<1>4. PICK m \in Nat : m = Len(h)
  OBVIOUS
<1>5. PICK n \in Nat : n = Len(p)
  OBVIOUS
<1>6. PICK a : a = h \o <<"#">>
  OBVIOUS
<1>7. /\ a \in Seq(Chars) /\ Len(a) = m + 1
      /\ \A i \in 1..(m + 1) : a[i] = IF i <= m THEN h[i] ELSE "#"
  BY <1>1, <1>4, <1>6
<1>8. PICK k : k = a \o p
  OBVIOUS
<1>9. /\ k \in Seq(Chars) /\ Len(k) = m + 1 + n
      /\ \A i \in 1..(m + 1 + n) : k[i] = IF i <= m + 1 THEN a[i] ELSE p[i - (m + 1)]
  <2>1. /\ a \o p \in Seq(Chars) /\ Len(a \o p) = Len(a) + Len(p)
        /\ \A i \in 1..Len(a) + Len(p) : (a \o p)[i] = IF i <= Len(a) THEN a[i] ELSE p[i - Len(a)]
    BY <1>7, ConcatProperties
  <2>2. QED
    BY <1>5, <1>7, <1>8, <2>1
<1>10. Key(r) = k
  BY <1>2, <1>3, <1>6, <1>8 DEF Key
<1>11. k # << >>
  BY <1>9
<1>12. \A i \in 1..m : k[i] = h[i]
  BY <1>7, <1>9
<1>13. k[m + 1] = "#"
  BY <1>7, <1>9
<1>14. \A i \in 1..n : k[m + 1 + i] = p[i]
  BY <1>9
<1>15. QED
  BY <1>2, <1>3, <1>4, <1>5, <1>9, <1>10, <1>11, <1>12, <1>13, <1>14, HashAssumption

(* A text is cut at its first NUL.                                         *)
LEMMA AsCStringType ==
  ASSUME NEW s \in Seq(Chars)
  PROVE  /\ AsCString(s) \in Seq(Chars) /\ Len(AsCString(s)) <= Len(s)
         /\ (\A i \in DOMAIN s : s[i] # "NUL") => AsCString(s) = s
<1> DEFINE nuls == {i \in DOMAIN s : s[i] = "NUL"}
<1>1. CASE nuls = {}
  BY <1>1 DEF AsCString
<1>2. CASE nuls # {}
  <2>1. nuls \in SUBSET Nat
    OBVIOUS
  <2>2. \E i \in nuls : \A j \in nuls : i <= j
    BY <1>2, <2>1, LeastOfNat
  <2>3. PICK i \in nuls : i = CHOOSE x \in nuls : \A y \in nuls : x <= y
    BY <2>2
  <2>4. AsCString(s) = SubSeq(s, 1, i - 1)
    BY <1>2, <2>3 DEF AsCString
  <2>5. i \in 1..Len(s) /\ Len(s) \in Nat
    OBVIOUS
  <2>6. SubSeq(s, 1, i - 1) \in Seq(Chars) /\ Len(SubSeq(s, 1, i - 1)) = i - 1
    BY <2>5
  <2>7. QED
    BY <1>2, <2>4, <2>5, <2>6
<1>3. QED
  BY <1>1, <1>2

(* Two requests with separator-free hosts share a key only if they are     *)
(* for the same host and path.                                             *)
LEMMA KeyInjective ==
  ASSUME NEW r \in Requests, NEW s \in Requests, Key(r) = Key(s),
         ~HostHasSeparator(r), ~HostHasSeparator(s)
  PROVE  r = s
<1>1. /\ r[1] \in Seq(Chars) /\ r[2] \in Seq(Chars)
      /\ s[1] \in Seq(Chars) /\ s[2] \in Seq(Chars)
  BY RequestChars
<1>2. PICK g \in Seq(Chars), p \in Seq(Chars) : g = r[1] /\ p = r[2]
  BY <1>1
<1>3. PICK h \in Seq(Chars), q \in Seq(Chars) : h = s[1] /\ q = s[2]
  BY <1>1
<1>4. PICK k : k = Key(r)
  OBVIOUS
<1>5. PICK l \in Nat, m \in Nat, u \in Nat, v \in Nat :
        l = Len(g) /\ m = Len(h) /\ u = Len(p) /\ v = Len(q)
  OBVIOUS
<1>6. /\ Len(k) = l + 1 + u /\ k[l + 1] = "#"
      /\ \A i \in 1..l : k[i] = g[i]
      /\ \A i \in 1..u : k[l + 1 + i] = p[i]
  <2>1. /\ Len(Key(r)) = Len(r[1]) + 1 + Len(r[2]) /\ Key(r)[Len(r[1]) + 1] = "#"
        /\ \A i \in 1..Len(r[1]) : Key(r)[i] = r[1][i]
        /\ \A i \in 1..Len(r[2]) : Key(r)[Len(r[1]) + 1 + i] = r[2][i]
    BY KeyType
  <2>2. QED
    BY <1>2, <1>4, <1>5, <2>1
<1>7. /\ Len(k) = m + 1 + v /\ k[m + 1] = "#"
      /\ \A i \in 1..m : k[i] = h[i]
      /\ \A i \in 1..v : k[m + 1 + i] = q[i]
  <2>1. /\ Len(Key(s)) = Len(s[1]) + 1 + Len(s[2]) /\ Key(s)[Len(s[1]) + 1] = "#"
        /\ \A i \in 1..Len(s[1]) : Key(s)[i] = s[1][i]
        /\ \A i \in 1..Len(s[2]) : Key(s)[Len(s[1]) + 1 + i] = s[2][i]
    BY KeyType
  <2>2. QED
    BY <1>3, <1>4, <1>5, <2>1
<1>8. (\A i \in 1..l : g[i] # "#") /\ (\A i \in 1..m : h[i] # "#")
  BY <1>2, <1>3, <1>5 DEF HostHasSeparator
<1>9. l = m
  <2>1. ~(l < m)
    <3>1. l < m => l + 1 \in 1..m
      OBVIOUS
    <3>2. QED
      BY <1>6, <1>7, <1>8, <3>1
  <2>2. ~(m < l)
    <3>1. m < l => m + 1 \in 1..l
      OBVIOUS
    <3>2. QED
      BY <1>6, <1>7, <1>8, <3>1
  <2>3. QED
    BY <2>1, <2>2
<1>10. u = v
  BY <1>6, <1>7, <1>9
<1>11. g = h
  <2>1. \A i \in 1..l : g[i] = h[i]
    BY <1>6, <1>7, <1>9
  <2>2. QED
    BY <1>5, <1>9, <2>1, SeqEqual
<1>12. p = q
  <2>1. \A i \in 1..u : p[i] = q[i]
    BY <1>6, <1>7, <1>9, <1>10
  <2>2. QED
    BY <1>5, <1>10, <2>1, SeqEqual
<1>13. r = <<r[1], r[2]>> /\ s = <<s[1], s[2]>>
  BY RouteCacheAssumption
<1>14. QED
  BY <1>2, <1>3, <1>11, <1>12, <1>13

(* The slots are used in turn.                                             *)
LEMMA NextSlotIs ==
  ASSUME NEW n \in Slots
  PROVE  /\ NextSlot(n) = IF n + 1 = Entries THEN 0 ELSE n + 1
         /\ NextSlot(n) \in Slots
<1>1. Entries \in Nat \ {0}
  BY RouteCacheAssumption
<1>2. CASE n + 1 = Entries
  BY <1>1, <1>2 DEF NextSlot, Slots
<1>3. CASE n + 1 < Entries
  BY <1>1, <1>3 DEF NextSlot, Slots
<1>4. QED
  BY <1>1, <1>2, <1>3 DEF Slots

-----------------------------------------------------------------------------
(***************************************************************************)
(* CacheInv is inductive.                                                  *)
(***************************************************************************)
LEMMA InitCache == Init => CacheInv
<1> SUFFICES ASSUME Init PROVE CacheInv
  OBVIOUS
<1>1. Entries \in Nat \ {0} /\ Buckets \in Nat \ {0} /\ MaxPath \in Nat \ {0} /\ 0 \in Slots
  BY RouteCacheAssumption DEF Slots
<1>2. ASSUME NEW b \in 0..(Buckets - 1) PROVE EntryOK(table[b])
  <2>1. PICK keys, hs : keys = [i \in Slots |-> << >>] /\ hs = [i \in Slots |-> NoHandler]
    OBVIOUS
  <2>2. table[b] = [keys |-> keys, handlers |-> hs, nextToEvict |-> 0]
    BY <2>1 DEF Init, Slots
  <2>3. keys \in [Slots -> Seq(Chars)] /\ \A i \in Slots : keys[i] = << >> /\ Len(keys[i]) < MaxPath
    BY <1>1, <2>1
  <2>4. hs \in [Slots -> Requests \cup {NoHandler}]
    BY <2>1
  <2>5. QED
    BY <1>1, <2>2, <2>3, <2>4 DEF EntryOK, EntryFields
<1>3. table = [b \in 0..(Buckets - 1) |-> table[b]]
  BY DEF Init
<1>4. AnswerOK
  BY DEF Init, AnswerOK
<1>5. QED
  BY <1>2, <1>3, <1>4 DEF CacheInv, TableOK

(* The bucket of a key, after the key was inserted.                        *)
EntryWith(e, path, handler) ==
  [keys        |-> [e.keys EXCEPT ![e.nextToEvict] = AsCString(path)],
   handlers    |-> [e.handlers EXCEPT ![e.nextToEvict] = handler],
   nextToEvict |-> NextSlot(e.nextToEvict)]

LEMMA InsertedIs ==
  ASSUME TableOK, NEW r \in Requests, Len(Key(r)) + 1 <= MaxPath
  PROVE  /\ Inserted(Key(r), r) = [table EXCEPT ![Hash(Key(r))] = EntryWith(table[Hash(Key(r))], Key(r), r)]
<1>1. PICK path : path = Key(r)
  OBVIOUS
<1>2. PICK b \in 0..(Buckets - 1) : b = Hash(path)
  BY <1>1, KeyType
<1>3. PICK e : e = table[b]
  OBVIOUS
<1>4. Len(path) \in Nat /\ MaxPath \in Nat
  BY <1>1, KeyType, RouteCacheAssumption
<1>5. Inserted(path, r) = [table EXCEPT ![b] =
          [keys        |-> [@.keys EXCEPT ![table[b].nextToEvict] = AsCString(path)],
           handlers    |-> [@.handlers EXCEPT ![table[b].nextToEvict] = r],
           nextToEvict |-> NextSlot(@.nextToEvict)]]
  BY <1>1, <1>2, <1>4 DEF Inserted
<1>6. @ = [table EXCEPT ![b] = EntryWith(e, path, r)]
  BY <1>3 DEF EntryWith
<1>7. QED
  BY <1>1, <1>2, <1>3, <1>5, <1>6

LEMMA EntryWithOK ==
  ASSUME NEW e, EntryOK(e), NEW r \in Requests, Len(Key(r)) + 1 <= MaxPath,
         NEW f, f = EntryWith(e, Key(r), r)
  PROVE  /\ EntryOK(f)
         /\ f.nextToEvict = NextSlot(e.nextToEvict)
         /\ f.keys[e.nextToEvict] = AsCString(Key(r))
         /\ \A i \in Slots : i # e.nextToEvict => f.keys[i] = e.keys[i]
<1>1. PICK k : k = AsCString(Key(r))
  OBVIOUS
<1>2. PICK n \in Slots : n = e.nextToEvict
  BY DEF EntryOK
<1>3. k \in Seq(Chars) /\ Len(k) < MaxPath
  <2>1. k \in Seq(Chars) /\ Len(k) <= Len(Key(r)) /\ Len(Key(r)) \in Nat /\ Len(k) \in Nat
    <3>1. PICK s \in Seq(Chars) : s = Key(r)
      BY KeyType
    <3>2. AsCString(s) \in Seq(Chars) /\ Len(AsCString(s)) <= Len(s)
      BY AsCStringType
    <3>3. QED
      BY <1>1, <3>1, <3>2
  <2>2. MaxPath \in Nat
    BY RouteCacheAssumption
  <2>3. QED
    BY <2>1, <2>2
<1>4. PICK keys : keys = [e.keys EXCEPT ![n] = k]
  OBVIOUS
<1>5. PICK hs : hs = [e.handlers EXCEPT ![n] = r]
  OBVIOUS
<1>6. f = [keys |-> keys, handlers |-> hs, nextToEvict |-> NextSlot(n)]
  BY <1>1, <1>2, <1>4, <1>5 DEF EntryWith
<1>7. /\ keys \in [Slots -> Seq(Chars)] /\ keys[n] = k
      /\ \A i \in Slots : i # n => keys[i] = e.keys[i]
  BY <1>3, <1>4 DEF EntryOK
<1>8. /\ hs \in [Slots -> Requests \cup {NoHandler}] /\ hs[n] = r
      /\ \A i \in Slots : i # n => hs[i] = e.handlers[i]
  BY <1>5 DEF EntryOK
<1>9. \A i \in Slots : /\ Len(keys[i]) < MaxPath
                       /\ \/ keys[i] = << >>
                          \/ hs[i] \in Requests /\ keys[i] = AsCString(Key(hs[i]))
  <2>1. TAKE i \in Slots
  <2>2. CASE i = n
    BY <1>1, <1>3, <1>7, <1>8, <2>2
  <2>3. CASE i # n
    BY <1>7, <1>8, <2>3 DEF EntryOK
  <2>4. QED
    BY <2>2, <2>3
<1>10. /\ f.keys = keys /\ f.handlers = hs /\ f.nextToEvict = NextSlot(n)
       /\ EntryFields(f)
  BY <1>6 DEF EntryFields
<1>11. EntryOK(f)
  BY <1>7, <1>8, <1>9, <1>10, NextSlotIs DEF EntryOK
<1>12. QED
  BY <1>1, <1>2, <1>7, <1>10, <1>11

LEMMA StepCache == CacheInv /\ [Next]_vars => CacheInv'
<1> SUFFICES ASSUME CacheInv, [Next]_vars PROVE CacheInv'
  OBVIOUS
<1>1. ASSUME NEW r \in Requests, CachedRoute(r) PROVE CacheInv'
  <2>1. PICK path : path = Key(r)
    OBVIOUS
  <2>2. PICK e : e = table[Hash(path)] /\ EntryOK(e)
    BY <2>1, KeyType DEF CacheInv, TableOK
  <2>3. PICK slots : slots = Matches(path)
    OBVIOUS
  <2>4. slots \subseteq Slots /\ slots # {} /\ \A i \in slots : e.keys[i] = path
    <3>1. DOMAIN e.keys = Slots
      BY <2>2 DEF EntryOK
    <3>2. slots = {i \in DOMAIN e.keys : e.keys[i] = path}
      BY <2>2, <2>3 DEF Matches
    <3>3. slots # {}
      BY <1>1, <2>1, <2>3 DEF CachedRoute
    <3>4. QED
      BY <3>1, <3>2, <3>3
  <2>5. PICK i \in slots : i = First(slots)
    <3>1. \E i \in slots : \A j \in slots : i <= j
      <4>1. slots \in SUBSET Nat
        BY <2>4, RouteCacheAssumption DEF Slots
      <4>2. QED
        BY <2>4, <4>1, LeastOfNat
    <3>2. QED
      BY <3>1 DEF First
  <2>6. answer' = [request |-> r, handler |-> e.handlers[i]]
    BY <1>1, <2>1, <2>2, <2>3, <2>5 DEF CachedRoute
  <2>7. e.handlers[i] \in Requests /\ AsCString(Key(e.handlers[i])) = Key(r)
    <3>1. i \in Slots /\ e.keys[i] = Key(r)
      BY <2>1, <2>4, <2>5
    <3>2. Key(r) # << >>
      BY KeyType
    <3>3. QED
      BY <2>2, <3>1, <3>2 DEF EntryOK
  <2>8. AnswerOK'
    BY <2>6, <2>7 DEF AnswerOK
  <2>9. QED
    BY <1>1, <2>8 DEF CacheInv, TableOK, CachedRoute
<1>2. ASSUME NEW r \in Requests, Route(r) PROVE CacheInv'
  <2>1. AnswerOK'
    BY <1>2 DEF AnswerOK, Route
  <2>2. TableOK'
    <3>1. PICK b \in 0..(Buckets - 1) : b = Hash(Key(r))
      BY KeyType
    <3>2. CASE Len(Key(r)) + 1 > MaxPath
      <4>1. table' = table
        BY <1>2, <3>2 DEF Route, Inserted
      <4>2. QED
        BY <4>1 DEF CacheInv, TableOK
    <3>3. CASE Len(Key(r)) + 1 <= MaxPath
      <4>1. PICK f : f = EntryWith(table[b], Key(r), r)
        OBVIOUS
      <4>2. table' = [table EXCEPT ![b] = f]
        BY <1>2, <3>1, <3>3, <4>1, InsertedIs DEF Route, CacheInv
      <4>3. EntryOK(f)
        BY <3>3, <4>1, EntryWithOK DEF CacheInv, TableOK
      <4>4. \A c \in 0..(Buckets - 1) : table'[c] = IF c = b THEN f ELSE table[c]
        BY <4>2 DEF CacheInv, TableOK
      <4>5. table' = [c \in 0..(Buckets - 1) |-> table'[c]]
        BY <4>2 DEF CacheInv, TableOK
      <4>6. \A c \in 0..(Buckets - 1) : EntryOK(table'[c])
        BY <4>3, <4>4 DEF CacheInv, TableOK
      <4>7. QED
        BY <4>5, <4>6 DEF TableOK, EntryOK, EntryFields
    <3>4. QED
      <4>1. Len(Key(r)) \in Nat /\ MaxPath \in Nat
        BY KeyType, RouteCacheAssumption
      <4>2. QED
        BY <3>2, <3>3, <4>1
  <2>3. QED
    BY <2>1, <2>2 DEF CacheInv
<1>3. ASSUME NEW r \in Requests, RouterThrows(r) PROVE CacheInv'
  BY <1>3 DEF CacheInv, TableOK, AnswerOK, EntryOK, EntryFields, RouterThrows
<1>4. CASE UNCHANGED vars
  BY <1>4 DEF CacheInv, TableOK, AnswerOK, EntryOK, EntryFields, vars
<1>5. QED
  BY <1>1, <1>2, <1>3, <1>4 DEF Next

LEMMA CacheInvHolds == Spec => []CacheInv
BY InitCache, StepCache, PTL DEF Spec

-----------------------------------------------------------------------------
(***************************************************************************)
(* RecentInv is inductive, for requests without NUL: a key that is cut can *)
(* be in two slots.                                                        *)
(***************************************************************************)
LEMMA InitRecent == Init => AllRecent
<1> SUFFICES ASSUME Init PROVE AllRecent
  OBVIOUS
<1>1. ASSUME NEW b \in 0..(Buckets - 1) PROVE RecentOK(table[b], recent[b])
  <2>1. PICK q : q = recent[b] /\ q = << >>
    BY <1>1 DEF Init
  <2>2. PICK e : e = table[b]
    OBVIOUS
  <2>3. e.nextToEvict = 0 /\ \A i \in Slots : e.keys[i] = << >>
    BY <2>2 DEF Init, Slots
  <2>4. q \in Seq(Seq(Chars)) /\ Len(q) = 0
    BY <2>1
  <2>5. Entries \in Nat
    BY RouteCacheAssumption
  <2>6. RecentOK(e, q)
    BY <2>3, <2>4, <2>5 DEF RecentOK
  <2>7. QED
    BY <2>1, <2>2, <2>6
<1>2. recent = [b \in 0..(Buckets - 1) |-> recent[b]]
  BY DEF Init
<1>3. QED
  BY <1>1, <1>2 DEF AllRecent

(* The keys remembered for a bucket, after one more.                       *)
Newest(q, k) ==
  SubSeq(Append(q, k), IF Len(Append(q, k)) > Entries THEN 2 ELSE 1, Len(Append(q, k)))

LEMMA NewestIs ==
  ASSUME NEW q \in Seq(Seq(Chars)), NEW k \in Seq(Chars), Len(q) <= Entries
  PROVE  /\ Newest(q, k) \in Seq(Seq(Chars))
         /\ Len(q) < Entries => /\ Len(Newest(q, k)) = Len(q) + 1
                                /\ \A j \in 1..Len(q) : Newest(q, k)[j] = q[j]
                                /\ Newest(q, k)[Len(q) + 1] = k
         /\ Len(q) = Entries => /\ Len(Newest(q, k)) = Entries
                                /\ \A j \in 1..(Entries - 1) : Newest(q, k)[j] = q[j + 1]
                                /\ Newest(q, k)[Entries] = k
<1>1. PICK T : T = Seq(Chars)
  OBVIOUS
<1>2. PICK n \in Nat : n = Len(q)
  OBVIOUS
<1>3. PICK a : a = Append(q, k)
  OBVIOUS
<1>4. /\ a \in Seq(T) /\ Len(a) = n + 1 /\ a[n + 1] = k
      /\ \A j \in 1..n : a[j] = q[j]
  BY <1>1, <1>2, <1>3, AppendProperties
<1>5. \A j \in 1..(n + 1) : a[j] \in T
  BY <1>4
<1>6. Entries \in Nat \ {0} /\ n <= Entries
  BY <1>2, RouteCacheAssumption
<1>7. CASE n < Entries
  <2>1. PICK s : s = SubSeq(a, 1, n + 1)
    OBVIOUS
  <2>2. /\ s \in Seq(T) /\ Len(s) = n + 1
        /\ \A j \in 1..(n + 1) : s[j] = a[j]
    <3>1. /\ SubSeq(a, 1, n + 1) \in Seq(T)
          /\ Len(SubSeq(a, 1, n + 1)) = IF 1 <= n + 1 THEN n + 1 - 1 + 1 ELSE 0
          /\ \A j \in 1..(n + 1 - 1 + 1) : SubSeq(a, 1, n + 1)[j] = a[1 + j - 1]
      BY <1>5, SubSeqProperties
    <3>2. QED
      BY <2>1, <3>1
  <2>3. Newest(q, k) = s
    BY <1>3, <1>4, <1>6, <1>7, <2>1 DEF Newest
  <2>4. QED
    BY <1>1, <1>2, <1>4, <1>6, <1>7, <2>2, <2>3
<1>8. CASE n = Entries
  <2>1. PICK s : s = SubSeq(a, 2, n + 1)
    OBVIOUS
  <2>2. /\ s \in Seq(T) /\ Len(s) = n
        /\ \A j \in 1..n : s[j] = a[j + 1]
    <3>1. /\ SubSeq(a, 2, n + 1) \in Seq(T)
          /\ Len(SubSeq(a, 2, n + 1)) = IF 2 <= n + 1 THEN n + 1 - 2 + 1 ELSE 0
          /\ \A j \in 1..(n + 1 - 2 + 1) : SubSeq(a, 2, n + 1)[j] = a[2 + j - 1]
      BY <1>5, SubSeqProperties
    <3>2. QED
      BY <1>6, <1>8, <2>1, <3>1
  <2>3. Newest(q, k) = s
    BY <1>3, <1>4, <1>6, <1>8, <2>1 DEF Newest
  <2>4. \A j \in 1..(Entries - 1) : s[j] = q[j + 1]
    BY <1>4, <1>6, <1>8, <2>2
  <2>5. s[Entries] = k
    BY <1>4, <1>6, <1>8, <2>2
  <2>6. QED
    BY <1>1, <1>2, <1>6, <1>8, <2>2, <2>3, <2>4, <2>5
<1>9. QED
  BY <1>6, <1>7, <1>8

(* One insertion into a bucket that does not hold the key.                 *)
LEMMA RecentStep ==
  ASSUME NEW e, NEW q, NEW k, NEW f, EntryOK(e), RecentOK(e, q),
         k \in Seq(Chars), k # << >>, \A i \in Slots : e.keys[i] # k,
         f.nextToEvict = NextSlot(e.nextToEvict), f.keys[e.nextToEvict] = k,
         \A i \in Slots : i # e.nextToEvict => f.keys[i] = e.keys[i]
  PROVE  RecentOK(f, Newest(q, k))
<1>1. PICK ne \in Slots : ne = e.nextToEvict
  BY DEF EntryOK
<1>2. PICK p \in Seq(Seq(Chars)) : p = q
  BY DEF RecentOK
<1>3. PICK n \in Nat : n = Len(p)
  OBVIOUS
<1>4. /\ n <= Entries
      /\ n < Entries => ne = n
      /\ \A j \in 1..n : p[j] # << >> /\ e.keys[SlotOf(ne, n, j)] = p[j]
      /\ \A i \in Slots : i >= n => e.keys[i] = << >>
      /\ \A i, j \in 1..n : p[i] = p[j] => i = j
  BY <1>1, <1>2, <1>3 DEF RecentOK
<1>5. Entries \in Nat \ {0} /\ n <= Entries /\ ne \in Nat /\ ne < Entries
  BY <1>4, RouteCacheAssumption DEF Slots
<1>6. PICK s : s = [j \in 1..n |-> SlotOf(ne, n, j)]
  OBVIOUS
<1>7. \A j \in 1..n : s[j] \in Slots
  BY <1>4, <1>5, <1>6 DEF SlotOf, Slots
<1>8. \A j \in 1..n : e.keys[s[j]] = p[j] /\ p[j] # k
  BY <1>4, <1>6, <1>7
<1>9. PICK nx \in Slots : nx = NextSlot(ne)
  BY NextSlotIs
<1>10. nx = IF ne + 1 = Entries THEN 0 ELSE ne + 1
  <2>1. NextSlot(ne) = IF ne + 1 = Entries THEN 0 ELSE ne + 1
    BY NextSlotIs
  <2>2. QED
    BY <1>9, <2>1
<1>11. /\ f.nextToEvict = nx /\ f.keys[ne] = k
       /\ \A i \in Slots : i # ne => f.keys[i] = e.keys[i]
  BY <1>1, <1>9
<1>12. PICK c \in Seq(Chars) : c = k
  OBVIOUS
<1>13. PICK r : r = Newest(p, c)
  OBVIOUS
<1>14. CASE n < Entries
  <2>1. /\ r \in Seq(Seq(Chars)) /\ Len(r) = n + 1 /\ r[n + 1] = k
        /\ \A j \in 1..n : r[j] = p[j]
    <3>1. /\ Newest(p, c) \in Seq(Seq(Chars)) /\ Len(Newest(p, c)) = Len(p) + 1
          /\ \A j \in 1..Len(p) : Newest(p, c)[j] = p[j]
          /\ Newest(p, c)[Len(p) + 1] = c
      BY <1>3, <1>14, <1>4, NewestIs
    <3>2. QED
      BY <1>3, <1>12, <1>13, <3>1
  <2>2. ne = n
    BY <1>4, <1>14
  <2>3. PICK t : t = [j \in 1..(n + 1) |-> SlotOf(nx, n + 1, j)]
    OBVIOUS
  <2>4. \A j \in 1..n : s[j] = j - 1
    BY <1>6, <1>14 DEF SlotOf
  <2>5. \A j \in 1..(n + 1) : t[j] = j - 1
    BY <1>5, <1>10, <1>14, <2>2, <2>3 DEF SlotOf
  <2>6. \A j \in 1..(n + 1) : r[j] # << >> /\ f.keys[t[j]] = r[j]
    <3>1. TAKE j \in 1..(n + 1)
    <3>2. CASE j = n + 1
      <4>1. t[j] = ne
        BY <2>2, <2>5, <3>2
      <4>2. QED
        BY <1>11, <2>1, <3>2, <4>1
    <3>3. CASE j \in 1..n
      <4>1. t[j] = s[j] /\ s[j] # ne /\ s[j] \in Slots
        BY <1>7, <2>2, <2>4, <2>5, <3>3
      <4>2. f.keys[s[j]] = e.keys[s[j]]
        BY <1>11, <4>1
      <4>3. r[j] = p[j] /\ e.keys[s[j]] = p[j] /\ p[j] # << >>
        BY <1>4, <1>8, <2>1, <3>3
      <4>4. QED
        BY <4>1, <4>2, <4>3
    <3>4. QED
      BY <3>2, <3>3
  <2>7. ASSUME NEW i \in Slots, i >= n + 1 PROVE f.keys[i] = << >>
    <3>1. i \in Nat /\ i # ne /\ i >= n
      BY <1>5, <2>2, <2>7 DEF Slots
    <3>2. QED
      BY <1>4, <1>11, <3>1
  <2>8. ASSUME NEW i \in 1..(n + 1), NEW j \in 1..(n + 1), r[i] = r[j] PROVE i = j
    <3>1. CASE i = n + 1 /\ j = n + 1
      BY <3>1
    <3>2. CASE i \in 1..n /\ j = n + 1
      BY <1>8, <2>1, <2>8, <3>2
    <3>3. CASE i = n + 1 /\ j \in 1..n
      BY <1>8, <2>1, <2>8, <3>3
    <3>4. CASE i \in 1..n /\ j \in 1..n
      BY <1>4, <2>1, <2>8, <3>4
    <3>5. QED
      BY <3>1, <3>2, <3>3, <3>4
  <2>9. Len(r) < Entries => nx = Len(r)
    BY <1>5, <1>10, <2>1, <2>2
  <2>10. \A j \in 1..(n + 1) : f.keys[SlotOf(nx, n + 1, j)] = r[j]
    BY <2>3, <2>6
  <2>11. Len(r) <= Entries
    BY <1>5, <1>14, <2>1
  <2>12. RecentOK(f, r)
    BY <1>11, <2>1, <2>6, <2>7, <2>8, <2>9, <2>10, <2>11 DEF RecentOK
  <2>13. QED
    BY <1>2, <1>12, <1>13, <2>12
<1>15. CASE n = Entries
  <2>1. /\ r \in Seq(Seq(Chars)) /\ Len(r) = n /\ r[n] = k
        /\ \A j \in 1..(n - 1) : r[j] = p[j + 1]
    <3>1. /\ Newest(p, c) \in Seq(Seq(Chars)) /\ Len(Newest(p, c)) = Entries
          /\ \A j \in 1..(Entries - 1) : Newest(p, c)[j] = p[j + 1]
          /\ Newest(p, c)[Entries] = c
      <4>1. Len(p) = Entries /\ Len(p) <= Entries
        BY <1>3, <1>5, <1>15
      <4>2. p \in Seq(Seq(Chars)) /\ c \in Seq(Chars)
        BY <1>3, <1>12
      <4>3. /\ Newest(p, c) \in Seq(Seq(Chars))
            /\ Len(p) = Entries => /\ Len(Newest(p, c)) = Entries
                                   /\ \A j \in 1..(Entries - 1) : Newest(p, c)[j] = p[j + 1]
                                   /\ Newest(p, c)[Entries] = c
        BY <4>1, <4>2, NewestIs, Zenon
      <4>4. QED
        BY <4>1, <4>3, Zenon
    <3>2. QED
      BY <1>12, <1>13, <1>15, <3>1
  <2>2. PICK t : t = [j \in 1..n |-> SlotOf(nx, n, j)]
    OBVIOUS
  <2>3. \A j \in 1..n : s[j] = IF ne + j - 1 < n THEN ne + j - 1 ELSE ne + j - 1 - n
    BY <1>5, <1>6, <1>15 DEF SlotOf
  <2>4. \A j \in 1..n : t[j] = IF nx + j - 1 < n THEN nx + j - 1 ELSE nx + j - 1 - n
    BY <1>5, <1>15, <2>2 DEF SlotOf
  <2>5. ASSUME NEW j \in 1..n, j < n PROVE t[j] = s[j + 1] /\ s[j + 1] # ne /\ j + 1 \in 1..n
    <3>1. j + 1 \in 1..n
      BY <2>5
    <3>2. s[j + 1] = IF ne + j < n THEN ne + j ELSE ne + j - n
      <4>1. s[j + 1] = IF ne + (j + 1) - 1 < n THEN ne + (j + 1) - 1 ELSE ne + (j + 1) - 1 - n
        BY <2>3, <3>1
      <4>2. PICK a \in Nat : a = ne + j /\ ne + (j + 1) - 1 = a
        BY <1>5
      <4>3. QED
        BY <4>1, <4>2
    <3>3. t[j] = IF nx + j - 1 < n THEN nx + j - 1 ELSE nx + j - 1 - n
      BY <2>4
    <3>4. CASE ne + 1 = n
      BY <1>5, <1>10, <1>15, <2>5, <3>1, <3>2, <3>3, <3>4
    <3>5. CASE ne + 1 # n
      BY <1>5, <1>10, <1>15, <2>5, <3>1, <3>2, <3>3, <3>5
    <3>6. QED
      BY <3>4, <3>5
  <2>6. t[n] = ne
    <3>1. t[n] = IF nx + n - 1 < n THEN nx + n - 1 ELSE nx + n - 1 - n
      BY <1>5, <1>15, <2>4
    <3>2. QED
      BY <1>5, <1>10, <1>15, <3>1
  <2>7. \A j \in 1..n : r[j] # << >> /\ f.keys[t[j]] = r[j]
    <3>1. TAKE j \in 1..n
    <3>2. CASE j = n
      BY <1>11, <2>1, <2>6, <3>2
    <3>3. CASE j < n
      <4>1. t[j] = s[j + 1] /\ s[j + 1] # ne /\ j + 1 \in 1..n
        BY <2>5, <3>3
      <4>2. s[j + 1] \in Slots /\ e.keys[s[j + 1]] = p[j + 1] /\ p[j + 1] # << >>
        BY <1>4, <1>7, <1>8, <4>1
      <4>3. f.keys[t[j]] = p[j + 1]
        BY <1>11, <4>1, <4>2
      <4>4. r[j] = p[j + 1]
        <5>1. j \in 1..(n - 1)
          BY <3>3
        <5>2. QED
          BY <2>1, <5>1
      <4>5. QED
        BY <4>2, <4>3, <4>4
    <3>4. QED
      BY <3>2, <3>3
  <2>8. ASSUME NEW i \in Slots, i >= n PROVE f.keys[i] = << >>
    BY <1>5, <1>15, <2>8 DEF Slots
  <2>9. ASSUME NEW i \in 1..n, NEW j \in 1..n, r[i] = r[j] PROVE i = j
    <3>1. ASSUME NEW x \in 1..n, x < n PROVE r[x] = p[x + 1] /\ x + 1 \in 1..n
      <4>1. x \in 1..(n - 1) /\ x + 1 \in 1..n
        BY <3>1
      <4>2. QED
        BY <2>1, <4>1
    <3>2. CASE i = n /\ j = n
      BY <3>2
    <3>3. CASE i < n /\ j = n
      <4>1. p[i + 1] = k /\ i + 1 \in 1..n
        BY <2>1, <2>9, <3>1, <3>3
      <4>2. QED
        BY <1>8, <4>1
    <3>4. CASE i = n /\ j < n
      <4>1. p[j + 1] = k /\ j + 1 \in 1..n
        BY <2>1, <2>9, <3>1, <3>4
      <4>2. QED
        BY <1>8, <4>1
    <3>5. CASE i < n /\ j < n
      <4>1. p[i + 1] = p[j + 1] /\ i + 1 \in 1..n /\ j + 1 \in 1..n
        BY <2>9, <3>1, <3>5
      <4>2. i + 1 = j + 1
        BY <1>4, <4>1
      <4>3. QED
        BY <4>2
    <3>6. QED
      BY <3>2, <3>3, <3>4, <3>5
  <2>10. \A j \in 1..n : f.keys[SlotOf(nx, n, j)] = r[j]
    BY <2>2, <2>7
  <2>11. Len(r) <= Entries /\ ~(Len(r) < Entries)
    BY <1>5, <1>15, <2>1
  <2>12. RecentOK(f, r)
    BY <1>11, <2>1, <2>7, <2>8, <2>9, <2>10, <2>11 DEF RecentOK
  <2>13. QED
    BY <1>2, <1>12, <1>13, <2>12
<1>16. QED
  BY <1>5, <1>14, <1>15

(* What a request without NUL looks for is what it finds, or adds.         *)
LEMMA PlainKey ==
  ASSUME NoNulRequests, NEW r \in Requests
  PROVE  AsCString(Key(r)) = Key(r)
<1>1. PICK s \in Seq(Chars) : s = Key(r)
  BY KeyType
<1>2. \A i \in DOMAIN s : s[i] # "NUL"
  BY <1>1 DEF NoNulRequests
<1>3. AsCString(s) = s
  BY <1>2, AsCStringType
<1>4. QED
  BY <1>1, <1>3

LEMMA StepRecent == NoNulRequests /\ CacheInv /\ AllRecent /\ [Next]_vars => AllRecent'
<1> SUFFICES ASSUME NoNulRequests, CacheInv, AllRecent, [Next]_vars PROVE AllRecent'
  OBVIOUS
<1>1. CASE UNCHANGED <<table, recent>>
  BY <1>1 DEF AllRecent, RecentOK
<1>2. ASSUME NEW r \in Requests, Route(r) PROVE AllRecent'
  <2>1. PICK b \in 0..(Buckets - 1) : b = Hash(Key(r))
    BY KeyType
  <2>2. CASE Len(Key(r)) + 1 > MaxPath
    <3>1. UNCHANGED <<table, recent>>
      BY <1>2, <2>2 DEF Route, Inserted
    <3>2. QED
      BY <1>1, <3>1
  <2>3. CASE Len(Key(r)) + 1 <= MaxPath
    <3>1. PICK e, q, k : e = table[b] /\ q = recent[b] /\ k = Key(r)
      OBVIOUS
    <3>2. EntryOK(e) /\ RecentOK(e, q)
      BY <3>1 DEF CacheInv, TableOK, AllRecent
    <3>3. PICK f : f = EntryWith(e, k, r)
      OBVIOUS
    <3>4. table' = [table EXCEPT ![b] = f]
      BY <1>2, <2>1, <2>3, <3>1, <3>3, InsertedIs DEF Route, CacheInv
    <3>5. recent' = [recent EXCEPT ![b] = Newest(q, k)]
      <4>1. ~(Len(Key(r)) + 1 > MaxPath)
        BY <2>3, KeyType, RouteCacheAssumption
      <4>2. QED
        BY <1>2, <2>1, <3>1, <4>1 DEF Route, Newest
    <3>6. /\ f.nextToEvict = NextSlot(e.nextToEvict)
          /\ f.keys[e.nextToEvict] = k
          /\ \A i \in Slots : i # e.nextToEvict => f.keys[i] = e.keys[i]
      BY <2>3, <3>1, <3>2, <3>3, EntryWithOK, PlainKey
    <3>7. \A i \in Slots : e.keys[i] # k
      <4>1. DOMAIN e.keys = Slots
        BY <3>2 DEF EntryOK
      <4>2. Matches(k) = {}
        BY <1>2, <3>1 DEF Route
      <4>3. QED
        BY <2>1, <3>1, <4>1, <4>2 DEF Matches
    <3>8. k \in Seq(Chars) /\ k # << >>
      BY <3>1, KeyType
    <3>9. RecentOK(f, Newest(q, k))
      BY <3>2, <3>6, <3>7, <3>8, RecentStep
    <3>10. \A c \in 0..(Buckets - 1) : /\ table'[c] = IF c = b THEN f ELSE table[c]
                                       /\ recent'[c] = IF c = b THEN Newest(q, k) ELSE recent[c]
      BY <3>4, <3>5 DEF CacheInv, TableOK, AllRecent
    <3>11. recent' = [c \in 0..(Buckets - 1) |-> recent'[c]]
      BY <3>5 DEF AllRecent
    <3>12. \A c \in 0..(Buckets - 1) : RecentOK(table'[c], recent'[c])
      BY <3>9, <3>10 DEF AllRecent
    <3>13. QED
      BY <3>11, <3>12 DEF AllRecent, RecentOK
  <2>4. QED
    <3>1. Len(Key(r)) \in Nat /\ MaxPath \in Nat
      BY KeyType, RouteCacheAssumption
    <3>2. QED
      BY <2>2, <2>3, <3>1
<1>3. QED
  BY <1>1, <1>2 DEF Next, CachedRoute, RouterThrows, vars

-----------------------------------------------------------------------------
(***************************************************************************)
(* What a bucket holds, read off RecentOK.                                 *)
(***************************************************************************)
LEMMA RecentIsHeld ==
  ASSUME NEW e, NEW q, EntryOK(e), RecentOK(e, q),
         NEW used, used = {i \in Slots : e.keys[i] # << >>}
  PROVE  /\ {e.keys[i] : i \in used} = Range(q)
         /\ Cardinality(used) = Cardinality(Range(q))
<1>1. PICK ne \in Slots : ne = e.nextToEvict
  BY DEF EntryOK
<1>2. PICK p \in Seq(Seq(Chars)) : p = q
  BY DEF RecentOK
<1>3. PICK n \in Nat : n = Len(p)
  OBVIOUS
<1>4. /\ n <= Entries
      /\ \A j \in 1..n : p[j] # << >> /\ e.keys[SlotOf(ne, n, j)] = p[j]
      /\ \A i \in Slots : i >= n => e.keys[i] = << >>
      /\ \A i, j \in 1..n : p[i] = p[j] => i = j
  BY <1>1, <1>2, <1>3 DEF RecentOK
<1>5. Entries \in Nat \ {0} /\ n <= Entries /\ ne \in Nat /\ ne < Entries
  BY <1>4, RouteCacheAssumption DEF Slots
<1>6. PICK s : s = [j \in 1..n |-> SlotOf(ne, n, j)]
  OBVIOUS
<1>7. \A j \in 1..n : s[j] \in used /\ e.keys[s[j]] = p[j]
  <2>1. \A j \in 1..n : s[j] \in Slots
    BY <1>5, <1>6 DEF SlotOf, Slots
  <2>2. \A j \in 1..n : s[j] = SlotOf(ne, n, j)
    BY <1>6
  <2>3. QED
    BY <1>4, <2>1, <2>2
<1>8. ASSUME NEW i \in used PROVE \E j \in 1..n : s[j] = i
  <2>1. i \in Slots /\ i \in Nat /\ i < n /\ i < Entries
    BY <1>4, <1>5, <1>8 DEF Slots
  <2>2. CASE n < Entries
    <3>1. i + 1 \in 1..n
      BY <2>1
    <3>2. s[i + 1] = i
      BY <1>5, <1>6, <2>1, <2>2, <3>1 DEF SlotOf
    <3>3. QED
      BY <3>1, <3>2
  <2>3. CASE n = Entries /\ i >= ne
    <3>1. PICK j \in 1..n : j = i - ne + 1
      BY <1>5, <2>1, <2>3
    <3>2. s[j] = i
      BY <1>5, <1>6, <2>1, <2>3, <3>1 DEF SlotOf
    <3>3. QED
      BY <3>2
  <2>4. CASE n = Entries /\ i < ne
    <3>1. PICK j \in 1..n : j = i + n - ne + 1
      BY <1>5, <2>1, <2>4
    <3>2. s[j] = i
      BY <1>5, <1>6, <2>1, <2>4, <3>1 DEF SlotOf
    <3>3. QED
      BY <3>2
  <2>5. QED
    BY <1>5, <2>1, <2>2, <2>3, <2>4
<1>9. Range(q) = {p[j] : j \in 1..n}
  <2>1. DOMAIN p = 1..n
    BY <1>3
  <2>2. Range(p) = {p[j] : j \in DOMAIN p}
    BY Zenon DEF Range
  <2>3. QED
    BY <1>2, <2>1, <2>2
<1>10. {e.keys[i] : i \in used} = Range(q)
  BY <1>7, <1>8, <1>9
<1>11. PICK F : F = [i \in used |-> e.keys[i]]
  OBVIOUS
<1>12. F \in Injection(used, Range(q))
  <2>1. F \in [used -> Range(q)]
    BY <1>10, <1>11
  <2>2. ASSUME NEW i \in used, NEW j \in used, F[i] = F[j] PROVE i = j
    <3>1. PICK x \in 1..n : s[x] = i
      BY <1>8
    <3>2. PICK y \in 1..n : s[y] = j
      BY <1>8
    <3>3. p[x] = p[y]
      BY <1>7, <1>11, <2>2, <3>1, <3>2
    <3>4. QED
      BY <1>4, <3>1, <3>2, <3>3
  <2>3. DOMAIN F = used
    BY <1>11
  <2>4. QED
    BY <2>1, <2>2, <2>3 DEF Injection, IsInjective
<1>13. F \in Surjection(used, Range(q))
  <2>1. F \in [used -> Range(q)]
    BY <1>10, <1>11
  <2>2. \A y \in Range(q) : \E i \in used : F[i] = y
    BY <1>10, <1>11
  <2>3. QED
    BY <2>1, <2>2 DEF Surjection
<1>14. IsFiniteSet(used)
  <2>1. IsFiniteSet(Slots)
    BY <1>5, FS_Interval DEF Slots
  <2>2. QED
    BY <2>1, FS_Subset
<1>15. Cardinality(Range(q)) = Cardinality(used)
  BY <1>12, <1>13, <1>14, FS_Surjection
<1>16. QED
  BY <1>10, <1>15

-----------------------------------------------------------------------------
(***************************************************************************)
(* The theorems.                                                           *)
(***************************************************************************)

(* Every key is shorter than the array it is kept in, and a bucket keeps   *)
(* only handlers that the router returned (route_cache.C).                 *)
THEOREM RouteCacheTyped == Spec => []TypeOK
<1>1. CacheInv => TypeOK
  <2> SUFFICES ASSUME CacheInv PROVE TypeOK
    OBVIOUS
  <2>1. ASSUME NEW b \in 0..(Buckets - 1)
        PROVE  /\ DOMAIN table[b].keys = Slots
               /\ \A i \in Slots : /\ Len(table[b].keys[i]) < MaxPath
                                    /\ table[b].handlers[i] \in Requests \cup {NoHandler}
               /\ table[b].nextToEvict \in Slots
    BY <2>1 DEF CacheInv, TableOK, EntryOK
  <2>2. QED
    BY <2>1 DEF TypeOK, CacheInv, AnswerOK, Slots
<1>2. QED
  BY <1>1, CacheInvHolds, PTL

(* Without a NUL in a request, a request never gets the handler of         *)
(* another, however many requests fall into its bucket, unless one of the  *)
(* two hosts contains the separator (cppsp.C:264-284).  The code excludes  *)
(* neither; the run MCRouteCacheNul shows what a NUL does.                 *)
THEOREM RoutesAreCorrect == ASSUME NoNulRequests PROVE Spec => []RoutesCorrect
<1>1. NoNulRequests /\ CacheInv => RoutesCorrect
  <2> SUFFICES ASSUME NoNulRequests, CacheInv PROVE RoutesCorrect
    OBVIOUS
  <2>1. CASE answer.handler = answer.request
    BY <2>1 DEF RoutesCorrect
  <2>2. CASE /\ answer.request \in Requests /\ answer.handler \in Requests
             /\ AsCString(Key(answer.handler)) = Key(answer.request)
    <3>1. Key(answer.handler) = Key(answer.request)
      BY <2>2, PlainKey
    <3>2. PICK r \in Requests, s \in Requests : r = answer.handler /\ s = answer.request
      BY <2>2
    <3>3. CASE ~HostHasSeparator(r) /\ ~HostHasSeparator(s)
      <4>1. r = s
        BY <3>1, <3>2, <3>3, KeyInjective
      <4>2. QED
        BY <3>2, <4>1 DEF RoutesCorrect
    <3>4. CASE HostHasSeparator(r) \/ HostHasSeparator(s)
      BY <3>2, <3>4 DEF RoutesCorrect
    <3>5. QED
      BY <3>3, <3>4
  <2>3. QED
    BY <2>1, <2>2 DEF CacheInv, AnswerOK
<1>2. QED
  BY <1>1, CacheInvHolds, PTL

(* Under the same hypothesis a bucket holds the last keys that were        *)
(* inserted into it, no key twice (route_cache.C:32-43).                   *)
THEOREM BucketsHoldTheMostRecent == ASSUME NoNulRequests PROVE Spec => []HoldsMostRecent
<1>1. RecentInv => HoldsMostRecent
  BY RecentIsHeld DEF RecentInv, CacheInv, TableOK, AllRecent, HoldsMostRecent, Slots
<1>2. Init => RecentInv
  BY InitCache, InitRecent DEF RecentInv
<1>3. NoNulRequests /\ RecentInv /\ [Next]_vars => RecentInv'
  BY StepCache, StepRecent DEF RecentInv
<1>4. QED
  BY <1>1, <1>2, <1>3, PTL DEF Spec

===============================================================================
