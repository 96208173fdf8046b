----------------------------- MODULE CommonLemmas -----------------------------
(***************************************************************************)
(* Least and greatest numbers, and the concatenation of sequences, as far  *)
(* as the proofs of several modules need them.  Induction goes by least    *)
(* counterexample; a recursive function is shown to exist, as the union of *)
(* its approximations, before anything is said of its values.              *)
(***************************************************************************)
EXTENDS Integers, SequencesExt, SequenceTheorems, WellFoundedInduction, TLAPS

(* The naturals are well ordered.                                          *)
LEMMA LeastOfNat ==
  ASSUME NEW T \in SUBSET Nat, T # {} PROVE \E x \in T : \A y \in T : x <= y
<1> DEFINE R == OpToRel(<, Nat)
<1>1. IsWellFoundedOn(R, Nat)
  BY NatLessThanWellFounded
<1>2. \A x, y \in Nat : <<x, y>> \in R <=> x < y
  BY DEF OpToRel
<1> HIDE DEF R
<1>3. PICK x \in T : \A y \in T : ~ (<<y, x>> \in R)
  BY <1>1, WFMin
<1>4. \A y \in T : ~(y < x)
  BY <1>2, <1>3, Zenon
<1>5. QED
  BY <1>4

(* Max is the greatest element of a nonempty bounded set of naturals.      *)
LEMMA MaxOfBounded ==
  ASSUME NEW S \in SUBSET Nat, S # {}, NEW b \in Nat, \A x \in S : x <= b
  PROVE  Max(S) \in S /\ \A x \in S : x <= Max(S)
<1> DEFINE Gaps == {n \in Nat : \E x \in S : x + n = b}
<1>1. Gaps \in SUBSET Nat
  OBVIOUS
<1>2. Gaps # {}
  <2>1. PICK x \in S : TRUE
    OBVIOUS
  <2>2. b - x \in Nat /\ x + (b - x) = b
    OBVIOUS
  <2>3. QED
    BY <2>2
<1>3. PICK g \in Gaps : \A h \in Gaps : g <= h
  BY <1>1, <1>2, LeastOfNat
<1>4. PICK m \in S : m + g = b
  OBVIOUS
<1>5. \A x \in S : m >= x
  <2>1. TAKE x \in S
  <2>2. b - x \in Gaps
    OBVIOUS
  <2>3. g <= b - x
    BY <1>3, <2>2
  <2>4. QED
    BY <1>4, <2>3
<1>6. \E x \in S : \A y \in S : x >= y
  BY <1>5
<1>7. Max(S) \in S /\ \A y \in S : Max(S) >= y
  BY <1>6, Zenon DEF Max
<1>8. QED
  BY <1>7

(* Min is the least element of a nonempty set of naturals.                 *)
LEMMA MinOfNat ==
  ASSUME NEW S \in SUBSET Nat, S # {}
  PROVE  Min(S) \in S /\ \A x \in S : Min(S) <= x
<1>1. \E x \in S : \A y \in S : x <= y
  BY LeastOfNat
<1>2. QED
  BY <1>1, Zenon DEF Min

(* A function on 1..n is a sequence of length n.                           *)
LEMMA FunctionIsSeq ==
  ASSUME NEW S, NEW n \in Nat, NEW f \in [1..n -> S]
  PROVE  f \in Seq(S) /\ Len(f) = n
<1>1. f \in Seq(S)
  BY SeqDef
<1>2. Len(f) \in Nat /\ DOMAIN f = 1..Len(f)
  BY <1>1, LenProperties
<1>3. 1..Len(f) = 1..n
  BY <1>2
<1>4. PICK m \in Nat : m = Len(f)
  BY <1>2
<1>5. m = n
  <2>1. \A k \in Int : k \in 1..m <=> k \in 1..n
    BY <1>3, <1>4
  <2>2. (m >= 1 => m <= n) /\ (n >= 1 => n <= m)
    BY <2>1
  <2>3. QED
    BY <2>2
<1>6. QED
  BY <1>1, <1>4, <1>5

(* A concatenation, part by part.                                          *)
LEMMA ConcatIs ==
  ASSUME NEW S, NEW s \in Seq(S), NEW t \in Seq(S), NEW m \in Nat, m = Len(s), NEW n \in Nat, n = Len(t)
  PROVE  /\ s \o t \in Seq(S)
         /\ Len(s \o t) = m + n
         /\ \A k \in 1..m : (s \o t)[k] = s[k]
         /\ \A k \in 1..n : (s \o t)[m + k] = t[k]
<1>1. s \o t \in Seq(S) /\ Len(s \o t) = m + n
  BY ConcatProperties
<1>2. \A k \in 1..m : (s \o t)[k] = s[k]
  <2>1. TAKE k \in 1..m
  <2>2. k \in 1..(Len(s) + Len(t)) /\ k <= Len(s)
    OBVIOUS
  <2>3. QED
    BY <2>2, ConcatProperties
<1>3. \A k \in 1..n : (s \o t)[m + k] = t[k]
  <2>1. TAKE k \in 1..n
  <2>2. PICK i \in Nat : i = m + k
    OBVIOUS
  <2>3. i \in 1..(Len(s) + Len(t)) /\ ~(i <= Len(s)) /\ i - Len(s) = k
    BY <2>2
  <2>4. (s \o t)[i] = t[i - Len(s)]
    BY <2>3, ConcatProperties
  <2>5. QED
    BY <2>2, <2>3, <2>4
<1>4. QED
  BY <1>1, <1>2, <1>3

Joins(c, s, t) ==
  /\ Len(c) = Len(s) + Len(t)
  /\ \A k \in 1..Len(s) : c[k] = s[k]
  /\ \A k \in 1..Len(t) : c[Len(s) + k] = t[k]

LEMMA ConcatJoins ==
  ASSUME NEW S, NEW s \in Seq(S), NEW t \in Seq(S)
  PROVE  s \o t \in Seq(S) /\ Joins(s \o t, s, t)
<1>1. PICK m \in Nat, n \in Nat : m = Len(s) /\ n = Len(t)
  OBVIOUS
<1>2. /\ s \o t \in Seq(S) /\ Len(s \o t) = m + n /\ \A k \in 1..m : (s \o t)[k] = s[k]
      /\ \A k \in 1..n : (s \o t)[m + k] = t[k]
  BY <1>1, ConcatIs
<1>3. QED
  BY <1>1, <1>2 DEF Joins

-----------------------------------------------------------------------------
(***************************************************************************)
(* FlattenSeq(ss), the concatenation of the sequences of ss.               *)
(***************************************************************************)
(* f holds the concatenation of the first i sequences; and so for i up to n. *)
Concatenates(f, i, ss) == f[i] = IF i = 1 THEN ss[i] ELSE f[i - 1] \o ss[i]

Flattens(f, n, ss, S) == f \in [1..n -> Seq(S)] /\ \A i \in 1..n : Concatenates(f, i, ss)

LEMMA FlattenExtends ==
  ASSUME NEW S, NEW ss \in Seq(Seq(S)), NEW n \in Nat, n < Len(ss), NEW f, Flattens(f, n, ss, S)
  PROVE  \E g : Flattens(g, n + 1, ss, S)
<1>1. PICK s \in Seq(S) : s = ss[n + 1]
  OBVIOUS
<1>2. PICK last \in Seq(S) : last = IF n + 1 = 1 THEN s ELSE f[n] \o s
  <2>1. n + 1 # 1 => f[n] \in Seq(S)
    BY DEF Flattens
  <2>2. n + 1 # 1 => f[n] \o s \in Seq(S)
    BY <2>1, ConcatProperties
  <2>3. QED
    BY <2>2
<1>3. PICK g : g = [i \in 1..(n + 1) |-> IF i = n + 1 THEN last ELSE f[i]]
  OBVIOUS
<1>4. \A i \in 1..(n + 1) : i = n + 1 \/ i \in 1..n
  OBVIOUS
<1>5. g \in [1..(n + 1) -> Seq(S)]
  BY <1>3, <1>4 DEF Flattens
<1>6. Concatenates(g, n + 1, ss)
  BY <1>1, <1>2, <1>3 DEF Concatenates
<1>7. \A i \in 1..n : g[i] = f[i] /\ (i # 1 => i - 1 \in 1..n /\ g[i - 1] = f[i - 1])
  BY <1>3
<1>8. \A i \in 1..n : Concatenates(g, i, ss)
  BY <1>7 DEF Flattens, Concatenates
<1>9. \A i \in 1..(n + 1) : Concatenates(g, i, ss)
  BY <1>4, <1>6, <1>8
<1>10. QED
  BY <1>5, <1>9 DEF Flattens

LEMMA FlattenExists ==
  ASSUME NEW S, NEW ss \in Seq(Seq(S)) PROVE \E f : Flattens(f, Len(ss), ss, S)
<1>1. PICK len \in Nat : len = Len(ss)
  OBVIOUS
<1> DEFINE Missing == {n \in Nat : n <= len /\ ~ \E f : Flattens(f, n, ss, S)}
<1>2. SUFFICES ASSUME Missing # {} PROVE FALSE
  BY <1>1
<1>3. PICK n \in Missing : \A k \in Missing : n <= k
  BY <1>2, LeastOfNat
<1>4. n # 0
  <2>1. PICK f : f = [k \in 1..0 |-> << >>]
    OBVIOUS
  <2>2. Flattens(f, 0, ss, S)
    BY <2>1 DEF Flattens
  <2>3. QED
    BY <1>3, <2>2
<1>5. PICK k \in Nat : k + 1 = n /\ k < len
  <2>1. n - 1 \in Nat /\ n - 1 + 1 = n /\ n - 1 < len
    BY <1>3, <1>4
  <2>2. QED
    BY <2>1
<1>6. k \notin Missing
  <2>1. ~(n <= k)
    BY <1>5
  <2>2. QED
    BY <1>3, <2>1
<1>7. PICK f : Flattens(f, k, ss, S)
  BY <1>5, <1>6
<1>8. \E g : Flattens(g, k + 1, ss, S)
  BY <1>1, <1>5, <1>7, FlattenExtends
<1>9. QED
  BY <1>3, <1>5, <1>8

(* The concatenations are determined by the sequences.                     *)
Follows(g, n, ss) == \A i \in 1..n : Concatenates(g, i, ss)

LEMMA FlattenUnique ==
  ASSUME NEW S, NEW ss, NEW n \in Nat, NEW f, Flattens(f, n, ss, S),
         NEW g, Follows(g, n, ss)
  PROVE  \A i \in 1..n : f[i] = g[i]
<1> DEFINE Wrong == {k \in Nat : k \in 1..n /\ f[k] # g[k]}
<1>1. SUFFICES ASSUME Wrong # {} PROVE FALSE
  OBVIOUS
<1>2. PICK k \in Wrong : \A j \in Wrong : k <= j
  BY <1>1, LeastOfNat
<1>3. k # 1 => k - 1 \in 1..n /\ k - 1 \notin Wrong
  BY <1>2
<1>4. k # 1 => f[k - 1] = g[k - 1]
  BY <1>3
<1>5. f[k] = IF k = 1 THEN ss[k] ELSE f[k - 1] \o ss[k]
  BY <1>2 DEF Flattens, Concatenates
<1>6. g[k] = IF k = 1 THEN ss[k] ELSE g[k - 1] \o ss[k]
  BY <1>2 DEF Follows, Concatenates
<1>7. QED
  BY <1>2, <1>4, <1>5, <1>6

LEMMA FlattenIs ==
  ASSUME NEW S, NEW ss \in Seq(Seq(S)), NEW f, Flattens(f, Len(ss), ss, S)
  PROVE  FlattenSeq(ss) = IF Len(ss) = 0 THEN << >> ELSE f[Len(ss)]
<1>1. CASE Len(ss) = 0
  BY <1>1 DEF FlattenSeq
<1>2. CASE Len(ss) # 0
  <2> DEFINE Fits(g) == g = [i \in 1..Len(ss) |-> IF i = 1 THEN ss[i] ELSE g[i - 1] \o ss[i]]
  <2>1. Fits(f)
    BY DEF Flattens, Concatenates
  <2>2. PICK g : g = CHOOSE h : Fits(h)
    OBVIOUS
  <2>3. Fits(g)
    BY <2>1, <2>2
  <2>4. FlattenSeq(ss) = g[Len(ss)]
    BY <1>2, <2>2 DEF FlattenSeq
  <2>5. \A i \in 1..Len(ss) : Concatenates(g, i, ss)
    BY <2>3 DEF Concatenates
  <2>6. PICK n \in Nat : n = Len(ss)
    OBVIOUS
  <2> HIDE DEF Fits
  <2>7. f[n] = g[n]
    <3>1. n \in 1..n
      BY <1>2, <2>6
    <3>2. n \in Nat /\ Flattens(f, n, ss, S)
      BY <2>6
    <3>3. Follows(g, n, ss)
      BY <2>5, <2>6 DEF Follows
    <3>4. \A i \in 1..n : f[i] = g[i]
      BY <3>2, <3>3, FlattenUnique
    <3>5. QED
      BY <3>1, <3>4
  <2>8. QED
    BY <1>2, <2>4, <2>6, <2>7
<1>3. QED
  BY <1>1, <1>2

LEMMA FlattenType ==
  ASSUME NEW S, NEW ss \in Seq(Seq(S)) PROVE FlattenSeq(ss) \in Seq(S)
<1>1. PICK f : Flattens(f, Len(ss), ss, S)
  BY FlattenExists
<1>2. PICK n \in Nat : n = Len(ss)
  OBVIOUS
<1>3. FlattenSeq(ss) = IF n = 0 THEN << >> ELSE f[n]
  BY <1>1, <1>2, FlattenIs
<1>4. QED
  BY <1>1, <1>2, <1>3 DEF Flattens

LEMMA FlattenEmpty ==
  FlattenSeq(<< >>) = << >>
BY DEF FlattenSeq

(* One more sequence is added behind the others.                           *)
LEMMA FlattenAppend ==
  ASSUME NEW S, NEW ss \in Seq(Seq(S)), NEW s \in Seq(S)
  PROVE  FlattenSeq(Append(ss, s)) = FlattenSeq(ss) \o s
<1>1. PICK n \in Nat : n = Len(ss)
  OBVIOUS
<1>2. PICK tt : tt = Append(ss, s)
  OBVIOUS
<1>3. tt \in Seq(Seq(S)) /\ Len(tt) = n + 1 /\ tt[n + 1] = s /\ \A i \in 1..n : tt[i] = ss[i]
  BY <1>1, <1>2, AppendProperties
<1>4. PICK f : Flattens(f, n + 1, tt, S)
  BY <1>3, FlattenExists
<1>5. FlattenSeq(tt) = f[n + 1]
  BY <1>3, <1>4, FlattenIs
<1>6. f[n + 1] = IF n = 0 THEN s ELSE f[n] \o s
  <2>1. n + 1 \in 1..(n + 1) /\ n + 1 - 1 = n /\ (n + 1 = 1 <=> n = 0)
    OBVIOUS
  <2>2. Concatenates(f, n + 1, tt)
    BY <1>4, <2>1 DEF Flattens
  <2>3. QED
    BY <1>3, <2>1, <2>2 DEF Concatenates
<1>7. PICK h : h = [i \in 1..n |-> f[i]]
  OBVIOUS
<1>8. Flattens(h, n, ss, S)
  <2>1. h \in [1..n -> Seq(S)]
    BY <1>4, <1>7 DEF Flattens
  <2>2. \A i \in 1..n : h[i] = f[i] /\ (i # 1 => h[i - 1] = f[i - 1])
    BY <1>7
  <2>3. \A i \in 1..n : Concatenates(h, i, ss)
    <3>1. TAKE i \in 1..n
    <3>2. Concatenates(f, i, tt)
      BY <1>4 DEF Flattens
    <3>3. tt[i] = ss[i] /\ h[i] = f[i] /\ (i # 1 => h[i - 1] = f[i - 1])
      BY <1>3, <2>2
    <3>4. QED
      BY <3>2, <3>3 DEF Concatenates
  <2>4. QED
    BY <2>1, <2>3 DEF Flattens
<1>9. FlattenSeq(ss) = IF n = 0 THEN << >> ELSE h[n]
  BY <1>1, <1>8, FlattenIs
<1>10. n # 0 => h[n] = f[n]
  BY <1>7
<1>11. << >> \o s = s
  BY ConcatEmptySeq
<1>12. QED
  BY <1>2, <1>5, <1>6, <1>9, <1>10, <1>11

(* One more sequence is put in front of the others.                        *)
LEMMA PrependIs ==
  ASSUME NEW S, NEW x \in S, NEW q \in Seq(S), NEW n \in Nat, n = Len(q)
  PROVE  /\ <<x>> \o q \in Seq(S) /\ Len(<<x>> \o q) = 1 + n /\ (<<x>> \o q)[1] = x
         /\ \A k \in 1..n : (<<x>> \o q)[1 + k] = q[k]
<1>1. <<x>> \in Seq(S) /\ Len(<<x>>) = 1 /\ <<x>>[1] = x
  OBVIOUS
<1>2. PICK o \in Seq(S), l \in Nat : o = <<x>> /\ l = 1 /\ l = Len(o) /\ o[1] = x
  BY <1>1
<1>3. /\ o \o q \in Seq(S) /\ Len(o \o q) = l + n /\ \A k \in 1..l : (o \o q)[k] = o[k]
      /\ \A k \in 1..n : (o \o q)[l + k] = q[k]
  BY <1>2, ConcatIs
<1>4. QED
  BY <1>2, <1>3

Associates(s, t, u) == (s \o t) \o u = s \o (t \o u)

LEMMA ConcatThree ==
  ASSUME NEW S, NEW s \in Seq(S), NEW t \in Seq(S), NEW u \in Seq(S)
  PROVE  Associates(s, t, u)
BY ConcatAssociative DEF Associates

LEMMA FlattenPrepend ==
  ASSUME NEW S, NEW ss \in Seq(Seq(S)), NEW s \in Seq(S)
  PROVE  FlattenSeq(<<s>> \o ss) = s \o FlattenSeq(ss)
<1>1. PICK n \in Nat : n = Len(ss)
  OBVIOUS
<1>2. PICK tt : tt = <<s>> \o ss
  OBVIOUS
<1>3. tt \in Seq(Seq(S)) /\ Len(tt) = 1 + n /\ tt[1] = s /\ \A k \in 1..n : tt[1 + k] = ss[k]
  <2>1. PICK T : T = Seq(S)
    OBVIOUS
  <2>2. s \in T /\ ss \in Seq(T)
    BY <2>1
  <2>3. tt \in Seq(T) /\ Len(tt) = 1 + n /\ tt[1] = s /\ \A k \in 1..n : tt[1 + k] = ss[k]
    BY <1>1, <1>2, <2>2, PrependIs
  <2>4. QED
    BY <2>1, <2>3
<1>4. PICK f : Flattens(f, n, ss, S)
  BY <1>1, FlattenExists
<1>5. PICK g : g = [i \in 1..(n + 1) |-> IF i = 1 THEN s ELSE s \o f[i - 1]]
  OBVIOUS
<1>6. \A k \in 1..n : f[k] \in Seq(S) /\ ss[k] \in Seq(S) /\ s \o f[k] \in Seq(S)
  <2>1. \A k \in 1..n : f[k] \in Seq(S)
    BY <1>4 DEF Flattens
  <2>2. \A k \in 1..n : ss[k] \in Seq(S)
    BY <1>1
  <2>3. QED
    BY <2>1, <2>2, ConcatProperties
<1>7. \A i \in 1..(n + 1) : i = 1 \/ \E k \in 1..n : i = 1 + k /\ i - 1 = k
  <2>1. TAKE i \in 1..(n + 1)
  <2>2. i # 1 => i - 1 \in 1..n /\ i = 1 + (i - 1)
    OBVIOUS
  <2>3. QED
    BY <2>2
<1>8. g[1] = s /\ \A k \in 1..n : g[1 + k] = s \o f[k]
  <2>1. 1 \in 1..(n + 1)
    OBVIOUS
  <2>2. \A k \in 1..n : 1 + k \in 1..(n + 1) /\ 1 + k # 1 /\ 1 + k - 1 = k
    OBVIOUS
  <2>3. QED
    BY <1>5, <2>1, <2>2
<1>9. g \in [1..(n + 1) -> Seq(S)]
  <2>1. \A i \in 1..(n + 1) : (IF i = 1 THEN s ELSE s \o f[i - 1]) \in Seq(S)
    BY <1>6, <1>7
  <2>2. QED
    BY <1>5, <2>1
<1>10. ASSUME NEW k \in 1..n PROVE g[1 + k] = g[k] \o tt[1 + k]
  <2>1. tt[1 + k] = ss[k] /\ g[1 + k] = s \o f[k]
    BY <1>3, <1>8
  <2>2. Concatenates(f, k, ss)
    BY <1>4 DEF Flattens
  <2>3. CASE k = 1
    <3>1. f[k] = ss[k]
      BY <2>2, <2>3 DEF Concatenates
    <3>2. g[k] = s
      BY <1>8, <2>3
    <3>3. QED
      BY <2>1, <3>1, <3>2
  <2>4. CASE k # 1
    <3>1. PICK j \in 1..n : k = 1 + j /\ k - 1 = j
      <4>1. k \in 1..(n + 1)
        OBVIOUS
      <4>2. QED
        BY <1>7, <2>4, <4>1
    <3>2. f[k] = f[j] \o ss[k]
      BY <2>2, <2>4, <3>1 DEF Concatenates
    <3>3. g[k] = s \o f[j]
      BY <1>8, <3>1
    <3>4. PICK a \in Seq(S), b \in Seq(S) : a = f[j] /\ b = ss[k]
      BY <1>6
    <3>5. Associates(s, a, b)
      BY ConcatThree
    <3>6. QED
      BY <2>1, <3>2, <3>3, <3>4, <3>5 DEF Associates
  <2>5. QED
    BY <2>3, <2>4
<1>11. \A i \in 1..(n + 1) : Concatenates(g, i, tt)
  <2>1. TAKE i \in 1..(n + 1)
  <2>2. CASE i = 1
    BY <1>3, <1>8, <2>2 DEF Concatenates
  <2>3. CASE i # 1
    <3>1. PICK k \in 1..n : i = 1 + k /\ i - 1 = k
      BY <1>7, <2>3
    <3>2. g[1 + k] = g[k] \o tt[1 + k]
      BY <1>10
    <3>3. QED
      BY <2>3, <3>1, <3>2 DEF Concatenates
  <2>4. QED
    BY <2>2, <2>3
<1>12. Flattens(g, n + 1, tt, S)
  BY <1>9, <1>11 DEF Flattens
<1>13. Len(tt) = n + 1 /\ n + 1 # 0
  BY <1>3
<1>14. FlattenSeq(tt) = g[n + 1]
  BY <1>3, <1>12, <1>13, FlattenIs
<1>15. FlattenSeq(ss) = IF n = 0 THEN << >> ELSE f[n]
  BY <1>1, <1>4, FlattenIs
<1>16. CASE n = 0
  <2>1. g[n + 1] = s
    BY <1>8, <1>16
  <2>2. s \o << >> = s
    BY ConcatEmptySeq
  <2>3. QED
    BY <1>2, <1>14, <1>15, <1>16, <2>1, <2>2
<1>17. CASE n # 0
  <2>1. n \in 1..n /\ n + 1 = 1 + n
    BY <1>17
  <2>2. g[n + 1] = s \o f[n]
    BY <1>8, <2>1
  <2>3. QED
    BY <1>2, <1>14, <1>15, <1>17, <2>2
<1>18. QED
  BY <1>16, <1>17

=============================================================================
