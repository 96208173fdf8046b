------------------------ MODULE WebSocketParserProofs ------------------------
(***************************************************************************)
(* Proofs about WebSocketParser, for every buffer size, every frame limit  *)
(* and every set of scripts: the parser hands out the frames of the stream *)
(* as they were sent, never asks for data it has no room for, and keeps    *)
(* its buffer within the bound that the frame limit sets.                  *)
(*                                                                         *)
(* The induction is over the stream: what is buffered and what is still to *)
(* come are, cell by cell, the frames that were not handed out (StreamIs). *)
(* It is this that makes the cell at bufferBegin a frame header, and so    *)
(* process() meaningful at all.                                            *)
(***************************************************************************)
EXTENDS WebSocketParser, SequenceTheorems, CommonLemmas

-----------------------------------------------------------------------------
(***************************************************************************)
(* upsize(minCapacity).  The loop has a result, and it is enough but less  *)
(* than twice what was asked for, unless doubling once was enough.         *)
(***************************************************************************)
Doubles(f, low, high, m) ==
  /\ f \in [low..high -> Nat]
  /\ \A n \in low..high : f[n] = IF n * 2 >= m THEN n * 2 ELSE f[n * 2]

LEMMA DoublingExtends ==
  ASSUME NEW m \in Nat, NEW high \in Nat, m <= high, NEW low \in Nat, 1 <= low, low <= high,
         NEW f, Doubles(f, low + 1, high, m)
  PROVE  \E g : Doubles(g, low, high, m)
<1> DEFINE top == IF low * 2 >= m THEN low * 2 ELSE f[low * 2]
<1>1. low * 2 < m => low * 2 \in (low + 1)..high
  OBVIOUS
<1>2. top \in Nat
  BY <1>1 DEF Doubles
<1>3. PICK t \in Nat : t = top
  BY <1>2
<1>4. PICK g : g = [n \in low..high |-> IF n = low THEN t ELSE f[n]]
  OBVIOUS
<1>5. \A n \in low..high : n = low \/ n \in (low + 1)..high
  OBVIOUS
<1>6. g \in [low..high -> Nat]
  BY <1>4, <1>5 DEF Doubles
<1>7. ASSUME NEW n \in low..high PROVE g[n] = IF n * 2 >= m THEN n * 2 ELSE g[n * 2]
  <2>1. n * 2 < m => n * 2 \in (low + 1)..high /\ n * 2 \in low..high /\ n * 2 # low
    BY <1>7
  <2>2. n * 2 < m => g[n * 2] = f[n * 2]
    BY <1>4, <2>1
  <2>3. CASE n = low
    <3>1. g[n] = t
      BY <1>4, <2>3
    <3>2. t = IF n * 2 >= m THEN n * 2 ELSE f[n * 2]
      BY <1>3, <2>3
    <3>3. QED
      BY <2>2, <3>1, <3>2
  <2>4. CASE n \in (low + 1)..high
    <3>1. g[n] = f[n]
      BY <1>4, <1>7, <2>4
    <3>2. f[n] = IF n * 2 >= m THEN n * 2 ELSE f[n * 2]
      BY <2>4 DEF Doubles
    <3>3. QED
      BY <2>2, <3>1, <3>2
  <2>5. QED
    BY <1>5, <2>3, <2>4
<1>8. QED
  BY <1>6, <1>7 DEF Doubles

LEMMA DoublingExists ==
  ASSUME NEW m \in Nat, NEW high \in Nat \ {0}, m <= high
  PROVE  \E f : Doubles(f, 1, high, m)
<1> DEFINE Missing == {n \in Nat : n <= high /\ ~ \E f : Doubles(f, high - n + 1, high, m)}
<1>1. SUFFICES ASSUME Missing # {} PROVE FALSE
  <2>1. high \in Nat /\ high - high + 1 = 1
    OBVIOUS
  <2>2. QED
    BY <1>1, <2>1
<1>2. Missing \in SUBSET Nat
  OBVIOUS
<1>3. PICK n \in Missing : \A k \in Missing : n <= k
  BY <1>1, <1>2, LeastOfNat
<1>4. n # 0
  <2>1. PICK f : f = [k \in (high + 1)..high |-> 0]
    OBVIOUS
  <2>2. Doubles(f, high + 1, high, m)
    BY <2>1 DEF Doubles
  <2>3. high - 0 + 1 = high + 1
    OBVIOUS
  <2>4. QED
    BY <1>3, <2>2, <2>3
<1>5. n - 1 \in Nat /\ n - 1 <= high /\ n - 1 \notin Missing
  BY <1>3, <1>4
<1>6. PICK f : Doubles(f, high - (n - 1) + 1, high, m)
  BY <1>5
<1>7. PICK low \in Nat : low = high - n + 1 /\ 1 <= low /\ low <= high /\ high - (n - 1) + 1 = low + 1
  BY <1>3, <1>4
<1>8. Doubles(f, low + 1, high, m)
  BY <1>6, <1>7
<1>9. \E g : Doubles(g, low, high, m)
  BY <1>7, <1>8, DoublingExtends
<1>10. QED
  BY <1>3, <1>7, <1>9

LEMMA DoublingIs ==
  ASSUME NEW m \in Nat, NEW high \in Nat \ {0}, m <= high,
         NEW f, \A k \in 1..high : f[k] = IF k * 2 >= m THEN k * 2 ELSE f[k * 2],
         NEW n \in 1..high
  PROVE  f[n] \in Nat /\ f[n] >= n * 2 /\ (f[n] = n * 2 \/ f[n] < m * 2)
<1> DEFINE P(k) == f[k] \in Nat /\ f[k] >= k * 2 /\ (f[k] = k * 2 \/ f[k] < m * 2)
           Wrong == {d \in Nat : d < high /\ ~P(high - d)}
<1> HIDE DEF P
<1>2. Wrong = {}
  <2>1. SUFFICES ASSUME Wrong # {} PROVE FALSE
    OBVIOUS
  <2>2. Wrong \in SUBSET Nat
    OBVIOUS
  <2>3. PICK d \in Wrong : \A e \in Wrong : d <= e
    BY <2>1, <2>2, LeastOfNat
  <2>4. PICK k \in 1..high : k = high - d /\ ~P(k)
    BY <2>3
  <2>5. CASE k * 2 >= m
    <3>1. f[k] = k * 2
      BY <2>4, <2>5
    <3>2. QED
      BY <2>4, <3>1 DEF P
  <2>6. CASE k * 2 < m
    <3>1. PICK j \in 1..high : j = k * 2
      BY <2>6
    <3>2. f[k] = f[j]
      BY <2>4, <2>6, <3>1
    <3>3. PICK e \in Nat : e = high - j /\ e < high /\ e < d /\ j = high - e
      <4>1. d \in Nat /\ k \in Nat /\ j \in Nat /\ k = high - d /\ k < j /\ j <= high
        BY <2>4, <3>1
      <4>2. high - j \in Nat /\ high - j < d
        BY <4>1
      <4>3. QED
        BY <4>1, <4>2
    <3>4. P(j)
      <4>1. e \notin Wrong
        BY <2>3, <3>3
      <4>2. P(high - e)
        BY <3>3, <4>1
      <4>3. QED
        BY <3>3, <4>2
    <3>5. QED
      BY <2>4, <2>6, <3>1, <3>2, <3>4 DEF P
  <2>7. QED
    BY <2>5, <2>6
<1>3. P(n)
  <2>1. high - n \in Nat /\ high - n < high /\ high - (high - n) = n
    OBVIOUS
  <2>2. QED
    BY <1>2, <2>1
<1>4. QED
  BY <1>3 DEF P

LEMMA UpsizedIs ==
  ASSUME NEW size \in Nat \ {0}, NEW m \in Nat
  PROVE  /\ Upsized(size, m) \in Nat
         /\ Upsized(size, m) >= size * 2
         /\ Upsized(size, m) = size * 2 \/ Upsized(size, m) < m * 2
<1>1. PICK high \in Nat \ {0} : high = size + m
  OBVIOUS
<1>2. PICK f : Doubles(f, 1, high, m)
  BY <1>1, DoublingExists
<1> DEFINE Fits(g) == g = [n \in 1..high |-> IF n * 2 >= m THEN n * 2 ELSE g[n * 2]]
<1>3. Fits(f)
  BY <1>2 DEF Doubles
<1>4. PICK g : g = CHOOSE h : Fits(h)
  OBVIOUS
<1>5. Fits(g)
  BY <1>3, <1>4
<1>6. Upsized(size, m) = g[size]
  BY <1>1, <1>4 DEF Upsized
<1>7. \A k \in 1..high : g[k] = IF k * 2 >= m THEN k * 2 ELSE g[k * 2]
  BY <1>5
<1>8. QED
  BY <1>1, <1>6, <1>7, DoublingIs

-----------------------------------------------------------------------------
(***************************************************************************)
(* What a frame is on the wire, and what a stream is.                      *)
(***************************************************************************)
Key(f) == IF f.mask THEN 1 ELSE 0
Ext(f) == ExtendedSize(LengthField(f))
Header(f) == 1 + Ext(f) + Key(f)

LEMMA FrameFields ==
  ASSUME NEW f \in Frames
  PROVE  /\ f.length \in Nat /\ f.mask \in BOOLEAN
         /\ LengthField(f) \in Nat /\ Ext(f) \in 0..2 /\ Key(f) \in 0..1
         /\ LengthField(f) <= 125 => LengthField(f) = f.length
         /\ ~(LengthField(f) <= 125) => Ext(f) >= 1
         /\ Header(f) \in 1..MaxHeader
<1>1. /\ f.format \in {7, 16, 64} /\ f.length \in Nat /\ f.mask \in BOOLEAN
      /\ f.format = 7 => f.length <= 125
  BY DEF Frames
<1>2. Key(f) \in 0..1
  BY DEF Key
<1>3. CASE f.format = 7
  <2>1. LengthField(f) = f.length
    BY <1>3 DEF LengthField
  <2>2. Ext(f) = 0
    BY <1>1, <1>3, <2>1 DEF Ext, ExtendedSize
  <2>3. QED
    BY <1>1, <1>2, <1>3, <2>1, <2>2 DEF Header, MaxHeader
<1>4. CASE f.format = 16
  <2>1. LengthField(f) = 126
    BY <1>4 DEF LengthField
  <2>2. Ext(f) = 1
    BY <2>1 DEF Ext, ExtendedSize
  <2>3. QED
    BY <1>1, <1>2, <2>1, <2>2 DEF Header, MaxHeader
<1>5. CASE f.format = 64
  <2>1. LengthField(f) = 127
    BY <1>5 DEF LengthField
  <2>2. Ext(f) = 2
    BY <2>1 DEF Ext, ExtendedSize
  <2>3. QED
    BY <1>1, <1>2, <2>1, <2>2 DEF Header, MaxHeader
<1>6. QED
  BY <1>1, <1>3, <1>4, <1>5

(* Four pieces, one behind the other.                                      *)
LEMMA FourPieces ==
  ASSUME NEW T, NEW a \in T, NEW u \in Seq(T), NEW v \in Seq(T), NEW w \in Seq(T),
         NEW s, s = <<a>> \o u \o v \o w
  PROVE  /\ s \in Seq(T) /\ Len(s) = 1 + Len(u) + Len(v) + Len(w)
         /\ s[1] = a
         /\ \A k \in 1..Len(u) : s[1 + k] = u[k]
         /\ \A k \in 1..Len(w) : s[1 + Len(u) + Len(v) + k] = w[k]
<1>1. PICK l \in Nat, m \in Nat, n \in Nat : l = Len(u) /\ m = Len(v) /\ n = Len(w)
  OBVIOUS
<1>2. PICK p : p = <<a>> \o u
  OBVIOUS
<1>3. /\ p \in Seq(T) /\ Len(p) = 1 + l
      /\ \A k \in 1..(1 + l) : p[k] = IF k <= 1 THEN a ELSE u[k - 1]
  BY <1>1, <1>2
<1>4. PICK q : q = p \o v
  OBVIOUS
<1>5. /\ q \in Seq(T) /\ Len(q) = 1 + l + m
      /\ \A k \in 1..(1 + l + m) : q[k] = IF k <= 1 + l THEN p[k] ELSE v[k - (1 + l)]
  <2>1. /\ p \o v \in Seq(T) /\ Len(p \o v) = Len(p) + Len(v)
        /\ \A k \in 1..Len(p) + Len(v) : (p \o v)[k] = IF k <= Len(p) THEN p[k] ELSE v[k - Len(p)]
    BY <1>3, ConcatProperties
  <2>2. QED
    BY <1>1, <1>3, <1>4, <2>1
<1>6. s = q \o w
  BY <1>2, <1>4
<1>7. /\ s \in Seq(T) /\ Len(s) = 1 + l + m + n
      /\ \A k \in 1..(1 + l + m + n) : s[k] = IF k <= 1 + l + m THEN q[k] ELSE w[k - (1 + l + m)]
  <2>1. /\ q \o w \in Seq(T) /\ Len(q \o w) = Len(q) + Len(w)
        /\ \A k \in 1..Len(q) + Len(w) : (q \o w)[k] = IF k <= Len(q) THEN q[k] ELSE w[k - Len(q)]
    BY <1>5, ConcatProperties
  <2>2. QED
    BY <1>1, <1>5, <1>6, <2>1
<1>8. s[1] = a
  BY <1>3, <1>5, <1>7
<1>9. ASSUME NEW k \in 1..l PROVE s[1 + k] = u[k]
  <2>1. p[1 + k] = u[k]
    BY <1>3
  <2>2. q[1 + k] = p[1 + k]
    BY <1>5
  <2>3. s[1 + k] = q[1 + k]
    BY <1>7
  <2>4. QED
    BY <2>1, <2>2, <2>3
<1>10. ASSUME NEW k \in 1..n PROVE s[1 + l + m + k] = w[k]
  BY <1>7
<1>11. QED
  BY <1>1, <1>7, <1>8, <1>9, <1>10

Sent(n, f, k)    == <<IF f.mask THEN "masked" ELSE "data", n, k>>
Payload(n, f)    == [k \in 1..f.length |-> <<"data", n, k>>]

LEMMA WireIs ==
  ASSUME NEW n \in Nat, NEW f \in Frames
  PROVE  /\ Wire(n, f) \in Seq(Cells)
         /\ Len(Wire(n, f)) = Header(f) + f.length
         /\ Wire(n, f)[1] = <<"head", LengthField(f), Key(f)>>
         /\ Ext(f) >= 1 => Wire(n, f)[2] = <<"length", f.length, 1>>
         /\ \A k \in 1..f.length : Wire(n, f)[Header(f) + k] = Sent(n, f, k)
<1>1. PICK e \in 0..2, m \in 0..1, len \in Nat, field \in Nat :
        e = Ext(f) /\ m = Key(f) /\ len = f.length /\ field = LengthField(f)
  BY FrameFields
<1>2. PICK a : a = <<"head", field, m>>
  OBVIOUS
<1>3. PICK u : u = [k \in 1..e |-> <<"length", len, k>>]
  OBVIOUS
<1>4. PICK v : v = [k \in 1..m |-> <<"key", n, k>>]
  OBVIOUS
<1>5. PICK w : w = [k \in 1..len |-> Sent(n, f, k)]
  OBVIOUS
<1>6. a \in Cells
  <2>1. m \in Nat
    OBVIOUS
  <2>2. QED
    BY <1>2, <2>1 DEF Cells
<1>7. u \in Seq(Cells) /\ Len(u) = e
  <2>1. \A k \in 1..e : <<"length", len, k>> \in Cells
    BY DEF Cells
  <2>2. QED
    BY <1>3, <2>1
<1>8. v \in Seq(Cells) /\ Len(v) = m
  <2>1. \A k \in 1..m : <<"key", n, k>> \in Cells
    BY DEF Cells
  <2>2. QED
    BY <1>4, <2>1
<1>9. w \in Seq(Cells) /\ Len(w) = len
  <2>1. \A k \in 1..len : Sent(n, f, k) \in Cells
    BY DEF Sent, Cells
  <2>2. QED
    BY <1>5, <2>1
<1>10. PICK s : s = <<a>> \o u \o v \o w
  OBVIOUS
<1>11. Wire(n, f) = s
  BY <1>1, <1>2, <1>3, <1>4, <1>5, <1>10 DEF Wire, Ext, Key, Sent
<1>12. /\ s \in Seq(Cells) /\ Len(s) = 1 + e + m + len
       /\ s[1] = a
       /\ \A k \in 1..e : s[1 + k] = u[k]
       /\ \A k \in 1..len : s[1 + e + m + k] = w[k]
  <2>1. PICK T : T = Cells
    OBVIOUS
  <2>2. a \in T /\ u \in Seq(T) /\ v \in Seq(T) /\ w \in Seq(T)
    BY <1>6, <1>7, <1>8, <1>9, <2>1
  <2>3. /\ s \in Seq(T) /\ Len(s) = 1 + Len(u) + Len(v) + Len(w)
        /\ s[1] = a
        /\ \A k \in 1..Len(u) : s[1 + k] = u[k]
        /\ \A k \in 1..Len(w) : s[1 + Len(u) + Len(v) + k] = w[k]
    BY <1>10, <2>2, FourPieces
  <2>4. QED
    BY <1>7, <1>8, <1>9, <2>1, <2>3
<1>13. e >= 1 => s[2] = <<"length", len, 1>>
  <2>1. e >= 1 => 1 \in 1..e /\ 1 + 1 = 2
    OBVIOUS
  <2>2. e >= 1 => s[2] = u[1]
    BY <1>12, <2>1
  <2>3. QED
    BY <1>3, <2>1, <2>2
<1>14. \A k \in 1..len : s[1 + e + m + k] = Sent(n, f, k)
  BY <1>5, <1>12
<1>15. Header(f) = 1 + e + m
  BY <1>1 DEF Header
<1>16. QED
  BY <1>1, <1>2, <1>11, <1>12, <1>13, <1>14, <1>15

(* The bytes behind each frame exist, and are sequences of cells.          *)
Streams(f, low, s) ==
  /\ f \in [low..(Len(s) + 1) -> Seq(Cells)]
  /\ \A i \in low..(Len(s) + 1) : f[i] = IF i > Len(s) THEN << >> ELSE Wire(i, s[i]) \o f[i + 1]

LEMMA StreamExtends ==
  ASSUME NEW s \in Seq(Frames), NEW low \in 1..Len(s), NEW f, Streams(f, low + 1, s)
  PROVE  \E g : Streams(g, low, s)
<1>1. PICK len \in Nat : len = Len(s) /\ low \in 1..len
  OBVIOUS
<1>2. PICK top : top = Wire(low, s[low]) \o f[low + 1]
  OBVIOUS
<1>3. top \in Seq(Cells)
  <2>1. s[low] \in Frames
    BY <1>1
  <2>2. Wire(low, s[low]) \in Seq(Cells)
    BY <1>1, <2>1, WireIs
  <2>3. f[low + 1] \in Seq(Cells)
    BY <1>1 DEF Streams
  <2>4. QED
    BY <1>2, <2>2, <2>3, ConcatProperties
<1>4. PICK g : g = [i \in low..(len + 1) |-> IF i = low THEN top ELSE f[i]]
  OBVIOUS
<1>5. \A i \in low..(len + 1) : i = low \/ i \in (low + 1)..(len + 1)
  BY <1>1
<1>6. \A i \in (low + 1)..(len + 1) :
        f[i] \in Seq(Cells) /\ f[i] = IF i > len THEN << >> ELSE Wire(i, s[i]) \o f[i + 1]
  BY <1>1 DEF Streams
<1>7. g \in [low..(len + 1) -> Seq(Cells)]
  <2>1. \A i \in low..(len + 1) : (IF i = low THEN top ELSE f[i]) \in Seq(Cells)
    BY <1>3, <1>5, <1>6
  <2>2. QED
    BY <1>4, <2>1
<1>8. ASSUME NEW i \in low..(len + 1)
      PROVE  g[i] = IF i > len THEN << >> ELSE Wire(i, s[i]) \o g[i + 1]
  <2>1. i <= len => g[i + 1] = f[i + 1]
    BY <1>1, <1>4
  <2>2. CASE i = low
    <3>1. g[i] = top /\ i <= len /\ ~(i > len)
      BY <1>1, <1>4, <2>2
    <3>2. top = Wire(i, s[i]) \o f[i + 1]
      BY <1>2, <2>2
    <3>3. QED
      BY <2>1, <3>1, <3>2
  <2>3. CASE i \in (low + 1)..(len + 1)
    <3>1. g[i] = f[i]
      BY <1>1, <1>4, <2>3
    <3>2. QED
      BY <1>1, <1>6, <2>1, <2>3, <3>1
  <2>4. QED
    BY <1>5, <2>2, <2>3
<1>9. QED
  BY <1>1, <1>7, <1>8 DEF Streams

LEMMA StreamExists ==
  ASSUME NEW s \in Seq(Frames)
  PROVE  \E f : Streams(f, 1, s)
<1>1. PICK len \in Nat : len = Len(s)
  OBVIOUS
<1> DEFINE Missing == {n \in Nat : n <= len /\ ~ \E f : Streams(f, len - n + 1, s)}
<1>2. SUFFICES ASSUME Missing # {} PROVE FALSE
  <2>1. len - len + 1 = 1 /\ len <= len
    OBVIOUS
  <2>2. len \notin Missing
    BY <1>2
  <2>3. \E f : Streams(f, len - len + 1, s)
    BY <2>1, <2>2
  <2>4. QED
    BY <2>1, <2>3
<1>3. Missing \in SUBSET Nat
  OBVIOUS
<1>4. PICK n \in Missing : \A k \in Missing : n <= k
  BY <1>2, <1>3, LeastOfNat
<1>5. n # 0
  <2>1. PICK f : f = [k \in (len + 1)..(len + 1) |-> << >>]
    OBVIOUS
  <2>2. f \in [(len + 1)..(len + 1) -> Seq(Cells)]
    BY <2>1
  <2>3. \A i \in (len + 1)..(len + 1) : i > len /\ f[i] = << >>
    BY <2>1
  <2>4. Streams(f, len + 1, s)
    BY <1>1, <2>2, <2>3 DEF Streams
  <2>5. len - 0 + 1 = len + 1
    OBVIOUS
  <2>6. QED
    BY <1>4, <2>4, <2>5
<1>6. n - 1 \in Nat /\ n - 1 <= len /\ n - 1 \notin Missing
  BY <1>4, <1>5
<1>7. PICK f : Streams(f, len - (n - 1) + 1, s)
  BY <1>6
<1>8. PICK low \in 1..len : low = len - n + 1 /\ len - (n - 1) + 1 = low + 1
  BY <1>4, <1>5
<1>9. Streams(f, low + 1, s)
  BY <1>7, <1>8
<1>10. \E g : Streams(g, low, s)
  BY <1>1, <1>8, <1>9, StreamExtends
<1>11. QED
  BY <1>4, <1>8, <1>10

LEMMA StreamType ==
  ASSUME NEW s \in Seq(Frames), NEW f,
         \A i \in 1..(Len(s) + 1) : f[i] = IF i > Len(s) THEN << >> ELSE Wire(i, s[i]) \o f[i + 1],
         NEW n \in 1..(Len(s) + 1)
  PROVE  f[n] \in Seq(Cells)
<1>1. PICK len \in Nat : len = Len(s)
  OBVIOUS
<1> DEFINE Wrong == {d \in Nat : d <= len /\ ~(f[len + 1 - d] \in Seq(Cells))}
<1>2. Wrong = {}
  <2>1. SUFFICES ASSUME Wrong # {} PROVE FALSE
    OBVIOUS
  <2>2. Wrong \in SUBSET Nat
    OBVIOUS
  <2>3. PICK d \in Wrong : \A e \in Wrong : d <= e
    BY <2>1, <2>2, LeastOfNat
  <2>4. PICK k \in 1..(len + 1) : k = len + 1 - d /\ ~(f[k] \in Seq(Cells))
    BY <2>3
  <2>5. f[k] = IF k > len THEN << >> ELSE Wire(k, s[k]) \o f[k + 1]
    BY <1>1
  <2>6. CASE k > len
    BY <2>4, <2>5, <2>6
  <2>7. CASE k <= len
    <3>1. PICK e \in Nat : e = d - 1 /\ e <= len /\ e < d /\ len + 1 - e = k + 1
      BY <2>3, <2>4, <2>7
    <3>2. f[k + 1] \in Seq(Cells)
      <4>1. e \notin Wrong
        BY <2>3, <3>1
      <4>2. f[len + 1 - e] \in Seq(Cells)
        BY <3>1, <4>1
      <4>3. QED
        BY <3>1, <4>2
    <3>3. Wire(k, s[k]) \in Seq(Cells)
      <4>1. s[k] \in Frames /\ k \in Nat
        BY <1>1, <2>7
      <4>2. QED
        BY <4>1, WireIs
    <3>4. Wire(k, s[k]) \o f[k + 1] \in Seq(Cells)
      BY <3>2, <3>3, ConcatProperties
    <3>5. QED
      BY <2>4, <2>5, <2>7, <3>4
  <2>8. QED
    BY <2>6, <2>7
<1>3. PICK d \in Nat : d = len + 1 - n /\ d <= len /\ len + 1 - d = n
  <2>1. PICK m \in 1..(len + 1) : m = n
    BY <1>1
  <2>2. len + 1 - m \in Nat /\ len + 1 - m <= len /\ len + 1 - (len + 1 - m) = m
    OBVIOUS
  <2>3. QED
    BY <2>1, <2>2
<1>4. f[len + 1 - d] \in Seq(Cells)
  BY <1>2, <1>3
<1>5. QED
  BY <1>3, <1>4

LEMMA StreamAfterIs ==
  ASSUME NEW s \in Seq(Frames), NEW n \in 0..Len(s)
  PROVE  /\ StreamAfter(s, n) \in Seq(Cells)
         /\ n = Len(s) => StreamAfter(s, n) = << >>
         /\ n < Len(s) => StreamAfter(s, n) = Wire(n + 1, s[n + 1]) \o StreamAfter(s, n + 1)
<1>1. PICK f : Streams(f, 1, s)
  BY StreamExists
<1> DEFINE Fits(g) == g = [i \in 1..(Len(s) + 1) |-> IF i > Len(s) THEN << >> ELSE Wire(i, s[i]) \o g[i + 1]]
<1>2. Fits(f)
  BY <1>1 DEF Streams
<1>3. PICK g : g = CHOOSE h : Fits(h)
  OBVIOUS
<1>4. Fits(g)
  BY <1>2, <1>3
<1>5. \A m : StreamAfter(s, m) = g[m + 1]
  BY <1>3 DEF StreamAfter
<1>6. \A i \in 1..(Len(s) + 1) : g[i] = IF i > Len(s) THEN << >> ELSE Wire(i, s[i]) \o g[i + 1]
  BY <1>4
<1> HIDE DEF Fits
<1>7. Len(s) \in Nat /\ n + 1 \in 1..(Len(s) + 1) /\ (n < Len(s) => ~(n + 1 > Len(s)))
  OBVIOUS
<1>8. g[n + 1] \in Seq(Cells)
  BY <1>6, <1>7, StreamType
<1>9. n = Len(s) => g[n + 1] = << >>
  BY <1>6, <1>7
<1>10. n < Len(s) => g[n + 1] = Wire(n + 1, s[n + 1]) \o g[n + 1 + 1]
  BY <1>6, <1>7
<1>11. StreamAfter(s, n) = g[n + 1] /\ StreamAfter(s, n + 1) = g[n + 1 + 1]
  BY <1>5
<1>12. QED
  BY <1>8, <1>9, <1>10, <1>11

-----------------------------------------------------------------------------
(***************************************************************************)
(* The parser's buffer.                                                    *)
(***************************************************************************)
FieldsOf(p) ==
  p = [buffer |-> p.buffer, bufferSize |-> p.bufferSize, bufferBegin |-> p.bufferBegin,
       bufferEnd |-> p.bufferEnd, currFrameSizeHint |-> p.currFrameSizeHint]

ParserOK(p) ==
  /\ FieldsOf(p)
  /\ p.bufferSize \in Nat \ {0}
  /\ p.buffer \in [0..(p.bufferSize - 1) -> Cells]
  /\ p.bufferBegin \in Nat /\ p.bufferEnd \in Nat
  /\ p.bufferBegin <= p.bufferEnd /\ p.bufferEnd <= p.bufferSize
  /\ p.currFrameSizeHint \in Nat

(* The number of bytes that were received and not handed out.              *)
Held(p) == p.bufferEnd - p.bufferBegin

(* What is held, and pending behind it, is the stream S.                   *)
StreamIs(p, later, S) ==
  /\ Len(S) = Held(p) + Len(later)
  /\ \A k \in 1..Held(p) : p.buffer[p.bufferBegin + k - 1] = S[k]
  /\ \A k \in 1..Len(later) : later[k] = S[Held(p) + k]

LEMMA BlankType ==
  ASSUME NEW n \in Nat PROVE Blank(n) \in [0..(n - 1) -> Cells]
<1>1. Unset \in Cells
  BY DEF Unset, Cells
<1>2. QED
  BY <1>1 DEF Blank

LEMMA NewParserOK ==
  ParserOK(NewParser) /\ NewParser.bufferSize = InitialBufferSize /\ NewParser.currFrameSizeHint = 0
<1> DEFINE q == NewParser
<1>1. /\ q.buffer = Blank(InitialBufferSize)
      /\ q.bufferSize = InitialBufferSize
      /\ q.bufferBegin = 0 /\ q.bufferEnd = 0 /\ q.currFrameSizeHint = 0
  BY DEF NewParser
<1>2. FieldsOf(q)
  BY DEF NewParser, FieldsOf
<1> HIDE DEF q
<1>3. ParserOK(q)
  BY <1>1, <1>2, BlankType, WebSocketParserAssumption DEF ParserOK
<1>4. QED
  BY <1>1, <1>3 DEF q

LEMMA ResetOK ==
  ASSUME NEW p, ParserOK(p), NEW q, q = Reset(p)
  PROVE  /\ ParserOK(q) /\ Held(q) = 0 /\ q.bufferBegin = 0 /\ q.bufferEnd = 0
         /\ q.bufferSize = p.bufferSize /\ q.currFrameSizeHint = p.currFrameSizeHint
<1>1. q = [p EXCEPT !.buffer = Blank(p.bufferSize), !.bufferBegin = 0, !.bufferEnd = 0]
  BY DEF Reset
<1>2. PICK b : b = Blank(p.bufferSize)
  OBVIOUS
<1>3. /\ q.buffer = b /\ q.bufferSize = p.bufferSize
      /\ q.bufferBegin = 0 /\ q.bufferEnd = 0 /\ q.currFrameSizeHint = p.currFrameSizeHint
      /\ FieldsOf(q)
  BY <1>1, <1>2 DEF ParserOK, FieldsOf
<1>4. b \in [0..(p.bufferSize - 1) -> Cells]
  BY <1>2, BlankType DEF ParserOK
<1>5. ParserOK(q)
  BY <1>3, <1>4 DEF ParserOK
<1>6. QED
  BY <1>3, <1>5 DEF Held

(* The size that beginAddData() gives the buffer.                          *)
NextSize(p) == IF MustUpsize(p) THEN Upsized(p.bufferSize, p.currFrameSizeHint * 2) ELSE p.bufferSize

LEMMA NextSizeIs ==
  ASSUME NEW p, ParserOK(p)
  PROVE  /\ NextSize(p) \in Nat \ {0}
         /\ Held(p) < NextSize(p) \/ Held(p) = 0
         /\ \/ NextSize(p) = p.bufferSize
            \/ NextSize(p) < 4 * p.currFrameSizeHint
            \/ NextSize(p) < 4 * Held(p)
<1>1. PICK bs \in Nat \ {0}, h \in Nat, c \in Nat :
        bs = p.bufferSize /\ h = p.currFrameSizeHint /\ c = Held(p) /\ c <= bs
  BY DEF ParserOK, Held
<1>2. MustUpsize(p) <=> c * 2 > bs \/ (h # 0 /\ h * 2 > bs)
  BY <1>1 DEF MustUpsize, Held
<1>3. CASE MustUpsize(p)
  <2>1. PICK m \in Nat : m = h * 2
    OBVIOUS
  <2>2. PICK u \in Nat : u = Upsized(bs, m) /\ u >= bs * 2 /\ (u = bs * 2 \/ u < m * 2)
    BY UpsizedIs
  <2>3. NextSize(p) = u
    BY <1>1, <1>3, <2>1, <2>2 DEF NextSize
  <2>4. QED
    BY <1>1, <1>2, <1>3, <2>1, <2>2, <2>3
<1>4. CASE ~MustUpsize(p)
  BY <1>1, <1>2, <1>4 DEF NextSize
<1>5. QED
  BY <1>3, <1>4

(* beginAddData() makes room and keeps what is held.                       *)
LEMMA BeginAddDataOK ==
  ASSUME NEW p, ParserOK(p), NEW q, q = BeginAddData(p)
  PROVE  /\ ParserOK(q)
         /\ Room(q) > 0
         /\ Held(q) = Held(p)
         /\ \A k \in 1..Held(p) : q.buffer[q.bufferBegin + k - 1] = p.buffer[p.bufferBegin + k - 1]
         /\ q.currFrameSizeHint = p.currFrameSizeHint
         /\ q.bufferSize = IF Held(p) = 0 THEN p.bufferSize ELSE NextSize(p)
<1>1. PICK cur \in Nat : cur = p.bufferEnd - p.bufferBegin /\ cur = Held(p)
  BY DEF ParserOK, Held
<1>2. CASE cur <= 0
  <2>1. q = Reset(p)
    BY <1>1, <1>2 DEF BeginAddData
  <2>2. /\ ParserOK(q) /\ Held(q) = 0 /\ q.bufferEnd = 0
        /\ q.bufferSize = p.bufferSize /\ q.currFrameSizeHint = p.currFrameSizeHint
    BY <2>1, ResetOK
  <2>3. cur = 0 /\ p.bufferSize \in Nat \ {0}
    BY <1>2 DEF ParserOK
  <2>4. QED
    BY <1>1, <2>2, <2>3 DEF Room
<1>3. CASE cur > 0
  <2>1. PICK size \in Nat \ {0} : size = NextSize(p) /\ cur < size
    BY <1>1, <1>3, NextSizeIs
  <2>2. PICK moved : moved = [i \in 0..(size - 1) |-> IF i < cur THEN p.buffer[p.bufferBegin + i] ELSE Unset]
    OBVIOUS
  <2>3. q = [p EXCEPT !.buffer = moved, !.bufferSize = size, !.bufferBegin = 0, !.bufferEnd = cur]
    <3>1. BeginAddData(p) =
            IF cur <= 0 THEN Reset(p)
            ELSE [p EXCEPT
                    !.buffer = [i \in 0..(NextSize(p) - 1) |->
                                  IF i < cur THEN p.buffer[p.bufferBegin + i] ELSE Unset],
                    !.bufferSize = NextSize(p), !.bufferBegin = 0, !.bufferEnd = cur]
      BY <1>1, Zenon DEF BeginAddData, NextSize
    <3>2. ~(cur <= 0)
      BY <1>3
    <3>3. QED
      BY <2>1, <2>2, <3>1, <3>2, Zenon
  <2>4. /\ q.buffer = moved /\ q.bufferSize = size /\ q.bufferBegin = 0 /\ q.bufferEnd = cur
        /\ q.currFrameSizeHint = p.currFrameSizeHint
        /\ FieldsOf(q)
    BY <2>3 DEF ParserOK, FieldsOf
  <2>5. moved \in [0..(size - 1) -> Cells]
    <3>1. Unset \in Cells
      BY DEF Unset, Cells
    <3>2. ASSUME NEW i \in 0..(size - 1), i < cur PROVE p.buffer[p.bufferBegin + i] \in Cells
      <4>1. p.bufferBegin + i \in 0..(p.bufferSize - 1)
        BY <1>1, <3>2 DEF ParserOK
      <4>2. QED
        BY <4>1 DEF ParserOK
    <3>3. QED
      BY <2>2, <3>1, <3>2
  <2>6. ParserOK(q)
    BY <2>1, <2>4, <2>5 DEF ParserOK
  <2>7. ASSUME NEW k \in 1..cur PROVE q.buffer[q.bufferBegin + k - 1] = p.buffer[p.bufferBegin + k - 1]
    <3>1. k - 1 \in 0..(size - 1) /\ k - 1 < cur /\ 0 + k - 1 = k - 1
      BY <2>1
    <3>2. moved[k - 1] = p.buffer[p.bufferBegin + (k - 1)]
      BY <2>2, <3>1
    <3>3. p.bufferBegin + (k - 1) = p.bufferBegin + k - 1
      BY DEF ParserOK
    <3>4. QED
      BY <2>4, <3>1, <3>2, <3>3
  <2>8. Room(q) > 0 /\ Held(q) = cur
    BY <2>1, <2>4 DEF Room, Held
  <2>9. cur # 0
    BY <1>3
  <2>10. QED
    BY <1>1, <2>1, <2>4, <2>6, <2>7, <2>8, <2>9
<1>4. QED
  BY <1>2, <1>3

(* endAddData() puts what was received behind what is held.                *)
Added(p, data, q) ==
  /\ ParserOK(q)
  /\ Held(q) = Held(p) + Len(data)
  /\ \A k \in 1..Held(p) : q.buffer[q.bufferBegin + k - 1] = p.buffer[p.bufferBegin + k - 1]
  /\ \A k \in 1..Len(data) : q.buffer[q.bufferBegin + Held(p) + k - 1] = data[k]
  /\ q.currFrameSizeHint = p.currFrameSizeHint
  /\ q.bufferSize = p.bufferSize

LEMMA EndAddDataOK ==
  ASSUME NEW p, ParserOK(p), NEW data \in Seq(Cells), Len(data) <= Room(p),
         NEW q, q = EndAddData(p, data)
  PROVE  Added(p, data, q)
<1>1. PICK n \in Nat, b \in Nat, e \in Nat, size \in Nat \ {0} :
        n = Len(data) /\ b = p.bufferBegin /\ e = p.bufferEnd /\ size = p.bufferSize
        /\ b <= e /\ e + n <= size
  BY DEF ParserOK, Room
<1>2. p.buffer \in [0..(size - 1) -> Cells]
  BY <1>1 DEF ParserOK
<1>3. PICK filled : filled = [i \in 0..(size - 1) |-> IF i - e + 1 \in 1..n THEN data[i - e + 1] ELSE p.buffer[i]]
  OBVIOUS
<1>4. q = [p EXCEPT !.buffer = filled, !.bufferEnd = e + n]
  <2>1. DOMAIN data = 1..n /\ DOMAIN p.buffer = 0..(size - 1)
    BY <1>1, <1>2
  <2>2. QED
    BY <1>1, <1>3, <2>1 DEF EndAddData
<1>5. /\ q.buffer = filled /\ q.bufferSize = size /\ q.bufferBegin = b /\ q.bufferEnd = e + n
      /\ q.currFrameSizeHint = p.currFrameSizeHint
      /\ FieldsOf(q)
  BY <1>1, <1>4 DEF ParserOK, FieldsOf
<1>6. filled \in [0..(size - 1) -> Cells]
  <2>1. \A j \in 1..n : data[j] \in Cells
    BY <1>1
  <2>2. \A i \in 0..(size - 1) : p.buffer[i] \in Cells
    BY <1>2
  <2>3. QED
    BY <1>3, <2>1, <2>2
<1>7. ParserOK(q)
  BY <1>1, <1>5, <1>6 DEF ParserOK
<1>8. ASSUME NEW k \in 1..(e - b) PROVE filled[b + k - 1] = p.buffer[b + k - 1]
  <2>1. b <= e /\ e + n <= size
    BY <1>1
  <2>2. b + k - 1 \in 0..(size - 1) /\ ~(b + k - 1 - e + 1 \in 1..n)
    BY <2>1
  <2>3. QED
    BY <1>3, <2>2
<1>9. ASSUME NEW k \in 1..n PROVE filled[b + (e - b) + k - 1] = data[k]
  <2>1. b <= e /\ e + n <= size
    BY <1>1
  <2>2. PICK i \in 0..(size - 1) : i = b + (e - b) + k - 1 /\ i - e + 1 = k
    BY <2>1
  <2>3. filled[i] = data[k]
    BY <1>3, <2>2
  <2>4. QED
    BY <2>2, <2>3
<1>10. Held(q) = Held(p) + n /\ Held(p) = e - b
  <2>1. Held(q) = e + n - b /\ Held(p) = e - b
    BY <1>1, <1>5 DEF Held
  <2>2. QED
    BY <1>1, <2>1
<1>11. QED
  BY <1>1, <1>5, <1>7, <1>8, <1>9, <1>10 DEF Added

-----------------------------------------------------------------------------
(***************************************************************************)
(* process(), when what is held begins with (a part of) the n-th frame f.  *)
(***************************************************************************)
Total(f) == Header(f) + f.length

LEMMA TotalType ==
  ASSUME NEW f \in Frames
  PROVE  /\ Header(f) \in Nat /\ f.length \in Nat /\ Total(f) \in Nat
         /\ Header(f) >= 1 /\ Header(f) <= MaxHeader /\ Total(f) = Header(f) + f.length
BY FrameFields DEF Total, MaxHeader

BeginsWith(p, n, f) ==
  \A k \in 1..Held(p) : k <= Total(f) => p.buffer[p.bufferBegin + k - 1] = Wire(n, f)[k]

Hinted(p, f) == [p EXCEPT !.currFrameSizeHint = Total(f)]

Waits(p, f, r) ==
  /\ r.result = "more"
  /\ \/ r.parser = p /\ Held(p) < Header(f)
     \/ r.parser = Hinted(p, f) /\ Total(f) <= maxFrameSize /\ Held(p) < Total(f)

Refuses(p, f, r) ==
  /\ r.result = "error" /\ Total(f) > maxFrameSize
  /\ \/ r.parser = p
     \/ r.parser = Hinted(p, f) /\ f.length <= maxFrameSize

(* The parser behind the frame: what follows the frame is untouched.       *)
Behind(p, f, q) ==
  /\ ParserOK(q)
  /\ q.bufferSize = p.bufferSize /\ q.currFrameSizeHint = 0
  /\ q.bufferBegin = p.bufferBegin + Total(f) /\ q.bufferEnd = p.bufferEnd
  /\ \A i \in q.bufferBegin..(q.bufferEnd - 1) : q.buffer[i] = p.buffer[i]

Delivers(p, n, f, r) ==
  /\ r.result = "frame" /\ Held(p) >= Total(f) /\ Total(f) <= maxFrameSize
  /\ r.data = Payload(n, f)
  /\ Behind(p, f, r.parser)

LEMMA EmptyWaits ==
  ASSUME NEW p, ParserOK(p), Held(p) = 0
  PROVE  Process(p) = More(p)
<1>1. p.bufferEnd - p.bufferBegin < 1
  BY DEF Held
<1>2. QED
  BY <1>1 DEF Process

(* The header, as process() reads it.                                      *)
LEMMA HeaderRead ==
  ASSUME NEW p, ParserOK(p), NEW n \in Nat, NEW f \in Frames, BeginsWith(p, n, f), Held(p) >= 1,
         NEW head, head = p.buffer[p.bufferBegin]
  PROVE  /\ head[2] = LengthField(f) /\ head[3] = Key(f) /\ MinLen(head) = Header(f)
         /\ Held(p) >= Header(f) =>
              (IF head[2] <= 125 THEN head[2] ELSE p.buffer[p.bufferBegin + 1][2]) = f.length
<1>1. PICK w : w = Wire(n, f)
  OBVIOUS
<1>2. PICK h \in 1..MaxHeader, len \in Nat, e \in 0..2, field \in Nat, key \in 0..1 :
        /\ h = Header(f) /\ len = f.length /\ e = Ext(f) /\ field = LengthField(f) /\ key = Key(f)
        /\ h = 1 + e + key /\ Total(f) = h + len
        /\ (field <= 125 => field = len) /\ (~(field <= 125) => e >= 1)
  BY FrameFields DEF Header, Total
<1>3. w[1] = <<"head", field, key>> /\ (e >= 1 => w[2] = <<"length", len, 1>>)
  BY <1>1, <1>2, WireIs
<1>4. PICK b \in Nat, l \in Nat : b = p.bufferBegin /\ l = Held(p)
  BY DEF ParserOK, Held
<1>5. \A k \in 1..l : k <= h + len => p.buffer[b + k - 1] = w[k]
  BY <1>1, <1>2, <1>4 DEF BeginsWith
<1>6. head = w[1]
  <2>1. 1 \in 1..l /\ 1 <= h + len /\ b + 1 - 1 = b
    BY <1>2, <1>4 DEF MaxHeader
  <2>2. p.buffer[b + 1 - 1] = w[1]
    BY <1>5, <2>1
  <2>3. QED
    BY <1>4, <2>1, <2>2
<1>7. head[2] = field /\ head[3] = key
  BY <1>3, <1>6
<1>8. MinLen(head) = h
  BY <1>2, <1>7 DEF MinLen, Ext
<1>9. ASSUME l >= h, ~(field <= 125) PROVE p.buffer[b + 1][2] = len
  <2>1. 2 \in 1..l /\ 2 <= h + len /\ b + 2 - 1 = b + 1 /\ e >= 1
    BY <1>2, <1>9
  <2>2. p.buffer[b + 2 - 1] = w[2]
    BY <1>5, <2>1
  <2>3. QED
    BY <1>3, <2>1, <2>2
<1>10. QED
  BY <1>2, <1>4, <1>7, <1>8, <1>9

LEMMA HintedOK ==
  ASSUME NEW p, ParserOK(p), NEW f \in Frames, NEW q, q = Hinted(p, f)
  PROVE  /\ ParserOK(q) /\ q.currFrameSizeHint = Total(f)
         /\ q.buffer = p.buffer /\ q.bufferSize = p.bufferSize
         /\ q.bufferBegin = p.bufferBegin /\ q.bufferEnd = p.bufferEnd /\ Held(q) = Held(p)
<1>1. PICK t \in Nat : t = Total(f)
  BY FrameFields DEF Total, MaxHeader
<1>2. q = [p EXCEPT !.currFrameSizeHint = t]
  BY <1>1 DEF Hinted
<1>3. /\ q.currFrameSizeHint = t /\ q.buffer = p.buffer /\ q.bufferSize = p.bufferSize
      /\ q.bufferBegin = p.bufferBegin /\ q.bufferEnd = p.bufferEnd /\ FieldsOf(q)
  BY <1>2 DEF ParserOK, FieldsOf
<1>4. QED
  BY <1>1, <1>3 DEF ParserOK, Held

(* A payload is unmasked in place, and nothing else changes.               *)
Cleared(p, h, n, masked) ==
  [i \in DOMAIN p.buffer |->
     IF masked /\ i \in (p.bufferBegin + h)..(p.bufferBegin + h + n - 1)
     THEN Unmask(p.buffer[i]) ELSE p.buffer[i]]

ClearedOK(p, n, f, c) ==
  /\ c \in [0..(p.bufferSize - 1) -> Cells]
  /\ \A k \in 1..f.length : c[p.bufferBegin + Header(f) + k - 1] = <<"data", n, k>>
  /\ \A i \in (p.bufferBegin + Total(f))..(p.bufferEnd - 1) : c[i] = p.buffer[i]

LEMMA ClearedIs ==
  ASSUME NEW p, ParserOK(p), NEW n \in Nat, NEW f \in Frames, BeginsWith(p, n, f),
         Held(p) >= Total(f), NEW c, c = Cleared(p, Header(f), f.length, f.mask)
  PROVE  ClearedOK(p, n, f, c)
<1>1. PICK h \in 1..MaxHeader, len \in Nat, b \in Nat, e \in Nat, size \in Nat \ {0} :
        /\ h = Header(f) /\ len = f.length /\ Total(f) = h + len
        /\ b = p.bufferBegin /\ e = p.bufferEnd /\ size = p.bufferSize
  BY FrameFields DEF Total, ParserOK
<1>2. h \in Nat /\ b + h + len <= e /\ e <= size /\ Held(p) = e - b
  <2>1. Held(p) = e - b
    BY <1>1 DEF Held
  <2>2. e <= size
    BY <1>1 DEF ParserOK
  <2>3. h \in Nat
    BY DEF MaxHeader
  <2>4. e - b >= h + len
    BY <1>1, <2>1
  <2>5. QED
    BY <2>1, <2>2, <2>3, <2>4
<1>3. p.buffer \in [0..(size - 1) -> Cells]
  BY <1>1 DEF ParserOK
<1>4. \A k \in 1..len : p.buffer[b + h + k - 1] = Sent(n, f, k)
  <2>1. TAKE k \in 1..len
  <2>2. h + k \in 1..(e - b) /\ h + k <= h + len /\ b + (h + k) - 1 = b + h + k - 1
    BY <1>2
  <2>3. p.buffer[b + (h + k) - 1] = Wire(n, f)[h + k]
    BY <1>1, <1>2, <2>2 DEF BeginsWith
  <2>4. Wire(n, f)[h + k] = Sent(n, f, k)
    BY <1>1, WireIs
  <2>5. QED
    BY <2>2, <2>3, <2>4
<1>5. PICK masked \in BOOLEAN : masked = f.mask
  BY FrameFields
<1>6. c = [i \in 0..(size - 1) |-> IF masked /\ i \in (b + h)..(b + h + len - 1)
                                  THEN Unmask(p.buffer[i]) ELSE p.buffer[i]]
  <2>1. DOMAIN p.buffer = 0..(size - 1)
    BY <1>3
  <2>2. QED
    BY <1>1, <1>5, <2>1 DEF Cleared
<1>7. \A k \in 1..len : c[b + h + k - 1] = <<"data", n, k>>
  <2>1. TAKE k \in 1..len
  <2>2. PICK i \in 0..(size - 1) : i = b + h + k - 1 /\ i \in (b + h)..(b + h + len - 1)
    BY <1>2
  <2>3. p.buffer[i] = Sent(n, f, k)
    BY <1>4, <2>2
  <2>4. CASE masked
    <3>1. p.buffer[i] = <<"masked", n, k>>
      BY <1>5, <2>3, <2>4 DEF Sent
    <3>2. c[i] = Unmask(p.buffer[i])
      BY <1>6, <2>2, <2>4
    <3>3. Unmask(<<"masked", n, k>>) = <<"data", n, k>>
      BY DEF Unmask
    <3>4. QED
      BY <2>2, <3>1, <3>2, <3>3
  <2>5. CASE ~masked
    <3>1. p.buffer[i] = <<"data", n, k>>
      BY <1>5, <2>3, <2>5 DEF Sent
    <3>2. c[i] = p.buffer[i]
      BY <1>6, <2>2, <2>5
    <3>3. QED
      BY <2>2, <3>1, <3>2
  <2>6. QED
    BY <2>4, <2>5
<1>8. \A i \in 0..(size - 1) : ~(i \in (b + h)..(b + h + len - 1)) => c[i] = p.buffer[i]
  BY <1>6
<1>9. ASSUME NEW i \in 0..(size - 1) PROVE c[i] \in Cells
  <2>1. CASE i \in (b + h)..(b + h + len - 1)
    <3>1. PICK k \in 1..len : i = b + h + k - 1
      <4>1. i - (b + h) + 1 \in 1..len /\ i = b + h + (i - (b + h) + 1) - 1
        BY <1>2, <2>1
      <4>2. QED
        BY <4>1
    <3>2. c[i] = <<"data", n, k>>
      BY <1>7, <3>1
    <3>3. QED
      BY <3>2 DEF Cells
  <2>2. CASE ~(i \in (b + h)..(b + h + len - 1))
    BY <1>3, <1>8, <2>2
  <2>3. QED
    BY <2>1, <2>2
<1>10. c \in [0..(size - 1) -> Cells]
  <2>1. c = [i \in 0..(size - 1) |-> c[i]]
    BY <1>6
  <2>2. QED
    BY <1>9, <2>1
<1>11. \A i \in (b + (h + len))..(e - 1) : c[i] = p.buffer[i]
  <2>1. TAKE i \in (b + (h + len))..(e - 1)
  <2>2. i \in 0..(size - 1) /\ ~(i \in (b + h)..(b + h + len - 1))
    BY <1>2
  <2>3. QED
    BY <1>8, <2>2
<1>12. QED
  BY <1>1, <1>7, <1>10, <1>11 DEF ClearedOK

LEMMA ProcessIs ==
  ASSUME NEW p, ParserOK(p), NEW n \in Nat, NEW f \in Frames, BeginsWith(p, n, f),
         NEW r, r = Process(p)
  PROVE  Waits(p, f, r) \/ Refuses(p, f, r) \/ Delivers(p, n, f, r)
<1> DEFINE len     == p.bufferEnd - p.bufferBegin
           head    == p.buffer[p.bufferBegin]
           minLen  == MinLen(head)
           payload == IF head[2] <= 125 THEN head[2] ELSE p.buffer[p.bufferBegin + 1][2]
           size    == minLen + payload
           hinted  == [p EXCEPT !.currFrameSizeHint = size]
           first   == p.bufferBegin + minLen
           clear   == [i \in DOMAIN p.buffer |->
                         IF head[3] = 1 /\ i \in first..(first + payload - 1)
                         THEN Unmask(p.buffer[i]) ELSE p.buffer[i]]
           behind  == [p EXCEPT !.buffer = clear, !.bufferBegin = @ + size, !.currFrameSizeHint = 0]
           data    == [k \in 1..payload |-> clear[first + k - 1]]
<1>1. r = IF len < 1 \/ len < minLen THEN More(p)
          ELSE IF Exceeds(payload) THEN TooLarge(p)
          ELSE IF Exceeds(size) THEN TooLarge(hinted)
          ELSE IF len < size THEN More(hinted)
          ELSE [result |-> "frame", parser |-> behind, data |-> data]
  BY Zenon DEF Process
<1>2. PICK h \in 1..MaxHeader, l \in Nat : h = Header(f) /\ l = f.length /\ Total(f) = h + l
  BY FrameFields DEF Total
<1>3. len \in Nat /\ len = Held(p) /\ h \in Nat /\ h >= 1
  <2>1. p.bufferBegin \in Nat /\ p.bufferEnd \in Nat /\ p.bufferBegin <= p.bufferEnd
    BY DEF ParserOK
  <2>2. h \in Nat /\ h >= 1
    BY <1>2 DEF MaxHeader
  <2>3. QED
    BY <2>1, <2>2 DEF Held
<1>4. len >= 1 => head[3] = Key(f) /\ minLen = h /\ (len >= h => payload = l)
  BY <1>2, <1>3, HeaderRead
<1> HIDE DEF len, head, minLen, payload
<1>5. CASE len < 1 \/ len < minLen
  <2>1. r = More(p)
    BY <1>1, <1>5
  <2>2. Held(p) < Header(f)
    BY <1>2, <1>3, <1>4, <1>5
  <2>3. QED
    BY <2>1, <2>2 DEF More, Waits
<1>6. CASE ~(len < 1 \/ len < minLen)
  <2>1. /\ head[3] = Key(f) /\ minLen = h /\ payload = l /\ len >= h
    BY <1>3, <1>4, <1>6
  <2>2. size = Total(f)
    BY <1>2, <2>1
  <2>3. hinted = Hinted(p, f)
    BY <2>2 DEF Hinted
  <2>4. Total(f) \in Nat /\ maxFrameSize \in Nat
    BY <1>2, <1>3, WebSocketParserAssumption
  <2>5. r = IF Exceeds(l) THEN TooLarge(p)
            ELSE IF Exceeds(Total(f)) THEN TooLarge(Hinted(p, f))
            ELSE IF len < Total(f) THEN More(Hinted(p, f))
            ELSE [result |-> "frame", parser |-> behind, data |-> data]
    <3> HIDE DEF size, hinted, behind, data
    <3>1. QED
      BY <1>1, <1>6, <2>1, <2>2, <2>3
  <2> HIDE DEF size, hinted
  <2>6. CASE Exceeds(l)
    <3>1. r = TooLarge(p)
      BY <2>5, <2>6
    <3>2. Total(f) > maxFrameSize
      BY <1>2, <1>3, <2>4, <2>6 DEF Exceeds
    <3>3. QED
      BY <3>1, <3>2 DEF TooLarge, Refuses
  <2>7. CASE ~Exceeds(l) /\ Exceeds(Total(f))
    <3>1. r = TooLarge(Hinted(p, f))
      BY <2>5, <2>7
    <3>2. Total(f) > maxFrameSize /\ f.length <= maxFrameSize
      BY <1>2, <2>4, <2>7 DEF Exceeds
    <3>3. QED
      BY <3>1, <3>2 DEF TooLarge, Refuses
  <2>8. CASE ~Exceeds(l) /\ ~Exceeds(Total(f)) /\ len < Total(f)
    <3>1. r = More(Hinted(p, f))
      BY <2>5, <2>8
    <3>2. Total(f) <= maxFrameSize /\ Held(p) < Total(f)
      BY <1>3, <2>4, <2>8 DEF Exceeds
    <3>3. QED
      BY <3>1, <3>2 DEF More, Waits
  <2>9. CASE ~Exceeds(l) /\ ~Exceeds(Total(f)) /\ ~(len < Total(f))
    <3>1. r = [result |-> "frame", parser |-> behind, data |-> data]
      BY <2>5, <2>9
    <3>2. Held(p) >= Total(f) /\ Total(f) <= maxFrameSize
      BY <1>3, <2>4, <2>9 DEF Exceeds
    <3>3. PICK c : c = Cleared(p, Header(f), f.length, f.mask)
      OBVIOUS
    <3>4. clear = c
      <4>1. f.mask <=> head[3] = 1
        BY <2>1, FrameFields DEF Key
      <4>2. QED
        BY <1>2, <2>1, <3>3, <4>1 DEF Cleared
    <3>5. /\ c \in [0..(p.bufferSize - 1) -> Cells]
          /\ \A k \in 1..f.length : c[p.bufferBegin + Header(f) + k - 1] = <<"data", n, k>>
          /\ \A i \in (p.bufferBegin + Total(f))..(p.bufferEnd - 1) : c[i] = p.buffer[i]
      <4>1. ClearedOK(p, n, f, c)
        BY <3>2, <3>3, ClearedIs
      <4>2. QED
        BY <4>1 DEF ClearedOK
    <3>6. data = Payload(n, f)
      <4>1. data = [k \in 1..l |-> c[p.bufferBegin + h + k - 1]]
        BY <2>1, <3>4
      <4>2. QED
        BY <1>2, <3>5, <4>1 DEF Payload
    <3>7. PICK q : q = behind
      OBVIOUS
    <3>8. q = [p EXCEPT !.buffer = c, !.bufferBegin = p.bufferBegin + Total(f), !.currFrameSizeHint = 0]
      BY <2>2, <3>4, <3>7
    <3>9. /\ q.buffer = c /\ q.bufferSize = p.bufferSize /\ q.currFrameSizeHint = 0
          /\ q.bufferBegin = p.bufferBegin + Total(f) /\ q.bufferEnd = p.bufferEnd
          /\ FieldsOf(q)
      BY <3>8 DEF ParserOK, FieldsOf
    <3>10. p.bufferBegin + Total(f) <= p.bufferEnd /\ p.bufferBegin + Total(f) \in Nat
      BY <2>4, <3>2 DEF ParserOK, Held
    <3>11. ParserOK(q)
      BY <3>5, <3>9, <3>10 DEF ParserOK
    <3>12. Behind(p, f, q)
      BY <3>5, <3>9, <3>11 DEF Behind
    <3>13. r.result = "frame" /\ r.data = Payload(n, f) /\ r.parser = q
      <4>1. PICK d : d = data
        OBVIOUS
      <4> HIDE DEF behind, data
      <4>2. r = [result |-> "frame", parser |-> q, data |-> d]
        BY <3>1, <3>7, <4>1
      <4>3. QED
        BY <3>6, <4>1, <4>2
    <3>14. QED
      BY <3>2, <3>12, <3>13 DEF Delivers
  <2>10. QED
    BY <2>6, <2>7, <2>8, <2>9
<1>7. QED
  BY <1>5, <1>6

-----------------------------------------------------------------------------
(***************************************************************************)
(* The stream, as the operations leave it.                                 *)
(***************************************************************************)
LEMMA StreamNext ==
  ASSUME NEW s \in Seq(Frames), NEW n \in 0..Len(s), n < Len(s),
         NEW S, S = StreamAfter(s, n), NEW R, R = StreamAfter(s, n + 1),
         NEW w, w = Wire(n + 1, s[n + 1])
  PROVE  /\ n + 1 \in 0..Len(s) /\ s[n + 1] \in Frames
         /\ Len(S) = Total(s[n + 1]) + Len(R)
         /\ \A k \in 1..Total(s[n + 1]) : S[k] = w[k]
         /\ \A k \in 1..Len(R) : S[Total(s[n + 1]) + k] = R[k]
<1>1. n + 1 \in 0..Len(s) /\ n + 1 \in Nat /\ s[n + 1] \in Frames
  OBVIOUS
<1>2. R \in Seq(Cells)
  BY <1>1, StreamAfterIs
<1>3. S = w \o R
  BY StreamAfterIs
<1>4. PICK f \in Frames : f = s[n + 1]
  BY <1>1
<1>5. w \in Seq(Cells) /\ Len(w) = Total(f)
  BY <1>1, <1>4, WireIs DEF Total
<1>6. /\ Len(w \o R) = Len(w) + Len(R)
      /\ \A k \in 1..Len(w) + Len(R) : (w \o R)[k] = IF k <= Len(w) THEN w[k] ELSE R[k - Len(w)]
  BY <1>2, <1>5, ConcatProperties
<1>7. PICK a \in Nat, b \in Nat : a = Len(w) /\ b = Len(R) /\ a = Total(f)
  BY <1>2, <1>5
<1>8. /\ Len(S) = a + b
      /\ \A k \in 1..(a + b) : S[k] = IF k <= a THEN w[k] ELSE R[k - a]
  BY <1>3, <1>6, <1>7
<1>9. \A k \in 1..a : S[k] = w[k]
  BY <1>8
<1>10. \A k \in 1..b : S[a + k] = R[k]
  BY <1>8
<1>11. QED
  BY <1>1, <1>4, <1>7, <1>8, <1>9, <1>10

LEMMA StreamEnds ==
  ASSUME NEW p, ParserOK(p), NEW s \in Seq(Frames), NEW later \in Seq(Cells),
         StreamIs(p, later, StreamAfter(s, Len(s)))
  PROVE  Held(p) = 0
<1>1. Len(s) \in 0..Len(s)
  OBVIOUS
<1>2. StreamAfter(s, Len(s)) = << >>
  BY <1>1, StreamAfterIs
<1>3. Held(p) \in Nat /\ Len(later) \in Nat
  BY DEF ParserOK, Held
<1>4. Len(<< >>) = Held(p) + Len(later)
  BY <1>2 DEF StreamIs
<1>5. QED
  BY <1>3, <1>4

LEMMA StreamBegins ==
  ASSUME NEW p, ParserOK(p), NEW s \in Seq(Frames), NEW n \in 0..Len(s), n < Len(s),
         NEW later \in Seq(Cells), StreamIs(p, later, StreamAfter(s, n))
  PROVE  BeginsWith(p, n + 1, s[n + 1])
<1>1. PICK S : S = StreamAfter(s, n)
  OBVIOUS
<1>2. PICK R : R = StreamAfter(s, n + 1)
  OBVIOUS
<1>3. PICK w : w = Wire(n + 1, s[n + 1])
  OBVIOUS
<1>4. s[n + 1] \in Frames /\ \A k \in 1..Total(s[n + 1]) : S[k] = w[k]
  BY <1>1, <1>2, <1>3, StreamNext
<1>5. PICK t \in Nat : t = Total(s[n + 1])
  BY <1>4, TotalType
<1>6. Held(p) \in Nat
  BY DEF ParserOK, Held
<1>7. ASSUME NEW k \in 1..Held(p), k <= t PROVE p.buffer[p.bufferBegin + k - 1] = w[k]
  <2>1. k \in 1..t
    BY <1>6, <1>7
  <2>2. p.buffer[p.bufferBegin + k - 1] = S[k]
    BY <1>1 DEF StreamIs
  <2>3. QED
    BY <1>4, <1>5, <2>1, <2>2
<1>8. QED
  BY <1>3, <1>5, <1>7 DEF BeginsWith

LEMMA StreamMoves ==
  ASSUME NEW p, ParserOK(p), NEW s \in Seq(Frames), NEW n \in 0..Len(s), n < Len(s),
         NEW later \in Seq(Cells), StreamIs(p, later, StreamAfter(s, n)),
         NEW q, Behind(p, s[n + 1], q), Held(p) >= Total(s[n + 1])
  PROVE  StreamIs(q, later, StreamAfter(s, n + 1))
<1>1. PICK S : S = StreamAfter(s, n)
  OBVIOUS
<1>2. PICK R : R = StreamAfter(s, n + 1)
  OBVIOUS
<1>3. PICK w : w = Wire(n + 1, s[n + 1])
  OBVIOUS
<1>4. /\ s[n + 1] \in Frames /\ n + 1 \in 0..Len(s)
      /\ Len(S) = Total(s[n + 1]) + Len(R)
      /\ \A k \in 1..Len(R) : S[Total(s[n + 1]) + k] = R[k]
  BY <1>1, <1>2, <1>3, StreamNext
<1>5. R \in Seq(Cells)
  BY <1>2, <1>4, StreamAfterIs
<1>6. PICK t \in Nat, l \in Nat, m \in Nat, b \in Nat, e \in Nat :
        /\ t = Total(s[n + 1]) /\ l = Len(R) /\ m = Len(later)
        /\ b = p.bufferBegin /\ e = p.bufferEnd
  <2>1. Total(s[n + 1]) \in Nat
    BY <1>4, TotalType
  <2>2. Len(R) \in Nat /\ Len(later) \in Nat
    BY <1>5
  <2>3. p.bufferBegin \in Nat /\ p.bufferEnd \in Nat
    BY DEF ParserOK
  <2>4. QED
    BY <2>1, <2>2, <2>3
<1>7. /\ e - b \in Nat /\ e - b >= t /\ Held(p) = e - b
      /\ q.bufferBegin = b + t /\ q.bufferEnd = e
      /\ \A i \in (b + t)..(e - 1) : q.buffer[i] = p.buffer[i]
  <2>1. b <= e
    BY <1>6 DEF ParserOK
  <2>2. Held(p) = e - b
    BY <1>6 DEF Held
  <2>3. /\ q.bufferBegin = b + t /\ q.bufferEnd = e
        /\ \A i \in (b + t)..(e - 1) : q.buffer[i] = p.buffer[i]
    BY <1>6 DEF Behind
  <2>4. QED
    BY <1>6, <2>1, <2>2, <2>3
<1>8. Held(q) = e - b - t
  BY <1>7 DEF Held
<1>9. /\ t + l = e - b + m
      /\ \A k \in 1..(e - b) : p.buffer[b + k - 1] = S[k]
      /\ \A k \in 1..m : later[k] = S[e - b + k]
  BY <1>1, <1>4, <1>6, <1>7 DEF StreamIs
<1>10. \A k \in 1..l : S[t + k] = R[k]
  BY <1>4, <1>6
<1>11. e - b >= t /\ t + l = e - b + m
  BY <1>7, <1>9
<1>12. ASSUME NEW k \in 1..(e - b - t) PROVE q.buffer[b + t + k - 1] = R[k]
  <2>1. /\ b + t + k - 1 \in (b + t)..(e - 1) /\ t + k \in 1..(e - b)
        /\ b + (t + k) - 1 = b + t + k - 1 /\ k \in 1..l
    BY <1>11
  <2>2. q.buffer[b + t + k - 1] = p.buffer[b + t + k - 1]
    BY <1>7, <2>1
  <2>3. p.buffer[b + (t + k) - 1] = S[t + k]
    BY <1>9, <2>1
  <2>4. S[t + k] = R[k]
    BY <1>10, <2>1
  <2>5. QED
    BY <2>1, <2>2, <2>3, <2>4
<1>13. ASSUME NEW k \in 1..m PROVE later[k] = R[e - b - t + k]
  <2>1. e - b - t + k \in 1..l /\ t + (e - b - t + k) = e - b + k
    BY <1>7, <1>9
  <2>2. S[t + (e - b - t + k)] = R[e - b - t + k]
    BY <1>10, <2>1
  <2>3. QED
    BY <1>9, <2>1, <2>2
<1>14. Len(R) = e - b - t + m
  <2>1. l = e - b - t + m
    BY <1>11
  <2>2. QED
    BY <1>6, <2>1
<1>15. Len(later) = m /\ q.bufferBegin = b + t /\ StreamAfter(s, n + 1) = R
  BY <1>2, <1>6, <1>7
<1>16. QED
  BY <1>8, <1>12, <1>13, <1>14, <1>15 DEF StreamIs

LEMMA StreamKept ==
  ASSUME NEW p, NEW q, NEW later, NEW S, StreamIs(p, later, S), Held(q) = Held(p),
         \A k \in 1..Held(p) : q.buffer[q.bufferBegin + k - 1] = p.buffer[p.bufferBegin + k - 1]
  PROVE  StreamIs(q, later, S)
BY DEF StreamIs

LEMMA StreamStarts ==
  ASSUME NEW p, Held(p) = 0, NEW S \in Seq(Cells) PROVE StreamIs(p, S, S)
BY DEF StreamIs

LEMMA StreamReads ==
  ASSUME NEW p, ParserOK(p), NEW later \in Seq(Cells), NEW S, StreamIs(p, later, S),
         NEW n \in 1..Len(later), n <= Room(p),
         NEW q, q = EndAddData(p, SubSeq(later, 1, n))
  PROVE  /\ ParserOK(q) /\ q.currFrameSizeHint = p.currFrameSizeHint /\ q.bufferSize = p.bufferSize
         /\ SubSeq(later, n + 1, Len(later)) \in Seq(Cells)
         /\ StreamIs(q, SubSeq(later, n + 1, Len(later)), S)
<1>1. PICK m \in Nat, h \in Nat, b \in Nat : m = Len(later) /\ h = Held(p) /\ b = p.bufferBegin
  BY DEF ParserOK, Held
<1>2. n \in Nat /\ n >= 1 /\ n <= m
  BY <1>1
<1>3. \A k \in 1..m : later[k] \in Cells
  BY <1>1
<1>4. PICK d : d = SubSeq(later, 1, n)
  OBVIOUS
<1>5. d \in Seq(Cells) /\ Len(d) = n /\ \A k \in 1..n : d[k] = later[k]
  <2>1. \A k \in 1..n : later[k] \in Cells
    BY <1>2, <1>3
  <2>2. /\ SubSeq(later, 1, n) \in Seq(Cells)
        /\ Len(SubSeq(later, 1, n)) = IF 1 <= n THEN n - 1 + 1 ELSE 0
        /\ \A k \in 1..(n - 1 + 1) : SubSeq(later, 1, n)[k] = later[1 + k - 1]
    BY <1>2, <2>1, SubSeqProperties
  <2>3. QED
    BY <1>2, <1>4, <2>2
<1>6. PICK r : r = SubSeq(later, n + 1, m)
  OBVIOUS
<1>7. r \in Seq(Cells) /\ Len(r) = m - n /\ \A k \in 1..(m - n) : r[k] = later[n + k]
  <2>1. \A k \in (n + 1)..m : later[k] \in Cells
    BY <1>2, <1>3
  <2>2. /\ SubSeq(later, n + 1, m) \in Seq(Cells)
        /\ Len(SubSeq(later, n + 1, m)) = IF n + 1 <= m THEN m - (n + 1) + 1 ELSE 0
        /\ \A k \in 1..(m - (n + 1) + 1) : SubSeq(later, n + 1, m)[k] = later[n + 1 + k - 1]
    BY <1>2, <2>1, SubSeqProperties
  <2>3. /\ m - (n + 1) + 1 = m - n /\ (n + 1 <= m \/ m - n = 0)
        /\ \A k \in 1..(m - n) : n + 1 + k - 1 = n + k
    BY <1>2
  <2>4. Len(r) = m - n
    BY <1>6, <2>2, <2>3
  <2>5. \A k \in 1..(m - n) : r[k] = later[n + k]
    BY <1>6, <2>2, <2>3
  <2>6. QED
    BY <1>6, <2>2, <2>4, <2>5
<1>8. /\ ParserOK(q)
      /\ Held(q) = h + n
      /\ \A k \in 1..h : q.buffer[q.bufferBegin + k - 1] = p.buffer[b + k - 1]
      /\ \A k \in 1..n : q.buffer[q.bufferBegin + h + k - 1] = d[k]
      /\ q.currFrameSizeHint = p.currFrameSizeHint
      /\ q.bufferSize = p.bufferSize
  <2>1. Len(d) <= Room(p) /\ q = EndAddData(p, d)
    BY <1>4, <1>5
  <2>2. Added(p, d, q)
    BY <1>5, <2>1, EndAddDataOK
  <2>3. QED
    BY <1>1, <1>5, <2>2 DEF Added
<1>9. /\ Len(S) = h + m
      /\ \A k \in 1..h : p.buffer[b + k - 1] = S[k]
      /\ \A k \in 1..m : later[k] = S[h + k]
  BY <1>1 DEF StreamIs
<1>10. PICK c \in Nat : c = q.bufferBegin
  BY <1>8 DEF ParserOK
<1>11. ASSUME NEW k \in 1..(h + n) PROVE q.buffer[c + k - 1] = S[k]
  <2>1. CASE k <= h
    <3>1. k \in 1..h
      BY <2>1
    <3>2. QED
      BY <1>8, <1>9, <1>10, <3>1
  <2>2. CASE k > h
    <3>1. PICK j \in 1..n : j = k - h /\ h + j = k /\ c + h + j - 1 = c + k - 1
      BY <1>2, <2>2
    <3>2. q.buffer[c + h + j - 1] = d[j]
      BY <1>8, <1>10
    <3>3. d[j] = later[j]
      BY <1>5
    <3>4. later[j] = S[h + j]
      <4>1. j \in 1..m
        BY <1>2
      <4>2. QED
        BY <1>9, <4>1
    <3>5. QED
      BY <3>1, <3>2, <3>3, <3>4
  <2>3. QED
    BY <2>1, <2>2
<1>12. ASSUME NEW k \in 1..(m - n) PROVE r[k] = S[h + n + k]
  <2>1. n + k \in 1..m /\ h + (n + k) = h + n + k
    BY <1>2
  <2>2. later[n + k] = S[h + (n + k)]
    BY <1>9, <2>1
  <2>3. QED
    BY <1>7, <2>1, <2>2
<1>13. StreamIs(q, r, S)
  <2>1. Len(S) = Held(q) + Len(r)
    BY <1>2, <1>7, <1>8, <1>9
  <2>2. QED
    BY <1>7, <1>8, <1>10, <1>11, <1>12, <2>1 DEF StreamIs
<1>14. QED
  BY <1>1, <1>6, <1>7, <1>8, <1>13

-----------------------------------------------------------------------------
(***************************************************************************)
(* The inductive invariant.                                                *)
(***************************************************************************)
Bounded(p) ==
  /\ p.currFrameSizeHint <= maxFrameSize + MaxHeader
  /\ \/ p.bufferSize <= InitialBufferSize
     \/ p.bufferSize < 4 * (maxFrameSize + MaxHeader)

Delivered(s, n) == [i \in 1..n |-> Payload(i, s[i])]

Incomplete(p, f) == IF Total(f) > maxFrameSize THEN Held(p) < Header(f) ELSE Held(p) < Total(f)

(* The first n frames of the stream were handed out, and the rest of it is *)
(* where it should be.                                                     *)
Progress(n) ==
  /\ frames = Delivered(script, n)
  /\ \A i \in 1..n : Total(script[i]) <= maxFrameSize
  /\ pc = "unused" => frames = << >>
  /\ pc # "unused" => StreamIs(parser, pending, StreamAfter(script, n))
  /\ pc = "read" /\ n < Len(script) => Incomplete(parser, script[n + 1])
  /\ pc = "failed" => n < Len(script) /\ Total(script[n + 1]) > maxFrameSize

StreamInv ==
  /\ ParserOK(parser) /\ Bounded(parser)
  /\ pc \in {"unused", "read", "process", "failed"}
  /\ pc = "read" => Room(parser) > 0
  /\ script \in Seq(Frames) /\ pending \in Seq(Cells)
  /\ \E n \in 0..Len(script) : Progress(n)

LEMMA InitStream == Init => StreamInv
<1> SUFFICES ASSUME Init PROVE StreamInv
  OBVIOUS
<1>1. ParserOK(parser) /\ parser.bufferSize = InitialBufferSize /\ parser.currFrameSizeHint = 0
  BY NewParserOK DEF Init
<1>2. Bounded(parser)
  BY <1>1, WebSocketParserAssumption DEF Bounded, MaxHeader
<1>3. /\ pc = "unused" /\ script = << >> /\ pending = << >> /\ frames = << >>
      /\ script \in Seq(Frames) /\ pending \in Seq(Cells) /\ Len(script) = 0
  BY DEF Init
<1>4. frames = Delivered(script, 0)
  BY <1>3 DEF Delivered
<1>5. Progress(0)
  BY <1>3, <1>4 DEF Progress
<1>6. QED
  BY <1>1, <1>2, <1>3, <1>5 DEF StreamInv

(* What beginAddData() does to the bounds.  The hint of a frame that was   *)
(* refused counts here, because reset() keeps it.                          *)
LEMMA BoundedGrows ==
  ASSUME NEW p, ParserOK(p), Bounded(p), Held(p) <= maxFrameSize + MaxHeader,
         NEW q, q = BeginAddData(p)
  PROVE  Bounded(q)
<1>1. PICK m \in Nat : m = maxFrameSize + MaxHeader
  BY WebSocketParserAssumption DEF MaxHeader
<1>2. PICK h \in Nat, c \in Nat, bs \in Nat : h = p.currFrameSizeHint /\ c = Held(p) /\ bs = p.bufferSize
  BY DEF ParserOK, Held
<1>3. q.currFrameSizeHint = h /\ q.bufferSize = IF c = 0 THEN bs ELSE NextSize(p)
  BY <1>2, BeginAddDataOK
<1>4. PICK u \in Nat : u = NextSize(p) /\ (u = bs \/ u < 4 * h \/ u < 4 * c)
  BY <1>2, NextSizeIs
<1>5. h <= m /\ c <= m /\ (bs <= InitialBufferSize \/ bs < 4 * m)
  BY <1>1, <1>2 DEF Bounded
<1>6. InitialBufferSize \in Nat
  BY WebSocketParserAssumption
<1>7. (u = bs \/ u < 4 * m) /\ (u <= InitialBufferSize \/ u < 4 * m)
  BY <1>4, <1>5, <1>6
<1>8. CASE c = 0
  BY <1>1, <1>3, <1>5, <1>8 DEF Bounded
<1>9. CASE c # 0
  BY <1>1, <1>3, <1>4, <1>5, <1>7, <1>9 DEF Bounded
<1>10. QED
  BY <1>8, <1>9

LEMMA StepStart == StreamInv /\ Start => StreamInv'
<1> SUFFICES ASSUME StreamInv, Start PROVE StreamInv'
  OBVIOUS
<1>1. PICK s \in Scripts : script' = s /\ pending' = StreamAfter(s, 0)
  BY DEF Start
<1>2. s \in Seq(Frames)
  BY <1>1, WebSocketParserAssumption
<1>3. Len(s) \in Nat /\ 0 \in 0..Len(s)
  BY <1>2
<1>4. StreamAfter(s, 0) \in Seq(Cells)
  BY <1>2, <1>3, StreamAfterIs
<1>5. PICK r : r = Reset(parser)
  OBVIOUS
<1>6. /\ ParserOK(r) /\ Held(r) = 0
      /\ r.bufferSize = parser.bufferSize /\ r.currFrameSizeHint = parser.currFrameSizeHint
  BY <1>5, ResetOK DEF StreamInv
<1>7. Bounded(r)
  BY <1>6 DEF StreamInv, Bounded
<1>8. PICK q : q = BeginAddData(r)
  OBVIOUS
<1>9. ParserOK(q) /\ Room(q) > 0 /\ Held(q) = 0
  BY <1>6, <1>8, BeginAddDataOK
<1>10. Bounded(q)
  <2>1. Held(r) <= maxFrameSize + MaxHeader
    BY <1>6, WebSocketParserAssumption DEF MaxHeader
  <2>2. QED
    BY <1>6, <1>7, <1>8, <2>1, BoundedGrows
<1>11. parser' = q /\ pc' = "read" /\ frames' = << >>
  BY <1>5, <1>8 DEF Start, StreamInv, Progress
<1>12. StreamIs(q, pending', StreamAfter(s, 0))
  BY <1>1, <1>4, <1>9, StreamStarts
<1>13. frames' = Delivered(s, 0)
  BY <1>11 DEF Delivered
<1>14. 0 < Len(s) => Incomplete(q, s[0 + 1])
  <2>1. SUFFICES ASSUME 0 < Len(s) PROVE Incomplete(q, s[0 + 1])
    OBVIOUS
  <2>2. s[0 + 1] \in Frames
    BY <1>2, <2>1
  <2>3. QED
    BY <1>9, <2>2, TotalType DEF Incomplete
<1>15. Progress(0)'
  BY <1>1, <1>11, <1>12, <1>13, <1>14 DEF Progress
<1>16. QED
  BY <1>1, <1>2, <1>3, <1>4, <1>9, <1>10, <1>11, <1>15 DEF StreamInv

LEMMA StepRead ==
  ASSUME StreamInv, NEW k \in 1..Len(pending), Read(k) PROVE StreamInv'
<1>1. PICK n \in 0..Len(script) : Progress(n)
  BY DEF StreamInv
<1>2. pc = "read" /\ pc' = "process" /\ script' = script /\ frames' = frames
  BY DEF Read
<1>3. PICK S : S = StreamAfter(script, n)
  OBVIOUS
<1>4. StreamIs(parser, pending, S) /\ frames = Delivered(script, n)
  BY <1>1, <1>2, <1>3 DEF Progress
<1>5. parser' = EndAddData(parser, SubSeq(pending, 1, k)) /\ k <= Room(parser)
  BY DEF Read
<1>6. pending' = SubSeq(pending, k + 1, Len(pending))
  BY DEF Read
<1>7. /\ ParserOK(parser') /\ parser'.currFrameSizeHint = parser.currFrameSizeHint
      /\ parser'.bufferSize = parser.bufferSize
      /\ pending' \in Seq(Cells) /\ StreamIs(parser', pending', S)
  BY <1>4, <1>5, <1>6, StreamReads DEF StreamInv
<1>8. Bounded(parser')
  BY <1>7 DEF StreamInv, Bounded
<1>9. Progress(n)'
  BY <1>1, <1>2, <1>3, <1>4, <1>7 DEF Progress
<1>10. QED
  BY <1>2, <1>7, <1>8, <1>9 DEF StreamInv

LEMMA DeliveredNext ==
  ASSUME NEW s \in Seq(Frames), NEW n \in 0..Len(s), n < Len(s)
  PROVE  Append(Delivered(s, n), Payload(n + 1, s[n + 1])) = Delivered(s, n + 1)
<1>1. PICK m \in Nat : m = n
  OBVIOUS
<1>2. PICK a : a = Delivered(s, m)
  OBVIOUS
<1>3. PICK T : T = {Payload(i, s[i]) : i \in 1..(m + 1)}
  OBVIOUS
<1>4. PICK x \in T : x = Payload(m + 1, s[m + 1])
  BY <1>3
<1>5. a \in Seq(T) /\ Len(a) = m /\ \A i \in 1..m : a[i] = Payload(i, s[i])
  <2>1. \A i \in 1..m : Payload(i, s[i]) \in T
    BY <1>3
  <2>2. a = [i \in 1..m |-> Payload(i, s[i])]
    BY <1>2 DEF Delivered
  <2>3. QED
    BY <2>1, <2>2
<1>6. PICK b : b = Append(a, x)
  OBVIOUS
<1>7. b \in Seq(T) /\ Len(b) = m + 1 /\ b[m + 1] = x /\ \A i \in 1..m : b[i] = a[i]
  BY <1>5, <1>6, AppendProperties
<1>8. \A i \in 1..(m + 1) : b[i] = Payload(i, s[i])
  BY <1>4, <1>5, <1>7
<1>9. b = [i \in 1..(m + 1) |-> Payload(i, s[i])]
  <2>1. b = [i \in 1..(m + 1) |-> b[i]]
    BY <1>7
  <2>2. QED
    BY <1>8, <2>1
<1>10. QED
  BY <1>1, <1>2, <1>4, <1>6, <1>9 DEF Delivered

LEMMA StepProcessFrame == StreamInv /\ ProcessFrame => StreamInv'
<1> SUFFICES ASSUME StreamInv, ProcessFrame PROVE StreamInv'
  OBVIOUS
<1>1. PICK n \in 0..Len(script) : Progress(n)
  BY DEF StreamInv
<1>2. PICK r : r = Process(parser)
  OBVIOUS
<1>3. /\ pc = "process" /\ pc' = pc /\ script' = script /\ pending' = pending
      /\ r.result = "frame" /\ parser' = r.parser /\ frames' = Append(frames, r.data)
  BY <1>2 DEF ProcessFrame
<1>4. StreamIs(parser, pending, StreamAfter(script, n)) /\ frames = Delivered(script, n)
  BY <1>1, <1>3 DEF Progress
<1>5. n < Len(script)
  <2>1. SUFFICES ASSUME n = Len(script) PROVE FALSE
    BY DEF StreamInv
  <2>2. Held(parser) = 0
    BY <1>4, <2>1, StreamEnds DEF StreamInv
  <2>3. r = More(parser)
    BY <1>2, <2>2, EmptyWaits DEF StreamInv
  <2>4. QED
    BY <1>3, <2>3 DEF More
<1>6. PICK f \in Frames : f = script[n + 1]
  BY <1>5 DEF StreamInv
<1>7. BeginsWith(parser, n + 1, f)
  BY <1>4, <1>5, <1>6, StreamBegins DEF StreamInv
<1>8. Delivers(parser, n + 1, f, r)
  <2>1. n + 1 \in Nat
    OBVIOUS
  <2>2. Waits(parser, f, r) \/ Refuses(parser, f, r) \/ Delivers(parser, n + 1, f, r)
    BY <1>2, <1>7, <2>1, ProcessIs DEF StreamInv
  <2>3. QED
    BY <1>3, <2>2 DEF Waits, Refuses
<1>9. /\ r.data = Payload(n + 1, f) /\ Behind(parser, f, r.parser)
      /\ Held(parser) >= Total(f) /\ Total(f) <= maxFrameSize
  BY <1>8 DEF Delivers
<1>10. StreamIs(parser', pending', StreamAfter(script, n + 1))
  BY <1>3, <1>4, <1>5, <1>6, <1>9, StreamMoves DEF StreamInv
<1>11. frames' = Delivered(script, n + 1)
  BY <1>3, <1>4, <1>5, <1>6, <1>9, DeliveredNext DEF StreamInv
<1>12. ParserOK(parser') /\ Bounded(parser')
  <2>1. ParserOK(parser') /\ parser'.bufferSize = parser.bufferSize /\ parser'.currFrameSizeHint = 0
    BY <1>3, <1>9 DEF Behind
  <2>2. 0 <= maxFrameSize + MaxHeader
    BY WebSocketParserAssumption DEF MaxHeader
  <2>3. QED
    BY <2>1, <2>2 DEF StreamInv, Bounded
<1>13. Progress(n + 1)'
  <2>1. \A i \in 1..n : Total(script[i]) <= maxFrameSize
    BY <1>1 DEF Progress
  <2>2. \A i \in 1..(n + 1) : i = n + 1 \/ i \in 1..n
    OBVIOUS
  <2>3. \A i \in 1..(n + 1) : Total(script[i]) <= maxFrameSize
    BY <1>6, <1>9, <2>1, <2>2
  <2>4. QED
    BY <1>3, <1>10, <1>11, <2>3 DEF Progress
<1>14. n + 1 \in 0..Len(script')
  BY <1>3, <1>5 DEF StreamInv
<1>15. QED
  BY <1>3, <1>12, <1>13, <1>14 DEF StreamInv

LEMMA StepProcessMore == StreamInv /\ ProcessMore => StreamInv'
<1> SUFFICES ASSUME StreamInv, ProcessMore PROVE StreamInv'
  OBVIOUS
<1>1. PICK n \in 0..Len(script) : Progress(n)
  BY DEF StreamInv
<1>2. PICK r : r = Process(parser)
  OBVIOUS
<1>3. PICK q : q = BeginAddData(r.parser)
  OBVIOUS
<1>4. /\ pc = "process" /\ pc' = "read" /\ script' = script /\ pending' = pending /\ frames' = frames
      /\ r.result = "more" /\ parser' = q
  BY <1>2, <1>3 DEF ProcessMore
<1>5. StreamIs(parser, pending, StreamAfter(script, n)) /\ frames = Delivered(script, n)
  BY <1>1, <1>4 DEF Progress
<1>6. PICK p : p = r.parser
  OBVIOUS
<1>7. /\ ParserOK(p) /\ Bounded(p) /\ Held(p) <= maxFrameSize + MaxHeader /\ Held(p) = Held(parser)
      /\ p.buffer = parser.buffer /\ p.bufferBegin = parser.bufferBegin
      /\ n < Len(script) => Incomplete(parser, script[n + 1])
  <2>1. CASE n = Len(script)
    <3>1. Held(parser) = 0
      BY <1>5, <2>1, StreamEnds DEF StreamInv
    <3>2. p = parser
      BY <1>2, <1>6, <3>1, EmptyWaits DEF StreamInv, More
    <3>3. 0 <= maxFrameSize + MaxHeader /\ ~(n < Len(script))
      BY <2>1, WebSocketParserAssumption DEF MaxHeader
    <3>4. QED
      BY <3>1, <3>2, <3>3 DEF StreamInv
  <2>2. CASE n < Len(script)
    <3>1. PICK f \in Frames : f = script[n + 1]
      BY <2>2 DEF StreamInv
    <3>2. BeginsWith(parser, n + 1, f)
      BY <1>5, <2>2, <3>1, StreamBegins DEF StreamInv
    <3>3. Waits(parser, f, r)
      <4>1. n + 1 \in Nat
        OBVIOUS
      <4>2. Waits(parser, f, r) \/ Refuses(parser, f, r) \/ Delivers(parser, n + 1, f, r)
        BY <1>2, <3>2, <4>1, ProcessIs DEF StreamInv
      <4>3. QED
        BY <1>4, <4>2 DEF Refuses, Delivers
    <3>4. PICK h \in Nat, t \in Nat, c \in Nat :
            h = Header(f) /\ t = Total(f) /\ c = Held(parser) /\ h <= MaxHeader /\ h <= t
      <4>1. Header(f) \in Nat /\ Total(f) \in Nat /\ Header(f) <= MaxHeader /\ Header(f) <= Total(f)
        BY TotalType
      <4>2. Held(parser) \in Nat
        BY DEF StreamInv, ParserOK, Held
      <4>3. QED
        BY <4>1, <4>2
    <3>5. maxFrameSize \in Nat /\ MaxHeader = 4
      BY WebSocketParserAssumption DEF MaxHeader
    <3>6. CASE p = parser /\ c < h
      <4>1. c <= maxFrameSize + MaxHeader
        BY <3>4, <3>5, <3>6
      <4>2. Incomplete(parser, f)
        BY <3>4, <3>6 DEF Incomplete
      <4>3. QED
        BY <3>1, <3>4, <3>6, <4>1, <4>2 DEF StreamInv
    <3>7. CASE p = Hinted(parser, f) /\ t <= maxFrameSize /\ c < t
      <4>1. /\ ParserOK(p) /\ p.currFrameSizeHint = t
            /\ p.buffer = parser.buffer /\ p.bufferSize = parser.bufferSize
            /\ p.bufferBegin = parser.bufferBegin /\ Held(p) = c
        BY <3>4, <3>7, HintedOK DEF StreamInv
      <4>2. c <= maxFrameSize + MaxHeader /\ t <= maxFrameSize + MaxHeader
        BY <3>5, <3>7
      <4>3. Bounded(p)
        BY <4>1, <4>2 DEF StreamInv, Bounded
      <4>4. Incomplete(parser, f)
        BY <3>4, <3>5, <3>7 DEF Incomplete
      <4>5. QED
        BY <3>1, <3>4, <4>1, <4>2, <4>3, <4>4
    <3>8. QED
      BY <1>6, <3>3, <3>4, <3>6, <3>7 DEF Waits
  <2>3. QED
    BY <2>1, <2>2 DEF StreamInv
<1>8. /\ ParserOK(q) /\ Room(q) > 0 /\ Held(q) = Held(parser)
      /\ \A k \in 1..Held(parser) : q.buffer[q.bufferBegin + k - 1] = parser.buffer[parser.bufferBegin + k - 1]
  BY <1>3, <1>6, <1>7, BeginAddDataOK
<1>9. Bounded(q)
  BY <1>3, <1>6, <1>7, BoundedGrows
<1>10. StreamIs(q, pending, StreamAfter(script, n))
  BY <1>5, <1>8, StreamKept
<1>11. n < Len(script) => Incomplete(q, script[n + 1])
  BY <1>7, <1>8 DEF Incomplete
<1>12. Progress(n)'
  BY <1>1, <1>4, <1>5, <1>10, <1>11 DEF Progress
<1>13. QED
  BY <1>4, <1>8, <1>9, <1>12 DEF StreamInv

LEMMA StepProcessThrows == StreamInv /\ ProcessThrows => StreamInv'
<1> SUFFICES ASSUME StreamInv, ProcessThrows PROVE StreamInv'
  OBVIOUS
<1>1. PICK n \in 0..Len(script) : Progress(n)
  BY DEF StreamInv
<1>2. PICK r : r = Process(parser)
  OBVIOUS
<1>3. /\ pc = "process" /\ pc' = "failed" /\ script' = script /\ pending' = pending /\ frames' = frames
      /\ r.result = "error" /\ parser' = r.parser
  BY <1>2 DEF ProcessThrows
<1>4. StreamIs(parser, pending, StreamAfter(script, n)) /\ frames = Delivered(script, n)
  BY <1>1, <1>3 DEF Progress
<1>5. n < Len(script)
  <2>1. SUFFICES ASSUME n = Len(script) PROVE FALSE
    BY DEF StreamInv
  <2>2. Held(parser) = 0
    BY <1>4, <2>1, StreamEnds DEF StreamInv
  <2>3. r = More(parser)
    BY <1>2, <2>2, EmptyWaits DEF StreamInv
  <2>4. QED
    BY <1>3, <2>3 DEF More
<1>6. PICK f \in Frames : f = script[n + 1]
  BY <1>5 DEF StreamInv
<1>7. BeginsWith(parser, n + 1, f)
  BY <1>4, <1>5, <1>6, StreamBegins DEF StreamInv
<1>8. Refuses(parser, f, r)
  <2>1. n + 1 \in Nat
    OBVIOUS
  <2>2. Waits(parser, f, r) \/ Refuses(parser, f, r) \/ Delivers(parser, n + 1, f, r)
    BY <1>2, <1>7, <2>1, ProcessIs DEF StreamInv
  <2>3. QED
    BY <1>3, <2>2 DEF Waits, Delivers
<1>9. Total(f) > maxFrameSize
  BY <1>8 DEF Refuses
<1>10. ParserOK(parser') /\ Bounded(parser') /\ StreamIs(parser', pending', StreamAfter(script, n))
  <2>1. CASE parser' = parser
    BY <1>3, <1>4, <2>1 DEF StreamInv
  <2>2. CASE parser' = Hinted(parser, f) /\ f.length <= maxFrameSize
    <3>1. /\ ParserOK(parser') /\ parser'.currFrameSizeHint = Total(f)
          /\ parser'.buffer = parser.buffer /\ parser'.bufferSize = parser.bufferSize
          /\ parser'.bufferBegin = parser.bufferBegin /\ Held(parser') = Held(parser)
      BY <2>2, HintedOK DEF StreamInv
    <3>2. Total(f) <= maxFrameSize + MaxHeader
      BY <2>2, TotalType, WebSocketParserAssumption DEF MaxHeader
    <3>3. Bounded(parser')
      BY <3>1, <3>2 DEF StreamInv, Bounded
    <3>4. StreamIs(parser', pending', StreamAfter(script, n))
      BY <1>3, <1>4, <3>1, StreamKept
    <3>5. QED
      BY <3>1, <3>3, <3>4
  <2>3. QED
    BY <1>3, <1>8, <2>1, <2>2 DEF Refuses
<1>11. Progress(n)'
  BY <1>1, <1>3, <1>4, <1>5, <1>6, <1>9, <1>10 DEF Progress
<1>12. QED
  BY <1>3, <1>10, <1>11 DEF StreamInv

LEMMA StepClose == StreamInv /\ Close => StreamInv'
<1> SUFFICES ASSUME StreamInv, Close PROVE StreamInv'
  OBVIOUS
<1>1. pc' = "unused" /\ script' = << >> /\ pending' = << >> /\ frames' = << >> /\ parser' = parser
  BY DEF Close
<1>2. script' \in Seq(Frames) /\ pending' \in Seq(Cells) /\ Len(script') = 0
  BY <1>1
<1>3. frames' = Delivered(script', 0)
  BY <1>1 DEF Delivered
<1>4. Progress(0)'
  BY <1>1, <1>3 DEF Progress
<1>5. QED
  BY <1>1, <1>2, <1>4 DEF StreamInv

LEMMA StreamInvHolds == Spec => []StreamInv
<1>1. StreamInv /\ [Next]_vars => StreamInv'
  <2> SUFFICES ASSUME StreamInv, [Next]_vars PROVE StreamInv'
    OBVIOUS
  <2>1. CASE UNCHANGED vars
    BY <2>1 DEF StreamInv, Progress, vars
  <2>2. CASE \E n \in 1..Len(pending) : Read(n)
    BY <2>2, StepRead
  <2>3. QED
    BY <2>1, <2>2, StepStart, StepProcessFrame, StepProcessMore, StepProcessThrows, StepClose DEF Next
<1>2. QED
  BY <1>1, InitStream, PTL DEF Spec

-----------------------------------------------------------------------------
(***************************************************************************)
(* The theorems.                                                           *)
(***************************************************************************)
LEMMA DeliveredIs ==
  ASSUME NEW s \in Seq(Frames), NEW n \in 0..Len(s)
  PROVE  Len(Delivered(s, n)) = n /\ Delivered(s, n) \in Seq(Seq(Cells))
<1>1. PICK m \in Nat : m = n /\ m <= Len(s)
  OBVIOUS
<1>2. ASSUME NEW i \in 1..m PROVE Payload(i, s[i]) \in Seq(Cells)
  <2>1. s[i] \in Frames
    BY <1>1
  <2>2. PICK len \in Nat : len = s[i].length
    BY <2>1, FrameFields
  <2>3. \A k \in 1..len : <<"data", i, k>> \in Cells
    BY DEF Cells
  <2>4. [k \in 1..len |-> <<"data", i, k>>] \in Seq(Cells)
    BY <2>3
  <2>5. QED
    BY <2>2, <2>4 DEF Payload
<1>3. PICK T : T = Seq(Cells)
  OBVIOUS
<1>4. PICK d : d = [i \in 1..m |-> Payload(i, s[i])]
  OBVIOUS
<1>5. d \in Seq(T) /\ Len(d) = m
  BY <1>2, <1>3, <1>4
<1>6. QED
  BY <1>1, <1>3, <1>4, <1>5 DEF Delivered

LEMMA HeaderSizeIs ==
  ASSUME NEW f \in Frames
  PROVE  HeaderSize(f) = Header(f) /\ HeaderSize(f) + f.length = Total(f)
<1>1. Len(Wire(1, f)) = Header(f) + f.length
  BY WireIs
<1>2. Header(f) \in Nat /\ f.length \in Nat /\ Total(f) = Header(f) + f.length
  BY TotalType
<1>3. QED
  BY <1>1, <1>2 DEF HeaderSize

(* The indices stay in order and inside the buffer, and every cell of the  *)
(* buffer is one of the stream or unset (websocket.C:51-111, 164-172).     *)
THEOREM WebSocketParserTyped == Spec => []TypeOK
<1>1. StreamInv => TypeOK
  <2> SUFFICES ASSUME StreamInv PROVE TypeOK
    OBVIOUS
  <2>1. PICK n \in 0..Len(script) : Progress(n)
    BY DEF StreamInv
  <2>2. frames \in Seq(Seq(Cells))
    BY <2>1, DeliveredIs DEF StreamInv, Progress
  <2>3. QED
    BY <2>2 DEF StreamInv, ParserOK, TypeOK
<1>2. QED
  BY <1>1, StreamInvHolds, PTL

(* Whenever the caller is asked to read there is room for a byte, however  *)
(* large the frame that is being received (websocket.C:79-105).            *)
THEOREM ReadsHaveRoom == Spec => []ReadHasRoom
<1>1. StreamInv => ReadHasRoom
  BY DEF StreamInv, ReadHasRoom
<1>2. QED
  BY <1>1, StreamInvHolds, PTL

(* No stream makes the buffer grow beyond four times what the largest      *)
(* frame requires (websocket.C:90-92, 154-160).                            *)
THEOREM TheBufferIsBounded == Spec => []BufferBounded
<1>1. StreamInv => BufferBounded
  BY DEF StreamInv, Bounded, BufferBounded
<1>2. QED
  BY <1>1, StreamInvHolds, PTL

(* However the stream is cut into reads, its frames are handed out in      *)
(* order, unmasked, each once, and the rest of the stream is untouched     *)
(* (websocket.C:117-173).                                                  *)
THEOREM FramesAreIntact == Spec => []FramesIntact
<1>1. StreamInv => FramesIntact
  <2> SUFFICES ASSUME StreamInv, pc # "unused"
               PROVE  /\ Len(frames) <= Len(script)
                      /\ frames = Delivered(script, Len(frames))
                      /\ [k \in 1..(parser.bufferEnd - parser.bufferBegin) |->
                            parser.buffer[parser.bufferBegin + k - 1]] \o pending
                           = StreamAfter(script, Len(frames))
    BY DEF FramesIntact, Delivered, Payload
  <2>1. PICK n \in 0..Len(script) : Progress(n)
    BY DEF StreamInv
  <2>2. frames = Delivered(script, n) /\ Len(frames) = n /\ n <= Len(script)
    BY <2>1, DeliveredIs DEF StreamInv, Progress
  <2>3. PICK S : S = StreamAfter(script, n)
    OBVIOUS
  <2>4. S \in Seq(Cells) /\ StreamIs(parser, pending, S)
    BY <2>1, <2>3, StreamAfterIs DEF StreamInv, Progress
  <2>5. PICK b \in Nat, l \in Nat, m \in Nat :
          b = parser.bufferBegin /\ l = parser.bufferEnd - parser.bufferBegin /\ m = Len(pending)
    BY DEF StreamInv, ParserOK
  <2>6. /\ Len(S) = l + m
        /\ \A k \in 1..l : parser.buffer[b + k - 1] = S[k]
        /\ \A k \in 1..m : pending[k] = S[l + k]
    BY <2>4, <2>5 DEF StreamIs, Held
  <2>7. PICK r : r = [k \in 1..l |-> parser.buffer[b + k - 1]]
    OBVIOUS
  <2>8. r \in Seq(Cells) /\ Len(r) = l /\ \A k \in 1..l : r[k] = S[k]
    <3>1. ASSUME NEW k \in 1..l
          PROVE  parser.buffer[b + k - 1] = S[k] /\ S[k] \in Cells
      <4>1. k \in 1..Len(S)
        BY <2>5, <2>6
      <4>2. QED
        BY <2>4, <2>6, <4>1
    <3>2. ASSUME NEW k \in 1..l PROVE r[k] = parser.buffer[b + k - 1]
      BY <2>7
    <3>3. ASSUME NEW k \in 1..l PROVE r[k] = S[k] /\ r[k] \in Cells
      BY <3>1, <3>2
    <3>4. PICK T : T = Cells
      OBVIOUS
    <3>5. r = [k \in 1..l |-> r[k]]
      BY <2>7
    <3>6. r \in Seq(T) /\ Len(r) = l
      <4>1. \A k \in 1..l : r[k] \in T
        BY <3>3, <3>4
      <4>2. QED
        BY <2>5, <3>5, <4>1
    <3>7. QED
      BY <3>3, <3>4, <3>6
  <2>9. PICK w : w = r \o pending
    OBVIOUS
  <2>10. /\ w \in Seq(Cells) /\ Len(w) = l + m
         /\ \A k \in 1..(l + m) : w[k] = IF k <= l THEN r[k] ELSE pending[k - l]
    <3>1. pending \in Seq(Cells)
      BY DEF StreamInv
    <3>2. /\ r \o pending \in Seq(Cells) /\ Len(r \o pending) = Len(r) + Len(pending)
          /\ \A k \in 1..Len(r) + Len(pending) :
               (r \o pending)[k] = IF k <= Len(r) THEN r[k] ELSE pending[k - Len(r)]
      BY <2>8, <3>1, ConcatProperties
    <3>3. QED
      BY <2>5, <2>8, <2>9, <3>2
  <2>11. ASSUME NEW k \in 1..(l + m) PROVE w[k] = S[k]
    <3>1. CASE k \in 1..l
      BY <2>8, <2>10, <3>1
    <3>2. CASE k > l
      <4>1. PICK j \in 1..m : j = k - l /\ l + j = k
        BY <3>2
      <4>2. pending[j] = S[k]
        BY <2>6, <4>1
      <4>3. QED
        BY <2>10, <3>2, <4>1, <4>2
    <3>3. QED
      BY <3>1, <3>2
  <2>12. w = S
    BY <2>4, <2>6, <2>10, <2>11, SeqEqual
  <2>13. QED
    BY <2>2, <2>3, <2>5, <2>7, <2>9, <2>12
<1>2. QED
  BY <1>1, StreamInvHolds, PTL

(* The caller is not sent away to read while a whole frame, or a header    *)
(* that has to be refused, is in the buffer (websocket.C:117-165).         *)
THEOREM NothingWaits == Spec => []NothingCompleteWaits
<1>1. StreamInv => NothingCompleteWaits
  <2> SUFFICES ASSUME StreamInv, pc = "read", Len(frames) < Len(script),
                      NEW f, f = script[Len(frames) + 1]
               PROVE  IF HeaderSize(f) + f.length > maxFrameSize
                      THEN Held(parser) < HeaderSize(f)
                      ELSE Held(parser) < HeaderSize(f) + f.length
    BY Zenon DEF NothingCompleteWaits, Held
  <2>1. PICK n \in 0..Len(script) : Progress(n)
    BY DEF StreamInv
  <2>2. Len(frames) = n
    BY <2>1, DeliveredIs DEF StreamInv, Progress
  <2>3. n < Len(script) /\ f = script[n + 1] /\ f \in Frames
    BY <2>2 DEF StreamInv
  <2>4. Incomplete(parser, f)
    BY <2>1, <2>3 DEF Progress
  <2>5. QED
    BY <2>3, <2>4, HeaderSizeIs DEF Incomplete
<1>2. QED
  BY <1>1, StreamInvHolds, PTL

(* The frames that are refused are those larger than maxFrameSize: none of *)
(* them is handed out or waited for once its header is there, and no other *)
(* is thrown for (websocket.C:154-160).                                    *)
THEOREM LargeFramesAreRefused == Spec => []RefusedForSize
<1>1. StreamInv => RefusedForSize
  <2> SUFFICES ASSUME StreamInv PROVE RefusedForSize
    OBVIOUS
  <2>1. PICK n \in 0..Len(script) : Progress(n)
    BY DEF StreamInv
  <2>2. Len(frames) = n
    BY <2>1, DeliveredIs DEF StreamInv, Progress
  <2>3. ASSUME NEW i \in 1..n
        PROVE  ~(HeaderSize(script[i]) + script[i].length > maxFrameSize)
    <3>1. PICK f \in Frames : f = script[i]
      BY DEF StreamInv
    <3>2. Total(f) <= maxFrameSize /\ Total(f) \in Nat /\ maxFrameSize \in Nat
      BY <2>1, <3>1, TotalType, WebSocketParserAssumption DEF Progress
    <3>3. QED
      BY <3>1, <3>2, HeaderSizeIs
  <2>4. ASSUME n < Len(script), NEW f \in Frames, f = script[n + 1]
        PROVE  /\ pc = "failed" => HeaderSize(f) + f.length > maxFrameSize
               /\ pc = "read" /\ HeaderSize(f) + f.length > maxFrameSize => Held(parser) < HeaderSize(f)
    <3>1. pc = "failed" => Total(f) > maxFrameSize
      BY <2>1, <2>4 DEF Progress
    <3>2. pc = "read" => Incomplete(parser, f)
      BY <2>1, <2>4 DEF Progress
    <3>3. QED
      BY <3>1, <3>2, HeaderSizeIs DEF Incomplete
  <2>5. pc = "failed" => n < Len(script)
    BY <2>1 DEF Progress
  <2>6. n < Len(script) => script[n + 1] \in Frames
    BY DEF StreamInv
  <2>7. n + 1 <= Len(script) => n < Len(script)
    BY DEF StreamInv
  <2>8. /\ pc = "failed" => HeaderSize(script[n + 1]) + script[n + 1].length > maxFrameSize
        /\ pc = "read" /\ n + 1 <= Len(script)
             /\ HeaderSize(script[n + 1]) + script[n + 1].length > maxFrameSize
             => Held(parser) < HeaderSize(script[n + 1])
    BY <2>4, <2>5, <2>6, <2>7
  <2>9. QED
    BY <2>2, <2>3, <2>8, Zenon DEF RefusedForSize, Held
<1>2. QED
  BY <1>1, StreamInvHolds, PTL

=============================================================================
