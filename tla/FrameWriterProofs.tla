--------------------------- MODULE FrameWriterProofs ---------------------------
(***************************************************************************)
(* Proofs about FrameWriter, for any lengths of frames, any limits of the  *)
(* three header formats and any number of frames: the frames that were     *)
(* ended go out whole, in order and once, provided that nothing runs       *)
(* between beginAppend() and endAppend() (~Interruptible); and with this   *)
(* the writer implements FrameChannel.                                     *)
(***************************************************************************)
EXTENDS FrameWriter, CommonLemmas

-----------------------------------------------------------------------------
(***************************************************************************)
(* Frames and their encoding.                                              *)
(***************************************************************************)
LEMMA HeaderIs ==
  ASSUME NEW len \in Lengths
  PROVE  /\ Header(len) \in Seq(Cells)
         /\ Len(Header(len)) = HeaderLen(len)
         /\ HeaderLen(len) \in 1..3
<1>1. len \in Nat
  BY FrameWriterAssumption
<1>2. CASE len <= ShortLimit
  <2>1. Header(len) = <<<<"len", len, 0>>>>
    BY <1>1, <1>2, FrameWriterAssumption DEF Header
  <2>2. HeaderLen(len) = 1
    BY <1>1, <1>2, FrameWriterAssumption DEF HeaderLen
  <2>3. <<"len", len, 0>> \in Cells
    BY <1>1 DEF Cells
  <2>4. QED
    BY <2>1, <2>2, <2>3
<1>3. CASE len > ShortLimit /\ len <= WordLimit
  <2>1. Header(len) = <<<<"len16", 0, 0>>, <<"ext", len, 0>>>>
    BY <1>1, <1>3, FrameWriterAssumption DEF Header
  <2>2. HeaderLen(len) = 2
    BY <1>1, <1>3, FrameWriterAssumption DEF HeaderLen
  <2>3. <<"len16", 0, 0>> \in Cells /\ <<"ext", len, 0>> \in Cells
    BY <1>1 DEF Cells
  <2>4. QED
    BY <2>1, <2>2, <2>3
<1>4. CASE len > WordLimit
  <2>1. Header(len) = <<<<"len64", 0, 0>>, <<"ext", len, 0>>, <<"ext", len, 1>>>>
    BY <1>1, <1>4, FrameWriterAssumption DEF Header
  <2>2. HeaderLen(len) = 3
    BY <1>1, <1>4, FrameWriterAssumption DEF HeaderLen
  <2>3. <<"len64", 0, 0>> \in Cells /\ <<"ext", len, 0>> \in Cells /\ <<"ext", len, 1>> \in Cells
    BY <1>1 DEF Cells
  <2>4. QED
    BY <2>1, <2>2, <2>3
<1>5. QED
  BY <1>1, <1>2, <1>3, <1>4, FrameWriterAssumption

LEMMA PayloadIs ==
  ASSUME NEW n \in Nat, NEW len \in Nat
  PROVE  /\ Payload(n, len) \in Seq(Cells)
         /\ Len(Payload(n, len)) = len
         /\ \A k \in 1..len : Payload(n, len)[k] = <<"data", n, k>>
<1>1. \A k \in 1..len : <<"data", n, k>> \in Cells
  BY DEF Cells
<1>2. QED
  BY <1>1 DEF Payload

Frames == (1..MaxFrames) \X Lengths

LEMMA FrameIs ==
  ASSUME NEW n \in Nat, NEW len \in Lengths
  PROVE  /\ Frame(<<n, len>>) = Header(len) \o Payload(n, len)
         /\ Frame(<<n, len>>) \in Seq(Cells)
         /\ Len(Frame(<<n, len>>)) = HeaderLen(len) + len
         /\ \A k \in 1..HeaderLen(len) : Frame(<<n, len>>)[k] = Header(len)[k]
         /\ \A k \in 1..len : Frame(<<n, len>>)[HeaderLen(len) + k] = <<"data", n, k>>
<1>1. PICK h \in Nat : h = HeaderLen(len)
  BY HeaderIs
<1>2. PICK l \in Nat : l = len
  BY FrameWriterAssumption
<1>3. PICK H \in Seq(Cells) : H = Header(len) /\ Len(H) = h
  BY <1>1, HeaderIs
<1>4. PICK P \in Seq(Cells) : P = Payload(n, len) /\ Len(P) = l /\ \A k \in 1..l : P[k] = <<"data", n, k>>
  BY <1>2, PayloadIs
<1>5. Frame(<<n, len>>) = H \o P
  BY <1>3, <1>4 DEF Frame
<1>6. /\ H \o P \in Seq(Cells) /\ Len(H \o P) = h + l
      /\ \A k \in 1..h : (H \o P)[k] = H[k]
      /\ \A k \in 1..l : (H \o P)[h + k] = P[k]
  <2>1. h \in Nat /\ h = Len(H) /\ l \in Nat /\ l = Len(P)
    BY <1>1, <1>2, <1>3, <1>4
  <2>2. H \in Seq(Cells) /\ P \in Seq(Cells)
    BY <1>3, <1>4
  <2>3. QED
    BY <2>1, <2>2, ConcatIs
<1>7. QED
  BY <1>1, <1>2, <1>3, <1>4, <1>5, <1>6

LEMMA FrameType ==
  ASSUME NEW f \in Frames PROVE Frame(f) \in Seq(Cells)
<1>1. PICK n \in 1..MaxFrames, len \in Lengths : f = <<n, len>>
  BY DEF Frames
<1>2. n \in Nat
  BY FrameWriterAssumption
<1>3. QED
  BY <1>1, <1>2, FrameIs

LEMMA EncodeEmpty == Encode(<< >>) = << >>
<1>1. [i \in DOMAIN << >> |-> Frame(<< >>[i])] = << >>
  OBVIOUS
<1>2. QED
  BY <1>1, FlattenEmpty DEF Encode

LEMMA EncodeType ==
  ASSUME NEW frames \in Seq(Frames) PROVE Encode(frames) \in Seq(Cells)
<1>1. PICK ss : ss = [i \in DOMAIN frames |-> Frame(frames[i])]
  OBVIOUS
<1>2. ss \in Seq(Seq(Cells))
  BY <1>1, FrameType
<1>3. QED
  BY <1>1, <1>2, FlattenType DEF Encode

LEMMA EncodeAppend ==
  ASSUME NEW frames \in Seq(Frames), NEW f \in Frames
  PROVE  /\ Encode(frames) \in Seq(Cells)
         /\ Encode(Append(frames, f)) = Encode(frames) \o Frame(f)
<1>1. PICK n \in Nat : n = Len(frames) /\ DOMAIN frames = 1..n
  OBVIOUS
<1>2. PICK ss : ss = [i \in 1..n |-> Frame(frames[i])]
  OBVIOUS
<1>3. ss \in Seq(Seq(Cells)) /\ Len(ss) = n
  BY <1>1, <1>2, FrameType
<1>4. PICK g : g = Append(frames, f)
  OBVIOUS
<1>5. g \in Seq(Frames) /\ Len(g) = n + 1 /\ DOMAIN g = 1..(n + 1) /\ g[n + 1] = f
      /\ \A i \in 1..n : g[i] = frames[i]
  BY <1>1, <1>4
<1>6. PICK s \in Seq(Cells) : s = Frame(f)
  BY FrameType
<1>7. PICK tt : tt = [i \in 1..(n + 1) |-> Frame(g[i])]
  OBVIOUS
<1>8. tt \in Seq(Seq(Cells)) /\ Len(tt) = n + 1
  BY <1>5, <1>7, FrameType
<1>9. tt = Append(ss, s)
  <2>1. Append(ss, s) \in Seq(Seq(Cells)) /\ Len(Append(ss, s)) = n + 1
    BY <1>3
  <2>2. \A i \in 1..(n + 1) : tt[i] = Append(ss, s)[i]
    <3>1. TAKE i \in 1..(n + 1)
    <3>2. CASE i = n + 1
      BY <1>3, <1>5, <1>6, <1>7, <3>2
    <3>3. CASE i \in 1..n
      BY <1>2, <1>3, <1>5, <1>7, <3>3
    <3>4. i = n + 1 \/ i \in 1..n
      OBVIOUS
    <3>5. QED
      BY <3>2, <3>3, <3>4
  <2>3. QED
    BY <1>8, <2>1, <2>2, SeqEqual
<1>10. Encode(frames) = FlattenSeq(ss) /\ Encode(g) = FlattenSeq(tt)
  BY <1>1, <1>2, <1>5, <1>7 DEF Encode
<1>11. FlattenSeq(ss) \in Seq(Cells)
  BY <1>3, FlattenType
<1>12. FlattenSeq(tt) = FlattenSeq(ss) \o s
  BY <1>3, <1>9, FlattenAppend
<1>13. QED
  BY <1>4, <1>6, <1>10, <1>11, <1>12

-----------------------------------------------------------------------------
(***************************************************************************)
(* The operations of the writer, in terms of the current buffer and of the *)
(* other one.                                                              *)
(***************************************************************************)
Writers ==
  [buffer : [BOOLEAN -> Seq(Cells)], use_buffer2 : BOOLEAN,
   appendingFrameBegin : Nat, appendingFrameDataLen : Nat, appendingFrameHeaderLen : 0..3,
   closed : BOOLEAN, writing : BOOLEAN, writeQueued : BOOLEAN]

Other(w) == w.buffer[~w.use_buffer2]

(* What an insertion that has begun remembers.                             *)
SameAppend(w, q) ==
  /\ q.appendingFrameBegin = w.appendingFrameBegin
  /\ q.appendingFrameDataLen = w.appendingFrameDataLen
  /\ q.appendingFrameHeaderLen = w.appendingFrameHeaderLen

LEMMA BuffersType ==
  ASSUME NEW w \in Writers
  PROVE  CurrBuffer(w) \in Seq(Cells) /\ Other(w) \in Seq(Cells)
BY DEF Writers, CurrBuffer, Other

LEMMA BeginAppendIs ==
  ASSUME NEW w \in Writers, NEW len \in Lengths, NEW q, q = BeginAppendTo(w, len)
  PROVE  /\ q \in Writers /\ q.use_buffer2 = w.use_buffer2 /\ q.writing = w.writing
         /\ CurrBuffer(q) = CurrBuffer(w) /\ Other(q) = Other(w)
         /\ q.appendingFrameBegin = Len(CurrBuffer(w))
         /\ q.appendingFrameDataLen = len
         /\ q.appendingFrameHeaderLen = HeaderLen(len)
<1>1. Len(CurrBuffer(w)) \in Nat
  BY BuffersType
<1>2. len \in Nat /\ HeaderLen(len) \in 0..3
  BY FrameWriterAssumption, HeaderIs
<1>3. PICK b \in Nat, h \in 0..3 : b = Len(CurrBuffer(w)) /\ h = HeaderLen(len)
  BY <1>1, <1>2
<1>4. q = [w EXCEPT !.appendingFrameBegin = b, !.appendingFrameDataLen = len, !.appendingFrameHeaderLen = h]
  BY <1>3 DEF BeginAppendTo
<1>5. /\ q \in Writers /\ q.use_buffer2 = w.use_buffer2 /\ q.writing = w.writing /\ q.buffer = w.buffer
      /\ q.appendingFrameBegin = b /\ q.appendingFrameDataLen = len /\ q.appendingFrameHeaderLen = h
  BY <1>2, <1>4 DEF Writers
<1>6. QED
  BY <1>3, <1>5 DEF CurrBuffer, Other

(* Handing over the current buffer.                                        *)
LEMMA SwapIs ==
  ASSUME NEW w \in Writers, NEW q, q = [w EXCEPT !.writing = TRUE, !.use_buffer2 = ~@]
  PROVE  /\ q \in Writers /\ q.writing /\ SameAppend(w, q)
         /\ CurrBuffer(q) = Other(w) /\ Other(q) = CurrBuffer(w)
<1>1. /\ q \in Writers /\ q.writing /\ SameAppend(w, q)
      /\ q.buffer = w.buffer /\ q.use_buffer2 = ~w.use_buffer2
  BY DEF Writers, SameAppend
<1>2. PICK u \in BOOLEAN, v \in BOOLEAN : u = w.use_buffer2 /\ v = ~u
  BY DEF Writers
<1>3. /\ CurrBuffer(w) = w.buffer[u] /\ Other(w) = w.buffer[v]
      /\ CurrBuffer(q) = w.buffer[v] /\ Other(q) = w.buffer[~v]
  BY <1>1, <1>2 DEF CurrBuffer, Other
<1>4. w.buffer[~v] = w.buffer[u]
  <2>1. CASE u = TRUE
    BY <1>2, <2>1
  <2>2. CASE u = FALSE
    BY <1>2, <2>2
  <2>3. QED
    BY <2>1, <2>2
<1>5. QED
  BY <1>1, <1>3, <1>4

(* beginFlush() loses nothing, and leaves an outstanding write alone.      *)
LEMMA BeginFlushIs ==
  ASSUME NEW w \in Writers, ~w.writing => Other(w) = << >>, NEW q, q = BeginFlush(w)
  PROVE  /\ q \in Writers /\ SameAppend(w, q)
         /\ ~q.writing => Other(q) = << >>
         /\ InFlight(q) \o CurrBuffer(q) = InFlight(w) \o CurrBuffer(w)
         /\ w.writing => InFlight(q) = InFlight(w) /\ CurrBuffer(q) = CurrBuffer(w)
<1>1. CASE w.writing
  <2>1. q = [w EXCEPT !.writeQueued = TRUE]
    BY <1>1 DEF BeginFlush
  <2>2. /\ q \in Writers /\ SameAppend(w, q)
        /\ q.writing /\ q.buffer = w.buffer /\ q.use_buffer2 = w.use_buffer2
    BY <1>1, <2>1 DEF Writers, SameAppend
  <2>3. Other(q) = Other(w) /\ CurrBuffer(q) = CurrBuffer(w)
    BY <2>2 DEF Other, CurrBuffer
  <2>4. InFlight(q) = Other(q) /\ InFlight(w) = Other(w)
    BY <1>1, <2>2 DEF InFlight, Other
  <2>5. QED
    BY <1>1, <2>2, <2>3, <2>4
<1>2. CASE ~w.writing /\ CurrBuffer(w) = << >>
  <2>1. q = w
    BY <1>2 DEF BeginFlush
  <2>2. QED
    BY <1>2, <2>1 DEF SameAppend
<1>3. CASE ~w.writing /\ CurrBuffer(w) # << >>
  <2>1. q = [w EXCEPT !.writing = TRUE, !.use_buffer2 = ~@]
    BY <1>3 DEF BeginFlush
  <2>2. /\ q \in Writers /\ q.writing /\ SameAppend(w, q)
        /\ CurrBuffer(q) = Other(w) /\ Other(q) = CurrBuffer(w)
    BY <2>1, SwapIs
  <2>3. InFlight(q) = CurrBuffer(w) /\ CurrBuffer(q) = << >>
    BY <1>3, <2>2 DEF InFlight, Other
  <2>4. InFlight(w) = << >>
    BY <1>3 DEF InFlight
  <2>5. CurrBuffer(w) \in Seq(Cells)
    BY BuffersType
  <2>6. QED
    BY <1>3, <2>2, <2>3, <2>4, <2>5
<1>4. QED
  BY <1>1, <1>2, <1>3

(* The callback of a write empties the buffer that was written, and a      *)
(* successful one then does a flush that was queued.                       *)
LEMMA CompletedIs ==
  ASSUME NEW w \in Writers, NEW ok \in BOOLEAN, NEW q, q = Completed(w, ok)
  PROVE  /\ q \in Writers /\ SameAppend(w, q)
         /\ ~q.writing => Other(q) = << >>
         /\ ok => InFlight(q) \o CurrBuffer(q) = CurrBuffer(w)
         /\ ~ok => ~q.writing
<1>1. PICK done : done = [w EXCEPT !.buffer[~w.use_buffer2] = << >>, !.writing = FALSE]
  OBVIOUS
<1>2. PICK u \in BOOLEAN : u = w.use_buffer2
  BY DEF Writers
<1>3. /\ done \in Writers /\ SameAppend(w, done) /\ ~done.writing /\ done.use_buffer2 = u
      /\ done.buffer[~u] = << >> /\ done.buffer[u] = w.buffer[u]
  <2>1. << >> \in Seq(Cells)
    OBVIOUS
  <2>2. PICK b : b = [w.buffer EXCEPT ![~u] = << >>]
    OBVIOUS
  <2>3. b \in [BOOLEAN -> Seq(Cells)] /\ b[~u] = << >> /\ b[u] = w.buffer[u]
    <3>1. w.buffer \in [BOOLEAN -> Seq(Cells)]
      BY DEF Writers
    <3>2. CASE u = TRUE
      BY <2>1, <2>2, <3>1, <3>2
    <3>3. CASE u = FALSE
      BY <2>1, <2>2, <3>1, <3>3
    <3>4. QED
      BY <3>2, <3>3
  <2>4. done = [w EXCEPT !.buffer = b, !.writing = FALSE]
    BY <1>1, <1>2, <2>2
  <2>5. done.buffer = b /\ done.use_buffer2 = u /\ done \in Writers /\ SameAppend(w, done) /\ ~done.writing
    BY <1>2, <2>3, <2>4 DEF Writers, SameAppend
  <2>6. QED
    BY <2>3, <2>5
<1>4. Other(done) = << >> /\ CurrBuffer(done) = CurrBuffer(w)
  BY <1>2, <1>3 DEF Other, CurrBuffer
<1>5. q = IF ~ok THEN [done EXCEPT !.closed = TRUE]
          ELSE IF done.writeQueued THEN BeginFlush([done EXCEPT !.writeQueued = FALSE]) ELSE done
  BY <1>1 DEF Completed
<1>6. CASE ~ok
  <2>1. q = [done EXCEPT !.closed = TRUE]
    BY <1>5, <1>6
  <2>2. /\ q \in Writers /\ SameAppend(done, q) /\ ~q.writing
        /\ q.buffer = done.buffer /\ q.use_buffer2 = done.use_buffer2
    BY <1>3, <2>1 DEF Writers, SameAppend
  <2>3. Other(q) = << >>
    BY <1>4, <2>2 DEF Other
  <2>4. QED
    BY <1>3, <1>6, <2>2, <2>3 DEF SameAppend
<1>7. CASE ok /\ done.writeQueued
  <2>1. PICK d : d = [done EXCEPT !.writeQueued = FALSE]
    OBVIOUS
  <2>2. /\ d \in Writers /\ SameAppend(done, d) /\ ~d.writing
        /\ d.buffer = done.buffer /\ d.use_buffer2 = done.use_buffer2
    BY <1>3, <2>1 DEF Writers, SameAppend
  <2>3. Other(d) = << >> /\ CurrBuffer(d) = CurrBuffer(w)
    BY <1>4, <2>2 DEF Other, CurrBuffer
  <2>4. q = BeginFlush(d)
    BY <1>5, <1>7, <2>1
  <2>5. /\ q \in Writers /\ SameAppend(d, q) /\ (~q.writing => Other(q) = << >>)
        /\ InFlight(q) \o CurrBuffer(q) = InFlight(d) \o CurrBuffer(d)
    BY <2>2, <2>3, <2>4, BeginFlushIs
  <2>6. InFlight(d) = << >>
    BY <2>2 DEF InFlight
  <2>7. << >> \o CurrBuffer(w) = CurrBuffer(w)
    BY BuffersType
  <2>8. QED
    BY <1>3, <1>7, <2>2, <2>3, <2>5, <2>6, <2>7 DEF SameAppend
<1>8. CASE ok /\ ~done.writeQueued
  <2>1. q = done
    BY <1>5, <1>8
  <2>2. InFlight(q) = << >>
    BY <1>3, <2>1 DEF InFlight
  <2>3. << >> \o CurrBuffer(w) = CurrBuffer(w)
    BY BuffersType
  <2>4. QED
    BY <1>3, <1>4, <1>8, <2>1, <2>2, <2>3
<1>9. QED
  BY <1>6, <1>7, <1>8

(* What endAppend() makes of the current buffer.                           *)
Ended(w, n, inPlace) ==
  LET cur     == CurrBuffer(w)
      payload == w.appendingFrameBegin + w.appendingFrameHeaderLen
      header  == Header(w.appendingFrameDataLen)
      cell(k) == CASE k \in (w.appendingFrameBegin + 1)..payload -> header[k - w.appendingFrameBegin]
                   [] k > payload /\ inPlace -> <<"data", n, k - payload>>
                   [] OTHER -> IF k \in DOMAIN cur THEN cur[k] ELSE Garbage
  IN  [k \in 1..(payload + w.appendingFrameDataLen) |-> cell(k)]

(* beginAppend() has measured the frame.                                   *)
Measured(w) ==
  /\ w.appendingFrameDataLen \in Lengths
  /\ w.appendingFrameHeaderLen = HeaderLen(w.appendingFrameDataLen)

(* The cells of that buffer, region by region.                             *)
EndedShape(e, w) ==
  LET b == w.appendingFrameBegin
      h == w.appendingFrameHeaderLen
      l == w.appendingFrameDataLen
  IN  /\ e \in Seq(Cells) /\ Len(e) = b + h + l
      /\ \A k \in 1..h : e[b + k] = Header(l)[k]
      /\ b <= Len(CurrBuffer(w)) => \A k \in 1..b : e[k] = CurrBuffer(w)[k]

PayloadShape(e, w, n) ==
  \A k \in 1..w.appendingFrameDataLen :
    e[w.appendingFrameBegin + w.appendingFrameHeaderLen + k] = <<"data", n, k>>

LEMMA EndedCells ==
  ASSUME NEW w \in Writers, NEW n \in Nat, NEW inPlace \in BOOLEAN, Measured(w)
  PROVE  /\ EndedShape(Ended(w, n, inPlace), w)
         /\ inPlace => PayloadShape(Ended(w, n, inPlace), w, n)
<1>0. PICK b \in Nat, h \in Nat, l \in Nat : b = w.appendingFrameBegin /\ h = w.appendingFrameHeaderLen
                                            /\ l = w.appendingFrameDataLen
  BY DEF Writers
<1>a. PICK e : e = Ended(w, n, inPlace)
  OBVIOUS
<1>1. PICK cur \in Seq(Cells) : cur = CurrBuffer(w)
  BY BuffersType
<1>2. PICK H \in Seq(Cells) : H = Header(l) /\ Len(H) = h
  BY <1>0, HeaderIs DEF Measured
<1> DEFINE cell(k) == CASE k \in (b + 1)..(b + h) -> H[k - b]
                        [] k > b + h /\ inPlace -> <<"data", n, k - (b + h)>>
                        [] OTHER -> IF k \in DOMAIN cur THEN cur[k] ELSE Garbage
<1>3. e = [k \in 1..(b + h + l) |-> cell(k)]
  BY <1>0, <1>a, <1>1, <1>2 DEF Ended
<1>4. \A k \in 1..(b + h + l) : k \in (b + 1)..(b + h) => cell(k) = H[k - b]
  OBVIOUS
<1>5. \A k \in 1..(b + h + l) : k > b + h /\ inPlace => cell(k) = <<"data", n, k - (b + h)>>
  OBVIOUS
<1>6. \A k \in 1..(b + h + l) : k \notin (b + 1)..(b + h) /\ ~(k > b + h /\ inPlace)
                                  => cell(k) = IF k \in DOMAIN cur THEN cur[k] ELSE Garbage
  OBVIOUS
<1> HIDE DEF cell
<1>7. \A k \in 1..(b + h + l) : cell(k) \in Cells
  <2>1. TAKE k \in 1..(b + h + l)
  <2>2. CASE k \in (b + 1)..(b + h)
    <3>1. k - b \in 1..Len(H)
      BY <1>2, <2>2
    <3>2. H[k - b] \in Cells
      BY <3>1
    <3>3. QED
      BY <1>4, <2>2, <3>2
  <2>3. CASE k > b + h /\ inPlace
    <3>1. k - (b + h) \in Nat
      BY <2>3
    <3>2. <<"data", n, k - (b + h)>> \in Cells
      BY <3>1 DEF Cells
    <3>3. QED
      BY <1>5, <2>3, <3>2
  <2>4. CASE k \notin (b + 1)..(b + h) /\ ~(k > b + h /\ inPlace)
    <3>1. Garbage \in Cells
      BY DEF Garbage, Cells
    <3>2. k \in DOMAIN cur => cur[k] \in Cells
      OBVIOUS
    <3>3. QED
      BY <1>6, <2>4, <3>1, <3>2
  <2>5. QED
    BY <2>2, <2>3, <2>4
<1>8. e \in Seq(Cells) /\ Len(e) = b + h + l
  <2>1. PICK m \in Nat : m = b + h + l
    OBVIOUS
  <2>2. e \in [1..m -> Cells]
    BY <1>3, <1>7, <2>1
  <2>3. QED
    BY <2>1, <2>2, FunctionIsSeq
<1>9. \A k \in 1..h : e[b + k] = H[k]
  <2>1. TAKE k \in 1..h
  <2>2. PICK i \in 1..(b + h + l) : i = b + k /\ i \in (b + 1)..(b + h) /\ i - b = k
    <3>1. b + k \in 1..(b + h + l) /\ b + k \in (b + 1)..(b + h) /\ b + k - b = k
      OBVIOUS
    <3>2. QED
      BY <3>1
  <2>3. e[i] = H[i - b]
    BY <1>3, <1>4, <2>2
  <2>4. QED
    BY <2>2, <2>3
<1>10. ASSUME inPlace PROVE \A k \in 1..l : e[b + h + k] = <<"data", n, k>>
  <2>1. TAKE k \in 1..l
  <2>2. PICK i \in 1..(b + h + l) : i = b + h + k /\ i > b + h /\ i - (b + h) = k
    <3>1. b + h + k \in 1..(b + h + l) /\ b + h + k > b + h /\ b + h + k - (b + h) = k
      OBVIOUS
    <3>2. QED
      BY <3>1
  <2>3. e[i] = <<"data", n, i - (b + h)>>
    BY <1>3, <1>5, <1>10, <2>2
  <2>4. QED
    BY <2>2, <2>3
<1>11. ASSUME b <= Len(cur) PROVE \A k \in 1..b : e[k] = cur[k]
  <2>1. TAKE k \in 1..b
  <2>2. k \in 1..(b + h + l) /\ k \notin (b + 1)..(b + h) /\ ~(k > b + h) /\ k \in DOMAIN cur
    BY <1>11
  <2>3. QED
    BY <1>3, <1>6, <2>2
<1>12. EndedShape(e, w)
  BY <1>0, <1>1, <1>2, <1>8, <1>9, <1>11 DEF EndedShape
<1>13. ASSUME inPlace PROVE PayloadShape(e, w, n)
  BY <1>0, <1>10, <1>13 DEF PayloadShape
<1>14. QED
  BY <1>a, <1>12, <1>13

LEMMA EndAppendTyped ==
  ASSUME NEW w \in Writers, NEW n \in Nat, NEW inPlace \in BOOLEAN, Measured(w),
         NEW q, q = EndAppendTo(w, n, inPlace)
  PROVE  /\ q \in Writers /\ q.use_buffer2 = w.use_buffer2 /\ q.writing = w.writing
         /\ Other(q) = Other(w)
         /\ CurrBuffer(q) = Ended(w, n, inPlace)
<1>2. Ended(w, n, inPlace) \in Seq(Cells)
  BY EndedCells DEF EndedShape
<1>3. PICK e \in Seq(Cells) : e = Ended(w, n, inPlace)
  BY <1>2
<1>4. q = [w EXCEPT !.buffer[w.use_buffer2] = e]
  BY <1>3 DEF EndAppendTo, Ended
<1>5. PICK u \in BOOLEAN : u = w.use_buffer2
  BY DEF Writers
<1>6. PICK bs : bs = [w.buffer EXCEPT ![u] = e]
  OBVIOUS
<1>7. bs \in [BOOLEAN -> Seq(Cells)] /\ bs[u] = e /\ bs[~u] = w.buffer[~u]
  <2>1. w.buffer \in [BOOLEAN -> Seq(Cells)]
    BY DEF Writers
  <2>2. CASE u = TRUE
    BY <1>6, <2>1, <2>2
  <2>3. CASE u = FALSE
    BY <1>6, <2>1, <2>3
  <2>4. QED
    BY <2>2, <2>3
<1>8. q = [w EXCEPT !.buffer = bs]
  BY <1>4, <1>5, <1>6
<1>9. q \in Writers /\ q.buffer = bs /\ q.use_buffer2 = u /\ q.writing = w.writing
  BY <1>5, <1>7, <1>8 DEF Writers
<1>10. QED
  BY <1>3, <1>5, <1>7, <1>9 DEF CurrBuffer, Other

(* An insertion that was not disturbed puts its frame behind the others.   *)
LEMMA EndAppendIs ==
  ASSUME NEW w \in Writers, NEW n \in Nat,
         w.appendingFrameBegin = Len(CurrBuffer(w)), Measured(w)
  PROVE  Ended(w, n, TRUE) = CurrBuffer(w) \o Frame(<<n, w.appendingFrameDataLen>>)
<1>1. PICK b \in Nat, h \in Nat, l \in Nat : b = w.appendingFrameBegin /\ h = w.appendingFrameHeaderLen
                                            /\ l = w.appendingFrameDataLen
  BY DEF Writers
<1>2. PICK e : e = Ended(w, n, TRUE)
  OBVIOUS
<1>3. /\ e \in Seq(Cells) /\ Len(e) = b + h + l
      /\ \A k \in 1..h : e[b + k] = Header(l)[k]
      /\ \A k \in 1..l : e[b + h + k] = <<"data", n, k>>
      /\ \A k \in 1..b : e[k] = CurrBuffer(w)[k]
  <2>1. EndedShape(e, w) /\ PayloadShape(e, w, n)
    BY <1>2, EndedCells
  <2>2. b <= Len(CurrBuffer(w))
    BY <1>1
  <2>3. QED
    BY <1>1, <2>1, <2>2 DEF EndedShape, PayloadShape
<1>4. PICK cur \in Seq(Cells) : cur = CurrBuffer(w) /\ b = Len(cur)
  BY <1>1, BuffersType
<1>5. l \in Lengths /\ h = HeaderLen(l)
  BY <1>1 DEF Measured
<1>6. PICK F \in Seq(Cells) : F = Frame(<<n, l>>)
  BY <1>5, FrameIs
<1>7. /\ h + l = Len(F)
      /\ \A k \in 1..h : F[k] = Header(l)[k]
      /\ \A k \in 1..l : F[h + k] = <<"data", n, k>>
  BY <1>5, <1>6, FrameIs
<1>8. PICK m \in Nat : m = h + l /\ m = Len(F)
  BY <1>7
<1>9. PICK c : c = cur \o F
  OBVIOUS
<1>10. /\ c \in Seq(Cells) /\ Len(c) = b + m
       /\ \A k \in 1..b : c[k] = cur[k]
       /\ \A k \in 1..m : c[b + k] = F[k]
  BY <1>4, <1>8, <1>9, ConcatIs
<1>11. Len(e) = Len(c)
  <2>1. b + h + l = b + m
    BY <1>8
  <2>2. QED
    BY <1>3, <1>10, <2>1
<1>12. \A i \in 1..Len(e) : e[i] = c[i]
  <2>1. TAKE i \in 1..Len(e)
  <2>2. CASE i <= b
    BY <1>3, <1>4, <1>10, <2>2
  <2>3. CASE b < i /\ i <= b + h
    <3>1. PICK k \in 1..h : i = b + k
      <4>1. i - b \in 1..h /\ i = b + (i - b)
        BY <2>3
      <4>2. QED
        BY <4>1
    <3>2. k \in 1..m
      BY <1>8, <3>1
    <3>3. QED
      BY <1>3, <1>7, <1>10, <3>1, <3>2
  <2>4. CASE b + h < i
    <3>1. PICK k \in 1..l : i = b + h + k
      <4>1. i - (b + h) \in 1..l /\ i = b + h + (i - (b + h))
        BY <1>3, <2>4
      <4>2. QED
        BY <4>1
    <3>2. PICK j \in 1..m : j = h + k /\ i = b + j
      BY <1>8, <3>1
    <3>3. e[i] = <<"data", n, k>> /\ F[j] = <<"data", n, k>> /\ c[i] = F[j]
      BY <1>3, <1>7, <1>10, <3>1, <3>2
    <3>4. QED
      BY <3>3
  <2>5. QED
    BY <2>2, <2>3, <2>4
<1>13. e = c
  BY <1>3, <1>10, <1>11, <1>12, SeqEqual
<1>14. QED
  BY <1>1, <1>2, <1>4, <1>6, <1>9, <1>13

-----------------------------------------------------------------------------
(***************************************************************************)
(* Types.  That an insertion has been measured when it is ended is needed  *)
(* because the cells of the header are looked up by position.              *)
(***************************************************************************)
WInv ==
  /\ TypeOK
  /\ appending => Measured(writer) /\ begun \in 1..MaxFrames
  /\ accepted \in Seq(Frames)
  /\ ~writer.writing => Other(writer) = << >>

LEMMA InFlightIs ==
  ASSUME NEW w PROVE InFlight(w) = IF w.writing THEN Other(w) ELSE << >>
BY DEF InFlight, Other

LEMMA InitWInv == Init => WInv
<1> SUFFICES ASSUME Init PROVE WInv
  OBVIOUS
<1>1. NewWriter \in Writers /\ ~NewWriter.writing /\ NewWriter.use_buffer2 = FALSE
      /\ NewWriter.buffer = [b \in BOOLEAN |-> << >>]
  BY DEF NewWriter, Writers
<1>2. Other(NewWriter) = << >> /\ InFlight(NewWriter) = << >>
  BY <1>1 DEF Other, InFlight
<1>3. writer = NewWriter /\ appending = FALSE /\ into = FALSE /\ taken = 0 /\ wire = << >>
      /\ broken = FALSE /\ begun = 0 /\ accepted = << >> /\ flushed = 0
  BY DEF Init
<1>4. taken \in 0..Len(InFlight(writer))
  BY <1>2, <1>3
<1>5. TypeOK
  <2>1. wire \in Seq(Cells) /\ accepted \in Seq(Nat \X Nat)
    BY <1>3
  <2>2. begun \in 0..MaxFrames
    BY <1>3, FrameWriterAssumption
  <2>3. writer \in Writers
    BY <1>1, <1>3
  <2>4. QED
    BY <1>3, <1>4, <2>1, <2>2, <2>3 DEF TypeOK, Writers
<1>6. QED
  BY <1>2, <1>3, <1>5 DEF WInv

LEMMA WInvBeginAppend ==
  ASSUME WInv, NEW len \in Lengths, BeginAppend(len) PROVE WInv'
<1>1. writer \in Writers /\ begun + 1 \in 1..MaxFrames
  BY FrameWriterAssumption DEF WInv, TypeOK, Writers, BeginAppend
<1>2. PICK q : q = writer'
  OBVIOUS
<1>3. /\ q \in Writers /\ q.writing = writer.writing /\ Other(q) = Other(writer)
      /\ q.appendingFrameDataLen = len /\ q.appendingFrameHeaderLen = HeaderLen(len)
  BY <1>1, <1>2, BeginAppendIs DEF BeginAppend
<1>4. InFlight(q) = InFlight(writer)
  BY <1>3, InFlightIs
<1>5. /\ appending' = TRUE /\ into' \in BOOLEAN /\ begun' \in 1..MaxFrames /\ begun' \in 0..MaxFrames
      /\ UNCHANGED <<taken, wire, broken, accepted, flushed>>
  BY <1>1 DEF BeginAppend, Writers
<1>6. TypeOK'
  BY <1>2, <1>3, <1>4, <1>5 DEF WInv, TypeOK, Writers
<1>7. Measured(q)
  BY <1>3 DEF Measured
<1>8. QED
  BY <1>2, <1>3, <1>5, <1>6, <1>7 DEF WInv

LEMMA WInvEndAppend ==
  ASSUME WInv, EndAppend PROVE WInv'
<1>1. writer \in Writers /\ Measured(writer) /\ begun \in 1..MaxFrames /\ begun \in Nat
  BY FrameWriterAssumption DEF WInv, TypeOK, Writers, EndAppend
<1>2. PICK q : q = writer'
  OBVIOUS
<1>3. PICK inPlace \in BOOLEAN : inPlace <=> (into = writer.use_buffer2)
  OBVIOUS
<1>4. q = EndAppendTo(writer, begun, inPlace)
  BY <1>2, <1>3 DEF EndAppend
<1>5. q \in Writers /\ q.writing = writer.writing /\ Other(q) = Other(writer)
  BY <1>1, <1>4, EndAppendTyped
<1>6. InFlight(q) = InFlight(writer)
  BY <1>5, InFlightIs
<1>7. PICK f \in Frames : f = <<begun, writer.appendingFrameDataLen>>
  BY <1>1 DEF Frames, Measured
<1>8. accepted' = Append(accepted, f) /\ appending' = FALSE /\ UNCHANGED <<into, taken, wire, broken, begun, flushed>>
  BY <1>7 DEF EndAppend
<1>9. accepted' \in Seq(Frames)
  BY <1>8 DEF WInv
<1>10. Frames \subseteq Nat \X Nat
  <2>1. 1..MaxFrames \subseteq Nat /\ Lengths \subseteq Nat
    BY FrameWriterAssumption
  <2>2. QED
    BY <2>1 DEF Frames
<1>11. accepted' \in Seq(Nat \X Nat)
  BY <1>9, <1>10, SeqMonotonic
<1>12. TypeOK'
  BY <1>2, <1>5, <1>6, <1>8, <1>11 DEF WInv, TypeOK, Writers
<1>13. QED
  BY <1>2, <1>5, <1>8, <1>9, <1>12 DEF WInv

LEMMA WInvFlush ==
  ASSUME WInv, Flush PROVE WInv'
<1>1. writer \in Writers /\ (~writer.writing => Other(writer) = << >>)
  BY DEF WInv, TypeOK, Writers
<1>2. PICK q : q = writer'
  OBVIOUS
<1>3. q = BeginFlush(writer)
  BY <1>2 DEF Flush
<1>4. /\ q \in Writers
      /\ ~q.writing => Other(q) = << >>
      /\ writer.writing => InFlight(q) = InFlight(writer)
  BY <1>1, <1>3, BeginFlushIs
<1>5. taken \in 0..Len(InFlight(q))
  <2>1. CASE writer.writing
    BY <1>4, <2>1 DEF WInv, TypeOK
  <2>2. CASE ~writer.writing
    <3>1. taken = 0
      BY <2>2, InFlightIs DEF WInv, TypeOK
    <3>2. InFlight(q) \in Seq(Cells)
      BY <1>4, BuffersType, InFlightIs
    <3>3. QED
      BY <3>1, <3>2
  <2>3. QED
    BY <2>1, <2>2
<1>6. flushed' \in Nat
  <2>1. Encode(accepted) \in Seq(Cells)
    BY EncodeType DEF WInv
  <2>2. QED
    BY <2>1 DEF Flush
<1>7. ~appending /\ UNCHANGED <<appending, into, taken, wire, broken, begun, accepted>>
  BY DEF Flush
<1>8. TypeOK'
  BY <1>2, <1>4, <1>5, <1>6, <1>7 DEF WInv, TypeOK, Writers
<1>9. QED
  BY <1>2, <1>4, <1>7, <1>8 DEF WInv

LEMMA WInvStreamTakes ==
  ASSUME WInv, StreamTakes PROVE WInv'
<1>1. InFlight(writer) \in Seq(Cells)
  BY BuffersType, InFlightIs DEF WInv, TypeOK, Writers
<1>2. taken + 1 \in 1..Len(InFlight(writer)) /\ taken + 1 \in 0..Len(InFlight(writer))
  BY <1>1 DEF StreamTakes, WInv, TypeOK
<1>3. InFlight(writer)[taken + 1] \in Cells
  BY <1>1, <1>2
<1>4. wire' \in Seq(Cells)
  BY <1>3 DEF StreamTakes, WInv, TypeOK
<1>5. UNCHANGED <<writer, appending, into, broken, begun, accepted, flushed>> /\ taken' = taken + 1
  BY DEF StreamTakes
<1>6. TypeOK'
  BY <1>2, <1>4, <1>5 DEF WInv, TypeOK
<1>7. QED
  BY <1>5, <1>6 DEF WInv

LEMMA WInvCallback ==
  ASSUME WInv, NEW ok \in BOOLEAN, writer' = Completed(writer, ok), taken' = 0, broken' \in BOOLEAN,
         UNCHANGED <<appending, into, wire, begun, accepted, flushed>>
  PROVE  WInv'
<1>1. writer \in Writers
  BY DEF WInv, TypeOK, Writers
<1>2. PICK q : q = writer'
  OBVIOUS
<1>3. q \in Writers /\ SameAppend(writer, q) /\ (~q.writing => Other(q) = << >>)
  BY <1>1, <1>2, CompletedIs
<1>4. InFlight(q) \in Seq(Cells)
  BY <1>3, BuffersType, InFlightIs
<1>5. taken' \in 0..Len(InFlight(q))
  BY <1>4
<1>6. TypeOK'
  BY <1>2, <1>3, <1>5 DEF WInv, TypeOK, Writers
<1>7. appending => Measured(q)
  BY <1>3 DEF WInv, Measured, SameAppend
<1>8. QED
  BY <1>2, <1>3, <1>6, <1>7 DEF WInv

LEMMA WInvStep == WInv /\ [Next]_vars => WInv'
<1> SUFFICES ASSUME WInv, [Next]_vars PROVE WInv'
  OBVIOUS
<1>1. ASSUME NEW len \in Lengths, BeginAppend(len) PROVE WInv'
  BY <1>1, WInvBeginAppend
<1>2. CASE EndAppend
  BY <1>2, WInvEndAppend
<1>3. CASE Flush
  BY <1>3, WInvFlush
<1>4. CASE StreamTakes
  BY <1>4, WInvStreamTakes
<1>5. CASE WriteDone
  BY <1>5, WInvCallback DEF WriteDone, WInv, TypeOK
<1>6. CASE WriteFailed
  BY <1>6, WInvCallback DEF WriteFailed
<1>7. CASE UNCHANGED vars
  BY <1>7 DEF vars, WInv, TypeOK, Measured, Other, InFlight
<1>8. QED
  BY <1>1, <1>2, <1>3, <1>4, <1>5, <1>6, <1>7 DEF Next

LEMMA WInvHolds == Spec => []WInv
BY InitWInv, WInvStep, PTL DEF Spec

(* The state of the writer and the histories are of their types, whether   *)
(* or not the application returns to the event loop in mid-insertion: no   *)
(* buffer gets a cell that is not one, and the stream never takes more     *)
(* than the view it was given.                                             *)
THEOREM WriterTyped == Spec => []TypeOK
<1>1. WInv => TypeOK
  BY DEF WInv
<1>2. QED
  BY <1>1, WInvHolds, PTL

-----------------------------------------------------------------------------
(***************************************************************************)
(* The frames on the wire.  An insertion in progress lies at the end of    *)
(* the current buffer, because nothing swaps the buffers before it is      *)
(* ended.                                                                  *)
(***************************************************************************)
Rest(s, t) == SubSeq(s, t + 1, Len(s))

Unsent(w, t) == Rest(InFlight(w), t) \o CurrBuffer(w)

SInv ==
  /\ WInv
  /\ appending => into = writer.use_buffer2 /\ writer.appendingFrameBegin = Len(CurrBuffer(writer))
  /\ FramesIntact

LEMMA RestIs ==
  ASSUME NEW S, NEW s \in Seq(S), NEW t \in 0..Len(s)
  PROVE  /\ Rest(s, t) \in Seq(S)
         /\ Rest(s, 0) = s
         /\ t = Len(s) => Rest(s, t) = << >>
         /\ t < Len(s) => Rest(s, t) = <<s[t + 1]>> \o Rest(s, t + 1)
<1>1. PICK n \in Nat : n = Len(s)
  OBVIOUS
<1>2. \A i \in (t + 1)..n : s[i] \in S
  BY <1>1
<1>3. Rest(s, t) \in Seq(S)
  BY <1>1, <1>2, SubSeqProperties DEF Rest
<1>4. Rest(s, 0) = s
  BY SubSeqFull DEF Rest
<1>5. ASSUME t = n PROVE Rest(s, t) = << >>
  BY <1>1, <1>5, SubSeqEmpty DEF Rest
<1>6. ASSUME t < n PROVE Rest(s, t) = <<s[t + 1]>> \o Rest(s, t + 1)
  <2>1. t + 1 \in 1..Len(s) /\ n \in (t + 1)..Len(s)
    BY <1>1, <1>6
  <2>2. SubSeq(s, t + 1, n) = <<s[t + 1]>> \o SubSeq(s, t + 1 + 1, n)
    BY <2>1, SubSeqRecursiveFirst
  <2>3. QED
    BY <1>1, <2>2 DEF Rest
<1>7. QED
  BY <1>1, <1>3, <1>4, <1>5, <1>6

LEMMA PrefixOfConcat ==
  ASSUME NEW S, NEW s \in Seq(S), NEW t \in Seq(S)
  PROVE  IsPrefix(s, s \o t)
<1>1. PICK m \in Nat, n \in Nat : m = Len(s) /\ n = Len(t)
  OBVIOUS
<1>2. PICK c : c = s \o t
  OBVIOUS
<1>3. c \in Seq(S) /\ Len(c) = m + n /\ \A k \in 1..m : c[k] = s[k]
  BY <1>1, <1>2, ConcatIs
<1>4. SubSeq(s, 1, m) = SubSeq(c, 1, m)
  <2>1. SubSeq(s, 1, m) \in Seq(S) /\ Len(SubSeq(s, 1, m)) = m /\ \A k \in 1..m : SubSeq(s, 1, m)[k] = s[k]
    BY <1>1
  <2>2. SubSeq(c, 1, m) \in Seq(S) /\ Len(SubSeq(c, 1, m)) = m /\ \A k \in 1..m : SubSeq(c, 1, m)[k] = c[k]
    BY <1>3
  <2>3. QED
    BY <1>3, <2>1, <2>2, SeqEqual
<1>5. QED
  BY <1>1, <1>2, <1>3, <1>4 DEF IsPrefix

LEMMA ConcatType ==
  ASSUME NEW S, NEW s \in Seq(S), NEW t \in Seq(S) PROVE s \o t \in Seq(S)
OBVIOUS

LEMMA PrefixExtends ==
  ASSUME NEW S, NEW s \in Seq(S), NEW t \in Seq(S), NEW u \in Seq(S), IsPrefix(s, t)
  PROVE  IsPrefix(s, t \o u)
<1>1. PICK m \in Nat, n \in Nat, l \in Nat : m = Len(s) /\ n = Len(t) /\ l = Len(u)
  OBVIOUS
<1>2. PICK c : c = t \o u
  OBVIOUS
<1>3. c \in Seq(S) /\ Len(c) = n + l /\ \A k \in 1..n : c[k] = t[k]
  BY <1>1, <1>2, ConcatIs
<1>4. m <= n /\ SubSeq(s, 1, m) = SubSeq(t, 1, m)
  BY <1>1 DEF IsPrefix
<1>5. SubSeq(t, 1, m) = SubSeq(c, 1, m)
  <2>1. SubSeq(t, 1, m) \in Seq(S) /\ Len(SubSeq(t, 1, m)) = m /\ \A k \in 1..m : SubSeq(t, 1, m)[k] = t[k]
    BY <1>1, <1>4
  <2>2. SubSeq(c, 1, m) \in Seq(S) /\ Len(SubSeq(c, 1, m)) = m /\ \A k \in 1..m : SubSeq(c, 1, m)[k] = c[k]
    BY <1>3, <1>4
  <2>3. QED
    BY <1>3, <1>4, <2>1, <2>2, SeqEqual
<1>6. QED
  BY <1>1, <1>2, <1>3, <1>4, <1>5 DEF IsPrefix

(* FramesIntact in terms of Unsent.                                        *)
LEMMA IntactIs ==
  FramesIntact <=> IF broken THEN IsPrefix(wire, Encode(accepted))
                   ELSE wire \o Unsent(writer, taken) = Encode(accepted)
BY DEF FramesIntact, Unsent, Rest

LEMMA InFlightType ==
  ASSUME NEW w \in Writers PROVE InFlight(w) \in Seq(Cells)
<1>1. Other(w) \in Seq(Cells)
  BY BuffersType
<1>2. << >> \in Seq(Cells)
  OBVIOUS
<1>3. CASE w.writing
  BY <1>1, <1>3, InFlightIs
<1>4. CASE ~w.writing
  BY <1>2, <1>4, InFlightIs
<1>5. QED
  BY <1>3, <1>4

LEMMA UnsentType ==
  ASSUME NEW w \in Writers, NEW t \in 0..Len(InFlight(w))
  PROVE  /\ InFlight(w) \in Seq(Cells) /\ CurrBuffer(w) \in Seq(Cells)
         /\ Rest(InFlight(w), t) \in Seq(Cells) /\ Unsent(w, t) \in Seq(Cells)
<1>1. InFlight(w) \in Seq(Cells) /\ CurrBuffer(w) \in Seq(Cells)
  BY InFlightType, BuffersType
<1>2. Rest(InFlight(w), t) \in Seq(Cells)
  BY <1>1, RestIs
<1>3. QED
  BY <1>1, <1>2 DEF Unsent

LEMMA InitSInv == Init => SInv
<1> SUFFICES ASSUME Init PROVE SInv
  OBVIOUS
<1>1. NewWriter.use_buffer2 = FALSE /\ ~NewWriter.writing /\ NewWriter.buffer = [b \in BOOLEAN |-> << >>]
  BY DEF NewWriter
<1>2. CurrBuffer(NewWriter) = << >> /\ InFlight(NewWriter) = << >>
  BY <1>1 DEF CurrBuffer, InFlight
<1>3. Unsent(NewWriter, 0) = << >>
  BY <1>2 DEF Unsent, Rest
<1>4. writer = NewWriter /\ appending = FALSE /\ taken = 0 /\ wire = << >>
      /\ broken = FALSE /\ accepted = << >>
  BY DEF Init
<1>5. << >> \o << >> = Encode(<< >>)
  BY EncodeEmpty
<1>6. FramesIntact
  BY <1>3, <1>4, <1>5, IntactIs
<1>7. QED
  BY <1>4, <1>6, InitWInv DEF SInv

LEMMA SInvBeginAppend ==
  ASSUME SInv, NEW len \in Lengths, BeginAppend(len) PROVE SInv'
<1>1. WInv'
  BY WInvBeginAppend DEF SInv
<1>2. PICK q : q = writer'
  OBVIOUS
<1>3. /\ q.writing = writer.writing /\ Other(q) = Other(writer) /\ CurrBuffer(q) = CurrBuffer(writer)
      /\ q.use_buffer2 = writer.use_buffer2 /\ q.appendingFrameBegin = Len(CurrBuffer(writer))
  <2>1. writer \in Writers
    BY DEF SInv, WInv, TypeOK, Writers
  <2>2. q = BeginAppendTo(writer, len)
    BY <1>2 DEF BeginAppend
  <2>3. QED
    BY <2>1, <2>2, BeginAppendIs
<1>4. InFlight(q) = InFlight(writer)
  BY <1>3, InFlightIs
<1>5. into' = q.use_buffer2 /\ UNCHANGED <<taken, wire, broken, accepted>>
  BY <1>3 DEF BeginAppend
<1>6. Unsent(q, taken) = Unsent(writer, taken)
  BY <1>3, <1>4 DEF Unsent
<1>7. FramesIntact'
  BY <1>2, <1>5, <1>6, IntactIs DEF SInv, FramesIntact, Unsent, Rest
<1>8. QED
  BY <1>1, <1>2, <1>3, <1>5, <1>7 DEF SInv

LEMMA SInvEndAppend ==
  ASSUME SInv, EndAppend PROVE SInv'
<1>1. WInv'
  BY WInvEndAppend DEF SInv
<1>2. writer \in Writers /\ Measured(writer) /\ begun \in 1..MaxFrames /\ begun \in Nat /\ wire \in Seq(Cells)
      /\ taken \in 0..Len(InFlight(writer)) /\ accepted \in Seq(Frames)
  BY FrameWriterAssumption DEF SInv, WInv, TypeOK, Writers, EndAppend
<1>3. PICK q : q = writer'
  OBVIOUS
<1>4. PICK f \in Frames : f = <<begun, writer.appendingFrameDataLen>>
  BY <1>2 DEF Frames, Measured
<1>5. /\ q = EndAppendTo(writer, begun, TRUE)
      /\ accepted' = Append(accepted, f) /\ appending' = FALSE /\ UNCHANGED <<taken, wire, broken>>
  BY <1>3, <1>4 DEF EndAppend, SInv
<1>6. q.writing = writer.writing /\ Other(q) = Other(writer) /\ CurrBuffer(q) = Ended(writer, begun, TRUE)
  BY <1>2, <1>5, EndAppendTyped
<1>7. CurrBuffer(q) = CurrBuffer(writer) \o Frame(f)
  BY <1>2, <1>4, <1>6, EndAppendIs DEF SInv, EndAppend
<1>8. InFlight(q) = InFlight(writer)
  BY <1>6, InFlightIs
<1>9. PICK R \in Seq(Cells), C \in Seq(Cells), F \in Seq(Cells), E \in Seq(Cells) :
        R = Rest(InFlight(writer), taken) /\ C = CurrBuffer(writer) /\ F = Frame(f) /\ E = Encode(accepted)
  BY <1>2, UnsentType, FrameType, EncodeType
<1>10. Encode(accepted') = E \o F
  BY <1>2, <1>5, <1>9, EncodeAppend
<1>11. CASE broken
  <2>1. IsPrefix(wire, E)
    BY <1>9, <1>11, IntactIs DEF SInv
  <2>2. IsPrefix(wire, E \o F)
    BY <1>2, <2>1, PrefixExtends
  <2>3. FramesIntact'
    BY <1>5, <1>10, <1>11, <2>2 DEF FramesIntact
  <2>4. QED
    BY <1>1, <1>5, <2>3 DEF SInv
<1>12. CASE ~broken
  <2>1. wire \o (R \o C) = E
    BY <1>9, <1>12, IntactIs DEF SInv, Unsent
  <2>9. PICK T \in Seq(Cells) : T = R \o C
    BY ConcatType
  <2>2. (wire \o (R \o C)) \o F = wire \o ((R \o C) \o F)
    <3>1. wire \in Seq(Cells)
      BY <1>2
    <3>2. Associates(wire, T, F)
      BY <3>1, ConcatThree
    <3>3. QED
      BY <2>9, <3>2 DEF Associates
  <2>3. (R \o C) \o F = R \o (C \o F)
    <3>1. Associates(R, C, F)
      BY ConcatThree
    <3>2. QED
      BY <3>1 DEF Associates
  <2>4. wire \o (R \o (C \o F)) = E \o F
    BY <2>1, <2>2, <2>3
  <2>5. Unsent(q, taken) = R \o (C \o F)
    BY <1>7, <1>8, <1>9 DEF Unsent
  <2>6. wire \o Unsent(q, taken) = Encode(accepted')
    BY <1>10, <2>4, <2>5
  <2>7. FramesIntact'
    BY <1>3, <1>5, <1>12, <2>6 DEF FramesIntact, Unsent, Rest
  <2>8. QED
    BY <1>1, <1>5, <2>7 DEF SInv
<1>13. QED
  BY <1>11, <1>12

LEMMA SInvFlush ==
  ASSUME SInv, Flush PROVE SInv'
<1>1. WInv'
  BY WInvFlush DEF SInv
<1>2. writer \in Writers /\ (~writer.writing => Other(writer) = << >>) /\ taken \in 0..Len(InFlight(writer))
  BY DEF SInv, WInv, TypeOK, Writers
<1>3. PICK q : q = writer'
  OBVIOUS
<1>4. /\ q \in Writers
      /\ InFlight(q) \o CurrBuffer(q) = InFlight(writer) \o CurrBuffer(writer)
      /\ writer.writing => InFlight(q) = InFlight(writer) /\ CurrBuffer(q) = CurrBuffer(writer)
  BY <1>2, <1>3, BeginFlushIs DEF Flush
<1>5. ~appending' /\ UNCHANGED <<taken, wire, broken, accepted>>
  BY DEF Flush
<1>6. Unsent(q, taken) = Unsent(writer, taken)
  <2>1. CASE writer.writing
    BY <1>4, <2>1 DEF Unsent
  <2>2. CASE ~writer.writing
    <3>1. InFlight(writer) = << >> /\ taken = 0
      BY <1>2, <2>2, InFlightIs
    <3>2. InFlight(q) \in Seq(Cells) /\ InFlight(writer) \in Seq(Cells)
      BY <1>2, <1>4, BuffersType, InFlightIs
    <3>3. 0 \in 0..Len(InFlight(q)) /\ 0 \in 0..Len(InFlight(writer))
      BY <3>2
    <3>4. Rest(InFlight(q), 0) = InFlight(q) /\ Rest(InFlight(writer), 0) = InFlight(writer)
      BY <3>2, <3>3, RestIs
    <3>5. QED
      BY <1>4, <3>1, <3>4 DEF Unsent
  <2>3. QED
    BY <2>1, <2>2
<1>7. FramesIntact'
  BY <1>3, <1>5, <1>6, IntactIs DEF SInv, FramesIntact, Unsent, Rest
<1>8. QED
  BY <1>1, <1>5, <1>7 DEF SInv

LEMMA SInvStreamTakes ==
  ASSUME SInv, StreamTakes PROVE SInv'
<1>1. WInv'
  BY WInvStreamTakes DEF SInv
<1>2. writer \in Writers /\ taken \in 0..Len(InFlight(writer)) /\ wire \in Seq(Cells)
  BY DEF SInv, WInv, TypeOK, Writers
<1>3. PICK V \in Seq(Cells), C \in Seq(Cells) : V = InFlight(writer) /\ C = CurrBuffer(writer)
  BY <1>2, UnsentType
<1>4. taken < Len(V) /\ taken \in 0..Len(V) /\ taken + 1 \in 0..Len(V) /\ taken + 1 \in 1..Len(V)
  BY <1>2, <1>3 DEF StreamTakes
<1>5. PICK c \in Cells : c = V[taken + 1]
  BY <1>4
<1>6. PICK R \in Seq(Cells) : R = Rest(V, taken + 1)
  BY <1>4, RestIs
<1>7. Rest(V, taken) = <<c>> \o R
  BY <1>4, <1>5, <1>6, RestIs
<1>8. /\ wire' = Append(wire, c) /\ taken' = taken + 1 /\ ~broken
      /\ UNCHANGED <<writer, appending, into, broken, accepted>>
  BY <1>3, <1>5 DEF StreamTakes
<1>9. wire \o ((<<c>> \o R) \o C) = Encode(accepted)
  BY <1>3, <1>7, <1>8, IntactIs DEF SInv, Unsent
<1>10. Append(wire, c) \o (R \o C) = wire \o ((<<c>> \o R) \o C)
  <2>. <<c>> \in Seq(Cells)
    OBVIOUS
  <2>1. PICK o \in Seq(Cells) : o = <<c>>
    OBVIOUS
  <2>2. Append(wire, c) = wire \o o
    BY <1>2, <2>1, AppendIsConcat
  <2>6. PICK T \in Seq(Cells) : T = R \o C
    BY ConcatType
  <2>3. (wire \o o) \o (R \o C) = wire \o (o \o (R \o C))
    <3>1. wire \in Seq(Cells)
      BY <1>2
    <3>2. Associates(wire, o, T)
      BY <3>1, ConcatThree
    <3>3. QED
      BY <2>6, <3>2 DEF Associates
  <2>4. o \o (R \o C) = (o \o R) \o C
    <3>1. Associates(o, R, C)
      BY ConcatThree
    <3>2. QED
      BY <3>1 DEF Associates
  <2>5. QED
    BY <2>1, <2>2, <2>3, <2>4
<1>11. FramesIntact'
  BY <1>3, <1>6, <1>8, <1>9, <1>10 DEF FramesIntact, Rest
<1>12. QED
  BY <1>1, <1>8, <1>11 DEF SInv

LEMMA SInvWriteDone ==
  ASSUME SInv, ~Interruptible, WriteDone PROVE SInv'
<1>1. WInv'
  BY WInvCallback DEF SInv, WInv, TypeOK, WriteDone
<1>2. writer \in Writers /\ taken \in 0..Len(InFlight(writer)) /\ wire \in Seq(Cells)
  BY DEF SInv, WInv, TypeOK, Writers
<1>3. PICK q : q = writer'
  OBVIOUS
<1>4. /\ q = Completed(writer, TRUE) /\ taken' = 0 /\ taken = Len(InFlight(writer)) /\ ~broken /\ ~appending
      /\ UNCHANGED <<appending, wire, broken, accepted>>
  BY <1>3 DEF WriteDone, CallbackRuns
<1>5. q \in Writers /\ InFlight(q) \o CurrBuffer(q) = CurrBuffer(writer)
  BY <1>2, <1>4, CompletedIs
<1>6. PICK V \in Seq(Cells), C \in Seq(Cells) : V = InFlight(writer) /\ C = CurrBuffer(writer)
  BY <1>2, UnsentType
<1>7. Rest(V, taken) = << >>
  <2>1. taken \in 0..Len(V) /\ taken = Len(V)
    BY <1>2, <1>4, <1>6
  <2>2. PICK t \in 0..Len(V) : t = taken
    BY <2>1
  <2>3. Rest(V, t) = << >>
    <3>1. t = Len(V)
      BY <2>1, <2>2
    <3>2. QED
      BY <3>1, RestIs
  <2>4. QED
    BY <2>2, <2>3
<1>8. << >> \o C = C
  OBVIOUS
<1>9. Unsent(writer, taken) = C
  BY <1>6, <1>7, <1>8 DEF Unsent
<1>10. InFlight(q) \in Seq(Cells)
  BY <1>5, InFlightType
<1>11. Rest(InFlight(q), 0) = InFlight(q)
  <2>1. 0 \in 0..Len(InFlight(q))
    BY <1>10
  <2>2. QED
    BY <1>10, <2>1, RestIs
<1>12. Unsent(q, 0) = Unsent(writer, taken)
  BY <1>5, <1>6, <1>9, <1>11 DEF Unsent
<1>13. FramesIntact'
  BY <1>3, <1>4, <1>12, IntactIs DEF SInv, FramesIntact, Unsent, Rest
<1>14. QED
  BY <1>1, <1>4, <1>13 DEF SInv

LEMMA SInvWriteFailed ==
  ASSUME SInv, ~Interruptible, WriteFailed PROVE SInv'
<1>1. WInv'
  BY WInvCallback DEF SInv, WriteFailed
<1>2. writer \in Writers /\ taken \in 0..Len(InFlight(writer)) /\ wire \in Seq(Cells)
  BY DEF SInv, WInv, TypeOK, Writers
<1>3. broken' = TRUE /\ ~appending /\ UNCHANGED <<appending, wire, accepted>>
  BY DEF WriteFailed, CallbackRuns
<1>4. IsPrefix(wire, Encode(accepted))
  <2>1. CASE broken
    BY <2>1, IntactIs DEF SInv
  <2>2. CASE ~broken
    <3>1. wire \o Unsent(writer, taken) = Encode(accepted)
      BY <2>2, IntactIs DEF SInv
    <3>2. Unsent(writer, taken) \in Seq(Cells)
      BY <1>2, UnsentType
    <3>3. QED
      BY <1>2, <3>1, <3>2, PrefixOfConcat
  <2>3. QED
    BY <2>1, <2>2
<1>5. FramesIntact'
  BY <1>3, <1>4 DEF FramesIntact
<1>6. QED
  BY <1>1, <1>3, <1>5 DEF SInv

LEMMA SInvStep == ~Interruptible /\ SInv /\ [Next]_vars => SInv'
<1> SUFFICES ASSUME ~Interruptible, SInv, [Next]_vars PROVE SInv'
  OBVIOUS
<1>1. ASSUME NEW len \in Lengths, BeginAppend(len) PROVE SInv'
  BY <1>1, SInvBeginAppend
<1>2. CASE EndAppend
  BY <1>2, SInvEndAppend
<1>3. CASE Flush
  BY <1>3, SInvFlush
<1>4. CASE StreamTakes
  BY <1>4, SInvStreamTakes
<1>5. CASE WriteDone
  BY <1>5, SInvWriteDone
<1>6. CASE WriteFailed
  BY <1>6, SInvWriteFailed
<1>7. CASE UNCHANGED vars
  <2>1. WInv'
    BY <1>7, WInvStep DEF SInv
  <2>2. QED
    BY <1>7, <2>1 DEF vars, SInv, FramesIntact, InFlight, CurrBuffer
<1>8. QED
  BY <1>1, <1>2, <1>3, <1>4, <1>5, <1>6, <1>7 DEF Next

LEMMA SInvHolds == ~Interruptible => (Spec => []SInv)
<1> SUFFICES ASSUME ~Interruptible PROVE Spec => []SInv
  OBVIOUS
<1>1. SInv /\ [Next]_vars => SInv'
  BY SInvStep
<1>2. QED
  BY <1>1, InitSInv, PTL DEF Spec

(* What goes out on the wire, the rest of the outstanding write and the    *)
(* current buffer are the frames that were ended, cell by cell, as long as *)
(* the stream works, and what went out stays a prefix of them afterwards;  *)
(* for every user that does not return to the event loop between           *)
(* beginAppend() and endAppend().                                          *)
THEOREM WriterSendsFrames == ~Interruptible => (Spec => []FramesIntact)
<1> SUFFICES ASSUME ~Interruptible PROVE Spec => []FramesIntact
  OBVIOUS
<1>1. SInv => FramesIntact
  BY DEF SInv
<1>2. Spec => []SInv
  BY SInvHolds
<1>3. QED
  BY <1>1, <1>2, PTL

-----------------------------------------------------------------------------
(***************************************************************************)
(* What the client decodes from a prefix of the frames.                    *)
(***************************************************************************)
Encoded(frames, j) == Encode(SubSeq(frames, 1, j))

LEMMA EncodedIs ==
  ASSUME NEW frames \in Seq(Frames), NEW j \in 0..Len(frames)
  PROVE  /\ Encoded(frames, j) \in Seq(Cells)
         /\ j = 0 => Encoded(frames, j) = << >>
         /\ j = Len(frames) => Encoded(frames, j) = Encode(frames)
         /\ j < Len(frames) =>
              frames[j + 1] \in Frames /\ Encoded(frames, j + 1) = Encoded(frames, j) \o Frame(frames[j + 1])
<1>1. PICK n \in Nat : n = Len(frames) /\ j \in 0..n
  OBVIOUS
<1>2. PICK p \in Seq(Frames) : p = SubSeq(frames, 1, j) /\ Len(p) = j /\ \A k \in 1..j : p[k] = frames[k]
  <2>1. \A k \in 1..j : frames[k] \in Frames
    BY <1>1
  <2>2. SubSeq(frames, 1, j) \in Seq(Frames) /\ Len(SubSeq(frames, 1, j)) = j
        /\ \A k \in 1..j : SubSeq(frames, 1, j)[k] = frames[k]
    BY <1>1, <2>1, SubSeqProperties
  <2>3. QED
    BY <2>2
<1>3. Encoded(frames, j) \in Seq(Cells)
  BY <1>2, EncodeType DEF Encoded
<1>4. ASSUME j = 0 PROVE Encoded(frames, j) = << >>
  <2>1. p = << >>
    BY <1>2, <1>4, EmptySeq
  <2>2. QED
    BY <1>2, <2>1, EncodeEmpty DEF Encoded
<1>5. ASSUME j = n PROVE Encoded(frames, j) = Encode(frames)
  <2>1. p = frames
    BY <1>1, <1>2, <1>5, SeqEqual
  <2>2. QED
    BY <1>2, <2>1 DEF Encoded
<1>6. ASSUME j < n
      PROVE  frames[j + 1] \in Frames /\ Encoded(frames, j + 1) = Encoded(frames, j) \o Frame(frames[j + 1])
  <2>1. PICK f \in Frames : f = frames[j + 1]
    BY <1>1, <1>6
  <2>2. SubSeq(frames, 1, j + 1) = Append(p, f)
    <3>1. PICK a \in Seq(Frames) : a = Append(p, f) /\ Len(a) = j + 1 /\ a[j + 1] = f /\ \A k \in 1..j : a[k] = p[k]
      <4>1. /\ Append(p, f) \in Seq(Frames) /\ Len(Append(p, f)) = Len(p) + 1
            /\ Append(p, f)[Len(p) + 1] = f /\ \A k \in 1..Len(p) : Append(p, f)[k] = p[k]
        BY AppendProperties
      <4>2. QED
        BY <1>2, <4>1
    <3>2. PICK b \in Seq(Frames) : b = SubSeq(frames, 1, j + 1) /\ Len(b) = j + 1 /\ \A k \in 1..(j + 1) : b[k] = frames[k]
      <4>1. \A k \in 1..(j + 1) : frames[k] \in Frames
        BY <1>1, <1>6
      <4>2. SubSeq(frames, 1, j + 1) \in Seq(Frames) /\ Len(SubSeq(frames, 1, j + 1)) = j + 1
            /\ \A k \in 1..(j + 1) : SubSeq(frames, 1, j + 1)[k] = frames[k]
        BY <1>1, <1>6, <4>1, SubSeqProperties
      <4>3. QED
        BY <4>2
    <3>3. \A k \in 1..(j + 1) : a[k] = b[k]
      <4>1. \A k \in 1..(j + 1) : k = j + 1 \/ k \in 1..j
        BY <1>1
      <4>2. QED
        BY <1>2, <2>1, <3>1, <3>2, <4>1
    <3>4. QED
      BY <3>1, <3>2, <3>3, SeqEqual
  <2>3. Encode(Append(p, f)) = Encode(p) \o Frame(f)
    BY EncodeAppend
  <2>4. QED
    BY <1>2, <2>1, <2>2, <2>3 DEF Encoded
<1>7. QED
  BY <1>1, <1>3, <1>4, <1>5, <1>6

LEMMA PrefixCells ==
  ASSUME NEW S, NEW s \in Seq(S), NEW t \in Seq(S), IsPrefix(s, t)
  PROVE  Len(s) <= Len(t) /\ \A k \in 1..Len(s) : s[k] = t[k]
<1>1. PICK m \in Nat, n \in Nat : m = Len(s) /\ n = Len(t)
  OBVIOUS
<1>2. m <= n /\ SubSeq(s, 1, m) = SubSeq(t, 1, m)
  BY <1>1 DEF IsPrefix
<1>3. \A k \in 1..m : SubSeq(s, 1, m)[k] = s[k]
  BY <1>1
<1>4. \A k \in 1..m : SubSeq(t, 1, m)[k] = t[k]
  BY <1>1, <1>2
<1>5. QED
  BY <1>1, <1>2, <1>3, <1>4

LEMMA EncodedPrefix ==
  ASSUME NEW frames \in Seq(Frames), NEW j \in 0..Len(frames)
  PROVE  IsPrefix(Encoded(frames, j), Encode(frames))
<1>1. PICK n \in Nat : n = Len(frames) /\ j \in 0..n
  OBVIOUS
<1>2. PICK s \in Seq(Cells) : s = Encoded(frames, j)
  BY EncodedIs
<1> DEFINE Wrong == {d \in Nat : j + d <= n /\ ~IsPrefix(s, Encoded(frames, j + d))}
<1>3. SUFFICES ASSUME Wrong # {} PROVE FALSE
  <2>1. PICK d \in Nat : j + d = n
    <3>1. n - j \in Nat /\ j + (n - j) = n
      BY <1>1
    <3>2. QED
      BY <3>1
  <2>2. IsPrefix(s, Encoded(frames, n))
    <3>1. d \notin Wrong
      BY <1>3
    <3>2. j + d <= n
      BY <1>1, <2>1
    <3>3. QED
      BY <2>1, <3>1, <3>2
  <2>3. n \in 0..Len(frames) /\ n = Len(frames)
    BY <1>1
  <2>4. QED
    BY <1>2, <2>2, <2>3, EncodedIs
<1>4. Wrong \in SUBSET Nat
  OBVIOUS
<1>5. PICK d \in Wrong : \A e \in Wrong : d <= e
  BY <1>3, <1>4, LeastOfNat
<1>6. d # 0
  <2>1. s \o << >> = s
    OBVIOUS
  <2>2. IsPrefix(s, s \o << >>)
    <3>1. << >> \in Seq(Cells)
      OBVIOUS
    <3>2. QED
      BY <3>1, PrefixOfConcat
  <2>3. IsPrefix(s, s)
    BY <2>1, <2>2
  <2>4. j + 0 = j
    BY <1>1
  <2>5. QED
    BY <1>2, <1>5, <2>3, <2>4
<1>7. PICK m \in Nat : m = j + (d - 1) /\ m < n /\ m + 1 = j + d /\ m \in 0..Len(frames) /\ m < Len(frames)
  BY <1>1, <1>5, <1>6
<1>8. IsPrefix(s, Encoded(frames, m))
  <2>1. d - 1 \in Nat /\ ~(d <= d - 1)
    <3>1. d \in Nat
      BY <1>5
    <3>2. QED
      BY <1>6, <3>1
  <2>2. d - 1 \notin Wrong
    BY <1>5, <2>1
  <2>3. j + (d - 1) <= n
    BY <1>7
  <2>4. QED
    BY <1>7, <2>1, <2>2, <2>3
<1>9. PICK t \in Seq(Cells), u \in Seq(Cells) : t = Encoded(frames, m) /\ Encoded(frames, m + 1) = t \o u
  BY <1>7, EncodedIs, FrameType
<1>10. IsPrefix(s, t \o u)
  BY <1>8, <1>9, PrefixExtends
<1>11. QED
  BY <1>5, <1>7, <1>9, <1>10

(* The cells of a frame in the stream.                                     *)
FrameAt(e, b, n, len) ==
  /\ \A k \in 1..HeaderLen(len) : e[b + k] = Header(len)[k]
  /\ \A k \in 1..len : e[b + HeaderLen(len) + k] = <<"data", n, k>>

LEMMA FrameInStream ==
  ASSUME NEW frames \in Seq(Frames), NEW j \in Nat, j < Len(frames),
         NEW n \in Nat, NEW len \in Lengths, frames[j + 1] = <<n, len>>
  PROVE  /\ Len(Encoded(frames, j + 1)) = Len(Encoded(frames, j)) + HeaderLen(len) + len
         /\ Len(Encoded(frames, j + 1)) <= Len(Encode(frames))
         /\ FrameAt(Encode(frames), Len(Encoded(frames, j)), n, len)
<1>1. j \in 0..Len(frames) /\ j + 1 \in 0..Len(frames)
  OBVIOUS
<1>2. PICK s \in Seq(Cells), b \in Nat : s = Encoded(frames, j) /\ b = Len(s)
  BY <1>1, EncodedIs
<1>3. PICK l \in Nat, h \in Nat : l = len /\ h = HeaderLen(len)
  <2>1. len \in Nat
    BY FrameWriterAssumption
  <2>2. HeaderLen(len) \in Nat
    BY HeaderIs
  <2>3. QED
    BY <2>1, <2>2
<1>4. PICK F \in Seq(Cells) : /\ F = Frame(<<n, len>>) /\ Len(F) = h + l
                              /\ \A k \in 1..h : F[k] = Header(len)[k]
                              /\ \A k \in 1..l : F[h + k] = <<"data", n, k>>
  BY <1>3, FrameIs
<1>5. PICK t : t = Encoded(frames, j + 1)
  OBVIOUS
<1>6. t = s \o F
  BY <1>1, <1>2, <1>4, <1>5, EncodedIs
<1>7. t \in Seq(Cells) /\ Len(t) = b + (h + l) /\ \A k \in 1..(h + l) : t[b + k] = F[k]
  <2>1. PICK m \in Nat : m = h + l /\ m = Len(F)
    BY <1>4
  <2>2. s \in Seq(Cells) /\ F \in Seq(Cells) /\ b \in Nat /\ b = Len(s)
    BY <1>2, <1>4
  <2>3. t \in Seq(Cells) /\ Joins(t, s, F)
    BY <1>6, <2>2, ConcatJoins
  <2>4. QED
    BY <2>1, <2>2, <2>3 DEF Joins
<1>8. PICK e \in Seq(Cells) : e = Encode(frames)
  BY EncodeType
<1>9. Len(t) <= Len(e) /\ \A k \in 1..Len(t) : t[k] = e[k]
  BY <1>1, <1>5, <1>7, <1>8, EncodedPrefix, PrefixCells
<1>10. \A k \in 1..h : e[b + k] = Header(len)[k]
  <2>1. TAKE k \in 1..h
  <2>2. k \in 1..(h + l) /\ b + k \in 1..Len(t)
    BY <1>7
  <2>3. QED
    BY <1>4, <1>7, <1>9, <2>2
<1>11. \A k \in 1..l : e[b + h + k] = <<"data", n, k>>
  <2>1. TAKE k \in 1..l
  <2>2. h + k \in 1..(h + l) /\ b + (h + k) \in 1..Len(t) /\ b + h + k = b + (h + k)
    BY <1>7
  <2>3. t[b + (h + k)] = F[h + k]
    BY <1>7, <2>2
  <2>4. QED
    BY <1>4, <1>9, <2>2, <2>3
<1>12. FrameAt(e, b, n, len)
  BY <1>3, <1>10, <1>11 DEF FrameAt
<1>13. Len(t) = b + HeaderLen(len) + len
  BY <1>3, <1>7
<1>14. QED
  BY <1>2, <1>5, <1>8, <1>9, <1>12, <1>13

(* The client reads a frame where there is one, as soon as it is whole.    *)
HeaderAt(w, i, len) ==
  \A k \in 1..HeaderLen(len) : i + k - 1 <= Len(w) => w[i + k - 1] = Header(len)[k]

LEMMA SizeIs ==
  ASSUME NEW w \in Seq(Cells), NEW i \in 1..Len(w), NEW len \in Lengths, HeaderAt(w, i, len)
  PROVE  /\ SizeAt(w, i) = HeaderLen(len)
         /\ i + HeaderLen(len) - 1 <= Len(w) => LengthAt(w, i) = len
<1>1. len \in Nat
  BY FrameWriterAssumption
<1>2. PICK m \in Nat : /\ m = Len(w) /\ i \in 1..m
                       /\ \A k \in 1..HeaderLen(len) : i + k - 1 <= m => w[i + k - 1] = Header(len)[k]
  BY DEF HeaderAt
<1>3. CASE len <= ShortLimit
  <2>1. HeaderLen(len) = 1 /\ Header(len)[1] = <<"len", len, 0>>
    BY <1>1, <1>2, <1>3, FrameWriterAssumption DEF Header, HeaderLen
  <2>2. w[i] = <<"len", len, 0>>
    <3>1. 1 \in 1..HeaderLen(len) /\ i + 1 - 1 = i /\ i <= m
      BY <1>2, <2>1
    <3>2. QED
      BY <1>2, <2>1, <3>1
  <2>3. w[i][1] = "len" /\ w[i][2] = len
    BY <2>2
  <2>4. SizeAt(w, i) = 1
    BY <2>3 DEF SizeAt
  <2>5. LengthAt(w, i) = len
    BY <2>3, <2>4 DEF LengthAt
  <2>6. QED
    BY <2>1, <2>4, <2>5
<1>4. CASE len > ShortLimit /\ len <= WordLimit
  <2>1. HeaderLen(len) = 2 /\ Header(len)[1] = <<"len16", 0, 0>> /\ Header(len)[2] = <<"ext", len, 0>>
    BY <1>1, <1>2, <1>4, FrameWriterAssumption DEF Header, HeaderLen
  <2>2. w[i] = <<"len16", 0, 0>>
    <3>1. 1 \in 1..HeaderLen(len) /\ i + 1 - 1 = i /\ i <= m
      BY <1>2, <2>1
    <3>2. QED
      BY <1>2, <2>1, <3>1
  <2>3. SizeAt(w, i) = 2
    BY <2>2 DEF SizeAt
  <2>4. ASSUME i + 2 - 1 <= m PROVE LengthAt(w, i) = len
    <3>1. 2 \in 1..HeaderLen(len) /\ i + 2 - 1 = i + 1
      BY <1>2, <2>1
    <3>2. w[i + 1] = <<"ext", len, 0>>
      BY <1>2, <2>1, <2>4, <3>1
    <3>3. QED
      BY <2>3, <3>2 DEF LengthAt
  <2>5. QED
    BY <1>2, <2>1, <2>3, <2>4
<1>5. CASE len > WordLimit
  <2>1. HeaderLen(len) = 3 /\ Header(len)[1] = <<"len64", 0, 0>> /\ Header(len)[2] = <<"ext", len, 0>>
    BY <1>1, <1>2, <1>5, FrameWriterAssumption DEF Header, HeaderLen
  <2>2. w[i] = <<"len64", 0, 0>>
    <3>1. 1 \in 1..HeaderLen(len) /\ i + 1 - 1 = i /\ i <= m
      BY <1>2, <2>1
    <3>2. QED
      BY <1>2, <2>1, <3>1
  <2>3. SizeAt(w, i) = 3
    BY <2>2 DEF SizeAt
  <2>4. ASSUME i + 3 - 1 <= m PROVE LengthAt(w, i) = len
    <3>1. 2 \in 1..HeaderLen(len) /\ i + 2 - 1 = i + 1 /\ i + 2 - 1 <= m
      BY <1>2, <2>1, <2>4
    <3>2. w[i + 1] = <<"ext", len, 0>>
      BY <1>2, <2>1, <3>1
    <3>3. QED
      BY <2>3, <3>2 DEF LengthAt
  <2>5. QED
    BY <1>2, <2>1, <2>3, <2>4
<1>6. QED
  BY <1>1, <1>3, <1>4, <1>5, FrameWriterAssumption

Read(w, i) == SubSeq(w, i + SizeAt(w, i), EndAt(w, i) - 1)

LEMMA FrameIsRead ==
  ASSUME NEW w \in Seq(Cells), NEW e \in Seq(Cells), IsPrefix(w, e),
         NEW b \in Nat, NEW n \in Nat, NEW len \in Lengths, FrameAt(e, b, n, len)
  PROVE  /\ b + HeaderLen(len) + len <= Len(w) =>
              /\ WholeAt(w, b + 1) /\ EndAt(w, b + 1) = b + HeaderLen(len) + len + 1
              /\ Read(w, b + 1) = Payload(n, len)
         /\ Len(w) < b + HeaderLen(len) + len => ~WholeAt(w, b + 1)
<1>1. PICK l \in Nat, h \in 1..3, m \in Nat : l = len /\ h = HeaderLen(len) /\ m = Len(w)
  BY HeaderIs, FrameWriterAssumption
<1>2. PICK i \in Nat : i = b + 1 /\ i >= 1
  OBVIOUS
<1>3. \A k \in 1..m : w[k] = e[k]
  BY <1>1, PrefixCells
<1>4. ASSUME i <= m
      PROVE  SizeAt(w, i) = h /\ (i + h - 1 <= m => LengthAt(w, i) = l)
  <2>1. PICK H : H = Header(len)
    OBVIOUS
  <2>2. \A k \in 1..h : i + k - 1 <= m => w[i + k - 1] = H[k]
    <3>1. TAKE k \in 1..h
    <3>2. i + k - 1 = b + k /\ b + k >= 1
      BY <1>2
    <3>3. e[b + k] = H[k]
      BY <1>1, <2>1 DEF FrameAt
    <3>4. HAVE i + k - 1 <= m
    <3>5. b + k \in 1..m
      BY <3>2, <3>4
    <3>6. QED
      BY <1>3, <3>2, <3>3, <3>5
  <2>3. i \in 1..Len(w)
    BY <1>1, <1>2, <1>4
  <2>4. HeaderAt(w, i, len)
    BY <1>1, <2>1, <2>2 DEF HeaderAt
  <2>5. SizeAt(w, i) = HeaderLen(len) /\ (i + HeaderLen(len) - 1 <= Len(w) => LengthAt(w, i) = len)
    BY <2>3, <2>4, SizeIs
  <2>6. QED
    BY <1>1, <2>5
<1>5. ASSUME b + h + l <= m
      PROVE  WholeAt(w, i) /\ EndAt(w, i) = b + h + l + 1 /\ Read(w, i) = Payload(n, len)
  <2>1. i <= m /\ i + h - 1 <= m
    BY <1>2, <1>5
  <2>2. SizeAt(w, i) = h /\ LengthAt(w, i) = l
    BY <1>4, <2>1
  <2>3. EndAt(w, i) = b + h + l + 1
    BY <1>2, <2>2 DEF EndAt
  <2>4. WholeAt(w, i)
    BY <1>1, <1>5, <2>1, <2>2, <2>3 DEF WholeAt
  <2>5. PICK first \in Nat, last \in Nat : first = i + h /\ last = b + h + l
    OBVIOUS
  <2>6. EndAt(w, i) - 1 = last
    BY <2>3, <2>5
  <2>7. Read(w, i) = SubSeq(w, first, last)
    BY <2>2, <2>5, <2>6 DEF Read
  <2>8. SubSeq(w, first, last) = Payload(n, len)
    <3>1. \A k \in first..last : w[k] \in Cells
      <4>1. TAKE k \in first..last
      <4>2. h \in Nat /\ l \in Nat /\ h >= 1
        BY <1>1
      <4>3. k \in 1..m
        BY <1>2, <1>5, <2>5, <4>2
      <4>4. QED
        BY <1>1, <4>3
    <3>2. first \in Nat /\ last \in Nat /\ first <= last + 1 /\ last - first + 1 = l
      BY <1>2, <2>5
    <3>3. PICK s \in Seq(Cells) : s = SubSeq(w, first, last) /\ Len(s) = l /\ \A k \in 1..l : s[k] = w[first + k - 1]
      <4>1. /\ SubSeq(w, first, last) \in Seq(Cells)
            /\ Len(SubSeq(w, first, last)) = IF first <= last THEN last - first + 1 ELSE 0
            /\ \A k \in 1..(last - first + 1) : SubSeq(w, first, last)[k] = w[first + k - 1]
        BY <3>1, SubSeqProperties
      <4>2. (IF first <= last THEN last - first + 1 ELSE 0) = l
        BY <3>2
      <4>3. \A k \in 1..l : SubSeq(w, first, last)[k] = w[first + k - 1]
        BY <3>2, <4>1
      <4>4. QED
        BY <4>1, <4>2, <4>3
    <3>4. PICK t \in Seq(Cells) : t = Payload(n, len) /\ Len(t) = l /\ \A k \in 1..l : t[k] = <<"data", n, k>>
      <4>1. /\ Payload(n, l) \in Seq(Cells) /\ Len(Payload(n, l)) = l
            /\ \A k \in 1..l : Payload(n, l)[k] = <<"data", n, k>>
        BY PayloadIs
      <4>2. QED
        BY <1>1, <4>1
    <3>5. \A k \in 1..l : s[k] = t[k]
      <4>1. TAKE k \in 1..l
      <4>2. first + k - 1 = b + h + k /\ b + h + k \in 1..m
        BY <1>2, <1>5, <2>5
      <4>3. e[b + h + k] = <<"data", n, k>>
        BY <1>1 DEF FrameAt
      <4>4. QED
        BY <1>3, <3>3, <3>4, <4>2, <4>3
    <3>6. QED
      BY <3>3, <3>4, <3>5, SeqEqual
  <2>9. QED
    BY <2>3, <2>4, <2>7, <2>8
<1>6. ASSUME m < b + h + l, WholeAt(w, i) PROVE FALSE
  <2>1. i <= m /\ i + SizeAt(w, i) - 1 <= m /\ EndAt(w, i) - 1 <= m
    BY <1>1, <1>6 DEF WholeAt
  <2>2. SizeAt(w, i) = h /\ LengthAt(w, i) = l
    BY <1>4, <2>1
  <2>3. EndAt(w, i) = i + h + l
    BY <2>2 DEF EndAt
  <2>4. QED
    BY <1>2, <1>6, <2>1, <2>3
<1>7. QED
  BY <1>1, <1>2, <1>5, <1>6

(* Decode reads on behind each frame: its recursion is well founded.       *)
ReadOn(f, w, i) == f[i] = IF WholeAt(w, i) THEN <<Read(w, i)>> \o f[EndAt(w, i)] ELSE << >>

ReadsFrom(f, low, w) ==
  /\ f = [i \in low..(Len(w) + 1) |-> f[i]]
  /\ \A i \in low..(Len(w) + 1) : ReadOn(f, w, i)

LEMMA EndType ==
  ASSUME NEW w \in Seq(Cells), NEW i \in 1..(Len(w) + 1), WholeAt(w, i)
  PROVE  EndAt(w, i) \in (i + 1)..(Len(w) + 1)
<1>1. PICK m \in Nat : m = Len(w) /\ i \in 1..m
  BY DEF WholeAt
<1>2. PICK z : z = SizeAt(w, i)
  OBVIOUS
<1>3. z \in 1..3
  BY <1>2 DEF SizeAt
<1>4. i + z - 1 <= m
  BY <1>1, <1>2 DEF WholeAt
<1>5. LengthAt(w, i) \in Nat
  <2>1. w[i] \in Cells /\ (z # 1 => w[i + 1] \in Cells)
    <3>1. z # 1 => i + 1 \in 1..m
      BY <1>1, <1>3, <1>4
    <3>2. QED
      BY <1>1, <3>1
  <2>2. \A c \in Cells : c[2] \in Nat
    BY DEF Cells
  <2>3. QED
    BY <1>2, <2>1, <2>2 DEF LengthAt
<1>6. PICK l \in Nat : l = LengthAt(w, i)
  BY <1>5
<1>7. EndAt(w, i) = i + z + l
  BY <1>2, <1>6 DEF EndAt
<1>8. EndAt(w, i) - 1 <= m
  BY <1>1 DEF WholeAt
<1>9. QED
  BY <1>1, <1>3, <1>7, <1>8

LEMMA ReadExtends ==
  ASSUME NEW w \in Seq(Cells), NEW low \in 1..Len(w), NEW f, ReadsFrom(f, low + 1, w)
  PROVE  \E g : ReadsFrom(g, low, w)
<1>1. PICK m \in Nat : m = Len(w) /\ low \in 1..m
  OBVIOUS
<1>2. PICK top : top = IF WholeAt(w, low) THEN <<Read(w, low)>> \o f[EndAt(w, low)] ELSE << >>
  OBVIOUS
<1>3. PICK g : g = [i \in low..(m + 1) |-> IF i = low THEN top ELSE f[i]]
  OBVIOUS
<1>4. g[low] = top /\ \A i \in (low + 1)..(m + 1) : g[i] = f[i]
  BY <1>1, <1>3
<1>5. ASSUME NEW i \in low..(m + 1) PROVE ReadOn(g, w, i)
  <2>1. i \in 1..(Len(w) + 1)
    BY <1>1
  <2>2. ASSUME WholeAt(w, i) PROVE g[EndAt(w, i)] = f[EndAt(w, i)]
    <3>1. EndAt(w, i) \in (i + 1)..(m + 1)
      BY <1>1, <2>1, <2>2, EndType
    <3>2. EndAt(w, i) \in (low + 1)..(m + 1)
      BY <1>1, <3>1
    <3>3. QED
      BY <1>4, <3>2
  <2>3. CASE i = low
    <3>1. g[i] = IF WholeAt(w, i) THEN <<Read(w, i)>> \o f[EndAt(w, i)] ELSE << >>
      BY <1>2, <1>4, <2>3
    <3>2. QED
      BY <2>2, <3>1 DEF ReadOn
  <2>4. CASE i # low
    <3>1. i \in (low + 1)..(m + 1)
      BY <1>1, <2>4
    <3>2. ReadOn(f, w, i) /\ g[i] = f[i]
      BY <1>1, <1>4, <3>1 DEF ReadsFrom
    <3>3. QED
      BY <2>2, <3>2 DEF ReadOn
  <2>5. QED
    BY <2>3, <2>4
<1>6. g = [i \in low..(m + 1) |-> g[i]]
  BY <1>3
<1>7. QED
  BY <1>1, <1>5, <1>6 DEF ReadsFrom

LEMMA ReadExists ==
  ASSUME NEW w \in Seq(Cells)
  PROVE  \E f : ReadsFrom(f, 1, w)
<1>1. PICK len \in Nat : len = Len(w)
  OBVIOUS
<1> DEFINE Missing == {n \in Nat : n <= len /\ ~ \E f : ReadsFrom(f, len - n + 1, w)}
<1>2. SUFFICES ASSUME Missing # {} PROVE FALSE
  <2>1. len - len + 1 = 1 /\ len <= len
    OBVIOUS
  <2>2. len \notin Missing
    BY <1>2
  <2>3. \E f : ReadsFrom(f, len - len + 1, w)
    BY <2>1, <2>2
  <2>4. QED
    BY <2>1, <2>3
<1>3. Missing \in SUBSET Nat
  OBVIOUS
<1>4. PICK n \in Missing : \A k \in Missing : n <= k
  BY <1>2, <1>3, LeastOfNat
<1>5. n # 0
  <2>1. PICK f : f = [k \in (len + 1)..(len + 1) |-> << >>]
    OBVIOUS
  <2>2. \A i \in (len + 1)..(len + 1) : i > len /\ f[i] = << >> /\ ~WholeAt(w, i)
    BY <1>1, <2>1 DEF WholeAt
  <2>3. f = [k \in (len + 1)..(len + 1) |-> f[k]]
    BY <2>1
  <2>4. ReadsFrom(f, len + 1, w)
    BY <1>1, <2>2, <2>3 DEF ReadsFrom, ReadOn
  <2>5. len - 0 + 1 = len + 1
    OBVIOUS
  <2>6. QED
    BY <1>4, <2>4, <2>5
<1>6. n - 1 \in Nat /\ n - 1 <= len /\ n - 1 \notin Missing
  BY <1>4, <1>5
<1>7. PICK f : ReadsFrom(f, len - (n - 1) + 1, w)
  BY <1>6
<1>8. PICK low \in 1..len : low = len - n + 1 /\ len - (n - 1) + 1 = low + 1
  BY <1>4, <1>5
<1>9. ReadsFrom(f, low + 1, w)
  BY <1>7, <1>8
<1>10. \E g : ReadsFrom(g, low, w)
  BY <1>1, <1>8, <1>9, ReadExtends
<1>11. QED
  BY <1>4, <1>8, <1>10

LEMMA DecodeIs ==
  ASSUME NEW w \in Seq(Cells)
  PROVE  \E f : Decode(w) = f[1] /\ \A i \in 1..(Len(w) + 1) : ReadOn(f, w, i)
<1>1. PICK f : ReadsFrom(f, 1, w)
  BY ReadExists
<1> DEFINE Fits(g) == g = [i \in 1..(Len(w) + 1) |->
                            IF WholeAt(w, i) THEN <<SubSeq(w, i + SizeAt(w, i), EndAt(w, i) - 1)>> \o g[EndAt(w, i)]
                            ELSE << >>]
<1>2. Fits(f)
  BY <1>1 DEF ReadsFrom, ReadOn, Read
<1>3. PICK g : g = CHOOSE h : Fits(h)
  OBVIOUS
<1>4. Fits(g)
  BY <1>2, <1>3
<1>5. Decode(w) = g[1]
  BY <1>3 DEF Decode
<1>6. \A i \in 1..(Len(w) + 1) : ReadOn(g, w, i)
  BY <1>4 DEF ReadOn, Read
<1>7. QED
  BY <1>5, <1>6

(* m frames are whole in w.                                                *)
Within(frames, w, m) ==
  /\ m \in 0..Len(frames)
  /\ Len(Encoded(frames, m)) <= Len(w)
  /\ m < Len(frames) => Len(w) < Len(Encoded(frames, m + 1))

(* The payloads of the frames behind the first j, up to the m-th.          *)
Payloads(frames, j, m) == [k \in 1..(m - j) |-> Payload(frames[j + k][1], frames[j + k][2])]

LEMMA PayloadsType ==
  ASSUME NEW frames \in Seq(Frames), NEW m \in 0..Len(frames), NEW j \in 0..m
  PROVE  /\ Payloads(frames, j, m) \in Seq(Seq(Cells))
         /\ Len(Payloads(frames, j, m)) = m - j
         /\ \A k \in 1..(m - j) : Payloads(frames, j, m)[k] = Payload(frames[j + k][1], frames[j + k][2])
<1>1. PICK n \in Nat : n = m - j
  OBVIOUS
<1>2. PICK p : p = [k \in 1..n |-> Payload(frames[j + k][1], frames[j + k][2])]
  OBVIOUS
<1>3. \A k \in 1..n : Payload(frames[j + k][1], frames[j + k][2]) \in Seq(Cells)
  <2>1. TAKE k \in 1..n
  <2>2. j + k \in 1..Len(frames)
    BY <1>1
  <2>3. frames[j + k] \in Frames
    BY <2>2
  <2>4. frames[j + k][1] \in Nat /\ frames[j + k][2] \in Nat
    <3>1. PICK a \in 1..MaxFrames, b \in Lengths : frames[j + k] = <<a, b>>
      BY <2>3 DEF Frames
    <3>2. QED
      BY <3>1, FrameWriterAssumption
  <2>5. QED
    BY <2>4, PayloadIs
<1>4. p \in [1..n -> Seq(Cells)]
  BY <1>2, <1>3
<1>5. p \in Seq(Seq(Cells)) /\ Len(p) = n
  BY <1>4, FunctionIsSeq
<1>6. p = Payloads(frames, j, m)
  BY <1>1, <1>2 DEF Payloads
<1>7. QED
  BY <1>1, <1>2, <1>5, <1>6

LEMMA PayloadsStep ==
  ASSUME NEW frames \in Seq(Frames), NEW m \in 0..Len(frames), NEW j \in 0..(m - 1),
         NEW x, x = Payload(frames[j + 1][1], frames[j + 1][2])
  PROVE  <<x>> \o Payloads(frames, j + 1, m) = Payloads(frames, j, m)
<1>1. j \in 0..m /\ j + 1 \in 0..m
  OBVIOUS
<1>2. PICK n \in Nat : n = m - (j + 1) /\ m - j = n + 1
  <2>1. m - (j + 1) \in Nat /\ m - j = m - (j + 1) + 1
    OBVIOUS
  <2>2. QED
    BY <2>1
<1>3. PICK p \in Seq(Seq(Cells)) : /\ p = Payloads(frames, j, m) /\ Len(p) = n + 1
                                   /\ \A k \in 1..(n + 1) : p[k] = Payload(frames[j + k][1], frames[j + k][2])
  <2>1. /\ Payloads(frames, j, m) \in Seq(Seq(Cells)) /\ Len(Payloads(frames, j, m)) = m - j
        /\ \A k \in 1..(m - j) : Payloads(frames, j, m)[k] = Payload(frames[j + k][1], frames[j + k][2])
    BY <1>1, PayloadsType
  <2>2. QED
    BY <1>2, <2>1
<1>4. PICK q \in Seq(Seq(Cells)) : /\ q = Payloads(frames, j + 1, m) /\ Len(q) = n
                                   /\ \A k \in 1..n : q[k] = Payload(frames[j + 1 + k][1], frames[j + 1 + k][2])
  BY <1>1, <1>2, PayloadsType
<1>5. p[1] = x
  BY <1>3
<1>6. x \in Seq(Cells)
  <2>1. 1 \in 1..Len(p)
    BY <1>3
  <2>2. QED
    BY <1>5, <2>1
<1>8. PICK c : c = <<x>> \o q
  OBVIOUS
<1>9. c \in Seq(Seq(Cells)) /\ Len(c) = 1 + n /\ c[1] = x /\ \A k \in 1..n : c[1 + k] = q[k]
  BY <1>4, <1>6, <1>8, PrependIs
<1>10. \A k \in 1..(n + 1) : c[k] = p[k]
  <2>1. TAKE k \in 1..(n + 1)
  <2>2. CASE k = 1
    BY <1>5, <1>9, <2>2
  <2>3. CASE k # 1
    <3>1. PICK i \in 1..n : k = 1 + i /\ j + 1 + i = j + k
      <4>1. k - 1 \in 1..n /\ k = 1 + (k - 1) /\ j + 1 + (k - 1) = j + k
        BY <2>3
      <4>2. QED
        BY <4>1
    <3>2. c[k] = q[i]
      BY <1>9, <3>1
    <3>3. q[i] = Payload(frames[j + k][1], frames[j + k][2])
      BY <1>4, <3>1
    <3>4. QED
      BY <1>3, <3>2, <3>3
  <2>4. QED
    BY <2>2, <2>3
<1>11. Len(c) = Len(p)
  BY <1>3, <1>9
<1>12. c = p
  BY <1>3, <1>9, <1>10, <1>11, SeqEqual
<1>13. QED
  BY <1>3, <1>4, <1>8, <1>12

(* One more frame is one more message.                                     *)
LEMMA PayloadsAppend ==
  ASSUME NEW frames \in Seq(Frames), NEW m \in Nat, m < Len(frames),
         NEW x, x = Payload(frames[m + 1][1], frames[m + 1][2])
  PROVE  Payloads(frames, 0, m + 1) = Append(Payloads(frames, 0, m), x)
<1>1. m \in 0..Len(frames) /\ m + 1 \in 0..Len(frames) /\ 0 \in 0..m /\ 0 \in 0..(m + 1)
      /\ m - 0 = m /\ m + 1 - 0 = m + 1
  OBVIOUS
<1>2. PICK p \in Seq(Seq(Cells)) : /\ p = Payloads(frames, 0, m + 1) /\ Len(p) = m + 1
                                   /\ \A k \in 1..(m + 1) : p[k] = Payload(frames[0 + k][1], frames[0 + k][2])
  <2>1. PICK z \in 0..Len(frames) : z = m + 1 /\ 0 \in 0..z /\ z - 0 = z
    BY <1>1
  <2>2. /\ Payloads(frames, 0, z) \in Seq(Seq(Cells)) /\ Len(Payloads(frames, 0, z)) = z - 0
        /\ \A k \in 1..(z - 0) : Payloads(frames, 0, z)[k] = Payload(frames[0 + k][1], frames[0 + k][2])
    BY <2>1, PayloadsType
  <2>3. QED
    BY <2>1, <2>2
<1>3. PICK q \in Seq(Seq(Cells)) : /\ q = Payloads(frames, 0, m) /\ Len(q) = m
                                   /\ \A k \in 1..m : q[k] = Payload(frames[0 + k][1], frames[0 + k][2])
  <2>1. /\ Payloads(frames, 0, m) \in Seq(Seq(Cells)) /\ Len(Payloads(frames, 0, m)) = m - 0
        /\ \A k \in 1..(m - 0) : Payloads(frames, 0, m)[k] = Payload(frames[0 + k][1], frames[0 + k][2])
    BY <1>1, PayloadsType
  <2>2. QED
    BY <1>1, <2>1
<1>4. p[m + 1] = x /\ \A k \in 1..m : p[k] = q[k]
  <2>1. 0 + (m + 1) = m + 1 /\ m + 1 \in 1..(m + 1) /\ \A k \in 1..m : k \in 1..(m + 1)
    OBVIOUS
  <2>2. p[m + 1] = Payload(frames[m + 1][1], frames[m + 1][2])
    BY <1>2, <2>1
  <2>3. QED
    BY <1>2, <1>3, <2>1, <2>2
<1>5. x \in Seq(Cells)
  <2>1. m + 1 \in 1..Len(p)
    BY <1>2
  <2>2. QED
    BY <1>4, <2>1
<1>6. PICK a \in Seq(Seq(Cells)) : a = Append(q, x) /\ Len(a) = m + 1 /\ a[m + 1] = x /\ \A k \in 1..m : a[k] = q[k]
  <2>1. /\ Append(q, x) \in Seq(Seq(Cells)) /\ Len(Append(q, x)) = Len(q) + 1
        /\ Append(q, x)[Len(q) + 1] = x /\ \A k \in 1..Len(q) : Append(q, x)[k] = q[k]
    BY <1>5, AppendProperties
  <2>2. QED
    BY <1>3, <2>1
<1>7. \A k \in 1..(m + 1) : p[k] = a[k]
  <2>1. \A k \in 1..(m + 1) : k = m + 1 \/ k \in 1..m
    OBVIOUS
  <2>2. QED
    BY <1>4, <1>6, <2>1
<1>8. p = a
  BY <1>2, <1>6, <1>7, SeqEqual
<1>9. QED
  BY <1>2, <1>3, <1>6, <1>8

LEMMA WithinExists ==
  ASSUME NEW frames \in Seq(Frames), NEW w \in Seq(Cells)
  PROVE  \E m \in Nat : Within(frames, w, m)
<1>1. PICK n \in Nat, len \in Nat : n = Len(frames) /\ len = Len(w)
  OBVIOUS
<1> DEFINE S == {m \in 0..n : Len(Encoded(frames, m)) <= len}
<1>2. 0 \in S
  <2>1. 0 \in 0..n /\ Encoded(frames, 0) = << >>
    BY <1>1, EncodedIs
  <2>2. Len(Encoded(frames, 0)) <= len
    BY <2>1
  <2>3. QED
    BY <2>1, <2>2
<1>3. S \in SUBSET Nat /\ \A x \in S : x <= n
  OBVIOUS
<1>4. PICK m \in S : \A x \in S : x <= m
  <2>1. Max(S) \in S /\ \A x \in S : x <= Max(S)
    BY <1>2, <1>3, MaxOfBounded
  <2>2. QED
    BY <2>1
<1>5. m \in 0..Len(frames) /\ Len(Encoded(frames, m)) <= Len(w)
  BY <1>1
<1>6. ASSUME m < n PROVE len < Len(Encoded(frames, m + 1))
  <2>1. m + 1 \in 0..n /\ m + 1 \notin S
    BY <1>4, <1>6
  <2>2. ~(Len(Encoded(frames, m + 1)) <= len)
    BY <2>1
  <2>3. Len(Encoded(frames, m + 1)) \in Nat
    BY <1>1, <2>1, EncodedIs
  <2>4. QED
    BY <2>2, <2>3
<1>7. QED
  BY <1>1, <1>5, <1>6 DEF Within

(* A client that received a prefix of the frames has the payloads of those *)
(* that are whole in it, and nothing else.                                 *)
LEMMA DecodeReads ==
  ASSUME NEW frames \in Seq(Frames), NEW w \in Seq(Cells), IsPrefix(w, Encode(frames)),
         NEW m \in Nat, Within(frames, w, m)
  PROVE  Decode(w) = Payloads(frames, 0, m)
<1>1. PICK f : Decode(w) = f[1] /\ \A i \in 1..(Len(w) + 1) : ReadOn(f, w, i)
  BY DecodeIs
<1>2. PICK n \in Nat, len \in Nat : n = Len(frames) /\ len = Len(w) /\ m <= n
  BY DEF Within
<1> DEFINE Good(j) == /\ Len(Encoded(frames, j)) <= len
                      /\ f[Len(Encoded(frames, j)) + 1] = Payloads(frames, j, m)
<1> DEFINE Wrong == {d \in Nat : d <= m /\ ~Good(m - d)}
<1>3. Good(m)
  <2>1. Len(Encoded(frames, m)) <= len
    BY <1>2 DEF Within
  <2>2. PICK b \in Nat : b = Len(Encoded(frames, m))
    BY <1>2, EncodedIs
  <2>3. b + 1 \in 1..(Len(w) + 1)
    BY <1>2, <2>1, <2>2
  <2>4. ~WholeAt(w, b + 1)
    <3>1. CASE m = n
      <4>1. b = Len(Encode(frames))
        <5>1. m \in 0..Len(frames) /\ m = Len(frames)
          BY <1>2, <3>1
        <5>2. Encoded(frames, m) = Encode(frames)
          BY <5>1, EncodedIs
        <5>3. QED
          BY <2>2, <5>2
      <4>2. len <= b
        BY <1>2, <4>1, EncodeType, PrefixCells
      <4>3. QED
        BY <1>2, <2>1, <2>2, <4>2 DEF WholeAt
    <3>2. CASE m < n
      <4>1. PICK k \in 1..MaxFrames, l \in Lengths : frames[m + 1] = <<k, l>>
        <5>1. m + 1 \in 1..Len(frames)
          BY <1>2, <3>2
        <5>2. frames[m + 1] \in Frames
          BY <5>1
        <5>3. QED
          BY <5>2 DEF Frames
      <4>2. k \in Nat /\ l \in Nat
        BY <4>1, FrameWriterAssumption
      <4>3. Len(Encoded(frames, m + 1)) = b + HeaderLen(l) + l /\ FrameAt(Encode(frames), b, k, l)
        BY <1>2, <2>2, <3>2, <4>1, <4>2, FrameInStream
      <4>4. Len(w) < b + HeaderLen(l) + l
        BY <1>2, <3>2, <4>3 DEF Within
      <4>5. QED
        BY <2>2, <4>2, <4>3, <4>4, EncodeType, FrameIsRead
    <3>3. QED
      BY <1>2, <3>1, <3>2
  <2>5. f[b + 1] = << >>
    <3>1. ReadOn(f, w, b + 1)
      BY <1>1, <2>3
    <3>2. QED
      BY <2>4, <3>1 DEF ReadOn
  <2>6. Payloads(frames, m, m) = << >>
    <3>1. m \in 0..Len(frames) /\ m \in 0..m /\ m - m = 0
      BY <1>2
    <3>2. Payloads(frames, m, m) \in Seq(Seq(Cells)) /\ Len(Payloads(frames, m, m)) = 0
      BY <3>1, PayloadsType
    <3>3. QED
      BY <3>2, EmptySeq
  <2>7. QED
    BY <2>1, <2>2, <2>5, <2>6
<1>4. ASSUME NEW j \in 0..(m - 1), Good(j + 1) PROVE Good(j)
  <2>1. j < Len(frames) /\ j \in Nat /\ j \in 0..Len(frames)
    BY <1>2
  <2>2. PICK k \in 1..MaxFrames, l \in Lengths : frames[j + 1] = <<k, l>>
    <3>1. j + 1 \in 1..Len(frames)
      BY <2>1
    <3>2. PICK g \in Frames : g = frames[j + 1]
      BY <3>1
    <3>3. \E k \in 1..MaxFrames, l \in Lengths : g = <<k, l>>
      BY <3>2 DEF Frames
    <3>4. QED
      BY <3>2, <3>3
  <2>3. k \in Nat /\ l \in Nat /\ HeaderLen(l) \in 1..3
    BY <2>2, FrameWriterAssumption, HeaderIs
  <2>4. PICK b \in Nat : b = Len(Encoded(frames, j))
    BY <2>1, EncodedIs
  <2>5. Len(Encoded(frames, j + 1)) = b + HeaderLen(l) + l /\ FrameAt(Encode(frames), b, k, l)
    BY <2>1, <2>2, <2>3, <2>4, FrameInStream
  <2>6. b + HeaderLen(l) + l <= len
    BY <1>4, <2>5
  <2>7. WholeAt(w, b + 1) /\ EndAt(w, b + 1) = b + HeaderLen(l) + l + 1 /\ Read(w, b + 1) = Payload(k, l)
    BY <1>2, <2>3, <2>4, <2>5, <2>6, EncodeType, FrameIsRead
  <2>8. b <= len /\ b + 1 \in 1..(Len(w) + 1)
    BY <1>2, <2>3, <2>6
  <2>9. f[b + 1] = <<Payload(k, l)>> \o f[b + HeaderLen(l) + l + 1]
    <3>1. ReadOn(f, w, b + 1)
      BY <1>1, <2>8
    <3>2. QED
      BY <2>7, <3>1 DEF ReadOn
  <2>10. f[b + HeaderLen(l) + l + 1] = Payloads(frames, j + 1, m)
    BY <1>4, <2>5
  <2>11. <<Payload(k, l)>> \o Payloads(frames, j + 1, m) = Payloads(frames, j, m)
    <3>1. Payload(k, l) = Payload(frames[j + 1][1], frames[j + 1][2]) /\ m \in 0..Len(frames)
      BY <1>2, <2>2
    <3>2. QED
      BY <3>1, PayloadsStep
  <2>12. QED
    BY <2>4, <2>8, <2>9, <2>10, <2>11
<1> HIDE DEF Good
<1>5. Wrong = {}
  <2>1. SUFFICES ASSUME Wrong # {} PROVE FALSE
    OBVIOUS
  <2>2. Wrong \in SUBSET Nat
    OBVIOUS
  <2>3. PICK d \in Wrong : \A e \in Wrong : d <= e
    BY <2>1, <2>2, LeastOfNat
  <2>4. d # 0
    <3>1. m - 0 = m
      OBVIOUS
    <3>2. QED
      BY <1>3, <2>3, <3>1
  <2>5. PICK j \in 0..(m - 1) : j = m - d /\ m - (d - 1) = j + 1
    BY <2>3, <2>4
  <2>6. Good(j + 1)
    <3>1. PICK e \in Nat : e = d - 1 /\ e <= m /\ ~(d <= e)
      BY <2>3, <2>4
    <3>2. e \notin Wrong
      BY <2>3, <3>1
    <3>3. Good(m - e)
      BY <3>1, <3>2
    <3>4. QED
      BY <2>5, <3>1, <3>3
  <2>7. QED
    BY <1>4, <2>3, <2>5, <2>6
<1>6. Good(0)
  <2>1. m - m = 0 /\ m <= m
    OBVIOUS
  <2>2. m \notin Wrong
    BY <1>5
  <2>3. Good(m - m)
    BY <2>1, <2>2
  <2>4. QED
    BY <2>1, <2>3
<1>7. Encoded(frames, 0) = << >>
  BY <1>2, EncodedIs
<1>8. Len(Encoded(frames, 0)) + 1 = 1
  BY <1>7
<1>9. QED
  BY <1>1, <1>6, <1>8 DEF Good

-----------------------------------------------------------------------------
(***************************************************************************)
(* FrameChannel.                                                           *)
(***************************************************************************)
LEMMA WireIsPrefix ==
  ASSUME SInv PROVE IsPrefix(wire, Encode(accepted))
<1>1. writer \in Writers /\ taken \in 0..Len(InFlight(writer)) /\ wire \in Seq(Cells)
  BY DEF SInv, WInv, TypeOK, Writers
<1>2. CASE broken
  BY <1>2, IntactIs DEF SInv
<1>3. CASE ~broken
  <2>1. wire \o Unsent(writer, taken) = Encode(accepted)
    BY <1>3, IntactIs DEF SInv
  <2>2. Unsent(writer, taken) \in Seq(Cells)
    BY <1>1, UnsentType
  <2>3. QED
    BY <1>1, <2>1, <2>2, PrefixOfConcat
<1>4. QED
  BY <1>2, <1>3

(* The messages the user gave to the channel.                              *)
Given(frames) == [i \in DOMAIN frames |-> Payload(frames[i][1], frames[i][2])]

LEMMA GivenIs ==
  ASSUME NEW frames \in Seq(Frames)
  PROVE  /\ Given(frames) = Payloads(frames, 0, Len(frames))
         /\ Len(Given(frames)) = Len(frames)
<1>1. PICK n \in Nat : n = Len(frames) /\ DOMAIN frames = 1..n
  OBVIOUS
<1>2. n - 0 = n /\ \A k \in 1..n : 0 + k = k
  BY <1>1
<1>3. Given(frames) = Payloads(frames, 0, n)
  BY <1>1, <1>2 DEF Given, Payloads
<1>4. n \in 0..Len(frames) /\ 0 \in 0..n
  BY <1>1
<1>5. Len(Payloads(frames, 0, n)) = n - 0
  BY <1>4, PayloadsType
<1>6. QED
  BY <1>1, <1>2, <1>3, <1>5

LEMMA GivenAppend ==
  ASSUME NEW frames \in Seq(Frames), NEW f \in Frames
  PROVE  Given(Append(frames, f)) = Append(Given(frames), Payload(f[1], f[2]))
<1>1. PICK n \in Nat : n = Len(frames) /\ DOMAIN frames = 1..n
  OBVIOUS
<1>2. PICK g \in Seq(Frames) : g = Append(frames, f) /\ Len(g) = n + 1 /\ g[n + 1] = f
                               /\ \A k \in 1..n : g[k] = frames[k]
  <2>1. /\ Append(frames, f) \in Seq(Frames) /\ Len(Append(frames, f)) = n + 1
        /\ Append(frames, f)[n + 1] = f /\ \A k \in 1..n : Append(frames, f)[k] = frames[k]
    BY <1>1, AppendProperties
  <2>2. QED
    BY <2>1
<1>3. Given(g) = Payloads(g, 0, n + 1)
  BY <1>2, GivenIs
<1>4. Payloads(g, 0, n + 1) = Append(Payloads(g, 0, n), Payload(f[1], f[2]))
  <2>1. n < Len(g) /\ Payload(f[1], f[2]) = Payload(g[n + 1][1], g[n + 1][2])
    BY <1>2
  <2>2. QED
    BY <2>1, PayloadsAppend
<1>5. Payloads(g, 0, n) = Given(frames)
  <2>1. n - 0 = n /\ \A k \in 1..n : 0 + k = k /\ g[k] = frames[k]
    BY <1>1, <1>2
  <2>2. QED
    BY <1>1, <2>1 DEF Payloads, Given
<1>6. QED
  BY <1>2, <1>3, <1>4, <1>5

LEMMA InitChannel == Init => Channel!Init
<1> SUFFICES ASSUME Init PROVE Channel!Init
  OBVIOUS
<1>1. wire = << >> /\ accepted = << >> /\ ~broken
  BY DEF Init
<1>2. Given(accepted) = << >>
  BY <1>1 DEF Given
<1>3. PICK e \in Seq(Frames), w \in Seq(Cells) : e = << >> /\ w = << >> /\ Len(e) = 0 /\ Len(w) = 0
  <2>1. << >> \in Seq(Frames) /\ << >> \in Seq(Cells) /\ Len(<< >>) = 0
    OBVIOUS
  <2>2. QED
    BY <2>1
<1>4. Encoded(e, 0) = w /\ Encode(e) = w
  <2>1. 0 \in 0..Len(e) /\ 0 = Len(e)
    BY <1>3
  <2>2. Encoded(e, 0) = << >> /\ Encoded(e, 0) = Encode(e)
    BY <2>1, EncodedIs
  <2>3. QED
    BY <1>3, <2>2
<1>5. Within(e, w, 0)
  BY <1>3, <1>4 DEF Within
<1>6. IsPrefix(w, Encode(e))
  <2>1. 0 \in 0..Len(e)
    BY <1>3
  <2>2. QED
    BY <1>4, <2>1, EncodedPrefix
<1>7. Decode(w) = Payloads(e, 0, 0)
  BY <1>5, <1>6, DecodeReads
<1>8. Payloads(e, 0, 0) = << >>
  <2>1. 0 \in 0..Len(e) /\ 0 \in 0..0 /\ 0 - 0 = 0
    BY <1>3
  <2>2. Payloads(e, 0, 0) \in Seq(Seq(Cells)) /\ Len(Payloads(e, 0, 0)) = 0
    BY <2>1, PayloadsType
  <2>3. QED
    BY <2>2, EmptySeq
<1>9. QED
  BY <1>1, <1>2, <1>3, <1>7, <1>8 DEF Channel!Init, Given

LEMMA EndAppendAccepts ==
  ASSUME SInv, EndAppend PROVE Channel!Next
<1>1. /\ Measured(writer) /\ begun \in 1..MaxFrames /\ accepted \in Seq(Frames)
  BY FrameWriterAssumption DEF SInv, WInv, TypeOK, EndAppend
<1>2. PICK f \in Frames : f = <<begun, writer.appendingFrameDataLen>>
  BY <1>1 DEF Frames, Measured
<1>3. accepted' = Append(accepted, f) /\ UNCHANGED <<wire, broken>>
  BY <1>2 DEF EndAppend
<1>4. Given(accepted') = Append(Given(accepted), Payload(f[1], f[2]))
  BY <1>1, <1>3, GivenAppend
<1>5. PICK message : message = Payload(f[1], f[2])
  OBVIOUS
<1>6. Channel!Accept(message)
  <2>1. Given(accepted') = Append(Given(accepted), message)
    BY <1>4, <1>5
  <2>2. UNCHANGED <<Decode(wire), ~broken>>
    BY <1>3
  <2>3. QED
    BY <2>1, <2>2 DEF Channel!Accept, Given
<1>7. message \in {Payload(n, len) : n \in 1..MaxFrames, len \in Lengths}
  <2>1. f[1] \in 1..MaxFrames /\ f[2] \in Lengths
    BY DEF Frames
  <2>2. QED
    BY <1>5, <2>1
<1>8. QED
  BY <1>6, <1>7 DEF Channel!Next

LEMMA StreamTakesDelivers ==
  ASSUME SInv, SInv', StreamTakes PROVE [Channel!Next]_(Channel!vars)
<1>1. wire \in Seq(Cells) /\ accepted \in Seq(Frames) /\ wire' \in Seq(Cells)
  BY DEF SInv, WInv, TypeOK
<1>2. /\ Len(wire') = Len(wire) + 1 /\ UNCHANGED <<accepted, broken>> /\ ~broken
  <2>1. wire' = Append(wire, InFlight(writer)[taken + 1]) /\ UNCHANGED <<accepted, broken>> /\ ~broken
    BY DEF StreamTakes
  <2>2. QED
    BY <1>1, <2>1, AppendProperties
<1>3. IsPrefix(wire, Encode(accepted)) /\ IsPrefix(wire', Encode(accepted))
  <2>1. IsPrefix(wire, Encode(accepted))
    BY WireIsPrefix
  <2>2. IsPrefix(wire, Encode(accepted))'
    BY WireIsPrefix, PTL
  <2>3. QED
    BY <1>2, <2>1, <2>2
<1>4. PICK m \in Nat : Within(accepted, wire, m)
  BY <1>1, WithinExists
<1>5. Decode(wire) = Payloads(accepted, 0, m)
  BY <1>1, <1>3, <1>4, DecodeReads
<1>6. PICK n \in Nat, len \in Nat : n = Len(accepted) /\ len = Len(wire) /\ m \in 0..n
  BY <1>1, <1>4 DEF Within
<1>7. CASE m < n /\ Len(Encoded(accepted, m + 1)) <= len + 1
  <2>1. Within(accepted, wire', m + 1)
    <3>1. len < Len(Encoded(accepted, m + 1))
      BY <1>4, <1>6, <1>7 DEF Within
    <3>2. ASSUME m + 1 < n PROVE len + 1 < Len(Encoded(accepted, m + 1 + 1))
      <4>1. m + 1 \in Nat /\ m + 1 < Len(accepted) /\ m + 1 + 1 \in 1..Len(accepted) /\ m + 1 \in 0..Len(accepted)
        BY <1>6, <3>2
      <4>2. accepted[m + 1 + 1] \in Frames
        BY <1>1, <4>1
      <4>3. PICK k \in 1..MaxFrames, l \in Lengths : accepted[m + 1 + 1] = <<k, l>>
        BY <4>2 DEF Frames
      <4>4. k \in Nat /\ l \in Nat /\ HeaderLen(l) \in 1..3
        BY <4>3, FrameWriterAssumption, HeaderIs
      <4>5. Len(Encoded(accepted, m + 1 + 1)) = Len(Encoded(accepted, m + 1)) + HeaderLen(l) + l
        <5>1. PICK j \in Nat : j = m + 1 /\ j < Len(accepted) /\ accepted[j + 1] = <<k, l>>
          BY <4>1, <4>3
        <5>2. Len(Encoded(accepted, j + 1)) = Len(Encoded(accepted, j)) + HeaderLen(l) + l
          BY <1>1, <4>4, <5>1, FrameInStream
        <5>3. QED
          BY <5>1, <5>2
      <4>6. Len(Encoded(accepted, m + 1)) \in Nat
        BY <1>1, <4>1, EncodedIs
      <4>7. QED
        BY <3>1, <4>4, <4>5, <4>6
    <3>3. QED
      BY <1>2, <1>6, <1>7, <3>2 DEF Within
  <2>2. Decode(wire') = Payloads(accepted, 0, m + 1)
    BY <1>1, <1>3, <1>6, <2>1, DecodeReads
  <2>3. PICK x : x = Payload(accepted[m + 1][1], accepted[m + 1][2])
    OBVIOUS
  <2>4. Decode(wire') = Append(Decode(wire), x)
    BY <1>1, <1>5, <1>6, <1>7, <2>2, <2>3, PayloadsAppend
  <2>5. Len(Decode(wire)) = m
    BY <1>1, <1>5, <1>6, PayloadsType
  <2>6. x = Given(accepted)[m + 1] /\ m < Len(Given(accepted))
    <3>1. m + 1 \in DOMAIN accepted
      BY <1>1, <1>6, <1>7
    <3>2. QED
      BY <1>1, <1>6, <1>7, <2>3, <3>1, GivenIs DEF Given
  <2>7. Channel!Deliver
    BY <1>2, <2>4, <2>5, <2>6 DEF Channel!Deliver, Given
  <2>8. QED
    BY <2>7 DEF Channel!Next
<1>8. CASE ~(m < n /\ Len(Encoded(accepted, m + 1)) <= len + 1)
  <2>1. Within(accepted, wire', m)
    <3>1. ASSUME m < n PROVE len + 1 < Len(Encoded(accepted, m + 1))
      <4>1. m + 1 \in 0..Len(accepted)
        BY <1>6, <3>1
      <4>2. Len(Encoded(accepted, m + 1)) \in Nat
        BY <1>1, <4>1, EncodedIs
      <4>3. QED
        BY <1>8, <3>1, <4>2
    <3>2. Len(Encoded(accepted, m)) \in Nat
      BY <1>1, <1>6, EncodedIs
    <3>3. Len(Encoded(accepted, m)) <= len + 1
      BY <1>4, <1>6, <3>2 DEF Within
    <3>4. QED
      BY <1>2, <1>6, <3>1, <3>3 DEF Within
  <2>2. Decode(wire') = Decode(wire)
    BY <1>1, <1>3, <1>5, <2>1, DecodeReads
  <2>3. QED
    BY <1>2, <2>2 DEF Channel!vars
<1>9. QED
  BY <1>7, <1>8

LEMMA StepChannel ==
  ASSUME SInv, SInv', [Next]_vars, ~Interruptible PROVE [Channel!Next]_(Channel!vars)
<1>1. ASSUME UNCHANGED <<wire, accepted, broken>> PROVE UNCHANGED Channel!vars
  BY <1>1 DEF Channel!vars
<1>2. ASSUME NEW len \in Lengths, BeginAppend(len) PROVE UNCHANGED Channel!vars
  BY <1>1, <1>2 DEF BeginAppend
<1>3. CASE EndAppend
  BY <1>3, EndAppendAccepts
<1>4. CASE Flush
  BY <1>1, <1>4 DEF Flush
<1>5. CASE StreamTakes
  BY <1>5, StreamTakesDelivers
<1>6. CASE WriteDone
  BY <1>1, <1>6 DEF WriteDone
<1>7. CASE WriteFailed
  <2>1. wire' = wire /\ accepted' = accepted /\ broken' = TRUE
    BY <1>7 DEF WriteFailed
  <2>2. Channel!GoDown
    BY <2>1 DEF Channel!GoDown
  <2>3. QED
    BY <2>2 DEF Channel!Next
<1>8. CASE UNCHANGED vars
  BY <1>1, <1>8 DEF vars
<1>9. QED
  BY <1>2, <1>3, <1>4, <1>5, <1>6, <1>7, <1>8 DEF Next

(* The client of a user that ends each frame before it returns to the      *)
(* event loop has the payloads that were given to the writer, whole, in    *)
(* order and each once, whatever the lengths, the flushes and the pace of  *)
(* the stream, and gets no more of them once the stream has failed.        *)
THEOREM WriterIsAChannel == ~Interruptible => (Spec => ImplementsFrameChannel)
<1> SUFFICES ASSUME ~Interruptible PROVE Spec => ImplementsFrameChannel
  OBVIOUS
<1>1. Init => Channel!Init
  BY InitChannel
<1>2. SInv /\ SInv' /\ [Next]_vars => [Channel!Next]_(Channel!vars)
  BY StepChannel
<1>3. Spec => []SInv
  BY SInvHolds
<1>4. QED
  BY <1>1, <1>2, <1>3, PTL DEF Spec, ImplementsFrameChannel, Channel!Spec

=============================================================================
