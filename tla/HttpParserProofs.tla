--------------------------- MODULE HttpParserProofs ---------------------------
(***************************************************************************)
(* Proofs about HttpParser, for every initial size, every limit and every  *)
(* segmentation of every stream: the buffer indices stay in order and      *)
(* inside the buffer, a recv always has room, and the buffer does not grow *)
(* beyond four times the size limit.  For clients whose streams divide     *)
(* into requests (RequestScripts), the parser implements RequestStream and *)
(* never waits while it holds a complete request.                          *)
(*                                                                         *)
(* The second half is proved in four layers: the bytes of requests         *)
(* (WireIs, StreamIs); what one scan finds in them (ScanHeadersIs); what   *)
(* readRequest() answers and what moving and receiving bytes keep          *)
(* (AnswersRead, BeginAddDataWaits, EndAddDataReads); and the invariant    *)
(* RInv of the callbacks with the refinement.                              *)
(***************************************************************************)
EXTENDS HttpParser, CommonLemmas

LEMMA GarbageType ==
  ASSUME NEW n \in Nat PROVE Garbage(n) \in [0..(n - 1) -> Bytes]
BY DEF Garbage, Bytes, Kinds, NUL

LEMMA NoRequestOK == RequestOK(NoRequest)
BY DEF RequestOK, NoRequest, NoSlice

(* The constructor and reset() leave an empty, well-formed parser.         *)
LEMMA NewParserOK == ParserOK(NewParser) /\ NewParser.bufferSize = InitialBufferSize
<1> DEFINE q == NewParser
<1>1. /\ q.buffer = Garbage(InitialBufferSize)
      /\ q.bufferSize = InitialBufferSize
      /\ q.bufferBegin = 0 /\ q.bufferEnd = 0 /\ q.bufferProcessed = 0
      /\ q.state = "READHEADERS"
      /\ q.request = NoRequest
  BY DEF NewParser
<1>2. FieldsOf(q)
  BY DEF NewParser, FieldsOf
<1> HIDE DEF q
<1>3. QED
  BY <1>1, <1>2, NoRequestOK, GarbageType, SizesAssumption DEF ParserOK, IndicesOK, q

(* clearRequest() drops the request and keeps the received bytes.          *)
LEMMA ClearRequestOK ==
  ASSUME NEW p, ParserOK(p)
  PROVE  LET q == ClearRequest(p)
         IN  /\ ParserOK(q)
             /\ q.buffer = p.buffer /\ q.bufferSize = p.bufferSize
             /\ q.bufferBegin = p.bufferProcessed
             /\ q.bufferEnd = p.bufferEnd /\ q.bufferProcessed = p.bufferProcessed
<1> DEFINE q == ClearRequest(p)
<1>0. q = [p EXCEPT !.request = NoRequest, !.bufferBegin = p.bufferProcessed]
  BY DEF ClearRequest
<1> HIDE DEF q
<1>1. FieldsOf(p)
  BY DEF ParserOK
<1>2. /\ q.buffer = p.buffer /\ q.bufferSize = p.bufferSize
      /\ q.bufferBegin = p.bufferProcessed
      /\ q.bufferEnd = p.bufferEnd /\ q.bufferProcessed = p.bufferProcessed
      /\ q.state = p.state /\ q.request = NoRequest
  BY <1>0, <1>1 DEF FieldsOf
<1>3. FieldsOf(q)
  BY <1>0, <1>1 DEF FieldsOf
<1>4. ParserOK(q)
  BY <1>2, <1>3, NoRequestOK DEF ParserOK, IndicesOK
<1>5. QED
  BY <1>2, <1>4 DEF q

LEMMA ResetOK ==
  ASSUME NEW p, ParserOK(p)
  PROVE  LET q == Reset(p)
         IN  /\ ParserOK(q)
             /\ q.bufferSize = p.bufferSize
             /\ q.bufferBegin = 0 /\ q.bufferEnd = 0 /\ q.bufferProcessed = 0
<1> DEFINE q == Reset(p)
<1>0. q = [NewParser EXCEPT !.buffer = Garbage(p.bufferSize), !.bufferSize = p.bufferSize]
  BY DEF Reset
<1> HIDE DEF q
<1>1. /\ q.buffer = Garbage(p.bufferSize) /\ q.bufferSize = p.bufferSize
      /\ q.bufferBegin = 0 /\ q.bufferEnd = 0 /\ q.bufferProcessed = 0
      /\ q.state = "READHEADERS" /\ q.request = NoRequest
  BY <1>0 DEF NewParser
<1>2. FieldsOf(q)
  BY <1>0 DEF NewParser, FieldsOf
<1>3. p.bufferSize \in Nat \ {0}
  BY DEF ParserOK, IndicesOK
<1>4. ParserOK(q)
  BY <1>1, <1>2, <1>3, NoRequestOK, GarbageType DEF ParserOK, IndicesOK
<1>5. QED
  BY <1>1, <1>4 DEF q

(* beginAddData() leaves room for a recv, and doubles the buffer only when *)
(* the partial request fills more than half of it.                         *)
LEMMA BeginAddDataOK ==
  ASSUME NEW p, ParserOK(p)
  PROVE  LET q   == BeginAddData(p)
             cur == p.bufferEnd - p.bufferBegin
         IN  /\ ParserOK(q)
             /\ Room(q) > 0
             /\ q.bufferBegin = 0
             /\ q.bufferEnd = cur
             /\ q.bufferSize = p.bufferSize \/ (cur * 2 > p.bufferSize /\ q.bufferSize = p.bufferSize * 2)
<1> DEFINE cur   == p.bufferEnd - p.bufferBegin
           size  == IF cur * 2 > p.bufferSize THEN p.bufferSize * 2 ELSE p.bufferSize
           moved == [i \in 0..(size - 1) |-> IF i < cur THEN p.buffer[p.bufferBegin + i] ELSE NUL]
<1>1. cur \in Nat /\ size \in Nat \ {0} /\ cur < size
  <2>1. /\ p.bufferSize \in Nat \ {0} /\ p.bufferBegin \in Nat /\ p.bufferEnd \in Nat
        /\ p.bufferBegin <= p.bufferEnd /\ p.bufferEnd <= p.bufferSize
    BY DEF ParserOK, IndicesOK
  <2>2. PICK b \in Nat, e \in Nat, s \in Nat \ {0} :
          b = p.bufferBegin /\ e = p.bufferEnd /\ s = p.bufferSize /\ b <= e /\ e <= s
    BY <2>1
  <2>3. e - b \in Nat /\ e - b <= s /\ s < s * 2 /\ s * 2 \in Nat \ {0}
    BY <2>2
  <2>4. (e - b) * 2 <= s => e - b < s
    BY <2>2
  <2>5. QED
    BY <2>2, <2>3, <2>4
<1> DEFINE q == BeginAddData(p)
<1>2. FieldsOf(p)
  BY DEF ParserOK
<1>3. CASE cur <= 0
  <2>1. q = [p EXCEPT !.bufferBegin = 0, !.bufferEnd = 0, !.bufferProcessed = 0]
    BY <1>3 DEF BeginAddData, GrownSize, MovedToFront
  <2>2. /\ q.buffer = p.buffer /\ q.bufferSize = p.bufferSize
        /\ q.bufferBegin = 0 /\ q.bufferEnd = 0 /\ q.bufferProcessed = 0
        /\ q.state = p.state /\ q.request = p.request
    BY <1>2, <2>1 DEF FieldsOf
  <2>3. FieldsOf(q)
    BY <1>2, <2>1 DEF FieldsOf
  <2> HIDE DEF q
  <2>4. ParserOK(q)
    BY <2>2, <2>3 DEF ParserOK, IndicesOK
  <2>5. Room(q) > 0 /\ q.bufferEnd = cur
    BY <1>1, <1>3, <2>2, <2>4 DEF Room, ParserOK, IndicesOK
  <2>6. QED
    BY <2>2, <2>4, <2>5 DEF q
<1>4. CASE cur > 0
  <2>1. q = [buffer |-> moved, bufferSize |-> size, bufferBegin |-> 0, bufferEnd |-> cur,
             bufferProcessed |-> p.bufferProcessed - p.bufferBegin,
             state |-> p.state, request |-> p.request]
    BY <1>1, <1>4 DEF BeginAddData, GrownSize, MovedToFront
  <2>2. moved \in [0..(size - 1) -> Bytes]
    <3>1. NUL \in Bytes
      BY DEF NUL, Bytes, Kinds
    <3>2. ASSUME NEW i \in 0..(size - 1), i < cur PROVE p.buffer[p.bufferBegin + i] \in Bytes
      <4>1. p.bufferBegin + i \in 0..(p.bufferSize - 1)
        <5>1. /\ p.bufferSize \in Nat /\ p.bufferBegin \in Nat /\ p.bufferEnd \in Nat
              /\ p.bufferEnd <= p.bufferSize
          BY DEF ParserOK, IndicesOK
        <5>2. i \in Nat /\ i < p.bufferEnd - p.bufferBegin
          BY <1>1, <3>2
        <5>3. QED
          BY <5>1, <5>2
      <4>2. QED
        BY <4>1 DEF ParserOK
    <3>3. QED
      BY <3>1, <3>2
  <2> HIDE DEF moved
  <2>3. /\ q.buffer = moved /\ q.bufferSize = size
        /\ q.bufferBegin = 0 /\ q.bufferEnd = cur
        /\ q.bufferProcessed = p.bufferProcessed - p.bufferBegin
        /\ q.state = p.state /\ q.request = p.request
    BY <2>1
  <2>4. FieldsOf(q)
    BY <2>1 DEF FieldsOf
  <2> HIDE DEF q
  <2>5. ParserOK(q)
    <3>1. IndicesOK(q)
      BY <1>1, <2>3 DEF ParserOK, IndicesOK
    <3> HIDE DEF size, cur
    <3>2. QED
      BY <2>2, <2>3, <2>4, <3>1 DEF ParserOK
  <2>6. Room(q) > 0
    BY <1>1, <2>3 DEF Room
  <2>7. QED
    BY <2>3, <2>5, <2>6 DEF q
<1>5. QED
  BY <1>1, <1>3, <1>4

(* endAddData() never leaves the buffer when recv respects its length.     *)
LEMMA EndAddDataOK ==
  ASSUME NEW p, ParserOK(p), NEW data \in Seq(Bytes), Len(data) <= Room(p)
  PROVE  /\ ParserOK(EndAddData(p, data))
         /\ EndAddData(p, data).bufferSize = p.bufferSize
         /\ EndAddData(p, data).bufferBegin = p.bufferBegin
<1> DEFINE filled == [i \in 0..(p.bufferSize - 1) |->
                        IF i \in p.bufferEnd..(p.bufferEnd + Len(data) - 1)
                        THEN data[i - p.bufferEnd + 1] ELSE p.buffer[i]]
<1>1. Len(data) \in Nat /\ p.bufferEnd + Len(data) <= p.bufferSize
  BY DEF ParserOK, IndicesOK, Room
<1>2. filled \in [0..(p.bufferSize - 1) -> Bytes]
  <2>1. ASSUME NEW i \in 0..(p.bufferSize - 1), i \in p.bufferEnd..(p.bufferEnd + Len(data) - 1)
        PROVE  data[i - p.bufferEnd + 1] \in Bytes
    <3>1. i - p.bufferEnd + 1 \in 1..Len(data)
      BY <1>1, <2>1 DEF ParserOK, IndicesOK
    <3>2. QED
      BY <3>1
  <2>2. \A i \in 0..(p.bufferSize - 1) : p.buffer[i] \in Bytes
    BY DEF ParserOK
  <2>3. QED
    BY <2>1, <2>2
<1> DEFINE q == EndAddData(p, data)
<1>3. q = [p EXCEPT !.buffer = filled, !.bufferEnd = p.bufferEnd + Len(data)]
  BY DEF EndAddData
<1> HIDE DEF filled, q
<1>4. FieldsOf(p)
  BY DEF ParserOK
<1>5. /\ q.buffer = filled /\ q.bufferSize = p.bufferSize
      /\ q.bufferBegin = p.bufferBegin /\ q.bufferProcessed = p.bufferProcessed
      /\ q.bufferEnd = p.bufferEnd + Len(data)
      /\ q.state = p.state /\ q.request = p.request
  BY <1>3, <1>4 DEF FieldsOf
<1>6. FieldsOf(q)
  BY <1>3, <1>4 DEF FieldsOf
<1>7. ParserOK(q)
  BY <1>1, <1>2, <1>5, <1>6 DEF ParserOK, IndicesOK
<1>8. QED
  BY <1>5, <1>7 DEF q

-----------------------------------------------------------------------------
(* The CRs that one call of readRequest() can find lie among the unscanned *)
(* received bytes.                                                         *)
LEMMA CRLFsType ==
  ASSUME NEW p, ParserOK(p)
  PROVE  /\ CRLFs(p) \in SUBSET Nat
         /\ \A i \in CRLFs(p) : p.bufferProcessed <= i /\ i + 2 <= p.bufferEnd
BY DEF CRLFs, ParserOK, IndicesOK

(* A line starts behind the CRLF before it and not behind its own CR.      *)
LEMMA LineStartType ==
  ASSUME NEW p, ParserOK(p), NEW i \in CRLFs(p)
  PROVE  /\ LineStart(p, i) \in Nat
         /\ p.bufferProcessed <= LineStart(p, i)
         /\ LineStart(p, i) <= i
<1> DEFINE S == {p.bufferProcessed} \cup {j + 2 : j \in {k \in CRLFs(p) : k < i}}
<1>1. p.bufferProcessed \in Nat
  BY DEF ParserOK, IndicesOK
<1>2. i \in Nat /\ p.bufferProcessed <= i
  BY CRLFsType
<1>3. \A j \in CRLFs(p) : j < i => j + 2 <= i
  <2>1. TAKE j \in CRLFs(p)
  <2>2. p.buffer[i] = CR /\ p.buffer[j + 1] = LF
    BY DEF CRLFs
  <2>3. CR # LF
    BY DEF CR, LF
  <2>4. j + 1 # i
    BY <2>2, <2>3
  <2>5. j \in Nat
    BY CRLFsType
  <2>6. QED
    BY <1>2, <2>4, <2>5
<1>4. S \in SUBSET Nat /\ S # {}
  BY <1>1, CRLFsType
<1>5. \A x \in S : x <= i
  BY <1>2, <1>3
<1>6. Max(S) \in S /\ \A x \in S : x <= Max(S)
  BY <1>2, <1>4, <1>5, MaxOfBounded
<1>7. LineStart(p, i) = Max(S)
  BY DEF LineStart
<1>8. p.bufferProcessed \in S
  OBVIOUS
<1> HIDE DEF S
<1>9. QED
  BY <1>4, <1>5, <1>6, <1>7, <1>8

(* The scan keeps the parser well-formed and the received bytes where they *)
(* are, and moves the scan position forward inside them.                   *)
LEMMA ScanHeadersOK ==
  ASSUME NEW p, ParserOK(p)
  PROVE  LET q == ScanHeaders(p)
         IN  /\ ParserOK(q)
             /\ q.bufferSize = p.bufferSize
             /\ q.bufferBegin = p.bufferBegin /\ q.bufferEnd = p.bufferEnd
<1> DEFINE q == ScanHeaders(p)
           first   == RequestLine(p)
           good    == HeaderLines(p) \ BadHeaderLines(p)
           lengths == ContentLengthLines(p)
           scanned == {p.bufferProcessed} \cup {i + 2 : i \in Visited(p)}
           line    == IF first = {} THEN p.request.line ELSE SliceOf(p, Min(first))
           headers == p.request.headers \cup {SliceOf(p, i) : i \in good}
           length  == IF lengths = {} THEN p.request.contentLength
                      ELSE Number(p.buffer[LineStart(p, Max(lengths))])
           bad     == p.request.malformed \/ BadRequestLines(p) # {} \/ BadHeaderLines(p) # {}
           buffer  == [k \in 0..(p.bufferSize - 1) |-> IF k \in lengths THEN NUL ELSE p.buffer[k]]
           request == [line |-> line, headers |-> headers, contentLength |-> length,
                       contents |-> p.request.contents, malformed |-> bad]
<1>1. /\ p.bufferBegin \in Nat /\ p.bufferProcessed \in Nat /\ p.bufferEnd \in Nat
      /\ p.bufferSize \in Nat \ {0} /\ p.bufferEnd <= p.bufferSize
      /\ p.bufferBegin <= p.bufferProcessed /\ p.bufferProcessed <= p.bufferEnd
  BY DEF ParserOK, IndicesOK
<1>2. FieldsOf(p) /\ RequestOK(p.request)
  BY DEF ParserOK
<1>3. /\ first \subseteq CRLFs(p) /\ good \subseteq CRLFs(p)
      /\ lengths \subseteq CRLFs(p) /\ Visited(p) \subseteq CRLFs(p)
  BY DEF RequestLine, HeaderLines, ContentLengthLines, TextLines, Visited
<1>4. \A i \in CRLFs(p) : SliceOf(p, i) \in Int \X Int
  BY <1>1, CRLFsType, LineStartType DEF SliceOf
<1>5. line \in Int \X Int
  <2>1. CASE first = {}
    BY <1>2, <2>1 DEF RequestOK
  <2>2. CASE first # {}
    BY <1>3, <1>4, <2>2, CRLFsType, MinOfNat
  <2>3. QED
    BY <2>1, <2>2
<1>6. headers \subseteq Int \X Int
  BY <1>2, <1>3, <1>4 DEF RequestOK
<1>7. length \in Int
  <2>1. CASE lengths = {}
    BY <1>2, <2>1 DEF RequestOK
  <2>2. CASE lengths # {}
    <3>1. Max(lengths) \in CRLFs(p)
      <4>1. lengths \in SUBSET Nat /\ \A i \in lengths : i <= p.bufferEnd
        BY <1>1, <1>3, CRLFsType
      <4>2. QED
        BY <1>1, <1>3, <2>2, <4>1, MaxOfBounded
    <3>2. LineStart(p, Max(lengths)) \in 0..(p.bufferSize - 1)
      BY <1>1, <3>1, CRLFsType, LineStartType
    <3>3. p.buffer[LineStart(p, Max(lengths))] \in Bytes
      BY <3>2 DEF ParserOK
    <3>4. QED
      BY <2>2, <3>3 DEF Bytes, Number
  <2>3. QED
    BY <2>1, <2>2
<1>8. buffer \in [0..(p.bufferSize - 1) -> Bytes]
  <2>1. NUL \in Bytes
    BY DEF NUL, Bytes, Kinds
  <2>2. \A k \in 0..(p.bufferSize - 1) : p.buffer[k] \in Bytes
    BY DEF ParserOK
  <2>3. QED
    BY <2>1, <2>2
<1>9. /\ Max(scanned) \in Nat
      /\ p.bufferProcessed <= Max(scanned) /\ Max(scanned) <= p.bufferEnd
  <2>1. scanned \in SUBSET Nat /\ scanned # {} /\ p.bufferProcessed \in scanned
    BY <1>1, <1>3, CRLFsType
  <2>2. \A x \in scanned : x <= p.bufferEnd
    BY <1>1, <1>3, CRLFsType
  <2>3. Max(scanned) \in scanned /\ \A x \in scanned : x <= Max(scanned)
    BY <1>1, <2>1, <2>2, MaxOfBounded
  <2>4. QED
    BY <2>1, <2>2, <2>3
<1>10. bad \in BOOLEAN
  BY <1>2 DEF RequestOK
<1>11. q = [p EXCEPT !.request = request, !.buffer = buffer, !.bufferProcessed = Max(scanned)]
  BY DEF ScanHeaders
<1> HIDE DEF q, first, good, lengths, scanned, line, headers, length, bad, buffer
<1>12. RequestOK(request)
  BY <1>2, <1>5, <1>6, <1>7, <1>10 DEF RequestOK
<1> HIDE DEF request
<1>13. /\ q.buffer = buffer /\ q.bufferSize = p.bufferSize
       /\ q.bufferBegin = p.bufferBegin /\ q.bufferEnd = p.bufferEnd
       /\ q.bufferProcessed = Max(scanned)
       /\ q.state = p.state /\ q.request = request
  BY <1>2, <1>11 DEF FieldsOf
<1>14. FieldsOf(q)
  BY <1>2, <1>11 DEF FieldsOf
<1>15. ParserOK(q)
  <2>1. IndicesOK(q)
    BY <1>1, <1>9, <1>13 DEF IndicesOK
  <2>2. QED
    BY <1>8, <1>12, <1>13, <1>14, <2>1 DEF ParserOK
<1>16. QED
  BY <1>13, <1>15 DEF q

(* Flagging a request changes nothing else.                                *)
LEMMA MalformedOK ==
  ASSUME NEW p, ParserOK(p)
  PROVE  LET r == Malformed(p)
         IN  /\ r.done
             /\ ParserOK(r.parser)
             /\ r.parser.bufferSize = p.bufferSize
             /\ r.parser.request.malformed
<1> DEFINE q == [p EXCEPT !.request.malformed = TRUE]
           m == [p.request EXCEPT !.malformed = TRUE]
<1>1. FieldsOf(p) /\ RequestOK(p.request)
  BY DEF ParserOK
<1>2. q = [p EXCEPT !.request = m] /\ m = [p.request EXCEPT !.malformed = TRUE]
  OBVIOUS
<1>3. Malformed(p).done /\ Malformed(p).parser = q
  BY DEF Malformed, Ready
<1> HIDE DEF q, m
<1>4. RequestOK(m) /\ m.malformed
  BY <1>1, <1>2 DEF RequestOK
<1>5. /\ q.buffer = p.buffer /\ q.bufferSize = p.bufferSize
      /\ q.bufferBegin = p.bufferBegin /\ q.bufferEnd = p.bufferEnd
      /\ q.bufferProcessed = p.bufferProcessed
      /\ q.state = p.state /\ q.request = m
  BY <1>1, <1>2 DEF FieldsOf
<1>6. FieldsOf(q)
  BY <1>1, <1>2 DEF FieldsOf
<1>7. ParserOK(q)
  BY <1>4, <1>5, <1>6 DEF ParserOK, IndicesOK
<1>8. QED
  BY <1>3, <1>4, <1>5, <1>7

LEMMA StateOK ==
  ASSUME NEW p, ParserOK(p), NEW st \in {"READHEADERS", "READCONTENT"}
  PROVE  LET q == [p EXCEPT !.state = st]
         IN  /\ ParserOK(q)
             /\ q.bufferSize = p.bufferSize
             /\ q.bufferBegin = p.bufferBegin /\ q.bufferEnd = p.bufferEnd
<1> DEFINE q == [p EXCEPT !.state = st]
<1>1. FieldsOf(p)
  BY DEF ParserOK
<1>2. /\ q.buffer = p.buffer /\ q.bufferSize = p.bufferSize
      /\ q.bufferBegin = p.bufferBegin /\ q.bufferEnd = p.bufferEnd
      /\ q.bufferProcessed = p.bufferProcessed
      /\ q.state = st /\ q.request = p.request
  BY <1>1 DEF FieldsOf
<1>3. FieldsOf(q)
  BY <1>1 DEF FieldsOf
<1> HIDE DEF q
<1>4. ParserOK(q)
  BY <1>2, <1>3 DEF ParserOK, IndicesOK
<1>5. QED
  BY <1>2, <1>4 DEF q

(* The body is taken from the received bytes only.                         *)
LEMMA ReadContentOK ==
  ASSUME NEW p, ParserOK(p)
  PROVE  LET r == ReadContent(p)
         IN  /\ r.done \in BOOLEAN
             /\ ParserOK(r.parser)
             /\ r.parser.bufferSize = p.bufferSize
             /\ ~r.done => r.parser = p
<1> DEFINE r == ReadContent(p)
           contentsEnd == p.bufferProcessed + p.request.contentLength
<1>1. CASE p.request.contentLength \notin 0..MAXREQUESTSIZE
  <2>1. r = Malformed(p)
    BY <1>1 DEF ReadContent
  <2>2. QED
    BY <2>1, MalformedOK
<1>2. CASE p.request.contentLength \in 0..MAXREQUESTSIZE /\ contentsEnd > p.bufferEnd
  <2>1. r = NotReady(p)
    BY <1>2 DEF ReadContent
  <2>2. QED
    BY <2>1 DEF NotReady
<1>3. CASE p.request.contentLength \in 0..MAXREQUESTSIZE /\ ~(contentsEnd > p.bufferEnd)
  <2> DEFINE m == [p.request EXCEPT !.contents = <<p.bufferProcessed, contentsEnd>>]
             q == [p EXCEPT !.request = m, !.bufferProcessed = contentsEnd, !.state = "READHEADERS"]
  <2>1. FieldsOf(p) /\ RequestOK(p.request) /\ IndicesOK(p)
    BY DEF ParserOK
  <2>2. contentsEnd \in Nat /\ p.bufferProcessed <= contentsEnd /\ contentsEnd <= p.bufferEnd
    BY <1>3, <2>1, SizesAssumption DEF IndicesOK
  <2>3. r = Ready([p EXCEPT !.request.contents = <<p.bufferProcessed, contentsEnd>>,
                            !.bufferProcessed = contentsEnd, !.state = "READHEADERS"])
    BY <1>3 DEF ReadContent
  <2>4. r.done /\ r.parser = q
    BY <2>3 DEF Ready
  <2> HIDE DEF r, contentsEnd
  <2>5. RequestOK(m)
    BY <2>1, <2>2 DEF RequestOK, IndicesOK
  <2>9. q = [p EXCEPT !.request = m, !.bufferProcessed = contentsEnd, !.state = "READHEADERS"]
    OBVIOUS
  <2> HIDE DEF m, q
  <2>6. /\ q.buffer = p.buffer /\ q.bufferSize = p.bufferSize
        /\ q.bufferBegin = p.bufferBegin /\ q.bufferEnd = p.bufferEnd
        /\ q.bufferProcessed = contentsEnd
        /\ q.state = "READHEADERS" /\ q.request = m
    BY <2>1, <2>9 DEF FieldsOf
  <2>7. FieldsOf(q)
    BY <2>1, <2>9 DEF FieldsOf
  <2>8. ParserOK(q)
    BY <2>1, <2>2, <2>5, <2>6, <2>7 DEF ParserOK, IndicesOK
  <2>10. QED
    BY <2>4, <2>6, <2>8 DEF r
<1>4. QED
  BY <1>1, <1>2, <1>3

(* readRequest() keeps the parser well-formed, does not resize its buffer, *)
(* and asks for more bytes only while the buffered ones are below the      *)
(* size limit.                                                             *)
LEMMA ReadRequestOK ==
  ASSUME NEW p, ParserOK(p)
  PROVE  LET r == ReadRequest(p)
         IN  /\ r.done \in BOOLEAN
             /\ ParserOK(r.parser)
             /\ r.parser.bufferSize = p.bufferSize
             /\ ~r.done => r.parser.bufferEnd - r.parser.bufferBegin < MAXREQUESTSIZE
<1> DEFINE r == ReadRequest(p)
           q == ScanHeaders(p)
<1>1. CASE p.bufferEnd - p.bufferBegin >= MAXREQUESTSIZE
  <2>1. r = Malformed(p)
    BY <1>1 DEF ReadRequest
  <2>2. QED
    BY <2>1, MalformedOK
<1>2. CASE p.bufferEnd - p.bufferBegin < MAXREQUESTSIZE /\ p.state # "READHEADERS"
  <2>1. r = ReadContent(p)
    BY <1>2, SizesAssumption DEF ReadRequest, ParserOK, IndicesOK
  <2>2. QED
    BY <1>2, <2>1, ReadContentOK
<1>3. CASE p.bufferEnd - p.bufferBegin < MAXREQUESTSIZE /\ p.state = "READHEADERS"
  <2>1. r = ReadHeaders(p)
    BY <1>3, SizesAssumption DEF ReadRequest, ParserOK, IndicesOK
  <2>2. /\ ParserOK(q) /\ q.bufferSize = p.bufferSize
        /\ q.bufferBegin = p.bufferBegin /\ q.bufferEnd = p.bufferEnd
    BY ScanHeadersOK
  <2>3. \/ r = NotReady(q)
        \/ r = Malformed(q)
        \/ r = Ready(q)
        \/ r = ReadContent([q EXCEPT !.state = "READCONTENT"])
    BY <2>1 DEF ReadHeaders
  <2> HIDE DEF q, r
  <2>4. CASE r = NotReady(q)
    BY <1>3, <2>2, <2>4 DEF NotReady, r
  <2>5. CASE r = Malformed(q)
    BY <2>2, <2>5, MalformedOK DEF r
  <2>6. CASE r = Ready(q)
    BY <2>2, <2>6 DEF Ready, r
  <2>7. CASE r = ReadContent([q EXCEPT !.state = "READCONTENT"])
    <3> DEFINE c == [q EXCEPT !.state = "READCONTENT"]
    <3>1. /\ ParserOK(c) /\ c.bufferSize = q.bufferSize
          /\ c.bufferBegin = q.bufferBegin /\ c.bufferEnd = q.bufferEnd
      BY <2>2, StateOK
    <3>2. r = ReadContent(c)
      BY <2>7
    <3> HIDE DEF c
    <3>3. QED
      BY <1>3, <2>2, <3>1, <3>2, ReadContentOK DEF r
  <2>8. QED
    BY <2>3, <2>4, <2>5, <2>6, <2>7
<1>4. QED
  <2>1. p.bufferEnd - p.bufferBegin \in Int /\ MAXREQUESTSIZE \in Int
    BY SizesAssumption DEF ParserOK, IndicesOK
  <2>2. QED
    BY <1>1, <1>2, <1>3, <2>1

-----------------------------------------------------------------------------
(* The inductive invariant.  BufferBounded is inductive only together with *)
(* the types: beginAddData() doubles a buffer of size s when more than s/2 *)
(* bytes are held, and it is reached with fewer than MAXREQUESTSIZE of     *)
(* them, so that the new size 2s is below 4 * MAXREQUESTSIZE.              *)
IInv == TypeOK /\ RecvHasRoom /\ BufferBounded

(* A buffer that readRequest() left waiting can be prepared for recv.      *)
LEMMA GrowthBounded ==
  ASSUME NEW p, ParserOK(p),
         p.bufferEnd - p.bufferBegin < MAXREQUESTSIZE,
         p.bufferSize <= InitialBufferSize \/ p.bufferSize < 4 * MAXREQUESTSIZE
  PROVE  LET q == BeginAddData(p)
         IN  q.bufferSize <= InitialBufferSize \/ q.bufferSize < 4 * MAXREQUESTSIZE
<1>1. /\ p.bufferEnd \in Nat /\ p.bufferBegin \in Nat /\ p.bufferSize \in Nat
      /\ InitialBufferSize \in Nat /\ MAXREQUESTSIZE \in Nat
  BY SizesAssumption DEF ParserOK, IndicesOK
<1> DEFINE q == BeginAddData(p)
<1>2. \/ q.bufferSize = p.bufferSize
      \/ (p.bufferEnd - p.bufferBegin) * 2 > p.bufferSize /\ q.bufferSize = p.bufferSize * 2
  BY BeginAddDataOK
<1> HIDE DEF q
<1>3. QED
  BY <1>1, <1>2 DEF q

(* Proceed, the common tail of readCB and requestCompleted, keeps IInv.    *)
LEMMA ProceedOK ==
  ASSUME IInv, NEW p, ParserOK(p), p.bufferSize = parser.bufferSize,
         Proceed(ReadRequest(p)), pending' \in Seq(Bytes)
  PROVE  IInv'
<1> DEFINE r == ReadRequest(p)
<1>1. /\ r.done \in BOOLEAN
      /\ ParserOK(r.parser) /\ r.parser.bufferSize = parser.bufferSize
      /\ ~r.done => r.parser.bufferEnd - r.parser.bufferBegin < MAXREQUESTSIZE
  BY ReadRequestOK
<1>2. Proceed(r)
  OBVIOUS
<1> HIDE DEF r
<1>3. CASE r.done
  <2>1. parser' = r.parser /\ pc' = "handle" /\ delivered' \in Nat
    BY <1>2, <1>3 DEF Proceed, IInv, TypeOK
  <2>2. QED
    BY <1>1, <2>1 DEF IInv, TypeOK, RecvHasRoom, BufferBounded
<1>4. CASE ~r.done
  <2>1. parser' = BeginAddData(r.parser) /\ pc' = "recv" /\ delivered' \in Nat
    BY <1>2, <1>4 DEF Proceed, IInv, TypeOK
  <2>2. ParserOK(parser') /\ Room(parser') > 0
    BY <1>1, <2>1, BeginAddDataOK
  <2>3. BufferBounded'
    BY <1>1, <1>4, <2>1, GrowthBounded DEF IInv, BufferBounded
  <2>4. QED
    BY <2>1, <2>2, <2>3 DEF IInv, TypeOK, RecvHasRoom
<1>5. QED
  BY <1>1, <1>3, <1>4

LEMMA InitInv == Init => IInv
<1> SUFFICES ASSUME Init PROVE IInv
  OBVIOUS
<1>1. ParserOK(parser) /\ parser.bufferSize = InitialBufferSize
  BY NewParserOK DEF Init
<1>2. << >> \in Seq(Bytes)
  OBVIOUS
<1>3. InitialBufferSize \in Nat
  BY SizesAssumption
<1>4. QED
  BY <1>1, <1>2, <1>3 DEF Init, IInv, TypeOK, RecvHasRoom, BufferBounded

LEMMA StepInv == IInv /\ [Next]_vars => IInv'
<1> SUFFICES ASSUME IInv, [Next]_vars PROVE IInv'
  OBVIOUS
<1>1. ParserOK(parser) /\ pending \in Seq(Bytes) /\ delivered \in Nat
  BY DEF IInv, TypeOK
<1>2. CASE Start
  <2>1. pending' \in Seq(Bytes)
    BY <1>2, ScriptsAssumption DEF Start
  <2> DEFINE q == Reset(parser)
  <2>2. /\ ParserOK(q) /\ q.bufferSize = parser.bufferSize
        /\ q.bufferEnd = 0 /\ q.bufferBegin = 0
    BY <1>1, ResetOK
  <2>3. parser' = BeginAddData(q) /\ pc' = "recv" /\ delivered' = 0
    BY <1>2 DEF Start
  <2> HIDE DEF q
  <2>4. ParserOK(parser') /\ Room(parser') > 0
    BY <2>2, <2>3, BeginAddDataOK
  <2>5. BufferBounded'
    BY <2>2, <2>3, GrowthBounded, SizesAssumption DEF IInv, BufferBounded
  <2>6. QED
    BY <2>1, <2>3, <2>4, <2>5 DEF IInv, TypeOK, RecvHasRoom
<1>3. ASSUME NEW n \in 1..Len(pending), ReadCB(n) PROVE IInv'
  <2> DEFINE data == SubSeq(pending, 1, n)
             p    == EndAddData(parser, data)
  <2>1. data \in Seq(Bytes) /\ Len(data) = n /\ pending' \in Seq(Bytes)
    BY <1>1, <1>3 DEF ReadCB
  <2>2. Len(data) <= Room(parser)
    BY <1>3, <2>1 DEF ReadCB
  <2>3. Proceed(ReadRequest(p))
    BY <1>3 DEF ReadCB
  <2> HIDE DEF data
  <2>4. ParserOK(p) /\ p.bufferSize = parser.bufferSize
    BY <1>1, <2>1, <2>2, EndAddDataOK
  <2> HIDE DEF p
  <2>5. QED
    BY <2>1, <2>3, <2>4, ProceedOK
<1>4. CASE RequestCompleted
  <2> DEFINE p == ClearRequest(parser)
  <2>1. ParserOK(p) /\ p.bufferSize = parser.bufferSize
    BY <1>1, ClearRequestOK
  <2>2. Proceed(ReadRequest(p)) /\ pending' = pending
    BY <1>4 DEF RequestCompleted
  <2> HIDE DEF p
  <2>3. QED
    BY <1>1, <2>1, <2>2, ProceedOK
<1>5. CASE Stop
  BY <1>5 DEF Stop, IInv, TypeOK, RecvHasRoom, BufferBounded
<1>6. CASE UNCHANGED vars
  BY <1>6 DEF vars, IInv, TypeOK, RecvHasRoom, BufferBounded
<1>7. QED
  BY <1>2, <1>3, <1>4, <1>5, <1>6 DEF Next

(* In every reachable state the buffer indices are ordered and inside the  *)
(* buffer, for every segmentation of every stream of bytes.                *)
THEOREM TypeCorrect == Spec => []TypeOK
<1>1. IInv => TypeOK
  BY DEF IInv
<1>2. QED
  BY <1>1, InitInv, StepInv, PTL DEF Spec

(* No recv is issued with an empty buffer: a result of 0 always means that *)
(* the peer closed the connection.                                         *)
THEOREM RecvNeverEmpty == Spec => []RecvHasRoom
<1>1. IInv => RecvHasRoom
  BY DEF IInv
<1>2. QED
  BY <1>1, InitInv, StepInv, PTL DEF Spec

(* No sequence of connections makes a pooled parser's buffer outgrow four  *)
(* times the size limit (or its initial size, if that is larger).          *)
THEOREM MemoryBounded == Spec => []BufferBounded
<1>1. IInv => BufferBounded
  BY DEF IInv
<1>2. QED
  BY <1>1, InitInv, StepInv, PTL DEF Spec

-----------------------------------------------------------------------------
(***************************************************************************)
(* The bytes of requests.                                                  *)
(***************************************************************************)
TextOf(r, i) == IF i = 0 THEN r.line ELSE r.fields[i]
NLines(r)    == 1 + Len(r.fields)
WireLen(r)   == 3 * NLines(r) + 2 + Len(r.body)

(* W begins with the bytes of r.                                           *)
BeginsWith(W, r) ==
  /\ \A i \in 0..(NLines(r) - 1) : W[3 * i + 1] = TextOf(r, i) /\ W[3 * i + 2] = CR /\ W[3 * i + 3] = LF
  /\ W[3 * NLines(r) + 1] = CR /\ W[3 * NLines(r) + 2] = LF
  /\ \A k \in 1..Len(r.body) : W[3 * NLines(r) + 2 + k] = r.body[k]

LEMMA TextIs ==
  ASSUME NEW t \in Text PROVE t \in Bytes /\ t # CR /\ t # LF
<1>1. PICK k \in Kinds \ {"CR", "LF", "NUL"}, n \in Int : t = <<k, n>>
  BY DEF Text
<1>2. QED
  BY <1>1 DEF Bytes, CR, LF

LEMMA RequestIs ==
  ASSUME NEW r \in Requests
  PROVE  /\ r.line \in Text /\ r.fields \in Seq(Text) /\ r.body \in Seq(Bytes)
         /\ BodyLength(r) \in 0..MAXREQUESTSIZE => Len(r.body) = BodyLength(r)
         /\ Len(r.fields) \in Nat /\ Len(r.body) \in Nat
         /\ NLines(r) \in Nat /\ NLines(r) >= 1 /\ WireLen(r) \in Nat
         /\ \A i \in 0..(NLines(r) - 1) : TextOf(r, i) \in Text
<1>1. /\ r.line \in Text /\ r.fields \in Seq(Text) /\ r.body \in Seq(Bytes)
      /\ BodyLength(r) \in 0..MAXREQUESTSIZE => Len(r.body) = BodyLength(r)
  BY DEF Requests
<1>2. PICK n \in Nat, m \in Nat : n = Len(r.fields) /\ m = Len(r.body)
  BY <1>1
<1>3. NLines(r) = 1 + n /\ WireLen(r) = 3 * (1 + n) + 2 + m
  BY <1>2 DEF NLines, WireLen
<1>4. \A i \in 0..n : TextOf(r, i) \in Text
  BY <1>1, <1>2 DEF TextOf
<1>5. 1 + n - 1 = n
  OBVIOUS
<1>6. NLines(r) - 1 = n
  BY <1>3
<1>7. \A i \in 0..(NLines(r) - 1) : TextOf(r, i) \in Text
  BY <1>4, <1>6
<1>8. NLines(r) \in Nat /\ NLines(r) >= 1 /\ WireLen(r) \in Nat
  BY <1>3
<1>9. QED
  BY <1>1, <1>2, <1>7, <1>8

LEMMA LinesIs ==
  ASSUME NEW bs \in Seq(Text), NEW n \in Nat, n = Len(bs)
  PROVE  /\ Lines(bs) \in Seq(Bytes) /\ Len(Lines(bs)) = 3 * n
         /\ \A i \in 0..(n - 1) :
              Lines(bs)[3 * i + 1] = bs[i + 1] /\ Lines(bs)[3 * i + 2] = CR /\ Lines(bs)[3 * i + 3] = LF
<1>1. PICK f : f = [k \in 1..3 * n |-> CASE k % 3 = 1 -> bs[(k + 2) \div 3]
                                         [] k % 3 = 2 -> CR
                                         [] k % 3 = 0 -> LF]
  OBVIOUS
<1>2. Lines(bs) = f
  BY <1>1 DEF Lines
<1>3. ASSUME NEW i \in 0..(n - 1)
      PROVE  f[3 * i + 1] = bs[i + 1] /\ f[3 * i + 2] = CR /\ f[3 * i + 3] = LF
  <2>1. /\ 3 * i + 1 \in 1..3 * n /\ (3 * i + 1) % 3 = 1 /\ (3 * i + 1 + 2) \div 3 = i + 1
        /\ 3 * i + 2 \in 1..3 * n /\ (3 * i + 2) % 3 = 2
        /\ 3 * i + 3 \in 1..3 * n /\ (3 * i + 3) % 3 = 0
    OBVIOUS
  <2>2. f[3 * i + 1] = bs[i + 1]
    <3>1. PICK k \in 1..3 * n : k = 3 * i + 1 /\ k % 3 = 1 /\ (k + 2) \div 3 = i + 1
      BY <2>1
    <3>2. f[k] = bs[(k + 2) \div 3]
      BY <1>1, <3>1
    <3>3. QED
      BY <3>1, <3>2
  <2>3. f[3 * i + 2] = CR
    BY <1>1, <2>1
  <2>4. f[3 * i + 3] = LF
    BY <1>1, <2>1
  <2>5. QED
    BY <2>2, <2>3, <2>4
<1>4. ASSUME NEW k \in 1..3 * n
      PROVE  \E i \in 0..(n - 1) : k = 3 * i + 1 \/ k = 3 * i + 2 \/ k = 3 * i + 3
  <2>1. PICK i \in Int : i = (k - 1) \div 3
    OBVIOUS
  <2>2. i \in 0..(n - 1) /\ (k = 3 * i + 1 \/ k = 3 * i + 2 \/ k = 3 * i + 3)
    BY <2>1
  <2>3. QED
    BY <2>2
<1>5. \A k \in 1..3 * n : f[k] \in Bytes
  <2>1. CR \in Bytes /\ LF \in Bytes
    BY DEF CR, LF, Bytes, Kinds
  <2>2. \A i \in 0..(n - 1) : bs[i + 1] \in Bytes
    <3>1. TAKE i \in 0..(n - 1)
    <3>2. i + 1 \in 1..Len(bs)
      OBVIOUS
    <3>3. bs[i + 1] \in Text
      BY <3>2
    <3>4. QED
      BY <3>3, TextIs
  <2>3. TAKE k \in 1..3 * n
  <2>4. PICK i \in 0..(n - 1) : k = 3 * i + 1 \/ k = 3 * i + 2 \/ k = 3 * i + 3
    BY <1>4
  <2>5. QED
    BY <1>3, <2>1, <2>2, <2>4
<1>6. f \in [1..3 * n -> Bytes]
  BY <1>1, <1>5
<1>7. f \in Seq(Bytes) /\ Len(f) = 3 * n
  <2>1. 3 * n \in Nat
    OBVIOUS
  <2>2. QED
    BY <1>6, <2>1, FunctionIsSeq
<1>8. QED
  BY <1>2, <1>3, <1>7

LEMMA BytesJoin ==
  ASSUME NEW s \in Seq(Bytes), NEW t \in Seq(Bytes)
  PROVE  s \o t \in Seq(Bytes) /\ Joins(s \o t, s, t)
BY ConcatJoins

LEMMA WireIs ==
  ASSUME NEW r \in Requests
  PROVE  Wire(r) \in Seq(Bytes) /\ Len(Wire(r)) = WireLen(r) /\ BeginsWith(Wire(r), r)
<1>1. PICK n \in Nat, m \in Nat : n = Len(r.fields) /\ m = Len(r.body)
  BY RequestIs
<1>2. r.line \in Text /\ r.fields \in Seq(Text) /\ r.body \in Seq(Bytes)
  BY RequestIs
<1>3. PICK bs \in Seq(Text) : /\ bs = <<r.line>> \o r.fields /\ Len(bs) = 1 + n
                              /\ bs[1] = r.line /\ \A k \in 1..n : bs[1 + k] = r.fields[k]
  <2>1. PICK x \in Text, q \in Seq(Text) : x = r.line /\ q = r.fields
    BY <1>2
  <2>2. <<x>> \in Seq(Text) /\ Len(<<x>>) = 1 /\ <<x>>[1] = x
    OBVIOUS
  <2>3. PICK o \in Seq(Text) : o = <<x>> /\ Len(o) = 1 /\ o[1] = x
    BY <2>2
  <2>4. o \o q \in Seq(Text) /\ Joins(o \o q, o, q)
    BY ConcatJoins
  <2>5. PICK c \in Seq(Text) : c = o \o q /\ Joins(c, o, q)
    BY <2>4
  <2>6. Len(o) = 1 /\ Len(q) = n
    BY <1>1, <2>1, <2>3
  <2>7. Len(c) = 1 + n /\ (\A k \in 1..1 : c[k] = o[k]) /\ \A k \in 1..n : c[1 + k] = q[k]
    BY <2>5, <2>6 DEF Joins
  <2>8. c[1] = x
    BY <2>3, <2>7
  <2>9. QED
    BY <2>1, <2>3, <2>5, <2>7, <2>8
<1>4. PICK N \in Nat : N = 1 + n
  OBVIOUS
<1>5. \A i \in 0..(N - 1) : bs[i + 1] = TextOf(r, i)
  <2>1. TAKE i \in 0..(N - 1)
  <2>2. CASE i = 0
    BY <1>3, <2>2 DEF TextOf
  <2>3. CASE i # 0
    <3>1. i \in 1..n /\ i + 1 = 1 + i
      BY <1>4, <2>3
    <3>2. QED
      BY <1>3, <2>3, <3>1 DEF TextOf
  <2>4. QED
    BY <2>2, <2>3
<1>6. PICK l \in Seq(Bytes) : /\ l = Lines(bs) /\ Len(l) = 3 * N
                              /\ \A i \in 0..(N - 1) : l[3 * i + 1] = bs[i + 1] /\ l[3 * i + 2] = CR /\ l[3 * i + 3] = LF
  BY <1>3, <1>4, LinesIs
<1>7. PICK e \in Seq(Bytes) : e = <<CR, LF>> /\ Len(e) = 2 /\ e[1] = CR /\ e[2] = LF
  <2>1. CR \in Bytes /\ LF \in Bytes
    BY DEF CR, LF, Bytes, Kinds
  <2>2. <<CR, LF>> \in Seq(Bytes) /\ Len(<<CR, LF>>) = 2 /\ <<CR, LF>>[1] = CR /\ <<CR, LF>>[2] = LF
    BY <2>1
  <2>3. QED
    BY <2>2
<1>8. PICK a \in Seq(Bytes) : /\ a = l \o e /\ Len(a) = 3 * N + 2
                              /\ \A k \in 1..3 * N : a[k] = l[k]
                              /\ \A k \in 1..2 : a[3 * N + k] = e[k]
  <2>1. PICK c \in Seq(Bytes) : c = l \o e /\ Joins(c, l, e)
    BY BytesJoin
  <2>2. Len(l) = 3 * N /\ Len(e) = 2
    BY <1>6, <1>7
  <2>3. Len(c) = 3 * N + 2 /\ (\A k \in 1..3 * N : c[k] = l[k]) /\ \A k \in 1..2 : c[3 * N + k] = e[k]
    BY <2>1, <2>2 DEF Joins
  <2>4. QED
    BY <2>1, <2>3
<1>9. PICK b \in Seq(Bytes) : b = r.body /\ Len(b) = m
  BY <1>1, <1>2
<1>10. PICK w \in Seq(Bytes) : /\ w = a \o b /\ Len(w) = 3 * N + 2 + m
                               /\ \A k \in 1..(3 * N + 2) : w[k] = a[k]
                               /\ \A k \in 1..m : w[3 * N + 2 + k] = b[k]
  <2>1. PICK c \in Seq(Bytes) : c = a \o b /\ Joins(c, a, b)
    BY BytesJoin
  <2>2. Len(a) = 3 * N + 2 /\ Len(b) = m
    BY <1>8, <1>9
  <2>3. /\ Len(c) = 3 * N + 2 + m /\ \A k \in 1..(3 * N + 2) : c[k] = a[k]
        /\ \A k \in 1..m : c[3 * N + 2 + k] = b[k]
    BY <2>1, <2>2 DEF Joins
  <2>4. QED
    BY <2>1, <2>3
<1>11. w = Wire(r)
  BY <1>3, <1>6, <1>7, <1>8, <1>9, <1>10 DEF Wire
<1>12. NLines(r) = N /\ WireLen(r) = 3 * N + 2 + m
  BY <1>1, <1>4 DEF NLines, WireLen
<1>13. \A i \in 0..(N - 1) : w[3 * i + 1] = TextOf(r, i) /\ w[3 * i + 2] = CR /\ w[3 * i + 3] = LF
  <2>1. TAKE i \in 0..(N - 1)
  <2>2. 3 * i + 1 \in 1..3 * N /\ 3 * i + 2 \in 1..3 * N /\ 3 * i + 3 \in 1..3 * N
    OBVIOUS
  <2>3. \A k \in 1..3 * N : w[k] = l[k]
    BY <1>8, <1>10
  <2>4. QED
    BY <1>5, <1>6, <2>2, <2>3
<1>14. w[3 * N + 1] = CR /\ w[3 * N + 2] = LF
  <2>1. 3 * N + 1 \in 1..(3 * N + 2) /\ 3 * N + 2 \in 1..(3 * N + 2) /\ 1 \in 1..2 /\ 2 \in 1..2
    OBVIOUS
  <2>2. QED
    BY <1>7, <1>8, <1>10, <2>1
<1>15. BeginsWith(w, r)
  BY <1>1, <1>9, <1>10, <1>12, <1>13, <1>14 DEF BeginsWith
<1>16. QED
  BY <1>10, <1>11, <1>12, <1>15

LEMMA HeadTailIs ==
  ASSUME NEW S, NEW s \in Seq(S), s # << >>
  PROVE  /\ Head(s) \in S /\ Head(s) = s[1] /\ Tail(s) \in Seq(S)
         /\ Len(s) >= 1 /\ Len(Tail(s)) = Len(s) - 1
         /\ \A k \in 1..(Len(s) - 1) : Tail(s)[k] = s[k + 1]
         /\ s = <<Head(s)>> \o Tail(s)
<1>1. PICK n \in Nat : n = Len(s)
  OBVIOUS
<1>2. n >= 1
  BY <1>1, EmptySeq
<1>3. Head(s) \in S /\ Head(s) = s[1]
  BY <1>1, <1>2
<1>4. PICK x \in S, t \in Seq(S) : x = Head(s) /\ t = Tail(s)
  BY <1>3, HeadTailProperties
<1>5. Len(t) = n - 1 /\ \A k \in 1..(n - 1) : t[k] = s[k + 1]
  BY <1>1, <1>2, <1>4, HeadTailProperties
<1>6. n - 1 \in Nat
  BY <1>2
<1>7. PICK c : c = <<x>> \o t
  OBVIOUS
<1>8. c \in Seq(S) /\ Len(c) = 1 + (n - 1) /\ c[1] = x /\ \A k \in 1..(n - 1) : c[1 + k] = t[k]
  BY <1>5, <1>6, <1>7, PrependIs
<1>9. \A k \in 1..n : c[k] = s[k]
  <2>1. TAKE k \in 1..n
  <2>2. CASE k = 1
    BY <1>3, <1>4, <1>8, <2>2
  <2>3. CASE k # 1
    <3>1. PICK j \in 1..(n - 1) : k = 1 + j /\ k = j + 1
      <4>1. k - 1 \in 1..(n - 1) /\ k = 1 + (k - 1) /\ k = k - 1 + 1
        BY <2>3
      <4>2. QED
        BY <4>1
    <3>2. c[1 + j] = t[j] /\ t[j] = s[j + 1]
      BY <1>5, <1>8
    <3>3. QED
      BY <3>1, <3>2
  <2>4. QED
    BY <2>2, <2>3
<1>10. Len(c) = n
  BY <1>2, <1>8
<1>11. c = s
  BY <1>1, <1>8, <1>9, <1>10, SeqEqual
<1>12. QED
  BY <1>1, <1>2, <1>3, <1>4, <1>5, <1>7, <1>11

Wires(rs) == [i \in DOMAIN rs |-> Wire(rs[i])]

LEMMA WiresIs ==
  ASSUME NEW rs \in Seq(Requests)
  PROVE  /\ Wires(rs) \in Seq(Seq(Bytes)) /\ Len(Wires(rs)) = Len(rs)
         /\ \A i \in 1..Len(rs) : Wires(rs)[i] = Wire(rs[i])
         /\ Stream(rs) = FlattenSeq(Wires(rs))
         /\ Stream(rs) \in Seq(Bytes) /\ Len(Stream(rs)) \in Nat
<1>1. PICK n \in Nat : n = Len(rs) /\ DOMAIN rs = 1..n
  OBVIOUS
<1>2. Wires(rs) = [i \in 1..n |-> Wire(rs[i])]
  BY <1>1 DEF Wires
<1>3. \A i \in 1..n : Wire(rs[i]) \in Seq(Bytes)
  <2>1. \A i \in 1..n : rs[i] \in Requests
    BY <1>1
  <2>2. QED
    BY <2>1, WireIs
<1>4. Wires(rs) \in [1..n -> Seq(Bytes)]
  BY <1>2, <1>3
<1>5. Wires(rs) \in Seq(Seq(Bytes)) /\ Len(Wires(rs)) = n
  BY <1>4, FunctionIsSeq
<1>6. Stream(rs) = FlattenSeq(Wires(rs))
  BY DEF Stream, Wires
<1>7. FlattenSeq(Wires(rs)) \in Seq(Bytes)
  BY <1>5, FlattenType
<1>8. QED
  BY <1>1, <1>2, <1>5, <1>6, <1>7

LEMMA StreamEmpty == Stream(<< >>) = << >>
<1>1. [i \in DOMAIN << >> |-> Wire(<< >>[i])] = << >>
  OBVIOUS
<1>2. QED
  BY <1>1, FlattenEmpty DEF Stream

(* The bytes of the first request, and those of the others behind it.      *)
LEMMA StreamIs ==
  ASSUME NEW rs \in Seq(Requests), rs # << >>
  PROVE  /\ Stream(rs) = Wire(Head(rs)) \o Stream(Tail(rs))
         /\ Len(Stream(rs)) = WireLen(Head(rs)) + Len(Stream(Tail(rs)))
         /\ BeginsWith(Stream(rs), Head(rs))
         /\ \A k \in 1..Len(Stream(Tail(rs))) : Stream(rs)[WireLen(Head(rs)) + k] = Stream(Tail(rs))[k]
<1>1. PICK r \in Requests, ts \in Seq(Requests), n \in Nat :
        /\ r = Head(rs) /\ ts = Tail(rs) /\ n = Len(ts) /\ Len(rs) = n + 1
        /\ rs[1] = r /\ \A k \in 1..n : ts[k] = rs[k + 1]
  <2>1. /\ Head(rs) \in Requests /\ Head(rs) = rs[1] /\ Tail(rs) \in Seq(Requests)
        /\ Len(rs) >= 1 /\ Len(Tail(rs)) = Len(rs) - 1
        /\ \A k \in 1..(Len(rs) - 1) : Tail(rs)[k] = rs[k + 1]
    BY HeadTailIs
  <2>2. Len(rs) - 1 \in Nat /\ Len(rs) = Len(rs) - 1 + 1
    BY <2>1
  <2>3. QED
    BY <2>1, <2>2
<1>2. PICK w \in Seq(Bytes), ww \in Seq(Seq(Bytes)) : w = Wire(r) /\ ww = Wires(ts) /\ Len(ww) = n
  BY <1>1, WireIs, WiresIs
<1>3. Wires(rs) = <<w>> \o ww
  <2>1. PICK T : T = Seq(Bytes)
    OBVIOUS
  <2>2. w \in T /\ ww \in Seq(T)
    BY <2>1
  <2>3. PICK c \in Seq(T) : /\ c = <<w>> \o ww /\ Len(c) = 1 + n /\ c[1] = w
                            /\ \A k \in 1..n : c[1 + k] = ww[k]
    <3>1. /\ <<w>> \o ww \in Seq(T) /\ Len(<<w>> \o ww) = 1 + n /\ (<<w>> \o ww)[1] = w
          /\ \A k \in 1..n : (<<w>> \o ww)[1 + k] = ww[k]
      <4>1. n = Len(ww)
        BY <1>2
      <4>2. QED
        BY <2>2, <4>1, PrependIs
    <3>2. QED
      BY <3>1
  <2>4. Wires(rs) \in Seq(T) /\ Len(Wires(rs)) = n + 1 /\ \A k \in 1..(n + 1) : Wires(rs)[k] = Wire(rs[k])
    BY <1>1, <2>1, WiresIs
  <2>5. \A k \in 1..(n + 1) : Wires(rs)[k] = c[k]
    <3>1. TAKE k \in 1..(n + 1)
    <3>2. CASE k = 1
      BY <1>1, <1>2, <2>3, <2>4, <3>2
    <3>3. CASE k # 1
      <4>1. PICK j \in 1..n : k = 1 + j /\ k = j + 1
        <5>1. k - 1 \in 1..n /\ k = 1 + (k - 1) /\ k = k - 1 + 1
          BY <3>3
        <5>2. QED
          BY <5>1
      <4>2. c[k] = ww[j] /\ ww[j] = Wire(ts[j]) /\ ts[j] = rs[k]
        BY <1>1, <1>2, <2>3, <4>1, WiresIs
      <4>3. QED
        BY <2>4, <4>2
    <3>4. QED
      BY <3>2, <3>3
  <2>6. Len(c) = Len(Wires(rs)) /\ Len(Wires(rs)) = n + 1
    BY <2>3, <2>4
  <2>7. QED
    BY <2>3, <2>4, <2>5, <2>6, SeqEqual
<1>4. FlattenSeq(<<w>> \o ww) = w \o FlattenSeq(ww)
  BY FlattenPrepend
<1>5. Stream(rs) = FlattenSeq(Wires(rs)) /\ Stream(ts) = FlattenSeq(ww)
  BY <1>2, WiresIs
<1>6. Stream(rs) = w \o Stream(ts)
  BY <1>3, <1>4, <1>5
<1>7. PICK t \in Seq(Bytes), W \in Seq(Bytes) : t = Stream(ts) /\ W = Stream(rs)
  BY WiresIs
<1>8. Joins(W, w, t)
  BY <1>6, <1>7, BytesJoin
<1>9. PICK l \in Nat, m \in Nat : l = WireLen(r) /\ Len(w) = l /\ m = Len(t)
  BY <1>2, WireIs, RequestIs
<1>10. Len(W) = l + m /\ (\A k \in 1..l : W[k] = w[k]) /\ \A k \in 1..m : W[l + k] = t[k]
  BY <1>8, <1>9 DEF Joins
<1>11. BeginsWith(W, r)
  <2>1. PICK N \in Nat, b \in Nat : N = NLines(r) /\ b = Len(r.body) /\ l = 3 * N + 2 + b
    BY <1>9, RequestIs DEF WireLen
  <2>2. \A i \in 0..(N - 1) : 3 * i + 1 \in 1..l /\ 3 * i + 2 \in 1..l /\ 3 * i + 3 \in 1..l
    <3>1. TAKE i \in 0..(N - 1)
    <3>2. PICK j \in Nat : j = 3 * i /\ j + 3 <= 3 * N
      <4>1. 3 * i \in Nat /\ 3 * i + 3 <= 3 * N
        OBVIOUS
      <4>2. QED
        BY <4>1
    <3>3. PICK M \in Nat : M = 3 * N
      OBVIOUS
    <3>4. j + 3 <= M /\ l = M + 2 + b
      <4>1. l = M + 2 + b
        BY <2>1, <3>3
      <4>2. j + 3 <= M
        BY <3>2, <3>3
      <4>3. QED
        BY <4>1, <4>2
    <3>5. j + 1 \in 1..l /\ j + 2 \in 1..l /\ j + 3 \in 1..l
      BY <3>4
    <3>6. QED
      BY <3>2, <3>5
  <2>3. 3 * N + 1 \in 1..l /\ 3 * N + 2 \in 1..l /\ \A k \in 1..b : 3 * N + 2 + k \in 1..l
    <3>1. PICK M \in Nat : M = 3 * N
      OBVIOUS
    <3>2. l = M + 2 + b
      BY <2>1, <3>1
    <3>3. M + 1 \in 1..l /\ M + 2 \in 1..l /\ \A k \in 1..b : M + 2 + k \in 1..l
      BY <3>2
    <3>4. QED
      BY <3>1, <3>3
  <2>4. BeginsWith(w, r)
    BY <1>2, WireIs
  <2>5. QED
    BY <1>10, <2>1, <2>2, <2>3, <2>4 DEF BeginsWith
<1>12. QED
  BY <1>1, <1>2, <1>6, <1>7, <1>9, <1>10, <1>11

-----------------------------------------------------------------------------
(***************************************************************************)
(* Where the parser is in the first request r of the bytes W still to be   *)
(* handed over: behind its first j lines, or behind its empty line.        *)
(***************************************************************************)
BadLine(r, i) ==
  IF i = 0 THEN Kind(TextOf(r, i)) \notin {"get", "post"} ELSE Kind(TextOf(r, i)) \notin {"cl", "hdr"}

GoodFields(r, j)   == {i \in 1..(j - 1) : ~BadLine(r, i)}
LengthFields(r, j) == {i \in 1..(j - 1) : Kind(TextOf(r, i)) = "cl"}
LengthAt(r, j) ==
  IF LengthFields(r, j) = {} THEN 0 ELSE Number(TextOf(r, Max(LengthFields(r, j))))
SliceAt(i) == <<3 * i, 3 * i + 1>>

(* The request object behind the first j lines of r.                       *)
RequestAt(r, j) ==
  [line          |-> IF j = 0 THEN NoSlice ELSE SliceAt(0),
   headers       |-> {SliceAt(i) : i \in GoodFields(r, j)},
   contentLength |-> LengthAt(r, j),
   contents      |-> NoSlice,
   malformed     |-> \E i \in 0..(j - 1) : BadLine(r, i)]

(* A scan that starts behind j lines and finds the ends of J, all it has.  *)
Scans(p, r, W, b, n, L, j, J) ==
  /\ b \in Nat /\ n \in Nat /\ L \in Nat /\ j \in Nat /\ J \in Nat
  /\ p.bufferBegin = b /\ p.bufferEnd = b + n /\ p.bufferProcessed = b + 3 * j
  /\ L = NLines(r) /\ 1 <= L /\ j <= J /\ J <= L
  /\ 3 * J <= n /\ (J < L => n < 3 * J + 3)
  /\ \A k \in (3 * j)..(n - 1) : p.buffer[b + k] = W[k + 1]
  /\ BeginsWith(W, r)
  /\ r \in Requests
  /\ ParserOK(p)

LEMMA ThreeParts ==
  ASSUME NEW x \in Nat
  PROVE  \E i \in Nat : x = 3 * i \/ x = 3 * i + 1 \/ x = 3 * i + 2
<1>1. PICK i \in Nat : i = x \div 3
  OBVIOUS
<1>2. x = 3 * i \/ x = 3 * i + 1 \/ x = 3 * i + 2
  BY <1>1
<1>3. QED
  BY <1>2

(* The bytes of a line and of the empty line, in the buffer.               *)
LEMMA BytesOfLine ==
  ASSUME NEW p, NEW r, NEW W, NEW b, NEW n, NEW L, NEW j, NEW J, Scans(p, r, W, b, n, L, j, J)
  PROVE  /\ \A i \in Nat : j <= i /\ i < L =>
              /\ 3 * i < n => p.buffer[b + 3 * i] = TextOf(r, i) /\ TextOf(r, i) # CR /\ TextOf(r, i) # LF
              /\ 3 * i + 1 < n => p.buffer[b + 3 * i + 1] = CR
              /\ 3 * i + 2 < n => p.buffer[b + 3 * i + 2] = LF
         /\ 3 * L < n => p.buffer[b + 3 * L] = CR
         /\ 3 * L + 1 < n => p.buffer[b + 3 * L + 1] = LF
<1>1. /\ b \in Nat /\ n \in Nat /\ L \in Nat /\ j \in Nat /\ J \in Nat /\ L = NLines(r) /\ 1 <= L
      /\ j <= J /\ J <= L
      /\ \A k \in (3 * j)..(n - 1) : p.buffer[b + k] = W[k + 1]
      /\ BeginsWith(W, r) /\ r \in Requests
  BY DEF Scans
<1>2. /\ \A i \in 0..(L - 1) : W[3 * i + 1] = TextOf(r, i) /\ W[3 * i + 2] = CR /\ W[3 * i + 3] = LF
      /\ W[3 * L + 1] = CR /\ W[3 * L + 2] = LF
  BY <1>1 DEF BeginsWith
<1>3. \A i \in 0..(L - 1) : TextOf(r, i) # CR /\ TextOf(r, i) # LF
  BY <1>1, RequestIs, TextIs
<1>4. ASSUME NEW k \in Nat, 3 * j <= k, k < n
      PROVE  p.buffer[b + k] = W[k + 1]
  <2>1. k \in (3 * j)..(n - 1)
    BY <1>1, <1>4
  <2>2. QED
    BY <1>1, <2>1
<1>5. ASSUME NEW i \in Nat, j <= i, i < L
      PROVE  /\ 3 * i < n => p.buffer[b + 3 * i] = TextOf(r, i) /\ TextOf(r, i) # CR /\ TextOf(r, i) # LF
             /\ 3 * i + 1 < n => p.buffer[b + 3 * i + 1] = CR
             /\ 3 * i + 2 < n => p.buffer[b + 3 * i + 2] = LF
  <2>1. i \in 0..(L - 1)
    BY <1>1, <1>5
  <2>2. PICK x \in Nat, y \in Nat, z \in Nat : /\ x = 3 * i /\ y = x + 1 /\ z = x + 2
                                               /\ 3 * j <= x /\ 3 * j <= y /\ 3 * j <= z
    BY <1>1, <1>5
  <2>3. x < n => p.buffer[b + x] = W[x + 1]
    BY <1>4, <2>2
  <2>4. y < n => p.buffer[b + y] = W[y + 1]
    BY <1>4, <2>2
  <2>5. z < n => p.buffer[b + z] = W[z + 1]
    BY <1>4, <2>2
  <2>6. /\ 3 * i = x /\ b + 3 * i + 1 = b + y /\ b + 3 * i + 2 = b + z /\ y + 1 = 3 * i + 2 /\ z + 1 = 3 * i + 3
        /\ 3 * i + 1 = y /\ 3 * i + 2 = z /\ b + 3 * i = b + x /\ x + 1 = 3 * i + 1
    BY <1>1, <2>2
  <2>7. W[x + 1] = TextOf(r, i) /\ W[y + 1] = CR /\ W[z + 1] = LF
    BY <1>2, <2>1, <2>6
  <2>8. TextOf(r, i) # CR /\ TextOf(r, i) # LF
    BY <1>3, <2>1
  <2>9. QED
    BY <2>3, <2>4, <2>5, <2>6, <2>7, <2>8
<1>6. (3 * L < n => p.buffer[b + 3 * L] = CR) /\ (3 * L + 1 < n => p.buffer[b + 3 * L + 1] = LF)
  <2>1. PICK x \in Nat, y \in Nat : x = 3 * L /\ y = x + 1 /\ 3 * j <= x /\ 3 * j <= y
    BY <1>1
  <2>2. x < n => p.buffer[b + x] = W[x + 1]
    BY <1>4, <2>1
  <2>3. y < n => p.buffer[b + y] = W[y + 1]
    BY <1>4, <2>1
  <2>4. /\ b + 3 * L = b + x /\ b + 3 * L + 1 = b + y /\ x + 1 = 3 * L + 1 /\ y + 1 = 3 * L + 2
        /\ 3 * L = x /\ 3 * L + 1 = y
    BY <1>1, <2>1
  <2>5. QED
    BY <1>2, <2>2, <2>3, <2>4
<1>7. QED
  BY <1>5, <1>6

(* The line ends that a scan can find.                                     *)
LEMMA LineEnds ==
  ASSUME NEW p, NEW r, NEW W, NEW b, NEW n, NEW L, NEW j, NEW J, Scans(p, r, W, b, n, L, j, J)
  PROVE  /\ \A i \in j..(J - 1) : b + 3 * i + 1 \in CRLFs(p)
         /\ 3 * L + 2 <= n => b + 3 * L \in CRLFs(p)
         /\ \A c \in CRLFs(p) : /\ c \in Nat /\ c + 2 <= b + n
                                /\ \/ \E i \in j..(J - 1) : c = b + 3 * i + 1
                                   \/ c = b + 3 * L
                                   \/ c >= b + 3 * L + 2
<1>1. /\ b \in Nat /\ n \in Nat /\ L \in Nat /\ j \in Nat /\ J \in Nat
      /\ j <= J /\ J <= L /\ 3 * J <= n /\ (J < L => n < 3 * J + 3)
      /\ p.bufferEnd = b + n /\ p.bufferProcessed = b + 3 * j
  BY DEF Scans
<1>2. CRLFs(p) = {i \in (b + 3 * j)..(b + n - 2) : p.buffer[i] = CR /\ p.buffer[i + 1] = LF}
  BY <1>1 DEF CRLFs
<1>3. CR # LF
  BY DEF CR, LF
<1>4. ASSUME NEW i \in j..(J - 1) PROVE b + 3 * i + 1 \in CRLFs(p)
  <2>1. i \in Nat /\ j <= i /\ i < L /\ 3 * i + 1 < n /\ 3 * i + 2 < n
    BY <1>1
  <2>2. p.buffer[b + 3 * i + 1] = CR /\ p.buffer[b + 3 * i + 2] = LF
    BY <2>1, BytesOfLine
  <2>3. b + 3 * i + 1 \in (b + 3 * j)..(b + n - 2) /\ b + 3 * i + 1 + 1 = b + 3 * i + 2
    BY <1>1, <2>1
  <2>4. QED
    BY <1>2, <2>2, <2>3
<1>5. ASSUME 3 * L + 2 <= n PROVE b + 3 * L \in CRLFs(p)
  <2>1. 3 * L < n /\ 3 * L + 1 < n
    BY <1>1, <1>5
  <2>2. p.buffer[b + 3 * L] = CR /\ p.buffer[b + 3 * L + 1] = LF
    BY <2>1, BytesOfLine
  <2>3. b + 3 * L \in (b + 3 * j)..(b + n - 2)
    BY <1>1, <1>5
  <2>4. QED
    BY <1>2, <2>2, <2>3
<1>6. ASSUME NEW c \in CRLFs(p)
      PROVE  /\ c \in Nat /\ c + 2 <= b + n
             /\ \/ \E i \in j..(J - 1) : c = b + 3 * i + 1
                \/ c = b + 3 * L
                \/ c >= b + 3 * L + 2
  <2>1. c \in (b + 3 * j)..(b + n - 2) /\ p.buffer[c] = CR /\ p.buffer[c + 1] = LF
    BY <1>2
  <2>2. c \in Nat /\ c + 2 <= b + n
    BY <1>1, <2>1
  <2>3. PICK x \in Nat : c = b + x /\ x + 2 <= n /\ 3 * j <= x
    <3>1. c - b \in Nat /\ c = b + (c - b) /\ c - b + 2 <= n /\ 3 * j <= c - b
      BY <1>1, <2>1
    <3>2. QED
      BY <3>1
  <2>4. PICK i \in Nat : x = 3 * i \/ x = 3 * i + 1 \/ x = 3 * i + 2
    BY ThreeParts
  <2>5. j <= i
    BY <1>1, <2>3, <2>4
  <2>6. CASE i < L /\ x = 3 * i
    <3>1. 3 * i < n
      BY <1>1, <2>3, <2>6
    <3>2. p.buffer[b + 3 * i] # CR
      BY <2>5, <2>6, <3>1, BytesOfLine
    <3>3. QED
      BY <2>1, <2>3, <2>6, <3>2
  <2>7. CASE i < L /\ x = 3 * i + 1
    <3>1. i \in j..(J - 1)
      BY <1>1, <2>3, <2>5, <2>7
    <3>2. c = b + 3 * i + 1
      BY <1>1, <2>3, <2>7
    <3>3. QED
      BY <2>2, <3>1, <3>2
  <2>8. CASE i < L /\ x = 3 * i + 2
    <3>1. 3 * i + 2 < n /\ b + 3 * i + 2 = c
      BY <1>1, <2>3, <2>8
    <3>2. p.buffer[b + 3 * i + 2] = LF
      BY <2>5, <2>8, <3>1, BytesOfLine
    <3>3. QED
      BY <1>3, <2>1, <3>1, <3>2
  <2>9. CASE i >= L
    <3>1. x = 3 * L \/ x = 3 * L + 1 \/ x >= 3 * L + 2
      BY <1>1, <2>4, <2>9
    <3>2. CASE x = 3 * L + 1
      <4>1. 3 * L + 1 < n /\ b + 3 * L + 1 = c
        BY <1>1, <2>3, <3>2
      <4>2. QED
        BY <1>3, <2>1, <4>1, BytesOfLine
    <3>3. CASE x = 3 * L
      <4>1. c = b + 3 * L
        BY <2>3, <3>3
      <4>2. QED
        BY <2>2, <4>1
    <3>4. CASE x >= 3 * L + 2
      <4>1. c >= b + 3 * L + 2
        BY <1>1, <2>3, <3>4
      <4>2. QED
        BY <2>2, <4>1
    <3>5. QED
      BY <3>1, <3>2, <3>3, <3>4
  <2>10. QED
    BY <1>1, <2>4, <2>6, <2>7, <2>8, <2>9
<1>7. QED
  BY <1>4, <1>5, <1>6

LEMMA MaxIs ==
  ASSUME NEW S \in SUBSET Nat, NEW m \in S, \A x \in S : x <= m
  PROVE  Max(S) = m
<1>1. m \in Nat /\ S # {}
  OBVIOUS
<1>2. Max(S) \in S /\ \A x \in S : x <= Max(S)
  BY <1>1, MaxOfBounded
<1>3. Max(S) \in Nat /\ Max(S) <= m /\ m <= Max(S)
  BY <1>2
<1>4. QED
  BY <1>1, <1>3

LEMMA MinIs ==
  ASSUME NEW S \in SUBSET Nat, NEW m \in S, \A x \in S : m <= x
  PROVE  Min(S) = m
<1>1. Min(S) = CHOOSE x \in S : \A y \in S : x <= y
  BY DEF Min
<1>2. \A x \in S : (\A y \in S : x <= y) => x = m
  OBVIOUS
<1>3. QED
  BY <1>1, <1>2, Zenon

(* A line starts behind the line before it.                                *)
LEMMA StartsAt ==
  ASSUME NEW p, NEW r, NEW W, NEW b, NEW n, NEW L, NEW j, NEW J, Scans(p, r, W, b, n, L, j, J),
         NEW i \in Nat, j <= i, i <= J,
         NEW c \in CRLFs(p), b + 3 * i <= c, c <= b + 3 * i + 1
  PROVE  LineStart(p, c) = b + 3 * i
<1>1. /\ b \in Nat /\ n \in Nat /\ L \in Nat /\ j \in Nat /\ J \in Nat
      /\ j <= J /\ J <= L /\ 3 * J <= n /\ p.bufferProcessed = b + 3 * j
  BY DEF Scans
<1>2. PICK S : S = {p.bufferProcessed} \cup {k + 2 : k \in {k \in CRLFs(p) : k < c}}
  OBVIOUS
<1>3. \A k \in CRLFs(p) : /\ k \in Nat
                          /\ \/ \E h \in j..(J - 1) : k = b + 3 * h + 1
                             \/ k = b + 3 * L
                             \/ k >= b + 3 * L + 2
  BY LineEnds
<1>4. S \in SUBSET Nat
  BY <1>1, <1>2, <1>3
<1>5. \A k \in CRLFs(p) : k < c => k + 2 <= b + 3 * i
  <2>1. SUFFICES ASSUME NEW k \in CRLFs(p), k < c PROVE k + 2 <= b + 3 * i
    OBVIOUS
  <2>2. k \in Nat /\ c \in Nat
    BY <1>3
  <2>3. k < b + 3 * i + 1 /\ 3 * i <= 3 * L
    BY <1>1, <2>1, <2>2
  <2>4. CASE \E h \in j..(J - 1) : k = b + 3 * h + 1
    BY <1>1, <2>2, <2>3, <2>4
  <2>5. CASE k >= b + 3 * L + 2
    BY <1>1, <2>2, <2>3, <2>5
  <2>6. CASE k = b + 3 * L
    <3>1. i = L
      BY <1>1, <2>2, <2>3, <2>6
    <3>2. c # b + 3 * L + 1
      <4>1. SUFFICES ASSUME c = b + 3 * L + 1 PROVE FALSE
        OBVIOUS
      <4>2. c \notin {b + 3 * L} /\ ~(c >= b + 3 * L + 2) /\ \A h \in j..(J - 1) : c # b + 3 * h + 1
        BY <1>1, <4>1
      <4>3. QED
        BY <1>3, <4>2
    <3>3. QED
      BY <1>1, <2>1, <2>2, <2>6, <3>1, <3>2
  <2>7. QED
    BY <1>3, <2>4, <2>5, <2>6
<1>6. PICK m \in Nat : m = b + 3 * i
  BY <1>1
<1>7. \A x \in S : x <= m
  BY <1>1, <1>2, <1>5, <1>6
<1>8. m \in S
  <2>1. CASE i = j
    BY <1>1, <1>2, <1>6, <2>1
  <2>2. CASE i # j
    <3>1. PICK h \in j..(J - 1) : i = h + 1
      <4>1. i - 1 \in j..(J - 1) /\ i = i - 1 + 1
        BY <1>1, <2>2
      <4>2. QED
        BY <4>1
    <3>2. PICK k \in CRLFs(p) : k = b + 3 * h + 1
      BY LineEnds
    <3>3. k < c /\ k + 2 = m /\ c \in Nat
      BY <1>1, <1>3, <1>6, <3>1, <3>2
    <3>4. QED
      BY <1>2, <3>3
  <2>3. QED
    BY <2>1, <2>2
<1>9. Max(S) = m
  BY <1>4, <1>7, <1>8, MaxIs
<1>10. QED
  BY <1>2, <1>6, <1>9 DEF LineStart

(* The empty line, when it has been received.                              *)
LEMMA EmptyLinesAre ==
  ASSUME NEW p, NEW r, NEW W, NEW b, NEW n, NEW L, NEW j, NEW J, Scans(p, r, W, b, n, L, j, J)
  PROVE  /\ 3 * L + 2 <= n => b + 3 * L \in EmptyLines(p)
         /\ \A c \in EmptyLines(p) : c >= b + 3 * L /\ 3 * L + 2 <= n
<1>1. /\ b \in Nat /\ n \in Nat /\ L \in Nat /\ j \in Nat /\ J \in Nat
      /\ j <= J /\ J <= L /\ 3 * J <= n /\ (J < L => n < 3 * J + 3)
  BY DEF Scans
<1>2. ASSUME 3 * L + 2 <= n PROVE b + 3 * L \in EmptyLines(p)
  <2>1. J = L
    BY <1>1, <1>2
  <2>2. PICK c \in CRLFs(p) : c = b + 3 * L
    BY <1>2, LineEnds
  <2>3. b + 3 * L <= c /\ c <= b + 3 * L + 1 /\ j <= L /\ L <= J
    BY <1>1, <2>1, <2>2
  <2>4. LineStart(p, c) = b + 3 * L
    BY <1>1, <2>3, StartsAt
  <2>5. QED
    BY <2>2, <2>4 DEF EmptyLines
<1>3. ASSUME NEW c \in EmptyLines(p) PROVE c >= b + 3 * L /\ 3 * L + 2 <= n
  <2>1. c \in CRLFs(p) /\ LineStart(p, c) = c
    BY DEF EmptyLines
  <2>2. c \in Nat /\ c + 2 <= b + n
    BY <2>1, LineEnds
  <2>3. ~ \E i \in j..(J - 1) : c = b + 3 * i + 1
    <3>1. SUFFICES ASSUME NEW i \in j..(J - 1), c = b + 3 * i + 1 PROVE FALSE
      OBVIOUS
    <3>2. i \in Nat /\ j <= i /\ i <= J /\ b + 3 * i <= c /\ c <= b + 3 * i + 1
      BY <1>1, <3>1
    <3>3. LineStart(p, c) = b + 3 * i
      BY <2>1, <3>2, StartsAt
    <3>4. QED
      BY <1>1, <2>1, <2>2, <3>1, <3>3
  <2>4. c = b + 3 * L \/ c >= b + 3 * L + 2
    BY <2>1, <2>3, LineEnds
  <2>5. QED
    BY <1>1, <2>2, <2>4
<1>4. QED
  BY <1>2, <1>3

(* The lines of text that the scan visits, and what it visits in all.      *)
LEMMA TextLinesAre ==
  ASSUME NEW p, NEW r, NEW W, NEW b, NEW n, NEW L, NEW j, NEW J, Scans(p, r, W, b, n, L, j, J)
  PROVE  /\ TextLines(p) = {b + 3 * i + 1 : i \in j..(J - 1)}
         /\ Visited(p) = TextLines(p) \cup (IF 3 * L + 2 <= n THEN {b + 3 * L} ELSE {})
<1>1. /\ b \in Nat /\ n \in Nat /\ L \in Nat /\ j \in Nat /\ J \in Nat
      /\ j <= J /\ J <= L /\ 3 * J <= n /\ (J < L => n < 3 * J + 3)
  BY DEF Scans
<1>2. TextLines(p) = {i \in CRLFs(p) : \A e \in EmptyLines(p) : i < e}
  BY DEF TextLines
<1>3. Visited(p) = {i \in CRLFs(p) : \A e \in EmptyLines(p) : i <= e}
  BY DEF Visited
<1>4. /\ 3 * L + 2 <= n => b + 3 * L \in EmptyLines(p)
      /\ \A c \in EmptyLines(p) : c >= b + 3 * L /\ 3 * L + 2 <= n
  BY EmptyLinesAre
<1>5. /\ \A i \in j..(J - 1) : b + 3 * i + 1 \in CRLFs(p)
      /\ 3 * L + 2 <= n => b + 3 * L \in CRLFs(p)
      /\ \A c \in CRLFs(p) : /\ c \in Nat /\ c + 2 <= b + n
                             /\ \/ \E i \in j..(J - 1) : c = b + 3 * i + 1
                                \/ c = b + 3 * L
                                \/ c >= b + 3 * L + 2
  BY LineEnds
<1>6. EmptyLines(p) \subseteq CRLFs(p)
  BY DEF EmptyLines
<1>7. \A e \in EmptyLines(p) : e \in Nat
  BY <1>5, <1>6
<1>8. ASSUME NEW i \in j..(J - 1)
      PROVE  b + 3 * i + 1 < b + 3 * L /\ b + 3 * i + 1 \in Nat
  BY <1>1
<1>9. \A i \in j..(J - 1) : b + 3 * i + 1 \in TextLines(p) /\ b + 3 * i + 1 \in Visited(p)
  <2>1. TAKE i \in j..(J - 1)
  <2>2. PICK x \in Nat, y \in Nat : x = b + 3 * i + 1 /\ y = b + 3 * L /\ x < y
    BY <1>1, <1>8
  <2>3. \A e \in EmptyLines(p) : e >= y
    BY <1>4, <2>2
  <2>4. \A e \in EmptyLines(p) : x < e /\ x <= e
    BY <1>7, <2>2, <2>3
  <2>5. x \in CRLFs(p)
    BY <1>5, <2>2
  <2>6. QED
    BY <1>2, <1>3, <2>2, <2>4, <2>5
<1>10. \A c \in CRLFs(p) : c = b + 3 * L \/ c >= b + 3 * L + 2 => 3 * L + 2 <= n
  <2>1. TAKE c \in CRLFs(p)
  <2>2. HAVE c = b + 3 * L \/ c >= b + 3 * L + 2
  <2>3. c \in Nat /\ c + 2 <= b + n
    BY <1>5
  <2>4. QED
    BY <1>1, <2>2, <2>3
<1>11. \A c \in TextLines(p) : \E i \in j..(J - 1) : c = b + 3 * i + 1
  <2>1. TAKE c \in TextLines(p)
  <2>2. SUFFICES ASSUME ~ \E i \in j..(J - 1) : c = b + 3 * i + 1 PROVE FALSE
    OBVIOUS
  <2>3. c \in CRLFs(p) /\ c \in Nat
    BY <1>2, <1>5
  <2>4. c = b + 3 * L \/ c >= b + 3 * L + 2
    BY <1>5, <2>2, <2>3
  <2>5. b + 3 * L \in EmptyLines(p)
    BY <1>4, <1>10, <2>3, <2>4
  <2>6. c < b + 3 * L
    BY <1>2, <2>5
  <2>7. QED
    BY <1>1, <2>3, <2>4, <2>6
<1>12. \A c \in Visited(p) : c \in TextLines(p) \/ (c = b + 3 * L /\ 3 * L + 2 <= n)
  <2>1. TAKE c \in Visited(p)
  <2>2. SUFFICES ASSUME c \notin TextLines(p) PROVE c = b + 3 * L /\ 3 * L + 2 <= n
    OBVIOUS
  <2>3. c \in CRLFs(p) /\ c \in Nat
    BY <1>3, <1>5
  <2>4. c = b + 3 * L \/ c >= b + 3 * L + 2
    BY <1>5, <1>9, <2>2, <2>3
  <2>5. 3 * L + 2 <= n
    BY <1>10, <2>3, <2>4
  <2>6. b + 3 * L \in EmptyLines(p)
    BY <1>4, <2>5
  <2>7. c <= b + 3 * L
    BY <1>3, <2>6
  <2>8. c = b + 3 * L
    BY <1>1, <2>3, <2>4, <2>7
  <2>9. QED
    BY <2>5, <2>8
<1>13. 3 * L + 2 <= n => b + 3 * L \in Visited(p)
  <2>1. HAVE 3 * L + 2 <= n
  <2>2. PICK x \in Nat : x = b + 3 * L
    BY <1>1
  <2>3. \A e \in EmptyLines(p) : x <= e
    BY <1>4, <1>7, <2>2
  <2>4. x \in CRLFs(p)
    BY <1>5, <2>1, <2>2
  <2>5. QED
    BY <1>3, <2>2, <2>3, <2>4
<1>14. TextLines(p) = {b + 3 * i + 1 : i \in j..(J - 1)}
  BY <1>9, <1>11
<1>15. TextLines(p) \subseteq Visited(p)
  BY <1>9, <1>11
<1>16. CASE 3 * L + 2 <= n
  BY <1>12, <1>13, <1>14, <1>15, <1>16
<1>17. CASE ~(3 * L + 2 <= n)
  BY <1>12, <1>14, <1>15, <1>17
<1>18. QED
  BY <1>16, <1>17

(* What the parser knows of the first j lines of r.                        *)
Knows(p, r, b, j) ==
  /\ p.request = RequestAt(r, j)
  /\ \A i \in 0..(j - 1) : p.buffer[b + 3 * i] = TextOf(r, i)

LEMMA HeaderLinesAre ==
  ASSUME NEW p, NEW r, NEW W, NEW b, NEW n, NEW L, NEW j, NEW J, Scans(p, r, W, b, n, L, j, J),
         Knows(p, r, b, j)
  PROVE  /\ RequestLine(p) = IF j = 0 /\ J > 0 THEN {b + 1} ELSE {}
         /\ \A c : c \in HeaderLines(p) <=> \E i \in j..(J - 1) : i >= 1 /\ c = b + 3 * i + 1
<1>1. b \in Nat /\ n \in Nat /\ L \in Nat /\ j \in Nat /\ J \in Nat /\ j <= J
  BY DEF Scans
<1>2. p.request.line = NoSlice <=> j = 0
  <2>1. p.request.line = IF j = 0 THEN NoSlice ELSE SliceAt(0)
    BY DEF Knows, RequestAt
  <2>2. SliceAt(0) # NoSlice
    BY DEF SliceAt, NoSlice
  <2>3. QED
    BY <2>1, <2>2
<1>3. PICK T : T = TextLines(p)
  OBVIOUS
<1>4. T = {b + 3 * i + 1 : i \in j..(J - 1)}
  BY <1>3, TextLinesAre
<1>5. RequestLine(p) = {i \in T : p.request.line = NoSlice /\ \A k \in T : i <= k}
  BY <1>3 DEF RequestLine
<1>6. CASE j = 0 /\ J > 0
  <2>1. b + 1 \in T
    <3>1. 0 \in j..(J - 1) /\ b + 3 * 0 + 1 = b + 1
      BY <1>1, <1>6
    <3>2. QED
      BY <1>4, <3>1
  <2>2. \A k \in T : k \in Nat /\ b + 1 <= k
    BY <1>1, <1>4
  <2>3. RequestLine(p) = {b + 1}
    BY <1>1, <1>2, <1>5, <1>6, <2>1, <2>2
  <2>4. HeaderLines(p) = T \ {b + 1}
    BY <1>3, <2>3 DEF HeaderLines
  <2>5. \A i \in j..(J - 1) : b + 3 * i + 1 # b + 1 <=> i >= 1
    BY <1>1, <1>6
  <2>6. \A c : c \in HeaderLines(p) <=> \E i \in j..(J - 1) : i >= 1 /\ c = b + 3 * i + 1
    BY <1>4, <2>4, <2>5
  <2>7. QED
    BY <1>6, <2>3, <2>6
<1>7. CASE ~(j = 0 /\ J > 0)
  <2>1. j # 0 \/ T = {}
    <3>1. j = 0 => j..(J - 1) = {}
      BY <1>1, <1>7
    <3>2. QED
      BY <1>4, <3>1
  <2>2. RequestLine(p) = {}
    BY <1>2, <1>5, <2>1
  <2>3. HeaderLines(p) = T
    BY <1>3, <2>2 DEF HeaderLines
  <2>4. \A i \in j..(J - 1) : i >= 1
    BY <1>1, <1>7
  <2>5. \A c : c \in HeaderLines(p) <=> \E i \in j..(J - 1) : i >= 1 /\ c = b + 3 * i + 1
    BY <1>4, <2>3, <2>4
  <2>6. QED
    BY <1>7, <2>2, <2>5
<1>8. QED
  BY <1>6, <1>7

(* The text of a line that a scan visits.                                  *)
LEMMA LineIs ==
  ASSUME NEW p, NEW r, NEW W, NEW b, NEW n, NEW L, NEW j, NEW J, Scans(p, r, W, b, n, L, j, J),
         NEW i \in j..(J - 1)
  PROVE  /\ b + 3 * i + 1 \in CRLFs(p) /\ LineStart(p, b + 3 * i + 1) = b + 3 * i
         /\ p.buffer[b + 3 * i] = TextOf(r, i)
         /\ KindsIn(p, b + 3 * i + 1) = {Kind(TextOf(r, i))}
         /\ SliceOf(p, b + 3 * i + 1) = SliceAt(i)
<1>1. /\ b \in Nat /\ n \in Nat /\ L \in Nat /\ j \in Nat /\ J \in Nat /\ j <= J /\ J <= L
      /\ 3 * J <= n /\ p.bufferBegin = b
  BY DEF Scans
<1>2. PICK c \in CRLFs(p) : c = b + 3 * i + 1
  BY LineEnds
<1>3. i \in Nat /\ j <= i /\ i <= J /\ i < L /\ b + 3 * i <= c /\ c <= b + 3 * i + 1 /\ 3 * i < n
  BY <1>1, <1>2
<1>4. LineStart(p, c) = b + 3 * i
  BY <1>3, StartsAt
<1>5. p.buffer[b + 3 * i] = TextOf(r, i)
  BY <1>3, BytesOfLine
<1>6. KindsIn(p, c) = {Kind(TextOf(r, i))}
  <2>1. PICK x \in Nat : x = b + 3 * i
    BY <1>1, <1>3
  <2>2. x..(c - 1) = {x}
    BY <1>1, <1>2, <1>3, <2>1
  <2>3. KindsIn(p, c) = {Kind(p.buffer[k]) : k \in {x}}
    BY <1>4, <2>1, <2>2 DEF KindsIn
  <2>4. QED
    BY <1>5, <2>1, <2>3
<1>7. SliceOf(p, c) = SliceAt(i)
  <2>1. b + 3 * i - b = 3 * i /\ c - b = 3 * i + 1
    BY <1>1, <1>2, <1>3
  <2>2. QED
    BY <1>1, <1>4, <2>1 DEF SliceOf, SliceAt
<1>8. QED
  BY <1>2, <1>4, <1>5, <1>6, <1>7

(* Which lines the scan rejects, and which give a length.                  *)
LEMMA LineKindsAre ==
  ASSUME NEW p, NEW r, NEW W, NEW b, NEW n, NEW L, NEW j, NEW J, Scans(p, r, W, b, n, L, j, J),
         Knows(p, r, b, j)
  PROVE  /\ BadRequestLines(p) # {} <=> j = 0 /\ J > 0 /\ BadLine(r, 0)
         /\ \A c : c \in BadHeaderLines(p) <=>
                      \E i \in j..(J - 1) : i >= 1 /\ BadLine(r, i) /\ c = b + 3 * i + 1
         /\ \A c : c \in HeaderLines(p) \ BadHeaderLines(p) <=>
                      \E i \in j..(J - 1) : i >= 1 /\ ~BadLine(r, i) /\ c = b + 3 * i + 1
         /\ \A c : c \in ContentLengthLines(p) <=>
                      \E i \in j..(J - 1) : i >= 1 /\ Kind(TextOf(r, i)) = "cl" /\ c = b + 3 * i + 1
<1>1. b \in Nat /\ n \in Nat /\ L \in Nat /\ j \in Nat /\ J \in Nat /\ j <= J
  BY DEF Scans
<1>2. PICK first : first = RequestLine(p) /\ first = IF j = 0 /\ J > 0 THEN {b + 1} ELSE {}
  BY HeaderLinesAre
<1>3. PICK heads : /\ heads = HeaderLines(p)
                   /\ \A c : c \in heads <=> \E i \in j..(J - 1) : i >= 1 /\ c = b + 3 * i + 1
  BY HeaderLinesAre
<1>4. BadRequestLines(p) # {} <=> j = 0 /\ J > 0 /\ BadLine(r, 0)
  <2>1. BadRequestLines(p) = {i \in first : KindsIn(p, i) \cap {"get", "post"} = {}}
    BY <1>2 DEF BadRequestLines
  <2>2. ASSUME j = 0, J > 0 PROVE KindsIn(p, b + 1) \cap {"get", "post"} = {} <=> BadLine(r, 0)
    <3>1. 0 \in j..(J - 1) /\ b + 3 * 0 + 1 = b + 1
      BY <1>1, <2>2
    <3>2. KindsIn(p, b + 3 * 0 + 1) = {Kind(TextOf(r, 0))}
      BY <3>1, LineIs
    <3>3. KindsIn(p, b + 1) = {Kind(TextOf(r, 0))}
      BY <3>1, <3>2
    <3>4. QED
      BY <3>3 DEF BadLine
  <2>3. QED
    BY <1>2, <2>1, <2>2
<1>5. ASSUME NEW i \in j..(J - 1), i >= 1
      PROVE  KindsIn(p, b + 3 * i + 1) \cap {"cl", "hdr"} = {} <=> BadLine(r, i)
  <2>1. KindsIn(p, b + 3 * i + 1) = {Kind(TextOf(r, i))}
    BY LineIs
  <2>2. i # 0
    BY <1>1, <1>5
  <2>3. QED
    BY <2>1, <2>2 DEF BadLine
<1>6. \A c : c \in BadHeaderLines(p) <=>
               \E i \in j..(J - 1) : i >= 1 /\ BadLine(r, i) /\ c = b + 3 * i + 1
  <2>1. BadHeaderLines(p) = {i \in heads : KindsIn(p, i) \cap {"cl", "hdr"} = {}}
    BY <1>3 DEF BadHeaderLines
  <2>2. QED
    BY <1>3, <1>5, <2>1
<1>7. \A i, h \in j..(J - 1) : b + 3 * i + 1 = b + 3 * h + 1 => i = h
  BY <1>1
<1>8. PICK good : good = HeaderLines(p) \ BadHeaderLines(p)
  OBVIOUS
<1>9. \A c : c \in good <=>
               \E i \in j..(J - 1) : i >= 1 /\ ~BadLine(r, i) /\ c = b + 3 * i + 1
  BY <1>3, <1>6, <1>7, <1>8
<1>10. ContentLengthLines(p) = {i \in good : Kind(p.buffer[LineStart(p, i)]) = "cl"}
  BY <1>8 DEF ContentLengthLines
<1>11. \A i \in j..(J - 1) : Kind(p.buffer[LineStart(p, b + 3 * i + 1)]) = Kind(TextOf(r, i))
  <2>1. TAKE i \in j..(J - 1)
  <2>2. LineStart(p, b + 3 * i + 1) = b + 3 * i /\ p.buffer[b + 3 * i] = TextOf(r, i)
    BY LineIs
  <2>3. QED
    BY <2>2
<1>12. \A i \in j..(J - 1) : i >= 1 /\ Kind(TextOf(r, i)) = "cl" => ~BadLine(r, i)
  BY <1>1 DEF BadLine
<1>13. \A c : c \in ContentLengthLines(p) <=>
                \E i \in j..(J - 1) : i >= 1 /\ Kind(TextOf(r, i)) = "cl" /\ c = b + 3 * i + 1
  BY <1>9, <1>10, <1>11, <1>12
<1>14. QED
  BY <1>4, <1>6, <1>8, <1>9, <1>13

(* The fields of the request behind a scan, one by one.                    *)
LEMMA ScannedLine ==
  ASSUME NEW p, NEW r, NEW W, NEW b, NEW n, NEW L, NEW j, NEW J, Scans(p, r, W, b, n, L, j, J),
         Knows(p, r, b, j)
  PROVE  (IF RequestLine(p) = {} THEN p.request.line ELSE SliceOf(p, Min(RequestLine(p)))) = RequestAt(r, J).line
<1>1. b \in Nat /\ j \in Nat /\ J \in Nat /\ j <= J
  BY DEF Scans
<1>2. p.request.line = IF j = 0 THEN NoSlice ELSE SliceAt(0)
  BY DEF Knows, RequestAt
<1>3. RequestAt(r, J).line = IF J = 0 THEN NoSlice ELSE SliceAt(0)
  BY DEF RequestAt
<1>4. RequestLine(p) = IF j = 0 /\ J > 0 THEN {b + 1} ELSE {}
  BY HeaderLinesAre
<1>5. CASE j = 0 /\ J > 0
  <2>1. PICK x \in Nat : x = b + 1 /\ x = b + 3 * 0 + 1
    BY <1>1
  <2>2. Min({x}) = x
    BY MinIs
  <2>3. 0 \in j..(J - 1)
    BY <1>1, <1>5
  <2>4. SliceOf(p, b + 3 * 0 + 1) = SliceAt(0)
    BY <2>3, LineIs
  <2>5. RequestLine(p) = {x} /\ SliceOf(p, x) = SliceAt(0)
    BY <1>4, <1>5, <2>1, <2>4
  <2>6. QED
    BY <1>1, <1>3, <1>5, <2>2, <2>5
<1>6. CASE ~(j = 0 /\ J > 0)
  <2>1. j = 0 <=> J = 0
    BY <1>1, <1>6
  <2>2. QED
    BY <1>2, <1>3, <1>4, <1>6, <2>1
<1>7. QED
  BY <1>5, <1>6

LEMMA ScannedHeaders ==
  ASSUME NEW p, NEW r, NEW W, NEW b, NEW n, NEW L, NEW j, NEW J, Scans(p, r, W, b, n, L, j, J),
         Knows(p, r, b, j)
  PROVE  p.request.headers \cup {SliceOf(p, i) : i \in HeaderLines(p) \ BadHeaderLines(p)} = RequestAt(r, J).headers
<1>1. j \in Nat /\ J \in Nat /\ j <= J
  BY DEF Scans
<1>2. p.request.headers = {SliceAt(i) : i \in GoodFields(r, j)}
  BY DEF Knows, RequestAt
<1>3. RequestAt(r, J).headers = {SliceAt(i) : i \in GoodFields(r, J)}
  BY DEF RequestAt
<1>4. PICK good : good = HeaderLines(p) \ BadHeaderLines(p)
  OBVIOUS
<1>5. \A c : c \in good <=> \E i \in j..(J - 1) : i >= 1 /\ ~BadLine(r, i) /\ c = b + 3 * i + 1
  BY <1>4, LineKindsAre
<1>6. \A i \in j..(J - 1) : SliceOf(p, b + 3 * i + 1) = SliceAt(i)
  BY LineIs
<1>7. PICK new : new = {i \in j..(J - 1) : i >= 1 /\ ~BadLine(r, i)}
  OBVIOUS
<1>8. {SliceOf(p, c) : c \in good} = {SliceAt(i) : i \in new}
  <2>1. \A c \in good : \E i \in new : SliceOf(p, c) = SliceAt(i)
    BY <1>5, <1>6, <1>7
  <2>2. \A i \in new : \E c \in good : SliceOf(p, c) = SliceAt(i)
    BY <1>5, <1>6, <1>7
  <2>3. QED
    BY <2>1, <2>2
<1>9. GoodFields(r, J) = GoodFields(r, j) \cup new
  <2>1. \A i : i \in 1..(J - 1) <=> i \in 1..(j - 1) \/ (i \in j..(J - 1) /\ i >= 1)
    BY <1>1
  <2>2. QED
    BY <1>7, <2>1 DEF GoodFields
<1>10. QED
  BY <1>2, <1>3, <1>4, <1>8, <1>9

LEMMA ScannedLength ==
  ASSUME NEW p, NEW r, NEW W, NEW b, NEW n, NEW L, NEW j, NEW J, Scans(p, r, W, b, n, L, j, J),
         Knows(p, r, b, j)
  PROVE  (IF ContentLengthLines(p) = {} THEN p.request.contentLength
          ELSE Number(p.buffer[LineStart(p, Max(ContentLengthLines(p)))])) = RequestAt(r, J).contentLength
<1>1. b \in Nat /\ j \in Nat /\ J \in Nat /\ j <= J
  BY DEF Scans
<1>2. p.request.contentLength = LengthAt(r, j) /\ RequestAt(r, J).contentLength = LengthAt(r, J)
  BY DEF Knows, RequestAt
<1>3. PICK lengths : /\ lengths = ContentLengthLines(p)
                     /\ \A c : c \in lengths <=>
                           \E i \in j..(J - 1) : i >= 1 /\ Kind(TextOf(r, i)) = "cl" /\ c = b + 3 * i + 1
  BY LineKindsAre
<1>4. PICK F : F = LengthFields(r, J)
  OBVIOUS
<1>5. /\ F \in SUBSET Nat /\ \A i \in F : i <= J
      /\ \A i : i \in F <=> i \in LengthFields(r, j) \/ (i \in j..(J - 1) /\ i >= 1 /\ Kind(TextOf(r, i)) = "cl")
  <2>1. \A i : i \in 1..(J - 1) <=> i \in 1..(j - 1) \/ (i \in j..(J - 1) /\ i >= 1)
    BY <1>1
  <2>2. \A i \in 1..(J - 1) : i \in Nat /\ i <= J
    BY <1>1
  <2>3. QED
    BY <1>4, <2>1, <2>2 DEF LengthFields
<1>6. CASE lengths = {}
  <2>1. F = LengthFields(r, j)
    BY <1>3, <1>5, <1>6
  <2>2. LengthAt(r, J) = LengthAt(r, j)
    BY <1>4, <2>1 DEF LengthAt
  <2>3. QED
    BY <1>2, <1>3, <1>6, <2>2
<1>7. CASE lengths # {}
  <2>1. PICK h \in j..(J - 1) : h \in F
    BY <1>3, <1>5, <1>7
  <2>2. PICK m \in F : m = Max(F) /\ \A i \in F : i <= m
    BY <1>1, <1>5, <2>1, MaxOfBounded
  <2>3. m >= j
    BY <1>1, <1>5, <2>1, <2>2
  <2>4. m \in j..(J - 1) /\ m >= 1 /\ Kind(TextOf(r, m)) = "cl"
    <3>1. m \notin 1..(j - 1)
      BY <1>1, <2>3
    <3>2. m \notin LengthFields(r, j)
      BY <3>1 DEF LengthFields
    <3>3. QED
      BY <1>5, <3>2
  <2>5. PICK x \in Nat : x = b + 3 * m + 1
    BY <1>1, <2>4
  <2>6. x \in lengths
    BY <1>3, <2>4, <2>5
  <2>7. \A c \in lengths : c \in Nat /\ c <= x
    <3>1. TAKE c \in lengths
    <3>2. PICK i \in j..(J - 1) : i >= 1 /\ Kind(TextOf(r, i)) = "cl" /\ c = b + 3 * i + 1
      BY <1>3
    <3>3. i <= m
      BY <1>5, <2>2, <3>2
    <3>4. QED
      BY <1>1, <2>4, <2>5, <3>2, <3>3
  <2>8. Max(lengths) = x
    BY <2>6, <2>7, MaxIs
  <2>9. LineStart(p, x) = b + 3 * m /\ p.buffer[b + 3 * m] = TextOf(r, m)
    BY <2>4, <2>5, LineIs
  <2>10. LengthAt(r, J) = Number(TextOf(r, m))
    BY <1>4, <2>1, <2>2 DEF LengthAt
  <2>11. QED
    BY <1>2, <1>3, <1>7, <2>8, <2>9, <2>10
<1>8. QED
  BY <1>6, <1>7

LEMMA ScannedMalformed ==
  ASSUME NEW p, NEW r, NEW W, NEW b, NEW n, NEW L, NEW j, NEW J, Scans(p, r, W, b, n, L, j, J),
         Knows(p, r, b, j)
  PROVE  (p.request.malformed \/ BadRequestLines(p) # {} \/ BadHeaderLines(p) # {}) = RequestAt(r, J).malformed
<1>1. j \in Nat /\ J \in Nat /\ j <= J
  BY DEF Scans
<1>2. /\ p.request.malformed = \E i \in 0..(j - 1) : BadLine(r, i)
      /\ RequestAt(r, J).malformed = \E i \in 0..(J - 1) : BadLine(r, i)
  BY DEF Knows, RequestAt
<1>3. BadRequestLines(p) # {} <=> j = 0 /\ J > 0 /\ BadLine(r, 0)
  BY LineKindsAre
<1>4. BadHeaderLines(p) # {} <=> \E i \in j..(J - 1) : i >= 1 /\ BadLine(r, i)
  BY LineKindsAre
<1>5. \A i : i \in 0..(J - 1) <=> i \in 0..(j - 1) \/ (i = 0 /\ j = 0 /\ J > 0) \/ (i \in j..(J - 1) /\ i >= 1)
  BY <1>1
<1>6. (\E i \in 0..(J - 1) : BadLine(r, i)) <=>
         \/ \E i \in 0..(j - 1) : BadLine(r, i)
         \/ j = 0 /\ J > 0 /\ BadLine(r, 0)
         \/ \E i \in j..(J - 1) : i >= 1 /\ BadLine(r, i)
  BY <1>5
<1>7. QED
  BY <1>2, <1>3, <1>4, <1>6

(* How far a scan gets.                                                    *)
LEMMA ScannedTo ==
  ASSUME NEW p, NEW r, NEW W, NEW b, NEW n, NEW L, NEW j, NEW J, Scans(p, r, W, b, n, L, j, J)
  PROVE  Max({p.bufferProcessed} \cup {i + 2 : i \in Visited(p)})
           = IF 3 * L + 2 <= n THEN b + 3 * L + 2 ELSE b + 3 * J
<1>1. /\ b \in Nat /\ n \in Nat /\ L \in Nat /\ j \in Nat /\ J \in Nat /\ j <= J /\ J <= L
      /\ (J < L => n < 3 * J + 3) /\ p.bufferProcessed = b + 3 * j
  BY DEF Scans
<1>2. Visited(p) = {b + 3 * i + 1 : i \in j..(J - 1)} \cup (IF 3 * L + 2 <= n THEN {b + 3 * L} ELSE {})
  BY TextLinesAre
<1>3. PICK S : S = {p.bufferProcessed} \cup {i + 2 : i \in Visited(p)}
  OBVIOUS
<1>4. \A x \in S : \/ x = b + 3 * j
                   \/ \E i \in j..(J - 1) : x = b + 3 * i + 1 + 2
                   \/ 3 * L + 2 <= n /\ x = b + 3 * L + 2
  BY <1>1, <1>2, <1>3
<1>5. S \in SUBSET Nat /\ \A x \in S : x <= b + 3 * J \/ (3 * L + 2 <= n /\ x <= b + 3 * L + 2)
  <2>1. \A i \in j..(J - 1) : b + 3 * i + 1 + 2 \in Nat /\ b + 3 * i + 1 + 2 <= b + 3 * J
    BY <1>1
  <2>2. b + 3 * j \in Nat /\ b + 3 * j <= b + 3 * J /\ b + 3 * L + 2 \in Nat
    BY <1>1
  <2>3. QED
    BY <1>1, <1>4, <2>1, <2>2
<1>6. CASE 3 * L + 2 <= n
  <2>1. PICK m \in Nat : m = b + 3 * L + 2
    BY <1>1
  <2>2. m \in S
    BY <1>2, <1>3, <1>6, <2>1
  <2>3. \A x \in S : x <= m
    BY <1>1, <1>5, <2>1
  <2>4. QED
    BY <1>3, <1>5, <1>6, <2>1, <2>2, <2>3, MaxIs
<1>7. CASE ~(3 * L + 2 <= n)
  <2>1. PICK m \in Nat : m = b + 3 * J
    BY <1>1
  <2>2. m \in S
    <3>1. CASE j = J
      BY <1>1, <1>3, <2>1, <3>1
    <3>2. CASE j # J
      <4>1. J - 1 \in j..(J - 1) /\ b + 3 * (J - 1) + 1 + 2 = m
        BY <1>1, <2>1, <3>2
      <4>2. b + 3 * (J - 1) + 1 \in Visited(p)
        BY <1>2, <4>1
      <4>3. QED
        BY <1>3, <4>1, <4>2
    <3>3. QED
      BY <3>1, <3>2
  <2>3. \A x \in S : x <= m
    BY <1>1, <1>5, <1>7, <2>1
  <2>4. QED
    BY <1>3, <1>5, <1>7, <2>1, <2>2, <2>3, MaxIs
<1>8. QED
  BY <1>6, <1>7

(* What one call of the scan leaves behind.                                *)
Scanned(q, p, r, W, b, n, L, J) ==
  /\ ParserOK(q) /\ q.state = p.state
  /\ q.bufferBegin = b /\ q.bufferEnd = b + n
  /\ q.bufferProcessed = IF 3 * L + 2 <= n THEN b + 3 * L + 2 ELSE b + 3 * J
  /\ Knows(q, r, b, J)
  /\ \A k \in (3 * J)..(n - 1) : q.buffer[b + k] = W[k + 1]

LEMMA ScanHeadersIs ==
  ASSUME NEW p, NEW r, NEW W, NEW b, NEW n, NEW L, NEW j, NEW J, Scans(p, r, W, b, n, L, j, J),
         Knows(p, r, b, j)
  PROVE  Scanned(ScanHeaders(p), p, r, W, b, n, L, J)
<1>1. /\ b \in Nat /\ n \in Nat /\ L \in Nat /\ j \in Nat /\ J \in Nat /\ j <= J /\ J <= L
      /\ 3 * J <= n /\ p.bufferBegin = b /\ p.bufferEnd = b + n
      /\ \A k \in (3 * j)..(n - 1) : p.buffer[b + k] = W[k + 1]
  BY DEF Scans
<1>2. ParserOK(p) /\ FieldsOf(p) /\ p.bufferSize \in Nat /\ b + n <= p.bufferSize
  BY <1>1 DEF Scans, ParserOK, IndicesOK
<1>3. PICK lengths : lengths = ContentLengthLines(p)
  OBVIOUS
<1>4. PICK request, buffer, done :
        /\ request = [line |-> IF RequestLine(p) = {} THEN p.request.line ELSE SliceOf(p, Min(RequestLine(p))),
                      headers |-> p.request.headers \cup {SliceOf(p, i) : i \in HeaderLines(p) \ BadHeaderLines(p)},
                      contentLength |-> IF lengths = {} THEN p.request.contentLength
                                        ELSE Number(p.buffer[LineStart(p, Max(lengths))]),
                      contents |-> p.request.contents,
                      malformed |-> p.request.malformed \/ BadRequestLines(p) # {} \/ BadHeaderLines(p) # {}]
        /\ buffer = [k \in 0..(p.bufferSize - 1) |-> IF k \in lengths THEN NUL ELSE p.buffer[k]]
        /\ done = Max({p.bufferProcessed} \cup {i + 2 : i \in Visited(p)})
  OBVIOUS
<1>5. PICK q : q = ScanHeaders(p)
  OBVIOUS
<1>6. q = [p EXCEPT !.request = request, !.buffer = buffer, !.bufferProcessed = done]
  BY <1>3, <1>4, <1>5 DEF ScanHeaders
<1>7. /\ q.request = request /\ q.buffer = buffer /\ q.bufferProcessed = done /\ q.state = p.state
      /\ q.bufferBegin = b /\ q.bufferEnd = b + n
  BY <1>1, <1>2, <1>6 DEF FieldsOf
<1>8. ParserOK(q)
  BY <1>2, <1>5, ScanHeadersOK
<1>9. done = IF 3 * L + 2 <= n THEN b + 3 * L + 2 ELSE b + 3 * J
  BY <1>4, ScannedTo
<1>10. request = RequestAt(r, J)
  <2>1. p.request.contents = NoSlice
    BY DEF Knows, RequestAt
  <2>2. PICK l, h, cl, mal :
          /\ l = (IF RequestLine(p) = {} THEN p.request.line ELSE SliceOf(p, Min(RequestLine(p))))
          /\ h = p.request.headers \cup {SliceOf(p, i) : i \in HeaderLines(p) \ BadHeaderLines(p)}
          /\ cl = (IF lengths = {} THEN p.request.contentLength ELSE Number(p.buffer[LineStart(p, Max(lengths))]))
          /\ mal = (p.request.malformed \/ BadRequestLines(p) # {} \/ BadHeaderLines(p) # {})
          /\ request = [line |-> l, headers |-> h, contentLength |-> cl, contents |-> p.request.contents,
                        malformed |-> mal]
    BY <1>4
  <2>3. l = RequestAt(r, J).line
    BY <2>2, ScannedLine
  <2>4. h = RequestAt(r, J).headers
    BY <2>2, ScannedHeaders
  <2>5. cl = RequestAt(r, J).contentLength
    BY <1>3, <2>2, ScannedLength
  <2>6. mal = RequestAt(r, J).malformed
    BY <2>2, ScannedMalformed
  <2>7. PICK e : e = RequestAt(r, J)
    OBVIOUS
  <2>8. e = [line |-> e.line, headers |-> e.headers, contentLength |-> e.contentLength,
             contents |-> NoSlice, malformed |-> e.malformed]
    BY <2>7 DEF RequestAt
  <2>9. QED
    BY <2>1, <2>2, <2>3, <2>4, <2>5, <2>6, <2>7, <2>8
<1>11. \A c \in lengths : \E i \in j..(J - 1) : c = b + 3 * i + 1
  BY <1>3, LineKindsAre
<1>12. ASSUME NEW k \in Nat, k < n, \A i \in j..(J - 1) : k # 3 * i + 1
       PROVE  q.buffer[b + k] = p.buffer[b + k]
  <2>1. b + k \in 0..(p.bufferSize - 1)
    BY <1>1, <1>2, <1>12
  <2>2. b + k \notin lengths
    <3>1. \A i \in j..(J - 1) : b + k # b + 3 * i + 1
      BY <1>1, <1>12
    <3>2. QED
      BY <1>11, <3>1
  <2>3. QED
    BY <1>4, <1>7, <2>1, <2>2
<1>13. \A k \in (3 * J)..(n - 1) : q.buffer[b + k] = W[k + 1]
  <2>1. TAKE k \in (3 * J)..(n - 1)
  <2>2. k \in Nat /\ k < n /\ (\A i \in j..(J - 1) : k # 3 * i + 1) /\ k \in (3 * j)..(n - 1)
    BY <1>1
  <2>3. QED
    BY <1>1, <1>12, <2>2
<1>14. \A i \in 0..(J - 1) : q.buffer[b + 3 * i] = TextOf(r, i)
  <2>1. TAKE i \in 0..(J - 1)
  <2>2. PICK k \in Nat : k = 3 * i /\ k < n /\ \A h \in j..(J - 1) : k # 3 * h + 1
    <3>1. 3 * i \in Nat /\ 3 * i < n /\ \A h \in j..(J - 1) : 3 * i # 3 * h + 1
      BY <1>1
    <3>2. QED
      BY <3>1
  <2>3. q.buffer[b + k] = p.buffer[b + k]
    BY <1>12, <2>2
  <2>4. p.buffer[b + 3 * i] = TextOf(r, i)
    <3>1. CASE i < j
      <4>1. i \in 0..(j - 1)
        BY <1>1, <3>1
      <4>2. QED
        BY <4>1 DEF Knows
    <3>2. CASE i >= j
      <4>1. i \in j..(J - 1)
        BY <1>1, <3>2
      <4>2. QED
        BY <4>1, LineIs
    <3>3. QED
      BY <1>1, <3>1, <3>2
  <2>5. QED
    BY <2>2, <2>3, <2>4
<1>15. Knows(q, r, b, J)
  BY <1>7, <1>10, <1>14 DEF Knows
<1>16. q.bufferProcessed = IF 3 * L + 2 <= n THEN b + 3 * L + 2 ELSE b + 3 * J
  BY <1>7, <1>9
<1>17. q.state = p.state /\ q.bufferBegin = b /\ q.bufferEnd = b + n
  BY <1>7
<1>18. QED
  BY <1>5, <1>8, <1>13, <1>15, <1>16, <1>17 DEF Scanned

-----------------------------------------------------------------------------
(***************************************************************************)
(* What readRequest() answers.  rs are the requests that the received and  *)
(* the pending bytes hold, from the start of the current one.              *)
(***************************************************************************)
Held(p) == p.bufferEnd - p.bufferBegin

(* The buffer holds W from its m-th to its n-th byte, counted from b, and  *)
(* pend is the rest of W.                                                  *)
Divides(W, pend, buf, b, n, m) ==
  /\ Len(W) = n + Len(pend)
  /\ \A k \in 1..Len(pend) : pend[k] = W[n + k]
  /\ \A k \in m..(n - 1) : buf[b + k] = W[k + 1]

Holds(p, W, pend) ==
  Divides(W, pend, p.buffer, p.bufferBegin, Held(p), p.bufferProcessed - p.bufferBegin)

InHeaders(p, r) ==
  /\ p.state = "READHEADERS"
  /\ \E j \in 0..NLines(r) : p.bufferProcessed = p.bufferBegin + 3 * j /\ Knows(p, r, p.bufferBegin, j)

InBody(p, r) ==
  /\ p.state = "READCONTENT"
  /\ p.bufferProcessed = p.bufferBegin + 3 * NLines(r) + 2
  /\ Knows(p, r, p.bufferBegin, NLines(r))
  /\ Kind(r.line) # "get" /\ ContentLength(r) # 0

Reading(p, rs, pend) ==
  /\ Holds(p, Stream(rs), pend)
  /\ rs = << >> => p.state = "READHEADERS" /\ p.bufferProcessed = p.bufferBegin /\ p.request = NoRequest
  /\ rs # << >> => InHeaders(p, Head(rs)) \/ InBody(p, Head(rs))

(* The same between two requests, whose handler still has the first one.   *)
Between(p, rs, pend) == p.state = "READHEADERS" /\ Holds(ClearRequest(p), Stream(rs), pend)

(* The parser waits, has rejected a request, or has one for a handler.     *)
Waits(p, rs, pend) == Reading(p, rs, pend) /\ (rs # << >> => Held(p) < WireLen(Head(rs)))

Rejects(p, rs) ==
  p.request.malformed /\ rs # << >> /\ (~FieldsOK(Head(rs)) \/ Len(Stream(rs)) >= MAXREQUESTSIZE)

Delivers(p, rs, pend) ==
  /\ ~p.request.malformed /\ rs # << >>
  /\ FieldsOK(Head(rs)) /\ WireLen(Head(rs)) < MAXREQUESTSIZE
  /\ Decoded(p) = AsSeen(Head(rs))
  /\ Between(p, Tail(rs), pend)

Answers(a, rs, pend) ==
  IF a.done THEN Rejects(a.parser, rs) \/ Delivers(a.parser, rs, pend) ELSE Waits(a.parser, rs, pend)

LEMMA FieldsAre ==
  ASSUME NEW r \in Requests
  PROVE  /\ DOMAIN r.fields = 1..(NLines(r) - 1)
         /\ \A i \in 1..(NLines(r) - 1) : TextOf(r, i) = r.fields[i]
         /\ TextOf(r, 0) = r.line
<1>1. PICK n \in Nat : n = Len(r.fields) /\ DOMAIN r.fields = 1..n
  BY RequestIs
<1>2. NLines(r) - 1 = n
  BY <1>1 DEF NLines
<1>3. \A i \in 1..n : TextOf(r, i) = r.fields[i]
  BY DEF TextOf
<1>4. TextOf(r, 0) = r.line
  BY DEF TextOf
<1>5. QED
  BY <1>1, <1>2, <1>3, <1>4

LEMMA ContentLengthIs ==
  ASSUME NEW r \in Requests PROVE LengthAt(r, NLines(r)) = ContentLength(r)
<1>1. PICK F : F = {i \in 1..(NLines(r) - 1) : Kind(TextOf(r, i)) = "cl"}
  OBVIOUS
<1>2. F = LengthFields(r, NLines(r))
  BY <1>1 DEF LengthFields
<1>3. F = {i \in DOMAIN r.fields : Kind(r.fields[i]) = "cl"}
  BY <1>1, FieldsAre
<1>4. LengthAt(r, NLines(r)) = IF F = {} THEN 0 ELSE Number(TextOf(r, Max(F)))
  BY <1>2 DEF LengthAt
<1>5. ContentLength(r) = IF F = {} THEN 0 ELSE Number(r.fields[Max(F)])
  BY <1>3 DEF ContentLength
<1>6. F # {} => TextOf(r, Max(F)) = r.fields[Max(F)]
  <2>1. HAVE F # {}
  <2>2. NLines(r) \in Nat
    BY RequestIs
  <2>3. F \in SUBSET Nat /\ \A x \in F : x <= NLines(r)
    BY <1>1, <2>2
  <2>4. Max(F) \in F
    BY <2>1, <2>2, <2>3, MaxOfBounded
  <2>5. QED
    BY <1>1, <2>4, FieldsAre
<1>7. QED
  BY <1>4, <1>5, <1>6

LEMMA FieldsOKIs ==
  ASSUME NEW r \in Requests
  PROVE  FieldsOK(r) <=> ~RequestAt(r, NLines(r)).malformed /\ BodyLength(r) \in 0..MAXREQUESTSIZE
<1>1. RequestAt(r, NLines(r)).malformed = \E i \in 0..(NLines(r) - 1) : BadLine(r, i)
  BY DEF RequestAt
<1>2. BadLine(r, 0) <=> Kind(r.line) \notin {"get", "post"}
  BY FieldsAre DEF BadLine
<1>3. \A i \in 1..(NLines(r) - 1) : BadLine(r, i) <=> Kind(r.fields[i]) \notin {"cl", "hdr"}
  <2>1. TAKE i \in 1..(NLines(r) - 1)
  <2>2. i # 0
    OBVIOUS
  <2>3. QED
    BY <2>2, FieldsAre DEF BadLine
<1>4. \A i : i \in 0..(NLines(r) - 1) <=> i = 0 \/ i \in 1..(NLines(r) - 1)
  BY RequestIs
<1>5. (\E i \in 0..(NLines(r) - 1) : BadLine(r, i)) <=>
         BadLine(r, 0) \/ \E i \in 1..(NLines(r) - 1) : BadLine(r, i)
  BY <1>4
<1>6. QED
  BY <1>1, <1>2, <1>3, <1>5, FieldsAre DEF FieldsOK

(* A whole request is in the buffer.                                       *)
Whole(p, r, b, L, l) ==
  /\ b \in Nat /\ L \in Nat /\ l \in Nat /\ r \in Requests /\ L = NLines(r) /\ l = Len(r.body)
  /\ p.bufferBegin = b
  /\ \A i \in 0..(L - 1) : p.buffer[b + 3 * i] = TextOf(r, i)
  /\ p.request.line = SliceAt(0) /\ p.request.headers = RequestAt(r, L).headers
  /\ FieldsOK(r)

BodyAt(p, r, y, l) ==
  \/ p.request.contents = NoSlice /\ l = 0
  \/ p.request.contents = <<y, y + l>> /\ \A k \in 1..l : p.buffer[y + k - 1] = r.body[k]

LEMMA SeenLine ==
  ASSUME NEW p, NEW r, NEW b, NEW L, NEW l, Whole(p, r, b, L, l)
  PROVE  p.buffer[p.bufferBegin + p.request.line[1]] = r.line
<1>1. b \in Nat /\ L \in Nat /\ r \in Requests /\ p.bufferBegin = b /\ L = NLines(r)
  BY DEF Whole
<1>2. p.request.line[1] = 0
  BY DEF Whole, SliceAt
<1>3. 0 \in 0..(L - 1)
  BY <1>1, RequestIs
<1>4. p.buffer[b + 3 * 0] = TextOf(r, 0)
  BY <1>3 DEF Whole
<1>5. b + 3 * 0 = b + 0
  BY <1>1
<1>6. QED
  BY <1>1, <1>2, <1>4, <1>5, FieldsAre

FieldsSeen(p) == {p.buffer[p.bufferBegin + h[1]] : h \in p.request.headers}
FieldsSent(r) == {r.fields[i] : i \in DOMAIN r.fields}

LEMMA SeenFields ==
  ASSUME NEW p, NEW r, NEW b, NEW L, NEW l, Whole(p, r, b, L, l)
  PROVE  FieldsSeen(p) = FieldsSent(r)
<1>1. b \in Nat /\ L \in Nat /\ r \in Requests /\ p.bufferBegin = b /\ L = NLines(r)
  BY DEF Whole
<1>2. GoodFields(r, L) = 1..(L - 1)
  <2>1. ~ \E i \in 0..(L - 1) : BadLine(r, i)
    BY <1>1, FieldsOKIs DEF RequestAt, Whole
  <2>2. \A i \in 1..(L - 1) : i \in 0..(L - 1)
    BY <1>1
  <2>3. QED
    BY <2>1, <2>2 DEF GoodFields
<1>3. PICK S : S = p.request.headers
  OBVIOUS
<1>4. S = {SliceAt(i) : i \in 1..(L - 1)}
  BY <1>2, <1>3 DEF RequestAt, Whole
<1>5. PICK At : At = [h \in S |-> p.buffer[p.bufferBegin + h[1]]]
  OBVIOUS
<1>6. \A i \in 1..(L - 1) : SliceAt(i) \in S /\ At[SliceAt(i)] = r.fields[i]
  <2>1. TAKE i \in 1..(L - 1)
  <2>2. i \in 0..(L - 1) /\ SliceAt(i)[1] = 3 * i
    BY <1>1 DEF SliceAt
  <2>3. p.buffer[b + 3 * i] = TextOf(r, i)
    BY <2>2 DEF Whole
  <2>4. TextOf(r, i) = r.fields[i]
    BY <1>1, FieldsAre
  <2>5. SliceAt(i) \in S
    BY <1>4
  <2>6. At[SliceAt(i)] = p.buffer[p.bufferBegin + SliceAt(i)[1]]
    BY <1>5, <2>5
  <2>7. QED
    BY <1>1, <2>2, <2>3, <2>4, <2>5, <2>6
<1>7. DOMAIN r.fields = 1..(L - 1)
  BY <1>1, FieldsAre
<1>8. {At[h] : h \in S} = {r.fields[i] : i \in 1..(L - 1)}
  <2>1. \A h \in S : \E i \in 1..(L - 1) : At[h] = r.fields[i]
    BY <1>4, <1>6
  <2>2. \A i \in 1..(L - 1) : \E h \in S : At[h] = r.fields[i]
    BY <1>6
  <2>3. QED
    BY <2>1, <2>2
<1>9. {p.buffer[p.bufferBegin + h[1]] : h \in S} = {At[h] : h \in S}
  BY <1>5
<1>10. QED
  BY <1>3, <1>7, <1>8, <1>9 DEF FieldsSeen, FieldsSent

LEMMA SeenBody ==
  ASSUME NEW p, NEW r \in Requests, NEW y \in Nat, NEW l \in Nat, l = Len(r.body), BodyAt(p, r, y, l)
  PROVE  [k \in 1..(p.request.contents[2] - p.request.contents[1]) |-> p.buffer[p.request.contents[1] + k - 1]] = r.body
<1>1. PICK body \in Seq(Bytes) : body = r.body /\ Len(body) = l
  BY RequestIs
<1>2. PICK x, z : x = p.request.contents[2] - p.request.contents[1] /\ z = p.request.contents[1]
  OBVIOUS
<1>3. CASE p.request.contents = NoSlice /\ l = 0
  <2>1. x = 0
    BY <1>2, <1>3 DEF NoSlice
  <2>2. 1..x = {}
    BY <2>1
  <2>3. body = << >>
    BY <1>1, <1>3, EmptySeq
  <2>4. [k \in 1..x |-> p.buffer[z + k - 1]] = << >>
    BY <2>2
  <2>5. QED
    BY <1>1, <1>2, <2>3, <2>4
<1>4. CASE p.request.contents = <<y, y + l>> /\ \A k \in 1..l : p.buffer[y + k - 1] = r.body[k]
  <2>1. z = y
    BY <1>2, <1>4
  <2>2. x = y + l - y
    BY <1>2, <1>4
  <2>3. x = l
    BY <2>2
  <2>4. \A k \in 1..l : p.buffer[z + k - 1] = body[k]
    BY <1>1, <1>4, <2>1
  <2>5. DOMAIN body = 1..l /\ body = [k \in DOMAIN body |-> body[k]]
    BY <1>1
  <2>6. [k \in 1..x |-> p.buffer[z + k - 1]] = body
    BY <2>3, <2>4, <2>5
  <2>7. QED
    BY <1>1, <1>2, <2>6
<1>5. QED
  BY <1>3, <1>4 DEF BodyAt

LEMMA DifferenceIs ==
  ASSUME NEW b \in Nat, NEW e \in Nat, NEW m \in Nat, b + m <= e
  PROVE  \E n \in Nat : e = b + n /\ m <= n /\ n = e - b
<1>1. e - b \in Nat /\ e = b + (e - b) /\ m <= e - b
  OBVIOUS
<1>2. QED
  BY <1>1

(* What lies behind a request stays for the next one.                      *)
LEMMA RestIs ==
  ASSUME NEW W \in Seq(Bytes), NEW V \in Seq(Bytes), NEW pend \in Seq(Bytes), NEW buf,
         NEW b \in Nat, NEW n \in Nat, NEW m \in Nat, m <= n, Divides(W, pend, buf, b, n, m),
         Len(W) = m + Len(V), \A k \in 1..Len(V) : W[m + k] = V[k]
  PROVE  Divides(V, pend, buf, b + m, n - m, 0)
<1>1. PICK o \in Nat, v \in Nat : o = Len(pend) /\ v = Len(V)
  OBVIOUS
<1>2. /\ Len(W) = n + o /\ Len(W) = m + v
      /\ \A k \in 1..o : pend[k] = W[n + k]
      /\ \A k \in m..(n - 1) : buf[b + k] = W[k + 1]
      /\ \A k \in 1..v : W[m + k] = V[k]
  BY <1>1 DEF Divides
<1>3. v = n - m + o
  <2>1. m + v = n + o
    BY <1>2
  <2>2. QED
    BY <2>1
<1>4. ASSUME NEW k \in 1..o PROVE pend[k] = V[n - m + k]
  <2>1. PICK x \in 1..v : x = n - m + k /\ m + x = n + k
    <3>1. n - m + k \in 1..v /\ m + (n - m + k) = n + k
      BY <1>3
    <3>2. QED
      BY <3>1
  <2>2. W[m + x] = V[x] /\ pend[k] = W[n + k]
    BY <1>2
  <2>3. QED
    BY <2>1, <2>2
<1>5. ASSUME NEW k \in 0..(n - m - 1) PROVE buf[b + m + k] = V[k + 1]
  <2>1. PICK x \in m..(n - 1), y \in 1..v : x = m + k /\ b + x = b + m + k /\ x + 1 = m + y /\ y = k + 1
    <3>1. m + k \in m..(n - 1) /\ b + (m + k) = b + m + k /\ m + k + 1 = m + (k + 1) /\ k + 1 \in 1..v
      BY <1>3
    <3>2. QED
      BY <3>1
  <2>2. buf[b + x] = W[x + 1] /\ W[m + y] = V[y]
    BY <1>2
  <2>3. QED
    BY <2>1, <2>2
<1>6. QED
  BY <1>1, <1>3, <1>4, <1>5 DEF Divides

LEMMA LeavesRest ==
  ASSUME NEW p, ParserOK(p), NEW rs \in Seq(Requests), rs # << >>, NEW pend \in Seq(Bytes),
         p.state = "READHEADERS", p.bufferProcessed = p.bufferBegin + WireLen(Head(rs)),
         Holds(p, Stream(rs), pend)
  PROVE  Between(p, Tail(rs), pend)
<1>1. PICK b \in Nat, n \in Nat, m \in Nat :
        /\ p.bufferBegin = b /\ p.bufferEnd = b + n /\ m = WireLen(Head(rs))
        /\ p.bufferProcessed = b + m /\ m <= n
  <2>1. Head(rs) \in Requests
    BY HeadTailIs
  <2>2. PICK m \in Nat : m = WireLen(Head(rs))
    BY <2>1, RequestIs
  <2>3. PICK b \in Nat, e \in Nat : b = p.bufferBegin /\ e = p.bufferEnd /\ b + m <= e
    BY <2>2 DEF ParserOK, IndicesOK
  <2>4. PICK n \in Nat : e = b + n /\ m <= n
    <3>1. b \in Nat /\ e \in Nat /\ m \in Nat /\ b + m <= e
      BY <2>2, <2>3
    <3>2. e - b \in Nat /\ e = b + (e - b) /\ m <= e - b
      BY <3>1
    <3>3. QED
      BY <3>2
  <2>5. p.bufferProcessed = b + m
    BY <2>2, <2>3
  <2>6. QED
    BY <2>2, <2>3, <2>4, <2>5
<1>2. PICK W \in Seq(Bytes) : W = Stream(rs)
  BY WiresIs
<1>3. PICK V \in Seq(Bytes) : V = Stream(Tail(rs))
  <2>1. Tail(rs) \in Seq(Requests)
    BY HeadTailIs
  <2>2. QED
    BY <2>1, WiresIs
<1>4. Len(W) = m + Len(V) /\ \A k \in 1..Len(V) : W[m + k] = V[k]
  BY <1>1, <1>2, <1>3, StreamIs
<1>5. Held(p) = n /\ p.bufferProcessed - p.bufferBegin = m
  BY <1>1 DEF Held
<1>6. PICK buf : buf = p.buffer
  OBVIOUS
<1>7. Divides(W, pend, buf, b, n, m)
  BY <1>1, <1>2, <1>5, <1>6 DEF Holds
<1>8. Divides(V, pend, buf, b + m, n - m, 0)
  BY <1>1, <1>4, <1>7, RestIs
<1>9. PICK q : q = ClearRequest(p)
  OBVIOUS
<1>10. q.bufferBegin = b + m /\ q.bufferEnd = b + n /\ q.bufferProcessed = b + m /\ q.buffer = buf
  BY <1>1, <1>6, <1>9, ClearRequestOK
<1>11. Held(q) = n - m /\ q.bufferProcessed - q.bufferBegin = 0
  BY <1>1, <1>10 DEF Held
<1>12. Holds(q, V, pend)
  BY <1>8, <1>10, <1>11 DEF Holds
<1>13. QED
  BY <1>3, <1>9, <1>12 DEF Between

LEMMA DeliversWhole ==
  ASSUME NEW p, ParserOK(p), NEW rs \in Seq(Requests), rs # << >>, NEW pend \in Seq(Bytes),
         NEW b, NEW L, NEW l, NEW y \in Nat, Whole(p, Head(rs), b, L, l), BodyAt(p, Head(rs), y, l),
         p.state = "READHEADERS", p.bufferProcessed = p.bufferBegin + WireLen(Head(rs)),
         Held(p) < MAXREQUESTSIZE, ~p.request.malformed, Holds(p, Stream(rs), pend)
  PROVE  Delivers(p, rs, pend)
<1>1. Decoded(p) = AsSeen(Head(rs))
  <2>1. Head(rs) \in Requests /\ l \in Nat /\ l = Len(Head(rs).body)
    BY DEF Whole
  <2>2. PICK r \in Requests : r = Head(rs)
    BY <2>1
  <2>3. Whole(p, r, b, L, l) /\ BodyAt(p, r, y, l)
    BY <2>2
  <2>4. p.buffer[p.bufferBegin + p.request.line[1]] = r.line
    BY <2>3, SeenLine
  <2>5. FieldsSeen(p) = FieldsSent(r)
    BY <2>3, SeenFields
  <2>6. [k \in 1..(p.request.contents[2] - p.request.contents[1]) |-> p.buffer[p.request.contents[1] + k - 1]] = r.body
    BY <2>1, <2>2, <2>3, SeenBody
  <2>7. QED
    BY <2>2, <2>4, <2>5, <2>6 DEF Decoded, AsSeen, FieldsSeen, FieldsSent
<1>2. Between(p, Tail(rs), pend)
  BY LeavesRest
<1>3. WireLen(Head(rs)) < MAXREQUESTSIZE
  <2>1. PICK m \in Nat : m = WireLen(Head(rs))
    BY RequestIs DEF Whole
  <2>2. PICK s \in Nat, e \in Nat : s = p.bufferBegin /\ e = p.bufferEnd /\ s + m <= e
    BY <2>1 DEF ParserOK, IndicesOK
  <2>3. e - s < MAXREQUESTSIZE
    BY <2>2 DEF Held
  <2>4. QED
    BY <2>1, <2>2, <2>3, SizesAssumption
<1>4. FieldsOK(Head(rs))
  BY DEF Whole
<1>5. QED
  BY <1>1, <1>2, <1>3, <1>4 DEF Delivers

LEMMA DividesLater ==
  ASSUME NEW W, NEW pend, NEW buf, NEW b \in Nat, NEW n \in Nat, NEW m \in Nat, NEW k \in Nat, m <= k,
         Divides(W, pend, buf, b, n, m)
  PROVE  Divides(W, pend, buf, b, n, k)
<1>1. \A i \in k..(n - 1) : i \in m..(n - 1)
  OBVIOUS
<1>2. QED
  BY <1>1 DEF Divides

LEMMA BodyIndex ==
  ASSUME NEW b \in Nat, NEW m \in Nat, NEW l \in Nat, NEW n \in Nat, m + l <= n, NEW k \in 1..l
  PROVE  \E x \in m..(n - 1) : x = m + k - 1 /\ b + x = b + m + k - 1 /\ x + 1 = m + k
<1>1. m + k - 1 \in m..(n - 1) /\ b + (m + k - 1) = b + m + k - 1 /\ m + k - 1 + 1 = m + k
  OBVIOUS
<1>2. QED
  BY <1>1

(* The parser is behind the empty line and waits for the body.             *)
LEMMA AnswersInBody ==
  ASSUME NEW p, ParserOK(p), NEW rs \in Seq(Requests), rs # << >>, NEW pend \in Seq(Bytes),
         Holds(p, Stream(rs), pend), InBody(p, Head(rs)), Held(p) < MAXREQUESTSIZE
  PROVE  Answers(ReadContent(p), rs, pend)
<1>1. PICK r \in Requests : r = Head(rs)
  BY HeadTailIs
<1>2. PICK L \in Nat, l \in Nat : L = NLines(r) /\ l = Len(r.body)
  BY RequestIs
<1>3. WireLen(r) = 3 * L + 2 + l
  BY <1>2 DEF WireLen
<1>4. PICK m \in Nat : m = 3 * L + 2
  BY <1>2
<1>5. InBody(p, r)
  BY <1>1
<1>6. PICK b \in Nat, n \in Nat : p.bufferBegin = b /\ p.bufferEnd = b + n /\ p.bufferProcessed = b + m
  <2>1. PICK b \in Nat, e \in Nat : b = p.bufferBegin /\ e = p.bufferEnd
    BY DEF ParserOK, IndicesOK
  <2>2. p.bufferProcessed = b + m
    BY <1>2, <1>4, <1>5, <2>1 DEF InBody
  <2>3. b + m <= e
    BY <1>4, <2>1, <2>2 DEF ParserOK, IndicesOK
  <2>4. \E n \in Nat : e = b + n /\ m <= n /\ n = e - b
    <3>1. b \in Nat /\ e \in Nat /\ m \in Nat
      BY <1>4, <2>1
    <3>2. QED
      BY <2>3, <3>1, DifferenceIs
  <2>5. QED
    BY <2>1, <2>2, <2>4
<1>7. Knows(p, r, b, L) /\ Kind(r.line) # "get"
  BY <1>2, <1>5, <1>6 DEF InBody
<1>8. PICK cl \in Int : cl = p.request.contentLength /\ cl = BodyLength(r)
  <2>1. p.request.contentLength \in Int
    BY DEF ParserOK, RequestOK
  <2>2. p.request.contentLength = LengthAt(r, L)
    BY <1>7 DEF Knows, RequestAt
  <2>3. LengthAt(r, L) = BodyLength(r)
    BY <1>2, <1>7, ContentLengthIs DEF BodyLength
  <2>4. QED
    BY <2>1, <2>2, <2>3
<1>9. Held(p) = n /\ p.bufferProcessed - p.bufferBegin = m
  BY <1>4, <1>6 DEF Held
<1>10. MAXREQUESTSIZE \in Nat
  BY SizesAssumption
<1>11. CASE cl \notin 0..MAXREQUESTSIZE
  <2>1. ReadContent(p) = Malformed(p)
    BY <1>8, <1>11 DEF ReadContent
  <2>2. Malformed(p).done /\ Malformed(p).parser.request.malformed
    BY MalformedOK
  <2>3. ~FieldsOK(r)
    BY <1>8, <1>11 DEF FieldsOK
  <2>4. QED
    BY <1>1, <2>1, <2>2, <2>3 DEF Answers, Rejects
<1>12. CASE cl \in 0..MAXREQUESTSIZE /\ p.bufferProcessed + cl > p.bufferEnd
  <2>1. ReadContent(p) = NotReady(p)
    BY <1>8, <1>12 DEF ReadContent
  <2>2. l = cl
    BY <1>2, <1>8, <1>12, RequestIs
  <2>3. n < m + l
    BY <1>6, <1>12, <2>2
  <2>4. Held(p) < WireLen(Head(rs))
    BY <1>1, <1>3, <1>4, <1>9, <2>3
  <2>5. Reading(p, rs, pend)
    BY <1>1, <1>5 DEF Reading
  <2>6. QED
    BY <2>1, <2>4, <2>5 DEF Answers, NotReady, Waits
<1>13. CASE cl \in 0..MAXREQUESTSIZE /\ ~(p.bufferProcessed + cl > p.bufferEnd)
  <2>1. l = cl
    BY <1>2, <1>8, <1>13, RequestIs
  <2>2. m + l <= n
    BY <1>4, <1>6, <1>13, <2>1
  <2>3. PICK y \in Nat, z \in Nat : y = b + m /\ z = y + l /\ z = b + (m + l)
    BY <1>4, <1>6
  <2>4. p.bufferProcessed = y /\ p.bufferProcessed + p.request.contentLength = z
    BY <1>6, <1>8, <2>1, <2>3
  <2>5. PICK e : e = [p.request EXCEPT !.contents = <<y, z>>]
    OBVIOUS
  <2>6. PICK q : q = [p EXCEPT !.request = e, !.bufferProcessed = z, !.state = "READHEADERS"]
    OBVIOUS
  <2>7. ReadContent(p) = Ready([p EXCEPT !.request.contents = <<y, z>>, !.bufferProcessed = z,
                                         !.state = "READHEADERS"])
    BY <1>8, <1>13, <2>4 DEF ReadContent
  <2>8. ReadContent(p).done /\ ReadContent(p).parser = q
    BY <2>5, <2>6, <2>7 DEF Ready
  <2>9. FieldsOf(p) /\ RequestOK(p.request)
    BY DEF ParserOK
  <2>10. /\ q.buffer = p.buffer /\ q.bufferBegin = b /\ q.bufferEnd = b + n
         /\ q.bufferProcessed = z /\ q.state = "READHEADERS" /\ q.request = e
    BY <1>6, <2>6, <2>9 DEF FieldsOf
  <2>11. /\ e.line = p.request.line /\ e.headers = p.request.headers
         /\ e.malformed = p.request.malformed /\ e.contents = <<y, z>>
    BY <2>5, <2>9 DEF RequestOK
  <2>12. e.malformed = RequestAt(r, L).malformed
    BY <1>7, <2>11 DEF Knows
  <2>13. CASE e.malformed
    <3>1. ~FieldsOK(r)
      BY <1>2, <2>12, <2>13, FieldsOKIs
    <3>2. QED
      BY <1>1, <2>8, <2>10, <2>13, <3>1 DEF Answers, Rejects
  <2>14. CASE ~e.malformed
    <3>1. FieldsOK(r)
      BY <1>2, <1>8, <1>13, <2>12, <2>14, FieldsOKIs
    <3>2. Whole(q, r, b, L, l)
      <4>1. e.line = SliceAt(0) /\ e.headers = RequestAt(r, L).headers
        <5>1. L # 0
          BY <1>2, RequestIs
        <5>2. QED
          BY <1>7, <2>11, <5>1 DEF Knows, RequestAt
      <4>2. \A i \in 0..(L - 1) : q.buffer[b + 3 * i] = TextOf(r, i)
        BY <1>7, <2>10 DEF Knows
      <4>3. QED
        BY <1>1, <1>2, <1>6, <2>10, <3>1, <4>1, <4>2 DEF Whole
    <3>3. BodyAt(q, r, y, l)
      <4>1. PICK W : W = Stream(rs)
        OBVIOUS
      <4>2. Divides(W, pend, p.buffer, b, n, m)
        BY <1>6, <1>9, <4>1 DEF Holds
      <4>3. BeginsWith(W, r)
        BY <1>1, <4>1, StreamIs
      <4>4. ASSUME NEW k \in 1..l PROVE q.buffer[y + k - 1] = r.body[k]
        <5>1. PICK x \in m..(n - 1) : x = m + k - 1 /\ b + x = y + k - 1 /\ x + 1 = m + k
          <6>1. b \in Nat /\ n \in Nat /\ m \in Nat /\ l \in Nat
            BY <1>2, <1>4, <1>6
          <6>2. \E x \in m..(n - 1) : x = m + k - 1 /\ b + x = b + m + k - 1 /\ x + 1 = m + k
            BY <2>2, <6>1, BodyIndex
          <6>3. QED
            BY <2>3, <6>2
        <5>2. p.buffer[b + x] = W[x + 1]
          BY <4>2 DEF Divides
        <5>3. W[m + k] = r.body[k]
          BY <1>2, <1>4, <4>3 DEF BeginsWith
        <5>4. QED
          BY <2>10, <5>1, <5>2, <5>3
      <4>5. QED
        BY <2>3, <2>10, <2>11, <4>4 DEF BodyAt
    <3>4. Held(q) = n /\ q.bufferProcessed - q.bufferBegin = m + l
      <4>1. \A x, c \in Nat : c + x - c = x
        OBVIOUS
      <4>2. b \in Nat /\ n \in Nat /\ m + l \in Nat
        <5>1. b \in Nat /\ n \in Nat /\ m \in Nat /\ l \in Nat
          BY <1>2, <1>4, <1>6
        <5>2. \A x, c \in Nat : x + c \in Nat
          OBVIOUS
        <5>3. QED
          BY <5>1, <5>2
      <4>3. b + n - b = n /\ b + (m + l) - b = m + l
        BY <4>1, <4>2
      <4>4. QED
        BY <2>3, <2>10, <4>3 DEF Held
    <3>5. Holds(q, Stream(rs), pend)
      <4>1. Divides(Stream(rs), pend, p.buffer, b, n, m)
        BY <1>6, <1>9 DEF Holds
      <4>2. PICK k \in Nat : k = m + l /\ m <= k
        <5>1. m \in Nat /\ l \in Nat
          BY <1>2, <1>4
        <5>2. m + l \in Nat /\ m <= m + l
          BY <5>1
        <5>3. QED
          BY <5>2
      <4>3. Divides(Stream(rs), pend, p.buffer, b, n, k)
        BY <1>4, <1>6, <4>1, <4>2, DividesLater
      <4>4. QED
        BY <2>10, <3>4, <4>2, <4>3 DEF Holds
    <3>6. ParserOK(q)
      BY <2>8, ReadContentOK
    <3>7. q.bufferProcessed = q.bufferBegin + WireLen(Head(rs))
      BY <1>1, <1>3, <1>4, <2>3, <2>10
    <3>8. Held(q) < MAXREQUESTSIZE
      BY <1>9, <3>4
    <3>9. Delivers(q, rs, pend)
      BY <1>1, <2>3, <2>10, <2>14, <3>2, <3>3, <3>5, <3>6, <3>7, <3>8, DeliversWhole
    <3>10. QED
      BY <2>8, <3>9 DEF Answers
  <2>15. e.malformed \in BOOLEAN
    BY <2>9, <2>11 DEF RequestOK
  <2>16. QED
    BY <2>13, <2>14
<1>14. QED
  BY <1>11, <1>12, <1>13

(* How many line ends of r there are among n bytes.                        *)
LEMMA LinesWithin ==
  ASSUME NEW n \in Nat, NEW L \in Nat, NEW j \in Nat, j <= L, 3 * j <= n
  PROVE  \E J \in Nat : j <= J /\ J <= L /\ 3 * J <= n /\ (J < L => n < 3 * J + 3)
<1>1. CASE 3 * L <= n
  <2>1. j <= L /\ L <= L /\ 3 * L <= n /\ (L < L => n < 3 * L + 3)
    BY <1>1
  <2>2. QED
    BY <2>1
<1>2. CASE ~(3 * L <= n)
  <2>1. PICK J \in Nat : J = n \div 3
    OBVIOUS
  <2>2. j <= J /\ J <= L /\ 3 * J <= n /\ n < 3 * J + 3
    BY <1>2, <2>1
  <2>3. QED
    BY <2>2
<1>3. QED
  BY <1>1, <1>2

(* The parser is behind some of the lines.                                 *)
LEMMA AnswersInHeaders ==
  ASSUME NEW p, ParserOK(p), NEW rs \in Seq(Requests), rs # << >>, NEW pend \in Seq(Bytes),
         Holds(p, Stream(rs), pend), InHeaders(p, Head(rs)), Held(p) < MAXREQUESTSIZE
  PROVE  Answers(ReadHeaders(p), rs, pend)
<1>1. PICK r \in Requests, W \in Seq(Bytes) : r = Head(rs) /\ W = Stream(rs)
  BY HeadTailIs, WiresIs
<1>2. PICK L \in Nat, l \in Nat : L = NLines(r) /\ l = Len(r.body) /\ 1 <= L
  BY RequestIs
<1>3. WireLen(r) = 3 * L + 2 + l
  BY <1>2 DEF WireLen
<1>4. PICK j \in 0..L : p.bufferProcessed = p.bufferBegin + 3 * j /\ Knows(p, r, p.bufferBegin, j)
  BY <1>1, <1>2 DEF InHeaders
<1>5. PICK x \in Nat : x = 3 * j /\ j \in Nat /\ j <= L
  BY <1>2, <1>4
<1>6. PICK b \in Nat, n \in Nat : /\ p.bufferBegin = b /\ p.bufferEnd = b + n /\ p.bufferProcessed = b + x
                                  /\ x <= n
  <2>1. PICK b \in Nat, e \in Nat : b = p.bufferBegin /\ e = p.bufferEnd
    BY DEF ParserOK, IndicesOK
  <2>2. p.bufferProcessed = b + x
    BY <1>4, <1>5, <2>1
  <2>3. b + x <= e
    BY <2>1, <2>2 DEF ParserOK, IndicesOK
  <2>4. \E n \in Nat : e = b + n /\ x <= n /\ n = e - b
    <3>1. b \in Nat /\ e \in Nat /\ x \in Nat
      BY <1>5, <2>1
    <3>2. QED
      BY <2>3, <3>1, DifferenceIs
  <2>5. QED
    BY <2>1, <2>2, <2>4
<1>7. PICK J \in Nat : j <= J /\ J <= L /\ 3 * J <= n /\ (J < L => n < 3 * J + 3)
  <2>1. j \in Nat /\ n \in Nat /\ L \in Nat /\ j <= L /\ 3 * j <= n
    BY <1>2, <1>5, <1>6
  <2>2. QED
    BY <2>1, LinesWithin
<1>8. Held(p) = n /\ p.bufferProcessed - p.bufferBegin = x
  <2>1. \A c, y \in Nat : c + y - c = y
    OBVIOUS
  <2>2. b \in Nat /\ n \in Nat /\ x \in Nat
    BY <1>5, <1>6
  <2>3. b + n - b = n /\ b + x - b = x
    BY <2>1, <2>2
  <2>4. QED
    BY <1>6, <2>3 DEF Held
<1>9. Divides(W, pend, p.buffer, b, n, x)
  BY <1>1, <1>6, <1>8 DEF Holds
<1>10. Scans(p, r, W, b, n, L, j, J)
  <2>1. BeginsWith(W, r)
    BY <1>1, StreamIs
  <2>2. \A k \in (3 * j)..(n - 1) : p.buffer[b + k] = W[k + 1]
    BY <1>5, <1>9 DEF Divides
  <2>3. p.bufferBegin = b /\ p.bufferEnd = b + n /\ p.bufferProcessed = b + 3 * j
    BY <1>5, <1>6
  <2>4. b \in Nat /\ n \in Nat /\ L \in Nat /\ j \in Nat /\ J \in Nat /\ 1 <= L
    BY <1>2, <1>5, <1>6, <1>7
  <2>5. QED
    BY <1>1, <1>2, <1>7, <2>1, <2>2, <2>3, <2>4 DEF Scans
<1>11. Knows(p, r, b, j)
  BY <1>4, <1>6
<1>12. PICK q : q = ScanHeaders(p)
  OBVIOUS
<1>13. /\ ParserOK(q) /\ q.state = p.state
       /\ q.bufferBegin = b /\ q.bufferEnd = b + n
       /\ q.bufferProcessed = IF 3 * L + 2 <= n THEN b + 3 * L + 2 ELSE b + 3 * J
       /\ Knows(q, r, b, J)
       /\ \A k \in (3 * J)..(n - 1) : q.buffer[b + k] = W[k + 1]
  <2>1. Scanned(ScanHeaders(p), p, r, W, b, n, L, J)
    BY <1>10, <1>11, ScanHeadersIs
  <2>2. Scanned(q, p, r, W, b, n, L, J)
    BY <1>12, <2>1
  <2>3. QED
    BY <2>2 DEF Scanned
<1>14. PICK z \in Nat : z = 3 * J
  BY <1>7
<1>15. Divides(W, pend, q.buffer, b, n, z)
  <2>1. \A k \in z..(n - 1) : q.buffer[b + k] = W[k + 1]
    BY <1>13, <1>14
  <2>2. QED
    BY <1>9, <2>1 DEF Divides
<1>16. Held(q) = n /\ p.state = "READHEADERS"
  BY <1>6, <1>8, <1>13 DEF Held, InHeaders
<1>17. CASE ~(3 * L + 2 <= n)
  <2>1. EmptyLines(p) = {}
    BY <1>10, <1>17, EmptyLinesAre
  <2>2. ReadHeaders(p) = NotReady(q)
    BY <1>12, <2>1 DEF ReadHeaders
  <2>3. q.bufferProcessed = b + z
    BY <1>13, <1>14, <1>17
  <2>4. q.bufferProcessed - q.bufferBegin = z
    <3>1. b + z - b = z
      BY <1>6, <1>14
    <3>2. QED
      BY <1>13, <2>3, <3>1
  <2>5. Holds(q, W, pend)
    BY <1>13, <1>15, <1>16, <2>4 DEF Holds
  <2>6. InHeaders(q, r)
    <3>1. J \in 0..L
      BY <1>2, <1>7
    <3>2. q.bufferProcessed = q.bufferBegin + 3 * J /\ Knows(q, r, q.bufferBegin, J)
      BY <1>13, <1>14, <2>3
    <3>3. QED
      BY <1>2, <1>13, <1>16, <3>1, <3>2 DEF InHeaders
  <2>7. Reading(q, rs, pend)
    BY <1>1, <2>5, <2>6 DEF Reading
  <2>8. n < 3 * L + 2 + l
    <3>1. n \in Nat /\ L \in Nat /\ l \in Nat
      BY <1>2, <1>6
    <3>2. QED
      BY <1>17, <3>1
  <2>9. Held(q) < WireLen(Head(rs))
    BY <1>1, <1>3, <1>16, <2>8
  <2>10. QED
    BY <2>2, <2>7, <2>9 DEF Answers, NotReady, Waits
<1>18. CASE 3 * L + 2 <= n
  <2>1. EmptyLines(p) # {}
    BY <1>10, <1>18, EmptyLinesAre
  <2>2. J = L
    BY <1>2, <1>6, <1>7, <1>18
  <2>3. PICK m \in Nat : m = 3 * L + 2 /\ z <= m
    BY <1>2, <1>14, <2>2
  <2>4. q.bufferProcessed = b + m
    <3>1. n \in Nat /\ L \in Nat /\ m = 3 * L + 2 /\ m <= n
      BY <1>2, <1>6, <1>18, <2>3
    <3>2. QED
      BY <1>13, <1>18, <2>3, <3>1
  <2>5. Knows(q, r, b, L)
    BY <1>13, <2>2
  <2>6. q.request.line = SliceAt(0) /\ SliceAt(0) # NoSlice
    <3>1. L # 0
      BY <1>2
    <3>2. QED
      BY <2>5, <3>1 DEF Knows, RequestAt, SliceAt, NoSlice
  <2>7. IsGet(q) <=> Kind(r.line) = "get"
    <3>1. q.request.line[1] = 3 * 0
      BY <2>6 DEF SliceAt
    <3>2. 0 \in 0..(L - 1)
      BY <1>2
    <3>3. q.buffer[b + 3 * 0] = TextOf(r, 0) /\ TextOf(r, 0) = r.line
      BY <2>5, <3>2, FieldsAre DEF Knows
    <3>4. QED
      BY <1>13, <3>1, <3>3 DEF IsGet
  <2>8. q.request.contentLength = ContentLength(r)
    BY <1>2, <2>5, ContentLengthIs DEF Knows, RequestAt
  <2>9. q.bufferProcessed - q.bufferBegin = m
    <3>1. b + m - b = m
      BY <1>6, <2>3
    <3>2. QED
      BY <1>13, <2>4, <3>1
  <2>10. Holds(q, Stream(rs), pend)
    <3>1. Divides(W, pend, q.buffer, b, n, m)
      BY <1>6, <1>14, <1>15, <2>3, DividesLater
    <3>2. QED
      BY <1>1, <1>13, <1>16, <2>9, <3>1 DEF Holds
  <2>11. Held(q) < MAXREQUESTSIZE
    BY <1>8, <1>16
  <2>12. CASE IsGet(q) \/ q.request.contentLength = 0
    <3>1. ReadHeaders(p) = Ready(q)
      BY <1>12, <2>1, <2>6, <2>12 DEF ReadHeaders
    <3>2. BodyLength(r) = 0
      BY <2>7, <2>8, <2>12 DEF BodyLength
    <3>3. BodyLength(r) \in 0..MAXREQUESTSIZE /\ l = 0
      <4>1. 0 \in 0..MAXREQUESTSIZE
        BY SizesAssumption
      <4>2. QED
        BY <1>2, <3>2, <4>1, RequestIs
    <3>4. q.request.malformed = RequestAt(r, L).malformed
      BY <2>5 DEF Knows
    <3>5. CASE q.request.malformed
      <4>1. ~FieldsOK(r)
        BY <1>2, <3>4, <3>5, FieldsOKIs
      <4>2. QED
        BY <1>1, <3>1, <3>5, <4>1 DEF Answers, Rejects, Ready
    <3>6. CASE ~q.request.malformed
      <4>1. FieldsOK(r)
        BY <1>2, <3>3, <3>4, <3>6, FieldsOKIs
      <4>2. Whole(q, r, b, L, l)
        BY <1>1, <1>2, <1>6, <1>13, <2>5, <2>6, <4>1 DEF Whole, Knows
      <4>3. BodyAt(q, r, 0, l)
        BY <2>5, <3>3 DEF BodyAt, Knows, RequestAt
      <4>4. q.bufferProcessed = q.bufferBegin + WireLen(Head(rs))
        <5>1. WireLen(r) = m
          BY <1>2, <1>3, <2>3, <3>3
        <5>2. QED
          BY <1>1, <1>13, <2>4, <5>1
      <4>5. q.state = "READHEADERS"
        BY <1>13, <1>16
      <4>6. Whole(q, Head(rs), b, L, l) /\ BodyAt(q, Head(rs), 0, l)
        BY <1>1, <4>2, <4>3
      <4>7. 0 \in Nat
        OBVIOUS
      <4>8. Delivers(q, rs, pend)
        BY <1>13, <2>10, <2>11, <3>6, <4>4, <4>5, <4>6, <4>7, DeliversWhole
      <4>9. QED
        BY <3>1, <4>8 DEF Answers, Ready
    <3>7. QED
      BY <3>5, <3>6
  <2>13. CASE ~(IsGet(q) \/ q.request.contentLength = 0)
    <3>1. PICK c : c = [q EXCEPT !.state = "READCONTENT"]
      OBVIOUS
    <3>2. ReadHeaders(p) = ReadContent(c)
      BY <1>12, <2>1, <2>6, <2>13, <3>1 DEF ReadHeaders
    <3>3. ParserOK(c)
      BY <1>13, <3>1, StateOK
    <3>4. /\ c.buffer = q.buffer /\ c.bufferBegin = q.bufferBegin /\ c.bufferEnd = q.bufferEnd
          /\ c.bufferProcessed = q.bufferProcessed /\ c.state = "READCONTENT" /\ c.request = q.request
      <4>1. FieldsOf(q)
        BY <1>13 DEF ParserOK
      <4>2. QED
        BY <3>1, <4>1 DEF FieldsOf
    <3>5. InBody(c, r)
      <4>1. c.bufferBegin = b /\ Knows(c, r, b, L)
        BY <1>13, <2>5, <3>4 DEF Knows
      <4>2. c.bufferProcessed = b + 3 * L + 2
        BY <1>2, <1>6, <2>3, <2>4, <3>4
      <4>3. QED
        BY <1>2, <2>7, <2>8, <2>13, <3>4, <4>1, <4>2 DEF InBody
    <3>6. Holds(c, Stream(rs), pend) /\ Held(c) < MAXREQUESTSIZE
      BY <2>10, <2>11, <3>4 DEF Holds, Held
    <3>7. InBody(c, Head(rs))
      BY <1>1, <3>5
    <3>8. QED
      BY <3>2, <3>3, <3>6, <3>7, AnswersInBody
  <2>14. QED
    BY <2>12, <2>13
<1>19. QED
  BY <1>17, <1>18

(* No request is outstanding and no byte of one has been received.         *)
LEMMA AnswersNothing ==
  ASSUME NEW p, ParserOK(p), NEW pend \in Seq(Bytes), Reading(p, << >>, pend)
  PROVE  Answers(ReadHeaders(p), << >>, pend)
<1>1. Divides(<< >>, pend, p.buffer, p.bufferBegin, Held(p), p.bufferProcessed - p.bufferBegin)
  BY StreamEmpty DEF Reading, Holds
<1>2. PICK b \in Nat : p.bufferBegin = b /\ p.bufferEnd = b /\ p.bufferProcessed = b /\ Len(pend) = 0
  <2>1. PICK b \in Nat, e \in Nat : b = p.bufferBegin /\ e = p.bufferEnd /\ b <= e
    BY DEF ParserOK, IndicesOK
  <2>2. p.bufferProcessed = b
    BY <2>1 DEF Reading
  <2>3. PICK o \in Nat : o = Len(pend)
    OBVIOUS
  <2>4. Len(<< >>) = 0 /\ Len(<< >>) = Held(p) + Len(pend)
    BY <1>1 DEF Divides
  <2>5. 0 = e - b + o
    BY <2>1, <2>3, <2>4 DEF Held
  <2>6. e = b /\ o = 0
    BY <2>1, <2>5
  <2>7. QED
    BY <2>1, <2>2, <2>3, <2>6
<1>3. p.state = "READHEADERS" /\ p.request = NoRequest /\ FieldsOf(p)
  BY DEF Reading, ParserOK
<1>4. CRLFs(p) = {}
  <2>1. b..(b - 2) = {}
    BY <1>2
  <2>2. QED
    BY <1>2, <2>1 DEF CRLFs
<1>5. /\ EmptyLines(p) = {} /\ TextLines(p) = {} /\ Visited(p) = {} /\ RequestLine(p) = {}
      /\ HeaderLines(p) = {} /\ BadRequestLines(p) = {} /\ BadHeaderLines(p) = {} /\ ContentLengthLines(p) = {}
  BY <1>4 DEF EmptyLines, TextLines, Visited, RequestLine, HeaderLines, BadRequestLines, BadHeaderLines,
              ContentLengthLines
<1>6. PICK q : q = ScanHeaders(p)
  OBVIOUS
<1>7. PICK buffer, e : /\ buffer = [k \in 0..(p.bufferSize - 1) |-> IF k \in {} THEN NUL ELSE p.buffer[k]]
                       /\ e = [line |-> p.request.line, headers |-> p.request.headers \cup {},
                               contentLength |-> p.request.contentLength, contents |-> p.request.contents,
                               malformed |-> p.request.malformed]
  OBVIOUS
<1>8. q = [p EXCEPT !.request = e, !.buffer = buffer, !.bufferProcessed = Max({p.bufferProcessed} \cup {})]
  <2>1. p.request.malformed = (p.request.malformed \/ {} # {} \/ {} # {})
    <3>1. p.request.malformed = FALSE
      BY <1>3 DEF NoRequest
    <3>2. FALSE = (FALSE \/ {} # {} \/ {} # {})
      OBVIOUS
    <3>3. QED
      BY <3>1, <3>2, Zenon
  <2>2. {SliceOf(p, i) : i \in {} \ {}} = {} /\ {i + 2 : i \in {}} = {}
    OBVIOUS
  <2>3. QED
    BY <1>5, <1>6, <1>7, <2>1, <2>2 DEF ScanHeaders
<1>9. e = NoRequest
  BY <1>3, <1>7 DEF NoRequest
<1>10. Max({p.bufferProcessed} \cup {}) = b
  <2>1. {p.bufferProcessed} \cup {} = {b} /\ b \in Nat
    BY <1>2
  <2>2. Max({b}) = b
    BY <2>1, MaxIs
  <2>3. QED
    BY <2>1, <2>2
<1>11. /\ q.request = NoRequest /\ q.state = "READHEADERS" /\ q.bufferBegin = b /\ q.bufferEnd = b
       /\ q.bufferProcessed = b
  BY <1>2, <1>3, <1>8, <1>9, <1>10 DEF FieldsOf
<1>12. Held(q) = 0 /\ q.bufferProcessed - q.bufferBegin = 0
  BY <1>2, <1>11 DEF Held
<1>13. Holds(q, << >>, pend)
  <2>1. Len(<< >>) = 0 + Len(pend) /\ 1..Len(pend) = {} /\ 0..(0 - 1) = {}
    BY <1>2
  <2>2. Divides(<< >>, pend, q.buffer, q.bufferBegin, 0, 0)
    BY <2>1 DEF Divides
  <2>3. QED
    BY <1>12, <2>2 DEF Holds
<1>14. Reading(q, << >>, pend)
  BY <1>11, <1>13, StreamEmpty DEF Reading
<1>15. ReadHeaders(p) = NotReady(q)
  BY <1>5, <1>6 DEF ReadHeaders
<1>16. QED
  BY <1>14, <1>15 DEF Answers, NotReady, Waits

LEMMA AnswersRead ==
  ASSUME NEW p, ParserOK(p), NEW rs \in Seq(Requests), NEW pend \in Seq(Bytes), Reading(p, rs, pend)
  PROVE  Answers(ReadRequest(p), rs, pend)
<1>1. PICK h \in Nat : h = Held(p) /\ MAXREQUESTSIZE \in Nat /\ MAXREQUESTSIZE > 0
  <2>1. p.bufferBegin \in Nat /\ p.bufferEnd \in Nat /\ p.bufferBegin <= p.bufferEnd
    BY DEF ParserOK, IndicesOK
  <2>2. Held(p) \in Nat
    BY <2>1 DEF Held
  <2>3. QED
    BY <2>2, SizesAssumption
<1>2. Len(Stream(rs)) = h + Len(pend)
  BY <1>1 DEF Reading, Holds, Divides
<1>3. rs # << >> \/ h = 0
  <2>1. SUFFICES ASSUME rs = << >> PROVE h = 0
    OBVIOUS
  <2>2. PICK o \in Nat : o = Len(pend)
    OBVIOUS
  <2>3. Len(<< >>) = 0
    OBVIOUS
  <2>4. 0 = h + o
    BY <1>2, <2>1, <2>2, <2>3, StreamEmpty
  <2>5. QED
    BY <1>1, <2>2, <2>4
<1>4. CASE h >= MAXREQUESTSIZE
  <2>1. ReadRequest(p) = Malformed(p)
    BY <1>1, <1>4 DEF ReadRequest, Held
  <2>2. Malformed(p).done /\ Malformed(p).parser.request.malformed
    BY MalformedOK
  <2>3. rs # << >>
    BY <1>1, <1>3, <1>4
  <2>4. Len(Stream(rs)) >= MAXREQUESTSIZE
    <3>1. PICK o \in Nat : o = Len(pend)
      OBVIOUS
    <3>2. h + o >= MAXREQUESTSIZE
      BY <1>1, <1>4, <3>1
    <3>3. QED
      BY <1>2, <3>1, <3>2
  <2>5. QED
    BY <2>1, <2>2, <2>3, <2>4 DEF Answers, Rejects
<1>5. CASE ~(h >= MAXREQUESTSIZE)
  <2>1. ReadRequest(p) = IF p.state = "READHEADERS" THEN ReadHeaders(p) ELSE ReadContent(p)
    BY <1>1, <1>5 DEF ReadRequest, Held
  <2>2. Held(p) < MAXREQUESTSIZE
    BY <1>1, <1>5
  <2>3. CASE rs = << >>
    <3>1. p.state = "READHEADERS"
      BY <2>3 DEF Reading
    <3>2. Answers(ReadHeaders(p), << >>, pend)
      BY <2>3, AnswersNothing
    <3>3. QED
      BY <2>1, <2>3, <3>1, <3>2
  <2>4. CASE rs # << >> /\ InHeaders(p, Head(rs))
    <3>1. p.state = "READHEADERS"
      BY <2>4 DEF InHeaders
    <3>2. Holds(p, Stream(rs), pend)
      BY DEF Reading
    <3>3. Answers(ReadHeaders(p), rs, pend)
      BY <2>2, <2>4, <3>2, AnswersInHeaders
    <3>4. QED
      BY <2>1, <3>1, <3>3
  <2>5. CASE rs # << >> /\ InBody(p, Head(rs))
    <3>1. p.state # "READHEADERS"
      BY <2>5 DEF InBody
    <3>2. Holds(p, Stream(rs), pend)
      BY DEF Reading
    <3>3. Answers(ReadContent(p), rs, pend)
      BY <2>2, <2>5, <3>2, AnswersInBody
    <3>4. QED
      BY <2>1, <3>1, <3>3
  <2>6. QED
    BY <2>3, <2>4, <2>5 DEF Reading
<1>6. QED
  BY <1>4, <1>5

-----------------------------------------------------------------------------
(***************************************************************************)
(* The buffer between two reads.                                           *)
(***************************************************************************)
(* What the parser knows of a request lies below the scan position, and    *)
(* relative to bufferBegin.                                                *)
Keeps(q, p, c, b, m) ==
  /\ b \in Nat /\ c \in Nat /\ m \in Nat
  /\ p.bufferBegin = b /\ p.bufferProcessed = b + m
  /\ q.bufferBegin = c /\ q.bufferProcessed = c + m
  /\ q.state = p.state /\ q.request = p.request
  /\ \A k \in 0..(m - 1) : q.buffer[c + k] = p.buffer[b + k]

LEMMA StaysInRequest ==
  ASSUME NEW p, NEW q, NEW r \in Requests, NEW b, NEW c, NEW m, Keeps(q, p, c, b, m)
  PROVE  (InHeaders(p, r) => InHeaders(q, r)) /\ (InBody(p, r) => InBody(q, r))
<1>0. /\ b \in Nat /\ c \in Nat /\ m \in Nat
      /\ p.bufferBegin = b /\ p.bufferProcessed = b + m
      /\ q.bufferBegin = c /\ q.bufferProcessed = c + m
      /\ q.state = p.state /\ q.request = p.request
      /\ \A k \in 0..(m - 1) : q.buffer[c + k] = p.buffer[b + k]
  BY DEF Keeps
<1>1. PICK L \in Nat : L = NLines(r)
  BY RequestIs
<1>2. ASSUME NEW j \in Nat, 3 * j <= m, Knows(p, r, b, j) PROVE Knows(q, r, c, j)
  <2>1. \A i \in 0..(j - 1) : q.buffer[c + 3 * i] = TextOf(r, i)
    <3>1. TAKE i \in 0..(j - 1)
    <3>2. PICK k \in 0..(m - 1) : k = 3 * i
      <4>1. 3 * i \in 0..(m - 1)
        BY <1>0, <1>2
      <4>2. QED
        BY <4>1
    <3>3. p.buffer[b + 3 * i] = TextOf(r, i)
      BY <1>2 DEF Knows
    <3>4. QED
      BY <1>0, <3>2, <3>3
  <2>2. QED
    BY <1>0, <1>2, <2>1 DEF Knows
<1>3. ASSUME InHeaders(p, r) PROVE InHeaders(q, r)
  <2>1. PICK j \in 0..L : p.bufferProcessed = p.bufferBegin + 3 * j /\ Knows(p, r, p.bufferBegin, j)
    BY <1>1, <1>3 DEF InHeaders
  <2>2. j \in Nat /\ 3 * j = m
    BY <1>0, <1>1, <2>1
  <2>3. Knows(q, r, c, j) /\ q.bufferProcessed = q.bufferBegin + 3 * j
    BY <1>0, <1>2, <2>1, <2>2
  <2>4. QED
    BY <1>0, <1>1, <1>3, <2>1, <2>3 DEF InHeaders
<1>4. ASSUME InBody(p, r) PROVE InBody(q, r)
  <2>1. b + m = b + 3 * L + 2
    BY <1>0, <1>1, <1>4 DEF InBody
  <2>2. m = 3 * L + 2
    BY <1>0, <1>1, <2>1
  <2>3. 3 * L <= m /\ c + m = c + 3 * L + 2
    BY <1>0, <1>1, <2>2
  <2>4. Knows(q, r, c, L)
    BY <1>0, <1>1, <1>2, <1>4, <2>3 DEF InBody
  <2>5. QED
    BY <1>0, <1>1, <1>4, <2>3, <2>4 DEF InBody
<1>5. QED
  BY <1>3, <1>4

(* The offsets of a parser, as numbers.                                    *)
LEMMA OffsetsAre ==
  ASSUME NEW p, ParserOK(p)
  PROVE  \E b, n, m \in Nat : /\ p.bufferBegin = b /\ p.bufferEnd = b + n /\ p.bufferProcessed = b + m /\ m <= n
                              /\ Held(p) = n /\ p.bufferProcessed - p.bufferBegin = m
                              /\ b + n <= p.bufferSize /\ p.bufferSize \in Nat
<1>1. PICK b \in Nat, e \in Nat, f \in Nat, z \in Nat :
        b = p.bufferBegin /\ e = p.bufferEnd /\ f = p.bufferProcessed /\ z = p.bufferSize
  BY DEF ParserOK, IndicesOK
<1>2. b <= f /\ f <= e /\ e <= z
  BY <1>1 DEF ParserOK, IndicesOK
<1>3. PICK n \in Nat, m \in Nat : n = e - b /\ m = f - b
  BY <1>1, <1>2
<1>4. b \in Nat /\ e \in Nat /\ f \in Nat
  BY <1>1
<1>5. e = b + n /\ f = b + m /\ m <= n
  BY <1>2, <1>3, <1>4
<1>6. QED
  BY <1>1, <1>2, <1>3, <1>5 DEF Held

(* Moving the received bytes to the front changes no offset.               *)
Moved(q, p, b, n, m) ==
  /\ q.state = p.state /\ q.request = p.request
  /\ q.bufferBegin = 0 /\ q.bufferEnd = n /\ q.bufferProcessed = m
  /\ \A k \in 0..(n - 1) : q.buffer[k] = p.buffer[b + k]

LEMMA BeginAddDataMoves ==
  ASSUME NEW p, ParserOK(p), NEW b \in Nat, NEW n \in Nat, NEW m \in Nat,
         p.bufferBegin = b, p.bufferEnd = b + n, p.bufferProcessed = b + m, m <= n
  PROVE  Moved(BeginAddData(p), p, b, n, m)
<1>1. PICK q : q = BeginAddData(p)
  OBVIOUS
<1>2. b + n - b = n /\ b + m - b = m
  OBVIOUS
<1>3. CASE n = 0
  <2>1. q = [p EXCEPT !.bufferBegin = 0, !.bufferEnd = 0, !.bufferProcessed = 0]
    BY <1>1, <1>2, <1>3 DEF BeginAddData
  <2>2. FieldsOf(p)
    BY DEF ParserOK
  <2>3. q.state = p.state /\ q.request = p.request /\ q.bufferBegin = 0 /\ q.bufferEnd = 0 /\ q.bufferProcessed = 0
    BY <2>1, <2>2 DEF FieldsOf
  <2>4. m = 0 /\ 0..(n - 1) = {}
    BY <1>3
  <2>5. QED
    BY <1>1, <1>3, <2>3, <2>4 DEF Moved
<1>4. CASE n > 0
  <2>1. PICK size \in Nat : size = GrownSize(p) /\ n <= size
    <3>1. p.bufferSize \in Nat /\ n <= p.bufferSize
      BY DEF ParserOK, IndicesOK
    <3>2. GrownSize(p) = IF n * 2 > p.bufferSize THEN p.bufferSize * 2 ELSE p.bufferSize
      BY <1>2 DEF GrownSize
    <3>3. PICK z \in Nat : z = p.bufferSize
      BY <3>1
    <3>4. z * 2 \in Nat /\ n <= z * 2
      BY <3>1, <3>3
    <3>5. QED
      BY <3>1, <3>2, <3>3, <3>4
  <2>2. PICK moved : moved = [i \in 0..(size - 1) |-> IF i < n THEN p.buffer[b + i] ELSE NUL]
    OBVIOUS
  <2>3. MovedToFront(p) = moved
    BY <1>2, <2>1, <2>2 DEF MovedToFront
  <2>4. q = [buffer |-> moved, bufferSize |-> size, bufferBegin |-> 0, bufferEnd |-> n,
             bufferProcessed |-> m, state |-> p.state, request |-> p.request]
    BY <1>1, <1>2, <1>4, <2>1, <2>3 DEF BeginAddData
  <2>5. \A k \in 0..(n - 1) : k \in 0..(size - 1) /\ k < n
    BY <2>1
  <2>6. \A k \in 0..(n - 1) : moved[k] = p.buffer[b + k]
    BY <2>2, <2>5
  <2>7. QED
    BY <1>1, <2>4, <2>6 DEF Moved
<1>5. QED
  BY <1>3, <1>4

LEMMA BeginAddDataWaits ==
  ASSUME NEW p, ParserOK(p), NEW rs \in Seq(Requests), NEW pend, Waits(p, rs, pend)
  PROVE  Waits(BeginAddData(p), rs, pend)
<1>1. PICK b \in Nat, n \in Nat, m \in Nat :
        /\ p.bufferBegin = b /\ p.bufferEnd = b + n /\ p.bufferProcessed = b + m /\ m <= n
        /\ Held(p) = n /\ p.bufferProcessed - p.bufferBegin = m
  BY OffsetsAre
<1>2. PICK q : /\ q = BeginAddData(p) /\ q.state = p.state /\ q.request = p.request
               /\ q.bufferBegin = 0 /\ q.bufferEnd = n /\ q.bufferProcessed = m
               /\ \A k \in 0..(n - 1) : q.buffer[k] = p.buffer[b + k]
  <2>1. Moved(BeginAddData(p), p, b, n, m)
    BY <1>1, BeginAddDataMoves
  <2>2. QED
    BY <2>1 DEF Moved
<1>3. Held(q) = n /\ q.bufferProcessed - q.bufferBegin = m
  BY <1>1, <1>2 DEF Held
<1>4. \A k \in 0..(n - 1) : q.buffer[0 + k] = p.buffer[b + k]
  <2>1. \A k \in 0..(n - 1) : 0 + k = k
    OBVIOUS
  <2>2. QED
    BY <1>2, <2>1
<1>5. Holds(q, Stream(rs), pend)
  <2>1. Divides(Stream(rs), pend, p.buffer, b, n, m)
    BY <1>1 DEF Waits, Reading, Holds
  <2>2. \A k \in m..(n - 1) : k \in 0..(n - 1)
    BY <1>1
  <2>3. Divides(Stream(rs), pend, q.buffer, 0, n, m)
    BY <1>4, <2>1, <2>2 DEF Divides
  <2>4. QED
    BY <1>2, <1>3, <2>3 DEF Holds
<1>6. ASSUME rs # << >> PROVE InHeaders(q, Head(rs)) \/ InBody(q, Head(rs))
  <2>1. PICK r \in Requests : r = Head(rs)
    BY <1>6, HeadTailIs
  <2>2. \A k \in 0..(m - 1) : k \in 0..(n - 1)
    BY <1>1
  <2>3. m = 0 + m /\ 0 \in Nat
    BY <1>1
  <2>4. (InHeaders(p, r) => InHeaders(q, r)) /\ (InBody(p, r) => InBody(q, r))
    <3>1. \A k \in 0..(m - 1) : q.buffer[0 + k] = p.buffer[b + k]
      BY <1>4, <2>2
    <3>2. q.bufferBegin = 0 /\ q.bufferProcessed = 0 + m /\ p.bufferBegin = b /\ p.bufferProcessed = b + m
      BY <1>1, <1>2, <2>3
    <3>3. b \in Nat /\ m \in Nat
      BY <1>1
    <3>4. Keeps(q, p, 0, b, m)
      BY <1>2, <2>3, <3>1, <3>2, <3>3 DEF Keeps
    <3>5. QED
      BY <3>4, StaysInRequest
  <2>5. QED
    BY <1>6, <2>1, <2>4 DEF Waits, Reading
<1>7. ASSUME rs = << >> PROVE q.state = "READHEADERS" /\ q.bufferProcessed = q.bufferBegin /\ q.request = NoRequest
  <2>1. p.state = "READHEADERS" /\ p.bufferProcessed = p.bufferBegin /\ p.request = NoRequest
    BY <1>7 DEF Waits, Reading
  <2>2. m = 0
    BY <1>1, <2>1
  <2>3. QED
    BY <1>2, <2>1, <2>2
<1>8. QED
  BY <1>1, <1>2, <1>3, <1>5, <1>6, <1>7 DEF Waits, Reading

(* recv delivers the next bytes of the stream behind the received ones.    *)
LEMMA EndAddDataReads ==
  ASSUME NEW p, ParserOK(p), NEW rs \in Seq(Requests), NEW pend \in Seq(Bytes), Reading(p, rs, pend),
         NEW d \in 1..Len(pend), d <= Room(p)
  PROVE  Reading(EndAddData(p, SubSeq(pend, 1, d)), rs, SubSeq(pend, d + 1, Len(pend)))
<1>1. PICK b \in Nat, n \in Nat, m \in Nat :
        /\ p.bufferBegin = b /\ p.bufferEnd = b + n /\ p.bufferProcessed = b + m /\ m <= n
        /\ Held(p) = n /\ p.bufferProcessed - p.bufferBegin = m
        /\ b + n <= p.bufferSize /\ p.bufferSize \in Nat
  BY OffsetsAre
<1>2. PICK o \in Nat, size \in Nat : o = Len(pend) /\ size = p.bufferSize
  BY <1>1
<1>3. d \in Nat /\ 1 <= d /\ d <= o /\ b + n + d <= size
  <2>1. size - (b + n) >= d
    BY <1>1, <1>2 DEF Room
  <2>2. d \in Nat /\ 1 <= d /\ d <= o
    BY <1>2
  <2>3. QED
    BY <1>1, <1>2, <2>1, <2>2
<1>4. PICK data : data = SubSeq(pend, 1, d)
  OBVIOUS
<1>5. Len(data) = d /\ \A k \in 1..d : data[k] = pend[k]
  BY <1>2, <1>3, <1>4
<1>6. PICK rest : rest = SubSeq(pend, d + 1, o)
  OBVIOUS
<1>7. Len(rest) = o - d /\ \A k \in 1..(o - d) : rest[k] = pend[d + k]
  <2>1. Len(rest) = o - d
    BY <1>2, <1>3, <1>6
  <2>2. ASSUME NEW k \in 1..(o - d) PROVE rest[k] = pend[d + k]
    <3>1. rest[k] = pend[d + 1 + k - 1] /\ d + 1 + k - 1 = d + k
      BY <1>2, <1>3, <1>6
    <3>2. QED
      BY <3>1
  <2>3. QED
    BY <2>1, <2>2
<1>8. PICK q, filled : /\ q = EndAddData(p, data)
                       /\ filled = [i \in 0..(size - 1) |-> IF i \in (b + n)..(b + n + d - 1)
                                                            THEN data[i - (b + n) + 1] ELSE p.buffer[i]]
  OBVIOUS
<1>9. q = [p EXCEPT !.buffer = filled, !.bufferEnd = b + n + d]
  BY <1>1, <1>2, <1>5, <1>8 DEF EndAddData
<1>10. /\ q.buffer = filled /\ q.bufferBegin = b /\ q.bufferEnd = b + n + d /\ q.bufferProcessed = b + m
       /\ q.state = p.state /\ q.request = p.request
  <2>1. FieldsOf(p)
    BY DEF ParserOK
  <2>2. QED
    BY <1>1, <1>9, <2>1 DEF FieldsOf
<1>11. ASSUME NEW k \in 0..(n - 1) PROVE filled[b + k] = p.buffer[b + k]
  <2>1. b + k \in 0..(size - 1) /\ b + k \notin (b + n)..(b + n + d - 1)
    BY <1>1, <1>3
  <2>2. QED
    BY <1>8, <2>1
<1>12. ASSUME NEW k \in n..(n + d - 1) PROVE filled[b + k] = pend[k - n + 1]
  <2>1. PICK x \in 0..(size - 1) : x = b + k /\ x \in (b + n)..(b + n + d - 1) /\ x - (b + n) + 1 = k - n + 1
    <3>1. b + k \in 0..(size - 1) /\ b + k \in (b + n)..(b + n + d - 1) /\ b + k - (b + n) + 1 = k - n + 1
      BY <1>1, <1>3
    <3>2. QED
      BY <3>1
  <2>2. filled[x] = data[x - (b + n) + 1]
    BY <1>8, <2>1
  <2>3. k - n + 1 \in 1..d
    BY <1>1, <1>3
  <2>4. QED
    BY <1>5, <2>1, <2>2, <2>3
<1>13. Held(q) = n + d /\ q.bufferProcessed - q.bufferBegin = m
  <2>1. b + n + d - b = n + d /\ b + m - b = m
    BY <1>1, <1>3
  <2>2. QED
    BY <1>10, <2>1 DEF Held
<1>14. Holds(q, Stream(rs), rest)
  <2>1. PICK W : W = Stream(rs)
    OBVIOUS
  <2>2. Divides(W, pend, p.buffer, b, n, m)
    BY <1>1, <2>1 DEF Reading, Holds
  <2>3. /\ Len(W) = n + o /\ (\A k \in 1..o : pend[k] = W[n + k])
        /\ \A k \in m..(n - 1) : p.buffer[b + k] = W[k + 1]
    BY <1>2, <2>2 DEF Divides
  <2>4. Len(W) = n + d + Len(rest)
    <3>1. n + o = n + d + (o - d)
      BY <1>1, <1>2, <1>3
    <3>2. QED
      BY <1>7, <2>3, <3>1
  <2>5. ASSUME NEW k \in 1..(o - d) PROVE rest[k] = W[n + d + k]
    <3>1. PICK x \in 1..o : x = d + k /\ n + x = n + d + k
      <4>1. d + k \in 1..o /\ n + (d + k) = n + d + k
        BY <1>1, <1>2, <1>3
      <4>2. QED
        BY <4>1
    <3>2. rest[k] = pend[x] /\ pend[x] = W[n + x]
      BY <1>7, <2>3, <3>1
    <3>3. QED
      BY <3>1, <3>2
  <2>6. ASSUME NEW k \in m..(n + d - 1) PROVE filled[b + k] = W[k + 1]
    <3>1. CASE k < n
      <4>1. k \in m..(n - 1) /\ k \in 0..(n - 1)
        BY <1>1, <3>1
      <4>2. QED
        BY <1>11, <2>3, <4>1
    <3>2. CASE ~(k < n)
      <4>1. k \in n..(n + d - 1)
        BY <1>1, <1>3, <3>2
      <4>2. PICK x \in 1..o : x = k - n + 1 /\ n + x = k + 1
        <5>1. k - n + 1 \in 1..o /\ n + (k - n + 1) = k + 1
          BY <1>1, <1>2, <1>3, <4>1
        <5>2. QED
          BY <5>1
      <4>3. QED
        BY <1>12, <2>3, <4>1, <4>2
    <3>3. QED
      BY <3>1, <3>2
  <2>7. Divides(W, rest, filled, b, n + d, m)
    BY <1>7, <2>4, <2>5, <2>6 DEF Divides
  <2>8. QED
    BY <1>10, <1>13, <2>1, <2>7 DEF Holds
<1>15. ASSUME rs # << >> PROVE InHeaders(q, Head(rs)) \/ InBody(q, Head(rs))
  <2>1. PICK r \in Requests : r = Head(rs)
    BY <1>15, HeadTailIs
  <2>2. \A k \in 0..(m - 1) : k \in 0..(n - 1)
    BY <1>1
  <2>3. Keeps(q, p, b, b, m)
    BY <1>1, <1>10, <1>11, <2>2 DEF Keeps
  <2>4. (InHeaders(p, r) => InHeaders(q, r)) /\ (InBody(p, r) => InBody(q, r))
    BY <2>3, StaysInRequest
  <2>5. QED
    BY <1>15, <2>1, <2>4 DEF Reading
<1>16. ASSUME rs = << >> PROVE q.state = "READHEADERS" /\ q.bufferProcessed = q.bufferBegin /\ q.request = NoRequest
  <2>1. p.state = "READHEADERS" /\ p.bufferProcessed = p.bufferBegin /\ p.request = NoRequest
    BY <1>16 DEF Reading
  <2>2. QED
    BY <1>1, <1>10, <2>1
<1>17. Reading(q, rs, rest)
  BY <1>14, <1>15, <1>16 DEF Reading
<1>18. QED
  BY <1>2, <1>4, <1>6, <1>8, <1>17

(* A parser at the start of a request, of which it knows nothing.          *)
LEMMA StartReads ==
  ASSUME NEW p, NEW rs \in Seq(Requests), NEW pend, NEW b \in Nat,
         p.bufferBegin = b, p.bufferProcessed = b, p.state = "READHEADERS", p.request = NoRequest,
         Holds(p, Stream(rs), pend)
  PROVE  Reading(p, rs, pend)
<1>1. ASSUME rs # << >> PROVE InHeaders(p, Head(rs))
  <2>1. PICK r \in Requests : r = Head(rs)
    BY <1>1, HeadTailIs
  <2>2. 0 \in 0..NLines(r)
    BY RequestIs
  <2>3. RequestAt(r, 0) = NoRequest
    <3>1. 1..(0 - 1) = {} /\ 0..(0 - 1) = {}
      OBVIOUS
    <3>2. GoodFields(r, 0) = {} /\ LengthFields(r, 0) = {}
      BY <3>1 DEF GoodFields, LengthFields
    <3>3. LengthAt(r, 0) = 0
      BY <3>2 DEF LengthAt
    <3>4. {SliceAt(i) : i \in {}} = {}
      OBVIOUS
    <3>5. (\E i \in 0..(0 - 1) : BadLine(r, i)) = FALSE
      BY <3>1
    <3>6. QED
      BY <3>2, <3>3, <3>4, <3>5 DEF RequestAt, NoRequest
  <2>4. Knows(p, r, b, 0)
    <3>1. 0..(0 - 1) = {}
      OBVIOUS
    <3>2. QED
      BY <2>3, <3>1 DEF Knows
  <2>5. b = b + 3 * 0
    OBVIOUS
  <2>6. QED
    BY <2>1, <2>2, <2>4, <2>5 DEF InHeaders
<1>2. QED
  BY <1>1 DEF Reading

LEMMA ClearRequestReads ==
  ASSUME NEW p, ParserOK(p), NEW rs \in Seq(Requests), NEW pend, Between(p, rs, pend)
  PROVE  Reading(ClearRequest(p), rs, pend)
<1>1. PICK q : q = ClearRequest(p)
  OBVIOUS
<1>2. q = [p EXCEPT !.request = NoRequest, !.bufferBegin = p.bufferProcessed]
  BY <1>1 DEF ClearRequest
<1>3. FieldsOf(p) /\ p.bufferProcessed \in Nat
  BY DEF ParserOK, IndicesOK
<1>4. /\ q.bufferBegin = p.bufferProcessed /\ q.bufferProcessed = p.bufferProcessed
      /\ q.state = "READHEADERS" /\ q.request = NoRequest
  BY <1>2, <1>3 DEF FieldsOf, Between
<1>5. Holds(q, Stream(rs), pend)
  BY <1>1 DEF Between
<1>6. Reading(q, rs, pend)
  BY <1>3, <1>4, <1>5, StartReads
<1>7. QED
  BY <1>1, <1>6

(* A new connection.                                                       *)
LEMMA ResetWaits ==
  ASSUME NEW p, ParserOK(p), NEW rs \in Seq(Requests)
  PROVE  Waits(Reset(p), rs, Stream(rs))
<1>1. PICK q : q = Reset(p)
  OBVIOUS
<1>2. q = [NewParser EXCEPT !.buffer = Garbage(p.bufferSize), !.bufferSize = p.bufferSize]
  BY <1>1 DEF Reset
<1>3. /\ q.bufferBegin = 0 /\ q.bufferEnd = 0 /\ q.bufferProcessed = 0
      /\ q.state = "READHEADERS" /\ q.request = NoRequest
  BY <1>2 DEF NewParser
<1>4. Held(q) = 0 /\ q.bufferProcessed - q.bufferBegin = 0
  BY <1>3 DEF Held
<1>5. PICK W \in Seq(Bytes), o \in Nat : W = Stream(rs) /\ o = Len(W)
  BY WiresIs
<1>6. Divides(W, W, q.buffer, 0, 0, 0)
  <2>1. o = 0 + o /\ (\A k \in 1..o : 0 + k = k) /\ 0..(0 - 1) = {}
    OBVIOUS
  <2>2. QED
    BY <1>5, <2>1 DEF Divides
<1>7. Holds(q, W, W)
  BY <1>3, <1>4, <1>6 DEF Holds
<1>8. Reading(q, rs, W)
  BY <1>3, <1>5, <1>7, StartReads
<1>9. rs # << >> => Held(q) < WireLen(Head(rs))
  <2>1. HAVE rs # << >>
  <2>2. PICK r \in Requests : r = Head(rs)
    BY <2>1, HeadTailIs
  <2>3. PICK L \in Nat, l \in Nat : L = NLines(r) /\ l = Len(r.body)
    BY RequestIs
  <2>4. 0 < 3 * L + 2 + l
    BY <2>3
  <2>5. QED
    BY <1>4, <2>2, <2>3, <2>4 DEF WireLen
<1>10. QED
  BY <1>1, <1>5, <1>8, <1>9 DEF Waits

-----------------------------------------------------------------------------
(***************************************************************************)
(* The requests of a connection that were not delivered, and their bytes.  *)
(***************************************************************************)
Rest(s, d) == SubSeq(s, d + 1, Len(s))

(* The bytes of a stream are those of the first d requests and of the rest. *)
Splits(s, d) == Len(Stream(s)) = Len(Stream(SubSeq(s, 1, d))) + Len(Stream(Rest(s, d)))

LEMMA TodoIs ==
  ASSUME NEW s \in Seq(Requests), NEW d \in Nat, d <= Len(s)
  PROVE  /\ Rest(s, d) \in Seq(Requests)
         /\ Rest(s, d) # << >> <=> d < Len(s)
         /\ d < Len(s) => Head(Rest(s, d)) = s[d + 1] /\ Rest(s, d + 1) = Tail(Rest(s, d))
<1>1. PICK n \in Nat : n = Len(s)
  OBVIOUS
<1>2. PICK t : t = Rest(s, d)
  OBVIOUS
<1>3. n - d \in Nat /\ (d < n <=> n - d # 0)
  BY <1>1
<1>4. t \in Seq(Requests) /\ Len(t) = n - d /\ \A k \in 1..(n - d) : t[k] = s[d + k]
  <2>1. t = SubSeq(s, d + 1, n)
    BY <1>1, <1>2 DEF Rest
  <2>2. d + 1 \in 1..(n + 1) /\ n \in d..n
    BY <1>1
  <2>3. t \in Seq(Requests) /\ Len(t) = n - d
    BY <1>1, <2>1, <2>2
  <2>4. \A k \in 1..(n - d) : t[k] = s[d + k]
    <3>1. TAKE k \in 1..(n - d)
    <3>2. d + 1 + k - 1 = d + k /\ k \in 1..(n - (d + 1) + 1)
      BY <1>1
    <3>3. QED
      BY <1>1, <2>1, <2>2, <3>2
  <2>5. QED
    BY <2>3, <2>4
<1>5. t # << >> <=> d < n
  <2>1. t # << >> <=> Len(t) # 0
    BY <1>4, EmptySeq
  <2>2. QED
    BY <1>3, <1>4, <2>1
<1>6. ASSUME d < n PROVE Head(t) = s[d + 1] /\ Rest(s, d + 1) = Tail(t)
  <2>1. t # << >>
    BY <1>5, <1>6
  <2>2. PICK u : /\ u = Tail(t) /\ u \in Seq(Requests) /\ Head(t) = t[1]
                 /\ Len(u) = Len(t) - 1 /\ \A k \in 1..(Len(t) - 1) : u[k] = t[k + 1]
    <3>1. /\ Tail(t) \in Seq(Requests) /\ Head(t) = t[1] /\ Len(Tail(t)) = Len(t) - 1
          /\ \A k \in 1..(Len(t) - 1) : Tail(t)[k] = t[k + 1]
      BY <1>4, <2>1, HeadTailIs
    <3>2. QED
      BY <3>1
  <2>3. PICK o \in Nat : o + 1 = n - d /\ o = n - (d + 1)
    <3>1. n - d - 1 \in Nat /\ n - d - 1 + 1 = n - d /\ n - d - 1 = n - (d + 1)
      BY <1>1, <1>6
    <3>2. QED
      BY <3>1
  <2>4. Len(u) = o /\ \A k \in 1..o : u[k] = s[d + k + 1]
    <3>1. Len(t) = o + 1 /\ Len(t) - 1 = o
      BY <1>4, <2>3
    <3>2. \A k \in 1..o : k + 1 \in 1..(o + 1) /\ d + (k + 1) = d + k + 1
      OBVIOUS
    <3>3. \A k \in 1..(o + 1) : t[k] = s[d + k]
      BY <1>4, <2>3
    <3>4. \A k \in 1..o : t[k + 1] = s[d + (k + 1)]
      BY <3>2, <3>3
    <3>5. QED
      BY <2>2, <3>1, <3>2, <3>4
  <2>5. PICK v : v = SubSeq(s, d + 1 + 1, n) /\ v = Rest(s, d + 1)
    BY <1>1 DEF Rest
  <2>6. v \in Seq(Requests) /\ Len(v) = o /\ \A k \in 1..o : v[k] = s[d + k + 1]
    <3>1. d + 1 + 1 \in 1..(n + 1) /\ n \in (d + 1)..n
      BY <1>1, <1>6
    <3>2. v \in Seq(Requests) /\ Len(v) = o
      BY <1>1, <2>3, <2>5, <3>1
    <3>3. \A k \in 1..o : v[k] = s[d + k + 1]
      <4>1. TAKE k \in 1..o
      <4>2. d + 1 + 1 + k - 1 = d + k + 1 /\ k \in 1..(n - (d + 1 + 1) + 1)
        BY <1>1, <2>3
      <4>3. QED
        BY <1>1, <2>5, <3>1, <4>2
    <3>4. QED
      BY <3>2, <3>3
  <2>7. u = v
    BY <2>2, <2>4, <2>6, SeqEqual
  <2>8. Head(t) = s[d + 1]
    <3>1. 1 \in 1..(n - d)
      BY <1>1, <1>6
    <3>2. QED
      BY <1>4, <2>2, <3>1
  <2>9. QED
    BY <2>2, <2>5, <2>7, <2>8
<1>7. QED
  BY <1>1, <1>2, <1>4, <1>5, <1>6

(* The first request of a stream of one.                                   *)
LEMMA StreamOfOne ==
  ASSUME NEW r \in Requests PROVE Len(Stream(<<r>>)) = WireLen(r)
<1>1. PICK rs \in Seq(Requests) : rs = <<r>>
  <2>1. PICK S : S = Requests
    OBVIOUS
  <2>2. <<r>> \in Seq(S)
    BY <2>1
  <2>3. QED
    BY <2>1, <2>2
<1>2. rs # << >> /\ Head(rs) = r /\ Tail(rs) = << >>
  BY <1>1
<1>3. Len(Stream(rs)) = WireLen(Head(rs)) + Len(Stream(Tail(rs)))
  BY <1>2, StreamIs
<1>4. Len(Stream(Tail(rs))) = 0
  <2>1. Len(<< >>) = 0
    OBVIOUS
  <2>2. QED
    BY <1>2, <2>1, StreamEmpty
<1>5. WireLen(r) \in Nat
  BY RequestIs
<1>6. QED
  BY <1>1, <1>2, <1>3, <1>4, <1>5

(* The delivered requests and one more.                                    *)
LEMMA StreamOfMore ==
  ASSUME NEW s \in Seq(Requests), NEW d \in Nat, d < Len(s)
  PROVE  Len(Stream(SubSeq(s, 1, d + 1))) = Len(Stream(SubSeq(s, 1, d))) + WireLen(s[d + 1])
<1>1. PICK n \in Nat : n = Len(s)
  OBVIOUS
<1>2. PICK u, v, r : u = SubSeq(s, 1, d) /\ v = SubSeq(s, 1, d + 1) /\ r = s[d + 1]
  OBVIOUS
<1>3. u \in Seq(Requests) /\ Len(u) = d /\ \A k \in 1..d : u[k] = s[k]
  <2>1. d <= n /\ \A k \in 1..d : 1 + k - 1 = k
    BY <1>1
  <2>2. QED
    BY <1>1, <1>2, <2>1
<1>4. v \in Seq(Requests) /\ Len(v) = d + 1 /\ \A k \in 1..(d + 1) : v[k] = s[k]
  <2>1. d + 1 <= n /\ d + 1 \in Nat /\ \A k \in 1..(d + 1) : 1 + k - 1 = k
    BY <1>1
  <2>2. QED
    BY <1>1, <1>2, <2>1
<1>5. r \in Requests
  <2>1. d + 1 \in 1..n
    BY <1>1
  <2>2. QED
    BY <1>1, <1>2, <2>1
<1>6. PICK uu \in Seq(Seq(Bytes)), vv \in Seq(Seq(Bytes)), w \in Seq(Bytes) :
        /\ uu = Wires(u) /\ vv = Wires(v) /\ w = Wire(r) /\ Len(uu) = d /\ Len(vv) = d + 1
        /\ Stream(u) = FlattenSeq(uu) /\ Stream(v) = FlattenSeq(vv) /\ Len(w) = WireLen(r)
        /\ \A k \in 1..d : uu[k] = Wire(u[k])
        /\ \A k \in 1..(d + 1) : vv[k] = Wire(v[k])
  <2>1. /\ Wires(u) \in Seq(Seq(Bytes)) /\ Len(Wires(u)) = d /\ Stream(u) = FlattenSeq(Wires(u))
        /\ \A k \in 1..d : Wires(u)[k] = Wire(u[k])
    BY <1>3, WiresIs
  <2>2. /\ Wires(v) \in Seq(Seq(Bytes)) /\ Len(Wires(v)) = d + 1 /\ Stream(v) = FlattenSeq(Wires(v))
        /\ \A k \in 1..(d + 1) : Wires(v)[k] = Wire(v[k])
    BY <1>4, WiresIs
  <2>3. Wire(r) \in Seq(Bytes) /\ Len(Wire(r)) = WireLen(r)
    BY <1>5, WireIs
  <2>4. QED
    BY <2>1, <2>2, <2>3
<1>7. vv = Append(uu, w)
  <2>1. PICK T : T = Seq(Bytes)
    OBVIOUS
  <2>2. uu \in Seq(T) /\ vv \in Seq(T) /\ w \in T
    BY <2>1
  <2>3. PICK c \in Seq(T) : c = Append(uu, w) /\ Len(c) = d + 1 /\ c[d + 1] = w /\ \A k \in 1..d : c[k] = uu[k]
    <3>1. PICK c : c = Append(uu, w)
      OBVIOUS
    <3>2. c \in Seq(T) /\ Len(c) = Len(uu) + 1 /\ c[Len(uu) + 1] = w /\ \A k \in 1..Len(uu) : c[k] = uu[k]
      BY <2>2, <3>1, AppendProperties
    <3>3. QED
      BY <1>6, <3>1, <3>2
  <2>4. \A k \in 1..(d + 1) : vv[k] = c[k]
    <3>1. TAKE k \in 1..(d + 1)
    <3>2. CASE k = d + 1
      BY <1>2, <1>4, <1>6, <2>3, <3>2
    <3>3. CASE k # d + 1
      <4>1. k \in 1..d
        BY <3>3
      <4>2. c[k] = Wire(u[k])
        BY <1>6, <2>3, <4>1
      <4>3. u[k] = v[k]
        BY <1>3, <1>4, <4>1
      <4>4. vv[k] = Wire(v[k])
        BY <1>6
      <4>5. QED
        BY <4>2, <4>3, <4>4
    <3>4. QED
      BY <3>2, <3>3
  <2>5. QED
    BY <1>6, <2>2, <2>3, <2>4, SeqEqual
<1>8. Stream(v) = Stream(u) \o w
  BY <1>6, <1>7, FlattenAppend
<1>9. PICK V \in Seq(Bytes), U \in Seq(Bytes) : V = Stream(v) /\ U = Stream(u)
  BY <1>3, <1>4, WiresIs
<1>10. Joins(V, U, w)
  BY <1>8, <1>9, BytesJoin
<1>11. Len(V) = Len(U) + Len(w)
  BY <1>10 DEF Joins
<1>12. QED
  BY <1>2, <1>6, <1>9, <1>11

(* Delivering a request moves its bytes from the rest to the delivered.    *)
LEMMA SplitsLater ==
  ASSUME NEW s \in Seq(Requests), NEW d \in Nat, d < Len(s), Splits(s, d)
  PROVE  Splits(s, d + 1)
<1>1. /\ Rest(s, d) \in Seq(Requests) /\ Rest(s, d) # << >>
      /\ Head(Rest(s, d)) = s[d + 1] /\ Rest(s, d + 1) = Tail(Rest(s, d))
  BY TodoIs
<1>2. PICK r \in Requests, u \in Seq(Requests) : r = s[d + 1] /\ u = Rest(s, d + 1)
  BY <1>1, HeadTailIs
<1>3. Len(Stream(Rest(s, d))) = WireLen(r) + Len(Stream(u))
  BY <1>1, <1>2, StreamIs
<1>4. SubSeq(s, 1, d) \in Seq(Requests) /\ SubSeq(s, 1, d + 1) \in Seq(Requests)
  <2>1. d + 1 \in Nat /\ Len(s) \in Nat
    OBVIOUS
  <2>2. QED
    BY <2>1
<1>5. PICK a \in Nat, b \in Nat, l \in Nat, m \in Nat :
        /\ a = Len(Stream(SubSeq(s, 1, d))) /\ b = Len(Stream(SubSeq(s, 1, d + 1)))
        /\ l = WireLen(r) /\ m = Len(Stream(u))
  BY <1>2, <1>4, WiresIs, RequestIs
<1>6. b = a + l
  BY <1>2, <1>5, StreamOfMore
<1>7. Len(Stream(s)) = a + (l + m)
  BY <1>3, <1>5 DEF Splits
<1>8. Len(Stream(s)) = b + m
  <2>1. a + (l + m) = (a + l) + m
    BY <1>5
  <2>2. QED
    BY <1>6, <1>7, <2>1
<1>9. QED
  BY <1>2, <1>5, <1>8 DEF Splits

-----------------------------------------------------------------------------
(***************************************************************************)
(* The invariant of the whole parser: between two callbacks the buffer and *)
(* the pending bytes hold exactly the requests that were not delivered,    *)
(* and a recv is outstanding only when the first of them is incomplete.    *)
(***************************************************************************)
Divided ==
  /\ script \in Seq(Requests)
  /\ delivered <= Len(script)
  /\ Splits(script, delivered)

RInv ==
  /\ IInv
  /\ Divided
  /\ pc = "recv" => Waits(parser, Todo, pending)
  /\ pc = "handle" /\ ~parser.request.malformed => Between(parser, Todo, pending)

(* What readCB and requestCompleted make of the answer of readRequest().   *)
Reads ==
  \/ pc' = "recv" /\ delivered' = delivered /\ Waits(parser', Todo, pending')
  \/ pc' = "handle" /\ delivered' = delivered /\ Rejects(parser', Todo)
  \/ pc' = "handle" /\ delivered' = delivered + 1 /\ Delivers(parser', Todo, pending')

LEMMA TodoType ==
  ASSUME IInv, Divided
  PROVE  /\ Todo = Rest(script, delivered) /\ Todo \in Seq(Requests)
         /\ Todo # << >> <=> delivered < Len(script)
<1>1. delivered \in Nat
  BY DEF IInv, TypeOK
<1>2. Todo = Rest(script, delivered)
  BY DEF Todo, Rest
<1>3. QED
  BY <1>1, <1>2, TodoIs DEF Divided

LEMMA ProceedReads ==
  ASSUME IInv, Divided, NEW p, ParserOK(p), NEW pend \in Seq(Bytes), pending' = pend,
         Reading(p, Todo, pend), Proceed(ReadRequest(p))
  PROVE  Reads
<1>1. PICK a : a = ReadRequest(p)
  OBVIOUS
<1>2. a.done \in BOOLEAN /\ ParserOK(a.parser)
  BY <1>1, ReadRequestOK
<1>3. Answers(a, Todo, pend)
  BY <1>1, TodoType, AnswersRead
<1>4. Proceed(a)
  BY <1>1
<1>5. CASE a.done
  <2>1. /\ parser' = a.parser /\ pc' = "handle"
        /\ delivered' = IF a.parser.request.malformed THEN delivered ELSE delivered + 1
    BY <1>4, <1>5 DEF Proceed
  <2>2. Rejects(a.parser, Todo) \/ Delivers(a.parser, Todo, pend)
    BY <1>3, <1>5 DEF Answers
  <2>3. CASE Rejects(a.parser, Todo)
    <3>1. a.parser.request.malformed
      BY <2>3 DEF Rejects
    <3>2. QED
      BY <2>1, <2>3, <3>1 DEF Reads
  <2>4. CASE Delivers(a.parser, Todo, pend)
    <3>1. ~a.parser.request.malformed
      BY <2>4 DEF Delivers
    <3>2. QED
      BY <2>1, <2>4, <3>1 DEF Reads
  <2>5. QED
    BY <2>2, <2>3, <2>4
<1>6. CASE ~a.done
  <2>1. parser' = BeginAddData(a.parser) /\ pc' = "recv" /\ delivered' = delivered
    BY <1>4, <1>6 DEF Proceed
  <2>2. Waits(a.parser, Todo, pend)
    BY <1>3, <1>6 DEF Answers
  <2>3. Waits(parser', Todo, pend)
    BY <1>2, <2>1, <2>2, TodoType, BeginAddDataWaits
  <2>4. QED
    BY <2>1, <2>3 DEF Reads
<1>7. QED
  BY <1>2, <1>5, <1>6

LEMMA ReadCBReads ==
  ASSUME RInv, NEW n \in 1..Len(pending), ReadCB(n) PROVE Reads /\ script' = script
<1>1. ParserOK(parser) /\ pending \in Seq(Bytes)
  BY DEF RInv, IInv, TypeOK
<1>2. PICK data, p, rest : /\ data = SubSeq(pending, 1, n) /\ p = EndAddData(parser, data)
                           /\ rest = SubSeq(pending, n + 1, Len(pending))
  OBVIOUS
<1>3. data \in Seq(Bytes) /\ Len(data) = n /\ rest \in Seq(Bytes)
  BY <1>1, <1>2
<1>4. n <= Room(parser) /\ pc = "recv" /\ script' = script /\ pending' = rest
  BY <1>2 DEF ReadCB
<1>5. Proceed(ReadRequest(p))
  BY <1>2 DEF ReadCB
<1>6. ParserOK(p)
  BY <1>1, <1>2, <1>3, <1>4, EndAddDataOK
<1>7. Todo \in Seq(Requests)
  BY TodoType DEF RInv
<1>8. Reading(parser, Todo, pending)
  BY <1>4 DEF RInv, Waits
<1>9. Reading(p, Todo, rest)
  BY <1>1, <1>2, <1>4, <1>7, <1>8, EndAddDataReads
<1>10. QED
  BY <1>3, <1>4, <1>5, <1>6, <1>9, ProceedReads DEF RInv

LEMMA RequestCompletedReads ==
  ASSUME RInv, RequestCompleted PROVE Reads /\ script' = script
<1>1. ParserOK(parser) /\ pending \in Seq(Bytes)
  BY DEF RInv, IInv, TypeOK
<1>2. PICK p : p = ClearRequest(parser)
  OBVIOUS
<1>3. ParserOK(p)
  BY <1>1, <1>2, ClearRequestOK
<1>4. Proceed(ReadRequest(p)) /\ pending' = pending /\ script' = script
  BY <1>2 DEF RequestCompleted
<1>5. Between(parser, Todo, pending)
  BY DEF RInv, RequestCompleted
<1>6. Reading(p, Todo, pending)
  BY <1>1, <1>2, <1>5, TodoType, ClearRequestReads DEF RInv
<1>7. QED
  BY <1>1, <1>3, <1>4, <1>6, ProceedReads DEF RInv

(* Todo after a step that delivers nothing, and after a delivery.          *)
LEMMA TodoNext ==
  ASSUME IInv, Divided, script' = script
  PROVE  /\ delivered' = delivered => Divided' /\ Todo' = Todo
         /\ delivered' = delivered + 1 /\ Todo # << >> => Divided' /\ Todo' = Tail(Todo)
<1>1. delivered \in Nat /\ script \in Seq(Requests) /\ Len(script) \in Nat
  BY DEF IInv, TypeOK, Divided
<1>2. Todo = Rest(script, delivered)
  BY DEF Todo, Rest
<1>3. Todo' = Rest(script', delivered')
  BY DEF Todo, Rest
<1>4. ASSUME delivered' = delivered PROVE Divided' /\ Todo' = Todo
  BY <1>2, <1>3, <1>4 DEF Divided, Splits, Rest
<1>5. ASSUME delivered' = delivered + 1, Todo # << >> PROVE Divided' /\ Todo' = Tail(Todo)
  <2>1. delivered < Len(script)
    BY <1>5, TodoType
  <2>2. Rest(script, delivered + 1) = Tail(Todo)
    BY <1>1, <1>2, <2>1, TodoIs DEF Divided
  <2>3. Splits(script, delivered + 1)
    BY <1>1, <2>1, SplitsLater DEF Divided
  <2>4. delivered + 1 <= Len(script)
    BY <1>1, <2>1
  <2>5. Splits(script', delivered')
    BY <1>5, <2>3 DEF Splits, Rest
  <2>6. QED
    BY <1>1, <1>3, <1>5, <2>2, <2>4, <2>5 DEF Divided, Splits, Rest
<1>6. QED
  BY <1>4, <1>5

LEMMA ReadsKeeps ==
  ASSUME RInv, IInv', Reads, script' = script PROVE RInv'
<1>1. CASE pc' = "recv" /\ delivered' = delivered /\ Waits(parser', Todo, pending')
  <2>1. Divided' /\ Todo' = Todo
    BY <1>1, TodoNext DEF RInv
  <2>2. QED
    BY <1>1, <2>1 DEF RInv, Waits, Reading, Holds, Held, InHeaders, InBody
<1>2. CASE pc' = "handle" /\ delivered' = delivered /\ Rejects(parser', Todo)
  <2>1. Divided' /\ Todo' = Todo
    BY <1>2, TodoNext DEF RInv
  <2>2. parser'.request.malformed
    BY <1>2 DEF Rejects
  <2>3. QED
    BY <1>2, <2>1, <2>2 DEF RInv
<1>3. CASE pc' = "handle" /\ delivered' = delivered + 1 /\ Delivers(parser', Todo, pending')
  <2>1. Todo # << >> /\ Between(parser', Tail(Todo), pending')
    BY <1>3 DEF Delivers
  <2>2. Divided' /\ Todo' = Tail(Todo)
    BY <1>3, <2>1, TodoNext DEF RInv
  <2>3. QED
    BY <1>3, <2>1, <2>2 DEF RInv, Between, Holds, Held
<1>4. QED
  BY <1>1, <1>2, <1>3 DEF Reads

LEMMA NothingDivided ==
  ASSUME NEW d, d = 0, NEW s, s = << >> PROVE s \in Seq(Requests) /\ d <= Len(s) /\ Splits(s, d)
<1>1. s \in Seq(Requests) /\ Len(s) = 0 /\ SubSeq(s, 1, 0) = << >> /\ SubSeq(s, 1, Len(s)) = << >>
  OBVIOUS
<1>2. 0 + 1 = 1
  OBVIOUS
<1>3. Rest(s, 0) = << >>
  BY <1>1, <1>2 DEF Rest
<1>4. Len(Stream(<< >>)) = 0
  <2>1. Len(<< >>) = 0
    OBVIOUS
  <2>2. QED
    BY <2>1, StreamEmpty
<1>5. Splits(<< >>, 0)
  <2>1. SubSeq(<< >>, 1, 0) = << >> /\ Rest(<< >>, 0) = << >> /\ 0 + 0 = 0
    BY <1>1, <1>3
  <2>2. QED
    BY <1>4, <2>1 DEF Splits
<1>6. QED
  BY <1>1, <1>5

LEMMA InitReads == Init => RInv
<1> SUFFICES ASSUME Init PROVE RInv
  OBVIOUS
<1>1. IInv
  BY InitInv
<1>2. Divided
  BY NothingDivided DEF Init, Divided
<1>3. QED
  BY <1>1, <1>2 DEF Init, RInv

LEMMA StartKeeps ==
  ASSUME RequestScripts, RInv, IInv', Start PROVE RInv' /\ Todo' = script' /\ script' \in Scripts
<1>1. ParserOK(parser)
  BY DEF RInv, IInv, TypeOK
<1>2. PICK s \in Scripts : /\ script' = s /\ pending' = Stream(s) /\ delivered' = 0 /\ pc' = "recv"
                           /\ parser' = BeginAddData(Reset(parser))
  BY DEF Start
<1>3. s \in Seq(Requests)
  BY DEF RequestScripts
<1>4. PICK n \in Nat : n = Len(s)
  BY <1>3
<1>5. SubSeq(s, 1, n) = s /\ 0 + 1 = 1 /\ SubSeq(s, 1, 0) = << >>
  BY <1>3, <1>4
<1>6. Rest(s, 0) = s
  BY <1>4, <1>5 DEF Rest
<1>7. Todo' = s
  BY <1>2, <1>6 DEF Todo, Rest
<1>8. Splits(s, 0)
  <2>1. Len(Stream(s)) \in Nat /\ Len(<< >>) = 0
    BY <1>3, WiresIs
  <2>2. Len(Stream(s)) = 0 + Len(Stream(s))
    BY <2>1
  <2>3. QED
    BY <1>5, <1>6, <2>1, <2>2, StreamEmpty DEF Splits
<1>9. Divided'
  <2>1. Splits(script', delivered')
    BY <1>2, <1>8 DEF Splits, Rest
  <2>2. 0 <= n
    OBVIOUS
  <2>3. QED
    BY <1>2, <1>3, <1>4, <2>1, <2>2 DEF Divided, Splits, Rest
<1>10. PICK q : q = Reset(parser) /\ ParserOK(q)
  BY <1>1, ResetOK
<1>11. Waits(q, s, Stream(s))
  BY <1>1, <1>3, <1>10, ResetWaits
<1>12. Waits(parser', s, Stream(s))
  BY <1>2, <1>3, <1>10, <1>11, BeginAddDataWaits
<1>13. (pc = "recv" => Waits(parser, Todo, pending))'
  BY <1>2, <1>7, <1>12 DEF Waits, Reading, Holds, Held, InHeaders, InBody
<1>14. QED
  BY <1>2, <1>7, <1>9, <1>13 DEF RInv

LEMMA StepReads == RequestScripts /\ RInv /\ [Next]_vars => RInv'
<1> SUFFICES ASSUME RequestScripts, RInv, [Next]_vars PROVE RInv'
  OBVIOUS
<1>1. IInv'
  BY StepInv DEF RInv
<1>2. CASE Start
  BY <1>1, <1>2, StartKeeps
<1>3. ASSUME NEW n \in 1..Len(pending), ReadCB(n) PROVE RInv'
  BY <1>1, <1>3, ReadCBReads, ReadsKeeps
<1>4. CASE RequestCompleted
  BY <1>1, <1>4, RequestCompletedReads, ReadsKeeps
<1>5. CASE Stop
  <2>1. script' = << >> /\ delivered' = 0 /\ pc' = "idle"
    BY <1>5 DEF Stop
  <2>2. Divided'
    BY <2>1, NothingDivided DEF Divided, Splits, Rest
  <2>3. QED
    BY <1>1, <2>1, <2>2 DEF RInv
<1>6. CASE UNCHANGED vars
  <2>1. parser' = parser /\ pc' = pc /\ script' = script /\ pending' = pending /\ delivered' = delivered
    BY <1>6 DEF vars
  <2>2. Divided' /\ Todo' = Todo
    BY <2>1, TodoNext DEF RInv
  <2>3. QED
    BY <1>1, <2>1, <2>2 DEF RInv, Waits, Reading, Between, Holds, Held, InHeaders, InBody
<1>7. QED
  BY <1>2, <1>3, <1>4, <1>5, <1>6 DEF Next

LEMMA ReadsHold ==
  ASSUME RequestScripts PROVE Spec => []RInv
<1>1. RInv /\ [Next]_vars => RInv'
  BY StepReads
<1>2. QED
  BY <1>1, InitReads, PTL DEF Spec

LEMMA WaitsForMore == RInv => NoCompleteRequestWaits
<1> SUFFICES ASSUME RInv, pc = "recv", delivered < Len(script)
             PROVE  Len(Stream(script)) - Len(pending) < Len(Stream(SubSeq(script, 1, delivered + 1)))
  BY DEF NoCompleteRequestWaits
<1>1. /\ delivered \in Nat /\ script \in Seq(Requests) /\ pending \in Seq(Bytes) /\ ParserOK(parser)
      /\ Splits(script, delivered) /\ Waits(parser, Todo, pending)
  BY DEF RInv, IInv, TypeOK, Divided
<1>2. Todo = Rest(script, delivered) /\ Todo \in Seq(Requests) /\ Todo # << >>
  BY TodoType DEF RInv
<1>3. PICK r \in Requests : r = Head(Todo) /\ r = script[delivered + 1]
  <2>1. Head(Todo) = script[delivered + 1] /\ Head(Todo) \in Requests
    BY <1>1, <1>2, TodoIs, HeadTailIs
  <2>2. QED
    BY <2>1
<1>4. SubSeq(script, 1, delivered) \in Seq(Requests)
  <2>1. Len(script) \in Nat
    BY <1>1
  <2>2. QED
    BY <1>1, <2>1
<1>5. PICK a \in Nat, c \in Nat, l \in Nat, o \in Nat, w \in Nat :
        /\ a = Len(Stream(SubSeq(script, 1, delivered))) /\ c = Len(Stream(Todo))
        /\ l = WireLen(r) /\ o = Len(pending) /\ w = Len(Stream(script))
  <2>1. /\ Len(Stream(SubSeq(script, 1, delivered))) \in Nat
        /\ Len(Stream(Todo)) \in Nat /\ Len(Stream(script)) \in Nat
    BY <1>1, <1>2, <1>4, WiresIs
  <2>2. WireLen(r) \in Nat
    BY RequestIs
  <2>3. Len(pending) \in Nat
    BY <1>1
  <2>4. QED
    BY <2>1, <2>2, <2>3
<1>6. Len(Stream(SubSeq(script, 1, delivered + 1))) = a + l
  BY <1>1, <1>3, <1>5, StreamOfMore
<1>7. w = a + c
  BY <1>1, <1>2, <1>5 DEF Splits
<1>8. PICK h \in Nat : h = Held(parser)
  BY <1>1, OffsetsAre
<1>9. c = h + o
  BY <1>1, <1>5, <1>8 DEF Waits, Reading, Holds, Divides
<1>10. h < l
  BY <1>1, <1>2, <1>3, <1>5, <1>8 DEF Waits
<1>11. w - o < a + l
  BY <1>7, <1>9, <1>10
<1>12. QED
  BY <1>5, <1>6, <1>11

(* Whatever the segmentation of the stream, the parser never waits for     *)
(* more bytes while a complete request is in its buffer.  The clients      *)
(* divide their streams into requests as the server does.                  *)
THEOREM NoRequestWaits == RequestScripts => (Spec => []NoCompleteRequestWaits)
<1> SUFFICES ASSUME RequestScripts PROVE Spec => []NoCompleteRequestWaits
  OBVIOUS
<1>1. Spec => []RInv
  BY ReadsHold
<1>2. QED
  BY <1>1, WaitsForMore, PTL

-----------------------------------------------------------------------------
(***************************************************************************)
(* The parser implements RequestStream.                                    *)
(***************************************************************************)
LEMMA InitAbs == Init => Abs!Init
<1> SUFFICES ASSUME Init PROVE Abs!Init
  OBVIOUS
<1>1. pc = "idle"
  BY DEF Init
<1>2. QED
  BY <1>1 DEF Abs!Init

LEMMA ReadsAbs ==
  ASSUME RInv, RInv', Reads, script' = script,
         pc = "recv" \/ (pc = "handle" /\ ~parser.request.malformed)
  PROVE  [Abs!Next]_(Abs!vars)
<1>1. CASE pc' = "recv" /\ delivered' = delivered /\ Waits(parser', Todo, pending')
  <2>1. Todo' = Todo
    BY <1>1, TodoNext DEF RInv
  <2>2. CASE pc = "recv"
    BY <1>1, <2>1, <2>2 DEF Abs!vars
  <2>3. CASE pc = "handle" /\ ~parser.request.malformed
    <3>1. Abs!Complete
      BY <1>1, <2>1, <2>3 DEF Abs!Complete
    <3>2. QED
      BY <3>1 DEF Abs!Next
  <2>4. QED
    BY <2>2, <2>3
<1>2. CASE pc' = "handle" /\ delivered' = delivered /\ Rejects(parser', Todo)
  <2>1. Todo' = Todo
    BY <1>2, TodoNext DEF RInv
  <2>2. /\ parser'.request.malformed /\ Todo # << >>
        /\ ~FieldsOK(Head(Todo)) \/ StreamSize(Todo) >= MAXREQUESTSIZE
    BY <1>2 DEF Rejects, StreamSize
  <2>3. Abs!Reject
    BY <1>2, <2>1, <2>2 DEF Abs!Reject
  <2>4. QED
    BY <2>3 DEF Abs!Next
<1>3. CASE pc' = "handle" /\ delivered' = delivered + 1 /\ Delivers(parser', Todo, pending')
  <2>1. /\ ~parser'.request.malformed /\ Todo # << >>
        /\ FieldsOK(Head(Todo)) /\ WireLen(Head(Todo)) < MAXREQUESTSIZE
        /\ Decoded(parser') = AsSeen(Head(Todo))
    BY <1>3 DEF Delivers
  <2>2. Todo' = Tail(Todo)
    BY <1>3, <2>1, TodoNext DEF RInv
  <2>3. Head(Todo) \in Requests
    BY <2>1, TodoType, HeadTailIs DEF RInv
  <2>4. StreamSize(<<Head(Todo)>>) < MAXREQUESTSIZE
    BY <2>1, <2>3, StreamOfOne DEF StreamSize
  <2>5. Abs!Deliver
    BY <1>3, <2>1, <2>2, <2>4 DEF Abs!Deliver
  <2>6. QED
    BY <2>5 DEF Abs!Next
<1>4. QED
  BY <1>1, <1>2, <1>3 DEF Reads

LEMMA StepAbs ==
  ASSUME RequestScripts, RInv, RInv', [Next]_vars PROVE [Abs!Next]_(Abs!vars)
<1>1. CASE Start
  <2>1. Todo' = script' /\ script' \in Scripts
    BY <1>1, StartKeeps DEF RInv
  <2>2. pc = "idle" /\ pc' = "recv"
    BY <1>1 DEF Start
  <2>3. Abs!Connect
    BY <2>1, <2>2 DEF Abs!Connect
  <2>4. QED
    BY <2>3 DEF Abs!Next
<1>2. ASSUME NEW n \in 1..Len(pending), ReadCB(n) PROVE [Abs!Next]_(Abs!vars)
  <2>1. pc = "recv"
    BY <1>2 DEF ReadCB
  <2>2. Reads /\ script' = script
    BY <1>2, ReadCBReads
  <2>3. QED
    BY <2>1, <2>2, ReadsAbs
<1>3. CASE RequestCompleted
  <2>1. pc = "handle" /\ ~parser.request.malformed
    BY <1>3 DEF RequestCompleted
  <2>2. QED
    BY <1>3, <2>1, RequestCompletedReads, ReadsAbs
<1>4. CASE Stop
  <2>1. pc \in {"recv", "handle"} /\ pc' = "idle"
    BY <1>4 DEF Stop
  <2>2. Abs!Close
    BY <2>1 DEF Abs!Close
  <2>3. QED
    BY <2>2 DEF Abs!Next
<1>5. CASE UNCHANGED vars
  <2>1. parser' = parser /\ pc' = pc /\ script' = script /\ delivered' = delivered
    BY <1>5 DEF vars
  <2>2. Todo' = Todo
    BY <2>1, TodoNext DEF RInv
  <2>3. Decoded(parser)' = Decoded(parser)
    BY <2>1 DEF Decoded
  <2>4. QED
    BY <2>1, <2>2, <2>3 DEF Abs!vars
<1>6. QED
  BY <1>1, <1>2, <1>3, <1>4, <1>5 DEF Next

(* For every limit, every initial buffer, every segmentation of every      *)
(* stream and every history of a pooled parser, handlers see the client's  *)
(* requests in order, whole and unmixed, and only invalid or oversized     *)
(* input is rejected.  The clients divide their streams into requests as   *)
(* the server does.                                                        *)
THEOREM ParserIsARequestStream == RequestScripts => (Spec => ImplementsRequestStream)
<1> SUFFICES ASSUME RequestScripts PROVE Spec => ImplementsRequestStream
  OBVIOUS
<1>1. Init => Abs!Init
  BY InitAbs
<1>2. RInv /\ RInv' /\ [Next]_vars => [Abs!Next]_(Abs!vars)
  BY StepAbs
<1>3. Spec => []RInv
  BY ReadsHold
<1>4. QED
  BY <1>1, <1>2, <1>3, PTL DEF Spec, ImplementsRequestStream, Abs!Spec

=============================================================================
