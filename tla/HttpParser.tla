------------------------------ MODULE HttpParser ------------------------------
(***************************************************************************)
(* The HTTP/1.1 request parser of include/cppsp-ng/httpparser.H together   *)
(* with the three callbacks of ConnectionHandlerInternal (cppsp.C) that    *)
(* drive it: start, readCB and requestCompleted.                           *)
(*                                                                         *)
(* The parser owns one growable buffer.  [bufferBegin, bufferEnd) holds    *)
(* received bytes, bufferProcessed is the scan position, and everything a  *)
(* request remembers about itself is an offset relative to bufferBegin, so *)
(* that the bytes can be moved between two reads.  The parser object is    *)
(* pooled: a new connection reuses the buffer of an earlier one.           *)
(*                                                                         *)
(* Data abstraction.  A byte is a pair <<kind, number>>.  CR, LF and NUL   *)
(* are bytes as in the program; the text of a request line or of a header  *)
(* line is one byte of kind "get", "post" (request lines with two spaces), *)
(* "cl" ("Content-Length: number") or "hdr" (any other "name: value"); all *)
(* other text, without a space or a colon, is of kind "byte".              *)
(***************************************************************************)
EXTENDS Integers, Sequences, FiniteSets, FiniteSetsExt, SequencesExt

CONSTANTS
  InitialBufferSize,  (* bytes allocated by the constructor (4096 in the code)   *)
  MAXREQUESTSIZE,     (* limit on the buffered bytes of a request (8192)         *)
  Scripts             (* what clients send: a set of sequences of requests, each *)
                      (* request a record [line, fields, body] of bytes          *)

ASSUME SizesAssumption ==
  /\ InitialBufferSize \in Nat \ {0}
  /\ MAXREQUESTSIZE \in Nat \ {0}

Kinds == {"CR", "LF", "NUL", "byte", "get", "post", "cl", "hdr"}
Bytes == Kinds \X Int

CR  == <<"CR", 0>>
LF  == <<"LF", 0>>
NUL == <<"NUL", 0>>
Kind(b)   == b[1]
Number(b) == b[2]

(* The bytes of one request, and of a sequence of requests, on the wire.   *)
Lines(bs) == [k \in 1..3 * Len(bs) |-> CASE k % 3 = 1 -> bs[(k + 2) \div 3]
                                         [] k % 3 = 2 -> CR
                                         [] k % 3 = 0 -> LF]
Wire(r) == Lines(<<r.line>> \o r.fields) \o <<CR, LF>> \o r.body

Stream(s) == FlattenSeq([i \in DOMAIN s |-> Wire(s[i])])

ASSUME ScriptsAssumption == \A s \in Scripts : Stream(s) \in Seq(Bytes)

(* How the server divides a stream into requests: a line is text, the last *)
(* Content-Length counts, and a GET ends at its empty line.  What a client *)
(* puts behind a GET is, in this reading, the text of its next request.    *)
Text == (Kinds \ {"CR", "LF", "NUL"}) \X Int

ContentLength(r) ==
  LET lengths == {i \in DOMAIN r.fields : Kind(r.fields[i]) = "cl"}
  IN  IF lengths = {} THEN 0 ELSE Number(r.fields[Max(lengths)])

BodyLength(r) == IF Kind(r.line) = "get" THEN 0 ELSE ContentLength(r)

Requests ==
  {r \in [line : Text, fields : Seq(Text), body : Seq(Bytes)] :
     BodyLength(r) \in 0..MAXREQUESTSIZE => Len(r.body) = BodyLength(r)}

RequestScripts == Scripts \subseteq Seq(Requests)

VARIABLES
  parser,     (* the HTTPParser object                                           *)
  pc,         (* "idle": pooled, "recv": a recv is outstanding, "handle": the    *)
              (* request handler owns the request                                *)
  script,     (* the requests of the current connection (history)                *)
  pending,    (* bytes of the connection that have not been received             *)
  delivered   (* number of requests handed to a handler (history)                *)

vars == <<parser, pc, script, pending, delivered>>

-----------------------------------------------------------------------------
(***************************************************************************)
(* The parser object.  A pair of offsets is <<start, end>>.                *)
(***************************************************************************)
NoSlice == <<-1, -1>>

(* Bytes that were not received.  After a move or a reset, what lies       *)
(* outside the received bytes is represented by NUL, which no client of    *)
(* the model sends, so that using it would be noticed.                     *)
Garbage(size) == [i \in 0..(size - 1) |-> NUL]

NoRequest ==
  [line          |-> NoSlice,   \* requestLineStart, requestLineEnd; relative to bufferBegin
   headers       |-> {},        \* relative to bufferBegin; the vector's order is that of the offsets
   contentLength |-> 0,         \* currContentLength
   contents      |-> NoSlice,   \* absolute indices
   malformed     |-> FALSE]

NewParser ==
  [buffer          |-> Garbage(InitialBufferSize),
   bufferSize      |-> InitialBufferSize,
   bufferBegin     |-> 0,
   bufferEnd       |-> 0,
   bufferProcessed |-> 0,
   state           |-> "READHEADERS",
   request         |-> NoRequest]

(* clearRequest(): forget the request and drop its bytes.                  *)
ClearRequest(p) == [p EXCEPT !.request = NoRequest, !.bufferBegin = p.bufferProcessed]

(* reset(): a new connection.  bufferSize is kept.                         *)
Reset(p) == [NewParser EXCEPT !.buffer = Garbage(p.bufferSize), !.bufferSize = p.bufferSize]

(* Mutation: grow only when the partial request does not fit.              *)
GrowWhenExceeded(p) ==
  IF p.bufferEnd - p.bufferBegin > p.bufferSize THEN p.bufferSize * 2 ELSE p.bufferSize

(* beginAddData(): make room behind bufferEnd, growing the buffer when the *)
(* partial request fills more than half of it, and moving the partial      *)
(* request to the front.                                                   *)
GrownSize(p) ==
  IF (p.bufferEnd - p.bufferBegin) * 2 > p.bufferSize THEN p.bufferSize * 2 ELSE p.bufferSize

(* Mutation: the copy starts at the start of the buffer.                   *)
CopyFromStart(p) ==
  [i \in 0..(GrownSize(p) - 1) |-> IF i < p.bufferEnd - p.bufferBegin THEN p.buffer[i] ELSE NUL]

MovedToFront(p) ==
  [i \in 0..(GrownSize(p) - 1) |->
     IF i < p.bufferEnd - p.bufferBegin THEN p.buffer[p.bufferBegin + i] ELSE NUL]

BeginAddData(p) ==
  IF p.bufferEnd - p.bufferBegin <= 0
  THEN [p EXCEPT !.bufferBegin = 0, !.bufferEnd = 0, !.bufferProcessed = 0]
  ELSE [buffer          |-> MovedToFront(p),
        bufferSize      |-> GrownSize(p),
        bufferBegin     |-> 0,
        bufferEnd       |-> p.bufferEnd - p.bufferBegin,
        bufferProcessed |-> p.bufferProcessed - p.bufferBegin,
        state           |-> p.state,
        request         |-> p.request]

(* The length beginAddData() offers to recv.                               *)
Room(p) == p.bufferSize - p.bufferEnd

(* recv fills the offered space and endAddData(len) makes it visible.      *)
EndAddData(p, data) ==
  [p EXCEPT !.buffer = [i \in 0..(p.bufferSize - 1) |->
                          IF i \in p.bufferEnd..(p.bufferEnd + Len(data) - 1)
                          THEN data[i - p.bufferEnd + 1] ELSE p.buffer[i]],
            !.bufferEnd = p.bufferEnd + Len(data)]

-----------------------------------------------------------------------------
(***************************************************************************)
(* readRequest().  The scan loop finds one CRLF after the other and stops  *)
(* behind the first empty line; the definitions below describe the set of  *)
(* lines that one call of it visits.  A line is named by the index of its  *)
(* CR.                                                                     *)
(***************************************************************************)
CRLFs(p) == {i \in p.bufferProcessed..(p.bufferEnd - 2) :
               p.buffer[i] = CR /\ p.buffer[i + 1] = LF}

LineStart(p, i) == Max({p.bufferProcessed} \cup {j + 2 : j \in {k \in CRLFs(p) : k < i}})

EmptyLines(p) == {i \in CRLFs(p) : LineStart(p, i) = i}

TextLines(p) == LET empty == EmptyLines(p) IN {i \in CRLFs(p) : \A j \in empty : i < j}

Visited(p) == LET empty == EmptyLines(p) IN {i \in CRLFs(p) : \A j \in empty : i <= j}

(* Mutation: every call takes its first line for the request line.         *)
FirstTextLine(p) == LET text == TextLines(p) IN {i \in text : \A j \in text : i <= j}

(* The line that addHeader() takes as the request line, if it is among the *)
(* lines of this call; all the others are headers.                         *)
RequestLine(p) ==
  LET text == TextLines(p)
  IN  {i \in text : p.request.line = NoSlice /\ \A j \in text : i <= j}

HeaderLines(p) == TextLines(p) \ RequestLine(p)

KindsIn(p, i) == {Kind(p.buffer[k]) : k \in LineStart(p, i)..(i - 1)}

BadRequestLines(p) == {i \in RequestLine(p) : KindsIn(p, i) \cap {"get", "post"} = {}}
BadHeaderLines(p)  == {i \in HeaderLines(p) : KindsIn(p, i) \cap {"cl", "hdr"} = {}}

ContentLengthLines(p) ==
  {i \in HeaderLines(p) \ BadHeaderLines(p) : Kind(p.buffer[LineStart(p, i)]) = "cl"}

SliceOf(p, i) == <<LineStart(p, i) - p.bufferBegin, i - p.bufferBegin>>

(* What the loop leaves behind.  A Content-Length line is terminated in    *)
(* place (buffer[vE] = 0) before atoi reads it.                            *)
ScanHeaders(p) ==
  LET first   == RequestLine(p)
      good    == HeaderLines(p) \ BadHeaderLines(p)
      lengths == ContentLengthLines(p)
  IN  [p EXCEPT
         !.request =
           [line          |-> IF first = {} THEN @.line ELSE SliceOf(p, Min(first)),
            headers       |-> @.headers \cup {SliceOf(p, i) : i \in good},
            contentLength |-> IF lengths = {} THEN @.contentLength
                              ELSE Number(p.buffer[LineStart(p, Max(lengths))]),
            contents      |-> @.contents,
            malformed     |-> @.malformed \/ BadRequestLines(p) # {} \/ BadHeaderLines(p) # {}],
         !.buffer = [k \in 0..(p.bufferSize - 1) |-> IF k \in lengths THEN NUL ELSE p.buffer[k]],
         !.bufferProcessed = Max({@} \cup {i + 2 : i \in Visited(p)})]

(* readRequest() returns whether a request (or a malformed one) is ready.  *)
Ready(p)    == [done |-> TRUE, parser |-> p]
NotReady(p) == [done |-> FALSE, parser |-> p]
Malformed(p) == Ready([p EXCEPT !.request.malformed = TRUE])

(* Mutation: the last byte of the body is not waited for.                  *)
ReadContentEarly(p) ==
  LET contentsEnd == p.bufferProcessed + p.request.contentLength IN
  IF p.request.contentLength \notin 0..MAXREQUESTSIZE THEN Malformed(p)
  ELSE IF contentsEnd > p.bufferEnd + 1 THEN NotReady(p)
  ELSE Ready([p EXCEPT !.request.contents = <<p.bufferProcessed, contentsEnd>>,
                       !.bufferProcessed = contentsEnd,
                       !.state = "READHEADERS"])

ReadContent(p) ==
  LET contentsEnd == p.bufferProcessed + p.request.contentLength IN
  IF p.request.contentLength \notin 0..MAXREQUESTSIZE THEN Malformed(p)
  ELSE IF contentsEnd > p.bufferEnd THEN NotReady(p)
  ELSE Ready([p EXCEPT !.request.contents = <<p.bufferProcessed, contentsEnd>>,
                       !.bufferProcessed = contentsEnd,
                       !.state = "READHEADERS"])

IsGet(p) == Kind(p.buffer[p.bufferBegin + p.request.line[1]]) = "get"

ReadHeaders(p) ==
  LET q == ScanHeaders(p) IN
  IF EmptyLines(p) = {} THEN NotReady(q)
  ELSE IF q.request.line = NoSlice THEN Malformed(q)
  ELSE IF IsGet(q) \/ q.request.contentLength = 0 THEN Ready(q)
  ELSE ReadContent([q EXCEPT !.state = "READCONTENT"])

(* Mutation: no size check.                                                *)
UncheckedRequest(p) == IF p.state = "READHEADERS" THEN ReadHeaders(p) ELSE ReadContent(p)

ReadRequest(p) ==
  IF p.bufferEnd - p.bufferBegin >= MAXREQUESTSIZE THEN Malformed(p)
  ELSE IF p.state = "READHEADERS" THEN ReadHeaders(p)
  ELSE ReadContent(p)

(* The request as the handler sees it through verb(), header() and         *)
(* contents().                                                             *)
Decoded(p) ==
  [line   |-> p.buffer[p.bufferBegin + p.request.line[1]],
   fields |-> {p.buffer[p.bufferBegin + h[1]] : h \in p.request.headers},
   body   |-> [k \in 1..(p.request.contents[2] - p.request.contents[1]) |-> p.buffer[p.request.contents[1] + k - 1]]]

-----------------------------------------------------------------------------
(***************************************************************************)
(* The callbacks of ConnectionHandlerInternal that drive the parser.       *)
(***************************************************************************)
Init ==
  /\ parser = NewParser
  /\ pc = "idle"
  /\ script = << >>
  /\ pending = << >>
  /\ delivered = 0

(* readRequest() answered r: processRequest() takes the request over, or   *)
(* startRead() issues the next recv.                                       *)
Proceed(r) ==
  IF r.done
  THEN /\ parser' = r.parser
       /\ pc' = "handle"
       /\ delivered' = IF r.parser.request.malformed THEN delivered ELSE delivered + 1
  ELSE /\ parser' = BeginAddData(r.parser)
       /\ pc' = "recv"
       /\ UNCHANGED delivered

(* start(clientfd) on a pooled or new handler.                             *)
Start ==
  /\ pc = "idle"
  /\ \E s \in Scripts : script' = s /\ pending' = Stream(s)
  /\ parser' = BeginAddData(Reset(parser))
  /\ pc' = "recv"
  /\ delivered' = 0

(* readCB(n) with n > 0: recv returned the next n bytes of the stream.     *)
ReadCB(n) ==
  /\ pc = "recv"
  /\ n <= Room(parser)
  /\ Proceed(ReadRequest(EndAddData(parser, SubSeq(pending, 1, n))))
  /\ pending' = SubSeq(pending, n + 1, Len(pending))
  /\ UNCHANGED script

(* Mutation: read on without looking at what is buffered.                  *)
CompletedWithoutLooking ==
  /\ pc = "handle"
  /\ ~parser.request.malformed
  /\ Proceed(NotReady(ClearRequest(parser)))
  /\ UNCHANGED <<script, pending>>

(* requestCompleted() with keepAlive: look for a pipelined request first.  *)
RequestCompleted ==
  /\ pc = "handle"
  /\ ~parser.request.malformed
  /\ Proceed(ReadRequest(ClearRequest(parser)))
  /\ UNCHANGED <<script, pending>>

(* stop(): readCB(r <= 0), abort(), or requestCompleted() without          *)
(* keepAlive, which is the only way on from a malformed request.           *)
Stop ==
  /\ pc \in {"recv", "handle"}
  /\ pc' = "idle"
  /\ script' = << >> /\ pending' = << >> /\ delivered' = 0
  /\ UNCHANGED parser

Next ==
  \/ Start
  \/ \E n \in 1..Len(pending) : ReadCB(n)
  \/ RequestCompleted
  \/ Stop

Spec == Init /\ [][Next]_vars

-----------------------------------------------------------------------------
(***************************************************************************)
(* Properties.                                                             *)
(***************************************************************************)
(* Types, and the order of the buffer indices, on which every access of    *)
(* the parser to its buffer relies (httpparser.H:127-210).                 *)
IndicesOK(p) ==
  /\ p.bufferSize \in Nat \ {0}
  /\ p.bufferBegin \in Nat /\ p.bufferProcessed \in Nat /\ p.bufferEnd \in Nat
  /\ p.bufferBegin <= p.bufferProcessed
  /\ p.bufferProcessed <= p.bufferEnd
  /\ p.bufferEnd <= p.bufferSize

RequestOK(r) ==
  /\ r = [line |-> r.line, headers |-> r.headers, contentLength |-> r.contentLength,
          contents |-> r.contents, malformed |-> r.malformed]
  /\ r.line \in Int \X Int
  /\ r.headers \subseteq (Int \X Int)
  /\ r.contentLength \in Int
  /\ r.contents \in Int \X Int
  /\ r.malformed \in BOOLEAN

FieldsOf(p) ==
  p = [buffer |-> p.buffer, bufferSize |-> p.bufferSize, bufferBegin |-> p.bufferBegin,
       bufferEnd |-> p.bufferEnd, bufferProcessed |-> p.bufferProcessed,
       state |-> p.state, request |-> p.request]

ParserOK(p) ==
  /\ FieldsOf(p)
  /\ IndicesOK(p)
  /\ p.buffer \in [0..(p.bufferSize - 1) -> Bytes]
  /\ p.state \in {"READHEADERS", "READCONTENT"}
  /\ RequestOK(p.request)

TypeOK ==
  /\ ParserOK(parser)
  /\ pc \in {"idle", "recv", "handle"}
  /\ pending \in Seq(Bytes)
  /\ delivered \in Nat

(* A recv is never issued with length 0: readCB would take its result, 0,  *)
(* for the end of the connection (cppsp.C:208).                            *)
RecvHasRoom == pc = "recv" => Room(parser) > 0

(* However long a connection lives and however often the handler is reused *)
(* by later ones, the buffer stays below four times the size limit, or at  *)
(* its initial size: upsize() is the only growth and it is reached only by *)
(* a partial request that readRequest() has not rejected.                  *)
BufferBounded ==
  parser.bufferSize <= InitialBufferSize \/ parser.bufferSize < 4 * MAXREQUESTSIZE

(* The lines of r are what the parser understands, and its length is sane. *)
FieldsOK(r) ==
  /\ Kind(r.line) \in {"get", "post"}
  /\ \A i \in DOMAIN r.fields : Kind(r.fields[i]) \in {"cl", "hdr"}
  /\ BodyLength(r) \in 0..MAXREQUESTSIZE

StreamSize(s) == Len(Stream(s))

AsSeen(r) == [line |-> r.line, fields |-> {r.fields[i] : i \in DOMAIN r.fields}, body |-> r.body]

(* The requests that were not delivered.                                   *)
Todo == SubSeq(script, delivered + 1, Len(script))

(* The parser implements RequestStream: see that module.                   *)
Abs == INSTANCE RequestStream WITH
  phase   <- CASE pc = "idle" -> "idle"
               [] pc = "recv" -> "open"
               [] pc = "handle" -> IF parser.request.malformed THEN "rejected" ELSE "busy",
  todo    <- IF pc = "idle" THEN << >> ELSE Todo,
  current <- IF pc = "handle" /\ ~parser.request.malformed THEN {Decoded(parser)} ELSE {},
  Valid   <- FieldsOK,
  SizeOf  <- StreamSize,
  AsSeen  <- AsSeen

(* Whatever the segmentation of the stream and the history of the buffer,  *)
(* handlers see the client's requests in order, whole and unmixed, and     *)
(* only invalid or oversized input is rejected (httpparser.H:127-210).     *)
ImplementsRequestStream == Abs!Spec

(* The parser never waits for more bytes while a complete request is in    *)
(* its buffer: the bytes of a connection that were received while it       *)
(* waits end inside the first undelivered request.  The scan has to resume *)
(* where it left off, for pipelined requests and after every partial read  *)
(* (httpparser.H:168-193).                                                 *)
NoCompleteRequestWaits ==
  pc = "recv" /\ delivered < Len(script) =>
    Len(Stream(script)) - Len(pending) < Len(Stream(SubSeq(script, 1, delivered + 1)))

=============================================================================
