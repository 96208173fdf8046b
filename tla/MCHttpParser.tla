----------------------------- MODULE MCHttpParser -----------------------------
(***************************************************************************)
(* HttpParser for TLC: what the clients of the model send, and the scan    *)
(* loop of readRequest() statement by statement, against which the closed  *)
(* form in HttpParser is compared.                                         *)
(***************************************************************************)
EXTENDS HttpParser

Req(line, fields, body) == [line |-> line, fields |-> fields, body |-> body]

GET    == <<"get", 0>>
POST   == <<"post", 0>>
CL(n)  == <<"cl", n>>
HDR    == <<"hdr", 0>>
X      == <<"byte", 0>>

Get       == Req(GET, << >>, << >>)
GetCL     == Req(GET, <<CL(1)>>, << >>)
PostEmpty == Req(POST, << >>, << >>)
PostOne   == Req(POST, <<CL(1)>>, <<X>>)
PostCRLF  == Req(POST, <<CL(2)>>, <<CR, LF>>)
PostTwice == Req(POST, <<CL(0), CL(1)>>, <<CR>>)
PostAgain == Req(POST, <<CL(-1), CL(1)>>, <<LF>>)
Fields(n) == Req(GET, [i \in 1..n |-> HDR], << >>)
JunkLine  == Req(X, << >>, << >>)
JunkField == Req(POST, <<X>>, << >>)
Negative  == Req(POST, <<CL(-1)>>, << >>)
Absurd    == Req(POST, <<CL(MAXREQUESTSIZE + 1)>>, << >>)
Large     == Req(POST, <<CL(4)>>, <<CR, LF, CR, LF>>)

(* Connections of one to three requests, every pair of which is pipelined: *)
(* with bodies that look like line ends, at the size limit and one byte    *)
(* around it, and invalid.                                                 *)
Small == {Get, GetCL, PostEmpty, PostOne, PostCRLF, PostTwice, PostAgain, Fields(2), Large}
Bad   == {JunkLine, JunkField, Negative, Absurd}

MCScripts ==
  {<<r, s>> : r \in Small, s \in Small \cup Bad} \cup {<<r>> : r \in Bad}
    \cup {<<Fields(n)>> : n \in 3..5} \cup {<<Get, PostOne, Get>>, <<PostOne, PostEmpty, Get>>}

(* The clients divide their streams as the server does.                    *)
ASSUME ClientsAssumption == RequestScripts

-----------------------------------------------------------------------------
FirstCRLF(p) == IF CRLFs(p) = {} THEN -1 ELSE Min(CRLFs(p))

AddHeader(p, index) ==
  LET begin == p.bufferProcessed
      kinds == {Kind(p.buffer[k]) : k \in begin..(index - 1)}
      at    == <<begin - p.bufferBegin, index - p.bufferBegin>>
      keep  == [p EXCEPT !.request.headers = @ \cup {at}]
  IN  IF p.request.line = NoSlice
      THEN [p EXCEPT !.request.line = at,
                     !.request.malformed = @ \/ kinds \cap {"get", "post"} = {}]
      ELSE IF kinds \cap {"cl", "hdr"} = {} THEN [p EXCEPT !.request.malformed = TRUE]
      ELSE IF Kind(p.buffer[begin]) # "cl" THEN keep
      ELSE [keep EXCEPT !.buffer[index] = NUL,
                        !.request.contentLength = Number(p.buffer[begin])]

RECURSIVE ScanLoop(_)
ScanLoop(p) ==
  LET index == FirstCRLF(p)
      next  == [p EXCEPT !.bufferProcessed = index + 2]
  IN  IF p.bufferProcessed >= p.bufferEnd \/ index < 0 THEN NotReady(p)
      ELSE IF p.bufferProcessed = index
      THEN IF p.request.line = NoSlice THEN Malformed(next)
           ELSE IF IsGet(p) \/ p.request.contentLength = 0 THEN Ready(next)
           ELSE ReadContent([next EXCEPT !.state = "READCONTENT"])
      ELSE ScanLoop([AddHeader(p, index) EXCEPT !.bufferProcessed = index + 2])

LoopReadRequest(p) ==
  IF p.bufferEnd - p.bufferBegin >= MAXREQUESTSIZE THEN Malformed(p)
  ELSE IF p.state = "READHEADERS" THEN ScanLoop(p)
  ELSE ReadContent(p)

(* The closed form of readRequest() computes what its loop computes        *)
(* (httpparser.H:161-210), on every buffer that a next call can meet.      *)
ScanMatchesLoop ==
  /\ pc = "recv" => \A n \in 1..Len(pending) :
       n <= parser.bufferSize - parser.bufferEnd =>
         LET p == EndAddData(parser, SubSeq(pending, 1, n))
         IN  ReadRequest(p) = LoopReadRequest(p)
  /\ pc = "handle" /\ ~parser.request.malformed =>
       ReadRequest(ClearRequest(parser)) = LoopReadRequest(ClearRequest(parser))

=============================================================================
