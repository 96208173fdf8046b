----------------------------- MODULE RequestData -----------------------------
(***************************************************************************)
(* The text that one connection handler works on: the query string that    *)
(* processRequest() (cppsp.C) takes from the request's path and decodes    *)
(* into the handler's string pool, the page that the application makes of  *)
(* it (handleQs() of examples/test1.C), and the date that the worker's     *)
(* timer renews and every response quotes.  Handler, pool, buffer and date *)
(* are used again for request after request.                               *)
(*                                                                         *)
(* A client sends the query string of a form, which is a sequence of pairs *)
(* of texts, or any other target.  Fixed pieces of the page are single     *)
(* numbers beyond the bytes.                                               *)
(***************************************************************************)
EXTENDS StringUtils, DateText, FiniteSets

CONSTANTS
  Forms,      (* the forms that clients send                                     *)
  RawQueries, (* other query strings                                             *)
  Times       (* the times at which timerCB() runs, as tm                        *)

Text == Seq(Byte)

ASSUME RequestDataAssumption ==
  /\ \A form \in Forms : form \in Seq(Text \X Text)
  /\ RawQueries \subseteq Text
  /\ \A t \in Times : /\ t.wday \in 0..6 /\ t.mday \in 1..31 /\ t.mon \in 0..11
                      /\ t.year \in (-900)..8099
                      /\ t.hour \in 0..23 /\ t.min \in 0..59 /\ t.sec \in 0..60

VARIABLES
  phase,       (* "idle", or "handle" while the application has the request      *)
  request,     (* path and queryStrings of the Request object                    *)
  stringPool,  (* the text that queryStrings refers to                           *)
  buffer,      (* response.buffer                                                *)
  currDate,    (* the worker's Date header                                       *)
  target,      (* what the client asked for (history)                            *)
  form,        (* the form it sent, or NoForm (history)                          *)
  time         (* the time of the last timerCB() (history)                       *)

vars == <<phase, request, stringPool, buffer, currDate, target, form, time>>

NoForm   == << <<"none">> >>
Root     == <<47>>          (* /  *)
Question == 63

-----------------------------------------------------------------------------
(***************************************************************************)
(* Clients: application/x-www-form-urlencoded as browsers write it, with   *)
(* + for a blank and lower case digits, or by the library's urlEncode().   *)
(* A pair whose value is empty may be sent without the equals sign.        *)
(***************************************************************************)
BrowserDigit(i) == IF i < 10 THEN i + 48 ELSE i - 10 + 97

BrowserEscape(c) ==
  CASE c \in Alnum -> <<c>>
    [] c = Space -> <<Plus>>
    [] OTHER -> <<Percent, BrowserDigit(c \div 16), BrowserDigit(c % 16)>>

BrowserEncode(text) == Expand(text, BrowserEscape)

Joined(parts, c) ==
  FoldLeft(LAMBDA done, part : IF done = << >> THEN part ELSE done \o <<c>> \o part, << >>, parts)

Encodings(pairs) ==
  LET byBrowser == [i \in DOMAIN pairs |-> BrowserEncode(pairs[i][1]) \o <<Equal>> \o BrowserEncode(pairs[i][2])]
      byLibrary == [i \in DOMAIN pairs |->
                      IF pairs[i][2] = << >> /\ pairs[i][1] # << >> THEN UrlEncode(pairs[i][1])
                      ELSE UrlEncode(pairs[i][1]) \o <<Equal>> \o UrlEncode(pairs[i][2])]
  IN  {Joined(byBrowser, Amp), Joined(byLibrary, Amp)}

-----------------------------------------------------------------------------
(***************************************************************************)
(* ConnectionHandlerInternal.                                              *)
(***************************************************************************)
(* string_view(spStart + s, e - s).                                        *)
View(pool, s, e) == SubSeq(pool, s + 1, e)

(* parseQueryString() on a request whose path is the target: the path is   *)
(* cut at the first question mark, and the pairs refer to the pool.        *)
WithoutQuery(path) == [path |-> path, queryStrings |-> << >>]

Parsed(path, pool) ==
  LET que    == IndexOf(path, Question)
      parsed == ParseQueryString(SubSeq(path, que + 1, Len(path)), pool, << >>)
  IN  IF que = 0 THEN [request |-> WithoutQuery(path), pool |-> pool]
      ELSE [pool    |-> parsed.pool,
            request |-> [path |-> SubSeq(path, 1, que - 1),
                         queryStrings |->
                           [i \in DOMAIN parsed.indices |->
                              LET x == parsed.indices[i]
                              IN  <<View(parsed.pool, x[1], x[2]), View(parsed.pool, x[3], x[4])>>]]]

(* Mutation: the pool is not cleared.                                      *)
KeptPool == stringPool

(* stringPool.clear().                                                     *)
ClearedPool == << >>

Init ==
  /\ phase = "idle"
  /\ request = WithoutQuery(<< >>)
  /\ stringPool = << >> /\ buffer = << >>
  /\ target = << >> /\ form = NoForm
  /\ time \in Times
  /\ currDate = rfctime2(time)

(* processRequest() up to the call of the application; response.reset()    *)
(* clears the buffer.                                                      *)
ProcessRequest(path, sent) ==
  LET parsed == Parsed(path, ClearedPool) IN
  /\ phase = "idle"
  /\ phase' = "handle"
  /\ buffer' = << >>
  /\ request' = parsed.request
  /\ stringPool' = parsed.pool
  /\ target' = path
  /\ form' = sent
  /\ UNCHANGED <<currDate, time>>

(* Request::queryString(name): the value of the first pair of that name.   *)
queryString(req, name) ==
  LET i == SelectInSeq(req.queryStrings, LAMBDA pair : pair[1] = name)
  IN  IF i = 0 THEN << >> ELSE req.queryStrings[i][2]

(* handleQs() of examples/test1.C.                                         *)
Opening   == 256    (* <pre>querystrings:  *)
Separator == 257    (* a colon and a blank *)
EndOfLine == 258
Closing   == 259    (* </pre>              *)

PageLine(pair) == HtmlEscape(pair[1]) \o <<Separator>> \o HtmlEscape(pair[2]) \o <<EndOfLine>>

handleQs ==
  /\ phase = "handle"
  /\ phase' = "idle"
  /\ buffer' = Append(FoldLeft(LAMBDA page, pair : page \o PageLine(pair),
                               Append(buffer, Opening), request.queryStrings), Closing)
  /\ UNCHANGED <<request, stringPool, currDate, target, form, time>>

(* Worker::timerCB(), at any time, and not always after just one second.   *)
TimerCB(t) ==
  /\ time' = t
  /\ currDate' = rfctime2(t)
  /\ UNCHANGED <<phase, request, stringPool, buffer, target, form>>

Next ==
  \/ \E sent \in Forms : \E query \in Encodings(sent) : ProcessRequest(Root \o <<Question>> \o query, sent)
  \/ \E query \in RawQueries : ProcessRequest(Root \o <<Question>> \o query, NoForm)
  \/ ProcessRequest(Root, << >>)
  \/ handleQs
  \/ \E t \in Times : TimerCB(t)

Spec == Init /\ [][Next]_vars

-----------------------------------------------------------------------------
(***************************************************************************)
(* Properties.                                                             *)
(***************************************************************************)
(* The application sees the pairs that were sent: cutting at ? and &, the  *)
(* first = of a part, the decoding into one shared pool and the views of   *)
(* it are inverse to what clients do, for any bytes in names and values,   *)
(* and nothing of an earlier request remains (cppsp.C:221-245,             *)
(* stringutils.C:48-82, 227-259).                                          *)
PairsAsSent ==
  form # NoForm => /\ request.queryStrings = form
                   /\ request.path = IF target = << >> THEN << >> ELSE Root
                   /\ \A i \in DOMAIN form :
                        (\A j \in 1..(i - 1) : form[j][1] # form[i][1])
                          => queryString(request, form[i][1]) = form[i][2]

(* Whatever the query string is, the decoded text is no longer than it and *)
(* the pooled handler does not collect the text of earlier requests: there *)
(* are as many pairs as non-empty parts, and the pool holds their names    *)
(* and values and nothing else (cppsp.C:248, stringutils.C:74-81).         *)
PoolHoldsThePairs ==
  /\ Len(stringPool) <= Len(target)
  /\ stringPool = FoldLeft(LAMBDA done, pair : done \o pair[1] \o pair[2], << >>, request.queryStrings)
  /\ Len(request.queryStrings) <= 1 + Cardinality({i \in DOMAIN target : target[i] = Amp})

(* What a browser makes of escaped text.  Each entity is read back as the  *)
(* character it stands for.                                                *)
ReadBack(text, entities) ==
  LET n == Len(text)
      at(i) == {e \in entities : IsPrefix(e[2], SubSeq(text, i, n))}
      from[i \in 1..(n + 1)] ==
        IF i > n THEN << >>
        ELSE IF at(i) = {} THEN <<text[i]>> \o from[i + 1]
        ELSE LET e == CHOOSE e \in at(i) : TRUE IN <<e[1]>> \o from[i + Len(e[2])]
  IN  IF n = 0 THEN << >> ELSE from[1]

HtmlEntities == {<<Amp, AmpEntity>>, <<Less, LtEntity>>, <<Greater, GtEntity>>,
                 <<Quote, QuotEntity>>, <<Apos, AposEntity>>}

JsEscapes == {<<c, <<92, 117, 48, 48, IntToHexChar(c \div 16), IntToHexChar(c % 16)>>>> : c \in Byte}

(* The page contains no markup that the application did not write, and     *)
(* shows the pairs: reading the entities back gives the text of the        *)
(* request (stringutils.C:107-161; test1.C:25-39).                         *)
PageShowsPairs ==
  phase = "idle" /\ buffer # << >> =>
    /\ \A i \in DOMAIN buffer : buffer[i] \notin {Less, Greater}
    /\ ReadBack(buffer, HtmlEntities)
         = <<Opening>> \o FoldLeft(LAMBDA page, pair : page \o pair[1] \o <<Separator>> \o pair[2] \o <<EndOfLine>>,
                                   << >>, request.queryStrings) \o <<Closing>>

(* For each text of a request: the functions that make room first and then *)
(* write fill exactly the room they made, and every escape is read back as *)
(* the text, in attributes without a bare quote and in scripts without a   *)
(* quote, a backslash of the text or markup (stringutils.C:83-225).        *)
Texts == UNION {{pair[1], pair[2]} : pair \in Range(request.queryStrings)}

EscapesFitAndReadBack ==
  \A text \in Texts :
    /\ Len(HtmlEscape(text)) = HtmlEscapedLen(text)
    /\ Len(JsEscape(text)) = JsEscapedLen(text)
    /\ Len(UrlEncode(text)) = UrlEncodedLen(text)
    /\ DoURLDecode(UrlEncode(text)) = text
    /\ ReadBack(HtmlAttributeEscape(text), HtmlEntities) = text
    /\ Range(HtmlAttributeEscape(text)) \cap {Quote, Apos, Less, Greater} = {}
    /\ ReadBack(JsEscape(text), JsEscapes) = text
    /\ Range(JsEscape(text)) \subseteq Alnum \cup {92}

(* The Date header that responses quote is the time of the last timerCB(), *)
(* in the fixed form of HTTP dates, although it is put together from words *)
(* that hold parts of two fields (stringutils.C:334-429); rfctime() writes *)
(* the same, except that it does not pad the day.                          *)
Number(text) ==
  FoldLeft(LAMBDA n, ch : 10 * n + (CHOOSE d \in 0..9 : Digit(d) = ch), 0, text)

DateTrue ==
  LET text(i, j) == SubSeq(currDate, i, j)
      plain      == rfctime(time)
  IN  /\ Len(currDate) = 29
      /\ text(1, 3) = DayNames[time.wday + 1] /\ text(9, 11) = MonthNames[time.mon + 1]
      /\ Number(text(6, 7)) = time.mday /\ Number(text(13, 16)) = time.year + 1900
      /\ Number(text(18, 19)) = time.hour /\ Number(text(21, 22)) = time.min
      /\ Number(text(24, 25)) = time.sec
      /\ {k \in 1..29 : currDate[k] = " "} = {5, 8, 12, 17, 26}
      /\ <<currDate[4], currDate[20], currDate[23]>> = <<",", ":", ":">>
      /\ text(27, 29) = <<"G", "M", "T">>
      /\ plain = IF time.mday < 10 THEN RemoveAt(currDate, 6) ELSE currDate

=============================================================================
