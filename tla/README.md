# A TLA+ model of cppsp-ng

cppsp-ng is an asynchronous HTTP and WebSocket server library in C++. This
directory holds TLA+ specifications of its parts, TLC configurations that check
them on small instances, and TLAPS proofs of the properties that matter most.
Paths below are relative to `src/`; `httpparser.H`, `cppsp.H` and the other
headers are in `include/cppsp-ng/`.

## 1. The system

A `Worker` owns an event loop (cpoll-ng's `EPoll`), a pool of connection handlers
and a route cache. Everything that belongs to a worker runs on one thread, in
callbacks; several workers share nothing. Concurrency is therefore the
interleaving of callbacks: the reads, writes and timers of different
connections, and what the outside world does in between (clients that send in
pieces, stop reading or hang up; files that change on disk). Nothing is
persisted, so there is no crash recovery to speak of.

| Component | State | Operations | What makes it correct |
|---|---|---|---|
| HTTP parser (`httpparser.H`) | growable buffer with begin, end and scan positions, the offsets of the current request, READHEADERS / READCONTENT | reset, beginAddData, endAddData, readRequest, clearRequest | indices in order; requests delivered whole, in order and promptly, however the stream is cut; bounded memory; a recv always has room |
| Connection handler (`cppsp.C`) | parser, request, response, socket, scratch area | start, readCB, processRequest, finish, requestCompleted, abort, exceptions, stop | one response for each request, on the right connection, that the client can frame; nothing behind the last request; released exactly once |
| Worker and pool (`cppsp.C`) | pool of handlers, epoll set, date | accept, connectionClosedCB, timerCB | no handler lost or pooled twice; each descriptor has one owner |
| Route cache (`route_cache.C`) | table of buckets with four keys and handlers each, overwritten in turn | find, insert | caching is invisible |
| Static files (`static_handler.C`) | map of files, reference counts, to-free list, capacity and counters | createHandler, the handler itself, transfers, reload, timerCB, pop | exact counts, sound list, fresh answers, whole bodies |
| WebSocket parser (`websocket.C`) | growable buffer, size hint | reset, beginAddData, endAddData, process | frames whole, once, in order and promptly; bounded memory; refusal for size and only for size |
| Frame writer (`websocket.C`) | two buffers, one of them being written, queued flush | beginAppend, endAppend, beginFlush, write callback | accepted frames reach the wire whole and in order; no flush is forgotten |
| WebSocket handshake (`websocket.C`) | none of its own; the text travels in the callback of a write | ws_init, ws_iswebsocket | the header text outlives the write |
| Codecs and query strings (`stringutils.C`, `split.H`) | the handler's string pool and pairs | urlDecode, urlEncode, htmlEscape, htmlAttributeEscape, jsEscape, split, parseQueryString | pairs as they were sent; nothing of earlier requests; escapes that fit their room and read back |
| Date and integer text (`stringutils.C`) | the worker's date | rfctime, rfctime2, itoa, timerCB | the time of the last tick in the fixed form of HTTP dates |

How they interact: accept takes a handler from the pool and starts it; the
handler lends the parser's buffer to recv and runs the parser on what arrives;
a complete request goes through the route cache to a closure, which belongs to
the application or to the static file manager; `finish` writes the response and
its callback completes the request, which either runs the next buffered request,
or reads on, or stops and returns the handler to the pool. Evicting a closure
from the route cache drops a reference to a static file. The worker's timer
renews the date, and the file manager's timer evicts files, both possibly
in the middle of transfers. An operation may also complete while it is being issued;
the next pipelined request is then processed inside the call that answered the last one.

## 2. Modules

| Module | Role |
|---|---|
| `HttpParser` | `httpparser.H` and the callbacks that drive it |
| `RequestStream` | abstract specification of what the parser promises |
| `MCHttpParser` | clients for TLC, and the scan loop statement by statement |
| `HttpParserProofs` | its four invariants, and that it implements `RequestStream`, for every value of the constants |
| `Worker` | accept, pool, life of a connection, response buffers |
| `MCWorker` | instances for TLC |
| `WorkerProofs` | its safety properties, of the pool, the descriptors and the responses, for every value of the constants |
| `FrameWriter` | `FrameWriter` |
| `FrameChannel` | abstract specification of what the writer promises: a queue of messages |
| `FrameWriterProofs` | its two invariants, and that it implements `FrameChannel`, for any lengths and number of frames |
| `WebSocketParser`, `MCWebSocketParser` | `WebSocketParser` |
| `WebSocketParserProofs` | its six properties for every stream, every cut and every value of the constants |
| `RouteCache`, `MCRouteCache` | `RouteCache` and its use by processRequest |
| `RouteCacheProofs` | its three properties for any requests, buckets and hash function |
| `StaticFiles`, `MCStaticFiles` | `StaticFileManager`, `FileRef`, `StaticFileHandler` |
| `StaticFilesProofs` | its four properties for any files, connections and versions |
| `Site`, `MCSite` | composition: connection handlers, `RouteCache` and `StaticFiles` with the call stack between them |
| `SiteProofs` | its three invariants, and that it implements `StaticFiles`, for any cache, connections and depth |
| `WsHandshake`, `MCWsHandshake` | `ws_init()` and the buffers it leaves behind |
| `StringUtils` | codecs, `split` and parseQueryString as operators |
| `DateText` | rfctime and rfctime2 |
| `RequestData`, `MCRequestData` | query strings, page and date of one pooled handler, on the two modules above |
| `CommonLemmas` | least and greatest numbers, and the concatenation of sequences, for all proofs |

The operators named *Mutation* in a comment are not part of a specification:
each is a plausible bug in the definition that follows it, kept to show
that the properties notice it.

### HttpParser

`parser` is the HTTPParser object with the program's field names; the offset pairs
of a request are `<<start, end>>`. `pc` says who is in control: nobody (the
handler is pooled), a recv, or the request handler. The actions are `Start`
(start), `ReadCB(n)` (readCB with the n bytes recv returned), `RequestCompleted`
and `Stop`; each runs everything the callback runs, including the following
readRequest and beginAddData.

A byte is a pair of a kind and a number. CR, LF and NUL are bytes as they are; the
text of a request or header line is a single byte of the kind of line it makes
("Content-Length: n" is one byte that carries n). All index arithmetic, all
segmentations, and the two-byte CRLF cut in half are therefore real, the text is
not. `host` is one more slice of the same kind as the others and is left out.

The scan loop of readRequest is given in closed form: the set of CRLFs, the
lines between them, and what they amount to (`ScanHeaders`). That keeps the
module free of recursion, so that it can be proved about; `MCHttpParser` has the
loop itself, and `ScanMatchesLoop` compares the two on every buffer that the next
call can meet.

`RequestStream` says what handlers see: connect, deliver the next request, reject,
complete, close. The refinement maps the phase, the requests not yet
delivered, and the decoded request. Its `Reject` allows for the size check as the
code makes it: the buffered bytes count, not those of the request alone.

Which bytes of a connection belong to which request is a matter of definition as
long as the input is arbitrary. `Requests` divides it as the server does: a line is
text, the last Content-Length counts, and a GET ends at its empty line, whatever its
Content-Length; what a client puts behind it is the first line of its next request.
`RequestScripts` says that the clients' scripts are divided that way. The length of a
body is left open when the announced one is not between 0 and the limit, since such a
request is rejected anyway.

### Worker

A handler waits for at most one thing (`phase`: a recv, the application, a
write), so each callback is one action. The parser appears as RequestStream
specifies it: a read makes whole requests available, some of which stay
buffered. The response object is modelled with what can go wrong in it: the lines
of its header buffer, the chunks of its body with the request they were written
for, the class of status and content type (default, fitting, too large), and
keepAlive. All of this survives in the pool, as in the program; a new object's
keepAlive may be either value. `App*` are the things an application may do with a
request: finish, throw instead, with any part of the body written, finish without flushing
(it has used the socket itself), abort. A handler that throws after it has called finish()
is not modelled. `HangUp` is the client; descriptors are reused.

An application handler that finishes within the call that started it is the same
sequence of steps without anything in between, so the nesting of the
callbacks needs no state of its own here; `Site` models what it does to closures.

### FrameWriter

`writer` is the object. The stream takes cells from the buffer it was given, one
at a time, as that buffer is at the time: a writer that touched the outstanding
buffer would be seen on the wire. `Interruptible` says whether the application
returns to the event loop between beginAppend and endAppend.
`accepted` and `wire` are histories.

`FrameChannel` is what a user of the writer and the client see: messages accepted,
messages received, up or down. The refinement decodes the wire as a client does,
by the length in each header, so that a wrong header, a torn frame or a byte
taken after a failure is a step the channel does not have.

### WebSocketParser

The buffer, its growth by the size hint, and `Process` as process(). A cell is a
field of the header, whatever its width, except that the 64-bit length takes two, so that it
too can be cut in half. The sizes 1, 1, 2 and 1 stand for 2, 2, 8 and 4 bytes: smaller, and
not in proportion; every cut between two cells is tried, those inside the other fields are
not. Integers are unbounded. The code compares the 64-bit length with the limit before it
becomes part of an int, and asserts that the limit is below 2^30 (`websocket.C:153-157`);
that no int overflows follows from these two lines and is not checked. The driver is the one of the
usage comment and of `examples/ws_test.C`; in addition a failed or ended stream
may be followed by another one on the same object after reset().

### RouteCache

Keys and texts are sequences of characters; NUL and the separator are characters
like others, in hosts and in paths: a key is two texts joined by `#`, and different pairs of
texts may make the same key. The handler for a request is represented by the request, so
`answer.handler = answer.request` says that it is the right one. RoutesCorrect excepts a
request that gets the handler of another when one of the two hosts contains the separator,
as the code does not exclude it.

### StaticFiles

A file's content is its version. The clock is read by timerCB only, and what passes between
two readings is any member of `Periods`: timers are late, so two calls may be less than a
second apart, or more. `age` is the distance of lastCheck from the last reading, up to the
two seconds (`RecheckAfter`) that reloadIfStale compares with, and `changed` is the same
distance for the last change on disk, so both are compared as clock readings and neither as a
number of calls. The actions are the
creation and destruction of a handler, its call, the callbacks of a
transfer, the timer, and changes on disk. `Invoke` is one whole call of the closure:
reloadIfStale, the error paths, and the start of the transfer. A transfer
that has lost its mapping or descriptor may fail or may meet what has taken
the address or the number since; both are allowed.
The capacities and ratios (128, 32, 1/8, 50) are constants, scaled down in
the configurations. The assertions of unload() follow from `ToFreeListSound`.

### Site

What the parts leave out is the call stack. `stack` holds the calls of processRequest
that have not returned: `hit` called a closure in a slot of the cache, `miss` one of its
own, `copied` is in the middle of insert(). `running` is the connection whose
code runs; when an operation does not complete at once, `Return` clears it and `Unwind`
returns from the calls, innermost first, destroying local closures. Only an empty
stack lets the event loop, the timer or another connection go on. insert() is two
steps, because copying the closure and destroying the one it replaces both
touch reference counts. `HandlersOf` counts the closures in slots and calls of each
file: with it for `handlers`, Site implements StaticFiles, so that what is checked there
for arbitrary creation and destruction of handlers holds for those that the cache and the
calls really cause.

The callback of a transfer destroys the StaticFileHandler before it goes on with the
connection. `CallsAreSafe` needs that: the nested request constructs its own in the same
scratch area.

### WsHandshake

A buffer is an address that is owned or free and keeps the text written last. ws_init()
is four steps (compose, move into the callback, write, return). `WriteLater` copies the
callback, as a writer that is given a const reference must, and so allocates a buffer
for the copy of the text; the view stays where it was.

### StringUtils, DateText, RequestData

The codecs are operators on sequences of bytes, with the eight-bit arithmetic of
hexadecimal digits (chars are unsigned, Makefile.in). Where the code counts the room in one
loop and fills it in another, both are operators. The words of rfctime2 are sequences
of four characters, so that a mask, a shift or a disjunction acts on fields as the
code's do. `RequestData` runs them the way a handler does, request after request:
parseQueryString of `cppsp.C` into the string pool, handleQs of `examples/test1.C` as
the application, timerCB at any time. Its clients send forms in the encoding of browsers
and in the library's own, so the properties compare what the application sees with
what was meant, not with another decoder.

## 3. Runs

All runs use small instances; the counts are distinct states.

| Run | Instance | Shows |
|---|---|---|
| `http_parser` | buffer of 8, limit of 16, 105 kinds of connections | type and index order, room for recv, memory bound, no complete request waits, closed form = loop, refinement of RequestStream; clients as in `RequestScripts` |
| `worker` | 2 handlers, 2 descriptors, connections of one or two requests, fairness; 387,433 states | pool, descriptors, responses answer their request and can be framed unless refused, keep-alive, nothing after a close, HangUpReleases |
| `worker_framing` | 1 handler, with ones that do not fit | **violated**: ResponsesFramed |
| `frame_writer` | 3 frames of the three header formats, fairness | frames intact, refinement of FrameChannel, flushed is sent |
| `websocket_parser` | buffer of 4, limit of 8, 48 streams of two or three frames | frames intact, nothing complete waits, memory bound, room, refusal for size and for nothing else |
| `route_cache` | 9 requests without NUL, two with the same key by a `#` in host or path; 2 buckets of 3 slots, keys up to 4 characters; 18,692 states | caching is invisible, but for a `#` in a host; buckets hold the newest keys |
| `route_cache_nul` | a path with NUL | **violated**: RoutesCorrect |
| `static_files` | 3 files, one of which changes, a cached handler each, 1 connection; readings 2/3 or 4/3 of a second apart; 1,960,689 states | reference counts, the to-free list, freshness |
| `static_files_body` | 2 files | **violated**: FullBodies |
| `site` | 2 connections, 2 paths (one mapped, one sent, one changing), a cache of one slot, bursts of 2 requests, 2 nested calls; 729,587 states | CallsAreSafe, SendsWhatIsAsked, refinement of StaticFiles |
| `request_data` | 45 forms and 92 other query strings of 14 kinds of bytes, 12 times | pairs as sent, pool clean, page and escapes, date |
| `ws_handshake` | 2 connections, 5 buffers | **violated**: HeadersPreserved |

Why the bounds are enough. The parser's buffer grows once before the limit, as
in the code (4096, 8192), requests exist below, at and above half the buffer and
the limit, and every cut of every stream is tried, so that each branch of
beginAddData is met with each state of the scan. Two handlers with two
descriptors are the least in which a descriptor or a pooled handler can
be confused with another; the second connection of a handler meets
what the first has left. In the frame writer three frames let one be written, one
be queued and one be begun. A bucket is filled and overwritten more than once. For
the to-free list three files give a first, a middle and a last element, and the
one that changes on disk (`Volatile`) takes each of these places. With two thirds
of a second for the unit, two readings two calls apart may be less than two seconds apart, so
that the check waits for a third call. A
handler and a transfer of the same file give counts up to 2. In Site, two requests
of one burst, or of two connections, compete for the single slot, so that a closure is evicted
while it runs, and a nested call finds, misses, replaces and fails to cache. The forms of
`request_data` put each character that means something to a codec alone into a name and into
a value, next to others at the seams (`&`, `=`, end of text), and every string of up to three
of `%`, `&`, `=` and a digit is sent as it is; the times visit each month, weekday and the
limits of each field. The bounds
in the guards are `MaxFrames` (frames begun), `MaxHandlers` (closures of
a path), `MaxRequests` (requests between two ticks), `MaxVersion`, `MaxPipeline` (requests
found by one read) and `MaxDepth` (calls that have not returned).

Symmetry is used only in runs without liveness properties, over sets of values the
specification does not tell apart.

### Fairness

`Worker!FairSpec`: the event loop reports a socket that is ready (reads, and writes
whose client has hung up), and the application answers what it is given, which
is its contract (cppsp.H:28-29). A client need not read nor hang up, so a write to a
live client has no fairness. `FrameWriter!FairSpec`: the stream takes bytes and
calls back, and the insertion that was begun is ended, as in every
handler that does both before it returns. No other run assumes fairness.

### Disagreements between code and comments

1. **Two responses' headers in one** (`cppsp.C:93-123`, 290-297). When status and
   content type do not fit, the error page is composed on top of headers that were
   already appended (`worker_framing`).
2. **NUL in a route key** (`route_cache.C:26`, 39-40; `route_cache_nul`).
3. **Eviction in the middle of a transfer** (`static_handler.C:113-119`, 360-365):
   the body is truncated and the connection goes on (`static_files_body`).
4. **Handshake text freed before it is written** (`websocket.C:261-273`): the buffer is
   preserved only while ws_init() runs, not while a write waits (`ws_handshake`).

Observations without a run of their own:

- Host and path are joined by `#` and neither is searched for it (`cppsp.C:265-271`): host
  `a` with path `/x#/y` and host `a#/x` with path `/y` have the same key, and whichever comes
  second is given the handler of the first, without the router being asked. RoutesCorrect
  excepts it; the invariant `answer.handler = answer.request` fails in `route_cache`
  after a request for host `a` and path `#x` and one for host `a#` and path `x`.
- The size check of readRequest() counts the requests pipelined behind the current
  one (`httpparser.H:162-166`): once a request has made the buffer grow, a burst of
  small valid requests that fills it is answered with one 400.
- If the event loop ran between beginAppend and endAppend, a queued flush would swap
  the buffers under the insertion (`websocket.C:191`, 219, 227-230). Setting
  `Interruptible` shows it; no user in the repository does that.
- `rfctime2` uses `%` where a mask was probably meant (`stringutils.C:425`); the
  result is right, because the modulus is larger than the word.
- A file evicted less than two seconds after its last check is not loaded again,
  and its handler aborts the connection (`static_handler.C:334-335`, 179-180).
- pop() evicts in the order of loading (`static_handler.C:243-256`, 360-365), where
  `static_handler.H:79` says least recently used.
- The answer to a malformed request carries the keepAlive of an earlier request or
  an uninitialized one (`cppsp.C:249-256`); `KeepAliveAnnounced` excepts it.
- `loadAndEvict` is never called, so the capacity never grows.
- `accept()` failing for want of descriptors ends the process (`cppsp.C:381-385`), an
  action of Worker under which the properties hold.
- A `handleException` set by an application stays with the pooled handler and meets the
  next connection (`cppsp.C:166`).
- A failure of mmap is compared with nullptr, not with MAP_FAILED
  (`static_handler.C:304`).
- `route_cache.H` and `static_handler.H` share one include guard: a source that
  includes both loses the second.

## 4. Proofs

The proofs are checked by TLAPS for every value of the constants that satisfies the
named assumptions (sizes are positive, scripts are streams of bytes, NoFd is not a
descriptor, ...).

`HttpParserProofs`: `Spec => []TypeOK`, `[]RecvHasRoom`, `[]BufferBounded`. The
inductive invariant is their conjunction. TypeOK alone is inductive for the order of
the indices; the other two need it: beginAddData leaves room because it doubles a
buffer that is more than half full, and the doubled buffer is bounded because
a request that readRequest leaves unfinished has fewer than MAXREQUESTSIZE bytes.
The lemmas follow the code: what clearRequest, beginAddData, endAddData,
ScanHeaders, ReadContent and readRequest do to a well-formed parser, then `Proceed`,
then one step for each action. The scan needs that a non-empty finite set of
line ends has a maximum within the buffer, which is proved by well-ordering.

The same module proves `RequestScripts => (Spec => []NoCompleteRequestWaits)` and
`RequestScripts => (Spec => ImplementsRequestStream)`. `RequestScripts` is a hypothesis and
not an assumption of the module, because the first three results hold for any bytes. The
argument has four layers.

1. *Bytes of requests.* `StreamIs`: a stream is the wire form of its first request and then
   the stream of the others; `BeginsWith` gives each byte of a request by its place.
2. *One scan.* `Knows` says what the parser remembers when it is behind the first j lines of a
   request (`RequestAt`). `ScanHeadersIs`: when the buffer holds the bytes up to the n-th, the
   scan ends behind the last line that is complete, or behind the empty line, and knows all of them.
3. *One call.* `Reading` relates parser, undelivered requests and bytes still to come: from
   bufferProcessed on the buffer, followed by those bytes, holds the stream of these requests
   (of what lies before, where the scan has written its NULs, `Knows` keeps what is used later);
   the parser is between two lines of the first request or in front of its body. `AnswersRead`:
   readRequest() then rejects for a reason that RequestStream admits, or delivers exactly the first
   request and leaves the buffer at the start of the next (`Between`), or waits with less than
   the whole of the first request (`Waits`). Moving, growing, receiving, clearing and
   resetting keep these relations (`BeginAddDataWaits`, `EndAddDataReads`,
   `ClearRequestReads`, `ResetWaits`).
4. *The callbacks.* The inductive invariant `RInv` adds to the first one: `Waits` while a recv is
   outstanding, `Between` while a handler has a request, and the lengths of the streams of
   delivered and undelivered requests add up (`Divided`). Each step of a callback is one of the
   three answers (`Reads`), and each answer is a step of RequestStream or a stutter.

The body of a request is taken by its length and not looked at, so it may contain line ends;
that the scan never crosses into it is the part of `Reading` about the state READCONTENT.

`WorkerProofs`: `Spec => []PoolSound` and `[]DescriptorsOwned`. They hold together
only: a stop may put a handler into the pool because the handler was active and
therefore not in it, and a descriptor that accept returns is new because the open ones
are exactly those of active handlers. The invariant adds the shape of handlers and
connections. Three lemmas cover the ways a step can touch it (a busy handler stays
busy, it stops, it is accepted), and each action is one of them.

Further on, `WorkerProofs` has `Spec => []TypeOK`, `[]AnswersTheirRequests`, `[]KeepAliveAnnounced`,
`[]NothingAfterClose` and `[]FramedUnlessRefused`. The inductive invariant `AInv` adds to
the first one what an active handler serves (`AllServe`): what the parser still has
to yield is the rest of its client's script, the response it composes answers the request in
progress, and its header buffer has one of the few shapes that lead to a framed response.
None of the five holds by itself, because a pooled object brings its old buffers and
keepAlive into the next connection; that they are reset before they can be seen is what
the invariant records. Descriptors matter as well: a write goes to the right client because
DescriptorsOwned tells handlers apart.

`FrameWriterProofs`: `Spec => []TypeOK`; and, if frames are ended before the event loop runs
again (`~Interruptible`), `[]FramesIntact` and `ImplementsFrameChannel`. The hypothesis is what
the users in the repository do; the types do not need it. `WInv` says that the data of the
insertion in progress lies inside the buffer it was begun in; `SInv` adds to FramesIntact that this is
the end of the current buffer, which is what a swap in mid-insertion would break. The
refinement needs that decoding is inverse to encoding. It is shown for the stream cut off
anywhere (`DecodeReads`): from the start of the k-th frame on, a client reads the payloads
of the frames that are whole and nothing else, since the header gives the length in each of
its three forms. `Decode` is a recursive function, so that it has a value is proved by
well-ordering, and what it is by the least frame at which it would differ. A step of the
stream is then an arrival exactly when it completes a frame.

`RouteCacheProofs`: `Spec => []TypeOK`; and, assuming `NoNulRequests`, `[]RoutesCorrect` and
`[]HoldsMostRecent`. `NoNulRequests` says that no request has a NUL. The code does not exclude
it, so it is a hypothesis of the theorems, not an assumption of the module, and the run
`route_cache_nul` shows what it is for. The separator needs no hypothesis: `KeyInjective`
shows that two requests have the same key only if one of the hosts contains it, which is the
exception that RoutesCorrect makes. `CacheInv` relates the key of a slot to the handler
beside it; `RecentInv` says in which slot each of the last keys inserted is, from which the
round robin is seen to evict the oldest.

`WebSocketParserProofs`: all six properties of the module. `StreamInv` says that the cells
held in the buffer and those still to come are, one by one, the frames that have not been
handed out (`StreamIs`). Memory bound and room look independent of that and are not: the size
hint is read from the cell at bufferBegin, and only the invariant makes this cell a header.
The loop of upsize() is handled by well-ordering: it has a result, which is enough, and less
than twice what was asked for unless doubling once was enough.

`StaticFilesProofs`: `Spec => []TypeOK`, `[]RefCountsExact`, `[]ToFreeListSound` and
`[]FreshEnough`. `FilesInv` is made of a type for the manager; `Linked`, some sequence without
repetition lists exactly the loaded files and agrees with next, prev, firstToFree and
lastToFree; and for each file `FileOK`: refCount is the number of users, an unused and unloaded
file has been deleted, and what is known of it is what is on disk unless the disk has changed
since the check. The last part survives a reading of the clock because it adds the same, whatever
it is, to the age of a file and to that of the last change (`OlderOK`). They need each other: unload() goes through the neighbours on the list, and
touches no deleted object only because the list holds loaded files alone. `Listed` is
shown to survive the removal of any position and the addition of a last one; the loop of
timerCB() is followed round by round with the well-ordering of its rounds.

`SiteProofs`: `Spec => []TypeOK`, `[]CallsAreSafe`, `ImplementsStaticFiles`, and, assuming its
`PlainRequests`, `[]SendsWhatIsAsked`. `SiteInv` is the discipline of the call stack. At most
one connection is between two callbacks, and it is the one that runs; the frame on top of the stack is
for its current request, and its closure is its own or in the slot that find() returned, which
still has that key, since nothing comes between lookup and call; only the innermost call can be
in the middle of insert(); a StaticFileHandler exists only while its connection sends; and
the requests that were read but not counted leave room in the counter. The lemmas before the
steps count closures: what one call more, a copy, or the overwriting of a slot does to
`HandlersOf`, which is a sum of cardinalities. The refinement is then one lemma for each
action: the router and the copy in insert() are CreateHandler, an overwritten slot and the
return of a call are DropHandler, a call is Invoke, the callbacks of a transfer and the
timer are themselves, and everything else leaves the variables of StaticFiles alone. Since
StaticFilesProofs is about StaticFiles under any creation and destruction of handlers, its
theorems hold for the handlers of a worker too; this last step is by reading, because the
prover cannot cite theorems through INSTANCE.

Of the assumptions, `MaxHandlers > Buckets * Entries + MaxDepth` (Site) only keeps the bound on
the handlers of a file, which the model has for TLC's sake and the code has not, from
stopping the router. That the sets of connections are finite is used where their
transfers are counted. `minCapacity <= initialCapacity` (StaticFiles) is so in the code
(32 and 128), and so is that a route's hash is masked into the table.

Left to TLC:

- liveness (`HangUpReleases`, flushed is sent): fairness and ENABLED are beyond the prover;
- `ScanMatchesLoop`, the equality of loop and closed form in `MCHttpParser`: the loop is a
  recursive operator;
- the properties of RequestData: pairs, pages and escapes are results of recursions over texts,
  and their module uses `Bitwise`, which the prover cannot read.

What the violated runs refute is not a theorem, of course; what holds instead is stated
with its exception or hypothesis (`FramedUnlessRefused`, `PlainRequests`).

## 5. What is not modelled, and the plan

- The MIME table and the lookup of headers by name: a table read once and a linear
  search. A MIME type that does not fit the header space is not modelled either.
- The event loop and sockets (cpoll-ng) are an external library whose source is not in the
  repository; the actions are its callbacks. SHA-1 and Base64 are a library's too.
- The growth of the scratch area, `handleException` replaced by an application, and
  `loadAndEvict`, which nothing calls.
- Empty files and a failing mmap or fstat (see the hazards): a failed mapping is used as
  an address, and there is no behaviour of the program behind that to specify.
- `optionParser` of `split.H`, which nothing uses; `itoa64`, which prints Content-Length;
  fixed pages, command lines and build files.
- What the parts of Site abstract: the response buffers (Worker has them) and the bytes of a
  request (HttpParser). A call uses nothing of its closure behind the nested call, in the
  model as in the code (`static_handler.C:172-190`); a use that were added there
  would have to be added to the model to be noticed.
- The memory of a handler's string pool: RequestData has its text and not its address, so that the
  pairs are resolved after the pool has stopped moving (`cppsp.C:231-242`) is by reading.

What could be added:

1. The lemmas about single codecs that need no recursion over texts (a percent escape is read
   back as its byte, the two words of `rfctime2` that hold parts of two fields), once the hexadecimal
   conversion is written without `Bitwise`.
2. A composition of HttpParser with Worker, whose reads are steps of RequestStream now.
