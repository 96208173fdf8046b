--------------------------- MODULE WebSocketParser ---------------------------
(***************************************************************************)
(* WebSocketParser of websocket.C: received bytes go into a growable       *)
(* buffer, process() takes one frame at a time off its front, and          *)
(* beginAddData() makes room for more, using the size of the frame that is *)
(* still incomplete (currFrameSizeHint) to grow the buffer at once as far  *)
(* as the frame needs.                                                     *)
(*                                                                         *)
(* The caller is one that follows the usage comment of websocket.H: begin, *)
(* read, end, then process() until it returns false.  It may reuse the     *)
(* parser for another stream with reset().                                 *)
(*                                                                         *)
(* Data abstraction.  A cell is a field of the frame header (ws_header1,   *)
(* a 16-bit length, the masking key), half a 64-bit length, or a byte of a *)
(* payload.  A payload byte is <<"data", n, k>> or, masked, <<"masked", n, *)
(* k>>, the k-th byte of the stream's n-th frame.                          *)
(***************************************************************************)
EXTENDS Integers, Sequences, FiniteSets, SequencesExt

CONSTANTS
  InitialBufferSize,  (* allocated by the constructor (4096)                     *)
  maxFrameSize,       (* 16384 unless the application changes it                 *)
  Scripts             (* what peers send: sequences of frames                    *)
                      (* [format, length, mask]; format is that of the length,   *)
                      (* 7, 16 or 64 bits, and need not be the shortest one      *)

(* A format holds only the lengths that fit; 7 bits leave two for the others. *)
Frames ==
  {f \in [format : {7, 16, 64}, length : Nat, mask : BOOLEAN] :
     (f.format = 7 => f.length <= 125) /\ (f.format = 16 => f.length < 65536)}

ASSUME WebSocketParserAssumption ==
  /\ InitialBufferSize \in Nat \ {0}
  /\ maxFrameSize \in Nat \ {0}
  /\ Scripts \subseteq Seq(Frames)

(* payload_len of ws_header1: the length itself, or the format that follows.*)
LengthField(f) == CASE f.format = 7 -> f.length [] f.format = 16 -> 126 [] f.format = 64 -> 127

(* Sizes in cells: of ws_header1 (1), the extended length and the mask.    *)
ExtendedSize(field) == CASE field <= 125 -> 0 [] field = 126 -> 1 [] field = 127 -> 2

(* Mutation: the mask bit is ignored.                                      *)
UnmaskedMinLen(head) == 1 + ExtendedSize(head[2])

(* Mutation: a masking key is always expected.                             *)
MaskedMinLen(head) == 1 + ExtendedSize(head[2]) + 1

MinLen(head) == 1 + ExtendedSize(head[2]) + head[3]
MaxHeader == 4

(* The bytes of the n-th frame f on the wire.                              *)
Wire(n, f) ==
  LET mask == IF f.mask THEN 1 ELSE 0
  IN  <<<<"head", LengthField(f), mask>>>>
        \o [k \in 1..ExtendedSize(LengthField(f)) |-> <<"length", f.length, k>>]
        \o [k \in 1..mask |-> <<"key", n, k>>]
        \o [k \in 1..f.length |-> <<IF f.mask THEN "masked" ELSE "data", n, k>>]

(* The bytes of the frames behind the first n of script s.                 *)
StreamAfter(s, n) ==
  LET from[i \in 1..(Len(s) + 1)] == IF i > Len(s) THEN << >> ELSE Wire(i, s[i]) \o from[i + 1]
  IN  from[n + 1]

VARIABLES
  parser,     (* the WebSocketParser object                                      *)
  pc,         (* "unused", "read": waiting for data, "process", "failed":        *)
              (* process() has thrown length_error                               *)
  script,     (* the frames of the current stream (history)                      *)
  pending,    (* bytes of the stream that have not been received                 *)
  frames      (* payloads handed to the caller (history)                         *)

vars == <<parser, pc, script, pending, frames>>

-----------------------------------------------------------------------------
(* Bytes that were not received.  After a move or a reset, what lies       *)
(* outside the received bytes is represented by it.                        *)
Unset == <<"unset", 0, 0>>
Blank(size) == [i \in 0..(size - 1) |-> Unset]

NewParser ==
  [buffer |-> Blank(InitialBufferSize), bufferSize |-> InitialBufferSize,
   bufferBegin |-> 0, bufferEnd |-> 0, currFrameSizeHint |-> 0]

(* reset(): the size hint is kept.                                         *)
Reset(p) == [p EXCEPT !.buffer = Blank(p.bufferSize), !.bufferBegin = 0, !.bufferEnd = 0]

(* upsize(minCapacity): double at least once, and until it is enough.      *)
Upsized(size, minCapacity) ==
  LET doubled[n \in 1..(size + minCapacity)] ==
        IF n * 2 >= minCapacity THEN n * 2 ELSE doubled[n * 2]
  IN  doubled[size]

(* Mutation: whatever is received, there is room for it.                   *)
NeverUpsize(p) == FALSE

(* Mutation: a partial frame always makes the buffer grow.                 *)
AlwaysUpsize(p) == TRUE

MustUpsize(p) ==
  \/ (p.bufferEnd - p.bufferBegin) * 2 > p.bufferSize
  \/ p.currFrameSizeHint # 0 /\ p.currFrameSizeHint * 2 > p.bufferSize

BeginAddData(p) ==
  LET cur   == p.bufferEnd - p.bufferBegin
      size  == IF MustUpsize(p) THEN Upsized(p.bufferSize, p.currFrameSizeHint * 2) ELSE p.bufferSize
  IN  IF cur <= 0 THEN Reset(p)
      ELSE [p EXCEPT
              !.buffer = [i \in 0..(size - 1) |-> IF i < cur THEN p.buffer[p.bufferBegin + i] ELSE Unset],
              !.bufferSize = size, !.bufferBegin = 0, !.bufferEnd = cur]

(* Mutation: the length of the whole buffer is offered.                    *)
WholeBuffer(p) == p.bufferSize

(* The length that beginAddData() returns.                                 *)
Room(p) == p.bufferSize - p.bufferEnd

EndAddData(p, data) ==
  [p EXCEPT !.buffer = [i \in DOMAIN @ |-> IF i - p.bufferEnd + 1 \in DOMAIN data
                                           THEN data[i - p.bufferEnd + 1] ELSE @[i]],
            !.bufferEnd = @ + Len(data)]

-----------------------------------------------------------------------------
(* unmask(), on one cell: xor with the key is its own inverse.             *)
Unmask(c) == <<IF c[1] = "masked" THEN "data" ELSE "masked", c[2], c[3]>>

(* Mutation: the largest frame is refused.                                 *)
Reaches(n) == n >= maxFrameSize

Exceeds(n) == n > maxFrameSize

More(p)     == [result |-> "more", parser |-> p]
TooLarge(p) == [result |-> "error", parser |-> p]

(* process(out): "more" when no whole header or frame is there, "error"    *)
(* for a frame that is too large, else the frame's payload, unmasked in    *)
(* place.                                                                  *)
Process(p) ==
  LET len     == p.bufferEnd - p.bufferBegin
      head    == p.buffer[p.bufferBegin]
      minLen  == MinLen(head)
      payload == IF head[2] <= 125 THEN head[2] ELSE p.buffer[p.bufferBegin + 1][2]
      size    == minLen + payload
      hinted  == [p EXCEPT !.currFrameSizeHint = size]
      first   == p.bufferBegin + minLen
      clear   == [i \in DOMAIN p.buffer |->
                    IF head[3] = 1 /\ i \in first..(first + payload - 1)
                    THEN Unmask(p.buffer[i]) ELSE p.buffer[i]]
  IN  IF len < 1 \/ len < minLen THEN More(p)
      ELSE IF Exceeds(payload) THEN TooLarge(p)
      ELSE IF Exceeds(size) THEN TooLarge(hinted)
      ELSE IF len < size THEN More(hinted)
      ELSE [result |-> "frame",
            parser |-> [p EXCEPT !.buffer = clear, !.bufferBegin = @ + size, !.currFrameSizeHint = 0],
            data   |-> [k \in 1..payload |-> clear[first + k - 1]]]

-----------------------------------------------------------------------------
Init ==
  /\ parser = NewParser
  /\ pc = "unused"
  /\ script = << >> /\ pending = << >> /\ frames = << >>

(* A new stream, and its first beginAddData().                             *)
Start ==
  /\ pc = "unused"
  /\ \E s \in Scripts : script' = s /\ pending' = StreamAfter(s, 0)
  /\ parser' = BeginAddData(Reset(parser))
  /\ pc' = "read"
  /\ UNCHANGED frames

(* n bytes are received: endAddData(n).                                    *)
Read(n) ==
  /\ pc = "read"
  /\ n <= Room(parser)
  /\ parser' = EndAddData(parser, SubSeq(pending, 1, n))
  /\ pending' = SubSeq(pending, n + 1, Len(pending))
  /\ pc' = "process"
  /\ UNCHANGED <<script, frames>>

(* process() returns a frame.                                              *)
ProcessFrame ==
  LET r == Process(parser) IN
  /\ pc = "process"
  /\ r.result = "frame"
  /\ parser' = r.parser
  /\ frames' = Append(frames, r.data)
  /\ UNCHANGED <<pc, script, pending>>

(* process() returns false; the next beginAddData().                       *)
ProcessMore ==
  LET r == Process(parser) IN
  /\ pc = "process"
  /\ r.result = "more"
  /\ parser' = BeginAddData(r.parser)
  /\ pc' = "read"
  /\ UNCHANGED <<script, pending, frames>>

(* process() throws.                                                       *)
ProcessThrows ==
  LET r == Process(parser) IN
  /\ pc = "process"
  /\ r.result = "error"
  /\ parser' = r.parser
  /\ pc' = "failed"
  /\ UNCHANGED <<script, pending, frames>>

(* The stream ends, or the caller gives it up.                             *)
Close ==
  /\ pc \in {"read", "failed"}
  /\ pc' = "unused"
  /\ script' = << >> /\ pending' = << >> /\ frames' = << >>
  /\ UNCHANGED parser

Next ==
  \/ Start
  \/ \E n \in 1..Len(pending) : Read(n)
  \/ ProcessFrame
  \/ ProcessMore
  \/ ProcessThrows
  \/ Close

Spec == Init /\ [][Next]_vars

-----------------------------------------------------------------------------
(***************************************************************************)
(* Properties.                                                             *)
(***************************************************************************)
Cells == {"unset", "head", "length", "key", "masked", "data"} \X Nat \X Nat

TypeOK ==
  /\ parser.bufferSize \in Nat \ {0}
  /\ parser.buffer \in [0..(parser.bufferSize - 1) -> Cells]
  /\ parser.bufferBegin \in Nat /\ parser.bufferEnd \in Nat
  /\ parser.bufferBegin <= parser.bufferEnd /\ parser.bufferEnd <= parser.bufferSize
  /\ parser.currFrameSizeHint \in Nat
  /\ pc \in {"unused", "read", "process", "failed"}
  /\ pending \in Seq(Cells)
  /\ frames \in Seq(Seq(Cells))

(* There is always room for another byte when the caller is asked to read  *)
(* (websocket.C:79-105); a read of length 0 would look like the end of the *)
(* stream.                                                                 *)
ReadHasRoom == pc = "read" => Room(parser) > 0

(* The buffer is not larger than four times the largest frame requires,    *)
(* whatever lengths the peer announces and although a size hint survives   *)
(* an exception and reset() (websocket.C:59-61, 90-92, 154-160).           *)
BufferBounded ==
  \/ parser.bufferSize <= InitialBufferSize
  \/ parser.bufferSize < 4 * (maxFrameSize + MaxHeader)

(* However the stream is cut up, the caller gets the payloads of its       *)
(* frames in order, unmasked, each once, and what is buffered and pending  *)
(* is the untouched rest of the stream (websocket.C:117-173).              *)
FramesIntact ==
  LET rest == [k \in 1..(parser.bufferEnd - parser.bufferBegin) |->
                 parser.buffer[parser.bufferBegin + k - 1]]
      n    == Len(frames)
  IN  pc # "unused" =>
        /\ n <= Len(script)
        /\ frames = [i \in 1..n |-> [k \in 1..script[i].length |-> <<"data", i, k>>]]
        /\ rest \o pending = StreamAfter(script, n)

(* The caller is not asked to read on while a whole frame, or a header     *)
(* that has to be refused, is in the buffer.                               *)
HeaderSize(f) == Len(Wire(1, f)) - f.length
NothingCompleteWaits ==
  pc = "read" /\ Len(frames) < Len(script) =>
    LET next == script[Len(frames) + 1]
        have == parser.bufferEnd - parser.bufferBegin
    IN  IF HeaderSize(next) + next.length > maxFrameSize
        THEN have < HeaderSize(next)
        ELSE have < HeaderSize(next) + next.length

(* A frame is refused if and only if it is larger than maxFrameSize: what  *)
(* process() returns is within the limit, what it throws for is beyond it, *)
(* and it does not ask for more once it has the header of a frame that is  *)
(* beyond it (websocket.C:154-160).                                        *)
RefusedForSize ==
  LET TooLong(i) == HeaderSize(script[i]) + script[i].length > maxFrameSize
      next == Len(frames) + 1
  IN  /\ \A i \in 1..Len(frames) : ~TooLong(i)
      /\ pc = "failed" => TooLong(next)
      /\ pc = "read" /\ next <= Len(script) /\ TooLong(next) =>
           parser.bufferEnd - parser.bufferBegin < HeaderSize(script[next])

=============================================================================
