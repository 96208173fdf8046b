----------------------------- MODULE FrameWriter -----------------------------
(***************************************************************************)
(* FrameWriter of websocket.C and websocket.H: outgoing WebSocket frames   *)
(* are appended to one of two buffers while the other one is being written *)
(* to the stream.  beginFlush() swaps the buffers; a flush asked for while *)
(* a write is outstanding is remembered and done by the write's callback.  *)
(*                                                                         *)
(* An insertion has two halves: beginAppend() returns space for the        *)
(* payload, endAppend() writes the frame's header in front of it and makes *)
(* the frame visible.  The stream (cpoll-ng's Socket) is external: it      *)
(* takes the bytes of the view it was given at its own pace, so that what  *)
(* it takes is what the buffer holds at that time.  A write that completes *)
(* inside streamWriteAll() is the step BeginFlush followed at once by its  *)
(* completion, because nothing follows the call in beginFlush().           *)
(*                                                                         *)
(* Data abstraction.  A cell stands for a field of the frame header or a   *)
(* byte of a payload, and carries what it encodes.                         *)
(***************************************************************************)
EXTENDS Integers, Sequences, SequencesExt

CONSTANTS
  Lengths,       (* payload lengths of the frames that are sent                  *)
  ShortLimit,    (* largest length that fits into ws_header1 (125)               *)
  WordLimit,     (* largest length that fits into 16 bits (0xFFFF)               *)
  MaxFrames,     (* bound on the number of frames that are begun                 *)
  Interruptible  (* TRUE: the application returns to the event loop between      *)
                 (* beginAppend() and endAppend()                                *)

ASSUME FrameWriterAssumption ==
  /\ Lengths \subseteq Nat
  /\ ShortLimit \in Nat /\ WordLimit \in Nat /\ ShortLimit < WordLimit
  /\ MaxFrames \in Nat
  /\ Interruptible \in BOOLEAN

VARIABLES
  writer,     (* the FrameWriter object                                          *)
  appending,  (* a frame has been begun and not ended                            *)
  into,       (* the buffer whose space the last beginAppend() returned          *)
  taken,      (* cells of the outstanding write that the stream has taken        *)
  wire,       (* all the cells the stream has taken (history)                    *)
  broken,     (* the stream has failed                                           *)
  begun,      (* number of frames begun (history)                                *)
  accepted,   (* the frames <<number, length>> that were ended (history)         *)
  flushed     (* number of cells accepted when flush() was last called (history) *)

vars == <<writer, appending, into, taken, wire, broken, begun, accepted, flushed>>

-----------------------------------------------------------------------------
(***************************************************************************)
(* Frames.                                                                 *)
(***************************************************************************)
Garbage == <<"garbage", 0, 0>>

(* Mutation: endAppend() takes a 64-bit length where beginAppend() reserved *)
(* the room for 16 bits.                                                   *)
HeaderOffByOne(len) ==
  IF len <= ShortLimit THEN <<<<"len", len, 0>>>>
  ELSE IF len < WordLimit THEN <<<<"len16", 0, 0>>, <<"ext", len, 0>>>>
  ELSE <<<<"len64", 0, 0>>, <<"ext", len, 0>>, <<"ext", len, 1>>>>

(* ws_header1 and, by length, ws_header_extended16 or ws_header_extended64.*)
Header(len) ==
  CASE len <= ShortLimit -> <<<<"len", len, 0>>>>
    [] len > ShortLimit /\ len <= WordLimit -> <<<<"len16", 0, 0>>, <<"ext", len, 0>>>>
    [] len > WordLimit -> <<<<"len64", 0, 0>>, <<"ext", len, 0>>, <<"ext", len, 1>>>>

HeaderLen(len) == IF len > WordLimit THEN 3 ELSE IF len > ShortLimit THEN 2 ELSE 1

Payload(n, len) == [k \in 1..len |-> <<"data", n, k>>]

Frame(f) == Header(f[2]) \o Payload(f[1], f[2])

Encode(frames) == FlattenSeq([i \in DOMAIN frames |-> Frame(frames[i])])

-----------------------------------------------------------------------------
(***************************************************************************)
(* The FrameWriter object.  buffer[FALSE] is buffer1, buffer[TRUE] is      *)
(* buffer2; a buffer is what lies below its length().                      *)
(***************************************************************************)
NewWriter ==
  [buffer |-> [b \in BOOLEAN |-> << >>], use_buffer2 |-> FALSE,
   appendingFrameBegin |-> 0, appendingFrameDataLen |-> 0, appendingFrameHeaderLen |-> 0,
   closed |-> FALSE, writing |-> FALSE, writeQueued |-> FALSE]

CurrBuffer(w) == w.buffer[w.use_buffer2]

(* beginAppend(len): reserve space behind the current buffer.              *)
BeginAppendTo(w, len) ==
  [w EXCEPT !.appendingFrameBegin = Len(CurrBuffer(w)),
            !.appendingFrameDataLen = len,
            !.appendingFrameHeaderLen = HeaderLen(len)]

(* endAppend(): the header is written into the buffer that is current now, *)
(* at the remembered offset, and the buffer is resized to the frame's end. *)
(* The payload n is there if it was written there; what lies beyond the    *)
(* old length is otherwise left-over memory.                               *)
EndAppendTo(w, n, inPlace) ==
  LET cur     == CurrBuffer(w)
      payload == w.appendingFrameBegin + w.appendingFrameHeaderLen
      header  == Header(w.appendingFrameDataLen)
      cell(k) == CASE k \in (w.appendingFrameBegin + 1)..payload -> header[k - w.appendingFrameBegin]
                   [] k > payload /\ inPlace -> <<"data", n, k - payload>>
                   [] OTHER -> IF k \in DOMAIN cur THEN cur[k] ELSE Garbage
  IN  [w EXCEPT !.buffer[w.use_buffer2] = [k \in 1..(payload + w.appendingFrameDataLen) |-> cell(k)]]

(* Mutation: a flush does not wait for the outstanding write.              *)
FlushAtOnce(w) ==
  IF CurrBuffer(w) = << >> THEN w ELSE [w EXCEPT !.writing = TRUE, !.use_buffer2 = ~@]

(* beginFlush(): hand the current buffer to the stream and swap.           *)
BeginFlush(w) ==
  IF w.writing THEN [w EXCEPT !.writeQueued = TRUE]
  ELSE IF CurrBuffer(w) = << >> THEN w
  ELSE [w EXCEPT !.writing = TRUE, !.use_buffer2 = ~@]

(* Mutation: the written buffer is not cleared.                            *)
CompletedUncleared(w, ok) ==
  LET done == [w EXCEPT !.writing = FALSE]
  IN  IF ~ok THEN [done EXCEPT !.closed = TRUE]
      ELSE IF done.writeQueued THEN BeginFlush([done EXCEPT !.writeQueued = FALSE])
      ELSE done

(* Mutation: the queued flush is not done.                                 *)
CompletedOnly(w, ok) ==
  [w EXCEPT !.buffer[~w.use_buffer2] = << >>, !.writing = FALSE, !.closed = @ \/ ~ok]

(* The callback of streamWriteAll().                                       *)
Completed(w, ok) ==
  LET done == [w EXCEPT !.buffer[~w.use_buffer2] = << >>, !.writing = FALSE]
  IN  IF ~ok THEN [done EXCEPT !.closed = TRUE]
      ELSE IF done.writeQueued THEN BeginFlush([done EXCEPT !.writeQueued = FALSE])
      ELSE done

(* The view that was given to the stream.                                  *)
InFlight(w) == IF w.writing THEN w.buffer[~w.use_buffer2] ELSE << >>

-----------------------------------------------------------------------------
Init ==
  /\ writer = NewWriter
  /\ appending = FALSE /\ into = FALSE
  /\ taken = 0 /\ wire = << >> /\ broken = FALSE
  /\ begun = 0 /\ accepted = << >> /\ flushed = 0

(* beginAppend(len), and the application copies the payload.  A frame that *)
(* was begun and not ended is replaced.                                    *)
BeginAppend(len) ==
  /\ begun < MaxFrames
  /\ writer' = BeginAppendTo(writer, len)
  /\ appending' = TRUE
  /\ into' = writer.use_buffer2
  /\ begun' = begun + 1
  /\ UNCHANGED <<taken, wire, broken, accepted, flushed>>

EndAppend ==
  /\ appending
  /\ writer' = EndAppendTo(writer, begun, into = writer.use_buffer2)
  /\ appending' = FALSE
  /\ accepted' = Append(accepted, <<begun, writer.appendingFrameDataLen>>)
  /\ UNCHANGED <<into, taken, wire, broken, begun, flushed>>

(* flush().                                                                *)
Flush ==
  /\ ~appending
  /\ writer' = BeginFlush(writer)
  /\ flushed' = Len(Encode(accepted))
  /\ UNCHANGED <<appending, into, taken, wire, broken, begun, accepted>>

(* The stream takes the next cell of the view it was given.                *)
StreamTakes ==
  /\ ~broken
  /\ taken < Len(InFlight(writer))
  /\ wire' = Append(wire, InFlight(writer)[taken + 1])
  /\ taken' = taken + 1
  /\ UNCHANGED <<writer, appending, into, broken, begun, accepted, flushed>>

(* Its callback runs when all is taken, or with r <= 0.  A connection that *)
(* has failed once fails every later write.                                *)
CallbackRuns == writer.writing /\ (appending => Interruptible)

WriteDone ==
  /\ CallbackRuns
  /\ ~broken
  /\ taken = Len(InFlight(writer))
  /\ writer' = Completed(writer, TRUE)
  /\ taken' = 0
  /\ UNCHANGED <<appending, into, wire, broken, begun, accepted, flushed>>

WriteFailed ==
  /\ CallbackRuns
  /\ writer' = Completed(writer, FALSE)
  /\ taken' = 0
  /\ broken' = TRUE
  /\ UNCHANGED <<appending, into, wire, begun, accepted, flushed>>

Next ==
  \/ \E len \in Lengths : BeginAppend(len)
  \/ EndAppend
  \/ Flush
  \/ StreamTakes
  \/ WriteDone
  \/ WriteFailed

Spec == Init /\ [][Next]_vars

(* A frame that is begun is ended, as in every handler that does both      *)
(* before it returns; a write ends, one way or the other.                  *)
FairSpec ==
  /\ Spec
  /\ WF_vars(EndAppend)
  /\ WF_vars(StreamTakes)
  /\ WF_vars(WriteDone \/ (broken /\ WriteFailed))

-----------------------------------------------------------------------------
(***************************************************************************)
(* Properties.                                                             *)
(***************************************************************************)
Cells == {"len", "len16", "len64", "ext", "data", "garbage"} \X Nat \X Nat

TypeOK ==
  /\ writer \in [buffer : [BOOLEAN -> Seq(Cells)], use_buffer2 : BOOLEAN,
                 appendingFrameBegin : Nat, appendingFrameDataLen : Nat,
                 appendingFrameHeaderLen : 0..3,
                 closed : BOOLEAN, writing : BOOLEAN, writeQueued : BOOLEAN]
  /\ appending \in BOOLEAN /\ into \in BOOLEAN /\ broken \in BOOLEAN
  /\ taken \in 0..Len(InFlight(writer))
  /\ wire \in Seq(Cells)
  /\ begun \in 0..MaxFrames
  /\ accepted \in Seq(Nat \X Nat)
  /\ flushed \in Nat

(* What the client receives are the frames that were ended, in that order, *)
(* whole: while the stream works, the bytes taken, followed by the rest of *)
(* the outstanding write and by the current buffer, are exactly the        *)
(* accepted frames; after it has failed, a prefix of them was taken.       *)
FramesIntact ==
  LET unsent == SubSeq(InFlight(writer), taken + 1, Len(InFlight(writer))) \o CurrBuffer(writer)
  IN  IF broken THEN IsPrefix(wire, Encode(accepted))
      ELSE wire \o unsent = Encode(accepted)

(* A client reads the frames: the length is in the header, in one of its   *)
(* three forms, and the payload follows it.  w is what it has received.    *)
SizeAt(w, i)   == CASE w[i][1] = "len16" -> 2 [] w[i][1] = "len64" -> 3 [] OTHER -> 1
LengthAt(w, i) == w[IF SizeAt(w, i) = 1 THEN i ELSE i + 1][2]
EndAt(w, i)    == i + SizeAt(w, i) + LengthAt(w, i)

WholeAt(w, i) ==
  /\ i <= Len(w)
  /\ i + SizeAt(w, i) - 1 <= Len(w)
  /\ EndAt(w, i) - 1 <= Len(w)

Decode(w) ==
  LET read[i \in 1..(Len(w) + 1)] ==
        IF WholeAt(w, i) THEN <<SubSeq(w, i + SizeAt(w, i), EndAt(w, i) - 1)>> \o read[EndAt(w, i)]
        ELSE << >>
  IN  read[1]

(* The user sees a channel that carries messages: the client decodes       *)
(* exactly the payloads that were accepted, each once and whole, and       *)
(* nothing arrives after a failure.                                        *)
Channel ==
  INSTANCE FrameChannel WITH
    Messages <- {Payload(n, len) : n \in 1..MaxFrames, len \in Lengths},
    accepted <- [i \in DOMAIN accepted |-> Payload(accepted[i][1], accepted[i][2])],
    inbox <- Decode(wire),
    up <- ~broken

ImplementsFrameChannel == Channel!Spec

(* What was accepted before a flush() is sent without any further call,    *)
(* unless the stream fails.                                                *)
FlushedIsSent ==
  \A n \in 1..(MaxFrames * 5) : (flushed = n) ~> (Len(wire) >= n \/ writer.closed)

=============================================================================
