---------------------------- MODULE RequestStream ----------------------------
(***************************************************************************)
(* What the HTTP parser promises to the request handlers, whatever the     *)
(* segmentation of the byte stream: the requests of a connection arrive    *)
(* one at a time, in order, whole and unmixed, and a request is rejected   *)
(* only when it is invalid or when the bytes not yet handed over reach the *)
(* size limit.  HttpParser implements this specification (MCHttpParser).   *)
(***************************************************************************)
EXTENDS Integers, Sequences, FiniteSets

CONSTANTS
  Scripts,        (* the sequences of requests clients send                      *)
  Valid(_),       (* whether a request is one the server accepts                 *)
  SizeOf(_),      (* bytes of a sequence of requests                             *)
  AsSeen(_),      (* a request as its handler sees it                            *)
  MAXREQUESTSIZE

VARIABLES
  phase,     (* "idle", "open": between two requests, "busy", "rejected"         *)
  todo,      (* requests not yet delivered                                       *)
  current    (* the set holding the request being handled, if any                *)

vars == <<phase, todo, current>>

Init == phase = "idle" /\ todo = << >> /\ current = {}

Connect ==
  /\ phase = "idle"
  /\ phase' = "open"
  /\ todo' \in Scripts
  /\ current' = {}

Deliver ==
  /\ phase \in {"open", "busy"}
  /\ todo # << >>
  /\ Valid(Head(todo))
  /\ SizeOf(<<Head(todo)>>) < MAXREQUESTSIZE
  /\ phase' = "busy"
  /\ current' = {AsSeen(Head(todo))}
  /\ todo' = Tail(todo)

Reject ==
  /\ phase \in {"open", "busy"}
  /\ todo # << >>
  /\ ~Valid(Head(todo)) \/ SizeOf(todo) >= MAXREQUESTSIZE
  /\ phase' = "rejected"
  /\ current' = {}
  /\ UNCHANGED todo

Complete ==
  /\ phase = "busy"
  /\ phase' = "open"
  /\ current' = {}
  /\ UNCHANGED todo

Close ==
  /\ phase # "idle"
  /\ phase' = "idle"
  /\ todo' = << >>
  /\ current' = {}

Next == Connect \/ Deliver \/ Reject \/ Complete \/ Close

Spec == Init /\ [][Next]_vars

=============================================================================
