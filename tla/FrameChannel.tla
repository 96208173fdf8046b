----------------------------- MODULE FrameChannel -----------------------------
(***************************************************************************)
(* What FrameWriter promises to its user and to the client, without        *)
(* buffers, headers or flushes: the messages that were accepted arrive     *)
(* whole, in order and once, until the channel goes down, which it does    *)
(* for good.  When they are sent is not said here.                         *)
(***************************************************************************)
EXTENDS Naturals, Sequences

CONSTANT Messages

VARIABLES
  accepted,   (* the messages that were given to the channel                     *)
  inbox,      (* the messages the client has                                     *)
  up          (* the channel works                                               *)

vars == <<accepted, inbox, up>>

Init == accepted = << >> /\ inbox = << >> /\ up = TRUE

Accept(message) ==
  /\ accepted' = Append(accepted, message)
  /\ UNCHANGED <<inbox, up>>

Deliver ==
  /\ up
  /\ Len(inbox) < Len(accepted)
  /\ inbox' = Append(inbox, accepted[Len(inbox) + 1])
  /\ UNCHANGED <<accepted, up>>

GoDown ==
  /\ up' = FALSE
  /\ UNCHANGED <<accepted, inbox>>

Next == (\E message \in Messages : Accept(message)) \/ Deliver \/ GoDown

Spec == Init /\ [][Next]_vars

=============================================================================
