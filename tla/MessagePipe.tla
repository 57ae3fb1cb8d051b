---------------------------- MODULE MessagePipe ----------------------------
(***************************************************************************)
(* What one direction of a device connection promises, whatever buffers    *)
(* lie between the two ends: messages are numbered in the order they are   *)
(* handed over, and the far end obtains them in that order, each at most   *)
(* once and with none skipped.  A pipe may stop at any point; it never     *)
(* delivers past a hole.                                                   *)
(***************************************************************************)
EXTENDS Naturals, Sequences

VARIABLES
    sent,       \* how many messages were handed to the pipe
    delivered   \* the numbers of the messages the far end obtained, in order

pipeVars == <<sent, delivered>>

Init == sent = 0 /\ delivered = <<>>

Put == sent' = sent + 1 /\ UNCHANGED delivered

Deliver ==
    /\ Len(delivered) < sent
    /\ delivered' = Append(delivered, Len(delivered) + 1)
    /\ UNCHANGED sent

Next == Put \/ Deliver

Spec == Init /\ [][Next]_pipeVars
=============================================================================
