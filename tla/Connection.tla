----------------------------- MODULE Connection -----------------------------
(***************************************************************************)
(* The Connection task of src/utils.rs and the two parties around it: the  *)
(* task that owns its ConnectionHandle and the peer at the other end of    *)
(* the byte stream.                                                        *)
(*                                                                         *)
(* One tokio task multiplexes everything with select!.  The outer select   *)
(* waits for the quit request, for a message to forward, for the pinned    *)
(* reading future and for the pinned writing future.  When the chosen      *)
(* branch has to wait for room in a channel it does so in an inner select  *)
(* that polls only that channel and the quit request, so neither reading   *)
(* nor writing makes progress meanwhile:                                   *)
(*                                                                         *)
(*   owner --downQ--> task --writeQ--> handle_writing --outWire--> peer    *)
(*   owner <---upQ--- task <---------- read_message  <---inWire--- peer    *)
(*                                                                         *)
(* A message is its number in the order in which it entered its direction. *)
(***************************************************************************)
EXTENDS Integers, Sequences

CONSTANTS
    ChannelSize,  \* EVENT_CHANNEL_SIZE
    WireSize,     \* frames the operating system buffers in one direction
    MaxGiven,     \* bound: messages the owner hands over
    MaxPeerSent   \* bound: frames the peer sends

ASSUME ChannelAssumption == ChannelSize \in Nat \ {0} /\ WireSize \in Nat \ {0}
ASSUME BoundAssumption == MaxGiven \in Nat /\ MaxPeerSent \in Nat

VARIABLES
    pc,          \* where connection_task waits
    reading,     \* the frame whose length read_message has read, if any
    writing,     \* the message handle_writing is writing, if any
    inHand,      \* the message the task forwards to writeQ, if any
    toReport,    \* the event the task sends up, if any
    downQ, writeQ, upQ,    \* the three bounded channels
    outWire, inWire,       \* frames in flight in the stream
    quit,        \* the oneshot quit channel
    owner,       \* what the task that owns the handle is doing
    given,       \* history: how many messages the channel took from the owner
    ownerGot,    \* history: the messages the owner received
    ownerError,  \* history: the error event the owner received, or "none"
    peerGot,     \* history: the messages the peer read from the stream
    peerSent,    \* history: how many frames the peer sent
    peer         \* whether the peer has closed the stream

taskVars  == <<pc, reading, writing, inHand, toReport>>
outVars   == <<downQ, writeQ, outWire, given, peerGot>>
inVars    == <<upQ, inWire, ownerGot, ownerError, peerSent, peer>>
vars      == <<taskVars, outVars, inVars, quit, owner>>

(* Messages and frames by their number.                                    *)
Ids == Nat

(* What read_message may make of a frame: a message, a negative length     *)
(* (ReadError::MessageSize), bytes that do not deserialize                 *)
(* (ReadError::Deserialize) or an end of stream in the middle (Io).        *)
FrameKinds == {"message", "negativeSize", "garbage", "truncated"}
Frames == [kind : FrameKinds, n : Ids]
Errors == {"ReadError", "WriteError"}
(* The errors carry no number of their own; n is 0.                        *)
Events == [kind : {"Message"} \cup Errors, n : Ids]

IsError(event) == event.kind \in Errors
ErrorEvent(kind) == [kind |-> kind, n |-> 0]

Init ==
    /\ pc = "select"
    /\ reading = <<>> /\ writing = <<>> /\ inHand = <<>> /\ toReport = <<>>
    /\ downQ = <<>> /\ writeQ = <<>> /\ upQ = <<>>
    /\ outWire = <<>> /\ inWire = <<>>
    /\ quit = "none" /\ owner = "ready"
    /\ given = 0 /\ ownerGot = <<>> /\ ownerError = "none"
    /\ peerGot = <<>> /\ peerSent = 0 /\ peer = "open"
-----------------------------------------------------------------------------
(* The task: the branches of the outer select.                             *)

(* Bugs the pinned futures rule out: a future made anew on every turn of   *)
(* the loop forgets the frame it was in the middle of.                     *)
ForwardRearmsReader ==
    /\ pc = "select" /\ downQ # <<>>
    /\ inHand' = <<Head(downQ)>>
    /\ downQ' = Tail(downQ)
    /\ pc' = "enqueue"
    /\ reading' = <<>>
    /\ UNCHANGED <<writing, toReport, writeQ, outWire, given, peerGot>>
    /\ UNCHANGED <<inVars, quit, owner>>

ForwardRearmsWriter ==
    /\ pc = "select" /\ downQ # <<>>
    /\ inHand' = <<Head(downQ)>>
    /\ downQ' = Tail(downQ)
    /\ pc' = "enqueue"
    /\ writing' = <<>>
    /\ UNCHANGED <<reading, toReport, writeQ, outWire, given, peerGot>>
    /\ UNCHANGED <<inVars, quit, owner>>

(* event = receiver.recv(): the message is moved into the inner select.    *)
Forward ==
    /\ pc = "select" /\ downQ # <<>>
    /\ inHand' = <<Head(downQ)>>
    /\ downQ' = Tail(downQ)
    /\ pc' = "enqueue"
    /\ UNCHANGED <<reading, writing, toReport, writeQ, outWire, given, peerGot>>
    /\ UNCHANGED <<inVars, quit, owner>>

(* A bug: the internal channel is taken for an unbounded one.              *)
EnqueueUnbounded ==
    /\ pc = "enqueue"
    /\ writeQ' = Append(writeQ, Head(inHand))
    /\ inHand' = <<>>
    /\ pc' = "select"
    /\ UNCHANGED <<reading, writing, toReport, downQ, outWire, given, peerGot>>
    /\ UNCHANGED <<inVars, quit, owner>>

(* The inner select's w_sender.send completed.                             *)
Enqueue ==
    /\ pc = "enqueue" /\ Len(writeQ) < ChannelSize
    /\ writeQ' = Append(writeQ, Head(inHand))
    /\ inHand' = <<>>
    /\ pc' = "select"
    /\ UNCHANGED <<reading, writing, toReport, downQ, outWire, given, peerGot>>
    /\ UNCHANGED <<inVars, quit, owner>>

(* read_i32 completed with a length that is not negative.                  *)
ReadSize ==
    /\ pc = "select" /\ reading = <<>> /\ inWire # <<>>
    /\ Head(inWire).kind # "negativeSize"
    /\ reading' = <<Head(inWire)>>
    /\ inWire' = Tail(inWire)
    /\ UNCHANGED <<pc, writing, inHand, toReport, upQ, ownerGot, ownerError>>
    /\ UNCHANGED <<peerSent, peer, outVars, quit, owner>>

(* The whole frame was read and deserialized; r_task is armed again.       *)
ReadMessage ==
    /\ pc = "select" /\ reading # <<>>
    /\ Head(reading).kind = "message"
    /\ toReport' = <<[kind |-> "Message", n |-> Head(reading).n]>>
    /\ reading' = <<>>
    /\ pc' = "report"
    /\ UNCHANGED <<writing, inHand, outVars, inVars, quit, owner>>

(* Where read_message cannot but return an error: a negative length, bytes *)
(* that do not deserialize, or the end of the stream, which the reader     *)
(* meets between two frames or inside one.                                 *)
StreamAtFault ==
    \/ reading # <<>> /\ Head(reading).kind # "message"
    \/ /\ reading = <<>> /\ inWire # <<>>
       /\ Head(inWire).kind = "negativeSize"
    \/ reading = <<>> /\ inWire = <<>> /\ peer = "closed"

(* read_message returned an error: a negative length, bytes that do not    *)
(* deserialize, an end of stream inside or between frames, or an error of  *)
(* the stream itself, which may come at any time.                          *)
ReadFails ==
    /\ pc = "select"
    /\ toReport' = <<ErrorEvent("ReadError")>>
    /\ pc' = "report"
    /\ UNCHANGED <<reading, writing, inHand, outVars, inVars, quit, owner>>

(* handle_writing returned an error: the message does not serialize, its   *)
(* length does not fit in i32, or write_all failed.  A frame that was      *)
(* partly written is never read whole by the peer.                         *)
WriterFails ==
    /\ pc = "select" /\ writing # <<>>
    /\ toReport' = <<ErrorEvent("WriteError")>>
    /\ pc' = "report"
    /\ UNCHANGED <<reading, writing, inHand, outVars, inVars, quit, owner>>

(* handle_writing runs only when the outer select polls it.                *)
WriterReceives ==
    /\ pc = "select" /\ writing = <<>> /\ writeQ # <<>>
    /\ writing' = <<Head(writeQ)>>
    /\ writeQ' = Tail(writeQ)
    /\ UNCHANGED <<pc, reading, inHand, toReport, downQ, outWire, given, peerGot>>
    /\ UNCHANGED <<inVars, quit, owner>>

WriterWrites ==
    /\ pc = "select" /\ writing # <<>> /\ Len(outWire) < WireSize
    /\ outWire' = Append(outWire, Head(writing))
    /\ writing' = <<>>
    /\ UNCHANGED <<pc, reading, inHand, toReport, downQ, writeQ, given, peerGot>>
    /\ UNCHANGED <<inVars, quit, owner>>

(* A bug: the loop is not left after an error was sent up.                 *)
ReportGoesOn ==
    /\ pc = "report" /\ Len(upQ) < ChannelSize
    /\ upQ' = Append(upQ, Head(toReport))
    /\ toReport' = <<>>
    /\ pc' = "select"
    /\ UNCHANGED <<reading, writing, inHand, outVars, inWire, ownerGot>>
    /\ UNCHANGED <<ownerError, peerSent, peer, quit, owner>>

(* The inner select's send_up completed.  After an error the loop ends and *)
(* the task only waits for the quit request.                               *)
Report ==
    /\ pc = "report" /\ Len(upQ) < ChannelSize
    /\ upQ' = Append(upQ, Head(toReport))
    /\ toReport' = <<>>
    /\ pc' = IF IsError(Head(toReport)) THEN "waitQuit" ELSE "select"
    /\ UNCHANGED <<reading, writing, inHand, outVars, inWire, ownerGot>>
    /\ UNCHANGED <<ownerError, peerSent, peer, quit, owner>>

(* A bug: quit is looked at only in the outer select and at the end.       *)
TakeQuitOuterOnly ==
    /\ quit = "sent" /\ pc \in {"select", "waitQuit"}
    /\ quit' = "taken"
    /\ pc' = "closed"
    /\ UNCHANGED <<reading, writing, inHand, toReport, outVars, inVars, owner>>

(* Every select, inner or outer, and the final await take the quit request.*)
TakeQuit ==
    /\ quit = "sent" /\ pc # "closed"
    /\ quit' = "taken"
    /\ pc' = "closed"
    /\ UNCHANGED <<reading, writing, inHand, toReport, outVars, inVars, owner>>

Read  == ReadSize \/ ReadMessage \/ ReadFails
Write == WriterReceives \/ WriterWrites \/ WriterFails
Task  == Forward \/ Enqueue \/ Read \/ Write \/ Report \/ TakeQuit
-----------------------------------------------------------------------------
(* The owner: DeviceStateTask, whose loop either handles one event (and    *)
(* may wait for room in the send queue while it does) or receives one, and *)
(* which leaves the loop when it receives an error.                        *)

StartSend ==
    /\ owner = "ready" /\ ownerError = "none" /\ given < MaxGiven
    /\ owner' = "sending"
    /\ UNCHANGED <<taskVars, outVars, inVars, quit>>

SendDown ==
    /\ owner = "sending" /\ Len(downQ) < ChannelSize
    /\ downQ' = Append(downQ, given + 1)
    /\ given' = given + 1
    /\ owner' = "ready"
    /\ UNCHANGED <<writeQ, outWire, peerGot, taskVars, inVars, quit>>

ReceiveUp ==
    /\ owner = "ready" /\ ownerError = "none" /\ upQ # <<>>
    /\ upQ' = Tail(upQ)
    /\ IF IsError(Head(upQ))
       THEN ownerError' = Head(upQ).kind /\ UNCHANGED ownerGot
       ELSE ownerGot' = Append(ownerGot, Head(upQ).n) /\ UNCHANGED ownerError
    /\ UNCHANGED <<inWire, peerSent, peer, taskVars, outVars, quit, owner>>

(* ConnectionHandle::quit: the request is sent and the task is awaited;    *)
(* nothing is received any more.                                           *)
Quit ==
    /\ owner # "quitting"
    /\ owner' = "quitting"
    /\ quit' = "sent"
    /\ UNCHANGED <<taskVars, outVars, inVars>>

Owner == StartSend \/ SendDown \/ ReceiveUp \/ Quit
-----------------------------------------------------------------------------
(* The peer: any program that speaks TCP to the JSON port.                 *)

PeerReads ==
    /\ outWire # <<>> /\ peer = "open"
    /\ peerGot' = Append(peerGot, Head(outWire))
    /\ outWire' = Tail(outWire)
    /\ UNCHANGED <<downQ, writeQ, given, taskVars, inVars, quit, owner>>

PeerSends ==
    /\ peer = "open" /\ peerSent < MaxPeerSent /\ Len(inWire) < WireSize
    /\ \E kind \in FrameKinds :
          /\ inWire' = Append(inWire, [kind |-> kind, n |-> peerSent + 1])
          /\ peer' = IF kind = "truncated" THEN "closed" ELSE "open"
    /\ peerSent' = peerSent + 1
    /\ UNCHANGED <<upQ, ownerGot, ownerError, taskVars, outVars, quit, owner>>

PeerCloses ==
    /\ peer = "open"
    /\ peer' = "closed"
    /\ UNCHANGED <<upQ, inWire, ownerGot, ownerError, peerSent>>
    /\ UNCHANGED <<taskVars, outVars, quit, owner>>

Peer == PeerReads \/ PeerSends \/ PeerCloses

Next == Task \/ Owner \/ Peer

Spec == Init /\ [][Next]_vars

(* tokio polls a woken task again, and select! polls its branches in an    *)
(* order it draws anew each time, so no ready branch is passed over for    *)
(* ever.  The owner receives when it can, completes a send for which there *)
(* is room and quits after an error; what it sends is its own affair.  The *)
(* peer is assumed to read, as a live peer does.                           *)
TaskFairness ==
    /\ WF_vars(Enqueue) /\ WF_vars(Report) /\ WF_vars(TakeQuit)
    /\ SF_vars(Forward) /\ SF_vars(WriterReceives) /\ SF_vars(WriterWrites)
    /\ SF_vars(ReadSize) /\ SF_vars(ReadMessage)
    /\ SF_vars(StreamAtFault /\ ReadFails)

OwnerFairness ==
    /\ WF_vars(SendDown) /\ WF_vars(ReceiveUp)
    /\ WF_vars(ownerError # "none" /\ Quit)

FairSpec == Spec /\ TaskFairness /\ OwnerFairness /\ WF_vars(PeerReads)
-----------------------------------------------------------------------------
(* Every value is of its type and no channel holds more than its capacity; *)
(* the task has a message in hand exactly while it enqueues it and an      *)
(* event exactly while it reports it.                                      *)
TypeOK ==
    /\ pc \in {"select", "enqueue", "report", "waitQuit", "closed"}
    /\ reading \in Seq(Frames) /\ Len(reading) <= 1
    /\ writing \in Seq(Ids) /\ Len(writing) <= 1
    /\ inHand \in Seq(Ids) /\ Len(inHand) <= 1
    /\ toReport \in Seq(Events) /\ Len(toReport) <= 1
    /\ downQ \in Seq(Ids) /\ Len(downQ) <= ChannelSize
    /\ writeQ \in Seq(Ids) /\ Len(writeQ) <= ChannelSize
    /\ upQ \in Seq(Events) /\ Len(upQ) <= ChannelSize
    /\ outWire \in Seq(Ids) /\ Len(outWire) <= WireSize
    /\ inWire \in Seq(Frames) /\ Len(inWire) <= WireSize
    /\ quit \in {"none", "sent", "taken"}
    /\ owner \in {"ready", "sending", "quitting"}
    /\ given \in Nat /\ peerSent \in Nat
    /\ ownerGot \in Seq(Ids) /\ peerGot \in Seq(Ids)
    /\ ownerError \in Errors \cup {"none"}
    /\ peer \in {"open", "closed"}
    /\ pc = "enqueue" => inHand # <<>>
    /\ pc = "report" => toReport # <<>>
    /\ pc \in {"select", "report", "waitQuit"} => inHand = <<>>
    /\ pc \in {"select", "enqueue", "waitQuit"} => toReport = <<>>

FirstNumbers(n) == [i \in 1..n |-> i]

(* No message is lost, duplicated or overtaken between send_down and the   *)
(* peer: what the peer read, what is in flight, in the writer, in the      *)
(* internal channel, in the task's hand and in the send queue are, one     *)
(* after the other, exactly the messages the owner gave, whichever branch  *)
(* of the selects won each time (utils.rs:219-266, handle_writing).        *)
OutboundOrder ==
    peerGot \o outWire \o writing \o writeQ \o inHand \o downQ
        = FirstNumbers(given)

ErrorInEvents == \E i \in DOMAIN (upQ \o toReport) : IsError((upQ \o toReport)[i])

Reported == ownerError # "none" \/ ErrorInEvents

(* The i-th message the owner receives is the i-th frame the peer sent:    *)
(* events under way continue the numbering of what the owner got, frames   *)
(* still to be read continue that of the events, and nothing is missing in *)
(* between, also when another branch won while a frame was half read       *)
(* (utils.rs:235-256, read_message).                                       *)
InboundOrder ==
    LET events == upQ \o toReport
        frames == reading \o inWire
    IN /\ \A i \in DOMAIN ownerGot : ownerGot[i] = i
       /\ \A i \in DOMAIN events :
             ~IsError(events[i]) => events[i].n = Len(ownerGot) + i
       /\ \A i \in DOMAIN frames : frames[i].n = peerSent - Len(frames) + i
       /\ Len(ownerGot) + Len(events) + Len(frames)
             = peerSent + (IF ErrorInEvents THEN 1 ELSE 0)

(* An error is the last event of the connection and there is only one: the *)
(* owner, which stops receiving at the first error, misses no message that *)
(* was read before it and no second error (utils.rs:126-130).              *)
ErrorIsFinal ==
    LET events == upQ \o toReport IN
    /\ \A i \in DOMAIN events : IsError(events[i]) => i = Len(events)
    /\ ownerError # "none" => events = <<>>

(* "No new messages will be received or sent" (utils.rs:126, 129): once    *)
(* the task has an error to report, nothing moves between its queues, its  *)
(* futures and the stream any more, whatever the owner and the peer do.    *)
SilentAfterError ==
    [][Reported =>
         /\ UNCHANGED <<reading, writing, inHand, writeQ>>
         /\ Len(inWire') >= Len(inWire) /\ Len(downQ') >= Len(downQ)
         /\ Len(outWire') <= Len(outWire)]_vars

(* Each direction is a MessagePipe.                                        *)
Outbound == INSTANCE MessagePipe WITH sent <- given, delivered <- peerGot
Inbound  == INSTANCE MessagePipe WITH sent <- peerSent, delivered <- ownerGot
OutboundIsPipe == Outbound!Spec
InboundIsPipe  == Inbound!Spec

(* ConnectionHandle::quit returns: the task ends whatever it is waiting    *)
(* for, also when the owner no longer drains upQ and the peer no longer    *)
(* reads.                                                                  *)
QuitEndsTask == quit = "sent" ~> pc = "closed"

(* A message given to send_down reaches a peer that goes on reading, unless*)
(* an error ends the connection or the owner quits.                        *)
GivenReachesPeer ==
    \A n \in 1..MaxGiven :
        given >= n ~> \/ Len(peerGot) >= n
                      \/ Reported \/ quit # "none" \/ peer = "closed"

(* The ways in which the task can stop for good.  It waits for room in the *)
(* internal channel without polling the future that makes it               *)
(* (utils.rs:229-232).  Or task and owner wait for each other: the owner   *)
(* for room for a message (device/state.rs:220), the task for room for an  *)
(* event (utils.rs:240-262) or, after an error, for a quit request that an *)
(* owner who does not receive has no reason to send (utils.rs:268).        *)
Stuck == \/ [](pc = "enqueue")
         \/ [](pc = "report" /\ owner = "sending")
         \/ [](pc = "waitQuit" /\ owner = "sending")

(* Nothing else keeps a given message from a peer that goes on reading:    *)
(* every other wait of the task ends, in whichever order its branches win  *)
(* (utils.rs:219-266).                                                     *)
GivenArrivesOrSticks ==
    Len(peerGot) < given ~> \/ Len(peerGot) = given \/ Stuck
                            \/ Reported \/ quit # "none" \/ peer = "closed"

(* A stream that ends or carries a frame that cannot be read makes the     *)
(* owner learn of an error and close the task, unless the task is stuck.   *)
FaultClosesConnection == StreamAtFault ~> (pc = "closed" \/ Stuck)
=============================================================================
