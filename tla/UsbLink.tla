------------------------------- MODULE UsbLink -------------------------------
(***************************************************************************)
(* The JSON connection over USB accessory mode: the libusb thread of the   *)
(* computer (connection/usb/libusb.rs), the cable, and on the phone the    *)
(* UsbManager task (connection/usb.rs), the AndroidUsbManager thread and   *)
(* its reader and writer threads (connection/usb/android).                 *)
(*                                                                         *)
(*   app <-stream-> LibUsbThread <=cable=> reader, writer <-stream-> app   *)
(*                                            |      |                     *)
(*   UsbManager task --queue--> AndroidUsbManager <--/ errors              *)
(*                                                                         *)
(* A packet is the sequence of JSON messages in it, empty for an Empty or  *)
(* an audio packet.  The timers of the computer's task are its right to    *)
(* act at any time; what the reader does with audio is left out.           *)
(***************************************************************************)
EXTENDS Integers, Sequences

CONSTANTS
    PacketSize,   \* messages that fit in a packet
    PipeSize,     \* packets on the cable in one direction
    MaxAttached,  \* bound: times the device is put into accessory mode
    MaxSessions,  \* bound: accessory connections the computer makes
    HostJson,     \* bound: messages the computer's app sends in one stream
    PhoneJson     \* bound: messages the phone's app sends in one stream

ASSUME UsbSizes == {PacketSize, PipeSize} \subseteq Nat \ {0}
ASSUME UsbBounds ==
    {MaxAttached, MaxSessions, HostJson, PhoneJson} \subseteq Nat

VARIABLES
    device,    \* the phone: in accessory mode or away (unplugged or not in it)
    attached,  \* times it was put into accessory mode
    outPipe,   \* packets for the phone
    inPipe,    \* packets for the computer
    app,       \* JSON stream of either side and the app at its other end
    host,      \* where the libusb thread is
    hostHand,  \* packet it is to send over the cable
    hostAt,    \* the attachment its accessory handle belongs to
    usbQ,      \* events for the phone's UsbManager task
    task,      \* where that task is
    held,      \* android_usb is Some
    next,      \* what the task goes on with once it has joined
    mgr,       \* where the AndroidUsbManager thread is
    mgrQ,      \* its events
    mgrFd,     \* the attachment of the descriptor it was given
    reader, writer,                  \* where the two threads are
    writerHand,                      \* the packet the writer sends
    fd,                              \* the attachment of their descriptors
    readerRunning, writerRunning,    \* ACCESSORY_*_THREAD_RUNNING
    readerQuit, writerQuit,          \* ACCESSORY_*_THREAD_QUIT
    orphaned,  \* history: a thread ended and left its reader and writer
    quitLost,  \* history: a reader or writer started after its quit()
    resetFailed  \* history: the computer let go without resetting the device

bus        == <<device, attached, outPipe, inPipe>>
hostVars   == <<host, hostHand, hostAt, resetFailed>>
taskVars   == <<usbQ, task, held, next>>
mgrVars    == <<mgr, mgrQ, mgrFd, orphaned>>
writerVars == <<writer, writerHand>>
flags      == <<readerRunning, writerRunning, readerQuit, writerQuit, quitLost>>
phoneVars  == <<taskVars, mgrVars, reader, writerVars, flags, fd>>
vars == <<bus, app, hostVars, phoneVars>>

Sides == {"host", "phone"}
Attachments == 1 .. MaxAttached
QuitThread == 0     \* AndroidQuitAndroidUsbManager in usbQ
GoOn == 0           \* the other values of next: the task's loop goes on,
End == -1           \* or the task returns
NoStream == [id |-> 0, open |-> FALSE, out |-> <<>>, got |-> <<>>]
Json == [host |-> HostJson, phone |-> PhoneJson]

(* The app's messages are there from the start; what it has not yet sent   *)
(* is what a read does not return.                                         *)
NewStream(side) ==
    LET id == app[side].id + 1
    IN  app' = [app EXCEPT ![side] =
                   [id |-> id, open |-> TRUE, got |-> <<>>,
                    out |-> [n \in 1 .. Json[side] |-> <<id, n>>]]]

DropStream(side) ==
    app' = [app EXCEPT ![side] = [NoStream EXCEPT !.id = app[side].id]]

Init ==
    /\ device = "away" /\ attached = 0 /\ outPipe = <<>> /\ inPipe = <<>>
    /\ app = [side \in Sides |-> NoStream]
    /\ host = "poll" /\ hostHand = <<>> /\ hostAt = 0 /\ resetFailed = FALSE
    /\ usbQ = <<>> /\ task = "run" /\ held = FALSE /\ next = GoOn
    /\ mgr = "ended" /\ mgrQ = <<>> /\ mgrFd = 0 /\ orphaned = FALSE
    /\ reader = "ended"
    /\ writer = "ended" /\ writerHand = <<>>
    /\ fd = 0
    /\ readerRunning = FALSE /\ writerRunning = FALSE
    /\ readerQuit = FALSE /\ writerQuit = FALSE /\ quitLost = FALSE
-----------------------------------------------------------------------------
(* The cable and the two apps (external).                                  *)
Alive(at) == device = "accessory" /\ at = attached

Detaches == device' = "away" /\ outPipe' = <<>> /\ inPipe' = <<>>

Unplug ==
    /\ device = "accessory" /\ Detaches
    /\ UNCHANGED <<attached, app, hostVars, phoneVars>>

AppCloses(side) ==
    /\ app[side].open
    /\ app' = [app EXCEPT ![side].open = FALSE, ![side].out = <<>>]
    /\ UNCHANGED <<bus, hostVars, phoneVars>>

Surroundings == Unplug \/ \E side \in Sides : AppCloses(side)

(* How much a non-blocking read may return: at most what fits in a packet, *)
(* nothing (WouldBlock) when the app has not sent the rest yet.  A closed  *)
(* stream is at its end: what it still held counts as read before.         *)
Readable(side) ==
    {count \in 0 .. Len(app[side].out) : count <= PacketSize /\ app[side].open}

First(side, count) == SubSeq(app[side].out, 1, count)
Rest(side, count) == SubSeq(app[side].out, count + 1, Len(app[side].out))

(* A bug: after a short write the data is written from its start again.    *)
GivesFromStart(side, data) ==
    [app EXCEPT ![side].got = @ \o SubSeq(data, 1, Len(data) - 1) \o data]

(* The loop around write() gives the data whole, however short a write is; *)
(* it then has to wait for room only, of which a stream has enough here.   *)
Gives(side, data) == [app EXCEPT ![side].got = @ \o data]
-----------------------------------------------------------------------------
(* The computer: LibUsbThread.                                             *)

(* The device found in accessory mode is opened and its interface claimed. *)
ClaimsAccessory == device = "accessory" /\ hostAt' = attached

(* A Poll event: an accessory that is there is claimed and a stream opened;*)
(* otherwise a phone is asked to enter accessory mode, after which Android *)
(* hands its app a file descriptor.                                        *)
HostConnects ==
    /\ host = "poll" /\ ClaimsAccessory /\ app["host"].id < MaxSessions
    /\ host' = "connected"
    /\ NewStream("host")
    /\ UNCHANGED <<bus, hostHand, resetFailed, phoneVars>>

StartsInAccessoryMode ==
    /\ device = "away" /\ attached < MaxAttached
    /\ device' = "accessory" /\ attached' = attached + 1

HostStartsAccessory ==
    /\ host = "poll" /\ StartsInAccessoryMode
    /\ usbQ' = Append(usbQ, attached + 1)
    /\ UNCHANGED <<outPipe, inPipe, app, hostVars, task, held, next, mgrVars,
                   reader, writerVars, flags, fd>>

(* The bulk transfers of the computer.                                     *)
ReceivesPacket == Alive(hostAt) /\ inPipe # <<>> /\ inPipe' = Tail(inPipe)

SendsPacket(packet) ==
    /\ Alive(hostAt) /\ Len(outPipe) < PipeSize
    /\ outPipe' = Append(outPipe, packet)

(* JsonPollIfConnected, up to its second transfer: receive_next writes what *)
(* it got into the stream, update_connection reads the stream.             *)
HostPolls ==
    /\ host = "connected" /\ ReceivesPacket /\ app["host"].open
    /\ \E count \in Readable("host") :
          /\ hostHand' = First("host", count)
          /\ app' = [Gives("host", Head(inPipe)) EXCEPT !["host"].out = Rest("host", count)]
          /\ host' = IF count = 0 THEN "connected" ELSE "sending"
    /\ UNCHANGED <<device, attached, outPipe, hostAt, resetFailed, phoneVars>>

(* A bug: the packet is sent though the cable still holds the last one.    *)
HostSendsAtOnce ==
    /\ host = "sending" /\ Alive(hostAt)
    /\ outPipe' = Append(outPipe, hostHand)
    /\ host' = "connected" /\ hostHand' = <<>>
    /\ UNCHANGED <<device, attached, inPipe, app, hostAt, resetFailed, phoneVars>>

HostSends ==
    /\ host = "sending" /\ SendsPacket(hostHand)
    /\ host' = "connected" /\ hostHand' = <<>>
    /\ UNCHANGED <<device, attached, inPipe, app, hostAt, resetFailed, phoneVars>>

HostSendsAudio ==
    /\ host = "connected" /\ SendsPacket(<<>>)
    /\ UNCHANGED <<device, attached, inPipe, app, hostVars, phoneVars>>

(* Dropping the accessory closes the stream and resets the device, which   *)
(* leaves accessory mode unless the reset fails.                           *)
LetsGo(unread) ==
    /\ hostHand' = <<>> /\ hostAt' = 0 /\ DropStream("host")
    /\ \/ Alive(hostAt) /\ Detaches /\ UNCHANGED resetFailed
       \/ /\ inPipe' = unread /\ UNCHANGED <<device, outPipe>>
          /\ resetFailed' = (resetFailed \/ Alive(hostAt))
    /\ UNCHANGED <<attached, phoneVars>>

(* Every error ends the connection: a transfer that cannot complete within *)
(* its timeout or whose device is gone, a stream the app has closed.       *)
HostFails ==
    /\ host' = "poll"
    /\ \/ /\ host = "connected"
          /\ ~Alive(hostAt) \/ inPipe = <<>> \/ Len(outPipe) = PipeSize
          /\ LetsGo(inPipe)
       \/ /\ host = "connected" /\ Alive(hostAt) /\ inPipe # <<>>
          /\ ~app["host"].open
          /\ LetsGo(Tail(inPipe))
       \/ /\ host = "sending" /\ (~Alive(hostAt) \/ Len(outPipe) = PipeSize)
          /\ LetsGo(inPipe)

(* RequestQuit.  A thread that has ended is, for the phone, one that polls *)
(* and finds no accessory any more.                                        *)
HostQuits == host = "connected" /\ host' = "poll" /\ LetsGo(inPipe)

HostHandlesPoll == HostPolls \/ HostSends \/ HostFails
-----------------------------------------------------------------------------
(* The phone's UsbManager task.  AndroidUsbThread::start ends early when   *)
(* the descriptor cannot be duplicated.                                    *)
StartThread(at) ==
    \/ held' = TRUE /\ mgr' = "starting" /\ mgrQ' = <<>> /\ mgrFd' = at
    \/ held' = FALSE /\ UNCHANGED <<mgr, mgrQ, mgrFd>>

(* AndroidUsbThread::quit: the unwrap of the send fails when the thread's  *)
(* end of the queue is gone; otherwise the task waits in join().           *)
QuitHeld(then) ==
    \/ /\ mgr = "panicked" /\ task' = "panicked"
       /\ UNCHANGED <<next, mgrQ>>
    \/ /\ mgr # "panicked" /\ task' = "joining" /\ next' = then
       /\ mgrQ' = Append(mgrQ, "RequestQuit")

TaskReceivesFd ==
    /\ task = "run" /\ usbQ # <<>> /\ Head(usbQ) # QuitThread
    /\ usbQ' = Tail(usbQ)
    /\ \/ held /\ QuitHeld(Head(usbQ)) /\ UNCHANGED <<held, mgr, mgrFd>>
       \/ ~held /\ StartThread(Head(usbQ)) /\ UNCHANGED <<task, next>>
    /\ UNCHANGED <<orphaned, reader, writerVars, flags, fd, bus, app, hostVars>>

TaskReceivesQuitThread ==
    /\ task = "run" /\ usbQ # <<>> /\ Head(usbQ) = QuitThread
    /\ usbQ' = Tail(usbQ)
    /\ \/ held /\ QuitHeld(GoOn)
       \/ ~held /\ UNCHANGED <<task, next, mgrQ>>
    /\ UNCHANGED <<held, mgr, mgrFd, orphaned, reader, writerVars, flags, fd,
                   bus, app, hostVars>>

(* Told to quit, or the JSON listener failed.                              *)
TaskQuits ==
    /\ task = "run"
    /\ \/ held /\ QuitHeld(End)
       \/ ~held /\ task' = "ended" /\ UNCHANGED <<next, mgrQ>>
    /\ UNCHANGED <<usbQ, held, mgr, mgrFd, orphaned, reader, writerVars, flags,
                   fd, bus, app, hostVars>>

TaskJoins ==
    /\ task = "joining" /\ mgr \in {"ended", "panicked"}
    /\ \/ /\ mgr = "panicked" /\ task' = "panicked"
          /\ UNCHANGED <<held, next, mgr, mgrQ, mgrFd>>
       \/ /\ mgr = "ended" /\ next \in {GoOn, End} /\ held' = FALSE
          /\ task' = IF next = GoOn THEN "run" ELSE "ended"
          /\ UNCHANGED <<next, mgr, mgrQ, mgrFd>>
       \/ /\ mgr = "ended" /\ next \in Attachments
          /\ task' = "run" /\ next' = GoOn /\ StartThread(next)
    /\ UNCHANGED <<usbQ, orphaned, reader, writerVars, flags, fd, bus, app, hostVars>>

Task == TaskReceivesFd \/ TaskReceivesQuitThread \/ TaskQuits \/ TaskJoins
-----------------------------------------------------------------------------
(* The AndroidUsbManager thread.  The swap of the RUNNING flag allows one  *)
(* reader at a time; the writer's never differs from it here.              *)
MgrStarts ==
    /\ mgr = "starting" /\ mgrFd' = 0
    /\ \/ /\ readerRunning \/ writerRunning
          /\ mgr' = "panicked"
          /\ UNCHANGED <<app, reader, writerVars, flags, fd>>
       \/ /\ ~readerRunning /\ ~writerRunning
          /\ mgr' = "run" /\ fd' = mgrFd
          /\ readerRunning' = TRUE /\ writerRunning' = TRUE
          /\ reader' = "starting" /\ writer' = "starting"
          /\ NewStream("phone")
          /\ UNCHANGED <<writerHand, readerQuit, writerQuit, quitLost>>
    /\ UNCHANGED <<mgrQ, orphaned, taskVars, bus, hostVars>>

(* The loop ends without a quit() of the two threads, whose channels to    *)
(* this thread it closes.                                                  *)
MgrQuits ==
    /\ mgr = "run" /\ mgrQ # <<>> /\ Head(mgrQ) = "RequestQuit"
    /\ mgr' = "ended" /\ mgrQ' = <<>> /\ orphaned' = TRUE
    /\ UNCHANGED <<mgrFd, taskVars, reader, writerVars, flags, fd, bus, app, hostVars>>

(* wait_quit: the task is told, by way of the ConnectionManager, and then  *)
(* the reader is told to quit.                                             *)
MgrWaitsQuit ==
    /\ mgr = "run" /\ mgrQ # <<>> /\ Head(mgrQ) = "Error"
    /\ mgr' = "quitReader" /\ mgrQ' = Tail(mgrQ)
    /\ usbQ' = Append(usbQ, QuitThread)
    /\ readerQuit' = TRUE
    /\ UNCHANGED <<mgrFd, orphaned, task, held, next, reader, writerVars,
                   readerRunning, writerRunning, writerQuit, quitLost, fd, bus, app,
                   hostVars>>

(* A bug: the reader is joined but its RUNNING flag stays.                 *)
JoinReaderKeepsFlag ==
    /\ mgr = "quitReader" /\ reader = "ended"
    /\ mgr' = "quitWriter" /\ writerQuit' = TRUE
    /\ UNCHANGED <<mgrQ, mgrFd, orphaned, taskVars, reader, writerVars,
                   readerRunning, writerRunning, readerQuit, quitLost, fd, bus, app,
                   hostVars>>

(* A bug: the writer is joined without being told to quit.                 *)
JoinReaderOnly ==
    /\ mgr = "quitReader" /\ reader = "ended"
    /\ readerRunning' = FALSE
    /\ mgr' = "quitWriter"
    /\ UNCHANGED <<mgrQ, mgrFd, orphaned, taskVars, reader, writerVars,
                   writerRunning, readerQuit, writerQuit, quitLost, fd, bus, app, hostVars>>

JoinReader ==
    /\ mgr = "quitReader" /\ reader = "ended"
    /\ readerRunning' = FALSE
    /\ mgr' = "quitWriter" /\ writerQuit' = TRUE
    /\ UNCHANGED <<mgrQ, mgrFd, orphaned, taskVars, reader, writerVars,
                   writerRunning, readerQuit, quitLost, fd, bus, app, hostVars>>

JoinWriter ==
    /\ mgr = "quitWriter" /\ writer = "ended"
    /\ writerRunning' = FALSE
    /\ mgr' = "drain" /\ fd' = 0 /\ DropStream("phone")
    /\ UNCHANGED <<mgrQ, mgrFd, orphaned, taskVars, reader, writerVars,
                   readerRunning, readerQuit, writerQuit, quitLost, bus, hostVars>>

Drains ==
    /\ mgr = "drain" /\ mgrQ # <<>>
    /\ \/ Head(mgrQ) = "RequestQuit" /\ mgr' = "ended" /\ mgrQ' = <<>>
       \/ Head(mgrQ) = "Error" /\ mgrQ' = Tail(mgrQ) /\ UNCHANGED mgr
    /\ UNCHANGED <<mgrFd, orphaned, taskVars, reader, writerVars, flags, fd,
                   bus, app, hostVars>>

Mgr == MgrStarts \/ MgrQuits \/ MgrWaitsQuit \/ JoinReader \/ JoinWriter \/ Drains
-----------------------------------------------------------------------------
(* The reader thread.  A channel whose other end is gone makes it panic,   *)
(* whether it looks for events or reports an error.                        *)
ReadsOn == reader' = IF orphaned THEN "panicked" ELSE "reading"

ReportsError == mgrQ' = IF orphaned THEN mgrQ ELSE Append(mgrQ, "Error")

Given == IF orphaned THEN "panicked" ELSE "waitQuit"

(* Setting the flag to false loses a quit() that came before.              *)
ReaderStarts ==
    /\ reader = "starting" /\ readerQuit' = FALSE /\ ReadsOn
    /\ quitLost' = (quitLost \/ mgr = "quitReader")
    /\ UNCHANGED <<readerRunning, writerRunning, writerQuit, writerVars,
                   mgrVars, taskVars, fd, bus, app, hostVars>>

ReadPacket == Alive(fd) /\ outPipe # <<>> /\ outPipe' = Tail(outPipe)

(* The quit flag is looked at once the packet is dealt with.               *)
ReaderReads ==
    /\ reader = "reading" /\ ReadPacket
    /\ Head(outPipe) = <<>> \/ app["phone"].open
    /\ app' = Gives("phone", Head(outPipe))
    /\ IF readerQuit THEN reader' = "ended" ELSE ReadsOn
    /\ UNCHANGED <<writerVars, flags, mgrVars, taskVars, fd, device, attached, inPipe,
                   hostVars>>

(* The packet for which the stream has no taker any more is lost.          *)
ReaderFails ==
    /\ reader = "reading"
    /\ \/ ~Alive(fd) /\ UNCHANGED outPipe
       \/ ReadPacket /\ Head(outPipe) # <<>> /\ ~app["phone"].open
    /\ reader' = Given /\ ReportsError
    /\ UNCHANGED <<writerVars, flags, mgr, mgrFd, orphaned, taskVars, fd, device, attached,
                   inPipe, app, hostVars>>

ReaderQuits ==
    /\ reader = "waitQuit" /\ readerQuit /\ reader' = "ended"
    /\ UNCHANGED <<writerVars, flags, mgrVars, taskVars, fd, bus, app, hostVars>>

Reader == ReaderStarts \/ ReaderReads \/ ReaderFails \/ ReaderQuits
-----------------------------------------------------------------------------
(* The writer thread: it sends what the stream holds, or an Empty packet,  *)
(* on and on.                                                              *)
WritesOn ==
    \/ orphaned /\ writer' = "panicked" /\ writerHand' = <<>> /\ UNCHANGED <<mgrQ, app>>
    \/ /\ ~orphaned
       /\ \E count \in Readable("phone") :
             /\ writer' = "sending" /\ writerHand' = First("phone", count)
             /\ app' = [app EXCEPT !["phone"].out = Rest("phone", count)]
       /\ UNCHANGED mgrQ
    \/ /\ ~orphaned /\ ~app["phone"].open
       /\ writer' = "waitQuit" /\ writerHand' = <<>> /\ ReportsError /\ UNCHANGED app

WriterStarts ==
    /\ writer = "starting" /\ writerQuit' = FALSE /\ WritesOn
    /\ quitLost' = (quitLost \/ mgr = "quitWriter")
    /\ UNCHANGED <<readerRunning, writerRunning, readerQuit, reader, mgr, mgrFd,
                   orphaned, taskVars, fd, bus, hostVars>>

WritePacket ==
    /\ Alive(fd) /\ Len(inPipe) < PipeSize
    /\ inPipe' = Append(inPipe, writerHand)

WriterSends ==
    /\ writer = "sending" /\ WritePacket
    /\ IF writerQuit THEN writer' = "ended" /\ writerHand' = <<>> /\ UNCHANGED <<mgrQ, app>>
                     ELSE WritesOn
    /\ UNCHANGED <<flags, reader, mgr, mgrFd, orphaned, taskVars, fd, device, attached,
                   outPipe, hostVars>>

WriterFails ==
    /\ writer = "sending" /\ ~Alive(fd)
    /\ writer' = Given /\ ReportsError /\ writerHand' = <<>>
    /\ UNCHANGED <<flags, reader, mgr, mgrFd, orphaned, taskVars, fd, bus, app, hostVars>>

WriterQuits ==
    /\ writer = "waitQuit" /\ writerQuit /\ writer' = "ended"
    /\ UNCHANGED <<writerHand, flags, reader, mgrVars, taskVars, fd, bus, app, hostVars>>

Writer == WriterStarts \/ WriterSends \/ WriterFails \/ WriterQuits
-----------------------------------------------------------------------------
Next ==
    \/ Surroundings \/ HostConnects \/ HostStartsAccessory \/ HostSendsAudio \/ HostQuits
    \/ HostHandlesPoll \/ Task \/ Mgr \/ Reader \/ Writer

Spec == Init /\ [][Next]_vars

(* The threads are scheduled, the computer's timer makes it poll and times *)
(* its transfers out.  Nobody has to plug a cable, connect or quit.        *)
FairSpec ==
    /\ Spec
    /\ WF_vars(HostHandlesPoll) /\ WF_vars(TaskJoins)
    /\ WF_vars(TaskReceivesFd) /\ WF_vars(TaskReceivesQuitThread)
    /\ WF_vars(Mgr) /\ WF_vars(Reader) /\ WF_vars(Writer)
-----------------------------------------------------------------------------
Messages == Seq((1 .. MaxSessions + MaxAttached) \X (1 .. HostJson + PhoneJson))
Packets == {p \in Messages : Len(p) <= PacketSize}

(* The variables have their types, and the cable holds no more packets     *)
(* than it can: a transfer waits, or fails, when the other end is slow.    *)
TypeOK ==
    /\ device \in {"away", "accessory"} /\ attached \in 0 .. MaxAttached
    /\ {outPipe, inPipe} \subseteq {q \in Seq(Packets) : Len(q) <= PipeSize}
    /\ app \in [Sides -> [id : 0 .. MaxSessions + MaxAttached, open : BOOLEAN,
                          out : Messages, got : Messages]]
    /\ host \in {"poll", "connected", "sending"}
    /\ hostHand \in Packets /\ hostAt \in 0 .. MaxAttached
    /\ usbQ \in Seq(0 .. MaxAttached) /\ task \in {"run", "joining", "ended", "panicked"}
    /\ next \in {GoOn, End} \cup Attachments
    /\ mgr \in {"starting", "run", "quitReader", "quitWriter", "drain", "ended", "panicked"}
    /\ mgrQ \in Seq({"RequestQuit", "Error"})
    /\ {mgrFd, fd} \subseteq 0 .. MaxAttached
    /\ reader \in {"starting", "reading", "waitQuit", "ended", "panicked"}
    /\ writer \in {"starting", "sending", "waitQuit", "ended", "panicked"}
    /\ writerHand \in Packets
    /\ {readerRunning, writerRunning, readerQuit, writerQuit, held, orphaned, quitLost, resetFailed}
          \subseteq BOOLEAN

(* After an error the accessory can be connected again: starting its       *)
(* threads, joining them and passing on what they report never panics,     *)
(* unless a thread was once told to quit while its reader and writer ran.  *)
PanicsOnlyAfterQuit ==
    "panicked" \in {task, mgr, reader, writer} => orphaned

(* In order, from the first message on, none missing and none twice.       *)
InOrder(got) ==
    \A i \in 1 .. Len(got) :
        \/ i = 1 /\ got[i][2] = 1
        \/ i > 1 /\ got[i][1] = got[i-1][1] /\ got[i][2] = got[i-1][2] + 1

(* The app at either end receives the JSON messages of one stream of the   *)
(* other side in order from the first on, through short writes, timeouts   *)
(* and reconnections, as long as the computer's resets succeed.            *)
JsonInOrder ==
    resetFailed \/ \A side \in Sides : InOrder(app[side].got)

(* Nobody at the other end of a cable that works lets a blocking read or   *)
(* write return.                                                           *)
HostIsAway == Alive(fd) /\ host = "poll"

(* After an error of either of them the reader and the writer are joined   *)
(* and the thread is ready to be replaced, unless a quit() came before its *)
(* thread had started or the computer stays away with the cable working; a *)
(* computer that is connected ends the wait by its timeout.                *)
FaultJoinsThreads ==
    \/ []<>(mgr \notin {"quitReader", "quitWriter"})
    \/ <>[](quitLost \/ HostIsAway)
=============================================================================
