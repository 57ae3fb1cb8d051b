---------------------------- MODULE OboePlayback ----------------------------
(***************************************************************************)
(* Audio playback on Android (audio/oboe.rs, oboe/callback_mode.rs, the    *)
(* Android half of audio.rs).                                              *)
(*                                                                         *)
(*   AudioManager --queue--> OboeThread (logic) --> Oboe's callback thread *)
(*                              ^      \--quitFlag-->        ^             *)
(*   wire --> DataReaderThread --/ events,  blocks --blockQ--/             *)
(*                                                                         *)
(* An unreliable stream is played in callback mode: the reader checks the  *)
(* number of each packet and queues its audio for the callback.  A reliable*)
(* one is played in direct mode: the callback reads the stream itself.     *)
(* Samples are left out: a packet is its number and carries one block.     *)
(***************************************************************************)
EXTENDS Integers, Sequences, PacketNumbering

CONSTANTS
    QueueSize,       \* room of the block queue (1024)
    MaxTries,        \* attempts to queue a block before giving up (500)
    InitialBlocks,   \* initial_buffer_block_count
    WireSize,        \* bound: packets in the socket
    MaxPackets,      \* bound: packets of one stream
    MaxPlays,        \* bound: requests to play
    MaxQueue,        \* bound: events waiting when the AudioManager sends one
    Lossy,           \* whether packets of an unreliable stream are lost
    MaxLate          \* by how many numbers a packet may be overtaken

ASSUME SizeAssumption ==
    {QueueSize, MaxTries, InitialBlocks, WireSize} \subseteq Nat \ {0}
ASSUME PlaybackBounds == {MaxPackets, MaxPlays, MaxQueue} \subseteq Nat
ASSUME NetworkAssumption == Lossy \in BOOLEAN /\ MaxLate \in Nat

VARIABLES
    queue,       \* OboeEvents for the OboeThread
    logic,       \* where the OboeThread is
    ending,      \* RequestQuit was received
    mode,        \* oboe_mode, while it quits the mode being quit
    startTimer,  \* direct mode: the start message is still to be sent
    cppRunning,  \* OBOE_CPP_IS_RUNNING
    callback,    \* where Oboe's callback is
    playing,     \* direct mode: playing_started
    failed,      \* CALLBACK_ERROR_DETECTED
    reader,      \* where the data reader thread is
    running,     \* DATA_READER_THREAD_IS_RUNNING
    quitFlag,    \* DATA_READER_THREAD_QUIT
    expected,    \* the reader's AudioPacketManager
    hand,        \* the block the reader is queueing
    tries,       \* try_send_counter
    buffered,    \* buffering_counter
    blockQ,      \* blocks on their way to the callback
    wire, sent,  \* the network: packets in the socket, packets sent
    played,      \* history: the packet of this stream played last
    discarded,   \* history: the last packet discarded
    told,        \* history: SendStartAudioStream was sent for this stream
    asked        \* environment: requests so far, and whether to quit

logicVars  == <<logic, ending, mode, startTimer, cppRunning, told>>
cbVars     == <<callback, playing, failed, played>>
readerVars == <<reader, expected, hand, tries, buffered, discarded>>
flags      == <<running, quitFlag>>
netVars    == <<wire, sent>>
vars == <<queue, logicVars, cbVars, readerVars, flags, blockQ, netVars, asked>>

Packets == 0 .. (MaxPackets - 1)
NoPacket == -1
PlayRequests == {"PlayReliable", "PlayUnreliable"}
Events == PlayRequests \cup
    {"Stop", "RequestQuit", "Tick", "BufferingDone", "ReadingError", "SendingError"}

Init ==
    /\ queue = <<>> /\ logic = "receive" /\ ending = FALSE /\ mode = "none"
    /\ startTimer = FALSE /\ cppRunning = FALSE /\ told = FALSE
    /\ callback = "off" /\ playing = FALSE /\ failed = FALSE /\ played = NoPacket
    /\ reader = "none" /\ expected = FirstExpected /\ hand = <<>>
    /\ tries = 0 /\ buffered = 0 /\ discarded = NoPacket
    /\ running = FALSE /\ quitFlag = FALSE
    /\ blockQ = <<>> /\ wire = <<>> /\ sent = 0
    /\ asked = [plays |-> 0, quit |-> FALSE]
-----------------------------------------------------------------------------
(* The AudioManager forwards what it receives, and a tick every second.    *)
Asks(event) ==
    /\ ~asked.quit /\ Len(queue) < MaxQueue
    /\ queue' = Append(queue, event)
    /\ UNCHANGED <<logicVars, cbVars, readerVars, flags, blockQ, netVars>>

AskPlay ==
    \E event \in PlayRequests :
        /\ asked.plays < MaxPlays /\ Asks(event)
        /\ asked' = [asked EXCEPT !.plays = @ + 1]

AskStop == asked.plays > 0 /\ Asks("Stop") /\ UNCHANGED asked

TimerTick == asked.plays > 0 /\ Asks("Tick") /\ UNCHANGED asked

AskQuit == Asks("RequestQuit") /\ asked' = [asked EXCEPT !.quit = TRUE]

AudioManager == AskPlay \/ AskStop \/ TimerTick \/ AskQuit
-----------------------------------------------------------------------------
(* The OboeThread.                                                         *)
Receives(event) ==
    /\ logic = "receive" /\ queue # <<>> /\ Head(queue) = event
    /\ queue' = Tail(queue)

(* A bug: Oboe is closed first, while its callback may wait for a block.   *)
BeginQuitClosesFirst(last) ==
    /\ logic' = CASE mode # "none" -> "closing"
                  [] mode = "none" -> IF last THEN "ended" ELSE "receive"
    /\ UNCHANGED quitFlag

(* quit_data_reader_and_oboe, up to its first wait: the reader is told to  *)
(* quit and joined before Oboe is closed.                                  *)
BeginQuit(last) ==
    /\ logic' = CASE mode = "callback" -> "joining"
                  [] mode = "direct" -> "closing"
                  [] mode = "none" -> IF last THEN "ended" ELSE "receive"
    /\ quitFlag' = (quitFlag \/ mode = "callback")

(* The thread that finds a flag still set panics.                          *)
PanicOnFlag(flag) ==
    /\ flag
    /\ logic' = "panicked"
    /\ UNCHANGED <<ending, mode, startTimer, cppRunning, told, cbVars,
                   readerVars, flags, blockQ, netVars, asked>>

StartsStream ==
    /\ cppRunning' = TRUE /\ failed' = FALSE
    /\ playing' = FALSE /\ played' = NoPacket
    /\ wire' = <<>> /\ sent' = 0
    /\ UNCHANGED <<logic, ending, asked>>

PlayCallbackMode ==
    /\ Receives("PlayUnreliable") /\ mode = "none"
    /\ \/ PanicOnFlag(running \/ cppRunning)
       \/ /\ ~running /\ ~cppRunning
          /\ running' = TRUE /\ reader' = "starting"
          /\ expected' = FirstExpected /\ hand' = <<>> /\ tries' = 0
          /\ buffered' = 0 /\ discarded' = NoPacket /\ blockQ' = <<>>
          /\ mode' = "callback" /\ callback' = "off"
          /\ startTimer' = FALSE /\ told' = TRUE
          /\ StartsStream
          /\ UNCHANGED quitFlag

PlayDirectMode ==
    /\ Receives("PlayReliable") /\ mode = "none"
    /\ \/ PanicOnFlag(cppRunning)
       \/ /\ ~cppRunning
          /\ mode' = "direct" /\ callback' = "idle"
          /\ startTimer' = TRUE /\ told' = FALSE
          /\ blockQ' = <<>>
          /\ StartsStream
          /\ UNCHANGED <<readerVars, flags>>

(* A stream is already played, or the socket refuses its settings.         *)
PlayRefused ==
    /\ \E event \in PlayRequests : Receives(event)
    /\ UNCHANGED <<logicVars, cbVars, readerVars, flags, blockQ, netVars, asked>>

HandleStop ==
    /\ Receives("Stop") /\ BeginQuit(FALSE)
    /\ UNCHANGED <<ending, mode, startTimer, cppRunning, told, running>>
    /\ UNCHANGED <<cbVars, readerVars, blockQ, netVars, asked>>

HandleQuit ==
    /\ Receives("RequestQuit") /\ BeginQuit(TRUE) /\ ending' = TRUE
    /\ UNCHANGED <<mode, startTimer, cppRunning, told, running>>
    /\ UNCHANGED <<cbVars, readerVars, blockQ, netVars, asked>>

(* A bug: the second of the two errors is only logged.                     *)
HandleReadingErrorOnly ==
    \/ /\ Receives("ReadingError") /\ BeginQuit(FALSE)
       /\ UNCHANGED <<ending, mode, startTimer, cppRunning, told, running>>
       /\ UNCHANGED <<cbVars, readerVars, blockQ, netVars, asked>>
    \/ /\ Receives("SendingError")
       /\ UNCHANGED <<logicVars, cbVars, readerVars, flags, blockQ, netVars, asked>>

(* The reader gave up; the event may be about an earlier reader.           *)
HandleReaderError ==
    /\ Receives("ReadingError") \/ Receives("SendingError")
    /\ BeginQuit(FALSE)
    /\ UNCHANGED <<ending, mode, startTimer, cppRunning, told, running>>
    /\ UNCHANGED <<cbVars, readerVars, blockQ, netVars, asked>>

HandleBufferingDone ==
    /\ Receives("BufferingDone")
    /\ callback' = IF mode # "none" /\ callback = "off" THEN "idle" ELSE callback
    /\ UNCHANGED <<logicVars, playing, failed, played>>
    /\ UNCHANGED <<readerVars, flags, blockQ, netVars, asked>>

(* UnderrunCheckTimer: a second or less has passed since direct mode began;*)
(* an error of the callback is noticed here.                               *)
HandleTick ==
    /\ Receives("Tick")
    /\ \/ UNCHANGED <<startTimer, told>>
       \/ mode = "direct" /\ startTimer /\ startTimer' = FALSE /\ told' = TRUE
    /\ IF mode # "none" /\ failed THEN BeginQuit(FALSE) ELSE UNCHANGED <<logic, quitFlag>>
    /\ UNCHANGED <<ending, mode, cppRunning, running>>
    /\ UNCHANGED <<cbVars, readerVars, blockQ, netVars, asked>>

Joined(flag) ==
    /\ logic = "joining" /\ reader = "ended"
    /\ running' = flag /\ reader' = "none"
    /\ logic' = "closing"
    /\ UNCHANGED <<queue, ending, mode, startTimer, cppRunning, told, cbVars>>
    /\ UNCHANGED <<expected, hand, tries, buffered, discarded, quitFlag>>
    /\ UNCHANGED <<blockQ, netVars, asked>>

(* A bug: RUNNING is not cleared after the thread was joined.              *)
JoinReaderKeepsFlag == Joined(TRUE)

JoinReader == Joined(FALSE)

Closed(cpp) ==
    /\ logic = "closing" /\ callback # "waiting"
    /\ cppRunning' = cpp /\ callback' = "off" /\ mode' = "none"
    /\ logic' = IF ending THEN "ended" ELSE "receive"
    /\ UNCHANGED <<queue, ending, startTimer, told, playing, failed, played>>
    /\ UNCHANGED <<readerVars, flags, blockQ, netVars, asked>>

(* A bug: the flag of the C++ side is not cleared.                         *)
CloseOboeKeepsFlag == Closed(TRUE)

(* close_oboe returns when no call of the callback is under way.           *)
CloseOboe == Closed(FALSE)

OboeThread ==
    \/ PlayCallbackMode \/ PlayDirectMode \/ PlayRefused
    \/ HandleStop \/ HandleQuit \/ HandleReaderError \/ HandleBufferingDone
    \/ HandleTick \/ JoinReader \/ CloseOboe
-----------------------------------------------------------------------------
(* The data reader thread.                                                 *)
ReaderElsewhere ==
    UNCHANGED <<logicVars, cbVars, running, sent, asked>>

ReaderStarts ==
    /\ reader = "starting"
    /\ reader' = "reading"
    /\ quitFlag' = FALSE
    /\ UNCHANGED <<queue, expected, hand, tries, buffered, discarded, blockQ, wire>>
    /\ ReaderElsewhere

TakePacket ==
    LET n == Head(wire)
        check == CheckPacket(expected, n)
    IN /\ reader = "reading" /\ wire # <<>>
       /\ wire' = Tail(wire)
       /\ expected' = check.next
       /\ IF check.status = "Discard"
          THEN discarded' = n /\ UNCHANGED <<reader, hand>>
          ELSE /\ reader' = "sending" /\ hand' = <<n>>
               /\ UNCHANGED discarded
       /\ UNCHANGED <<queue, tries, buffered, blockQ, quitFlag>>
       /\ ReaderElsewhere

ReaderGoes(from, to) ==
    /\ reader = from /\ reader' = to
    /\ UNCHANGED <<expected, tries, buffered, discarded, blockQ, quitFlag>>
    /\ ReaderElsewhere

(* A read times out after 10 ms; otherwise it is tried again.              *)
ReadTimesOut ==
    /\ wire = <<>> /\ quitFlag
    /\ ReaderGoes("reading", "ended")
    /\ UNCHANGED <<queue, hand, wire>>

(* The connection is broken: Ok(0) or an error other than WouldBlock.      *)
ReadFails ==
    /\ ReaderGoes("reading", "waitQuit")
    /\ queue' = Append(queue, "ReadingError")
    /\ UNCHANGED <<hand, wire>>

(* try_send of a block, and what follows it in the loop.                   *)
SendBlock ==
    /\ reader = "sending" /\ Len(blockQ) < QueueSize
    /\ blockQ' = blockQ \o hand
    /\ hand' = <<>> /\ tries' = 0
    /\ buffered' = IF buffered < InitialBlocks THEN buffered + 1 ELSE buffered
    /\ queue' = IF buffered + 1 = InitialBlocks THEN Append(queue, "BufferingDone") ELSE queue
    /\ reader' = IF quitFlag THEN "ended" ELSE "reading"
    /\ UNCHANGED <<expected, discarded, wire, quitFlag>>
    /\ ReaderElsewhere

QueueFull ==
    /\ reader = "sending" /\ Len(blockQ) = QueueSize
    /\ tries' = tries + 1
    /\ IF tries' = MaxTries
       THEN queue' = Append(queue, "SendingError") /\ reader' = "draining" /\ hand' = <<>>
       ELSE UNCHANGED <<queue, reader, hand>>
    /\ UNCHANGED <<expected, buffered, discarded, blockQ, wire, quitFlag>>
    /\ ReaderElsewhere

(* read_packets_and_wait_quit: it reads until an error, a timeout included,*)
(* or until it is told to quit.                                            *)
DrainPacket ==
    /\ wire # <<>> /\ wire' = Tail(wire)
    /\ ReaderGoes("draining", IF quitFlag THEN "ended" ELSE "draining")
    /\ UNCHANGED <<queue, hand>>

DrainFails ==
    /\ ReaderGoes("draining", "waitQuit")
    /\ UNCHANGED <<queue, hand, wire>>

WaitQuit ==
    /\ quitFlag
    /\ ReaderGoes("waitQuit", "ended")
    /\ UNCHANGED <<queue, hand, wire>>

DataReader ==
    \/ ReaderStarts \/ TakePacket \/ ReadTimesOut \/ ReadFails
    \/ SendBlock \/ QueueFull \/ DrainPacket \/ DrainFails \/ WaitQuit
-----------------------------------------------------------------------------
(* Oboe's thread: write_data, which gets its data with get_new_data.       *)
CallbackElsewhere == UNCHANGED <<queue, logicVars, readerVars, flags, sent, asked>>

CallbackGoes(from, to) ==
    /\ callback \in from /\ callback' = to
    /\ UNCHANGED <<wire, blockQ>> /\ CallbackElsewhere

(* Oboe wants samples and the current data is all written.                 *)
CallbackCalled ==
    /\ CallbackGoes({"idle"}, "waiting")
    /\ UNCHANGED <<playing, failed, played>>

(* Status error: Oboe stops calling, the OboeThread will look at the flag. *)
CallbackFails ==
    /\ failed' = TRUE
    /\ CallbackGoes({"waiting"}, "stopped")
    /\ UNCHANGED <<playing, played>>

GetBlock ==
    /\ mode = "callback" /\ callback = "waiting" /\ blockQ # <<>>
    /\ played' = Head(blockQ)
    /\ blockQ' = Tail(blockQ)
    /\ callback' = "idle"
    /\ UNCHANGED <<playing, failed, wire>> /\ CallbackElsewhere

(* The reader, and with it the sender of the blocks, is gone.              *)
BlocksEnd ==
    /\ mode = "callback" /\ blockQ = <<>> /\ reader \in {"ended", "none"}
    /\ CallbackFails

(* Direct mode reads without waiting until the first packet has come, with *)
(* waiting afterwards.                                                     *)
GetPacket ==
    /\ mode = "direct" /\ callback = "waiting" /\ wire # <<>>
    /\ played' = Head(wire)
    /\ wire' = Tail(wire)
    /\ playing' = TRUE
    /\ callback' = "idle"
    /\ UNCHANGED <<failed, blockQ>> /\ CallbackElsewhere

GetSilence ==
    /\ mode = "direct" /\ wire = <<>> /\ ~playing
    /\ CallbackGoes({"waiting"}, "idle")
    /\ UNCHANGED <<playing, failed, played>>

(* The stream has ended, failed or cannot be made to wait.                 *)
StreamFails ==
    /\ mode = "direct"
    /\ CallbackFails

Callback ==
    \/ CallbackCalled \/ GetBlock \/ BlocksEnd
    \/ GetPacket \/ GetSilence \/ StreamFails
-----------------------------------------------------------------------------
(* The sender, once it is told to start, and the network.                  *)
NetElsewhere == UNCHANGED <<queue, logicVars, cbVars, readerVars, flags, blockQ, asked>>

SendPacket ==
    /\ mode # "none" /\ told /\ sent < MaxPackets /\ Len(wire) < WireSize
    /\ wire' = Append(wire, sent) /\ sent' = sent + 1
    /\ NetElsewhere

LosePacket ==
    /\ Lossy /\ mode = "callback" /\ told /\ sent < MaxPackets
    /\ sent' = sent + 1 /\ UNCHANGED wire
    /\ NetElsewhere

SwapPackets ==
    /\ mode = "callback" /\ Len(wire) >= 2
    /\ wire[Len(wire)] - wire[Len(wire) - 1] \in 1..MaxLate
    /\ wire' = [wire EXCEPT ![Len(wire) - 1] = wire[Len(wire)],
                            ![Len(wire)] = wire[Len(wire) - 1]]
    /\ UNCHANGED sent /\ NetElsewhere

Network == SendPacket \/ LosePacket \/ SwapPackets

Next == AudioManager \/ OboeThread \/ DataReader \/ Callback \/ Network

Spec == Init /\ [][Next]_vars

(* The OboeThread and the reader are threads that run whenever they can;   *)
(* Oboe's callback and close_oboe return when what they wait for happens.  *)
(* Nothing obliges Oboe to ask for samples, a peer to send or a user to    *)
(* ask for anything.                                                       *)
FairSpec ==
    /\ Spec
    /\ WF_vars(OboeThread)
    /\ WF_vars(ReaderStarts \/ TakePacket \/ ReadTimesOut \/ SendBlock
                \/ QueueFull \/ DrainPacket \/ WaitQuit)
    /\ WF_vars(wire = <<>> /\ DrainFails)
    /\ WF_vars(GetBlock \/ BlocksEnd \/ GetPacket \/ GetSilence)
-----------------------------------------------------------------------------
(* The flags agree with the threads: there is a reader in callback mode    *)
(* only, RUNNING says so, and no queue holds more than its room.           *)
TypeOK ==
    /\ \A i \in DOMAIN queue : queue[i] \in Events
    /\ logic \in {"receive", "joining", "closing", "ended", "panicked"}
    /\ mode \in {"none", "direct", "callback"}
    /\ callback \in {"off", "idle", "waiting", "stopped"}
    /\ reader \in {"none", "starting", "reading", "sending", "draining", "waitQuit", "ended"}
    /\ tries \in 0..MaxTries /\ buffered \in 0..InitialBlocks
    /\ Len(hand) <= 1 /\ Len(blockQ) <= QueueSize /\ Len(wire) <= WireSize
    /\ running = (reader # "none") /\ (running => mode = "callback")
    /\ cppRunning = (mode # "none")
    /\ logic \in {"joining", "closing"} => mode # "none"

(* "Only one data reader thread can be running at the same time" and its   *)
(* like for the C++ side (oboe.rs:504, callback_mode.rs:241) never panic:  *)
(* whatever order requests, errors of an older stream, ticks and quits     *)
(* come in, a stream is started only after the one before it is gone.      *)
NoPanic == logic # "panicked"

(* The packets of the current stream from the one played last to the one  *)
(* taken last.                                                             *)
Taken == <<played>> \o blockQ \o hand

(* What a packet's number can tell: that of two packets the later one is   *)
(* newer, as long as none overtakes another, or none by WRAP_BYTE_MASK or  *)
(* more and the stream has at most twice as many packets.                  *)
InReach == MaxLate = 0 \/ (MaxLate < Half /\ sent <= 2 * Half)

(* Within that reach what is played never goes back or repeats, also when  *)
(* packets are lost or overtake each other around the change of the wrap   *)
(* flag (oboe.rs:735-791), through the block queue and across a stop.      *)
PlayedInOrder ==
    InReach => \A i \in 1 .. (Len(Taken) - 1) : Taken[i] < Taken[i + 1]

(* A quit that comes before the reader has started is undone by the reader,*)
(* which resets the flag (oboe.rs:511): nobody will set it again.          *)
QuitIsLost == logic = "joining" /\ (reader = "starting" \/ ~quitFlag)

(* Quitting callback mode ends unless the quit is lost: the callback may   *)
(* wait for a block and the reader for a packet, for room or for its own   *)
(* quit, but none beyond the quit flag (oboe.rs:214-224, 524-528).         *)
QuitEnds ==
    (mode = "callback" /\ logic \in {"joining", "closing"} /\ ~QuitIsLost)
    ~> (logic \notin {"joining", "closing"})

(* A reader that gave up, over its stream or over a queue nobody empties,  *)
(* does not stay: the OboeThread learns of it and joins it                 *)
(* (oboe.rs:319-330, 637-644, 676-701).                                    *)
FailedReaderIsJoined ==
    (reader \in {"draining", "waitQuit"} /\ ~QuitIsLost) ~> (reader = "none")

(* "Just assume that this is old packet." (oboe.rs:786): a packet that is  *)
(* discarded is older than one that was taken.                             *)
DiscardedIsOld ==
    discarded # NoPacket => \E i \in DOMAIN Taken : discarded < Taken[i]
=============================================================================
