--------------------------- MODULE PulseRecording ---------------------------
(***************************************************************************)
(* Audio recording with PulseAudio (audio/pulseaudio.rs and its state.rs   *)
(* and stream.rs, the Linux half of audio.rs).                             *)
(*                                                                         *)
(* One thread runs a main loop.  The AudioManager and the callbacks of     *)
(* PulseAudio put events into one queue; the loop empties the queue before *)
(* it lets PulseAudio act again.  A handler looks at the state of context  *)
(* and stream at the time it runs, not at what it was when the event was   *)
(* queued.  The listing of monitors has no effect and is left out; a       *)
(* fragment of audio is the number of the stream it was recorded by.       *)
(***************************************************************************)
EXTENDS Integers, Sequences

CONSTANTS
    PacketFragments,   \* fragments that fill a packet
    MaxQueue,          \* bound: events that wait when a new one is added
    MaxStarts,         \* bound: StartRecording and StartAudioStream, each
    MaxStops           \* bound: StopRecording

ASSUME PacketAssumption == PacketFragments \in Nat \ {0}
ASSUME RecordingBounds == {MaxQueue, MaxStarts, MaxStops} \subseteq Nat

VARIABLES
    thread,         \* the main loop: "running", "ended" or "panicked"
    queue,          \* AudioServerEvents
    draining,       \* the loop is emptying the queue
    info,           \* play_audio_info is there
    contextReady,   \* PAState::context_ready
    waiting,        \* length of wait_context_event_queue
    record,         \* PAStreamManager::record: the number of its stream, or 0
    enabled,        \* enable_recording
    quitRequested,
    buffer,         \* raw_pcm_buffer or encoder_buffer
    context,        \* PulseAudio: state of the context
    stream,         \* PulseAudio: state of the stream in record
    disconnecting,  \* PulseAudio: the server was asked to end the stream
    available,      \* PulseAudio: fragments to be read
    streams,        \* streams created so far
    packet,         \* history: the last packet built, and the stream it goes to
    asked           \* environment: requests so far

managerVars == <<info, contextReady, waiting, quitRequested>>
streamVars  == <<record, enabled, buffer, streams, packet>>
pulseVars   == <<context, stream, disconnecting, available>>
vars == <<thread, queue, draining, managerVars, streamVars, pulseVars, asked>>

Events == {"StartRecording", "StartAudioStream", "StopRecording", "RequestQuit",
           "ContextStateChanged", "StreamStateChange", "Read",
           "StreamManagerQuitReady", "PAQuitReady"}

NoPacket == [fragments |-> <<>>, to |-> 0]

Init ==
    /\ thread = "running" /\ queue = <<>> /\ draining = FALSE
    /\ info = FALSE /\ contextReady = FALSE /\ waiting = 0
    /\ record = 0 /\ enabled = TRUE /\ quitRequested = FALSE
    /\ buffer = <<>> /\ streams = 0 /\ packet = NoPacket
    /\ context = "connecting" /\ stream = "none"
    /\ disconnecting = FALSE /\ available = 0
    /\ asked = [recording |-> 0, stream |-> 0, stop |-> 0, quit |-> FALSE]
-----------------------------------------------------------------------------
(* The AudioManager: StartRecording comes from the ConnectionManager and   *)
(* StartAudioStream from a device task, in no order; a quit is the last.   *)
Asks(event) ==
    /\ ~asked.quit /\ Len(queue) < MaxQueue
    /\ queue' = Append(queue, event)
    /\ UNCHANGED <<thread, draining, managerVars, streamVars, pulseVars>>

AskRecording ==
    /\ asked.recording < MaxStarts /\ Asks("StartRecording")
    /\ asked' = [asked EXCEPT !.recording = @ + 1]

AskStream ==
    /\ asked.stream < MaxStarts /\ Asks("StartAudioStream")
    /\ asked' = [asked EXCEPT !.stream = @ + 1]

AskStop ==
    /\ asked.stop < MaxStops /\ Asks("StopRecording")
    /\ asked' = [asked EXCEPT !.stop = @ + 1]

AskQuit ==
    /\ Asks("RequestQuit")
    /\ asked' = [asked EXCEPT !.quit = TRUE]

AudioManager == AskRecording \/ AskStream \/ AskStop \/ AskQuit
-----------------------------------------------------------------------------
(* PulseAudio, as the code uses it: it acts between two passes of the      *)
(* loop, and each change is reported by an event.                          *)
Reports(events) ==
    /\ thread = "running" /\ ~draining /\ Len(queue) < MaxQueue
    /\ queue' = queue \o events
    /\ UNCHANGED <<thread, draining, managerVars, streamVars, asked>>

ContextAdvances ==
    /\ context = "connecting"
    /\ context' \in {"connecting", "ready"}
    /\ Reports(<<"ContextStateChanged">>)
    /\ UNCHANGED <<stream, disconnecting, available>>

(* The server is lost: a stream of the context fails with it.              *)
ContextFails ==
    /\ context \in {"connecting", "ready"}
    /\ context' = "failed"
    /\ IF stream \in {"creating", "ready"}
       THEN stream' = "failed" /\ Reports(<<"ContextStateChanged", "StreamStateChange">>)
       ELSE UNCHANGED stream /\ Reports(<<"ContextStateChanged">>)
    /\ disconnecting' = FALSE /\ UNCHANGED available

StreamChanges(from, to) ==
    /\ stream = from /\ stream' = to
    /\ disconnecting' = FALSE
    /\ Reports(<<"StreamStateChange">>)
    /\ UNCHANGED <<context, available>>

StreamIsReady == StreamChanges("creating", "ready")

StreamFails == \E from \in {"creating", "ready"} : StreamChanges(from, "failed")

StreamEnds == disconnecting /\ StreamChanges("ready", "terminated")

(* Bound: what waits to be read fills at most one packet.                  *)
FragmentArrives ==
    /\ stream = "ready"
    /\ available = 0 \/ available + Len(buffer) < PacketFragments
    /\ available' = available + 1
    /\ Reports(<<"Read">>)
    /\ UNCHANGED <<context, stream, disconnecting>>

PulseAudio ==
    \/ ContextAdvances \/ ContextFails
    \/ StreamIsReady \/ StreamFails \/ StreamEnds \/ FragmentArrives
-----------------------------------------------------------------------------
(* The main loop takes the next event; its handler sends further ones.     *)
Handles(event, further) ==
    /\ thread = "running" /\ queue # <<>> /\ Head(queue) = event
    /\ queue' = Tail(queue) \o further
    /\ draining' = (queue' # <<>>)
    /\ UNCHANGED asked

Nothing == <<>>

(* stream.disconnect() is refused, which is only logged, unless the stream *)
(* was created and has not ended.                                          *)
Disconnect == disconnecting' = (disconnecting \/ stream = "ready")

HandleStartRecording ==
    /\ Handles("StartRecording", Nothing)
    /\ info' = TRUE
    /\ UNCHANGED <<thread, contextReady, waiting, quitRequested, streamVars, pulseVars>>

(* A bug: the fragments the stream before it left are kept.                *)
NewStreamKeepsBuffer ==
    /\ streams' = streams + 1 /\ record' = streams + 1
    /\ stream' = "creating" /\ disconnecting' = FALSE /\ available' = 0
    /\ enabled' = TRUE
    /\ UNCHANGED buffer

(* request_start_record_stream: a stream that is there is dropped.         *)
NewStream ==
    /\ streams' = streams + 1 /\ record' = streams + 1
    /\ stream' = "creating" /\ disconnecting' = FALSE /\ available' = 0
    /\ enabled' = TRUE
    /\ buffer' = <<>>

(* start_recording: before the context is ready the request is queued; a   *)
(* context that failed unnoticed makes connect_record().unwrap() panic.    *)
HandleStartAudioStream ==
    /\ Handles("StartAudioStream", Nothing)
    /\ info' = FALSE
    /\ \/ /\ ~info
          /\ UNCHANGED <<thread, waiting, streamVars, pulseVars>>
       \/ /\ info /\ ~contextReady
          /\ waiting' = waiting + 1
          /\ UNCHANGED <<thread, streamVars, pulseVars>>
       \/ /\ info /\ contextReady /\ context # "ready"
          /\ thread' = "panicked"
          /\ UNCHANGED <<waiting, streamVars, pulseVars>>
       \/ /\ info /\ contextReady /\ context = "ready"
          /\ NewStream
          /\ UNCHANGED <<thread, waiting, packet, context>>
    /\ UNCHANGED <<contextReady, quitRequested>>

(* A bug: the stream is forgotten before PulseAudio has ended it.          *)
HandleStopForgetsStream ==
    /\ Handles("StopRecording", Nothing)
    /\ Disconnect /\ record' = 0
    /\ UNCHANGED <<thread, managerVars, enabled, buffer, streams, packet>>
    /\ UNCHANGED <<context, stream, available>>

HandleStopRecording ==
    /\ Handles("StopRecording", Nothing)
    /\ Disconnect
    /\ UNCHANGED <<thread, managerVars, streamVars, context, stream, available>>

HandleRequestQuit ==
    /\ Handles("RequestQuit", IF record = 0 THEN <<"StreamManagerQuitReady">> ELSE Nothing)
    /\ quitRequested' = TRUE
    /\ Disconnect
    /\ UNCHANGED <<thread, info, contextReady, waiting, streamVars>>
    /\ UNCHANGED <<context, stream, available>>

(* context.disconnect(), which is without effect after a failure.          *)
HandleStreamManagerQuitReady ==
    /\ IF context = "failed"
       THEN Handles("StreamManagerQuitReady", Nothing) /\ UNCHANGED context
       ELSE /\ Handles("StreamManagerQuitReady", <<"ContextStateChanged">>)
            /\ context' = "terminated"
    /\ UNCHANGED <<thread, managerVars, streamVars, stream, disconnecting, available>>

(* What waits for the context is queued again, as StartRecording.          *)
HandleContextStateChange ==
    /\ Handles("ContextStateChanged",
               CASE context = "ready"      -> [i \in 1..waiting |-> "StartRecording"]
                 [] context = "terminated" -> <<"PAQuitReady">>
                 [] OTHER                  -> Nothing)
    /\ contextReady' = (context = "ready")
    /\ waiting' = IF context = "ready" THEN 0 ELSE waiting
    /\ UNCHANGED <<thread, info, quitRequested, streamVars, pulseVars>>

HandlePAQuitReady ==
    /\ Handles("PAQuitReady", Nothing)
    /\ thread' = "ended"
    /\ UNCHANGED <<managerVars, streamVars, pulseVars>>

(* record.unwrap(), on which both handlers of the stream's events rely.    *)
Unwrap == thread' = IF record = 0 THEN "panicked" ELSE thread

(* A bug: the end of the stream is not passed on to a quit that waits.     *)
StreamEndIsNotPassedOn ==
    /\ Handles("StreamStateChange", Nothing) /\ Unwrap
    /\ record' = IF stream = "terminated" THEN 0 ELSE record
    /\ UNCHANGED <<managerVars, enabled, buffer, streams, packet, pulseVars>>

HandleStreamStateChange ==
    /\ Handles("StreamStateChange",
               IF record # 0 /\ stream = "terminated" /\ quitRequested
               THEN <<"StreamManagerQuitReady">> ELSE Nothing)
    /\ Unwrap
    /\ record' = IF stream = "terminated" THEN 0 ELSE record
    /\ UNCHANGED <<managerVars, enabled, buffer, streams, packet, pulseVars>>

(* handle_data: a packet that would block is dropped; any other error of   *)
(* the socket ends the recording.                                          *)
SendsPacket(fragments) ==
    /\ packet' = [fragments |-> fragments, to |-> record]
    /\ \/ buffer' = <<>> /\ UNCHANGED <<enabled, disconnecting>>
       \/ buffer' = fragments /\ enabled' = FALSE /\ Disconnect

(* The loop of handle_recording_stream_read over all there is to read.     *)
HandleRead ==
    LET reads == record # 0 /\ enabled IN
    /\ Handles("Read", Nothing) /\ Unwrap
    /\ \/ /\ ~reads
          /\ UNCHANGED <<enabled, buffer, packet, disconnecting, available>>
       \/ /\ reads /\ stream # "ready"    \* peek fails
          /\ enabled' = FALSE /\ Disconnect
          /\ UNCHANGED <<buffer, packet, available>>
       \/ /\ reads /\ stream = "ready"
          /\ available' = 0
          /\ LET read == buffer \o [i \in 1..available |-> record] IN
             IF Len(read) < PacketFragments
             THEN buffer' = read /\ UNCHANGED <<enabled, packet, disconnecting>>
             ELSE SendsPacket(read)
    /\ UNCHANGED <<managerVars, record, streams, context, stream>>

MainLoop ==
    \/ HandleStartRecording \/ HandleStartAudioStream \/ HandleStopRecording
    \/ HandleRequestQuit \/ HandleStreamManagerQuitReady
    \/ HandleContextStateChange \/ HandlePAQuitReady
    \/ HandleStreamStateChange \/ HandleRead

Next == AudioManager \/ PulseAudio \/ MainLoop

Spec == Init /\ [][Next]_vars

(* The thread handles what is queued and the server answers a request to   *)
(* end a stream.  Nothing else has to happen: the context may connect for  *)
(* ever and the stream may never be ready.                                 *)
FairSpec == Spec /\ WF_vars(MainLoop) /\ SF_vars(StreamEnds)
-----------------------------------------------------------------------------
(* What the thread knows of its stream agrees with PulseAudio: a record    *)
(* has a stream, only a ready one is being disconnected, and a packet      *)
(* never grows beyond its size.                                            *)
TypeOK ==
    /\ thread \in {"running", "ended", "panicked"}
    /\ \A i \in DOMAIN queue : queue[i] \in Events
    /\ draining => queue # <<>>
    /\ waiting \in 0..MaxStarts /\ streams \in 0..MaxStarts
    /\ context \in {"connecting", "ready", "failed", "terminated"}
    /\ stream \in {"none", "creating", "ready", "failed", "terminated"}
    /\ record \in {0, streams} /\ (record # 0 => stream # "none")
    /\ record = 0 => stream \in {"none", "terminated"}
    /\ disconnecting => stream = "ready"
    /\ available \in 0..PacketFragments
    /\ Len(buffer) <= PacketFragments /\ (enabled => Len(buffer) < PacketFragments)

(* The unwraps of the record (stream.rs:173, 322) and of the result of     *)
(* connect_record (stream.rs:144) hold as long as there is a context:      *)
(* whatever is queued before a stream ends or is replaced, no event of a   *)
(* stream is handled when there is none.                                   *)
PanicsOnlyWithoutContext == thread = "panicked" => context = "failed"

(* The audio of one stream never ends up in the packets of the next, with  *)
(* a stop, an error in the middle of a packet or a start on top of a       *)
(* running stream between them (stream.rs:161-166, 253-269).               *)
PacketsAreOfTheirStream ==
    \A i \in DOMAIN packet.fragments : packet.fragments[i] = packet.to

(* request_quit is to end the thread (stream.rs:430-431).  It does, unless *)
(* the context failed or the stream cannot be disconnected: that was not   *)
(* yet created when the quit came, or it failed and its end is never told. *)
QuitEndsOrSticks ==
    quitRequested ~> \/ thread # "running"
                     \/ [](context = "failed")
                     \/ [](stream \in {"creating", "ready"} /\ ~disconnecting)
                     \/ [](stream = "failed")

(* "Start recording when context is ready." (state.rs:172): a recording    *)
(* that had to wait for the context is made once the context is ready and  *)
(* stays so.  The code queues it again as StartRecording, which only fills *)
(* in the information for a StartAudioStream that has come already.        *)
EarlyStartRecords == waiting > 0 /\ context = "ready" ~> record # 0 \/ context # "ready"

(* "Event StreamManagerQuitReady will be sent when PAStreamManager can be  *)
(* dropped." (stream.rs:430-431): not when the stream fails that the quit  *)
(* was to disconnect.                                                      *)
QuitReadyIsSent ==
    quitRequested /\ stream = "failed" ~>
        \/ \E i \in DOMAIN queue : queue[i] = "StreamManagerQuitReady"
        \/ thread # "running"
=============================================================================
