---------------------------- MODULE AudioSession ----------------------------
(***************************************************************************)
(* One session of a computer that sends its audio and a phone that plays   *)
(* it, from the first message of the JSON connection until the computer    *)
(* records: the device tasks of both (device/state.rs), the phone's UI     *)
(* (ui.rs), the two ConnectionManagers as far as they bring request and    *)
(* stream of one connection together, and the computer's audio thread as   *)
(* far as it waits for its two events.                                     *)
(*                                                                         *)
(*   computer   device task <== toPhone, toComputer ==> device task   phone*)
(*              |        |                               |   |    ^        *)
(*             cmQ --> audioQ   <-- data stream --   cmQ  UI  taskQ        *)
(*                                                                         *)
(* The JSON connection and the routers are queues: messages sent by one    *)
(* task to another arrive in order, those of two tasks in any.  Either     *)
(* device may also be another program that speaks the protocol and sends   *)
(* messages of its own accord, for "there is no need to have a specific    *)
(* message sending order" (device/protocol.rs); the roles, and a second    *)
(* question about the sample rate, are left alone.                         *)
(***************************************************************************)
EXTENDS Integers, Sequences, FiniteSets

CONSTANTS
    MaxPings,  \* bound: pings each side sends
    MaxBreaks, \* bound: times the phone's UI connection breaks
    MaxStrays  \* bound: messages sent out of the order the code has

ASSUME SessionBounds == {MaxPings, MaxBreaks, MaxStrays} \subseteq Nat

VARIABLES
    via,         \* the transport of the data, by usb and the configuration
    link,        \* whether the JSON connection is up
    inbox,       \* messages on their way to the device task of either side
    pinging,     \* ping_state of either side
    pings,       \* environment: pings sent so far
    cmQ,         \* events on their way to the ConnectionManager of a side
    request,     \* next_resource_request of its connection
    pending,     \* pending_data_connection_tcp
    held,        \* its audio resource is connected
    backlog,     \* data streams the computer's listener has not accepted
    audioQ,      \* events on their way to the computer's audio thread
    info,        \* its play_audio_info
    recording,   \* the record stream was requested
    pulse,       \* PulseAudio's context: "ready", "down", thread panicked: "gone"
    waiting,     \* recordings in wait_context_event_queue
    value,       \* the phone's android_audio_info, if there is one its rate
    requests,    \* the closures that wait for it
    taskQ,       \* DeviceEvents on their way to the phone's device task
    question,    \* where GetNativeSampleRate for the UI is
    ui,          \* whether a UI is connected to the phone
    breaks,      \* environment: times its connection broke
    oboe,        \* the phone's playback
    panicked,    \* what made a device task panic, which ends the session
    strays,      \* environment: messages sent out of order
    early,       \* history: told to play before the phone knew its rate
    answered,    \* history: NativeSampleRate messages sent
    failed,      \* history: a stream could not be made, which is only logged
    startLost    \* history: StartAudioStream came before StartRecording
                 \* or before the context was ready

computerVars == <<audioQ, info, recording, pulse, waiting, startLost>>
phoneVars == <<value, requests, question, ui, breaks, taskQ, answered>>
cmVars == <<cmQ, request, pending, held, backlog, oboe, failed>>
pingVars == <<pinging, pings>>
peerVars == <<strays, early>>
vars == <<via, link, inbox, pingVars, cmVars, computerVars, phoneVars, peerVars, panicked>>

Sides == {"computer", "phone"}
Other(side) == IF side = "phone" THEN "computer" ELSE "phone"

(* The computer listens (enable_connection_listening): its task asks first.*)
Init ==
    /\ via \in {"Tcp", "Udp", "Usb"} /\ link = "up"
    /\ inbox = [side \in Sides |-> IF side = "phone" THEN <<"GetNativeSampleRate">> ELSE <<>>]
    /\ pinging = [side \in Sides |-> FALSE] /\ pings = [side \in Sides |-> 0]
    /\ cmQ = [side \in Sides |-> <<>>]
    /\ request = [side \in Sides |-> FALSE] /\ pending = [side \in Sides |-> FALSE]
    /\ held = [side \in Sides |-> FALSE] /\ backlog = 0
    /\ audioQ = <<>> /\ info = FALSE /\ recording = FALSE
    /\ pulse \in {"ready", "down"} /\ waiting = 0
    /\ value = "none" /\ requests = 0 /\ taskQ = <<>>
    /\ question = "none" /\ ui = FALSE /\ breaks = 0
    /\ oboe = "off" /\ panicked = "no"
    /\ strays = 0 /\ early = FALSE
    /\ answered = 0 /\ failed = FALSE /\ startLost = FALSE

ToCm(side, event) == cmQ' = [cmQ EXCEPT ![side] = Append(@, event)]

(* The task of side handles a message and sends replies to the other one.  *)
Handles(side, message, replies) ==
    /\ link = "up" /\ panicked = "no"
    /\ inbox[side] # <<>> /\ Head(inbox[side]) = message
    /\ inbox' = [inbox EXCEPT ![side] = Tail(@), ![Other(side)] = @ \o replies]
    /\ UNCHANGED <<via, link, peerVars>>
-----------------------------------------------------------------------------
(* A program that is not this one sends what it likes when it likes.       *)
Strays ==
    [phone    |-> {"PlayAudioStream", "BadPlayAudioStream", "AudioStreamPlayError"},
     computer |-> {"StartAudioStream", "BadPlayAudioStream", "AudioStreamPlayError"}]

PeerSends(side, message) ==
    /\ link = "up" /\ panicked = "no" /\ strays < MaxStrays
    /\ inbox' = [inbox EXCEPT ![side] = Append(@, message)]
    /\ strays' = strays + 1
    /\ early' = (early \/ (message = "PlayAudioStream" /\ value = "none"))
    /\ UNCHANGED <<via, link, pingVars, cmVars, computerVars, phoneVars, panicked>>

(* An error is only logged, and so is a PlayAudioStream with channels, a   *)
(* rate or a format that cannot be played.                                 *)
HandleOnlyLogged(side) ==
    /\ \E message \in {"BadPlayAudioStream", "AudioStreamPlayError"} : Handles(side, message, <<>>)
    /\ UNCHANGED <<pingVars, cmVars, computerVars, phoneVars, panicked>>

(* Pings, of either side: a timer or the UI sends one unless the last one  *)
(* is still without its answer.                                            *)
SendPing(side) ==
    /\ link = "up" /\ panicked = "no" /\ ~pinging[side] /\ pings[side] < MaxPings
    /\ inbox' = [inbox EXCEPT ![Other(side)] = Append(@, "Ping")]
    /\ pinging' = [pinging EXCEPT ![side] = TRUE]
    /\ pings' = [pings EXCEPT ![side] = @ + 1]
    /\ UNCHANGED <<via, link, peerVars, cmVars, computerVars, phoneVars, panicked>>

HandlePing(side) ==
    /\ Handles(side, "Ping", <<"PingResponse">>)
    /\ UNCHANGED <<pingVars, cmVars, computerVars, phoneVars, panicked>>

HandlePingResponse(side) ==
    /\ Handles(side, "PingResponse", <<>>)
    /\ pinging' = [pinging EXCEPT ![side] = FALSE]
    /\ UNCHANGED <<pings, cmVars, computerVars, phoneVars, panicked>>
-----------------------------------------------------------------------------
(* The phone's device task.                                                *)

(* GetNativeSampleRate: answered at once if the value is known, otherwise  *)
(* kept, and the UI is asked.                                              *)
HandleGetRate ==
    /\ \/ /\ value # "none"
          /\ Handles("phone", "GetNativeSampleRate", <<value>>)
          /\ answered' = answered + 1 /\ UNCHANGED <<requests, question>>
       \/ /\ value = "none"
          /\ Handles("phone", "GetNativeSampleRate", <<>>)
          /\ requests' = requests + 1 /\ question' = "queued" /\ UNCHANGED answered
    /\ UNCHANGED <<value, taskQ, ui, breaks, pingVars, cmVars, computerVars, panicked>>

(* A bug: the requests stay and would be answered once more.               *)
HandleUiRateKeepsRequests(rate) ==
    /\ link = "up" /\ panicked = "no" /\ taskQ # <<>> /\ Head(taskQ) = rate
    /\ taskQ' = Tail(taskQ)
    /\ value' = rate /\ UNCHANGED requests
    /\ answered' = answered + requests
    /\ inbox' = [inbox EXCEPT !["computer"] = @ \o [i \in 1 .. requests |-> rate]]
    /\ UNCHANGED <<via, link, question, ui, breaks, pingVars, cmVars, computerVars,
                   peerVars, panicked>>

(* UiNativeSampleRate: set_value runs every closure that waited.           *)
HandleUiRate(rate) ==
    /\ link = "up" /\ panicked = "no" /\ taskQ # <<>> /\ Head(taskQ) = rate
    /\ taskQ' = Tail(taskQ)
    /\ value' = rate /\ requests' = 0
    /\ answered' = answered + requests
    /\ inbox' = [inbox EXCEPT !["computer"] = @ \o [i \in 1 .. requests |-> rate]]
    /\ UNCHANGED <<via, link, question, ui, breaks, pingVars, cmVars, computerVars,
                   peerVars, panicked>>

(* PlayAudioStream: frames_per_burst is unwrapped from the value.          *)
HandlePlay ==
    /\ Handles("phone", "PlayAudioStream", <<>>)
    /\ \/ value = "none" /\ panicked' = "unwrap" /\ UNCHANGED cmQ
       \/ value # "none" /\ ToCm("phone", "ConnectToData") /\ UNCHANGED panicked
    /\ UNCHANGED <<request, pending, held, backlog, oboe, failed, pingVars, computerVars, phoneVars>>

HandleSendStart ==
    /\ link = "up" /\ panicked = "no" /\ taskQ # <<>> /\ Head(taskQ) = "SendStartAudioStream"
    /\ taskQ' = Tail(taskQ)
    /\ inbox' = [inbox EXCEPT !["computer"] = Append(@, "StartAudioStream")]
    /\ UNCHANGED <<via, link, value, requests, question, ui, breaks, answered, pingVars,
                   cmVars, computerVars, peerVars, panicked>>

PhoneTask ==
    \/ HandleGetRate \/ HandlePlay \/ HandleOnlyLogged("phone")
    \/ HandlePing("phone") \/ HandlePingResponse("phone")

(* A rate the other side can use, zero or any other number.                *)
Rates == {"Rate", "NoRate", "OddRate"}

PhoneEvents == (\E rate \in Rates : HandleUiRate(rate)) \/ HandleSendStart
-----------------------------------------------------------------------------
(* The phone's UI.  What waits for it while none is connected is kept;     *)
(* what was sent to one whose connection breaks is lost.                   *)
Ui(event) ==
    /\ event
    /\ UNCHANGED <<via, link, inbox, value, requests, answered, pingVars, cmVars,
                   computerVars, peerVars, panicked>>

UiConnects == ~ui /\ ui' = TRUE /\ Ui(UNCHANGED <<question, breaks, taskQ>>)

UiIsAsked ==
    /\ ui /\ question = "queued" /\ question' = "asked"
    /\ Ui(UNCHANGED <<ui, breaks, taskQ>>)

(* A phone that cannot play audio answers with rate zero; whatever number  *)
(* the UI gives is passed on.                                              *)
UiAnswers ==
    /\ ui /\ question = "asked" /\ question' = "answered"
    /\ \E rate \in Rates : taskQ' = Append(taskQ, rate)
    /\ Ui(UNCHANGED <<ui, breaks>>)

UiBreaks ==
    /\ ui /\ breaks < MaxBreaks /\ ui' = FALSE /\ breaks' = breaks + 1
    /\ question' = IF question = "asked" THEN "lost" ELSE question
    /\ Ui(UNCHANGED taskQ)
-----------------------------------------------------------------------------
(* The computer's device task.                                             *)

(* NativeSampleRate: zero ends the matter, and a rate other than 44100 or  *)
(* 48000 violates the assertion.  Otherwise the manager is told what the   *)
(* next data stream is for before the phone is told to open it.            *)
HandleRate(rate) ==
    /\ Handles("computer", rate, IF rate = "Rate" THEN <<"PlayAudioStream">> ELSE <<>>)
    /\ \/ rate = "Rate" /\ ToCm("computer", "SetNextResourceRequest") /\ UNCHANGED panicked
       \/ rate = "NoRate" /\ UNCHANGED <<cmQ, panicked>>
       \/ rate = "OddRate" /\ panicked' = "rate" /\ UNCHANGED cmQ
    /\ UNCHANGED <<request, pending, held, backlog, oboe, failed, pingVars, computerVars,
                   phoneVars>>

HandleStart ==
    /\ Handles("computer", "StartAudioStream", <<>>)
    /\ audioQ' = Append(audioQ, "StartAudioStream")
    /\ UNCHANGED <<info, recording, pulse, waiting, startLost, pingVars, cmVars, phoneVars,
                   panicked>>

ComputerTask ==
    \/ (\E rate \in Rates : HandleRate(rate)) \/ HandleStart \/ HandleOnlyLogged("computer")
    \/ HandlePing("computer") \/ HandlePingResponse("computer")
-----------------------------------------------------------------------------
(* The ConnectionManagers, for the one connection of this session.         *)
TakesCm(side, event) ==
    /\ cmQ[side] # <<>> /\ Head(cmQ[side]) = event
    /\ UNCHANGED <<via, link, inbox, pingVars, info, recording, pulse, waiting, startLost,
                   phoneVars, peerVars, panicked>>

Gives(side) ==
    IF side = "computer"
    THEN audioQ' = Append(audioQ, "StartRecording") /\ UNCHANGED oboe
    ELSE oboe' = "starting" /\ UNCHANGED audioQ

GivesNothing == UNCHANGED <<audioQ, oboe>>

(* A request over TCP meets the stream that waits, stream, and takes it;   *)
(* over UDP and USB the request is enough.                                 *)
Meets(side, stream) == request'[side] /\ (via = "Tcp" => stream)

(* A bug: over UDP and USB, too, a match needs a stream.                   *)
CheckWaitsForStream(side, stream) ==
    /\ pending' = [pending EXCEPT ![side] = stream /\ ~(request'[side] /\ via = "Tcp")]
    /\ held' = [held EXCEPT ![side] = @ \/ (request'[side] /\ stream)]
    /\ IF request'[side] /\ stream /\ ~held[side] THEN Gives(side) ELSE GivesNothing
    /\ UNCHANGED failed

(* check_next_resource_request: a match connects the audio resource, once, *)
(* and starts the audio; a UDP socket may not be had after that.           *)
Check(side, stream) ==
    /\ pending' = [pending EXCEPT ![side] = stream /\ ~(request'[side] /\ via = "Tcp")]
    /\ held' = [held EXCEPT ![side] = @ \/ Meets(side, stream)]
    /\ \/ Meets(side, stream) /\ ~held[side] /\ Gives(side) /\ UNCHANGED failed
       \/ Meets(side, stream) /\ ~held[side] /\ via = "Udp" /\ GivesNothing /\ failed' = TRUE
       \/ (Meets(side, stream) => held[side]) /\ GivesNothing /\ UNCHANGED failed

HandleSetRequest ==
    /\ TakesCm("computer", "SetNextResourceRequest")
    /\ cmQ' = [cmQ EXCEPT !["computer"] = Tail(@)]
    /\ request' = [request EXCEPT !["computer"] = TRUE]
    /\ UNCHANGED backlog
    /\ Check("computer", pending["computer"])

HandleNewDataStream(side) ==
    /\ TakesCm(side, "NewDataStream")
    /\ cmQ' = [cmQ EXCEPT ![side] = Tail(@)]
    /\ UNCHANGED <<request, backlog>>
    /\ Check(side, TRUE)

(* ConnectToData: over TCP the phone connects, which may fail, and hands   *)
(* the stream to itself as an event; otherwise the request is checked.     *)
HandleConnectToData ==
    /\ TakesCm("phone", "ConnectToData")
    /\ request' = [request EXCEPT !["phone"] = TRUE]
    /\ \/ /\ via # "Tcp" /\ Check("phone", pending["phone"])
          /\ cmQ' = [cmQ EXCEPT !["phone"] = Tail(@)] /\ UNCHANGED backlog
       \/ /\ via = "Tcp" /\ backlog' = backlog + 1
          /\ cmQ' = [cmQ EXCEPT !["phone"] = Append(Tail(@), "NewDataStream")]
          /\ GivesNothing /\ UNCHANGED <<pending, held, failed>>
       \/ /\ via = "Tcp" /\ failed' = TRUE
          /\ cmQ' = [cmQ EXCEPT !["phone"] = Tail(@)]
          /\ GivesNothing /\ UNCHANGED <<pending, held, backlog>>

(* The computer's listener accepts what its kernel has connected.          *)
ListenerAccepts ==
    /\ backlog > 0 /\ backlog' = backlog - 1
    /\ ToCm("computer", "NewDataStream")
    /\ UNCHANGED <<via, link, inbox, pingVars, request, pending, held, oboe, failed,
                   computerVars, phoneVars, peerVars, panicked>>

ComputerCm == HandleSetRequest \/ HandleNewDataStream("computer")
PhoneCm == HandleConnectToData \/ HandleNewDataStream("phone")
-----------------------------------------------------------------------------
(* Audio.  The phone reports that it is ready: in callback mode when the   *)
(* stream was built, in direct mode a second after that.                   *)
OboeStarts ==
    /\ oboe = "starting" /\ oboe' = "playing"
    /\ taskQ' = Append(taskQ, "SendStartAudioStream")
    /\ UNCHANGED <<via, link, inbox, pingVars, cmQ, request, pending, held, backlog, failed,
                   computerVars, value, requests, question, ui, breaks, answered, peerVars,
                   panicked>>

(* It reports nothing when it refuses the stream, with an assertion where  *)
(* the computer encodes Opus, cannot set the socket's timeout or blocking, *)
(* or meets an error of Oboe before the second is over.                    *)
OboeFails ==
    /\ oboe = "starting" /\ oboe' = "failed"
    /\ UNCHANGED <<via, link, inbox, pingVars, cmQ, request, pending, held, backlog, failed,
                   computerVars, phoneVars, peerVars, panicked>>

(* The audio thread.  StartAudioStream uses up play_audio_info, finds none *)
(* if StartRecording is not there yet, and in a context that is not ready  *)
(* leaves the recording to wait for it.  A context that has failed behind  *)
(* the thread's back makes connect_record fail, which panics it.           *)
HandleAudioEvent ==
    \/ /\ Head(audioQ) = "StartRecording" /\ info' = TRUE
       /\ UNCHANGED <<recording, pulse, waiting, startLost>>
    \/ /\ Head(audioQ) = "StartAudioStream" /\ info' = FALSE
       /\ \/ ~info /\ startLost' = TRUE /\ UNCHANGED <<recording, pulse, waiting>>
          \/ /\ info /\ pulse = "ready"
             /\ \/ recording' = TRUE /\ UNCHANGED pulse
                \/ pulse' = "gone" /\ UNCHANGED recording
             /\ UNCHANGED <<waiting, startLost>>
          \/ /\ info /\ pulse = "down" /\ waiting' = waiting + 1 /\ startLost' = TRUE
             /\ UNCHANGED <<recording, pulse>>

AudioThread ==
    /\ audioQ # <<>> /\ audioQ' = Tail(audioQ)
    /\ pulse # "gone" /\ HandleAudioEvent
    /\ UNCHANGED <<via, link, inbox, pingVars, cmVars, phoneVars, peerVars, panicked>>

(* The thread hears that the context is ready, and queues what waited for  *)
(* it as StartRecording, which only fills in the information again; or it  *)
(* hears that it is not.                                                   *)
ContextChanges ==
    /\ \/ /\ pulse = "down" /\ pulse' = "ready" /\ waiting' = 0
          /\ audioQ' = audioQ \o [i \in 1 .. waiting |-> "StartRecording"]
       \/ pulse = "ready" /\ pulse' = "down" /\ UNCHANGED <<waiting, audioQ>>
    /\ UNCHANGED <<via, link, inbox, pingVars, cmVars, info, recording, startLost, phoneVars,
                   peerVars, panicked>>
-----------------------------------------------------------------------------
(* The connection breaks, or either UI disconnects: both tasks end.        *)
LinkBreaks ==
    /\ link = "up" /\ link' = "broken"
    /\ inbox' = [side \in Sides |-> <<>>]
    /\ UNCHANGED <<via, pingVars, cmVars, computerVars, phoneVars, peerVars, panicked>>

Next ==
    \/ PhoneTask \/ PhoneEvents \/ ComputerTask \/ \E side \in Sides : SendPing(side)
    \/ \E side \in Sides : \E message \in Strays[side] : PeerSends(side, message)
    \/ UiConnects \/ UiIsAsked \/ UiAnswers \/ UiBreaks
    \/ ComputerCm \/ PhoneCm \/ ListenerAccepts
    \/ OboeStarts \/ OboeFails \/ AudioThread \/ ContextChanges
    \/ LinkBreaks

Spec == Init /\ [][Next]_vars

(* Tasks and threads are scheduled and a task's select does not starve one *)
(* of its queues; the user opens the phone's UI, and it answers.  Oboe     *)
(* reports or fails.  Nobody promises that PulseAudio gets ready, that the *)
(* link holds, or that a ping or a stray message is sent.                  *)
FairSpec ==
    /\ Spec
    /\ WF_vars(PhoneTask) /\ WF_vars(PhoneEvents) /\ WF_vars(ComputerTask)
    /\ WF_vars(UiConnects) /\ WF_vars(UiIsAsked) /\ WF_vars(UiAnswers)
    /\ WF_vars(ComputerCm) /\ WF_vars(PhoneCm) /\ WF_vars(ListenerAccepts)
    /\ WF_vars(OboeStarts \/ OboeFails) /\ WF_vars(AudioThread)
-----------------------------------------------------------------------------
ToPhone == {"GetNativeSampleRate", "Ping", "PingResponse"} \cup Strays["phone"]
ToComputer == {"Ping", "PingResponse"} \cup Rates \cup Strays["computer"]

TypeOK ==
    /\ via \in {"Tcp", "Udp", "Usb"} /\ link \in {"up", "broken"}
    /\ inbox["phone"] \in Seq(ToPhone) /\ inbox["computer"] \in Seq(ToComputer)
    /\ {request, pending, held, pinging} \subseteq [Sides -> BOOLEAN]
    /\ value \in {"none"} \cup Rates /\ requests \in 0 .. 1
    /\ question \in {"none", "queued", "asked", "answered", "lost"}
    /\ oboe \in {"off", "starting", "playing", "failed"}
    /\ pulse \in {"ready", "down", "gone"} /\ panicked \in {"no", "rate", "unwrap"}
    /\ {info, recording, ui, failed, early, startLost} \subseteq BOOLEAN
    /\ {backlog, waiting} \subseteq Nat

HowMany(message, queue) == Cardinality({i \in 1 .. Len(queue) : queue[i] = message})

(* A device task panics for two reasons only: the rate it unwraps is not   *)
(* there, and then the peer told it to play before it could know that      *)
(* rate, which this program never does to its peer, not even when the UI   *)
(* goes and comes back; or the rate it is told is none it can use, and     *)
(* then the phone's UI gave that rate.                                     *)
PanicsOnlyWhenMisled ==
    /\ panicked = "unwrap" => early
    /\ panicked = "rate" => value = "OddRate"

(* A side that waits for the answer to its ping has the ping or the answer *)
(* on the way, exactly one, so no answer is lost and pings never stop.     *)
PingsAreAnswered ==
    link = "up" => \A side \in Sides :
        HowMany("Ping", inbox[Other(side)]) + HowMany("PingResponse", inbox[side])
            = IF pinging[side] THEN 1 ELSE 0

(* The computer's question is on its way, kept, or answered, exactly one   *)
(* of these; while it is kept the UI is being asked, or was in vain.       *)
QuestionIsAnsweredOnce ==
    /\ link = "up" =>
           HowMany("GetNativeSampleRate", inbox["phone"]) + requests + answered = 1
    /\ requests > 0 => question # "none"

(* The handshake keeps its promises at every step.                         *)
HandshakeInOrder ==
    TypeOK /\ PanicsOnlyWhenMisled /\ PingsAreAnswered /\ QuestionIsAnsweredOnce

(* Why a session may never record: it ended; a device task or the audio    *)
(* thread panicked; the phone cannot play, or Oboe refused or failed; a    *)
(* stream could not be made; the UI went away with the question; or the    *)
(* StartAudioStream of the device task came before the StartRecording of   *)
(* the ConnectionManager or before PulseAudio was ready.                   *)
Excused ==
    \/ link = "broken" \/ panicked # "no" \/ pulse = "gone"
    \/ value = "NoRate" \/ oboe = "failed" \/ failed
    \/ question = "lost" \/ startLost

(* Whatever the transport, whichever of request and stream comes first and *)
(* whatever the peer sends out of order, a session gets the computer to    *)
(* record, or one of the above happened.                                   *)
SessionStreams == <>(recording \/ Excused)
-----------------------------------------------------------------------------
(* What the protocol says, and the code does not keep.                     *)

(* Messages need no specific order: "messages are processed as they are    *)
(* received" (device/protocol.rs), so none may panic for coming early.     *)
AnyOrderIsFine == panicked # "unwrap"

(* NativeSampleRate is 44100 or 48000: the assertion of device/state.rs.   *)
RateIsSupported == panicked # "rate"

(* A "device which handles PlayAudioStream message will send this after    *)
(* receiving PlayAudioStream" (StartAudioStream, device/protocol.rs).      *)
PlayIsAnswered ==
    request["phone"] ~> (oboe = "playing" \/ failed \/ link = "broken" \/ panicked # "no")
=============================================================================
