------------------------- MODULE ConnectionManager -------------------------
(***************************************************************************)
(* The ConnectionManager of src/connection.rs: which device connections    *)
(* exist, which of them holds the audio output and the audio input of this *)
(* machine, and how the request for a resource and the data stream it is   *)
(* to use, which arrive in either order, are brought together.             *)
(*                                                                         *)
(* The manager handles one event at a time, so a handler is one action.    *)
(* Its neighbours are abstract: device tasks that send requests while they *)
(* live, listeners and peers that open streams, and an AudioManager that   *)
(* takes its commands in order.  cmQ and audioQ stand for the router and   *)
(* the component's channel together; both are first in, first out.         *)
(***************************************************************************)
EXTENDS Integers, Sequences

CONSTANTS
    Ips,          \* addresses of the devices
    NoOne,        \* a resource without a holder
    Nothing,      \* no request, no stream
    EnableUdp,    \* enable_udp_audio_data_sending of the configuration
    MaxIds,       \* bound: JSON connections
    MaxStreams,   \* bound: data streams
    MaxRequests   \* bound: requests of device tasks

ASSUME NoOneAssumption == NoOne \notin Nat
ASSUME ConfigAssumption == EnableUdp \in BOOLEAN
ASSUME BoundsAssumption == MaxIds \in Nat /\ MaxStreams \in Nat /\ MaxRequests \in Nat

VARIABLES
    cmQ,          \* events on their way to the manager
    nextId,       \* next_json_connection_id
    connections,  \* json_connections, a function on the ids of live connections
    holder,       \* play_audio and send_audio of the ResourceManager
    audioQ,       \* events on their way to the AudioManager
    usbQ,         \* events on their way to the UsbManager
    audio,        \* environment: whom the AudioManager serves, per resource
    devices,      \* environment: ids whose device task still runs
    opened,       \* environment: streams opened so far, numbered from 1
    asked         \* environment: JSON connections and requests made so far

managerVars == <<nextId, connections, holder>>
envVars == <<audio, devices, opened, asked>>
vars == <<cmQ, audioQ, usbQ, managerVars, envVars>>

Ids == 0 .. (MaxIds - 1)
Streams == 1 .. MaxStreams
Resources == {"playAudio", "sendAudio"}
Transports == {"Tcp", "Udp", "Usb"}
Requests == [resource : Resources, via : Transports]

ASSUME NothingAssumption == Nothing \notin Nat \cup Requests

ConnectionResources ==
    [ip : Ips, usb : BOOLEAN, pending : Streams \cup {Nothing},
     request : Requests \cup {Nothing}]

Init ==
    /\ cmQ = <<>> /\ audioQ = <<>> /\ usbQ = <<>>
    /\ nextId = 0
    /\ connections = <<>>
    /\ holder = [r \in Resources |-> NoOne]
    /\ audio = [r \in Resources |-> NoOne]
    /\ devices = {} /\ opened = 0 /\ asked = [connections |-> 0, requests |-> 0]
-----------------------------------------------------------------------------
(* check_next_resource_request for connection id, whose resources are c:   *)
(* first what the match makes of the request and the pending stream.       *)

(* An arm of the match connects the resource: USB whatever is pending, TCP *)
(* with a stream, UDP only without one, because the arm for any request    *)
(* with a stream comes before the two for UDP.                             *)
Servable(c) ==
    /\ c.request # Nothing
    /\ \/ c.request.via = "Usb"
       \/ c.request.via = "Tcp" /\ c.pending # Nothing
       \/ c.request.via = "Udp" /\ c.pending = Nothing

(* take() moved the stream out; only the TCP arms do not put it back.      *)
Remaining(c) ==
    IF c.request.via = "Tcp" THEN [c EXCEPT !.pending = Nothing] ELSE c

Store(id, c) ==
    connections' = [i \in DOMAIN connections \cup {id} |->
                        IF i = id THEN c ELSE connections[i]]

(* PlayAudio or StartRecording, and StopPlayingAudio or StopRecording: the *)
(* stop events carry no id; here they keep that of the connection they are *)
(* sent for.                                                               *)
Start(r, id) == [command |-> "on", resource |-> r, id |-> id]
Stop(r, id)  == [command |-> "off", resource |-> r, id |-> id]

KeepWaiting(id, c) ==
    /\ ~Servable(c)
    /\ Store(id, c)
    /\ UNCHANGED <<holder, audioQ, usbQ>>

(* A bug: a resource is given to whoever asks last.                        *)
ConnectAnyway(id, c) ==
    LET r == c.request.resource IN
    /\ Servable(c)
    /\ holder' = [holder EXCEPT ![r] = id]
    /\ Store(id, Remaining(c))
    /\ usbQ' = usbQ
    /\ audioQ' = Append(audioQ, Start(r, id))

(* connect_play_audio or connect_send_audio succeeded.  A UDP socket that  *)
(* cannot be built, or UDP being disabled, leaves the resource connected   *)
(* and sends nothing.                                                      *)
Connect(id, c) ==
    LET r == c.request.resource IN
    /\ Servable(c) /\ holder[r] = NoOne
    /\ holder' = [holder EXCEPT ![r] = id]
    /\ Store(id, Remaining(c))
    /\ usbQ' = IF c.request = [resource |-> "playAudio", via |-> "Usb"]
               THEN Append(usbQ, "ReceiveAudioOverUsb") ELSE usbQ
    /\ \/ audioQ' = Append(audioQ, Start(r, id))
       \/ c.request.via = "Udp" /\ UNCHANGED audioQ

(* The resource is taken, be it by the same connection: a warning, and a   *)
(* TCP stream is dropped.                                                  *)
Refuse(id, c) ==
    /\ Servable(c) /\ holder[c.request.resource] # NoOne
    /\ Store(id, Remaining(c))
    /\ UNCHANGED <<holder, audioQ, usbQ>>

CheckNextResourceRequest(id, c) ==
    KeepWaiting(id, c) \/ Connect(id, c) \/ Refuse(id, c)
-----------------------------------------------------------------------------
(* The manager: one action per event.                                      *)

Takes(type) == cmQ # <<>> /\ Head(cmQ).type = type

Unchecked == UNCHANGED <<holder, audioQ, usbQ>>

(* A bug: the next id is not advanced.                                     *)
HandleNewJsonReusesId ==
    /\ Takes("NewJsonStream")
    /\ cmQ' = Tail(cmQ)
    /\ Store(nextId, [ip |-> Head(cmQ).ip, usb |-> Head(cmQ).usb,
                      pending |-> Nothing, request |-> Nothing])
    /\ devices' = devices \cup {nextId}
    /\ Unchecked /\ UNCHANGED <<nextId, audio, opened, asked>>

(* NewJsonStream: the connection gets the next id (ids are 64 bits wide,   *)
(* so they do not run out) and NewDeviceConnection starts its task.        *)
HandleNewJsonStream ==
    /\ Takes("NewJsonStream")
    /\ cmQ' = Tail(cmQ)
    /\ nextId' = nextId + 1
    /\ Store(nextId, [ip |-> Head(cmQ).ip, usb |-> Head(cmQ).usb,
                      pending |-> Nothing, request |-> Nothing])
    /\ devices' = devices \cup {nextId}
    /\ Unchecked /\ UNCHANGED <<audio, opened, asked>>

(* The stream goes to the connection with its address that the iteration   *)
(* over the HashMap yields last; without one, or when into_std fails, it   *)
(* is dropped.                                                             *)
HandleNewDataStream ==
    /\ Takes("NewDataStream")
    /\ cmQ' = Tail(cmQ)
    /\ \/ \E id \in DOMAIN connections :
             /\ connections[id].ip = Head(cmQ).ip /\ ~connections[id].usb
             /\ CheckNextResourceRequest(id,
                    [connections[id] EXCEPT !.pending = Head(cmQ).stream])
       \/ Unchecked /\ UNCHANGED connections
    /\ UNCHANGED <<nextId, envVars>>

(* ConnectTo: a failed connect is only logged.                             *)
HandleConnectTo ==
    /\ Takes("ConnectTo")
    /\ cmQ' \in {Tail(cmQ),
                 Append(Tail(cmQ), [type |-> "NewJsonStream", ip |-> Head(cmQ).ip, usb |-> FALSE])}
    /\ Unchecked /\ UNCHANGED <<managerVars, envVars>>

WithRequest(id) ==
    [connections[id] EXCEPT !.request = [resource |-> Head(cmQ).resource, via |-> Head(cmQ).via]]

(* A bug: the request is stored and the check left to the next stream.     *)
HandleSetNextUnchecked ==
    /\ Takes("SetNextResourceRequest")
    /\ cmQ' = Tail(cmQ)
    /\ IF Head(cmQ).id \in DOMAIN connections
       THEN Store(Head(cmQ).id, WithRequest(Head(cmQ).id)) /\ Unchecked
       ELSE Unchecked /\ UNCHANGED connections
    /\ UNCHANGED <<nextId, envVars>>

HandleSetNextResourceRequest ==
    /\ Takes("SetNextResourceRequest")
    /\ cmQ' = Tail(cmQ)
    /\ IF Head(cmQ).id \in DOMAIN connections
       THEN CheckNextResourceRequest(Head(cmQ).id, WithRequest(Head(cmQ).id))
       ELSE Unchecked /\ UNCHANGED connections
    /\ UNCHANGED <<nextId, envVars>>

(* Over TCP the manager connects first and sends itself the stream; over   *)
(* UDP and USB the request is checked at once.                             *)
HandleConnectToData ==
    /\ Takes("ConnectToData")
    /\ LET id == Head(cmQ).id IN
       \/ /\ id \notin DOMAIN connections
          /\ cmQ' = Tail(cmQ)
          /\ Unchecked /\ UNCHANGED <<connections, opened>>
       \/ /\ id \in DOMAIN connections /\ Head(cmQ).via = "Tcp"
          /\ Store(id, WithRequest(id))
          /\ \/ cmQ' = Tail(cmQ) /\ UNCHANGED opened
             \/ /\ opened < MaxStreams
                /\ opened' = opened + 1
                /\ cmQ' = Append(Tail(cmQ), [type |-> "NewDataStream",
                              ip |-> connections[id].ip, stream |-> opened + 1])
          /\ Unchecked
       \/ /\ id \in DOMAIN connections /\ Head(cmQ).via # "Tcp"
          /\ cmQ' = Tail(cmQ)
          /\ CheckNextResourceRequest(id, WithRequest(id))
          /\ UNCHANGED opened
    /\ UNCHANGED <<nextId, audio, devices, asked>>

(* A bug: the resource is stopped whoever holds it.                        *)
WithStopForAll(commands, r, id) ==
    IF holder[r] # NoOne THEN Append(commands, Stop(r, id)) ELSE commands

WithStop(commands, r, id) ==
    IF holder[r] = id THEN Append(commands, Stop(r, id)) ELSE commands

(* A bug: only the first resource found is released.                       *)
HandleRemoveFirstOnly ==
    /\ Takes("RemoveDataConnections")
    /\ cmQ' = Tail(cmQ)
    /\ LET id == Head(cmQ).id IN
       /\ connections' = [i \in DOMAIN connections \ {id} |-> connections[i]]
       /\ \E r \in Resources :
             /\ r = IF holder["playAudio"] = id THEN "playAudio" ELSE "sendAudio"
             /\ holder' = [holder EXCEPT ![r] = IF @ = id THEN NoOne ELSE @]
             /\ audioQ' = WithStop(audioQ, r, id)
    /\ UNCHANGED <<nextId, usbQ, envVars>>

(* A bug: the resources are released without telling the audio side.       *)
HandleRemoveSilently ==
    /\ Takes("RemoveDataConnections")
    /\ cmQ' = Tail(cmQ)
    /\ LET id == Head(cmQ).id IN
       /\ connections' = [i \in DOMAIN connections \ {id} |-> connections[i]]
       /\ holder' = [r \in Resources |-> IF holder[r] = id THEN NoOne ELSE holder[r]]
    /\ UNCHANGED <<nextId, audioQ, usbQ, envVars>>

(* request_disconnect_resources_for: each resource the connection holds is *)
(* released and its stop event sent, audio output first.                   *)
HandleRemoveDataConnections ==
    /\ Takes("RemoveDataConnections")
    /\ cmQ' = Tail(cmQ)
    /\ LET id == Head(cmQ).id IN
       IF id \in DOMAIN connections
       THEN /\ connections' = [i \in DOMAIN connections \ {id} |-> connections[i]]
            /\ holder' = [r \in Resources |-> IF holder[r] = id THEN NoOne ELSE holder[r]]
            /\ audioQ' = WithStop(WithStop(audioQ, "playAudio", id), "sendAudio", id)
       ELSE UNCHANGED <<connections, holder, audioQ>>
    /\ UNCHANGED <<nextId, usbQ, envVars>>

Manager ==
    \/ HandleNewJsonStream \/ HandleNewDataStream \/ HandleConnectTo
    \/ HandleSetNextResourceRequest \/ HandleConnectToData
    \/ HandleRemoveDataConnections
-----------------------------------------------------------------------------
(* The neighbours.                                                         *)

Sends(event) == cmQ' = Append(cmQ, event)
EnvUnchanged == UNCHANGED <<audioQ, usbQ, managerVars, audio>>

(* A listener accepts a JSON connection (over USB the address is local) or *)
(* the UI asks for one.                                                    *)
JsonConnectionAsked ==
    /\ asked.connections < MaxIds
    /\ asked' = [asked EXCEPT !.connections = @ + 1]
    /\ \E ip \in Ips :
          \/ \E usb \in BOOLEAN :
                Sends([type |-> "NewJsonStream", ip |-> ip, usb |-> usb])
          \/ Sends([type |-> "ConnectTo", ip |-> ip])
    /\ EnvUnchanged /\ UNCHANGED <<devices, opened>>

(* The data listener accepts a stream, from any address.                   *)
DataStreamAccepted ==
    /\ opened < MaxStreams
    /\ opened' = opened + 1
    /\ \E ip \in Ips :
          Sends([type |-> "NewDataStream", ip |-> ip, stream |-> opened + 1])
    /\ EnvUnchanged /\ UNCHANGED <<devices, asked>>

(* How a device task sends its audio: the configuration says it.           *)
SendTransport(id) ==
    IF connections[id].usb THEN "Usb" ELSE IF EnableUdp THEN "Udp" ELSE "Tcp"

(* A device task asks to send audio (it serves NativeSampleRate) or to     *)
(* play audio (it serves PlayAudioStream, in which the peer chooses the    *)
(* transport).                                                             *)
DeviceRequests ==
    /\ asked.requests < MaxRequests
    /\ asked' = [asked EXCEPT !.requests = @ + 1]
    /\ \E id \in devices :
          \/ Sends([type |-> "SetNextResourceRequest", id |-> id,
                    resource |-> "sendAudio", via |-> SendTransport(id)])
          \/ \E via \in Transports :
                Sends([type |-> "ConnectToData", id |-> id,
                       resource |-> "playAudio", via |-> via])
    /\ EnvUnchanged /\ UNCHANGED <<devices, opened>>

(* A device task ended; the DeviceManager removes its data connections.    *)
DeviceRemoved ==
    /\ \E id \in devices :
          /\ devices' = devices \ {id}
          /\ Sends([type |-> "RemoveDataConnections", id |-> id])
    /\ EnvUnchanged /\ UNCHANGED <<opened, asked>>

(* Whom a resource serves once a command is carried out.                   *)
Serves(command) == IF command.command = "on" THEN command.id ELSE NoOne

AudioManagerTakes ==
    /\ audioQ # <<>>
    /\ audioQ' = Tail(audioQ)
    /\ audio' = [audio EXCEPT ![Head(audioQ).resource] = Serves(Head(audioQ))]
    /\ UNCHANGED <<cmQ, usbQ, managerVars, devices, opened, asked>>

UsbManagerTakes ==
    /\ usbQ # <<>>
    /\ usbQ' = Tail(usbQ)
    /\ UNCHANGED <<cmQ, audioQ, managerVars, envVars>>

Neighbours ==
    \/ JsonConnectionAsked \/ DataStreamAccepted \/ DeviceRequests
    \/ DeviceRemoved \/ AudioManagerTakes \/ UsbManagerTakes

Next == Manager \/ Neighbours

Spec == Init /\ [][Next]_vars
-----------------------------------------------------------------------------
(* Types; live ids are ids already given out.                              *)
TypeOK ==
    /\ nextId \in 0 .. MaxIds
    /\ DOMAIN connections \subseteq 0 .. (nextId - 1)
    /\ \A id \in DOMAIN connections : connections[id] \in ConnectionResources
    /\ holder \in [Resources -> Ids \cup {NoOne}]
    /\ audio \in [Resources -> Ids \cup {NoOne}]
    /\ devices \subseteq Ids

(* A resource is held by a live connection or by nobody: removing a        *)
(* connection, at whatever moment of its negotiation, cannot leave the     *)
(* audio output or input taken for ever (connection.rs:134-150, 592-596).  *)
HoldersAreConnected ==
    \A r \in Resources : holder[r] # NoOne => holder[r] \in DOMAIN connections

(* After the first n commands under way resource r serves connection id.   *)
ServesAfter(r, n, id) ==
    \/ \E k \in 1..n :
          /\ audioQ[k].resource = r /\ Serves(audioQ[k]) = id
          /\ \A m \in (k + 1) .. n : audioQ[m].resource # r
    \/ audio[r] = id /\ \A m \in 1..n : audioQ[m].resource # r

(* Stop events name no connection, so a stream would be stopped or started *)
(* over another if they came out of order: between two starts of a         *)
(* resource there is always the stop of the first (connection.rs:114-150). *)
StartsAreSeparated ==
    \A i \in DOMAIN audioQ :
        audioQ[i].command = "on" => ServesAfter(audioQ[i].resource, i - 1, NoOne)

(* ... and a stop finds the stream of the connection it is sent for, or    *)
(* none, never that of a connection that got the resource meanwhile        *)
(* (connection.rs:134-150, 592-596).                                       *)
StopsReachOwnStream ==
    \A i \in DOMAIN audioQ :
        audioQ[i].command = "off" =>
            \E id \in {NoOne, audioQ[i].id} : ServesAfter(audioQ[i].resource, i - 1, id)

(* A resource nobody holds is silent once the commands under way are       *)
(* carried out: no audio runs for a connection that is gone.               *)
FreeResourceIsSilent ==
    \A r \in Resources : holder[r] = NoOne => ServesAfter(r, Len(audioQ), NoOne)

(* The request to send audio over TCP and the stream it is to use meet     *)
(* whichever comes first: no connection is left with both.  A request to   *)
(* play audio over TCP may wait beside a stream, because it is stored      *)
(* without a check and the manager opens a stream for it                   *)
(* (connection.rs:509-521, 556-577, 600-614).                              *)
NoMissedMatch ==
    \A id \in DOMAIN connections :
        connections[id].pending # Nothing =>
            connections[id].request # [resource |-> "sendAudio", via |-> "Tcp"]

=============================================================================
