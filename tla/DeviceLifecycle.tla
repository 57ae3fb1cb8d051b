-------------------------- MODULE DeviceLifecycle --------------------------
(***************************************************************************)
(* The life of device connections across the tasks that share them: the    *)
(* Router (message_router.rs) carries every message, the ConnectionManager *)
(* numbers connections and keeps their resources (connection.rs), the      *)
(* DeviceManager (device.rs) keeps a DeviceStateTask (device/state.rs) per *)
(* connection, the UI shows what happens (ui.rs), and AsyncLogic (lib.rs)  *)
(* ends them all.                                                          *)
(*                                                                         *)
(*   any task --rQ--> Router (held) --chan[c]--> component c               *)
(*   DeviceManager --evQ[id]--> DeviceStateTask id                         *)
(*                                                                         *)
(* A handler that waits, for room in a channel or for a task to end, is a  *)
(* sequence of actions, one up to each wait.  What a device task does with *)
(* the messages of its peer, and the audio side, are other modules.        *)
(***************************************************************************)
EXTENDS Integers, Sequences

CONSTANTS
    ChannelSize,   \* EVENT_CHANNEL_SIZE
    Android,       \* cfg!(target_os = "android")
    UiListens,     \* whether the UI socket could be bound
    NoId,          \* the id of a message about no connection
    MaxDevices,    \* bound: device connections
    MaxRequests    \* bound: requests of the UI

ASSUME ChannelAssumption == ChannelSize \in Nat \ {0}
ASSUME UiAssumption == Android \in BOOLEAN /\ UiListens \in BOOLEAN
ASSUME IdAssumption == NoId \notin Nat
ASSUME BoundsAssumption == MaxDevices \in Nat /\ MaxRequests \in Nat

VARIABLES
    rQ, held, chan,   \* the router's channel, message in hand, out channels
    running,          \* the components whose task has not ended
    phase,            \* where AsyncLogic::run is
    nextId, cmConns, cmOut,   \* ConnectionManager, and what it is sending
    dmConns, dm,      \* DeviceManager, and where its handler waits
    dst, evQ, dstQuit,   \* per device task: state, events, quit requests
    uiConn,           \* the user interface's connection, "sending" in send_down
    uiOut, uiShown,   \* what the UI is sending; the last event it took
    asked             \* environment: connections and UI requests so far

routerVars == <<rQ, held, chan>>
cmVars     == <<nextId, cmConns, cmOut>>
dmVars     == <<dmConns, dm>>
dstVars    == <<dst, evQ, dstQuit>>
uiVars     == <<uiConn, uiOut, uiShown>>
libVars    == <<running, phase>>
vars == <<routerVars, cmVars, dmVars, dstVars, uiVars, libVars, asked>>

Ids == 0 .. (MaxDevices - 1)
Components == {"dm", "ui", "cm"}

Message(to, type, id) == [to |-> to, type |-> type, id |-> id]
Types == [dm |-> {"NewDeviceConnection", "RemoveConnection",
                  "DisconnectAllDevices", "RunDeviceConnectionPing"},
          cm |-> {"NewJsonStream", "ConnectTo", "RemoveDataConnections"},
          ui |-> {"ConnectionEstablished", "ConnectionError",
                  "AllDevicesAreNowDisconnected"}]
Messages ==
    UNION {{Message(c, t, id) : t \in Types[c], id \in Ids \cup {NoId}} : c \in Components}

DmIdle == [pc |-> "idle", id |-> NoId, event |-> "none", todo |-> {}]

Init ==
    /\ rQ = <<>> /\ held = <<>> /\ chan = [c \in Components |-> <<>>]
    /\ running = Components \cup {"router"} /\ phase = "running"
    /\ nextId = 0 /\ cmConns = {} /\ cmOut = <<>>
    /\ dmConns = {} /\ dm = DmIdle
    /\ dst = [id \in Ids |-> "absent"]
    /\ evQ = [id \in Ids |-> <<>>] /\ dstQuit = {}
    /\ uiConn = "none" /\ uiOut = <<>> /\ uiShown = "nothing"
    /\ asked = [connections |-> 0, requests |-> 0]
-----------------------------------------------------------------------------
(* A bug: the router's channel is taken for an unbounded one.              *)
SendUnbounded(message) ==
    /\ "router" \in running
    /\ rQ' = Append(rQ, message)
    /\ UNCHANGED <<held, chan>>

(* RouterSender: a send waits for room in the router's channel.            *)
Send(message) ==
    /\ "router" \in running /\ Len(rQ) < ChannelSize
    /\ rQ' = Append(rQ, message)
    /\ UNCHANGED <<held, chan>>

RouterReceives ==
    /\ "router" \in running /\ held = <<>> /\ rQ # <<>>
    /\ held' = <<Head(rQ)>>
    /\ rQ' = Tail(rQ)
    /\ UNCHANGED <<chan, cmVars, dmVars, dstVars, uiVars, libVars, asked>>

RouterDelivers ==
    /\ "router" \in running /\ held # <<>>
    /\ LET c == Head(held).to IN
       /\ c \in running /\ Len(chan[c]) < ChannelSize
       /\ chan' = [chan EXCEPT ![c] = Append(@, Head(held))]
    /\ held' = <<>>
    /\ UNCHANGED <<rQ, cmVars, dmVars, dstVars, uiVars, libVars, asked>>

(* send(event).unwrap() when the component, and its receiver, is gone.     *)
(* Whoever sends or is awaited next panics too; the model ends here.       *)
RouterPanics ==
    /\ "router" \in running /\ held # <<>>
    /\ Head(held).to \notin running
    /\ running' = {}
    /\ phase' = "panicked"
    /\ UNCHANGED <<routerVars, cmVars, dmVars, dstVars, uiVars, asked>>

RouterQuits ==
    /\ phase = "closingRouter"
    /\ running' = running \ {"router"}
    /\ phase' = "done"
    /\ UNCHANGED <<routerVars, cmVars, dmVars, dstVars, uiVars, asked>>

Router == RouterReceives \/ RouterDelivers \/ RouterPanics \/ RouterQuits

(* The next event of component c, which is about to receive.               *)
Receives(c, type) ==
    /\ c \in running /\ chan[c] # <<>> /\ Head(chan[c]).type = type
    /\ chan' = [chan EXCEPT ![c] = Tail(@)]
    /\ UNCHANGED <<rQ, held>>

(* Every select of a component takes the quit request.                     *)
QuitRequested(c) == c \in running /\ phase # "running"

Ends(c) == running' = running \ {c} /\ UNCHANGED phase
-----------------------------------------------------------------------------
(* The ConnectionManager.                                                  *)
CmElsewhere == UNCHANGED <<dmVars, dstVars, uiVars, libVars, asked>>

CmNewJsonStream ==
    /\ cmOut = <<>> /\ Receives("cm", "NewJsonStream")
    /\ nextId' = nextId + 1
    /\ cmConns' = cmConns \cup {nextId}
    /\ cmOut' = <<Message("dm", "NewDeviceConnection", nextId)>>
    /\ CmElsewhere

(* The manager sends the stream it opened to itself, through the router;   *)
(* a connect that fails is only logged.                                    *)
CmConnectTo ==
    /\ cmOut = <<>> /\ Receives("cm", "ConnectTo")
    /\ cmOut' \in {<<>>, <<Message("cm", "NewJsonStream", NoId)>>}
    /\ UNCHANGED <<nextId, cmConns>> /\ CmElsewhere

CmRemoveDataConnections ==
    /\ cmOut = <<>> /\ chan["cm"] # <<>>
    /\ Receives("cm", "RemoveDataConnections")
    /\ cmConns' = cmConns \ {Head(chan["cm"]).id}
    /\ UNCHANGED <<nextId, cmOut>> /\ CmElsewhere

CmSends ==
    /\ "cm" \in running /\ cmOut # <<>>
    /\ Send(Head(cmOut))
    /\ cmOut' = <<>>
    /\ UNCHANGED <<nextId, cmConns>> /\ CmElsewhere

CmQuits ==
    /\ QuitRequested("cm") /\ Ends("cm")
    /\ UNCHANGED <<routerVars, cmVars, dmVars, dstVars, uiVars, asked>>

Cm == CmNewJsonStream \/ CmConnectTo \/ CmRemoveDataConnections \/ CmSends \/ CmQuits
-----------------------------------------------------------------------------
(* The DeviceManager.                                                      *)
DmElsewhere == UNCHANGED <<cmVars, uiVars, libVars, asked>>

DmNewDeviceConnection ==
    /\ dm.pc = "idle" /\ Receives("dm", "NewDeviceConnection")
    /\ LET id == Head(chan["dm"]).id IN
       /\ dmConns' = dmConns \cup {id}
       /\ dst' = [dst EXCEPT ![id] = "starting"]
    /\ UNCHANGED <<dm, evQ, dstQuit>> /\ DmElsewhere

(* DisconnectAllDevices and RunDeviceConnectionPing send an event to every *)
(* device, in the order of the HashMap, waiting for room in each queue.    *)
DmBroadcast(type, event) ==
    /\ dm.pc = "idle" /\ Receives("dm", type)
    /\ dm' = [DmIdle EXCEPT !.pc = "broadcast", !.event = event, !.todo = dmConns]
    /\ UNCHANGED <<dmConns, dstVars>> /\ DmElsewhere

DmSendsEvent ==
    /\ "dm" \in running /\ dm.pc = "broadcast"
    /\ \E id \in dm.todo :
          /\ Len(evQ[id]) < ChannelSize
          /\ evQ' = [evQ EXCEPT ![id] = Append(@, dm.event)]
          /\ dm' = [dm EXCEPT !.todo = @ \ {id}]
    /\ UNCHANGED <<dmConns, dst, dstQuit, routerVars>> /\ DmElsewhere

DmBroadcastDone ==
    /\ "dm" \in running /\ dm.pc = "broadcast" /\ dm.todo = {}
    /\ dm' = DmIdle
    /\ UNCHANGED <<dmConns, dstVars, routerVars>> /\ DmElsewhere

(* RemoveConnection: first the ConnectionManager is told, ...              *)
DmRemoveConnection ==
    /\ dm.pc = "idle" /\ chan["dm"] # <<>>
    /\ Receives("dm", "RemoveConnection")
    /\ dm' = [DmIdle EXCEPT !.pc = "release", !.id = Head(chan["dm"]).id]
    /\ UNCHANGED <<dmConns, dstVars>> /\ DmElsewhere

(* A bug: the ConnectionManager is not told.                               *)
DmReleasesQuietly ==
    /\ "dm" \in running /\ dm.pc = "release"
    /\ dmConns' = dmConns \ {dm.id}
    /\ dstQuit' = dstQuit \cup {dm.id}
    /\ dm' = [dm EXCEPT !.pc = "awaitEnd"]
    /\ UNCHANGED <<dst, evQ, routerVars>> /\ DmElsewhere

(* A bug: the task's handle is dropped without a quit request.             *)
DmReleasesDropsHandle ==
    /\ "dm" \in running /\ dm.pc = "release"
    /\ Send(Message("cm", "RemoveDataConnections", dm.id))
    /\ dmConns' = dmConns \ {dm.id}
    /\ dm' = DmIdle
    /\ UNCHANGED dstVars /\ DmElsewhere

(* ... then the task is removed, told to quit and awaited, ...             *)
DmReleases ==
    /\ "dm" \in running /\ dm.pc = "release"
    /\ Send(Message("cm", "RemoveDataConnections", dm.id))
    /\ dmConns' = dmConns \ {dm.id}
    /\ dstQuit' = dstQuit \cup {dm.id}
    /\ dm' = [dm EXCEPT !.pc = "awaitEnd"]
    /\ UNCHANGED <<dst, evQ>> /\ DmElsewhere

(* A bug: the UI is told whether or not other devices are left.            *)
DmTaskEndedUnchecked ==
    /\ "dm" \in running /\ dm.pc = "awaitEnd" /\ dst[dm.id] = "ended"
    /\ dm' = [dm EXCEPT !.pc = "announce"]
    /\ UNCHANGED <<dmConns, dstVars, routerVars>> /\ DmElsewhere

(* ... and the UI told when it was the last one.                           *)
DmTaskEnded ==
    /\ "dm" \in running /\ dm.pc = "awaitEnd" /\ dst[dm.id] = "ended"
    /\ dm' = IF dmConns = {} THEN [dm EXCEPT !.pc = "announce"] ELSE DmIdle
    /\ UNCHANGED <<dmConns, dstVars, routerVars>> /\ DmElsewhere

DmAnnounces ==
    /\ "dm" \in running /\ dm.pc = "announce"
    /\ Send(Message("ui", "AllDevicesAreNowDisconnected", NoId))
    /\ dm' = DmIdle
    /\ UNCHANGED <<dmConns, dstVars>> /\ DmElsewhere

(* The quit request drops the handler wherever it waits; then every task   *)
(* left is told to quit and awaited, one by one.                           *)
DmQuits ==
    /\ QuitRequested("dm") /\ dm.pc \notin {"quit", "quitAwait"}
    /\ dm' = [DmIdle EXCEPT !.pc = "quit"]
    /\ UNCHANGED <<dmConns, dstVars, routerVars>> /\ DmElsewhere

DmQuitsTask ==
    /\ dm.pc = "quit"
    /\ \E id \in dmConns :
          /\ dstQuit' = dstQuit \cup {id}
          /\ dm' = [dm EXCEPT !.pc = "quitAwait", !.id = id]
          /\ dmConns' = dmConns \ {id}
    /\ UNCHANGED <<dst, evQ, routerVars>> /\ DmElsewhere

DmQuitTaskEnded ==
    /\ dm.pc = "quitAwait" /\ dst[dm.id] = "ended"
    /\ dm' = [dm EXCEPT !.pc = "quit", !.id = NoId]
    /\ UNCHANGED <<dmConns, dstVars, routerVars>> /\ DmElsewhere

DmEnds ==
    /\ dm.pc = "quit" /\ dmConns = {}
    /\ "dm" \in running /\ Ends("dm")
    /\ UNCHANGED <<routerVars, cmVars, dmVars, dstVars, uiVars, asked>>

Dm ==
    \/ DmNewDeviceConnection
    \/ DmBroadcast("DisconnectAllDevices", "Disconnect")
    \/ DmBroadcast("RunDeviceConnectionPing", "SendPing")
    \/ DmSendsEvent \/ DmBroadcastDone
    \/ DmRemoveConnection \/ DmReleases \/ DmTaskEnded \/ DmAnnounces
    \/ DmQuits \/ DmQuitsTask \/ DmQuitTaskEnded \/ DmEnds
-----------------------------------------------------------------------------
(* The DeviceStateTask of connection id.  Closing its Connection task ends *)
(* by Connection!QuitEndsTask and is part of the step that decides it.     *)
DstElsewhere == UNCHANGED <<cmVars, dmVars, uiVars, libVars, asked, dstQuit>>

DstBecomes(id, state) == dst' = [dst EXCEPT ![id] = state]

DstEstablished(id) ==
    /\ dst[id] = "starting" /\ DstBecomes(id, "serving")
    /\ Send(Message("ui", "ConnectionEstablished", id))
    /\ UNCHANGED evQ /\ DstElsewhere

(* Disconnect ends the loop; a ping is sent down to the Connection, unless *)
(* the last one is still without an answer.                                *)
DstTakesEvent(id) ==
    /\ dst[id] = "serving" /\ evQ[id] # <<>>
    /\ evQ' = [evQ EXCEPT ![id] = Tail(@)]
    /\ \/ Head(evQ[id]) = "Disconnect" /\ DstBecomes(id, "leaving")
       \/ Head(evQ[id]) # "Disconnect" /\ DstBecomes(id, "serving")
       \/ Head(evQ[id]) # "Disconnect" /\ DstBecomes(id, "sending")
    /\ UNCHANGED routerVars /\ DstElsewhere

(* A message of the peer is answered.                                      *)
DstAnswers(id) ==
    /\ dst[id] = "serving" /\ DstBecomes(id, "sending")
    /\ UNCHANGED <<evQ, routerVars>> /\ DstElsewhere

(* send_down returns once the Connection has room, which a peer that does  *)
(* not read, or Connection!Stuck, may put off for ever.                    *)
DstSent(id) ==
    /\ dst[id] = "sending" /\ DstBecomes(id, "serving")
    /\ UNCHANGED <<evQ, routerVars>> /\ DstElsewhere

(* The Connection reports a ReadError or WriteError.                       *)
DstConnectionError(id) ==
    /\ dst[id] = "serving" /\ DstBecomes(id, "failed")
    /\ UNCHANGED <<evQ, routerVars>> /\ DstElsewhere

DstReportsError(id) ==
    /\ dst[id] = "failed" /\ DstBecomes(id, "leaving")
    /\ Send(Message("ui", "ConnectionError", id))
    /\ UNCHANGED evQ /\ DstElsewhere

DstLeaves(id) ==
    /\ dst[id] = "leaving" /\ DstBecomes(id, "waiting")
    /\ Send(Message("dm", "RemoveConnection", id))
    /\ UNCHANGED evQ /\ DstElsewhere


(* A bug: a task that asked for its removal ends without waiting for quit. *)
DstQuitsUnasked(id) ==
    /\ id \in dstQuit \/ dst[id] = "waiting"
    /\ dst[id] \in {"starting", "serving", "sending", "waiting"}
    /\ DstBecomes(id, "ended")
    /\ UNCHANGED <<evQ, routerVars>> /\ DstElsewhere

(* The quit request is taken wherever the loop waits, and at the end; not  *)
(* by the two sends in between.                                            *)
DstQuits(id) ==
    /\ id \in dstQuit /\ dst[id] \in {"starting", "serving", "sending", "waiting"}
    /\ DstBecomes(id, "ended")
    /\ UNCHANGED <<evQ, routerVars>> /\ DstElsewhere

DstSends(id) == DstEstablished(id) \/ DstReportsError(id) \/ DstLeaves(id)
Dst(id) ==
    \/ DstSends(id) \/ DstTakesEvent(id) \/ DstAnswers(id) \/ DstSent(id)
    \/ DstConnectionError(id) \/ DstQuits(id)
-----------------------------------------------------------------------------
(* The UI: without a socket it only waits for the quit request.            *)
UiElsewhere == UNCHANGED <<cmVars, dmVars, dstVars, libVars>>

(* listener.accept: one user interface at a time.                          *)
UiConnects ==
    /\ "ui" \in running /\ UiListens /\ uiConn = "none" /\ uiConn' = "up"
    /\ UNCHANGED <<uiOut, uiShown, asked, routerVars>> /\ UiElsewhere

(* A ReadError or WriteError of the user interface's connection.           *)
UiBreaks ==
    /\ "ui" \in running /\ uiConn = "up" /\ uiOut = <<>> /\ uiConn' = "none"
    /\ UNCHANGED <<uiOut, uiShown, asked, routerVars>> /\ UiElsewhere

(* A bug: the platforms are mixed up in the guard of ui.rs:123.            *)
UiReceivesOnAndroid ==
    /\ "ui" \in running /\ UiListens /\ uiOut = <<>> /\ chan["ui"] # <<>>
    /\ \/ uiConn = "none" /\ Android /\ UNCHANGED uiConn
       \/ uiConn = "up" /\ uiConn' = "sending"
    /\ Receives("ui", Head(chan["ui"]).type)
    /\ uiShown' = Head(chan["ui"]).type
    /\ UNCHANGED <<uiOut, asked>> /\ UiElsewhere

(* An event is sent down to the user interface; while none is connected it *)
(* is dropped, on Android left in the channel.                             *)
UiReceives ==
    /\ "ui" \in running /\ UiListens /\ uiOut = <<>> /\ chan["ui"] # <<>>
    /\ \/ uiConn = "none" /\ ~Android /\ UNCHANGED uiConn
       \/ uiConn = "up" /\ uiConn' = "sending"
    /\ Receives("ui", Head(chan["ui"]).type)
    /\ uiShown' = Head(chan["ui"]).type
    /\ UNCHANGED <<uiOut, asked>> /\ UiElsewhere

(* send_down returns, if ever: as for a device.                            *)
UiSent ==
    /\ uiConn = "sending" /\ uiConn' = "up"
    /\ UNCHANGED <<uiOut, uiShown, asked, routerVars>> /\ UiElsewhere

(* handle_message: what the connected user interface asks for.             *)
UiRequest ==
    /\ "ui" \in running /\ uiConn = "up" /\ uiOut = <<>>
    /\ \/ /\ asked.connections < MaxDevices
          /\ asked' = [asked EXCEPT !.connections = @ + 1]
          /\ uiOut' = <<Message("cm", "ConnectTo", NoId)>>
       \/ /\ asked.requests < MaxRequests
          /\ asked' = [asked EXCEPT !.requests = @ + 1]
          /\ uiOut' \in {<<Message("dm", "DisconnectAllDevices", NoId)>>,
                         <<Message("dm", "RunDeviceConnectionPing", NoId)>>}
    /\ UNCHANGED <<uiConn, uiShown, routerVars>> /\ UiElsewhere

UiSends ==
    /\ "ui" \in running /\ uiOut # <<>>
    /\ Send(Head(uiOut))
    /\ uiOut' = <<>>
    /\ UNCHANGED <<uiConn, uiShown, asked>> /\ UiElsewhere

(* Every wait looks at the quit request, but not send_down in its arm.     *)
UiQuits ==
    /\ QuitRequested("ui") /\ uiConn # "sending" /\ Ends("ui")
    /\ UNCHANGED <<routerVars, cmVars, dmVars, dstVars, uiVars, asked>>

Ui ==
    \/ UiConnects \/ UiBreaks \/ UiReceives \/ UiSent
    \/ UiRequest \/ UiSends \/ UiQuits
-----------------------------------------------------------------------------
(* A listener, which lives as long as the ConnectionManager, accepts.      *)
ListenerAccepts ==
    /\ "cm" \in running /\ asked.connections < MaxDevices
    /\ asked' = [asked EXCEPT !.connections = @ + 1]
    /\ Send(Message("cm", "NewJsonStream", NoId))
    /\ UNCHANGED <<cmVars, dmVars, dstVars, uiVars, libVars>>

(* AsyncLogic::run: CTRL+C or the quit of its caller; the four quit        *)
(* requests are sent at once.                                              *)
LogicQuits ==
    /\ phase = "running" /\ phase' = "quitting"
    /\ UNCHANGED <<routerVars, cmVars, dmVars, dstVars, uiVars, running, asked>>

LogicClosesRouter ==
    /\ phase = "quitting" /\ running = {"router"}
    /\ phase' = "closingRouter"
    /\ UNCHANGED <<routerVars, cmVars, dmVars, dstVars, uiVars, running, asked>>

Logic == LogicQuits \/ LogicClosesRouter

Next ==
    \/ Router \/ Cm \/ Dm \/ Ui \/ ListenerAccepts \/ Logic
    \/ \E id \in Ids : Dst(id)

Spec == Init /\ [][Next]_vars

(* Every task that can go on does; a waiting send gets its turn, because   *)
(* tokio's channels hand out room in the order of the requests, and so     *)
(* does a ready branch, because tokio::select! picks at random.  That a    *)
(* device fails, a user interface connects or asks, the program is quit,   *)
(* and that a send_down to either of them ever returns is nobody's duty.   *)
Fairness ==
    /\ WF_vars(Router)
    /\ WF_vars(CmNewJsonStream \/ CmConnectTo \/ CmRemoveDataConnections \/ CmQuits)
    /\ SF_vars(CmSends) /\ SF_vars(UiSends)
    /\ WF_vars(Dm) /\ SF_vars(DmReleases) /\ SF_vars(DmAnnounces)
    /\ SF_vars(UiReceives) /\ WF_vars(UiQuits)
    /\ \A id \in Ids : /\ SF_vars(DstSends(id))
                       /\ SF_vars(DstTakesEvent(id)) /\ WF_vars(DstQuits(id))
    /\ WF_vars(LogicClosesRouter)

FairSpec == Spec /\ Fairness
-----------------------------------------------------------------------------
(* Types and capacities.                                                   *)
TypeOK ==
    /\ rQ \in Seq(Messages) /\ Len(rQ) <= ChannelSize
    /\ held \in Seq(Messages) /\ Len(held) <= 1
    /\ \A c \in Components :
          /\ chan[c] \in Seq(Messages) /\ Len(chan[c]) <= ChannelSize
          /\ \A i \in DOMAIN chan[c] : chan[c][i].to = c
    /\ running \subseteq Components \cup {"router"}
    /\ phase \in {"running", "quitting", "closingRouter", "done", "panicked"}
    /\ nextId \in 0 .. MaxDevices /\ cmConns \subseteq 0 .. (nextId - 1)
    /\ dmConns \subseteq 0 .. (nextId - 1)
    /\ cmOut \in Seq(Messages) /\ uiOut \in Seq(Messages)
    /\ uiConn \in {"none", "up", "sending"}
    /\ dm.todo \subseteq dmConns /\ dm.id \in Ids \cup {NoId}
    /\ \A id \in Ids : Len(evQ[id]) <= ChannelSize

(* A message of component c is in its channel or with the router.          *)
OnPath(c, type, id) ==
    \E q \in {chan[c], held, rQ} : \E i \in DOMAIN q : q[i] = Message(c, type, id)

Announced(id) ==
    Message("dm", "NewDeviceConnection", id) \in {cmOut[i] : i \in DOMAIN cmOut}
    \/ OnPath("dm", "NewDeviceConnection", id)

(* connections.remove(&id).unwrap() and the quit_sender.send(()).unwrap()  *)
(* it leads to never panic: when the DeviceManager handles a removal, the  *)
(* connection is still known and its task still waits for the quit         *)
(* request, whatever disconnects, errors and broadcasts crossed            *)
(* (device.rs:180, state.rs:207-211).                                      *)
RemoveFindsDevice ==
    dm.pc = "release" => dm.id \in dmConns /\ dst[dm.id] = "waiting"

(* The two managers agree: until the program quits, each connection the    *)
(* ConnectionManager keeps resources for is announced to the               *)
(* DeviceManager, kept by it, or on its way back, and each that the        *)
(* DeviceManager keeps has its resources and nobody about to take them     *)
(* (connection.rs:487-500, 592-596, device.rs:147-181).                    *)
ManagersAgree ==
    phase = "running" =>
        \A id \in Ids :
            LET removed == OnPath("cm", "RemoveDataConnections", id) IN
            /\ id \in cmConns <=> Announced(id) \/ id \in dmConns \/ removed
            /\ id \in dmConns => ~Announced(id) /\ ~removed

(* The last event for the UI that is on its way, or else the one it shows. *)
NoneForUi(q) == \A i \in DOMAIN q : q[i].to # "ui"

LastForUi(q, type) ==
    \E i \in DOMAIN q : /\ q[i].to = "ui" /\ q[i].type = type
                        /\ \A j \in DOMAIN q : j > i => q[j].to # "ui"

UiEndsUpWith(type) ==
    \/ LastForUi(rQ, type)
    \/ NoneForUi(rQ) /\ LastForUi(held, type)
    \/ NoneForUi(rQ) /\ NoneForUi(held) /\ LastForUi(chan["ui"], type)
    \/ NoneForUi(rQ) /\ NoneForUi(held) /\ NoneForUi(chan["ui"]) /\ uiShown = type

(* What the UI ends up showing is true: it does not say that all devices   *)
(* are disconnected while one of them is at work, and once the last one is *)
(* removed that is the last it hears (device.rs:182-186, state.rs:158).    *)
UiNotMisled ==
    phase = "running" =>
        /\ UiEndsUpWith("AllDevicesAreNowDisconnected") =>
              \A id \in dmConns : dst[id] = "starting"
        /\ dmConns = {} /\ dm.pc = "idle" =>
              ~ \E type \in {"ConnectionEstablished", "ConnectionError"} : UiEndsUpWith(type)

(* No device task is lost: one that has not ended can be reached through   *)
(* the DeviceManager or has been told to quit, also when a quit request    *)
(* drops a handler half-way (device.rs:116-135).                           *)
NoTaskIsLost ==
    \A id \in Ids : dst[id] \notin {"absent", "ended"} => id \in dmConns \cup dstQuit

(* A task waits for room in the router's channel.                          *)
WaitsForRoom(c) ==
    \/ c = "cm" /\ cmOut # <<>>
    \/ c = "ui" /\ uiOut # <<>>
    \/ c = "dm" /\ dm.pc \in {"release", "announce"}
    \/ c = "dm" /\ dm.pc = "broadcast"
                /\ \E id \in dm.todo : dst[id] \in {"starting", "failed", "leaving"}

(* The DeviceManager waits for a device that is in send_down.              *)
DmWaitsForDevice ==
    /\ dm.pc = "broadcast"
    /\ \E id \in dm.todo : dst[id] = "sending" /\ Len(evQ[id]) = ChannelSize

UiIsDeaf == ~UiListens \/ uiConn = "sending" \/ (Android /\ uiConn = "none")

(* What can hold up the router: the receiver of its message waits for the  *)
(* router itself, is in send_down, or is a UI that takes no events.        *)
RouterIsHeldUp ==
    /\ held # <<>>
    /\ LET c == Head(held).to IN
       \/ Len(rQ) = ChannelSize /\ WaitsForRoom(c)
       \/ c = "dm" /\ DmWaitsForDevice
       \/ c = "ui" /\ UiIsDeaf

(* The router is never stuck with a message (message_router.rs:95-117) ... *)
RouterGoesOn == held # <<>> ~> held = <<>> \/ phase # "running"

(* ... or if it is, then for ever, for one of these three reasons.         *)
RouterGoesOnOrIsHeldUp ==
    <>[]RouterIsHeldUp \/ RouterGoesOn

(* A device that fails or is told to disconnect ends, and both managers    *)
(* forget it, unless the program quits first, the router is held up for    *)
(* ever, or this device, or one the DeviceManager talks to first, never    *)
(* gets out of send_down (device.rs:170-187, state.rs:155-213).            *)
Departing(id) ==
    \/ dst[id] \in {"failed", "leaving"}
    \/ \E i \in DOMAIN evQ[id] : evQ[id][i] = "Disconnect"
LostDeviceIsRemoved ==
    \A id \in Ids :
        \/ <>[](RouterIsHeldUp \/ DmWaitsForDevice \/ dst[id] = "sending")
        \/ Departing(id) ~> \/ dst[id] = "ended" /\ id \notin cmConns \cup dmConns
                            \/ phase # "running"

(* A requested shutdown comes to an end (lib.rs:97-112) ...                *)
ShutdownEnds == phase = "quitting" ~> phase \in {"done", "panicked"}

(* ... or the UI never gets out of send_down, or the router has a message  *)
(* for the DeviceManager, which waits for a device task, which waits for   *)
(* room with the router (ui.rs:172-187, state.rs:200-209).                 *)
LeavingIsHeldUp ==
    /\ dm.pc = "quitAwait" /\ dst[dm.id] \in {"failed", "leaving"}
    /\ held # <<>> /\ Head(held).to = "dm" /\ Len(rQ) = ChannelSize

(* A device task that is told to quit is closed (state.rs:50-54).          *)
QuitTaskEnds == \A id \in Ids : id \in dstQuit ~> dst[id] = "ended" \/ phase = "panicked"

(* ... and the router is there until "all components" are closed           *)
(* (lib.rs:102-112).                                                       *)
RouterOutlivesComponents == phase # "panicked"
=============================================================================
