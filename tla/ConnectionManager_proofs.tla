---------------------- MODULE ConnectionManager_proofs ----------------------
(***************************************************************************)
(* Proofs about module ConnectionManager, for any number of addresses,     *)
(* connections, streams and requests.                                      *)
(***************************************************************************)
EXTENDS ConnectionManager, QueueLemmas

(* HoldersAreConnected is inductive once holder is known to be a function. *)
HoldersInv == DOMAIN holder = Resources /\ HoldersAreConnected

LEMMA Checked ==
  ASSUME HoldersInv, NEW id \in DOMAIN connections, NEW c,
         CheckNextResourceRequest(id, c)
  PROVE  HoldersInv'
<1>1. DOMAIN connections' = DOMAIN connections
  BY DEF CheckNextResourceRequest, KeepWaiting, Connect, Refuse, Store
<1>2. /\ DOMAIN holder' = Resources
      /\ \A r \in Resources : holder'[r] = holder[r] \/ holder'[r] = id
  <2>1. CASE KeepWaiting(id, c) \/ Refuse(id, c)
    BY <2>1 DEF KeepWaiting, Refuse, HoldersInv
  <2>2. CASE Connect(id, c)
    BY <2>2 DEF Connect, HoldersInv
  <2>. QED
    BY <2>1, <2>2 DEF CheckNextResourceRequest
<1>. QED
  BY <1>1, <1>2 DEF HoldersInv, HoldersAreConnected

(* Whatever becomes of its requests and its streams, a connection that is  *)
(* removed leaves no resource taken (connection.rs:134-150, 592-596).      *)
THEOREM HoldersConnected == Spec => []HoldersAreConnected
<1>1. Init => HoldersInv
  BY DEF Init, HoldersInv, HoldersAreConnected
<1>2. HoldersInv /\ [Next]_vars => HoldersInv'
  <2> SUFFICES ASSUME HoldersInv, [Next]_vars PROVE HoldersInv'
    OBVIOUS
  <2>1. CASE HandleNewJsonStream
    <3>1. DOMAIN connections \subseteq DOMAIN connections' /\ holder' = holder
      BY <2>1 DEF HandleNewJsonStream, Store, Unchecked
    <3>. QED
      BY <3>1 DEF HoldersInv, HoldersAreConnected
  <2>2. CASE HandleNewDataStream
    BY <2>2, Checked
       DEF HandleNewDataStream, Unchecked, HoldersInv, HoldersAreConnected
  <2>3. CASE HandleSetNextResourceRequest
    BY <2>3, Checked
       DEF HandleSetNextResourceRequest, Unchecked, HoldersInv, HoldersAreConnected
  <2>4. CASE HandleConnectToData
    <3>1. CASE \E id \in DOMAIN connections :
                  CheckNextResourceRequest(id, WithRequest(id))
      BY <3>1, Checked
    <3>2. CASE holder' = holder /\ DOMAIN connections \subseteq DOMAIN connections'
      BY <3>2 DEF HoldersInv, HoldersAreConnected
    <3>. QED
      BY <2>4, <3>1, <3>2 DEF HandleConnectToData, Unchecked, Store
  <2>5. CASE HandleRemoveDataConnections
    <3>1. CASE UNCHANGED <<connections, holder>>
      BY <3>1 DEF HoldersInv, HoldersAreConnected
    <3>2. CASE ~UNCHANGED <<connections, holder>>
      <4>. DEFINE id == Head(cmQ).id
      <4>1. /\ connections' = [i \in DOMAIN connections \ {id} |-> connections[i]]
            /\ holder' = [r \in Resources |->
                             IF holder[r] = id THEN NoOne ELSE holder[r]]
        BY <2>5, <3>2 DEF HandleRemoveDataConnections
      <4>. HIDE DEF id
      <4>. QED
        BY <4>1 DEF HoldersInv, HoldersAreConnected
    <3>. QED
      BY <3>1, <3>2
  <2>6. CASE HandleConnectTo \/ Neighbours \/ UNCHANGED vars
    <3>1. UNCHANGED <<connections, holder>>
      BY <2>6 DEF HandleConnectTo, Unchecked, managerVars, vars, Neighbours,
                  JsonConnectionAsked, DataStreamAccepted, DeviceRequests,
                  DeviceRemoved, AudioManagerTakes, UsbManagerTakes, EnvUnchanged
    <3>. QED
      BY <3>1 DEF HoldersInv, HoldersAreConnected
  <2>. QED
    BY <2>1, <2>2, <2>3, <2>4, <2>5, <2>6 DEF Next, Manager
<1>3. HoldersInv => HoldersAreConnected
  BY DEF HoldersInv
<1>. QED
  BY <1>1, <1>2, <1>3, PTL DEF Spec
-----------------------------------------------------------------------------
(* The events and commands under way.                                      *)
NewJsonStreams == [type : {"NewJsonStream"}, ip : Ips, usb : BOOLEAN]
NewDataStreams == [type : {"NewDataStream"}, ip : Ips, stream : Streams]
ConnectTos == [type : {"ConnectTo"}, ip : Ips]
SetNexts ==
    [type : {"SetNextResourceRequest"}, id : Ids, resource : {"sendAudio"}, via : Transports]
ConnectToDatas ==
    [type : {"ConnectToData"}, id : Ids, resource : {"playAudio"}, via : Transports]
Removals == [type : {"RemoveDataConnections"}, id : Ids]

Events == NewJsonStreams \cup NewDataStreams \cup ConnectTos \cup SetNexts
              \cup ConnectToDatas \cup Removals
Announcing == NewJsonStreams \cup ConnectTos
AudioCommands == [command : {"on", "off"}, resource : Resources, id : Ids]

(* TypeOK bounds nextId by the number of connections that may be asked     *)
(* for; that is inductive only if the connections that are still on their  *)
(* way are counted as well.                                                *)
QueuesOK ==
    /\ cmQ \in Seq(Events) /\ audioQ \in Seq(AudioCommands)
    /\ asked \in [connections : 0..MaxIds, requests : Nat]
    /\ opened \in 0..MaxStreams
    /\ nextId + NumberOf(cmQ, Announcing) <= asked.connections

LEMMA EventTypes ==
  ASSUME NEW e \in Events
  PROVE  /\ e.type = "NewJsonStream" => e \in NewJsonStreams
         /\ e.type = "NewDataStream" => e \in NewDataStreams
         /\ e.type = "ConnectTo" => e \in ConnectTos
         /\ e.type = "SetNextResourceRequest" => e \in SetNexts
         /\ e.type = "ConnectToData" => e \in ConnectToDatas
         /\ e.type = "RemoveDataConnections" => e \in Removals
         /\ e \in Announcing <=> e.type \in {"NewJsonStream", "ConnectTo"}
BY DEF Events, Announcing, NewJsonStreams, NewDataStreams, ConnectTos, SetNexts,
       ConnectToDatas, Removals

(* What taking the first event leaves, and what becomes of the count.      *)
LEMMA EventTaken ==
  ASSUME QueuesOK, NEW type, Takes(type)
  PROVE  /\ Head(cmQ) \in Events /\ Tail(cmQ) \in Seq(Events)
         /\ NumberOf(cmQ, Announcing) \in Nat
         /\ NumberOf(Tail(cmQ), Announcing) =
               IF type \in {"NewJsonStream", "ConnectTo"}
               THEN NumberOf(cmQ, Announcing) - 1 ELSE NumberOf(cmQ, Announcing)
<1>1. cmQ \in Seq(Events) /\ cmQ # <<>> /\ Head(cmQ).type = type
  BY DEF QueuesOK, Takes
<1>2. Head(cmQ) \in Events /\ Tail(cmQ) \in Seq(Events)
  BY <1>1, Removed
<1>3. Head(cmQ) \in Announcing <=> type \in {"NewJsonStream", "ConnectTo"}
  BY <1>1, <1>2, EventTypes
<1>. QED
  BY <1>1, <1>2, <1>3, NumberOfTail, PositionsFinite

LEMMA EventSent ==
  ASSUME NEW q \in Seq(Events), NEW e \in Events
  PROVE  /\ Append(q, e) \in Seq(Events)
         /\ NumberOf(q, Announcing) \in Nat
         /\ NumberOf(Append(q, e), Announcing) =
               IF e.type \in {"NewJsonStream", "ConnectTo"}
               THEN NumberOf(q, Announcing) + 1 ELSE NumberOf(q, Announcing)
<1>1. e \in Announcing <=> e.type \in {"NewJsonStream", "ConnectTo"}
  BY EventTypes
<1>. QED
  BY <1>1, Extended, NumberOfAppend, PositionsFinite

(* What a check of connection id leaves: its resources, which have lost    *)
(* the stream or keep it and do not match it.                              *)
LEMMA CheckResult ==
  ASSUME NEW id \in DOMAIN connections, NEW c \in ConnectionResources,
         CheckNextResourceRequest(id, c)
  PROVE  \E d \in ConnectionResources :
            /\ connections' = [i \in DOMAIN connections |-> IF i = id THEN d ELSE connections[i]]
            /\ d.pending = c.pending \/ d.pending = Nothing
            /\ d.pending # Nothing => d.request # [resource |-> "sendAudio", via |-> "Tcp"]
<1>0. DOMAIN connections \cup {id} = DOMAIN connections
  OBVIOUS
<1>1. CASE KeepWaiting(id, c)
  <2>1. connections' = [i \in DOMAIN connections |-> IF i = id THEN c ELSE connections[i]]
    BY <1>0, <1>1 DEF KeepWaiting, Store
  <2>2. c.pending # Nothing => c.request # [resource |-> "sendAudio", via |-> "Tcp"]
    <3>. SUFFICES ASSUME c.pending # Nothing, c.request = [resource |-> "sendAudio", via |-> "Tcp"]
                  PROVE  FALSE
      OBVIOUS
    <3>1. c.request # Nothing /\ c.request.via = "Tcp"
      BY NothingAssumption DEF Requests, Resources, Transports
    <3>. QED
      BY <1>1, <3>1 DEF KeepWaiting, Servable
  <2>. QED
    BY <2>1, <2>2
<1>2. CASE Connect(id, c) \/ Refuse(id, c)
  <2>. DEFINE d == Remaining(c)
  <2>1. Servable(c)
        /\ connections' = [i \in DOMAIN connections |-> IF i = id THEN d ELSE connections[i]]
    BY <1>0, <1>2 DEF Connect, Refuse, Store
  <2>2. CASE c.request.via = "Tcp"
    <3>1. c.pending # Nothing
      BY <2>1, <2>2 DEF Servable
    <3>2. d \in ConnectionResources /\ d.pending = Nothing
      BY <2>2 DEF Remaining, ConnectionResources
    <3>. QED
      BY <2>1, <3>1, <3>2
  <2>3. CASE c.request.via # "Tcp"
    <3>1. d = c /\ c.request # [resource |-> "sendAudio", via |-> "Tcp"]
      BY <2>3 DEF Remaining
    <3>. QED
      BY <2>1, <2>3, <3>1
  <2>. QED
    BY <2>2, <2>3
<1>. QED
  BY <1>1, <1>2 DEF CheckNextResourceRequest

(* What it does to the resources of this machine.                          *)
LEMMA CheckEffect ==
  ASSUME NEW id \in DOMAIN connections, NEW c \in ConnectionResources,
         CheckNextResourceRequest(id, c)
  PROVE  \/ UNCHANGED <<holder, audioQ>>
         \/ \E r \in Resources :
               /\ holder[r] = NoOne /\ holder' = [holder EXCEPT ![r] = id]
               /\ audioQ' = audioQ \/ audioQ' = Append(audioQ, Start(r, id))
<1>1. CASE KeepWaiting(id, c) \/ Refuse(id, c)
  BY <1>1 DEF KeepWaiting, Refuse
<1>2. CASE Connect(id, c)
  <2>1. c.request \in Requests
    BY <1>2 DEF Connect, Servable, ConnectionResources
  <2>2. c.request.resource \in Resources
    BY <2>1 DEF Requests
  <2>. QED
    BY <1>2, <2>2 DEF Connect
<1>. QED
  BY <1>1, <1>2 DEF CheckNextResourceRequest

LEMMA TypesStart == Init => TypeOK /\ QueuesOK
<1>. SUFFICES ASSUME Init PROVE TypeOK /\ QueuesOK
  OBVIOUS
<1>1. NumberOf(cmQ, Announcing) = 0 /\ cmQ \in Seq(Events) /\ audioQ \in Seq(AudioCommands)
  BY NumberOfNone, EmptySeq DEF Init
<1>2. DOMAIN connections = {}
  BY DEF Init
<1>. QED
  BY <1>1, <1>2, BoundsAssumption DEF Init, TypeOK, QueuesOK

LEMMA Stored ==
  ASSUME TypeOK, NEW id, NEW c \in ConnectionResources, Store(id, c)
  PROVE  /\ DOMAIN connections' = DOMAIN connections \cup {id}
         /\ \A i \in DOMAIN connections' : connections'[i] \in ConnectionResources
BY DEF TypeOK, Store

LEMMA RequestTyped ==
  ASSUME TypeOK, NEW id \in DOMAIN connections, Head(cmQ) \in SetNexts \cup ConnectToDatas
  PROVE  WithRequest(id) \in ConnectionResources
<1>1. [resource |-> Head(cmQ).resource, via |-> Head(cmQ).via] \in Requests
  BY DEF SetNexts, ConnectToDatas, Requests, Resources
<1>. QED
  BY <1>1 DEF WithRequest, TypeOK, ConnectionResources

(* The handlers that check a connection, or leave the connections alone.   *)
LEMMA TypesAfterCheck ==
  ASSUME TypeOK, QueuesOK, UNCHANGED <<nextId, audio, devices>>,
         \/ UNCHANGED <<connections, holder, audioQ>>
         \/ \E id \in DOMAIN connections : \E c \in ConnectionResources :
               CheckNextResourceRequest(id, c)
  PROVE  TypeOK' /\ audioQ' \in Seq(AudioCommands)
<1>1. CASE UNCHANGED <<connections, holder, audioQ>>
  BY <1>1 DEF TypeOK, QueuesOK
<1>2. ASSUME NEW id \in DOMAIN connections, NEW c \in ConnectionResources,
             CheckNextResourceRequest(id, c)
      PROVE  TypeOK' /\ audioQ' \in Seq(AudioCommands)
  <2>1. id \in Ids /\ id \in Nat
    BY BoundsAssumption DEF TypeOK, Ids
  <2>2. /\ DOMAIN connections' = DOMAIN connections
        /\ \A i \in DOMAIN connections' : connections'[i] \in ConnectionResources
    BY <1>2, CheckResult DEF TypeOK
  <2>3. holder' \in [Resources -> Ids \cup {NoOne}]
    BY <1>2, <2>1, CheckEffect DEF TypeOK
  <2>4. audioQ' \in Seq(AudioCommands)
    <3>1. \A r \in Resources : Start(r, id) \in AudioCommands
      BY <2>1 DEF Start, AudioCommands
    <3>. QED
      BY <1>2, <3>1, CheckEffect, Extended DEF QueuesOK
  <2>. QED
    BY <2>2, <2>3, <2>4 DEF TypeOK
<1>. QED
  BY <1>1, <1>2

LEMMA TypesStep ==
  ASSUME TypeOK, QueuesOK, [Next]_vars
  PROVE  TypeOK' /\ QueuesOK'
<1>0. /\ MaxIds \in Nat /\ MaxStreams \in Nat /\ nextId \in Nat
      /\ asked.connections \in 0..MaxIds /\ asked.requests \in Nat
      /\ opened \in 0..MaxStreams
  BY BoundsAssumption DEF TypeOK, QueuesOK
<1>1. CASE HandleNewJsonStream
  <2>1. /\ Takes("NewJsonStream") /\ cmQ' = Tail(cmQ) /\ nextId' = nextId + 1
        /\ Store(nextId, [ip |-> Head(cmQ).ip, usb |-> Head(cmQ).usb,
                          pending |-> Nothing, request |-> Nothing])
        /\ devices' = devices \cup {nextId}
        /\ UNCHANGED <<holder, audioQ, audio, opened, asked>>
    BY <1>1 DEF HandleNewJsonStream, Unchecked
  <2>2. /\ Tail(cmQ) \in Seq(Events) /\ NumberOf(cmQ, Announcing) \in Nat
        /\ NumberOf(Tail(cmQ), Announcing) = NumberOf(cmQ, Announcing) - 1
        /\ NumberOf(Tail(cmQ), Announcing) \in Nat /\ Head(cmQ) \in NewJsonStreams
    BY <2>1, EventTaken, EventTypes, PositionsFinite DEF Takes
  <2>3. nextId + 1 + NumberOf(Tail(cmQ), Announcing) <= asked.connections
        /\ nextId + 1 \in 0..MaxIds /\ nextId \in Ids
    BY <1>0, <2>2 DEF QueuesOK, Ids
  <2>4. [ip |-> Head(cmQ).ip, usb |-> Head(cmQ).usb, pending |-> Nothing, request |-> Nothing]
           \in ConnectionResources
    BY <2>2 DEF NewJsonStreams, ConnectionResources
  <2>5. /\ DOMAIN connections' = DOMAIN connections \cup {nextId}
        /\ \A i \in DOMAIN connections' : connections'[i] \in ConnectionResources
    BY <2>1, <2>4, Stored
  <2>6. DOMAIN connections' \subseteq 0 .. (nextId' - 1)
    BY <1>0, <2>1, <2>5 DEF TypeOK
  <2>. QED
    BY <2>1, <2>2, <2>3, <2>5, <2>6 DEF TypeOK, QueuesOK
<1>2. CASE HandleNewDataStream
  <2>1. Takes("NewDataStream") /\ cmQ' = Tail(cmQ) /\ UNCHANGED <<nextId, envVars>>
    BY <1>2 DEF HandleNewDataStream
  <2>2. /\ Tail(cmQ) \in Seq(Events) /\ Head(cmQ) \in NewDataStreams
        /\ NumberOf(Tail(cmQ), Announcing) = NumberOf(cmQ, Announcing)
    BY <2>1, EventTaken, EventTypes DEF Takes
  <2>3. \A id \in DOMAIN connections :
           [connections[id] EXCEPT !.pending = Head(cmQ).stream] \in ConnectionResources
    BY <2>2 DEF TypeOK, ConnectionResources, NewDataStreams
  <2>4. TypeOK' /\ audioQ' \in Seq(AudioCommands)
    BY <1>2, <2>1, <2>3, TypesAfterCheck DEF HandleNewDataStream, Unchecked, envVars
  <2>. QED
    BY <2>1, <2>2, <2>4 DEF QueuesOK, envVars
<1>3. CASE HandleConnectTo
  <2>1. /\ Takes("ConnectTo") /\ UNCHANGED <<holder, audioQ, managerVars, envVars>>
        /\ cmQ' \in {Tail(cmQ), Append(Tail(cmQ),
                        [type |-> "NewJsonStream", ip |-> Head(cmQ).ip, usb |-> FALSE])}
    BY <1>3 DEF HandleConnectTo, Unchecked
  <2>2. /\ Tail(cmQ) \in Seq(Events) /\ NumberOf(cmQ, Announcing) \in Nat
        /\ NumberOf(Tail(cmQ), Announcing) = NumberOf(cmQ, Announcing) - 1
        /\ Head(cmQ) \in ConnectTos
    BY <2>1, EventTaken, EventTypes DEF Takes
  <2>3. [type |-> "NewJsonStream", ip |-> Head(cmQ).ip, usb |-> FALSE] \in Events
    BY <2>2 DEF ConnectTos, Events, NewJsonStreams
  <2>4. cmQ' \in Seq(Events) /\ nextId + NumberOf(cmQ', Announcing) <= asked.connections
    <3>1. CASE cmQ' = Tail(cmQ)
      BY <1>0, <2>2, <3>1 DEF QueuesOK
    <3>2. CASE cmQ' # Tail(cmQ)
      <4>. DEFINE e == [type |-> "NewJsonStream", ip |-> Head(cmQ).ip, usb |-> FALSE]
      <4>1. cmQ' = Append(Tail(cmQ), e) /\ e.type = "NewJsonStream"
        BY <2>1, <3>2
      <4>. HIDE DEF e
      <4>2. e \in Events
        BY <2>3 DEF e
      <4>3. /\ cmQ' \in Seq(Events)
            /\ NumberOf(cmQ', Announcing) = NumberOf(Tail(cmQ), Announcing) + 1
        BY <2>2, <4>1, <4>2, EventSent
      <4>4. NumberOf(cmQ', Announcing) = NumberOf(cmQ, Announcing)
        BY <2>2, <4>3
      <4>. QED
        BY <4>3, <4>4 DEF QueuesOK
    <3>. QED
      BY <3>1, <3>2
  <2>. QED
    BY <2>1, <2>4 DEF TypeOK, QueuesOK, managerVars, envVars
<1>4. ASSUME NEW id \in DOMAIN connections, Head(cmQ) \in SetNexts \cup ConnectToDatas
      PROVE  WithRequest(id) \in ConnectionResources
  BY <1>4, RequestTyped
<1>5. CASE HandleSetNextResourceRequest
  <2>1. Takes("SetNextResourceRequest") /\ cmQ' = Tail(cmQ) /\ UNCHANGED <<nextId, envVars>>
    BY <1>5 DEF HandleSetNextResourceRequest
  <2>2. /\ Tail(cmQ) \in Seq(Events) /\ Head(cmQ) \in SetNexts
        /\ NumberOf(Tail(cmQ), Announcing) = NumberOf(cmQ, Announcing)
    BY <2>1, EventTaken, EventTypes DEF Takes
  <2>3. TypeOK' /\ audioQ' \in Seq(AudioCommands)
    BY <1>4, <1>5, <2>1, <2>2, TypesAfterCheck
       DEF HandleSetNextResourceRequest, Unchecked, envVars
  <2>. QED
    BY <2>1, <2>2, <2>3 DEF QueuesOK, envVars
<1>6. CASE HandleConnectToData
  <2>. DEFINE id == Head(cmQ).id
  <2>1. Takes("ConnectToData") /\ UNCHANGED <<nextId, audio, devices, asked>>
    BY <1>6 DEF HandleConnectToData
  <2>2. /\ Tail(cmQ) \in Seq(Events) /\ Head(cmQ) \in ConnectToDatas
        /\ NumberOf(Tail(cmQ), Announcing) = NumberOf(cmQ, Announcing)
    BY <2>1, EventTaken, EventTypes DEF Takes
  <2>3. CASE /\ id \in DOMAIN connections /\ Head(cmQ).via = "Tcp"
             /\ Store(id, WithRequest(id))
             /\ \/ cmQ' = Tail(cmQ) /\ UNCHANGED opened
                \/ /\ opened < MaxStreams
                   /\ opened' = opened + 1
                   /\ cmQ' = Append(Tail(cmQ), [type |-> "NewDataStream",
                                ip |-> connections[id].ip, stream |-> opened + 1])
             /\ Unchecked
    <3>1. WithRequest(id) \in ConnectionResources /\ connections[id].ip \in Ips
      BY <1>4, <2>2, <2>3 DEF TypeOK, ConnectionResources
    <3>2. /\ DOMAIN connections' = DOMAIN connections
          /\ \A i \in DOMAIN connections' : connections'[i] \in ConnectionResources
      BY <2>3, <3>1, Stored
    <3>3. TypeOK'
      BY <2>1, <2>3, <3>2 DEF TypeOK, Unchecked
    <3>4. CASE cmQ' = Tail(cmQ) /\ UNCHANGED opened
      BY <2>1, <2>2, <2>3, <3>3, <3>4 DEF QueuesOK, Unchecked
    <3>5. CASE /\ opened < MaxStreams
               /\ opened' = opened + 1
               /\ cmQ' = Append(Tail(cmQ), [type |-> "NewDataStream",
                             ip |-> connections[id].ip, stream |-> opened + 1])
      <4>1. opened' \in 0..MaxStreams /\ opened + 1 \in Streams
        BY <1>0, <3>5 DEF Streams
      <4>2. [type |-> "NewDataStream", ip |-> connections[id].ip, stream |-> opened + 1]
               \in NewDataStreams
        BY <3>1, <4>1 DEF NewDataStreams
      <4>3. /\ cmQ' \in Seq(Events)
            /\ NumberOf(cmQ', Announcing) = NumberOf(cmQ, Announcing)
        BY <2>2, <3>5, <4>2, EventSent DEF Events
      <4>. QED
        BY <2>1, <2>3, <3>3, <4>1, <4>3 DEF QueuesOK, Unchecked
    <3>. QED
      BY <2>3, <3>4, <3>5
  <2>4. CASE /\ cmQ' = Tail(cmQ) /\ UNCHANGED opened
             /\ \/ Unchecked /\ UNCHANGED connections
                \/ id \in DOMAIN connections /\ CheckNextResourceRequest(id, WithRequest(id))
    <3>1. TypeOK' /\ audioQ' \in Seq(AudioCommands)
      BY <1>4, <2>1, <2>2, <2>4, TypesAfterCheck DEF Unchecked
    <3>. QED
      BY <2>1, <2>2, <2>4, <3>1 DEF QueuesOK
  <2>. QED
    BY <1>6, <2>3, <2>4 DEF HandleConnectToData
<1>7. CASE HandleRemoveDataConnections
  <2>. DEFINE id == Head(cmQ).id
  <2>1. /\ Takes("RemoveDataConnections") /\ cmQ' = Tail(cmQ)
        /\ UNCHANGED <<nextId, envVars>>
    BY <1>7 DEF HandleRemoveDataConnections
  <2>2. /\ Tail(cmQ) \in Seq(Events) /\ id \in Ids /\ id \in Nat
        /\ NumberOf(Tail(cmQ), Announcing) = NumberOf(cmQ, Announcing)
    BY <1>0, <2>1, EventTaken, EventTypes DEF Takes, Removals, Ids
  <2>3. CASE UNCHANGED <<connections, holder, audioQ>>
    BY <2>1, <2>2, <2>3 DEF TypeOK, QueuesOK, envVars
  <2>4. CASE /\ connections' = [i \in DOMAIN connections \ {id} |-> connections[i]]
             /\ holder' = [r \in Resources |-> IF holder[r] = id THEN NoOne ELSE holder[r]]
             /\ audioQ' = WithStop(WithStop(audioQ, "playAudio", id), "sendAudio", id)
    <3>1. \A q \in Seq(AudioCommands), r \in Resources :
             WithStop(q, r, id) \in Seq(AudioCommands)
      <4>1. \A r \in Resources : Stop(r, id) \in AudioCommands
        BY <2>2 DEF Stop, AudioCommands
      <4>. QED
        BY <4>1, Extended DEF WithStop
    <3>2. audioQ' \in Seq(AudioCommands)
      <4>1. WithStop(audioQ, "playAudio", id) \in Seq(AudioCommands)
        BY <3>1 DEF QueuesOK, Resources
      <4>. QED
        BY <2>4, <3>1, <4>1 DEF Resources
    <3>. HIDE DEF id
    <3>3. /\ DOMAIN connections' = DOMAIN connections \ {id}
          /\ \A i \in DOMAIN connections' : connections'[i] = connections[i]
      BY <2>4
    <3>4. holder' \in [Resources -> Ids \cup {NoOne}]
      BY <2>4 DEF TypeOK
    <3>5. TypeOK'
      BY <2>1, <3>3, <3>4 DEF TypeOK, envVars
    <3>. QED
      BY <2>1, <2>2, <3>2, <3>5 DEF QueuesOK, envVars
  <2>. QED
    BY <1>7, <2>3, <2>4 DEF HandleRemoveDataConnections
<1>8. CASE JsonConnectionAsked
  <2>1. PICK e \in Announcing : cmQ' = Append(cmQ, e)
    BY <1>8 DEF JsonConnectionAsked, Sends, Announcing, NewJsonStreams, ConnectTos
  <2>2. /\ asked.connections < MaxIds /\ asked' = [asked EXCEPT !.connections = @ + 1]
        /\ UNCHANGED <<audioQ, managerVars, audio, devices, opened>>
    BY <1>8 DEF JsonConnectionAsked, EnvUnchanged
  <2>3. e \in Events /\ e.type \in {"NewJsonStream", "ConnectTo"}
    BY DEF Announcing, Events, NewJsonStreams, ConnectTos
  <2>4. /\ cmQ' \in Seq(Events) /\ NumberOf(cmQ, Announcing) \in Nat
        /\ NumberOf(cmQ', Announcing) = NumberOf(cmQ, Announcing) + 1
    BY <2>1, <2>3, EventSent DEF QueuesOK
  <2>5. /\ asked' \in [connections : 0..MaxIds, requests : Nat]
        /\ asked'.connections = asked.connections + 1
    BY <1>0, <2>2 DEF QueuesOK
  <2>6. nextId' + NumberOf(cmQ', Announcing) <= asked'.connections
    BY <1>0, <2>2, <2>4, <2>5 DEF QueuesOK, managerVars
  <2>. QED
    BY <2>2, <2>4, <2>5, <2>6 DEF TypeOK, QueuesOK, managerVars
<1>9. CASE DataStreamAccepted
  <2>1. PICK ip \in Ips : cmQ' = Append(cmQ, [type |-> "NewDataStream", ip |-> ip,
                                              stream |-> opened + 1])
    BY <1>9 DEF DataStreamAccepted, Sends
  <2>2. /\ opened < MaxStreams /\ opened' = opened + 1
        /\ UNCHANGED <<audioQ, managerVars, audio, devices, asked>>
    BY <1>9 DEF DataStreamAccepted, EnvUnchanged
  <2>3. opened' \in 0..MaxStreams /\ opened + 1 \in Streams
    BY <1>0, <2>2 DEF Streams
  <2>4. [type |-> "NewDataStream", ip |-> ip, stream |-> opened + 1] \in Events
    BY <2>3 DEF Events, NewDataStreams
  <2>5. cmQ' \in Seq(Events) /\ NumberOf(cmQ', Announcing) = NumberOf(cmQ, Announcing)
    BY <2>1, <2>4, EventSent DEF QueuesOK
  <2>. QED
    BY <2>2, <2>3, <2>5 DEF TypeOK, QueuesOK, managerVars
<1>10. CASE DeviceRequests \/ DeviceRemoved
  <2>1. PICK e \in SetNexts \cup ConnectToDatas \cup Removals : cmQ' = Append(cmQ, e)
    <3>1. devices \subseteq Ids
      BY DEF TypeOK
    <3>2. \A id : SendTransport(id) \in Transports
      BY DEF SendTransport, Transports
    <3>3. CASE DeviceRequests
      BY <3>1, <3>2, <3>3 DEF DeviceRequests, Sends, SetNexts, ConnectToDatas
    <3>4. CASE DeviceRemoved
      BY <3>1, <3>4 DEF DeviceRemoved, Sends, Removals
    <3>. QED
      BY <1>10, <3>3, <3>4
  <2>2. /\ devices' \subseteq devices
        /\ asked' \in {asked, [asked EXCEPT !.requests = @ + 1]}
        /\ UNCHANGED <<audioQ, managerVars, audio, opened>>
    BY <1>10 DEF DeviceRequests, DeviceRemoved, EnvUnchanged
  <2>3. e \in Events /\ e.type \notin {"NewJsonStream", "ConnectTo"}
    BY DEF Events, SetNexts, ConnectToDatas, Removals
  <2>4. cmQ' \in Seq(Events) /\ NumberOf(cmQ', Announcing) = NumberOf(cmQ, Announcing)
    BY <2>1, <2>3, EventSent DEF QueuesOK
  <2>5. /\ asked' \in [connections : 0..MaxIds, requests : Nat]
        /\ asked'.connections = asked.connections
    BY <1>0, <2>2 DEF QueuesOK
  <2>. QED
    BY <2>2, <2>4, <2>5 DEF TypeOK, QueuesOK, managerVars
<1>11. CASE AudioManagerTakes
  <2>1. /\ audioQ # <<>> /\ audioQ' = Tail(audioQ)
        /\ audio' = [audio EXCEPT ![Head(audioQ).resource] = Serves(Head(audioQ))]
        /\ UNCHANGED <<cmQ, managerVars, devices, opened, asked>>
    BY <1>11 DEF AudioManagerTakes
  <2>2. Head(audioQ) \in AudioCommands /\ audioQ' \in Seq(AudioCommands)
    BY <2>1, Removed DEF QueuesOK
  <2>3. audio' \in [Resources -> Ids \cup {NoOne}]
    BY <2>1, <2>2 DEF TypeOK, AudioCommands, Serves
  <2>. QED
    BY <2>1, <2>2, <2>3 DEF TypeOK, QueuesOK, managerVars
<1>12. CASE UsbManagerTakes \/ UNCHANGED vars
  <2>1. UNCHANGED <<cmQ, audioQ, managerVars, envVars>>
    BY <1>12 DEF UsbManagerTakes, vars
  <2>. QED
    BY <2>1 DEF TypeOK, QueuesOK, managerVars, envVars
<1>. QED
  BY <1>1, <1>2, <1>3, <1>5, <1>6, <1>7, <1>8, <1>9, <1>10, <1>11, <1>12
     DEF Next, Manager, Neighbours

(* The connections alive have ids that were given out, their resources and *)
(* the holders are of their types, and no more ids are given out than      *)
(* connections were asked for (connection.rs:496-520, 585-596).            *)
THEOREM ManagerTypeCorrect == Spec => []TypeOK
<1>1. TypeOK /\ QueuesOK /\ [Next]_vars => (TypeOK /\ QueuesOK)'
  BY TypesStep
<1>. QED
  BY TypesStart, <1>1, PTL DEF Spec
-----------------------------------------------------------------------------
(* A request for TCP and a stream that could serve it never wait together. *)
LEMMA NoMissedMatchStep ==
  ASSUME TypeOK, QueuesOK, NoMissedMatch, [Next]_vars
  PROVE  NoMissedMatch'
<1>. DEFINE Unmatched(c) == c.pending # Nothing =>
                c.request # [resource |-> "sendAudio", via |-> "Tcp"]
<1>0. NoMissedMatch <=> \A i \in DOMAIN connections : Unmatched(connections[i])
  BY DEF NoMissedMatch
<1>1. NoMissedMatch' <=> \A i \in DOMAIN connections' : Unmatched(connections'[i])
  BY DEF NoMissedMatch
<1>2. ASSUME NEW id \in DOMAIN connections, NEW c \in ConnectionResources,
             CheckNextResourceRequest(id, c)
      PROVE  NoMissedMatch'
  <2>1. PICK d \in ConnectionResources :
           /\ connections' = [i \in DOMAIN connections |-> IF i = id THEN d ELSE connections[i]]
           /\ Unmatched(d)
    BY <1>2, CheckResult
  <2>. HIDE DEF Unmatched
  <2>. QED
    BY <1>0, <1>1, <2>1
<1>3. ASSUME NEW id, NEW c, Store(id, c), Unmatched(c) PROVE NoMissedMatch'
  <2>1. connections' = [i \in DOMAIN connections \cup {id} |->
                           IF i = id THEN c ELSE connections[i]]
    BY <1>3 DEF Store
  <2>. HIDE DEF Unmatched
  <2>. QED
    BY <1>0, <1>1, <1>3, <2>1
<1>4. CASE UNCHANGED connections
  BY <1>4 DEF NoMissedMatch
<1>5. CASE HandleNewJsonStream
  <2>1. Store(nextId, [ip |-> Head(cmQ).ip, usb |-> Head(cmQ).usb,
                       pending |-> Nothing, request |-> Nothing])
    BY <1>5 DEF HandleNewJsonStream
  <2>. QED
    BY <1>3, <2>1
<1>6. CASE HandleNewDataStream
  <2>1. Head(cmQ) \in NewDataStreams
    BY <1>6, EventTaken, EventTypes DEF HandleNewDataStream, Takes
  <2>2. \A id \in DOMAIN connections :
           [connections[id] EXCEPT !.pending = Head(cmQ).stream] \in ConnectionResources
    BY <2>1 DEF TypeOK, ConnectionResources, NewDataStreams
  <2>. QED
    BY <1>2, <1>4, <1>6, <2>2 DEF HandleNewDataStream
<1>7. ASSUME NEW id \in DOMAIN connections, Head(cmQ) \in SetNexts \cup ConnectToDatas
      PROVE  WithRequest(id) \in ConnectionResources
  BY <1>7, RequestTyped
<1>8. CASE HandleSetNextResourceRequest
  <2>1. Head(cmQ) \in SetNexts
    BY <1>8, EventTaken, EventTypes DEF HandleSetNextResourceRequest, Takes
  <2>. QED
    BY <1>2, <1>4, <1>7, <1>8, <2>1 DEF HandleSetNextResourceRequest
<1>9. CASE HandleConnectToData
  <2>1. Head(cmQ) \in ConnectToDatas
    BY <1>9, EventTaken, EventTypes DEF HandleConnectToData, Takes
  <2>2. ASSUME NEW id \in DOMAIN connections PROVE Unmatched(WithRequest(id))
    <3>1. connections[id] \in ConnectionResources /\ Head(cmQ).resource = "playAudio"
      BY <2>1 DEF TypeOK, ConnectToDatas
    <3>2. WithRequest(id).request.resource = "playAudio"
      BY <3>1 DEF WithRequest, ConnectionResources
    <3>. QED
      BY <3>2
  <2>. HIDE DEF Unmatched
  <2>. QED
    BY <1>2, <1>3, <1>4, <1>7, <1>9, <2>1, <2>2 DEF HandleConnectToData
<1>10. CASE HandleRemoveDataConnections
  <2>1. \/ UNCHANGED connections
        \/ \E id : connections' = [i \in DOMAIN connections \ {id} |-> connections[i]]
    BY <1>10 DEF HandleRemoveDataConnections
  <2>. HIDE DEF Unmatched
  <2>. QED
    BY <1>0, <1>1, <1>4, <2>1
<1>11. CASE HandleConnectTo \/ Neighbours \/ UNCHANGED vars
  <2>1. UNCHANGED connections
    BY <1>11 DEF HandleConnectTo, managerVars, vars, Neighbours, JsonConnectionAsked,
                 DataStreamAccepted, DeviceRequests, DeviceRemoved, AudioManagerTakes,
                 UsbManagerTakes, EnvUnchanged
  <2>. QED
    BY <1>4, <2>1
<1>. QED
  BY <1>5, <1>6, <1>8, <1>9, <1>10, <1>11 DEF Next, Manager

(* Whichever comes first, the request to send audio over TCP or the stream *)
(* it is to use, the two meet (connection.rs:206-262, 530-583).            *)
THEOREM RequestsMeetStreams == Spec => []NoMissedMatch
<1>. DEFINE MInv == TypeOK /\ QueuesOK /\ NoMissedMatch
<1>1. Init => MInv
  <2>1. Init => NoMissedMatch
    BY DEF Init, NoMissedMatch
  <2>. QED
    BY <2>1, TypesStart
<1>2. MInv /\ [Next]_vars => MInv'
  BY TypesStep, NoMissedMatchStep
<1>. QED
  BY <1>1, <1>2, PTL DEF Spec
-----------------------------------------------------------------------------
(* ServesAfter for any commands q and states a.                            *)
LastIn(q, a, r, n, c) ==
    \/ \E k \in 1..n : /\ q[k].resource = r /\ Serves(q[k]) = c
                       /\ \A m \in (k + 1) .. n : q[m].resource # r
    \/ a[r] = c /\ \A m \in 1..n : q[m].resource # r

(* After the first n commands resource r serves connection h or nobody.    *)
ServesOnly(q, a, r, n, h) == LastIn(q, a, r, n, NoOne) \/ LastIn(q, a, r, n, h)

(* A start finds the resource silent, a stop the stream it is meant for.   *)
Finds(q, a, r, n, x) ==
    IF x.command = "on" THEN LastIn(q, a, r, n, NoOne) ELSE ServesOnly(q, a, r, n, x.id)

Orderly(q, a) == \A i \in 1..Len(q) : Finds(q, a, q[i].resource, i - 1, q[i])

(* After a command is added, what the others leave stands, and it is the   *)
(* last for its resource.                                                  *)
LEMMA CommandAdded ==
  ASSUME NEW q \in Seq(AudioCommands), NEW a, NEW x \in AudioCommands
  PROVE  /\ Orderly(q, a) /\ Finds(q, a, x.resource, Len(q), x) => Orderly(Append(q, x), a)
         /\ \A r, c : \/ r = x.resource /\ Serves(x) = c
                      \/ r # x.resource /\ LastIn(q, a, r, Len(q), c)
               => LastIn(Append(q, x), a, r, Len(Append(q, x)), c)
<1>. DEFINE p == Append(q, x)
            n == Len(q)
<1>1. /\ n \in Nat /\ Len(p) = n + 1
      /\ p[n + 1] = x /\ \A i \in 1..n : p[i] = q[i]
  BY AppendProperties, LenProperties
<1>. HIDE DEF p
<1>2. ASSUME NEW r, NEW c, NEW j \in 0..n, LastIn(q, a, r, j, c) PROVE LastIn(p, a, r, j, c)
  <2>0. \A i \in 1..j : p[i] = q[i]
    BY <1>1
  <2>1. CASE \E k \in 1..j : /\ q[k].resource = r /\ Serves(q[k]) = c
                             /\ \A m \in (k + 1) .. j : q[m].resource # r
    <3>1. PICK k \in 1..j : /\ q[k].resource = r /\ Serves(q[k]) = c
                            /\ \A m \in (k + 1) .. j : q[m].resource # r
      BY <2>1
    <3>2. \A m \in (k + 1) .. j : m \in 1..j
      OBVIOUS
    <3>3. \A m \in (k + 1) .. j : p[m].resource # r
      BY <2>0, <3>1, <3>2
    <3>. QED
      BY <2>0, <3>1, <3>3 DEF LastIn
  <2>2. CASE a[r] = c /\ \A m \in 1..j : q[m].resource # r
    BY <2>0, <2>2 DEF LastIn
  <2>. QED
    BY <1>2, <2>1, <2>2 DEF LastIn
<1>3. \A r, y : \A j \in 0..n : Finds(q, a, r, j, y) => Finds(p, a, r, j, y)
  BY <1>2 DEF Finds, ServesOnly
<1>4. ASSUME Orderly(q, a), Finds(q, a, x.resource, n, x) PROVE Orderly(p, a)
  <2>. SUFFICES ASSUME NEW i \in 1..(n + 1)
                PROVE  Finds(p, a, p[i].resource, i - 1, p[i])
    BY <1>1 DEF Orderly
  <2>1. CASE i = n + 1
    <3>1. i - 1 = n /\ n \in 0..n /\ p[i] = x
      BY <1>1, <2>1
    <3>. QED
      BY <1>3, <1>4, <3>1
  <2>2. CASE i # n + 1
    <3>1. i \in 1..n /\ i - 1 \in 0..n /\ p[i] = q[i]
      BY <1>1, <2>2
    <3>2. Finds(q, a, q[i].resource, i - 1, q[i])
      BY <1>4, <3>1 DEF Orderly
    <3>. QED
      BY <1>3, <3>1, <3>2
  <2>. QED
    BY <2>1, <2>2
<1>5. ASSUME NEW r, NEW c, r = x.resource, Serves(x) = c PROVE LastIn(p, a, r, n + 1, c)
  <2>1. n + 1 \in 1..(n + 1) /\ \A m \in (n + 1 + 1)..(n + 1) : FALSE
    BY <1>1
  <2>. QED
    BY <1>1, <1>5, <2>1 DEF LastIn
<1>6. ASSUME NEW r, NEW c, r # x.resource, LastIn(q, a, r, n, c) PROVE LastIn(p, a, r, n + 1, c)
  <2>0. LastIn(p, a, r, n, c)
    BY <1>1, <1>2, <1>6
  <2>1. CASE \E k \in 1..n : /\ p[k].resource = r /\ Serves(p[k]) = c
                             /\ \A m \in (k + 1) .. n : p[m].resource # r
    <3>1. PICK k \in 1..n : /\ p[k].resource = r /\ Serves(p[k]) = c
                            /\ \A m \in (k + 1) .. n : p[m].resource # r
      BY <2>1
    <3>2. \A m \in (k + 1) .. (n + 1) : m \in (k + 1)..n \/ m = n + 1
      BY <1>1
    <3>3. k \in 1..(n + 1) /\ \A m \in (k + 1) .. (n + 1) : p[m].resource # r
      BY <1>1, <1>6, <3>1, <3>2
    <3>. QED
      BY <3>1, <3>3 DEF LastIn
  <2>2. CASE a[r] = c /\ \A m \in 1..n : p[m].resource # r
    <3>1. \A m \in 1..(n + 1) : m \in 1..n \/ m = n + 1
      BY <1>1
    <3>2. \A m \in 1..(n + 1) : p[m].resource # r
      BY <1>1, <1>6, <2>2, <3>1
    <3>. QED
      BY <2>2, <3>2 DEF LastIn
  <2>. QED
    BY <2>0, <2>1, <2>2 DEF LastIn
<1>. QED
  BY <1>1, <1>4, <1>5, <1>6 DEF p

(* Carrying out the first command changes nothing of what they leave.      *)
LEMMA CommandTaken ==
  ASSUME NEW q \in Seq(AudioCommands), q # <<>>, NEW a \in [Resources -> Ids \cup {NoOne}],
         NEW b, b = [a EXCEPT ![Head(q).resource] = Serves(Head(q))]
  PROVE  /\ Orderly(q, a) => Orderly(Tail(q), b)
         /\ \A r \in Resources : \A c :
               LastIn(q, a, r, Len(q), c) => LastIn(Tail(q), b, r, Len(Tail(q)), c)
<1>. DEFINE p == Tail(q)
            n == Len(p)
<1>1. /\ n \in Nat /\ Len(q) = n + 1 /\ p \in Seq(AudioCommands)
      /\ \A i \in 1..n : p[i] = q[i + 1]
      /\ Head(q) = q[1] /\ Head(q) \in AudioCommands
  BY HeadTailProperties, LenProperties, EmptySeq
<1>. HIDE DEF p
<1>2. /\ q[1].resource \in Resources
      /\ b[q[1].resource] = Serves(q[1])
      /\ \A r \in Resources : r # q[1].resource => b[r] = a[r]
  BY <1>1 DEF AudioCommands
<1>3. ASSUME NEW r \in Resources, NEW c, NEW j \in 0..n, LastIn(q, a, r, j + 1, c)
      PROVE  LastIn(p, b, r, j, c)
  <2>0. \A m \in 1..j : m \in 1..n /\ m + 1 \in 1..(j + 1)
    BY <1>1
  <2>1. CASE \E k \in 1..(j + 1) : /\ q[k].resource = r /\ Serves(q[k]) = c
                                  /\ \A m \in (k + 1) .. (j + 1) : q[m].resource # r
    <3>1. PICK k \in 1..(j + 1) : /\ q[k].resource = r /\ Serves(q[k]) = c
                                  /\ \A m \in (k + 1) .. (j + 1) : q[m].resource # r
      BY <2>1
    <3>2. CASE k = 1
      <4>1. \A m \in 1..j : m + 1 \in (k + 1)..(j + 1)
        BY <3>2
      <4>2. \A m \in 1..j : p[m].resource # r
        BY <1>1, <2>0, <3>1, <4>1
      <4>. QED
        BY <1>2, <3>1, <3>2, <4>2 DEF LastIn
    <3>3. CASE k # 1
      <4>1. /\ k - 1 \in 1..j /\ (k - 1) + 1 = k
            /\ \A m \in k..j : m + 1 \in (k + 1)..(j + 1) /\ m \in 1..j
        BY <3>3
      <4>2. p[k - 1] = q[k] /\ \A m \in k..j : p[m] = q[m + 1]
        BY <1>1, <2>0, <4>1
      <4>3. \A m \in ((k - 1) + 1)..j : p[m].resource # r
        BY <3>1, <4>1, <4>2
      <4>. QED
        BY <3>1, <4>1, <4>2, <4>3 DEF LastIn
    <3>. QED
      BY <3>2, <3>3
  <2>2. CASE a[r] = c /\ \A m \in 1..(j + 1) : q[m].resource # r
    <3>1. q[1].resource # r
      BY <2>2
    <3>2. \A m \in 1..j : p[m].resource # r
      BY <1>1, <2>0, <2>2
    <3>. QED
      BY <1>2, <2>2, <3>1, <3>2 DEF LastIn
  <2>. QED
    BY <1>3, <2>1, <2>2 DEF LastIn
<1>4. ASSUME Orderly(q, a) PROVE Orderly(p, b)
  <2>. SUFFICES ASSUME NEW i \in 1..n
                PROVE  Finds(p, b, p[i].resource, i - 1, p[i])
    BY DEF Orderly
  <2>1. /\ i + 1 \in 1..Len(q) /\ (i + 1) - 1 = (i - 1) + 1 /\ i - 1 \in 0..n
        /\ p[i] = q[i + 1]
    BY <1>1
  <2>2. p[i] \in AudioCommands
    BY <1>1, ElementOfSeq
  <2>3. p[i].resource \in Resources
    BY <2>2 DEF AudioCommands
  <2>4. Finds(q, a, p[i].resource, (i - 1) + 1, p[i])
    BY <1>4, <2>1 DEF Orderly
  <2>. QED
    BY <1>3, <2>1, <2>3, <2>4 DEF Finds, ServesOnly
<1>5. n \in 0..n
  BY <1>1
<1>6. \A r \in Resources : \A c : LastIn(q, a, r, Len(q), c) => LastIn(p, b, r, n, c)
  BY <1>1, <1>3, <1>5
<1>. QED
  BY <1>4, <1>6 DEF p

(* A resource serves its holder or nobody: that makes the order inductive. *)
AudioInv ==
    /\ Orderly(audioQ, audio)
    /\ \A r \in Resources : ServesOnly(audioQ, audio, r, Len(audioQ), holder[r])

LEMMA AudioProperties ==
  QueuesOK /\ AudioInv => StartsAreSeparated /\ StopsReachOwnStream /\ FreeResourceIsSilent
<1>. SUFFICES ASSUME QueuesOK, AudioInv
              PROVE  StartsAreSeparated /\ StopsReachOwnStream /\ FreeResourceIsSilent
  OBVIOUS
<1>1. DOMAIN audioQ = 1..Len(audioQ)
  BY LenProperties DEF QueuesOK
<1>2. \A r, n, c : ServesAfter(r, n, c) <=> LastIn(audioQ, audio, r, n, c)
  BY DEF ServesAfter, LastIn
<1>3. StartsAreSeparated
  BY <1>1, <1>2 DEF AudioInv, Orderly, Finds, StartsAreSeparated
<1>4. StopsReachOwnStream
  <2>. SUFFICES ASSUME NEW i \in DOMAIN audioQ, audioQ[i].command = "off"
                PROVE  \E id \in {NoOne, audioQ[i].id} :
                          ServesAfter(audioQ[i].resource, i - 1, id)
    BY DEF StopsReachOwnStream
  <2>1. ServesOnly(audioQ, audio, audioQ[i].resource, i - 1, audioQ[i].id)
    BY <1>1 DEF AudioInv, Orderly, Finds
  <2>. QED
    BY <1>2, <2>1 DEF ServesOnly
<1>5. FreeResourceIsSilent
  BY <1>2 DEF AudioInv, ServesOnly, FreeResourceIsSilent
<1>. QED
  BY <1>3, <1>4, <1>5

LEMMA AudioAfterCheck ==
  ASSUME TypeOK, QueuesOK, AudioInv, UNCHANGED audio,
         NEW id \in DOMAIN connections, NEW c \in ConnectionResources,
         CheckNextResourceRequest(id, c)
  PROVE  AudioInv'
<1>0. id \in Ids
  BY BoundsAssumption DEF TypeOK, Ids
<1>1. CASE UNCHANGED <<holder, audioQ>>
  BY <1>1 DEF AudioInv
<1>2. ASSUME NEW r \in Resources, holder[r] = NoOne, holder' = [holder EXCEPT ![r] = id],
             audioQ' = audioQ \/ audioQ' = Append(audioQ, Start(r, id))
      PROVE  AudioInv'
  <2>1. /\ holder'[r] = id /\ LastIn(audioQ, audio, r, Len(audioQ), NoOne)
        /\ \A s \in Resources : s # r => holder'[s] = holder[s]
    BY <1>2 DEF TypeOK, AudioInv, ServesOnly
  <2>2. CASE audioQ' = audioQ
    BY <2>1, <2>2 DEF AudioInv, ServesOnly
  <2>3. CASE audioQ' = Append(audioQ, Start(r, id))
    <3>. DEFINE x == Start(r, id)
                q == Append(audioQ, x)
    <3>1. x \in AudioCommands /\ x.resource = r /\ x.command = "on" /\ Serves(x) = id
      BY <1>0 DEF Start, AudioCommands, Serves
    <3>. HIDE DEF x
    <3>2. Finds(audioQ, audio, x.resource, Len(audioQ), x)
      BY <2>1, <3>1 DEF Finds
    <3>3. Orderly(q, audio)
      BY <3>1, <3>2, CommandAdded DEF QueuesOK, AudioInv
    <3>4. \A s, h : \/ s = r /\ h = id
                    \/ s # r /\ LastIn(audioQ, audio, s, Len(audioQ), h)
             => LastIn(q, audio, s, Len(q), h)
      BY <3>1, CommandAdded DEF QueuesOK
    <3>5. audioQ' = q
      BY <2>3 DEF x
    <3>. HIDE DEF q
    <3>6. \A s \in Resources : ServesOnly(q, audio, s, Len(q), holder'[s])
      BY <2>1, <3>4 DEF AudioInv, ServesOnly
    <3>. QED
      BY <3>3, <3>5, <3>6 DEF AudioInv
  <2>. QED
    BY <1>2, <2>2, <2>3
<1>. QED
  BY <1>1, <1>2, CheckEffect

LEMMA StopAdded ==
  ASSUME NEW q \in Seq(AudioCommands), NEW r \in Resources, NEW id \in Ids,
         ServesOnly(q, audio, r, Len(q), holder[r])
  PROVE  LET p == WithStop(q, r, id) IN
         /\ p \in Seq(AudioCommands)
         /\ Orderly(q, audio) => Orderly(p, audio)
         /\ \A s, h : ServesOnly(q, audio, s, Len(q), h) => ServesOnly(p, audio, s, Len(p), h)
         /\ holder[r] = id => LastIn(p, audio, r, Len(p), NoOne)
<1>. DEFINE x == Stop(r, id)
            p == Append(q, x)
<1>1. x \in AudioCommands /\ x.resource = r /\ x.command = "off" /\ x.id = id /\ Serves(x) = NoOne
  BY DEF Stop, AudioCommands, Serves
<1>2. WithStop(q, r, id) = IF holder[r] = id THEN p ELSE q
  BY DEF WithStop
<1>. HIDE DEF x
<1>3. p \in Seq(AudioCommands)
  BY <1>1, Extended
<1>4. holder[r] = id /\ Orderly(q, audio) => Orderly(p, audio)
  <2>1. holder[r] = id => Finds(q, audio, x.resource, Len(q), x)
    BY <1>1 DEF Finds
  <2>. QED
    BY <1>1, <2>1, CommandAdded
<1>5. \A s, h : \/ s = r /\ h = NoOne
                \/ s # r /\ LastIn(q, audio, s, Len(q), h)
         => LastIn(p, audio, s, Len(p), h)
  BY <1>1, CommandAdded
<1>. HIDE DEF p
<1>6. \A s, h : ServesOnly(q, audio, s, Len(q), h) => ServesOnly(p, audio, s, Len(p), h)
  BY <1>5 DEF ServesOnly
<1>. QED
  BY <1>2, <1>3, <1>4, <1>5, <1>6

LEMMA AudioStep ==
  ASSUME TypeOK, QueuesOK, AudioInv, [Next]_vars
  PROVE  AudioInv'
<1>1. CASE UNCHANGED <<holder, audioQ, audio>>
  BY <1>1 DEF AudioInv
<1>2. CASE HandleNewJsonStream \/ HandleConnectTo \/ JsonConnectionAsked
           \/ DataStreamAccepted \/ DeviceRequests \/ DeviceRemoved \/ UsbManagerTakes
           \/ UNCHANGED vars
  <2>1. UNCHANGED <<holder, audioQ, audio>>
    BY <1>2 DEF HandleNewJsonStream, HandleConnectTo, Unchecked, JsonConnectionAsked,
                DataStreamAccepted, DeviceRequests, DeviceRemoved, UsbManagerTakes,
                EnvUnchanged, vars, managerVars, envVars
  <2>. QED
    BY <1>1, <2>1
<1>3. CASE HandleNewDataStream
  <2>1. Head(cmQ) \in NewDataStreams /\ UNCHANGED audio
    BY <1>3, EventTaken, EventTypes DEF HandleNewDataStream, Takes, envVars
  <2>2. \A id \in DOMAIN connections :
           [connections[id] EXCEPT !.pending = Head(cmQ).stream] \in ConnectionResources
    BY <2>1 DEF TypeOK, ConnectionResources, NewDataStreams
  <2>. QED
    BY <1>1, <1>3, <2>1, <2>2, AudioAfterCheck DEF HandleNewDataStream, Unchecked
<1>4. ASSUME NEW id \in DOMAIN connections, Head(cmQ) \in SetNexts \cup ConnectToDatas
      PROVE  WithRequest(id) \in ConnectionResources
  BY <1>4, RequestTyped
<1>5. CASE HandleSetNextResourceRequest
  <2>1. Head(cmQ) \in SetNexts /\ UNCHANGED audio
    BY <1>5, EventTaken, EventTypes DEF HandleSetNextResourceRequest, Takes, envVars
  <2>. QED
    BY <1>1, <1>4, <1>5, <2>1, AudioAfterCheck DEF HandleSetNextResourceRequest, Unchecked
<1>6. CASE HandleConnectToData
  <2>1. Head(cmQ) \in ConnectToDatas /\ UNCHANGED audio
    BY <1>6, EventTaken, EventTypes DEF HandleConnectToData, Takes
  <2>2. CASE Unchecked
    BY <1>1, <2>1, <2>2 DEF Unchecked
  <2>. QED
    BY <1>4, <1>6, <2>1, <2>2, AudioAfterCheck DEF HandleConnectToData
<1>7. CASE HandleRemoveDataConnections
  <2>1. CASE UNCHANGED <<holder, audioQ>>
    BY <1>1, <1>7, <2>1 DEF HandleRemoveDataConnections, envVars
  <2>2. CASE ~UNCHANGED <<holder, audioQ>>
    <3>0. PICK id : id = Head(cmQ).id
      OBVIOUS
    <3>1. /\ holder' = [r \in Resources |-> IF holder[r] = id THEN NoOne ELSE holder[r]]
          /\ audioQ' = WithStop(WithStop(audioQ, "playAudio", id), "sendAudio", id)
          /\ UNCHANGED audio /\ Takes("RemoveDataConnections")
      BY <1>7, <2>2, <3>0 DEF HandleRemoveDataConnections, envVars
    <3>2. id \in Ids
      BY <3>0, <3>1, EventTaken, EventTypes DEF Takes, Removals
    <3>. DEFINE q == WithStop(audioQ, "playAudio", id)
                p == WithStop(q, "sendAudio", id)
    <3>3. "playAudio" \in Resources /\ "sendAudio" \in Resources
          /\ \A r \in Resources : r = "playAudio" \/ r = "sendAudio"
      BY DEF Resources
    <3>4. /\ q \in Seq(AudioCommands) /\ Orderly(q, audio)
          /\ \A s \in Resources : ServesOnly(q, audio, s, Len(q), holder[s])
          /\ \A s : ServesOnly(audioQ, audio, s, Len(audioQ), NoOne)
                       => ServesOnly(q, audio, s, Len(q), NoOne)
          /\ holder["playAudio"] = id => ServesOnly(q, audio, "playAudio", Len(q), NoOne)
      BY <3>2, <3>3, StopAdded DEF QueuesOK, AudioInv, ServesOnly
    <3>. HIDE DEF q
    <3>5. /\ Orderly(p, audio)
          /\ \A s, h : ServesOnly(q, audio, s, Len(q), h) => ServesOnly(p, audio, s, Len(p), h)
          /\ holder["sendAudio"] = id => ServesOnly(p, audio, "sendAudio", Len(p), NoOne)
      BY <3>2, <3>3, <3>4, StopAdded DEF ServesOnly
    <3>6. audioQ' = p
      BY <3>1 DEF q
    <3>. HIDE DEF p
    <3>7. ASSUME NEW r \in Resources PROVE ServesOnly(p, audio, r, Len(p), holder'[r])
      <4>1. CASE holder[r] = id
        <5>1. holder'[r] = NoOne
          BY <3>1, <4>1
        <5>. QED
          BY <3>3, <3>4, <3>5, <4>1, <5>1
      <4>2. CASE holder[r] # id
        BY <3>1, <3>4, <3>5, <4>2
      <4>. QED
        BY <4>1, <4>2
    <3>. QED
      BY <3>1, <3>5, <3>6, <3>7 DEF AudioInv
  <2>. QED
    BY <2>1, <2>2
<1>8. CASE AudioManagerTakes
  <2>1. /\ audioQ # <<>> /\ audioQ' = Tail(audioQ) /\ UNCHANGED holder
        /\ audio' = [audio EXCEPT ![Head(audioQ).resource] = Serves(Head(audioQ))]
    BY <1>8 DEF AudioManagerTakes, managerVars
  <2>2. audioQ \in Seq(AudioCommands) /\ audio \in [Resources -> Ids \cup {NoOne}]
    BY DEF TypeOK, QueuesOK
  <2>3. /\ Orderly(Tail(audioQ), audio')
        /\ \A r \in Resources : \A c : LastIn(audioQ, audio, r, Len(audioQ), c)
              => LastIn(Tail(audioQ), audio', r, Len(Tail(audioQ)), c)
    BY <2>1, <2>2, CommandTaken DEF AudioInv
  <2>. QED
    BY <2>1, <2>3 DEF AudioInv, ServesOnly
<1>. QED
  BY <1>2, <1>3, <1>5, <1>6, <1>7, <1>8 DEF Next, Manager, Neighbours

LEMMA AudioInvariant == Spec => [](QueuesOK /\ AudioInv)
<1>. DEFINE AInv == TypeOK /\ QueuesOK /\ AudioInv
<1>1. Init => AInv
  <2>. SUFFICES ASSUME Init PROVE AudioInv
    BY TypesStart
  <2>1. audioQ = <<>> /\ Len(audioQ) = 0
        /\ \A r \in Resources : audio[r] = NoOne /\ holder[r] = NoOne
    BY EmptySeq DEF Init
  <2>. QED
    BY <2>1 DEF AudioInv, Orderly, ServesOnly, LastIn
<1>2. AInv /\ [Next]_vars => AInv'
  BY TypesStep, AudioStep
<1>. QED
  BY <1>1, <1>2, PTL DEF Spec

(* Two starts of a resource always have a stop between them, although stop *)
(* events name no connection (connection.rs:114-150).                      *)
THEOREM StartsSeparated == Spec => []StartsAreSeparated
BY AudioInvariant, AudioProperties, PTL

(* A stop stops the stream of the connection that is removed or none, and  *)
(* not that of its successor (connection.rs:134-150).                      *)
THEOREM StopsOwn == Spec => []StopsReachOwnStream
BY AudioInvariant, AudioProperties, PTL

(* Once the commands under way are carried out, a resource without a       *)
(* holder is silent (connection.rs:134-150).                               *)
THEOREM FreeResourcesSilent == Spec => []FreeResourceIsSilent
BY AudioInvariant, AudioProperties, PTL
=============================================================================
