----------------------- MODULE DeviceLifecycle_proofs -----------------------
(***************************************************************************)
(* Theorems about the life of device connections: the two managers agree,  *)
(* a removal finds its device, no task is lost and the UI is told the      *)
(* truth.  All of them rest on what can be on its way through the router,  *)
(* whose messages are counted: at most one announcement, one request for   *)
(* removal and one release of a connection, each at its time.              *)
(***************************************************************************)
EXTENDS DeviceLifecycle, QueueLemmas

(* The messages that are really sent.                                      *)
Announcement(id) == Message("dm", "NewDeviceConnection", id)
Removal(id) == Message("dm", "RemoveConnection", id)
Release(id) == Message("cm", "RemoveDataConnections", id)
Connecting == {Message("cm", "NewJsonStream", NoId), Message("cm", "ConnectTo", NoId)}
Broadcasts == {Message("dm", "DisconnectAllDevices", NoId),
               Message("dm", "RunDeviceConnectionPing", NoId)}
UiEvents(id) == {Message("ui", "ConnectionEstablished", id), Message("ui", "ConnectionError", id)}
LastWord == Message("ui", "AllDevicesAreNowDisconnected", NoId)

Sent ==
    Connecting \cup Broadcasts \cup {LastWord}
    \cup UNION {{Announcement(id), Removal(id), Release(id)} \cup UiEvents(id) : id \in Ids}

DmBusy == [pc : {"idle", "broadcast", "release", "awaitEnd", "announce", "quit", "quitAwait"},
           id : Ids \cup {NoId}, event : {"none", "Disconnect", "SendPing"},
           todo : SUBSET Ids]
DstStates ==
    {"absent", "starting", "serving", "sending", "failed", "leaving", "waiting", "ended"}

RouterTyped ==
    /\ rQ \in Seq(Sent) /\ Len(rQ) <= ChannelSize
    /\ held \in Seq(Sent) /\ Len(held) <= 1
    /\ chan \in [Components -> Seq(Sent)]
    /\ \A c \in Components : /\ Len(chan[c]) <= ChannelSize
                             /\ \A i \in 1..Len(chan[c]) : chan[c][i].to = c

Typed ==
    /\ cmOut \in Seq(Connecting \cup {Announcement(id) : id \in Ids}) /\ Len(cmOut) <= 1
    /\ uiOut \in Seq(Connecting \cup Broadcasts) /\ Len(uiOut) <= 1
    /\ running \subseteq Components \cup {"router"}
    /\ phase \in {"running", "quitting", "closingRouter", "done", "panicked"}
    /\ asked \in [connections : 0..MaxDevices, requests : 0..MaxRequests]
    /\ nextId \in Nat /\ cmConns \subseteq 0 .. (nextId - 1)
    /\ dmConns \subseteq Ids /\ dstQuit \subseteq Ids
    /\ dst \in [Ids -> DstStates]
    /\ evQ \in [Ids -> Seq({"Disconnect", "SendPing"})]
    /\ \A id \in Ids : Len(evQ[id]) <= ChannelSize
    /\ dm \in DmBusy

(* How many messages of S, all of them for component c, are on their way.  *)
Transit(c, S) == NumberOf(rQ, S) + NumberOf(held, S) + NumberOf(chan[c], S)

Announcements(id) == Transit("dm", {Announcement(id)}) + NumberOf(cmOut, {Announcement(id)})
One(b) == IF b THEN 1 ELSE 0
Removals(id) == Transit("dm", {Removal(id)}) + One(dm.pc = "release" /\ dm.id = id)

(* Each connection that was asked for is numbered at most once.            *)
Numbered ==
    Transit("cm", Connecting) + NumberOf(cmOut, Connecting) + NumberOf(uiOut, Connecting)
      + nextId <= asked.connections

(* A connection that is announced, or not numbered yet, is a new one.      *)
Fresh ==
    \A id \in Ids :
        /\ Announcements(id) <= 1 /\ (id >= nextId => Announcements(id) = 0)
        /\ id >= nextId \/ Announcements(id) = 1 => dst[id] = "absent"
        /\ dst[id] = "absent" => id \notin dmConns \cup dstQuit

(* Until the DeviceManager quits, it tells a task to quit only when it is  *)
(* removed, and a removal under way is the only one of a waiting task.     *)
Quitting == dm.pc \in {"quit", "quitAwait"}
RemovalsInOrder ==
    ~Quitting =>
        \A id \in Ids :
            /\ Removals(id) <= 1
            /\ Removals(id) = 1 => id \in dmConns /\ dst[id] = "waiting"
            /\ id \in dstQuit => id \notin dmConns /\ dst[id] \in {"waiting", "ended"}

(* Where the handler of the DeviceManager waits.                           *)
DmInOrder ==
    /\ dm.todo \subseteq dmConns /\ (dm.pc # "broadcast" => dm.todo = {})
    /\ dm.pc = "broadcast" => dm.event # "none"
    /\ dm.pc \in {"release", "awaitEnd", "quitAwait"} => dm.id \in Ids
    /\ dm.pc = "announce" => dmConns = {}
    /\ phase = "running" => ~Quitting

(* A connection with resources is in exactly one place.                    *)
Agreement ==
    phase = "running" =>
        \A id \in Ids :
            Announcements(id) + One(id \in dmConns) + Transit("cm", {Release(id)})
              = One(id \in cmConns)

UiTold ==
    phase = "running" =>
        /\ UiEndsUpWith("AllDevicesAreNowDisconnected") =>
              \A id \in dmConns : dst[id] = "starting"
        /\ dmConns = {} /\ dm.pc \in {"idle", "broadcast"} =>
              ~ \E type \in {"ConnectionEstablished", "ConnectionError"} : UiEndsUpWith(type)

DeviceInvariant ==
    RouterTyped /\ Typed /\ Numbered /\ Fresh /\ RemovalsInOrder /\ DmInOrder /\ Agreement /\ NoTaskIsLost
-----------------------------------------------------------------------------
LEMMA KindsOfMessages ==
  /\ NoId \notin Ids /\ Ids \subseteq Nat
  /\ \A id \in Ids : Announcement(id) \in Sent /\ Removal(id) \in Sent /\ Release(id) \in Sent
                     /\ UiEvents(id) \subseteq Sent
  /\ Connecting \subseteq Sent /\ Broadcasts \subseteq Sent /\ LastWord \in Sent
  /\ \A m \in Sent :
        /\ m.to \in Components
        /\ m.type = "NewDeviceConnection" => m.id \in Ids /\ m = Announcement(m.id)
        /\ m.type = "RemoveConnection" => m.id \in Ids /\ m = Removal(m.id)
        /\ m.type = "RemoveDataConnections" => m.id \in Ids /\ m = Release(m.id)
        /\ m.type \in {"NewJsonStream", "ConnectTo"} <=> m \in Connecting
        /\ m.to = "ui" => m = LastWord \/ \E id \in Ids : m \in UiEvents(id)
        /\ m \in Messages
<1>1. NoId \notin Ids /\ Ids \subseteq Nat
  BY IdAssumption, BoundsAssumption DEF Ids
<1>2. /\ \A id \in Ids : Announcement(id) \in Sent /\ Removal(id) \in Sent /\ Release(id) \in Sent
                         /\ UiEvents(id) \subseteq Sent
      /\ Connecting \subseteq Sent /\ Broadcasts \subseteq Sent /\ LastWord \in Sent
  BY DEF Sent
<1>3. ASSUME NEW m \in Sent
      PROVE  /\ m.to \in Components
             /\ m.type = "NewDeviceConnection" => m.id \in Ids /\ m = Announcement(m.id)
             /\ m.type = "RemoveConnection" => m.id \in Ids /\ m = Removal(m.id)
             /\ m.type = "RemoveDataConnections" => m.id \in Ids /\ m = Release(m.id)
             /\ m.type \in {"NewJsonStream", "ConnectTo"} <=> m \in Connecting
             /\ m.to = "ui" => m = LastWord \/ \E id \in Ids : m \in UiEvents(id)
             /\ m \in Messages
  <2>1. CASE m \in Connecting \cup Broadcasts \cup {LastWord}
    BY <2>1 DEF Connecting, Broadcasts, LastWord, Message, Components, Messages, Types
  <2>2. CASE \E id \in Ids : m \in {Announcement(id), Removal(id), Release(id)} \cup UiEvents(id)
    <3>1. PICK id \in Ids : m \in {Announcement(id), Removal(id), Release(id)} \cup UiEvents(id)
      BY <2>2
    <3>. QED
      BY <3>1 DEF Announcement, Removal, Release, UiEvents, Connecting, LastWord, Message,
                  Components, Messages, Types
  <2>. QED
    BY <2>1, <2>2 DEF Sent
<1>. QED
  BY <1>1, <1>2, <1>3

LEMMA KindsDiffer ==
  ASSUME NEW id, NEW j
  PROVE  /\ Announcement(id) = Announcement(j) <=> id = j
         /\ Removal(id) = Removal(j) <=> id = j
         /\ Release(id) = Release(j) <=> id = j
         /\ Announcement(id) # Removal(j) /\ Announcement(id) # Release(j)
         /\ Removal(id) # Release(j)
         /\ Announcement(id) \notin Connecting /\ Removal(id) \notin Connecting
         /\ Release(id) \notin Connecting
         /\ Announcement(id).to = "dm" /\ Removal(id).to = "dm" /\ Release(id).to = "cm"
BY DEF Announcement, Removal, Release, Connecting, Message

(* How the messages on their way change.                                   *)
LEMMA TransitIsNat ==
  ASSUME RouterTyped, NEW c \in Components, NEW S
  PROVE  Transit(c, S) \in Nat
<1>1. chan[c] \in Seq(Sent) /\ rQ \in Seq(Sent) /\ held \in Seq(Sent)
  BY DEF RouterTyped
<1>2. NumberOf(chan[c], S) \in Nat /\ NumberOf(rQ, S) \in Nat /\ NumberOf(held, S) \in Nat
  BY <1>1, PositionsFinite
<1>. QED
  BY <1>2 DEF Transit

LEMMA SendingAdds ==
  ASSUME RouterTyped, NEW m \in Sent, Send(m)
  PROVE  /\ RouterTyped'
         /\ \A c \in Components : \A S :
               Transit(c, S)' = Transit(c, S) + One(m \in S)
<1>1. /\ rQ' = Append(rQ, m) /\ Len(rQ) < ChannelSize /\ UNCHANGED <<held, chan>>
      /\ rQ \in Seq(Sent) /\ ChannelSize \in Nat
  BY ChannelAssumption DEF Send, RouterTyped
<1>2. rQ' \in Seq(Sent) /\ Len(rQ') <= ChannelSize
  BY <1>1, Extended
<1>3. RouterTyped'
  BY <1>1, <1>2 DEF RouterTyped
<1>4. ASSUME NEW c \in Components, NEW S
      PROVE  Transit(c, S)' = Transit(c, S) + One(m \in S)
  <2>1. NumberOf(rQ', S) = IF m \in S THEN NumberOf(rQ, S) + 1 ELSE NumberOf(rQ, S)
    BY <1>1, NumberOfAppend
  <2>2. chan[c] \in Seq(Sent) /\ held \in Seq(Sent)
    BY DEF RouterTyped
  <2>3. NumberOf(chan[c], S) \in Nat /\ NumberOf(rQ, S) \in Nat /\ NumberOf(held, S) \in Nat
    BY <1>1, <2>2, PositionsFinite
  <2>4. NumberOf(chan'[c], S) = NumberOf(chan[c], S) /\ NumberOf(held', S) = NumberOf(held, S)
    BY <1>1
  <2>. QED
    BY <2>1, <2>3, <2>4 DEF Transit, One
<1>. QED
  BY <1>3, <1>4

LEMMA ReceivingTakes ==
  ASSUME RouterTyped, NEW c \in Components, NEW type, Receives(c, type)
  PROVE  /\ RouterTyped'
         /\ Head(chan[c]) \in Sent /\ Head(chan[c]).to = c /\ Head(chan[c]).type = type
         /\ \A d \in Components : \A S :
               Transit(d, S) = Transit(d, S)' + One(c = d /\ Head(chan[c]) \in S)
<1>. DEFINE q == chan[c]
<1>1. /\ q \in Seq(Sent) /\ q # <<>> /\ chan' = [chan EXCEPT ![c] = Tail(q)]
      /\ UNCHANGED <<rQ, held>> /\ Head(q).type = type /\ chan \in [Components -> Seq(Sent)]
      /\ Len(q) <= ChannelSize /\ ChannelSize \in Nat /\ \A i \in 1..Len(q) : q[i].to = c
  BY ChannelAssumption DEF Receives, RouterTyped
<1>2. /\ Len(q) \in Nat /\ Len(q) >= 1 /\ Head(q) = q[1] /\ Head(q) \in Sent
      /\ Tail(q) \in Seq(Sent) /\ Len(Tail(q)) = Len(q) - 1
      /\ \A i \in 1..Len(Tail(q)) : Tail(q)[i] = q[i + 1]
  BY <1>1, HeadTailProperties, LenProperties, EmptySeq
<1>. HIDE DEF q
<1>3. Head(q).to = c /\ \A i \in 1..Len(Tail(q)) : Tail(q)[i].to = c
  <2>1. 1 \in 1..Len(q) /\ \A i \in 1..Len(Tail(q)) : i + 1 \in 1..Len(q)
    BY <1>2
  <2>. QED
    BY <1>1, <1>2, <2>1
<1>4. RouterTyped'
  <2>1. chan' \in [Components -> Seq(Sent)]
    BY <1>1, <1>2
  <2>2. \A d \in Components : chan'[d] = IF d = c THEN Tail(q) ELSE chan[d]
    BY <1>1
  <2>3. Len(Tail(q)) <= ChannelSize
    BY <1>1, <1>2
  <2>. QED
    BY <1>1, <1>3, <2>1, <2>2, <2>3 DEF RouterTyped
<1>5. ASSUME NEW d \in Components, NEW S
      PROVE  Transit(d, S) = Transit(d, S)' + One(c = d /\ Head(q) \in S)
  <2>1. NumberOf(Tail(q), S) = IF Head(q) \in S THEN NumberOf(q, S) - 1 ELSE NumberOf(q, S)
    BY <1>1, NumberOfTail
  <2>2. chan[d] \in Seq(Sent) /\ rQ \in Seq(Sent) /\ held \in Seq(Sent)
    BY DEF RouterTyped
  <2>3. /\ NumberOf(chan[d], S) \in Nat /\ NumberOf(rQ, S) \in Nat /\ NumberOf(held, S) \in Nat
        /\ NumberOf(q, S) \in Nat
    BY <1>1, <2>2, PositionsFinite
  <2>4. NumberOf(rQ', S) = NumberOf(rQ, S) /\ NumberOf(held', S) = NumberOf(held, S)
    BY <1>1
  <2>5. CASE d = c
    <3>1. chan'[d] = Tail(q) /\ chan[d] = q
      BY <1>1, <2>5 DEF q
    <3>. QED
      BY <2>1, <2>3, <2>4, <2>5, <3>1 DEF Transit, One
  <2>6. CASE d # c
    <3>1. chan'[d] = chan[d]
      BY <1>1, <2>6
    <3>. QED
      BY <2>3, <2>4, <2>6, <3>1 DEF Transit, One
  <2>. QED
    BY <2>5, <2>6
<1>. QED
  BY <1>1, <1>2, <1>3, <1>4, <1>5 DEF q

LEMMA RoutingKeeps ==
  ASSUME RouterTyped, RouterReceives \/ RouterDelivers
  PROVE  /\ RouterTyped'
         /\ \A c \in Components : \A S :
               (\A m \in S : m.to = c) => Transit(c, S)' = Transit(c, S)
<1>1. CASE RouterReceives
  <2>. DEFINE h == Head(rQ)
  <2>1. /\ rQ \in Seq(Sent) /\ rQ # <<>> /\ held = <<>> /\ held' = <<h>> /\ rQ' = Tail(rQ)
        /\ chan' = chan /\ Len(rQ) <= ChannelSize /\ ChannelSize \in Nat
    BY <1>1, ChannelAssumption DEF RouterReceives, RouterTyped
  <2>2. h \in Sent /\ rQ' \in Seq(Sent) /\ Len(rQ') <= ChannelSize
    BY <2>1, Removed
  <2>3. held' \in Seq(Sent) /\ Len(held') <= 1
    BY <2>1, <2>2
  <2>4. RouterTyped'
    BY <2>1, <2>2, <2>3 DEF RouterTyped
  <2>5. ASSUME NEW c \in Components, NEW S
        PROVE  Transit(c, S)' = Transit(c, S)
    <3>1. NumberOf(rQ', S) = IF h \in S THEN NumberOf(rQ, S) - 1 ELSE NumberOf(rQ, S)
      BY <2>1, NumberOfTail
    <3>2. NumberOf(held', S) = (IF h \in S THEN 1 ELSE 0) /\ NumberOf(held, S) = 0
      BY <2>1, <2>2, NumberOfOne, NumberOfNone
    <3>3. chan[c] \in Seq(Sent)
      BY DEF RouterTyped
    <3>4. NumberOf(chan[c], S) \in Nat /\ NumberOf(rQ, S) \in Nat
      BY <2>1, <3>3, PositionsFinite
    <3>5. NumberOf(chan'[c], S) = NumberOf(chan[c], S)
      BY <2>1
    <3>. QED
      BY <3>1, <3>2, <3>4, <3>5 DEF Transit
  <2>. QED
    BY <2>4, <2>5
<1>2. CASE RouterDelivers
  <2>. DEFINE h == Head(held)
              k == h.to
  <2>1. /\ held \in Seq(Sent) /\ held # <<>> /\ held' = <<>> /\ Len(held) <= 1 /\ rQ' = rQ
        /\ chan' = [chan EXCEPT ![k] = Append(chan[k], h)] /\ Len(chan[k]) < ChannelSize
        /\ chan \in [Components -> Seq(Sent)] /\ ChannelSize \in Nat
    BY <1>2, ChannelAssumption DEF RouterDelivers, RouterTyped
  <2>2. /\ h \in Sent /\ Tail(held) \in Seq(Sent) /\ Len(Tail(held)) = Len(held) - 1
        /\ Len(held) \in Nat
    BY <2>1, Removed
  <2>3. k \in Components
    BY <2>2, KindsOfMessages
  <2>4. Tail(held) = <<>>
    <3>1. Len(Tail(held)) \in Nat
      BY <2>2, LenProperties
    <3>2. Len(Tail(held)) = 0
      BY <2>1, <2>2, <3>1
    <3>. QED
      BY <2>2, <3>2, EmptySeq
  <2>5. chan[k] \in Seq(Sent)
    BY <2>1, <2>3
  <2>6. /\ Append(chan[k], h) \in Seq(Sent) /\ Len(Append(chan[k], h)) = Len(chan[k]) + 1
        /\ Len(chan[k]) \in Nat
        /\ \A i \in 1..Len(chan[k]) + 1 :
              Append(chan[k], h)[i] = IF i = Len(chan[k]) + 1 THEN h ELSE chan[k][i]
    BY <2>2, <2>5, AppendProperties
  <2>7. \A d \in Components : chan'[d] = IF d = k THEN Append(chan[k], h) ELSE chan[d]
    BY <2>1
  <2>. HIDE DEF h
  <2>8. RouterTyped'
    <3>1. chan' \in [Components -> Seq(Sent)]
      BY <2>1, <2>6
    <3>2. ASSUME NEW d \in Components
          PROVE  Len(chan'[d]) <= ChannelSize /\ \A i \in 1..Len(chan'[d]) : chan'[d][i].to = d
      <4>1. CASE d = k
        <5>1. \A i \in 1..Len(chan[k]) : chan[k][i].to = k
          BY <2>3 DEF RouterTyped
        <5>2. Len(Append(chan[k], h)) <= ChannelSize
          BY <2>1, <2>6
        <5>3. \A i \in 1..Len(chan[k]) + 1 : i # Len(chan[k]) + 1 => i \in 1..Len(chan[k])
          BY <2>6
        <5>4. \A i \in 1..Len(chan[k]) + 1 : Append(chan[k], h)[i].to = k
          BY <2>6, <5>1, <5>3
        <5>. QED
          BY <2>6, <2>7, <4>1, <5>2, <5>4
      <4>2. CASE d # k
        BY <2>7, <4>2 DEF RouterTyped
      <4>. QED
        BY <4>1, <4>2
    <3>3. held' \in Seq(Sent) /\ Len(held') <= 1
      BY <2>1
    <3>. QED
      BY <2>1, <3>1, <3>2, <3>3 DEF RouterTyped
  <2>9. ASSUME NEW c \in Components, NEW S, \A m \in S : m.to = c
        PROVE  Transit(c, S)' = Transit(c, S)
    <3>1. /\ NumberOf(Tail(held), S)
               = IF h \in S THEN NumberOf(held, S) - 1 ELSE NumberOf(held, S)
          /\ NumberOf(<<>>, S) = 0
      BY <2>1, NumberOfTail, NumberOfNone DEF h
    <3>2. NumberOf(Append(chan[k], h), S)
            = IF h \in S THEN NumberOf(chan[k], S) + 1 ELSE NumberOf(chan[k], S)
      BY <2>2, <2>5, NumberOfAppend
    <3>3. chan[c] \in Seq(Sent) /\ rQ \in Seq(Sent)
      BY DEF RouterTyped
    <3>4. /\ NumberOf(chan[c], S) \in Nat /\ NumberOf(held, S) \in Nat /\ NumberOf(rQ, S) \in Nat
          /\ NumberOf(chan[k], S) \in Nat
      BY <2>1, <2>5, <3>3, PositionsFinite
    <3>5. NumberOf(held', S) = 0 /\ NumberOf(rQ', S) = NumberOf(rQ, S)
      BY <2>1, <3>1
    <3>6. NumberOf(held, S) = IF h \in S THEN 1 ELSE 0
      <4>1. NumberOf(Tail(held), S) = 0
        BY <2>4, <3>1, Zenon
      <4>. QED
        BY <3>1, <3>4, <4>1
    <3>7. CASE c = k
      BY <2>7, <3>2, <3>4, <3>5, <3>6, <3>7 DEF Transit
    <3>8. CASE c # k
      <4>1. h \notin S
        BY <2>9, <3>8
      <4>2. chan'[c] = chan[c]
        BY <2>7, <3>8
      <4>. QED
        BY <3>4, <3>5, <3>6, <4>1, <4>2 DEF Transit
    <3>. QED
      BY <3>7, <3>8
  <2>. QED
    BY <2>8, <2>9
<1>. QED
  BY <1>1, <1>2
-----------------------------------------------------------------------------
(* What the invariant counts, and what each kind of step does to it.       *)
CountsKept ==
    /\ Transit("cm", Connecting)' = Transit("cm", Connecting)
    /\ \A id \in Ids :
          /\ Transit("dm", {Announcement(id)})' = Transit("dm", {Announcement(id)})
          /\ Transit("dm", {Removal(id)})' = Transit("dm", {Removal(id)})
          /\ Transit("cm", {Release(id)})' = Transit("cm", {Release(id)})

LEMMA CountsAreNat ==
  ASSUME RouterTyped
  PROVE  /\ Transit("cm", Connecting) \in Nat
         /\ \A id \in Ids : /\ Transit("dm", {Announcement(id)}) \in Nat
                            /\ Transit("dm", {Removal(id)}) \in Nat
                            /\ Transit("cm", {Release(id)}) \in Nat
<1>1. {"dm", "cm"} \subseteq Components
  BY DEF Components
<1>. QED
  BY <1>1, TransitIsNat

LEMMA RoutingCounts ==
  ASSUME RouterTyped, (RouterReceives \/ RouterDelivers) \/ UNCHANGED routerVars
  PROVE  RouterTyped' /\ CountsKept
<1>1. CASE RouterReceives \/ RouterDelivers
  <2>1. /\ {"dm", "cm"} \subseteq Components /\ \A m \in Connecting : m.to = "cm"
        /\ \A id : /\ \A m \in {Announcement(id)} : m.to = "dm"
                   /\ \A m \in {Removal(id)} : m.to = "dm"
                   /\ \A m \in {Release(id)} : m.to = "cm"
    BY DEF Components, Connecting, Announcement, Removal, Release, Message
  <2>. QED
    BY <1>1, <2>1, RoutingKeeps DEF CountsKept
<1>2. CASE UNCHANGED routerVars
  BY <1>2 DEF routerVars, RouterTyped, CountsKept, Transit
<1>. QED
  BY <1>1, <1>2

LEMMA SendingCounts ==
  ASSUME RouterTyped, NEW m \in Sent, Send(m)
  PROVE  /\ RouterTyped'
         /\ Transit("cm", Connecting)' = Transit("cm", Connecting) + One(m \in Connecting)
         /\ \A id \in Ids :
               /\ Transit("dm", {Announcement(id)})'
                    = Transit("dm", {Announcement(id)}) + One(m = Announcement(id))
               /\ Transit("dm", {Removal(id)})'
                    = Transit("dm", {Removal(id)}) + One(m = Removal(id))
               /\ Transit("cm", {Release(id)})'
                    = Transit("cm", {Release(id)}) + One(m = Release(id))
<1>1. {"dm", "cm"} \subseteq Components
  BY DEF Components
<1>2. \A x : One(m \in {x}) = One(m = x)
  BY DEF One
<1>3. RouterTyped' /\ \A c \in Components : \A S : Transit(c, S)' = Transit(c, S) + One(m \in S)
  BY SendingAdds
<1>4. Transit("cm", Connecting)' = Transit("cm", Connecting) + One(m \in Connecting)
  BY <1>1, <1>3
<1>5. ASSUME NEW id \in Ids
      PROVE  /\ Transit("dm", {Announcement(id)})'
                  = Transit("dm", {Announcement(id)}) + One(m = Announcement(id))
             /\ Transit("dm", {Removal(id)})'
                  = Transit("dm", {Removal(id)}) + One(m = Removal(id))
             /\ Transit("cm", {Release(id)})'
                  = Transit("cm", {Release(id)}) + One(m = Release(id))
  BY <1>1, <1>2, <1>3
<1>. QED
  BY <1>3, <1>4, <1>5

CountsTaken(h, id) ==
    /\ Transit("dm", {Announcement(id)})
         = Transit("dm", {Announcement(id)})' + One(h = Announcement(id))
    /\ Transit("dm", {Removal(id)}) = Transit("dm", {Removal(id)})' + One(h = Removal(id))
    /\ Transit("cm", {Release(id)}) = Transit("cm", {Release(id)})' + One(h = Release(id))
    /\ Transit("dm", {Announcement(id)})' \in Nat
    /\ Transit("dm", {Removal(id)})' \in Nat
    /\ Transit("cm", {Release(id)})' \in Nat

LEMMA ReceivingCounts ==
  ASSUME RouterTyped, NEW c \in Components, NEW type, Receives(c, type), NEW h, h = Head(chan[c])
  PROVE  /\ RouterTyped' /\ h \in Sent /\ h.to = c /\ h.type = type
         /\ Transit("cm", Connecting) = Transit("cm", Connecting)' + One(h \in Connecting)
         /\ \A id \in Ids :
               /\ Transit("dm", {Announcement(id)})
                    = Transit("dm", {Announcement(id)})' + One(h = Announcement(id))
               /\ Transit("dm", {Removal(id)})
                    = Transit("dm", {Removal(id)})' + One(h = Removal(id))
               /\ Transit("cm", {Release(id)})
                    = Transit("cm", {Release(id)})' + One(h = Release(id))
         /\ Transit("cm", Connecting)' \in Nat
         /\ \A id \in Ids : /\ Transit("dm", {Announcement(id)})' \in Nat
                            /\ Transit("dm", {Removal(id)})' \in Nat
                            /\ Transit("cm", {Release(id)})' \in Nat
         /\ \A id \in Ids : CountsTaken(h, id)
<1>1. {"dm", "cm"} \subseteq Components
  BY DEF Components
<1>2. /\ RouterTyped' /\ h \in Sent /\ h.to = c /\ h.type = type
      /\ \A d \in Components : \A S : Transit(d, S) = Transit(d, S)' + One(c = d /\ h \in S)
  BY ReceivingTakes
<1>3. One(c = "cm" /\ h \in Connecting) = One(h \in Connecting)
  BY <1>2 DEF One, Connecting, Message
<1>4. ASSUME NEW id
      PROVE  /\ One(c = "dm" /\ h \in {Announcement(id)}) = One(h = Announcement(id))
             /\ One(c = "dm" /\ h \in {Removal(id)}) = One(h = Removal(id))
             /\ One(c = "cm" /\ h \in {Release(id)}) = One(h = Release(id))
  BY <1>2 DEF One, Announcement, Removal, Release, Message
<1>5. Transit("cm", Connecting) = Transit("cm", Connecting)' + One(h \in Connecting)
  BY <1>1, <1>2, <1>3
<1>6. ASSUME NEW id \in Ids
      PROVE  /\ Transit("dm", {Announcement(id)})
                  = Transit("dm", {Announcement(id)})' + One(h = Announcement(id))
             /\ Transit("dm", {Removal(id)})
                  = Transit("dm", {Removal(id)})' + One(h = Removal(id))
             /\ Transit("cm", {Release(id)})
                  = Transit("cm", {Release(id)})' + One(h = Release(id))
  BY <1>1, <1>2, <1>4
<1>7. /\ Transit("cm", Connecting)' \in Nat
      /\ \A id \in Ids : /\ Transit("dm", {Announcement(id)})' \in Nat
                         /\ Transit("dm", {Removal(id)})' \in Nat
                         /\ Transit("cm", {Release(id)})' \in Nat
  <2>1. ASSUME NEW d \in Components, NEW S PROVE Transit(d, S)' \in Nat
    <3>1. rQ' \in Seq(Sent) /\ held' \in Seq(Sent) /\ chan'[d] \in Seq(Sent)
      BY <1>2 DEF RouterTyped
    <3>2. NumberOf(rQ', S) \in Nat /\ NumberOf(held', S) \in Nat /\ NumberOf(chan'[d], S) \in Nat
      BY <3>1, PositionsFinite
    <3>. QED
      BY <3>2 DEF Transit
  <2>. QED
    BY <1>1, <2>1
<1>8. \A id \in Ids : CountsTaken(h, id)
  BY <1>6, <1>7 DEF CountsTaken
<1>. QED
  BY <1>2, <1>5, <1>6, <1>7, <1>8

LEMMA OtherMessageSent ==
  ASSUME RouterTyped, NEW m \in Sent, Send(m),
         m.type \notin {"NewJsonStream", "ConnectTo", "NewDeviceConnection",
                        "RemoveConnection", "RemoveDataConnections"}
  PROVE  RouterTyped' /\ CountsKept
<1>1. m \notin Connecting /\ \A id : /\ m # Announcement(id) /\ m # Removal(id) /\ m # Release(id)
  BY DEF Connecting, Announcement, Removal, Release, Message
<1>3. \A id \in Ids : /\ One(m = Announcement(id)) = 0 /\ One(m = Removal(id)) = 0
                      /\ One(m = Release(id)) = 0
  BY <1>1 DEF One
<1>4. One(m \in Connecting) = 0
  BY <1>1 DEF One
<1>. QED
  <2>1. RouterTyped' /\ Transit("cm", Connecting)' = Transit("cm", Connecting)
    <3>1. RouterTyped' /\ Transit("cm", Connecting)' = Transit("cm", Connecting) + 0
      BY <1>4, SendingCounts
    <3>. QED
      BY <3>1, CountsAreNat
  <2>2. ASSUME NEW id \in Ids
        PROVE  /\ Transit("dm", {Announcement(id)})' = Transit("dm", {Announcement(id)})
               /\ Transit("dm", {Removal(id)})' = Transit("dm", {Removal(id)})
               /\ Transit("cm", {Release(id)})' = Transit("cm", {Release(id)})
    <3>1. /\ Transit("dm", {Announcement(id)})' = Transit("dm", {Announcement(id)}) + 0
          /\ Transit("dm", {Removal(id)})' = Transit("dm", {Removal(id)}) + 0
          /\ Transit("cm", {Release(id)})' = Transit("cm", {Release(id)}) + 0
      BY <1>3, SendingCounts
    <3>. QED
      BY <3>1, CountsAreNat
  <2>. QED
    BY <2>1, <2>2 DEF CountsKept

LEMMA OtherMessageReceived ==
  ASSUME RouterTyped, NEW c \in Components, NEW type, Receives(c, type),
         type \notin {"NewJsonStream", "ConnectTo", "NewDeviceConnection",
                      "RemoveConnection", "RemoveDataConnections"}
  PROVE  RouterTyped' /\ CountsKept
<1>0. PICK m : m = Head(chan[c])
  OBVIOUS
<1>1. m.type = type /\ RouterTyped'
  BY <1>0, ReceivingCounts
<1>2. m \notin Connecting /\ \A id : /\ m # Announcement(id) /\ m # Removal(id) /\ m # Release(id)
  BY <1>1 DEF Connecting, Announcement, Removal, Release, Message
<1>3. \A id \in Ids : /\ One(m = Announcement(id)) = 0 /\ One(m = Removal(id)) = 0
                      /\ One(m = Release(id)) = 0
  BY <1>2 DEF One
<1>4. One(m \in Connecting) = 0
  BY <1>2 DEF One
<1>5. Transit("cm", Connecting)' = Transit("cm", Connecting)
  <2>1. /\ Transit("cm", Connecting) = Transit("cm", Connecting)' + 0
        /\ Transit("cm", Connecting)' \in Nat
    BY <1>0, <1>4, ReceivingCounts
  <2>. QED
    BY <2>1
<1>6. ASSUME NEW id \in Ids
      PROVE  /\ Transit("dm", {Announcement(id)})' = Transit("dm", {Announcement(id)})
             /\ Transit("dm", {Removal(id)})' = Transit("dm", {Removal(id)})
             /\ Transit("cm", {Release(id)})' = Transit("cm", {Release(id)})
  <2>1. CountsTaken(m, id)
    BY <1>0, ReceivingCounts
  <2>. QED
    BY <1>3, <2>1 DEF CountsTaken
<1>. QED
  BY <1>1, <1>5, <1>6 DEF CountsKept

(* The parts of the invariant, each kept by what leaves its state alone.   *)
LEMMA KeptByTheRest ==
  ASSUME DeviceInvariant, RouterTyped', CountsKept, UNCHANGED <<cmOut, nextId>>
  PROVE  /\ UNCHANGED <<uiOut, asked>> => Numbered'
         /\ UNCHANGED <<dst, dmConns, dstQuit>> => Fresh'
         /\ UNCHANGED <<dm, dmConns, dst, dstQuit>> => RemovalsInOrder'
         /\ UNCHANGED <<cmConns, dmConns>> /\ (phase' # "running" \/ phase' = phase) => Agreement'
<1>. USE DEF DeviceInvariant
<1>1. UNCHANGED <<uiOut, asked>> => Numbered'
  BY DEF CountsKept, Numbered
<1>2. \A id \in Ids : Announcements(id)' = Announcements(id)
  BY DEF CountsKept, Announcements
<1>3. UNCHANGED <<dst, dmConns, dstQuit>> => Fresh'
  BY <1>2 DEF Fresh
<1>4. ASSUME UNCHANGED <<dm, dmConns, dst, dstQuit>> PROVE RemovalsInOrder'
  <2>1. \A id \in Ids : Removals(id)' = Removals(id)
    BY <1>4 DEF CountsKept, Removals
  <2>. QED
    BY <1>4, <2>1 DEF RemovalsInOrder, Quitting
<1>5. ASSUME UNCHANGED <<cmConns, dmConns>>, phase' # "running" \/ phase' = phase
      PROVE  Agreement'
  BY <1>2, <1>5 DEF CountsKept, Agreement
<1>. QED
  BY <1>1, <1>3, <1>4, <1>5

(* The router's own steps, and those that only end a task or change the    *)
(* state of the user interface's connection.                               *)
LEMMA RouterAndEnds ==
  ASSUME DeviceInvariant,
         \/ Router \/ LogicQuits \/ LogicClosesRouter \/ CmQuits \/ UiQuits \/ DmEnds
         \/ UiConnects \/ UiBreaks \/ UiSent
  PROVE  DeviceInvariant'
<1>. USE DEF DeviceInvariant
<1>1. /\ (RouterReceives \/ RouterDelivers) \/ UNCHANGED routerVars
      /\ UNCHANGED <<nextId, cmConns, cmOut, dmConns, dm, dst, evQ, dstQuit, uiOut, uiShown, asked>>
      /\ running' \subseteq running
      /\ \/ phase' = phase
         \/ phase' \in {"quitting", "closingRouter", "done", "panicked"}
  BY DEF Router, RouterReceives, RouterDelivers, RouterPanics, RouterQuits, LogicQuits,
         LogicClosesRouter, CmQuits, UiQuits, DmEnds, Ends, UiConnects, UiBreaks, UiSent, UiElsewhere,
         cmVars, dmVars, dstVars, uiVars, libVars
<1>2. RouterTyped' /\ CountsKept
  BY <1>1, RoutingCounts
<1>3. Typed'
  BY <1>1 DEF Typed
<1>4. Numbered' /\ Fresh' /\ RemovalsInOrder' /\ Agreement'
  BY <1>1, <1>2, KeptByTheRest
<1>5. DmInOrder' /\ NoTaskIsLost'
  BY <1>1 DEF DmInOrder, Quitting, NoTaskIsLost
<1>. QED
  BY <1>2, <1>3, <1>4, <1>5
-----------------------------------------------------------------------------
(* The device tasks.  Until the DeviceManager quits, a task at work is one *)
(* of its connections.                                                     *)
LEMMA TaskAtWork ==
  ASSUME DeviceInvariant, NEW id \in Ids,
         dst[id] \in {"starting", "serving", "sending", "failed", "leaving"}
  PROVE  /\ Announcements(id) = 0 /\ id < nextId
         /\ ~Quitting => id \in dmConns /\ id \notin dstQuit /\ Removals(id) = 0
<1>. USE DEF DeviceInvariant
<1>1. /\ Transit("dm", {Announcement(id)}) \in Nat /\ Transit("dm", {Removal(id)}) \in Nat
      /\ NumberOf(cmOut, {Announcement(id)}) \in Nat
  BY CountsAreNat, PositionsFinite DEF Typed
<1>2. Announcements(id) \in Nat /\ Removals(id) \in Nat /\ nextId \in Nat /\ id \in Nat
  BY <1>1, KindsOfMessages DEF Announcements, Removals, One, Typed
<1>3. Announcements(id) = 0 /\ id < nextId
  BY <1>2 DEF Fresh
<1>4. ~Quitting => id \in dmConns /\ id \notin dstQuit /\ Removals(id) = 0
  BY <1>2 DEF RemovalsInOrder, NoTaskIsLost
<1>. QED
  BY <1>3, <1>4

LEMMA DstStep ==
  ASSUME DeviceInvariant, NEW id \in Ids, Dst(id)
  PROVE  DeviceInvariant'
<1>. USE DEF DeviceInvariant
<1>0. dst \in [Ids -> DstStates] /\ evQ \in [Ids -> Seq({"Disconnect", "SendPing"})]
  BY DEF Typed
<1>1. UNCHANGED <<nextId, cmConns, cmOut, dmConns, dm, dstQuit, uiOut, uiShown, running, phase, asked>>
  BY DEF Dst, DstSends, DstEstablished, DstTakesEvent, DstAnswers, DstSent, DstConnectionError, DstReportsError,
         DstLeaves, DstQuits, DstElsewhere, cmVars, dmVars, uiVars, libVars
<1>2. PICK state \in DstStates \ {"absent"} :
         /\ dst' = [dst EXCEPT ![id] = state]
         /\ \/ /\ dst[id] \in {"starting", "serving", "sending", "failed"}
               /\ state \in {"serving", "sending", "leaving", "failed"}
               /\ ~DstLeaves(id)
            \/ dst[id] = "leaving" /\ state = "waiting" /\ DstLeaves(id)
            \/ /\ id \in dstQuit /\ dst[id] \in {"starting", "serving", "sending", "waiting"}
               /\ state = "ended" /\ ~DstLeaves(id)
  <2>1. CASE DstEstablished(id)
    BY <2>1 DEF DstEstablished, DstBecomes, DstStates, DstLeaves
  <2>2. CASE DstTakesEvent(id)
    BY <2>2 DEF DstTakesEvent, DstBecomes, DstStates, DstLeaves
  <2>3. CASE DstConnectionError(id)
    BY <2>3 DEF DstConnectionError, DstBecomes, DstStates, DstLeaves
  <2>4. CASE DstReportsError(id)
    BY <2>4 DEF DstReportsError, DstBecomes, DstStates, DstLeaves
  <2>5. CASE DstLeaves(id)
    BY <2>5 DEF DstLeaves, DstBecomes, DstStates
  <2>6. CASE DstQuits(id)
    BY <2>6 DEF DstQuits, DstBecomes, DstStates, DstLeaves
  <2>7. CASE DstAnswers(id) \/ DstSent(id)
    BY <2>7 DEF DstAnswers, DstSent, DstBecomes, DstStates, DstLeaves
  <2>. QED
    BY <2>1, <2>2, <2>3, <2>4, <2>5, <2>6, <2>7 DEF Dst, DstSends
<1>3. \A i \in Ids : dst'[i] = IF i = id THEN state ELSE dst[i]
  BY <1>0, <1>2
<1>4. /\ evQ' \in [Ids -> Seq({"Disconnect", "SendPing"})]
      /\ \A i \in Ids : Len(evQ'[i]) <= ChannelSize
  <2>1. CASE UNCHANGED evQ
    BY <2>1 DEF Typed
  <2>2. CASE evQ[id] # <<>> /\ evQ' = [evQ EXCEPT ![id] = Tail(@)]
    <3>1. /\ Tail(evQ[id]) \in Seq({"Disconnect", "SendPing"})
          /\ Len(Tail(evQ[id])) = Len(evQ[id]) - 1 /\ Len(evQ[id]) \in Nat
      BY <1>0, <2>2, Removed
    <3>2. Len(Tail(evQ[id])) <= ChannelSize
      BY <3>1, ChannelAssumption DEF Typed
    <3>. QED
      BY <1>0, <2>2, <3>1, <3>2 DEF Typed
  <2>. QED
    BY <2>1, <2>2 DEF Dst, DstSends, DstEstablished, DstTakesEvent, DstAnswers, DstSent, DstConnectionError,
                      DstReportsError, DstLeaves, DstQuits
<1>5. Typed'
  <2>1. dst' \in [Ids -> DstStates]
    BY <1>0, <1>2
  <2>. QED
    BY <1>1, <1>4, <2>1 DEF Typed
<1>6. DmInOrder'
  BY <1>1 DEF DmInOrder, Quitting
<1>7. NoTaskIsLost'
  BY <1>1, <1>2, <1>3 DEF NoTaskIsLost
<1>8. CASE ~DstLeaves(id)
  <2>1. RouterTyped' /\ CountsKept
    <3>1. CASE UNCHANGED routerVars
      BY <3>1, RoutingCounts
    <3>2. CASE ~UNCHANGED routerVars
      <4>1. PICK m \in UiEvents(id) : Send(m)
        BY <1>8, <3>2 DEF Dst, DstSends, DstEstablished, DstTakesEvent, DstAnswers, DstSent, DstConnectionError,
                          DstReportsError, DstQuits, UiEvents
      <4>2. m \in Sent /\ m.type \in {"ConnectionEstablished", "ConnectionError"}
        <5>1. UiEvents(id) \subseteq Sent
          BY KindsOfMessages
        <5>2. m.type \in {"ConnectionEstablished", "ConnectionError"}
          BY DEF UiEvents, Message
        <5>. QED
          BY <5>1, <5>2
      <4>. QED
        BY <4>1, <4>2, OtherMessageSent
    <3>. QED
      BY <3>1, <3>2
  <2>2. Numbered' /\ Agreement'
    BY <1>1, <2>1, KeptByTheRest
  <2>3. Fresh'
    <3>1. \A i \in Ids : Announcements(i)' = Announcements(i)
      BY <1>1, <2>1 DEF CountsKept, Announcements
    <3>. QED
      BY <1>1, <1>2, <1>3, <3>1 DEF Fresh
  <2>4. RemovalsInOrder'
    <3>1. \A i \in Ids : Removals(i)' = Removals(i)
      BY <1>1, <2>1 DEF CountsKept, Removals
    <3>2. CASE dst[id] \in {"starting", "serving", "sending", "failed"}
      BY <1>1, <1>2, <1>3, <3>1, <3>2, TaskAtWork DEF RemovalsInOrder, Quitting
    <3>3. CASE id \in dstQuit /\ dst[id] = "waiting" /\ state = "ended"
      BY <1>1, <1>3, <3>1, <3>3 DEF RemovalsInOrder, Quitting
    <3>. QED
      BY <1>2, <1>8, <3>2, <3>3
  <2>. QED
    BY <1>5, <1>6, <1>7, <2>1, <2>2, <2>3, <2>4
<1>9. CASE DstLeaves(id)
  <2>1. dst[id] = "leaving" /\ state = "waiting" /\ Send(Removal(id)) /\ Removal(id) \in Sent
    BY <1>2, <1>9, KindsOfMessages DEF DstLeaves, Removal
  <2>2. /\ RouterTyped'
        /\ Transit("cm", Connecting)' = Transit("cm", Connecting)
        /\ \A i \in Ids :
              /\ Transit("dm", {Announcement(i)})' = Transit("dm", {Announcement(i)})
              /\ Transit("dm", {Removal(i)})' = Transit("dm", {Removal(i)}) + One(i = id)
              /\ Transit("cm", {Release(i)})' = Transit("cm", {Release(i)})
    <3>1. One(Removal(id) \in Connecting) = 0
      BY KindsDiffer DEF One
    <3>2. ASSUME NEW i \in Ids
          PROVE  /\ One(Removal(id) = Announcement(i)) = 0
                 /\ One(Removal(id) = Removal(i)) = One(i = id)
                 /\ One(Removal(id) = Release(i)) = 0
      BY KindsDiffer DEF One
    <3>3. RouterTyped' /\ Transit("cm", Connecting)' = Transit("cm", Connecting)
      <4>1. RouterTyped' /\ Transit("cm", Connecting)' = Transit("cm", Connecting) + 0
        BY <2>1, <3>1, SendingCounts
      <4>. QED
        BY <4>1, CountsAreNat
    <3>4. ASSUME NEW i \in Ids
          PROVE  /\ Transit("dm", {Announcement(i)})' = Transit("dm", {Announcement(i)})
                 /\ Transit("dm", {Removal(i)})' = Transit("dm", {Removal(i)}) + One(i = id)
                 /\ Transit("cm", {Release(i)})' = Transit("cm", {Release(i)})
      <4>1. /\ Transit("dm", {Announcement(i)})' = Transit("dm", {Announcement(i)}) + 0
            /\ Transit("dm", {Removal(i)})' = Transit("dm", {Removal(i)}) + One(i = id)
            /\ Transit("cm", {Release(i)})' = Transit("cm", {Release(i)}) + 0
        BY <2>1, <3>2, SendingCounts
      <4>. QED
        BY <4>1, CountsAreNat
    <3>. QED
      BY <3>3, <3>4
  <2>3. Numbered'
    BY <1>1, <2>2 DEF Numbered
  <2>4. \A i \in Ids : Announcements(i)' = Announcements(i)
    BY <1>1, <2>2 DEF Announcements
  <2>5. Fresh'
    BY <1>1, <1>2, <1>3, <2>1, <2>4 DEF Fresh
  <2>6. Agreement'
    BY <1>1, <2>2, <2>4 DEF Agreement
  <2>7. RemovalsInOrder'
    <3>1. \A i \in Ids : /\ Removals(i)' = Removals(i) + One(i = id)
                         /\ i # id => Removals(i)' = Removals(i)
      <4>1. ASSUME NEW i \in Ids
            PROVE  /\ Removals(i)' = Removals(i) + One(i = id)
                   /\ i # id => Removals(i)' = Removals(i)
        <5>. DEFINE d == One(dm.pc = "release" /\ dm.id = i)
                    t == Transit("dm", {Removal(i)})
        <5>1. t \in Nat /\ d \in {0, 1} /\ d' = d
          BY <1>1, CountsAreNat DEF One
        <5>2. Removals(i) = t + d /\ Removals(i)' = t' + d' /\ t' = t + One(i = id)
          BY <2>2 DEF Removals
        <5>3. One(i = id) \in {0, 1} /\ (i # id => One(i = id) = 0)
          BY DEF One
        <5>. HIDE DEF d, t
        <5>. QED
          BY <5>1, <5>2, <5>3
      <4>. QED
        BY <4>1
    <3>3. ~Quitting => /\ Removals(id)' = 1 /\ id \in dmConns /\ id \notin dstQuit
      BY <2>1, <3>1, TaskAtWork DEF One
    <3>. QED
      BY <1>1, <1>3, <2>1, <3>1, <3>3 DEF RemovalsInOrder, Quitting
  <2>. QED
    BY <1>5, <1>6, <1>7, <2>2, <2>3, <2>5, <2>6, <2>7
<1>. QED
  BY <1>8, <1>9
-----------------------------------------------------------------------------
(* The UI and the listeners: what asks for connections.                    *)
LEMMA UiStep ==
  ASSUME DeviceInvariant, UiReceives \/ UiRequest \/ UiSends \/ ListenerAccepts
  PROVE  DeviceInvariant'
<1>. USE DEF DeviceInvariant
<1>0. /\ UNCHANGED <<nextId, cmConns, cmOut, dmConns, dm, dst, evQ, dstQuit, running, phase>>
      /\ uiOut \in Seq(Connecting \cup Broadcasts) /\ Len(uiOut) <= 1
      /\ asked \in [connections : 0..MaxDevices, requests : 0..MaxRequests]
  BY DEF UiReceives, UiRequest, UiSends, ListenerAccepts, UiElsewhere, cmVars, dmVars, dstVars,
         uiVars, libVars, Typed
<1>1. /\ Transit("cm", Connecting) \in Nat /\ NumberOf(cmOut, Connecting) \in Nat
      /\ NumberOf(uiOut, Connecting) \in Nat /\ nextId \in Nat /\ asked.connections \in Nat
  BY <1>0, CountsAreNat, PositionsFinite DEF Typed
<1>2. DmInOrder' /\ NoTaskIsLost'
  BY <1>0 DEF DmInOrder, Quitting, NoTaskIsLost
<1>3. ASSUME uiOut' \in Seq(Connecting \cup Broadcasts), Len(uiOut') <= 1,
             asked' \in [connections : 0..MaxDevices, requests : 0..MaxRequests]
      PROVE  Typed'
  BY <1>0, <1>3 DEF Typed
<1>4. ASSUME RouterTyped', NEW n \in {0, 1},
             Transit("cm", Connecting)' = Transit("cm", Connecting) + n,
             NumberOf(uiOut', Connecting) + n + asked.connections
               <= NumberOf(uiOut, Connecting) + asked'.connections,
             NumberOf(uiOut', Connecting) \in Nat, asked'.connections \in Nat,
             \A id \in Ids :
                /\ Transit("dm", {Announcement(id)})' = Transit("dm", {Announcement(id)})
                /\ Transit("dm", {Removal(id)})' = Transit("dm", {Removal(id)})
                /\ Transit("cm", {Release(id)})' = Transit("cm", {Release(id)})
      PROVE  Numbered' /\ Fresh' /\ RemovalsInOrder' /\ Agreement'
  <2>1. Numbered'
    <3>1. Transit("cm", Connecting) + NumberOf(cmOut, Connecting) + NumberOf(uiOut, Connecting)
            + nextId <= asked.connections
      BY DEF Numbered
    <3>2. /\ cmOut' = cmOut /\ nextId' = nextId
      BY <1>0
    <3>3. Transit("cm", Connecting)' + NumberOf(cmOut, Connecting) + NumberOf(uiOut', Connecting)
            + nextId <= asked'.connections
      BY <1>1, <1>4, <3>1
    <3>. QED
      BY <3>2, <3>3 DEF Numbered
  <2>2. \A id \in Ids : /\ Announcements(id)' = Announcements(id)
                        /\ Removals(id)' = Removals(id)
    BY <1>0, <1>4 DEF Announcements, Removals
  <2>3. Fresh'
    BY <1>0, <2>2 DEF Fresh
  <2>4. RemovalsInOrder'
    BY <1>0, <2>2 DEF RemovalsInOrder, Quitting
  <2>5. Agreement'
    BY <1>0, <1>4, <2>2 DEF Agreement
  <2>. QED
    BY <2>1, <2>3, <2>4, <2>5
<1>5. CASE UiReceives
  <2>1. /\ UNCHANGED <<uiOut, asked>> /\ "ui" \in Components
        /\ Receives("ui", Head(chan["ui"]).type)
    BY <1>5 DEF UiReceives, Components
  <2>2. Head(chan["ui"]) \in Sent /\ Head(chan["ui"]).to = "ui"
    BY <2>1, ReceivingTakes
  <2>3. Head(chan["ui"]).type \in {"ConnectionEstablished", "ConnectionError",
                                   "AllDevicesAreNowDisconnected"}
    <3>1. PICK m : m = Head(chan["ui"])
      OBVIOUS
    <3>2. m = LastWord \/ \E id \in Ids : m \in UiEvents(id)
      BY <2>2, <3>1, KindsOfMessages
    <3>. QED
      BY <3>1, <3>2 DEF LastWord, UiEvents, Message
  <2>4. RouterTyped' /\ CountsKept
    BY <2>1, <2>3, OtherMessageReceived
  <2>5. Numbered' /\ Fresh' /\ RemovalsInOrder' /\ Agreement'
    BY <1>0, <2>1, <2>4, KeptByTheRest
  <2>. QED
    BY <1>0, <1>2, <1>3, <2>1, <2>4, <2>5
<1>6. CASE UiRequest
  <2>1. uiOut = <<>> /\ UNCHANGED routerVars
    BY <1>6 DEF UiRequest
  <2>2. PICK m \in Connecting \cup Broadcasts :
           /\ uiOut' = <<m>>
           /\ \/ /\ m \in Connecting /\ asked.connections < MaxDevices
                 /\ asked' = [asked EXCEPT !.connections = @ + 1]
              \/ /\ m \notin Connecting /\ asked.requests < MaxRequests
                 /\ asked' = [asked EXCEPT !.requests = @ + 1]
    BY <1>6 DEF UiRequest, Connecting, Broadcasts, Message
  <2>3. /\ asked' \in [connections : 0..MaxDevices, requests : 0..MaxRequests]
        /\ asked'.connections = asked.connections + One(m \in Connecting)
        /\ asked'.connections \in Nat
    BY <1>0, <1>1, <2>2, BoundsAssumption DEF One
  <2>4. /\ uiOut' \in Seq(Connecting \cup Broadcasts) /\ Len(uiOut') <= 1
        /\ NumberOf(uiOut', Connecting) = One(m \in Connecting)
    BY <2>2, NumberOfOne DEF One
  <2>5. NumberOf(uiOut, Connecting) = 0
    BY <2>1, NumberOfNone
  <2>6. RouterTyped' /\ CountsKept
    BY <2>1, RoutingCounts
  <2>7. One(m \in Connecting) \in Nat
    BY DEF One
  <2>8. Numbered' /\ Fresh' /\ RemovalsInOrder' /\ Agreement'
    <3>1. Transit("cm", Connecting)' = Transit("cm", Connecting) + 0
      BY <1>1, <2>6 DEF CountsKept
    <3>2. NumberOf(uiOut', Connecting) + 0 + asked.connections
            <= NumberOf(uiOut, Connecting) + asked'.connections
      BY <1>1, <2>3, <2>4, <2>5, <2>7
    <3>3. NumberOf(uiOut', Connecting) \in Nat
      BY <2>4, <2>7
    <3>. QED
      BY <1>4, <2>3, <2>6, <3>1, <3>2, <3>3 DEF CountsKept
  <2>. QED
    BY <1>2, <1>3, <2>3, <2>4, <2>6, <2>8
<1>7. CASE UiSends \/ ListenerAccepts
  <2>1. PICK m \in Connecting \cup Broadcasts :
           /\ Send(m)
           /\ \/ /\ uiOut # <<>> /\ m = Head(uiOut) /\ uiOut' = <<>> /\ UNCHANGED asked
              \/ /\ m \in Connecting /\ UNCHANGED uiOut /\ asked.connections < MaxDevices
                 /\ asked' = [asked EXCEPT !.connections = @ + 1]
    <3>1. CASE UiSends
      <4>1. Head(uiOut) \in Connecting \cup Broadcasts /\ uiOut # <<>>
        BY <1>0, <3>1, Removed DEF UiSends
      <4>. QED
        BY <3>1, <4>1 DEF UiSends
    <3>2. CASE ListenerAccepts
      BY <3>2 DEF ListenerAccepts, uiVars, Connecting
    <3>. QED
      BY <1>7, <3>1, <3>2
  <2>2. m \in Sent
    BY KindsOfMessages
  <2>3. One(m \in Connecting) \in {0, 1}
    BY DEF One
  <2>4. /\ asked' \in [connections : 0..MaxDevices, requests : 0..MaxRequests]
        /\ asked'.connections \in Nat
        /\ uiOut' \in Seq(Connecting \cup Broadcasts) /\ Len(uiOut') <= 1
        /\ NumberOf(uiOut', Connecting) \in Nat
        /\ NumberOf(uiOut', Connecting) + One(m \in Connecting) + asked.connections
             <= NumberOf(uiOut, Connecting) + asked'.connections
    <3>1. CASE uiOut # <<>> /\ m = Head(uiOut) /\ uiOut' = <<>> /\ UNCHANGED asked
      <4>1. NumberOf(uiOut, Connecting) = One(m \in Connecting)
        BY <1>0, <3>1, NumberOfLast DEF One
      <4>2. NumberOf(uiOut', Connecting) = 0 /\ Len(uiOut') = 0 /\ uiOut' \in Seq(Connecting \cup Broadcasts)
        BY <3>1, NumberOfNone
      <4>. QED
        BY <1>0, <1>1, <2>3, <3>1, <4>1, <4>2
    <3>2. CASE /\ m \in Connecting /\ UNCHANGED uiOut /\ asked.connections < MaxDevices
               /\ asked' = [asked EXCEPT !.connections = @ + 1]
      <4>1. One(m \in Connecting) = 1
        BY <3>2 DEF One
      <4>2. /\ asked' \in [connections : 0..MaxDevices, requests : 0..MaxRequests]
            /\ asked'.connections = asked.connections + 1
        BY <1>0, <3>2, BoundsAssumption
      <4>. QED
        BY <1>0, <1>1, <3>2, <4>1, <4>2
    <3>. QED
      BY <2>1, <3>1, <3>2
  <2>5. /\ RouterTyped'
        /\ Transit("cm", Connecting)' = Transit("cm", Connecting) + One(m \in Connecting)
    BY <2>1, <2>2, SendingCounts
  <2>6. ASSUME NEW id \in Ids
        PROVE  /\ Transit("dm", {Announcement(id)})' = Transit("dm", {Announcement(id)})
               /\ Transit("dm", {Removal(id)})' = Transit("dm", {Removal(id)})
               /\ Transit("cm", {Release(id)})' = Transit("cm", {Release(id)})
    <3>1. /\ One(m = Announcement(id)) = 0 /\ One(m = Removal(id)) = 0 /\ One(m = Release(id)) = 0
      BY DEF One, Connecting, Broadcasts, Announcement, Removal, Release, Message
    <3>2. /\ Transit("dm", {Announcement(id)})' = Transit("dm", {Announcement(id)}) + 0
          /\ Transit("dm", {Removal(id)})' = Transit("dm", {Removal(id)}) + 0
          /\ Transit("cm", {Release(id)})' = Transit("cm", {Release(id)}) + 0
      <4>1. /\ Transit("dm", {Announcement(id)})'
                 = Transit("dm", {Announcement(id)}) + One(m = Announcement(id))
            /\ Transit("dm", {Removal(id)})' = Transit("dm", {Removal(id)}) + One(m = Removal(id))
            /\ Transit("cm", {Release(id)})' = Transit("cm", {Release(id)}) + One(m = Release(id))
        BY <2>1, <2>2, SendingCounts
      <4>. QED
        BY <3>1, <4>1
    <3>. QED
      BY <3>2, CountsAreNat
  <2>7. Numbered' /\ Fresh' /\ RemovalsInOrder' /\ Agreement'
    BY <1>4, <2>3, <2>4, <2>5, <2>6
  <2>. QED
    BY <1>2, <1>3, <2>4, <2>5, <2>7
<1>. QED
  BY <1>5, <1>6, <1>7
-----------------------------------------------------------------------------
(* The ConnectionManager: what it takes from its channel and what it sends.*)
LEMMA CmStep ==
  ASSUME DeviceInvariant, CmNewJsonStream \/ CmConnectTo \/ CmRemoveDataConnections \/ CmSends
  PROVE  DeviceInvariant'
<1>. USE DEF DeviceInvariant
<1>. DEFINE out == Connecting \cup {Announcement(id) : id \in Ids}
<1>0. /\ UNCHANGED <<dmConns, dm, dst, evQ, dstQuit, uiOut, uiShown, running, phase, asked>>
      /\ cmOut \in Seq(out) /\ Len(cmOut) <= 1
      /\ nextId \in Nat /\ cmConns \subseteq 0 .. (nextId - 1)
      /\ asked.connections \in Nat /\ asked.connections <= MaxDevices
  BY BoundsAssumption DEF CmNewJsonStream, CmConnectTo, CmRemoveDataConnections, CmSends, CmElsewhere,
         dmVars, dstVars, uiVars, libVars, Typed
<1>1. DmInOrder' /\ NoTaskIsLost'
  BY <1>0 DEF DmInOrder, Quitting, NoTaskIsLost
<1>2. ASSUME cmOut' \in Seq(out), Len(cmOut') <= 1, nextId' \in Nat,
             cmConns' \subseteq 0 .. (nextId' - 1)
      PROVE  Typed'
  BY <1>0, <1>2 DEF Typed
<1>3. ASSUME \A id \in Ids : Transit("dm", {Removal(id)})' = Transit("dm", {Removal(id)})
      PROVE  RemovalsInOrder'
  <2>1. \A id \in Ids : Removals(id)' = Removals(id)
    BY <1>0, <1>3 DEF Removals
  <2>. QED
    BY <1>0, <2>1 DEF RemovalsInOrder, Quitting
<1>4. /\ Transit("cm", Connecting) \in Nat /\ NumberOf(cmOut, Connecting) \in Nat
      /\ NumberOf(uiOut, Connecting) \in Nat
  BY CountsAreNat, PositionsFinite DEF Typed
<1>5. \A id \in Ids : /\ Transit("dm", {Announcement(id)}) \in Nat
                      /\ NumberOf(cmOut, {Announcement(id)}) \in Nat
                      /\ Announcements(id) \in Nat
                      /\ Transit("cm", {Release(id)}) \in Nat
  <2>. SUFFICES ASSUME NEW id \in Ids
                PROVE  /\ Transit("dm", {Announcement(id)}) \in Nat
                       /\ NumberOf(cmOut, {Announcement(id)}) \in Nat
                       /\ Announcements(id) \in Nat
                       /\ Transit("cm", {Release(id)}) \in Nat
    OBVIOUS
  <2>1. /\ Transit("dm", {Announcement(id)}) \in Nat /\ Transit("cm", {Release(id)}) \in Nat
        /\ NumberOf(cmOut, {Announcement(id)}) \in Nat
    BY <1>0, CountsAreNat, PositionsFinite
  <2>. QED
    BY <2>1 DEF Announcements
<1>6. ASSUME UNCHANGED <<cmConns, nextId>>,
             \A id \in Ids : /\ Announcements(id)' = Announcements(id)
                             /\ Transit("cm", {Release(id)})' = Transit("cm", {Release(id)})
      PROVE  Fresh' /\ Agreement'
  <2>1. Fresh'
    BY <1>0, <1>6 DEF Fresh
  <2>2. Agreement'
    BY <1>0, <1>6 DEF Agreement
  <2>. QED
    BY <2>1, <2>2
<1>7. CASE CmNewJsonStream
  <2>0. PICK n : n = nextId
    OBVIOUS
  <2>1. /\ Receives("cm", "NewJsonStream") /\ "cm" \in Components
        /\ cmOut = <<>> /\ cmOut' = <<Announcement(n)>> /\ nextId' = n + 1 /\ cmConns' = cmConns \cup {n}
    BY <1>7, <2>0 DEF CmNewJsonStream, Components, Announcement
  <2>2. PICK h : h = Head(chan["cm"])
    OBVIOUS
  <2>3. /\ RouterTyped' /\ h \in Sent /\ h.type = "NewJsonStream"
        /\ Transit("cm", Connecting) = Transit("cm", Connecting)' + One(h \in Connecting)
        /\ Transit("cm", Connecting)' \in Nat
    BY <2>1, <2>2, ReceivingCounts
  <2>4. h \in Connecting
    BY <2>3, KindsOfMessages
  <2>5. Transit("cm", Connecting) = Transit("cm", Connecting)' + 1
    BY <2>3, <2>4 DEF One
  <2>6. ASSUME NEW id \in Ids
        PROVE  /\ Transit("dm", {Announcement(id)})' = Transit("dm", {Announcement(id)})
               /\ Transit("dm", {Removal(id)})' = Transit("dm", {Removal(id)})
               /\ Transit("cm", {Release(id)})' = Transit("cm", {Release(id)})
    <3>1. /\ One(h = Announcement(id)) = 0 /\ One(h = Removal(id)) = 0 /\ One(h = Release(id)) = 0
      BY <2>3 DEF One, Announcement, Removal, Release, Message
    <3>2. CountsTaken(h, id)
      BY <2>1, <2>2, ReceivingCounts
    <3>. QED
      BY <3>1, <3>2 DEF CountsTaken
  <2>7. NumberOf(cmOut, Connecting) = 0 /\ \A id \in Ids : NumberOf(cmOut, {Announcement(id)}) = 0
    BY <2>1, NumberOfNone
  <2>8. n \in Ids /\ n \in Nat
    <3>1. Transit("cm", Connecting) + NumberOf(cmOut, Connecting) + NumberOf(uiOut, Connecting)
            + n <= asked.connections
      BY <2>0 DEF Numbered
    <3>2. n <= MaxDevices - 1
      BY <1>0, <1>4, <2>0, <2>3, <2>5, <2>7, <3>1, BoundsAssumption
    <3>. QED
      BY <1>0, <2>0, <3>2, BoundsAssumption DEF Ids
  <2>9. /\ cmOut' \in Seq(out) /\ Len(cmOut') <= 1 /\ NumberOf(cmOut', Connecting) = 0
        /\ \A id \in Ids : NumberOf(cmOut', {Announcement(id)}) = One(id = n)
    <3>1. Announcement(n) \in out /\ Announcement(n) \notin Connecting
      BY <2>8, KindsDiffer
    <3>2. \A S : <<Announcement(n)>> \in Seq(out)
                 /\ NumberOf(<<Announcement(n)>>, S) = IF Announcement(n) \in S THEN 1 ELSE 0
      BY <3>1, NumberOfOne
    <3>3. \A id \in Ids : Announcement(n) \in {Announcement(id)} <=> id = n
      BY KindsDiffer
    <3>. QED
      BY <2>1, <3>1, <3>2, <3>3 DEF One
  <2>10. Typed'
    <3>1. cmConns' \subseteq 0 .. (nextId' - 1) /\ nextId' \in Nat
      BY <1>0, <2>0, <2>1
    <3>. QED
      BY <1>2, <2>9, <3>1
  <2>11. Numbered'
    <3>1. Transit("cm", Connecting) + 0 + NumberOf(uiOut, Connecting) + n <= asked.connections
      BY <2>0, <2>7 DEF Numbered
    <3>2. Transit("cm", Connecting)' + 0 + NumberOf(uiOut, Connecting) + (n + 1) <= asked.connections
      BY <1>0, <1>4, <2>0, <2>3, <2>5, <3>1
    <3>. QED
      BY <1>0, <2>1, <2>9, <3>2 DEF Numbered
  <2>12. ASSUME NEW id \in Ids
         PROVE  Announcements(id)' = Announcements(id) + One(id = n)
    <3>1. Transit("dm", {Announcement(id)}) \in Nat
      BY <1>5
    <3>2. NumberOf(cmOut, {Announcement(id)}) = 0 /\ NumberOf(cmOut', {Announcement(id)}) = One(id = n)
      BY <2>7, <2>9
    <3>3. Transit("dm", {Announcement(id)})' = Transit("dm", {Announcement(id)})
      BY <2>6
    <3>. QED
      BY <3>1, <3>2, <3>3 DEF Announcements
  <2>13. ASSUME NEW id \in Ids, id # n
         PROVE  Announcements(id)' = Announcements(id)
    <3>1. One(id = n) = 0 /\ Announcements(id) \in Nat
      BY <1>5, <2>13 DEF One
    <3>. QED
      BY <2>12, <3>1
  <2>14. /\ Announcements(n) = 0 /\ Announcements(n)' = 1 /\ dst[n] = "absent"
         /\ n \notin dmConns \cup dstQuit
    <3>1. /\ Announcements(n) = 0 /\ dst[n] = "absent" /\ n \notin dmConns \cup dstQuit
      BY <2>0, <2>8 DEF Fresh
    <3>2. Announcements(n)' = 0 + 1
      BY <2>8, <2>12, <3>1 DEF One
    <3>. QED
      BY <3>1, <3>2
  <2>15. Fresh'
    <3>. SUFFICES ASSUME NEW id \in Ids
                  PROVE  /\ Announcements(id)' <= 1
                         /\ id >= n + 1 => Announcements(id)' = 0
                         /\ id >= n + 1 \/ Announcements(id)' = 1 => dst[id] = "absent"
                         /\ dst[id] = "absent" => id \notin dmConns \cup dstQuit
      BY <1>0, <2>1 DEF Fresh
    <3>1. /\ Announcements(id) <= 1 /\ (id >= n => Announcements(id) = 0)
          /\ id >= n \/ Announcements(id) = 1 => dst[id] = "absent"
          /\ dst[id] = "absent" => id \notin dmConns \cup dstQuit
      BY <2>0 DEF Fresh
    <3>2. id >= n + 1 => id >= n /\ id # n
      BY <2>8 DEF Ids
    <3>3. CASE id = n
      BY <2>14, <3>2, <3>3
    <3>4. CASE id # n
      BY <2>13, <3>1, <3>2, <3>4
    <3>. QED
      BY <3>3, <3>4
  <2>16. Agreement'
    <3>. SUFFICES ASSUME phase = "running", NEW id \in Ids
                  PROVE  Announcements(id)' + One(id \in dmConns) + Transit("cm", {Release(id)})
                           = One(id \in cmConns')
      BY <1>0, <2>6 DEF Agreement
    <3>1. Announcements(id) + One(id \in dmConns) + Transit("cm", {Release(id)})
            = One(id \in cmConns)
      BY DEF Agreement
    <3>2. CASE id = n
      <4>1. id \notin cmConns /\ id \in cmConns'
        BY <1>0, <2>0, <2>1, <3>2
      <4>2. Announcements(id) + One(id \in dmConns) + Transit("cm", {Release(id)}) = 0
            /\ One(id \in cmConns') = 1 /\ One(id \in dmConns) = 0
        BY <2>14, <3>1, <3>2, <4>1 DEF One
      <4>3. Transit("cm", {Release(id)}) \in Nat /\ Announcements(id) = 0
        BY <1>5, <2>14, <3>2
      <4>4. Transit("cm", {Release(id)}) = 0
        BY <4>2, <4>3
      <4>. QED
        BY <2>14, <3>2, <4>2, <4>4
    <3>3. CASE id # n
      <4>1. One(id \in cmConns') = One(id \in cmConns)
        BY <2>1, <3>3 DEF One
      <4>. QED
        BY <2>13, <3>1, <3>3, <4>1
    <3>. QED
      BY <3>2, <3>3
  <2>. QED
    BY <1>1, <1>3, <2>3, <2>6, <2>10, <2>11, <2>15, <2>16
<1>8. CASE CmConnectTo
  <2>1. /\ Receives("cm", "ConnectTo") /\ "cm" \in Components /\ UNCHANGED <<nextId, cmConns>>
        /\ cmOut = <<>> /\ (cmOut' = <<>> \/ \E m \in Connecting : cmOut' = <<m>>)
    BY <1>8 DEF CmConnectTo, Components, Connecting
  <2>2. PICK h : h = Head(chan["cm"])
    OBVIOUS
  <2>3. /\ RouterTyped' /\ h \in Sent /\ h.type = "ConnectTo"
        /\ Transit("cm", Connecting) = Transit("cm", Connecting)' + One(h \in Connecting)
        /\ Transit("cm", Connecting)' \in Nat
    BY <2>1, <2>2, ReceivingCounts
  <2>4. h \in Connecting
    BY <2>3, KindsOfMessages
  <2>5. Transit("cm", Connecting) = Transit("cm", Connecting)' + 1
    BY <2>3, <2>4 DEF One
  <2>6. ASSUME NEW id \in Ids
        PROVE  /\ Transit("dm", {Announcement(id)})' = Transit("dm", {Announcement(id)})
               /\ Transit("dm", {Removal(id)})' = Transit("dm", {Removal(id)})
               /\ Transit("cm", {Release(id)})' = Transit("cm", {Release(id)})
    <3>1. /\ One(h = Announcement(id)) = 0 /\ One(h = Removal(id)) = 0 /\ One(h = Release(id)) = 0
      BY <2>3 DEF One, Announcement, Removal, Release, Message
    <3>2. CountsTaken(h, id)
      BY <2>1, <2>2, ReceivingCounts
    <3>. QED
      BY <3>1, <3>2 DEF CountsTaken
  <2>7. NumberOf(cmOut, Connecting) = 0 /\ \A id \in Ids : NumberOf(cmOut, {Announcement(id)}) = 0
    BY <2>1, NumberOfNone
  <2>8. /\ cmOut' \in Seq(out) /\ Len(cmOut') <= 1 /\ NumberOf(cmOut', Connecting) \in {0, 1}
        /\ \A id \in Ids : NumberOf(cmOut', {Announcement(id)}) = 0
    <3>1. CASE cmOut' = <<>>
      BY <3>1, NumberOfNone
    <3>2. CASE \E m \in Connecting : cmOut' = <<m>>
      <4>1. PICK m \in Connecting : cmOut' = <<m>>
        BY <3>2
      <4>2. \A id : m # Announcement(id)
        BY KindsDiffer
      <4>3. \A S : <<m>> \in Seq(out) /\ NumberOf(<<m>>, S) = IF m \in S THEN 1 ELSE 0
        BY NumberOfOne
      <4>. QED
        BY <4>1, <4>2, <4>3
    <3>. QED
      BY <2>1, <3>1, <3>2
  <2>9. Numbered'
    <3>1. Transit("cm", Connecting) + 0 + NumberOf(uiOut, Connecting) + nextId <= asked.connections
      BY <2>7 DEF Numbered
    <3>2. Transit("cm", Connecting)' + NumberOf(cmOut', Connecting) + NumberOf(uiOut, Connecting)
            + nextId <= asked.connections
      BY <1>0, <1>4, <2>3, <2>5, <2>8, <3>1
    <3>. QED
      BY <1>0, <2>1, <3>2 DEF Numbered
  <2>10. \A id \in Ids : Announcements(id)' = Announcements(id)
    BY <2>6, <2>7, <2>8 DEF Announcements
  <2>11. Typed'
    BY <1>0, <1>2, <2>1, <2>8
  <2>. QED
    BY <1>1, <1>3, <1>6, <2>1, <2>3, <2>6, <2>9, <2>10, <2>11
<1>9. CASE CmRemoveDataConnections
  <2>1. PICK h : h = Head(chan["cm"])
    OBVIOUS
  <2>2. /\ Receives("cm", "RemoveDataConnections") /\ "cm" \in Components
        /\ UNCHANGED <<nextId, cmOut>> /\ cmConns' = cmConns \ {h.id}
    BY <1>9, <2>1 DEF CmRemoveDataConnections, Components
  <2>3. /\ RouterTyped' /\ h \in Sent /\ h.type = "RemoveDataConnections"
        /\ Transit("cm", Connecting) = Transit("cm", Connecting)' + One(h \in Connecting)
        /\ Transit("cm", Connecting)' \in Nat
    BY <2>1, <2>2, ReceivingCounts
  <2>4. h.id \in Ids /\ h = Release(h.id)
    BY <2>3, KindsOfMessages
  <2>5. Transit("cm", Connecting)' = Transit("cm", Connecting)
    <3>1. One(h \in Connecting) = 0
      BY <2>4, KindsDiffer DEF One
    <3>. QED
      BY <2>3, <3>1
  <2>6. ASSUME NEW id \in Ids
        PROVE  /\ Transit("dm", {Announcement(id)})' = Transit("dm", {Announcement(id)})
               /\ Transit("dm", {Removal(id)})' = Transit("dm", {Removal(id)})
               /\ Transit("cm", {Release(id)}) = Transit("cm", {Release(id)})' + One(id = h.id)
               /\ Transit("cm", {Release(id)})' \in Nat
    <3>1. /\ One(h = Announcement(id)) = 0 /\ One(h = Removal(id)) = 0
          /\ One(h = Release(id)) = One(id = h.id)
      BY <2>4, KindsDiffer DEF One
    <3>2. CountsTaken(h, id)
      BY <2>1, <2>2, ReceivingCounts
    <3>. QED
      BY <3>1, <3>2 DEF CountsTaken
  <2>7. Typed'
    BY <1>0, <1>2, <2>2
  <2>8. Numbered'
    BY <1>0, <2>2, <2>5 DEF Numbered
  <2>9. \A id \in Ids : Announcements(id)' = Announcements(id)
    BY <2>2, <2>6 DEF Announcements
  <2>10. Fresh'
    BY <1>0, <2>2, <2>9 DEF Fresh
  <2>11. Agreement'
    <3>. SUFFICES ASSUME phase = "running", NEW id \in Ids
                  PROVE  Announcements(id) + One(id \in dmConns) + Transit("cm", {Release(id)})'
                           = One(id \in cmConns')
      BY <1>0, <2>9 DEF Agreement
    <3>1. Announcements(id) + One(id \in dmConns) + Transit("cm", {Release(id)})
            = One(id \in cmConns)
      BY DEF Agreement
    <3>2. One(id \in dmConns) \in Nat /\ One(id \in cmConns) \in {0, 1}
      BY DEF One
    <3>3. CASE id = h.id
      <4>1. Transit("cm", {Release(id)}) = Transit("cm", {Release(id)})' + 1 /\ One(id \in cmConns') = 0
        BY <2>2, <2>6, <3>3 DEF One
      <4>2. /\ Announcements(id) \in Nat /\ Transit("cm", {Release(id)})' \in Nat
        BY <1>5, <2>6
      <4>. QED
        BY <3>1, <3>2, <4>1, <4>2
    <3>4. CASE id # h.id
      <4>1. /\ Transit("cm", {Release(id)}) = Transit("cm", {Release(id)})' + 0
            /\ One(id \in cmConns') = One(id \in cmConns)
        BY <2>2, <2>6, <3>4 DEF One
      <4>2. Transit("cm", {Release(id)})' \in Nat
        BY <2>6
      <4>. QED
        BY <3>1, <4>1, <4>2
    <3>. QED
      BY <3>3, <3>4
  <2>. QED
    BY <1>1, <1>3, <2>3, <2>6, <2>7, <2>8, <2>10, <2>11
<1>10. CASE CmSends
  <2>1. PICK m : m = Head(cmOut)
    OBVIOUS
  <2>2. /\ cmOut # <<>> /\ Send(m) /\ cmOut' = <<>> /\ UNCHANGED <<nextId, cmConns>>
    BY <1>10, <2>1 DEF CmSends
  <2>3. m \in out
    BY <1>0, <2>1, <2>2, Removed
  <2>4. m \in Sent
    BY <2>3, KindsOfMessages
  <2>5. \A id : m # Removal(id) /\ m # Release(id)
    BY <2>3, KindsDiffer
  <2>6. /\ NumberOf(cmOut, Connecting) = One(m \in Connecting)
        /\ \A id \in Ids : NumberOf(cmOut, {Announcement(id)}) = One(m = Announcement(id))
        /\ NumberOf(cmOut', Connecting) = 0
        /\ \A id \in Ids : NumberOf(cmOut', {Announcement(id)}) = 0
        /\ cmOut' \in Seq(out) /\ Len(cmOut') <= 1
    <3>1. \A S : NumberOf(cmOut, S) = IF m \in S THEN 1 ELSE 0
      BY <1>0, <2>1, <2>2, NumberOfLast
    <3>2. \A S : NumberOf(cmOut', S) = 0
      BY <2>2, NumberOfNone
    <3>. QED
      BY <2>2, <3>1, <3>2 DEF One
  <2>7. /\ RouterTyped'
        /\ Transit("cm", Connecting)' = Transit("cm", Connecting) + One(m \in Connecting)
    BY <2>2, <2>4, SendingCounts
  <2>8. ASSUME NEW id \in Ids
        PROVE  /\ Announcements(id)' = Announcements(id)
               /\ Transit("dm", {Removal(id)})' = Transit("dm", {Removal(id)})
               /\ Transit("cm", {Release(id)})' = Transit("cm", {Release(id)})
    <3>1. One(m = Removal(id)) = 0 /\ One(m = Release(id)) = 0
      BY <2>5 DEF One
    <3>2. /\ Transit("dm", {Announcement(id)})'
               = Transit("dm", {Announcement(id)}) + One(m = Announcement(id))
          /\ Transit("dm", {Removal(id)})' = Transit("dm", {Removal(id)}) + One(m = Removal(id))
          /\ Transit("cm", {Release(id)})' = Transit("cm", {Release(id)}) + One(m = Release(id))
      BY <2>2, <2>4, SendingCounts
    <3>3. One(m = Announcement(id)) \in Nat
      BY DEF One
    <3>4. Transit("dm", {Announcement(id)}) \in Nat /\ Transit("dm", {Removal(id)}) \in Nat
          /\ Transit("cm", {Release(id)}) \in Nat
      BY CountsAreNat
    <3>5. NumberOf(cmOut', {Announcement(id)}) = 0
          /\ NumberOf(cmOut, {Announcement(id)}) = One(m = Announcement(id))
      BY <2>6
    <3>6. Announcements(id)' = Announcements(id)
      BY <3>2, <3>3, <3>4, <3>5 DEF Announcements
    <3>. QED
      BY <3>1, <3>2, <3>4, <3>6
  <2>9. Numbered'
    <3>1. Transit("cm", Connecting) + One(m \in Connecting) + NumberOf(uiOut, Connecting)
            + nextId <= asked.connections
      BY <2>6 DEF Numbered
    <3>2. One(m \in Connecting) \in Nat
      BY DEF One
    <3>3. Transit("cm", Connecting)' + 0 + NumberOf(uiOut, Connecting) + nextId <= asked.connections
      BY <1>0, <1>4, <2>7, <3>1, <3>2
    <3>. QED
      BY <1>0, <2>2, <2>6, <3>3 DEF Numbered
  <2>10. Typed'
    BY <1>0, <1>2, <2>2, <2>6
  <2>. QED
    BY <1>1, <1>3, <1>6, <2>2, <2>7, <2>8, <2>9, <2>10
<1>. QED
  BY <1>7, <1>8, <1>9, <1>10
-----------------------------------------------------------------------------
(* The DeviceManager, where it neither takes nor sends one of the counted  *)
(* messages.                                                               *)
LEMMA DmQuietStep ==
  ASSUME DeviceInvariant,
         \/ DmBroadcast("DisconnectAllDevices", "Disconnect")
         \/ DmBroadcast("RunDeviceConnectionPing", "SendPing")
         \/ DmSendsEvent \/ DmBroadcastDone \/ DmTaskEnded \/ DmAnnounces
         \/ DmQuits \/ DmQuitsTask \/ DmQuitTaskEnded
  PROVE  DeviceInvariant'
<1>. USE DEF DeviceInvariant
<1>0. /\ UNCHANGED <<nextId, cmConns, cmOut, uiOut, uiShown, running, phase, asked, dst>>
      /\ dm \in DmBusy /\ dmConns \subseteq Ids /\ dstQuit \subseteq Ids
      /\ evQ \in [Ids -> Seq({"Disconnect", "SendPing"})]
  BY DEF DmBroadcast, DmSendsEvent, DmBroadcastDone, DmTaskEnded, DmAnnounces, DmQuits, DmQuitsTask,
         DmQuitTaskEnded, DmElsewhere, cmVars, uiVars, libVars, dstVars, Typed
<1>1. RouterTyped' /\ CountsKept
  <2>1. CASE UNCHANGED routerVars
    BY <2>1, RoutingCounts
  <2>2. CASE DmAnnounces
    <3>1. LastWord \in Sent /\ Send(LastWord) /\ LastWord.type = "AllDevicesAreNowDisconnected"
      BY <2>2, KindsOfMessages DEF DmAnnounces, LastWord, Message
    <3>. QED
      BY <3>1, OtherMessageSent
  <2>3. CASE \E type \in {"DisconnectAllDevices", "RunDeviceConnectionPing"} : Receives("dm", type)
    <3>1. "dm" \in Components
      BY DEF Components
    <3>. QED
      BY <2>3, <3>1, OtherMessageReceived
  <2>. QED
    BY <2>1, <2>2, <2>3 DEF DmBroadcast, DmSendsEvent, DmBroadcastDone, DmTaskEnded, DmQuits,
                           DmQuitsTask, DmQuitTaskEnded
<1>2. Numbered'
  BY <1>0, <1>1, KeptByTheRest
<1>3. \/ /\ dm'.pc \in {"quit", "quitAwait"} /\ phase # "running"
         /\ dmConns' \subseteq dmConns /\ dmConns' \cup dstQuit' = dmConns \cup dstQuit
      \/ /\ UNCHANGED <<dmConns, dstQuit>> /\ ~Quitting
         /\ dm.pc # "release" /\ dm'.pc \notin {"release", "quit", "quitAwait"}
  <2>1. CASE \/ DmBroadcast("DisconnectAllDevices", "Disconnect")
             \/ DmBroadcast("RunDeviceConnectionPing", "SendPing")
             \/ DmSendsEvent \/ DmBroadcastDone \/ DmTaskEnded \/ DmAnnounces
    <3>1. CASE \/ DmBroadcast("DisconnectAllDevices", "Disconnect")
               \/ DmBroadcast("RunDeviceConnectionPing", "SendPing")
      BY <3>1 DEF DmBroadcast, DmIdle, Quitting, dstVars
    <3>2. CASE DmSendsEvent
      BY <1>0, <3>2 DEF DmSendsEvent, DmBusy, Quitting
    <3>3. CASE DmBroadcastDone \/ DmAnnounces
      BY <3>3 DEF DmBroadcastDone, DmAnnounces, DmIdle, Quitting, dstVars
    <3>4. CASE DmTaskEnded
      BY <1>0, <3>4 DEF DmTaskEnded, DmIdle, DmBusy, Quitting, dstVars
    <3>. QED
      BY <2>1, <3>1, <3>2, <3>3, <3>4
  <2>2. CASE DmQuits
    BY <1>0, <2>2 DEF DmQuits, QuitRequested, DmIdle, dstVars
  <2>3. CASE DmQuitsTask \/ DmQuitTaskEnded
    <3>1. Quitting /\ phase # "running"
      BY <2>3 DEF DmQuitsTask, DmQuitTaskEnded, Quitting, DmInOrder
    <3>2. dm'.pc \in {"quit", "quitAwait"}
      BY <1>0, <2>3 DEF DmQuitsTask, DmQuitTaskEnded, DmBusy
    <3>. QED
      BY <2>3, <3>1, <3>2 DEF DmQuitsTask, DmQuitTaskEnded, dstVars
  <2>. QED
    BY <2>1, <2>2, <2>3
<1>4. /\ dm' \in DmBusy /\ dm'.todo \subseteq dmConns' /\ (dm'.pc # "broadcast" => dm'.todo = {})
      /\ dm'.pc \in {"release", "awaitEnd", "quitAwait"} => dm'.id \in Ids
      /\ dm'.pc = "announce" => dmConns' = {}
      /\ dm'.pc = "broadcast" => dm'.event # "none"
  <2>1. CASE \/ DmBroadcast("DisconnectAllDevices", "Disconnect")
             \/ DmBroadcast("RunDeviceConnectionPing", "SendPing")
    BY <1>0, <2>1 DEF DmBroadcast, DmIdle, DmBusy
  <2>2. CASE DmSendsEvent
    BY <1>0, <2>2 DEF DmSendsEvent, DmBusy, DmInOrder
  <2>3. CASE DmBroadcastDone \/ DmAnnounces \/ DmQuits
    BY <1>0, <2>3 DEF DmBroadcastDone, DmAnnounces, DmQuits, DmIdle, DmBusy
  <2>4. CASE DmTaskEnded
    BY <1>0, <2>4 DEF DmTaskEnded, DmIdle, DmBusy, DmInOrder
  <2>5. CASE DmQuitsTask
    BY <1>0, <2>5 DEF DmQuitsTask, DmBusy, DmInOrder
  <2>6. CASE DmQuitTaskEnded
    BY <1>0, <2>6 DEF DmQuitTaskEnded, DmBusy, DmInOrder
  <2>. QED
    BY <2>1, <2>2, <2>3, <2>4, <2>5, <2>6
<1>5. dmConns' \cup dstQuit' = dmConns \cup dstQuit /\ dmConns' \subseteq dmConns
  BY <1>3
<1>6. /\ evQ' \in [Ids -> Seq({"Disconnect", "SendPing"})]
      /\ \A i \in Ids : Len(evQ'[i]) <= ChannelSize
  <2>1. CASE UNCHANGED evQ
    BY <2>1 DEF Typed
  <2>2. CASE DmSendsEvent
    <3>1. PICK id \in dm.todo : /\ Len(evQ[id]) < ChannelSize
                                /\ evQ' = [evQ EXCEPT ![id] = Append(@, dm.event)]
      BY <2>2 DEF DmSendsEvent
    <3>2. id \in Ids /\ dm.pc = "broadcast"
      BY <1>0, <2>2 DEF DmInOrder, DmSendsEvent
    <3>3. dm.event \in {"Disconnect", "SendPing"}
      BY <1>0, <3>2 DEF DmInOrder, DmBusy
    <3>4. /\ Append(evQ[id], dm.event) \in Seq({"Disconnect", "SendPing"})
          /\ Len(Append(evQ[id], dm.event)) = Len(evQ[id]) + 1 /\ Len(evQ[id]) \in Nat
      BY <1>0, <3>2, <3>3, Extended
    <3>5. Len(Append(evQ[id], dm.event)) <= ChannelSize
      BY <3>1, <3>4, ChannelAssumption
    <3>. QED
      BY <1>0, <3>1, <3>2, <3>4, <3>5 DEF Typed
  <2>. QED
    BY <2>1, <2>2 DEF DmBroadcast, DmBroadcastDone, DmTaskEnded, DmAnnounces, DmQuits, DmQuitsTask,
                      DmQuitTaskEnded, dstVars
<1>7. Typed'
  BY <1>0, <1>4, <1>5, <1>6 DEF Typed
<1>8. Fresh' /\ NoTaskIsLost'
  <2>1. \A id \in Ids : Announcements(id)' = Announcements(id)
    BY <1>0, <1>1 DEF CountsKept, Announcements
  <2>2. Fresh'
    BY <1>0, <1>5, <2>1 DEF Fresh
  <2>3. NoTaskIsLost'
    BY <1>0, <1>5 DEF NoTaskIsLost
  <2>. QED
    BY <2>2, <2>3
<1>9. DmInOrder'
  BY <1>0, <1>3, <1>4 DEF DmInOrder, Quitting
<1>10. RemovalsInOrder' /\ Agreement'
  <2>1. CASE dm'.pc \in {"quit", "quitAwait"} /\ phase # "running"
    BY <1>0, <2>1 DEF RemovalsInOrder, Agreement, Quitting
  <2>2. CASE /\ UNCHANGED <<dmConns, dstQuit>> /\ ~Quitting
             /\ dm.pc # "release" /\ dm'.pc \notin {"release", "quit", "quitAwait"}
    <3>1. \A id \in Ids : Removals(id)' = Removals(id)
      BY <1>1, <2>2 DEF CountsKept, Removals, One
    <3>2. RemovalsInOrder'
      BY <1>0, <2>2, <3>1 DEF RemovalsInOrder
    <3>. QED
      BY <1>0, <1>1, <2>2, <3>2, KeptByTheRest
  <2>. QED
    BY <1>3, <2>1, <2>2
<1>. QED
  BY <1>1, <1>2, <1>7, <1>8, <1>9, <1>10

(* A new connection comes to the DeviceManager.                            *)
LEMMA DmNewStep ==
  ASSUME DeviceInvariant, DmNewDeviceConnection
  PROVE  DeviceInvariant'
<1>. USE DEF DeviceInvariant
<1>0. PICK h : h = Head(chan["dm"])
  OBVIOUS
<1>. DEFINE k == h.id
<1>1. /\ UNCHANGED <<nextId, cmConns, cmOut, uiOut, uiShown, running, phase, asked, dm, evQ, dstQuit>>
      /\ dm.pc = "idle" /\ Receives("dm", "NewDeviceConnection") /\ "dm" \in Components
      /\ dmConns' = dmConns \cup {k} /\ dst' = [dst EXCEPT ![k] = "starting"]
      /\ dst \in [Ids -> DstStates] /\ dmConns \subseteq Ids
  BY <1>0 DEF DmNewDeviceConnection, DmElsewhere, cmVars, uiVars, libVars, Components, Typed
<1>2. /\ RouterTyped' /\ h \in Sent /\ h.type = "NewDeviceConnection"
      /\ Transit("cm", Connecting) = Transit("cm", Connecting)' + One(h \in Connecting)
      /\ Transit("cm", Connecting)' \in Nat
  BY <1>0, <1>1, ReceivingCounts
<1>3. k \in Ids /\ h = Announcement(k)
  BY <1>2, KindsOfMessages
<1>4. One(h \in Connecting) = 0
  BY <1>3, KindsDiffer DEF One
<1>5. ASSUME NEW id \in Ids
      PROVE  /\ Transit("dm", {Announcement(id)}) = Transit("dm", {Announcement(id)})' + One(id = k)
             /\ Transit("dm", {Announcement(id)})' \in Nat
             /\ Transit("dm", {Removal(id)})' = Transit("dm", {Removal(id)})
             /\ Transit("cm", {Release(id)})' = Transit("cm", {Release(id)})
  <2>1. /\ One(h = Announcement(id)) = One(id = k) /\ One(h = Removal(id)) = 0
        /\ One(h = Release(id)) = 0
    BY <1>3, KindsDiffer DEF One
  <2>2. CountsTaken(h, id)
    BY <1>0, <1>1, ReceivingCounts
  <2>. QED
    BY <2>1, <2>2 DEF CountsTaken
<1>. HIDE DEF k
<1>6. ASSUME NEW id \in Ids
      PROVE  /\ Announcements(id) = Announcements(id)' + One(id = k) /\ Announcements(id)' \in Nat
             /\ Removals(id)' = Removals(id)
  <2>1. NumberOf(cmOut, {Announcement(id)}) \in Nat /\ NumberOf(cmOut', {Announcement(id)}) = NumberOf(cmOut, {Announcement(id)})
    BY <1>1, PositionsFinite DEF Typed
  <2>2. One(id = k) \in Nat
    BY DEF One
  <2>3. Announcements(id) = Announcements(id)' + One(id = k) /\ Announcements(id)' \in Nat
    <3>. DEFINE t == Transit("dm", {Announcement(id)})
                n == NumberOf(cmOut, {Announcement(id)})
    <3>1. t = t' + One(id = k) /\ t' \in Nat /\ n \in Nat /\ n' = n
      BY <1>5, <2>1
    <3>2. Announcements(id) = t + n /\ Announcements(id)' = t' + n'
      BY DEF Announcements
    <3>. HIDE DEF t, n
    <3>3. PICK o, x, y, u : o = One(id = k) /\ x = t' /\ y = t /\ u = n
      OBVIOUS
    <3>4. y = x + o /\ x \in Nat /\ u \in Nat /\ o \in Nat
      BY <2>2, <3>1, <3>3
    <3>5. y + u = (x + u) + o /\ x + u \in Nat
      BY <3>4
    <3>. QED
      BY <3>1, <3>2, <3>3, <3>5
  <2>4. Removals(id)' = Removals(id)
    BY <1>1, <1>5 DEF Removals
  <2>. QED
    BY <2>3, <2>4
<1>7. /\ Announcements(k) = 1 /\ Announcements(k)' = 0 /\ dst[k] = "absent" /\ ~(k >= nextId)
      /\ k \notin dmConns \cup dstQuit
  <2>1. Announcements(k) = Announcements(k)' + 1 /\ Announcements(k)' \in Nat
    BY <1>3, <1>6 DEF One
  <2>2. /\ Announcements(k) <= 1 /\ (k >= nextId => Announcements(k) = 0)
        /\ k >= nextId \/ Announcements(k) = 1 => dst[k] = "absent"
        /\ dst[k] = "absent" => k \notin dmConns \cup dstQuit
    BY <1>3 DEF Fresh
  <2>3. Announcements(k) = 1 /\ Announcements(k)' = 0
    BY <2>1, <2>2
  <2>. QED
    BY <2>2, <2>3
<1>8. \A id \in Ids : dst'[id] = IF id = k THEN "starting" ELSE dst[id]
  BY <1>1, <1>3
<1>9. ASSUME NEW id \in Ids, id # k PROVE Announcements(id)' = Announcements(id)
  <2>1. One(id = k) = 0
    BY <1>9 DEF One
  <2>. QED
    BY <1>6, <2>1
<1>10. Typed'
  <2>1. dst' \in [Ids -> DstStates] /\ dmConns' \subseteq Ids
    BY <1>1, <1>3 DEF DstStates
  <2>. QED
    BY <1>1, <2>1 DEF Typed
<1>11. Numbered'
  <2>1. Transit("cm", Connecting)' = Transit("cm", Connecting)
    BY <1>2, <1>4
  <2>. QED
    BY <1>1, <2>1 DEF Numbered
<1>12. Fresh'
  <2>. SUFFICES ASSUME NEW id \in Ids
                PROVE  /\ Announcements(id)' <= 1
                       /\ id >= nextId => Announcements(id)' = 0
                       /\ id >= nextId \/ Announcements(id)' = 1 => dst'[id] = "absent"
                       /\ dst'[id] = "absent" => id \notin dmConns' \cup dstQuit
    BY <1>1 DEF Fresh
  <2>1. CASE id = k
    BY <1>3, <1>7, <1>8, <2>1
  <2>2. CASE id # k
    <3>1. dst'[id] = dst[id] /\ (id \in dmConns' <=> id \in dmConns)
      BY <1>1, <1>8, <2>2
    <3>. QED
      BY <1>9, <2>2, <3>1 DEF Fresh
  <2>. QED
    BY <2>1, <2>2
<1>13. RemovalsInOrder'
  <2>. SUFFICES ASSUME NEW id \in Ids
                PROVE  /\ Removals(id) <= 1
                       /\ Removals(id) = 1 => id \in dmConns' /\ dst'[id] = "waiting"
                       /\ id \in dstQuit => id \notin dmConns' /\ dst'[id] \in {"waiting", "ended"}
    BY <1>1, <1>6 DEF RemovalsInOrder
  <2>1. /\ Removals(id) <= 1
        /\ Removals(id) = 1 => id \in dmConns /\ dst[id] = "waiting"
        /\ id \in dstQuit => id \notin dmConns /\ dst[id] \in {"waiting", "ended"}
    BY <1>1 DEF RemovalsInOrder, Quitting
  <2>2. CASE id = k
    BY <1>7, <2>1, <2>2
  <2>3. CASE id # k
    <3>1. dst'[id] = dst[id] /\ (id \in dmConns' <=> id \in dmConns)
      BY <1>1, <1>8, <2>3
    <3>. QED
      BY <2>1, <3>1
  <2>. QED
    BY <2>2, <2>3
<1>14. DmInOrder' /\ NoTaskIsLost'
  <2>1. DmInOrder'
    BY <1>1 DEF DmInOrder, Quitting
  <2>2. NoTaskIsLost'
    BY <1>1, <1>8 DEF NoTaskIsLost
  <2>. QED
    BY <2>1, <2>2
<1>15. Agreement'
  <2>. SUFFICES ASSUME phase = "running", NEW id \in Ids
                PROVE  Announcements(id)' + One(id \in dmConns') + Transit("cm", {Release(id)})
                         = One(id \in cmConns)
    BY <1>1, <1>5 DEF Agreement
  <2>1. Announcements(id) + One(id \in dmConns) + Transit("cm", {Release(id)})
          = One(id \in cmConns)
    BY DEF Agreement
  <2>2. CASE id = k
    <3>1. One(id \in dmConns) = 0 /\ One(id \in dmConns') = 1
      BY <1>1, <1>7, <2>2 DEF One
    <3>2. Announcements(id) = 1 /\ Announcements(id)' = 0
      BY <1>7, <2>2
    <3>. QED
      BY <2>1, <3>1, <3>2
  <2>3. CASE id # k
    <3>1. One(id \in dmConns') = One(id \in dmConns)
      BY <1>1, <2>3 DEF One
    <3>. QED
      BY <1>9, <2>1, <2>3, <3>1
  <2>. QED
    BY <2>2, <2>3
<1>. QED
  BY <1>2, <1>10, <1>11, <1>12, <1>13, <1>14, <1>15

(* A removal is taken from the channel into the hands of the handler.      *)
LEMMA DmRemoveStep ==
  ASSUME DeviceInvariant, DmRemoveConnection
  PROVE  DeviceInvariant'
<1>. USE DEF DeviceInvariant
<1>0. PICK h : h = Head(chan["dm"])
  OBVIOUS
<1>. DEFINE k == h.id
<1>1. /\ UNCHANGED <<nextId, cmConns, cmOut, uiOut, uiShown, running, phase, asked, dmConns, dst, evQ, dstQuit>>
      /\ dm.pc = "idle" /\ Receives("dm", "RemoveConnection") /\ "dm" \in Components
      /\ dm' = [pc |-> "release", id |-> k, event |-> "none", todo |-> {}]
  BY <1>0 DEF DmRemoveConnection, DmIdle, DmElsewhere, cmVars, uiVars, libVars, dstVars, Components
<1>2. /\ RouterTyped' /\ h \in Sent /\ h.type = "RemoveConnection"
      /\ Transit("cm", Connecting) = Transit("cm", Connecting)' + One(h \in Connecting)
      /\ Transit("cm", Connecting)' \in Nat
  BY <1>0, <1>1, ReceivingCounts
<1>3. k \in Ids /\ h = Removal(k)
  BY <1>2, KindsOfMessages
<1>4. One(h \in Connecting) = 0
  BY <1>3, KindsDiffer DEF One
<1>5. ASSUME NEW id \in Ids
      PROVE  /\ Transit("dm", {Removal(id)}) = Transit("dm", {Removal(id)})' + One(id = k)
             /\ Transit("dm", {Removal(id)})' \in Nat
             /\ Transit("dm", {Announcement(id)})' = Transit("dm", {Announcement(id)})
             /\ Transit("cm", {Release(id)})' = Transit("cm", {Release(id)})
  <2>1. /\ One(h = Removal(id)) = One(id = k) /\ One(h = Announcement(id)) = 0
        /\ One(h = Release(id)) = 0
    BY <1>3, KindsDiffer DEF One
  <2>2. CountsTaken(h, id)
    BY <1>0, <1>1, ReceivingCounts
  <2>. QED
    BY <2>1, <2>2 DEF CountsTaken
<1>. HIDE DEF k
<1>6. ASSUME NEW id \in Ids
      PROVE  Announcements(id)' = Announcements(id) /\ Removals(id)' = Removals(id)
  <2>1. Announcements(id)' = Announcements(id)
    BY <1>1, <1>5 DEF Announcements
  <2>2. /\ One(dm.pc = "release" /\ dm.id = id) = 0
        /\ One(dm'.pc = "release" /\ dm'.id = id) = One(id = k) /\ One(id = k) \in Nat
    BY <1>1 DEF One
  <2>3. Removals(id)' = Removals(id)
    <3>. DEFINE t == Transit("dm", {Removal(id)})
                d == One(dm.pc = "release" /\ dm.id = id)
    <3>1. t = t' + One(id = k) /\ t' \in Nat /\ d = 0 /\ d' = One(id = k)
      BY <1>5, <2>2
    <3>2. Removals(id) = t + d /\ Removals(id)' = t' + d'
      BY DEF Removals
    <3>. HIDE DEF t, d
    <3>. QED
      BY <2>2, <3>1, <3>2
  <2>. QED
    BY <2>1, <2>3
<1>7. Typed'
  <2>1. dm' \in DmBusy
    BY <1>1, <1>3 DEF DmBusy
  <2>. QED
    BY <1>1, <2>1 DEF Typed
<1>8. Numbered'
  <2>1. Transit("cm", Connecting)' = Transit("cm", Connecting)
    BY <1>2, <1>4
  <2>. QED
    BY <1>1, <2>1 DEF Numbered
<1>9. Fresh' /\ Agreement'
  <2>1. Fresh'
    BY <1>1, <1>6 DEF Fresh
  <2>2. Agreement'
    BY <1>1, <1>5, <1>6 DEF Agreement
  <2>. QED
    BY <2>1, <2>2
<1>10. RemovalsInOrder'
  BY <1>1, <1>6 DEF RemovalsInOrder, Quitting
<1>11. DmInOrder' /\ NoTaskIsLost'
  BY <1>1, <1>3 DEF DmInOrder, Quitting, NoTaskIsLost
<1>. QED
  BY <1>2, <1>7, <1>8, <1>9, <1>10, <1>11

(* The connection is forgotten, its resources released, its task told.     *)
LEMMA DmReleaseStep ==
  ASSUME DeviceInvariant, DmReleases
  PROVE  DeviceInvariant'
<1>. USE DEF DeviceInvariant
<1>0. PICK k : k = dm.id
  OBVIOUS
<1>1. /\ UNCHANGED <<nextId, cmConns, cmOut, uiOut, uiShown, running, phase, asked, dst, evQ>>
      /\ dm.pc = "release" /\ Send(Release(k)) /\ dm' = [dm EXCEPT !.pc = "awaitEnd"]
      /\ dmConns' = dmConns \ {k} /\ dstQuit' = dstQuit \cup {k}
      /\ dm \in DmBusy /\ dmConns \subseteq Ids /\ dstQuit \subseteq Ids
  BY <1>0 DEF DmReleases, DmElsewhere, cmVars, uiVars, libVars, Release, Typed
<1>2. k \in Ids /\ Release(k) \in Sent /\ ~Quitting
  BY <1>0, <1>1, KindsOfMessages DEF DmInOrder, Quitting
<1>3. /\ RouterTyped'
      /\ Transit("cm", Connecting)' = Transit("cm", Connecting)
  <2>1. One(Release(k) \in Connecting) = 0 /\ Transit("cm", Connecting) \in Nat
    BY KindsDiffer, CountsAreNat DEF One
  <2>2. /\ RouterTyped'
        /\ Transit("cm", Connecting)' = Transit("cm", Connecting) + One(Release(k) \in Connecting)
    BY <1>1, <1>2, SendingCounts
  <2>. QED
    BY <2>1, <2>2
<1>4. ASSUME NEW id \in Ids
      PROVE  /\ Transit("dm", {Announcement(id)})' = Transit("dm", {Announcement(id)})
             /\ Transit("dm", {Removal(id)})' = Transit("dm", {Removal(id)})
             /\ Transit("cm", {Release(id)})' = Transit("cm", {Release(id)}) + One(id = k)
  <2>1. /\ One(Release(k) = Announcement(id)) = 0 /\ One(Release(k) = Removal(id)) = 0
        /\ One(Release(k) = Release(id)) = One(id = k)
    BY KindsDiffer DEF One
  <2>2. /\ Transit("dm", {Announcement(id)})'
             = Transit("dm", {Announcement(id)}) + One(Release(k) = Announcement(id))
        /\ Transit("dm", {Removal(id)})'
             = Transit("dm", {Removal(id)}) + One(Release(k) = Removal(id))
        /\ Transit("cm", {Release(id)})'
             = Transit("cm", {Release(id)}) + One(Release(k) = Release(id))
    BY <1>1, <1>2, SendingCounts
  <2>3. Transit("dm", {Announcement(id)}) \in Nat /\ Transit("dm", {Removal(id)}) \in Nat
    BY CountsAreNat
  <2>. QED
    BY <2>1, <2>2, <2>3
<1>5. /\ dm'.pc = "awaitEnd" /\ dm'.id = dm.id /\ dm'.todo = dm.todo /\ dm' \in DmBusy
  BY <1>1 DEF DmBusy
<1>6. ASSUME NEW id \in Ids
      PROVE  /\ Announcements(id)' = Announcements(id)
             /\ Removals(id) = Removals(id)' + One(id = k) /\ Removals(id)' \in Nat
  <2>1. Announcements(id)' = Announcements(id)
    BY <1>1, <1>4 DEF Announcements
  <2>2. /\ One(dm.pc = "release" /\ dm.id = id) = One(id = k) /\ One(id = k) \in Nat
        /\ One(dm'.pc = "release" /\ dm'.id = id) = 0
    BY <1>0, <1>1, <1>5 DEF One
  <2>3. Transit("dm", {Removal(id)}) \in Nat
    BY CountsAreNat
  <2>4. Removals(id) = Removals(id)' + One(id = k) /\ Removals(id)' \in Nat
    <3>. DEFINE t == Transit("dm", {Removal(id)})
                d == One(dm.pc = "release" /\ dm.id = id)
    <3>1. t' = t /\ t \in Nat /\ d = One(id = k) /\ d' = 0
      BY <1>4, <2>2, <2>3
    <3>2. Removals(id) = t + d /\ Removals(id)' = t' + d'
      BY DEF Removals
    <3>. HIDE DEF t, d
    <3>. QED
      BY <2>2, <3>1, <3>2
  <2>. QED
    BY <2>1, <2>4
<1>7. Removals(k)' = 0 /\ k \in dmConns /\ dst[k] = "waiting" /\ k \notin dstQuit
  <2>1. Removals(k) = Removals(k)' + 1 /\ Removals(k)' \in Nat
    BY <1>2, <1>6 DEF One
  <2>2. /\ Removals(k) <= 1
        /\ Removals(k) = 1 => k \in dmConns /\ dst[k] = "waiting"
        /\ k \in dstQuit => k \notin dmConns
    BY <1>2 DEF RemovalsInOrder
  <2>3. Removals(k) = 1 /\ Removals(k)' = 0
    BY <2>1, <2>2
  <2>. QED
    BY <2>2, <2>3
<1>8. Typed'
  BY <1>1, <1>2, <1>5 DEF Typed
<1>9. Numbered'
  BY <1>1, <1>3 DEF Numbered
<1>10. dmConns' \cup dstQuit' = dmConns \cup dstQuit
  BY <1>1, <1>7
<1>11. Fresh' /\ NoTaskIsLost'
  <2>1. Fresh'
    BY <1>1, <1>6, <1>10 DEF Fresh
  <2>2. NoTaskIsLost'
    BY <1>1, <1>10 DEF NoTaskIsLost
  <2>. QED
    BY <2>1, <2>2
<1>12. RemovalsInOrder'
  <2>. SUFFICES ASSUME NEW id \in Ids
                PROVE  /\ Removals(id)' <= 1
                       /\ Removals(id)' = 1 => id \in dmConns' /\ dst[id] = "waiting"
                       /\ id \in dstQuit' => id \notin dmConns' /\ dst[id] \in {"waiting", "ended"}
    BY <1>1 DEF RemovalsInOrder
  <2>1. CASE id = k
    BY <1>1, <1>7, <2>1
  <2>2. CASE id # k
    <3>1. One(id = k) = 0
      BY <2>2 DEF One
    <3>2. Removals(id)' = Removals(id)
      BY <1>6, <3>1
    <3>. QED
      BY <1>1, <1>2, <2>2, <3>2 DEF RemovalsInOrder
  <2>. QED
    BY <2>1, <2>2
<1>13. DmInOrder'
  BY <1>0, <1>1, <1>2, <1>5 DEF DmInOrder, Quitting
<1>14. Agreement'
  <2>. SUFFICES ASSUME phase = "running", NEW id \in Ids
                PROVE  Announcements(id) + One(id \in dmConns') + Transit("cm", {Release(id)})'
                         = One(id \in cmConns)
    BY <1>1, <1>6 DEF Agreement
  <2>1. Announcements(id) + One(id \in dmConns) + Transit("cm", {Release(id)})
          = One(id \in cmConns)
    BY DEF Agreement
  <2>2. One(id \in dmConns) = One(id \in dmConns') + One(id = k)
    BY <1>1, <1>7 DEF One
  <2>3. One(id \in dmConns') \in Nat /\ One(id = k) \in Nat /\ Transit("cm", {Release(id)}) \in Nat
    BY CountsAreNat DEF One
  <2>4. Transit("cm", {Release(id)})' = Transit("cm", {Release(id)}) + One(id = k)
    BY <1>4
  <2>5. Announcements(id) \in Nat
    <3>1. Transit("dm", {Announcement(id)}) \in Nat /\ NumberOf(cmOut, {Announcement(id)}) \in Nat
      BY CountsAreNat, PositionsFinite DEF Typed
    <3>. QED
      BY <3>1 DEF Announcements
  <2>. QED
    BY <2>1, <2>2, <2>3, <2>4, <2>5
<1>. QED
  BY <1>3, <1>8, <1>9, <1>11, <1>12, <1>13, <1>14
-----------------------------------------------------------------------------
LEMMA DeviceStart ==
  ASSUME Init
  PROVE  DeviceInvariant
<1>1. /\ rQ = <<>> /\ held = <<>> /\ cmOut = <<>> /\ uiOut = <<>>
      /\ chan \in [Components -> Seq(Sent)]
      /\ nextId = 0 /\ cmConns = {} /\ dmConns = {} /\ dstQuit = {} /\ asked.connections = 0
      /\ dm = [pc |-> "idle", id |-> NoId, event |-> "none", todo |-> {}]
      /\ dst = [id \in Ids |-> "absent"] /\ phase = "running"
      /\ \A c \in Components : chan[c] = <<>>
  BY DEF Init, DmIdle
<1>2. RouterTyped
  BY <1>1, ChannelAssumption DEF RouterTyped
<1>3. Typed
  <2>1. asked \in [connections : 0..MaxDevices, requests : 0..MaxRequests]
    BY BoundsAssumption DEF Init
  <2>2. evQ \in [Ids -> Seq({"Disconnect", "SendPing"})] /\ \A id \in Ids : Len(evQ[id]) <= ChannelSize
    BY ChannelAssumption DEF Init
  <2>3. running = Components \cup {"router"}
    BY DEF Init
  <2>. QED
    BY <1>1, <2>1, <2>2, <2>3 DEF Typed, DmBusy, DstStates
<1>4. /\ NumberOf(cmOut, Connecting) = 0 /\ NumberOf(uiOut, Connecting) = 0
      /\ \A id \in Ids : NumberOf(cmOut, {Announcement(id)}) = 0
  BY <1>1, NumberOfNone
<1>5. ASSUME NEW c \in Components, NEW S PROVE Transit(c, S) = 0
  <2>1. NumberOf(rQ, S) = 0 /\ NumberOf(held, S) = 0 /\ NumberOf(chan[c], S) = 0
    BY <1>1, NumberOfNone
  <2>. QED
    BY <2>1 DEF Transit
<1>6. "dm" \in Components /\ "cm" \in Components
  BY DEF Components
<1>7. ASSUME NEW id \in Ids
      PROVE  Announcements(id) = 0 /\ Removals(id) = 0 /\ Transit("cm", {Release(id)}) = 0
  <2>1. /\ Transit("dm", {Announcement(id)}) = 0 /\ Transit("dm", {Removal(id)}) = 0
        /\ Transit("cm", {Release(id)}) = 0
    BY <1>5, <1>6
  <2>2. NumberOf(cmOut, {Announcement(id)}) = 0 /\ One(dm.pc = "release" /\ dm.id = id) = 0
    BY <1>1, <1>4 DEF One
  <2>. QED
    BY <2>1, <2>2 DEF Announcements, Removals
<1>8. Numbered
  <2>1. Transit("cm", Connecting) = 0
    BY <1>5, <1>6
  <2>. QED
    BY <1>1, <1>4, <2>1 DEF Numbered
<1>9. Fresh /\ RemovalsInOrder
  <2>1. Fresh
    <3>. SUFFICES ASSUME NEW id \in Ids
                  PROVE  /\ Announcements(id) <= 1 /\ (id >= nextId => Announcements(id) = 0)
                         /\ id >= nextId \/ Announcements(id) = 1 => dst[id] = "absent"
                         /\ dst[id] = "absent" => id \notin dmConns \cup dstQuit
      BY DEF Fresh
    <3>1. dst[id] = "absent" /\ id \notin dmConns \cup dstQuit /\ Announcements(id) = 0
      BY <1>1, <1>7
    <3>. QED
      BY <3>1
  <2>2. RemovalsInOrder
    <3>. SUFFICES ASSUME NEW id \in Ids
                  PROVE  /\ Removals(id) <= 1
                         /\ Removals(id) = 1 => id \in dmConns /\ dst[id] = "waiting"
                         /\ id \in dstQuit => id \notin dmConns /\ dst[id] \in {"waiting", "ended"}
      BY DEF RemovalsInOrder
    <3>1. dstQuit = {} /\ Removals(id) = 0
      BY <1>1, <1>7
    <3>. QED
      BY <3>1
  <2>. QED
    BY <2>1, <2>2
<1>10. Agreement
  BY <1>1, <1>7 DEF Agreement, One
<1>11. DmInOrder /\ NoTaskIsLost
  BY <1>1 DEF DmInOrder, Quitting, NoTaskIsLost
<1>. QED
  BY <1>2, <1>3, <1>8, <1>9, <1>10, <1>11 DEF DeviceInvariant

LEMMA DeviceStep ==
  ASSUME DeviceInvariant, [Next]_vars
  PROVE  DeviceInvariant'
<1>1. CASE UNCHANGED vars
  <2>1. /\ UNCHANGED routerVars
        /\ UNCHANGED <<nextId, cmConns, cmOut, dmConns, dm, dst, evQ, dstQuit, uiOut, running, phase, asked>>
    BY <1>1 DEF vars, cmVars, dmVars, dstVars, uiVars, libVars
  <2>2. RouterTyped' /\ CountsKept
    BY <2>1, RoutingCounts DEF DeviceInvariant
  <2>3. Typed'
    BY <2>1 DEF DeviceInvariant, Typed
  <2>4. Numbered' /\ Fresh' /\ RemovalsInOrder' /\ Agreement'
    BY <2>1, <2>2, KeptByTheRest
  <2>5. DmInOrder' /\ NoTaskIsLost'
    BY <2>1 DEF DeviceInvariant, DmInOrder, Quitting, NoTaskIsLost
  <2>. QED
    BY <2>2, <2>3, <2>4, <2>5 DEF DeviceInvariant
<1>2. CASE Router \/ Logic
  BY <1>2, RouterAndEnds DEF Logic
<1>3. CASE Cm
  BY <1>3, CmStep, RouterAndEnds DEF Cm
<1>4. CASE Dm
  BY <1>4, DmNewStep, DmRemoveStep, DmReleaseStep, DmQuietStep, RouterAndEnds DEF Dm
<1>5. CASE Ui \/ ListenerAccepts
  BY <1>5, UiStep, RouterAndEnds DEF Ui
<1>6. CASE \E id \in Ids : Dst(id)
  BY <1>6, DstStep
<1>. QED
  BY <1>1, <1>2, <1>3, <1>4, <1>5, <1>6 DEF Next

LEMMA DeviceInductive == Spec => []DeviceInvariant
<1>1. Init => DeviceInvariant
  BY DeviceStart
<1>2. DeviceInvariant /\ [Next]_vars => DeviceInvariant'
  BY DeviceStep
<1>. QED
  BY <1>1, <1>2, PTL DEF Spec
-----------------------------------------------------------------------------
(* What travels and what is counted: a message is on its path if and only  *)
(* if the count of its kind is not zero.                                   *)
LEMMA OnPathIsCounted ==
  ASSUME RouterTyped, NEW c \in Components, NEW type, NEW id
  PROVE  OnPath(c, type, id) <=> Transit(c, {Message(c, type, id)}) # 0
<1>. DEFINE m == Message(c, type, id)
<1>1. rQ \in Seq(Sent) /\ held \in Seq(Sent) /\ chan[c] \in Seq(Sent)
  BY DEF RouterTyped
<1>2. ASSUME NEW q \in Seq(Sent)
      PROVE  /\ NumberOf(q, {m}) \in Nat /\ DOMAIN q = 1..Len(q)
             /\ (\E i \in DOMAIN q : q[i] = m) <=> (NumberOf(q, {m}) # 0)
  <2>1. NumberOf(q, {m}) \in Nat /\ DOMAIN q = 1..Len(q)
    BY PositionsFinite, LenProperties
  <2>2. /\ NumberOf(q, {m}) = 0 <=> \A i \in 1..Len(q) : q[i] \notin {m}
        /\ \A i \in 1..Len(q) : q[i] \in {m} => NumberOf(q, {m}) >= 1
    BY NumberOfFew
  <2>. QED
    BY <2>1, <2>2
<1>. HIDE DEF m
<1>3. Transit(c, {m}) # 0 <=> \/ NumberOf(chan[c], {m}) # 0 \/ NumberOf(held, {m}) # 0
                              \/ NumberOf(rQ, {m}) # 0
  <2>1. /\ NumberOf(chan[c], {m}) \in Nat /\ NumberOf(held, {m}) \in Nat
        /\ NumberOf(rQ, {m}) \in Nat
    BY <1>1, <1>2
  <2>. QED
    BY <2>1 DEF Transit
<1>4. OnPath(c, type, id) <=> \/ \E i \in DOMAIN chan[c] : chan[c][i] = m
                              \/ \E i \in DOMAIN held : held[i] = m
                              \/ \E i \in DOMAIN rQ : rQ[i] = m
  BY DEF OnPath, m
<1>. QED
  BY <1>1, <1>2, <1>3, <1>4 DEF m

(* The user interface's connection is in one of its three states.          *)
UiConnTyped == uiConn \in {"none", "up", "sending"}

LEMMA UiConnInductive == Spec => []UiConnTyped
<1>1. Init => UiConnTyped
  BY DEF Init, UiConnTyped
<1>2. UiConnTyped /\ [Next]_vars => UiConnTyped'
  <2>. SUFFICES ASSUME UiConnTyped, [Next]_vars PROVE UiConnTyped'
    OBVIOUS
  <2>1. CASE Router \/ Logic \/ ListenerAccepts \/ UNCHANGED vars
    BY <2>1 DEF UiConnTyped, Router, RouterReceives, RouterDelivers, RouterPanics, RouterQuits,
                Logic, LogicQuits, LogicClosesRouter, ListenerAccepts, vars, uiVars
  <2>2. CASE Cm
    BY <2>2 DEF UiConnTyped, Cm, CmNewJsonStream, CmConnectTo, CmRemoveDataConnections, CmSends,
                CmQuits, CmElsewhere, uiVars
  <2>3. CASE Dm
    BY <2>3 DEF UiConnTyped, Dm, DmNewDeviceConnection, DmBroadcast, DmSendsEvent, DmBroadcastDone,
                DmRemoveConnection, DmReleases, DmTaskEnded, DmAnnounces, DmQuits, DmQuitsTask,
                DmQuitTaskEnded, DmEnds, DmElsewhere, uiVars
  <2>4. CASE Ui
    BY <2>4 DEF UiConnTyped, Ui, UiConnects, UiBreaks, UiReceives, UiSent, UiRequest, UiSends,
                UiQuits, uiVars
  <2>5. CASE \E id \in Ids : Dst(id)
    BY <2>5 DEF UiConnTyped, Dst, DstSends, DstEstablished, DstTakesEvent, DstAnswers, DstSent,
                DstConnectionError, DstReportsError, DstLeaves, DstQuits, DstElsewhere, uiVars
  <2>. QED
    BY <2>1, <2>2, <2>3, <2>4, <2>5 DEF Next
<1>. QED
  BY <1>1, <1>2, PTL DEF Spec

(* The types and capacities of the model hold in every reachable state:    *)
(* no channel or queue of events takes more than EVENT_CHANNEL_SIZE, each  *)
(* component gets only what is meant for it and both managers know only    *)
(* connections that have been numbered (message_router.rs:95-117,          *)
(* connection.rs:487-500, device.rs:147-181).                              *)
THEOREM LifecycleTypeCorrect == Spec => []TypeOK
<1>1. DeviceInvariant /\ UiConnTyped => TypeOK
  <2>. SUFFICES ASSUME DeviceInvariant, UiConnTyped PROVE TypeOK
    OBVIOUS
  <2>. USE DEF DeviceInvariant
  <2>1. Sent \subseteq Messages /\ Connecting \subseteq Messages /\ Broadcasts \subseteq Messages
        /\ {Announcement(id) : id \in Ids} \subseteq Messages
    BY KindsOfMessages
  <2>2. rQ \in Seq(Messages) /\ held \in Seq(Messages)
    BY <2>1, LargerKind DEF RouterTyped
  <2>3. ASSUME NEW c \in Components
        PROVE  /\ chan[c] \in Seq(Messages) /\ Len(chan[c]) <= ChannelSize
               /\ \A i \in DOMAIN chan[c] : chan[c][i].to = c
    <3>1. chan[c] \in Seq(Sent)
      BY DEF RouterTyped
    <3>2. chan[c] \in Seq(Messages) /\ DOMAIN chan[c] = 1..Len(chan[c])
      BY <2>1, <3>1, LargerKind, LenProperties
    <3>. QED
      BY <3>2 DEF RouterTyped
  <2>4. cmOut \in Seq(Messages) /\ uiOut \in Seq(Messages)
    <3>1. Connecting \cup {Announcement(id) : id \in Ids} \subseteq Messages
      BY <2>1
    <3>2. Connecting \cup Broadcasts \subseteq Messages
      BY <2>1
    <3>. QED
      BY <3>1, <3>2, LargerKind DEF Typed
  <2>5. nextId \in 0 .. MaxDevices
    <3>1. /\ Transit("cm", Connecting) \in Nat /\ NumberOf(cmOut, Connecting) \in Nat
          /\ NumberOf(uiOut, Connecting) \in Nat /\ nextId \in Nat
          /\ asked.connections \in 0 .. MaxDevices
      BY CountsAreNat, PositionsFinite DEF Typed
    <3>. QED
      BY <3>1, BoundsAssumption DEF Numbered
  <2>6. dmConns \subseteq 0 .. (nextId - 1)
    <3>. SUFFICES ASSUME NEW id \in dmConns PROVE id \in 0 .. (nextId - 1)
      OBVIOUS
    <3>1. id \in Ids /\ id \in Nat /\ nextId \in Nat
      BY KindsOfMessages DEF Typed
    <3>2. ~(id >= nextId)
      BY <3>1 DEF Fresh
    <3>. QED
      BY <3>1, <3>2
  <2>7. dm.todo \subseteq dmConns /\ dm.id \in Ids \cup {NoId}
    BY DEF DmInOrder, Typed, DmBusy
  <2>. QED
    BY <2>2, <2>3, <2>4, <2>5, <2>6, <2>7 DEF TypeOK, RouterTyped, Typed, UiConnTyped
<1>. QED
  BY <1>1, DeviceInductive, UiConnInductive, PTL

(* The DeviceManager's unwraps do not panic: when it handles a removal,    *)
(* the connection is one of its own and its task is waiting for the quit   *)
(* request, whatever events, errors and broadcasts crossed (device.rs:180, *)
(* state.rs:207-211).                                                      *)
THEOREM RemovalFindsDevice == Spec => []RemoveFindsDevice
<1>1. DeviceInvariant => RemoveFindsDevice
  <2>. SUFFICES ASSUME DeviceInvariant, dm.pc = "release"
                PROVE  dm.id \in dmConns /\ dst[dm.id] = "waiting"
    BY DEF RemoveFindsDevice
  <2>1. dm.id \in Ids /\ ~Quitting
    BY DEF DeviceInvariant, DmInOrder, Quitting
  <2>2. Transit("dm", {Removal(dm.id)}) \in Nat
    BY <2>1, CountsAreNat DEF DeviceInvariant
  <2>3. Removals(dm.id) = Transit("dm", {Removal(dm.id)}) + 1
    BY DEF Removals, One
  <2>4. Removals(dm.id) <= 1 /\ (Removals(dm.id) = 1 => dm.id \in dmConns /\ dst[dm.id] = "waiting")
    BY <2>1 DEF DeviceInvariant, RemovalsInOrder
  <2>. QED
    BY <2>2, <2>3, <2>4
<1>. QED
  BY <1>1, DeviceInductive, PTL

(* Until the program quits the two managers agree: a connection has        *)
(* resources in the ConnectionManager exactly as long as it is announced,  *)
(* kept or on its way back, and what the DeviceManager keeps is neither    *)
(* announced again nor about to lose its resources (connection.rs:487-500, *)
(* 592-596, device.rs:147-181).                                            *)
THEOREM ManagersAlwaysAgree == Spec => []ManagersAgree
<1>1. DeviceInvariant => ManagersAgree
  <2>. SUFFICES ASSUME DeviceInvariant, phase = "running", NEW id \in Ids
                PROVE  LET removed == OnPath("cm", "RemoveDataConnections", id) IN
                       /\ id \in cmConns <=> Announced(id) \/ id \in dmConns \/ removed
                       /\ id \in dmConns => ~Announced(id) /\ ~removed
    BY DEF ManagersAgree
  <2>. DEFINE a == Announcements(id)
              r == Transit("cm", {Release(id)})
              t == Transit("dm", {Announcement(id)})
              n == NumberOf(cmOut, {Announcement(id)})
  <2>1. RouterTyped /\ "cm" \in Components /\ "dm" \in Components
    BY DEF DeviceInvariant, Components
  <2>2. OnPath("cm", "RemoveDataConnections", id) <=> r # 0
    BY <2>1, OnPathIsCounted DEF Release
  <2>3. OnPath("dm", "NewDeviceConnection", id) <=> t # 0
    BY <2>1, OnPathIsCounted DEF Announcement
  <2>4. /\ Announcement(id) \in {cmOut[i] : i \in DOMAIN cmOut} <=> n # 0
        /\ n \in Nat
    <3>. DEFINE T == Connecting \cup {Announcement(i) : i \in Ids}
    <3>1. cmOut \in Seq(T)
      BY DEF DeviceInvariant, Typed
    <3>2. n \in Nat /\ DOMAIN cmOut = 1..Len(cmOut)
      BY <3>1, PositionsFinite, LenProperties
    <3>3. /\ n = 0 <=> \A i \in 1..Len(cmOut) : cmOut[i] \notin {Announcement(id)}
          /\ \A i \in 1..Len(cmOut) : cmOut[i] \in {Announcement(id)} => n >= 1
      BY <3>1, NumberOfFew
    <3>. HIDE DEF n
    <3>. QED
      BY <3>2, <3>3
  <2>5. t \in Nat /\ r \in Nat /\ a = t + n
    BY <2>1, CountsAreNat DEF Announcements
  <2>6. Announced(id) <=> a # 0
    <3>1. Announced(id) <=> t # 0 \/ n # 0
      BY <2>3, <2>4 DEF Announced, Announcement
    <3>. HIDE DEF a, t, n
    <3>. QED
      BY <2>4, <2>5, <3>1
  <2>7. a + One(id \in dmConns) + r = One(id \in cmConns)
    BY DEF DeviceInvariant, Agreement
  <2>8. /\ id \in cmConns <=> One(id \in cmConns) # 0
        /\ id \in dmConns <=> One(id \in dmConns) # 0
        /\ One(id \in cmConns) \in {0, 1} /\ One(id \in dmConns) \in {0, 1}
    BY DEF One
  <2>9. PICK d, c : d = One(id \in dmConns) /\ c = One(id \in cmConns)
    OBVIOUS
  <2>10. a \in Nat
    <3>. HIDE DEF a, t, n
    <3>. QED
      BY <2>4, <2>5
  <2>. HIDE DEF a, t, n, r
  <2>11. /\ c # 0 <=> a # 0 \/ d # 0 \/ r # 0
         /\ d # 0 => a = 0 /\ r = 0
    <3>1. a + d + r = c /\ c \in {0, 1} /\ d \in {0, 1}
      BY <2>7, <2>8, <2>9
    <3>. QED
      BY <2>5, <2>10, <3>1
  <2>. QED
    BY <2>2, <2>6, <2>8, <2>9, <2>11
<1>. QED
  BY <1>1, DeviceInductive, PTL

(* A device task that has not ended is known to the DeviceManager or told  *)
(* to quit, also when a quit request drops a handler half-way              *)
(* (device.rs:116-135).                                                    *)
THEOREM TasksNeverLost == Spec => []NoTaskIsLost
<1>1. DeviceInvariant => NoTaskIsLost
  BY DEF DeviceInvariant
<1>. QED
  BY <1>1, DeviceInductive, PTL
-----------------------------------------------------------------------------
(* What the UI ends up with: the last event for it in a queue, when the    *)
(* queue is empty, longer by one message or shorter by one.                *)
LEMMA LastOfNone ==
  /\ NoneForUi(<<>>) /\ \A type : ~LastForUi(<<>>, type)
<1>1. DOMAIN <<>> = {}
  OBVIOUS
<1>. QED
  BY <1>1 DEF NoneForUi, LastForUi

LEMMA LastOfLonger ==
  ASSUME NEW T, NEW q \in Seq(T), NEW m \in T
  PROVE  /\ NoneForUi(Append(q, m)) <=> NoneForUi(q) /\ m.to # "ui"
         /\ \A type : LastForUi(Append(q, m), type)
              <=> IF m.to = "ui" THEN m.type = type ELSE LastForUi(q, type)
<1>. DEFINE a == Append(q, m)
            n == Len(q) + 1
<1>1. /\ Len(q) \in Nat /\ DOMAIN q = 1..Len(q) /\ DOMAIN a = 1..n
      /\ a[n] = m /\ \A i \in 1..Len(q) : a[i] = q[i]
  BY AppendProperties, LenProperties
<1>2. /\ n \in DOMAIN a /\ DOMAIN q \subseteq DOMAIN a /\ n \notin DOMAIN q
      /\ \A i \in DOMAIN a : i \in DOMAIN q \/ i = n
      /\ \A i \in DOMAIN q : n > i /\ ~(i > n)
      /\ ~(n > n)
  BY <1>1
<1>3. \A i \in DOMAIN q : a[i] = q[i]
  BY <1>1
<1>4. a[n] = m
  BY <1>1
<1>. HIDE DEF a, n
<1>5. NoneForUi(a) <=> NoneForUi(q) /\ m.to # "ui"
  BY <1>2, <1>3, <1>4 DEF NoneForUi
<1>6. ASSUME NEW type
      PROVE  LastForUi(a, type) <=> IF m.to = "ui" THEN m.type = type ELSE LastForUi(q, type)
  <2>1. CASE m.to = "ui"
    <3>1. ASSUME LastForUi(a, type) PROVE m.type = type
      <4>1. PICK i \in DOMAIN a : /\ a[i].to = "ui" /\ a[i].type = type
                                  /\ \A j \in DOMAIN a : j > i => a[j].to # "ui"
        BY <3>1 DEF LastForUi
      <4>. QED
        BY <1>2, <1>4, <2>1, <4>1
    <3>2. ASSUME m.type = type PROVE LastForUi(a, type)
      <4>1. \A j \in DOMAIN a : ~(j > n)
        BY <1>2
      <4>. QED
        BY <1>2, <1>4, <2>1, <3>2, <4>1 DEF LastForUi
    <3>. QED
      BY <2>1, <3>1, <3>2
  <2>2. CASE m.to # "ui"
    <3>1. ASSUME LastForUi(a, type) PROVE LastForUi(q, type)
      <4>1. PICK i \in DOMAIN a : /\ a[i].to = "ui" /\ a[i].type = type
                                  /\ \A j \in DOMAIN a : j > i => a[j].to # "ui"
        BY <3>1 DEF LastForUi
      <4>2. i \in DOMAIN q
        BY <1>2, <1>4, <2>2, <4>1
      <4>. QED
        BY <1>2, <1>3, <4>1, <4>2 DEF LastForUi
    <3>2. ASSUME LastForUi(q, type) PROVE LastForUi(a, type)
      <4>1. PICK i \in DOMAIN q : /\ q[i].to = "ui" /\ q[i].type = type
                                  /\ \A j \in DOMAIN q : j > i => q[j].to # "ui"
        BY <3>2 DEF LastForUi
      <4>2. \A j \in DOMAIN a : j > i => a[j].to # "ui"
        BY <1>2, <1>3, <1>4, <2>2, <4>1
      <4>. QED
        BY <1>2, <1>3, <4>1, <4>2 DEF LastForUi
    <3>. QED
      BY <2>2, <3>1, <3>2
  <2>. QED
    BY <2>1, <2>2
<1>. QED
  BY <1>5, <1>6 DEF a

LEMMA LastOfShorter ==
  ASSUME NEW T, NEW q \in Seq(T), q # <<>>
  PROVE  /\ NoneForUi(q) <=> Head(q).to # "ui" /\ NoneForUi(Tail(q))
         /\ \A type : LastForUi(q, type)
              <=> \/ LastForUi(Tail(q), type)
                  \/ NoneForUi(Tail(q)) /\ Head(q).to = "ui" /\ Head(q).type = type
<1>. DEFINE t == Tail(q)
<1>1. /\ Len(q) \in Nat /\ Len(q) >= 1 /\ Head(q) = q[1] /\ Len(t) = Len(q) - 1
      /\ t \in Seq(T) /\ \A i \in 1..Len(t) : t[i] = q[i + 1]
  BY HeadTailProperties, LenProperties, EmptySeq
<1>2. DOMAIN q = 1..Len(q) /\ DOMAIN t = 1..Len(t)
  BY <1>1, LenProperties
<1>. HIDE DEF t
<1>3. /\ 1 \in DOMAIN q
      /\ \A i \in DOMAIN t : i + 1 \in DOMAIN q /\ i + 1 > 1 /\ t[i] = q[i + 1]
      /\ \A i \in DOMAIN q : i = 1 \/ (i - 1 \in DOMAIN t /\ (i - 1) + 1 = i)
      /\ \A i \in DOMAIN q : ~(1 > i)
      /\ \A i, j \in DOMAIN t : j > i <=> j + 1 > i + 1
  BY <1>1, <1>2
<1>4. NoneForUi(q) <=> Head(q).to # "ui" /\ NoneForUi(t)
  <2>1. ASSUME NoneForUi(q) PROVE Head(q).to # "ui" /\ NoneForUi(t)
    <3>1. q[1].to # "ui" /\ \A i \in DOMAIN t : q[i + 1].to # "ui"
      BY <1>3, <2>1 DEF NoneForUi
    <3>. QED
      BY <1>1, <1>3, <3>1 DEF NoneForUi
  <2>2. ASSUME Head(q).to # "ui", NoneForUi(t), NEW i \in DOMAIN q PROVE q[i].to # "ui"
    <3>1. CASE i = 1
      BY <1>1, <2>2, <3>1
    <3>2. CASE i # 1
      <4>1. i - 1 \in DOMAIN t /\ t[i - 1] = q[(i - 1) + 1] /\ (i - 1) + 1 = i
        BY <1>3, <3>2
      <4>. QED
        BY <2>2, <4>1 DEF NoneForUi
    <3>. QED
      BY <3>1, <3>2
  <2>. QED
    BY <2>1, <2>2 DEF NoneForUi
<1>5. ASSUME NEW type, LastForUi(q, type)
      PROVE  \/ LastForUi(t, type)
             \/ NoneForUi(t) /\ Head(q).to = "ui" /\ Head(q).type = type
  <2>1. PICK i \in DOMAIN q : /\ q[i].to = "ui" /\ q[i].type = type
                              /\ \A j \in DOMAIN q : j > i => q[j].to # "ui"
    BY <1>5 DEF LastForUi
  <2>2. CASE i = 1
    <3>1. NoneForUi(t)
      BY <1>3, <2>1, <2>2 DEF NoneForUi
    <3>. QED
      BY <1>1, <2>1, <2>2, <3>1
  <2>3. CASE i # 1
    <3>1. PICK k \in DOMAIN t : i = k + 1 /\ t[k] = q[i]
      BY <1>3, <2>3
    <3>2. ASSUME NEW j \in DOMAIN t, j > k PROVE t[j].to # "ui"
      <4>1. j + 1 \in DOMAIN q /\ t[j] = q[j + 1] /\ j + 1 > i
        BY <1>3, <3>1, <3>2
      <4>. QED
        BY <2>1, <4>1
    <3>. QED
      BY <2>1, <3>1, <3>2 DEF LastForUi
  <2>. QED
    BY <2>2, <2>3
<1>6. ASSUME NEW type, LastForUi(t, type) PROVE LastForUi(q, type)
  <2>1. PICK k \in DOMAIN t : /\ t[k].to = "ui" /\ t[k].type = type
                              /\ \A j \in DOMAIN t : j > k => t[j].to # "ui"
    BY <1>6 DEF LastForUi
  <2>2. k + 1 \in DOMAIN q /\ q[k + 1] = t[k]
    BY <1>3
  <2>3. ASSUME NEW j \in DOMAIN q, j > k + 1 PROVE q[j].to # "ui"
    <3>1. j # 1
      BY <1>2, <2>3
    <3>2. j - 1 \in DOMAIN t /\ t[j - 1] = q[(j - 1) + 1] /\ (j - 1) + 1 = j
      BY <1>3, <3>1
    <3>3. j - 1 > k
      BY <1>2, <2>3
    <3>. QED
      BY <2>1, <3>2, <3>3
  <2>. QED
    BY <2>1, <2>2, <2>3 DEF LastForUi
<1>7. ASSUME NEW type, NoneForUi(t), Head(q).to = "ui", Head(q).type = type
      PROVE  LastForUi(q, type)
  <2>1. ASSUME NEW j \in DOMAIN q, j > 1 PROVE q[j].to # "ui"
    <3>1. j - 1 \in DOMAIN t /\ t[j - 1] = q[(j - 1) + 1] /\ (j - 1) + 1 = j
      BY <1>2, <1>3, <2>1
    <3>. QED
      BY <1>7, <3>1 DEF NoneForUi
  <2>. QED
    BY <1>1, <1>3, <1>7, <2>1 DEF LastForUi
<1>. QED
  BY <1>4, <1>5, <1>6, <1>7 DEF t

(* What the UI ends up with only changes when something is sent to it.     *)
HearsTheSame == \A type : UiEndsUpWith(type)' <=> UiEndsUpWith(type)

LEMMA HearsTheSameOf ==
  ASSUME RouterTyped, NEW m \in Sent, Send(m), UNCHANGED uiShown
  PROVE  /\ m.to # "ui" => HearsTheSame
         /\ m.to = "ui" => \A type : UiEndsUpWith(type)' <=> type = m.type
<1>1. rQ' = Append(rQ, m) /\ UNCHANGED <<held, chan>> /\ rQ \in Seq(Sent)
  BY DEF Send, RouterTyped
<1>2. /\ NoneForUi(rQ') <=> NoneForUi(rQ) /\ m.to # "ui"
      /\ \A type : LastForUi(rQ', type)
           <=> IF m.to = "ui" THEN m.type = type ELSE LastForUi(rQ, type)
  BY <1>1, LastOfLonger
<1>3. /\ NoneForUi(held') = NoneForUi(held) /\ NoneForUi(chan'["ui"]) = NoneForUi(chan["ui"])
      /\ \A type : /\ LastForUi(held', type) = LastForUi(held, type)
                   /\ LastForUi(chan'["ui"], type) = LastForUi(chan["ui"], type)
  BY <1>1
<1>4. ASSUME NEW type, m.to # "ui" PROVE UiEndsUpWith(type)' <=> UiEndsUpWith(type)
  <2>1. (NoneForUi(rQ') <=> NoneForUi(rQ)) /\ (LastForUi(rQ', type) <=> LastForUi(rQ, type))
    BY <1>2, <1>4
  <2>. QED
    BY <1>1, <2>1 DEF UiEndsUpWith
<1>5. ASSUME NEW type, m.to = "ui" PROVE UiEndsUpWith(type)' <=> type = m.type
  <2>1. ~NoneForUi(rQ') /\ (LastForUi(rQ', type) <=> type = m.type)
    BY <1>2, <1>5
  <2>. QED
    BY <2>1 DEF UiEndsUpWith
<1>. QED
  BY <1>4, <1>5 DEF HearsTheSame

LEMMA HearsTheSameRouted ==
  ASSUME RouterTyped, RouterReceives \/ RouterDelivers
  PROVE  HearsTheSame
<1>0. /\ rQ \in Seq(Sent) /\ held \in Seq(Sent) /\ chan \in [Components -> Seq(Sent)]
      /\ UNCHANGED uiShown /\ "ui" \in Components
  BY DEF RouterTyped, RouterReceives, RouterDelivers, uiVars, Components
<1>1. CASE RouterReceives
  <2>1. PICK h : h = Head(rQ)
    OBVIOUS
  <2>2. /\ rQ # <<>> /\ held = <<>> /\ held' = <<h>> /\ rQ' = Tail(rQ) /\ chan' = chan /\ h \in Sent
    BY <1>0, <1>1, <2>1, Removed DEF RouterReceives
  <2>3. /\ NoneForUi(rQ) <=> h.to # "ui" /\ NoneForUi(rQ')
        /\ \A type : LastForUi(rQ, type)
             <=> \/ LastForUi(rQ', type)
                 \/ NoneForUi(rQ') /\ h.to = "ui" /\ h.type = type
    BY <1>0, <2>1, <2>2, LastOfShorter
  <2>4. /\ NoneForUi(held) /\ \A type : ~LastForUi(held, type)
    BY <2>2, LastOfNone, Zenon
  <2>5. /\ NoneForUi(held') <=> h.to # "ui"
        /\ \A type : LastForUi(held', type) <=> h.to = "ui" /\ h.type = type
    <3>1. held' = Append(held, h) /\ h \in Sent
      BY <2>2
    <3>2. /\ NoneForUi(held') <=> NoneForUi(held) /\ h.to # "ui"
          /\ \A type : LastForUi(held', type)
               <=> IF h.to = "ui" THEN h.type = type ELSE LastForUi(held, type)
      BY <1>0, <3>1, LastOfLonger
    <3>. QED
      BY <2>4, <3>2
  <2>6. ASSUME NEW type PROVE UiEndsUpWith(type)' <=> UiEndsUpWith(type)
    <3>1. /\ UiEndsUpWith(type)' <=>
               \/ LastForUi(rQ', type)
               \/ NoneForUi(rQ') /\ LastForUi(held', type)
               \/ NoneForUi(rQ') /\ NoneForUi(held') /\ LastForUi(chan["ui"], type)
               \/ /\ NoneForUi(rQ') /\ NoneForUi(held') /\ NoneForUi(chan["ui"])
                  /\ uiShown = type
      BY <1>0, <2>2 DEF UiEndsUpWith
    <3>. QED
      BY <2>3, <2>4, <2>5, <3>1 DEF UiEndsUpWith
  <2>. QED
    BY <2>6 DEF HearsTheSame
<1>2. CASE RouterDelivers
  <2>1. PICK h : h = Head(held)
    OBVIOUS
  <2>2. /\ held # <<>> /\ held' = <<>> /\ rQ' = rQ /\ h \in Sent /\ h.to \in Components
        /\ chan' = [chan EXCEPT ![h.to] = Append(chan[h.to], h)]
    <3>1. /\ held # <<>> /\ held' = <<>> /\ rQ' = rQ
          /\ chan' = [chan EXCEPT ![h.to] = Append(chan[h.to], h)]
      BY <1>2, <2>1 DEF RouterDelivers
    <3>2. h \in Sent
      BY <1>0, <2>1, <3>1, Removed
    <3>. QED
      BY <3>1, <3>2, KindsOfMessages
  <2>3. /\ NoneForUi(held) <=> h.to # "ui"
        /\ \A type : LastForUi(held, type) <=> h.to = "ui" /\ h.type = type
    <3>1. /\ Tail(held) \in Seq(Sent) /\ Len(Tail(held)) = Len(held) - 1 /\ Len(held) \in Nat
          /\ Len(held) <= 1 /\ Len(Tail(held)) \in Nat
      BY <1>0, <2>2, Removed, LenProperties DEF RouterTyped
    <3>2. Tail(held) = <<>>
      BY <3>1, EmptySeq
    <3>3. NoneForUi(Tail(held)) /\ \A type : ~LastForUi(Tail(held), type)
      BY <3>2, LastOfNone, Zenon
    <3>. QED
      BY <1>0, <2>1, <2>2, <3>3, LastOfShorter
  <2>4. NoneForUi(held') /\ \A type : ~LastForUi(held', type)
    BY <2>2, LastOfNone, Zenon
  <2>5. /\ NoneForUi(chan'["ui"]) <=> NoneForUi(chan["ui"]) /\ h.to # "ui"
        /\ \A type : LastForUi(chan'["ui"], type)
             <=> IF h.to = "ui" THEN h.type = type ELSE LastForUi(chan["ui"], type)
    <3>1. CASE h.to = "ui"
      <4>1. chan'["ui"] = Append(chan["ui"], h) /\ chan["ui"] \in Seq(Sent)
        BY <1>0, <2>2, <3>1
      <4>. QED
        BY <2>2, <4>1, LastOfLonger
    <3>2. CASE h.to # "ui"
      <4>1. chan'["ui"] = chan["ui"]
        BY <1>0, <2>2, <3>2
      <4>. QED
        BY <3>2, <4>1
    <3>. QED
      BY <3>1, <3>2
  <2>6. ASSUME NEW type PROVE UiEndsUpWith(type)' <=> UiEndsUpWith(type)
    <3>1. /\ UiEndsUpWith(type)' <=>
               \/ LastForUi(rQ, type)
               \/ NoneForUi(rQ) /\ LastForUi(held', type)
               \/ NoneForUi(rQ) /\ NoneForUi(held') /\ LastForUi(chan'["ui"], type)
               \/ /\ NoneForUi(rQ) /\ NoneForUi(held') /\ NoneForUi(chan'["ui"])
                  /\ uiShown = type
      BY <1>0, <2>2 DEF UiEndsUpWith
    <3>. QED
      BY <2>3, <2>4, <2>5, <3>1 DEF UiEndsUpWith
  <2>. QED
    BY <2>6 DEF HearsTheSame
<1>. QED
  BY <1>1, <1>2

LEMMA HearsTheSameTaken ==
  ASSUME RouterTyped, NEW c \in Components, NEW type, Receives(c, type),
         IF c = "ui" THEN uiShown' = Head(chan["ui"]).type ELSE UNCHANGED uiShown
  PROVE  HearsTheSame
<1>0. /\ chan \in [Components -> Seq(Sent)] /\ "ui" \in Components
      /\ UNCHANGED <<rQ, held>> /\ chan[c] # <<>> /\ chan' = [chan EXCEPT ![c] = Tail(@)]
  BY DEF RouterTyped, Receives, Components
<1>1. CASE c = "ui"
  <2>1. PICK h : h = Head(chan["ui"])
    OBVIOUS
  <2>2. /\ chan["ui"] \in Seq(Sent) /\ chan["ui"] # <<>> /\ chan'["ui"] = Tail(chan["ui"])
        /\ uiShown' = h.type
    BY <1>0, <1>1, <2>1
  <2>3. h.to = "ui"
    BY <1>1, <2>1, ReceivingTakes
  <2>4. /\ ~NoneForUi(chan["ui"])
        /\ \A t : LastForUi(chan["ui"], t)
             <=> LastForUi(chan'["ui"], t) \/ (NoneForUi(chan'["ui"]) /\ h.type = t)
    <3>1. /\ NoneForUi(chan["ui"]) <=> h.to # "ui" /\ NoneForUi(chan'["ui"])
          /\ \A t : LastForUi(chan["ui"], t)
               <=> \/ LastForUi(chan'["ui"], t)
                   \/ NoneForUi(chan'["ui"]) /\ h.to = "ui" /\ h.type = t
      BY <2>1, <2>2, LastOfShorter
    <3>2. ASSUME NEW t
          PROVE  LastForUi(chan["ui"], t)
                   <=> LastForUi(chan'["ui"], t) \/ (NoneForUi(chan'["ui"]) /\ h.type = t)
      BY <2>3, <3>1
    <3>. QED
      BY <2>3, <3>1, <3>2
  <2>5. ASSUME NEW t PROVE UiEndsUpWith(t)' <=> UiEndsUpWith(t)
    <3>1. /\ UiEndsUpWith(t)' <=>
               \/ LastForUi(rQ, t)
               \/ NoneForUi(rQ) /\ LastForUi(held, t)
               \/ NoneForUi(rQ) /\ NoneForUi(held) /\ LastForUi(chan'["ui"], t)
               \/ /\ NoneForUi(rQ) /\ NoneForUi(held) /\ NoneForUi(chan'["ui"])
                  /\ h.type = t
      BY <1>0, <2>2 DEF UiEndsUpWith
    <3>2. /\ UiEndsUpWith(t) <=>
               \/ LastForUi(rQ, t)
               \/ NoneForUi(rQ) /\ LastForUi(held, t)
               \/ NoneForUi(rQ) /\ NoneForUi(held) /\ LastForUi(chan["ui"], t)
      BY <2>4 DEF UiEndsUpWith
    <3>3. LastForUi(chan["ui"], t)
            <=> LastForUi(chan'["ui"], t) \/ (NoneForUi(chan'["ui"]) /\ h.type = t)
      BY <2>4
    <3>. QED
      BY <3>1, <3>2, <3>3
  <2>. QED
    BY <2>5 DEF HearsTheSame
<1>2. CASE c # "ui"
  <2>1. chan'["ui"] = chan["ui"] /\ UNCHANGED uiShown
    BY <1>0, <1>2
  <2>2. ASSUME NEW t PROVE UiEndsUpWith(t)' <=> UiEndsUpWith(t)
    BY <1>0, <2>1 DEF UiEndsUpWith
  <2>. QED
    BY <2>2 DEF HearsTheSame
<1>. QED
  BY <1>1, <1>2

LEMMA HearsNothing ==
  ASSUME UNCHANGED <<routerVars, uiShown>>
  PROVE  HearsTheSame
<1>1. UNCHANGED <<rQ, held, chan, uiShown>>
  BY DEF routerVars
<1>2. ASSUME NEW type PROVE UiEndsUpWith(type)' <=> UiEndsUpWith(type)
  BY <1>1 DEF UiEndsUpWith
<1>. QED
  BY <1>2 DEF HearsTheSame

(* What a step has to leave alone for the UI to be told the truth still.   *)
LEMMA StillTold ==
  ASSUME UiTold, HearsTheSame, phase' = "running" => phase = "running",
         \/ \A id \in dmConns' : dst'[id] = "starting" \/ (id \in dmConns /\ dst'[id] = dst[id])
         \/ \E id \in dmConns : dst[id] # "starting",
         dmConns' = {} /\ dm'.pc \in {"idle", "broadcast"}
           => dmConns = {} /\ dm.pc \in {"idle", "broadcast"}
  PROVE  UiTold'
<1>. SUFFICES ASSUME phase = "running"
              PROVE  /\ UiEndsUpWith("AllDevicesAreNowDisconnected")' =>
                            \A id \in dmConns' : dst'[id] = "starting"
                     /\ dmConns' = {} /\ dm'.pc \in {"idle", "broadcast"} =>
                            ~ \E type \in {"ConnectionEstablished", "ConnectionError"} :
                                 UiEndsUpWith(type)'
  BY DEF UiTold
<1>1. /\ UiEndsUpWith("AllDevicesAreNowDisconnected") => \A id \in dmConns : dst[id] = "starting"
      /\ dmConns = {} /\ dm.pc \in {"idle", "broadcast"} =>
            ~ \E type \in {"ConnectionEstablished", "ConnectionError"} : UiEndsUpWith(type)
  BY DEF UiTold
<1>2. \A type : UiEndsUpWith(type)' <=> UiEndsUpWith(type)
  BY DEF HearsTheSame
<1>3. UiEndsUpWith("AllDevicesAreNowDisconnected")' => \A id \in dmConns' : dst'[id] = "starting"
  BY <1>1, <1>2
<1>4. dmConns' = {} /\ dm'.pc \in {"idle", "broadcast"} =>
            ~ \E type \in {"ConnectionEstablished", "ConnectionError"} : UiEndsUpWith(type)'
  BY <1>1, <1>2
<1>. QED
  BY <1>3, <1>4

LEMMA UiToldElsewhere ==
  ASSUME DeviceInvariant, UiTold, Router \/ Cm \/ Ui \/ ListenerAccepts \/ Logic \/ UNCHANGED vars
  PROVE  UiTold'
<1>1. UNCHANGED <<dmConns, dm, dst>> /\ (phase' = "running" => phase = "running")
  BY DEF Router, RouterReceives, RouterDelivers, RouterPanics, RouterQuits, Logic, LogicQuits,
         LogicClosesRouter, Cm, CmNewJsonStream, CmConnectTo, CmRemoveDataConnections, CmSends, CmQuits,
         CmElsewhere, Ui, UiConnects, UiBreaks, UiReceives, UiSent, UiRequest, UiSends, UiQuits,
         UiElsewhere, ListenerAccepts, Ends,
         vars, cmVars, dmVars, dstVars, uiVars, libVars
<1>2. /\ RouterTyped /\ cmOut \in Seq(Connecting \cup {Announcement(id) : id \in Ids})
      /\ uiOut \in Seq(Connecting \cup Broadcasts) /\ "cm" \in Components /\ "ui" \in Components
  BY DEF DeviceInvariant, Typed, Components
<1>3. HearsTheSame \/ phase' # "running"
  <2>1. CASE RouterReceives \/ RouterDelivers
    BY <1>2, <2>1, HearsTheSameRouted
  <2>2. CASE RouterPanics \/ RouterQuits \/ Logic
    BY <2>2 DEF RouterPanics, RouterQuits, Logic, LogicQuits, LogicClosesRouter
  <2>3. CASE UNCHANGED <<routerVars, uiShown>>
    BY <2>3, HearsNothing
  <2>4. CASE CmNewJsonStream \/ CmConnectTo \/ CmRemoveDataConnections
    <3>1. /\ \E type \in {"NewJsonStream", "ConnectTo", "RemoveDataConnections"} : Receives("cm", type)
          /\ UNCHANGED uiShown
      BY <2>4 DEF CmNewJsonStream, CmConnectTo, CmRemoveDataConnections, CmElsewhere, uiVars
    <3>. QED
      BY <1>2, <3>1, HearsTheSameTaken
  <2>5. CASE UiReceives
    BY <1>2, <2>5, HearsTheSameTaken DEF UiReceives
  <2>6. CASE CmSends \/ UiSends \/ ListenerAccepts
    <3>1. PICK m : /\ m \in Connecting \cup Broadcasts \cup {Announcement(id) : id \in Ids}
                   /\ Send(m)
      <4>1. CASE CmSends
        <5>1. cmOut # <<>> /\ Send(Head(cmOut))
          BY <4>1 DEF CmSends
        <5>2. Head(cmOut) \in Connecting \cup {Announcement(id) : id \in Ids}
          BY <1>2, <5>1, Removed
        <5>. QED
          BY <5>1, <5>2
      <4>2. CASE UiSends
        <5>1. uiOut # <<>> /\ Send(Head(uiOut))
          BY <4>2 DEF UiSends
        <5>2. Head(uiOut) \in Connecting \cup Broadcasts
          BY <1>2, <5>1, Removed
        <5>. QED
          BY <5>1, <5>2
      <4>3. CASE ListenerAccepts
        BY <4>3 DEF ListenerAccepts, Connecting
      <4>. QED
        BY <2>6, <4>1, <4>2, <4>3
    <3>2. m \in Sent
      BY <3>1, KindsOfMessages
    <3>3. m.to # "ui"
      BY <3>1 DEF Connecting, Broadcasts, Announcement, Message
    <3>4. UNCHANGED uiShown
      BY <2>6 DEF CmSends, UiSends, ListenerAccepts, CmElsewhere, uiVars
    <3>. QED
      BY <1>2, <3>1, <3>2, <3>3, <3>4, HearsTheSameOf
  <2>7. CASE CmQuits \/ UiConnects \/ UiBreaks \/ UiSent \/ UiRequest \/ UiQuits \/ UNCHANGED vars
    <3>1. UNCHANGED <<routerVars, uiShown>>
      BY <2>7 DEF CmQuits, UiConnects, UiBreaks, UiSent, UiRequest, UiQuits, vars, uiVars
    <3>. QED
      BY <3>1, HearsNothing
  <2>. QED
    BY <2>1, <2>2, <2>4, <2>5, <2>6, <2>7 DEF Router, Cm, Ui
<1>4. CASE phase' # "running"
  BY <1>4 DEF UiTold
<1>5. CASE HearsTheSame
  BY <1>1, <1>5, StillTold
<1>. QED
  BY <1>3, <1>4, <1>5

LEMMA UiToldByTasks ==
  ASSUME DeviceInvariant, UiTold, NEW id \in Ids, Dst(id)
  PROVE  UiTold'
<1>0. RouterTyped /\ dst \in [Ids -> DstStates]
  BY DEF DeviceInvariant, Typed
<1>1. /\ UNCHANGED <<dmConns, dm, dstQuit, phase, uiShown>>
      /\ \E state : dst' = [dst EXCEPT ![id] = state]
  BY DEF Dst, DstSends, DstEstablished, DstTakesEvent, DstAnswers, DstSent, DstConnectionError, DstReportsError,
         DstLeaves, DstQuits, DstElsewhere, DstBecomes, dmVars, uiVars, libVars
<1>2. \A i \in Ids : i # id => dst'[i] = dst[i]
  BY <1>0, <1>1
<1>3. dmConns \subseteq Ids /\ (phase = "running" => ~Quitting)
  BY DEF DeviceInvariant, Typed, DmInOrder
<1>. SUFFICES ASSUME phase = "running" PROVE UiTold'
  BY <1>1 DEF UiTold
<1>4. CASE DstEstablished(id) \/ DstReportsError(id)
  <2>1. PICK m \in UiEvents(id) : Send(m)
    BY <1>4 DEF DstEstablished, DstReportsError, UiEvents
  <2>2. /\ m \in Sent /\ m.to = "ui" /\ m.type \in {"ConnectionEstablished", "ConnectionError"}
    <3>1. m \in Sent
      BY KindsOfMessages
    <3>. QED
      BY <3>1 DEF UiEvents, Message
  <2>3. \A type : UiEndsUpWith(type)' <=> type = m.type
    BY <1>0, <1>1, <2>1, <2>2, HearsTheSameOf
  <2>4. ~UiEndsUpWith("AllDevicesAreNowDisconnected")'
    BY <2>2, <2>3
  <2>5. id \in dmConns
    <3>1. dst[id] \in {"starting", "serving", "sending", "failed", "leaving"}
      BY <1>4 DEF DstEstablished, DstReportsError
    <3>. QED
      BY <1>3, <3>1, TaskAtWork
  <2>. QED
    BY <1>1, <2>4, <2>5 DEF UiTold
<1>5. CASE \/ DstLeaves(id) \/ DstTakesEvent(id) \/ DstAnswers(id) \/ DstSent(id)
           \/ DstConnectionError(id) \/ DstQuits(id)
  <2>1. HearsTheSame
    <3>1. CASE DstLeaves(id)
      <4>1. Removal(id) \in Sent /\ Send(Removal(id)) /\ Removal(id).to = "dm"
        BY <3>1, KindsOfMessages, KindsDiffer DEF DstLeaves, Removal
      <4>. QED
        BY <1>0, <1>1, <4>1, HearsTheSameOf
    <3>2. CASE \/ DstTakesEvent(id) \/ DstAnswers(id) \/ DstSent(id)
               \/ DstConnectionError(id) \/ DstQuits(id)
      <4>1. UNCHANGED routerVars
        BY <3>2 DEF DstTakesEvent, DstAnswers, DstSent, DstConnectionError, DstQuits
      <4>. QED
        BY <1>1, <4>1, HearsNothing
    <3>. QED
      BY <1>5, <3>1, <3>2
  <2>2. \/ id \in dmConns /\ dst[id] # "starting"
        \/ id \notin dmConns
    <3>1. CASE DstQuits(id)
      <4>1. id \in dstQuit
        BY <3>1 DEF DstQuits
      <4>. QED
        BY <1>3, <4>1 DEF DeviceInvariant, RemovalsInOrder
    <3>2. CASE \/ DstLeaves(id) \/ DstTakesEvent(id) \/ DstAnswers(id) \/ DstSent(id)
               \/ DstConnectionError(id)
      BY <3>2 DEF DstLeaves, DstTakesEvent, DstAnswers, DstSent, DstConnectionError
    <3>. QED
      BY <1>5, <3>1, <3>2
  <2>3. \/ \A i \in dmConns' : dst'[i] = "starting" \/ (i \in dmConns /\ dst'[i] = dst[i])
        \/ \E i \in dmConns : dst[i] # "starting"
    BY <1>1, <1>2, <1>3, <2>2
  <2>. QED
    BY <1>1, <2>1, <2>3, StillTold
<1>. QED
  BY <1>4, <1>5 DEF Dst, DstSends

LEMMA UiToldByManager ==
  ASSUME DeviceInvariant, UiTold, Dm
  PROVE  UiTold'
<1>0. /\ RouterTyped /\ dm \in DmBusy /\ dmConns \subseteq Ids /\ "dm" \in Components
      /\ dst \in [Ids -> DstStates] /\ (phase = "running" => ~Quitting)
  BY DEF DeviceInvariant, Typed, Components, DmInOrder
<1>1. UNCHANGED uiShown /\ (phase' = "running" => phase = "running")
  BY DEF Dm, DmNewDeviceConnection, DmBroadcast, DmSendsEvent, DmBroadcastDone, DmRemoveConnection,
         DmReleases, DmTaskEnded, DmAnnounces, DmQuits, DmQuitsTask, DmQuitTaskEnded, DmEnds,
         DmElsewhere, Ends, uiVars, libVars
<1>. SUFFICES ASSUME phase = "running" PROVE UiTold'
  BY <1>1 DEF UiTold
<1>2. CASE DmAnnounces
  <2>1. /\ Send(LastWord) /\ LastWord \in Sent /\ LastWord.to = "ui"
        /\ LastWord.type = "AllDevicesAreNowDisconnected" /\ UNCHANGED dmConns /\ dm.pc = "announce"
    BY <1>2, KindsOfMessages DEF DmAnnounces, LastWord, Message
  <2>2. \A type : UiEndsUpWith(type)' <=> type = "AllDevicesAreNowDisconnected"
    BY <1>0, <1>1, <2>1, HearsTheSameOf
  <2>3. dmConns = {}
    BY <2>1 DEF DeviceInvariant, DmInOrder
  <2>4. ~ \E type \in {"ConnectionEstablished", "ConnectionError"} : UiEndsUpWith(type)'
    BY <2>2
  <2>. QED
    BY <2>1, <2>3, <2>4 DEF UiTold
<1>3. CASE DmReleases
  <2>1. PICK k : k = dm.id
    OBVIOUS
  <2>2. k \in Ids
    BY <1>3, <2>1 DEF DmReleases, DeviceInvariant, DmInOrder
  <2>3. Release(k) \in Sent /\ Send(Release(k)) /\ Release(k).to = "cm"
    BY <1>3, <2>1, <2>2, KindsOfMessages, KindsDiffer DEF DmReleases, Release
  <2>4. HearsTheSame
    BY <1>0, <1>1, <2>3, HearsTheSameOf
  <2>5. dmConns' \subseteq dmConns /\ UNCHANGED dst /\ dm'.pc = "awaitEnd"
    BY <1>0, <1>3 DEF DmReleases, DmBusy
  <2>. QED
    BY <1>1, <2>4, <2>5, StillTold
<1>4. CASE DmNewDeviceConnection
  <2>1. PICK k : k = Head(chan["dm"]).id
    OBVIOUS
  <2>2. /\ Receives("dm", "NewDeviceConnection") /\ dmConns' = dmConns \cup {k}
        /\ dst' = [dst EXCEPT ![k] = "starting"]
    BY <1>4, <2>1 DEF DmNewDeviceConnection
  <2>3. HearsTheSame
    BY <1>0, <1>1, <2>2, HearsTheSameTaken
  <2>4. k \in Ids
    BY <1>0, <2>1, <2>2, ReceivingTakes, KindsOfMessages
  <2>5. \A id \in dmConns' : dst'[id] = "starting" \/ (id \in dmConns /\ dst'[id] = dst[id])
    BY <1>0, <2>2, <2>4
  <2>6. dmConns' # {}
    BY <2>2
  <2>. QED
    BY <1>1, <2>3, <2>5, <2>6, StillTold
<1>5. CASE \/ DmBroadcast("DisconnectAllDevices", "Disconnect")
           \/ DmBroadcast("RunDeviceConnectionPing", "SendPing")
           \/ DmRemoveConnection
  <2>1. \E type \in {"DisconnectAllDevices", "RunDeviceConnectionPing", "RemoveConnection"} :
           Receives("dm", type)
    BY <1>5 DEF DmBroadcast, DmRemoveConnection
  <2>2. HearsTheSame
    BY <1>0, <1>1, <2>1, HearsTheSameTaken
  <2>3. UNCHANGED <<dmConns, dst>> /\ dm.pc = "idle"
    BY <1>5 DEF DmBroadcast, DmRemoveConnection, dstVars
  <2>. QED
    BY <1>1, <2>2, <2>3, StillTold
<1>6. CASE DmSendsEvent \/ DmBroadcastDone \/ DmTaskEnded \/ DmEnds
  <2>1. UNCHANGED <<routerVars, dmConns, dst>>
    BY <1>6 DEF DmSendsEvent, DmBroadcastDone, DmTaskEnded, DmEnds, dmVars, dstVars
  <2>2. HearsTheSame
    BY <1>1, <2>1, HearsNothing
  <2>3. dmConns' = {} /\ dm'.pc \in {"idle", "broadcast"}
          => dmConns = {} /\ dm.pc \in {"idle", "broadcast"}
    <3>1. CASE DmTaskEnded
      BY <1>0, <2>1, <3>1 DEF DmTaskEnded, DmBusy
    <3>2. CASE DmSendsEvent \/ DmBroadcastDone \/ DmEnds
      BY <1>0, <2>1, <3>2 DEF DmSendsEvent, DmBroadcastDone, DmEnds, dmVars, DmBusy
    <3>. QED
      BY <1>6, <3>1, <3>2
  <2>. QED
    BY <1>1, <2>1, <2>2, <2>3, StillTold
<1>7. CASE DmQuits \/ DmQuitsTask \/ DmQuitTaskEnded
  BY <1>0, <1>7 DEF DmQuits, QuitRequested, DmQuitsTask, DmQuitTaskEnded, Quitting
<1>. QED
  BY <1>2, <1>3, <1>4, <1>5, <1>6, <1>7 DEF Dm

LEMMA UiToldInductive == Spec => []UiTold
<1>1. Init => UiTold
  <2>. SUFFICES ASSUME Init PROVE UiTold
    OBVIOUS
  <2>1. /\ rQ = <<>> /\ held = <<>> /\ chan["ui"] = <<>> /\ uiShown = "nothing"
    BY DEF Init, Components
  <2>2. \A type : ~LastForUi(rQ, type) /\ ~LastForUi(held, type) /\ ~LastForUi(chan["ui"], type)
    BY <2>1, LastOfNone, Zenon
  <2>3. \A type : UiEndsUpWith(type) => type = "nothing"
    BY <2>1, <2>2 DEF UiEndsUpWith
  <2>. QED
    BY <2>3 DEF UiTold
<1>2. DeviceInvariant /\ UiTold /\ [Next]_vars => UiTold'
  BY UiToldElsewhere, UiToldByTasks, UiToldByManager DEF Next
<1>. QED
  BY <1>1, <1>2, DeviceInductive, PTL DEF Spec

(* The UI is told the truth: what is on its way or shown does not claim    *)
(* that all devices are disconnected while one of them is at work, and     *)
(* once the last one is removed, it is the last that the UI hears          *)
(* (device.rs:182-186, state.rs:158).                                      *)
THEOREM UiToldTheTruth == Spec => []UiNotMisled
<1>1. UiTold => UiNotMisled
  BY DEF UiTold, UiNotMisled
<1>. QED
  BY <1>1, UiToldInductive, PTL
=============================================================================
