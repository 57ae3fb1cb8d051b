--------------------------- MODULE UsbLink_proofs ---------------------------
(***************************************************************************)
(* Theorems about the JSON connection over USB.                            *)
(***************************************************************************)
EXTENDS UsbLink, QueueLemmas

Streams == [id : 0 .. MaxSessions + MaxAttached, open : BOOLEAN,
            out : Messages, got : Messages]
FitsPipe == {q \in Seq(Packets) : Len(q) <= PipeSize}

(* TypeOK in two parts: the queues and what is in them, and the rest.      *)
Data ==
    /\ outPipe \in FitsPipe /\ inPipe \in FitsPipe /\ app \in [Sides -> Streams]
    /\ hostHand \in Packets /\ writerHand \in Packets
    /\ usbQ \in Seq(0 .. MaxAttached) /\ mgrQ \in Seq({"RequestQuit", "Error"})

Control ==
    /\ device \in {"away", "accessory"} /\ attached \in 0 .. MaxAttached
    /\ host \in {"poll", "connected", "sending"} /\ hostAt \in 0 .. MaxAttached
    /\ task \in {"run", "joining", "ended", "panicked"}
    /\ next \in {GoOn, End} \cup Attachments
    /\ mgr \in {"starting", "run", "quitReader", "quitWriter", "drain", "ended", "panicked"}
    /\ mgrFd \in 0 .. MaxAttached /\ fd \in 0 .. MaxAttached
    /\ reader \in {"starting", "reading", "waitQuit", "ended", "panicked"}
    /\ writer \in {"starting", "sending", "waitQuit", "ended", "panicked"}
    /\ readerRunning \in BOOLEAN /\ writerRunning \in BOOLEAN
    /\ readerQuit \in BOOLEAN /\ writerQuit \in BOOLEAN
    /\ held \in BOOLEAN /\ orphaned \in BOOLEAN /\ quitLost \in BOOLEAN
    /\ resetFailed \in BOOLEAN

(* Every stream of the phone's app comes from a descriptor of its own: what *)
(* bounds their number is that the descriptors still to be used are counted.*)
StreamsToCome ==
    (IF mgr = "starting" THEN 1 ELSE 0) + (IF next \in Attachments THEN 1 ELSE 0)
        + NumberOf(usbQ, Attachments)
StreamsCounted ==
    /\ app["host"].id <= MaxSessions
    /\ app["phone"].id + StreamsToCome <= attached

(* As long as no reader and writer were left behind, nothing panicked, no   *)
(* thread that runs is forgotten, and the RUNNING flags are those of the    *)
(* thread that is to join them.                                            *)
Calm ==
    orphaned \/ /\ task # "panicked" /\ mgr # "panicked"
                /\ reader # "panicked" /\ writer # "panicked"
                /\ ~held => mgr = "ended"
                /\ readerRunning => mgr \in {"run", "quitReader"}
                /\ writerRunning => mgr \in {"run", "quitReader", "quitWriter"}

LEMMA TypeParts == TypeOK <=> Data /\ Control
BY DEF TypeOK, Data, Control, Streams, FitsPipe
-----------------------------------------------------------------------------
LEMMA Sizes ==
  /\ PacketSize \in Nat /\ PacketSize >= 1 /\ PipeSize \in Nat /\ PipeSize >= 1
  /\ MaxAttached \in Nat /\ MaxSessions \in Nat /\ HostJson \in Nat /\ PhoneJson \in Nat
BY UsbSizes, UsbBounds

Message == (1 .. MaxSessions + MaxAttached) \X (1 .. HostJson + PhoneJson)

LEMMA NoMessages == <<>> \in Messages /\ <<>> \in Packets /\ <<>> \in FitsPipe
<1>1. <<>> \in Messages
  BY DEF Messages
<1>2. <<>> \in Packets
  BY <1>1, EmptySeq, Sizes DEF Packets
<1>. QED
  BY <1>1, <1>2, EmptySeq, Sizes DEF FitsPipe

LEMMA PacketAdded ==
  ASSUME NEW q \in FitsPipe, Len(q) < PipeSize, NEW p \in Packets
  PROVE  Append(q, p) \in FitsPipe
<1>1. q \in Seq(Packets)
  BY DEF FitsPipe
<1>2. Append(q, p) \in Seq(Packets) /\ Len(Append(q, p)) = Len(q) + 1 /\ Len(q) \in Nat
  BY <1>1, Extended
<1>. QED
  BY <1>2, Sizes DEF FitsPipe

LEMMA PacketTaken ==
  ASSUME NEW q \in FitsPipe, q # <<>>
  PROVE  Tail(q) \in FitsPipe /\ Head(q) \in Packets /\ Head(q) \in Messages
<1>1. q \in Seq(Packets) /\ Len(q) <= PipeSize
  BY DEF FitsPipe
<1>2. Head(q) \in Packets /\ Tail(q) \in Seq(Packets) /\ Len(Tail(q)) = Len(q) - 1 /\ Len(q) \in Nat
  BY <1>1, Removed
<1>3. Len(Tail(q)) <= PipeSize
  BY <1>1, <1>2, Sizes
<1>. QED
  BY <1>2, <1>3 DEF FitsPipe, Packets

(* What a read takes from a stream is a packet.                            *)
LEMMA ReadTyped ==
  ASSUME app \in [Sides -> Streams], NEW side \in Sides, NEW count \in Readable(side)
  PROVE  First(side, count) \in Packets /\ Rest(side, count) \in Messages
<1>. DEFINE out == app[side].out
<1>1. /\ out \in Seq(Message) /\ count \in Nat /\ count <= Len(out) /\ count <= PacketSize
      /\ Len(out) \in Nat
  BY LenProperties DEF Streams, Messages, Message, Readable
<1>. HIDE DEF out
<1>2. SubSeq(out, 1, count) \in Seq(Message) /\ Len(SubSeq(out, 1, count)) = count
  BY <1>1, SubSeqProperties
<1>3. SubSeq(out, count + 1, Len(out)) \in Seq(Message)
  BY <1>1, SubSeqProperties
<1>. QED
  BY <1>1, <1>2, <1>3 DEF First, Rest, out, Packets, Messages, Message

LEMMA GivesTyped ==
  ASSUME app \in [Sides -> Streams], NEW side \in Sides, NEW data \in Messages
  PROVE  /\ Gives(side, data) \in [Sides -> Streams]
         /\ \A s \in Sides : Gives(side, data)[s].id = app[s].id
<1>1. app[side].got \o data \in Messages
  BY DEF Streams, Messages
<1>. QED
  BY <1>1 DEF Gives, Streams

LEMMA StreamMade ==
  ASSUME app \in [Sides -> Streams], NEW side \in Sides, NewStream(side),
         app[side].id < MaxSessions + MaxAttached
  PROVE  /\ app' \in [Sides -> Streams]
         /\ app'[side].id = app[side].id + 1
         /\ \A s \in Sides \ {side} : app'[s] = app[s]
<1>. DEFINE id == app[side].id + 1
            out == [n \in 1 .. Json[side] |-> <<id, n>>]
            new == [id |-> id, open |-> TRUE, got |-> <<>>, out |-> out]
<1>1. id \in 1 .. MaxSessions + MaxAttached
  BY Sizes DEF Streams
<1>2. Json[side] \in Nat /\ Json[side] <= HostJson + PhoneJson
  BY Sizes DEF Json, Sides
<1>3. out \in Messages
  <2>1. \A n \in 1 .. Json[side] : <<id, n>> \in Message
    BY <1>1, <1>2, Sizes DEF Message
  <2>2. out \in [1 .. Json[side] -> Message]
    BY <2>1
  <2>. QED
    BY <1>2, <2>2, SequenceOf DEF Messages, Message
<1>. HIDE DEF id, out
<1>4. new \in Streams
  BY <1>1, <1>3, NoMessages DEF Streams
<1>5. app' = [app EXCEPT ![side] = new]
  BY DEF NewStream, id, out
<1>. HIDE DEF new
<1>6. app' \in [Sides -> Streams] /\ app'[side] = new /\ \A s \in Sides \ {side} : app'[s] = app[s]
  BY <1>4, <1>5
<1>. QED
  BY <1>6 DEF new, id

LEMMA StreamDropped ==
  ASSUME app \in [Sides -> Streams], NEW side \in Sides, DropStream(side)
  PROVE  /\ app' \in [Sides -> Streams]
         /\ app'[side].id = app[side].id
         /\ \A s \in Sides \ {side} : app'[s] = app[s]
<1>. DEFINE new == [NoStream EXCEPT !.id = app[side].id]
<1>1. new \in Streams /\ new.id = app[side].id
  BY NoMessages DEF NoStream, Streams
<1>2. app' = [app EXCEPT ![side] = new]
  BY DEF DropStream
<1>. HIDE DEF new
<1>. QED
  BY <1>1, <1>2

LEMMA CountIsNat ==
  ASSUME Data
  PROVE  /\ NumberOf(usbQ, Attachments) \in Nat /\ StreamsToCome \in Nat
         /\ app["phone"].id \in Nat /\ app["host"].id \in Nat
<1>1. NumberOf(usbQ, Attachments) \in Nat
  BY PositionsFinite DEF Data
<1>2. app["phone"].id \in Nat /\ app["host"].id \in Nat
  BY Sizes DEF Data, Streams, Sides
<1>. QED
  BY <1>1, <1>2 DEF StreamsToCome
LEMMA DescriptorTaken ==
  ASSUME Data, usbQ # <<>>
  PROVE  /\ Head(usbQ) \in 0 .. MaxAttached /\ Tail(usbQ) \in Seq(0 .. MaxAttached)
         /\ Head(usbQ) # QuitThread => Head(usbQ) \in Attachments
         /\ NumberOf(Tail(usbQ), Attachments) \in Nat
         /\ NumberOf(Tail(usbQ), Attachments)
              = IF Head(usbQ) # QuitThread THEN NumberOf(usbQ, Attachments) - 1
                                           ELSE NumberOf(usbQ, Attachments)
<1>1. usbQ \in Seq(0 .. MaxAttached)
  BY DEF Data
<1>2. Head(usbQ) \in 0 .. MaxAttached /\ Tail(usbQ) \in Seq(0 .. MaxAttached)
  BY <1>1, Removed
<1>3. Head(usbQ) \in Attachments <=> Head(usbQ) # QuitThread
  BY <1>2, Sizes DEF Attachments, QuitThread
<1>4. NumberOf(Tail(usbQ), Attachments)
         = IF Head(usbQ) \in Attachments THEN NumberOf(usbQ, Attachments) - 1
                                         ELSE NumberOf(usbQ, Attachments)
  BY <1>1, NumberOfTail
<1>5. NumberOf(Tail(usbQ), Attachments) \in Nat
  BY <1>2, PositionsFinite
<1>. QED
  BY <1>2, <1>3, <1>4, <1>5

LEMMA DescriptorAdded ==
  ASSUME Data, NEW at \in 0 .. MaxAttached
  PROVE  /\ Append(usbQ, at) \in Seq(0 .. MaxAttached)
         /\ NumberOf(Append(usbQ, at), Attachments)
              = IF at = QuitThread THEN NumberOf(usbQ, Attachments)
                                   ELSE NumberOf(usbQ, Attachments) + 1
<1>1. usbQ \in Seq(0 .. MaxAttached)
  BY DEF Data
<1>2. at \in Attachments <=> at # QuitThread
  BY Sizes DEF Attachments, QuitThread
<1>3. NumberOf(Append(usbQ, at), Attachments)
         = IF at \in Attachments THEN NumberOf(usbQ, Attachments) + 1
                                 ELSE NumberOf(usbQ, Attachments)
  BY <1>1, NumberOfAppend
<1>. QED
  BY <1>1, <1>2, <1>3, Extended

LEMMA UsesAdded ==
  ASSUME Data, NEW x \in 0 .. MaxAttached, NEW at
  PROVE  NumberOf(Append(usbQ, x), {at})
           = IF x = at THEN NumberOf(usbQ, {at}) + 1 ELSE NumberOf(usbQ, {at})
<1>1. usbQ \in Seq(0 .. MaxAttached)
  BY DEF Data
<1>2. NumberOf(Append(usbQ, x), {at})
         = IF x \in {at} THEN NumberOf(usbQ, {at}) + 1 ELSE NumberOf(usbQ, {at})
  BY <1>1, NumberOfAppend
<1>. QED
  BY <1>2

LEMMA EventsOfMgr ==
  ASSUME Data
  PROVE  /\ \A e \in {"RequestQuit", "Error"} : Append(mgrQ, e) \in Seq({"RequestQuit", "Error"})
         /\ mgrQ # <<>> => Tail(mgrQ) \in Seq({"RequestQuit", "Error"})
         /\ <<>> \in Seq({"RequestQuit", "Error"})
<1>1. mgrQ \in Seq({"RequestQuit", "Error"})
  BY DEF Data
<1>. QED
  BY <1>1, Removed, Extended
-----------------------------------------------------------------------------
Sound == Data /\ Control /\ StreamsCounted /\ Calm

LEMMA UsbStart == Init => Sound
<1>. SUFFICES ASSUME Init PROVE Sound
  OBVIOUS
<1>1. app \in [Sides -> Streams] /\ app["host"].id = 0 /\ app["phone"].id = 0
  <2>1. NoStream \in Streams /\ NoStream.id = 0
    BY NoMessages, Sizes DEF NoStream, Streams
  <2>. QED
    BY <2>1 DEF Init, Sides
<1>2. Data
  BY <1>1, NoMessages DEF Init, Data
<1>3. Control
  <2>1. 0 \in 0 .. MaxAttached /\ GoOn \in {GoOn, End} \cup Attachments
    BY Sizes
  <2>. QED
    BY <2>1 DEF Init, Control
<1>4. NumberOf(usbQ, Attachments) = 0
  BY NumberOfNone DEF Init
<1>5. GoOn \notin Attachments
  BY Sizes DEF GoOn, Attachments
<1>6. StreamsCounted
  BY <1>1, <1>4, <1>5, Sizes DEF Init, StreamsCounted, StreamsToCome
<1>7. Calm
  BY DEF Init, Calm
<1>. QED
  BY <1>2, <1>3, <1>6, <1>7 DEF Sound

(* The cable and the apps.                                                 *)
LEMMA SurroundingsStep == Sound /\ Surroundings => Sound'
<1>. SUFFICES ASSUME Sound, Surroundings PROVE Sound'
  OBVIOUS
<1>. USE DEF Sound
<1>1. CASE Unplug
  <2>1. Data'
    BY <1>1, NoMessages DEF Unplug, Detaches, Data, hostVars, phoneVars, taskVars, mgrVars, writerVars
  <2>2. Control'
    BY <1>1 DEF Unplug, Detaches, Control, hostVars, phoneVars, taskVars, mgrVars, writerVars, flags
  <2>3. StreamsCounted' /\ Calm'
    BY <1>1 DEF Unplug, Detaches, StreamsCounted, StreamsToCome, Calm, phoneVars, taskVars, mgrVars,
                writerVars, flags
  <2>. QED
    BY <2>1, <2>2, <2>3
<1>2. CASE \E side \in Sides : AppCloses(side)
  <2>1. PICK side \in Sides : AppCloses(side)
    BY <1>2
  <2>2. app' \in [Sides -> Streams] /\ \A s \in Sides : app'[s].id = app[s].id
    BY <2>1, NoMessages DEF AppCloses, Data, Streams
  <2>3. Data'
    BY <2>1, <2>2 DEF AppCloses, Data, bus, hostVars, phoneVars, taskVars, mgrVars, writerVars
  <2>4. Control'
    BY <2>1 DEF AppCloses, Control, bus, hostVars, phoneVars, taskVars, mgrVars, writerVars, flags
  <2>5. StreamsCounted' /\ Calm'
    BY <2>1, <2>2 DEF AppCloses, StreamsCounted, StreamsToCome, Calm, bus, phoneVars, taskVars, mgrVars,
                      writerVars, flags, Sides
  <2>. QED
    BY <2>3, <2>4, <2>5
<1>. QED
  BY <1>1, <1>2 DEF Surroundings
(* The computer changes nothing of what the phone's threads and tasks keep. *)
LEMMA PhoneAway ==
  ASSUME Sound, UNCHANGED phoneVars, UNCHANGED attached,
         app'["host"].id <= MaxSessions, app'["phone"].id = app["phone"].id
  PROVE  StreamsCounted' /\ Calm'
BY DEF Sound, StreamsCounted, StreamsToCome, Calm, phoneVars, taskVars, mgrVars, writerVars, flags

(* Letting go of the accessory.                                            *)
LEMMA LetsGoStep ==
  ASSUME Sound, NEW unread \in FitsPipe, LetsGo(unread), host' = "poll"
  PROVE  Sound'
<1>. USE DEF Sound
<1>1. /\ app' \in [Sides -> Streams]
      /\ app'["host"].id = app["host"].id /\ app'["phone"] = app["phone"]
  BY StreamDropped DEF LetsGo, Data, Sides
<1>2. outPipe' \in FitsPipe /\ inPipe' \in FitsPipe
  BY NoMessages DEF LetsGo, Detaches, Data
<1>3. Data'
  BY <1>1, <1>2, NoMessages DEF LetsGo, Data, phoneVars, taskVars, mgrVars, writerVars
<1>4. device' \in {"away", "accessory"} /\ attached' = attached /\ hostAt' = 0
  BY DEF LetsGo, Detaches, Control
<1>5. resetFailed' \in BOOLEAN
  <2>1. resetFailed' = resetFailed \/ resetFailed' = (resetFailed \/ Alive(hostAt))
    BY DEF LetsGo
  <2>. QED
    BY <2>1 DEF Control
<1>6. Control'
  BY <1>4, <1>5, Sizes DEF LetsGo, Control, phoneVars, taskVars, mgrVars, writerVars, flags
<1>7. StreamsCounted' /\ Calm'
  <2>1. UNCHANGED phoneVars /\ app'["host"].id <= MaxSessions
    BY <1>1 DEF LetsGo, StreamsCounted
  <2>. QED
    BY <1>1, <1>4, <2>1, PhoneAway
<1>. QED
  BY <1>3, <1>6, <1>7

LEMMA HostStep ==
  Sound /\ (HostConnects \/ HostStartsAccessory \/ HostSendsAudio \/ HostQuits \/ HostHandlesPoll)
    => Sound'
<1>. SUFFICES ASSUME Sound,
                     HostConnects \/ HostStartsAccessory \/ HostSendsAudio \/ HostQuits
                         \/ HostHandlesPoll
              PROVE  Sound'
  OBVIOUS
<1>. USE DEF Sound
<1>a. app["host"].id \in Nat /\ app["phone"].id \in Nat
  BY CountIsNat
<1>1. CASE HostConnects
  <2>1. /\ app' \in [Sides -> Streams]
        /\ app'["host"].id = app["host"].id + 1 /\ app'["phone"] = app["phone"]
    <3>1. NewStream("host") /\ app["host"].id < MaxSessions + MaxAttached /\ "host" \in Sides
      BY <1>1, <1>a, Sizes DEF HostConnects, Sides
    <3>. QED
      BY <3>1, StreamMade DEF Data, Sides
  <2>2. Data'
    BY <1>1, <2>1 DEF HostConnects, Data, bus, phoneVars, taskVars, mgrVars, writerVars
  <2>3. Control'
    BY <1>1 DEF HostConnects, ClaimsAccessory, Control, bus, phoneVars, taskVars, mgrVars,
                writerVars, flags
  <2>4. UNCHANGED <<attached, phoneVars>> /\ app'["host"].id <= MaxSessions
    BY <1>1, <1>a, <2>1, Sizes DEF HostConnects, bus
  <2>. QED
    BY <2>1, <2>2, <2>3, <2>4, PhoneAway
<1>2. CASE HostStartsAccessory
  <2>. DEFINE at == attached + 1
  <2>1. at \in 0 .. MaxAttached /\ at # QuitThread /\ attached' = at /\ attached \in Nat
    BY <1>2, Sizes DEF HostStartsAccessory, StartsInAccessoryMode, Control, QuitThread
  <2>. HIDE DEF at
  <2>2. /\ usbQ' \in Seq(0 .. MaxAttached)
        /\ NumberOf(usbQ', Attachments) = NumberOf(usbQ, Attachments) + 1
    <3>1. usbQ' = Append(usbQ, at)
      BY <1>2 DEF HostStartsAccessory, at
    <3>. QED
      BY <2>1, <3>1, DescriptorAdded
  <2>3. Data'
    BY <1>2, <2>2 DEF HostStartsAccessory, Data, hostVars, mgrVars, writerVars
  <2>4. Control'
    BY <1>2, <2>1 DEF HostStartsAccessory, StartsInAccessoryMode, Control, hostVars, mgrVars,
                      writerVars, flags
  <2>5. StreamsCounted'
    <3>1. StreamsToCome' = StreamsToCome + 1
      BY <1>2, <2>2, CountIsNat DEF HostStartsAccessory, StreamsToCome, mgrVars
    <3>2. at = attached + 1
      BY DEF at
    <3>. QED
      BY <1>2, <1>a, <2>1, <3>1, <3>2, CountIsNat DEF HostStartsAccessory, StreamsCounted
  <2>6. Calm'
    BY <1>2 DEF HostStartsAccessory, Calm, mgrVars, writerVars, flags
  <2>. QED
    BY <2>3, <2>4, <2>5, <2>6
<1>3. CASE HostSendsAudio
  <2>1. outPipe' \in FitsPipe
    BY <1>3, PacketAdded, NoMessages DEF HostSendsAudio, SendsPacket, Data
  <2>2. Data'
    BY <1>3, <2>1 DEF HostSendsAudio, Data, hostVars, phoneVars, taskVars, mgrVars, writerVars
  <2>3. Control'
    BY <1>3 DEF HostSendsAudio, Control, hostVars, phoneVars, taskVars, mgrVars, writerVars, flags
  <2>4. UNCHANGED <<attached, phoneVars, app>> /\ app'["host"].id <= MaxSessions
    BY <1>3 DEF HostSendsAudio, StreamsCounted
  <2>. QED
    BY <2>2, <2>3, <2>4, PhoneAway
<1>4. CASE HostQuits
  <2>1. inPipe \in FitsPipe
    BY DEF Data
  <2>. QED
    BY <1>4, <2>1, LetsGoStep DEF HostQuits
<1>5. CASE HostPolls
  <2>1. PICK count \in Readable("host") :
          /\ hostHand' = First("host", count)
          /\ app' = [Gives("host", Head(inPipe)) EXCEPT !["host"].out = Rest("host", count)]
          /\ host' = IF count = 0 THEN "connected" ELSE "sending"
    BY <1>5 DEF HostPolls
  <2>2. inPipe' \in FitsPipe /\ Head(inPipe) \in Messages
    BY <1>5, PacketTaken DEF HostPolls, ReceivesPacket, Data
  <2>3. hostHand' \in Packets /\ Rest("host", count) \in Messages
    BY <2>1, ReadTyped DEF Data, Sides
  <2>4. /\ Gives("host", Head(inPipe)) \in [Sides -> Streams]
        /\ \A s \in Sides : Gives("host", Head(inPipe))[s].id = app[s].id
    BY <2>2, GivesTyped DEF Data, Sides
  <2>5. app' \in [Sides -> Streams] /\ \A s \in Sides : app'[s].id = app[s].id
    <3>. DEFINE g == Gives("host", Head(inPipe))
                r == Rest("host", count)
    <3>. HIDE DEF g, r
    <3>1. app' = [g EXCEPT !["host"].out = r] /\ r \in Messages /\ g \in [Sides -> Streams]
      BY <2>1, <2>3, <2>4 DEF g, r
    <3>2. app' \in [Sides -> Streams] /\ \A s \in Sides : app'[s].id = g[s].id
      BY <3>1 DEF Streams
    <3>. QED
      BY <2>4, <3>2 DEF g
  <2>6. Data'
    BY <1>5, <2>2, <2>3, <2>5 DEF HostPolls, Data, phoneVars, taskVars, mgrVars, writerVars
  <2>7. Control'
    BY <1>5, <2>1 DEF HostPolls, Control, phoneVars, taskVars, mgrVars, writerVars, flags
  <2>8. UNCHANGED <<attached, phoneVars>> /\ app'["host"].id <= MaxSessions
    BY <1>5, <2>5 DEF HostPolls, StreamsCounted, Sides
  <2>. QED
    BY <2>5, <2>6, <2>7, <2>8, PhoneAway DEF Sides
<1>6. CASE HostSends
  <2>1. outPipe' \in FitsPipe
    BY <1>6, PacketAdded DEF HostSends, SendsPacket, Data
  <2>2. Data'
    BY <1>6, <2>1, NoMessages DEF HostSends, Data, phoneVars, taskVars, mgrVars, writerVars
  <2>3. Control'
    BY <1>6 DEF HostSends, Control, phoneVars, taskVars, mgrVars, writerVars, flags
  <2>4. UNCHANGED <<attached, phoneVars, app>> /\ app'["host"].id <= MaxSessions
    BY <1>6 DEF HostSends, StreamsCounted
  <2>. QED
    BY <2>2, <2>3, <2>4, PhoneAway
<1>7. CASE HostFails
  <2>1. host' = "poll" /\ \E unread \in {inPipe, Tail(inPipe)} :
           LetsGo(unread) /\ (unread = inPipe \/ inPipe # <<>>)
    BY <1>7 DEF HostFails
  <2>2. PICK unread \in {inPipe, Tail(inPipe)} :
           LetsGo(unread) /\ (unread = inPipe \/ inPipe # <<>>)
    BY <2>1
  <2>3. unread \in FitsPipe
    BY <2>2, PacketTaken DEF Data
  <2>. QED
    BY <2>1, <2>2, <2>3, LetsGoStep
<1>. QED
  BY <1>1, <1>2, <1>3, <1>4, <1>5, <1>6, <1>7 DEF HostHandlesPoll
(* The phone's tasks and threads: what does not touch the cable, the       *)
(* computer or the streams keeps the sequences if its queues are typed.    *)
LEMMA PhoneOnly ==
  ASSUME Data, UNCHANGED <<bus, app, hostVars, writerVars>>,
         usbQ' \in Seq(0 .. MaxAttached), mgrQ' \in Seq({"RequestQuit", "Error"})
  PROVE  Data'
BY DEF Data, bus, hostVars, writerVars

LEMMA TaskStep == Sound /\ Task => Sound'
<1>. SUFFICES ASSUME Sound, Task PROVE Sound'
  OBVIOUS
<1>. USE DEF Sound
<1>a. /\ UNCHANGED <<orphaned, reader, writerVars, flags, fd, bus, app, hostVars>>
      /\ app["phone"].id \in Nat
  BY CountIsNat DEF Task, TaskReceivesFd, TaskReceivesQuitThread, TaskQuits, TaskJoins
<1>b. /\ NumberOf(usbQ, Attachments) \in Nat /\ attached \in Nat
      /\ GoOn \notin Attachments /\ End \notin Attachments
  BY CountIsNat, Sizes DEF Control, GoOn, End, Attachments
<1>1. ASSUME TaskReceivesFd \/ TaskReceivesQuitThread
      PROVE  /\ task = "run" /\ usbQ # <<>> /\ usbQ' = Tail(usbQ)
             /\ usbQ' \in Seq(0 .. MaxAttached)
             /\ NumberOf(usbQ', Attachments)
                  = IF TaskReceivesFd THEN NumberOf(usbQ, Attachments) - 1
                                      ELSE NumberOf(usbQ, Attachments)
             /\ NumberOf(usbQ', Attachments) \in Nat
             /\ TaskReceivesFd <=> Head(usbQ) # QuitThread
             /\ TaskReceivesFd => Head(usbQ) \in Attachments
  <2>1. /\ task = "run" /\ usbQ # <<>> /\ usbQ' = Tail(usbQ)
        /\ TaskReceivesFd <=> Head(usbQ) # QuitThread
    BY <1>1 DEF TaskReceivesFd, TaskReceivesQuitThread
  <2>. QED
    BY <2>1, DescriptorTaken
<1>2. mgrQ' \in Seq({"RequestQuit", "Error"})
  <2>1. \/ mgrQ' = mgrQ \/ mgrQ' = <<>> \/ mgrQ' = Append(mgrQ, "RequestQuit")
    BY DEF Task, TaskReceivesFd, TaskReceivesQuitThread, TaskQuits, TaskJoins, QuitHeld, StartThread
  <2>. QED
    BY <2>1, EventsOfMgr DEF Data
<1>3. Data'
  <2>1. usbQ' \in Seq(0 .. MaxAttached)
    BY <1>1 DEF Task, TaskQuits, TaskJoins, Data
  <2>. QED
    BY <1>2, <1>a, <2>1, PhoneOnly
<1>4. CASE TaskReceivesFd
  <2>1. CASE held /\ QuitHeld(Head(usbQ)) /\ UNCHANGED <<held, mgr, mgrFd>>
    <3>1. Control'
      BY <1>1, <1>4, <1>a, <2>1 DEF QuitHeld, Control, writerVars, flags, bus, hostVars
    <3>2. StreamsToCome' <= StreamsToCome /\ StreamsToCome' \in Nat
      BY <1>1, <1>4, <1>b, <2>1 DEF QuitHeld, StreamsToCome
    <3>3. StreamsCounted'
      BY <1>a, <1>b, <3>2, CountIsNat DEF StreamsCounted, bus
    <3>4. Calm'
      BY <1>a, <2>1 DEF QuitHeld, Calm, writerVars, flags
    <3>. QED
      BY <1>3, <3>1, <3>3, <3>4
  <2>2. CASE ~held /\ StartThread(Head(usbQ)) /\ UNCHANGED <<task, next>>
    <3>1. Control'
      <4>1. Head(usbQ) \in 0 .. MaxAttached
        BY <1>1, <1>4, DescriptorTaken
      <4>2. /\ held' \in BOOLEAN /\ mgrFd' \in 0 .. MaxAttached
            /\ mgr' \in {"starting", "run", "quitReader", "quitWriter", "drain", "ended", "panicked"}
        BY <2>2, <4>1 DEF StartThread, Control
      <4>. QED
        BY <1>a, <2>2, <4>2 DEF Control, writerVars, flags, bus, hostVars
    <3>2. StreamsToCome' <= StreamsToCome /\ StreamsToCome' \in Nat
      BY <1>1, <1>4, <1>b, <2>2 DEF StartThread, StreamsToCome
    <3>3. StreamsCounted'
      BY <1>a, <1>b, <3>2, CountIsNat DEF StreamsCounted, bus
    <3>4. Calm'
      BY <1>a, <2>2 DEF StartThread, Calm, writerVars, flags
    <3>. QED
      BY <1>3, <3>1, <3>3, <3>4
  <2>. QED
    BY <1>4, <2>1, <2>2 DEF TaskReceivesFd
<1>5. CASE TaskReceivesQuitThread
  <2>1. Control'
    BY <1>1, <1>5, <1>a DEF TaskReceivesQuitThread, QuitHeld, Control, writerVars, flags, bus, hostVars
  <2>2. StreamsToCome' <= StreamsToCome /\ StreamsToCome' \in Nat
    BY <1>1, <1>5, <1>b DEF TaskReceivesQuitThread, QuitHeld, StreamsToCome
  <2>3. StreamsCounted'
    BY <1>a, <1>b, <2>2, CountIsNat DEF StreamsCounted, bus
  <2>4. Calm'
    BY <1>a, <1>5 DEF TaskReceivesQuitThread, QuitHeld, Calm, writerVars, flags
  <2>. QED
    BY <1>3, <2>1, <2>3, <2>4
<1>6. CASE TaskQuits
  <2>1. Control'
    BY <1>6, <1>a DEF TaskQuits, QuitHeld, Control, writerVars, flags, bus, hostVars
  <2>2. StreamsToCome' <= StreamsToCome /\ StreamsToCome' \in Nat
    BY <1>6, <1>b DEF TaskQuits, QuitHeld, StreamsToCome
  <2>3. StreamsCounted'
    BY <1>a, <1>b, <2>2, CountIsNat DEF StreamsCounted, bus
  <2>4. Calm'
    BY <1>a, <1>6 DEF TaskQuits, QuitHeld, Calm, writerVars, flags
  <2>. QED
    BY <1>3, <2>1, <2>3, <2>4
<1>7. CASE TaskJoins
  <2>1. Control'
    <3>1. /\ task' \in {"run", "joining", "ended", "panicked"} /\ held' \in BOOLEAN
          /\ next' \in {GoOn, End} \cup Attachments
          /\ mgr' \in {"starting", "run", "quitReader", "quitWriter", "drain", "ended", "panicked"}
      BY <1>7 DEF TaskJoins, StartThread, Control
    <3>2. mgrFd' \in 0 .. MaxAttached
      BY <1>7 DEF TaskJoins, StartThread, Control, Attachments
    <3>. QED
      BY <1>a, <3>1, <3>2 DEF Control, writerVars, flags, bus, hostVars
  <2>2. StreamsToCome' <= StreamsToCome /\ StreamsToCome' \in Nat
    BY <1>7, <1>b DEF TaskJoins, StartThread, StreamsToCome
  <2>3. StreamsCounted'
    BY <1>a, <1>b, <2>2, CountIsNat DEF StreamsCounted, bus
  <2>4. Calm'
    BY <1>a, <1>7 DEF TaskJoins, StartThread, Calm, writerVars, flags
  <2>. QED
    BY <1>3, <2>1, <2>3, <2>4
<1>. QED
  BY <1>4, <1>5, <1>6, <1>7 DEF Task

LEMMA MgrStep == Sound /\ Mgr => Sound'
<1>. SUFFICES ASSUME Sound, Mgr PROVE Sound'
  OBVIOUS
<1>. USE DEF Sound
<1>a. UNCHANGED <<bus, hostVars>> /\ UNCHANGED <<task, held, next>>
  BY DEF Mgr, MgrStarts, MgrQuits, MgrWaitsQuit, JoinReader, JoinWriter, Drains, taskVars
<1>b. /\ NumberOf(usbQ, Attachments) \in Nat /\ attached \in Nat
      /\ app["phone"].id \in Nat /\ app["host"].id \in Nat
  BY CountIsNat DEF Control
<1>1. CASE MgrStarts
  <2>1. CASE readerRunning \/ writerRunning
    <3>1. /\ mgr = "starting" /\ mgr' = "panicked" /\ mgrFd' = 0
          /\ UNCHANGED <<app, reader, writerVars, flags, fd, mgrQ, orphaned, taskVars>>
      BY <1>1, <2>1 DEF MgrStarts
    <3>2. Data'
      BY <1>a, <3>1, PhoneOnly DEF Data, taskVars
    <3>3. Control'
      BY <1>a, <3>1, Sizes DEF Control, taskVars, writerVars, flags, bus, hostVars
    <3>4. StreamsCounted'
      BY <1>a, <1>b, <3>1 DEF StreamsCounted, StreamsToCome, taskVars, bus
    <3>5. Calm'
      BY <1>a, <2>1, <3>1 DEF Calm, taskVars, writerVars, flags
    <3>. QED
      BY <3>2, <3>3, <3>4, <3>5
  <2>2. CASE ~readerRunning /\ ~writerRunning
    <3>1. /\ mgr = "starting" /\ mgr' = "run" /\ mgrFd' = 0 /\ fd' = mgrFd
          /\ readerRunning' = TRUE /\ writerRunning' = TRUE
          /\ reader' = "starting" /\ writer' = "starting" /\ NewStream("phone")
          /\ UNCHANGED <<writerHand, readerQuit, writerQuit, quitLost, mgrQ, orphaned, taskVars>>
      BY <1>1, <2>2 DEF MgrStarts
    <3>2. StreamsToCome' = StreamsToCome - 1
      BY <1>b, <3>1 DEF StreamsToCome, taskVars
    <3>3. app["phone"].id < MaxSessions + MaxAttached /\ app["phone"].id + StreamsToCome <= attached
      <4>1. StreamsToCome >= 1 /\ StreamsToCome \in Nat
        BY <1>b, <3>1 DEF StreamsToCome
      <4>2. attached <= MaxAttached
        BY DEF Control
      <4>. QED
        BY <1>b, <4>1, <4>2, Sizes DEF StreamsCounted
    <3>4. /\ app' \in [Sides -> Streams]
          /\ app'["phone"].id = app["phone"].id + 1 /\ app'["host"] = app["host"]
      BY <3>1, <3>3, StreamMade DEF Data, Sides
    <3>5. Data'
      BY <1>a, <3>1, <3>4 DEF Data, taskVars, bus, hostVars
    <3>6. Control'
      BY <1>a, <3>1, Sizes DEF Control, taskVars, bus, hostVars
    <3>7. StreamsCounted'
      BY <1>a, <1>b, <3>2, <3>3, <3>4, CountIsNat DEF StreamsCounted, bus
    <3>8. Calm'
      BY <1>a, <3>1 DEF Calm, taskVars
    <3>. QED
      BY <3>5, <3>6, <3>7, <3>8
  <2>. QED
    BY <1>1, <2>1, <2>2 DEF MgrStarts
<1>2. CASE MgrQuits
  <2>1. Data'
    BY <1>2, EventsOfMgr, PhoneOnly DEF MgrQuits, taskVars, Data
  <2>2. Control'
    BY <1>a, <1>2 DEF MgrQuits, Control, taskVars, writerVars, flags, bus, hostVars
  <2>3. StreamsCounted' /\ Calm'
    BY <1>a, <1>2 DEF MgrQuits, StreamsCounted, StreamsToCome, Calm, taskVars, bus
  <2>. QED
    BY <2>1, <2>2, <2>3
<1>3. CASE MgrWaitsQuit
  <2>1. /\ usbQ' \in Seq(0 .. MaxAttached)
        /\ NumberOf(usbQ', Attachments) = NumberOf(usbQ, Attachments)
    <3>1. QuitThread \in 0 .. MaxAttached /\ usbQ' = Append(usbQ, QuitThread)
      BY <1>3, Sizes DEF MgrWaitsQuit, QuitThread
    <3>. QED
      BY <3>1, DescriptorAdded
  <2>2. Data'
    BY <1>3, <2>1, EventsOfMgr, PhoneOnly DEF MgrWaitsQuit
  <2>3. Control'
    BY <1>a, <1>3 DEF MgrWaitsQuit, Control, writerVars, bus, hostVars
  <2>4. StreamsCounted' /\ Calm'
    BY <1>a, <1>3, <2>1 DEF MgrWaitsQuit, StreamsCounted, StreamsToCome, Calm, writerVars, bus
  <2>. QED
    BY <2>2, <2>3, <2>4
<1>4. CASE JoinReader
  <2>1. Data'
    BY <1>4, PhoneOnly DEF JoinReader, taskVars, Data
  <2>2. Control'
    BY <1>a, <1>4 DEF JoinReader, Control, taskVars, writerVars, bus, hostVars
  <2>3. StreamsCounted' /\ Calm'
    BY <1>a, <1>4 DEF JoinReader, StreamsCounted, StreamsToCome, Calm, taskVars, writerVars, bus
  <2>. QED
    BY <2>1, <2>2, <2>3
<1>5. CASE JoinWriter
  <2>1. /\ app' \in [Sides -> Streams]
        /\ app'["phone"].id = app["phone"].id /\ app'["host"] = app["host"]
    BY <1>5, StreamDropped DEF JoinWriter, Data, Sides
  <2>2. Data'
    BY <1>a, <1>5, <2>1 DEF JoinWriter, Data, taskVars, writerVars, bus, hostVars
  <2>3. Control'
    <3>1. 0 \in 0 .. MaxAttached
      BY Sizes
    <3>. QED
      BY <1>a, <1>5, <3>1 DEF JoinWriter, Control, taskVars, writerVars, bus, hostVars
  <2>4. StreamsCounted' /\ Calm'
    BY <1>a, <1>5, <2>1 DEF JoinWriter, StreamsCounted, StreamsToCome, Calm, taskVars, writerVars, bus
  <2>. QED
    BY <2>2, <2>3, <2>4
<1>6. CASE Drains
  <2>1. Data'
    BY <1>6, EventsOfMgr, PhoneOnly DEF Drains, taskVars, Data
  <2>2. Control'
    BY <1>a, <1>6 DEF Drains, Control, taskVars, writerVars, flags, bus, hostVars
  <2>3. StreamsCounted' /\ Calm'
    BY <1>a, <1>6 DEF Drains, StreamsCounted, StreamsToCome, Calm, taskVars, writerVars, flags, bus
  <2>. QED
    BY <2>1, <2>2, <2>3
<1>. QED
  BY <1>1, <1>2, <1>3, <1>4, <1>5, <1>6 DEF Mgr
LEMMA ReaderStep == Sound /\ Reader => Sound'
<1>. SUFFICES ASSUME Sound, Reader PROVE Sound'
  OBVIOUS
<1>. USE DEF Sound
<1>a. UNCHANGED <<device, attached, inPipe, hostVars, taskVars, writerVars, fd, mgr, mgrFd, orphaned>>
  BY DEF Reader, ReaderStarts, ReaderReads, ReaderFails, ReaderQuits, mgrVars, bus
<1>b. outPipe' \in FitsPipe
  BY PacketTaken DEF Reader, ReaderStarts, ReaderReads, ReaderFails, ReaderQuits, ReadPacket, bus, Data
<1>c. mgrQ' \in Seq({"RequestQuit", "Error"})
  BY EventsOfMgr DEF Reader, ReaderStarts, ReaderReads, ReaderFails, ReaderQuits, ReportsError,
                     mgrVars, Data
<1>d. app' \in [Sides -> Streams] /\ \A s \in Sides : app'[s].id = app[s].id
  <2>1. CASE ReaderReads
    <3>1. Head(outPipe) \in Messages
      BY <2>1, PacketTaken DEF ReaderReads, ReadPacket, Data
    <3>. QED
      BY <2>1, <3>1, GivesTyped DEF ReaderReads, Data, Sides
  <2>2. CASE UNCHANGED app
    BY <2>2 DEF Data
  <2>. QED
    BY <2>1, <2>2 DEF Reader, ReaderStarts, ReaderFails, ReaderQuits
<1>1. Data'
  BY <1>a, <1>b, <1>c, <1>d DEF Data, hostVars, taskVars, writerVars
<1>2. /\ reader' \in {"starting", "reading", "waitQuit", "ended", "panicked"}
      /\ reader' = "panicked" => orphaned
  BY DEF Reader, ReaderStarts, ReaderReads, ReaderFails, ReaderQuits, ReadsOn, Given
<1>3. /\ readerRunning' = readerRunning /\ writerRunning' = writerRunning
      /\ readerQuit' \in BOOLEAN /\ writerQuit' \in BOOLEAN /\ quitLost' \in BOOLEAN
  BY DEF Reader, ReaderStarts, ReaderReads, ReaderFails, ReaderQuits, Control, flags
<1>4. Control'
  BY <1>a, <1>2, <1>3 DEF Control, hostVars, taskVars, writerVars
<1>5. StreamsCounted' /\ Calm'
  BY <1>a, <1>d, <1>2, <1>3 DEF StreamsCounted, StreamsToCome, Calm, Sides, taskVars, writerVars
<1>. QED
  BY <1>1, <1>4, <1>5

LEMMA WriterStep == Sound /\ Writer => Sound'
<1>. SUFFICES ASSUME Sound, Writer PROVE Sound'
  OBVIOUS
<1>. USE DEF Sound
<1>a. UNCHANGED <<device, attached, outPipe, hostVars, taskVars, reader, fd, mgr, mgrFd, orphaned>>
  BY DEF Writer, WriterStarts, WriterSends, WriterFails, WriterQuits, mgrVars, bus
<1>b. inPipe' \in FitsPipe
  BY PacketAdded DEF Writer, WriterStarts, WriterSends, WriterFails, WriterQuits, WritePacket, bus, Data
<1>c. mgrQ' \in Seq({"RequestQuit", "Error"})
  BY EventsOfMgr DEF Writer, WriterStarts, WriterSends, WriterFails, WriterQuits, WritesOn,
                     ReportsError, mgrVars, Data
<1>d. /\ app' \in [Sides -> Streams] /\ \A s \in Sides : app'[s].id = app[s].id
      /\ writerHand' \in Packets
      /\ writer' \in {"starting", "sending", "waitQuit", "ended", "panicked"}
      /\ writer' = "panicked" => orphaned
  <2>1. CASE WritesOn
    <3>1. CASE UNCHANGED app
      <4>1. /\ writer' \in {"panicked", "sending", "waitQuit"} /\ (writer' = "panicked" => orphaned)
            /\ writerHand' = <<>> \/ \E count \in Readable("phone") : writerHand' = First("phone", count)
        BY <2>1 DEF WritesOn
      <4>2. writerHand' \in Packets
        BY <4>1, ReadTyped, NoMessages DEF Data, Sides
      <4>. QED
        BY <3>1, <4>1, <4>2 DEF Data
    <3>2. CASE \E count \in Readable("phone") :
                 /\ writer' = "sending" /\ writerHand' = First("phone", count)
                 /\ app' = [app EXCEPT !["phone"].out = Rest("phone", count)]
      <4>1. PICK count \in Readable("phone") :
                 /\ writer' = "sending" /\ writerHand' = First("phone", count)
                 /\ app' = [app EXCEPT !["phone"].out = Rest("phone", count)]
        BY <3>2
      <4>2. First("phone", count) \in Packets /\ Rest("phone", count) \in Messages
        BY ReadTyped DEF Data, Sides
      <4>. HIDE DEF First, Rest
      <4>3. app' \in [Sides -> Streams] /\ \A s \in Sides : app'[s].id = app[s].id
        BY <4>1, <4>2 DEF Data, Streams
      <4>. QED
        BY <4>1, <4>2, <4>3
    <3>. QED
      BY <2>1, <3>1, <3>2 DEF WritesOn
  <2>2. CASE UNCHANGED app /\ writer' = "ended" /\ writerHand' \in {<<>>, writerHand}
    BY <2>2, NoMessages DEF Data
  <2>3. CASE UNCHANGED app /\ writer' = Given /\ writerHand' = <<>>
    BY <2>3, NoMessages DEF Data, Given
  <2>. QED
    BY <2>1, <2>2, <2>3 DEF Writer, WriterStarts, WriterSends, WriterFails, WriterQuits
<1>1. Data'
  BY <1>a, <1>b, <1>c, <1>d DEF Data, hostVars, taskVars
<1>2. /\ readerRunning' = readerRunning /\ writerRunning' = writerRunning
      /\ readerQuit' \in BOOLEAN /\ writerQuit' \in BOOLEAN /\ quitLost' \in BOOLEAN
  BY DEF Writer, WriterStarts, WriterSends, WriterFails, WriterQuits, Control, flags
<1>3. Control'
  BY <1>a, <1>d, <1>2 DEF Control, hostVars, taskVars
<1>4. StreamsCounted' /\ Calm'
  BY <1>a, <1>d, <1>2 DEF StreamsCounted, StreamsToCome, Calm, Sides, taskVars
<1>. QED
  BY <1>1, <1>3, <1>4

LEMMA UsbStep == Sound /\ [Next]_vars => Sound'
<1>. SUFFICES ASSUME Sound, [Next]_vars PROVE Sound'
  OBVIOUS
<1>1. CASE Next
  BY <1>1, SurroundingsStep, HostStep, TaskStep, MgrStep, ReaderStep, WriterStep DEF Next
<1>2. CASE UNCHANGED vars
  BY <1>2 DEF Sound, Data, Control, StreamsCounted, StreamsToCome, Calm, vars, bus, hostVars,
              phoneVars, taskVars, mgrVars, writerVars, flags
<1>. QED
  BY <1>1, <1>2

LEMMA AlwaysSound == Spec => []Sound
<1>1. Init => Sound
  BY UsbStart
<1>2. Sound /\ [Next]_vars => Sound'
  BY UsbStep
<1>. QED
  BY <1>1, <1>2, PTL DEF Spec

(* The variables keep their types and the cable holds no more packets than *)
(* it can, for every size of packet and cable and any number of sessions.  *)
THEOREM LinkTypeCorrect == Spec => []TypeOK
<1>1. Sound => TypeOK
  BY TypeParts DEF Sound
<1>. QED
  BY <1>1, AlwaysSound, PTL

(* AccessoryConnections start, fail, are joined and are replaced without a *)
(* panic of the task or of a thread as long as no RequestQuit came while   *)
(* the reader and the writer ran: the RUNNING flags (read.rs, write.rs)    *)
(* are set only while the thread that is to join them is there.            *)
THEOREM ErrorsNeverPanic == Spec => []PanicsOnlyAfterQuit
<1>1. Sound => PanicsOnlyAfterQuit
  BY DEF Sound, Calm, PanicsOnlyAfterQuit
<1>. QED
  BY <1>1, AlwaysSound, PTL-----------------------------------------------------------------------------
(* The messages after the first a up to the b-th of stream id.             *)
Run(id, a, b) == [n \in 1 .. b - a |-> <<id, a + n>>]

(* The packets of a pipe are that run of the stream, cut at some places.   *)
CutAt(pipe, id, at) ==
    /\ \A i \in 1 .. Len(pipe) : pipe[i] = Run(id, at[i], at[i + 1])
    /\ \A i, j \in 1 .. Len(pipe) + 1 : i <= j => at[i] <= at[j]
Carries(pipe, id, a, b) ==
    \E at \in [1 .. Len(pipe) + 1 -> Nat] :
        CutAt(pipe, id, at) /\ at[1] = a /\ at[Len(pipe) + 1] = b

(* What is in the hand of a thread is the next run of the stream it sends, *)
(* and what the app has not yet sent is the rest.                          *)
Sending(stream, all, hand, b) ==
    \E c \in Nat :
        /\ b <= c /\ hand = Run(stream.id, b, c)
        /\ stream.open => c <= all /\ stream.out = Run(stream.id, c, all)

(* How often the phone is still to use the descriptor of an attachment: of *)
(* every one it opens a stream at most once.                               *)
ToUse(at) ==
    (IF mgr = "starting" /\ mgrFd = at THEN 1 ELSE 0) + (IF next = at THEN 1 ELSE 0)
        + NumberOf(usbQ, {at})
UsedOnce ==
    \A at \in Attachments :
        ToUse(at) + (IF fd = at THEN 1 ELSE 0) <= (IF at <= attached THEN 1 ELSE 0)

(* The ends of the cable: who has nothing at hand, and who is not there.   *)
Ends ==
    /\ device = "accessory" => attached >= 1
    /\ device = "away" => outPipe = <<>> /\ inPipe = <<>>
    /\ hostAt <= attached /\ (host = "poll" => hostAt = 0)
    /\ host # "sending" => hostHand = <<>>
    /\ writer # "sending" => writerHand = <<>>
    /\ ~writerRunning => writer = "ended"

(* From the computer to the phone: what was received, what is on the cable,*)
(* what is in the hand of the thread and what is not yet sent are one      *)
(* stream.  Before the computer connects nothing is there, and before the  *)
(* phone uses its descriptor nothing was taken.                            *)
ToPhone ==
    \E a, b \in Nat :
        /\ Carries(outPipe, app["host"].id, a, b)
        /\ IF Alive(hostAt) THEN Sending(app["host"], HostJson, hostHand, b) ELSE b = 0
        /\ Alive(fd) /\ reader \in {"starting", "reading"} =>
              app["phone"].got = Run(app["host"].id, 0, a)
        /\ ToUse(attached) = 0 \/ a = 0

(* From the phone to the computer, likewise; the stream that was there     *)
(* before the descriptor was given up may still be on the cable.           *)
ToComputer ==
    \E id, a, b \in Nat :
        /\ Carries(inPipe, id, a, b)
        /\ IF Alive(hostAt) THEN app["host"].got = Run(id, 0, a) ELSE a = 0
        /\ Alive(fd) => id = app["phone"].id /\ Sending(app["phone"], PhoneJson, writerHand, b)
        /\ ToUse(attached) = 0 \/ b = 0

Received ==
    \A side \in Sides : \E id, n \in Nat : app[side].got = Run(id, 0, n)

Flow == ToPhone /\ ToComputer
Flowing == Ends /\ UsedOnce /\ (resetFailed \/ (Flow /\ Received))
-----------------------------------------------------------------------------
(* Runs: joined, cut, empty, and in order from the first message on.       *)
LEMMA RunIs ==
  ASSUME NEW id, NEW a \in Nat, NEW b \in Nat, a <= b
  PROVE  /\ Run(id, a, b) \in Seq({id} \X Nat) /\ Len(Run(id, a, b)) = b - a
         /\ \A n \in 1 .. b - a : Run(id, a, b)[n] = <<id, a + n>>
<1>1. Run(id, a, b) \in [1 .. b - a -> {id} \X Nat] /\ b - a \in Nat
  BY DEF Run
<1>2. \A n \in 1 .. b - a : Run(id, a, b)[n] = <<id, a + n>>
  BY DEF Run
<1>. QED
  BY <1>1, <1>2, SequenceOf

LEMMA RunEmpty ==
  ASSUME NEW id, NEW a \in Nat, NEW b \in Nat, a <= b
  PROVE  Run(id, a, b) = <<>> <=> a = b
<1>1. Run(id, a, b) \in Seq({id} \X Nat) /\ Len(Run(id, a, b)) = b - a
  BY RunIs
<1>. QED
  BY <1>1, EmptySeq

LEMMA RunJoin ==
  ASSUME NEW id, NEW a \in Nat, NEW b \in Nat, NEW c \in Nat, a <= b, b <= c
  PROVE  Run(id, a, b) \o Run(id, b, c) = Run(id, a, c)
<1>. DEFINE p == Run(id, a, b)
            q == Run(id, b, c)
            r == Run(id, a, c)
<1>1. /\ p \in Seq({id} \X Nat) /\ Len(p) = b - a /\ \A n \in 1 .. b - a : p[n] = <<id, a + n>>
      /\ q \in Seq({id} \X Nat) /\ Len(q) = c - b /\ \A n \in 1 .. c - b : q[n] = <<id, b + n>>
      /\ r \in Seq({id} \X Nat) /\ Len(r) = c - a /\ \A n \in 1 .. c - a : r[n] = <<id, a + n>>
  <2>1. a <= c
    OBVIOUS
  <2>. QED
    BY <2>1, RunIs
<1>. HIDE DEF p, q, r
<1>2. /\ p \o q \in Seq({id} \X Nat) /\ Len(p \o q) = Len(p) + Len(q)
      /\ \A n \in 1 .. Len(p) + Len(q) : (p \o q)[n] = IF n <= Len(p) THEN p[n] ELSE q[n - Len(p)]
  BY <1>1, ConcatProperties
<1>3. Len(p \o q) = Len(r) /\ Len(p) + Len(q) = c - a
  BY <1>1, <1>2
<1>4. ASSUME NEW n \in 1 .. Len(r) PROVE (p \o q)[n] = r[n]
  <2>1. n \in 1 .. c - a /\ n \in 1 .. Len(p) + Len(q)
    BY <1>1, <1>3
  <2>2. CASE n <= b - a
    <3>1. n \in 1 .. b - a
      BY <2>1, <2>2
    <3>. QED
      BY <1>1, <1>2, <2>1, <2>2, <3>1
  <2>3. CASE ~(n <= b - a)
    <3>1. n - (b - a) \in 1 .. c - b /\ b + (n - (b - a)) = a + n
      BY <2>1, <2>3
    <3>. QED
      BY <1>1, <1>2, <2>1, <2>3, <3>1
  <2>. QED
    BY <2>2, <2>3
<1>5. p \o q = r
  BY <1>1, <1>2, <1>3, <1>4, SeqEqual
<1>. QED
  BY <1>5 DEF p, q, r

LEMMA RunCut ==
  ASSUME NEW id, NEW a \in Nat, NEW b \in Nat, a <= b, NEW count \in 0 .. b - a
  PROVE  /\ SubSeq(Run(id, a, b), 1, count) = Run(id, a, a + count)
         /\ SubSeq(Run(id, a, b), count + 1, b - a) = Run(id, a + count, b)
<1>. DEFINE r == Run(id, a, b)
            p == Run(id, a, a + count)
            q == Run(id, a + count, b)
            s == SubSeq(r, 1, count)
            u == SubSeq(r, count + 1, b - a)
<1>0. a + count \in Nat /\ a <= a + count /\ a + count <= b /\ count \in Nat /\ b - a \in Nat
  OBVIOUS
<1>1. r \in Seq({id} \X Nat) /\ Len(r) = b - a /\ \A n \in 1 .. b - a : r[n] = <<id, a + n>>
  BY RunIs
<1>2. /\ p \in Seq({id} \X Nat) /\ Len(p) = (a + count) - a
      /\ \A n \in 1 .. (a + count) - a : p[n] = <<id, a + n>>
  BY <1>0, RunIs
<1>3. /\ q \in Seq({id} \X Nat) /\ Len(q) = b - (a + count)
      /\ \A n \in 1 .. b - (a + count) : q[n] = <<id, (a + count) + n>>
  BY <1>0, RunIs
<1>. HIDE DEF r, p, q
<1>4. /\ s \in Seq({id} \X Nat)
      /\ Len(s) = IF 1 <= count THEN count - 1 + 1 ELSE 0
      /\ \A i \in 1 .. count - 1 + 1 : s[i] = r[1 + i - 1]
  BY <1>0, <1>1, SubSeqProperties
<1>5. /\ u \in Seq({id} \X Nat)
      /\ Len(u) = IF count + 1 <= b - a THEN b - a - (count + 1) + 1 ELSE 0
      /\ \A i \in 1 .. b - a - (count + 1) + 1 : u[i] = r[count + 1 + i - 1]
  BY <1>0, <1>1, SubSeqProperties
<1>. HIDE DEF s, u
<1>6. s = p
  <2>1. Len(s) = count /\ Len(p) = count
    BY <1>0, <1>2, <1>4
  <2>2. ASSUME NEW n \in 1 .. count PROVE s[n] = p[n]
    <3>1. /\ n \in 1 .. count - 1 + 1 /\ 1 + n - 1 = n /\ n \in 1 .. b - a
          /\ n \in 1 .. (a + count) - a
      BY <1>0
    <3>. QED
      BY <1>1, <1>2, <1>4, <3>1
  <2>. QED
    BY <1>2, <1>4, <2>1, <2>2, SeqEqual
<1>7. u = q
  <2>1. Len(u) = Len(q)
    BY <1>0, <1>3, <1>5
  <2>2. ASSUME NEW n \in 1 .. Len(q) PROVE u[n] = q[n]
    <3>1. /\ n \in 1 .. b - (a + count) /\ n \in 1 .. b - a - (count + 1) + 1
          /\ count + 1 + n - 1 \in 1 .. b - a
          /\ a + (count + 1 + n - 1) = (a + count) + n
      BY <1>0, <1>3
    <3>. QED
      BY <1>1, <1>3, <1>5, <3>1
  <2>. QED
    BY <1>3, <1>5, <2>1, <2>2, SeqEqual
<1>. QED
  BY <1>6, <1>7 DEF r, p, q, s, u

LEMMA RunInOrder ==
  ASSUME NEW id, NEW n \in Nat
  PROVE  InOrder(Run(id, 0, n))
<1>. DEFINE r == Run(id, 0, n)
<1>1. Len(r) = n /\ \A i \in 1 .. n : r[i] = <<id, i>>
  <2>1. 0 \in Nat /\ 0 <= n /\ n - 0 = n
    OBVIOUS
  <2>2. Len(r) = n - 0 /\ \A i \in 1 .. n - 0 : r[i] = <<id, 0 + i>>
    BY <2>1, RunIs
  <2>. QED
    BY <2>1, <2>2
<1>. HIDE DEF r
<1>2. InOrder(r)
  BY <1>1 DEF InOrder
<1>. QED
  BY <1>2 DEF r

(* Pipes: empty, with one more packet, one fewer, and with none of a       *)
(* stream yet.                                                             *)
LEMMA CarriesNone ==
  ASSUME NEW id, NEW a \in Nat
  PROVE  Carries(<<>>, id, a, a)
<1>. DEFINE at == [i \in 1 .. Len(<<>>) + 1 |-> a]
<1>1. Len(<<>>) = 0
  BY EmptySeq
<1>2. at \in [1 .. Len(<<>>) + 1 -> Nat] /\ at[1] = a /\ at[Len(<<>>) + 1] = a
  BY <1>1
<1>3. CutAt(<<>>, id, at)
  BY <1>1 DEF CutAt
<1>. QED
  BY <1>2, <1>3 DEF Carries

LEMMA CarriesBounds ==
  ASSUME NEW T, NEW pipe \in Seq(T), NEW id, NEW a, NEW b, Carries(pipe, id, a, b)
  PROVE  a \in Nat /\ b \in Nat /\ a <= b
<1>1. PICK at \in [1 .. Len(pipe) + 1 -> Nat] :
        CutAt(pipe, id, at) /\ at[1] = a /\ at[Len(pipe) + 1] = b
  BY DEF Carries
<1>2. 1 \in 1 .. Len(pipe) + 1 /\ Len(pipe) + 1 \in 1 .. Len(pipe) + 1 /\ 1 <= Len(pipe) + 1
  BY LenProperties
<1>. QED
  BY <1>1, <1>2 DEF CutAt

LEMMA CarriesMore ==
  ASSUME NEW T, NEW pipe \in Seq(T), NEW id, NEW a, NEW b, Carries(pipe, id, a, b),
         NEW c \in Nat, b <= c, Run(id, b, c) \in T
  PROVE  Carries(Append(pipe, Run(id, b, c)), id, a, c)
<1>. DEFINE k == Len(pipe)
            p == Append(pipe, Run(id, b, c))
<1>1. PICK at \in [1 .. k + 1 -> Nat] : CutAt(pipe, id, at) /\ at[1] = a /\ at[k + 1] = b
  BY DEF Carries
<1>2. k \in Nat /\ Len(p) = k + 1 /\ p[k + 1] = Run(id, b, c) /\ \A i \in 1 .. k : p[i] = pipe[i]
  BY AppendProperties, LenProperties
<1>. DEFINE to == [i \in 1 .. k + 2 |-> IF i <= k + 1 THEN at[i] ELSE c]
<1>3. /\ to \in [1 .. k + 2 -> Nat] /\ to[1] = a /\ to[k + 2] = c
      /\ \A i \in 1 .. k + 1 : to[i] = at[i]
  BY <1>1, <1>2
<1>. HIDE DEF k, p, to
<1>4. ASSUME NEW i \in 1 .. k + 1 PROVE p[i] = Run(id, to[i], to[i + 1])
  <2>1. CASE i = k + 1
    <3>1. i + 1 = k + 2 /\ k + 1 \in 1 .. k + 1
      BY <1>2, <2>1
    <3>2. to[i] = b /\ to[i + 1] = c
      BY <1>1, <1>3, <2>1, <3>1
    <3>. QED
      BY <1>2, <2>1, <3>2
  <2>2. CASE i # k + 1
    <3>1. i \in 1 .. k /\ i \in 1 .. k + 1 /\ i + 1 \in 1 .. k + 1
      BY <1>2, <2>2
    <3>2. pipe[i] = Run(id, at[i], at[i + 1])
      BY <1>1, <3>1 DEF CutAt, k
    <3>. QED
      BY <1>2, <1>3, <3>1, <3>2
  <2>. QED
    BY <2>1, <2>2
<1>5. ASSUME NEW i \in 1 .. k + 2, NEW j \in 1 .. k + 2, i <= j PROVE to[i] <= to[j]
  <2>0. \A m, n \in 1 .. k + 1 : m <= n => at[m] <= at[n]
    BY <1>1 DEF CutAt, k
  <2>1. CASE j <= k + 1
    <3>1. i \in 1 .. k + 1 /\ j \in 1 .. k + 1
      BY <1>2, <1>5, <2>1
    <3>. QED
      BY <1>3, <1>5, <2>0, <3>1
  <2>2. CASE j > k + 1 /\ i <= k + 1
    <3>1. i \in 1 .. k + 1 /\ k + 1 \in 1 .. k + 1 /\ j = k + 2 /\ i <= k + 1
      BY <1>2, <2>2
    <3>2. to[i] = at[i] /\ at[i] <= b /\ to[j] = c /\ at[i] \in Nat /\ b \in Nat
      BY <1>1, <1>3, <2>0, <3>1
    <3>. QED
      BY <3>2
  <2>3. CASE j > k + 1 /\ ~(i <= k + 1)
    BY <1>2, <1>3, <2>3
  <2>. QED
    BY <1>2, <2>1, <2>2, <2>3
<1>6. Carries(p, id, a, c)
  <2>1. Len(p) + 1 = k + 2
    BY <1>2
  <2>2. CutAt(p, id, to)
    BY <1>2, <1>4, <1>5, <2>1 DEF CutAt
  <2>. QED
    BY <1>3, <2>1, <2>2 DEF Carries
<1>. QED
  BY <1>6 DEF p

LEMMA CarriesFewer ==
  ASSUME NEW T, NEW pipe \in Seq(T), pipe # <<>>, NEW id, NEW a, NEW b, Carries(pipe, id, a, b)
  PROVE  \E c \in Nat : a <= c /\ Head(pipe) = Run(id, a, c) /\ Carries(Tail(pipe), id, c, b)
<1>. DEFINE k == Len(pipe)
            t == Tail(pipe)
<1>1. PICK at \in [1 .. k + 1 -> Nat] : CutAt(pipe, id, at) /\ at[1] = a /\ at[k + 1] = b
  BY DEF Carries
<1>2. /\ k \in Nat /\ k >= 1 /\ Len(t) = k - 1 /\ Head(pipe) = pipe[1]
      /\ \A i \in 1 .. k - 1 : t[i] = pipe[i + 1]
  <2>1. k \in Nat /\ k # 0
    BY LenProperties, EmptySeq
  <2>2. Len(t) = k - 1 /\ Head(pipe) = pipe[1] /\ \A i \in 1 .. Len(t) : t[i] = pipe[i + 1]
    BY HeadTailProperties
  <2>. QED
    BY <2>1, <2>2
<1>. DEFINE to == [i \in 1 .. k |-> at[i + 1]]
<1>3. to \in [1 .. k -> Nat] /\ \A i \in 1 .. k : to[i] = at[i + 1]
  <2>1. \A i \in 1 .. k : i + 1 \in 1 .. k + 1
    BY <1>2
  <2>. QED
    BY <2>1
<1>4. /\ \A i \in 1 .. k : pipe[i] = Run(id, at[i], at[i + 1])
      /\ \A i, j \in 1 .. k + 1 : i <= j => at[i] <= at[j]
  BY <1>1 DEF CutAt
<1>. HIDE DEF k, t, to
<1>5. ASSUME NEW i \in 1 .. k - 1 PROVE t[i] = Run(id, to[i], to[i + 1])
  <2>1. i \in 1 .. k /\ i + 1 \in 1 .. k
    BY <1>2
  <2>. QED
    BY <1>2, <1>3, <1>4, <2>1
<1>6. ASSUME NEW i \in 1 .. k, NEW j \in 1 .. k, i <= j PROVE to[i] <= to[j]
  <2>1. i + 1 \in 1 .. k + 1 /\ j + 1 \in 1 .. k + 1 /\ i + 1 <= j + 1
    BY <1>2, <1>6
  <2>. QED
    BY <1>3, <1>4, <2>1
<1>7. /\ 1 \in 1 .. k /\ k \in 1 .. k /\ 1 \in 1 .. k + 1 /\ 2 \in 1 .. k + 1 /\ 1 <= 2
      /\ 1 + 1 = 2 /\ Len(t) + 1 = k
  BY <1>2
<1>8. /\ to[1] \in Nat /\ a <= to[1] /\ Head(pipe) = Run(id, a, to[1]) /\ to[k] = b
  BY <1>1, <1>2, <1>3, <1>4, <1>7
<1>9. Carries(t, id, to[1], b)
  <2>1. CutAt(t, id, to)
    BY <1>2, <1>5, <1>6, <1>7 DEF CutAt
  <2>. QED
    BY <1>3, <1>7, <1>8, <2>1 DEF Carries
<1>. QED
  BY <1>8, <1>9 DEF t

LEMMA CarriesNoneYet ==
  ASSUME NEW T, NEW pipe \in Seq(T), NEW id, NEW a, Carries(pipe, id, a, 0), NEW other
  PROVE  a = 0 /\ Carries(pipe, other, 0, 0)
<1>1. PICK at \in [1 .. Len(pipe) + 1 -> Nat] :
        CutAt(pipe, id, at) /\ at[1] = a /\ at[Len(pipe) + 1] = 0
  BY DEF Carries
<1>2. Len(pipe) \in Nat /\ 1 \in 1 .. Len(pipe) + 1
  BY LenProperties
<1>3. \A i \in 1 .. Len(pipe) + 1 : at[i] = 0
  <2>. SUFFICES ASSUME NEW i \in 1 .. Len(pipe) + 1 PROVE at[i] = 0
    OBVIOUS
  <2>1. i <= Len(pipe) + 1 /\ Len(pipe) + 1 \in 1 .. Len(pipe) + 1
    BY <1>2
  <2>2. at[i] <= 0 /\ at[i] \in Nat
    BY <1>1, <2>1 DEF CutAt
  <2>. QED
    BY <2>2
<1>4. Run(id, 0, 0) = <<>> /\ Run(other, 0, 0) = <<>>
  BY RunEmpty
<1>5. CutAt(pipe, other, at)
  <2>1. ASSUME NEW i \in 1 .. Len(pipe) PROVE pipe[i] = Run(other, at[i], at[i + 1])
    <3>1. i \in 1 .. Len(pipe) + 1 /\ i + 1 \in 1 .. Len(pipe) + 1
      BY <1>2
    <3>2. pipe[i] = Run(id, at[i], at[i + 1])
      BY <1>1 DEF CutAt
    <3>. QED
      BY <1>3, <1>4, <3>1, <3>2
  <2>. QED
    BY <1>1, <2>1 DEF CutAt
<1>6. at[1] = 0 /\ at[Len(pipe) + 1] = 0 /\ a = 0
  BY <1>1, <1>2, <1>3
<1>. QED
  BY <1>1, <1>5, <1>6 DEF Carries-----------------------------------------------------------------------------
(* A thread that sends: before it has read anything, with the packet of    *)
(* its hand on the cable, and with the next one read from the stream.      *)
LEMMA SendingNew ==
  ASSUME NEW stream, NEW all \in Nat, stream.open, stream.out = Run(stream.id, 0, all)
  PROVE  Sending(stream, all, <<>>, 0)
<1>1. Run(stream.id, 0, 0) = <<>>
  BY RunEmpty
<1>. QED
  BY <1>1 DEF Sending

LEMMA SendingSent ==
  ASSUME NEW stream, NEW all \in Nat, NEW hand, NEW b \in Nat, Sending(stream, all, hand, b)
  PROVE  /\ \E c \in Nat : b <= c /\ hand = Run(stream.id, b, c) /\ Sending(stream, all, <<>>, c)
         /\ hand = <<>> => Run(stream.id, b, b) = hand
<1>1. PICK c \in Nat : /\ b <= c /\ hand = Run(stream.id, b, c)
                       /\ stream.open => c <= all /\ stream.out = Run(stream.id, c, all)
  BY DEF Sending
<1>2. Run(stream.id, c, c) = <<>> /\ Run(stream.id, b, b) = <<>>
  BY RunEmpty
<1>3. Sending(stream, all, <<>>, c)
  BY <1>1, <1>2 DEF Sending
<1>. QED
  BY <1>1, <1>2, <1>3

LEMMA SendingRead ==
  ASSUME NEW stream, NEW all \in Nat, NEW b \in Nat, Sending(stream, all, <<>>, b), stream.open,
         NEW count \in Nat, count <= Len(stream.out),
         NEW new, new.id = stream.id, new.open = stream.open,
         new.out = SubSeq(stream.out, count + 1, Len(stream.out))
  PROVE  Sending(new, all, SubSeq(stream.out, 1, count), b)
<1>1. PICK c \in Nat : /\ b <= c /\ <<>> = Run(stream.id, b, c)
                       /\ c <= all /\ stream.out = Run(stream.id, c, all)
  BY DEF Sending
<1>2. c = b /\ b <= all /\ stream.out = Run(stream.id, b, all)
  BY <1>1, RunEmpty
<1>3. Len(stream.out) = all - b /\ count \in 0 .. all - b
  <2>1. Len(Run(stream.id, b, all)) = all - b
    BY <1>2, RunIs
  <2>. QED
    BY <1>2, <2>1
<1>4. /\ SubSeq(stream.out, 1, count) = Run(stream.id, b, b + count)
      /\ SubSeq(stream.out, count + 1, all - b) = Run(stream.id, b + count, all)
  <2>. DEFINE id == stream.id
  <2>. HIDE DEF id
  <2>1. /\ SubSeq(Run(id, b, all), 1, count) = Run(id, b, b + count)
        /\ SubSeq(Run(id, b, all), count + 1, all - b) = Run(id, b + count, all)
    BY <1>2, <1>3, RunCut
  <2>. QED
    BY <1>2, <2>1 DEF id
<1>5. b + count \in Nat /\ b <= b + count /\ b + count <= all
  BY <1>1, <1>2, <1>3
<1>. QED
  BY <1>3, <1>4, <1>5 DEF Sending

LEMMA SendingLess ==
  ASSUME NEW stream, NEW all, NEW hand, NEW b, Sending(stream, all, hand, b),
         NEW new, new.id = stream.id, new.open => stream.open /\ new.out = stream.out
  PROVE  Sending(new, all, hand, b)
BY DEF Sending

(* A descriptor that is in use is not used again.                          *)
LEMMA InUse ==
  ASSUME Sound, Ends, UsedOnce, Alive(fd)
  PROVE  ToUse(attached) = 0
<1>1. attached \in Attachments /\ fd = attached
  BY Sizes DEF Sound, Control, Ends, Alive, Attachments
<1>2. NumberOf(usbQ, {attached}) \in Nat
  BY PositionsFinite DEF Sound, Data
<1>3. ToUse(attached) \in Nat
  BY <1>2 DEF ToUse
<1>4. ToUse(attached) + 1 <= 1
  <2>1. attached <= attached
    BY <1>1, Sizes DEF Attachments
  <2>2. ToUse(attached) + (IF fd = attached THEN 1 ELSE 0) <= (IF attached <= attached THEN 1 ELSE 0)
    BY <1>1 DEF UsedOnce
  <2>. QED
    BY <1>1, <2>1, <2>2
<1>. QED
  BY <1>3, <1>4

(* What leaves the cable, its senders and its receivers alone.             *)
LEMMA ToPhoneKept ==
  ASSUME ToPhone, UNCHANGED <<device, attached, outPipe>>,
         Alive(hostAt)' <=> Alive(hostAt),
         app'["host"].id = app["host"].id,
         Alive(hostAt) =>
             /\ hostHand' = hostHand
             /\ app'["host"].open => app["host"].open /\ app'["host"].out = app["host"].out,
         Alive(fd)' /\ reader' \in {"starting", "reading"} =>
             /\ Alive(fd) /\ reader \in {"starting", "reading"}
             /\ app'["phone"].got = app["phone"].got,
         ToUse(attached) = 0 => ToUse(attached)' = 0
  PROVE  ToPhone'
<1>1. PICK a \in Nat, b \in Nat :
        /\ Carries(outPipe, app["host"].id, a, b)
        /\ IF Alive(hostAt) THEN Sending(app["host"], HostJson, hostHand, b) ELSE b = 0
        /\ Alive(fd) /\ reader \in {"starting", "reading"} =>
              app["phone"].got = Run(app["host"].id, 0, a)
        /\ ToUse(attached) = 0 \/ a = 0
  BY DEF ToPhone
<1>2. Carries(outPipe', app'["host"].id, a, b)
  BY <1>1
<1>3. IF Alive(hostAt)' THEN Sending(app'["host"], HostJson, hostHand', b) ELSE b = 0
  BY <1>1, SendingLess
<1>4. Alive(fd)' /\ reader' \in {"starting", "reading"} =>
         app'["phone"].got = Run(app'["host"].id, 0, a)
  BY <1>1
<1>5. ToUse(attached)' = 0 \/ a = 0
  BY <1>1
<1>. QED
  BY <1>2, <1>3, <1>4, <1>5 DEF ToPhone

LEMMA ToComputerKept ==
  ASSUME ToComputer, UNCHANGED <<device, attached, inPipe>>,
         Alive(hostAt)' <=> Alive(hostAt),
         Alive(hostAt) => app'["host"].got = app["host"].got,
         Alive(fd)' =>
             /\ Alive(fd) /\ writerHand' = writerHand /\ app'["phone"].id = app["phone"].id
             /\ app'["phone"].open => app["phone"].open /\ app'["phone"].out = app["phone"].out,
         ToUse(attached) = 0 => ToUse(attached)' = 0
  PROVE  ToComputer'
<1>1. PICK id \in Nat, a \in Nat, b \in Nat :
        /\ Carries(inPipe, id, a, b)
        /\ IF Alive(hostAt) THEN app["host"].got = Run(id, 0, a) ELSE a = 0
        /\ Alive(fd) => id = app["phone"].id
                        /\ Sending(app["phone"], PhoneJson, writerHand, b)
        /\ ToUse(attached) = 0 \/ b = 0
  BY DEF ToComputer
<1>2. Carries(inPipe', id, a, b)
  BY <1>1
<1>3. IF Alive(hostAt)' THEN app'["host"].got = Run(id, 0, a) ELSE a = 0
  BY <1>1
<1>4. Alive(fd)' => id = app'["phone"].id /\ Sending(app'["phone"], PhoneJson, writerHand', b)
  BY <1>1, SendingLess
<1>5. ToUse(attached)' = 0 \/ b = 0
  BY <1>1
<1>. QED
  BY <1>2, <1>3, <1>4, <1>5 DEF ToComputer

(* An attachment nobody has used yet.                                      *)
LEMMA NobodyThere ==
  ASSUME outPipe' = <<>>, inPipe' = <<>>, ~Alive(hostAt)', ~Alive(fd)'
  PROVE  ToPhone' /\ ToComputer'
<1>1. \A id : Carries(<<>>, id, 0, 0)
  BY CarriesNone
<1>. QED
  BY <1>1 DEF ToPhone, ToComputer-----------------------------------------------------------------------------
LEMMA EndsStep == Sound /\ Ends /\ Next => Ends'
<1>. SUFFICES ASSUME Sound, Ends, Next PROVE Ends'
  OBVIOUS
<1>a. attached \in Nat /\ hostAt \in Nat /\ device \in {"away", "accessory"}
  BY Sizes DEF Sound, Control
<1>1. CASE Surroundings
  BY <1>1 DEF Ends, Surroundings, Unplug, AppCloses, Detaches, bus, hostVars, phoneVars, writerVars,
              flags
<1>2. CASE HostConnects
  BY <1>2, <1>a DEF Ends, HostConnects, ClaimsAccessory, bus, phoneVars, writerVars, flags
<1>3. CASE HostStartsAccessory
  BY <1>3, <1>a DEF Ends, HostStartsAccessory, StartsInAccessoryMode, hostVars, writerVars, flags
<1>4. CASE HostSendsAudio
  BY <1>4, <1>a DEF Ends, HostSendsAudio, SendsPacket, Alive, hostVars, phoneVars, writerVars, flags
<1>5. CASE HostPolls
  <2>1. /\ host = "connected" /\ host' \in {"connected", "sending"} /\ hostAt' = hostAt
        /\ device = "accessory"
        /\ UNCHANGED <<device, attached, outPipe, phoneVars>>
    BY <1>5 DEF HostPolls, ReceivesPacket, Alive
  <2>2. host' # "sending" => hostHand' = <<>>
    <3>1. PICK count \in Readable("host") :
            /\ hostHand' = First("host", count)
            /\ host' = IF count = 0 THEN "connected" ELSE "sending"
      BY <1>5 DEF HostPolls
    <3>2. app["host"].out \in Seq(Message)
      BY DEF Sound, Data, Streams, Sides, Messages, Message
    <3>3. Len(SubSeq(app["host"].out, 1, 0)) = 0 /\ SubSeq(app["host"].out, 1, 0) \in Seq(Message)
      <4>1. Len(app["host"].out) \in Nat
        BY <3>2, LenProperties
      <4>2. 1 \in 1 .. Len(app["host"].out) + 1 /\ 0 \in 0 .. Len(app["host"].out)
        BY <4>1
      <4>. QED
        BY <3>2, <4>1, <4>2, SubSeqProperties
    <3>4. First("host", 0) = <<>>
      BY <3>3, EmptySeq DEF First
    <3>. QED
      BY <3>1, <3>4
  <2>. QED
    BY <2>1, <2>2 DEF Ends, phoneVars, writerVars, flags
<1>6. CASE HostSends
  BY <1>6, <1>a DEF Ends, HostSends, SendsPacket, Alive, phoneVars, writerVars, flags
<1>7. CASE \E unread \in {inPipe, Tail(inPipe)} :
             /\ LetsGo(unread) /\ host' = "poll"
             /\ unread = inPipe \/ (Alive(hostAt) /\ inPipe # <<>>)
  <2>1. /\ hostAt' = 0 /\ host' = "poll" /\ hostHand' = <<>> /\ attached' = attached
        /\ UNCHANGED phoneVars
    BY <1>7 DEF LetsGo
  <2>2. \/ device' = "away" /\ outPipe' = <<>> /\ inPipe' = <<>>
        \/ device' = device /\ (device = "away" => outPipe' = outPipe /\ inPipe' = inPipe)
    BY <1>7 DEF LetsGo, Detaches, Alive
  <2>. QED
    BY <2>1, <2>2, <1>a DEF Ends, phoneVars, writerVars, flags
<1>8. CASE Task
  <2>1. UNCHANGED <<writerVars, flags, bus, hostVars>>
    BY <1>8 DEF Task, TaskReceivesFd, TaskReceivesQuitThread, TaskQuits, TaskJoins
  <2>. QED
    BY <2>1 DEF Ends, writerVars, flags, bus, hostVars
<1>9. CASE Mgr
  <2>1. /\ UNCHANGED <<bus, hostVars, writerHand>>
        /\ \/ writer' = writer /\ (writerRunning' = writerRunning \/ writer = "ended")
           \/ writer' = "starting" /\ writerRunning' = TRUE /\ ~writerRunning
    BY <1>9 DEF Mgr, MgrStarts, MgrQuits, MgrWaitsQuit, JoinReader, JoinWriter, Drains, writerVars, flags
  <2>. QED
    BY <2>1 DEF Ends, bus, hostVars
<1>10. CASE Reader
  <2>1. /\ UNCHANGED <<device, attached, inPipe, hostVars, writerVars, writerRunning>>
        /\ outPipe' = outPipe \/ device = "accessory"
    BY <1>10 DEF Reader, ReaderStarts, ReaderReads, ReaderFails, ReaderQuits, ReadPacket, Alive,
                 bus, flags
  <2>. QED
    BY <2>1 DEF Ends, hostVars, writerVars
<1>11. CASE Writer
  <2>1. /\ UNCHANGED <<device, attached, outPipe, hostVars, writerRunning>>
        /\ inPipe' = inPipe \/ device = "accessory"
        /\ writer # "ended" /\ (writer' # "sending" => writerHand' = <<>>)
    BY <1>11 DEF Writer, WriterStarts, WriterSends, WriterFails, WriterQuits, WritesOn, WritePacket,
                 Alive, Given, Ends, bus, flags
  <2>. QED
    BY <2>1 DEF Ends, hostVars
<1>12. CASE HostQuits \/ HostFails
  BY <1>7, <1>12 DEF HostQuits, HostFails
<1>. QED
  BY <1>1, <1>2, <1>3, <1>4, <1>5, <1>6, <1>8, <1>9, <1>10, <1>11, <1>12 DEF Next, HostHandlesPoll

(* The descriptors still to be used: no step but a start in accessory mode *)
(* adds one, and a use takes it away.                                      *)
LEMMA UsesLeft ==
  ASSUME Sound, Next, ~HostStartsAccessory, NEW at \in Attachments
  PROVE  /\ ToUse(at) \in Nat /\ ToUse(at)' \in Nat
         /\ ToUse(at)' <= ToUse(at)
         /\ fd' = fd \/ fd' = 0 \/ (mgr = "starting" /\ mgr' # "starting" /\ fd' = mgrFd
                                    /\ (mgrFd = at => ToUse(at)' = ToUse(at) - 1))
<1>. USE DEF Sound
<1>a. at \notin {GoOn, End, QuitThread} /\ GoOn # at /\ End # at
  BY Sizes DEF Attachments, GoOn, End, QuitThread
<1>b. NumberOf(usbQ, {at}) \in Nat /\ usbQ \in Seq(0 .. MaxAttached)
  BY PositionsFinite DEF Data
<1>. DEFINE n == NumberOf(usbQ, {at})
<1>1. usbQ # <<>> => /\ NumberOf(Tail(usbQ), {at}) = IF Head(usbQ) = at THEN n - 1 ELSE n
                     /\ NumberOf(Tail(usbQ), {at}) \in Nat
  <2>. SUFFICES ASSUME usbQ # <<>>
                PROVE  /\ NumberOf(Tail(usbQ), {at}) = IF Head(usbQ) = at THEN n - 1 ELSE n
                       /\ NumberOf(Tail(usbQ), {at}) \in Nat
    OBVIOUS
  <2>1. NumberOf(Tail(usbQ), {at}) = IF Head(usbQ) \in {at} THEN n - 1 ELSE n
    BY <1>b, NumberOfTail
  <2>2. Tail(usbQ) \in Seq(0 .. MaxAttached)
    BY <1>b, Removed
  <2>. QED
    BY <2>1, <2>2, PositionsFinite
<1>2. NumberOf(Append(usbQ, QuitThread), {at}) = n
  <2>1. QuitThread \in 0 .. MaxAttached /\ QuitThread \notin {at}
    BY <1>a, Sizes DEF QuitThread
  <2>2. NumberOf(Append(usbQ, QuitThread), {at})
          = IF QuitThread = at THEN NumberOf(usbQ, {at}) + 1 ELSE NumberOf(usbQ, {at})
    BY <2>1, UsesAdded
  <2>. QED
    BY <2>1, <2>2
<1>. HIDE DEF n
<1>n. n = NumberOf(usbQ, {at}) /\ n \in Nat
  BY <1>b DEF n
<1>3. CASE UNCHANGED <<mgr, mgrFd, next, usbQ, fd>>
  BY <1>3, <1>b DEF ToUse
<1>4. CASE TaskReceivesFd
  <2>1. usbQ # <<>> /\ usbQ' = Tail(usbQ) /\ fd' = fd
    BY <1>4 DEF TaskReceivesFd
  <2>2. NumberOf(usbQ', {at}) = (IF Head(usbQ) = at THEN n - 1 ELSE n) /\ NumberOf(usbQ', {at}) \in Nat
    BY <1>1, <2>1
  <2>3. \/ next' = Head(usbQ) /\ UNCHANGED <<mgr, mgrFd>>
        \/ mgrFd' = Head(usbQ) /\ next' = next
        \/ UNCHANGED <<mgr, mgrFd, next>>
    BY <1>4 DEF TaskReceivesFd, QuitHeld, StartThread
  <2>. QED
    BY <1>n, <2>1, <2>2, <2>3 DEF ToUse
<1>5. CASE TaskReceivesQuitThread
  <2>1. usbQ # <<>> /\ usbQ' = Tail(usbQ) /\ UNCHANGED <<fd, mgr, mgrFd>>
    BY <1>5 DEF TaskReceivesQuitThread
  <2>2. NumberOf(usbQ', {at}) \in Nat /\ NumberOf(usbQ', {at}) <= n
    BY <1>1, <1>n, <2>1
  <2>3. next' = next \/ next' = GoOn
    BY <1>5 DEF TaskReceivesQuitThread, QuitHeld
  <2>. QED
    BY <1>a, <1>n, <2>1, <2>2, <2>3 DEF ToUse
<1>6. CASE TaskQuits
  <2>1. UNCHANGED <<fd, mgr, mgrFd, usbQ>> /\ (next' = next \/ next' = End)
    BY <1>6 DEF TaskQuits, QuitHeld
  <2>. QED
    BY <1>a, <1>n, <2>1 DEF ToUse
<1>7. CASE TaskJoins
  <2>1. /\ UNCHANGED <<fd, usbQ>>
        /\ \/ UNCHANGED <<mgr, mgrFd, next>>
           \/ next' = GoOn /\ mgr = "ended" /\ (mgrFd' = next \/ UNCHANGED <<mgr, mgrFd>>)
    BY <1>7 DEF TaskJoins, StartThread
  <2>. QED
    BY <1>a, <1>n, <2>1 DEF ToUse
<1>8. CASE MgrStarts
  <2>1. /\ UNCHANGED <<usbQ, next>> /\ mgr = "starting" /\ mgr' # "starting"
        /\ fd' = fd \/ fd' = mgrFd
    BY <1>8 DEF MgrStarts, taskVars
  <2>. QED
    BY <1>n, <2>1 DEF ToUse
<1>9. CASE MgrWaitsQuit
  <2>1. /\ UNCHANGED <<fd, next, mgrFd>> /\ mgr = "run" /\ mgr' = "quitReader"
        /\ usbQ' = Append(usbQ, QuitThread)
    BY <1>9 DEF MgrWaitsQuit
  <2>2. NumberOf(usbQ', {at}) = n
    BY <1>2, <2>1
  <2>. QED
    BY <1>n, <2>1, <2>2 DEF ToUse
<1>10. CASE MgrQuits \/ JoinReader \/ JoinWriter \/ Drains
  <2>1. UNCHANGED <<usbQ, next, mgrFd>> /\ mgr # "starting" /\ mgr' # "starting" /\ (fd' = fd \/ fd' = 0)
    BY <1>10 DEF MgrQuits, JoinReader, JoinWriter, Drains, taskVars
  <2>. QED
    BY <1>n, <2>1 DEF ToUse
<1>11. CASE Reader \/ Writer
  BY <1>3, <1>11 DEF Reader, ReaderStarts, ReaderReads, ReaderFails, ReaderQuits, Writer, WriterStarts,
                     WriterSends, WriterFails, WriterQuits, mgrVars, taskVars
<1>12. CASE Surroundings \/ HostConnects \/ HostSendsAudio \/ HostQuits \/ HostHandlesPoll
  BY <1>3, <1>12 DEF Surroundings, Unplug, AppCloses, HostConnects, HostSendsAudio, HostQuits, LetsGo,
                     HostHandlesPoll, HostPolls, HostSends, HostFails, phoneVars, mgrVars, taskVars
<1>. QED
  BY <1>4, <1>5, <1>6, <1>7, <1>8, <1>9, <1>10, <1>11, <1>12 DEF Next, Task, Mgr
LEMMA UsedOnceStep == Sound /\ UsedOnce /\ Next => UsedOnce'
<1>. SUFFICES ASSUME Sound, UsedOnce, Next, NEW at \in Attachments
              PROVE  ToUse(at)' + (IF fd' = at THEN 1 ELSE 0) <= (IF at <= attached' THEN 1 ELSE 0)
  BY DEF UsedOnce
<1>. USE DEF Sound
<1>1. /\ ToUse(at) + (IF fd = at THEN 1 ELSE 0) <= (IF at <= attached THEN 1 ELSE 0)
      /\ attached \in Nat /\ at \in Nat /\ at # 0
  BY Sizes DEF UsedOnce, Control, Attachments
<1>2. CASE HostStartsAccessory
  <2>1. /\ attached' = attached + 1 /\ UNCHANGED <<mgr, mgrFd, next, fd>>
        /\ usbQ' = Append(usbQ, attached + 1) /\ attached + 1 \in 0 .. MaxAttached
    BY <1>1, <1>2, Sizes DEF HostStartsAccessory, StartsInAccessoryMode, mgrVars
  <2>2. usbQ \in Seq(0 .. MaxAttached) /\ NumberOf(usbQ, {at}) \in Nat
    BY PositionsFinite DEF Data
  <2>3. NumberOf(usbQ', {at})
          = IF attached + 1 = at THEN NumberOf(usbQ, {at}) + 1 ELSE NumberOf(usbQ, {at})
    BY <2>1, UsesAdded
  <2>4. ToUse(at)' = IF at = attached + 1 THEN ToUse(at) + 1 ELSE ToUse(at)
    BY <2>1, <2>2, <2>3 DEF ToUse
  <2>5. ToUse(at) \in Nat
    BY <2>2 DEF ToUse
  <2>. QED
    BY <1>1, <2>1, <2>4, <2>5
<1>3. CASE ~HostStartsAccessory
  <2>1. /\ ToUse(at) \in Nat /\ ToUse(at)' \in Nat
        /\ ToUse(at)' <= ToUse(at)
        /\ fd' = fd \/ fd' = 0 \/ (mgr = "starting" /\ mgr' # "starting" /\ fd' = mgrFd
                                   /\ (mgrFd = at => ToUse(at)' = ToUse(at) - 1))
    BY <1>3, UsesLeft
  <2>2. attached' = attached
    BY <1>3 DEF Next, Surroundings, Unplug, AppCloses, HostConnects, HostSendsAudio, HostQuits, LetsGo,
                HostHandlesPoll, HostPolls, HostSends, HostFails, Task, TaskReceivesFd,
                TaskReceivesQuitThread, TaskQuits, TaskJoins, Mgr, MgrStarts, MgrQuits, MgrWaitsQuit,
                JoinReader, JoinWriter, Drains, Reader, ReaderStarts, ReaderReads, ReaderFails,
                ReaderQuits, Writer, WriterStarts, WriterSends, WriterFails, WriterQuits, bus
  <2>. QED
    BY <1>1, <2>1, <2>2
<1>. QED
  BY <1>2, <1>3
LEMMA NoUseAdded ==
  ASSUME Sound, Next, ~HostStartsAccessory, Ends, device = "accessory", attached' = attached
  PROVE  ToUse(attached) = 0 => ToUse(attached)' = 0
<1>1. attached \in Attachments
  BY Sizes DEF Sound, Control, Ends, Attachments
<1>2. PICK at \in Attachments : at = attached
  BY <1>1
<1>3. ToUse(at) \in Nat /\ ToUse(at)' \in Nat /\ ToUse(at)' <= ToUse(at)
  BY UsesLeft
<1>4. ToUse(attached) = ToUse(at) /\ ToUse(attached)' = ToUse(at)'
  BY <1>2 DEF ToUse
<1>. QED
  BY <1>3, <1>4

(* What the app of a side has after its stream was read and written to.    *)
LEMMA PolledStream ==
  ASSUME app \in [Sides -> Streams], NEW data \in Messages, NEW out \in Messages,
         app' = [Gives("host", data) EXCEPT !["host"].out = out]
  PROVE  /\ app'["phone"] = app["phone"]
         /\ app'["host"].id = app["host"].id /\ app'["host"].open = app["host"].open
         /\ app'["host"].got = app["host"].got \o data /\ app'["host"].out = out
<1>1. app["host"].got \o data \in Messages
  BY DEF Streams, Messages, Sides
<1>. DEFINE all == app["host"].got \o data
<1>. HIDE DEF all
<1>2. Gives("host", data) = [app EXCEPT !["host"].got = all]
  BY DEF Gives, all
<1>3. app' = [[app EXCEPT !["host"].got = all] EXCEPT !["host"].out = out]
  BY <1>2
<1>4. /\ app'["phone"] = app["phone"]
      /\ app'["host"].id = app["host"].id /\ app'["host"].open = app["host"].open
      /\ app'["host"].got = all /\ app'["host"].out = out
  BY <1>3 DEF Sides, Streams
<1>. QED
  BY <1>4 DEF all

LEMMA ReadStream ==
  ASSUME app \in [Sides -> Streams], NEW data \in Messages, app' = Gives("phone", data)
  PROVE  /\ app'["host"] = app["host"]
         /\ app'["phone"].id = app["phone"].id /\ app'["phone"].open = app["phone"].open
         /\ app'["phone"].got = app["phone"].got \o data /\ app'["phone"].out = app["phone"].out
<1>. DEFINE all == app["phone"].got \o data
<1>1. app' = [app EXCEPT !["phone"].got = all]
  BY DEF Gives
<1>. HIDE DEF all
<1>2. /\ app'["host"] = app["host"]
      /\ app'["phone"].id = app["phone"].id /\ app'["phone"].open = app["phone"].open
      /\ app'["phone"].got = all /\ app'["phone"].out = app["phone"].out
  BY <1>1 DEF Sides, Streams
<1>. QED
  BY <1>2 DEF all

LEMMA ClosedStream ==
  ASSUME app \in [Sides -> Streams], NEW side \in Sides, AppCloses(side)
  PROVE  \A s \in Sides : /\ app'[s].id = app[s].id /\ app'[s].got = app[s].got
                          /\ app'[s].open => app[s].open /\ app'[s].out = app[s].out
BY DEF AppCloses, Streams

LEMMA DroppedStream ==
  ASSUME app \in [Sides -> Streams], NEW side \in Sides, DropStream(side)
  PROVE  /\ app'[side].id = app[side].id /\ app'[side].got = <<>> /\ ~app'[side].open
         /\ \A s \in Sides \ {side} : app'[s] = app[s]
<1>. DEFINE new == [NoStream EXCEPT !.id = app[side].id]
<1>1. new.id = app[side].id /\ new.got = <<>> /\ new.open = FALSE
  BY DEF NoStream
<1>2. app' = [app EXCEPT ![side] = new]
  BY DEF DropStream
<1>. HIDE DEF new
<1>. QED
  BY <1>1, <1>2

LEMMA OpenedStream ==
  ASSUME app \in [Sides -> Streams], NEW side \in Sides, NewStream(side)
  PROVE  /\ app'[side].got = <<>> /\ app'[side].open
         /\ app'[side].out = Run(app'[side].id, 0, Json[side])
         /\ \A s \in Sides \ {side} : app'[s] = app[s]
<1>. DEFINE id == app[side].id + 1
            out == [n \in 1 .. Json[side] |-> <<id, n>>]
            new == [id |-> id, open |-> TRUE, got |-> <<>>, out |-> out]
<1>1. app' = [app EXCEPT ![side] = new]
  BY DEF NewStream
<1>2. Json[side] \in Nat
  BY Sizes DEF Json, Sides
<1>. HIDE DEF id
<1>3. out = Run(id, 0, Json[side])
  <2>1. Json[side] - 0 = Json[side] /\ \A n \in 1 .. Json[side] : 0 + n = n
    BY <1>2
  <2>. QED
    BY <2>1 DEF Run
<1>. HIDE DEF out
<1>4. new.got = <<>> /\ new.open = TRUE /\ new.out = out /\ new.id = id
  OBVIOUS
<1>. HIDE DEF new
<1>5. app'[side] = new /\ \A s \in Sides \ {side} : app'[s] = app[s]
  BY <1>1
<1>. QED
  BY <1>3, <1>4, <1>5
-----------------------------------------------------------------------------
(* The computer polls: it takes a packet and reads its app's stream.       *)
LEMMA PollFlows == Sound /\ Ends /\ UsedOnce /\ Flow /\ HostPolls => Flow'
<1>. SUFFICES ASSUME Sound, Ends, UsedOnce, Flow, HostPolls PROVE Flow'
  OBVIOUS
<1>. USE DEF Sound
<1>1. /\ host = "connected" /\ Alive(hostAt) /\ inPipe # <<>> /\ inPipe' = Tail(inPipe)
      /\ app["host"].open /\ hostHand = <<>>
      /\ UNCHANGED <<device, attached, outPipe, hostAt, phoneVars>>
  BY DEF HostPolls, ReceivesPacket, Ends
<1>2. PICK count \in Readable("host") :
        /\ hostHand' = First("host", count)
        /\ app' = [Gives("host", Head(inPipe)) EXCEPT !["host"].out = Rest("host", count)]
  BY DEF HostPolls
<1>3. /\ app \in [Sides -> Streams] /\ Head(inPipe) \in Messages /\ Rest("host", count) \in Messages
      /\ inPipe \in Seq(Packets) /\ outPipe \in Seq(Packets)
  BY <1>1, PacketTaken, ReadTyped DEF Data, Sides, FitsPipe
<1>4. /\ app'["phone"] = app["phone"]
      /\ app'["host"].id = app["host"].id /\ app'["host"].open = app["host"].open
      /\ app'["host"].got = app["host"].got \o Head(inPipe)
      /\ app'["host"].out = Rest("host", count)
  BY <1>2, <1>3, PolledStream
<1>5. /\ Alive(hostAt)' <=> Alive(hostAt)
      /\ Alive(fd)' <=> Alive(fd)
      /\ ToUse(attached)' = ToUse(attached)
      /\ reader' = reader /\ writerHand' = writerHand
  BY <1>1 DEF Alive, ToUse, phoneVars, mgrVars, taskVars, writerVars
<1>6. ToPhone'
  <2>1. PICK a \in Nat, b \in Nat :
          /\ Carries(outPipe, app["host"].id, a, b)
          /\ IF Alive(hostAt) THEN Sending(app["host"], HostJson, hostHand, b) ELSE b = 0
          /\ Alive(fd) /\ reader \in {"starting", "reading"} =>
                app["phone"].got = Run(app["host"].id, 0, a)
          /\ ToUse(attached) = 0 \/ a = 0
    BY DEF Flow, ToPhone
  <2>2. Sending(app'["host"], HostJson, hostHand', b)
    <3>1. Sending(app["host"], HostJson, <<>>, b)
      BY <1>1, <2>1
    <3>2. /\ count \in Nat /\ count <= Len(app["host"].out)
          /\ hostHand' = SubSeq(app["host"].out, 1, count)
          /\ app'["host"].out = SubSeq(app["host"].out, count + 1, Len(app["host"].out))
      <4>1. Len(app["host"].out) \in Nat
        BY <1>3, LenProperties DEF Sides, Streams, Messages
      <4>. QED
        BY <1>2, <1>4, <4>1 DEF First, Rest, Readable
    <3>3. app["host"].open /\ HostJson \in Nat
      BY <1>1, Sizes
    <3>. QED
      BY <1>4, <3>1, <3>2, <3>3, SendingRead
  <2>. QED
    BY <1>1, <1>4, <1>5, <2>1, <2>2 DEF ToPhone
<1>7. ToComputer'
  <2>1. PICK id \in Nat, a \in Nat, b \in Nat :
          /\ Carries(inPipe, id, a, b)
          /\ IF Alive(hostAt) THEN app["host"].got = Run(id, 0, a) ELSE a = 0
          /\ Alive(fd) => id = app["phone"].id
                          /\ Sending(app["phone"], PhoneJson, writerHand, b)
          /\ ToUse(attached) = 0 \/ b = 0
    BY DEF Flow, ToComputer
  <2>2. PICK c \in Nat : a <= c /\ Head(inPipe) = Run(id, a, c) /\ Carries(Tail(inPipe), id, c, b)
    BY <1>1, <1>3, <2>1, CarriesFewer
  <2>3. app'["host"].got = Run(id, 0, c)
    <3>1. Run(id, 0, a) \o Run(id, a, c) = Run(id, 0, c)
      <4>1. 0 \in Nat /\ 0 <= a /\ a <= c
        BY <2>2
      <4>. QED
        BY <4>1, RunJoin
    <3>. QED
      BY <1>1, <1>4, <2>1, <2>2, <3>1
  <2>4. Carries(inPipe', id, c, b)
    BY <1>1, <2>2
  <2>. QED
    BY <1>1, <1>4, <1>5, <2>1, <2>3, <2>4 DEF ToComputer
<1>. QED
  BY <1>6, <1>7 DEF Flow
(* The computer connects: nothing of its new stream is on the cable, and   *)
(* of what comes nothing was taken.                                        *)
LEMMA ConnectFlows == Sound /\ Ends /\ Flow /\ HostConnects => Flow'
<1>. SUFFICES ASSUME Sound, Ends, Flow, HostConnects PROVE Flow'
  OBVIOUS
<1>. USE DEF Sound
<1>1. /\ host = "poll" /\ device = "accessory" /\ hostAt' = attached /\ hostHand = <<>>
      /\ hostHand' = <<>> /\ NewStream("host")
      /\ UNCHANGED <<device, attached, outPipe, inPipe, phoneVars>>
  BY DEF HostConnects, ClaimsAccessory, Ends, bus
<1>2. Alive(hostAt)' /\ ~Alive(hostAt) /\ (Alive(fd)' <=> Alive(fd))
  BY <1>1 DEF Alive, Ends, Control, phoneVars
<1>3. /\ app'["host"].got = <<>> /\ app'["host"].open /\ app'["phone"] = app["phone"]
      /\ app'["host"].out = Run(app'["host"].id, 0, HostJson)
  <2>1. /\ app'["host"].got = <<>> /\ app'["host"].open
        /\ app'["host"].out = Run(app'["host"].id, 0, Json["host"])
        /\ \A s \in Sides \ {"host"} : app'[s] = app[s]
    BY <1>1, OpenedStream DEF Data, Sides
  <2>2. Json["host"] = HostJson
    BY DEF Json
  <2>. QED
    BY <2>1, <2>2 DEF Sides
<1>4. /\ ToUse(attached)' = ToUse(attached) /\ reader' = reader /\ writerHand' = writerHand
  BY <1>1 DEF ToUse, phoneVars, mgrVars, taskVars, writerVars
<1>5. outPipe \in Seq(Packets) /\ inPipe \in Seq(Packets)
  BY DEF Data, FitsPipe
<1>6. \A id : Run(id, 0, 0) = <<>>
  BY RunEmpty
<1>7. ToPhone'
  <2>1. PICK a \in Nat, b \in Nat :
          /\ Carries(outPipe, app["host"].id, a, b)
          /\ IF Alive(hostAt) THEN Sending(app["host"], HostJson, hostHand, b) ELSE b = 0
          /\ Alive(fd) /\ reader \in {"starting", "reading"} =>
                app["phone"].got = Run(app["host"].id, 0, a)
          /\ ToUse(attached) = 0 \/ a = 0
    BY DEF Flow, ToPhone
  <2>2. a = 0 /\ Carries(outPipe, app'["host"].id, 0, 0)
    BY <1>2, <1>5, <2>1, CarriesNoneYet
  <2>3. Sending(app'["host"], HostJson, <<>>, 0)
    BY <1>3, Sizes, SendingNew
  <2>4. /\ Carries(outPipe', app'["host"].id, 0, 0)
        /\ Sending(app'["host"], HostJson, hostHand', 0)
        /\ Alive(fd)' /\ reader' \in {"starting", "reading"} =>
              app'["phone"].got = Run(app'["host"].id, 0, 0)
    BY <1>1, <1>2, <1>3, <1>4, <1>6, <2>1, <2>2, <2>3
  <2>. QED
    BY <1>2, <2>4 DEF ToPhone
<1>8. ToComputer'
  <2>1. PICK id \in Nat, a \in Nat, b \in Nat :
          /\ Carries(inPipe, id, a, b)
          /\ IF Alive(hostAt) THEN app["host"].got = Run(id, 0, a) ELSE a = 0
          /\ Alive(fd) => id = app["phone"].id
                          /\ Sending(app["phone"], PhoneJson, writerHand, b)
          /\ ToUse(attached) = 0 \/ b = 0
    BY DEF Flow, ToComputer
  <2>2. Carries(inPipe', id, a, b) /\ app'["host"].got = Run(id, 0, a)
    BY <1>1, <1>2, <1>3, <1>6, <2>1
  <2>. QED
    BY <1>2, <1>3, <1>4, <2>1, <2>2 DEF ToComputer
<1>. QED
  BY <1>7, <1>8 DEF Flow

(* A packet of the computer goes on the cable.                             *)
LEMMA SendFlows == Sound /\ Ends /\ Flow /\ (HostSends \/ HostSendsAudio) => Flow'
<1>. SUFFICES ASSUME Sound, Ends, Flow, HostSends \/ HostSendsAudio PROVE Flow'
  OBVIOUS
<1>. USE DEF Sound
<1>1. /\ Alive(hostAt)
      /\ outPipe' = Append(outPipe, hostHand) /\ hostHand' = <<>>
      /\ UNCHANGED <<device, attached, inPipe, app, hostAt, phoneVars>>
  BY DEF HostSends, HostSendsAudio, SendsPacket, Ends, hostVars
<1>2. /\ Alive(hostAt)' /\ (Alive(fd)' <=> Alive(fd)) /\ ToUse(attached)' = ToUse(attached)
      /\ reader' = reader /\ writerHand' = writerHand
  BY <1>1 DEF Alive, ToUse, phoneVars, mgrVars, taskVars, writerVars
<1>3. ToPhone'
  <2>1. PICK a \in Nat, b \in Nat :
          /\ Carries(outPipe, app["host"].id, a, b)
          /\ IF Alive(hostAt) THEN Sending(app["host"], HostJson, hostHand, b) ELSE b = 0
          /\ Alive(fd) /\ reader \in {"starting", "reading"} =>
                app["phone"].got = Run(app["host"].id, 0, a)
          /\ ToUse(attached) = 0 \/ a = 0
    BY DEF Flow, ToPhone
  <2>2. PICK c \in Nat : /\ b <= c /\ hostHand = Run(app["host"].id, b, c)
                         /\ Sending(app["host"], HostJson, <<>>, c)
    BY <1>1, <2>1, Sizes, SendingSent
  <2>3. Carries(outPipe', app["host"].id, a, c)
    <3>1. outPipe \in Seq(Packets) /\ hostHand \in Packets
      BY DEF Data, FitsPipe
    <3>2. Carries(Append(outPipe, Run(app["host"].id, b, c)), app["host"].id, a, c)
      BY <2>1, <2>2, <3>1, CarriesMore
    <3>. QED
      BY <1>1, <2>2, <3>2
  <2>. QED
    BY <1>1, <1>2, <2>1, <2>2, <2>3 DEF ToPhone
<1>4. ToComputer'
  BY <1>1, <1>2, ToComputerKept DEF Flow
<1>. QED
  BY <1>3, <1>4 DEF Flow

(* The computer lets go.                                                   *)
LEMMA LetsGoFlows ==
  ASSUME Sound, Ends, Flow, NEW unread, LetsGo(unread), ~resetFailed',
         unread = inPipe \/ Alive(hostAt)
  PROVE  Flow'
<1>. USE DEF Sound
<1>1. CASE Detaches
  <2>1. ~Alive(hostAt)' /\ ~Alive(fd)'
    BY <1>1 DEF Detaches, Alive
  <2>. QED
    BY <1>1, <2>1, NobodyThere DEF Detaches, Flow
<1>2. CASE ~Detaches
  <2>1. /\ ~Alive(hostAt) /\ inPipe' = inPipe /\ hostAt' = 0
        /\ UNCHANGED <<device, attached, outPipe, phoneVars>> /\ DropStream("host")
    BY <1>2 DEF LetsGo
  <2>2. ~Alive(hostAt)'
    BY <2>1 DEF Alive, Ends
  <2>3. app'["host"].id = app["host"].id /\ app'["phone"] = app["phone"]
    BY <2>1, DroppedStream DEF Data, Sides
  <2>4. /\ (Alive(fd)' <=> Alive(fd)) /\ ToUse(attached)' = ToUse(attached)
        /\ reader' = reader /\ writerHand' = writerHand
    BY <2>1 DEF Alive, ToUse, phoneVars, mgrVars, taskVars, writerVars
  <2>5. ToPhone'
    BY <2>1, <2>2, <2>3, <2>4, ToPhoneKept DEF Flow
  <2>6. ToComputer'
    BY <2>1, <2>2, <2>3, <2>4, ToComputerKept DEF Flow
  <2>. QED
    BY <2>5, <2>6 DEF Flow
<1>. QED
  BY <1>1, <1>2

(* The reader takes a packet, which it may have no taker for.              *)
LEMMA ReaderFlows == Sound /\ Ends /\ UsedOnce /\ Flow /\ Reader => Flow'
<1>. SUFFICES ASSUME Sound, Ends, UsedOnce, Flow, Reader PROVE Flow'
  OBVIOUS
<1>. USE DEF Sound
<1>1. UNCHANGED <<device, attached, inPipe, hostVars, taskVars, writerVars, fd, mgr, mgrFd>>
  BY DEF Reader, ReaderStarts, ReaderReads, ReaderFails, ReaderQuits, mgrVars, bus
<1>2. /\ (Alive(hostAt)' <=> Alive(hostAt)) /\ (Alive(fd)' <=> Alive(fd))
      /\ ToUse(attached)' = ToUse(attached)
      /\ hostHand' = hostHand /\ writerHand' = writerHand
  BY <1>1 DEF Alive, ToUse, hostVars, taskVars, writerVars
<1>3. CASE UNCHANGED <<app, outPipe>>
  <2>1. reader' \in {"starting", "reading"} => reader \in {"starting", "reading"}
    BY DEF Reader, ReaderStarts, ReaderReads, ReaderFails, ReaderQuits, ReadsOn, Given
  <2>2. ToPhone'
    BY <1>1, <1>2, <1>3, <2>1, ToPhoneKept DEF Flow
  <2>3. ToComputer'
    BY <1>1, <1>2, <1>3, ToComputerKept DEF Flow
  <2>. QED
    BY <2>2, <2>3 DEF Flow
<1>4. CASE ReadPacket /\ reader = "reading"
           /\ \/ app' = Gives("phone", Head(outPipe))
              \/ app' = app /\ reader' \notin {"starting", "reading"}
  <2>1. /\ Alive(fd) /\ outPipe # <<>> /\ outPipe' = Tail(outPipe) /\ ToUse(attached) = 0
        /\ reader = "reading"
    BY <1>4, InUse DEF ReadPacket
  <2>2. outPipe \in Seq(Packets) /\ Head(outPipe) \in Messages /\ app \in [Sides -> Streams]
    BY <2>1, PacketTaken DEF Data, FitsPipe
  <2>3. /\ app'["host"] = app["host"]
        /\ app'["phone"].id = app["phone"].id /\ app'["phone"].open = app["phone"].open
        /\ app'["phone"].out = app["phone"].out
        /\ \/ app'["phone"].got = app["phone"].got \o Head(outPipe)
           \/ reader' \notin {"starting", "reading"}
    BY <1>4, <2>2, ReadStream
  <2>4. PICK a \in Nat, b \in Nat :
          /\ Carries(outPipe, app["host"].id, a, b)
          /\ IF Alive(hostAt) THEN Sending(app["host"], HostJson, hostHand, b) ELSE b = 0
          /\ Alive(fd) /\ reader \in {"starting", "reading"} =>
                app["phone"].got = Run(app["host"].id, 0, a)
          /\ ToUse(attached) = 0 \/ a = 0
    BY DEF Flow, ToPhone
  <2>5. PICK c \in Nat : /\ a <= c /\ Head(outPipe) = Run(app["host"].id, a, c)
                         /\ Carries(Tail(outPipe), app["host"].id, c, b)
    BY <2>1, <2>2, <2>4, CarriesFewer
  <2>6. reader' \in {"starting", "reading"} => app'["phone"].got = Run(app["host"].id, 0, c)
    <3>1. Run(app["host"].id, 0, a) \o Run(app["host"].id, a, c) = Run(app["host"].id, 0, c)
      <4>1. 0 \in Nat /\ 0 <= a /\ a <= c
        BY <2>5
      <4>. QED
        BY <4>1, RunJoin
    <3>. QED
      BY <2>1, <2>3, <2>4, <2>5, <3>1
  <2>7. ToPhone'
    <3>1. Carries(outPipe', app'["host"].id, c, b)
      BY <2>1, <2>3, <2>5
    <3>2. IF Alive(hostAt)' THEN Sending(app'["host"], HostJson, hostHand', b) ELSE b = 0
      BY <1>2, <2>3, <2>4
    <3>. QED
      BY <1>2, <2>1, <2>3, <2>6, <3>1, <3>2 DEF ToPhone
  <2>8. ToComputer'
    BY <1>1, <1>2, <2>3, ToComputerKept DEF Flow
  <2>. QED
    BY <2>7, <2>8 DEF Flow
<1>5. ReaderStarts \/ ReaderReads \/ ReaderFails \/ ReaderQuits
  BY DEF Reader
<1>. QED
  BY <1>3, <1>4, <1>5 DEF ReaderStarts, ReaderReads, ReaderFails, ReaderQuits, Given, bus
(* The writer goes on with an empty hand, or ends with one.                *)
LEMMA WriterGoesOn ==
  ASSUME Sound, WritesOn \/ (writerHand' = <<>> /\ app' = app)
  PROVE  /\ app'["host"] = app["host"] /\ app'["phone"].id = app["phone"].id
         /\ app'["phone"].got = app["phone"].got
         /\ \A b \in Nat : Sending(app["phone"], PhoneJson, <<>>, b) =>
                               Sending(app'["phone"], PhoneJson, writerHand', b)
<1>. USE DEF Sound
<1>1. CASE writerHand' = <<>> /\ app' = app
  BY <1>1
<1>2. CASE \E count \in Readable("phone") :
             /\ writerHand' = First("phone", count)
             /\ app' = [app EXCEPT !["phone"].out = Rest("phone", count)]
  <2>1. PICK count \in Readable("phone") :
             /\ writerHand' = First("phone", count)
             /\ app' = [app EXCEPT !["phone"].out = Rest("phone", count)]
    BY <1>2
  <2>2. /\ app'["host"] = app["host"] /\ app'["phone"].id = app["phone"].id
        /\ app'["phone"].got = app["phone"].got /\ app'["phone"].open = app["phone"].open
        /\ app'["phone"].out = Rest("phone", count)
    BY <2>1 DEF Data, Sides, Streams
  <2>3. /\ count \in Nat /\ count <= Len(app["phone"].out) /\ app["phone"].open
        /\ writerHand' = SubSeq(app["phone"].out, 1, count)
        /\ app'["phone"].out = SubSeq(app["phone"].out, count + 1, Len(app["phone"].out))
    <3>1. Len(app["phone"].out) \in Nat
      BY LenProperties DEF Data, Sides, Streams, Messages
    <3>. QED
      BY <2>1, <2>2, <3>1 DEF First, Rest, Readable
  <2>4. ASSUME NEW b \in Nat, Sending(app["phone"], PhoneJson, <<>>, b)
        PROVE  Sending(app'["phone"], PhoneJson, writerHand', b)
    BY <2>2, <2>3, <2>4, Sizes, SendingRead
  <2>. QED
    BY <2>2, <2>4
<1>. QED
  BY <1>1, <1>2 DEF WritesOn

LEMMA WriterFlows == Sound /\ Ends /\ UsedOnce /\ Flow /\ Writer => Flow'
<1>. SUFFICES ASSUME Sound, Ends, UsedOnce, Flow, Writer PROVE Flow'
  OBVIOUS
<1>. USE DEF Sound
<1>1. UNCHANGED <<device, attached, outPipe, hostVars, taskVars, reader, fd, mgr, mgrFd>>
  BY DEF Writer, WriterStarts, WriterSends, WriterFails, WriterQuits, mgrVars, bus
<1>2. /\ (Alive(hostAt)' <=> Alive(hostAt)) /\ (Alive(fd)' <=> Alive(fd))
      /\ ToUse(attached)' = ToUse(attached) /\ hostHand' = hostHand
  BY <1>1 DEF Alive, ToUse, hostVars, taskVars
<1>3. CASE app' = app /\ inPipe' = inPipe /\ (Alive(fd) => writerHand' = writerHand)
  <2>1. ToPhone'
    BY <1>1, <1>2, <1>3, ToPhoneKept DEF Flow
  <2>2. ToComputer'
    BY <1>1, <1>2, <1>3, ToComputerKept DEF Flow
  <2>. QED
    BY <2>1, <2>2 DEF Flow
<1>4. CASE WritesOn \/ (writerHand' = <<>> /\ app' = app)
  <2>1. /\ app'["host"] = app["host"] /\ app'["phone"].id = app["phone"].id
        /\ app'["phone"].got = app["phone"].got
        /\ \A b \in Nat : Sending(app["phone"], PhoneJson, <<>>, b) =>
                              Sending(app'["phone"], PhoneJson, writerHand', b)
    BY <1>4, WriterGoesOn
  <2>2. ToPhone'
    BY <1>1, <1>2, <2>1, ToPhoneKept DEF Flow
  <2>3. PICK id \in Nat, a \in Nat, b \in Nat :
          /\ Carries(inPipe, id, a, b)
          /\ IF Alive(hostAt) THEN app["host"].got = Run(id, 0, a) ELSE a = 0
          /\ Alive(fd) => id = app["phone"].id
                          /\ Sending(app["phone"], PhoneJson, writerHand, b)
          /\ ToUse(attached) = 0 \/ b = 0
    BY DEF Flow, ToComputer
  <2>4. CASE inPipe' = inPipe /\ (writerHand = <<>> \/ ~Alive(fd))
    <3>1. Carries(inPipe', id, a, b)
      BY <2>3, <2>4
    <3>2. Alive(fd)' => /\ id = app'["phone"].id
                        /\ Sending(app'["phone"], PhoneJson, writerHand', b)
      BY <1>2, <2>1, <2>3, <2>4
    <3>3. ToComputer'
      BY <1>2, <2>1, <2>3, <3>1, <3>2 DEF ToComputer
    <3>. QED
      BY <2>2, <3>3 DEF Flow
  <2>5. CASE Alive(fd) /\ inPipe' = Append(inPipe, writerHand)
    <3>1. PICK c \in Nat : /\ b <= c /\ writerHand = Run(app["phone"].id, b, c)
                           /\ Sending(app["phone"], PhoneJson, <<>>, c)
      BY <2>3, <2>5, Sizes, SendingSent
    <3>2. Carries(inPipe', id, a, c)
      <4>1. inPipe \in Seq(Packets) /\ writerHand \in Packets
        BY DEF Data, FitsPipe
      <4>2. writerHand = Run(id, b, c)
        BY <2>3, <2>5, <3>1
      <4>3. Carries(Append(inPipe, Run(id, b, c)), id, a, c)
        BY <2>3, <3>1, <4>1, <4>2, CarriesMore
      <4>. QED
        BY <2>5, <4>2, <4>3
    <3>3. id = app'["phone"].id /\ Sending(app'["phone"], PhoneJson, writerHand', c)
      BY <2>1, <2>3, <2>5, <3>1
    <3>4. ToUse(attached)' = 0
      BY <1>2, <2>5, InUse
    <3>5. ToComputer'
      BY <1>2, <2>1, <2>3, <3>2, <3>3, <3>4 DEF ToComputer
    <3>. QED
      BY <2>2, <3>5 DEF Flow
  <2>6. \/ inPipe' = inPipe /\ (writerHand = <<>> \/ ~Alive(fd))
        \/ Alive(fd) /\ inPipe' = Append(inPipe, writerHand)
    BY DEF Writer, WriterStarts, WriterSends, WriterFails, WriterQuits, WritePacket, Ends, bus
  <2>. QED
    BY <2>4, <2>5, <2>6
<1>. QED
  BY <1>3, <1>4 DEF Writer, WriterStarts, WriterSends, WriterFails, WriterQuits, bus

(* The thread starts its reader and writer with a descriptor nobody used:  *)
(* nothing is on the cable from them yet, and of what is for them nothing  *)
(* was taken.                                                              *)
LEMMA StartFlows ==
  ASSUME Sound, Ends, UsedOnce, Flow, Next, MgrStarts, mgr' = "run", device = "accessory"
  PROVE  Flow'
<1>. USE DEF Sound
<1>1. /\ mgr = "starting" /\ fd' = mgrFd /\ reader' = "starting" /\ writerHand' = writerHand
      /\ ~writerRunning /\ NewStream("phone") /\ UNCHANGED <<bus, hostVars, taskVars>>
  BY DEF MgrStarts
<1>2. writerHand' = <<>>
  BY <1>1 DEF Ends
<1>3. /\ app'["phone"].got = <<>> /\ app'["phone"].open /\ app'["host"] = app["host"]
      /\ app'["phone"].out = Run(app'["phone"].id, 0, PhoneJson)
      /\ app'["phone"].id \in Nat
  <2>1. /\ app'["phone"].got = <<>> /\ app'["phone"].open
        /\ app'["phone"].out = Run(app'["phone"].id, 0, Json["phone"])
        /\ \A s \in Sides \ {"phone"} : app'[s] = app[s]
    BY <1>1, OpenedStream DEF Data, Sides
  <2>2. Json["phone"] = PhoneJson
    BY DEF Json
  <2>3. app'["phone"].id = app["phone"].id + 1
    BY <1>1 DEF NewStream, Data, Sides
  <2>. QED
    BY <2>1, <2>2, <2>3, CountIsNat DEF Sides
<1>4. /\ (Alive(hostAt)' <=> Alive(hostAt)) /\ hostHand' = hostHand
      /\ attached' = attached /\ UNCHANGED <<outPipe, inPipe>>
  BY <1>1 DEF Alive, bus, hostVars
<1>5. ToUse(attached) = 0 => ToUse(attached)' = 0
  <2>1. ~HostStartsAccessory
    BY <1>1 DEF HostStartsAccessory, StartsInAccessoryMode, bus
  <2>. QED
    BY <1>4, <2>1, NoUseAdded
<1>6. Alive(fd)' => ToUse(attached) # 0
  <2>. SUFFICES ASSUME Alive(fd)' PROVE ToUse(attached) # 0
    OBVIOUS
  <2>1. mgrFd = attached
    BY <1>1, <1>4 DEF Alive
  <2>2. NumberOf(usbQ, {attached}) \in Nat
    BY PositionsFinite DEF Data
  <2>. QED
    BY <1>1, <2>1, <2>2 DEF ToUse
<1>7. \A id : Run(id, 0, 0) = <<>>
  BY RunEmpty
<1>8. ToPhone'
  <2>1. PICK a \in Nat, b \in Nat :
          /\ Carries(outPipe, app["host"].id, a, b)
          /\ IF Alive(hostAt) THEN Sending(app["host"], HostJson, hostHand, b) ELSE b = 0
          /\ Alive(fd) /\ reader \in {"starting", "reading"} =>
                app["phone"].got = Run(app["host"].id, 0, a)
          /\ ToUse(attached) = 0 \/ a = 0
    BY DEF Flow, ToPhone
  <2>2. Alive(fd)' => app'["phone"].got = Run(app'["host"].id, 0, a)
    BY <1>3, <1>6, <1>7, <2>1
  <2>3. IF Alive(hostAt)' THEN Sending(app'["host"], HostJson, hostHand', b) ELSE b = 0
    BY <1>3, <1>4, <2>1
  <2>. QED
    BY <1>3, <1>4, <1>5, <2>1, <2>2, <2>3 DEF ToPhone
<1>9. ToComputer'
  <2>1. PICK id \in Nat, a \in Nat, b \in Nat :
          /\ Carries(inPipe, id, a, b)
          /\ IF Alive(hostAt) THEN app["host"].got = Run(id, 0, a) ELSE a = 0
          /\ Alive(fd) => id = app["phone"].id
                          /\ Sending(app["phone"], PhoneJson, writerHand, b)
          /\ ToUse(attached) = 0 \/ b = 0
    BY DEF Flow, ToComputer
  <2>2. CASE ~Alive(fd)'
    BY <1>3, <1>4, <1>5, <2>1, <2>2 DEF ToComputer
  <2>3. CASE Alive(fd)'
    <3>1. b = 0 /\ inPipe \in Seq(Packets)
      BY <1>6, <2>1, <2>3 DEF Data, FitsPipe
    <3>2. a = 0 /\ Carries(inPipe, app'["phone"].id, 0, 0)
      BY <2>1, <3>1, CarriesNoneYet
    <3>3. IF Alive(hostAt)' THEN app'["host"].got = Run(app'["phone"].id, 0, 0) ELSE 0 = 0
      BY <1>3, <1>4, <1>7, <2>1, <3>2
    <3>4. Sending(app'["phone"], PhoneJson, writerHand', 0)
      BY <1>2, <1>3, Sizes, SendingNew
    <3>5. Carries(inPipe', app'["phone"].id, 0, 0)
      BY <1>4, <3>2
    <3>. QED
      BY <1>3, <3>3, <3>4, <3>5 DEF ToComputer
  <2>. QED
    BY <2>2, <2>3
<1>. QED
  BY <1>8, <1>9 DEF Flow
(* The other steps of the task and of the thread leave the cable alone.    *)
LEMMA OtherFlows ==
  ASSUME Sound, Ends, Flow, Next, Task \/ Mgr, ~(MgrStarts /\ mgr' = "run"), device = "accessory"
  PROVE  Flow'
<1>. USE DEF Sound
<1>1. /\ UNCHANGED <<bus, hostVars, writerHand, reader>>
      /\ \/ fd' = fd /\ app' = app
         \/ fd' = 0 /\ DropStream("phone")
  BY DEF Task, TaskReceivesFd, TaskReceivesQuitThread, TaskQuits, TaskJoins, Mgr, MgrStarts, MgrQuits,
         MgrWaitsQuit, JoinReader, JoinWriter, Drains, writerVars
<1>2. /\ Alive(hostAt)' <=> Alive(hostAt)
      /\ Alive(fd)' => Alive(fd) /\ app' = app
      /\ attached' = attached /\ UNCHANGED <<device, outPipe, inPipe, hostHand>>
  BY <1>1 DEF Alive, Ends, bus, hostVars
<1>3. ToUse(attached) = 0 => ToUse(attached)' = 0
  <2>1. ~HostStartsAccessory
    BY <1>1 DEF HostStartsAccessory, StartsInAccessoryMode, bus
  <2>. QED
    BY <1>2, <2>1, NoUseAdded
<1>4. app'["host"] = app["host"]
  BY <1>1, DroppedStream DEF Data, Sides
<1>5. ToPhone'
  BY <1>1, <1>2, <1>3, <1>4, ToPhoneKept DEF Flow
<1>6. ToComputer'
  BY <1>1, <1>2, <1>3, <1>4, ToComputerKept DEF Flow
<1>. QED
  BY <1>5, <1>6 DEF Flow

LEMMA FlowStep ==
  Sound /\ Ends /\ UsedOnce /\ Flow /\ Next /\ Ends' /\ ~resetFailed' => Flow'
<1>. SUFFICES ASSUME Sound, Ends, UsedOnce, Flow, Next, Ends', ~resetFailed' PROVE Flow'
  OBVIOUS
<1>. USE DEF Sound
<1>1. CASE device' # "accessory"
  <2>1. outPipe' = <<>> /\ inPipe' = <<>>
    <3>1. device' \in {"away", "accessory"}
      BY UsbStep DEF Control
    <3>. QED
      BY <1>1, <3>1 DEF Ends
  <2>2. ~Alive(hostAt)' /\ ~Alive(fd)'
    BY <1>1 DEF Alive
  <2>. QED
    BY <2>1, <2>2, NobodyThere DEF Flow
<1>2. CASE Unplug
  BY <1>1, <1>2 DEF Unplug, Detaches
<1>3. CASE \E side \in Sides : AppCloses(side)
  <2>1. PICK side \in Sides : AppCloses(side)
    BY <1>3
  <2>2. /\ app'["host"].id = app["host"].id /\ app'["host"].got = app["host"].got
        /\ app'["host"].open => app["host"].open /\ app'["host"].out = app["host"].out
        /\ app'["phone"].id = app["phone"].id /\ app'["phone"].got = app["phone"].got
        /\ app'["phone"].open => app["phone"].open /\ app'["phone"].out = app["phone"].out
    BY <2>1, ClosedStream DEF Data, Sides
  <2>3. UNCHANGED <<bus, hostVars, phoneVars>>
    BY <2>1 DEF AppCloses
  <2>4. /\ (Alive(hostAt)' <=> Alive(hostAt)) /\ (Alive(fd)' <=> Alive(fd))
        /\ ToUse(attached)' = ToUse(attached)
        /\ UNCHANGED <<device, attached, outPipe, inPipe, hostHand, writerHand, reader>>
    BY <2>3 DEF Alive, ToUse, bus, hostVars, phoneVars, mgrVars, taskVars, writerVars
  <2>5. ToPhone'
    BY <2>2, <2>4, ToPhoneKept DEF Flow
  <2>6. ToComputer'
    BY <2>2, <2>4, ToComputerKept DEF Flow
  <2>. QED
    BY <2>5, <2>6 DEF Flow
<1>4. CASE HostConnects
  BY <1>4, ConnectFlows
<1>5. CASE HostStartsAccessory
  <2>1. /\ device = "away" /\ attached' = attached + 1
        /\ UNCHANGED <<outPipe, inPipe, hostAt, fd>>
    BY <1>5 DEF HostStartsAccessory, StartsInAccessoryMode, hostVars
  <2>2. attached \in Nat /\ hostAt \in Nat /\ hostAt <= attached /\ outPipe = <<>> /\ inPipe = <<>>
    BY <2>1, Sizes DEF Ends, Control
  <2>3. fd \in Nat /\ fd <= attached
    <3>1. CASE fd \in Attachments
      <4>1. ToUse(fd) \in Nat
        <5>1. NumberOf(usbQ, {fd}) \in Nat
          BY PositionsFinite DEF Data
        <5>. QED
          BY <5>1 DEF ToUse
      <4>2. ToUse(fd) + (IF fd = fd THEN 1 ELSE 0) <= (IF fd <= attached THEN 1 ELSE 0)
        BY <3>1 DEF UsedOnce
      <4>. QED
        BY <3>1, <4>1, <4>2, Sizes DEF Attachments
    <3>2. CASE fd \notin Attachments
      BY <2>2, <3>2, Sizes DEF Control, Attachments
    <3>. QED
      BY <3>1, <3>2
  <2>4. ~Alive(hostAt)' /\ ~Alive(fd)'
    BY <2>1, <2>2, <2>3 DEF Alive
  <2>. QED
    BY <2>1, <2>2, <2>4, NobodyThere DEF Flow
<1>6. CASE HostSendsAudio \/ HostSends
  BY <1>6, SendFlows
<1>7. CASE HostQuits \/ HostFails
  <2>1. PICK unread \in {inPipe, Tail(inPipe)} : LetsGo(unread) /\ (unread = inPipe \/ Alive(hostAt))
    BY <1>7 DEF HostQuits, HostFails
  <2>. QED
    BY <2>1, LetsGoFlows
<1>8. CASE HostPolls
  BY <1>8, PollFlows
<1>9. CASE Task \/ Mgr
  <2>1. CASE device # "accessory"
    <3>1. device' = device
      BY <1>9 DEF Task, TaskReceivesFd, TaskReceivesQuitThread, TaskQuits, TaskJoins, Mgr, MgrStarts,
                  MgrQuits, MgrWaitsQuit, JoinReader, JoinWriter, Drains, bus
    <3>. QED
      BY <1>1, <2>1, <3>1
  <2>2. CASE device = "accessory"
    BY <1>9, <2>2, OtherFlows, StartFlows
  <2>. QED
    BY <2>1, <2>2
<1>10. CASE Reader
  BY <1>10, ReaderFlows
<1>11. CASE Writer
  BY <1>11, WriterFlows
<1>. QED
  BY <1>2, <1>3, <1>4, <1>5, <1>6, <1>7, <1>8, <1>9, <1>10, <1>11
     DEF Next, Surroundings, HostHandlesPoll

(* What an app has received is the beginning of a stream, however its own  *)
(* stream is read, closed and made anew.                                   *)
LEMMA ReceivedStep == Sound /\ Ends /\ Flow /\ Received /\ Next => Received'
<1>. SUFFICES ASSUME Sound, Ends, Flow, Received, Next PROVE Received'
  OBVIOUS
<1>. USE DEF Sound
<1>0. /\ \A id : Run(id, 0, 0) = <<>>
      /\ "host" \in Sides /\ "phone" \in Sides /\ Sides = {"host", "phone"}
      /\ app \in [Sides -> Streams]
  BY RunEmpty DEF Sides, Data
<1>1. CASE \A side \in Sides : app'[side].got = app[side].got \/ app'[side].got = <<>>
  <2>. SUFFICES ASSUME NEW side \in Sides
                PROVE  \E id, n \in Nat : app'[side].got = Run(id, 0, n)
    BY DEF Received
  <2>1. CASE app'[side].got = app[side].got
    BY <2>1 DEF Received
  <2>2. CASE app'[side].got = <<>>
    <3>1. 0 \in Nat /\ app'[side].got = Run(0, 0, 0)
      BY <1>0, <2>2
    <3>. QED
      BY <3>1
  <2>. QED
    BY <1>1, <2>1, <2>2
<1>2. CASE HostPolls
  <2>1. /\ Alive(hostAt) /\ inPipe # <<>>
        /\ \E count \in Readable("host") :
              app' = [Gives("host", Head(inPipe)) EXCEPT !["host"].out = Rest("host", count)]
    BY <1>2 DEF HostPolls, ReceivesPacket
  <2>2. PICK count \in Readable("host") :
           app' = [Gives("host", Head(inPipe)) EXCEPT !["host"].out = Rest("host", count)]
    BY <2>1
  <2>3. Head(inPipe) \in Messages /\ Rest("host", count) \in Messages /\ inPipe \in Seq(Packets)
    BY <1>0, <2>1, PacketTaken, ReadTyped DEF Data, FitsPipe
  <2>4. app'["phone"] = app["phone"] /\ app'["host"].got = app["host"].got \o Head(inPipe)
    BY <1>0, <2>2, <2>3, PolledStream
  <2>5. PICK id \in Nat, a \in Nat, b \in Nat :
          Carries(inPipe, id, a, b) /\ app["host"].got = Run(id, 0, a)
    BY <2>1 DEF Flow, ToComputer
  <2>6. PICK c \in Nat : a <= c /\ Head(inPipe) = Run(id, a, c)
    BY <2>1, <2>3, <2>5, CarriesFewer
  <2>7. Run(id, 0, a) \o Run(id, a, c) = Run(id, 0, c)
    <3>1. 0 \in Nat /\ 0 <= a /\ a <= c
      BY <2>6
    <3>. QED
      BY <3>1, RunJoin
  <2>8. app'["host"].got = Run(id, 0, c)
    BY <2>4, <2>5, <2>6, <2>7
  <2>9. \E m, n \in Nat : app'["phone"].got = Run(m, 0, n)
    BY <1>0, <2>4 DEF Received
  <2>. QED
    BY <1>0, <2>8, <2>9 DEF Received
<1>3. CASE ReaderReads
  <2>1. Alive(fd) /\ outPipe # <<>> /\ reader = "reading" /\ app' = Gives("phone", Head(outPipe))
    BY <1>3 DEF ReaderReads, ReadPacket
  <2>2. Head(outPipe) \in Messages /\ outPipe \in Seq(Packets) /\ app["host"].id \in Nat
    BY <2>1, PacketTaken, CountIsNat DEF Data, FitsPipe
  <2>3. app'["host"] = app["host"] /\ app'["phone"].got = app["phone"].got \o Head(outPipe)
    BY <1>0, <2>1, <2>2, ReadStream
  <2>. DEFINE id == app["host"].id
  <2>4. PICK a \in Nat, b \in Nat : Carries(outPipe, id, a, b) /\ app["phone"].got = Run(id, 0, a)
    BY <2>1 DEF Flow, ToPhone
  <2>5. PICK c \in Nat : a <= c /\ Head(outPipe) = Run(id, a, c)
    BY <2>1, <2>2, <2>4, CarriesFewer
  <2>6. Run(id, 0, a) \o Run(id, a, c) = Run(id, 0, c)
    <3>1. 0 \in Nat /\ 0 <= a /\ a <= c
      BY <2>5
    <3>. QED
      BY <3>1, RunJoin
  <2>7. id \in Nat /\ app'["phone"].got = Run(id, 0, c)
    BY <2>2, <2>3, <2>4, <2>5, <2>6
  <2>8. \E m, n \in Nat : app'["host"].got = Run(m, 0, n)
    BY <1>0, <2>3 DEF Received
  <2>. HIDE DEF id
  <2>9. \E m, n \in Nat : app'["phone"].got = Run(m, 0, n)
    BY <2>7
  <2>. QED
    BY <1>0, <2>8, <2>9 DEF Received
<1>4. CASE \E side \in Sides : AppCloses(side)
  BY <1>0, <1>1, <1>4, ClosedStream
<1>5. CASE \E side \in Sides : NewStream(side)
  BY <1>0, <1>1, <1>5, OpenedStream
<1>6. CASE \E side \in Sides : DropStream(side)
  BY <1>0, <1>1, <1>6, DroppedStream
<1>7. CASE UNCHANGED app
  BY <1>1, <1>7
<1>8. CASE WriterStarts \/ WriterSends
  <2>1. WritesOn \/ (writerHand' = <<>> /\ app' = app)
    BY <1>8 DEF WriterStarts, WriterSends
  <2>. QED
    BY <1>0, <1>1, <2>1, WriterGoesOn
<1>9. \/ HostPolls \/ ReaderReads \/ (\E side \in Sides : AppCloses(side))
      \/ (\E side \in Sides : NewStream(side)) \/ (\E side \in Sides : DropStream(side))
      \/ WriterStarts \/ WriterSends \/ UNCHANGED app
  BY <1>0 DEF Next, Surroundings, Unplug, HostConnects, HostStartsAccessory, HostSendsAudio, HostQuits,
              LetsGo, HostHandlesPoll, HostSends, HostFails, Task, TaskReceivesFd,
              TaskReceivesQuitThread, TaskQuits, TaskJoins, Mgr, MgrStarts, MgrQuits, MgrWaitsQuit,
              JoinReader, JoinWriter, Drains, Reader, ReaderStarts, ReaderFails, ReaderQuits, Writer,
              WriterFails, WriterQuits, bus
<1>. QED
  BY <1>2, <1>3, <1>4, <1>5, <1>6, <1>7, <1>8, <1>9
LEMMA FlowingStep == Sound /\ Flowing /\ [Next]_vars => Flowing'
<1>. SUFFICES ASSUME Sound, Flowing, [Next]_vars PROVE Flowing'
  OBVIOUS
<1>1. CASE Next
  <2>1. Ends' /\ UsedOnce'
    BY <1>1, EndsStep, UsedOnceStep DEF Flowing
  <2>2. resetFailed => resetFailed'
    BY <1>1 DEF Next, Surroundings, Unplug, AppCloses, HostConnects, HostStartsAccessory, HostSendsAudio,
                HostQuits, LetsGo, HostHandlesPoll, HostPolls, HostSends, HostFails, Task,
                TaskReceivesFd, TaskReceivesQuitThread, TaskQuits, TaskJoins, Mgr, MgrStarts, MgrQuits,
                MgrWaitsQuit, JoinReader, JoinWriter, Drains, Reader, ReaderStarts, ReaderReads,
                ReaderFails, ReaderQuits, Writer, WriterStarts, WriterSends, WriterFails, WriterQuits,
                hostVars
  <2>3. CASE resetFailed'
    BY <2>1, <2>3 DEF Flowing
  <2>4. CASE ~resetFailed'
    <3>1. Flow /\ Received
      BY <2>2, <2>4 DEF Flowing
    <3>2. Flow'
      BY <1>1, <2>1, <2>4, <3>1, FlowStep DEF Flowing
    <3>3. Received'
      BY <1>1, <3>1, ReceivedStep DEF Flowing
    <3>. QED
      BY <2>1, <3>2, <3>3 DEF Flowing
  <2>. QED
    BY <2>3, <2>4
<1>2. CASE UNCHANGED vars
  <2>1. UNCHANGED <<bus, app, hostVars, usbQ, next, mgr, mgrFd, reader, writer, writerHand, fd,
                    writerRunning>>
    BY <1>2 DEF vars, phoneVars, taskVars, mgrVars, writerVars, flags
  <2>2. Ends' /\ UsedOnce'
    BY <2>1 DEF Flowing, Ends, UsedOnce, ToUse, bus, hostVars
  <2>3. Flow => Flow'
    BY <2>1 DEF Flow, ToPhone, ToComputer, Alive, ToUse, bus, hostVars
  <2>4. Received => Received'
    BY <2>1 DEF Received
  <2>. QED
    BY <2>1, <2>2, <2>3, <2>4 DEF Flowing, hostVars
<1>. QED
  BY <1>1, <1>2

LEMMA FlowingStart == Init => Flowing
<1>. SUFFICES ASSUME Init PROVE Flowing
  OBVIOUS
<1>1. Ends
  BY DEF Init, Ends
<1>2. UsedOnce
  <2>. SUFFICES ASSUME NEW at \in Attachments
                PROVE  ToUse(at) + (IF fd = at THEN 1 ELSE 0) <= (IF at <= attached THEN 1 ELSE 0)
    BY DEF UsedOnce
  <2>1. at \in Nat /\ at # 0 /\ at # GoOn
    BY Sizes DEF Attachments, GoOn
  <2>2. NumberOf(usbQ, {at}) = 0
    BY NumberOfNone DEF Init
  <2>. QED
    BY <2>1, <2>2 DEF Init, ToUse
<1>3. ToPhone /\ ToComputer
  <2>1. \A id : Carries(<<>>, id, 0, 0)
    BY CarriesNone
  <2>2. ~Alive(fd) /\ ~Alive(hostAt)
    BY DEF Init, Alive
  <2>. QED
    BY <2>1, <2>2 DEF Init, ToPhone, ToComputer
<1>4. Received
  <2>. SUFFICES ASSUME NEW side \in Sides
                PROVE  \E id, n \in Nat : app[side].got = Run(id, 0, n)
    BY DEF Received
  <2>1. app[side].got = <<>>
    BY DEF Init, NoStream
  <2>2. Run(0, 0, 0) = <<>> /\ 0 \in Nat
    BY RunEmpty
  <2>. QED
    BY <2>1, <2>2
<1>. QED
  BY <1>1, <1>2, <1>3, <1>4 DEF Flowing, Flow

(* JSON messages reach the app at the other end in order from the first of *)
(* their stream on, none lost in between and none twice, through short     *)
(* reads, timeouts, closed streams, unplugging and reconnections on either *)
(* side, as long as the computer's resets of the device succeed: the ends  *)
(* of a pipe of libusb.rs and read.rs, write.rs always agree on whose      *)
(* stream it carries, and no descriptor is used twice.                     *)
THEOREM MessagesInOrder == Spec => []JsonInOrder
<1>1. Init => Sound /\ Flowing
  BY UsbStart, FlowingStart
<1>2. Sound /\ Flowing /\ [Next]_vars => (Sound /\ Flowing)'
  BY UsbStep, FlowingStep
<1>3. Sound /\ Flowing => JsonInOrder
  <2>. SUFFICES ASSUME Flowing, ~resetFailed, NEW side \in Sides PROVE InOrder(app[side].got)
    BY DEF JsonInOrder
  <2>1. PICK id \in Nat, n \in Nat : app[side].got = Run(id, 0, n)
    BY DEF Flowing, Received
  <2>. QED
    BY <2>1, RunInOrder
<1>. QED
  BY <1>1, <1>2, <1>3, PTL DEF Spec
=============================================================================
