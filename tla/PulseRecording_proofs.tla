----------------------- MODULE PulseRecording_proofs -----------------------
(***************************************************************************)
(* Theorems about the recording thread.  What its handlers rely on is in   *)
(* the queue: which events can still be there, and behind which others.    *)
(***************************************************************************)
EXTENDS PulseRecording, QueueLemmas

StreamEvents == {"Read", "StreamStateChange"}

(* What only PulseAudio and the AudioManager put into the queue.           *)
FromOutside == StreamEvents \cup {"StartAudioStream", "RequestQuit"}

(* TypeOK is inductive with: every stream and every waiting request is due *)
(* to a StartAudioStream that is no longer queued; and what is to be read  *)
(* fits into the packet.                                                   *)
Counted ==
    /\ queue \in Seq(Events) /\ buffer \in Seq(Nat)
    /\ asked \in [recording : Nat, stream : 0..MaxStarts, stop : Nat, quit : BOOLEAN]
    /\ waiting \in Nat /\ streams \in Nat
    /\ NumberOf(queue, {"StartAudioStream"}) + waiting + streams <= asked.stream
    /\ enabled => available + Len(buffer) <= PacketFragments

(* A quit is the last the AudioManager asks for; only after it the context *)
(* is disconnected.                                                        *)
QuitIsLast ==
    /\ NoneAfter(queue, {"RequestQuit"}, {"StartAudioStream"})
    /\ ~asked.quit => Free(queue, {"RequestQuit"})
    /\ quitRequested => asked.quit /\ Free(queue, {"StartAudioStream"})
    /\ ~quitRequested => Free(queue, {"StreamManagerQuitReady"})
    /\ context = "terminated" => quitRequested
    /\ contextReady => context # "connecting"

(* The end of a stream is the last that is queued of it, and without a     *)
(* stream nothing is.                                                      *)
EndIsLast ==
    /\ thread = "panicked" => context = "failed"
    /\ context # "failed" =>
          /\ record = 0 => Free(queue, StreamEvents)
          /\ stream = "terminated" => NoneAfter(queue, {"StreamStateChange"}, StreamEvents)
    /\ disconnecting /\ ~draining => Free(queue, {"StreamStateChange"})

(* What is in the buffer was recorded by the stream there is.              *)
BufferIsOfTheStream ==
    /\ record # 0 => \A i \in 1..Len(buffer) : buffer[i] = record
    /\ PacketsAreOfTheirStream
-----------------------------------------------------------------------------
LEMMA PulseStart == Init => TypeOK /\ Counted /\ QuitIsLast /\ EndIsLast /\ BufferIsOfTheStream
<1>. SUFFICES ASSUME Init PROVE TypeOK /\ Counted /\ QuitIsLast /\ EndIsLast /\ BufferIsOfTheStream
  OBVIOUS
<1>1. queue = <<>> /\ buffer = <<>> /\ Len(<<>>) = 0 /\ 1..Len(<<>>) = {}
  BY EmptySeq DEF Init
<1>2. \A S : Free(<<>>, S) /\ NumberOf(<<>>, S) = 0
  BY FreeSimple, NumberOfNone
<1>3. \A E, S : NoneAfter(<<>>, E, S)
  BY <1>1 DEF NoneAfter
<1>4. TypeOK
  BY <1>1, PacketAssumption, RecordingBounds DEF Init, TypeOK
<1>5. Counted
  BY <1>1, <1>2, PacketAssumption, RecordingBounds DEF Init, Counted
<1>6. QuitIsLast /\ EndIsLast
  BY <1>1, <1>2, <1>3 DEF Init, QuitIsLast, EndIsLast
<1>7. BufferIsOfTheStream
  BY <1>1 DEF Init, BufferIsOfTheStream, PacketsAreOfTheirStream, NoPacket
<1>. QED
  BY <1>4, <1>5, <1>6, <1>7

(* What a queue of events keeps when f joins it.                           *)
LEMMA EventsJoin ==
  ASSUME NEW q \in Seq(Events), NEW f \in Seq(Events)
  PROVE  /\ q \o f \in Seq(Events)
         /\ \A S : Free(f, S) =>
               /\ Free(q, S) => Free(q \o f, S)
               /\ \A E : NoneAfter(q, E, S) => NoneAfter(q \o f, E, S)
               /\ NumberOf(q \o f, S) = NumberOf(q, S)
BY FreeConcat

(* The first event is handled, and f joins what is left.                   *)
LEMMA EventHandled ==
  ASSUME NEW event, NEW f \in Seq(Events), Handles(event, f), Counted, Free(f, FromOutside)
  PROVE  /\ event \in Events /\ thread = "running"
         /\ queue' \in Seq(Events)
         /\ draining' = (queue' # <<>>) /\ asked' = asked
         /\ \A S : Free(queue, S) => event \notin S
         /\ \A S \in SUBSET FromOutside : Free(queue, S) => Free(queue', S)
         /\ \A E : \A S \in SUBSET FromOutside :
               NoneAfter(queue, E, S) => /\ NoneAfter(queue', E, S)
                                         /\ event \in E => Free(queue', S)
         /\ NumberOf(queue', {"StartAudioStream"})
              = IF event = "StartAudioStream" THEN NumberOf(queue, {"StartAudioStream"}) - 1
                                              ELSE NumberOf(queue, {"StartAudioStream"})
<1>. DEFINE t == Tail(queue)
<1>1. /\ queue \in Seq(Events) /\ queue # <<>> /\ Head(queue) = event /\ thread = "running"
      /\ queue' = t \o f /\ draining' = (queue' # <<>>) /\ asked' = asked
  BY DEF Handles, Counted
<1>2. event \in Events /\ t \in Seq(Events)
  BY <1>1, Removed
<1>3. /\ \A S : Free(queue, S) => Free(t, S) /\ event \notin S
      /\ \A E, S : NoneAfter(queue, E, S) => NoneAfter(t, E, S) /\ (event \in E => Free(t, S))
  BY <1>1, FreeTail
<1>4. NumberOf(t, {"StartAudioStream"})
         = IF event = "StartAudioStream" THEN NumberOf(queue, {"StartAudioStream"}) - 1
                                         ELSE NumberOf(queue, {"StartAudioStream"})
  BY <1>1, NumberOfTail
<1>5. \A S \in SUBSET FromOutside : Free(f, S)
  BY DEF Free
<1>. HIDE DEF t
<1>6. /\ queue' \in Seq(Events)
      /\ \A S \in SUBSET FromOutside :
            /\ Free(t, S) => Free(queue', S)
            /\ \A E : NoneAfter(t, E, S) => NoneAfter(queue', E, S)
            /\ NumberOf(queue', S) = NumberOf(t, S)
  BY <1>1, <1>2, <1>5, EventsJoin
<1>7. {"StartAudioStream"} \in SUBSET FromOutside
  BY DEF FromOutside
<1>. QED
  BY <1>1, <1>2, <1>3, <1>4, <1>6, <1>7

(* The events the handlers send.                                           *)
LEMMA SentEvents ==
  ASSUME waiting \in Nat
  PROVE  /\ Nothing \in Seq(Events) /\ Free(Nothing, FromOutside)
         /\ Free(Nothing, {"StreamManagerQuitReady"})
         /\ \A e \in {"StreamManagerQuitReady", "ContextStateChanged", "PAQuitReady"} :
               <<e>> \in Seq(Events) /\ Free(<<e>>, FromOutside)
         /\ \A e \in {"ContextStateChanged", "PAQuitReady"} :
               Free(<<e>>, {"StreamManagerQuitReady"})
         /\ [i \in 1..waiting |-> "StartRecording"] \in Seq(Events)
         /\ Free([i \in 1..waiting |-> "StartRecording"], FromOutside)
         /\ Free([i \in 1..waiting |-> "StartRecording"], {"StreamManagerQuitReady"})
<1>1. \A S : Free(<<>>, S) /\ \A x : Free(<<x>>, S) <=> x \notin S
  BY FreeSimple
<1>2. \A e \in {"StreamManagerQuitReady", "ContextStateChanged", "PAQuitReady"} :
         e \in Events /\ e \notin FromOutside
  BY DEF Events, FromOutside, StreamEvents
<1>3. \A e \in Events : <<e>> \in Seq(Events)
  OBVIOUS
<1>. DEFINE w == [i \in 1..waiting |-> "StartRecording"]
<1>4. w \in Seq(Events) /\ Len(w) = waiting
  <2>1. w \in [1..waiting -> Events]
    BY DEF Events
  <2>. HIDE DEF w
  <2>. QED
    BY <2>1, SequenceOf
<1>5. \A i \in 1..Len(w) : w[i] = "StartRecording"
  BY <1>4
<1>. HIDE DEF w
<1>6. Free(w, FromOutside) /\ Free(w, {"StreamManagerQuitReady"})
  BY <1>5 DEF Free, FromOutside, StreamEvents
<1>7. <<>> \in Seq(Events)
  OBVIOUS
<1>. QED
  BY <1>1, <1>2, <1>3, <1>4, <1>6, <1>7 DEF Nothing, w

PulseInvariant == TypeOK /\ Counted /\ QuitIsLast /\ EndIsLast /\ BufferIsOfTheStream

(* What each part of the invariant says of the queue once the first event  *)
(* is handled.                                                             *)
LEMMA QueueHandled ==
  ASSUME PulseInvariant, NEW event, NEW f \in Seq(Events), Handles(event, f),
         Free(f, FromOutside)
  PROVE  /\ thread = "running" /\ asked' = asked
         /\ queue' \in Seq(Events) /\ (\A i \in DOMAIN queue' : queue'[i] \in Events)
         /\ (draining' => queue' # <<>>) /\ (~draining' => \A S : Free(queue', S))
         /\ NumberOf(queue, {"StartAudioStream"}) \in Nat
         /\ NumberOf(queue', {"StartAudioStream"}) \in Nat
         /\ NumberOf(queue', {"StartAudioStream"})
              = IF event = "StartAudioStream" THEN NumberOf(queue, {"StartAudioStream"}) - 1
                                              ELSE NumberOf(queue, {"StartAudioStream"})
         /\ NoneAfter(queue', {"RequestQuit"}, {"StartAudioStream"})
         /\ ~asked.quit => Free(queue', {"RequestQuit"}) /\ event # "RequestQuit"
         /\ quitRequested => Free(queue', {"StartAudioStream"}) /\ event # "StartAudioStream"
         /\ event = "RequestQuit" => Free(queue', {"StartAudioStream"})
         /\ event = "StreamManagerQuitReady" => quitRequested
         /\ ~quitRequested /\ Free(f, {"StreamManagerQuitReady"}) =>
               Free(queue', {"StreamManagerQuitReady"})
         /\ context # "failed" /\ record = 0 =>
               Free(queue', StreamEvents) /\ event \notin StreamEvents
         /\ context # "failed" /\ stream = "terminated" =>
               /\ NoneAfter(queue', {"StreamStateChange"}, StreamEvents)
               /\ event = "StreamStateChange" => Free(queue', StreamEvents)
<1>. USE DEF PulseInvariant
<1>1. /\ thread = "running" /\ asked' = asked
      /\ queue' \in Seq(Events) /\ draining' = (queue' # <<>>)
      /\ \A S : Free(queue, S) => event \notin S
      /\ \A S \in SUBSET FromOutside : Free(queue, S) => Free(queue', S)
      /\ \A E : \A S \in SUBSET FromOutside :
               NoneAfter(queue, E, S) => /\ NoneAfter(queue', E, S)
                                         /\ event \in E => Free(queue', S)
      /\ NumberOf(queue', {"StartAudioStream"})
              = IF event = "StartAudioStream" THEN NumberOf(queue, {"StartAudioStream"}) - 1
                                              ELSE NumberOf(queue, {"StartAudioStream"})
  BY EventHandled
<1>2. /\ {"StartAudioStream"} \in SUBSET FromOutside /\ {"RequestQuit"} \in SUBSET FromOutside
      /\ StreamEvents \in SUBSET FromOutside
  BY DEF FromOutside
<1>3. /\ NumberOf(queue, {"StartAudioStream"}) \in Nat
      /\ NumberOf(queue', {"StartAudioStream"}) \in Nat
  BY <1>1, PositionsFinite DEF Counted
<1>4. \A i \in DOMAIN queue' : queue'[i] \in Events
  BY <1>1
<1>5. \A S : Free(<<>>, S)
  BY FreeSimple
<1>6. Free(f, {"StreamManagerQuitReady"}) /\ Free(queue, {"StreamManagerQuitReady"}) =>
         Free(queue', {"StreamManagerQuitReady"})
  <2>1. queue \in Seq(Events) /\ queue # <<>> /\ queue' = Tail(queue) \o f
    BY DEF Handles, Counted
  <2>2. Tail(queue) \in Seq(Events)
    BY <2>1, Removed
  <2>3. Free(queue, {"StreamManagerQuitReady"}) => Free(Tail(queue), {"StreamManagerQuitReady"})
    BY <2>1, FreeTail
  <2>4. Free(f, {"StreamManagerQuitReady"}) /\ Free(Tail(queue), {"StreamManagerQuitReady"}) =>
           Free(Tail(queue) \o f, {"StreamManagerQuitReady"})
    BY <2>2, EventsJoin
  <2>. QED
    BY <2>1, <2>3, <2>4
<1>7. /\ NoneAfter(queue', {"RequestQuit"}, {"StartAudioStream"})
      /\ ~asked.quit => Free(queue', {"RequestQuit"}) /\ event # "RequestQuit"
      /\ quitRequested => Free(queue', {"StartAudioStream"}) /\ event # "StartAudioStream"
      /\ event = "RequestQuit" => Free(queue', {"StartAudioStream"})
      /\ event = "StreamManagerQuitReady" => quitRequested
  BY <1>1, <1>2 DEF QuitIsLast
<1>8. /\ context # "failed" /\ record = 0 =>
               Free(queue', StreamEvents) /\ event \notin StreamEvents
      /\ context # "failed" /\ stream = "terminated" =>
               /\ NoneAfter(queue', {"StreamStateChange"}, StreamEvents)
               /\ event = "StreamStateChange" => Free(queue', StreamEvents)
  BY <1>1, <1>2 DEF EndIsLast
<1>. QED
  BY <1>1, <1>3, <1>4, <1>5, <1>6, <1>7, <1>8 DEF QuitIsLast

(* The same in three parts, each for a part of the invariant.              *)
LEMMA HandledTyped ==
  ASSUME PulseInvariant, NEW event, NEW f \in Seq(Events), Handles(event, f),
         Free(f, FromOutside)
  PROVE  /\ asked' = asked
         /\ queue' \in Seq(Events) /\ (\A i \in DOMAIN queue' : queue'[i] \in Events)
         /\ (draining' => queue' # <<>>)
         /\ NumberOf(queue, {"StartAudioStream"}) \in Nat
         /\ NumberOf(queue', {"StartAudioStream"}) \in Nat
         /\ NumberOf(queue', {"StartAudioStream"})
              = IF event = "StartAudioStream" THEN NumberOf(queue, {"StartAudioStream"}) - 1
                                              ELSE NumberOf(queue, {"StartAudioStream"})
BY QueueHandled

LEMMA HandledQuit ==
  ASSUME PulseInvariant, NEW event, NEW f \in Seq(Events), Handles(event, f),
         Free(f, FromOutside)
  PROVE  /\ asked' = asked
         /\ NoneAfter(queue', {"RequestQuit"}, {"StartAudioStream"})
         /\ ~asked.quit => Free(queue', {"RequestQuit"}) /\ event # "RequestQuit"
         /\ quitRequested => Free(queue', {"StartAudioStream"}) /\ event # "StartAudioStream"
         /\ event = "RequestQuit" => Free(queue', {"StartAudioStream"})
         /\ event = "StreamManagerQuitReady" => quitRequested
         /\ ~quitRequested /\ Free(f, {"StreamManagerQuitReady"}) =>
               Free(queue', {"StreamManagerQuitReady"})
BY QueueHandled

LEMMA HandledEnd ==
  ASSUME PulseInvariant, NEW event, NEW f \in Seq(Events), Handles(event, f),
         Free(f, FromOutside)
  PROVE  /\ thread = "running" /\ (~draining' => Free(queue', {"StreamStateChange"}))
         /\ context # "failed" /\ record = 0 =>
               Free(queue', StreamEvents) /\ event \notin StreamEvents
         /\ context # "failed" /\ stream = "terminated" =>
               /\ NoneAfter(queue', {"StreamStateChange"}, StreamEvents)
               /\ event = "StreamStateChange" => Free(queue', StreamEvents)
BY QueueHandled
-----------------------------------------------------------------------------
(* The handlers, each with the events it sends.                            *)
LEMMA StartRecordingStep ==
  ASSUME PulseInvariant, HandleStartRecording
  PROVE  PulseInvariant'
<1>. USE DEF PulseInvariant
<1>1. Nothing \in Seq(Events) /\ Free(Nothing, FromOutside)
      /\ Free(Nothing, {"StreamManagerQuitReady"})
  BY SentEvents DEF Counted
<1>2. Handles("StartRecording", Nothing)
      /\ UNCHANGED <<thread, contextReady, waiting, quitRequested, record, enabled, buffer,
                     streams, packet, context, stream, disconnecting, available>>
  BY DEF HandleStartRecording, streamVars, pulseVars
<1>20. TypeOK'
  BY <1>1, <1>2, HandledTyped DEF TypeOK
<1>21. Counted'
  <2>1. /\ NumberOf(queue', {"StartAudioStream"}) = NumberOf(queue, {"StartAudioStream"})
        /\ queue' \in Seq(Events) /\ asked' = asked
    BY <1>1, <1>2, HandledTyped
  <2>. QED
    BY <1>2, <2>1 DEF Counted
<1>22. QuitIsLast'
  BY <1>1, <1>2, HandledQuit DEF QuitIsLast
<1>23. EndIsLast'
  BY <1>1, <1>2, HandledEnd DEF EndIsLast
<1>24. BufferIsOfTheStream'
  BY <1>1, <1>2 DEF BufferIsOfTheStream, PacketsAreOfTheirStream
<1>. QED
  BY <1>20, <1>21, <1>22, <1>23, <1>24

(* A stream that is created starts with nothing in the buffer.             *)
LEMMA NewStreamStep ==
  ASSUME PulseInvariant, HandleStartAudioStream, NewStream,
         UNCHANGED <<thread, waiting, packet, context>>, contextReady, context = "ready"
  PROVE  PulseInvariant'
<1>. USE DEF PulseInvariant
<1>1. Nothing \in Seq(Events) /\ Free(Nothing, FromOutside)
      /\ Free(Nothing, {"StreamManagerQuitReady"})
  BY SentEvents DEF Counted
<1>2. Handles("StartAudioStream", Nothing) /\ UNCHANGED <<contextReady, quitRequested>>
  BY DEF HandleStartAudioStream
<1>3. /\ streams' = streams + 1 /\ record' = streams + 1
      /\ stream' = "creating" /\ disconnecting' = FALSE /\ available' = 0
      /\ enabled' = TRUE /\ buffer' = <<>>
  BY DEF NewStream
<1>4. <<>> \in Seq(Nat) /\ Len(<<>>) = 0 /\ 1..Len(<<>>) = {}
  BY EmptySeq
<1>5. asked.stream \in 0..MaxStarts
  BY DEF Counted
<1>6. TypeOK'
  <2>1. streams + 1 \in 0..MaxStarts
    <3>1. /\ NumberOf(queue, {"StartAudioStream"}) \in Nat
          /\ NumberOf(queue, {"StartAudioStream"}) - 1 \in Nat
      BY <1>1, <1>2, HandledTyped
    <3>2. /\ NumberOf(queue, {"StartAudioStream"}) + waiting + streams <= asked.stream
          /\ waiting \in Nat /\ streams \in Nat
      BY DEF Counted
    <3>. QED
      BY <1>5, <3>1, <3>2, RecordingBounds
  <2>2. streams + 1 # 0 /\ 0 \in 0..PacketFragments
    BY <2>1, PacketAssumption DEF Counted
  <2>. QED
    <3>1. (\A i \in DOMAIN queue' : queue'[i] \in Events) /\ (draining' => queue' # <<>>)
      BY <1>1, <1>2, HandledTyped
    <3>2. UNCHANGED <<thread, waiting, context>>
      OBVIOUS
    <3>. QED
      BY <1>3, <1>4, <2>1, <2>2, <3>1, <3>2, PacketAssumption DEF TypeOK
<1>7. Counted'
  BY <1>1, <1>2, <1>3, <1>4, <1>5, HandledTyped, PacketAssumption DEF Counted
<1>8. QuitIsLast' /\ EndIsLast'
  <2>1. streams + 1 # 0
    BY DEF Counted
  <2>2. QuitIsLast'
    BY <1>1, <1>2, HandledQuit DEF QuitIsLast
  <2>3. EndIsLast'
    BY <1>1, <1>2, <1>3, <2>1, HandledEnd DEF EndIsLast
  <2>. QED
    BY <2>2, <2>3
<1>9. BufferIsOfTheStream'
  BY <1>3, <1>4 DEF BufferIsOfTheStream, PacketsAreOfTheirStream
<1>. QED
  BY <1>6, <1>7, <1>8, <1>9

(* The result of connect_record is unwrapped when the context was ready:   *)
(* it can only have failed, for it is disconnected after the last start.   *)
LEMMA StartAudioStreamStep ==
  ASSUME PulseInvariant, HandleStartAudioStream
  PROVE  PulseInvariant'
<1>. USE DEF PulseInvariant
<1>1. Nothing \in Seq(Events) /\ Free(Nothing, FromOutside)
      /\ Free(Nothing, {"StreamManagerQuitReady"})
  BY SentEvents DEF Counted
<1>2. Handles("StartAudioStream", Nothing) /\ UNCHANGED <<contextReady, quitRequested>>
  BY DEF HandleStartAudioStream
<1>3. waiting \in Nat /\ streams \in Nat /\ asked.stream \in 0..MaxStarts
  BY DEF Counted
<1>4. CASE UNCHANGED <<thread, streamVars, pulseVars>> /\ waiting' \in {waiting, waiting + 1}
  <2>1. UNCHANGED <<thread, record, enabled, buffer, streams, packet,
                    context, stream, disconnecting, available>>
    BY <1>4 DEF streamVars, pulseVars
  <2>2. Counted'
    <3>1. /\ NumberOf(queue', {"StartAudioStream"}) + 1 = NumberOf(queue, {"StartAudioStream"})
          /\ NumberOf(queue', {"StartAudioStream"}) \in Nat
      BY <1>1, <1>2, HandledTyped
    <3>2. queue' \in Seq(Events) /\ asked' = asked
      BY <1>1, <1>2, HandledTyped
    <3>3. NumberOf(queue', {"StartAudioStream"}) + waiting' + streams' <= asked'.stream
      <4>1. NumberOf(queue, {"StartAudioStream"}) + waiting + streams <= asked.stream
        BY DEF Counted
      <4>. QED
        BY <1>3, <1>4, <2>1, <3>1, <3>2, <4>1
    <3>4. waiting' \in Nat
      BY <1>3, <1>4
    <3>. QED
      BY <1>3, <2>1, <3>2, <3>3, <3>4 DEF Counted
  <2>3. waiting' \in 0..MaxStarts
    <3>1. /\ NumberOf(queue, {"StartAudioStream"}) \in Nat
          /\ NumberOf(queue, {"StartAudioStream"}) - 1 \in Nat
      BY <1>1, <1>2, HandledTyped
    <3>2. NumberOf(queue, {"StartAudioStream"}) + waiting + streams <= asked.stream
      BY DEF Counted
    <3>. QED
      BY <1>3, <1>4, <3>1, <3>2, RecordingBounds
  <2>4. TypeOK'
    BY <1>1, <1>2, <2>1, <2>3, HandledTyped DEF TypeOK
  <2>5. QuitIsLast'
    BY <1>1, <1>2, <2>1, HandledQuit DEF QuitIsLast
  <2>6. EndIsLast'
    BY <1>1, <1>2, <2>1, HandledEnd DEF EndIsLast
  <2>7. BufferIsOfTheStream'
    BY <2>1 DEF BufferIsOfTheStream, PacketsAreOfTheirStream
  <2>. QED
    BY <2>2, <2>4, <2>5, <2>6, <2>7
<1>5. CASE /\ contextReady /\ context # "ready" /\ thread' = "panicked"
           /\ UNCHANGED <<waiting, streamVars, pulseVars>>
  <2>1. context = "failed"
    <3>1. context # "connecting" /\ context \in {"connecting", "ready", "failed", "terminated"}
      BY <1>5 DEF QuitIsLast, TypeOK
    <3>2. ~quitRequested
      BY <1>1, <1>2, HandledQuit
    <3>. QED
      BY <1>5, <3>1, <3>2 DEF QuitIsLast
  <2>. QED
    <3>1. UNCHANGED <<waiting, record, enabled, buffer, streams, packet,
                      context, stream, disconnecting, available>>
      BY <1>5 DEF streamVars, pulseVars
    <3>2. TypeOK'
      BY <1>1, <1>2, <1>5, <3>1, HandledTyped DEF TypeOK
    <3>3. Counted'
      <4>1. /\ NumberOf(queue', {"StartAudioStream"}) + 1 = NumberOf(queue, {"StartAudioStream"})
            /\ NumberOf(queue', {"StartAudioStream"}) \in Nat
            /\ queue' \in Seq(Events) /\ asked' = asked
        BY <1>1, <1>2, HandledTyped
      <4>. QED
        BY <1>3, <3>1, <4>1 DEF Counted
    <3>4. QuitIsLast'
      BY <1>1, <1>2, <3>1, HandledQuit DEF QuitIsLast
    <3>5. EndIsLast'
      BY <1>1, <1>2, <2>1, <3>1, HandledEnd DEF EndIsLast
    <3>6. BufferIsOfTheStream'
      BY <3>1 DEF BufferIsOfTheStream, PacketsAreOfTheirStream
    <3>. QED
      BY <3>2, <3>3, <3>4, <3>5, <3>6
<1>6. CASE /\ contextReady /\ context = "ready" /\ NewStream
           /\ UNCHANGED <<thread, waiting, packet, context>>
  BY <1>6, NewStreamStep
<1>. QED
  BY <1>4, <1>5, <1>6 DEF HandleStartAudioStream, streamVars

LEMMA StopRecordingStep ==
  ASSUME PulseInvariant, HandleStopRecording
  PROVE  PulseInvariant'
<1>. USE DEF PulseInvariant
<1>1. Nothing \in Seq(Events) /\ Free(Nothing, FromOutside)
      /\ Free(Nothing, {"StreamManagerQuitReady"})
  BY SentEvents DEF Counted
<1>2. Handles("StopRecording", Nothing) /\ disconnecting' = (disconnecting \/ stream = "ready")
      /\ UNCHANGED <<thread, info, contextReady, waiting, quitRequested, record, enabled, buffer,
                     streams, packet, context, stream, available>>
  BY DEF HandleStopRecording, managerVars, streamVars, Disconnect
<1>3. TypeOK'
  BY <1>1, <1>2, HandledTyped DEF TypeOK
<1>6. Counted'
  <2>1. /\ NumberOf(queue', {"StartAudioStream"}) = NumberOf(queue, {"StartAudioStream"})
        /\ queue' \in Seq(Events) /\ asked' = asked
    BY <1>1, <1>2, HandledTyped
  <2>. QED
    BY <1>2, <2>1 DEF Counted
<1>4. QuitIsLast'
  BY <1>1, <1>2, HandledQuit DEF QuitIsLast
<1>5. EndIsLast'
  BY <1>1, <1>2, HandledEnd DEF EndIsLast
<1>7. BufferIsOfTheStream'
  BY <1>2 DEF BufferIsOfTheStream, PacketsAreOfTheirStream
<1>. QED
  BY <1>3, <1>4, <1>5, <1>6, <1>7

LEMMA RequestQuitStep ==
  ASSUME PulseInvariant, HandleRequestQuit
  PROVE  PulseInvariant'
<1>. USE DEF PulseInvariant
<1>. DEFINE f == IF record = 0 THEN <<"StreamManagerQuitReady">> ELSE Nothing
<1>1. f \in Seq(Events) /\ Free(f, FromOutside)
  BY SentEvents DEF Counted
<1>2. Handles("RequestQuit", f) /\ disconnecting' = (disconnecting \/ stream = "ready")
      /\ quitRequested' = TRUE
      /\ UNCHANGED <<thread, info, contextReady, waiting, record, enabled, buffer,
                     streams, packet, context, stream, available>>
  BY DEF HandleRequestQuit, streamVars, Disconnect
<1>3. PICK further \in Seq(Events) : further = f
  BY <1>1
<1>. HIDE DEF f
<1>20. TypeOK'
  BY <1>1, <1>2, <1>3, HandledTyped DEF TypeOK
<1>21. Counted'
  <2>1. /\ NumberOf(queue', {"StartAudioStream"}) = NumberOf(queue, {"StartAudioStream"})
        /\ queue' \in Seq(Events) /\ asked' = asked
    BY <1>1, <1>2, HandledTyped
  <2>. QED
    BY <1>2, <1>3, <2>1 DEF Counted
<1>22. QuitIsLast'
  BY <1>1, <1>2, <1>3, HandledQuit DEF QuitIsLast
<1>23. EndIsLast'
  BY <1>1, <1>2, <1>3, HandledEnd DEF EndIsLast
<1>24. BufferIsOfTheStream'
  BY <1>1, <1>2, <1>3 DEF BufferIsOfTheStream, PacketsAreOfTheirStream
<1>. QED
  BY <1>20, <1>21, <1>22, <1>23, <1>24

LEMMA StreamManagerQuitReadyStep ==
  ASSUME PulseInvariant, HandleStreamManagerQuitReady
  PROVE  PulseInvariant'
<1>. USE DEF PulseInvariant
<1>1. PICK f : /\ Handles("StreamManagerQuitReady", f) /\ f \in {Nothing, <<"ContextStateChanged">>}
               /\ \/ context = "failed" /\ UNCHANGED context
                  \/ context # "failed" /\ context' = "terminated"
  BY DEF HandleStreamManagerQuitReady
<1>2. f \in Seq(Events) /\ Free(f, FromOutside) /\ Free(f, {"StreamManagerQuitReady"})
  BY <1>1, SentEvents DEF Counted
<1>3. UNCHANGED <<thread, info, contextReady, waiting, quitRequested, record, enabled, buffer,
                  streams, packet, stream, disconnecting, available>>
  BY DEF HandleStreamManagerQuitReady, managerVars, streamVars
<1>20. TypeOK'
  BY <1>1, <1>2, <1>3, HandledTyped DEF TypeOK
<1>21. Counted'
  <2>1. /\ NumberOf(queue', {"StartAudioStream"}) = NumberOf(queue, {"StartAudioStream"})
        /\ queue' \in Seq(Events) /\ asked' = asked
    BY <1>1, <1>2, HandledTyped
  <2>. QED
    BY <1>2, <1>3, <2>1 DEF Counted
<1>22. QuitIsLast'
  BY <1>1, <1>2, <1>3, HandledQuit DEF QuitIsLast
<1>23. EndIsLast'
  BY <1>1, <1>2, <1>3, HandledEnd DEF EndIsLast
<1>24. BufferIsOfTheStream'
  BY <1>1, <1>2, <1>3 DEF BufferIsOfTheStream, PacketsAreOfTheirStream
<1>. QED
  BY <1>20, <1>21, <1>22, <1>23, <1>24

LEMMA ContextStateChangeStep ==
  ASSUME PulseInvariant, HandleContextStateChange
  PROVE  PulseInvariant'
<1>. USE DEF PulseInvariant
<1>0. waiting \in Nat /\ asked.stream \in 0..MaxStarts
  BY DEF Counted
<1>1. PICK f : /\ Handles("ContextStateChanged", f)
               /\ f \in {[i \in 1..waiting |-> "StartRecording"], <<"PAQuitReady">>, Nothing}
  BY DEF HandleContextStateChange
<1>2. f \in Seq(Events) /\ Free(f, FromOutside) /\ Free(f, {"StreamManagerQuitReady"})
  BY <1>0, <1>1, SentEvents
<1>3. /\ contextReady' = (context = "ready") /\ waiting' \in {0, waiting}
      /\ UNCHANGED <<thread, info, quitRequested, record, enabled, buffer,
                     streams, packet, context, stream, disconnecting, available>>
  BY DEF HandleContextStateChange, pulseVars, streamVars
<1>4. Counted'
  <2>1. /\ NumberOf(queue', {"StartAudioStream"}) = NumberOf(queue, {"StartAudioStream"})
        /\ NumberOf(queue, {"StartAudioStream"}) \in Nat
        /\ queue' \in Seq(Events) /\ asked' = asked
    BY <1>1, <1>2, HandledTyped
  <2>. QED
    BY <1>0, <1>3, <2>1 DEF Counted
<1>6. TypeOK'
  <2>1. waiting' \in 0..MaxStarts
    BY <1>3, RecordingBounds DEF TypeOK
  <2>. QED
    BY <1>1, <1>2, <1>3, <2>1, HandledTyped DEF TypeOK
<1>5. QuitIsLast'
  BY <1>1, <1>2, <1>3, HandledQuit DEF QuitIsLast
<1>7. EndIsLast'
  BY <1>1, <1>2, <1>3, HandledEnd DEF EndIsLast
<1>8. BufferIsOfTheStream'
  BY <1>3 DEF BufferIsOfTheStream, PacketsAreOfTheirStream
<1>. QED
  BY <1>4, <1>5, <1>6, <1>7, <1>8

LEMMA PAQuitReadyStep ==
  ASSUME PulseInvariant, HandlePAQuitReady
  PROVE  PulseInvariant'
<1>. USE DEF PulseInvariant
<1>1. Nothing \in Seq(Events) /\ Free(Nothing, FromOutside)
      /\ Free(Nothing, {"StreamManagerQuitReady"})
  BY SentEvents DEF Counted
<1>2. Handles("PAQuitReady", Nothing) /\ thread' = "ended"
      /\ UNCHANGED <<info, contextReady, waiting, quitRequested, record, enabled, buffer,
                     streams, packet, context, stream, disconnecting, available>>
  BY DEF HandlePAQuitReady, managerVars, streamVars, pulseVars
<1>20. TypeOK'
  BY <1>1, <1>2, HandledTyped DEF TypeOK
<1>21. Counted'
  <2>1. /\ NumberOf(queue', {"StartAudioStream"}) = NumberOf(queue, {"StartAudioStream"})
        /\ queue' \in Seq(Events) /\ asked' = asked
    BY <1>1, <1>2, HandledTyped
  <2>. QED
    BY <1>2, <2>1 DEF Counted
<1>22. QuitIsLast'
  BY <1>1, <1>2, HandledQuit DEF QuitIsLast
<1>23. EndIsLast'
  BY <1>1, <1>2, HandledEnd DEF EndIsLast
<1>24. BufferIsOfTheStream'
  BY <1>1, <1>2 DEF BufferIsOfTheStream, PacketsAreOfTheirStream
<1>. QED
  BY <1>20, <1>21, <1>22, <1>23, <1>24

(* A stream's event finds the stream, or the context has failed; behind    *)
(* its end there is no other.                                              *)
LEMMA StreamStateChangeStep ==
  ASSUME PulseInvariant, HandleStreamStateChange
  PROVE  PulseInvariant'
<1>. USE DEF PulseInvariant
<1>1. PICK f : /\ Handles("StreamStateChange", f)
               /\ \/ f = Nothing
                  \/ f = <<"StreamManagerQuitReady">> /\ quitRequested
  BY DEF HandleStreamStateChange
<1>2. f \in Seq(Events) /\ Free(f, FromOutside)
      /\ (~quitRequested => Free(f, {"StreamManagerQuitReady"}))
  BY <1>1, SentEvents DEF Counted
<1>3. /\ thread' = (IF record = 0 THEN "panicked" ELSE thread)
      /\ record' = (IF stream = "terminated" THEN 0 ELSE record)
      /\ UNCHANGED <<info, contextReady, waiting, quitRequested, enabled, buffer,
                     streams, packet, context, stream, disconnecting, available>>
  BY DEF HandleStreamStateChange, Unwrap, managerVars, pulseVars
<1>4. record = 0 => context = "failed"
  BY <1>1, <1>2, HandledEnd DEF StreamEvents
<1>5. TypeOK'
  BY <1>1, <1>2, <1>3, HandledTyped DEF TypeOK
<1>6. Counted'
  <2>1. /\ NumberOf(queue', {"StartAudioStream"}) = NumberOf(queue, {"StartAudioStream"})
        /\ queue' \in Seq(Events) /\ asked' = asked
    BY <1>1, <1>2, HandledTyped
  <2>. QED
    BY <1>2, <1>3, <2>1 DEF Counted
<1>7. QuitIsLast'
  BY <1>1, <1>2, <1>3, HandledQuit DEF QuitIsLast
<1>8. BufferIsOfTheStream'
  BY <1>3 DEF BufferIsOfTheStream, PacketsAreOfTheirStream
<1>9. EndIsLast'
  BY <1>1, <1>2, <1>3, <1>4, HandledEnd DEF EndIsLast
<1>. QED
  BY <1>5, <1>6, <1>7, <1>8, <1>9

(* What the stream there is recorded joins what was recorded of it.        *)
LEMMA FragmentsRead ==
  ASSUME NEW b \in Seq(Nat), NEW n \in Nat, NEW r \in Nat
  PROVE  /\ b \o [i \in 1..n |-> r] \in Seq(Nat)
         /\ Len(b \o [i \in 1..n |-> r]) = Len(b) + n
         /\ (\A i \in 1..Len(b) : b[i] = r) =>
               \A i \in 1..Len(b) + n : (b \o [j \in 1..n |-> r])[i] = r
<1>. DEFINE f == [i \in 1..n |-> r]
<1>1. f \in Seq(Nat) /\ Len(f) = n
  <2>1. f \in [1..n -> Nat]
    OBVIOUS
  <2>. HIDE DEF f
  <2>. QED
    BY <2>1, SequenceOf
<1>2. \A i \in 1..n : f[i] = r
  OBVIOUS
<1>. HIDE DEF f
<1>3. /\ b \o f \in Seq(Nat) /\ Len(b \o f) = Len(b) + n /\ Len(b) \in Nat
      /\ \A i \in 1..Len(b) + n : (b \o f)[i] = IF i <= Len(b) THEN b[i] ELSE f[i - Len(b)]
  BY <1>1, ConcatProperties, LenProperties
<1>4. ASSUME \A i \in 1..Len(b) : b[i] = r, NEW i \in 1..Len(b) + n PROVE (b \o f)[i] = r
  <2>1. CASE i <= Len(b)
    BY <1>3, <1>4, <2>1
  <2>2. CASE ~(i <= Len(b))
    <3>1. i - Len(b) \in 1..n
      BY <1>3, <2>2
    <3>. QED
      BY <1>2, <1>3, <2>2, <3>1
  <2>. QED
    BY <2>1, <2>2
<1>. QED
  BY <1>3, <1>4 DEF f

LEMMA ReadStep ==
  ASSUME PulseInvariant, HandleRead
  PROVE  PulseInvariant'
<1>. USE DEF PulseInvariant
<1>1. Nothing \in Seq(Events) /\ Free(Nothing, FromOutside)
      /\ Free(Nothing, {"StreamManagerQuitReady"})
  BY SentEvents DEF Counted
<1>2. /\ Handles("Read", Nothing) /\ thread' = (IF record = 0 THEN "panicked" ELSE thread)
      /\ UNCHANGED <<info, contextReady, waiting, quitRequested, record, streams, context, stream>>
  BY DEF HandleRead, Unwrap, managerVars
<1>3. record = 0 => context = "failed"
  BY <1>1, <1>2, HandledEnd DEF StreamEvents
<1>4. /\ NumberOf(queue', {"StartAudioStream"}) = NumberOf(queue, {"StartAudioStream"})
      /\ queue' \in Seq(Events) /\ asked' = asked
  BY <1>1, <1>2, HandledTyped
<1>. DEFINE read == buffer \o [i \in 1..available |-> record]
<1>5. \/ UNCHANGED <<enabled, buffer, packet, disconnecting, available>>
      \/ /\ enabled' = FALSE /\ disconnecting' = (disconnecting \/ stream = "ready")
         /\ UNCHANGED <<buffer, packet, available>>
      \/ /\ record # 0 /\ enabled /\ available' = 0
         /\ Len(read) < PacketFragments /\ buffer' = read
         /\ UNCHANGED <<enabled, packet, disconnecting>>
      \/ /\ record # 0 /\ enabled /\ available' = 0
         /\ packet' = [fragments |-> read, to |-> record]
         /\ buffer' = <<>> /\ UNCHANGED <<enabled, disconnecting>>
      \/ /\ record # 0 /\ enabled /\ available' = 0
         /\ packet' = [fragments |-> read, to |-> record]
         /\ buffer' = read /\ enabled' = FALSE
         /\ disconnecting' = (disconnecting \/ stream = "ready")
  BY DEF HandleRead, SendsPacket, Disconnect
<1>6. record \in Nat /\ available \in Nat /\ buffer \in Seq(Nat) /\ Len(buffer) \in Nat
  BY PacketAssumption DEF TypeOK, Counted
<1>7. /\ read \in Seq(Nat) /\ Len(read) = Len(buffer) + available
      /\ record # 0 => \A i \in 1..Len(read) : read[i] = record
  BY <1>6, FragmentsRead DEF BufferIsOfTheStream
<1>8. <<>> \in Seq(Nat) /\ Len(<<>>) = 0 /\ 1..Len(<<>>) = {}
  BY EmptySeq
<1>. HIDE DEF read
<1>14. /\ available \in 0..PacketFragments /\ PacketFragments \in Nat \ {0}
       /\ Len(buffer) <= PacketFragments /\ (enabled => Len(buffer) < PacketFragments)
       /\ enabled => available + Len(buffer) <= PacketFragments
  BY PacketAssumption DEF TypeOK, Counted
<1>9. /\ buffer' \in Seq(Nat) /\ available' \in 0..PacketFragments
      /\ Len(buffer') <= PacketFragments /\ (enabled' => Len(buffer') < PacketFragments)
      /\ enabled' => available' + Len(buffer') <= PacketFragments
  <2>1. CASE UNCHANGED <<buffer, available>> /\ (enabled' => enabled)
    BY <1>6, <1>14, <2>1
  <2>2. CASE available' = 0 /\ buffer' = <<>>
    BY <1>8, <1>14, <2>2
  <2>3. CASE available' = 0 /\ buffer' = read /\ enabled /\ (enabled' => Len(read) < PacketFragments)
    BY <1>6, <1>7, <1>14, <2>3
  <2>. QED
    BY <1>5, <2>1, <2>2, <2>3
<1>10. TypeOK'
  <2>1. disconnecting' => stream' = "ready"
    <3>1. disconnecting => stream = "ready"
      BY DEF TypeOK
    <3>. QED
      BY <1>2, <1>5, <3>1
  <2>2. thread' \in {"running", "ended", "panicked"}
    BY <1>2 DEF TypeOK
  <2>. QED
    BY <1>1, <1>2, <1>9, <2>1, <2>2, HandledTyped DEF TypeOK
<1>11. Counted'
  BY <1>2, <1>4, <1>9 DEF Counted
<1>12. QuitIsLast' /\ EndIsLast'
  <2>1. QuitIsLast'
    BY <1>1, <1>2, HandledQuit DEF QuitIsLast
  <2>2. EndIsLast'
    BY <1>1, <1>2, <1>3, <1>5, HandledEnd DEF EndIsLast
  <2>. QED
    BY <2>1, <2>2
<1>13. BufferIsOfTheStream'
  <2>1. record # 0 => \A i \in 1..Len(buffer') : buffer'[i] = record
    BY <1>5, <1>7, <1>8 DEF BufferIsOfTheStream
  <2>2. PacketsAreOfTheirStream'
    <3>1. DOMAIN read = 1..Len(read)
      BY <1>7
    <3>. QED
      BY <1>5, <1>7, <3>1 DEF BufferIsOfTheStream, PacketsAreOfTheirStream
  <2>. QED
    BY <1>2, <2>1, <2>2 DEF BufferIsOfTheStream
<1>. QED
  BY <1>10, <1>11, <1>12, <1>13
-----------------------------------------------------------------------------
(* What is added to the queue while the loop waits.                        *)
LEMMA AskStep ==
  ASSUME PulseInvariant, AudioManager
  PROVE  PulseInvariant'
<1>. USE DEF PulseInvariant
<1>1. PICK event \in {"StartRecording", "StartAudioStream", "StopRecording", "RequestQuit"} :
         /\ Asks(event)
         /\ \/ event = "StartAudioStream" /\ asked.stream < MaxStarts
               /\ asked' = [asked EXCEPT !.stream = @ + 1]
            \/ event # "StartAudioStream" /\ event # "RequestQuit"
               /\ \/ asked' = [asked EXCEPT !.recording = @ + 1]
                  \/ asked' = [asked EXCEPT !.stop = @ + 1]
            \/ event = "RequestQuit" /\ asked' = [asked EXCEPT !.quit = TRUE]
  BY DEF AudioManager, AskRecording, AskStream, AskStop, AskQuit
<1>2. /\ ~asked.quit /\ queue' = Append(queue, event)
      /\ UNCHANGED <<thread, draining, info, contextReady, waiting, quitRequested,
                     record, enabled, buffer, streams, packet,
                     context, stream, disconnecting, available>>
  BY <1>1 DEF Asks, managerVars, streamVars, pulseVars
<1>3. event \in Events /\ queue \in Seq(Events) /\ <<event>> \in Seq(Events)
  BY DEF Events, Counted
<1>4. queue' = queue \o <<event>> /\ queue' \in Seq(Events) /\ Len(queue') = Len(queue) + 1
      /\ Len(queue) \in Nat
  BY <1>2, <1>3, AppendIsConcat, Extended
<1>5. \A S : event \notin S => Free(<<event>>, S)
  BY FreeSimple
<1>6. /\ asked' \in [recording : Nat, stream : 0..MaxStarts, stop : Nat, quit : BOOLEAN]
      /\ asked.stream \in Nat
      /\ asked'.stream = (IF event = "StartAudioStream" THEN asked.stream + 1 ELSE asked.stream)
      /\ asked'.quit = (event = "RequestQuit")
  <2>1. /\ asked \in [recording : Nat, stream : 0..MaxStarts, stop : Nat, quit : BOOLEAN]
        /\ MaxStarts \in Nat /\ asked.quit = FALSE
    BY <1>2, RecordingBounds DEF Counted
  <2>2. CASE event = "StartAudioStream"
    BY <1>1, <2>1, <2>2
  <2>3. CASE event = "RequestQuit"
    <3>1. asked' = [asked EXCEPT !.quit = TRUE]
      BY <1>1, <2>3
    <3>2. /\ asked' \in [recording : Nat, stream : 0..MaxStarts, stop : Nat, quit : BOOLEAN]
          /\ asked'.stream = asked.stream /\ asked'.quit = TRUE /\ asked.stream \in Nat
      <4>1. \A q \in BOOLEAN, a \in [recording : Nat, stream : 0..MaxStarts, stop : Nat, quit : BOOLEAN] :
               /\ [a EXCEPT !.quit = q] \in [recording : Nat, stream : 0..MaxStarts, stop : Nat,
                                            quit : BOOLEAN]
               /\ [a EXCEPT !.quit = q].stream = a.stream /\ [a EXCEPT !.quit = q].quit = q
        OBVIOUS
      <4>2. asked.stream \in Nat
        BY <2>1
      <4>. QED
        BY <2>1, <3>1, <4>1, <4>2, Zenon
    <3>. QED
      BY <2>3, <3>2
  <2>4. CASE event \notin {"StartAudioStream", "RequestQuit"}
    <3>1. CASE asked' = [asked EXCEPT !.recording = @ + 1]
      BY <2>1, <2>4, <3>1
    <3>2. CASE asked' = [asked EXCEPT !.stop = @ + 1]
      BY <2>1, <2>4, <3>2
    <3>. QED
      BY <1>1, <2>4, <3>1, <3>2
  <2>. QED
    BY <2>2, <2>3, <2>4
<1>7. /\ NumberOf(queue', {"StartAudioStream"})
           = IF event = "StartAudioStream" THEN NumberOf(queue, {"StartAudioStream"}) + 1
                                           ELSE NumberOf(queue, {"StartAudioStream"})
      /\ NumberOf(queue, {"StartAudioStream"}) \in Nat
  BY <1>2, <1>3, NumberOfAppend, PositionsFinite
<1>8. \A S : event \notin S =>
         /\ Free(queue, S) => Free(queue', S)
         /\ \A E : NoneAfter(queue, E, S) => NoneAfter(queue', E, S)
  BY <1>3, <1>4, <1>5, EventsJoin
<1>9. TypeOK'
  <2>1. \A i \in DOMAIN queue' : queue'[i] \in Events
    BY <1>4
  <2>2. queue' # <<>>
    BY <1>4, EmptySeq
  <2>. QED
    BY <1>2, <2>1, <2>2 DEF TypeOK
<1>10. Counted'
  <2>1. NumberOf(queue', {"StartAudioStream"}) + waiting' + streams' <= asked'.stream
    <3>1. /\ NumberOf(queue, {"StartAudioStream"}) + waiting + streams <= asked.stream
          /\ waiting \in Nat /\ streams \in Nat /\ UNCHANGED <<waiting, streams>>
      BY <1>2 DEF Counted
    <3>. QED
      BY <1>6, <1>7, <3>1
  <2>. QED
    BY <1>2, <1>4, <1>6, <2>1 DEF Counted
<1>11. QuitIsLast'
  <2>1. Free(queue, {"RequestQuit"}) /\ ~quitRequested
    BY <1>2 DEF QuitIsLast
  <2>2. NoneAfter(queue', {"RequestQuit"}, {"StartAudioStream"})
    BY <1>3, <1>4, <2>1, LastOfItsKind
  <2>3. ~asked'.quit => Free(queue', {"RequestQuit"})
    BY <1>6, <1>8, <2>1
  <2>4. Free(queue', {"StreamManagerQuitReady"})
    BY <1>8, <2>1 DEF QuitIsLast
  <2>. QED
    BY <1>2, <2>1, <2>2, <2>3, <2>4 DEF QuitIsLast
<1>12. EndIsLast' /\ BufferIsOfTheStream'
  <2>1. event \notin StreamEvents /\ event \notin {"StreamStateChange"}
    BY DEF StreamEvents
  <2>. QED
    BY <1>2, <1>8, <2>1 DEF EndIsLast, BufferIsOfTheStream, PacketsAreOfTheirStream
<1>. QED
  BY <1>9, <1>10, <1>11, <1>12

(* What PulseAudio reports, and what the invariant says of the queue then. *)
LEMMA QueueReported ==
  ASSUME PulseInvariant, NEW f \in Seq(Events), Reports(f), f # <<>>,
         Free(f, {"StartAudioStream", "RequestQuit", "StreamManagerQuitReady"})
  PROVE  /\ thread = "running" /\ ~draining /\ queue' \in Seq(Events) /\ queue' = queue \o f
         /\ UNCHANGED <<thread, draining, info, contextReady, waiting, quitRequested,
                        record, enabled, buffer, streams, packet, asked>>
         /\ NumberOf(queue', {"StartAudioStream"}) = NumberOf(queue, {"StartAudioStream"})
         /\ (UNCHANGED context \/ context' \in {"ready", "failed"}) => QuitIsLast'
         /\ \A S : Free(f, S) =>
               /\ Free(queue, S) => Free(queue', S)
               /\ \A E : NoneAfter(queue, E, S) => NoneAfter(queue', E, S)
<1>. USE DEF PulseInvariant
<1>1. /\ thread = "running" /\ ~draining /\ queue' = queue \o f
      /\ UNCHANGED <<thread, draining, info, contextReady, waiting, quitRequested,
                     record, enabled, buffer, streams, packet, asked>>
  BY DEF Reports, managerVars, streamVars
<1>2. queue \in Seq(Events)
  BY DEF Counted
<1>3. /\ queue' \in Seq(Events)
      /\ \A S : Free(f, S) =>
               /\ Free(queue, S) => Free(queue', S)
               /\ \A E : NoneAfter(queue, E, S) => NoneAfter(queue', E, S)
               /\ NumberOf(queue', S) = NumberOf(queue, S)
  BY <1>1, <1>2, EventsJoin
<1>4. /\ Free(f, {"StartAudioStream"}) /\ Free(f, {"RequestQuit"})
      /\ Free(f, {"StreamManagerQuitReady"})
  BY DEF Free
<1>5. (UNCHANGED context \/ context' \in {"ready", "failed"}) => QuitIsLast'
  BY <1>1, <1>3, <1>4 DEF QuitIsLast
<1>. QED
  BY <1>1, <1>3, <1>4, <1>5

(* PulseAudio acts while the loop waits: the end of a stream was asked for *)
(* when the queue was last emptied, and is the only change told since.     *)
LEMMA PulseAudioStep ==
  ASSUME PulseInvariant, PulseAudio
  PROVE  PulseInvariant'
<1>. USE DEF PulseInvariant
<1>1. \A S : \A x : Free(<<x>>, S) <=> x \notin S
  BY FreeSimple
<1>. DEFINE Old == {"StartAudioStream", "RequestQuit", "StreamManagerQuitReady"}
<1>2. ASSUME NEW f \in Seq(Events), f # <<>>, Reports(f), Free(f, Old)
      PROVE  /\ \A i \in DOMAIN queue' : queue'[i] \in Events
             /\ draining' => queue' # <<>>
             /\ available' \in 0..PacketFragments
                /\ (enabled => available' + Len(buffer) <= PacketFragments) => Counted'
             /\ BufferIsOfTheStream'
  <2>1. /\ ~draining' /\ queue' \in Seq(Events)
        /\ UNCHANGED <<waiting, record, enabled, buffer, streams, packet, asked>>
        /\ NumberOf(queue', {"StartAudioStream"}) = NumberOf(queue, {"StartAudioStream"})
    BY <1>2, QueueReported
  <2>. QED
    BY <2>1 DEF Counted, BufferIsOfTheStream, PacketsAreOfTheirStream
<1>3. /\ \A e \in {"ContextStateChanged", "StreamStateChange", "Read"} :
            <<e>> \in Seq(Events) /\ <<e>> # <<>> /\ Free(<<e>>, Old)
      /\ Free(<<"ContextStateChanged">>, StreamEvents)
      /\ Free(<<"ContextStateChanged">>, {"StreamStateChange"})
      /\ Free(<<"Read">>, {"StreamStateChange"})
  BY <1>1 DEF Events, StreamEvents
<1>4. /\ <<"ContextStateChanged", "StreamStateChange">> \in Seq(Events)
      /\ <<"ContextStateChanged", "StreamStateChange">> # <<>>
      /\ Free(<<"ContextStateChanged", "StreamStateChange">>, Old)
  BY DEF Events, Free
<1>5. /\ available \in 0..PacketFragments /\ Len(buffer) \in Nat
      /\ enabled => available + Len(buffer) <= PacketFragments
  BY LenProperties DEF TypeOK, Counted
<1>. HIDE DEF Old
<1>6. CASE ContextAdvances
  <2>1. /\ Reports(<<"ContextStateChanged">>) /\ context = "connecting"
        /\ context' \in {"connecting", "ready"} /\ UNCHANGED <<stream, disconnecting, available>>
    BY <1>6 DEF ContextAdvances
  <2>2. QuitIsLast' /\ Counted' /\ BufferIsOfTheStream'
    BY <1>2, <1>3, <1>5, <2>1, QueueReported DEF Old
  <2>3. TypeOK'
    BY <1>2, <1>3, <2>1, QueueReported DEF Old, TypeOK
  <2>4. EndIsLast'
    BY <1>3, <2>1, QueueReported DEF Old, EndIsLast
  <2>. QED
    BY <2>2, <2>3, <2>4
<1>7. CASE ContextFails
  <2>1. PICK f : /\ f \in {<<"ContextStateChanged">>, <<"ContextStateChanged", "StreamStateChange">>}
                 /\ Reports(f) /\ context' = "failed" /\ disconnecting' = FALSE
                 /\ UNCHANGED available
                 /\ \/ stream \in {"creating", "ready"} /\ stream' = "failed"
                    \/ UNCHANGED stream
    BY <1>7 DEF ContextFails
  <2>2. f \in Seq(Events) /\ f # <<>> /\ Free(f, Old)
    BY <1>3, <1>4, <2>1
  <2>3. QuitIsLast' /\ Counted' /\ BufferIsOfTheStream'
    BY <1>2, <1>5, <2>1, <2>2, QueueReported DEF Old
  <2>4. TypeOK'
    BY <1>2, <2>1, <2>2, QueueReported DEF Old, TypeOK
  <2>5. EndIsLast'
    BY <2>1, <2>2, QueueReported DEF EndIsLast, Old
  <2>. QED
    BY <2>3, <2>4, <2>5
<1>8. CASE StreamIsReady \/ StreamFails \/ StreamEnds
  <2>1. /\ Reports(<<"StreamStateChange">>) /\ disconnecting' = FALSE
        /\ UNCHANGED <<context, available>>
        /\ stream \in {"creating", "ready"} /\ stream' \in {"ready", "failed", "terminated"}
        /\ stream' = "terminated" => disconnecting
    BY <1>8 DEF StreamIsReady, StreamFails, StreamEnds, StreamChanges
  <2>2. QuitIsLast' /\ Counted' /\ BufferIsOfTheStream'
    BY <1>2, <1>3, <1>5, <2>1, QueueReported DEF Old
  <2>3. TypeOK'
    BY <1>2, <1>3, <2>1, QueueReported DEF Old, TypeOK
  <2>4. record # 0
    BY <2>1 DEF TypeOK
  <2>5. stream' = "terminated" => NoneAfter(queue', {"StreamStateChange"}, StreamEvents)
    <3>1. /\ queue' = queue \o <<"StreamStateChange">> /\ ~draining /\ queue \in Seq(Events)
          /\ "StreamStateChange" \in Events
      BY <1>3, <2>1, QueueReported DEF Old, Counted, Events
    <3>2. disconnecting => Free(queue, {"StreamStateChange"})
      BY <3>1 DEF EndIsLast
    <3>. QED
      BY <2>1, <3>1, <3>2, LastOfItsKind
  <2>6. UNCHANGED <<thread, record, context>> /\ disconnecting' = FALSE
    BY <1>3, <2>1, QueueReported DEF Old
  <2>7. EndIsLast'
    BY <2>4, <2>5, <2>6 DEF EndIsLast
  <2>. QED
    BY <2>2, <2>3, <2>7
<1>9. CASE FragmentArrives
  <2>1. /\ Reports(<<"Read">>) /\ UNCHANGED <<context, stream, disconnecting>>
        /\ stream = "ready" /\ available' = available + 1
        /\ available = 0 \/ available + Len(buffer) < PacketFragments
    BY <1>9 DEF FragmentArrives
  <2>2. /\ available' \in 0..PacketFragments
        /\ enabled => available' + Len(buffer) <= PacketFragments
    <3>1. /\ PacketFragments \in Nat \ {0} /\ (enabled => Len(buffer) < PacketFragments)
      BY PacketAssumption DEF TypeOK
    <3>. QED
      BY <1>5, <2>1, <3>1
  <2>3. QuitIsLast' /\ Counted' /\ BufferIsOfTheStream'
    BY <1>2, <1>3, <2>1, <2>2, QueueReported DEF Old
  <2>4. TypeOK'
    BY <1>2, <1>3, <2>1, <2>2, QueueReported DEF Old, TypeOK
  <2>5. record # 0
    BY <2>1 DEF TypeOK
  <2>6. disconnecting /\ ~draining => Free(queue', {"StreamStateChange"})
    BY <1>3, <2>1, QueueReported DEF Old, EndIsLast
  <2>7. UNCHANGED <<thread, draining, record, context, stream, disconnecting>>
    BY <1>3, <2>1, QueueReported DEF Old
  <2>8. EndIsLast'
    BY <2>1, <2>5, <2>6, <2>7 DEF EndIsLast
  <2>. QED
    BY <2>3, <2>4, <2>8
<1>. QED
  BY <1>6, <1>7, <1>8, <1>9 DEF PulseAudio

LEMMA PulseStep == PulseInvariant /\ [Next]_vars => PulseInvariant'
<1>. SUFFICES ASSUME PulseInvariant, [Next]_vars PROVE PulseInvariant'
  OBVIOUS
<1>1. CASE UNCHANGED vars
  BY <1>1 DEF vars, managerVars, streamVars, pulseVars, PulseInvariant, TypeOK, Counted,
              QuitIsLast, EndIsLast, BufferIsOfTheStream, PacketsAreOfTheirStream
<1>2. CASE MainLoop
  BY <1>2, StartRecordingStep, StartAudioStreamStep, StopRecordingStep, RequestQuitStep,
     StreamManagerQuitReadyStep, ContextStateChangeStep, PAQuitReadyStep,
     StreamStateChangeStep, ReadStep DEF MainLoop
<1>. QED
  BY <1>1, <1>2, AskStep, PulseAudioStep DEF Next

LEMMA PulseInductive == Spec => []PulseInvariant
BY PulseStart, PulseStep, PTL DEF Spec, PulseInvariant

(* The thread's view of its stream, the packet under construction and the  *)
(* counters of every run keep to their types (pulseaudio/stream.rs).       *)
THEOREM RecordingTypeCorrect == Spec => []TypeOK
<1>1. PulseInvariant => TypeOK
  BY DEF PulseInvariant
<1>. QED
  BY <1>1, PulseInductive, PTL

(* None of the unwraps of the record and of connect_record's result        *)
(* (stream.rs:144, 173, 322) panics while PulseAudio's context is there,   *)
(* in whatever order requests and callbacks are queued.                    *)
THEOREM NoPanicWithContext == Spec => []PanicsOnlyWithoutContext
<1>1. PulseInvariant => PanicsOnlyWithoutContext
  BY DEF PulseInvariant, EndIsLast, PanicsOnlyWithoutContext
<1>. QED
  BY <1>1, PulseInductive, PTL

(* No packet mixes the audio of two streams, for packets of any size and   *)
(* any number of starts and stops (stream.rs:161-166, 253-269).            *)
THEOREM PacketsOfOneStream == Spec => []PacketsAreOfTheirStream
<1>1. PulseInvariant => PacketsAreOfTheirStream
  BY DEF PulseInvariant, BufferIsOfTheStream
<1>. QED
  BY <1>1, PulseInductive, PTL
=============================================================================
