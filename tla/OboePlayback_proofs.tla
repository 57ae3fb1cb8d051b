------------------------ MODULE OboePlayback_proofs ------------------------
(***************************************************************************)
(* Proofs about module OboePlayback, for every size of the block queue and *)
(* every number of attempts, blocks, packets and requests.                 *)
(***************************************************************************)
EXTENDS OboePlayback, QueueLemmas

(* What the flags stand for.  The flags' part of TypeOK is not inductive:  *)
(* Oboe must be closed only after its reader was joined, which the clauses *)
(* about "joining" and "closing" add.                                      *)
FlagsOK ==
    /\ logic \in {"receive", "joining", "closing", "ended"}
    /\ mode \in {"none", "direct", "callback"}
    /\ callback \in {"off", "idle", "waiting", "stopped"}
    /\ reader \in {"none", "starting", "reading", "sending", "draining", "waitQuit", "ended"}
    /\ running \in BOOLEAN /\ cppRunning \in BOOLEAN
    /\ running <=> reader # "none"
    /\ running => mode = "callback"
    /\ cppRunning <=> mode # "none"
    /\ logic = "joining" => mode = "callback"
    /\ logic = "closing" => mode # "none" /\ ~running

LEMMA FlagsStart == Init => FlagsOK
BY DEF Init, FlagsOK

LEMMA FlagsStep ==
  ASSUME FlagsOK, [Next]_vars
  PROVE  FlagsOK'
<1>. DEFINE flagged == <<logic, mode, callback, reader, running, cppRunning>>
<1>0. ASSUME UNCHANGED flagged PROVE FlagsOK'
  BY <1>0 DEF FlagsOK
<1>1. CASE AudioManager
  <2>1. UNCHANGED flagged
    BY <1>1 DEF AudioManager, AskPlay, AskStop, TimerTick, AskQuit, Asks,
                logicVars, cbVars, readerVars, flags
  <2>. QED
    BY <2>1, <1>0
<1>2. CASE PlayCallbackMode
  <2>1. ~running /\ ~cppRunning
    BY <1>2 DEF PlayCallbackMode, FlagsOK
  <2>. QED
    BY <1>2, <2>1 DEF PlayCallbackMode, PanicOnFlag, Receives, StartsStream, FlagsOK
<1>3. CASE PlayDirectMode
  <2>1. ~running /\ ~cppRunning
    BY <1>3 DEF PlayDirectMode, FlagsOK
  <2>2. /\ logic = "receive" /\ mode' = "direct" /\ callback' = "idle"
        /\ cppRunning' = TRUE /\ UNCHANGED <<logic, reader, running>>
    BY <1>3, <2>1 DEF PlayDirectMode, PanicOnFlag, Receives, StartsStream,
                      readerVars, flags
  <2>. QED
    BY <2>1, <2>2 DEF FlagsOK
<1>4. ASSUME NEW event, NEW last \in BOOLEAN, Receives(event), BeginQuit(last),
             UNCHANGED <<mode, callback, reader, running, cppRunning>>
      PROVE  FlagsOK'
  BY <1>4 DEF Receives, BeginQuit, FlagsOK
<1>5. CASE HandleStop
  BY <1>5, <1>4 DEF HandleStop, cbVars, readerVars
<1>6. CASE HandleQuit
  BY <1>6, <1>4 DEF HandleQuit, cbVars, readerVars
<1>7. CASE HandleReaderError
  BY <1>7, <1>4 DEF HandleReaderError, cbVars, readerVars
<1>8. CASE HandleTick
  <2>1. UNCHANGED <<mode, callback, reader, running, cppRunning>>
    BY <1>8 DEF HandleTick, cbVars, readerVars
  <2>2. CASE BeginQuit(FALSE)
    BY <1>8, <2>1, <2>2, <1>4 DEF HandleTick
  <2>3. CASE UNCHANGED logic
    BY <2>1, <2>3, <1>0
  <2>. QED
    BY <1>8, <2>2, <2>3 DEF HandleTick
<1>9. CASE HandleBufferingDone
  BY <1>9 DEF HandleBufferingDone, logicVars, readerVars, flags, FlagsOK
<1>10. CASE JoinReader
  BY <1>10 DEF JoinReader, Joined, cbVars, FlagsOK
<1>11. CASE CloseOboe
  BY <1>11 DEF CloseOboe, Closed, readerVars, flags, FlagsOK
<1>12. CASE DataReader
  <2>1. UNCHANGED <<logic, mode, callback, running, cppRunning>>
    BY <1>12 DEF DataReader, ReaderStarts, TakePacket, ReadTimesOut, ReadFails,
                 SendBlock, QueueFull, DrainPacket, DrainFails, WaitQuit,
                 ReaderGoes, ReaderElsewhere, logicVars, cbVars
  <2>2. reader # "none"
        /\ reader' \in {"starting", "reading", "sending", "draining", "waitQuit", "ended"}
    BY <1>12 DEF DataReader, ReaderStarts, TakePacket, ReadTimesOut, ReadFails,
                 SendBlock, QueueFull, DrainPacket, DrainFails, WaitQuit,
                 ReaderGoes, FlagsOK
  <2>. QED
    BY <2>1, <2>2 DEF FlagsOK
<1>13. CASE Callback
  <2>1. UNCHANGED <<logic, mode, reader, running, cppRunning>>
        /\ callback' \in {"idle", "waiting", "stopped"}
    BY <1>13 DEF Callback, CallbackCalled, GetBlock, BlocksEnd, GetPacket, GetSilence,
                 StreamFails, CallbackFails, CallbackGoes, CallbackElsewhere,
                 logicVars, readerVars, flags
  <2>. QED
    BY <2>1 DEF FlagsOK
<1>14. CASE PlayRefused \/ Network \/ UNCHANGED vars
  <2>1. UNCHANGED flagged
    BY <1>14 DEF PlayRefused, Network, SendPacket, LosePacket, SwapPackets,
                 NetElsewhere, vars, logicVars, cbVars, readerVars, flags
  <2>. QED
    BY <2>1, <1>0
<1>. QED
  BY <1>1, <1>2, <1>3, <1>5, <1>6, <1>7, <1>8, <1>9, <1>10, <1>11, <1>12, <1>13, <1>14
     DEF Next, OboeThread

(* No flag is ever found set by the thread that is to set it: in whatever  *)
(* order requests, errors of an older stream, ticks and quits arrive, a    *)
(* stream is started only after the one before it is gone (oboe.rs:504,    *)
(* callback_mode.rs:241).                                                  *)
THEOREM NeverPanics == Spec => []NoPanic
<1>1. FlagsOK /\ [Next]_vars => FlagsOK'
  BY FlagsStep
<1>2. FlagsOK => NoPanic
  BY DEF FlagsOK, NoPanic
<1>. QED
  BY FlagsStart, <1>1, <1>2, PTL DEF Spec

(* The elements of the queues.                                             *)
QueuesOK ==
    /\ queue \in Seq(Events)
    /\ hand \in Seq(Int) /\ blockQ \in Seq(Int) /\ wire \in Seq(Int) /\ sent \in Int

(* The bounds of the buffers; a reader that may still queue a block has an *)
(* attempt left.                                                           *)
BuffersOK ==
    /\ tries \in 0..MaxTries
    /\ reader \in {"starting", "reading", "sending"} => tries < MaxTries
    /\ buffered \in 0..InitialBlocks
    /\ Len(hand) <= 1 /\ Len(blockQ) <= QueueSize /\ Len(wire) <= WireSize

LEMMA QueuesStart == Init => QueuesOK /\ BuffersOK
BY SizeAssumption, EmptySeq DEF Init, QueuesOK, BuffersOK

LEMMA QueuesStep ==
  ASSUME QueuesOK, [Next]_vars
  PROVE  QueuesOK'
<1>. USE DEF QueuesOK
<1>1. CASE AudioManager
  <2>1. ASSUME NEW event \in Events, Asks(event) PROVE QueuesOK'
    BY <2>1, Extended DEF Asks, readerVars, netVars
  <2>. QED
    BY <1>1, <2>1 DEF AudioManager, AskPlay, AskStop, TimerTick, AskQuit, Events
<1>2. CASE OboeThread
  <2>1. queue' \in Seq(Events)
    BY <1>2, Removed
       DEF OboeThread, PlayCallbackMode, PlayDirectMode, PlayRefused, HandleStop,
           HandleQuit, HandleReaderError, HandleBufferingDone, HandleTick,
           JoinReader, Joined, CloseOboe, Closed, Receives
  <2>2. \/ UNCHANGED <<hand, blockQ, wire, sent>>
        \/ UNCHANGED hand /\ blockQ' = <<>> /\ wire' = <<>> /\ sent' = 0
        \/ hand' = <<>> /\ blockQ' = <<>> /\ wire' = <<>> /\ sent' = 0
    BY <1>2
       DEF OboeThread, PlayCallbackMode, PlayDirectMode, PlayRefused, HandleStop,
           HandleQuit, HandleReaderError, HandleBufferingDone, HandleTick,
           JoinReader, Joined, CloseOboe, Closed, PanicOnFlag, StartsStream,
           readerVars, netVars
  <2>3. <<>> \in Seq(Int)
    BY EmptySeq
  <2>4. hand' \in Seq(Int) /\ blockQ' \in Seq(Int)
    BY <2>2, <2>3
  <2>5. wire' \in Seq(Int)
    BY <2>2, <2>3
  <2>6. sent' = sent \/ sent' = 0
    BY <2>2
  <2>7. sent' \in Int
    BY <2>6
  <2>. QED
    BY <2>1, <2>4, <2>5, <2>7
<1>3. CASE DataReader
  <2>1. queue' \in Seq(Events)
    <3>1. \/ queue' = queue
          \/ \E event \in {"ReadingError", "SendingError", "BufferingDone"} :
                 queue' = Append(queue, event)
      BY <1>3
         DEF DataReader, ReaderStarts, TakePacket, ReadTimesOut, ReadFails,
             SendBlock, QueueFull, DrainPacket, DrainFails, WaitQuit
    <3>2. {"ReadingError", "SendingError", "BufferingDone"} \subseteq Events
      BY DEF Events
    <3>. QED
      BY <3>1, <3>2, Extended
  <2>2. hand' \in Seq(Int)
    BY <1>3, Removed, Extended, EmptySeq
       DEF DataReader, ReaderStarts, TakePacket, ReadTimesOut, ReadFails,
           SendBlock, QueueFull, DrainPacket, DrainFails, WaitQuit
  <2>3. blockQ' \in Seq(Int)
    BY <1>3, ConcatProperties
       DEF DataReader, ReaderStarts, TakePacket, ReadTimesOut, ReadFails,
           SendBlock, QueueFull, DrainPacket, DrainFails, WaitQuit, ReaderGoes
  <2>4. wire' \in Seq(Int) /\ UNCHANGED sent
    BY <1>3, Removed
       DEF DataReader, ReaderStarts, TakePacket, ReadTimesOut, ReadFails,
           SendBlock, QueueFull, DrainPacket, DrainFails, WaitQuit, ReaderGoes,
           ReaderElsewhere
  <2>. QED
    BY <2>1, <2>2, <2>3, <2>4
<1>4. CASE Callback
  <2>1. UNCHANGED <<queue, hand, sent>>
    BY <1>4 DEF Callback, CallbackCalled, GetBlock, BlocksEnd, GetPacket, GetSilence,
                StreamFails, CallbackFails, CallbackGoes, CallbackElsewhere, readerVars
  <2>2. blockQ' \in Seq(Int) /\ wire' \in Seq(Int)
    BY <1>4, Removed
       DEF Callback, CallbackCalled, GetBlock, BlocksEnd, GetPacket, GetSilence,
           StreamFails, CallbackFails, CallbackGoes
  <2>. QED
    BY <2>1, <2>2
<1>5. CASE Network
  <2>1. UNCHANGED <<queue, hand, blockQ>>
    BY <1>5 DEF Network, SendPacket, LosePacket, SwapPackets, NetElsewhere, readerVars
  <2>2. CASE SendPacket \/ LosePacket
    <3>1. wire' = Append(wire, sent) \/ wire' = wire
      BY <2>2 DEF SendPacket, LosePacket
    <3>2. sent' \in Int
      BY <2>2 DEF SendPacket, LosePacket
    <3>3. wire' \in Seq(Int)
      BY <3>1, Extended
    <3>. QED
      BY <2>1, <3>2, <3>3
  <2>3. CASE SwapPackets
    <3>1. Len(wire) \in 1..Len(wire) /\ Len(wire) - 1 \in 1..Len(wire)
      BY <2>3, LenProperties DEF SwapPackets
    <3>2. wire[Len(wire)] \in Int /\ wire[Len(wire) - 1] \in Int
      BY <3>1, ElementOfSeq
    <3>. QED
      BY <2>1, <2>3, <3>1, <3>2, ExceptSeq DEF SwapPackets
  <2>. QED
    BY <1>5, <2>2, <2>3 DEF Network
<1>6. CASE UNCHANGED vars
  BY <1>6 DEF vars, readerVars, netVars
<1>. QED
  BY <1>1, <1>2, <1>3, <1>4, <1>5, <1>6 DEF Next

LEMMA BuffersStep ==
  ASSUME QueuesOK, BuffersOK, QueuesOK', [Next]_vars
  PROVE  BuffersOK'
<1>0. /\ QueueSize \in Nat \ {0} /\ MaxTries \in Nat \ {0}
      /\ InitialBlocks \in Nat \ {0} /\ WireSize \in Nat \ {0}
  BY SizeAssumption
<1>. USE DEF BuffersOK
<1>1. ASSUME UNCHANGED <<tries, buffered, hand, blockQ, wire, reader>>
      PROVE  BuffersOK'
  BY <1>1
<1>2. CASE AudioManager \/ UNCHANGED vars
  <2>1. UNCHANGED <<tries, buffered, hand, blockQ, wire, reader>>
    BY <1>2 DEF AudioManager, AskPlay, AskStop, TimerTick, AskQuit, Asks, vars,
                readerVars, netVars
  <2>. QED
    BY <2>1, <1>1
<1>3. CASE OboeThread
  <2>1. CASE PlayCallbackMode
    <3>1. \/ UNCHANGED <<tries, buffered, hand, blockQ, wire, reader>>
          \/ /\ tries' = 0 /\ buffered' = 0
             /\ hand' = <<>> /\ blockQ' = <<>> /\ wire' = <<>>
      BY <2>1 DEF PlayCallbackMode, PanicOnFlag, StartsStream, readerVars, netVars
    <3>. QED
      BY <3>1, <1>0, EmptySeq
  <2>2. CASE PlayDirectMode
    <3>1. /\ UNCHANGED <<tries, buffered, hand, reader>>
          /\ \/ UNCHANGED <<blockQ, wire>>
             \/ blockQ' = <<>> /\ wire' = <<>>
      BY <2>2 DEF PlayDirectMode, PanicOnFlag, StartsStream, readerVars, netVars
    <3>. QED
      BY <3>1, <1>0, EmptySeq
  <2>3. CASE JoinReader
    BY <2>3 DEF JoinReader, Joined, netVars
  <2>4. CASE PlayRefused \/ HandleStop \/ HandleQuit \/ HandleReaderError
             \/ HandleBufferingDone \/ HandleTick \/ CloseOboe
    BY <2>4, <1>1 DEF PlayRefused, HandleStop, HandleQuit, HandleReaderError,
                HandleBufferingDone, HandleTick, CloseOboe, Closed, readerVars, netVars
  <2>. QED
    BY <1>3, <2>1, <2>2, <2>3, <2>4 DEF OboeThread
<1>4. CASE TakePacket
  <2>1. /\ UNCHANGED <<tries, buffered, blockQ>> /\ tries < MaxTries
        /\ Len(wire') <= WireSize
    BY <1>4, <1>0, Removed DEF TakePacket, QueuesOK
  <2>2. hand' = hand \/ hand' = <<Head(wire)>>
    BY <1>4 DEF TakePacket
  <2>3. Len(hand') <= 1
    <3>1. Head(wire) \in Int
      BY <1>4, Removed DEF TakePacket, QueuesOK
    <3>2. Len(<<Head(wire)>>) = 1
      BY <3>1, Extended, EmptySeq
    <3>3. CASE hand' = hand
      <4>1. Len(hand') = Len(hand)
        BY <3>3
      <4>. QED
        BY <4>1
    <3>4. CASE hand' = <<Head(wire)>>
      <4>1. Len(hand') = 1
        BY <3>2, <3>4
      <4>. QED
        BY <4>1
    <3>. QED
      BY <2>2, <3>3, <3>4
  <2>. QED
    BY <2>1, <2>3
<1>5. CASE SendBlock
  <2>1. Len(blockQ') <= QueueSize
    BY <1>5, <1>0, ConcatProperties, LenProperties DEF SendBlock, QueuesOK
  <2>2. tries' = 0 /\ hand' = <<>> /\ UNCHANGED wire /\ buffered' \in 0..InitialBlocks
    BY <1>5, <1>0 DEF SendBlock
  <2>. QED
    BY <2>1, <2>2, <1>0, EmptySeq
<1>6. CASE QueueFull
  <2>1. tries \in Nat /\ tries < MaxTries /\ tries' = tries + 1
    BY <1>6 DEF QueueFull
  <2>2. /\ UNCHANGED <<buffered, blockQ, wire>>
        /\ \/ tries' = MaxTries /\ reader' = "draining" /\ hand' = <<>>
           \/ tries' # MaxTries /\ UNCHANGED <<reader, hand>>
    BY <1>6 DEF QueueFull
  <2>. QED
    BY <2>1, <2>2, <1>0, EmptySeq
<1>7. CASE ReaderStarts \/ ReadTimesOut \/ ReadFails \/ DrainPacket \/ DrainFails \/ WaitQuit
  <2>1. /\ UNCHANGED <<tries, buffered, hand, blockQ>>
        /\ reader' \in {"starting", "reading", "sending"} => reader = "starting"
    BY <1>7 DEF ReaderStarts, ReadTimesOut, ReadFails, DrainPacket, DrainFails,
                WaitQuit, ReaderGoes
  <2>2. Len(wire') <= WireSize
    BY <1>7, <1>0, Removed, LenProperties
       DEF ReaderStarts, ReadTimesOut, ReadFails, DrainPacket, DrainFails,
           WaitQuit, ReaderGoes, QueuesOK
  <2>. QED
    BY <2>1, <2>2
<1>8. CASE Callback
  <2>1. UNCHANGED <<tries, buffered, hand, reader>>
    BY <1>8 DEF Callback, CallbackCalled, GetBlock, BlocksEnd, GetPacket, GetSilence,
                StreamFails, CallbackFails, CallbackGoes, CallbackElsewhere, readerVars
  <2>2. Len(blockQ') <= QueueSize /\ Len(wire') <= WireSize
    BY <1>8, <1>0, Removed, LenProperties
       DEF Callback, CallbackCalled, GetBlock, BlocksEnd, GetPacket, GetSilence,
           StreamFails, CallbackFails, CallbackGoes, QueuesOK
  <2>. QED
    BY <2>1, <2>2
<1>9. CASE Network
  <2>1. UNCHANGED <<tries, buffered, hand, blockQ, reader>>
    BY <1>9 DEF Network, SendPacket, LosePacket, SwapPackets, NetElsewhere, readerVars
  <2>2. CASE SendPacket \/ LosePacket
    BY <2>1, <2>2, <1>0, Extended DEF SendPacket, LosePacket, QueuesOK
  <2>3. CASE SwapPackets
    <3>1. Len(wire) \in Nat /\ DOMAIN wire = 1..Len(wire)
      BY LenProperties DEF QueuesOK
    <3>2. wire' \in Seq(Int) /\ DOMAIN wire' = 1..Len(wire)
      BY <2>3, <3>1 DEF SwapPackets, QueuesOK
    <3>3. Len(wire') = Len(wire)
      BY <3>1, <3>2, LenProperties
    <3>. QED
      BY <2>1, <3>3
  <2>. QED
    BY <1>9, <2>2, <2>3 DEF Network
<1>. QED
  BY <1>2, <1>3, <1>4, <1>5, <1>6, <1>7, <1>8, <1>9 DEF Next, DataReader

(* The flags agree with the threads and no buffer exceeds its room, for    *)
(* every size of the block queue and number of attempts (oboe.rs:495-528,  *)
(* 608-664, callback_mode.rs:236-276).                                     *)
THEOREM PlaybackTypeCorrect == Spec => []TypeOK
<1>. DEFINE TInv == FlagsOK /\ QueuesOK /\ BuffersOK
<1>1. Init => TInv
  BY FlagsStart, QueuesStart
<1>2. TInv /\ [Next]_vars => TInv'
  BY FlagsStep, QueuesStep, BuffersStep
<1>3. TInv => TypeOK
  <2>. SUFFICES ASSUME TInv PROVE TypeOK
    OBVIOUS
  <2>1. \A i \in DOMAIN queue : queue[i] \in Events
    BY ElementOfSeq, LenProperties DEF QueuesOK
  <2>2. running = (reader # "none") /\ cppRunning = (mode # "none")
    BY DEF FlagsOK
  <2>. QED
    BY <2>1, <2>2 DEF TypeOK, FlagsOK, BuffersOK
<1>. QED
  BY <1>1, <1>2, <1>3, PTL DEF Spec
-----------------------------------------------------------------------------
(* What the receiver expects after number t, for the numbers up to twice   *)
(* the mask, whose only bit beyond the count is the wrap flag.             *)
Expects(e, t) ==
    \/ t + 1 < Half /\ e = [count |-> t + 1, wrap |-> FALSE]
    \/ t + 1 >= Half /\ t + 1 < 2 * Half /\ e = [count |-> t + 1 - Half, wrap |-> TRUE]
    \/ t + 1 = 2 * Half /\ e = [count |-> 0, wrap |-> FALSE]

(* The wrap flag and the count of a number.                                *)
LEMMA FlagAndCount ==
  ASSUME NEW n \in Nat, n < 2 * Half
  PROVE  /\ n < Half => Wrap(n) = FALSE /\ Count(n) = n
         /\ n >= Half => Wrap(n) = TRUE /\ Count(n) = n - Half
<1>0. Half \in Nat /\ Half > 0
  BY HalfAssumption
<1>1. CASE n < Half
  <2>1. n \div Half = 0
    BY <1>0, <1>1
  <2>. QED
    BY <1>0, <1>1, <2>1 DEF Wrap, Count
<1>2. CASE n >= Half
  <2>1. n \div Half = 1
    BY <1>0, <1>2
  <2>. QED
    BY <1>0, <1>2, <2>1 DEF Wrap, Count
<1>. QED
  BY <1>0, <1>1, <1>2

(* CheckPacket takes a packet only if its number is beyond the last number *)
(* taken, and expects the one after it from then on, as long as a packet   *)
(* is overtaken by less than half of the numbers.                          *)
LEMMA CheckGoesForward ==
  ASSUME NEW e, NEW t \in Int, t >= -1, Expects(e, t),
         NEW n \in Nat, n < 2 * Half, t - n < Half
  PROVE  \/ CheckPacket(e, n).status = "Discard" /\ CheckPacket(e, n).next = e
         \/ /\ CheckPacket(e, n).status # "Discard"
            /\ n > t /\ Expects(CheckPacket(e, n).next, n)
<1>0. Half \in Nat /\ Half > 0
  BY HalfAssumption
<1>n. /\ n < Half => Wrap(n) = FALSE /\ Count(n) = n
      /\ n >= Half => Wrap(n) = TRUE /\ Count(n) = n - Half
  BY FlagAndCount
<1>1. CASE t + 1 < Half
  <2>1. e = [count |-> t + 1, wrap |-> FALSE]
    BY <1>0, <1>1 DEF Expects
  <2>2. CASE n < Half
    <3>1. Wrap(n) = FALSE /\ Count(n) = n
      BY <1>n, <2>2
    <3>2. CASE n >= t + 1
      <4>1. n = t + 1 \/ n > t + 1
        BY <3>2
      <4>2. /\ CheckPacket(e, n).status # "Discard"
            /\ CheckPacket(e, n).next = After(e, n)
        BY <2>1, <3>1, <4>1 DEF CheckPacket
      <4>3. Expects(After(e, n), n)
        <5>1. CASE n + 1 = Half
          <6>1. After(e, n) = [count |-> 0, wrap |-> TRUE]
            BY <2>1, <5>1 DEF After
          <6>2. n + 1 - Half = 0 /\ n + 1 >= Half /\ n + 1 < 2 * Half
            BY <1>0, <5>1
          <6>. QED
            BY <6>1, <6>2 DEF Expects
        <5>2. CASE n + 1 # Half
          <6>1. After(e, n) = [count |-> n + 1, wrap |-> FALSE]
            BY <2>1, <5>2 DEF After
          <6>2. n + 1 < Half
            BY <1>0, <2>2, <5>2
          <6>. QED
            BY <6>1, <6>2 DEF Expects
        <5>. QED
          BY <5>1, <5>2
      <4>. QED
        BY <3>2, <4>2, <4>3
    <3>3. CASE ~(n >= t + 1)
      <4>1. ~(n = t + 1) /\ ~(n > t + 1)
        BY <3>3
      <4>. QED
        BY <2>1, <3>1, <4>1 DEF CheckPacket
    <3>. QED
      BY <3>2, <3>3
  <2>3. CASE n >= Half
    <3>1. Wrap(n) = TRUE /\ Count(n) = n - Half
      BY <1>n, <2>3
    <3>2. CASE n - Half < t + 1
      <4>1. /\ CheckPacket(e, n).status # "Discard"
            /\ CheckPacket(e, n).next = [count |-> n - Half + 1, wrap |-> TRUE]
        BY <2>1, <3>1, <3>2 DEF CheckPacket
      <4>2. Expects([count |-> n + 1 - Half, wrap |-> TRUE], n)
        BY <1>0, <1>1, <2>3, <3>2 DEF Expects
      <4>3. n - Half + 1 = n + 1 - Half /\ n > t
        BY <1>0, <1>1, <2>3
      <4>. QED
        BY <4>1, <4>2, <4>3
    <3>3. CASE ~(n - Half < t + 1)
      BY <2>1, <3>1, <3>3 DEF CheckPacket
    <3>. QED
      BY <3>2, <3>3
  <2>. QED
    BY <1>0, <2>2, <2>3
<1>2. CASE t + 1 >= Half /\ t + 1 < 2 * Half
  <2>1. e = [count |-> t + 1 - Half, wrap |-> TRUE]
    BY <1>0, <1>2 DEF Expects
  <2>2. CASE n < Half
    <3>1. Wrap(n) = FALSE /\ Count(n) = n /\ ~(n < t + 1 - Half)
      BY <1>n, <1>0, <2>2
    <3>. QED
      BY <2>1, <3>1 DEF CheckPacket
  <2>3. CASE n >= Half
    <3>1. Wrap(n) = TRUE /\ Count(n) = n - Half
      BY <1>n, <2>3
    <3>2. CASE n >= t + 1
      <4>1. n - Half >= t + 1 - Half
        BY <1>0, <3>2
      <4>2. /\ CheckPacket(e, n).status # "Discard"
            /\ CheckPacket(e, n).next = After(e, n - Half)
        BY <2>1, <3>1, <1>0, <4>1 DEF CheckPacket
      <4>3. After(e, n - Half)
              = IF n + 1 = 2 * Half THEN [count |-> 0, wrap |-> FALSE]
                                    ELSE [count |-> n + 1 - Half, wrap |-> TRUE]
        <5>1. n - Half + 1 = n + 1 - Half /\ (n - Half + 1 = Half <=> n + 1 = 2 * Half)
          BY <1>0
        <5>2. CASE n - Half + 1 = Half
          BY <2>1, <5>1, <5>2 DEF After
        <5>3. CASE n - Half + 1 # Half
          <6>1. After(e, n - Half) = [e EXCEPT !.count = n - Half + 1]
            BY <5>3 DEF After
          <6>2. n + 1 # 2 * Half /\ n - Half + 1 = n + 1 - Half
            BY <5>1, <5>3
          <6>3. \A a, b, c : [[count |-> a, wrap |-> b] EXCEPT !.count = c]
                                = [count |-> c, wrap |-> b]
            OBVIOUS
          <6>. QED
            BY <2>1, <6>1, <6>2, <6>3
        <5>. QED
          BY <5>2, <5>3
      <4>4. Expects(After(e, n - Half), n)
        BY <1>0, <2>3, <4>3 DEF Expects
      <4>. QED
        BY <3>2, <4>2, <4>4
    <3>3. CASE ~(n >= t + 1)
      <4>1. ~(n - Half = t + 1 - Half) /\ ~(n - Half > t + 1 - Half)
        BY <1>0, <3>3
      <4>. QED
        BY <2>1, <3>1, <4>1 DEF CheckPacket
    <3>. QED
      BY <3>2, <3>3
  <2>. QED
    BY <1>0, <2>2, <2>3
<1>3. CASE t + 1 = 2 * Half
  <2>1. e = [count |-> 0, wrap |-> FALSE]
    BY <1>0, <1>3 DEF Expects
  <2>2. n >= Half
    BY <1>0, <1>3
  <2>3. Wrap(n) = TRUE /\ ~(Count(n) < 0)
    BY <1>n, <1>0, <2>2
  <2>. QED
    BY <2>1, <2>3 DEF CheckPacket
<1>. QED
  BY <1>0, <1>1, <1>2, <1>3 DEF Expects

(* Sequences of numbers that increase, and that stay at or below a number. *)
Increasing(s) == \A i \in 1 .. (Len(s) - 1) : s[i] < s[i + 1]
UpTo(s, t) == \A i \in 1 .. Len(s) : s[i] <= t

LEMMA IncreasingAdded ==
  ASSUME NEW s \in Seq(Int), NEW t \in Int, NEW n \in Int,
         Increasing(s), UpTo(s, t), n > t
  PROVE  Increasing(Append(s, n)) /\ UpTo(Append(s, n), n)
<1>. DEFINE a == Append(s, n)
<1>1. /\ Len(s) \in Nat /\ Len(a) = Len(s) + 1 /\ a[Len(s) + 1] = n
      /\ \A i \in 1..Len(s) : a[i] = s[i] /\ s[i] \in Int
  BY AppendProperties, LenProperties, ElementOfSeq
<1>. HIDE DEF a
<1>2. ASSUME NEW i \in 1..(Len(a) - 1) PROVE a[i] < a[i + 1]
  <2>1. i \in 1..Len(s) /\ a[i] = s[i] /\ s[i] \in Int
    BY <1>1
  <2>2. CASE i = Len(s)
    <3>1. a[i + 1] = n /\ s[i] <= t
      BY <1>1, <2>1, <2>2 DEF UpTo
    <3>. QED
      BY <2>1, <3>1
  <2>3. CASE i # Len(s)
    <3>1. i + 1 \in 1..Len(s) /\ i \in 1..(Len(s) - 1)
      BY <1>1, <2>1, <2>3
    <3>2. a[i + 1] = s[i + 1]
      BY <1>1, <3>1
    <3>. QED
      BY <2>1, <3>1, <3>2 DEF Increasing
  <2>. QED
    BY <2>2, <2>3
<1>3. ASSUME NEW i \in 1..Len(a) PROVE a[i] <= n
  <2>1. CASE i = Len(s) + 1
    BY <1>1, <2>1
  <2>2. CASE i # Len(s) + 1
    <3>1. i \in 1..Len(s)
      BY <1>1, <2>2
    <3>2. a[i] = s[i] /\ s[i] \in Int /\ s[i] <= t
      BY <1>1, <3>1 DEF UpTo
    <3>. QED
      BY <3>2
  <2>. QED
    BY <2>1, <2>2
<1>. QED
  BY <1>2, <1>3 DEF Increasing, UpTo, a

LEMMA IncreasingRest ==
  ASSUME NEW s \in Seq(Int), NEW t \in Int, s # <<>>
  PROVE  /\ Increasing(s) => Increasing(Tail(s))
         /\ UpTo(s, t) => UpTo(Tail(s), t)
<1>1. /\ Len(s) \in Nat /\ Len(Tail(s)) = Len(s) - 1
      /\ \A i \in 1..Len(Tail(s)) : Tail(s)[i] = s[i + 1]
  BY HeadTailProperties, LenProperties
<1>2. ASSUME Increasing(s), NEW i \in 1..(Len(Tail(s)) - 1)
      PROVE  Tail(s)[i] < Tail(s)[i + 1]
  <2>1. /\ i \in 1..Len(Tail(s)) /\ i + 1 \in 1..Len(Tail(s))
        /\ i + 1 \in 1..(Len(s) - 1)
    BY <1>1
  <2>2. Tail(s)[i] = s[i + 1] /\ Tail(s)[i + 1] = s[(i + 1) + 1]
    BY <1>1, <2>1
  <2>. QED
    BY <1>2, <2>1, <2>2 DEF Increasing
<1>3. ASSUME UpTo(s, t), NEW i \in 1..Len(Tail(s)) PROVE Tail(s)[i] <= t
  <2>1. i + 1 \in 1..Len(s) /\ Tail(s)[i] = s[i + 1]
    BY <1>1
  <2>. QED
    BY <1>3, <2>1 DEF UpTo
<1>. QED
  BY <1>2, <1>3 DEF Increasing, UpTo

LEMMA IncreasingStart ==
  ASSUME NEW s \in Seq(Int), NEW h \in Seq(Int), NEW t \in Int
  PROVE  /\ Increasing(s \o h) => Increasing(s)
         /\ UpTo(s \o h, t) => UpTo(s, t)
<1>1. /\ Len(s) \in Nat /\ Len(h) \in Nat /\ Len(s \o h) = Len(s) + Len(h)
      /\ \A i \in 1..Len(s) + Len(h) : (s \o h)[i] = IF i <= Len(s) THEN s[i] ELSE h[i - Len(s)]
  BY ConcatProperties, LenProperties
<1>2. \A i \in 1..Len(s) : i \in 1..Len(s \o h) /\ (s \o h)[i] = s[i]
  BY <1>1
<1>3. ASSUME Increasing(s \o h), NEW i \in 1..(Len(s) - 1) PROVE s[i] < s[i + 1]
  <2>1. i \in 1..Len(s) /\ i + 1 \in 1..Len(s) /\ i \in 1..(Len(s \o h) - 1)
    BY <1>1
  <2>. QED
    BY <1>2, <1>3, <2>1 DEF Increasing
<1>4. ASSUME UpTo(s \o h, t), NEW i \in 1..Len(s) PROVE s[i] <= t
  BY <1>2, <1>4 DEF UpTo
<1>. QED
  BY <1>3, <1>4 DEF Increasing, UpTo

(* How far the packets in the socket may be behind the packet taken last,  *)
(* t, and behind those before them; none is sent twice.                    *)
NotLate(packets, t) ==
    /\ \A i \in 1..Len(packets) : t - packets[i] <= MaxLate /\ t # packets[i]
    /\ \A i, j \in 1..Len(packets) :
           i < j => packets[i] - packets[j] <= MaxLate /\ packets[i] # packets[j]

Sent(packets, count) ==
    \A i \in 1..Len(packets) : packets[i] \in Nat /\ packets[i] < count

LEMMA PacketAdded ==
  ASSUME NEW w \in Seq(Int), NEW t \in Int, t < sent, NEW w2, sent \in Nat, w2 = Append(w, sent),
         MaxLate \in Nat, NotLate(w, t), Sent(w, sent)
  PROVE  NotLate(w2, t) /\ Sent(w2, sent + 1)
<1>1. /\ Len(w) \in Nat /\ Len(w2) = Len(w) + 1 /\ w2[Len(w) + 1] = sent
      /\ \A i \in 1..Len(w) : w2[i] = w[i]
  BY AppendProperties, LenProperties
<1>2. \A i \in 1..Len(w2) : i \in 1..Len(w) \/ i = Len(w) + 1
  BY <1>1
<1>3. ASSUME NEW i \in 1..Len(w2)
      PROVE  t - w2[i] <= MaxLate /\ t # w2[i] /\ w2[i] \in Nat /\ w2[i] < sent + 1
  <2>1. CASE i = Len(w) + 1
    BY <1>1, <2>1
  <2>2. CASE i \in 1..Len(w)
    BY <1>1, <2>2 DEF NotLate, Sent
  <2>. QED
    BY <1>2, <2>1, <2>2
<1>4. ASSUME NEW i \in 1..Len(w2), NEW j \in 1..Len(w2), i < j
      PROVE  w2[i] - w2[j] <= MaxLate /\ w2[i] # w2[j]
  <2>1. i \in 1..Len(w)
    BY <1>1, <1>4
  <2>2. w2[i] = w[i] /\ w[i] \in Nat /\ w[i] < sent
    BY <1>1, <2>1 DEF Sent
  <2>3. CASE j = Len(w) + 1
    BY <1>1, <2>2, <2>3
  <2>4. CASE j \in 1..Len(w)
    BY <1>1, <1>4, <2>1, <2>2, <2>4 DEF NotLate
  <2>. QED
    BY <1>2, <2>3, <2>4
<1>. QED
  BY <1>3, <1>4 DEF NotLate, Sent

LEMMA PacketTaken ==
  ASSUME NEW w \in Seq(Int), w # <<>>, NEW t \in Int, NEW count, NotLate(w, t), Sent(w, count)
  PROVE  /\ t - Head(w) <= MaxLate /\ t # Head(w) /\ Head(w) \in Nat /\ Head(w) < count
         /\ NotLate(Tail(w), t) /\ NotLate(Tail(w), Head(w)) /\ Sent(Tail(w), count)
<1>1. /\ Len(w) \in Nat /\ Len(w) >= 1 /\ Head(w) = w[1] /\ Len(Tail(w)) = Len(w) - 1
      /\ \A i \in 1..Len(Tail(w)) : Tail(w)[i] = w[i + 1]
  BY HeadTailProperties, LenProperties, EmptySeq
<1>2. 1 \in 1..Len(w) /\ \A i \in 1..Len(Tail(w)) : i + 1 \in 1..Len(w) /\ 1 < i + 1
  BY <1>1
<1>3. t - Head(w) <= MaxLate /\ t # Head(w) /\ Head(w) \in Nat /\ Head(w) < count
  BY <1>1, <1>2 DEF NotLate, Sent
<1>4. ASSUME NEW i \in 1..Len(Tail(w))
      PROVE  /\ t - Tail(w)[i] <= MaxLate /\ Head(w) - Tail(w)[i] <= MaxLate
             /\ t # Tail(w)[i] /\ Head(w) # Tail(w)[i]
             /\ Tail(w)[i] \in Nat /\ Tail(w)[i] < count
  BY <1>1, <1>2 DEF NotLate, Sent
<1>5. ASSUME NEW i \in 1..Len(Tail(w)), NEW j \in 1..Len(Tail(w)), i < j
      PROVE  Tail(w)[i] - Tail(w)[j] <= MaxLate /\ Tail(w)[i] # Tail(w)[j]
  <2>1. i + 1 \in 1..Len(w) /\ j + 1 \in 1..Len(w) /\ i + 1 < j + 1
    BY <1>2, <1>5
  <2>. QED
    BY <1>1, <2>1 DEF NotLate
<1>. QED
  BY <1>3, <1>4, <1>5 DEF NotLate, Sent

LEMMA PacketsSwapped ==
  ASSUME NEW w \in Seq(Int), NEW t \in Int, NEW count, MaxLate \in Nat, Len(w) >= 2,
         w[Len(w)] - w[Len(w) - 1] \in 1..MaxLate, NotLate(w, t), Sent(w, count),
         NEW w2, w2 = [w EXCEPT ![Len(w) - 1] = w[Len(w)], ![Len(w)] = w[Len(w) - 1]]
  PROVE  NotLate(w2, t) /\ Sent(w2, count)
<1>. DEFINE k == Len(w)
<1>1. /\ k \in Nat /\ k >= 2 /\ DOMAIN w = 1..k /\ w \in [1..k -> Int]
      /\ k \in 1..k /\ k - 1 \in 1..k /\ k - 1 # k
  BY LenProperties
<1>2. w2 \in Seq(Int) /\ Len(w2) = k
  <2>1. w2 \in [1..k -> Int]
    BY <1>1
  <2>. HIDE DEF k
  <2>. QED
    BY <1>1, <2>1, SequenceOf
<1>3. \A i \in 1..k : w2[i] = IF i = k THEN w[k - 1] ELSE IF i = k - 1 THEN w[k] ELSE w[i]
  BY <1>1
<1>4. /\ w[k] \in Nat /\ w[k - 1] \in Nat /\ w[k] < count /\ w[k - 1] < count
      /\ t - w[k] <= MaxLate /\ t - w[k - 1] <= MaxLate /\ t # w[k] /\ t # w[k - 1]
      /\ w[k] - w[k - 1] <= MaxLate /\ w[k - 1] < w[k]
  <2>1. /\ w[k] \in Nat /\ w[k] < count /\ t - w[k] <= MaxLate /\ t # w[k]
    BY <1>1 DEF NotLate, Sent
  <2>2. /\ w[k - 1] \in Nat /\ w[k - 1] < count /\ t - w[k - 1] <= MaxLate /\ t # w[k - 1]
    BY <1>1 DEF NotLate, Sent
  <2>. QED
    BY <2>1, <2>2
<1>. HIDE DEF k
<1>5. ASSUME NEW i \in 1..k
      PROVE  t - w2[i] <= MaxLate /\ t # w2[i] /\ w2[i] \in Nat /\ w2[i] < count
  <2>1. CASE i \in {k, k - 1}
    BY <1>3, <1>4, <2>1
  <2>2. CASE i \notin {k, k - 1}
    BY <1>3, <2>2 DEF NotLate, Sent, k
  <2>. QED
    BY <2>1, <2>2
<1>6. ASSUME NEW i \in 1..k, NEW j \in 1..k, i < j
      PROVE  w2[i] - w2[j] <= MaxLate /\ w2[i] # w2[j]
  <2>1. \A m \in 1..k : w[m] \in Nat
    BY DEF Sent, k
  <2>2. \A m, n \in 1..k : m < n => w[m] - w[n] <= MaxLate /\ w[m] # w[n]
    BY DEF NotLate, k
  <2>3. CASE j = k /\ i = k - 1
    BY <1>1, <1>3, <1>4, <2>3
  <2>4. CASE j = k /\ i # k - 1
    <3>1. i < k - 1 /\ w2[i] = w[i] /\ w2[j] = w[k - 1]
      BY <1>1, <1>3, <1>6, <2>4
    <3>. QED
      BY <1>1, <2>2, <3>1
  <2>5. CASE j = k - 1
    <3>0. i < k /\ i # k - 1 /\ i # k /\ j # k
      BY <1>1, <1>6, <2>5
    <3>1. i < k /\ w2[i] = w[i] /\ w2[j] = w[k]
      BY <1>3, <2>5, <3>0
    <3>. QED
      BY <1>1, <2>2, <3>1
  <2>6. CASE j # k /\ j # k - 1
    <3>1. i # k /\ i # k - 1 /\ w2[i] = w[i] /\ w2[j] = w[j]
      BY <1>1, <1>3, <1>6, <2>6
    <3>. QED
      BY <1>6, <2>2, <3>1
  <2>. QED
    BY <2>3, <2>4, <2>5, <2>6
<1>. QED
  BY <1>2, <1>5, <1>6 DEF NotLate, Sent, k

(* What is played, what waits and what is in hand increases; in callback   *)
(* mode it goes up to a packet that was sent, the reader expects the one   *)
(* after it, and no packet in the socket is far behind.  PlayedInOrder     *)
(* alone is not inductive: it says nothing about the packets to come.      *)
Numbered == MaxLate < Half /\ sent <= 2 * Half

Reached(top) ==
    /\ top >= -1 /\ top < sent
    /\ Numbered => Expects(expected, top)
    /\ UpTo(Taken, top)
    /\ NotLate(wire, top) /\ Sent(wire, sent)

OrderBase ==
    /\ played \in Int /\ sent \in 0..MaxPackets
    /\ reader # "sending" => hand = <<>>
    /\ mode = "direct" => blockQ = <<>>

OrderOK ==
    /\ OrderBase
    /\ Increasing(Taken)
    /\ mode = "callback" => \E top \in Int : Reached(top)

(* Out of reach nothing is claimed; a new stream starts within it.         *)
OrderInv == OrderBase /\ (InReach => OrderOK)

(* The ways in which the packets taken change.                             *)
LEMMA TakenMoves ==
  ASSUME NEW p \in Int, NEW b \in Seq(Int), NEW h \in Seq(Int)
  PROVE  /\ <<p>> \o b \o h \in Seq(Int)
         /\ <<p>> \o (b \o h) \o <<>> = <<p>> \o b \o h
         /\ \A n \in Int : <<p>> \o b \o <<n>> = Append(<<p>> \o b \o <<>>, n)
         /\ b # <<>> => <<Head(b)>> \o Tail(b) \o h = Tail(<<p>> \o b \o h)
<1>1. <<p>> \in Seq(Int) /\ <<p>> # <<>> /\ Tail(<<p>>) = <<>> /\ Head(<<p>>) = p
  OBVIOUS
<1>2. /\ <<p>> \o b \in Seq(Int) /\ <<p>> \o b \o h \in Seq(Int) /\ b \o h \in Seq(Int)
  BY <1>1, ConcatProperties
<1>3. <<p>> \o (b \o h) \o <<>> = <<p>> \o b \o h
  <2>1. <<p>> \o (b \o h) \in Seq(Int)
    BY <1>1, <1>2, ConcatProperties
  <2>2. <<p>> \o (b \o h) \o <<>> = <<p>> \o (b \o h)
    BY <2>1, ConcatEmptySeq
  <2>. QED
    BY <1>1, <2>2, ConcatAssociative
<1>4. ASSUME NEW n \in Int PROVE <<p>> \o b \o <<n>> = Append(<<p>> \o b \o <<>>, n)
  <2>1. <<p>> \o b \o <<>> = <<p>> \o b
    BY <1>2, ConcatEmptySeq
  <2>2. Append(<<p>> \o b, n) = <<p>> \o b \o <<n>>
    BY <1>2, AppendIsConcat
  <2>. QED
    BY <2>1, <2>2
<1>5. ASSUME b # <<>> PROVE <<Head(b)>> \o Tail(b) \o h = Tail(<<p>> \o b \o h)
  <2>1. b = <<Head(b)>> \o Tail(b)
    BY <1>5, FirstAndRest
  <2>2. Tail(<<p>>) \o b = Tail(<<p>> \o b) /\ <<p>> \o b # <<>> /\ <<>> \o b = b
    BY <1>1, TailOfFirst, ConcatEmptySeq
  <2>3. Tail(<<p>> \o b) \o h = Tail(<<p>> \o b \o h)
    BY <1>2, <2>2, TailOfFirst
  <2>. QED
    BY <1>1, <2>1, <2>2, <2>3, Zenon
<1>. QED
  BY <1>2, <1>3, <1>4, <1>5

LEMMA OrderStart == Init => OrderOK
<1>. SUFFICES ASSUME Init PROVE OrderOK
  OBVIOUS
<1>1. Taken = <<NoPacket>>
  BY DEF Init, Taken
<1>2. Len(Taken) = 1
  BY <1>1
<1>3. Increasing(Taken)
  BY <1>2 DEF Increasing
<1>. QED
  BY <1>3, PlaybackBounds DEF Init, OrderOK, OrderBase, NoPacket

LEMMA OrderStep ==
  ASSUME InReach, FlagsOK, QueuesOK, OrderOK, [Next]_vars
  PROVE  OrderOK'
<1>0. /\ Half \in Nat \ {0} /\ MaxPackets \in Nat /\ MaxLate \in Nat
      /\ played \in Int /\ sent \in 0..MaxPackets /\ sent \in Nat
      /\ hand \in Seq(Int) /\ blockQ \in Seq(Int) /\ wire \in Seq(Int)
      /\ Taken \in Seq(Int)
  BY HalfAssumption, PlaybackBounds, NetworkAssumption, TakenMoves DEF QueuesOK, OrderOK, OrderBase, Taken
<1>1. ASSUME UNCHANGED <<played, hand, blockQ, wire, sent, expected, mode>>,
             reader' = reader \/ (reader # "sending" /\ reader' # "sending")
      PROVE  OrderOK'
  <2>1. Taken' = Taken
    BY <1>1 DEF Taken
  <2>. QED
    BY <1>1, <2>1 DEF OrderOK, OrderBase, Reached, Numbered
<1>2. CASE AudioManager \/ UNCHANGED vars
  <2>1. UNCHANGED <<played, hand, blockQ, wire, sent, expected, mode, reader>>
    BY <1>2 DEF AudioManager, AskPlay, AskStop, TimerTick, AskQuit, Asks,
                vars, logicVars, cbVars, readerVars, netVars
  <2>. QED
    BY <1>1, <2>1
<1>3. CASE PlayCallbackMode \/ PlayDirectMode
  <2>1. CASE UNCHANGED <<mode, cbVars, readerVars, blockQ, netVars>>
    <3>1. UNCHANGED <<played, hand, blockQ, wire, sent, expected, mode, reader>>
      BY <2>1 DEF cbVars, readerVars, netVars
    <3>. QED
      BY <1>1, <3>1
  <2>2. CASE PlayCallbackMode /\ ~UNCHANGED <<mode, cbVars, readerVars, blockQ, netVars>>
    <3>1. /\ mode' = "callback" /\ hand' = <<>> /\ blockQ' = <<>> /\ wire' = <<>>
          /\ sent' = 0 /\ played' = -1 /\ expected' = FirstExpected
      BY <2>2 DEF PlayCallbackMode, PanicOnFlag, StartsStream, NoPacket
    <3>2. Taken' = <<-1>>
      BY <3>1 DEF Taken
    <3>3. Increasing(Taken') /\ UpTo(Taken', -1)
      BY <3>2 DEF Increasing, UpTo
    <3>4. Expects(FirstExpected, -1)
      BY <1>0 DEF Expects, FirstExpected
    <3>5. NotLate(<<>>, -1) /\ Sent(<<>>, 0)
      BY DEF NotLate, Sent
    <3>6. Reached(-1)'
      BY <3>1, <3>3, <3>4, <3>5 DEF Reached, Numbered
    <3>. QED
      BY <1>0, <3>1, <3>3, <3>6 DEF OrderOK, OrderBase
  <2>3. CASE PlayDirectMode /\ ~UNCHANGED <<mode, cbVars, readerVars, blockQ, netVars>>
    <3>1. /\ mode' = "direct" /\ blockQ' = <<>> /\ UNCHANGED <<reader, hand>>
          /\ mode = "none" /\ sent' = 0 /\ played' = -1
      BY <2>3 DEF PlayDirectMode, PanicOnFlag, StartsStream, NoPacket, readerVars
    <3>2. reader = "none" /\ hand = <<>>
      BY <3>1 DEF FlagsOK, OrderOK, OrderBase
    <3>3. Taken' = <<-1>>
      BY <3>1, <3>2 DEF Taken
    <3>4. Increasing(Taken')
      BY <3>3 DEF Increasing
    <3>. QED
      BY <1>0, <3>1, <3>2, <3>4 DEF OrderOK, OrderBase
  <2>. QED
    BY <1>3, <2>1, <2>2, <2>3
<1>4. CASE PlayRefused \/ HandleStop \/ HandleQuit \/ HandleReaderError
           \/ HandleBufferingDone \/ HandleTick
  <2>1. UNCHANGED <<played, hand, blockQ, wire, sent, expected, mode, reader>>
    BY <1>4 DEF PlayRefused, HandleStop, HandleQuit, HandleReaderError,
                HandleBufferingDone, HandleTick, logicVars, cbVars, readerVars, netVars
  <2>. QED
    BY <1>1, <2>1
<1>5. CASE JoinReader
  BY <1>1, <1>5 DEF JoinReader, Joined, cbVars, netVars
<1>6. CASE CloseOboe
  <2>1. UNCHANGED <<played, hand, blockQ, sent, reader>> /\ mode' = "none"
    BY <1>6 DEF CloseOboe, Closed, readerVars, netVars
  <2>2. Taken' = Taken
    BY <2>1 DEF Taken
  <2>. QED
    BY <2>1, <2>2 DEF OrderOK, OrderBase
<1>7. ASSUME reader # "none" PROVE mode = "callback" /\ \E top \in Int : Reached(top)
  BY <1>7 DEF FlagsOK, OrderOK, OrderBase
<1>8. CASE TakePacket
  <2>0. PICK n : n = Head(wire)
    OBVIOUS
  <2>1. /\ reader = "reading" /\ wire # <<>> /\ wire' = Tail(wire)
        /\ hand = <<>> /\ mode = "callback"
        /\ expected' = CheckPacket(expected, n).next
        /\ UNCHANGED <<played, blockQ, sent, mode>>
    BY <1>7, <1>8, <2>0 DEF TakePacket, ReaderElsewhere, OrderOK, OrderBase, logicVars, cbVars
  <2>2. PICK top \in Int : Reached(top)
    BY <1>7, <2>1
  <2>3. /\ top - n <= MaxLate /\ top # n /\ n \in Nat /\ n < sent
        /\ NotLate(Tail(wire), top) /\ NotLate(Tail(wire), n) /\ Sent(Tail(wire), sent)
    BY <1>0, <2>0, <2>1, <2>2, PacketTaken DEF Reached, Numbered
  <2>4. Numbered => n < 2 * Half /\ top - n < Half /\ top >= -1 /\ Expects(expected, top)
    <3>1. top >= -1 /\ (Numbered => Expects(expected, top))
      BY <2>2 DEF Reached, Numbered
    <3>2. Numbered => n < 2 * Half
      BY <1>0, <2>3 DEF Numbered
    <3>. QED
      BY <1>0, <2>3, <3>1, <3>2 DEF Numbered
  <2>n. Numbered =>
           \/ CheckPacket(expected, n).status = "Discard" /\ CheckPacket(expected, n).next = expected
           \/ /\ CheckPacket(expected, n).status # "Discard"
              /\ n > top /\ Expects(CheckPacket(expected, n).next, n)
    BY <2>3, <2>4, CheckGoesForward
  <2>5. CASE CheckPacket(expected, n).status = "Discard"
    <3>1. UNCHANGED <<reader, hand>>
      BY <1>8, <2>0, <2>5 DEF TakePacket
    <3>2. Numbered => expected' = expected
      BY <2>1, <2>5, <2>n
    <3>3. Taken' = Taken
      BY <2>1, <3>1 DEF Taken
    <3>4. Reached(top)'
      BY <2>1, <2>2, <2>3, <3>2, <3>3 DEF Reached, Numbered
    <3>. QED
      BY <2>1, <3>1, <3>3, <3>4 DEF OrderOK, OrderBase
  <2>6. CASE CheckPacket(expected, n).status # "Discard"
    <3>1. reader' = "sending" /\ hand' = <<n>>
      BY <1>8, <2>0, <2>6 DEF TakePacket
    <3>2. n > top /\ (Numbered => Expects(expected', n))
      <4>1. CASE Numbered
        BY <2>1, <2>6, <2>n, <4>1
      <4>2. CASE ~Numbered
        BY <2>1, <2>3, <4>2 DEF InReach, Numbered
      <4>. QED
        BY <4>1, <4>2
    <3>3. Taken' = Append(Taken, n)
      <4>1. n \in Int
        BY <2>3
      <4>2. <<played>> \o blockQ \o <<n>> = Append(<<played>> \o blockQ \o <<>>, n)
        BY <1>0, <4>1, TakenMoves
      <4>. QED
        BY <2>1, <3>1, <4>2 DEF Taken
    <3>4. Increasing(Taken') /\ UpTo(Taken', n)
      BY <1>0, <2>2, <2>3, <3>2, <3>3, IncreasingAdded DEF OrderOK, OrderBase, Reached, Numbered
    <3>5. Reached(n)'
      BY <2>1, <2>3, <3>2, <3>4 DEF Reached, Numbered
    <3>. QED
      BY <2>1, <2>3, <3>1, <3>4, <3>5 DEF OrderOK, OrderBase
  <2>. QED
    BY <2>5, <2>6
<1>9. CASE SendBlock
  <2>1. /\ reader = "sending" /\ blockQ' = blockQ \o hand /\ hand' = <<>>
        /\ UNCHANGED <<played, wire, sent, expected, mode>>
    BY <1>9 DEF SendBlock, ReaderElsewhere, logicVars, cbVars
  <2>2. Taken' = Taken
    BY <1>0, <2>1, TakenMoves DEF Taken
  <2>3. mode = "callback"
    BY <1>7, <2>1
  <2>. QED
    BY <2>1, <2>2, <2>3 DEF OrderOK, OrderBase, Reached, Numbered
<1>10. CASE QueueFull
  <2>1. /\ reader = "sending" /\ UNCHANGED <<blockQ, played, wire, sent, expected, mode>>
        /\ \/ UNCHANGED <<reader, hand>>
           \/ hand' = <<>>
    BY <1>10 DEF QueueFull, ReaderElsewhere, logicVars, cbVars
  <2>2. CASE UNCHANGED <<reader, hand>>
    BY <1>1, <2>1, <2>2, Zenon
  <2>3. CASE hand' = <<>>
    <3>1. Taken' = <<played>> \o blockQ /\ Taken' \in Seq(Int)
      BY <1>0, <2>1, <2>3, TakenMoves, ConcatEmptySeq, ConcatProperties DEF Taken
    <3>2. Taken = Taken' \o hand
      BY <3>1 DEF Taken
    <3>3. Increasing(Taken') /\ \A top \in Int : UpTo(Taken, top) => UpTo(Taken', top)
      BY <1>0, <3>1, <3>2, IncreasingStart DEF OrderOK, OrderBase
    <3>. QED
      BY <2>1, <2>3, <3>3 DEF OrderOK, OrderBase, Reached, Numbered
  <2>. QED
    BY <2>1, <2>2, <2>3
<1>11. CASE ReaderStarts \/ ReadTimesOut \/ ReadFails \/ DrainFails \/ WaitQuit
  BY <1>1, <1>11 DEF ReaderStarts, ReadTimesOut, ReadFails, DrainFails, WaitQuit,
                     ReaderGoes, ReaderElsewhere, logicVars, cbVars
<1>12. CASE DrainPacket
  <2>1. /\ reader = "draining" /\ reader' # "sending"
        /\ wire # <<>> /\ wire' = Tail(wire)
        /\ UNCHANGED <<played, blockQ, hand, sent, expected, mode>>
    BY <1>12 DEF DrainPacket, ReaderGoes, ReaderElsewhere, logicVars, cbVars
  <2>2. Taken' = Taken
    BY <2>1 DEF Taken
  <2>3. \A top \in Int : Reached(top) => NotLate(wire', top) /\ Sent(wire', sent)
    BY <1>0, <2>1, PacketTaken DEF Reached, Numbered
  <2>. QED
    BY <2>1, <2>2, <2>3 DEF OrderOK, OrderBase, Reached, Numbered
<1>13. CASE CallbackCalled \/ BlocksEnd \/ GetSilence \/ StreamFails
  <2>1. UNCHANGED <<played, hand, blockQ, wire, sent, expected, mode, reader>>
    BY <1>13 DEF CallbackCalled, BlocksEnd, GetSilence, StreamFails, CallbackFails,
                 CallbackGoes, CallbackElsewhere, logicVars, readerVars, netVars
  <2>. QED
    BY <1>1, <2>1
<1>14. CASE GetBlock
  <2>1. /\ mode = "callback" /\ blockQ # <<>> /\ played' = Head(blockQ) /\ blockQ' = Tail(blockQ)
        /\ UNCHANGED <<hand, wire, sent, expected, mode, reader>>
    BY <1>14 DEF GetBlock, CallbackElsewhere, logicVars, readerVars
  <2>2. Taken' = Tail(Taken) /\ played' \in Int
    BY <1>0, <2>1, TakenMoves, Removed DEF Taken
  <2>3. Taken # <<>>
    BY <1>0, TailOfFirst, ConcatEmptySeq DEF Taken
  <2>4. Increasing(Taken') /\ \A top \in Int : UpTo(Taken, top) => UpTo(Taken', top)
    BY <1>0, <2>2, <2>3, IncreasingRest DEF OrderOK, OrderBase
  <2>. QED
    BY <2>1, <2>2, <2>4 DEF OrderOK, OrderBase, Reached, Numbered
<1>15. CASE GetPacket
  <2>1. /\ mode = "direct" /\ wire # <<>> /\ played' = Head(wire)
        /\ UNCHANGED <<hand, blockQ, sent, mode, reader>>
    BY <1>15 DEF GetPacket, CallbackElsewhere, logicVars, readerVars
  <2>2. reader = "none" /\ hand = <<>> /\ blockQ = <<>> /\ played' \in Int
    BY <1>0, <2>1, Removed DEF FlagsOK, OrderOK, OrderBase
  <2>3. Taken' = <<played'>>
    BY <2>1, <2>2 DEF Taken
  <2>4. Increasing(Taken')
    BY <2>3 DEF Increasing
  <2>. QED
    BY <2>1, <2>2, <2>4 DEF OrderOK, OrderBase
<1>16. CASE SendPacket \/ LosePacket
  <2>1. /\ sent < MaxPackets /\ sent' = sent + 1
        /\ wire' = Append(wire, sent) \/ wire' = wire
        /\ UNCHANGED <<played, blockQ, hand, expected, mode, reader>>
    BY <1>16 DEF SendPacket, LosePacket, NetElsewhere, logicVars, cbVars, readerVars
  <2>2. Taken' = Taken /\ sent' \in 0..MaxPackets
    BY <1>0, <2>1 DEF Taken
  <2>3. ASSUME NEW top \in Int, Reached(top) PROVE Reached(top)'
    <3>1. NotLate(wire', top) /\ Sent(wire', sent + 1)
      <4>1. CASE wire' = Append(wire, sent)
        BY <1>0, <2>3, <4>1, PacketAdded DEF Reached, Numbered
      <4>2. CASE wire' = wire
        BY <1>0, <2>3, <4>2 DEF Reached, Sent
      <4>. QED
        BY <2>1, <4>1, <4>2
    <3>2. top < sent' /\ (Numbered' => Numbered)
      BY <1>0, <2>1, <2>3 DEF Reached, Numbered
    <3>. QED
      BY <2>1, <2>2, <2>3, <3>1, <3>2 DEF Reached
  <2>. QED
    BY <2>1, <2>2, <2>3 DEF OrderOK, OrderBase
<1>17. CASE SwapPackets
  <2>1. /\ Len(wire) >= 2 /\ wire[Len(wire)] - wire[Len(wire) - 1] \in 1..MaxLate
        /\ wire' = [wire EXCEPT ![Len(wire) - 1] = wire[Len(wire)],
                                ![Len(wire)] = wire[Len(wire) - 1]]
        /\ UNCHANGED <<sent, played, blockQ, hand, expected, mode, reader>>
    BY <1>17 DEF SwapPackets, NetElsewhere, logicVars, cbVars, readerVars
  <2>2. Taken' = Taken
    BY <2>1 DEF Taken
  <2>3. \A top \in Int : Reached(top) => NotLate(wire', top) /\ Sent(wire', sent)
    BY <1>0, <2>1, PacketsSwapped DEF Reached, Numbered
  <2>. QED
    BY <2>1, <2>2, <2>3 DEF OrderOK, OrderBase, Reached, Numbered
<1>. QED
  BY <1>2, <1>3, <1>4, <1>5, <1>6, <1>8, <1>9, <1>10, <1>11, <1>12, <1>13, <1>14, <1>15,
     <1>16, <1>17
     DEF Next, OboeThread, DataReader, Callback, Network

(* What holds in or out of reach.                                          *)
LEMMA OrderBaseStep ==
  ASSUME FlagsOK, QueuesOK, OrderBase, [Next]_vars
  PROVE  OrderBase'
<1>0. /\ MaxPackets \in Nat /\ sent \in 0..MaxPackets
      /\ blockQ \in Seq(Int) /\ wire \in Seq(Int)
  BY PlaybackBounds DEF QueuesOK, OrderBase
<1>1. ASSUME UNCHANGED <<played, hand, blockQ, sent>>, mode' = "direct" => mode = "direct",
             reader' = reader \/ (reader # "sending" /\ reader' # "sending")
      PROVE  OrderBase'
  BY <1>1 DEF OrderBase
<1>2. CASE AudioManager \/ UNCHANGED vars
  BY <1>1, <1>2 DEF AudioManager, AskPlay, AskStop, TimerTick, AskQuit, Asks,
                    vars, logicVars, cbVars, readerVars, netVars
<1>3. CASE PlayCallbackMode \/ PlayDirectMode
  <2>1. CASE UNCHANGED <<mode, cbVars, readerVars, blockQ, netVars>>
    BY <1>1, <2>1 DEF cbVars, readerVars, netVars
  <2>2. CASE PlayCallbackMode /\ ~UNCHANGED <<mode, cbVars, readerVars, blockQ, netVars>>
    BY <1>0, <2>2 DEF PlayCallbackMode, PanicOnFlag, StartsStream, NoPacket, OrderBase
  <2>3. CASE PlayDirectMode /\ ~UNCHANGED <<mode, cbVars, readerVars, blockQ, netVars>>
    BY <1>0, <2>3 DEF PlayDirectMode, PanicOnFlag, StartsStream, NoPacket, OrderBase, readerVars
  <2>. QED
    BY <1>3, <2>1, <2>2, <2>3
<1>4. CASE PlayRefused \/ HandleStop \/ HandleQuit \/ HandleReaderError
           \/ HandleBufferingDone \/ HandleTick
  BY <1>1, <1>4 DEF PlayRefused, HandleStop, HandleQuit, HandleReaderError,
                    HandleBufferingDone, HandleTick, logicVars, cbVars, readerVars, netVars
<1>5. CASE JoinReader \/ CloseOboe
  BY <1>1, <1>5 DEF JoinReader, Joined, CloseOboe, Closed, cbVars, readerVars, netVars
<1>6. ASSUME reader # "none" PROVE mode = "callback"
  BY <1>6 DEF FlagsOK
<1>7. CASE TakePacket \/ SendBlock \/ QueueFull \/ ReaderStarts \/ ReadTimesOut \/ ReadFails
           \/ DrainPacket \/ DrainFails \/ WaitQuit
  <2>1. reader # "none" /\ UNCHANGED <<mode, played, sent>>
    BY <1>7 DEF TakePacket, SendBlock, QueueFull, ReaderStarts, ReadTimesOut, ReadFails,
                DrainPacket, DrainFails, WaitQuit, ReaderGoes, ReaderElsewhere, logicVars, cbVars
  <2>2. reader' # "sending" => hand' = <<>>
    BY <1>7 DEF TakePacket, SendBlock, QueueFull, ReaderStarts, ReadTimesOut, ReadFails,
                DrainPacket, DrainFails, WaitQuit, ReaderGoes, OrderBase
  <2>. QED
    BY <1>6, <2>1, <2>2 DEF OrderBase
<1>8. CASE CallbackCalled \/ BlocksEnd \/ GetSilence \/ StreamFails
  BY <1>1, <1>8 DEF CallbackCalled, BlocksEnd, GetSilence, StreamFails, CallbackFails,
                    CallbackGoes, CallbackElsewhere, logicVars, readerVars, netVars
<1>9. CASE GetBlock \/ GetPacket
  <2>1. /\ played' \in Int
        /\ UNCHANGED <<hand, sent, mode, reader>>
        /\ mode = "direct" => blockQ' = blockQ
    BY <1>0, <1>9, Removed
       DEF GetBlock, GetPacket, CallbackElsewhere, logicVars, readerVars
  <2>. QED
    BY <2>1 DEF OrderBase
<1>10. CASE Network
  <2>1. /\ sent' = sent \/ (sent < MaxPackets /\ sent' = sent + 1)
        /\ UNCHANGED <<played, blockQ, hand, mode, reader>>
    BY <1>10 DEF Network, SendPacket, LosePacket, SwapPackets, NetElsewhere,
                 logicVars, cbVars, readerVars
  <2>. QED
    BY <1>0, <2>1 DEF OrderBase
<1>. QED
  BY <1>2, <1>3, <1>4, <1>5, <1>7, <1>8, <1>9, <1>10
     DEF Next, OboeThread, DataReader, Callback

(* Only a new stream comes into reach: it has played nothing yet.          *)
LEMMA ReachRegained ==
  ASSUME FlagsOK, QueuesOK, OrderBase, ~InReach, InReach', [Next]_vars
  PROVE  OrderOK'
<1>0. /\ Half \in Nat \ {0} /\ MaxPackets \in Nat /\ MaxLate \in Nat /\ sent \in Nat
  BY HalfAssumption, PlaybackBounds, NetworkAssumption DEF OrderBase
<1>1. sent' # sent /\ sent' # sent + 1
  BY <1>0 DEF InReach
<1>2. PlayCallbackMode \/ PlayDirectMode
  <2>1. CASE AudioManager \/ UNCHANGED vars
    BY <1>1, <2>1 DEF AudioManager, AskPlay, AskStop, TimerTick, AskQuit, Asks, vars, netVars
  <2>2. CASE OboeThread
    BY <1>1, <2>2 DEF OboeThread, PlayRefused, HandleStop, HandleQuit, HandleReaderError,
          HandleBufferingDone, HandleTick, JoinReader, Joined, CloseOboe, Closed, netVars
  <2>3. CASE DataReader
    BY <1>1, <2>3 DEF DataReader, TakePacket, SendBlock, QueueFull, ReaderStarts, ReadTimesOut,
          ReadFails, DrainPacket, DrainFails, WaitQuit, ReaderGoes, ReaderElsewhere
  <2>4. CASE Callback
    BY <1>1, <2>4 DEF Callback, CallbackCalled, BlocksEnd, GetSilence, StreamFails, GetBlock,
          GetPacket, CallbackFails, CallbackGoes, CallbackElsewhere
  <2>5. CASE Network
    BY <1>1, <2>5 DEF Network, SendPacket, LosePacket, SwapPackets
  <2>. QED
    BY <2>1, <2>2, <2>3, <2>4, <2>5 DEF Next
<1>3. OrderBase'
  BY OrderBaseStep
<1>4. CASE PlayCallbackMode
  <2>1. /\ mode' = "callback" /\ hand' = <<>> /\ blockQ' = <<>> /\ wire' = <<>>
        /\ sent' = 0 /\ played' = -1 /\ expected' = FirstExpected
    BY <1>1, <1>4 DEF PlayCallbackMode, PanicOnFlag, StartsStream, NoPacket, netVars
  <2>2. Taken' = <<-1>>
    BY <2>1 DEF Taken
  <2>3. Increasing(Taken') /\ UpTo(Taken', -1)
    BY <2>2 DEF Increasing, UpTo
  <2>4. Expects(FirstExpected, -1) /\ NotLate(<<>>, -1) /\ Sent(<<>>, 0)
    BY <1>0 DEF Expects, FirstExpected, NotLate, Sent
  <2>5. Reached(-1)'
    BY <2>1, <2>3, <2>4 DEF Reached
  <2>. QED
    BY <1>3, <2>3, <2>5 DEF OrderOK
<1>5. CASE PlayDirectMode
  <2>1. /\ mode' = "direct" /\ blockQ' = <<>> /\ mode = "none" /\ played' = -1
        /\ UNCHANGED <<reader, hand>>
    BY <1>1, <1>5 DEF PlayDirectMode, PanicOnFlag, StartsStream, NoPacket, netVars, readerVars
  <2>2. reader = "none" /\ hand = <<>>
    BY <2>1 DEF FlagsOK, OrderBase
  <2>3. Taken' = <<-1>>
    BY <2>1, <2>2 DEF Taken
  <2>. QED
    BY <1>3, <2>1, <2>3 DEF Increasing, OrderOK
<1>. QED
  BY <1>2, <1>4, <1>5

LEMMA OrderInvStep ==
  ASSUME FlagsOK, QueuesOK, OrderInv, [Next]_vars
  PROVE  OrderInv'
BY OrderStep, OrderBaseStep, ReachRegained DEF OrderInv

(* What is played never goes back or repeats, however packets are lost and *)
(* overtake each other, across a change of the wrap flag, through the block*)
(* queue and across stops and starts (oboe.rs:608-664, 735-791), for any   *)
(* mask: in a stream of any length when no packet overtakes another, and   *)
(* otherwise until a stream has sent more than twice WRAP_BYTE_MASK        *)
(* packets, if a packet is overtaken by less than that mask.  Beyond, it is*)
(* not true: the bits above the mask stay in the count, and an old packet  *)
(* passes for new.                                                         *)
THEOREM PlayedInOrderAlways == Spec => []PlayedInOrder
<1>. DEFINE PInv == FlagsOK /\ QueuesOK /\ OrderInv
<1>1. Init => PInv
  BY FlagsStart, QueuesStart, OrderStart DEF OrderInv, OrderOK
<1>2. PInv /\ [Next]_vars => PInv'
  BY FlagsStep, QueuesStep, OrderInvStep
<1>3. PInv => PlayedInOrder
  BY DEF OrderInv, OrderOK, Increasing, PlayedInOrder
<1>. QED
  BY <1>1, <1>2, <1>3, PTL DEF Spec
=============================================================================
