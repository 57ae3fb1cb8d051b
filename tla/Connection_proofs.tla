------------------------- MODULE Connection_proofs -------------------------
(***************************************************************************)
(* Proofs about module Connection, for every channel capacity and every    *)
(* number of messages.                                                     *)
(***************************************************************************)
EXTENDS Connection, QueueLemmas

(* What taking an element from a bounded queue leaves.                     *)
LEMMA Taken ==
  ASSUME NEW S, NEW q \in Seq(S), q # <<>>
  PROVE  /\ Head(q) \in S
         /\ Tail(q) \in Seq(S)
         /\ Len(Tail(q)) = Len(q) - 1
         /\ Len(q) \in Nat /\ Len(q) >= 1
         /\ <<Head(q)>> \in Seq(S) /\ Len(<<Head(q)>>) = 1
BY HeadTailProperties, EmptySeq

(* What adding one to a queue that has room leaves.                        *)
LEMMA Added ==
  ASSUME NEW S, NEW q \in Seq(S), NEW e \in S, NEW n \in Nat, Len(q) < n
  PROVE  Append(q, e) \in Seq(S) /\ Len(Append(q, e)) <= n
BY AppendProperties, LenProperties

(* Type correctness and the capacities of the five buffers: no channel of  *)
(* the task ever holds more than EVENT_CHANNEL_SIZE (utils.rs:190, 215).   *)
THEOREM TypeCorrect == Spec => []TypeOK
<1>. USE ChannelAssumption DEF Errors
<1>1. Init => TypeOK
  <2>1. /\ <<>> \in Seq(Frames) /\ <<>> \in Seq(Ids) /\ <<>> \in Seq(Events)
        /\ Len(<<>>) = 0 /\ ChannelSize \in Nat /\ WireSize \in Nat
    BY EmptySeq
  <2>. QED
    BY <2>1 DEF Init, TypeOK
<1>2. TypeOK /\ [Next]_vars => TypeOK'
  <2>. SUFFICES ASSUME TypeOK, [Next]_vars PROVE TypeOK'
    OBVIOUS
  <2>. USE DEF TypeOK, taskVars, outVars, inVars
  <2>1. CASE Forward
    BY <2>1 DEF Forward
  <2>2. CASE Enqueue
    <3>1. Head(inHand) \in Ids /\ pc' = "select" /\ inHand' = <<>>
      BY <2>2, Taken DEF Enqueue
    <3>2. writeQ' \in Seq(Ids) /\ Len(writeQ') <= ChannelSize
      BY <2>2, <3>1, Added DEF Enqueue
    <3>. QED
      BY <2>2, <3>1, <3>2 DEF Enqueue
  <2>3. CASE ReadSize
    BY <2>3 DEF ReadSize
  <2>4. CASE ReadMessage
    <3>. Head(reading) \in Frames
      BY <2>4, Taken DEF ReadMessage
    <3>0. Head(reading).n \in Ids
      BY DEF Frames
    <3>1. toReport' \in Seq(Events) /\ Len(toReport') = 1 /\ toReport' # <<>>
      BY <2>4, <3>0 DEF ReadMessage, Events
    <3>2. reading' \in Seq(Frames) /\ Len(reading') <= 1
      BY <2>4 DEF ReadMessage
    <3>. QED
      BY <2>4, <3>1, <3>2 DEF ReadMessage
  <2>5. CASE ReadFails
    BY <2>5 DEF ReadFails, ErrorEvent, Events, Ids
  <2>6. CASE WriterReceives
    BY <2>6 DEF WriterReceives
  <2>7. CASE WriterWrites
    BY <2>7 DEF WriterWrites
  <2>8. CASE WriterFails
    BY <2>8 DEF WriterFails, ErrorEvent, Events, Ids
  <2>9. CASE Report
    <3>1. Head(toReport) \in Events /\ toReport' = <<>>
      BY <2>9, Taken DEF Report
    <3>2. upQ' \in Seq(Events) /\ Len(upQ') <= ChannelSize
      BY <2>9, <3>1, Added DEF Report
    <3>3. pc' \in {"select", "waitQuit"} /\ inHand' = <<>>
      BY <2>9 DEF Report
    <3>4. toReport' \in Seq(Events) /\ Len(toReport') <= 1
      BY <3>1
    <3>. QED
      BY <2>9, <3>1, <3>2, <3>3, <3>4 DEF Report
  <2>10. CASE TakeQuit
    BY <2>10 DEF TakeQuit
  <2>11. CASE StartSend
    BY <2>11 DEF StartSend
  <2>12. CASE SendDown
    BY <2>12 DEF SendDown, Ids
  <2>13. CASE ReceiveUp
    <3>1. Head(upQ) \in Events /\ upQ' \in Seq(Events) /\ Len(upQ') <= ChannelSize
      BY <2>13, Taken DEF ReceiveUp
    <3>2. Head(upQ).n \in Ids
      BY <3>1 DEF Events
    <3>3. ownerError' \in Errors \cup {"none"} /\ ownerGot' \in Seq(Ids)
      <4>1. CASE IsError(Head(upQ))
        BY <2>13, <4>1 DEF ReceiveUp, IsError
      <4>2. CASE ~IsError(Head(upQ))
        <5>1. ownerGot \in Seq(Ids) /\ ownerGot' = Append(ownerGot, Head(upQ).n)
          BY <2>13, <4>2 DEF ReceiveUp
        <5>2. UNCHANGED ownerError
          BY <2>13, <4>2 DEF ReceiveUp
        <5>. QED
          BY <3>2, <5>1, <5>2, AppendProperties
      <4>. QED
        BY <4>1, <4>2
    <3>. QED
      BY <2>13, <3>1, <3>3 DEF ReceiveUp
  <2>14. CASE Quit
    BY <2>14 DEF Quit
  <2>15. CASE PeerReads
    <3>. outWire \in Seq(Ids) /\ outWire # <<>> /\ outWire' = Tail(outWire)
      BY <2>15 DEF PeerReads
    <3>1. Head(outWire) \in Ids /\ outWire' \in Seq(Ids) /\ Len(outWire') <= WireSize
      BY Taken
    <3>2. peerGot' \in Seq(Ids)
      BY <2>15, <3>1 DEF PeerReads
    <3>. QED
      BY <2>15, <3>1, <3>2 DEF PeerReads
  <2>16. CASE PeerSends
    BY <2>16 DEF PeerSends, Frames, Ids
  <2>17. CASE PeerCloses
    BY <2>17 DEF PeerCloses
  <2>18. CASE UNCHANGED vars
    BY <2>18 DEF vars
  <2>19. QED
    BY <2>1, <2>2, <2>3, <2>4, <2>5, <2>6, <2>7, <2>8, <2>9, <2>10, <2>11,
       <2>12, <2>13, <2>14, <2>15, <2>16, <2>17, <2>18
       DEF Next, Task, Read, Write, Owner, Peer
<1>3. QED
  BY <1>1, <1>2, PTL DEF Spec
-----------------------------------------------------------------------------
(* Moving the first element of a queue to the end of the one before it     *)
(* leaves their concatenation, and with it what lies before them, as it is.*)
LEMMA Move ==
  ASSUME NEW S, NEW p \in Seq(S), NEW s \in Seq(S), NEW t \in Seq(S), t # <<>>
  PROVE  (p \o Append(s, Head(t))) \o Tail(t) = (p \o s) \o t
<1>1. Head(t) \in S /\ Tail(t) \in Seq(S) /\ t = <<Head(t)>> \o Tail(t)
  <2>1. Head(t) \in S /\ Tail(t) \in Seq(S) /\ Len(Tail(t)) = Len(t) - 1
        /\ \A i \in 1..Len(Tail(t)) : Tail(t)[i] = t[i + 1]
    BY HeadTailProperties
  <2>2. /\ <<Head(t)>> \in Seq(S) /\ Len(<<Head(t)>>) = 1
        /\ <<Head(t)>>[1] = t[1] /\ Len(t) \in Nat
    BY <2>1
  <2>. DEFINE u == <<Head(t)>> \o Tail(t)
  <2>3. /\ u \in Seq(S) /\ Len(u) = Len(t)
        /\ \A i \in 1..Len(t) : u[i] = IF i <= 1 THEN <<Head(t)>>[i] ELSE Tail(t)[i - 1]
    BY <2>1, <2>2, ConcatProperties
  <2>4. \A i \in 1..Len(t) : u[i] = t[i]
    BY <2>1, <2>2, <2>3
  <2>. HIDE DEF u
  <2>5. u = t
    BY <2>3, <2>4, SeqEqual
  <2>. QED
    BY <2>1, <2>5 DEF u
<1>2. p \o Append(s, Head(t)) = (p \o s) \o <<Head(t)>>
  BY <1>1, AppendIsConcat, ConcatAssociative
<1>3. p \o s \in Seq(S) /\ <<Head(t)>> \in Seq(S)
  BY <1>1, ConcatProperties
<1>4. ((p \o s) \o <<Head(t)>>) \o Tail(t) = (p \o s) \o (<<Head(t)>> \o Tail(t))
  BY <1>1, <1>3, ConcatAssociative
<1>. QED
  BY <1>1, <1>2, <1>4

(* The same, for the queues of numbers, in the form Zenon instantiates.    *)
LEMMA MoveIds ==
  \A p, s, t \in Seq(Ids) :
     t # <<>> => (p \o Append(s, Head(t))) \o Tail(t) = (p \o s) \o t
<1>. SUFFICES ASSUME NEW p \in Seq(Ids), NEW s \in Seq(Ids), NEW t \in Seq(Ids), t # <<>>
              PROVE  (p \o Append(s, Head(t))) \o Tail(t) = (p \o s) \o t
  OBVIOUS
<1>. QED
  BY Move

(* A queue of at most one element is empty once that element is taken.     *)
LEMMA OneElement ==
  ASSUME NEW S, NEW t \in Seq(S), t # <<>>, Len(t) <= 1
  PROVE  Tail(t) = <<>> /\ t = <<Head(t)>>
<1>1. /\ Len(t) \in Nat /\ Len(t) >= 1
      /\ Tail(t) \in Seq(S) /\ Len(Tail(t)) = Len(t) - 1
      /\ <<Head(t)>> \in Seq(S) /\ Len(<<Head(t)>>) = 1
  BY Taken
<1>2. Len(t) = 1 /\ Len(Tail(t)) = 0
  BY <1>1
<1>3. Tail(t) = <<>>
  BY <1>1, <1>2, EmptySeq
<1>4. <<Head(t)>>[1] = t[1]
  BY <1>2
<1>5. t = <<Head(t)>>
  BY <1>1, <1>2, <1>4, SeqEqual
<1>. QED
  BY <1>3, <1>5

(* Giving one more message extends the numbering by one.                   *)
LEMMA Numbering ==
  ASSUME NEW n \in Nat
  PROVE  /\ FirstNumbers(n) \in Seq(Ids)
         /\ Append(FirstNumbers(n), n + 1) = FirstNumbers(n + 1)
<1>1. FirstNumbers(n) \in Seq(Ids) /\ Len(FirstNumbers(n)) = n
  BY DEF FirstNumbers, Ids
<1>2. FirstNumbers(n + 1) \in Seq(Ids) /\ Len(FirstNumbers(n + 1)) = n + 1
  BY DEF FirstNumbers, Ids
<1>3. Append(FirstNumbers(n), n + 1) \in Seq(Ids) /\ Len(Append(FirstNumbers(n), n + 1)) = n + 1
  BY <1>1, AppendProperties DEF Ids
<1>4. \A i \in 1..(n + 1) : Append(FirstNumbers(n), n + 1)[i] = FirstNumbers(n + 1)[i]
  BY <1>1, AppendProperties DEF FirstNumbers, Ids
<1>. QED
  BY <1>1, <1>2, <1>3, <1>4, SeqEqual

(* What the owner gave, in the order it gave it, lies in the buffers       *)
(* between send_down and the peer, whatever their capacities               *)
(* (utils.rs:219-266, 318-346).                                            *)
THEOREM OutboundOrdered == Spec => []OutboundOrder
<1>1. Init => OutboundOrder
  <2>1. FirstNumbers(0) = <<>>
    <3>1. FirstNumbers(0) \in Seq(Ids) /\ Len(FirstNumbers(0)) = 0
      BY DEF FirstNumbers, Ids
    <3>. QED
      BY <3>1, EmptySeq
  <2>2. <<>> \o <<>> = <<>>
    BY EmptySeq, ConcatEmptySeq
  <2>. QED
    BY <2>1, <2>2 DEF Init, OutboundOrder
<1>2. TypeOK /\ OutboundOrder /\ [Next]_vars => OutboundOrder'
  <2>. SUFFICES ASSUME TypeOK, OutboundOrder, [Next]_vars PROVE OutboundOrder'
    OBVIOUS
  <2>. DEFINE sent == peerGot \o outWire
              a == sent \o writing
              b == a \o writeQ
              c == b \o inHand
  <2>0. /\ peerGot \in Seq(Ids) /\ outWire \in Seq(Ids) /\ writing \in Seq(Ids)
        /\ writeQ \in Seq(Ids) /\ inHand \in Seq(Ids) /\ downQ \in Seq(Ids)
        /\ Len(writing) <= 1 /\ Len(inHand) <= 1 /\ given \in Nat
    BY DEF TypeOK
  <2>e. <<>> \in Seq(Ids) /\ \A s \in Seq(Ids) : s \o <<>> = s /\ <<>> \o s = s
    BY EmptySeq, ConcatEmptySeq
  <2>s. sent \in Seq(Ids) /\ a \in Seq(Ids) /\ b \in Seq(Ids) /\ c \in Seq(Ids)
    BY <2>0, ConcatProperties
  <2>c. c \o downQ = FirstNumbers(given)
    BY DEF OutboundOrder
  <2>k. (c \o downQ)' = FirstNumbers(given') => OutboundOrder'
    BY DEF OutboundOrder
  <2>. HIDE DEF sent, a, b, c
  <2>1. CASE Forward
    <3>1. /\ inHand = <<>> /\ inHand' = Append(inHand, Head(downQ))
          /\ downQ # <<>> /\ downQ' = Tail(downQ) /\ b' = b /\ given' = given
      BY <2>1 DEF Forward, TypeOK, b, a, sent
    <3>2. (b \o Append(inHand, Head(downQ))) \o Tail(downQ) = c \o downQ
      <4>1. downQ # <<>>
        BY <3>1
      <4>2. downQ \in Seq(Ids) /\ inHand \in Seq(Ids) /\ b \in Seq(Ids)
        BY <2>0, <2>s
      <4>3. (b \o Append(inHand, Head(downQ))) \o Tail(downQ) = (b \o inHand) \o downQ
        BY <4>1, <4>2, MoveIds, Zenon
      <4>. QED
        BY <4>3 DEF c
    <3>3. (c \o downQ)' = c \o downQ
      BY <3>1, <3>2 DEF sent, a, b, c
    <3>. QED
      BY <3>1, <3>3, <2>c, <2>k
  <2>2. CASE Enqueue
    <3>1. /\ inHand # <<>> /\ inHand' = Tail(inHand)
          /\ writeQ' = Append(writeQ, Head(inHand)) /\ a' = a
          /\ given' = given /\ downQ' = downQ
      BY <2>2, <2>0, OneElement DEF Enqueue, TypeOK, a, sent
    <3>2. (a \o Append(writeQ, Head(inHand))) \o Tail(inHand) = c
      <4>1. inHand # <<>>
        BY <3>1
      <4>2. inHand \in Seq(Ids) /\ writeQ \in Seq(Ids) /\ a \in Seq(Ids)
        BY <2>0, <2>s
      <4>3. (a \o Append(writeQ, Head(inHand))) \o Tail(inHand) = (a \o writeQ) \o inHand
        BY <4>1, <4>2, MoveIds, Zenon
      <4>. QED
        BY <4>3 DEF b, c
    <3>3. (c \o downQ)' = c \o downQ
      BY <3>1, <3>2 DEF sent, a, b, c
    <3>. QED
      BY <3>1, <3>3, <2>c, <2>k
  <2>3. CASE WriterReceives
    <3>1. /\ writing = <<>> /\ writing' = Append(writing, Head(writeQ))
          /\ writeQ # <<>> /\ writeQ' = Tail(writeQ)
          /\ UNCHANGED <<peerGot, outWire, inHand, downQ, given>>
      BY <2>3 DEF WriterReceives
    <3>2. (sent \o Append(writing, Head(writeQ))) \o Tail(writeQ) = b
      <4>1. writeQ # <<>>
        BY <3>1
      <4>2. writeQ \in Seq(Ids) /\ writing \in Seq(Ids) /\ sent \in Seq(Ids)
        BY <2>0, <2>s
      <4>3. (sent \o Append(writing, Head(writeQ))) \o Tail(writeQ) = (sent \o writing) \o writeQ
        BY <4>1, <4>2, MoveIds, Zenon
      <4>. QED
        BY <4>3 DEF a, b
    <3>3. (c \o downQ)' = c \o downQ
      BY <3>1, <3>2 DEF sent, a, b, c
    <3>. QED
      BY <3>1, <3>3, <2>c, <2>k
  <2>4. CASE WriterWrites
    <3>1. /\ writing # <<>> /\ writing' = Tail(writing)
          /\ outWire' = Append(outWire, Head(writing))
          /\ UNCHANGED <<peerGot, writeQ, inHand, downQ, given>>
      BY <2>4, <2>0, OneElement DEF WriterWrites
    <3>2. (peerGot \o Append(outWire, Head(writing))) \o Tail(writing) = a
      <4>1. writing # <<>>
        BY <3>1
      <4>2. writing \in Seq(Ids) /\ outWire \in Seq(Ids) /\ peerGot \in Seq(Ids)
        BY <2>0, <2>s
      <4>3. (peerGot \o Append(outWire, Head(writing))) \o Tail(writing) = (peerGot \o outWire) \o writing
        BY <4>1, <4>2, MoveIds, Zenon
      <4>. QED
        BY <4>3 DEF sent, a
    <3>3. (c \o downQ)' = c \o downQ
      BY <3>1, <3>2 DEF sent, a, b, c
    <3>. QED
      BY <3>1, <3>3, <2>c, <2>k
  <2>5. CASE PeerReads
    <3>1. /\ outWire # <<>> /\ outWire' = Tail(outWire)
          /\ peerGot' = Append(peerGot, Head(outWire))
          /\ UNCHANGED <<writing, writeQ, inHand, downQ, given>>
      BY <2>5 DEF PeerReads, taskVars
    <3>2. outWire # <<>> /\ outWire \in Seq(Ids) /\ peerGot \in Seq(Ids)
      BY <2>0, <3>1
    <3>3. /\ (<<>> \o Append(peerGot, Head(outWire))) \o Tail(outWire) = (<<>> \o peerGot) \o outWire
          /\ Append(peerGot, Head(outWire)) \in Seq(Ids)
      <4>1. (<<>> \o Append(peerGot, Head(outWire))) \o Tail(outWire) = (<<>> \o peerGot) \o outWire
        BY <2>e, <3>2, MoveIds, Zenon
      <4>. QED
        BY <3>2, <4>1, Taken, AppendProperties
    <3>4. Append(peerGot, Head(outWire)) \o Tail(outWire) = sent
      BY <2>e, <3>2, <3>3, Zenon DEF sent
    <3>5. (c \o downQ)' = c \o downQ
      BY <3>1, <3>4 DEF sent, a, b, c
    <3>. QED
      BY <3>1, <3>5, <2>c, <2>k
  <2>6. CASE SendDown
    <3>1. /\ downQ' = Append(downQ, given + 1) /\ given' = given + 1 /\ c' = c
      BY <2>6 DEF SendDown, taskVars, sent, a, b, c
    <3>2. given + 1 \in Ids
      BY <2>0 DEF Ids
    <3>3. c \o Append(downQ, given + 1) = Append(c \o downQ, given + 1)
      <4>1. \A p, q \in Seq(Ids), e \in Ids : p \o Append(q, e) = Append(p \o q, e)
        BY AppendIsConcat, ConcatAssociative, ConcatProperties
      <4>2. given + 1 \in Ids /\ c \in Seq(Ids) /\ downQ \in Seq(Ids)
        BY <2>0, <2>s, <3>2
      <4>. QED
        BY <4>1, <4>2, Zenon
    <3>4. (c \o downQ)' = Append(c \o downQ, given + 1)
      BY <3>1, <3>3
    <3>. QED
      BY <2>0, <2>c, <3>1, <3>4, Numbering, <2>k
  <2>7. CASE UNCHANGED <<peerGot, outWire, writing, writeQ, inHand, downQ, given>>
    BY <2>7 DEF OutboundOrder
  <2>8. QED
    BY <2>1, <2>2, <2>3, <2>4, <2>5, <2>6, <2>7
       DEF Next, Task, Read, Write, Owner, Peer, vars, taskVars, outVars,
           ReadSize, ReadMessage, ReadFails, WriterFails, Report, TakeQuit,
           StartSend, ReceiveUp, Quit, PeerSends, PeerCloses
<1>3. QED
  BY <1>1, <1>2, TypeCorrect, PTL DEF Spec
-----------------------------------------------------------------------------
(* Queues of events: none is an error, or only the last one.               *)
Clean(q) == \A i \in 1..Len(q) : ~IsError(q[i])
ErrorLast(q) == \A i \in 1..Len(q) : IsError(q[i]) => i = Len(q)

(* Adding to a clean queue.                                                *)
LEMMA CleanAdded ==
  ASSUME NEW q \in Seq(Events), Clean(q), NEW e \in Events
  PROVE  /\ Append(q, e) \in Seq(Events)
         /\ ErrorLast(Append(q, e))
         /\ ~IsError(e) => Clean(Append(q, e))
<1>1. /\ Append(q, e) \in Seq(Events) /\ Len(Append(q, e)) = Len(q) + 1
      /\ \A i \in 1..Len(q) : Append(q, e)[i] = q[i]
      /\ Append(q, e)[Len(q) + 1] = e
  BY AppendProperties
<1>2. Len(q) \in Nat
  BY LenProperties
<1>3. \A i \in 1..Len(q) : ~IsError(Append(q, e)[i])
  BY <1>1 DEF Clean
<1>4. ErrorLast(Append(q, e))
  <2>. SUFFICES ASSUME NEW i \in 1..Len(Append(q, e)), IsError(Append(q, e)[i])
                PROVE  i = Len(Append(q, e))
    BY DEF ErrorLast
  <2>1. i \notin 1..Len(q)
    BY <1>3
  <2>. QED
    BY <1>1, <1>2, <2>1
<1>5. ASSUME ~IsError(e) PROVE Clean(Append(q, e))
  <2>. SUFFICES ASSUME NEW i \in 1..Len(Append(q, e)) PROVE ~IsError(Append(q, e)[i])
    BY DEF Clean
  <2>1. i \in 1..Len(q) \/ i = Len(q) + 1
    BY <1>1, <1>2
  <2>. QED
    BY <1>1, <1>3, <1>5, <2>1
<1>. QED
  BY <1>1, <1>4, <1>5

(* Taking the first event: an error leaves nothing behind it.              *)
LEMMA ErrorLastTaken ==
  ASSUME NEW q \in Seq(Events), q # <<>>, ErrorLast(q)
  PROVE  /\ ErrorLast(Tail(q))
         /\ IsError(Head(q)) => Tail(q) = <<>>
<1>1. /\ Len(q) \in Nat /\ Len(q) >= 1 /\ Tail(q) \in Seq(Events)
      /\ Len(Tail(q)) = Len(q) - 1
  BY Taken
<1>2. Head(q) = q[1] /\ \A i \in 1..Len(Tail(q)) : Tail(q)[i] = q[i + 1]
  BY HeadTailProperties
<1>3. \A i \in 1..Len(Tail(q)) : i + 1 \in 1..Len(q)
  BY <1>1
<1>4. ErrorLast(Tail(q))
  <2>. SUFFICES ASSUME NEW i \in 1..Len(Tail(q)), IsError(Tail(q)[i])
                PROVE  i = Len(Tail(q))
    BY DEF ErrorLast
  <2>1. i + 1 \in 1..Len(q) /\ IsError(q[i + 1])
    BY <1>2, <1>3
  <2>2. i + 1 = Len(q)
    BY <2>1 DEF ErrorLast
  <2>3. i = Len(q) - 1
    <3>1. i \in Int /\ Len(q) \in Int
      BY <1>1
    <3>. QED
      BY <2>2, <3>1
  <2>. QED
    BY <1>1, <2>3, Zenon
<1>5. ASSUME IsError(Head(q)) PROVE Tail(q) = <<>>
  <2>1. Len(q) = 1
    <3>1. 1 \in 1..Len(q) /\ IsError(q[1])
      BY <1>1, <1>2, <1>5
    <3>. QED
      BY <3>1 DEF ErrorLast
  <2>2. Len(q) <= 1
    BY <2>1
  <2>. QED
    BY <2>2, OneElement
<1>. QED
  BY <1>4, <1>5

(* What makes ErrorIsFinal inductive: while the task can still read or     *)
(* write, and while an event waits to be reported, no error was received   *)
(* and none is queued; an error is the last event queued.                  *)
EInv ==
    /\ pc \in {"select", "enqueue"} \/ toReport # <<>>
          => ownerError = "none" /\ Clean(upQ)
    /\ ErrorLast(upQ)
    /\ ownerError # "none" => upQ = <<>>

LEMMA CleanIsErrorLast ==
  ASSUME NEW q \in Seq(Events), Clean(q) PROVE ErrorLast(q)
BY DEF Clean, ErrorLast

(* The first event leaves a clean queue clean, and is not an error.        *)
LEMMA CleanTaken ==
  ASSUME NEW q \in Seq(Events), q # <<>>, Clean(q)
  PROVE  Clean(Tail(q)) /\ ~IsError(Head(q))
<1>1. /\ Len(q) \in Nat /\ Len(q) >= 1
      /\ Len(Tail(q)) = Len(q) - 1
  BY Taken
<1>2. Head(q) = q[1] /\ \A i \in 1..Len(Tail(q)) : Tail(q)[i] = q[i + 1]
  BY HeadTailProperties
<1>3. \A i \in 1..Len(Tail(q)) : i + 1 \in 1..Len(q)
  BY <1>1
<1>4. ~IsError(q[1])
  <2>. 1 \in 1..Len(q)
    BY <1>1
  <2>. QED
    BY DEF Clean
<1>5. Clean(Tail(q))
  <2>. SUFFICES ASSUME NEW i \in 1..Len(Tail(q)) PROVE ~IsError(Tail(q)[i])
    BY DEF Clean
  <2>. QED
    BY <1>2, <1>3 DEF Clean
<1>. QED
  BY <1>2, <1>4, <1>5

(* The strengthening of ErrorIsFinal holds in every reachable state.       *)
LEMMA ErrorInvariant == Spec => []EInv
<1>1. Init => EInv
  BY DEF Init, EInv, Clean, ErrorLast
<1>2. TypeOK /\ EInv /\ [Next]_vars => EInv'
  <2> SUFFICES ASSUME TypeOK, EInv, [Next]_vars PROVE EInv'
    OBVIOUS
  <2>1. CASE Forward
    BY <2>1 DEF Forward, inVars, EInv
  <2>2. CASE Enqueue
    <3>1. inHand # <<>> /\ toReport' = toReport /\ pc = "enqueue"
          /\ upQ' = upQ /\ ownerError' = ownerError
      BY <2>2 DEF Enqueue, TypeOK, inVars
    <3>. QED
      BY <3>1 DEF EInv
  <2>3. CASE ReadSize
    BY <2>3 DEF ReadSize, EInv
  <2>4. CASE ReadMessage \/ ReadFails \/ WriterFails
    <3>1. pc = "select" /\ upQ' = upQ /\ ownerError' = ownerError
      BY <2>4 DEF ReadMessage, ReadFails, WriterFails, inVars
    <3>. QED
      BY <3>1 DEF EInv
  <2>5. CASE WriterReceives \/ WriterWrites
    BY <2>5 DEF WriterReceives, WriterWrites, inVars, EInv
  <2>6. CASE Report
    <3>1. /\ upQ' = Append(upQ, Head(toReport)) /\ ownerError' = ownerError
          /\ toReport' = <<>>
          /\ pc' = IF IsError(Head(toReport)) THEN "waitQuit" ELSE "select"
      BY <2>6 DEF Report
    <3>2. toReport # <<>> /\ toReport \in Seq(Events) /\ upQ \in Seq(Events)
      BY <2>6 DEF Report, TypeOK
    <3>3. Head(toReport) \in Events
      BY <3>2, Taken
    <3>4. ownerError = "none" /\ Clean(upQ)
      BY <3>2 DEF EInv
    <3>5. ErrorLast(upQ') /\ (~IsError(Head(toReport)) => Clean(upQ'))
      BY <3>1, <3>2, <3>3, <3>4, CleanAdded
    <3>. QED
      BY <3>1, <3>4, <3>5 DEF EInv
  <2>7. CASE TakeQuit
    BY <2>7 DEF TakeQuit, inVars, EInv
  <2>8. CASE ReceiveUp
    <3>1. upQ # <<>> /\ upQ \in Seq(Events) /\ upQ' = Tail(upQ)
          /\ ownerError = "none" /\ pc' = pc /\ toReport' = toReport
      BY <2>8 DEF ReceiveUp, TypeOK, taskVars
    <3>2. ErrorLast(upQ') /\ (IsError(Head(upQ)) => upQ' = <<>>)
      BY <3>1, ErrorLastTaken DEF EInv
    <3>3. ~IsError(Head(upQ)) => ownerError' = "none"
      BY <2>8, <3>1 DEF ReceiveUp
    <3>4. Clean(upQ) => Clean(upQ') /\ ~IsError(Head(upQ))
      BY <3>1, CleanTaken
    <3>. QED
      BY <3>1, <3>2, <3>3, <3>4 DEF EInv
  <2>9. CASE StartSend \/ SendDown \/ Quit \/ Peer
    BY <2>9 DEF StartSend, SendDown, Quit, Peer, PeerReads, PeerSends,
                PeerCloses, taskVars, inVars, EInv
  <2>10. CASE UNCHANGED vars
    BY <2>10 DEF vars, taskVars, inVars, EInv
  <2>. QED
    BY <2>1, <2>2, <2>3, <2>4, <2>5, <2>6, <2>7, <2>8, <2>9, <2>10
       DEF Next, Task, Read, Write, Owner
<1>. QED
  BY <1>1, <1>2, TypeCorrect, PTL DEF Spec

(* Whatever is waiting to be reported, the events under way hold an error  *)
(* at most at their end.                                                   *)
LEMMA EventsUnderWay ==
  ASSUME TypeOK, EInv
  PROVE  /\ upQ \o toReport \in Seq(Events)
         /\ ErrorLast(upQ \o toReport)
         /\ ownerError # "none" => upQ \o toReport = <<>>
<1>1. upQ \in Seq(Events) /\ toReport \in Seq(Events) /\ Len(toReport) <= 1
  BY DEF TypeOK
<1>2. CASE toReport = <<>>
  <2>1. upQ \o toReport = upQ
    BY <1>1, <1>2, ConcatEmptySeq
  <2>. QED
    BY <1>1, <2>1 DEF EInv
<1>3. CASE toReport # <<>>
  <2>1. toReport = <<Head(toReport)>> /\ Head(toReport) \in Events
    BY <1>1, <1>3, Taken, OneElement
  <2>2. upQ \o <<Head(toReport)>> = Append(upQ, Head(toReport))
    BY <1>1, <2>1, AppendIsConcat
  <2>3. ownerError = "none" /\ Clean(upQ)
    BY <1>3 DEF EInv
  <2>. QED
    BY <1>1, <2>1, <2>2, <2>3, CleanAdded
<1>. QED
  BY <1>2, <1>3

(* An error is the last event of a connection and the only one             *)
(* (utils.rs:126-130).                                                     *)
THEOREM ErrorFinal == Spec => []ErrorIsFinal
<1>1. TypeOK /\ EInv => ErrorIsFinal
  <2> SUFFICES ASSUME TypeOK, EInv PROVE ErrorIsFinal
    OBVIOUS
  <2>1. DOMAIN (upQ \o toReport) = 1..Len(upQ \o toReport)
    BY EventsUnderWay, LenProperties
  <2>. QED
    BY <2>1, EventsUnderWay DEF ErrorIsFinal, ErrorLast
<1>. QED
  BY <1>1, TypeCorrect, ErrorInvariant, PTL

(* Once an error is reported, the task neither reads nor forwards nor      *)
(* writes (utils.rs:126, 129).                                             *)
THEOREM SilentAfter == Spec => SilentAfterError
<1>1. TypeOK /\ EInv /\ [Next]_vars =>
        [Reported =>
         /\ UNCHANGED <<reading, writing, inHand, writeQ>>
         /\ Len(inWire') >= Len(inWire) /\ Len(downQ') >= Len(downQ)
         /\ Len(outWire') <= Len(outWire)]_vars
  <2> SUFFICES ASSUME TypeOK, EInv, Next, Reported
      PROVE  /\ UNCHANGED <<reading, writing, inHand, writeQ>>
             /\ Len(inWire') >= Len(inWire) /\ Len(downQ') >= Len(downQ)
             /\ Len(outWire') <= Len(outWire)
    OBVIOUS
  <2>1. pc \notin {"select", "enqueue"}
    <3> SUFFICES ASSUME pc \in {"select", "enqueue"} PROVE FALSE
      OBVIOUS
    <3>1. ownerError = "none" /\ Clean(upQ) /\ toReport = <<>>
      BY DEF EInv, TypeOK
    <3>2. upQ \in Seq(Events) /\ upQ \o toReport = upQ
      BY <3>1, ConcatEmptySeq DEF TypeOK
    <3>3. DOMAIN upQ = 1..Len(upQ)
      BY <3>2, LenProperties
    <3>. QED
      BY <3>1, <3>2, <3>3 DEF Reported, ErrorInEvents, Clean
  <2>2. /\ Len(inWire) \in Nat /\ Len(downQ) \in Nat /\ Len(outWire) \in Nat
        /\ inWire \in Seq(Frames) /\ downQ \in Seq(Ids) /\ outWire \in Seq(Ids)
        /\ given \in Nat /\ peerSent \in Nat
    BY LenProperties DEF TypeOK
  <2>3. CASE Report \/ TakeQuit \/ StartSend \/ ReceiveUp \/ Quit \/ PeerCloses
    BY <2>2, <2>3 DEF Report, TakeQuit, StartSend, ReceiveUp, Quit, PeerCloses,
                      taskVars, outVars, inVars
  <2>4. CASE SendDown
    <3>1. given + 1 \in Ids
      BY <2>2 DEF Ids
    <3>2. Len(Append(downQ, given + 1)) = Len(downQ) + 1
      BY <2>2, <3>1, AppendProperties
    <3>. QED
      BY <2>2, <2>4, <3>2 DEF SendDown, taskVars, inVars
  <2>5. CASE PeerReads
    <3>1. Len(Tail(outWire)) = Len(outWire) - 1
      BY <2>2, <2>5, Taken DEF PeerReads
    <3>. QED
      BY <2>2, <2>5, <3>1 DEF PeerReads, taskVars, inVars
  <2>6. CASE PeerSends
    <3>1. PICK kind \in FrameKinds :
             inWire' = Append(inWire, [kind |-> kind, n |-> peerSent + 1])
      BY <2>6 DEF PeerSends
    <3>2. [kind |-> kind, n |-> peerSent + 1] \in Frames
      BY <2>2 DEF Frames, Ids
    <3>3. Len(inWire') = Len(inWire) + 1
      BY <2>2, <3>1, <3>2, AppendProperties
    <3>. QED
      BY <2>2, <2>6, <3>3 DEF PeerSends, taskVars, outVars
  <2>. QED
    BY <2>1, <2>3, <2>4, <2>5, <2>6
       DEF Next, Task, Read, Write, Owner, Peer, Forward, Enqueue, ReadSize,
           ReadMessage, ReadFails, WriterReceives, WriterWrites, WriterFails
<1>. QED
  BY <1>1, TypeCorrect, ErrorInvariant, PTL DEF Spec, SilentAfterError
-----------------------------------------------------------------------------
(* The element that follows p in p \o t \o r is the first one of t.         *)
LEMMA NextOf ==
  ASSUME NEW p \in Seq(Ids), NEW t \in Seq(Ids), NEW r \in Seq(Ids), t # <<>>
  PROVE  /\ Len(p) + 1 \in 1..Len((p \o t) \o r)
         /\ ((p \o t) \o r)[Len(p) + 1] = Head(t)
<1>1. /\ Len(p) \in Nat /\ Len(t) \in Nat /\ Len(t) >= 1 /\ Len(r) \in Nat
      /\ Head(t) = t[1]
  BY Taken, LenProperties, HeadTailProperties
<1>2. /\ p \o t \in Seq(Ids) /\ Len(p \o t) = Len(p) + Len(t)
      /\ \A i \in 1..(Len(p) + Len(t)) :
            (p \o t)[i] = IF i <= Len(p) THEN p[i] ELSE t[i - Len(p)]
  BY ConcatProperties
<1>3. /\ Len((p \o t) \o r) = Len(p \o t) + Len(r)
      /\ \A i \in 1..(Len(p \o t) + Len(r)) :
            ((p \o t) \o r)[i] = IF i <= Len(p \o t) THEN (p \o t)[i]
                                ELSE r[i - Len(p \o t)]
  BY <1>2, ConcatProperties
<1>. DEFINE k == Len(p) + 1
<1>4. /\ k \in 1..(Len(p) + Len(t)) /\ k \in 1..(Len(p \o t) + Len(r))
      /\ k <= Len(p \o t) /\ ~(k <= Len(p)) /\ k - Len(p) = 1
  BY <1>1, <1>2
<1>. HIDE DEF k
<1>5. ((p \o t) \o r)[k] = (p \o t)[k] /\ (p \o t)[k] = t[1]
  BY <1>2, <1>3, <1>4
<1>6. k \in 1..Len((p \o t) \o r)
  BY <1>3, <1>4
<1>. QED
  BY <1>1, <1>5, <1>6 DEF k

(* What the peer reads next is the next number.                            *)
LEMMA NextForPeer ==
  ASSUME TypeOK, OutboundOrder, outWire # <<>>
  PROVE  Head(outWire) = Len(peerGot) + 1 /\ Len(peerGot) < given
<1>0. /\ peerGot \in Seq(Ids) /\ outWire \in Seq(Ids) /\ writing \in Seq(Ids)
      /\ writeQ \in Seq(Ids) /\ inHand \in Seq(Ids) /\ downQ \in Seq(Ids)
      /\ given \in Nat
  BY DEF TypeOK
<1>1. \A p, q \in Seq(Ids) : p \o q \in Seq(Ids)
  BY ConcatProperties
<1>2. \A p, q, r \in Seq(Ids) : (p \o q) \o r = p \o (q \o r)
  BY ConcatAssociative
<1>. DEFINE onWire == peerGot \o outWire
            x1 == writing \o writeQ
            x2 == x1 \o inHand
            rest == x2 \o downQ
<1>3. onWire \in Seq(Ids) /\ x1 \in Seq(Ids)
  BY <1>0, <1>1, Zenon
<1>4. onWire \o rest = FirstNumbers(given) /\ rest \in Seq(Ids)
  <2>1. (((onWire \o writing) \o writeQ) \o inHand) \o downQ = FirstNumbers(given)
    BY Zenon DEF OutboundOrder
  <2>. HIDE DEF onWire
  <2>2. (onWire \o writing) \o writeQ = onWire \o (writing \o writeQ)
    <3>1. onWire \in Seq(Ids) /\ writing \in Seq(Ids) /\ writeQ \in Seq(Ids)
      BY <1>0, <1>3
    <3>. QED
      BY <1>2, <3>1
  <2>3. (onWire \o x1) \o inHand = onWire \o x2 /\ x2 \in Seq(Ids)
    <3>1. onWire \in Seq(Ids) /\ x1 \in Seq(Ids) /\ inHand \in Seq(Ids)
      BY <1>0, <1>3
    <3>. HIDE DEF x1
    <3>2. x1 \o inHand \in Seq(Ids)
      BY <1>1, <3>1
    <3>3. (onWire \o x1) \o inHand = onWire \o (x1 \o inHand)
      BY <1>2, <3>1
    <3>. QED
      BY <3>2, <3>3
  <2>4. (onWire \o x2) \o downQ = onWire \o rest /\ rest \in Seq(Ids)
    <3>1. onWire \in Seq(Ids) /\ x2 \in Seq(Ids) /\ downQ \in Seq(Ids)
      BY <1>0, <1>3, <2>3
    <3>. HIDE DEF x2
    <3>2. x2 \o downQ \in Seq(Ids)
      BY <1>1, <3>1
    <3>3. (onWire \o x2) \o downQ = onWire \o (x2 \o downQ)
      BY <1>2, <3>1
    <3>. QED
      BY <3>2, <3>3
  <2>. QED
    BY <2>1, <2>2, <2>3, <2>4, Zenon
<1>. HIDE DEF rest
<1>n. /\ Len(peerGot) + 1 \in 1..Len((peerGot \o outWire) \o rest)
      /\ ((peerGot \o outWire) \o rest)[Len(peerGot) + 1] = Head(outWire)
  BY <1>0, <1>4, NextOf
<1>5. /\ Len(peerGot) + 1 \in 1..Len(FirstNumbers(given))
      /\ FirstNumbers(given)[Len(peerGot) + 1] = Head(outWire)
  BY <1>4, <1>n, Zenon
<1>6. Len(FirstNumbers(given)) = given
  BY <1>0 DEF FirstNumbers
<1>7. Len(peerGot) \in Nat
  BY <1>0, LenProperties
<1>8. Len(peerGot) + 1 \in 1..given
  BY <1>5, <1>6, Zenon
<1>9. FirstNumbers(given)[Len(peerGot) + 1] = Len(peerGot) + 1
  BY <1>8 DEF FirstNumbers
<1>10. Len(peerGot) < given
  BY <1>0, <1>7, <1>8
<1>. QED
  BY <1>5, <1>9, <1>10, Zenon

(* One direction of a connection implements the reliable pipe it promises: *)
(* send_down puts, the peer's read delivers, and every other step of the   *)
(* task, the owner or the peer is invisible (utils.rs:219-266).            *)
THEOREM OutboundPipe == Spec => OutboundIsPipe
<1>1. Init => Outbound!Init
  BY DEF Init, Outbound!Init
<1>2. TypeOK /\ OutboundOrder /\ [Next]_vars
         => [Outbound!Next]_(Outbound!pipeVars)
  <2> SUFFICES ASSUME TypeOK, OutboundOrder, [Next]_vars
      PROVE  [Outbound!Next]_(Outbound!pipeVars)
    OBVIOUS
  <2>1. CASE SendDown
    BY <2>1 DEF SendDown, Outbound!Next, Outbound!Put
  <2>2. CASE PeerReads
    <3>1. outWire # <<>> /\ peerGot' = Append(peerGot, Head(outWire))
          /\ given' = given
      BY <2>2 DEF PeerReads
    <3>2. Head(outWire) = Len(peerGot) + 1 /\ Len(peerGot) < given
      BY <3>1, NextForPeer
    <3>. QED
      BY <3>1, <3>2, Zenon DEF Outbound!Next, Outbound!Deliver
  <2>3. CASE UNCHANGED <<given, peerGot>>
    BY <2>3 DEF Outbound!pipeVars
  <2>. QED
    BY <2>1, <2>2, <2>3
       DEF Next, Task, Read, Write, Owner, Peer, vars, taskVars, outVars,
           Forward, Enqueue, ReadSize, ReadMessage, ReadFails, WriterReceives,
           WriterWrites, WriterFails, Report, TakeQuit, StartSend, ReceiveUp,
           Quit, PeerSends, PeerCloses
<1>. QED
  BY <1>1, <1>2, TypeCorrect, OutboundOrdered, PTL
     DEF Spec, OutboundIsPipe, Outbound!Spec
-----------------------------------------------------------------------------
(* InboundOrder with the buffers as parameters: what the owner got, the    *)
(* events under way, the frames still to be read, the frames sent.         *)
Ordered(got, events, frames, n) ==
    /\ \A i \in 1..Len(got) : got[i] = i
    /\ \A i \in 1..Len(events) : ~IsError(events[i]) => events[i].n = Len(got) + i
    /\ \A i \in 1..Len(frames) : frames[i].n = n - Len(frames) + i
    /\ Len(got) + Len(events) + Len(frames) = IF Clean(events) THEN n ELSE n + 1

(* A message is read: the first frame becomes the last event.              *)
LEMMA MessageRead ==
  ASSUME NEW got \in Seq(Ids), NEW events \in Seq(Events), NEW frames \in Seq(Frames),
         NEW n \in Nat, Ordered(got, events, frames, n), Clean(events),
         frames # <<>>, NEW e \in Events, ~IsError(e), e.n = Head(frames).n
  PROVE  Ordered(got, Append(events, e), Tail(frames), n)
<1>. DEFINE ev == Append(events, e)
            fr == Tail(frames)
<1>1. /\ Len(got) \in Nat /\ Len(events) \in Nat /\ Len(frames) \in Nat
      /\ Len(frames) >= 1 /\ Len(fr) = Len(frames) - 1
      /\ Head(frames) = frames[1]
      /\ \A i \in 1..Len(fr) : fr[i] = frames[i + 1]
  BY HeadTailProperties, LenProperties, EmptySeq
<1>2. /\ Len(ev) = Len(events) + 1 /\ ev[Len(events) + 1] = e
      /\ \A i \in 1..Len(events) : ev[i] = events[i]
      /\ Clean(ev)
  BY AppendProperties, CleanAdded
<1>3. Len(got) + Len(events) + Len(frames) = n
  BY DEF Ordered
<1>4. e.n = Len(got) + Len(events) + 1
  <2>1. 1 \in 1..Len(frames)
    BY <1>1
  <2>2. frames[1].n = n - Len(frames) + 1
    BY <2>1 DEF Ordered
  <2>3. e.n = n - Len(frames) + 1
    BY <1>1, <2>2
  <2>4. Len(got) \in Nat /\ Len(events) \in Nat /\ Len(frames) \in Nat
    BY <1>1
  <2>. QED
    BY <1>3, <2>3, <2>4
<1>. HIDE DEF ev, fr
<1>5. ASSUME NEW i \in 1..Len(ev), ~IsError(ev[i]) PROVE ev[i].n = Len(got) + i
  <2>1. CASE i = Len(events) + 1
    BY <1>1, <1>2, <1>4, <2>1
  <2>2. CASE i # Len(events) + 1
    <3>1. i \in 1..Len(events)
      BY <1>1, <1>2, <2>2
    <3>. QED
      BY <1>2, <1>5, <3>1 DEF Ordered
  <2>. QED
    BY <2>1, <2>2
<1>6. ASSUME NEW i \in 1..Len(fr) PROVE fr[i].n = n - Len(fr) + i
  <2>1. i + 1 \in 1..Len(frames) /\ fr[i] = frames[i + 1]
    BY <1>1
  <2>2. frames[i + 1].n = n - Len(frames) + (i + 1)
    BY <2>1 DEF Ordered
  <2>. QED
    BY <1>1, <2>1, <2>2
<1>7. Len(got) + Len(ev) + Len(fr) = n
  <2>1. /\ Len(got) \in Nat /\ Len(events) \in Nat /\ Len(frames) \in Nat
        /\ Len(fr) = Len(frames) - 1 /\ Len(ev) = Len(events) + 1
    BY <1>1, <1>2
  <2>. QED
    BY <1>3, <2>1
<1>. QED
  BY <1>2, <1>5, <1>6, <1>7 DEF Ordered, ev, fr

(* An error is found: it takes no number.                                  *)
LEMMA ErrorFound ==
  ASSUME NEW got \in Seq(Ids), NEW events \in Seq(Events), NEW frames \in Seq(Frames),
         NEW n \in Nat, Ordered(got, events, frames, n), Clean(events),
         NEW e \in Events, IsError(e)
  PROVE  Ordered(got, Append(events, e), frames, n)
<1>. DEFINE ev == Append(events, e)
<1>1. /\ Len(got) \in Nat /\ Len(events) \in Nat /\ Len(frames) \in Nat
      /\ Len(ev) = Len(events) + 1 /\ ev[Len(events) + 1] = e
      /\ \A i \in 1..Len(events) : ev[i] = events[i]
  BY AppendProperties, LenProperties
<1>. HIDE DEF ev
<1>2. ~Clean(ev)
  <2>1. Len(events) + 1 \in 1..Len(ev)
    BY <1>1
  <2>. QED
    BY <1>1, <2>1 DEF Clean
<1>3. ASSUME NEW i \in 1..Len(ev), ~IsError(ev[i]) PROVE ev[i].n = Len(got) + i
  <2>1. i # Len(events) + 1
    BY <1>1, <1>3
  <2>2. i \in 1..Len(events)
    BY <1>1, <2>1
  <2>. QED
    BY <1>1, <1>3, <2>2 DEF Ordered
<1>4. Len(got) + Len(events) + Len(frames) = n
  BY DEF Ordered
<1>5. Len(got) + Len(ev) + Len(frames) = n + 1
  BY <1>1, <1>4
<1>. QED
  BY <1>2, <1>3, <1>5 DEF Ordered, ev

(* The first event, if it is a message, is the one the owner waits for.    *)
LEMMA NextForOwner ==
  ASSUME NEW got \in Seq(Ids), NEW events \in Seq(Events), NEW frames \in Seq(Frames),
         NEW n \in Nat, Ordered(got, events, frames, n),
         events # <<>>, ~IsError(Head(events))
  PROVE  Head(events).n = Len(got) + 1 /\ Len(got) < n
<1>1. /\ Len(got) \in Nat /\ Len(events) \in Nat /\ Len(frames) \in Nat
      /\ Len(events) >= 1 /\ Head(events) = events[1] /\ 1 \in 1..Len(events)
  BY HeadTailProperties, LenProperties, EmptySeq
<1>2. Head(events).n = Len(got) + 1
  BY <1>1 DEF Ordered
<1>3. CASE Clean(events)
  <2>1. Len(got) + Len(events) + Len(frames) = n
    BY <1>3 DEF Ordered
  <2>. QED
    BY <1>1, <1>2, <2>1
<1>4. CASE ~Clean(events)
  <2>1. PICK i \in 1..Len(events) : IsError(events[i])
    BY <1>4 DEF Clean
  <2>2. i # 1
    BY <1>1, <2>1
  <2>3. Len(events) >= 2
    BY <1>1, <2>2
  <2>4. Len(got) + Len(events) + Len(frames) = n + 1
    BY <1>4 DEF Ordered
  <2>. QED
    BY <1>1, <1>2, <2>3, <2>4
<1>. QED
  BY <1>3, <1>4

(* The owner receives a message.                                           *)
LEMMA MessageReceived ==
  ASSUME NEW got \in Seq(Ids), NEW events \in Seq(Events), NEW frames \in Seq(Frames),
         NEW n \in Nat, Ordered(got, events, frames, n),
         events # <<>>, ~IsError(Head(events))
  PROVE  Ordered(Append(got, Head(events).n), Tail(events), frames, n)
<1>. DEFINE gt == Append(got, Head(events).n)
            ev == Tail(events)
<1>1. /\ Len(got) \in Nat /\ Len(events) \in Nat /\ Len(frames) \in Nat
      /\ Len(events) >= 1 /\ Head(events) = events[1]
      /\ Len(ev) = Len(events) - 1
      /\ \A i \in 1..Len(ev) : ev[i] = events[i + 1]
  BY HeadTailProperties, LenProperties, EmptySeq
<1>2. Head(events).n = Len(got) + 1 /\ Head(events).n \in Ids
  BY <1>1, NextForOwner DEF Ids
<1>3. /\ Len(gt) = Len(got) + 1 /\ gt[Len(got) + 1] = Len(got) + 1
      /\ \A i \in 1..Len(got) : gt[i] = got[i]
  BY <1>2, AppendProperties
<1>. HIDE DEF gt, ev
<1>4. Clean(ev) <=> Clean(events)
  <2>1. ASSUME Clean(events), NEW i \in 1..Len(ev) PROVE ~IsError(ev[i])
    <3>1. i + 1 \in 1..Len(events)
      BY <1>1
    <3>. QED
      BY <1>1, <2>1, <3>1 DEF Clean
  <2>2. ASSUME Clean(ev), NEW i \in 1..Len(events) PROVE ~IsError(events[i])
    <3>1. CASE i = 1
      BY <1>1, <3>1
    <3>2. CASE i # 1
      <4>1. i - 1 \in 1..Len(ev) /\ (i - 1) + 1 = i
        BY <1>1, <3>2
      <4>2. ev[i - 1] = events[i]
        BY <1>1, <4>1
      <4>. QED
        BY <2>2, <4>1, <4>2 DEF Clean
    <3>. QED
      BY <3>1, <3>2
  <2>. QED
    BY <2>1, <2>2 DEF Clean
<1>5. ASSUME NEW i \in 1..Len(gt) PROVE gt[i] = i
  <2>1. i = Len(got) + 1 \/ i \in 1..Len(got)
    BY <1>1, <1>3
  <2>. QED
    BY <1>3, <2>1 DEF Ordered
<1>6. ASSUME NEW i \in 1..Len(ev), ~IsError(ev[i]) PROVE ev[i].n = Len(gt) + i
  <2>1. i + 1 \in 1..Len(events) /\ ev[i] = events[i + 1]
    BY <1>1
  <2>2. events[i + 1].n = Len(got) + (i + 1)
    BY <1>6, <2>1 DEF Ordered
  <2>. QED
    BY <1>1, <1>3, <2>1, <2>2
<1>7. Len(got) + Len(events) + Len(frames) = Len(gt) + Len(ev) + Len(frames)
  BY <1>1, <1>3
<1>. QED
  BY <1>4, <1>5, <1>6, <1>7 DEF Ordered, gt, ev

(* The owner receives the error, which is the last event.                  *)
LEMMA ErrorReceived ==
  ASSUME NEW got \in Seq(Ids), NEW events \in Seq(Events), NEW frames \in Seq(Frames),
         NEW n \in Nat, Ordered(got, events, frames, n),
         events # <<>>, IsError(Head(events)), ErrorLast(events)
  PROVE  Ordered(got, Tail(events), frames, n)
<1>. DEFINE ev == Tail(events)
<1>1. /\ Len(got) \in Nat /\ Len(frames) \in Nat
      /\ Len(events) \in Nat /\ Len(events) >= 1 /\ Len(ev) = Len(events) - 1
      /\ Head(events) = events[1]
  BY HeadTailProperties, LenProperties, EmptySeq
<1>. HIDE DEF ev
<1>2. 1 \in 1..Len(events) /\ IsError(events[1])
  BY <1>1
<1>3. Len(events) = 1 /\ ~Clean(events)
  BY <1>2 DEF ErrorLast, Clean
<1>4. Len(ev) = 0
  BY <1>1, <1>3
<1>5. Clean(ev)
  BY <1>4 DEF Clean
<1>6. Len(got) + Len(events) + Len(frames) = n + 1
  BY <1>3 DEF Ordered
<1>7. Len(got) + Len(ev) + Len(frames) = n
  BY <1>1, <1>3, <1>4, <1>6
<1>8. \A i \in 1..Len(ev) : ~IsError(ev[i]) => ev[i].n = Len(got) + i
  BY <1>4
<1>. QED
  BY <1>5, <1>7, <1>8 DEF Ordered, ev

(* The peer sends a frame.                                                 *)
LEMMA FrameSent ==
  ASSUME NEW got \in Seq(Ids), NEW events \in Seq(Events), NEW frames \in Seq(Frames),
         NEW n \in Nat, Ordered(got, events, frames, n),
         NEW f \in Frames, f.n = n + 1
  PROVE  Ordered(got, events, Append(frames, f), n + 1)
<1>. DEFINE fr == Append(frames, f)
<1>1. /\ Len(got) \in Nat /\ Len(events) \in Nat /\ Len(frames) \in Nat
      /\ Len(fr) = Len(frames) + 1 /\ fr[Len(frames) + 1] = f
      /\ \A i \in 1..Len(frames) : fr[i] = frames[i]
  BY AppendProperties, LenProperties
<1>. HIDE DEF fr
<1>2. ASSUME NEW i \in 1..Len(fr) PROVE fr[i].n = (n + 1) - Len(fr) + i
  <2>1. CASE i = Len(frames) + 1
    BY <1>1, <2>1
  <2>2. CASE i # Len(frames) + 1
    <3>1. i \in 1..Len(frames)
      BY <1>1, <2>2
    <3>2. frames[i].n = n - Len(frames) + i /\ fr[i] = frames[i]
      BY <1>1, <3>1 DEF Ordered
    <3>3. Len(frames) \in Nat /\ Len(fr) = Len(frames) + 1
      BY <1>1
    <3>. QED
      BY <3>2, <3>3
  <2>. QED
    BY <2>1, <2>2
<1>3. Len(got) + Len(events) + Len(fr)
        = IF Clean(events) THEN n + 1 ELSE (n + 1) + 1
  <2>1. Len(got) + Len(events) + Len(frames) = IF Clean(events) THEN n ELSE n + 1
    BY DEF Ordered
  <2>2. /\ Len(got) \in Nat /\ Len(events) \in Nat /\ Len(frames) \in Nat
        /\ Len(fr) = Len(frames) + 1
    BY <1>1
  <2>3. Len(got) + Len(events) + Len(fr) = (Len(got) + Len(events) + Len(frames)) + 1
    BY <2>2
  <2>4. CASE Clean(events)
    <3>1. Len(got) + Len(events) + Len(frames) = n
      BY <2>1, <2>4
    <3>. QED
      BY <2>3, <2>4, <3>1
  <2>5. CASE ~Clean(events)
    <3>1. Len(got) + Len(events) + Len(frames) = n + 1
      BY <2>1, <2>5
    <3>. QED
      BY <2>3, <2>5, <3>1
  <2>. QED
    BY <2>4, <2>5
<1>. QED
  BY <1>2, <1>3 DEF Ordered, fr

(* The events and the frames as one sequence each.                         *)
inEvents == upQ \o toReport
inFrames == reading \o inWire

(* Frames in the half-read one and the wire, events in upQ and in the hand *)
(* of the task: what a transfer from one to the other leaves.              *)
LEMMA MoveFrame ==
  \A p, s, t \in Seq(Frames) :
     t # <<>> => (p \o Append(s, Head(t))) \o Tail(t) = (p \o s) \o t
<1>. SUFFICES ASSUME NEW p \in Seq(Frames), NEW s \in Seq(Frames), NEW t \in Seq(Frames), t # <<>>
              PROVE  (p \o Append(s, Head(t))) \o Tail(t) = (p \o s) \o t
  OBVIOUS
<1>. QED
  BY Move

LEMMA MoveEvent ==
  \A p, s, t \in Seq(Events) :
     t # <<>> => (p \o Append(s, Head(t))) \o Tail(t) = (p \o s) \o t
<1>. SUFFICES ASSUME NEW p \in Seq(Events), NEW s \in Seq(Events), NEW t \in Seq(Events), t # <<>>
              PROVE  (p \o Append(s, Head(t))) \o Tail(t) = (p \o s) \o t
  OBVIOUS
<1>. QED
  BY Move

(* What InboundOrder says of the variables is Ordered of the two           *)
(* concatenations.                                                         *)
InInv == Ordered(ownerGot, inEvents, inFrames, peerSent)

(* With the types and EInv: what the two sequences are made of.            *)
LEMMA InboundTypes ==
  ASSUME TypeOK, EInv
  PROVE  /\ inEvents \in Seq(Events) /\ inFrames \in Seq(Frames)
         /\ ownerGot \in Seq(Ids) /\ peerSent \in Nat
         /\ ErrorLast(inEvents)
         /\ pc \in {"select", "enqueue"} => Clean(inEvents)
<1>1. inFrames \in Seq(Frames) /\ ownerGot \in Seq(Ids) /\ peerSent \in Nat
  BY ConcatProperties DEF TypeOK, inFrames
<1>2. inEvents \in Seq(Events) /\ ErrorLast(inEvents)
  BY EventsUnderWay DEF inEvents
<1>3. ASSUME pc \in {"select", "enqueue"} PROVE Clean(inEvents)
  <2>1. Clean(upQ) /\ toReport = <<>> /\ upQ \in Seq(Events)
    BY <1>3 DEF EInv, TypeOK
  <2>2. upQ \o toReport = upQ
    BY <2>1, ConcatEmptySeq
  <2>. QED
    BY <2>1, <2>2 DEF inEvents
<1>. QED
  BY <1>1, <1>2, <1>3

(* Every step keeps the messages from the peer in order.                   *)
LEMMA InboundStep ==
  ASSUME TypeOK, EInv, InInv, [Next]_vars
  PROVE  InInv'
<1>0. /\ upQ \in Seq(Events) /\ toReport \in Seq(Events)
      /\ Len(toReport) <= 1 /\ Len(reading) <= 1
      /\ reading \in Seq(Frames) /\ inWire \in Seq(Frames)
  BY DEF TypeOK
<1>t. /\ inEvents \in Seq(Events) /\ inFrames \in Seq(Frames)
      /\ ownerGot \in Seq(Ids) /\ peerSent \in Nat
      /\ ErrorLast(inEvents)
      /\ pc \in {"select", "enqueue"} => Clean(inEvents)
  BY InboundTypes
<1>e. /\ \A s \in Seq(Events) : s \o <<>> = s /\ <<>> \o s = s
      /\ \A s \in Seq(Frames) : s \o <<>> = s /\ <<>> \o s = s
  BY ConcatEmptySeq
<1>k. ASSUME ownerGot' = ownerGot, inEvents' = inEvents, inFrames' = inFrames,
             peerSent' = peerSent
      PROVE  InInv'
  BY <1>k DEF InInv
<1>1. CASE ReadSize
  <2>1. /\ reading = <<>> /\ reading' = Append(reading, Head(inWire))
        /\ inWire # <<>> /\ inWire' = Tail(inWire)
        /\ UNCHANGED <<ownerGot, upQ, toReport, peerSent>>
    BY <1>1 DEF ReadSize
  <2>2. (<<>> \o Append(reading, Head(inWire))) \o Tail(inWire) = (<<>> \o reading) \o inWire
    <3>1. <<>> \in Seq(Frames)
      BY EmptySeq
    <3>. QED
      BY <1>0, <2>1, <3>1, MoveFrame, Zenon
  <2>3. reading' \in Seq(Frames)
    BY <1>0, <2>1, AppendProperties, HeadTailProperties
  <2>4. reading' \o inWire' = reading \o inWire
    BY <1>0, <1>e, <2>1, <2>2, <2>3, Zenon
  <2>. QED
    BY <1>k, <2>1, <2>4 DEF inEvents, inFrames
<1>2. CASE ReadMessage
  <2>. DEFINE e == [kind |-> "Message", n |-> Head(reading).n]
  <2>1. /\ pc = "select" /\ reading # <<>> /\ reading' = <<>> /\ toReport = <<>>
        /\ toReport' = <<e>> /\ toReport' = Append(toReport, e)
        /\ UNCHANGED <<ownerGot, upQ, inWire, peerSent>>
    BY <1>2 DEF ReadMessage, inVars, TypeOK
  <2>2. Head(reading) \in Frames
    BY <1>0, <2>1, HeadTailProperties
  <2>3. e \in Events /\ ~IsError(e)
    BY <2>2 DEF Frames, Events, IsError, Errors
  <2>4. e.n = Head(reading).n
    OBVIOUS
  <2>. HIDE DEF e
  <2>5. inEvents' = Append(inEvents, e)
    BY <1>0, <2>1, <2>3, AppendToSecond DEF inEvents
  <2>6. /\ inFrames # <<>> /\ Head(inFrames) = Head(reading)
        /\ Tail(reading) \o inWire = Tail(inFrames)
    BY <1>0, <2>1, TailOfFirst DEF inFrames
  <2>7. Tail(reading) = <<>>
    BY <1>0, <2>1, OneElement
  <2>8. inFrames' = Tail(inFrames)
    BY <2>1, <2>6, <2>7 DEF inFrames
  <2>9. Ordered(ownerGot, Append(inEvents, e), Tail(inFrames), peerSent)
    BY <1>t, <2>1, <2>3, <2>4, <2>6, MessageRead DEF InInv
  <2>. QED
    BY <2>1, <2>5, <2>8, <2>9 DEF InInv
<1>3. CASE ReadFails \/ WriterFails
  <2>1. PICK kind \in Errors :
          /\ pc = "select" /\ toReport' = <<ErrorEvent(kind)>>
          /\ UNCHANGED <<reading, inWire, upQ, ownerGot, peerSent>>
    BY <1>3 DEF ReadFails, WriterFails, inVars, Errors
  <2>2. toReport' = Append(toReport, ErrorEvent(kind))
    BY <2>1 DEF TypeOK
  <2>3. ErrorEvent(kind) \in Events /\ IsError(ErrorEvent(kind))
    BY DEF ErrorEvent, Events, IsError, Ids
  <2>4. inEvents' = Append(inEvents, ErrorEvent(kind)) /\ inFrames' = inFrames
    <3>1. upQ \o Append(toReport, ErrorEvent(kind)) = Append(upQ \o toReport, ErrorEvent(kind))
      BY <1>0, <2>3, AppendToSecond
    <3>. QED
      BY <2>1, <2>2, <3>1 DEF inEvents, inFrames
  <2>5. Ordered(ownerGot, Append(inEvents, ErrorEvent(kind)), inFrames, peerSent)
    BY <1>t, <2>1, <2>3, ErrorFound DEF InInv
  <2>. QED
    BY <2>1, <2>4, <2>5 DEF InInv
<1>4. CASE Report
  <2>1. /\ toReport # <<>> /\ toReport' = <<>> /\ upQ' = Append(upQ, Head(toReport))
        /\ UNCHANGED <<ownerGot, reading, inWire, peerSent>>
    BY <1>4 DEF Report, TypeOK
  <2>2. Tail(toReport) = <<>>
    BY <1>0, <2>1, OneElement
  <2>3. (<<>> \o Append(upQ, Head(toReport))) \o Tail(toReport) = (<<>> \o upQ) \o toReport
    <3>1. <<>> \in Seq(Events)
      BY EmptySeq
    <3>. QED
      BY <1>0, <2>1, <3>1, MoveEvent, Zenon
  <2>4. upQ' \in Seq(Events)
    BY <1>0, <2>1, AppendProperties, HeadTailProperties
  <2>5. upQ' \o toReport' = upQ \o toReport
    BY <1>0, <1>e, <2>1, <2>2, <2>3, <2>4, Zenon
  <2>. QED
    BY <1>k, <2>1, <2>5 DEF inEvents, inFrames
<1>5. CASE ReceiveUp
  <2>1. /\ upQ # <<>> /\ upQ' = Tail(upQ)
        /\ UNCHANGED <<toReport, reading, inWire, peerSent>>
    BY <1>5 DEF ReceiveUp, taskVars
  <2>2. /\ inEvents # <<>> /\ Head(inEvents) = Head(upQ)
        /\ inEvents' = Tail(inEvents) /\ inFrames' = inFrames
    BY <1>0, <2>1, TailOfFirst DEF inEvents, inFrames
  <2>3. CASE IsError(Head(upQ))
    <3>1. ownerGot' = ownerGot
      BY <1>5, <2>3 DEF ReceiveUp
    <3>2. Ordered(ownerGot, Tail(inEvents), inFrames, peerSent)
      BY <1>t, <2>2, <2>3, ErrorReceived DEF InInv
    <3>. QED
      BY <2>1, <2>2, <3>1, <3>2 DEF InInv
  <2>4. CASE ~IsError(Head(upQ))
    <3>1. ownerGot' = Append(ownerGot, Head(inEvents).n)
      BY <1>5, <2>2, <2>4 DEF ReceiveUp
    <3>2. Ordered(Append(ownerGot, Head(inEvents).n), Tail(inEvents), inFrames, peerSent)
      BY <1>t, <2>2, <2>4, MessageReceived DEF InInv
    <3>. QED
      BY <2>1, <2>2, <3>1, <3>2 DEF InInv
  <2>. QED
    BY <2>3, <2>4
<1>6. CASE PeerSends
  <2>1. PICK kind \in FrameKinds :
           inWire' = Append(inWire, [kind |-> kind, n |-> peerSent + 1])
    BY <1>6 DEF PeerSends
  <2>. DEFINE f == [kind |-> kind, n |-> peerSent + 1]
  <2>2. f \in Frames /\ f.n = peerSent + 1
    BY <1>t DEF Frames, Ids
  <2>3. inWire' = Append(inWire, f)
    BY <2>1
  <2>. HIDE DEF f
  <2>4. peerSent' = peerSent + 1 /\ UNCHANGED <<ownerGot, upQ, toReport, reading>>
    BY <1>6 DEF PeerSends, taskVars
  <2>5. inFrames' = Append(inFrames, f) /\ inEvents' = inEvents
    BY <1>0, <2>2, <2>3, <2>4, AppendToSecond DEF inEvents, inFrames
  <2>6. Ordered(ownerGot, inEvents, Append(inFrames, f), peerSent + 1)
    BY <1>t, <2>2, FrameSent DEF InInv
  <2>. QED
    BY <2>4, <2>5, <2>6 DEF InInv
<1>7. CASE UNCHANGED <<ownerGot, upQ, toReport, reading, inWire, peerSent>>
  BY <1>k, <1>7 DEF inEvents, inFrames
<1>. QED
  BY <1>1, <1>2, <1>3, <1>4, <1>5, <1>6, <1>7
     DEF Next, Task, Read, Write, Owner, Peer, vars, taskVars, inVars,
         Forward, Enqueue, WriterReceives, WriterWrites, TakeQuit,
         StartSend, SendDown, Quit, PeerReads, PeerCloses

LEMMA InboundInvariant == Spec => []InInv
<1>1. Init => InInv
  <2>. SUFFICES ASSUME Init PROVE InInv
    OBVIOUS
  <2>1. <<>> \in Seq(Events) /\ <<>> \in Seq(Frames)
    BY EmptySeq
  <2>2. inEvents = <<>> /\ inFrames = <<>> /\ ownerGot = <<>> /\ peerSent = 0
    BY <2>1, ConcatEmptySeq DEF Init, inEvents, inFrames
  <2>. QED
    BY <2>2 DEF InInv, Ordered, Clean
<1>2. TypeOK /\ EInv /\ InInv /\ [Next]_vars => InInv'
  BY InboundStep
<1>. QED
  BY <1>1, <1>2, TypeCorrect, ErrorInvariant, PTL DEF Spec

(* What the owner received, what is under way to it and what is still to   *)
(* be read are the frames of the peer in their order, with nothing missing *)
(* in between and at most one error at the end (utils.rs:235-256).         *)
THEOREM InboundOrdered == Spec => []InboundOrder
<1>1. TypeOK /\ EInv /\ InInv => InboundOrder
  <2>. SUFFICES ASSUME TypeOK, EInv, InInv PROVE InboundOrder
    OBVIOUS
  <2>1. /\ inEvents \in Seq(Events) /\ inFrames \in Seq(Frames)
        /\ ownerGot \in Seq(Ids) /\ peerSent \in Nat
    BY InboundTypes
  <2>2. /\ DOMAIN inEvents = 1..Len(inEvents) /\ DOMAIN inFrames = 1..Len(inFrames)
        /\ DOMAIN ownerGot = 1..Len(ownerGot)
    BY <2>1, LenProperties
  <2>3. ErrorInEvents <=> ~Clean(inEvents)
    BY <2>2 DEF ErrorInEvents, Clean, inEvents
  <2>4. peerSent + 0 = peerSent
    BY <2>1
  <2>5. Len(ownerGot) + Len(inEvents) + Len(inFrames)
          = peerSent + (IF ErrorInEvents THEN 1 ELSE 0)
    BY <2>3, <2>4 DEF InInv, Ordered
  <2>6. /\ \A i \in DOMAIN ownerGot : ownerGot[i] = i
        /\ \A i \in DOMAIN inEvents :
               ~IsError(inEvents[i]) => inEvents[i].n = Len(ownerGot) + i
        /\ \A i \in DOMAIN inFrames : inFrames[i].n = peerSent - Len(inFrames) + i
    BY <2>2 DEF InInv, Ordered
  <2>. QED
    BY <2>5, <2>6 DEF InboundOrder, inEvents, inFrames
<1>. QED
  BY <1>1, TypeCorrect, ErrorInvariant, InboundInvariant, PTL

(* The other direction is a reliable pipe as well: the peer's sends put,   *)
(* the owner's receives deliver (utils.rs:235-256, 270-316).               *)
THEOREM InboundPipe == Spec => InboundIsPipe
<1>1. Init => Inbound!Init
  BY DEF Init, Inbound!Init
<1>2. TypeOK /\ EInv /\ InInv /\ [Next]_vars
         => [Inbound!Next]_(Inbound!pipeVars)
  <2> SUFFICES ASSUME TypeOK, EInv, InInv, [Next]_vars
      PROVE  [Inbound!Next]_(Inbound!pipeVars)
    OBVIOUS
  <2>1. CASE PeerSends
    BY <2>1 DEF PeerSends, Inbound!Next, Inbound!Put
  <2>2. CASE ReceiveUp
    <3>1. CASE IsError(Head(upQ))
      BY <2>2, <3>1 DEF ReceiveUp, Inbound!pipeVars
    <3>2. CASE ~IsError(Head(upQ))
      <4>1. /\ ownerGot' = Append(ownerGot, Head(upQ).n) /\ peerSent' = peerSent
            /\ upQ # <<>> /\ upQ \in Seq(Events) /\ toReport \in Seq(Events)
        BY <2>2, <3>2 DEF ReceiveUp, TypeOK
      <4>2. inEvents # <<>> /\ Head(inEvents) = Head(upQ)
        BY <4>1, TailOfFirst DEF inEvents
      <4>3. Head(inEvents).n = Len(ownerGot) + 1 /\ Len(ownerGot) < peerSent
        BY <3>2, <4>2, InboundTypes, NextForOwner DEF InInv
      <4>. QED
        BY <4>1, <4>2, <4>3, Zenon DEF Inbound!Next, Inbound!Deliver
    <3>. QED
      BY <3>1, <3>2
  <2>3. CASE UNCHANGED <<peerSent, ownerGot>>
    BY <2>3 DEF Inbound!pipeVars
  <2>. QED
    BY <2>1, <2>2, <2>3
       DEF Next, Task, Read, Write, Owner, Peer, vars, inVars,
           Forward, Enqueue, ReadSize, ReadMessage, ReadFails, WriterReceives,
           WriterWrites, WriterFails, Report, TakeQuit, StartSend, SendDown,
           Quit, PeerReads, PeerCloses
<1>. QED
  BY <1>1, <1>2, TypeCorrect, ErrorInvariant, InboundInvariant, PTL
     DEF Spec, InboundIsPipe, Inbound!Spec
=============================================================================
