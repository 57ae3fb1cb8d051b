------------------------ MODULE AudioSession_proofs ------------------------
(***************************************************************************)
(* Theorems about the session: what the two device tasks may count on      *)
(* while messages of both are on their way.                                *)
(***************************************************************************)
EXTENDS AudioSession, QueueLemmas

(* TypeOK in two parts.                                                    *)
Messages == ToPhone \cup ToComputer
Inboxes ==
    /\ inbox \in [Sides -> Seq(Messages)]
    /\ inbox["phone"] \in Seq(ToPhone) /\ inbox["computer"] \in Seq(ToComputer)

States ==
    /\ via \in {"Tcp", "Udp", "Usb"} /\ link \in {"up", "broken"}
    /\ request \in [Sides -> BOOLEAN] /\ pending \in [Sides -> BOOLEAN]
    /\ held \in [Sides -> BOOLEAN]
    /\ value \in {"none"} \cup Rates
    /\ question \in {"none", "queued", "asked", "answered", "lost"}
    /\ oboe \in {"off", "starting", "playing", "failed"}
    /\ pulse \in {"ready", "down", "gone"} /\ panicked \in {"no", "rate", "unwrap"}
    /\ info \in BOOLEAN /\ recording \in BOOLEAN /\ ui \in BOOLEAN
    /\ failed \in BOOLEAN /\ early \in BOOLEAN /\ startLost \in BOOLEAN
    /\ backlog \in Nat /\ waiting \in Nat

(* Before the phone knows its rate, no message is on its way that says it  *)
(* does, unless one came early.                                            *)
KnowsBeforeTelling ==
    /\ panicked = "unwrap" => early
    /\ value = "none" => /\ Free(inbox["computer"], {"Rate"})
                         /\ early \/ Free(inbox["phone"], {"PlayAudioStream"})

(* The UI answers once: its answer is on its way or is the value.          *)
TaskEvents == Rates \cup {"SendStartAudioStream"}
AnswerCounted ==
    /\ taskQ \in Seq(TaskEvents)
    /\ NumberOf(taskQ, Rates) + (IF value = "none" THEN 0 ELSE 1)
         = IF question = "answered" THEN 1 ELSE 0

(* The question is not asked again, and a rate the computer cannot use is  *)
(* the one the UI gave.                                                    *)
RateKnown ==
    /\ link = "up" /\ question # "none" =>
           NumberOf(inbox["phone"], {"GetNativeSampleRate"}) = 0
    /\ panicked = "rate" => value = "OddRate"
    /\ NumberOf(inbox["computer"], {"OddRate"}) > 0 => value = "OddRate"

(* A ping in one inbox or its answer in the other: one if a side waits.    *)
PingOfOne(side) ==
    /\ NumberOf(inbox[Other(side)], {"Ping"}) + NumberOf(inbox[side], {"PingResponse"})
         = IF pinging[side] THEN 1 ELSE 0
PingsCounted ==
    /\ pinging \in [Sides -> BOOLEAN]
    /\ link = "up" => PingOfOne("computer") /\ PingOfOne("phone")

QuestionCounted ==
    /\ requests \in 0 .. 1 /\ answered \in Nat
    /\ link = "up" =>
           NumberOf(inbox["phone"], {"GetNativeSampleRate"}) + requests + answered = 1
    /\ requests > 0 => question # "none"

Session ==
    /\ Inboxes /\ States /\ KnowsBeforeTelling /\ PingsCounted /\ QuestionCounted
    /\ AnswerCounted /\ RateKnown
-----------------------------------------------------------------------------
LEMMA OtherSide ==
  /\ Sides = {"computer", "phone"} /\ "computer" # "phone"
  /\ Other("computer") = "phone" /\ Other("phone") = "computer"
  /\ \A side \in Sides : Other(side) \in Sides /\ Other(side) # side
BY DEF Sides, Other

LEMMA HowManyIs ==
  ASSUME NEW message, NEW queue
  PROVE  HowMany(message, queue) = NumberOf(queue, {message})
<1>1. {i \in 1 .. Len(queue) : queue[i] = message} = Positions(queue, {message})
  BY DEF Positions
<1>. QED
  BY <1>1 DEF HowMany, NumberOf

LEMMA SessionPromises == Session => HandshakeInOrder
<1>. SUFFICES ASSUME Session PROVE HandshakeInOrder
  OBVIOUS
<1>. USE DEF Session
<1>1. TypeOK
  BY DEF TypeOK, Inboxes, States, KnowsBeforeTelling, PingsCounted, QuestionCounted
<1>2. PanicsOnlyWhenMisled
  BY DEF PanicsOnlyWhenMisled, KnowsBeforeTelling, RateKnown
<1>3. PingsAreAnswered
  <2>. SUFFICES ASSUME link = "up", NEW side \in Sides
                PROVE  HowMany("Ping", inbox[Other(side)]) + HowMany("PingResponse", inbox[side])
                         = IF pinging[side] THEN 1 ELSE 0
    BY DEF PingsAreAnswered
  <2>1. PingOfOne(side)
    BY OtherSide DEF PingsCounted
  <2>2. /\ HowMany("Ping", inbox[Other(side)]) = NumberOf(inbox[Other(side)], {"Ping"})
        /\ HowMany("PingResponse", inbox[side]) = NumberOf(inbox[side], {"PingResponse"})
    BY HowManyIs
  <2>. QED
    BY <2>1, <2>2 DEF PingOfOne
<1>4. QuestionIsAnsweredOnce
  <2>1. HowMany("GetNativeSampleRate", inbox["phone"])
          = NumberOf(inbox["phone"], {"GetNativeSampleRate"})
    BY HowManyIs
  <2>. QED
    BY <2>1 DEF QuestionIsAnsweredOnce, QuestionCounted
<1>. QED
  BY <1>1, <1>2, <1>3, <1>4 DEF HandshakeInOrder

(* The counts of a queue that a step may have changed.                     *)
LEMMA Counts ==
  ASSUME Inboxes, NEW side \in Sides
  PROVE  /\ inbox[side] \in Seq(Messages)
         /\ \A S : NumberOf(inbox[side], S) \in Nat
<1>1. inbox[side] \in Seq(Messages)
  BY DEF Inboxes
<1>. QED
  BY <1>1, PositionsFinite

(* A message joins a queue, or as many as there are replies, none or one.  *)
LEMMA MessageAdded ==
  ASSUME NEW q \in Seq(Messages), NEW m \in Messages
  PROVE  /\ q \o <<m>> = Append(q, m) /\ Append(q, m) \in Seq(Messages)
         /\ \A S : NumberOf(Append(q, m), S)
                     = IF m \in S THEN NumberOf(q, S) + 1 ELSE NumberOf(q, S)
         /\ \A S : Free(q, S) /\ m \notin S => Free(Append(q, m), S)
         /\ \A K : q \in Seq(K) /\ m \in K => Append(q, m) \in Seq(K)
<1>1. q \o <<m>> = Append(q, m)
  BY AppendIsConcat
<1>2. \A S : NumberOf(Append(q, m), S)
               = IF m \in S THEN NumberOf(q, S) + 1 ELSE NumberOf(q, S)
  BY NumberOfAppend
<1>3. ASSUME NEW S, Free(q, S), m \notin S PROVE Free(Append(q, m), S)
  <2>1. Free(<<m>>, S) /\ <<m>> \in Seq(Messages)
    BY <1>3, FreeSimple
  <2>. QED
    BY <1>1, <1>3, <2>1, FreeConcat
<1>4. ASSUME NEW K, q \in Seq(K), m \in K PROVE Append(q, m) \in Seq(K)
  BY <1>4
<1>. QED
  BY <1>1, <1>2, <1>3, <1>4

(* The sets of messages a step looks at.                                   *)
LEMMA Kinds ==
  /\ ToPhone = {"GetNativeSampleRate", "Ping", "PingResponse", "PlayAudioStream",
                "BadPlayAudioStream", "AudioStreamPlayError"}
  /\ ToComputer = {"Ping", "PingResponse", "Rate", "NoRate", "OddRate", "StartAudioStream",
                   "BadPlayAudioStream", "AudioStreamPlayError"}
  /\ Messages = ToPhone \cup ToComputer
BY DEF ToPhone, ToComputer, Messages, Strays, Rates

LEMMA MessageTaken ==
  ASSUME NEW q \in Seq(Messages), q # <<>>
  PROVE  /\ Head(q) \in Messages /\ Tail(q) \in Seq(Messages)
         /\ \A S : NumberOf(Tail(q), S)
                     = IF Head(q) \in S THEN NumberOf(q, S) - 1 ELSE NumberOf(q, S)
         /\ \A S : Free(q, S) => Free(Tail(q), S) /\ Head(q) \notin S
         /\ \A K : q \in Seq(K) => Head(q) \in K /\ Tail(q) \in Seq(K)
<1>1. \A S : NumberOf(Tail(q), S)
               = IF Head(q) \in S THEN NumberOf(q, S) - 1 ELSE NumberOf(q, S)
  BY NumberOfTail
<1>2. \A S : Free(q, S) => Free(Tail(q), S) /\ Head(q) \notin S
  BY FreeTail
<1>3. ASSUME NEW K, q \in Seq(K) PROVE Head(q) \in K /\ Tail(q) \in Seq(K)
  BY <1>3, Removed
<1>. QED
  BY <1>1, <1>2, <1>3
(* A task handles a message and sends no or one message to the other.      *)
LEMMA MessageHandled ==
  ASSUME Inboxes, NEW side \in Sides, NEW message, NEW replies, Handles(side, message, replies),
         replies = <<>> \/ \E m \in Messages : replies = <<m>>
  PROVE  /\ link = "up" /\ link' = "up" /\ via' = via /\ UNCHANGED <<strays, early>>
         /\ inbox[side] # <<>> /\ Head(inbox[side]) = message /\ inbox[side] \in Seq(Messages)
         /\ inbox[Other(side)] \in Seq(Messages)
         /\ inbox' \in [Sides -> Seq(Messages)]
         /\ inbox'[side] = Tail(inbox[side])
         /\ replies = <<>> => inbox'[Other(side)] = inbox[Other(side)]
         /\ \A m \in Messages : replies = <<m>> =>
               inbox'[Other(side)] = Append(inbox[Other(side)], m)
<1>. DEFINE p == inbox[side]
            q == inbox[Other(side)]
<1>1. /\ link = "up" /\ link' = link /\ via' = via /\ p # <<>> /\ Head(p) = message
      /\ UNCHANGED <<strays, early>>
      /\ inbox' = [inbox EXCEPT ![side] = Tail(p), ![Other(side)] = q \o replies]
  BY OtherSide DEF Handles, peerVars
<1>2. p \in Seq(Messages) /\ q \in Seq(Messages) /\ inbox \in [Sides -> Seq(Messages)]
      /\ Other(side) \in Sides /\ Other(side) # side
  BY OtherSide DEF Inboxes
<1>3. Tail(p) \in Seq(Messages)
  BY <1>1, <1>2, MessageTaken
<1>4. /\ replies = <<>> => q \o replies = q
      /\ \A m \in Messages : replies = <<m>> => q \o replies = Append(q, m)
      /\ q \o replies \in Seq(Messages)
  <2>1. q \o <<>> = q
    BY <1>2, ConcatEmptySeq
  <2>2. \A m \in Messages : q \o <<m>> = Append(q, m) /\ Append(q, m) \in Seq(Messages)
    BY <1>2, MessageAdded
  <2>. QED
    BY <1>2, <2>1, <2>2
<1>. DEFINE r == q \o replies
<1>. HIDE DEF p, q, r
<1>5. /\ inbox' \in [Sides -> Seq(Messages)] /\ inbox'[side] = Tail(p)
      /\ inbox'[Other(side)] = r
  <2>1. inbox' = [inbox EXCEPT ![side] = Tail(p), ![Other(side)] = r]
    BY <1>1 DEF r
  <2>2. r \in Seq(Messages)
    BY <1>4 DEF r
  <2>. QED
    BY <1>2, <1>3, <2>1, <2>2
<1>. QED
  BY <1>1, <1>2, <1>4, <1>5 DEF p, q, r

LEMMA MessageSent ==
  ASSUME Inboxes, NEW side \in Sides, NEW m \in Messages,
         inbox' = [inbox EXCEPT ![side] = Append(@, m)]
  PROVE  /\ inbox[side] \in Seq(Messages) /\ inbox' \in [Sides -> Seq(Messages)]
         /\ inbox'[side] = Append(inbox[side], m)
         /\ inbox'[Other(side)] = inbox[Other(side)]
<1>1. inbox[side] \in Seq(Messages) /\ inbox \in [Sides -> Seq(Messages)]
  BY DEF Inboxes
<1>2. Append(inbox[side], m) \in Seq(Messages)
  BY <1>1, MessageAdded
<1>. QED
  BY <1>1, <1>2, OtherSide
-----------------------------------------------------------------------------
LEMMA SessionStart == Init => Session
<1>. SUFFICES ASSUME Init PROVE Session
  OBVIOUS
<1>1. inbox["computer"] = <<>> /\ inbox["phone"] = <<"GetNativeSampleRate">>
  BY DEF Init, Sides
<1>2. /\ \A S : NumberOf(<<>>, S) = 0 /\ Free(<<>>, S)
      /\ \A S : Free(<<"GetNativeSampleRate">>, S) <=> "GetNativeSampleRate" \notin S
  BY NumberOfNone, FreeSimple
<1>3. \A S : NumberOf(<<"GetNativeSampleRate">>, S) = IF "GetNativeSampleRate" \in S THEN 1 ELSE 0
  <2>1. "GetNativeSampleRate" \in ToPhone
    BY DEF ToPhone
  <2>. QED
    BY <2>1, NumberOfOne
<1>4. Inboxes
  <2>1. /\ <<>> \in Seq(Messages) /\ <<"GetNativeSampleRate">> \in Seq(Messages)
        /\ <<>> \in Seq(ToComputer) /\ <<"GetNativeSampleRate">> \in Seq(ToPhone)
    BY DEF Messages, ToPhone
  <2>2. inbox \in [Sides -> Seq(Messages)]
    BY <2>1 DEF Init, Sides
  <2>. QED
    BY <1>1, <2>1, <2>2 DEF Inboxes
<1>5. States
  BY DEF Init, States, Sides
<1>6. KnowsBeforeTelling
  BY <1>1, <1>2 DEF Init, KnowsBeforeTelling
<1>7. PingsCounted
  BY <1>1, <1>2, <1>3, OtherSide DEF Init, PingsCounted, PingOfOne
<1>8. QuestionCounted
  BY <1>1, <1>3 DEF Init, QuestionCounted
<1>9. AnswerCounted /\ RateKnown
  BY <1>1, <1>2 DEF Init, AnswerCounted, RateKnown
<1>. QED
  BY <1>4, <1>5, <1>6, <1>7, <1>8, <1>9 DEF Session

(* What is known of the rate stays known when a step neither changes the   *)
(* value nor sends another one.                                            *)
LEMMA RateStaysKnown ==
  ASSUME Session, link = "up", UNCHANGED <<value, question>>,
         NumberOf(inbox'["phone"], {"GetNativeSampleRate"})
           = NumberOf(inbox["phone"], {"GetNativeSampleRate"}),
         NumberOf(inbox'["computer"], {"OddRate"}) > 0 =>
           NumberOf(inbox["computer"], {"OddRate"}) > 0,
         panicked' = "rate" => panicked = "rate" \/ value = "OddRate"
  PROVE  RateKnown'
BY DEF Session, RateKnown

(* The phone's task is asked for its rate.                                 *)
LEMMA GetRateStep == Session /\ HandleGetRate => Session'
<1>. SUFFICES ASSUME Session, HandleGetRate PROVE Session'
  OBVIOUS
<1>. USE DEF Session
<1>1. UNCHANGED <<value, taskQ, ui, breaks, pingVars, cmVars, computerVars, panicked>>
  BY DEF HandleGetRate
<1>. DEFINE p == inbox["phone"]
            q == inbox["computer"]
<1>2. /\ link = "up" /\ link' = "up" /\ p # <<>> /\ Head(p) = "GetNativeSampleRate"
      /\ UNCHANGED <<via, strays, early>>
      /\ p \in Seq(Messages) /\ q \in Seq(Messages)
      /\ inbox' \in [Sides -> Seq(Messages)] /\ inbox'["phone"] = Tail(p)
      /\ value # "none" => inbox'["computer"] = Append(q, value)
      /\ value = "none" => inbox'["computer"] = q
      /\ value # "none" => answered' = answered + 1 /\ requests' = requests /\ question' = question
      /\ value = "none" => answered' = answered /\ requests' = requests + 1 /\ question' = "queued"
  <2>1. CASE value # "none"
    <3>1. value \in Messages /\ <<value>> = <<value>>
      BY <2>1 DEF States, Rates, Messages, ToComputer
    <3>2. Handles("phone", "GetNativeSampleRate", <<value>>)
      BY <2>1 DEF HandleGetRate
    <3>. QED
      BY <2>1, <3>1, <3>2, OtherSide, MessageHandled DEF HandleGetRate
  <2>2. CASE value = "none"
    <3>1. Handles("phone", "GetNativeSampleRate", <<>>)
      BY <2>2 DEF HandleGetRate
    <3>. QED
      BY <2>2, <3>1, OtherSide, MessageHandled DEF HandleGetRate
  <2>. QED
    BY <2>1, <2>2
<1>3. /\ \A S : NumberOf(Tail(p), S)
                  = IF "GetNativeSampleRate" \in S THEN NumberOf(p, S) - 1 ELSE NumberOf(p, S)
      /\ \A S : Free(p, S) => Free(Tail(p), S)
      /\ \A K : p \in Seq(K) => Tail(p) \in Seq(K)
  BY <1>2, MessageTaken
<1>4. value # "none" => /\ value \in Messages /\ value \in ToComputer
                        /\ \A S : NumberOf(Append(q, value), S)
                                    = IF value \in S THEN NumberOf(q, S) + 1 ELSE NumberOf(q, S)
                        /\ \A K : q \in Seq(K) /\ value \in K => Append(q, value) \in Seq(K)
  <2>. SUFFICES ASSUME value # "none"
                PROVE  /\ value \in Messages /\ value \in ToComputer
                       /\ \A S : NumberOf(Append(q, value), S)
                                   = IF value \in S THEN NumberOf(q, S) + 1 ELSE NumberOf(q, S)
                       /\ \A K : q \in Seq(K) /\ value \in K => Append(q, value) \in Seq(K)
    OBVIOUS
  <2>1. value \in Messages /\ value \in ToComputer
    BY DEF States, Rates, Messages, ToComputer
  <2>. QED
    BY <1>2, <2>1, MessageAdded
<1>5. \A S : NumberOf(p, S) \in Nat /\ NumberOf(q, S) \in Nat
  BY OtherSide, Counts
<1>6. value \notin {"Ping", "PingResponse"}
  BY DEF States, Rates
<1>7. Inboxes'
  BY <1>2, <1>3, <1>4 DEF Inboxes
<1>8. States'
  BY <1>1, <1>2 DEF States, cmVars, computerVars
<1>9. KnowsBeforeTelling'
  BY <1>1, <1>2, <1>3, <1>4 DEF KnowsBeforeTelling
<1>10. PingsCounted'
  <2>1. /\ NumberOf(inbox'["phone"], {"Ping"}) = NumberOf(p, {"Ping"})
        /\ NumberOf(inbox'["phone"], {"PingResponse"}) = NumberOf(p, {"PingResponse"})
        /\ NumberOf(inbox'["computer"], {"Ping"}) = NumberOf(q, {"Ping"})
        /\ NumberOf(inbox'["computer"], {"PingResponse"}) = NumberOf(q, {"PingResponse"})
    BY <1>2, <1>3, <1>4, <1>6
  <2>. QED
    BY <1>1, <1>2, <2>1, OtherSide DEF PingsCounted, PingOfOne, pingVars
<1>11. QuestionCounted'
  <2>1. NumberOf(inbox'["phone"], {"GetNativeSampleRate"}) = NumberOf(p, {"GetNativeSampleRate"}) - 1
    BY <1>2, <1>3
  <2>2. NumberOf(inbox'["phone"], {"GetNativeSampleRate"}) \in Nat
    BY <1>2, PositionsFinite DEF Sides
  <2>. QED
    BY <1>2, <1>5, <2>1, <2>2 DEF QuestionCounted
<1>12. AnswerCounted'
  <2>1. CASE value # "none"
    BY <1>1, <1>2, <2>1 DEF AnswerCounted
  <2>2. CASE value = "none"
    <3>1. question = "none"
      <4>1. NumberOf(p, {"GetNativeSampleRate"}) # 0
        <5>1. Tail(p) \in Seq(Messages)
          BY <1>2, <1>3
        <5>2. NumberOf(Tail(p), {"GetNativeSampleRate"}) \in Nat
          BY <5>1, PositionsFinite
        <5>3. NumberOf(Tail(p), {"GetNativeSampleRate"}) = NumberOf(p, {"GetNativeSampleRate"}) - 1
          BY <1>3
        <5>. QED
          BY <1>5, <5>2, <5>3
      <4>. QED
        BY <1>2, <4>1 DEF RateKnown
    <3>. QED
      BY <1>1, <1>2, <2>2, <3>1 DEF AnswerCounted
  <2>. QED
    BY <2>1, <2>2
<1>13. RateKnown'
  <2>1. NumberOf(inbox'["phone"], {"GetNativeSampleRate"}) = NumberOf(p, {"GetNativeSampleRate"}) - 1
    BY <1>2, <1>3
  <2>2. NumberOf(p, {"GetNativeSampleRate"}) <= 1
    BY <1>2, <1>5 DEF QuestionCounted
  <2>3. NumberOf(inbox'["phone"], {"GetNativeSampleRate"}) \in Nat
    BY <1>2, PositionsFinite DEF Sides
  <2>4. NumberOf(inbox'["phone"], {"GetNativeSampleRate"}) = 0
    BY <1>5, <2>1, <2>2, <2>3
  <2>5. NumberOf(inbox'["computer"], {"OddRate"}) > 0 => value = "OddRate"
    BY <1>2, <1>4 DEF RateKnown
  <2>. QED
    BY <1>1, <2>4, <2>5 DEF RateKnown
<1>. QED
  BY <1>7, <1>8, <1>9, <1>10, <1>11, <1>12, <1>13
(* A task takes a message and the other gets no or one in reply, which     *)
(* are neither pings nor the question: what remains is what is counted.    *)
LEMMA OrdinaryMessage ==
  ASSUME Session, NEW side \in Sides, NEW message, NEW replies, Handles(side, message, replies),
         message \notin {"Ping", "PingResponse", "GetNativeSampleRate"},
         \/ replies = <<>>
         \/ replies = <<"PlayAudioStream">> /\ side = "computer",
         UNCHANGED <<pinging, requests, answered, question>>
  PROVE  /\ Inboxes' /\ PingsCounted' /\ QuestionCounted'
         /\ link = "up" /\ link' = "up" /\ UNCHANGED <<via, strays, early>>
         /\ message = Head(inbox[side]) /\ message \in Messages
         /\ NumberOf(inbox[side], {message}) > 0
         /\ NumberOf(inbox'["phone"], {"GetNativeSampleRate"})
              = NumberOf(inbox["phone"], {"GetNativeSampleRate"})
         /\ NumberOf(inbox'["computer"], {"OddRate"}) > 0 =>
              NumberOf(inbox["computer"], {"OddRate"}) > 0
         /\ \A S : Free(inbox[side], S) => message \notin S
         /\ \A s \in Sides : \A S : Free(inbox[s], S) /\ "PlayAudioStream" \notin S => Free(inbox'[s], S)
         /\ \A S : replies = <<>> => \A s \in Sides : Free(inbox[s], S) => Free(inbox'[s], S)
<1>. USE DEF Session
<1>. DEFINE p == inbox[side]
            q == inbox[Other(side)]
<1>0. "PlayAudioStream" \in Messages /\ "PlayAudioStream" \in ToPhone
  BY Kinds
<1>1. /\ link = "up" /\ link' = "up" /\ p # <<>> /\ Head(p) = message
      /\ UNCHANGED <<via, strays, early>>
      /\ p \in Seq(Messages) /\ q \in Seq(Messages)
      /\ inbox' \in [Sides -> Seq(Messages)] /\ inbox'[side] = Tail(p)
      /\ replies = <<>> => inbox'[Other(side)] = q
      /\ replies = <<"PlayAudioStream">> => inbox'[Other(side)] = Append(q, "PlayAudioStream")
  <2>1. replies = <<>> \/ \E m \in Messages : replies = <<m>>
    BY <1>0
  <2>. QED
    BY <1>0, <2>1, MessageHandled
<1>2. /\ \A S : NumberOf(Tail(p), S) = IF message \in S THEN NumberOf(p, S) - 1 ELSE NumberOf(p, S)
      /\ \A S : Free(p, S) => Free(Tail(p), S) /\ message \notin S
      /\ \A K : p \in Seq(K) => Tail(p) \in Seq(K)
  BY <1>1, MessageTaken
<1>3. /\ \A S : NumberOf(Append(q, "PlayAudioStream"), S)
                  = IF "PlayAudioStream" \in S THEN NumberOf(q, S) + 1 ELSE NumberOf(q, S)
      /\ \A S : Free(q, S) /\ "PlayAudioStream" \notin S => Free(Append(q, "PlayAudioStream"), S)
      /\ q \in Seq(ToPhone) => Append(q, "PlayAudioStream") \in Seq(ToPhone)
  BY <1>0, <1>1, MessageAdded
<1>4. Inboxes'
  BY <1>0, <1>1, <1>2, <1>3, OtherSide DEF Inboxes
<1>5. \A S : S \subseteq {"Ping", "PingResponse", "GetNativeSampleRate"} =>
         /\ NumberOf(inbox'[side], S) = NumberOf(p, S)
         /\ NumberOf(inbox'[Other(side)], S) = NumberOf(q, S)
  BY <1>1, <1>2, <1>3
<1>6. \A s \in Sides :
         /\ NumberOf(inbox'[s], {"Ping"}) = NumberOf(inbox[s], {"Ping"})
         /\ NumberOf(inbox'[s], {"PingResponse"}) = NumberOf(inbox[s], {"PingResponse"})
         /\ NumberOf(inbox'[s], {"GetNativeSampleRate"}) = NumberOf(inbox[s], {"GetNativeSampleRate"})
  <2>1. \A s \in Sides : s = side \/ s = Other(side)
    BY OtherSide
  <2>. QED
    BY <1>5, <2>1
<1>7. PingsCounted'
  BY <1>1, <1>6, OtherSide DEF PingsCounted, PingOfOne
<1>8. QuestionCounted'
  BY <1>1, <1>6, OtherSide DEF QuestionCounted
<1>9. \A s \in Sides : s = side \/ s = Other(side)
  BY OtherSide
<1>10. \A s \in Sides : NumberOf(inbox'[s], {"OddRate"}) <= NumberOf(inbox[s], {"OddRate"})
  <2>1. /\ NumberOf(inbox'[side], {"OddRate"}) <= NumberOf(p, {"OddRate"})
        /\ NumberOf(inbox'[Other(side)], {"OddRate"}) = NumberOf(q, {"OddRate"})
    <3>1. NumberOf(p, {"OddRate"}) \in Nat
      BY <1>1, PositionsFinite
    <3>2. /\ inbox'[side] = Tail(p)
          /\ NumberOf(Tail(p), {"OddRate"})
               = IF message \in {"OddRate"} THEN NumberOf(p, {"OddRate"}) - 1 ELSE NumberOf(p, {"OddRate"})
      BY <1>1, <1>2
    <3>3. /\ inbox'[Other(side)] \in {q, Append(q, "PlayAudioStream")}
          /\ NumberOf(Append(q, "PlayAudioStream"), {"OddRate"}) = NumberOf(q, {"OddRate"})
      BY <1>1, <1>3
    <3>4. NumberOf(inbox'[side], {"OddRate"}) <= NumberOf(p, {"OddRate"})
      BY <3>1, <3>2
    <3>5. NumberOf(inbox'[Other(side)], {"OddRate"}) = NumberOf(q, {"OddRate"})
      BY <3>3
    <3>. QED
      BY <3>4, <3>5
  <2>2. \A s \in Sides : NumberOf(inbox[s], {"OddRate"}) \in Nat
    BY Counts
  <2>3. side \in Sides /\ Other(side) \in Sides
    BY OtherSide
  <2>. QED
    BY <1>9, <2>1, <2>2, <2>3
<1>11. \A s \in Sides : \A S : NumberOf(inbox[s], S) \in Nat /\ NumberOf(inbox'[s], S) \in Nat
  BY <1>1, PositionsFinite, Counts
<1>12. NumberOf(p, {message}) > 0
  <2>1. NumberOf(p, {message}) \in Nat /\ NumberOf(inbox'[side], {message}) \in Nat
    BY <1>11
  <2>2. NumberOf(inbox'[side], {message}) = NumberOf(p, {message}) - 1
    BY <1>1, <1>2
  <2>. QED
    BY <2>1, <2>2
<1>13. message \in Messages
  BY <1>1, MessageTaken
<1>14. NumberOf(inbox'["computer"], {"OddRate"}) > 0 => NumberOf(inbox["computer"], {"OddRate"}) > 0
  BY <1>10, <1>11, OtherSide
<1>15. NumberOf(inbox'["phone"], {"GetNativeSampleRate"})
         = NumberOf(inbox["phone"], {"GetNativeSampleRate"})
  BY <1>6, OtherSide
<1>16. \A s \in Sides : \A S : Free(inbox[s], S) /\ "PlayAudioStream" \notin S => Free(inbox'[s], S)
  BY <1>1, <1>2, <1>3, <1>9
<1>17. \A S : replies = <<>> => \A s \in Sides : Free(inbox[s], S) => Free(inbox'[s], S)
  BY <1>1, <1>2, <1>9
<1>. QED
  BY <1>1, <1>2, <1>4, <1>7, <1>8, <1>12, <1>13, <1>14, <1>15, <1>16, <1>17

LEMMA PhoneTakesStep == Session /\ HandlePlay => Session'
<1>. SUFFICES ASSUME Session, HandlePlay PROVE Session'
  OBVIOUS
<1>. USE DEF Session
<1>1. /\ Handles("phone", "PlayAudioStream", <<>>)
      /\ \/ value = "none" /\ panicked' = "unwrap"
         \/ value # "none" /\ panicked' = panicked
      /\ UNCHANGED <<request, pending, held, backlog, oboe, failed, pingVars, computerVars, phoneVars>>
  BY DEF HandlePlay
<1>2. /\ Inboxes' /\ PingsCounted' /\ QuestionCounted' /\ link = "up" /\ link' = "up"
      /\ UNCHANGED <<via, strays, early>>
      /\ NumberOf(inbox'["phone"], {"GetNativeSampleRate"})
           = NumberOf(inbox["phone"], {"GetNativeSampleRate"})
      /\ NumberOf(inbox'["computer"], {"OddRate"}) > 0 =>
           NumberOf(inbox["computer"], {"OddRate"}) > 0
      /\ \A S : Free(inbox["phone"], S) => "PlayAudioStream" \notin S
      /\ \A S : \A s \in Sides : Free(inbox[s], S) => Free(inbox'[s], S)
  <2>1. "phone" \in Sides /\ UNCHANGED <<pinging, requests, answered, question>>
    BY <1>1 DEF Sides, pingVars, phoneVars
  <2>. QED
    BY <1>1, <2>1, OrdinaryMessage DEF Sides
<1>3. States'
  BY <1>1, <1>2 DEF States, computerVars, phoneVars, peerVars
<1>4. value = "none" => early
  BY <1>2 DEF KnowsBeforeTelling
<1>5. KnowsBeforeTelling'
  BY <1>1, <1>2, <1>4, OtherSide DEF KnowsBeforeTelling, phoneVars, peerVars
<1>6. AnswerCounted' /\ RateKnown'
  BY <1>1, <1>2, RateStaysKnown DEF AnswerCounted, phoneVars
<1>. QED
  BY <1>2, <1>3, <1>5, <1>6

LEMMA OnlyLoggedStep ==
  ASSUME Session, NEW side \in Sides, HandleOnlyLogged(side)
  PROVE  Session'
<1>. USE DEF Session
<1>1. PICK message \in {"BadPlayAudioStream", "AudioStreamPlayError"} : Handles(side, message, <<>>)
  BY DEF HandleOnlyLogged
<1>2. UNCHANGED <<pingVars, cmVars, computerVars, phoneVars, panicked>>
  BY DEF HandleOnlyLogged
<1>3. /\ Inboxes' /\ PingsCounted' /\ QuestionCounted' /\ link = "up" /\ link' = "up"
      /\ UNCHANGED <<via, strays, early>>
      /\ NumberOf(inbox'["phone"], {"GetNativeSampleRate"})
           = NumberOf(inbox["phone"], {"GetNativeSampleRate"})
      /\ NumberOf(inbox'["computer"], {"OddRate"}) > 0 =>
           NumberOf(inbox["computer"], {"OddRate"}) > 0
      /\ \A S : \A s \in Sides : Free(inbox[s], S) => Free(inbox'[s], S)
  <2>1. UNCHANGED <<pinging, requests, answered, question>>
    BY <1>2 DEF pingVars, phoneVars
  <2>. QED
    BY <1>1, <2>1, OrdinaryMessage
<1>4. States'
  BY <1>2, <1>3 DEF States, cmVars, computerVars, phoneVars, peerVars
<1>5. KnowsBeforeTelling'
  BY <1>2, <1>3, OtherSide DEF KnowsBeforeTelling, phoneVars, peerVars
<1>6. AnswerCounted' /\ RateKnown'
  BY <1>2, <1>3, RateStaysKnown DEF AnswerCounted, phoneVars
<1>. QED
  BY <1>3, <1>4, <1>5, <1>6

LEMMA ComputerTakesStep ==
  ASSUME Session, (\E rate \in Rates : HandleRate(rate)) \/ HandleStart
  PROVE  Session'
<1>. USE DEF Session
<1>1. /\ UNCHANGED <<request, pending, held, backlog, oboe, failed, info, recording, pulse, waiting,
                     startLost, pingVars, phoneVars>>
      /\ \/ Handles("computer", "Rate", <<"PlayAudioStream">>) /\ panicked' = panicked
         \/ Handles("computer", "NoRate", <<>>) /\ panicked' = panicked
         \/ Handles("computer", "OddRate", <<>>) /\ panicked' = "rate"
         \/ Handles("computer", "StartAudioStream", <<>>) /\ panicked' = panicked
  BY DEF HandleRate, HandleStart, Rates, cmVars, computerVars
<1>2. "computer" \in Sides /\ UNCHANGED <<pinging, requests, answered, question>>
  BY <1>1 DEF Sides, pingVars, phoneVars
<1>3. CASE Handles("computer", "Rate", <<"PlayAudioStream">>) /\ panicked' = panicked
  <2>1. /\ Inboxes' /\ PingsCounted' /\ QuestionCounted' /\ link = "up" /\ link' = "up"
        /\ UNCHANGED <<via, strays, early>>
        /\ NumberOf(inbox'["phone"], {"GetNativeSampleRate"})
             = NumberOf(inbox["phone"], {"GetNativeSampleRate"})
        /\ NumberOf(inbox'["computer"], {"OddRate"}) > 0 =>
             NumberOf(inbox["computer"], {"OddRate"}) > 0
        /\ \A S : Free(inbox["computer"], S) => "Rate" \notin S
    BY <1>2, <1>3, OrdinaryMessage
  <2>2. value # "none"
    BY <2>1 DEF KnowsBeforeTelling
  <2>3. States' /\ KnowsBeforeTelling'
    BY <1>1, <1>3, <2>1, <2>2 DEF States, KnowsBeforeTelling, phoneVars, peerVars
  <2>4. AnswerCounted' /\ RateKnown'
    BY <1>1, <1>3, <2>1, RateStaysKnown DEF AnswerCounted, phoneVars
  <2>. QED
    BY <2>1, <2>3, <2>4
<1>4. ASSUME NEW message \in {"NoRate", "OddRate", "StartAudioStream"},
             Handles("computer", message, <<>>),
             panicked' = IF message = "OddRate" THEN "rate" ELSE panicked
      PROVE  Session'
  <2>1. /\ Inboxes' /\ PingsCounted' /\ QuestionCounted' /\ link = "up" /\ link' = "up"
        /\ UNCHANGED <<via, strays, early>>
        /\ NumberOf(inbox["computer"], {message}) > 0
        /\ NumberOf(inbox'["phone"], {"GetNativeSampleRate"})
             = NumberOf(inbox["phone"], {"GetNativeSampleRate"})
        /\ NumberOf(inbox'["computer"], {"OddRate"}) > 0 =>
             NumberOf(inbox["computer"], {"OddRate"}) > 0
        /\ \A S : \A s \in Sides : Free(inbox[s], S) => Free(inbox'[s], S)
    BY <1>2, <1>4, OrdinaryMessage
  <2>2. States'
    BY <1>1, <1>4, <2>1 DEF States, phoneVars, peerVars
  <2>3. KnowsBeforeTelling'
    BY <1>1, <1>4, <2>1, OtherSide DEF KnowsBeforeTelling, phoneVars, peerVars
  <2>4. message = "OddRate" => value = "OddRate"
    BY <2>1 DEF RateKnown
  <2>5. AnswerCounted' /\ RateKnown'
    <3>1. panicked' = "rate" => panicked = "rate" \/ value = "OddRate"
      BY <1>4, <2>4
    <3>. QED
      BY <1>1, <2>1, <3>1, RateStaysKnown DEF AnswerCounted, phoneVars
  <2>. QED
    BY <2>1, <2>2, <2>3, <2>5
<1>. QED
  BY <1>1, <1>3, <1>4

(* What a peer sends out of order is none of the messages that are counted.*)
LEMMA PeerSendsStep ==
  ASSUME Session, NEW side \in Sides, NEW m \in Strays[side], PeerSends(side, m)
  PROVE  Session'
<1>. USE DEF Session
<1>. DEFINE q == inbox[side]
<1>1. /\ link = "up" /\ inbox' = [inbox EXCEPT ![side] = Append(@, m)]
      /\ early' = (early \/ (m = "PlayAudioStream" /\ value = "none"))
      /\ UNCHANGED <<via, link, pingVars, cmVars, computerVars, phoneVars, panicked>>
  BY DEF PeerSends
<1>2. /\ m \in Messages
      /\ m \notin {"Ping", "PingResponse", "GetNativeSampleRate", "Rate", "OddRate"}
      /\ (side = "phone" /\ m \in ToPhone) \/ (side = "computer" /\ m \in ToComputer)
  <2>1. CASE side = "phone"
    <3>1. m \in {"PlayAudioStream", "BadPlayAudioStream", "AudioStreamPlayError"}
      BY <2>1 DEF Strays
    <3>. QED
      BY <2>1, <3>1, Kinds
  <2>2. CASE side = "computer"
    <3>1. m \in {"StartAudioStream", "BadPlayAudioStream", "AudioStreamPlayError"}
      BY <2>2 DEF Strays
    <3>. QED
      BY <2>2, <3>1, Kinds
  <2>. QED
    BY <2>1, <2>2, OtherSide
<1>3. /\ q \in Seq(Messages) /\ inbox' \in [Sides -> Seq(Messages)]
      /\ inbox'[side] = Append(q, m) /\ inbox'[Other(side)] = inbox[Other(side)]
      /\ Other(side) \in Sides
  BY <1>1, <1>2, OtherSide, MessageSent
<1>4. /\ \A S : NumberOf(Append(q, m), S) = IF m \in S THEN NumberOf(q, S) + 1 ELSE NumberOf(q, S)
      /\ \A S : Free(q, S) /\ m \notin S => Free(Append(q, m), S)
      /\ \A K : q \in Seq(K) /\ m \in K => Append(q, m) \in Seq(K)
  BY <1>2, <1>3, MessageAdded
<1>5. \A s \in Sides : s = side \/ s = Other(side)
  BY OtherSide
<1>6. \A s \in Sides :
         /\ NumberOf(inbox'[s], {"Ping"}) = NumberOf(inbox[s], {"Ping"})
         /\ NumberOf(inbox'[s], {"PingResponse"}) = NumberOf(inbox[s], {"PingResponse"})
         /\ NumberOf(inbox'[s], {"GetNativeSampleRate"}) = NumberOf(inbox[s], {"GetNativeSampleRate"})
         /\ NumberOf(inbox'[s], {"OddRate"}) = NumberOf(inbox[s], {"OddRate"})
  BY <1>2, <1>3, <1>4, <1>5
<1>7. Inboxes'
  BY <1>2, <1>3, <1>4, OtherSide DEF Inboxes
<1>8. States'
  BY <1>1 DEF States, cmVars, computerVars, phoneVars
<1>9. KnowsBeforeTelling'
  BY <1>1, <1>2, <1>3, <1>4, OtherSide DEF KnowsBeforeTelling, phoneVars
<1>10. PingsCounted'
  BY <1>1, <1>6, OtherSide DEF PingsCounted, PingOfOne, pingVars
<1>11. QuestionCounted' /\ AnswerCounted'
  BY <1>1, <1>6, OtherSide DEF QuestionCounted, AnswerCounted, phoneVars
<1>12. RateKnown'
  BY <1>1, <1>6, OtherSide, RateStaysKnown DEF phoneVars
<1>. QED
  BY <1>7, <1>8, <1>9, <1>10, <1>11, <1>12
(* Pings: one is sent, answered, and the answer taken.                     *)
LEMMA SendPingStep ==
  ASSUME Session, NEW side \in Sides, SendPing(side)
  PROVE  Session'
<1>. USE DEF Session
<1>. DEFINE o == Other(side)
            q == inbox[o]
<1>1. /\ link = "up" /\ pinging[side] = FALSE
      /\ inbox' = [inbox EXCEPT ![o] = Append(@, "Ping")]
      /\ pinging' = [pinging EXCEPT ![side] = TRUE]
      /\ UNCHANGED <<via, link, peerVars, cmVars, computerVars, phoneVars, panicked>>
  BY DEF SendPing, PingsCounted
<1>2. /\ o \in Sides /\ Other(o) = side /\ o # side /\ "Ping" \in Messages
      /\ "Ping" \in ToPhone /\ "Ping" \in ToComputer
      /\ \A s \in Sides : s = side \/ s = o
  BY OtherSide DEF Messages, ToPhone, ToComputer
<1>. HIDE DEF o
<1>3. /\ q \in Seq(Messages) /\ inbox' \in [Sides -> Seq(Messages)]
      /\ inbox'[o] = Append(q, "Ping") /\ inbox'[side] = inbox[side]
  BY <1>1, <1>2, MessageSent
<1>4. /\ \A S : NumberOf(Append(q, "Ping"), S)
                  = IF "Ping" \in S THEN NumberOf(q, S) + 1 ELSE NumberOf(q, S)
      /\ \A S : Free(q, S) /\ "Ping" \notin S => Free(Append(q, "Ping"), S)
      /\ \A K : q \in Seq(K) /\ "Ping" \in K => Append(q, "Ping") \in Seq(K)
  BY <1>2, <1>3, MessageAdded
<1>5. Inboxes'
  BY <1>2, <1>3, <1>4, OtherSide DEF Inboxes
<1>6. States'
  BY <1>1 DEF States, cmVars, computerVars, phoneVars, peerVars
<1>7. KnowsBeforeTelling'
  BY <1>1, <1>2, <1>3, <1>4, OtherSide DEF KnowsBeforeTelling, phoneVars, peerVars
<1>8. PingsCounted'
  <2>1. PingOfOne(side) /\ PingOfOne(o)
    BY <1>1, <1>2, OtherSide DEF PingsCounted
  <2>2. \A s \in Sides : \A S : NumberOf(inbox[s], S) \in Nat
    BY Counts
  <2>3. /\ pinging' \in [Sides -> BOOLEAN] /\ pinging'[side] = TRUE /\ pinging'[o] = pinging[o]
    BY <1>1, <1>2 DEF PingsCounted
  <2>4. /\ NumberOf(inbox'[o], {"Ping"}) = NumberOf(q, {"Ping"}) + 1
        /\ NumberOf(inbox'[o], {"PingResponse"}) = NumberOf(q, {"PingResponse"})
        /\ inbox'[side] = inbox[side]
    BY <1>3, <1>4
  <2>5. PingOfOne(side)'
    <3>1. NumberOf(inbox[o], {"Ping"}) + NumberOf(inbox[side], {"PingResponse"}) = 0
      BY <1>1, <2>1 DEF PingOfOne, o
    <3>2. NumberOf(inbox'[o], {"Ping"}) + NumberOf(inbox'[side], {"PingResponse"}) = 1
      BY <1>2, <2>2, <2>4, <3>1
    <3>. QED
      BY <2>3, <3>2 DEF PingOfOne, o
  <2>6. PingOfOne(o)'
    BY <1>2, <2>1, <2>3, <2>4 DEF PingOfOne
  <2>7. PingOfOne("computer")' /\ PingOfOne("phone")'
    <3>1. CASE side = "computer" /\ o = "phone"
      BY <2>5, <2>6, <3>1
    <3>2. CASE side = "phone" /\ o = "computer"
      BY <2>5, <2>6, <3>2
    <3>. QED
      BY <3>1, <3>2, OtherSide DEF o
  <2>. QED
    BY <2>3, <2>7 DEF PingsCounted
<1>9. /\ NumberOf(inbox'["phone"], {"GetNativeSampleRate"})
           = NumberOf(inbox["phone"], {"GetNativeSampleRate"})
      /\ NumberOf(inbox'["computer"], {"OddRate"}) = NumberOf(inbox["computer"], {"OddRate"})
  BY <1>2, <1>3, <1>4, OtherSide
<1>10. QuestionCounted' /\ AnswerCounted'
  BY <1>1, <1>9 DEF QuestionCounted, AnswerCounted, phoneVars
<1>11. RateKnown'
  BY <1>1, <1>9, RateStaysKnown DEF phoneVars
<1>. QED
  BY <1>5, <1>6, <1>7, <1>8, <1>10, <1>11

LEMMA HandlePingStep ==
  ASSUME Session, NEW side \in Sides, HandlePing(side) \/ HandlePingResponse(side)
  PROVE  Session'
<1>. USE DEF Session
<1>. DEFINE o == Other(side)
            p == inbox[side]
            q == inbox[o]
<1>1. /\ o \in Sides /\ Other(o) = side /\ o # side
      /\ "PingResponse" \in Messages /\ "PingResponse" \in ToPhone /\ "PingResponse" \in ToComputer
      /\ \A s \in Sides : s = side \/ s = o
  BY OtherSide DEF Messages, ToPhone, ToComputer
<1>2. /\ UNCHANGED <<pings, cmVars, computerVars, phoneVars, panicked>>
      /\ \/ /\ Handles(side, "Ping", <<"PingResponse">>) /\ pinging' = pinging
         \/ /\ Handles(side, "PingResponse", <<>>) /\ pinging' = [pinging EXCEPT ![side] = FALSE]
  BY DEF HandlePing, HandlePingResponse, pingVars
<1>. HIDE DEF o
<1>3. /\ link = "up" /\ link' = "up" /\ UNCHANGED <<via, strays, early>> /\ p # <<>>
      /\ p \in Seq(Messages) /\ q \in Seq(Messages)
      /\ inbox' \in [Sides -> Seq(Messages)] /\ inbox'[side] = Tail(p)
      /\ \/ Head(p) = "Ping" /\ inbox'[o] = Append(q, "PingResponse") /\ pinging' = pinging
         \/ Head(p) = "PingResponse" /\ inbox'[o] = q /\ pinging' = [pinging EXCEPT ![side] = FALSE]
  BY <1>1, <1>2, MessageHandled DEF o
<1>4. /\ \A S : NumberOf(Tail(p), S) = IF Head(p) \in S THEN NumberOf(p, S) - 1 ELSE NumberOf(p, S)
      /\ \A S : Free(p, S) => Free(Tail(p), S)
      /\ \A K : p \in Seq(K) => Tail(p) \in Seq(K)
      /\ Tail(p) \in Seq(Messages)
  BY <1>3, MessageTaken
<1>5. /\ \A S : NumberOf(Append(q, "PingResponse"), S)
                  = IF "PingResponse" \in S THEN NumberOf(q, S) + 1 ELSE NumberOf(q, S)
      /\ \A S : Free(q, S) /\ "PingResponse" \notin S => Free(Append(q, "PingResponse"), S)
      /\ \A K : q \in Seq(K) /\ "PingResponse" \in K => Append(q, "PingResponse") \in Seq(K)
  BY <1>1, <1>3, MessageAdded
<1>6. Inboxes'
  BY <1>1, <1>3, <1>4, <1>5, OtherSide DEF Inboxes
<1>7. States'
  BY <1>2, <1>3 DEF States, cmVars, computerVars, phoneVars, peerVars
<1>8. KnowsBeforeTelling'
  BY <1>1, <1>2, <1>3, <1>4, <1>5, OtherSide DEF KnowsBeforeTelling, phoneVars, peerVars
<1>9. PingsCounted'
  <2>1. PingOfOne(side) /\ PingOfOne(o) /\ pinging \in [Sides -> BOOLEAN]
    BY <1>1, <1>3, OtherSide DEF PingsCounted
  <2>2. /\ \A S : NumberOf(p, S) \in Nat /\ NumberOf(q, S) \in Nat
        /\ \A S : NumberOf(Tail(p), S) \in Nat
    BY <1>3, <1>4, PositionsFinite
  <2>3. /\ NumberOf(q, {"Ping"}) + NumberOf(p, {"PingResponse"}) = IF pinging[side] THEN 1 ELSE 0
        /\ NumberOf(p, {"Ping"}) + NumberOf(q, {"PingResponse"}) = IF pinging[o] THEN 1 ELSE 0
    BY <1>1, <2>1 DEF PingOfOne, o
  <2>4. CASE Head(p) = "Ping" /\ inbox'[o] = Append(q, "PingResponse") /\ pinging' = pinging
    <3>1. /\ NumberOf(inbox'[side], {"Ping"}) = NumberOf(p, {"Ping"}) - 1
          /\ NumberOf(inbox'[side], {"PingResponse"}) = NumberOf(p, {"PingResponse"})
          /\ NumberOf(inbox'[o], {"PingResponse"}) = NumberOf(q, {"PingResponse"}) + 1
          /\ NumberOf(inbox'[o], {"Ping"}) = NumberOf(q, {"Ping"})
      BY <1>3, <1>4, <1>5, <2>4
    <3>2. /\ NumberOf(inbox'[o], {"Ping"}) + NumberOf(inbox'[side], {"PingResponse"})
               = IF pinging'[side] THEN 1 ELSE 0
          /\ NumberOf(inbox'[side], {"Ping"}) + NumberOf(inbox'[o], {"PingResponse"})
               = IF pinging'[o] THEN 1 ELSE 0
      BY <2>2, <2>3, <2>4, <3>1
    <3>3. PingOfOne(side)' /\ PingOfOne(o)'
      BY <1>1, <3>2 DEF PingOfOne, o
    <3>. QED
      BY <1>1, <2>1, <2>4, <3>3, OtherSide DEF PingsCounted, o
  <2>5. CASE /\ Head(p) = "PingResponse" /\ inbox'[o] = q
             /\ pinging' = [pinging EXCEPT ![side] = FALSE]
    <3>1. /\ NumberOf(inbox'[side], {"Ping"}) = NumberOf(p, {"Ping"})
          /\ NumberOf(inbox'[side], {"PingResponse"}) = NumberOf(p, {"PingResponse"}) - 1
          /\ NumberOf(inbox'[side], {"PingResponse"}) \in Nat
      BY <1>3, <1>4, <2>2, <2>5
    <3>2. pinging'[side] = FALSE /\ pinging'[o] = pinging[o] /\ pinging' \in [Sides -> BOOLEAN]
      BY <1>1, <2>1, <2>5
    <3>3. /\ NumberOf(q, {"Ping"}) + NumberOf(inbox'[side], {"PingResponse"}) = 0
          /\ NumberOf(inbox'[side], {"Ping"}) + NumberOf(q, {"PingResponse"})
               = IF pinging'[o] THEN 1 ELSE 0
      BY <2>2, <2>3, <3>1, <3>2
    <3>4. PingOfOne(side)' /\ PingOfOne(o)'
      BY <1>1, <2>5, <3>2, <3>3 DEF PingOfOne, o
    <3>. QED
      BY <1>1, <3>2, <3>4, OtherSide DEF PingsCounted, o
  <2>. QED
    BY <1>3, <2>4, <2>5
<1>10. /\ NumberOf(inbox'["phone"], {"GetNativeSampleRate"})
            = NumberOf(inbox["phone"], {"GetNativeSampleRate"})
       /\ NumberOf(inbox'["computer"], {"OddRate"}) = NumberOf(inbox["computer"], {"OddRate"})
  <2>1. \A m \in {"GetNativeSampleRate", "OddRate"} :
           /\ NumberOf(inbox'[side], {m}) = NumberOf(p, {m})
           /\ NumberOf(inbox'[o], {m}) = NumberOf(q, {m})
    BY <1>3, <1>4, <1>5
  <2>. QED
    BY <1>1, <2>1, OtherSide
<1>11. QuestionCounted' /\ AnswerCounted'
  BY <1>2, <1>3, <1>10 DEF QuestionCounted, AnswerCounted, phoneVars
<1>12. RateKnown'
  BY <1>2, <1>3, <1>10, RateStaysKnown DEF phoneVars
<1>. QED
  BY <1>6, <1>7, <1>8, <1>9, <1>11, <1>12
-----------------------------------------------------------------------------
(* The rate arrives from the UI: the closure that waited for it, if there  *)
(* is one, sends it.                                                       *)
LEMMA UiRateStep ==
  ASSUME Session, NEW rate \in Rates, HandleUiRate(rate)
  PROVE  Session'
<1>. USE DEF Session
<1>. DEFINE q == inbox["computer"]
            sent == [i \in 1 .. requests |-> rate]
<1>1. /\ link = "up" /\ value' = rate /\ requests' = 0 /\ answered' = answered + requests
      /\ inbox' = [inbox EXCEPT !["computer"] = q \o sent]
      /\ taskQ # <<>> /\ Head(taskQ) = rate /\ taskQ' = Tail(taskQ)
      /\ UNCHANGED <<via, link, question, ui, pingVars, cmVars, computerVars, peerVars, panicked>>
  BY DEF HandleUiRate
<1>2. /\ rate \in Messages /\ rate \in ToComputer /\ rate \notin {"Ping", "PingResponse", "none"}
      /\ requests \in 0 .. 1 /\ "computer" \in Sides /\ inbox \in [Sides -> Seq(Messages)]
      /\ q \in Seq(Messages) /\ q \in Seq(ToComputer)
  BY DEF Messages, ToComputer, Rates, QuestionCounted, Inboxes, Sides
<1>3. q \o sent = IF requests = 0 THEN q ELSE Append(q, rate)
  <2>1. CASE requests = 0
    <3>1. sent = <<>>
      BY <2>1
    <3>. QED
      BY <1>2, <2>1, <3>1, ConcatEmptySeq
  <2>2. CASE requests = 1
    <3>1. sent = <<rate>>
      BY <2>2
    <3>. QED
      BY <1>2, <2>2, <3>1, MessageAdded
  <2>. QED
    BY <1>2, <2>1, <2>2
<1>4. /\ \A S : NumberOf(Append(q, rate), S)
                  = IF rate \in S THEN NumberOf(q, S) + 1 ELSE NumberOf(q, S)
      /\ Append(q, rate) \in Seq(Messages) /\ Append(q, rate) \in Seq(ToComputer)
  BY <1>2, MessageAdded
<1>. HIDE DEF sent
<1>5. /\ inbox' \in [Sides -> Seq(Messages)]
      /\ inbox'["computer"] = q \o sent /\ inbox'["phone"] = inbox["phone"]
  BY <1>1, <1>2, <1>3, <1>4, OtherSide
<1>6. Inboxes'
  BY <1>2, <1>3, <1>4, <1>5 DEF Inboxes
<1>7. States'
  BY <1>1 DEF States, cmVars, computerVars, peerVars
<1>8. KnowsBeforeTelling'
  BY <1>1, <1>2 DEF KnowsBeforeTelling, peerVars
<1>9. PingsCounted'
  <2>1. /\ NumberOf(inbox'["computer"], {"Ping"}) = NumberOf(q, {"Ping"})
        /\ NumberOf(inbox'["computer"], {"PingResponse"}) = NumberOf(q, {"PingResponse"})
    BY <1>2, <1>3, <1>4, <1>5
  <2>. QED
    BY <1>1, <1>5, <2>1, OtherSide DEF PingsCounted, PingOfOne, pingVars
<1>10. QuestionCounted'
  <2>1. NumberOf(inbox["phone"], {"GetNativeSampleRate"}) \in Nat
    BY OtherSide, Counts
  <2>. QED
    BY <1>1, <1>2, <1>5, <2>1 DEF QuestionCounted
<1>11. value = "none" /\ AnswerCounted'
  <2>1. /\ taskQ \in Seq(TaskEvents) /\ rate \in TaskEvents
        /\ Tail(taskQ) \in Seq(TaskEvents)
        /\ NumberOf(taskQ, Rates) \in Nat /\ NumberOf(Tail(taskQ), Rates) \in Nat
        /\ NumberOf(Tail(taskQ), Rates) = NumberOf(taskQ, Rates) - 1
    BY <1>1, Removed, NumberOfTail, PositionsFinite DEF AnswerCounted, TaskEvents
  <2>2. value = "none" /\ question = "answered" /\ NumberOf(taskQ, Rates) = 1
    BY <2>1 DEF AnswerCounted
  <2>. QED
    BY <1>1, <1>2, <2>1, <2>2 DEF AnswerCounted
<1>12. RateKnown'
  <2>1. panicked # "rate" /\ NumberOf(q, {"OddRate"}) = 0
    BY <1>2, <1>11, PositionsFinite DEF RateKnown
  <2>2. rate # "OddRate" => NumberOf(inbox'["computer"], {"OddRate"}) = 0
    BY <1>3, <1>4, <1>5, <2>1
  <2>. QED
    BY <1>1, <1>5, <2>1, <2>2 DEF RateKnown
<1>. QED
  BY <1>6, <1>7, <1>8, <1>9, <1>10, <1>11, <1>12

LEMMA SendStartStep == Session /\ HandleSendStart => Session'
<1>. SUFFICES ASSUME Session, HandleSendStart PROVE Session'
  OBVIOUS
<1>. USE DEF Session
<1>. DEFINE q == inbox["computer"]
<1>1. /\ inbox' = [inbox EXCEPT !["computer"] = Append(@, "StartAudioStream")]
      /\ link = "up" /\ taskQ # <<>> /\ Head(taskQ) = "SendStartAudioStream" /\ taskQ' = Tail(taskQ)
      /\ UNCHANGED <<via, link, value, requests, question, ui, answered, pingVars, cmVars,
                     computerVars, peerVars, panicked>>
  BY DEF HandleSendStart
<1>2. "StartAudioStream" \in Messages /\ "StartAudioStream" \in ToComputer
  BY Kinds
<1>3. /\ q \in Seq(Messages) /\ inbox' \in [Sides -> Seq(Messages)]
      /\ inbox'["computer"] = Append(q, "StartAudioStream") /\ inbox'["phone"] = inbox["phone"]
  BY <1>1, <1>2, OtherSide, MessageSent
<1>4. /\ \A S : NumberOf(Append(q, "StartAudioStream"), S)
                  = IF "StartAudioStream" \in S THEN NumberOf(q, S) + 1 ELSE NumberOf(q, S)
      /\ \A S : Free(q, S) /\ "StartAudioStream" \notin S => Free(Append(q, "StartAudioStream"), S)
      /\ q \in Seq(ToComputer) => Append(q, "StartAudioStream") \in Seq(ToComputer)
  BY <1>2, <1>3, MessageAdded
<1>5. Inboxes'
  BY <1>3, <1>4 DEF Inboxes
<1>6. States'
  BY <1>1 DEF States, cmVars, computerVars, peerVars
<1>7. KnowsBeforeTelling'
  BY <1>1, <1>3, <1>4 DEF KnowsBeforeTelling, peerVars
<1>8. PingsCounted'
  <2>1. /\ NumberOf(inbox'["computer"], {"Ping"}) = NumberOf(q, {"Ping"})
        /\ NumberOf(inbox'["computer"], {"PingResponse"}) = NumberOf(q, {"PingResponse"})
    BY <1>3, <1>4
  <2>. QED
    BY <1>1, <1>3, <2>1, OtherSide DEF PingsCounted, PingOfOne, pingVars
<1>9. QuestionCounted'
  BY <1>1, <1>3 DEF QuestionCounted
<1>10. AnswerCounted'
  <2>1. "SendStartAudioStream" \notin Rates
    BY DEF Rates
  <2>2. Tail(taskQ) \in Seq(TaskEvents) /\ NumberOf(Tail(taskQ), Rates) = NumberOf(taskQ, Rates)
    BY <1>1, <2>1, Removed, NumberOfTail DEF AnswerCounted
  <2>. QED
    BY <1>1, <2>2 DEF AnswerCounted
<1>11. RateKnown'
  <2>1. NumberOf(inbox'["computer"], {"OddRate"}) = NumberOf(q, {"OddRate"})
    BY <1>3, <1>4
  <2>. QED
    BY <1>1, <1>3, <2>1, RateStaysKnown
<1>. QED
  BY <1>5, <1>6, <1>7, <1>8, <1>9, <1>10, <1>11

(* Whoever sends no message to a device task cannot disturb what the two   *)
(* of them count on, nor forget that the UI was asked.                     *)
LEMMA SilentStep ==
  ASSUME Session, States', AnswerCounted',
         UNCHANGED <<link, inbox, pinging, value, requests, answered, early, panicked>>,
         question' = question \/ (question # "none" /\ question' # "none")
  PROVE  Session'
<1>. USE DEF Session
<1>1. Inboxes' /\ KnowsBeforeTelling' /\ RateKnown'
  BY DEF Inboxes, KnowsBeforeTelling, RateKnown
<1>2. PingsCounted'
  BY DEF PingsCounted, PingOfOne
<1>3. QuestionCounted'
  BY DEF QuestionCounted
<1>. QED
  BY <1>1, <1>2, <1>3

LEMMA UiStep == Session /\ (UiConnects \/ UiIsAsked \/ UiAnswers \/ UiBreaks) => Session'
<1>. SUFFICES ASSUME Session, UiConnects \/ UiIsAsked \/ UiAnswers \/ UiBreaks PROVE Session'
  OBVIOUS
<1>1. /\ UNCHANGED <<via, link, inbox, value, requests, answered, pingVars, cmVars, computerVars,
                     peerVars, panicked>>
      /\ ui' \in BOOLEAN
      /\ \/ question' = question /\ taskQ' = taskQ
         \/ question = "queued" /\ question' = "asked" /\ taskQ' = taskQ
         \/ question = "asked" /\ question' = "lost" /\ taskQ' = taskQ
         \/ /\ question = "asked" /\ question' = "answered"
            /\ \E rate \in Rates : taskQ' = Append(taskQ, rate)
  BY DEF Session, States, UiConnects, UiIsAsked, UiAnswers, UiBreaks, Ui
<1>2. States'
  BY <1>1 DEF Session, States, cmVars, computerVars, peerVars
<1>3. AnswerCounted'
  <2>1. CASE taskQ' = taskQ
    BY <1>1, <2>1 DEF Session, AnswerCounted
  <2>2. ASSUME NEW rate \in Rates, taskQ' = Append(taskQ, rate),
               question = "asked", question' = "answered"
        PROVE  AnswerCounted'
    <3>1. rate \in TaskEvents /\ taskQ \in Seq(TaskEvents)
      BY DEF TaskEvents, Session, AnswerCounted
    <3>2. taskQ' \in Seq(TaskEvents) /\ NumberOf(taskQ', Rates) = NumberOf(taskQ, Rates) + 1
      BY <2>2, <3>1, Extended, NumberOfAppend
    <3>. QED
      BY <1>1, <2>2, <3>1, <3>2, PositionsFinite DEF Session, AnswerCounted
  <2>. QED
    BY <1>1, <2>1, <2>2
<1>. QED
  BY <1>1, <1>2, <1>3, SilentStep DEF pingVars, peerVars

(* What a ConnectionManager gives away leaves the device tasks alone.      *)
LEMMA CheckKeepsStates ==
  ASSUME States, NEW side \in Sides, NEW stream \in BOOLEAN, Check(side, stream),
         request' \in [Sides -> BOOLEAN]
  PROVE  /\ oboe' \in {"off", "starting", "playing", "failed"} /\ failed' \in BOOLEAN
         /\ held' \in [Sides -> BOOLEAN] /\ pending' \in [Sides -> BOOLEAN]
<1>1. oboe' \in {"off", "starting", "playing", "failed"} /\ failed' \in BOOLEAN
  BY DEF States, Check, Gives, GivesNothing
<1>2. request'[side] \in BOOLEAN /\ Meets(side, stream) \in BOOLEAN
  BY DEF Meets
<1>3. held' \in [Sides -> BOOLEAN] /\ pending' \in [Sides -> BOOLEAN]
  BY <1>2 DEF States, Check
<1>. QED
  BY <1>1, <1>3

LEMMA ManagersStep == Session /\ (ComputerCm \/ PhoneCm) => Session'
<1>. SUFFICES ASSUME Session, ComputerCm \/ PhoneCm PROVE Session'
  OBVIOUS
<1>1. States
  BY DEF Session
<1>2. /\ UNCHANGED <<via, link, inbox, pingVars, info, recording, pulse, waiting, startLost, phoneVars,
                     peerVars, panicked>>
      /\ oboe' \in {"off", "starting", "playing", "failed"} /\ failed' \in BOOLEAN
      /\ request' \in [Sides -> BOOLEAN] /\ pending' \in [Sides -> BOOLEAN]
      /\ held' \in [Sides -> BOOLEAN] /\ backlog' \in Nat
  <2>. DEFINE Kept == UNCHANGED <<via, link, inbox, pingVars, info, recording, pulse, waiting,
                                  startLost, phoneVars, peerVars, panicked>>
  <2>0. pending["computer"] \in BOOLEAN /\ pending["phone"] \in BOOLEAN
    BY <1>1, OtherSide DEF States
  <2>1. CASE HandleSetRequest
    <3>1. /\ request' \in [Sides -> BOOLEAN] /\ backlog' \in Nat /\ Kept
          /\ Check("computer", pending["computer"])
      BY <1>1, <2>1 DEF HandleSetRequest, TakesCm, States
    <3>. QED
      BY <1>1, <2>0, <3>1, OtherSide, CheckKeepsStates
  <2>2. ASSUME NEW side \in Sides, HandleNewDataStream(side)
        PROVE  /\ Kept
               /\ oboe' \in {"off", "starting", "playing", "failed"} /\ failed' \in BOOLEAN
               /\ request' \in [Sides -> BOOLEAN] /\ pending' \in [Sides -> BOOLEAN]
               /\ held' \in [Sides -> BOOLEAN] /\ backlog' \in Nat
    <3>1. request' \in [Sides -> BOOLEAN] /\ backlog' \in Nat /\ Kept /\ Check(side, TRUE)
      BY <1>1, <2>2 DEF HandleNewDataStream, TakesCm, States
    <3>. QED
      BY <1>1, <3>1, CheckKeepsStates
  <2>3. CASE HandleConnectToData
    <3>1. /\ request' \in [Sides -> BOOLEAN] /\ backlog' \in Nat /\ Kept
          /\ \/ Check("phone", pending["phone"])
             \/ oboe' = oboe /\ pending' = pending /\ held' = held /\ failed' \in {failed, TRUE}
      <4>1. TakesCm("phone", "ConnectToData") /\ request' = [request EXCEPT !["phone"] = TRUE]
        BY <2>3 DEF HandleConnectToData
      <4>2. Kept /\ request' \in [Sides -> BOOLEAN]
        BY <1>1, <4>1 DEF TakesCm, States
      <4>3. \/ Check("phone", pending["phone"]) /\ backlog' = backlog
            \/ /\ backlog' \in {backlog, backlog + 1} /\ failed' \in {failed, TRUE}
               /\ oboe' = oboe /\ pending' = pending /\ held' = held
        BY <2>3 DEF HandleConnectToData, GivesNothing
      <4>4. backlog' \in Nat
        <5>1. backlog \in Nat /\ (backlog' = backlog \/ backlog' = backlog + 1)
          BY <1>1, <4>3 DEF States
        <5>. QED
          BY <5>1
      <4>. QED
        BY <4>2, <4>3, <4>4, Zenon
    <3>2. CASE Check("phone", pending["phone"])
      BY <1>1, <2>0, <3>1, <3>2, OtherSide, CheckKeepsStates
    <3>3. CASE oboe' = oboe /\ pending' = pending /\ held' = held /\ failed' \in {failed, TRUE}
      BY <1>1, <3>1, <3>3 DEF States
    <3>. QED
      BY <3>1, <3>2, <3>3
  <2>. QED
    BY <2>1, <2>2, <2>3, OtherSide DEF ComputerCm, PhoneCm
<1>3. States' /\ AnswerCounted'
  BY <1>1, <1>2 DEF Session, States, AnswerCounted, phoneVars, peerVars
<1>. QED
  BY <1>2, <1>3, SilentStep DEF pingVars, phoneVars, peerVars

LEMMA AudioStep ==
  ASSUME Session, ListenerAccepts \/ OboeStarts \/ OboeFails \/ AudioThread \/ ContextChanges
  PROVE  Session'
<1>1. States
  BY DEF Session
<1>2. /\ UNCHANGED <<via, link, inbox, pingVars, request, pending, held, failed, value, requests,
                     question, ui, answered, peerVars, panicked>>
      /\ oboe' \in {oboe, "playing", "failed"} /\ backlog' \in Nat
      /\ info' \in BOOLEAN /\ recording' \in BOOLEAN /\ startLost' \in BOOLEAN
      /\ pulse' \in {"ready", "down", "gone"} /\ waiting' \in Nat
      /\ taskQ' = taskQ \/ taskQ' = Append(taskQ, "SendStartAudioStream")
  <2>1. CASE ListenerAccepts
    BY <1>1, <2>1 DEF ListenerAccepts, States, computerVars, phoneVars
  <2>2. CASE OboeStarts \/ OboeFails
    BY <1>1, <2>2 DEF OboeStarts, OboeFails, States, computerVars, phoneVars
  <2>3. CASE AudioThread
    <3>1. /\ HandleAudioEvent
          /\ UNCHANGED <<via, link, inbox, pingVars, cmVars, phoneVars, peerVars, panicked>>
      BY <2>3 DEF AudioThread
    <3>2. /\ info' \in BOOLEAN /\ recording' \in {recording, TRUE} /\ startLost' \in {startLost, TRUE}
          /\ pulse' \in {pulse, "gone"} /\ waiting' \in {waiting, waiting + 1}
      BY <3>1 DEF HandleAudioEvent
    <3>3. /\ info \in BOOLEAN /\ recording \in BOOLEAN /\ startLost \in BOOLEAN
          /\ pulse \in {"ready", "down", "gone"} /\ waiting \in Nat /\ backlog \in Nat
      BY <1>1 DEF States
    <3>4. /\ recording' \in BOOLEAN /\ startLost' \in BOOLEAN
          /\ pulse' \in {"ready", "down", "gone"} /\ waiting' \in Nat
      <4>1. recording' \in BOOLEAN /\ startLost' \in BOOLEAN
        BY <3>2, <3>3, Zenon
      <4>2. pulse' \in {"ready", "down", "gone"}
        BY <3>2, <3>3, Zenon
      <4>3. waiting' \in Nat
        <5>1. waiting \in Nat /\ (waiting' = waiting \/ waiting' = waiting + 1)
          BY <3>2, <3>3, Zenon
        <5>. QED
          BY <5>1
      <4>. QED
        BY <4>1, <4>2, <4>3
    <3>. QED
      BY <3>1, <3>2, <3>3, <3>4 DEF cmVars, phoneVars
  <2>4. CASE ContextChanges
    BY <1>1, <2>4 DEF ContextChanges, States, cmVars, phoneVars
  <2>. QED
    BY <2>1, <2>2, <2>3, <2>4
<1>3. States'
  BY <1>1, <1>2 DEF States, peerVars
<1>4. AnswerCounted'
  <2>1. /\ taskQ \in Seq(TaskEvents) /\ "SendStartAudioStream" \in TaskEvents
        /\ "SendStartAudioStream" \notin Rates
    BY DEF Session, AnswerCounted, TaskEvents, Rates
  <2>2. taskQ' \in Seq(TaskEvents) /\ NumberOf(taskQ', Rates) = NumberOf(taskQ, Rates)
    <3>1. /\ Append(taskQ, "SendStartAudioStream") \in Seq(TaskEvents)
          /\ NumberOf(Append(taskQ, "SendStartAudioStream"), Rates) = NumberOf(taskQ, Rates)
      BY <2>1, Extended, NumberOfAppend
    <3>. QED
      BY <1>2, <2>1, <3>1
  <2>. QED
    BY <1>2, <2>2 DEF Session, AnswerCounted
<1>. QED
  BY <1>2, <1>3, <1>4, SilentStep DEF pingVars, peerVars

LEMMA LinkBreaksStep == Session /\ LinkBreaks => Session'
<1>. SUFFICES ASSUME Session, LinkBreaks PROVE Session'
  OBVIOUS
<1>. USE DEF Session
<1>1. /\ link' = "broken" /\ inbox' = [side \in Sides |-> <<>>]
      /\ UNCHANGED <<via, pingVars, cmVars, computerVars, phoneVars, peerVars, panicked>>
  BY DEF LinkBreaks
<1>2. inbox'["phone"] = <<>> /\ inbox'["computer"] = <<>>
  BY <1>1 DEF Sides
<1>3. Inboxes'
  <2>1. <<>> \in Seq(Messages) /\ <<>> \in Seq(ToPhone) /\ <<>> \in Seq(ToComputer)
    OBVIOUS
  <2>2. inbox' \in [Sides -> Seq(Messages)]
    BY <1>1, <2>1
  <2>. QED
    BY <1>2, <2>1, <2>2 DEF Inboxes
<1>4. States'
  BY <1>1 DEF States, cmVars, computerVars, phoneVars, peerVars
<1>5. KnowsBeforeTelling'
  BY <1>1, <1>2, FreeSimple DEF KnowsBeforeTelling, phoneVars, peerVars
<1>6. PingsCounted' /\ QuestionCounted'
  BY <1>1 DEF PingsCounted, QuestionCounted, pingVars, phoneVars
<1>7. AnswerCounted' /\ RateKnown'
  BY <1>1, <1>2, NumberOfNone DEF AnswerCounted, RateKnown, phoneVars
<1>. QED
  BY <1>3, <1>4, <1>5, <1>6, <1>7
-----------------------------------------------------------------------------
LEMMA SessionStep == Session /\ [Next]_vars => Session'
<1>. SUFFICES ASSUME Session, [Next]_vars PROVE Session'
  OBVIOUS
<1>1. CASE PhoneTask
  BY <1>1, GetRateStep, PhoneTakesStep, OnlyLoggedStep, HandlePingStep, OtherSide DEF PhoneTask
<1>2. CASE PhoneEvents
  BY <1>2, UiRateStep, SendStartStep DEF PhoneEvents
<1>3. CASE ComputerTask
  BY <1>3, ComputerTakesStep, OnlyLoggedStep, HandlePingStep, OtherSide DEF ComputerTask
<1>4. CASE \E side \in Sides : SendPing(side)
  BY <1>4, SendPingStep
<1>5. CASE UiConnects \/ UiIsAsked \/ UiAnswers \/ UiBreaks
  BY <1>5, UiStep
<1>6. CASE ComputerCm \/ PhoneCm
  BY <1>6, ManagersStep
<1>7. CASE ListenerAccepts \/ OboeStarts \/ OboeFails \/ AudioThread \/ ContextChanges
  BY <1>7, AudioStep
<1>8. CASE LinkBreaks
  BY <1>8, LinkBreaksStep
<1>9. CASE UNCHANGED vars
  <2>1. States' /\ AnswerCounted'
    BY <1>9 DEF Session, States, AnswerCounted, vars, cmVars, computerVars, phoneVars, peerVars
  <2>. QED
    BY <1>9, <2>1, SilentStep DEF vars, pingVars, phoneVars, peerVars
<1>10. CASE \E side \in Sides : \E message \in Strays[side] : PeerSends(side, message)
  BY <1>10, PeerSendsStep
<1>. QED
  BY <1>1, <1>2, <1>3, <1>4, <1>5, <1>6, <1>7, <1>8, <1>9, <1>10 DEF Next

(* The handshake of the two device tasks (device/state.rs) keeps what they *)
(* count on at every step, however many pings each side sends, however     *)
(* often the phone's UI comes and goes, and whatever a peer sends that     *)
(* does not keep to the order of this program: a device task panics only   *)
(* if such a peer told it to play before the rate was known, or if the     *)
(* phone's UI gave a rate the computer does not support; a side that waits *)
(* for the answer to its ping has exactly one ping or answer on the way;   *)
(* and the question about the sample rate is on its way, kept or answered, *)
(* exactly one of these.                                                   *)
THEOREM HandshakeAlwaysInOrder == Spec => []HandshakeInOrder
<1>1. Init => Session
  BY SessionStart
<1>2. Session /\ [Next]_vars => Session'
  BY SessionStep
<1>3. Session => HandshakeInOrder
  BY SessionPromises
<1>. QED
  BY <1>1, <1>2, <1>3, PTL DEF Spec
=============================================================================
