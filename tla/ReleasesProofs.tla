-------------------------- MODULE ReleasesProofs ---------------------------
(***************************************************************************)
(* Proofs about Releases, for any of the releases, any addresses and ports *)
(* that can be typed in, any number of servers and any bound on the        *)
(* network.                                                                *)
(***************************************************************************)
EXTENDS Releases, SequenceTheorems, TLAPS

-----------------------------------------------------------------------------
\* The facts of the releases

\* The releases of the model (QueriesAssumption), by name.
Known12 == {"2_", "3_", "1.0", "1.1", "1.2", "2.0", "2.1", "2.2", "2.2.1", "2.3", "final",
            "final2.0"}

\* The addresses that answer are three addresses of sensors (Client Demo, the site).
LEMMA SlavesFacts ==
  /\ Slaves \in [Sensor -> 1 .. 5]
  /\ \A k, k2 \in Sensor : Slaves[k] = Slaves[k2] => k = k2
  /\ release = "3_" => Slaves[VOLTAGE] = 1
  BY SMTT(60) DEF Slaves, Client_1, Client_2, Client_1_0, Site, Site_final2_0, By, Sensor,
    VOLTAGE, TEMPERATURE, PONDING

\* Where a release files replies by address, an address of enum InfIndex that
\* answers at all is that of the same sensor: the voltage of 1.1 to 2.1 is asked at
\* an address that no constant names, but no constant names another sensor's.
LEMMA FilesAtHome ==
  ASSUME release \in Known12, Answers.files = "address"
  PROVE  \A k, k2 \in Sensor : InfIndex[k] = Slaves[k2] => k = k2
  BY SMTT(60) DEF Known12, InfIndex, InfIndex_simple, InfIndex_1, InfIndex_2_2, InfIndex_final2_0,
    Slaves, Client_1, Client_2, Client_1_0, Site, Site_final2_0, By, Sensor,
    VOLTAGE, TEMPERATURE, PONDING, Answers, Answers_2, Answers_3, Answers_1_0, Answers_1_1, Answers_1_2,
    Answers_2_0, Answers_2_1, Answers_2_2, Answers_2_2_1, Answers_2_3, Answers_final, Answers_final2_0

\* The releases that file a reply under the query made last (ServerTCP).
LEMMA FilesByQuery ==
  ASSUME release \in Known12
  PROVE  Answers.files = "address" \/ release \in {"2_", "3_", "1.0"}
  BY SMTT(60) DEF Known12, Answers, Answers_2, Answers_3, Answers_1_0, Answers_1_1, Answers_1_2,
    Answers_2_0, Answers_2_1, Answers_2_2, Answers_2_2_1, Answers_2_3, Answers_final, Answers_final2_0

\* The releases that show damaged replies, or decode a reply by its address and file
\* it by something else (unPack).
LEMMA UnpacksFacts ==
  ASSUME release \in Known12
  PROVE  /\ unPack.checks \/ release \in {"2_", "2.1"}
         /\ unPack.by = "length" \/ release \notin {"2_", "3_"}
<1>1. \/ release = "2_" /\ unPack = [checks |-> FALSE, by |-> "length"]
      \/ release = "3_" /\ unPack = [checks |-> TRUE, by |-> "length"]
      \/ release = "2.1"
      \/ release \notin {"2_", "3_"} /\ unPack = [checks |-> TRUE, by |-> "address"]
  BY DEF Known12, unPack, Unpacks_2, Unpacks_3, Unpacks_1_0, Unpacks_1_1, Unpacks_1_2,
    Unpacks_2_0, Unpacks_2_2, Unpacks_2_2_1, Unpacks_2_3, Unpacks_final, Unpacks_final2_0
<1>. QED
  BY <1>1

\* The queries of the buttons, and those that Timer repeats, are for the known
\* addresses or nobody.
LEMMA ButtonsFacts ==
  /\ DOMAIN Buttons \subseteq Sensor
  /\ DOMAIN Retries \subseteq Sensor
  BY SMTT(60) DEF Buttons, Retries, Buttons_2, Buttons_3, Buttons_1_0, Buttons_1_1, Buttons_1_2, Timer_3, Timer_1_0,
    By, None

\* TimerTransmit polls one sensor at a turn, or two, in three turns at most.
LEMMA PollsFacts ==
  ASSUME release \in Known12
  PROVE  /\ Polls \in Seq(Seq(Sensor))
         /\ Len(Polls) \in 0 .. 3
         /\ \A t \in DOMAIN Polls : Polls[t] # <<>>
<1>1. Polls \in {<<>>, Polls_1_1, Polls_1_2, Polls_2_0}
  BY DEF Known12, Polls, Polls_2_0, Polls_2_1, Polls_2_2, Polls_2_2_1, Polls_2_3, Polls_final,
    Polls_final2_0
<1>2. CASE Polls = <<>>
  BY <1>2
<1>3. CASE Polls = Polls_1_1
  BY <1>3 DEF Polls_1_1, Sensor
<1>4. CASE Polls = Polls_1_2
  BY <1>4 DEF Polls_1_2, Sensor
<1>5. CASE Polls = Polls_2_0
  <2>1. \A k \in Sensor : <<k>> \in Seq(Sensor) /\ <<k>> # <<>>
    OBVIOUS
  <2>2. Len(Polls) = 3 /\ DOMAIN Polls = 1 .. 3
    BY <1>5 DEF Polls_2_0
  <2>3. \A t \in 1 .. 3 : \E k \in Sensor : Polls[t] = <<k>>
    BY <1>5 DEF Polls_2_0, Sensor
  <2>4. Polls \in Seq(Seq(Sensor))
    <3>. DEFINE S == Seq(Sensor)
    <3>1. \A k \in Sensor : <<k>> \in S
      BY <2>1
    <3>2. VOLTAGE \in Sensor /\ TEMPERATURE \in Sensor /\ PONDING \in Sensor
      BY DEF Sensor
    <3>. HIDE DEF S
    <3>3. Polls \in Seq(S)
      BY <1>5, <3>1, <3>2 DEF Polls_2_0
    <3>. QED
      BY <3>3 DEF S
  <2>. QED
    BY <2>1, <2>2, <2>3, <2>4
<1>. QED
  BY <1>1, <1>2, <1>3, <1>4, <1>5

\* A query that cannot be written switches monitoring off or leaves it on (Read_*).
LEMMA ReadFacts ==
  ASSUME release \in Known12, Polls # <<>>
  PROVE  Read.goesOn \in BOOLEAN
<1>1. \E asks : Read = [asks |-> asks, goesOn |-> TRUE] \/ Read = [asks |-> asks, goesOn |-> FALSE]
  BY Zenon DEF Known12, Polls, Read, Read_1_1, Read_1_2, Read_2_0, Read_2_1, Read_2_2, Read_2_2_1,
    Read_2_3, Read_final, Read_final2_0
<1>2. \A asks : /\ [asks |-> asks, goesOn |-> TRUE].goesOn = TRUE
                 /\ [asks |-> asks, goesOn |-> FALSE].goesOn = FALSE
  OBVIOUS
<1>. QED
  BY <1>1, <1>2, Zenon

-----------------------------------------------------------------------------
\* Queries and replies

\* The addresses that answer, and the replies that can be on the network: a reply
\* that arrives as it was sent comes from one of them.
Answering == {Slaves[k] : k \in Sensor}
Sent == {reply \in Reply : reply.sound => reply.from \in Answering}

\* The inductive invariant: types, whose turn it is among the polls of the
\* release, who can have sent what is on the network, and MeasuredThere.
QueriesInv ==
  /\ release \in Releases
  /\ start \in BOOLEAN
  /\ connected \in BOOLEAN
  /\ count \in 0 .. Len(Polls)
  /\ manual_operate \in Sensor \cup {NO_ACTION}
  /\ inf_index \in Sensor \cup {NO_ACTION}
  /\ toSlave \in Seq(Answering)
  /\ toServer \in Seq(Sent)
  /\ Len(toSlave) + Len(toServer) <= MaxFlight
  /\ shown \in [Sensor -> Origin]
  /\ MeasuredThere

\* What a release is made of stays as it is.
LEMMA SameRelease ==
  ASSUME UNCHANGED release
  PROVE  UNCHANGED <<Slaves, Answering, Sent, Polls>>
<1>1. UNCHANGED Slaves
  BY DEF Slaves
<1>2. UNCHANGED Polls
  BY DEF Polls
<1>3. UNCHANGED Answering
  BY <1>1 DEF Answering
<1>. QED
  BY <1>1, <1>2, <1>3 DEF Sent

LEMMA KnownRelease ==
  QueriesInv => release \in Known12
  BY QueriesAssumption DEF QueriesInv, Known12

\* A step that leaves the network and the panel alone.
LEMMA PanelUnchanged ==
  ASSUME QueriesInv, UNCHANGED <<release, network, shown>>,
         start' \in BOOLEAN, connected' \in BOOLEAN, count' \in 0 .. Len(Polls),
         manual_operate' \in Sensor \cup {NO_ACTION}, inf_index' \in Sensor \cup {NO_ACTION}
  PROVE  QueriesInv'
  BY SameRelease DEF QueriesInv, network, MeasuredThere

\* A step that asks, and leaves the replies and the panel alone.
LEMMA AskStep ==
  ASSUME QueriesInv, NEW S, NEW addresses \in Seq(S), Ask(addresses), UNCHANGED <<release, shown>>,
         start' \in BOOLEAN, connected' \in BOOLEAN, count' \in 0 .. Len(Polls),
         manual_operate' \in Sensor \cup {NO_ACTION}, inf_index' \in Sensor \cup {NO_ACTION}
  PROVE  QueriesInv'
<1>1. Heard(addresses) \in Seq(Answering)
  <2>1. CASE \A i \in DOMAIN addresses : \E k \in Sensor : Slaves[k] = addresses[i]
    <3>1. \A i \in 1 .. Len(addresses) : addresses[i] \in Answering
      BY <2>1 DEF Answering
    <3>2. addresses \in Seq(Answering)
      BY <3>1, ElementOfSeq, SeqDef
    <3>. QED
      BY <2>1, <3>2 DEF Heard
  <2>. QED
    BY <2>1 DEF Heard
<1>2. Len(Heard(addresses)) <= Len(addresses)
  BY DEF Heard
<1>3. toSlave \in Seq(Answering) /\ toServer \in Seq(Sent)
  BY DEF QueriesInv
<1>4. /\ toSlave' \in Seq(Answering)
      /\ Len(toSlave') = Len(toSlave) + Len(Heard(addresses))
  <2>1. toSlave' = toSlave \o Heard(addresses)
    BY DEF Ask
  <2>. QED
    BY <1>1, <1>3, <2>1, ConcatProperties
<1>5. Len(toSlave') + Len(toServer') <= MaxFlight
  <2>1. Len(toSlave) + Len(toServer) + Len(addresses) <= MaxFlight /\ toServer' = toServer
    BY DEF Ask
  <2>2. /\ Len(toSlave) \in Nat /\ Len(toServer) \in Nat /\ Len(addresses) \in Nat
        /\ Len(Heard(addresses)) \in Nat
    BY <1>1, <1>3, LenProperties
  <2>. QED
    BY <1>2, <1>4, <2>1, <2>2, QueriesAssumption
<1>. QED
  BY <1>3, <1>4, <1>5, SameRelease DEF QueriesInv, MeasuredThere, Ask

\* What a release that files replies by address shows at k is a reading of k, or a
\* damaged one where these are not refused (ServerTCP, unPack).
LEMMA ValueFacts ==
  ASSUME QueriesInv, NEW reply \in Sent, Accepted(reply), NEW k \in Filed(reply)
  PROVE  /\ Value(reply) \in Origin
         /\ Value(reply) \in Sensor \ {k} => release \in {"2_", "3_", "1.0"}
         /\ Value(reply) = Garbage => release \in {"2_", "1.0", "2.1"}
<1>. DEFINE v == CHOOSE k2 \in Sensor : Slaves[k2] = reply.from
<1>1. release \in Known12
  BY KnownRelease
<1>2. Garbage \notin Sensor
  BY DEF Garbage, Sensor, VOLTAGE, TEMPERATURE, PONDING
<1>3. CASE reply.sound /\ ~(unPack.by = "address" /\ Known(reply.from) = {})
  <2>1. PICK k2 \in Sensor : Slaves[k2] = reply.from
    BY <1>3 DEF Sent, Answering
  <2>2. v \in Sensor /\ Slaves[v] = reply.from
    BY <2>1
  <2>3. Value(reply) = v
    BY <1>3 DEF Value
  <2>4. ASSUME Answers.files = "address"
        PROVE  v = k
    <3>1. k \in Sensor /\ InfIndex[k] = reply.from
      BY <2>4 DEF Filed, Known
    <3>2. InfIndex[k] = Slaves[v]
      BY <2>2, <3>1
    <3>. HIDE DEF v
    <3>. QED
      BY <1>1, <2>2, <2>4, <3>1, <3>2, FilesAtHome
  <2>. HIDE DEF v
  <2>. QED
    BY <1>1, <1>2, <2>2, <2>3, <2>4, FilesByQuery DEF Origin
<1>4. CASE ~reply.sound
  <2>1. Value(reply) = Garbage /\ ~unPack.checks
    BY <1>4 DEF Value, Accepted
  <2>. QED
    BY <1>1, <1>2, <2>1, UnpacksFacts DEF Origin
<1>5. CASE unPack.by = "address" /\ Known(reply.from) = {}
  <2>1. Value(reply) = Garbage
    BY <1>5 DEF Value
  <2>2. Answers.files # "address"
    BY <1>5 DEF Filed
  <2>3. release \in {"2_", "3_", "1.0"}
    BY <1>1, <2>2, FilesByQuery
  <2>4. release = "1.0"
    BY <1>1, <1>5, <2>3, UnpacksFacts
  <2>. QED
    BY <1>2, <2>1, <2>4 DEF Origin
<1>. QED
  BY <1>3, <1>4, <1>5

\* The head of the replies is taken off the network and shown, blanked or dropped.
LEMMA TcpDataReadyStep ==
  QueriesInv /\ TcpDataReady => QueriesInv'
<1>. SUFFICES ASSUME QueriesInv, TcpDataReady
              PROVE  QueriesInv'
  OBVIOUS
<1>. DEFINE reply == Head(toServer)
<1>1. reply \in Sent /\ Tail(toServer) \in Seq(Sent) /\ Len(Tail(toServer)) = Len(toServer) - 1
  BY HeadTailProperties DEF QueriesInv, TcpDataReady
<1>2. toSlave' \in Seq(Answering) /\ toServer' \in Seq(Sent)
  BY <1>1 DEF QueriesInv, TcpDataReady
<1>3. Len(toSlave') + Len(toServer') <= MaxFlight
  <2>1. Len(toSlave) \in Nat /\ Len(toServer) \in Nat /\ Len(toSlave) + Len(toServer) <= MaxFlight
    BY LenProperties DEF QueriesInv
  <2>2. Len(toServer') = Len(toServer) - 1 /\ toSlave' = toSlave
    BY <1>1 DEF TcpDataReady
  <2>. QED
    BY <2>1, <2>2, QueriesAssumption
<1>4. ASSUME NEW k \in Sensor
      PROVE  /\ shown'[k] \in Origin
             /\ shown'[k] \in Sensor \ {k} => release \in {"2_", "3_", "1.0"}
             /\ shown'[k] = Garbage => release \in {"2_", "1.0", "2.1"}
  <2>1. shown'[k] = IF Accepted(reply)
                    THEN IF k \in Filed(reply) THEN Value(reply) ELSE shown[k]
                    ELSE IF k \in Blanked(reply) THEN Blank ELSE shown[k]
    BY DEF TcpDataReady
  <2>2. CASE Accepted(reply) /\ k \in Filed(reply)
    BY <1>1, <2>1, <2>2, ValueFacts
  <2>3. CASE shown'[k] = shown[k]
    BY <2>3 DEF QueriesInv, MeasuredThere
  <2>4. CASE shown'[k] = Blank
    BY <2>4 DEF Origin, Blank, Garbage, Sensor, VOLTAGE, TEMPERATURE, PONDING
  <2>. HIDE DEF reply
  <2>. QED
    BY <2>1, <2>2, <2>3, <2>4
<1>5. shown' \in [Sensor -> Origin] /\ MeasuredThere'
  BY <1>4 DEF TcpDataReady, MeasuredThere
<1>6. inf_index' \in Sensor \cup {NO_ACTION} /\ manual_operate' = NO_ACTION
  BY DEF QueriesInv, TcpDataReady
<1>. QED
  BY <1>2, <1>3, <1>5, <1>6, SameRelease DEF QueriesInv, TcpDataReady

\* A slave's message replaces the query it answers, or follows the other replies.
LEMMA ReplyStep ==
  ASSUME QueriesInv, NEW reply \in Sent, toServer' = Append(toServer, reply),
         \/ toSlave # <<>> /\ toSlave' = Tail(toSlave)
         \/ toSlave' = toSlave /\ Len(toSlave) + Len(toServer) < MaxFlight,
         UNCHANGED <<release, start, count, requests, connected, shown>>
  PROVE  QueriesInv'
<1>1. toServer' \in Seq(Sent) /\ Len(toServer') = Len(toServer) + 1
  BY AppendProperties DEF QueriesInv
<1>2. /\ toSlave' \in Seq(Answering)
      /\ Len(toSlave') = Len(toSlave) - 1 \/ Len(toSlave') + Len(toServer) < MaxFlight
  BY HeadTailProperties DEF QueriesInv
<1>3. Len(toSlave') + Len(toServer') <= MaxFlight
  <2>1. /\ Len(toSlave) \in Nat /\ Len(toServer) \in Nat /\ Len(toSlave') \in Nat
        /\ Len(toSlave) + Len(toServer) <= MaxFlight
    BY <1>2, LenProperties DEF QueriesInv
  <2>. QED
    BY <1>1, <1>2, <2>1, QueriesAssumption
<1>. QED
  BY <1>1, <1>2, <1>3, SameRelease DEF QueriesInv, MeasuredThere, requests

\* A query or a reply that is taken off the network and shown nowhere.
LEMMA TakenStep ==
  ASSUME QueriesInv,
         \/ toSlave # <<>> /\ toSlave' = Tail(toSlave) /\ toServer' = toServer
         \/ toServer # <<>> /\ toServer' = Tail(toServer) /\ toSlave' = toSlave,
         UNCHANGED <<release, start, count, requests, connected, shown>>
  PROVE  QueriesInv'
<1>1. /\ Len(toSlave) \in Nat /\ Len(toServer) \in Nat
      /\ Len(toSlave) + Len(toServer) <= MaxFlight
  BY LenProperties DEF QueriesInv
<1>2. /\ toSlave' \in Seq(Answering) /\ toServer' \in Seq(Sent)
      /\ Len(toSlave') <= Len(toSlave) /\ Len(toServer') <= Len(toServer)
  <2>1. \A S : \A s \in Seq(S) : s # <<>> => Tail(s) \in Seq(S) /\ Len(Tail(s)) <= Len(s)
    BY HeadTailProperties, LenProperties
  <2>2. toSlave \in Seq(Answering) /\ toServer \in Seq(Sent)
    BY DEF QueriesInv
  <2>3. CASE toSlave # <<>> /\ toSlave' = Tail(toSlave) /\ toServer' = toServer
    <3>1. toSlave' \in Seq(Answering) /\ Len(toSlave') <= Len(toSlave)
      BY <2>1, <2>2, <2>3
    <3>. QED
      BY <1>1, <2>2, <2>3, <3>1
  <2>4. CASE toServer # <<>> /\ toServer' = Tail(toServer) /\ toSlave' = toSlave
    <3>1. toServer' \in Seq(Sent) /\ Len(toServer') <= Len(toServer)
      BY <2>1, <2>2, <2>4
    <3>. QED
      BY <1>1, <2>2, <2>4, <3>1
  <2>. QED
    BY <2>3, <2>4
<1>3. Len(toSlave') + Len(toServer') <= MaxFlight
  <2>1. Len(toSlave') \in Nat /\ Len(toServer') \in Nat
    BY <1>2, LenProperties
  <2>. QED
    BY <1>1, <1>2, <2>1, QueriesAssumption
<1>. QED
  BY <1>2, <1>3, SameRelease DEF QueriesInv, MeasuredThere, requests

\* The queries of TimerTransmit, turn by turn.
LEMMA TimerTransmitStep ==
  QueriesInv /\ TimerTransmit => QueriesInv'
<1>. SUFFICES ASSUME QueriesInv, TimerTransmit
              PROVE  QueriesInv'
  OBVIOUS
<1>1. release \in Known12
  BY KnownRelease
<1>2. UNCHANGED <<release, manual_operate, connected, shown>>
  BY DEF TimerTransmit
<1>3. Len(Polls) \in Nat \ {0}
  BY <1>1, PollsFacts, EmptySeq DEF TimerTransmit
<1>4. count' \in 0 .. Len(Polls)
  <2>1. count' = CountAfter
    BY DEF TimerTransmit
  <2>. QED
    BY <1>3, <2>1 DEF QueriesInv, CountAfter
<1>5. CASE Turn \notin DOMAIN Polls
  BY <1>2, <1>4, <1>5, PanelUnchanged DEF TimerTransmit, QueriesInv
<1>6. CASE Turn \in DOMAIN Polls
  <2>. DEFINE polled == Polls[Turn]
  <2>1. polled \in Seq(Sensor) /\ polled # <<>>
    BY <1>1, <1>6, PollsFacts, ElementOfSeq
  <2>2. Len(polled) \in 1 .. Len(polled) /\ \A i \in 1 .. Len(polled) : polled[i] \in Sensor
    BY <2>1, ElementOfSeq, LenProperties, EmptySeq
  <2>3. inf_index' \in Sensor \cup {NO_ACTION}
    BY <1>6, <2>2 DEF TimerTransmit, Last
  <2>4. CASE connected
    <3>. DEFINE addresses == [i \in DOMAIN polled |-> Read.asks[polled[i]]]
                S == {Read.asks[k] : k \in Sensor}
    <3>1. addresses \in Seq(S)
      <4>1. DOMAIN polled = 1 .. Len(polled) /\ Len(polled) \in Nat
        BY <2>1, LenProperties
      <4>2. \A i \in 1 .. Len(polled) : Read.asks[polled[i]] \in S
        BY <2>2
      <4>. HIDE DEF S, polled
      <4>. QED
        BY <4>1, <4>2, SeqDef
    <3>2. Ask(addresses) /\ UNCHANGED start
      BY <1>6, <2>4 DEF TimerTransmit
    <3>. HIDE DEF addresses, S
    <3>. QED
      BY <1>2, <1>4, <2>3, <3>1, <3>2, AskStep DEF QueriesInv
  <2>5. CASE ~connected
    <3>1. start' \in BOOLEAN
      <4>1. Read.goesOn \in BOOLEAN
        BY <1>1, ReadFacts DEF TimerTransmit
      <4>. QED
        BY <1>6, <2>5, <4>1 DEF TimerTransmit
    <3>2. UNCHANGED network
      BY <1>6, <2>5 DEF TimerTransmit
    <3>. QED
      BY <1>2, <1>4, <2>3, <3>1, <3>2, PanelUnchanged DEF QueriesInv
  <2>. QED
    BY <2>4, <2>5
<1>. QED
  BY <1>5, <1>6

\* One step of the queries: one case per action.
LEMMA QueriesStep ==
  QueriesInv /\ [NextQueries \/ TcpConnect]_queryVars => QueriesInv'
<1>. SUFFICES ASSUME QueriesInv, [NextQueries \/ TcpConnect]_queryVars
              PROVE  QueriesInv'
  OBVIOUS
<1>. USE DEF network, requests
<1>0. CASE UNCHANGED queryVars
  BY <1>0, PanelUnchanged DEF queryVars, QueriesInv
<1>1. ASSUME NEW k \in Sensor, PressButton(k)
      PROVE  QueriesInv'
  <2>1. UNCHANGED <<release, start, count, connected, shown>>
    BY <1>1 DEF PressButton
  <2>2. manual_operate' \in Sensor \cup {NO_ACTION} /\ inf_index' \in Sensor \cup {NO_ACTION}
    BY <1>1 DEF PressButton, QueriesInv
  <2>3. CASE connected
    <3>1. Ask(<<Buttons[k]>>) /\ <<Buttons[k]>> \in Seq({Buttons[k]})
      BY <1>1, <2>3 DEF PressButton
    <3>. QED
      BY <2>1, <2>2, <3>1, AskStep DEF QueriesInv
  <2>4. CASE ~connected
    BY <1>1, <2>1, <2>2, <2>4, PanelUnchanged DEF PressButton, QueriesInv
  <2>. QED
    BY <2>3, <2>4
<1>2. CASE Timer
  <2>1. UNCHANGED <<release, start, count, manual_operate, connected, shown>>
    BY <1>2 DEF Timer
  <2>2. inf_index' \in Sensor \cup {NO_ACTION}
    BY <1>2 DEF Timer, QueriesInv
  <2>3. CASE connected
    <3>. DEFINE a == Retries[manual_operate]
    <3>1. Ask(<<a>>) /\ <<a>> \in Seq({a})
      BY <1>2, <2>3 DEF Timer
    <3>. QED
      BY <2>1, <2>2, <3>1, AskStep DEF QueriesInv
  <2>4. CASE ~connected
    BY <1>2, <2>1, <2>2, <2>4, PanelUnchanged DEF Timer, QueriesInv
  <2>. QED
    BY <2>3, <2>4
<1>3. CASE TimerTransmit
  BY <1>3, TimerTransmitStep
<1>4. CASE StartMonitor
  BY <1>4, PanelUnchanged DEF StartMonitor, QueriesInv
<1>5. CASE StopMonitor
  BY <1>5, PanelUnchanged DEF StopMonitor, QueriesInv
<1>6. CASE TcpDataReady
  BY <1>6, TcpDataReadyStep
<1>7. CASE TimerAccept
  BY <1>7, TakenStep DEF TimerAccept
<1>8. CASE TcpConnect
  BY <1>8, PanelUnchanged DEF TcpConnect, QueriesInv
<1>9. CASE TcpDisconnect
  <2>1. toSlave' \in Seq(Answering) /\ toServer' \in Seq(Sent) /\ Len(toSlave') + Len(toServer') = 0
    BY <1>9 DEF TcpDisconnect
  <2>2. Len(toSlave') + Len(toServer') <= MaxFlight
    BY <2>1, QueriesAssumption
  <2>3. UNCHANGED <<release, start, count, requests, shown>> /\ connected' = FALSE
    BY <1>9 DEF TcpDisconnect
  <2>. QED
    BY <2>1, <2>2, <2>3, SameRelease DEF QueriesInv, MeasuredThere
<1>10. ASSUME NEW a \in 1 .. 5, SlaveReplies(a)
       PROVE  QueriesInv'
  <2>1. a \in Answering
    BY <1>10, HeadTailProperties DEF SlaveReplies, QueriesInv
  <2>2. [from |-> a, sound |-> TRUE] \in Sent
    BY <2>1 DEF Sent, Reply
  <2>. QED
    BY <1>10, <2>2, ReplyStep DEF SlaveReplies
<1>11. CASE SendTest
  <2>1. 1 \in Answering
    BY <1>11, SlavesFacts DEF SendTest, Answering, Sensor
  <2>2. [from |-> 1, sound |-> TRUE] \in Sent
    BY <2>1 DEF Sent, Reply
  <2>. QED
    BY <1>11, <2>2, ReplyStep DEF SendTest
<1>12. CASE ReplyDamaged
  <2>1. PICK a \in {Head(toSlave), Nobody} : toServer' = Append(toServer, [from |-> a, sound |-> FALSE])
    BY <1>12 DEF ReplyDamaged
  <2>2. Head(toSlave) \in Answering
    BY <1>12, HeadTailProperties DEF ReplyDamaged, QueriesInv
  <2>3. [from |-> a, sound |-> FALSE] \in Sent
    BY <2>2, SlavesFacts DEF Answering, Nobody, Sent, Reply
  <2>. QED
    BY <1>12, <2>1, <2>3, ReplyStep DEF ReplyDamaged
<1>13. CASE QueryLost
  BY <1>13, TakenStep DEF QueryLost
<1>. QED
  BY <1>0, <1>1, <1>2, <1>3, <1>4, <1>5, <1>6, <1>7, <1>8, <1>9, <1>10, <1>11, <1>12, <1>13
    DEF NextQueries

LEMMA QueriesInit ==
  InitQueries => QueriesInv
<1>. SUFFICES ASSUME InitQueries
              PROVE  QueriesInv
  OBVIOUS
<1>1. release \in Known12
  BY QueriesAssumption DEF InitQueries, Known12
<1>2. count \in 0 .. Len(Polls)
  BY <1>1, PollsFacts DEF InitQueries
<1>3. shown \in [Sensor -> Origin] /\ MeasuredThere
  BY DEF InitQueries, Origin, MeasuredThere, Sensor, Blank, Garbage, VOLTAGE, TEMPERATURE, PONDING
<1>4. toSlave \in Seq(Answering) /\ toServer \in Seq(Sent) /\ Len(toSlave) + Len(toServer) = 0
  BY DEF InitQueries
<1>5. Len(toSlave) + Len(toServer) <= MaxFlight
  BY <1>4, QueriesAssumption
<1>6. /\ release \in Releases /\ start = FALSE /\ connected = FALSE
      /\ manual_operate = NO_ACTION /\ inf_index = NO_ACTION
  BY DEF InitQueries
<1>. QED
  BY <1>2, <1>3, <1>4, <1>5, <1>6 DEF QueriesInv

-----------------------------------------------------------------------------
\* Settings

\* The inductive invariant: the port in use is the one shown, and so is the address,
\* except one that was refused and stays in server_ip (readServerIP).
SettingsInv ==
  /\ SettingsTypeOK
  /\ port_num = shownPort
  /\ server_ip = shownIP \/ server_ip \in RefusedIPs

LEMMA SettingsInit ==
  InitSettings \/ RegisteredByMain => SettingsInv
<1>1. InitSettings => SettingsInv
  BY DEF InitSettings, SettingsInv, SettingsTypeOK
<1>2. ASSUME RegisteredByMain
      PROVE  SettingsInv
  <2>1. server_ip \in LocalIPs /\ port_num \in Ports
    BY <1>2, SettingsAssumption DEF RegisteredByMain
  <2>2. server_ip \in IPs
    BY <2>1, SettingsAssumption
  <2>3. infoPanel = FALSE /\ shownIP = server_ip /\ shownPort = port_num
    BY <1>2 DEF RegisteredByMain
  <2>4. servers \subseteq IPs \X Ports
    <3>1. servers = {<<server_ip, port_num>>}
      BY <1>2 DEF RegisteredByMain
    <3>. QED
      BY <2>1, <2>2, <3>1
  <2>. QED
    BY <2>1, <2>2, <2>3, <2>4 DEF SettingsInv, SettingsTypeOK
<1>. QED
  BY <1>1, <1>2

\* SaveSetting writes the address first and the rest only if it is not refused.
LEMMA SettingsStep ==
  SettingsInv /\ [NextSettings \/ ClientFound]_settingsVars => SettingsInv'
<1>. SUFFICES ASSUME SettingsInv, [NextSettings \/ ClientFound]_settingsVars
              PROVE  SettingsInv'
  OBVIOUS
<1>. USE DEF address, settingsVars, SettingsInv, SettingsTypeOK
<1>1. CASE UNCHANGED settingsVars
  BY <1>1
<1>2. ASSUME NEW ip \in IPs, NEW port \in Ports, SaveSetting(ip, port)
      PROVE  SettingsInv'
  <2>1. server_ip' = ip /\ UNCHANGED <<infoPanel, servers>>
    BY <1>2 DEF SaveSetting, readServerIP
  <2>2. CASE ip \in RefusedIPs
    BY <1>2, <2>1, <2>2 DEF SaveSetting, Saved
  <2>3. CASE ip \notin RefusedIPs
    BY <1>2, <2>1, <2>3 DEF SaveSetting, Saved
  <2>. QED
    BY <2>2, <2>3
<1>3. CASE Register
  BY <1>3 DEF Register, Registers
<1>4. CASE ClientFound
  BY <1>4 DEF ClientFound
<1>. QED
  BY <1>1, <1>2, <1>3, <1>4 DEF NextSettings

\* Only Register adds a server, and what it adds is on the panel: an address that
\* was refused is none of this machine.
LEMMA RegisterStep ==
  ASSUME SettingsInv, [NextSettings \/ ClientFound]_settingsVars, servers' # servers
  PROVE  servers' = servers \cup {<<shownIP, shownPort>>}
<1>1. Register
  BY DEF NextSettings, ClientFound, SaveSetting, settingsVars
<1>2. server_ip \in LocalIPs /\ servers' = servers \cup {<<server_ip, port_num>>}
  BY <1>1 DEF Register, Registers
<1>3. server_ip = shownIP /\ port_num = shownPort
  BY <1>2, SettingsAssumption DEF SettingsInv
<1>. QED
  BY <1>2, <1>3

-----------------------------------------------------------------------------
\* The whole program

\* Every step is one of the queries and one of the settings.
LEMMA StepIsBoth ==
  [Next]_vars => /\ [NextQueries \/ TcpConnect]_queryVars
                 /\ [NextSettings \/ ClientFound]_settingsVars
  BY DEF Next, vars

\* Both invariants hold in every state.
LEMMA Invariants ==
  Spec => [](QueriesInv /\ SettingsInv)
<1>1. Init => QueriesInv /\ SettingsInv
  BY QueriesInit, SettingsInit DEF Init
<1>2. QueriesInv /\ SettingsInv /\ [Next]_vars => (QueriesInv /\ SettingsInv)'
  BY StepIsBoth, QueriesStep, SettingsStep
<1>. QED
  BY <1>1, <1>2, PTL DEF Spec

\* In every release the turn of TimerTransmit, the flags and what is on the network
\* and the panel keep their types and bounds, whatever is pressed, saved, lost,
\* damaged and answered late.
THEOREM TypeCorrect ==
  Spec => []TypeOK
<1>1. QueriesInv /\ SettingsInv => TypeOK
  <2>. SUFFICES ASSUME QueriesInv, SettingsInv
                PROVE  TypeOK
    OBVIOUS
  <2>1. count \in 0 .. 3
    <3>. DEFINE n == Len(Polls)
    <3>1. count \in 0 .. n /\ n \in 0 .. 3
      BY KnownRelease, PollsFacts DEF QueriesInv
    <3>. HIDE DEF n
    <3>. QED
      BY <3>1
  <2>2. \A i \in DOMAIN toSlave : toSlave[i] \in 1 .. 5
    <3>1. Answering \subseteq 1 .. 5
      BY SlavesFacts DEF Answering
    <3>2. toSlave \in Seq(Answering) /\ DOMAIN toSlave = 1 .. Len(toSlave)
      BY LenProperties DEF QueriesInv
    <3>3. \A i \in 1 .. Len(toSlave) : toSlave[i] \in Answering
      BY <3>2, ElementOfSeq
    <3>. QED
      BY <3>1, <3>2, <3>3
  <2>3. \A i \in DOMAIN toServer : toServer[i] \in Reply
    BY ElementOfSeq DEF QueriesInv, Sent
  <2>4. QueriesTypeOK
    BY <2>1, <2>2, <2>3 DEF QueriesInv, QueriesTypeOK
  <2>. QED
    BY <2>4 DEF SettingsInv, TypeOK
<1>. QED
  BY <1>1, Invariants, PTL

\* From 1.1 on, what is shown for a sensor was measured by that sensor, and of the
\* releases that check a reply at all only 1.0 shows garbage: for any number of
\* queries and replies on their way (ServerTCP, unPack).
THEOREM MeasuredThereCorrect ==
  Spec => []MeasuredThere
<1>1. QueriesInv /\ SettingsInv => MeasuredThere
  BY DEF QueriesInv
<1>. QED
  BY <1>1, Invariants, PTL

\* A server is registered where the panel says, for any addresses, whichever of
\* them were refused before (SaveSetting, readServerIP, Register).
THEOREM RegisteredAsShownCorrect ==
  Spec => RegisteredAsShown
<1>1. QueriesInv /\ SettingsInv /\ [Next]_vars
        => [servers' # servers => servers' = servers \cup {<<shownIP, shownPort>>}]_vars
  BY StepIsBoth, RegisterStep
<1>. QED
  BY <1>1, Invariants, PTL DEF Spec, RegisteredAsShown

=============================================================================
