--------------------------- MODULE MonitorProofs ---------------------------
(***************************************************************************)
(* Proofs about Monitor, for every number of conversations, every bound on *)
(* the link, every set of readings and noise, and every pair of limits.    *)
(***************************************************************************)
EXTENDS Monitor, SequenceTheorems, TLAPS

-----------------------------------------------------------------------------
\* Sequences

\* Dropping the last element of a non-empty sequence leaves a shorter sequence
\* over the same set (Front, used by DismissPopup).
LEMMA FrontType ==
  ASSUME NEW S, NEW s \in Seq(S), s # <<>>
  PROVE  Front(s) \in Seq(S) /\ Len(Front(s)) = Len(s) - 1
<1>. DEFINE n == Len(s)
            u == Front(s)
<1>1. n \in Nat \ {0}
  OBVIOUS
<1>2. \A i \in 1 .. n - 1 : s[i] \in S
  BY <1>1, ElementOfSeq
<1>3. n - 1 \in Int /\ 1 \in Int
  BY <1>1
<1>4. u \in Seq(S)
  BY <1>2, <1>3, SubSeqProperties, Zenon DEF Front
<1>5. Len(u) = IF 1 <= n - 1 THEN n - 1 - 1 + 1 ELSE 0
  BY <1>2, <1>3, SubSeqProperties DEF Front
<1>6. Len(u) = n - 1
  <2>. HIDE DEF n, u
  <2>. QED
    BY <1>1, <1>5
<1>. QED
  BY <1>4, <1>6

\* The last element of a non-empty sequence is one of the set (Last, used by
\* DismissPopup).
LEMMA LastType ==
  ASSUME NEW S, NEW s \in Seq(S), s # <<>>
  PROVE  Last(s) \in S
<1>1. Len(s) \in 1 .. Len(s)
  BY EmptySeq
<1>. QED
  BY <1>1, ElementOfSeq DEF Last

\* What follows the head of a sequence stood one place further back (Tail, used
\* by TcpDataReady).
LEMMA TailElement ==
  ASSUME NEW S, NEW s \in Seq(S), s # <<>>, NEW i \in 1 .. Len(Tail(s))
  PROVE  Tail(s)[i] = s[i + 1] /\ i + 1 \in 1 .. Len(s)
<1>1. Len(Tail(s)) = Len(s) - 1 /\ Tail(s)[i] = s[i + 1]
  BY HeadTailProperties
<1>2. Len(s) \in Nat
  BY LenProperties
<1>. QED
  BY <1>1, <1>2

-----------------------------------------------------------------------------
\* Type correctness

\* The data of a reply are natural numbers, 0 among them (MaxWord is not
\* expanded where an interval up to it would be).
LEMMA WordType ==
  Word \subseteq Nat /\ 0 \in Word
<1>1. MaxWord \in Nat
  BY DEF MaxWord
<1>. QED
  BY <1>1 DEF Word

\* One step of any actor keeps every variable in its type.
LEMMA TypeStep ==
  TypeOK /\ [Next]_vars => TypeOK'
<1>. SUFFICES ASSUME TypeOK, [Next]_vars PROVE TypeOK'
  OBVIOUS
<1>1. CASE StartMonitor \/ StopMonitor
  BY <1>1 DEF TypeOK, StartMonitor, StopMonitor, pollVars, linkVars, dataVars, wireVars
<1>2. ASSUME NEW k \in Limited, NEW pair \in LimitSettings[k], SetLimits(k, pair)
      PROVE  TypeOK'
  <2>1. pair \in [min : Int, max : Int]
    BY MonitorAssumption
  <2>2. limits' \in [Limited -> [min : Int, max : Int]]
    BY <1>2, <2>1 DEF TypeOK, SetLimits
  <2>. QED
    BY <1>2, <2>2 DEF TypeOK, SetLimits, panelVars, pollVars, linkVars, dataVars, wireVars
<1>3. CASE DismissPopup
  <2>1. Last(popups) \in Sensor /\ Front(popups) \in Seq(Sensor)
    BY <1>3, FrontType, LastType DEF TypeOK, DismissPopup
  <2>2. /\ popups' \in Seq(Sensor)
        /\ inf_index' \in Sensor \cup {NO_ACTION}
    BY <1>3, <2>1 DEF DismissPopup
  <2>3. \A k \in Sensor : CountAfter(k) \in Nat
    BY DEF TypeOK, CountAfter
  <2>4. count' \in Nat
    BY <1>3, <2>1, <2>3 DEF DismissPopup
  <2>5. /\ start' = FALSE
        /\ monitorLamp' = FALSE
        /\ UNCHANGED <<linkVars, dataVars, limits, wireVars>>
    BY <1>3 DEF DismissPopup
  <2>. QED
    BY <2>2, <2>4, <2>5 DEF TypeOK, linkVars, dataVars, wireVars
<1>4. CASE TimerTransmit
  <2>1. ASSUME count \in Sensor, PollSent(count)
        PROVE  TypeOK'
    <3>1. toSlave' \in [Conversation -> Seq(Sensor)]
      <4>1. hconversation \in Conversation
        BY <2>1 DEF TypeOK, PollSent, Transmit, Writable, InUse
      <4>2. Append(toSlave[hconversation], count) \in Seq(Sensor)
        BY <2>1, <4>1, AppendProperties DEF TypeOK
      <4>. QED
        BY <2>1, <4>1, <4>2 DEF TypeOK, PollSent, Transmit
    <3>. QED
      BY <1>4, <2>1, <3>1
      DEF TypeOK, TimerTransmit, PollSent, Transmit, CountAfter,
          panelVars, linkVars, dataVars
  <2>2. ASSUME count \in Sensor, PollFails(count)
        PROVE  TypeOK'
    <3>1. popups' \in Seq(Sensor)
      BY <2>2, AppendProperties DEF TypeOK, PollFails
    <3>. QED
      BY <1>4, <2>2, <3>1
      DEF TypeOK, TimerTransmit, PollFails, panelVars, linkVars, dataVars, wireVars
  <2>3. CASE PollNothing
    BY <1>4, <2>3
    DEF TypeOK, TimerTransmit, PollNothing, panelVars, linkVars, dataVars, wireVars
  <2>. QED
    BY <1>4, <2>1, <2>2, <2>3 DEF TimerTransmit
<1>5. ASSUME NEW h \in Conversation, TcpConnect(h)
      PROVE  TypeOK'
  BY <1>5 DEF TypeOK, TcpConnect, panelVars, pollVars, dataVars, wireVars
<1>6. ASSUME NEW h \in Conversation, TcpDataReady(h)
      PROVE  TypeOK'
  <2>1. Head(toServer[h]) \in Reply /\ Tail(toServer[h]) \in Seq(Reply)
    BY <1>6, HeadTailProperties DEF TypeOK, TcpDataReady
  <2>2. toServer' \in [Conversation -> Seq(Reply)]
    BY <1>6, <2>1 DEF TypeOK, TcpDataReady
  <2>3. \A r \in Reply : Display(r) \in [Sensor -> Record]
    <3>1. \A r \in Reply : Alarming(r.addr, r.data) \in BOOLEAN
      BY DEF Alarming, OutOfLimits
    <3>. QED
      BY <3>1 DEF TypeOK, Display, Reply, Record
  <2>4. previousData' \in Word
    BY <1>6, <2>1 DEF TypeOK, TcpDataReady, dataVars, Reply
  <2>5. shown' \in [Sensor -> Record]
    BY <1>6, <2>1, <2>3 DEF TypeOK, TcpDataReady, dataVars
  <2>. QED
    BY <1>6, <2>2, <2>4, <2>5
    DEF TypeOK, TcpDataReady, panelVars, pollVars, linkVars, dataVars
<1>7. ASSUME NEW h \in Conversation, TcpDisconnect(h)
      PROVE  TypeOK'
  BY <1>7, EmptySeq DEF TypeOK, TcpDisconnect, panelVars, pollVars, dataVars
<1>8. ASSUME NEW h \in Conversation, NEW k \in Sensor, SlaveReplies(h, k)
      PROVE  TypeOK'
  <2>1. PICK data \in Readings[k] :
          toServer' = [toServer EXCEPT ![h] =
                         Append(@, [addr |-> k, data |-> data, crcOk |-> TRUE])]
    BY <1>8 DEF SlaveReplies
  <2>2. [addr |-> k, data |-> data, crcOk |-> TRUE] \in Reply
    BY MonitorAssumption DEF Reply
  <2>3. toServer' \in [Conversation -> Seq(Reply)]
    BY <2>1, <2>2, AppendProperties DEF TypeOK
  <2>4. toSlave' \in [Conversation -> Seq(Sensor)]
    BY <1>8, HeadTailProperties DEF TypeOK, SlaveReplies
  <2>. QED
    BY <1>8, <2>3, <2>4
    DEF TypeOK, SlaveReplies, panelVars, pollVars, linkVars, dataVars
<1>9. ASSUME NEW h \in Conversation, ReplyGarbled(h)
      PROVE  TypeOK'
  <2>1. PICK data \in Noise :
          toServer' = [toServer EXCEPT ![h] =
                         Append(@, [addr |-> Head(toSlave[h]), data |-> data,
                                    crcOk |-> FALSE])]
    BY <1>9 DEF ReplyGarbled
  <2>2. Head(toSlave[h]) \in Sensor /\ Tail(toSlave[h]) \in Seq(Sensor)
    BY <1>9, HeadTailProperties DEF TypeOK, ReplyGarbled
  <2>3. [addr |-> Head(toSlave[h]), data |-> data, crcOk |-> FALSE] \in Reply
    BY <2>2, MonitorAssumption DEF Reply
  <2>4. toServer' \in [Conversation -> Seq(Reply)]
    BY <2>1, <2>3, AppendProperties DEF TypeOK
  <2>. QED
    BY <1>9, <2>2, <2>4
    DEF TypeOK, ReplyGarbled, panelVars, pollVars, linkVars, dataVars
<1>10. ASSUME NEW h \in Conversation, QueryLost(h)
       PROVE  TypeOK'
  <2>1. toSlave' \in [Conversation -> Seq(Sensor)]
    BY <1>10, HeadTailProperties DEF TypeOK, QueryLost
  <2>. QED
    BY <1>10, <2>1 DEF TypeOK, QueryLost, panelVars, pollVars, linkVars, dataVars
<1>11. ASSUME NEW h \in Conversation, PeerCloses(h)
       PROVE  TypeOK'
  <2>1. toServer' \in [Conversation -> Seq(Reply)]
    BY <1>11, EmptySeq DEF TypeOK, PeerCloses
  <2>2. toSlave' \in [Conversation -> Seq(Sensor)]
    BY <1>11, EmptySeq DEF TypeOK, PeerCloses
  <2>. QED
    BY <1>11, <2>1, <2>2 DEF TypeOK, PeerCloses, panelVars, pollVars, dataVars
<1>12. CASE UNCHANGED vars
  BY <1>12 DEF TypeOK, vars, panelVars, pollVars, linkVars, dataVars, wireVars
<1>. QED
  BY <1>1, <1>2, <1>3, <1>4, <1>5, <1>6, <1>7, <1>8, <1>9, <1>10, <1>11, <1>12
  DEF Next, OperatorNext, CallbackNext, EnvironmentNext

\* Every variable keeps its type, whatever the conversations, the link and the
\* operator do.
THEOREM TypeCorrect == Spec => []TypeOK
<1>1. Init => TypeOK
  <2>. SUFFICES ASSUME Init PROVE TypeOK
    OBVIOUS
  <2>1. limits \in [Limited -> [min : Int, max : Int]]
    BY MonitorAssumption DEF Init
  <2>2. shown \in [Sensor -> Record]
    BY DEF Init, Blank, Record
  <2>3. /\ toSlave \in [Conversation -> Seq(Sensor)]
        /\ toServer \in [Conversation -> Seq(Reply)]
        /\ popups \in Seq(Sensor)
    BY EmptySeq DEF Init
  <2>. QED
    BY <2>1, <2>2, <2>3, WordType DEF Init, TypeOK
<1>. QED
  BY <1>1, TypeStep, PTL DEF Spec

-----------------------------------------------------------------------------
\* The connected lamp

\* The lamp only claims what has not been taken back: a step that changes the
\* conversation in use lights the lamp for an open one, a step that ends it
\* puts the lamp out, whichever conversation ends.
LEMMA LampStep ==
  TypeOK /\ LampNeverOverclaims /\ [Next]_vars => LampNeverOverclaims'
<1>. SUFFICES ASSUME TypeOK, LampNeverOverclaims, [Next]_vars
              PROVE  LampNeverOverclaims'
  OBVIOUS
<1>1. ASSUME UNCHANGED linkVars
      PROVE  LampNeverOverclaims'
  BY <1>1 DEF LampNeverOverclaims, InUse, linkVars
<1>2. ASSUME NEW h \in Conversation, TcpConnect(h)
      PROVE  LampNeverOverclaims'
  <2>1. conv'[h] = "open" /\ hconversation' = h
    BY <1>2 DEF TcpConnect, TypeOK
  <2>2. h # NoConversation
    BY MonitorAssumption DEF Conversation, NoConversation
  <2>. QED
    BY <2>1, <2>2 DEF LampNeverOverclaims, InUse
<1>3. ASSUME NEW h \in Conversation, TcpDisconnect(h)
      PROVE  LampNeverOverclaims'
  BY <1>3 DEF TcpDisconnect, LampNeverOverclaims
<1>4. ASSUME NEW h \in Conversation, PeerCloses(h)
      PROVE  LampNeverOverclaims'
  <2>1. CASE hconversation = h
    BY <1>4, <2>1 DEF PeerCloses, LampNeverOverclaims, InUse, TypeOK
  <2>2. CASE hconversation # h
    BY <1>4, <2>2 DEF PeerCloses, LampNeverOverclaims, InUse, TypeOK
  <2>. QED
    BY <2>1, <2>2
<1>5. CASE TimerTransmit
  BY <1>1, <1>5 DEF TimerTransmit
<1>6. CASE OperatorNext
  BY <1>1, <1>6 DEF OperatorNext, StartMonitor, StopMonitor, SetLimits, DismissPopup
<1>7. ASSUME NEW h \in Conversation,
             \/ TcpDataReady(h) \/ ReplyGarbled(h) \/ QueryLost(h)
             \/ \E k \in Sensor : SlaveReplies(h, k)
      PROVE  LampNeverOverclaims'
  BY <1>1, <1>7 DEF TcpDataReady, ReplyGarbled, QueryLost, SlaveReplies
<1>8. CASE UNCHANGED vars
  BY <1>1, <1>8 DEF vars
<1>. QED
  BY <1>2, <1>3, <1>4, <1>5, <1>6, <1>7, <1>8 DEF Next, CallbackNext, EnvironmentNext

\* A lit lamp is never about a conversation whose end has been reported, for
\* any number of clients that connect, overlap and leave.
THEOREM LampCorrect == Spec => []LampNeverOverclaims
<1>1. Init => LampNeverOverclaims
  BY DEF Init, LampNeverOverclaims
<1>. QED
  BY <1>1, LampStep, TypeCorrect, PTL DEF Spec

-----------------------------------------------------------------------------
\* Authenticity of what is shown

\* A reply whose CRC matches carries what the slave it names measured.
Genuine(reply) == reply.crcOk => reply.data \in Readings[reply.addr]

\* Every reply on its way is damaged or genuine.
WireGenuine ==
  \A h \in Conversation : \A i \in 1 .. Len(toServer[h]) : Genuine(toServer[h][i])

\* What the panel shows stays authentic and what is on its way stays genuine:
\* the slaves put genuine replies in, the link damaged ones, and the TCP
\* callback refuses the damaged ones and files the others by address.
LEMMA AuthenticStep ==
  TypeOK /\ WireGenuine /\ Authentic /\ [Next]_vars => WireGenuine' /\ Authentic'
<1>. SUFFICES ASSUME TypeOK, WireGenuine, Authentic, [Next]_vars
              PROVE  WireGenuine' /\ Authentic'
  OBVIOUS
<1>1. ASSUME UNCHANGED shown
      PROVE  Authentic'
  BY <1>1 DEF Authentic
<1>2. ASSUME UNCHANGED toServer
      PROVE  WireGenuine'
  BY <1>2 DEF WireGenuine, Genuine
<1>3. ASSUME NEW h \in Conversation, NEW reply \in Reply, Genuine(reply),
             toServer' = [toServer EXCEPT ![h] = Append(@, reply)]
      PROVE  WireGenuine'
  <2>. SUFFICES ASSUME NEW g \in Conversation, NEW i \in 1 .. Len(toServer'[g])
                PROVE  Genuine(toServer'[g][i])
    BY DEF WireGenuine, Genuine
  <2>1. CASE g # h
    BY <1>3, <2>1 DEF WireGenuine, TypeOK
  <2>2. CASE g = h
    <3>1. toServer'[g] = Append(toServer[g], reply) /\ toServer[g] \in Seq(Reply)
      BY <1>3, <2>2 DEF TypeOK
    <3>2. CASE i = Len(toServer[g]) + 1
      BY <1>3, <3>1, <3>2, AppendProperties
    <3>3. CASE i \in 1 .. Len(toServer[g])
      BY <3>1, <3>3, AppendProperties DEF WireGenuine
    <3>. QED
      BY <3>1, <3>2, <3>3, AppendProperties
  <2>. QED
    BY <2>1, <2>2
<1>4. ASSUME NEW h \in Conversation, NEW k \in Sensor, SlaveReplies(h, k)
      PROVE  WireGenuine' /\ Authentic'
  <2>1. PICK data \in Readings[k] :
          toServer' = [toServer EXCEPT ![h] =
                         Append(@, [addr |-> k, data |-> data, crcOk |-> TRUE])]
    BY <1>4 DEF SlaveReplies
  <2>2. [addr |-> k, data |-> data, crcOk |-> TRUE] \in Reply
    BY MonitorAssumption DEF Reply
  <2>3. Genuine([addr |-> k, data |-> data, crcOk |-> TRUE])
    BY DEF Genuine
  <2>. QED
    BY <1>1, <1>3, <1>4, <2>1, <2>2, <2>3 DEF SlaveReplies, dataVars
<1>5. ASSUME NEW h \in Conversation, ReplyGarbled(h)
      PROVE  WireGenuine' /\ Authentic'
  <2>1. PICK data \in Noise :
          toServer' = [toServer EXCEPT ![h] =
                         Append(@, [addr |-> Head(toSlave[h]), data |-> data,
                                    crcOk |-> FALSE])]
    BY <1>5 DEF ReplyGarbled
  <2>2. Head(toSlave[h]) \in Sensor
    BY <1>5, HeadTailProperties DEF TypeOK, ReplyGarbled
  <2>3. [addr |-> Head(toSlave[h]), data |-> data, crcOk |-> FALSE] \in Reply
    BY <2>2, MonitorAssumption DEF Reply
  <2>4. Genuine([addr |-> Head(toSlave[h]), data |-> data, crcOk |-> FALSE])
    BY DEF Genuine
  <2>. QED
    BY <1>1, <1>3, <1>5, <2>1, <2>3, <2>4 DEF ReplyGarbled, dataVars
<1>6. ASSUME NEW h \in Conversation, toServer' = [toServer EXCEPT ![h] = <<>>]
      PROVE  WireGenuine'
  <2>. SUFFICES ASSUME NEW g \in Conversation, NEW i \in 1 .. Len(toServer'[g])
                PROVE  Genuine(toServer'[g][i])
    BY DEF WireGenuine, Genuine
  <2>. QED
    BY <1>6 DEF WireGenuine, TypeOK
<1>7. ASSUME NEW h \in Conversation, TcpDataReady(h)
      PROVE  WireGenuine' /\ Authentic'
  <2>. DEFINE reply == Head(toServer[h])
  <2>1. /\ toServer[h] \in Seq(Reply)
        /\ toServer[h] # <<>>
        /\ toServer' = [toServer EXCEPT ![h] = Tail(@)]
    BY <1>7 DEF TcpDataReady, TypeOK
  <2>2. reply \in Reply /\ Genuine(reply)
    <3>1. reply = toServer[h][1] /\ 1 \in 1 .. Len(toServer[h])
      BY <2>1, EmptySeq
    <3>. QED
      BY <2>1, <3>1, HeadTailProperties DEF WireGenuine
  <2>3. WireGenuine'
    <3>. SUFFICES ASSUME NEW g \in Conversation, NEW i \in 1 .. Len(toServer'[g])
                  PROVE  Genuine(toServer'[g][i])
      BY DEF WireGenuine, Genuine
    <3>1. CASE g # h
      BY <2>1, <3>1 DEF WireGenuine, TypeOK
    <3>2. CASE g = h
      <4>1. toServer'[g] = Tail(toServer[g])
        BY <2>1, <3>2 DEF TypeOK
      <4>2. /\ toServer'[g][i] = toServer[g][i + 1]
            /\ i + 1 \in 1 .. Len(toServer[g])
        BY <2>1, <3>2, <4>1, TailElement
      <4>. QED
        BY <4>2 DEF WireGenuine
    <3>. QED
      BY <3>1, <3>2
  <2>4. CASE Refused(reply)
    BY <1>1, <1>7, <2>3, <2>4 DEF TcpDataReady, dataVars
  <2>5. CASE ~Refused(reply)
    <3>1. reply.crcOk
      BY <2>2, <2>5 DEF Refused, Reply
    <3>2. shown' = Display(reply)
      BY <1>7, <2>5 DEF TcpDataReady
    <3>3. ASSUME NEW k \in Sensor, shown'[k] # Blank
          PROVE  shown'[k].data \in Readings[k]
      <4>1. CASE k = reply.addr
        BY <2>2, <3>1, <3>2, <4>1 DEF Display, Genuine, TypeOK
      <4>2. CASE k # reply.addr
        BY <3>2, <3>3, <4>2 DEF Display, Authentic, TypeOK
      <4>. QED
        BY <4>1, <4>2
    <3>. QED
      BY <2>3, <3>3 DEF Authentic
  <2>. QED
    BY <2>4, <2>5
<1>8. ASSUME NEW h \in Conversation, TcpDisconnect(h) \/ PeerCloses(h)
      PROVE  WireGenuine' /\ Authentic'
  <2>1. UNCHANGED shown
    BY <1>8 DEF TcpDisconnect, PeerCloses, dataVars
  <2>2. toServer' \in {toServer, [toServer EXCEPT ![h] = <<>>]}
    BY <1>8 DEF TcpDisconnect, PeerCloses
  <2>. QED
    BY <1>1, <1>2, <1>6, <2>1, <2>2
<1>9. CASE TimerTransmit
  <2>1. UNCHANGED <<shown, toServer>>
    BY <1>9 DEF TimerTransmit, PollSent, Transmit, PollFails, PollNothing, dataVars, wireVars
  <2>. QED
    BY <1>1, <1>2, <2>1
<1>10. CASE OperatorNext
  <2>1. UNCHANGED <<shown, toServer>>
    BY <1>10 DEF OperatorNext, StartMonitor, StopMonitor, SetLimits, DismissPopup,
                 dataVars, wireVars
  <2>. QED
    BY <1>1, <1>2, <2>1
<1>11. ASSUME NEW h \in Conversation, TcpConnect(h) \/ QueryLost(h)
       PROVE  WireGenuine' /\ Authentic'
  <2>1. UNCHANGED <<shown, toServer>>
    BY <1>11 DEF TcpConnect, QueryLost, dataVars, wireVars
  <2>. QED
    BY <1>1, <1>2, <2>1
<1>12. CASE UNCHANGED vars
  BY <1>1, <1>2, <1>12 DEF vars, dataVars, wireVars
<1>. QED
  BY <1>4, <1>5, <1>7, <1>8, <1>9, <1>10, <1>11, <1>12
  DEF Next, CallbackNext, EnvironmentNext

\* What the panel shows for a sensor was measured by that sensor, whatever is
\* lost, damaged, delayed or answered after another query was made.
THEOREM AuthenticCorrect == Spec => []Authentic
<1>1. Init => WireGenuine /\ Authentic
  <2>. SUFFICES ASSUME Init PROVE WireGenuine /\ Authentic
    OBVIOUS
  <2>1. Authentic
    BY DEF Init, Authentic
  <2>2. \A h \in Conversation : 1 .. Len(toServer[h]) = {}
    BY DEF Init
  <2>. QED
    BY <2>1, <2>2 DEF WireGenuine
<1>. QED
  BY <1>1, AuthenticStep, TypeCorrect, PTL DEF Spec
-----------------------------------------------------------------------------
\* The jump filter

\* What the filter compares with is the temperature on the panel.
FilterFollowsPanel ==
  shown[READ_TEMPERATURE] # Blank => shown[READ_TEMPERATURE].data = previousData

\* Two temperatures shown one after the other do not jump, and the filter goes
\* on comparing with the one on the panel.
LEMMA JumpStep ==
  TypeOK /\ FilterFollowsPanel /\ [Next]_vars =>
    FilterFollowsPanel' /\ [TemperatureStepOK]_vars
<1>. SUFFICES ASSUME TypeOK, FilterFollowsPanel, [Next]_vars
              PROVE  FilterFollowsPanel' /\ TemperatureStepOK
  OBVIOUS
<1>1. ASSUME UNCHANGED dataVars
      PROVE  FilterFollowsPanel' /\ TemperatureStepOK
  BY <1>1 DEF dataVars, FilterFollowsPanel, TemperatureStepOK
<1>2. ASSUME NEW h \in Conversation, TcpDataReady(h)
      PROVE  FilterFollowsPanel' /\ TemperatureStepOK
  <2>. DEFINE reply == Head(toServer[h])
              T == READ_TEMPERATURE
  <2>1. reply \in Reply
    BY <1>2, HeadTailProperties DEF TcpDataReady, TypeOK
  <2>2. CASE Refused(reply)
    BY <1>1, <1>2, <2>2 DEF TcpDataReady
  <2>3. CASE ~Refused(reply) /\ reply.addr # T
    <3>1. shown'[T] = shown[T] /\ previousData' = previousData
      BY <1>2, <2>1, <2>3 DEF TcpDataReady, Display, TypeOK, Sensor, READ_VOLTAGE,
                              READ_TEMPERATURE, READ_STATE_PONDING
    <3>. QED
      BY <3>1 DEF FilterFollowsPanel, TemperatureStepOK
  <2>4. CASE ~Refused(reply) /\ reply.addr = T
    <3>1. shown'[T].data = reply.data /\ previousData' = reply.data
      BY <1>2, <2>1, <2>4 DEF TcpDataReady, Display, TypeOK, Reply
    <3>2. CloseToPrevious(reply.data)
      BY <2>4 DEF Refused
    <3>3. reply.data \in Int /\ previousData \in Int
      <4>1. reply.data \in Word /\ previousData \in Word
        BY <2>1, Zenon DEF TypeOK, Reply
      <4>2. Word \subseteq Int
        BY WordType
      <4>. QED
        BY <4>1, <4>2, Zenon
    <3>. QED
      BY <3>1, <3>2, <3>3
      DEF FilterFollowsPanel, TemperatureStepOK, CloseToPrevious, JumpLimit
  <2>. QED
    BY <2>2, <2>3, <2>4
<1>3. CASE OperatorNext
  BY <1>1, <1>3 DEF OperatorNext, StartMonitor, StopMonitor, SetLimits, DismissPopup
<1>4. CASE TimerTransmit
  BY <1>1, <1>4 DEF TimerTransmit
<1>5. ASSUME NEW h \in Conversation, TcpConnect(h) \/ TcpDisconnect(h)
      PROVE  FilterFollowsPanel' /\ TemperatureStepOK
  BY <1>1, <1>5 DEF TcpConnect, TcpDisconnect
<1>6. CASE EnvironmentNext
  BY <1>1, <1>6 DEF EnvironmentNext, SlaveReplies, ReplyGarbled, QueryLost, PeerCloses
<1>7. CASE UNCHANGED vars
  BY <1>1, <1>7 DEF vars
<1>. QED
  BY <1>2, <1>3, <1>4, <1>5, <1>6, <1>7 DEF Next, CallbackNext

\* From one temperature shown to the next the jump is below the limit of the
\* filter, unless the earlier one is 0, across everything that happens between.
THEOREM JumpCorrect == Spec => JumpFiltered
<1>1. Init => FilterFollowsPanel
  BY DEF Init, FilterFollowsPanel, Sensor, READ_VOLTAGE, READ_TEMPERATURE,
         READ_STATE_PONDING
<1>. QED
  BY <1>1, JumpStep, TypeCorrect, PTL DEF Spec, JumpFiltered

-----------------------------------------------------------------------------
\* The poll counter

\* With timers held back while a popup is open, the popup belongs to the poll
\* the counter stands at.
PopupOfCurrentPoll ==
  /\ count \in 0 .. READ_STATE_PONDING
  /\ popups # <<>> => count = Last(popups) /\ Front(popups) = <<>>

\* The counter is advanced by one callback at a time.
LEMMA PollerStep ==
  ASSUME MaxPopups = 1
  PROVE  TypeOK /\ PopupOfCurrentPoll /\ [Next]_vars => PopupOfCurrentPoll'
<1>. SUFFICES ASSUME TypeOK, PopupOfCurrentPoll, [Next]_vars
              PROVE  PopupOfCurrentPoll'
  OBVIOUS
<1>1. ASSUME UNCHANGED pollVars
      PROVE  PopupOfCurrentPoll'
  BY <1>1 DEF pollVars, PopupOfCurrentPoll
<1>2. CASE DismissPopup
  <2>1. count = Last(popups) /\ popups' = <<>> /\ count' = CountAfter(Last(popups))
    BY <1>2 DEF DismissPopup, PopupOfCurrentPoll
  <2>. DEFINE k == Last(popups)
  <2>2. count = k /\ count' = IF k = READ_STATE_PONDING THEN 1 ELSE count + 1
    BY <2>1 DEF CountAfter
  <2>3. count' \in 0 .. READ_STATE_PONDING
    <3>. HIDE DEF k
    <3>. QED
      BY <2>2 DEF PopupOfCurrentPoll, READ_STATE_PONDING
  <2>. QED
    BY <2>1, <2>3 DEF PopupOfCurrentPoll
<1>3. CASE TimerTransmit
  <2>1. popups = <<>>
    <3>1. Len(popups) = 0
      BY <1>3, LenProperties DEF TimerTransmit, TypeOK
    <3>. QED
      BY <3>1, EmptySeq DEF TypeOK
  <2>2. ASSUME count \in Sensor, PollSent(count)
        PROVE  PopupOfCurrentPoll'
    BY <2>1, <2>2 DEF PollSent, CountAfter, PopupOfCurrentPoll, READ_STATE_PONDING
  <2>3. ASSUME count \in Sensor, PollFails(count)
        PROVE  PopupOfCurrentPoll'
    <3>1. popups' = <<count>> /\ count' = count
      BY <2>1, <2>3 DEF PollFails
    <3>2. Last(<<count>>) = count /\ Front(<<count>>) = <<>>
      BY DEF Last, Front
    <3>. QED
      BY <3>1, <3>2 DEF PopupOfCurrentPoll
  <2>4. CASE PollNothing
    BY <2>1, <2>4 DEF PollNothing, PopupOfCurrentPoll, Sensor, READ_VOLTAGE,
                      READ_STATE_PONDING
  <2>. QED
    BY <1>3, <2>2, <2>3, <2>4 DEF TimerTransmit
<1>4. CASE OperatorNext /\ ~DismissPopup
  BY <1>1, <1>4 DEF OperatorNext, StartMonitor, StopMonitor, SetLimits
<1>5. CASE CallbackNext /\ ~TimerTransmit
  BY <1>1, <1>5 DEF CallbackNext, TcpConnect, TcpDataReady, TcpDisconnect
<1>6. CASE EnvironmentNext
  BY <1>1, <1>6 DEF EnvironmentNext, SlaveReplies, ReplyGarbled, QueryLost, PeerCloses
<1>7. CASE UNCHANGED vars
  BY <1>1, <1>7 DEF vars
<1>. QED
  BY <1>2, <1>3, <1>4, <1>5, <1>6, <1>7 DEF Next

\* As long as no timer runs inside the modal loop of a popup, the counter stays
\* where TimerTransmit polls.
THEOREM PollerCorrect ==
  ASSUME MaxPopups = 1
  PROVE  Spec => []PollerAlive
<1>1. Init => PopupOfCurrentPoll
  BY DEF Init, PopupOfCurrentPoll, READ_STATE_PONDING
<1>2. PopupOfCurrentPoll => PollerAlive
  BY DEF PopupOfCurrentPoll, PollerAlive, READ_STATE_PONDING
<1>. QED
  BY <1>1, <1>2, PollerStep, TypeCorrect, PTL DEF Spec

=============================================================================
