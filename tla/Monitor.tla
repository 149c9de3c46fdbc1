------------------------------ MODULE Monitor ------------------------------
(***************************************************************************)
(* The polling core of the monitoring host, src/Server Demo/final2.0: the  *)
(* timer that polls the three slaves in turn, the conversations the TCP    *)
(* server accepts, the decoding and filtering of a reply, and what the     *)
(* main panel shows of it.  Every callback runs on the one user-interface  *)
(* thread, so a callback is one step, with one exception: the "send        *)
(* failed" MessagePopup of Read_Voltage, Read_Temperature and              *)
(* Read_StatePonding runs a modal event loop in the middle of the timer    *)
(* callback.  TCP events, and further timer ticks, are handled before the  *)
(* popup is dismissed and the callback goes on; the buttons of the main    *)
(* panel are not.                                                          *)
(*                                                                         *)
(* Tables, files and the periodic save are in module Records.              *)
(***************************************************************************)
EXTENDS Integers, Sequences, SequencesExt

CONSTANTS
  MaxConn,        \* bound: conversations accepted in a behaviour
  MaxInFlight,    \* bound: requests and replies queued on one conversation
  MaxPopups,      \* popups whose modal loops may be nested (1: timers do not run in one)
  MaxCount,       \* bound: where a runaway poll counter stops being followed
  Readings,       \* Readings[k]: the data a slave k can measure
  Noise,          \* data found in a reply whose CRC does not match
  LimitSettings   \* LimitSettings[k]: the [min, max] pairs the operator sets for sensor k

NO_ACTION == 0
READ_VOLTAGE == 1
READ_TEMPERATURE == 2
READ_STATE_PONDING == 3

Sensor == READ_VOLTAGE .. READ_STATE_PONDING

Limited == {READ_VOLTAGE, READ_TEMPERATURE}   \* the sensors with a max and a min control

MaxWord == 65535
Word == 0 .. MaxWord        \* two bytes of a reply, high * 256 + low

\* A plausible mistake: the limit in degrees.
MaxTemperatureInDegrees == 100

MaxTemperature == 1000      \* a temperature is in tenths of a degree
JumpLimit == 5

ASSUME MonitorAssumption ==
  /\ MaxConn \in Nat \ {0}
  /\ MaxInFlight \in Nat \ {0}
  /\ MaxPopups \in Nat \ {0}
  /\ MaxCount \in Nat
  /\ MaxCount > 3
  /\ Readings \in [Sensor -> SUBSET Word]
  /\ Noise \subseteq Word
  /\ LimitSettings \in [Limited -> SUBSET [min : Int, max : Int]]

VARIABLES
  start,          \* polling is switched on
  monitorLamp,    \* PANEL_STATE_MONITOR
  count,          \* which slave the next tick polls
  popups,         \* the slaves whose failed poll waits for its popup, innermost last
  inf_index,      \* the last query made, NO_ACTION once it is answered
  hconversation,  \* the conversation queries are written to, 0 before the first
  connectedLamp,  \* PANEL_CONNECTED
  previousData,   \* the last temperature accepted, 0 before the first
  shown,          \* shown[k]: the newest record of sensor k on the panel
  limits,         \* limits[k]: the bounds set for sensor k
  conv,           \* conv[h]: state of conversation h
  toSlave,        \* toSlave[h]: queries on their way
  toServer        \* toServer[h]: replies on their way

panelVars == <<start, monitorLamp>>
pollVars == <<count, popups>>
linkVars == <<conv, hconversation, connectedLamp>>
dataVars == <<previousData, shown>>
wireVars == <<toSlave, toServer>>
vars == <<panelVars, pollVars, inf_index, linkVars, dataVars, limits, wireVars>>

Conversation == 1 .. MaxConn
NoConversation == 0

\* A reply is the address of the slave, its data bytes, and whether the CRC
\* computed over it matches the two bytes that follow it.
Reply == [addr : Sensor, data : Word, crcOk : BOOLEAN]

\* The newest record of a sensor: its data and its warning flag.
Blank == [data |-> -1, alarm |-> FALSE]
Record == [data : Word \cup {-1}, alarm : BOOLEAN]

-----------------------------------------------------------------------------
\* Decoding and display of a reply

\* A plausible mistake: the comparison with the limit is not strict.
CloseOrEqual(data) ==
  \/ data - previousData <= JumpLimit /\ data - previousData >= -JumpLimit
  \/ previousData = 0

\* The jump filter of unPack: a temperature is accepted when it is close to
\* the last one accepted, or when that one is 0.
CloseToPrevious(data) ==
  \/ data - previousData < JumpLimit /\ data - previousData > -JumpLimit
  \/ previousData = 0

\* A plausible mistake: the CRC is not compared.
RefusedWithoutCrc(reply) ==
  /\ reply.addr = READ_TEMPERATURE
  /\ reply.data > MaxTemperature \/ ~CloseToPrevious(reply.data)

\* unPack answers -99 instead of the data.
Refused(reply) ==
  \/ ~reply.crcOk
  \/ /\ reply.addr = READ_TEMPERATURE
     /\ reply.data > MaxTemperature \/ ~CloseToPrevious(reply.data)

\* Temperature limits are in degrees, its data in tenths.
Scale(k) == IF k = READ_TEMPERATURE THEN 10 ELSE 1

OutOfLimits(k, data) ==
  data > Scale(k) * limits[k].max \/ data < Scale(k) * limits[k].min

\* The warning flag display_* sets on the lamp and on the new row.
Alarming(k, data) ==
  \/ k \in Limited /\ OutOfLimits(k, data)
  \/ k = READ_STATE_PONDING /\ data # 0

\* A plausible mistake: the reply is taken for the answer to the last query.
DisplayByQuery(reply) ==
  [shown EXCEPT ![inf_index] =
     [data |-> reply.data, alarm |-> Alarming(reply.addr, reply.data)]]

\* A plausible mistake: nothing puts the alarm lamp out again.
DisplayStickyAlarm(reply) ==
  [shown EXCEPT ![reply.addr] =
     [data |-> reply.data,
      alarm |-> @.alarm \/ Alarming(reply.addr, reply.data)]]

\* The record that display_* writes goes to the display of the slave the
\* reply names, whatever query is outstanding.
Display(reply) ==
  [shown EXCEPT ![reply.addr] =
     [data |-> reply.data, alarm |-> Alarming(reply.addr, reply.data)]]

-----------------------------------------------------------------------------
\* The operator

ButtonsLive == popups = <<>>

StartMonitor ==
  /\ ButtonsLive
  /\ start' = TRUE
  /\ monitorLamp' = TRUE
  /\ UNCHANGED <<pollVars, inf_index, linkVars, dataVars, limits, wireVars>>

StopMonitor ==
  /\ ButtonsLive
  /\ start' = FALSE
  /\ monitorLamp' = FALSE
  /\ UNCHANGED <<pollVars, inf_index, linkVars, dataVars, limits, wireVars>>

SetLimits(k, pair) ==
  /\ ButtonsLive
  /\ limits' = [limits EXCEPT ![k] = pair]
  /\ UNCHANGED <<panelVars, pollVars, inf_index, linkVars, dataVars, wireVars>>

-----------------------------------------------------------------------------
\* Polling

\* Plausible mistakes: nothing clears the counter; it is cleared one case early.
CountNeverCleared(k) == count + 1

CountClearedEarly(k) == IF k = READ_TEMPERATURE THEN 1 ELSE count + 1

\* The poll counter after the tick that polled slave k: the ponding poll
\* clears it, and every tick adds one.
CountAfter(k) == IF k = READ_STATE_PONDING THEN 1 ELSE count + 1

\* The conversation queries are written to is in the given state.
InUse(state) == hconversation # NoConversation /\ conv[hconversation] = state

\* A write can succeed on a conversation whose end has not been noticed yet:
\* the query is then lost.
Writable == InUse("open") \/ InUse("closing")

HasRoom ==
  Len(toSlave[hconversation]) + Len(toServer[hconversation]) < MaxInFlight

Transmit(k) ==
  /\ Writable
  /\ IF conv[hconversation] = "open"
     THEN /\ HasRoom
          /\ toSlave' = [toSlave EXCEPT ![hconversation] = Append(@, k)]
     ELSE UNCHANGED toSlave
  /\ UNCHANGED toServer

\* ServerTCPWrite succeeds: Read_Voltage, Read_Temperature or
\* Read_StatePonding runs to its end inside the tick.
PollSent(k) ==
  /\ Transmit(k)
  /\ inf_index' = k
  /\ count' = CountAfter(k)
  /\ UNCHANGED popups

\* A plausible mistake: the result of ServerTCPWrite is not looked at.
FailureIgnored(k) ==
  /\ inf_index' = k
  /\ count' = CountAfter(k)
  /\ UNCHANGED <<popups, wireVars>>

\* ServerTCPWrite fails: the callback stops inside its MessagePopup.
PollFails(k) ==
  /\ popups' = Append(popups, k)
  /\ UNCHANGED <<count, inf_index, wireVars>>

\* count is outside 1 .. 3: the tick polls nothing.
PollNothing ==
  /\ count \notin Sensor
  /\ count < MaxCount
  /\ count' = count + 1
  /\ UNCHANGED <<popups, inf_index, wireVars>>

TimerTransmit ==
  /\ start
  /\ Len(popups) < MaxPopups
  /\ \/ count \in Sensor /\ (PollSent(count) \/ PollFails(count))
     \/ PollNothing
  /\ UNCHANGED <<panelVars, linkVars, dataVars, limits>>

\* The operator dismisses the innermost popup and the callback it belongs to
\* runs to its end.
DismissPopup ==
  /\ popups # <<>>
  /\ LET k == Last(popups) IN
       /\ inf_index' = k
       /\ count' = CountAfter(k)
  /\ popups' = Front(popups)
  /\ start' = FALSE
  /\ monitorLamp' = FALSE
  /\ UNCHANGED <<linkVars, dataVars, limits, wireVars>>

-----------------------------------------------------------------------------
\* The TCP callback

\* A new client replaces the conversation in use, open or not.
TcpConnect(h) ==
  /\ conv[h] = "none"
  /\ \A g \in Conversation : g < h => conv[g] # "none"
  /\ conv' = [conv EXCEPT ![h] = "open"]
  /\ hconversation' = h
  /\ connectedLamp' = TRUE
  /\ UNCHANGED <<panelVars, pollVars, inf_index, dataVars, limits, wireVars>>

\* A plausible mistake: no early return when unPack answers -99.
DataReadyWithoutReturn(h) ==
  /\ conv[h] \in {"open", "closing"}
  /\ toServer[h] # <<>>
  /\ toServer' = [toServer EXCEPT ![h] = Tail(@)]
  /\ LET reply == Head(toServer[h]) IN
       /\ shown' = IF Refused(reply)
                   THEN [shown EXCEPT ![reply.addr].data = -99]
                   ELSE Display(reply)
       /\ previousData' = IF reply.addr = READ_TEMPERATURE /\ ~Refused(reply)
                          THEN reply.data ELSE previousData
       /\ inf_index' = NO_ACTION
  /\ UNCHANGED <<panelVars, pollVars, linkVars, limits, toSlave>>

TcpDataReady(h) ==
  /\ conv[h] \in {"open", "closing"}
  /\ toServer[h] # <<>>
  /\ toServer' = [toServer EXCEPT ![h] = Tail(@)]
  /\ LET reply == Head(toServer[h]) IN
       \/ /\ Refused(reply)
          /\ UNCHANGED <<inf_index, dataVars>>
       \/ /\ ~Refused(reply)
          /\ previousData' = IF reply.addr = READ_TEMPERATURE
                             THEN reply.data ELSE previousData
          /\ shown' = Display(reply)
          /\ inf_index' = NO_ACTION
  /\ UNCHANGED <<panelVars, pollVars, linkVars, limits, toSlave>>

\* A plausible mistake: a disconnection leaves the lamp alone.
DisconnectUnnoticed(h) ==
  /\ conv[h] = "closing"
  /\ conv' = [conv EXCEPT ![h] = "gone"]
  /\ toServer' = [toServer EXCEPT ![h] = <<>>]
  /\ UNCHANGED <<panelVars, pollVars, inf_index, hconversation, connectedLamp,
                 dataVars, limits, toSlave>>

\* The event of conversation h clears the lamp, whichever conversation is in
\* use; hconversation keeps its value and polling stays on.
TcpDisconnect(h) ==
  /\ conv[h] = "closing"
  /\ conv' = [conv EXCEPT ![h] = "gone"]
  /\ toServer' = [toServer EXCEPT ![h] = <<>>]
  /\ connectedLamp' = FALSE
  /\ UNCHANGED <<panelVars, pollVars, inf_index, hconversation, dataVars, limits, toSlave>>

-----------------------------------------------------------------------------
\* The slaves and the link (external)

\* Slave k answers the oldest query, which reached it.
SlaveReplies(h, k) ==
  /\ conv[h] = "open"
  /\ toSlave[h] # <<>>
  /\ Head(toSlave[h]) = k
  /\ \E data \in Readings[k] :
       toServer' = [toServer EXCEPT ![h] =
                      Append(@, [addr |-> k, data |-> data, crcOk |-> TRUE])]
  /\ toSlave' = [toSlave EXCEPT ![h] = Tail(@)]
  /\ UNCHANGED <<panelVars, pollVars, inf_index, linkVars, dataVars, limits>>

\* The reply arrives damaged, or in pieces that are read as damaged replies.
ReplyGarbled(h) ==
  /\ conv[h] = "open"
  /\ toSlave[h] # <<>>
  /\ \E data \in Noise :
       toServer' = [toServer EXCEPT ![h] =
                      Append(@, [addr |-> Head(toSlave[h]), data |-> data, crcOk |-> FALSE])]
  /\ toSlave' = [toSlave EXCEPT ![h] = Tail(@)]
  /\ UNCHANGED <<panelVars, pollVars, inf_index, linkVars, dataVars, limits>>

\* The query does not reach the slave, or the slave does not answer.
QueryLost(h) ==
  /\ conv[h] = "open"
  /\ toSlave[h] # <<>>
  /\ toSlave' = [toSlave EXCEPT ![h] = Tail(@)]
  /\ UNCHANGED <<panelVars, pollVars, inf_index, linkVars, dataVars, limits, toServer>>

\* The other end closes or breaks; replies already received may be lost.
PeerCloses(h) ==
  /\ conv[h] = "open"
  /\ conv' = [conv EXCEPT ![h] = "closing"]
  /\ toSlave' = [toSlave EXCEPT ![h] = <<>>]
  /\ toServer' \in {toServer, [toServer EXCEPT ![h] = <<>>]}
  /\ UNCHANGED <<panelVars, pollVars, inf_index, hconversation, connectedLamp,
                 dataVars, limits>>

-----------------------------------------------------------------------------
Init ==
  /\ start = FALSE
  /\ monitorLamp = FALSE
  /\ count = 0
  /\ popups = <<>>
  /\ inf_index = NO_ACTION
  /\ hconversation = NoConversation
  /\ connectedLamp = FALSE
  /\ previousData = 0
  /\ shown = [k \in Sensor |-> Blank]
  /\ limits \in {f \in [Limited -> UNION {LimitSettings[k] : k \in Limited}] :
                  \A k \in Limited : f[k] \in LimitSettings[k]}
  /\ conv = [h \in Conversation |-> "none"]
  /\ toSlave = [h \in Conversation |-> <<>>]
  /\ toServer = [h \in Conversation |-> <<>>]

OperatorNext ==
  \/ StartMonitor
  \/ StopMonitor
  \/ \E k \in Limited : \E pair \in LimitSettings[k] : SetLimits(k, pair)
  \/ DismissPopup

CallbackNext ==
  \/ TimerTransmit
  \/ \E h \in Conversation : TcpConnect(h) \/ TcpDataReady(h) \/ TcpDisconnect(h)

EnvironmentNext ==
  \E h \in Conversation :
    \/ \E k \in Sensor : SlaveReplies(h, k)
    \/ ReplyGarbled(h)
    \/ QueryLost(h)
    \/ PeerCloses(h)

Next == OperatorNext \/ CallbackNext \/ EnvironmentNext

Spec == Init /\ [][Next]_vars

\* The timer and the TCP events are dispatched by the event loop for as long
\* as the program runs.  A slave that is asked again and again answers again
\* and again: the link loses queries, but not all of them.  Nothing obliges
\* the operator, a client or the link to do anything.
Fairness ==
  /\ WF_vars(TimerTransmit)
  /\ \A h \in Conversation :
       /\ WF_vars(TcpDataReady(h))
       /\ WF_vars(TcpDisconnect(h))
       /\ \A k \in Sensor : SF_vars(SlaveReplies(h, k))

FairSpec == Spec /\ Fairness
-----------------------------------------------------------------------------
\* Properties

TypeOK ==
  /\ start \in BOOLEAN
  /\ monitorLamp \in BOOLEAN
  /\ count \in Nat
  /\ popups \in Seq(Sensor)
  /\ inf_index \in Sensor \cup {NO_ACTION}
  /\ hconversation \in Conversation \cup {NoConversation}
  /\ connectedLamp \in BOOLEAN
  /\ previousData \in Word
  /\ shown \in [Sensor -> Record]
  /\ limits \in [Limited -> [min : Int, max : Int]]
  /\ conv \in [Conversation -> {"none", "open", "closing", "gone"}]
  /\ toSlave \in [Conversation -> Seq(Sensor)]
  /\ toServer \in [Conversation -> Seq(Reply)]

\* What stands on the panel for a sensor was measured by that sensor: a late
\* reply is never filed under the query that happens to be outstanding, and a
\* damaged one never gets past the CRC (ServerTCP, unPack).
Authentic ==
  \A k \in Sensor : shown[k] # Blank => shown[k].data \in Readings[k]

\* From one temperature shown to the next the jump is below the filter's
\* limit, across rejected, late and lost replies and a change of conversation,
\* unless the earlier one is 0 (unPack and its previousData).
TemperatureStepOK ==
  LET old == shown[READ_TEMPERATURE]
      new == shown'[READ_TEMPERATURE]
  IN  \/ new.data = old.data
      \/ old = Blank
      \/ old.data = 0
      \/ new.data - old.data \in (1 - JumpLimit) .. (JumpLimit - 1)

JumpFiltered == [][TemperatureStepOK]_vars

\* The poll counter never leaves 0 .. 3: beyond it TimerTransmit polls nothing
\* and nothing brings it back, so monitoring is over until the program is
\* restarted.  The counter is shared by the failed polls whose popups are open.
PollerAlive == count <= READ_STATE_PONDING

\* When the connected lamp is lit, the disconnection of the conversation the
\* queries are written to has not been reported (ServerTCP).
LampNeverOverclaims ==
  connectedLamp => InUse("open") \/ InUse("closing")

\* Monitoring goes on for good, with no poll failing.
Steady == start /\ popups = <<>>

\* While monitoring goes on every sensor is read: the round of polls skips
\* none, whatever was lost, refused or interrupted before (TimerTransmit).
EverySensorShown ==
  <>[]Steady => \A k \in Sensor : <>(shown[k] # Blank)

\* While monitoring goes on and the limits are left alone, the voltage alarm
\* ends up agreeing with the limits that are set (display_voltage reads them
\* only when a reading arrives).
AlarmFollowsLimits ==
  <>[]Steady /\ <>[][UNCHANGED limits]_limits =>
    <>[]( /\ shown[READ_VOLTAGE] # Blank
          /\ shown[READ_VOLTAGE].alarm =
               (shown[READ_VOLTAGE].data \notin
                  limits[READ_VOLTAGE].min .. limits[READ_VOLTAGE].max) )

\* A conversation that is gone does not stay unnoticed while monitoring: a
\* poll fails and its popup shows, or the operator stops, or a client
\* connects (TCP_DISCONNECT itself leaves start and hconversation alone).
DeadLinkNoticed ==
  (start /\ InUse("gone")) ~> (~start \/ popups # <<>> \/ InUse("open"))

\* The user guide: after the connection is made, monitoring can be started.
\* Monitoring that goes on for good keeps polling every slave, however many
\* popups of failed polls came before (TimerTransmit).
PollsEverySensor ==
  <>[]Steady => \A k \in Sensor : []<>(inf_index = k)
=============================================================================
