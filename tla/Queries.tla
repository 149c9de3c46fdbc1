------------------------------ MODULE Queries ------------------------------
(***************************************************************************)
(* Queries, replies and where a reply is shown, in every release of the    *)
(* host program: "2_" and "3_" are the servers with one button per sensor  *)
(* (2_申请查询, 3_实时查询); from 1.0 on the sensors are queried in the     *)
(* RTU protocol, from 1.1 on by a timer, from 2.0 on without buttons.      *)
(*                                                                         *)
(* As in module Tables, what distinguishes a release is stated in one      *)
(* definition per release and part of the program.  A popup is dismissed   *)
(* before anything else happens, there is one client at a time, and the    *)
(* lamps of the monitor and of the connection follow start and connected;  *)
(* module Monitor has popups that nest, clients that overlap, the lamps    *)
(* and the values, for the last release.                                   *)
(***************************************************************************)
EXTENDS Integers, Sequences, SequencesExt

CONSTANTS
  Releases,  \* the releases followed
  MaxFlight  \* bound: queries and replies on the network

VOLTAGE == "voltage"
TEMPERATURE == "temperature"
PONDING == "ponding"

Sensor == {VOLTAGE, TEMPERATURE, PONDING}

ASSUME QueriesAssumption ==
  /\ Releases \subseteq {"2_", "3_", "1.0", "1.1", "1.2", "2.0", "2.1", "2.2", "2.2.1",
                         "2.3", "final", "final2.0"}
  /\ MaxFlight \in Nat

VARIABLES
  release,        \* the release this behaviour is about
  start,          \* monitoring is switched on
  count,          \* whose turn it is to be polled
  manual_operate, \* the query made with a button and not answered yet
  inf_index,      \* the query made last
  connected,      \* hconversation is the handle of a client that is there
  toSlave,        \* queries on the network: the address each is for
  toServer,       \* replies on the network
  shown           \* shown[k]: where the reading of k on the panel comes from

requests == <<manual_operate, inf_index>>
network == <<toSlave, toServer>>
queryVars == <<release, start, count, requests, connected, network, shown>>

NO_ACTION == "none"

\* An address byte of a damaged reply that is no sensor's; a query that is not
\* sent as a whole frame is for nobody too.
Nobody == 0

\* sound: the reply arrives as it was sent; from 2.2 on, in which unPack refuses
\* a temperature over 100 degrees, also: plausible.
Reply == [from : 0 .. 5, sound : BOOLEAN]

Blank == "blank"
Garbage == "garbage"

Origin == Sensor \cup {Blank, Garbage}

By(voltage, temperature, ponding) ==
  [k \in Sensor |->
    CASE k = VOLTAGE -> voltage [] k = TEMPERATURE -> temperature [] k = PONDING -> ponding]

None == [k \in {} |-> Nobody]

-----------------------------------------------------------------------------
\* The addresses that answer: those of the simulators (Client Demo), one for each
\* of the first protocols; then those of the site; then those of the last release.

Client_1 == By(1, 2, 3)
Client_2 == By(1, 2, 3)
Client_1_0 == By(1, 2, 3)
Site == By(3, 5, 4)
Site_final2_0 == By(1, 2, 3)

Slaves ==
  CASE release = "2_" -> Client_1
    [] release = "3_" -> Client_2
    [] release = "1.0" -> Client_1_0
    [] release = "final2.0" -> Site_final2_0
    [] OTHER -> Site

\* The addresses in enum InfIndex, which unPack and ServerTCP know.
InfIndex_simple == By(1, 2, 3)
InfIndex_1 == By(1, 5, 4)
InfIndex_2_2 == By(3, 5, 4)
InfIndex_final2_0 == By(1, 2, 3)

\* A plausible mistake: 2.2 keeps the constants of 2.1.
InfIndexUnchanged ==
  IF release \in {"2_", "3_"} THEN InfIndex_simple
  ELSE IF release \in {"1.0", "1.1", "1.2", "2.0", "2.1", "2.2"} THEN InfIndex_1
  ELSE IF release = "final2.0" THEN InfIndex_final2_0 ELSE InfIndex_2_2

InfIndex ==
  IF release \in {"2_", "3_"} THEN InfIndex_simple
  ELSE IF release \in {"1.0", "1.1", "1.2", "2.0", "2.1"} THEN InfIndex_1
  ELSE IF release = "final2.0" THEN InfIndex_final2_0 ELSE InfIndex_2_2

\* The sensors whose constant is the address byte a.
Known(a) == {k \in Sensor : InfIndex[k] = a}

-----------------------------------------------------------------------------
\* ReadVoltage, ReadTemperature, ReadStatePonding: the address each button asks.
\* From 1.0 on the query of the voltage lacks its last byte.

Buttons_2 == By(1, 2, 3)
Buttons_3 == By(1, 2, 3)
Buttons_1_0 == By(Nobody, 5, 4)
Buttons_1_1 == By(Nobody, 5, 4)
Buttons_1_2 == By(Nobody, 5, 4)

Buttons ==
  CASE release = "2_" -> Buttons_2
    [] release = "3_" -> Buttons_3
    [] release = "1.0" -> Buttons_1_0
    [] release = "1.1" -> Buttons_1_1
    [] release = "1.2" -> Buttons_1_2
    [] OTHER -> None

\* Timer: the address asked again while manual_operate is set.

Timer_3 == By(1, 2, 3)
Timer_1_0 == By(1, 2, 3)

Retries ==
  IF release = "3_" THEN Timer_3 ELSE IF release = "1.0" THEN Timer_1_0 ELSE None

\* Read_Voltage, Read_Temperature, Read_StatePonding: the address each asks, and
\* whether monitoring goes on when the query cannot be written.

Read_1_1 == [asks |-> By(5, 5, 4), goesOn |-> TRUE]
Read_1_2 == [asks |-> By(5, 5, 4), goesOn |-> TRUE]
Read_2_0 == [asks |-> By(3, 5, 4), goesOn |-> TRUE]
Read_2_1 == [asks |-> By(3, 5, 4), goesOn |-> TRUE]
Read_2_2 == [asks |-> By(3, 5, 4), goesOn |-> FALSE]
Read_2_2_1 == [asks |-> By(3, 5, 4), goesOn |-> FALSE]
Read_2_3 == [asks |-> By(3, 5, 4), goesOn |-> FALSE]
Read_final == [asks |-> By(3, 5, 4), goesOn |-> FALSE]
Read_final2_0 == [asks |-> By(1, 2, 3), goesOn |-> FALSE]

Read ==
  CASE release = "1.1" -> Read_1_1
    [] release = "1.2" -> Read_1_2
    [] release = "2.0" -> Read_2_0
    [] release = "2.1" -> Read_2_1
    [] release = "2.2" -> Read_2_2
    [] release = "2.2.1" -> Read_2_2_1
    [] release = "2.3" -> Read_2_3
    [] release = "final" -> Read_final
    [] release = "final2.0" -> Read_final2_0

\* TimerTransmit: who is polled, turn by turn.  1.2 has no turns.

Polls_1_1 == <<<<TEMPERATURE>>, <<PONDING>>>>
Polls_1_2 == <<<<TEMPERATURE, PONDING>>>>
Polls_2_0 == <<<<VOLTAGE>>, <<TEMPERATURE>>, <<PONDING>>>>
Polls_2_1 == <<<<VOLTAGE>>, <<TEMPERATURE>>, <<PONDING>>>>
Polls_2_2 == <<<<VOLTAGE>>, <<TEMPERATURE>>, <<PONDING>>>>
Polls_2_2_1 == <<<<VOLTAGE>>, <<TEMPERATURE>>, <<PONDING>>>>
Polls_2_3 == <<<<VOLTAGE>>, <<TEMPERATURE>>, <<PONDING>>>>
Polls_final == <<<<VOLTAGE>>, <<TEMPERATURE>>, <<PONDING>>>>
Polls_final2_0 == <<<<VOLTAGE>>, <<TEMPERATURE>>, <<PONDING>>>>

Polls ==
  CASE release = "1.1" -> Polls_1_1
    [] release = "1.2" -> Polls_1_2
    [] release = "2.0" -> Polls_2_0
    [] release = "2.1" -> Polls_2_1
    [] release = "2.2" -> Polls_2_2
    [] release = "2.2.1" -> Polls_2_2_1
    [] release = "2.3" -> Polls_2_3
    [] release = "final" -> Polls_final
    [] release = "final2.0" -> Polls_final2_0
    [] OTHER -> <<>>

\* unPack: whether a reply with a wrong CRC is refused, and what selects the bytes
\* of the value: the length in the reply, or its address.

Unpacks_2 == [checks |-> FALSE, by |-> "length"]
Unpacks_3 == [checks |-> TRUE, by |-> "length"]
Unpacks_1_0 == [checks |-> TRUE, by |-> "address"]
Unpacks_1_1 == [checks |-> TRUE, by |-> "address"]
Unpacks_1_2 == [checks |-> TRUE, by |-> "address"]
Unpacks_2_0 == [checks |-> TRUE, by |-> "address"]
Unpacks_2_1 == [checks |-> FALSE, by |-> "address"]
Unpacks_2_2 == [checks |-> TRUE, by |-> "address"]
Unpacks_2_2_1 == [checks |-> TRUE, by |-> "address"]
Unpacks_2_3 == [checks |-> TRUE, by |-> "address"]
Unpacks_final == [checks |-> TRUE, by |-> "address"]
Unpacks_final2_0 == [checks |-> TRUE, by |-> "address"]

unPack ==
  CASE release = "2_" -> Unpacks_2
    [] release = "3_" -> Unpacks_3
    [] release = "1.0" -> Unpacks_1_0
    [] release = "1.1" -> Unpacks_1_1
    [] release = "1.2" -> Unpacks_1_2
    [] release = "2.0" -> Unpacks_2_0
    [] release = "2.1" -> Unpacks_2_1
    [] release = "2.2" -> Unpacks_2_2
    [] release = "2.2.1" -> Unpacks_2_2_1
    [] release = "2.3" -> Unpacks_2_3
    [] release = "final" -> Unpacks_final
    [] release = "final2.0" -> Unpacks_final2_0

\* ServerTCP: what decides where a value is shown, the query made last or the
\* address in the reply; the sensors it can show (the first servers compare a
\* character with 180 before they light the lamp of the ponding); and what a
\* refused reply does: the text its address stands for is blanked, or nothing.

Answers_2 == [files |-> "query", shows |-> {VOLTAGE, TEMPERATURE}, blanks |-> FALSE]
Answers_3 == [files |-> "query", shows |-> {VOLTAGE, TEMPERATURE}, blanks |-> TRUE]
Answers_1_0 == [files |-> "query", shows |-> Sensor, blanks |-> TRUE]
Answers_1_1 == [files |-> "address", shows |-> Sensor, blanks |-> TRUE]
Answers_1_2 == [files |-> "address", shows |-> Sensor, blanks |-> TRUE]
Answers_2_0 == [files |-> "address", shows |-> Sensor, blanks |-> TRUE]
Answers_2_1 == [files |-> "address", shows |-> Sensor, blanks |-> TRUE]
Answers_2_2 == [files |-> "address", shows |-> Sensor, blanks |-> FALSE]
Answers_2_2_1 == [files |-> "address", shows |-> Sensor, blanks |-> FALSE]
Answers_2_3 == [files |-> "address", shows |-> Sensor, blanks |-> FALSE]
Answers_final == [files |-> "address", shows |-> Sensor, blanks |-> FALSE]
Answers_final2_0 == [files |-> "address", shows |-> Sensor, blanks |-> FALSE]

Answers ==
  CASE release = "2_" -> Answers_2
    [] release = "3_" -> Answers_3
    [] release = "1.0" -> Answers_1_0
    [] release = "1.1" -> Answers_1_1
    [] release = "1.2" -> Answers_1_2
    [] release = "2.0" -> Answers_2_0
    [] release = "2.1" -> Answers_2_1
    [] release = "2.2" -> Answers_2_2
    [] release = "2.2.1" -> Answers_2_2_1
    [] release = "2.3" -> Answers_2_3
    [] release = "final" -> Answers_final
    [] release = "final2.0" -> Answers_final2_0

-----------------------------------------------------------------------------
\* Asking

\* The network after queries to these addresses.  One for no slave goes nowhere;
\* no release sends that one together with another.
Heard(addresses) ==
  IF \A i \in DOMAIN addresses : \E k \in Sensor : Slaves[k] = addresses[i] THEN addresses ELSE <<>>

Ask(addresses) ==
  /\ Len(toSlave) + Len(toServer) + Len(addresses) <= MaxFlight
  /\ toSlave' = toSlave \o Heard(addresses)
  /\ UNCHANGED toServer

\* The flag is set before the query is written, inf_index only after.
PressButton(k) ==
  /\ k \in DOMAIN Buttons
  /\ manual_operate' = IF release = "2_" THEN manual_operate ELSE k
  /\ IF connected THEN Ask(<<Buttons[k]>>) /\ inf_index' = k
     ELSE UNCHANGED <<network, inf_index>>
  /\ UNCHANGED <<release, start, count, connected, shown>>

\* A plausible mistake: the query is asked again once.
TimerOnce ==
  /\ manual_operate \in DOMAIN Retries
  /\ IF connected THEN Ask(<<Retries[manual_operate]>>) ELSE UNCHANGED network
  /\ inf_index' = manual_operate
  /\ manual_operate' = NO_ACTION
  /\ UNCHANGED <<release, start, count, connected, shown>>

\* Whether the query was written is not looked at.
Timer ==
  /\ manual_operate \in DOMAIN Retries
  /\ IF connected THEN Ask(<<Retries[manual_operate]>>) ELSE UNCHANGED network
  /\ inf_index' = manual_operate
  /\ UNCHANGED <<release, start, count, manual_operate, connected, shown>>

Turn == IF release = "1.2" THEN 1 ELSE count

\* A plausible mistake: the turn starts again one tick too late.
CountClearedLate ==
  IF release = "1.2" THEN count
  ELSE IF count > Len(Polls) THEN 1 ELSE count + 1

CountAfter ==
  IF release = "1.2" THEN count
  ELSE IF count = Len(Polls) THEN 1 ELSE count + 1

TimerTransmit ==
  /\ Polls # <<>>
  /\ start
  /\ count' = CountAfter
  /\ IF Turn \notin DOMAIN Polls THEN UNCHANGED <<start, inf_index, network>>
     ELSE LET polled == Polls[Turn] IN
          /\ inf_index' = Last(polled)
          /\ IF connected
             THEN Ask([i \in DOMAIN polled |-> Read.asks[polled[i]]]) /\ UNCHANGED start
             ELSE start' = Read.goesOn /\ UNCHANGED network
  /\ UNCHANGED <<release, manual_operate, connected, shown>>

StartMonitor ==
  /\ Polls # <<>>
  /\ start' = TRUE
  /\ UNCHANGED <<release, count, requests, connected, network, shown>>

StopMonitor ==
  /\ start
  /\ start' = FALSE
  /\ UNCHANGED <<release, count, requests, connected, network, shown>>

-----------------------------------------------------------------------------
\* Answering

\* Where a reply is shown.
Filed(reply) ==
  (IF Answers.files = "query" THEN {inf_index} ELSE Known(reply.from)) \cap Answers.shows

\* What unPack makes of a reply.  An address it does not know leaves the value
\* uninitialized.
Value(reply) ==
  IF ~reply.sound \/ (unPack.by = "address" /\ Known(reply.from) = {}) THEN Garbage
  ELSE CHOOSE k \in Sensor : Slaves[k] = reply.from

Accepted(reply) == reply.sound \/ ~unPack.checks

\* The blanked text of an address; the lamp of the ponding stays as it is.
Blanked(reply) == IF Answers.blanks THEN Known(reply.from) \ {PONDING} ELSE {}

TcpDataReady ==
  /\ connected
  /\ toServer # <<>>
  /\ LET reply == Head(toServer) IN
     /\ shown' = [k \in Sensor |->
          IF Accepted(reply)
          THEN IF k \in Filed(reply) THEN Value(reply) ELSE shown[k]
          ELSE IF k \in Blanked(reply) THEN Blank ELSE shown[k]]
     /\ inf_index' = IF Accepted(reply) \/ Answers.blanks THEN NO_ACTION ELSE inf_index
  /\ manual_operate' = NO_ACTION
  /\ toServer' = Tail(toServer)
  /\ UNCHANGED <<release, start, count, connected, toSlave>>

\* 1.2 has a timer that reads a reply too, and only logs it.
TimerAccept ==
  /\ release = "1.2"
  /\ start
  /\ connected
  /\ toServer # <<>>
  /\ toServer' = Tail(toServer)
  /\ UNCHANGED <<release, start, count, requests, connected, toSlave, shown>>

TcpConnect ==
  /\ ~connected
  /\ connected' = TRUE
  /\ UNCHANGED <<release, start, count, requests, network, shown>>

\* The client goes, and with it what is on the network.
TcpDisconnect ==
  /\ connected
  /\ connected' = FALSE
  /\ toSlave' = <<>>
  /\ toServer' = <<>>
  /\ UNCHANGED <<release, start, count, requests, shown>>

-----------------------------------------------------------------------------
\* The slaves and the network

\* The simulators answer a damaged query too, after a popup.
SlaveReplies(a) ==
  /\ toSlave # <<>>
  /\ Head(toSlave) = a
  /\ toSlave' = Tail(toSlave)
  /\ toServer' = Append(toServer, [from |-> a, sound |-> TRUE])
  /\ UNCHANGED <<release, start, count, requests, connected, shown>>

\* The second simulator has a button that sends a voltage nobody asked for; its
\* own answer to that query is commented out, so there the query is lost.
SendTest ==
  /\ release = "3_"
  /\ connected
  /\ Len(toSlave) + Len(toServer) < MaxFlight
  /\ toServer' = Append(toServer, [from |-> 1, sound |-> TRUE])
  /\ UNCHANGED <<release, start, count, requests, connected, toSlave, shown>>

\* The address byte may be damaged too.
ReplyDamaged ==
  /\ toSlave # <<>>
  /\ toSlave' = Tail(toSlave)
  /\ \E a \in {Head(toSlave), Nobody} :
       toServer' = Append(toServer, [from |-> a, sound |-> FALSE])
  /\ UNCHANGED <<release, start, count, requests, connected, shown>>

QueryLost ==
  /\ toSlave # <<>>
  /\ toSlave' = Tail(toSlave)
  /\ UNCHANGED <<release, start, count, requests, connected, toServer, shown>>

-----------------------------------------------------------------------------
InitQueries ==
  /\ release \in Releases
  /\ start = FALSE
  /\ count = 0
  /\ manual_operate = NO_ACTION
  /\ inf_index = NO_ACTION
  /\ connected = FALSE
  /\ toSlave = <<>>
  /\ toServer = <<>>
  /\ shown = [k \in Sensor |-> Blank]

NextQueries ==
  \/ \E k \in Sensor : PressButton(k)
  \/ Timer
  \/ TimerTransmit
  \/ StartMonitor
  \/ StopMonitor
  \/ TcpDataReady
  \/ TimerAccept
  \/ TcpDisconnect
  \/ \E a \in 1 .. 5 : SlaveReplies(a)
  \/ SendTest
  \/ ReplyDamaged
  \/ QueryLost

QueriesTypeOK ==
  /\ release \in Releases
  /\ {start, connected} \subseteq BOOLEAN
  /\ count \in 0 .. 3
  /\ {manual_operate, inf_index} \subseteq Sensor \cup {NO_ACTION}
  /\ Len(toSlave) + Len(toServer) <= MaxFlight
  /\ \A i \in DOMAIN toSlave : toSlave[i] \in 1 .. 5
  /\ \A i \in DOMAIN toServer : toServer[i] \in Reply
  /\ shown \in [Sensor -> Origin]

=============================================================================
