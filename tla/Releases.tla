------------------------------ MODULE Releases ------------------------------
(***************************************************************************)
(* Every release of the host program with its settings: a client finds the *)
(* server that main registered, or in final2.0 one the operator registered *)
(* with the settings of module Settings.  Queries and replies are those of *)
(* module Queries.                                                         *)
(***************************************************************************)
EXTENDS Settings, Queries

vars == <<settingsVars, queryVars>>

\* main of the other releases registers one server and shows no address, which
\* here is any of this machine.
RegisteredByMain ==
  /\ server_ip = CHOOSE ip \in LocalIPs : TRUE
  /\ port_num = CHOOSE port \in Ports : TRUE
  /\ shownIP = server_ip
  /\ shownPort = port_num
  /\ infoPanel = FALSE
  /\ servers = {<<server_ip, port_num>>}

Init ==
  /\ InitQueries
  /\ IF release = "final2.0" THEN InitSettings ELSE RegisteredByMain

Next ==
  \/ release = "final2.0" /\ NextSettings /\ UNCHANGED queryVars
  \/ TcpConnect /\ ClientFound
  \/ NextQueries /\ UNCHANGED settingsVars

Spec == Init /\ [][Next]_vars

\* The event loop dispatches timers and TCP events for as long as the program
\* runs; a slave that is asked again and again answers, undamaged, again and again.
\* Only the bound on the network ever keeps a tick of a timer from happening, so
\* that fairness is strong.
Fairness ==
  /\ SF_queryVars(Timer)
  /\ SF_queryVars(TimerTransmit)
  /\ WF_queryVars(TcpDataReady)
  /\ \A a \in 1 .. 5 : SF_queryVars(SlaveReplies(a))

FairSpec == Spec /\ Fairness

-----------------------------------------------------------------------------
\* Properties

TypeOK == SettingsTypeOK /\ QueriesTypeOK

\* What is shown for a sensor was measured by that sensor, whatever was asked,
\* lost, damaged and answered late.  The releases that file a reply under the
\* query made last can show the reading of another sensor, 1.0 decodes what its
\* timer asked for with the rules of other addresses, and 2_ and 2.1 show damaged
\* replies; each was repaired in the release after (ServerTCP, unPack).
MeasuredThere ==
  \A k \in Sensor :
    /\ shown[k] \in Sensor \ {k} => release \in {"2_", "3_", "1.0"}
    /\ shown[k] = Garbage => release \in {"2_", "1.0", "2.1"}

\* A query made by hand and written, with nothing of another sensor on the network and
\* nothing damaged.
AloneWith(k) ==
  /\ release = "3_"
  /\ connected
  /\ manual_operate = k
  /\ inf_index = k
  /\ \A i \in DOMAIN toSlave : toSlave[i] = Slaves[k]
  /\ \A i \in DOMAIN toServer : toServer[i] = [from |-> Slaves[k], sound |-> TRUE]

Disturbed(k) ==
  \/ ~connected
  \/ manual_operate \notin {k, NO_ACTION}
  \/ \E i \in DOMAIN toServer : toServer[i] # [from |-> Slaves[k], sound |-> TRUE]

\* In 3_, a query made by hand is asked again until its answer is shown, however
\* often queries are lost; but a damaged reply, or one of another sensor, takes
\* the place of the answer (ServerTCP clears the flag of Timer before it looks at
\* the reply).  The ponding is never shown there.
QueryAnswered ==
  \A k \in {VOLTAGE, TEMPERATURE} : AloneWith(k) ~> shown[k] = k \/ Disturbed(k)

\* What is asked for by TimerTransmit and has a place on the panel: not the
\* voltage in 2.0 and 2.1, whose constant is not the address they ask, and
\* nothing in 1.2, where TimerAccept may read every reply first.
Watched ==
  IF release \in {"2_", "3_", "1.0", "1.2"} THEN {}
  ELSE IF release \in {"1.1", "2.0", "2.1"} THEN {TEMPERATURE, PONDING}
  ELSE Sensor

ShowsFresh(k) ==
  /\ TcpDataReady
  /\ Head(toServer) = [from |-> Slaves[k], sound |-> TRUE]
  /\ shown'[k] = k

\* As long as monitoring stays on and the client stays, every sensor that is
\* polled is shown anew again and again, however many queries and replies are
\* lost or damaged (TimerTransmit, Read_*, ServerTCP).
PolledIsShown ==
  \A k \in Sensor :
    <>[](start /\ connected /\ k \in Watched) => []<><<ShowsFresh(k)>>_queryVars

\* A server is registered at the address and the port the panel shows, whatever
\* was refused and saved before (SaveSetting, readServerIP, Register).
RegisteredAsShown ==
  [][servers' # servers => servers' = servers \cup {<<shownIP, shownPort>>}]_vars

=============================================================================
