------------------------------ MODULE Settings ------------------------------
(***************************************************************************)
(* The address and the port the host program listens at: the settings      *)
(* panel, the "save settings" button, the "register" button and the panel  *)
(* that asks to wait for a client, in src/Server Demo/final2.0.  Earlier   *)
(* releases register one address when they start.                          *)
(*                                                                         *)
(* SaveSetting saves the period and the format of the periodic save too:   *)
(* that part is in module Records.                                         *)
(***************************************************************************)
EXTENDS Integers, FiniteSets

CONSTANTS
  IPs,        \* texts that can be typed as an address, octets joined by dots
  RefusedIPs, \* those with an octet outside 0 .. 255
  LocalIPs,   \* those that are an address of this machine
  Ports,      \* port numbers
  MaxServers  \* bound: servers registered in a behaviour

ASSUME SettingsAssumption ==
  /\ RefusedIPs \subseteq IPs
  /\ LocalIPs \subseteq IPs \ RefusedIPs
  /\ LocalIPs # {}
  /\ Ports \subseteq Nat
  /\ Ports # {}
  /\ MaxServers \in Nat

VARIABLES
  server_ip,  \* the address Register uses
  port_num,   \* the port Register uses
  shownIP,    \* the address on the main panel
  shownPort,  \* the port on the main panel
  infoPanel,  \* the panel that asks to wait for a client is shown
  servers     \* the servers registered so far, for the TCP library

address == <<server_ip, port_num, shownIP, shownPort>>
settingsVars == <<address, infoPanel, servers>>

\* main reads the settings panel as SaveSetting does, and shows what it read
\* without a look at the verdict on the address.
InitSettings ==
  /\ server_ip \in IPs
  /\ port_num \in Ports
  /\ shownIP = server_ip
  /\ shownPort = port_num
  /\ infoPanel = FALSE
  /\ servers = {}

\* readServerIP puts the text together before it checks the octets.
readServerIP(ip) == server_ip' = ip

\* A plausible mistake: the new port is not shown.
SavedPortUnshown(ip, port) ==
  IF ip \in RefusedIPs THEN UNCHANGED <<port_num, shownIP, shownPort>>
  ELSE /\ shownIP' = ip
       /\ port_num' = port
       /\ UNCHANGED shownPort

\* An address that is refused ends SaveSetting.
Saved(ip, port) ==
  IF ip \in RefusedIPs THEN UNCHANGED <<port_num, shownIP, shownPort>>
  ELSE /\ shownIP' = ip
       /\ port_num' = port
       /\ shownPort' = port

SaveSetting(ip, port) ==
  /\ readServerIP(ip)
  /\ Saved(ip, port)
  /\ UNCHANGED <<infoPanel, servers>>

\* RegisterTCPServerEx refuses what is no address of this machine, and a server
\* that exists; the popups change nothing.
Registers(server) ==
  /\ server[1] \in LocalIPs
  /\ server \notin servers
  /\ Cardinality(servers) < MaxServers
  /\ servers' = servers \cup {server}

Register ==
  /\ Registers(<<server_ip, port_num>>)
  /\ infoPanel' = TRUE
  /\ UNCHANGED address

\* What TCP_CONNECT does to the panel; the library has a client for a server only.
ClientFound ==
  /\ servers # {}
  /\ infoPanel' = FALSE
  /\ UNCHANGED <<address, servers>>

NextSettings ==
  \/ \E ip \in IPs, port \in Ports : SaveSetting(ip, port)
  \/ Register

SettingsTypeOK ==
  /\ {server_ip, shownIP} \subseteq IPs
  /\ {port_num, shownPort} \subseteq Ports
  /\ infoPanel \in BOOLEAN
  /\ servers \subseteq IPs \X Ports

=============================================================================
