SPECIFICATION FairSpec
CONSTANTS
  IPs = {"192.168.1.3", "192.168.1.300"}
  RefusedIPs = {"192.168.1.300"}
  LocalIPs = {"192.168.1.3"}
  Ports = {1, 2}
  MaxServers = 1
  Releases <- MCReleases
  MaxFlight = 2
INVARIANTS
  TypeOK
  MeasuredThere
PROPERTIES
  QueryAnswered
  PolledIsShown
  RegisteredAsShown
