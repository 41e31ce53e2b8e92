CONSTANTS
  NoSni = NoSni
  Client1 = Client1
  Client2 = Client2
  Conns <- MCConns
  Requests <- MCRequests
  Labels <- MCLabels
  Rules <- MCRules
  Addresses <- MCAddresses
  EnforceSni = TRUE
  Limits = {0, 2}
  MaxDenials = 1
SPECIFICATION FairSpec
INVARIANTS SlotsAreHandlers TunnelsAreAllowed DenialsAreExact ToldIsReported
PROPERTIES HandlersLetGo
CHECK_DEADLOCK FALSE
