CONSTANTS
  s1 = s1
  s2 = s2
  p1 = p1
  p2 = p2
  Bash = Bash
  r1 = r1
  Sids <- MCSids
  NoSid = NoSid
  EmptySid = EmptySid
  OtherTools <- MCTools
  Requests <- MCRequests
  NoRequest = NoRequest
  Panes <- MCPanes
  NoPane = NoPane
  Events <- MCEvents
  MaxEvents = 5
SPECIFICATION DiscoverySpec
INVARIANTS
  MirrorsUntilEnd
  HistoryKnown
  FoundExact
PROPERTIES
  FoundEventually
CHECK_DEADLOCK FALSE
