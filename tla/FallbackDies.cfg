CONSTANTS
  s1 = s1
  s2 = s2
  Bash = Bash
  r1 = r1
  Sids <- MCSids
  NoSid = NoSid
  EmptySid = EmptySid
  OtherTools <- MCTools
  Requests <- MCRequests
  NoRequest = NoRequest
  Callers = {c1}
  Events <- LifecycleEvents
  MaxEvents = 1
  MaxCalls = 1
  MaxFaults = 0
  Endings = {"pane"}
SPECIFICATION FairSpec
PROPERTY EventuallyLive
CHECK_DEADLOCK FALSE
