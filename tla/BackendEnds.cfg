CONSTANTS
  s1 = s1
  s2 = s2
  Bash = Bash
  r1 = r1
  Sids <- MCSids
  NoSid = NoSid
  EmptySid = EmptySid
  OtherTools <- MCTools
  Requests <- MCRequests
  NoRequest = NoRequest
  Callers = {c1}
  Events <- EndEvents
  MaxEvents = 2
  MaxCalls = 1
  MaxFaults = 0
  Endings = {"exit", "claude"}
SPECIFICATION FairSpec
INVARIANTS
  TypeOK
  EndsAreExplained
PROPERTIES
  EventuallyLive
  ClaudeGoneEnds
  ExitCompletes
  ExitQuiet
CHECK_DEADLOCK FALSE
