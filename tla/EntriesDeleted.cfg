CONSTANTS
  s1 = s1
  s2 = s2
  p1 = p1
  p2 = p2
  t1 = t1
  Bash = Bash
  r1 = r1
  Sids <- MCSids
  NoSid = NoSid
  EmptySid = EmptySid
  OtherTools <- MCTools
  Requests <- MCRequests
  NoRequest = NoRequest
  Panes <- MCPanes
  NoPane = NoPane
  Tmuxes <- MCTmuxes
  Events <- MCEvents
  Torn = Torn
  Free = Free
  MaxEvents = 3
  MaxStarts = 2
  MaxSnapshots = 1
SPECIFICATION Spec
PROPERTY EntriesKept
CHECK_DEADLOCK FALSE
