CONSTANTS
  s1 = s1
  s2 = s2
  r1 = r1
  r2 = r2
  r3 = r3
  c1 = c1
  c2 = c2
  Bash = Bash
  Sids <- MCSids
  NoSid = NoSid
  EmptySid = EmptySid
  OtherTools <- MCTools
  Requests <- MCRequests
  NoRequest = NoRequest
  Clients <- MCClients
  Owner <- MCOwner
  ToolOf <- MCToolOf
  Events <- MCEvents
  Pulled = {"process_gone"}
  Serial = FALSE
  MaxEvents = 2
  MaxUnread = 2
SPECIFICATION Spec
INVARIANTS
  TypeOK
  ExpiredHookIsOver
PROPERTIES
  DroppedStaysDropped
  ForeignReleased
CHECK_DEADLOCK FALSE
