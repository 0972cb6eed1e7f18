CONSTANTS
  s1 = s1
  s2 = s2
  Bash = Bash
  r1 = r1
  Sids <- MCSids
  NoSid = NoSid
  EmptySid = EmptySid
  OtherTools <- MCTools
  Requests <- MCRequests
  NoRequest = NoRequest
  Callers = {c1}
  Events <- LifecycleEvents
  MaxEvents = 3
  MaxCalls = 2
  MaxFaults = 1
  Endings = {"pane"}
SPECIFICATION Spec
INVARIANTS
  NoStrandedPrompt
  StatesFollowState
  TypedOnce
PROPERTIES
  PromptsKept
  DeadTransitionEnds
  DeadStays
  RefinesStateMachine
CHECK_DEADLOCK FALSE
