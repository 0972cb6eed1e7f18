CONSTANTS
  s1 = s1
  s2 = s2
  Bash = Bash
  quiet = quiet
  busy = busy
  Sids <- MCSids
  NoSid = NoSid
  EmptySid = EmptySid
  OtherTools <- MCTools
  Requests = {}
  NoRequest = NoRequest
  Events <- MCEvents
  Activities <- MCActivities
  NoActivity = quiet
  Primary = s1
  Baselines <- MCBaselines
  MaxArrivals = 2
  Modes <- MCModes
  Sizes <- MCSizes
  Wraps <- MCWraps
  MaxResizes = 1
SPECIFICATION Spec
INVARIANTS
  ScreenExact
  PanesShowLatest
  SpinnerBlocks
  TerminalRestored
  FinalShown
PROPERTIES
  WatchReturns
CHECK_DEADLOCK FALSE
