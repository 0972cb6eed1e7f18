CONSTANTS
  home = home
  other = other
  Values <- MCValues
  Useless <- MCUseless
  Unset = "unset"
  Default = "default"
  Home = home
  Other = other
  Exported <- MCExported
  InCwd <- MCInCwd
  InHome <- MCInHome
  InOther <- MCInOther
  InTap <- MCInTap
SPECIFICATION Spec
INVARIANTS
  Priority
CHECK_DEADLOCK FALSE
