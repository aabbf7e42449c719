\* CHECK_DEADLOCK FALSE: what users do is bounded, and then nothing is left to do.
SPECIFICATION WidgetsSpec
CONSTANTS
  None = None
  Null = Null
  Fade = {TRUE, FALSE}
  Backdrop = {"true", "static", "false"}
  MaxOps = 5
CHECK_DEADLOCK FALSE
INVARIANTS
  GoneClean
  OneOfMany
  FollowsUser
  TableAgrees
  OwnFiles
  FindsMeant
  ElementsKept
