\* CHECK_DEADLOCK FALSE: what the page does is bounded, and then nothing is left to do.
SPECIFICATION JQuerySpec
CONSTANTS
  Requests = {r1, r2}
  Path <- Chain
  Kinds = {"checkbox", "a"}
  MatchedBy <- WhatSelected
  Bindings <- Heard
  MaxBinds = 2
  MaxEvents = 2
  MaxOffs = 1
CHECK_DEADLOCK FALSE
INVARIANTS
  OutcomesFollow
  EffectsServed
  HeardRight
  EndsOnce
  SetIsTold
PROPERTIES
  Final
  TimesOut
