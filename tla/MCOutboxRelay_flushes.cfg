SPECIFICATION FairSpec
CONSTANTS
  e1 = e1
  e2 = e2
  e3 = e3
  i1 = i1
  i2 = i2
  s1 = s1
  s2 = s2
  Events = {e1, e2, e3}
  Instances = {i1, i2}
  Slots = {s1}
  NoEvent = NoEvent
  BatchSize = 2
  MaxExits = 2
INVARIANTS
  MarkedWasPublished
  DuplicateIsExcused
PROPERTIES
  SettledStaysSettled
  EveryEventPublished
CHECK_DEADLOCK FALSE
