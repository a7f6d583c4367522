CONSTANTS
  First = 2
  Cap = 7
  Slow = 2
  checkpoint_time = 3
  MaxSends = 2
  MaxAge = 60
SPECIFICATION Spec
INVARIANTS TypeOK BackWithin BackSoon Fresh
PROPERTY AlarmsApart
