CONSTANTS
  Name = {a, b}
  a = a
  b = b
  NoName = NoName
  Absent = Absent
  Key = {"path", "set", "checkpoint_time"}
  NaN = NaN
  Value <- Values
  Garbage <- Memory
  MaxLines = 4
  MaxRuns = 2
  Configs <- GoodConfigs
  Edited <- GoodConfigs
SPECIFICATION Spec
INVARIANT ReloadAfterEdit
CHECK_DEADLOCK FALSE
