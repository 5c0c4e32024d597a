\* Every kind of damage.
SPECIFICATION Spec
CONSTANTS
  WindowSize = 2
  SeqSpace = 5
  MaxSent = 4
  MaxInFlight = 2
  Damage = {"runt", "truncate", "corrupt", "duplicate", "reorder"}
INVARIANTS TypeOK CountIsLosses WindowIsExact
CHECK_DEADLOCK FALSE
