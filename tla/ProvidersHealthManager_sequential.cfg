\* One goroutine calls Update at a time; Reset may come in between.
CONSTANTS
  up = up
  down = down
  unknown = unknown
  none = none
  Updaters = {u1}
  Statuses <- MCStatuses
  Unknown = unknown
  None = none
  MaxUpdates = 5
  MaxResets = 2
SPECIFICATION Spec
INVARIANT TypeOK
INVARIANT KnownStatusCurrent
\* The Update and Reset bounds run out; the manager then sits idle.
CHECK_DEADLOCK FALSE
