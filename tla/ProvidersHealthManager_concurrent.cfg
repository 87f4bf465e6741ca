\* Two goroutines call Update concurrently; no Reset.
CONSTANTS
  up = up
  down = down
  unknown = unknown
  none = none
  Updaters = {u1, u2}
  Statuses <- MCStatuses
  Unknown = unknown
  None = none
  MaxUpdates = 5
  MaxResets = 0
SPECIFICATION Spec
INVARIANT KnownStatusCurrent
\* The Update bound runs out; the manager then sits idle.
CHECK_DEADLOCK FALSE
