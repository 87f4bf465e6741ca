\* Signals are published and clients connect while Stop runs.
CONSTANTS
  c1 = c1
  c2 = c2
  c3 = c3
  Conns <- MCConns
  MaxSignals = 2
  ListenFails = FALSE
  WriteFails = TRUE
SPECIFICATION Spec
INVARIANT NoMapRace
\* After Stop returns, or after a failed Listen, the server stays idle.
CHECK_DEADLOCK FALSE
