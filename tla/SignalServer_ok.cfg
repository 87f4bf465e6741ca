\* Clients connect and signals are published while Stop runs.
CONSTANTS
  c1 = c1
  c2 = c2
  c3 = c3
  Conns <- MCConns
  MaxSignals = 2
  ListenFails = TRUE
  WriteFails = TRUE
SPECIFICATION FairSpec
PROPERTY StopTerminates
\* After Stop returns, or after a failed Listen, the server stays idle.
CHECK_DEADLOCK FALSE
