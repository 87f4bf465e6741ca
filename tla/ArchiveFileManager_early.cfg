\* Every failure up to the index rewrite.
CONSTANTS
  Msgs <- MCMsgs
  MsgTs <- MCMsgTs
  MsgSize <- MCMsgSize
  MaxArchiveSize = 3
  PieceLength = 2
  ArchiveOverhead = 1
  EncOverhead = 1
  Partition = 2
  CreatedAt = 1
  MaxTime = 5
  LateBy = 0
  Reading = TRUE
  EncryptModes = {FALSE, TRUE}
  Failures <- EarlyFailures
  MaxExplicitCalls = 0
  MaxCalls = 3
SPECIFICATION Spec
INVARIANT TypeOK
