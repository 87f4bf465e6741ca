\* No failures, fair ticker and build: offsets, windows, progress and the refinement of HistoryArchive.
CONSTANTS
  Msgs <- MCMsgs
  MsgTs <- MCMsgTs
  MsgSize <- MCMsgSize
  MaxArchiveSize = 3
  PieceLength = 2
  ArchiveOverhead = 1
  EncOverhead = 1
  Partition = 2
  CreatedAt = 1
  MaxTime = 5
  LateBy = 0
  Reading = FALSE
  EncryptModes = {FALSE, TRUE}
  Failures <- NoFailures
  MaxExplicitCalls = 1
  MaxCalls = 6
SPECIFICATION FairSpec
INVARIANT IndexConsistent
INVARIANT NoDuplicateArchive
PROPERTY EventuallyArchived
PROPERTY HistoryArchiveRefined
