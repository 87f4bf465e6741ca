\* The torrent write or the cursor save fails after the data was appended.
CONSTANTS
  Msgs <- MCMsgs
  MsgTs <- MCMsgTs
  MsgSize <- MCMsgSize
  MaxArchiveSize = 3
  PieceLength = 2
  ArchiveOverhead = 1
  EncOverhead = 1
  Partition = 2
  CreatedAt = 1
  MaxTime = 5
  LateBy = 0
  Reading = FALSE
  EncryptModes = {FALSE, TRUE}
  Failures = {"writeTorrent", "saveCursor"}
  MaxExplicitCalls = 1
  MaxCalls = 6
SPECIFICATION Spec
INVARIANT NoDuplicateArchive
