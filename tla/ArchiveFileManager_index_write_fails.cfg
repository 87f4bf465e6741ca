\* The index rewrite fails after os.WriteFile has truncated the file.
CONSTANTS
  Msgs <- MCMsgs
  MsgTs <- MCMsgTs
  MsgSize <- MCMsgSize
  MaxArchiveSize = 3
  PieceLength = 2
  ArchiveOverhead = 1
  EncOverhead = 1
  Partition = 2
  CreatedAt = 1
  MaxTime = 5
  LateBy = 0
  Reading = FALSE
  EncryptModes = {FALSE, TRUE}
  Failures = {"writeIndex"}
  MaxExplicitCalls = 1
  MaxCalls = 6
SPECIFICATION Spec
PROPERTY ArchivedNeverLost
