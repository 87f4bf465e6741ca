\* Two concurrent calls on one account, every wallet step and every table
\* statement failing at times, beside the table's other readers and writers.
CONSTANTS
  IDs = {1, 2}
  NoID = 0
  Rows <- MCRows
  Zero = "zero"
  Details <- MCDetails
  MaxLeaked = 2
  Failures = {"prepare", "exec", "query", "create", "verify", "client", "nextNonce", "send", "lost", "track"}
  Calls = {1, 2}
  Paths <- MCPaths
  Chains = {1, 2}
  CallID <- MCCallID
  MTRow <- MCMTRow
  Passwords = {"", "pw"}
SPECIFICATION Spec
INVARIANT TypeOK
INVARIANT ReadReturnsMatchingRows
INVARIANT NoNonceGap
INVARIANT StaleOnlyFromOtherCall
INVARIANT SuccessMeansSentAndTracked
