\* Every statement kind may fail.
CONSTANTS
  MailserverInputs <- MCMailserverInputs
  NoAddr = "nil"
  GapLists <- MCGapLists
  GapIDLists <- MCGapIDLists
  ChatIDs <- MCChatIDs
  TopicInputs <- MCTopicInputs
  TopicLists <- MCTopicLists
  FilterLists <- MCFilterLists
  Day = 2
  RangeInputs <- MCRangeInputs
  RangeLists <- MCRangeLists
  Failures <- AllFailures
SPECIFICATION Spec
INVARIANT TypeOK
PROPERTY ErrorLeavesTablesUnchanged
PROPERTY SetTopicsKeepsLastRequest
