\* A COMMIT may fail.
CONSTANTS
  MailserverInputs <- MCMailserverInputs
  NoAddr = "nil"
  GapLists <- MCGapLists
  GapIDLists <- MCGapIDLists
  ChatIDs <- MCChatIDs
  TopicInputs <- MCTopicInputs
  TopicLists <- MCTopicLists
  FilterLists <- MCFilterLists
  Day = 2
  RangeInputs <- MCRangeInputs
  RangeLists <- MCRangeLists
  Failures = {"commit"}
SPECIFICATION Spec
INVARIANT StoredWhenOk
