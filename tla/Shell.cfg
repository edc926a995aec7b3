SPECIFICATION FairSpec
CONSTANTS
  NULL = NULL
  Lines <- SomeLines
  Writable = {"f", "g"}
  Readable = {"f"}
  Programs = {"cat"}
  Pids = {p1, p2, p3}
  TableSize = 2
INVARIANTS DescriptorsInPlace ChildrenAccounted
PROPERTIES PromptReturns
CHECK_DEADLOCK FALSE
