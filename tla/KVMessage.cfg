SPECIFICATION Spec
CONSTANTS
  NULL = NULL
  Words <- TextWords
  Meant <- MeantRequests
  Typed <- TypedTexts
  Bodies <- StoreValues
  TooLong <- LongWords
INVARIANTS RequestIntact CommitWasVoted ResponseIsPrefix
CHECK_DEADLOCK FALSE
