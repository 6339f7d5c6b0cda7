SPECIFICATION LibrarySpec
CONSTANTS
  Table <- AllBodies
  Withholding = {"nothing", "not root"}
  Captures = {"none", "wrapper", "implementation"}
INVARIANTS
  TypeOK
  OutputsMatchAnswer
  TemporariesAreFreed
  BlockFollowsItsOperation
  NoRejectionIsPassedOn
  OnlySmallValuesReachTheTwin
  IgnoredIsNotRead
  CallsFollowTheHandshake
CHECK_DEADLOCK FALSE
