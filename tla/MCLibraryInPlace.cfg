SPECIFICATION LibrarySpec
CONSTANTS
  Table <- AllBodies
  Withholding = {"nothing", "in place"}
  Captures = {"none"}
INVARIANTS
  IgnoredIsNotRead
CHECK_DEADLOCK FALSE
