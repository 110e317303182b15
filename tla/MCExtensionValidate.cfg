SPECIFICATION Spec
CONSTANTS
  ExtensionChoice <- MCExtensionChoice
  Blank = {"", " "}
  Keys <- MCKeys
  GoodKey = {"a", "b"}
  maxInfo = 2
INVARIANTS
  TypeOK
  ReportsEveryProblem
  AcceptsByTheRules
CHECK_DEADLOCK FALSE
