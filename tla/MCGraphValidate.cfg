SPECIFICATION Spec
CONSTANTS
  Ids <- MCIds
  NodeChoice <- MCNodeChoice
  EdgeChoice <- MCEdgeChoice
  Upper <- MCUpper
  DeclaredNodeKinds = {"User"}
  DeclaredRelationshipKinds = {"Owns"}
  MaxNodes = 3
  MaxEdges = 2
INVARIANTS
  TypeOK
  ReportsEveryProblem
  AcceptedGraphResolves
  StoredAsGiven
PROPERTIES
  UppercaseKeepsResolution
