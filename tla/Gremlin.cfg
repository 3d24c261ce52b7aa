SPECIFICATION GremlinSpec
CONSTANTS
  GroupBits = 2
  FullGroups = 4
  F64 = 3
  F32 = 2
  Nil = nil
  None = none
  Projects <- AllProjects
CHECK_DEADLOCK FALSE
INVARIANTS ReferencesLead ImportsFollowed ExtensionComplete SizeExact RoundTrip Stable
