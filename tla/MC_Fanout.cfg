CONSTANTS
  PvPrefix = "P:"
  PvNames = {"WA"}
  TargetNames = {"a", "b"}
  MaxTargets = 13
  NoLink = NoLink
SPECIFICATION Spec
INVARIANT TypeOK
 
