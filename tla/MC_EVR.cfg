\* The catalog EVRs and 864 single-output configurations, in both file types.
CONSTANTS
  DescriptionTypes = {"lso"}
  AddressOffset = 0
  PvPrefix = "$(P)$(R)"
  NoLink = NoLink
  None = None
  Configs <- MCConfigs
SPECIFICATION Spec
INVARIANT TypeOK
INVARIANT WriteAllLinksEveryRegisteredPv
INVARIANT FanoutRecordNamesUnique
INVARIANT RegisterBlocksDisjoint
INVARIANT FineDelayFieldsDistinct
INVARIANT CatalogNeverRaises
INVARIANT RaisesExactlyOnInvalidOutput
