CONSTANTS
  DescriptionTypes = {"lso"}
  AddressOffset = 0
  PvPrefix = "$(P)$(R)"
  NoLink = NoLink
  None = None
  Configs <- MCConfigs
SPECIFICATION Spec
INVARIANT FineDelayFieldsDistinct
