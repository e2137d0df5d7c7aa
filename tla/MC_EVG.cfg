CONSTANTS
  DescriptionTypes = {"lso", "stringout", "waveform"}
  AddressOffset = 0
  PvPrefix = "$(P)$(R)"
  NoLink = NoLink
  Configs <- MCConfigs
SPECIFICATION Spec
INVARIANT TypeOK
INVARIANT WriteAllLinksEveryRegisteredPv
INVARIANT IoRegistersDisjoint
INVARIANT AddrArgumentsRendered
