\* Every command line with a record type argparse accepts or rejects, every
\* catalog device in several casings and an unknown one, and three suffixes.
CONSTANTS
  DescArgs = {"lso", "stringout", "bogus"}
  Stems <- MCStems
  Suffixes = {".db", ".req", ".txt"}
  NoLink = NoLink
  None = None
SPECIFICATION Spec
INVARIANT TypeOK
INVARIANT CatalogNamesAccepted
\* The process ends: every behaviour stops in phase "exited" and stays there.
CHECK_DEADLOCK FALSE
