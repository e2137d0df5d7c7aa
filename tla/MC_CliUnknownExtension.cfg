\* generate_db_or_req.py given an output file whose suffix is not a FileType.
CONSTANTS
  DescArgs = {"lso"}
  Stems <- MCStems
  Suffixes = {".txt"}
  NoLink = NoLink
  None = None
SPECIFICATION Spec
INVARIANT UnknownExtensionReported
\* The process ends: every behaviour stops in phase "exited" and stays there.
CHECK_DEADLOCK FALSE
