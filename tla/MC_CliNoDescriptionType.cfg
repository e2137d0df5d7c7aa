\* generate_db_or_req.py run without --description-record-type.
CONSTANTS
  DescArgs = {"None"}
  Stems <- MCStems
  Suffixes = {".db", ".req"}
  NoLink = NoLink
  None = None
SPECIFICATION Spec
INVARIANT NoTruncatedOutputFile
\* The process ends: every behaviour stops in phase "exited" and stays there.
CHECK_DEADLOCK FALSE
