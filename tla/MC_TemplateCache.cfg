\* Three render_template calls on two templates, sharing the template cache.
CONSTANTS
  TemplateNames = {"t1", "t2"}
  FileTypes = {"DB", "REQ"}
  TemplateText <- CachedTemplates
  AddrName <- A
  PvPrefixName <- B
  CallerFunctionNames <- CallerFuncs
  CallerVariableNames <- CallerVars
  MaxCalls = 3
SPECIFICATION Spec
INVARIANTS TypeOK RenderedAsDocumented
\* A process stops calling render_template after MaxCalls calls.
CHECK_DEADLOCK FALSE
