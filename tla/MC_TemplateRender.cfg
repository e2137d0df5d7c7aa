\* Every text of up to six characters, one render_template call each, with
\* every name set and every order of the alternations.
CONSTANTS
  TemplateNames <- AllTexts
  FileTypes = {"DB"}
  TemplateText <- AllTextTemplates
  AddrName <- A
  PvPrefixName <- B
  CallerFunctionNames <- CallerFuncs
  CallerVariableNames <- CallerVars
  MaxCalls = 1
SPECIFICATION Spec
INVARIANTS RenderedAsDocumented
\* A process stops calling render_template after MaxCalls calls.
CHECK_DEADLOCK FALSE
