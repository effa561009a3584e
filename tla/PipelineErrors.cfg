\* An error that no sample had.
SPECIFICATION Spec
CONSTANTS
  Json <- MCJson
  Pretty <- MCPretty
  Outputs <- MCOutputs
  Refinements <- MCRefinements
  SamplesToLock = 4
  SampleCap = 4
  AnchorCap = 3
  Floor = 3
  Budget <- MCBudget
  ErrorLines <- MCErrorLines
  ExitLines <- MCExitLines
  BlankLines <- MCBlankLines
  DebugLines <- MCDebugLines
  None = None
INVARIANT ErrorsShown
