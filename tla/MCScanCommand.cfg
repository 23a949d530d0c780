CONSTANTS
  prod = prod
  staging = staging
  unknown = unknown
  blank = blank
  url = url
  Contexts <- MCContexts
  Blank <- blank
  Default <- url
  TargetFlags <- MCTargetFlags
  Severity <- MCSeverity
  FailOn = 3
  Timeouts = {TRUE, FALSE}
SPECIFICATION Spec
INVARIANTS ExitCodeNamesSignal ExitCodeTellsTheReport EveryTargetOnce InterruptionsStayLocal
PROPERTY Terminates
