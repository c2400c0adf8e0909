SPECIFICATION Spec
CONSTANTS
  f44 = f44
  f45 = f45
  Release = {f44, f45}
  MaxUpdates = 2
  MaxAnalysis = 2
PROPERTIES ClosedIsAnswered FindingsNotRepeated AskedOncePerChange SaidIsRemembered
CHECK_DEADLOCK FALSE
SYMMETRY MCSymmetry
