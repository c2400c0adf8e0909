SPECIFICATION Spec
CONSTANTS
  a = a
  b = b
  Clone = {a, b}
  Destination <- MCDestination
  MaxRelease = 2
  MaxTime = 4
  MaxStanzas = 4
  Unlucky = {a}
  EditsFail = FALSE
  KeepsPackages = FALSE
INVARIANTS ChangelogDescends UploadedWasPushed OrigIsOffered
CHECK_DEADLOCK FALSE
