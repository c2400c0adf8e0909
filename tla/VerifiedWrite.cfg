SPECIFICATION Spec
CONSTANTS
  a = a
  b = b
  Bug <- MCBug
  Attempts = 2
  MaxTime = 3
INVARIANTS WhatLandedIsKnown DoneIsWritten
PROPERTIES EveryCallEnds
CHECK_DEADLOCK FALSE
