SPECIFICATION TableSpec
CONSTANT LastInstant = 8
INVARIANTS RowsStaySeparate GapsAreWhatIsLeft
