\* Three runs that may end or fail at any time.
SPECIFICATION Spec
CONSTANTS
  MaxRuns = 3
  MaxRows = 3
INVARIANTS
  TypeOK
  HeaderOnce
  AckedIsReadable
