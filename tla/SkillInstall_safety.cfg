SPECIFICATION Spec
CHECK_DEADLOCK FALSE
CONSTANTS
  v1 = v1
  v2 = v2
  v3 = v3
  a = a
  b = b
  Names = 3
  Release = {v1, v2, v3}
  Path = {a, b}
  Contents <- MCContents
  Absent = Absent
  File = File
  Directory = Directory
  Other = Other
  MaxRuns = 4
  MaxFaults = 2
  MaxEdits = 1
INVARIANTS TypeOK AllOrNothing Usable OnlyForeignRefused
PROPERTY ForeignKept
