SPECIFICATION Spec
CONSTANTS
  Examples = {2, 3, 4, 5}
  MaxLoad = 2
  User = {u1, u2}
  Caller = {c1, c2}
  Area = 3
  Half = 8
  CopyMax = 4
  Size = {0, 1, 2, 4}
  Offset = {0, 2, 5}
INVARIANTS DeviceTypeOK GivesBackAll ReleasedInOrder FilesServed NoJunkRead WithinArea LineGivenBack
