CONSTANTS
  f1 = f1  f2 = f2  c1 = c1
  File = {f1, f2}
  Call = {c1}
  MaxVersion = 2
  MaxEdits = 2
  GitRoot = TRUE
SPECIFICATION IndexSpec
SYMMETRY FileSymmetry
PROPERTY OnlyMissingFilesRemoved
