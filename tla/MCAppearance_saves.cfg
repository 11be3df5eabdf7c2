SPECIFICATION Spec
CONSTANTS
  Handler = {h1, h2}
  Visitor = {v1}
  Json = Json
  Ext = {jpg, png}
  NoExt = NoExt
  MaxDim = 1
  Dims <- OutOfRange
  Absent = Absent
  Torn = Torn
  Whole = Whole
  Kept = Kept
  MaxOverlaps = 1
INVARIANT TypeOK
PROPERTY WholeFiles
PROPERTY LoneSaveAgrees
PROPERTY LoneUploadServed
PROPERTY OneRecord
CHECK_DEADLOCK FALSE
SYMMETRY Symmetry
VIEW Live
