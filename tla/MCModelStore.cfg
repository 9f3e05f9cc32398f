SPECIFICATION Spec
CONSTANTS
  lower = lower
  upper = upper
  stem = stem
  Uploaded = {lower, upper}
  Contents = {1, 2}
  StemOf <- MCStem
  OrderOf <- MCOrder
  MaxModels = 2
  Uploads = {u1, u2}
  Exports = {e1, e2}
  MaxFaults = 1
  Foreign = Foreign
  None = None
INVARIANTS
  OfferedIsOfItsWeight
  ExportsEndClean
PROPERTIES
  NothingIsOverwritten
SYMMETRY Alike
CHECK_DEADLOCK FALSE
