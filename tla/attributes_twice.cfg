\* Templates that name two curves, a curve and more bytes, or a size and then none.
SPECIFICATION Spec
CONSTANTS
  Labels = {"l1", "l2"}
  IDs = {"x", "y"}
  Certs <- MCCerts
  PubTmpls <- TwicePubTmpls
  PrivTmpls <- MCPrivTmpls
  Keys <- MCKeys
  curveOIDs <- MCCurveOIDs
  MinBits = 2
  ByteBits = 2
  Base = 4
  ExponentBytes <- MCExponentBytes
  Int64 = 16
  MaxAttrs = 12
  Nil = Nil
  Absent = Absent
\* An object is finished at some point.
CHECK_DEADLOCK FALSE
INVARIANTS ReportsKey
