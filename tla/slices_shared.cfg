\* A GetObjects that returns the same list, with spare capacity, every time.
SPECIFICATION Spec
CONSTANTS
  Sessions = {i1, i2}
  Arrays = {a1, a2, a3, a4, a5}
  Nil = Nil
  Given <- MCGiven
  Sources = {"shared"}
  Extra = {0, 2}
  Spare <- SpareShared
  MaxMade = 4
  Closed = Closed
SYMMETRY MCSymmetry
INVARIANTS OwnObjects
