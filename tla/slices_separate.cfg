\* Slot.Objects, a GetObjects that builds a list per call, and one that returns
\* the same list without spare capacity.
SPECIFICATION Spec
CONSTANTS
  Sessions = {i1, i2}
  Arrays = {a1, a2, a3, a4, a5}
  Nil = Nil
  Given <- MCGiven
  Sources = {"static", "fresh", "shared"}
  Extra = {0, 2}
  Spare <- SpareUnshared
  MaxMade = 4
  Closed = Closed
SYMMETRY MCSymmetry
INVARIANTS OwnObjects TokenKept
