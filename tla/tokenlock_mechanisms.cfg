\* A slot that overrides Mechanisms but not MechanismInfo.
SPECIFICATION Spec
CONSTANTS
  Conns = {c1, c2}
  Slots = {s1}
  Objs = {o1}
  Ops <- MCAllOps
  SlotIDs <- MCSlotIDs
  Labels <- MCLabels
  WireLabels <- MCWireLabels
  Counts <- MCCounts
  Mechs <- MCMechs
  DefaultMechs <- MCDefaultMechs
  Configured <- MCConfigured
  NoArg = NoArg
  Free = Free
  s1 = s1
  sx = sx
  factory = factory
  a = a
  b = b
  m1 = m1
  m2 = m2
  m3 = m3
INVARIANTS MechanismsAgree
