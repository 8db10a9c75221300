\* Two connections and two slots, with the handlers that copy slots unlocked.
SPECIFICATION FairSpec
CONSTANTS
  Conns = {c1, c2}
  Slots = {s1, s2}
  Objs = {o1, o2}
  Ops <- MCAllOps
  SlotIDs <- MCSlotIDs
  Labels <- MCLabels
  WireLabels <- MCWireLabels
  Counts <- MCCounts
  Mechs <- MCMechsFew
  DefaultMechs <- MCDefaultMechs
  Configured <- MCConfigured
  NoArg = NoArg
  Free = Free
  s1 = s1
  sx = sx
  factory = factory
  a = a
  b = b
  m1 = m1
  m2 = m2
  m3 = m3
INVARIANTS TypeOK WritesGuarded
PROPERTIES InitFrozen AppendOnly Linearizable Responds
