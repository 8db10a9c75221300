\* One connection with two sessions and three session handles, which wrap around,
\* searching in chunks while an object is derived.
SPECIFICATION Spec
CONSTANTS
  Conns = {c1}
  Slots = {s1}
  SlotIDs <- MCSlotIDs
  Stored <- MCStoredTwo
  Dynamic = {}
  Provided <- MCProvided
  Calls <- SessionCalls
  IdWidth = 3
  GenMechs = {"EC_GEN"}
  Domains = {"ok"}
  PubTmpls <- MCOneTmpl
  PrivTmpls <- MCOneTmpl
  SignMechs <- MCSignMechsFew
  Chunks = {"d1"}
  FindTmpls <- MCFindData
  Counts = {0, 1, 2}
  AttrQueries <- MCAttrQueries
  Values = {"A", "B", "certificate", "data"}
  DeriveMechs <- MCDeriveMechsFew
  DeriveTmpls <- MCDataTmpl
  Lengths = {1}
  FirstID = 4
  MaxID = 4
  MaxSessions = 2
  MaxData = 0
  MaxFound = 3
  NoSession = NoSession
  s1 = s1
  sx = sx
INVARIANTS HandlesResolve FindConserves
PROPERTIES SessionStable
