\* A slot with GetObjects: generated token objects are lost to later sessions.
SPECIFICATION Spec
CONSTANTS
  Conns = {c1}
  Slots = {s1}
  SlotIDs <- MCSlotIDs
  Stored <- MCStoredOne
  Dynamic = {s1}
  Provided <- MCProvided
  Calls <- PersistCalls
  IdWidth = 3
  GenMechs = {"EC_GEN"}
  Domains = {"ok"}
  PubTmpls <- MCOneTmpl
  PrivTmpls <- MCOneTmpl
  SignMechs <- MCSignMechsFew
  Chunks = {"d1"}
  FindTmpls <- MCFindTmpls
  Counts = {0, 1, 2}
  AttrQueries <- MCAttrQueries
  Values = {"A", "B", "certificate", "data"}
  DeriveMechs <- MCDeriveMechsFew
  DeriveTmpls <- MCOneTmpl
  Lengths = {1}
  FirstID = 4
  MaxID = 7
  MaxSessions = 2
  MaxData = 0
  MaxFound = 0
  NoSession = NoSession
  s1 = s1
  sx = sx
PROPERTIES LaterSessionsSee
