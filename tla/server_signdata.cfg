\* A second multi-part signature on one session.
SPECIFICATION Spec
CONSTANTS
  Conns = {c1}
  Slots = {s1}
  SlotIDs <- MCSlotIDs
  Stored <- MCStoredOne
  Dynamic = {}
  Provided <- MCProvided
  Calls <- SignCalls
  IdWidth = 3
  GenMechs = {"EC_GEN"}
  Domains = {"ok"}
  PubTmpls <- MCOneTmpl
  PrivTmpls <- MCOneTmpl
  SignMechs <- MCSignMechsFew
  Chunks = {"d1", "d2"}
  FindTmpls <- MCFindTmpls
  Counts = {0, 1, 2}
  AttrQueries <- MCAttrQueries
  Values = {"A", "B", "certificate", "data"}
  DeriveMechs <- MCDeriveMechsFew
  DeriveTmpls <- MCOneTmpl
  Lengths = {1}
  FirstID = 4
  MaxID = 7
  MaxSessions = 1
  MaxData = 2
  MaxFound = 0
  NoSession = NoSession
  s1 = s1
  sx = sx
INVARIANTS SignsOwnData
