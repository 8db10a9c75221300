\* A second search on one session after C_FindObjectsFinal.
SPECIFICATION Spec
CONSTANTS
  Conns = {c1}
  Slots = {s1}
  SlotIDs <- MCSlotIDs
  Stored <- MCStoredFull
  Dynamic = {}
  Provided <- MCProvided
  Calls <- SearchCalls
  IdWidth = 3
  GenMechs = {"EC_GEN"}
  Domains = {"ok"}
  PubTmpls <- MCOneTmpl
  PrivTmpls <- MCOneTmpl
  SignMechs <- MCSignMechsFew
  Chunks = {"d1"}
  FindTmpls <- MCFindTmpls
  Counts = {0, 1, 2}
  AttrQueries <- MCAttrQueries
  Values = {"A", "B", "certificate", "data"}
  DeriveMechs <- MCDeriveMechsFew
  DeriveTmpls <- MCOneTmpl
  Lengths = {1}
  FirstID = 4
  MaxID = 5
  MaxSessions = 1
  MaxData = 0
  MaxFound = 6
  NoSession = NoSession
  s1 = s1
  sx = sx
INVARIANTS SearchAnswers
