\* One connection with one session at a time, every call and every error.
SPECIFICATION Spec
CONSTANTS
  Conns = {c1}
  Slots = {s1, s2}
  SlotIDs <- MCSlotIDs
  Stored <- MCStoredFull
  Dynamic = {s2}
  Provided <- MCProvided
  Calls <- AllCalls
  IdWidth = 2
  GenMechs <- MCGenMechs
  Domains <- MCDomains
  PubTmpls <- MCOneTmpl
  PrivTmpls <- MCOneTmpl
  SignMechs <- MCSignMechs
  Chunks = {"d1"}
  FindTmpls <- MCFindOne
  Counts = {0, 1}
  AttrQueries <- MCAttrQueries
  Values = {"A", "B", "certificate", "data"}
  DeriveMechs <- MCDeriveMechs
  DeriveTmpls <- MCOneTmpl
  Lengths = {0, 1}
  FirstID = 4
  MaxID = 5
  MaxSessions = 1
  MaxData = 1
  MaxFound = 0
  NoSession = NoSession
  s1 = s1
  sx = sx
INVARIANTS TypeOK SignReady
