\* Two connections generate token and session keys and open sessions.
SPECIFICATION Spec
CONSTANTS
  Conns = {c1, c2}
  Slots = {s1}
  SlotIDs <- MCSlotIDs
  Stored <- MCStoredNone
  Dynamic = {}
  Provided <- MCProvided
  Calls <- PersistCalls
  IdWidth = 2
  GenMechs = {"EC_GEN"}
  Domains = {"ok"}
  PubTmpls <- MCPubTmpls
  PrivTmpls <- MCPrivTmpls
  SignMechs <- MCSignMechsFew
  Chunks = {"d1"}
  FindTmpls <- MCFindTmpls
  Counts = {0, 1, 2}
  AttrQueries <- MCAttrQueries
  Values = {"A", "B", "certificate", "data"}
  DeriveMechs <- MCDeriveMechsFew
  DeriveTmpls <- MCOneTmpl
  Lengths = {1}
  FirstID = 4
  MaxID = 7
  MaxSessions = 1
  MaxData = 0
  MaxFound = 0
  NoSession = NoSession
  s1 = s1
  sx = sx
SYMMETRY MCSymmetry
INVARIANTS SessionPrivate PublicFirst
PROPERTIES LaterSessionsSee
