\* Handles whose upper half is 0xffffffff.
SPECIFICATION Spec
CONSTANTS
  Base = 11
  N32 = 2
  N64 = 4
  valueType <- MCValueType
  paramsOf <- MCParamsOf
  Nil = Nil
  Space = 10
  Reads <- MCReads
  Writes <- MCWrites
  Samples <- HighSamples
  Results <- MCResults
  callFinalize = "Finalize"
  RandomCalls = {"GenerateRandom", "SeedRandom"}
  Styles <- Style
\* A message is read or written once.
CHECK_DEADLOCK FALSE
INVARIANTS Understood
