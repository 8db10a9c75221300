\* Two requests of every kind over pipes of two cells.
SPECIFICATION Spec
CONSTANTS
  Messages <- MCMessages
  MaxRequests = 2
  Calls = {1, 2, 4}
  callFinalize = 1
  callError = 0
  Reads <- MCReads
  Results <- MCResults
  RandomCalls = {4}
  Errors = {7}
  errFunctionNotSupported = 6
  errRandomNoRNG = 8
  sigUlong = 2
  End = End
  Null = 5
  Versions = {0, 1}
  Cap = 2
\* A connection ends.
CHECK_DEADLOCK FALSE
PROPERTIES Implements Answered HandleReturns
