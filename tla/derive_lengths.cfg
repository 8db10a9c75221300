\* Every length a template can ask for; the counter wraps at the third block.
SPECIFICATION Spec
CONSTANTS
  Base = 3
  SecretLen = 3
  HashLen = 2
  Width = 16
  CounterWidth = 3
  MaxAlloc = 7
  KDFs = {"null", "hash", "unknown"}
  Tmpls <- MCTmpls
  Nil = Nil
\* A derivation ends.
CHECK_DEADLOCK FALSE
INVARIANTS ResizedSecret KDFStream
PROPERTIES Returns
