CONSTANTS
  Filter = {f1, f2, f3}
  Variable = {a, b, c}
  MaxNext = 2
  Null = Null
SPECIFICATION Spec
INVARIANTS
  NothingDangles
  NothingLeaks
  VerdictOfChain
PROPERTIES
  ChainAppends
  CallReturns
