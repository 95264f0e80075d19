CONSTANTS
  Module = {m1, m2, m3}
  Null = Null
SPECIFICATION Spec
INVARIANTS
  TypeOK
  WellLinked
PROPERTIES
  ImplementsRegistry
  TraversalComplete
  CallsReturn
