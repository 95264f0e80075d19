CONSTANTS
  Resource = "GPU"
  Value <- Values
  Module <- GPUModule
  DnsSd = "dns_sd"
  Findings <- GPUFindings
  Chains <- GPUChains
  Sessions <- OneSession
  Nothing = Nothing
SPECIFICATION Spec
INVARIANTS
  TypeOK
  OneOfAKind
  FlagsAccumulate
  MirrorsDropped
  FirstsInOrder
  NothingLost
  NoEcho
PROPERTIES
  CallsReturn
