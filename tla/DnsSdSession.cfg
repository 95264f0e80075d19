CONSTANTS
  Resource = "GPU"
  Word <- Words
  MaxInfos = 2
  Host <- TwoHosts
  Here = "hostB"
  Findings <- GPUFindings
  Sessions <- NoSession
  Uuid <- OnceEach
  MaxAnnounces <- Once
  NoRecord = NoRecord
SPECIFICATION Spec
INVARIANTS
  LocalSessionIsHere
