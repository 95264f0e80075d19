CONSTANTS
  Resource = "GPU"
  Word <- Words
  MaxInfos = 2
  Host <- TwoHosts
  Here = "hostB"
  Findings <- GPUFindings
  Sessions <- OneSession
  Uuid <- OnceEach
  MaxAnnounces <- Twice
  NoRecord = NoRecord
SPECIFICATION Spec
INVARIANTS
  AllIsPublished
