CONSTANTS
  Resource = "GPU"
  Word <- Words
  MaxInfos = 2
  Host <- TwoHosts
  Here = "hostB"
  Findings <- GPUFindings
  Sessions <- OneSession
  Uuid <- Restarts
  MaxAnnounces <- Twice
  NoRecord = NoRecord
SPECIFICATION Spec
INVARIANTS
  TypeOK
  FirstIsPublished
  LatestIsPublished
  OfTwoAnnouncements
  OfOneAnnouncement
  StoppedIsGone
