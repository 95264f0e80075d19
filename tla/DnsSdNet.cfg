CONSTANTS
  Resource = "Net"
  Word <- Words
  MaxInfos = 2
  Host <- TwoHosts
  Here = "hostA"
  Findings <- NetFindings
  Sessions <- TwoWords
  Uuid <- Restarts
  MaxAnnounces <- Twice
  NoRecord = NoRecord
SPECIFICATION Spec
INVARIANTS
  FirstIsPublished
  OfOneAnnouncement
  RemoteKeepsName
  LocalIsMarked
