CONSTANTS
  Resource = "Net"
  Value <- Values
  Module <- NetModule
  DnsSd = "dns_sd"
  Findings <- NetFindings
  Chains <- NetChains
  Sessions <- OneSession
  Nothing = Nothing
SPECIFICATION Spec
PROPERTY
  AnnouncedInFull
