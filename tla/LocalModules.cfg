CONSTANTS
  TryPorts = 2
  TwoDigits = 2
  Remote <- OneRemote
  ServerStates <- FewStates
  Displays <- FewDisplays
  VGLDisplays <- FewVGLDisplays
  NoDisplay = NoDisplay
  MaxChanges = 1
  Display = {69, 70, 71}
  MaxGPUs = 2
  Drivers <- FewDrivers
  Context = {application}
  Temporary = Temporary
  None = None
  Address <- FewAddresses
  Adapter <- FewAdapters
  Item <- FewItems
  MaxList <- FewEntries
  Unset = Unset
SPECIFICATION LocalSpec
INVARIANTS
  EveryScreenOnce
  OnlyDefaultTwice
  OneRedirection
  AllGathered
  GivenBack
  GPUsFound
  MainDisplayFound
PROPERTIES
  EveryDiscoverReturns
