CONSTANTS
  TryPorts = 2
  TwoDigits = 2
  Remote <- OneRemote
  ServerStates <- FewStates
  Displays <- FewDisplays
  VGLDisplays <- FewVGLDisplays
  NoDisplay = NoDisplay
  MaxChanges = 1
SPECIFICATION Spec
INVARIANT
  VirtualGLFlagged
