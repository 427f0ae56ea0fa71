SPECIFICATION Spec
CONSTANTS
  NFrames = 4
  UiPoints = 3
  MaxBacklog = 3
INVARIANTS NoUiBacklog
