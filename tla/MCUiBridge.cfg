SPECIFICATION FairSpec
CONSTANTS
  NFrames = 3
  UiPoints = 3
  MaxBacklog = 3
INVARIANTS TypeOK NewestSurvives PlaysTheFile FrameShowsBlock
PROPERTIES RenderOrder NewestIsShown StopReturns
