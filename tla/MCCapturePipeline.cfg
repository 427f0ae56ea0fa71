SPECIFICATION Spec
CONSTANTS
  NFrames = 4
  IngressCap = 2
  RingCap = 1
  FlushFrames = 2
  SeqMod = 8
  SeqStart = 5
INVARIANTS TypeOK FramesAccountedFor StreamOrder GapsExplained
           ConsumersOutliveProducers NothingLostAtExit
