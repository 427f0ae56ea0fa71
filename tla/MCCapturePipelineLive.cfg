SPECIFICATION FairSpec
CONSTANTS
  NFrames = 2
  IngressCap = 1
  RingCap = 1
  FlushFrames = 2
  SeqMod = 8
  SeqStart = 5
PROPERTIES QuitTerminates AcceptedIsDispatched
