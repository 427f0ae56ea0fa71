SPECIFICATION FairSpec
CONSTANTS
  Values = {v1, v2}
  Nil = Nil
  Capacity = 2
INVARIANTS TypeOK SlotsFilled NoSlotRace
PROPERTIES PopAfterPositiveSize ImplementsFifo ConsumerDrains
