SPECIFICATION LinkFairSpec
CONSTANTS
  Senders = {s1, s2}
  Host <- OwnHost
  NoSender = none
  W = 8
  First = 6
  QueueSize = 2
  MaxSamples = 3
  MaxFlaws = 1
INVARIANTS
  OneResumePerPress
  SamplesInOrder
PROPERTIES
  SampleLossStops
