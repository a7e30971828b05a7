SPECIFICATION LinkFairSpec
CONSTANTS
  Senders = {s1}
  Host <- OwnHost
  NoSender = none
  W = 8
  First = 6
  QueueSize = 2
  MaxSamples = 3
  MaxFlaws = 1
PROPERTIES
  LostLinkStaysStopped
