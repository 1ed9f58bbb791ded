SPECIFICATION FairSpec
CONSTANTS
  o1 = o1
  o2 = o2
  c1 = c1
  Instances = {i1, i2}
  MaxEvents = 3
  BatchLimit = 2
  MaxAborts = 1
  NoOne = NoOne
  Owners = {o1, o2}
  Conversations = {c1}
  Conv <- ConvMC
  Targets <- TargetsMC
INVARIANTS TriedBeforeAcknowledged
PROPERTIES NothingBlocks
