SPECIFICATION FairSpec
CONSTANTS
  o1 = o1
  o2 = o2
  Instances = {i1, i2}
  MaxEvents = 2
  BatchLimit = 2
  MaxAborts = 1
  NoOne = NoOne
  Owners = {o1, o2}
  Audience <- AudienceMC
  MaxAttempts = 2
  Resolutions <- ResolutionsMC
INVARIANTS NothingPassedOver ProjectedOnce FeedInOrder
PROPERTIES ImplementsOrderedDelivery BacklogConsumedOrReported TakesUpAgain
