SPECIFICATION FairSpec
CONSTANTS
  s1 = s1
  s2 = s2
  s3 = s3
  d1 = d1
  Writers = {w1, w2}
  NoOne = NoOne
  NumOwners = 2
  Sources = {s1, s2, s3}
  Audience <- AudienceMC
  MaxRev = 3
  Devices = {d1}
  Home <- HomeMC
  PageLimit = 1
  Expiring = {1, 2, 3}
INVARIANTS KeptIsNotMissed SourceOnce NoLockCycle RevisionsAreFinal
PROPERTIES ImplementsAtomicFeed EveryEventIsPulled
