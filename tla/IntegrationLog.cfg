SPECIFICATION FairSpec
CONSTANTS
  Writers = {w1, w2, w3}
  Readers = {r1, r2}
  MaxEvents = 4
  MaxPerTx = 2
  NoOne = NoOne
INVARIANTS NothingPassedOver
PROPERTIES NoLateCommit ImplementsEventLog EverythingIsRead
