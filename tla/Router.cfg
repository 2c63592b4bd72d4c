SPECIFICATION FairSpec
CONSTANTS
  Ifaces = {i1, i2}
  Listeners = {l1}
  MaxListed = 3
INVARIANTS
  TypeOK
  AddedStaysRegistered
PROPERTIES
  WalkCallsTheRegistered
  DeletedUncalled
  EveryIfaceServed
  LinkFollowed
