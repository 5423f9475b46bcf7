SPECIFICATION FairSpec
CONSTANTS
  Instances = {s1, s2}
  MaxFaults = 2
INVARIANTS TypeOK IInv ServesSeeded
PROPERTIES SeedsOnlyFreshTables ComesUpUnlessBlocked
