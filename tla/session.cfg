SPECIFICATION FairSpec
CONSTANTS
  Tabs = {t1, t2}
  Users = {"admin", "viewer"}
  Roles = {"admin", "viewer"}
  Admin = "admin"
  Null = Null
  TTL = 1
  MaxTime = 1
  MaxChanges = 1
  MaxSwitches = 1
  MaxMishaps = 1
INVARIANTS TypeOK ShowsWhatItSends StuckOnlyByOtherTab
PROPERTIES OnlyWhileGranted GoodTokenStays SignsIn
CHECK_DEADLOCK FALSE
