SPECIFICATION FairSpec
CONSTANTS
  InfoThreads = {t1, t2}
  Boot = boot
  Committer = committer
  Missing = missing
  Empty = empty
  MaxHeight = 3
  MaxCrashes = 2
  MaxFailures = 2
INVARIANTS
  TypeOK
  CommitFindsAHeight
  EveryBlockCountsOnce
PROPERTIES
  ReportsNeverGoBack
  CommitEnds
CHECK_DEADLOCK FALSE
