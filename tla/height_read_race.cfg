SPECIFICATION Spec
CONSTANTS
  InfoThreads = {t1, t2}
  Boot = boot
  Committer = committer
  Missing = missing
  Empty = empty
  MaxHeight = 3
  MaxCrashes = 2
  MaxFailures = 0
INVARIANTS
  InfoFindsHeight
CHECK_DEADLOCK FALSE
