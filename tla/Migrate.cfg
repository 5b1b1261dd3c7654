\* Opens that overlap and opens that do not, some of them dying on the way.
SPECIFICATION FairSpec
CONSTANTS
  Openers = {o1, o2, o3}
  MaxCrashes = 2
INVARIANTS NeverAhead CrashesHarmless
PROPERTIES OverlapHarmless AloneGetsMigrated
