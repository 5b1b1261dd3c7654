\* Two commands create the same new journal.
SPECIFICATION NewFileSpec
CONSTANTS
  Openers = {o1, o2}
  MaxCrashes = 0
PROPERTIES GetsMigrated
