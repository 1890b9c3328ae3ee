SPECIFICATION FairSpec
CONSTANTS
  p1 = p1
  p2 = p2
  old = old
  new = new
  Projects <- MCProjects
  Texts <- MCTexts
  Saves = 2
INVARIANT TypeOK
INVARIANT SavedIsOnDisk
PROPERTY KeystrokesOutliveTheSave
PROPERTY SavingEnds
