SPECIFICATION FairSpec
CONSTANTS
  Calls <- MCCalls
  Menus <- MCMenus
  Allowed <- MCAllowed
  Size <- MCSize
  MaxCrashes = 1
INVARIANTS AnswerIsTrue SavedStays ReadsSaved
PROPERTIES ImplementsRpc NothingHangs
