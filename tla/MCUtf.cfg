SPECIFICATION Spec
CONSTANTS
  Texts <- MCTexts
  Cuts = {0, 1, 2}
  ArgLists <- MCArgLists
  Garbage <- MCGarbage
  Leftover = {"unknown", "UTF8"}
CHECK_DEADLOCK FALSE
INVARIANTS
  Translates
  SwapsUnits
  OptionsAnywhere
  OnlyMarkedIsRead
