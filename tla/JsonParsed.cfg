\* Every text of up to four cells and of five pieces that nest, two levels deep; three
\* calls on each of four trees, which make new items while there are less than four.
SPECIFICATION PrintSpec
CONSTANTS
  Texts <- MCTexts
  EditedTexts <- MCEditedTexts
  Keys = {"string", "STRING"}
  NestingLimit = 2
  CallLimit = 3
  ItemLimit = 4
  DefaultSize = 4
  IntMax = 13
  Sizes = {0, 4, 8, 12}
  PrintLimit = 2
  Faults = {"malloc"}
INVARIANTS TypeOK InBuffer AcceptsTheGrammar TreeIsTheText NothingLeaked WellLinked CopyIsEqual PrintBufferIsKept PrintsTheTree
PROPERTIES ImplementsTree FailureChangesNoList
CHECK_DEADLOCK FALSE
