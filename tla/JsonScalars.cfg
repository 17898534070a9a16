\* Strings that confuse the two passes, code units at every boundary, and numbers.
SPECIFICATION Spec
CONSTANTS
  Texts <- MCTexts
  Faults = {"malloc"}
  NumberSize = 64
  IntMax = 2147483647
INVARIANTS TypeOK BlocksFit StringIsItsMeaning PrintsWhatItReads SettingIsTheNumber
CHECK_DEADLOCK FALSE
