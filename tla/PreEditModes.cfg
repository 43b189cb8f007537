SPECIFICATION Spec
CONSTANTS
  MaxBuf = 2
  MaxBpmf = 1
  MaxPages = 2
  SelKeySets <- MCSelKeys
  KeyEvents <- ShiftEvents
  DigitKeys <- MCDigitKeys
  KeypadKeys <- MCKeypadKeys
  PrintableKeys <- MCPrintableKeys
  KPNormal <- MCKPNormal
  Upper <- MCUpper
  Confs <- ShiftConfs
  MaxOutgoing = 0
INVARIANTS
  PreEditMirrorsContext
  NoBopomofoInEnglish
PROPERTIES
  PassedKeyTypesNothing
  OnlyToggleChangesMode
  EnglishStaysOut
