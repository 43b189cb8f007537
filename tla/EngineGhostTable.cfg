SPECIFICATION EngineSpec
CONSTANTS
  MaxBuf = 1
  MaxBpmf = 1
  MaxPages = 1
  SelKeySets <- MCSelKeys
  KeyEvents <- TextEvents
  DigitKeys <- MCDigitKeys
  KeypadKeys <- MCKeypadKeys
  PrintableKeys <- MCPrintableKeys
  KPNormal <- MCKPNormal
  Upper <- MCUpper
  Confs <- TextConfs
  MaxOutgoing = 0
  PrefSets <- TextPrefs
  LedMoves = FALSE
  MaxIndex = 2
INVARIANTS
  ShownTableHasList
