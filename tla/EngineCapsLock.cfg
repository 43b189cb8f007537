SPECIFICATION EngineSpec
CONSTANTS
  MaxBuf = 1
  MaxBpmf = 1
  MaxPages = 1
  SelKeySets <- OneSelKey
  KeyEvents <- ModeEvents
  DigitKeys <- MCDigitKeys
  KeypadKeys <- MCKeypadKeys
  PrintableKeys <- MCPrintableKeys
  KPNormal <- MCKPNormal
  Upper <- MCUpper
  Confs <- ModeConfs
  MaxOutgoing = 0
  PrefSets <- EnglishPrefs
  LedMoves = TRUE
  MaxIndex = 2
PROPERTIES
  CapsLockAlwaysToggles
