SPECIFICATION MCKeyboardSpec
CONSTANTS
  MaxBuf = 1
  MaxBpmf = 1
  MaxPages = 1
  SelKeySets <- MCSelKeys
  KeyEvents = {}
  DigitKeys <- MCDigitKeys
  KeypadKeys <- MCKeypadKeys
  PrintableKeys <- MCPrintableKeys
  KPNormal <- MCKPNormal
  Upper <- MCUpper
  Confs <- MCConfs
  MaxOutgoing = 0
  Keys <- MCKeys
  ControlKeys <- MCControl
  SystemSym <- MCSystem
  USSym <- MCUS
  UseSystem = FALSE
INVARIANTS
  NoStuckKeys
PROPERTIES
  KeysActOnPress
  OnlyTapToggles
  TapToggles
