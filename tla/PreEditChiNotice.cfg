SPECIFICATION Spec
CONSTANTS
  MaxBuf = 2
  MaxBpmf = 1
  MaxPages = 2
  SelKeySets <- MCSelKeys
  KeyEvents <- CapsEvents
  DigitKeys <- MCDigitKeys
  KeypadKeys <- MCKeypadKeys
  PrintableKeys <- MCPrintableKeys
  KPNormal <- MCKPNormal
  Upper <- MCUpper
  Confs <- CapsConfs
  MaxOutgoing = 0
PROPERTIES
  ChiNotifiedByKeys
