SPECIFICATION Spec
CONSTANTS
  Keys <- MCKeys
  ImportLists <- MCImportLists
  Overlays <- MCOverlays
  MaxOps = 7
INVARIANTS
  TypeOK
  OverlayInForce
  ImportComplete
CHECK_DEADLOCK FALSE
