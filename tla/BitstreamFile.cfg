SPECIFICATION Spec
CONSTANTS
  Symbols <- MCSymbols
  Openings <- MCOpenings
  MaxSyms = 3
  Models <- MCModels
  Companions <- MCCompanions
  Payloads <- MCPayloads
INVARIANTS BinsDecoded UnitsFramed NoStartCodeInside
CHECK_DEADLOCK FALSE
