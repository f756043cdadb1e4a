SPECIFICATION Spec
CONSTANTS
  Sizes <- MCSizes
  Levels <- MCLevels
  Extended = {FALSE}
  Mvds <- MCMvds
  IntraModes <- MCModes
  AlfSlices = {1}
  SubPuAddresses = {0}
INVARIANTS InStep RoundTrip ContextsInSets
CHECK_DEADLOCK FALSE
