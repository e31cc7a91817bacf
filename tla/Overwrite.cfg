\* An ordered node with two execution tokens, overwritten and reset.
CONSTANTS
  ExecTokens = 2
  PreserveOrder = TRUE
  IsSerial = FALSE
  MaxPuts = 3
  MaxFires = 4
  MaxResets = 1
SPECIFICATION FairSpec
CHECK_DEADLOCK FALSE
INVARIANTS TokensConserved NeverGoesBack
PROPERTIES AcceptedIsProcessed
