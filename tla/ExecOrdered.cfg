\* Output port configuration: ordered, synchronous, parallel work.
CONSTANTS
  InputDataBufferSize = 2
  ExecuteTokenSize = 2
  PreserveOrder = TRUE
  IsSerial = FALSE
  UseAsync = FALSE
  HasWorkFunction = TRUE
  HasOutputCallback = TRUE
  UserCodes = {0}
  MaxItems = 5
  MaxBypass = 1
  MaxResets = 1
SPECIFICATION FairSpec
CHECK_DEADLOCK FALSE
INVARIANTS TokensConserved NoSlotLeak
PROPERTIES AcceptedIsOutput ImplementsPipeline
