SPECIFICATION FairSpec
CONSTANTS NPorts = 2 NSlots = 2 CmdSize = 3 Ep0Size = 24 IntrSize = 2 EventSize = 3
  Scenarios <- Usual
  MaxRetries = 1
INVARIANTS OneTransfer EveryReportOnce OwnContexts OwnAnswer
PROPERTY Enumerates
CHECK_DEADLOCK FALSE
