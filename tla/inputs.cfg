SPECIFICATION InputsSpec
CONSTANTS
  BufferSize = 4
  MaxExcludes = 2
  ExcludeFiles <- LongerFiles
  ConfigFiles <- ShortFiles
  BufferLen = 6
  Event <- ThreeEvents
  WaitingLimit = 4
INVARIANTS
  LinesUsed
  LimitExact
  BlankExplained
  NoInvalidStructure
  InputsIInv
PROPERTIES
  BatchSpec
CHECK_DEADLOCK FALSE
