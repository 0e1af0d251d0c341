SPECIFICATION PartitionSpec
CONSTANTS
  MvContext <- MCMvContext
  CoeffProbs <- MCCoeffProbs
  Content <- MCContent
INVARIANTS
  ReadsWhatWasWritten
  StatisticsMatch
CHECK_DEADLOCK FALSE
