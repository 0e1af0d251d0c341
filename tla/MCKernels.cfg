SPECIFICATION Spec
CONSTANTS
  References <- MCReferences
  Places <- MCPlaces
  MotionVectors <- MCMotionVectors
  Sources <- MCSources
  Starts <- MCStarts
  BlockGroups <- MCBlockGroups
  Windows <- MCWindows
  Steps <- MCSteps
  BlockEdge = 4
  Predictions <- MCPredictions
  Residues <- MCResidues
  Factors <- MCFactors
  Fractions <- MCFractions
  Blocks <- MCBlocks
  BlockLength = 4
  Specs <- MCSpecs
  Rate <- MCRate
  Eob <- MCEob
  BitCost <- MCBitCost
  BranchCounts <- MCBranchCounts
  Defaults <- MCDefaults
  Offers <- MCOffers
  Runs <- MCRuns
  FilterParams <- MCFilterParams
  Plans <- MCPlans
  Scores <- MCScores
  Edges <- MCEdges
  MbRows = 2
  MbCols = 3
  TokenBits <- MCTokenBits
  YModeBits <- MCYModeBits
  UvModeBits <- MCUvModeBits
  SubblockModeBits <- MCSubblockModeBits
  InterYModeBits <- MCInterYModeBits
  InterUvModeBits <- MCUvModeBits
INVARIANTS
  PredictionMatchesDefinition
  SearchMeasuresPrediction
  ReconstructionAgrees
  ChoicesAreCheapest
  PixelsAreDecodedNeighbours
  DirectionsMirror
  LanesMatchScalars
