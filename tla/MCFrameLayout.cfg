SPECIFICATION FrameSpec
CONSTANTS
  CoeffUpdateProbs <- MCCoeffUpdateProbs
  MvUpdateProbs <- MCMvUpdateProbs
  Counts <- MCCounts
  Sizes <- MCSizes
  SectionLens <- MCSectionLens
  Silent <- MCSilent
  Keys <- MCKeys
  Adaptive <- MCAdaptive
  Inters <- MCInters
  Foreign <- MCForeign
  Cuts <- MCCuts
  MaxPixels = 10000
  FlushBytes = 4
INVARIANTS
  FrameReadsBack
  SlicesTileTheBody
  OvershootIsNamed
CHECK_DEADLOCK FALSE
