SPECIFICATION Spec
CONSTANTS
  c1 = c1
  dflt = dflt
  hi = hi
  none = none
  small = small
  large = large
  CoeffCell <- MCCoeffCell
  MvCell <- MCMvCell
  Prob <- MCProb
  DefaultProb = dflt
  NoUpdate = none
  Delta <- MCDelta
  Format <- MCFormat
  Shape <- MCShape
  Packet <- MCPacket
  Dimensions <- MCDimensions
  Tokens <- MCTokens
  NoPicture = NoPicture
  Drifted = Drifted
  NoDimensions = NoDimensions
  KeyframeInterval = 4
  AltrefWindow = 3
  GoldenPromotion = TRUE
  SceneCuts = TRUE
  MaxFrames = 6
  MaxFailures = 1
  InFlight = 1
INVARIANTS
  ScenesKeptApart
  GoldenBrackets
  DecodesAsCodedUntilFailure
PROPERTIES
  ImplementsContract
CHECK_DEADLOCK FALSE
