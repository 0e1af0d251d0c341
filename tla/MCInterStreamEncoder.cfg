SPECIFICATION Spec
CONSTANTS
  c1 = c1
  dflt = dflt
  hi = hi
  none = none
  small = small
  large = large
  CoeffCell <- MCCoeffCell
  MvCell <- MCMvCell
  Prob <- MCProb
  DefaultProb = dflt
  NoUpdate = none
  Delta <- MCDelta
  Format <- MCFormat
  Shape <- MCShape
  Packet <- MCPacket
  Dimensions <- MCDimensions
  Refresh <- MCRefresh
  Deltas <- MCDeltas
  Tokens <- MCTokens
  NoPicture = NoPicture
  Drifted = Drifted
  NoKeyframe = NoKeyframe
  NoDimensions = NoDimensions
  KeyframeInterval = 3
  GoldenInterval = 2
  MaxFrames = 4
  InFlight = 2
INVARIANTS
  NoDrift
  KeyframeIsAccessPoint
PROPERTIES
  PreviewsHold
CHECK_DEADLOCK FALSE
