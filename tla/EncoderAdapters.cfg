SPECIFICATION FairSpec
CONSTANTS
  Adapters = {"lagged", "immediate"}
  Widths = {2, 3}
  Heights = {2}
  Strides = {1, 2, 3, 64}
  MaxUsize = 64
  Unset = Unset
  NoPts = NoPts
  NoPacket = NoPacket
  AltrefWindow = 3
  MaxFrames = 6
  MaxResizes = 2
  MaxFailures = 1
INVARIANTS
  FramesStayWhole
  EofMeansAllOut
PROPERTIES
  SizeChangesAtKeyFrame
  DrainReachesEof
