SPECIFICATION FairSpec
CONSTANTS
  Format <- MCFormat
  Kind <- MCKind
  NoFormat = NoFormat
  NoShow = NoShow
  NoShape = NoShape
  NoPicture = NoPicture
  PixelCap = 2
  DefaultCap = 5
  MaxPackets = 4
INVARIANTS
  PacketsConserved
  PictureMatchesAnnouncement
PROPERTIES
  DeliveredInOrder
  DrainReachesEof
