SPECIFICATION Spec
CONSTANTS
  c1 = c1
  c2 = c2
  m1 = m1
  dflt = dflt
  hi = hi
  none = none
  CoeffCell <- MCCoeffCell
  MvCell <- MCMvCell
  Prob <- MCProb
  DefaultProb = dflt
  NoUpdate = none
  Delta <- MCDelta
  Format <- MCFormat
  Packet <- MCPacket
  NoPicture = NoPicture
  NoFormat = NoFormat
  NoPacket = NoPacket
  NoShow = NoShow
  MaxPixels = 272
  MaxLog = 4
INVARIANTS
  FailureIsInvisible
  SlotsMatchFormat
  EntropyIsLastKeptUpdate
  DeltasAreLastUpdate
PROPERTIES
  ImplementsContract
