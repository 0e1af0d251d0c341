SPECIFICATION Spec
CONSTANTS
  Configs <- MCConfigs
  Clips <- MCClips
  Shrink <- MCShrink
  Coded <- MCCoded
  None = None
  Err = Err
  MaxFrames = 9
  MaxClips = 2
CHECK_DEADLOCK FALSE
INVARIANTS
  ChainDecodes
  RateIsHeld
