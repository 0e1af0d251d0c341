SPECIFICATION PictureSpec
CONSTANTS
  Menus <- MCMenus
  Picture = {p1, p2, p3}
  NoPicture = NoPicture
INVARIANTS
  WalksAgree
  DecodesWhatWasPicked
  FilterPlansAgree
  PendingSourceStillOwned
  FewestCopies
PROPERTY ImplementsLadder
CHECK_DEADLOCK FALSE
