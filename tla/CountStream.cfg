SPECIFICATION FairSpec
CONSTANTS
  MaxCount = 2
  Room = 2
  NoNumber = NoNumber
  MaxFrames = 4
INVARIANTS
  CountFollowsShown
  RepeatsAreInterruptions
PROPERTIES
  NoNumberIsSkipped
  NumbersGoOn
