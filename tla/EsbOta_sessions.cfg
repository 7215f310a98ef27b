\* No flash failure; two images that can be staged, so that sessions follow one another and end.
CONSTANTS
  PageSize = 3
  FlashBase = 6
  FlashEnd = 18
  RunningSize = 6
  Images = {"a", "b"}
  ImageSize <- MCImageSize
  NoImage = "none"
  Bases = {0, 3, 9}
  MaxPayload = 2
  Failures = {}
SPECIFICATION FairSpec
INVARIANT StagedInOrder
PROPERTY SessionEnds
CHECK_DEADLOCK FALSE
