\* Flash operations may fail; an image of 4 words and one of 7, too large to be staged.
CONSTANTS
  PageSize = 3
  FlashBase = 9
  FlashEnd = 21
  RunningSize = 4
  Images = {"a", "c"}
  ImageSize <- MCImageSize
  NoImage = "none"
  Bases = {0, 3, 6}
  MaxPayload = 2
  Failures = {"erase", "write", "read"}
SPECIFICATION Spec
INVARIANTS VerifiedImageStaged InstalledImage
PROPERTY KeepsPromise
CHECK_DEADLOCK FALSE
