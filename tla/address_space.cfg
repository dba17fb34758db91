\* Two address spaces, twenty-two frames.  A panicked kernel stops.
SPECIFICATION Spec
CONSTANTS
  W = 2
  NumFrames = 22
  PageSize = 4
  RunLengths = {1, 2, 4, 8, 16}
  Programs <- MCPrograms
  StackPages = 2
  MapPages = {3, 4}
  MapSizes = {4, 5}
  MaxSpaces = 2
INVARIANTS FramesHaveOneUse
PROPERTIES ImageMapped ImplementsAddressSpaces
CHECK_DEADLOCK FALSE
