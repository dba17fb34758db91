\* A heap of 48 words and three sizes, enough for a merge under search_previous.
SPECIFICATION Spec
CONSTANTS
  HeapWords = 48
  Sizes = {66, 72, 80}
  MaxWords = 200
  MaxLive = 3
INVARIANT BlocksWellFormed
