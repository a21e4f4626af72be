SPECIFICATION PagingSpec
CONSTANTS
  NumPages = 16
  KernelPage = 2
  HeapBasePage = 6
  FirstFreeFrame = 2
  UserFrame = 3
  PageUnits = 2
  l_pageCount = 2
  MaxPage = 19
  MaxChunk = 5
INVARIANT UserFrameIsPrivate
CHECK_DEADLOCK FALSE
