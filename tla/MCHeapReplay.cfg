SPECIFICATION ReplaySpec
CONSTANTS
  NumPages = 16
  KernelPage = 5
  HeapBasePage = 8
  FirstFreeFrame = 2
  UserFrame = 3
  PageUnits = 16
  l_pageCount = 2
  MaxPage = 16
  MaxChunk = 4
  l_pageSize = 262144
  Requests = {1}
INVARIANTS LogReproduced
CHECK_DEADLOCK FALSE
