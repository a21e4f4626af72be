SPECIFICATION HeapSpec
CONSTANTS
  NumPages = 12
  KernelPage = 5
  HeapBasePage = 8
  FirstFreeFrame = 2
  UserFrame = 3
  PageUnits = 2
  l_pageCount = 2
  MaxPage = 100
  MaxChunk = 4
  l_pageSize = 96
  Requests = {1, 150}
INVARIANTS LiballocTypeOK MajorsInOrder MinorsInOrder BlocksApart UsageAdds
  CopyFits
PROPERTIES GrowsOnlyWhenFull CallReturns  UsesPagingAsSpecified
CHECK_DEADLOCK FALSE
