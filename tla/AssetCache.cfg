SPECIFICATION FairSpec
CONSTANTS
  NoData = NoData
  Url <- TheUrls
  Page <- page
  Lists <- TheLists
  Size = 2
INVARIANTS PrefetchPaysOff OneResponsePerKey
PROPERTIES SetUpEnds LoadsEnd
CHECK_DEADLOCK FALSE
