CONSTANTS
  UrlTexts <- MCUrlTexts
  QueryTexts <- MCQueryTexts
  CallerLists <- MCCallerLists
  MaxTokens = 3
  TableCap = 1
SPECIFICATION Spec
CHECK_DEADLOCK FALSE
INVARIANTS
  TypeOK
  StoresInside
  UrlKeepsLast
  QueryKeepsFirst
  ReadsBack
  AllFreed
