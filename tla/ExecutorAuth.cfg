\* Three requests, two tokens, two urls, three seconds.
SPECIFICATION FairSpec
CONSTANTS
  r1 = r1
  r2 = r2
  r3 = r3
  t1 = t1
  t2 = t2
  Request <- MCRequest
  Token <- MCToken
  tokenOf <- MCTokenOf
  exp <- MCExp
  maxAttempts <- MCMaxAttempts
  urls <- MCUrls
  TTL = 1
  MaxTime = 2
CHECK_DEADLOCK FALSE
INVARIANTS BudgetHolds SentWithClaim
PROPERTIES PathRecentlyAnswered SelectEnds
