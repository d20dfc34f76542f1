SPECIFICATION Spec
CONSTANTS
  s1 = s1
  s2 = s2
  Addr = {s1, s2}
  NoAddr = NoAddr
  Lists <- MCLists
  DefaultList <- MCDefault
  Replies <- MCReplies
  MAX_ATTEMPTS = 3
  MAX_REQUESTS = 4
  MaxExchanges = 2
  MaxSends = 8
  MaxPosted = 2
  MaxLaps = 4
INVARIANT TimeoutIsSilence
CHECK_DEADLOCK FALSE
