SPECIFICATION Spec
CONSTANTS
  r1 = r1
  r2 = r2
  us = us
  them = them
  Ids = {r1, r2}
  Content <- MCContent
  Jsons <- MCTexts
  keccak256 <- MCKeccak
  Hashes <- MCHashes
  Accounts = {us, them}
  Account = us
  MaxForeign = 1
CHECK_DEADLOCK FALSE
INVARIANT GenuineVerifies
