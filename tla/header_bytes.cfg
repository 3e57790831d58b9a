CONSTANTS
  Jobs <- MCJobs
  Argus <- MCArgus
  Aes <- MCAes
  AesBack <- MCAesBack
  Md5 <- MCMd5
  MaxName = 17
SPECIFICATION Spec
CHECK_DEADLOCK FALSE
INVARIANTS
  InBounds
  ArgusOpens
  LadonOpens
  GorgonOpens
