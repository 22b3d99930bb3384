SPECIFICATION ReleaseSpec
CONSTANTS
  Limit = 2
  Injections = {FALSE}
  Proxies = {""}
  Environments = {TRUE}
  Digests = {d1, d2}
  MaxRedirects = 2
  MaxAssets = 3
  MaxLines = 3
CHECK_DEADLOCK FALSE
INVARIANTS TrustedOnly BodiesAreWhole ChecksumIsExact
PROPERTY FetchEnds
