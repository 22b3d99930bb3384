SPECIFICATION ReleaseSpec
CONSTANTS
  Limit = 2
  Injections = {FALSE, TRUE}
  Proxies = {""}
  Environments = {TRUE}
  Digests = {d1, d2}
  MaxRedirects = 2
  MaxAssets = 2
  MaxLines = 3
INVARIANT InjectedClientIsUsed
CHECK_DEADLOCK FALSE
