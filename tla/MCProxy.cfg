SPECIFICATION ReleaseSpec
CONSTANTS
  Limit = 2
  Injections = {FALSE}
  Proxies = {"", "http", "other"}
  Environments = {FALSE, TRUE}
  Digests = {d1, d2}
  MaxRedirects = 2
  MaxAssets = 2
  MaxLines = 3
INVARIANT EnvironmentIsInherited
CHECK_DEADLOCK FALSE
