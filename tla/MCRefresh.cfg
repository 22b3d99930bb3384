SPECIFICATION RefreshingSpec
CONSTANTS
  Tabs = {t1, t2}
  Passwords = {"", "old", "new"}
  Links = FALSE
  MaxFaults = 1
PROPERTY RefreshHelps
CHECK_DEADLOCK FALSE
