SPECIFICATION PatientSpec
CONSTANTS
  Tabs = {t1}
  Passwords = {"", "old", "new"}
  Links = TRUE
  MaxFaults = 2
CHECK_DEADLOCK FALSE
INVARIANTS AccessIsRight OfferedRestartsAreGranted
PROPERTY LoginLeadsIn
