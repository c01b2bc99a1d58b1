SPECIFICATION Spec
CONSTANTS
  Types = {"argo", "pod", "kagent"}
  MaxEdits = 0
  MaxFaults = 0
INVARIANT NoLeak
CHECK_DEADLOCK FALSE
