SPECIFICATION Spec
CONSTANTS
  Types = {"argo", "pod", "kagent", "unknown"}
  MaxEdits = 2
  MaxFaults = 1
PROPERTIES ReferenceIsSound DeletionCompletes SuccessIsReported
CHECK_DEADLOCK FALSE
