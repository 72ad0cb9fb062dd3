\* A backslash before a two-byte character.
CONSTANTS
  Documents <- MCDocuments
  Leads = {0}
  MaxDepth = 2
SPECIFICATION RescueSpec
INVARIANT ReadsOnBoundary
CHECK_DEADLOCK FALSE
