SPECIFICATION Spec
CONSTANTS
  Keys <- MCKeys
  Ids <- MCIds
  Stored <- MCStored
INVARIANT ForwardOnce
