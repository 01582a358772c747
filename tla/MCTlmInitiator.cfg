SPECIFICATION Spec
CONSTANTS
  MaxCalls = 3
  WaitBound = 2
  DrainBound = 3
  PollBound = 3
  Tags = 2
  Depth = 2
  Modes = {"blocking", "out_of_order", "channel"}
  Mixed = FALSE
  MaxJumps = 1

  
  
  
PROPERTIES
  RequestKept
  Returns
