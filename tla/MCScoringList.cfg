SPECIFICATION Spec
CONSTANTS
  None = None
  Odd = Odd
  Schemas <- MCSchemas
  ToolCases <- MCToolCases
  GroundingCases <- MCGroundingCases
  ClassifierCases <- MCClassifierCases
  ToolReplies <- MCToolReplies
  GroundingReplies <- MCGroundingReplies
  ClassifierReplies <- MCClassifierReplies
  Warm = 1
  Concurrent = 1
  Tokens = {}
  Cuts = {TRUE}
  MaxTime = 0
INVARIANT
  RepliesEndNothing
