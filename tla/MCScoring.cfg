SPECIFICATION Spec
CONSTANTS
  None = None
  Odd = Odd
  Schemas <- MCSchemas
  ToolCases <- MCToolCases
  GroundingCases <- MCGroundingCases
  ClassifierCases <- MCClassifierCases
  ToolReplies <- MCToolReplies
  GroundingReplies <- MCGroundingReplies
  ClassifierReplies <- MCClassifierReplies
  Warm = 1
  Concurrent = 2
  Tokens = {2}
  Cuts = {FALSE}
  MaxTime = 1
INVARIANTS
  ScoresAreFaithful
  TallyAddsUp
  ReasoningShows
  TimesAreOwn
