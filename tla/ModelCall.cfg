\* The three protocols, up to two candidates and three verdicts in an answer.
CONSTANTS
  Protocols = {"openai_compatible", "openai_responses", "anthropic"}
  Bodies <- AllBodies
  NoHeader = NoHeader
  RetryAfters = {NoHeader, 0, 60}
  MaxCandidates = 2
  MaxVerdicts = 3
SPECIFICATION Spec
INVARIANTS
  RequestsBounded
  OnlyWholeAnswersCount
  VerdictsFitCandidates
PROPERTIES
  NoAnswerPaidTwice
CHECK_DEADLOCK FALSE
