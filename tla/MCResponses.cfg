SPECIFICATION Spec
CONSTANTS
  Calls <- MCCalls
  Cases <- MCCases
  Sessions <- MCSessions
  QueryIDs = {q1, q2}
INVARIANTS
  NothingDeniedSurvives
  AnswerIsComplete
