CONSTANTS
  Null = Null
  Tools = {"sql_query", "lookup", "recall"}
  DefaultTool = "sql_query"
  Responses <- MCResponses
  MaxIterations = 2
  MaxRetries = 3
  MaxChats = 2
SPECIFICATION Spec
INVARIANT TypeOK
INVARIANT AnswersFollowCalls
INVARIANT UserSpeaksLast
INVARIANT StoredIsSaid
