SPECIFICATION Spec
CONSTANTS
  hover1 = hover1
  hover2 = hover2
  Queries = {hover1, hover2}
  MethodOf <- OneMethod
  MaxGeneration = 2
  MaxConnection = 5
  MaxRepeats = 1
INVARIANTS MarksTheScreen
PROPERTIES AnswersTheScreen LastTextDiagnosed QueriesSettle
CHECK_DEADLOCK FALSE
