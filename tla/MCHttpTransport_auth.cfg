\* Two calls get a 401 and refresh at once, with tokens that rotate.
SPECIFICATION GoodDaySpec
CONSTANTS
  Calls <- threeCalls
  Kind <- threeKind
  Answers <- taskAnswers
  Retries <- threeRetries
  MaxGrants = 2
  GivenSession = FALSE
  Rotating = TRUE
PROPERTY AuthErrorMeansUnrecoverable
CHECK_DEADLOCK FALSE
