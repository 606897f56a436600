\* poll_task, register and refresh_token race for tokens that rotate, next to a
\* send_result without tries.
SPECIFICATION Spec
CONSTANTS
  Calls <- tokenCalls
  Kind <- tokenKind
  Answers <- taskAnswers
  Retries <- tokenRetries
  MaxGrants = 2
  GivenSession = TRUE
  Rotating = TRUE
INVARIANTS TokensPaired StrandedIsReported
PROPERTY RetryWithNewToken
CHECK_DEADLOCK FALSE
