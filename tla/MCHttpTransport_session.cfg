\* connect, close and connect again.
SPECIFICATION Spec
CONSTANTS
  Calls <- oneCall
  Kind <- oneKind
  Answers <- okAnswers
  Retries <- oneRetries
  MaxGrants = 0
  GivenSession = FALSE
  Rotating = FALSE
INVARIANT SessionUsableAfterConnect
CHECK_DEADLOCK FALSE
