\* send_result with two tries and emit_event, on a session that the transport
\* makes and closes itself.
SPECIFICATION FairSpec
CONSTANTS
  Calls <- workCalls
  Kind <- workKind
  Answers <- workAnswers
  Retries <- workRetries
  MaxGrants = 1
  GivenSession = FALSE
  Rotating = FALSE
INVARIANTS TypeOK HandlingBudget TrueMeansAccepted RefusedMeansNotExecuted
PROPERTIES CallsTerminate ImplementsDelivery
CHECK_DEADLOCK FALSE
