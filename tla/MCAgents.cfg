CONSTANTS
  Telemetry <- MCTelemetry
  Answers <- MCAnswers
  Asker = {"a1", "a2"}
  MaxTurns = 3
SPECIFICATION Spec
INVARIANTS TypeOK PublishedIsGrounded PlannedIsReasoned ThreadIsTail
CHECK_DEADLOCK FALSE
