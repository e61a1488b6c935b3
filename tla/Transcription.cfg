SPECIFICATION MCSpec
CONSTANTS
  p1 = p1
  p2 = p2
  Proc = {p1, p2}
  Plan <- MCPlan
  Chunk <- MCChunk
  Track <- MCTrack
  ChunksOf <- MCChunksOf
  TrackOf <- MCTrackOf
  MaxEpoch = 2
  MaxAttempts = 3
  Nobody = Nobody
  NoRetry = NoRetry
INVARIANTS TypeOK DoubtIsKept ResendIsConfirmed ConfirmationSpentOnce SuccessHasResult LeaseExclusive PublishedIsProven
PROPERTIES SuccessIsFinal ImplementsDelivery RunsEnd
CHECK_DEADLOCK FALSE
