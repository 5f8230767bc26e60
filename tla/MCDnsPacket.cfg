CONSTANTS
  FrameSize = 300
  Queries <- SomeQueries
SPECIFICATION Spec
INVARIANTS ReplyDelivered ReplyMatchesQuestion RejectedIffMalformed
CHECK_DEADLOCK FALSE
