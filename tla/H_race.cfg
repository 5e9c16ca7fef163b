CONSTANTS
  Requests = {q1, q2}
  Signals = {s1}
  NoSignal = NoSignal
  Bodies <- SmallBodies
  Limit = 3
SPECIFICATION FairSpec
INVARIANTS AnswersAreWhole StreamsAreBounded NothingOutlivesTheRequest
PROPERTIES ImplementsRequest AbortReachesItsRequests EveryRequestSettles
CHECK_DEADLOCK FALSE
