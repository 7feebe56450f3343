SPECIFICATION MCSpec
CONSTANTS
  c1 = c1
  c2 = c2
  k1 = k1
  k2 = k2
  Conv <- MCConv
  Chat <- MCChat
  Request <- MCChat
  Streams <- MCStreams
  Limit = 1
  Deleters <- MCDeleters
  MaxCuts = 1
  NoConv = NoConv
  NoChat = NoChat
CHECK_DEADLOCK FALSE
INVARIANTS
  TypeOK
  PermitsBalance
  AnswersFollowQuestions
  LockHolds
  AskedOnce
  ShownIsStored
  PatientRoundsAreNumbered
  OverloadIsAbandoned
PROPERTIES
  SpinnerStops
