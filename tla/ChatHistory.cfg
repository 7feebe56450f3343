SPECIFICATION Spec
CONSTANTS
  Conv = {calm, busy}
  Calm = {calm}
  Chat = {k1, k2, k3}
CHECK_DEADLOCK FALSE
INVARIANTS
  TypeOK
  CalmRoundsAreNumbered
  CalmRoundsFollow
  CalmLearnsFirst
  WindowIsFirstAndRecent
PROPERTIES
  RoundsSurvive
