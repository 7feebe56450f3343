SPECIFICATION Spec
CONSTANTS
  Conv = {busy}
  Calm = {}
  Chat = {k1}
CHECK_DEADLOCK FALSE
INVARIANTS
  SequenceAdvances
