SPECIFICATION Spec
CONSTANTS
  llm = llm
  padded = padded
  Name <- MCName
  Strip <- MCStrip
  host = host
  blank_host = blank_host
  Addr <- MCAddr
  StripAddr <- MCStripAddr
  MaxCopies = 2
  HeartbeatTimeout = 2
  CheckInterval = 1
INVARIANTS
  DetectedInTime
