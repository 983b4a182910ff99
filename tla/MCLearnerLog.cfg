\* The log file against the decisions, no restart.
SPECIFICATION Spec
CONSTANTS
  Server = {1}
  Incoming <- MCIncoming
  MaxLines = 0
INVARIANT LogHoldsDecisions
