\* One server (learners share nothing), every arrival order of the commands,
\* restarts until the log has more than MaxLines lines.
SPECIFICATION Spec
CONSTANTS
  Server = {1}
  Incoming <- MCIncoming
  MaxLines = 3
INVARIANT TypeOK
INVARIANT PrefixDecided
INVARIANT LogNumbered
INVARIANT MisfiledRepeatsAbove
