SPECIFICATION Spec
CONSTANTS
  Sessions = {"orders", "records", "backup", "scout", "commander"}
  Configs <- MCConfigs
  Numbers <- MCNumbers
  Chunks = {5, 64}
  Window = 18
  Exchanges = 2
  Mortal = {"stub", "engineer"}
INVARIANT TypeOK
INVARIANT AnswersMatch
PROPERTY ImplementsChannel
PROPERTY EndsStop
