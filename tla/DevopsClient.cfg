SPECIFICATION MCClientSpec
CONSTANTS
  Brokers = {1, 1010}
  Topics <- MCTopics
  Partitions <- MCPartitions
  MaxPayloads = 2
  MaxTries = 1
INVARIANTS
  ClientTypeOK
  AllAnswered
  HealsSoon
  PassedByItself
  CachesAgree
PROPERTIES
  AnswersAreFinal
  CallReturns
