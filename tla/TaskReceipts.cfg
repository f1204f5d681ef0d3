SPECIFICATION FairSpec
CONSTANTS
  s1 = s1
  s2 = s2
  r1 = r1
  plain = plain
  careful = careful
  Steps = {s1}
  Runs = {r1}
  RunOf <- MCRunOf
  Fingerprints = {plain, careful}
  Limit <- MCLimit
  Recoverable = {careful}
  Outputs = {o1, o2}
  NoOutput = NoOutput
  MaxTaskAttempts = 3
  MaxCrashes = 1
INVARIANTS
  TypeOK
  HeardIsSaved
PROPERTIES
  NoRunAfterAbort
  ImplementsTaskEffect
  PlainAttemptsSettle
