SPECIFICATION FairSpec
CONSTANTS
  s1 = s1
  s2 = s2
  r1 = r1
  plain = plain
  careful = careful
  Steps = {s1}
  Runs = {r1}
  RunOf <- MCRunOf
  Fingerprints = {careful}
  Limit <- MCLimit
  Recoverable = {careful}
  Outputs = {o1}
  NoOutput = NoOutput
  MaxTaskAttempts = 1
  MaxCrashes = 1
PROPERTIES
  AttemptsSettle
