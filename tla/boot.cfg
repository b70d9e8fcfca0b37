CONSTANTS
  Envs <- AllEnvs
  Tokens <- AllTokens
  IntOf <- IntegerOf
  Decimals <- DecimalNumerals
  ValidKeys <- Keys
  UvicornLevels <- Levels
  MaxWaiters = 2
SPECIFICATION FairSpec
CHECK_DEADLOCK FALSE
INVARIANTS StartupTypeOK ReadyToServe LockOutlivesBoot AddressRoundTrip BlankMeansUnset
PROPERTIES BootDecides
