\* Searches in texts of up to six letters, and small headers; buffers of a few characters.
SPECIFICATION FairSpec
CONSTANTS
  Char <- SampleChars
  Swap <- SampleSwap
  Inputs <- SampleInputs
  UrlBuf = 6
  PathBuf = 3
  ValueBuf = 2
  FieldBuf = 4
  IntMax = 127
  LongMax = 511
CHECK_DEADLOCK FALSE
INVARIANTS
  FirstOccurrence
  UrlIsTarget
  ParameterIsFirst
  FieldIsFirstLine
  LengthIsNumber
PROPERTY SearchEnds
