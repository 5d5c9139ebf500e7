SPECIFICATION Spec
CONSTANTS
  MaxInt = 3
  MaxInt64 = 511
  MantissaBits = 6
  Precision = 2
  RightMargin = 12
  IndentSize = 1
  Scalars <- MCScalars
  Names <- MCNames
  Indices <- MCIndices
  Gaps <- MCGaps
  MaxOps = 4
  MaxDamaged = 3
INVARIANTS
  RoundTrip
  RefusalsExplained
  ValuesAgree
CHECK_DEADLOCK FALSE
