SPECIFICATION PkSpec
CONSTANTS
  WordBits = 4
  CharBits = 2
  MaxWords = 8
  Fields <- MCFields
  MaxFields = 2
  MaxRounds = 2
INVARIANTS BufferIsStream RoundTrip
CHECK_DEADLOCK FALSE
