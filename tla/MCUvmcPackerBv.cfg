SPECIFICATION PkSpec
CONSTANTS
  WordBits = 4
  CharBits = 2
  MaxWords = 8
  Fields <- MCWideFields
  MaxFields = 2
  MaxRounds = 2
INVARIANT RoundTrip
CHECK_DEADLOCK FALSE
