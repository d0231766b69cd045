CONSTANTS
  tokens <- MCtokens
  keywords <- MCkeywords
  num_keywords = 26
  Other = {"b", "d", "1", "_", ".", "=", "@"}
  MaxOther = 3
SPECIFICATION Spec
INVARIANTS
  TypedByTables
  LongestMatch
  NoLiteralIsTrue
