SPECIFICATION Spec
CONSTANTS
  FirstTokens <- MCFirstTokens
  Tokens <- MCTokens
  LastLens <- MCLastLens
  MaxTokens = 2
INVARIANTS
  TokensReadBack
  SectionsKeepShare
CHECK_DEADLOCK FALSE
