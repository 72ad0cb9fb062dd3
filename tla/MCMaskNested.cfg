\* Prompts of two tokens, in which a key may be what is assigned.
CONSTANTS
  Keys = {"sk"}
  Values = {"pw"}
  Addresses = {"10.0.0.1"}
  Benign = {}
  Words = {"w"}
  Placeholders <- MCPlaceholders
  MaxTokens = 2
SPECIFICATION CodecSpec
INVARIANT Lossless
CHECK_DEADLOCK FALSE
