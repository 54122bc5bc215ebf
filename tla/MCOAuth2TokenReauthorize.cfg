SPECIFICATION OAuthSpec
CONSTANTS
  k1 = k1
  k2 = k2
  NoCall = NoCall
  Calls = {k1}
  MaxTokens = 3
PROPERTIES
  ReauthorizationIsUsed
