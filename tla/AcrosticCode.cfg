CONSTANTS
  Letters <- TwoLetters
  Tokens <- CodeTokens
  Secret <- SecretAB
  MaxFailStreak = 2
  MaxPrefixTokens = 9
  MaxTokens = 5
  MaxPreemptions = 0
SPECIFICATION Spec
INVARIANT DetectorAgreesUnlessGivenUp
