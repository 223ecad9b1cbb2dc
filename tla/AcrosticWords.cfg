CONSTANTS
  Letters <- TwoLetters
  Tokens <- WordTokens
  Secret <- SecretAB
  MaxFailStreak = 2
  MaxPrefixTokens = 2
  MaxTokens = 5
  MaxPreemptions = 1
SPECIFICATION Spec
INVARIANT TypeOK
INVARIANT DetectorAgreesUnlessGivenUp
INVARIANT ReplayFindsBias
INVARIANT HitsAreCommonSubsequence
INVARIANT BiasWhereCounted
PROPERTY GivesUpStuck
