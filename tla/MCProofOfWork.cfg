SPECIFICATION Spec
CONSTANTS
  ByteBits = 2
  HashBytes = 2
  IDBytes = 1
  MaxBits = 3
  DefaultPoWDifficulty = 1
  MaxAttempts = 3
  Margin = 1
  NonceWords = 8
  DifficultyWords = 4
  NoNonce = NoNonce
INVARIANTS
  TypeOK
  CheckersAgree
  LeastSolution
  MinedIDValidates
PROPERTY SearchEnds
