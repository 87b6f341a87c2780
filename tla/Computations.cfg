SPECIFICATION ComputationsSpec
CONSTANTS
  Makers = {"feeData", "metaTransaction", "app"}
  Payloads <- CallData
  Costs = {0, 30000}
  BaseFees <- FirstBaseFees
  Tips = {0, 15}
  FixedTip = 15
  gtxDataNonZero = 16
  gtxDataZero = 4
  MaxBlocks = 6
  MaxRelays = 2

  ByteBits = 4
  WordBytes = 2
  BlockWords = 8
  Hashes = {"sha256", "sha512", "ripemd160", "sha3", "keccak"}
  Chunks = {0, 1, 7, 15, 16, 17, 40}
  MaxMessage = 76
  Letters <- SomeLetters

  DigestWords <- MixedWords
  Phrases <- SomePhrases
  Passphrases <- SomePassphrases
  MaxPhrase = 30
  MaxPassphrase = 9
  CacheSize = 2
  Rounds = 6
  Parts = 3
  MaxSeeds = 4

  LimbCount = 3
  LimbBits = 9
  Moduli <- BothModuli
  StartWords <- SomeWords
  Operands <- SomeOperands
  Divisors = {58, 10}
  FactorBound = 8
  MaxOperations = 2

  RegisterWords = 3
  RegisterBits = 4
  InverseInputs <- SomeInputs

  Curves <- BothCurves
  WindowBits = 2
  Factors <- SomeFactors
  BasePoints = {1, 4192338, 777}
  RandomZ <- SomeZs

  SigningCurves <- OneCurve
  PrivateKeys = {1, 31337}
  DigestValues = {0, 5, 4192753, 966595}
  Nonces = {0, 1, 7, 7183, 4192753, 4194303}
  ForgedNumbers = {0, 1, 174, 3226158, 2096379, 4192752, 4192753}
  MaxTries = 2

  GroupOrder = 7
  KeyBound = 13
  Seeds <- SomeSeeds
  ChainCodes = {0, 1, 2}
  Mac <- SomeMac
  CurveName = 0
  Hardened = {8}
  Unhardened = {0}
  NodeCacheSize = 2
  MaxDepth = 2
  DepthBytes = 4
  Paths <- SomePaths
  MaxLevel = 1

  ByteRadix = 32
  TextRadix = 13
  CheckBytes <- SomeCheck
  KeyHash <- SomeKeyHash
  HashByte <- SomeHashByte
  EncodedData <- SomeData
  StringSizes = {6, 40}
  MoreBytes = {0, 1, 2}
  EncodedKeys <- SomeKeys
  HashLength58 = 2
  Versions <- SomeVersions
  PhraseData <- SomePhraseData
  SignatureParts <- SomeParts

  BlockBytes = 4
  BufferBlocks = 2
  Encipher <- SomeCipher
  Decipher <- SomeDecipher
  PlainText <- SomePlainText
  FirstIv <- SomeIv
  Pieces = {0, 1, 3, 4, 5, 8, 13}

  RoundConstant <- SomeConstant
  CipherKeys <- SomeCipherKeys
  Plain <- SomeBlock
  Depth = 2
  HashInput <- SomeInput
INVARIANTS
  TypeOK GasAsEstimated GasCoversCall FeeLasts
  HashesMessage SeedIsDefined NumbersAgree MultipliesPoint SignaturesVerify VerifiesAsDefined
  CachedAsDerived PublicFollowsPrivate DecodesBack CipherStreams BlocksAsDefined
PROPERTIES InverseByAlgorithm
CHECK_DEADLOCK FALSE
