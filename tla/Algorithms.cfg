\* One byte takes 4 values, a target has 3 bytes; a block has up to 3
\* transactions, each of which makes its target 1/3 easier.
SPECIFICATION Spec
CONSTANTS
  Base = 4
  Size = 3
  Divide = 3
  Scales = {3, 4, 5, 6}
  Octet = 5
  Radix = 3
  Length = 3
  MaxText = 6
  MaxLexemes = 4
  Byte = 8
  Migration = 5
  Unread = Unread
  FreqSlack = 2
  MaxWorkers = 8
CONSTANTS
  Weight <- Powers
  Power <- PowersOf8
  RewardTransactions <- SomeTransactions
  JobBlocks <- SomeBlocks
  Nonces <- SomeNonces
  Hashes <- SomeHashes
  Machines <- SomeMachines
INVARIANTS
  TargetIsExact
  HashedAsSent
  WorkersSpread
  TextIsExact
CHECK_DEADLOCK FALSE
