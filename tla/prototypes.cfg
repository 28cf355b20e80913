CONSTANTS
  MaxMessage = 130
  PieceSizes = {0, 1, 55, 64, 130}
  Junk <- Ones
  Byte <- Bytes
  Pieces <- MCPieces
  BlockValue = {"a", "b", "c"}
  MaxBlocks = 5
  sha256 <- FreeHash
  LeafValue = {"0", "a"}
  depth = 3
  Padding = "0"
SPECIFICATION MCSpec
INVARIANTS IInv OwnVerified SparseIsWhole
PROPERTY DigestOfMessage
