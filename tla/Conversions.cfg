\* Patterns of 7 characters or 4 items; values and documents of 2 elements.
CONSTANTS
  Letter = {"m", "q", "d", "N"}
  Char <- Chars
  Piece <- Pieces
  Word = {"", "~", "1", "2", "x"}
  Digits = {"1", "2"}
  Types <- SmallTypes
  Key = {"a", "b", "X"}
  BadKey = {"X"}
  Member <- Nodes
  MaxPattern = 7
  MaxPieces = 4
  MaxElements = 2
SPECIFICATION Spec
INVARIANTS  PatternsParse RoundTrips MapsLoadWhole MembersListed
CHECK_DEADLOCK FALSE
