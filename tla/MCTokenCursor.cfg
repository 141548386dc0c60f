\* five tokens, three of them ">>"; three save handles; two tokens of lookahead
SPECIFICATION Spec
CONSTANTS
  None = None
  TextLen <- MCTextLen
  Text <- MCText
  MaxHandles = 3
  MaxLookahead = 2
INVARIANTS
  TypeOK
  CursorCoherent
PROPERTIES
  ReadsLikeOneCursor
