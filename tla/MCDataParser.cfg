CONSTANTS
  Chars <- MCChars
  Docs <- MCDocs
  Written <- MCWritten
  Typos <- MCTypos
SPECIFICATION Spec
INVARIANTS TypeOK ParsedIsDocument ReadsText
PROPERTIES ParseEnds Progresses
CHECK_DEADLOCK FALSE
