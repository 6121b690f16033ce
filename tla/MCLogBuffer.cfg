\* Six elements hold five characters: every text wraps somewhere, and a line of
\* two characters can end in the first block, at its end, or behind it.
CONSTANTS
  Size = 6
  LineSize = 2
  a = a
  b = b
  NewLine = NewLine
  End = End
  Junk = Junk
  Chars <- MCChars
  Texts <- MCTexts

SPECIFICATION Spec

INVARIANTS
  TypeOK
  Terminated

PROPERTY KeepsPromise
