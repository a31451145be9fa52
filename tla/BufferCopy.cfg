CONSTANTS
  Texts <- MCTexts
  Space = 16
  PAGE_SIZE = 4
  CHUNK = 4
  WORD = 2
SPECIFICATION Spec
INVARIANTS
  CompareExact
  ReadsBacked
