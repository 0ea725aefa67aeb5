SPECIFICATION SpecLibrary
CONSTANTS
  Keys = {"a", "b", "7", "a2"}
  Name <- MCName
  Syms = {"a", "b"}
  Numbers = {"7"}
  Empty = ""
  Vals = {"x", "y"}
  None = "None"
  Bits = 4
  HashCodes <- MCHashCodes
  Refs = {"r"}
  Nil = "nil"
  Junk = "junk"
  MaxSize = 5
  DIGITS = 3
  MaxInt = 25
  All = All
  FramesPerTick = 3
  CHUNK = 3
  Strings <- MCStrings
  Raws <- MCRaws
  Exps <- MCExps
  Ints <- MCInts
  Texts <- MCTexts
  Delimiters <- MCDelimiters
  Places <- MCPlaces
  Formats <- MCFormats
  LEXEMES <- MCLexemes
  Sources <- MCSources
  Bytes <- MCBytes
  Characters <- MCCharacters
  Buffers <- MCBuffers
  Values <- MCValues
  EventLists <- MCEventLists
  Uspqn = 500000
  Bends <- MCBends
  SoundLengths <- MCSoundLengths
INVARIANTS RecordsOK NumbersOK TextOK BytesOK ExportsOK
PROPERTY ImplementsCollections
CHECK_DEADLOCK FALSE
