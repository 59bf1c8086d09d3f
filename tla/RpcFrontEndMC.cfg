CONSTANTS
  Letters = {"i", "f"}
  Digits = {"1"}
  Operators = {"("}
  KeywordTexts <- Keyword
  Files <- ShortFiles
  Behind <- Memory
  MaxFile = 5
  Names = {"x", "y"}
  Sources <- AllSources
  ValidTexts <- WideValid
  AllocMayFail = TRUE
  Items = {a, b}
  Null = Null
  Junk = Junk
  InitCap = 2
  RawStructs <- RecycledMemory
  MaxTotal = 5

SPECIFICATION FrontEndSpec

CHECK_DEADLOCK FALSE

INVARIANTS
  TokensExact
  ParsesExactly
  RejectsOnlyInvalid
  ReleasesAll
  WildOnlyRecycled

PROPERTIES
  LexerTerminates
  ParserTerminates
  ResizeSettles
  ActsAsList
