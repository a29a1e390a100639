SPECIFICATION MCFairSpec
CONSTANTS
  Tool = {t1, t2}
  Web = {w1}
  Note = {n1}
  Schema = schema_yml
  Body <- MCBody
  Initial = plain
  Language <- MCLanguage
  LanguageOf <- MCLanguageOf
  Digests = FALSE
  Pages = TRUE
  NoteTexts <- PlainOrGone
  SchemaTexts <- MCBody
  MaxWrites = 2
  MaxFailures = 1
  MaxRestarts = 1
  Absent = Absent
  Unknown = Unknown
  plain = plain
  other = other
  t1 = t1
  t2 = t2
INVARIANT TypeOK
INVARIANT ShownInTurn
INVARIANT RowTrue
PROPERTY RowsFollow
PROPERTY SettlesInTurns
CHECK_DEADLOCK FALSE
