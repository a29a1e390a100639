SPECIFICATION MCSpec
CONSTANTS
  Tool = {t1, t2}
  Web = {w1}
  Note = {n1}
  Schema = schema_yml
  Body <- MCBody
  Initial = plain
  Language <- MCLanguage
  LanguageOf <- MCLanguageOf
  Digests = FALSE
  Pages = TRUE
  NoteTexts <- PlainOrGone
  SchemaTexts <- MCBody
  MaxWrites = 1
  MaxFailures = 0
  MaxRestarts = 0
  Absent = Absent
  Unknown = Unknown
  plain = plain
  other = other
  t1 = t1
  t2 = t2
INVARIANT ShownAtOnce
CHECK_DEADLOCK FALSE
