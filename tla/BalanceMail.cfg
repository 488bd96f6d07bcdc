CONSTANTS
  a = a
  b = b
  x = x
  None = None
  Slugs = {a, b, x}
  Minimum <- MCMinimum
  Values = {0, 1, 2, 3, 4}
  Quotes = {0, 5, 7}
  Shown <- MCShown
  Answers <- MCAnswers
SPECIFICATION Spec
INVARIANTS
  NoLowMissed
  NoFalseAlarm
