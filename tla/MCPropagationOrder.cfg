\* Two requests at a time; no call fails.
SPECIFICATION Spec
CONSTANTS
  a = a
  b = b
  t1 = t1
  t2 = t2
  Name = {a}
  Thread = {t1, t2}
  Token <- MCToken
  SecretLists <- MCSecretLists
  OwnLists <- MCOwnLists
  MaxRule = 4
  MaxLists = 4
  Texts <- MCTexts
  Faults = {}
CHECK_DEADLOCK FALSE
INVARIANT AckedIsCurrent
