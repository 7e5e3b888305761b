\* One request at a time, two sandboxes; posts fail, processes restart.
SPECIFICATION Spec
CONSTANTS
  a = a
  b = b
  t1 = t1
  t2 = t2
  Name = {a, b}
  Thread = {t1}
  Token <- MCToken
  SecretLists <- MCSecretLists
  OwnLists <- MCOwnLists
  MaxRule = 4
  MaxLists = 4
  Texts <- MCTexts
  Faults = {"create", "list", "exec", "restart"}
SYMMETRY Sandboxes
CHECK_DEADLOCK FALSE
INVARIANTS TypeOK AckedIsCurrent NoSidecarForgotten SentinelsBecomeDaemonsValues RedactionComplete
PROPERTIES RulesReplicated SecretsReplicated
