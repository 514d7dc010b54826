CONSTANTS
  MAX_CMDLINE_SLOT = 4
  Word <- MCWord
  Lines <- MCLines
  atoi <- MCatoi
  stricmp <- MCstricmp
SPECIFICATION Spec
INVARIANT ParsedAsGiven
INVARIANT FirstWordsDecide
CHECK_DEADLOCK FALSE
