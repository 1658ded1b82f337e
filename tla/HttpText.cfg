SPECIFICATION Spec
CONSTANTS
  Lexemes <- MCLexemes
  Upper <- MCUpper
  Inputs <- MCInputs
  Directory <- MCDirectory
  SizeMax = 255
INVARIANTS
  ValidExactly
  HeadersReadBack
  KeptExactly
  CgiCommandLine
  TypedByExtension
CHECK_DEADLOCK FALSE
